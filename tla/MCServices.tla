------------------------------ MODULE MCServices ------------------------------
(***************************************************************************)
(* Instances for TLC of five parts of a node that share no state here: the *)
(* upload sessions, the pull-through, the observers of pushes, the         *)
(* retention sweep and the schema migrations.  A behaviour is one of what  *)
(* part names; the others keep their initial state.  The first four come   *)
(* from Services, the migrations are instantiated here; what this module   *)
(* defines itself is named after the services.                             *)
(***************************************************************************)
EXTENDS Services, TLC

CONSTANTS Image, Index, Layer, Target, Other, Report, Stable, Nightly, Latest, MaxStarts

VARIABLES part, dialect, schemaVersion, columns, holds, stale, proc, starts, before

OneChunk == <<1>>
SmallBudgets == {[requests |-> 3, events |-> 0], [requests |-> 2, events |-> 1]}

TwoBases == <<"index1", "index2">>

Scenario(auth, username, private, kinds, p, f, t) ==
  [config |-> [auth |-> auth, username |-> username, private |-> private],
   kinds |-> kinds, pulls |-> p, faults |-> f, ticks |-> t]

SixScenarios ==
  {Scenario("token", TRUE, FALSE, {"manifest", "blob"}, 2, 1, 0),
   Scenario("token", TRUE, FALSE, {"tag"}, 3, 2, 0),
   Scenario("token", TRUE, FALSE, {"tag"}, 3, 0, 1),
   Scenario("token", FALSE, TRUE, {"manifest"}, 2, 1, 0),
   Scenario("basic", TRUE, FALSE, {"tag", "blob"}, 2, 1, 0),
   Scenario("none", FALSE, FALSE, {"project", "module"}, 2, 2, 1)}

ImageAndIndex == {Image, Index}
OneLayer      == (Image :> {Layer}) @@ (Index :> {})
OneEntry      == (Image :> {}) @@ (Index :> {Image})

Setup(scanner, matched, n, p, f) ==
  [scanner |-> scanner, matched |-> matched, pushes |-> p, faults |-> f,
   clients |-> CHOOSE some \in SUBSET Pushers : Cardinality(some) = n]

\* Three pushes of one client, or two that may overlap.
FiveSetups ==
  {Setup(FALSE, {Target}, 1, 3, 1), Setup(TRUE, {Target}, 1, 2, 0), Setup(TRUE, {}, 1, 3, 1),
   Setup(FALSE, {Target}, 2, 2, 1), Setup(TRUE, {}, 2, 2, 1)}

ImagesAndReport == ImageAndIndex \union {Report}
ThreeTags       == {Stable, Nightly, Latest}
OneParent       == OneEntry @@ (Report :> {})
OneReferrer     == (Image :> None) @@ (Index :> None) @@ (Report :> Image)

Retain(n, age, pins) == [keepLastN |-> n, maxAge |-> age, pinned |-> pins]

Policy(defaults, perRepo, cap, batch, owned, p, e) ==
  [defaults |-> defaults, perRepo |-> perRepo, perCycle |-> cap, batch |-> batch,
   owned |-> owned, pushes |-> p, events |-> e]

ThreePolicies ==
  {Policy(Retain(1, FALSE, {Latest}), Retain(0, FALSE, None), 0, 2, FALSE, 3, 0),
   Policy(Retain(0, TRUE, {}), Retain(0, FALSE, {Latest}), 1, 1, TRUE, 2, 0),
   Policy(Retain(2, FALSE, {Latest}), Retain(1, FALSE, {}), 1, 1, TRUE, 2, 1)}

M == INSTANCE Migration

ASSUME PullsConfigured  == P!PullAssumption
ASSUME PushesConfigured ==
  O!ObserversAssumption /\ \E rank \in [Images -> 0 .. 1] : O!Ranked(rank)
ASSUME SweepsConfigured == R!RetentionAssumption

pullVars   == <<config, locked, remote, breaker, token, challenge, flights, pull, repo, manifests,
                tag, blob, pullHistory, pullBudget>>
pushVars   == <<local, localTag, push, queue, worker, session, copies, dropped, scanQueue, scan,
                pushHistory, pushBudget>>
sweepVars  == <<kept, old, tagList, aged, repush, sweep, tomb, published, reused, crossed, cut,
                named, withdrawn, policy>>
schemaVars == <<dialect, schemaVersion, columns, holds, stale, proc, starts, before>>
allVars    == <<part, vars, pullVars, pushVars, sweepVars, schemaVars>>

ServicesInit ==
  /\ part \in {"uploads", "pulls", "pushes", "retention", "migration"}
  /\ Init /\ P!Init /\ O!Init /\ R!Init /\ M!Init
  /\ part = "uploads" \/ budget = CHOOSE b \in UploadBudgets : TRUE
  /\ part = "pulls" \/ (~locked /\ pullBudget = CHOOSE s \in Scenarios : TRUE)
  /\ part = "pushes" \/ pushBudget = CHOOSE b \in Setups : TRUE
  /\ part = "retention" \/ policy = CHOOSE p \in Policies : TRUE
  /\ part = "migration" \/ (dialect = "sqlite" /\ schemaVersion = {})

OfUploads(step) ==
  part = "uploads" /\ step /\ UNCHANGED <<part, pullVars, pushVars, sweepVars, schemaVars>>
OfPulls(step) ==
  part = "pulls" /\ step /\ UNCHANGED <<part, vars, pushVars, sweepVars, schemaVars>>
OfPushes(step) ==
  part = "pushes" /\ step /\ UNCHANGED <<part, vars, pullVars, sweepVars, schemaVars>>
OfRetention(step) ==
  part = "retention" /\ step /\ UNCHANGED <<part, vars, pullVars, pushVars, schemaVars>>
OfMigration(step) ==
  part = "migration" /\ step /\ UNCHANGED <<part, vars, pullVars, pushVars, sweepVars>>

ServicesNext ==
  \/ OfUploads(Next)
  \/ OfPulls(P!Next)
  \/ OfPushes(O!Next)
  \/ OfRetention(R!Next)
  \/ OfMigration(M!Next)

\* The fairness that UploadSession states.
ServicesFairness ==
  /\ \A g \in Requests : SF_allVars(OfUploads(Serve(g) \/ Release(g)))
  /\ \A g \in Cleaners : WF_allVars(OfUploads(CleanExpiredUploads(g) \/ Clean(g) \/ Release(g)))
  /\ \A u \in Uploads : WF_allVars(OfUploads(Expire(u))) /\ WF_allVars(OfUploads(GrowIdle(u)))

ServicesSpec == ServicesInit /\ [][ServicesNext]_allVars /\ ServicesFairness
-----------------------------------------------------------------------------
\* See Migration: migrate can be interrupted anywhere and run again.
UpgradeLosesNothing == M!UpgradeLosesNothing
=============================================================================
