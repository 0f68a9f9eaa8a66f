----------------------------- MODULE PullThrough -----------------------------
(***************************************************************************)
(* Pull-through of what is not stored here: images of a configured         *)
(* upstream registry (getBlob, getManifest and getTag of                   *)
(* internal/oci/handler.go over internal/upstream/fetcher.go) and project  *)
(* indexes and Go modules of a list of upstream bases                      *)
(* (internal/upstream/pypi.go, goproxy.go), behind the circuit breakers of *)
(* internal/upstream/circuit.go.                                           *)
(*                                                                         *)
(* One upstream repository is pulled.  Every request upstream, every       *)
(* statement and every section under a mutex is a step.  Concurrent calls  *)
(* are coalesced by singleflight: one leads, the others wait for its       *)
(* result.  singleflight's function looks at the cache again, so that      *)
(* looking and entering is one step.                                       *)
(***************************************************************************)
EXTENDS Naturals, Sequences, FiniteSets

CONSTANTS
  Pulls,        \* goroutines that serve pulls
  Nobody, NoDigest,
  Digests,      \* manifests that the upstream repository holds
  Bases,        \* the bases of the package fetchers, a sequence
  Threshold,    \* circuitThreshold
  Scenarios     \* config (config.Upstream: auth, username configured, private)
                \*   and kinds of pulls, with the bounds of a behaviour: pulls,
                \*   faults (of a request or of a statement), ticks (something
                \*   expires, or upstream moves its tag)

\* Nobody is no pull, upstream has something, and the package fetchers, which
\* run only when enabled, have a base to ask.
PullAssumption ==
  /\ Nobody \notin Pulls /\ Digests # {}
  /\ Len(Bases) \in Nat \ {0} /\ DOMAIN Bases = 1 .. Len(Bases)
  /\ \A s \in Scenarios :
       s.config \in [auth : {"token", "basic", "none"}, username : BOOLEAN, private : BOOLEAN]

VARIABLES
  config,     \* reg.config
  locked,     \* upstream wants credentials for the repository
  remote,     \* the manifest that upstream's tag names
  breaker,    \* circuitBreaker: failures, and openUntil seen from now
  token,      \* reg.tokenCache[repo]
  challenge,  \* reg.challenge.done
  flights,    \* the two singleflight groups
  pull,       \* the goroutines
  repo,       \* the packages row of the repository: exists, private
  manifests,  \* its package_versions
  tag,        \* its package_tags row
  blob,       \* the layer of its manifests: the blobs row, the file
  history,    \* two pulls have overlapped; a mark was not written; a fault
  budget

fetcher == <<breaker, token, challenge, flights>>
stored  == <<repo, manifests, tag, blob>>
given   == <<config, locked>>
vars    == <<given, remote, fetcher, pull, stored, history, budget>>

ImageKinds == {"tag", "manifest", "blob"}
IndexKinds == {"project", "module"}   \* PyPIFetcher, GoFetcher
FlightKeys == {"anonymous", "credentials", "discover"} \union IndexKinds
Breakers   == {"registry"} \union {Bases[i] : i \in DOMAIN Bases}

NoToken  == [known |-> FALSE, credentialsUsed |-> FALSE, fresh |-> FALSE]
NoFlight == [leader |-> Nobody, waiters |-> {}]
Closed   == [failures |-> 0, openUntil |-> "none"]

Idle == [at |-> "idle", kind |-> "none", want |-> NoDigest, got |-> NoDigest,
         retried |-> FALSE, trusted |-> FALSE, private |-> FALSE,
         base |-> 0, missing |-> 0, outcome |-> "none"]

Init ==
  /\ locked \in BOOLEAN /\ remote = CHOOSE d \in Digests : TRUE
  /\ breaker = [k \in Breakers |-> Closed]
  /\ token = NoToken /\ challenge = FALSE
  /\ flights = [k \in FlightKeys |-> NoFlight]
  /\ pull = [p \in Pulls |-> Idle]
  /\ repo = [exists |-> FALSE, private |-> FALSE]
  /\ manifests = {} /\ tag = NoDigest /\ blob = [row |-> FALSE, file |-> FALSE]
  /\ history = [overlap |-> FALSE, unmarked |-> FALSE, fault |-> FALSE]
  /\ budget \in Scenarios /\ config = budget.config
-----------------------------------------------------------------------------
Spend(kind) == budget[kind] > 0 /\ budget' = [budget EXCEPT ![kind] = @ - 1]
Fault       == Spend("faults") /\ history' = [history EXCEPT !.fault = TRUE]
NoFault     == UNCHANGED <<budget, history>>

Goto(p, step) == pull' = [pull EXCEPT ![p].at = step]
Answered(o)   == [Idle EXCEPT !.outcome = o]
Return(p, o)  == pull' = [pull EXCEPT ![p] = Answered(o)]
-----------------------------------------------------------------------------
(***************************************************************************)
(* The circuit breaker.                                                    *)
(***************************************************************************)
Key(p) == IF pull[p].kind \in ImageKinds THEN "registry" ELSE Bases[pull[p].base]

IsOpen(k) == breaker[k].openUntil = "ahead"

\* isOpen forgets an expired circuit.
ForgetExpired(k) ==
  breaker' = IF breaker[k].openUntil = "past" THEN [breaker EXCEPT ![k] = Closed] ELSE breaker

RecordSuccess(k) == breaker' = [breaker EXCEPT ![k] = Closed]

RecordFailure(k) ==
  LET n == breaker[k].failures + 1 IN
  breaker' = [breaker EXCEPT ![k] =
    [failures  |-> n,
     openUntil |-> IF n >= Threshold /\ @.openUntil = "none" THEN "ahead" ELSE @.openUntil]]

\* time.Now() passes openUntil.
CircuitExpires(k) ==
  /\ IsOpen(k) /\ Spend("ticks")
  /\ breaker' = [breaker EXCEPT ![k].openUntil = "past"]
  /\ UNCHANGED <<given, remote, token, challenge, flights, pull, stored, history>>
-----------------------------------------------------------------------------
(***************************************************************************)
(* singleflight.Group.Do: Enter makes a caller the leader or lets it wait; *)
(* Landed is what the callers are when the leader's function has returned  *)
(* and f is applied to each.                                               *)
(***************************************************************************)
Enter(p, k, step) ==
  IF flights[k].leader = Nobody
  THEN flights' = [flights EXCEPT ![k].leader = p] /\ Goto(p, step)
  ELSE flights' = [flights EXCEPT ![k].waiters = @ \union {p}] /\ Goto(p, "wait")

Landed(k, f(_)) ==
  [q \in Pulls |-> IF q = flights[k].leader \/ q \in flights[k].waiters
                   THEN f(pull[q]) ELSE pull[q]]

Land(k) == flights' = [flights EXCEPT ![k] = NoFlight]
-----------------------------------------------------------------------------
(***************************************************************************)
(* A pull of the image: what is stored here is served.                     *)
(***************************************************************************)
\* History: two pulls of the image overlap.
Start(p, kind, want) ==
  /\ pull[p].at = "idle" /\ kind \in budget.kinds /\ Spend("pulls")
  /\ pull' = [pull EXCEPT ![p] = [Idle EXCEPT !.kind = kind, !.want = want,
                !.at = IF kind \in ImageKinds THEN "lookup" ELSE "coalesce"]]
  /\ history' = [history EXCEPT !.overlap =
                   @ \/ \E q \in Pulls : pull[q].at # "idle"]
  /\ UNCHANGED <<given, remote, fetcher, stored>>

\* getTag and getManifest: GetManifestByTag, GetManifestByDigest.
GetManifest(p) ==
  /\ pull[p].at = "lookup" /\ pull[p].kind \in {"tag", "manifest"}
  /\ IF \/ pull[p].kind = "tag" /\ tag # NoDigest
        \/ pull[p].kind = "manifest" /\ pull[p].want \in manifests
     THEN Return(p, "served") ELSE Goto(p, "circuit")
  /\ UNCHANGED <<given, remote, fetcher, stored, history, budget>>

\* BlobExistsInRepo: a version of the repository refers to the blob and its row exists.
BlobExistsInRepo == manifests # {} /\ blob.row

GetBlob(p) ==
  /\ pull[p].at = "lookup" /\ pull[p].kind = "blob"
  /\ IF ~BlobExistsInRepo THEN Goto(p, "circuit")
     ELSE IF blob.file THEN Return(p, "served") ELSE Goto(p, "peers")
  /\ UNCHANGED <<given, remote, fetcher, stored, history, budget>>

\* fetchBlobFromPeers: a peer has the blob and it is stored, or none has.
FetchBlobFromPeers(p) ==
  /\ pull[p].at = "peers"
  /\ \/ blob' = [row |-> TRUE, file |-> TRUE] /\ Return(p, "served") /\ NoFault
     \/ Fault /\ Return(p, "failed") /\ UNCHANGED blob
  /\ UNCHANGED <<given, remote, fetcher, repo, manifests, tag>>
-----------------------------------------------------------------------------
(***************************************************************************)
(* fetchManifestWithRetry and fetchBlobStreamWithRetry: the breaker, the   *)
(* token, the request.                                                     *)
(***************************************************************************)
CheckCircuit(p) ==
  /\ pull[p].at = "circuit" /\ pull[p].kind \in ImageKinds
  /\ ForgetExpired("registry")
  /\ IF IsOpen("registry") THEN Return(p, "failed") ELSE Goto(p, "auth")
  /\ UNCHANGED <<given, remote, token, challenge, flights, stored, history, budget>>

\* Mutant: an anonymous token serves a pull that was refused with one.
UsableAnyway(p) == token.fresh

\* A cached token serves, unless it is anonymous and credentials are wanted.
Usable(p) == token.fresh /\ (token.credentialsUsed \/ ~pull[p].retried)

\* Whether the upstream takes a token for one of the configured account.
Trusted(used) == used /\ config.username

TokenFlight(p) == IF pull[p].retried THEN "credentials" ELSE "anonymous"

\* addAuth, with the cache of getToken.
AddAuth(p) ==
  /\ pull[p].at = "auth"
  /\ \/ /\ config.auth # "token" \/ Usable(p)
        /\ pull' = [pull EXCEPT ![p].at = "send", ![p].trusted =
             IF config.auth = "token" THEN Trusted(token.credentialsUsed)
             ELSE config.auth = "basic" /\ config.username]
        /\ UNCHANGED flights
     \/ /\ config.auth = "token" /\ ~Usable(p)
        /\ Enter(p, TokenFlight(p), "discover")
  /\ UNCHANGED <<given, remote, breaker, token, challenge, stored, history, budget>>

\* discoverChallenge, called by the leader of a token flight: once per registry.
DiscoverChallenge(p) ==
  /\ pull[p].at = "discover"
  /\ IF challenge THEN Goto(p, "exchange") /\ UNCHANGED flights
     ELSE Enter(p, "discover", "probe")
  /\ UNCHANGED <<given, remote, breaker, token, challenge, stored, history, budget>>

\* The probe, on the context of its leader.
Probe(p) ==
  /\ pull[p].at = "probe" /\ Land("discover")
  /\ \/ /\ NoFault /\ challenge' = TRUE
        /\ pull' = Landed("discover", LAMBDA r : [r EXCEPT !.at = "exchange"])
     \/ /\ Fault /\ UNCHANGED challenge
        /\ pull' = Landed("discover", LAMBDA r : [r EXCEPT !.at = "undiscovered"])
  /\ UNCHANGED <<given, remote, breaker, token, stored>>

\* Mutant: the leader returns without landing the flight.
UndiscoveredAlone(p) ==
  /\ pull[p].at = "undiscovered"
  /\ RecordFailure("registry")
  /\ Return(p, "failed")
  /\ UNCHANGED <<given, remote, token, challenge, flights, stored, history, budget>>

\* fetchToken without a challenge counts a failure.
Undiscovered(p) ==
  /\ pull[p].at = "undiscovered"
  /\ RecordFailure("registry")
  /\ Land(TokenFlight(p))
  /\ pull' = Landed(TokenFlight(p), LAMBDA r : Answered("failed"))
  /\ UNCHANGED <<given, remote, token, challenge, stored, history, budget>>

\* fetchToken: the token is cached for the repository and handed to the flight.
FetchToken(p) ==
  /\ pull[p].at = "exchange" /\ Land(TokenFlight(p))
  /\ \/ /\ NoFault
        /\ token' = [known |-> TRUE, credentialsUsed |-> pull[p].retried, fresh |-> TRUE]
        /\ pull' = Landed(TokenFlight(p), LAMBDA r :
             [r EXCEPT !.at = "send", !.trusted = Trusted(pull[p].retried)])
     \/ /\ Fault /\ UNCHANGED token
        /\ pull' = Landed(TokenFlight(p), LAMBDA r : Answered("failed"))
  /\ UNCHANGED <<given, remote, breaker, challenge, stored>>

\* time.Now() passes expiresAt.
TokenExpires ==
  /\ token.fresh /\ Spend("ticks")
  /\ token' = [token EXCEPT !.fresh = FALSE]
  /\ UNCHANGED <<given, remote, breaker, challenge, flights, pull, stored, history>>

Accepted(p) == ~locked \/ pull[p].trusted

\* 401: the first time, the cached token is dropped and credentials are used.
Unauthorized(p) ==
  /\ pull[p].at = "send" /\ pull[p].kind \in ImageKinds
  /\ IF Accepted(p) THEN Fault ELSE NoFault
  /\ IF pull[p].retried THEN Return(p, "failed") /\ UNCHANGED token
     ELSE /\ token' = NoToken
          /\ pull' = [pull EXCEPT ![p].at = "circuit", ![p].retried = TRUE]
  /\ UNCHANGED <<given, remote, breaker, challenge, flights, stored>>

\* No answer (the client that hung up included) or 5xx counts, 404 does not.
SendFails(p) ==
  /\ pull[p].at = "send" /\ pull[p].kind \in ImageKinds /\ Fault
  /\ RecordFailure("registry") \/ UNCHANGED breaker
  /\ Return(p, "failed")
  /\ UNCHANGED <<given, remote, token, challenge, flights, stored>>

\* 200; upstream's tag names remote, and a fault changes the body on its way.
SendSucceeds(p) ==
  /\ pull[p].at = "send" /\ pull[p].kind \in ImageKinds /\ Accepted(p)
  /\ RecordSuccess("registry")
  /\ \E d \in Digests :
       /\ pull' = [pull EXCEPT ![p].at = "verify", ![p].got = d]
       /\ IF d = IF pull[p].kind = "tag" THEN remote ELSE pull[p].want
          THEN NoFault ELSE Fault
  /\ UNCHANGED <<given, remote, token, challenge, flights, stored>>
-----------------------------------------------------------------------------
(***************************************************************************)
(* fetchManifestFromUpstream and fetchBlobFromUpstream after the fetch.    *)
(***************************************************************************)
\* A manifest pulled by digest and a blob (in Put) must have that digest.
Verify(p) ==
  /\ pull[p].at = "verify"
  /\ IF pull[p].kind # "tag" /\ pull[p].got # pull[p].want THEN Return(p, "failed") /\ UNCHANGED blob
     ELSE IF pull[p].kind = "blob" THEN Goto(p, "putBlob") /\ blob' = [blob EXCEPT !.file = TRUE]
     ELSE Goto(p, "repository") /\ UNCHANGED blob
  /\ UNCHANGED <<given, remote, fetcher, repo, manifests, tag, history, budget>>

\* PutBlob, whose failure is only logged.
PutBlob(p) ==
  /\ pull[p].at = "putBlob"
  /\ Goto(p, "repository")
  /\ \/ NoFault /\ blob' = [blob EXCEPT !.row = TRUE]
     \/ Fault /\ UNCHANGED blob
  /\ UNCHANGED <<given, remote, fetcher, repo, manifests, tag>>

\* GetOrCreateRepository; a blob is served without its repository.
GetOrCreateRepository(p) ==
  /\ pull[p].at = "repository"
  /\ \/ NoFault /\ repo' = [repo EXCEPT !.exists = TRUE] /\ Goto(p, "classify")
     \/ /\ Fault /\ UNCHANGED repo
        /\ Return(p, IF pull[p].kind = "blob" THEN "served" ELSE "failed")
  /\ UNCHANGED <<given, remote, fetcher, manifests, tag, blob>>

\* Mutant: a token that was dropped or has expired counts as an anonymous one.
IsRepoPrivateNow ==
  config.private \/ (config.username /\ (config.auth = "basic" \/ (token.fresh /\ token.credentialsUsed)))

IsRepoPrivate ==
  \/ config.private
  \/ config.username /\ (config.auth = "basic" \/ ~token.known \/ token.credentialsUsed)

Classify(p) ==
  /\ pull[p].at = "classify"
  /\ pull' = [pull EXCEPT ![p].private = IsRepoPrivate, ![p].at = "mark"]
  /\ UNCHANGED <<given, remote, fetcher, stored, history, budget>>

\* SetRepositoryPrivate, whose failure is only logged.
SetRepositoryPrivate(p) ==
  /\ pull[p].at = "mark"
  /\ \/ repo' = [repo EXCEPT !.private = pull[p].private] /\ NoFault
     \/ /\ Spend("faults") /\ UNCHANGED repo
        /\ history' = [history EXCEPT !.fault = TRUE, !.unmarked = TRUE]
  /\ IF pull[p].kind = "blob" THEN Return(p, "served") ELSE Goto(p, "cache")
  /\ UNCHANGED <<given, remote, fetcher, manifests, tag, blob>>

PutManifestWithLayers(p) ==
  /\ pull[p].at = "cache"
  /\ \/ /\ NoFault /\ manifests' = manifests \union {pull[p].got}
        /\ IF pull[p].kind = "tag" THEN Goto(p, "putTag") ELSE Return(p, "served")
     \/ Fault /\ Return(p, "failed") /\ UNCHANGED manifests
  /\ UNCHANGED <<given, remote, fetcher, repo, tag, blob>>

\* PutTag, whose failure is only logged.
PutTag(p) ==
  /\ pull[p].at = "putTag"
  /\ \/ NoFault /\ tag' = pull[p].got
     \/ Fault /\ UNCHANGED tag
  /\ Return(p, "served")
  /\ UNCHANGED <<given, remote, fetcher, repo, manifests, blob>>
-----------------------------------------------------------------------------
(***************************************************************************)
(* FetchProject and fetchBytes: one walk over the bases for all callers.   *)
(***************************************************************************)
Coalesce(p) ==
  /\ pull[p].at = "coalesce"
  /\ Enter(p, pull[p].kind, "walk")
  /\ UNCHANGED <<given, remote, breaker, token, challenge, stored, history, budget>>

\* The next base, or the result when there is none: only a project that every
\* base has answered with 404 is absent.
NextBase(p) ==
  /\ pull[p].at = "walk"
  /\ IF pull[p].base < Len(Bases)
     THEN /\ pull' = [pull EXCEPT ![p].base = @ + 1, ![p].at = "circuit"]
          /\ UNCHANGED flights
     ELSE /\ Land(pull[p].kind)
          /\ LET absent == pull[p].kind = "project" /\ pull[p].missing = Len(Bases) /\ Len(Bases) > 0
             IN pull' = Landed(pull[p].kind, LAMBDA r : Answered(IF absent THEN "absent" ELSE "failed"))
  /\ UNCHANGED <<given, remote, breaker, token, challenge, stored, history, budget>>

DoCircuit(p) ==
  /\ pull[p].at = "circuit" /\ pull[p].kind \in IndexKinds
  /\ ForgetExpired(Key(p))
  /\ Goto(p, IF IsOpen(Key(p)) THEN "walk" ELSE "send")
  /\ UNCHANGED <<given, remote, token, challenge, flights, stored, history, budget>>

\* do and its caller: every answer below 500 closes the circuit.
Do(p) ==
  /\ pull[p].at = "send" /\ pull[p].kind \in IndexKinds
  /\ \/ /\ RecordSuccess(Key(p)) /\ NoFault /\ Land(pull[p].kind)
        /\ pull' = Landed(pull[p].kind, LAMBDA r : Answered("served"))
     \/ /\ RecordSuccess(Key(p)) /\ Fault /\ UNCHANGED flights
        /\ pull' = [pull EXCEPT ![p].at = "walk", ![p].missing = @ + 1]
     \/ /\ RecordFailure(Key(p)) /\ Fault /\ UNCHANGED flights
        /\ Goto(p, "walk")
     \/ /\ RecordSuccess(Key(p)) /\ Fault /\ Land(pull[p].kind)   \* over the size limit
        /\ pull' = Landed(pull[p].kind, LAMBDA r : Answered("failed"))
  /\ UNCHANGED <<given, remote, token, challenge, stored>>
-----------------------------------------------------------------------------
\* A peer announces the layer: PutBlob with stored_locally = FALSE.
Announced ==
  /\ ~blob.row /\ Fault
  /\ blob' = [blob EXCEPT !.row = TRUE]
  /\ UNCHANGED <<given, remote, fetcher, pull, repo, manifests, tag>>

\* Upstream moves its tag.
Retag ==
  /\ Spend("ticks") /\ remote' \in Digests \ {remote}
  /\ UNCHANGED <<given, fetcher, pull, stored, history>>

Step(p) ==
  \/ GetManifest(p) \/ GetBlob(p) \/ FetchBlobFromPeers(p)
  \/ CheckCircuit(p) \/ AddAuth(p) \/ DiscoverChallenge(p) \/ Probe(p)
  \/ Undiscovered(p) \/ FetchToken(p)
  \/ Unauthorized(p) \/ SendFails(p) \/ SendSucceeds(p)
  \/ Verify(p) \/ PutBlob(p) \/ GetOrCreateRepository(p) \/ Classify(p)
  \/ SetRepositoryPrivate(p) \/ PutManifestWithLayers(p) \/ PutTag(p)
  \/ Coalesce(p) \/ NextBase(p) \/ DoCircuit(p) \/ Do(p)

Environment ==
  \/ \E k \in Breakers : CircuitExpires(k)
  \/ TokenExpires \/ Announced \/ Retag

Next ==
  \/ Environment
  \/ \E p \in Pulls :
       \/ Step(p)
       \/ \E kind \in {"tag", "project", "module"} : Start(p, kind, NoDigest)
       \/ \E kind \in {"manifest", "blob"}, d \in Digests : Start(p, kind, d)

Spec == Init /\ [][Next]_vars
-----------------------------------------------------------------------------
(***************************************************************************)
(* Whoever waits in a flight waits for somebody who is at work: a leader   *)
(* always lands its flight, on every error too, and the leader of a token  *)
(* flight waits at most for the one of the discovery.  A leader that left  *)
(* would leave the others waiting for ever.                                *)
(***************************************************************************)
NobodyStranded ==
  \A p \in Pulls : pull[p].at = "wait" =>
    \E k \in FlightKeys :
      /\ p \in flights[k].waiters
      /\ LET l == flights[k].leader IN
         /\ l # Nobody /\ pull[l].at # "idle"
         /\ pull[l].at = "wait" => l \in flights["discover"].waiters /\ k # "discover"

(***************************************************************************)
(* As long as nothing has failed, no pull of something that the upstream   *)
(* gives to the configured account fails, however pulls interleave: a      *)
(* token that another pull drops, replaces or shares never costs a pull    *)
(* its answer.                                                             *)
(***************************************************************************)
FaultlessServed ==
  ~history.fault /\ (~locked \/ (config.username /\ config.auth # "none"))
    => \A p \in Pulls : pull[p].outcome \in {"none", "served"}

(***************************************************************************)
(* A repository for which upstream wanted credentials is marked private    *)
(* before a manifest of it can be read here, if pulls have not overlapped  *)
(* and no mark was lost to a failing statement: the token that             *)
(* IsRepoPrivate asks about is still the one of the pull, or is gone.      *)
(***************************************************************************)
PrivateBeforeReadable ==
  locked /\ ~history.overlap /\ ~history.unmarked /\ manifests # {} => repo.private
=============================================================================
