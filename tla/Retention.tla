------------------------------ MODULE Retention ------------------------------
(***************************************************************************)
(* The part of a collector's cycle that deletes tags and manifests of an   *)
(* image repository (retentionSweep and pruneUntaggedManifests of          *)
(* internal/peering/gc.go over internal/database/packages.go), while       *)
(* clients push to it and delete tags (internal/oci/handler.go).           *)
(*                                                                         *)
(* Every statement, transaction and publication is a step.  Of time only   *)
(* matters whether a tag is older than retention.maxAge and a manifest     *)
(* older than untaggedManifestAge; a push takes less than that.  The rest  *)
(* of the cycle is module BlobLifecycle's.                                 *)
(***************************************************************************)
EXTENDS Naturals, Sequences, FiniteSets

CONSTANTS
  Manifests, TagNames,
  Parts,       \* manifest |-> the entries of an index
  Subject,     \* manifest |-> the manifest it refers to, or None
  None,
  Clients,
  Policies     \* defaults and perRepo (keepLastN, maxAge, pinned; 0, FALSE and None
               \*   are not set), perCycle (retentionTagsPerCycle, 0 is no cap),
               \*   batch (untaggedBatchSize), owned; bounds: pushes, events

\* None is no tag, entries are manifests, and what is configured is well formed.
Settings == [keepLastN : Nat, maxAge : BOOLEAN, pinned : {None} \union SUBSET TagNames]

RetentionAssumption ==
  /\ None \notin TagNames
  /\ Parts \in [Manifests -> SUBSET Manifests]
  /\ Policies \subseteq [defaults : Settings, perRepo : Settings, perCycle : Nat, batch : Nat,
                         owned : BOOLEAN, pushes : Nat, events : Nat]

VARIABLES
  rows,       \* package_versions of the repository
  old,        \* those with created_at before untaggedManifestAge
  tags,       \* package_tags, the newest first: <<name, manifest>>
  aged,       \* names of the tags with updated_at before maxAge
  push,       \* clients in pushManifest
  gc,         \* the collector; list: at "delete" from the positions to the names of
              \*   what is to be deleted, at "publish" the manifest
  tomb,       \* deleted_versions
  published,  \* manifest |-> its last publication: "none", "create" or "delete"
  reused,     \* history: pushes of, or over, a row that was old already
  crossed,    \* history: manifests stored again while their Delete was due
  cut,        \* history: manifests of which a tombstone or a publication is
              \*   missing since a statement failed or the process ended
  named,      \* history: the unpinned tags that were ever pushed
  withdrawn,  \* history: how many of them clients deleted
  policy

tables  == <<rows, old, tags, aged, tomb>>
history == <<reused, crossed, cut, named, withdrawn>>
vars    == <<tables, push, gc, published, history, policy>>

NoPush == [at |-> "idle", manifest |-> None, tag |-> None]
NoGC   == [at |-> "idle", list |-> <<>>, deleted |-> 0, pruned |-> {}, more |-> FALSE]

Init ==
  /\ rows = {} /\ old = {} /\ tags = <<>> /\ aged = {} /\ tomb = {}
  /\ push = [c \in Clients |-> NoPush] /\ gc = NoGC
  /\ published = [m \in Manifests |-> "none"]
  /\ reused = {} /\ crossed = {} /\ cut = {} /\ named = {} /\ withdrawn = 0
  /\ policy \in Policies

Spend(kind) == policy[kind] > 0 /\ policy' = [policy EXCEPT ![kind] = @ - 1]
-----------------------------------------------------------------------------
\* The per-repository entry over the defaults, field by field.
EffectiveRetention ==
  LET d == policy.defaults
      r == policy.perRepo
  IN [keepLastN |-> IF r.keepLastN > 0 THEN r.keepLastN ELSE d.keepLastN,
      maxAge    |-> r.maxAge \/ d.maxAge,
      pinned    |-> IF r.pinned # None THEN r.pinned ELSE d.pinned]

TagPinned(t) == t \in EffectiveRetention.pinned

\* The tags by updated_at, the newest first.
ListTagsForRetention == tags

Unpinned == {i \in DOMAIN ListTagsForRetention : ~TagPinned(tags[i][1])}

\* Mutant: pinned tags count against keepLastN.
CandidatesOfAll ==
  LET p == EffectiveRetention
      drop(i) == (p.keepLastN > 0 /\ i > p.keepLastN) \/ (p.maxAge /\ tags[i][1] \in aged)
  IN [i \in {i \in Unpinned : drop(i)} |-> tags[i][1]]

\* The loop over them: an unpinned tag is dropped when keepLastN unpinned ones
\* come before it, or when it is aged, as then are all that follow it.
Dropped(i) ==
  LET p == EffectiveRetention
      before == {j \in Unpinned : j < i}
  IN \/ p.keepLastN > 0 /\ Cardinality(before) >= p.keepLastN
     \/ p.maxAge /\ tags[i][1] \in aged

Candidates == [i \in {i \in Unpinned : Dropped(i)} |-> tags[i][1]]

\* retentionSweep, up to the first delete.
Collect ==
  /\ gc.at = "idle"
  /\ LET p == EffectiveRetention IN
     gc' = [NoGC EXCEPT !.at = IF p.keepLastN = 0 /\ ~p.maxAge THEN "prune" ELSE "delete",
                        !.list = IF p.keepLastN = 0 /\ ~p.maxAge THEN <<>> ELSE Candidates]
  /\ UNCHANGED <<tables, push, published, history, policy>>

\* The tags without one; a name is unique in a repository.
Without(t) ==
  IF \E i \in DOMAIN tags : tags[i][1] = t
  THEN LET i == CHOOSE i \in DOMAIN tags : tags[i][1] = t
       IN SubSeq(tags, 1, i - 1) \o SubSeq(tags, i + 1, Len(tags))
  ELSE tags

\* DeletePackageTag for the next of the list, whatever the tag names by now, and
\* PublishTagDelete.
DeleteCandidate ==
  /\ gc.at = "delete"
  /\ policy.perCycle = 0 \/ gc.deleted < policy.perCycle
  /\ \E i \in DOMAIN gc.list :
       LET rest == [j \in DOMAIN gc.list \ {i} |-> gc.list[j]] IN
       /\ \A j \in DOMAIN rest : i < j
       /\ \/ /\ tags' = Without(gc.list[i]) /\ aged' = aged \ {gc.list[i]}
             /\ gc' = [gc EXCEPT !.list = rest, !.deleted = @ + 1]
             /\ UNCHANGED policy
          \/ /\ Spend("events")     \* the statement fails
             /\ gc' = [gc EXCEPT !.list = rest]
             /\ UNCHANGED <<tags, aged>>
  /\ UNCHANGED <<rows, old, tomb, push, published, history>>

RetentionDone ==
  /\ gc.at = "delete"
  /\ gc.list = <<>> \/ (policy.perCycle > 0 /\ gc.deleted >= policy.perCycle)
  /\ gc' = [NoGC EXCEPT !.at = "prune"]
  /\ UNCHANGED <<tables, push, published, history, policy>>
-----------------------------------------------------------------------------
Tagged == {tags[i][2] : i \in DOMAIN tags}

\* Mutant: the entries of an index are not looked for.
UntaggedOrParts ==
  {m \in old : m \notin Tagged /\ ~\E r \in rows : Subject[r] = m}

\* Old manifests without a tag, a referrer or a parent.
Untagged ==
  {m \in old : /\ m \notin Tagged
               /\ ~\E r \in rows : Subject[r] = m \/ m \in Parts[r]}

\* PruneUntaggedManifests: a transaction that selects and deletes a batch.
PruneUntagged ==
  /\ gc.at = "prune"
  /\ \E S \in SUBSET Untagged :
       /\ Cardinality(S) = IF Cardinality(Untagged) < policy.batch
                           THEN Cardinality(Untagged) ELSE policy.batch
       /\ rows' = rows \ S /\ old' = old \ S
       /\ gc' = IF S = {} THEN NoGC
                ELSE [gc EXCEPT !.at = "record", !.more = Cardinality(S) = policy.batch,
                                !.pruned = IF policy.owned THEN S ELSE {}]
  /\ UNCHANGED <<tags, aged, tomb, push, published, history, policy>>

\* For each of an owned repository RecordDeletedManifest, then PublishManifestDelete;
\* what fails is logged.
RecordDeletedManifest(m) ==
  /\ gc.at = "record" /\ m \in gc.pruned
  /\ gc' = [gc EXCEPT !.at = "publish", !.list = <<m>>]
  /\ \/ tomb' = tomb \union {m} /\ UNCHANGED <<cut, policy>>
     \/ Spend("events") /\ cut' = cut \union {m} /\ UNCHANGED tomb
  /\ UNCHANGED <<rows, old, tags, aged, push, published, reused, crossed, named, withdrawn>>

PublishManifestDelete ==
  LET m == gc.list[1] IN
  /\ gc.at = "publish"
  /\ gc' = [gc EXCEPT !.at = "record", !.pruned = @ \ {m}, !.list = <<>>]
  /\ \/ published' = [published EXCEPT ![m] = "delete"] /\ UNCHANGED <<cut, policy>>
     \/ Spend("events") /\ cut' = cut \union {m} /\ UNCHANGED published
  /\ UNCHANGED <<tables, push, reused, crossed, named, withdrawn>>

\* Mutant: after a full batch the next is selected at once.
PruneDoneEarly ==
  /\ gc.at = "record" /\ (gc.pruned = {} \/ gc.more)
  /\ gc' = IF gc.more THEN [NoGC EXCEPT !.at = "prune"] ELSE NoGC
  /\ UNCHANGED <<tables, push, published, history, policy>>

PruneDone ==
  /\ gc.at = "record" /\ gc.pruned = {}
  /\ gc' = IF gc.more THEN [NoGC EXCEPT !.at = "prune"] ELSE NoGC
  /\ UNCHANGED <<tables, push, published, history, policy>>
-----------------------------------------------------------------------------
Pushing == {push[c].manifest : c \in {c \in Clients : push[c].at # "idle"}}

\* pushManifest: the entries of an index must be stored, ...
Push(c, m, t) ==
  /\ push[c].at = "idle" /\ Parts[m] \subseteq rows /\ Spend("pushes")
  /\ push' = [push EXCEPT ![c] = [at |-> "store", manifest |-> m, tag |-> t]]
  /\ reused' = IF ({m} \union Parts[m]) \intersect old # {} THEN reused \union {m} ELSE reused
  /\ UNCHANGED <<tables, gc, published, crossed, cut, named, withdrawn>>

\* ... PutManifestWithLayers keeps created_at of a row it meets, ...
PutManifestWithLayers(c) ==
  /\ push[c].at = "store"
  /\ rows' = rows \union {push[c].manifest}
  /\ push' = [push EXCEPT ![c].at = IF push[c].tag = None THEN "publish" ELSE "tag"]
  /\ crossed' = IF push[c].manifest \in gc.pruned THEN crossed \union {push[c].manifest} ELSE crossed
  /\ UNCHANGED <<old, tags, aged, tomb, gc, published, reused, cut, named, withdrawn, policy>>

\* ... PutTag does not look for the manifest, ...
PutTag(c) ==
  LET t == push[c].tag IN
  /\ push[c].at = "tag"
  /\ tags' = <<<<t, push[c].manifest>>>> \o Without(t)
  /\ aged' = aged \ {t}
  /\ named' = IF TagPinned(t) THEN named ELSE named \union {t}
  /\ push' = [push EXCEPT ![c].at = "publish"]
  /\ UNCHANGED <<rows, old, tomb, gc, published, reused, crossed, cut, withdrawn, policy>>

\* ... PublishManifest, whose error is logged.  A push that found everything in
\* place is over.
PublishManifest(c) ==
  LET m == push[c].manifest IN
  /\ push[c].at = "publish"
  /\ \/ published' = [published EXCEPT ![m] = "create"] /\ UNCHANGED <<cut, policy>>
     \/ Spend("events") /\ cut' = cut \union {m} /\ UNCHANGED published
  /\ reused' = IF /\ {m} \union Parts[m] \subseteq rows
                  /\ \A d \in Clients \ {c} : push[d].at # "idle" => push[d].manifest # m
               THEN reused \ {m} ELSE reused
  /\ push' = [push EXCEPT ![c] = NoPush]
  /\ UNCHANGED <<tables, gc, crossed, named, withdrawn>>

\* deleteTag
DeleteTag(t) ==
  /\ t \in {tags[i][1] : i \in DOMAIN tags} /\ Spend("events")
  /\ tags' = Without(t)
  /\ aged' = aged \ {t}
  /\ withdrawn' = IF TagPinned(t) THEN withdrawn ELSE withdrawn + 1
  /\ UNCHANGED <<rows, old, tomb, push, gc, published, reused, crossed, cut, named>>
-----------------------------------------------------------------------------
\* Time passes, the oldest tag first; not for what is being pushed.
AgeManifest(m) ==
  /\ m \in rows \ old
  /\ \A c \in Clients : push[c].at # "idle" => m \notin {push[c].manifest} \union Parts[push[c].manifest]
  /\ old' = old \union {m}
  /\ UNCHANGED <<rows, tags, aged, tomb, push, gc, published, history, policy>>

AgeTag ==
  /\ EffectiveRetention.maxAge
  /\ \E i \in DOMAIN tags :
       /\ tags[i][1] \notin aged
       /\ \A j \in DOMAIN tags : j > i => tags[j][1] \in aged
       /\ aged' = aged \union {tags[i][1]}
  /\ UNCHANGED <<rows, old, tags, tomb, push, gc, published, history, policy>>

\* The process dies, and starts again.
Restart ==
  /\ Spend("events")
  /\ push' = [c \in Clients |-> NoPush] /\ gc' = NoGC
  /\ cut' = cut \union gc.pruned \union Pushing
  /\ UNCHANGED <<tables, published, reused, crossed, named, withdrawn>>

Next ==
  \/ Collect \/ DeleteCandidate \/ RetentionDone
  \/ PruneUntagged \/ PublishManifestDelete \/ PruneDone
  \/ \E m \in Manifests : RecordDeletedManifest(m) \/ AgeManifest(m)
  \/ \E c \in Clients :
       \/ \E m \in Manifests, t \in TagNames \union {None} : Push(c, m, t)
       \/ PutManifestWithLayers(c) \/ PutTag(c) \/ PublishManifest(c)
  \/ \E t \in TagNames : DeleteTag(t)
  \/ AgeTag \/ Restart

Spec == Init /\ [][Next]_vars
-----------------------------------------------------------------------------
(***************************************************************************)
(* The collector never takes a manifest from under a client: whatever tags *)
(* move, expire or are deleted while it works, a tag names a stored        *)
(* manifest and the entries of a stored index are stored.  Exempt are      *)
(* pushes of a manifest whose row, or whose entry's row, was already older *)
(* than untaggedManifestAge: the collector may delete it between two steps *)
(* of the push.                                                            *)
(***************************************************************************)
NothingDangles ==
  /\ \A m \in Tagged \ reused : m \in rows
  /\ \A m \in rows \ reused : Parts[m] \subseteq rows

(***************************************************************************)
(* keepLastN, without maxAge: of the unpinned tags that were pushed, all   *)
(* or at least keepLastN are there, less those that clients deleted; also  *)
(* when tags are pushed again between the listing and the deletes, a cycle *)
(* is cut short by its cap, an error or a crash, and another follows.      *)
(***************************************************************************)
LastNKept ==
  LET p    == EffectiveRetention
      left == Cardinality(Unpinned) + withdrawn
  IN ~p.maxAge => \/ left >= Cardinality(named)
                  \/ p.keepLastN > 0 /\ left >= p.keepLastN

(***************************************************************************)
(* What the owner of a repository has told its followers is what it        *)
(* stores: the last they heard of a stored manifest is its push; of one    *)
(* that is gone, if they ever heard of it, its Delete, and a tombstone     *)
(* says so here.  Not yet so is what is still being pushed or pruned.      *)
(* Exempt are the pushes that NothingDangles exempts, a statement that     *)
(* failed or was cut off, which nothing repeats, and a manifest pushed     *)
(* again between the transaction that pruned it and its Delete.            *)
(***************************************************************************)
PublishedAsStored ==
  policy.owned =>
    \A m \in Manifests \ (gc.pruned \union Pushing \union reused \union cut \union crossed) :
      IF m \in rows THEN published[m] = "create"
      ELSE published[m] # "create" /\ (published[m] = "delete" => m \in tomb)
=============================================================================
