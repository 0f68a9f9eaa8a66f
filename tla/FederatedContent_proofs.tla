----------------------- MODULE FederatedContent_proofs -----------------------
(***************************************************************************)
(* Proofs about a repository and its copy, for any digests and tags, any   *)
(* number of requests and inbox workers, and any budget of pushes,         *)
(* deletes, failures, restarts and evictions.                              *)
(***************************************************************************)
EXTENDS FederatedContent, TLAPS

ReqSteps ==
  {"idle", "putManifest", "putTag", "publishManifest", "publishTag", "recordTombstone",
   "deleteManifest", "publishDelete", "publishTagDelete", "deleteRepo", "withdraw",
   "list", "listVersions", "mark"}

Reqs ==
  [at : ReqSteps, digest : AnyDigest, tag : AnyTag, repo : Nat,
   tags : SUBSET Tags, digests : SUBSET Digests]

\* The steps of a push after its manifest is stored.
AfterPut == {"putTag", "publishManifest", "publishTag"}

(***************************************************************************)
(* The owner's tables and requests.                                        *)
(***************************************************************************)
OwnerTypes ==
  /\ repo \in Nat /\ lastId \in Nat /\ repo <= lastId
  /\ rows \subseteq Nat \X Digests
  /\ tags \subseteq Nat \X Tags \X Digests
  /\ ever \subseteq Digests
  /\ req \in [Procs -> Reqs]

(***************************************************************************)
(* What a request knows at its place.  Ids are handed out in order, so it  *)
(* has none that is still to come; the tombstone comes before the row      *)
(* goes; only a manifest that was stored is announced, and only one whose  *)
(* delete was asked for is deleted.                                        *)
(***************************************************************************)
Place(p) ==
  /\ req[p].repo <= lastId
  /\ req[p].at \in {"putManifest", "recordTombstone", "deleteManifest"} \union AfterPut =>
       req[p].digest \in Digests
  /\ req[p].at \in {"putManifest", "putTag"} => req[p].repo # 0
  /\ req[p].at \in {"putTag", "publishTag"} => req[p].tag \in Tags
  /\ req[p].at = "deleteManifest" => req[p].digest \in tomb
  /\ req[p].at \in AfterPut => req[p].digest \in ever
  /\ req[p].at \in {"recordTombstone", "deleteManifest"} => req[p].digest \in deleted
  /\ p = "sweep" => req[p].at \in {"idle", "list", "listVersions", "withdraw", "mark"}

Places == \A p \in Procs : Place(p)

(***************************************************************************)
(* Nothing outlives its repository, and without one there is nothing.      *)
(***************************************************************************)
Current == NoOrphans /\ (repo = 0 => rows = {} /\ tags = {})

(***************************************************************************)
(* Whatever is no longer stored was deleted on request, and nothing else   *)
(* than what was once stored is exposed.                                   *)
(***************************************************************************)
Known == ever \subseteq Stored \union deleted /\ exposed \subseteq ever

\* Of a repository, all that is exposed and not exempt.
Open == (Stored \intersect exposed) \ (unsent \union deleted)

(***************************************************************************)
(* The sweep runs only where the repository is excluded, which announces   *)
(* nothing any more; what it has still to retract is in its list.          *)
(***************************************************************************)
Retracting ==
  LET s == req["sweep"] IN
  /\ withdrawn \/ s.at # "idle" => excluded
  /\ s.at = "withdraw" /\ s.repo = repo => Open \subseteq s.digests
  /\ s.at = "mark" /\ s.repo = repo => Open = {}

OwnerInv ==
  /\ OwnerTypes /\ Places
  /\ Current /\ GoneIsTombstoned /\ Known
  /\ Retracting /\ WithdrawnIsRetracted
-----------------------------------------------------------------------------
\* Only process p moves, and stays in the shape of a request.
Moves(p) ==
  /\ req' \in [Procs -> Reqs]
  /\ \A q \in Procs : q # p => req'[q] = req[q]

(***************************************************************************)
(* The ways a request of the owner moves on: to other work, ...            *)
(***************************************************************************)
LEMMA SetReq ==
  ASSUME OwnerTypes, NEW p \in Procs, NEW r \in Reqs, req' = [req EXCEPT ![p] = r]
  PROVE  Moves(p) /\ req'[p] = r
BY DEF OwnerTypes, Moves

\* ... to another step with what it carries, ...
LEMMA StepReq ==
  ASSUME OwnerTypes, NEW p \in Procs, NEW at \in ReqSteps, Step(p, at)
  PROVE  /\ Moves(p)
         /\ req'[p].at = at /\ req'[p].digest = req[p].digest
         /\ req'[p].tag = req[p].tag /\ req'[p].repo = req[p].repo
         /\ req'[p].tags = req[p].tags /\ req'[p].digests = req[p].digests
<1> DEFINE r == [req[p] EXCEPT !.at = at]
<1>1. req[p] \in Reqs
  BY DEF OwnerTypes
<1>2. /\ r \in Reqs /\ r.at = at /\ r.digest = req[p].digest /\ r.tag = req[p].tag
      /\ r.repo = req[p].repo /\ r.tags = req[p].tags /\ r.digests = req[p].digests
  BY <1>1 DEF Reqs
<1>3. req' = [req EXCEPT ![p] = r]
  BY DEF Step
<1> HIDE DEF r
<1> QED BY <1>2, <1>3, SetReq

\* ... and to its end.
LEMMA DoneReq ==
  ASSUME OwnerTypes, NEW p \in Procs, Done(p)
  PROVE  Moves(p) /\ req'[p].at = "idle" /\ req'[p].repo = 0
<1>1. IdleReq \in Reqs /\ IdleReq.at = "idle" /\ IdleReq.repo = 0
  BY DEF IdleReq, Reqs, ReqSteps, AnyDigest, AnyTag
<1> QED BY <1>1, SetReq DEF Done

(***************************************************************************)
(* What a publication does to the history: a Create exposes its digest     *)
(* only while the repository is not excluded, and after a Delete of a      *)
(* digest it is retracted or its loss is known.                            *)
(***************************************************************************)
LEMMA PublishEffect ==
  ASSUME NEW type \in {"Create", "Update", "Delete"}, NEW d, NEW t, Publish(type, d, t)
  PROVE  /\ unsent \subseteq unsent'
         /\ exposed' \subseteq exposed \union {d}
         /\ type # "Create" \/ excluded => exposed' \subseteq exposed
         /\ type = "Delete" /\ d # NoDigest => d \notin exposed' \ unsent'
<1>1. CASE type # "Delete" /\ excluded
  BY <1>1 DEF Publish, outgoing
<1>2. CASE Enqueued(type, d, t) /\ ~(type # "Delete" /\ excluded)
  <2>1. CASE type = "Create"
    BY <1>2, <2>1 DEF Enqueued, Publish, outgoing
  <2>2. CASE type = "Delete"
    BY <1>2, <2>2 DEF Enqueued
  <2>3. CASE type = "Update"
    BY <1>2, <2>3 DEF Enqueued
  <2> QED BY <2>1, <2>2, <2>3
<1>3. CASE Lost(d, t)
  BY <1>3 DEF Lost
<1> QED BY <1>1, <1>2, <1>3 DEF Publish
-----------------------------------------------------------------------------
(***************************************************************************)
(* A step of a request keeps the withdrawal, if it exposes nothing more of *)
(* an excluded repository.                                                 *)
(***************************************************************************)
LEMMA RetractFrame ==
  ASSUME OwnerInv, req'["sweep"] = req["sweep"],
         UNCHANGED excluded,
         \/ UNCHANGED <<repo, withdrawn>> /\ (excluded => Open' \subseteq Open)
         \/ repo' = 0 /\ UNCHANGED withdrawn /\ Open' = {}
         \/ repo' = lastId + 1 /\ withdrawn' = FALSE
  PROVE  Retracting' /\ WithdrawnIsRetracted'
<1> USE DEF OwnerInv, Retracting, WithdrawnIsRetracted
<1>2. req["sweep"].repo <= lastId /\ req["sweep"].repo \in Nat /\ lastId \in Nat
  BY DEF OwnerInv, Places, Place, OwnerTypes, Procs, Reqs
<1>3. CASE UNCHANGED <<repo, withdrawn>> /\ (excluded => Open' \subseteq Open)
  <2>1. Retracting'
    BY <1>3
  <2>2. withdrawn' /\ repo' # 0 => Open' = {}
    BY <1>3 DEF Open
  <2> QED BY <2>1, <2>2 DEF Open
<1>4. CASE repo' = 0 /\ UNCHANGED withdrawn /\ Open' = {}
  BY <1>4
<1>5. CASE repo' = lastId + 1 /\ withdrawn' = FALSE
  BY <1>2, <1>5
<1> QED BY <1>3, <1>4, <1>5

(***************************************************************************)
(* The places of the other requests are kept as long as the history only   *)
(* grows.                                                                  *)
(***************************************************************************)
LEMMA PlacesFrame ==
  ASSUME OwnerInv, NEW p \in Procs, Moves(p), Place(p)',
         lastId' \in Nat, lastId <= lastId',
         tomb \subseteq tomb', ever \subseteq ever', deleted \subseteq deleted'
  PROVE  Places'
<1> SUFFICES ASSUME NEW q \in Procs, q # p PROVE Place(q)'
  BY DEF Places
<1>1. Place(q) /\ req'[q] = req[q] /\ req[q].repo \in Nat /\ lastId \in Nat
  BY DEF OwnerInv, OwnerTypes, Places, Moves, Reqs
<1> QED BY <1>1 DEF Place

(***************************************************************************)
(* A step of a request that leaves the tables alone and does not delete:   *)
(* a publication, a begin of a request, the end of one.                    *)
(***************************************************************************)
LEMMA TablesKept ==
  ASSUME OwnerInv, NEW p \in Requests, Moves(p), Place(p)',
         UNCHANGED <<ownerTables, excluded, ever>>,
         deleted \subseteq deleted', unsent \subseteq unsent',
         exposed' \subseteq ever, excluded => exposed' \subseteq exposed
  PROVE  OwnerInv'
<1> USE DEF ownerTables
<1>1. p \in Procs /\ p # "sweep" /\ "sweep" \in Procs
  BY ContentAssumption DEF Procs
<1>2. Places'
  BY <1>1, PlacesFrame DEF OwnerInv, OwnerTypes
<1>3. OwnerTypes'
  BY DEF OwnerInv, OwnerTypes, Moves
<1>4. Current' /\ GoneIsTombstoned' /\ Known' /\ Stored' = Stored
  BY DEF OwnerInv, Current, NoOrphans, GoneIsTombstoned, Known, Stored
<1>5. excluded => Open' \subseteq Open
  BY <1>4 DEF Open
<1>6. req'["sweep"] = req["sweep"]
  BY <1>1 DEF Moves
<1>7. Retracting' /\ WithdrawnIsRetracted'
  BY <1>5, <1>6, RetractFrame
<1> QED BY <1>2, <1>3, <1>4, <1>7 DEF OwnerInv
-----------------------------------------------------------------------------
(***************************************************************************)
(* The publications at the end of a push or a delete.                      *)
(***************************************************************************)
LEMMA PublishStep ==
  ASSUME OwnerInv, NEW p \in Requests,
         PublishManifest(p) \/ PublishTag(p) \/ PublishManifestDelete(p) \/ PublishTagDelete(p)
  PROVE  OwnerInv'
<1> USE DEF OwnerInv
<1>0. p \in Procs /\ Place(p) /\ p # "sweep" /\ lastId \in Nat
  BY ContentAssumption DEF Procs, Places, OwnerTypes
<1>1. ASSUME Done(p) PROVE Moves(p) /\ (UNCHANGED lastId => Place(p)')
  BY <1>0, <1>1, DoneReq DEF Place, AfterPut
<1>2. CASE PublishManifest(p)
  <2>1. req[p].digest \in ever /\ exposed \subseteq ever
    BY <1>0, <1>2 DEF PublishManifest, Place, AfterPut, Known
  <2>2. /\ unsent \subseteq unsent' /\ exposed' \subseteq ever
        /\ excluded => exposed' \subseteq exposed
    BY <1>2, <2>1, PublishEffect DEF PublishManifest
  <2>3. UNCHANGED <<ownerTables, excluded, ever, deleted, lastId, tomb>>
    BY <1>2 DEF PublishManifest, ownerTables
  <2>4. ASSUME Step(p, "publishTag") PROVE Moves(p) /\ Place(p)'
    <3>1. /\ Moves(p) /\ req'[p].at = "publishTag" /\ req'[p].digest = req[p].digest
          /\ req'[p].repo = req[p].repo /\ req'[p].tag = req[p].tag
      BY <1>0, <2>4, StepReq DEF ReqSteps
    <3>2. req[p].repo <= lastId /\ req[p].digest \in Digests
      BY <1>0, <1>2 DEF PublishManifest, Place, AfterPut
    <3>3. req[p].tag \in Tags
      <4>1. req[p].tag # NoTag \/ Done(p)
        BY <1>2 DEF PublishManifest
      <4>2. req[p].tag # NoTag
        BY <1>0, <3>1, <4>1, DoneReq
      <4> QED BY <1>0, <4>2 DEF OwnerTypes, Reqs, AnyTag
    <3> QED BY <1>0, <2>1, <2>3, <3>1, <3>2, <3>3 DEF Place, AfterPut
  <2>5. Moves(p) /\ Place(p)'
    BY <1>1, <1>2, <2>3, <2>4 DEF PublishManifest
  <2> QED BY <2>2, <2>3, <2>5, TablesKept
<1>3. CASE PublishTag(p) \/ PublishManifestDelete(p) \/ PublishTagDelete(p)
  <2>1. UNCHANGED <<ownerTables, excluded, ever, deleted, lastId>> /\ Done(p)
    BY <1>3 DEF PublishTag, PublishManifestDelete, PublishTagDelete, ownerTables
  <2>2. unsent \subseteq unsent' /\ exposed' \subseteq exposed
    <3>1. ASSUME NEW type \in {"Update", "Delete"}, NEW d, NEW tg, Publish(type, d, tg)
          PROVE  unsent \subseteq unsent' /\ exposed' \subseteq exposed
      BY <3>1, PublishEffect
    <3> QED BY <1>3, <3>1 DEF PublishTag, PublishManifestDelete, PublishTagDelete
  <2>3. exposed' \subseteq ever
    BY <2>2 DEF Known
  <2> QED BY <1>1, <2>1, <2>2, <2>3, TablesKept
<1> QED BY <1>2, <1>3

(***************************************************************************)
(* The begin of a delete: the manifest is asked to go, or the repository.  *)
(***************************************************************************)
LEMMA DeleteBeginStep ==
  ASSUME OwnerInv, NEW p \in Requests,
         (\E d \in Digests : DeleteManifestBegin(p, d)) \/ DeleteRepoBegin(p)
  PROVE  OwnerInv'
<1> USE DEF OwnerInv
<1>0. p \in Procs /\ p # "sweep" /\ repo \in Nat /\ repo <= lastId /\ exposed \subseteq ever
  BY ContentAssumption DEF Procs, OwnerTypes, Known
<1>1. ASSUME NEW d \in Digests, DeleteManifestBegin(p, d) PROVE OwnerInv'
  <2> DEFINE r == [IdleReq EXCEPT !.at = "recordTombstone", !.digest = d, !.repo = repo]
  <2>1. /\ r \in Reqs /\ r.at = "recordTombstone" /\ r.digest = d /\ r.repo = repo
    BY <1>0 DEF IdleReq, Reqs, ReqSteps, AnyDigest, AnyTag
  <2>2. /\ req' = [req EXCEPT ![p] = r] /\ deleted' = deleted \union {d}
        /\ UNCHANGED <<ownerTables, excluded, ever, exposed, unsent>>
    BY <1>1 DEF DeleteManifestBegin, outgoing
  <2> HIDE DEF r
  <2>3. Moves(p) /\ req'[p] = r
    BY <1>0, <2>1, <2>2, SetReq
  <2>4. Place(p)'
    BY <1>0, <2>1, <2>2, <2>3 DEF Place, AfterPut, ownerTables
  <2> QED BY <1>0, <2>2, <2>3, <2>4, TablesKept
<1>2. ASSUME DeleteRepoBegin(p) PROVE OwnerInv'
  <2> DEFINE r == [IdleReq EXCEPT !.at = "deleteRepo", !.repo = repo]
  <2>1. r \in Reqs /\ r.at = "deleteRepo" /\ r.repo = repo
    BY <1>0 DEF IdleReq, Reqs, ReqSteps, AnyDigest, AnyTag
  <2>2. /\ req' = [req EXCEPT ![p] = r]
        /\ UNCHANGED <<ownerTables, excluded, ever, exposed, unsent, deleted>>
    BY <1>2 DEF DeleteRepoBegin, outgoing
  <2> HIDE DEF r
  <2>3. Moves(p) /\ req'[p] = r
    BY <1>0, <2>1, <2>2, SetReq
  <2>4. Place(p)'
    BY <1>0, <2>1, <2>2, <2>3 DEF Place, AfterPut, ownerTables
  <2> QED BY <1>0, <2>2, <2>3, <2>4, TablesKept
<1> QED BY <1>1, <1>2

(***************************************************************************)
(* A tag's delete, and its put: the tags stay those of the repository.     *)
(***************************************************************************)
LEMMA TagStep ==
  ASSUME OwnerInv, NEW p \in Requests, (\E tg \in Tags : DeleteTag(p, tg)) \/ PutTag(p)
  PROVE  OwnerInv'
<1> USE DEF OwnerInv
<1>0. p \in Procs /\ p # "sweep" /\ "sweep" \in Procs /\ Place(p) /\ lastId \in Nat
  BY ContentAssumption DEF Procs, Places, OwnerTypes
<1>1. SUFFICES /\ Moves(p) /\ Place(p)'
               /\ UNCHANGED <<repo, lastId, rows, tomb, withdrawn, excluded, ever, deleted,
                              exposed, unsent>>
               /\ tags' \subseteq Nat \X Tags \X Digests
               /\ \A x \in tags' : x[1] = repo
               /\ repo = 0 => tags' = {}
  <2>1. Places'
    BY <1>0, <1>1, PlacesFrame
  <2>2. OwnerTypes'
    BY <1>1 DEF OwnerTypes, Moves
  <2>3. Current' /\ GoneIsTombstoned' /\ Known' /\ Open' = Open
    BY <1>1 DEF Current, NoOrphans, GoneIsTombstoned, Known, Stored, Open
  <2>4. req'["sweep"] = req["sweep"]
    BY <1>0, <1>1 DEF Moves
  <2>5. Retracting' /\ WithdrawnIsRetracted'
    BY <1>1, <2>3, <2>4, RetractFrame
  <2> QED BY <2>1, <2>2, <2>3, <2>5
<1>2. ASSUME NEW tg \in Tags, DeleteTag(p, tg)
      PROVE  /\ Moves(p) /\ Place(p)'
             /\ tags' \subseteq tags
             /\ UNCHANGED <<repo, lastId, rows, tomb, withdrawn, excluded, ever, deleted,
                            exposed, unsent>>
  <2> DEFINE r == [IdleReq EXCEPT !.at = "publishTagDelete", !.tag = tg]
  <2>1. r \in Reqs /\ r.at = "publishTagDelete" /\ r.repo = 0
    BY DEF IdleReq, Reqs, ReqSteps, AnyDigest, AnyTag
  <2>2. req' = [req EXCEPT ![p] = r]
    BY <1>2 DEF DeleteTag
  <2> HIDE DEF r
  <2>3. Moves(p) /\ req'[p] = r
    BY <1>0, <2>1, <2>2, SetReq
  <2>4. UNCHANGED <<repo, lastId, rows, tomb, withdrawn, excluded, ever, deleted, exposed, unsent>>
    BY <1>2 DEF DeleteTag
  <2>5. Place(p)'
    BY <1>0, <2>1, <2>3, <2>4 DEF Place, AfterPut
  <2> QED BY <1>2, <2>3, <2>4, <2>5 DEF DeleteTag
<1>3. CASE \E tg \in Tags : DeleteTag(p, tg)
  BY <1>2, <1>3 DEF OwnerTypes, Current, NoOrphans
<1>4. CASE PutTag(p)
  <2>1. UNCHANGED <<repo, lastId, rows, tomb, withdrawn, excluded, ever, deleted, exposed, unsent>>
    BY <1>4 DEF PutTag, outgoing
  <2>2. CASE req[p].repo = repo
    <3>1. /\ Moves(p) /\ req'[p].at = "publishManifest" /\ req'[p].digest = req[p].digest
          /\ req'[p].repo = req[p].repo
      BY <1>0, <1>4, <2>2, StepReq DEF PutTag, ReqSteps
    <3>2. Place(p)'
      BY <1>0, <1>4, <2>1, <3>1 DEF PutTag, Place, AfterPut
    <3>3. req[p].tag \in Tags /\ req[p].digest \in Digests /\ repo \in Nat \ {0}
      BY <1>0, <1>4, <2>2 DEF PutTag, Place, AfterPut, OwnerTypes
    <3>4. tags' = TagPut(tags, repo, req[p].tag, req[p].digest)
      BY <1>4, <2>2 DEF PutTag
    <3> QED BY <2>1, <3>1, <3>2, <3>3, <3>4 DEF TagPut, OwnerTypes, Current, NoOrphans
  <2>3. CASE req[p].repo # repo
    <3>1. Moves(p) /\ req'[p].at = "idle" /\ req'[p].repo = 0 /\ tags' = tags
      BY <1>0, <1>4, <2>3, DoneReq DEF PutTag
    <3>2. Place(p)'
      BY <1>0, <2>1, <3>1 DEF Place, AfterPut
    <3> QED BY <2>1, <3>1, <3>2 DEF OwnerTypes, Current, NoOrphans
  <2> QED BY <2>2, <2>3
<1> QED BY <1>3, <1>4

(***************************************************************************)
(* The begin of a push: a new repository has a new id and is not           *)
(* withdrawn.                                                              *)
(***************************************************************************)
LEMMA PushBeginStep ==
  ASSUME OwnerInv, NEW p \in Requests, NEW d \in Digests, NEW tg \in AnyTag,
         PushBegin(p, d, tg)
  PROVE  OwnerInv'
<1> USE DEF OwnerInv
<1>0. p \in Procs /\ p # "sweep" /\ "sweep" \in Procs /\ repo \in Nat /\ lastId \in Nat
      /\ repo <= lastId
  BY ContentAssumption DEF Procs, OwnerTypes
<1>1. /\ repo' \in Nat \ {0} /\ lastId' \in Nat /\ lastId <= lastId' /\ repo' <= lastId'
      /\ repo # 0 => UNCHANGED <<repo, lastId, withdrawn>>
      /\ repo = 0 => repo' = lastId + 1 /\ lastId' = lastId + 1 /\ withdrawn' = FALSE
  BY <1>0 DEF PushBegin
<1>2. UNCHANGED <<rows, tags, tomb, excluded, ever, deleted, exposed, unsent>>
  BY DEF PushBegin, outgoing
<1> DEFINE r == [IdleReq EXCEPT !.at = "putManifest", !.digest = d, !.tag = tg, !.repo = repo']
<1>3. r \in Reqs /\ r.at = "putManifest" /\ r.digest = d /\ r.repo = repo'
  BY <1>1 DEF IdleReq, Reqs, ReqSteps, AnyDigest
<1>4. req' = [req EXCEPT ![p] = r]
  BY DEF PushBegin
<1> HIDE DEF r
<1>5. Moves(p) /\ req'[p] = r
  BY <1>0, <1>3, <1>4, SetReq
<1>6. Place(p)'
  BY <1>0, <1>1, <1>3, <1>5 DEF Place, AfterPut
<1>7. Places'
  BY <1>0, <1>1, <1>2, <1>5, <1>6, PlacesFrame
<1>8. OwnerTypes'
  BY <1>1, <1>2, <1>5 DEF OwnerTypes, Moves
<1>9. Current' /\ Stored' = Stored
  BY <1>1, <1>2 DEF Current, NoOrphans, Stored
<1>10. GoneIsTombstoned' /\ Known' /\ Open' = Open
  BY <1>2, <1>9 DEF GoneIsTombstoned, Known, Open
<1>11. req'["sweep"] = req["sweep"]
  BY <1>0, <1>5 DEF Moves
<1>12. Retracting' /\ WithdrawnIsRetracted'
  BY <1>1, <1>2, <1>10, <1>11, RetractFrame
<1> QED BY <1>7, <1>8, <1>9, <1>10, <1>12

(***************************************************************************)
(* PutManifestWithLayers: the manifest is stored in the repository the     *)
(* request began with, or that one is gone and nothing is stored.          *)
(***************************************************************************)
LEMMA PutManifestStep ==
  ASSUME OwnerInv, NEW p \in Requests, PutManifestWithLayers(p)
  PROVE  OwnerInv'
<1> USE DEF OwnerInv
<1>0. p \in Procs /\ p # "sweep" /\ "sweep" \in Procs /\ Place(p) /\ lastId \in Nat
  BY ContentAssumption DEF Procs, Places, OwnerTypes
<1>1. UNCHANGED <<repo, lastId, tags, tomb, withdrawn, excluded, deleted, exposed, unsent>>
  BY DEF PutManifestWithLayers, outgoing
<1>2. /\ req[p].digest \in Digests /\ req[p].repo # 0 /\ req[p].repo <= lastId
      /\ req[p].tag \in AnyTag
  BY <1>0 DEF PutManifestWithLayers, Place, OwnerTypes, Reqs
<1>3. CASE req[p].repo # repo
  <2>1. Moves(p) /\ req'[p].at = "idle" /\ req'[p].repo = 0 /\ UNCHANGED <<rows, ever>>
    BY <1>0, <1>3, DoneReq DEF PutManifestWithLayers
  <2>2. Place(p)'
    BY <1>0, <1>1, <2>1 DEF Place, AfterPut
  <2>3. exposed' \subseteq ever /\ exposed' \subseteq exposed
    BY <1>1 DEF Known
  <2> QED BY <1>1, <2>1, <2>2, <2>3, TablesKept DEF ownerTables
<1>4. CASE req[p].repo = repo
  <2> DEFINE d == req[p].digest
  <2>1. /\ rows' = rows \union {<<repo, d>>} /\ ever' = ever \union {d}
        /\ Step(p, IF req[p].tag # NoTag THEN "putTag" ELSE "publishManifest")
    BY <1>4 DEF PutManifestWithLayers
  <2>2. /\ Moves(p) /\ req'[p].digest = d /\ req'[p].repo = req[p].repo
        /\ req'[p].tag = req[p].tag
        /\ req'[p].at = IF req[p].tag # NoTag THEN "putTag" ELSE "publishManifest"
    BY <1>0, <2>1, StepReq DEF ReqSteps
  <2>3. Place(p)'
    BY <1>0, <1>1, <1>2, <2>1, <2>2 DEF Place, AfterPut, AnyTag
  <2>4. Places'
    BY <1>0, <1>1, <2>1, <2>2, <2>3, PlacesFrame
  <2>5. OwnerTypes'
    BY <1>1, <1>2, <1>4, <2>1, <2>2 DEF OwnerTypes, Moves
  <2>6. Current' /\ Stored' = Stored \union {d}
    BY <1>1, <1>2, <1>4, <2>1 DEF Current, NoOrphans, Stored
  <2>7. GoneIsTombstoned' /\ Known'
    BY <1>1, <2>1, <2>6 DEF GoneIsTombstoned, Known
  <2>8. Open' \subseteq Open
    BY <1>1, <2>6 DEF Open, Known
  <2>9. req'["sweep"] = req["sweep"]
    BY <1>0, <2>2 DEF Moves
  <2>10. Retracting' /\ WithdrawnIsRetracted'
    BY <1>1, <2>8, <2>9, RetractFrame
  <2> QED BY <2>4, <2>5, <2>6, <2>7, <2>10
<1> QED BY <1>3, <1>4

(***************************************************************************)
(* RecordDeletedManifest and DeletePackageVersion, in this order.          *)
(***************************************************************************)
LEMMA DeleteManifestStep ==
  ASSUME OwnerInv, NEW p \in Requests, RecordDeletedManifest(p) \/ DeleteManifest(p)
  PROVE  OwnerInv'
<1> USE DEF OwnerInv
<1>0. p \in Procs /\ p # "sweep" /\ "sweep" \in Procs /\ Place(p) /\ lastId \in Nat
  BY ContentAssumption DEF Procs, Places, OwnerTypes
<1>1. UNCHANGED <<repo, lastId, withdrawn, excluded, ever, deleted, exposed, unsent>>
  BY DEF RecordDeletedManifest, DeleteManifest, outgoing
<1>2. /\ Moves(p) /\ req'[p].digest = req[p].digest /\ req'[p].repo = req[p].repo
      /\ req'[p].at \in {"deleteManifest", "publishDelete"}
      /\ req[p].digest \in Digests /\ req[p].digest \in deleted /\ req[p].repo <= lastId
      /\ RecordDeletedManifest(p) \/ req[p].digest \in tomb
  BY <1>0, StepReq DEF RecordDeletedManifest, DeleteManifest, ReqSteps, Place
<1>3. /\ tomb \subseteq tomb' /\ req[p].digest \in tomb'
      /\ rows' \subseteq rows /\ tags' \subseteq tags
      /\ rows \subseteq rows' \union {<<req[p].repo, req[p].digest>>}
  BY <1>2 DEF RecordDeletedManifest, DeleteManifest, TagsKept
<1>4. Place(p)'
  BY <1>0, <1>1, <1>2, <1>3 DEF Place, AfterPut
<1>5. Places'
  BY <1>0, <1>1, <1>2, <1>3, <1>4, PlacesFrame
<1>6. OwnerTypes'
  BY <1>1, <1>2, <1>3 DEF OwnerTypes, Moves
<1>7. Current'
  BY <1>1, <1>3 DEF Current, NoOrphans
<1>8. Stored' \subseteq Stored /\ Stored \subseteq Stored' \union {req[p].digest}
  BY <1>1, <1>3 DEF Stored
<1>9. GoneIsTombstoned' /\ Known'
  BY <1>1, <1>2, <1>3, <1>8 DEF GoneIsTombstoned, Known
<1>10. Open' \subseteq Open
  BY <1>1, <1>8 DEF Open
<1>11. req'["sweep"] = req["sweep"]
  BY <1>0, <1>2 DEF Moves
<1>12. Retracting' /\ WithdrawnIsRetracted'
  BY <1>1, <1>10, <1>11, RetractFrame
<1> QED BY <1>5, <1>6, <1>7, <1>9, <1>12

(***************************************************************************)
(* DeleteOwnedRepositoryWithBlobs: everything stored gets its tombstone in *)
(* the transaction that removes it.                                        *)
(***************************************************************************)
LEMMA DeleteRepoStep ==
  ASSUME OwnerInv, NEW p \in Requests, DeleteOwnedRepository(p)
  PROVE  OwnerInv'
<1> USE DEF OwnerInv
<1>0. p \in Procs /\ p # "sweep" /\ "sweep" \in Procs /\ Place(p) /\ lastId \in Nat
      /\ req[p] \in Reqs
  BY ContentAssumption DEF Procs, Places, OwnerTypes
<1>1. UNCHANGED <<lastId, withdrawn, excluded, ever, exposed, unsent>>
  BY DEF DeleteOwnedRepository
<1>2. CASE Done(p) /\ UNCHANGED <<repo, rows, tags, tomb, deleted>>
  <2>1. Moves(p) /\ req'[p].at = "idle" /\ req'[p].repo = 0
    BY <1>0, <1>2, DoneReq
  <2>2. Place(p)'
    BY <1>0, <1>1, <2>1 DEF Place, AfterPut
  <2>3. exposed' \subseteq ever
    BY <1>1 DEF Known
  <2> QED BY <1>1, <1>2, <2>1, <2>2, <2>3, TablesKept DEF ownerTables
<1>3. CASE /\ req' = [req EXCEPT ![p] = [@ EXCEPT !.at = "withdraw",
                                                  !.tags = {x[2] : x \in tags},
                                                  !.digests = Stored]]
           /\ tomb' = tomb \union Stored
           /\ repo' = 0
           /\ rows' = {x \in rows : x[1] # repo}
           /\ tags' = {x \in tags : x[1] # repo}
           /\ deleted' = deleted \union Stored
  <2> DEFINE r == [req[p] EXCEPT !.at = "withdraw", !.tags = {x[2] : x \in tags},
                                 !.digests = Stored]
  <2>1. {x[2] : x \in tags} \subseteq Tags /\ Stored \subseteq Digests
    BY DEF OwnerTypes, Stored
  <2>2. r \in Reqs /\ r.at = "withdraw" /\ r.repo = req[p].repo
    BY <1>0, <2>1 DEF Reqs, ReqSteps
  <2>3. req' = [req EXCEPT ![p] = r]
    BY <1>3
  <2> HIDE DEF r
  <2>4. Moves(p) /\ req'[p] = r
    BY <1>0, <2>2, <2>3, SetReq
  <2>5. Place(p)'
    BY <1>0, <1>1, <2>2, <2>4 DEF Place, AfterPut
  <2>6. Places'
    BY <1>0, <1>1, <1>3, <2>4, <2>5, PlacesFrame
  <2>7. rows' = {} /\ tags' = {} /\ Stored' = {}
    BY <1>3 DEF Current, NoOrphans, Stored
  <2>8. OwnerTypes'
    BY <1>0, <1>1, <1>3, <2>4, <2>7 DEF OwnerTypes, Moves
  <2>9. Current'
    BY <2>7 DEF Current, NoOrphans
  <2>10. GoneIsTombstoned' /\ Known' /\ Open' = {}
    BY <1>1, <1>3, <2>7 DEF GoneIsTombstoned, Known, Open
  <2>11. req'["sweep"] = req["sweep"]
    BY <1>0, <2>4 DEF Moves
  <2>12. Retracting' /\ WithdrawnIsRetracted'
    BY <1>1, <1>3, <2>10, <2>11, RetractFrame
  <2> QED BY <2>6, <2>8, <2>9, <2>10, <2>12
<1> QED BY <1>2, <1>3 DEF DeleteOwnedRepository
-----------------------------------------------------------------------------
(***************************************************************************)
(* A step of the sweep: the tables stay, nothing becomes exposed, and it   *)
(* keeps or empties its list of what is to be retracted.                   *)
(***************************************************************************)
LEMMA SweepFrame ==
  ASSUME OwnerInv, Moves("sweep"), Place("sweep")', req["sweep"].at # "idle",
         UNCHANGED <<repo, lastId, rows, tags, tomb, ever, deleted, excluded>>,
         unsent \subseteq unsent', exposed' \subseteq exposed,
         withdrawn' => withdrawn \/ (req["sweep"].at = "mark" /\ req["sweep"].repo = repo),
         LET s == req'["sweep"] IN
           /\ s.at = "withdraw" /\ s.repo = repo => Open' \subseteq s.digests
           /\ s.at = "mark" /\ s.repo = repo => Open' = {}
  PROVE  OwnerInv'
<1> USE DEF OwnerInv
<1>1. "sweep" \in Procs /\ excluded
  BY DEF Procs, Retracting
<1>2. Places'
  BY <1>1, PlacesFrame DEF OwnerTypes
<1>3. OwnerTypes'
  BY DEF OwnerTypes, Moves
<1>4. Current' /\ GoneIsTombstoned' /\ Known' /\ Stored' = Stored
  BY DEF Current, NoOrphans, GoneIsTombstoned, Known, Stored
<1>5. Open' \subseteq Open
  BY <1>4 DEF Open
<1>6. Retracting'
  BY <1>1 DEF Retracting
<1>7. WithdrawnIsRetracted'
  <2>1. withdrawn' /\ repo # 0 => Open = {}
    BY DEF Retracting, WithdrawnIsRetracted, Open
  <2> QED BY <1>4, <1>5, <2>1 DEF WithdrawnIsRetracted, Open
<1> QED BY <1>2, <1>3, <1>4, <1>6, <1>7

(***************************************************************************)
(* WithdrawRepo, of a repository delete and of the sweep: what is crossed  *)
(* off the list is retracted, or its loss is known.                        *)
(***************************************************************************)
LEMMA WithdrawStep ==
  ASSUME OwnerInv, NEW p \in Procs, WithdrawRepo(p) \/ WithdrawFails(p)
  PROVE  OwnerInv'
<1> USE DEF OwnerInv
<1>0. /\ Place(p) /\ req[p] \in Reqs /\ req[p].at = "withdraw" /\ lastId \in Nat
      /\ req[p].digests \subseteq Digests /\ exposed \subseteq ever
  BY DEF Places, OwnerTypes, Reqs, Known, WithdrawRepo, WithdrawFails
<1>1. UNCHANGED <<ownerTables, repo, lastId, rows, tags, tomb, withdrawn, excluded, ever, deleted>>
  BY DEF WithdrawRepo, WithdrawFails, ownerTables
<1>2. SUFFICES /\ Moves(p) /\ req'[p].repo \in {req[p].repo, 0}
               /\ req'[p].at \in {"idle", "withdraw", "mark"}
               /\ req'[p].at # "idle" => req'[p].repo = req[p].repo
               /\ req'[p].at = "mark" => p = "sweep"
               /\ unsent \subseteq unsent' /\ exposed' \subseteq exposed
               /\ req'[p].at = "withdraw" =>
                    (req[p].digests \ req'[p].digests) \intersect exposed' \subseteq unsent'
               /\ req'[p].at = "mark" => req[p].digests = {}
  <2>1. Place(p)'
    BY <1>0, <1>1, <1>2 DEF Place, AfterPut
  <2>2. CASE p # "sweep"
    BY <1>0, <1>1, <1>2, <2>1, <2>2, TablesKept DEF Procs
  <2>3. CASE p = "sweep"
    <3>1. Stored' = Stored
      BY <1>1 DEF Stored
    <3>2. req["sweep"].repo = repo => Open \subseteq req["sweep"].digests
      BY <1>0, <2>3 DEF Retracting
    <3>3. LET s == req'["sweep"] IN
            /\ s.at = "withdraw" /\ s.repo = repo => Open' \subseteq s.digests
            /\ s.at = "mark" /\ s.repo = repo => Open' = {}
      BY <1>1, <1>2, <2>3, <3>1, <3>2 DEF Open
    <3> QED BY <1>0, <1>1, <1>2, <2>1, <2>3, <3>3, SweepFrame
  <2> QED BY <2>2, <2>3
<1>3. ASSUME Done(p), unsent \subseteq unsent', exposed' \subseteq exposed
      PROVE  /\ Moves(p) /\ req'[p].repo = 0 /\ req'[p].at = "idle"
  BY <1>3, DoneReq
<1>4. CASE WithdrawFails(p)
  BY <1>3, <1>4 DEF WithdrawFails
<1>5. ASSUME NEW tg \in req[p].tags, Publish("Delete", NoDigest, tg),
             req' = [req EXCEPT ![p].tags = @ \ {tg}]
      PROVE  /\ Moves(p) /\ req'[p].at = "withdraw" /\ req'[p].repo = req[p].repo
             /\ req'[p].digests = req[p].digests
             /\ unsent \subseteq unsent' /\ exposed' \subseteq exposed
  <2> DEFINE r == [req[p] EXCEPT !.tags = @ \ {tg}]
  <2>1. r \in Reqs /\ r.at = "withdraw" /\ r.repo = req[p].repo /\ r.digests = req[p].digests
    BY <1>0 DEF Reqs
  <2>2. req' = [req EXCEPT ![p] = r]
    BY <1>5
  <2> HIDE DEF r
  <2>3. Moves(p) /\ req'[p] = r
    BY <2>1, <2>2, SetReq
  <2> QED BY <1>5, <2>1, <2>3, PublishEffect
<1>6. ASSUME NEW d \in req[p].digests, Publish("Delete", d, NoTag),
             req' = [req EXCEPT ![p].digests = @ \ {d}]
      PROVE  /\ Moves(p) /\ req'[p].at = "withdraw" /\ req'[p].repo = req[p].repo
             /\ req'[p].digests = req[p].digests \ {d}
             /\ unsent \subseteq unsent' /\ exposed' \subseteq exposed
             /\ d \notin exposed' \ unsent'
  <2> DEFINE r == [req[p] EXCEPT !.digests = @ \ {d}]
  <2>1. /\ r \in Reqs /\ r.at = "withdraw" /\ r.repo = req[p].repo
        /\ r.digests = req[p].digests \ {d}
    BY <1>0 DEF Reqs
  <2>2. req' = [req EXCEPT ![p] = r]
    BY <1>6
  <2> HIDE DEF r
  <2>3. Moves(p) /\ req'[p] = r
    BY <2>1, <2>2, SetReq
  <2>4. d # NoDigest
    BY <1>0, ContentAssumption
  <2> QED BY <1>6, <2>1, <2>3, <2>4, PublishEffect
<1>7. ASSUME Step(p, "mark")
      PROVE  Moves(p) /\ req'[p].at = "mark" /\ req'[p].repo = req[p].repo
  BY <1>7, StepReq DEF ReqSteps
<1>8. CASE WithdrawRepo(p)
  <2>1. CASE \E tg \in req[p].tags : /\ Publish("Delete", NoDigest, tg)
                                     /\ req' = [req EXCEPT ![p].tags = @ \ {tg}]
    BY <1>5, <2>1
  <2>2. CASE \E d \in req[p].digests : /\ Publish("Delete", d, NoTag)
                                       /\ req' = [req EXCEPT ![p].digests = @ \ {d}]
    BY <1>6, <2>2
  <2>3. CASE /\ req[p].digests = {} /\ UNCHANGED <<outgoing, left>>
             /\ IF p = "sweep" THEN Step(p, "mark") ELSE Done(p)
    BY <1>3, <1>7, <2>3 DEF outgoing
  <2> QED BY <1>8, <2>1, <2>2, <2>3 DEF WithdrawRepo
<1> QED BY <1>4, <1>8

(***************************************************************************)
(* runFederationWithdrawalSweep: at the listing of the manifests the list  *)
(* is all that is stored, and the mark comes after it is empty.            *)
(***************************************************************************)
LEMMA SweepStep ==
  ASSUME OwnerInv, Sweep
  PROVE  OwnerInv'
<1> USE DEF OwnerInv
<1> DEFINE s == req["sweep"]
<1>0. /\ "sweep" \in Procs /\ Place("sweep") /\ s \in Reqs /\ s.repo \in Nat
      /\ repo \in Nat /\ lastId \in Nat /\ repo <= lastId
  BY DEF Procs, Places, OwnerTypes, Reqs
<1>1. UNCHANGED <<repo, lastId, rows, tags, tomb, excluded, ever, deleted, exposed, unsent>>
  BY DEF Sweep, SweepList, SweepListVersions, SweepMark, ownerTables, outgoing
<1>2. ASSUME Done("sweep") PROVE Moves("sweep") /\ req'["sweep"].at = "idle" /\ Place("sweep")'
  <2>1. Moves("sweep") /\ req'["sweep"].at = "idle" /\ req'["sweep"].repo = 0
    BY <1>0, <1>2, DoneReq
  <2> QED BY <1>0, <1>1, <2>1 DEF Place, AfterPut
<1>3. CASE SweepList
  <2>1. s.at = "list" /\ withdrawn' = withdrawn
    BY <1>3 DEF SweepList, ownerTables
  <2>2. CASE Done("sweep")
    BY <1>1, <1>2, <2>1, <2>2, SweepFrame
  <2>3. CASE req' = [req EXCEPT !["sweep"] = [@ EXCEPT !.at = "listVersions",
                      !.repo = repo, !.tags = {x[2] : x \in tags}]]
    <3> DEFINE r == [s EXCEPT !.at = "listVersions", !.repo = repo, !.tags = {x[2] : x \in tags}]
    <3>1. {x[2] : x \in tags} \subseteq Tags
      BY DEF OwnerTypes
    <3>2. r \in Reqs /\ r.at = "listVersions" /\ r.repo = repo
      BY <1>0, <3>1 DEF Reqs, ReqSteps
    <3>3. req' = [req EXCEPT !["sweep"] = r]
      BY <2>3
    <3> HIDE DEF r
    <3>4. Moves("sweep") /\ req'["sweep"] = r
      BY <1>0, <3>2, <3>3, SetReq
    <3>5. Place("sweep")'
      BY <1>0, <1>1, <3>2, <3>4 DEF Place, AfterPut
    <3> QED BY <1>1, <2>1, <3>2, <3>4, <3>5, SweepFrame
  <2> QED BY <1>3, <2>2, <2>3 DEF SweepList
<1>4. CASE SweepListVersions
  <2> DEFINE r == [s EXCEPT !.at = "withdraw",
                            !.digests = {d \in Digests : <<s.repo, d>> \in rows}]
  <2>1. s.at = "listVersions" /\ withdrawn' = withdrawn
    BY <1>4 DEF SweepListVersions, ownerTables
  <2>2. /\ r \in Reqs /\ r.at = "withdraw" /\ r.repo = s.repo
        /\ r.digests = {d \in Digests : <<s.repo, d>> \in rows}
    BY <1>0 DEF Reqs, ReqSteps
  <2>3. req' = [req EXCEPT !["sweep"] = r]
    BY <1>4 DEF SweepListVersions
  <2> HIDE DEF r
  <2>4. Moves("sweep") /\ req'["sweep"] = r
    BY <1>0, <2>2, <2>3, SetReq
  <2>5. Place("sweep")'
    BY <1>0, <1>1, <2>2, <2>4 DEF Place, AfterPut
  <2>6. s.repo = repo => Open' \subseteq r.digests
    BY <1>1, <2>2 DEF Open, Stored
  <2> QED BY <1>1, <2>1, <2>2, <2>4, <2>5, <2>6, SweepFrame
<1>5. CASE SweepMark
  <2>1. s.at = "mark" /\ Done("sweep") /\ withdrawn' = (withdrawn \/ repo = s.repo)
    BY <1>5 DEF SweepMark
  <2>2. withdrawn' => withdrawn \/ s.repo = repo
    BY <2>1
  <2> QED BY <1>1, <1>2, <2>1, <2>2, SweepFrame
<1> QED BY <1>3, <1>4, <1>5 DEF Sweep

(***************************************************************************)
(* A restart forgets the requests and starts the sweep of an excluded      *)
(* repository from the beginning.                                          *)
(***************************************************************************)
LEMMA RestartStep ==
  ASSUME OwnerInv, Restart
  PROVE  OwnerInv'
<1> USE DEF OwnerInv
<1>1. /\ UNCHANGED <<repo, lastId, rows, tags, tomb, withdrawn, ever, deleted, exposed>>
      /\ unsent \subseteq unsent'
  BY DEF Restart, ownerTables
<1>2. PICK x \in {excluded, TRUE} :
        /\ excluded' = x
        /\ req' = [p \in Procs |-> IF p = "sweep" /\ x
                                     THEN [IdleReq EXCEPT !.at = "list"] ELSE IdleReq]
  BY DEF Restart
<1>3. /\ IdleReq \in Reqs /\ IdleReq.at = "idle" /\ IdleReq.repo = 0
      /\ [IdleReq EXCEPT !.at = "list"] \in Reqs
      /\ [IdleReq EXCEPT !.at = "list"].at = "list" /\ [IdleReq EXCEPT !.at = "list"].repo = 0
  BY DEF IdleReq, Reqs, ReqSteps, AnyDigest, AnyTag
<1>4. /\ req' \in [Procs -> Reqs]
      /\ \A p \in Procs : /\ req'[p].at \in {"idle", "list"} /\ req'[p].repo = 0
                          /\ req'[p].at = "list" => p = "sweep" /\ excluded'
  BY <1>2, <1>3
<1>5. lastId \in Nat /\ "sweep" \in Procs
  BY DEF OwnerTypes, Procs
<1>6. Places'
  BY <1>1, <1>4, <1>5 DEF Places, Place, AfterPut
<1>7. OwnerTypes'
  BY <1>1, <1>4 DEF OwnerTypes
<1>8. Current' /\ GoneIsTombstoned' /\ Known' /\ Stored' = Stored
  BY <1>1 DEF Current, NoOrphans, GoneIsTombstoned, Known, Stored
<1>9. Retracting'
  BY <1>1, <1>2, <1>4, <1>5 DEF Retracting
<1>10. WithdrawnIsRetracted'
  BY <1>1, <1>8 DEF WithdrawnIsRetracted
<1> QED BY <1>6, <1>7, <1>8, <1>9, <1>10
-----------------------------------------------------------------------------
(***************************************************************************)
(* The mirror does not write to the owner.                                 *)
(***************************************************************************)
LEMMA OwnerFrame ==
  ASSUME OwnerInv, UNCHANGED <<ownerTables, excluded, req, ever, deleted, exposed, unsent>>
  PROVE  OwnerInv'
<1> USE DEF OwnerInv, ownerTables
<1>1. Places'
  BY DEF Places, Place
<1>2. OwnerTypes' /\ Current' /\ GoneIsTombstoned' /\ Known' /\ WithdrawnIsRetracted'
  BY DEF OwnerTypes, Current, NoOrphans, GoneIsTombstoned, Known, Stored, WithdrawnIsRetracted
<1>3. Retracting'
  BY DEF Retracting, Open, Stored
<1> QED BY <1>1, <1>2, <1>3

(***************************************************************************)
(* The owner's invariant holds at the start and is kept by every step of   *)
(* the requests, the sweep, a restart and the mirror.                      *)
(***************************************************************************)
LEMMA OwnerInvInductive ==
  /\ Init => OwnerInv
  /\ OwnerInv /\ [Next]_vars => OwnerInv'
<1>1. ASSUME Init PROVE OwnerInv
  <2>1. IdleReq \in Reqs /\ IdleReq.at = "idle" /\ IdleReq.repo = 0
    BY DEF IdleReq, Reqs, ReqSteps, AnyDigest, AnyTag
  <2>2. /\ req \in [Procs -> Reqs] /\ "sweep" \in Procs
        /\ \A p \in Procs : req[p].at = "idle" /\ req[p].repo = 0
    BY <1>1, <2>1 DEF Init, Procs
  <2>3. OwnerTypes /\ Places
    BY <1>1, <2>2 DEF Init, OwnerTypes, Places, Place, AfterPut
  <2>4. Current /\ GoneIsTombstoned /\ Known /\ WithdrawnIsRetracted
    BY <1>1 DEF Init, Current, NoOrphans, GoneIsTombstoned, Known, WithdrawnIsRetracted
  <2>5. Retracting
    BY <1>1, <2>2 DEF Init, Retracting
  <2> QED BY <2>3, <2>4, <2>5 DEF OwnerInv
<1>2. ASSUME OwnerInv, [Next]_vars PROVE OwnerInv'
  <2>1. ASSUME NEW p \in Requests, PushStep(p) \/ DeleteStep(p) \/ DeleteRepoBegin(p)
        PROVE  OwnerInv'
    BY <1>2, <2>1, PublishStep, DeleteBeginStep, TagStep, PutManifestStep, DeleteManifestStep,
       DeleteRepoStep DEF PushStep, DeleteStep
  <2>2. ASSUME NEW p \in Requests,
               \/ \E d \in Digests, tg \in AnyTag : PushBegin(p, d, tg)
               \/ \E d \in Digests : DeleteManifestBegin(p, d)
               \/ \E tg \in Tags : DeleteTag(p, tg)
        PROVE  OwnerInv'
    BY <1>2, <2>2, PushBeginStep, DeleteBeginStep, TagStep
  <2>3. CASE UNCHANGED <<ownerTables, excluded, req, ever, deleted, exposed, unsent>>
    BY <1>2, <2>3, OwnerFrame
  <2>4. ASSUME NEW w \in Workers, InboxTask(w) PROVE OwnerInv'
    <3>1. UNCHANGED <<ownerTables, excluded, req, ever, deleted, exposed, unsent>>
      BY <2>4 DEF InboxTask, Take, GetOrCreateRepository, IngestManifest, IngestPutTag,
                  IngestTag, InboxDeleteManifest, InboxRecordDeleted, InboxDeleteTag,
                  outgoing
    <3> QED BY <2>3, <3>1
  <2>5. ASSUME NEW d \in Digests, PullBegin(d) \/ EvictManifest(d) PROVE OwnerInv'
    BY <2>3, <2>5 DEF PullBegin, EvictManifest, outgoing
  <2>6. CASE FetchManifest \/ StoreFetched \/ EvictRepo \/ UNCHANGED vars
    BY <2>3, <2>6 DEF FetchManifest, StoreFetched, EvictRepo, vars, outgoing
  <2> QED
    BY <1>2, <2>1, <2>2, <2>4, <2>5, <2>6, WithdrawStep, SweepStep, RestartStep DEF Next
<1> QED BY <1>1, <1>2

(***************************************************************************)
(* A push that overlaps a repository delete leaves nothing behind.         *)
(***************************************************************************)
THEOREM OrphanFree == Spec => []NoOrphans
<1>1. OwnerInv => NoOrphans
  BY DEF OwnerInv, Current
<1> QED BY <1>1, OwnerInvInductive, PTL DEF Spec

(***************************************************************************)
(* A manifest the owner once stored and no longer has is answered with     *)
(* 410 Gone, wherever a delete was cut short.                              *)
(***************************************************************************)
THEOREM GoneForGood == Spec => []GoneIsTombstoned
<1>1. OwnerInv => GoneIsTombstoned
  BY DEF OwnerInv
<1> QED BY <1>1, OwnerInvInductive, PTL DEF Spec

(***************************************************************************)
(* A repository marked withdrawn has been retracted, however often the     *)
(* sweep was interrupted and whatever was pushed or deleted meanwhile.     *)
(***************************************************************************)
THEOREM WithdrawalComplete == Spec => []WithdrawnIsRetracted
<1>1. OwnerInv => WithdrawnIsRetracted
  BY DEF OwnerInv
<1> QED BY <1>1, OwnerInvInductive, PTL DEF Spec
-----------------------------------------------------------------------------
TaskSteps ==
  {"idle", "getOrCreate", "putManifest", "putTag", "getManifest", "deleteManifest",
   "recordTombstone", "deleteTag"}

Tasks ==
  [at : TaskSteps, type : {"Create", "Update", "Delete"}, digest : AnyDigest, tag : AnyTag,
   actor : Senders, repo : Nat]

MirrorTypes ==
  /\ mlastId \in Nat /\ mrepo \in [id : Nat, owner : Senders] /\ mrepo.id <= mlastId
  /\ mrows \subseteq [repo : 1..mlastId, digest : Digests, source : Senders]
  /\ mtags \subseteq Nat \X Tags \X Digests
  /\ work \in [Workers -> Tasks]
  /\ pull \in [at : {"idle", "fetch", "store"}, digest : AnyDigest, repo : Nat, source : Senders]
  /\ IsABag(net)

(***************************************************************************)
(* What is on the way: only a Delete comes without a digest, and an Update *)
(* has a tag.                                                              *)
(***************************************************************************)
Wellformed(a) ==
  /\ a \in Activity
  /\ a.type # "Delete" => a.digest \in Digests
  /\ a.type = "Update" => a.tag \in Tags

(***************************************************************************)
(* Whoever writes to the copy has checked its owner, and an id means the   *)
(* same copy for ever: it is evicted or keeps its owner.                   *)
(***************************************************************************)
Entitled(w) ==
  /\ work[w].at = "putManifest" =>
       /\ work[w].repo \in 1..mlastId
       /\ work[w].repo = mrepo.id => work[w].actor = mrepo.owner
  /\ work[w].at \notin {"idle", "deleteTag"} => work[w].digest \in Digests
  /\ work[w].at \in {"putTag", "getManifest"} => work[w].tag \in Tags

PullEntitled ==
  pull.at # "idle" =>
    /\ pull.digest \in Digests /\ pull.repo \in 1..mlastId
    /\ pull.repo = mrepo.id => pull.source = mrepo.owner

MirrorInv ==
  /\ MirrorTypes
  /\ \A a \in BagToSet(net) : Wellformed(a)
  /\ \A w \in Workers : Entitled(w)
  /\ PullEntitled /\ SourceIsOwner

(***************************************************************************)
(* What is on the way after something was sent, and after it was taken.    *)
(***************************************************************************)
LEMMA BagOfOne ==
  ASSUME NEW B, IsABag(B), NEW a
  PROVE  /\ IsABag(B (+) SetToBag({a}))
         /\ BagToSet(B (+) SetToBag({a})) = BagToSet(B) \union {a}
         /\ IsABag(B (-) SetToBag({a}))
         /\ BagToSet(B (-) SetToBag({a})) \subseteq BagToSet(B)
         /\ BagToSet(B) \ {a} \subseteq BagToSet(B (-) SetToBag({a}))
<1>1. /\ \A e \in DOMAIN B : B[e] \in Nat /\ B[e] > 0
      /\ DOMAIN SetToBag({a}) = {a} /\ SetToBag({a})[a] = 1
  BY DEF IsABag, SetToBag
<1> DEFINE C == SetToBag({a})
<1> HIDE DEF C
<1>2. /\ IsABag(B (+) C) /\ DOMAIN (B (+) C) = DOMAIN B \union {a}
  BY <1>1 DEF IsABag, (+), C
<1>3. /\ IsABag(B (-) C)
      /\ DOMAIN (B (-) C) \subseteq DOMAIN B /\ DOMAIN B \ {a} \subseteq DOMAIN (B (-) C)
  BY <1>1 DEF IsABag, (-), C
<1> QED BY <1>2, <1>3 DEF BagToSet, C

(***************************************************************************)
(* A publication puts at most its own activity on the way, and a Create of *)
(* a repository that is not excluded is on the way or known to be lost.    *)
(***************************************************************************)
LEMMA PublishNet ==
  ASSUME IsABag(net), NEW type, NEW d, NEW tg, Publish(type, d, tg)
  PROVE  LET a == [type |-> type, digest |-> d, tag |-> tg, actor |-> Owner] IN
         /\ IsABag(net')
         /\ BagToSet(net) \subseteq BagToSet(net')
         /\ BagToSet(net') \subseteq BagToSet(net) \union {a}
         /\ \/ a \in BagToSet(net')
            \/ type # "Delete" /\ excluded
            \/ (d # NoDigest => d \in unsent') /\ (tg # NoTag => tagLost')
<1> DEFINE a == [type |-> type, digest |-> d, tag |-> tg, actor |-> Owner]
<1>1. CASE type # "Delete" /\ excluded
  BY <1>1 DEF Publish, outgoing
<1>2. CASE Enqueued(type, d, tg)
  <2>1. net' = net (+) SetToBag({a})
    BY <1>2 DEF Enqueued
  <2> HIDE DEF a
  <2>2. IsABag(net') /\ BagToSet(net') = BagToSet(net) \union {a}
    BY <2>1, BagOfOne
  <2> QED BY <2>2 DEF a
<1>3. CASE Lost(d, tg)
  BY <1>3 DEF Lost
<1> QED BY <1>1, <1>2, <1>3 DEF Publish

(***************************************************************************)
(* A step that leaves the mirror alone and sends nothing malformed.        *)
(***************************************************************************)
LEMMA MirrorFrame ==
  ASSUME MirrorInv, UNCHANGED <<mirrorTables, work, pull>>, IsABag(net'),
         \A a \in BagToSet(net') : a \in BagToSet(net) \/ Wellformed(a)
  PROVE  MirrorInv'
<1> USE DEF MirrorInv, mirrorTables
<1>1. MirrorTypes' /\ PullEntitled' /\ SourceIsOwner'
  BY DEF MirrorTypes, PullEntitled, SourceIsOwner
<1>2. \A a \in BagToSet(net') : Wellformed(a)
  OBVIOUS
<1>3. \A w \in Workers : Entitled(w)'
  BY DEF Entitled
<1> QED BY <1>1, <1>2, <1>3 DEF Wellformed

(***************************************************************************)
(* The owner sends well-formed activities and does not write to the        *)
(* mirror.                                                                 *)
(***************************************************************************)
LEMMA OwnerSends ==
  ASSUME OwnerInv, MirrorInv,
         \/ \E p \in Requests, d \in Digests, tg \in AnyTag : PushBegin(p, d, tg)
         \/ \E p \in Requests, d \in Digests : DeleteManifestBegin(p, d)
         \/ \E p \in Requests, tg \in Tags : DeleteTag(p, tg)
         \/ \E p \in Requests : DeleteRepoBegin(p) \/ PushStep(p) \/ DeleteStep(p)
         \/ \E p \in Procs : WithdrawRepo(p) \/ WithdrawFails(p)
         \/ Sweep \/ Restart
  PROVE  MirrorInv'
<1>0. IsABag(net)
  BY DEF MirrorInv, MirrorTypes
<1>1. CASE UNCHANGED <<mirrorTables, work, pull, net>>
  BY <1>0, <1>1, MirrorFrame
<1>2. ASSUME NEW type \in {"Create", "Update", "Delete"}, NEW d \in AnyDigest, NEW tg \in AnyTag,
             type # "Delete" => d \in Digests, type = "Update" => tg \in Tags,
             Publish(type, d, tg), UNCHANGED <<mirrorTables, work, pull>>
      PROVE  MirrorInv'
  <2> DEFINE a == [type |-> type, digest |-> d, tag |-> tg, actor |-> Owner]
  <2>1. Wellformed(a)
    BY <1>2 DEF Wellformed, Activity, Senders
  <2>2. IsABag(net') /\ BagToSet(net') \subseteq BagToSet(net) \union {a}
    BY <1>0, <1>2, PublishNet
  <2> HIDE DEF a
  <2> QED BY <1>2, <2>1, <2>2, MirrorFrame
<1>3. NoDigest \in AnyDigest /\ NoTag \in AnyTag
  BY DEF AnyDigest, AnyTag
<1>4. ASSUME NEW p \in Procs
      PROVE  /\ req[p].digest \in AnyDigest /\ req[p].tag \in AnyTag
             /\ req[p].tags \subseteq AnyTag /\ req[p].digests \subseteq AnyDigest
             /\ Place(p)
  BY <1>4 DEF OwnerInv, OwnerTypes, Reqs, AnyDigest, AnyTag, Places
<1>5. ASSUME NEW p \in Requests,
             \/ \E d \in Digests, tg \in AnyTag : PushBegin(p, d, tg)
             \/ \E d \in Digests : DeleteManifestBegin(p, d)
             \/ \E tg \in Tags : DeleteTag(p, tg)
             \/ DeleteRepoBegin(p) \/ PutManifestWithLayers(p) \/ PutTag(p)
             \/ RecordDeletedManifest(p) \/ DeleteManifest(p) \/ DeleteOwnedRepository(p)
      PROVE  MirrorInv'
  BY <1>1, <1>5 DEF PushBegin, DeleteManifestBegin, DeleteTag, DeleteRepoBegin,
     PutManifestWithLayers, PutTag, RecordDeletedManifest, DeleteManifest, DeleteOwnedRepository,
     outgoing
<1>6. ASSUME NEW p \in Requests, PublishManifest(p) PROVE MirrorInv'
  <2>1. p \in Procs /\ req[p].digest \in Digests
    BY <1>4, <1>6 DEF PublishManifest, Procs, Place, AfterPut
  <2> QED BY <1>2, <1>4, <1>6, <2>1 DEF PublishManifest
<1>7. ASSUME NEW p \in Requests, PublishTag(p) PROVE MirrorInv'
  <2>1. p \in Procs /\ req[p].digest \in Digests /\ req[p].tag \in Tags
    BY <1>4, <1>7 DEF PublishTag, Procs, Place, AfterPut
  <2> QED BY <1>2, <1>4, <1>7, <2>1 DEF PublishTag
<1>8. ASSUME NEW p \in Requests, PublishManifestDelete(p) \/ PublishTagDelete(p) PROVE MirrorInv'
  <2>1. p \in Procs
    BY DEF Procs
  <2> QED BY <1>2, <1>3, <1>4, <1>8, <2>1 DEF PublishManifestDelete, PublishTagDelete
<1>9. ASSUME NEW p \in Procs, WithdrawRepo(p) PROVE MirrorInv'
  BY <1>1, <1>2, <1>3, <1>4, <1>9 DEF WithdrawRepo, outgoing
<1>10. ASSUME NEW p \in Procs, WithdrawFails(p) PROVE MirrorInv'
  BY <1>1, <1>10 DEF WithdrawFails
<1>11. CASE Sweep \/ Restart
  BY <1>1, <1>11 DEF Sweep, SweepList, SweepListVersions, SweepMark, Restart, outgoing
<1> QED BY <1>5, <1>6, <1>7, <1>8, <1>9, <1>10, <1>11 DEF PushStep, DeleteStep
-----------------------------------------------------------------------------
\* Only worker w moves, and stays in the shape of a task.
TaskMoves(w) ==
  /\ work' \in [Workers -> Tasks]
  /\ \A v \in Workers : v # w => work'[v] = work[v]

(***************************************************************************)
(* The ways an inbox task moves on: to other work, ...                     *)
(***************************************************************************)
LEMMA SetTask ==
  ASSUME MirrorInv, NEW w \in Workers, NEW r \in Tasks, work' = [work EXCEPT ![w] = r]
  PROVE  TaskMoves(w) /\ work'[w] = r
BY DEF MirrorInv, MirrorTypes, TaskMoves

\* ... to another step with what it carries, ...
LEMMA StepTask ==
  ASSUME MirrorInv, NEW w \in Workers, NEW at \in TaskSteps, Task(w, at)
  PROVE  TaskMoves(w) /\ work'[w] = [work[w] EXCEPT !.at = at]
<1>1. work[w] \in Tasks
  BY DEF MirrorInv, MirrorTypes
<1>2. [work[w] EXCEPT !.at = at] \in Tasks
  BY <1>1 DEF Tasks
<1>3. work' = [work EXCEPT ![w] = [work[w] EXCEPT !.at = at]]
  BY DEF Task
<1> QED BY <1>2, <1>3, SetTask

\* ... and to its end.
LEMMA DoneTask ==
  ASSUME MirrorInv, NEW w \in Workers, TaskDone(w)
  PROVE  TaskMoves(w) /\ work'[w].at = "idle"
<1>1. IdleTask \in Tasks /\ IdleTask.at = "idle"
  BY DEF IdleTask, Tasks, TaskSteps, AnyDigest, AnyTag, Senders
<1> QED BY <1>1, SetTask DEF TaskDone

(***************************************************************************)
(* A step of a task that creates no copy and removes none: only the rows   *)
(* it writes count.                                                        *)
(***************************************************************************)
LEMMA TaskFrame ==
  ASSUME MirrorInv, NEW w \in Workers, TaskMoves(w), Entitled(w)',
         UNCHANGED <<mrepo, mlastId, pull>>,
         IsABag(net'), BagToSet(net') \subseteq BagToSet(net),
         mrows' \subseteq [repo : 1..mlastId, digest : Digests, source : Senders],
         mtags' \subseteq Nat \X Tags \X Digests, SourceIsOwner'
  PROVE  MirrorInv'
<1> USE DEF MirrorInv
<1>1. MirrorTypes' /\ PullEntitled'
  BY DEF MirrorTypes, PullEntitled, TaskMoves
<1>2. \A a \in BagToSet(net') : Wellformed(a)
  OBVIOUS
<1>3. ASSUME NEW v \in Workers, v # w PROVE Entitled(v)'
  <2>1. work'[v] = work[v] /\ Entitled(v)
    BY <1>3 DEF TaskMoves
  <2> QED BY <2>1 DEF Entitled
<1> QED BY <1>1, <1>2, <1>3 DEF Wellformed

(***************************************************************************)
(* The first look of a handler at the repository checks its owner.         *)
(***************************************************************************)
LEMMA TakeStep ==
  ASSUME MirrorInv, NEW w \in Workers, Take(w)
  PROVE  MirrorInv'
<1> USE DEF MirrorInv
<1>1. UNCHANGED <<mrepo, mlastId, mrows, mtags, pull>>
  BY DEF Take, mirrorTables
<1>2. PICK a \in BagToSet(net) :
        /\ net' = net (-) SetToBag({a})
        /\ work' = IF FirstStep(a) = "idle" THEN work
                   ELSE [work EXCEPT ![w] =
                          [at |-> FirstStep(a), type |-> a.type, digest |-> a.digest,
                           tag |-> a.tag, actor |-> a.actor, repo |-> mrepo.id]]
  BY DEF Take
<1>3. IsABag(net') /\ BagToSet(net') \subseteq BagToSet(net)
  BY <1>2, BagOfOne DEF MirrorTypes
<1>4. Wellformed(a) /\ mrepo.id \in Nat /\ mrepo.id <= mlastId /\ mlastId \in Nat
  BY <1>2 DEF MirrorTypes
<1>5. SourceIsOwner'
  BY <1>1 DEF SourceIsOwner
<1>6. CASE FirstStep(a) = "idle"
  <2>1. work' = work
    BY <1>2, <1>6
  <2>2. TaskMoves(w) /\ Entitled(w)'
    BY <1>1, <2>1 DEF TaskMoves, MirrorTypes, Entitled
  <2> QED BY <1>1, <1>3, <1>5, <2>2, TaskFrame DEF MirrorTypes
<1>7. CASE FirstStep(a) # "idle"
  <2> DEFINE r == [at |-> FirstStep(a), type |-> a.type, digest |-> a.digest,
                   tag |-> a.tag, actor |-> a.actor, repo |-> mrepo.id]
  <2>1. /\ FirstStep(a) \in TaskSteps
        /\ FirstStep(a) # "putTag"
        /\ FirstStep(a) \in {"getOrCreate", "putManifest"} => a.type = "Create"
        /\ FirstStep(a) = "putManifest" => mrepo.id # 0 /\ mrepo.owner = a.actor
        /\ FirstStep(a) = "getManifest" => a.type = "Update"
        /\ FirstStep(a) = "deleteManifest" => a.digest # NoDigest
        /\ FirstStep(a) # "recordTombstone"
    BY <1>7 DEF FirstStep, TaskSteps
  <2>2. /\ a.type \in {"Create", "Update", "Delete"} /\ a.digest \in AnyDigest
        /\ a.tag \in AnyTag /\ a.actor \in Senders
        /\ a.type # "Delete" => a.digest \in Digests
        /\ a.type = "Update" => a.tag \in Tags
    BY <1>4 DEF Wellformed, Activity
  <2>3. /\ r \in Tasks /\ r.at = FirstStep(a) /\ r.digest = a.digest /\ r.tag = a.tag
        /\ r.actor = a.actor /\ r.repo = mrepo.id
    BY <1>4, <2>1, <2>2 DEF Tasks
  <2>4. work' = [work EXCEPT ![w] = r]
    BY <1>2, <1>7
  <2> HIDE DEF r
  <2>5. TaskMoves(w) /\ work'[w] = r
    BY <2>3, <2>4, SetTask
  <2>6. Entitled(w)'
    <3>1. r.at \notin {"idle", "deleteTag"} => r.digest \in Digests
      BY <2>1, <2>2, <2>3 DEF TaskSteps, AnyDigest
    <3>2. r.at \in {"putTag", "getManifest"} => r.tag \in Tags
      BY <2>1, <2>2, <2>3
    <3>3. r.at = "putManifest" => r.repo \in 1..mlastId /\ r.actor = mrepo.owner
      BY <1>4, <2>1, <2>3
    <3> QED BY <1>1, <2>5, <3>1, <3>2, <3>3 DEF Entitled
  <2> QED BY <1>1, <1>3, <1>5, <2>5, <2>6, TaskFrame DEF MirrorTypes
<1> QED BY <1>6, <1>7

(***************************************************************************)
(* GetOrCreatePackage: a new copy has a new id, which no row, no task and  *)
(* no pull has; another sender's copy refuses the task.                    *)
(***************************************************************************)
LEMMA GetOrCreateStep ==
  ASSUME MirrorInv, NEW w \in Workers, GetOrCreateRepository(w)
  PROVE  MirrorInv'
<1> USE DEF MirrorInv
<1>1. /\ UNCHANGED <<mrows, mtags, pull, net>> /\ work[w].at = "getOrCreate"
      /\ work[w] \in Tasks /\ work[w].actor \in Senders /\ work[w].digest \in Digests
      /\ mlastId \in Nat /\ mrepo.id \in Nat /\ mrepo.id <= mlastId
      /\ mrepo \in [id : Nat, owner : Senders]
  BY DEF GetOrCreateRepository, outgoing, MirrorTypes, Tasks, Entitled
<1>2. /\ mrepo' \in [id : Nat, owner : Senders] /\ mlastId' \in Nat /\ mlastId <= mlastId'
      /\ mrepo'.id \in 1..mlastId'
      /\ mrepo'.id = mlastId + 1 \/ (mrepo' = mrepo /\ mlastId' = mlastId)
  BY <1>1 DEF GetOrCreateRepository
<1>3. TaskMoves(w) /\ Entitled(w)'
  <2>1. CASE mrepo'.owner = work[w].actor
    <3> DEFINE r == [work[w] EXCEPT !.at = "putManifest", !.repo = mrepo'.id]
    <3>1. /\ r \in Tasks /\ r.at = "putManifest" /\ r.repo = mrepo'.id
          /\ r.actor = work[w].actor /\ r.digest = work[w].digest
      BY <1>1, <1>2 DEF Tasks, TaskSteps
    <3>2. work' = [work EXCEPT ![w] = r]
      BY <2>1 DEF GetOrCreateRepository
    <3> HIDE DEF r
    <3>3. TaskMoves(w) /\ work'[w] = r
      BY <3>1, <3>2, SetTask
    <3> QED BY <1>1, <1>2, <2>1, <3>1, <3>3 DEF Entitled
  <2>2. CASE mrepo'.owner # work[w].actor
    <3>1. TaskMoves(w) /\ work'[w].at = "idle"
      BY <2>2, DoneTask DEF GetOrCreateRepository
    <3> QED BY <3>1 DEF Entitled
  <2> QED BY <2>1, <2>2
<1>4. ASSUME NEW v \in Workers, v # w PROVE Entitled(v)'
  <2>1. work'[v] = work[v] /\ Entitled(v) /\ work[v].repo \in Nat
    BY <1>3, <1>4 DEF TaskMoves, MirrorTypes, Tasks
  <2> QED BY <1>1, <1>2, <2>1 DEF Entitled
<1>5. PullEntitled'
  BY <1>1, <1>2 DEF PullEntitled, MirrorTypes
<1>6. SourceIsOwner'
  <2>1. \A x \in mrows : x.repo \in 1..mlastId
    BY DEF MirrorTypes
  <2> QED BY <1>1, <1>2, <2>1 DEF SourceIsOwner
<1>7. MirrorTypes'
  <2>1. 1..mlastId \subseteq 1..mlastId'
    BY <1>1, <1>2
  <2>2. mrows' \subseteq [repo : 1..mlastId', digest : Digests, source : Senders]
    BY <1>1, <2>1 DEF MirrorTypes
  <2> QED BY <1>1, <1>2, <1>3, <2>2 DEF MirrorTypes, TaskMoves
<1>8. \A a \in BagToSet(net') : Wellformed(a)
  BY <1>1
<1> QED BY <1>3, <1>4, <1>5, <1>6, <1>7, <1>8 DEF Wellformed

(***************************************************************************)
(* ingestManifest and the handlers that write tags or delete.              *)
(***************************************************************************)
LEMMA IngestStep ==
  ASSUME MirrorInv, NEW w \in Workers,
         \/ IngestManifest(w) \/ IngestPutTag(w) \/ IngestTag(w)
         \/ InboxDeleteManifest(w) \/ InboxRecordDeleted(w) \/ InboxDeleteTag(w)
  PROVE  MirrorInv'
<1> USE DEF MirrorInv
<1>1. /\ UNCHANGED <<mrepo, mlastId, pull, net>> /\ IsABag(net') /\ BagToSet(net') = BagToSet(net)
      /\ work[w] \in Tasks /\ Entitled(w)
  BY DEF IngestManifest, IngestPutTag, IngestTag, InboxDeleteManifest, InboxRecordDeleted,
         InboxDeleteTag, outgoing, mirrorTables, MirrorTypes
<1>2. ASSUME TaskDone(w) PROVE TaskMoves(w) /\ Entitled(w)'
  <2>1. TaskMoves(w) /\ work'[w].at = "idle"
    BY <1>2, DoneTask
  <2> QED BY <2>1 DEF Entitled
<1>3. ASSUME NEW at \in {"putTag", "recordTombstone"}, Task(w, at),
             work[w].digest \in Digests, at = "putTag" => work[w].tag \in Tags
      PROVE  TaskMoves(w) /\ Entitled(w)'
  <2>1. TaskMoves(w) /\ work'[w] = [work[w] EXCEPT !.at = at]
    BY <1>3, StepTask DEF TaskSteps
  <2>2. work'[w].at = at /\ work'[w].digest = work[w].digest /\ work'[w].tag = work[w].tag
    BY <1>1, <2>1 DEF Tasks
  <2> QED BY <1>3, <2>1, <2>2 DEF Entitled
<1>4. TaskMoves(w) /\ Entitled(w)'
  <2>1. CASE IngestManifest(w)
    <3>1. work[w].digest \in Digests /\ (work[w].tag # NoTag => work[w].tag \in Tags)
      BY <1>1, <2>1 DEF IngestManifest, Entitled, Tasks, AnyTag
    <3> QED BY <1>2, <1>3, <2>1, <3>1 DEF IngestManifest
  <2>2. CASE IngestTag(w)
    <3>1. work[w].digest \in Digests /\ work[w].tag \in Tags
      BY <1>1, <2>2 DEF IngestTag, Entitled
    <3> QED BY <1>2, <1>3, <2>2, <3>1 DEF IngestTag
  <2>3. CASE InboxDeleteManifest(w)
    <3>1. work[w].digest \in Digests
      BY <1>1, <2>3 DEF InboxDeleteManifest, Entitled
    <3> QED BY <1>3, <2>3, <3>1 DEF InboxDeleteManifest
  <2>4. CASE IngestPutTag(w) \/ InboxRecordDeleted(w) \/ InboxDeleteTag(w)
    BY <1>2, <2>4 DEF IngestPutTag, InboxRecordDeleted, InboxDeleteTag
  <2> QED BY <2>1, <2>2, <2>3, <2>4
<1>5. CASE IngestManifest(w)
  <2>1. /\ mrows' = RowPut(work[w].repo, work[w].digest, work[w].actor) /\ mtags' = mtags
        /\ work[w].repo \in 1..mlastId /\ work[w].digest \in Digests /\ work[w].actor \in Senders
        /\ work[w].repo = mrepo.id => work[w].actor = mrepo.owner
    BY <1>1, <1>5 DEF IngestManifest, Entitled, Tasks
  <2>2. mrows' \subseteq [repo : 1..mlastId, digest : Digests, source : Senders]
    BY <2>1 DEF RowPut, MirrorTypes
  <2>3. SourceIsOwner'
    BY <1>1, <2>1 DEF RowPut, SourceIsOwner
  <2> QED BY <1>1, <1>4, <2>1, <2>2, <2>3, TaskFrame DEF MirrorTypes
<1>6. CASE mrows' \subseteq mrows /\ mtags' \subseteq Nat \X Tags \X Digests
  <2>1. SourceIsOwner'
    BY <1>1, <1>6 DEF SourceIsOwner
  <2> QED BY <1>1, <1>4, <1>6, <2>1, TaskFrame DEF MirrorTypes
<1>7. CASE IngestPutTag(w)
  <2>1. /\ mrows' = mrows /\ mrepo.id \in Nat /\ work[w].tag \in Tags /\ work[w].digest \in Digests
        /\ mtags' \in {mtags, TagPut(mtags, mrepo.id, work[w].tag, work[w].digest)}
    BY <1>1, <1>7 DEF IngestPutTag, Entitled, MirrorTypes
  <2> QED BY <1>6, <2>1 DEF TagPut, MirrorTypes
<1>8. CASE IngestTag(w) \/ InboxDeleteManifest(w) \/ InboxRecordDeleted(w) \/ InboxDeleteTag(w)
  <2>1. mrows' \subseteq mrows /\ mtags' \subseteq mtags
    BY <1>8 DEF IngestTag, InboxDeleteManifest, InboxRecordDeleted, InboxDeleteTag,
                mirrorTables, TagsKept
  <2> QED BY <1>6, <2>1 DEF MirrorTypes
<1> QED BY <1>5, <1>7, <1>8

(***************************************************************************)
(* A pull and an eviction: a pull carries the owner of the copy it was     *)
(* begun for, and stores into no other copy.                               *)
(***************************************************************************)
LEMMA PullStep ==
  ASSUME MirrorInv,
         \/ \E d \in Digests : PullBegin(d) \/ EvictManifest(d)
         \/ FetchManifest \/ StoreFetched \/ EvictRepo
  PROVE  MirrorInv'
<1> USE DEF MirrorInv
<1>1. /\ UNCHANGED <<mlastId, work, net>>
      /\ mlastId \in Nat /\ mrepo \in [id : Nat, owner : Senders] /\ mrepo.id <= mlastId
      /\ pull \in [at : {"idle", "fetch", "store"}, digest : AnyDigest, repo : Nat,
                   source : Senders]
  BY DEF PullBegin, FetchManifest, StoreFetched, EvictManifest, EvictRepo, mirrorTables,
         outgoing, MirrorTypes
<1>2. /\ IdlePull.at = "idle"
      /\ IdlePull \in [at : {"idle", "fetch", "store"}, digest : AnyDigest, repo : Nat,
                       source : Senders]
  BY DEF IdlePull, AnyDigest, Senders
<1>3. ASSUME \/ \E d \in Digests : PullBegin(d)
             \/ FetchManifest \/ StoreFetched
      PROVE  mrepo' = mrepo
  BY <1>3 DEF PullBegin, FetchManifest, StoreFetched, mirrorTables
<1>4. /\ mrows' \subseteq [repo : 1..mlastId, digest : Digests, source : Senders]
      /\ SourceIsOwner'
  <2>1. CASE StoreFetched
    <3>1. /\ pull.digest \in Digests /\ pull.source \in Senders
          /\ pull.repo = mrepo.id => pull.source = mrepo.owner /\ mrepo.id \in 1..mlastId
          /\ mrows' = IF pull.repo = mrepo.id THEN RowPut(mrepo.id, pull.digest, pull.source)
                      ELSE mrows
      BY <1>1, <2>1 DEF StoreFetched, PullEntitled
    <3>2. mrepo' = mrepo
      BY <1>3, <2>1
    <3> QED BY <3>1, <3>2 DEF RowPut, SourceIsOwner, MirrorTypes
  <2>2. CASE (\E d \in Digests : PullBegin(d)) \/ FetchManifest
    <3>1. mrows' = mrows /\ mrepo' = mrepo
      BY <1>3, <2>2 DEF PullBegin, FetchManifest, mirrorTables
    <3> QED BY <3>1 DEF SourceIsOwner, MirrorTypes
  <2>3. ASSUME NEW d \in Digests, EvictManifest(d)
        PROVE  /\ mrows' \subseteq [repo : 1..mlastId, digest : Digests, source : Senders]
               /\ SourceIsOwner'
    BY <2>3 DEF EvictManifest, SourceIsOwner, MirrorTypes
  <2>4. CASE EvictRepo
    <3>1. \A x \in mrows' : x \in mrows /\ x.repo \in 1..mlastId
      BY <2>4 DEF EvictRepo, MirrorTypes
    <3>2. mrepo'.id = 0
      BY <2>4 DEF EvictRepo, NoRepo
    <3> QED BY <1>1, <3>1, <3>2 DEF SourceIsOwner, MirrorTypes
  <2> QED BY <2>1, <2>2, <2>3, <2>4
<1>5. mtags' \subseteq mtags
  BY DEF PullBegin, FetchManifest, StoreFetched, EvictManifest, EvictRepo, mirrorTables,
         TagsKept
<1>6. mrepo' \in [id : Nat, owner : Senders] /\ mrepo'.id \in {0, mrepo.id} /\ mrepo'.id <= mlastId
  BY <1>1, <1>3 DEF EvictManifest, EvictRepo, NoRepo, Senders
<1>7. PullEntitled' /\ pull' \in [at : {"idle", "fetch", "store"}, digest : AnyDigest,
                                  repo : Nat, source : Senders]
  <2>1. ASSUME NEW d \in Digests, PullBegin(d)
        PROVE  PullEntitled' /\ pull' \in [at : {"idle", "fetch", "store"}, digest : AnyDigest,
                                           repo : Nat, source : Senders]
    <3>1. /\ pull' = [at |-> "fetch", digest |-> d, repo |-> mrepo.id, source |-> mrepo.owner]
          /\ mrepo' = mrepo /\ mrepo.id # 0
      BY <1>3, <2>1 DEF PullBegin
    <3> QED BY <1>1, <3>1 DEF PullEntitled, AnyDigest
  <2>2. CASE pull' = IdlePull
    BY <1>2, <2>2 DEF PullEntitled
  <2>3. CASE FetchManifest /\ pull' # IdlePull
    <3>1. pull' = [pull EXCEPT !.at = "store"] /\ pull.at = "fetch" /\ mrepo' = mrepo
      BY <1>3, <2>3 DEF FetchManifest
    <3> QED BY <1>1, <3>1 DEF PullEntitled
  <2>4. CASE pull' = pull /\ mrepo'.id \in {0, mrepo.id} /\ (mrepo'.id = mrepo.id => mrepo' = mrepo)
    BY <1>1, <2>4 DEF PullEntitled
  <2>5. ASSUME NEW d \in Digests, EvictManifest(d)
        PROVE  pull' = pull /\ mrepo' = mrepo
    BY <2>5 DEF EvictManifest
  <2>6. CASE EvictRepo
    BY <1>1, <2>4, <2>6 DEF EvictRepo, NoRepo
  <2> QED BY <1>1, <2>1, <2>2, <2>3, <2>4, <2>5, <2>6 DEF StoreFetched
<1>8. MirrorTypes'
  BY <1>1, <1>4, <1>5, <1>6, <1>7 DEF MirrorTypes
<1>9. ASSUME NEW w \in Workers PROVE Entitled(w)'
  <2>1. Entitled(w) /\ work' = work /\ work[w].repo \in Nat
    BY <1>1 DEF MirrorTypes, Tasks
  <2>2. mrepo' = mrepo \/ mrepo'.id = 0
    BY <1>3 DEF EvictManifest, EvictRepo, NoRepo
  <2> QED BY <1>1, <2>1, <2>2 DEF Entitled
<1>10. \A a \in BagToSet(net') : Wellformed(a)
  BY <1>1
<1> QED BY <1>4, <1>7, <1>8, <1>9, <1>10 DEF Wellformed

(***************************************************************************)
(* The owner's invariant and the mirror's hold together: what the owner    *)
(* sends is well-formed because of where its requests are.                 *)
(***************************************************************************)
ContentInv == OwnerInv /\ MirrorInv

LEMMA ContentInvInductive ==
  /\ Init => ContentInv
  /\ ContentInv /\ [Next]_vars => ContentInv'
<1>1. ASSUME Init PROVE MirrorInv
  <2>1. /\ mrepo = [id |-> 0, owner |-> Owner] /\ mlastId = 0 /\ mrows = {} /\ mtags = {}
        /\ work = [w \in Workers |-> IdleTask] /\ pull = IdlePull
    BY <1>1 DEF Init, NoRepo
  <2>2. IsABag(net) /\ \A a \in BagToSet(net) : Wellformed(a)
    <3>1. CASE net = EmptyBag
      BY <3>1 DEF EmptyBag, SetToBag, IsABag, BagToSet
    <3>2. ASSUME NEW d \in Digests,
                 net = SetToBag({[type |-> "Create", digest |-> d, tag |-> NoTag,
                                  actor |-> Rival]})
          PROVE  IsABag(net) /\ \A a \in BagToSet(net) : Wellformed(a)
      <4> DEFINE a == [type |-> "Create", digest |-> d, tag |-> NoTag, actor |-> Rival]
      <4>1. Wellformed(a)
        BY DEF Wellformed, Activity, AnyDigest, AnyTag, Senders
      <4> HIDE DEF a
      <4>2. net = SetToBag({a})
        BY <3>2 DEF a
      <4> QED BY <4>1, <4>2 DEF SetToBag, IsABag, BagToSet
    <3> QED BY <1>1, <3>1, <3>2 DEF Init
  <2>3. IdleTask \in Tasks /\ IdleTask.at = "idle"
    BY DEF IdleTask, Tasks, TaskSteps, AnyDigest, AnyTag, Senders
  <2>4. MirrorTypes
    BY <2>1, <2>2, <2>3 DEF MirrorTypes, IdlePull, AnyDigest, Senders
  <2>5. \A w \in Workers : Entitled(w)
    BY <2>1, <2>3 DEF Entitled
  <2> QED BY <2>1, <2>2, <2>4, <2>5 DEF MirrorInv, PullEntitled, SourceIsOwner, IdlePull
<1>2. ASSUME OwnerInv, MirrorInv, [Next]_vars PROVE MirrorInv'
  <2>1. ASSUME NEW w \in Workers, InboxTask(w) PROVE MirrorInv'
    BY <1>2, <2>1, TakeStep, GetOrCreateStep, IngestStep DEF InboxTask
  <2>2. CASE UNCHANGED vars
    <3>1. UNCHANGED <<mirrorTables, work, pull, net>> /\ IsABag(net)
      BY <1>2, <2>2 DEF vars, outgoing, MirrorInv, MirrorTypes
    <3> QED BY <1>2, <3>1, MirrorFrame
  <2> QED BY <1>2, <2>1, <2>2, OwnerSends, PullStep DEF Next
<1> QED BY <1>1, <1>2, OwnerInvInductive DEF ContentInv

(***************************************************************************)
(* Whoever announces a repository first owns its copy: every manifest the  *)
(* mirror serves comes from the sender that owns the copy it belongs to.   *)
(***************************************************************************)
THEOREM CopyHasOneSource == Spec => []SourceIsOwner
<1>1. ContentInv => SourceIsOwner
  BY DEF ContentInv, MirrorInv
<1> QED BY <1>1, ContentInvInductive, PTL DEF Spec
-----------------------------------------------------------------------------
\* The copy is one of the owner's that has never lost anything by eviction.
Ours == ~evicted /\ ~excluded /\ ~(mrepo.id # 0 /\ mrepo.owner = Rival)

\* The copy has the manifest.
HasRow(d) == \E x \in mrows : x.repo = mrepo.id /\ x.digest = d

\* The copy has the tag and the manifest that it names.
HasTag(t) == \E y \in mtags : y[1] = mrepo.id /\ y[2] = t /\ HasRow(y[3])

(***************************************************************************)
(* A manifest is followed from its row at the owner to its row at the      *)
(* mirror: it is with a push that has still to announce it, in an          *)
(* announcement on the way, with an inbox task, or there.                  *)
(***************************************************************************)
Announced(d) ==
  \/ \E p \in Requests : req[p].at \in {"putTag", "publishManifest"} /\ req[p].digest = d
  \/ \E a \in BagToSet(net) : a.type = "Create" /\ a.actor = Owner /\ a.digest = d
  \/ \E w \in Workers : /\ work[w].at \in {"getOrCreate", "putManifest"}
                        /\ work[w].actor = Owner /\ work[w].digest = d
  \/ HasRow(d)

\* The same for a tag, which travels with the announcement of its manifest.
TagAnnounced(t) ==
  \/ \E p \in Requests : req[p].at = "publishManifest" /\ req[p].tag = t
  \/ \E a \in BagToSet(net) : a.type = "Create" /\ a.actor = Owner /\ a.tag = t
  \/ \E w \in Workers : /\ work[w].at \in {"getOrCreate", "putManifest"}
                        /\ work[w].actor = Owner /\ work[w].tag = t
  \/ \E w \in Workers : work[w].at = "putTag" /\ work[w].tag = t
  \/ HasTag(t)

(***************************************************************************)
(* A Delete is sent only for what a delete was asked for, or by the sweep  *)
(* of an excluded repository.                                              *)
(***************************************************************************)
ReqTraced(p) ==
  /\ req[p].at = "putTag" /\ req[p].repo # repo => req[p].digest \in deleted
  /\ req[p].at = "publishDelete" => req[p].digest \in deleted /\ req[p].digest \in Digests
  /\ req[p].at = "publishTagDelete" => tagLost
  /\ req[p].at = "withdraw" => req[p].digests \subseteq deleted /\ (req[p].tags # {} => tagLost)

Asked(d) == excluded \/ (IF d # NoDigest THEN d \in deleted ELSE tagLost)

(***************************************************************************)
(* Without evictions a task works on the copy that is there, and a tag is  *)
(* put only after its manifest.                                            *)
(***************************************************************************)
TaskTraced(w) ==
  /\ work[w].at = "deleteManifest" => Asked(work[w].digest)
  /\ work[w].at = "deleteTag" => excluded \/ tagLost
  /\ ~evicted /\ work[w].at \notin {"idle", "getOrCreate"} =>
       work[w].repo = mrepo.id /\ mrepo.id # 0
  /\ Ours /\ deleted = {} /\ work[w].at = "putTag" => HasRow(work[w].digest)

Traced ==
  /\ \A p \in Requests : ReqTraced(p)
  /\ \A a \in BagToSet(net) : a.type = "Delete" => Asked(a.digest)
  /\ \A w \in Workers : TaskTraced(w)

AllAnnounced ==
  /\ Ours => \A d \in Stored \ (unsent \union deleted) : Announced(d)
  /\ Ours /\ ~tagLost /\ deleted = {} => \A x \in tags : TagAnnounced(x[2])

CompleteInv == ContentInv /\ Traced /\ AllAnnounced
-----------------------------------------------------------------------------
\* The history only grows.
Grows ==
  /\ deleted \subseteq deleted' /\ unsent \subseteq unsent'
  /\ (tagLost => tagLost') /\ (excluded => excluded')

(***************************************************************************)
(* A step of process p of the owner.  Nothing is announced less than       *)
(* before, apart from what p carries; and what it stores, or tags, it goes *)
(* on to announce.                                                         *)
(***************************************************************************)
LEMMA OwnerAnnounces ==
  ASSUME CompleteInv, NEW p \in Procs, Moves(p), p \in Requests => ReqTraced(p)',
         Grows, UNCHANGED <<mirrorTables, work, evicted>>,
         \A q \in Requests \ {p} :
           req[q].at = "putTag" /\ req[q].repo # repo' => req[q].digest \in deleted',
         BagToSet(net) \subseteq BagToSet(net'),
         \A a \in BagToSet(net') \ BagToSet(net) : a.type = "Delete" => Asked(a.digest)',
         ~excluded' => \A d \in Stored' \ (unsent' \union deleted') : d \in Stored \/ Announced(d)',
         ~excluded' /\ p \in Requests /\ req[p].at \in {"putTag", "publishManifest"} =>
           \A d \in {req[p].digest} : Announced(d)' \/ d \in unsent' \union deleted',
         ~excluded' /\ ~tagLost' /\ deleted' = {} =>
           \A x \in tags' : TagAnnounced(x[2])' \/ \E y \in tags : y[2] = x[2],
         ~excluded' /\ ~tagLost' /\ p \in Requests /\ req[p].at = "publishManifest" =>
           \A tg \in {req[p].tag} : TagAnnounced(tg)' \/ tg = NoTag
  PROVE  Traced' /\ AllAnnounced'
<1> USE DEF CompleteInv, mirrorTables
<1>1. Ours' => Ours /\ ~excluded'
  BY DEF Ours, Grows
<1>2. \A d : HasRow(d)' <=> HasRow(d)
  BY DEF HasRow
<1>3. \A tg : HasTag(tg)' <=> HasTag(tg)
  BY <1>2 DEF HasTag
<1>4. \A q \in Requests : q # p => req'[q] = req[q]
  BY DEF Moves, Procs
<1>5. Traced'
  <2>1. ASSUME NEW q \in Requests, q # p PROVE ReqTraced(q)'
    <3>1. req'[q] = req[q] /\ ReqTraced(q)
      BY <1>4, <2>1 DEF Traced
    <3> QED BY <2>1, <3>1 DEF ReqTraced, Grows
  <2>2. ASSUME NEW a \in BagToSet(net'), a.type = "Delete" PROVE Asked(a.digest)'
    BY <2>2 DEF Traced, Asked, Grows
  <2>3. ASSUME NEW w \in Workers PROVE TaskTraced(w)'
    <3>1. TaskTraced(w) /\ work' = work /\ mrepo' = mrepo /\ evicted' = evicted
      BY DEF Traced
    <3>2. deleted' = {} => deleted = {}
      BY DEF Grows
    <3>3. work[w].at = "deleteManifest" => Asked(work[w].digest)'
      BY <3>1 DEF TaskTraced, Asked, Grows
    <3>4. Ours' /\ deleted' = {} /\ work[w].at = "putTag" => HasRow(work[w].digest)'
      BY <1>1, <1>2, <3>1, <3>2 DEF TaskTraced
    <3> QED BY <3>1, <3>3, <3>4 DEF TaskTraced, Grows
  <2> QED BY <2>1, <2>2, <2>3 DEF Traced
<1>6. ASSUME NEW d, Announced(d) PROVE Announced(d)' \/ (/\ p \in Requests
                                                       /\ req[p].at \in {"putTag", "publishManifest"}
                                                       /\ req[p].digest = d)
  <2>1. CASE \E q \in Requests : req[q].at \in {"putTag", "publishManifest"} /\ req[q].digest = d
    BY <1>4, <2>1 DEF Announced
  <2>2. CASE ~\E q \in Requests : req[q].at \in {"putTag", "publishManifest"} /\ req[q].digest = d
    BY <1>2, <1>6, <2>2 DEF Announced
  <2> QED BY <2>1, <2>2
<1>7. ASSUME NEW tg, TagAnnounced(tg)
      PROVE  TagAnnounced(tg)' \/ (/\ p \in Requests
                                   /\ req[p].at = "publishManifest" /\ req[p].tag = tg)
  <2>1. CASE \E q \in Requests : req[q].at = "publishManifest" /\ req[q].tag = tg
    BY <1>4, <2>1 DEF TagAnnounced
  <2>2. CASE ~\E q \in Requests : req[q].at = "publishManifest" /\ req[q].tag = tg
    BY <1>3, <1>7, <2>2 DEF TagAnnounced
  <2> QED BY <2>1, <2>2
<1>8. ASSUME Ours', NEW d \in Stored' \ (unsent' \union deleted') PROVE Announced(d)'
  <2>1. CASE d \in Stored
    <3>1. Announced(d)
      BY <1>1, <1>8, <2>1 DEF AllAnnounced, Grows
    <3> QED BY <1>1, <1>6, <1>8, <3>1
  <2> QED BY <1>1, <1>8, <2>1
<1>9. ASSUME Ours', ~tagLost', deleted' = {}, NEW x \in tags' PROVE TagAnnounced(x[2])'
  <2>1. ASSUME NEW y \in tags PROVE TagAnnounced(y[2])'
    <3>1. TagAnnounced(y[2])
      BY <1>1, <1>9 DEF AllAnnounced, Grows
    <3>2. y[2] # NoTag
      BY ContentAssumption DEF ContentInv, OwnerInv, OwnerTypes
    <3> DEFINE tg == y[2]
    <3> HIDE DEF tg
    <3>3. TagAnnounced(tg) /\ tg # NoTag
      BY <3>1, <3>2 DEF tg
    <3>4. TagAnnounced(tg)'
      BY <1>1, <1>7, <1>9, <3>3
    <3> QED BY <3>4 DEF tg
  <2>2. ASSUME NEW y \in tags, y[2] = x[2] PROVE TagAnnounced(x[2])'
    BY <2>1, <2>2 DEF TagAnnounced, HasTag
  <2> QED BY <1>1, <1>9, <2>2
<1> QED BY <1>5, <1>8, <1>9 DEF AllAnnounced

(***************************************************************************)
(* A step of the owner that stores and announces nothing.                  *)
(***************************************************************************)
LEMMA OwnerSilent ==
  ASSUME CompleteInv, NEW p \in Procs, Moves(p), p \in Requests => ReqTraced(p)',
         Grows, UNCHANGED <<mirrorTables, work, evicted, repo>>,
         BagToSet(net) \subseteq BagToSet(net'),
         \A a \in BagToSet(net') \ BagToSet(net) : a.type = "Delete" => Asked(a.digest)',
         rows' \subseteq rows, tags' \subseteq tags,
         req[p].at \notin {"putTag", "publishManifest"}
  PROVE  Traced' /\ AllAnnounced'
<1>1. Stored' \subseteq Stored
  BY DEF Stored
<1>2. \A q \in Requests \ {p} :
        req[q].at = "putTag" /\ req[q].repo # repo' => req[q].digest \in deleted'
  BY DEF CompleteInv, Traced, ReqTraced, Grows
<1> QED BY <1>1, <1>2, OwnerAnnounces

(***************************************************************************)
(* A request that is done, or only goes on to another step.                *)
(***************************************************************************)
LEMMA IdleTraced ==
  ASSUME NEW p, req'[p].at \notin {"putTag", "publishDelete", "publishTagDelete", "withdraw"}
  PROVE  ReqTraced(p)'
BY DEF ReqTraced

(***************************************************************************)
(* What a publication of a Delete puts on the way was asked for.           *)
(***************************************************************************)
LEMMA PublishAsked ==
  ASSUME CompleteInv, NEW type \in {"Create", "Update", "Delete"}, NEW d, NEW tg,
         Publish(type, d, tg), UNCHANGED <<deleted, excluded>>,
         type = "Delete" => Asked(d)
  PROVE  /\ BagToSet(net) \subseteq BagToSet(net')
         /\ \A a \in BagToSet(net') \ BagToSet(net) : a.type = "Delete" => Asked(a.digest)'
         /\ Grows
<1> DEFINE a == [type |-> type, digest |-> d, tag |-> tg, actor |-> Owner]
<1>1. /\ BagToSet(net) \subseteq BagToSet(net')
      /\ BagToSet(net') \subseteq BagToSet(net) \union {a}
  BY PublishNet DEF CompleteInv, ContentInv, MirrorInv, MirrorTypes
<1>2. Grows
  <2>1. unsent \subseteq unsent' /\ (tagLost => tagLost')
    BY DEF Publish, Enqueued, Lost, outgoing
  <2> QED BY <2>1 DEF Grows
<1>3. a.type = type /\ a.digest = d
  OBVIOUS
<1>4. type = "Delete" => Asked(d)'
  BY <1>2 DEF Asked, Grows
<1> HIDE DEF a
<1> QED BY <1>1, <1>2, <1>3, <1>4

(***************************************************************************)
(* The steps of a delete, and the Update at the end of a push.             *)
(***************************************************************************)
LEMMA DeletesTraced ==
  ASSUME CompleteInv, NEW p \in Requests,
         \/ \E d \in Digests : DeleteManifestBegin(p, d)
         \/ \E tg \in Tags : DeleteTag(p, tg)
         \/ DeleteRepoBegin(p) \/ RecordDeletedManifest(p) \/ DeleteManifest(p)
         \/ PublishManifestDelete(p) \/ PublishTagDelete(p) \/ PublishTag(p)
  PROVE  Traced' /\ AllAnnounced'
<1>0. /\ p \in Procs /\ OwnerTypes /\ Place(p) /\ ReqTraced(p) /\ repo \in Nat
      /\ req[p] \in Reqs
  BY DEF CompleteInv, ContentInv, OwnerInv, Procs, Places, Traced, OwnerTypes
<1>1. ASSUME NEW d \in Digests, DeleteManifestBegin(p, d) PROVE Traced' /\ AllAnnounced'
  <2> DEFINE r == [IdleReq EXCEPT !.at = "recordTombstone", !.digest = d, !.repo = repo]
  <2>1. r \in Reqs /\ r.at = "recordTombstone"
    BY <1>0 DEF IdleReq, Reqs, ReqSteps, AnyDigest, AnyTag
  <2>2. /\ req' = [req EXCEPT ![p] = r] /\ deleted \subseteq deleted'
        /\ UNCHANGED <<ownerTables, excluded, mirrorTables, work, outgoing, evicted>>
        /\ req[p].at = "idle"
    BY <1>1 DEF DeleteManifestBegin
  <2> HIDE DEF r
  <2>3. Moves(p) /\ ReqTraced(p)'
    BY <1>0, <2>1, <2>2, SetReq, IdleTraced
  <2> QED BY <1>0, <2>2, <2>3, OwnerSilent DEF Grows, ownerTables, outgoing
<1>2. ASSUME NEW tg \in Tags, DeleteTag(p, tg) PROVE Traced' /\ AllAnnounced'
  <2> DEFINE r == [IdleReq EXCEPT !.at = "publishTagDelete", !.tag = tg]
  <2>1. r \in Reqs /\ r.at = "publishTagDelete"
    BY DEF IdleReq, Reqs, ReqSteps, AnyDigest, AnyTag
  <2>2. /\ req' = [req EXCEPT ![p] = r] /\ tagLost' /\ tags' \subseteq tags
        /\ UNCHANGED <<repo, rows, excluded, mirrorTables, work, net, unsent, deleted, evicted>>
        /\ req[p].at = "idle"
    BY <1>2 DEF DeleteTag
  <2> HIDE DEF r
  <2>3. Moves(p) /\ req'[p].at = "publishTagDelete"
    BY <1>0, <2>1, <2>2, SetReq
  <2>4. ReqTraced(p)'
    BY <2>2, <2>3 DEF ReqTraced
  <2> QED BY <1>0, <2>2, <2>3, <2>4, OwnerSilent DEF Grows
<1>3. ASSUME DeleteRepoBegin(p) PROVE Traced' /\ AllAnnounced'
  <2> DEFINE r == [IdleReq EXCEPT !.at = "deleteRepo", !.repo = repo]
  <2>1. r \in Reqs /\ r.at = "deleteRepo"
    BY <1>0 DEF IdleReq, Reqs, ReqSteps, AnyDigest, AnyTag
  <2>2. /\ req' = [req EXCEPT ![p] = r]
        /\ UNCHANGED <<ownerTables, excluded, mirrorTables, work, outgoing, evicted, deleted>>
        /\ req[p].at = "idle"
    BY <1>3 DEF DeleteRepoBegin
  <2> HIDE DEF r
  <2>3. Moves(p) /\ ReqTraced(p)'
    BY <1>0, <2>1, <2>2, SetReq, IdleTraced
  <2> QED BY <1>0, <2>2, <2>3, OwnerSilent DEF Grows, ownerTables, outgoing
<1>4. ASSUME RecordDeletedManifest(p) PROVE Traced' /\ AllAnnounced'
  <2>1. /\ Step(p, "deleteManifest") /\ req[p].at = "recordTombstone"
        /\ UNCHANGED <<repo, rows, tags, excluded, mirrorTables, work, outgoing, evicted, deleted>>
    BY <1>4 DEF RecordDeletedManifest
  <2>2. Moves(p) /\ ReqTraced(p)'
    BY <1>0, <2>1, StepReq, IdleTraced DEF ReqSteps
  <2> QED BY <1>0, <2>1, <2>2, OwnerSilent DEF Grows, outgoing
<1>5. ASSUME DeleteManifest(p) PROVE Traced' /\ AllAnnounced'
  <2>1. /\ Step(p, "publishDelete") /\ req[p].at = "deleteManifest"
        /\ rows' \subseteq rows /\ tags' \subseteq tags
        /\ UNCHANGED <<repo, excluded, mirrorTables, work, outgoing, evicted, deleted>>
    BY <1>5 DEF DeleteManifest, TagsKept
  <2>2. Moves(p) /\ req'[p].at = "publishDelete" /\ req'[p].digest = req[p].digest
    BY <1>0, <2>1, StepReq DEF ReqSteps
  <2>3. ReqTraced(p)'
    BY <1>0, <2>1, <2>2 DEF ReqTraced, Place
  <2> QED BY <1>0, <2>1, <2>2, <2>3, OwnerSilent DEF Grows, outgoing
<1>6. ASSUME NEW type \in {"Update", "Delete"}, NEW d, NEW tg, Publish(type, d, tg), Done(p),
             type = "Delete" => Asked(d),
             UNCHANGED <<ownerTables, excluded, mirrorTables, work, deleted, evicted>>,
             req[p].at \notin {"putTag", "publishManifest"}
      PROVE  Traced' /\ AllAnnounced'
  <2>1. Moves(p) /\ ReqTraced(p)'
    BY <1>0, <1>6, DoneReq, IdleTraced
  <2>2. /\ BagToSet(net) \subseteq BagToSet(net') /\ Grows
        /\ \A a \in BagToSet(net') \ BagToSet(net) : a.type = "Delete" => Asked(a.digest)'
    BY <1>6, PublishAsked
  <2> QED BY <1>0, <1>6, <2>1, <2>2, OwnerSilent DEF ownerTables
<1>7. ASSUME PublishManifestDelete(p) PROVE Traced' /\ AllAnnounced'
  <2>1. Asked(req[p].digest)
    BY <1>0, <1>7, ContentAssumption DEF PublishManifestDelete, ReqTraced, Asked
  <2> QED BY <1>6, <1>7, <2>1 DEF PublishManifestDelete
<1>8. ASSUME PublishTagDelete(p) PROVE Traced' /\ AllAnnounced'
  <2>1. Asked(NoDigest)
    BY <1>0, <1>8 DEF PublishTagDelete, ReqTraced, Asked
  <2> QED BY <1>6, <1>8, <2>1 DEF PublishTagDelete
<1>9. ASSUME PublishTag(p) PROVE Traced' /\ AllAnnounced'
  BY <1>6, <1>9 DEF PublishTag
<1> QED BY <1>1, <1>2, <1>3, <1>4, <1>5, <1>7, <1>8, <1>9

(***************************************************************************)
(* The withdrawal, of a deleted repository and of an excluded one.         *)
(***************************************************************************)
LEMMA WithdrawTraced ==
  ASSUME CompleteInv,
         (\E p \in Procs : WithdrawRepo(p) \/ WithdrawFails(p)) \/ Sweep
  PROVE  Traced' /\ AllAnnounced'
<1>1. ASSUME NEW p \in Procs, WithdrawRepo(p) PROVE Traced' /\ AllAnnounced'
  <2>0. /\ OwnerTypes /\ req[p] \in Reqs /\ req[p].at = "withdraw"
        /\ UNCHANGED <<ownerTables, excluded, mirrorTables, work, deleted, evicted>>
        /\ p \in Requests => ReqTraced(p)
        /\ p \notin Requests => excluded
    BY <1>1 DEF WithdrawRepo, CompleteInv, ContentInv, OwnerInv, OwnerTypes, Traced, Procs,
                Retracting
  <2>1. ASSUME NEW r \in Reqs, req' = [req EXCEPT ![p] = r], r.at = "withdraw",
               r.tags \subseteq req[p].tags, r.digests \subseteq req[p].digests,
               NEW d, NEW tg, Publish("Delete", d, tg), Asked(d)
        PROVE  Traced' /\ AllAnnounced'
    <3>1. Moves(p) /\ req'[p] = r
      BY <2>0, <2>1, SetReq
    <3>2. /\ BagToSet(net) \subseteq BagToSet(net') /\ Grows
          /\ \A a \in BagToSet(net') \ BagToSet(net) : a.type = "Delete" => Asked(a.digest)'
      BY <2>0, <2>1, PublishAsked
    <3>3. p \in Requests => ReqTraced(p)'
      BY <2>0, <2>1, <3>1, <3>2 DEF ReqTraced, Grows
    <3> QED BY <2>0, <3>1, <3>2, <3>3, OwnerSilent DEF ownerTables
  <2>2. ASSUME NEW tg \in req[p].tags, Publish("Delete", NoDigest, tg),
               req' = [req EXCEPT ![p].tags = @ \ {tg}]
        PROVE  Traced' /\ AllAnnounced'
    <3> DEFINE r == [req[p] EXCEPT !.tags = @ \ {tg}]
    <3>1. /\ r \in Reqs /\ r.at = "withdraw" /\ r.tags \subseteq req[p].tags
          /\ r.digests = req[p].digests
      BY <2>0 DEF Reqs
    <3>2. Asked(NoDigest)
      BY <2>0 DEF Asked, ReqTraced
    <3>3. req' = [req EXCEPT ![p] = r]
      BY <2>2
    <3> HIDE DEF r
    <3> QED BY <2>1, <2>2, <3>1, <3>2, <3>3
  <2>3. ASSUME NEW d \in req[p].digests, Publish("Delete", d, NoTag),
               req' = [req EXCEPT ![p].digests = @ \ {d}]
        PROVE  Traced' /\ AllAnnounced'
    <3> DEFINE r == [req[p] EXCEPT !.digests = @ \ {d}]
    <3>1. /\ r \in Reqs /\ r.at = "withdraw" /\ r.tags = req[p].tags
          /\ r.digests \subseteq req[p].digests
      BY <2>0 DEF Reqs
    <3>2. d \in Digests
      BY <2>0, <2>3 DEF Reqs
    <3>3. Asked(d)
      BY <2>0, <3>2, ContentAssumption DEF Asked, ReqTraced
    <3>4. req' = [req EXCEPT ![p] = r]
      BY <2>3
    <3> HIDE DEF r
    <3> QED BY <2>1, <2>3, <3>1, <3>3, <3>4
  <2>4. ASSUME IF p = "sweep" THEN Step(p, "mark") ELSE Done(p), UNCHANGED <<outgoing, left>>
        PROVE  Traced' /\ AllAnnounced'
    <3>1. Moves(p) /\ ReqTraced(p)'
      BY <2>0, <2>4, StepReq, DoneReq, IdleTraced DEF ReqSteps
    <3> QED BY <2>0, <2>4, <3>1, OwnerSilent DEF Grows, ownerTables, outgoing
  <2> QED BY <1>1, <2>2, <2>3, <2>4 DEF WithdrawRepo
<1>2. ASSUME NEW p \in Procs, WithdrawFails(p) PROVE Traced' /\ AllAnnounced'
  <2>1. /\ OwnerTypes /\ Done(p) /\ req[p].at = "withdraw"
        /\ UNCHANGED <<ownerTables, excluded, mirrorTables, work, net, deleted, evicted>>
    BY <1>2 DEF WithdrawFails, CompleteInv, ContentInv, OwnerInv
  <2>2. Grows
    BY <1>2 DEF WithdrawFails, Grows
  <2>3. Moves(p) /\ ReqTraced(p)'
    BY <2>1, DoneReq, IdleTraced
  <2> QED BY <2>1, <2>2, <2>3, OwnerSilent DEF ownerTables
<1>3. ASSUME Sweep PROVE Traced' /\ AllAnnounced'
  <2> DEFINE s == "sweep"
  <2>1. s \in Procs /\ s \notin Requests /\ OwnerTypes /\ req[s] \in Reqs
    BY ContentAssumption DEF Procs, CompleteInv, ContentInv, OwnerInv, OwnerTypes
  <2>2. /\ UNCHANGED <<repo, rows, tags, excluded, mirrorTables, work, outgoing, deleted, evicted>>
        /\ req[s].at \in {"list", "listVersions", "mark"}
    BY <1>3 DEF Sweep, SweepList, SweepListVersions, SweepMark, ownerTables
  <2>3. Moves(s)
    <3>1. \A q \in Procs : q # s => req'[q] = req[q]
      BY <1>3, <2>1 DEF Sweep, SweepList, SweepListVersions, SweepMark, Done, OwnerTypes
    <3>2. req' \in [Procs -> Reqs]
      BY <1>3, OwnerInvInductive DEF CompleteInv, ContentInv, OwnerInv, OwnerTypes, Next
    <3> QED BY <3>1, <3>2 DEF Moves
  <2> HIDE DEF s
  <2> QED BY <2>1, <2>2, <2>3, OwnerSilent DEF Grows, outgoing
<1> QED BY <1>1, <1>2, <1>3

(***************************************************************************)
(* A push, from its begin to the announcement of its manifest.             *)
(***************************************************************************)
LEMMA PushTraced ==
  ASSUME CompleteInv, NEW p \in Requests,
         \/ \E d \in Digests, tg \in AnyTag : PushBegin(p, d, tg)
         \/ PutManifestWithLayers(p) \/ PutTag(p) \/ PublishManifest(p)
  PROVE  Traced' /\ AllAnnounced'
<1>0. /\ p \in Procs /\ OwnerTypes /\ Place(p) /\ ReqTraced(p) /\ repo \in Nat
      /\ req[p] \in Reqs /\ Current
      /\ \A q \in Requests : ReqTraced(q) /\ Place(q)
  BY DEF CompleteInv, ContentInv, OwnerInv, Procs, Places, Traced, OwnerTypes
<1>1. ASSUME NEW d \in Digests, NEW tg \in AnyTag, PushBegin(p, d, tg)
      PROVE  Traced' /\ AllAnnounced'
  <2>1. /\ (repo # 0 => repo' = repo) /\ repo' \in Nat
        /\ UNCHANGED <<rows, tags, excluded, mirrorTables, work, outgoing, deleted, evicted>>
        /\ req[p].at = "idle"
    <3>1. /\ IF repo # 0 THEN UNCHANGED <<repo, lastId, withdrawn>>
             ELSE repo' = lastId + 1 /\ lastId' = lastId + 1 /\ withdrawn' = FALSE
          /\ req[p].at = "idle"
          /\ UNCHANGED <<rows, tags, excluded, mirrorTables, work, outgoing, deleted, evicted>>
      BY <1>1 DEF PushBegin
    <3>2. lastId \in Nat
      BY <1>0 DEF OwnerTypes
    <3> QED BY <1>0, <3>1, <3>2
  <2> DEFINE r == [IdleReq EXCEPT !.at = "putManifest", !.digest = d, !.tag = tg, !.repo = repo']
  <2>2. r \in Reqs /\ r.at = "putManifest"
    BY <2>1 DEF IdleReq, Reqs, ReqSteps, AnyDigest
  <2>3. req' = [req EXCEPT ![p] = r]
    BY <1>1 DEF PushBegin
  <2> HIDE DEF r
  <2>4. Moves(p) /\ ReqTraced(p)'
    BY <1>0, <2>2, <2>3, SetReq, IdleTraced
  <2>5. \A q \in Requests \ {p} :
          req[q].at = "putTag" /\ req[q].repo # repo' => req[q].digest \in deleted'
    BY <1>0, <2>1 DEF ReqTraced, Place
  <2>6. Stored' \subseteq Stored
    BY <1>0, <2>1 DEF Stored, Current
  <2> QED BY <1>0, <2>1, <2>4, <2>5, <2>6, OwnerAnnounces DEF Grows, outgoing
<1>2. ASSUME repo' = repo, deleted' = deleted
      PROVE  \A q \in Requests \ {p} :
               req[q].at = "putTag" /\ req[q].repo # repo' => req[q].digest \in deleted'
  BY <1>0, <1>2 DEF ReqTraced
<1>3. ASSUME PutManifestWithLayers(p) PROVE Traced' /\ AllAnnounced'
  <2>1. /\ UNCHANGED <<repo, tags, excluded, mirrorTables, work, outgoing, deleted, evicted>>
        /\ req[p].at = "putManifest"
    BY <1>3 DEF PutManifestWithLayers
  <2>2. CASE req[p].repo # repo
    <3>1. Done(p) /\ rows' = rows
      BY <1>3, <2>2 DEF PutManifestWithLayers
    <3>2. Moves(p) /\ ReqTraced(p)'
      BY <1>0, <3>1, DoneReq, IdleTraced
    <3> QED BY <1>0, <2>1, <3>1, <3>2, OwnerSilent DEF Grows, outgoing
  <2>3. CASE req[p].repo = repo
    <3>1. /\ rows' = rows \union {<<repo, req[p].digest>>}
          /\ Step(p, IF req[p].tag # NoTag THEN "putTag" ELSE "publishManifest")
      BY <1>3, <2>3 DEF PutManifestWithLayers
    <3>2. /\ Moves(p) /\ req'[p].at \in {"putTag", "publishManifest"}
          /\ req'[p].digest = req[p].digest /\ req'[p].repo = req[p].repo
      BY <1>0, <3>1, StepReq DEF ReqSteps
    <3>3. ReqTraced(p)'
      BY <2>1, <2>3, <3>2 DEF ReqTraced
    <3>4. \A d \in Stored' : d \in Stored \/ Announced(d)'
      <4>1. \A d \in Stored' : d \in Stored \/ d = req[p].digest
        BY <2>1, <3>1 DEF Stored
      <4>2. \A d : d = req[p].digest => Announced(d)'
        BY <3>2 DEF Announced
      <4> QED BY <4>1, <4>2
    <3> QED BY <1>0, <1>2, <2>1, <3>2, <3>3, <3>4, OwnerAnnounces DEF Grows, outgoing
  <2> QED BY <2>2, <2>3
<1>4. ASSUME PutTag(p) PROVE Traced' /\ AllAnnounced'
  <2>1. /\ UNCHANGED <<repo, rows, excluded, mirrorTables, work, outgoing, deleted, evicted>>
        /\ req[p].at = "putTag" /\ Stored' = Stored
    BY <1>4 DEF PutTag, Stored
  <2>2. CASE req[p].repo # repo
    <3>1. Done(p) /\ tags' = tags /\ req[p].digest \in deleted
      BY <1>0, <1>4, <2>1, <2>2 DEF PutTag, ReqTraced
    <3>2. Moves(p) /\ ReqTraced(p)'
      BY <1>0, <3>1, DoneReq, IdleTraced
    <3> QED BY <1>0, <1>2, <2>1, <3>1, <3>2, OwnerAnnounces DEF Grows, outgoing
  <2>3. CASE req[p].repo = repo
    <3>1. /\ Step(p, "publishManifest")
          /\ tags' = TagPut(tags, repo, req[p].tag, req[p].digest)
      BY <1>4, <2>3 DEF PutTag
    <3>2. /\ Moves(p) /\ req'[p].at = "publishManifest"
          /\ req'[p].digest = req[p].digest /\ req'[p].tag = req[p].tag
      BY <1>0, <3>1, StepReq DEF ReqSteps
    <3>3. ReqTraced(p)'
      BY <3>2, IdleTraced
    <3>4. \A d \in {req[p].digest} : Announced(d)'
      BY <3>2 DEF Announced
    <3>5. \A x \in tags' : TagAnnounced(x[2])' \/ \E y \in tags : y[2] = x[2]
      <4>1. \A x \in tags' : x \in tags \/ x[2] = req[p].tag
        BY <3>1 DEF TagPut
      <4>2. ASSUME NEW x \in tags', x[2] = req[p].tag PROVE TagAnnounced(x[2])'
        BY <3>2, <4>2 DEF TagAnnounced
      <4> QED BY <4>1, <4>2
    <3> QED BY <1>0, <1>2, <2>1, <3>2, <3>3, <3>4, <3>5, OwnerAnnounces DEF Grows, outgoing
  <2> QED BY <2>2, <2>3
<1>5. ASSUME PublishManifest(p) PROVE Traced' /\ AllAnnounced'
  <2>1. /\ UNCHANGED <<ownerTables, excluded, mirrorTables, work, deleted, evicted>>
        /\ req[p].at = "publishManifest" /\ Publish("Create", req[p].digest, req[p].tag)
        /\ Stored' = Stored /\ repo' = repo /\ tags' = tags
    BY <1>5 DEF PublishManifest, Stored, ownerTables
  <2>2. /\ BagToSet(net) \subseteq BagToSet(net') /\ Grows
        /\ \A a \in BagToSet(net') \ BagToSet(net) : a.type = "Delete" => Asked(a.digest)'
    BY <2>1, PublishAsked
  <2>3. Moves(p) /\ ReqTraced(p)'
    BY <1>0, <1>5, StepReq, DoneReq, IdleTraced DEF PublishManifest, ReqSteps
  <2> DEFINE a == [type |-> "Create", digest |-> req[p].digest, tag |-> req[p].tag,
                   actor |-> Owner]
  <2>4. \/ a \in BagToSet(net') \/ excluded
        \/ /\ req[p].digest # NoDigest => req[p].digest \in unsent'
           /\ req[p].tag # NoTag => tagLost'
    BY <2>1, PublishNet DEF CompleteInv, ContentInv, MirrorInv, MirrorTypes
  <2>5. req[p].digest # NoDigest
    BY <1>0, <2>1, ContentAssumption DEF Place, AfterPut
  <2>6. a \in BagToSet(net') => \A d \in {req[p].digest} : Announced(d)'
    BY DEF Announced
  <2>7. a \in BagToSet(net') => \A tg \in {req[p].tag} : TagAnnounced(tg)'
    BY DEF TagAnnounced
  <2> HIDE DEF a
  <2>8. ~excluded' => \A d \in {req[p].digest} : Announced(d)' \/ d \in unsent' \union deleted'
    BY <2>1, <2>4, <2>5, <2>6
  <2>9. ~excluded' /\ ~tagLost' => \A tg \in {req[p].tag} : TagAnnounced(tg)' \/ tg = NoTag
    BY <2>1, <2>4, <2>7
  <2> QED BY <1>0, <1>2, <2>1, <2>2, <2>3, <2>8, <2>9, OwnerAnnounces
<1> QED BY <1>1, <1>3, <1>4, <1>5

(***************************************************************************)
(* A repository delete asks for the delete of all it has, and of what a    *)
(* push under way has stored in it.                                        *)
(***************************************************************************)
LEMMA DeleteRepoTraced ==
  ASSUME CompleteInv, NEW p \in Requests, DeleteOwnedRepository(p)
  PROVE  Traced' /\ AllAnnounced'
<1>0. /\ p \in Procs /\ OwnerTypes /\ repo \in Nat /\ req[p] \in Reqs /\ Current /\ Known
      /\ \A q \in Requests : ReqTraced(q) /\ Place(q)
  BY DEF CompleteInv, ContentInv, OwnerInv, Procs, Places, Traced, OwnerTypes
<1>1. /\ UNCHANGED <<excluded, mirrorTables, work, net, unsent, evicted>>
      /\ req[p].at = "deleteRepo"
  BY DEF DeleteOwnedRepository
<1>2. CASE Done(p) /\ UNCHANGED <<repo, rows, tags, tomb, deleted, tagLost>>
  <2>1. Moves(p) /\ ReqTraced(p)'
    BY <1>0, <1>2, DoneReq, IdleTraced
  <2> QED BY <1>0, <1>1, <1>2, <2>1, OwnerSilent DEF Grows
<1>3. ASSUME ~(Done(p) /\ UNCHANGED <<repo, rows, tags, tomb, deleted, tagLost>>)
      PROVE  Traced' /\ AllAnnounced'
  <2> DEFINE r == [req[p] EXCEPT !.at = "withdraw", !.tags = {x[2] : x \in tags},
                                 !.digests = Stored]
  <2>1. /\ req' = [req EXCEPT ![p] = r] /\ repo' = 0
        /\ rows' = {x \in rows : x[1] # repo} /\ tags' = {x \in tags : x[1] # repo}
        /\ deleted' = deleted \union Stored /\ tagLost' = (tagLost \/ tags # {})
    BY <1>3 DEF DeleteOwnedRepository
  <2>2. {x[2] : x \in tags} \subseteq Tags /\ Stored \subseteq Digests
    BY <1>0 DEF OwnerTypes, Stored
  <2>3. /\ r \in Reqs /\ r.at = "withdraw" /\ r.digests = Stored
        /\ r.tags # {} => tags # {}
    BY <1>0, <2>2 DEF Reqs, ReqSteps
  <2> HIDE DEF r
  <2>4. Moves(p) /\ req'[p] = r
    BY <1>0, <2>1, <2>3, SetReq
  <2>5. ReqTraced(p)'
    BY <2>1, <2>3, <2>4 DEF ReqTraced
  <2>6. \A q \in Requests \ {p} :
          req[q].at = "putTag" /\ req[q].repo # repo' => req[q].digest \in deleted'
    BY <1>0, <2>1 DEF Place, Known, AfterPut
  <2>7. Stored' = {} /\ tags' = {}
    BY <1>0, <2>1 DEF Stored, Current, NoOrphans
  <2>8. Grows
    BY <1>1, <2>1 DEF Grows
  <2> QED BY <1>0, <1>1, <2>4, <2>5, <2>6, <2>7, <2>8, OwnerAnnounces
<1> QED BY <1>2, <1>3

(***************************************************************************)
(* A restart loses what the requests have still to announce, and that is   *)
(* what counts as lost.                                                    *)
(***************************************************************************)
LEMMA RestartTraced ==
  ASSUME CompleteInv, Restart
  PROVE  Traced' /\ AllAnnounced'
<1> USE DEF CompleteInv
<1>1. /\ UNCHANGED <<repo, rows, tags, mirrorTables, work, net, deleted, evicted>>
      /\ Stored' = Stored
  BY DEF Restart, ownerTables, Stored
<1>2. Grows
  <2>1. unsent \subseteq unsent'
    BY DEF Restart
  <2>2. tagLost => tagLost'
    BY DEF Restart
  <2>3. PICK x \in {excluded, TRUE} : excluded' = x
    BY DEF Restart
  <2>4. excluded => excluded'
    BY <2>3
  <2> QED BY <1>1, <2>1, <2>2, <2>4 DEF Grows
<1>3. \A p \in Requests : req'[p].at = "idle"
  BY ContentAssumption DEF Restart, IdleReq, Procs
<1>4. ASSUME NEW p \in Requests, req[p].at \in {"putTag", "publishManifest"}
      PROVE  req[p].digest \in unsent' /\ (req[p].tag \in Tags => tagLost')
  <2>1. req[p].digest # NoDigest
    BY <1>4, ContentAssumption DEF ContentInv, OwnerInv, Places, Place, AfterPut, Procs
  <2> QED BY <1>4, <2>1, ContentAssumption DEF Restart
<1>5. /\ \A d : HasRow(d)' <=> HasRow(d)
      /\ \A tg : HasTag(tg)' <=> HasTag(tg)
  BY <1>1 DEF HasTag, HasRow, mirrorTables
<1>6. Ours' => Ours
  BY <1>1, <1>2 DEF Ours, Grows, mirrorTables
<1>7. Traced'
  <2>1. \A p \in Requests : ReqTraced(p)'
    BY <1>3, IdleTraced
  <2>2. ASSUME NEW a \in BagToSet(net'), a.type = "Delete" PROVE Asked(a.digest)'
    BY <1>1, <1>2, <2>2 DEF Traced, Asked, Grows
  <2>3. ASSUME NEW w \in Workers PROVE TaskTraced(w)'
    <3>1. TaskTraced(w) /\ work' = work /\ mrepo' = mrepo /\ UNCHANGED <<evicted, deleted>>
      BY <1>1 DEF Traced, mirrorTables
    <3>2. work[w].at = "deleteManifest" => Asked(work[w].digest)'
      BY <1>2, <3>1 DEF TaskTraced, Asked, Grows
    <3>3. Ours' /\ deleted' = {} /\ work[w].at = "putTag" => HasRow(work[w].digest)'
      BY <1>5, <1>6, <3>1 DEF TaskTraced
    <3> QED BY <1>2, <3>1, <3>2, <3>3 DEF TaskTraced, Grows
  <2> QED BY <2>1, <2>2, <2>3 DEF Traced
<1>8. ASSUME Ours', NEW d \in Stored' \ (unsent' \union deleted') PROVE Announced(d)'
  <2>1. Announced(d)
    BY <1>1, <1>2, <1>6, <1>8 DEF AllAnnounced, Grows
  <2> QED BY <1>1, <1>4, <1>5, <1>8, <2>1 DEF Announced
<1>9. ASSUME Ours', ~tagLost', deleted' = {}, NEW x \in tags' PROVE TagAnnounced(x[2])'
  <2>1. TagAnnounced(x[2]) /\ x[2] \in Tags
    BY <1>1, <1>2, <1>6, <1>9 DEF AllAnnounced, Grows, ContentInv, OwnerInv, OwnerTypes
  <2> QED BY <1>1, <1>4, <1>5, <1>9, <2>1 DEF TagAnnounced
<1> QED BY <1>7, <1>8, <1>9 DEF AllAnnounced
-----------------------------------------------------------------------------
\* Nothing changes at the owner.
OwnerStill ==
  UNCHANGED <<repo, rows, tags, excluded, req, deleted, unsent, tagLost>>

(***************************************************************************)
(* A step at the mirror that evicts nothing.  What is announced stays so,  *)
(* apart from what the step takes or its task carries: that must have come *)
(* further on its way.                                                     *)
(***************************************************************************)
LEMMA MirrorAnnounces ==
  ASSUME CompleteInv, OwnerStill, UNCHANGED evicted,
         mrepo' = mrepo \/ mrepo.id = 0,
         BagToSet(net') \subseteq BagToSet(net),
         NEW Moved \in SUBSET Workers,
         \A v \in Workers \ Moved : work'[v] = work[v],
         \A v \in Moved : TaskTraced(v)',
         Ours' => \A d : HasRow(d) /\ d \notin deleted => HasRow(d)',
         Ours' /\ ~tagLost /\ deleted = {} => \A tg \in Tags : HasTag(tg) => HasTag(tg)',
         Ours' => \A a \in BagToSet(net) \ BagToSet(net') :
                    a.type = "Create" /\ a.actor = Owner =>
                      /\ \A d \in {a.digest} : Announced(d)'
                      /\ deleted = {} => \A tg \in {a.tag} : TagAnnounced(tg)' \/ tg = NoTag,
         Ours' => \A v \in Moved :
                    work[v].at \in {"getOrCreate", "putManifest"} /\ work[v].actor = Owner =>
                      /\ \A d \in {work[v].digest} : Announced(d)'
                      /\ deleted = {} => \A tg \in {work[v].tag} : TagAnnounced(tg)' \/ tg = NoTag,
         Ours' /\ deleted = {} => \A v \in Moved : work[v].at = "putTag" =>
                                    \A tg \in {work[v].tag} : TagAnnounced(tg)'
  PROVE  Traced' /\ AllAnnounced'
<1> USE DEF CompleteInv, OwnerStill
<1>1. Ours' => Ours
  BY DEF Ours
<1>2. Traced'
  <2>1. ASSUME NEW p \in Requests PROVE ReqTraced(p)'
    BY DEF Traced, ReqTraced
  <2>2. ASSUME NEW a \in BagToSet(net'), a.type = "Delete" PROVE Asked(a.digest)'
    BY <2>2 DEF Traced, Asked
  <2>3. ASSUME NEW v \in Workers \ Moved PROVE TaskTraced(v)'
    <3>1. TaskTraced(v) /\ work'[v] = work[v]
      BY DEF Traced
    <3>2. Ours' /\ deleted' = {} /\ work[v].at = "putTag" => HasRow(work[v].digest)'
      BY <1>1, <3>1 DEF TaskTraced
    <3>3. work[v].at = "deleteManifest" => Asked(work[v].digest)'
      BY <3>1 DEF TaskTraced, Asked
    <3>4. ~evicted /\ work[v].at \notin {"idle", "getOrCreate"} =>
            work[v].repo = mrepo'.id /\ mrepo'.id # 0
      BY <3>1 DEF TaskTraced
    <3> QED BY <3>1, <3>2, <3>3, <3>4 DEF TaskTraced
  <2> QED BY <2>1, <2>2, <2>3 DEF Traced
<1>3. ASSUME Ours', NEW d \in Stored' \ (unsent' \union deleted') PROVE Announced(d)'
  <2>1. Announced(d) /\ d \notin deleted
    BY <1>1, <1>3 DEF AllAnnounced, Stored
  <2>2. CASE \E p \in Requests : req[p].at \in {"putTag", "publishManifest"} /\ req[p].digest = d
    BY <2>2 DEF Announced
  <2>3. ASSUME NEW a \in BagToSet(net), a.type = "Create", a.actor = Owner, a.digest = d
        PROVE  Announced(d)'
    <3>1. CASE a \in BagToSet(net')
      BY <2>3, <3>1 DEF Announced
    <3>2. CASE a \notin BagToSet(net')
      BY <1>3, <2>3, <3>2
    <3> QED BY <3>1, <3>2
  <2>4. ASSUME NEW v \in Workers, work[v].at \in {"getOrCreate", "putManifest"},
               work[v].actor = Owner, work[v].digest = d
        PROVE  Announced(d)'
    <3>1. CASE v \in Moved
      BY <1>3, <2>4, <3>1
    <3>2. CASE v \notin Moved
      BY <2>4, <3>2 DEF Announced
    <3> QED BY <3>1, <3>2
  <2>5. CASE HasRow(d)
    BY <1>3, <2>1, <2>5 DEF Announced
  <2> QED BY <2>1, <2>2, <2>3, <2>4, <2>5 DEF Announced
<1>4. ASSUME Ours', ~tagLost', deleted' = {}, NEW x \in tags' PROVE TagAnnounced(x[2])'
  <2>0. x \in tags /\ ~tagLost /\ deleted = {} /\ Ours /\ Ours'
    BY <1>1, <1>4
  <2> DEFINE tg == x[2]
  <2>1. TagAnnounced(tg) /\ tg \in Tags /\ tg # NoTag
    <3>1. TagAnnounced(tg)
      BY <2>0 DEF AllAnnounced
    <3>2. tg \in Tags
      BY <2>0 DEF ContentInv, OwnerInv, OwnerTypes
    <3> QED BY <3>1, <3>2, ContentAssumption
  <2> HIDE DEF tg
  <2>2. ASSUME NEW p \in Requests, req[p].at = "publishManifest", req[p].tag = tg
        PROVE  TagAnnounced(tg)'
    BY <2>2 DEF TagAnnounced
  <2>3. ASSUME NEW a \in BagToSet(net), a.type = "Create", a.actor = Owner, a.tag = tg
        PROVE  TagAnnounced(tg)'
    <3>1. CASE a \in BagToSet(net')
      BY <2>3, <3>1 DEF TagAnnounced
    <3>2. CASE a \notin BagToSet(net')
      BY <1>4, <2>0, <2>1, <2>3, <3>2
    <3> QED BY <3>1, <3>2
  <2>4. ASSUME NEW v \in Workers,
               \/ work[v].at \in {"getOrCreate", "putManifest"} /\ work[v].actor = Owner
               \/ work[v].at = "putTag",
               work[v].tag = tg
        PROVE  TagAnnounced(tg)'
    <3>1. CASE v \in Moved
      BY <1>4, <2>0, <2>1, <2>4, <3>1
    <3>2. CASE v \notin Moved
      BY <2>4, <3>2 DEF TagAnnounced
    <3> QED BY <3>1, <3>2
  <2>5. ASSUME HasTag(tg) PROVE TagAnnounced(tg)'
    BY <2>0, <2>1, <2>5 DEF TagAnnounced
  <2>6. TagAnnounced(tg)'
    BY <2>1, <2>2, <2>3, <2>4, <2>5 DEF TagAnnounced
  <2> QED BY <2>6 DEF tg
<1> QED BY <1>2, <1>3, <1>4 DEF AllAnnounced

(***************************************************************************)
(* An upsert removes no manifest, whoever it came from.                    *)
(***************************************************************************)
LEMMA RowPutKeeps ==
  ASSUME NEW id, NEW d, NEW source
  PROVE  /\ \A x \in mrows : \E y \in RowPut(id, d, source) :
              y.repo = x.repo /\ y.digest = x.digest
         /\ \E y \in RowPut(id, d, source) : y.repo = id /\ y.digest = d
<1> DEFINE n == [repo |-> id, digest |-> d, source |-> source]
<1>1. /\ n.repo = id /\ n.digest = d /\ n \in RowPut(id, d, source)
      /\ \A x \in mrows : x.repo # id \/ x.digest # d => x \in RowPut(id, d, source)
  BY DEF RowPut
<1> HIDE DEF n
<1> QED BY <1>1

(***************************************************************************)
(* The owner of a copy that is ours is the owner.                          *)
(***************************************************************************)
LEMMA OursIsOwners ==
  ASSUME mrepo \in [id : Nat, owner : Senders], Ours, mrepo.id # 0
  PROVE  mrepo.owner = Owner
BY DEF Ours, Senders

(***************************************************************************)
(* A task takes an activity: an announcement of the owner is not refused   *)
(* while the copy is ours.                                                 *)
(***************************************************************************)
LEMMA TakeAnnounces ==
  ASSUME CompleteInv, NEW w \in Workers, Take(w)
  PROVE  Traced' /\ AllAnnounced'
<1>0. MirrorInv /\ Traced /\ mrepo \in [id : Nat, owner : Senders] /\ work[w].at = "idle"
  BY DEF CompleteInv, ContentInv, MirrorInv, MirrorTypes, Take
<1>1. OwnerStill /\ UNCHANGED <<mrepo, mrows, mtags, evicted, excluded, deleted, tagLost>>
  BY DEF Take, OwnerStill, ownerTables, mirrorTables
<1>2. PICK a \in BagToSet(net) :
        /\ net' = net (-) SetToBag({a})
        /\ work' = IF FirstStep(a) = "idle" THEN work
                   ELSE [work EXCEPT ![w] =
                          [at |-> FirstStep(a), type |-> a.type, digest |-> a.digest,
                           tag |-> a.tag, actor |-> a.actor, repo |-> mrepo.id]]
  BY DEF Take
<1>3. /\ BagToSet(net') \subseteq BagToSet(net)
      /\ \A b \in BagToSet(net) \ BagToSet(net') : b = a
  BY <1>0, <1>2, BagOfOne DEF MirrorInv, MirrorTypes
<1>4. Wellformed(a) /\ (a.type = "Delete" => Asked(a.digest))
  BY <1>0, <1>2 DEF MirrorInv, Traced
<1>5. \A d : HasRow(d)' <=> HasRow(d)
  BY <1>1 DEF HasRow
<1>6. \A tg : HasTag(tg)' <=> HasTag(tg)
  BY <1>1, <1>5 DEF HasTag
<1>7. Ours' => Ours
  BY <1>1 DEF Ours
<1>8. Ours /\ a.type = "Create" /\ a.actor = Owner =>
        FirstStep(a) \in {"getOrCreate", "putManifest"}
  BY <1>0, OursIsOwners DEF FirstStep
<1>9. CASE FirstStep(a) = "idle"
  <2>1. work' = work
    BY <1>2, <1>9
  <2>2. Ours' => \A b \in BagToSet(net) \ BagToSet(net') : ~(b.type = "Create" /\ b.actor = Owner)
    BY <1>3, <1>7, <1>8, <1>9
  <2> DEFINE M == {}
  <2>3. /\ M \in SUBSET Workers /\ \A v \in Workers \ M : work'[v] = work[v]
        /\ \A v \in M : FALSE
    BY <2>1
  <2> HIDE DEF M
  <2> QED BY <1>1, <1>3, <1>5, <1>6, <2>2, <2>3, MirrorAnnounces
<1>10. CASE FirstStep(a) # "idle"
  <2> DEFINE r == [at |-> FirstStep(a), type |-> a.type, digest |-> a.digest,
                   tag |-> a.tag, actor |-> a.actor, repo |-> mrepo.id]
  <2>1. /\ r.at = FirstStep(a) /\ r.digest = a.digest /\ r.tag = a.tag
        /\ r.actor = a.actor /\ r.repo = mrepo.id
    OBVIOUS
  <2>2. work' = [work EXCEPT ![w] = r] /\ work \in [Workers -> Tasks]
    BY <1>0, <1>2, <1>10 DEF MirrorInv, MirrorTypes
  <2> HIDE DEF r
  <2>3. work'[w] = r /\ \A v \in Workers \ {w} : work'[v] = work[v]
    BY <2>2
  <2>4. a.type \in {"Create", "Update", "Delete"}
    BY <1>4 DEF Wellformed, Activity
  <2>5. /\ FirstStep(a) # "putTag"
        /\ FirstStep(a) # "getOrCreate" => mrepo.id # 0
        /\ FirstStep(a) = "deleteManifest" => a.type = "Delete"
        /\ FirstStep(a) = "deleteTag" => a.type = "Delete" /\ a.digest = NoDigest
    BY <1>10, <2>4 DEF FirstStep
  <2>6. TaskTraced(w)'
    <3>1. work'[w].at = FirstStep(a) /\ work'[w].digest = a.digest /\ work'[w].repo = mrepo'.id
      BY <1>1, <2>1, <2>3
    <3>2. work'[w].at = "deleteManifest" =>
            excluded' \/ (IF work'[w].digest # NoDigest THEN work'[w].digest \in deleted' ELSE tagLost')
      BY <1>1, <1>4, <2>5, <3>1 DEF Asked
    <3>3. work'[w].at = "deleteTag" => excluded' \/ tagLost'
      BY <1>1, <1>4, <2>5, <3>1 DEF Asked
    <3>4. work'[w].at \notin {"idle", "getOrCreate"} => mrepo'.id # 0
      BY <1>1, <2>5, <3>1
    <3> QED BY <2>5, <3>1, <3>2, <3>3, <3>4 DEF TaskTraced, Asked
  <2>7. Ours' /\ a.type = "Create" /\ a.actor = Owner =>
          /\ \A d \in {a.digest} : Announced(d)'
          /\ \A tg \in {a.tag} : TagAnnounced(tg)'
    <3>1. Ours' /\ a.type = "Create" /\ a.actor = Owner =>
            /\ work'[w].at \in {"getOrCreate", "putManifest"} /\ work'[w].actor = Owner
            /\ work'[w].digest = a.digest /\ work'[w].tag = a.tag
      BY <1>7, <1>8, <2>1, <2>3
    <3> QED BY <3>1 DEF Announced, TagAnnounced
  <2>8. Ours' => \A b \in BagToSet(net) \ BagToSet(net') :
                   b.type = "Create" /\ b.actor = Owner =>
                     /\ \A d \in {b.digest} : Announced(d)'
                     /\ \A tg \in {b.tag} : TagAnnounced(tg)'
    BY <1>3, <2>7
  <2> DEFINE M == {w}
  <2>9. /\ M \in SUBSET Workers /\ \A v \in Workers \ M : work'[v] = work[v]
        /\ \A v \in M : TaskTraced(v)' /\ work[v].at = "idle"
    BY <1>0, <2>3, <2>6
  <2> HIDE DEF M
  <2> QED BY <1>1, <1>3, <1>5, <1>6, <2>8, <2>9, MirrorAnnounces
<1> QED BY <1>9, <1>10

(***************************************************************************)
(* A step of task w on the copy that is there or that it creates.          *)
(***************************************************************************)
LEMMA TaskAnnounces ==
  ASSUME CompleteInv, NEW w \in Workers, TaskMoves(w), TaskTraced(w)',
         OwnerStill, UNCHANGED <<evicted, net>>, mrepo' = mrepo \/ mrepo.id = 0,
         Ours' => \A d : HasRow(d) /\ d \notin deleted => HasRow(d)',
         Ours' /\ ~tagLost /\ deleted = {} => \A tg \in Tags : HasTag(tg) => HasTag(tg)',
         Ours' /\ work[w].at \in {"getOrCreate", "putManifest"} /\ work[w].actor = Owner =>
           /\ \A d \in {work[w].digest} : Announced(d)'
           /\ \A tg \in {work[w].tag} : TagAnnounced(tg)' \/ tg = NoTag,
         Ours' /\ deleted = {} /\ work[w].at = "putTag" =>
           \A tg \in {work[w].tag} : TagAnnounced(tg)'
  PROVE  Traced' /\ AllAnnounced'
<1> DEFINE M == {w}
<1>1. /\ M \in SUBSET Workers /\ \A v \in Workers \ M : work'[v] = work[v]
      /\ \A v \in M : TaskTraced(v)' /\ v = w
  BY DEF TaskMoves
<1> HIDE DEF M
<1>2. /\ BagToSet(net') \subseteq BagToSet(net)
      /\ BagToSet(net) \ BagToSet(net') = {}
  OBVIOUS
<1>3. Ours' => \A v \in M :
        work[v].at \in {"getOrCreate", "putManifest"} /\ work[v].actor = Owner =>
          /\ \A d \in {work[v].digest} : Announced(d)'
          /\ \A tg \in {work[v].tag} : TagAnnounced(tg)' \/ tg = NoTag
  BY <1>1
<1>4. Ours' /\ deleted = {} => \A v \in M : work[v].at = "putTag" =>
        \A tg \in {work[v].tag} : TagAnnounced(tg)'
  BY <1>1
<1> QED BY <1>1, <1>2, <1>3, <1>4, MirrorAnnounces

(***************************************************************************)
(* A copy that a task of the owner creates, or finds, is the owner's.      *)
(***************************************************************************)
LEMMA GetOrCreateAnnounces ==
  ASSUME CompleteInv, NEW w \in Workers, GetOrCreateRepository(w)
  PROVE  Traced' /\ AllAnnounced'
<1>0. /\ MirrorInv /\ mrepo \in [id : Nat, owner : Senders] /\ work[w].at = "getOrCreate"
      /\ work[w] \in Tasks /\ mlastId \in Nat
      /\ \A x \in mrows : x.repo # 0
  BY DEF CompleteInv, ContentInv, MirrorInv, MirrorTypes, GetOrCreateRepository
<1>1. OwnerStill /\ UNCHANGED <<mrows, mtags, evicted, net, excluded, deleted>>
  BY DEF GetOrCreateRepository, OwnerStill, ownerTables, outgoing
<1>2. /\ mrepo' \in [id : Nat, owner : Senders] /\ mrepo'.id # 0
      /\ mrepo' = mrepo \/ mrepo.id = 0
  BY <1>0 DEF GetOrCreateRepository, Tasks
<1>3. \A d : HasRow(d) => HasRow(d)'
  BY <1>0, <1>1, <1>2 DEF HasRow
<1>4. \A tg : HasTag(tg) => HasTag(tg)'
  <2>1. \A tg : HasTag(tg) => mrepo.id # 0
    BY <1>0 DEF HasTag, HasRow
  <2> QED BY <1>1, <1>2, <1>3, <2>1 DEF HasTag
<1>5. CASE mrepo'.owner = work[w].actor
  <2> DEFINE r == [work[w] EXCEPT !.at = "putManifest", !.repo = mrepo'.id]
  <2>1. /\ r \in Tasks /\ r.at = "putManifest" /\ r.repo = mrepo'.id
        /\ r.actor = work[w].actor /\ r.digest = work[w].digest /\ r.tag = work[w].tag
    BY <1>0, <1>2 DEF Tasks, TaskSteps
  <2>2. work' = [work EXCEPT ![w] = r]
    BY <1>5 DEF GetOrCreateRepository
  <2> HIDE DEF r
  <2>3. TaskMoves(w) /\ work'[w] = r
    BY <1>0, <2>1, <2>2, SetTask
  <2>4. TaskTraced(w)'
    BY <1>2, <2>1, <2>3 DEF TaskTraced
  <2>5. work[w].actor = Owner =>
          /\ \A d \in {work[w].digest} : Announced(d)'
          /\ \A tg \in {work[w].tag} : TagAnnounced(tg)'
    BY <2>1, <2>3 DEF Announced, TagAnnounced
  <2> QED BY <1>0, <1>1, <1>2, <1>3, <1>4, <2>3, <2>4, <2>5, TaskAnnounces
<1>6. CASE mrepo'.owner # work[w].actor
  <2>1. TaskMoves(w) /\ work'[w].at = "idle"
    BY <1>0, <1>6, DoneTask DEF GetOrCreateRepository
  <2>2. TaskTraced(w)'
    BY <2>1 DEF TaskTraced
  <2>3. Ours' => work[w].actor # Owner
    BY <1>2, <1>6 DEF Ours, Senders
  <2> QED BY <1>0, <1>1, <1>2, <1>3, <1>4, <2>1, <2>2, <2>3, TaskAnnounces
<1> QED BY <1>5, <1>6

(***************************************************************************)
(* The rest of an inbox task: what it carries is stored; a tag is put on a *)
(* manifest that is there; and what it deletes was asked to go.            *)
(***************************************************************************)
LEMMA IngestAnnounces ==
  ASSUME CompleteInv, NEW w \in Workers,
         \/ IngestManifest(w) \/ IngestPutTag(w) \/ IngestTag(w)
         \/ InboxDeleteManifest(w) \/ InboxRecordDeleted(w) \/ InboxDeleteTag(w)
  PROVE  Traced' /\ AllAnnounced'
<1>0. /\ MirrorInv /\ mrepo \in [id : Nat, owner : Senders] /\ work[w] \in Tasks
      /\ Entitled(w) /\ TaskTraced(w)
  BY DEF CompleteInv, ContentInv, MirrorInv, MirrorTypes, Traced
<1>1. OwnerStill /\ UNCHANGED <<mrepo, evicted, net, excluded, deleted, tagLost>>
  BY DEF IngestManifest, IngestPutTag, IngestTag, InboxDeleteManifest, InboxRecordDeleted,
         InboxDeleteTag, OwnerStill, ownerTables, mirrorTables, outgoing
<1>2. Ours' => Ours /\ ~evicted /\ ~excluded
  BY <1>1 DEF Ours
<1>3. ASSUME TaskDone(w) PROVE TaskMoves(w) /\ TaskTraced(w)'
  <2>1. TaskMoves(w) /\ work'[w].at = "idle"
    BY <1>0, <1>3, DoneTask
  <2> QED BY <2>1 DEF TaskTraced
<1>4. ASSUME NEW at \in {"putTag", "recordTombstone"}, Task(w, at),
             work[w].at \notin {"idle", "getOrCreate"},
             at = "putTag" /\ Ours' => \A d \in {work[w].digest} : HasRow(d)'
      PROVE  TaskMoves(w) /\ TaskTraced(w)' /\ work'[w].at = at /\ work'[w].tag = work[w].tag
  <2>1. TaskMoves(w) /\ work'[w] = [work[w] EXCEPT !.at = at]
    BY <1>0, <1>4, StepTask DEF TaskSteps
  <2>2. /\ work'[w].at = at /\ work'[w].digest = work[w].digest
        /\ work'[w].tag = work[w].tag /\ work'[w].repo = work[w].repo
    BY <1>0, <2>1 DEF Tasks
  <2>3. ~evicted' => work'[w].repo = mrepo'.id /\ mrepo'.id # 0
    BY <1>0, <1>1, <1>4, <2>2 DEF TaskTraced
  <2>4. at = "putTag" /\ Ours' =>
          \E x \in mrows' : x.repo = mrepo'.id /\ x.digest = work'[w].digest
    BY <1>4, <2>2 DEF HasRow
  <2> QED BY <1>4, <2>1, <2>2, <2>3, <2>4 DEF TaskTraced, HasRow
<1>5. ASSUME NEW tg \in {work[w].tag}, Task(w, "putTag"), work'[w].tag = work[w].tag,
             work'[w].at = "putTag"
      PROVE  TagAnnounced(tg)'
  BY <1>5 DEF TagAnnounced
<1>6. CASE IngestManifest(w)
  <2>1. /\ mrows' = RowPut(work[w].repo, work[w].digest, work[w].actor)
        /\ mtags' = mtags /\ work[w].at = "putManifest"
        /\ IF work[w].tag # NoTag THEN Task(w, "putTag") ELSE TaskDone(w)
    BY <1>6 DEF IngestManifest
  <2>2. \A d : HasRow(d) => HasRow(d)'
    BY <1>1, <2>1, RowPutKeeps DEF HasRow
  <2>3. \A tg : HasTag(tg) => HasTag(tg)'
    BY <1>1, <2>1, <2>2 DEF HasTag
  <2>4. Ours' => \A d \in {work[w].digest} : HasRow(d)'
    <3>1. Ours' => work[w].repo = mrepo'.id
      BY <1>0, <1>1, <1>2, <2>1 DEF TaskTraced
    <3> QED BY <2>1, <3>1, RowPutKeeps DEF HasRow
  <2>5. Ours' => \A d \in {work[w].digest} : Announced(d)'
    BY <2>4 DEF Announced
  <2>6. TaskMoves(w) /\ TaskTraced(w)'
    BY <1>3, <1>4, <2>1, <2>4
  <2>7. \A tg \in {work[w].tag} : TagAnnounced(tg)' \/ tg = NoTag
    BY <1>4, <1>5, <2>1, <2>4
  <2> QED BY <1>1, <2>1, <2>2, <2>3, <2>5, <2>6, <2>7, TaskAnnounces
<1>7. CASE IngestPutTag(w)
  <2>1. /\ mtags' = IF work[w].repo = mrepo.id
                      THEN TagPut(mtags, mrepo.id, work[w].tag, work[w].digest) ELSE mtags
        /\ mrows' = mrows /\ TaskDone(w) /\ work[w].at = "putTag"
    BY <1>7 DEF IngestPutTag
  <2>2. \A d : HasRow(d)' <=> HasRow(d)
    BY <1>1, <2>1 DEF HasRow
  <2>3. ASSUME Ours', deleted = {}
        PROVE  \A tg : HasTag(tg) \/ tg = work[w].tag => HasTag(tg)'
    <3> DEFINE y == <<mrepo.id, work[w].tag, work[w].digest>>
    <3>1. work[w].repo = mrepo.id /\ HasRow(work[w].digest)
      BY <1>0, <1>2, <2>1, <2>3 DEF TaskTraced
    <3>2. /\ mtags' = {x \in mtags : x[1] # mrepo.id \/ x[2] # work[w].tag} \union {y}
          /\ y[1] = mrepo.id /\ y[2] = work[w].tag /\ y[3] = work[w].digest
      BY <2>1, <3>1 DEF TagPut
    <3> HIDE DEF y
    <3>3. \E z \in mrows' : z.repo = mrepo'.id /\ z.digest = y[3]
      BY <1>1, <2>1, <3>1, <3>2 DEF HasRow
    <3>4. \A tg : tg = work[w].tag => HasTag(tg)'
      BY <1>1, <3>2, <3>3 DEF HasTag, HasRow
    <3>5. \A tg : HasTag(tg) /\ tg # work[w].tag => HasTag(tg)'
      BY <1>1, <2>2, <3>2 DEF HasTag
    <3> QED BY <3>4, <3>5
  <2>4. Ours' /\ deleted = {} => \A tg \in {work[w].tag} : TagAnnounced(tg)'
    BY <2>3 DEF TagAnnounced
  <2> QED BY <1>1, <1>3, <2>1, <2>2, <2>3, <2>4, TaskAnnounces
<1>8. CASE IngestTag(w)
  <2>1. /\ UNCHANGED <<mrows, mtags>> /\ work[w].at = "getManifest"
        /\ IF \E x \in mrows : x.repo = work[w].repo /\ x.digest = work[w].digest
             THEN Task(w, "putTag") ELSE TaskDone(w)
    BY <1>8 DEF IngestTag, mirrorTables
  <2>2. \A d : HasRow(d)' <=> HasRow(d)
    BY <1>1, <2>1 DEF HasRow
  <2>3. \A tg : HasTag(tg) => HasTag(tg)'
    BY <1>1, <2>1, <2>2 DEF HasTag
  <2>4. Ours' /\ ~TaskDone(w) => \A d \in {work[w].digest} : HasRow(d)'
    BY <1>0, <1>1, <1>2, <2>1 DEF TaskTraced, HasRow
  <2>5. TaskMoves(w) /\ TaskTraced(w)'
    BY <1>3, <1>4, <2>1, <2>4
  <2> QED BY <1>1, <2>1, <2>2, <2>3, <2>5, TaskAnnounces
<1>9. CASE InboxDeleteManifest(w)
  <2>1. /\ mrows' = mrows \ {x \in mrows : x.repo = work[w].repo /\ x.digest = work[w].digest}
        /\ work[w].at = "deleteManifest" /\ Task(w, "recordTombstone")
    BY <1>9 DEF InboxDeleteManifest
  <2>2. work[w].digest \in Digests /\ (Ours' => work[w].digest \in deleted)
    BY <1>0, <1>2, <2>1, ContentAssumption DEF TaskTraced, Asked, Entitled
  <2>3. Ours' => \A d : HasRow(d) /\ d \notin deleted => HasRow(d)'
    BY <1>1, <2>1, <2>2 DEF HasRow
  <2>4. TaskMoves(w) /\ TaskTraced(w)'
    BY <1>4, <2>1
  <2> QED BY <1>1, <2>1, <2>2, <2>3, <2>4, TaskAnnounces
<1>10. CASE InboxRecordDeleted(w)
  <2>1. UNCHANGED <<mrows, mtags>> /\ work[w].at = "recordTombstone" /\ TaskDone(w)
    BY <1>10 DEF InboxRecordDeleted
  <2>2. \A d : HasRow(d)' <=> HasRow(d)
    BY <1>1, <2>1 DEF HasRow
  <2>3. \A tg : HasTag(tg) => HasTag(tg)'
    BY <1>1, <2>1, <2>2 DEF HasTag
  <2> QED BY <1>1, <1>3, <2>1, <2>2, <2>3, TaskAnnounces
<1>11. CASE InboxDeleteTag(w)
  <2>1. mrows' = mrows /\ work[w].at = "deleteTag" /\ TaskDone(w)
    BY <1>11 DEF InboxDeleteTag
  <2>2. \A d : HasRow(d)' <=> HasRow(d)
    BY <1>1, <2>1 DEF HasRow
  <2>3. Ours' => tagLost
    BY <1>0, <1>2, <2>1 DEF TaskTraced
  <2> QED BY <1>1, <1>3, <2>1, <2>2, <2>3, TaskAnnounces
<1> QED BY <1>6, <1>7, <1>8, <1>9, <1>10, <1>11

(***************************************************************************)
(* A pull only adds, and a mirror that evicts is exempt from then on.      *)
(***************************************************************************)
LEMMA PullAnnounces ==
  ASSUME CompleteInv,
         \/ \E d \in Digests : PullBegin(d) \/ EvictManifest(d)
         \/ FetchManifest \/ StoreFetched \/ EvictRepo \/ UNCHANGED vars
  PROVE  Traced' /\ AllAnnounced'
<1>1. OwnerStill /\ UNCHANGED <<net, work, excluded, deleted, tagLost>>
  BY DEF PullBegin, EvictManifest, FetchManifest, StoreFetched, EvictRepo, OwnerStill,
         ownerTables, outgoing, vars
<1>2. ASSUME evicted' PROVE Traced' /\ AllAnnounced'
  <2>1. ~Ours'
    BY <1>2 DEF Ours
  <2>2. ASSUME NEW p \in Requests PROVE ReqTraced(p)'
    BY <1>1 DEF CompleteInv, Traced, ReqTraced, OwnerStill
  <2>3. ASSUME NEW a \in BagToSet(net'), a.type = "Delete" PROVE Asked(a.digest)'
    BY <1>1, <2>3 DEF CompleteInv, Traced, Asked
  <2>4. ASSUME NEW w \in Workers PROVE TaskTraced(w)'
    BY <1>1, <1>2, <2>1 DEF CompleteInv, Traced, TaskTraced, Asked
  <2> QED BY <2>1, <2>2, <2>3, <2>4 DEF Traced, AllAnnounced
<1>3. ASSUME UNCHANGED <<mrepo, mtags, evicted>>, \A d : HasRow(d) => HasRow(d)'
      PROVE  Traced' /\ AllAnnounced'
  <2>1. \A tg : HasTag(tg) => HasTag(tg)'
    BY <1>3 DEF HasTag
  <2> DEFINE M == {}
  <2>2. /\ M \in SUBSET Workers /\ \A v \in Workers \ M : work'[v] = work[v]
        /\ \A v \in M : FALSE
        /\ BagToSet(net') \subseteq BagToSet(net) /\ BagToSet(net) \ BagToSet(net') = {}
    BY <1>1
  <2> HIDE DEF M
  <2> QED BY <1>1, <1>3, <2>1, <2>2, MirrorAnnounces
<1>4. ASSUME UNCHANGED <<mrepo, mrows>> PROVE \A d : HasRow(d) => HasRow(d)'
  BY <1>4 DEF HasRow
<1>5. CASE (\E d \in Digests : PullBegin(d)) \/ FetchManifest \/ UNCHANGED vars
  <2>1. UNCHANGED <<mrepo, mrows, mtags, evicted>>
    BY <1>5 DEF PullBegin, FetchManifest, mirrorTables, vars
  <2> QED BY <1>3, <1>4, <2>1
<1>6. CASE StoreFetched
  <2>1. UNCHANGED <<mrepo, mtags, evicted>>
        /\ mrows' \in {mrows, RowPut(mrepo.id, pull.digest, pull.source)}
    BY <1>6 DEF StoreFetched
  <2>2. \A d : HasRow(d) => HasRow(d)'
    <3>1. CASE mrows' = mrows
      BY <1>4, <2>1, <3>1
    <3>2. CASE mrows' = RowPut(mrepo.id, pull.digest, pull.source)
      BY <2>1, <3>2, RowPutKeeps DEF HasRow
    <3> QED BY <2>1, <3>1, <3>2
  <2> QED BY <1>3, <2>1, <2>2
<1>7. CASE (\E d \in Digests : EvictManifest(d)) \/ EvictRepo
  BY <1>2, <1>7 DEF EvictManifest, EvictRepo
<1> QED BY <1>5, <1>6, <1>7

LEMMA CompleteInvInductive ==
  /\ Init => CompleteInv
  /\ CompleteInv /\ [Next]_vars => CompleteInv'
<1>1. ASSUME Init PROVE CompleteInv
  <2>1. /\ \A p \in Requests : req[p].at = "idle"
        /\ \A w \in Workers : work[w].at = "idle"
        /\ Stored = {} /\ tags = {}
    BY <1>1 DEF Init, IdleReq, IdleTask, Procs, Stored
  <2>2. \A a \in BagToSet(net) : a.type = "Create"
    <3>1. CASE net = EmptyBag
      BY <3>1 DEF EmptyBag, SetToBag, BagToSet
    <3>2. ASSUME NEW d \in Digests,
                 net = SetToBag({[type |-> "Create", digest |-> d, tag |-> NoTag,
                                  actor |-> Rival]})
          PROVE  \A a \in BagToSet(net) : a.type = "Create"
      BY <3>2 DEF SetToBag, BagToSet
    <3> QED BY <1>1, <3>1, <3>2 DEF Init
  <2>3. Traced
    BY <2>1, <2>2 DEF Traced, ReqTraced, TaskTraced
  <2>4. AllAnnounced
    BY <2>1 DEF AllAnnounced
  <2> QED BY <1>1, <2>3, <2>4, ContentInvInductive DEF CompleteInv
<1>2. ASSUME CompleteInv, [Next]_vars PROVE CompleteInv'
  <2>1. ContentInv'
    BY <1>2, ContentInvInductive DEF CompleteInv
  <2>2. ASSUME NEW p \in Requests,
               \/ \E d \in Digests, tg \in AnyTag : PushBegin(p, d, tg)
               \/ \E d \in Digests : DeleteManifestBegin(p, d)
               \/ \E tg \in Tags : DeleteTag(p, tg)
               \/ DeleteRepoBegin(p) \/ PushStep(p) \/ DeleteStep(p)
        PROVE  Traced' /\ AllAnnounced'
    BY <1>2, <2>2, PushTraced, DeletesTraced, DeleteRepoTraced DEF PushStep, DeleteStep
  <2>3. ASSUME NEW w \in Workers, InboxTask(w) PROVE Traced' /\ AllAnnounced'
    BY <1>2, <2>3, TakeAnnounces, GetOrCreateAnnounces, IngestAnnounces DEF InboxTask
  <2>4. Traced' /\ AllAnnounced'
    BY <1>2, <2>2, <2>3, WithdrawTraced, RestartTraced, PullAnnounces DEF Next
  <2> QED BY <2>1, <2>4 DEF CompleteInv
<1> QED BY <1>1, <1>2

(***************************************************************************)
(* Once everything has arrived the copy is complete, in whatever order the *)
(* activities were taken and however the inbox workers overlapped: nothing *)
(* that was announced can still be on its way, so it is there.             *)
(***************************************************************************)
THEOREM CopyComplete == Spec => []MirrorComplete
<1>1. CompleteInv => MirrorComplete
  <2> SUFFICES ASSUME CompleteInv, Quiet, Ours PROVE
                 /\ \A d \in Stored \ (unsent \union deleted) : HasRow(d)
                 /\ ~tagLost /\ deleted = {} => \A x \in tags : HasTag(x[2])
    BY DEF MirrorComplete, Ours, HasRow, HasTag
  <2>1. /\ BagToSet(net) = {}
        /\ \A p \in Requests : req[p].at = "idle"
        /\ \A w \in Workers : work[w].at = "idle"
    BY DEF Quiet, Procs, EmptyBag, SetToBag, BagToSet
  <2>2. /\ \A d : Announced(d) => HasRow(d)
        /\ \A tg : TagAnnounced(tg) => HasTag(tg)
    BY <2>1 DEF Announced, TagAnnounced
  <2> QED BY <2>2 DEF CompleteInv, AllAnnounced
<1> QED BY <1>1, CompleteInvInductive, PTL DEF Spec
=============================================================================
