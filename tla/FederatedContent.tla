--------------------------- MODULE FederatedContent ---------------------------
(***************************************************************************)
(* One OCI repository of an owner node and its copy on a node that follows *)
(* it: pushes, deletes and the withdrawal sweep on the owner               *)
(* (internal/oci/handler.go, internal/server/admin.go and server.go), the  *)
(* activities they publish (internal/activitypub/publisher.go), the        *)
(* mirror's inbox (inbox_content.go) and its pulls from the owner, over    *)
(* the rows of internal/database/packages.go.                              *)
(*                                                                         *)
(* Every step is one database transaction, one publication or one fetch.   *)
(* Activities reach the mirror at most once and in any order, as the       *)
(* delivery queue and the inbox (modules DeliveryQueue and Inbox) allow;   *)
(* an inbox task whose handler fails is not tried again.  A second sender  *)
(* whose namespace covers the same repository name may announce it too.    *)
(***************************************************************************)
EXTENDS Naturals, FiniteSets, Bags

CONSTANTS
  Digests, Tags,
  NoDigest, NoTag,
  Owner, Rival,    \* the two senders
  Requests,        \* goroutines of the owner that serve requests
  Workers,         \* workers of the mirror's inbox
  Budgets          \* bounds: how many pushes, deletes, announcements of the rival and
                   \*   events (restarts, evictions, pulls, lost publications)

ASSUME ContentAssumption ==
  /\ NoDigest \notin Digests /\ NoTag \notin Tags
  /\ Owner # Rival /\ "sweep" \notin Requests
  /\ Budgets \subseteq [pushes : Nat, deletes : Nat, events : Nat, rival : {0, 1}]

VARIABLES
  \* the owner's tables
  repo,        \* id of the packages row, 0 when there is none
  lastId,      \* ids are never reused
  rows,        \* package_versions: <<repo id, digest>>
  tags,        \* package_tags: <<repo id, tag, digest>>
  tomb,        \* deleted_versions
  withdrawn,   \* federation_withdrawn_at of the packages row
  excluded,    \* the repository matches federation.excludedRepos
  req,         \* the requests and, under "sweep", the withdrawal sweep
  \* on the way
  net,         \* the activities not yet taken by the mirror's inbox
  \* the mirror's tables
  mrepo,       \* [id, owner] of the packages row; id 0 when there is none
  mlastId,
  mrows,       \* package_versions: [repo, digest, source]
  mtags,
  mtomb,
  work,        \* the inbox tasks
  pull,        \* a client's pull by digest
  \* history
  ever,        \* digests stored at some time on the owner
  deleted,     \* digests a delete was asked for
  exposed,     \* digests whose last enqueued publication is a Create
  unsent,      \* digests a publication of which was lost on the owner
  tagLost,     \* a publication that carries a tag was lost, or a tag deleted
  evicted,     \* the mirror has evicted something
  left         \* what is left of the budget

ownerTables  == <<repo, lastId, rows, tags, tomb, withdrawn>>
mirrorTables == <<mrepo, mlastId, mrows, mtags, mtomb>>
outgoing     == <<net, exposed, unsent, tagLost>>
vars == <<ownerTables, excluded, req, mirrorTables, work, pull, outgoing,
          ever, deleted, evicted, left>>

Procs     == Requests \union {"sweep"}
AnyDigest == Digests \union {NoDigest}
AnyTag    == Tags \union {NoTag}
Senders   == {Owner, Rival}
Activity  == [type : {"Create", "Update", "Delete"}, digest : AnyDigest, tag : AnyTag,
              actor : Senders]

IdleReq  == [at |-> "idle", digest |-> NoDigest, tag |-> NoTag, repo |-> 0,
             tags |-> {}, digests |-> {}]
IdleTask == [at |-> "idle", type |-> "Create", digest |-> NoDigest, tag |-> NoTag,
             actor |-> Owner, repo |-> 0]
IdlePull == [at |-> "idle", digest |-> NoDigest, repo |-> 0, source |-> Owner]
NoRepo   == [id |-> 0, owner |-> Owner]

\* The shape of the state, as the tables and the goroutines have it.
TypeOK ==
  /\ repo \in 0..lastId /\ lastId \in Nat
  /\ rows \subseteq (1..lastId) \X Digests
  /\ tags \subseteq (1..lastId) \X Tags \X Digests
  /\ \A s, t \in tags : s[1] = t[1] /\ s[2] = t[2] => s = t
  /\ tomb \subseteq Digests
  /\ withdrawn \in BOOLEAN /\ excluded \in BOOLEAN
  /\ \A p \in Procs :
       /\ req[p].digest \in AnyDigest /\ req[p].tag \in AnyTag
       /\ req[p].repo \in 0..lastId
       /\ req[p].tags \subseteq Tags /\ req[p].digests \subseteq Digests
  /\ IsABag(net) /\ BagToSet(net) \subseteq Activity
  /\ mrepo.id \in 0..mlastId /\ mrepo.owner \in Senders /\ mlastId \in Nat
  /\ mrows \subseteq [repo : 1..mlastId, digest : Digests, source : Senders]
  /\ \A s, t \in mrows : s.repo = t.repo /\ s.digest = t.digest => s = t
  /\ mtags \subseteq (1..mlastId) \X Tags \X Digests
  /\ \A s, t \in mtags : s[1] = t[1] /\ s[2] = t[2] => s = t
  /\ mtomb \subseteq Digests
  /\ \A w \in Workers : work[w].repo \in 0..mlastId
  /\ pull.repo \in 0..mlastId

\* The rival may have announced one manifest under the same repository name.
Init ==
  /\ left \in Budgets
  /\ repo = 0 /\ lastId = 0 /\ rows = {} /\ tags = {} /\ tomb = {}
  /\ withdrawn = FALSE /\ excluded = FALSE
  /\ req = [p \in Procs |-> IdleReq]
  /\ IF left.rival = 0 THEN net = EmptyBag
     ELSE \E d \in Digests : net = SetToBag({[type |-> "Create", digest |-> d,
                                              tag |-> NoTag, actor |-> Rival]})
  /\ mrepo = NoRepo /\ mlastId = 0 /\ mrows = {} /\ mtags = {} /\ mtomb = {}
  /\ work = [w \in Workers |-> IdleTask]
  /\ pull = IdlePull
  /\ ever = {} /\ deleted = {} /\ exposed = {} /\ unsent = {}
  /\ tagLost = FALSE /\ evicted = FALSE
-----------------------------------------------------------------------------
Spend(kind) == left[kind] > 0 /\ left' = [left EXCEPT ![kind] = @ - 1]
Event == Spend("events")

Stored == {d \in Digests : <<repo, d>> \in rows}

\* The tables after PutPackageTag and DeletePackageVersion.
TagPut(table, id, t, d) == {x \in table : x[1] # id \/ x[2] # t} \union {<<id, t, d>>}
TagsKept(table, id, d)  == {x \in table : x[1] # id \/ x[3] # d}
-----------------------------------------------------------------------------
\* createAndDeliver and enqueueToFollowers, for the mirror: the activity is
\* enqueued; or a failure that is only logged loses it; or the handler's ctx
\* is over and the rest of the publications fail too (the caller logs it).
Enqueued(type, d, t) ==
  /\ net' = net (+) SetToBag({[type |-> type, digest |-> d, tag |-> t, actor |-> Owner]})
  /\ exposed' = CASE type = "Create" -> exposed \union {d}
                  [] type = "Delete" -> exposed \ {d}
                  [] OTHER           -> exposed
  /\ UNCHANGED <<unsent, tagLost, left>>

Lost(d, t) ==
  /\ Event
  /\ unsent' = unsent \union ({d} \ {NoDigest})
  /\ tagLost' = (tagLost \/ t # NoTag)
  /\ UNCHANGED <<net, exposed>>

\* repoExcluded: a Delete is published for an excluded repository too.
Publish(type, d, t) ==
  IF type # "Delete" /\ excluded
    THEN UNCHANGED <<outgoing, left>>
    ELSE Enqueued(type, d, t) \/ Lost(d, t)

Step(p, at) == req' = [req EXCEPT ![p].at = at]
Done(p)     == req' = [req EXCEPT ![p] = IdleReq]

\* pushManifest: normalizeRepoForWrite, GetOrCreateRepository.
PushBegin(p, d, t) ==
  /\ req[p].at = "idle" /\ Spend("pushes")
  /\ IF repo # 0 THEN UNCHANGED <<repo, lastId, withdrawn>>
     ELSE repo' = lastId + 1 /\ lastId' = lastId + 1 /\ withdrawn' = FALSE
  /\ req' = [req EXCEPT ![p] = [IdleReq EXCEPT !.at = "putManifest", !.digest = d,
                                               !.tag = t, !.repo = repo']]
  /\ UNCHANGED <<rows, tags, tomb, excluded, mirrorTables, work, pull, outgoing,
                 ever, deleted, evicted>>

\* Mutant: the parent-exists check is left out.
PutManifestUnchecked(p) ==
  /\ req[p].at = "putManifest"
  /\ rows' = rows \union {<<req[p].repo, req[p].digest>>}
  /\ ever' = ever \union {req[p].digest}
  /\ Step(p, IF req[p].tag # NoTag THEN "putTag" ELSE "publishManifest")
  /\ UNCHANGED <<repo, lastId, tags, tomb, withdrawn, excluded, mirrorTables, work,
                 pull, outgoing, deleted, evicted, left>>

\* PutManifestWithLayers: ErrRepositoryGone when a delete removed the row.
PutManifestWithLayers(p) ==
  /\ req[p].at = "putManifest"
  /\ IF req[p].repo = repo
       THEN /\ rows' = rows \union {<<repo, req[p].digest>>}
            /\ ever' = ever \union {req[p].digest}
            /\ Step(p, IF req[p].tag # NoTag THEN "putTag" ELSE "publishManifest")
       ELSE Done(p) /\ UNCHANGED <<rows, ever>>
  /\ UNCHANGED <<repo, lastId, tags, tomb, withdrawn, excluded, mirrorTables, work,
                 pull, outgoing, deleted, evicted, left>>

\* PutTag: PutPackageTag, with the same check.
PutTag(p) ==
  /\ req[p].at = "putTag"
  /\ IF req[p].repo = repo
       THEN /\ tags' = TagPut(tags, repo, req[p].tag, req[p].digest)
            /\ Step(p, "publishManifest")
       ELSE Done(p) /\ UNCHANGED tags
  /\ UNCHANGED <<repo, lastId, rows, tomb, withdrawn, excluded, mirrorTables, work,
                 pull, outgoing, ever, deleted, evicted, left>>

PublishManifest(p) ==
  /\ req[p].at = "publishManifest"
  /\ Publish("Create", req[p].digest, req[p].tag)
  /\ IF req[p].tag # NoTag THEN Step(p, "publishTag") ELSE Done(p)
  /\ UNCHANGED <<ownerTables, excluded, mirrorTables, work, pull, ever, deleted,
                 evicted>>

PublishTag(p) ==
  /\ req[p].at = "publishTag"
  /\ Publish("Update", req[p].digest, req[p].tag)
  /\ Done(p)
  /\ UNCHANGED <<ownerTables, excluded, mirrorTables, work, pull, ever, deleted,
                 evicted>>
-----------------------------------------------------------------------------
DeleteAsked == Spend("deletes")

\* deleteManifest: getOwnedRepo.
DeleteManifestBegin(p, d) ==
  /\ req[p].at = "idle" /\ repo # 0 /\ DeleteAsked
  /\ deleted' = deleted \union {d}
  /\ req' = [req EXCEPT ![p] = [IdleReq EXCEPT !.at = "recordTombstone", !.digest = d,
                                               !.repo = repo]]
  /\ UNCHANGED <<ownerTables, excluded, mirrorTables, work, pull, outgoing, ever,
                 evicted>>

\* Mutant: no tombstone for a manifest.
RecordDeletedNothing(p) ==
  /\ req[p].at = "recordTombstone"
  /\ Step(p, "deleteManifest")
  /\ UNCHANGED <<ownerTables, excluded, mirrorTables, work, pull, outgoing, ever,
                 deleted, evicted, left>>

RecordDeletedManifest(p) ==
  /\ req[p].at = "recordTombstone"
  /\ tomb' = tomb \union {req[p].digest}
  /\ Step(p, "deleteManifest")
  /\ UNCHANGED <<repo, lastId, rows, tags, withdrawn, excluded, mirrorTables, work,
                 pull, outgoing, ever, deleted, evicted, left>>

\* DeletePackageVersion: the row, and the tags that name it.
DeleteManifest(p) ==
  /\ req[p].at = "deleteManifest"
  /\ rows' = rows \ {<<req[p].repo, req[p].digest>>}
  /\ tags' = IF <<req[p].repo, req[p].digest>> \in rows
               THEN TagsKept(tags, req[p].repo, req[p].digest) ELSE tags
  /\ Step(p, "publishDelete")
  /\ UNCHANGED <<repo, lastId, tomb, withdrawn, excluded, mirrorTables, work, pull,
                 outgoing, ever, deleted, evicted, left>>

PublishManifestDelete(p) ==
  /\ req[p].at = "publishDelete"
  /\ Publish("Delete", req[p].digest, NoTag)
  /\ Done(p)
  /\ UNCHANGED <<ownerTables, excluded, mirrorTables, work, pull, ever, deleted,
                 evicted>>

\* deleteTag: getOwnedRepo and DeletePackageTag; then the publication.
DeleteTag(p, t) ==
  /\ req[p].at = "idle" /\ repo # 0 /\ DeleteAsked
  /\ tags' = {x \in tags : x[1] # repo \/ x[2] # t}
  /\ tagLost' = TRUE
  /\ req' = [req EXCEPT ![p] = [IdleReq EXCEPT !.at = "publishTagDelete", !.tag = t]]
  /\ UNCHANGED <<repo, lastId, rows, tomb, withdrawn, excluded, mirrorTables, work,
                 pull, net, exposed, unsent, ever, deleted, evicted>>

PublishTagDelete(p) ==
  /\ req[p].at = "publishTagDelete"
  /\ Publish("Delete", NoDigest, req[p].tag)
  /\ Done(p)
  /\ UNCHANGED <<ownerTables, excluded, mirrorTables, work, pull, ever, deleted,
                 evicted>>

\* adminDeleteRepo: GetRepository, and the owner check.
DeleteRepoBegin(p) ==
  /\ req[p].at = "idle" /\ repo # 0 /\ DeleteAsked
  /\ req' = [req EXCEPT ![p] = [IdleReq EXCEPT !.at = "deleteRepo", !.repo = repo]]
  /\ UNCHANGED <<ownerTables, excluded, mirrorTables, work, pull, outgoing, ever,
                 deleted, evicted>>

\* DeleteOwnedRepositoryWithBlobs, one transaction: not found, busy with an
\* upload session, or tombstones for all manifests and all rows gone.
DeleteOwnedRepository(p) ==
  /\ req[p].at = "deleteRepo"
  /\ \/ Done(p) /\ UNCHANGED <<repo, rows, tags, tomb, deleted, tagLost>>
     \/ /\ repo = req[p].repo
        /\ req' = [req EXCEPT ![p] = [@ EXCEPT !.at = "withdraw",
                                               !.tags = {x[2] : x \in tags},
                                               !.digests = Stored]]
        /\ tomb' = tomb \union Stored
        /\ repo' = 0
        /\ rows' = {x \in rows : x[1] # repo}
        /\ tags' = {x \in tags : x[1] # repo}
        /\ deleted' = deleted \union Stored
        /\ tagLost' = (tagLost \/ tags # {})
  /\ UNCHANGED <<lastId, withdrawn, excluded, mirrorTables, work, pull, net, exposed,
                 unsent, ever, evicted, left>>
-----------------------------------------------------------------------------
\* Mutant: the manifests are left out of the withdrawal.
WithdrawTagsOnly(p) ==
  /\ req[p].at = "withdraw"
  /\ IF req[p].tags # {}
       THEN \E t \in req[p].tags :
              /\ Publish("Delete", NoDigest, t)
              /\ req' = [req EXCEPT ![p].tags = @ \ {t}]
       ELSE /\ UNCHANGED <<outgoing, left>>
            /\ IF p = "sweep" THEN Step(p, "mark") ELSE Done(p)
  /\ UNCHANGED <<ownerTables, excluded, mirrorTables, work, pull, ever, deleted,
                 evicted>>

\* WithdrawRepo: first the tags, then the manifests, each a publication.
WithdrawRepo(p) ==
  /\ req[p].at = "withdraw"
  /\ \/ \E t \in req[p].tags :
          /\ Publish("Delete", NoDigest, t)
          /\ req' = [req EXCEPT ![p].tags = @ \ {t}]
     \/ /\ req[p].tags = {}
        /\ \E d \in req[p].digests :
             /\ Publish("Delete", d, NoTag)
             /\ req' = [req EXCEPT ![p].digests = @ \ {d}]
     \/ /\ req[p].tags = {} /\ req[p].digests = {}
        /\ IF p = "sweep" THEN Step(p, "mark") ELSE Done(p)
        /\ UNCHANGED <<outgoing, left>>
  /\ UNCHANGED <<ownerTables, excluded, mirrorTables, work, pull, ever, deleted,
                 evicted>>

\* Storing the activity fails: the rest is not published.  The sweep leaves the
\* repository unmarked, a repository delete only logs it.
WithdrawFails(p) ==
  /\ req[p].at = "withdraw" /\ Event
  /\ unsent' = IF p = "sweep" THEN unsent ELSE unsent \union req[p].digests
  /\ tagLost' = (tagLost \/ req[p].tags # {})
  /\ Done(p)
  /\ UNCHANGED <<ownerTables, excluded, mirrorTables, work, pull, net, exposed, ever,
                 deleted, evicted>>

\* runFederationWithdrawalSweep: the pending repository and its tags, ...
SweepList ==
  /\ req["sweep"].at = "list"
  /\ IF repo # 0 /\ ~withdrawn
       THEN req' = [req EXCEPT !["sweep"] = [@ EXCEPT !.at = "listVersions",
                      !.repo = repo, !.tags = {x[2] : x \in tags}]]
       ELSE Done("sweep")
  /\ UNCHANGED <<ownerTables, excluded, mirrorTables, work, pull, outgoing, ever,
                 deleted, evicted, left>>

\* ... its manifests, ...
SweepListVersions ==
  /\ req["sweep"].at = "listVersions"
  /\ req' = [req EXCEPT !["sweep"] = [@ EXCEPT !.at = "withdraw",
                !.digests = {d \in Digests : <<req["sweep"].repo, d>> \in rows}]]
  /\ UNCHANGED <<ownerTables, excluded, mirrorTables, work, pull, outgoing, ever,
                 deleted, evicted, left>>

\* ... and MarkPackageWithdrawn after WithdrawRepo.
SweepMark ==
  /\ req["sweep"].at = "mark"
  /\ withdrawn' = (withdrawn \/ repo = req["sweep"].repo)
  /\ Done("sweep")
  /\ UNCHANGED <<repo, lastId, rows, tags, tomb, excluded, mirrorTables, work, pull,
                 outgoing, ever, deleted, evicted, left>>

\* The owner crashes, and comes back with the repository excluded or not.
Restart ==
  /\ Event
  /\ \E x \in {excluded, TRUE} :
       /\ excluded' = x
       /\ req' = [p \in Procs |-> IF p = "sweep" /\ x
                                     THEN [IdleReq EXCEPT !.at = "list"] ELSE IdleReq]
  /\ LET cut == {p \in Requests : req[p].at \notin {"idle", "putManifest", "deleteRepo"}} IN
       /\ unsent' = unsent \union (({req[p].digest : p \in cut} \ {NoDigest})
                                   \union UNION {req[p].digests : p \in cut})
       /\ tagLost' = (tagLost \/ \E p \in cut : req[p].tag # NoTag \/ req[p].tags # {})
  /\ UNCHANGED <<ownerTables, mirrorTables, work, pull, net, exposed, ever, deleted,
                 evicted>>
-----------------------------------------------------------------------------
Task(w, at)  == work' = [work EXCEPT ![w].at = at]
TaskDone(w)  == work' = [work EXCEPT ![w] = IdleTask]

\* processCreate, processUpdate and processDelete of a followed sender, up to
\* and including the handler's first look at the repository: requireRepoOwner,
\* or GetRepository and IsRepositoryOwner of ingestManifest.
FirstStep(a) ==
  IF mrepo.id = 0
    THEN IF a.type = "Create" THEN "getOrCreate" ELSE "idle"
    ELSE IF mrepo.owner # a.actor THEN "idle"
    ELSE CASE a.type = "Create"                         -> "putManifest"
           [] a.type = "Update"                         -> "getManifest"
           [] a.type = "Delete" /\ a.digest # NoDigest  -> "deleteManifest"
           [] OTHER                                     -> "deleteTag"

Take(w) ==
  /\ work[w].at = "idle"
  /\ \E a \in BagToSet(net) :
       /\ net' = net (-) SetToBag({a})
       /\ work' = IF FirstStep(a) = "idle" THEN work
                  ELSE [work EXCEPT ![w] =
                          [at |-> FirstStep(a), type |-> a.type, digest |-> a.digest,
                           tag |-> a.tag, actor |-> a.actor, repo |-> mrepo.id]]
  /\ UNCHANGED <<ownerTables, excluded, req, mirrorTables, pull, exposed, unsent,
                 tagLost, ever, deleted, evicted, left>>

\* Mutant: GetOrCreatePackage returns the row it finds, whoever owns it.
GetOrCreateUnchecked(w) ==
  /\ work[w].at = "getOrCreate"
  /\ IF mrepo.id = 0
       THEN /\ mrepo' = [id |-> mlastId + 1, owner |-> work[w].actor]
            /\ mlastId' = mlastId + 1
       ELSE UNCHANGED <<mrepo, mlastId>>
  /\ work' = [work EXCEPT ![w].at = "putManifest", ![w].repo = mrepo'.id]
  /\ UNCHANGED <<ownerTables, excluded, req, mrows, mtags, mtomb, pull, outgoing, ever,
                 deleted, evicted, left>>

\* GetOrCreatePackage: ErrPackageOwnerMismatch if another sender was faster.
GetOrCreateRepository(w) ==
  /\ work[w].at = "getOrCreate"
  /\ IF mrepo.id = 0
       THEN /\ mrepo' = [id |-> mlastId + 1, owner |-> work[w].actor]
            /\ mlastId' = mlastId + 1
       ELSE UNCHANGED <<mrepo, mlastId>>
  /\ IF mrepo'.owner = work[w].actor
       THEN work' = [work EXCEPT ![w].at = "putManifest", ![w].repo = mrepo'.id]
       ELSE TaskDone(w)
  /\ UNCHANGED <<ownerTables, excluded, req, mrows, mtags, mtomb, pull, outgoing, ever,
                 deleted, evicted, left>>

\* The table after an upsert of putPackageVersion.
RowPut(id, d, source) ==
  {x \in mrows : x.repo # id \/ x.digest # d}
    \union {[repo |-> id, digest |-> d, source |-> source]}

\* Mutant: the tag of a Create is left to the Update that follows it.
IngestManifestUntagged(w) ==
  /\ work[w].at = "putManifest"
  /\ mrows' = RowPut(work[w].repo, work[w].digest, work[w].actor)
  /\ TaskDone(w)
  /\ UNCHANGED <<ownerTables, excluded, req, mrepo, mlastId, mtags, mtomb, pull,
                 outgoing, ever, deleted, evicted, left>>

\* ingestManifest: PutManifest, which looks at neither packages nor tombstones.
IngestManifest(w) ==
  /\ work[w].at = "putManifest"
  /\ mrows' = RowPut(work[w].repo, work[w].digest, work[w].actor)
  /\ IF work[w].tag # NoTag THEN Task(w, "putTag") ELSE TaskDone(w)
  /\ UNCHANGED <<ownerTables, excluded, req, mrepo, mlastId, mtags, mtomb, pull,
                 outgoing, ever, deleted, evicted, left>>

\* PutTag on the mirror, for a Create that carries a tag and for an Update.
IngestPutTag(w) ==
  /\ work[w].at = "putTag"
  /\ mtags' = IF work[w].repo = mrepo.id
                THEN TagPut(mtags, mrepo.id, work[w].tag, work[w].digest) ELSE mtags
  /\ TaskDone(w)
  /\ UNCHANGED <<ownerTables, excluded, req, mrepo, mlastId, mrows, mtomb, pull,
                 outgoing, ever, deleted, evicted, left>>

\* ingestTag: an Update whose manifest is not there is refused for good.
IngestTag(w) ==
  /\ work[w].at = "getManifest"
  /\ IF \E x \in mrows : x.repo = work[w].repo /\ x.digest = work[w].digest
       THEN Task(w, "putTag") ELSE TaskDone(w)
  /\ UNCHANGED <<ownerTables, excluded, req, mirrorTables, pull, outgoing, ever,
                 deleted, evicted, left>>

\* deleteManifest of the inbox: the row and its tags first, ...
InboxDeleteManifest(w) ==
  /\ work[w].at = "deleteManifest"
  /\ LET here == {x \in mrows : x.repo = work[w].repo /\ x.digest = work[w].digest} IN
       /\ mrows' = mrows \ here
       /\ mtags' = IF here # {} THEN TagsKept(mtags, work[w].repo, work[w].digest) ELSE mtags
  /\ Task(w, "recordTombstone")
  /\ UNCHANGED <<ownerTables, excluded, req, mrepo, mlastId, mtomb, pull, outgoing,
                 ever, deleted, evicted, left>>

\* ... then the tombstone.
InboxRecordDeleted(w) ==
  /\ work[w].at = "recordTombstone"
  /\ mtomb' = mtomb \union {work[w].digest}
  /\ TaskDone(w)
  /\ UNCHANGED <<ownerTables, excluded, req, mrepo, mlastId, mrows, mtags, pull,
                 outgoing, ever, deleted, evicted, left>>

InboxDeleteTag(w) ==
  /\ work[w].at = "deleteTag"
  /\ mtags' = {x \in mtags : x[1] # work[w].repo \/ x[2] # work[w].tag}
  /\ TaskDone(w)
  /\ UNCHANGED <<ownerTables, excluded, req, mrepo, mlastId, mrows, mtomb, pull,
                 outgoing, ever, deleted, evicted, left>>
-----------------------------------------------------------------------------
\* getManifest on the mirror: the repository is there, the manifest is not.
PullBegin(d) ==
  /\ pull.at = "idle" /\ Event
  /\ mrepo.id # 0
  /\ ~\E x \in mrows : x.repo = mrepo.id /\ x.digest = d
  /\ pull' = [at |-> "fetch", digest |-> d, repo |-> mrepo.id, source |-> mrepo.owner]
  /\ UNCHANGED <<ownerTables, excluded, req, mirrorTables, work, outgoing, ever,
                 deleted, evicted>>

\* FetchManifest from the repository's owner; what the rival serves is any digest.
FetchManifest ==
  /\ pull.at = "fetch"
  /\ \/ pull' = IdlePull
     \/ /\ pull.source = Owner => pull.digest \in Stored
        /\ pull' = [pull EXCEPT !.at = "store"]
  /\ UNCHANGED <<ownerTables, excluded, req, mirrorTables, work, outgoing, ever,
                 deleted, evicted, left>>

\* PutManifestWithLayers on the mirror: no tombstone is looked at.
StoreFetched ==
  /\ pull.at = "store"
  /\ mrows' = IF pull.repo = mrepo.id THEN RowPut(mrepo.id, pull.digest, pull.source)
              ELSE mrows
  /\ pull' = IdlePull
  /\ UNCHANGED <<ownerTables, excluded, req, mrepo, mlastId, mtags, mtomb, work,
                 outgoing, ever, deleted, evicted, left>>

\* adminEvictMirror, of one manifest or of the repository.
EvictManifest(d) ==
  /\ mrepo.id # 0 /\ Event
  /\ \E x \in mrows : x.repo = mrepo.id /\ x.digest = d
  /\ mrows' = {x \in mrows : x.repo # mrepo.id \/ x.digest # d}
  /\ mtags' = TagsKept(mtags, mrepo.id, d)
  /\ evicted' = TRUE
  /\ UNCHANGED <<ownerTables, excluded, req, mrepo, mlastId, mtomb, work, pull, outgoing,
                 ever, deleted>>

EvictRepo ==
  /\ mrepo.id # 0 /\ Event
  /\ mrows' = {x \in mrows : x.repo # mrepo.id}
  /\ mtags' = {x \in mtags : x[1] # mrepo.id}
  /\ mrepo' = NoRepo
  /\ evicted' = TRUE
  /\ UNCHANGED <<ownerTables, excluded, req, mlastId, mtomb, work, pull, outgoing, ever,
                 deleted>>
-----------------------------------------------------------------------------
PushStep(p) ==
  \/ PutManifestWithLayers(p) \/ PutTag(p) \/ PublishManifest(p) \/ PublishTag(p)

DeleteStep(p) ==
  \/ RecordDeletedManifest(p) \/ DeleteManifest(p) \/ PublishManifestDelete(p)
  \/ PublishTagDelete(p) \/ DeleteOwnedRepository(p)

Sweep == SweepList \/ SweepListVersions \/ SweepMark

InboxTask(w) ==
  \/ Take(w) \/ GetOrCreateRepository(w) \/ IngestManifest(w) \/ IngestPutTag(w)
  \/ IngestTag(w) \/ InboxDeleteManifest(w) \/ InboxRecordDeleted(w) \/ InboxDeleteTag(w)

Next ==
  \/ \E p \in Requests, d \in Digests, t \in AnyTag : PushBegin(p, d, t)
  \/ \E p \in Requests, d \in Digests : DeleteManifestBegin(p, d)
  \/ \E p \in Requests, t \in Tags : DeleteTag(p, t)
  \/ \E p \in Requests : DeleteRepoBegin(p) \/ PushStep(p) \/ DeleteStep(p)
  \/ \E p \in Procs : WithdrawRepo(p) \/ WithdrawFails(p)
  \/ Sweep \/ Restart
  \/ \E w \in Workers : InboxTask(w)
  \/ \E d \in Digests : PullBegin(d) \/ EvictManifest(d)
  \/ FetchManifest \/ StoreFetched \/ EvictRepo

Spec == Init /\ [][Next]_vars
-----------------------------------------------------------------------------
(***************************************************************************)
(* A push that overlaps a repository delete leaves nothing behind: the     *)
(* owner has no manifest and no tag of a repository that is gone, which    *)
(* the parent-exists checks of PutManifestWithLayers and PutPackageTag     *)
(* are for.                                                                *)
(***************************************************************************)
NoOrphans ==
  /\ \A x \in rows : x[1] = repo
  /\ \A x \in tags : x[1] = repo

(***************************************************************************)
(* A manifest the owner once stored and no longer has is answered with 410 *)
(* Gone: wherever a delete was cut short, it has its tombstone.            *)
(***************************************************************************)
GoneIsTombstoned == ever \ Stored \subseteq tomb

(***************************************************************************)
(* Whoever announces a repository first owns its copy: no manifest the     *)
(* mirror serves comes from another sender, even when the two senders'     *)
(* first announcements are ingested at the same time, the copy is evicted  *)
(* and announced again, or a pull is under way.                            *)
(***************************************************************************)
SourceIsOwner ==
  \A x \in mrows : x.repo = mrepo.id => x.source = mrepo.owner

Quiet ==
  /\ net = EmptyBag
  /\ \A p \in Procs : req[p].at = "idle"
  /\ \A w \in Workers : work[w].at = "idle"
  /\ pull.at = "idle"

(***************************************************************************)
(* Once everything has arrived the copy is complete, in whatever order the *)
(* activities were ingested: the mirror has every manifest of the owner    *)
(* that was announced and never deleted, and if no tag was deleted or its  *)
(* publication lost, each tag of the owner resolves at the mirror.  A      *)
(* mirror that evicted something, or knows the name from the rival, and an *)
(* excluded repository are exempt.                                         *)
(***************************************************************************)
MirrorComplete ==
  Quiet /\ ~evicted /\ ~excluded /\ ~(mrepo.id # 0 /\ mrepo.owner = Rival) =>
    /\ \A d \in Stored \ (unsent \union deleted) :
         \E x \in mrows : x.repo = mrepo.id /\ x.digest = d
    /\ ~tagLost /\ deleted = {} =>
         \A x \in tags : \E y \in mtags :
           y[1] = mrepo.id /\ y[2] = x[2]
           /\ \E z \in mrows : z.repo = mrepo.id /\ z.digest = y[3]

(***************************************************************************)
(* A repository marked withdrawn has been retracted: of every manifest it  *)
(* holds the last thing sent to the followers is its Delete, however the   *)
(* sweep was interrupted and whatever was pushed meanwhile.  Exempt are    *)
(* manifests a publication of which was lost, and those deleted while a    *)
(* push of them was under way.                                             *)
(***************************************************************************)
WithdrawnIsRetracted ==
  withdrawn /\ repo # 0 => Stored \intersect exposed \subseteq unsent \union deleted
=============================================================================
