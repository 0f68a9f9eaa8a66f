---------------------------- MODULE BlobLifecycle ----------------------------
(***************************************************************************)
(* The blobs of one node: rows of the blobs table (internal/database/      *)
(* blobs.go), files of the blob store (internal/blobstore/store.go), and   *)
(* the manifests whose package_files rows refer to them.  Image pushes     *)
(* (internal/oci/handler.go), copies from peers (internal/peering/         *)
(* replicator.go), deletions by the operator (internal/server/admin.go)    *)
(* and the sweeps of the garbage collector (internal/peering/gc.go) all    *)
(* work on them at the same time.                                          *)
(*                                                                         *)
(* Each statement and each file operation is a step.  Of time only the     *)
(* grace period (blobGCGracePeriod) matters: a row or a file is young or   *)
(* older than that.  An image is pushed within the grace period.           *)
(***************************************************************************)
EXTENDS Naturals, FiniteSets

CONSTANTS
  Digests, Images,
  Layers,      \* the digests an image's manifest refers to
  Clients,     \* pushes going on at the same time
  NoDigest,
  Reuse,       \* clients mount blobs the node already has
  MaxPushes,   \* bound: pushes in a behaviour
  MaxEvents    \* bound: deletions, announcements, copies, failures and crashes

ASSUME BlobAssumption ==
  /\ Layers \in [Images -> SUBSET Digests]
  /\ NoDigest \notin Digests
  /\ Reuse \in BOOLEAN

VARIABLES
  \* the database
  row,        \* of a digest: "none", "remote" or "local" (stored_locally)
  rowOld,     \* created_at is before the grace period
  peer,       \* digests with a row in peer_blobs
  refs,       \* images whose manifest and references are stored
  \* the blob store
  file,       \* "none", "young" or "old"
  \* a push: pushBlob or a chunked upload per layer, then pushManifest
  img,        \* the image each client pushes; {} when idle, else a singleton
  written,    \* layers whose file is there and whose row is to follow
  have,       \* layers uploaded or mounted
  mounted,    \* those it mounted
  unchecked,  \* layers pushManifest has yet to look up
  \* a copy from a peer: Idle or the digest and its next step
  copy,
  \* an operator's deletion: files it still has to remove
  purging,
  \* the collector
  phase,      \* "idle", "orphans", "files", "known", "sweep", "drift"
  list,       \* digests it still has to look at
  snapshot,   \* rows with stored_locally, as listed for "drift"
  oldFiles,   \* files from before the cutoff computed for "sweep"
  cur, step,  \* the digest it works on and the next step
  \* history
  pushed,     \* images a push has stored and nobody has deleted since
  damaged,    \* digests lost, deleted as blobs, or removed while being stored
  pushes, events

db      == <<row, rowOld, peer, refs>>
clients == <<img, written, have, mounted, unchecked>>
gc      == <<phase, list, snapshot, oldFiles, cur, step>>
history == <<pushed, damaged, pushes, events>>
vars    == <<db, file, clients, copy, purging, gc, history>>

Idle == <<NoDigest, "idle">>

GCSteps == {"none", "size", "repair", "stat", "delete", "recheck", "hasPeer",
            "degrade", "promote"}

\* The shape of the state, as the tables and the goroutines have it.
TypeOK ==
  /\ row \in [Digests -> {"none", "remote", "local"}]
  /\ rowOld \in [Digests -> BOOLEAN]
  /\ \A d \in Digests : rowOld[d] => row[d] # "none"
  /\ peer \in SUBSET Digests
  /\ refs \in SUBSET Images
  /\ file \in [Digests -> {"none", "young", "old"}]
  /\ img \in [Clients -> SUBSET Images]
  /\ written \in [Clients -> SUBSET Digests]
  /\ have \in [Clients -> SUBSET Digests]
  /\ mounted \in [Clients -> SUBSET Digests]
  /\ unchecked \in [Clients -> SUBSET Digests]
  /\ copy \in {Idle} \union (Digests \X {"ref", "exists", "find", "put", "record"})
  /\ purging \in SUBSET Digests
  /\ phase \in {"idle", "orphans", "files", "known", "sweep", "drift"}
  /\ list \in SUBSET Digests
  /\ snapshot \in SUBSET Digests
  /\ oldFiles \in SUBSET Digests
  /\ cur \in Digests \union {NoDigest}
  /\ step \in GCSteps
  /\ pushed \in SUBSET Images
  /\ damaged \in SUBSET Digests
  /\ pushes \in Nat /\ events \in Nat

Init ==
  /\ row = [d \in Digests |-> "none"]
  /\ rowOld = [d \in Digests |-> FALSE]
  /\ peer = {}
  /\ refs = {}
  /\ file = [d \in Digests |-> "none"]
  /\ img = [p \in Clients |-> {}]
  /\ written = [p \in Clients |-> {}]
  /\ have = [p \in Clients |-> {}]
  /\ mounted = [p \in Clients |-> {}]
  /\ unchecked = [p \in Clients |-> {}]
  /\ copy = Idle
  /\ purging = {}
  /\ phase = "idle" /\ list = {} /\ snapshot = {} /\ oldFiles = {}
  /\ cur = NoDigest /\ step = "none"
  /\ pushed = {} /\ damaged = {}
  /\ pushes = 0 /\ events = 0
-----------------------------------------------------------------------------
Event == events < MaxEvents /\ events' = events + 1

Referenced(d) == \E m \in refs : d \in Layers[m]

\* Files somebody has decided to remove and not removed yet.
Doomed == purging \union (IF step = "delete" THEN {cur} ELSE {})

\* blobstore Put: a temporary file renamed into place, with a new mtime.
PutFile(d) ==
  /\ file' = [file EXCEPT ![d] = "young"]
  /\ oldFiles' = oldFiles \ {d}
  /\ damaged' = IF d \in Doomed THEN damaged \union {d} ELSE damaged

\* blobstore Delete
RemoveFile(d) == file' = [file EXCEPT ![d] = "none"]

\* PutBlob: an upsert that keeps created_at and never clears stored_locally.
PutBlob(d, stored) ==
  /\ row' = [row EXCEPT ![d] = IF stored \/ @ = "local" THEN "local" ELSE "remote"]
  /\ rowOld' = [rowOld EXCEPT ![d] = row[d] # "none" /\ @]

DeleteRows(S) ==
  /\ row' = [d \in Digests |-> IF d \in S THEN "none" ELSE row[d]]
  /\ rowOld' = [d \in Digests |-> d \notin S /\ rowOld[d]]

\* UPDATE blobs SET stored_locally: nothing without a row.
SetBlobStoredLocally(d, stored) ==
  row' = [row EXCEPT ![d] = IF @ = "none" THEN "none"
                            ELSE IF stored THEN "local" ELSE "remote"]
-----------------------------------------------------------------------------
(***************************************************************************)
(* A push.  Layers are uploaded (or mounted) one by one, then pushManifest *)
(* looks each of them up and stores manifest and references in one         *)
(* transaction.  A client may go away at any time.                         *)
(***************************************************************************)
Reset(p) ==
  /\ img' = [img EXCEPT ![p] = {}]
  /\ written' = [written EXCEPT ![p] = {}]
  /\ have' = [have EXCEPT ![p] = {}]
  /\ mounted' = [mounted EXCEPT ![p] = {}]
  /\ unchecked' = [unchecked EXCEPT ![p] = {}]

BeginPush(p, m) ==
  /\ img[p] = {} /\ pushes < MaxPushes /\ pushes' = pushes + 1
  /\ img' = [img EXCEPT ![p] = {m}]
  /\ unchecked' = [unchecked EXCEPT ![p] = Layers[m]]
  /\ UNCHANGED <<db, file, written, have, mounted, copy, purging, gc, pushed, damaged, events>>

Missing(p) == (UNION {Layers[m] : m \in img[p]}) \ (written[p] \union have[p])

UploadLayer(p, d) ==
  /\ d \in Missing(p)
  /\ PutFile(d)
  /\ written' = [written EXCEPT ![p] = @ \union {d}]
  /\ UNCHANGED <<db, img, have, mounted, unchecked, copy, purging,
                 phase, list, snapshot, cur, step, pushed, pushes, events>>

RecordLayer(p, d) ==
  /\ d \in written[p]
  /\ PutBlob(d, TRUE)
  /\ written' = [written EXCEPT ![p] = @ \ {d}]
  /\ have' = [have EXCEPT ![p] = @ \union {d}]
  /\ UNCHANGED <<peer, refs, file, img, mounted, unchecked, copy, purging, gc, history>>

MountBlob(p, d) ==
  /\ Reuse /\ d \in Missing(p) /\ row[d] = "local"
  /\ have' = [have EXCEPT ![p] = @ \union {d}]
  /\ mounted' = [mounted EXCEPT ![p] = @ \union {d}]
  /\ UNCHANGED <<db, file, img, written, unchecked, copy, purging, gc, history>>

Uploaded(p) == img[p] # {} /\ Missing(p) = {} /\ written[p] = {}

CheckLayer(p, d) ==
  /\ Uploaded(p) /\ d \in unchecked[p]
  /\ \/ /\ row[d] = "local"
        /\ unchecked' = [unchecked EXCEPT ![p] = @ \ {d}]
        /\ UNCHANGED <<img, written, have, mounted>>
     \/ row[d] # "local" /\ Reset(p)
  /\ UNCHANGED <<db, file, copy, purging, gc, history>>

PutManifestWithLayers(p) ==
  /\ Uploaded(p) /\ unchecked[p] = {}
  /\ refs' = refs \union img[p]
  /\ pushed' = pushed \union img[p]
  /\ Reset(p)
  /\ UNCHANGED <<row, rowOld, peer, file, copy, purging, gc, damaged, pushes, events>>

Abandon(p) ==
  /\ img[p] # {}
  /\ Reset(p)
  /\ UNCHANGED <<db, file, copy, purging, gc, history>>
-----------------------------------------------------------------------------
(***************************************************************************)
(* Federation: a peer announces a blob, a peer's manifest is ingested, and *)
(* a blob that some manifest refers to is copied from the peer, by the     *)
(* replicator or on a pull.                                                *)
(***************************************************************************)
IngestBlobRef(d) ==
  /\ copy = Idle /\ Event
  /\ peer' = peer \union {d}
  /\ copy' = <<d, "ref">>
  /\ UNCHANGED <<row, rowOld, refs, file, clients, purging, gc, pushed, damaged, pushes>>

RecordRef(d) ==
  /\ copy = <<d, "ref">>
  /\ PutBlob(d, FALSE)
  /\ copy' = <<d, "exists">>
  /\ UNCHANGED <<peer, refs, file, clients, purging, gc, history>>

IngestManifest(m) ==
  /\ Event /\ m \notin refs
  /\ refs' = refs \union {m}
  /\ UNCHANGED <<row, rowOld, peer, file, clients, copy, purging, gc, pushed, damaged, pushes>>

\* A layer of an ingested manifest, or a pull of a blob that is not here.
BeginCopy(d) ==
  /\ copy = Idle /\ Event
  /\ d \in peer /\ row[d] # "none" /\ Referenced(d)
  /\ copy' = <<d, "exists">>
  /\ UNCHANGED <<db, file, clients, purging, gc, pushed, damaged, pushes>>

\* Only a missing file is fetched, and only under a repository that refers to it.
ReplicateBlob(d) ==
  /\ \/ /\ copy = <<d, "exists">>
        /\ copy' = IF file[d] # "none" THEN Idle ELSE <<d, "find">>
     \/ /\ copy = <<d, "find">>
        /\ copy' = IF Referenced(d) /\ row[d] # "none" THEN <<d, "put">> ELSE Idle
  /\ UNCHANGED <<db, file, clients, purging, gc, history>>

\* The fetch and the Put may fail, and so may the statement that records it.
CopyFile(d) ==
  /\ copy = <<d, "put">>
  /\ \/ PutFile(d) /\ copy' = <<d, "record">>
     \/ copy' = Idle /\ UNCHANGED <<file, oldFiles, damaged>>
  /\ UNCHANGED <<db, clients, purging, phase, list, snapshot, cur, step, pushed, pushes, events>>

RecordCopy(d) ==
  /\ copy = <<d, "record">>
  /\ copy' = Idle
  /\ PutBlob(d, TRUE) \/ UNCHANGED <<row, rowOld>>
  /\ UNCHANGED <<peer, refs, file, clients, purging, gc, history>>

Copy(d) == RecordRef(d) \/ ReplicateBlob(d) \/ CopyFile(d) \/ RecordCopy(d)
-----------------------------------------------------------------------------
(***************************************************************************)
(* Deletions.  deleteManifest, retention and PruneUntaggedManifests leave  *)
(* the blobs to the collector.  Deleting or evicting a repository purges   *)
(* the blob rows left without reference in the same transaction and then   *)
(* removes their files; deleteBlob removes row and file of any blob.       *)
(***************************************************************************)
DeleteManifest(m) ==
  /\ Event /\ m \in refs
  /\ refs' = refs \ {m}
  /\ pushed' = pushed \ {m}
  /\ UNCHANGED <<row, rowOld, peer, file, clients, copy, purging, gc, damaged, pushes>>

\* Digests a push or copy in progress counts on.
InUse == UNION {written[p] \union have[p] : p \in Clients}
           \union {d \in Digests : copy = <<d, "record">>}

DeleteWithBlobs(m) ==
  LET purged == {d \in Layers[m] : row[d] # "none" /\ ~\E n \in refs \ {m} : d \in Layers[n]} IN
  /\ Event /\ m \in refs /\ purging = {}
  /\ refs' = refs \ {m}
  /\ pushed' = pushed \ {m}
  /\ DeleteRows(purged)
  /\ purging' = purged
  /\ damaged' = damaged \union (purged \intersect InUse)
  /\ UNCHANGED <<peer, file, clients, copy, gc, pushes>>

DeleteBlob(d) ==
  /\ Event /\ purging = {}
  /\ DeleteRows({d})
  /\ purging' = {d}
  /\ damaged' = damaged \union {d}
  /\ UNCHANGED <<peer, refs, file, clients, copy, gc, pushed, pushes>>

\* A file that cannot be removed is only logged.
PurgeFile(d) ==
  /\ d \in purging
  /\ RemoveFile(d) \/ UNCHANGED file
  /\ purging' = purging \ {d}
  /\ UNCHANGED <<db, clients, copy, gc, history>>

\* A file is lost: the drift the collector reconciles.
LoseFile(d) ==
  /\ Event /\ file[d] # "none"
  /\ RemoveFile(d)
  /\ damaged' = damaged \union {d}
  /\ UNCHANGED <<db, clients, copy, purging, gc, pushed, pushes>>
-----------------------------------------------------------------------------
(***************************************************************************)
(* The collector's cycle; collect holds a lock, so there is one at a time. *)
(***************************************************************************)
\* CleanupStalePeerBlobs, with retention and pruning as DeleteManifest above.
BeginCycle ==
  /\ phase = "idle"
  /\ phase' = "orphans"
  /\ \E S \in SUBSET peer : peer' = peer \ S
  /\ UNCHANGED <<row, rowOld, refs, file, clients, copy, purging,
                 list, snapshot, oldFiles, cur, step, history>>

\* Mutant: a peer's copy also pins local bytes.
OrphanedBlobsPinned ==
  {d \in Digests : row[d] # "none" /\ ~Referenced(d) /\ d \notin peer /\ rowOld[d]}

OrphanedBlobs ==
  {d \in Digests :
     /\ row[d] # "none" /\ ~Referenced(d)
     /\ row[d] = "local" \/ d \notin peer
     /\ rowOld[d]}

\* cleanupOrphanedBlobMetadata: list, then delete one by one without a second look.
ListOrphans ==
  /\ phase = "orphans"
  /\ phase' = "files"
  /\ list' = OrphanedBlobs
  /\ UNCHANGED <<db, file, clients, copy, purging, snapshot, oldFiles, cur, step, history>>

DeleteOrphan(d) ==
  /\ phase = "files" /\ d \in list
  /\ DeleteRows({d})
  /\ list' = list \ {d}
  /\ UNCHANGED <<peer, refs, file, clients, copy, purging,
                 phase, snapshot, oldFiles, cur, step, history>>

\* cleanupOrphanedBlobFiles: the files, then the known rows and the cutoff.
ListDigests ==
  /\ phase = "files" /\ list = {}
  /\ phase' = "known"
  /\ list' = {d \in Digests : file[d] # "none"}
  /\ UNCHANGED <<db, file, clients, copy, purging, snapshot, oldFiles, cur, step, history>>

AllBlobDigests ==
  /\ phase = "known"
  /\ phase' = "sweep"
  /\ list' = {d \in list : row[d] = "none"}
  /\ oldFiles' = {d \in Digests : file[d] = "old"}
  /\ UNCHANGED <<db, file, clients, copy, purging, snapshot, cur, step, history>>

\* Mutant: no second look at the references before a file is removed.
IsBlobReferencedSkipped(d) ==
  /\ phase = "sweep" /\ step = "none" /\ d \in list
  /\ cur' = d /\ list' = list \ {d}
  /\ step' = "stat"
  /\ UNCHANGED <<db, file, clients, copy, purging, phase, snapshot, oldFiles, history>>

IsBlobReferenced(d) ==
  /\ phase = "sweep" /\ step = "none" /\ d \in list
  /\ cur' = d /\ list' = list \ {d}
  /\ step' = IF Referenced(d) THEN "size" ELSE "stat"
  /\ UNCHANGED <<db, file, clients, copy, purging, phase, snapshot, oldFiles, history>>

Done == step' = "none" /\ cur' = NoDigest

SizeForRepair ==
  /\ step = "size"
  /\ \/ file[cur] # "none" /\ step' = "repair" /\ UNCHANGED cur
     \/ file[cur] = "none" /\ Done
  /\ UNCHANGED <<db, file, clients, copy, purging, phase, list, snapshot, oldFiles, history>>

\* Mutant: the missing row is not written.
RepairNothing ==
  /\ step = "repair"
  /\ Done
  /\ UNCHANGED <<db, file, clients, copy, purging, phase, list, snapshot, oldFiles, history>>

RepairRow ==
  /\ step = "repair"
  /\ PutBlob(cur, TRUE)
  /\ Done
  /\ UNCHANGED <<peer, refs, file, clients, copy, purging, phase, list, snapshot, oldFiles, history>>

\* Modified after the cutoff, or gone: left alone.
StatFile ==
  /\ step = "stat"
  /\ \/ cur \in oldFiles /\ file[cur] # "none" /\ step' = "delete" /\ UNCHANGED cur
     \/ (cur \notin oldFiles \/ file[cur] = "none") /\ Done
  /\ UNCHANGED <<db, file, clients, copy, purging, phase, list, snapshot, oldFiles, history>>

DeleteFile ==
  /\ step = "delete"
  /\ RemoveFile(cur)
  /\ Done
  /\ UNCHANGED <<db, clients, copy, purging, phase, list, snapshot, oldFiles, history>>

\* reconcileBlobStorageDrift
ListBlobsForReconcile ==
  /\ phase = "sweep" /\ step = "none" /\ list = {}
  /\ phase' = "drift"
  /\ list' = {d \in Digests : row[d] # "none"}
  /\ snapshot' = {d \in Digests : row[d] = "local"}
  /\ UNCHANGED <<db, file, clients, copy, purging, oldFiles, cur, step, history>>

Exists(d) ==
  /\ phase = "drift" /\ step = "none" /\ d \in list
  /\ list' = list \ {d}
  /\ \/ d \in snapshot /\ file[d] = "none" /\ cur' = d /\ step' = "recheck"
     \/ d \notin snapshot /\ file[d] # "none" /\ cur' = d /\ step' = "promote"
     \/ (d \in snapshot <=> file[d] # "none") /\ UNCHANGED <<cur, step>>
  /\ UNCHANGED <<db, file, clients, copy, purging, phase, snapshot, oldFiles, history>>

Recheck ==
  /\ step = "recheck"
  /\ IF file[cur] # "none" THEN Done ELSE step' = "hasPeer" /\ UNCHANGED cur
  /\ UNCHANGED <<db, file, clients, copy, purging, phase, list, snapshot, oldFiles, history>>

\* Without a peer the blob is reported as unrecoverable.
HasPeerBlob ==
  /\ step = "hasPeer"
  /\ IF cur \in peer THEN step' = "degrade" /\ UNCHANGED cur ELSE Done
  /\ UNCHANGED <<db, file, clients, copy, purging, phase, list, snapshot, oldFiles, history>>

SetStored ==
  /\ step \in {"degrade", "promote"}
  /\ SetBlobStoredLocally(cur, step = "promote")
  /\ Done
  /\ UNCHANGED <<rowOld, peer, refs, file, clients, copy, purging, phase, list, snapshot, oldFiles, history>>

EndCycle ==
  /\ phase = "drift" /\ step = "none" /\ list = {}
  /\ phase' = "idle"
  /\ snapshot' = {} /\ oldFiles' = {}
  /\ UNCHANGED <<db, file, clients, copy, purging, list, cur, step, history>>

Collect ==
  \/ BeginCycle \/ ListOrphans \/ ListDigests \/ AllBlobDigests
  \/ SizeForRepair \/ RepairRow \/ StatFile \/ DeleteFile
  \/ ListBlobsForReconcile \/ Recheck \/ HasPeerBlob \/ SetStored \/ EndCycle
  \/ \E d \in Digests : DeleteOrphan(d) \/ IsBlobReferenced(d) \/ Exists(d)
-----------------------------------------------------------------------------
\* The grace period passes; no push takes that long.
Age(d) ==
  /\ \A p \in Clients : d \notin written[p] \union (have[p] \ mounted[p])
  /\ \/ /\ file[d] = "young" /\ file' = [file EXCEPT ![d] = "old"]
        /\ UNCHANGED rowOld
     \/ /\ row[d] # "none" /\ ~rowOld[d] /\ rowOld' = [rowOld EXCEPT ![d] = TRUE]
        /\ UNCHANGED file
  /\ UNCHANGED <<row, peer, refs, clients, copy, purging, gc, history>>

\* The process dies and is started again.
Crash ==
  /\ Event
  /\ img' = [p \in Clients |-> {}]
  /\ written' = [p \in Clients |-> {}]
  /\ have' = [p \in Clients |-> {}]
  /\ mounted' = [p \in Clients |-> {}]
  /\ unchecked' = [p \in Clients |-> {}]
  /\ copy' = Idle /\ purging' = {}
  /\ phase' = "idle" /\ list' = {} /\ snapshot' = {} /\ oldFiles' = {}
  /\ cur' = NoDigest /\ step' = "none"
  /\ UNCHANGED <<db, file, pushed, damaged, pushes>>

Push(p) ==
  \/ \E m \in Images : BeginPush(p, m)
  \/ \E d \in Digests : UploadLayer(p, d) \/ RecordLayer(p, d) \/ MountBlob(p, d) \/ CheckLayer(p, d)
  \/ PutManifestWithLayers(p) \/ Abandon(p)

Next ==
  \/ \E p \in Clients : Push(p)
  \/ \E d \in Digests : IngestBlobRef(d) \/ BeginCopy(d) \/ Copy(d)
  \/ \E m \in Images : IngestManifest(m) \/ DeleteManifest(m) \/ DeleteWithBlobs(m)
  \/ \E d \in Digests : DeleteBlob(d) \/ PurgeFile(d) \/ LoseFile(d) \/ Age(d)
  \/ Collect
  \/ Crash

(***************************************************************************)
(* The collector keeps running cycles, time passes, and a deletion, a push *)
(* and a copy come to an end.                                              *)
(***************************************************************************)
Fairness ==
  /\ WF_vars(Collect)
  /\ \A d \in Digests : WF_vars(Age(d)) /\ WF_vars(PurgeFile(d))
  /\ \A d \in Digests : WF_vars(Copy(d))
  /\ \A p \in Clients : WF_vars(Abandon(p))

Spec == Init /\ [][Next]_vars
FairSpec == Spec /\ Fairness
-----------------------------------------------------------------------------
Complete(m) == \A d \in Layers[m] : file[d] # "none"

(***************************************************************************)
(* An image that a push has stored keeps the bytes of its layers, whatever *)
(* the collector, the replicator and other pushes do in between.  Two      *)
(* cases are set apart: layers lost or deleted as blobs, and those whose   *)
(* removal was decided just before or while a push stored them (damaged).  *)
(* In particular neither a row that cleanupOrphanedBlobMetadata takes away *)
(* between pushManifest's check and its transaction, nor an upload during  *)
(* cleanupOrphanedBlobFiles, costs the file.  Stated for pushes that       *)
(* upload their layers: a mounted blob (Reuse) has no grace period.        *)
(***************************************************************************)
ImageKept ==
  \A m \in pushed : Layers[m] \intersect damaged = {} => Complete(m)

(***************************************************************************)
(* The collector repairs what races, failed statements and crashes leave   *)
(* behind (cleanupOrphanedBlobFiles, reconcileBlobStorageDrift): a blob    *)
(* that is referenced and whose bytes are there gets a row that says so,   *)
(* or loses bytes or reference.                                            *)
(***************************************************************************)
DriftHeals ==
  \A d \in Digests :
    Referenced(d) /\ file[d] # "none"
      ~> row[d] = "local" \/ file[d] = "none" \/ ~Referenced(d)

(***************************************************************************)
(* Nothing leaks: a blob that stays unreferenced does not keep its bytes,  *)
(* also when peers announce that they have it ("Local bytes must not be    *)
(* pinned by remote-location hints", OrphanedBlobs) and after a crash in   *)
(* the middle of a push, a deletion or a cycle.                            *)
(***************************************************************************)
OrphansCollected ==
  \A d \in Digests : <>[]~Referenced(d) => <>[](file[d] = "none")
=============================================================================
