------------------------ MODULE BlobLifecycle_proofs ------------------------
(***************************************************************************)
(* Proofs about the blobs of a node, for any images and layers, any number *)
(* of pushes at the same time and any number of deletions, copies,         *)
(* failures and crashes.                                                   *)
(***************************************************************************)
EXTENDS BlobLifecycle, TLAPS

Sets == SUBSET Digests

(***************************************************************************)
(* The shape of what the argument is about.  A collector that is not       *)
(* looking at files or rows has none at hand, and a push that may not      *)
(* mount has mounted nothing.                                              *)
(***************************************************************************)
Shape ==
  /\ file \in [Digests -> {"none", "young", "old"}]
  /\ img \in [Clients -> SUBSET Images]
  /\ written \in [Clients -> Sets] /\ have \in [Clients -> Sets]
  /\ mounted = [p \in Clients |-> {}]
  /\ purging \in Sets /\ list \in Sets /\ oldFiles \in Sets
  /\ cur \in Digests \union {NoDigest} /\ step \in GCSteps
  /\ phase \notin {"sweep", "drift"} => step = "none"
  /\ refs \subseteq Images /\ pushed \subseteq refs

\* Nobody is about to remove the file of d.
NotDoomed(d) == d \notin purging /\ ~(step = "delete" /\ cur = d)

(***************************************************************************)
(* What a push has uploaded is young, so the collector has not counted it  *)
(* among the old files, and no removal of it is under way.                 *)
(***************************************************************************)
UploadSafe ==
  \A p \in Clients : \A d \in (written[p] \union have[p]) \ damaged :
    file[d] = "young" /\ d \notin oldFiles /\ NotDoomed(d)

(***************************************************************************)
(* The collector looks at the references before it looks at the file: when *)
(* it has passed the first look, a push that has stored its manifest since *)
(* has a file that is not old.                                             *)
(***************************************************************************)
LayerSafe(d) ==
  /\ file[d] # "none" /\ NotDoomed(d)
  /\ step = "stat" /\ cur = d => d \notin oldFiles

PushedSafe ==
  \A m \in pushed : \A d \in Layers[m] \ damaged : LayerSafe(d)

KeptInv == ~Reuse /\ Shape /\ UploadSafe /\ PushedSafe
-----------------------------------------------------------------------------
(***************************************************************************)
(* A step that removes no file, dooms none and does not make one old: what *)
(* is safe stays so, if nothing comes under the two promises.              *)
(***************************************************************************)
LEMMA SafeFrame ==
  ASSUME KeptInv, Shape', damaged \subseteq damaged',
         \A p \in Clients : written'[p] \union have'[p] \subseteq written[p] \union have[p],
         pushed' \subseteq pushed,
         \A d \in Digests \ damaged' :
           /\ file'[d] \in {file[d], "young"}
           /\ d \in oldFiles' => d \in oldFiles
           /\ NotDoomed(d) => NotDoomed(d)'
           /\ LayerSafe(d) => (step' = "stat" /\ cur' = d => d \notin oldFiles')
  PROVE  UploadSafe' /\ PushedSafe'
<1> USE DEF KeptInv
<1>1. ASSUME NEW p \in Clients, NEW d \in (written'[p] \union have'[p]) \ damaged'
      PROVE  file'[d] = "young" /\ d \notin oldFiles' /\ NotDoomed(d)'
  <2>1. d \in (written[p] \union have[p]) \ damaged /\ d \in Digests \ damaged'
    BY DEF Shape, Sets
  <2>2. file[d] = "young" /\ d \notin oldFiles /\ NotDoomed(d)
    BY <2>1 DEF UploadSafe
  <2> QED BY <2>1, <2>2
<1>2. ASSUME NEW m \in pushed', NEW d \in Layers[m] \ damaged' PROVE LayerSafe(d)'
  <2>1. d \in Digests \ damaged' /\ m \in pushed /\ d \in Layers[m] \ damaged
    BY BlobAssumption DEF Shape
  <2>2. LayerSafe(d)
    BY <2>1 DEF PushedSafe
  <2>3. file'[d] # "none" /\ NotDoomed(d)'
    BY <2>1, <2>2 DEF LayerSafe
  <2> QED BY <2>1, <2>2, <2>3 DEF LayerSafe
<1> QED BY <1>1, <1>2 DEF UploadSafe, PushedSafe

(***************************************************************************)
(* blobstore Put by a push: the file is new, and if somebody is about to   *)
(* remove it the digest counts as damaged.                                 *)
(***************************************************************************)
LEMMA UploadStep ==
  ASSUME KeptInv, NEW p \in Clients, NEW d \in Digests, UploadLayer(p, d)
  PROVE  KeptInv'
<1> USE DEF KeptInv
<1>1. /\ file' = [file EXCEPT ![d] = "young"] /\ oldFiles' = oldFiles \ {d}
      /\ written' = [written EXCEPT ![p] = @ \union {d}]
      /\ damaged' = IF d \in Doomed THEN damaged \union {d} ELSE damaged
      /\ UNCHANGED <<refs, img, have, mounted, purging, phase, list, cur, step, pushed>>
  BY DEF UploadLayer, PutFile, db
<1>2. Shape'
  BY <1>1 DEF Shape, Sets
<1>3. damaged \subseteq damaged' /\ (d \notin damaged' => NotDoomed(d))
  BY <1>1 DEF Doomed, NotDoomed
<1>4. \A e : NotDoomed(e)' <=> NotDoomed(e)
  BY <1>1 DEF NotDoomed
<1>5. ASSUME NEW q \in Clients, NEW e \in (written'[q] \union have'[q]) \ damaged'
      PROVE  file'[e] = "young" /\ e \notin oldFiles' /\ NotDoomed(e)'
  <2>1. e \in Digests
    BY <1>2 DEF Shape, Sets
  <2>2. CASE e = d
    BY <1>1, <1>3, <1>4, <2>2 DEF Shape
  <2>3. CASE e # d
    <3>1. e \in (written[q] \union have[q]) \ damaged
      BY <1>1, <1>3, <2>3 DEF Shape
    <3>2. file[e] = "young" /\ e \notin oldFiles /\ NotDoomed(e)
      BY <3>1 DEF UploadSafe
    <3> QED BY <1>1, <1>4, <2>1, <2>3, <3>2 DEF Shape
  <2> QED BY <2>2, <2>3
<1>6. ASSUME NEW m \in pushed', NEW e \in Layers[m] \ damaged' PROVE LayerSafe(e)'
  <2>1. LayerSafe(e) /\ e \in Digests
    BY <1>1, <1>3, BlobAssumption DEF PushedSafe, Shape
  <2>2. file'[e] # "none"
    BY <1>1, <2>1 DEF LayerSafe, Shape
  <2> QED BY <1>1, <1>4, <2>1, <2>2 DEF LayerSafe
<1> QED BY <1>2, <1>5, <1>6 DEF UploadSafe, PushedSafe

(***************************************************************************)
(* pushManifest: all layers of the image are among what it uploaded.       *)
(***************************************************************************)
LEMMA PutManifestStep ==
  ASSUME KeptInv, NEW p \in Clients, PutManifestWithLayers(p)
  PROVE  KeptInv'
<1> USE DEF KeptInv
<1>1. /\ refs' = refs \union img[p] /\ pushed' = pushed \union img[p]
      /\ img' = [img EXCEPT ![p] = {}] /\ written' = [written EXCEPT ![p] = {}]
      /\ have' = [have EXCEPT ![p] = {}] /\ mounted' = [mounted EXCEPT ![p] = {}]
      /\ UNCHANGED <<file, purging, phase, list, oldFiles, cur, step, damaged>>
      /\ Uploaded(p)
  BY DEF PutManifestWithLayers, Reset, gc
<1>2. Shape'
  BY <1>1 DEF Shape, Sets
<1>3. ASSUME NEW m \in img[p], NEW d \in Layers[m] \ damaged
      PROVE  d \in have[p] /\ d \in Digests
  <2>1. d \in Digests
    BY BlobAssumption DEF Shape
  <2>2. d \notin Missing(p) /\ written[p] = {}
    BY <1>1 DEF Uploaded
  <2>3. d \notin written[p] \union have[p] => d \in Missing(p)
    BY DEF Missing
  <2> QED BY <2>1, <2>2, <2>3
<1>4. /\ \A d : NotDoomed(d)' <=> NotDoomed(d)
      /\ \A d : LayerSafe(d)' <=> LayerSafe(d)
  BY <1>1 DEF NotDoomed, LayerSafe
<1>5. PushedSafe'
  <2>1. ASSUME NEW m \in img[p], NEW d \in Layers[m] \ damaged PROVE LayerSafe(d)
    BY <1>3 DEF UploadSafe, LayerSafe
  <2> QED BY <1>1, <1>4, <2>1 DEF PushedSafe
<1>6. UploadSafe'
  BY <1>1, <1>4 DEF UploadSafe, Shape
<1> QED BY <1>2, <1>5, <1>6

(***************************************************************************)
(* The other steps of a push.                                              *)
(***************************************************************************)
LEMMA PushStep ==
  ASSUME KeptInv, NEW p \in Clients, Push(p)
  PROVE  KeptInv'
<1> USE DEF KeptInv
<1>1. ASSUME UNCHANGED <<file, purging, phase, list, oldFiles, cur, step, damaged, pushed, refs>>,
             Shape',
             \A q \in Clients : written'[q] \union have'[q] \subseteq written[q] \union have[q]
      PROVE  KeptInv'
  <2>1. \A d \in Digests \ damaged' :
          /\ file'[d] \in {file[d], "young"}
          /\ d \in oldFiles' => d \in oldFiles
          /\ NotDoomed(d) => NotDoomed(d)'
          /\ LayerSafe(d) => (step' = "stat" /\ cur' = d => d \notin oldFiles')
    BY <1>1 DEF NotDoomed, LayerSafe
  <2> QED BY <1>1, <2>1, SafeFrame
<1>2. ASSUME Reset(p),
             UNCHANGED <<file, purging, phase, list, oldFiles, cur, step, damaged, pushed, refs>>
      PROVE  KeptInv'
  <2>1. Shape'
    BY <1>2 DEF Reset, Shape, Sets
  <2>2. \A q \in Clients : written'[q] \union have'[q] \subseteq written[q] \union have[q]
    BY <1>2 DEF Reset, Shape
  <2> QED BY <1>1, <1>2, <2>1, <2>2
<1>3. ASSUME NEW m \in Images, BeginPush(p, m) PROVE KeptInv'
  <2>1. /\ img' = [img EXCEPT ![p] = {m}]
        /\ UNCHANGED <<file, written, have, mounted, purging, phase, list, oldFiles, cur, step,
                       damaged, pushed, refs>>
    BY <1>3 DEF BeginPush, gc, db
  <2>2. Shape'
    BY <2>1 DEF Shape
  <2> QED BY <1>1, <2>1, <2>2
<1>4. ASSUME NEW d \in Digests, RecordLayer(p, d) PROVE KeptInv'
  <2>1. /\ written' = [written EXCEPT ![p] = @ \ {d}]
        /\ have' = [have EXCEPT ![p] = @ \union {d}] /\ d \in written[p]
        /\ UNCHANGED <<file, img, mounted, purging, phase, list, oldFiles, cur, step,
                       damaged, pushed, refs>>
    BY <1>4 DEF RecordLayer, gc, history
  <2>2. Shape'
    BY <2>1 DEF Shape, Sets
  <2>3. \A q \in Clients : written'[q] \union have'[q] \subseteq written[q] \union have[q]
    BY <2>1 DEF Shape
  <2> QED BY <1>1, <2>1, <2>2, <2>3
<1>5. ASSUME NEW d \in Digests, CheckLayer(p, d) PROVE KeptInv'
  <2>1. /\ UNCHANGED <<file, purging, phase, list, oldFiles, cur, step, damaged, pushed, refs>>
        /\ Reset(p) \/ UNCHANGED <<img, written, have, mounted>>
    BY <1>5 DEF CheckLayer, gc, history, db
  <2>2. CASE UNCHANGED <<img, written, have, mounted>>
    BY <1>1, <2>1, <2>2 DEF Shape
  <2> QED BY <1>2, <2>1, <2>2
<1>6. ASSUME Abandon(p) PROVE KeptInv'
  BY <1>2, <1>6 DEF Abandon, gc, history, db
<1>7. ASSUME NEW d \in Digests PROVE ~MountBlob(p, d)
  BY DEF MountBlob
<1> QED BY <1>3, <1>4, <1>5, <1>6, <1>7, UploadStep, PutManifestStep DEF Push
-----------------------------------------------------------------------------
(***************************************************************************)
(* Copies from peers and ingested manifests: files and references only     *)
(* come.                                                                   *)
(***************************************************************************)
LEMMA CopyStep ==
  ASSUME KeptInv,
         \/ \E d \in Digests : IngestBlobRef(d) \/ BeginCopy(d) \/ Copy(d)
         \/ \E m \in Images : IngestManifest(m)
  PROVE  KeptInv'
<1> USE DEF KeptInv
<1>1. ASSUME UNCHANGED <<img, written, have, mounted, purging, phase, list, cur, step, pushed>>,
             refs \subseteq refs', refs' \subseteq Images,
             damaged \subseteq damaged',
             \/ UNCHANGED <<file, oldFiles>>
             \/ \E d \in Digests : /\ file' = [file EXCEPT ![d] = "young"]
                                   /\ oldFiles' = oldFiles \ {d}
      PROVE  KeptInv'
  <2>1. Shape'
    BY <1>1 DEF Shape, Sets
  <2>2. \A d \in Digests \ damaged' :
          /\ file'[d] \in {file[d], "young"}
          /\ d \in oldFiles' => d \in oldFiles
    BY <1>1 DEF Shape
  <2>3. \A d \in Digests \ damaged' :
          /\ NotDoomed(d) => NotDoomed(d)'
          /\ LayerSafe(d) => (step' = "stat" /\ cur' = d => d \notin oldFiles')
    BY <1>1, <2>2 DEF NotDoomed, LayerSafe
  <2> QED BY <1>1, <2>1, <2>2, <2>3, SafeFrame
<1>2. refs \subseteq Images
  BY DEF Shape
<1>3. ASSUME NEW d \in Digests, CopyFile(d) PROVE KeptInv'
  <2>1. /\ UNCHANGED <<img, written, have, mounted, purging, phase, list, cur, step, pushed, refs>>
        /\ PutFile(d) \/ UNCHANGED <<file, oldFiles, damaged>>
    BY <1>3 DEF CopyFile, clients, db
  <2>2. damaged \subseteq damaged'
    BY <2>1 DEF PutFile
  <2> QED BY <1>1, <1>2, <2>1, <2>2 DEF PutFile
<1>4. ASSUME NEW d \in Digests,
             IngestBlobRef(d) \/ BeginCopy(d) \/ RecordRef(d) \/ ReplicateBlob(d) \/ RecordCopy(d)
      PROVE  KeptInv'
  <2>1. UNCHANGED <<img, written, have, mounted, purging, phase, list, oldFiles, cur, step,
                    pushed, damaged, file, refs>>
    BY <1>4 DEF IngestBlobRef, BeginCopy, RecordRef, ReplicateBlob, RecordCopy, clients, db, gc,
                history
  <2> QED BY <1>1, <1>2, <2>1
<1>5. ASSUME NEW m \in Images, IngestManifest(m) PROVE KeptInv'
  <2>1. /\ UNCHANGED <<img, written, have, mounted, purging, phase, list, oldFiles, cur, step,
                       pushed, damaged, file>>
        /\ refs' = refs \union {m}
    BY <1>5 DEF IngestManifest, clients, gc
  <2> QED BY <1>1, <1>2, <2>1
<1> QED BY <1>3, <1>4, <1>5 DEF Copy

(***************************************************************************)
(* Deletions.  A blob purged with its repository is a layer of no other    *)
(* image, and one that a push counts on counts as damaged.                 *)
(***************************************************************************)
LEMMA DeleteStep ==
  ASSUME KeptInv,
         \/ \E m \in Images : DeleteManifest(m) \/ DeleteWithBlobs(m)
         \/ \E d \in Digests : DeleteBlob(d) \/ PurgeFile(d) \/ LoseFile(d)
  PROVE  KeptInv'
<1> USE DEF KeptInv
<1>1. /\ UNCHANGED <<img, written, have, mounted, phase, list, oldFiles, cur, step>>
      /\ damaged \subseteq damaged' /\ pushed' \subseteq pushed /\ refs' \subseteq refs
      /\ pushed' \subseteq refs'
  BY DEF DeleteManifest, DeleteWithBlobs, DeleteBlob, PurgeFile, LoseFile, clients, gc, db,
         history, Shape
<1>2. ASSUME purging' \in Sets, file' \in [Digests -> {"none", "young", "old"}],
             \A p \in Clients : \A d \in (written[p] \union have[p]) \ damaged' :
               NotDoomed(d) /\ d \in Digests => file'[d] = file[d] /\ d \notin purging',
             \A m \in pushed' : \A d \in Layers[m] \ damaged' :
               NotDoomed(d) /\ d \in Digests => file'[d] = file[d] /\ d \notin purging'
      PROVE  KeptInv'
  <2>1. Shape'
    BY <1>1, <1>2 DEF Shape
  <2>2. ASSUME NEW p \in Clients, NEW d \in (written'[p] \union have'[p]) \ damaged'
        PROVE  file'[d] = "young" /\ d \notin oldFiles' /\ NotDoomed(d)'
    <3>1. d \in Digests /\ d \in (written[p] \union have[p]) \ damaged
      BY <1>1 DEF Shape, Sets
    <3>2. file[d] = "young" /\ d \notin oldFiles /\ NotDoomed(d)
      BY <3>1 DEF UploadSafe
    <3>3. file'[d] = file[d] /\ d \notin purging'
      BY <1>1, <1>2, <3>1, <3>2
    <3> QED BY <1>1, <3>2, <3>3 DEF NotDoomed
  <2>3. ASSUME NEW m \in pushed', NEW d \in Layers[m] \ damaged' PROVE LayerSafe(d)'
    <3>1. d \in Digests /\ LayerSafe(d)
      BY <1>1, BlobAssumption DEF PushedSafe, Shape
    <3>2. file'[d] = file[d] /\ d \notin purging'
      BY <1>2, <3>1 DEF LayerSafe
    <3> QED BY <1>1, <3>1, <3>2 DEF LayerSafe, NotDoomed
  <2> QED BY <2>1, <2>2, <2>3 DEF UploadSafe, PushedSafe
<1>3. file \in [Digests -> {"none", "young", "old"}] /\ purging \in Sets
  BY DEF Shape
<1>4. ASSUME NEW m \in Images, DeleteManifest(m) PROVE KeptInv'
  <2>1. UNCHANGED <<file, purging>>
    BY <1>4 DEF DeleteManifest
  <2> QED BY <1>2, <1>3, <2>1 DEF NotDoomed
<1>5. ASSUME NEW m \in Images, DeleteWithBlobs(m) PROVE KeptInv'
  <2> DEFINE purged == {d \in Layers[m] : row[d] # "none" /\ ~\E n \in refs \ {m} : d \in Layers[n]}
  <2>1. /\ file' = file /\ purging' = purged /\ refs' = refs \ {m} /\ pushed' = pushed \ {m}
        /\ damaged' = damaged \union (purged \intersect InUse)
    BY <1>5 DEF DeleteWithBlobs
  <2>2. purged \in Sets
    BY BlobAssumption DEF Sets
  <2>3. \A n \in pushed' : \A d \in Layers[n] : d \notin purged
    BY <2>1 DEF Shape
  <2>4. \A p \in Clients : \A d \in written[p] \union have[p] : d \in InUse
    BY DEF InUse
  <2> HIDE DEF purged
  <2> QED BY <1>2, <1>3, <2>1, <2>2, <2>3, <2>4
<1>6. ASSUME NEW d \in Digests, DeleteBlob(d) PROVE KeptInv'
  <2>1. file' = file /\ purging' = {d} /\ damaged' = damaged \union {d}
    BY <1>6 DEF DeleteBlob
  <2> QED BY <1>2, <1>3, <2>1 DEF Sets
<1>7. ASSUME NEW d \in Digests, PurgeFile(d) PROVE KeptInv'
  <2>1. /\ d \in purging /\ purging' = purging \ {d}
        /\ file' \in {file, [file EXCEPT ![d] = "none"]}
    BY <1>7 DEF PurgeFile, RemoveFile
  <2>2. \A e \in Digests : NotDoomed(e) => file'[e] = file[e] /\ e \notin purging'
    BY <1>3, <2>1 DEF NotDoomed
  <2>3. file' \in [Digests -> {"none", "young", "old"}] /\ purging' \in Sets
    BY <1>3, <2>1 DEF Sets
  <2> QED BY <1>2, <2>2, <2>3
<1>8. ASSUME NEW d \in Digests, LoseFile(d) PROVE KeptInv'
  <2>1. /\ file' = [file EXCEPT ![d] = "none"] /\ purging' = purging
        /\ damaged' = damaged \union {d}
    BY <1>8 DEF LoseFile, RemoveFile
  <2>2. \A e \in Digests \ damaged' : NotDoomed(e) => file'[e] = file[e] /\ e \notin purging'
    BY <1>3, <2>1 DEF NotDoomed
  <2>3. file' \in [Digests -> {"none", "young", "old"}]
    BY <1>3, <2>1
  <2> QED BY <1>2, <1>3, <2>1, <2>2, <2>3
<1> QED BY <1>4, <1>5, <1>6, <1>7, <1>8
-----------------------------------------------------------------------------
(***************************************************************************)
(* The collector's steps that only read, list or write rows.               *)
(***************************************************************************)
LEMMA ReadStep ==
  ASSUME KeptInv,
         \/ BeginCycle \/ ListOrphans \/ ListDigests
         \/ SizeForRepair \/ RepairRow
         \/ ListBlobsForReconcile \/ Recheck \/ HasPeerBlob \/ SetStored \/ EndCycle
         \/ \E d \in Digests : DeleteOrphan(d) \/ Exists(d)
  PROVE  KeptInv'
<1> USE DEF KeptInv
<1>1. /\ UNCHANGED <<file, img, written, have, mounted, purging, pushed, damaged, refs>>
      /\ oldFiles' \subseteq oldFiles
  BY DEF BeginCycle, ListOrphans, ListDigests, SizeForRepair, RepairRow, ListBlobsForReconcile,
         Recheck, HasPeerBlob, SetStored, EndCycle, DeleteOrphan, Exists, db, clients, history
<1>2. /\ step' \in GCSteps /\ cur' \in Digests \union {NoDigest} /\ list' \in Sets
      /\ phase' \notin {"sweep", "drift"} => step' = "none"
  <2>0. /\ step \in GCSteps /\ cur \in Digests \union {NoDigest} /\ list \in Sets
        /\ phase \notin {"sweep", "drift"} => step = "none"
    BY DEF Shape
  <2>1. CASE BeginCycle \/ ListOrphans \/ ListDigests
    BY <2>0, <2>1 DEF BeginCycle, ListOrphans, ListDigests, Sets, OrphanedBlobs
  <2>2. CASE SizeForRepair \/ RepairRow \/ Recheck \/ HasPeerBlob \/ SetStored
    BY <2>0, <2>2 DEF SizeForRepair, RepairRow, Recheck, HasPeerBlob, SetStored, Done, GCSteps
  <2>3. CASE ListBlobsForReconcile \/ EndCycle
    BY <2>0, <2>3 DEF ListBlobsForReconcile, EndCycle, Sets
  <2>4. ASSUME NEW d \in Digests, DeleteOrphan(d) \/ Exists(d)
        PROVE  /\ step' \in GCSteps /\ cur' \in Digests \union {NoDigest} /\ list' \in Sets
               /\ phase' \notin {"sweep", "drift"} => step' = "none"
    BY <2>0, <2>4 DEF DeleteOrphan, Exists, Sets, GCSteps
  <2> QED BY <2>1, <2>2, <2>3, <2>4
<1>3. Shape'
  BY <1>1, <1>2 DEF Shape, Sets
<1>4. step' \in {"stat", "delete"} => UNCHANGED <<step, cur>>
  BY DEF BeginCycle, ListOrphans, ListDigests, SizeForRepair, RepairRow, ListBlobsForReconcile,
         Recheck, HasPeerBlob, SetStored, EndCycle, DeleteOrphan, Exists, Done
<1>5. \A d \in Digests \ damaged' :
        /\ NotDoomed(d) => NotDoomed(d)'
        /\ LayerSafe(d) => (step' = "stat" /\ cur' = d => d \notin oldFiles')
  BY <1>1, <1>4 DEF NotDoomed, LayerSafe
<1> QED BY <1>1, <1>3, <1>5, SafeFrame

(***************************************************************************)
(* The cutoff is computed while the collector has no file at hand, the     *)
(* references come first, then the age, and then the file goes.            *)
(***************************************************************************)
LEMMA SweepStep ==
  ASSUME KeptInv,
         \/ AllBlobDigests \/ StatFile \/ DeleteFile
         \/ \E d \in Digests : IsBlobReferenced(d)
  PROVE  KeptInv'
<1> USE DEF KeptInv
<1>1. UNCHANGED <<img, written, have, mounted, purging, pushed, damaged, refs>>
  BY DEF AllBlobDigests, StatFile, DeleteFile, IsBlobReferenced, db, clients, history
<1>2. ASSUME AllBlobDigests PROVE KeptInv'
  <2>1. /\ UNCHANGED <<file, cur, step>> /\ phase = "known" /\ phase' = "sweep"
        /\ oldFiles' = {d \in Digests : file[d] = "old"} /\ list' \subseteq list /\ step = "none"
    BY <1>2 DEF AllBlobDigests, Shape
  <2>2. Shape'
    BY <1>1, <2>1 DEF Shape, Sets
  <2>3. UploadSafe'
    BY <1>1, <2>1 DEF UploadSafe, NotDoomed
  <2>4. PushedSafe'
    BY <1>1, <2>1 DEF PushedSafe, LayerSafe, NotDoomed
  <2> QED BY <2>2, <2>3, <2>4
<1>3. ASSUME NEW d \in Digests, IsBlobReferenced(d) PROVE KeptInv'
  <2>1. /\ UNCHANGED <<file, oldFiles, phase>> /\ phase = "sweep" /\ cur' = d /\ list' \subseteq list
        /\ step' = IF Referenced(d) THEN "size" ELSE "stat"
    BY <1>3 DEF IsBlobReferenced
  <2>2. Shape'
    BY <1>1, <2>1 DEF Shape, Sets, GCSteps
  <2>3. UploadSafe'
    BY <1>1, <2>1 DEF UploadSafe, NotDoomed
  <2>4. \A m \in pushed : d \in Layers[m] => Referenced(d)
    BY DEF Shape, Referenced
  <2>5. PushedSafe'
    BY <1>1, <2>1, <2>4 DEF PushedSafe, LayerSafe, NotDoomed
  <2> QED BY <2>2, <2>3, <2>5
<1>4. ASSUME StatFile PROVE KeptInv'
  <2>1. /\ UNCHANGED <<file, oldFiles, phase, list>> /\ step = "stat"
        /\ \/ cur \in oldFiles /\ step' = "delete" /\ cur' = cur
           \/ step' = "none" /\ cur' = NoDigest
    BY <1>4 DEF StatFile, Done
  <2>2. Shape'
    BY <1>1, <2>1 DEF Shape, GCSteps
  <2>3. UploadSafe'
    BY <1>1, <2>1 DEF UploadSafe, NotDoomed
  <2>4. PushedSafe'
    BY <1>1, <2>1 DEF PushedSafe, LayerSafe, NotDoomed
  <2> QED BY <2>2, <2>3, <2>4
<1>5. ASSUME DeleteFile PROVE KeptInv'
  <2>1. /\ UNCHANGED <<oldFiles, phase, list>> /\ step = "delete"
        /\ file' = [file EXCEPT ![cur] = "none"] /\ step' = "none" /\ cur' = NoDigest
    BY <1>5 DEF DeleteFile, RemoveFile, Done
  <2>2. Shape'
    BY <1>1, <2>1 DEF Shape, GCSteps
  <2>3. \A d \in Digests : NotDoomed(d) => file'[d] = file[d]
    BY <2>1 DEF NotDoomed, Shape
  <2>4. UploadSafe'
    <3>1. ASSUME NEW p \in Clients, NEW d \in (written[p] \union have[p]) \ damaged
          PROVE  file'[d] = "young" /\ d \notin oldFiles /\ d \notin purging
      <4>1. d \in Digests
        BY DEF Shape, Sets
      <4> QED BY <2>3, <3>1, <4>1 DEF UploadSafe, NotDoomed
    <3> QED BY <1>1, <2>1, <3>1 DEF UploadSafe, NotDoomed
  <2>5. PushedSafe'
    <3>1. ASSUME NEW m \in pushed, NEW d \in Layers[m] \ damaged
          PROVE  file'[d] # "none" /\ d \notin purging
      <4>1. d \in Digests
        BY BlobAssumption DEF Shape
      <4> QED BY <2>3, <3>1, <4>1 DEF PushedSafe, LayerSafe, NotDoomed
    <3> QED BY <1>1, <2>1, <3>1 DEF PushedSafe, LayerSafe, NotDoomed
  <2> QED BY <2>2, <2>4, <2>5
<1> QED BY <1>2, <1>3, <1>4, <1>5
-----------------------------------------------------------------------------
(***************************************************************************)
(* The grace period: nothing that a push has uploaded gets old before the  *)
(* push is over.                                                           *)
(***************************************************************************)
LEMMA AgeStep ==
  ASSUME KeptInv, NEW d \in Digests, Age(d)
  PROVE  KeptInv'
<1> USE DEF KeptInv
<1>1. /\ UNCHANGED <<img, written, have, mounted, purging, phase, list, oldFiles, cur, step,
                     pushed, damaged, refs>>
      /\ \A p \in Clients : d \notin written[p] \union (have[p] \ mounted[p])
      /\ file' \in {file, [file EXCEPT ![d] = "old"]}
  BY DEF Age, clients, gc, history
<1>2. Shape'
  BY <1>1 DEF Shape
<1>3. \A p \in Clients : d \notin written[p] \union have[p]
  BY <1>1 DEF Shape
<1>4. UploadSafe'
  <2>1. ASSUME NEW p \in Clients, NEW e \in (written[p] \union have[p]) \ damaged
        PROVE  file'[e] = "young"
    <3>1. e \in Digests /\ e # d
      BY <1>3 DEF Shape, Sets
    <3> QED BY <1>1, <3>1 DEF UploadSafe, Shape
  <2> QED BY <1>1, <2>1 DEF UploadSafe, NotDoomed
<1>5. PushedSafe'
  <2>1. ASSUME NEW m \in pushed, NEW e \in Layers[m] \ damaged
        PROVE  file'[e] # "none"
    <3>1. e \in Digests /\ file[e] # "none"
      BY BlobAssumption DEF Shape, PushedSafe, LayerSafe
    <3> QED BY <1>1, <3>1 DEF Shape
  <2> QED BY <1>1, <2>1 DEF PushedSafe, LayerSafe, NotDoomed
<1> QED BY <1>2, <1>4, <1>5

LEMMA CrashStep ==
  ASSUME KeptInv, Crash
  PROVE  KeptInv'
<1> USE DEF KeptInv
<1>1. /\ img' = [p \in Clients |-> {}] /\ written' = [p \in Clients |-> {}]
      /\ have' = [p \in Clients |-> {}] /\ mounted' = [p \in Clients |-> {}]
      /\ purging' = {} /\ list' = {} /\ oldFiles' = {} /\ cur' = NoDigest /\ step' = "none"
      /\ UNCHANGED <<file, pushed, damaged, refs>>
  BY DEF Crash, db
<1>2. Shape'
  BY <1>1 DEF Shape, Sets, GCSteps
<1>3. UploadSafe'
  BY <1>1 DEF UploadSafe
<1>4. PushedSafe'
  BY <1>1 DEF PushedSafe, LayerSafe, NotDoomed
<1> QED BY <1>2, <1>3, <1>4

LEMMA KeptInvInductive ==
  /\ ~Reuse /\ Init => KeptInv
  /\ KeptInv /\ [Next]_vars => KeptInv'
<1>1. ASSUME ~Reuse, Init PROVE KeptInv
  BY <1>1 DEF Init, KeptInv, Shape, UploadSafe, PushedSafe, Sets, GCSteps
<1>2. ASSUME KeptInv, UNCHANGED vars PROVE KeptInv'
  BY <1>2 DEF KeptInv, Shape, UploadSafe, PushedSafe, LayerSafe, NotDoomed, vars, db, clients,
              gc, history
<1>3. ASSUME KeptInv, Collect PROVE KeptInv'
  BY <1>3, ReadStep, SweepStep DEF Collect
<1>4. ASSUME KeptInv, Next PROVE KeptInv'
  BY <1>3, <1>4, PushStep, CopyStep, DeleteStep, AgeStep, CrashStep DEF Next
<1> QED BY <1>1, <1>2, <1>4

(***************************************************************************)
(* An image that a push has stored keeps the bytes of its layers, whatever *)
(* the collector, the replicator, other pushes and crashes do meanwhile,   *)
(* however many images share a layer.  For pushes that upload their        *)
(* layers: the grace period is what protects them until the manifest is    *)
(* stored, and a mounted blob has none.                                    *)
(***************************************************************************)
THEOREM ImagesKept == ~Reuse /\ Spec => []ImageKept
<1>1. KeptInv => ImageKept
  BY DEF KeptInv, PushedSafe, LayerSafe, ImageKept, Complete
<1> QED BY <1>1, KeptInvInductive, PTL DEF Spec
=============================================================================
