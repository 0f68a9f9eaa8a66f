---------------------------- MODULE Services_proofs ----------------------------
(***************************************************************************)
(* Proofs about the four services of a node, for every value of their      *)
(* constants.                                                              *)
(*                                                                         *)
(*   - Chunked uploads (UploadSession): the two mutexes are never waited   *)
(*     for in a cycle, and what Commit has compared is what the blob store *)
(*     reads.                                                              *)
(*   - What a pushed manifest sets off (ManifestObservers): a target holds *)
(*     no manifest without what it refers to, its tag follows the tag      *)
(*     here, and an image gets one report.                                 *)
(*   - Pull-through (PullThrough): no pull is stranded in a flight, none   *)
(*     fails without a fault, and a repository is marked private before    *)
(*     it can be read.                                                     *)
(*   - The retention sweep (Retention): the collector leaves no tag and no *)
(*     index without its manifests, and of the unpinned tags keepLastN.    *)
(*                                                                         *)
(* Each theorem is about the specification of one of the four, as module   *)
(* Services names their variables.                                         *)
(***************************************************************************)
EXTENDS Services, FiniteSetTheorems, SequenceTheorems, TLAPS
-----------------------------------------------------------------------------
(***************************************************************************)
(* Chunked uploads.                                                        *)
(***************************************************************************)
Steps ==
  {"idle", "register", "createSession", "discard", "cancel", "getSession", "lookup",
   "staleRow", "write", "writing", "commit", "unregister", "put", "record",
   "deleteSession", "cleanup", "onDone", "onDoneRow", "next", "deleteRow", "lockMap",
   "paths", "sweep"}

\* The steps at which a goroutine works on no upload.
Unplaced == {"idle", "next", "lockMap", "paths", "sweep"}

Jobs ==
  [at : Steps, upload : Uploads \union {NoUpload}, chunk : {Torn} \union 1..Len(Blob),
   list : SUBSET Uploads, matches : SUBSET Uploads, active : SUBSET Uploads, all : BOOLEAN]

(***************************************************************************)
(* The goroutines: what each carries, and that it works on an upload.      *)
(***************************************************************************)
JobOK ==
  /\ job \in [Goroutines -> Jobs]
  /\ \A g \in Goroutines : job[g].at \notin Unplaced => job[g].upload \in Uploads

\* The map of writers and the staging files name uploads.
StagedOK == registered \subseteq Uploads /\ staged \subseteq Uploads

\* The part of the state the mutexes protect.
WriterOK ==
  /\ handle \in [Uploads -> {"none", "open", "nil"}]
  /\ done \in [Uploads -> BOOLEAN]
  /\ DOMAIN content = Uploads
  /\ writerLock \in [Uploads -> Goroutines \union {Nobody}]

(***************************************************************************)
(* Whoever holds a writer's mutex across steps is in the middle of Write,  *)
(* to that writer.                                                         *)
(***************************************************************************)
HolderWrites ==
  \A u \in Uploads : \A g \in Goroutines :
    writerLock[u] = g => job[g].at = "writing" /\ job[g].upload = u

(***************************************************************************)
(* Whoever is in the middle of Write holds the mutex, and the upload is    *)
(* not done: Commit and Cancel, which set done, need the mutex.            *)
(***************************************************************************)
WriterHolds ==
  \A g \in Goroutines :
    job[g].at = "writing" =>
      writerLock[job[g].upload] = g /\ ~done[job[g].upload]

\* A request past the comparison of Commit, before the blob store has read.
Compared ==
  \A g \in Goroutines :
    job[g].at \in {"unregister", "put"} =>
      /\ done[job[g].upload]
      /\ content[job[g].upload] = Blob \/ handle[job[g].upload] = "nil"

UploadInv == JobOK /\ StagedOK /\ WriterOK /\ HolderWrites /\ WriterHolds /\ Compared
-----------------------------------------------------------------------------
(***************************************************************************)
(* A step of one goroutine that neither begins nor ends a Write, and       *)
(* compares nothing.                                                       *)
(***************************************************************************)
Goes(g) ==
  /\ JobOK'
  /\ \A h \in Goroutines : h # g => job'[h] = job[h]
  /\ job[g].at # "writing" /\ job'[g].at # "writing"
  /\ job'[g].at \in {"unregister", "put"} =>
       job[g].at \in {"unregister", "put"} /\ job'[g].upload = job[g].upload

(***************************************************************************)
(* Nothing is written, done is set only under the free mutex, and no       *)
(* closed file is opened again.                                            *)
(***************************************************************************)
Calm ==
  /\ WriterOK' /\ StagedOK'
  /\ UNCHANGED <<content, writerLock>>
  /\ \A u \in Uploads : done'[u] = done[u] \/ (Free(u) /\ done'[u])
  /\ \A u \in Uploads : handle[u] = "nil" => handle'[u] = "nil"

(***************************************************************************)
(* Such a step keeps the invariant.                                        *)
(***************************************************************************)
LEMMA Elsewhere ==
  ASSUME UploadInv, NEW g \in Goroutines, Goes(g), Calm
  PROVE  UploadInv'
<1> USE UploadAssumption DEF UploadInv, Unplaced, Goes, Calm
<1>1. HolderWrites'
  BY DEF HolderWrites
<1>2. WriterHolds'
  <2> SUFFICES ASSUME NEW h \in Goroutines, job'[h].at = "writing"
               PROVE  writerLock'[job'[h].upload] = h /\ ~done'[job'[h].upload]
    BY DEF WriterHolds
  <2>1. h # g /\ job'[h] = job[h] /\ job[h].upload \in Uploads
    BY DEF JobOK
  <2>2. writerLock[job[h].upload] = h /\ ~done[job[h].upload]
    BY <2>1 DEF WriterHolds
  <2> QED BY <2>1, <2>2 DEF Free, Goroutines
<1>3. Compared'
  <2> SUFFICES ASSUME NEW h \in Goroutines, job'[h].at \in {"unregister", "put"}
               PROVE  /\ done'[job'[h].upload]
                      /\ content'[job'[h].upload] = Blob \/ handle'[job'[h].upload] = "nil"
    BY DEF Compared
  <2>1. job[h].at \in {"unregister", "put"} /\ job'[h].upload = job[h].upload
    OBVIOUS
  <2>2. /\ done[job[h].upload] /\ job[h].upload \in Uploads
        /\ content[job[h].upload] = Blob \/ handle[job[h].upload] = "nil"
    BY <2>1 DEF Compared, JobOK
  <2> QED BY <2>1, <2>2
<1> QED BY <1>1, <1>2, <1>3

(***************************************************************************)
(* A step that leaves the writers alone is calm.                           *)
(***************************************************************************)
LEMMA StillIsCalm ==
  ASSUME UploadInv, UNCHANGED <<handle, done, content, writerLock>>, StagedOK'
  PROVE  Calm
BY DEF Calm, UploadInv, WriterOK

(***************************************************************************)
(* A step of other things than the goroutines and their writers.           *)
(***************************************************************************)
LEMMA Apart ==
  ASSUME UploadInv, UNCHANGED <<job, content, writerLock, done, handle>>, StagedOK'
  PROVE  UploadInv'
BY DEF UploadInv, JobOK, WriterOK, HolderWrites, WriterHolds, Compared

(***************************************************************************)
(* The ways a goroutine moves on: to other work, ...                       *)
(***************************************************************************)
LEMMA SetJob ==
  ASSUME JobOK, NEW g \in Goroutines, NEW j \in Jobs, job' = [job EXCEPT ![g] = j],
         j.at \notin Unplaced => j.upload \in Uploads
  PROVE  /\ JobOK'
         /\ \A h \in Goroutines : h # g => job'[h] = job[h]
         /\ job'[g] = j
BY DEF JobOK

\* ... to another step with what it carries, ...
LEMMA GotoStep ==
  ASSUME JobOK, NEW g \in Goroutines, NEW step \in Steps, Goto(g, step),
         step \notin Unplaced => job[g].upload \in Uploads
  PROVE  /\ JobOK'
         /\ \A h \in Goroutines : h # g => job'[h] = job[h]
         /\ job'[g].at = step /\ job'[g].upload = job[g].upload
<1> DEFINE j == [job[g] EXCEPT !.at = step]
<1>1. job[g] \in Jobs
  BY DEF JobOK
<1>2. j \in Jobs /\ j.at = step /\ j.upload = job[g].upload
  BY <1>1 DEF Jobs
<1>3. job' = [job EXCEPT ![g] = j]
  BY DEF Goto
<1> HIDE DEF j
<1> QED BY <1>2, <1>3, SetJob

\* ... and back to idle.
LEMMA ReturnStep ==
  ASSUME JobOK, NEW g \in Goroutines, Return(g)
  PROVE  /\ JobOK'
         /\ \A h \in Goroutines : h # g => job'[h] = job[h]
         /\ job'[g].at = "idle"
<1>1. Idle \in Jobs /\ Idle.at = "idle"
  BY DEF Idle, Jobs, Steps, Torn
<1> QED BY <1>1, SetJob DEF Return, Unplaced
-----------------------------------------------------------------------------
(***************************************************************************)
(* Starting an upload, and discarding its writer when there is no row.     *)
(***************************************************************************)
LEMMA StartStep ==
  ASSUME UploadInv, NEW g \in Requests,
         \/ \E u \in Uploads : CreateWriter(g, u)
         \/ RegisterWriter(g) \/ CreateUploadSession(g) \/ DiscardWriter(g) \/ Cancel(g)
  PROVE  UploadInv'
<1>1. JobOK /\ StagedOK /\ WriterOK /\ g \in Goroutines
  BY DEF UploadInv, Goroutines
<1>2. ASSUME NEW u \in Uploads, CreateWriter(g, u) PROVE UploadInv'
  <2> DEFINE j == [Idle EXCEPT !.at = "register", !.upload = u]
  <2>1. j \in Jobs /\ j.at = "register" /\ j.upload = u
    BY DEF Idle, Jobs, Steps, Torn
  <2>2. job' = [job EXCEPT ![g] = j] /\ job[g].at = "idle"
    BY <1>2 DEF CreateWriter
  <2> HIDE DEF j
  <2>3. Goes(g)
    BY <1>1, <2>1, <2>2, SetJob DEF Goes
  <2>4. Calm
    BY <1>1, <1>2 DEF CreateWriter, Calm, WriterOK, StagedOK, locks
  <2> QED BY <1>1, <2>3, <2>4, Elsewhere
<1>3. CASE RegisterWriter(g)
  <2>1. Goes(g)
    BY <1>1, <1>3, GotoStep DEF RegisterWriter, Goes, JobOK, Unplaced, Steps
  <2>2. Calm
    BY <1>1, <1>3, StillIsCalm DEF RegisterWriter, Unregister, StagedOK, JobOK, Unplaced, writer, locks
  <2> QED BY <1>1, <2>1, <2>2, Elsewhere
<1>4. CASE CreateUploadSession(g)
  <2>1. Goes(g)
    BY <1>1, <1>4, GotoStep, ReturnStep DEF CreateUploadSession, Goes, JobOK, Unplaced, Steps
  <2>2. Calm
    BY <1>1, <1>4, StillIsCalm DEF CreateUploadSession, Unregister, StagedOK, JobOK, Unplaced, writer, locks
  <2> QED BY <1>1, <2>1, <2>2, Elsewhere
<1>5. CASE DiscardWriter(g)
  <2>1. Goes(g)
    BY <1>1, <1>5, GotoStep DEF DiscardWriter, Goes, JobOK, Unplaced, Steps
  <2>2. Calm
    BY <1>1, <1>5, StillIsCalm DEF DiscardWriter, Unregister, StagedOK, JobOK, Unplaced, writer, locks
  <2> QED BY <1>1, <2>1, <2>2, Elsewhere
<1>6. CASE Cancel(g)
  <2>1. Goes(g)
    BY <1>1, <1>6, GotoStep DEF Cancel, Goes, JobOK, Unplaced, Steps
  <2>2. Calm
    BY <1>1, <1>6 DEF Cancel, Calm, WriterOK, StagedOK, locks
  <2> QED BY <1>1, <2>1, <2>2, Elsewhere
<1> QED BY <1>2, <1>3, <1>4, <1>5, <1>6

(***************************************************************************)
(* A PATCH or a PUT, up to the writer it finds.                            *)
(***************************************************************************)
LEMMA ResumeStep ==
  ASSUME UploadInv, NEW g \in Requests,
         \/ \E u \in Uploads, c \in {Torn} \union 1..Len(Blob) : Request(g, u, c)
         \/ GetUploadSession(g) \/ LookupWriter(g) \/ DeleteStaleRow(g)
  PROVE  UploadInv'
<1>1. JobOK /\ StagedOK /\ WriterOK /\ g \in Goroutines
  BY DEF UploadInv, Goroutines
<1>2. ASSUME NEW u \in Uploads, NEW c \in {Torn} \union 1..Len(Blob), Request(g, u, c)
      PROVE  UploadInv'
  <2> DEFINE j == [Idle EXCEPT !.at = "getSession", !.upload = u, !.chunk = c]
  <2>1. j \in Jobs /\ j.at = "getSession" /\ j.upload = u
    BY DEF Idle, Jobs, Steps, Torn
  <2>2. job' = [job EXCEPT ![g] = j] /\ job[g].at = "idle"
    BY <1>2 DEF Request
  <2> HIDE DEF j
  <2>3. Goes(g)
    BY <1>1, <2>1, <2>2, SetJob DEF Goes
  <2>4. Calm
    BY <1>1, <1>2, StillIsCalm DEF Request, writer, locks, StagedOK
  <2> QED BY <1>1, <2>3, <2>4, Elsewhere
<1>3. CASE GetUploadSession(g)
  <2>1. Goes(g)
    BY <1>1, <1>3, GotoStep, ReturnStep DEF GetUploadSession, Goes, JobOK, Unplaced, Steps
  <2>2. Calm
    BY <1>1, <1>3, StillIsCalm DEF GetUploadSession, Unregister, StagedOK, JobOK, Unplaced, writer, locks
  <2> QED BY <1>1, <2>1, <2>2, Elsewhere
<1>4. CASE LookupWriter(g)
  <2>1. Goes(g)
    BY <1>1, <1>4, GotoStep DEF LookupWriter, Goes, JobOK, Unplaced, Steps
  <2>2. Calm
    BY <1>1, <1>4, StillIsCalm DEF LookupWriter, Unregister, StagedOK, JobOK, Unplaced, writer, locks
  <2> QED BY <1>1, <2>1, <2>2, Elsewhere
<1>5. CASE DeleteStaleRow(g)
  <2>1. Goes(g)
    BY <1>1, <1>5, ReturnStep DEF DeleteStaleRow, Goes, JobOK, Unplaced, Steps
  <2>2. Calm
    BY <1>1, <1>5, StillIsCalm DEF DeleteStaleRow, Unregister, StagedOK, JobOK, Unplaced, writer, locks
  <2> QED BY <1>1, <2>1, <2>2, Elsewhere
<1> QED BY <1>2, <1>3, <1>4, <1>5

(***************************************************************************)
(* A commit past its comparison.                                           *)
(***************************************************************************)
LEMMA StoreStep ==
  ASSUME UploadInv, NEW g \in Requests,
         CommitUnregister(g) \/ PutBlobFile(g) \/ RecordBlob(g) \/ CommitDeleteSession(g)
  PROVE  UploadInv'
<1>1. JobOK /\ StagedOK /\ WriterOK /\ g \in Goroutines
  BY DEF UploadInv, Goroutines
<1>2. CASE CommitUnregister(g)
  <2>1. Goes(g)
    BY <1>1, <1>2, GotoStep DEF CommitUnregister, Goes, JobOK, Unplaced, Steps
  <2>2. Calm
    BY <1>1, <1>2, StillIsCalm DEF CommitUnregister, Unregister, StagedOK, JobOK, Unplaced, writer, locks
  <2> QED BY <1>1, <2>1, <2>2, Elsewhere
<1>3. CASE PutBlobFile(g)
  <2>1. Goes(g)
    BY <1>1, <1>3, GotoStep DEF PutBlobFile, Goes, JobOK, Unplaced, Steps
  <2>2. Calm
    BY <1>1, <1>3, StillIsCalm DEF PutBlobFile, Unregister, StagedOK, JobOK, Unplaced, writer, locks
  <2> QED BY <1>1, <2>1, <2>2, Elsewhere
<1>4. CASE RecordBlob(g)
  <2>1. Goes(g)
    BY <1>1, <1>4, GotoStep DEF RecordBlob, Goes, JobOK, Unplaced, Steps
  <2>2. Calm
    BY <1>1, <1>4, StillIsCalm DEF RecordBlob, Unregister, StagedOK, JobOK, Unplaced, writer, locks
  <2> QED BY <1>1, <2>1, <2>2, Elsewhere
<1>5. CASE CommitDeleteSession(g)
  <2>1. Goes(g)
    BY <1>1, <1>5, GotoStep DEF CommitDeleteSession, Goes, JobOK, Unplaced, Steps
  <2>2. Calm
    BY <1>1, <1>5, StillIsCalm DEF CommitDeleteSession, Unregister, StagedOK, JobOK, Unplaced, writer, locks
  <2> QED BY <1>1, <2>1, <2>2, Elsewhere
<1> QED BY <1>2, <1>3, <1>4, <1>5

(***************************************************************************)
(* The reaper, the purge and the sweep of the staging files.               *)
(***************************************************************************)
LEMMA CleanStep ==
  ASSUME UploadInv, NEW g \in Cleaners,
         \/ CleanExpiredUploads(g) \/ PurgeUploadSessions(g)
         \/ TakeSession(g) \/ DeleteUploadSession(g) \/ LockMap(g) \/ Path(g) \/ Sweep(g)
  PROVE  UploadInv'
<1>1. JobOK /\ StagedOK /\ WriterOK /\ g \in Goroutines
  BY DEF UploadInv, Goroutines
<1>2. CASE CleanExpiredUploads(g) \/ PurgeUploadSessions(g)
  <2>1. PICK j \in Jobs : j.at = "next" /\ job' = [job EXCEPT ![g] = j]
    <3>1. CASE CleanExpiredUploads(g)
      <4> DEFINE j == [Idle EXCEPT !.at = "next",
                                   !.list = {u \in Uploads : row[u] = "expired"}]
      <4>1. j \in Jobs /\ j.at = "next"
        BY DEF Idle, Jobs, Steps, Torn
      <4> QED BY <3>1, <4>1 DEF CleanExpiredUploads
    <3>2. CASE PurgeUploadSessions(g)
      <4> DEFINE j == [Idle EXCEPT !.at = "next", !.all = TRUE,
                                   !.list = {u \in Uploads : row[u] # "none"}]
      <4>1. j \in Jobs /\ j.at = "next"
        BY DEF Idle, Jobs, Steps, Torn
      <4> QED BY <3>2, <4>1 DEF PurgeUploadSessions
    <3> QED BY <1>2, <3>1, <3>2
  <2>2. job[g].at = "idle"
    BY <1>2 DEF CleanExpiredUploads, PurgeUploadSessions
  <2>3. Goes(g)
    BY <1>1, <2>1, <2>2, SetJob DEF Goes, Unplaced
  <2>4. Calm
    BY <1>1, <1>2, StillIsCalm DEF CleanExpiredUploads, PurgeUploadSessions, writer, locks, StagedOK
  <2> QED BY <1>1, <2>3, <2>4, Elsewhere
<1>3. CASE TakeSession(g)
  <2>1. job[g] \in Jobs /\ job[g].at = "next"
    BY <1>1, <1>3 DEF TakeSession, JobOK
  <2>2. PICK j \in Jobs :
          /\ job' = [job EXCEPT ![g] = j]
          /\ j.at \in {"lockMap", "cleanup", "deleteRow"}
          /\ j.at # "lockMap" => j.upload \in Uploads
    <3>1. CASE job' = [job EXCEPT ![g].at = "lockMap", ![g].matches = staged]
      <4> DEFINE j == [job[g] EXCEPT !.at = "lockMap", !.matches = staged]
      <4>1. j \in Jobs /\ j.at = "lockMap"
        BY <2>1, <1>1 DEF Jobs, Steps, StagedOK
      <4>2. job' = [job EXCEPT ![g] = j]
        BY <3>1
      <4> QED BY <4>1, <4>2
    <3>2. ASSUME NEW u \in job[g].list, NEW at \in {"cleanup", "deleteRow"},
                 job' = [job EXCEPT ![g].upload = u, ![g].list = @ \ {u}, ![g].at = at]
          PROVE  \E j \in Jobs :
                   /\ job' = [job EXCEPT ![g] = j]
                   /\ j.at \in {"lockMap", "cleanup", "deleteRow"}
                   /\ j.at # "lockMap" => j.upload \in Uploads
      <4> DEFINE j == [job[g] EXCEPT !.upload = u, !.list = @ \ {u}, !.at = at]
      <4>1. j \in Jobs /\ j.at = at /\ j.upload \in Uploads
        BY <2>1 DEF Jobs, Steps
      <4>2. job' = [job EXCEPT ![g] = j]
        BY <3>2
      <4> QED BY <4>1, <4>2
    <3>3. CASE job[g].list # {}
      <4>1. PICK u \in job[g].list :
              job' = [job EXCEPT ![g].upload = u, ![g].list = @ \ {u},
                           ![g].at = IF u \in registered THEN "cleanup" ELSE "deleteRow"]
        BY <1>3, <3>3 DEF TakeSession
      <4> QED BY <4>1, <3>2
    <3> QED BY <1>3, <3>1, <3>3 DEF TakeSession
  <2>3. Goes(g)
    BY <1>1, <2>1, <2>2, SetJob DEF Goes, Unplaced
  <2>4. Calm
    BY <1>1, <1>3, StillIsCalm DEF TakeSession, Unregister, writer, locks, StagedOK
  <2> QED BY <1>1, <2>3, <2>4, Elsewhere
<1>4. CASE DeleteUploadSession(g)
  <2>1. Goes(g)
    BY <1>1, <1>4, GotoStep DEF DeleteUploadSession, Goes, JobOK, Unplaced, Steps
  <2>2. Calm
    BY <1>1, <1>4, StillIsCalm DEF DeleteUploadSession, Unregister, StagedOK, JobOK, Unplaced, writer, locks
  <2> QED BY <1>1, <2>1, <2>2, Elsewhere
<1>5. CASE LockMap(g)
  <2> DEFINE j == [job[g] EXCEPT !.at = "paths", !.list = registered]
  <2>1. job[g] \in Jobs /\ job[g].at = "lockMap"
    BY <1>1, <1>5 DEF LockMap, JobOK
  <2>2. j \in Jobs /\ j.at = "paths"
    BY <2>1, <1>1 DEF Jobs, Steps, StagedOK
  <2>3. job' = [job EXCEPT ![g] = j]
    BY <1>5 DEF LockMap
  <2> HIDE DEF j
  <2>4. Goes(g)
    BY <1>1, <2>1, <2>2, <2>3, SetJob DEF Goes, Unplaced
  <2>5. Calm
    BY <1>1, <1>5, StillIsCalm DEF LockMap, writer, StagedOK
  <2> QED BY <1>1, <2>4, <2>5, Elsewhere
<1>6. CASE Path(g)
  <2>1. job[g] \in Jobs /\ job[g].at = "paths"
    BY <1>1, <1>6 DEF Path, JobOK
  <2>2. ASSUME Goto(g, "sweep") PROVE Goes(g)
    BY <1>1, <2>1, <2>2, GotoStep DEF Goes, Unplaced, Steps
  <2>3. ASSUME NEW u \in job[g].list,
               job' = [job EXCEPT ![g].list = @ \ {u},
                         ![g].active = IF handle[u] = "open" THEN @ \union {u} ELSE @]
        PROVE  Goes(g)
    <3> DEFINE j == [job[g] EXCEPT !.list = @ \ {u},
                       !.active = IF handle[u] = "open" THEN @ \union {u} ELSE @]
    <3>1. j \in Jobs /\ j.at = "paths"
      BY <2>1 DEF Jobs
    <3>2. job' = [job EXCEPT ![g] = j]
      BY <2>3
    <3> HIDE DEF j
    <3> QED BY <1>1, <2>1, <3>1, <3>2, SetJob DEF Goes, Unplaced
  <2>4. Goes(g)
    BY <1>6, <2>2, <2>3 DEF Path
  <2>5. Calm
    BY <1>1, <1>6, StillIsCalm DEF Path, writer, StagedOK
  <2> QED BY <1>1, <2>4, <2>5, Elsewhere
<1>7. CASE Sweep(g)
  <2>1. job[g] \in Jobs /\ job[g].at = "sweep"
    BY <1>1, <1>7 DEF Sweep, JobOK
  <2>2. ASSUME Return(g) PROVE Goes(g)
    BY <1>1, <2>1, <2>2, ReturnStep DEF Goes
  <2>3. ASSUME NEW u, job' = [job EXCEPT ![g].matches = @ \ {u}]
        PROVE  Goes(g)
    <3> DEFINE j == [job[g] EXCEPT !.matches = @ \ {u}]
    <3>1. j \in Jobs /\ j.at = "sweep"
      BY <2>1 DEF Jobs
    <3>2. job' = [job EXCEPT ![g] = j]
      BY <2>3
    <3> HIDE DEF j
    <3> QED BY <1>1, <2>1, <3>1, <3>2, SetJob DEF Goes, Unplaced
  <2>4. Goes(g)
    BY <1>7, <2>2, <2>3 DEF Sweep
  <2>5. Calm
    BY <1>1, <1>7, StillIsCalm DEF Sweep, locks, StagedOK
  <2> QED BY <1>1, <2>4, <2>5, Elsewhere
<1> QED BY <1>2, <1>3, <1>4, <1>5, <1>6, <1>7

(***************************************************************************)
(* The end of a writer: the file is closed and removed, then onDone.       *)
(***************************************************************************)
LEMMA CleanupStep ==
  ASSUME UploadInv, NEW g \in Goroutines,
         Cleanup(g) \/ OnDone(g) \/ OnDoneDeleteSession(g)
  PROVE  UploadInv'
<1>1. JobOK /\ StagedOK /\ WriterOK /\ g \in Goroutines
  BY DEF UploadInv, Goroutines
<1>2. ASSUME job[g].at \in {"cleanup", "onDoneRow"}, AfterCleanup(g) PROVE Goes(g)
  <2>1. job[g].upload \in Uploads
    BY <1>1, <1>2 DEF JobOK, Unplaced
  <2>2. ASSUME Goto(g, "deleteRow") PROVE Goes(g)
    BY <1>1, <1>2, <2>1, <2>2, GotoStep DEF Goes, Steps
  <2>3. ASSUME Return(g) PROVE Goes(g)
    BY <1>1, <1>2, <2>3, ReturnStep DEF Goes
  <2> QED BY <1>2, <2>2, <2>3 DEF AfterCleanup
<1>3. CASE Cleanup(g)
  <2>1. job[g].at = "cleanup" /\ job[g].upload \in Uploads
    BY <1>1, <1>3 DEF Cleanup, JobOK, Unplaced
  <2>2. CASE handle[job[g].upload] = "nil"
    <3>1. Calm
      BY <1>1, <1>3, <2>2, StillIsCalm DEF Cleanup, locks, StagedOK
    <3> QED BY <1>1, <1>2, <1>3, <2>1, <2>2, <3>1, Elsewhere DEF Cleanup
  <2>3. CASE handle[job[g].upload] # "nil"
    <3>1. Goes(g)
      BY <1>1, <1>3, <2>1, <2>3, GotoStep DEF Cleanup, Goes, Steps
    <3>2. Calm
      BY <1>1, <1>3, <2>1, <2>3 DEF Cleanup, Calm, WriterOK, StagedOK, locks
    <3> QED BY <1>1, <3>1, <3>2, Elsewhere
  <2> QED BY <2>2, <2>3
<1>4. CASE OnDone(g)
  <2>1. Goes(g)
    BY <1>1, <1>4, GotoStep DEF OnDone, Goes, JobOK, Unplaced, Steps
  <2>2. writerLock' = writerLock
    <3>1. \A u \in Uploads : writerLock[u] # g
      BY <1>1, <1>4 DEF OnDone, UploadInv, HolderWrites
    <3> QED BY <1>1, <1>4, <3>1 DEF OnDone, WriterOK
  <2>3. Calm
    BY <1>1, <1>4, <2>2, StillIsCalm DEF OnDone, Unregister, StagedOK, writer
  <2> QED BY <1>1, <2>1, <2>3, Elsewhere
<1>5. CASE OnDoneDeleteSession(g)
  <2>1. Calm
    BY <1>1, <1>5, StillIsCalm DEF OnDoneDeleteSession, writer, locks, StagedOK
  <2> QED BY <1>1, <1>2, <1>5, <2>1, Elsewhere DEF OnDoneDeleteSession
<1> QED BY <1>3, <1>4, <1>5

(***************************************************************************)
(* Write: the mutex is taken for the check, kept for the file, and given   *)
(* back.  Only an upload that is not done gets a chunk.                    *)
(***************************************************************************)
LEMMA WriteStep ==
  ASSUME UploadInv, NEW g \in Requests,
         Write(g) \/ WriteFile(g)
  PROVE  UploadInv'
<1>1. JobOK /\ StagedOK /\ WriterOK /\ g \in Goroutines
  BY DEF UploadInv, Goroutines
<1> USE UploadAssumption
<1> DEFINE u == job[g].upload
<1>2. HolderWrites /\ WriterHolds /\ Compared
  BY DEF UploadInv
<1>3. CASE Write(g) /\ done[u]
  <2>1. Goes(g)
    BY <1>1, <1>3, ReturnStep DEF Write, Goes
  <2>2. Calm
    BY <1>1, <1>3, StillIsCalm DEF Write, writer, StagedOK
  <2> QED BY <1>1, <2>1, <2>2, Elsewhere
<1>4. CASE Write(g) /\ ~done[u]
  <2>1. u \in Uploads /\ job[g].at = "write" /\ Free(u) /\ Goto(g, "writing")
    BY <1>1, <1>4 DEF Write, JobOK, Unplaced
  <2>2. /\ JobOK'
        /\ \A h \in Goroutines : h # g => job'[h] = job[h]
        /\ job'[g].at = "writing" /\ job'[g].upload = u
    BY <1>1, <2>1, GotoStep DEF Steps
  <2>3. /\ writerLock' = [writerLock EXCEPT ![u] = g]
        /\ UNCHANGED <<handle, done, content, registered, staged>>
    BY <1>4 DEF Write, writer
  <2>4. WriterOK' /\ StagedOK'
    BY <1>1, <2>1, <2>3 DEF WriterOK, StagedOK
  <2>5. HolderWrites'
    BY <1>1, <1>2, <2>1, <2>2, <2>3 DEF HolderWrites, WriterOK
  <2>6. WriterHolds'
    <3> SUFFICES ASSUME NEW h \in Goroutines, job'[h].at = "writing"
                 PROVE  writerLock'[job'[h].upload] = h /\ ~done'[job'[h].upload]
      BY DEF WriterHolds
    <3>1. CASE h = g
      BY <1>1, <1>4, <2>1, <2>2, <2>3, <3>1 DEF WriterOK
    <3>2. CASE h # g
      <4>1. job[h].upload \in Uploads /\ writerLock[job[h].upload] = h /\ ~done[job[h].upload]
        BY <1>1, <1>2, <2>2, <3>2 DEF JobOK, Unplaced, WriterHolds
      <4>2. job[h].upload # u
        BY <2>1, <4>1 DEF Free, Goroutines
      <4> QED BY <1>1, <2>1, <2>2, <2>3, <3>2, <4>1, <4>2 DEF WriterOK
    <3> QED BY <3>1, <3>2
  <2>7. Compared'
    BY <1>2, <2>2, <2>3 DEF Compared
  <2> QED BY <2>2, <2>4, <2>5, <2>6, <2>7 DEF UploadInv
<1>5. CASE WriteFile(g)
  <2>1. u \in Uploads /\ job[g].at = "writing" /\ writerLock[u] = g /\ ~done[u]
    BY <1>1, <1>2, <1>5 DEF WriteFile, JobOK, Unplaced, WriterHolds
  <2>2. /\ JobOK'
        /\ \A h \in Goroutines : h # g => job'[h] = job[h]
        /\ job'[g].at = "idle"
    BY <1>1, <1>5, ReturnStep DEF WriteFile
  <2>3. /\ writerLock' = [writerLock EXCEPT ![u] = Nobody]
        /\ UNCHANGED <<handle, done, registered, staged>>
    BY <1>5 DEF WriteFile
  <2>4. DOMAIN content' = Uploads /\ \A v \in Uploads : v # u => content'[v] = content[v]
    BY <1>1, <1>5, <2>1 DEF WriteFile, WriterOK
  <2>5. WriterOK' /\ StagedOK'
    BY <1>1, <2>1, <2>3, <2>4 DEF WriterOK, StagedOK
  <2>6. HolderWrites'
    BY <1>1, <1>2, <2>1, <2>2, <2>3 DEF HolderWrites, WriterOK, Goroutines
  <2>7. WriterHolds'
    <3> SUFFICES ASSUME NEW h \in Goroutines, job'[h].at = "writing"
                 PROVE  writerLock'[job'[h].upload] = h /\ ~done'[job'[h].upload]
      BY DEF WriterHolds
    <3>1. h # g /\ job'[h] = job[h]
      BY <2>2
    <3>2. job[h].upload \in Uploads /\ writerLock[job[h].upload] = h /\ ~done[job[h].upload]
      BY <1>1, <1>2, <3>1 DEF JobOK, Unplaced, WriterHolds
    <3>3. job[h].upload # u
      BY <2>1, <3>1, <3>2
    <3> QED BY <1>1, <2>1, <2>3, <3>1, <3>2, <3>3 DEF WriterOK
  <2>8. Compared'
    <3> SUFFICES ASSUME NEW h \in Goroutines, job'[h].at \in {"unregister", "put"}
                 PROVE  /\ done'[job'[h].upload]
                        /\ content'[job'[h].upload] = Blob \/ handle'[job'[h].upload] = "nil"
      BY DEF Compared
    <3>1. h # g /\ job'[h] = job[h]
      BY <2>2
    <3>2. /\ done[job[h].upload] /\ job[h].upload \in Uploads
          /\ content[job[h].upload] = Blob \/ handle[job[h].upload] = "nil"
      BY <1>1, <1>2, <3>1 DEF Compared, JobOK, Unplaced
    <3>3. job[h].upload # u
      BY <2>1, <3>2
    <3> QED BY <2>3, <2>4, <3>1, <3>2, <3>3
  <2> QED BY <2>2, <2>5, <2>6, <2>7, <2>8 DEF UploadInv
<1> QED BY <1>3, <1>4, <1>5

(***************************************************************************)
(* Commit: under the free mutex the upload is done and its digest compared. *)
(***************************************************************************)
LEMMA CommitStep ==
  ASSUME UploadInv, NEW g \in Requests,
         Commit(g)
  PROVE  UploadInv'
<1>1. JobOK /\ StagedOK /\ WriterOK /\ g \in Goroutines
  BY DEF UploadInv, Goroutines
<1> USE UploadAssumption
<1> DEFINE u == job[g].upload
<1>2. u \in Uploads /\ job[g].at = "commit" /\ Free(u)
  BY <1>1 DEF Commit, JobOK, Unplaced
<1>3. Calm /\ done'[u] /\ UNCHANGED <<content, handle>>
  BY <1>1, <1>2 DEF Commit, Calm, WriterOK, StagedOK, locks
<1>4. CASE Return(g)
  <2>1. Goes(g)
    BY <1>1, <1>2, <1>4, ReturnStep DEF Goes
  <2> QED BY <1>1, <1>3, <2>1, Elsewhere
<1>5. CASE Goto(g, "cleanup")
  <2>1. Goes(g)
    BY <1>1, <1>2, <1>5, GotoStep DEF Goes, Steps
  <2> QED BY <1>1, <1>3, <2>1, Elsewhere
<1>6. CASE Goto(g, "unregister") /\ content[u] = Blob
  <2>1. /\ JobOK'
        /\ \A h \in Goroutines : h # g => job'[h] = job[h]
        /\ job'[g].at = "unregister" /\ job'[g].upload = u
    BY <1>1, <1>2, <1>6, GotoStep DEF Steps
  <2>2. HolderWrites'
    BY <1>1, <1>2, <1>3, <2>1 DEF UploadInv, HolderWrites, Calm
  <2>3. WriterHolds'
    <3> SUFFICES ASSUME NEW h \in Goroutines, job'[h].at = "writing"
                 PROVE  writerLock'[job'[h].upload] = h /\ ~done'[job'[h].upload]
      BY DEF WriterHolds
    <3>1. h # g /\ job'[h] = job[h]
      BY <2>1
    <3>2. job[h].upload \in Uploads /\ writerLock[job[h].upload] = h /\ ~done[job[h].upload]
      BY <1>1, <3>1 DEF UploadInv, JobOK, Unplaced, WriterHolds
    <3> QED BY <1>3, <3>1, <3>2 DEF Calm, Free, Goroutines
  <2>4. Compared'
    <3> SUFFICES ASSUME NEW h \in Goroutines, job'[h].at \in {"unregister", "put"}
                 PROVE  /\ done'[job'[h].upload]
                        /\ content'[job'[h].upload] = Blob \/ handle'[job'[h].upload] = "nil"
      BY DEF Compared
    <3>1. CASE h = g
      BY <1>3, <1>6, <2>1, <3>1
    <3>2. CASE h # g
      <4>1. /\ done[job[h].upload] /\ job[h].upload \in Uploads
            /\ content[job[h].upload] = Blob \/ handle[job[h].upload] = "nil"
        BY <1>1, <2>1, <3>2 DEF UploadInv, Compared, JobOK, Unplaced
      <4> QED BY <1>3, <2>1, <3>2, <4>1 DEF Calm
    <3> QED BY <3>1, <3>2
  <2> QED BY <1>3, <2>1, <2>2, <2>3, <2>4 DEF UploadInv, Calm
<1>7. Return(g) \/ Goto(g, "cleanup") \/ (Goto(g, "unregister") /\ content[u] = Blob)
  BY <1>1, <1>2 DEF Commit, WriterOK
<1> QED BY <1>4, <1>5, <1>6, <1>7
-----------------------------------------------------------------------------
(***************************************************************************)
(* The invariant holds at the start and is kept by every step of the       *)
(* requests and the cleaners, by time, by a delete of the repository and   *)
(* by a crash.                                                             *)
(***************************************************************************)
LEMMA UploadInvInductive ==
  /\ Init => UploadInv
  /\ UploadInv /\ [Next]_vars => UploadInv'
<1> USE UploadAssumption
<1>1. ASSUME Init PROVE UploadInv
  <2>1. Idle \in Jobs /\ Idle.at = "idle"
    BY DEF Idle, Jobs, Steps, Torn
  <2>2. /\ \A g \in Goroutines : job[g].at = "idle"
        /\ \A u \in Uploads : writerLock[u] = Nobody
    BY <1>1, <2>1 DEF Init
  <2>3. JobOK
    BY <1>1, <2>1 DEF Init, JobOK, Unplaced
  <2>4. WriterOK /\ StagedOK
    BY <1>1 DEF Init, WriterOK, StagedOK
  <2>5. HolderWrites /\ WriterHolds /\ Compared
    BY <2>2 DEF HolderWrites, WriterHolds, Compared, Goroutines
  <2> QED BY <2>3, <2>4, <2>5 DEF UploadInv
<1>2. ASSUME UploadInv, [Next]_vars PROVE UploadInv'
  <2>1. ASSUME NEW g \in Requests,
               \/ \E u \in Uploads : CreateWriter(g, u)
               \/ \E u \in Uploads, c \in {Torn} \union 1..Len(Blob) : Request(g, u, c)
               \/ Serve(g)
        PROVE  UploadInv'
    BY <1>2, <2>1, StartStep, ResumeStep, StoreStep, WriteStep, CommitStep DEF Serve
  <2>2. ASSUME NEW g \in Cleaners, CleanExpiredUploads(g) \/ PurgeUploadSessions(g) \/ Clean(g)
        PROVE  UploadInv'
    BY <1>2, <2>2, CleanStep DEF Clean
  <2>3. ASSUME NEW g \in Goroutines, Release(g) PROVE UploadInv'
    BY <1>2, <2>3, CleanupStep DEF Release
  <2>4. CASE UNCHANGED <<job, content, writerLock, done, handle, registered, staged>>
    <3>1. StagedOK'
      BY <1>2, <2>4 DEF UploadInv, StagedOK
    <3> QED BY <1>2, <2>4, <3>1, Apart
  <2>5. ASSUME NEW u \in Uploads, Expire(u) \/ GrowIdle(u) PROVE UploadInv'
    BY <2>4, <2>5 DEF Expire, GrowIdle, writer, locks
  <2>6. CASE DeleteRepository \/ UNCHANGED vars
    BY <2>4, <2>6 DEF DeleteRepository, vars, writer, locks
  <2>7. CASE Restart
    <3>1. Idle \in Jobs /\ Idle.at = "idle"
      BY DEF Idle, Jobs, Steps, Torn
    <3>2. /\ \A g \in Goroutines : job'[g].at = "idle"
          /\ \A u \in Uploads : writerLock'[u] = Nobody
      BY <2>7, <3>1 DEF Restart
    <3>3. JobOK'
      BY <2>7, <3>1 DEF Restart, JobOK, Unplaced
    <3>4. WriterOK' /\ StagedOK'
      BY <1>2, <2>7 DEF Restart, UploadInv, WriterOK, StagedOK
    <3>5. HolderWrites' /\ WriterHolds' /\ Compared'
      BY <3>2 DEF HolderWrites, WriterHolds, Compared, Goroutines
    <3> QED BY <3>3, <3>4, <3>5 DEF UploadInv
  <2> QED BY <1>2, <2>1, <2>2, <2>3, <2>5, <2>6, <2>7 DEF Next
<1> QED BY <1>1, <1>2

(***************************************************************************)
(* The two mutexes are never waited for in a cycle, however many requests, *)
(* uploads and sweeps there are: whoever holds a writer's mutex across     *)
(* steps is inside Write, which does not ask for the map's.                *)
(***************************************************************************)
THEOREM LocksAcyclic == Spec => []NoLockCycle
<1>1. UploadInv => NoLockCycle
  BY DEF UploadInv, HolderWrites, NoLockCycle, WantsMap
<1> QED BY <1>1, UploadInvInductive, PTL DEF Spec

(***************************************************************************)
(* What Commit has compared with the client's digest is what the blob      *)
(* store reads, or the file is closed, for any number of late and repeated *)
(* requests: done is set under the mutex a Write needs.                    *)
(***************************************************************************)
THEOREM CommitStable == Spec => []CommitUndisturbed
<1>1. UploadInv => CommitUndisturbed
  BY DEF UploadInv, Compared, CommitUndisturbed, Goroutines
<1> QED BY <1>1, UploadInvInductive, PTL DEF Spec
-----------------------------------------------------------------------------
(***************************************************************************)
(* What a pushed manifest sets off.  First the types.                      *)
(***************************************************************************)
\* What can be pushed: an image, or a report of one.
Pushable == Images \union (Images \X Nat)
SomeBlob == Pushable \union UNION {Layers[m] : m \in Images}

\* The values of the variables.
PushStates == [at : {"idle", "store", "tag", "scan", "replicate"},
               digest : Pushable \union {None}, tagged : BOOLEAN, left : SUBSET Targets]
ReplJobs   == [digest : Pushable, tagged : BOOLEAN]
Frames     == [digest : Pushable, read : BOOLEAN,
               children : SUBSET Pushable, blobs : SUBSET SomeBlob]
Workers    == [at : {"idle", "replicate", "tag"}, stack : Seq(Frames),
               visited : SUBSET Pushable, tagged : BOOLEAN]
Copies     == [blobs : SUBSET SomeBlob, manifests : SUBSET Pushable, tag : Pushable \union {None}]

\* The tables of pushManifest and the queues of the targets.
PushOK ==
  /\ local \in SUBSET Pushable
  /\ localTag \in Pushable \union {None}
  /\ push \in [O!Goroutines -> PushStates]
  /\ \A p \in O!Goroutines : push[p].at # "idle" => push[p].digest \in Pushable
  /\ queue \in [Targets -> Seq(ReplJobs)]
  /\ dropped \in SUBSET Targets

\* A worker that works has a frame to work on.
WorkersOK ==
  /\ worker \in [Targets -> Workers]
  /\ \A t \in Targets : worker[t].at # "idle" => worker[t].stack # <<>>
  /\ copies \in [Targets -> Copies]

\* The scanner takes images.
ScanOK ==
  /\ scanQueue \in Seq(Images)
  /\ scan \in [at : {"idle", "check", "scan", "attach"}, digest : Images \union {None}]
  /\ scan.at # "idle" => scan.digest \in Images

\* What was lost, and what may still happen.
BudgetOK ==
  /\ pushHistory \in [fault : BOOLEAN, overlap : BOOLEAN, unchecked : BOOLEAN]
  /\ pushBudget \in O!Settings

PushType == PushOK /\ WorkersOK /\ ScanOK /\ BudgetOK

\* What a manifest refers to.
LEMMA RefsType ==
  ASSUME O!ObserversAssumption, NEW m \in Pushable
  PROVE  O!BlobsOf(m) \in SUBSET SomeBlob /\ O!ChildrenOf(m) \in SUBSET Pushable
BY DEF O!ObserversAssumption, O!BlobsOf, O!ChildrenOf, SomeBlob, Pushable

\* The instance has a Cardinality of its own.
LEMMA SameCardinality == ASSUME NEW S PROVE O!Cardinality(S) = Cardinality(S)
BY DEF O!Cardinality, Cardinality

\* An image has a number of reports.
LEMMA ReportCount ==
  ASSUME NEW m \in Images
  PROVE  IsFiniteSet(O!ReportsOf(m)) /\ O!Cardinality(O!ReportsOf(m)) \in Nat
<1> DEFINE one == {<<m, 1>>}
<1>1. O!ReportsOf(m) \subseteq one \union {<<m, 2>>}
  BY DEF O!ReportsOf, O!Reports
<1>2. IsFiniteSet(one)
  BY FS_Singleton
<1>3. IsFiniteSet(one \union {<<m, 2>>})
  BY <1>2, FS_AddElement
<1> QED  BY <1>1, <1>3, FS_Subset, FS_CardinalityType, SameCardinality

\* A push or a fault is taken from the budget.
LEMMA SpendType ==
  ASSUME BudgetOK, NEW k \in {"pushes", "faults"}, O!Spend(k)
  PROVE  /\ pushBudget' \in O!Settings
         /\ pushBudget'.matched = pushBudget.matched
         /\ pushBudget'.scanner = pushBudget.scanner
BY DEF BudgetOK, O!Spend, O!Settings

\* A fault is remembered.
LEMMA FaultType ==
  ASSUME BudgetOK, O!Fault
  PROVE  /\ BudgetOK' /\ pushHistory'.fault
         /\ pushHistory' = [pushHistory EXCEPT !.fault = TRUE]
         /\ pushBudget'.matched = pushBudget.matched
<1>1. O!Spend("faults")  BY DEF O!Fault
<1> QED  BY <1>1, SpendType DEF BudgetOK, O!Fault

\* A goroutine of pushManifest moves on.
LEMMA GotoType ==
  ASSUME PushOK, NEW p \in O!Goroutines, push[p].at # "idle",
         NEW s \in {"tag", "scan", "replicate"}, push' = [push EXCEPT ![p].at = s]
  PROVE  /\ push' \in [O!Goroutines -> PushStates]
         /\ \A q \in O!Goroutines : push'[q].at # "idle" => push'[q].digest \in Pushable
         /\ push[p].digest \in Pushable
BY DEF PushOK, PushStates

\* The steps of pushManifest keep the types.
LEMMA PushActionsType ==
  ASSUME O!ObserversAssumption, PushType,
         \/ \E p \in Pushers, m \in Images, tagged \in BOOLEAN : O!Push(p, m, tagged)
         \/ \E p \in O!Goroutines :
              \/ O!PutManifest(p) \/ O!PutTag(p) \/ O!OnPushScan(p) \/ O!Pushed(p)
              \/ \E t \in Targets : O!OnPushReplicate(p, t)
  PROVE  PushType'
<1> USE DEF PushType
<1>1. ASSUME NEW p \in Pushers, NEW m \in Images, NEW tagged \in BOOLEAN, O!Push(p, m, tagged)
      PROVE  PushType'
  <2>1. BudgetOK' /\ pushBudget.matched \in SUBSET Targets
    BY <1>1, SpendType DEF O!Push, BudgetOK, O!Settings
  <2>2. PushOK'
    BY <1>1, <2>1 DEF O!Push, O!Begin, PushOK, PushStates, Pushable, O!Goroutines, O!here
  <2>3. WorkersOK' /\ ScanOK'
    BY <1>1 DEF O!Push, WorkersOK, ScanOK, O!scanner
  <2> QED  BY <2>1, <2>2, <2>3
<1>2. ASSUME NEW p \in O!Goroutines, O!PutManifest(p)
      PROVE  PushType'
  <2>1. (IF push[p].tagged THEN "tag" ELSE "scan") \in {"tag", "scan", "replicate"}
    OBVIOUS
  <2>2. /\ push' \in [O!Goroutines -> PushStates]
        /\ \A q \in O!Goroutines : push'[q].at # "idle" => push'[q].digest \in Pushable
        /\ push[p].digest \in Pushable
    BY <1>2, <2>1, GotoType DEF O!PutManifest
  <2>3. PushOK'
    BY <1>2, <2>2 DEF O!PutManifest, PushOK, O!here
  <2> QED  BY <1>2, <2>3 DEF O!PutManifest, WorkersOK, ScanOK, BudgetOK, O!scanner
<1>3. ASSUME NEW p \in O!Goroutines, O!PutTag(p)
      PROVE  PushType'
  <2>1. "scan" \in {"tag", "scan", "replicate"}
    OBVIOUS
  <2>2. /\ push' \in [O!Goroutines -> PushStates]
        /\ \A q \in O!Goroutines : push'[q].at # "idle" => push'[q].digest \in Pushable
        /\ push[p].digest \in Pushable
    BY <1>3, <2>1, GotoType DEF O!PutTag
  <2>3. PushOK'
    BY <1>3, <2>2 DEF O!PutTag, PushOK, O!here
  <2> QED  BY <1>3, <2>3 DEF O!PutTag, WorkersOK, ScanOK, BudgetOK, O!scanner
<1>4. ASSUME NEW p \in O!Goroutines, O!OnPushScan(p)
      PROVE  PushType'
  <2>1. "replicate" \in {"tag", "scan", "replicate"}
    OBVIOUS
  <2>2. /\ push' \in [O!Goroutines -> PushStates]
        /\ \A q \in O!Goroutines : push'[q].at # "idle" => push'[q].digest \in Pushable
        /\ push[p].digest \in Pushable
    BY <1>4, <2>1, GotoType DEF O!OnPushScan
  <2>3. PushOK'
    BY <1>4, <2>2 DEF O!OnPushScan, PushOK, O!here
  <2> QED  BY <1>4, <2>3 DEF O!OnPushScan, WorkersOK, ScanOK, BudgetOK, O!scanner
<1>5. ASSUME NEW p \in O!Goroutines, O!Pushed(p)
      PROVE  PushType'
  BY <1>5 DEF O!Pushed, O!NoPush, PushOK, WorkersOK, ScanOK, BudgetOK, PushStates, O!here, O!scanner
<1>6. ASSUME NEW p \in O!Goroutines, NEW t \in Targets, O!OnPushReplicate(p, t)
      PROVE  PushType'
  <2>1. WorkersOK' /\ ScanOK' /\ BudgetOK'
    BY <1>6 DEF O!OnPushReplicate, WorkersOK, ScanOK, BudgetOK, O!here, O!scanner
  <2>2. [digest |-> push[p].digest, tagged |-> push[p].tagged] \in ReplJobs
    <3>1. push[p].digest \in Pushable /\ push[p] \in PushStates
      BY <1>6 DEF O!OnPushReplicate, PushOK
    <3> QED  BY <3>1, Zenon DEF PushStates, ReplJobs
  <2>3. queue' \in [Targets -> Seq(ReplJobs)] /\ dropped' \in SUBSET Targets
    <3>1. \A j \in ReplJobs : Append(queue[t], j) \in Seq(ReplJobs)
      BY DEF PushOK
    <3>2. \A j \in ReplJobs : [queue EXCEPT ![t] = Append(@, j)] \in [Targets -> Seq(ReplJobs)]
      BY <3>1 DEF PushOK
    <3>3. \/ queue' = queue
          \/ queue' = [queue EXCEPT ![t] =
                         Append(@, [digest |-> push[p].digest, tagged |-> push[p].tagged])]
      BY <1>6 DEF O!OnPushReplicate
    <3>4. queue' \in [Targets -> Seq(ReplJobs)]
      BY <2>2, <3>2, <3>3 DEF PushOK
    <3> QED  BY <1>6, <3>4 DEF O!OnPushReplicate, PushOK
  <2>4. PushOK'
    BY <1>6, <2>3 DEF O!OnPushReplicate, PushOK, PushStates, O!here
  <2> QED  BY <2>1, <2>4
<1> QED  BY <1>1, <1>2, <1>3, <1>4, <1>5, <1>6

\* So do the steps of the scanner.
LEMMA ScanActionsType ==
  ASSUME O!ObserversAssumption, PushType, O!ScanPop \/ O!HasReferrer \/ O!Scan \/ O!Scanned
  PROVE  PushType'
<1> USE DEF PushType
<1>1. CASE O!ScanPop
  BY <1>1 DEF O!ScanPop, PushOK, WorkersOK, ScanOK, BudgetOK, O!here
<1>2. CASE O!HasReferrer
  <2>1. BudgetOK'
    <3>1. CASE O!NoFault  BY <3>1 DEF O!NoFault, BudgetOK
    <3>2. CASE /\ O!Spend("faults")
               /\ pushHistory' = [pushHistory EXCEPT !.fault = TRUE, !.unchecked = TRUE]
      BY <3>2, SpendType DEF BudgetOK
    <3> QED  BY <1>2, <3>1, <3>2 DEF O!HasReferrer
  <2>2. PushOK' /\ WorkersOK'
    BY <1>2 DEF O!HasReferrer, PushOK, WorkersOK, O!here
  <2>3. ScanOK'
    BY <1>2 DEF O!HasReferrer, ScanOK, O!NoScan
  <2> QED  BY <2>1, <2>2, <2>3
<1>3. CASE O!Scan
  <2>0. scan.digest \in Images
    BY <1>3 DEF O!Scan, ScanOK
  <2>1. BudgetOK'
    BY <1>3, FaultType DEF O!Scan, O!NoFault, BudgetOK
  <2>2. WorkersOK' /\ ScanOK'
    <3>1. /\ scan' = [scan EXCEPT !.at = "attach"] \/ scan' = O!NoScan
          /\ UNCHANGED <<worker, copies, scanQueue>>
      BY <1>3 DEF O!Scan
    <3> QED  BY <3>1, <2>0 DEF WorkersOK, ScanOK, O!NoScan
  <2>3. <<scan.digest, O!Cardinality(O!ReportsOf(scan.digest)) + 1>> \in Pushable
    BY <2>0, ReportCount DEF Pushable
  <2>4. pushBudget.matched \in SUBSET Targets
    BY DEF BudgetOK, O!Settings
  <2>5. PushOK'
    <3>1. UNCHANGED <<local, localTag, queue, dropped>>
      BY <1>3 DEF O!Scan, O!here
    <3>2. \/ push' = push
          \/ push' = [push EXCEPT ![O!Scanning] =
               [at |-> "store", digest |-> <<scan.digest, O!Cardinality(O!ReportsOf(scan.digest)) + 1>>,
                tagged |-> FALSE, left |-> pushBudget.matched]]
      BY <1>3 DEF O!Scan, O!Begin
    <3>3. \A r \in Pushable :
            LET q == [push EXCEPT ![O!Scanning] =
                        [at |-> "store", digest |-> r, tagged |-> FALSE,
                         left |-> pushBudget.matched]]
            IN /\ q \in [O!Goroutines -> PushStates]
               /\ \A p \in O!Goroutines : q[p].at # "idle" => q[p].digest \in Pushable
      BY <2>4 DEF PushOK, PushStates, O!Goroutines
    <3> QED  BY <3>1, <3>2, <3>3, <2>3 DEF PushOK
  <2> QED  BY <2>1, <2>2, <2>5
<1>4. CASE O!Scanned
  BY <1>4 DEF O!Scanned, O!NoScan, PushOK, WorkersOK, ScanOK, BudgetOK, O!here
<1> QED  BY <1>1, <1>2, <1>3, <1>4


-----------------------------------------------------------------------------
(***************************************************************************)
(* What the worker of one target does: from w0, with the copy r0 at the    *)
(* target, it comes to w, with the copy r.                                 *)
(***************************************************************************)
Last(w) == w.stack[Len(w.stack)]
Done(f) == f.read /\ f.children = {} /\ f.blobs = {}
Replaced(w, f) == [w EXCEPT !.stack = [@ EXCEPT ![Len(@)] = f]]

\* The state in which a worker begins a job, and Pop.
WorkOn(j) == [at |-> "replicate", stack |-> <<O!Frame(j.digest)>>,
              visited |-> {j.digest}, tagged |-> j.tagged]

Popped(w0, r0, w, r, j) == w0.at = "idle" /\ w = WorkOn(j) /\ r = r0

\* ReadManifest: the lists of the frame are those of its manifest.
ReadIn(w0, r0, w, r) ==
  /\ w0.at = "replicate" /\ ~Last(w0).read /\ r = r0
  /\ w = Replaced(w0, [digest |-> Last(w0).digest, read |-> TRUE,
                       children |-> O!ChildrenOf(Last(w0).digest),
                       blobs |-> O!BlobsOf(Last(w0).digest)])

\* ReplicateChild: an entry that was entered before is skipped; another one
\* gets a frame of its own.
WithoutChild(w, c) == Replaced(w, [Last(w) EXCEPT !.children = @ \ {c}])

Skipped(w0, r0, w, r, c) ==
  /\ w0.at = "replicate" /\ Last(w0).read /\ c \in Last(w0).children
  /\ c \in w0.visited /\ w = WithoutChild(w0, c) /\ r = r0

\* The entry has not been entered in this job.
Entered(w0, r0, w, r, c) ==
  /\ w0.at = "replicate" /\ Last(w0).read /\ c \in Last(w0).children /\ r = r0
  /\ w = [w0 EXCEPT !.visited = @ \union {c},
                    !.stack = Append(WithoutChild(w0, c).stack, O!Frame(c))]

\* EnsureBlob: the blob is at the target.
Ensured(w0, r0, w, r, b) ==
  /\ w0.at = "replicate" /\ Last(w0).read /\ b \in Last(w0).blobs
  /\ w = Replaced(w0, [Last(w0) EXCEPT !.blobs = @ \ {b}])
  /\ r = [r0 EXCEPT !.blobs = @ \union {b}]

\* PutRemoteManifest: the manifest is at the target, and its frame is done.
WithManifest(w0, r0) == [r0 EXCEPT !.manifests = @ \union {Last(w0).digest}]

ManifestPut(w0, r0, w, r) ==
  /\ w0.at = "replicate" /\ Done(Last(w0)) /\ r = WithManifest(w0, r0)
  /\ w = IF Len(w0.stack) > 1 THEN [w0 EXCEPT !.stack = SubSeq(@, 1, Len(@) - 1)]
         ELSE IF w0.tagged THEN [w0 EXCEPT !.at = "tag"]
         ELSE O!NoWork

\* The job ends, on an error or not; what one more request has done may be at
\* the target.
Ended(w0, r0, w, r) ==
  /\ w0.at # "idle" /\ w = O!NoWork
  /\ \/ r = r0
     \/ \E b \in SomeBlob : r = [r0 EXCEPT !.blobs = @ \union {b}]
     \/ w0.at = "replicate" /\ Done(Last(w0)) /\ r = WithManifest(w0, r0)
     \/ w0.at = "tag" /\ r = [r0 EXCEPT !.tag = Last(w0).digest]

\* A worker by itself.
WorkerOK(w) == w \in Workers /\ (w.at # "idle" => w.stack # <<>>)

\* The stack of a worker that works, and its top.
LEMMA WorkFacts ==
  ASSUME NEW w \in Workers, WorkerOK(w), w.at # "idle"
  PROVE  /\ w.stack \in Seq(Frames) /\ Len(w.stack) \in Nat \ {0}
         /\ Last(w) \in Frames
<1>1. w.stack \in Seq(Frames) /\ w.stack # <<>>
  BY DEF WorkerOK, Workers
<1> QED  BY <1>1 DEF Last

\* Another frame on top.
LEMMA ReplacedType ==
  ASSUME NEW w \in Workers, WorkerOK(w), w.at # "idle", NEW f \in Frames
  PROVE  /\ Replaced(w, f) \in Workers /\ WorkerOK(Replaced(w, f))
         /\ Replaced(w, f).at = w.at /\ Replaced(w, f).tagged = w.tagged
         /\ Replaced(w, f).visited = w.visited
         /\ Replaced(w, f).stack = [w.stack EXCEPT ![Len(w.stack)] = f]
         /\ Replaced(w, f).stack \in Seq(Frames)
         /\ Len(Replaced(w, f).stack) = Len(w.stack)
<1> DEFINE s == [w.stack EXCEPT ![Len(w.stack)] = f]
<1>1. w.stack \in Seq(Frames) /\ Len(w.stack) \in Nat \ {0}
  BY WorkFacts
<1>2. s \in Seq(Frames) /\ Len(s) = Len(w.stack)
  BY <1>1
<1>3. Replaced(w, f) = [w EXCEPT !.stack = s]
  BY DEF Replaced
<1> HIDE DEF s
<1>4. /\ [w EXCEPT !.stack = s] \in Workers
      /\ [w EXCEPT !.stack = s].stack = s /\ [w EXCEPT !.stack = s].at = w.at
      /\ [w EXCEPT !.stack = s].visited = w.visited
  BY <1>2 DEF Workers
<1>5. [w EXCEPT !.stack = s].tagged = w.tagged
  BY Zenon DEF Workers
<1>6. s # <<>>
  BY <1>1, <1>2
<1> QED  BY <1>1, <1>2, <1>3, <1>4, <1>5, <1>6 DEF WorkerOK, s

\* A nonempty sequence without its last element.
LEMMA ButLastProperties ==
  ASSUME NEW S, NEW q \in Seq(S), Len(q) > 1
  PROVE  /\ SubSeq(q, 1, Len(q) - 1) \in Seq(S)
         /\ Len(SubSeq(q, 1, Len(q) - 1)) = Len(q) - 1
         /\ SubSeq(q, 1, Len(q) - 1) # <<>>
         /\ \A i \in 1..(Len(q) - 1) : SubSeq(q, 1, Len(q) - 1)[i] = q[i]
<1>0. Len(q) \in Nat
  OBVIOUS
<1> DEFINE n == Len(q) - 1
<1>1. n \in Nat \ {0} /\ Len(q) = n + 1
  <2>1. \A k \in Nat : k > 1 => k - 1 \in Nat \ {0} /\ k = (k - 1) + 1
    OBVIOUS
  <2> QED  BY <1>0, <2>1
<1> DEFINE u == SubSeq(q, 1, n)
<1>2. \A i \in 1..n : q[i] \in S
  BY <1>1
<1>3. u = [i \in 1..n |-> q[i]]
  BY <1>1
<1> HIDE DEF n
<1>4. [i \in 1..n |-> q[i]] \in Seq(S) /\ Len([i \in 1..n |-> q[i]]) = n
  BY <1>1, <1>2
<1>5. u \in Seq(S) /\ Len(u) = n /\ \A i \in 1..n : u[i] = q[i]
  BY <1>3, <1>4
<1>6. u # <<>>
  BY <1>1, <1>5
<1> QED  BY <1>5, <1>6 DEF n

\* The stack without its top.
LEMMA TailFacts ==
  ASSUME NEW S, NEW q \in Seq(S), q # <<>>
  PROVE  /\ Len(q) \in Nat \ {0} /\ Tail(q) \in Seq(S) /\ Len(Tail(q)) = Len(q) - 1
         /\ Head(q) = q[1]
         /\ \A i \in 1..Len(Tail(q)) : i + 1 \in 1..Len(q) /\ Tail(q)[i] = q[i + 1]
<1>1. Len(q) \in Nat \ {0} /\ Tail(q) \in Seq(S) /\ Len(Tail(q)) = Len(q) - 1 /\ Head(q) = q[1]
  OBVIOUS
<1>2. ASSUME NEW i \in 1..Len(Tail(q))
      PROVE  i + 1 \in 1..Len(q) /\ Tail(q)[i] = q[i + 1]
  BY <1>1
<1> QED  BY <1>1, <1>2

\* A frame with less to send, and a new one.
LEMMA FrameType ==
  ASSUME NEW f \in Frames
  PROVE  /\ \A c : [f EXCEPT !.children = @ \ {c}] \in Frames
         /\ \A b : [f EXCEPT !.blobs = @ \ {b}] \in Frames
         /\ \A m \in Pushable : O!Frame(m) \in Frames
BY DEF Frames, O!Frame


\* What a worker does.
Moves(w0, r0, w, r) ==
  \/ \E j \in ReplJobs : Popped(w0, r0, w, r, j)
  \/ ReadIn(w0, r0, w, r)
  \/ \E c \in Pushable : Skipped(w0, r0, w, r, c) \/ Entered(w0, r0, w, r, c)
  \/ \E b \in SomeBlob : Ensured(w0, r0, w, r, b)
  \/ ManifestPut(w0, r0, w, r)
  \/ Ended(w0, r0, w, r)

\* More at a target.
LEMMA CopyType ==
  ASSUME NEW r \in Copies
  PROVE  /\ \A b \in SomeBlob : [r EXCEPT !.blobs = @ \union {b}] \in Copies
         /\ \A m \in Pushable : [r EXCEPT !.manifests = @ \union {m}] \in Copies
         /\ \A m \in Pushable : [r EXCEPT !.tag = m] \in Copies
BY DEF Copies

\* A worker without a job.
LEMMA NoWorkType == O!NoWork \in Workers /\ WorkerOK(O!NoWork)
<1>1. <<>> \in Seq(Frames)
  OBVIOUS
<1> QED  BY <1>1 DEF O!NoWork, Workers, WorkerOK

\* A move keeps the types.
LEMMA MovesType ==
  ASSUME O!ObserversAssumption, NEW w0 \in Workers, WorkerOK(w0), NEW r0 \in Copies, NEW w, NEW r,
         Moves(w0, r0, w, r)
  PROVE  w \in Workers /\ WorkerOK(w) /\ r \in Copies
<1>1. ASSUME NEW j \in ReplJobs, Popped(w0, r0, w, r, j)
      PROVE  w \in Workers /\ WorkerOK(w) /\ r \in Copies
  <2>1. O!Frame(j.digest) \in Frames /\ j.digest \in Pushable
    BY DEF O!Frame, Frames, ReplJobs
  <2>2. <<O!Frame(j.digest)>> \in Seq(Frames) /\ <<O!Frame(j.digest)>> # <<>>
    BY <2>1
  <2>3. j.tagged \in BOOLEAN
    BY Zenon DEF ReplJobs
  <2>4. WorkOn(j) \in Workers /\ WorkOn(j).stack # <<>>
    BY <2>1, <2>2, <2>3 DEF WorkOn, Workers
  <2> QED  BY <1>1, <2>4 DEF Popped, WorkerOK
<1>2. ASSUME ReadIn(w0, r0, w, r)
      PROVE  w \in Workers /\ WorkerOK(w) /\ r \in Copies
  <2>1. Last(w0) \in Frames /\ w0.at # "idle"
    BY <1>2, WorkFacts DEF ReadIn
  <2>2. Last(w0).digest \in Pushable
    BY <2>1 DEF Frames
  <2>3. [digest |-> Last(w0).digest, read |-> TRUE,
         children |-> O!ChildrenOf(Last(w0).digest),
         blobs |-> O!BlobsOf(Last(w0).digest)] \in Frames
    BY <2>2, RefsType DEF Frames
  <2> QED  BY <1>2, <2>1, <2>3, ReplacedType DEF ReadIn
<1>3. ASSUME NEW c \in Pushable, Skipped(w0, r0, w, r, c)
      PROVE  w \in Workers /\ WorkerOK(w) /\ r \in Copies
  BY <1>3, WorkFacts, FrameType, ReplacedType DEF Skipped, WithoutChild
<1>4. ASSUME NEW c \in Pushable, Entered(w0, r0, w, r, c)
      PROVE  w \in Workers /\ WorkerOK(w) /\ r \in Copies
  <2> DEFINE v == WithoutChild(w0, c)
  <2>1. v \in Workers /\ v.stack \in Seq(Frames) /\ O!Frame(c) \in Frames
    BY <1>4, WorkFacts, FrameType, ReplacedType DEF Entered, WithoutChild
  <2> DEFINE s == Append(v.stack, O!Frame(c))
  <2>2. s \in Seq(Frames) /\ s # <<>>
    BY <2>1
  <2>3. w = [w0 EXCEPT !.visited = @ \union {c}, !.stack = s]
    BY <1>4 DEF Entered
  <2> HIDE DEF s
  <2>4. w \in Workers /\ w.stack = s
    BY <2>2, <2>3 DEF Workers
  <2> QED  BY <1>4, <2>2, <2>4 DEF Entered, WorkerOK
<1>5. ASSUME NEW b \in SomeBlob, Ensured(w0, r0, w, r, b)
      PROVE  w \in Workers /\ WorkerOK(w) /\ r \in Copies
  BY <1>5, WorkFacts, FrameType, ReplacedType, CopyType DEF Ensured
<1>6. ASSUME ManifestPut(w0, r0, w, r)
      PROVE  w \in Workers /\ WorkerOK(w) /\ r \in Copies
  <2>1. Last(w0) \in Frames /\ w0.stack \in Seq(Frames) /\ Len(w0.stack) \in Nat \ {0}
    BY <1>6, WorkFacts DEF ManifestPut
  <2>2. r \in Copies
    BY <1>6, <2>1, CopyType DEF ManifestPut, WithManifest, Frames
  <2> DEFINE s == SubSeq(w0.stack, 1, Len(w0.stack) - 1)
  <2>3. Len(w0.stack) > 1 => s \in Seq(Frames) /\ s # <<>>
    BY <2>1, ButLastProperties
  <2>4. Len(w0.stack) > 1 => w = [w0 EXCEPT !.stack = s]
    BY <1>6 DEF ManifestPut
  <2> HIDE DEF s
  <2>5. CASE Len(w0.stack) > 1
    BY <2>2, <2>3, <2>4, <2>5 DEF Workers, WorkerOK
  <2>6. CASE ~(Len(w0.stack) > 1) /\ w0.tagged
    <3>1. w = [w0 EXCEPT !.at = "tag"] /\ w0.stack # <<>>
      BY <1>6, <2>6 DEF ManifestPut, WorkerOK
    <3> QED  BY <2>2, <3>1 DEF Workers, WorkerOK
  <2>7. CASE ~(Len(w0.stack) > 1) /\ ~w0.tagged
    BY <1>6, <2>2, <2>7, NoWorkType DEF ManifestPut
  <2> QED  BY <2>5, <2>6, <2>7
<1>7. ASSUME Ended(w0, r0, w, r)
      PROVE  w \in Workers /\ WorkerOK(w) /\ r \in Copies
  <2>1. Last(w0).digest \in Pushable
    BY <1>7, WorkFacts DEF Ended, Frames
  <2> QED  BY <1>7, <2>1, NoWorkType, CopyType DEF Ended, WithManifest
<1> QED  BY <1>1, <1>2, <1>3, <1>4, <1>5, <1>6, <1>7 DEF Moves
-----------------------------------------------------------------------------
(***************************************************************************)
(* The actions of the worker of a target are its moves.                    *)
(***************************************************************************)
Others(t) ==
  /\ worker' = [worker EXCEPT ![t] = worker'[t]]
  /\ copies' = [copies EXCEPT ![t] = copies'[t]]

\* Pop takes the first job.
LEMMA PopMove ==
  ASSUME PushType, NEW t \in Targets, O!Pop(t)
  PROVE  /\ Others(t) /\ Head(queue[t]) \in ReplJobs
         /\ Popped(worker[t], copies[t], worker'[t], copies'[t], Head(queue[t]))
<1>1. Head(queue[t]) \in ReplJobs
  BY DEF PushType, PushOK, O!Pop
<1> QED  BY <1>1 DEF PushType, WorkersOK, O!Pop, Others, Popped, WorkOn

\* ReadManifest reads, or ends the job when the manifest is gone.
LEMMA ReadManifestMove ==
  ASSUME PushType, NEW t \in Targets, O!ReadManifest(t)
  PROVE  /\ Others(t)
         /\ IF O!Top(t).digest \in local
            THEN ReadIn(worker[t], copies[t], worker'[t], copies'[t])
            ELSE Ended(worker[t], copies[t], worker'[t], copies'[t])
BY DEF PushType, WorkersOK, O!ReadManifest, O!Change, O!EndJob, O!Top, Others, ReadIn, Ended,
       Last, Replaced, O!NoWork

\* ReplicateChild skips an entry or enters it.
LEMMA ReplicateChildMove ==
  ASSUME PushType, NEW t \in Targets, O!ReplicateChild(t)
  PROVE  /\ Others(t)
         /\ \E c \in Pushable :
              \/ Skipped(worker[t], copies[t], worker'[t], copies'[t], c)
              \/ Entered(worker[t], copies[t], worker'[t], copies'[t], c)
<1> DEFINE w0 == worker[t]
<1>1. /\ w0 \in Workers /\ WorkerOK(w0) /\ w0.at = "replicate" /\ Last(w0).read
      /\ UNCHANGED copies /\ O!Top(t) = Last(w0)
      /\ copies \in [Targets -> Copies] /\ worker \in [Targets -> Workers]
  BY DEF PushType, WorkersOK, WorkerOK, O!ReplicateChild, O!Top, Last
<1>2. PICK c \in Last(w0).children :
        LET frame == [Last(w0) EXCEPT !.children = @ \ {c}]
            below == [w0.stack EXCEPT ![Len(w0.stack)] = frame]
        IN IF c \in w0.visited THEN O!Change(t, frame) ELSE O!Descend(t, c, below)
  BY <1>1 DEF O!ReplicateChild
<1>3. c \in Pushable
  BY <1>1, WorkFacts DEF Frames
<1> DEFINE f == [Last(w0) EXCEPT !.children = @ \ {c}]
<1>4. CASE c \in w0.visited
  <2>1. O!Change(t, f)
    BY <1>2, <1>4
  <2>2. worker' = [worker EXCEPT ![t] = Replaced(w0, f)]
    BY <2>1, <1>1 DEF O!Change, Replaced
  <2> HIDE DEF w0
  <2>3. worker'[t] = WithoutChild(w0, c) /\ Others(t)
    BY <1>1, <2>2 DEF WithoutChild, Others
  <2> QED  BY <1>1, <1>2, <1>3, <1>4, <2>3 DEF Skipped, w0
<1>5. CASE c \notin w0.visited
  <2>1. O!Descend(t, c, [w0.stack EXCEPT ![Len(w0.stack)] = f])
    BY <1>2, <1>5
  <2>2. [w0.stack EXCEPT ![Len(w0.stack)] = f] = WithoutChild(w0, c).stack
    BY <1>1, WorkFacts, FrameType, ReplacedType DEF WithoutChild
  <2>3. worker' = [worker EXCEPT ![t] = [w0 EXCEPT !.visited = @ \union {c},
                     !.stack = Append(WithoutChild(w0, c).stack, O!Frame(c))]]
    BY <2>1, <2>2, <1>1 DEF O!Descend
  <2>4. /\ worker'[t] = [w0 EXCEPT !.visited = @ \union {c},
                     !.stack = Append(WithoutChild(w0, c).stack, O!Frame(c))]
        /\ Others(t)
    BY <1>1, <2>3 DEF Others
  <2> QED  BY <1>1, <1>2, <1>3, <2>4 DEF Entered
<1> QED  BY <1>4, <1>5

\* EnsureBlob ensures one blob.
LEMMA EnsureBlobMove ==
  ASSUME PushType, NEW t \in Targets, O!EnsureBlob(t)
  PROVE  /\ Others(t)
         /\ \E b \in SomeBlob : Ensured(worker[t], copies[t], worker'[t], copies'[t], b)
<1> DEFINE w0 == worker[t]
           r0 == copies[t]
<1>1. /\ w0 \in Workers /\ WorkerOK(w0) /\ w0.at = "replicate" /\ Last(w0).read
      /\ O!Top(t) = Last(w0) /\ r0 \in Copies
      /\ copies \in [Targets -> Copies] /\ worker \in [Targets -> Workers]
  BY DEF PushType, WorkersOK, WorkerOK, O!EnsureBlob, O!Top, Last
<1>2. PICK b \in Last(w0).blobs :
        /\ IF O!BlobExists(t, b) THEN UNCHANGED copies ELSE O!PushBlob(t, b)
        /\ O!Change(t, [Last(w0) EXCEPT !.blobs = @ \ {b}])
  BY <1>1 DEF O!EnsureBlob
<1>3. b \in SomeBlob
  BY <1>1, WorkFacts DEF Frames
<1> DEFINE f == [Last(w0) EXCEPT !.blobs = @ \ {b}]
<1>4. worker' = [worker EXCEPT ![t] = Replaced(w0, f)]
  BY <1>2, <1>1 DEF O!Change, Replaced
<1>5. b \in r0.blobs => [r0 EXCEPT !.blobs = @ \union {b}] = r0
  BY <1>1 DEF Copies
<1>6. copies' = [copies EXCEPT ![t] = [r0 EXCEPT !.blobs = @ \union {b}]]
  BY <1>1, <1>2, <1>5 DEF O!BlobExists, O!PushBlob
<1>7. worker'[t] = Replaced(w0, f) /\ copies'[t] = [r0 EXCEPT !.blobs = @ \union {b}] /\ Others(t)
  BY <1>1, <1>4, <1>6 DEF Others
<1> QED  BY <1>1, <1>2, <1>3, <1>7 DEF Ensured

\* PutRemoteManifest puts the manifest of the top frame.
LEMMA PutRemoteManifestMove ==
  ASSUME PushType, NEW t \in Targets, O!PutRemoteManifest(t)
  PROVE  Others(t) /\ ManifestPut(worker[t], copies[t], worker'[t], copies'[t])
<1> DEFINE w0 == worker[t]
           v  == IF Len(w0.stack) > 1 THEN [w0 EXCEPT !.stack = SubSeq(@, 1, Len(@) - 1)]
                 ELSE IF w0.tagged THEN [w0 EXCEPT !.at = "tag"]
                 ELSE O!NoWork
<1>1. O!Top(t) = Last(w0) /\ worker \in [Targets -> Workers] /\ copies \in [Targets -> Copies]
  BY DEF O!Top, Last, PushType, WorkersOK
<1>2. worker' = [worker EXCEPT ![t] = v]
  BY DEF O!PutRemoteManifest
<1>3. /\ copies' = [copies EXCEPT ![t] = WithManifest(w0, copies[t])]
      /\ w0.at = "replicate" /\ Done(Last(w0))
  BY <1>1 DEF O!PutRemoteManifest, WithManifest, Done
<1>4. worker'[t] = v /\ copies'[t] = WithManifest(w0, copies[t]) /\ Others(t)
  <2> HIDE DEF v
  <2> QED  BY <1>1, <1>2, <1>3 DEF Others
<1> QED  BY <1>3, <1>4 DEF ManifestPut

\* PutRemoteTag puts the tag and ends the job.
LEMMA PutRemoteTagMove ==
  ASSUME PushType, NEW t \in Targets, O!PutRemoteTag(t)
  PROVE  /\ Others(t)
         /\ worker[t].at = "tag" /\ worker'[t] = O!NoWork
         /\ copies'[t] = [copies[t] EXCEPT !.tag = Last(worker[t]).digest]
BY DEF PushType, WorkersOK, O!PutRemoteTag, O!EndJob, O!Top, Last, Others

\* JobFails ends the job, whatever the last request has done.
LEMMA JobFailsMove ==
  ASSUME PushType, NEW t \in Targets, O!JobFails(t)
  PROVE  Others(t) /\ Ended(worker[t], copies[t], worker'[t], copies'[t])
<1> DEFINE w0 == worker[t]
           r0 == copies[t]
<1>1. /\ w0 \in Workers /\ WorkerOK(w0) /\ w0.at # "idle" /\ O!Top(t) = Last(w0)
      /\ copies \in [Targets -> Copies] /\ worker \in [Targets -> Workers]
      /\ worker' = [worker EXCEPT ![t] = O!NoWork]
  BY DEF PushType, WorkersOK, WorkerOK, O!JobFails, O!EndJob, O!Top, Last
<1>2. Last(w0).blobs \subseteq SomeBlob
  BY <1>1, WorkFacts DEF Frames
<1>3. \/ copies' = copies
      \/ \E b \in SomeBlob : copies' = [copies EXCEPT ![t] = [r0 EXCEPT !.blobs = @ \union {b}]]
      \/ /\ w0.at = "replicate" /\ Done(Last(w0))
         /\ copies' = [copies EXCEPT ![t] = WithManifest(w0, r0)]
      \/ /\ w0.at = "tag"
         /\ copies' = [copies EXCEPT ![t] = [r0 EXCEPT !.tag = Last(w0).digest]]
  BY <1>1, <1>2 DEF O!JobFails, O!PushBlob, Done, WithManifest
<1> QED  BY <1>1, <1>3 DEF Others, Ended

-----------------------------------------------------------------------------
\* What a pull of any manifest from a target needs is there.
Complete(r) ==
  /\ \A m \in r.manifests : O!BlobsOf(m) \subseteq r.blobs /\ O!ChildrenOf(m) \subseteq r.manifests
  /\ r.tag \in r.manifests \union {None}

\* Content addressing: the digest of an index covers the digests of its entries.
Acyclic(rank) == rank \in [Images -> Nat] /\ O!Ranked(rank)

\* Of the frame at i, what was taken off its lists is at the target or above it.
FrameDone(w, r, i) ==
  w.stack[i].read =>
    /\ w.stack[i].children \subseteq O!ChildrenOf(w.stack[i].digest)
    /\ \A b \in O!BlobsOf(w.stack[i].digest) : b \in w.stack[i].blobs \/ b \in r.blobs
    /\ \A c \in O!ChildrenOf(w.stack[i].digest) :
         \/ c \in w.stack[i].children
         \/ c \in r.manifests
         \/ i < Len(w.stack) /\ c = w.stack[i + 1].digest

\* A frame is for an entry of the manifest of the frame below it, or for an
\* entry of an entry: it ranks lower, so no manifest is on the stack twice.
Nested(w, rank) ==
  \A i \in 1..Len(w.stack), j \in 1..Len(w.stack) : i < j =>
    /\ w.stack[i].digest \in Images /\ w.stack[j].digest \in Images
    /\ rank[w.stack[j].digest] < rank[w.stack[i].digest]

\* What was entered in this job has been sent, or is on the stack.
VisitedSent(w, r) ==
  \A v \in w.visited : v \in r.manifests \/ \E i \in 1..Len(w.stack) : w.stack[i].digest = v

\* A worker whose frames account for what they have sent.
Going(w, r, rank) ==
  w.at # "idle" =>
    /\ \A i \in 1..Len(w.stack) : FrameDone(w, r, i)
    /\ Nested(w, rank)
    /\ VisitedSent(w, r)
    /\ w.at = "tag" => Last(w).digest \in r.manifests

\* More at the target does not hurt.
LEMMA MoreCopied ==
  ASSUME NEW r0 \in Copies, NEW r \in Copies, NEW w \in Workers, NEW rank, WorkerOK(w),
         r0.blobs \subseteq r.blobs, r0.manifests \subseteq r.manifests,
         Going(w, r0, rank)
  PROVE  Going(w, r, rank)
<1>1. CASE w.at = "idle"
  BY <1>1 DEF Going
<1>2. CASE w.at # "idle"
  <2>1. ASSUME NEW i \in 1..Len(w.stack)
        PROVE  FrameDone(w, r, i)
    <3>1. FrameDone(w, r0, i)
      BY <1>2 DEF Going
    <3> QED  BY <3>1 DEF FrameDone
  <2>2. VisitedSent(w, r)
    BY <1>2 DEF Going, VisitedSent
  <2> QED  BY <1>2, <2>1, <2>2 DEF Going
<1> QED  BY <1>1, <1>2

\* What the top frame has sent makes the manifest complete at the target.
LEMMA ManifestComplete ==
  ASSUME NEW w \in Workers, NEW r \in Copies, NEW rank, WorkerOK(w), w.at = "replicate",
         Going(w, r, rank), Done(Last(w)), Complete(r)
  PROVE  Complete(WithManifest(w, r))
<1> DEFINE n == Len(w.stack)
           m == Last(w).digest
           q == WithManifest(w, r)
<1>1. n \in Nat \ {0} /\ w.stack \in Seq(Frames) /\ m \in Pushable
  BY WorkFacts DEF Frames
<1>2. FrameDone(w, r, n)
  BY <1>1 DEF Going
<1>3. O!BlobsOf(m) \subseteq r.blobs /\ O!ChildrenOf(m) \subseteq r.manifests
  BY <1>1, <1>2 DEF FrameDone, Done, Last
<1>4. q.blobs = r.blobs /\ q.manifests = r.manifests \union {m} /\ q.tag = r.tag
  BY DEF WithManifest, Copies
<1> HIDE DEF q, m
<1>5. Complete(q)
  BY <1>3, <1>4 DEF Complete
<1> QED  BY <1>5 DEF q

\* The first frame of a job accounts for nothing.
LEMMA PoppedGoing ==
  ASSUME NEW w0 \in Workers, NEW r \in Copies, NEW rank, NEW j \in ReplJobs
  PROVE  Going(WorkOn(j), r, rank)
<1> DEFINE w == WorkOn(j)
<1>1. w.stack = <<O!Frame(j.digest)>> /\ w.visited = {j.digest} /\ w.at = "replicate"
  BY DEF WorkOn
<1>2. Len(w.stack) = 1 /\ w.stack[1].digest = j.digest /\ ~w.stack[1].read
  BY <1>1 DEF O!Frame
<1> HIDE DEF w
<1>3. \A i \in 1..Len(w.stack) : FrameDone(w, r, i)
  BY <1>2 DEF FrameDone
<1>4. Nested(w, rank)
  BY <1>2 DEF Nested
<1>5. VisitedSent(w, r)
  BY <1>1, <1>2 DEF VisitedSent
<1>6. Going(w, r, rank)
  BY <1>1, <1>3, <1>4, <1>5 DEF Going
<1> QED  BY <1>6 DEF w

\* The digest of the top frame stays, and what it drops from its lists is sent.
LEMMA ReplacedGoing ==
  ASSUME NEW w \in Workers, NEW r \in Copies, NEW rank, WorkerOK(w), w.at = "replicate",
         Going(w, r, rank), NEW f \in Frames, f.digest = Last(w).digest,
         FrameDone(Replaced(w, f), r, Len(w.stack))
  PROVE  Going(Replaced(w, f), r, rank)
<1> DEFINE v == Replaced(w, f)
           n == Len(w.stack)
<1>1. /\ v.at = "replicate" /\ v.visited = w.visited /\ Len(v.stack) = n
      /\ n \in Nat \ {0} /\ w.stack \in Seq(Frames) /\ v.stack \in Seq(Frames)
      /\ v.stack = [w.stack EXCEPT ![n] = f]
  BY ReplacedType, WorkFacts
<1>2. /\ \A i \in 1..n : v.stack[i].digest = w.stack[i].digest
      /\ \A i \in 1..n : i # n => v.stack[i] = w.stack[i]
  BY <1>1 DEF Last
<1> HIDE DEF v
<1>3. ASSUME NEW i \in 1..n
      PROVE  FrameDone(v, r, i)
  <2>1. CASE i = n  BY <2>1 DEF v
  <2>2. CASE i # n
    <3>1. FrameDone(w, r, i) /\ i + 1 \in 1..n
      BY <1>1, <2>2 DEF Going
    <3> QED  BY <1>1, <1>2, <2>2, <3>1 DEF FrameDone
  <2> QED  BY <2>1, <2>2
<1>4. Nested(v, rank)
  BY <1>1, <1>2 DEF Going, Nested
<1>5. VisitedSent(v, r)
  BY <1>1, <1>2 DEF Going, VisitedSent
<1> QED  BY <1>1, <1>3, <1>4, <1>5 DEF Going, v

\* A frame that was just read has all to send.
LEMMA ReadGoing ==
  ASSUME O!ObserversAssumption, NEW w0 \in Workers, NEW r0 \in Copies, NEW rank, WorkerOK(w0),
         Going(w0, r0, rank), NEW w, NEW r, ReadIn(w0, r0, w, r)
  PROVE  Going(w, r, rank)
<1> DEFINE m == Last(w0).digest
           f == [digest |-> m, read |-> TRUE, children |-> O!ChildrenOf(m),
                 blobs |-> O!BlobsOf(m)]
           n == Len(w0.stack)
<1>1. w0.at = "replicate" /\ w = Replaced(w0, f) /\ r = r0
  BY DEF ReadIn
<1>2. m \in Pushable /\ n \in Nat \ {0} /\ w0.stack \in Seq(Frames)
  BY <1>1, WorkFacts DEF Frames
<1>3. f \in Frames
  BY <1>2, RefsType DEF Frames
<1>4. f.digest = m /\ f.children = O!ChildrenOf(m) /\ f.blobs = O!BlobsOf(m)
  OBVIOUS
<1> HIDE DEF f
<1>5. Replaced(w0, f).stack = [w0.stack EXCEPT ![n] = f]
  BY <1>1, <1>3, ReplacedType
<1>6. Replaced(w0, f).stack[n] = f
  BY <1>2, <1>5
<1>7. FrameDone(Replaced(w0, f), r0, n)
  BY <1>4, <1>6 DEF FrameDone
<1> QED  BY <1>1, <1>3, <1>4, <1>7, ReplacedGoing

\* A blob is taken off the list when it is there.
LEMMA EnsuredGoing ==
  ASSUME NEW w0 \in Workers, NEW r0 \in Copies, NEW rank, WorkerOK(w0),
         Going(w0, r0, rank), Complete(r0), NEW w, NEW r, NEW b \in SomeBlob,
         Ensured(w0, r0, w, r, b)
  PROVE  Going(w, r, rank) /\ Complete(r)
<1> DEFINE f == [Last(w0) EXCEPT !.blobs = @ \ {b}]
           n == Len(w0.stack)
<1>1. w0.at = "replicate" /\ w = Replaced(w0, f) /\ r = [r0 EXCEPT !.blobs = @ \union {b}]
  BY DEF Ensured
<1>2. /\ r \in Copies /\ r.blobs = r0.blobs \union {b}
      /\ r.manifests = r0.manifests /\ r.tag = r0.tag
  BY <1>1, CopyType DEF Copies
<1>3. Complete(r)
  BY <1>2 DEF Complete
<1>4. Going(w0, r, rank)
  BY <1>2, MoreCopied
<1>5. Last(w0) \in Frames /\ n \in Nat \ {0} /\ w0.stack \in Seq(Frames)
  BY <1>1, WorkFacts
<1>6. /\ f \in Frames /\ f.digest = Last(w0).digest /\ f.blobs = Last(w0).blobs \ {b}
      /\ f.children = Last(w0).children
  BY <1>5, FrameType DEF Frames
<1>6a. f.read = Last(w0).read
  BY <1>5 DEF Frames
<1> HIDE DEF f
<1>7. Replaced(w0, f).stack = [w0.stack EXCEPT ![n] = f] /\ Len(Replaced(w0, f).stack) = n
  BY <1>1, <1>6, ReplacedType
<1>8. Replaced(w0, f).stack[n] = f
  BY <1>5, <1>7
<1>9. FrameDone(w0, r, n)
  <2>1. w0.at # "idle" /\ n \in 1..n
    BY <1>1, <1>5
  <2> QED  BY <1>4, <2>1 DEF Going
<1>10. FrameDone(Replaced(w0, f), r, n)
  BY <1>2, <1>5, <1>6, <1>6a, <1>7, <1>8, <1>9 DEF FrameDone, Last
<1> QED  BY <1>1, <1>2, <1>3, <1>4, <1>6, <1>10, ReplacedGoing

\* An entry that was entered before has been sent: no frame of the stack is for it.
LEMMA NotAbove ==
  ASSUME O!ObserversAssumption,
         NEW w \in Workers, NEW r \in Copies, NEW rank, Acyclic(rank), WorkerOK(w),
         w.at = "replicate", Going(w, r, rank), Last(w).read,
         NEW c \in Last(w).children
  PROVE  /\ c \in Images /\ c \in O!ChildrenOf(Last(w).digest)
         /\ \A i \in 1..Len(w.stack) : /\ w.stack[i].digest \in Images
                                       /\ rank[c] < rank[w.stack[i].digest]
<1> DEFINE n == Len(w.stack)
<1>1. n \in Nat \ {0} /\ w.stack \in Seq(Frames) /\ Last(w) = w.stack[n]
  BY WorkFacts DEF Last
<1>2. FrameDone(w, r, n)
  BY <1>1 DEF Going
<1>3. c \in O!ChildrenOf(Last(w).digest)
  BY <1>1, <1>2 DEF FrameDone
<1>4. Last(w).digest \in Images /\ c \in Children[Last(w).digest]
  BY <1>3 DEF O!ChildrenOf
<1>5. c \in Images /\ rank[c] < rank[Last(w).digest]
  BY <1>4 DEF Acyclic, O!Ranked, O!ObserversAssumption
<1>6. \A m \in Images : rank[m] \in Nat
  BY DEF Acyclic, O!Ranked
<1>7. ASSUME NEW i \in 1..n
      PROVE  w.stack[i].digest \in Images /\ rank[c] < rank[w.stack[i].digest]
  <2>1. CASE i = n  BY <1>1, <1>4, <1>5, <2>1
  <2>2. CASE i # n
    <3>1. i < n /\ n \in 1..n
      BY <1>1, <2>2
    <3>2. /\ w.stack[i].digest \in Images
          /\ rank[w.stack[n].digest] < rank[w.stack[i].digest]
      BY <3>1 DEF Going, Nested
    <3> QED  BY <1>1, <1>4, <1>5, <1>6, <3>2
  <2> QED  BY <2>1, <2>2
<1> QED  BY <1>3, <1>5, <1>7

\* An entry is taken off the list.
LEMMA WithoutChildFacts ==
  ASSUME NEW w \in Workers, WorkerOK(w), w.at = "replicate", Last(w).read, NEW c
  PROVE  LET f == [Last(w) EXCEPT !.children = @ \ {c}]
             v == WithoutChild(w, c)
             n == Len(w.stack)
         IN /\ f \in Frames /\ f.digest = Last(w).digest /\ f.blobs = Last(w).blobs
            /\ f.children = Last(w).children \ {c} /\ f.read
            /\ v = Replaced(w, f) /\ v \in Workers /\ WorkerOK(v) /\ v.at = "replicate"
            /\ v.stack \in Seq(Frames) /\ Len(v.stack) = n /\ v.stack[n] = f
            /\ v.visited = w.visited /\ n \in Nat \ {0}
            /\ \A i \in 1..n : i # n => v.stack[i] = w.stack[i]
<1> DEFINE f == [Last(w) EXCEPT !.children = @ \ {c}]
           v == WithoutChild(w, c)
           n == Len(w.stack)
<1>1. n \in Nat \ {0} /\ w.stack \in Seq(Frames) /\ Last(w) \in Frames
  BY WorkFacts
<1>2. f \in Frames /\ f.digest = Last(w).digest /\ f.blobs = Last(w).blobs
      /\ f.children = Last(w).children \ {c}
  BY <1>1, FrameType DEF Frames
<1>3. f.read
  BY <1>1 DEF Frames
<1> HIDE DEF f
<1>4. v = Replaced(w, f)
  BY DEF WithoutChild, f
<1>5. /\ v \in Workers /\ WorkerOK(v) /\ v.at = "replicate" /\ v.visited = w.visited
      /\ v.stack \in Seq(Frames) /\ Len(v.stack) = n /\ v.stack = [w.stack EXCEPT ![n] = f]
  BY <1>2, <1>4, ReplacedType
<1> HIDE DEF v
<1>6. v.stack[n] = f /\ \A i \in 1..n : i # n => v.stack[i] = w.stack[i]
  BY <1>1, <1>5
<1> QED  BY <1>1, <1>2, <1>3, <1>4, <1>5, <1>6 DEF f, v

\* An entry that was entered before has been sent by now, for a frame that is
\* still at work on it would be below its own entry.
LEMMA SkippedGoing ==
  ASSUME O!ObserversAssumption,
         NEW w0 \in Workers, NEW r0 \in Copies, NEW rank, Acyclic(rank), WorkerOK(w0),
         Going(w0, r0, rank), NEW w, NEW r, NEW c \in Pushable, Skipped(w0, r0, w, r, c)
  PROVE  Going(w, r, rank)
<1> DEFINE f == [Last(w0) EXCEPT !.children = @ \ {c}]
           v == WithoutChild(w0, c)
           n == Len(w0.stack)
<1>1. /\ w0.at = "replicate" /\ w = v /\ r = r0 /\ Last(w0).read
      /\ c \in Last(w0).children /\ c \in w0.visited
  BY DEF Skipped
<1>2. /\ f \in Frames /\ f.digest = Last(w0).digest /\ f.blobs = Last(w0).blobs
      /\ f.children = Last(w0).children \ {c} /\ f.read
      /\ v = Replaced(w0, f) /\ Len(v.stack) = n /\ v.stack[n] = f /\ n \in Nat \ {0}
  BY <1>1, WithoutChildFacts
<1> HIDE DEF f, v
<1>3. c \in r0.manifests
  <2>1. \A i \in 1..n : w0.stack[i].digest # c
    <3>1. c \in Images /\ \A i \in 1..n : w0.stack[i].digest \in Images
                                          /\ rank[c] < rank[w0.stack[i].digest]
      BY <1>1, NotAbove
    <3>2. rank[c] \in Nat
      BY <3>1 DEF Acyclic, O!Ranked
    <3> QED  BY <3>1, <3>2
  <2> QED  BY <1>1, <2>1 DEF Going, VisitedSent
<1>4. FrameDone(w0, r0, n) /\ Last(w0) = w0.stack[n]
  BY <1>1, <1>2 DEF Going, Last
<1>5. FrameDone(v, r0, n)
  BY <1>2, <1>3, <1>4, <1>1 DEF FrameDone
<1> QED  BY <1>1, <1>2, <1>5, ReplacedGoing

\* What Append gives, entry by entry.
LEMMA AppendFacts ==
  ASSUME NEW S, NEW q \in Seq(S), NEW e \in S
  PROVE  /\ Append(q, e) \in Seq(S) /\ Len(Append(q, e)) = Len(q) + 1
         /\ Append(q, e)[Len(q) + 1] = e
         /\ \A i \in 1..Len(q) : Append(q, e)[i] = q[i]
  OBVIOUS

\* An entry that is entered has the frame above.
LEMMA EnteredGoing ==
  ASSUME O!ObserversAssumption,
         NEW w0 \in Workers, NEW r0 \in Copies, NEW rank, Acyclic(rank), WorkerOK(w0),
         Going(w0, r0, rank), NEW w, NEW r, NEW c \in Pushable, Entered(w0, r0, w, r, c)
  PROVE  Going(w, r, rank)
<1> DEFINE f == [Last(w0) EXCEPT !.children = @ \ {c}]
           v == WithoutChild(w0, c)
           n == Len(w0.stack)
           s == Append(v.stack, O!Frame(c))
<1>1. /\ w0.at = "replicate" /\ r = r0 /\ Last(w0).read /\ c \in Last(w0).children
      /\ w = [w0 EXCEPT !.visited = @ \union {c}, !.stack = s]
  BY DEF Entered
<1>2. /\ f \in Frames /\ f.digest = Last(w0).digest /\ f.blobs = Last(w0).blobs
      /\ f.children = Last(w0).children \ {c} /\ f.read
      /\ v.stack \in Seq(Frames) /\ Len(v.stack) = n /\ v.stack[n] = f /\ n \in Nat \ {0}
      /\ \A i \in 1..n : i # n => v.stack[i] = w0.stack[i]
  BY <1>1, WithoutChildFacts
<1> HIDE DEF f, v
<1>3. O!Frame(c) \in Frames /\ O!Frame(c).digest = c /\ ~O!Frame(c).read
  BY <1>2, FrameType DEF O!Frame
<1>4. /\ s \in Seq(Frames) /\ Len(s) = n + 1 /\ s[n + 1] = O!Frame(c)
      /\ \A i \in 1..n : s[i] = v.stack[i]
  <2>1. v.stack \in Seq(Frames) /\ Len(v.stack) = n /\ O!Frame(c) \in Frames
    BY <1>2, <1>3
  <2>2. /\ s \in Seq(Frames) /\ Len(s) = Len(v.stack) + 1 /\ s[Len(v.stack) + 1] = O!Frame(c)
        /\ \A i \in 1..Len(v.stack) : s[i] = v.stack[i]
    <3> DEFINE q == v.stack
               e == O!Frame(c)
    <3>1. q \in Seq(Frames) /\ e \in Frames /\ s = Append(q, e)
      BY <2>1
    <3> HIDE DEF q, e, s
    <3>2. /\ Append(q, e) \in Seq(Frames) /\ Len(Append(q, e)) = Len(q) + 1
          /\ Append(q, e)[Len(q) + 1] = e
          /\ \A i \in 1..Len(q) : Append(q, e)[i] = q[i]
      BY <3>1, AppendFacts
    <3>3. /\ s \in Seq(Frames) /\ Len(s) = Len(q) + 1 /\ s[Len(q) + 1] = e
          /\ \A i \in 1..Len(q) : s[i] = q[i]
      BY <3>1, <3>2
    <3> QED  BY <3>3 DEF q, e
  <2> QED  BY <2>1, <2>2, Zenon
<1> HIDE DEF s
<1>5. w.stack = s /\ w.visited = w0.visited \union {c} /\ w.at = "replicate"
  BY <1>1 DEF Workers
<1>6. /\ c \in Images
      /\ \A i \in 1..n : w0.stack[i].digest \in Images /\ rank[c] < rank[w0.stack[i].digest]
  BY <1>1, NotAbove
<1>7. Last(w0) = w0.stack[n]
  BY DEF Last
<1>8. \A i \in 1..n : s[i].digest = w0.stack[i].digest
  BY <1>2, <1>4, <1>7
<1>9. ASSUME NEW i \in 1..(n + 1)
      PROVE  FrameDone(w, r0, i)
  <2>1. CASE i = n + 1
    BY <1>3, <1>4, <1>5, <2>1 DEF FrameDone
  <2>2. CASE i = n
    <3>1. FrameDone(w0, r0, n)
      BY <1>1, <1>2 DEF Going
    <3>2. w.stack[n] = f /\ w.stack[n + 1].digest = c /\ n < Len(w.stack)
      BY <1>2, <1>3, <1>4, <1>5
    <3>3. Last(w0).read
      BY <1>1
    <3>4. FrameDone(w, r0, n)
      BY <1>2, <1>7, <3>1, <3>2, <3>3 DEF FrameDone
    <3> QED  BY <2>2, <3>4
  <2>3. CASE i \in 1..n /\ i # n
    <3>1. FrameDone(w0, r0, i) /\ i + 1 \in 1..n /\ i < Len(w.stack)
      BY <1>1, <1>2, <1>4, <1>5, <2>3 DEF Going
    <3>2. w.stack[i] = w0.stack[i] /\ w.stack[i + 1].digest = w0.stack[i + 1].digest
      BY <1>2, <1>4, <1>5, <1>8, <2>3, <3>1
    <3> QED  BY <3>1, <3>2 DEF FrameDone
  <2> QED  BY <1>2, <2>1, <2>2, <2>3
<1>10. Nested(w, rank)
  <2>1. Nested(w0, rank)
    BY <1>1 DEF Going
  <2>2. ASSUME NEW i \in 1..(n + 1), NEW j \in 1..(n + 1), i < j
        PROVE  /\ s[i].digest \in Images /\ s[j].digest \in Images
               /\ rank[s[j].digest] < rank[s[i].digest]
    <3>1. i \in 1..n
      BY <1>2, <2>2
    <3>2. CASE j = n + 1
      BY <1>3, <1>4, <1>6, <1>8, <3>1, <3>2
    <3>3. CASE j \in 1..n
      BY <1>8, <2>1, <2>2, <3>1, <3>3 DEF Nested
    <3> QED  BY <1>2, <3>2, <3>3
  <2> QED  BY <1>4, <1>5, <2>2 DEF Nested
<1>11. VisitedSent(w, r0)
  <2>1. VisitedSent(w0, r0)
    BY <1>1 DEF Going
  <2>2. n + 1 \in 1..(n + 1) /\ \A i \in 1..n : i \in 1..(n + 1)
    BY <1>2
  <2>3. ASSUME NEW x \in w.visited
        PROVE  x \in r0.manifests \/ \E i \in 1..Len(w.stack) : w.stack[i].digest = x
    <3>1. CASE x = c
      BY <1>3, <1>4, <1>5, <2>2, <3>1
    <3>2. CASE x \in w0.visited
      BY <1>4, <1>5, <1>8, <2>1, <2>2, <3>2 DEF VisitedSent
    <3> QED  BY <1>5, <2>3, <3>1, <3>2
  <2> QED  BY <2>3 DEF VisitedSent
<1> QED  BY <1>1, <1>4, <1>5, <1>9, <1>10, <1>11 DEF Going

\* A manifest that is put has been sent, and the frame below says so.
LEMMA PutGoing ==
  ASSUME NEW w0 \in Workers, NEW r0 \in Copies, NEW rank, WorkerOK(w0),
         Going(w0, r0, rank), Complete(r0), NEW w, NEW r, ManifestPut(w0, r0, w, r)
  PROVE  Going(w, r, rank) /\ Complete(r)
<1> DEFINE n == Len(w0.stack)
           m == Last(w0).digest
<1>1. w0.at = "replicate" /\ Done(Last(w0)) /\ r = WithManifest(w0, r0)
  BY DEF ManifestPut
<1>2. Complete(r)
  BY <1>1, ManifestComplete
<1>3. n \in Nat \ {0} /\ w0.stack \in Seq(Frames) /\ m \in Pushable /\ Last(w0) = w0.stack[n]
  BY <1>1, WorkFacts DEF Frames, Last
<1>4. r \in Copies /\ r.blobs = r0.blobs /\ r.manifests = r0.manifests \union {m}
  BY <1>1, <1>3, CopyType DEF Copies, WithManifest
<1>5. Going(w0, r, rank)
  BY <1>4, MoreCopied
<1>6. CASE n > 1
  <2> DEFINE s == SubSeq(w0.stack, 1, n - 1)
  <2>1. w = [w0 EXCEPT !.stack = s]
    BY <1>6 DEF ManifestPut
  <2>2. s \in Seq(Frames) /\ Len(s) = n - 1 /\ \A i \in 1..(n - 1) : s[i] = w0.stack[i]
    BY <1>3, <1>6, ButLastProperties
  <2> HIDE DEF s
  <2>3. w.stack = s /\ w.at = "replicate" /\ w.visited = w0.visited
    BY <1>1, <2>1 DEF Workers
  <2>4. n - 1 \in Nat /\ n \in 1..n /\ \A i \in 1..(n - 1) : i \in 1..n /\ i < n /\ i + 1 \in 1..n
    BY <1>3, <1>6
  <2>5. ASSUME NEW i \in 1..Len(w.stack)
        PROVE  FrameDone(w, r, i)
    <3>1. FrameDone(w0, r, i) /\ i \in 1..(n - 1)
      BY <1>1, <1>5, <2>2, <2>3, <2>4 DEF Going
    <3>2. w.stack[i] = w0.stack[i]
      BY <2>2, <2>3, <3>1
    <3>3. CASE i = n - 1
      <4>1. i + 1 = n
        BY <1>3, <3>3
      <4>2. w0.stack[i + 1].digest \in r.manifests
        BY <1>3, <1>4, <4>1
      <4> QED  BY <3>1, <3>2, <4>2 DEF FrameDone
    <3>4. CASE i # n - 1
      <4>1. i + 1 \in 1..(n - 1) /\ i < Len(w.stack)
        BY <1>3, <2>2, <2>3, <3>1, <3>4
      <4>2. w.stack[i + 1] = w0.stack[i + 1]
        BY <2>2, <2>3, <4>1
      <4> QED  BY <3>1, <3>2, <4>1, <4>2 DEF FrameDone
    <3> QED  BY <3>3, <3>4
  <2>6. Nested(w, rank)
    <3>1. Nested(w0, rank)
      BY <1>1 DEF Going
    <3> QED  BY <2>2, <2>3, <2>4, <3>1 DEF Nested
  <2>7. VisitedSent(w, r)
    <3>1. VisitedSent(w0, r)
      BY <1>1, <1>5 DEF Going
    <3>2. ASSUME NEW x \in w0.visited, x \notin r.manifests
          PROVE  \E i \in 1..(n - 1) : s[i].digest = x
      <4>1. PICK i \in 1..n : w0.stack[i].digest = x
        BY <3>1, <3>2 DEF VisitedSent
      <4>2. i # n
        BY <1>3, <1>4, <3>2, <4>1
      <4>3. i \in 1..(n - 1)
        BY <1>3, <4>2
      <4> QED  BY <2>2, <4>1, <4>3
    <3> QED  BY <2>2, <2>3, <3>2 DEF VisitedSent
  <2>8. Going(w, r, rank)
    BY <2>3, <2>5, <2>6, <2>7 DEF Going
  <2> QED  BY <1>2, <2>8
<1>7. CASE ~(n > 1) /\ w0.tagged
  <2>1. w = [w0 EXCEPT !.at = "tag"]
    BY <1>7 DEF ManifestPut
  <2>2. w.stack = w0.stack /\ w.visited = w0.visited /\ w.at = "tag"
    BY <2>1 DEF Workers
  <2>3. /\ \A i \in 1..n : FrameDone(w0, r, i)
        /\ Nested(w0, rank) /\ VisitedSent(w0, r)
    BY <1>1, <1>5 DEF Going
  <2>4. (\A i \in 1..n : FrameDone(w, r, i)) /\ Nested(w, rank) /\ VisitedSent(w, r)
    BY <2>2, <2>3 DEF FrameDone, Nested, VisitedSent
  <2>5. Last(w).digest \in r.manifests
    BY <1>4, <2>2 DEF Last
  <2>6. Going(w, r, rank)
    BY <2>2, <2>4, <2>5 DEF Going
  <2> QED  BY <1>2, <2>6
<1>8. CASE ~(n > 1) /\ ~w0.tagged
  BY <1>2, <1>8 DEF ManifestPut, O!NoWork, Going
<1> QED  BY <1>6, <1>7, <1>8

\* The tag is put after its manifest.
LEMMA TagComplete ==
  ASSUME NEW w \in Workers, NEW r \in Copies, NEW rank, Going(w, r, rank), Complete(r),
         w.at = "tag"
  PROVE  Complete([r EXCEPT !.tag = Last(w).digest])
<1> DEFINE m == Last(w).digest
           q == [r EXCEPT !.tag = m]
<1>1. m \in r.manifests
  BY DEF Going
<1> HIDE DEF m
<1>2. q.blobs = r.blobs /\ q.manifests = r.manifests /\ q.tag = m
  BY DEF Copies
<1> HIDE DEF q
<1>3. Complete(q)
  BY <1>1, <1>2 DEF Complete
<1> QED  BY <1>3 DEF q, m

\* An idle worker accounts for nothing.
LEMMA EndedGoing ==
  ASSUME NEW w0 \in Workers, NEW r0 \in Copies, NEW rank, WorkerOK(w0),
         Going(w0, r0, rank), Complete(r0), NEW w, NEW r, Ended(w0, r0, w, r)
  PROVE  Going(w, r, rank) /\ Complete(r)
<1>1. Going(w, r, rank)
  BY DEF Ended, O!NoWork, Going
<1>2. ASSUME NEW b \in SomeBlob, r = [r0 EXCEPT !.blobs = @ \union {b}]
      PROVE  Complete(r)
  <2>1. r.blobs = r0.blobs \union {b} /\ r.manifests = r0.manifests /\ r.tag = r0.tag
    BY <1>2 DEF Copies
  <2> QED  BY <2>1 DEF Complete
<1>3. ASSUME w0.at = "replicate", Done(Last(w0)), r = WithManifest(w0, r0)
      PROVE  Complete(r)
  BY <1>3, ManifestComplete
<1>4. ASSUME w0.at = "tag", r = [r0 EXCEPT !.tag = Last(w0).digest]
      PROVE  Complete(r)
  BY <1>4, TagComplete
<1> QED  BY <1>1, <1>2, <1>3, <1>4 DEF Ended

\* Every move keeps the account, and the target complete.
LEMMA MovesGoing ==
  ASSUME O!ObserversAssumption,
         NEW w0 \in Workers, NEW r0 \in Copies, NEW rank, Acyclic(rank), WorkerOK(w0),
         Going(w0, r0, rank), Complete(r0), NEW w, NEW r, Moves(w0, r0, w, r)
  PROVE  Going(w, r, rank) /\ Complete(r)
<1>1. ASSUME NEW j \in ReplJobs, Popped(w0, r0, w, r, j)
      PROVE  Going(w, r, rank) /\ Complete(r)
  BY <1>1, PoppedGoing DEF Popped
<1>2. ASSUME ReadIn(w0, r0, w, r)
      PROVE  Going(w, r, rank) /\ Complete(r)
  <2>1. r = r0
    BY <1>2 DEF ReadIn
  <2> QED  BY <1>2, <2>1, ReadGoing
<1>3. ASSUME NEW c \in Pushable, Skipped(w0, r0, w, r, c)
      PROVE  Going(w, r, rank) /\ Complete(r)
  <2>1. r = r0
    BY <1>3 DEF Skipped
  <2> QED  BY <1>3, <2>1, SkippedGoing
<1>4. ASSUME NEW c \in Pushable, Entered(w0, r0, w, r, c)
      PROVE  Going(w, r, rank) /\ Complete(r)
  <2>1. r = r0
    BY <1>4 DEF Entered
  <2> QED  BY <1>4, <2>1, EnteredGoing
<1> QED  BY <1>1, <1>2, <1>3, <1>4, EnsuredGoing, PutGoing, EndedGoing DEF Moves

-----------------------------------------------------------------------------
\* The actions of the worker of a target.
Works(t) ==
  \/ O!Pop(t) \/ O!ReadManifest(t) \/ O!ReplicateChild(t)
  \/ O!EnsureBlob(t) \/ O!PutRemoteManifest(t) \/ O!PutRemoteTag(t) \/ O!JobFails(t)

\* They are moves.
LEMMA WorksMove ==
  ASSUME PushType, NEW t \in Targets, Works(t)
  PROVE  /\ Others(t) /\ worker[t] \in Workers /\ WorkerOK(worker[t]) /\ copies[t] \in Copies
         /\ Moves(worker[t], copies[t], worker'[t], copies'[t])
<1>1. worker[t] \in Workers /\ WorkerOK(worker[t]) /\ copies[t] \in Copies
  BY DEF PushType, WorkersOK, WorkerOK
<1>2. CASE O!Pop(t)
  BY <1>1, <1>2, PopMove DEF Moves
<1>3. CASE O!ReadManifest(t)
  <2>1. /\ Others(t)
        /\ \/ ReadIn(worker[t], copies[t], worker'[t], copies'[t])
           \/ Ended(worker[t], copies[t], worker'[t], copies'[t])
    BY <1>3, ReadManifestMove
  <2> QED  BY <1>1, <2>1 DEF Moves
<1>4. CASE O!ReplicateChild(t)
  <2>1. Others(t)
    BY <1>4, ReplicateChildMove
  <2>2. PICK c \in Pushable : \/ Skipped(worker[t], copies[t], worker'[t], copies'[t], c)
                              \/ Entered(worker[t], copies[t], worker'[t], copies'[t], c)
    BY <1>4, ReplicateChildMove
  <2> QED  BY <1>1, <2>1, <2>2 DEF Moves
<1>5. CASE O!EnsureBlob(t)
  <2>1. Others(t)
    BY <1>5, EnsureBlobMove
  <2>2. PICK b \in SomeBlob : Ensured(worker[t], copies[t], worker'[t], copies'[t], b)
    BY <1>5, EnsureBlobMove
  <2> QED  BY <1>1, <2>1, <2>2 DEF Moves
<1>6. CASE O!PutRemoteManifest(t)
  BY <1>1, <1>6, PutRemoteManifestMove DEF Moves
<1>7. CASE O!PutRemoteTag(t)
  <2>1. /\ Others(t) /\ worker[t].at = "tag" /\ worker'[t] = O!NoWork
        /\ copies'[t] = [copies[t] EXCEPT !.tag = Last(worker[t]).digest]
    BY <1>7, PutRemoteTagMove
  <2>2. Ended(worker[t], copies[t], worker'[t], copies'[t])
    BY <2>1 DEF Ended
  <2> QED  BY <1>1, <2>1, <2>2 DEF Moves
<1>8. CASE O!JobFails(t)
  BY <1>1, <1>8, JobFailsMove DEF Moves
<1> QED  BY <1>2, <1>3, <1>4, <1>5, <1>6, <1>7, <1>8 DEF Works

\* They keep the types.
LEMMA WorksType ==
  ASSUME O!ObserversAssumption, PushType, NEW t \in Targets, Works(t)
  PROVE  PushType'
<1>1. /\ Others(t) /\ worker[t] \in Workers /\ WorkerOK(worker[t]) /\ copies[t] \in Copies
      /\ Moves(worker[t], copies[t], worker'[t], copies'[t])
  BY WorksMove
<1>2. worker'[t] \in Workers /\ WorkerOK(worker'[t]) /\ copies'[t] \in Copies
  <2> DEFINE w == worker'[t]
             r == copies'[t]
  <2> HIDE DEF w, r
  <2>1. Moves(worker[t], copies[t], w, r)
    BY <1>1 DEF w, r
  <2>2. w \in Workers /\ WorkerOK(w) /\ r \in Copies
    BY <1>1, <2>1, MovesType
  <2> QED  BY <2>2 DEF w, r
<1>3. WorkersOK'
  <2>1. worker \in [Targets -> Workers] /\ copies \in [Targets -> Copies]
    BY DEF PushType, WorkersOK
  <2>2. worker' \in [Targets -> Workers] /\ copies' \in [Targets -> Copies]
    BY <1>1, <1>2, <2>1 DEF Others
  <2>3. ASSUME NEW u \in Targets
        PROVE  worker'[u].at # "idle" => worker'[u].stack # <<>>
    <3>1. CASE u = t  BY <1>2, <3>1 DEF WorkerOK
    <3>2. CASE u # t
      <4>1. worker'[u] = worker[u]
        BY <1>1, <2>1, <3>2 DEF Others
      <4> QED  BY <4>1 DEF PushType, WorkersOK
    <3> QED  BY <3>1, <3>2
  <2> QED  BY <2>2, <2>3 DEF WorkersOK
<1>4. UNCHANGED <<local, localTag, push, dropped, scanQueue, scan>>
  BY DEF Works, O!Pop, O!ReadManifest, O!ReplicateChild, O!EnsureBlob, O!PutRemoteManifest,
         O!PutRemoteTag, O!JobFails, O!here, O!scanner
<1>5. queue' \in [Targets -> Seq(ReplJobs)]
  <2>1. queue \in [Targets -> Seq(ReplJobs)]
    BY DEF PushType, PushOK
  <2>2. CASE O!Pop(t)
    <3>1. queue[t] \in Seq(ReplJobs) /\ queue[t] # <<>> /\ queue' = [queue EXCEPT ![t] = Tail(@)]
      BY <2>1, <2>2 DEF O!Pop
    <3>2. Tail(queue[t]) \in Seq(ReplJobs)
      BY <3>1
    <3> QED  BY <2>1, <3>1, <3>2
  <2>3. CASE ~O!Pop(t)
    <3>1. UNCHANGED queue
      BY <2>3 DEF Works, O!ReadManifest, O!ReplicateChild, O!EnsureBlob, O!PutRemoteManifest,
                  O!PutRemoteTag, O!JobFails
    <3> QED  BY <2>1, <3>1
  <2> QED  BY <2>2, <2>3
<1>6. BudgetOK'
  <2>1. CASE O!JobFails(t)
    BY <2>1, FaultType DEF O!JobFails, PushType
  <2>2. CASE ~O!JobFails(t)
    <3>1. UNCHANGED <<pushHistory, pushBudget>>
      BY <2>2 DEF Works, O!Pop, O!ReadManifest, O!ReplicateChild, O!EnsureBlob,
                  O!PutRemoteManifest, O!PutRemoteTag
    <3> QED  BY <3>1 DEF PushType, BudgetOK
  <2> QED  BY <2>1, <2>2
<1>7. PushOK' /\ ScanOK'
  BY <1>4, <1>5 DEF PushType, PushOK, ScanOK
<1> QED  BY <1>3, <1>6, <1>7 DEF PushType

\* What leaves the workers and the targets alone, but for the sessions.
Authorizes(t) == O!Authorize(t) \/ O!TokenExpires(t)

\* So does what is left: sessions, deletions and restarts.
LEMMA RestType ==
  ASSUME O!ObserversAssumption, PushType,
         \/ \E t \in Targets : Authorizes(t)
         \/ \E m \in Images : O!Delete(m)
         \/ O!Restart
         \/ UNCHANGED O!vars
  PROVE  PushType'
<1> USE DEF PushType
<1>1. ASSUME NEW t \in Targets, O!Authorize(t)
      PROVE  PushType'
  BY <1>1 DEF O!Authorize, PushOK, WorkersOK, ScanOK, BudgetOK, O!here, O!scanner
<1>2. ASSUME NEW t \in Targets, O!TokenExpires(t)
      PROVE  PushType'
  BY <1>2, FaultType DEF O!TokenExpires, PushOK, WorkersOK, ScanOK, O!here, O!scanner
<1>3. ASSUME NEW m \in Images, O!Delete(m)
      PROVE  PushType'
  <2>1. BudgetOK'
    BY <1>3, FaultType DEF O!Delete
  <2> QED  BY <1>3, <2>1 DEF O!Delete, PushOK, WorkersOK, ScanOK, O!scanner
<1>4. CASE O!Restart
  <2>1. BudgetOK'
    BY <1>4, FaultType DEF O!Restart
  <2>2. O!NoPush \in PushStates /\ O!NoPush.at = "idle"
    BY DEF O!NoPush, PushStates
  <2>3. PushOK'
    BY <1>4, <2>2 DEF O!Restart, PushOK, O!here
  <2>4. WorkersOK'
    <3>1. O!NoWork.at = "idle"
      BY DEF O!NoWork
    <3> QED  BY <1>4, <3>1, NoWorkType DEF O!Restart, WorkersOK
  <2>5. ScanOK'
    BY <1>4 DEF O!Restart, ScanOK, O!NoScan
  <2> QED  BY <2>1, <2>3, <2>4, <2>5
<1>5. CASE UNCHANGED O!vars
  BY <1>5 DEF O!vars, PushOK, WorkersOK, ScanOK, BudgetOK, O!here, O!scanner
<1> QED  BY <1>1, <1>2, <1>3, <1>4, <1>5 DEF Authorizes

\* The types hold from the start.
LEMMA PushTypeInit ==
  ASSUME O!ObserversAssumption, O!Init
  PROVE  PushType
<1>1. BudgetOK
  BY DEF O!Init, O!ObserversAssumption, BudgetOK
<1>2. O!NoPush \in PushStates /\ O!NoPush.at = "idle" /\ O!NoWork.at = "idle"
  BY DEF O!NoPush, PushStates, O!NoWork
<1>3. PushOK
  BY <1>2 DEF O!Init, PushOK
<1>4. WorkersOK
  BY <1>2, NoWorkType DEF O!Init, WorkersOK, Copies
<1>5. ScanOK
  BY DEF O!Init, ScanOK, O!NoScan
<1> QED  BY <1>1, <1>3, <1>4, <1>5 DEF PushType

\* Every step keeps the types.
LEMMA PushTypeStep ==
  ASSUME O!ObserversAssumption, PushType, [O!Next]_(O!vars)
  PROVE  PushType'
BY PushActionsType, ScanActionsType, WorksType, RestType DEF O!Next, Works, Authorizes

\* What a pull from a target needs.
CopiesInv(rank) ==
  \A t \in Targets : Going(worker[t], copies[t], rank) /\ Complete(copies[t])

\* Every step keeps the targets complete: only their workers write to them.
LEMMA CopiesStep ==
  ASSUME O!ObserversAssumption, NEW rank, Acyclic(rank), PushType, CopiesInv(rank), [O!Next]_(O!vars)
  PROVE  CopiesInv(rank)'
<1>1. ASSUME NEW t \in Targets, Works(t)
      PROVE  CopiesInv(rank)'
  <2>1. /\ Others(t) /\ worker[t] \in Workers /\ WorkerOK(worker[t]) /\ copies[t] \in Copies
        /\ Moves(worker[t], copies[t], worker'[t], copies'[t])
    BY <1>1, WorksMove
  <2>2. Going(worker'[t], copies'[t], rank) /\ Complete(copies'[t])
    <3> DEFINE w == worker'[t]
               r == copies'[t]
    <3> HIDE DEF w, r
    <3>1. Moves(worker[t], copies[t], w, r)
      BY <2>1 DEF w, r
    <3>2. Going(worker[t], copies[t], rank) /\ Complete(copies[t])
      BY DEF CopiesInv
    <3>3. Going(w, r, rank) /\ Complete(r)
      BY <2>1, <3>1, <3>2, MovesGoing
    <3> QED  BY <3>3 DEF w, r
  <2>3. ASSUME NEW u \in Targets
        PROVE  Going(worker'[u], copies'[u], rank) /\ Complete(copies'[u])
    <3>1. CASE u = t  BY <2>2, <3>1
    <3>2. CASE u # t
      <4>1. worker'[u] = worker[u] /\ copies'[u] = copies[u]
        BY <2>1, <3>2 DEF Others, PushType, WorkersOK
      <4> QED  BY <4>1 DEF CopiesInv
    <3> QED  BY <3>1, <3>2
  <2> QED  BY <2>3 DEF CopiesInv
<1>2. CASE O!Restart
  <2>1. \A t \in Targets : worker'[t] = O!NoWork /\ copies'[t] = copies[t]
    BY <1>2 DEF O!Restart
  <2> QED  BY <2>1 DEF CopiesInv, Going, O!NoWork
<1>3. CASE UNCHANGED <<worker, copies>>
  BY <1>3 DEF CopiesInv
<1>4. \/ \E t \in Targets : Works(t)
      \/ O!Restart
      \/ UNCHANGED <<worker, copies>>
  BY DEF O!Next, Works, O!vars, O!Push, O!PutManifest, O!PutTag, O!OnPushScan, O!Pushed,
         O!OnPushReplicate, O!ScanPop, O!HasReferrer, O!Scan, O!Scanned, O!Authorize,
         O!TokenExpires, O!Delete
<1> QED  BY <1>1, <1>2, <1>3, <1>4

(***************************************************************************)
(* A target never holds a manifest without its blobs and entries, nor a    *)
(* tag without its manifest, whatever fails, is deleted here or restarts:  *)
(* replicate sends a manifest after what it refers to, and skips an entry  *)
(* only when it has been sent in the same job.  The latter is so because   *)
(* indexes cannot contain themselves (Acyclic): an entry that was visited  *)
(* and not yet sent would have a frame below its own.                      *)
(***************************************************************************)
THEOREM TargetsComplete ==
  ASSUME O!ObserversAssumption, NEW rank, Acyclic(rank)
  PROVE  O!Spec => []TargetComplete
<1>1. O!Init => CopiesInv(rank)
  <2>1. SUFFICES ASSUME O!Init, NEW t \in Targets
                 PROVE  Going(worker[t], copies[t], rank) /\ Complete(copies[t])
    BY DEF CopiesInv
  <2>2. worker[t] = O!NoWork /\ copies[t] = [blobs |-> {}, manifests |-> {}, tag |-> None]
    BY <2>1 DEF O!Init
  <2> QED  BY <2>2 DEF Going, O!NoWork, Complete
<1>2. CopiesInv(rank) => TargetComplete
  BY DEF CopiesInv, Complete, TargetComplete, O!TargetComplete
<1>3. PushType /\ CopiesInv(rank) /\ [O!Next]_(O!vars) => PushType' /\ CopiesInv(rank)'
  BY PushTypeStep, CopiesStep
<1>4. O!Init => PushType
  BY PushTypeInit
<1> QED  BY <1>1, <1>2, <1>3, <1>4, PTL DEF O!Spec

-----------------------------------------------------------------------------
(***************************************************************************)
(* One report per image.                                                   *)
(***************************************************************************)
\* Clients push images; the scanner pushes while it attaches, without a tag.
PusherOK ==
  /\ \A p \in Pushers : push[p].at # "idle" => push[p].digest \in Images
  /\ push[O!Scanning].at # "idle" => scan.at = "attach" /\ ~push[O!Scanning].tagged

\* As long as every check for a report was made.
ReportInv ==
  ~pushHistory.unchecked =>
    /\ \A m \in Images, k \in Nat : <<m, k>> \in local => k = 1
    /\ scan.at = "scan" => \A k \in Nat : <<scan.digest, k>> \notin local
    /\ push[O!Scanning].at # "idle" => push[O!Scanning].digest = <<scan.digest, 1>>

\* Every step keeps who pushes what.
LEMMA PusherStep ==
  ASSUME O!ObserversAssumption, PushType, PusherOK, [O!Next]_(O!vars)
  PROVE  PusherOK'
<1> USE DEF PusherOK
<1>1. ASSUME NEW p \in Pushers, NEW m \in Images, NEW tagged \in BOOLEAN, O!Push(p, m, tagged)
      PROVE  PusherOK'
  BY <1>1 DEF O!Push, O!Begin, O!scanner, O!ObserversAssumption, PushType, PushOK, O!Goroutines
<1>2. ASSUME NEW p \in O!Goroutines,
             O!PutManifest(p) \/ O!PutTag(p) \/ O!OnPushScan(p)
      PROVE  PusherOK'
  <2>1. PICK s : push' = [push EXCEPT ![p].at = s] /\ push[p].at # "idle" /\ UNCHANGED scan
    BY <1>2 DEF O!PutManifest, O!PutTag, O!OnPushScan, O!scanner
  <2>2. \A q \in O!Goroutines : /\ push'[q].digest = push[q].digest
                                /\ push'[q].tagged = push[q].tagged
                                /\ push'[q].at # "idle" => push[q].at # "idle"
    BY <2>1 DEF PushType, PushOK, PushStates
  <2> QED  BY <2>1, <2>2 DEF O!Goroutines
<1>3. ASSUME NEW p \in O!Goroutines, O!Pushed(p)
      PROVE  PusherOK'
  BY <1>3 DEF O!Pushed, O!NoPush, O!scanner, PushType, PushOK, O!Goroutines
<1>4. ASSUME NEW p \in O!Goroutines, NEW t \in Targets, O!OnPushReplicate(p, t)
      PROVE  PusherOK'
  <2>1. push' = [push EXCEPT ![p].left = @ \ {t}] /\ UNCHANGED scan
    BY <1>4 DEF O!OnPushReplicate, O!scanner
  <2>2. \A q \in O!Goroutines : /\ push'[q].digest = push[q].digest
                                /\ push'[q].tagged = push[q].tagged
                                /\ push'[q].at = push[q].at
    BY <2>1 DEF PushType, PushOK, PushStates
  <2> QED  BY <2>1, <2>2 DEF O!Goroutines
<1>5. CASE O!ScanPop \/ O!HasReferrer \/ O!Scanned
  <2>1. scan.at # "attach" \/ push[O!Scanning].at = "idle"
    BY <1>5 DEF O!ScanPop, O!HasReferrer, O!Scanned
  <2>2. UNCHANGED push
    BY <1>5 DEF O!ScanPop, O!HasReferrer, O!Scanned
  <2> QED  BY <2>1, <2>2
<1>6. CASE O!Scan
  <2>1. \/ UNCHANGED push
        \/ /\ scan' = [scan EXCEPT !.at = "attach"]
           /\ push' = [push EXCEPT ![O!Scanning] =
               [at |-> "store", digest |-> <<scan.digest, O!Cardinality(O!ReportsOf(scan.digest)) + 1>>,
                tagged |-> FALSE, left |-> pushBudget.matched]]
    BY <1>6 DEF O!Scan, O!Begin
  <2>2. scan.at = "scan"
    BY <1>6 DEF O!Scan
  <2>3. CASE UNCHANGED push
    BY <2>2, <2>3
  <2>4. CASE /\ scan' = [scan EXCEPT !.at = "attach"]
             /\ push' = [push EXCEPT ![O!Scanning] =
               [at |-> "store", digest |-> <<scan.digest, O!Cardinality(O!ReportsOf(scan.digest)) + 1>>,
                tagged |-> FALSE, left |-> pushBudget.matched]]
    <3>1. scan'.at = "attach" /\ ~push'[O!Scanning].tagged
      BY <2>4 DEF PushType, PushOK, ScanOK, O!Goroutines
    <3>2. \A p \in Pushers : push'[p] = push[p]
      BY <2>4 DEF PushType, PushOK, O!ObserversAssumption, O!Goroutines
    <3> QED  BY <3>1, <3>2
  <2> QED  BY <2>1, <2>3, <2>4
<1>7. CASE O!Restart
  BY <1>7 DEF O!Restart, O!NoPush, O!Goroutines
<1>8. CASE UNCHANGED <<push, scan>>
  BY <1>8
<1>9. \/ \E p \in Pushers, m \in Images, tagged \in BOOLEAN : O!Push(p, m, tagged)
      \/ \E p \in O!Goroutines : O!PutManifest(p) \/ O!PutTag(p) \/ O!OnPushScan(p) \/ O!Pushed(p)
      \/ \E p \in O!Goroutines, t \in Targets : O!OnPushReplicate(p, t)
      \/ O!ScanPop \/ O!HasReferrer \/ O!Scan \/ O!Scanned
      \/ O!Restart
      \/ UNCHANGED <<push, scan>>
  BY DEF O!Next, O!vars, O!Pop, O!ReadManifest, O!ReplicateChild, O!EnsureBlob,
         O!PutRemoteManifest, O!PutRemoteTag, O!JobFails, O!Authorize, O!TokenExpires, O!Delete,
         O!scanner
<1> QED  BY <1>1, <1>2, <1>3, <1>4, <1>5, <1>6, <1>7, <1>8, <1>9

\* Every step keeps the count of reports: one goroutine scans, and it looks for
\* a report before it scans.
LEMMA ReportStep ==
  ASSUME O!ObserversAssumption, PushType, PusherOK, ReportInv, [O!Next]_(O!vars)
  PROVE  ReportInv'
<1>0. pushHistory.unchecked => pushHistory'.unchecked
  BY DEF O!Next, O!vars, O!Pop, O!ReadManifest, O!ReplicateChild, O!EnsureBlob,
         O!PutRemoteManifest, O!PutRemoteTag, O!JobFails, O!Authorize, O!TokenExpires, O!Delete,
         O!Push, O!PutManifest, O!PutTag, O!OnPushScan, O!Pushed, O!OnPushReplicate, O!ScanPop,
         O!HasReferrer, O!Scan, O!Scanned, O!Restart, O!Fault, O!NoFault, PushType, BudgetOK
<1> SUFFICES ASSUME ~pushHistory'.unchecked, ~pushHistory.unchecked
             PROVE  ReportInv'
  BY <1>0 DEF ReportInv
<1> USE DEF ReportInv
<1>1. ASSUME NEW p \in Pushers, NEW m \in Images, NEW tagged \in BOOLEAN, O!Push(p, m, tagged)
      PROVE  ReportInv'
  BY <1>1 DEF O!Push, O!Begin, O!scanner, O!here, O!ObserversAssumption, PushType, PushOK, O!Goroutines
<1>2. ASSUME NEW p \in O!Goroutines, O!PutManifest(p)
      PROVE  ReportInv'
  <2>1. \A q \in O!Goroutines : push'[q].digest = push[q].digest
    BY <1>2 DEF O!PutManifest, PushType, PushOK, PushStates
  <2>2. UNCHANGED scan /\ local' = local \union {push[p].digest} /\ push[p].at # "idle"
    BY <1>2 DEF O!PutManifest, O!scanner
  <2>3. push'[O!Scanning].at # "idle" => push[O!Scanning].at # "idle"
    BY <1>2 DEF O!PutManifest, PushType, PushOK, PushStates, O!Goroutines
  <2>4. CASE p \in Pushers
    <3>1. \A m \in Images, k \in Nat : <<m, k>> # push[p].digest
      <4>1. push[p].digest \in Images
        BY <2>2, <2>4 DEF PusherOK
      <4>2. \A m \in Images, k \in Nat : <<m, k>> \in Images \X Nat
        OBVIOUS
      <4> QED  BY <4>1, <4>2 DEF O!ObserversAssumption
    <3>2. scan.at # "idle" => scan.digest \in Images
      BY DEF PushType, ScanOK
    <3> QED  BY <2>1, <2>2, <2>3, <3>1, <3>2 DEF O!Goroutines
  <2>5. CASE p = O!Scanning
    <3>1. scan.at = "attach" /\ push[p].digest = <<scan.digest, 1>>
      BY <2>2, <2>5 DEF PusherOK
    <3> QED  BY <2>1, <2>2, <2>3, <2>5, <3>1 DEF O!Goroutines
  <2> QED  BY <2>4, <2>5 DEF O!Goroutines
<1>3. ASSUME NEW p \in O!Goroutines, O!PutTag(p) \/ O!OnPushScan(p)
      PROVE  ReportInv'
  <2>1. PICK s : push' = [push EXCEPT ![p].at = s] /\ push[p].at # "idle" /\ UNCHANGED <<scan, local>>
    BY <1>3 DEF O!PutTag, O!OnPushScan, O!scanner, O!here
  <2>2. \A q \in O!Goroutines : /\ push'[q].digest = push[q].digest
                                /\ push'[q].at # "idle" => push[q].at # "idle"
    BY <2>1 DEF PushType, PushOK, PushStates
  <2> QED  BY <2>1, <2>2 DEF O!Goroutines
<1>4. ASSUME NEW p \in O!Goroutines, O!Pushed(p)
      PROVE  ReportInv'
  BY <1>4 DEF O!Pushed, O!NoPush, O!scanner, O!here, PushType, PushOK, O!Goroutines
<1>5. ASSUME NEW p \in O!Goroutines, NEW t \in Targets, O!OnPushReplicate(p, t)
      PROVE  ReportInv'
  <2>1. push' = [push EXCEPT ![p].left = @ \ {t}] /\ UNCHANGED <<scan, local>>
    BY <1>5 DEF O!OnPushReplicate, O!scanner, O!here
  <2>2. \A q \in O!Goroutines : push'[q].digest = push[q].digest /\ push'[q].at = push[q].at
    BY <2>1 DEF PushType, PushOK, PushStates
  <2> QED  BY <2>1, <2>2 DEF O!Goroutines
<1>6. CASE O!ScanPop
  <2>1. scan.at = "idle" /\ scan'.at = "check" /\ UNCHANGED <<push, local>>
    BY <1>6 DEF O!ScanPop, O!here
  <2> QED  BY <2>1 DEF PusherOK
<1>7. CASE O!HasReferrer
  <2>1. scan.at = "check" /\ UNCHANGED <<push, local>>
    BY <1>7 DEF O!HasReferrer, O!here
  <2>2. ~(pushHistory' = [pushHistory EXCEPT !.fault = TRUE, !.unchecked = TRUE])
    BY DEF PushType, BudgetOK
  <2>3. scan' = IF O!ReportsOf(scan.digest) # {} THEN O!NoScan ELSE [scan EXCEPT !.at = "scan"]
    BY <1>7, <2>2 DEF O!HasReferrer
  <2>4. scan.digest \in Images
    BY <2>1 DEF PushType, ScanOK
  <2>5. scan'.at = "scan" => scan'.digest = scan.digest /\ O!ReportsOf(scan.digest) = {}
    BY <2>3 DEF O!NoScan, PushType, ScanOK
  <2>6. O!ReportsOf(scan.digest) = {} => \A k \in Nat : <<scan.digest, k>> \notin local
    <3>1. ASSUME NEW k \in Nat, <<scan.digest, k>> \in local
          PROVE  O!ReportsOf(scan.digest) # {}
      <4>1. k = 1
        BY <2>4, <3>1
      <4>2. <<scan.digest, k>> \in O!ReportsOf(scan.digest)
        BY <2>4, <3>1, <4>1 DEF O!ReportsOf, O!Reports
      <4> QED  BY <4>2
    <3> QED  BY <3>1
  <2> QED  BY <2>1, <2>5, <2>6 DEF PusherOK
<1>8. CASE O!Scan
  <2>1. scan.at = "scan" /\ scan.digest \in Images /\ UNCHANGED local
    BY <1>8 DEF O!Scan, O!here, PushType, ScanOK
  <2>2. O!Cardinality(O!ReportsOf(scan.digest)) = 0
    <3>1. O!ReportsOf(scan.digest) = {}
      BY <2>1 DEF O!ReportsOf, O!Reports
    <3> QED  BY <3>1, FS_EmptySet, SameCardinality
  <2>3. \/ UNCHANGED push /\ scan' = O!NoScan
        \/ /\ scan' = [scan EXCEPT !.at = "attach"]
           /\ push' = [push EXCEPT ![O!Scanning] =
               [at |-> "store", digest |-> <<scan.digest, O!Cardinality(O!ReportsOf(scan.digest)) + 1>>,
                tagged |-> FALSE, left |-> pushBudget.matched]]
    BY <1>8 DEF O!Scan, O!Begin
  <2>4. CASE UNCHANGED push /\ scan' = O!NoScan
    BY <2>1, <2>4 DEF PusherOK, O!NoScan
  <2>5. CASE /\ scan' = [scan EXCEPT !.at = "attach"]
             /\ push' = [push EXCEPT ![O!Scanning] =
               [at |-> "store", digest |-> <<scan.digest, O!Cardinality(O!ReportsOf(scan.digest)) + 1>>,
                tagged |-> FALSE, left |-> pushBudget.matched]]
    <3>1. scan'.at = "attach" /\ scan'.digest = scan.digest
      BY <2>5 DEF PushType, ScanOK
    <3>2. push'[O!Scanning].digest = <<scan.digest, 1>>
      BY <2>2, <2>5 DEF PushType, PushOK, O!Goroutines
    <3> QED  BY <2>1, <3>1, <3>2
  <2> QED  BY <2>3, <2>4, <2>5
<1>9. CASE O!Scanned
  <2>1. push[O!Scanning].at = "idle" /\ scan'.at = "idle" /\ UNCHANGED <<push, local>>
    BY <1>9 DEF O!Scanned, O!NoScan, O!here
  <2> QED  BY <2>1
<1>10. ASSUME NEW m \in Images, O!Delete(m)
       PROVE  ReportInv'
  BY <1>10 DEF O!Delete, O!scanner
<1>11. CASE O!Restart
  BY <1>11 DEF O!Restart, O!NoPush, O!NoScan, O!Goroutines, O!here
<1>12. CASE UNCHANGED <<push, scan, local>>
  BY <1>12
<1>13. \/ \E p \in Pushers, m \in Images, tagged \in BOOLEAN : O!Push(p, m, tagged)
       \/ \E p \in O!Goroutines : O!PutManifest(p) \/ O!PutTag(p) \/ O!OnPushScan(p) \/ O!Pushed(p)
       \/ \E p \in O!Goroutines, t \in Targets : O!OnPushReplicate(p, t)
       \/ O!ScanPop \/ O!HasReferrer \/ O!Scan \/ O!Scanned
       \/ \E m \in Images : O!Delete(m)
       \/ O!Restart
       \/ UNCHANGED <<push, scan, local>>
  BY DEF O!Next, O!vars, O!Pop, O!ReadManifest, O!ReplicateChild, O!EnsureBlob,
         O!PutRemoteManifest, O!PutRemoteTag, O!JobFails, O!Authorize, O!TokenExpires,
         O!scanner, O!here
<1> QED  BY <1>1, <1>2, <1>3, <1>4, <1>5, <1>6, <1>7, <1>8, <1>9, <1>10, <1>11, <1>12, <1>13

(***************************************************************************)
(* The scanner attaches at most one report to an image, unless a check for *)
(* a report has failed: an image may be queued any number of times, and    *)
(* pushed while it is scanned.                                             *)
(***************************************************************************)
THEOREM OneReportEach ==
  ASSUME O!ObserversAssumption
  PROVE  O!Spec => []OneReport
<1>1. O!Init => PushType /\ PusherOK /\ ReportInv
  <2>1. O!Init => PusherOK /\ ReportInv
    BY DEF O!Init, PusherOK, ReportInv, O!NoPush, O!NoScan, O!Goroutines
  <2> QED  BY <2>1, PushTypeInit
<1>2. PushType /\ PusherOK /\ ReportInv /\ [O!Next]_(O!vars)
        => PushType' /\ PusherOK' /\ ReportInv'
  BY PushTypeStep, PusherStep, ReportStep
<1>3. ReportInv => OneReport
  <2>1. SUFFICES ASSUME ReportInv, ~pushHistory.unchecked, NEW m \in Images
                 PROVE  O!Cardinality(O!ReportsOf(m)) <= 1
    BY DEF OneReport, O!OneReport
  <2>2. O!ReportsOf(m) \subseteq {<<m, 1>>}
    BY <2>1 DEF ReportInv, O!ReportsOf, O!Reports
  <2>3. /\ IsFiniteSet({<<m, 1>>}) /\ Cardinality({<<m, 1>>}) = 1
        /\ Cardinality(O!ReportsOf(m)) <= Cardinality({<<m, 1>>})
    BY <2>2, FS_Singleton, FS_Subset
  <2> QED  BY <2>3, SameCardinality
<1> QED  BY <1>1, <1>2, <1>3, PTL DEF O!Spec

-----------------------------------------------------------------------------
(***************************************************************************)
(* The tag at the targets.                                                 *)
(***************************************************************************)
Root(w) == w.stack[1].digest

\* What a worker is at, with the manifests L stored here.
Sound(w, L) ==
  w.at # "idle" =>
    /\ \A i \in 1..Len(w.stack) : w.stack[i].digest \in L /\ w.stack[i].children \subseteq L
    /\ w.at = "tag" => w.tagged /\ Len(w.stack) = 1

\* What is stored here has its entries.
Closed(L) == \A m \in L : O!ChildrenOf(m) \subseteq L

\* A step inside the job.
Kept(w0, r0, w, r) ==
  /\ w0.at # "idle" /\ w.at # "idle"
  /\ w.tagged = w0.tagged /\ Root(w) = Root(w0) /\ r.tag = r0.tag

\* The moves of a worker keep what Sound says, and are inside the job.
LEMMA ReplacedSound ==
  ASSUME NEW w0 \in Workers, WorkerOK(w0), w0.at = "replicate", NEW L, Sound(w0, L),
         NEW f \in Frames, f.digest = Last(w0).digest, f.children \subseteq L
  PROVE  /\ Sound(Replaced(w0, f), L) /\ Replaced(w0, f).at # "idle"
         /\ Replaced(w0, f).tagged = w0.tagged /\ Root(Replaced(w0, f)) = Root(w0)
<1> DEFINE v == Replaced(w0, f)
           n == Len(w0.stack)
<1>1. /\ v.at = "replicate" /\ Len(v.stack) = n
      /\ n \in Nat \ {0} /\ w0.stack \in Seq(Frames)
      /\ v.stack = [w0.stack EXCEPT ![n] = f]
  BY ReplacedType, WorkFacts
<1>2. v.tagged = w0.tagged
  BY ReplacedType
<1> HIDE DEF v
<1>3. \A i \in 1..n : v.stack[i].digest = w0.stack[i].digest
  BY <1>1 DEF Last
<1>4. \A i \in 1..n : v.stack[i].children \subseteq L
  BY <1>1 DEF Sound
<1>5. Sound(v, L)
  BY <1>1, <1>3, <1>4 DEF Sound
<1>6. Root(v) = Root(w0)
  BY <1>1, <1>3 DEF Root
<1> QED  BY <1>1, <1>2, <1>5, <1>6 DEF v

\* ReadManifest.
LEMMA ReadSound ==
  ASSUME O!ObserversAssumption,
         NEW w0 \in Workers, WorkerOK(w0), NEW r0, NEW w, NEW r, NEW L, Sound(w0, L),
         Closed(L), ReadIn(w0, r0, w, r)
  PROVE  Sound(w, L) /\ Kept(w0, r0, w, r)
<1> DEFINE m == Last(w0).digest
           f == [digest |-> m, read |-> TRUE, children |-> O!ChildrenOf(m),
                 blobs |-> O!BlobsOf(m)]
<1>1. w0.at = "replicate" /\ w = Replaced(w0, f) /\ r = r0
  BY DEF ReadIn
<1>2. Last(w0) \in Frames /\ m \in Pushable /\ m \in L
  BY <1>1, WorkFacts DEF Frames, Sound, Last
<1>3. f \in Frames /\ f.digest = m /\ f.children \subseteq L
  BY <1>2, RefsType DEF Frames, Closed
<1> HIDE DEF f
<1> QED  BY <1>1, <1>3, ReplacedSound DEF Kept

\* ReplicateChild, of an entry that was entered before.
LEMMA SkippedSound ==
  ASSUME NEW w0 \in Workers, WorkerOK(w0), NEW r0, NEW w, NEW r, NEW L, Sound(w0, L),
         NEW c \in Pushable, Skipped(w0, r0, w, r, c)
  PROVE  Sound(w, L) /\ Kept(w0, r0, w, r)
<1> DEFINE f == [Last(w0) EXCEPT !.children = @ \ {c}]
           n == Len(w0.stack)
<1>1. w0.at = "replicate" /\ w = WithoutChild(w0, c) /\ r = r0 /\ Last(w0).read
  BY DEF Skipped
<1>2. /\ f \in Frames /\ f.digest = Last(w0).digest /\ f.children = Last(w0).children \ {c}
      /\ WithoutChild(w0, c) = Replaced(w0, f) /\ n \in Nat \ {0}
  BY <1>1, WithoutChildFacts
<1> HIDE DEF f
<1>3. f.children \subseteq L
  BY <1>1, <1>2 DEF Sound, Last
<1> QED  BY <1>1, <1>2, <1>3, ReplacedSound DEF Kept

\* EnsureBlob.
LEMMA EnsuredSound ==
  ASSUME NEW w0 \in Workers, WorkerOK(w0), NEW r0 \in Copies, NEW w, NEW r, NEW L, Sound(w0, L),
         NEW b \in SomeBlob, Ensured(w0, r0, w, r, b)
  PROVE  Sound(w, L) /\ Kept(w0, r0, w, r)
<1> DEFINE f == [Last(w0) EXCEPT !.blobs = @ \ {b}]
           n == Len(w0.stack)
<1>1. w0.at = "replicate" /\ w = Replaced(w0, f) /\ r = [r0 EXCEPT !.blobs = @ \union {b}]
  BY DEF Ensured
<1>2. r.tag = r0.tag
  BY <1>1 DEF Copies
<1>3. Last(w0) \in Frames /\ n \in Nat \ {0} /\ Last(w0) = w0.stack[n]
  BY <1>1, WorkFacts DEF Last
<1>4. f \in Frames /\ f.digest = Last(w0).digest /\ f.children = Last(w0).children
  BY <1>3, FrameType DEF Frames
<1> HIDE DEF f
<1>5. f.children \subseteq L
  BY <1>1, <1>3, <1>4 DEF Sound
<1>6. w0.at = "replicate" /\ w = Replaced(w0, f)
  BY <1>1
<1> QED  BY <1>2, <1>4, <1>5, <1>6, ReplacedSound DEF Kept

\* ReplicateChild, of another entry.
LEMMA EnteredSound ==
  ASSUME NEW w0 \in Workers, WorkerOK(w0), NEW r0, NEW w, NEW r, NEW L, Sound(w0, L),
         NEW c \in Pushable, Entered(w0, r0, w, r, c)
  PROVE  Sound(w, L) /\ Kept(w0, r0, w, r)
<1> DEFINE f == [Last(w0) EXCEPT !.children = @ \ {c}]
           v == WithoutChild(w0, c)
           n == Len(w0.stack)
           s == Append(v.stack, O!Frame(c))
<1>1. /\ w0.at = "replicate" /\ r = r0 /\ Last(w0).read /\ c \in Last(w0).children
      /\ w = [w0 EXCEPT !.visited = @ \union {c}, !.stack = s]
  BY DEF Entered
<1>2. /\ f \in Frames /\ f.digest = Last(w0).digest /\ f.children = Last(w0).children \ {c}
      /\ v = Replaced(w0, f) /\ n \in Nat \ {0} /\ v.stack \in Seq(Frames) /\ Len(v.stack) = n
  BY <1>1, WithoutChildFacts
<1> HIDE DEF f, v
<1>3. Last(w0).children \subseteq L
  BY <1>1, <1>2 DEF Sound, Last
<1>4. Sound(v, L) /\ v.at # "idle" /\ Root(v) = Root(w0)
  BY <1>1, <1>2, <1>3, ReplacedSound
<1>5. O!Frame(c) \in Frames /\ O!Frame(c).digest = c /\ O!Frame(c).children = {}
  BY <1>2, FrameType DEF O!Frame
<1>6. /\ s \in Seq(Frames) /\ Len(s) = n + 1 /\ s[n + 1] = O!Frame(c)
      /\ \A i \in 1..n : s[i] = v.stack[i]
  BY <1>2, <1>5
<1> HIDE DEF s
<1>7. w.stack = s /\ w.at = "replicate"
  BY <1>1 DEF Workers
<1>8. w.tagged = w0.tagged
  BY <1>1 DEF Workers
<1>9. ASSUME NEW i \in 1..(n + 1)
      PROVE  s[i].digest \in L /\ s[i].children \subseteq L
  <2>1. CASE i = n + 1
    BY <1>1, <1>3, <1>5, <1>6, <2>1
  <2>2. CASE i \in 1..n
    BY <1>2, <1>4, <1>6, <2>2 DEF Sound
  <2> QED  BY <1>2, <2>1, <2>2
<1>10. Sound(w, L)
  BY <1>6, <1>7, <1>9 DEF Sound
<1>11. Root(w) = Root(w0)
  BY <1>2, <1>4, <1>6, <1>7 DEF Root
<1> QED  BY <1>1, <1>7, <1>8, <1>10, <1>11 DEF Kept

\* PutRemoteManifest: with the last frame the job goes on to its tag or ends.
LEMMA PutSound ==
  ASSUME NEW w0 \in Workers, WorkerOK(w0), NEW r0 \in Copies, NEW w, NEW r, NEW L, Sound(w0, L),
         ManifestPut(w0, r0, w, r)
  PROVE  /\ Sound(w, L) /\ r.tag = r0.tag
         /\ Kept(w0, r0, w, r) \/ (~w0.tagged /\ w = O!NoWork)
<1> DEFINE n == Len(w0.stack)
<1>1. w0.at = "replicate" /\ r = WithManifest(w0, r0)
  BY DEF ManifestPut
<1>2. n \in Nat \ {0} /\ w0.stack \in Seq(Frames)
  BY <1>1, WorkFacts
<1>3. r.tag = r0.tag
  BY <1>1 DEF Copies, WithManifest
<1>4. CASE n > 1
  <2> DEFINE s == SubSeq(w0.stack, 1, n - 1)
  <2>1. w = [w0 EXCEPT !.stack = s]
    BY <1>4 DEF ManifestPut
  <2>2. s \in Seq(Frames) /\ Len(s) = n - 1 /\ \A i \in 1..(n - 1) : s[i] = w0.stack[i]
    BY <1>2, <1>4, ButLastProperties
  <2> HIDE DEF s
  <2>3. w.stack = s /\ w.at = "replicate"
    BY <1>1, <2>1 DEF Workers
  <2>4. w.tagged = w0.tagged
    BY <2>1 DEF Workers
  <2>5. 1 \in 1..(n - 1) /\ \A i \in 1..(n - 1) : i \in 1..n
    BY <1>2, <1>4
  <2>6. Sound(w, L)
    BY <1>1, <2>2, <2>3, <2>5 DEF Sound
  <2>7. Root(w) = Root(w0)
    BY <2>2, <2>3, <2>5 DEF Root
  <2> QED  BY <1>1, <1>3, <2>3, <2>4, <2>6, <2>7 DEF Kept
<1>5. CASE ~(n > 1) /\ w0.tagged
  <2>1. w = [w0 EXCEPT !.at = "tag"]
    BY <1>5 DEF ManifestPut
  <2>2. w.stack = w0.stack /\ w.at = "tag"
    BY <2>1 DEF Workers
  <2>3. w.tagged = w0.tagged
    BY <2>1 DEF Workers
  <2>4. n = 1
    <3>1. \A k \in Nat \ {0} : ~(k > 1) => k = 1
      OBVIOUS
    <3>2. n \in Nat \ {0} /\ ~(n > 1)
      BY <1>2, <1>5
    <3> QED  BY <3>1, <3>2
  <2>5. Sound(w, L) /\ Root(w) = Root(w0)
    BY <1>1, <1>5, <2>2, <2>3, <2>4 DEF Sound, Root
  <2> QED  BY <1>1, <1>3, <2>2, <2>3, <2>5 DEF Kept
<1>6. CASE ~(n > 1) /\ ~w0.tagged
  <2>1. w = O!NoWork
    BY <1>6 DEF ManifestPut
  <2> QED  BY <1>3, <1>6, <2>1 DEF Sound, O!NoWork
<1> QED  BY <1>4, <1>5, <1>6

\* Pop.
LEMMA PoppedSound ==
  ASSUME NEW w0, NEW r0, NEW w, NEW r, NEW L, NEW j \in ReplJobs, j.digest \in L,
         Popped(w0, r0, w, r, j)
  PROVE  /\ Sound(w, L) /\ w.at = "replicate" /\ Root(w) = j.digest /\ w.tagged = j.tagged
         /\ w0.at = "idle" /\ r = r0
<1>1. /\ w.stack = <<O!Frame(j.digest)>> /\ w.at = "replicate" /\ w.tagged = j.tagged
      /\ w0.at = "idle" /\ r = r0
  BY DEF Popped, WorkOn
<1>2. Len(w.stack) = 1 /\ w.stack[1].digest = j.digest /\ w.stack[1].children = {}
  BY <1>1 DEF O!Frame
<1> QED  BY <1>1, <1>2 DEF Sound, Root

\* Somebody has set the tag and has still to tell the target.
Pending(t) ==
  \E p \in Pushers : push[p].tagged /\ push[p].at \in {"scan", "replicate"} /\ t \in push[p].left

\* No job in the queue of the target sets its tag.
NoneQueued(t) == \A i \in 1..Len(queue[t]) : ~queue[t][i].tagged

\* The last job in the queue that sets the tag sets it to what it names here.
LastQueued(t) ==
  \E i \in 1..Len(queue[t]) :
    /\ queue[t][i].tagged /\ queue[t][i].digest = localTag
    /\ \A j \in 1..Len(queue[t]) : j > i => ~queue[t][j].tagged

\* The worker is at the job that does, and none behind it sets the tag.
AtWork(t) ==
  /\ NoneQueued(t) /\ worker[t].at # "idle" /\ worker[t].tagged
  /\ Root(worker[t]) = localTag

\* The tag at the target is the one here, and nothing will change it.
Settled(t) ==
  /\ NoneQueued(t) /\ (worker[t].at = "idle" \/ ~worker[t].tagged)
  /\ copies[t].tag = localTag

\* One of the four holds for every target that matches and has dropped nothing.
Follows(t) == Pending(t) \/ LastQueued(t) \/ AtWork(t) \/ Settled(t)

Quiet == ~pushHistory.fault /\ ~pushHistory.overlap

\* Before OnPushReplicate all targets that match are still to be told.
LeftInv ==
  \A p \in O!Goroutines :
    /\ push[p].at \in {"store", "tag", "scan"} => push[p].left = pushBudget.matched
    /\ push[p].at = "tag" => push[p].tagged

\* What is replicated is stored here: without a fault nothing is deleted.
StoredInv ==
  /\ Closed(local)
  /\ \A p \in O!Goroutines :
       /\ push[p].at = "store" => O!ChildrenOf(push[p].digest) \subseteq local
       /\ push[p].at \in {"tag", "scan", "replicate"} => push[p].digest \in local
  /\ \A t \in Targets : \A i \in 1..Len(queue[t]) : queue[t][i].digest \in local
  /\ \A t \in Targets : Sound(worker[t], local)

\* One client at a time pushes with a tag, and after PutTag the tag names what
\* it pushes.
Tagging(p) == push[p].at # "idle" /\ push[p].tagged

OneTagger ==
  /\ \A p \in Pushers, q \in Pushers : Tagging(p) /\ Tagging(q) => p = q
  /\ \A p \in Pushers :
       push[p].tagged /\ push[p].at \in {"scan", "replicate"} => push[p].digest = localTag

\* A target that matches and has dropped nothing follows.
TagInv == \A t \in pushBudget.matched \ dropped : Follows(t)

\* What holds in a behaviour without faults and overlaps.
CalmInv == Quiet => StoredInv /\ OneTagger /\ TagInv

\* Which step of a worker, when nothing fails.
WorkerStep(t) ==
  \/ /\ O!Pop(t)
     /\ Popped(worker[t], copies[t], worker'[t], copies'[t], Head(queue[t]))
  \/ UNCHANGED queue /\ Kept(worker[t], copies[t], worker'[t], copies'[t])
  \/ /\ UNCHANGED queue /\ worker[t].at # "idle" /\ ~worker[t].tagged
     /\ worker'[t] = O!NoWork /\ copies'[t].tag = copies[t].tag
  \/ /\ UNCHANGED queue /\ worker[t].at # "idle" /\ worker[t].tagged
     /\ worker'[t] = O!NoWork /\ copies'[t].tag = Root(worker[t])

\* When nothing fails, a step of a worker begins its job, goes on with it, or
\* ends it, with the tag at the target if the job is to set it.
LEMMA CalmWorks ==
  ASSUME O!ObserversAssumption, PushType, StoredInv, NEW t \in Targets, Works(t), ~pushHistory'.fault
  PROVE  /\ Others(t) /\ Sound(worker'[t], local) /\ WorkerStep(t)
         /\ UNCHANGED <<local, localTag, push, dropped, pushHistory, pushBudget>>
<1> DEFINE w0 == worker[t]
           r0 == copies[t]
           w  == worker'[t]
           r  == copies'[t]
<1>1. w0 \in Workers /\ WorkerOK(w0) /\ r0 \in Copies /\ Sound(w0, local) /\ Closed(local)
  BY DEF PushType, WorkersOK, WorkerOK, StoredInv
<1>2. ~O!JobFails(t)
  BY FaultType DEF O!JobFails, PushType
<1>3. UNCHANGED <<local, localTag, push, dropped, pushHistory, pushBudget>>
  BY <1>2 DEF Works, O!Pop, O!ReadManifest, O!ReplicateChild, O!EnsureBlob, O!PutRemoteManifest,
         O!PutRemoteTag, O!here
<1>4. ~O!Pop(t) => UNCHANGED queue
  BY <1>2 DEF Works, O!ReadManifest, O!ReplicateChild, O!EnsureBlob, O!PutRemoteManifest,
              O!PutRemoteTag
<1> HIDE DEF w0, r0, w, r
<1>5. CASE O!Pop(t)
  <2>1. /\ Others(t) /\ Head(queue[t]) \in ReplJobs
        /\ Popped(w0, r0, w, r, Head(queue[t]))
    BY <1>5, PopMove DEF w0, r0, w, r
  <2>2. Head(queue[t]).digest \in local
    <3>1. queue[t] \in Seq(ReplJobs) /\ queue[t] # <<>>
      BY <1>5 DEF O!Pop, PushType, PushOK
    <3>2. Head(queue[t]) = queue[t][1] /\ 1 \in 1..Len(queue[t])
      BY <3>1
    <3> QED  BY <3>2 DEF StoredInv
  <2>3. Sound(w, local)
    BY <2>1, <2>2, PoppedSound
  <2> QED  BY <1>3, <1>5, <2>1, <2>3 DEF WorkerStep, w0, r0, w, r
<1>6. CASE O!ReadManifest(t)
  <2>1. O!Top(t).digest \in local
    <3>1. w0.at # "idle"
      BY <1>6 DEF O!ReadManifest, w0
    <3>2. Len(w0.stack) \in 1..Len(w0.stack)
      BY <1>1, <3>1, WorkFacts
    <3> QED  BY <1>1, <3>1, <3>2 DEF Sound, O!Top, w0
  <2>2. Others(t) /\ ReadIn(w0, r0, w, r)
    BY <1>6, <2>1, ReadManifestMove DEF w0, r0, w, r
  <2>3. Sound(w, local) /\ Kept(w0, r0, w, r)
    BY <1>1, <2>2, ReadSound
  <2>4. UNCHANGED queue
    BY <1>6 DEF O!ReadManifest
  <2> QED  BY <1>3, <2>2, <2>3, <2>4 DEF WorkerStep, w0, r0, w, r
<1>7. CASE O!ReplicateChild(t)
  <2>1. Others(t) /\ UNCHANGED queue
    BY <1>7, ReplicateChildMove DEF O!ReplicateChild
  <2>2. PICK c \in Pushable : Skipped(w0, r0, w, r, c) \/ Entered(w0, r0, w, r, c)
    BY <1>7, ReplicateChildMove DEF w0, r0, w, r
  <2>3. Sound(w, local) /\ Kept(w0, r0, w, r)
    BY <1>1, <2>2, SkippedSound, EnteredSound
  <2> QED  BY <1>3, <2>1, <2>3 DEF WorkerStep, w0, r0, w, r
<1>8. CASE O!EnsureBlob(t)
  <2>1. Others(t) /\ UNCHANGED queue
    BY <1>8, EnsureBlobMove DEF O!EnsureBlob
  <2>2. PICK b \in SomeBlob : Ensured(w0, r0, w, r, b)
    BY <1>8, EnsureBlobMove DEF w0, r0, w, r
  <2>3. Sound(w, local) /\ Kept(w0, r0, w, r)
    BY <1>1, <2>2, EnsuredSound
  <2> QED  BY <1>3, <2>1, <2>3 DEF WorkerStep, w0, r0, w, r
<1>9. CASE O!PutRemoteManifest(t)
  <2>1. Others(t) /\ ManifestPut(w0, r0, w, r) /\ UNCHANGED queue
    BY <1>9, PutRemoteManifestMove DEF O!PutRemoteManifest, w0, r0, w, r
  <2>2. /\ Sound(w, local) /\ r.tag = r0.tag
        /\ Kept(w0, r0, w, r) \/ (~w0.tagged /\ w = O!NoWork)
    BY <1>1, <2>1, PutSound
  <2>3. w0.at # "idle"
    BY <2>1 DEF ManifestPut
  <2> QED  BY <1>3, <2>1, <2>2, <2>3 DEF WorkerStep, w0, r0, w, r
<1>10. CASE O!PutRemoteTag(t)
  <2>1. /\ Others(t) /\ w0.at = "tag" /\ w = O!NoWork /\ UNCHANGED queue
        /\ r = [r0 EXCEPT !.tag = Last(w0).digest]
    BY <1>10, PutRemoteTagMove DEF O!PutRemoteTag, w0, r0, w, r
  <2>2. w0.tagged /\ Len(w0.stack) = 1
    BY <1>1, <2>1 DEF Sound
  <2>3. r.tag = Root(w0)
    BY <1>1, <2>1, <2>2 DEF Copies, Last, Root
  <2>4. Sound(w, local)
    BY <2>1 DEF Sound, O!NoWork
  <2> QED  BY <1>3, <2>1, <2>2, <2>3, <2>4 DEF WorkerStep, w0, r0, w, r
<1> QED  BY <1>2, <1>5, <1>6, <1>7, <1>8, <1>9, <1>10 DEF Works

\* A fault and an overlap are not forgotten, and what matches does not change.
LEMMA HistoryStep ==
  ASSUME PushType, [O!Next]_(O!vars)
  PROVE  Quiet' => Quiet /\ UNCHANGED <<pushBudget.matched>>
<1>1. CASE pushBudget' = pushBudget /\ pushHistory' = pushHistory
  BY <1>1 DEF Quiet
<1>2. CASE O!Fault
  BY <1>2, FaultType DEF PushType, Quiet
<1>3. ASSUME NEW p \in Pushers, NEW m \in Images, NEW tagged \in BOOLEAN, O!Push(p, m, tagged)
      PROVE  Quiet' => Quiet /\ UNCHANGED <<pushBudget.matched>>
  <2>1. UNCHANGED <<pushBudget.matched>>
    BY <1>3, SpendType DEF O!Push, PushType
  <2>2. Quiet' => Quiet
    BY <1>3 DEF O!Push, PushType, BudgetOK, Quiet
  <2> QED  BY <2>1, <2>2
<1>4. CASE pushHistory' = [pushHistory EXCEPT !.fault = TRUE, !.unchecked = TRUE]
  BY <1>4 DEF PushType, BudgetOK, Quiet
<1>5. \/ pushBudget' = pushBudget /\ pushHistory' = pushHistory
      \/ O!Fault
      \/ \E p \in Pushers, m \in Images, tagged \in BOOLEAN : O!Push(p, m, tagged)
      \/ pushHistory' = [pushHistory EXCEPT !.fault = TRUE, !.unchecked = TRUE]
  BY DEF O!Next, O!vars, O!Pop, O!ReadManifest, O!ReplicateChild, O!EnsureBlob,
         O!PutRemoteManifest, O!PutRemoteTag, O!JobFails, O!Authorize, O!TokenExpires, O!Delete,
         O!PutManifest, O!PutTag, O!OnPushScan, O!Pushed, O!OnPushReplicate, O!ScanPop,
         O!HasReferrer, O!Scan, O!Scanned, O!Restart, O!NoFault
<1> QED  BY <1>1, <1>2, <1>3, <1>4, <1>5

\* The steps of a calm behaviour.
LEMMA CalmNext ==
  ASSUME PushType, [O!Next]_(O!vars), Quiet'
  PROVE  \/ \E p \in Pushers, m \in Images, tagged \in BOOLEAN : O!Push(p, m, tagged)
         \/ \E p \in O!Goroutines : O!PutManifest(p) \/ O!PutTag(p) \/ O!OnPushScan(p) \/ O!Pushed(p)
         \/ \E p \in O!Goroutines, t \in Targets : O!OnPushReplicate(p, t)
         \/ O!Scan
         \/ \E t \in Targets : Works(t)
         \/ UNCHANGED <<local, localTag, push, queue, worker, copies, dropped>>
<1>1. ~O!Fault
  BY FaultType DEF PushType, Quiet
<1> QED  BY <1>1 DEF O!Next, O!vars, Works, O!Authorize, O!TokenExpires, O!Delete, O!ScanPop,
                     O!HasReferrer, O!Scanned, O!Restart, O!here

\* Every step keeps who is still to be told.
LEMMA LeftStep ==
  ASSUME PushType, LeftInv, [O!Next]_(O!vars)
  PROVE  LeftInv'
<1>0. UNCHANGED <<pushBudget.matched>>
  <2>1. CASE pushBudget' = pushBudget  BY <2>1
  <2>2. CASE O!Spend("faults") \/ O!Spend("pushes")  BY <2>2, SpendType DEF PushType
  <2> QED  BY <2>1, <2>2
         DEF O!Next, O!vars, O!Pop, O!ReadManifest, O!ReplicateChild, O!EnsureBlob,
         O!PutRemoteManifest, O!PutRemoteTag, O!JobFails, O!Authorize, O!TokenExpires, O!Delete,
         O!PutManifest, O!PutTag, O!OnPushScan, O!Pushed, O!OnPushReplicate, O!ScanPop,
         O!HasReferrer, O!Scan, O!Scanned, O!Restart, O!NoFault, O!Fault, O!Push
<1> USE DEF LeftInv
<1>1. ASSUME NEW p \in Pushers, NEW m \in Images, NEW tagged \in BOOLEAN, O!Push(p, m, tagged)
      PROVE  LeftInv'
  BY <1>0, <1>1 DEF O!Push, O!Begin, PushType, PushOK, O!Goroutines
<1>2. ASSUME NEW p \in O!Goroutines, O!PutManifest(p)
      PROVE  LeftInv'
  <2>1. CASE push[p].tagged
    <3>1. push' = [push EXCEPT ![p].at = "tag"] /\ push[p].at = "store"
      BY <1>2, <2>1 DEF O!PutManifest
    <3> QED  BY <1>0, <2>1, <3>1 DEF PushType, PushOK, PushStates
  <2>2. CASE ~push[p].tagged
    <3>1. push' = [push EXCEPT ![p].at = "scan"] /\ push[p].at = "store"
      BY <1>2, <2>2 DEF O!PutManifest
    <3> QED  BY <1>0, <3>1 DEF PushType, PushOK, PushStates
  <2> QED  BY <2>1, <2>2
<1>3. ASSUME NEW p \in O!Goroutines, O!PutTag(p) \/ O!OnPushScan(p)
      PROVE  LeftInv'
  <2>1. CASE O!PutTag(p)
    BY <1>0, <2>1 DEF O!PutTag, PushType, PushOK, PushStates
  <2>2. CASE O!OnPushScan(p)
    <3>1. push' = [push EXCEPT ![p].at = "replicate"]
      BY <2>2 DEF O!OnPushScan
    <3> QED  BY <1>0, <3>1 DEF PushType, PushOK, PushStates
  <2> QED  BY <1>3, <2>1, <2>2
<1>4. ASSUME NEW p \in O!Goroutines, O!Pushed(p)
      PROVE  LeftInv'
  BY <1>0, <1>4 DEF O!Pushed, O!NoPush, PushType, PushOK
<1>5. ASSUME NEW p \in O!Goroutines, NEW t \in Targets, O!OnPushReplicate(p, t)
      PROVE  LeftInv'
  <2>1. push' = [push EXCEPT ![p].left = @ \ {t}] /\ push[p].at = "replicate"
    BY <1>5 DEF O!OnPushReplicate
  <2> QED  BY <1>0, <2>1 DEF PushType, PushOK, PushStates
<1>6. CASE O!Scan
  <2>1. \/ UNCHANGED push
        \/ push' = [push EXCEPT ![O!Scanning] =
               [at |-> "store", digest |-> <<scan.digest, O!Cardinality(O!ReportsOf(scan.digest)) + 1>>,
                tagged |-> FALSE, left |-> pushBudget.matched]]
    BY <1>6 DEF O!Scan, O!Begin
  <2> QED  BY <1>0, <2>1 DEF PushType, PushOK, O!Goroutines
<1>7. CASE O!Restart
  BY <1>7 DEF O!Restart, O!NoPush
<1>8. CASE UNCHANGED push
  BY <1>0, <1>8
<1>9. \/ \E p \in Pushers, m \in Images, tagged \in BOOLEAN : O!Push(p, m, tagged)
      \/ \E p \in O!Goroutines : O!PutManifest(p) \/ O!PutTag(p) \/ O!OnPushScan(p) \/ O!Pushed(p)
      \/ \E p \in O!Goroutines, t \in Targets : O!OnPushReplicate(p, t)
      \/ O!Scan
      \/ O!Restart
      \/ UNCHANGED push
  BY DEF O!Next, O!vars, O!Pop, O!ReadManifest, O!ReplicateChild, O!EnsureBlob,
         O!PutRemoteManifest, O!PutRemoteTag, O!JobFails, O!Authorize, O!TokenExpires, O!Delete,
         O!ScanPop, O!HasReferrer, O!Scanned
<1> QED  BY <1>1, <1>2, <1>3, <1>4, <1>5, <1>6, <1>7, <1>8, <1>9

\* What is replicated stays stored here.
LEMMA StoredStep ==
  ASSUME O!ObserversAssumption, PushType, StoredInv, [O!Next]_(O!vars), Quiet'
  PROVE  StoredInv'
<1>1. ASSUME NEW p \in Pushers, NEW m \in Images, NEW tagged \in BOOLEAN, O!Push(p, m, tagged)
      PROVE  StoredInv'
  <2>1. UNCHANGED <<local, queue, worker>> /\ O!ChildrenOf(m) \subseteq local
    BY <1>1 DEF O!Push, O!here, O!ChildrenOf
  <2>2. \A q \in O!Goroutines :
          \/ push'[q] = push[q]
          \/ push'[q].at = "store" /\ push'[q].digest = m
    BY <1>1 DEF O!Push, O!Begin, PushType, PushOK, O!Goroutines
  <2> QED  BY <2>1, <2>2 DEF StoredInv
<1>2. ASSUME NEW p \in O!Goroutines, O!PutManifest(p)
      PROVE  StoredInv'
  <2>1. /\ local' = local \union {push[p].digest} /\ push[p].at = "store"
        /\ UNCHANGED <<queue, worker>>
    BY <1>2 DEF O!PutManifest
  <2>2. \A q \in O!Goroutines : /\ push'[q].digest = push[q].digest
                                /\ push'[q].at = push[q].at \/ q = p
                                /\ push'[p].at # "store"
    BY <1>2 DEF O!PutManifest, PushType, PushOK, PushStates
  <2>3. Closed(local')
    BY <2>1 DEF StoredInv, Closed
  <2>4. \A q \in O!Goroutines :
          /\ push'[q].at = "store" => O!ChildrenOf(push'[q].digest) \subseteq local'
          /\ push'[q].at \in {"tag", "scan", "replicate"} => push'[q].digest \in local'
    BY <2>1, <2>2 DEF StoredInv
  <2>5. \A t \in Targets : Sound(worker'[t], local')
    <3>1. local \subseteq local' /\ UNCHANGED worker
      BY <2>1
    <3> QED  BY <3>1 DEF StoredInv, Sound
  <2> QED  BY <2>1, <2>3, <2>4, <2>5 DEF StoredInv, Closed
<1>3. ASSUME NEW p \in O!Goroutines, O!PutTag(p) \/ O!OnPushScan(p)
      PROVE  StoredInv'
  <2>1. UNCHANGED <<local, queue, worker>>
    BY <1>3 DEF O!PutTag, O!OnPushScan, O!here
  <2>2. \A q \in O!Goroutines :
          /\ push'[q].digest = push[q].digest
          /\ push'[q].at = push[q].at \/ (push[q].at \in {"tag", "scan"} /\ push'[q].at # "store")
    BY <1>3 DEF O!PutTag, O!OnPushScan, PushType, PushOK, PushStates
  <2> QED  BY <2>1, <2>2 DEF StoredInv
<1>4. ASSUME NEW p \in O!Goroutines, O!Pushed(p)
      PROVE  StoredInv'
  <2>1. UNCHANGED <<local, queue, worker>>
    BY <1>4 DEF O!Pushed, O!here
  <2>2. \A q \in O!Goroutines : push'[q] = push[q] \/ push'[q].at = "idle"
    BY <1>4 DEF O!Pushed, O!NoPush, PushType, PushOK
  <2> QED  BY <2>1, <2>2 DEF StoredInv
<1>5. ASSUME NEW p \in O!Goroutines, NEW t \in Targets, O!OnPushReplicate(p, t)
      PROVE  StoredInv'
  <2>1. /\ UNCHANGED <<local, worker>> /\ push[p].at = "replicate"
        /\ push' = [push EXCEPT ![p].left = @ \ {t}]
    BY <1>5 DEF O!OnPushReplicate, O!here
  <2>2. \A q \in O!Goroutines : push'[q].digest = push[q].digest /\ push'[q].at = push[q].at
    BY <2>1 DEF PushType, PushOK, PushStates
  <2>3. queue \in [Targets -> Seq(ReplJobs)] /\ push[p].digest \in local
    BY <2>1 DEF PushType, PushOK, StoredInv
  <2>4. \A u \in Targets : \A i \in 1..Len(queue'[u]) : queue'[u][i].digest \in local
    <3>1. CASE UNCHANGED queue
      BY <3>1 DEF StoredInv
    <3>2. CASE queue' = [queue EXCEPT ![t] =
                         Append(@, [digest |-> push[p].digest, tagged |-> push[p].tagged])]
      <4> DEFINE j == [digest |-> push[p].digest, tagged |-> push[p].tagged]
      <4>1. j.digest \in local
        BY <2>3
      <4> HIDE DEF j
      <4>2. queue' = [queue EXCEPT ![t] = Append(@, j)]
        BY <3>2 DEF j
      <4>3. ASSUME NEW u \in Targets, NEW i \in 1..Len(queue'[u])
            PROVE  queue'[u][i].digest \in local
        <5>1. CASE u # t  BY <2>3, <4>2, <4>3, <5>1 DEF StoredInv
        <5>2. CASE u = t
          <6>1. queue'[t] = Append(queue[t], j) /\ queue[t] \in Seq(ReplJobs)
            BY <2>3, <4>2
          <6>2. i \in 1..Len(queue[t]) \/ queue'[t][i] = j
            BY <4>3, <5>2, <6>1
          <6>3. i \in 1..Len(queue[t]) => queue'[t][i] = queue[t][i]
            BY <6>1
          <6> QED  BY <4>1, <5>2, <6>2, <6>3 DEF StoredInv
        <5> QED  BY <5>1, <5>2
      <4> QED  BY <4>3
    <3> QED  BY <1>5, <3>1, <3>2 DEF O!OnPushReplicate
  <2> QED  BY <2>1, <2>2, <2>4 DEF StoredInv
<1>6. CASE O!Scan
  <2>1. UNCHANGED <<local, queue, worker>> /\ scan.digest \in Images
    BY <1>6 DEF O!Scan, O!here, PushType, ScanOK
  <2> DEFINE d == <<scan.digest, O!Cardinality(O!ReportsOf(scan.digest)) + 1>>
  <2>2. O!ChildrenOf(d) = {}
    <3>1. O!Cardinality(O!ReportsOf(scan.digest)) \in Nat
      BY <2>1, ReportCount
    <3>2. d \in Images \X Nat
      BY <2>1, <3>1
    <3>3. d \notin Images
      BY <3>2 DEF O!ObserversAssumption
    <3> QED  BY <3>3 DEF O!ChildrenOf
  <2>3. \/ UNCHANGED push
        \/ push' = [push EXCEPT ![O!Scanning] =
               [at |-> "store", digest |-> d, tagged |-> FALSE, left |-> pushBudget.matched]]
    BY <1>6 DEF O!Scan, O!Begin
  <2> HIDE DEF d
  <2>4. \A q \in O!Goroutines :
          \/ push'[q] = push[q]
          \/ push'[q].at = "store" /\ push'[q].digest = d
    BY <2>3 DEF PushType, PushOK, O!Goroutines
  <2> QED  BY <2>1, <2>2, <2>4 DEF StoredInv
<1>7. ASSUME NEW t \in Targets, Works(t)
      PROVE  StoredInv'
  <2>1. /\ Others(t) /\ Sound(worker'[t], local) /\ WorkerStep(t)
        /\ UNCHANGED <<local, localTag, push, dropped, pushHistory, pushBudget>>
    BY <1>7, CalmWorks DEF Quiet
  <2>2. \A u \in Targets : Sound(worker'[u], local)
    <3>1. \A u \in Targets : u # t => worker'[u] = worker[u]
      BY <2>1 DEF Others, PushType, WorkersOK
    <3> QED  BY <2>1, <3>1 DEF StoredInv
  <2>3. \A u \in Targets : \A i \in 1..Len(queue'[u]) : queue'[u][i].digest \in local
    <3>1. CASE UNCHANGED queue
      BY <3>1 DEF StoredInv
    <3>2. CASE O!Pop(t)
      <4>1. queue \in [Targets -> Seq(ReplJobs)]
        BY DEF PushType, PushOK
      <4>2. queue[t] # <<>> /\ queue' = [queue EXCEPT ![t] = Tail(@)]
        BY <3>2 DEF O!Pop
      <4>3. ASSUME NEW u \in Targets, NEW i \in 1..Len(queue'[u])
            PROVE  queue'[u][i].digest \in local
        <5>1. CASE u # t  BY <4>1, <4>2, <4>3, <5>1 DEF StoredInv
        <5>2. CASE u = t
          <6>1. queue'[t] = Tail(queue[t]) /\ queue[t] \in Seq(ReplJobs)
            BY <4>1, <4>2
          <6>2. i + 1 \in 1..Len(queue[t]) /\ queue'[t][i] = queue[t][i + 1]
            BY <4>2, <4>3, <5>2, <6>1, TailFacts
          <6> QED  BY <5>2, <6>2 DEF StoredInv
        <5> QED  BY <5>1, <5>2
      <4> QED  BY <4>3
    <3> QED  BY <2>1, <3>1, <3>2 DEF WorkerStep
  <2> QED  BY <2>1, <2>2, <2>3 DEF StoredInv
<1>8. CASE UNCHANGED <<local, localTag, push, queue, worker, copies, dropped>>
  BY <1>8 DEF StoredInv
<1> QED  BY <1>1, <1>2, <1>3, <1>4, <1>5, <1>6, <1>7, <1>8, CalmNext

\* At most one tagged push at a time stays so.
LEMMA OneTaggerStep ==
  ASSUME O!ObserversAssumption, PushType, PusherOK, LeftInv, OneTagger, [O!Next]_(O!vars), Quiet'
  PROVE  OneTagger'
<1>1. ASSUME NEW p \in Pushers, NEW m \in Images, NEW tagged \in BOOLEAN, O!Push(p, m, tagged)
      PROVE  OneTagger'
  <2>1. tagged => \A q \in Pushers : ~Tagging(q)
    BY <1>1 DEF O!Push, PushType, BudgetOK, Quiet, Tagging
  <2>2. /\ \A q \in Pushers : q # p => push'[q] = push[q]
        /\ push'[p].at = "store" /\ push'[p].tagged = tagged
        /\ UNCHANGED localTag
    BY <1>1 DEF O!Push, O!Begin, PushType, PushOK, O!Goroutines, O!here
  <2> QED  BY <2>1, <2>2 DEF OneTagger, Tagging
<1>2. ASSUME NEW p \in O!Goroutines, O!PutManifest(p)
      PROVE  OneTagger'
  <2>1. /\ \A q \in O!Goroutines : q # p => push'[q] = push[q]
        /\ push'[p].at = "tag" \/ (push'[p].at = "scan" /\ ~push[p].tagged)
        /\ push[p].at # "idle" /\ UNCHANGED localTag
    BY <1>2 DEF O!PutManifest, PushType, PushOK, PushStates
  <2>2. push'[p].tagged = push[p].tagged
    BY <1>2 DEF O!PutManifest, PushType, PushOK, PushStates
  <2> QED  BY <2>1, <2>2 DEF OneTagger, Tagging, O!Goroutines
<1>3. ASSUME NEW p \in O!Goroutines, O!PutTag(p)
      PROVE  OneTagger'
  <2>1. /\ \A q \in O!Goroutines : q # p => push'[q] = push[q]
        /\ push'[p].digest = push[p].digest /\ push[p].at # "idle"
        /\ localTag' = push[p].digest
        /\ push'[p].tagged = push[p].tagged /\ push[p].tagged
    BY <1>3 DEF O!PutTag, PushType, PushOK, PushStates, LeftInv
  <2>2. CASE p \in Pushers
    <3>1. \A q \in Pushers : Tagging(q) => q = p
      BY <2>1, <2>2 DEF OneTagger, Tagging
    <3> QED  BY <2>1, <2>2, <3>1 DEF OneTagger, Tagging, O!Goroutines
  <2>3. CASE p = O!Scanning
    <3>1. ~push[p].tagged
      BY <2>1, <2>3 DEF PusherOK
    <3>2. FALSE
      BY <1>3, <3>1 DEF O!PutTag, LeftInv
    <3> QED  BY <3>2
  <2> QED  BY <2>2, <2>3 DEF O!Goroutines
<1>4. ASSUME NEW p \in O!Goroutines, O!OnPushScan(p)
      PROVE  OneTagger'
  <2>1. /\ \A q \in O!Goroutines : q # p => push'[q] = push[q]
        /\ push'[p].digest = push[p].digest /\ push[p].at = "scan"
        /\ UNCHANGED localTag
    BY <1>4 DEF O!OnPushScan, PushType, PushOK, PushStates, O!here
  <2>2. push'[p].tagged = push[p].tagged
    BY <1>4 DEF O!OnPushScan, PushType, PushOK, PushStates
  <2> QED  BY <2>1, <2>2 DEF OneTagger, Tagging, O!Goroutines
<1>5. ASSUME NEW p \in O!Goroutines, O!Pushed(p)
      PROVE  OneTagger'
  <2>1. /\ \A q \in O!Goroutines : q # p => push'[q] = push[q]
        /\ push'[p].at = "idle" /\ UNCHANGED localTag
    BY <1>5 DEF O!Pushed, O!NoPush, PushType, PushOK, O!here
  <2> QED  BY <2>1 DEF OneTagger, Tagging, O!Goroutines
<1>6. ASSUME NEW p \in O!Goroutines, NEW t \in Targets, O!OnPushReplicate(p, t)
      PROVE  OneTagger'
  <2>1. push' = [push EXCEPT ![p].left = @ \ {t}] /\ UNCHANGED localTag
    BY <1>6 DEF O!OnPushReplicate, O!here
  <2>2. \A q \in O!Goroutines : /\ push'[q].digest = push[q].digest /\ push'[q].at = push[q].at
                                /\ push'[q].tagged = push[q].tagged
    BY <2>1 DEF PushType, PushOK, PushStates
  <2> QED  BY <2>1, <2>2 DEF OneTagger, Tagging, O!Goroutines
<1>7. CASE O!Scan
  <2>1. UNCHANGED localTag
    BY <1>7 DEF O!Scan, O!here
  <2>2. \A q \in Pushers : push'[q] = push[q]
    BY <1>7 DEF O!Scan, O!Begin, O!ObserversAssumption, PushType, PushOK, O!Goroutines
  <2> QED  BY <2>1, <2>2 DEF OneTagger, Tagging
<1>8. ASSUME NEW t \in Targets, Works(t)
      PROVE  OneTagger'
  <2>1. UNCHANGED <<localTag, push>>
    BY <1>8 DEF Works, O!Pop, O!ReadManifest, O!ReplicateChild, O!EnsureBlob,
                O!PutRemoteManifest, O!PutRemoteTag, O!JobFails, O!here
  <2> QED  BY <2>1 DEF OneTagger, Tagging
<1>9. CASE UNCHANGED <<local, localTag, push, queue, worker, copies, dropped>>
  BY <1>9 DEF OneTagger, Tagging
<1> QED  BY <1>1, <1>2, <1>3, <1>4, <1>5, <1>6, <1>7, <1>8, <1>9, CalmNext

\* Nothing changed for the target, and who has still to tell it still has.
LEMMA FollowsKept ==
  ASSUME NEW t, Follows(t), Pending(t) => Pending(t)', UNCHANGED localTag,
         queue'[t] = queue[t], worker'[t] = worker[t], copies'[t] = copies[t]
  PROVE  Follows(t)'
<1>1. LastQueued(t) => LastQueued(t)'
  BY DEF LastQueued
<1>2. NoneQueued(t) => NoneQueued(t)'
  BY DEF NoneQueued
<1>3. AtWork(t) => AtWork(t)'
  BY <1>2 DEF AtWork
<1>4. Settled(t) => Settled(t)'
  BY <1>2 DEF Settled
<1> QED  BY <1>1, <1>3, <1>4 DEF Follows

\* A job is put behind the others.
LEMMA QueuedBehind ==
  ASSUME PushType, NEW t \in Targets, Follows(t), NEW j \in ReplJobs,
         queue' = [queue EXCEPT ![t] = Append(@, j)], UNCHANGED <<localTag, worker, copies>>,
         \/ j.tagged /\ j.digest = localTag
         \/ ~j.tagged /\ (Pending(t) => Pending(t)')
  PROVE  Follows(t)'
<1> DEFINE n == Len(queue[t])
<1>1. queue[t] \in Seq(ReplJobs) /\ n \in Nat /\ queue'[t] = Append(queue[t], j)
  BY DEF PushType, PushOK
<1>2. /\ Len(queue'[t]) = n + 1 /\ queue'[t][n + 1] = j
      /\ \A i \in 1..n : queue'[t][i] = queue[t][i]
  BY <1>1
<1>3. /\ n + 1 \in 1..(n + 1)
      /\ \A i \in 1..(n + 1) : ~(i > n + 1) /\ (i \in 1..n \/ i = n + 1)
      /\ \A i \in 1..n : i \in 1..(n + 1)
  BY <1>1
<1>4. CASE j.tagged /\ j.digest = localTag
  <2>1. LastQueued(t)'
    BY <1>2, <1>3, <1>4 DEF LastQueued
  <2> QED  BY <2>1 DEF Follows
<1>5. CASE ~j.tagged /\ (Pending(t) => Pending(t)')
  <2>1. ASSUME LastQueued(t)
        PROVE  LastQueued(t)'
    <3>1. PICK i \in 1..n : /\ queue[t][i].tagged /\ queue[t][i].digest = localTag
                            /\ \A k \in 1..n : k > i => ~queue[t][k].tagged
      BY <2>1 DEF LastQueued
    <3>2. queue'[t][i].tagged /\ queue'[t][i].digest = localTag' /\ i \in 1..(n + 1)
      BY <1>2, <1>3, <3>1
    <3>3. \A k \in 1..(n + 1) : k > i => ~queue'[t][k].tagged
      BY <1>2, <1>3, <1>5, <3>1
    <3> QED  BY <1>2, <3>2, <3>3 DEF LastQueued
  <2>2. NoneQueued(t) => NoneQueued(t)'
    BY <1>2, <1>3, <1>5 DEF NoneQueued
  <2>3. AtWork(t) => AtWork(t)'
    BY <2>2 DEF AtWork
  <2>4. Settled(t) => Settled(t)'
    BY <2>2 DEF Settled
  <2> QED  BY <1>5, <2>1, <2>3, <2>4 DEF Follows
<1> QED  BY <1>4, <1>5

\* The step of a worker.
LEMMA FollowsWorker ==
  ASSUME PushType, NEW t \in Targets, Follows(t), Others(t), WorkerStep(t),
         UNCHANGED <<localTag, push>>, StoredInv
  PROVE  Follows(t)'
<1>0. Pending(t) => Pending(t)'
  BY DEF Pending
<1>1. CASE UNCHANGED queue /\ Kept(worker[t], copies[t], worker'[t], copies'[t])
  <2>1. LastQueued(t) => LastQueued(t)'
    BY <1>1 DEF LastQueued
  <2>2. NoneQueued(t) => NoneQueued(t)'
    BY <1>1 DEF NoneQueued
  <2>3. AtWork(t) => AtWork(t)'
    BY <1>1, <2>2 DEF AtWork, Kept
  <2>4. Settled(t) => Settled(t)'
    BY <1>1, <2>2 DEF Settled, Kept
  <2> QED  BY <1>0, <2>1, <2>3, <2>4 DEF Follows
<1>2. CASE /\ UNCHANGED queue /\ worker[t].at # "idle" /\ ~worker[t].tagged
           /\ worker'[t] = O!NoWork /\ copies'[t].tag = copies[t].tag
  <2>1. LastQueued(t) => LastQueued(t)'
    BY <1>2 DEF LastQueued
  <2>2. NoneQueued(t) => NoneQueued(t)'
    BY <1>2 DEF NoneQueued
  <2>3. ~AtWork(t)
    BY <1>2 DEF AtWork
  <2>4. Settled(t) => Settled(t)'
    BY <1>2, <2>2 DEF Settled, O!NoWork
  <2> QED  BY <1>0, <2>1, <2>3, <2>4 DEF Follows
<1>3. CASE /\ UNCHANGED queue /\ worker[t].at # "idle" /\ worker[t].tagged
           /\ worker'[t] = O!NoWork /\ copies'[t].tag = Root(worker[t])
  <2>1. LastQueued(t) => LastQueued(t)'
    BY <1>3 DEF LastQueued
  <2>2. NoneQueued(t) => NoneQueued(t)'
    BY <1>3 DEF NoneQueued
  <2>3. AtWork(t) => Settled(t)'
    BY <1>3, <2>2 DEF AtWork, Settled, O!NoWork
  <2>4. ~Settled(t)
    BY <1>3 DEF Settled
  <2> QED  BY <1>0, <2>1, <2>3, <2>4 DEF Follows
<1>4. CASE O!Pop(t) /\ Popped(worker[t], copies[t], worker'[t], copies'[t], Head(queue[t]))
  <2> DEFINE q == queue[t]
             n == Len(q)
  <2>1. q \in Seq(ReplJobs) /\ q # <<>> /\ queue'[t] = Tail(q)
    BY <1>4 DEF O!Pop, PushType, PushOK
  <2>2. /\ n \in Nat \ {0} /\ Len(queue'[t]) = n - 1 /\ Head(q) = q[1]
        /\ \A i \in 1..(n - 1) : i + 1 \in 1..n /\ queue'[t][i] = q[i + 1]
    BY <2>1, TailFacts
  <2>3. q[1] \in ReplJobs /\ 1 \in 1..n
    BY <2>1, <2>2
  <2>4. q[1].digest \in local
    BY <2>3 DEF StoredInv
  <2>5. /\ worker'[t].at # "idle" /\ Root(worker'[t]) = q[1].digest
        /\ worker'[t].tagged = q[1].tagged
        /\ worker[t].at = "idle" /\ copies'[t] = copies[t]
    <3> DEFINE w == worker'[t]
               r == copies'[t]
    <3>1. Popped(worker[t], copies[t], w, r, q[1])
      BY <1>4, <2>2
    <3> DEFINE w0 == worker[t]
               r0 == copies[t]
               j  == q[1]
    <3> HIDE DEF w, r, w0, r0, j
    <3>2. j \in ReplJobs /\ j.digest \in local /\ Popped(w0, r0, w, r, j)
      BY <2>3, <2>4, <3>1 DEF j, w0, r0
    <3>3. /\ w.at = "replicate" /\ Root(w) = j.digest /\ w.tagged = j.tagged
          /\ w0.at = "idle" /\ r = r0
      BY <3>2, PoppedSound
    <3> QED  BY <3>3 DEF w, r, w0, r0, j
  <2> HIDE DEF q
  <2>6. ASSUME LastQueued(t)
        PROVE  Follows(t)'
    <3>1. PICK i \in 1..n : /\ q[i].tagged /\ q[i].digest = localTag
                            /\ \A k \in 1..n : k > i => ~q[k].tagged
      BY <2>6 DEF LastQueued, q
    <3>2. CASE i = 1
      <4>1. \A k \in 1..(n - 1) : ~queue'[t][k].tagged
        BY <2>2, <3>1, <3>2
      <4>2. NoneQueued(t)'
        BY <2>2, <4>1 DEF NoneQueued
      <4>3. AtWork(t)'
        BY <2>5, <3>1, <3>2, <4>2 DEF AtWork
      <4> QED  BY <4>3 DEF Follows
    <3>3. CASE i # 1
      <4>1. i - 1 \in 1..(n - 1) /\ (i - 1) + 1 = i
        BY <2>2, <3>3
      <4>2. queue'[t][i - 1] = q[i]
        BY <2>2, <4>1
      <4>3. \A k \in 1..(n - 1) : k > i - 1 => ~queue'[t][k].tagged
        <5>1. \A k \in 1..(n - 1) : k > i - 1 => k + 1 > i
          BY <2>2, <4>1
        <5> QED  BY <2>2, <3>1, <5>1
      <4>4. LastQueued(t)'
        BY <2>2, <3>1, <4>1, <4>2, <4>3 DEF LastQueued
      <4> QED  BY <4>4 DEF Follows
    <3> QED  BY <3>2, <3>3
  <2>7. ~AtWork(t)
    BY <2>5 DEF AtWork
  <2>8. Settled(t) => Settled(t)'
    <3>1. NoneQueued(t) => ~q[1].tagged /\ NoneQueued(t)'
      BY <2>2, <2>3 DEF NoneQueued, q
    <3> QED  BY <2>5, <3>1 DEF Settled
  <2> QED  BY <1>0, <2>6, <2>7, <2>8 DEF Follows
<1> QED  BY <1>1, <1>2, <1>3, <1>4 DEF WorkerStep

\* Every step of a calm behaviour keeps the targets following.
LEMMA TagStep ==
  ASSUME O!ObserversAssumption, PushType, PusherOK, LeftInv, StoredInv, OneTagger, TagInv,
         [O!Next]_(O!vars), Quiet'
  PROVE  TagInv'
<1>0. UNCHANGED <<pushBudget.matched>> /\ pushBudget.matched \subseteq Targets
  BY HistoryStep DEF PushType, BudgetOK, O!Settings
<1>1. ASSUME NEW p \in Pushers, NEW m \in Images, NEW tagged \in BOOLEAN, O!Push(p, m, tagged)
      PROVE  TagInv'
  <2>1. UNCHANGED <<localTag, queue, worker, copies, dropped>>
    BY <1>1 DEF O!Push, O!here
  <2>2. push[p].at = "idle" /\ \A q \in Pushers : q # p => push'[q] = push[q]
    BY <1>1 DEF O!Push, O!Begin, PushType, PushOK, O!Goroutines
  <2>3. \A t : Pending(t) => Pending(t)'
    BY <2>2 DEF Pending
  <2> QED  BY <1>0, <2>1, <2>3, FollowsKept DEF TagInv
<1>2. ASSUME NEW p \in O!Goroutines, O!PutManifest(p)
      PROVE  TagInv'
  <2>1. UNCHANGED <<localTag, queue, worker, copies, dropped>>
    BY <1>2 DEF O!PutManifest
  <2>2. push[p].at = "store" /\ \A q \in Pushers : q # p => push'[q] = push[q]
    BY <1>2 DEF O!PutManifest, PushType, PushOK, O!Goroutines
  <2>3. \A t : Pending(t) => Pending(t)'
    BY <2>2 DEF Pending
  <2> QED  BY <1>0, <2>1, <2>3, FollowsKept DEF TagInv
<1>3. ASSUME NEW p \in O!Goroutines, O!PutTag(p)
      PROVE  TagInv'
  <2>1. push[p].at = "tag" /\ push[p].tagged /\ push[p].left = pushBudget.matched /\ UNCHANGED dropped
    BY <1>3 DEF O!PutTag, LeftInv
  <2>2. p \in Pushers
    BY <2>1 DEF PusherOK, O!Goroutines
  <2>3. push'[p].at = "scan" /\ push'[p].left = push[p].left
    BY <1>3 DEF O!PutTag, PushType, PushOK, PushStates
  <2>4. push'[p].tagged = push[p].tagged
    BY <1>3 DEF O!PutTag, PushType, PushOK, PushStates
  <2>5. \A t \in pushBudget.matched : Pending(t)'
    BY <2>1, <2>2, <2>3, <2>4 DEF Pending
  <2> QED  BY <1>0, <2>1, <2>5 DEF TagInv, Follows
<1>4. ASSUME NEW p \in O!Goroutines, O!OnPushScan(p)
      PROVE  TagInv'
  <2>1. UNCHANGED <<localTag, queue, worker, copies, dropped>>
    BY <1>4 DEF O!OnPushScan, O!here
  <2>2. /\ \A q \in Pushers : q # p => push'[q] = push[q]
        /\ push'[p].at = "replicate" /\ push'[p].left = push[p].left
    BY <1>4 DEF O!OnPushScan, PushType, PushOK, PushStates, O!Goroutines
  <2>3. push'[p].tagged = push[p].tagged
    BY <1>4 DEF O!OnPushScan, PushType, PushOK, PushStates
  <2>4. \A t : Pending(t) => Pending(t)'
    BY <2>2, <2>3 DEF Pending
  <2> QED  BY <1>0, <2>1, <2>4, FollowsKept DEF TagInv
<1>5. ASSUME NEW p \in O!Goroutines, O!Pushed(p)
      PROVE  TagInv'
  <2>1. UNCHANGED <<localTag, queue, worker, copies, dropped>>
    BY <1>5 DEF O!Pushed, O!here
  <2>2. push[p].left = {} /\ \A q \in Pushers : q # p => push'[q] = push[q]
    BY <1>5 DEF O!Pushed, PushType, PushOK, O!Goroutines
  <2>3. \A t : Pending(t) => Pending(t)'
    BY <2>2 DEF Pending
  <2> QED  BY <1>0, <2>1, <2>3, FollowsKept DEF TagInv
<1>6. ASSUME NEW p \in O!Goroutines, NEW t \in Targets, O!OnPushReplicate(p, t)
      PROVE  TagInv'
  <2>1. /\ UNCHANGED <<localTag, worker, copies>> /\ push[p].at = "replicate"
        /\ push' = [push EXCEPT ![p].left = @ \ {t}]
    BY <1>6 DEF O!OnPushReplicate, O!here
  <2>2. /\ \A q \in O!Goroutines : q # p => push'[q] = push[q]
        /\ push'[p].at = "replicate" /\ push'[p].left = push[p].left \ {t}
    BY <2>1 DEF PushType, PushOK, PushStates
  <2>3. push'[p].tagged = push[p].tagged
    BY <2>1 DEF PushType, PushOK, PushStates
  <2>4. \A u : u # t /\ Pending(u) => Pending(u)'
    BY <2>2, <2>3 DEF Pending, O!Goroutines
  <2>5. ~(p \in Pushers /\ push[p].tagged) => (Pending(t) => Pending(t)')
    BY <2>2 DEF Pending, O!Goroutines
  <2>6. queue \in [Targets -> Seq(ReplJobs)]
    BY DEF PushType, PushOK
  <2> DEFINE j == [digest |-> push[p].digest, tagged |-> push[p].tagged]
  <2>7. \/ queue' = [queue EXCEPT ![t] = Append(@, j)] /\ UNCHANGED dropped
        \/ dropped' = dropped \union {t} /\ UNCHANGED queue
    BY <1>6 DEF O!OnPushReplicate
  <2>8. j \in ReplJobs
    <3>1. push[p].digest \in Pushable /\ push[p] \in PushStates
      BY <2>1 DEF PushType, PushOK
    <3> QED  BY <3>1, Zenon DEF PushStates, ReplJobs
  <2>9. j.tagged = push[p].tagged /\ j.digest = push[p].digest
    OBVIOUS
  <2> HIDE DEF j
  <2>10. ASSUME NEW u \in pushBudget.matched \ dropped', u # t
         PROVE  Follows(u)'
    <3>1. queue'[u] = queue[u] /\ u \in pushBudget.matched \ dropped
      BY <1>0, <2>6, <2>7, <2>10
    <3> QED  BY <2>1, <2>4, <2>10, <3>1, FollowsKept DEF TagInv
  <2>11. ASSUME t \in pushBudget.matched \ dropped'
         PROVE  Follows(t)'
    <3>1. queue' = [queue EXCEPT ![t] = Append(@, j)] /\ t \in pushBudget.matched \ dropped
      BY <2>7, <2>11
    <3>2. \/ j.tagged /\ j.digest = localTag
          \/ ~j.tagged /\ (Pending(t) => Pending(t)')
      <4>1. CASE p \in Pushers /\ push[p].tagged
        BY <2>1, <2>9, <4>1 DEF OneTagger
      <4>2. CASE ~push[p].tagged
        BY <2>5, <2>9, <4>2
      <4>3. CASE p = O!Scanning
        <5>1. ~push[p].tagged
          BY <2>1, <4>3 DEF PusherOK
        <5> QED  BY <4>2, <5>1
      <4> QED  BY <4>1, <4>2, <4>3 DEF O!Goroutines
    <3>3. Follows(t)
      BY <3>1 DEF TagInv
    <3> QED  BY <2>1, <2>8, <3>1, <3>2, <3>3, QueuedBehind
  <2> QED  BY <1>0, <2>10, <2>11 DEF TagInv
<1>7. CASE O!Scan
  <2>1. UNCHANGED <<localTag, queue, worker, copies, dropped>>
    BY <1>7 DEF O!Scan, O!here
  <2>2. \A q \in Pushers : push'[q] = push[q]
    BY <1>7 DEF O!Scan, O!Begin, O!ObserversAssumption, PushType, PushOK, O!Goroutines
  <2>3. \A t : Pending(t) => Pending(t)'
    BY <2>2 DEF Pending
  <2> QED  BY <1>0, <2>1, <2>3, FollowsKept DEF TagInv
<1>8. ASSUME NEW t \in Targets, Works(t)
      PROVE  TagInv'
  <2>1. /\ Others(t) /\ WorkerStep(t)
        /\ UNCHANGED <<local, localTag, push, dropped, pushHistory, pushBudget>>
    BY <1>8, CalmWorks DEF Quiet
  <2>2. ASSUME NEW u \in pushBudget.matched \ dropped, u # t
        PROVE  Follows(u)'
    <3>1. u \in Targets
      BY <1>0
    <3>2. worker'[u] = worker[u] /\ copies'[u] = copies[u]
      BY <2>1, <2>2, <3>1 DEF Others, PushType, WorkersOK
    <3>3. queue'[u] = queue[u]
      BY <2>1, <2>2, <3>1 DEF WorkerStep, O!Pop, PushType, PushOK
    <3>4. Pending(u) => Pending(u)'
      BY <2>1 DEF Pending
    <3> QED  BY <2>1, <3>2, <3>3, <3>4, FollowsKept DEF TagInv
  <2>3. t \in pushBudget.matched \ dropped => Follows(t)'
    BY <2>1, FollowsWorker DEF TagInv
  <2> QED  BY <2>1, <2>2, <2>3 DEF TagInv
<1>9. CASE UNCHANGED <<local, localTag, push, queue, worker, copies, dropped>>
  <2>1. \A t : Pending(t) => Pending(t)'
    BY <1>9 DEF Pending
  <2> QED  BY <1>0, <1>9, <2>1, FollowsKept DEF TagInv
<1> QED  BY <1>1, <1>2, <1>3, <1>4, <1>5, <1>6, <1>7, <1>8, <1>9, CalmNext

(***************************************************************************)
(* When all is quiet, nothing has failed and no two pushes have            *)
(* overlapped, the tag at every target that matches and has dropped no job *)
(* is the tag here, however the jobs of many pushes, reports among them,   *)
(* have queued up: the jobs of a target are done in the order of its queue *)
(* and OnManifestPushed queues them in the order of the pushes.            *)
(***************************************************************************)
THEOREM TagsFollow ==
  ASSUME O!ObserversAssumption
  PROVE  O!Spec => []TagFollows
<1> DEFINE Inv == PushType /\ PusherOK /\ LeftInv /\ CalmInv
<1>1. O!Init => Inv
  <2> SUFFICES ASSUME O!Init PROVE Inv
    OBVIOUS
  <2>1. PushType
    BY PushTypeInit
  <2>2. PusherOK /\ LeftInv
    BY DEF O!Init, PusherOK, LeftInv, O!NoPush, O!Goroutines
  <2>3. StoredInv
    BY DEF O!Init, StoredInv, Closed, Sound, O!NoPush, O!NoWork
  <2>4. OneTagger
    BY DEF O!Init, OneTagger, Tagging, O!NoPush, O!Goroutines
  <2>5. TagInv
    <3>1. \A t \in Targets : Settled(t)
      BY DEF O!Init, Settled, NoneQueued, O!NoWork
    <3>2. pushBudget.matched \subseteq Targets
      BY <2>1 DEF PushType, BudgetOK, O!Settings
    <3> QED  BY <3>1, <3>2 DEF TagInv, Follows
  <2> QED  BY <2>1, <2>2, <2>3, <2>4, <2>5 DEF CalmInv
<1>2. Inv /\ [O!Next]_(O!vars) => Inv'
  <2> SUFFICES ASSUME Inv, [O!Next]_(O!vars) PROVE Inv'
    OBVIOUS
  <2>1. PushType' /\ PusherOK' /\ LeftInv'
    BY PushTypeStep, PusherStep, LeftStep
  <2>2. ASSUME Quiet'
        PROVE  (StoredInv /\ OneTagger /\ TagInv)'
    <3>1. StoredInv /\ OneTagger /\ TagInv
      BY <2>2, HistoryStep DEF CalmInv
    <3> QED  BY <2>2, <3>1, StoredStep, OneTaggerStep, TagStep
  <2> QED  BY <2>1, <2>2 DEF CalmInv
<1>3. Inv => TagFollows
  <2> SUFFICES ASSUME Inv, O!Quiet, Quiet, NEW t \in pushBudget.matched \ dropped
               PROVE  copies[t].tag = localTag
    BY DEF TagFollows, O!TagFollows, Quiet
  <2>1. t \in Targets /\ Follows(t)
    BY DEF CalmInv, TagInv, PushType, BudgetOK, O!Settings
  <2>2. ~Pending(t)
    BY DEF Pending, O!Quiet, O!Goroutines
  <2>3. ~LastQueued(t) /\ ~AtWork(t)
    BY <2>1 DEF LastQueued, AtWork, O!Quiet
  <2> QED  BY <2>1, <2>2, <2>3 DEF Follows, Settled
<1> HIDE DEF Inv
<1> QED  BY <1>1, <1>2, <1>3, PTL DEF O!Spec
-----------------------------------------------------------------------------
(***************************************************************************)
(* Pull-through: where a pull can be, and what the flights say of it.      *)
(***************************************************************************)
\* What can be pulled.
Kinds == P!ImageKinds \union P!IndexKinds

\* The positions of a pull of the image outside a flight, and of one that leads one.
ImageSteps == {"lookup", "peers", "circuit", "auth", "send", "verify", "putBlob", "repository",
               "classify", "mark", "cache", "putTag"}
TokenSteps == {"discover", "probe", "exchange", "undiscovered"}
IndexSteps == {"walk", "circuit", "send"}

\* The values of the variables.
PullStates ==
  [at : {"idle", "wait", "coalesce"} \union ImageSteps \union TokenSteps \union IndexSteps,
   kind : Kinds \union {"none"}, want : Digests \union {NoDigest}, got : Digests \union {NoDigest},
   retried : BOOLEAN, trusted : BOOLEAN, private : BOOLEAN, base : Nat, missing : Nat,
   outcome : {"none", "served", "failed", "absent"}]

Flights == [leader : Pulls \union {Nobody}, waiters : SUBSET Pulls]

\* The types of what the proofs read.
PullType ==
  /\ pull \in [Pulls -> PullStates]
  /\ flights \in [P!FlightKeys -> Flights]
  /\ token \in [known : BOOLEAN, credentialsUsed : BOOLEAN, fresh : BOOLEAN]
  /\ repo \in [exists : BOOLEAN, private : BOOLEAN]
  /\ config \in [auth : {"token", "basic", "none"}, username : BOOLEAN, private : BOOLEAN]
  /\ locked \in BOOLEAN
  /\ remote \in Digests
  /\ pullHistory \in [overlap : BOOLEAN, unmarked : BOOLEAN, fault : BOOLEAN]

\* Outside the flights; leading one of a token or of an index; waiting in one.
Outside(x) ==
  \/ x.at = "idle"
  \/ x.kind \in P!ImageKinds /\ x.at \in ImageSteps
  \/ x.kind \in P!IndexKinds /\ x.at = "coalesce"
Leads(x) ==
  \/ x.kind \in P!ImageKinds /\ x.at \in TokenSteps
  \/ x.kind \in P!IndexKinds /\ x.at \in IndexSteps
\* In a flight of another.
Waits(x) == x.kind \in Kinds /\ x.at = "wait"

\* The flight that a pull leads or waits in, but for the one of the discovery.
Of(x) == IF x.kind \in P!ImageKinds THEN IF x.retried THEN "credentials" ELSE "anonymous"
         ELSE x.kind

\* Every pull is in one of the three places.
Placed == \A p \in Pulls : Outside(pull[p]) \/ Leads(pull[p]) \/ Waits(pull[p])

\* Who is at a step of a flight leads that flight.
Led ==
  \A p \in Pulls :
    /\ Leads(pull[p]) => flights[Of(pull[p])].leader = p
    /\ pull[p].at = "probe" => flights["discover"].leader = p

\* Who leads a flight is at one of its steps; the leader of a token flight may
\* wait for the discovery.
Leaders ==
  \A k \in P!FlightKeys : LET l == flights[k].leader IN
    l # Nobody =>
      /\ k = "discover" => pull[l].at = "probe"
      /\ k # "discover" =>
           /\ Of(pull[l]) = k
           /\ Leads(pull[l]) \/ (pull[l].at = "wait" /\ l \in flights["discover"].waiters)

\* A waiter waits in one flight, which somebody else leads.
WaitsIn(p, k, fl) ==
  /\ p \in fl[k].waiters /\ fl[k].leader \notin {p, Nobody}
  /\ \A j \in P!FlightKeys : j # k => p \notin fl[j].waiters

\* Who waits does so for the discovery, as the leader of its own flight, or in
\* its own flight; who does not wait is in no flight.
Waiters ==
  \A p \in Pulls :
    IF pull[p].at = "wait"
    THEN \/ /\ WaitsIn(p, "discover", flights) /\ pull[p].kind \in P!ImageKinds
            /\ flights[Of(pull[p])].leader = p
         \/ WaitsIn(p, Of(pull[p]), flights)
    ELSE \A k \in P!FlightKeys : p \notin flights[k].waiters

\* The flights and the pulls agree.
FlightInv == Placed /\ Led /\ Leaders /\ Waiters

\* A pull of something has a flight of its own.
LEMMA OfKey ==
  ASSUME NEW x, x.kind \in Kinds
  PROVE  Of(x) \in P!FlightKeys /\ Of(x) # "discover"
BY DEF Of, Kinds, P!FlightKeys, P!ImageKinds, P!IndexKinds

\* The three places are disjoint.
LEMMA PlaceFacts ==
  ASSUME NEW x
  PROVE  /\ Outside(x) => ~Leads(x) /\ x.at # "wait" /\ x.at # "probe"
         /\ Leads(x) => x.at # "wait" /\ x.kind \in Kinds /\ x.at # "idle"
         /\ Waits(x) => ~Leads(x) /\ x.at # "probe"
BY DEF Outside, Leads, Waits, Kinds, ImageSteps, TokenSteps, IndexSteps, P!ImageKinds, P!IndexKinds

\* A pull outside the flights moves on outside them.
LEMMA FreeMove ==
  ASSUME P!PullAssumption, PullType, FlightInv, NEW p \in Pulls, NEW x \in PullStates,
         Outside(pull[p]), Outside(x),
         pull' = [pull EXCEPT ![p] = x], UNCHANGED flights
  PROVE  FlightInv'
<1>1. pull'[p] = x /\ \A q \in Pulls : q # p => pull'[q] = pull[q]
  BY DEF PullType
<1>2. /\ ~Leads(pull[p]) /\ pull[p].at # "wait" /\ pull[p].at # "probe"
      /\ ~Leads(x) /\ x.at # "wait" /\ x.at # "probe"
  BY PlaceFacts
<1>3. Placed'
  BY <1>1 DEF FlightInv, Placed
<1>4. Led'
  BY <1>1, <1>2 DEF FlightInv, Led
<1>5. Leaders'
  <2>1. \A k \in P!FlightKeys : flights[k].leader # p
    BY <1>2 DEF FlightInv, Leaders, P!PullAssumption
  <2>2. \A k \in P!FlightKeys : flights[k].leader \in Pulls \union {Nobody}
    BY DEF PullType, Flights
  <2> QED  BY <1>1, <2>1, <2>2 DEF FlightInv, Leaders
<1>6. Waiters'
  BY <1>1, <1>2 DEF FlightInv, Waiters, WaitsIn
<1> QED  BY <1>3, <1>4, <1>5, <1>6 DEF FlightInv

\* The leader of a flight of a token or of an index goes on.
LEMMA LeadMove ==
  ASSUME P!PullAssumption, PullType, FlightInv, NEW p \in Pulls, NEW x \in PullStates,
         Leads(pull[p]), pull[p].at # "probe", Leads(x), x.at # "probe", Of(x) = Of(pull[p]),
         pull' = [pull EXCEPT ![p] = x], UNCHANGED flights
  PROVE  FlightInv'
<1>1. pull'[p] = x /\ \A q \in Pulls : q # p => pull'[q] = pull[q]
  BY DEF PullType
<1>2. pull[p].at # "wait" /\ x.at # "wait"
  BY PlaceFacts
<1>3. Placed'
  BY <1>1 DEF FlightInv, Placed
<1>4. Led'
  BY <1>1 DEF FlightInv, Led
<1>5. Leaders'
  <2>1. \A k \in P!FlightKeys : flights[k].leader \in Pulls \union {Nobody}
    BY DEF PullType, Flights
  <2> QED  BY <1>1, <2>1 DEF FlightInv, Leaders
<1>6. Waiters'
  BY <1>1, <1>2 DEF FlightInv, Waiters, WaitsIn
<1> QED  BY <1>3, <1>4, <1>5, <1>6 DEF FlightInv

\* singleflight.Do: a pull comes to lead its flight, or waits in it.
LEMMA EnterMove ==
  ASSUME P!PullAssumption,
         PullType, FlightInv, NEW p \in Pulls, Outside(pull[p]), pull[p].kind \in Kinds,
         NEW step, Leads([pull[p] EXCEPT !.at = step]), step # "probe",
         P!Enter(p, Of(pull[p]), step)
  PROVE  FlightInv'
<1> DEFINE k == Of(pull[p])
<1>1. /\ k \in P!FlightKeys /\ k # "discover"
      /\ ~Leads(pull[p]) /\ pull[p].at # "wait" /\ pull[p].at # "probe"
  BY OfKey, PlaceFacts
<1>2. /\ \A j \in P!FlightKeys : flights[j].leader # p /\ p \notin flights[j].waiters
      /\ \A j \in P!FlightKeys : flights[j].leader \in Pulls \union {Nobody}
      /\ p # Nobody
  BY <1>1 DEF FlightInv, Leaders, Waiters, P!PullAssumption, PullType, Flights
<1>3. \A q \in Pulls : q # p => pull'[q] = pull[q]
  BY DEF P!Enter, P!Goto, PullType
<1>4. CASE flights[k].leader = Nobody
  <2>1. /\ flights' = [flights EXCEPT ![k].leader = p] /\ pull' = [pull EXCEPT ![p].at = step]
    BY <1>4 DEF P!Enter, P!Goto
  <2>2. /\ pull'[p] = [pull[p] EXCEPT !.at = step] /\ pull'[p].at = step
        /\ pull'[p].kind = pull[p].kind
    BY <2>1 DEF PullType, PullStates
  <2>3. pull'[p].retried = pull[p].retried
    BY <2>1 DEF PullType, PullStates
  <2>4. Of(pull'[p]) = k /\ Leads(pull'[p]) /\ step # "wait"
    BY <2>2, <2>3 DEF Of, Leads, TokenSteps, IndexSteps
  <2>5. /\ flights'[k].leader = p
        /\ \A j \in P!FlightKeys : j # k => flights'[j].leader = flights[j].leader
        /\ \A j \in P!FlightKeys : flights'[j].waiters = flights[j].waiters
    BY <1>1, <2>1 DEF PullType, Flights
  <2>6. Placed'
    BY <1>3, <2>4 DEF FlightInv, Placed
  <2>7. Led'
    <3>1. ASSUME NEW q \in Pulls, q # p
          PROVE  /\ Leads(pull[q]) => flights'[Of(pull[q])].leader = q
                 /\ pull[q].at = "probe" => flights'["discover"].leader = q
      <4>1. Leads(pull[q]) => Of(pull[q]) \in P!FlightKeys /\ flights[Of(pull[q])].leader = q
        BY PlaceFacts, OfKey DEF FlightInv, Led
      <4>2. q # Nobody /\ "discover" \in P!FlightKeys
        BY DEF P!PullAssumption, P!FlightKeys
      <4>3. Leads(pull[q]) => flights'[Of(pull[q])].leader = q
        BY <1>4, <2>5, <4>1, <4>2
      <4>4. pull[q].at = "probe" => flights'["discover"].leader = q
        BY <1>1, <2>5, <4>2 DEF FlightInv, Led
      <4> QED  BY <4>3, <4>4
    <3> QED  BY <1>3, <2>2, <2>4, <2>5, <3>1 DEF Led
  <2>8. Leaders'
    <3>1. "discover" \in P!FlightKeys
      BY DEF P!FlightKeys
    <3> QED  BY <1>1, <1>2, <1>3, <2>4, <2>5, <3>1 DEF FlightInv, Leaders
  <2>9. Waiters'
    <3>1. ASSUME NEW q \in Pulls, q # p, pull[q].at = "wait"
          PROVE  \/ /\ WaitsIn(q, "discover", flights') /\ pull[q].kind \in P!ImageKinds
                    /\ flights'[Of(pull[q])].leader = q
                 \/ WaitsIn(q, Of(pull[q]), flights')
      <4>1. \A j \in P!FlightKeys : WaitsIn(q, j, flights) => WaitsIn(q, j, flights') /\ j # k
        BY <1>4, <2>5, <3>1, <1>2 DEF WaitsIn
      <4>2. "discover" \in P!FlightKeys /\ Of(pull[q]) \in P!FlightKeys /\ q # Nobody
        <5>1. Waits(pull[q])
          BY <3>1, PlaceFacts DEF FlightInv, Placed, Outside, Leads, ImageSteps, TokenSteps, IndexSteps
        <5> QED  BY <5>1, OfKey DEF Waits, P!FlightKeys, P!PullAssumption
      <4>3. \/ /\ WaitsIn(q, "discover", flights) /\ pull[q].kind \in P!ImageKinds
               /\ flights[Of(pull[q])].leader = q
            \/ WaitsIn(q, Of(pull[q]), flights)
        BY <3>1 DEF FlightInv, Waiters
      <4>4. flights[Of(pull[q])].leader = q => flights'[Of(pull[q])].leader = q
        BY <1>4, <2>5, <4>2
      <4> QED  BY <4>1, <4>2, <4>3, <4>4
    <3>2. ASSUME NEW q \in Pulls, q # p, pull[q].at # "wait"
          PROVE  \A j \in P!FlightKeys : q \notin flights'[j].waiters
      BY <2>5, <3>2 DEF FlightInv, Waiters
    <3>3. pull'[p].at # "wait" /\ \A j \in P!FlightKeys : p \notin flights'[j].waiters
      BY <1>2, <2>2, <2>4, <2>5
    <3> QED  BY <1>3, <3>1, <3>2, <3>3 DEF Waiters
  <2> QED  BY <2>6, <2>7, <2>8, <2>9 DEF FlightInv
<1>5. CASE flights[k].leader # Nobody
  <2>1. /\ flights' = [flights EXCEPT ![k].waiters = @ \union {p}]
        /\ pull' = [pull EXCEPT ![p].at = "wait"]
    BY <1>5 DEF P!Enter, P!Goto
  <2>2. pull'[p].at = "wait" /\ pull'[p].kind = pull[p].kind
    BY <2>1 DEF PullType, PullStates
  <2>3. pull'[p].retried = pull[p].retried
    BY <2>1 DEF PullType, PullStates
  <2>4. Of(pull'[p]) = k /\ ~Leads(pull'[p]) /\ Waits(pull'[p])
    BY <2>2, <2>3 DEF Of, Leads, Waits, TokenSteps, IndexSteps
  <2>5. /\ flights'[k].waiters = flights[k].waiters \union {p}
        /\ \A j \in P!FlightKeys : j # k => flights'[j].waiters = flights[j].waiters
        /\ \A j \in P!FlightKeys : flights'[j].leader = flights[j].leader
    BY <1>1, <2>1 DEF PullType, Flights
  <2>6. Placed'
    BY <1>3, <2>4 DEF FlightInv, Placed
  <2>7. Led'
    <3>1. ASSUME NEW q \in Pulls, q # p
          PROVE  /\ Leads(pull[q]) => flights'[Of(pull[q])].leader = q
                 /\ pull[q].at = "probe" => flights'["discover"].leader = q
      <4>1. Leads(pull[q]) => Of(pull[q]) \in P!FlightKeys
        BY PlaceFacts, OfKey
      <4>2. "discover" \in P!FlightKeys
        BY DEF P!FlightKeys
      <4> QED  BY <2>5, <4>1, <4>2 DEF FlightInv, Led
    <3> QED  BY <1>3, <2>2, <2>4, <3>1 DEF Led
  <2>8. Leaders'
    <3>1. "discover" \in P!FlightKeys
      BY DEF P!FlightKeys
    <3>2. flights'["discover"].waiters = flights["discover"].waiters
      BY <1>1, <2>5, <3>1
    <3> QED  BY <1>2, <1>3, <2>5, <3>2 DEF FlightInv, Leaders
  <2>9. Waiters'
    <3>1. ASSUME NEW q \in Pulls, q # p, pull[q].at = "wait"
          PROVE  \/ /\ WaitsIn(q, "discover", flights') /\ pull[q].kind \in P!ImageKinds
                    /\ flights'[Of(pull[q])].leader = q
                 \/ WaitsIn(q, Of(pull[q]), flights')
      <4>1. \A j \in P!FlightKeys : WaitsIn(q, j, flights) => WaitsIn(q, j, flights')
        BY <2>5, <3>1 DEF WaitsIn
      <4>2. "discover" \in P!FlightKeys /\ Of(pull[q]) \in P!FlightKeys
        <5>1. Waits(pull[q])
          BY <3>1, PlaceFacts DEF FlightInv, Placed, Outside, Leads, ImageSteps, TokenSteps, IndexSteps
        <5> QED  BY <5>1, OfKey DEF Waits, P!FlightKeys
      <4>3. \/ /\ WaitsIn(q, "discover", flights) /\ pull[q].kind \in P!ImageKinds
               /\ flights[Of(pull[q])].leader = q
            \/ WaitsIn(q, Of(pull[q]), flights)
        BY <3>1 DEF FlightInv, Waiters
      <4> QED  BY <2>5, <4>1, <4>2, <4>3
    <3>2. ASSUME NEW q \in Pulls, q # p, pull[q].at # "wait"
          PROVE  \A j \in P!FlightKeys : q \notin flights'[j].waiters
      BY <2>5, <3>2 DEF FlightInv, Waiters
    <3>3. WaitsIn(p, k, flights')
      BY <1>1, <1>2, <1>5, <2>5 DEF WaitsIn
    <3> QED  BY <1>3, <2>2, <2>4, <3>1, <3>2, <3>3 DEF Waiters
  <2> QED  BY <2>6, <2>7, <2>8, <2>9 DEF FlightInv
<1> QED  BY <1>4, <1>5

\* Who waits, and where.
LEMMA WaiterFacts ==
  ASSUME FlightInv, NEW q \in Pulls
  PROVE  /\ pull[q].at = "wait" => Waits(pull[q]) /\ Of(pull[q]) \in P!FlightKeys \ {"discover"}
         /\ q \in flights["discover"].waiters =>
              /\ pull[q].at = "wait" /\ WaitsIn(q, "discover", flights)
              /\ pull[q].kind \in P!ImageKinds /\ flights[Of(pull[q])].leader = q
         /\ \A k \in P!FlightKeys \ {"discover"} : q \in flights[k].waiters =>
              pull[q].at = "wait" /\ Of(pull[q]) = k /\ WaitsIn(q, k, flights)
         /\ Leads(pull[q]) => Of(pull[q]) \in P!FlightKeys \ {"discover"}
<1>1. "discover" \in P!FlightKeys
  BY DEF P!FlightKeys
<1>2. pull[q].at = "wait" => Waits(pull[q])
  BY PlaceFacts DEF FlightInv, Placed, Outside, Leads, ImageSteps, TokenSteps, IndexSteps
<1>3. pull[q].at = "wait" => Of(pull[q]) \in P!FlightKeys \ {"discover"}
  BY <1>2, OfKey DEF Waits
<1>4. IF pull[q].at = "wait"
      THEN \/ /\ WaitsIn(q, "discover", flights) /\ pull[q].kind \in P!ImageKinds
              /\ flights[Of(pull[q])].leader = q
           \/ WaitsIn(q, Of(pull[q]), flights)
      ELSE \A k \in P!FlightKeys : q \notin flights[k].waiters
  BY DEF FlightInv, Waiters
<1>5. q \in flights["discover"].waiters =>
        /\ pull[q].at = "wait" /\ WaitsIn(q, "discover", flights)
        /\ pull[q].kind \in P!ImageKinds /\ flights[Of(pull[q])].leader = q
  BY <1>1, <1>3, <1>4 DEF WaitsIn
<1>6. ASSUME NEW k \in P!FlightKeys \ {"discover"}, q \in flights[k].waiters
      PROVE  pull[q].at = "wait" /\ Of(pull[q]) = k /\ WaitsIn(q, k, flights)
  <2>1. pull[q].at = "wait" /\ ~WaitsIn(q, "discover", flights)
    BY <1>4, <1>6 DEF WaitsIn
  <2>2. WaitsIn(q, Of(pull[q]), flights)
    BY <1>4, <2>1
  <2>3. Of(pull[q]) = k
    BY <1>6, <2>2 DEF WaitsIn
  <2> QED  BY <2>1, <2>2, <2>3
<1>7. Leads(pull[q]) => Of(pull[q]) \in P!FlightKeys \ {"discover"}
  BY OfKey, PlaceFacts
<1> QED  BY <1>2, <1>3, <1>5, <1>6, <1>7

\* The leader of a token flight comes to lead the discovery, or waits in it.
LEMMA DiscoverMove ==
  ASSUME P!PullAssumption, PullType, FlightInv, NEW p \in Pulls, pull[p].kind \in P!ImageKinds,
         pull[p].at = "discover", P!Enter(p, "discover", "probe")
  PROVE  FlightInv'
<1> DEFINE d == "discover"
<1>0. d \in P!FlightKeys /\ p # Nobody
  BY DEF P!FlightKeys, P!PullAssumption
<1>1. Leads(pull[p]) /\ flights[Of(pull[p])].leader = p /\ Of(pull[p]) \in P!FlightKeys \ {d}
  BY WaiterFacts DEF Leads, TokenSteps, FlightInv, Led
<1>2. /\ \A j \in P!FlightKeys : p \notin flights[j].waiters
      /\ \A j \in P!FlightKeys : flights[j].leader \in Pulls \union {Nobody}
      /\ flights[d].leader # p
  BY <1>0 DEF FlightInv, Leaders, Waiters, PullType, Flights
<1>3. \A q \in Pulls : q # p => pull'[q] = pull[q]
  BY DEF P!Enter, P!Goto, PullType
<1>4. /\ pull'[p].at \in {"probe", "wait"} /\ pull'[p].kind = pull[p].kind
  BY DEF P!Enter, P!Goto, PullType, PullStates
<1>5. pull'[p].retried = pull[p].retried
  BY DEF P!Enter, P!Goto, PullType, PullStates
<1>6. Of(pull'[p]) = Of(pull[p])
  BY <1>4, <1>5 DEF Of
<1>7. pull'[p].at = "probe" => Leads(pull'[p])
  BY <1>4 DEF Leads, TokenSteps
<1>8. pull'[p].at = "wait" => Waits(pull'[p]) /\ ~Leads(pull'[p])
  BY <1>4 DEF Leads, TokenSteps, IndexSteps, Waits, Kinds
<1>9. /\ \A j \in P!FlightKeys : j # d => flights'[j] = flights[j]
      /\ \/ /\ flights[d].leader = Nobody /\ flights'[d].leader = p
            /\ flights'[d].waiters = flights[d].waiters /\ pull'[p].at = "probe"
         \/ /\ flights[d].leader # Nobody /\ flights'[d].leader = flights[d].leader
            /\ flights'[d].waiters = flights[d].waiters \union {p} /\ pull'[p].at = "wait"
  BY <1>0 DEF P!Enter, P!Goto, PullType, Flights, PullStates
<1> HIDE DEF d
<1>10. Placed'
  BY <1>3, <1>4, <1>7, <1>8 DEF FlightInv, Placed
<1>11. Led'
  <2>1. ASSUME NEW q \in Pulls, q # p
        PROVE  /\ Leads(pull[q]) => flights'[Of(pull[q])].leader = q
               /\ pull[q].at = "probe" => flights'[d].leader = q
    <3>1. Leads(pull[q]) => flights'[Of(pull[q])].leader = q
      BY <1>9, WaiterFacts DEF FlightInv, Led, d
    <3>2. pull[q].at = "probe" => flights[d].leader = q /\ q # Nobody
      BY DEF FlightInv, Led, d, P!PullAssumption
    <3> QED  BY <1>9, <3>1, <3>2
  <2>2. /\ Leads(pull'[p]) => flights'[Of(pull'[p])].leader = p
        /\ pull'[p].at = "probe" => flights'[d].leader = p
    BY <1>1, <1>6, <1>9
  <2> QED  BY <1>3, <2>1, <2>2 DEF Led, d
<1>12. Leaders'
  <2>1. ASSUME NEW k \in P!FlightKeys, flights'[k].leader # Nobody
        PROVE  LET l == flights'[k].leader IN
               /\ k = d => pull'[l].at = "probe"
               /\ k # d => /\ Of(pull'[l]) = k
                           /\ Leads(pull'[l]) \/ (pull'[l].at = "wait" /\ l \in flights'[d].waiters)
    <3>1. CASE k = d
      BY <1>2, <1>3, <1>9, <2>1, <3>1 DEF FlightInv, Leaders, d
    <3>2. CASE k # d
      <4>1. flights'[k].leader = flights[k].leader /\ flights[k].leader \in Pulls
        BY <1>2, <1>9, <2>1, <3>2
      <4>2. CASE flights[k].leader = p
        <5>1. Of(pull[p]) = k
          BY <2>1, <3>2, <4>1, <4>2 DEF FlightInv, Leaders, d
        <5>2. Leads(pull'[p]) \/ (pull'[p].at = "wait" /\ p \in flights'[d].waiters)
          BY <1>7, <1>9
        <5> QED  BY <1>6, <3>2, <4>1, <4>2, <5>1, <5>2
      <4>3. CASE flights[k].leader # p
        BY <1>3, <1>9, <2>1, <3>2, <4>1, <4>3 DEF FlightInv, Leaders, d
      <4> QED  BY <4>2, <4>3
    <3> QED  BY <3>1, <3>2
  <2> QED  BY <2>1 DEF Leaders, d
<1>13. Waiters'
  <2>1. ASSUME NEW q \in Pulls, q # p, pull[q].at = "wait"
        PROVE  \/ /\ WaitsIn(q, d, flights') /\ pull[q].kind \in P!ImageKinds
                  /\ flights'[Of(pull[q])].leader = q
               \/ WaitsIn(q, Of(pull[q]), flights')
    <3>1. Of(pull[q]) \in P!FlightKeys \ {d}
      BY <2>1, WaiterFacts DEF d
    <3>2. WaitsIn(q, d, flights) => WaitsIn(q, d, flights')
      BY <1>0, <1>9, <2>1 DEF WaitsIn
    <3>3. WaitsIn(q, Of(pull[q]), flights) => WaitsIn(q, Of(pull[q]), flights')
      BY <1>0, <1>9, <2>1, <3>1 DEF WaitsIn
    <3> QED  BY <1>9, <2>1, <3>1, <3>2, <3>3 DEF FlightInv, Waiters, d
  <2>2. ASSUME NEW q \in Pulls, q # p, pull[q].at # "wait"
        PROVE  \A j \in P!FlightKeys : q \notin flights'[j].waiters
    BY <1>0, <1>9, <2>2 DEF FlightInv, Waiters
  <2>3. CASE pull'[p].at = "wait"
    <3>1. WaitsIn(p, d, flights')
      BY <1>0, <1>2, <1>9, <2>3 DEF WaitsIn
    <3>2. flights'[Of(pull'[p])].leader = p /\ pull'[p].kind \in P!ImageKinds
      BY <1>1, <1>4, <1>6, <1>9
    <3> QED  BY <1>3, <2>1, <2>2, <2>3, <3>1, <3>2 DEF Waiters, d
  <2>4. CASE pull'[p].at = "probe"
    <3>1. \A j \in P!FlightKeys : p \notin flights'[j].waiters
      BY <1>0, <1>2, <1>9, <2>4
    <3> QED  BY <1>3, <2>1, <2>2, <2>4, <3>1 DEF Waiters, d
  <2> QED  BY <1>4, <2>3, <2>4
<1> QED  BY <1>10, <1>11, <1>12, <1>13 DEF FlightInv

\* A flight of a token or of an index lands: its leader and its waiters are free.
LEMMA LandMove ==
  ASSUME P!PullAssumption,
         PullType, FlightInv, NEW p \in Pulls, Leads(pull[p]), pull[p].at # "probe",
         P!Land(Of(pull[p])), NEW g \in [Pulls -> PullStates], \A q \in Pulls : Outside(g[q]),
         pull' = [q \in Pulls |-> IF \/ q = flights[Of(pull[p])].leader
                                     \/ q \in flights[Of(pull[p])].waiters
                                  THEN g[q] ELSE pull[q]]
  PROVE  FlightInv'
<1> DEFINE d == "discover"
           k == Of(pull[p])
           In(q) == q = p \/ q \in flights[k].waiters
<1>0. d \in P!FlightKeys /\ p # Nobody /\ k \in P!FlightKeys \ {d}
  BY WaiterFacts DEF P!FlightKeys, P!PullAssumption
<1>1. flights[k].leader = p
  BY DEF FlightInv, Led
<1>2. /\ \A q \in Pulls : In(q) => Outside(pull'[q]) /\ ~Leads(pull'[q])
                                   /\ pull'[q].at # "wait" /\ pull'[q].at # "probe"
      /\ \A q \in Pulls : ~In(q) => pull'[q] = pull[q]
  BY <1>1, PlaceFacts
<1>3. /\ flights'[k].leader = Nobody /\ flights'[k].waiters = {}
      /\ \A j \in P!FlightKeys : j # k => flights'[j] = flights[j]
  BY <1>0 DEF P!Land, P!NoFlight, PullType
<1>4. \A q \in flights[k].waiters :
        /\ q \in Pulls /\ q # p /\ pull[q].at = "wait" /\ ~Leads(pull[q])
        /\ \A j \in P!FlightKeys : j # k => q \notin flights[j].waiters
  <2>1. ASSUME NEW q \in flights[k].waiters
        PROVE  /\ q \in Pulls /\ q # p /\ pull[q].at = "wait" /\ ~Leads(pull[q])
               /\ \A j \in P!FlightKeys : j # k => q \notin flights[j].waiters
    <3>1. q \in Pulls
      BY <1>0 DEF PullType, Flights
    <3>2. pull[q].at = "wait" /\ WaitsIn(q, k, flights)
      BY <1>0, <2>1, <3>1, WaiterFacts
    <3> QED  BY <1>1, <3>1, <3>2, PlaceFacts DEF WaitsIn
  <2> QED  BY <2>1
<1>5. \A j \in P!FlightKeys : p \notin flights[j].waiters
  BY PlaceFacts DEF FlightInv, Waiters
<1>6. \A j \in P!FlightKeys : flights[j].leader \in Pulls \union {Nobody}
  BY DEF PullType, Flights
<1>7. \A j \in P!FlightKeys \ {k} : ~In(flights[j].leader) \/ flights[j].leader = Nobody
  <2>1. ASSUME NEW j \in P!FlightKeys \ {k}, flights[j].leader # Nobody, In(flights[j].leader)
        PROVE  FALSE
    <3>1. /\ j = d => pull[flights[j].leader].at = "probe"
          /\ j # d => /\ Of(pull[flights[j].leader]) = j
                      /\ \/ Leads(pull[flights[j].leader])
                         \/ flights[j].leader \in flights[d].waiters
      BY <2>1 DEF FlightInv, Leaders, d
    <3>2. flights[j].leader # p
      BY <2>1, <3>1
    <3>3. flights[j].leader \in flights[k].waiters
      BY <2>1, <3>2
    <3> QED  BY <1>0, <1>4, <3>1, <3>3
  <2> QED  BY <2>1
<1> HIDE DEF k, d
<1>8. Placed'
  BY <1>2 DEF FlightInv, Placed
<1>9. Led'
  <2>1. ASSUME NEW q \in Pulls, ~In(q)
        PROVE  /\ Leads(pull[q]) => flights'[Of(pull[q])].leader = q
               /\ pull[q].at = "probe" => flights'[d].leader = q
    <3>1. Leads(pull[q]) => Of(pull[q]) \in P!FlightKeys /\ flights[Of(pull[q])].leader = q
      BY WaiterFacts DEF FlightInv, Led
    <3>2. Leads(pull[q]) => Of(pull[q]) # k
      BY <1>1, <2>1, <3>1
    <3>3. pull[q].at = "probe" => flights[d].leader = q
      BY DEF FlightInv, Led, d
    <3> QED  BY <1>0, <1>3, <3>1, <3>2, <3>3
  <2> QED  BY <1>2, <2>1 DEF Led, d
<1>10. Leaders'
  <2>1. ASSUME NEW j \in P!FlightKeys, flights'[j].leader # Nobody
        PROVE  LET l == flights'[j].leader IN
               /\ j = d => pull'[l].at = "probe"
               /\ j # d => /\ Of(pull'[l]) = j
                           /\ Leads(pull'[l]) \/ (pull'[l].at = "wait" /\ l \in flights'[d].waiters)
    <3>1. j # k /\ flights'[j] = flights[j] /\ flights'[d] = flights[d]
      BY <1>0, <1>3, <2>1
    <3>2. pull'[flights[j].leader] = pull[flights[j].leader]
      BY <1>2, <1>6, <1>7, <2>1, <3>1
    <3> QED  BY <2>1, <3>1, <3>2 DEF FlightInv, Leaders, d
  <2> QED  BY <2>1 DEF Leaders, d
<1>11. Waiters'
  <2>1. ASSUME NEW q \in Pulls, ~In(q), pull[q].at = "wait"
        PROVE  \/ /\ WaitsIn(q, d, flights') /\ pull[q].kind \in P!ImageKinds
                  /\ flights'[Of(pull[q])].leader = q
               \/ WaitsIn(q, Of(pull[q]), flights')
    <3>1. Of(pull[q]) \in P!FlightKeys \ {d}
      BY <2>1, WaiterFacts DEF d
    <3>2. WaitsIn(q, d, flights) => WaitsIn(q, d, flights')
      BY <1>0, <1>3, <2>1 DEF WaitsIn
    <3>3. WaitsIn(q, Of(pull[q]), flights) => WaitsIn(q, Of(pull[q]), flights')
      <4>1. WaitsIn(q, Of(pull[q]), flights) => Of(pull[q]) # k
        BY <2>1 DEF WaitsIn
      <4> QED  BY <1>3, <2>1, <3>1, <4>1 DEF WaitsIn
    <3>4. flights[Of(pull[q])].leader = q => flights'[Of(pull[q])].leader = q
      BY <1>1, <1>3, <2>1, <3>1
    <3> QED  BY <2>1, <3>1, <3>2, <3>3, <3>4 DEF FlightInv, Waiters, d
  <2>2. ASSUME NEW q \in Pulls, ~In(q), pull[q].at # "wait"
        PROVE  \A j \in P!FlightKeys : q \notin flights'[j].waiters
    BY <1>3, <2>2 DEF FlightInv, Waiters
  <2>3. ASSUME NEW q \in Pulls, In(q)
        PROVE  \A j \in P!FlightKeys : q \notin flights'[j].waiters
    BY <1>3, <1>4, <1>5, <2>3
  <2> QED  BY <1>2, <2>1, <2>2, <2>3 DEF Waiters, d
<1> QED  BY <1>8, <1>9, <1>10, <1>11 DEF FlightInv

\* The discovery lands: its leader and its waiters go on with their own flights.
LEMMA ProbeMove ==
  ASSUME P!PullAssumption,
         PullType, FlightInv, NEW p \in Pulls, pull[p].at = "probe", P!Land("discover"),
         NEW s \in {"exchange", "undiscovered"},
         pull' = [q \in Pulls |-> IF q = flights["discover"].leader \/ q \in flights["discover"].waiters
                                  THEN [pull[q] EXCEPT !.at = s] ELSE pull[q]]
  PROVE  FlightInv'
<1> DEFINE d == "discover"
           In(q) == q = p \/ q \in flights[d].waiters
<1>0. d \in P!FlightKeys /\ p # Nobody
  BY DEF P!FlightKeys, P!PullAssumption
<1>1. flights[d].leader = p
  BY DEF FlightInv, Led
<1>2. Leads(pull[p]) /\ pull[p].kind \in P!ImageKinds
  BY PlaceFacts DEF FlightInv, Placed, Leads, IndexSteps
<1>3. \A q \in Pulls : In(q) => pull[q].kind \in P!ImageKinds /\ flights[Of(pull[q])].leader = q
                                /\ Of(pull[q]) \in P!FlightKeys \ {d}
  BY <1>2, WaiterFacts DEF FlightInv, Led
<1>4. \A q \in Pulls : In(q) => pull'[q].at = s /\ pull'[q].kind = pull[q].kind
  BY <1>1 DEF PullType, PullStates
<1>5. \A q \in Pulls : In(q) => pull'[q].retried = pull[q].retried
  BY <1>1 DEF PullType, PullStates
<1>6. \A q \in Pulls : ~In(q) => pull'[q] = pull[q]
  BY <1>1
<1>7. \A q \in Pulls : In(q) => /\ Leads(pull'[q]) /\ Of(pull'[q]) = Of(pull[q])
                                /\ pull'[q].at # "wait" /\ pull'[q].at # "probe"
  BY <1>3, <1>4, <1>5 DEF Leads, TokenSteps, Of
<1>8. /\ flights'[d].leader = Nobody /\ flights'[d].waiters = {}
      /\ \A j \in P!FlightKeys : j # d => flights'[j] = flights[j]
  BY <1>0 DEF P!Land, P!NoFlight, PullType
<1>9. \A j \in P!FlightKeys : flights[j].leader \in Pulls \union {Nobody}
  BY DEF PullType, Flights
<1>10. \A q \in Pulls : In(q) => \A j \in P!FlightKeys \ {d} : q \notin flights[j].waiters
  <2>1. \A j \in P!FlightKeys : p \notin flights[j].waiters
    BY DEF FlightInv, Waiters
  <2> QED  BY <2>1, WaiterFacts DEF WaitsIn
<1> HIDE DEF d
<1>11. Placed'
  BY <1>6, <1>7 DEF FlightInv, Placed
<1>12. Led'
  <2>1. ASSUME NEW q \in Pulls, ~In(q)
        PROVE  /\ Leads(pull[q]) => flights'[Of(pull[q])].leader = q
               /\ pull[q].at # "probe"
    BY <1>1, <1>8, <2>1, WaiterFacts DEF FlightInv, Led, d
  <2>2. ASSUME NEW q \in Pulls, In(q)
        PROVE  flights'[Of(pull'[q])].leader = q
    BY <1>3, <1>7, <1>8, <2>2
  <2> QED  BY <1>6, <1>7, <2>1, <2>2 DEF Led, d
<1>13. Leaders'
  <2>1. ASSUME NEW j \in P!FlightKeys, flights'[j].leader # Nobody
        PROVE  LET l == flights'[j].leader IN
               j # d /\ Of(pull'[l]) = j /\ Leads(pull'[l])
    <3>1. j # d /\ flights'[j] = flights[j] /\ flights[j].leader \in Pulls
      BY <1>8, <1>9, <2>1
    <3>2. /\ Of(pull[flights[j].leader]) = j
          /\ Leads(pull[flights[j].leader]) \/ flights[j].leader \in flights[d].waiters
      BY <2>1, <3>1 DEF FlightInv, Leaders, d
    <3>3. CASE In(flights[j].leader)
      BY <1>7, <3>1, <3>2, <3>3
    <3>4. CASE ~In(flights[j].leader)
      BY <1>6, <3>1, <3>2, <3>4
    <3> QED  BY <3>3, <3>4
  <2> QED  BY <2>1 DEF Leaders, d
<1>14. Waiters'
  <2>1. ASSUME NEW q \in Pulls, ~In(q), pull[q].at = "wait"
        PROVE  WaitsIn(q, Of(pull[q]), flights')
    <3>1. Of(pull[q]) \in P!FlightKeys \ {d}
      BY <2>1, WaiterFacts DEF d
    <3>2. WaitsIn(q, Of(pull[q]), flights)
      BY <2>1 DEF FlightInv, Waiters, WaitsIn, d
    <3> QED  BY <1>0, <1>8, <3>1, <3>2 DEF WaitsIn
  <2>2. ASSUME NEW q \in Pulls, ~In(q), pull[q].at # "wait"
        PROVE  \A j \in P!FlightKeys : q \notin flights'[j].waiters
    BY <1>8, <2>2 DEF FlightInv, Waiters
  <2>3. ASSUME NEW q \in Pulls, In(q)
        PROVE  \A j \in P!FlightKeys : q \notin flights'[j].waiters
    BY <1>8, <1>10, <2>3
  <2> QED  BY <1>6, <1>7, <2>1, <2>2, <2>3 DEF Waiters, d
<1> QED  BY <1>11, <1>12, <1>13, <1>14 DEF FlightInv

-----------------------------------------------------------------------------
(***************************************************************************)
(* What a pull carries from step to step.  Without a fault: its outcome,   *)
(* the base it asks, credentials when it asks again, and the body it has   *)
(* asked for.                                                              *)
(***************************************************************************)
Faultless == ~pullHistory.fault /\ (~locked \/ (config.username /\ config.auth # "none"))

\* A pull that nothing has failed for; wanted says that upstream wants
\* credentials.
Good(x, wanted) ==
  /\ x.outcome \in {"none", "served"} /\ x.at # "undiscovered"
  /\ x.kind \in P!IndexKinds =>
       /\ x.at \in {"coalesce", "wait", "walk"} => x.base = 0
       /\ x.at \in {"circuit", "send"} => x.base = 1
  /\ x.kind \in P!ImageKinds /\ x.at = "send" /\ x.retried /\ wanted => x.trusted
  /\ x.at = "verify" /\ x.kind # "tag" => x.got = x.want

\* No circuit has counted a failure.
AllClosed == [k \in P!Breakers |-> P!Closed]

\* As long as nothing has failed, every pull is on its way to be served.
Serving == Faultless => breaker = AllClosed /\ \A p \in Pulls : Good(pull[p], locked)

\* Upstream wants credentials, one pull ran at a time and no mark was lost.
Watched == locked /\ ~pullHistory.overlap /\ ~pullHistory.unmarked

\* IsRepoPrivate will say so, of the token that the pull has used.
Secret(c, t) == c.username /\ (c.auth = "basic" \/ ~t.known \/ t.credentialsUsed)

\* A pull that upstream has accepted carries that through to the mark.
Cleared(x, c, t, r) ==
  x.kind \in P!ImageKinds =>
    /\ x.at = "send" /\ x.trusted => Secret(c, t)
    /\ x.at \in {"verify", "putBlob", "repository", "classify"} => Secret(c, t)
    /\ x.at = "mark" => x.private
    /\ x.at = "cache" => r.private

\* One pull at a time.
Alone == \A p, q \in Pulls : pull[p].at # "idle" /\ pull[q].at # "idle" => p = q

\* What is readable here of such a repository is marked.
Marking ==
  Watched =>
    /\ Alone /\ \A p \in Pulls : Cleared(pull[p], config, token, repo)
    /\ manifests # {} => repo.private

\* The inductive invariant.
PullInv == PullType /\ FlightInv /\ Serving /\ Marking

\* Nothing in the history is forgotten.
Remembers ==
  /\ UNCHANGED <<config, locked>>
  /\ pullHistory.fault => pullHistory'.fault
  /\ pullHistory.overlap => pullHistory'.overlap
  /\ pullHistory.unmarked => pullHistory'.unmarked

\* What one pull that goes on has to show.
LEMMA PlainStep ==
  ASSUME PullInv, NEW p \in Pulls, pull[p].at # "idle", NEW x \in PullStates,
         pull' = [pull EXCEPT ![p] = x], Remembers,
         Faultless' => breaker' = AllClosed /\ Good(x, locked),
         Watched' => /\ Cleared(x, config, token', repo')
                     /\ manifests' # {} => repo'.private
  PROVE  Serving' /\ Marking'
<1>1. pull'[p] = x /\ \A q \in Pulls : q # p => pull'[q] = pull[q]
  BY DEF PullInv, PullType
<1>2. (Faultless' => Faultless) /\ (Watched' => Watched) /\ locked' = locked /\ config' = config
  BY DEF Remembers, Faultless, Watched
<1>3. Serving'
  BY <1>1, <1>2 DEF PullInv, Serving
<1>4. Marking'
  <2> SUFFICES ASSUME Watched'
               PROVE  /\ Alone' /\ \A q \in Pulls : Cleared(pull[q], config, token, repo)'
                      /\ manifests' # {} => repo'.private
    BY <1>2 DEF Marking
  <2>1. \A q \in Pulls : q # p => pull[q].at = "idle"
    BY <1>2 DEF PullInv, Marking, Alone
  <2>2. Alone'
    BY <1>1, <2>1 DEF Alone
  <2>3. \A q \in Pulls : q # p => Cleared(pull'[q], config, token', repo')
    BY <1>1, <2>1 DEF Cleared
  <2>4. \A q \in Pulls : Cleared(pull'[q], config', token', repo')
    BY <1>1, <1>2, <2>3
  <2> QED  BY <2>2, <2>4
<1> QED  BY <1>3, <1>4

\* What the callers of a flight that lands have to show.
LEMMA LandStep ==
  ASSUME PullInv, P!PullAssumption, NEW k \in P!FlightKeys, NEW p \in Pulls, pull[p].at # "idle",
         flights[k].leader = p, NEW g \in [Pulls -> PullStates],
         pull' = [q \in Pulls |-> IF q = p \/ q \in flights[k].waiters THEN g[q] ELSE pull[q]],
         Remembers,
         Faultless' => /\ breaker' = AllClosed
                       /\ \A q \in Pulls : q = p \/ q \in flights[k].waiters => Good(g[q], locked),
         Watched' => /\ Cleared(g[p], config, token', repo')
                     /\ manifests' # {} => repo'.private
  PROVE  Serving' /\ Marking'
<1>1. /\ \A q \in Pulls : q = p \/ q \in flights[k].waiters => pull'[q] = g[q]
      /\ \A q \in Pulls : ~(q = p \/ q \in flights[k].waiters) => pull'[q] = pull[q]
  OBVIOUS
<1>2. (Faultless' => Faultless) /\ (Watched' => Watched) /\ locked' = locked /\ config' = config
  BY DEF Remembers, Faultless, Watched
<1>3. Serving'
  BY <1>1, <1>2 DEF PullInv, Serving
<1>4. Marking'
  <2> SUFFICES ASSUME Watched'
               PROVE  /\ Alone' /\ \A q \in Pulls : Cleared(pull[q], config, token, repo)'
                      /\ manifests' # {} => repo'.private
    BY <1>2 DEF Marking
  <2>1. \A q \in Pulls : q # p => pull[q].at = "idle"
    BY <1>2 DEF PullInv, Marking, Alone
  <2>2. \A q \in Pulls : q \notin flights[k].waiters
    <3>1. SUFFICES ASSUME NEW q \in Pulls, q \in flights[k].waiters PROVE FALSE
      OBVIOUS
    <3>2. pull[q].at = "wait" /\ WaitsIn(q, k, flights)
      BY <3>1, WaiterFacts DEF PullInv
    <3> QED  BY <2>1, <3>2 DEF WaitsIn
  <2>3. pull'[p] = g[p] /\ \A q \in Pulls : q # p => pull'[q] = pull[q]
    BY <1>1, <2>2
  <2>4. Alone'
    BY <2>1, <2>3 DEF Alone
  <2>5. \A q \in Pulls : q # p => Cleared(pull'[q], config, token', repo')
    BY <2>1, <2>3 DEF Cleared
  <2>6. \A q \in Pulls : Cleared(pull'[q], config', token', repo')
    BY <1>2, <2>3, <2>5
  <2> QED  BY <2>4, <2>6
<1> QED  BY <1>3, <1>4

\* The types of three variables by themselves.
TokenType   == [known : BOOLEAN, credentialsUsed : BOOLEAN, fresh : BOOLEAN]
RepoType    == [exists : BOOLEAN, private : BOOLEAN]
HistoryType == [overlap : BOOLEAN, unmarked : BOOLEAN, fault : BOOLEAN]

\* What the invariant says of a pull before it goes on.
LEMMA Before ==
  ASSUME PullInv, Remembers, NEW p \in Pulls
  PROVE  /\ pull[p] \in PullStates
         /\ Faultless' => breaker = AllClosed /\ Good(pull[p], locked) /\ Faultless
         /\ Watched' => /\ Cleared(pull[p], config, token, repo)
                        /\ (manifests # {} => repo.private) /\ Watched
BY DEF PullInv, PullType, Remembers, Faultless, Watched, Serving, Marking

\* A pull that was answered.
LEMMA AnsweredFacts ==
  ASSUME NEW o \in {"none", "served", "failed", "absent"}
  PROVE  /\ P!Answered(o) \in PullStates /\ Outside(P!Answered(o))
         /\ P!Answered(o).at = "idle" /\ P!Answered(o).kind = "none" /\ P!Answered(o).outcome = o
BY DEF P!Answered, P!Idle, PullStates, Outside

\* It owes nothing.
LEMMA IdleFacts ==
  ASSUME NEW x, x.kind = "none", x.at = "idle", NEW w, NEW c, NEW t, NEW r
  PROVE  Cleared(x, c, t, r) /\ (x.outcome \in {"none", "served"} => Good(x, w))
BY DEF Cleared, Good, P!ImageKinds, P!IndexKinds

\* A fault is remembered.
LEMMA FaultFacts ==
  ASSUME PullType, UNCHANGED <<config, locked>>, P!Fault
  PROVE  Remembers /\ pullHistory' \in HistoryType /\ ~Faultless'
<1>1. pullHistory' = [pullHistory EXCEPT !.fault = TRUE]
  BY DEF P!Fault
<1>2. pullHistory' \in HistoryType
  BY <1>1 DEF PullType, HistoryType
<1>3. pullHistory'.fault = TRUE
  BY <1>1 DEF PullType
<1>4. pullHistory'.overlap = pullHistory.overlap
  BY <1>1 DEF PullType
<1>5. pullHistory'.unmarked = pullHistory.unmarked
  BY <1>1 DEF PullType
<1> QED  BY <1>2, <1>3, <1>4, <1>5 DEF Remembers, Faultless

\* What does not touch the history forgets nothing.
LEMMA QuietFacts ==
  ASSUME PullType, UNCHANGED <<config, locked, pullHistory>>
  PROVE  Remembers /\ pullHistory' \in HistoryType
BY DEF PullType, Remembers, HistoryType

\* A pull of the image goes on outside the flights.
LEMMA FreeStep ==
  ASSUME P!PullAssumption, PullInv, NEW p \in Pulls, pull[p].at # "idle", Outside(pull[p]),
         NEW x \in PullStates, Outside(x), pull' = [pull EXCEPT ![p] = x], UNCHANGED <<remote, flights>>,
         token' \in TokenType, repo' \in RepoType, pullHistory' \in HistoryType, Remembers,
         Faultless' => breaker' = AllClosed /\ Good(x, locked),
         Watched' => /\ Cleared(x, config, token', repo')
                     /\ manifests' # {} => repo'.private
  PROVE  PullInv'
<1>1. PullType'
  BY DEF PullInv, PullType, Remembers, TokenType, RepoType, HistoryType
<1>2. FlightInv'
  BY FreeMove DEF PullInv
<1>3. Serving' /\ Marking'
  BY PlainStep
<1> QED  BY <1>1, <1>2, <1>3 DEF PullInv

\* The leader of a flight goes on.
LEMMA LeadStep ==
  ASSUME P!PullAssumption, PullInv, NEW p \in Pulls, Leads(pull[p]), pull[p].at # "probe",
         NEW x \in PullStates, Leads(x), x.at # "probe", Of(x) = Of(pull[p]),
         pull' = [pull EXCEPT ![p] = x], UNCHANGED <<remote, flights, token, repo, manifests>>,
         pullHistory' \in HistoryType, Remembers,
         Faultless' => breaker' = AllClosed /\ Good(x, locked),
         Cleared(x, config, token, repo)
  PROVE  PullInv'
<1>1. PullType'
  BY DEF PullInv, PullType, Remembers, HistoryType
<1>2. FlightInv'
  BY LeadMove DEF PullInv
<1>3. Watched' => (manifests' # {} => repo'.private)
  BY Before
<1>4. pull[p].at # "idle"
  BY PlaceFacts
<1>5. Serving' /\ Marking'
  BY <1>3, <1>4, PlainStep
<1> QED  BY <1>1, <1>2, <1>5 DEF PullInv

\* A flight lands.
LEMMA LandedStep ==
  ASSUME P!PullAssumption, PullInv, NEW p \in Pulls, Leads(pull[p]), pull[p].at # "probe",
         P!Land(Of(pull[p])), NEW g \in [Pulls -> PullStates], \A q \in Pulls : Outside(g[q]),
         pull' = [q \in Pulls |-> IF \/ q = flights[Of(pull[p])].leader
                                     \/ q \in flights[Of(pull[p])].waiters
                                  THEN g[q] ELSE pull[q]],
         UNCHANGED <<remote, repo, manifests>>,
         token' \in TokenType, pullHistory' \in HistoryType, Remembers,
         Faultless' => /\ breaker' = AllClosed
                       /\ \A q \in Pulls : q = p \/ q \in flights[Of(pull[p])].waiters
                                             => Good(g[q], locked),
         Watched' => Cleared(g[p], config, token', repo')
  PROVE  PullInv'
<1>1. PullType'
  <2>1. pull' \in [Pulls -> PullStates]
    BY DEF PullInv, PullType
  <2>2. flights' \in [P!FlightKeys -> Flights]
    BY DEF PullInv, PullType, P!Land, P!NoFlight, Flights
  <2> QED  BY <2>1, <2>2 DEF PullInv, PullType, Remembers, TokenType, HistoryType
<1>2. FlightInv'
  BY LandMove DEF PullInv
<1>3. Watched' => (manifests' # {} => repo'.private)
  BY Before
<1>4. pull[p].at # "idle" /\ Of(pull[p]) \in P!FlightKeys /\ flights[Of(pull[p])].leader = p
  BY PlaceFacts, WaiterFacts DEF PullInv, FlightInv, Led
<1>5. Serving' /\ Marking'
  <2> DEFINE k == Of(pull[p])
  <2>1. k \in P!FlightKeys /\ flights[k].leader = p
    BY <1>4
  <2>2. pull' = [q \in Pulls |-> IF q = p \/ q \in flights[k].waiters THEN g[q] ELSE pull[q]]
    BY <1>4
  <2>3. Faultless' => /\ breaker' = AllClosed
                      /\ \A q \in Pulls : q = p \/ q \in flights[k].waiters => Good(g[q], locked)
    OBVIOUS
  <2> HIDE DEF k
  <2> QED  BY <1>3, <1>4, <2>1, <2>2, <2>3, LandStep
<1> QED  BY <1>1, <1>2, <1>5 DEF PullInv

\* A pull of the image that is answered outside a flight.
LEMMA PullReturns ==
  ASSUME P!PullAssumption, PullInv, NEW p \in Pulls, pull[p].at # "idle", Outside(pull[p]),
         NEW o \in {"none", "served", "failed", "absent"}, P!Return(p, o), UNCHANGED <<remote, flights>>,
         token' \in TokenType, repo' \in RepoType, pullHistory' \in HistoryType, Remembers,
         Faultless' => breaker' = AllClosed /\ o = "served",
         Watched' => (manifests' # {} => repo'.private)
  PROVE  PullInv'
<1> DEFINE x == P!Answered(o)
<1>1. /\ x \in PullStates /\ Outside(x) /\ pull' = [pull EXCEPT ![p] = x]
      /\ x.kind = "none" /\ x.at = "idle" /\ x.outcome = o
  BY AnsweredFacts DEF P!Return
<1> HIDE DEF x
<1>2. Cleared(x, config, token', repo') /\ (o = "served" => Good(x, locked))
  BY <1>1, IdleFacts
<1> QED  BY <1>1, <1>2, FreeStep

\* A pull of the image that goes on outside a flight.
LEMMA PullGoesOn ==
  ASSUME P!PullAssumption,
         PullInv, NEW p \in Pulls, pull[p].kind \in P!ImageKinds, pull[p].at \in ImageSteps,
         NEW s \in ImageSteps \ {"send", "verify"}, P!Goto(p, s), UNCHANGED <<remote, flights>>,
         token' \in TokenType, repo' \in RepoType, pullHistory' \in HistoryType, Remembers,
         Faultless' => breaker' = AllClosed,
         Watched' => /\ s \in {"putBlob", "repository", "classify"} => Secret(config, token')
                     /\ s = "mark" => pull[p].private
                     /\ s = "cache" => repo'.private
                     /\ manifests' # {} => repo'.private
  PROVE  PullInv'
<1> DEFINE x == [pull[p] EXCEPT !.at = s]
<1>1. pull[p] \in PullStates /\ pull[p].at # "idle" /\ Outside(pull[p])
  BY DEF PullInv, PullType, Outside, ImageSteps
<1>2. /\ x \in PullStates /\ pull' = [pull EXCEPT ![p] = x]
      /\ x.kind = pull[p].kind /\ x.at = s /\ x.outcome = pull[p].outcome
  BY <1>1 DEF P!Goto, PullStates
<1>3. x.private = pull[p].private
  BY <1>1 DEF PullStates
<1> HIDE DEF x
<1>4. Outside(x)
  BY <1>2 DEF Outside
<1>5. x.kind \notin P!IndexKinds
  BY <1>2 DEF P!ImageKinds, P!IndexKinds
<1>6. Faultless' => Good(x, locked)
  BY <1>2, <1>5, Before DEF Good, ImageSteps
<1>7. Watched' => Cleared(x, config, token', repo')
  BY <1>2, <1>3 DEF Cleared
<1> QED  BY <1>1, <1>2, <1>4, <1>6, <1>7, FreeStep

\* Who is at a step of the image pulls the image.
LEMMA ImageAt ==
  ASSUME PullInv, NEW p \in Pulls, pull[p].at \in ImageSteps \ IndexSteps
  PROVE  pull[p].kind \in P!ImageKinds /\ Outside(pull[p]) /\ pull[p].at # "idle"
BY DEF PullInv, FlightInv, Placed, Outside, Leads, Waits, ImageSteps, TokenSteps, IndexSteps

\* Who is at a step of the token leads a flight of it.
LEMMA TokenAt ==
  ASSUME PullInv, NEW p \in Pulls, pull[p].at \in TokenSteps
  PROVE  pull[p].kind \in P!ImageKinds /\ Leads(pull[p])
BY DEF PullInv, FlightInv, Placed, Outside, Leads, Waits, ImageSteps, TokenSteps, IndexSteps

\* The types that a step keeps which leaves the state alone.
LEMMA Unmoved ==
  ASSUME PullInv
  PROVE  /\ UNCHANGED token => token' \in TokenType
         /\ UNCHANGED repo => repo' \in RepoType
BY DEF PullInv, PullType, TokenType, RepoType

\* The actions, one by one.  getTag and getManifest look here first.
LEMMA GetManifestStep ==
  ASSUME P!PullAssumption, PullInv, NEW p \in Pulls, P!GetManifest(p) PROVE PullInv'
<1>1. /\ UNCHANGED <<config, locked, remote, breaker, token, flights, repo, manifests, pullHistory>>
      /\ pull[p].at = "lookup"
      /\ P!Return(p, "served") \/ P!Goto(p, "circuit")
  BY DEF P!GetManifest, P!given, P!fetcher, P!stored
<1>2. Remembers /\ pullHistory' \in HistoryType /\ token' \in TokenType /\ repo' \in RepoType
  BY <1>1, QuietFacts, Unmoved DEF PullInv
<1>3. /\ Faultless' => breaker' = AllClosed
      /\ Watched' => (manifests' # {} => repo'.private)
  BY <1>1, <1>2, Before
<1>4. pull[p].kind \in P!ImageKinds /\ Outside(pull[p]) /\ pull[p].at # "idle" /\ pull[p].at \in ImageSteps
  BY <1>1, ImageAt DEF ImageSteps, IndexSteps
<1>5. CASE P!Return(p, "served")
  BY <1>1, <1>2, <1>3, <1>4, <1>5, PullReturns
<1>6. CASE P!Goto(p, "circuit")
  BY <1>1, <1>2, <1>3, <1>4, <1>6, PullGoesOn DEF ImageSteps
<1> QED  BY <1>1, <1>5, <1>6

\* getBlob looks here first, and then at the peers.
LEMMA GetBlobStep ==
  ASSUME P!PullAssumption, PullInv, NEW p \in Pulls, P!GetBlob(p) PROVE PullInv'
<1>1. /\ UNCHANGED <<config, locked, remote, breaker, token, flights, repo, manifests, pullHistory>>
      /\ pull[p].at = "lookup"
      /\ P!Return(p, "served") \/ P!Goto(p, "circuit") \/ P!Goto(p, "peers")
  BY DEF P!GetBlob, P!given, P!fetcher, P!stored
<1>2. Remembers /\ pullHistory' \in HistoryType /\ token' \in TokenType /\ repo' \in RepoType
  BY <1>1, QuietFacts, Unmoved DEF PullInv
<1>3. /\ Faultless' => breaker' = AllClosed
      /\ Watched' => (manifests' # {} => repo'.private)
  BY <1>1, <1>2, Before
<1>4. pull[p].kind \in P!ImageKinds /\ Outside(pull[p]) /\ pull[p].at # "idle" /\ pull[p].at \in ImageSteps
  BY <1>1, ImageAt DEF ImageSteps, IndexSteps
<1>5. CASE P!Return(p, "served")
  BY <1>1, <1>2, <1>3, <1>4, <1>5, PullReturns
<1>6. CASE P!Goto(p, "circuit") \/ P!Goto(p, "peers")
  BY <1>1, <1>2, <1>3, <1>4, <1>6, PullGoesOn DEF ImageSteps
<1> QED  BY <1>1, <1>5, <1>6

\* fetchBlobFromPeers answers.
LEMMA FetchBlobFromPeersStep ==
  ASSUME P!PullAssumption, PullInv, NEW p \in Pulls, P!FetchBlobFromPeers(p) PROVE PullInv'
<1>1. /\ UNCHANGED <<config, locked, remote, breaker, token, flights, repo, manifests>>
      /\ pull[p].at = "peers"
  BY DEF P!FetchBlobFromPeers, P!given, P!fetcher
<1>2. token' \in TokenType /\ repo' \in RepoType
  BY <1>1, Unmoved
<1>3. pull[p].kind \in P!ImageKinds /\ Outside(pull[p]) /\ pull[p].at # "idle"
  BY <1>1, ImageAt DEF ImageSteps, IndexSteps
<1>4. CASE P!Return(p, "served") /\ P!NoFault
  <2>1. Remembers /\ pullHistory' \in HistoryType
    BY <1>1, <1>4, QuietFacts DEF PullInv, P!NoFault
  <2>2. /\ Faultless' => breaker' = AllClosed
        /\ Watched' => (manifests' # {} => repo'.private)
    BY <1>1, <2>1, Before
  <2> QED  BY <1>1, <1>2, <1>3, <1>4, <2>1, <2>2, PullReturns
<1>5. CASE P!Fault /\ P!Return(p, "failed")
  <2>1. Remembers /\ pullHistory' \in HistoryType /\ ~Faultless'
    BY <1>1, <1>5, FaultFacts DEF PullInv
  <2>2. Watched' => (manifests' # {} => repo'.private)
    BY <1>1, <2>1, Before
  <2> QED  BY <1>1, <1>2, <1>3, <1>5, <2>1, <2>2, PullReturns
<1> QED  BY <1>4, <1>5 DEF P!FetchBlobFromPeers

\* isOpen leaves a closed circuit closed.
LEMMA ClosedFacts ==
  ASSUME NEW k \in P!Breakers, breaker = AllClosed
  PROVE  /\ ~P!IsOpen(k) /\ (P!ForgetExpired(k) => breaker' = AllClosed)
         /\ (P!RecordSuccess(k) => breaker' = AllClosed)
BY DEF AllClosed, P!Closed, P!IsOpen, P!ForgetExpired, P!RecordSuccess

\* An open circuit answers, which needs a failure.
LEMMA CheckCircuitStep ==
  ASSUME P!PullAssumption, PullInv, NEW p \in Pulls, P!CheckCircuit(p) PROVE PullInv'
<1>1. /\ UNCHANGED <<config, locked, remote, token, flights, repo, manifests, pullHistory>>
      /\ pull[p].at = "circuit" /\ pull[p].kind \in P!ImageKinds
      /\ P!ForgetExpired("registry")
      /\ IF P!IsOpen("registry") THEN P!Return(p, "failed") ELSE P!Goto(p, "auth")
  BY DEF P!CheckCircuit, P!given, P!stored
<1>2. Remembers /\ pullHistory' \in HistoryType /\ token' \in TokenType /\ repo' \in RepoType
  BY <1>1, QuietFacts, Unmoved DEF PullInv
<1>3. Faultless' => breaker' = AllClosed /\ ~P!IsOpen("registry")
  <2>1. "registry" \in P!Breakers
    BY DEF P!Breakers
  <2> QED  BY <1>1, <1>2, <2>1, Before, ClosedFacts
<1>4. Watched' => (manifests' # {} => repo'.private)
  BY <1>1, <1>2, Before
<1>5. Outside(pull[p]) /\ pull[p].at # "idle" /\ pull[p].at \in ImageSteps
  BY <1>1 DEF Outside, ImageSteps
<1>6. CASE P!IsOpen("registry")
  BY <1>1, <1>2, <1>3, <1>4, <1>5, <1>6, PullReturns
<1>7. CASE ~P!IsOpen("registry")
  BY <1>1, <1>2, <1>3, <1>4, <1>5, <1>7, PullGoesOn DEF ImageSteps
<1> QED  BY <1>6, <1>7

\* Entering a flight moves the caller to its first step or makes it wait.
EntersFlight(p, step) ==
  \E s \in {"wait", step} :
    LET x == [pull[p] EXCEPT !.at = s] IN
    /\ pull' = [pull EXCEPT ![p] = x] /\ x \in PullStates
    /\ x.at = s /\ x.kind = pull[p].kind /\ x.base = pull[p].base /\ x.outcome = pull[p].outcome

\* What entering a flight does to the caller, whatever the flight.
LEMMA EnterFacts ==
  ASSUME PullType, NEW p \in Pulls, NEW k \in P!FlightKeys, NEW step \in {"discover", "probe", "walk"},
         P!Enter(p, k, step)
  PROVE  /\ flights' \in [P!FlightKeys -> Flights]
         /\ EntersFlight(p, step)
<1>1. \A s \in {"wait", step} : /\ [pull[p] EXCEPT !.at = s] \in PullStates
                                /\ [pull[p] EXCEPT !.at = s].at = s
                                /\ [pull[p] EXCEPT !.at = s].kind = pull[p].kind
                                /\ [pull[p] EXCEPT !.at = s].base = pull[p].base
                                /\ [pull[p] EXCEPT !.at = s].outcome = pull[p].outcome
  BY DEF PullType, PullStates, TokenSteps, IndexSteps
<1>2. \E s \in {"wait", step} : pull' = [pull EXCEPT ![p] = [pull[p] EXCEPT !.at = s]]
  BY DEF P!Enter, P!Goto
<1>3. flights' \in [P!FlightKeys -> Flights]
  BY DEF P!Enter, PullType, Flights
<1>4. EntersFlight(p, step)
  BY <1>1, <1>2 DEF EntersFlight
<1> QED  BY <1>3, <1>4

\* A pull enters its own flight.
LEMMA EnterStep ==
  ASSUME P!PullAssumption, PullInv, NEW p \in Pulls, pull[p].at # "idle", Outside(pull[p]),
         NEW step \in {"discover", "walk"},
         IF step = "discover" THEN pull[p].kind \in P!ImageKinds ELSE pull[p].kind \in P!IndexKinds,
         P!Enter(p, Of(pull[p]), step),
         UNCHANGED <<config, locked, remote, breaker, token, repo, manifests, pullHistory>>
  PROVE  PullInv'
<1> DEFINE k == Of(pull[p])
<1>1. pull[p].kind \in Kinds /\ k \in P!FlightKeys
  BY OfKey DEF Kinds
<1>a. step \in {"discover", "probe", "walk"} /\ PullType /\ P!Enter(p, k, step)
  BY DEF PullInv
<1>b. flights' \in [P!FlightKeys -> Flights] /\ EntersFlight(p, step)
  <2> HIDE DEF k
  <2> QED  BY <1>1, <1>a, EnterFacts
<1>2. PICK s \in {"wait", step} : /\ pull' = [pull EXCEPT ![p] = [pull[p] EXCEPT !.at = s]]
                                  /\ [pull[p] EXCEPT !.at = s] \in PullStates
                                  /\ [pull[p] EXCEPT !.at = s].at = s
                                  /\ [pull[p] EXCEPT !.at = s].kind = pull[p].kind
                                  /\ [pull[p] EXCEPT !.at = s].base = pull[p].base
                                  /\ [pull[p] EXCEPT !.at = s].outcome = pull[p].outcome
  BY <1>b DEF EntersFlight
<1>3. Remembers
  BY QuietFacts DEF PullInv
<1>4. PullType'
  <2>1. flights' \in [P!FlightKeys -> Flights] /\ pull' \in [Pulls -> PullStates]
    BY <1>b, <1>2 DEF PullInv, PullType
  <2> QED  BY <2>1 DEF PullInv, PullType
<1>5. FlightInv'
  <2>1. Leads([pull[p] EXCEPT !.at = step])
    <3>1. pull[p] \in PullStates
      BY DEF PullInv, PullType
    <3>2. [pull[p] EXCEPT !.at = step].at = step /\ [pull[p] EXCEPT !.at = step].kind = pull[p].kind
      BY <3>1 DEF PullStates
    <3> QED  BY <3>2 DEF Leads, TokenSteps, IndexSteps
  <2> QED  BY <1>1, <2>1, EnterMove DEF PullInv
<1>6. Serving' /\ Marking'
  <2> DEFINE x == [pull[p] EXCEPT !.at = s]
  <2>1. /\ x \in PullStates /\ pull' = [pull EXCEPT ![p] = x] /\ x.at = s
        /\ x.kind = pull[p].kind /\ x.base = pull[p].base /\ x.outcome = pull[p].outcome
    BY <1>2
  <2> HIDE DEF x
  <2>2. Cleared(x, config, token', repo')
    BY <2>1 DEF Cleared
  <2>3. pull[p].kind \in P!IndexKinds => pull[p].at = "coalesce"
    BY DEF Outside, P!ImageKinds, P!IndexKinds
  <2>4. Good(pull[p], locked) => Good(x, locked)
    BY <2>1, <2>3 DEF Good
  <2>5. /\ Faultless' => breaker' = AllClosed /\ Good(x, locked)
        /\ Watched' => (manifests' # {} => repo'.private)
    BY <1>3, <2>4, Before
  <2> QED  BY <1>3, <2>1, <2>2, <2>5, PlainStep
<1> QED  BY <1>4, <1>5, <1>6 DEF PullInv

\* addAuth: a token that is used again was got with credentials.
LEMMA AddAuthStep ==
  ASSUME P!PullAssumption, PullInv, NEW p \in Pulls, P!AddAuth(p) PROVE PullInv'
<1>1. /\ UNCHANGED <<config, locked, remote, breaker, token, repo, manifests, pullHistory>>
      /\ pull[p].at = "auth"
  BY DEF P!AddAuth, P!given, P!stored
<1>2. pull[p].kind \in P!ImageKinds /\ Outside(pull[p]) /\ pull[p].at # "idle"
  BY <1>1, ImageAt DEF ImageSteps, IndexSteps
<1>3. Remembers /\ pullHistory' \in HistoryType /\ token' \in TokenType /\ repo' \in RepoType
  BY <1>1, QuietFacts, Unmoved DEF PullInv
<1>4. CASE config.auth = "token" /\ ~P!Usable(p) /\ P!Enter(p, P!TokenFlight(p), "discover")
  <2>1. P!TokenFlight(p) = Of(pull[p])
    BY <1>2 DEF P!TokenFlight, Of
  <2> QED  BY <1>1, <1>2, <1>4, <2>1, EnterStep
<1>5. ASSUME config.auth # "token" \/ P!Usable(p), UNCHANGED flights,
             pull' = [pull EXCEPT ![p].at = "send", ![p].trusted =
               IF config.auth = "token" THEN P!Trusted(token.credentialsUsed)
               ELSE config.auth = "basic" /\ config.username]
      PROVE  PullInv'
  <2> DEFINE v == IF config.auth = "token" THEN P!Trusted(token.credentialsUsed)
                  ELSE config.auth = "basic" /\ config.username
             x == [pull[p] EXCEPT !.at = "send", !.trusted = v]
  <2>1. v \in BOOLEAN /\ pull[p] \in PullStates
    BY DEF P!Trusted, PullInv, PullType
  <2>2. v => Secret(config, token)
    BY DEF P!Trusted, Secret
  <2>3. Faultless' /\ locked /\ pull[p].retried => v
    <3>1. SUFFICES ASSUME Faultless', locked, pull[p].retried PROVE v
      OBVIOUS
    <3>2. config.username /\ config.auth # "none"
      BY <1>3, <3>1, Before DEF Faultless
    <3>3. config.auth \in {"token", "basic", "none"}
      BY DEF PullInv, PullType
    <3>4. config.auth = "token" => token.credentialsUsed
      BY <1>5, <3>1 DEF P!Usable
    <3> QED  BY <3>2, <3>3, <3>4 DEF P!Trusted
  <2>4. pull' = [pull EXCEPT ![p] = x]
    BY <1>5
  <2> HIDE DEF v
  <2>5. /\ x \in PullStates /\ x.kind = pull[p].kind /\ x.at = "send"
        /\ x.outcome = pull[p].outcome
    BY <2>1 DEF PullStates, ImageSteps
  <2>6. x.trusted = v
    BY <2>1 DEF PullStates
  <2>7. x.retried = pull[p].retried
    BY <2>1 DEF PullStates
  <2> HIDE DEF x
  <2>8. Outside(x) /\ Cleared(x, config, token, repo)
    BY <1>2, <2>2, <2>5, <2>6 DEF Outside, ImageSteps, Cleared
  <2>9. Faultless' => Good(x, locked)
    <3>1. x.kind \notin P!IndexKinds
      BY <1>2, <2>5 DEF P!ImageKinds, P!IndexKinds
    <3>2. Faultless' => x.outcome \in {"none", "served"}
      BY <1>3, <2>5, Before DEF Good
    <3> QED  BY <2>3, <2>5, <2>6, <2>7, <3>1, <3>2 DEF Good
  <2>10. /\ Faultless' => breaker' = AllClosed
         /\ Watched' => (manifests' # {} => repo'.private)
    BY <1>1, <1>3, Before
  <2>11. Cleared(x, config, token', repo')
    BY <1>1, <2>8
  <2> QED  BY <1>1, <1>2, <1>3, <1>5, <2>4, <2>5, <2>8, <2>9, <2>10, <2>11, FreeStep
<1> QED  BY <1>4, <1>5 DEF P!AddAuth

\* discoverChallenge: the challenge is known, or a second flight is entered.
LEMMA DiscoverChallengeStep ==
  ASSUME P!PullAssumption, PullInv, NEW p \in Pulls, P!DiscoverChallenge(p) PROVE PullInv'
<1>1. /\ UNCHANGED <<config, locked, remote, breaker, token, repo, manifests, pullHistory>>
      /\ pull[p].at = "discover"
  BY DEF P!DiscoverChallenge, P!given, P!stored
<1>2. pull[p].kind \in P!ImageKinds /\ Leads(pull[p])
  BY <1>1, TokenAt DEF TokenSteps
<1>3. Remembers /\ pullHistory' \in HistoryType
  BY <1>1, QuietFacts DEF PullInv
<1>4. /\ Faultless' => breaker' = AllClosed /\ Good(pull[p], locked)
      /\ Watched' => (manifests' # {} => repo'.private)
  BY <1>1, <1>3, Before
<1>5. pull[p] \in PullStates
  BY DEF PullInv, PullType
<1>6. CASE P!Goto(p, "exchange") /\ UNCHANGED flights
  <2> DEFINE x == [pull[p] EXCEPT !.at = "exchange"]
  <2>1. /\ x \in PullStates /\ pull' = [pull EXCEPT ![p] = x]
        /\ x.kind = pull[p].kind /\ x.at = "exchange" /\ x.outcome = pull[p].outcome
    BY <1>5, <1>6 DEF P!Goto, PullStates, TokenSteps
  <2>2. x.retried = pull[p].retried
    BY <1>5 DEF PullStates
  <2> HIDE DEF x
  <2>3. Leads(x) /\ Of(x) = Of(pull[p]) /\ Cleared(x, config, token, repo)
    BY <1>2, <2>1, <2>2 DEF Leads, TokenSteps, Of, Cleared
  <2>4. Good(pull[p], locked) => Good(x, locked)
    BY <1>2, <2>1 DEF Good, P!ImageKinds, P!IndexKinds
  <2> QED  BY <1>1, <1>2, <1>3, <1>4, <1>6, <2>1, <2>3, <2>4, LeadStep
<1>7. CASE P!Enter(p, "discover", "probe")
  <2>1. "discover" \in P!FlightKeys
    BY DEF P!FlightKeys
  <2>2. PICK s \in {"wait", "probe"} : /\ pull' = [pull EXCEPT ![p] = [pull[p] EXCEPT !.at = s]]
                                       /\ [pull[p] EXCEPT !.at = s] \in PullStates
                                       /\ [pull[p] EXCEPT !.at = s].at = s
                                       /\ [pull[p] EXCEPT !.at = s].kind = pull[p].kind
                                       /\ [pull[p] EXCEPT !.at = s].base = pull[p].base
                                       /\ [pull[p] EXCEPT !.at = s].outcome = pull[p].outcome
    BY <1>7, <2>1, EnterFacts DEF PullInv, EntersFlight
  <2> DEFINE x == [pull[p] EXCEPT !.at = s]
  <2>3. PullType'
    <3>1. flights' \in [P!FlightKeys -> Flights] /\ pull' \in [Pulls -> PullStates]
      BY <1>7, <2>1, <2>2, EnterFacts DEF PullInv, PullType
    <3> QED  BY <1>1, <3>1 DEF PullInv, PullType
  <2>4. FlightInv'
    BY <1>1, <1>2, <1>7, DiscoverMove DEF PullInv
  <2>5. /\ x \in PullStates /\ pull' = [pull EXCEPT ![p] = x] /\ x.at = s
        /\ x.kind = pull[p].kind /\ x.outcome = pull[p].outcome
    BY <2>2
  <2> HIDE DEF x
  <2>6. Cleared(x, config, token', repo')
    BY <2>5 DEF Cleared
  <2>7. Good(pull[p], locked) => Good(x, locked)
    BY <1>2, <2>5 DEF Good, P!ImageKinds, P!IndexKinds
  <2>8. pull[p].at # "idle"
    BY <1>1
  <2>9. Serving' /\ Marking'
    BY <1>3, <1>4, <2>5, <2>6, <2>7, <2>8, PlainStep
  <2> QED  BY <2>3, <2>4, <2>9 DEF PullInv
<1> QED  BY <1>6, <1>7 DEF P!DiscoverChallenge

\* The probe: all that waited for it go on with their own flights.
LEMMA ProbeStep ==
  ASSUME P!PullAssumption, PullInv, NEW p \in Pulls, P!Probe(p) PROVE PullInv'
<1> DEFINE d == "discover"
           In(q) == q = p \/ q \in flights[d].waiters
<1>1. /\ UNCHANGED <<config, locked, remote, breaker, token, repo, manifests>>
      /\ pull[p].at = "probe" /\ P!Land("discover")
  BY DEF P!Probe, P!given, P!stored
<1>2. d \in P!FlightKeys /\ flights[d].leader = p /\ PullType /\ FlightInv
  BY <1>1 DEF PullInv, FlightInv, Led, P!FlightKeys
<1>3. PICK s \in {"exchange", "undiscovered"} :
        /\ pull' = [q \in Pulls |-> IF q = flights[d].leader \/ q \in flights[d].waiters
                                    THEN [pull[q] EXCEPT !.at = s] ELSE pull[q]]
        /\ IF s = "exchange" THEN P!NoFault ELSE P!Fault
  <2>1. CASE P!NoFault /\ pull' = P!Landed("discover", LAMBDA r : [r EXCEPT !.at = "exchange"])
    BY <2>1 DEF P!Landed
  <2>2. CASE P!Fault /\ pull' = P!Landed("discover", LAMBDA r : [r EXCEPT !.at = "undiscovered"])
    BY <2>2 DEF P!Landed
  <2> QED  BY <2>1, <2>2 DEF P!Probe
<1>4. Remembers /\ pullHistory' \in HistoryType /\ (Faultless' => s = "exchange")
  <2>1. CASE s = "exchange"
    <3>1. UNCHANGED pullHistory
      BY <1>3, <2>1 DEF P!NoFault
    <3> QED  BY <1>1, <1>2, <2>1, <3>1, QuietFacts
  <2>2. CASE s = "undiscovered"
    BY <1>1, <1>2, <1>3, <2>2, FaultFacts
  <2> QED  BY <2>1, <2>2
<1> DEFINE g == [q \in Pulls |-> [pull[q] EXCEPT !.at = s]]
<1>5. /\ g \in [Pulls -> PullStates]
      /\ \A q \in Pulls : /\ g[q].at = s /\ g[q].kind = pull[q].kind
                          /\ g[q].outcome = pull[q].outcome
  BY <1>2 DEF PullType, PullStates, TokenSteps
<1>6. pull' = [q \in Pulls |-> IF q = p \/ q \in flights[d].waiters THEN g[q] ELSE pull[q]]
  BY <1>2, <1>3
<1> HIDE DEF g
<1>7. PullType'
  <2>1. pull' \in [Pulls -> PullStates] /\ flights' \in [P!FlightKeys -> Flights]
    BY <1>1, <1>2, <1>5, <1>6 DEF PullType, P!Land, P!NoFlight, Flights
  <2> QED  BY <1>1, <1>2, <1>4, <2>1 DEF PullType, HistoryType
<1>8. FlightInv'
  BY <1>1, <1>2, <1>3, ProbeMove
<1>9. \A q \in Pulls : In(q) => pull[q].kind \in P!ImageKinds
  <2>1. pull[p].kind \in P!ImageKinds
    BY <1>1, TokenAt DEF TokenSteps
  <2> QED  BY <1>2, <2>1, WaiterFacts
<1>10. \A q \in Pulls : In(q) => Cleared(g[q], config, token', repo')
  BY <1>5 DEF Cleared
<1>11. Faultless' => /\ breaker' = AllClosed
                     /\ \A q \in Pulls : In(q) => Good(g[q], locked)
  <2>1. \A q \in Pulls : In(q) /\ s = "exchange" /\ Good(pull[q], locked) => Good(g[q], locked)
    BY <1>5, <1>9 DEF Good, P!ImageKinds, P!IndexKinds
  <2> QED  BY <1>1, <1>4, <2>1, Before
<1>12. Watched' => (manifests' # {} => repo'.private)
  BY <1>1, <1>4, Before
<1>13. pull[p].at # "idle"
  BY <1>1
<1>14. Serving' /\ Marking'
  <2> HIDE DEF d
  <2> QED  BY <1>2, <1>4, <1>5, <1>6, <1>10, <1>11, <1>12, <1>13, LandStep
<1> QED  BY <1>7, <1>8, <1>14 DEF PullInv

\* The flight of a token.
LEMMA TokenFlightFacts ==
  ASSUME NEW p \in Pulls, pull[p].kind \in P!ImageKinds
  PROVE  P!TokenFlight(p) = Of(pull[p])
BY DEF P!TokenFlight, Of

\* A failure for everybody in the flight.
LEMMA FailedStep ==
  ASSUME P!PullAssumption, PullInv, NEW p \in Pulls, Leads(pull[p]), pull[p].at # "probe",
         P!Land(Of(pull[p])), NEW o \in {"served", "failed", "absent"},
         pull' = P!Landed(Of(pull[p]), LAMBDA r : P!Answered(o)),
         UNCHANGED <<remote, repo, manifests>>,
         token' \in TokenType, pullHistory' \in HistoryType, Remembers,
         Faultless' => breaker' = AllClosed /\ o = "served"
  PROVE  PullInv'
<1> DEFINE g == [q \in Pulls |-> P!Answered(o)]
<1>1. /\ g \in [Pulls -> PullStates]
      /\ \A q \in Pulls : /\ Outside(g[q]) /\ g[q].kind = "none" /\ g[q].at = "idle"
                          /\ g[q].outcome = o
  BY AnsweredFacts
<1>2. pull' = [q \in Pulls |-> IF \/ q = flights[Of(pull[p])].leader
                                  \/ q \in flights[Of(pull[p])].waiters
                               THEN g[q] ELSE pull[q]]
  BY DEF P!Landed
<1> HIDE DEF g
<1>3. \A q \in Pulls : Cleared(g[q], config, token', repo') /\ (o = "served" => Good(g[q], locked))
  BY <1>1, IdleFacts
<1> QED  BY <1>1, <1>2, <1>3, LandedStep

\* Without a challenge the flight of the token fails.
LEMMA UndiscoveredStep ==
  ASSUME P!PullAssumption, PullInv, NEW p \in Pulls, P!Undiscovered(p) PROVE PullInv'
<1>1. /\ UNCHANGED <<config, locked, remote, token, repo, manifests, pullHistory>>
      /\ pull[p].at = "undiscovered"
      /\ P!Land(P!TokenFlight(p))
      /\ pull' = P!Landed(P!TokenFlight(p), LAMBDA r : P!Answered("failed"))
  BY DEF P!Undiscovered, P!given, P!stored
<1>2. pull[p].kind \in P!ImageKinds /\ Leads(pull[p])
  BY <1>1, TokenAt DEF TokenSteps
<1>3. Remembers /\ pullHistory' \in HistoryType /\ token' \in TokenType
  BY <1>1, QuietFacts, Unmoved DEF PullInv
<1>4. ~Faultless'
  BY <1>1, <1>3, Before DEF Good
<1>5. P!TokenFlight(p) = Of(pull[p])
  BY <1>2, TokenFlightFacts
<1>6. pull' = P!Landed(Of(pull[p]), LAMBDA r : P!Answered("failed"))
  BY <1>1, <1>5
<1> QED  BY <1>1, <1>2, <1>3, <1>4, <1>5, <1>6, FailedStep

\* fetchToken: those that share a token all want credentials or all do not.
LEMMA FetchTokenStep ==
  ASSUME P!PullAssumption, PullInv, NEW p \in Pulls, P!FetchToken(p) PROVE PullInv'
<1> DEFINE k == Of(pull[p])
           In(q) == q = p \/ q \in flights[k].waiters
<1>1. /\ UNCHANGED <<config, locked, remote, breaker, repo, manifests>>
      /\ pull[p].at = "exchange" /\ P!Land(P!TokenFlight(p))
  BY DEF P!FetchToken, P!given, P!stored
<1>2. pull[p].kind \in P!ImageKinds /\ Leads(pull[p]) /\ P!TokenFlight(p) = k
  BY <1>1, TokenAt, TokenFlightFacts DEF TokenSteps
<1>3. repo' \in RepoType /\ pull[p] \in PullStates
  BY <1>1, Unmoved DEF PullInv, PullType
<1>4. CASE /\ P!Fault /\ UNCHANGED token
           /\ pull' = P!Landed(P!TokenFlight(p), LAMBDA r : P!Answered("failed"))
  <2>1. Remembers /\ pullHistory' \in HistoryType /\ token' \in TokenType /\ ~Faultless'
    BY <1>1, <1>4, FaultFacts, Unmoved DEF PullInv
  <2>2. pull' = P!Landed(Of(pull[p]), LAMBDA r : P!Answered("failed"))
    BY <1>2, <1>4
  <2> QED  BY <1>1, <1>2, <2>1, <2>2, FailedStep
<1>5. ASSUME P!NoFault,
             token' = [known |-> TRUE, credentialsUsed |-> pull[p].retried, fresh |-> TRUE],
             pull' = P!Landed(P!TokenFlight(p), LAMBDA r :
               [r EXCEPT !.at = "send", !.trusted = P!Trusted(pull[p].retried)])
      PROVE  PullInv'
  <2>1. UNCHANGED pullHistory
    BY <1>5 DEF P!NoFault
  <2>2. Remembers /\ pullHistory' \in HistoryType
    BY <1>1, <2>1, QuietFacts DEF PullInv
  <2>3. token' \in TokenType /\ P!Trusted(pull[p].retried) \in BOOLEAN
    BY <1>3, <1>5 DEF TokenType, PullStates, P!Trusted, PullInv, PullType
  <2> DEFINE v == P!Trusted(pull[p].retried)
             f == [q \in Pulls |-> [pull[q] EXCEPT !.at = "send", !.trusted = v]]
             g == [q \in Pulls |-> IF q = flights[k].leader \/ q \in flights[k].waiters
                                   THEN f[q] ELSE P!Answered("none")]
  <2>4. pull' = [q \in Pulls |-> IF q = flights[k].leader \/ q \in flights[k].waiters
                                 THEN g[q] ELSE pull[q]]
    BY <1>2, <1>5 DEF P!Landed
  <2>5. /\ Faultless' => breaker' = AllClosed /\ \A q \in Pulls : Good(pull[q], locked)
        /\ Watched' => (manifests' # {} => repo'.private)
    BY <1>1, <2>2, Before
  <2>6. v \in BOOLEAN /\ \A q \in Pulls : pull[q] \in PullStates
    BY <2>3 DEF PullInv, PullType
  <2>7. v => Secret(config, token')
    BY <1>5 DEF P!Trusted, Secret
  <2>8. Faultless' /\ locked /\ pull[p].retried => v
    BY <2>2, Before DEF Faultless, P!Trusted
  <2> HIDE DEF v
  <2>9. \A q \in Pulls : /\ f[q] \in PullStates /\ f[q].at = "send" /\ f[q].kind = pull[q].kind
                         /\ f[q].outcome = pull[q].outcome
    BY <2>6 DEF PullStates, ImageSteps
  <2>10. \A q \in Pulls : f[q].trusted = v
    BY <2>6 DEF PullStates
  <2>11. \A q \in Pulls : f[q].retried = pull[q].retried
    BY <2>6 DEF PullStates
  <2> HIDE DEF f
  <2>12. g \in [Pulls -> PullStates]
    BY <2>9, AnsweredFacts
  <2>13. k \in P!FlightKeys /\ k # "discover" /\ flights[k].leader = p
    BY <1>2, OfKey DEF Kinds, PullInv, FlightInv, Led
  <2>14. \A q \in Pulls : In(q) => /\ pull[q].kind \in P!ImageKinds
                                   /\ pull[q].retried <=> pull[p].retried
    <3>1. SUFFICES ASSUME NEW q \in Pulls, q \in flights[k].waiters
                   PROVE  /\ pull[q].kind \in P!ImageKinds
                          /\ pull[q].retried <=> pull[p].retried
      BY <1>2
    <3>2. Waits(pull[q]) /\ Of(pull[q]) = Of(pull[p])
      BY <2>13, <3>1, WaiterFacts DEF PullInv
    <3>3. pull[q].kind \in P!ImageKinds
      BY <1>2, <3>2 DEF Waits, Of, Kinds, P!ImageKinds, P!IndexKinds
    <3> QED  BY <1>2, <3>2, <3>3 DEF Of
  <2>15. \A q \in Pulls : Outside(g[q])
    <3>1. \A q \in Pulls : In(q) => Outside(f[q])
      BY <2>9, <2>14 DEF Outside, ImageSteps
    <3> QED  BY <2>13, <3>1, AnsweredFacts
  <2>16. \A q \in Pulls : In(q) => g[q] = f[q]
    BY <2>13
  <2>17. Cleared(g[p], config, token', repo')
    BY <2>7, <2>9, <2>10, <2>16 DEF Cleared
  <2>18. Faultless' => \A q \in Pulls : In(q) => Good(g[q], locked)
    <3>1. SUFFICES ASSUME Faultless', NEW q \in Pulls, In(q) PROVE Good(f[q], locked)
      BY <2>16
    <3>2. f[q].kind \in P!ImageKinds /\ f[q].kind \notin P!IndexKinds /\ f[q].at = "send"
      BY <2>9, <2>14, <3>1 DEF P!ImageKinds, P!IndexKinds
    <3>3. f[q].outcome \in {"none", "served"}
      BY <2>5, <2>9, <3>1 DEF Good
    <3>4. f[q].retried /\ locked => f[q].trusted
      BY <2>8, <2>10, <2>11, <2>14, <3>1
    <3> QED  BY <3>2, <3>3, <3>4 DEF Good
  <2> HIDE DEF g
  <2>19. P!Land(Of(pull[p])) /\ pull[p].at # "probe"
    BY <1>1, <1>2
  <2> QED  BY <1>1, <1>2, <2>2, <2>3, <2>4, <2>5, <2>12, <2>15, <2>17, <2>18, <2>19, LandedStep
<1> QED  BY <1>4, <1>5 DEF P!FetchToken

\* No answer, or 5xx.
LEMMA SendFailsStep ==
  ASSUME P!PullAssumption, PullInv, NEW p \in Pulls, P!SendFails(p) PROVE PullInv'
<1>1. /\ UNCHANGED <<config, locked, remote, token, flights, repo, manifests>>
      /\ pull[p].at = "send" /\ pull[p].kind \in P!ImageKinds /\ P!Fault /\ P!Return(p, "failed")
  BY DEF P!SendFails, P!given, P!stored
<1>2. Remembers /\ pullHistory' \in HistoryType /\ token' \in TokenType /\ repo' \in RepoType
      /\ ~Faultless'
  BY <1>1, FaultFacts, Unmoved DEF PullInv
<1>3. Watched' => (manifests' # {} => repo'.private)
  BY <1>1, <1>2, Before
<1>4. Outside(pull[p]) /\ pull[p].at # "idle"
  BY <1>1 DEF Outside, ImageSteps
<1> QED  BY <1>1, <1>2, <1>3, <1>4, PullReturns

\* 401: with credentials it needs a fault; without, the pull asks again.
LEMMA UnauthorizedStep ==
  ASSUME P!PullAssumption, PullInv, NEW p \in Pulls, P!Unauthorized(p) PROVE PullInv'
<1>1. /\ UNCHANGED <<config, locked, remote, breaker, flights, repo, manifests>>
      /\ pull[p].at = "send" /\ pull[p].kind \in P!ImageKinds
      /\ IF P!Accepted(p) THEN P!Fault ELSE P!NoFault
  BY DEF P!Unauthorized, P!given, P!stored
<1>2. Outside(pull[p]) /\ pull[p].at # "idle" /\ pull[p].at \in ImageSteps /\ pull[p] \in PullStates
  BY <1>1 DEF Outside, ImageSteps, PullInv, PullType
<1>3. Remembers /\ pullHistory' \in HistoryType /\ (Faultless' => ~P!Accepted(p))
  <2>1. CASE P!Fault
    BY <1>1, <2>1, FaultFacts DEF PullInv
  <2>2. CASE P!NoFault
    BY <1>1, <2>2, FaultFacts, QuietFacts DEF PullInv, P!NoFault
  <2> QED  BY <1>1, <2>1, <2>2
<1>4. repo' \in RepoType
  BY <1>1, Unmoved
<1>5. /\ Faultless' => breaker' = AllClosed /\ Good(pull[p], locked)
      /\ Watched' => (manifests' # {} => repo'.private)
  BY <1>1, <1>3, Before
<1>6. CASE pull[p].retried
  <2>1. P!Return(p, "failed") /\ UNCHANGED token
    BY <1>6 DEF P!Unauthorized
  <2>2. ~Faultless'
    BY <1>1, <1>3, <1>5, <1>6 DEF Good, P!Accepted
  <2>3. token' \in TokenType
    BY <2>1, Unmoved
  <2> QED  BY <1>1, <1>2, <1>3, <1>4, <1>5, <2>1, <2>2, <2>3, PullReturns
<1>7. CASE ~pull[p].retried
  <2>1. /\ token' = P!NoToken
        /\ pull' = [pull EXCEPT ![p].at = "circuit", ![p].retried = TRUE]
    BY <1>7 DEF P!Unauthorized
  <2> DEFINE x == [pull[p] EXCEPT !.at = "circuit", !.retried = TRUE]
  <2>2. /\ x \in PullStates /\ pull' = [pull EXCEPT ![p] = x]
        /\ x.kind = pull[p].kind /\ x.at = "circuit" /\ x.outcome = pull[p].outcome
    BY <1>2, <2>1 DEF PullStates, ImageSteps
  <2> HIDE DEF x
  <2>3. Outside(x) /\ Cleared(x, config, token', repo')
    BY <1>1, <2>2 DEF Outside, ImageSteps, Cleared
  <2>4. Good(pull[p], locked) => Good(x, locked)
    BY <1>1, <2>2 DEF Good, P!ImageKinds, P!IndexKinds
  <2>5. token' \in TokenType
    BY <2>1 DEF P!NoToken, TokenType
  <2> QED  BY <1>1, <1>2, <1>3, <1>4, <1>5, <2>2, <2>3, <2>4, <2>5, FreeStep
<1> QED  BY <1>6, <1>7

\* 200: of a locked repository it needs credentials.
LEMMA SendSucceedsStep ==
  ASSUME P!PullAssumption, PullInv, NEW p \in Pulls, P!SendSucceeds(p) PROVE PullInv'
<1>1. /\ UNCHANGED <<config, locked, remote, token, flights, repo, manifests>>
      /\ pull[p].at = "send" /\ pull[p].kind \in P!ImageKinds
      /\ P!Accepted(p) /\ P!RecordSuccess("registry")
  BY DEF P!SendSucceeds, P!given, P!stored
<1>2. PICK d \in Digests :
        /\ pull' = [pull EXCEPT ![p].at = "verify", ![p].got = d]
        /\ IF d = IF pull[p].kind = "tag" THEN remote ELSE pull[p].want
           THEN P!NoFault ELSE P!Fault
  BY DEF P!SendSucceeds
<1>3. /\ Remembers /\ pullHistory' \in HistoryType
      /\ Faultless' => (pull[p].kind # "tag" => d = pull[p].want)
  <2>1. CASE P!Fault
    BY <1>1, <2>1, FaultFacts DEF PullInv
  <2>2. CASE P!NoFault /\ d = IF pull[p].kind = "tag" THEN remote ELSE pull[p].want
    BY <1>1, <2>2, QuietFacts DEF PullInv, P!NoFault
  <2> QED  BY <1>2, <2>1, <2>2
<1>4. Outside(pull[p]) /\ pull[p].at # "idle" /\ pull[p] \in PullStates
  BY <1>1 DEF Outside, ImageSteps, PullInv, PullType
<1> DEFINE x == [pull[p] EXCEPT !.at = "verify", !.got = d]
<1>5. /\ x \in PullStates /\ pull' = [pull EXCEPT ![p] = x]
      /\ x.kind = pull[p].kind /\ x.at = "verify" /\ x.outcome = pull[p].outcome
      /\ x.got = d /\ x.want = pull[p].want
  BY <1>2, <1>4 DEF PullStates, ImageSteps
<1> HIDE DEF x
<1>6. Outside(x)
  BY <1>1, <1>5 DEF Outside, ImageSteps
<1>7. token' \in TokenType /\ repo' \in RepoType
  BY <1>1, Unmoved
<1>8. Faultless' => breaker' = AllClosed
  <2>1. "registry" \in P!Breakers
    BY DEF P!Breakers
  <2> QED  BY <1>1, <1>3, <2>1, Before, ClosedFacts
<1>9. Faultless' => Good(x, locked)
  <2>1. x.kind \notin P!IndexKinds
    BY <1>1, <1>5 DEF P!ImageKinds, P!IndexKinds
  <2>2. Faultless' => x.outcome \in {"none", "served"}
    BY <1>3, <1>5, Before DEF Good
  <2> QED  BY <1>3, <1>5, <2>1, <2>2 DEF Good
<1>10. Watched' => /\ Cleared(x, config, token', repo')
                   /\ manifests' # {} => repo'.private
  <2>1. Watched' => Secret(config, token)
    BY <1>1, <1>3, Before DEF Watched, P!Accepted, Cleared
  <2>2. Watched' => (manifests' # {} => repo'.private)
    BY <1>1, <1>3, Before
  <2> QED  BY <1>1, <1>5, <2>1, <2>2 DEF Cleared
<1> QED  BY <1>1, <1>3, <1>4, <1>5, <1>6, <1>7, <1>8, <1>9, <1>10, FreeStep

\* What came is what was asked for, but for a fault.
LEMMA VerifyStep ==
  ASSUME P!PullAssumption, PullInv, NEW p \in Pulls, P!Verify(p) PROVE PullInv'
<1>1. /\ UNCHANGED <<config, locked, remote, breaker, token, flights, repo, manifests, pullHistory>>
      /\ pull[p].at = "verify"
      /\ \/ pull[p].kind # "tag" /\ pull[p].got # pull[p].want /\ P!Return(p, "failed")
         \/ P!Goto(p, "putBlob") \/ P!Goto(p, "repository")
  BY DEF P!Verify, P!given, P!fetcher
<1>2. Remembers /\ pullHistory' \in HistoryType /\ token' \in TokenType /\ repo' \in RepoType
  BY <1>1, QuietFacts, Unmoved DEF PullInv
<1>3. /\ Faultless' => breaker' = AllClosed /\ Good(pull[p], locked)
      /\ Watched' => /\ Cleared(pull[p], config, token, repo)
                     /\ manifests' # {} => repo'.private
  BY <1>1, <1>2, Before
<1>4. pull[p].kind \in P!ImageKinds /\ Outside(pull[p]) /\ pull[p].at # "idle" /\ pull[p].at \in ImageSteps
  BY <1>1, ImageAt DEF ImageSteps, IndexSteps
<1>5. CASE pull[p].kind # "tag" /\ pull[p].got # pull[p].want /\ P!Return(p, "failed")
  <2>1. ~Faultless'
    BY <1>1, <1>3, <1>5 DEF Good
  <2> QED  BY <1>1, <1>2, <1>3, <1>4, <1>5, <2>1, PullReturns
<1>6. CASE P!Goto(p, "putBlob") \/ P!Goto(p, "repository")
  <2>1. Watched' => Secret(config, token')
    BY <1>1, <1>3, <1>4 DEF Cleared
  <2> QED  BY <1>1, <1>2, <1>3, <1>4, <1>6, <2>1, PullGoesOn DEF ImageSteps
<1> QED  BY <1>1, <1>5, <1>6

\* PutBlob.
LEMMA PutBlobStep ==
  ASSUME P!PullAssumption, PullInv, NEW p \in Pulls, P!PutBlob(p) PROVE PullInv'
<1>1. /\ UNCHANGED <<config, locked, remote, breaker, token, flights, repo, manifests>>
      /\ pull[p].at = "putBlob" /\ P!Goto(p, "repository")
  BY DEF P!PutBlob, P!given, P!fetcher
<1>2. Remembers /\ pullHistory' \in HistoryType
  BY <1>1, FaultFacts, QuietFacts DEF P!PutBlob, PullInv, P!NoFault
<1>3. token' \in TokenType /\ repo' \in RepoType
  BY <1>1, Unmoved
<1>4. pull[p].kind \in P!ImageKinds /\ pull[p].at \in ImageSteps
  BY <1>1, ImageAt DEF ImageSteps, IndexSteps
<1>5. Watched' => /\ Cleared(pull[p], config, token, repo)
                  /\ manifests' # {} => repo'.private
  BY <1>1, <1>2, Before
<1>6. Watched' => Secret(config, token')
  BY <1>1, <1>4, <1>5 DEF Cleared
<1>7. Faultless' => breaker' = AllClosed
  BY <1>1, <1>2, Before
<1> QED  BY <1>1, <1>2, <1>3, <1>4, <1>5, <1>6, <1>7, PullGoesOn DEF ImageSteps

\* GetOrCreateRepository leaves the mark alone.
LEMMA GetOrCreateRepositoryStep ==
  ASSUME P!PullAssumption, PullInv, NEW p \in Pulls, P!GetOrCreateRepository(p) PROVE PullInv'
<1>1. /\ UNCHANGED <<config, locked, remote, breaker, token, flights, manifests>>
      /\ pull[p].at = "repository"
  BY DEF P!GetOrCreateRepository, P!given, P!fetcher
<1>2. token' \in TokenType
  BY <1>1, Unmoved
<1>3. pull[p].kind \in P!ImageKinds /\ Outside(pull[p]) /\ pull[p].at # "idle" /\ pull[p].at \in ImageSteps
  BY <1>1, ImageAt DEF ImageSteps, IndexSteps
<1>4. CASE P!NoFault /\ repo' = [repo EXCEPT !.exists = TRUE] /\ P!Goto(p, "classify")
  <2>1. Remembers /\ pullHistory' \in HistoryType
    BY <1>1, <1>4, QuietFacts DEF PullInv, P!NoFault
  <2>2. repo' \in RepoType
    BY <1>4 DEF PullInv, PullType, RepoType
  <2>3. repo'.private = repo.private
    BY <1>4 DEF PullInv, PullType
  <2>4. /\ Faultless' => breaker' = AllClosed
        /\ Watched' => /\ Cleared(pull[p], config, token, repo)
                       /\ manifests' # {} => repo'.private
    BY <1>1, <2>1, <2>3, Before
  <2>5. Watched' => Secret(config, token')
    BY <1>1, <1>3, <2>4 DEF Cleared
  <2> QED  BY <1>1, <1>2, <1>3, <1>4, <2>1, <2>2, <2>4, <2>5, PullGoesOn DEF ImageSteps
<1>5. CASE P!Fault /\ UNCHANGED repo /\ P!Return(p, IF pull[p].kind = "blob" THEN "served" ELSE "failed")
  <2>1. Remembers /\ pullHistory' \in HistoryType /\ ~Faultless' /\ repo' \in RepoType
    BY <1>1, <1>5, FaultFacts, Unmoved DEF PullInv
  <2>2. Watched' => (manifests' # {} => repo'.private)
    BY <1>1, <1>5, <2>1, Before
  <2>3. P!Return(p, "served") \/ P!Return(p, "failed")
    BY <1>5
  <2> QED  BY <1>1, <1>2, <1>3, <1>5, <2>1, <2>2, <2>3, PullReturns
<1> QED  BY <1>4, <1>5 DEF P!GetOrCreateRepository

\* IsRepoPrivate.
LEMMA ClassifyStep ==
  ASSUME P!PullAssumption, PullInv, NEW p \in Pulls, P!Classify(p) PROVE PullInv'
<1> DEFINE v == P!IsRepoPrivate
           x == [pull[p] EXCEPT !.private = v, !.at = "mark"]
<1>1. /\ UNCHANGED <<config, locked, remote, breaker, token, flights, repo, manifests, pullHistory>>
      /\ pull[p].at = "classify" /\ pull' = [pull EXCEPT ![p] = x]
  BY DEF P!Classify, P!given, P!fetcher, P!stored
<1>2. Remembers /\ pullHistory' \in HistoryType /\ token' \in TokenType /\ repo' \in RepoType
  BY <1>1, QuietFacts, Unmoved DEF PullInv
<1>3. /\ Faultless' => breaker' = AllClosed /\ Good(pull[p], locked)
      /\ Watched' => /\ Cleared(pull[p], config, token, repo)
                     /\ manifests' # {} => repo'.private
  BY <1>1, <1>2, Before
<1>4. pull[p].kind \in P!ImageKinds /\ Outside(pull[p]) /\ pull[p].at # "idle" /\ pull[p] \in PullStates
  BY <1>1, ImageAt DEF ImageSteps, IndexSteps, PullInv, PullType
<1>5. v \in BOOLEAN /\ (Secret(config, token) => v)
  BY DEF P!IsRepoPrivate, Secret, PullInv, PullType
<1> HIDE DEF v
<1>6. x \in PullStates /\ x.kind = pull[p].kind /\ x.at = "mark" /\ x.outcome = pull[p].outcome
  BY <1>4, <1>5 DEF PullStates, ImageSteps
<1>7. x.private = v
  BY <1>4, <1>5 DEF PullStates
<1> HIDE DEF x
<1>8. Outside(x)
  BY <1>4, <1>6 DEF Outside, ImageSteps
<1>9. Good(pull[p], locked) => Good(x, locked)
  BY <1>4, <1>6 DEF Good, P!ImageKinds, P!IndexKinds
<1>10. Watched' => Cleared(x, config, token', repo')
  BY <1>1, <1>3, <1>4, <1>5, <1>6, <1>7 DEF Cleared
<1> QED  BY <1>1, <1>2, <1>3, <1>4, <1>6, <1>8, <1>9, <1>10, FreeStep

\* SetRepositoryPrivate, or a mark is lost.
LEMMA SetRepositoryPrivateStep ==
  ASSUME P!PullAssumption, PullInv, NEW p \in Pulls, P!SetRepositoryPrivate(p) PROVE PullInv'
<1>1. /\ UNCHANGED <<config, locked, remote, breaker, token, flights, manifests>>
      /\ pull[p].at = "mark" /\ (P!Return(p, "served") \/ P!Goto(p, "cache"))
  BY DEF P!SetRepositoryPrivate, P!given, P!fetcher
<1>2. token' \in TokenType
  BY <1>1, Unmoved
<1>3. pull[p].kind \in P!ImageKinds /\ Outside(pull[p]) /\ pull[p].at # "idle" /\ pull[p].at \in ImageSteps
  BY <1>1, ImageAt DEF ImageSteps, IndexSteps
<1>4. /\ Remembers /\ pullHistory' \in HistoryType /\ repo' \in RepoType
      /\ Watched' => repo'.private
  <2>1. CASE repo' = [repo EXCEPT !.private = pull[p].private] /\ P!NoFault
    <3>1. Remembers /\ pullHistory' \in HistoryType
      BY <1>1, <2>1, QuietFacts DEF PullInv, P!NoFault
    <3>2. pull[p].private \in BOOLEAN
      BY DEF PullInv, PullType, PullStates
    <3>3. repo' \in RepoType
      BY <2>1, <3>2 DEF PullInv, PullType, RepoType
    <3>4. repo'.private = pull[p].private
      BY <2>1 DEF PullInv, PullType
    <3>5. Watched' => Cleared(pull[p], config, token, repo)
      BY <3>1, Before
    <3>6. Watched' => pull[p].private
      BY <1>1, <1>3, <3>5 DEF Cleared
    <3> QED  BY <3>1, <3>3, <3>4, <3>6
  <2>2. CASE /\ P!Spend("faults") /\ UNCHANGED repo
             /\ pullHistory' = [pullHistory EXCEPT !.fault = TRUE, !.unmarked = TRUE]
    <3>1. pullHistory' \in HistoryType
      BY <2>2 DEF PullInv, PullType, HistoryType
    <3>2. pullHistory'.fault = TRUE
      BY <2>2 DEF PullInv, PullType
    <3>3. pullHistory'.unmarked = TRUE
      BY <2>2 DEF PullInv, PullType
    <3>4. pullHistory'.overlap = pullHistory.overlap
      BY <2>2 DEF PullInv, PullType
    <3>5. repo' \in RepoType
      BY <2>2, Unmoved
    <3> QED  BY <1>1, <3>1, <3>2, <3>3, <3>4, <3>5 DEF Remembers, Watched
  <2> QED  BY <2>1, <2>2 DEF P!SetRepositoryPrivate
<1>5. Faultless' => breaker' = AllClosed
  BY <1>1, <1>4, Before
<1>6. CASE P!Return(p, "served")
  BY <1>1, <1>2, <1>3, <1>4, <1>5, <1>6, PullReturns
<1>7. CASE P!Goto(p, "cache")
  BY <1>1, <1>2, <1>3, <1>4, <1>5, <1>7, PullGoesOn DEF ImageSteps
<1> QED  BY <1>1, <1>6, <1>7

\* PutManifestWithLayers: now it is readable, and marked.
LEMMA PutManifestWithLayersStep ==
  ASSUME P!PullAssumption, PullInv, NEW p \in Pulls, P!PutManifestWithLayers(p) PROVE PullInv'
<1>1. /\ UNCHANGED <<config, locked, remote, breaker, token, flights, repo>> /\ pull[p].at = "cache"
  BY DEF P!PutManifestWithLayers, P!given, P!fetcher
<1>2. token' \in TokenType /\ repo' \in RepoType
  BY <1>1, Unmoved
<1>3. pull[p].kind \in P!ImageKinds /\ Outside(pull[p]) /\ pull[p].at # "idle" /\ pull[p].at \in ImageSteps
  BY <1>1, ImageAt DEF ImageSteps, IndexSteps
<1>4. ASSUME Remembers PROVE Watched' => repo'.private
  BY <1>1, <1>3, <1>4, Before DEF Cleared
<1>5. CASE P!NoFault /\ (P!Goto(p, "putTag") \/ P!Return(p, "served"))
  <2>1. Remembers /\ pullHistory' \in HistoryType
    BY <1>1, <1>5, QuietFacts DEF PullInv, P!NoFault
  <2>2. (Faultless' => breaker' = AllClosed) /\ (Watched' => repo'.private)
    BY <1>1, <1>4, <2>1, Before
  <2>3. CASE P!Goto(p, "putTag")
    BY <1>1, <1>2, <1>3, <2>1, <2>2, <2>3, PullGoesOn DEF ImageSteps
  <2>4. CASE P!Return(p, "served")
    BY <1>1, <1>2, <1>3, <2>1, <2>2, <2>4, PullReturns
  <2> QED  BY <1>5, <2>3, <2>4
<1>6. CASE P!Fault /\ P!Return(p, "failed")
  <2>1. Remembers /\ pullHistory' \in HistoryType /\ ~Faultless'
    BY <1>1, <1>6, FaultFacts DEF PullInv
  <2> QED  BY <1>1, <1>2, <1>3, <1>4, <1>6, <2>1, PullReturns
<1> QED  BY <1>5, <1>6 DEF P!PutManifestWithLayers

\* PutTag.
LEMMA PutTagStep ==
  ASSUME P!PullAssumption, PullInv, NEW p \in Pulls, P!PutTag(p) PROVE PullInv'
<1>1. /\ UNCHANGED <<config, locked, remote, breaker, token, flights, repo, manifests>>
      /\ pull[p].at = "putTag" /\ P!Return(p, "served")
  BY DEF P!PutTag, P!given, P!fetcher
<1>2. Remembers /\ pullHistory' \in HistoryType
  BY <1>1, FaultFacts, QuietFacts DEF P!PutTag, PullInv, P!NoFault
<1>3. token' \in TokenType /\ repo' \in RepoType
  BY <1>1, Unmoved
<1>4. Outside(pull[p]) /\ pull[p].at # "idle"
  BY <1>1, ImageAt DEF ImageSteps, IndexSteps
<1>5. /\ Faultless' => breaker' = AllClosed
      /\ Watched' => (manifests' # {} => repo'.private)
  BY <1>1, <1>2, Before
<1> QED  BY <1>1, <1>2, <1>3, <1>4, <1>5, PullReturns

\* The callers of a project or a module share one walk.
LEMMA CoalesceStep ==
  ASSUME P!PullAssumption, PullInv, NEW p \in Pulls, P!Coalesce(p) PROVE PullInv'
<1>1. /\ UNCHANGED <<config, locked, remote, breaker, token, repo, manifests, pullHistory>>
      /\ pull[p].at = "coalesce" /\ P!Enter(p, pull[p].kind, "walk")
  BY DEF P!Coalesce, P!given, P!stored
<1>2. pull[p].kind \in P!IndexKinds /\ Outside(pull[p]) /\ pull[p].at # "idle"
  BY <1>1 DEF PullInv, FlightInv, Placed, Outside, Leads, Waits, ImageSteps, TokenSteps, IndexSteps
<1>3. Of(pull[p]) = pull[p].kind
  BY <1>2 DEF Of, P!ImageKinds, P!IndexKinds
<1>4. P!Enter(p, Of(pull[p]), "walk")
  BY <1>1, <1>3
<1> QED  BY <1>1, <1>2, <1>4, EnterStep

\* Where a walk over the bases stands.
LEMMA WalkFacts ==
  ASSUME P!PullAssumption, PullInv, NEW p \in Pulls,
         pull[p].at = "walk" \/ (pull[p].at \in {"circuit", "send"} /\ pull[p].kind \in P!IndexKinds)
  PROVE  /\ pull[p].kind \in P!IndexKinds /\ Leads(pull[p]) /\ Of(pull[p]) = pull[p].kind
         /\ pull[p] \in PullStates /\ pull[p].at # "idle" /\ pull[p].at # "probe"
         /\ pull[p].kind \notin P!ImageKinds
<1>1. pull[p].kind \in P!IndexKinds
  BY DEF PullInv, FlightInv, Placed, Outside, Leads, Waits, ImageSteps, TokenSteps
<1>2. Leads(pull[p])
  BY <1>1 DEF Leads, IndexSteps
<1>3. Of(pull[p]) = pull[p].kind /\ pull[p].kind \notin P!ImageKinds
  BY <1>1 DEF Of, P!ImageKinds, P!IndexKinds
<1> QED  BY <1>1, <1>2, <1>3 DEF PullInv, PullType

\* The leader of a walk moves on.
LEMMA WalkStep ==
  ASSUME P!PullAssumption,
         PullInv, NEW p \in Pulls, pull[p].kind \in P!IndexKinds, pull[p].at \in IndexSteps,
         NEW x \in PullStates, x.kind = pull[p].kind, x.at \in IndexSteps,
         Faultless' => /\ breaker' = AllClosed
                       /\ x.outcome = pull[p].outcome
                       /\ x.base = IF x.at = "walk" THEN 0 ELSE 1,
         pull' = [pull EXCEPT ![p] = x], UNCHANGED <<remote, flights, token, repo, manifests>>,
         pullHistory' \in HistoryType, Remembers
  PROVE  PullInv'
<1>1. /\ Leads(pull[p]) /\ pull[p].at # "probe" /\ x.at # "probe" /\ x.kind \notin P!ImageKinds
      /\ pull[p].kind \notin P!ImageKinds
  BY DEF Leads, IndexSteps, P!ImageKinds, P!IndexKinds
<1>2. Leads(x) /\ Of(x) = Of(pull[p]) /\ Cleared(x, config, token, repo)
  BY <1>1 DEF Leads, Of, Cleared
<1>3. Faultless' => Good(x, locked)
  BY <1>1, Before DEF Good, IndexSteps
<1> QED  BY <1>1, <1>2, <1>3, LeadStep

\* The next base; without a fault the first answers.
LEMMA NextBaseStep ==
  ASSUME P!PullAssumption, PullInv, NEW p \in Pulls, P!NextBase(p) PROVE PullInv'
<1>1. /\ UNCHANGED <<config, locked, remote, breaker, token, repo, manifests, pullHistory>>
      /\ pull[p].at = "walk"
  BY DEF P!NextBase, P!given, P!stored
<1>2. /\ pull[p].kind \in P!IndexKinds /\ Leads(pull[p]) /\ Of(pull[p]) = pull[p].kind
      /\ pull[p] \in PullStates /\ pull[p].at # "probe" /\ pull[p].at \in IndexSteps
  BY <1>1, WalkFacts DEF IndexSteps
<1>3. Remembers /\ pullHistory' \in HistoryType /\ token' \in TokenType
  BY <1>1, QuietFacts, Unmoved DEF PullInv
<1>4. Faultless' => breaker' = AllClosed /\ Good(pull[p], locked)
  BY <1>1, <1>3, Before
<1>5. Faultless' => pull[p].base = 0
  BY <1>1, <1>2, <1>4 DEF Good
<1>6. CASE pull[p].base < Len(Bases)
  <2> DEFINE x == [pull[p] EXCEPT !.base = pull[p].base + 1, !.at = "circuit"]
  <2>1. pull' = [pull EXCEPT ![p] = x] /\ UNCHANGED flights
    BY <1>6 DEF P!NextBase
  <2>2. pull[p].base \in Nat /\ pull[p].base + 1 \in Nat
    BY <1>2 DEF PullStates
  <2>3. /\ x \in PullStates /\ x.kind = pull[p].kind /\ x.at = "circuit"
        /\ x.outcome = pull[p].outcome /\ x.base = pull[p].base + 1
    BY <1>2, <2>2 DEF PullStates, IndexSteps
  <2> HIDE DEF x
  <2>4. Faultless' => x.base = IF x.at = "walk" THEN 0 ELSE 1
    BY <1>5, <2>3
  <2>5. Faultless' => breaker' = AllClosed
    BY <1>1, <1>4
  <2>6. x.at \in IndexSteps
    BY <2>3 DEF IndexSteps
  <2> QED  BY <1>1, <1>2, <1>3, <2>1, <2>3, <2>4, <2>5, <2>6, WalkStep
<1>7. CASE ~(pull[p].base < Len(Bases))
  <2> DEFINE o == IF pull[p].kind = "project" /\ pull[p].missing = Len(Bases) /\ Len(Bases) > 0
                  THEN "absent" ELSE "failed"
  <2>1. P!Land(pull[p].kind) /\ pull' = P!Landed(pull[p].kind, LAMBDA r : P!Answered(o))
    BY <1>7 DEF P!NextBase, P!Landed
  <2>a. PICK c \in {"absent", "failed"} : c = o
    OBVIOUS
  <2> HIDE DEF o
  <2>2. ~Faultless'
    BY <1>5, <1>7 DEF P!PullAssumption
  <2>3. P!Land(Of(pull[p])) /\ pull' = P!Landed(Of(pull[p]), LAMBDA r : P!Answered(c))
    BY <1>2, <2>1, <2>a DEF P!Landed
  <2>4. c \in {"served", "failed", "absent"}
    OBVIOUS
  <2> QED  BY <1>1, <1>2, <1>3, <2>2, <2>3, <2>4, FailedStep
<1> QED  BY <1>6, <1>7

\* Without a fault the base that is asked is the first.
LEMMA FirstBase ==
  ASSUME P!PullAssumption, NEW p \in Pulls, pull[p].kind \in P!IndexKinds, pull[p].base = 1
  PROVE  P!Key(p) \in P!Breakers
<1>1. 1 \in DOMAIN Bases
  BY DEF P!PullAssumption
<1>2. pull[p].kind \notin P!ImageKinds
  BY DEF P!ImageKinds, P!IndexKinds
<1> QED  BY <1>1, <1>2 DEF P!Key, P!Breakers

\* The circuit of a base.
LEMMA DoCircuitStep ==
  ASSUME P!PullAssumption, PullInv, NEW p \in Pulls, P!DoCircuit(p) PROVE PullInv'
<1>1. /\ UNCHANGED <<config, locked, remote, token, flights, repo, manifests, pullHistory>>
      /\ pull[p].at = "circuit" /\ pull[p].kind \in P!IndexKinds
      /\ P!ForgetExpired(P!Key(p)) /\ P!Goto(p, IF P!IsOpen(P!Key(p)) THEN "walk" ELSE "send")
  BY DEF P!DoCircuit, P!given, P!stored
<1>2. pull[p] \in PullStates /\ pull[p].at \in IndexSteps
  BY <1>1, WalkFacts DEF IndexSteps
<1>3. Remembers /\ pullHistory' \in HistoryType
  BY <1>1, QuietFacts DEF PullInv
<1>4. Faultless' => breaker = AllClosed /\ pull[p].base = 1
  BY <1>1, <1>3, Before DEF Good
<1>5. Faultless' => breaker' = AllClosed /\ ~P!IsOpen(P!Key(p))
  BY <1>1, <1>4, FirstBase, ClosedFacts
<1> DEFINE s == IF P!IsOpen(P!Key(p)) THEN "walk" ELSE "send"
           x == [pull[p] EXCEPT !.at = s]
<1>6. s \in {"walk", "send"} /\ (Faultless' => s = "send") /\ pull' = [pull EXCEPT ![p] = x]
  BY <1>1, <1>5 DEF P!Goto
<1> HIDE DEF s
<1>7. /\ x \in PullStates /\ x.kind = pull[p].kind /\ x.at = s
      /\ x.outcome = pull[p].outcome /\ x.base = pull[p].base
  BY <1>2, <1>6 DEF PullStates, IndexSteps
<1> HIDE DEF x
<1> QED  BY <1>1, <1>2, <1>3, <1>4, <1>5, <1>6, <1>7, WalkStep DEF IndexSteps

\* An answer of a base.
LEMMA DoStep ==
  ASSUME P!PullAssumption, PullInv, NEW p \in Pulls, P!Do(p) PROVE PullInv'
<1>1. /\ UNCHANGED <<config, locked, remote, token, repo, manifests>>
      /\ pull[p].at = "send" /\ pull[p].kind \in P!IndexKinds
  BY DEF P!Do, P!given, P!stored
<1>2. /\ pull[p] \in PullStates /\ pull[p].at \in IndexSteps /\ Leads(pull[p])
      /\ Of(pull[p]) = pull[p].kind /\ pull[p].at # "probe"
  BY <1>1, WalkFacts DEF IndexSteps
<1>3. token' \in TokenType
  BY <1>1, Unmoved
<1>4. CASE /\ P!RecordSuccess(P!Key(p)) /\ P!NoFault /\ P!Land(pull[p].kind)
           /\ pull' = P!Landed(pull[p].kind, LAMBDA r : P!Answered("served"))
  <2>1. Remembers /\ pullHistory' \in HistoryType
    BY <1>1, <1>4, QuietFacts DEF PullInv, P!NoFault
  <2>2. Faultless' => breaker = AllClosed /\ pull[p].base = 1
    BY <1>1, <2>1, Before DEF Good
  <2>3. Faultless' => breaker' = AllClosed
    BY <1>1, <1>4, <2>2, FirstBase, ClosedFacts
  <2>4. P!Land(Of(pull[p])) /\ pull' = P!Landed(Of(pull[p]), LAMBDA r : P!Answered("served"))
    BY <1>2, <1>4
  <2> QED  BY <1>1, <1>2, <1>3, <2>1, <2>3, <2>4, FailedStep
<1>5. CASE /\ P!Fault /\ P!Land(pull[p].kind)
           /\ pull' = P!Landed(pull[p].kind, LAMBDA r : P!Answered("failed"))
  <2>1. Remembers /\ pullHistory' \in HistoryType /\ ~Faultless'
    BY <1>1, <1>5, FaultFacts DEF PullInv
  <2>2. P!Land(Of(pull[p])) /\ pull' = P!Landed(Of(pull[p]), LAMBDA r : P!Answered("failed"))
    BY <1>2, <1>5
  <2> QED  BY <1>1, <1>2, <1>3, <2>1, <2>2, FailedStep
<1>6. CASE P!Fault /\ UNCHANGED flights /\ pull' = [pull EXCEPT ![p].at = "walk", ![p].missing = @ + 1]
  <2>1. Remembers /\ pullHistory' \in HistoryType /\ ~Faultless'
    BY <1>1, <1>6, FaultFacts DEF PullInv
  <2> DEFINE x == [pull[p] EXCEPT !.at = "walk", !.missing = pull[p].missing + 1]
  <2>a. pull[p].missing \in Nat /\ pull[p].missing + 1 \in Nat
    BY <1>2 DEF PullStates
  <2>2. x \in PullStates /\ x.kind = pull[p].kind /\ x.at = "walk"
    BY <1>2, <2>a DEF PullStates, IndexSteps
  <2>3. pull' = [pull EXCEPT ![p] = x]
    BY <1>6
  <2> HIDE DEF x
  <2> QED  BY <1>1, <1>2, <1>6, <2>1, <2>2, <2>3, WalkStep DEF IndexSteps
<1>7. CASE P!Fault /\ UNCHANGED flights /\ P!Goto(p, "walk")
  <2>1. Remembers /\ pullHistory' \in HistoryType /\ ~Faultless'
    BY <1>1, <1>7, FaultFacts DEF PullInv
  <2> DEFINE x == [pull[p] EXCEPT !.at = "walk"]
  <2>2. x \in PullStates /\ x.kind = pull[p].kind /\ x.at = "walk"
    BY <1>2 DEF PullStates, IndexSteps
  <2>3. pull' = [pull EXCEPT ![p] = x]
    BY <1>7 DEF P!Goto
  <2> HIDE DEF x
  <2> QED  BY <1>1, <1>2, <1>7, <2>1, <2>2, <2>3, WalkStep DEF IndexSteps
<1> QED  BY <1>4, <1>5, <1>6, <1>7 DEF P!Do

\* A pull starts: if another is at work, they overlap.
LEMMA PullStarts ==
  ASSUME P!PullAssumption, PullInv, NEW p \in Pulls, NEW kind \in Kinds,
         NEW want \in Digests \union {NoDigest},
         P!Start(p, kind, want)
  PROVE  PullInv'
<1> DEFINE x == [P!Idle EXCEPT !.kind = kind, !.want = want,
                   !.at = IF kind \in P!ImageKinds THEN "lookup" ELSE "coalesce"]
<1>1. /\ UNCHANGED <<config, locked, remote, breaker, token, flights, repo, manifests>>
      /\ pull[p].at = "idle" /\ pull' = [pull EXCEPT ![p] = x]
      /\ pullHistory' = [pullHistory EXCEPT !.overlap =
                           pullHistory.overlap \/ \E q \in Pulls : pull[q].at # "idle"]
  BY DEF P!Start, P!given, P!fetcher, P!stored
<1>2. /\ x \in PullStates /\ x.kind = kind /\ x.base = 0 /\ x.outcome = "none"
      /\ x.at = IF kind \in P!ImageKinds THEN "lookup" ELSE "coalesce"
  BY DEF P!Idle, PullStates, ImageSteps
<1> HIDE DEF x
<1>3. Outside(x) /\ Good(x, locked) /\ Cleared(x, config, token', repo')
  BY <1>2 DEF Outside, ImageSteps, Good, Cleared, Kinds, P!ImageKinds, P!IndexKinds
<1>4. pullHistory' \in HistoryType
  BY <1>1 DEF PullInv, PullType, HistoryType
<1>5. pullHistory'.fault = pullHistory.fault
  BY <1>1 DEF PullInv, PullType
<1>6. pullHistory'.unmarked = pullHistory.unmarked
  BY <1>1 DEF PullInv, PullType
<1>7. pullHistory'.overlap = (pullHistory.overlap \/ \E q \in Pulls : pull[q].at # "idle")
  BY <1>1 DEF PullInv, PullType
<1>8. Remembers
  BY <1>1, <1>5, <1>6, <1>7 DEF Remembers
<1>9. PullType'
  BY <1>1, <1>2, <1>4 DEF PullInv, PullType, HistoryType
<1>10. FlightInv'
  <2>1. Outside(pull[p])
    BY <1>1 DEF Outside
  <2> QED  BY <1>1, <1>2, <1>3, <2>1, FreeMove DEF PullInv
<1>11. pull'[p] = x /\ \A q \in Pulls : q # p => pull'[q] = pull[q]
  BY <1>1 DEF PullInv, PullType
<1>12. (Faultless' => Faultless) /\ locked' = locked /\ config' = config
  BY <1>8 DEF Remembers, Faultless
<1>13. Serving'
  BY <1>1, <1>3, <1>11, <1>12 DEF PullInv, Serving
<1>14. Marking'
  <2> SUFFICES ASSUME Watched'
               PROVE  /\ Alone' /\ \A q \in Pulls : Cleared(pull[q], config, token, repo)'
                      /\ manifests' # {} => repo'.private
    BY DEF Marking
  <2>1. \A q \in Pulls : pull[q].at = "idle"
    BY <1>7 DEF Watched
  <2>2. Alone'
    BY <1>11, <2>1 DEF Alone
  <2>3. \A q \in Pulls : q # p => Cleared(pull'[q], config, token', repo')
    BY <1>11, <2>1 DEF Cleared
  <2>4. \A q \in Pulls : Cleared(pull'[q], config', token', repo')
    BY <1>3, <1>11, <1>12, <2>3
  <2>5. manifests' # {} => repo'.private
    BY <1>1, <1>8, Before
  <2> QED  BY <2>2, <2>4, <2>5
<1> QED  BY <1>9, <1>10, <1>13, <1>14 DEF PullInv

\* What does not touch a pull.
LEMMA StillStep ==
  ASSUME PullInv, UNCHANGED <<pull, flights, repo, manifests>>, Remembers,
         remote' \in Digests, pullHistory' \in HistoryType, token' \in TokenType,
         token'.known = token.known, token'.credentialsUsed = token.credentialsUsed,
         Faultless' => breaker' = AllClosed
  PROVE  PullInv'
<1>1. PullType'
  BY DEF PullInv, PullType, Remembers, TokenType, HistoryType
<1>2. FlightInv'
  BY DEF PullInv, FlightInv, Placed, Led, Leaders, Waiters, WaitsIn
<1>3. (Faultless' => Faultless) /\ (Watched' => Watched) /\ locked' = locked /\ config' = config
  BY DEF Remembers, Faultless, Watched
<1>4. Serving'
  BY <1>3 DEF PullInv, Serving
<1>5. Marking'
  <2> SUFFICES ASSUME Watched'
               PROVE  /\ Alone' /\ \A q \in Pulls : Cleared(pull[q], config, token, repo)'
                      /\ manifests' # {} => repo'.private
    BY DEF Marking
  <2>1. /\ Alone /\ \A q \in Pulls : Cleared(pull[q], config, token, repo)
        /\ manifests # {} => repo.private
    BY <1>3 DEF PullInv, Marking
  <2>2. Alone'
    BY <2>1 DEF Alone
  <2>3. \A q \in Pulls : Cleared(pull[q], config, token', repo)
    BY <2>1 DEF Cleared, Secret
  <2>4. \A q \in Pulls : Cleared(pull'[q], config', token', repo')
    BY <1>3, <2>3
  <2> QED  BY <2>1, <2>2, <2>4
<1> QED  BY <1>1, <1>2, <1>4, <1>5 DEF PullInv

\* Circuits and tokens expire, a peer announces the blob, upstream moves its tag.
LEMMA EnvironmentStep ==
  ASSUME P!PullAssumption, PullInv, P!Environment \/ UNCHANGED P!vars PROVE PullInv'
<1>1. token \in TokenType /\ remote \in Digests
  BY DEF PullInv, PullType, TokenType
<1>2. ASSUME NEW k \in P!Breakers, P!CircuitExpires(k) PROVE PullInv'
  <2>1. /\ UNCHANGED <<config, locked, remote, token, flights, pull, repo, manifests, pullHistory>>
        /\ P!IsOpen(k)
    BY <1>2 DEF P!CircuitExpires, P!given, P!stored
  <2>2. Remembers /\ pullHistory' \in HistoryType
    BY <2>1, QuietFacts DEF PullInv
  <2>3. ~Faultless'
    BY <2>1, <2>2, ClosedFacts DEF PullInv, Serving, Remembers, Faultless
  <2> QED  BY <1>1, <2>1, <2>2, <2>3, StillStep
<1>3. CASE P!TokenExpires
  <2>1. /\ UNCHANGED <<config, locked, remote, breaker, flights, pull, repo, manifests, pullHistory>>
        /\ token' = [token EXCEPT !.fresh = FALSE]
    BY <1>3 DEF P!TokenExpires, P!given, P!stored
  <2>2. Remembers /\ pullHistory' \in HistoryType
    BY <2>1, QuietFacts DEF PullInv
  <2>3. Faultless' => breaker' = AllClosed
    BY <2>1, <2>2 DEF PullInv, Serving, Remembers, Faultless
  <2>4. token' \in TokenType
    BY <1>1, <2>1 DEF TokenType
  <2>5. token'.known = token.known
    BY <1>1, <2>1 DEF TokenType
  <2>6. token'.credentialsUsed = token.credentialsUsed
    BY <1>1, <2>1 DEF TokenType
  <2> QED  BY <1>1, <2>1, <2>2, <2>3, <2>4, <2>5, <2>6, StillStep
<1>4. CASE P!Announced
  <2>1. /\ UNCHANGED <<config, locked, remote, breaker, token, flights, pull, repo, manifests>>
        /\ P!Fault
    BY <1>4 DEF P!Announced, P!given, P!fetcher
  <2>2. Remembers /\ pullHistory' \in HistoryType /\ ~Faultless'
    BY <2>1, FaultFacts DEF PullInv
  <2> QED  BY <1>1, <2>1, <2>2, StillStep
<1>5. CASE P!Retag
  <2>1. /\ UNCHANGED <<config, locked, breaker, token, flights, pull, repo, manifests, pullHistory>>
        /\ remote' \in Digests
    BY <1>5 DEF P!Retag, P!given, P!fetcher, P!stored
  <2>2. Remembers /\ pullHistory' \in HistoryType
    BY <2>1, QuietFacts DEF PullInv
  <2>3. Faultless' => breaker' = AllClosed
    BY <2>1, <2>2 DEF PullInv, Serving, Remembers, Faultless
  <2> QED  BY <1>1, <2>1, <2>2, <2>3, StillStep
<1>6. CASE UNCHANGED P!vars
  <2>1. UNCHANGED <<config, locked, remote, breaker, token, flights, pull, repo, manifests, pullHistory>>
    BY <1>6 DEF P!vars, P!given, P!fetcher, P!stored
  <2>2. Remembers /\ pullHistory' \in HistoryType
    BY <2>1, QuietFacts DEF PullInv
  <2>3. Faultless' => breaker' = AllClosed
    BY <2>1, <2>2 DEF PullInv, Serving, Remembers, Faultless
  <2> QED  BY <1>1, <2>1, <2>2, <2>3, StillStep
<1> QED  BY <1>2, <1>3, <1>4, <1>5, <1>6 DEF P!Environment

\* Every step keeps the invariant.
LEMMA PullStep ==
  ASSUME P!PullAssumption, PullInv, [P!Next]_(P!vars) PROVE PullInv'
<1>1. ASSUME NEW p \in Pulls, P!Step(p) PROVE PullInv'
  BY <1>1, GetManifestStep, GetBlobStep, FetchBlobFromPeersStep, CheckCircuitStep, AddAuthStep,
     DiscoverChallengeStep, ProbeStep, UndiscoveredStep, FetchTokenStep, UnauthorizedStep,
     SendFailsStep, SendSucceedsStep, VerifyStep, PutBlobStep, GetOrCreateRepositoryStep,
     ClassifyStep, SetRepositoryPrivateStep, PutManifestWithLayersStep, PutTagStep,
     CoalesceStep, NextBaseStep, DoCircuitStep, DoStep
  DEF P!Step
<1>2. ASSUME NEW p \in Pulls, NEW kind \in {"tag", "project", "module"}, P!Start(p, kind, NoDigest)
      PROVE  PullInv'
  BY <1>2, PullStarts DEF Kinds, P!ImageKinds, P!IndexKinds
<1>3. ASSUME NEW p \in Pulls, NEW kind \in {"manifest", "blob"}, NEW want \in Digests,
             P!Start(p, kind, want)
      PROVE  PullInv'
  BY <1>3, PullStarts DEF Kinds, P!ImageKinds, P!IndexKinds
<1>4. CASE P!Environment \/ UNCHANGED P!vars
  BY <1>4, EnvironmentStep
<1> QED  BY <1>1, <1>2, <1>3, <1>4 DEF P!Next

\* It holds from the start.
LEMMA PullInit == ASSUME P!PullAssumption, P!Init PROVE PullInv
<1>1. \A p \in Pulls : pull[p] = P!Idle
  BY DEF P!Init
<1>2. P!Idle \in PullStates /\ P!Idle.at = "idle" /\ P!Idle.kind = "none" /\ P!Idle.outcome = "none"
  BY DEF P!Idle, PullStates
<1>3. \A k \in P!FlightKeys : flights[k] = P!NoFlight
  BY DEF P!Init
<1>4. P!NoFlight \in Flights /\ P!NoFlight.leader = Nobody /\ P!NoFlight.waiters = {}
  BY DEF P!NoFlight, Flights
<1>5. PullType
  <2>1. remote \in Digests
    BY DEF P!Init, P!PullAssumption
  <2>2. pull \in [Pulls -> PullStates] /\ flights \in [P!FlightKeys -> Flights]
    BY <1>2, <1>4 DEF P!Init
  <2>3. config \in [auth : {"token", "basic", "none"}, username : BOOLEAN, private : BOOLEAN]
    BY DEF P!Init, P!PullAssumption
  <2> QED  BY <2>1, <2>2, <2>3 DEF P!Init, PullType, P!NoToken
<1>6. FlightInv
  <2>1. Outside(P!Idle) /\ ~Leads(P!Idle)
    BY <1>2, PlaceFacts DEF Outside
  <2> QED  BY <1>1, <1>2, <1>3, <1>4, <2>1 DEF FlightInv, Placed, Led, Leaders, Waiters
<1>7. Serving
  BY <1>1, <1>2, IdleFacts DEF Serving, P!Init, AllClosed
<1>8. Marking
  <2>1. manifests = {} /\ Alone
    BY <1>1, <1>2 DEF P!Init, Alone
  <2> QED  BY <1>1, <1>2, <2>1, IdleFacts DEF Marking
<1> QED  BY <1>5, <1>6, <1>7, <1>8 DEF PullInv

\* So it holds throughout.
LEMMA PullInvariant == ASSUME P!PullAssumption PROVE P!Spec => []PullInv
<1>1. P!Init => PullInv
  BY PullInit
<1>2. PullInv /\ [P!Next]_(P!vars) => PullInv'
  BY PullStep
<1> QED  BY <1>1, <1>2, PTL DEF P!Spec

(***************************************************************************)
(* However many pulls are coalesced, whoever waits in a flight waits for a *)
(* leader at work, or for the leader of a token flight that waits for the  *)
(* one of the discovery: singleflight.Do lands a flight on every path, and *)
(* the flights are entered in one order.                                   *)
(***************************************************************************)
THEOREM NobodyIsStranded == ASSUME P!PullAssumption PROVE P!Spec => []NobodyStranded
<1>1. PullInv => NobodyStranded
  <2> SUFFICES ASSUME PullInv, NEW p \in Pulls, pull[p].at = "wait"
               PROVE  \E k \in P!FlightKeys :
                        /\ p \in flights[k].waiters
                        /\ LET l == flights[k].leader IN
                           /\ l # Nobody /\ pull[l].at # "idle"
                           /\ pull[l].at = "wait" => l \in flights["discover"].waiters /\ k # "discover"
    BY DEF NobodyStranded, P!NobodyStranded
  <2>1. Of(pull[p]) \in P!FlightKeys /\ "discover" \in P!FlightKeys
    BY WaiterFacts DEF PullInv, P!FlightKeys
  <2>2. PICK k \in P!FlightKeys : WaitsIn(p, k, flights)
    BY <2>1 DEF PullInv, FlightInv, Waiters
  <2>3. /\ p \in flights[k].waiters /\ flights[k].leader # Nobody
    BY <2>2 DEF WaitsIn
  <2>4. LET l == flights[k].leader IN
        /\ k = "discover" => pull[l].at = "probe"
        /\ k # "discover" => Leads(pull[l]) \/ (pull[l].at = "wait" /\ l \in flights["discover"].waiters)
    BY <2>3 DEF PullInv, FlightInv, Leaders
  <2>5. LET l == flights[k].leader IN
        /\ pull[l].at # "idle"
        /\ pull[l].at = "wait" => l \in flights["discover"].waiters /\ k # "discover"
    BY <2>4, PlaceFacts
  <2> QED  BY <2>3, <2>5
<1> QED  BY <1>1, PullInvariant, PTL

(***************************************************************************)
(* As long as nothing has failed, no pull of what upstream gives to the    *)
(* configured account fails, for any number of pulls, bases and manifests: *)
(* a pull that a 401 has sent back to addAuth shares its next token only   *)
(* with such pulls, in a flight of their own.                              *)
(***************************************************************************)
THEOREM NoFaultNoFailure == ASSUME P!PullAssumption PROVE P!Spec => []FaultlessServed
<1>1. PullInv => FaultlessServed
  BY DEF PullInv, Serving, Good, Faultless, FaultlessServed, P!FaultlessServed
<1> QED  BY <1>1, PullInvariant, PTL

(***************************************************************************)
(* A repository that upstream locks is marked private before a manifest of *)
(* it is readable here, if pulls have not overlapped and no mark was lost: *)
(* the token cache that IsRepoPrivate reads still tells how the pull got   *)
(* in, even when its token has expired since.                              *)
(***************************************************************************)
THEOREM MarkedBeforeReadable == ASSUME P!PullAssumption PROVE P!Spec => []PrivateBeforeReadable
<1>1. PullInv => PrivateBeforeReadable
  BY DEF PullInv, Marking, Watched, PrivateBeforeReadable, P!PrivateBeforeReadable
<1> QED  BY <1>1, PullInvariant, PTL
-----------------------------------------------------------------------------
(***************************************************************************)
(* The retention sweep.                                                    *)
(***************************************************************************)
\* The steps of a push and of the collector.
SweepPushes ==
  [at : {"idle", "store", "tag", "publish"}, manifest : Manifests \union {None},
   tag : TagNames \union {None}]

\* From some positions to the names of tags, or a manifest.
Lists == UNION {[I -> TagNames \union Manifests] : I \in SUBSET Nat}

Sweeps ==
  [at : {"idle", "delete", "prune", "record", "publish"}, list : Lists, deleted : Nat,
   pruned : SUBSET Manifests, more : BOOLEAN]

SweepPolicies ==
  [defaults : R!Settings, perRepo : R!Settings, perCycle : Nat, batch : Nat,
   owned : BOOLEAN, pushes : Nat, events : Nat]

\* A list of tags in which a name comes once.
Unique(s) ==
  /\ s \in Seq(TagNames \X Manifests)
  /\ \A i, j \in 1..Len(s) : s[i][1] = s[j][1] => i = j

\* The types: a push has a manifest, and one that is to set a tag has a tag.
TablesOK == old \subseteq kept /\ kept \subseteq Manifests /\ Unique(tagList)

RepushOK ==
  /\ repush \in [Clients -> SweepPushes]
  /\ \A c \in Clients : /\ repush[c].at # "idle" => repush[c].manifest \in Manifests
                        /\ repush[c].at = "tag" => repush[c].tag \in TagNames

HistoryOK ==
  /\ reused \subseteq Manifests /\ named \subseteq TagNames /\ IsFiniteSet(named)
  /\ withdrawn \in Nat /\ policy \in SweepPolicies

SweepType == TablesOK /\ RepushOK /\ sweep \in Sweeps /\ HistoryOK

\* Without a tag, with the list as a parameter.
Removed(s, t) ==
  IF \E i \in DOMAIN s : s[i][1] = t
  THEN LET i == CHOOSE i \in DOMAIN s : s[i][1] = t
       IN SubSeq(s, 1, i - 1) \o SubSeq(s, i + 1, Len(s))
  ELSE s

\* What is left of a sequence without one position.
LEMMA WithoutPosition ==
  ASSUME NEW S, NEW s \in Seq(S), NEW x \in 1..Len(s)
  PROVE  LET w == SubSeq(s, 1, x - 1) \o SubSeq(s, x + 1, Len(s))
         IN /\ w \in Seq(S) /\ Len(w) = Len(s) - 1
            /\ \A k \in 1..(Len(s) - 1) : /\ k < x => w[k] = s[k]
                                          /\ ~(k < x) => w[k] = s[k + 1]
<1> DEFINE n == Len(s)
           a == SubSeq(s, 1, x - 1)
           b == SubSeq(s, x + 1, n)
           w == a \o b
<1>1. n \in Nat /\ x \in Int /\ 1 <= x /\ x <= n /\ \A i \in 1..n : s[i] \in S
  BY LenProperties, ElementOfSeq
<1>2. a \in Seq(S) /\ Len(a) = x - 1 /\ \A i \in 1..(x - 1) : a[i] = s[i]
  <2>1. 1 \in Int /\ x - 1 \in Int /\ \A i \in 1..(x - 1) : s[i] \in S
    <3> HIDE DEF n
    <3> QED  BY <1>1
  <2>2. /\ a \in Seq(S)
        /\ Len(a) = IF 1 <= x - 1 THEN (x - 1) - 1 + 1 ELSE 0
        /\ \A i \in 1..((x - 1) - 1 + 1) : a[i] = s[1 + i - 1]
    BY <2>1, SubSeqProperties
  <2> HIDE DEF a, n
  <2>3. Len(a) = x - 1
    BY <2>2, <1>1
  <2>4. ASSUME NEW i \in 1..(x - 1) PROVE a[i] = s[i]
    <3>1. i \in 1..((x - 1) - 1 + 1) /\ 1 + i - 1 = i
      BY <1>1
    <3>2. a[i] = s[1 + i - 1]
      BY <3>1, <2>2
    <3> QED  BY <3>1, <3>2
  <2> QED  BY <2>2, <2>3, <2>4
<1>3. b \in Seq(S) /\ Len(b) = n - x /\ \A i \in 1..(n - x) : b[i] = s[x + i]
  <2>1. x + 1 \in Int /\ n \in Int /\ \A i \in (x + 1)..n : s[i] \in S
    <3> HIDE DEF n
    <3> QED  BY <1>1
  <2>2. /\ b \in Seq(S)
        /\ Len(b) = IF x + 1 <= n THEN n - (x + 1) + 1 ELSE 0
        /\ \A i \in 1..(n - (x + 1) + 1) : b[i] = s[x + 1 + i - 1]
    <3> HIDE DEF n
    <3> QED  BY <2>1, SubSeqProperties
  <2> HIDE DEF b, n
  <2>3. Len(b) = n - x
    BY <2>2, <1>1
  <2>4. ASSUME NEW i \in 1..(n - x) PROVE b[i] = s[x + i]
    <3>1. i \in 1..(n - (x + 1) + 1) /\ x + 1 + i - 1 = x + i
      BY <1>1
    <3>2. b[i] = s[x + 1 + i - 1]
      BY <3>1, <2>2
    <3> QED  BY <3>1, <3>2
  <2> QED  BY <2>2, <2>3, <2>4
<1> HIDE DEF a, b
<1>4. /\ w \in Seq(S) /\ Len(w) = Len(a) + Len(b)
      /\ \A k \in 1..(Len(a) + Len(b)) : w[k] = IF k <= Len(a) THEN a[k] ELSE b[k - Len(a)]
  <2>1. a \in Seq(S) /\ b \in Seq(S)
    BY <1>2, <1>3
  <2> QED  BY <2>1, ConcatProperties
<1> HIDE DEF w, n
<1>5. Len(a) + Len(b) = n - 1
  BY <1>1, <1>2, <1>3
<1>6. ASSUME NEW k \in 1..(n - 1), k < x PROVE w[k] = s[k]
  <2>1. k \in 1..(x - 1) /\ k <= Len(a)
    BY <1>1, <1>2, <1>6
  <2>2. w[k] = a[k]
    BY <2>1, <1>4, <1>5
  <2> QED  BY <2>1, <2>2, <1>2
<1>7. ASSUME NEW k \in 1..(n - 1), ~(k < x) PROVE w[k] = s[k + 1]
  <2>1. k - (x - 1) \in 1..(n - x) /\ x + (k - (x - 1)) = k + 1 /\ ~(k <= x - 1)
    BY <1>1, <1>7
  <2>2. w[k] = b[k - Len(a)]
    BY <2>1, <1>2, <1>4, <1>5
  <2>3. w[k] = b[k - (x - 1)]
    BY <2>2, <1>2
  <2>4. b[k - (x - 1)] = s[x + (k - (x - 1))]
    BY <2>1, <1>3
  <2> QED  BY <2>1, <2>3, <2>4
<1>8. /\ w \in Seq(S) /\ Len(w) = n - 1
      /\ \A k \in 1..(n - 1) : /\ k < x => w[k] = s[k]
                               /\ ~(k < x) => w[k] = s[k + 1]
  BY <1>4, <1>5, <1>6, <1>7
<1> QED  BY <1>8 DEF w, a, b, n

\* DELETE of one name: the others stay, in their order.
LEMMA RemovedFacts ==
  ASSUME NEW s, Unique(s), NEW t
  PROVE  /\ Unique(Removed(s, t))
         /\ \A k \in 1..Len(Removed(s, t)) :
              \E i \in 1..Len(s) : Removed(s, t)[k] = s[i] /\ s[i][1] # t
         /\ \A i \in 1..Len(s) :
              s[i][1] # t => \E k \in 1..Len(Removed(s, t)) : Removed(s, t)[k] = s[i]
<1> DEFINE n == Len(s)
           w == Removed(s, t)
           Entry == TagNames \X Manifests
<1>1. s \in Seq(Entry) /\ n \in Nat /\ DOMAIN s = 1..n
      /\ \A i, j \in 1..n : s[i][1] = s[j][1] => i = j
  BY LenProperties DEF Unique
<1>2. CASE ~\E i \in 1..n : s[i][1] = t
  <2>1. w = s
    BY <1>1, <1>2 DEF Removed
  <2> HIDE DEF w, n
  <2>2. \A i \in 1..n : s[i][1] # t
    BY <1>2
  <2>3. /\ Unique(w)
        /\ \A k \in 1..Len(w) : \E i \in 1..n : w[k] = s[i] /\ s[i][1] # t
        /\ \A i \in 1..n : s[i][1] # t => \E k \in 1..Len(w) : w[k] = s[i]
    BY <2>1, <2>2 DEF n
  <2> QED  BY <2>3 DEF w, n
<1>3. CASE \E i \in 1..n : s[i][1] = t
  <2>1. PICK x \in 1..n : s[x][1] = t /\ w = SubSeq(s, 1, x - 1) \o SubSeq(s, x + 1, n)
    BY <1>1, <1>3 DEF Removed
  <2> HIDE DEF w, Entry
  <2>4. /\ w \in Seq(Entry) /\ Len(w) = n - 1
        /\ \A k \in 1..(n - 1) : /\ k < x => w[k] = s[k]
                                 /\ ~(k < x) => w[k] = s[k + 1]
    BY <1>1, <2>1, WithoutPosition
  <2> HIDE DEF n
  <2>0. n \in Nat /\ x \in Int /\ 1 <= x /\ x <= n
    BY <1>1, <2>1
  <2>6. \A k \in 1..(n - 1) : /\ k < x => k \in 1..n /\ k # x
                             /\ ~(k < x) => k + 1 \in 1..n /\ k + 1 # x
    BY <2>0
  <2>5. \A i \in 1..n : i # x => s[i][1] # t
    BY <1>1, <2>1
  <2>7. ASSUME NEW k \in 1..(n - 1) PROVE \E i \in 1..n : w[k] = s[i] /\ s[i][1] # t
    <3>1. CASE k < x
      <4>0. k \in 1..n /\ k # x
        BY <3>1, <2>0
      <4>1. w[k] = s[k] /\ k \in 1..n /\ k # x
        BY <3>1, <2>4, <4>0, Zenon
      <4>2. s[k][1] # t
        BY <4>1, <2>5
      <4> QED  BY <4>1, <4>2, Zenon
    <3>2. CASE ~(k < x)
      <4>1. w[k] = s[k + 1] /\ k + 1 \in 1..n /\ k + 1 # x
        BY <3>2, <2>4, <2>6
      <4>2. s[k + 1][1] # t
        BY <4>1, <2>5
      <4> QED  BY <4>1, <4>2, Zenon
    <3> QED  BY <3>1, <3>2
  <2>8. ASSUME NEW i \in 1..n, s[i][1] # t PROVE \E k \in 1..(n - 1) : w[k] = s[i]
    <3>0. i # x
      BY <2>1, <2>8
    <3>1. CASE i < x
      <4>1. i \in 1..(n - 1)
        BY <3>1, <2>0
      <4> QED  BY <3>1, <4>1, <2>4
    <3>2. CASE ~(i < x)
      <4>1. i - 1 \in 1..(n - 1) /\ ~(i - 1 < x) /\ (i - 1) + 1 = i
        BY <3>2, <3>0, <2>0
      <4> QED  BY <4>1, <2>4
    <3> QED  BY <3>1, <3>2
  <2>9. ASSUME NEW k \in 1..(n - 1), NEW l \in 1..(n - 1), w[k][1] = w[l][1] PROVE k = l
    <3>1. k < x /\ l < x => k = l
      BY <2>4, <1>1, <2>6, <2>9
    <3>2. k < x /\ ~(l < x) => k = l + 1
      BY <2>4, <1>1, <2>6, <2>9
    <3>3. ~(k < x) /\ l < x => k + 1 = l
      BY <2>4, <1>1, <2>6, <2>9
    <3>4. ~(k < x) /\ ~(l < x) => k + 1 = l + 1
      BY <2>4, <1>1, <2>6, <2>9
    <3> QED  BY <3>1, <3>2, <3>3, <3>4, <2>0
  <2>10. Unique(w)
    BY <2>4, <2>9 DEF Unique, Entry
  <2>11. /\ Unique(w)
         /\ \A k \in 1..Len(w) : \E i \in 1..n : w[k] = s[i] /\ s[i][1] # t
         /\ \A i \in 1..n : s[i][1] # t => \E k \in 1..Len(w) : w[k] = s[i]
    BY <2>4, <2>7, <2>8, <2>10
  <2> QED  BY <2>11 DEF w, n
<1> QED  BY <1>2, <1>3

\* PutTag: the tag comes first, and once.
LEMMA PrependFacts ==
  ASSUME NEW w, Unique(w), NEW t \in TagNames, NEW m \in Manifests,
         \A k \in 1..Len(w) : w[k][1] # t
  PROVE  /\ Unique(<<<<t, m>>>> \o w)
         /\ Len(<<<<t, m>>>> \o w) = Len(w) + 1
         /\ (<<<<t, m>>>> \o w)[1] = <<t, m>>
         /\ \A k \in 1..Len(w) : (<<<<t, m>>>> \o w)[k + 1] = w[k]
<1> DEFINE u == <<<<t, m>>>>
           v == u \o w
           Entry == TagNames \X Manifests
           n == Len(w)
<1>1. w \in Seq(Entry) /\ n \in Nat /\ \A i, j \in 1..n : w[i][1] = w[j][1] => i = j
  BY LenProperties DEF Unique
<1>0. u \in Seq(Entry) /\ Len(u) = 1 /\ u[1] = <<t, m>>
  <2>1. <<t, m>> \in Entry
    OBVIOUS
  <2> DEFINE e == <<t, m>>
  <2> HIDE DEF Entry, e
  <2>2. <<e>> \in Seq(Entry) /\ Len(<<e>>) = 1 /\ <<e>>[1] = e
    BY <2>1 DEF e
  <2> QED  BY <2>2 DEF e
<1> HIDE DEF u, Entry
<1>2. v \in Seq(Entry) /\ Len(v) = Len(u) + n
      /\ \A k \in 1..(Len(u) + n) : v[k] = IF k <= Len(u) THEN u[k] ELSE w[k - Len(u)]
  BY <1>0, <1>1, ConcatProperties
<1> HIDE DEF v, n
<1>3. Len(v) = n + 1 /\ 1 \in 1..(n + 1) /\ v[1] = <<t, m>>
  <2>1. 1 + n = n + 1 /\ 1 \in 1..(1 + n)
    BY <1>1
  <2> QED  BY <1>0, <1>2, <2>1
<1>4. ASSUME NEW k \in 1..n PROVE v[k + 1] = w[k]
  <2>1. k + 1 \in 1..(1 + n) /\ ~(k + 1 <= 1) /\ (k + 1) - 1 = k
    BY <1>1
  <2> QED  BY <1>0, <1>2, <2>1
<1>5. ASSUME NEW i \in 1..(n + 1), NEW j \in 1..(n + 1), v[i][1] = v[j][1] PROVE i = j
  <2>1. \A x \in 1..(n + 1) : x # 1 => x - 1 \in 1..n /\ (x - 1) + 1 = x
    BY <1>1
  <2>2. \A x \in 1..(n + 1) : x # 1 => v[x] = w[x - 1] /\ x - 1 \in 1..n
    BY <2>1, <1>4
  <2>3. v[1][1] = t
    BY <1>3
  <2>4. \A x \in 1..(n + 1) : x # 1 => v[x][1] # t
    BY <2>2 DEF n
  <2>5. CASE i # 1 /\ j # 1
    <3>1. i - 1 = j - 1
      BY <1>1, <2>2, <1>5, <2>5
    <3> QED  BY <3>1, <1>1
  <2>6. CASE i = 1 \/ j = 1
    BY <2>3, <2>4, <1>5, <2>6
  <2> QED  BY <2>5, <2>6
<1>6. Unique(v)
  BY <1>2, <1>3, <1>5 DEF Unique, Entry
<1>7. Unique(v) /\ Len(v) = n + 1 /\ v[1] = <<t, m>> /\ \A k \in 1..n : v[k + 1] = w[k]
  BY <1>3, <1>4, <1>6
<1> QED  BY <1>7 DEF v, u, n

-----------------------------------------------------------------------------
\* The module's cardinality is that of the library.
LEMMA SweepCardinality ==
  ASSUME NEW S PROVE R!Cardinality(S) = Cardinality(S)
  BY DEF R!Cardinality, Cardinality

\* A step of the policy's budgets.
LEMMA SpendFacts ==
  ASSUME NEW kind \in {"pushes", "events"}, policy \in SweepPolicies, R!Spend(kind)
  PROVE  /\ policy' \in SweepPolicies
         /\ policy'.defaults = policy.defaults /\ policy'.perRepo = policy.perRepo
         /\ policy'.owned = policy.owned
<1>1. policy[kind] \in Nat /\ policy[kind] > 0
  BY DEF SweepPolicies, R!Spend
<1>2. policy[kind] - 1 \in Nat
  BY <1>1
<1> DEFINE d == policy[kind] - 1
<1>3. policy' = [policy EXCEPT ![kind] = d]
  BY DEF R!Spend
<1> HIDE DEF d
<1> QED  BY <1>2, <1>3 DEF SweepPolicies, d

\* What Collect puts on its list are unpinned tags.
LEMMA CandidatesType ==
  ASSUME Unique(tagList)
  PROVE  /\ R!Unpinned \subseteq 1..Len(tagList)
         /\ DOMAIN R!Candidates \subseteq R!Unpinned
         /\ \A i \in DOMAIN R!Candidates : R!Candidates[i] = tagList[i][1]
         /\ R!Candidates \in Lists
<1>1. DOMAIN tagList = 1..Len(tagList) /\ Len(tagList) \in Nat
      /\ \A i \in 1..Len(tagList) : tagList[i] \in TagNames \X Manifests
  BY DEF Unique
<1>2. R!Unpinned \subseteq 1..Len(tagList)
  BY <1>1 DEF R!Unpinned, R!ListTagsForRetention
<1> DEFINE I == {i \in R!Unpinned : R!Dropped(i)}
<1>3. R!Candidates = [i \in I |-> tagList[i][1]]
  BY DEF R!Candidates
<1>4. I \subseteq R!Unpinned
  OBVIOUS
<1> HIDE DEF I
<1>5. DOMAIN R!Candidates = I /\ \A i \in I : R!Candidates[i] = tagList[i][1]
  BY <1>3
<1>6. \A i \in I : tagList[i][1] \in TagNames \union Manifests
  BY <1>1, <1>2, <1>4
<1>7. I \in SUBSET Nat
  BY <1>2, <1>4
<1>8. R!Candidates \in [I -> TagNames \union Manifests]
  BY <1>3, <1>6
<1>9. R!Candidates \in Lists
  BY <1>7, <1>8 DEF Lists
<1> QED  BY <1>2, <1>4, <1>5, <1>9

\* The collector at rest.
LEMMA SweepAtRest == <<>> \in Lists /\ R!NoGC \in Sweeps
<1>1. <<>> \in [{} -> TagNames \union Manifests]
  OBVIOUS
<1>2. <<>> \in Lists
  BY <1>1 DEF Lists
<1> QED  BY <1>2 DEF Sweeps, R!NoGC

\* The types hold at the start, ...
LEMMA SweepTypeInit ==
  ASSUME R!RetentionAssumption, R!Init
  PROVE  SweepType
<1> USE DEF R!Init
<1>1. TablesOK
  BY DEF TablesOK, Unique
<1>2. RepushOK
  BY DEF RepushOK, SweepPushes, R!NoPush
<1>3. sweep \in Sweeps
  BY SweepAtRest
<1>4. HistoryOK
  <2>1. policy \in SweepPolicies
    BY DEF SweepPolicies, R!RetentionAssumption
  <2>2. reused = {} /\ named = {} /\ withdrawn = 0 /\ IsFiniteSet({})
    BY FS_EmptySet
  <2> QED  BY <2>1, <2>2 DEF HistoryOK
<1> QED  BY <1>1, <1>2, <1>3, <1>4 DEF SweepType

\* What a step of the tags leaves.
LEMMA WithoutFacts ==
  ASSUME Unique(tagList), NEW t
  PROVE  /\ R!Without(t) = Removed(tagList, t)
         /\ Unique(R!Without(t))
<1>1. R!Without(t) = Removed(tagList, t)
  BY DEF R!Without, Removed
<1> QED  BY <1>1, RemovedFacts

\* ... and every step of the collector, of a client and of time keeps them.
LEMMA SweepTypeStep ==
  ASSUME R!RetentionAssumption, SweepType, [R!Next]_R!vars
  PROVE  SweepType'
<1> USE DEF SweepType
<1> USE DEF R!tables, R!history
<1>1. CASE R!Collect
  <2>1. UNCHANGED <<kept, old, tagList, repush, reused, named, withdrawn, policy>>
    BY <1>1 DEF R!Collect
  <2>2. TablesOK' /\ RepushOK' /\ HistoryOK'
    BY <2>1 DEF TablesOK, RepushOK, HistoryOK, Unique
  <2>3. PICK at \in {"prune", "delete"}, l \in Lists : sweep' = [R!NoGC EXCEPT !.at = at, !.list = l]
    <3>1. R!Candidates \in Lists /\ <<>> \in Lists
      BY SweepAtRest, CandidatesType DEF TablesOK
    <3> QED  BY <3>1, <1>1 DEF R!Collect
  <2>4. sweep' \in Sweeps
    BY <2>3 DEF Sweeps, R!NoGC
  <2> QED  BY <2>2, <2>4
<1>2. CASE R!DeleteCandidate
  <2>1. UNCHANGED <<kept, old, repush, reused, named, withdrawn>>
    BY <1>2 DEF R!DeleteCandidate
  <2>2. PICK i \in DOMAIN sweep.list :
          LET rest == [j \in DOMAIN sweep.list \ {i} |-> sweep.list[j]] IN
          \/ /\ tagList' = R!Without(sweep.list[i])
             /\ sweep' = [sweep EXCEPT !.list = rest, !.deleted = @ + 1]
             /\ UNCHANGED policy
          \/ /\ R!Spend("events")
             /\ sweep' = [sweep EXCEPT !.list = rest]
             /\ UNCHANGED tagList
    BY <1>2 DEF R!DeleteCandidate
  <2> DEFINE rest == [j \in DOMAIN sweep.list \ {i} |-> sweep.list[j]]
  <2>3. rest \in Lists
    <3>1. PICK I \in SUBSET Nat : sweep.list \in [I -> TagNames \union Manifests]
      BY DEF Sweeps, Lists
    <3>2. I \ {i} \in SUBSET Nat /\ rest \in [I \ {i} -> TagNames \union Manifests]
      BY <3>1
    <3> QED  BY <3>2 DEF Lists
  <2>4. \/ sweep' = [sweep EXCEPT !.list = rest, !.deleted = @ + 1]
        \/ sweep' = [sweep EXCEPT !.list = rest]
    BY <2>2
  <2> HIDE DEF rest
  <2>5. sweep' \in Sweeps
    <3>1. sweep.deleted + 1 \in Nat
      BY DEF Sweeps
    <3> DEFINE d == sweep.deleted + 1
    <3>2. \/ sweep' = [sweep EXCEPT !.list = rest, !.deleted = d]
          \/ sweep' = [sweep EXCEPT !.list = rest]
      BY <2>4
    <3> HIDE DEF d
    <3>3. d \in Nat
      BY <3>1 DEF d
    <3> QED  BY <2>3, <3>2, <3>3 DEF Sweeps
  <2>6. tagList' = R!Without(sweep.list[i]) \/ tagList' = tagList
    BY <2>2
  <2>7. TablesOK'
    BY <2>1, <2>6, WithoutFacts DEF TablesOK, Unique
  <2>8. policy' \in SweepPolicies
    BY <2>2, SpendFacts DEF HistoryOK
  <2> QED  BY <2>1, <2>5, <2>7, <2>8 DEF RepushOK, HistoryOK
<1>3. CASE R!RetentionDone \/ R!PruneDone
  <2>1. UNCHANGED <<kept, old, tagList, repush, reused, named, withdrawn, policy>>
        /\ (sweep' = R!NoGC \/ sweep' = [R!NoGC EXCEPT !.at = "prune"])
    BY <1>3 DEF R!RetentionDone, R!PruneDone
  <2>2. TablesOK' /\ RepushOK' /\ HistoryOK'
    BY <2>1 DEF TablesOK, RepushOK, HistoryOK, Unique
  <2>3. sweep' \in Sweeps
    BY SweepAtRest, <2>1 DEF Sweeps, R!NoGC
  <2> QED  BY <2>2, <2>3
<1>4. CASE R!PruneUntagged
  <2>1. PICK S \in SUBSET R!Untagged :
          /\ R!Cardinality(S) = IF R!Cardinality(R!Untagged) < policy.batch
                              THEN R!Cardinality(R!Untagged) ELSE policy.batch
          /\ kept' = kept \ S /\ old' = old \ S
          /\ sweep' = IF S = {} THEN R!NoGC
                      ELSE [sweep EXCEPT !.at = "record", !.more = R!Cardinality(S) = policy.batch,
                                         !.pruned = IF policy.owned THEN S ELSE {}]
    BY <1>4, Zenon DEF R!PruneUntagged
  <2>2. UNCHANGED <<tagList, repush, reused, named, withdrawn, policy>>
    BY <1>4 DEF R!PruneUntagged
  <2>3. TablesOK' /\ RepushOK' /\ HistoryOK'
    BY <2>1, <2>2 DEF TablesOK, RepushOK, HistoryOK, Unique
  <2>4. S \subseteq Manifests
    BY <2>1 DEF R!Untagged, TablesOK
  <2>5. R!NoGC \in Sweeps
    BY SweepAtRest
  <2> DEFINE more == R!Cardinality(S) = policy.batch
             Taken == IF policy.owned THEN S ELSE {}
  <2>6. more \in BOOLEAN /\ Taken \subseteq Manifests
    BY <2>4
  <2>7. sweep' = R!NoGC \/ sweep' = [sweep EXCEPT !.at = "record", !.more = more, !.pruned = Taken]
    BY <2>1
  <2> HIDE DEF more, Taken
  <2>8. sweep' \in Sweeps
    BY <2>5, <2>6, <2>7 DEF Sweeps
  <2> QED  BY <2>3, <2>8
<1>5. ASSUME NEW m \in Manifests, R!RecordDeletedManifest(m) PROVE SweepType'
  <2>1. UNCHANGED <<kept, old, tagList, repush, reused, named, withdrawn>>
        /\ (policy' = policy \/ R!Spend("events"))
        /\ sweep' = [sweep EXCEPT !.at = "publish", !.list = <<m>>]
    BY <1>5 DEF R!RecordDeletedManifest
  <2>2. policy' \in SweepPolicies
    BY <2>1, SpendFacts DEF HistoryOK
  <2>5. TablesOK' /\ RepushOK' /\ HistoryOK'
    BY <2>1, <2>2 DEF TablesOK, RepushOK, HistoryOK, Unique
  <2>3. <<m>> \in Lists
    <3>1. <<m>> \in [{1} -> TagNames \union Manifests] /\ {1} \in SUBSET Nat
      OBVIOUS
    <3> QED  BY <3>1 DEF Lists
  <2>4. sweep' \in Sweeps
    BY <2>1, <2>3 DEF Sweeps
  <2> QED  BY <2>4, <2>5
<1>6. CASE R!PublishManifestDelete
  <2>1. UNCHANGED <<kept, old, tagList, repush, reused, named, withdrawn>>
        /\ (policy' = policy \/ R!Spend("events"))
        /\ sweep' = [sweep EXCEPT !.at = "record", !.pruned = @ \ {sweep.list[1]}, !.list = <<>>]
    BY <1>6 DEF R!PublishManifestDelete
  <2>2. policy' \in SweepPolicies
    BY <2>1, SpendFacts DEF HistoryOK
  <2>3. TablesOK' /\ RepushOK' /\ HistoryOK'
    BY <2>1, <2>2 DEF TablesOK, RepushOK, HistoryOK, Unique
  <2>4. <<>> \in Lists
    BY SweepAtRest
  <2>5. sweep' \in Sweeps
    BY <2>1, <2>4 DEF Sweeps
  <2> QED  BY <2>3, <2>5
<1>7. ASSUME NEW c \in Clients, NEW m \in Manifests, NEW t \in TagNames \union {None}, R!Push(c, m, t)
      PROVE  SweepType'
  <2>1. /\ UNCHANGED <<kept, old, tagList, sweep, named, withdrawn>>
        /\ repush' = [repush EXCEPT ![c] = [at |-> "store", manifest |-> m, tag |-> t]]
        /\ reused' \subseteq reused \union {m}
        /\ R!Spend("pushes")
    BY <1>7 DEF R!Push
  <2>2. TablesOK' /\ sweep' \in Sweeps
    BY <2>1 DEF TablesOK, Unique
  <2>3. [at |-> "store", manifest |-> m, tag |-> t] \in SweepPushes
    BY DEF SweepPushes
  <2>4. RepushOK'
    BY <2>1, <2>3 DEF RepushOK
  <2>5. policy' \in SweepPolicies
    BY <2>1, SpendFacts DEF HistoryOK
  <2> QED  BY <2>1, <2>2, <2>4, <2>5 DEF HistoryOK
<1>8. ASSUME NEW c \in Clients, R!PutManifestWithLayers(c) PROVE SweepType'
  <2>1. /\ UNCHANGED <<old, tagList, sweep, reused, named, withdrawn, policy>>
        /\ kept' = kept \union {repush[c].manifest}
        /\ repush[c].at = "store"
        /\ repush' = [repush EXCEPT ![c].at = IF repush[c].tag = None THEN "publish" ELSE "tag"]
    BY <1>8 DEF R!PutManifestWithLayers
  <2>2. repush[c] \in SweepPushes /\ repush[c].manifest \in Manifests
    BY <2>1 DEF RepushOK
  <2>3. TablesOK'
    BY <2>1, <2>2 DEF TablesOK, Unique
  <2> DEFINE at == IF repush[c].tag = None THEN "publish" ELSE "tag"
             p  == [repush[c] EXCEPT !.at = at]
  <2>4. p \in SweepPushes /\ p.manifest \in Manifests /\ (p.at = "tag" => p.tag \in TagNames)
    BY <2>2 DEF SweepPushes
  <2>5. repush' = [repush EXCEPT ![c] = p]
    BY <2>1, <2>2 DEF RepushOK
  <2> HIDE DEF p
  <2>6. RepushOK'
    BY <2>4, <2>5 DEF RepushOK
  <2> QED  BY <2>1, <2>3, <2>6 DEF HistoryOK
<1>9. ASSUME NEW c \in Clients, R!PutTag(c) PROVE SweepType'
  <2> DEFINE t == repush[c].tag
             m == repush[c].manifest
             w == R!Without(t)
  <2>1. /\ UNCHANGED <<kept, old, sweep, reused, withdrawn, policy>>
        /\ tagList' = <<<<t, m>>>> \o w
        /\ repush[c].at = "tag"
        /\ named' \subseteq named \union {t} /\ (named' = named \/ named' = named \union {t})
        /\ repush' = [repush EXCEPT ![c].at = "publish"]
    BY <1>9 DEF R!PutTag
  <2>2. repush[c] \in SweepPushes /\ m \in Manifests /\ t \in TagNames
    BY <2>1 DEF RepushOK
  <2> DEFINE p == [repush[c] EXCEPT !.at = "publish"]
  <2>4. p \in SweepPushes /\ p.manifest \in Manifests /\ p.at # "tag"
    BY <2>2 DEF SweepPushes
  <2>5. repush' = [repush EXCEPT ![c] = p]
    BY <2>1, <2>2 DEF RepushOK
  <2> HIDE DEF p, t, m, w
  <2>6. RepushOK'
    BY <2>4, <2>5 DEF RepushOK
  <2>7. Unique(w) /\ \A k \in 1..Len(w) : w[k][1] # t
    BY WithoutFacts, RemovedFacts DEF TablesOK, w
  <2>8. Unique(tagList')
    BY <2>1, <2>2, <2>7, PrependFacts
  <2>9. TablesOK'
    BY <2>1, <2>8 DEF TablesOK, Unique
  <2>10. HistoryOK'
    BY <2>1, <2>2, FS_AddElement DEF HistoryOK
  <2> QED  BY <2>1, <2>6, <2>9, <2>10
<1>10. ASSUME NEW c \in Clients, R!PublishManifest(c) PROVE SweepType'
  <2>1. /\ UNCHANGED <<kept, old, tagList, sweep, named, withdrawn>>
        /\ reused' \subseteq reused /\ (policy' = policy \/ R!Spend("events"))
        /\ repush' = [repush EXCEPT ![c] = R!NoPush]
    BY <1>10 DEF R!PublishManifest
  <2>2. R!NoPush \in SweepPushes /\ R!NoPush.at = "idle"
    BY DEF SweepPushes, R!NoPush
  <2>3. RepushOK'
    BY <2>1, <2>2 DEF RepushOK
  <2>4. policy' \in SweepPolicies
    BY <2>1, SpendFacts DEF HistoryOK
  <2> QED  BY <2>1, <2>3, <2>4 DEF TablesOK, HistoryOK, Unique
<1>11. ASSUME NEW t \in TagNames, R!DeleteTag(t) PROVE SweepType'
  <2>1. /\ UNCHANGED <<kept, old, sweep, repush, reused, named>>
        /\ tagList' = R!Without(t)
        /\ (withdrawn' = withdrawn \/ withdrawn' = withdrawn + 1)
        /\ R!Spend("events")
    BY <1>11 DEF R!DeleteTag
  <2>2. policy' \in SweepPolicies
    BY <2>1, SpendFacts DEF HistoryOK
  <2>3. TablesOK'
    BY <2>1, WithoutFacts DEF TablesOK, Unique
  <2> QED  BY <2>1, <2>2, <2>3 DEF RepushOK, HistoryOK
<1>12. ASSUME NEW m \in Manifests, R!AgeManifest(m) PROVE SweepType'
  <2>1. /\ UNCHANGED <<kept, tagList, sweep, repush, reused, named, withdrawn, policy>>
        /\ m \in kept /\ old' = old \union {m}
    BY <1>12 DEF R!AgeManifest
  <2> QED  BY <2>1 DEF TablesOK, RepushOK, HistoryOK, Unique
<1>13. CASE R!AgeTag \/ UNCHANGED R!vars
  <2>1. UNCHANGED <<kept, old, tagList, sweep, repush, reused, named, withdrawn, policy>>
    BY <1>13 DEF R!AgeTag, R!vars
  <2> QED  BY <2>1 DEF TablesOK, RepushOK, HistoryOK, Unique
<1>14. CASE R!Restart
  <2>1. /\ UNCHANGED <<kept, old, tagList, reused, named, withdrawn>>
        /\ repush' = [c \in Clients |-> R!NoPush] /\ sweep' = R!NoGC
        /\ R!Spend("events")
    BY <1>14 DEF R!Restart
  <2>2. policy' \in SweepPolicies
    BY <2>1, SpendFacts DEF HistoryOK
  <2>3. RepushOK'
    BY <2>1 DEF RepushOK, SweepPushes, R!NoPush
  <2>4. sweep' \in Sweeps
    BY <2>1, SweepAtRest
  <2> QED  BY <2>1, <2>2, <2>3, <2>4 DEF TablesOK, HistoryOK, Unique
<1> QED
  BY <1>1, <1>2, <1>3, <1>4, <1>5, <1>6, <1>7, <1>8, <1>9, <1>10, <1>11, <1>12, <1>13, <1>14
     DEF R!Next

-----------------------------------------------------------------------------
\* The tags as a set: a name is a tag of a manifest.
Pairs(s) == {s[i] : i \in DOMAIN s}

\* DELETE takes one name of the set, PutTag gives it another manifest.
LEMMA PairsFacts ==
  ASSUME Unique(tagList), NEW t
  PROVE  /\ Pairs(R!Without(t)) = {e \in Pairs(tagList) : e[1] # t}
         /\ R!Tagged = {e[2] : e \in Pairs(tagList)}
         /\ \A m \in Manifests :
              t \in TagNames => Pairs(<<<<t, m>>>> \o R!Without(t))
                                  = Pairs(R!Without(t)) \union {<<t, m>>}
<1> DEFINE w == R!Without(t)
<1>1. DOMAIN tagList = 1..Len(tagList)
  BY DEF Unique
<1>2. Unique(w) /\ w = Removed(tagList, t)
  BY WithoutFacts
<1>3. /\ \A k \in 1..Len(w) : \E i \in 1..Len(tagList) : w[k] = tagList[i] /\ tagList[i][1] # t
      /\ \A i \in 1..Len(tagList) : tagList[i][1] # t => \E k \in 1..Len(w) : w[k] = tagList[i]
  BY <1>2, RemovedFacts
<1>4. DOMAIN w = 1..Len(w) /\ Len(w) \in Nat
  BY <1>2 DEF Unique
<1> HIDE DEF w
<1>5. Pairs(w) = {e \in Pairs(tagList) : e[1] # t}
  <2>1. ASSUME NEW k \in 1..Len(w) PROVE w[k] \in {e \in Pairs(tagList) : e[1] # t}
    <3>1. PICK i \in 1..Len(tagList) : w[k] = tagList[i] /\ tagList[i][1] # t
      BY <1>3
    <3>2. tagList[i] \in Pairs(tagList)
      BY <1>1 DEF Pairs
    <3> QED  BY <3>1, <3>2
  <2>2. ASSUME NEW i \in 1..Len(tagList), tagList[i][1] # t PROVE tagList[i] \in Pairs(w)
    <3>1. PICK k \in 1..Len(w) : w[k] = tagList[i]
      BY <1>3, <2>2
    <3>2. w[k] \in Pairs(w)
      BY <1>4 DEF Pairs
    <3> QED  BY <3>1, <3>2
  <2>3. Pairs(w) \subseteq {e \in Pairs(tagList) : e[1] # t}
    <3>1. \A f : f \in Pairs(w) => \E k \in 1..Len(w) : f = w[k]
      BY <1>4 DEF Pairs
    <3> QED  BY <3>1, <2>1
  <2>4. \A f : f \in Pairs(tagList) => \E i \in 1..Len(tagList) : f = tagList[i]
    BY <1>1 DEF Pairs
  <2>5. {e \in Pairs(tagList) : e[1] # t} \subseteq Pairs(w)
    BY <2>4, <2>2
  <2> QED  BY <2>3, <2>5
<1>6. R!Tagged = {e[2] : e \in Pairs(tagList)}
  BY DEF R!Tagged, Pairs
<1>7. ASSUME NEW m \in Manifests, t \in TagNames
      PROVE  Pairs(<<<<t, m>>>> \o w) = Pairs(w) \union {<<t, m>>}
  <2> DEFINE v == <<<<t, m>>>> \o w
  <2>1. \A k \in 1..Len(w) : w[k][1] # t
    BY <1>3
  <2>2. Unique(v) /\ Len(v) = Len(w) + 1 /\ v[1] = <<t, m>> /\ \A k \in 1..Len(w) : v[k + 1] = w[k]
    BY <1>2, <1>7, <2>1, PrependFacts
  <2>3. DOMAIN v = 1..Len(v)
    BY <2>2 DEF Unique
  <2> HIDE DEF v
  <2>4. /\ 1 \in 1..Len(v)
        /\ \A k \in 1..Len(w) : k + 1 \in 1..Len(v)
        /\ \A k \in 1..Len(v) : k # 1 => k - 1 \in 1..Len(w) /\ (k - 1) + 1 = k
    BY <1>4, <2>2
  <2>5. ASSUME NEW e PROVE e \in Pairs(v) <=> e \in Pairs(w) \union {<<t, m>>}
    <3>1. ASSUME NEW k \in 1..Len(v) PROVE v[k] \in Pairs(w) \union {<<t, m>>}
      <4>1. CASE k = 1
        BY <4>1, <2>2
      <4>2. CASE k # 1
        <5>1. k - 1 \in DOMAIN w /\ v[k] = w[k - 1]
          BY <4>2, <2>4, <2>2, <1>4
        <5> QED  BY <5>1 DEF Pairs
      <4> QED  BY <4>1, <4>2
    <3>2. ASSUME NEW k \in 1..Len(w) PROVE w[k] \in Pairs(v)
      <4>1. k + 1 \in DOMAIN v /\ v[k + 1] = w[k]
        BY <2>4, <2>2, <2>3
      <4> QED  BY <4>1 DEF Pairs
    <3>3. <<t, m>> \in Pairs(v)
      BY <2>2, <2>3, <2>4 DEF Pairs
    <3>4. \A f : f \in Pairs(w) => \E k \in 1..Len(w) : f = w[k]
      BY <1>4 DEF Pairs
    <3>5. \A f : f \in Pairs(v) => \E k \in 1..Len(v) : f = v[k]
      BY <2>3 DEF Pairs
    <3>6. CASE e \in Pairs(v)
      BY <3>1, <3>5, <3>6
    <3>7. CASE e \in Pairs(w)
      BY <3>2, <3>4, <3>7
    <3> QED  BY <3>3, <3>6, <3>7
  <2> QED  BY <2>5 DEF v
<1> QED  BY <1>5, <1>6, <1>7 DEF w

\* What is pushed for the first time is not old, and its entries are stored.
PushedOK ==
  \A c \in Clients :
    repush[c].at # "idle" /\ repush[c].manifest \notin reused =>
      /\ repush[c].manifest \notin old /\ Parts[repush[c].manifest] \intersect old = {}
      /\ Parts[repush[c].manifest] \subseteq kept
      /\ repush[c].at # "store" => repush[c].manifest \in kept

NothingLost == SweepType /\ PushedOK /\ NothingDangles

\* Nothing is stored at the start.
LEMMA NothingLostInit ==
  ASSUME R!RetentionAssumption, R!Init
  PROVE  NothingLost
<1>1. PushedOK
  BY DEF PushedOK, R!Init, R!NoPush
<1>2. NothingDangles
  BY DEF NothingDangles, R!NothingDangles, R!Init, R!Tagged
<1> QED  BY <1>1, <1>2, SweepTypeInit DEF NothingLost

\* A step that takes nothing from the stored, adds no tag and makes no push.
LEMMA NothingLostKept ==
  ASSUME PushedOK, NothingDangles,
         kept' = kept, old' = old, repush' = repush, reused' = reused,
         R!Tagged' \subseteq R!Tagged
  PROVE  PushedOK' /\ NothingDangles'
BY DEF PushedOK, NothingDangles, R!NothingDangles

\* No step leaves a tag or an index without its manifests: what PruneUntagged takes
\* is old, and so neither tagged, nor part of an index, nor pushed for the first time.
LEMMA NothingLostStep ==
  ASSUME R!RetentionAssumption, NothingLost, [R!Next]_R!vars
  PROVE  NothingLost'
<1>0. SweepType' /\ SweepType /\ PushedOK /\ NothingDangles
  BY SweepTypeStep DEF NothingLost
<1>t. /\ Unique(tagList) /\ Unique(tagList')
      /\ R!Tagged = {e[2] : e \in Pairs(tagList)}
      /\ R!Tagged' = {e[2] : e \in Pairs(tagList')}
  BY <1>0 DEF SweepType, TablesOK, R!Tagged, Pairs
<1>w. ASSUME NEW t PROVE {e[2] : e \in Pairs(R!Without(t))} \subseteq R!Tagged
  BY <1>t, PairsFacts
<1> SUFFICES PushedOK' /\ NothingDangles'
  BY <1>0 DEF NothingLost
<1> USE DEF R!tables, R!history
<1>1. CASE \/ R!Collect \/ R!RetentionDone \/ R!PublishManifestDelete \/ R!PruneDone
           \/ R!AgeTag \/ UNCHANGED R!vars
           \/ \E m \in Manifests : R!RecordDeletedManifest(m)
  <2>1. UNCHANGED <<kept, old, repush, reused, tagList>>
    BY <1>1 DEF R!Collect, R!RetentionDone, R!PublishManifestDelete, R!PruneDone, R!AgeTag,
                R!RecordDeletedManifest, R!vars
  <2>2. R!Tagged' = R!Tagged
    BY <1>t, <2>1
  <2> QED  BY <1>0, <2>1, <2>2, NothingLostKept
<1>2. CASE R!DeleteCandidate \/ \E t \in TagNames : R!DeleteTag(t)
  <2>1. UNCHANGED <<kept, old, repush, reused>>
        /\ (tagList' = tagList \/ \E t : tagList' = R!Without(t))
    BY <1>2 DEF R!DeleteCandidate, R!DeleteTag
  <2>2. R!Tagged' \subseteq R!Tagged
    BY <1>t, <1>w, <2>1
  <2> QED  BY <1>0, <2>1, <2>2, NothingLostKept
<1>3. CASE R!PruneUntagged
  <2>1. PICK S \in SUBSET R!Untagged : kept' = kept \ S /\ old' = old \ S
    BY <1>3, Zenon DEF R!PruneUntagged
  <2>2. UNCHANGED <<tagList, repush, reused>>
    BY <1>3 DEF R!PruneUntagged
  <2>3. ASSUME NEW m \in S
        PROVE  m \in old /\ m \notin R!Tagged /\ ~\E r \in kept : m \in Parts[r]
    BY <2>1 DEF R!Untagged
  <2>4. R!Tagged' = R!Tagged
    BY <1>t, <2>2
  <2>5. NothingDangles'
    BY <1>0, <2>1, <2>2, <2>3, <2>4 DEF NothingDangles, R!NothingDangles
  <2>6. PushedOK'
    BY <1>0, <2>1, <2>2, <2>3 DEF PushedOK
  <2> QED  BY <2>5, <2>6
<1>4. ASSUME NEW c \in Clients, NEW m \in Manifests, NEW t \in TagNames \union {None}, R!Push(c, m, t)
      PROVE  PushedOK' /\ NothingDangles'
  <2>1. /\ UNCHANGED <<kept, old, tagList>>
        /\ Parts[m] \subseteq kept
        /\ repush' = [repush EXCEPT ![c] = [at |-> "store", manifest |-> m, tag |-> t]]
        /\ reused' = IF ({m} \union Parts[m]) \intersect old # {} THEN reused \union {m} ELSE reused
    BY <1>4 DEF R!Push
  <2>2. R!Tagged' = R!Tagged
    BY <1>t, <2>1
  <2>3. reused \subseteq reused'
    BY <2>1
  <2>4. NothingDangles'
    BY <1>0, <2>1, <2>2, <2>3 DEF NothingDangles, R!NothingDangles
  <2>5. ASSUME NEW d \in Clients, repush'[d].manifest \notin reused', repush'[d].at # "idle"
        PROVE  /\ repush'[d].manifest \notin old' /\ Parts[repush'[d].manifest] \intersect old' = {}
               /\ Parts[repush'[d].manifest] \subseteq kept'
               /\ repush'[d].at # "store" => repush'[d].manifest \in kept'
    <3>1. CASE d = c
      <4>1. repush'[d].manifest = m /\ repush'[d].at = "store"
        BY <1>0, <2>1, <3>1 DEF SweepType, RepushOK
      <4>2. m \notin reused'
        BY <4>1, <2>5
      <4>3. ({m} \union Parts[m]) \intersect old = {}
        BY <2>1, <4>2
      <4> QED  BY <2>1, <4>1, <4>3
    <3>2. CASE d # c
      <4>1. repush'[d] = repush[d]
        BY <1>0, <2>1, <3>2 DEF SweepType, RepushOK
      <4> QED  BY <1>0, <2>1, <2>3, <2>5, <4>1 DEF PushedOK
    <3> QED  BY <3>1, <3>2
  <2>6. PushedOK'
    BY <2>5 DEF PushedOK
  <2> QED  BY <2>4, <2>6
<1>5. ASSUME NEW c \in Clients, R!PutManifestWithLayers(c) PROVE PushedOK' /\ NothingDangles'
  <2> DEFINE m == repush[c].manifest
  <2>1. /\ UNCHANGED <<old, tagList, reused>>
        /\ kept' = kept \union {m} /\ repush[c].at = "store"
        /\ repush' = [repush EXCEPT ![c].at = IF repush[c].tag = None THEN "publish" ELSE "tag"]
    BY <1>5 DEF R!PutManifestWithLayers
  <2>2. R!Tagged' = R!Tagged
    BY <1>t, <2>1
  <2>3. m \in Manifests /\ (m \notin reused => Parts[m] \subseteq kept)
    BY <1>0, <2>1 DEF SweepType, RepushOK, PushedOK
  <2>4. NothingDangles'
    BY <1>0, <2>1, <2>2, <2>3 DEF NothingDangles, R!NothingDangles
  <2>5. ASSUME NEW d \in Clients
        PROVE  /\ repush'[d].manifest = repush[d].manifest
               /\ repush'[d].at # "idle" => repush[d].at # "idle"
               /\ d # c => repush'[d] = repush[d]
    BY <1>0, <2>1 DEF SweepType, RepushOK, SweepPushes
  <2>6. PushedOK'
    BY <1>0, <2>1, <2>5 DEF PushedOK
  <2> QED  BY <2>4, <2>6
<1>6. ASSUME NEW c \in Clients, R!PutTag(c) PROVE PushedOK' /\ NothingDangles'
  <2> DEFINE m == repush[c].manifest
             t == repush[c].tag
  <2>1. /\ UNCHANGED <<kept, old, reused>>
        /\ repush[c].at = "tag"
        /\ tagList' = <<<<t, m>>>> \o R!Without(t)
        /\ repush' = [repush EXCEPT ![c].at = "publish"]
    BY <1>6 DEF R!PutTag
  <2>2. m \in Manifests /\ t \in TagNames /\ (m \notin reused => m \in kept)
    BY <1>0, <2>1 DEF SweepType, RepushOK, PushedOK
  <2>3. Pairs(tagList') = Pairs(R!Without(t)) \union {<<t, m>>}
    BY <1>t, <2>1, <2>2, PairsFacts
  <2>4. R!Tagged' \subseteq R!Tagged \union {m}
    <3>1. ASSUME NEW e \in Pairs(R!Without(t)) PROVE e[2] \in R!Tagged
      BY <1>w
    <3>2. <<t, m>>[2] = m
      OBVIOUS
    <3>3. ASSUME NEW e \in Pairs(tagList') PROVE e[2] \in R!Tagged \union {m}
      BY <2>3, <3>1, <3>2
    <3> QED  BY <1>t, <3>3
  <2>5. NothingDangles'
    BY <1>0, <2>1, <2>2, <2>4 DEF NothingDangles, R!NothingDangles
  <2>6. ASSUME NEW d \in Clients
        PROVE  /\ repush'[d].manifest = repush[d].manifest
               /\ repush'[d].at # "idle" => repush[d].at # "idle"
               /\ repush'[d].at # "store" => repush[d].at # "store"
    BY <1>0, <2>1 DEF SweepType, RepushOK, SweepPushes
  <2>7. PushedOK'
    BY <1>0, <2>1, <2>6 DEF PushedOK
  <2> QED  BY <2>5, <2>7
<1>7. ASSUME NEW c \in Clients, R!PublishManifest(c) PROVE PushedOK' /\ NothingDangles'
  <2> DEFINE m == repush[c].manifest
  <2>1. /\ UNCHANGED <<kept, old, tagList>>
        /\ repush[c].at = "publish"
        /\ repush' = [repush EXCEPT ![c] = R!NoPush]
        /\ \/ reused' = reused
           \/ /\ reused' = reused \ {m} /\ m \in kept /\ Parts[m] \subseteq kept
              /\ \A d \in Clients \ {c} : repush[d].at # "idle" => repush[d].manifest # m
    BY <1>7 DEF R!PublishManifest
  <2>2. R!Tagged' = R!Tagged
    BY <1>t, <2>1
  <2>3. NothingDangles'
    <3>1. ASSUME NEW x, x \notin reused' PROVE x \notin reused \/ (x \in kept /\ Parts[x] \subseteq kept)
      BY <2>1, <3>1
    <3>2. kept' = kept
      BY <2>1
    <3> QED  BY <1>0, <2>2, <3>1, <3>2 DEF NothingDangles, R!NothingDangles
  <2>4. ASSUME NEW d \in Clients, repush'[d].at # "idle", repush'[d].manifest \notin reused'
        PROVE  repush'[d] = repush[d] /\ repush[d].manifest \notin reused
    <3>1. d # c /\ repush'[d] = repush[d]
      BY <1>0, <2>1, <2>4 DEF SweepType, RepushOK, R!NoPush
    <3> QED  BY <2>1, <2>4, <3>1
  <2>5. PushedOK'
    BY <1>0, <2>1, <2>4 DEF PushedOK
  <2> QED  BY <2>3, <2>5
<1>8. ASSUME NEW m \in Manifests, R!AgeManifest(m) PROVE PushedOK' /\ NothingDangles'
  <2>1. /\ UNCHANGED <<kept, tagList, repush, reused>>
        /\ old' = old \union {m}
        /\ \A c \in Clients : repush[c].at # "idle" =>
             m \notin {repush[c].manifest} \union Parts[repush[c].manifest]
    BY <1>8 DEF R!AgeManifest
  <2>2. R!Tagged' = R!Tagged
    BY <1>t, <2>1
  <2>3. NothingDangles'
    BY <1>0, <2>1, <2>2 DEF NothingDangles, R!NothingDangles
  <2>4. PushedOK'
    BY <1>0, <2>1 DEF PushedOK
  <2> QED  BY <2>3, <2>4
<1>9. CASE R!Restart
  <2>1. /\ UNCHANGED <<kept, old, tagList, reused>>
        /\ repush' = [c \in Clients |-> R!NoPush]
    BY <1>9 DEF R!Restart
  <2>2. R!Tagged' = R!Tagged
    BY <1>t, <2>1
  <2>3. NothingDangles'
    BY <1>0, <2>1, <2>2 DEF NothingDangles, R!NothingDangles
  <2>4. PushedOK'
    BY <2>1 DEF PushedOK, R!NoPush
  <2> QED  BY <2>3, <2>4
<1> QED
  BY <1>0, <1>1, <1>2, <1>3, <1>4, <1>5, <1>6, <1>7, <1>8, <1>9 DEF R!Next, NothingLost

(***************************************************************************)
(* Whatever the constants are, no tag names a manifest the collector took, *)
(* and no stored index an entry it took (PruneUntaggedManifests), except   *)
(* what was pushed again when it was old.                                  *)
(***************************************************************************)
THEOREM CollectorLeavesNothingDangling ==
  ASSUME R!RetentionAssumption
  PROVE  R!Spec => []NothingDangles
<1>1. R!Init => NothingLost
  BY NothingLostInit
<1>2. NothingLost /\ [R!Next]_R!vars => NothingLost'
  BY NothingLostStep
<1>3. NothingLost => NothingDangles
  BY DEF NothingLost
<1> QED  BY <1>1, <1>2, <1>3, PTL DEF R!Spec

-----------------------------------------------------------------------------
\* The names of the tags at some positions, and of those no pattern pins.
NamesAt(I) == {tagList[i][1] : i \in I}

UnpinnedNames == NamesAt(R!Unpinned)

\* What the collector is still to delete.
Listed == {sweep.list[i] : i \in DOMAIN sweep.list}

\* Of the names N that were pushed and the names U there are, less w withdrawn.
Enough(U, N, w, k) ==
  /\ U \subseteq N /\ IsFiniteSet(N) /\ w \in Nat /\ k \in Nat
  /\ \/ Cardinality(U) + w >= Cardinality(N)
     \/ k > 0 /\ Cardinality(U) + w >= k

\* Without those that are listed.
Spared(U, L, w, k) == IsFiniteSet(U) /\ w \in Nat /\ k \in Nat /\ Cardinality(U \ L) + w >= k

\* A part of a finite set is finite and not larger.
LEMMA SubsetCardinality ==
  ASSUME NEW B, IsFiniteSet(B), NEW A, A \subseteq B
  PROVE  IsFiniteSet(A) /\ Cardinality(A) \in Nat /\ Cardinality(B) \in Nat
         /\ Cardinality(A) <= Cardinality(B)
BY FS_Subset, FS_CardinalityType

\* PutTag
LEMMA EnoughWithOneMore ==
  ASSUME NEW U, NEW N, NEW w, NEW k, NEW t, Enough(U, N, w, k)
  PROVE  Enough(U \union {t}, N \union {t}, w, k)
<1>1. IsFiniteSet(N) /\ U \subseteq N /\ IsFiniteSet(U) /\ w \in Nat /\ k \in Nat
  BY SubsetCardinality DEF Enough
<1>2. /\ IsFiniteSet(N \union {t})
      /\ Cardinality(N \union {t}) = IF t \in N THEN Cardinality(N) ELSE Cardinality(N) + 1
      /\ Cardinality(U \union {t}) = IF t \in U THEN Cardinality(U) ELSE Cardinality(U) + 1
      /\ Cardinality(N) \in Nat /\ Cardinality(U) \in Nat
  BY <1>1, FS_AddElement, FS_CardinalityType
<1>3. t \in U => t \in N
  BY <1>1
<1>4. Cardinality(U) + w >= Cardinality(N) \/ (k > 0 /\ Cardinality(U) + w >= k)
  BY DEF Enough
<1>5. \/ Cardinality(U \union {t}) + w >= Cardinality(N \union {t})
      \/ k > 0 /\ Cardinality(U \union {t}) + w >= k
  BY <1>1, <1>2, <1>3, <1>4
<1> QED  BY <1>1, <1>2, <1>5 DEF Enough

\* More names, or fewer of them listed.
LEMMA SparedMore ==
  ASSUME NEW U, NEW L, NEW w, NEW k, Spared(U, L, w, k),
         NEW V, NEW M, IsFiniteSet(V), U \ L \subseteq V \ M
  PROVE  Spared(V, M, w, k)
<1>1. IsFiniteSet(V \ M)
  BY SubsetCardinality
<1>2. Cardinality(U \ L) <= Cardinality(V \ M) /\ Cardinality(U \ L) \in Nat /\ Cardinality(V \ M) \in Nat
  BY <1>1, SubsetCardinality
<1> QED  BY <1>2 DEF Spared

\* DeleteTag
LEMMA OneWithdrawn ==
  ASSUME NEW U, NEW w, NEW t, IsFiniteSet(U), w \in Nat
  PROVE  /\ \A N, k : Enough(U, N, w, k) => Enough(U \ {t}, N, w + 1, k)
         /\ \A L, k : Spared(U, L, w, k) => Spared(U \ {t}, L, w + 1, k)
<1>1. ASSUME NEW A, IsFiniteSet(A)
      PROVE  /\ IsFiniteSet(A \ {t})
             /\ Cardinality(A \ {t}) \in Nat /\ Cardinality(A) \in Nat
             /\ Cardinality(A \ {t}) + 1 >= Cardinality(A)
  <2>1. /\ IsFiniteSet(A \ {t}) /\ Cardinality(A) \in Nat
        /\ Cardinality(A \ {t}) = IF t \in A THEN Cardinality(A) - 1 ELSE Cardinality(A)
    BY <1>1, FS_RemoveElement, FS_CardinalityType
  <2>2. Cardinality(A \ {t}) \in Nat
    BY <2>1, FS_CardinalityType
  <2> QED  BY <2>1, <2>2
<1>2. ASSUME NEW N, NEW k, Enough(U, N, w, k) PROVE Enough(U \ {t}, N, w + 1, k)
  <2>1. U \ {t} \subseteq N /\ IsFiniteSet(N) /\ w + 1 \in Nat /\ k \in Nat /\ Cardinality(N) \in Nat
    BY <1>2, FS_CardinalityType DEF Enough
  <2>2. /\ Cardinality(U \ {t}) \in Nat /\ Cardinality(U) \in Nat
        /\ Cardinality(U \ {t}) + 1 >= Cardinality(U)
    BY <1>1
  <2>3. Cardinality(U) + w >= Cardinality(N) \/ (k > 0 /\ Cardinality(U) + w >= k)
    BY <1>2 DEF Enough
  <2>4. Cardinality(U \ {t}) + (w + 1) >= Cardinality(N) \/ (k > 0 /\ Cardinality(U \ {t}) + (w + 1) >= k)
    BY <2>1, <2>2, <2>3
  <2> QED  BY <2>1, <2>4 DEF Enough
<1>3. ASSUME NEW L, NEW k, Spared(U, L, w, k) PROVE Spared(U \ {t}, L, w + 1, k)
  <2>1. IsFiniteSet(U \ L) /\ (U \ {t}) \ L = (U \ L) \ {t}
    BY SubsetCardinality
  <2>2. /\ Cardinality((U \ L) \ {t}) \in Nat /\ Cardinality(U \ L) \in Nat
        /\ Cardinality((U \ L) \ {t}) + 1 >= Cardinality(U \ L)
    BY <1>1, <2>1
  <2>3. Cardinality(U \ L) + w >= k /\ k \in Nat
    BY <1>3 DEF Spared
  <2>4. Cardinality((U \ {t}) \ L) + (w + 1) >= k
    <3> DEFINE a == Cardinality((U \ L) \ {t})
               b == Cardinality(U \ L)
    <3>1. Cardinality((U \ {t}) \ L) = a
      BY <2>1
    <3>2. a \in Nat /\ b \in Nat /\ a + 1 >= b /\ b + w >= k /\ k \in Nat
      BY <2>2, <2>3
    <3> HIDE DEF a, b
    <3>3. a + (w + 1) >= k
      BY <3>2
    <3> QED  BY <3>1, <3>3
  <2>5. IsFiniteSet(U \ {t}) /\ w + 1 \in Nat
    BY <1>1
  <2> QED  BY <2>3, <2>4, <2>5 DEF Spared
<1> QED  BY <1>2, <1>3

\* DeleteTag by the collector: what is not listed is enough.
LEMMA SparedIsEnough ==
  ASSUME NEW U, NEW L, NEW w, NEW k, Spared(U, L, w, k), k > 0,
         NEW N, IsFiniteSet(N), U \subseteq N
  PROVE  Enough(U, N, w, k)
<1>1. Cardinality(U \ L) <= Cardinality(U) /\ Cardinality(U \ L) \in Nat /\ Cardinality(U) \in Nat
  BY SubsetCardinality DEF Spared
<1> QED  BY <1>1 DEF Spared, Enough

\* A name is at one position only.
LEMMA NamesAtFacts ==
  ASSUME Unique(tagList), NEW I, I \subseteq 1..Len(tagList)
  PROVE  IsFiniteSet(I) /\ IsFiniteSet(NamesAt(I)) /\ Cardinality(NamesAt(I)) = Cardinality(I)
<1>1. Len(tagList) \in Nat /\ \A i, j \in 1..Len(tagList) : tagList[i][1] = tagList[j][1] => i = j
  BY DEF Unique
<1>2. IsFiniteSet(I)
  <2>1. 1 \in Int /\ Len(tagList) \in Int
    BY <1>1
  <2>2. IsFiniteSet(1..Len(tagList))
    BY <2>1, FS_Interval
  <2> QED  BY <2>2, SubsetCardinality
<1> DEFINE f == [i \in I |-> tagList[i][1]]
           T == NamesAt(I)
<1>3. f \in [I -> T] /\ \A i \in I : f[i] = tagList[i][1]
  BY DEF NamesAt
<1>4. \A y \in T : \E i \in I : tagList[i][1] = y
  BY DEF NamesAt
<1> HIDE DEF f, T
<1>5. f \in Bijection(I, T)
  <2>1. IsInjective(f)
    BY <1>1, <1>3 DEF IsInjective
  <2>2. \A y \in T : \E i \in I : f[i] = y
    BY <1>3, <1>4
  <2> QED  BY <1>3, <2>1, <2>2 DEF Bijection, Injection, Surjection
<1>6. ExistsBijection(I, T)
  BY <1>5 DEF ExistsBijection
<1> QED  BY <1>2, <1>6, FS_Bijection DEF T

\* What is on the list leaves keepLastN unpinned tags.
LEMMA CandidatesSpare ==
  ASSUME Unique(tagList), NEW k, R!EffectiveRetention.keepLastN = k, k \in Nat,
         ~R!EffectiveRetention.maxAge, DOMAIN R!Candidates # {}
  PROVE  /\ k > 0
         /\ \E B \in SUBSET R!Unpinned :
              /\ Cardinality(B) >= k
              /\ \A i \in DOMAIN R!Candidates : R!Candidates[i] \notin NamesAt(B)
<1> DEFINE C == DOMAIN R!Candidates
           U == R!Unpinned
           Ahead(i) == {j \in U : j < i}
           T == {Ahead(i) : i \in C}
<1>1. /\ Unique(tagList) /\ U \subseteq 1..Len(tagList) /\ C \subseteq U /\ Len(tagList) \in Nat
      /\ \A i \in C : R!Candidates[i] = tagList[i][1]
  BY CandidatesType DEF Unique
<1>2. \A i \in C : k > 0 /\ Cardinality(Ahead(i)) >= k
  BY SweepCardinality DEF R!Candidates, R!Dropped
<1>3. IsFiniteSet(U) /\ \A i \in Nat : Ahead(i) \in SUBSET U
  BY <1>1, NamesAtFacts
<1>4. \A i, j \in 1..Len(tagList) : tagList[i][1] = tagList[j][1] => i = j
  BY DEF Unique
<1>5. PICK c \in C : \A y \in C : ~(y < c)
  <2>1. T \subseteq FiniteSubsetsOf(U) /\ T # {}
    <3>1. ASSUME NEW i \in C PROVE Ahead(i) \in FiniteSubsetsOf(U)
      BY <1>3, SubsetCardinality DEF FiniteSubsetsOf
    <3> QED  BY <3>1
  <2> DEFINE F == FiniteSubsetsOf(U)
             Below == StrictSubsetOrdering(U)
  <2>2. IsWellFoundedOn(Below, F)
    BY FS_StrictSubsetOrderingWellFounded
  <2> HIDE DEF T, F, Below
  <2>3. PICK x \in T : \A y \in T : <<y, x>> \notin Below
    BY <2>1, <2>2, WFMin DEF F
  <2>4. PICK c \in C : x = Ahead(c)
    BY DEF T
  <2>5. ASSUME NEW y \in C, y < c PROVE FALSE
    <3>1. Ahead(y) \in T
      BY DEF T
    <3>2. y \in Int /\ c \in Int
      BY <1>1
    <3>3. Ahead(y) \subseteq Ahead(c)
      <4>1. ASSUME NEW j \in U, j < y PROVE j < c
        BY <1>1, <2>5, <3>2, <4>1
      <4> QED  BY <4>1
    <3>4. y \in Ahead(c) /\ y \notin Ahead(y)
      BY <1>1, <2>5, <3>2
    <3>5. Ahead(y) # Ahead(c)
      BY <3>4
    <3>6. Ahead(y) \subseteq U /\ Ahead(c) \subseteq U
      OBVIOUS
    <3>7. <<Ahead(y), Ahead(c)>> \in Below
      <4> DEFINE a == Ahead(y)
                 b == Ahead(c)
      <4>1. a \subseteq U /\ b \subseteq U /\ a \subseteq b /\ a # b
        BY <3>3, <3>5, <3>6
      <4> HIDE DEF a, b
      <4>2. <<a, b>> \in Below
        BY <4>1 DEF Below, StrictSubsetOrdering
      <4> QED  BY <4>2 DEF a, b
    <3> QED  BY <2>3, <2>4, <3>1, <3>7
  <2> QED  BY <2>5
<1> DEFINE B == Ahead(c)
<1>6. B \subseteq U /\ B \intersect C = {} /\ Cardinality(B) >= k /\ k > 0
  BY <1>2, <1>5
<1> HIDE DEF B
<1>7. ASSUME NEW i \in C, R!Candidates[i] \in NamesAt(B) PROVE FALSE
  <2>1. PICK j \in B : R!Candidates[i] = tagList[j][1]
    BY <1>7 DEF NamesAt
  <2>2. i = j
    BY <2>1, <1>1, <1>4, <1>6
  <2> QED  BY <2>1, <2>2, <1>6
<1> QED  BY <1>6, <1>7

\* The settings of the repository and its owner stay.
LEMMA SettingsStay ==
  ASSUME R!RetentionAssumption, SweepType, [R!Next]_R!vars
  PROVE  /\ R!EffectiveRetention' = R!EffectiveRetention
         /\ R!EffectiveRetention.keepLastN \in Nat
         /\ policy'.owned = policy.owned
<1>1. policy \in SweepPolicies
  BY DEF SweepType, HistoryOK
<1>2. policy' = policy \/ R!Spend("events") \/ R!Spend("pushes")
  BY DEF R!Next, R!Collect, R!DeleteCandidate, R!RetentionDone, R!PruneUntagged,
         R!RecordDeletedManifest, R!PublishManifestDelete, R!PruneDone, R!Push,
         R!PutManifestWithLayers, R!PutTag, R!PublishManifest, R!DeleteTag, R!AgeManifest,
         R!AgeTag, R!Restart, R!vars, R!history
<1>3. /\ policy'.defaults = policy.defaults /\ policy'.perRepo = policy.perRepo
      /\ policy'.owned = policy.owned
  BY <1>1, <1>2, SpendFacts
<1>4. policy.defaults.keepLastN \in Nat /\ policy.perRepo.keepLastN \in Nat
  BY <1>1 DEF SweepPolicies, R!Settings
<1> QED  BY <1>3, <1>4 DEF R!EffectiveRetention

\* The unpinned positions are as many as the unpinned names.
LEMMA UnpinnedFacts ==
  ASSUME Unique(tagList)
  PROVE  /\ UnpinnedNames = {x \in {e[1] : e \in Pairs(tagList)} : ~R!TagPinned(x)}
         /\ IsFiniteSet(UnpinnedNames) /\ Cardinality(UnpinnedNames) = Cardinality(R!Unpinned)
<1>1. R!Unpinned \subseteq 1..Len(tagList) /\ DOMAIN tagList = 1..Len(tagList)
  BY CandidatesType DEF Unique
<1>2. R!Unpinned = {i \in DOMAIN tagList : ~R!TagPinned(tagList[i][1])}
  BY DEF R!Unpinned, R!ListTagsForRetention
<1>3. ASSUME NEW x
      PROVE  x \in UnpinnedNames <=> /\ \E e \in Pairs(tagList) : x = e[1]
                                     /\ ~R!TagPinned(x)
  BY <1>2 DEF UnpinnedNames, NamesAt, Pairs
<1>4. UnpinnedNames = {x \in {e[1] : e \in Pairs(tagList)} : ~R!TagPinned(x)}
  BY <1>3
<1> QED  BY <1>1, <1>4, NamesAtFacts DEF UnpinnedNames

\* Of the unpinned tags, all or keepLastN are left, also when the collector is done.
KeepInv ==
  LET k == R!EffectiveRetention.keepLastN IN
  ~R!EffectiveRetention.maxAge =>
    /\ Enough(UnpinnedNames, named, withdrawn, k)
    /\ sweep.at = "delete" /\ DOMAIN sweep.list # {} =>
         k > 0 /\ Spared(UnpinnedNames, Listed, withdrawn, k)

\* No name was pushed at the start.
LEMMA KeepInit ==
  ASSUME R!RetentionAssumption, R!Init
  PROVE  KeepInv
<1>1. UnpinnedNames = {} /\ named = {} /\ withdrawn = 0 /\ sweep.at = "idle"
  BY DEF UnpinnedNames, NamesAt, R!Unpinned, R!ListTagsForRetention, R!Init, R!NoGC
<1>2. R!EffectiveRetention.keepLastN \in Nat
  <2>1. policy \in SweepPolicies
    BY SweepTypeInit DEF SweepType, HistoryOK
  <2>2. policy.defaults.keepLastN \in Nat /\ policy.perRepo.keepLastN \in Nat
    BY <2>1 DEF SweepPolicies, R!Settings
  <2> QED  BY <2>2 DEF R!EffectiveRetention
<1> QED  BY <1>1, <1>2, FS_EmptySet DEF KeepInv, Enough

\* Every step keeps as many unpinned names as it must: what Collect lists leaves
\* keepLastN of them, and a tag that is pushed while the list is worked off is one more
\* or, if it is on the list, was not counted.
LEMMA KeepStep ==
  ASSUME R!RetentionAssumption, SweepType, KeepInv, [R!Next]_R!vars
  PROVE  KeepInv'
<1> DEFINE U == UnpinnedNames
           Pins == R!EffectiveRetention.pinned
           k == R!EffectiveRetention.keepLastN
<1>1. /\ R!EffectiveRetention' = R!EffectiveRetention /\ k \in Nat
      /\ Unique(tagList) /\ withdrawn \in Nat /\ named \subseteq TagNames /\ RepushOK
  BY SettingsStay DEF SweepType, TablesOK, HistoryOK
<1>2. CASE R!EffectiveRetention.maxAge
  BY <1>1, <1>2 DEF KeepInv
<1>3. SUFFICES ASSUME ~R!EffectiveRetention.maxAge PROVE KeepInv'
  BY <1>2
<1>4. /\ Enough(U, named, withdrawn, k)
      /\ sweep.at = "delete" /\ DOMAIN sweep.list # {} =>
           k > 0 /\ Spared(U, Listed, withdrawn, k)
  BY <1>3 DEF KeepInv
<1>5. SUFFICES /\ Enough(U', named', withdrawn', k)
               /\ sweep'.at = "delete" /\ DOMAIN sweep'.list # {} =>
                    k > 0 /\ Spared(U', Listed', withdrawn', k)
  BY <1>1 DEF KeepInv
<1>6. IsFiniteSet(U) /\ \A x : x \in U <=> (\E e \in Pairs(tagList) : x = e[1]) /\ x \notin Pins
  BY <1>1, UnpinnedFacts DEF R!TagPinned
<1>7. \A x : x \in U' <=> (\E e \in Pairs(tagList') : x = e[1]) /\ x \notin Pins
  <2>1. R!Unpinned' = {i \in DOMAIN tagList' : tagList'[i][1] \notin Pins}
    BY <1>1 DEF R!Unpinned, R!ListTagsForRetention, R!TagPinned
  <2> HIDE DEF Pins
  <2>2. U' = {tagList'[i][1] : i \in R!Unpinned'}
    BY DEF UnpinnedNames, NamesAt
  <2> HIDE DEF U
  <2> QED  BY <2>1, <2>2 DEF Pairs
<1> HIDE DEF U, Pins, k
<1>8. tagList' = tagList => U' = U
  BY <1>6, <1>7
<1>9. ASSUME NEW t, tagList' = R!Without(t) PROVE U' = U \ {t}
  <2>1. Pairs(tagList') = {e \in Pairs(tagList) : e[1] # t}
    BY <1>1, <1>9, PairsFacts
  <2> QED  BY <2>1, <1>6, <1>7
<1> USE DEF R!tables, R!history
<1>10. CASE \/ R!RetentionDone \/ R!PublishManifestDelete \/ R!PruneDone \/ R!PruneUntagged
            \/ \E m \in Manifests : R!RecordDeletedManifest(m)
            \/ R!Restart
  <2>1. UNCHANGED <<tagList, named, withdrawn>> /\ sweep'.at # "delete"
    <3>1. ASSUME SweepType PROVE sweep \in Sweeps
      BY <3>1 DEF SweepType
    <3>2. CASE R!RetentionDone \/ R!PruneDone \/ R!Restart
      BY <3>2 DEF R!RetentionDone, R!PruneDone, R!Restart, R!NoGC
    <3>3. CASE R!PublishManifestDelete \/ \E m \in Manifests : R!RecordDeletedManifest(m)
      BY <3>1, <3>3 DEF R!PublishManifestDelete, R!RecordDeletedManifest, Sweeps
    <3>4. CASE R!PruneUntagged
      <4>1. PICK S : sweep' = IF S = {} THEN R!NoGC
                      ELSE [sweep EXCEPT !.at = "record", !.more = R!Cardinality(S) = policy.batch,
                                         !.pruned = IF policy.owned THEN S ELSE {}]
        BY <3>4, Zenon DEF R!PruneUntagged
      <4>2. UNCHANGED <<tagList, named, withdrawn>>
        BY <3>4 DEF R!PruneUntagged
      <4> DEFINE more == R!Cardinality(S) = policy.batch
                 Q == IF policy.owned THEN S ELSE {}
      <4>3. sweep' = R!NoGC \/ sweep' = [sweep EXCEPT !.at = "record", !.more = more, !.pruned = Q]
        BY <4>1
      <4> HIDE DEF more, Q
      <4>4. CASE sweep' = R!NoGC
        BY <4>2, <4>4 DEF R!NoGC
      <4>5. CASE sweep' = [sweep EXCEPT !.at = "record", !.more = more, !.pruned = Q]
        <5>1. sweep \in Sweeps
          BY DEF SweepType
        <5>2. sweep'.at = "record"
          BY <4>5, <5>1 DEF Sweeps
        <5> QED  BY <4>2, <5>2
      <4> QED  BY <4>3, <4>4, <4>5
    <3> QED  BY <1>10, <3>2, <3>3, <3>4
  <2> QED  BY <2>1, <1>4, <1>8
<1>11. CASE \/ \E c \in Clients :
                 \/ \E m \in Manifests, t \in TagNames \union {None} : R!Push(c, m, t)
                 \/ R!PutManifestWithLayers(c) \/ R!PublishManifest(c)
            \/ \E m \in Manifests : R!AgeManifest(m)
            \/ R!AgeTag \/ UNCHANGED R!vars
  <2>1. UNCHANGED <<tagList, named, withdrawn, sweep>>
    BY <1>11 DEF R!Push, R!PutManifestWithLayers, R!PublishManifest, R!AgeManifest, R!AgeTag, R!vars
  <2>2. Listed' = Listed
    BY <2>1 DEF Listed
  <2> QED  BY <2>1, <2>2, <1>4, <1>8
<1>12. CASE R!Collect
  <2>1. UNCHANGED <<tagList, named, withdrawn>>
    BY <1>12 DEF R!Collect
  <2>2. sweep'.at = "delete" => sweep'.list = R!Candidates
    BY <1>12, <1>3 DEF R!Collect, R!NoGC
  <2>3. ASSUME sweep'.at = "delete", DOMAIN sweep'.list # {}
        PROVE  k > 0 /\ Spared(U', Listed', withdrawn', k)
    <3>1. DOMAIN R!Candidates # {} /\ Listed' = {R!Candidates[i] : i \in DOMAIN R!Candidates}
      BY <2>2, <2>3 DEF Listed
    <3>2. k > 0 /\ \E B \in SUBSET R!Unpinned :
              /\ Cardinality(B) >= k
              /\ \A i \in DOMAIN R!Candidates : R!Candidates[i] \notin NamesAt(B)
      BY <1>1, <1>3, <3>1, CandidatesSpare DEF k
    <3>3. PICK B \in SUBSET R!Unpinned :
              /\ Cardinality(B) >= k
              /\ \A i \in DOMAIN R!Candidates : R!Candidates[i] \notin NamesAt(B)
      BY <3>2
    <3>4. B \subseteq 1..Len(tagList)
      BY <1>1, CandidatesType
    <3>5. IsFiniteSet(NamesAt(B)) /\ Cardinality(NamesAt(B)) >= k
      BY <1>1, <3>3, <3>4, NamesAtFacts
    <3>6. NamesAt(B) \subseteq U \ Listed'
      BY <3>1, <3>3 DEF U, UnpinnedNames, NamesAt
    <3>7. IsFiniteSet(U \ Listed')
      BY <1>6, SubsetCardinality
    <3>8. Cardinality(NamesAt(B)) <= Cardinality(U \ Listed')
          /\ Cardinality(NamesAt(B)) \in Nat /\ Cardinality(U \ Listed') \in Nat
      BY <3>6, <3>7, SubsetCardinality
    <3>9. Cardinality(U \ Listed') + withdrawn >= k
      BY <1>1, <3>5, <3>8
    <3> QED  BY <1>1, <1>6, <1>8, <2>1, <3>2, <3>9 DEF Spared, k
  <2> QED  BY <2>1, <2>3, <1>4, <1>8
<1>13. CASE R!DeleteCandidate
  <2>1. UNCHANGED <<named, withdrawn>> /\ sweep.at = "delete" /\ sweep \in Sweeps
    BY <1>13 DEF R!DeleteCandidate, SweepType
  <2>2. PICK i \in DOMAIN sweep.list :
          /\ tagList' = R!Without(sweep.list[i]) \/ tagList' = tagList
          /\ \/ sweep' = [sweep EXCEPT !.list = [j \in DOMAIN sweep.list \ {i} |-> sweep.list[j]],
                                       !.deleted = @ + 1]
             \/ sweep' = [sweep EXCEPT !.list = [j \in DOMAIN sweep.list \ {i} |-> sweep.list[j]]]
    BY <1>13 DEF R!DeleteCandidate
  <2>3. sweep'.list = [j \in DOMAIN sweep.list \ {i} |-> sweep.list[j]]
    BY <2>1, <2>2 DEF Sweeps
  <2> DEFINE q == sweep.list[i]
  <2>4. q \in Listed /\ Listed' \subseteq Listed
    BY <2>3 DEF Listed
  <2>5. k > 0 /\ Spared(U, Listed, withdrawn, k)
    BY <1>4, <2>1, <2>2
  <2>6. U' = U \/ U' = U \ {q}
    BY <1>8, <1>9, <2>2
  <2> HIDE DEF q
  <2>7. IsFiniteSet(U') /\ U' \subseteq U /\ U \ Listed \subseteq U' \ Listed'
    BY <1>6, <2>4, <2>6, SubsetCardinality
  <2>8. Spared(U', Listed', withdrawn, k)
    BY <2>5, <2>7, SparedMore
  <2>9. IsFiniteSet(named) /\ U' \subseteq named
    BY <1>4, <2>7 DEF Enough
  <2>10. Enough(U', named, withdrawn, k)
    BY <2>5, <2>8, <2>9, SparedIsEnough
  <2> QED  BY <2>1, <2>5, <2>8, <2>10
<1>14. ASSUME NEW c \in Clients, R!PutTag(c)
       PROVE  /\ Enough(U', named', withdrawn', k)
              /\ sweep'.at = "delete" /\ DOMAIN sweep'.list # {} =>
                   k > 0 /\ Spared(U', Listed', withdrawn', k)
  <2> DEFINE t == repush[c].tag
             m == repush[c].manifest
  <2>1. /\ UNCHANGED <<withdrawn, sweep>> /\ repush[c].at = "tag"
        /\ tagList' = <<<<t, m>>>> \o R!Without(t)
        /\ named' = IF t \in Pins THEN named ELSE named \union {t}
    BY <1>14 DEF R!PutTag, R!TagPinned, Pins
  <2>2. t \in TagNames /\ m \in Manifests
    BY <1>1, <2>1 DEF RepushOK
  <2>3. Listed' = Listed
    BY <2>1 DEF Listed
  <2> HIDE DEF t, m
  <2>4. Pairs(tagList') = {e \in Pairs(tagList) : e[1] # t} \union {<<t, m>>}
    BY <1>1, <2>1, <2>2, PairsFacts
  <2>5. U' = IF t \in Pins THEN U ELSE U \union {t}
    <3>1. ASSUME NEW x PROVE (\E e \in Pairs(tagList') : x = e[1])
                               <=> x = t \/ \E e \in Pairs(tagList) : x = e[1]
      <4>1. <<t, m>>[1] = t
        OBVIOUS
      <4>2. <<t, m>> \in Pairs(tagList')
        BY <2>4
      <4>3. ASSUME NEW e \in Pairs(tagList'), x = e[1]
            PROVE  x = t \/ \E f \in Pairs(tagList) : x = f[1]
        BY <2>4, <4>1, <4>3
      <4>4. ASSUME NEW e \in Pairs(tagList), x = e[1], x # t
            PROVE  \E f \in Pairs(tagList') : x = f[1]
        BY <2>4, <4>4
      <4> QED  BY <4>1, <4>2, <4>3, <4>4
    <3> QED  BY <3>1, <1>6, <1>7
  <2>6. CASE t \in Pins
    BY <2>1, <2>3, <2>5, <2>6, <1>4
  <2>7. CASE t \notin Pins
    <3>1. U' = U \union {t} /\ named' = named \union {t}
      BY <2>1, <2>5, <2>7
    <3>2. Enough(U', named', withdrawn', k)
      <4>1. Enough(U \union {t}, named \union {t}, withdrawn, k)
        BY <1>4, EnoughWithOneMore
      <4> QED  BY <4>1, <3>1, <2>1
    <3>3. IsFiniteSet(U') /\ U \ Listed \subseteq U' \ Listed
      BY <3>1, <1>6, FS_AddElement
    <3>4. Spared(U, Listed, withdrawn, k) => Spared(U', Listed, withdrawn, k)
      BY <3>3, SparedMore
    <3> QED  BY <2>1, <2>3, <3>2, <3>4, <1>4
  <2> QED  BY <2>6, <2>7
<1>15. ASSUME NEW t \in TagNames, R!DeleteTag(t)
       PROVE  /\ Enough(U', named', withdrawn', k)
              /\ sweep'.at = "delete" /\ DOMAIN sweep'.list # {} =>
                   k > 0 /\ Spared(U', Listed', withdrawn', k)
  <2>1. /\ UNCHANGED <<named, sweep>>
        /\ tagList' = R!Without(t)
        /\ withdrawn' = IF t \in Pins THEN withdrawn ELSE withdrawn + 1
    BY <1>15 DEF R!DeleteTag, R!TagPinned, Pins
  <2>2. U' = U \ {t}
    BY <2>1, <1>9
  <2>3. Listed' = Listed
    BY <2>1 DEF Listed
  <2>4. CASE t \in Pins
    <3>1. U' = U
      BY <2>2, <2>4, <1>6
    <3> QED  BY <3>1, <2>1, <2>3, <2>4, <1>4
  <2>5. CASE t \notin Pins
    <3>1. withdrawn' = withdrawn + 1
      BY <2>1, <2>5
    <3>2. /\ Enough(U, named, withdrawn, k) => Enough(U \ {t}, named, withdrawn + 1, k)
          /\ Spared(U, Listed, withdrawn, k) => Spared(U \ {t}, Listed, withdrawn + 1, k)
      BY <1>1, <1>6, OneWithdrawn
    <3> QED  BY <3>1, <3>2, <2>1, <2>2, <2>3, <1>4
  <2> QED  BY <2>4, <2>5
<1> QED
  BY <1>10, <1>11, <1>12, <1>13, <1>14, <1>15 DEF R!Next

(***************************************************************************)
(* retentionSweep with keepLastN and no maxAge, for every value of the     *)
(* constants: of the unpinned tags ever pushed all or keepLastN are left,  *)
(* less those that clients deleted, at every step of every cycle.          *)
(***************************************************************************)
THEOREM LastTagsAreKept ==
  ASSUME R!RetentionAssumption
  PROVE  R!Spec => []LastNKept
<1>1. R!Init => SweepType /\ KeepInv
  BY SweepTypeInit, KeepInit
<1>2. SweepType /\ KeepInv /\ [R!Next]_R!vars => SweepType' /\ KeepInv'
  BY SweepTypeStep, KeepStep
<1>3. SweepType /\ KeepInv => LastNKept
  <2> SUFFICES ASSUME SweepType, KeepInv PROVE LastNKept
    OBVIOUS
  <2>1. Cardinality(UnpinnedNames) = R!Cardinality(R!Unpinned)
        /\ R!Cardinality(named) = Cardinality(named)
    BY UnpinnedFacts, SweepCardinality DEF SweepType, TablesOK
  <2> QED  BY <2>1 DEF KeepInv, Enough, LastNKept, R!LastNKept
<1> QED  BY <1>1, <1>2, <1>3, PTL DEF R!Spec
-----------------------------------------------------------------------------
\* The collector is between what it prunes and what it says of it: the tombstone
\* comes first, and what is stored again meanwhile is known to have crossed.
PruneOK ==
  /\ published \in [Manifests -> {"none", "create", "delete"}]
  /\ sweep.at \notin {"record", "publish"} => sweep.pruned = {}
  /\ sweep.at = "publish" => /\ sweep.list[1] \in sweep.pruned
                             /\ sweep.list[1] \in tomb \union cut
  /\ sweep.pruned \intersect kept \subseteq crossed

\* What followers need not know yet, and what they know of the others.
Unsettled == sweep.pruned \union R!Pushing \union reused \union cut \union crossed

Told(m) ==
  IF m \in kept THEN published[m] = "create"
  ELSE published[m] # "create" /\ (published[m] = "delete" => m \in tomb)

ToldInv ==
  /\ NothingLost /\ PruneOK
  /\ policy.owned => \A m \in Manifests \ Unsettled : Told(m)

\* Nothing was published at the start.
LEMMA ToldInit ==
  ASSUME R!RetentionAssumption, R!Init
  PROVE  ToldInv
<1>1. PruneOK
  BY DEF PruneOK, R!Init, R!NoGC
<1>2. \A m \in Manifests : Told(m)
  BY DEF Told, R!Init
<1> QED  BY <1>1, <1>2, NothingLostInit DEF ToldInv

\* A step that stores, deletes, publishes and settles nothing.
LEMMA ToldKept ==
  ASSUME policy.owned => \A m \in Manifests \ Unsettled : Told(m),
         policy'.owned = policy.owned, kept' = kept, published' = published,
         tomb \subseteq tomb', Unsettled \subseteq Unsettled'
  PROVE  policy'.owned => \A m \in Manifests \ Unsettled' : Told(m)'
BY DEF Told

\* The collector's steps: what leaves the stored is pruned until it is told, or cut.
LEMMA ToldByCollector ==
  ASSUME ToldInv, policy'.owned = policy.owned,
         \/ R!Collect \/ R!DeleteCandidate \/ R!RetentionDone \/ R!PruneUntagged
         \/ R!PublishManifestDelete \/ R!PruneDone
         \/ \E m \in Manifests : R!RecordDeletedManifest(m)
  PROVE  PruneOK' /\ (policy'.owned => \A m \in Manifests \ Unsettled' : Told(m)')
<1>0. /\ PruneOK /\ sweep \in Sweeps
      /\ policy.owned => \A m \in Manifests \ Unsettled : Told(m)
  BY DEF ToldInv, NothingLost, SweepType
<1> USE DEF R!tables, R!history
<1>1. CASE R!Collect \/ R!RetentionDone \/ R!PruneDone \/ R!DeleteCandidate
  <2>1. /\ UNCHANGED <<kept, published, repush, reused, cut, crossed, tomb>>
        /\ sweep'.pruned = {} /\ sweep.pruned = {}
        /\ sweep'.at \in {"prune", "delete", "idle"}
    <3>1. CASE R!Collect
      BY <1>0, <3>1 DEF R!Collect, R!NoGC, PruneOK
    <3>2. CASE R!RetentionDone
      BY <1>0, <3>2 DEF R!RetentionDone, R!NoGC, PruneOK
    <3>3. CASE R!PruneDone
      BY <1>0, <3>3 DEF R!PruneDone, R!NoGC
    <3>4. CASE R!DeleteCandidate
      <4>1. /\ UNCHANGED <<kept, published, repush, reused, cut, crossed, tomb>>
            /\ sweep.at = "delete" /\ sweep'.at = sweep.at /\ sweep'.pruned = sweep.pruned
        BY <1>0, <3>4 DEF R!DeleteCandidate, Sweeps
      <4> QED  BY <1>0, <4>1 DEF PruneOK
    <3> QED  BY <1>1, <3>1, <3>2, <3>3, <3>4
  <2>2. PruneOK'
    BY <1>0, <2>1 DEF PruneOK
  <2>3. Unsettled \subseteq Unsettled'
    BY <2>1 DEF Unsettled, R!Pushing
  <2> QED  BY <1>0, <2>1, <2>2, <2>3, ToldKept
<1>2. CASE R!PruneUntagged
  <2>1. /\ sweep.at = "prune"
        /\ UNCHANGED <<published, repush, reused, cut, crossed, tomb>>
    BY <1>2 DEF R!PruneUntagged
  <2>2. PICK S \in SUBSET R!Untagged :
          /\ kept' = kept \ S
          /\ sweep' = IF S = {} THEN R!NoGC
                      ELSE [sweep EXCEPT !.at = "record", !.more = R!Cardinality(S) = policy.batch,
                                         !.pruned = IF policy.owned THEN S ELSE {}]
    BY <1>2, Zenon DEF R!PruneUntagged
  <2> DEFINE more == R!Cardinality(S) = policy.batch
             Q == IF policy.owned THEN S ELSE {}
  <2>3. \/ S = {} /\ sweep' = R!NoGC
        \/ sweep' = [sweep EXCEPT !.at = "record", !.more = more, !.pruned = Q]
    BY <2>2
  <2>4. /\ Q \subseteq S /\ (policy.owned => Q = S)
    OBVIOUS
  <2> HIDE DEF more, Q
  <2>5. \/ S = {} /\ sweep'.pruned = {} /\ sweep'.at = "idle"
        \/ sweep'.pruned = Q /\ sweep'.at = "record"
    <3>1. CASE sweep' = R!NoGC /\ S = {}
      BY <3>1 DEF R!NoGC
    <3>2. CASE sweep' = [sweep EXCEPT !.at = "record", !.more = more, !.pruned = Q]
      <4>1. sweep'.pruned = Q
        BY <1>0, <3>2 DEF Sweeps
      <4>2. sweep'.at = "record"
        BY <1>0, <3>2 DEF Sweeps
      <4> QED  BY <4>1, <4>2
    <3> QED  BY <2>3, <3>1, <3>2
  <2>6. sweep'.at = "idle" => sweep'.pruned = {}
    BY <2>5
  <2>7. PruneOK'
    BY <1>0, <2>1, <2>2, <2>4, <2>5, <2>6 DEF PruneOK
  <2>8. sweep.pruned = {} /\ (policy.owned => S \subseteq sweep'.pruned)
    BY <1>0, <2>1, <2>4, <2>5 DEF PruneOK
  <2>9. ASSUME policy'.owned, NEW m \in Manifests \ Unsettled' PROVE Told(m)'
    <3>1. m \notin Unsettled /\ m \notin S
      BY <2>1, <2>8, <2>9 DEF Unsettled, R!Pushing
    <3> QED  BY <1>0, <2>1, <2>2, <2>9, <3>1 DEF Told
  <2> QED  BY <2>7, <2>9
<1>3. ASSUME NEW m \in Manifests, R!RecordDeletedManifest(m)
      PROVE  PruneOK' /\ (policy'.owned => \A x \in Manifests \ Unsettled' : Told(x)')
  <2>1. /\ UNCHANGED <<kept, published, repush, reused, crossed>>
        /\ sweep.at = "record" /\ m \in sweep.pruned
        /\ sweep' = [sweep EXCEPT !.at = "publish", !.list = <<m>>]
        /\ \/ tomb' = tomb \union {m} /\ cut' = cut
           \/ cut' = cut \union {m} /\ tomb' = tomb
    BY <1>3 DEF R!RecordDeletedManifest
  <2>2. sweep'.at = "publish" /\ sweep'.list = <<m>> /\ sweep'.pruned = sweep.pruned
    BY <1>0, <2>1 DEF Sweeps
  <2>3. PruneOK'
    BY <1>0, <2>1, <2>2 DEF PruneOK
  <2>4. Unsettled \subseteq Unsettled' /\ tomb \subseteq tomb'
    BY <2>1, <2>2 DEF Unsettled, R!Pushing
  <2> QED  BY <1>0, <2>1, <2>3, <2>4, ToldKept
<1>4. CASE R!PublishManifestDelete
  <2> DEFINE m == sweep.list[1]
  <2>1. /\ UNCHANGED <<kept, tomb, repush, reused, crossed>>
        /\ sweep.at = "publish"
        /\ sweep' = [sweep EXCEPT !.at = "record", !.pruned = @ \ {m}, !.list = <<>>]
        /\ \/ published' = [published EXCEPT ![m] = "delete"] /\ cut' = cut
           \/ cut' = cut \union {m} /\ published' = published
    BY <1>4 DEF R!PublishManifestDelete
  <2>2. /\ m \in sweep.pruned /\ m \in tomb \union cut
        /\ sweep.pruned \subseteq Manifests /\ sweep.pruned \intersect kept \subseteq crossed
    BY <1>0, <2>1 DEF PruneOK, Sweeps
  <2> HIDE DEF m
  <2>3. sweep'.at = "record" /\ sweep'.pruned = sweep.pruned \ {m}
    BY <1>0, <2>1 DEF Sweeps
  <2>4. PruneOK'
    BY <1>0, <2>1, <2>2, <2>3 DEF PruneOK
  <2>5. ASSUME policy'.owned, NEW x \in Manifests \ Unsettled' PROVE Told(x)'
    <3>1. CASE x = m
      <4>1. x \notin kept /\ x \in tomb /\ cut' = cut
        BY <2>1, <2>2, <2>5, <3>1 DEF Unsettled
      <4>2. published'[x] = "delete"
        <5>1. cut' # cut \union {m}
          BY <2>2, <2>5, <3>1, <4>1 DEF Unsettled
        <5> QED  BY <1>0, <2>1, <3>1, <5>1 DEF PruneOK
      <4> QED  BY <2>1, <4>1, <4>2 DEF Told
    <3>2. CASE x # m
      <4>1. x \notin Unsettled
        BY <2>1, <2>3, <2>5, <3>2 DEF Unsettled, R!Pushing
      <4>2. published'[x] = published[x]
        BY <1>0, <2>1, <3>2 DEF PruneOK
      <4> QED  BY <1>0, <2>1, <2>5, <4>1, <4>2 DEF Told
    <3> QED  BY <3>1, <3>2
  <2> QED  BY <2>4, <2>5
<1> QED  BY <1>1, <1>2, <1>3, <1>4

\* The clients' steps: a push is unsettled until it has published what it stored.
LEMMA ToldByClients ==
  ASSUME ToldInv, policy'.owned = policy.owned, NEW c \in Clients,
         \/ \E m \in Manifests, t \in TagNames \union {None} : R!Push(c, m, t)
         \/ R!PutManifestWithLayers(c) \/ R!PutTag(c) \/ R!PublishManifest(c)
  PROVE  PruneOK' /\ (policy'.owned => \A m \in Manifests \ Unsettled' : Told(m)')
<1>0. /\ PruneOK /\ sweep \in Sweeps /\ PushedOK
      /\ repush \in [Clients -> SweepPushes]
      /\ \A d \in Clients : repush[d].at # "idle" => repush[d].manifest \in Manifests
      /\ policy.owned => \A m \in Manifests \ Unsettled : Told(m)
  BY DEF ToldInv, NothingLost, SweepType, RepushOK
<1> USE DEF R!tables, R!history
<1>p. \A x : x \in R!Pushing <=> \E d \in Clients : repush[d].at # "idle" /\ x = repush[d].manifest
  BY DEF R!Pushing
<1>q. \A x : x \in R!Pushing' <=> \E d \in Clients : repush'[d].at # "idle" /\ x = repush'[d].manifest
  BY DEF R!Pushing
<1>1. ASSUME NEW m \in Manifests, NEW t \in TagNames \union {None}, R!Push(c, m, t)
      PROVE  PruneOK' /\ (policy'.owned => \A x \in Manifests \ Unsettled' : Told(x)')
  <2>1. /\ UNCHANGED <<kept, published, sweep, tomb, cut, crossed>>
        /\ repush[c].at = "idle" /\ reused \subseteq reused'
        /\ repush' = [repush EXCEPT ![c] = [at |-> "store", manifest |-> m, tag |-> t]]
    BY <1>1 DEF R!Push
  <2>2. PruneOK'
    BY <1>0, <2>1 DEF PruneOK
  <2>3. R!Pushing \subseteq R!Pushing'
    BY <1>0, <1>p, <1>q, <2>1
  <2>4. Unsettled \subseteq Unsettled'
    BY <2>1, <2>3 DEF Unsettled
  <2> QED  BY <1>0, <2>1, <2>2, <2>4, ToldKept
<1>2. CASE R!PutManifestWithLayers(c)
  <2> DEFINE m == repush[c].manifest
  <2>1. /\ UNCHANGED <<published, sweep, tomb, cut, reused>>
        /\ kept' = kept \union {m} /\ repush[c].at = "store"
        /\ repush' = [repush EXCEPT ![c].at = IF repush[c].tag = None THEN "publish" ELSE "tag"]
        /\ crossed' = IF m \in sweep.pruned THEN crossed \union {m} ELSE crossed
    BY <1>2 DEF R!PutManifestWithLayers
  <2>2. PruneOK'
    BY <1>0, <2>1 DEF PruneOK
  <2>3. \A d \in Clients : /\ repush'[d].manifest = repush[d].manifest
                           /\ (repush'[d].at = "idle" <=> repush[d].at = "idle")
    <3> DEFINE at == IF repush[c].tag = None THEN "publish" ELSE "tag"
    <3>1. at # "idle" /\ repush' = [repush EXCEPT ![c].at = at]
      BY <2>1
    <3> HIDE DEF at
    <3>2. \A d \in Clients \ {c} : repush'[d] = repush[d]
      BY <1>0, <3>1
    <3>3. repush'[c].manifest = repush[c].manifest /\ repush'[c].at = at
      BY <1>0, <3>1 DEF SweepPushes
    <3>4. ASSUME NEW d \in Clients
          PROVE  /\ repush'[d].manifest = repush[d].manifest
                 /\ (repush'[d].at = "idle" <=> repush[d].at = "idle")
      <4>1. CASE d = c
        BY <2>1, <3>1, <3>3, <4>1
      <4>2. CASE d # c
        BY <3>2, <4>2
      <4> QED  BY <4>1, <4>2
    <3> QED  BY <3>4
  <2>4. R!Pushing' = R!Pushing /\ m \in R!Pushing
    <3>1. \A x : x \in R!Pushing' <=> x \in R!Pushing
      BY <1>p, <1>q, <2>3
    <3>2. m \in R!Pushing
      BY <1>p, <2>1
    <3> QED  BY <3>1, <3>2
  <2>5. ASSUME policy'.owned, NEW x \in Manifests \ Unsettled' PROVE Told(x)'
    <3>1. x \notin Unsettled /\ x # m
      BY <2>1, <2>4, <2>5 DEF Unsettled
    <3> QED  BY <1>0, <2>1, <2>5, <3>1 DEF Told
  <2> QED  BY <2>2, <2>5
<1>3. CASE R!PutTag(c)
  <2>1. /\ UNCHANGED <<kept, published, sweep, tomb, cut, crossed, reused>>
        /\ repush[c].at = "tag" /\ repush' = [repush EXCEPT ![c].at = "publish"]
    BY <1>3 DEF R!PutTag
  <2>2. PruneOK'
    BY <1>0, <2>1 DEF PruneOK
  <2>3. \A d \in Clients : /\ repush'[d].manifest = repush[d].manifest
                           /\ (repush'[d].at = "idle" <=> repush[d].at = "idle")
    <3>1. \A d \in Clients \ {c} : repush'[d] = repush[d]
      BY <1>0, <2>1
    <3>2. repush'[c].manifest = repush[c].manifest /\ repush'[c].at = "publish"
      BY <1>0, <2>1 DEF SweepPushes
    <3>3. ASSUME NEW d \in Clients
          PROVE  /\ repush'[d].manifest = repush[d].manifest
                 /\ (repush'[d].at = "idle" <=> repush[d].at = "idle")
      <4>1. CASE d = c
        BY <2>1, <3>2, <4>1
      <4>2. CASE d # c
        BY <3>1, <4>2
      <4> QED  BY <4>1, <4>2
    <3> QED  BY <3>3
  <2>4. R!Pushing' = R!Pushing
    <3>1. \A x : x \in R!Pushing' <=> x \in R!Pushing
      BY <1>p, <1>q, <2>3
    <3> QED  BY <3>1
  <2>5. Unsettled \subseteq Unsettled'
    BY <2>1, <2>4 DEF Unsettled
  <2> QED  BY <1>0, <2>1, <2>2, <2>5, ToldKept
<1>4. CASE R!PublishManifest(c)
  <2> DEFINE m == repush[c].manifest
  <2>1. /\ UNCHANGED <<kept, sweep, tomb, crossed>>
        /\ repush[c].at = "publish" /\ repush' = [repush EXCEPT ![c] = R!NoPush]
        /\ \/ published' = [published EXCEPT ![m] = "create"] /\ cut' = cut
           \/ cut' = cut \union {m} /\ published' = published
        /\ \/ reused' = reused
           \/ reused' = reused \ {m} /\ m \in kept
    BY <1>4 DEF R!PublishManifest
  <2>2. m \in Manifests /\ (m \notin reused => m \in kept)
    BY <1>0, <2>1 DEF PushedOK
  <2>3. PruneOK'
    BY <1>0, <2>1, <2>2 DEF PruneOK
  <2>4. R!Pushing \subseteq R!Pushing' \union {m}
    BY <1>0, <1>p, <1>q, <2>1
  <2> HIDE DEF m
  <2>5. ASSUME policy'.owned, NEW x \in Manifests \ Unsettled' PROVE Told(x)'
    <3>1. CASE x = m
      <4>1. x \in kept /\ m \notin cut'
        BY <2>1, <2>2, <2>5, <3>1 DEF Unsettled
      <4>2. published'[x] = "create"
        BY <1>0, <2>1, <3>1, <4>1 DEF PruneOK
      <4> QED  BY <2>1, <4>1, <4>2 DEF Told
    <3>2. CASE x # m
      <4>1. x \notin Unsettled
        BY <2>1, <2>4, <2>5, <3>2 DEF Unsettled
      <4>2. published'[x] = published[x]
        BY <1>0, <2>1, <3>2 DEF PruneOK
      <4> QED  BY <1>0, <2>1, <2>5, <4>1, <4>2 DEF Told
    <3> QED  BY <3>1, <3>2
  <2> QED  BY <2>3, <2>5
<1> QED  BY <1>1, <1>2, <1>3, <1>4

\* Every step keeps what followers know right.
LEMMA ToldStep ==
  ASSUME R!RetentionAssumption, ToldInv, [R!Next]_R!vars
  PROVE  ToldInv'
<1>0. /\ NothingLost' /\ policy'.owned = policy.owned /\ PruneOK
      /\ policy.owned => \A m \in Manifests \ Unsettled : Told(m)
  BY NothingLostStep, SettingsStay DEF ToldInv, NothingLost
<1> SUFFICES PruneOK' /\ (policy'.owned => \A m \in Manifests \ Unsettled' : Told(m)')
  BY <1>0 DEF ToldInv
<1> USE DEF R!tables, R!history
<1>1. CASE \/ R!Collect \/ R!DeleteCandidate \/ R!RetentionDone \/ R!PruneUntagged
           \/ R!PublishManifestDelete \/ R!PruneDone
           \/ \E m \in Manifests : R!RecordDeletedManifest(m)
  BY <1>0, <1>1, ToldByCollector
<1>2. ASSUME NEW c \in Clients,
             \/ \E m \in Manifests, t \in TagNames \union {None} : R!Push(c, m, t)
             \/ R!PutManifestWithLayers(c) \/ R!PutTag(c) \/ R!PublishManifest(c)
      PROVE  PruneOK' /\ (policy'.owned => \A m \in Manifests \ Unsettled' : Told(m)')
  BY <1>0, <1>2, ToldByClients
<1>3. CASE \/ \E t \in TagNames : R!DeleteTag(t)
           \/ \E m \in Manifests : R!AgeManifest(m)
           \/ R!AgeTag \/ UNCHANGED R!vars
  <2>1. UNCHANGED <<kept, published, sweep, repush, tomb, cut, crossed, reused>>
    BY <1>3 DEF R!DeleteTag, R!AgeManifest, R!AgeTag, R!vars
  <2>2. PruneOK' /\ Unsettled' = Unsettled
    BY <1>0, <2>1 DEF PruneOK, Unsettled, R!Pushing
  <2> QED  BY <1>0, <2>1, <2>2, ToldKept
<1>4. CASE R!Restart
  <2>1. /\ UNCHANGED <<kept, published, tomb, crossed, reused>>
        /\ sweep' = R!NoGC /\ cut' = cut \union sweep.pruned \union R!Pushing
    BY <1>4 DEF R!Restart
  <2>2. PruneOK'
    BY <1>0, <2>1 DEF PruneOK, R!NoGC
  <2>3. Unsettled \subseteq Unsettled'
    BY <2>1 DEF Unsettled
  <2> QED  BY <1>0, <2>1, <2>2, <2>3, ToldKept
<1> QED  BY <1>1, <1>2, <1>3, <1>4 DEF R!Next

(***************************************************************************)
(* Whatever is pushed, pruned and cut off in whatever order, for every     *)
(* value of the constants: what the owner last published of a manifest is  *)
(* whether it is stored (pushManifest, pruneUntaggedManifests), and no     *)
(* Delete is published without a tombstone, except what                    *)
(* PublishedAsStored exempts.                                              *)
(***************************************************************************)
THEOREM FollowersAreTold ==
  ASSUME R!RetentionAssumption
  PROVE  R!Spec => []PublishedAsStored
<1>1. R!Init => ToldInv
  BY ToldInit
<1>2. ToldInv /\ [R!Next]_R!vars => ToldInv'
  BY ToldStep
<1>3. ToldInv => PublishedAsStored
  BY DEF ToldInv, Unsettled, Told, PublishedAsStored, R!PublishedAsStored
<1> QED  BY <1>1, <1>2, <1>3, PTL DEF R!Spec
=============================================================================
