---------------------------- MODULE UploadSession ----------------------------
(***************************************************************************)
(* Chunked blob uploads: the writer with its staging file                  *)
(* (internal/oci/blobwriter.go), the map of writers and the requests that  *)
(* start, resume and commit an upload, the reaper and the purge            *)
(* (internal/oci/handler.go), and the upload_sessions rows                 *)
(* (internal/database/uploads.go).                                         *)
(*                                                                         *)
(* Each section under a mutex, each statement and each file operation is a *)
(* step.  The two mutexes are variables where a goroutine keeps one across *)
(* steps: a write holds the writer's, the sweep holds the map's while it   *)
(* asks each writer for its path.  What is staged is the sequence of the   *)
(* chunks written, and its digest is that sequence.                        *)
(***************************************************************************)
EXTENDS Naturals, Sequences, FiniteSets

CONSTANTS
  Uploads,      \* ids of uploads, each used once
  Requests,     \* goroutines that serve requests
  Cleaners,     \* goroutines of the reaper and of purges
  NoUpload, Nobody,
  Blob,         \* the client's blob, a sequence of chunks
  UploadBudgets \* bounds: requests (PATCH, PUT) and events (failures, a purge, a
                \*   deletion of the repository, a crash) in a behaviour

ASSUME UploadAssumption ==
  /\ Nobody \notin Requests \union Cleaners
  /\ NoUpload \notin Uploads
  /\ Blob \in Seq(Nat \ {0})

VARIABLES
  row,         \* upload_sessions: "none", "live" or "expired"
  registered,  \* r.uploads
  handle,      \* w.file: "none" before the upload, "open", "nil"
  done,        \* w.done
  content,     \* chunks written to the file and folded into the hash
  staged,      \* staging files in the upload directory
  idle,        \* those not written to for uploadSessionTTL
  mapLock,     \* holder of uploadsMu, or Nobody
  writerLock,  \* holder of each w.mu, or Nobody
  job,         \* the goroutines
  stored,      \* uploads committed and answered with success
  unlisted,    \* history: uploads whose row a repository delete removed
  budget

tables == <<row, stored, unlisted>>
writer == <<handle, done, content, staged, idle>>
locks  == <<mapLock, writerLock>>
vars   == <<tables, registered, writer, locks, job, budget>>

Goroutines == Requests \union Cleaners
Torn == 0          \* a chunk of which only a part was written

Idle == [at |-> "idle", upload |-> NoUpload, chunk |-> Torn,
         list |-> {}, matches |-> {}, active |-> {}, all |-> FALSE]

\* The shape of the state, as the tables and the goroutines have it.
TypeOK ==
  /\ row \in [Uploads -> {"none", "live", "expired"}]
  /\ registered \subseteq Uploads
  /\ handle \in [Uploads -> {"none", "open", "nil"}]
  /\ done \in [Uploads -> BOOLEAN]
  /\ \A u \in Uploads : \A i \in DOMAIN content[u] : content[u][i] \in {Torn} \union 1..Len(Blob)
  /\ staged \subseteq {u \in Uploads : handle[u] = "open"}
  /\ idle \subseteq Uploads
  /\ mapLock \in Goroutines \union {Nobody}
  /\ writerLock \in [Uploads -> Goroutines \union {Nobody}]
  /\ stored \subseteq {u \in Uploads : done[u]} /\ unlisted \subseteq Uploads

Init ==
  /\ row = [u \in Uploads |-> "none"]
  /\ registered = {}
  /\ handle = [u \in Uploads |-> "none"]
  /\ done = [u \in Uploads |-> FALSE]
  /\ content = [u \in Uploads |-> <<>>]
  /\ staged = {} /\ idle = {}
  /\ mapLock = Nobody /\ writerLock = [u \in Uploads |-> Nobody]
  /\ job = [g \in Goroutines |-> Idle]
  /\ stored = {} /\ unlisted = {}
  /\ budget \in UploadBudgets
-----------------------------------------------------------------------------
Spend(kind) == budget[kind] > 0 /\ budget' = [budget EXCEPT ![kind] = @ - 1]
Event == Spend("events")

Goto(g, step) == job' = [job EXCEPT ![g].at = step]
Return(g)     == job' = [job EXCEPT ![g] = Idle]

Free(u)       == writerLock[u] = Nobody
SetRow(u, r)  == row' = [row EXCEPT ![u] = r]

\* delete(r.uploads, id) under uploadsMu.
Unregister(u) == mapLock = Nobody /\ registered' = registered \ {u}
-----------------------------------------------------------------------------
\* newDiskBlobWriter, ...
CreateWriter(g, u) ==
  /\ job[g].at = "idle" /\ handle[u] = "none"
  /\ handle' = [handle EXCEPT ![u] = "open"]
  /\ staged' = staged \union {u}
  /\ job' = [job EXCEPT ![g] = [Idle EXCEPT !.at = "register", !.upload = u]]
  /\ UNCHANGED <<tables, registered, done, content, idle, locks, budget>>

\* ... the rest of newUploadWriter, ...
RegisterWriter(g) ==
  /\ job[g].at = "register" /\ mapLock = Nobody
  /\ registered' = registered \union {job[g].upload}
  /\ Goto(g, "createSession")
  /\ UNCHANGED <<tables, writer, locks, budget>>

\* ... and pushBlobChunked: the row, or the writer is discarded again.
CreateUploadSession(g) ==
  /\ job[g].at = "createSession"
  /\ \/ SetRow(job[g].upload, "live") /\ Return(g) /\ UNCHANGED budget
     \/ Event /\ Goto(g, "discard") /\ UNCHANGED row
  /\ UNCHANGED <<stored, unlisted, registered, writer, locks>>

DiscardWriter(g) ==
  /\ job[g].at = "discard"
  /\ Unregister(job[g].upload)
  /\ Goto(g, "cancel")
  /\ UNCHANGED <<tables, writer, locks, budget>>

Cancel(g) ==
  /\ job[g].at = "cancel" /\ Free(job[g].upload)
  /\ done' = [done EXCEPT ![job[g].upload] = TRUE]
  /\ Goto(g, "cleanup")
  /\ UNCHANGED <<tables, registered, handle, content, staged, idle, locks, budget>>
-----------------------------------------------------------------------------
\* A PATCH with a chunk, sent again when the client likes, or the PUT.
Request(g, u, chunk) ==
  /\ job[g].at = "idle" /\ handle[u] # "none" /\ Spend("requests")
  /\ job' = [job EXCEPT ![g] = [Idle EXCEPT !.at = "getSession", !.upload = u, !.chunk = chunk]]
  /\ UNCHANGED <<tables, registered, writer, locks>>

\* pushBlobChunkedResume: the row, then the map; the offset is not looked at.
GetUploadSession(g) ==
  /\ job[g].at = "getSession"
  /\ IF row[job[g].upload] = "live" THEN Goto(g, "lookup") ELSE Return(g)
  /\ UNCHANGED <<tables, registered, writer, locks, budget>>

LookupWriter(g) ==
  /\ job[g].at = "lookup" /\ mapLock = Nobody
  /\ Goto(g, IF job[g].upload \notin registered THEN "staleRow"
             ELSE IF job[g].chunk = Torn THEN "commit" ELSE "write")
  /\ UNCHANGED <<tables, registered, writer, locks, budget>>

DeleteStaleRow(g) ==
  /\ job[g].at = "staleRow"
  /\ SetRow(job[g].upload, "none") /\ Return(g)
  /\ UNCHANGED <<stored, unlisted, registered, writer, locks, budget>>

\* Mutant: a finalized upload takes further chunks.
WriteUnchecked(g) ==
  LET u == job[g].upload IN
  /\ job[g].at = "write" /\ Free(u)
  /\ writerLock' = [writerLock EXCEPT ![u] = g] /\ Goto(g, "writing")
  /\ UNCHANGED <<tables, registered, writer, mapLock, budget>>

\* Write: under w.mu, the check and then the file.
Write(g) ==
  LET u == job[g].upload IN
  /\ job[g].at = "write" /\ Free(u)
  /\ IF done[u] THEN Return(g) /\ UNCHANGED writerLock
     ELSE writerLock' = [writerLock EXCEPT ![u] = g] /\ Goto(g, "writing")
  /\ UNCHANGED <<tables, registered, writer, mapLock, budget>>

\* A nil file refuses the chunk; a full disk takes a part of it.
WriteFile(g) ==
  LET u == job[g].upload IN
  /\ job[g].at = "writing"
  /\ \/ /\ handle[u] = "open"
        /\ content' = [content EXCEPT ![u] = Append(@, job[g].chunk)]
        /\ idle' = idle \ {u}
        /\ UNCHANGED budget
     \/ /\ handle[u] = "open" /\ Event
        /\ content' = [content EXCEPT ![u] = Append(@, Torn)]
        /\ idle' = idle \ {u}
     \/ handle[u] = "nil" /\ UNCHANGED <<content, idle, budget>>
  /\ writerLock' = [writerLock EXCEPT ![u] = Nobody]
  /\ Return(g)
  /\ UNCHANGED <<tables, registered, handle, done, staged, mapLock>>
-----------------------------------------------------------------------------
\* Commit: under w.mu the upload is done, its digest compared, its file taken.
Commit(g) ==
  LET u == job[g].upload IN
  /\ job[g].at = "commit" /\ Free(u)
  /\ done' = [done EXCEPT ![u] = TRUE]
  /\ CASE done[u]                                   -> Return(g)
       [] ~done[u] /\ content[u] = Blob /\ handle[u] = "open" -> Goto(g, "unregister")
       [] OTHER                                     -> Goto(g, "cleanup")
  /\ UNCHANGED <<tables, registered, handle, content, staged, idle, locks, budget>>

CommitUnregister(g) ==
  /\ job[g].at = "unregister"
  /\ Unregister(job[g].upload)
  /\ Goto(g, "put")
  /\ UNCHANGED <<tables, writer, locks, budget>>

\* blobs.Put of the file, which fails once the file is closed or if what it
\* reads has another digest.
PutBlobFile(g) ==
  LET u == job[g].upload IN
  /\ job[g].at = "put"
  /\ Goto(g, IF handle[u] = "open" /\ content[u] = Blob THEN "record" ELSE "cleanup")
  /\ UNCHANGED <<tables, registered, writer, locks, budget>>

RecordBlob(g) ==
  /\ job[g].at = "record"
  /\ \/ Goto(g, "deleteSession") /\ UNCHANGED budget
     \/ Event /\ Goto(g, "cleanup")
  /\ UNCHANGED <<tables, registered, writer, locks>>

CommitDeleteSession(g) ==
  /\ job[g].at = "deleteSession"
  /\ SetRow(job[g].upload, "none")
  /\ stored' = stored \union {job[g].upload}
  /\ Goto(g, "cleanup")
  /\ UNCHANGED <<unlisted, registered, writer, locks, budget>>
-----------------------------------------------------------------------------
AfterCleanup(g) == IF g \in Cleaners THEN Goto(g, "deleteRow") ELSE Return(g)

\* Mutant: w.mu is kept while onDone runs.
CleanupHoldsLock(g) ==
  LET u == job[g].upload IN
  /\ job[g].at = "cleanup" /\ Free(u)
  /\ IF handle[u] = "nil"
       THEN AfterCleanup(g) /\ UNCHANGED <<handle, staged, writerLock>>
       ELSE /\ handle' = [handle EXCEPT ![u] = "nil"]
            /\ staged' = staged \ {u}
            /\ writerLock' = [writerLock EXCEPT ![u] = g]
            /\ Goto(g, "onDone")
  /\ UNCHANGED <<tables, registered, done, content, idle, mapLock, budget>>

\* cleanup: under w.mu the file is closed and removed; ...
Cleanup(g) ==
  LET u == job[g].upload IN
  /\ job[g].at = "cleanup" /\ Free(u)
  /\ IF handle[u] = "nil"
       THEN AfterCleanup(g) /\ UNCHANGED <<handle, staged>>
       ELSE /\ handle' = [handle EXCEPT ![u] = "nil"]
            /\ staged' = staged \ {u}
            /\ Goto(g, "onDone")
  /\ UNCHANGED <<tables, registered, done, content, idle, locks, budget>>

\* ... then onDone, without w.mu: the map and the row.
OnDone(g) ==
  /\ job[g].at = "onDone"
  /\ Unregister(job[g].upload)
  /\ writerLock' = [u \in Uploads |-> IF writerLock[u] = g THEN Nobody ELSE writerLock[u]]
  /\ Goto(g, "onDoneRow")
  /\ UNCHANGED <<tables, writer, mapLock, budget>>

OnDoneDeleteSession(g) ==
  /\ job[g].at = "onDoneRow"
  /\ SetRow(job[g].upload, "none")
  /\ AfterCleanup(g)
  /\ UNCHANGED <<stored, unlisted, registered, writer, locks, budget>>
-----------------------------------------------------------------------------
\* Mutant: expires_at is compared the wrong way round.
CleanLiveUploads(g) ==
  /\ job[g].at = "idle"
  /\ \E u \in Uploads : row[u] = "expired" \/ u \in staged
  /\ job' = [job EXCEPT ![g] = [Idle EXCEPT !.at = "next",
                                            !.list = {u \in Uploads : row[u] = "live"}]]
  /\ UNCHANGED <<tables, registered, writer, locks, budget>>

\* CleanExpiredUploads, by a ticker.
CleanExpiredUploads(g) ==
  /\ job[g].at = "idle"
  /\ \E u \in Uploads : row[u] = "expired" \/ u \in staged
  /\ job' = [job EXCEPT ![g] = [Idle EXCEPT !.at = "next",
                                            !.list = {u \in Uploads : row[u] = "expired"}]]
  /\ UNCHANGED <<tables, registered, writer, locks, budget>>

\* PurgeUploadSessions of everything, asked for by an operator.
PurgeUploadSessions(g) ==
  /\ job[g].at = "idle" /\ Event
  /\ job' = [job EXCEPT ![g] = [Idle EXCEPT !.at = "next", !.all = TRUE,
                                            !.list = {u \in Uploads : row[u] # "none"}]]
  /\ UNCHANGED <<tables, registered, writer, locks>>

\* The next session: its writer leaves the map and is cleaned up; or the sweep.
TakeSession(g) ==
  /\ job[g].at = "next"
  /\ IF job[g].list = {}
       THEN job' = [job EXCEPT ![g].at = "lockMap", ![g].matches = staged]
            /\ UNCHANGED registered
       ELSE \E u \in job[g].list :
              /\ Unregister(u)
              /\ job' = [job EXCEPT ![g].upload = u, ![g].list = @ \ {u},
                           ![g].at = IF u \in registered THEN "cleanup" ELSE "deleteRow"]
  /\ UNCHANGED <<tables, writer, locks, budget>>

DeleteUploadSession(g) ==
  /\ job[g].at = "deleteRow"
  /\ \/ SetRow(job[g].upload, "none") /\ UNCHANGED budget
     \/ Event /\ UNCHANGED row
  /\ Goto(g, "next")
  /\ UNCHANGED <<stored, unlisted, registered, writer, locks>>

\* sweepStaleStagingFiles: uploadsMu is kept while Path takes each w.mu.
LockMap(g) ==
  /\ job[g].at = "lockMap" /\ mapLock = Nobody
  /\ mapLock' = g
  /\ job' = [job EXCEPT ![g].at = "paths", ![g].list = registered]
  /\ UNCHANGED <<tables, registered, writer, writerLock, budget>>

Path(g) ==
  /\ job[g].at = "paths"
  /\ \/ /\ job[g].list = {}
        /\ mapLock' = Nobody /\ Goto(g, "sweep")
     \/ \E u \in job[g].list :
          /\ Free(u)
          /\ job' = [job EXCEPT ![g].list = @ \ {u},
                       ![g].active = IF handle[u] = "open" THEN @ \union {u} ELSE @]
          /\ UNCHANGED mapLock
  /\ UNCHANGED <<tables, registered, writer, writerLock, budget>>

Sweep(g) ==
  /\ job[g].at = "sweep"
  /\ LET stale == {u \in job[g].matches \ job[g].active : job[g].all \/ u \in idle} IN
       \/ \E u \in stale :
            /\ staged' = staged \ {u}
            /\ job' = [job EXCEPT ![g].matches = @ \ {u}]
       \/ stale = {} /\ Return(g) /\ UNCHANGED staged
  /\ UNCHANGED <<tables, registered, handle, done, content, idle, locks, budget>>
-----------------------------------------------------------------------------
\* An hour after the start of the upload, and after the last write to its file.
Expire(u) ==
  /\ row[u] = "live"
  /\ SetRow(u, "expired")
  /\ UNCHANGED <<stored, unlisted, registered, writer, locks, job, budget>>

GrowIdle(u) ==
  /\ u \in staged \ idle
  /\ idle' = idle \union {u}
  /\ UNCHANGED <<tables, registered, handle, done, content, staged, locks, job, budget>>

\* DeleteOwnedRepositoryWithBlobs is refused with a live session; the expired
\* ones of the repository go with it.
DeleteRepository ==
  /\ Event
  /\ \A u \in Uploads : row[u] # "live"
  /\ \E u \in Uploads : row[u] = "expired"
  /\ row' = [u \in Uploads |-> "none"]
  /\ unlisted' = unlisted \union {u \in Uploads : row[u] = "expired"}
  /\ UNCHANGED <<stored, registered, writer, locks, job>>

\* The process dies; SetUploadDir empties the directory at the next start.
Restart ==
  /\ Event
  /\ registered' = {} /\ staged' = {} /\ idle' = {}
  /\ handle' = [u \in Uploads |-> IF handle[u] = "none" THEN "none" ELSE "nil"]
  /\ mapLock' = Nobody /\ writerLock' = [u \in Uploads |-> Nobody]
  /\ job' = [g \in Goroutines |-> Idle]
  /\ UNCHANGED <<tables, done, content>>
-----------------------------------------------------------------------------
Serve(g) ==
  \/ RegisterWriter(g) \/ CreateUploadSession(g) \/ DiscardWriter(g) \/ Cancel(g)
  \/ GetUploadSession(g) \/ LookupWriter(g) \/ DeleteStaleRow(g) \/ Write(g) \/ WriteFile(g)
  \/ Commit(g) \/ CommitUnregister(g) \/ PutBlobFile(g) \/ RecordBlob(g)
  \/ CommitDeleteSession(g)

Clean(g) ==
  \/ TakeSession(g) \/ DeleteUploadSession(g) \/ LockMap(g) \/ Path(g) \/ Sweep(g)

Release(g) == Cleanup(g) \/ OnDone(g) \/ OnDoneDeleteSession(g)

Next ==
  \/ \E g \in Requests :
       \/ \E u \in Uploads : CreateWriter(g, u)
       \/ \E u \in Uploads, c \in {Torn} \union 1..Len(Blob) : Request(g, u, c)
       \/ Serve(g)
  \/ \E g \in Cleaners : CleanExpiredUploads(g) \/ PurgeUploadSessions(g) \/ Clean(g)
  \/ \E g \in Goroutines : Release(g)
  \/ \E u \in Uploads : Expire(u) \/ GrowIdle(u)
  \/ DeleteRepository \/ Restart

\* A goroutine that waits for a mutex others take and release gets it: sync.Mutex
\* does not starve.  The reaper's ticker goes on.
Fairness ==
  /\ \A g \in Requests : SF_vars(Serve(g) \/ Release(g))
  /\ \A g \in Cleaners : WF_vars(CleanExpiredUploads(g) \/ Clean(g) \/ Release(g))
  /\ \A u \in Uploads : WF_vars(Expire(u)) /\ WF_vars(GrowIdle(u))

Spec == Init /\ [][Next]_vars
FairSpec == Spec /\ Fairness
-----------------------------------------------------------------------------
\* The mutex a goroutine's next step takes.
WantsMap(g)       == job[g].at \in {"register", "discard", "lookup", "unregister", "onDone", "lockMap"}
WantsWriter(g, u) ==
  \/ job[g].at \in {"cancel", "write", "commit", "cleanup"} /\ job[g].upload = u
  \/ job[g].at = "paths" /\ u \in job[g].list

(***************************************************************************)
(* The two mutexes are never taken in both orders: whoever holds a         *)
(* writer's while it waits for the map's would block the sweep, which      *)
(* holds the map's while it waits for the writers', and with it every      *)
(* upload of the registry.                                                 *)
(***************************************************************************)
NoLockCycle ==
  \A g, h \in Goroutines, u \in Uploads :
    ~(writerLock[u] = g /\ WantsMap(g) /\ mapLock = h /\ WantsWriter(h, u))

(***************************************************************************)
(* What Commit has compared with the client's digest is what the blob      *)
(* store then reads from the staging file: no late or repeated PATCH adds  *)
(* to it, and if the reaper or a purge was faster the file is closed.      *)
(***************************************************************************)
CommitUndisturbed ==
  \A g \in Requests :
    job[g].at \in {"unregister", "put"} =>
      content[job[g].upload] = Blob \/ handle[job[g].upload] = "nil"

(***************************************************************************)
(* No staging file stays for ever: an upload that is abandoned, fails or   *)
(* is committed loses its file, however requests, the reaper and a purge   *)
(* meet.  Exempt are uploads whose expired row went with the repository:   *)
(* the reaper no longer lists them, and the sweep takes their registered   *)
(* writer for a live one.                                                  *)
(***************************************************************************)
StagingReclaimed ==
  \A u \in Uploads : u \in staged ~> (u \notin staged \/ u \in unlisted)
=============================================================================
