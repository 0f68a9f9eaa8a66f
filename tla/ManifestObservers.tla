-------------------------- MODULE ManifestObservers --------------------------
(***************************************************************************)
(* What a pushed manifest sets off: pushManifest (internal/oci/handler.go) *)
(* notifies its observers, the scanner (internal/scanner/scanner.go) that  *)
(* attaches a report as another manifest, and the replication to external  *)
(* registries (internal/replication/worker.go, client.go).                 *)
(*                                                                         *)
(* One repository with one tag.  A statement, a TryPush and what one       *)
(* request does to a target are steps.  The recursion of replicate is the  *)
(* stack of a worker.  Only the worker of a target writes to it.           *)
(***************************************************************************)
EXTENDS Naturals, Sequences, FiniteSets

CONSTANTS
  Images,     \* manifests that clients push
  Layers,     \* image |-> its blobs
  Children,   \* image |-> the entries of an index
  Targets,    \* replication targets
  QueueSize,  \* of the scanner and of each target
  Pushers,
  None,
  Setups      \* matched: the targets whose globs match the repository; scanner:
              \*   whether there is one; bounds: the clients that push, and pushes
              \*   and faults in a behaviour

Settings == [scanner : BOOLEAN, matched : SUBSET Targets, clients : SUBSET Pushers,
             pushes : Nat, faults : Nat]

Scanning == "scanner"   \* the goroutine of the scanner, as a pusher of reports

\* Entries are images, a report (a pair) is none, and no client is the scanner.
ObserversAssumption ==
  /\ Children \in [Images -> SUBSET Images]
  /\ Images \intersect (Images \X Nat) = {}
  /\ Setups \subseteq Settings
  /\ Scanning \notin Pushers

\* Content addressing: the digest of an index covers the digests of its
\* entries, so that they rank below it.
Ranked(rank) == \A m \in Images : \A c \in Children[m] : rank[c] < rank[m]

VARIABLES
  local,      \* manifests stored here
  localTag,   \* what the tag names here
  push,       \* goroutines in pushManifest
  queue,      \* w.queues
  worker,     \* the goroutine of each target in process
  session,    \* of each Client: "none", "challenge" or "token"
  remote,     \* what each target holds
  dropped,    \* targets with targetState.dropped > 0
  scanQueue, scan,   \* the scanner's queue and its goroutine
  history,    \* a fault; two tagged pushes overlapped; a referrer check failed
  budget

here    == <<local, localTag>>
scanner == <<scanQueue, scan>>
vars    == <<here, push, queue, worker, session, remote, dropped, scanner, history, budget>>

\* The n-th report of an image: a manifest whose layer is its own.
Reports == Images \X (1..2)
BlobsOf(m)    == IF m \in Images THEN Layers[m] ELSE {m}
ChildrenOf(m) == IF m \in Images THEN Children[m] ELSE {}

NoPush  == [at |-> "idle", digest |-> None, tagged |-> FALSE, left |-> {}]
NoWork  == [at |-> "idle", stack |-> <<>>, visited |-> {}, tagged |-> FALSE]
NoScan  == [at |-> "idle", digest |-> None]
Goroutines == Pushers \union {Scanning}

Init ==
  /\ local = {} /\ localTag = None
  /\ push = [p \in Goroutines |-> NoPush]
  /\ queue = [t \in Targets |-> <<>>]
  /\ worker = [t \in Targets |-> NoWork]
  /\ session = [t \in Targets |-> "none"]
  /\ remote = [t \in Targets |-> [blobs |-> {}, manifests |-> {}, tag |-> None]]
  /\ dropped = {} /\ scanQueue = <<>> /\ scan = NoScan
  /\ history = [fault |-> FALSE, overlap |-> FALSE, unchecked |-> FALSE]
  /\ budget \in Setups
-----------------------------------------------------------------------------
Spend(kind) == budget[kind] > 0 /\ budget' = [budget EXCEPT ![kind] = @ - 1]
Fault       == Spend("faults") /\ history' = [history EXCEPT !.fault = TRUE]
NoFault     == UNCHANGED <<budget, history>>
-----------------------------------------------------------------------------
(***************************************************************************)
(* pushManifest, by a client or for a report.                              *)
(***************************************************************************)
Begin(p, m, tagged) == push' = [push EXCEPT ![p] =
  [at |-> "store", digest |-> m, tagged |-> tagged, left |-> budget.matched]]

\* The entries of an index must be stored.
Push(p, m, tagged) ==
  /\ p \in budget.clients /\ push[p].at = "idle" /\ Children[m] \subseteq local
  /\ Spend("pushes") /\ Begin(p, m, tagged)
  /\ history' = [history EXCEPT !.overlap =
       @ \/ (tagged /\ \E q \in Pushers : push[q].at # "idle" /\ push[q].tagged)]
  /\ UNCHANGED <<here, queue, worker, session, remote, dropped, scanner>>

PutManifest(p) ==
  /\ push[p].at = "store"
  /\ local' = local \union {push[p].digest}
  /\ push' = [push EXCEPT ![p].at = IF push[p].tagged THEN "tag" ELSE "scan"]
  /\ UNCHANGED <<localTag, queue, worker, session, remote, dropped, scanner, history, budget>>

PutTag(p) ==
  /\ push[p].at = "tag"
  /\ localTag' = push[p].digest
  /\ push' = [push EXCEPT ![p].at = "scan"]
  /\ UNCHANGED <<local, queue, worker, session, remote, dropped, scanner, history, budget>>

\* The scanner's OnManifestPushed: a report is not scanned; a full queue drops.
OnPushScan(p) ==
  /\ push[p].at = "scan"
  /\ push' = [push EXCEPT ![p].at = "replicate"]
  /\ scanQueue' = IF budget.scanner /\ push[p].digest \in Images /\ Len(scanQueue) < QueueSize
                  THEN Append(scanQueue, push[p].digest) ELSE scanQueue
  /\ UNCHANGED <<here, queue, worker, session, remote, dropped, scan, history, budget>>

\* The replication's OnManifestPushed: a job for every target that matches.
OnPushReplicate(p, t) ==
  /\ push[p].at = "replicate" /\ t \in push[p].left
  /\ push' = [push EXCEPT ![p].left = @ \ {t}]
  /\ IF Len(queue[t]) < QueueSize
     THEN /\ queue' = [queue EXCEPT ![t] =
                         Append(@, [digest |-> push[p].digest, tagged |-> push[p].tagged])]
          /\ UNCHANGED dropped
     ELSE dropped' = dropped \union {t} /\ UNCHANGED queue
  /\ UNCHANGED <<here, worker, session, remote, scanner, history, budget>>

Pushed(p) ==
  /\ push[p].at = "replicate" /\ push[p].left = {}
  /\ push' = [push EXCEPT ![p] = NoPush]
  /\ UNCHANGED <<here, queue, worker, session, remote, dropped, scanner, history, budget>>
-----------------------------------------------------------------------------
(***************************************************************************)
(* The scanner.                                                            *)
(***************************************************************************)
ReportsOf(m) == {r \in Reports : r[1] = m /\ r \in local}

ScanPop ==
  /\ scan.at = "idle" /\ scanQueue # <<>>
  /\ scan' = [at |-> "check", digest |-> Head(scanQueue)]
  /\ scanQueue' = Tail(scanQueue)
  /\ UNCHANGED <<here, push, queue, worker, session, remote, dropped, history, budget>>

\* Mutant: the scanner does not ask for a report.
HasReferrerSkipped ==
  /\ scan.at = "check" /\ scan' = [scan EXCEPT !.at = "scan"] /\ NoFault
  /\ UNCHANGED <<here, push, queue, worker, session, remote, dropped, scanQueue>>

\* HasReferrer: what has a report is skipped; on an error it is scanned again.
HasReferrer ==
  /\ scan.at = "check"
  /\ \/ /\ scan' = IF ReportsOf(scan.digest) # {} THEN NoScan ELSE [scan EXCEPT !.at = "scan"]
        /\ NoFault
     \/ /\ scan' = [scan EXCEPT !.at = "scan"] /\ Spend("faults")
        /\ history' = [history EXCEPT !.fault = TRUE, !.unchecked = TRUE]
  /\ UNCHANGED <<here, push, queue, worker, session, remote, dropped, scanQueue>>

\* Scan, and AttachReferrer up to its pushManifest: the image must still be stored.
Scan ==
  /\ scan.at = "scan"
  /\ \/ /\ NoFault /\ scan.digest \in local
        /\ Begin(Scanning, <<scan.digest, Cardinality(ReportsOf(scan.digest)) + 1>>, FALSE)
        /\ scan' = [scan EXCEPT !.at = "attach"]
     \/ /\ IF scan.digest \in local THEN Fault ELSE NoFault
        /\ scan' = NoScan /\ UNCHANGED push
  /\ UNCHANGED <<here, queue, worker, session, remote, dropped, scanQueue>>

Scanned ==
  /\ scan.at = "attach" /\ push[Scanning].at = "idle"
  /\ scan' = NoScan
  /\ UNCHANGED <<here, push, queue, worker, session, remote, dropped, scanQueue, history, budget>>
-----------------------------------------------------------------------------
(***************************************************************************)
(* The worker of a target: run, process, replicate and ensureBlob.         *)
(***************************************************************************)
Top(t)   == worker[t].stack[Len(worker[t].stack)]
Frame(m) == [digest |-> m, read |-> FALSE, children |-> {}, blobs |-> {}]

Change(t, frame) ==
  worker' = [worker EXCEPT ![t].stack[Len(worker[t].stack)] = frame]

EndJob(t) == worker' = [worker EXCEPT ![t] = NoWork]

\* visited, with the digest that is entered.
Descend(t, m, rest) ==
  worker' = [worker EXCEPT ![t].visited = @ \union {m}, ![t].stack = Append(rest, Frame(m))]

\* Mutant: the queue is a stack.
PopLast(t) ==
  /\ worker[t].at = "idle" /\ queue[t] # <<>>
  /\ LET job == queue[t][Len(queue[t])] IN
     worker' = [worker EXCEPT ![t] = [at |-> "replicate", stack |-> <<Frame(job.digest)>>,
                                      visited |-> {job.digest}, tagged |-> job.tagged]]
  /\ queue' = [queue EXCEPT ![t] = SubSeq(@, 1, Len(@) - 1)]
  /\ UNCHANGED <<here, push, session, remote, dropped, scanner, history, budget>>

Pop(t) ==
  /\ worker[t].at = "idle" /\ queue[t] # <<>>
  /\ LET job == Head(queue[t]) IN
     worker' = [worker EXCEPT ![t] = [at |-> "replicate", stack |-> <<Frame(job.digest)>>,
                                      visited |-> {job.digest}, tagged |-> job.tagged]]
  /\ queue' = [queue EXCEPT ![t] = Tail(@)]
  /\ UNCHANGED <<here, push, session, remote, dropped, scanner, history, budget>>

\* readManifest and parseRefs; a manifest that was deleted meanwhile ends the job.
ReadManifest(t) ==
  /\ worker[t].at = "replicate" /\ ~Top(t).read
  /\ LET m == Top(t).digest IN
     IF m \in local
     THEN Change(t, [digest |-> m, read |-> TRUE, children |-> ChildrenOf(m), blobs |-> BlobsOf(m)])
     ELSE EndJob(t)
  /\ UNCHANGED <<here, push, queue, session, remote, dropped, scanner, history, budget>>

\* Mutant: the entries of an index are taken for replicated already.
ReplicateChildNot(t) ==
  /\ worker[t].at = "replicate" /\ Top(t).read
  /\ \E c \in Top(t).children : Change(t, [Top(t) EXCEPT !.children = @ \ {c}])
  /\ UNCHANGED <<here, push, queue, session, remote, dropped, scanner, history, budget>>

ReplicateChild(t) ==
  /\ worker[t].at = "replicate" /\ Top(t).read
  /\ \E c \in Top(t).children :
       LET frame == [Top(t) EXCEPT !.children = @ \ {c}]
           below == [worker[t].stack EXCEPT ![Len(worker[t].stack)] = frame]
       IN IF c \in worker[t].visited THEN Change(t, frame) ELSE Descend(t, c, below)
  /\ UNCHANGED <<here, push, queue, session, remote, dropped, scanner, history, budget>>

\* authorize: the challenge once, then a token of the repository until it expires.
Authorize(t) ==
  /\ worker[t].at # "idle" /\ session[t] # "token"
  /\ Top(t).read /\ Top(t).children = {}
  /\ session' = [session EXCEPT ![t] = IF @ = "none" THEN "challenge" ELSE "token"]
  /\ UNCHANGED <<here, push, queue, worker, remote, dropped, scanner, history, budget>>

TokenExpires(t) ==
  /\ session[t] = "token" /\ Fault
  /\ session' = [session EXCEPT ![t] = "challenge"]
  /\ UNCHANGED <<here, push, queue, worker, remote, dropped, scanner>>

Authorized(t) == session[t] = "token"

\* The requests of the Client that matter to a blob.
BlobExists(t, b) == b \in remote[t].blobs
PushBlob(t, b)   == remote' = [remote EXCEPT ![t].blobs = @ \union {b}]

EnsureBlob(t) ==
  /\ worker[t].at = "replicate" /\ Authorized(t)
  /\ Top(t).read /\ Top(t).children = {}
  /\ \E b \in Top(t).blobs :
       /\ IF BlobExists(t, b) THEN UNCHANGED remote ELSE PushBlob(t, b)
       /\ Change(t, [Top(t) EXCEPT !.blobs = @ \ {b}])
  /\ UNCHANGED <<here, push, queue, session, dropped, scanner, history, budget>>

\* client.PutManifest under the digest; the outermost manifest of a tagged push
\* is put once more, under the tag.
PutRemoteManifest(t) ==
  /\ worker[t].at = "replicate" /\ Authorized(t)
  /\ Top(t).read /\ Top(t).children = {} /\ Top(t).blobs = {}
  /\ remote' = [remote EXCEPT ![t].manifests = @ \union {Top(t).digest}]
  /\ LET w == worker[t] IN
     worker' = [worker EXCEPT ![t] =
       IF Len(w.stack) > 1 THEN [w EXCEPT !.stack = SubSeq(w.stack, 1, Len(w.stack) - 1)]
       ELSE IF w.tagged THEN [w EXCEPT !.at = "tag"]
       ELSE NoWork]
  /\ UNCHANGED <<here, push, queue, session, dropped, scanner, history, budget>>

PutRemoteTag(t) ==
  /\ worker[t].at = "tag" /\ Authorized(t)
  /\ remote' = [remote EXCEPT ![t].tag = Top(t).digest]
  /\ EndJob(t)
  /\ UNCHANGED <<here, push, queue, session, dropped, scanner, history, budget>>

\* A request that fails or the timeout of the job ends it, and nothing retries it;
\* the request may have reached the target.
JobFails(t) ==
  /\ worker[t].at # "idle" /\ Fault
  /\ EndJob(t)
  /\ \/ UNCHANGED remote
     \/ \E b \in Top(t).blobs : Top(t).children = {} /\ PushBlob(t, b)
     \/ /\ worker[t].at = "replicate" /\ Top(t).read
        /\ Top(t).children = {} /\ Top(t).blobs = {}
        /\ remote' = [remote EXCEPT ![t].manifests = @ \union {Top(t).digest}]
     \/ worker[t].at = "tag" /\ remote' = [remote EXCEPT ![t].tag = Top(t).digest]
  /\ UNCHANGED <<here, push, queue, session, dropped, scanner>>
-----------------------------------------------------------------------------
\* A manifest is deleted here, with the tag on it.
Delete(m) ==
  /\ m \in local /\ Fault
  /\ local' = local \ {m}
  /\ localTag' = IF localTag = m THEN None ELSE localTag
  /\ UNCHANGED <<push, queue, worker, session, remote, dropped, scanner>>

\* The queues are in memory: the process ends, and starts again.
Restart ==
  /\ Fault
  /\ push' = [p \in Goroutines |-> NoPush]
  /\ queue' = [t \in Targets |-> <<>>] /\ worker' = [t \in Targets |-> NoWork]
  /\ session' = [t \in Targets |-> "none"]
  /\ dropped' = {} /\ scanQueue' = <<>> /\ scan' = NoScan
  /\ UNCHANGED <<here, remote>>

Next ==
  \/ \E p \in Pushers, m \in Images, tagged \in BOOLEAN : Push(p, m, tagged)
  \/ \E p \in Goroutines :
       \/ PutManifest(p) \/ PutTag(p) \/ OnPushScan(p) \/ Pushed(p)
       \/ \E t \in Targets : OnPushReplicate(p, t)
  \/ ScanPop \/ HasReferrer \/ Scan \/ Scanned
  \/ \E t \in Targets :
       \/ Pop(t) \/ ReadManifest(t) \/ ReplicateChild(t) \/ Authorize(t) \/ TokenExpires(t)
       \/ EnsureBlob(t) \/ PutRemoteManifest(t) \/ PutRemoteTag(t) \/ JobFails(t)
  \/ \E m \in Images : Delete(m)
  \/ Restart

Spec == Init /\ [][Next]_vars
-----------------------------------------------------------------------------
(***************************************************************************)
(* Whatever a target can be asked for can be pulled from it: a manifest is *)
(* put there after its blobs and its entries, also when jobs fail half way *)
(* and a later job finds part of their work, or the process restarts.      *)
(***************************************************************************)
TargetComplete ==
  \A t \in Targets :
    /\ \A m \in remote[t].manifests : /\ BlobsOf(m) \subseteq remote[t].blobs
                                      /\ ChildrenOf(m) \subseteq remote[t].manifests
    /\ remote[t].tag \in remote[t].manifests \union {None}

(***************************************************************************)
(* When all is done, nothing failed or was dropped, and no two tagged      *)
(* pushes overlapped, the tag names the same manifest at every matching    *)
(* target as here: a queue and one worker per target keep the order of the *)
(* tagged pushes, whatever reports and untagged pushes come in between.    *)
(***************************************************************************)
Quiet ==
  /\ \A p \in Goroutines : push[p].at = "idle"
  /\ \A t \in Targets : queue[t] = <<>> /\ worker[t].at = "idle"
  /\ scanQueue = <<>> /\ scan.at = "idle"

TagFollows ==
  Quiet /\ ~history.fault /\ ~history.overlap
    => \A t \in budget.matched \ dropped : remote[t].tag = localTag

(***************************************************************************)
(* However often an image is pushed while it is scanned, it gets one       *)
(* report, unless the check for a report failed; and a report is never     *)
(* scanned itself, so that the chain of pushes ends.                       *)
(***************************************************************************)
OneReport == ~history.unchecked => \A m \in Images : Cardinality(ReportsOf(m)) <= 1
=============================================================================
