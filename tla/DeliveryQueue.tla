---------------------------- MODULE DeliveryQueue ----------------------------
(***************************************************************************)
(* internal/activitypub/delivery_queue.go with internal/database/          *)
(* delivery.go: the persistent queue of outgoing activities, the single    *)
(* run loop that fetches batches of due rows, the goroutines of a batch    *)
(* (one per row), the per-domain circuit breaker, and the is_healthy flag  *)
(* of the peers it shares with internal/peering/health.go.                 *)
(*                                                                         *)
(* A row is identified by its (activity_id, inbox_url) pair.  Time is      *)
(* abstracted to the comparisons the code makes: a row is due or not, old  *)
(* enough for cleanup or not, an open circuit is expired or not.           *)
(***************************************************************************)
EXTENDS Naturals, FiniteSets

CONSTANTS
  Deliveries,    \* the (activity_id, inbox_url) pairs
  Domains,       \* host names of peers
  NoDomain,      \* inboxDomain's "" for an inbox URL without host
  InboxDomain,   \* inboxDomain of each delivery's inbox URL
  MaxAttempts,   \* the max_attempts column (10)
  Threshold,     \* circuitBreakerThreshold (5)
  BatchSize,     \* deliveryBatchSize (50)
  MaxRestarts,   \* bound: restarts of the process in a behaviour
  MaxErrors      \* bound: database errors in a behaviour

ASSUME DeliveryAssumption ==
  /\ NoDomain \notin Domains
  /\ InboxDomain \in [Deliveries -> Domains \union {NoDomain}]
  /\ MaxAttempts \in Nat \ {0}
  /\ Threshold \in Nat \ {0}
  /\ BatchSize \in Nat \ {0}

VARIABLES
  \* the database
  status, attempts,  \* columns of delivery_queue; status "absent" is no row
  due,               \* next_attempt_at <= CURRENT_TIMESTAMP
  old,               \* created_at is before cleanup's cutoff
  healthy,           \* is_healthy of the actors of a domain
  accepted,          \* the peer's inbox answered OK for this row
  \* the process
  failures, circuit, \* the breaker: failures[domain]; openUntil[domain] as
                     \*   "closed" (no entry), "open" or "expired"
  loop,              \* "select", in processBatch ("batch"), in drainRemaining
                     \*   ("drain"), or no process at all ("down")
  pc, snap,          \* the goroutine of a row and the attempts it was fetched with
  ctxDone,           \* the server's context is over
  prewarm,           \* PreWarmCircuit: "load", "open"
  todo,              \* domains it still has to open
  restarts, errors

rows    == <<status, attempts, due, old, accepted>>
breaker == <<failures, circuit>>
process == <<loop, ctxDone, prewarm, todo, restarts>>
vars    == <<rows, healthy, breaker, process, pc, snap, errors>>

Steps == {"idle", "check", "send", "recordFailure", "persistOpen", "markFailed",
          "checkClose", "recordSuccess", "clearOpen", "persistClose", "markDelivered"}

TypeOK ==
  /\ status \in [Deliveries -> {"absent", "pending", "delivered", "failed"}]
  /\ attempts \in [Deliveries -> 0..MaxAttempts]
  /\ due \in [Deliveries -> BOOLEAN]
  /\ old \in [Deliveries -> BOOLEAN]
  /\ accepted \in [Deliveries -> BOOLEAN]
  /\ healthy \in [Domains -> BOOLEAN]
  /\ failures \in [Domains -> Nat]
  /\ circuit \in [Domains -> {"closed", "open", "expired"}]
  /\ loop \in {"select", "batch", "drain", "down"}
  /\ pc \in [Deliveries -> Steps]
  /\ snap \in [Deliveries -> 0..MaxAttempts]
  /\ ctxDone \in BOOLEAN
  /\ prewarm \in {"load", "open"}
  /\ todo \in SUBSET Domains
  /\ restarts \in Nat
  /\ errors \in Nat

Init ==
  /\ status = [d \in Deliveries |-> "absent"]
  /\ attempts = [d \in Deliveries |-> 0]
  /\ due = [d \in Deliveries |-> FALSE]
  /\ old = [d \in Deliveries |-> FALSE]
  /\ accepted = [d \in Deliveries |-> FALSE]
  /\ healthy = [x \in Domains |-> TRUE]
  /\ failures = [x \in Domains |-> 0]
  /\ circuit = [x \in Domains |-> "closed"]
  /\ loop = "select"
  /\ pc = [d \in Deliveries |-> "idle"]
  /\ snap = [d \in Deliveries |-> 0]
  /\ ctxDone = FALSE
  /\ prewarm = "load"
  /\ todo = {}
  /\ restarts = 0
  /\ errors = 0
-----------------------------------------------------------------------------
(***************************************************************************)
(* Database operations.  A statement of a batch whose context is over      *)
(* fails, and any statement may fail (errors counts those).                *)
(***************************************************************************)
CtxOver == loop = "batch" /\ ctxDone

DbOk == ~CtxOver /\ UNCHANGED errors

DbError ==
  \/ CtxOver /\ UNCHANGED errors
  \/ ~CtxOver /\ errors < MaxErrors /\ errors' = errors + 1

\* INSERT ... ON CONFLICT DO NOTHING: an existing row, whatever its status,
\* makes it a no-op.
EnqueueDelivery(d) ==
  /\ loop # "down"
  /\ status[d] = "absent"
  /\ status' = [status EXCEPT ![d] = "pending"]
  /\ due' = [due EXCEPT ![d] = TRUE]
  /\ UNCHANGED <<attempts, old, accepted, healthy, breaker, process, pc, snap, errors>>

\* Rows ready to be attempted, and what LIMIT can return of them.
PendingDeliveries == {d \in Deliveries : status[d] = "pending" /\ due[d]}

Batches ==
  {S \in SUBSET PendingDeliveries :
     \/ S = PendingDeliveries /\ Cardinality(S) <= BatchSize
     \/ Cardinality(S) = BatchSize}

\* MarkDeliveryFailed decides the status from the attempts the row was fetched
\* with and increments the column.
FailedStatus(d) == IF snap[d] + 1 >= MaxAttempts THEN "failed" ELSE "pending"

\* Mutant: the attempt is not counted in the row.
MarkDeliveryFailedUncounted(d) ==
  /\ status' = [status EXCEPT ![d] = FailedStatus(d)]
  /\ due' = [due EXCEPT ![d] = FALSE]
  /\ UNCHANGED attempts

MarkDeliveryFailed(d) ==
  /\ attempts' = [attempts EXCEPT ![d] = @ + 1]
  /\ status' = [status EXCEPT ![d] = FailedStatus(d)]
  /\ due' = [due EXCEPT ![d] = FALSE]

MarkDelivered(d) ==
  /\ attempts' = [attempts EXCEPT ![d] = @ + 1]
  /\ status' = [status EXCEPT ![d] = "delivered"]
  /\ UNCHANGED due

CleanupDeliveries ==
  {d \in Deliveries : status[d] \in {"delivered", "failed"} /\ old[d]}
-----------------------------------------------------------------------------
\* deliveryCircuitBreaker, each method under its mutex.
IsOpen(x) == circuit[x] = "open"

\* Mutant: the expired entry is deleted, its failures are not.
ExpireKeepsFailures(x) ==
  IF circuit[x] = "expired"
    THEN circuit' = [circuit EXCEPT ![x] = "closed"] /\ UNCHANGED failures
    ELSE UNCHANGED breaker

\* isOpen's side effect: an expired entry is deleted with its failures.
Expire(x) ==
  IF circuit[x] = "expired"
    THEN /\ circuit' = [circuit EXCEPT ![x] = "closed"]
         /\ failures' = [failures EXCEPT ![x] = 0]
    ELSE UNCHANGED breaker

\* recordSuccess clears only when there is an openUntil entry.
ClearIfOpen(x) ==
  IF circuit[x] # "closed"
    THEN /\ circuit' = [circuit EXCEPT ![x] = "closed"]
         /\ failures' = [failures EXCEPT ![x] = 0]
    ELSE UNCHANGED breaker

\* recordFailure opens on reaching the threshold; an entry counts as open even
\* when it has expired.
Opens(x) == failures[x] + 1 >= Threshold /\ circuit[x] = "closed"

CountFailure(x) ==
  /\ failures' = [failures EXCEPT ![x] = @ + 1]
  /\ circuit' = [circuit EXCEPT ![x] = IF Opens(x) THEN "open" ELSE @]
-----------------------------------------------------------------------------
\* The run loop.
Fetch(S, mode) ==
  /\ pc' = [d \in Deliveries |-> IF d \in S THEN "check" ELSE pc[d]]
  /\ snap' = [d \in Deliveries |-> IF d \in S THEN attempts[d] ELSE snap[d]]
  /\ loop' = mode
  /\ UNCHANGED <<rows, healthy, breaker, ctxDone, prewarm, todo, restarts, errors>>

\* notify or the poll ticker; an empty or failed query changes nothing.
ProcessBatch ==
  /\ loop = "select" /\ ~ctxDone
  /\ PendingDeliveries # {}
  /\ \E S \in Batches : Fetch(S, "batch")

\* Shutdown: one last batch under a context of its own; the query may fail.
DrainRemaining ==
  /\ loop = "select" /\ ctxDone
  /\ \E S \in Batches \union {{}} : Fetch(S, "drain")

\* p.Wait returned.  After drainRemaining the loop, and then the process, ends.
BatchDone ==
  /\ loop \in {"batch", "drain"}
  /\ \A d \in Deliveries : pc[d] = "idle"
  /\ loop' = IF loop = "batch" THEN "select" ELSE "down"
  /\ UNCHANGED <<rows, healthy, breaker, ctxDone, prewarm, todo, restarts, pc, snap, errors>>

Cleanup ==
  /\ loop = "select" /\ ~ctxDone
  /\ CleanupDeliveries # {}
  /\ status' = [d \in Deliveries |-> IF d \in CleanupDeliveries THEN "absent" ELSE status[d]]
  /\ attempts' = [d \in Deliveries |-> IF d \in CleanupDeliveries THEN 0 ELSE attempts[d]]
  /\ accepted' = [d \in Deliveries |-> IF d \in CleanupDeliveries THEN FALSE ELSE accepted[d]]
  /\ due' = [d \in Deliveries |-> IF d \in CleanupDeliveries THEN FALSE ELSE due[d]]
  /\ old' = [d \in Deliveries |-> IF d \in CleanupDeliveries THEN FALSE ELSE old[d]]
  /\ UNCHANGED <<healthy, breaker, process, pc, snap, errors>>
-----------------------------------------------------------------------------
(***************************************************************************)
(* deliver: the goroutine of row d.  Each step is one call whose effect    *)
(* another goroutine can see.                                              *)
(***************************************************************************)
Goto(d, step) == pc' = [pc EXCEPT ![d] = step] /\ UNCHANGED <<snap, process>>

CheckCircuit(d) ==
  /\ pc[d] = "check"
  /\ \/ /\ InboxDomain[d] = NoDomain
        /\ UNCHANGED breaker
        /\ Goto(d, "send")
     \/ /\ InboxDomain[d] \in Domains
        /\ Expire(InboxDomain[d])
        /\ Goto(d, IF IsOpen(InboxDomain[d]) THEN "markFailed" ELSE "send")
  /\ UNCHANGED <<rows, healthy, errors>>

\* Mutant: an error status is not treated as a failure.
DeliverActivityIgnoresStatus(d) ==
  /\ pc[d] = "send"
  /\ \/ accepted' = [accepted EXCEPT ![d] = TRUE]
     \/ UNCHANGED accepted
  /\ Goto(d, "checkClose")
  /\ UNCHANGED <<status, attempts, due, old, healthy, breaker, errors>>

\* The POST: answered OK, refused or unreachable, or accepted with the answer lost.
\* (A POST to an inbox without host can only fail; the model allows it any
\* outcome.)
DeliverActivity(d) ==
  /\ pc[d] = "send"
  /\ \/ /\ accepted' = [accepted EXCEPT ![d] = TRUE]
        /\ \/ ~CtxOver /\ Goto(d, "checkClose")
           \/ Goto(d, "recordFailure")
     \/ /\ UNCHANGED accepted
        /\ Goto(d, "recordFailure")
  /\ UNCHANGED <<status, attempts, due, old, healthy, breaker, errors>>

RecordFailure(d) ==
  /\ pc[d] = "recordFailure"
  /\ \/ /\ InboxDomain[d] = NoDomain
        /\ UNCHANGED breaker
        /\ Goto(d, "markFailed")
     \/ /\ InboxDomain[d] \in Domains
        /\ CountFailure(InboxDomain[d])
        /\ Goto(d, IF Opens(InboxDomain[d]) THEN "persistOpen" ELSE "markFailed")
  /\ UNCHANGED <<rows, healthy, errors>>

\* SetPeerHealthByDomain(domain, false)
PersistOpen(d) ==
  /\ pc[d] = "persistOpen"
  /\ \/ DbOk /\ healthy' = [healthy EXCEPT ![InboxDomain[d]] = FALSE]
     \/ DbError /\ UNCHANGED healthy
  /\ Goto(d, "markFailed")
  /\ UNCHANGED <<rows, breaker>>

\* Mutant: no return after marking a delivery the open circuit skipped.
MarkFailedNoReturn(d) ==
  /\ pc[d] = "markFailed"
  /\ DbOk /\ MarkDeliveryFailed(d)
  /\ Goto(d, "send")
  /\ UNCHANGED <<old, accepted, healthy, breaker>>

MarkFailed(d) ==
  /\ pc[d] = "markFailed"
  /\ \/ DbOk /\ MarkDeliveryFailed(d)
     \/ DbError /\ UNCHANGED <<attempts, status, due>>
  /\ Goto(d, "idle")
  /\ UNCHANGED <<old, accepted, healthy, breaker>>

CheckClose(d) ==
  /\ pc[d] = "checkClose"
  /\ \/ /\ InboxDomain[d] = NoDomain
        /\ UNCHANGED breaker
        /\ Goto(d, "markDelivered")
     \/ /\ InboxDomain[d] \in Domains
        /\ Expire(InboxDomain[d])
        /\ Goto(d, IF IsOpen(InboxDomain[d]) THEN "clearOpen" ELSE "recordSuccess")
  /\ UNCHANGED <<rows, healthy, errors>>

RecordSuccess(d) ==
  /\ pc[d] \in {"clearOpen", "recordSuccess"}
  /\ ClearIfOpen(InboxDomain[d])
  /\ Goto(d, IF pc[d] = "clearOpen" THEN "persistClose" ELSE "markDelivered")
  /\ UNCHANGED <<rows, healthy, errors>>

\* SetPeerHealthByDomain(domain, true)
PersistClose(d) ==
  /\ pc[d] = "persistClose"
  /\ \/ DbOk /\ healthy' = [healthy EXCEPT ![InboxDomain[d]] = TRUE]
     \/ DbError /\ UNCHANGED healthy
  /\ Goto(d, "markDelivered")
  /\ UNCHANGED <<rows, breaker>>

MarkDone(d) ==
  /\ pc[d] = "markDelivered"
  /\ \/ DbOk /\ MarkDelivered(d)
     \/ DbError /\ UNCHANGED <<attempts, status, due>>
  /\ Goto(d, "idle")
  /\ UNCHANGED <<old, accepted, healthy, breaker>>

Deliver(d) ==
  \/ CheckCircuit(d) \/ DeliverActivity(d)
  \/ RecordFailure(d) \/ PersistOpen(d) \/ MarkFailed(d)
  \/ CheckClose(d) \/ RecordSuccess(d) \/ PersistClose(d) \/ MarkDone(d)
-----------------------------------------------------------------------------
(***************************************************************************)
(* PreWarmCircuit, which server.Start launches in a goroutine after the    *)
(* run loop is started.  forceOpen leaves the failure count alone.         *)
(***************************************************************************)
PreWarmLoad ==
  /\ loop # "down" /\ prewarm = "load"
  /\ \/ /\ ~ctxDone
        /\ todo' = {x \in Domains : ~healthy[x]}
        /\ UNCHANGED errors
     \/ /\ \/ ctxDone /\ UNCHANGED errors
           \/ errors < MaxErrors /\ errors' = errors + 1
        /\ todo' = {}
  /\ prewarm' = "open"
  /\ UNCHANGED <<rows, healthy, breaker, loop, ctxDone, restarts, pc, snap>>

PreWarmOpen(x) ==
  /\ loop # "down" /\ x \in todo
  /\ circuit' = [circuit EXCEPT ![x] = "open"]
  /\ todo' = todo \ {x}
  /\ UNCHANGED <<rows, healthy, failures, loop, ctxDone, prewarm, restarts, pc, snap, errors>>

\* HealthChecker.checkAll for the peers of one domain; nothing is written once
\* the context is over.
CheckHealth(x) ==
  /\ loop # "down" /\ ~ctxDone
  /\ \E up \in BOOLEAN : healthy' = [healthy EXCEPT ![x] = up]
  /\ UNCHANGED <<rows, breaker, process, pc, snap, errors>>
-----------------------------------------------------------------------------
\* The passing of time.
BackoffOver(d) ==
  /\ status[d] = "pending" /\ ~due[d]
  /\ due' = [due EXCEPT ![d] = TRUE]
  /\ UNCHANGED <<status, attempts, old, accepted, healthy, breaker, process, pc, snap, errors>>

GrowOld(d) ==
  /\ status[d] # "absent" /\ ~old[d]
  /\ old' = [old EXCEPT ![d] = TRUE]
  /\ UNCHANGED <<status, attempts, due, accepted, healthy, breaker, process, pc, snap, errors>>

CircuitTimeout(x) ==
  /\ circuit[x] = "open"
  /\ circuit' = [circuit EXCEPT ![x] = "expired"]
  /\ UNCHANGED <<rows, healthy, failures, process, pc, snap, errors>>

\* The process: asked to stop, killed, started again.
Shutdown ==
  /\ loop # "down" /\ ~ctxDone /\ restarts < MaxRestarts
  /\ ctxDone' = TRUE
  /\ UNCHANGED <<rows, healthy, breaker, loop, prewarm, todo, restarts, pc, snap, errors>>

Crash ==
  /\ loop # "down" /\ restarts < MaxRestarts
  /\ loop' = "down"
  /\ pc' = [d \in Deliveries |-> "idle"]
  /\ UNCHANGED <<rows, healthy, breaker, ctxDone, prewarm, todo, restarts, snap, errors>>

Restart ==
  /\ loop = "down"
  /\ loop' = "select"
  /\ ctxDone' = FALSE
  /\ failures' = [x \in Domains |-> 0]
  /\ circuit' = [x \in Domains |-> "closed"]
  /\ prewarm' = "load"
  /\ todo' = {}
  /\ restarts' = restarts + 1
  /\ UNCHANGED <<rows, healthy, pc, snap, errors>>
-----------------------------------------------------------------------------
Next ==
  \/ \E d \in Deliveries : EnqueueDelivery(d) \/ Deliver(d) \/ BackoffOver(d) \/ GrowOld(d)
  \/ ProcessBatch \/ DrainRemaining \/ BatchDone \/ Cleanup
  \/ PreWarmLoad
  \/ \E x \in Domains : PreWarmOpen(x) \/ CheckHealth(x) \/ CircuitTimeout(x)
  \/ Shutdown \/ Crash \/ Restart

(***************************************************************************)
(* The goroutines are scheduled, the poll ticker keeps firing, backoffs    *)
(* end, and a stopped process is started again.                            *)
(***************************************************************************)
Fairness ==
  /\ \A d \in Deliveries : WF_vars(Deliver(d)) /\ WF_vars(BackoffOver(d))
  /\ WF_vars(ProcessBatch) /\ WF_vars(DrainRemaining) /\ WF_vars(BatchDone)
  /\ WF_vars(Restart)

Spec == Init /\ [][Next]_vars
FairSpec == Spec /\ Fairness
-----------------------------------------------------------------------------
Ledger == INSTANCE ReliableDelivery

(***************************************************************************)
(* The queue keeps its promise across concurrent goroutines, database      *)
(* errors, shutdowns in the middle of a batch and crashes: seen through    *)
(* its rows it is ReliableDelivery.  In particular a row becomes           *)
(* delivered only after the peer answered OK, fails only with MaxAttempts  *)
(* attempts counted, and is never removed while pending.                   *)
(***************************************************************************)
LedgerSpec == Ledger!Spec

(***************************************************************************)
(* The status MarkDeliveryFailed writes is computed from the attempts the  *)
(* row was fetched with.  That snapshot is never stale: while a goroutine  *)
(* works on a row the row is pending and its attempts are the snapshot's.  *)
(***************************************************************************)
SnapshotFresh ==
  \A d \in Deliveries :
    pc[d] # "idle" => status[d] = "pending" /\ snap[d] = attempts[d]

(***************************************************************************)
(* The breaker never sits closed on a failure count at the threshold,      *)
(* whatever the order of failures, late successes, expiries and            *)
(* PreWarmCircuit: the failure that reaches the threshold opens it.        *)
(***************************************************************************)
BreakerCoherent ==
  \A x \in Domains : circuit[x] = "closed" => failures[x] < Threshold

(***************************************************************************)
(* Every enqueued activity is settled: delivered or failed after finitely  *)
(* many attempts, also when the circuit is open and when the process is    *)
(* restarted in between.                                                   *)
(***************************************************************************)
EventuallySettled ==
  \A d \in Deliveries : status[d] = "pending" ~> status[d] # "pending"
=============================================================================
