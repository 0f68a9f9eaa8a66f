------------------------- MODULE DeliveryQueue_proofs -------------------------
(***************************************************************************)
(* Proofs about the delivery queue for any set of deliveries and domains,  *)
(* any limits and any number of restarts and database errors: its types,   *)
(* the freshness of a goroutine's snapshot, the coherence of the circuit   *)
(* breaker, and that the queue implements ReliableDelivery.                *)
(***************************************************************************)
EXTENDS DeliveryQueue, TLAPS

Succeeded == {"checkClose", "recordSuccess", "clearOpen", "persistClose", "markDelivered"}

\* A batch is over before the loop is back at its select or the process gone.
Quiescent ==
  loop \in {"select", "down"} => \A d \in Deliveries : pc[d] = "idle"

\* A row can still take an attempt as long as it is pending, and a delivery
\* without a row has none.
AttemptsLeft ==
  \A d \in Deliveries :
    /\ status[d] = "pending" => attempts[d] < MaxAttempts
    /\ status[d] = "absent" => attempts[d] = 0

\* A goroutine on the success path has the peer's OK.
SuccessEarned == \A d \in Deliveries : pc[d] \in Succeeded => accepted[d]

QueueInv == TypeOK /\ Quiescent /\ SnapshotFresh /\ AttemptsLeft /\ SuccessEarned

(***************************************************************************)
(* The queue starts empty, with no goroutine running.                      *)
(***************************************************************************)
LEMMA QueueInvInit == Init => QueueInv
<1> SUFFICES ASSUME Init PROVE QueueInv
  OBVIOUS
<1>1. TypeOK
  <2>1. /\ due \in [Deliveries -> BOOLEAN] /\ old \in [Deliveries -> BOOLEAN]
        /\ accepted \in [Deliveries -> BOOLEAN] /\ healthy \in [Domains -> BOOLEAN]
    BY DEF Init
  <2>2. /\ status \in [Deliveries -> {"absent", "pending", "delivered", "failed"}]
        /\ attempts \in [Deliveries -> 0..MaxAttempts]
        /\ snap \in [Deliveries -> 0..MaxAttempts]
        /\ failures \in [Domains -> Nat]
        /\ circuit \in [Domains -> {"closed", "open", "expired"}]
        /\ pc \in [Deliveries -> Steps]
    BY DeliveryAssumption DEF Init, Steps
  <2>3. /\ loop \in {"select", "batch", "drain", "down"} /\ ctxDone \in BOOLEAN
        /\ prewarm \in {"load", "open"} /\ todo \in SUBSET Domains
        /\ restarts \in Nat /\ errors \in Nat
    BY DEF Init
  <2> QED BY <2>1, <2>2, <2>3 DEF TypeOK
<1>2. Quiescent /\ SnapshotFresh /\ SuccessEarned
  BY DEF Init, Quiescent, SnapshotFresh, SuccessEarned, Succeeded
<1>3. AttemptsLeft
  BY DeliveryAssumption DEF Init, AttemptsLeft
<1> QED BY <1>1, <1>2, <1>3 DEF QueueInv

(***************************************************************************)
(* A step that touches no row and no goroutine keeps the parts about them. *)
(***************************************************************************)
LEMMA RowsKept ==
  QueueInv /\ UNCHANGED <<rows, pc, snap>> /\ (loop' = loop)
    => (Quiescent /\ SnapshotFresh /\ AttemptsLeft /\ SuccessEarned)'
  BY DEF QueueInv, rows, Quiescent, SnapshotFresh, AttemptsLeft, SuccessEarned

(***************************************************************************)
(* The invariant is kept by the steps of a batch's goroutines.             *)
(***************************************************************************)
LEMMA DeliverStep ==
  ASSUME QueueInv, NEW d \in Deliveries, Deliver(d)
  PROVE  QueueInv'
<1> USE DeliveryAssumption DEF QueueInv, rows, breaker, process, Goto
<1>0. loop \notin {"select", "down"} /\ status[d] = "pending" /\ snap[d] = attempts[d]
      /\ attempts[d] < MaxAttempts
  <2>1. pc[d] # "idle"
    BY DEF Deliver, CheckCircuit, DeliverActivity, RecordFailure, PersistOpen, MarkFailed,
           CheckClose, RecordSuccess, PersistClose, MarkDone
  <2> QED BY <2>1 DEF Quiescent, SnapshotFresh, AttemptsLeft
<1>1. CASE CheckCircuit(d)
  BY <1>0, <1>1 DEF CheckCircuit, Expire, TypeOK, Steps, Quiescent, SnapshotFresh, AttemptsLeft, SuccessEarned, Succeeded
<1>2. CASE DeliverActivity(d)
  <2>1. TypeOK'
    BY <1>0, <1>2 DEF DeliverActivity, TypeOK, Steps
  <2>2. (Quiescent /\ SnapshotFresh /\ AttemptsLeft)'
    BY <1>0, <1>2 DEF DeliverActivity, TypeOK, Quiescent, SnapshotFresh, AttemptsLeft
  <2>3. SuccessEarned'
    BY <1>0, <1>2 DEF DeliverActivity, TypeOK, SuccessEarned, Succeeded
  <2> QED BY <2>1, <2>2, <2>3
<1>3. CASE RecordFailure(d)
  BY <1>0, <1>3 DEF RecordFailure, CountFailure, TypeOK, Steps, Quiescent, SnapshotFresh, AttemptsLeft, SuccessEarned, Succeeded
<1>4. CASE PersistOpen(d)
  <2>1. TypeOK'
    <3>1. healthy' \in [Domains -> BOOLEAN]
      BY <1>4 DEF PersistOpen, TypeOK
    <3>2. errors' \in Nat
      BY <1>4 DEF PersistOpen, DbOk, DbError, TypeOK
    <3> QED BY <1>4, <3>1, <3>2 DEF PersistOpen, TypeOK, Steps
  <2>2. (Quiescent /\ SnapshotFresh /\ AttemptsLeft)'
    BY <1>0, <1>4 DEF PersistOpen, DbOk, DbError, TypeOK, Quiescent, SnapshotFresh, AttemptsLeft
  <2>3. SuccessEarned'
    BY <1>0, <1>4 DEF PersistOpen, DbOk, DbError, TypeOK, SuccessEarned, Succeeded
  <2> QED BY <2>1, <2>2, <2>3
<1>5. CASE MarkFailed(d)
  <2>1. TypeOK'
    <3>1. due' \in [Deliveries -> BOOLEAN]
      BY <1>5 DEF MarkFailed, MarkDeliveryFailed, TypeOK
    <3>2. errors' \in Nat
      BY <1>5 DEF MarkFailed, DbOk, DbError, TypeOK
    <3>3. /\ attempts' \in [Deliveries -> 0..MaxAttempts]
          /\ status' \in [Deliveries -> {"absent", "pending", "delivered", "failed"}]
      BY <1>0, <1>5 DEF MarkFailed, MarkDeliveryFailed, FailedStatus, TypeOK
    <3> QED BY <1>5, <3>1, <3>2, <3>3 DEF MarkFailed, TypeOK, Steps
  <2>2. (Quiescent /\ SnapshotFresh /\ AttemptsLeft)'
    BY <1>0, <1>5 DEF MarkFailed, MarkDeliveryFailed, FailedStatus, DbOk, DbError, TypeOK, Quiescent, SnapshotFresh, AttemptsLeft
  <2>3. SuccessEarned'
    BY <1>0, <1>5 DEF MarkFailed, MarkDeliveryFailed, FailedStatus, DbOk, DbError, TypeOK, SuccessEarned, Succeeded
  <2> QED BY <2>1, <2>2, <2>3
<1>6. CASE CheckClose(d)
  BY <1>0, <1>6 DEF CheckClose, Expire, TypeOK, Steps, Quiescent, SnapshotFresh, AttemptsLeft, SuccessEarned, Succeeded
<1>7. CASE RecordSuccess(d)
  BY <1>0, <1>7 DEF RecordSuccess, ClearIfOpen, TypeOK, Steps, Quiescent, SnapshotFresh, AttemptsLeft, SuccessEarned, Succeeded
<1>8. CASE PersistClose(d)
  <2>1. TypeOK'
    <3>1. healthy' \in [Domains -> BOOLEAN]
      BY <1>8 DEF PersistClose, TypeOK
    <3>2. errors' \in Nat
      BY <1>8 DEF PersistClose, DbOk, DbError, TypeOK
    <3> QED BY <1>8, <3>1, <3>2 DEF PersistClose, TypeOK, Steps
  <2>2. (Quiescent /\ SnapshotFresh /\ AttemptsLeft)'
    BY <1>0, <1>8 DEF PersistClose, DbOk, DbError, TypeOK, Quiescent, SnapshotFresh, AttemptsLeft
  <2>3. SuccessEarned'
    BY <1>0, <1>8 DEF PersistClose, DbOk, DbError, TypeOK, SuccessEarned, Succeeded
  <2> QED BY <2>1, <2>2, <2>3
<1>9. CASE MarkDone(d)
  <2>1. TypeOK'
    BY <1>0, <1>9 DEF MarkDone, MarkDelivered, DbOk, DbError, TypeOK, Steps
  <2>2. (Quiescent /\ SnapshotFresh /\ AttemptsLeft)'
    BY <1>0, <1>9 DEF MarkDone, MarkDelivered, DbOk, DbError, TypeOK, Quiescent, SnapshotFresh, AttemptsLeft
  <2>3. SuccessEarned'
    BY <1>0, <1>9 DEF MarkDone, MarkDelivered, DbOk, DbError, TypeOK, SuccessEarned, Succeeded
  <2> QED BY <2>1, <2>2, <2>3
<1> QED BY <1>1, <1>2, <1>3, <1>4, <1>5, <1>6, <1>7, <1>8, <1>9 DEF Deliver

(***************************************************************************)
(* The invariant is kept by every step of the queue, of the peers' health, *)
(* of time and of the process.                                             *)
(***************************************************************************)
LEMMA QueueInvStep == QueueInv /\ [Next]_vars => QueueInv'
<1> SUFFICES ASSUME QueueInv, [Next]_vars PROVE QueueInv'
  OBVIOUS
<1> USE DeliveryAssumption DEF QueueInv, rows, breaker, process
<1> DEFINE RowInv == Quiescent /\ SnapshotFresh /\ AttemptsLeft /\ SuccessEarned
<1>1. ASSUME NEW d \in Deliveries, EnqueueDelivery(d) PROVE QueueInv'
  <2>1. due' \in [Deliveries -> BOOLEAN]
    BY <1>1 DEF EnqueueDelivery, TypeOK
  <2>2. status' \in [Deliveries -> {"absent", "pending", "delivered", "failed"}]
    BY <1>1 DEF EnqueueDelivery, TypeOK
  <2>3. TypeOK'
    BY <1>1, <2>1, <2>2 DEF EnqueueDelivery, TypeOK
  <2>4. RowInv'
    BY <1>1 DEF EnqueueDelivery, TypeOK, Quiescent, SnapshotFresh, AttemptsLeft, SuccessEarned
  <2> QED BY <2>3, <2>4
<1>2. ASSUME NEW d \in Deliveries, Deliver(d) PROVE QueueInv'
  BY <1>2, DeliverStep
<1>3. ASSUME NEW d \in Deliveries, BackoffOver(d) \/ GrowOld(d) PROVE QueueInv'
  <2>1. due' \in [Deliveries -> BOOLEAN] /\ old' \in [Deliveries -> BOOLEAN]
    BY <1>3 DEF BackoffOver, GrowOld, TypeOK
  <2>2. TypeOK'
    BY <1>3, <2>1 DEF BackoffOver, GrowOld, TypeOK
  <2>3. RowInv'
    BY <1>3 DEF BackoffOver, GrowOld, Quiescent, SnapshotFresh, AttemptsLeft, SuccessEarned
  <2> QED BY <2>2, <2>3
<1>4. CASE ProcessBatch \/ DrainRemaining
  <2>1. PICK S \in SUBSET PendingDeliveries, mode \in {"batch", "drain"} :
          Fetch(S, mode) /\ loop = "select"
    BY <1>4 DEF ProcessBatch, DrainRemaining, Batches
  <2>2. \A d \in Deliveries : pc[d] = "idle"
    BY <2>1 DEF Quiescent
  <2>3. TypeOK'
    BY <2>1 DEF Fetch, TypeOK, Steps
  <2>4. RowInv'
    BY <2>1, <2>2 DEF Fetch, PendingDeliveries, TypeOK, Quiescent, SnapshotFresh, AttemptsLeft,
                      SuccessEarned, Succeeded
  <2> QED BY <2>3, <2>4
<1>5. CASE BatchDone
  BY <1>5 DEF BatchDone, TypeOK, Quiescent, SnapshotFresh, AttemptsLeft, SuccessEarned
<1>6. CASE Cleanup
  <2>1. /\ due' \in [Deliveries -> BOOLEAN] /\ old' \in [Deliveries -> BOOLEAN]
        /\ accepted' \in [Deliveries -> BOOLEAN]
    BY <1>6 DEF Cleanup, TypeOK
  <2>2. /\ status' \in [Deliveries -> {"absent", "pending", "delivered", "failed"}]
        /\ attempts' \in [Deliveries -> 0..MaxAttempts]
    BY <1>6 DEF Cleanup, TypeOK
  <2>3. TypeOK'
    BY <1>6, <2>1, <2>2 DEF Cleanup, TypeOK
  <2>4. \A d \in Deliveries : pc[d] = "idle"
    BY <1>6 DEF Cleanup, Quiescent
  <2>5. RowInv'
    BY <1>6, <2>4 DEF Cleanup, CleanupDeliveries, TypeOK, Quiescent, SnapshotFresh, AttemptsLeft,
                      SuccessEarned, Succeeded
  <2> QED BY <2>3, <2>5
<1>7. CASE PreWarmLoad
  <2>1. todo' \in SUBSET Domains /\ errors' \in Nat /\ prewarm' \in {"load", "open"}
    BY <1>7 DEF PreWarmLoad, TypeOK
  <2>2. UNCHANGED <<rows, healthy, breaker, loop, ctxDone, restarts, pc, snap>>
    BY <1>7 DEF PreWarmLoad
  <2> QED BY <2>1, <2>2, RowsKept DEF TypeOK
<1>8. ASSUME NEW x \in Domains, PreWarmOpen(x) \/ CircuitTimeout(x) PROVE QueueInv'
  BY <1>8, RowsKept DEF PreWarmOpen, CircuitTimeout, TypeOK
<1>9. ASSUME NEW x \in Domains, CheckHealth(x) PROVE QueueInv'
  <2>1. healthy' \in [Domains -> BOOLEAN]
    BY <1>9 DEF CheckHealth, TypeOK
  <2>2. UNCHANGED <<rows, breaker, process, pc, snap, errors>>
    BY <1>9 DEF CheckHealth
  <2> QED BY <2>1, <2>2, RowsKept DEF TypeOK
<1>10. CASE Shutdown
  BY <1>10, RowsKept DEF Shutdown, TypeOK
<1>11. CASE Crash
  BY <1>11 DEF Crash, TypeOK, Steps, Quiescent, SnapshotFresh, AttemptsLeft, SuccessEarned, Succeeded
<1>12. CASE Restart
  <2>1. TypeOK'
    <3>1. /\ failures' \in [Domains -> Nat]
          /\ circuit' \in [Domains -> {"closed", "open", "expired"}]
          /\ restarts' \in Nat
      BY <1>12 DEF Restart, TypeOK
    <3>2. /\ loop' \in {"select", "batch", "drain", "down"} /\ ctxDone' \in BOOLEAN
          /\ prewarm' \in {"load", "open"} /\ todo' \in SUBSET Domains
      BY <1>12 DEF Restart
    <3>3. UNCHANGED <<rows, healthy, pc, snap, errors>>
      BY <1>12 DEF Restart
    <3> QED BY <3>1, <3>2, <3>3 DEF TypeOK
  <2>2. RowInv'
    BY <1>12 DEF Restart, Quiescent, SnapshotFresh, AttemptsLeft, SuccessEarned
  <2> QED BY <2>1, <2>2
<1>13. CASE UNCHANGED vars
  BY <1>13, RowsKept DEF vars, TypeOK
<1> QED BY <1>1, <1>2, <1>3, <1>4, <1>5, <1>6, <1>7, <1>8, <1>9, <1>10, <1>11, <1>12, <1>13
        DEF Next

(***************************************************************************)
(* For any instance: the attempts column never passes max_attempts, and    *)
(* every other value stays in its type.                                    *)
(***************************************************************************)
THEOREM TypeCorrect == Spec => []TypeOK
<1>1. QueueInv => TypeOK
  BY DEF QueueInv
<1> QED BY <1>1, QueueInvInit, QueueInvStep, PTL DEF Spec

(***************************************************************************)
(* For any instance: the attempts a goroutine was handed when its batch    *)
(* was fetched are the row's when it writes the outcome, across cleanup,   *)
(* errors, shutdown and restarts.                                          *)
(***************************************************************************)
THEOREM SnapshotIsFresh == Spec => []SnapshotFresh
<1>1. QueueInv => SnapshotFresh
  BY DEF QueueInv
<1> QED BY <1>1, QueueInvInit, QueueInvStep, PTL DEF Spec
-----------------------------------------------------------------------------
(***************************************************************************)
(* For any threshold and any interleaving of recordFailure, recordSuccess, *)
(* isOpen, PreWarmCircuit and restarts: a circuit whose failures have      *)
(* reached the threshold is not closed.                                    *)
(***************************************************************************)
THEOREM BreakerIsCoherent == Spec => []BreakerCoherent
<1> USE DeliveryAssumption DEF BreakerCoherent
<1>1. Init => BreakerCoherent
  BY DEF Init
<1>2. QueueInv /\ BreakerCoherent /\ [Next]_vars => BreakerCoherent'
  <2> SUFFICES ASSUME QueueInv, BreakerCoherent, [Next]_vars PROVE BreakerCoherent'
    OBVIOUS
  <2>0. /\ failures \in [Domains -> Nat]
        /\ circuit \in [Domains -> {"closed", "open", "expired"}]
    BY DEF QueueInv, TypeOK
  <2>1. ASSUME UNCHANGED breaker PROVE BreakerCoherent'
    BY <2>1 DEF breaker
  <2>2. ASSUME NEW d \in Deliveries, CheckCircuit(d) \/ CheckClose(d) PROVE BreakerCoherent'
    BY <2>0, <2>1, <2>2 DEF CheckCircuit, CheckClose, Expire
  <2>3. ASSUME NEW d \in Deliveries, RecordFailure(d) PROVE BreakerCoherent'
    BY <2>0, <2>1, <2>3 DEF RecordFailure, CountFailure, Opens
  <2>4. ASSUME NEW d \in Deliveries, RecordSuccess(d) PROVE BreakerCoherent'
    BY <2>0, <2>1, <2>4 DEF RecordSuccess, ClearIfOpen
  <2>5. ASSUME NEW d \in Deliveries,
               DeliverActivity(d) \/ PersistOpen(d) \/ MarkFailed(d) \/ PersistClose(d) \/ MarkDone(d)
        PROVE  BreakerCoherent'
    BY <2>1, <2>5 DEF DeliverActivity, PersistOpen, MarkFailed, PersistClose, MarkDone
  <2>6. ASSUME NEW d \in Deliveries, EnqueueDelivery(d) \/ BackoffOver(d) \/ GrowOld(d)
        PROVE  BreakerCoherent'
    BY <2>1, <2>6 DEF EnqueueDelivery, BackoffOver, GrowOld
  <2>7. ASSUME NEW x \in Domains, PreWarmOpen(x) \/ CircuitTimeout(x) PROVE BreakerCoherent'
    BY <2>0, <2>7 DEF PreWarmOpen, CircuitTimeout
  <2>8. ASSUME NEW x \in Domains, CheckHealth(x) PROVE BreakerCoherent'
    BY <2>1, <2>8 DEF CheckHealth
  <2>9. CASE ProcessBatch \/ DrainRemaining \/ BatchDone \/ Cleanup \/ PreWarmLoad \/ Shutdown \/ Crash
    BY <2>1, <2>9 DEF ProcessBatch, DrainRemaining, Fetch, BatchDone, Cleanup, PreWarmLoad, Shutdown, Crash
  <2>10. CASE Restart
    BY <2>10 DEF Restart
  <2>11. CASE UNCHANGED vars
    BY <2>1, <2>11 DEF vars
  <2> QED BY <2>2, <2>3, <2>4, <2>5, <2>6, <2>7, <2>8, <2>9, <2>10, <2>11 DEF Next, Deliver
<1> QED BY <1>1, <1>2, QueueInvInit, QueueInvStep, PTL DEF Spec
-----------------------------------------------------------------------------
(***************************************************************************)
(* For any instance: seen through its rows the queue is ReliableDelivery.  *)
(* MarkDone is Confirm, because a goroutine on the success path has the    *)
(* peer's OK; MarkFailed is FailAttempt, because the snapshot is fresh and *)
(* below max_attempts; Cleanup is Forget, because it takes settled rows    *)
(* only; everything else leaves the ledger alone.                          *)
(***************************************************************************)
THEOREM ImplementsReliableDelivery == Spec => LedgerSpec
<1>1. Init => Ledger!Init
  BY DEF Init, Ledger!Init
<1>2. QueueInv /\ [Next]_vars => [Ledger!Next]_(Ledger!ledger)
  <2> SUFFICES ASSUME QueueInv, [Next]_vars PROVE [Ledger!Next]_(Ledger!ledger)
    OBVIOUS
  <2> USE DEF Ledger!ledger, rows
  <2>1. ASSUME NEW d \in Deliveries, EnqueueDelivery(d) PROVE Ledger!Enqueue(d)
    BY <2>1 DEF EnqueueDelivery, Ledger!Enqueue
  <2>2. ASSUME NEW d \in Deliveries, DeliverActivity(d)
        PROVE  Ledger!PeerAccepts(d) \/ UNCHANGED Ledger!ledger
    BY <2>2 DEF DeliverActivity, QueueInv, SnapshotFresh, Ledger!PeerAccepts
  <2>3. ASSUME NEW d \in Deliveries, MarkFailed(d)
        PROVE  Ledger!FailAttempt(d) \/ UNCHANGED Ledger!ledger
    <3>1. status[d] = "pending" /\ snap[d] = attempts[d] /\ attempts[d] < MaxAttempts
          /\ attempts[d] \in 0..MaxAttempts
      BY <2>3 DEF MarkFailed, QueueInv, SnapshotFresh, AttemptsLeft, TypeOK
    <3>2. FailedStatus(d) = IF attempts[d] + 1 = MaxAttempts THEN "failed" ELSE "pending"
      BY <3>1, DeliveryAssumption DEF FailedStatus
    <3> QED BY <2>3, <3>1, <3>2 DEF MarkFailed, MarkDeliveryFailed, Ledger!FailAttempt
  <2>4. ASSUME NEW d \in Deliveries, MarkDone(d)
        PROVE  Ledger!Confirm(d) \/ UNCHANGED Ledger!ledger
    <3>1. status[d] = "pending" /\ attempts[d] < MaxAttempts /\ accepted[d]
      BY <2>4 DEF MarkDone, QueueInv, SnapshotFresh, AttemptsLeft, SuccessEarned, Succeeded
    <3> QED BY <2>4, <3>1 DEF MarkDone, MarkDelivered, Ledger!Confirm
  <2>5. ASSUME NEW d \in Deliveries,
               CheckCircuit(d) \/ RecordFailure(d) \/ PersistOpen(d)
               \/ CheckClose(d) \/ RecordSuccess(d) \/ PersistClose(d)
        PROVE  UNCHANGED Ledger!ledger
    BY <2>5 DEF CheckCircuit, RecordFailure, PersistOpen, CheckClose, RecordSuccess, PersistClose
  <2>6. ASSUME NEW d \in Deliveries, BackoffOver(d) \/ GrowOld(d) PROVE UNCHANGED Ledger!ledger
    BY <2>6 DEF BackoffOver, GrowOld
  <2>7. CASE Cleanup
    <3>1. CleanupDeliveries \in SUBSET Deliveries
      BY DEF CleanupDeliveries
    <3>2. Ledger!Forget(CleanupDeliveries)
      BY <2>7 DEF Cleanup, CleanupDeliveries, Ledger!Forget
    <3> QED BY <3>1, <3>2 DEF Ledger!Next
  <2>8. CASE ProcessBatch \/ DrainRemaining \/ BatchDone \/ PreWarmLoad \/ Shutdown \/ Crash \/ Restart
    BY <2>8 DEF ProcessBatch, DrainRemaining, Fetch, BatchDone, PreWarmLoad, Shutdown, Crash, Restart
  <2>9. ASSUME NEW x \in Domains, PreWarmOpen(x) \/ CheckHealth(x) \/ CircuitTimeout(x)
        PROVE  UNCHANGED Ledger!ledger
    BY <2>9 DEF PreWarmOpen, CheckHealth, CircuitTimeout
  <2>10. CASE UNCHANGED vars
    BY <2>10 DEF vars
  <2> QED BY <2>1, <2>2, <2>3, <2>4, <2>5, <2>6, <2>7, <2>8, <2>9, <2>10
          DEF Next, Deliver, Ledger!Next
<1> QED BY <1>1, <1>2, QueueInvInit, QueueInvStep, PTL DEF Spec, LedgerSpec, Ledger!Spec
=============================================================================
