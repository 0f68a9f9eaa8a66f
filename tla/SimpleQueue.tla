----------------------------- MODULE SimpleQueue -----------------------------
(***************************************************************************)
(* internal/queue/simple.go: a slice guarded by a mutex, with a condition  *)
(* variable for consumers blocked in PopCtx and one watcher goroutine per  *)
(* blocked PopCtx that broadcasts when the consumer's context ends.        *)
(*                                                                         *)
(* Every critical section of the mutex is one action.  cond.Wait splits a  *)
(* PopCtx in two: PopCtx runs up to the first Wait (or returns), Resume    *)
(* runs from a wakeup to the next Wait (or returns).                       *)
(***************************************************************************)
EXTENDS Naturals, Sequences, FiniteSets

CONSTANTS
  Tasks,      \* what is queued; every task is pushed at most once
  Consumers,  \* goroutines that call PopCtx, each with a context of its own
  MaxSize,    \* TryPush's maxSize
  NoTask      \* PopCtx's (zero, false)

ASSUME QueueAssumption ==
  /\ IsFiniteSet(Consumers)
  /\ MaxSize \in Nat \ {0}
  /\ NoTask \notin Tasks

VARIABLES
  items,      \* q.items
  pushed,     \* the tasks ever accepted by Push or TryPush
  pc,         \* where each consumer is: outside PopCtx ("idle"), parked in
              \*   cond.Wait ("waiting"), woken but without the lock
              \*   ("woken"), or back with a result ("returned")
  ret,        \* what PopCtx returned last
  watcher,    \* the watcher goroutines a consumer's calls left running:
              \*   "armed" for the call in progress, "done" for one that ended
  cancelled   \* consumers whose context is done

queueVars == <<items, pushed, pc, ret, watcher, cancelled>>

Parked == {c \in Consumers : pc[c] = "waiting"}
Woken  == {c \in Consumers : pc[c] = "woken"}

QueueTypeOK ==
  /\ items \in Seq(Tasks)
  /\ pushed \in SUBSET Tasks
  /\ pc \in [Consumers -> {"idle", "waiting", "woken", "returned"}]
  /\ ret \in [Consumers -> Tasks \union {NoTask}]
  /\ watcher \in [Consumers -> SUBSET {"armed", "done"}]
  /\ cancelled \in SUBSET Consumers

QueueInit ==
  /\ items = <<>>
  /\ pushed = {}
  /\ pc = [c \in Consumers |-> "idle"]
  /\ ret = [c \in Consumers |-> NoTask]
  /\ watcher = [c \in Consumers |-> {}]
  /\ cancelled = {}
-----------------------------------------------------------------------------
(***************************************************************************)
(* cond.Signal wakes one parked consumer if there is one.                  *)
(***************************************************************************)
Signal ==
  \/ Parked = {} /\ pc' = pc
  \/ \E c \in Parked : pc' = [pc EXCEPT ![c] = "woken"]

\* Mutant: a broadcast that wakes nobody.
BroadcastLost == pc' = pc

\* cond.Broadcast wakes every parked consumer.
Broadcast ==
  pc' = [c \in Consumers |-> IF c \in Parked THEN "woken" ELSE pc[c]]

\* Mutant: only the push onto an empty queue signals.
PushItemSignalsIfEmpty(t) ==
  /\ t \notin pushed
  /\ items' = Append(items, t)
  /\ pushed' = pushed \union {t}
  /\ IF items = <<>> THEN Signal ELSE UNCHANGED pc
  /\ UNCHANGED <<ret, watcher, cancelled>>

\* Mutant: no Signal at all.
PushItemSilent(t) ==
  /\ t \notin pushed
  /\ items' = Append(items, t)
  /\ pushed' = pushed \union {t}
  /\ UNCHANGED <<pc, ret, watcher, cancelled>>

\* The append and the Signal of one critical section.
PushItem(t) ==
  /\ t \notin pushed
  /\ items' = Append(items, t)
  /\ pushed' = pushed \union {t}
  /\ Signal
  /\ UNCHANGED <<ret, watcher, cancelled>>

Push(t) == PushItem(t)

\* Mutant: the size check is off by one.
TryPushOffByOne(t) == Len(items) <= MaxSize /\ PushItem(t)

\* A refused TryPush changes nothing.
TryPush(t) == Len(items) < MaxSize /\ PushItem(t)

\* Pop, for a caller that never blocks (drain).
Pop ==
  /\ items # <<>>
  /\ items' = Tail(items)
  /\ UNCHANGED <<pushed, pc, ret, watcher, cancelled>>

Drain ==
  /\ items' = <<>>
  /\ UNCHANGED <<pushed, pc, ret, watcher, cancelled>>
-----------------------------------------------------------------------------
\* The call in progress closes its done channel when it returns.
CloseDone(c) ==
  watcher' = [watcher EXCEPT ![c] = IF "armed" \in @ THEN {"done"} ELSE @]

ReturnItem(c) ==
  /\ items # <<>>
  /\ items' = Tail(items)
  /\ ret' = [ret EXCEPT ![c] = Head(items)]
  /\ pc' = [pc EXCEPT ![c] = "returned"]

\* Mutant: a cancelled consumer takes an item and returns nothing.
ReturnNothingDropsItem(c) ==
  /\ ret' = [ret EXCEPT ![c] = NoTask]
  /\ pc' = [pc EXCEPT ![c] = "returned"]
  /\ items' = IF items = <<>> THEN items ELSE Tail(items)

ReturnNothing(c) ==
  /\ ret' = [ret EXCEPT ![c] = NoTask]
  /\ pc' = [pc EXCEPT ![c] = "returned"]
  /\ UNCHANGED items

(***************************************************************************)
(* PopCtx up to its first Wait.  The fast path takes an item without       *)
(* looking at the context; only an empty queue starts the watcher.         *)
(***************************************************************************)
PopCtx(c) ==
  /\ pc[c] \in {"idle", "returned"}
  /\ \/ /\ ReturnItem(c)
        /\ UNCHANGED watcher
     \/ /\ items = <<>> /\ c \in cancelled
        /\ ReturnNothing(c)
        /\ watcher' = [watcher EXCEPT ![c] = @ \union {"done"}]
     \/ /\ items = <<>> /\ c \notin cancelled
        /\ pc' = [pc EXCEPT ![c] = "waiting"]
        /\ watcher' = [watcher EXCEPT ![c] = @ \union {"armed"}]
        /\ UNCHANGED <<items, ret>>
  /\ UNCHANGED <<pushed, cancelled>>

(***************************************************************************)
(* A woken consumer reacquires the lock: an ended context returns nothing  *)
(* even when there is an item, an empty queue parks it again.              *)
(***************************************************************************)
Resume(c) ==
  /\ pc[c] = "woken"
  /\ \/ c \in cancelled /\ ReturnNothing(c) /\ CloseDone(c)
     \/ c \notin cancelled /\ ReturnItem(c) /\ CloseDone(c)
     \/ /\ c \notin cancelled /\ items = <<>>
        /\ pc' = [pc EXCEPT ![c] = "waiting"]
        /\ UNCHANGED <<items, ret, watcher>>
  /\ UNCHANGED <<pushed, cancelled>>

\* The context of c ends.
Cancel(c) ==
  /\ c \notin cancelled
  /\ cancelled' = cancelled \union {c}
  /\ UNCHANGED <<items, pushed, pc, ret, watcher>>

(***************************************************************************)
(* A watcher's select: with the context over it may broadcast, with its    *)
(* call over it may just exit; when both are ready Go picks either.        *)
(***************************************************************************)
WatcherBroadcast(c) ==
  /\ c \in cancelled
  /\ \E w \in watcher[c] : watcher' = [watcher EXCEPT ![c] = @ \ {w}]
  /\ Broadcast
  /\ UNCHANGED <<items, pushed, ret, cancelled>>

WatcherExit(c) ==
  /\ "done" \in watcher[c]
  /\ watcher' = [watcher EXCEPT ![c] = @ \ {"done"}]
  /\ UNCHANGED <<items, pushed, pc, ret, cancelled>>
-----------------------------------------------------------------------------
QueueNext ==
  \/ \E t \in Tasks : Push(t) \/ TryPush(t)
  \/ Pop
  \/ Drain
  \/ \E c \in Consumers :
       PopCtx(c) \/ Resume(c) \/ Cancel(c) \/ WatcherBroadcast(c) \/ WatcherExit(c)

\* The Go scheduler runs every runnable goroutine: a woken consumer, a watcher
\* whose select is ready.  Nobody is obliged to push, to pop or to cancel.
QueueFairness ==
  \A c \in Consumers :
    WF_queueVars(Resume(c)) /\ WF_queueVars(WatcherBroadcast(c) \/ WatcherExit(c))

QueueSpec == QueueInit /\ [][QueueNext]_queueVars /\ QueueFairness
-----------------------------------------------------------------------------
(***************************************************************************)
(* No lost wakeup.  While no context has ended, a consumer stays parked    *)
(* only if the consumers already woken suffice for everything queued: the  *)
(* Signal under the lock, the re-check in the loop and the fast path that  *)
(* steals an item never leave an item behind with everybody asleep.        *)
(***************************************************************************)
NoLostWakeup ==
  cancelled = {} /\ Parked # {} => Cardinality(Woken) >= Len(items)
=============================================================================
