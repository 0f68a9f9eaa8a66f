-------------------------- MODULE InboxWorker_proofs --------------------------
(***************************************************************************)
(* Proofs about the worker pool and the queue it is built on, for any      *)
(* number of workers and tasks and any queue size: no wakeup is lost, in   *)
(* the queue alone and in the pool; the pool keeps its types and its       *)
(* bound, neither loses nor duplicates a task, and a graceful Stop leaves  *)
(* nothing behind.                                                         *)
(*                                                                         *)
(* NoLostWakeup is inductive by itself given the types: every step that    *)
(* lengthens the queue wakes a parked consumer, every step that puts a     *)
(* woken consumer to rest takes an item with it or finds the queue empty.  *)
(***************************************************************************)
EXTENDS InboxWorker, FiniteSetTheorems, TLAPS

(***************************************************************************)
(* The queue's values stay in their types.                                 *)
(***************************************************************************)
LEMMA QueueTypeStep == QueueTypeOK /\ [QueueNext]_queueVars => QueueTypeOK'
<1> SUFFICES ASSUME QueueTypeOK, [QueueNext]_queueVars PROVE QueueTypeOK'
  OBVIOUS
<1> USE QueueAssumption DEF QueueTypeOK
<1>1. ASSUME NEW t \in Tasks, PushItem(t) PROVE QueueTypeOK'
  <2>1. pc' \in [Consumers -> {"idle", "waiting", "woken", "returned"}]
    BY <1>1 DEF PushItem, Signal, Parked
  <2> QED BY <1>1, <2>1 DEF PushItem
<1>2. CASE Pop \/ Drain
  <2>1. items' \in Seq(Tasks)
    <3>1. CASE Pop
      BY <3>1 DEF Pop
    <3>2. CASE Drain
      <4>1. items' = <<>>
        BY <3>2 DEF Drain
      <4> QED BY <4>1
    <3> QED BY <1>2, <3>1, <3>2
  <2> QED BY <1>2, <2>1 DEF Pop, Drain
<1>3. ASSUME NEW c \in Consumers, PopCtx(c) PROVE QueueTypeOK'
  <2>1. CASE ReturnItem(c) /\ UNCHANGED <<watcher, pushed, cancelled>>
    <3>1. items' \in Seq(Tasks) /\ Head(items) \in Tasks
      BY <2>1 DEF ReturnItem
    <3> QED BY <2>1, <3>1 DEF ReturnItem
  <2>2. CASE ReturnNothing(c) /\ UNCHANGED <<pushed, cancelled>>
             /\ watcher' = [watcher EXCEPT ![c] = @ \union {"done"}]
    BY <2>2 DEF ReturnNothing
  <2>3. CASE /\ pc' = [pc EXCEPT ![c] = "waiting"]
             /\ watcher' = [watcher EXCEPT ![c] = @ \union {"armed"}]
             /\ UNCHANGED <<items, ret, pushed, cancelled>>
    BY <2>3
  <2> QED BY <1>3, <2>1, <2>2, <2>3 DEF PopCtx
<1>4. ASSUME NEW c \in Consumers, Resume(c) PROVE QueueTypeOK'
  <2>1. watcher' \in [Consumers -> SUBSET {"armed", "done"}]
    BY <1>4 DEF Resume, CloseDone
  <2>2. CASE ReturnItem(c)
    <3>1. items' \in Seq(Tasks) /\ Head(items) \in Tasks
      BY <2>2 DEF ReturnItem
    <3> QED BY <1>4, <2>1, <2>2, <3>1 DEF ReturnItem, Resume
  <2>3. CASE ~ReturnItem(c)
    BY <1>4, <2>1, <2>3 DEF Resume, ReturnNothing
  <2> QED BY <2>2, <2>3
<1>5. ASSUME NEW c \in Consumers, Cancel(c) PROVE QueueTypeOK'
  BY <1>5 DEF Cancel
<1>6. ASSUME NEW c \in Consumers, WatcherBroadcast(c) PROVE QueueTypeOK'
  <2>1. pc' \in [Consumers -> {"idle", "waiting", "woken", "returned"}]
    BY <1>6 DEF WatcherBroadcast, Broadcast
  <2> QED BY <1>6, <2>1 DEF WatcherBroadcast
<1>7. ASSUME NEW c \in Consumers, WatcherExit(c) PROVE QueueTypeOK'
  BY <1>7 DEF WatcherExit
<1>8. CASE UNCHANGED queueVars
  BY <1>8 DEF queueVars
<1> QED BY <1>1, <1>2, <1>3, <1>4, <1>5, <1>6, <1>7, <1>8 DEF QueueNext, Push, TryPush

(***************************************************************************)
(* The woken consumers can be counted, and one more or one fewer of them   *)
(* counts for one.                                                         *)
(***************************************************************************)
LEMMA WokenCount ==
  /\ IsFiniteSet(Woken) /\ Cardinality(Woken) \in Nat
  /\ \A c \in Consumers \ Woken :
       Woken' = Woken \union {c} => Cardinality(Woken') = Cardinality(Woken) + 1
  /\ \A c \in Woken :
       Woken' = Woken \ {c} => Cardinality(Woken') = Cardinality(Woken) - 1
<1>1. IsFiniteSet(Woken)
  BY QueueAssumption, FS_Subset DEF Woken
<1>2. Cardinality(Woken) \in Nat
  BY <1>1, FS_CardinalityType
<1>3. ASSUME NEW c \in Consumers \ Woken
      PROVE  Cardinality(Woken \union {c}) = Cardinality(Woken) + 1
  BY <1>1, FS_AddElement
<1>4. ASSUME NEW c \in Woken
      PROVE  Cardinality(Woken \ {c}) = Cardinality(Woken) - 1
  BY <1>1, FS_RemoveElement
<1> QED BY <1>1, <1>2, <1>3, <1>4

(***************************************************************************)
(* NoLostWakeup is kept by every step of the queue.                        *)
(***************************************************************************)
LEMMA WakeupStep ==
  QueueTypeOK /\ NoLostWakeup /\ [QueueNext]_queueVars => NoLostWakeup'
<1> SUFFICES ASSUME QueueTypeOK, NoLostWakeup, [QueueNext]_queueVars,
                    cancelled' = {}, Parked' # {}
             PROVE  Cardinality(Woken') >= Len(items')
  BY DEF NoLostWakeup
<1> USE DEF QueueTypeOK
<1>0. Len(items) \in Nat /\ Cardinality(Woken) \in Nat
  BY WokenCount
<1>1. ASSUME NEW t \in Tasks, PushItem(t) PROVE Cardinality(Woken') >= Len(items')
  <2>1. cancelled = {} /\ Len(items') = Len(items) + 1
    BY <1>1 DEF PushItem
  <2>2. Parked # {}
    BY <1>1 DEF PushItem, Signal, Parked
  <2>3. PICK c \in Parked : pc' = [pc EXCEPT ![c] = "woken"]
    BY <1>1, <2>2 DEF PushItem, Signal
  <2>4. c \in Consumers \ Woken /\ Woken' = Woken \union {c}
    BY <2>3 DEF Parked, Woken
  <2>5. Cardinality(Woken') = Cardinality(Woken) + 1
    BY <2>4, WokenCount
  <2>6. Cardinality(Woken) >= Len(items)
    BY <2>1, <2>2 DEF NoLostWakeup
  <2> QED BY <1>0, <2>1, <2>5, <2>6
<1>2. CASE Pop \/ Drain
  <2>1. cancelled = {} /\ Parked # {} /\ Woken' = Woken
    BY <1>2 DEF Pop, Drain, Parked, Woken
  <2>2. Len(items') \in Nat /\ Len(items') <= Len(items)
    <3>1. CASE Pop
      BY <3>1 DEF Pop
    <3>2. CASE Drain
      <4>1. items' = <<>>
        BY <3>2 DEF Drain
      <4> QED BY <4>1, <1>0
    <3> QED BY <1>2, <3>1, <3>2
  <2> QED BY <1>0, <2>1, <2>2 DEF NoLostWakeup
<1>3. ASSUME NEW c \in Consumers, PopCtx(c) PROVE Cardinality(Woken') >= Len(items')
  <2>1. cancelled = {} /\ Woken' = Woken
    BY <1>3 DEF PopCtx, ReturnItem, ReturnNothing, Woken
  <2>2. CASE ReturnItem(c)
    <3>1. Parked # {} /\ Len(items') <= Len(items)
      BY <2>2 DEF ReturnItem, Parked
    <3>2. Len(items') \in Nat
      BY <2>2 DEF ReturnItem
    <3> QED BY <1>0, <2>1, <3>1, <3>2 DEF NoLostWakeup
  <2>3. CASE ~ReturnItem(c)
    <3>1. Len(items') = 0
      BY <1>3, <2>3 DEF PopCtx, ReturnNothing
    <3> QED BY <1>0, <2>1, <3>1
  <2> QED BY <2>2, <2>3
<1>4. ASSUME NEW c \in Consumers, Resume(c) PROVE Cardinality(Woken') >= Len(items')
  <2>1. cancelled = {} /\ c \in Woken /\ Woken' = Woken \ {c}
    BY <1>4 DEF Resume, ReturnItem, ReturnNothing, Woken
  <2>2. Cardinality(Woken') = Cardinality(Woken) - 1
    BY <2>1, WokenCount
  <2>3. CASE ReturnItem(c)
    <3>1. Parked # {} /\ Len(items') = Len(items) - 1
      BY <2>3 DEF ReturnItem, Parked
    <3> QED BY <1>0, <2>1, <2>2, <3>1 DEF NoLostWakeup
  <2>4. CASE ~ReturnItem(c)
    <3>1. Len(items') = 0
      BY <1>4, <2>1, <2>4 DEF Resume
    <3>2. Cardinality(Woken') \in Nat
      <4>1. IsFiniteSet(Woken')
        BY <2>1, WokenCount, FS_Subset
      <4> QED BY <4>1, FS_CardinalityType
    <3> QED BY <3>1, <3>2
  <2> QED BY <2>3, <2>4
<1>5. ASSUME NEW c \in Consumers, Cancel(c) PROVE FALSE
  BY <1>5 DEF Cancel
<1>6. ASSUME NEW c \in Consumers, WatcherBroadcast(c) PROVE FALSE
  BY <1>6 DEF WatcherBroadcast
<1>7. ASSUME NEW c \in Consumers, WatcherExit(c)
      PROVE  Cardinality(Woken') >= Len(items')
  BY <1>7 DEF WatcherExit, Woken, Parked, NoLostWakeup
<1>8. CASE UNCHANGED queueVars
  BY <1>8 DEF queueVars, Woken, Parked, NoLostWakeup
<1> QED BY <1>1, <1>2, <1>3, <1>4, <1>5, <1>6, <1>7, <1>8 DEF QueueNext, Push, TryPush

(***************************************************************************)
(* For any number of consumers and tasks, while no context has ended the   *)
(* queue never leaves a consumer parked behind an item that nobody was     *)
(* woken for.                                                              *)
(***************************************************************************)
THEOREM NoWakeupIsLost == QueueSpec => []NoLostWakeup
<1>1. QueueInit => QueueTypeOK /\ NoLostWakeup
  <2> SUFFICES ASSUME QueueInit PROVE QueueTypeOK /\ NoLostWakeup
    OBVIOUS
  <2>1. items = <<>> /\ items \in Seq(Tasks)
    BY DEF QueueInit
  <2>2. Parked = {}
    BY DEF QueueInit, Parked
  <2> QED BY <2>1, <2>2 DEF QueueInit, QueueTypeOK, NoLostWakeup
<1>2. QueueTypeOK /\ NoLostWakeup /\ [QueueNext]_queueVars => (QueueTypeOK /\ NoLostWakeup)'
  BY QueueTypeStep, WakeupStep
<1> QED BY <1>1, <1>2, PTL DEF QueueSpec
-----------------------------------------------------------------------------
Elems(s)    == {s[i] : i \in DOMAIN s}
Distinct(s) == \A i, j \in DOMAIN s : s[i] = s[j] => i = j

(***************************************************************************)
(* Append, the push of Push and TryPush: one element more, distinct if it  *)
(* is new.                                                                 *)
(***************************************************************************)
LEMMA AppendElems ==
  ASSUME NEW S, NEW s \in Seq(S), NEW t \in S
  PROVE  /\ Append(s, t) \in Seq(S)
         /\ Len(Append(s, t)) = Len(s) + 1
         /\ Elems(Append(s, t)) = Elems(s) \union {t}
         /\ Distinct(s) /\ t \notin Elems(s) => Distinct(Append(s, t))
<1> DEFINE u == Append(s, t)
<1>1. u \in Seq(S) /\ Len(u) = Len(s) + 1
  OBVIOUS
<1>2. DOMAIN s = 1..Len(s) /\ DOMAIN u = 1..(Len(s) + 1) /\ Len(s) \in Nat
  BY <1>1
<1>3. \A i \in 1..Len(s) : u[i] = s[i]
  OBVIOUS
<1>4. u[Len(s) + 1] = t
  OBVIOUS
<1> HIDE DEF u
<1>5. Elems(u) = Elems(s) \union {t}
  <2>1. ASSUME NEW i \in DOMAIN u PROVE u[i] \in Elems(s) \union {t}
    <3>1. CASE i \in 1..Len(s)
      BY <3>1, <1>2, <1>3 DEF Elems
    <3>2. CASE i = Len(s) + 1
      BY <3>2, <1>4
    <3> QED BY <2>1, <3>1, <3>2, <1>2
  <2>2. ASSUME NEW i \in DOMAIN s PROVE s[i] \in Elems(u)
    <3>1. i \in DOMAIN u /\ u[i] = s[i]
      BY <1>2, <1>3
    <3> QED BY <3>1 DEF Elems
  <2>3. t \in Elems(u)
    <3>1. Len(s) + 1 \in DOMAIN u
      BY <1>2
    <3> QED BY <3>1, <1>4 DEF Elems
  <2> QED BY <2>1, <2>2, <2>3 DEF Elems
<1>6. ASSUME Distinct(s), t \notin Elems(s) PROVE Distinct(u)
  <2>1. \A i \in 1..Len(s) : s[i] # t
    BY <1>6, <1>2 DEF Elems
  <2> QED BY <2>1, <1>6, <1>2, <1>3, <1>4 DEF Distinct
<1> QED BY <1>1, <1>5, <1>6 DEF u

(***************************************************************************)
(* Tail, the pop of Pop and PopCtx: the head leaves, and nothing else.     *)
(***************************************************************************)
LEMMA TailElems ==
  ASSUME NEW S, NEW s \in Seq(S), s # <<>>
  PROVE  /\ Tail(s) \in Seq(S)
         /\ Len(Tail(s)) = Len(s) - 1
         /\ Head(s) \in S
         /\ Elems(s) = Elems(Tail(s)) \union {Head(s)}
         /\ Distinct(s) => Distinct(Tail(s)) /\ Head(s) \notin Elems(Tail(s))
<1> DEFINE u == Tail(s)
<1>1. u \in Seq(S) /\ Len(u) = Len(s) - 1 /\ Len(s) \in Nat /\ Len(s) >= 1
  OBVIOUS
<1>2. DOMAIN s = 1..Len(s) /\ DOMAIN u = 1..(Len(s) - 1)
  BY <1>1
<1>3. \A i \in 1..(Len(s) - 1) : u[i] = s[i + 1]
  BY <1>1
<1>4. Head(s) = s[1] /\ s[1] \in S
  BY <1>1
<1> HIDE DEF u
<1>5. Elems(s) = Elems(u) \union {Head(s)}
  <2>1. ASSUME NEW i \in DOMAIN s PROVE s[i] \in Elems(u) \union {Head(s)}
    <3>1. CASE i = 1
      BY <3>1, <1>4
    <3>2. CASE i # 1
      <4>1. i - 1 \in DOMAIN u /\ (i - 1) + 1 = i
        BY <3>2, <1>1, <1>2
      <4>2. u[i - 1] = s[i]
        BY <4>1, <1>2, <1>3
      <4> QED BY <4>1, <4>2 DEF Elems
    <3> QED BY <3>1, <3>2
  <2>2. ASSUME NEW i \in DOMAIN u PROVE u[i] \in Elems(s)
    <3>1. i + 1 \in DOMAIN s /\ u[i] = s[i + 1]
      BY <1>1, <1>2, <1>3
    <3> QED BY <3>1 DEF Elems
  <2>3. Head(s) \in Elems(s)
    <3>1. 1 \in DOMAIN s
      BY <1>1, <1>2
    <3> QED BY <3>1, <1>4 DEF Elems
  <2> QED BY <2>1, <2>2, <2>3 DEF Elems
<1>6. ASSUME Distinct(s) PROVE Distinct(u) /\ Head(s) \notin Elems(u)
  <2>1. ASSUME NEW i \in DOMAIN u, NEW j \in DOMAIN u, u[i] = u[j] PROVE i = j
    <3>1. i + 1 \in DOMAIN s /\ j + 1 \in DOMAIN s /\ s[i + 1] = s[j + 1]
      BY <2>1, <1>1, <1>2, <1>3
    <3>2. i + 1 = j + 1
      BY <3>1, <1>6 DEF Distinct
    <3> QED BY <3>2, <1>1, <1>2
  <2>2. ASSUME NEW i \in DOMAIN u PROVE u[i] # Head(s)
    <3>1. i + 1 \in DOMAIN s /\ u[i] = s[i + 1] /\ 1 \in DOMAIN s /\ i + 1 # 1
      BY <1>1, <1>2, <1>3
    <3> QED BY <3>1, <1>4, <1>6 DEF Distinct
  <2> QED BY <2>1, <2>2 DEF Distinct, Elems
<1> QED BY <1>1, <1>4, <1>5, <1>6 DEF u
-----------------------------------------------------------------------------
(***************************************************************************)
(* Where a worker can be: only a worker inside "pop" has a PopCtx in       *)
(* progress or an unread result, and one in "process" has a task.          *)
(***************************************************************************)
Places ==
  \A w \in Consumers :
    /\ pc[w] # "idle" => run[w] = "pop"
    /\ run[w] = "process" => ret[w] # NoTask

TypeInv == TypeOK /\ Places

(***************************************************************************)
(* Types and places are kept by every step of the pool, of the watchers,   *)
(* of the HTTP handlers and of the shutdown.                               *)
(***************************************************************************)
LEMMA TypeInvStep == TypeInv /\ [Next]_vars => TypeInv'
<1> SUFFICES ASSUME TypeInv, [Next]_vars PROVE TypeInv'
  OBVIOUS
<1> USE QueueAssumption DEF TypeInv, Places, TypeOK, QueueTypeOK, queueVars, workerVars
<1>1. ASSUME NEW t \in Tasks, Enqueue(t) PROVE TypeInv'
  <2>1. items' \in Seq(Tasks) /\ Len(items') <= MaxSize
    BY <1>1, AppendElems DEF Enqueue, TryPush, PushItem
  <2>2. /\ pc' \in [Consumers -> {"idle", "waiting", "woken", "returned"}]
        /\ \A w \in Consumers : pc'[w] # "idle" => pc[w] # "idle"
    BY <1>1 DEF Enqueue, TryPush, PushItem, Signal, Parked
  <2> QED BY <1>1, <2>1, <2>2 DEF Enqueue, TryPush, PushItem
<1>2. ASSUME NEW w \in Consumers, LoopTop(w) PROVE TypeInv'
  BY <1>2 DEF LoopTop
<1>3. ASSUME NEW w \in Consumers, CallPopCtx(w) PROVE TypeInv'
  <2>1. CASE ReturnItem(w) /\ UNCHANGED <<watcher, pushed, cancelled, workerVars>>
    BY <1>3, <2>1, TailElems DEF ReturnItem, CallPopCtx
  <2>2. CASE ReturnNothing(w) /\ UNCHANGED <<pushed, cancelled, workerVars>>
             /\ watcher' = [watcher EXCEPT ![w] = @ \union {"done"}]
    BY <1>3, <2>2 DEF ReturnNothing, CallPopCtx
  <2>3. CASE /\ pc' = [pc EXCEPT ![w] = "waiting"]
             /\ watcher' = [watcher EXCEPT ![w] = @ \union {"armed"}]
             /\ UNCHANGED <<items, ret, pushed, cancelled, workerVars>>
    BY <1>3, <2>3 DEF CallPopCtx
  <2> QED BY <1>3, <2>1, <2>2, <2>3 DEF CallPopCtx, PopCtx
<1>4. ASSUME NEW w \in Consumers, ResumePopCtx(w) PROVE TypeInv'
  <2>1. watcher' \in [Consumers -> SUBSET {"armed", "done"}]
    BY <1>4 DEF ResumePopCtx, Resume, CloseDone
  <2>2. items' \in Seq(Tasks) /\ Len(items') <= MaxSize
        /\ ret' \in [Consumers -> Tasks \union {NoTask}]
    <3>1. CASE ReturnItem(w)
      BY <3>1, TailElems DEF ReturnItem
    <3>2. CASE UNCHANGED items /\ ~ReturnItem(w)
      BY <1>4, <3>2 DEF ResumePopCtx, Resume, ReturnNothing
    <3> QED BY <1>4, <3>1, <3>2 DEF ResumePopCtx, Resume, ReturnNothing
  <2>3. pc' \in [Consumers -> {"idle", "waiting", "woken", "returned"}]
    BY <1>4 DEF ResumePopCtx, Resume, ReturnItem, ReturnNothing
  <2>4. Places'
    BY <1>4 DEF ResumePopCtx, Resume, ReturnItem, ReturnNothing
  <2> QED BY <1>4, <2>1, <2>2, <2>3, <2>4 DEF ResumePopCtx, Resume
<1>5. ASSUME NEW w \in Consumers, PopReturned(w) PROVE TypeInv'
  BY <1>5 DEF PopReturned
<1>6. ASSUME NEW w \in Consumers, Process(w) PROVE TypeInv'
  BY <1>6 DEF Process
<1>7. ASSUME NEW w \in Consumers, Watcher(w) PROVE TypeInv'
  <2>1. /\ pc' \in [Consumers -> {"idle", "waiting", "woken", "returned"}]
        /\ \A v \in Consumers : pc'[v] # "idle" => pc[v] # "idle"
    BY <1>7 DEF Watcher, WatcherBroadcast, WatcherExit, Broadcast, Parked
  <2>2. watcher' \in [Consumers -> SUBSET {"armed", "done"}]
    BY <1>7 DEF Watcher, WatcherBroadcast, WatcherExit
  <2> QED BY <1>7, <2>1, <2>2 DEF Watcher, WatcherBroadcast, WatcherExit
<1>8. ASSUME NEW w \in Consumers, StopService(w) PROVE TypeInv'
  BY <1>8 DEF StopService, Cancel
<1>9. CASE ParentCancel \/ HttpShutdown
  BY <1>9 DEF ParentCancel, HttpShutdown
<1>10. CASE StopBegin \/ StopWait \/ DrainProcess \/ DrainEnd
  BY <1>10 DEF StopBegin, StopWait, DrainProcess, DrainEnd
<1>11. CASE DrainPop
  BY <1>11, TailElems DEF DrainPop, Pop
<1>12. CASE UNCHANGED vars
  BY <1>12 DEF vars
<1> QED BY <1>1, <1>2, <1>3, <1>4, <1>5, <1>6, <1>7, <1>8, <1>9, <1>10, <1>11, <1>12
        DEF Next, Worker, Stop

(***************************************************************************)
(* The pool starts typed, with every worker at the top of its loop.        *)
(***************************************************************************)
LEMMA TypeInvInit == Init => TypeInv
<1> SUFFICES ASSUME Init PROVE TypeInv
  OBVIOUS
<1>1. items \in Seq(Tasks) /\ Len(items) <= MaxSize
  <2>1. items = <<>> /\ MaxSize \in Nat
    BY QueueAssumption DEF Init, QueueInit
  <2> QED BY <2>1
<1> QED BY <1>1 DEF Init, QueueInit, TypeInv, Places, TypeOK, QueueTypeOK

(***************************************************************************)
(* Every value stays in its type, and TryPush keeps the queue within       *)
(* MaxSize whatever the consumers do.                                      *)
(***************************************************************************)
THEOREM TypeCorrect == Spec => []TypeOK
<1>1. TypeInv => TypeOK
  BY DEF TypeInv
<1> QED BY <1>1, TypeInvInit, TypeInvStep, PTL DEF Spec

(***************************************************************************)
(* The pool uses its queue as intended: a step of a worker, a watcher, a   *)
(* handler or Stop is a step of the queue, or hands a result over and      *)
(* parks and wakes nobody.  So no wakeup is lost in the pool either, with  *)
(* workers that come and go between PopCtx and dispatch.                   *)
(***************************************************************************)
THEOREM PoolLosesNoWakeup == Spec => []NoLostWakeup
<1>1. TypeInv /\ NoLostWakeup /\ [Next]_vars => NoLostWakeup'
  <2> SUFFICES ASSUME TypeInv, NoLostWakeup, [Next]_vars PROVE NoLostWakeup'
    OBVIOUS
  <2>0. QueueTypeOK
    BY DEF TypeInv, TypeOK
  <2>1. CASE [QueueNext]_queueVars
    BY <2>0, <2>1, WakeupStep
  <2>2. ASSUME NEW w \in Consumers, PopReturned(w) PROVE NoLostWakeup'
    <3>1. Parked' = Parked /\ Woken' = Woken /\ items' = items /\ cancelled' = cancelled
      BY <2>0, <2>2 DEF PopReturned, Parked, Woken, QueueTypeOK
    <3> QED BY <3>1 DEF NoLostWakeup
  <2>3. ASSUME NEW w \in Consumers, Worker(w), ~PopReturned(w) PROVE [QueueNext]_queueVars
    BY <2>3 DEF Worker, LoopTop, CallPopCtx, ResumePopCtx, Process, QueueNext
  <2>4. ASSUME NEW w \in Consumers, Watcher(w) \/ StopService(w) PROVE [QueueNext]_queueVars
    BY <2>4 DEF Watcher, StopService, QueueNext
  <2>5. ASSUME NEW t \in Tasks, Enqueue(t) PROVE [QueueNext]_queueVars
    BY <2>5 DEF Enqueue, QueueNext
  <2>6. CASE ParentCancel \/ HttpShutdown \/ Stop
    BY <2>1, <2>6 DEF ParentCancel, HttpShutdown, Stop, StopBegin, StopWait, DrainPop, DrainProcess,
                DrainEnd, QueueNext
  <2>7. CASE UNCHANGED vars
    BY <2>1, <2>7 DEF vars
  <2> QED BY <2>1, <2>2, <2>3, <2>4, <2>5, <2>6, <2>7 DEF Next
<1>2. Init => NoLostWakeup
  BY DEF Init, QueueInit, NoLostWakeup, Parked
<1> QED BY <1>1, <1>2, TypeInvInit, TypeInvStep, PTL DEF Spec
-----------------------------------------------------------------------------
\* No two workers hold the same task.
OneHolder == \A v, w \in Consumers : Holds(v) /\ Holds(w) /\ ret[v] = ret[w] => v = w

Conserved ==
  /\ pushed = Elems(items) \union InHand \union Held \union handled
  /\ Elems(items) \intersect (InHand \union Held \union handled) = {}
  /\ InHand \intersect (Held \union handled) = {}
  /\ Held \intersect handled = {}
  /\ Distinct(items)
  /\ OneHolder

(***************************************************************************)
(* TaskConservation in the form the steps below use.                       *)
(***************************************************************************)
LEMMA ConservationParts ==
  (TaskConservation <=> Conserved) /\ (TaskConservation' <=> Conserved')
  BY DEF TaskConservation, Conserved, Queued, Elems, Distinct, OneHolder

\* A step that leaves every worker with what it has in hand.
HandsKept ==
  \A w \in Consumers : (Holds(w)' <=> Holds(w)) /\ (Holds(w) => ret'[w] = ret[w])

(***************************************************************************)
(* Then the set of tasks in hand and its one-holder property are kept.     *)
(***************************************************************************)
LEMMA HandsKeptSame == HandsKept /\ OneHolder => InHand' = InHand /\ OneHolder'
<1> SUFFICES ASSUME HandsKept, OneHolder PROVE InHand' = InHand /\ OneHolder'
  OBVIOUS
<1>1. InHand' = InHand
  BY DEF HandsKept, InHand
<1>2. OneHolder'
  BY DEF HandsKept, OneHolder
<1> QED BY <1>1, <1>2

(***************************************************************************)
(* A worker that gets the head of the queue from PopCtx: the task moves    *)
(* from the queue into its hands.                                          *)
(***************************************************************************)
LEMMA TakeHead ==
  ASSUME NEW w \in Consumers, TypeInv, Conserved, items # <<>>,
         items' = Tail(items), ret'[w] = Head(items), ~Holds(w), Holds(w)',
         \A v \in Consumers \ {w} : (Holds(v)' <=> Holds(v)) /\ ret'[v] = ret[v],
         UNCHANGED <<pushed, handled, draining>>
  PROVE  Conserved'
<1> DEFINE h == Head(items)
<1>1. /\ Elems(items) = Elems(items') \union {h}
      /\ Distinct(items') /\ h \notin Elems(items')
  BY TailElems DEF TypeInv, TypeOK, QueueTypeOK, Conserved
<1>2. InHand' = InHand \union {h}
  BY DEF InHand
<1>3. h \notin InHand
  BY <1>1 DEF Conserved
<1>4. \A v \in Consumers : Holds(v) => ret[v] # h
  BY <1>3 DEF InHand
<1>5. OneHolder'
  BY <1>4 DEF OneHolder, Conserved
<1>6. Held' = Held
  BY DEF Held
<1> QED BY <1>1, <1>2, <1>3, <1>5, <1>6 DEF Conserved

(***************************************************************************)
(* No step of the pool loses, duplicates or invents a task.                *)
(***************************************************************************)
LEMMA ConservedStep == TypeInv /\ Conserved /\ [Next]_vars => Conserved'
<1> SUFFICES ASSUME TypeInv, Conserved, [Next]_vars PROVE Conserved'
  OBVIOUS
<1> USE QueueAssumption
<1>0. ASSUME HandsKept, UNCHANGED <<items, pushed, handled, draining>> PROVE Conserved'
  <2>1. Held' = Held
    BY <1>0 DEF Held
  <2> QED BY <1>0, <2>1, HandsKeptSame DEF Conserved
<1>1. ASSUME NEW t \in Tasks, Enqueue(t) PROVE Conserved'
  <2>1. HandsKept
    <3>1. \A w \in Consumers : pc'[w] = "returned" <=> pc[w] = "returned"
      BY <1>1 DEF Enqueue, TryPush, PushItem, Signal, Parked, TypeInv, TypeOK, QueueTypeOK
    <3> QED BY <1>1, <3>1 DEF Enqueue, TryPush, PushItem, workerVars, HandsKept, Holds
  <2>2. t \notin pushed /\ items' = Append(items, t) /\ pushed' = pushed \union {t}
        /\ UNCHANGED <<handled, draining>>
    BY <1>1 DEF Enqueue, TryPush, PushItem, workerVars
  <2>3. Elems(items') = Elems(items) \union {t} /\ Distinct(items')
    BY <2>2, AppendElems DEF TypeInv, TypeOK, QueueTypeOK, Conserved
  <2>4. Held' = Held
    BY <2>2 DEF Held
  <2> QED BY <2>1, <2>2, <2>3, <2>4, HandsKeptSame DEF Conserved
<1>2. ASSUME NEW w \in Consumers, LoopTop(w) PROVE Conserved'
  <2>1. HandsKept
    BY <1>2 DEF LoopTop, HandsKept, Holds, TypeInv, Places, TypeOK, queueVars
  <2> QED BY <1>0, <1>2, <2>1 DEF LoopTop, queueVars
<1>3. ASSUME NEW w \in Consumers, CallPopCtx(w) PROVE Conserved'
  <2>1. CASE ReturnItem(w)
    <3>1. ~Holds(w)
      BY <1>3 DEF CallPopCtx, Holds
    <3>2. Head(items) \in Tasks
      BY <2>1, TailElems DEF ReturnItem, TypeInv, TypeOK, QueueTypeOK
    <3>3. Holds(w)' /\ ret'[w] = Head(items)
      BY <1>3, <2>1, <3>2 DEF ReturnItem, CallPopCtx, Holds, workerVars, TypeInv, TypeOK, QueueTypeOK
    <3>4. \A v \in Consumers \ {w} : (Holds(v)' <=> Holds(v)) /\ ret'[v] = ret[v]
      BY <1>3, <2>1 DEF ReturnItem, CallPopCtx, Holds, workerVars, TypeInv, TypeOK, QueueTypeOK
    <3> QED BY <1>3, <2>1, <3>1, <3>3, <3>4, TakeHead
            DEF ReturnItem, CallPopCtx, PopCtx, workerVars
  <2>2. CASE ~ReturnItem(w)
    <3>1. HandsKept
      BY <1>3, <2>2 DEF CallPopCtx, PopCtx, ReturnNothing, HandsKept, Holds, workerVars,
                        TypeInv, TypeOK, QueueTypeOK
    <3> QED BY <1>0, <1>3, <2>2, <3>1 DEF CallPopCtx, PopCtx, ReturnNothing, workerVars
  <2> QED BY <2>1, <2>2
<1>4. ASSUME NEW w \in Consumers, ResumePopCtx(w) PROVE Conserved'
  <2>0. pc[w] = "woken" /\ run[w] = "pop"
    BY <1>4 DEF ResumePopCtx, Resume, TypeInv, Places
  <2>1. CASE ReturnItem(w)
    <3>1. ~Holds(w)
      BY <2>0 DEF Holds
    <3>2. Head(items) \in Tasks
      BY <2>1, TailElems DEF ReturnItem, TypeInv, TypeOK, QueueTypeOK
    <3>3. Holds(w)' /\ ret'[w] = Head(items)
      BY <1>4, <2>0, <2>1, <3>2 DEF ReturnItem, ResumePopCtx, Holds, workerVars, TypeInv, TypeOK, QueueTypeOK
    <3>4. \A v \in Consumers \ {w} : (Holds(v)' <=> Holds(v)) /\ ret'[v] = ret[v]
      BY <1>4, <2>1 DEF ReturnItem, ResumePopCtx, Holds, workerVars, TypeInv, TypeOK, QueueTypeOK
    <3> QED BY <1>4, <2>1, <3>1, <3>3, <3>4, TakeHead
            DEF ReturnItem, ResumePopCtx, Resume, workerVars
  <2>2. CASE ~ReturnItem(w)
    <3>1. HandsKept
      BY <1>4, <2>0, <2>2 DEF ResumePopCtx, Resume, ReturnNothing, HandsKept, Holds, workerVars,
                        TypeInv, TypeOK, QueueTypeOK
    <3> QED BY <1>0, <1>4, <2>2, <3>1 DEF ResumePopCtx, Resume, ReturnNothing, workerVars
  <2> QED BY <2>1, <2>2
<1>5. ASSUME NEW w \in Consumers, PopReturned(w) PROVE Conserved'
  <2>1. HandsKept
    BY <1>5 DEF PopReturned, HandsKept, Holds, TypeInv, TypeOK, QueueTypeOK
  <2> QED BY <1>0, <1>5, <2>1 DEF PopReturned
<1>6. ASSUME NEW w \in Consumers, Process(w) PROVE Conserved'
  <2>1. Holds(w) /\ ~Holds(w)'
    BY <1>6 DEF Process, Holds, TypeInv, Places, TypeOK, QueueTypeOK
  <2>2. \A v \in Consumers \ {w} : (Holds(v)' <=> Holds(v)) /\ ret'[v] = ret[v]
    BY <1>6 DEF Process, Holds, TypeInv, TypeOK, queueVars
  <2>3. InHand = InHand' \union {ret[w]} /\ ret[w] \notin InHand' /\ OneHolder'
    BY <2>1, <2>2 DEF InHand, OneHolder, Conserved
  <2>4. handled' = handled \union {ret[w]} /\ UNCHANGED <<items, pushed, draining>> /\ Held' = Held
    BY <1>6 DEF Process, Held, queueVars
  <2> QED BY <2>3, <2>4 DEF Conserved
<1>7. ASSUME NEW w \in Consumers, Watcher(w) PROVE Conserved'
  <2>1. \A v \in Consumers : pc'[v] = "returned" <=> pc[v] = "returned"
    BY <1>7 DEF Watcher, WatcherBroadcast, WatcherExit, Broadcast, Parked
  <2>2. HandsKept
    BY <1>7, <2>1 DEF Watcher, WatcherBroadcast, WatcherExit, HandsKept, Holds, workerVars
  <2> QED BY <1>0, <1>7, <2>2 DEF Watcher, WatcherBroadcast, WatcherExit, workerVars
<1>8. ASSUME NEW w \in Consumers, StopService(w) PROVE Conserved'
  BY <1>0, <1>8 DEF StopService, Cancel, HandsKept, Holds, workerVars
<1>9. CASE ParentCancel \/ HttpShutdown \/ StopBegin \/ StopWait \/ DrainEnd
  BY <1>0, <1>9 DEF ParentCancel, HttpShutdown, StopBegin, StopWait, DrainEnd,
                    HandsKept, Holds, queueVars
<1>10. CASE DrainPop
  <2>1. HandsKept
    BY <1>10 DEF DrainPop, Pop, HandsKept, Holds
  <2>2. /\ Elems(items) = Elems(items') \union {Head(items)}
        /\ Distinct(items') /\ Head(items) \notin Elems(items')
        /\ Head(items) \in Tasks
    BY <1>10, TailElems DEF DrainPop, Pop, TypeInv, TypeOK, QueueTypeOK, Conserved
  <2>3. Held = {} /\ Held' = {Head(items)} /\ UNCHANGED <<pushed, handled>>
    BY <1>10, <2>2 DEF DrainPop, Pop, Held
  <2> QED BY <2>1, <2>2, <2>3, HandsKeptSame DEF Conserved
<1>11. CASE DrainProcess
  <2>1. HandsKept /\ UNCHANGED <<items, pushed>>
    BY <1>11 DEF DrainProcess, HandsKept, Holds, queueVars
  <2>2. Held = {draining} /\ Held' = {} /\ handled' = handled \union {draining}
    BY <1>11 DEF DrainProcess, Held
  <2> QED BY <2>1, <2>2, HandsKeptSame DEF Conserved
<1>12. CASE UNCHANGED vars
  BY <1>0, <1>12 DEF vars, queueVars, workerVars, HandsKept, Holds
<1> QED BY <1>1, <1>2, <1>3, <1>4, <1>5, <1>6, <1>7, <1>8, <1>9, <1>10, <1>11, <1>12
        DEF Next, Worker, Stop

(***************************************************************************)
(* The pool starts with nothing pushed.                                    *)
(***************************************************************************)
LEMMA ConservedInit == Init => Conserved
  BY DEF Init, QueueInit, Conserved, Elems, Distinct, OneHolder, InHand, Holds, Held

(***************************************************************************)
(* TaskConservation holds for any number of workers, tasks and any queue   *)
(* size: process, PopCtx, the watchers and drain never lose an activity    *)
(* that Enqueue accepted and never dispatch one twice.                     *)
(***************************************************************************)
THEOREM NoTaskLost == Spec => []TaskConservation
<1>1. TypeInv /\ Conserved /\ [Next]_vars => (TypeInv /\ Conserved)'
  BY TypeInvStep, ConservedStep
<1>2. TypeInv /\ Conserved => TaskConservation
  BY ConservationParts
<1>3. Init => TypeInv /\ Conserved
  BY TypeInvInit, ConservedInit
<1> QED BY <1>1, <1>2, <1>3, PTL DEF Spec
-----------------------------------------------------------------------------
(***************************************************************************)
(* The order of a graceful Stop: nothing is pushed once it has begun, the  *)
(* workers have exited before drain starts, and drain ends on an empty     *)
(* queue with nothing in its hands.                                        *)
(***************************************************************************)
StopOrder ==
  /\ phase # "running" => httpClosed
  /\ phase \in {"draining", "stopped"} => \A w \in Consumers : run[w] = "exited"
  /\ phase = "stopped" => items = <<>>
  /\ draining # NoTask => phase = "draining"

(***************************************************************************)
(* Every step keeps the order of the shutdown.                             *)
(***************************************************************************)
LEMMA StopOrderStep == TypeInv /\ StopOrder /\ [Next]_vars => StopOrder'
<1> SUFFICES ASSUME TypeInv, StopOrder, [Next]_vars PROVE StopOrder'
  OBVIOUS
<1> USE DEF StopOrder, queueVars, workerVars
<1>1. ASSUME NEW t \in Tasks, Enqueue(t) PROVE StopOrder'
  BY <1>1 DEF Enqueue, TryPush, PushItem, TypeInv, TypeOK
<1>2. ASSUME NEW w \in Consumers, LoopTop(w) \/ PopReturned(w) \/ Process(w) PROVE StopOrder'
  BY <1>2 DEF LoopTop, PopReturned, Process, TypeInv, TypeOK
<1>3. ASSUME NEW w \in Consumers, CallPopCtx(w) PROVE StopOrder'
  BY <1>3 DEF CallPopCtx
<1>4. ASSUME NEW w \in Consumers, ResumePopCtx(w) PROVE StopOrder'
  BY <1>4 DEF ResumePopCtx, Resume, TypeInv, Places
<1>5. ASSUME NEW w \in Consumers, Watcher(w) \/ StopService(w) PROVE StopOrder'
  BY <1>5 DEF Watcher, WatcherBroadcast, WatcherExit, StopService, Cancel
<1>6. CASE ParentCancel \/ HttpShutdown
  BY <1>6 DEF ParentCancel, HttpShutdown
<1>7. CASE Stop
  BY <1>7 DEF Stop, StopBegin, StopWait, DrainPop, DrainProcess, DrainEnd, Pop
<1>8. CASE UNCHANGED vars
  BY <1>8 DEF vars
<1> QED BY <1>1, <1>2, <1>3, <1>4, <1>5, <1>6, <1>7, <1>8 DEF Next, Worker

(***************************************************************************)
(* DrainComplete holds for any number of workers, tasks and any queue      *)
(* size: when Stop returns, every accepted activity has been dispatched.   *)
(***************************************************************************)
THEOREM StopLeavesNothing == Spec => []DrainComplete
<1> DEFINE IInv == TypeInv /\ Conserved /\ StopOrder
<1>1. Init => IInv
  <2>1. Init => StopOrder
    BY DEF Init, StopOrder
  <2> QED BY <2>1, TypeInvInit, ConservedInit
<1>2. IInv /\ [Next]_vars => IInv'
  BY TypeInvStep, ConservedStep, StopOrderStep
<1>3. IInv => DrainComplete
  <2> SUFFICES ASSUME IInv, phase = "stopped" PROVE handled = pushed
    BY DEF DrainComplete
  <2>1. InHand = {}
    BY DEF InHand, Holds, StopOrder
  <2>2. Held = {}
    BY DEF Held, StopOrder
  <2>3. Elems(items) = {}
    BY DEF Elems, StopOrder
  <2> QED BY <2>1, <2>2, <2>3 DEF Conserved
<1> QED BY <1>1, <1>2, <1>3, PTL DEF Spec
=============================================================================
