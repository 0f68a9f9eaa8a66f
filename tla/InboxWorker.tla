----------------------------- MODULE InboxWorker -----------------------------
(***************************************************************************)
(* internal/activitypub/inbox_worker.go: a pool of goroutines that pop     *)
(* validated activities from a SimpleQueue and dispatch them, and the      *)
(* graceful shutdown of server.Start: the server's context ends, the HTTP  *)
(* server stops taking requests, Stop ends the workers one by one and      *)
(* drains what is left.                                                    *)
(***************************************************************************)
EXTENDS SimpleQueue

VARIABLES
  run,        \* each worker's place in run: "top" of the loop, in "pop"
              \*   (PopCtx), in "process", or "exited"
  handled,    \* tasks whose dispatch was called and came back
  draining,   \* the task drain has popped and not yet processed, or NoTask
  parentDone, \* the server's context (the run loops' parentCtx) is over
  httpClosed, \* httpServer.Shutdown returned: no handler is left to Enqueue
  phase       \* Stop: "running", "stopping", "draining", "stopped"

workerVars == <<run, handled, draining, parentDone, httpClosed, phase>>
vars == <<queueVars, workerVars>>

TypeOK ==
  /\ QueueTypeOK
  /\ Len(items) <= MaxSize
  /\ run \in [Consumers -> {"top", "pop", "process", "exited"}]
  /\ handled \in SUBSET Tasks
  /\ draining \in Tasks \union {NoTask}
  /\ parentDone \in BOOLEAN
  /\ httpClosed \in BOOLEAN
  /\ phase \in {"running", "stopping", "draining", "stopped"}

Init ==
  /\ QueueInit
  /\ run = [w \in Consumers |-> "top"]
  /\ handled = {}
  /\ draining = NoTask
  /\ parentDone = FALSE
  /\ httpClosed = FALSE
  /\ phase = "running"
-----------------------------------------------------------------------------
\* A handler of the HTTP server hands a task over; a full queue refuses it.
Enqueue(t) ==
  /\ ~httpClosed
  /\ TryPush(t)
  /\ UNCHANGED workerVars

\* The select at the top of the loop.
LoopTop(w) ==
  /\ run[w] = "top"
  /\ run' = [run EXCEPT ![w] = IF w \in cancelled \/ parentDone THEN "exited" ELSE "pop"]
  /\ UNCHANGED <<queueVars, handled, draining, parentDone, httpClosed, phase>>

CallPopCtx(w) ==
  /\ run[w] = "pop" /\ pc[w] = "idle"
  /\ PopCtx(w)
  /\ UNCHANGED workerVars

\* A woken worker goes on inside PopCtx.
ResumePopCtx(w) == Resume(w) /\ UNCHANGED workerVars

\* PopCtx came back: a task is processed, (zero, false) ends the worker.
PopReturned(w) ==
  /\ run[w] = "pop" /\ pc[w] = "returned"
  /\ run' = [run EXCEPT ![w] = IF ret[w] = NoTask THEN "exited" ELSE "process"]
  /\ pc' = [pc EXCEPT ![w] = "idle"]
  /\ UNCHANGED <<items, pushed, ret, watcher, cancelled,
                 handled, draining, parentDone, httpClosed, phase>>

(***************************************************************************)
(* process: dispatch has its own 10s context; its error is only logged and *)
(* a panic restarts run, so either way the worker is back at the top.      *)
(***************************************************************************)
Process(w) ==
  /\ run[w] = "process"
  /\ handled' = handled \union {ret[w]}
  /\ run' = [run EXCEPT ![w] = "top"]
  /\ UNCHANGED <<queueVars, draining, parentDone, httpClosed, phase>>

Watcher(w) ==
  /\ WatcherBroadcast(w) \/ WatcherExit(w)
  /\ UNCHANGED workerVars
-----------------------------------------------------------------------------
\* server.Start's shutdown goroutine, up to the call of Stop.
ParentCancel ==
  /\ ~parentDone
  /\ parentDone' = TRUE
  /\ UNCHANGED <<queueVars, run, handled, draining, httpClosed, phase>>

HttpShutdown ==
  /\ parentDone /\ ~httpClosed
  /\ httpClosed' = TRUE
  /\ UNCHANGED <<queueVars, run, handled, draining, parentDone, phase>>

StopBegin ==
  /\ httpClosed /\ phase = "running"
  /\ phase' = "stopping"
  /\ UNCHANGED <<queueVars, run, handled, draining, parentDone, httpClosed>>

\* services[i].Stop: end the worker's context, having waited for the one before.
StopService(w) ==
  /\ phase = "stopping"
  /\ \A v \in cancelled : run[v] = "exited"
  /\ Cancel(w)
  /\ UNCHANGED workerVars

\* workerWg.Wait is over.
StopWait ==
  /\ phase = "stopping"
  /\ cancelled = Consumers
  /\ \A w \in Consumers : run[w] = "exited"
  /\ phase' = "draining"
  /\ UNCHANGED <<queueVars, run, handled, draining, parentDone, httpClosed>>

DrainPop ==
  /\ phase = "draining" /\ draining = NoTask
  /\ Pop
  /\ draining' = Head(items)
  /\ UNCHANGED <<run, handled, parentDone, httpClosed, phase>>

DrainProcess ==
  /\ phase = "draining" /\ draining # NoTask
  /\ handled' = handled \union {draining}
  /\ draining' = NoTask
  /\ UNCHANGED <<queueVars, run, parentDone, httpClosed, phase>>

\* Mutant: drain takes one task at most.
DrainEndEarly ==
  /\ phase = "draining" /\ draining = NoTask
  /\ phase' = "stopped"
  /\ UNCHANGED <<queueVars, run, handled, draining, parentDone, httpClosed>>

DrainEnd ==
  /\ phase = "draining" /\ draining = NoTask /\ items = <<>>
  /\ phase' = "stopped"
  /\ UNCHANGED <<queueVars, run, handled, draining, parentDone, httpClosed>>
-----------------------------------------------------------------------------
Worker(w) ==
  LoopTop(w) \/ CallPopCtx(w) \/ ResumePopCtx(w) \/ PopReturned(w) \/ Process(w)

Stop == StopBegin \/ StopWait \/ DrainPop \/ DrainProcess \/ DrainEnd

Next ==
  \/ \E t \in Tasks : Enqueue(t)
  \/ \E w \in Consumers : Worker(w) \/ Watcher(w) \/ StopService(w)
  \/ ParentCancel
  \/ HttpShutdown
  \/ Stop

(***************************************************************************)
(* The Go scheduler runs every runnable goroutine, and once the context    *)
(* is over the shutdown goroutine goes through.  Nothing forces a push or  *)
(* the shutdown itself.                                                    *)
(***************************************************************************)
Fairness ==
  /\ \A w \in Consumers :
       WF_vars(Worker(w)) /\ WF_vars(Watcher(w)) /\ WF_vars(StopService(w))
  /\ WF_vars(HttpShutdown)
  /\ WF_vars(Stop)

Spec == Init /\ [][Next]_vars
FairSpec == Spec /\ Fairness
-----------------------------------------------------------------------------
\* w holds a task: PopCtx returned it, or process is working on it.
Holds(w) ==
  /\ ret[w] # NoTask
  /\ \/ run[w] = "process"
     \/ run[w] = "pop" /\ pc[w] = "returned"

InHand == {ret[w] : w \in {v \in Consumers : Holds(v)}}
Queued == {items[i] : i \in DOMAIN items}
Held   == {draining} \ {NoTask}

(***************************************************************************)
(* No activity is lost or dispatched twice by the pool, whatever the       *)
(* workers, the watchers and the shutdown interleave: an accepted task is  *)
(* queued, in a worker's hands, in drain's hands or handled, in one of     *)
(* these places and in one copy.                                           *)
(***************************************************************************)
TaskConservation ==
  /\ pushed = Queued \union InHand \union Held \union handled
  /\ Queued \intersect (InHand \union Held \union handled) = {}
  /\ InHand \intersect (Held \union handled) = {}
  /\ Held \intersect handled = {}
  /\ \A i, j \in DOMAIN items : items[i] = items[j] => i = j
  /\ \A v, w \in Consumers : Holds(v) /\ Holds(w) /\ ret[v] = ret[w] => v = w

(***************************************************************************)
(* A graceful Stop leaves nothing behind: the tasks still queued when the  *)
(* workers were told to stop, and a task whose wakeup went to a worker     *)
(* that was just cancelled, are all dispatched before Stop returns.        *)
(***************************************************************************)
DrainComplete == phase = "stopped" => handled = pushed

\* Every accepted activity is eventually dispatched, shutdown or not.
EveryTaskHandled == \A t \in Tasks : t \in pushed ~> t \in handled

\* Stop returns: no parked worker misses the end of its context.
StopTerminates == phase = "stopping" ~> phase = "stopped"
=============================================================================
