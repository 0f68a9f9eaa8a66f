-------------------------------- MODULE Inbox --------------------------------
(***************************************************************************)
(* internal/activitypub/inbox.go: concurrent POSTs to the inbox, from the  *)
(* block list and signature checks through deduplication to the hand-over  *)
(* to the workers, and the dispatch of what was handed over.  The workers' *)
(* queue is a bounded sequence here; InboxWorker has its internals.        *)
(*                                                                         *)
(* Of the state dispatch changes, only what ServeHTTP reads back is kept:  *)
(* whether the sender follows this node or has a pending follow request.   *)
(***************************************************************************)
EXTENDS Naturals, Sequences, FiniteSets

CONSTANTS
  Activities,   \* activities, identified by their id
  Kind,         \* their type: "Follow", "Undo" or "Content"
  Requests,     \* HTTP requests in progress at the same time
  Workers,      \* inbox workers
  QueueSize,    \* inboxQueueSize (256)
  AutoAccept,   \* shouldAutoAccept's answer for the sender
  Nothing,      \* no activity
  MaxPosts,     \* bound: POSTs in a behaviour
  MaxCrashes,   \* bound: crashes in a behaviour
  MaxErrors     \* bound: failed database statements in a behaviour

ASSUME InboxAssumption ==
  /\ IsFiniteSet(Requests) /\ IsFiniteSet(Workers)
  /\ Kind \in [Activities -> {"Follow", "Undo", "Content"}]
  /\ QueueSize \in Nat \ {0}
  /\ AutoAccept \in BOOLEAN
  /\ Nothing \notin Activities

VARIABLES
  \* durable
  seen,        \* ids in the activities table
  follower,    \* the sender has a row with they_follow_us
  requested,   \* the sender has a row in follow_requests
  \* in memory
  blocked,     \* the sender is in the block sets
  queue,       \* the workers' queue
  busy,        \* what each worker dispatches
  at, act,     \* each request's place in ServeHTTP, and its activity
  \* history
  answer,      \* the answer to each request, once "answered"
  dispatched,  \* how often an activity was handed to dispatch
  posts, crashes, errors

durable == <<seen, follower, requested>>
history == <<dispatched, posts, crashes, errors>>
vars == <<durable, blocked, queue, busy, at, act, answer, history>>

Answers == {"none", "refused", "dropped", "accepted", "duplicate", "busy", "error"}

\* The shape of the state, as the tables and the goroutines have it.
TypeOK ==
  /\ seen \in SUBSET Activities
  /\ follower \in BOOLEAN
  /\ requested \in BOOLEAN
  /\ blocked \in BOOLEAN
  /\ queue \in Seq(Activities) /\ Len(queue) <= QueueSize
  /\ busy \in [Workers -> Activities \union {Nothing}]
  /\ at \in [Requests -> {"free", "verify", "getFollow", "getRequest",
                          "insert", "enqueue", "answered"}]
  /\ act \in [Requests -> Activities \union {Nothing}]
  /\ answer \in [Requests -> Answers]
  /\ dispatched \in [Activities -> Nat]
  /\ posts \in Nat /\ crashes \in Nat /\ errors \in Nat

Init ==
  /\ seen = {}
  /\ follower = FALSE
  /\ requested = FALSE
  /\ blocked = FALSE
  /\ queue = <<>>
  /\ busy = [w \in Workers |-> Nothing]
  /\ at = [r \in Requests |-> "free"]
  /\ act = [r \in Requests |-> Nothing]
  /\ answer = [r \in Requests |-> "none"]
  /\ dispatched = [a \in Activities |-> 0]
  /\ posts = 0 /\ crashes = 0 /\ errors = 0
-----------------------------------------------------------------------------
Goto(r, step) == at' = [at EXCEPT ![r] = step] /\ UNCHANGED <<act, answer>>

Reply(r, a) ==
  /\ at' = [at EXCEPT ![r] = "answered"]
  /\ answer' = [answer EXCEPT ![r] = a]
  /\ UNCHANGED act

\* ServeHTTP up to the first block-list check.
Receive(r, a) ==
  /\ at[r] = "free" /\ posts < MaxPosts
  /\ posts' = posts + 1
  /\ act' = [act EXCEPT ![r] = a]
  /\ at' = [at EXCEPT ![r] = IF blocked THEN "answered" ELSE "verify"]
  /\ answer' = [answer EXCEPT ![r] = IF blocked THEN "dropped" ELSE "none"]
  /\ UNCHANGED <<durable, blocked, queue, busy, dispatched, crashes, errors>>

(***************************************************************************)
(* Key fetch, signature with one retry on a fresh key, actor match, the    *)
(* second block-list check, rate limits and id checks: refused, dropped or *)
(* let through.                                                            *)
(***************************************************************************)
Verify(r) ==
  /\ at[r] = "verify"
  /\ \/ Reply(r, "refused")
     \/ blocked /\ Reply(r, "dropped")
     \/ ~blocked /\ Goto(r, IF Kind[act[r]] = "Follow" THEN "getFollow" ELSE "insert")
  /\ UNCHANGED <<durable, blocked, queue, busy, history>>

\* A statement that works, and one that fails.
DbOk    == UNCHANGED errors
DbError == errors < MaxErrors /\ errors' = errors + 1

\* followGone: two reads, no transaction; a failed read counts as no row.
GetFollow(r) ==
  /\ at[r] = "getFollow"
  /\ \/ DbOk /\ Goto(r, IF follower THEN "insert" ELSE "getRequest")
     \/ DbError /\ Goto(r, "getRequest")
  /\ UNCHANGED <<durable, blocked, queue, busy, dispatched, posts, crashes>>

GetFollowRequest(r) ==
  /\ at[r] = "getRequest"
  /\ \/ DbOk /\ Goto(r, IF requested THEN "insert" ELSE "enqueue")
     \/ DbError /\ Goto(r, "enqueue")
  /\ UNCHANGED <<durable, blocked, queue, busy, dispatched, posts, crashes>>

\* Mutant: a row that was written is reported as an error.
InsertThenError(r) ==
  /\ at[r] = "insert"
  /\ \/ /\ act[r] \in seen
        /\ Reply(r, "duplicate")
        /\ DbOk /\ UNCHANGED seen
     \/ /\ act[r] \notin seen
        /\ seen' = seen \union {act[r]}
        /\ DbOk /\ Goto(r, "enqueue")
     \/ /\ DbError /\ Reply(r, "error")
        /\ seen' = seen \union {act[r]}
  /\ UNCHANGED <<follower, requested, blocked, queue, busy, dispatched, posts, crashes>>

InsertActivityIfNew(r) ==
  /\ at[r] = "insert"
  /\ \/ /\ act[r] \in seen
        /\ Reply(r, "duplicate")
        /\ DbOk /\ UNCHANGED seen
     \/ /\ act[r] \notin seen
        /\ seen' = seen \union {act[r]}
        /\ DbOk /\ Goto(r, "enqueue")
     \/ /\ DbError /\ Reply(r, "error")
        /\ UNCHANGED seen
  /\ UNCHANGED <<follower, requested, blocked, queue, busy, dispatched, posts, crashes>>

\* A full queue answers 503 "busy, retry later"; the dedup row stays.
Enqueue(r) ==
  /\ at[r] = "enqueue"
  /\ \/ /\ Len(queue) < QueueSize
        /\ queue' = Append(queue, act[r])
        /\ Reply(r, "accepted")
     \/ /\ Len(queue) >= QueueSize
        /\ Reply(r, "busy")
        /\ UNCHANGED queue
  /\ UNCHANGED <<durable, blocked, busy, history>>

\* The answer is on the wire, whether it arrives or not.
Finish(r) ==
  /\ at[r] = "answered"
  /\ at' = [at EXCEPT ![r] = "free"]
  /\ act' = [act EXCEPT ![r] = Nothing]
  /\ answer' = [answer EXCEPT ![r] = "none"]
  /\ UNCHANGED <<durable, blocked, queue, busy, history>>

ServeHTTP(r) ==
  \/ Verify(r) \/ GetFollow(r) \/ GetFollowRequest(r)
  \/ InsertActivityIfNew(r) \/ Enqueue(r) \/ Finish(r)
-----------------------------------------------------------------------------
\* A worker's queue.PopCtx.
Take(w) ==
  /\ busy[w] = Nothing /\ queue # <<>>
  /\ busy' = [busy EXCEPT ![w] = Head(queue)]
  /\ queue' = Tail(queue)
  /\ UNCHANGED <<durable, blocked, at, act, answer, history>>

(***************************************************************************)
(* process and dispatch.  An error is logged and the task is gone, so a    *)
(* dispatch may also leave the state as it is.                             *)
(*   processFollow: AddFollowRequest upserts, also for a follower; an      *)
(*     auto-accept promotes the request and deletes it, or fails to.       *)
(*   processUndo: RemoveFollow clears they_follow_us only.                 *)
(***************************************************************************)
Apply(a) ==
  \/ UNCHANGED <<follower, requested>>
  \/ /\ Kind[a] = "Follow"
     /\ \E promoted \in {FALSE, AutoAccept} :
          /\ follower' = (follower \/ promoted)
          /\ requested' = ~promoted
  \/ /\ Kind[a] = "Undo"
     /\ follower' = FALSE
     /\ UNCHANGED requested

Dispatch(w) ==
  /\ busy[w] # Nothing
  /\ Apply(busy[w])
  /\ dispatched' = [dispatched EXCEPT ![busy[w]] = @ + 1]
  /\ busy' = [busy EXCEPT ![w] = Nothing]
  /\ UNCHANGED <<seen, blocked, queue, at, act, answer, posts, crashes, errors>>
-----------------------------------------------------------------------------
\* The operator: AcceptFollowRequest, RejectFollowRequest, removing a follow.
AcceptRequest ==
  /\ requested
  /\ follower' = TRUE /\ requested' = FALSE
  /\ UNCHANGED <<seen, blocked, queue, busy, at, act, answer, history>>

RejectRequest ==
  /\ requested
  /\ requested' = FALSE
  /\ UNCHANGED <<seen, follower, blocked, queue, busy, at, act, answer, history>>

RemoveFollower ==
  /\ follower
  /\ follower' = FALSE
  /\ UNCHANGED <<seen, requested, blocked, queue, busy, at, act, answer, history>>

\* PauseActor or PauseDomain, and the resuming.
TogglePause ==
  /\ blocked' = ~blocked
  /\ UNCHANGED <<durable, queue, busy, at, act, answer, history>>

\* Mutant: duplicates are remembered in memory only.
CrashForgetsSeen ==
  /\ crashes < MaxCrashes /\ crashes' = crashes + 1
  /\ seen' = {}
  /\ blocked' = FALSE
  /\ queue' = <<>>
  /\ busy' = [w \in Workers |-> Nothing]
  /\ at' = [r \in Requests |-> "free"]
  /\ act' = [r \in Requests |-> Nothing]
  /\ answer' = [r \in Requests |-> "none"]
  /\ UNCHANGED <<follower, requested, dispatched, posts, errors>>

\* The process dies and is started again: queue, workers and requests are
\* gone, a pause is forgotten.
Crash ==
  /\ crashes < MaxCrashes /\ crashes' = crashes + 1
  /\ blocked' = FALSE
  /\ queue' = <<>>
  /\ busy' = [w \in Workers |-> Nothing]
  /\ at' = [r \in Requests |-> "free"]
  /\ act' = [r \in Requests |-> Nothing]
  /\ answer' = [r \in Requests |-> "none"]
  /\ UNCHANGED <<durable, dispatched, posts, errors>>
-----------------------------------------------------------------------------
Next ==
  \/ \E r \in Requests, a \in Activities : Receive(r, a)
  \/ \E r \in Requests : ServeHTTP(r)
  \/ \E w \in Workers : Take(w) \/ Dispatch(w)
  \/ AcceptRequest \/ RejectRequest \/ RemoveFollower
  \/ TogglePause
  \/ Crash

Spec == Init /\ [][Next]_vars
-----------------------------------------------------------------------------
\* Requests past deduplication, with their activity not yet handed over.
Claims(a) == {r \in Requests : at[r] = "enqueue" /\ act[r] = a}
Slots(a)  == {i \in DOMAIN queue : queue[i] = a}
Hands(a)  == {w \in Workers : busy[w] = a}

(***************************************************************************)
(* Deduplication is durable: an activity other than a Follow is handed to  *)
(* dispatch at most once, across concurrent POSTs, retries after any       *)
(* answer, database errors and restarts.  At any time it has one claim,    *)
(* one place in the queue, one worker or one dispatch to its name.         *)
(***************************************************************************)
AtMostOnce ==
  \A a \in Activities :
    Kind[a] # "Follow" =>
      Cardinality(Claims(a)) + Cardinality(Slots(a)) + Cardinality(Hands(a)) + dispatched[a] <= 1

\* The activity is claimed, queued, being dispatched, or was dispatched.
Kept(a) == Claims(a) # {} \/ Slots(a) # {} \/ Hands(a) # {} \/ dispatched[a] > 0
=============================================================================
