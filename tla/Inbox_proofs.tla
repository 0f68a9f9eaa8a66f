----------------------------- MODULE Inbox_proofs -----------------------------
(***************************************************************************)
(* Proofs about the inbox for any number of requests, workers, activities, *)
(* POSTs, crashes and database errors: its types, and that deduplication   *)
(* hands an activity other than a Follow to dispatch at most once.  Then,  *)
(* over the link of ActivityDelivery: the same end to end, and that what   *)
(* the sender has down as delivered is not lost.                           *)
(***************************************************************************)
EXTENDS ActivityDelivery, FiniteSetTheorems, TLAPS

(***************************************************************************)
(* What a request past its first check carries: an activity, and in the    *)
(* two reads of followGone a Follow.  Only a Follow reaches "enqueue"      *)
(* without a dedup row.                                                    *)
(***************************************************************************)
Routed ==
  \A r \in Requests :
    /\ at[r] # "free" => act[r] \in Activities
    /\ at[r] \in {"getFollow", "getRequest"} => Kind[act[r]] = "Follow"

\* A set with no two elements.
Lone(S) == \A x, y \in S : x = y

(***************************************************************************)
(* The token an activity is: the dedup row is inserted when it gets its    *)
(* first claim, and from then on it is in at most one place.               *)
(***************************************************************************)
Unseen(a) ==
  a \notin seen => Claims(a) = {} /\ Slots(a) = {} /\ Hands(a) = {} /\ dispatched[a] = 0

OnePlace(a) ==
  /\ Lone(Claims(a)) /\ Lone(Slots(a)) /\ Lone(Hands(a)) /\ dispatched[a] <= 1
  /\ Claims(a) # {} => Slots(a) = {} /\ Hands(a) = {} /\ dispatched[a] = 0
  /\ Slots(a) # {} => Hands(a) = {} /\ dispatched[a] = 0
  /\ Hands(a) # {} => dispatched[a] = 0

Dedup == \A a \in Activities : Kind[a] # "Follow" => Unseen(a) /\ OnePlace(a)

InboxInv == TypeOK /\ Routed /\ Dedup
-----------------------------------------------------------------------------
(***************************************************************************)
(* TypeOK in two parts, which different provers handle.                    *)
(***************************************************************************)
Flags ==
  follower \in BOOLEAN /\ requested \in BOOLEAN /\ blocked \in BOOLEAN

Shape ==
  /\ seen \in SUBSET Activities
  /\ queue \in Seq(Activities) /\ Len(queue) <= QueueSize
  /\ busy \in [Workers -> Activities \union {Nothing}]
  /\ at \in [Requests -> {"free", "verify", "getFollow", "getRequest",
                          "insert", "enqueue", "answered"}]
  /\ act \in [Requests -> Activities \union {Nothing}]
  /\ answer \in [Requests -> Answers]
  /\ dispatched \in [Activities -> Nat]
  /\ posts \in Nat /\ crashes \in Nat /\ errors \in Nat

(***************************************************************************)
(* The shape and the routing are kept by every step: of the requests, of   *)
(* the workers, of the operator, and by a crash.                           *)
(***************************************************************************)
LEMMA ShapeStep == Shape /\ Routed /\ [Next]_vars => Shape' /\ Routed'
<1> SUFFICES ASSUME Shape, Routed, [Next]_vars PROVE Shape' /\ Routed'
  OBVIOUS
<1> USE InboxAssumption DEF Shape, Routed, Answers, durable, history
<1>1. ASSUME NEW r \in Requests, NEW a \in Activities, Receive(r, a) PROVE Shape' /\ Routed'
  BY <1>1 DEF Receive
<1>2. ASSUME NEW r \in Requests, Verify(r) PROVE Shape' /\ Routed'
  BY <1>2 DEF Verify, Reply, Goto
<1>3. ASSUME NEW r \in Requests, GetFollow(r) PROVE Shape' /\ Routed'
  BY <1>3 DEF GetFollow, Goto, DbOk, DbError
<1>4. ASSUME NEW r \in Requests, GetFollowRequest(r) PROVE Shape' /\ Routed'
  <2>1. PICK step \in {"insert", "enqueue"} : Goto(r, step)
    BY <1>4 DEF GetFollowRequest
  <2> QED BY <1>4, <2>1 DEF GetFollowRequest, Goto, DbOk, DbError
<1>5. ASSUME NEW r \in Requests, InsertActivityIfNew(r) PROVE Shape' /\ Routed'
  <2>1. seen' \in SUBSET Activities /\ errors' \in Nat
    BY <1>5 DEF InsertActivityIfNew, DbOk, DbError
  <2>2. CASE Goto(r, "enqueue")
    BY <1>5, <2>1, <2>2 DEF InsertActivityIfNew, Goto
  <2>3. CASE Reply(r, "duplicate") \/ Reply(r, "error")
    BY <1>5, <2>1, <2>3 DEF InsertActivityIfNew, Reply
  <2> QED BY <1>5, <2>2, <2>3 DEF InsertActivityIfNew
<1>6. ASSUME NEW r \in Requests, Enqueue(r) PROVE Shape' /\ Routed'
  <2>1. queue' \in Seq(Activities) /\ Len(queue') <= QueueSize
    <3>1. act[r] \in Activities
      BY <1>6 DEF Enqueue
    <3>2. CASE Len(queue) < QueueSize /\ queue' = Append(queue, act[r])
      BY <3>1, <3>2
    <3> QED BY <1>6, <3>2 DEF Enqueue
  <2>2. CASE Reply(r, "accepted") \/ Reply(r, "busy")
    BY <1>6, <2>1, <2>2 DEF Enqueue, Reply
  <2> QED BY <1>6, <2>2 DEF Enqueue
<1>7. ASSUME NEW r \in Requests, Finish(r) PROVE Shape' /\ Routed'
  BY <1>7 DEF Finish
<1>8. ASSUME NEW w \in Workers, Take(w) PROVE Shape' /\ Routed'
  <2>1. Head(queue) \in Activities /\ Tail(queue) \in Seq(Activities)
        /\ Len(Tail(queue)) <= QueueSize
    BY <1>8 DEF Take
  <2> QED BY <1>8, <2>1 DEF Take
<1>9. ASSUME NEW w \in Workers, Dispatch(w) PROVE Shape' /\ Routed'
  BY <1>9 DEF Dispatch
<1>10. CASE AcceptRequest \/ RejectRequest \/ RemoveFollower \/ TogglePause
  BY <1>10 DEF AcceptRequest, RejectRequest, RemoveFollower, TogglePause
<1>11. CASE Crash
  BY <1>11 DEF Crash
<1>12. CASE UNCHANGED vars
  BY <1>12 DEF vars
<1> QED
  BY <1>1, <1>2, <1>3, <1>4, <1>5, <1>6, <1>7, <1>8, <1>9, <1>10, <1>11, <1>12
     DEF Next, ServeHTTP

(***************************************************************************)
(* The answers ServeHTTP reads back stay yes or no: processFollow,         *)
(* processUndo and the operator write nothing else.                        *)
(***************************************************************************)
LEMMA FlagsStep == Flags /\ [Next]_vars => Flags'
<1> SUFFICES ASSUME Flags, [Next]_vars PROVE Flags'
  OBVIOUS
<1> USE InboxAssumption DEF Flags, durable, history
<1>1. ASSUME NEW r \in Requests, ServeHTTP(r) \/ \E a \in Activities : Receive(r, a)
      PROVE  Flags'
  <2>1. UNCHANGED <<follower, requested, blocked>>
    BY <1>1 DEF ServeHTTP, Receive, Verify, GetFollow, GetFollowRequest,
                InsertActivityIfNew, Enqueue, Finish
  <2> QED BY <2>1
<1>2. ASSUME NEW w \in Workers, Take(w) PROVE Flags'
  BY <1>2 DEF Take
<1>3. ASSUME NEW w \in Workers, Dispatch(w) PROVE Flags'
  <2>1. blocked' = blocked /\ Apply(busy[w])
    BY <1>3 DEF Dispatch
  <2>2. CASE UNCHANGED <<follower, requested>>
    BY <2>1, <2>2
  <2>3. CASE \E promoted \in {FALSE, AutoAccept} :
               follower' = (follower \/ promoted) /\ requested' = ~promoted
    BY <2>1, <2>3
  <2>4. CASE follower' = FALSE /\ UNCHANGED requested
    BY <2>1, <2>4
  <2> QED BY <2>1, <2>2, <2>3, <2>4 DEF Apply
<1>4. CASE AcceptRequest \/ RejectRequest \/ RemoveFollower \/ TogglePause
  BY <1>4 DEF AcceptRequest, RejectRequest, RemoveFollower, TogglePause
<1>5. CASE Crash
  BY <1>5 DEF Crash
<1>6. CASE UNCHANGED vars
  BY <1>6 DEF vars
<1> QED
  BY <1>1, <1>2, <1>3, <1>4, <1>5, <1>6 DEF Next
-----------------------------------------------------------------------------
(***************************************************************************)
(* A step that gives an activity no new place and forgets no dedup row     *)
(* keeps its token unique.                                                 *)
(***************************************************************************)
LEMMA Frame ==
  ASSUME NEW a \in Activities, Unseen(a), OnePlace(a),
         Claims(a)' \subseteq Claims(a), Slots(a)' \subseteq Slots(a),
         Hands(a)' \subseteq Hands(a), dispatched'[a] = dispatched[a],
         seen \subseteq seen'
  PROVE  Unseen(a)' /\ OnePlace(a)'
<1>1. Unseen(a)'
  <2>1. SUFFICES ASSUME a \notin seen'
                 PROVE  Claims(a)' = {} /\ Slots(a)' = {} /\ Hands(a)' = {} /\ dispatched'[a] = 0
    BY DEF Unseen
  <2>2. Claims(a) = {} /\ Slots(a) = {} /\ Hands(a) = {} /\ dispatched[a] = 0
    BY <2>1 DEF Unseen
  <2> QED BY <2>2
<1>2. OnePlace(a)'
  <2>1. Lone(Claims(a)') /\ Lone(Slots(a)') /\ Lone(Hands(a)')
    BY DEF OnePlace, Lone
  <2>2. /\ Claims(a)' # {} => Claims(a) # {}
        /\ Slots(a)' # {} => Slots(a) # {}
        /\ Hands(a)' # {} => Hands(a) # {}
    OBVIOUS
  <2>3. /\ Claims(a)' # {} => Slots(a)' = {} /\ Hands(a)' = {} /\ dispatched'[a] = 0
        /\ Slots(a)' # {} => Hands(a)' = {} /\ dispatched'[a] = 0
        /\ Hands(a)' # {} => dispatched'[a] = 0
    BY <2>2 DEF OnePlace
  <2>4. dispatched'[a] <= 1
    BY DEF OnePlace
  <2>5. Lone(Claims(a))' /\ Lone(Slots(a))' /\ Lone(Hands(a))'
    BY <2>1 DEF Lone
  <2> QED BY <2>3, <2>4, <2>5 DEF OnePlace
<1> QED BY <1>1, <1>2

(***************************************************************************)
(* InsertActivityIfNew: the row that is new is what gives the activity its *)
(* first and only place, this request's claim.                             *)
(***************************************************************************)
LEMMA InsertDedup ==
  ASSUME Shape, Routed, NEW a \in Activities, Unseen(a), OnePlace(a),
         NEW r \in Requests, InsertActivityIfNew(r)
  PROVE  Unseen(a)' /\ OnePlace(a)'
<1>1. Slots(a)' = Slots(a) /\ Hands(a)' = Hands(a) /\ dispatched'[a] = dispatched[a]
  BY DEF InsertActivityIfNew, Slots, Hands
<1>2. seen \subseteq seen'
  BY DEF InsertActivityIfNew
<1>3. CASE Claims(a)' \subseteq Claims(a)
  BY <1>1, <1>2, <1>3, Frame
<1>4. CASE ~(Claims(a)' \subseteq Claims(a))
  <2>1. Goto(r, "enqueue") /\ act[r] \notin seen /\ seen' = seen \union {act[r]}
    <3>1. ASSUME Reply(r, "duplicate") \/ Reply(r, "error")
          PROVE  Claims(a)' \subseteq Claims(a)
      BY <3>1 DEF Reply, Claims, Shape
    <3> QED BY <1>4, <3>1 DEF InsertActivityIfNew
  <2>2. act[r] = a /\ Claims(a)' \subseteq Claims(a) \union {r}
    BY <1>4, <2>1 DEF Goto, Claims, Shape
  <2>3. Claims(a) = {} /\ Slots(a) = {} /\ Hands(a) = {} /\ dispatched[a] = 0
    BY <2>1, <2>2 DEF Unseen
  <2>4. Lone(Claims(a))'
    BY <2>2, <2>3 DEF Lone
  <2>5. Lone(Slots(a))' /\ Lone(Hands(a))'
    BY <1>1, <2>3 DEF Lone
  <2>6. dispatched'[a] <= 1 /\ a \in seen'
    BY <1>1, <2>1, <2>2, <2>3
  <2> QED BY <1>1, <2>3, <2>4, <2>5, <2>6 DEF Unseen, OnePlace
<1> QED BY <1>3, <1>4

(***************************************************************************)
(* TryPush: the claim becomes a place in the queue, or is given up when    *)
(* the queue is full.                                                      *)
(***************************************************************************)
LEMMA EnqueueDedup ==
  ASSUME Shape, Routed, NEW a \in Activities, Unseen(a), OnePlace(a),
         NEW r \in Requests, Enqueue(r)
  PROVE  Unseen(a)' /\ OnePlace(a)'
<1>1. Hands(a)' = Hands(a) /\ dispatched'[a] = dispatched[a] /\ seen' = seen
  BY DEF Enqueue, Hands, durable, history
<1>2. at' = [at EXCEPT ![r] = "answered"] /\ act' = act
  BY DEF Enqueue, Reply
<1>3. Claims(a)' = Claims(a) \ {r}
  BY <1>2 DEF Claims, Shape
<1>4. CASE queue' = queue
  BY <1>1, <1>3, <1>4, Frame DEF Slots
<1>5. CASE queue' = Append(queue, act[r])
  <2>1. act[r] \in Activities /\ queue \in Seq(Activities)
    BY DEF Enqueue, Routed, Shape
  <2>2. /\ DOMAIN queue = 1..Len(queue) /\ DOMAIN queue' = 1..(Len(queue) + 1)
        /\ Len(queue) \in Nat
        /\ \A i \in DOMAIN queue : queue'[i] = queue[i]
        /\ queue'[Len(queue) + 1] = act[r]
    BY <1>5, <2>1
  <2>3. CASE act[r] # a
    <3>1. Slots(a)' \subseteq Slots(a)
      BY <2>2, <2>3 DEF Slots
    <3> QED BY <1>1, <1>3, <3>1, Frame
  <2>4. CASE act[r] = a
    <3>1. r \in Claims(a)
      BY <2>4 DEF Enqueue, Claims
    <3>2. Slots(a) = {} /\ Hands(a) = {} /\ dispatched[a] = 0
      BY <3>1 DEF OnePlace
    <3>3. Claims(a)' = {}
      BY <3>1, <1>3 DEF OnePlace, Lone
    <3>4. Slots(a)' \subseteq {Len(queue) + 1}
      BY <2>2, <3>2 DEF Slots
    <3>5. a \in seen'
      BY <1>1, <3>1 DEF Unseen
    <3>6. Lone(Claims(a))' /\ Lone(Slots(a))' /\ Lone(Hands(a))'
      BY <1>1, <3>2, <3>3, <3>4 DEF Lone
    <3>7. dispatched'[a] <= 1
      BY <1>1, <3>2
    <3> QED BY <1>1, <3>2, <3>3, <3>5, <3>6, <3>7 DEF Unseen, OnePlace
  <2> QED BY <2>3, <2>4
<1> QED BY <1>4, <1>5 DEF Enqueue

(***************************************************************************)
(* PopCtx: the place in the queue becomes the worker's.                    *)
(***************************************************************************)
LEMMA TakeDedup ==
  ASSUME Shape, NEW a \in Activities, Unseen(a), OnePlace(a), NEW w \in Workers, Take(w)
  PROVE  Unseen(a)' /\ OnePlace(a)'
<1>1. Claims(a)' = Claims(a) /\ dispatched'[a] = dispatched[a] /\ seen' = seen
  BY DEF Take, Claims, durable, history
<1>2. /\ DOMAIN queue = 1..Len(queue) /\ DOMAIN queue' = 1..(Len(queue) - 1)
      /\ Len(queue) \in Nat \ {0}
      /\ \A i \in DOMAIN queue' : queue'[i] = queue[i + 1]
      /\ Head(queue) = queue[1] /\ queue[1] \in Activities
  BY DEF Take, Shape
<1>3. busy' = [busy EXCEPT ![w] = queue[1]] /\ busy[w] = Nothing
  BY <1>2 DEF Take
<1>4. \A i \in Slots(a)' : i + 1 \in Slots(a) /\ i \in Nat
  BY <1>2 DEF Slots
<1>5. Lone(Slots(a))'
  BY <1>4 DEF OnePlace, Lone
<1>6. CASE queue[1] # a
  <2>1. Hands(a)' \subseteq Hands(a)
    BY <1>3, <1>6 DEF Hands, Shape
  <2>2. Slots(a)' # {} => Slots(a) # {}
    BY <1>4
  <2>3. Lone(Hands(a))' /\ Lone(Claims(a))'
    BY <1>1, <2>1 DEF OnePlace, Lone
  <2>4. Hands(a)' # {} => Hands(a) # {}
    BY <2>1
  <2> QED BY <1>1, <1>5, <2>1, <2>2, <2>3, <2>4 DEF Unseen, OnePlace
<1>7. CASE queue[1] = a
  <2>1. 1 \in Slots(a)
    BY <1>2, <1>7 DEF Slots
  <2>2. Claims(a) = {} /\ Hands(a) = {} /\ dispatched[a] = 0
    BY <2>1 DEF OnePlace
  <2>3. Slots(a)' = {}
    <3>1. ASSUME NEW i \in Slots(a)' PROVE FALSE
      <4>1. i + 1 = 1 /\ i \in Nat /\ i >= 1
        BY <3>1, <1>2, <1>4, <2>1 DEF OnePlace, Lone, Slots
      <4> QED BY <4>1
    <3> QED BY <3>1
  <2>4. Hands(a)' \subseteq {w}
    BY <1>3, <2>2 DEF Hands, Shape
  <2>5. a \in seen'
    BY <1>1, <2>1 DEF Unseen
  <2>6. Lone(Hands(a))' /\ Lone(Claims(a))'
    BY <1>1, <2>2, <2>4 DEF Lone
  <2>7. dispatched'[a] <= 1
    BY <1>1, <2>2
  <2> QED BY <1>1, <1>5, <2>2, <2>3, <2>5, <2>6, <2>7 DEF Unseen, OnePlace
<1> QED BY <1>6, <1>7

(***************************************************************************)
(* process: the worker's task becomes a dispatch.                          *)
(***************************************************************************)
LEMMA DispatchDedup ==
  ASSUME Shape, NEW a \in Activities, Unseen(a), OnePlace(a), NEW w \in Workers, Dispatch(w)
  PROVE  Unseen(a)' /\ OnePlace(a)'
<1>1. Claims(a)' = Claims(a) /\ Slots(a)' = Slots(a) /\ seen' = seen
  BY DEF Dispatch, Claims, Slots
<1>2. Hands(a)' = Hands(a) \ {w}
  BY InboxAssumption DEF Dispatch, Hands, Shape
<1>3. busy[w] \in Activities /\ dispatched' = [dispatched EXCEPT ![busy[w]] = @ + 1]
  BY DEF Dispatch, Shape
<1>4. CASE busy[w] # a
  <2>1. dispatched'[a] = dispatched[a]
    BY <1>3, <1>4 DEF Shape
  <2> QED BY <1>1, <1>2, <2>1, Frame
<1>5. CASE busy[w] = a
  <2>1. w \in Hands(a)
    BY <1>5 DEF Hands
  <2>2. Claims(a) = {} /\ Slots(a) = {} /\ dispatched[a] = 0
    BY <2>1 DEF OnePlace
  <2>3. dispatched'[a] = 1
    BY <1>3, <1>5, <2>2 DEF Shape
  <2>4. Hands(a)' = {}
    BY <2>1, <1>2 DEF OnePlace, Lone
  <2>5. a \in seen'
    BY <1>1, <2>1 DEF Unseen
  <2>6. Lone(Claims(a))' /\ Lone(Slots(a))' /\ Lone(Hands(a))'
    BY <1>1, <2>2, <2>4 DEF Lone
  <2> QED BY <1>1, <2>2, <2>3, <2>4, <2>5, <2>6 DEF Unseen, OnePlace
<1> QED BY <1>4, <1>5

(***************************************************************************)
(* Every other step leaves the places of an activity that is no Follow     *)
(* alone or takes them away: the reads of followGone let only Follows      *)
(* through, and a crash empties everything but the tables.                 *)
(***************************************************************************)
LEMMA DedupStep == Shape /\ Routed /\ Dedup /\ [Next]_vars => Dedup'
<1> SUFFICES ASSUME Shape, Routed, Dedup, [Next]_vars,
                    NEW a \in Activities, Kind[a] # "Follow"
             PROVE  Unseen(a)' /\ OnePlace(a)'
  BY DEF Dedup
<1>0. Unseen(a) /\ OnePlace(a)
  BY DEF Dedup
<1>1. ASSUME NEW r \in Requests, NEW b \in Activities, Receive(r, b)
      PROVE  Unseen(a)' /\ OnePlace(a)'
  <2>1. Claims(a)' \subseteq Claims(a)
    BY <1>1 DEF Receive, Claims, Shape
  <2> QED BY <1>0, <1>1, <2>1, Frame DEF Receive, Slots, Hands, durable
<1>2. ASSUME NEW r \in Requests, Verify(r) PROVE Unseen(a)' /\ OnePlace(a)'
  <2>1. Claims(a)' \subseteq Claims(a)
    BY <1>2 DEF Verify, Goto, Reply, Claims, Shape
  <2> QED BY <1>0, <1>2, <2>1, Frame DEF Verify, Slots, Hands, durable, history
<1>3. ASSUME NEW r \in Requests, GetFollow(r) PROVE Unseen(a)' /\ OnePlace(a)'
  <2>1. Claims(a)' \subseteq Claims(a)
    BY <1>3 DEF GetFollow, Goto, Claims, Shape
  <2> QED BY <1>0, <1>3, <2>1, Frame DEF GetFollow, Slots, Hands, durable
<1>4. ASSUME NEW r \in Requests, GetFollowRequest(r) PROVE Unseen(a)' /\ OnePlace(a)'
  <2>1. act[r] # a
    BY <1>4 DEF GetFollowRequest, Routed
  <2>2. Claims(a)' \subseteq Claims(a)
    BY <1>4, <2>1 DEF GetFollowRequest, Goto, Claims, Shape
  <2> QED BY <1>0, <1>4, <2>2, Frame DEF GetFollowRequest, Slots, Hands, durable
<1>5. ASSUME NEW r \in Requests, InsertActivityIfNew(r) PROVE Unseen(a)' /\ OnePlace(a)'
  BY <1>0, <1>5, InsertDedup
<1>6. ASSUME NEW r \in Requests, Enqueue(r) PROVE Unseen(a)' /\ OnePlace(a)'
  BY <1>0, <1>6, EnqueueDedup
<1>7. ASSUME NEW r \in Requests, Finish(r) PROVE Unseen(a)' /\ OnePlace(a)'
  <2>1. Claims(a)' \subseteq Claims(a)
    BY <1>7 DEF Finish, Claims, Shape
  <2> QED BY <1>0, <1>7, <2>1, Frame DEF Finish, Slots, Hands, durable, history
<1>8. ASSUME NEW w \in Workers, Take(w) PROVE Unseen(a)' /\ OnePlace(a)'
  BY <1>0, <1>8, TakeDedup
<1>9. ASSUME NEW w \in Workers, Dispatch(w) PROVE Unseen(a)' /\ OnePlace(a)'
  BY <1>0, <1>9, DispatchDedup
<1>10. CASE UNCHANGED <<seen, queue, busy, at, act, dispatched>>
  BY <1>0, <1>10, Frame DEF Claims, Slots, Hands
<1>11. CASE Crash
  <2>1. Claims(a)' = {} /\ Slots(a)' = {} /\ Hands(a)' = {}
    BY <1>11, InboxAssumption DEF Crash, Claims, Slots, Hands
  <2> QED BY <1>0, <1>11, <2>1, Frame DEF Crash, durable
<1>12. CASE AcceptRequest \/ RejectRequest \/ RemoveFollower \/ TogglePause \/ UNCHANGED vars
  BY <1>10, <1>12 DEF AcceptRequest, RejectRequest, RemoveFollower, TogglePause, vars,
                      durable, history
<1> QED
  BY <1>1, <1>2, <1>3, <1>4, <1>5, <1>6, <1>7, <1>8, <1>9, <1>11, <1>12 DEF Next, ServeHTTP
-----------------------------------------------------------------------------
(***************************************************************************)
(* The inductive invariant holds at the start and is kept.                 *)
(***************************************************************************)
LEMMA InboxInvInductive ==
  /\ Init => InboxInv
  /\ InboxInv /\ [Next]_vars => InboxInv'
<1>1. ASSUME Init PROVE InboxInv
  <2>1. Flags
    BY <1>1 DEF Init, Flags
  <2>2. Shape /\ Routed
    BY <1>1, InboxAssumption DEF Init, Shape, Routed, Answers
  <2>3. ASSUME NEW a \in Activities PROVE Unseen(a) /\ OnePlace(a)
    <3>1. Claims(a) = {} /\ Slots(a) = {} /\ Hands(a) = {} /\ dispatched[a] = 0
      BY <1>1, InboxAssumption DEF Init, Claims, Slots, Hands
    <3> QED BY <3>1 DEF Unseen, OnePlace, Lone
  <2> QED BY <2>1, <2>2, <2>3 DEF InboxInv, TypeOK, Flags, Shape, Dedup
<1>2. ASSUME InboxInv, [Next]_vars PROVE InboxInv'
  <2>1. Flags /\ Shape /\ Routed /\ Dedup
    BY <1>2 DEF InboxInv, TypeOK, Flags, Shape
  <2>2. Flags' /\ Shape' /\ Routed' /\ Dedup'
    BY <1>2, <2>1, FlagsStep, ShapeStep, DedupStep
  <2> QED BY <2>2 DEF InboxInv, TypeOK, Flags, Shape
<1> QED BY <1>1, <1>2

(***************************************************************************)
(* The inbox keeps its types, for any queue size and any number of         *)
(* requests and workers: in particular the queue never holds more than     *)
(* inboxQueueSize tasks.                                                   *)
(***************************************************************************)
THEOREM TypeCorrect == Spec => []TypeOK
<1>1. InboxInv => TypeOK
  BY DEF InboxInv
<1> QED BY <1>1, InboxInvInductive, PTL DEF Spec

(***************************************************************************)
(* A set with no two elements has at most one.                             *)
(***************************************************************************)
LEMMA LoneCardinality ==
  ASSUME NEW S, Lone(S)
  PROVE  /\ Cardinality(S) \in {0, 1}
         /\ S = {} => Cardinality(S) = 0
<1>1. CASE S = {}
  BY <1>1, FS_EmptySet
<1>2. CASE S # {}
  <2>1. PICK x : x \in S
    BY <1>2
  <2>2. S = {x}
    BY <2>1 DEF Lone
  <2> QED BY <1>2, <2>2, FS_Singleton
<1> QED BY <1>1, <1>2

(***************************************************************************)
(* Durable deduplication: across concurrent POSTs, retries, database       *)
(* errors and any number of crashes, an activity other than a Follow is    *)
(* handed to dispatch at most once.                                        *)
(***************************************************************************)
THEOREM DispatchedAtMostOnce == Spec => []AtMostOnce
<1>1. InboxInv => AtMostOnce
  <2> SUFFICES ASSUME InboxInv, NEW a \in Activities, Kind[a] # "Follow"
               PROVE  Cardinality(Claims(a)) + Cardinality(Slots(a))
                        + Cardinality(Hands(a)) + dispatched[a] <= 1
    BY DEF AtMostOnce
  <2>1. OnePlace(a) /\ dispatched[a] \in Nat
    BY DEF InboxInv, Dedup, TypeOK
  <2>2. /\ Cardinality(Claims(a)) \in {0, 1} /\ (Claims(a) = {} => Cardinality(Claims(a)) = 0)
        /\ Cardinality(Slots(a)) \in {0, 1} /\ (Slots(a) = {} => Cardinality(Slots(a)) = 0)
        /\ Cardinality(Hands(a)) \in {0, 1} /\ (Hands(a) = {} => Cardinality(Hands(a)) = 0)
    BY <2>1, LoneCardinality DEF OnePlace
  <2> QED BY <2>1, <2>2 DEF OnePlace
<1> QED BY <1>1, InboxInvInductive, PTL DEF Spec
-----------------------------------------------------------------------------
(***************************************************************************)
(* The link to a sender's delivery queue.  No POST finds the workers' queue *)
(* full.                                                                   *)
(***************************************************************************)
NeverBusy == \A r \in Requests : answer[r] # "busy"

(***************************************************************************)
(* An activity with a dedup row, one whose POST has been answered with     *)
(* success and one the sender has down as delivered are kept.  Without a   *)
(* pause nothing is answered by dropping it.                               *)
(***************************************************************************)
LinkInv ==
  /\ Shape /\ Routed /\ blocked = FALSE
  /\ status \in [Activities -> {"absent", "pending", "delivered", "failed"}]
  /\ \A a \in seen : Kept(a)
  /\ \A r \in Requests : at[r] = "answered" /\ IsSuccess(answer[r]) => Kept(act[r])
  /\ DeliveredNotLost

(***************************************************************************)
(* The link adds nothing to the receiver: each of its steps is a step of   *)
(* the inbox, or none.                                                     *)
(***************************************************************************)
LEMMA LinkStepIsInboxStep == [LinkNext]_linkVars => [Next]_vars
<1> SUFFICES ASSUME [LinkNext]_linkVars PROVE [Next]_vars
  OBVIOUS
<1>1. CASE UNCHANGED linkVars
  BY <1>1 DEF linkVars
<1>2. ASSUME NEW a \in Activities, Publish(a) \/ Timeout(a) PROVE [Next]_vars
  BY <1>2 DEF Publish, Timeout
<1>3. ASSUME NEW a \in Activities, NEW r \in Requests, Post(a, r) PROVE [Next]_vars
  BY <1>3 DEF Post, Next
<1>4. ASSUME NEW r \in Requests, Handle(r) \/ Answered(r) PROVE [Next]_vars
  BY <1>4 DEF Handle, Answered, Next, ServeHTTP
<1>5. ASSUME NEW w \in Workers, Work(w) PROVE [Next]_vars
  BY <1>5 DEF Work, Next
<1> QED BY <1>1, <1>2, <1>3, <1>4, <1>5 DEF LinkNext

(***************************************************************************)
(* End to end: however a sender's timeouts, retries and late answers       *)
(* interleave, the receiving inbox does what it does for any client, so an *)
(* activity other than a Follow is dispatched at most once.                *)
(***************************************************************************)
THEOREM LinkDispatchesOnce == LinkSpec => []AtMostOnce
<1>1. LinkInit => Init
  BY DEF LinkInit
<1>2. LinkSpec => Spec
  BY <1>1, LinkStepIsInboxStep, PTL DEF LinkSpec, Spec
<1> QED BY <1>2, DispatchedAtMostOnce, PTL

(***************************************************************************)
(* What is kept stays kept: a claim turns into a place in the queue, that  *)
(* into a worker's task, and that into a dispatch.  Only a full queue      *)
(* gives up a claim.                                                       *)
(***************************************************************************)
LEMMA KeptStep ==
  ASSUME Shape, Routed, [LinkNext]_linkVars, NeverBusy', NEW a \in Activities, Kept(a)
  PROVE  Kept(a)'
<1> USE InboxAssumption
<1>1. CASE UNCHANGED <<queue, busy, dispatched>> /\ Claims(a) \subseteq Claims(a)'
  BY <1>1 DEF Kept, Slots, Hands
<1>2. ASSUME NEW b \in Activities, Publish(b) \/ Timeout(b) PROVE Kept(a)'
  BY <1>1, <1>2 DEF Publish, Timeout, vars, Claims, history
<1>3. ASSUME NEW b \in Activities, NEW r \in Requests, Post(b, r) PROVE Kept(a)'
  BY <1>1, <1>3 DEF Post, Receive, Claims, Shape
<1>4. ASSUME NEW r \in Requests, Handle(r) \/ Answered(r) PROVE Kept(a)'
  <2>1. CASE Verify(r)
    BY <1>1, <2>1 DEF Verify, Goto, Reply, Claims, Shape, history
  <2>2. CASE GetFollow(r) \/ GetFollowRequest(r)
    BY <1>1, <2>2 DEF GetFollow, GetFollowRequest, Goto, Claims, Shape
  <2>3. CASE InsertActivityIfNew(r)
    BY <1>1, <2>3 DEF InsertActivityIfNew, Goto, Reply, Claims, Shape
  <2>4. CASE Finish(r)
    BY <1>1, <2>4 DEF Finish, Claims, Shape, history
  <2>5. CASE Enqueue(r)
    <3>1. queue' = Append(queue, act[r]) /\ Reply(r, "accepted")
      BY <2>5 DEF Enqueue, Reply, NeverBusy, Shape
    <3>2. act[r] \in Activities /\ queue \in Seq(Activities)
      BY <2>5 DEF Enqueue, Routed, Shape
    <3>3. /\ DOMAIN queue = 1..Len(queue) /\ DOMAIN queue' = 1..(Len(queue) + 1)
          /\ Len(queue) \in Nat
          /\ \A i \in DOMAIN queue : queue'[i] = queue[i]
          /\ queue'[Len(queue) + 1] = act[r]
      BY <3>1, <3>2
    <3>4. Slots(a) \subseteq Slots(a)'
      BY <3>3 DEF Slots
    <3>5. act[r] = a => Slots(a)' # {}
      <4>1. act[r] = a => Len(queue) + 1 \in Slots(a)'
        BY <3>3 DEF Slots
      <4> QED BY <4>1
    <3>6. act[r] # a => Claims(a) \subseteq Claims(a)'
      BY <3>1 DEF Reply, Claims, Shape
    <3>7. Hands(a)' = Hands(a) /\ dispatched' = dispatched
      BY <2>5 DEF Enqueue, Hands, history
    <3> QED BY <3>4, <3>5, <3>6, <3>7 DEF Kept
  <2> QED BY <1>4, <2>1, <2>2, <2>3, <2>4, <2>5 DEF Handle, Answered
<1>5. ASSUME NEW w \in Workers, Work(w) PROVE Kept(a)'
  <2>1. CASE Take(w)
    <3>1. Claims(a)' = Claims(a) /\ dispatched' = dispatched
      BY <2>1 DEF Take, Claims, history
    <3>2. /\ DOMAIN queue = 1..Len(queue) /\ DOMAIN queue' = 1..(Len(queue) - 1)
          /\ Len(queue) \in Nat \ {0}
          /\ \A i \in DOMAIN queue' : queue'[i] = queue[i + 1]
          /\ Head(queue) = queue[1] /\ queue[1] \in Activities
      BY <2>1 DEF Take, Shape
    <3>3. busy' = [busy EXCEPT ![w] = queue[1]] /\ busy[w] = Nothing
      BY <2>1, <3>2 DEF Take
    <3>4. Hands(a) \subseteq Hands(a)'
      BY <3>3 DEF Hands, Shape
    <3>5. ASSUME NEW i \in Slots(a) PROVE Hands(a)' # {} \/ Slots(a)' # {}
      <4>1. CASE i = 1
        BY <3>3, <3>5, <4>1 DEF Hands, Slots, Shape
      <4>2. CASE i # 1
        <5>1. i - 1 \in DOMAIN queue' /\ queue'[i - 1] = queue[i]
          BY <3>2, <3>5, <4>2 DEF Slots
        <5>2. i - 1 \in Slots(a)'
          BY <5>1, <3>5 DEF Slots
        <5> QED BY <5>2
      <4> QED BY <4>1, <4>2
    <3> QED BY <3>1, <3>4, <3>5 DEF Kept
  <2>2. CASE Dispatch(w)
    <3>1. Claims(a)' = Claims(a) /\ Slots(a)' = Slots(a)
      BY <2>2 DEF Dispatch, Claims, Slots
    <3>2. busy[w] \in Activities /\ dispatched' = [dispatched EXCEPT ![busy[w]] = @ + 1]
          /\ busy' = [busy EXCEPT ![w] = Nothing]
      BY <2>2 DEF Dispatch, Shape
    <3>3. CASE busy[w] = a
      <4>1. dispatched'[a] > 0
        BY <3>2, <3>3 DEF Shape
      <4> QED BY <4>1 DEF Kept
    <3>4. CASE busy[w] # a
      <4>1. Hands(a) \subseteq Hands(a)' /\ dispatched'[a] = dispatched[a]
        BY <3>2, <3>4 DEF Hands, Shape
      <4> QED BY <3>1, <4>1 DEF Kept
    <3> QED BY <3>3, <3>4
  <2> QED BY <1>5, <2>1, <2>2 DEF Work
<1>6. CASE UNCHANGED linkVars
  BY <1>1, <1>6 DEF linkVars, vars, Claims, history
<1> QED BY <1>2, <1>3, <1>4, <1>5, <1>6 DEF LinkNext

(***************************************************************************)
(* A new dedup row comes with a claim.                                     *)
(***************************************************************************)
LEMMA NewRowKept ==
  ASSUME Shape, Routed, [LinkNext]_linkVars, NEW a \in seen', a \notin seen
  PROVE  Kept(a)'
<1>1. ASSUME NEW r \in Requests, InsertActivityIfNew(r) PROVE Kept(a)'
  <2>1. Goto(r, "enqueue") /\ act[r] = a
    BY <1>1 DEF InsertActivityIfNew
  <2>2. r \in Claims(a)'
    BY <2>1 DEF Goto, Claims, Shape
  <2> QED BY <2>2 DEF Kept
<1>2. PICK r \in Requests : InsertActivityIfNew(r)
  BY DEF LinkNext, linkVars, vars, durable, Publish, Timeout, Post, Receive, Handle, Answered,
         Verify, GetFollow, GetFollowRequest, Enqueue, Finish, Work, Take, Dispatch
<1> QED BY <1>1, <1>2

(***************************************************************************)
(* A POST is answered with success when its activity was handed over or    *)
(* has a dedup row.                                                        *)
(***************************************************************************)
LEMMA SuccessKept ==
  ASSUME LinkInv, [LinkNext]_linkVars, NeverBusy', NEW q \in Requests,
         at'[q] = "answered", IsSuccess(answer'[q])
  PROVE  Kept(act[q])' /\ act'[q] = act[q]
<1> USE InboxAssumption
<1>0. Shape /\ Routed /\ blocked = FALSE
  BY DEF LinkInv
<1>1. CASE at'[q] = at[q] /\ answer'[q] = answer[q] /\ act'[q] = act[q]
  <2>1. act[q] \in Activities /\ Kept(act[q])
    BY <1>1 DEF LinkInv, Routed
  <2> QED BY <1>0, <1>1, <2>1, KeptStep
<1>2. ASSUME NEW b \in Activities, Publish(b) \/ Timeout(b)
      PROVE  Kept(act[q])' /\ act'[q] = act[q]
  BY <1>1, <1>2 DEF Publish, Timeout, vars
<1>3. ASSUME NEW b \in Activities, NEW r \in Requests, Post(b, r)
      PROVE  Kept(act[q])' /\ act'[q] = act[q]
  BY <1>0, <1>1, <1>3 DEF Post, Receive, Shape
<1>4. ASSUME NEW r \in Requests, Handle(r) \/ Answered(r)
      PROVE  Kept(act[q])' /\ act'[q] = act[q]
  <2>1. CASE Verify(r)
    BY <1>0, <1>1, <2>1 DEF Verify, Goto, Reply, Shape, IsSuccess
  <2>2. CASE GetFollow(r) \/ GetFollowRequest(r)
    BY <1>0, <1>1, <2>2 DEF GetFollow, GetFollowRequest, Goto, Shape
  <2>3. CASE InsertActivityIfNew(r)
    <3>1. CASE Reply(r, "duplicate") /\ act[r] \in seen
      <4>1. CASE q = r
        <5>1. act[q] \in Activities /\ Kept(act[q])
          BY <1>0, <3>1, <4>1 DEF LinkInv, Shape
        <5>2. act' = act
          BY <3>1 DEF Reply
        <5> QED BY <1>0, <5>1, <5>2, KeptStep
      <4>2. CASE q # r
        BY <1>0, <1>1, <3>1, <4>2 DEF Reply, Shape
      <4> QED BY <4>1, <4>2
    <3>2. CASE Goto(r, "enqueue") \/ Reply(r, "error")
      BY <1>0, <1>1, <3>2 DEF Goto, Reply, Shape, IsSuccess
    <3> QED BY <2>3, <3>1, <3>2 DEF InsertActivityIfNew
  <2>4. CASE Finish(r)
    BY <1>0, <1>1, <2>4 DEF Finish, Shape
  <2>5. CASE Enqueue(r)
    <3>1. Reply(r, "accepted")
      BY <1>0, <2>5 DEF Enqueue, Reply, NeverBusy, Shape
    <3>2. CASE q = r
      <4>1. act[q] \in Activities /\ q \in Claims(act[q]) /\ act' = act
        BY <1>0, <2>5, <3>1, <3>2 DEF Enqueue, Routed, Claims, Reply
      <4>2. Kept(act[q])
        BY <4>1 DEF Kept
      <4> QED BY <1>0, <4>1, <4>2, KeptStep
    <3>3. CASE q # r
      BY <1>0, <1>1, <3>1, <3>3 DEF Reply, Shape
    <3> QED BY <3>2, <3>3
  <2> QED BY <1>4, <2>1, <2>2, <2>3, <2>4, <2>5 DEF Handle, Answered
<1>5. ASSUME NEW w \in Workers, Work(w) PROVE Kept(act[q])' /\ act'[q] = act[q]
  BY <1>1, <1>5 DEF Work, Take, Dispatch
<1>6. CASE UNCHANGED linkVars
  BY <1>1, <1>6 DEF linkVars, vars
<1> QED BY <1>2, <1>3, <1>4, <1>5, <1>6 DEF LinkNext

(***************************************************************************)
(* The sender learns of a delivery from an answer.                         *)
(***************************************************************************)
LEMMA StatusStep ==
  ASSUME LinkInv, [LinkNext]_linkVars
  PROVE  /\ status' \in [Activities -> {"absent", "pending", "delivered", "failed"}]
         /\ \A a \in Activities :
              status'[a] = "delivered" =>
                \/ status[a] = "delivered"
                \/ \E r \in Requests : at[r] = "answered" /\ act[r] = a /\ IsSuccess(answer[r])
<1>0. status \in [Activities -> {"absent", "pending", "delivered", "failed"}]
  BY DEF LinkInv
<1>1. ASSUME NEW r \in Requests, Answered(r)
      PROVE  /\ status' \in [Activities -> {"absent", "pending", "delivered", "failed"}]
             /\ \A a \in Activities :
                  status'[a] = "delivered" =>
                    \/ status[a] = "delivered"
                    \/ at[r] = "answered" /\ act[r] = a /\ IsSuccess(answer[r])
  BY <1>0, <1>1 DEF Answered, Finish
<1>2. ASSUME NEW b \in Activities, Publish(b) \/ Timeout(b)
      PROVE  /\ status' \in [Activities -> {"absent", "pending", "delivered", "failed"}]
             /\ \A a \in Activities : status'[a] = "delivered" => status[a] = "delivered"
  BY <1>0, <1>2 DEF Publish, Timeout, Sender!Enqueue, Sender!FailAttempt
<1>3. CASE UNCHANGED status
  BY <1>0, <1>3
<1> QED BY <1>1, <1>2, <1>3 DEF LinkNext, Post, Handle, Work, linkVars

(***************************************************************************)
(* The sender's "delivered" is true: as long as the receiver lives and its *)
(* queue never overflows, an activity the sender has down as delivered is  *)
(* claimed, queued, being dispatched or dispatched, through timeouts that  *)
(* race their answers, retries, duplicate POSTs and database errors.  The  *)
(* condition cannot be dropped: with a full queue the dedup row stays and  *)
(* the retry is answered as a duplicate (the run delivery_busy).           *)
(***************************************************************************)
THEOREM DeliveredIsKept == LinkSpec /\ []NeverBusy => []DeliveredNotLost
<1>1. LinkInit => LinkInv
  <2> SUFFICES ASSUME LinkInit PROVE LinkInv
    OBVIOUS
  <2>1. Shape /\ Routed /\ blocked = FALSE
    BY InboxAssumption DEF LinkInit, Init, Shape, Routed, Answers
  <2>2. seen = {} /\ \A r \in Requests : at[r] # "answered"
    BY DEF LinkInit, Init
  <2>3. status = [a \in Activities |-> "absent"]
    BY DEF LinkInit, Sender!Init
  <2> QED BY <2>1, <2>2, <2>3 DEF LinkInv, DeliveredNotLost
<1>2. LinkInv /\ NeverBusy' /\ [LinkNext]_linkVars => LinkInv'
  <2> SUFFICES ASSUME LinkInv, NeverBusy', [LinkNext]_linkVars PROVE LinkInv'
    OBVIOUS
  <2>1. Shape /\ Routed /\ Shape' /\ Routed'
    BY LinkStepIsInboxStep, ShapeStep DEF LinkInv
  <2>2. blocked' = FALSE
    BY DEF LinkInv, LinkNext, linkVars, vars, durable, Publish, Timeout, Post, Receive, Handle,
           Answered, Verify, GetFollow, GetFollowRequest, InsertActivityIfNew, Enqueue, Finish,
           Work, Take, Dispatch
  <2>3. \A a \in seen' : Kept(a)'
    <3>1. \A a \in seen : a \in Activities /\ Kept(a)
      BY <2>1 DEF LinkInv, Shape
    <3> QED BY <2>1, <3>1, KeptStep, NewRowKept
  <2>4. \A r \in Requests : at'[r] = "answered" /\ IsSuccess(answer'[r]) => Kept(act[r])'
    BY SuccessKept
  <2>5. DeliveredNotLost'
    <3> SUFFICES ASSUME NEW a \in Activities, status'[a] = "delivered" PROVE Kept(a)'
      BY DEF DeliveredNotLost
    <3>1. Kept(a)
      BY StatusStep DEF LinkInv, DeliveredNotLost
    <3> QED BY <2>1, <3>1, KeptStep
  <2>6. status' \in [Activities -> {"absent", "pending", "delivered", "failed"}]
    BY StatusStep
  <2>7. \A r \in Requests : (at[r] = "answered" /\ IsSuccess(answer[r]))' => Kept(act[r])'
    BY <2>4 DEF IsSuccess
  <2> QED BY <2>1, <2>2, <2>3, <2>5, <2>6, <2>7 DEF LinkInv
<1>3. LinkInv => DeliveredNotLost
  BY DEF LinkInv
<1> QED BY <1>1, <1>2, <1>3, PTL DEF LinkSpec
=============================================================================
