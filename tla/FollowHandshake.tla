--------------------------- MODULE FollowHandshake ---------------------------
(***************************************************************************)
(* How two nodes come to follow each other: the operator's commands of     *)
(* internal/federation/federation.go, the inbox's processFollow, Accept,   *)
(* Reject and Undo of internal/activitypub/inbox_follow.go, the rows of    *)
(* internal/database/actors.go they share, and the activities they send    *)
(* each other through the delivery queue, which may overtake one another.  *)
(*                                                                         *)
(* On each node an operator's command and one inbox task per kind of       *)
(* activity run at the same time; each step is one statement or one send.  *)
(***************************************************************************)
EXTENDS Naturals, FiniteSets

CONSTANTS
  Nodes,        \* two nodes
  Scenarios     \* mode: federation.autoAccept of each node ("all" also stands for
                \*   a peer in allowedDomains); bounds: follows, the outgoing
                \*   follows stored in a behaviour, and events, its removals,
                \*   expiries, losses and repeated deliveries

ASSUME HandshakeAssumption ==
  /\ IsFiniteSet(Nodes) /\ Cardinality(Nodes) = 2
  /\ \A s \in Scenarios : /\ s.mode \in [Nodes -> {"none", "mutual", "all"}]
                           /\ s.follows \in Nat /\ s.events \in Nat

VARIABLES
  scenario,
  out,        \* we_follow_status of the peer's row; "none" without we_follow_them
  follower,   \* they_follow_us of the peer's row
  request,    \* the peer has a row in follow_requests
  seen,       \* the peer's Follow, whose id is always the same, is in activities
  followRow,  \* the node's own Follow in delivery_queue: "absent", "queued",
              \*   "settled" (delivered or failed)
  mail,       \* the other activities on their way to a node, by kind
  pc,         \* the step of the operator's command and of each inbox task
  \* history
  refused,    \* nodes that have sent a Reject
  unsent,     \* nodes that asked again after a Reject while the settled row of their
              \*   Follow was there, and have sent none since
  disturbed,  \* a follow was removed or has expired, or an activity is lost
  follows, events

Mode     == scenario.mode
state    == <<out, follower, request, seen>>
history  == <<refused, unsent, disturbed, follows, events>>
vars     == <<scenario, state, followRow, mail, pc, history>>

Kinds == {"Accept", "Reject", "Undo"}
Roles == Kinds \union {"Follow", "operator"}
Steps == {"idle", "sendFollow", "promote", "add", "sendAccept", "followBack", "storeBack",
          "reject", "sendReject", "sendUndo", "clearFollower", "clearOutgoing",
          "addRequest", "autoAccept", "getOutgoing", "record", "getRequest",
          "rejectOutgoing", "rejectRequest", "removeFollower"}

Peer(n) == CHOOSE p \in Nodes : p # n

\* The shape of the state, as the tables and the goroutines have it.
TypeOK ==
  /\ scenario \in Scenarios
  /\ out \in [Nodes -> {"none", "pending", "accepted", "rejected"}]
  /\ follower \in [Nodes -> BOOLEAN]
  /\ request \in [Nodes -> BOOLEAN]
  /\ seen \in [Nodes -> BOOLEAN]
  /\ followRow \in [Nodes -> {"absent", "queued", "settled"}]
  /\ mail \in [Nodes -> [Kinds -> Nat]]
  /\ pc \in [Nodes -> [Roles -> Steps]]
  /\ refused \in SUBSET Nodes /\ unsent \in SUBSET Nodes
  /\ disturbed \in BOOLEAN
  /\ follows \in Nat /\ events \in Nat

Init ==
  /\ scenario \in Scenarios
  /\ out = [n \in Nodes |-> "none"]
  /\ follower = [n \in Nodes |-> FALSE]
  /\ request = [n \in Nodes |-> FALSE]
  /\ seen = [n \in Nodes |-> FALSE]
  /\ followRow = [n \in Nodes |-> "absent"]
  /\ mail = [n \in Nodes |-> [k \in Kinds |-> 0]]
  /\ pc = [n \in Nodes |-> [r \in Roles |-> "idle"]]
  /\ refused = {} /\ unsent = {}
  /\ disturbed = FALSE
  /\ follows = 0 /\ events = 0
-----------------------------------------------------------------------------
Goto(n, r, step) == pc' = [pc EXCEPT ![n][r] = step]

\* Nothing is on its way and nobody is in the middle of anything.
Quiet ==
  \A n \in Nodes :
    /\ \A r \in Roles : pc[n][r] = "idle"
    /\ \A k \in Kinds : mail[n][k] = 0
    /\ followRow[n] # "queued"

Event == events < scenario.events /\ events' = events + 1
Disturb == Event /\ disturbed' = TRUE

\* Send the peer an activity with an id of its own; fetching the peer's actor
\* or the enqueue may fail.
Send(n, kind) ==
  /\ \/ /\ mail' = [mail EXCEPT ![Peer(n)][kind] = @ + 1]
        /\ UNCHANGED <<events, disturbed>>
     \/ Disturb /\ UNCHANGED mail
  /\ UNCHANGED <<state, followRow, unsent, follows>>

\* A Follow's id is a function of the two actors: with a row in the queue,
\* settled or not, enqueuing it again changes nothing.
SendFollow(n, r) ==
  /\ pc[n][r] = "sendFollow"
  /\ \/ /\ followRow' = [followRow EXCEPT ![n] = IF @ = "absent" THEN "queued" ELSE @]
        /\ unsent' = IF followRow[n] = "absent" THEN unsent \ {n} ELSE unsent
        /\ UNCHANGED <<events, disturbed>>
     \/ Disturb /\ UNCHANGED <<followRow, unsent>>
  /\ Goto(n, r, "idle")
  /\ UNCHANGED <<state, mail, refused, follows>>

AddOutgoingFollow(n) ==
  /\ follows < scenario.follows /\ follows' = follows + 1
  /\ out' = [out EXCEPT ![n] = IF @ = "accepted" THEN "accepted" ELSE "pending"]
-----------------------------------------------------------------------------
\* AcceptFollowRequest reads the request and promotes it in a transaction.
Promote(n, r) ==
  /\ pc[n][r] = "promote"
  /\ Goto(n, r, IF request[n] THEN "add" ELSE "idle")
  /\ UNCHANGED <<state, followRow, mail, history>>

AddFollower(n, r) ==
  /\ pc[n][r] = "add"
  /\ follower' = [follower EXCEPT ![n] = TRUE]
  /\ request' = [request EXCEPT ![n] = FALSE]
  /\ Goto(n, r, "sendAccept")
  /\ UNCHANGED <<out, seen, followRow, mail, history>>

SendAccept(n, r) ==
  /\ pc[n][r] = "sendAccept"
  /\ Send(n, "Accept")
  /\ Goto(n, r, IF r = "operator" /\ Mode[n] = "mutual" THEN "followBack" ELSE "idle")
  /\ UNCHANGED refused
-----------------------------------------------------------------------------
(***************************************************************************)
(* The operator's commands.                                                *)
(***************************************************************************)
\* Mutant: the Follow goes out before the outgoing follow is stored.
AddFollowSendsFirst(n) ==
  /\ pc[n]["operator"] = "idle"
  /\ followRow' = [followRow EXCEPT ![n] = IF @ = "absent" THEN "queued" ELSE @]
  /\ Goto(n, "operator", "storeBack")
  /\ UNCHANGED <<state, mail, history>>

\* The operator may ask at any time and again: SendFollow then meets the row that
\* is there.
AddFollow(n) ==
  /\ pc[n]["operator"] = "idle"
  /\ AddOutgoingFollow(n)
  /\ unsent' = IF out[n] = "rejected" /\ followRow[n] = "settled" THEN unsent \union {n} ELSE unsent
  /\ Goto(n, "operator", "sendFollow")
  /\ UNCHANGED <<follower, request, seen, followRow, mail, refused, disturbed, events>>

AcceptFollow(n) ==
  /\ pc[n]["operator"] = "idle" /\ request[n]
  /\ Goto(n, "operator", "promote")
  /\ UNCHANGED <<state, followRow, mail, history>>

\* sendMutualFollowBack
FollowBack(n) ==
  /\ pc[n]["operator"] = "followBack"
  /\ Goto(n, "operator", IF out[n] = "none" THEN "storeBack" ELSE "idle")
  /\ UNCHANGED <<state, followRow, mail, history>>

StoreBack(n) ==
  /\ pc[n]["operator"] = "storeBack"
  /\ AddOutgoingFollow(n)
  /\ Goto(n, "operator", "sendFollow")
  /\ UNCHANGED <<follower, request, seen, followRow, mail, refused, unsent, disturbed, events>>

RejectFollow(n) ==
  /\ pc[n]["operator"] = "idle" /\ request[n]
  /\ Goto(n, "operator", "reject")
  /\ UNCHANGED <<state, followRow, mail, history>>

RejectFollowRequest(n) ==
  /\ pc[n]["operator"] = "reject"
  /\ request' = [request EXCEPT ![n] = FALSE]
  /\ Goto(n, "operator", IF request[n] THEN "sendReject" ELSE "idle")
  /\ UNCHANGED <<out, follower, seen, followRow, mail, history>>

SendReject(n) ==
  /\ pc[n]["operator"] = "sendReject"
  /\ Send(n, "Reject")
  /\ refused' = refused \union {n}
  /\ Goto(n, "operator", "idle")

\* RemoveFollow sends the Undo first, then clears both directions.
RemoveFollow(n) ==
  /\ pc[n]["operator"] = "idle"
  /\ Disturb
  /\ Goto(n, "operator", "sendUndo")
  /\ UNCHANGED <<state, followRow, mail, refused, unsent, follows>>

SendUndo(n) ==
  /\ pc[n]["operator"] = "sendUndo"
  /\ Send(n, "Undo")
  /\ Goto(n, "operator", "clearFollower")
  /\ UNCHANGED refused

ClearFollower(n) ==
  /\ pc[n]["operator"] = "clearFollower"
  /\ follower' = [follower EXCEPT ![n] = FALSE]
  /\ Goto(n, "operator", "clearOutgoing")
  /\ UNCHANGED <<out, request, seen, followRow, mail, history>>

RemoveOutgoingFollow(n) ==
  /\ pc[n]["operator"] = "clearOutgoing"
  /\ out' = [out EXCEPT ![n] = "none"]
  /\ Goto(n, "operator", "idle")
  /\ UNCHANGED <<follower, request, seen, followRow, mail, history>>

-----------------------------------------------------------------------------
(***************************************************************************)
(* The inbox.  A Follow passes the deduplication when there is no follower *)
(* and no request, or when its id is new; the delivery ends, or its answer *)
(* is lost and the row is delivered again.                                 *)
(***************************************************************************)
ReceiveFollow(n) ==
  LET gone == ~follower[n] /\ ~request[n] IN
  /\ followRow[Peer(n)] = "queued" /\ pc[n]["Follow"] = "idle"
  /\ seen' = [seen EXCEPT ![n] = @ \/ ~gone]
  /\ Goto(n, "Follow", IF gone \/ ~seen[n] THEN "addRequest" ELSE "idle")
  /\ \/ /\ followRow' = [followRow EXCEPT ![Peer(n)] = "settled"]
        /\ UNCHANGED events
     \/ Event /\ UNCHANGED followRow
  /\ UNCHANGED <<out, follower, request, mail, refused, unsent, disturbed, follows>>

FirstStep == [Accept |-> "getOutgoing", Reject |-> "rejectOutgoing",
              Undo |-> "removeFollower"]

Receive(n, kind) ==
  /\ mail[n][kind] > 0 /\ pc[n][kind] = "idle"
  /\ mail' = [mail EXCEPT ![n][kind] = @ - 1]
  /\ Goto(n, kind, FirstStep[kind])
  /\ UNCHANGED <<state, followRow, history>>

\* The delivery of an activity fails for good.
LoseFollow(n) ==
  /\ followRow[n] = "queued"
  /\ followRow' = [followRow EXCEPT ![n] = "settled"]
  /\ Disturb
  /\ UNCHANGED <<state, mail, pc, refused, unsent, follows>>

Lose(n, kind) ==
  /\ mail[n][kind] > 0
  /\ mail' = [mail EXCEPT ![n][kind] = @ - 1]
  /\ Disturb
  /\ UNCHANGED <<state, followRow, pc, refused, unsent, follows>>

\* processFollow
AddFollowRequest(n) ==
  /\ pc[n]["Follow"] = "addRequest"
  /\ request' = [request EXCEPT ![n] = TRUE]
  /\ Goto(n, "Follow", "autoAccept")
  /\ UNCHANGED <<out, follower, seen, followRow, mail, history>>

ShouldAutoAccept(n) ==
  \/ Mode[n] = "all"
  \/ Mode[n] = "mutual" /\ out[n] \in {"pending", "accepted"}

AutoAccept(n) ==
  /\ pc[n]["Follow"] = "autoAccept"
  /\ Goto(n, "Follow", IF ShouldAutoAccept(n) THEN "promote" ELSE "idle")
  /\ UNCHANGED <<state, followRow, mail, history>>

\* processAccept
GetOutgoingFollow(n) ==
  /\ pc[n]["Accept"] = "getOutgoing"
  /\ Goto(n, "Accept", IF out[n] = "pending" THEN "record" ELSE "idle")
  /\ UNCHANGED <<state, followRow, mail, history>>

\* Mutant: the Accept of our follow does not release the peer's own request.
AcceptOutgoingFollowOnly(n) ==
  /\ pc[n]["Accept"] = "record"
  /\ out' = [out EXCEPT ![n] = IF @ = "pending" THEN "accepted" ELSE @]
  /\ Goto(n, "Accept", "idle")
  /\ UNCHANGED <<follower, request, seen, followRow, mail, history>>

AcceptOutgoingFollow(n) ==
  /\ pc[n]["Accept"] = "record"
  /\ out' = [out EXCEPT ![n] = IF @ = "pending" THEN "accepted" ELSE @]
  /\ Goto(n, "Accept", IF Mode[n] = "mutual" THEN "getRequest" ELSE "idle")
  /\ UNCHANGED <<follower, request, seen, followRow, mail, history>>

GetFollowRequest(n) ==
  /\ pc[n]["Accept"] = "getRequest"
  /\ Goto(n, "Accept", IF request[n] THEN "promote" ELSE "idle")
  /\ UNCHANGED <<state, followRow, mail, history>>

\* processReject ends both directions: our follow, and the peer's request.
RejectOutgoingFollow(n) ==
  /\ pc[n]["Reject"] = "rejectOutgoing"
  /\ out' = [out EXCEPT ![n] = IF @ = "pending" THEN "rejected" ELSE @]
  /\ Goto(n, "Reject", "rejectRequest")
  /\ UNCHANGED <<follower, request, seen, followRow, mail, history>>

DropRequest(n) ==
  /\ pc[n]["Reject"] = "rejectRequest"
  /\ request' = [request EXCEPT ![n] = FALSE]
  /\ Goto(n, "Reject", "idle")
  /\ UNCHANGED <<out, follower, seen, followRow, mail, history>>

\* processUndo leaves a pending request alone.
ProcessUndo(n) ==
  /\ pc[n]["Undo"] = "removeFollower"
  /\ follower' = [follower EXCEPT ![n] = FALSE]
  /\ Goto(n, "Undo", "idle")
  /\ UNCHANGED <<out, request, seen, followRow, mail, history>>

-----------------------------------------------------------------------------
(***************************************************************************)
(* A week passes: nothing sent before is on its way any more, the settled  *)
(* Follow is cleaned up and an unanswered or rejected follow expires.      *)
(***************************************************************************)
CleanupFollow(n) ==
  /\ Quiet /\ followRow[n] = "settled"
  /\ followRow' = [followRow EXCEPT ![n] = "absent"]
  /\ UNCHANGED <<state, mail, pc, history>>

DeleteStaleOutgoingFollow(n) ==
  /\ Quiet /\ out[n] \in {"pending", "rejected"}
  /\ out' = [out EXCEPT ![n] = "none"]
  /\ Disturb
  /\ UNCHANGED <<follower, request, seen, followRow, mail, pc, refused, unsent, follows>>

Operator(n) ==
  \/ FollowBack(n) \/ StoreBack(n) \/ RejectFollowRequest(n) \/ SendReject(n)
  \/ SendUndo(n) \/ ClearFollower(n) \/ RemoveOutgoingFollow(n)

InboxTask(n) ==
  \/ AddFollowRequest(n) \/ AutoAccept(n)
  \/ GetOutgoingFollow(n) \/ AcceptOutgoingFollow(n) \/ GetFollowRequest(n)
  \/ RejectOutgoingFollow(n) \/ DropRequest(n) \/ ProcessUndo(n)

Run(n) ==
  /\ \/ Operator(n) \/ InboxTask(n)
     \/ \E r \in Roles : Promote(n, r) \/ AddFollower(n, r) \/ SendAccept(n, r) \/ SendFollow(n, r)
  /\ UNCHANGED scenario

Deliver(n) ==
  /\ ReceiveFollow(n) \/ \E k \in Kinds : Receive(n, k)
  /\ UNCHANGED scenario

Next ==
  \E n \in Nodes :
    \/ Run(n) \/ Deliver(n)
    \/ /\ \/ AddFollow(n) \/ AcceptFollow(n) \/ RejectFollow(n) \/ RemoveFollow(n)
          \/ LoseFollow(n) \/ \E k \in Kinds : Lose(n, k)
          \/ CleanupFollow(n) \/ DeleteStaleOutgoingFollow(n)
       /\ UNCHANGED scenario

\* As long as a command or a task can go on or an activity can be delivered, one
\* of them does.  No operator is obliged to start a command.
Fairness == WF_vars(\E n \in Nodes : Run(n) \/ Deliver(n))

Spec == Init /\ [][Next]_vars
FairSpec == Spec /\ Fairness
-----------------------------------------------------------------------------
(***************************************************************************)
(* The two databases agree once the dust settles: with nothing lost,       *)
(* removed or expired, however the two nodes' commands and activities      *)
(* cross, a follow one side has as accepted is one the other side has      *)
(* promoted, and a follow still pending waits for the other operator.      *)
(* Three exceptions: this node's own Reject has swept the request away; or *)
(* the other operator rejected a node that is a follower there by a        *)
(* promotion that crossed the Reject or by an earlier Follow, and the      *)
(* Follow sent again is taken for a duplicate; or this operator asked      *)
(* again after a Reject, and as the Follow's settled row was still there   *)
(* none was sent.                                                          *)
(***************************************************************************)
Agreement ==
  Quiet /\ ~disturbed =>
    \A n \in Nodes :
      /\ out[n] = "accepted" => follower[Peer(n)]
      /\ out[n] = "pending" =>
           \/ request[Peer(n)] \/ n \in refused \union unsent
           \/ Peer(n) \in refused /\ follower[Peer(n)]
      /\ out[n] = "none" => ~follower[Peer(n)] /\ ~request[Peer(n)]

(***************************************************************************)
(* Mutual mode: two nodes that have both asked to follow the other end up  *)
(* following each other, in whatever order Follows and Accepts cross, or   *)
(* an operator has said no.                                                *)
(***************************************************************************)
MutualConverges ==
  (\A n \in Nodes : Mode[n] = "mutual" /\ out[n] = "pending")
    ~> \/ \A n \in Nodes : out[n] = "accepted" /\ follower[n]
       \/ refused # {} \/ disturbed
=============================================================================
