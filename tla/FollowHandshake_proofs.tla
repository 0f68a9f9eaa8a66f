------------------------ MODULE FollowHandshake_proofs ------------------------
(***************************************************************************)
(* Proofs about two nodes that follow each other, in any modes and for any *)
(* number of follows and events: the types, and that the two databases     *)
(* agree once nothing is on its way.                                       *)
(***************************************************************************)
EXTENDS FollowHandshake, FiniteSetTheorems, TLAPS

(***************************************************************************)
(* What is still under way for the follow of n: its Follow, the peer's     *)
(* Accept, the peer's Reject.                                              *)
(***************************************************************************)
FollowComing(n) ==
  \/ pc[n]["operator"] = "sendFollow" /\ followRow[n] = "absent"
  \/ followRow[n] = "queued"
  \/ pc[Peer(n)]["Follow"] = "addRequest"

AcceptComing(n) ==
  \/ \E r \in Roles : pc[Peer(n)][r] = "sendAccept"
  \/ mail[n]["Accept"] > 0
  \/ pc[n]["Accept"] \in {"getOutgoing", "record"}

RejectComing(n) ==
  \/ pc[Peer(n)]["operator"] = "sendReject"
  \/ mail[n]["Reject"] > 0
  \/ pc[n]["Reject"] = "rejectOutgoing"

-----------------------------------------------------------------------------
(***************************************************************************)
(* The inductive invariant, for the follow of n while nothing is disturbed.*)
(*                                                                         *)
(* Nobody undoes anything, and only the operator's command sends a Follow. *)
(***************************************************************************)
Orderly(n) ==
  /\ mail[n]["Undo"] = 0 /\ pc[n]["Undo"] = "idle"
  /\ pc[n]["operator"] \notin {"sendUndo", "clearFollower", "clearOutgoing"}
  /\ \A r \in Kinds \union {"Follow"} : pc[n][r] # "sendFollow"
  /\ pc[n]["operator"] = "storeBack" => out[n] = "none"

\* Nobody acts on a follow that n has not stored.
NotAsked(n) ==
  out[n] = "none" =>
    /\ followRow[n] = "absent" /\ pc[n]["operator"] # "sendFollow" /\ ~FollowComing(n)
    /\ ~request[Peer(n)] /\ ~follower[Peer(n)]
    /\ \A r \in Roles : pc[Peer(n)][r] # "add"

\* An Accept is sent after the promotion.
Promoted(n) == out[n] = "accepted" \/ AcceptComing(n) => follower[Peer(n)]

\* A Reject is sent by an operator.
Refused(n) ==
  out[n] = "rejected" \/ mail[n]["Reject"] > 0 \/ pc[n]["Reject"] # "idle" => Peer(n) \in refused

\* A follower whose follow is pending is told, or was refused.
Told(n) == out[n] = "pending" /\ follower[Peer(n)] => AcceptComing(n) \/ Peer(n) \in refused

\* A pending follow is on its way, waits for an answer, is being answered, or was
\* asked for again and not sent.
Pending(n) ==
  out[n] = "pending" =>
    \/ request[Peer(n)] \/ n \in refused \union unsent \/ (Peer(n) \in refused /\ follower[Peer(n)])
    \/ FollowComing(n) \/ AcceptComing(n) \/ RejectComing(n)

FollowInv(n) ==
  Orderly(n) /\ NotAsked(n) /\ Promoted(n) /\ Refused(n) /\ Told(n) /\ Pending(n)

HandshakeInv == TypeOK /\ (disturbed \/ \A n \in Nodes : FollowInv(n))
-----------------------------------------------------------------------------
(***************************************************************************)
(* There are a node and its peer, and nobody else.                         *)
(***************************************************************************)
LEMMA PeerFacts ==
  ASSUME NEW n \in Nodes
  PROVE  /\ Peer(n) \in Nodes /\ Peer(n) # n /\ Peer(Peer(n)) = n
         /\ \A m \in Nodes : m = n \/ m = Peer(n)
<1>1. IsFiniteSet(Nodes) /\ Cardinality(Nodes) = 2
  BY HandshakeAssumption
<1>2. IsFiniteSet(Nodes \ {n}) /\ Cardinality(Nodes \ {n}) = 1
  BY <1>1, FS_RemoveElement
<1>3. PICK p : Nodes \ {n} = {p}
  BY <1>2, FS_Singleton
<1>4. p \in Nodes /\ p # n /\ \A m \in Nodes : m = n \/ m = p
  BY <1>3
<1>5. Peer(n) = p
  BY <1>4 DEF Peer
<1>6. Peer(p) = n
  BY <1>4 DEF Peer
<1> QED BY <1>4, <1>5, <1>6

-----------------------------------------------------------------------------
(***************************************************************************)
(* The rows, the queues and the goroutines stay in their types.            *)
(***************************************************************************)
LEMMA GotoType ==
  ASSUME TypeOK, NEW n \in Nodes, NEW r \in Roles, NEW step \in Steps, Goto(n, r, step)
  PROVE  pc' \in [Nodes -> [Roles -> Steps]]
<1>1. pc \in [Nodes -> [Roles -> Steps]]
  BY DEF TypeOK
<1>2. [pc[n] EXCEPT ![r] = step] \in [Roles -> Steps]
  BY <1>1
<1> QED BY <1>1, <1>2 DEF Goto

LEMMA SendType ==
  ASSUME TypeOK, NEW n \in Nodes, NEW k \in Kinds, Send(n, k)
  PROVE  /\ mail' \in [Nodes -> [Kinds -> Nat]]
         /\ disturbed' \in BOOLEAN /\ events' \in Nat
         /\ UNCHANGED <<out, follower, request, seen, followRow, unsent, follows>>
<1>1. mail \in [Nodes -> [Kinds -> Nat]] /\ Peer(n) \in Nodes /\ disturbed \in BOOLEAN
      /\ events \in Nat
  BY PeerFacts DEF TypeOK
<1>2. CASE mail' = [mail EXCEPT ![Peer(n)][k] = @ + 1] /\ UNCHANGED <<events, disturbed>>
  <2>1. [mail[Peer(n)] EXCEPT ![k] = @ + 1] \in [Kinds -> Nat]
    BY <1>1
  <2> QED BY <1>1, <1>2, <2>1 DEF Send, state
<1>3. CASE Disturb /\ UNCHANGED mail
  BY <1>1, <1>3 DEF Send, state, Disturb, Event
<1> QED BY <1>2, <1>3 DEF Send

LEMMA TypeStep == TypeOK /\ [Next]_vars => TypeOK'
<1> SUFFICES ASSUME TypeOK, [Next]_vars PROVE TypeOK'
  OBVIOUS
<1> USE HandshakeAssumption DEF state, history
<1>0. /\ Kinds \union {"Follow", "operator"} = Roles
      /\ {"Accept", "Reject", "Undo"} = Kinds
  BY DEF Roles, Kinds
<1>1. CASE UNCHANGED vars
  BY <1>1 DEF vars, TypeOK
<1>2. ASSUME NEW n \in Nodes, NEW r \in Roles, UNCHANGED scenario, Promote(n, r)
      PROVE  TypeOK'
  <2>1. pc' \in [Nodes -> [Roles -> Steps]]
    BY <1>2, GotoType DEF Promote, Steps
  <2> QED BY <1>2, <2>1 DEF Promote, TypeOK
<1>3. ASSUME NEW n \in Nodes, NEW r \in Roles, UNCHANGED scenario, AddFollower(n, r)
      PROVE  TypeOK'
  <2>1. pc' \in [Nodes -> [Roles -> Steps]]
    BY <1>3, GotoType DEF AddFollower, Steps
  <2> QED BY <1>3, <2>1 DEF AddFollower, TypeOK
<1>4. ASSUME NEW n \in Nodes, NEW r \in Roles, UNCHANGED scenario, SendAccept(n, r)
      PROVE  TypeOK'
  <2>1. pc' \in [Nodes -> [Roles -> Steps]]
    BY <1>4, GotoType DEF SendAccept, Steps
  <2>2. Send(n, "Accept") /\ refused' = refused
    BY <1>4 DEF SendAccept
  <2> QED BY <1>0, <1>4, <2>1, <2>2, SendType DEF TypeOK
<1>5. ASSUME NEW n \in Nodes, NEW r \in Roles, UNCHANGED scenario, SendFollow(n, r)
      PROVE  TypeOK'
  <2>1. pc' \in [Nodes -> [Roles -> Steps]]
    BY <1>5, GotoType DEF SendFollow, Steps
  <2>2. followRow' \in [Nodes -> {"absent", "queued", "settled"}]
    BY <1>5 DEF SendFollow, TypeOK
  <2>3. disturbed' \in BOOLEAN
    <3>1. disturbed' = disturbed \/ disturbed' = TRUE
      BY <1>5 DEF SendFollow, Disturb
    <3> QED BY <3>1 DEF TypeOK
  <2>4. events' \in Nat
    <3>1. events' = events \/ events' = events + 1
      BY <1>5 DEF SendFollow, Disturb, Event
    <3> QED BY <3>1 DEF TypeOK
  <2> QED BY <1>5, <2>1, <2>2, <2>3, <2>4 DEF SendFollow, TypeOK
<1>6. ASSUME NEW n \in Nodes, UNCHANGED scenario, FollowBack(n) PROVE TypeOK'
  <2>1. pc' \in [Nodes -> [Roles -> Steps]]
    BY <1>0, <1>6, GotoType DEF FollowBack, Steps
  <2> QED BY <1>6, <2>1 DEF FollowBack, TypeOK
<1>7. ASSUME NEW n \in Nodes, UNCHANGED scenario, RejectFollowRequest(n) PROVE TypeOK'
  <2>1. pc' \in [Nodes -> [Roles -> Steps]]
    BY <1>0, <1>7, GotoType DEF RejectFollowRequest, Steps
  <2> QED BY <1>7, <2>1 DEF RejectFollowRequest, TypeOK
<1>8. ASSUME NEW n \in Nodes, UNCHANGED scenario, StoreBack(n) PROVE TypeOK'
  <2>1. pc' \in [Nodes -> [Roles -> Steps]]
    BY <1>0, <1>8, GotoType DEF StoreBack, Steps
  <2>2. out' \in [Nodes -> {"none", "pending", "accepted", "rejected"}] /\ follows' \in Nat
    BY <1>8 DEF StoreBack, AddOutgoingFollow, TypeOK
  <2> QED BY <1>8, <2>1, <2>2 DEF StoreBack, TypeOK
<1>9. ASSUME NEW n \in Nodes, UNCHANGED scenario, ClearFollower(n) PROVE TypeOK'
  <2>1. pc' \in [Nodes -> [Roles -> Steps]]
    BY <1>0, <1>9, GotoType DEF ClearFollower, Steps
  <2> QED BY <1>9, <2>1 DEF ClearFollower, TypeOK
<1>10. ASSUME NEW n \in Nodes, UNCHANGED scenario, RemoveOutgoingFollow(n) PROVE TypeOK'
  <2>1. pc' \in [Nodes -> [Roles -> Steps]]
    BY <1>0, <1>10, GotoType DEF RemoveOutgoingFollow, Steps
  <2> QED BY <1>10, <2>1 DEF RemoveOutgoingFollow, TypeOK
<1>11. ASSUME NEW n \in Nodes, UNCHANGED scenario, AddFollowRequest(n) PROVE TypeOK'
  <2>1. pc' \in [Nodes -> [Roles -> Steps]]
    BY <1>0, <1>11, GotoType DEF AddFollowRequest, Steps
  <2> QED BY <1>11, <2>1 DEF AddFollowRequest, TypeOK
<1>12. ASSUME NEW n \in Nodes, UNCHANGED scenario, AutoAccept(n) PROVE TypeOK'
  <2>1. pc' \in [Nodes -> [Roles -> Steps]]
    BY <1>0, <1>12, GotoType DEF AutoAccept, Steps
  <2> QED BY <1>12, <2>1 DEF AutoAccept, TypeOK
<1>13. ASSUME NEW n \in Nodes, UNCHANGED scenario, GetOutgoingFollow(n) PROVE TypeOK'
  <2>1. pc' \in [Nodes -> [Roles -> Steps]]
    BY <1>0, <1>13, GotoType DEF GetOutgoingFollow, Steps
  <2> QED BY <1>13, <2>1 DEF GetOutgoingFollow, TypeOK
<1>14. ASSUME NEW n \in Nodes, UNCHANGED scenario, AcceptOutgoingFollow(n) PROVE TypeOK'
  <2>1. pc' \in [Nodes -> [Roles -> Steps]]
    BY <1>0, <1>14, GotoType DEF AcceptOutgoingFollow, Steps
  <2> QED BY <1>14, <2>1 DEF AcceptOutgoingFollow, TypeOK
<1>15. ASSUME NEW n \in Nodes, UNCHANGED scenario, GetFollowRequest(n) PROVE TypeOK'
  <2>1. pc' \in [Nodes -> [Roles -> Steps]]
    BY <1>0, <1>15, GotoType DEF GetFollowRequest, Steps
  <2> QED BY <1>15, <2>1 DEF GetFollowRequest, TypeOK
<1>16. ASSUME NEW n \in Nodes, UNCHANGED scenario, RejectOutgoingFollow(n) PROVE TypeOK'
  <2>1. pc' \in [Nodes -> [Roles -> Steps]]
    BY <1>0, <1>16, GotoType DEF RejectOutgoingFollow, Steps
  <2> QED BY <1>16, <2>1 DEF RejectOutgoingFollow, TypeOK
<1>17. ASSUME NEW n \in Nodes, UNCHANGED scenario, DropRequest(n) PROVE TypeOK'
  <2>1. pc' \in [Nodes -> [Roles -> Steps]]
    BY <1>0, <1>17, GotoType DEF DropRequest, Steps
  <2> QED BY <1>17, <2>1 DEF DropRequest, TypeOK
<1>18. ASSUME NEW n \in Nodes, UNCHANGED scenario, ProcessUndo(n) PROVE TypeOK'
  <2>1. pc' \in [Nodes -> [Roles -> Steps]]
    BY <1>0, <1>18, GotoType DEF ProcessUndo, Steps
  <2> QED BY <1>18, <2>1 DEF ProcessUndo, TypeOK
<1>19. ASSUME NEW n \in Nodes, UNCHANGED scenario, AddFollow(n) PROVE TypeOK'
  <2>1. pc' \in [Nodes -> [Roles -> Steps]]
    BY <1>0, <1>19, GotoType DEF AddFollow, Steps
  <2>2. out' \in [Nodes -> {"none", "pending", "accepted", "rejected"}] /\ follows' \in Nat
    BY <1>19 DEF AddFollow, AddOutgoingFollow, TypeOK
  <2> QED BY <1>19, <2>1, <2>2 DEF AddFollow, TypeOK
<1>20. ASSUME NEW n \in Nodes, UNCHANGED scenario, AcceptFollow(n) PROVE TypeOK'
  <2>1. pc' \in [Nodes -> [Roles -> Steps]]
    BY <1>0, <1>20, GotoType DEF AcceptFollow, Steps
  <2> QED BY <1>20, <2>1 DEF AcceptFollow, TypeOK
<1>21. ASSUME NEW n \in Nodes, UNCHANGED scenario, RejectFollow(n) PROVE TypeOK'
  <2>1. pc' \in [Nodes -> [Roles -> Steps]]
    BY <1>0, <1>21, GotoType DEF RejectFollow, Steps
  <2> QED BY <1>21, <2>1 DEF RejectFollow, TypeOK
<1>22. ASSUME NEW n \in Nodes, UNCHANGED scenario, RemoveFollow(n) PROVE TypeOK'
  <2>1. pc' \in [Nodes -> [Roles -> Steps]]
    BY <1>0, <1>22, GotoType DEF RemoveFollow, Steps
  <2> QED BY <1>22, <2>1 DEF RemoveFollow, Disturb, Event, TypeOK
<1>23. ASSUME NEW n \in Nodes, UNCHANGED scenario, SendReject(n) PROVE TypeOK'
  <2>1. pc' \in [Nodes -> [Roles -> Steps]]
    BY <1>0, <1>23, GotoType DEF SendReject, Steps
  <2>2. Send(n, "Reject") /\ refused' \in SUBSET Nodes
    BY <1>23 DEF SendReject, TypeOK
  <2> QED BY <1>0, <1>23, <2>1, <2>2, SendType DEF TypeOK
<1>24. ASSUME NEW n \in Nodes, UNCHANGED scenario, SendUndo(n) PROVE TypeOK'
  <2>1. pc' \in [Nodes -> [Roles -> Steps]]
    BY <1>0, <1>24, GotoType DEF SendUndo, Steps
  <2>2. Send(n, "Undo") /\ refused' \in SUBSET Nodes
    BY <1>24 DEF SendUndo, TypeOK
  <2> QED BY <1>0, <1>24, <2>1, <2>2, SendType DEF TypeOK
<1>25. ASSUME NEW n \in Nodes, UNCHANGED scenario, ReceiveFollow(n) PROVE TypeOK'
  <2>1. pc' \in [Nodes -> [Roles -> Steps]]
    BY <1>0, <1>25, GotoType DEF ReceiveFollow, Steps
  <2>2. followRow' \in [Nodes -> {"absent", "queued", "settled"}] /\ events' \in Nat
    <3>1. followRow' = followRow \/ followRow' = [followRow EXCEPT ![Peer(n)] = "settled"]
      BY <1>25 DEF ReceiveFollow
    <3>2. events' = events \/ events' = events + 1
      BY <1>25 DEF ReceiveFollow, Event
    <3>3. Peer(n) \in Nodes
      BY PeerFacts
    <3>4. followRow' \in [Nodes -> {"absent", "queued", "settled"}]
      BY <3>1, <3>3 DEF TypeOK
    <3>5. events' \in Nat
      BY <3>2 DEF TypeOK
    <3> QED BY <3>4, <3>5
  <2>3. seen' \in [Nodes -> BOOLEAN]
    BY <1>25, Zenon DEF ReceiveFollow, TypeOK
  <2> QED BY <1>25, <2>1, <2>2, <2>3 DEF ReceiveFollow, TypeOK
<1>26. ASSUME NEW n \in Nodes, NEW k \in Kinds, UNCHANGED scenario, Receive(n, k) \/ Lose(n, k)
      PROVE  TypeOK'
  <2>1. mail' \in [Nodes -> [Kinds -> Nat]]
    <3>1. mail \in [Nodes -> [Kinds -> Nat]] /\ mail[n][k] \in Nat /\ mail[n][k] > 0
          /\ mail' = [mail EXCEPT ![n][k] = @ - 1]
      BY <1>26 DEF Receive, Lose, TypeOK
    <3>2. [mail[n] EXCEPT ![k] = @ - 1] \in [Kinds -> Nat]
      BY <3>1
    <3> QED BY <3>1, <3>2
  <2>2. CASE Receive(n, k)
    <3>1. FirstStep[k] \in Steps /\ k \in Roles
      BY <1>0 DEF FirstStep, Steps
    <3>2. pc' \in [Nodes -> [Roles -> Steps]]
      BY <2>2, <3>1, GotoType DEF Receive
    <3> QED BY <1>26, <2>1, <2>2, <3>2 DEF Receive, TypeOK
  <2>3. CASE Lose(n, k)
    BY <1>26, <2>1, <2>3 DEF Lose, Disturb, Event, TypeOK
  <2> QED BY <1>26, <2>2, <2>3
<1>27. ASSUME NEW n \in Nodes, UNCHANGED scenario, LoseFollow(n) PROVE TypeOK'
  BY <1>27 DEF LoseFollow, Disturb, Event, TypeOK
<1>28. ASSUME NEW n \in Nodes, UNCHANGED scenario, CleanupFollow(n) PROVE TypeOK'
  BY <1>28 DEF CleanupFollow, TypeOK
<1>29. ASSUME NEW n \in Nodes, UNCHANGED scenario, DeleteStaleOutgoingFollow(n) PROVE TypeOK'
  BY <1>29 DEF DeleteStaleOutgoingFollow, Disturb, Event, TypeOK
<1> QED
  BY <1>1, <1>2, <1>3, <1>4, <1>5, <1>6, <1>7, <1>8, <1>9, <1>10, <1>11, <1>12,
     <1>13, <1>14, <1>15, <1>16, <1>17, <1>18, <1>19, <1>20, <1>21, <1>22, <1>23,
     <1>24, <1>25, <1>26, <1>27, <1>28, <1>29
     DEF Next, Run, Deliver, Operator, InboxTask
-----------------------------------------------------------------------------
(***************************************************************************)
(* The invariant is kept by every step of a node n that does not disturb:  *)
(* for its own follow of the peer p, and for the peer's follow of n, in    *)
(* which n answers.                                                        *)
(***************************************************************************)
LEMMA NodeStep ==
  ASSUME TypeOK, NEW n \in Nodes, NEW p \in Nodes, p = Peer(n), p # n, Peer(p) = n,
         FollowInv(n), FollowInv(p), ~disturbed',
         \/ Operator(n) \/ InboxTask(n) \/ ReceiveFollow(n)
         \/ \E r \in Roles : \/ Promote(n, r) \/ AddFollower(n, r)
                             \/ SendAccept(n, r) \/ SendFollow(n, r)
         \/ \E k \in Kinds : Receive(n, k) \/ Lose(n, k)
         \/ AddFollow(n) \/ AcceptFollow(n) \/ RejectFollow(n) \/ RemoveFollow(n)
         \/ LoseFollow(n) \/ CleanupFollow(n) \/ DeleteStaleOutgoingFollow(n)
  PROVE  FollowInv(n)' /\ FollowInv(p)'
<1> USE DEF TypeOK, Goto, Roles, Kinds, history, state, FollowInv, Orderly, NotAsked, Promoted,
            Refused, Told, Pending, FollowComing, AcceptComing, RejectComing
<1>1. ASSUME NEW r \in Roles, Promote(n, r) PROVE FollowInv(n)' /\ FollowInv(p)'
  <2>1. FollowInv(n)'
    BY <1>1 DEF Promote
  <2>2. FollowInv(p)'
    BY <1>1 DEF Promote
  <2> QED BY <2>1, <2>2
<1>2. ASSUME NEW r \in Roles, AddFollower(n, r) PROVE FollowInv(n)' /\ FollowInv(p)'
  <2>1. FollowInv(n)'
    BY <1>2 DEF AddFollower
  <2>2. FollowInv(p)'
    BY <1>2 DEF AddFollower
  <2> QED BY <2>1, <2>2
<1>3. ASSUME NEW r \in Roles, SendAccept(n, r) PROVE FollowInv(n)' /\ FollowInv(p)'
  <2>1. FollowInv(n)'
    BY <1>3 DEF SendAccept, Send, Disturb
  <2>2. FollowInv(p)'
    BY <1>3 DEF SendAccept, Send, Disturb
  <2> QED BY <2>1, <2>2
<1>4. ASSUME NEW r \in Roles, SendFollow(n, r) PROVE FollowInv(n)' /\ FollowInv(p)'
  <2>1. FollowInv(n)'
    BY <1>4 DEF SendFollow, Disturb
  <2>2. FollowInv(p)'
    BY <1>4 DEF SendFollow, Disturb
  <2> QED BY <2>1, <2>2
<1>5. CASE FollowBack(n)
  <2>1. FollowInv(n)'
    BY <1>5 DEF FollowBack
  <2>2. FollowInv(p)'
    BY <1>5 DEF FollowBack
  <2> QED BY <2>1, <2>2
<1>6. CASE StoreBack(n)
  <2>1. FollowInv(n)'
    BY <1>6 DEF StoreBack, AddOutgoingFollow
  <2>2. FollowInv(p)'
    BY <1>6 DEF StoreBack, AddOutgoingFollow
  <2> QED BY <2>1, <2>2
<1>7. CASE RejectFollowRequest(n)
  <2>1. FollowInv(n)'
    BY <1>7 DEF RejectFollowRequest
  <2>2. FollowInv(p)'
    BY <1>7 DEF RejectFollowRequest
  <2> QED BY <2>1, <2>2
<1>8. CASE SendReject(n)
  <2>1. FollowInv(n)'
    BY <1>8 DEF SendReject, Send, Disturb
  <2>2. FollowInv(p)'
    <3>1. /\ UNCHANGED <<out, follower, request, followRow>>
          /\ refused' = refused \union {n} /\ pc' = [pc EXCEPT ![n]["operator"] = "idle"]
          /\ mail' = [mail EXCEPT ![p]["Reject"] = @ + 1] /\ pc[n]["operator"] = "sendReject"
      BY <1>8 DEF SendReject, Send, Disturb
    <3>2. mail'[p]["Reject"] > 0 /\ mail'[p]["Accept"] = mail[p]["Accept"]
          /\ mail'[p]["Undo"] = mail[p]["Undo"]
      BY <3>1
    <3>3. pc'[p] = pc[p] /\ \A r \in Roles \ {"operator"} : pc'[n][r] = pc[n][r]
      BY <3>1
    <3>4. pc'[n]["operator"] = "idle"
      BY <3>1
    <3> QED BY <3>1, <3>2, <3>3, <3>4
  <2> QED BY <2>1, <2>2
<1>9. CASE AddFollowRequest(n)
  <2>1. FollowInv(n)'
    BY <1>9 DEF AddFollowRequest
  <2>2. FollowInv(p)'
    BY <1>9 DEF AddFollowRequest
  <2> QED BY <2>1, <2>2
<1>10. CASE AutoAccept(n)
  <2>1. FollowInv(n)'
    BY <1>10 DEF AutoAccept
  <2>2. FollowInv(p)'
    BY <1>10 DEF AutoAccept
  <2> QED BY <2>1, <2>2
<1>11. CASE GetOutgoingFollow(n)
  <2>1. FollowInv(n)'
    BY <1>11 DEF GetOutgoingFollow
  <2>2. FollowInv(p)'
    BY <1>11 DEF GetOutgoingFollow
  <2> QED BY <2>1, <2>2
<1>12. CASE AcceptOutgoingFollow(n)
  <2>1. FollowInv(n)'
    BY <1>12 DEF AcceptOutgoingFollow
  <2>2. FollowInv(p)'
    BY <1>12 DEF AcceptOutgoingFollow
  <2> QED BY <2>1, <2>2
<1>13. CASE GetFollowRequest(n)
  <2>1. FollowInv(n)'
    BY <1>13 DEF GetFollowRequest
  <2>2. FollowInv(p)'
    BY <1>13 DEF GetFollowRequest
  <2> QED BY <2>1, <2>2
<1>14. CASE RejectOutgoingFollow(n)
  <2>1. FollowInv(n)'
    BY <1>14 DEF RejectOutgoingFollow
  <2>2. FollowInv(p)'
    BY <1>14 DEF RejectOutgoingFollow
  <2> QED BY <2>1, <2>2
<1>15. CASE DropRequest(n)
  <2>1. FollowInv(n)'
    BY <1>15 DEF DropRequest
  <2>2. FollowInv(p)'
    BY <1>15 DEF DropRequest
  <2> QED BY <2>1, <2>2
<1>16. CASE ReceiveFollow(n)
  <2>1. FollowInv(n)'
    BY <1>16 DEF ReceiveFollow, Event
  <2>2. FollowInv(p)'
    BY <1>16 DEF ReceiveFollow, Event
  <2> QED BY <2>1, <2>2
<1>17. ASSUME NEW k \in Kinds, Receive(n, k) PROVE FollowInv(n)' /\ FollowInv(p)'
  <2>1. CASE k = "Accept"
    BY <1>17, <2>1 DEF Receive, FirstStep
  <2>2. CASE k = "Reject"
    BY <1>17, <2>2 DEF Receive, FirstStep
  <2>3. k # "Undo"
    BY <1>17 DEF Receive
  <2> QED BY <2>1, <2>2, <2>3
<1>18. CASE AddFollow(n)
  <2>1. FollowInv(n)'
    BY <1>18 DEF AddFollow, AddOutgoingFollow
  <2>2. FollowInv(p)'
    BY <1>18 DEF AddFollow, AddOutgoingFollow
  <2> QED BY <2>1, <2>2
<1>19. CASE AcceptFollow(n)
  <2>1. FollowInv(n)'
    BY <1>19 DEF AcceptFollow
  <2>2. FollowInv(p)'
    BY <1>19 DEF AcceptFollow
  <2> QED BY <2>1, <2>2
<1>20. CASE RejectFollow(n)
  <2>1. FollowInv(n)'
    BY <1>20 DEF RejectFollow
  <2>2. FollowInv(p)'
    BY <1>20 DEF RejectFollow
  <2> QED BY <2>1, <2>2
<1>21. CASE CleanupFollow(n)
  <2>1. FollowInv(n)'
    BY <1>21 DEF CleanupFollow
  <2>2. FollowInv(p)'
    BY <1>21 DEF CleanupFollow
  <2> QED BY <2>1, <2>2
<1>22. ~SendUndo(n) /\ ~ClearFollower(n) /\ ~RemoveOutgoingFollow(n) /\ ~ProcessUndo(n)
  BY DEF SendUndo, ClearFollower, RemoveOutgoingFollow, ProcessUndo
<1>23. /\ ~RemoveFollow(n) /\ ~LoseFollow(n) /\ ~DeleteStaleOutgoingFollow(n)
      /\ \A k \in Kinds : ~Lose(n, k)
  BY DEF RemoveFollow, LoseFollow, DeleteStaleOutgoingFollow, Lose, Disturb
<1> HIDE DEF TypeOK, Goto, Roles, Kinds, history, state, FollowInv
<1> QED
  BY <1>1, <1>2, <1>3, <1>4, <1>5, <1>6, <1>7, <1>8, <1>9, <1>10, <1>11, <1>12,
     <1>13, <1>14, <1>15, <1>16, <1>17, <1>18, <1>19, <1>20, <1>21, <1>22,
     <1>23
     DEF Operator, InboxTask

(***************************************************************************)
(* The inductive invariant holds at the start and is kept: every step is   *)
(* one of a node, and one that disturbs leaves nothing to show.            *)
(***************************************************************************)
LEMMA HandshakeInvInductive ==
  /\ Init => HandshakeInv
  /\ HandshakeInv /\ [Next]_vars => HandshakeInv'
<1>1. ASSUME Init PROVE HandshakeInv
  <2>1. TypeOK
    BY <1>1 DEF Init, TypeOK, Steps
  <2>2. ASSUME NEW n \in Nodes PROVE FollowInv(n)
    <3>1. Peer(n) \in Nodes
      BY PeerFacts
    <3>2. /\ pc[n] = [r \in Roles |-> "idle"] /\ pc[Peer(n)] = [r \in Roles |-> "idle"]
          /\ mail[n] = [k \in Kinds |-> 0]
      BY <1>1, <3>1 DEF Init
    <3> QED
      BY <1>1, <3>1, <3>2 DEF Init, FollowInv, Orderly, NotAsked, Promoted, Refused, Told, Pending,
                              FollowComing, AcceptComing, RejectComing, Roles, Kinds
  <2> QED BY <2>1, <2>2 DEF HandshakeInv
<1>2. ASSUME HandshakeInv, [Next]_vars PROVE HandshakeInv'
  <2>1. TypeOK /\ TypeOK'
    BY <1>2, TypeStep DEF HandshakeInv
  <2>2. ASSUME ~disturbed', NEW q \in Nodes PROVE FollowInv(q)'
    <3>0. ~disturbed
      BY <1>2, <2>2 DEF Next, Run, Deliver, Operator, InboxTask, vars, history, Promote,
             AddFollower, SendAccept, SendFollow, Send, Disturb, FollowBack, StoreBack,
             RejectFollowRequest, SendReject, SendUndo, ClearFollower, RemoveOutgoingFollow,
             AddFollowRequest, AutoAccept, GetOutgoingFollow, AcceptOutgoingFollow,
             GetFollowRequest, RejectOutgoingFollow, DropRequest, ProcessUndo, ReceiveFollow,
             Receive, AddFollow, AcceptFollow, RejectFollow, RemoveFollow, LoseFollow, Lose,
             CleanupFollow, DeleteStaleOutgoingFollow
    <3>1. \A m \in Nodes : FollowInv(m)
      BY <1>2, <3>0 DEF HandshakeInv
    <3>2. CASE UNCHANGED vars
      <4>1. FollowInv(q)
        BY <3>1
      <4> QED
        BY <3>2, <4>1 DEF vars, state, FollowInv, Orderly, NotAsked, Promoted, Refused, Told,
                          Pending, FollowComing, AcceptComing, RejectComing, history
    <3>3. CASE Next
      <4>1. PICK n \in Nodes :
              \/ Run(n) \/ Deliver(n)
              \/ AddFollow(n) \/ AcceptFollow(n) \/ RejectFollow(n) \/ RemoveFollow(n)
              \/ LoseFollow(n) \/ \E k \in Kinds : Lose(n, k)
              \/ CleanupFollow(n) \/ DeleteStaleOutgoingFollow(n)
        BY <3>3 DEF Next
      <4>2. /\ Peer(n) \in Nodes /\ Peer(n) # n /\ Peer(Peer(n)) = n
            /\ q = n \/ q = Peer(n)
        BY PeerFacts
      <4>3. \A p \in {Peer(n)} : FollowInv(n)' /\ FollowInv(p)'
        BY <2>1, <2>2, <3>1, <4>1, <4>2, NodeStep DEF Run, Deliver
      <4> QED BY <4>2, <4>3
    <3> QED BY <1>2, <3>2, <3>3
  <2> QED BY <2>1, <2>2 DEF HandshakeInv
<1> QED BY <1>1, <1>2

(***************************************************************************)
(* The two nodes keep their types, in any modes.                           *)
(***************************************************************************)
THEOREM TypeCorrect == Spec => []TypeOK
<1>1. HandshakeInv => TypeOK
  BY DEF HandshakeInv
<1> QED BY <1>1, HandshakeInvInductive, PTL DEF Spec

(***************************************************************************)
(* Once nothing is on its way and nothing was lost, removed or expired,    *)
(* the two databases agree on every follow, in whatever order commands and *)
(* activities crossed and however often a Follow came: what one side has   *)
(* as accepted the other has promoted, what is pending waits for the other *)
(* operator but for the three exceptions of Agreement, and of a follow     *)
(* that was never asked for there is no trace.                             *)
(***************************************************************************)
THEOREM DatabasesAgree == Spec => []Agreement
<1>1. HandshakeInv => Agreement
  <2> SUFFICES ASSUME HandshakeInv, Quiet, ~disturbed, NEW n \in Nodes
               PROVE  /\ out[n] = "accepted" => follower[Peer(n)]
                      /\ out[n] = "pending" =>
                           \/ request[Peer(n)] \/ n \in refused \union unsent
                           \/ Peer(n) \in refused /\ follower[Peer(n)]
                      /\ out[n] = "none" => ~follower[Peer(n)] /\ ~request[Peer(n)]
    BY DEF Agreement
  <2>1. FollowInv(n) /\ Peer(n) \in Nodes
    BY PeerFacts DEF HandshakeInv
  <2>2. ~FollowComing(n) /\ ~AcceptComing(n) /\ ~RejectComing(n)
    BY <2>1 DEF Quiet, FollowComing, AcceptComing, RejectComing, Roles, Kinds
  <2> QED BY <2>1, <2>2 DEF FollowInv, NotAsked, Promoted, Pending
<1> QED BY <1>1, HandshakeInvInductive, PTL DEF Spec
=============================================================================
