--------------------------- MODULE ReliableDelivery ---------------------------
(***************************************************************************)
(* What the delivery queue promises a publisher: an enqueued activity is   *)
(* attempted until the peer's inbox has accepted it or MaxAttempts         *)
(* attempts are used up, it is reported delivered only if the peer did     *)
(* accept it, and it is never dropped in between.  Delivery is at least    *)
(* once: the peer may accept a delivery several times.                     *)
(***************************************************************************)
EXTENDS Naturals

CONSTANTS Deliveries, MaxAttempts

VARIABLES
  status,    \* "absent", "pending", "delivered", "failed"
  attempts,  \* attempts accounted for
  accepted   \* the peer's inbox has answered OK to this delivery

ledger == <<status, attempts, accepted>>

Init ==
  /\ status = [d \in Deliveries |-> "absent"]
  /\ attempts = [d \in Deliveries |-> 0]
  /\ accepted = [d \in Deliveries |-> FALSE]

Enqueue(d) ==
  /\ status[d] = "absent"
  /\ status' = [status EXCEPT ![d] = "pending"]
  /\ UNCHANGED <<attempts, accepted>>

\* The peer takes the activity; the sender may or may not learn of it.
PeerAccepts(d) ==
  /\ status[d] = "pending"
  /\ accepted' = [accepted EXCEPT ![d] = TRUE]
  /\ UNCHANGED <<status, attempts>>

Confirm(d) ==
  /\ status[d] = "pending"
  /\ accepted[d]
  /\ attempts[d] < MaxAttempts
  /\ status' = [status EXCEPT ![d] = "delivered"]
  /\ attempts' = [attempts EXCEPT ![d] = @ + 1]
  /\ UNCHANGED accepted

FailAttempt(d) ==
  /\ status[d] = "pending"
  /\ attempts[d] < MaxAttempts
  /\ attempts' = [attempts EXCEPT ![d] = @ + 1]
  /\ status' = [status EXCEPT ![d] = IF attempts[d] + 1 = MaxAttempts
                                       THEN "failed" ELSE "pending"]
  /\ UNCHANGED accepted

\* Settled deliveries are forgotten, any number at a time.
Forget(S) ==
  /\ \A d \in S : status[d] \in {"delivered", "failed"}
  /\ status' = [d \in Deliveries |-> IF d \in S THEN "absent" ELSE status[d]]
  /\ attempts' = [d \in Deliveries |-> IF d \in S THEN 0 ELSE attempts[d]]
  /\ accepted' = [d \in Deliveries |-> IF d \in S THEN FALSE ELSE accepted[d]]

Next ==
  \/ \E d \in Deliveries : Enqueue(d) \/ PeerAccepts(d) \/ Confirm(d) \/ FailAttempt(d)
  \/ \E S \in SUBSET Deliveries : Forget(S)

Spec == Init /\ [][Next]_ledger
=============================================================================
