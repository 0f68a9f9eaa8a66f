--------------------------- MODULE ActivityDelivery ---------------------------
(***************************************************************************)
(* One node's delivery queue, as ReliableDelivery describes it, sending to *)
(* another node's Inbox over HTTP.  A POST that the sender has given up on *)
(* may still be running at the receiver when the retry arrives.            *)
(***************************************************************************)
EXTENDS Inbox

CONSTANTS MaxAttempts

ASSUME LinkAssumption == MaxAttempts \in Nat \ {0}

VARIABLES
  status, attempts, accepted,  \* the sender's rows: see ReliableDelivery
  sending                      \* the POST the sender waits for, per activity

Sender == INSTANCE ReliableDelivery WITH Deliveries <- Activities

linkVars == <<vars, status, attempts, accepted, sending>>

LinkTypeOK ==
  /\ TypeOK
  /\ status \in [Activities -> {"absent", "pending", "delivered", "failed"}]
  /\ attempts \in [Activities -> 0..MaxAttempts]
  /\ accepted \in [Activities -> BOOLEAN]
  /\ sending \in [Activities -> Requests \union {Nothing}]

LinkInit ==
  /\ Init
  /\ Sender!Init
  /\ sending = [a \in Activities |-> Nothing]
-----------------------------------------------------------------------------
\* The publisher enqueues an activity.
Publish(a) ==
  /\ Sender!Enqueue(a)
  /\ UNCHANGED <<vars, sending>>

\* deliver POSTs it.
Post(a, r) ==
  /\ status[a] = "pending" /\ sending[a] = Nothing
  /\ Receive(r, a)
  /\ sending' = [sending EXCEPT ![a] = r]
  /\ UNCHANGED <<status, attempts, accepted>>

\* DeliverActivity: an answer below 400 is a success.
IsSuccess(ans) == ans \in {"accepted", "duplicate", "dropped"}

(***************************************************************************)
(* The receiver answers.  If the sender still waits for this POST it       *)
(* learns of the outcome; otherwise the answer is lost on it.              *)
(***************************************************************************)
Answered(r) ==
  /\ Finish(r)
  /\ LET a == act[r] IN
     /\ accepted' = [accepted EXCEPT ![a] = @ \/ (IsSuccess(answer[r]) /\ status[a] = "pending")]
     /\ IF sending[a] # r
          THEN UNCHANGED <<status, attempts, sending>>
          ELSE /\ sending' = [sending EXCEPT ![a] = Nothing]
               /\ attempts' = [attempts EXCEPT ![a] = @ + 1]
               /\ status' = [status EXCEPT ![a] =
                    IF IsSuccess(answer[r]) THEN "delivered"
                    ELSE IF attempts[a] + 1 = MaxAttempts THEN "failed" ELSE "pending"]

\* The sender gives up waiting, or its process is restarted.
Timeout(a) ==
  /\ sending[a] # Nothing
  /\ sending' = [sending EXCEPT ![a] = Nothing]
  /\ Sender!FailAttempt(a)
  /\ UNCHANGED vars

Handle(r) ==
  /\ Verify(r) \/ GetFollow(r) \/ GetFollowRequest(r) \/ InsertActivityIfNew(r) \/ Enqueue(r)
  /\ UNCHANGED <<status, attempts, accepted, sending>>

Work(w) ==
  /\ Take(w) \/ Dispatch(w)
  /\ UNCHANGED <<status, attempts, accepted, sending>>

LinkNext ==
  \/ \E a \in Activities : Publish(a) \/ Timeout(a)
  \/ \E a \in Activities, r \in Requests : Post(a, r)
  \/ \E r \in Requests : Handle(r) \/ Answered(r)
  \/ \E w \in Workers : Work(w)

\* Handlers and workers are goroutines; a sender retries and times out.
LinkFairness ==
  /\ \A r \in Requests : WF_linkVars(Handle(r)) /\ WF_linkVars(Answered(r))
  /\ \A w \in Workers : WF_linkVars(Work(w))
  /\ \A a \in Activities : WF_linkVars(Timeout(a))
  /\ \A a \in Activities : WF_linkVars(\E r \in Requests : Post(a, r))

LinkSpec == LinkInit /\ [][LinkNext]_linkVars
FairLinkSpec == LinkSpec /\ LinkFairness
-----------------------------------------------------------------------------
(***************************************************************************)
(* What the sender's "delivered" means at the other end, while the         *)
(* receiver lives: the activity is claimed, queued, being dispatched, or   *)
(* was dispatched.                                                         *)
(***************************************************************************)
DeliveredNotLost ==
  \A a \in Activities : status[a] = "delivered" => Kept(a)

(***************************************************************************)
(* End to end: a published activity is dispatched by the peer or the       *)
(* sender knows that it failed.                                            *)
(***************************************************************************)
ProcessedOrFailed ==
  \A a \in Activities :
    status[a] = "pending" ~> (dispatched[a] > 0 \/ status[a] = "failed")
=============================================================================
