------------------------------- MODULE MCInbox -------------------------------
(* Instances of Inbox for TLC: one sender and what it sends. *)
EXTENDS Inbox, TLC

CONSTANTS f, u, c

\* A Follow, its Undo and a piece of content.
SenderKinds == f :> "Follow" @@ u :> "Undo" @@ c :> "Content"
=============================================================================
