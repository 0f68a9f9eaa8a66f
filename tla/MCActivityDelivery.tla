-------------------------- MODULE MCActivityDelivery --------------------------
(* Instances of ActivityDelivery for TLC. *)
EXTENDS ActivityDelivery, TLC

CONSTANTS f, u, c, e

FollowAndContent == f :> "Follow" @@ c :> "Content"
TwoContents == c :> "Content" @@ e :> "Content"
=============================================================================
