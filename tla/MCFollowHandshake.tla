--------------------------- MODULE MCFollowHandshake ---------------------------
(* Instances of FollowHandshake for TLC: the nodes' auto-accept modes. *)
EXTENDS FollowHandshake, TLC

CONSTANTS a, b

Scenario(modeA, modeB, f, e) == [mode |-> a :> modeA @@ b :> modeB, follows |-> f, events |-> e]

\* One node in mutual mode and one whose operator answers, with one event; two
\* in mutual mode; one that accepts everybody, with a third follow, so that one
\* of the operators asks again.
Pairs == {Scenario("none", "mutual", 2, 1), Scenario("mutual", "mutual", 2, 0),
          Scenario("all", "none", 3, 0)}
=============================================================================
