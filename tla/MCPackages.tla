------------------------------ MODULE MCPackages ------------------------------
(* Instances of Packages for TLC. *)
EXTENDS Packages, TLC

Budget(p, o, f) == [publish |-> p, other |-> o, fail |-> f]

PackageBudgets == {Budget(2, 1, 0), Budget(2, 0, 1), Budget(1, 2, 0), Budget(1, 1, 1)}

Symmetry == Permutations(Versions) \union Permutations(Contents) \union Permutations(Procs)
=============================================================================
