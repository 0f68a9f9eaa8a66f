-------------------------- MODULE MCFederatedContent --------------------------
(* Instances of FederatedContent for TLC. *)
EXTENDS FederatedContent, TLC

Budget(p, d, e, r) == [pushes |-> p, deletes |-> d, events |-> e, rival |-> r]

ContentBudgets ==
  {Budget(2, 1, 0, 0), Budget(1, 1, 1, 1), Budget(2, 0, 1, 1), Budget(1, 0, 2, 1)}

Symmetry ==
  Permutations(Digests) \union Permutations(Requests) \union Permutations(Workers)
=============================================================================
