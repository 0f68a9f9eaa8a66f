--------------------------- MODULE MCDeliveryQueue ---------------------------
(* Instances of DeliveryQueue for TLC: which domain each delivery goes to. *)
EXTENDS DeliveryQueue, TLC

CONSTANTS d1, d2, d3, x1

\* Two deliveries to one domain.
OneDomain == d1 :> x1 @@ d2 :> x1

\* One delivery to a domain, one to an inbox without host.
PeerAndBareInbox == d1 :> x1 @@ d3 :> NoDomain

\* Deliveries to the same domain are interchangeable.
Symmetry == Permutations({d1, d2})
=============================================================================
