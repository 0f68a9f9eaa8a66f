--------------------------- MODULE MCBlobLifecycle ---------------------------
(* Instances of BlobLifecycle for TLC: which layers the images share. *)
EXTENDS BlobLifecycle, TLC

CONSTANTS m1, m2, d1

OneLayer    == m1 :> {d1}
SharedLayer == m1 :> {d1} @@ m2 :> {d1}

PushSymmetry == Permutations(Clients)
=============================================================================
