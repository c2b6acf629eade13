--------------------------- MODULE MCRequestStore ---------------------------
(* Small instances of RequestStore for TLC. *)
EXTENDS RequestStore, TLC

CONSTANTS q1, q2

\* One request that is planned, authorized and then started or withdrawn, and
\* one that is only created; for liveness, the first is only authorized.
Bounds      == q1 :> 5 @@ q2 :> 1
ShortBounds == q1 :> 4 @@ q2 :> 1

Symmetry == Permutations(Copies) \cup Permutations(Saves)
=============================================================================
