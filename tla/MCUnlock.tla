------------------------------ MODULE MCUnlock ------------------------------
(* Unlock with the per-slug limit above the per-address one, as in the code. *)
EXTENDS TLC, Unlock

Limits == [l \in Limiter |-> IF l = "perSlug" THEN 2 ELSE 1]

Symmetry == UNION {Permutations(S) : S \in {Attempt, Slug, IP}}
=============================================================================
