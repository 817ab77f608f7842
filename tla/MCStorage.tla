----------------------------- MODULE MCStorage -----------------------------
(* Instances of Storage: a hut, which is no storage site once it is built,   *)
(* and a store, which is one.                                                *)
EXTENDS Storage, TLC

CONSTANTS hut, store, wood, us, them, here, there

\* The two grounds are interchangeable.
Symmetry == Permutations(Place)
=============================================================================
