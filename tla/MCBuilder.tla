----------------------------- MODULE MCBuilder -----------------------------
(* Instances of Builder: a hut with hit points and a shed without.           *)
EXTENDS Builder

CONSTANTS hut, shed, wood, us, here, none
=============================================================================
