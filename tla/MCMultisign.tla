---------------------------- MODULE MCMultisign ----------------------------
(* Owners on one device; arrays that reach the limit and pass it.         *)
EXTENDS Multisign, TLC

Symmetry == Permutations(Owner) \cup Permutations(Device)
=============================================================================
