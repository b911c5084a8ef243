------------------------------ MODULE MCKeyRing ------------------------------
(* Instances of KeyRing for TLC.                                           *)
EXTENDS KeyRing, TLC

Symmetry == Permutations(Procs) \cup Permutations(UserKeys) \cup Permutations(PubKeys)
=============================================================================
