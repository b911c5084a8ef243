----------------------------- MODULE MCAutoStop -----------------------------
(* AutoStop for TLC: instances are interchangeable, and so are requests. *)
EXTENDS AutoStop, TLC

Symmetry == Permutations(Insts) \cup Permutations(Procs)
=============================================================================
