------------------------ MODULE MCInstanceLifecycle ------------------------
(* Small instances of InstanceLifecycle for TLC. *)
EXTENDS InstanceLifecycle, TLC

\* Ids, processes and names are interchangeable: the model compares them for
\* equality only.
Symmetry == Permutations(Procs) \cup Permutations(Ids) \cup
            Permutations(VolIds) \cup Permutations(Names)
=============================================================================
