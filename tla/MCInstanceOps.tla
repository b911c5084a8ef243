----------------------------- MODULE MCInstanceOps -----------------------------
(* Instances of InstanceOps for TLC.                                       *)
EXTENDS InstanceOps, TLC

CONSTANTS i1, i2, i3, u1, u2, k1, k2

MCGiven == i1 :> <<u1, 1>> @@ i2 :> <<u2, 1>>
MCGivenKeys == u1 :> {k1} @@ u2 :> {k2}
\* The two users, with all that is theirs, may change places; what NoRow says
\* of an owner is never read.
MCSymmetry == {i1 :> i2 @@ i2 :> i1 @@ u1 :> u2 @@ u2 :> u1 @@ k1 :> k2 @@ k2 :> k1}
=============================================================================
