---------------------------- MODULE MCLifecycle ----------------------------
(* Instances of Lifecycle: image i1 has the variant v1; u1 uploads image i2  *)
(* and the copy c1 makes image i3.                                           *)
EXTENDS Lifecycle, TLC

CONSTANTS i1, i2, i3, u1, c1, v1

MCImageOf == [v \in Variants |-> i1]
MCKeyRank == [v \in Variants |-> 1]
MCNewId == (u1 :> i2) @@ (c1 :> i3) 

MCSymmetry == Permutations(Deleters)
=============================================================================
