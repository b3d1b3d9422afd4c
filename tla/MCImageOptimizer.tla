-------------------------- MODULE MCImageOptimizer --------------------------
(* Instances of ImageOptimizer: image i1 has the variants v1 and v2, whose   *)
(* keys are listed in this order, and image i2 has the variant v3.           *)
EXTENDS ImageOptimizer, TLC

CONSTANTS i1, i2, v1, v2, v3

MCImageOf == [v \in Variants |-> IF v = v3 THEN i2 ELSE i1]
MCKeyRank == [v \in Variants |-> IF v = v2 THEN 2 ELSE 1]

(* Requests, workers and deletes are told apart by nothing but their names.  *)
MCSymmetry == Permutations(Requests) \cup Permutations(Workers) \cup Permutations(Deleters)
=============================================================================
