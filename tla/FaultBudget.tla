---- MODULE FaultBudget ----
(***************************************************************************)
(* The faults of the surroundings: a process that crashes, a connection    *)
(* that drops, a statement whose reply is lost, an object the store keeps  *)
(* although it was told to delete it.  Such faults are not rate-limited by *)
(* the code, so the model gives all of them together a finite budget: it   *)
(* bounds the counters they drive and lets "eventually" mean "once the     *)
(* faults stop".  Failures that the code itself bounds (a failed transform,*)
(* an expired deadline, a failed statement of an HTTP request) cost        *)
(* nothing and may happen at every step.                                   *)
(***************************************************************************)
EXTENDS Naturals

CONSTANT MaxFaults          \* how many faults one behaviour may contain

ASSUME MaxFaultsAssumption == MaxFaults \in Nat

VARIABLE faults             \* the faults that have happened so far

InitFaults == faults = 0

Fault == /\ faults < MaxFaults
         /\ faults' = faults + 1
====
