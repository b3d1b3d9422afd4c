----------------------------- MODULE MCAnswers -----------------------------
(***************************************************************************)
(* Waiting, Readiness and Params as the three parts of one specification.  *)
(* They share nothing, so a behaviour is one of its parts', which the      *)
(* initial state chooses; the others rest.  That keeps the number of       *)
(* states at the sum of theirs.                                            *)
(***************************************************************************)
EXTENDS Waiting, Readiness, Params, TLC

VARIABLE part               \* the part that this behaviour is of

(* Every kind of accepted query, a number spelled in two ways, and one      *)
(* query for each reason to refuse it.                                      *)
MCNumerals == {"10", "010", "80", "0", "-10", "101", "ten"}
MCAtoi == ("10" :> 10) @@ ("010" :> 10) @@ ("80" :> 80) @@ ("0" :> 0)
          @@ ("-10" :> -10) @@ ("101" :> 101) @@ ("ten" :> NaN)

Blank == [w |-> "", h |-> "", q |-> "", crop |-> "", fit |-> ""]

MCQueries == [w : {"", "10"}, h : {""}, q : {"", "80"}, crop : {"", "center", "top"},
              fit : {"", "cover", "contain"}]
             \cup {[Blank EXCEPT !.w = "010"], [Blank EXCEPT !.w = "80", !.q = "10"],
                   [Blank EXCEPT !.h = "10"], [Blank EXCEPT !.w = "10", !.h = "10"],
                   [Blank EXCEPT !.h = "10", !.fit = "fill"],
                   [Blank EXCEPT !.w = "10", !.crop = "left"]}
             \cup {[Blank EXCEPT !.w = "0"], [Blank EXCEPT !.h = "-10"],
                   [Blank EXCEPT !.h = "ten"], [Blank EXCEPT !.q = "101"],
                   [Blank EXCEPT !.crop = "middle"], [Blank EXCEPT !.fit = "stretch"]}
-----------------------------------------------------------------------------
waitPart == <<row, settled, peerVars>>
readyPart == <<depVars, probeVars, inspect, leftover>>
vars == <<part, waitPart, readyPart, paramVars, faults>>

Init == /\ part \in {"wait", "ready", "params"}
        /\ WaitInit /\ ReadyInit /\ ParamsInit
        /\ part # "params" => query = [g \in Gets |-> Blank]

Next == /\ \/ part = "wait" /\ WaitNext /\ UNCHANGED <<readyPart, paramVars>>
           \/ part = "ready" /\ ReadyNext /\ UNCHANGED <<waitPart, paramVars>>
           \/ part = "params" /\ ParamsNext /\ UNCHANGED <<waitPart, readyPart, faults>>
        /\ UNCHANGED part

Spec == Init /\ [][Next]_vars /\ ReadyFairness

(* Types of the parts.                                                      *)
TypeOK == WaitTypeOK /\ ReadyTypeOK
=============================================================================
