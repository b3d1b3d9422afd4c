------------------------------ MODULE Waiting ------------------------------
(***************************************************************************)
(* The time that GET and HEAD take when a variant has no row yet or is     *)
(* pending: the request that inserts the row generates the variant inline  *)
(* under SYNC_TRANSFORM_TIMEOUT, every other one polls the row for as long *)
(* (waitOrSync) and then generates it too.  Time goes by in ticks and a    *)
(* statement takes less than one; Resolve has the order of the single      *)
(* calls, which are one step here.  One variant.                           *)
(***************************************************************************)
EXTENDS FaultBudget

CONSTANTS Peers,
          Timeout,          \* SYNC_TRANSFORM_TIMEOUT
          PollInterval      \* peerReadyPollInterval

ASSUME WaitingAssumption == {Timeout, PollInterval} \subseteq Nat \ {0}

VARIABLES row,              \* the variant: "absent", "pending", "ready", "failed",
                            \*   or "gone" after a DELETE of its image
          settled,          \* ticks that row has been ready or failed
          step,             \* where a request is
          waited,           \* resolveResult.waited
          age,              \* ticks since the request came
          timer,            \* ticks of its present sleep or generation
          code              \* its HTTP status, 0 before the answer

waitVars == <<row, settled, step, waited, age, timer, code, faults>>
peerVars == <<step, waited, age, timer, code>>

WaitTypeOK == /\ row \in {"absent", "pending", "ready", "failed", "gone"}
              /\ settled \in 0..PollInterval + 1
              /\ step \in [Peers -> {"away", "looking", "sleeping", "last", "generating", "done"}]
              /\ waited \in [Peers -> BOOLEAN]
              /\ age \in [Peers -> Nat] /\ timer \in [Peers -> Nat]
              /\ code \in [Peers -> {0, 200, 404, 422, 500, 503}]
              /\ faults \in 0..MaxFaults

WaitInit == /\ InitFaults
            /\ row = "absent" /\ settled = 0
            /\ step = [r \in Peers |-> "away"]
            /\ waited = [r \in Peers |-> FALSE]
            /\ age = [r \in Peers |-> 0] /\ timer = [r \in Peers |-> 0]
            /\ code = [r \in Peers |-> 0]
-----------------------------------------------------------------------------
WaitGoto(r, next) == /\ step' = [step EXCEPT ![r] = next]
                     /\ timer' = [timer EXCEPT ![r] = 0]
                     /\ UNCHANGED <<code, age>>

WaitAnswer(r, status) == /\ step' = [step EXCEPT ![r] = "done"]
                         /\ code' = [code EXCEPT ![r] = status]
                         /\ UNCHANGED <<age, timer>>

WaitAnswerTerminal(r) == \/ row = "ready" /\ WaitAnswer(r, 200)
                         \/ row = "failed" /\ WaitAnswer(r, 422)

Terminal(status) == status \in {"ready", "failed"}

SetRow(status) == /\ row' = status
                  /\ settled' = IF Terminal(row) /\ Terminal(status) THEN settled ELSE 0

(* resolveVariant up to the choice between generating and waiting. *)
WaitArrive(r) ==
    /\ step[r] = "away"
    /\ \/ row = "absent" /\ SetRow("pending") /\ WaitGoto(r, "generating") /\ UNCHANGED waited
       \/ /\ row = "pending"
          /\ WaitGoto(r, "looking")
          /\ waited' = [waited EXCEPT ![r] = TRUE]
          /\ UNCHANGED <<row, settled>>
       \/ WaitAnswerTerminal(r) /\ UNCHANGED <<row, settled, waited>>
       \/ row = "gone" /\ WaitAnswer(r, 404) /\ UNCHANGED <<row, settled, waited>>
    /\ UNCHANGED faults

(* Mutant of Look: a variant that is gone is answered 204.                  *)
LookAnswersNoContent(r) == /\ step[r] = "looking"
                           /\ \/ row = "pending" /\ WaitGoto(r, "sleeping")
                              \/ WaitAnswerTerminal(r)
                              \/ row = "gone" /\ WaitAnswer(r, 204)
                           /\ UNCHANGED <<row, settled, waited, faults>>

(* A round of waitOrSync's loop: look at the row, and sleep if it is pending. *)
Look(r) == /\ step[r] = "looking"
           /\ \/ row = "pending" /\ WaitGoto(r, "sleeping")
              \/ WaitAnswerTerminal(r)
              \/ row = "gone" /\ WaitAnswer(r, 404)
           /\ UNCHANGED <<row, settled, waited, faults>>

(* Mutant of TimeLeft: the deadline counts from the last look.              *)
TimeLeftSinceLook(r) == timer[r] < Timeout

(* Mutant of TimeLeft: no round begins that would end after the deadline.   *)
TimeLeftForARound(r) == age[r] + PollInterval < Timeout

(* time.Now().Before(deadline), and remaining > 0 *)
TimeLeft(r) == age[r] < Timeout

(* Mutant of Due: the pause grows with the time that the request has waited. *)
DueBackingOff(r) == timer[r] >= PollInterval /\ 2 * timer[r] >= age[r]

(* timer.C *)
Due(r) == timer[r] = PollInterval

Wake(r) == /\ step[r] = "sleeping"
           /\ Due(r)
           /\ WaitGoto(r, IF TimeLeft(r) THEN "looking" ELSE "last")
           /\ UNCHANGED <<row, settled, waited, faults>>

LastLook(r) == /\ step[r] = "last"
               /\ \/ row = "pending" /\ WaitGoto(r, "generating")
                  \/ WaitAnswerTerminal(r)
                  \/ row = "gone" /\ WaitAnswer(r, 503)
               /\ UNCHANGED <<row, settled, waited, faults>>

(* syncGenerate ends within its timeout, in whatever way.                   *)
SyncGenerate(r) ==
    /\ step[r] = "generating"
    /\ \/ row # "gone" /\ SetRow("ready") /\ WaitAnswer(r, 200)
       \/ timer[r] < Timeout /\ WaitAnswer(r, 500) /\ UNCHANGED <<row, settled>>
       \/ timer[r] = Timeout /\ WaitAnswer(r, 503) /\ UNCHANGED <<row, settled>>
    /\ UNCHANGED <<waited, faults>>

(* The context of a request is done: select in a sleep, the transform fails. *)
Leave(r) == /\ \/ step[r] = "sleeping" /\ code' = [code EXCEPT ![r] = 503]
               \/ step[r] = "generating" /\ code' = [code EXCEPT ![r] = 500]
            /\ step' = [step EXCEPT ![r] = "done"]
            /\ Fault
            /\ UNCHANGED <<row, settled, waited, age, timer>>

RequestStep(r) == WaitArrive(r) \/ Look(r) \/ Wake(r) \/ LastLook(r) \/ SyncGenerate(r) \/ Leave(r)
-----------------------------------------------------------------------------
(* What others do to the row: a worker, and a DELETE of the image. *)
WorkerMarks == /\ row = "pending"
               /\ \E status \in {"ready", "failed"} : SetRow(status)
               /\ UNCHANGED <<peerVars, faults>>

ImageDeleted == /\ row # "gone"
                /\ SetRow("gone")
                /\ UNCHANGED <<peerVars, faults>>

(* A step that needs no time has been taken before the next tick. *)
Waits(r) == \/ step[r] \in {"away", "done"}
            \/ step[r] = "sleeping" /\ ~Due(r)
            \/ step[r] = "generating" /\ timer[r] < Timeout

Running(r) == step[r] \in {"sleeping", "generating"}

WaitTick == /\ \A r \in Peers : Waits(r)
            /\ \E r \in Peers : Running(r)
            /\ age' = [r \in Peers |-> IF Running(r) THEN age[r] + 1 ELSE age[r]]
            /\ timer' = [r \in Peers |-> IF Running(r) THEN timer[r] + 1 ELSE timer[r]]
            /\ settled' = IF Terminal(row) /\ settled <= PollInterval
                          THEN settled + 1 ELSE settled
            /\ UNCHANGED <<row, step, waited, code, faults>>

WaitNext == (\E r \in Peers : RequestStep(r)) \/ WorkerMarks \/ ImageDeleted \/ WaitTick

WaitSpec == WaitInit /\ [][WaitNext]_waitVars
-----------------------------------------------------------------------------
(* No request takes longer than two timeouts and a pause: the wait and the  *)
(* generation after it have one each (handlers.go waitOrSync).              *)
EndsWithinTwoTimeouts == \A r \in Peers : age[r] < 2 * Timeout + PollInterval

(* Whoever made the variant ready or failed, a request that waits for it    *)
(* sleeps on for one pause at most.                                         *)
NoticedWithinAPause == \A r \in Peers :
    step[r] = "sleeping" /\ Terminal(row) => settled <= PollInterval

(* A request that waited generates only when every inline generation that   *)
(* was under way when it came has used its time up: the requests for a cold *)
(* variant do not all generate it while the first of them still may.        *)
WaitersGenerateLast == \A r, first \in Peers :
    /\ r # first
    /\ step[r] = "generating" /\ waited[r]
    /\ step[first] = "generating" /\ timer[first] >= age[r]
    => timer[first] = Timeout
=============================================================================
