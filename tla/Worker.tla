------------------------------- MODULE Worker -------------------------------
(***************************************************************************)
(* internal/worker: Consume, handleDelivery and process.  wpc[w] is the    *)
(* next call of the worker; "ack" and "nack" are the acknowledgement that  *)
(* handleDelivery makes of process's result, a step of its own because the *)
(* worker may die between its last statement and it.                       *)
(***************************************************************************)
EXTENDS VariantGen

CONSTANT MaxAttempts        \* worker.maxAttempts

ASSUME WorkerAssumption == MaxAttempts \in Nat \ {0}

VARIABLES wpc,              \* the next call of a worker
          tries             \* what IncrAttempts returned to it

workerVars == <<wpc, tries>>

WorkerSteps == {"idle", "lookup", "incr", "gen", "giveUp", "backoff", "ack", "nack"}

WorkerTypeOK == /\ wpc \in [Workers -> WorkerSteps]
                /\ tries \in [Workers -> Nat]

WorkerInit == /\ wpc = [w \in Workers |-> "idle"]
              /\ tries = [w \in Workers |-> 0]

WGoto(w, step) == /\ wpc' = [wpc EXCEPT ![w] = step]
                  /\ UNCHANGED tries

-----------------------------------------------------------------------------
Receive(w, v) == /\ wpc[w] = "idle"
                 /\ Deliver(w, v)
                 /\ job' = [job EXCEPT ![w] = v]
                 /\ WGoto(w, "lookup")
                 /\ UNCHANGED <<storeVars, blobVars, gen, faults>>

(* Mutant of Lookup: a row that is gone is an error like any other.         *)
LookupRequeues(w) ==
    /\ wpc[w] = "lookup"
    /\ WGoto(w, CASE status[job[w]] = "pending" -> "incr"
                  [] status[job[w]] = "absent"  -> "nack"
                  [] OTHER                      -> "ack")
    /\ UNCHANGED <<storeVars, blobVars, brokerVars, genVars, faults>>

(* GetVariantByID: a row that is gone, ready or failed needs no work. *)
Lookup(w) == /\ wpc[w] = "lookup"
             /\ WGoto(w, IF status[job[w]] = "pending" THEN "incr" ELSE "ack")
             /\ UNCHANGED <<storeVars, blobVars, brokerVars, genVars, faults>>

CountAttempt(w) ==
    /\ wpc[w] = "incr"
    /\ \/ /\ IncrAttempts(job[w])
          /\ tries' = [tries EXCEPT ![w] = attempts'[job[w]]]
          /\ wpc' = [wpc EXCEPT ![w] = "gen"]
          /\ GenStart(w)
       \/ ~HasVariant(job[w]) /\ WGoto(w, "nack") /\ UNCHANGED <<storeVars, genVars>>
    /\ UNCHANGED <<blobVars, brokerVars, faults>>

(* Mutants of Generated: the limit is off by one, either way. *)
GeneratedEarly(w) ==
    /\ wpc[w] = "gen"
    /\ \/ gen[w] = "ok" /\ WGoto(w, "ack")
       \/ gen[w] = "err" /\ WGoto(w, IF tries[w] + 1 >= MaxAttempts THEN "giveUp" ELSE "backoff")
    /\ GenStop(w)
    /\ UNCHANGED <<storeVars, blobVars, brokerVars, faults>>

GeneratedLate(w) ==
    /\ wpc[w] = "gen"
    /\ \/ gen[w] = "ok" /\ WGoto(w, "ack")
       \/ gen[w] = "err" /\ WGoto(w, IF tries[w] > MaxAttempts THEN "giveUp" ELSE "backoff")
    /\ GenStop(w)
    /\ UNCHANGED <<storeVars, blobVars, brokerVars, faults>>

Generated(w) ==
    /\ wpc[w] = "gen"
    /\ \/ gen[w] = "ok" /\ WGoto(w, "ack")
       \/ gen[w] = "err" /\ WGoto(w, IF tries[w] >= MaxAttempts THEN "giveUp" ELSE "backoff")
    /\ GenStop(w)
    /\ UNCHANGED <<storeVars, blobVars, brokerVars, faults>>

GiveUp(w) == /\ wpc[w] = "giveUp"
             /\ \/ MarkFailed(job[w]) /\ WGoto(w, "ack")
                \/ ~HasVariant(job[w]) /\ WGoto(w, "nack") /\ UNCHANGED storeVars
             /\ UNCHANGED <<blobVars, brokerVars, genVars, faults>>

(* waitBackoff: elapsed or cancelled, the delivery is requeued. *)
Backoff(w) == /\ wpc[w] = "backoff"
              /\ WGoto(w, "nack")
              /\ UNCHANGED <<storeVars, blobVars, brokerVars, genVars, faults>>

Acknowledge(w) == /\ \/ wpc[w] = "ack" /\ Ack(w)
                     \/ wpc[w] = "nack" /\ Requeue(w)
                  /\ WGoto(w, "idle")
                  /\ UNCHANGED <<storeVars, blobVars, genVars, faults>>

WorkerStep(w) == \/ \E v \in Variants : Receive(w, v)
                 \/ Lookup(w) \/ CountAttempt(w) \/ Generated(w) \/ GiveUp(w)
                 \/ Backoff(w) \/ Acknowledge(w)
                 \/ GenStep(w) /\ UNCHANGED workerVars
-----------------------------------------------------------------------------
(* Mutant of StatementFails: process logs the error and returns nil.       *)
StatementFailsSilently(w) ==
    /\ wpc[w] \in {"lookup", "incr", "giveUp"}
    /\ WGoto(w, "ack")
    /\ Fault
    /\ UNCHANGED <<storeVars, blobVars, brokerVars, genVars>>

(* A statement fails, whether or not it took effect: the job is requeued.   *)
StatementFails(w) == /\ \/ wpc[w] \in {"lookup", "incr", "giveUp"} /\ UNCHANGED storeVars
                        \/ wpc[w] = "incr" /\ IncrAttempts(job[w])
                        \/ wpc[w] = "giveUp" /\ MarkFailed(job[w])
                     /\ WGoto(w, "nack")
                     /\ Fault
                     /\ UNCHANGED <<blobVars, brokerVars, genVars>>

(* The worker process dies and is started again; the broker requeues what  *)
(* it had not acknowledged.                                                *)
Crash(w) == /\ wpc[w] # "idle"
            /\ Requeue(w)
            /\ WGoto(w, "idle")
            /\ GenStop(w)
            /\ Fault
            /\ UNCHANGED <<storeVars, blobVars>>

(* The connection to the broker drops.  The handler is not told: it works  *)
(* on, while the broker hands its message to whoever comes next.           *)
ConnectionLost(w) == /\ unacked[w] # None
                     /\ Requeue(w)
                     /\ Fault
                     /\ UNCHANGED <<workerVars, storeVars, blobVars, genVars>>

WorkerFails(w) == \/ StatementFails(w) \/ Crash(w) \/ ConnectionLost(w)
                  \/ GenFails(w) /\ UNCHANGED workerVars
=============================================================================
