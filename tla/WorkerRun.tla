----------------------------- MODULE WorkerRun -----------------------------
(***************************************************************************)
(* cmd/app worker: one worker process from its start to its exit, told to  *)
(* stop by a signal or deprived of its broker connection, and started      *)
(* again.  The signal cancels the context that Consume, process and every  *)
(* statement run under; an acknowledgement knows no context.  What other   *)
(* processes do to a job is ImageOptimizer's: here nothing else touches it.*)
(***************************************************************************)
EXTENDS FaultBudget

CONSTANTS Jobs,             \* variants with a message in the queue
          None,             \* no job
          MaxAttempts       \* worker.maxAttempts

ASSUME WorkerRunAssumption == None \notin Jobs /\ MaxAttempts \in Nat \ {0}

VARIABLES status,           \* of the job's variant: "pending", "ready" or "failed"
          attempts,         \* its attempts column
          failures,         \* history: its generations that failed of themselves
          queue,            \* jobs whose message is ready for delivery
          unacked,          \* the job delivered and not acknowledged, or None
          conn,             \* the AMQP connection: "open" or "lost"
          buffer,           \* the job in the deliveries channel, or None
          cancelled,        \* the signal has arrived
          wpc,              \* the next step of the main goroutine
          cur,              \* the job of the handler that runs
          exit,             \* the exit code of a process that is gone
          stops             \* history: the signals so far

jobVars == <<status, attempts, failures>>
queueVars == <<queue, unacked, conn, buffer>>
processVars == <<cancelled, wpc, cur, exit>>
runVars == <<jobVars, queueVars, processVars, stops, faults>>

RunTypeOK == /\ status \in [Jobs -> {"pending", "ready", "failed"}]
             /\ attempts \in [Jobs -> Nat] /\ failures \in [Jobs -> Nat]
             /\ queue \subseteq Jobs
             /\ unacked \in Jobs \cup {None} /\ buffer \in Jobs \cup {None}
             /\ conn \in {"open", "lost"}
             /\ cancelled \in BOOLEAN
             /\ wpc \in {"select", "lookup", "incr", "gen", "giveUp", "backoff", "ack", "nack",
                         "returned", "exited"}
             /\ cur \in Jobs \cup {None}
             /\ exit \in {0, 1}
             /\ stops \in 0..MaxFaults /\ faults \in 0..MaxFaults

RunInit == /\ InitFaults
           /\ status = [j \in Jobs |-> "pending"]
           /\ attempts = [j \in Jobs |-> 0] /\ failures = [j \in Jobs |-> 0]
           /\ queue = Jobs /\ unacked = None /\ conn = "open" /\ buffer = None
           /\ cancelled = FALSE /\ wpc = "select" /\ cur = None /\ exit = 0
           /\ stops = 0
-----------------------------------------------------------------------------
(* The broker: a delivery waits in a channel for the main goroutine to be   *)
(* back in its select.  What a closed connection held is ready again; of    *)
(* the delivery in the channel the process may still learn.                 *)
Deliver(j) == /\ wpc # "exited" /\ conn = "open"
              /\ unacked = None
              /\ j \in queue
              /\ unacked' = j /\ buffer' = j
              /\ queue' = queue \ {j}
              /\ UNCHANGED <<jobVars, conn, processVars, stops, faults>>

Release == /\ queue' = queue \cup ({unacked} \ {None})
           /\ unacked' = None

ConnectionLost == /\ wpc # "exited" /\ conn = "open"
                  /\ conn' = "lost"
                  /\ Release
                  /\ buffer' \in {buffer, None}
                  /\ Fault
                  /\ UNCHANGED <<jobVars, processVars, stops>>

SignalWorker == /\ wpc \notin {"returned", "exited"}
                /\ ~cancelled
                /\ cancelled' = TRUE
                /\ stops' = stops + 1
                /\ Fault
                /\ UNCHANGED <<jobVars, queueVars, wpc, cur, exit>>
-----------------------------------------------------------------------------
(* The select of Consume, which chooses among its ready cases at random.    *)
Take == /\ wpc = "select"
        /\ buffer # None
        /\ wpc' = "lookup" /\ cur' = buffer
        /\ buffer' = None
        /\ UNCHANGED <<jobVars, queue, unacked, conn, cancelled, exit, stops, faults>>

(* context.Canceled is no error to runWorker. *)
TakeDone == /\ wpc = "select"
            /\ cancelled
            /\ wpc' = "returned" /\ exit' = 0
            /\ UNCHANGED <<jobVars, queueVars, cancelled, cur, stops, faults>>

(* Mutant of TakeClosed: the end of the deliveries is no error.             *)
TakeClosedQuietly == /\ wpc = "select"
                     /\ conn = "lost" /\ buffer = None
                     /\ wpc' = "returned" /\ exit' = 0
                     /\ UNCHANGED <<jobVars, queueVars, cancelled, cur, stops, faults>>

TakeClosed == /\ wpc = "select"
              /\ conn = "lost" /\ buffer = None
              /\ wpc' = "returned" /\ exit' = 1
              /\ UNCHANGED <<jobVars, queueVars, cancelled, cur, stops, faults>>

(* Mutant of StatementWorks: process runs under a context of its own.       *)
StatementNeverStops == wpc # "exited"

(* A statement that begins under a cancelled context fails at once. *)
StatementWorks == ~cancelled

RunGoto(step) == /\ wpc' = step
                 /\ UNCHANGED <<queueVars, cancelled, cur, exit, stops, faults>>

(* Mutant of Lookup: an error that comes of the signal is dropped.          *)
LookupGivesUp == /\ wpc = "lookup"
                 /\ RunGoto(IF status[cur] = "pending" /\ StatementWorks THEN "incr" ELSE "ack")
                 /\ UNCHANGED jobVars

Lookup == /\ wpc = "lookup"
          /\ \/ StatementWorks /\ RunGoto(IF status[cur] = "pending" THEN "incr" ELSE "ack")
             \/ ~StatementWorks /\ RunGoto("nack")
          /\ UNCHANGED jobVars

(* A statement that the signal interrupts may have taken effect.            *)
CountAttempt == /\ wpc = "incr"
                /\ \/ /\ attempts' = [attempts EXCEPT ![cur] = @ + 1]
                      /\ RunGoto(IF StatementWorks THEN "gen" ELSE "nack")
                   \/ ~StatementWorks /\ RunGoto("nack") /\ UNCHANGED attempts
                /\ UNCHANGED <<status, failures>>

GiveUpOrRetry == IF attempts[cur] >= MaxAttempts THEN "giveUp" ELSE "backoff"

Generate == /\ wpc = "gen"
            /\ \/ /\ ~cancelled
                  /\ status' = [status EXCEPT ![cur] = "ready"]
                  /\ RunGoto("ack")
                  /\ UNCHANGED failures
               \/ /\ ~cancelled
                  /\ failures' = [failures EXCEPT ![cur] = @ + 1]
                  /\ RunGoto(GiveUpOrRetry)
                  /\ UNCHANGED status
               \/ /\ cancelled
                  /\ status' \in {status, [status EXCEPT ![cur] = "ready"]}
                  /\ RunGoto(GiveUpOrRetry)
                  /\ UNCHANGED failures
            /\ UNCHANGED attempts

GiveUp == /\ wpc = "giveUp"
          /\ \/ /\ status' = [status EXCEPT ![cur] = "failed"]
                /\ RunGoto(IF StatementWorks THEN "ack" ELSE "nack")
             \/ ~StatementWorks /\ RunGoto("nack") /\ UNCHANGED status
          /\ UNCHANGED <<attempts, failures>>

(* waitBackoff, until the timer fires or the context is done. *)
Backoff == wpc = "backoff" /\ RunGoto("nack") /\ UNCHANGED jobVars

(* Mutant of Settle: a failed job is tried again in place, not requeued.    *)
SettleInPlace == /\ wpc \in {"ack", "nack"}
                 /\ wpc' = IF wpc = "nack" THEN "lookup" ELSE "select"
                 /\ cur' = IF wpc = "nack" THEN cur ELSE None
                 /\ unacked' = IF wpc = "nack" THEN unacked ELSE None
                 /\ UNCHANGED <<jobVars, queue, conn, buffer, cancelled, exit, stops, faults>>

(* Ack and Nack: without a connection they have no effect. *)
Settle == /\ wpc \in {"ack", "nack"}
          /\ wpc' = "select" /\ cur' = None
          /\ IF conn = "lost" THEN UNCHANGED <<queue, unacked>>
             ELSE IF wpc = "nack" THEN Release
             ELSE unacked' = None /\ UNCHANGED queue
          /\ UNCHANGED <<jobVars, conn, buffer, cancelled, exit, stops, faults>>

(* The metrics server is shut down, within 5 seconds, then the deferred     *)
(* calls close the broker connection and the pool.                          *)
Leave == /\ wpc = "returned"
         /\ wpc' = "exited"
         /\ conn' = "lost" /\ buffer' = None
         /\ Release
         /\ UNCHANGED <<jobVars, cancelled, cur, exit, stops, faults>>

(* restart: on-failure brings back a process that failed; another worker is *)
(* started whenever the operator likes.                                     *)
Start == /\ wpc = "exited"
         /\ wpc' = "select" /\ cancelled' = FALSE
         /\ conn' = "open"
         /\ UNCHANGED <<jobVars, queue, unacked, buffer, cur, exit, stops, faults>>

Restart == exit = 1 /\ Start

RunStep == \/ Take \/ TakeDone \/ TakeClosed \/ Lookup \/ CountAttempt \/ Generate
            \/ GiveUp \/ Backoff \/ Settle \/ Leave

RunNext == \/ RunStep \/ Start \/ SignalWorker \/ ConnectionLost
           \/ \E j \in Jobs : Deliver(j)

(* The broker delivers and the goroutine runs on.  TakeDone is strongly     *)
(* fair because the select is random: while the context is done, a message  *)
(* that is nacked is not redelivered and taken for ever.                    *)
RunFairness ==
    /\ WF_runVars(RunStep) /\ SF_runVars(TakeDone)
    /\ WF_runVars(Restart)
    /\ \A j \in Jobs : WF_runVars(Deliver(j))

RunSpec == RunInit /\ [][RunNext]_runVars /\ RunFairness
-----------------------------------------------------------------------------
(* A pending job is in the queue or held by the worker, whatever step the   *)
(* signal or the loss of the connection meets (queue.go handleDelivery).    *)
JobSurvivesStop == \A j \in Jobs : status[j] = "pending" => j \in queue \/ unacked = j

(* A signal spends at most one attempt of a job that did not fail of itself,*)
(* although the job is redelivered to the stopping worker again and again   *)
(* (queue.go Consume, worker.go process).                                   *)
StopCostsOneAttempt ==
    \A j \in Jobs : status[j] # "ready" =>
        attempts[j] <= failures[j] + stops + IF wpc = "gen" /\ cur = j THEN 1 ELSE 0

(* A worker that was told to stop exits, with messages left in the queue.   *)
StopsWhenSignalled == cancelled ~> wpc = "exited"

(* A worker that lost its connection is soon running with a new one.        *)
LossIsRepaired == conn = "lost" /\ ~cancelled ~> conn = "open" \/ cancelled
=============================================================================
