---------------------------- MODULE MCProcesses ----------------------------
(***************************************************************************)
(* Startup, Serve and WorkerRun as the three parts of one specification.   *)
(* They share nothing, so a behaviour is one of its parts', which the      *)
(* initial state chooses; the others rest.  That keeps the number of       *)
(* states at the sum of theirs.                                            *)
(***************************************************************************)
EXTENDS Startup, Serve, WorkerRun, TLC

VARIABLE part               \* the part that this behaviour is of

(* Compose's settings, mTLS, and one deviation each. *)
Compose == [s \in settings |->
               CASE s = "MTLS_ENABLED" -> "false"
                 [] s \in tls          -> "unset"
                 [] OTHER              -> "ok"]

TwoPorts == [s \in settings |-> IF s = "MTLS_ENABLED" THEN "true" ELSE "ok"]

MCEnvironments == {Compose, TwoPorts,
                   [Compose EXCEPT !["S3_USE_PATH_STYLE"] = "bad"],
                   [Compose EXCEPT !["DATABASE_URL"] = "unset"],
                   [Compose EXCEPT !["DATABASE_URL"] = "bad"],
                   [Compose EXCEPT !["DEFAULT_QUALITY"] = "bad"],
                   [TwoPorts EXCEPT !["WRITE_HTTP_ADDR"] = "unset"],
                   [TwoPorts EXCEPT !["TLS_CLIENT_CA_FILE"] = "bad"]}
-----------------------------------------------------------------------------
startPart == <<env, up, stores, pc>>
runPart == <<jobVars, queueVars, processVars, stops>>
vars == <<part, startPart, serveVars, runPart, faults>>

(* A part that rests asks for no step: every process has started, the API   *)
(* has exited after a signal, and so has the worker, with no job left.      *)
StartRests == /\ env = Compose /\ up = Deps /\ versions = TRUE /\ tables = TRUE /\ bucket = TRUE
              /\ pc = [p \in Procs |-> "running"]

ServeRests == /\ mtls = FALSE /\ signalled = TRUE
              /\ listener = [s \in {"public"} |-> "closed"] /\ reported = {"public"}
              /\ errCh = <<>>
              /\ mpc = "exited" /\ cause = "signal" /\ srv = "public" /\ reads = 1
              /\ result = "nil" /\ elapsed = 0 /\ pool = "closed"
              /\ req = [r \in Requests |-> "idle"]
              /\ at = [r \in Requests |-> "public"]

RunRests == /\ status = [j \in Jobs |-> "ready"]
            /\ attempts = [j \in Jobs |-> 1] /\ failures = [j \in Jobs |-> 0]
            /\ queue = {} /\ unacked = None /\ conn = "lost" /\ buffer = None
            /\ cancelled = TRUE /\ wpc = "exited" /\ cur = None /\ exit = 0
            /\ stops = 1

Init == /\ InitFaults
        /\ \/ part = "start" /\ StartInit /\ ServeRests /\ RunRests
           \/ part = "serve" /\ StartRests /\ ServeInit /\ RunRests
           \/ part = "run" /\ StartRests /\ ServeRests /\ RunInit

Next == /\ \/ part = "start" /\ StartNext /\ UNCHANGED <<serveVars, runPart>>
           \/ part = "serve" /\ ServeNext /\ UNCHANGED <<startPart, runPart, faults>>
           \/ part = "run" /\ RunNext /\ UNCHANGED <<startPart, serveVars>>
        /\ UNCHANGED part

Spec == Init /\ [][Next]_vars /\ StartFairness /\ ServeFairness /\ RunFairness

(* Types of the parts.                                                      *)
TypeOK == StartTypeOK /\ ServeTypeOK /\ RunTypeOK
=============================================================================
