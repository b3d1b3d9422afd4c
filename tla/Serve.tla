------------------------------- MODULE Serve -------------------------------
(***************************************************************************)
(* cmd/app serve: the HTTP servers of the API process from the moment they *)
(* are started to the exit of the process, on a signal or because one of   *)
(* them failed (serveSingle, serveDual, waitShutdown and what runServe     *)
(* defers).  Requests come and go on their own; one that runs a statement  *)
(* holds a connection of the pool, which Close waits for.                  *)
(***************************************************************************)
EXTENDS Naturals, Sequences, FiniteSets

CONSTANTS Requests,         \* HTTP requests
          Grace,            \* ticks the servers are given after a signal
          ErrorGrace        \* and after a failure of one of two

ASSUME ServeAssumption == /\ Grace \in Nat \ {0}
                          /\ ErrorGrace \in 1..Grace

VARIABLES mtls,             \* cfg.MTLSEnabled: two servers instead of one
          signalled,        \* SIGTERM or an interrupt has arrived
          listener,         \* of a server: "open", "closed" or "failed"
          reported,         \* servers whose goroutine has sent to errCh
          errCh,            \* what it holds: "nil" or "error" each
          mpc,              \* the next step of the main goroutine
          cause,            \* why it left the select: "signal" or "error"
          srv,              \* the server it shuts down
          reads,            \* how often it has received from errCh afterwards
          result,           \* the error runServe will return
          elapsed,          \* ticks since the shutdown began
          pool,             \* the connection pool: "open" or "closed"
          req,              \* "idle", "active", "query", "answered" or "cut"
          at                \* the server a request came to

mainVars == <<mpc, cause, srv, reads, result>>
serverVars == <<listener, reported>>
requestVars == <<req, at>>
serveVars == <<mtls, signalled, serverVars, errCh, mainVars, elapsed, pool, requestVars>>

Servers == IF mtls THEN {"public", "write"} ELSE {"public"}

Results == {"nil", "error"}

ServeTypeOK == /\ mtls \in BOOLEAN
               /\ signalled \in BOOLEAN
               /\ listener \in [Servers -> {"open", "closed", "failed"}]
               /\ reported \subseteq Servers
               /\ errCh \in Seq(Results) /\ Len(errCh) <= Cardinality(Servers)
               /\ mpc \in {"select", "shutdown", "drain", "collect", "close", "release", "exited"}
               /\ cause \in {"none", "signal", "error"}
               /\ srv \in Servers
               /\ reads \in 0..Cardinality(Servers)
               /\ result \in Results
               /\ elapsed \in Nat
               /\ pool \in {"open", "closed"}
               /\ req \in [Requests -> {"idle", "active", "query", "answered", "cut"}]
               /\ at \in [Requests -> Servers]

ServeInit == /\ mtls \in BOOLEAN
             /\ signalled = FALSE
             /\ listener = [s \in Servers |-> "open"]
             /\ reported = {}
             /\ errCh = <<>>
             /\ mpc = "select" /\ cause = "none" /\ srv = "public" /\ reads = 0
             /\ result = "nil"
             /\ elapsed = 0
             /\ pool = "open"
             /\ req = [r \in Requests |-> "idle"]
             /\ at \in [Requests -> Servers]
-----------------------------------------------------------------------------
(* The surroundings: signals, listeners that cannot be opened or fail, and  *)
(* requests, which take as long as they like.                               *)
SignalServe == /\ ~signalled
               /\ signalled' = TRUE
               /\ UNCHANGED <<mtls, serverVars, errCh, mainVars, elapsed, pool, requestVars>>

ListenerFails(s) == /\ listener[s] = "open"
                    /\ listener' = [listener EXCEPT ![s] = "failed"]
                    /\ UNCHANGED <<mtls, signalled, reported, errCh, mainVars, elapsed, pool,
                                   requestVars>>

(* Mutant of Report: the goroutine goes on after it has sent the error.     *)
ReportTwice(s) ==
    /\ listener[s] # "open"
    /\ s \notin reported
    /\ reported' = reported \cup {s}
    /\ errCh' = errCh \o IF listener[s] = "failed" THEN <<"error", "nil">> ELSE <<"nil">>
    /\ UNCHANGED <<mtls, signalled, listener, mainVars, elapsed, pool, requestVars>>

(* The goroutine of a server: ErrServerClosed is not an error.              *)
Report(s) == /\ listener[s] # "open"
             /\ s \notin reported
             /\ reported' = reported \cup {s}
             /\ errCh' = Append(errCh, IF listener[s] = "failed" THEN "error" ELSE "nil")
             /\ UNCHANGED <<mtls, signalled, listener, mainVars, elapsed, pool, requestVars>>

Becomes(r, from, to) == /\ req[r] = from
                        /\ req' = [req EXCEPT ![r] = to]
                        /\ UNCHANGED <<mtls, signalled, serverVars, errCh, mainVars, elapsed, pool, at>>

Running == mpc # "exited"

Arrive(r) == listener[at[r]] = "open" /\ Running /\ Becomes(r, "idle", "active")

(* A statement on a closed pool fails, and the request with it. *)
Query(r) == Running /\ Becomes(r, "active", IF pool = "open" THEN "query" ELSE "cut")

QueryEnds(r) == Becomes(r, "query", "active")

Finish(r) == Running /\ Becomes(r, "active", "answered")
-----------------------------------------------------------------------------
ServeGoto(step) == /\ mpc' = step
                   /\ UNCHANGED <<cause, srv, reads, result>>

TakeSignal == /\ mpc = "select"
              /\ signalled
              /\ mpc' = "shutdown"
              /\ cause' = "signal"
              /\ UNCHANGED <<mtls, signalled, serverVars, errCh, srv, reads, result, elapsed, pool,
                             requestVars>>

(* Only serveDual shuts down what is left when a server has failed.         *)
TakeError == /\ mpc = "select"
             /\ errCh # <<>>
             /\ result' = Head(errCh)
             /\ errCh' = Tail(errCh)
             /\ mpc' = IF mtls THEN "shutdown" ELSE "close"
             /\ cause' = "error"
             /\ UNCHANGED <<mtls, signalled, serverVars, srv, reads, elapsed, pool, requestVars>>

(* http.Server.Shutdown closes the listener and then waits. *)
Shutdown == /\ mpc = "shutdown"
            /\ listener' = [listener EXCEPT ![srv] = IF @ = "open" THEN "closed" ELSE @]
            /\ ServeGoto("drain")
            /\ UNCHANGED <<mtls, signalled, reported, errCh, elapsed, pool, requestVars>>

Busy(s) == \E r \in Requests : at[r] = s /\ req[r] \in {"active", "query"}

(* The deadline, one for all servers. *)
Expired == elapsed >= IF cause = "signal" THEN Grace ELSE ErrorGrace

(* Mutant of AfterShutdown: the write server is not shut down.              *)
AfterPublicShutdown == /\ mpc' = IF cause = "signal" THEN "collect" ELSE "close"
                       /\ UNCHANGED srv

AfterShutdown == IF mtls /\ srv = "public"
                 THEN srv' = "write" /\ mpc' = "shutdown"
                 ELSE /\ mpc' = IF cause = "signal" THEN "collect" ELSE "close"
                      /\ UNCHANGED srv

(* Mutants of Drained: Close instead of Shutdown, which waits for nobody;   *)
(* and the error of a Shutdown that ran out of time is not returned.        *)
DrainedAtOnce == /\ mpc = "drain"
                 /\ AfterShutdown
                 /\ UNCHANGED <<mtls, cause, reads, result, signalled, serverVars, errCh, elapsed,
                                pool, requestVars>>

DrainedSilently == /\ mpc = "drain"
                   /\ ~Busy(srv) \/ Expired
                   /\ AfterShutdown
                   /\ UNCHANGED <<mtls, cause, reads, result, signalled, serverVars, errCh, elapsed,
                                  pool, requestVars>>

(* Shutdown returns: serveDual drops its error, waitShutdown returns it.    *)
Drained == /\ mpc = "drain"
           /\ \/ ~Busy(srv) /\ AfterShutdown /\ UNCHANGED result
              \/ Expired /\ mtls /\ AfterShutdown /\ UNCHANGED result
              \/ Expired /\ ~mtls /\ mpc' = "close" /\ result' = "error" /\ UNCHANGED srv
           /\ UNCHANGED <<mtls, cause, reads, signalled, serverVars, errCh, elapsed, pool, requestVars>>

(* Mutant of Collect: the last report is the result, not the first error.   *)
CollectLast == /\ mpc = "collect"
               /\ errCh # <<>>
               /\ result' = Head(errCh)
               /\ errCh' = Tail(errCh)
               /\ reads' = reads + 1
               /\ mpc' = IF reads' = Cardinality(Servers) THEN "close" ELSE "collect"
               /\ UNCHANGED <<mtls, signalled, serverVars, cause, srv, elapsed, pool, requestVars>>

(* One report per server; the first error among them is the result.         *)
Collect == /\ mpc = "collect"
           /\ errCh # <<>>
           /\ result' = IF result = "nil" THEN Head(errCh) ELSE result
           /\ errCh' = Tail(errCh)
           /\ reads' = reads + 1
           /\ mpc' = IF reads' = Cardinality(Servers) THEN "close" ELSE "collect"
           /\ UNCHANGED <<mtls, signalled, serverVars, cause, srv, elapsed, pool, requestVars>>

(* The deferred calls: q.Close and pool.Close, which closes the pool to new *)
(* statements and returns when the connections in use have been released.   *)
CloseDeps == /\ mpc = "close"
             /\ pool' = "closed"
             /\ ServeGoto("release")
             /\ UNCHANGED <<mtls, signalled, serverVars, errCh, elapsed, requestVars>>

(* The process exits, and with it every request that is still served.       *)
Exit == /\ mpc = "release"
        /\ \A r \in Requests : req[r] # "query"
        /\ req' = [r \in Requests |-> IF req[r] = "active" THEN "cut" ELSE req[r]]
        /\ ServeGoto("exited")
        /\ UNCHANGED <<mtls, signalled, serverVars, errCh, elapsed, pool, at>>

(* Time matters to a Shutdown that waits for a request. *)
ServeTick == /\ mpc = "drain"
             /\ Busy(srv) /\ ~Expired
             /\ elapsed' = elapsed + 1
             /\ UNCHANGED <<mtls, signalled, serverVars, errCh, mainVars, pool, requestVars>>

ServeStep == TakeSignal \/ TakeError \/ Shutdown \/ Drained \/ Collect \/ CloseDeps \/ Exit

ServeNext == \/ SignalServe \/ ServeStep \/ ServeTick
             \/ \E s \in Servers : ListenerFails(s) \/ Report(s)
             \/ \E r \in Requests : Arrive(r) \/ Query(r) \/ QueryEnds(r) \/ Finish(r)

(* The process's own goroutines run and statements return; a request need   *)
(* not end (a client may be slow for ever), and no signal need arrive.      *)
ServeFairness ==
    /\ WF_serveVars(ServeStep) /\ WF_serveVars(ServeTick)
    /\ \A s \in {"public", "write"} : WF_serveVars(s \in Servers /\ Report(s))
    /\ \A r \in Requests : WF_serveVars(QueryEnds(r))

ServeSpec == ServeInit /\ [][ServeNext]_serveVars /\ ServeFairness
-----------------------------------------------------------------------------
(* After a signal no request is cut off, or robbed of its pool, before its  *)
(* server has been given all of the grace period or nothing was left of it  *)
(* by the other server (main.go serveDual, waitShutdown).                   *)
CutOnlyAfterGrace == cause = "signal" /\ elapsed < Grace =>
                         \A r \in Requests : req[r] # "cut"

(* The deferred calls close the pool only when no server accepts requests   *)
(* any more, whichever of two was told to stop or failed and whether or not *)
(* the deadline passed: a request admitted later could run no statement     *)
(* (main.go serveDual, waitShutdown, and pool.Close in runServe).           *)
PoolClosedLast == pool = "closed" => \A s \in Servers : listener[s] # "open"

(* A listener that failed makes the process exit with an error, also when   *)
(* the signal was seen first (the exit code decides on restart: on-failure).*)
FailureIsReported == mpc = "exited" /\ result = "nil" =>
                         \A s \in Servers : listener[s] # "failed"

(* With a single server, exit code 0 means that every request was served.   *)
CleanExitCutNothing == ~mtls /\ mpc = "exited" /\ result = "nil" =>
                           \A r \in Requests : req[r] # "cut"

(* Once told to stop, or deprived of a listener, the process exits, whatever*)
(* its requests do.                                                         *)
StopsWhenTold == signalled \/ (\E s \in Servers : listener[s] = "failed") ~> mpc = "exited"
=============================================================================
