---------------------------- MODULE ProcessProofs ----------------------------
(***************************************************************************)
(* What TLAPS proves of the processes: how they start against dependencies *)
(* that come and go, how the API process stops within one grace period, and*)
(* what a signal or a lost connection does to the job of a worker.  For any*)
(* number of processes, requests and jobs, any settings and grace periods. *)
(***************************************************************************)
EXTENDS MCProcesses, FiniteSetTheorems, TLAPS

(* A process that is past the migrations found or made the tables, and one   *)
(* that is past its bucket check found or made the bucket; neither goes.     *)
PastMigrations == {"pool", "head", "create", "connect", "tls", "running"}

PastBucket == {"connect", "tls", "running"}

(* Steps that only an API takes; it takes "tls" only with mTLS.              *)
ApiSteps == {"version", "versionTable", "migrate", "tls"}

StoresInv == /\ StartTypeOK
             /\ \A p \in Procs : pc[p] \in ApiSteps => p \in Apis
             /\ \A p \in Procs : pc[p] = "tls" => WithMTLS
             /\ \A p \in Apis : pc[p] \in PastMigrations => tables
             /\ \A p \in Procs : pc[p] \in PastBucket => bucket

(* A step of one process, whichever it is: where it goes, and what it needs  *)
(* or makes on the way.                                                      *)
LEMMA StartMoves ==
    ASSUME StartTypeOK, NEW p \in Procs, StartStep(p) \/ StartAgain(p)
    PROVE  /\ StartTypeOK'
           /\ pc' = [pc EXCEPT ![p] = pc'[p]]
           /\ (tables => tables') /\ (bucket => bucket') /\ env' = env
           /\ pc'[p] \in ApiSteps => pc[p] \in ApiSteps \/ p \in Apis
           /\ pc'[p] = "tls" => WithMTLS
           /\ pc'[p] \in PastMigrations =>
                 pc[p] \in PastMigrations \/ tables' \/ (pc[p] = "load" /\ p \notin Apis)
           /\ pc'[p] \in PastBucket => pc[p] \in PastBucket \/ bucket'
<1> USE DEF StartTypeOK, StartGoto, Fail, PastMigrations, PastBucket, ApiSteps, stores
<1>1. CASE LoadConfig(p)
  BY <1>1 DEF LoadConfig
<1>2. CASE ReadVersion(p)
  BY <1>2 DEF ReadVersion
<1>3. CASE CreateVersionTable(p)
  BY <1>3 DEF CreateVersionTable
<1>4. CASE ApplyMigration(p)
  BY <1>4 DEF ApplyMigration
<1>5. CASE OpenPool(p) \/ StartAgain(p)
  BY <1>5 DEF OpenPool, StartAgain
<1>6. CASE HeadBucket(p)
  BY <1>6 DEF HeadBucket
<1>7. CASE CreateBucket(p)
  BY <1>7 DEF CreateBucket
<1>8. CASE ConnectQueue(p)
  BY <1>8 DEF ConnectQueue
<1>9. CASE LoadClientCA(p)
  BY <1>9 DEF LoadClientCA
<1> QED
  BY <1>1, <1>2, <1>3, <1>4, <1>5, <1>6, <1>7, <1>8, <1>9 DEF StartStep

(* Dependencies come and go without moving a process.                        *)
LEMMA DepsMove ==
    ASSUME StartTypeOK, NEW dep \in Deps, ComesUp(dep) \/ GoesDown(dep)
    PROVE  StartTypeOK' /\ UNCHANGED <<env, stores, pc>>
  BY MaxFaultsAssumption DEF stores, StartTypeOK, ComesUp, GoesDown, Fault

LEMMA StoresKept == StoresInv /\ [StartNext]_startVars => StoresInv'
<1> SUFFICES ASSUME StoresInv, [StartNext]_startVars PROVE StoresInv'
  OBVIOUS
<1>1. CASE UNCHANGED startVars
  BY <1>1 DEF startVars, stores, StoresInv, StartTypeOK, WithMTLS
<1>2. ASSUME NEW dep \in Deps, ComesUp(dep) \/ GoesDown(dep) PROVE StoresInv'
  BY <1>2, DepsMove DEF StoresInv, stores, WithMTLS
<1>3. ASSUME NEW p \in Procs, StartStep(p) \/ StartAgain(p) PROVE StoresInv'
  <2> USE DEF StoresInv
  <2>1. /\ StartTypeOK'
        /\ pc' = [pc EXCEPT ![p] = pc'[p]]
        /\ (tables => tables') /\ (bucket => bucket') /\ env' = env
    BY <1>3, StartMoves
  <2>2. \A q \in Procs : q # p => pc'[q] = pc[q]
    BY <2>1 DEF StartTypeOK
  <2>3. ASSUME NEW q \in Apis, pc'[q] \in PastMigrations PROVE tables'
    BY <1>3, <2>1, <2>2, <2>3, StartMoves DEF Procs
  <2>4. ASSUME NEW q \in Procs, pc'[q] \in PastBucket PROVE bucket'
    BY <1>3, <2>1, <2>2, <2>4, StartMoves
  <2>5. ASSUME NEW q \in Procs, pc'[q] \in ApiSteps PROVE q \in Apis
    BY <1>3, <2>1, <2>2, <2>5, StartMoves
  <2>6. ASSUME NEW q \in Procs, pc'[q] = "tls" PROVE WithMTLS'
    BY <1>3, <2>1, <2>2, <2>6, StartMoves DEF WithMTLS
  <2> QED
    BY <2>1, <2>3, <2>4, <2>5, <2>6
<1> QED
  BY <1>1, <1>2, <1>3 DEF StartNext

THEOREM StoresInvariant == StartSpec => []StoresInv
<1>1. StartInit => StoresInv
  BY MaxFaultsAssumption, StartupAssumption
     DEF StartInit, InitFaults, StoresInv, StartTypeOK, PastMigrations, PastBucket, ApiSteps,
         Procs, Deps
<1> QED
  BY <1>1, StoresKept, PTL DEF StartSpec

(* Whatever dependencies come and go while processes start, whichever of     *)
(* them applies the migrations or makes the bucket: an API that runs has its *)
(* tables and its bucket, a worker its bucket.                               *)
THEOREM RunningHasStoresHolds == StartSpec => []RunningHasStores
<1>1. StoresInv => RunningHasStores
  BY DEF StoresInv, RunningHasStores, PastMigrations, PastBucket, Procs
<1> QED
  BY <1>1, StoresInvariant, PTL

(* A process fails only when the dependency it calls is down or badly set;   *)
(* an API with mTLS also when its certificate authority cannot be read; and  *)
(* an API that would create a table also when another was faster.  Never     *)
(* because another process made the bucket meanwhile.                        *)
THEOREM FailsOnlyIfDownHolds == StartSpec => FailsOnlyIfDown
<1> DEFINE Excused(p) ==
        \/ pc[p] \in DOMAIN Needs /\ ~Reaches(Needs[pc[p]])
        \/ p \in Apis /\ WithMTLS /\ pc[p] = "tls" /\ env["TLS_CLIENT_CA_FILE"] # "ok"
        \/ p \in Apis /\ pc[p] = "versionTable" /\ versions
        \/ p \in Apis /\ pc[p] = "migrate" /\ tables
<1>1. ASSUME StoresInv, StartNext, NEW p \in Procs, pc[p] # "failed", pc'[p] = "failed"
      PROVE  Excused(p)
  <2> USE DEF StoresInv
  <2>1. PICK q \in Procs : StartStep(q) \/ StartAgain(q)
    BY <1>1, DepsMove DEF StartNext
  <2>2. q = p
    BY <1>1, <2>1, StartMoves DEF StartTypeOK
  <2>3. /\ pc[p] \in {"version", "versionTable", "migrate", "pool", "head", "create", "connect", "tls"}
        /\ pc[p] \in {"version", "pool"} => ~Reaches("postgres")
        /\ pc[p] = "versionTable" => ~Reaches("postgres") \/ versions
        /\ pc[p] = "migrate" => ~Reaches("postgres") \/ tables
        /\ pc[p] \in {"head", "create"} => ~Reaches("minio")
        /\ pc[p] = "connect" => ~Reaches("rabbitmq")
        /\ pc[p] = "tls" => env["TLS_CLIENT_CA_FILE"] # "ok"
    BY <1>1, <2>1, <2>2
       DEF StartTypeOK, StartGoto, Fail, StartStep, StartAgain, LoadConfig, ReadVersion,
           CreateVersionTable, ApplyMigration, OpenPool, HeadBucket, CreateBucket, ConnectQueue,
           LoadClientCA
  <2>4. /\ pc[p] \in ApiSteps => p \in Apis
        /\ pc[p] = "tls" => WithMTLS
    BY <1>1
  <2> QED
    BY <2>3, <2>4 DEF Needs, ApiSteps
<1>2. StoresInv /\ [StartNext]_startVars =>
        [\A p \in Procs : pc[p] # "failed" /\ pc'[p] = "failed" => Excused(p)]_startVars
  BY <1>1
<1> QED
  BY <1>2, StoresInvariant, PTL DEF StartSpec, FailsOnlyIfDown
-----------------------------------------------------------------------------
(***************************************************************************)
(* The stop of the API process: one grace period for all servers, no       *)
(* request cut off within it, no exit with 0 that cut one off or hides a   *)
(* listener that failed.                                                   *)
(***************************************************************************)
States == {"open", "closed", "failed"}

Phases == {"idle", "active", "query", "answered", "cut"}

(* Servers whose Shutdown has returned.                                      *)
Left(s) == \/ mpc \in {"collect", "close", "release", "exited"}
           \/ mpc \in {"shutdown", "drain"} /\ srv = "write" /\ s = "public"

(* No Shutdown has run out of time so far.                                   *)
Unhurried == cause = "signal" /\ (elapsed < Grace \/ (~mtls /\ result = "nil"))

TypesInv == /\ mtls \in BOOLEAN
            /\ listener \in [Servers -> States]
            /\ req \in [Requests -> Phases]
            /\ at \in [Requests -> Servers]
            /\ srv \in Servers
            /\ elapsed \in Nat
            /\ errCh \in Seq(Results)
            /\ pool \in {"open", "closed"}

(* Before the shutdown begins only failures are reported, and who left the   *)
(* select for one of them returns it.                                        *)
CauseInv == /\ cause \in {"none", "signal", "error"} /\ result \in Results
            /\ cause = "none" <=> mpc = "select"
            /\ cause = "none" => /\ srv = "public" /\ result = "nil"
                                 /\ errCh \in Seq({"error"})
                                 /\ \A s \in Servers : listener[s] # "closed"
            /\ cause = "error" => result = "error"

(* A server whose Shutdown returned in time has no request and gets none.    *)
DrainInv == /\ elapsed <= Grace
            /\ pool = "closed" <=> mpc \in {"release", "exited"}
            /\ pool = "open" => \A r \in Requests : req[r] # "cut"
            /\ mpc = "drain" => listener[srv] # "open"
            /\ Unhurried => /\ \A s \in Servers : Left(s) => listener[s] # "open" /\ ~Busy(s)
                            /\ \A r \in Requests : req[r] # "cut"

ServeInv == TypesInv /\ CauseInv /\ DrainInv

LEMMA ServeInitially == ServeInit => ServeInv
<1> SUFFICES ASSUME ServeInit PROVE ServeInv
  OBVIOUS
<1>1. TypesInv
  BY DEF ServeInit, TypesInv, Servers, States, Phases
<1>2. CauseInv
  BY DEF ServeInit, CauseInv, Servers, Results
<1>3. DrainInv
  BY ServeAssumption DEF ServeInit, DrainInv, Unhurried, Servers
<1> QED
  BY <1>1, <1>2, <1>3 DEF ServeInv

(* What signals, listeners and requests do keeps the invariant: none of them *)
(* reaches a server that has been left.                                      *)
LEMMA SurroundingsKeep ==
    ASSUME ServeInv,
           \/ SignalServe
           \/ \E s \in Servers : ListenerFails(s) \/ Report(s)
           \/ \E r \in Requests : Arrive(r) \/ Query(r) \/ QueryEnds(r) \/ Finish(r)
    PROVE  ServeInv'
<1> USE DEF ServeInv, mainVars, serverVars, requestVars
<1>1. CASE SignalServe
  BY <1>1 DEF SignalServe, TypesInv, CauseInv, DrainInv, Unhurried, Left, Busy, Servers
<1>2. ASSUME NEW s \in Servers, ListenerFails(s) PROVE ServeInv'
  <2>1. listener' = [listener EXCEPT ![s] = "failed"] /\ listener[s] = "open"
        /\ UNCHANGED <<mtls, signalled, reported, errCh, mpc, cause, srv, reads, result, elapsed,
                       pool, req, at>>
    BY <1>2 DEF ListenerFails
  <2>2. TypesInv'
    BY <2>1 DEF TypesInv, Servers, States
  <2>3. CauseInv'
    BY <2>1 DEF TypesInv, CauseInv, Servers
  <2>4. DrainInv'
    BY <2>1 DEF TypesInv, DrainInv, Unhurried, Left, Busy, Servers
  <2> QED
    BY <2>2, <2>3, <2>4
<1>3. ASSUME NEW s \in Servers, Report(s) PROVE ServeInv'
  <2>1. errCh' = Append(errCh, IF listener[s] = "failed" THEN "error" ELSE "nil")
        /\ listener[s] # "open"
        /\ UNCHANGED <<mtls, signalled, listener, mpc, cause, srv, reads, result, elapsed,
                       pool, req, at>>
    BY <1>3 DEF Report
  <2>2. TypesInv'
    BY <2>1 DEF TypesInv, Servers, Results
  <2>3. CauseInv'
    <3>1. cause = "none" => listener[s] = "failed"
      BY <2>1 DEF TypesInv, CauseInv, States
    <3>2. cause = "none" => errCh' \in Seq({"error"})
      BY <2>1, <3>1 DEF CauseInv
    <3> QED
      BY <2>1, <3>2 DEF CauseInv, Servers
  <2>4. DrainInv'
    BY <2>1 DEF DrainInv, Unhurried, Left, Busy, Servers
  <2> QED
    BY <2>2, <2>3, <2>4
<1>4. ASSUME NEW r \in Requests, Arrive(r) \/ Query(r) \/ QueryEnds(r) \/ Finish(r)
      PROVE  ServeInv'
  <2>1. UNCHANGED <<mtls, signalled, listener, reported, errCh, mpc, cause, srv, reads, result,
                    elapsed, pool, at>>
    BY <1>4 DEF Arrive, Query, QueryEnds, Finish, Becomes
  <2>2. \/ req[r] = "idle" /\ listener[at[r]] = "open" /\ req' = [req EXCEPT ![r] = "active"]
        \/ Busy(at[r]) /\ req' = [req EXCEPT ![r] = "cut"] /\ pool # "open"
           /\ mpc # "exited"
        \/ Busy(at[r]) /\ \E p \in {"active", "query", "answered"} : req' = [req EXCEPT ![r] = p]
    BY <1>4 DEF Arrive, Query, QueryEnds, Finish, Becomes, Busy, Running
  <2>3. at[r] \in Servers /\ (Unhurried /\ Left(at[r]) => listener[at[r]] # "open" /\ ~Busy(at[r]))
    BY DEF TypesInv, DrainInv
  <2>4. TypesInv' /\ CauseInv'
    BY <2>1, <2>2 DEF TypesInv, CauseInv, Servers, Phases
  <2>5. DrainInv'
    <3>1. pool = "open" => \A q \in Requests : req'[q] # "cut"
      BY <2>2 DEF TypesInv, DrainInv
    <3>2. CASE Unhurried /\ Left(at[r])
      BY <2>2, <2>3, <3>2
    <3>3. CASE Unhurried /\ ~Left(at[r])
      <4>1. req'[r] # "cut"
        BY <2>2, <3>3 DEF TypesInv, DrainInv, Left, Phases
      <4>2. \A q \in Requests : req'[q] # "cut"
        BY <2>2, <3>3, <4>1 DEF TypesInv, DrainInv
      <4>3. \A s \in Servers : Left(s) => ~Busy(s)'
        BY <2>1, <2>2, <3>3 DEF TypesInv, DrainInv, Busy
      <4> QED
        BY <2>1, <3>1, <4>2, <4>3 DEF DrainInv, Unhurried, Left, Servers
    <3>4. CASE ~Unhurried
      BY <2>1, <3>1, <3>4 DEF DrainInv, Unhurried, Left
    <3> QED
      BY <3>2, <3>3, <3>4
  <2> QED
    BY <2>4, <2>5
<1> QED
  BY <1>1, <1>2, <1>3, <1>4

(* Every step of the main goroutine keeps the invariant: a Shutdown returns  *)
(* in time only when its server has no request left.                         *)
LEMMA MainKeeps ==
    ASSUME ServeInv, ServeStep \/ ServeTick
    PROVE  ServeInv'
<1> USE ServeAssumption DEF ServeInv, TypesInv, CauseInv, DrainInv, Unhurried, Left,
        mainVars, serverVars, requestVars, ServeGoto
<1>1. CASE TakeSignal
  BY <1>1 DEF TakeSignal, Servers, Busy
<1>2. CASE TakeError
  <2>1. errCh # <<>> /\ mpc = "select" /\ errCh \in Seq({"error"})
    BY <1>2 DEF TakeError
  <2>2. Head(errCh) = "error" /\ Tail(errCh) \in Seq(Results)
    BY <2>1
  <2> QED
    BY <1>2, <2>1, <2>2 DEF TakeError, Servers, Results
<1>3. CASE Shutdown
  <2>1. listener' \in [Servers -> States] /\ listener'[srv] # "open"
        /\ \A s \in Servers : listener[s] # "open" => listener'[s] # "open"
    BY <1>3 DEF Shutdown, States
  <2> QED
    BY <1>3, <2>1 DEF Shutdown, Servers, Busy
<1>4. CASE Drained
  <2>1. /\ UNCHANGED <<mtls, cause, reads, signalled, listener, errCh, elapsed, pool, req, at>>
        /\ mpc = "drain"
    BY <1>4 DEF Drained
  <2>2. \/ AfterShutdown /\ UNCHANGED result /\ (Unhurried => ~Busy(srv))
        \/ Expired /\ ~mtls /\ mpc' = "close" /\ result' = "error" /\ UNCHANGED srv
    BY <1>4 DEF Drained, Expired
  <2>3. srv' \in Servers /\ mpc' \in {"shutdown", "collect", "close"}
        /\ (mpc' = "shutdown" => mtls /\ srv = "public" /\ srv' = "write")
        /\ (mpc' # "shutdown" => srv' = srv /\ (mtls => srv = "write"))
    BY <2>2 DEF AfterShutdown, Servers
  <2>4. Unhurried' => Unhurried /\ ~Busy(srv)
    BY <2>1, <2>2 DEF Expired
  <2>5. \A s \in Servers : Busy(s)' <=> Busy(s)
    BY <2>1 DEF Busy
  <2>6. ASSUME Unhurried', NEW s \in Servers, Left(s)' PROVE listener[s] # "open" /\ ~Busy(s)
    <3>1. s = srv \/ Left(s)
      BY <2>1, <2>3, <2>6 DEF Servers
    <3> QED
      BY <2>1, <2>4, <2>6, <3>1
  <2> QED
    BY <2>1, <2>2, <2>3, <2>4, <2>5, <2>6 DEF Servers, Results, Busy
<1>5. CASE Collect
  <2>1. errCh # <<>> /\ Head(errCh) \in Results /\ Tail(errCh) \in Seq(Results)
    BY <1>5 DEF Collect
  <2>2. result' \in Results /\ (result' = "nil" => result = "nil") /\ mpc' \in {"collect", "close"}
        /\ mpc = "collect" /\ errCh' = Tail(errCh)
        /\ UNCHANGED <<mtls, signalled, listener, cause, srv, elapsed, pool, req, at>>
    BY <1>5, <2>1 DEF Collect, Results
  <2>3. result = "error" => result' = "error"
    BY <1>5 DEF Collect
  <2> QED
    BY <2>1, <2>2, <2>3 DEF Servers, Busy
<1>6. CASE CloseDeps
  BY <1>6 DEF CloseDeps, Servers, Busy
<1>7. CASE Exit
  <2>1. /\ mpc = "release" /\ mpc' = "exited"
        /\ req' = [r \in Requests |-> IF req[r] = "active" THEN "cut" ELSE req[r]]
        /\ UNCHANGED <<cause, srv, reads, result, mtls, signalled, listener, errCh, elapsed, pool, at>>
    BY <1>7 DEF Exit
  <2>2. Unhurried => \A r \in Requests : ~Busy(at[r])
    BY <2>1
  <2>3. Unhurried => req' = req
    BY <2>1, <2>2 DEF Busy
  <2>4. TypesInv' /\ CauseInv'
    BY <2>1 DEF Servers, Phases
  <2> QED
    BY <2>1, <2>3, <2>4 DEF Servers, Busy
<1>8. CASE ServeTick
  BY <1>8 DEF ServeTick, Expired, Servers, Busy
<1> QED
  BY <1>1, <1>2, <1>3, <1>4, <1>5, <1>6, <1>7, <1>8 DEF ServeStep

(* ServeInvariant: a server whose Shutdown returned in time stays without a  *)
(* request, in every reachable state (serveDual, waitShutdown).              *)
THEOREM ServeInvariant == ServeSpec => []ServeInv
<1>1. ServeInv /\ [ServeNext]_serveVars => ServeInv'
  <2>1. ServeInv /\ UNCHANGED serveVars => ServeInv'
    BY DEF serveVars, serverVars, mainVars, requestVars, ServeInv, TypesInv, CauseInv, DrainInv,
           Unhurried, Left, Busy, Servers
  <2> QED
    BY <2>1, SurroundingsKeep, MainKeeps DEF ServeNext
<1> QED
  BY <1>1, ServeInitially, PTL DEF ServeSpec

(* CutOnlyAfterGrace: with any number of requests, none loses its pool or    *)
(* its process before the grace period is over.                              *)
THEOREM CutOnlyAfterGraceHolds == ServeSpec => []CutOnlyAfterGrace
<1>1. ServeInv => CutOnlyAfterGrace
  BY DEF ServeInv, DrainInv, Unhurried, CutOnlyAfterGrace
<1> QED
  BY <1>1, ServeInvariant, PTL

(* CleanExitCutNothing: a single server that exits with 0 has answered all   *)
(* of its requests, however many.                                            *)
THEOREM CleanExitCutNothingHolds == ServeSpec => []CleanExitCutNothing
<1>1. ServeInv => CleanExitCutNothing
  BY DEF ServeInv, CauseInv, DrainInv, Unhurried, CleanExitCutNothing
<1> QED
  BY <1>1, ServeInvariant, PTL
-----------------------------------------------------------------------------
(* errCh, for FailureIsReported.  What has been reported is in the channel   *)
(* or has been received, and an error that was received is the result.       *)
Error(q) == \E k \in 1..Len(q) : q[k] = "error"

ReportInv ==
    /\ reported \subseteq {s \in Servers : listener[s] # "open"}
    /\ reads \in Nat
    /\ cause # "error" => Len(errCh) + reads = Cardinality(reported)
    /\ mpc \in {"select", "shutdown", "drain"} => reads = 0
    /\ result = "nil" /\ cause # "error" =>
           \A s \in reported : listener[s] = "failed" => Error(errCh)
    /\ mpc \in {"close", "release", "exited"} /\ result = "nil" =>
           \A s \in Servers : listener[s] = "closed"

(* A subset of the servers has at most as many elements, and as many only if *)
(* it has all of them.                                                       *)
LEMMA ServerCount ==
    ASSUME NEW S \in SUBSET Servers
    PROVE  /\ IsFiniteSet(S) /\ Cardinality(S) \in Nat
           /\ Cardinality(S) >= Cardinality(Servers) => S = Servers
<1>1. IsFiniteSet(Servers)
  <2>1. IsFiniteSet({"public"})
    BY FS_Singleton
  <2>2. IsFiniteSet({"public"} \cup {"write"})
    BY <2>1, FS_AddElement
  <2>3. {"public"} \cup {"write"} = {"public", "write"}
    OBVIOUS
  <2> QED
    BY <2>1, <2>2, <2>3 DEF Servers
<1>2. IsFiniteSet(S) /\ Cardinality(S) <= Cardinality(Servers)
      /\ (Cardinality(S) = Cardinality(Servers) => S = Servers)
  BY <1>1, FS_Subset
<1>3. Cardinality(S) \in Nat /\ Cardinality(Servers) \in Nat
  BY <1>1, <1>2, FS_CardinalityType
<1> QED
  BY <1>2, <1>3

(* Every step keeps the account of the reports.                              *)
LEMMA ReportsKept == ServeInv /\ ReportInv /\ ServeNext => ReportInv'
<1> SUFFICES ASSUME ServeInv, ReportInv, ServeNext PROVE ReportInv'
  OBVIOUS
<1> USE DEF mainVars, serverVars, requestVars, ServeGoto
<1>1. CASE SignalServe \/ ServeTick \/ CloseDeps \/ Exit \/ TakeSignal
  BY <1>1 DEF SignalServe, ServeTick, CloseDeps, Exit, TakeSignal, ReportInv, Servers,
         ServeInv, CauseInv
<1>2. ASSUME NEW r \in Requests, Arrive(r) \/ Query(r) \/ QueryEnds(r) \/ Finish(r)
      PROVE  ReportInv'
  <2>1. UNCHANGED <<mtls, listener, reported, errCh, mpc, cause, reads, result>>
    BY <1>2 DEF Arrive, Query, QueryEnds, Finish, Becomes
  <2> QED
    BY <2>1 DEF ReportInv, Servers
<1>3. ASSUME NEW s \in Servers, ListenerFails(s) PROVE ReportInv'
  <2>1. /\ listener[s] = "open" /\ listener' = [listener EXCEPT ![s] = "failed"]
        /\ UNCHANGED <<mtls, reported, errCh, mpc, cause, reads, result>>
    BY <1>3 DEF ListenerFails
  <2>2. s \notin reported /\ ~(mpc \in {"close", "release", "exited"} /\ result = "nil")
    BY <2>1 DEF ReportInv
  <2> QED
    BY <2>1, <2>2 DEF ReportInv, Servers, ServeInv, TypesInv
<1>4. ASSUME NEW s \in Servers, Report(s) PROVE ReportInv'
  <2> DEFINE m == IF listener[s] = "failed" THEN "error" ELSE "nil"
  <2>1. /\ listener[s] # "open" /\ s \notin reported
        /\ reported' = reported \cup {s} /\ errCh' = Append(errCh, m)
        /\ UNCHANGED <<mtls, listener, mpc, cause, reads, result>>
    BY <1>4 DEF Report
  <2>2. errCh \in Seq(Results) /\ m \in Results
    BY DEF ServeInv, TypesInv, Results
  <2> HIDE DEF m
  <2>3. /\ Len(errCh') = Len(errCh) + 1 /\ errCh'[Len(errCh) + 1] = m /\ Len(errCh) \in Nat
        /\ \A k \in 1..Len(errCh) : errCh'[k] = errCh[k]
    BY <2>1, <2>2
  <2>4. Error(errCh) \/ m = "error" => Error(errCh')
    BY <2>3 DEF Error
  <2>5. Cardinality(reported') = Cardinality(reported) + 1 /\ Cardinality(reported) \in Nat
    <3>1. IsFiniteSet(reported) /\ Cardinality(reported) \in Nat
      BY ServerCount DEF ReportInv
    <3> QED
      BY <2>1, <3>1, FS_AddElement
  <2>6. listener[s] = "failed" => m = "error"
    BY DEF m
  <2> QED
    BY <2>1, <2>3, <2>4, <2>5, <2>6 DEF ReportInv, Servers, Error
<1>5. CASE TakeError
  BY <1>5 DEF TakeError, ReportInv, Servers, ServeInv, CauseInv
<1>6. CASE Shutdown
  <2>1. /\ UNCHANGED <<mtls, reported, errCh, cause, reads, result>> /\ mpc = "shutdown" /\ mpc' = "drain"
        /\ listener' = [listener EXCEPT ![srv] = IF @ = "open" THEN "closed" ELSE @]
    BY <1>6 DEF Shutdown
  <2>2. srv \in Servers /\ listener \in [Servers -> States]
    BY DEF ServeInv, TypesInv
  <2>3. \A s \in Servers : (listener[s] # "open" => listener'[s] = listener[s])
                           /\ (listener'[s] = "failed" => listener[s] = "failed")
    BY <2>1, <2>2
  <2> QED
    BY <2>1, <2>2, <2>3 DEF ReportInv, Servers
<1>7. CASE Drained
  <2>1. /\ UNCHANGED <<mtls, listener, reported, errCh, cause, reads>> /\ mpc = "drain"
        /\ \/ UNCHANGED result /\ mpc' \in {"shutdown", "collect", "close"}
              /\ (mpc' = "close" => cause # "signal")
           \/ result' = "error" /\ mpc' = "close"
    BY <1>7 DEF Drained, AfterShutdown
  <2>2. mpc' = "close" => result' = "error"
    BY <2>1 DEF ServeInv, CauseInv
  <2> QED
    BY <2>1, <2>2 DEF ReportInv, Servers
<1>8. CASE Collect
  <2>1. /\ mpc = "collect" /\ errCh # <<>> /\ errCh' = Tail(errCh) /\ reads' = reads + 1
        /\ result' = (IF result = "nil" THEN Head(errCh) ELSE result)
        /\ mpc' = (IF reads' = Cardinality(Servers) THEN "close" ELSE "collect")
        /\ UNCHANGED <<mtls, listener, reported, cause>>
    BY <1>8 DEF Collect
  <2>2. errCh \in Seq(Results) /\ Len(errCh) \in Nat /\ reads \in Nat
    BY DEF ServeInv, TypesInv, ReportInv
  <2>3. /\ Len(errCh') = Len(errCh) - 1 /\ Len(errCh') \in Nat /\ Head(errCh) = errCh[1]
        /\ \A k \in 1..Len(errCh') : errCh'[k] = errCh[k + 1]
    BY <2>1, <2>2
  <2>4. Head(errCh) = "nil" /\ Error(errCh) => Error(errCh')
    <3> SUFFICES ASSUME Head(errCh) = "nil", NEW k \in 1..Len(errCh), errCh[k] = "error"
                 PROVE  Error(errCh')
      BY DEF Error
    <3>1. k # 1
      BY <2>3
    <3>2. k - 1 \in 1..Len(errCh') /\ errCh'[k - 1] = errCh[k]
      BY <2>2, <2>3, <3>1
    <3> QED
      BY <3>2 DEF Error
  <2>5. result' = "nil" => result = "nil" /\ Head(errCh) = "nil"
    BY <2>1
  <2>6. cause # "error" => Len(errCh') + reads' = Cardinality(reported)
    BY <2>1, <2>2, <2>3 DEF ReportInv
  <2>7. result' = "nil" /\ cause # "error" =>
            \A s \in reported : listener[s] = "failed" => Error(errCh')
    BY <2>4, <2>5 DEF ReportInv
  <2>8. mpc' = "close" /\ result' = "nil" => \A s \in Servers : listener[s] = "closed"
    <3> SUFFICES ASSUME mpc' = "close", result' = "nil" PROVE \A s \in Servers : listener[s] = "closed"
      OBVIOUS
    <3>1. cause # "error"
      BY <2>5 DEF ServeInv, CauseInv
    <3>2. reads' = Cardinality(Servers)
      BY <2>1
    <3>3. reported \in SUBSET Servers
      BY DEF ReportInv
    <3>4. Cardinality(reported) >= Cardinality(Servers)
      BY <2>1, <2>2, <2>3, <2>6, <3>1, <3>2
    <3>5. reported = Servers
      BY <3>3, <3>4, ServerCount
    <3>6. Len(errCh') = 0
      BY <2>1, <2>2, <2>3, <2>6, <3>1, <3>2, <3>5
    <3>7. ~Error(errCh')
      BY <3>6 DEF Error
    <3> QED
      BY <2>7, <3>1, <3>5, <3>7 DEF ReportInv, ServeInv, TypesInv, States
  <2> QED
    BY <2>1, <2>2, <2>6, <2>7, <2>8 DEF ReportInv, Servers, Error
<1> QED
  BY <1>1, <1>2, <1>3, <1>4, <1>5, <1>6, <1>7, <1>8 DEF ServeNext, ServeStep

(* ReportInvariant: the account of errCh holds in every reachable state.     *)
THEOREM ReportInvariant == ServeSpec => []ReportInv
<1>1. ServeInit => ReportInv
  BY FS_EmptySet DEF ServeInit, ReportInv, Servers
<1>2. ServeInv /\ ReportInv /\ [ServeNext]_serveVars => ReportInv'
  <2>1. ReportInv /\ UNCHANGED serveVars => ReportInv'
    BY DEF serveVars, serverVars, mainVars, requestVars, ReportInv, Servers, Error
  <2> QED
    BY <2>1, ReportsKept
<1> QED
  BY <1>1, <1>2, ServeInvariant, PTL DEF ServeSpec

(* FailureIsReported: in whichever order the servers report and the signal   *)
(* comes, a listener that failed is the error with which the process exits.  *)
THEOREM FailureIsReportedHolds == ServeSpec => []FailureIsReported
<1>1. ReportInv => FailureIsReported
  BY DEF ReportInv, FailureIsReported
<1> QED
  BY <1>1, ReportInvariant, PTL

(* For PoolClosedLast.  A server that has been left accepts nothing, whether *)
(* its Shutdown returned in time or not; and a single server that is left    *)
(* without a Shutdown has failed, for it has sent a report (TakeError).      *)
GateInv == \A s \in Servers : Left(s) => listener[s] # "open"

LEMMA GatesStayShut == ServeInv /\ ReportInv /\ GateInv /\ ServeNext => GateInv'
<1> SUFFICES ASSUME ServeInv, ReportInv, GateInv, ServeNext PROVE GateInv'
  OBVIOUS
<1> USE DEF mainVars, serverVars, requestVars, ServeGoto, GateInv, Left
<1>1. CASE SignalServe \/ ServeTick \/ CloseDeps \/ Exit \/ TakeSignal \/ Collect
  BY <1>1 DEF SignalServe, ServeTick, CloseDeps, Exit, TakeSignal, Collect, Servers,
         ServeInv, CauseInv
<1>2. ASSUME NEW r \in Requests, Arrive(r) \/ Query(r) \/ QueryEnds(r) \/ Finish(r)
      PROVE  GateInv'
  BY <1>2 DEF Arrive, Query, QueryEnds, Finish, Becomes, Servers
<1>3. ASSUME NEW s \in Servers, ListenerFails(s) \/ Report(s) PROVE GateInv'
  BY <1>3 DEF ListenerFails, Report, Servers, ServeInv, TypesInv
<1>4. CASE TakeError
  <2>1. /\ errCh # <<>> /\ cause = "none" /\ srv = "public"
        /\ mpc' = IF mtls THEN "shutdown" ELSE "close"
        /\ UNCHANGED <<mtls, listener, srv>>
    BY <1>4 DEF TakeError, ServeInv, CauseInv
  <2>2. Cardinality(reported) # 0
    BY <2>1 DEF ReportInv, ServeInv, TypesInv
  <2>3. \E s \in Servers : listener[s] # "open"
    <3>1. reported # {}
      BY <2>2, FS_EmptySet
    <3> QED
      BY <3>1 DEF ReportInv
  <2> QED
    BY <2>1, <2>3 DEF Servers
<1>5. CASE Shutdown
  <2>1. /\ UNCHANGED <<mtls, srv>> /\ mpc = "shutdown" /\ mpc' = "drain"
        /\ \A s \in Servers : listener[s] # "open" => listener'[s] # "open"
    BY <1>5 DEF Shutdown, ServeInv, TypesInv
  <2> QED
    BY <2>1 DEF Servers
<1>6. CASE Drained
  <2>1. /\ UNCHANGED <<mtls, listener>> /\ mpc = "drain" /\ listener[srv] # "open"
        /\ \/ mtls /\ srv = "public" /\ srv' = "write" /\ mpc' = "shutdown"
           \/ ~(mtls /\ srv = "public") /\ srv' = srv /\ mpc' \in {"collect", "close"}
    BY <1>6 DEF Drained, AfterShutdown, ServeInv, DrainInv
  <2> QED
    BY <2>1 DEF Servers, ServeInv, TypesInv
<1> QED
  BY <1>1, <1>2, <1>3, <1>4, <1>5, <1>6 DEF ServeNext, ServeStep

(* PoolClosedLast: whoever fails or is told to stop, and whatever the grace  *)
(* periods and the number of requests, no server accepts a request when the  *)
(* pool is closed.                                                           *)
THEOREM PoolClosedLastHolds == ServeSpec => []PoolClosedLast
<1>1. ServeInit => GateInv
  BY DEF ServeInit, GateInv, Left
<1>2. ServeInv /\ ReportInv /\ GateInv /\ [ServeNext]_serveVars => GateInv'
  <2>1. GateInv /\ UNCHANGED serveVars => GateInv'
    BY DEF serveVars, serverVars, mainVars, requestVars, GateInv, Left, Servers
  <2> QED
    BY <2>1, GatesStayShut
<1>3. ServeInv /\ GateInv => PoolClosedLast
  BY DEF ServeInv, DrainInv, GateInv, Left, PoolClosedLast
<1> QED
  BY <1>1, <1>2, <1>3, ServeInvariant, ReportInvariant, PTL DEF ServeSpec
-----------------------------------------------------------------------------
(***************************************************************************)
(* A signal or the loss of the broker connection, at whatever step of the  *)
(* worker it comes: the job is kept, and a signal spends one of its        *)
(* attempts at most.                                                       *)
(***************************************************************************)
Handling == wpc \in {"lookup", "incr", "gen", "giveUp", "backoff", "ack", "nack"}

(* While the connection is there, the job in the handler or in the channel   *)
(* is the one that the broker holds for the worker.                          *)
DeliveryInv ==
    /\ Handling => cur \in Jobs
    /\ conn = "open" /\ Handling => unacked = cur /\ buffer = None
    /\ conn = "open" /\ buffer # None => unacked = buffer
    /\ conn = "lost" => unacked = None
    /\ wpc = "exited" => conn = "lost" /\ buffer = None
    /\ wpc = "ack" => status[cur] # "pending"

RunInv == RunTypeOK /\ stops <= faults /\ DeliveryInv /\ JobSurvivesStop

LEMMA RunInitially == RunInit => RunInv
<1> SUFFICES ASSUME RunInit PROVE RunInv
  OBVIOUS
<1> USE MaxFaultsAssumption, WorkerRunAssumption DEF RunInit, InitFaults
<1>1. RunTypeOK /\ stops <= faults
  <2>1. /\ status \in [Jobs -> {"pending", "ready", "failed"}]
        /\ attempts \in [Jobs -> Nat] /\ failures \in [Jobs -> Nat]
    OBVIOUS
  <2>2. stops \in 0..MaxFaults /\ faults \in 0..MaxFaults /\ stops <= faults
    OBVIOUS
  <2> QED
    BY <2>1, <2>2 DEF RunTypeOK
<1>2. DeliveryInv /\ JobSurvivesStop
  BY DEF DeliveryInv, JobSurvivesStop, Handling
<1> QED
  BY <1>1, <1>2 DEF RunInv

(* Every step keeps the types, and every signal is one of the faults.        *)
LEMMA RunTypes == RunInv /\ RunNext => RunTypeOK' /\ stops' <= faults'
<1> SUFFICES ASSUME RunInv, RunNext PROVE RunTypeOK' /\ stops' <= faults'
  OBVIOUS
<1> USE MaxFaultsAssumption, WorkerRunAssumption
        DEF RunInv, RunTypeOK, RunGoto, Release, jobVars, queueVars, processVars
<1>1. CASE Take \/ TakeDone \/ TakeClosed
  BY <1>1 DEF Take, TakeDone, TakeClosed
<1>2. CASE Lookup \/ Backoff
  BY <1>2 DEF Lookup, Backoff
<1>3. CASE CountAttempt
  BY <1>3 DEF CountAttempt, DeliveryInv, Handling
<1>4. CASE Generate
  BY <1>4 DEF Generate, GiveUpOrRetry, DeliveryInv, Handling
<1>5. CASE GiveUp
  BY <1>5 DEF GiveUp, DeliveryInv, Handling
<1>6. CASE Settle \/ Leave \/ Start
  BY <1>6 DEF Settle, Leave, Start
<1>7. CASE SignalWorker
  <2>1. stops' \in 0..MaxFaults
    BY <1>7 DEF SignalWorker, Fault
  <2> QED
    BY <1>7, <2>1 DEF SignalWorker, Fault
<1>8. CASE ConnectionLost
  BY <1>8 DEF ConnectionLost, Fault
<1>9. CASE \E j \in Jobs : Deliver(j)
  BY <1>9 DEF Deliver
<1> QED
  BY <1>1, <1>2, <1>3, <1>4, <1>5, <1>6, <1>7, <1>8, <1>9 DEF RunNext, RunStep

(* Every step keeps the job of the handler with the broker, and every job.   *)
LEMMA DeliveryKept == RunInv /\ RunNext => DeliveryInv' /\ JobSurvivesStop'
<1> SUFFICES ASSUME RunInv, RunNext PROVE DeliveryInv' /\ JobSurvivesStop'
  OBVIOUS
<1> USE WorkerRunAssumption
        DEF RunInv, RunTypeOK, DeliveryInv, Handling, JobSurvivesStop, RunGoto, Release,
            jobVars, queueVars, processVars
<1>1. CASE Take \/ TakeDone \/ TakeClosed
  BY <1>1 DEF Take, TakeDone, TakeClosed
<1>2. CASE Lookup \/ Backoff
  BY <1>2 DEF Lookup, Backoff
<1>3. CASE CountAttempt
  BY <1>3 DEF CountAttempt
<1>4. CASE Generate
  BY <1>4 DEF Generate, GiveUpOrRetry
<1>5. CASE GiveUp
  BY <1>5 DEF GiveUp
<1>6. CASE Settle
  BY <1>6 DEF Settle
<1>7. CASE Leave \/ Start
  BY <1>7 DEF Leave, Start
<1>8. CASE SignalWorker
  BY <1>8 DEF SignalWorker
<1>9. CASE ConnectionLost
  BY <1>9 DEF ConnectionLost
<1>10. CASE \E j \in Jobs : Deliver(j)
  BY <1>10 DEF Deliver
<1> QED
  BY <1>1, <1>2, <1>3, <1>4, <1>5, <1>6, <1>7, <1>8, <1>9, <1>10 DEF RunNext, RunStep

(* RunInvariant: the broker holds the job of the handler until it is settled.*)
THEOREM RunInvariant == RunSpec => []RunInv
<1>1. RunInv /\ [RunNext]_runVars => RunInv'
  <2>1. RunInv /\ UNCHANGED runVars => RunInv'
    BY DEF runVars, jobVars, queueVars, processVars, RunInv, RunTypeOK, DeliveryInv, Handling,
           JobSurvivesStop
  <2> QED
    BY <2>1, RunTypes, DeliveryKept DEF RunInv
<1> QED
  BY <1>1, RunInitially, PTL DEF RunSpec

(* JobSurvivesStop: for any number of jobs and attempts, no pending job is   *)
(* lost by a signal or a lost connection.                                    *)
THEOREM JobSurvivesStopHolds == RunSpec => []JobSurvivesStop
<1>1. RunInv => JobSurvivesStop
  BY DEF RunInv
<1> QED
  BY <1>1, RunInvariant, PTL
-----------------------------------------------------------------------------
(* The attempts that are explained by a failure, by a signal, or by the      *)
(* generation that runs; a signal that has come in time for the statement    *)
(* that counts is not spent yet.                                             *)
Explained(j) ==
    /\ (wpc = "incr" /\ cancelled /\ cur = j => attempts[j] < failures[j] + stops)
    /\ attempts[j] <= failures[j] + stops
                          + IF wpc = "gen" /\ ~cancelled /\ cur = j THEN 1 ELSE 0

AttemptsInv ==
    /\ RunInv
    /\ wpc \in {"incr", "gen"} => status[cur] = "pending"
    /\ \A j \in Jobs : status[j] # "ready" \/ (wpc = "giveUp" /\ cur = j) => Explained(j)

LEMMA AttemptsKept == AttemptsInv /\ RunNext => AttemptsInv'
<1> SUFFICES ASSUME AttemptsInv, RunNext PROVE AttemptsInv'
  OBVIOUS
<1>1. RunInv'
  BY RunTypes, DeliveryKept DEF AttemptsInv, RunInv
<1> USE <1>1, MaxFaultsAssumption, WorkerRunAssumption
        DEF AttemptsInv, RunInv, RunTypeOK, Explained, RunGoto, jobVars, queueVars, processVars
<1>2. CASE Take \/ TakeDone \/ TakeClosed
  BY <1>2 DEF Take, TakeDone, TakeClosed
<1>3. CASE Lookup \/ Backoff
  BY <1>3 DEF Lookup, Backoff, StatementWorks
<1>4. CASE CountAttempt
  BY <1>4 DEF CountAttempt, StatementWorks, DeliveryInv, Handling
<1>5. CASE Generate
  BY <1>5 DEF Generate, GiveUpOrRetry, DeliveryInv, Handling
<1>6. CASE GiveUp
  BY <1>6 DEF GiveUp, DeliveryInv, Handling
<1>7. CASE Settle \/ Leave \/ Start
  BY <1>7 DEF Settle, Leave, Start
<1>8. CASE SignalWorker
  BY <1>8 DEF SignalWorker
<1>9. CASE ConnectionLost
  BY <1>9 DEF ConnectionLost
<1>10. CASE \E j \in Jobs : Deliver(j)
  BY <1>10 DEF Deliver
<1> QED
  BY <1>2, <1>3, <1>4, <1>5, <1>6, <1>7, <1>8, <1>9, <1>10 DEF RunNext, RunStep

(* StopCostsOneAttempt: for any number of jobs and signals, an attempt that  *)
(* was counted is that of a failure, of a signal, or of the present run.     *)
THEOREM StopCostsOneAttemptHolds == RunSpec => []StopCostsOneAttempt
<1>1. RunInit => AttemptsInv
  BY RunInitially, MaxFaultsAssumption DEF RunInit, AttemptsInv, Explained
<1>2. AttemptsInv /\ [RunNext]_runVars => AttemptsInv'
  <2>1. AttemptsInv /\ UNCHANGED runVars => AttemptsInv'
    BY DEF runVars, jobVars, queueVars, processVars, AttemptsInv, Explained, RunInv, RunTypeOK,
           DeliveryInv, Handling, JobSurvivesStop
  <2> QED
    BY <2>1, AttemptsKept
<1>3. AttemptsInv => StopCostsOneAttempt
  BY MaxFaultsAssumption DEF AttemptsInv, RunInv, RunTypeOK, Explained, StopCostsOneAttempt
<1> QED
  BY <1>1, <1>2, <1>3, PTL DEF RunSpec
-----------------------------------------------------------------------------
(***************************************************************************)
(* The types of the three parts, and of the specification that the run     *)
(* checks, whose behaviours are those of one part each.                    *)
(***************************************************************************)

(* Each server sends one report, and each is received once at most: errCh,   *)
(* which has room for one report per server, is never full when one is sent. *)
CountInv == /\ signalled \in BOOLEAN
            /\ mpc \in {"select", "shutdown", "drain", "collect", "close", "release", "exited"}
            /\ reported \subseteq Servers
            /\ reads \in Nat
            /\ Len(errCh) + reads <= Cardinality(reported)

LEMMA CountInitially == ServeInit => CountInv
<1> SUFFICES ASSUME ServeInit PROVE CountInv
  OBVIOUS
<1>1. Cardinality(reported) = 0
  BY FS_EmptySet DEF ServeInit
<1>2. Len(errCh) = 0
  BY DEF ServeInit
<1>3. reads = 0
  BY DEF ServeInit
<1>4. signalled \in BOOLEAN /\ mpc = "select" /\ reported \subseteq Servers
  BY DEF ServeInit
<1> QED
  BY <1>1, <1>2, <1>3, <1>4 DEF CountInv

LEMMA CountKept == ServeInv /\ CountInv /\ [ServeNext]_serveVars => CountInv'
<1> SUFFICES ASSUME ServeInv, CountInv, [ServeNext]_serveVars PROVE CountInv'
  OBVIOUS
<1> USE DEF CountInv, serverVars, mainVars, requestVars, ServeGoto
<1>1. errCh \in Seq(Results) /\ Len(errCh) \in Nat /\ Cardinality(reported) \in Nat
  BY ServerCount DEF ServeInv, TypesInv
<1> DEFINE steps == {"select", "shutdown", "drain", "collect", "close", "release", "exited"}
<1>0. ASSUME UNCHANGED <<mtls, errCh, reported, reads>>, signalled' \in BOOLEAN, mpc' \in steps
      PROVE  CountInv'
  <2>1. Servers' = Servers
    BY <1>0 DEF Servers
  <2> QED
    BY <1>0, <2>1
<1>2. CASE UNCHANGED serveVars
  BY <1>0, <1>2 DEF serveVars
<1>3. ASSUME NEW s \in Servers, Report(s) PROVE CountInv'
  <2> DEFINE m == IF listener[s] = "failed" THEN "error" ELSE "nil"
  <2>1. m \in Results /\ errCh' = Append(errCh, m)
    BY <1>3 DEF Report, Results
  <2> HIDE DEF m
  <2>2. Len(errCh') = Len(errCh) + 1
    BY <1>1, <2>1
  <2>3. s \notin reported /\ reported' = reported \cup {s} /\ UNCHANGED <<mtls, signalled, mpc, reads>>
    BY <1>3 DEF Report
  <2>4. Cardinality(reported') = Cardinality(reported) + 1
    BY <2>3, ServerCount, FS_AddElement
  <2> QED
    BY <1>1, <2>2, <2>3, <2>4 DEF Servers
<1>4. CASE TakeError \/ Collect
  <2>1. /\ errCh # <<>> /\ errCh' = Tail(errCh) /\ reads' \in {reads, reads + 1}
        /\ UNCHANGED <<mtls, signalled, reported>>
        /\ mpc' \in {"shutdown", "collect", "close"}
    BY <1>4 DEF TakeError, Collect
  <2>2. Len(errCh') = Len(errCh) - 1
    BY <1>1, <2>1
  <2> QED
    BY <1>1, <2>1, <2>2 DEF Servers
<1>5. CASE SignalServe \/ ServeTick \/ CloseDeps \/ Exit \/ TakeSignal \/ Shutdown
  <2>1. UNCHANGED <<mtls, errCh, reported, reads>>
    BY <1>5 DEF SignalServe, ServeTick, CloseDeps, Exit, TakeSignal, Shutdown
  <2>2. signalled' \in BOOLEAN /\ mpc' \in steps
    BY <1>5 DEF SignalServe, ServeTick, CloseDeps, Exit, TakeSignal, Shutdown
  <2> QED
    BY <1>0, <2>1, <2>2
<1>6. CASE Drained
  <2>1. UNCHANGED <<mtls, errCh, reported, reads, signalled>> /\ mpc' \in steps
    BY <1>6 DEF Drained, AfterShutdown
  <2> QED
    BY <1>0, <2>1
<1>7. ASSUME NEW s \in Servers, ListenerFails(s) PROVE CountInv'
  BY <1>0, <1>7 DEF ListenerFails
<1>8. ASSUME NEW r \in Requests, Arrive(r) \/ Query(r) \/ QueryEnds(r) \/ Finish(r)
      PROVE  CountInv'
  <2>1. UNCHANGED <<mtls, errCh, reported, reads, signalled, mpc>>
    BY <1>8 DEF Arrive, Query, QueryEnds, Finish, Becomes
  <2> QED
    BY <1>0, <2>1
<1> QED
  BY <1>2, <1>3, <1>4, <1>5, <1>6, <1>7, <1>8 DEF ServeNext, ServeStep

LEMMA CountTypes == ServeInv /\ CountInv => ServeTypeOK
<1> SUFFICES ASSUME ServeInv, CountInv PROVE ServeTypeOK
  OBVIOUS
<1>1. errCh \in Seq(Results) /\ Len(errCh) \in Nat /\ reads \in Nat
  BY DEF ServeInv, TypesInv, CountInv
<1>2. /\ Cardinality(reported) \in Nat /\ Cardinality(Servers) \in Nat
      /\ Cardinality(reported) <= Cardinality(Servers)
  <2>1. reported \in SUBSET Servers /\ Servers \in SUBSET Servers
    BY DEF CountInv
  <2>2. IsFiniteSet(Servers)
    BY <2>1, ServerCount
  <2> QED
    BY <2>1, <2>2, ServerCount, FS_Subset
<1>3. Len(errCh) <= Cardinality(Servers) /\ reads \in 0..Cardinality(Servers)
  BY <1>1, <1>2 DEF CountInv
<1> QED
  BY <1>1, <1>3 DEF ServeTypeOK, ServeInv, TypesInv, CauseInv, CountInv, States, Phases

(* The goroutine of a server never blocks on errCh, in whatever order the    *)
(* servers end and the main goroutine receives (main.go serveDual).          *)
THEOREM ServeTypes == ServeSpec => []ServeTypeOK
<1>1. ServeInit => CountInv
  BY CountInitially
<1> QED
  BY <1>1, CountKept, CountTypes, ServeInvariant, PTL DEF ServeSpec

(* Attempts, signals and faults stay in their ranges, and the worker's       *)
(* message is a job or none.                                                 *)
THEOREM RunTypesHold == RunSpec => []RunTypeOK
<1>1. RunInv => RunTypeOK
  BY DEF RunInv
<1> QED
  BY <1>1, RunInvariant, PTL

(* While one part moves the others rest, and resting has its types too.      *)
PartsInv == /\ part \in {"start", "serve", "run"}
            /\ StartTypeOK /\ ServeInv /\ CountInv /\ RunTypeOK
            /\ part = "run" => RunInv

LEMMA PartsInitially ==
    ASSUME MaxFaults > 0, Compose \in Environments, Init
    PROVE  PartsInv
<1> USE MaxFaultsAssumption, StartupAssumption DEF Init, InitFaults
<1>1. faults \in 0..MaxFaults
  OBVIOUS
<1>2. StartTypeOK
  <2>1. CASE StartInit
    BY <1>1, <2>1 DEF StartInit, StartTypeOK
  <2>2. CASE StartRests
    BY <1>1, <2>2 DEF StartRests, StartTypeOK
  <2> QED
    BY <2>1, <2>2
<1>3. ServeInv /\ CountInv
  <2>1. CASE ServeInit
    BY <2>1, ServeInitially, CountInitially
  <2>2. CASE ServeRests
    <3>1. Servers = {"public"}
      BY <2>2 DEF ServeRests, Servers
    <3>2. TypesInv
      <4>1. errCh \in Seq(Results)
        BY <2>2 DEF ServeRests
      <4> QED
        BY <2>2, <3>1, <4>1 DEF ServeRests, TypesInv, States, Phases
    <3>3. CauseInv
      BY <2>2 DEF ServeRests, CauseInv, Results
    <3>4. DrainInv
      BY <2>2, <3>1, ServeAssumption DEF ServeRests, DrainInv, Unhurried, Left, Busy
    <3>5. CountInv
      <4>1. Cardinality({"public"}) = 1
        BY FS_Singleton
      <4> QED
        BY <2>2, <3>1, <4>1 DEF ServeRests, CountInv
    <3> QED
      BY <3>2, <3>3, <3>4, <3>5 DEF ServeInv
  <2> QED
    BY <2>1, <2>2
<1>4. RunTypeOK /\ (part = "run" => RunInv)
  <2>1. CASE part = "run"
    BY <2>1, RunInitially DEF RunInv
  <2>2. CASE RunRests /\ part # "run"
    <3>1. 1 \in Nat /\ 0 \in Nat /\ 1 \in 0..MaxFaults
      OBVIOUS
    <3>2. status \in [Jobs -> {"pending", "ready", "failed"}] /\ attempts \in [Jobs -> Nat]
          /\ failures \in [Jobs -> Nat]
      BY <2>2, <3>1 DEF RunRests
    <3> QED
      BY <1>1, <2>2, <3>1, <3>2 DEF RunRests, RunTypeOK
  <2> QED
    BY <2>1, <2>2
<1> QED
  BY <1>2, <1>3, <1>4 DEF PartsInv

LEMMA PartsKept == PartsInv /\ [Next]_vars => PartsInv'
<1> SUFFICES ASSUME PartsInv, [Next]_vars PROVE PartsInv'
  OBVIOUS
<1>1. ASSUME UNCHANGED serveVars PROVE ServeInv' /\ CountInv'
  <2>1. CountInv'
    BY <1>1, CountKept DEF PartsInv
  <2>2. ServeInv'
    BY <1>1 DEF PartsInv, serveVars, serverVars, mainVars, requestVars, ServeInv, TypesInv,
                CauseInv, DrainInv, Servers, Unhurried, Left, Busy
  <2> QED
    BY <2>1, <2>2
<1>2. ASSUME UNCHANGED runPart, faults' \in 0..MaxFaults PROVE RunTypeOK'
  BY <1>2 DEF PartsInv, runPart, jobVars, queueVars, processVars, RunTypeOK
<1>3. ASSUME UNCHANGED startPart, faults' \in 0..MaxFaults PROVE StartTypeOK'
  BY <1>3 DEF PartsInv, startPart, stores, StartTypeOK
<1>4. faults \in 0..MaxFaults
  BY DEF PartsInv, StartTypeOK
<1>5. CASE part = "start" /\ StartNext /\ UNCHANGED <<serveVars, runPart, part>>
  <2>1. StartTypeOK'
    BY <1>5, StartMoves, DepsMove DEF PartsInv, StartNext
  <2> QED
    BY <1>1, <1>2, <1>5, <2>1 DEF PartsInv, StartTypeOK
<1>6. CASE part = "serve" /\ ServeNext /\ UNCHANGED <<startPart, runPart, faults, part>>
  <2>1. CountInv'
    BY <1>6, CountKept DEF PartsInv
  <2>2. ServeInv'
    BY <1>6, SurroundingsKeep, MainKeeps DEF PartsInv, ServeNext
  <2> QED
    BY <1>2, <1>3, <1>4, <1>6, <2>1, <2>2 DEF PartsInv
<1>7. CASE part = "run" /\ RunNext /\ UNCHANGED <<startPart, serveVars, part>>
  <2>1. RunInv'
    BY <1>7, RunTypes, DeliveryKept DEF PartsInv, RunInv
  <2> QED
    BY <1>1, <1>3, <1>7, <2>1 DEF PartsInv, RunInv, RunTypeOK
<1>8. CASE UNCHANGED vars
  <2>1. part = "run" => RunInv'
    BY <1>8 DEF vars, runPart, jobVars, queueVars, processVars, PartsInv, RunInv, RunTypeOK,
                DeliveryInv, Handling, JobSurvivesStop
  <2> QED
    BY <1>1, <1>2, <1>3, <1>4, <1>8, <2>1 DEF vars, PartsInv
<1> QED
  BY <1>5, <1>6, <1>7, <1>8 DEF Next

(* The types that the run of the three parts checks.  One fault must be      *)
(* possible, because the worker that rests had been told to stop, and        *)
(* Compose's settings must be among those that are tried.                    *)
THEOREM ProcessTypes ==
    ASSUME MaxFaults > 0, Compose \in Environments
    PROVE  Spec => []TypeOK
<1>1. Init => PartsInv
  BY PartsInitially
<1>2. PartsInv => TypeOK
  BY CountTypes DEF PartsInv, TypeOK
<1> QED
  BY <1>1, <1>2, PartsKept, PTL DEF Spec
=============================================================================
