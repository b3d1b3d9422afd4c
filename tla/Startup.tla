------------------------------ MODULE Startup ------------------------------
(***************************************************************************)
(* How the API and worker processes start: config.Load, then (API only)    *)
(* Migrate, then the pool, the bucket, the queue, and for an API with mTLS *)
(* its certificate authority.  All start at once against dependencies that *)
(* may not be up yet; a process that fails exits with 1 and is restarted   *)
(* (restart: on-failure).  A setting that is given but "bad" is one with   *)
(* which what it names cannot be read or used.                             *)
(***************************************************************************)
EXTENDS FaultBudget

CONSTANTS Apis, Workers,    \* processes
          Environments      \* settings to start with: variable -> "unset", "ok"
                            \*   or "bad"; MTLS_ENABLED may be "true" or "false"

required == {"DATABASE_URL", "RABBITMQ_URL", "IMGPROXY_URL", "S3_ENDPOINT", "S3_REGION",
             "S3_BUCKET", "S3_ACCESS_KEY", "S3_SECRET_KEY"}
tls == {"TLS_CERT_FILE", "TLS_KEY_FILE", "TLS_CLIENT_CA_FILE", "WRITE_HTTP_ADDR"}
numbers == {"MAX_UPLOAD_BYTES", "RETRY_AFTER_SECONDS", "DEFAULT_QUALITY",
            "SYNC_TRANSFORM_TIMEOUT"}
settings == required \cup tls \cup numbers \cup {"S3_USE_PATH_STYLE", "MTLS_ENABLED"}

ASSUME StartupAssumption ==
    /\ Apis \cap Workers = {}
    /\ Environments \subseteq [settings -> {"unset", "ok", "bad", "true", "false"}]

Procs == Apis \cup Workers
Deps == {"postgres", "minio", "rabbitmq"}

(* The settings with which a dependency is called. *)
Address == [postgres |-> {"DATABASE_URL"},
            minio    |-> {"S3_ENDPOINT", "S3_REGION", "S3_BUCKET", "S3_ACCESS_KEY", "S3_SECRET_KEY"},
            rabbitmq |-> {"RABBITMQ_URL"}]

VARIABLES env,              \* the settings, the same for every process
          up,               \* the dependencies that can be reached
          versions,         \* goose_db_version has been created
          tables,           \* the schema has been created
          bucket,           \* the bucket has been created
          pc                \* the next step of a process

stores == <<versions, tables, bucket>>
startVars == <<env, up, stores, pc, faults>>

StartTypeOK == /\ env \in Environments
               /\ up \subseteq Deps
               /\ versions \in BOOLEAN /\ tables \in BOOLEAN /\ bucket \in BOOLEAN
               /\ pc \in [Procs -> {"load", "version", "versionTable", "migrate", "pool", "head",
                                    "create", "connect", "tls", "running",
                                    "refused", "failed", "stopped"}]
               /\ faults \in 0..MaxFaults

StartInit == /\ InitFaults
             /\ env \in Environments
             /\ up \in SUBSET Deps
             /\ versions \in BOOLEAN /\ tables \in BOOLEAN /\ bucket \in BOOLEAN
             /\ tables => versions
             /\ pc = [p \in Procs |-> "load"]
-----------------------------------------------------------------------------
WithMTLS == env["MTLS_ENABLED"] = "true"

(* config.Load returns no error. *)
Load == /\ \A name \in required : env[name] # "unset"
        /\ env["S3_USE_PATH_STYLE"] \notin {"unset", "bad"}
        /\ env["MTLS_ENABLED"] # "bad"
        /\ WithMTLS => \A name \in tls : env[name] # "unset"
        /\ \A name \in numbers : env[name] # "bad"

(* A call to a dependency succeeds. *)
Reaches(dep) == dep \in up /\ \A name \in Address[dep] : env[name] # "bad"

StartGoto(p, step) == pc' = [pc EXCEPT ![p] = step]

(* Mutant of Fail: main returns without os.Exit(1).                         *)
FailWithZero(p) == StartGoto(p, "stopped")

(* The error is returned to main, which exits with 1. *)
Fail(p) == StartGoto(p, "failed")

LoadConfig(p) == /\ pc[p] = "load"
                 /\ StartGoto(p, IF ~Load THEN "refused" ELSE IF p \in Apis THEN "version" ELSE "pool")
                 /\ UNCHANGED <<env, up, stores, faults>>

(* Mutant of ReadVersion: an unreachable database is only logged.           *)
ReadVersionLeniently(p) ==
    /\ pc[p] = "version"
    /\ StartGoto(p, IF ~Reaches("postgres") \/ tables THEN "pool"
                    ELSE IF versions THEN "migrate" ELSE "versionTable")
    /\ UNCHANGED <<env, up, stores, faults>>

(* goose.Up reads which migrations have been applied.                       *)
ReadVersion(p) == /\ pc[p] = "version"
                  /\ \/ ~Reaches("postgres") /\ Fail(p)
                     \/ Reaches("postgres") /\ ~versions /\ StartGoto(p, "versionTable")
                     \/ Reaches("postgres") /\ versions /\ ~tables /\ StartGoto(p, "migrate")
                     \/ Reaches("postgres") /\ tables /\ StartGoto(p, "pool")
                  /\ UNCHANGED <<env, up, stores, faults>>

(* On a fresh database goose.Up first creates the table that it reads.  Its *)
(* CREATE TABLE, like the schema's, fails when another process was faster.  *)
CreateVersionTable(p) == /\ pc[p] = "versionTable"
                         /\ IF Reaches("postgres") /\ ~versions
                            THEN StartGoto(p, "version") /\ versions' = TRUE
                            ELSE Fail(p) /\ UNCHANGED versions
                         /\ UNCHANGED <<env, up, tables, bucket, faults>>

ApplyMigration(p) == /\ pc[p] = "migrate"
                     /\ IF Reaches("postgres") /\ ~tables
                        THEN StartGoto(p, "pool") /\ tables' = TRUE
                        ELSE Fail(p) /\ UNCHANGED tables
                     /\ UNCHANGED <<env, up, versions, bucket, faults>>

OpenPool(p) == /\ pc[p] = "pool"
               /\ IF Reaches("postgres") THEN StartGoto(p, "head") ELSE Fail(p)
               /\ UNCHANGED <<env, up, stores, faults>>

HeadBucket(p) == /\ pc[p] = "head"
                 /\ IF ~Reaches("minio") THEN Fail(p)
                    ELSE StartGoto(p, IF bucket THEN "connect" ELSE "create")
                 /\ UNCHANGED <<env, up, stores, faults>>

(* Mutant of CreateBucket: that the bucket exists by now is an error.       *)
CreateBucketOnce(p) == /\ pc[p] = "create"
                       /\ IF Reaches("minio") /\ ~bucket
                          THEN StartGoto(p, "connect") /\ bucket' = TRUE
                          ELSE Fail(p) /\ UNCHANGED bucket
                       /\ UNCHANGED <<env, up, versions, tables, faults>>

(* BucketAlreadyOwnedByYou and BucketAlreadyExists are no errors. *)
CreateBucket(p) == /\ pc[p] = "create"
                   /\ IF Reaches("minio") THEN StartGoto(p, "connect") /\ bucket' = TRUE
                                        ELSE Fail(p) /\ UNCHANGED bucket
                   /\ UNCHANGED <<env, up, versions, tables, faults>>

ConnectQueue(p) == /\ pc[p] = "connect"
                   /\ IF ~Reaches("rabbitmq") THEN Fail(p)
                      ELSE StartGoto(p, IF p \in Apis /\ WithMTLS THEN "tls" ELSE "running")
                   /\ UNCHANGED <<env, up, stores, faults>>

(* clientAuthTLSConfig reads the file. *)
LoadClientCA(p) == /\ pc[p] = "tls"
                   /\ IF env["TLS_CLIENT_CA_FILE"] = "ok" THEN StartGoto(p, "running") ELSE Fail(p)
                   /\ UNCHANGED <<env, up, stores, faults>>

StartStep(p) ==
    \/ LoadConfig(p) \/ ReadVersion(p) \/ CreateVersionTable(p) \/ ApplyMigration(p)
    \/ OpenPool(p) \/ HeadBucket(p) \/ CreateBucket(p) \/ ConnectQueue(p) \/ LoadClientCA(p)

StartAgain(p) == /\ pc[p] \in {"refused", "failed"}
                 /\ StartGoto(p, "load")
                 /\ UNCHANGED <<env, up, stores, faults>>

ComesUp(dep) == /\ dep \notin up
                /\ up' = up \cup {dep}
                /\ UNCHANGED <<env, stores, pc, faults>>

GoesDown(dep) == /\ dep \in up
                 /\ up' = up \ {dep}
                 /\ Fault
                 /\ UNCHANGED <<env, stores, pc>>

StartNext == \/ \E p \in Procs : StartStep(p) \/ StartAgain(p)
             \/ \E dep \in Deps : ComesUp(dep) \/ GoesDown(dep)

(* A process runs on and is restarted, and what is down comes up again.     *)
StartFairness ==
    /\ \A p \in Procs : WF_startVars(StartStep(p)) /\ WF_startVars(StartAgain(p))
    /\ \A dep \in Deps : WF_startVars(ComesUp(dep))

StartSpec == StartInit /\ [][StartNext]_startVars /\ StartFairness
-----------------------------------------------------------------------------
(* What the calls at a step need. *)
Needs == [version |-> "postgres", versionTable |-> "postgres", migrate |-> "postgres",
          pool |-> "postgres", head |-> "minio", create |-> "minio", connect |-> "rabbitmq"]

(* A process fails only for want of the dependency that it is calling; an   *)
(* API with mTLS also for want of its certificate authority; and an API     *)
(* that found goose_db_version or the schema missing also because another   *)
(* one has created it since.  That another process made the bucket after it *)
(* was found missing harms nobody (storage.go ensureBucket), and a worker   *)
(* neither migrates nor reads certificates (main.go runServe, runWorker).   *)
FailsOnlyIfDown == [][\A p \in Procs :
    pc[p] # "failed" /\ pc'[p] = "failed" =>
        \/ pc[p] \in DOMAIN Needs /\ ~Reaches(Needs[pc[p]])
        \/ p \in Apis /\ WithMTLS /\ pc[p] = "tls" /\ env["TLS_CLIENT_CA_FILE"] # "ok"
        \/ p \in Apis /\ pc[p] = "versionTable" /\ versions
        \/ p \in Apis /\ pc[p] = "migrate" /\ tables]_startVars

(* An API that serves has its schema and its bucket, whoever made them, and *)
(* a worker its bucket (main.go runServe, runWorker).                       *)
RunningHasStores == \A p \in Procs :
    pc[p] = "running" => bucket /\ (p \in Apis => tables)

(* Several APIs and workers that start at once with good settings all get   *)
(* to run, although of two that create a table at once one fails; only an   *)
(* API with mTLS needs a certificate authority that can be read.            *)
EveryProcessStarts ==
    Load /\ (\A dep \in Deps : \A name \in Address[dep] : env[name] # "bad") =>
        \A p \in Procs :
            (p \in Apis /\ WithMTLS => env["TLS_CLIENT_CA_FILE"] = "ok") => <>(pc[p] = "running")
=============================================================================
