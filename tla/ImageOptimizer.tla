--------------------------- MODULE ImageOptimizer ---------------------------
(***************************************************************************)
(* The API process and the workers over one database, one bucket and one   *)
(* queue: every GET, HEAD and DELETE request and every worker is a process,*)
(* and their calls interleave freely.                                      *)
(***************************************************************************)
EXTENDS Resolve, Worker, Delete

CONSTANTS Uploaded,         \* the images stored when the behaviour begins
          Cached            \* and those of their variants that are ready

ASSUME InitialAssumption == /\ Uploaded \subseteq Images
                            /\ Cached \subseteq {v \in Variants : ImageOf[v] \in Uploaded}

vars == <<faults, storeVars, blobVars, brokerVars, genVars, requestVars,
          workerVars, deleteVars>>

TypeOK == /\ faults \in 0..MaxFaults
          /\ StoreTypeOK /\ BlobsTypeOK /\ BrokerTypeOK /\ GenTypeOK
          /\ ResolveTypeOK /\ WorkerTypeOK /\ DeleteTypeOK

Init == /\ InitFaults
        /\ imageRows = Uploaded
        /\ status = [v \in Variants |-> IF v \in Cached THEN "ready" ELSE "absent"]
        /\ attempts = [v \in Variants |-> 0]
        /\ originals = Uploaded
        /\ avifs = Cached
        /\ queue = [v \in Variants |-> 0]
        /\ unacked = [w \in Workers |-> None]
        /\ job = [p \in Procs |-> None]
        /\ gen = [p \in Procs |-> "off"]
        /\ ResolveInit
        /\ WorkerInit
        /\ DeleteInit

RequestNext(r) == /\ RequestStep(r) \/ RequestFails(r)
                  /\ UNCHANGED <<workerVars, deleteVars>>

WorkerNext(w) == /\ WorkerStep(w) \/ WorkerFails(w)
                 /\ UNCHANGED <<requestVars, deleteVars>>

DeleteNext(d) == /\ DeleteStep(d) \/ DeleteFails(d)
                 /\ UNCHANGED <<brokerVars, genVars, requestVars, workerVars>>

Next == \/ \E r \in Requests : RequestNext(r)
        \/ \E w \in Workers : WorkerNext(w)
        \/ \E d \in Deleters : DeleteNext(d)

Spec == Init /\ [][Next]_vars

(***************************************************************************)
(* Fairness: a handler that has begun is run to its end, since each of its *)
(* calls returns or fails, and a worker takes messages while there are any.*)
(* Nothing obliges a client to send a request or a call to fail, so no     *)
(* process makes progress only because of its failures.                    *)
(***************************************************************************)
ServeRequest(r) == /\ rpc[r] # "start"
                   /\ RequestStep(r)
                   /\ UNCHANGED <<workerVars, deleteVars>>

ServeDelete(d) == /\ dpc[d] # "start"
                  /\ DeleteStep(d)
                  /\ UNCHANGED <<brokerVars, genVars, requestVars, workerVars>>

RunWorker(w) == WorkerStep(w) /\ UNCHANGED <<requestVars, deleteVars>>

Fairness == /\ \A r \in Requests : WF_vars(ServeRequest(r))
            /\ \A d \in Deleters : WF_vars(ServeDelete(d))
            /\ \A w \in Workers : WF_vars(RunWorker(w))

FairSpec == Spec /\ Fairness
-----------------------------------------------------------------------------
Holders(v) == {w \in Workers : unacked[w] = v}

InFlight(v) == queue[v] > 0 \/ Holders(v) # {}

(* At most one message names a variant, in the queue or with a worker: only *)
(* the request whose INSERT created the row publishes (created, variants.go *)
(* UpsertPendingVariant), and a redelivery moves the message, never copies. *)
SingleJob == /\ \A v \in Variants : queue[v] <= 1 /\ (queue[v] = 1 => Holders(v) = {})
             /\ \A w1, w2 \in Workers :
                    unacked[w1] = unacked[w2] /\ unacked[w1] # None => w1 = w2

(* A variant is failed only after its attempts are used up: MarkFailed is   *)
(* reached with attempts >= maxAttempts, whatever requests and other        *)
(* workers did to the row since (worker.go process).                        *)
FailedExhausted == \A v \in Variants : status[v] = "failed" => attempts[v] >= MaxAttempts

(* Attempts beyond maxAttempts are paid for by faults, one each: a crash,   *)
(* a lost connection or a lost reply makes the job run once more.           *)
AttemptsWithinBudget == \A v \in Variants : attempts[v] <= MaxAttempts + faults

(* A job is not dropped while its variant is pending: its message leaves    *)
(* the broker only when the row is ready, failed or gone, although worker   *)
(* looked at the row several steps before it acknowledges.                  *)
JobKept == [][\A v \in Variants : InFlight(v) /\ ~InFlight(v)' => status[v] # "pending"]_vars

(* A ready row has its object, and the original it can be made from again,  *)
(* until a DELETE of the image begins on its files (TransformAndPersist     *)
(* writes before it marks; nothing else removes objects).                   *)
ReadyHasObject == \A v \in Variants :
    status[v] = "ready" /\ ~Doomed(ImageOf[v]) => v \in avifs /\ ImageOf[v] \in originals

(* 404 is only answered when the image is gone at that moment, also by the  *)
(* poll that finds no variant row (waitOrSync: "image not found").          *)
NotFoundIsTrue == [][\A r \in Requests :
    rcode'[r] = 404 /\ rcode[r] # 404 => ~HasImage(ImageOf[job[r]])]_vars

(* 204 is final: the image row and all variant rows are gone and stay gone, *)
(* also when a request passed its image check before the delete and inserts *)
(* its variant after it.                                                    *)
DeletedRowsGone == \A d \in Deleters :
    dcode[d] = 204 => /\ ~HasImage(dimg[d])
                      /\ \A v \in VariantsOf(dimg[d]) : ~HasVariant(v)

(* The row, which names the files, outlives the original: a DELETE whose    *)
(* file deletion failed leaves the row, so that it can be repeated.         *)
RowOutlivesOriginal == \A i \in originals : HasImage(i)

(* The documentation says, and the code does not do, the following.         *)

(* "204 = removed (MinIO objects + Postgres rows)" (README.md): nothing of  *)
(* the image is left once no process works on it any more.                  *)
DeleteLeavesNothing == \A d \in Deleters :
    dcode[d] = 204 /\ (\A p \in Procs : gen[p] = "off")
        => avifs \cap VariantsOf(dimg[d]) = {}

(* ready is a "terminal status" (worker.go): only a delete ends it.         *)
ReadyIsTerminal == [][\A v \in Variants :
    status[v] = "ready" => status'[v] \in {"ready", "absent"}]_vars

(* "max 3 attempts" (README.md).                                            *)
MaxThreeAttempts == \A v \in Variants : attempts[v] <= MaxAttempts

(* A pending row whose publish failed is removed, "so a later GET can       *)
(* UpsertPending+Publish again" (variants.go DeletePendingVariant): when the*)
(* request that created a row has ended and the row is still pending, a     *)
(* message stands behind it.                                                *)
PendingHasJob == \A r \in Requests :
    via[r] = "miss" /\ rpc[r] = "done" /\ status[job[r]] = "pending" => InFlight(job[r])

(* cache_hits_total: "GET requests that served a ready variant" (metrics.go),*)
(* and likewise for the misses and the pending ones.                        *)
CountedIsServed == \A r \in Requests : counted[r] /\ rcode[r] # 0 => rcode[r] = 200
-----------------------------------------------------------------------------
(* Every request that begins is answered, or dies with the API process.     *)
EveryRequestEnds == \A r \in Requests : rpc[r] # "start" ~> rpc[r] = "done"

(* Every message is consumed for good once faults stop: no job is requeued  *)
(* and redelivered for ever.                                                *)
EveryJobSettles == \A v \in Variants : InFlight(v) ~> ~InFlight(v)

(* Every DELETE ends, however many pages it lists while variants are being  *)
(* written under the prefix.                                                *)
EveryDeleteEnds == \A d \in Deleters : dpc[d] # "start" ~> dpc[d] \in {"refused", "done"}
=============================================================================
