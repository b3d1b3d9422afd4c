------------------------------ MODULE Resolve ------------------------------
(***************************************************************************)
(* internal/http: GET and HEAD /images/{id}, from resolveVariant to the    *)
(* answer.  rpc[r] is the next call request r makes to the database, the   *)
(* queue, the bucket or TransformAndPersist; between two calls every other *)
(* request, worker and delete may run.  A request is served once.          *)
(***************************************************************************)
EXTENDS VariantGen

CONSTANT HeadRequests       \* the requests that are HEAD

ASSUME ResolveAssumption == /\ HeadRequests \subseteq Requests
                            /\ Requests \cap Workers = {}

VARIABLES rpc,              \* the next call of a request
          rcode,            \* its HTTP status, 0 before the answer
          via,              \* resolveResult's miss and waited flags: "miss",
                            \*   "waited", or "hit" when neither is set
          counted           \* whether the cache counter of via was incremented

requestVars == <<rpc, rcode, via, counted>>

RequestSteps == {"start", "getImage", "getVariant", "upsert", "conflictFetch",
                 "publish", "sync", "reload", "poll", "lastPoll", "serve", "done"}

Codes == {0, 200, 400, 404, 422, 500, 503}

ResolveTypeOK == /\ rpc \in [Requests -> RequestSteps]
                 /\ rcode \in [Requests -> Codes]
                 /\ via \in [Requests -> {"hit", "miss", "waited"}]
                 /\ counted \in [Requests -> BOOLEAN]

ResolveInit == /\ rpc = [r \in Requests |-> "start"]
               /\ rcode = [r \in Requests |-> 0]
               /\ via = [r \in Requests |-> "hit"]
               /\ counted = [r \in Requests |-> FALSE]

(* What a step of a request may do to the request itself. *)
Goto(r, step) == /\ rpc' = [rpc EXCEPT ![r] = step]
                 /\ UNCHANGED <<rcode, via, counted>>

Branch(r, class, step) == /\ rpc' = [rpc EXCEPT ![r] = step]
                          /\ via' = [via EXCEPT ![r] = class]
                          /\ UNCHANGED <<rcode, counted>>

Answer(r, code) == /\ rpc' = [rpc EXCEPT ![r] = "done"]
                   /\ rcode' = [rcode EXCEPT ![r] = code]
                   /\ UNCHANGED <<via, counted>>

(* outcomeReady: count the request, then a GET opens the object and a HEAD *)
(* is answered at once.                                                    *)
AnswerReady(r) ==
    /\ counted' = [counted EXCEPT ![r] = TRUE]
    /\ rpc' = [rpc EXCEPT ![r] = IF r \in HeadRequests THEN "done" ELSE "serve"]
    /\ rcode' = [rcode EXCEPT ![r] = IF r \in HeadRequests THEN 200 ELSE @]
    /\ UNCHANGED via

(* Mutant of AnswerTerminal: a HEAD is answered 200 for a failed row too.    *)
HeadIgnoresFailure(r) ==
    \/ status[job[r]] = "ready" /\ AnswerReady(r)
    \/ /\ status[job[r]] = "failed"
       /\ IF r \in HeadRequests THEN AnswerReady(r) ELSE Answer(r, 422)

(* The row that a statement returned is ready or failed. *)
AnswerTerminal(r) == \/ status[job[r]] = "ready" /\ AnswerReady(r)
                     \/ status[job[r]] = "failed" /\ Answer(r, 422)

ReadsOnly == UNCHANGED <<storeVars, blobVars, brokerVars, genVars, faults>>
-----------------------------------------------------------------------------
(* uuid.Parse and transform.Parse accept the request, or answer 400.       *)
Begin(r) == /\ rpc[r] = "start"
            /\ \/ /\ \E v \in Variants : job' = [job EXCEPT ![r] = v]
                  /\ Goto(r, "getImage")
               \/ Answer(r, 400) /\ UNCHANGED job
            /\ UNCHANGED <<storeVars, blobVars, brokerVars, gen, faults>>

GetImage(r) == /\ rpc[r] = "getImage"
               /\ \/ HasImage(ImageOf[job[r]]) /\ Goto(r, "getVariant")
                  \/ ~HasImage(ImageOf[job[r]]) /\ Answer(r, 404)
               /\ ReadsOnly

GetVariantByHash(r) == /\ rpc[r] = "getVariant"
                       /\ \/ ~HasVariant(job[r]) /\ Goto(r, "upsert")
                          \/ status[job[r]] = "pending" /\ Branch(r, "waited", "poll")
                          \/ AnswerTerminal(r)
                       /\ ReadsOnly

(* UpsertPendingVariant is two statements: the INSERT, and on a conflict a  *)
(* SELECT that may meet another row state, or no row any more.             *)
UpsertPending(r) ==
    /\ rpc[r] = "upsert"
    /\ \/ InsertPending(job[r]) /\ Branch(r, "miss", "publish")
       \/ InsertConflicts(job[r]) /\ Goto(r, "conflictFetch") /\ UNCHANGED storeVars
       \/ InsertRefused(job[r]) /\ Answer(r, 500) /\ UNCHANGED storeVars
    /\ UNCHANGED <<blobVars, brokerVars, genVars, faults>>

(* Mutant of ConflictFetch: created is reported for an existing row too.    *)
ConflictPublishes(r) == /\ rpc[r] = "conflictFetch"
                        /\ \/ status[job[r]] = "pending" /\ Branch(r, "miss", "publish")
                           \/ AnswerTerminal(r)
                           \/ ~HasVariant(job[r]) /\ Answer(r, 500)
                        /\ ReadsOnly

ConflictFetch(r) == /\ rpc[r] = "conflictFetch"
                    /\ \/ status[job[r]] = "pending" /\ Branch(r, "waited", "poll")
                       \/ AnswerTerminal(r)
                       \/ ~HasVariant(job[r]) /\ Answer(r, 500)
                    /\ ReadsOnly

(* publishBestEffort, then syncGenerate whatever became of the message.    *)
PublishBestEffort(r) == /\ rpc[r] = "publish"
                        /\ Publish(job[r])
                        /\ GenStart(r)
                        /\ Goto(r, "sync")
                        /\ UNCHANGED <<storeVars, blobVars, faults>>

(* Mutant of SyncGenerate: the pending row of a failed transform is removed *)
(* so that the next request starts afresh (what DeletePendingVariant is for).*)
SyncCleansUp(r) == /\ rpc[r] = "sync"
                   /\ \/ gen[r] = "ok" /\ Goto(r, "reload") /\ UNCHANGED status
                      \/ /\ gen[r] = "err"
                         /\ status[job[r]] = "pending"
                         /\ Answer(r, 500)
                         /\ status' = [status EXCEPT ![job[r]] = "absent"]
                   /\ GenStop(r)
                   /\ UNCHANGED <<imageRows, attempts, blobVars, brokerVars, faults>>

SyncGenerate(r) == /\ rpc[r] = "sync"
                   /\ \/ gen[r] = "ok" /\ Goto(r, "reload")
                      \/ gen[r] = "err" /\ (Answer(r, 500) \/ Answer(r, 503))
                   /\ GenStop(r)
                   /\ UNCHANGED <<storeVars, blobVars, brokerVars, faults>>

Reload(r) == /\ rpc[r] = "reload"
             /\ \/ status[job[r]] = "ready" /\ AnswerReady(r)
                \/ status[job[r]] # "ready" /\ Answer(r, 500)     \* or no row
             /\ ReadsOnly

(* waitOrSync: a poll that finds the row pending changes nothing and is not *)
(* a step here.                                                             *)
Poll(r) == /\ rpc[r] = "poll"
           /\ \/ ~HasVariant(job[r]) /\ Answer(r, 404)
              \/ AnswerTerminal(r)
           /\ ReadsOnly

(* Mutant of PollExpired: waitOrSync has no deadline. *)
PollNeverExpires(r) == FALSE /\ ReadsOnly

PollExpired(r) == /\ rpc[r] = "poll"
                  /\ Goto(r, "lastPoll")
                  /\ ReadsOnly

LastPoll(r) == /\ rpc[r] = "lastPoll"
               /\ \/ status[job[r]] = "pending" /\ Goto(r, "sync") /\ GenStart(r)
                  \/ AnswerTerminal(r) /\ UNCHANGED genVars
                  \/ ~HasVariant(job[r]) /\ Answer(r, 503) /\ UNCHANGED genVars
               /\ UNCHANGED <<storeVars, blobVars, brokerVars, faults>>

ServeVariant(r) == /\ rpc[r] = "serve"
                   /\ Answer(r, IF job[r] \in avifs THEN 200 ELSE 500)
                   /\ ReadsOnly

RequestStep(r) ==
    \/ Begin(r) \/ GetImage(r) \/ GetVariantByHash(r) \/ UpsertPending(r)
    \/ ConflictFetch(r) \/ PublishBestEffort(r) \/ SyncGenerate(r) \/ Reload(r)
    \/ Poll(r) \/ PollExpired(r) \/ LastPoll(r) \/ ServeVariant(r)
    \/ GenStep(r) /\ UNCHANGED requestVars
-----------------------------------------------------------------------------
(* A call fails.  The INSERT may have taken effect; a poll also ends when   *)
(* the request is cancelled, and the error of the last one is not told from *)
(* an expired deadline.                                                     *)
CallFails(r) ==
    /\ \/ /\ rpc[r] \in {"getImage", "getVariant", "upsert", "conflictFetch",
                        "reload", "poll", "serve"}
          /\ Answer(r, 500)
          /\ UNCHANGED storeVars
       \/ rpc[r] = "upsert" /\ InsertPending(job[r]) /\ Answer(r, 500)
       \/ rpc[r] \in {"poll", "lastPoll"} /\ Answer(r, 503) /\ UNCHANGED storeVars
    /\ UNCHANGED <<blobVars, brokerVars, genVars, faults>>

(* The API process dies under the request: no answer at all. *)
RequestLost(r) == /\ rpc[r] \notin {"start", "done"}
                  /\ rpc' = [rpc EXCEPT ![r] = "done"]
                  /\ GenStop(r)
                  /\ Fault
                  /\ UNCHANGED <<rcode, via, counted, storeVars, blobVars, brokerVars>>

RequestFails(r) == \/ CallFails(r) \/ RequestLost(r)
                   \/ GenFails(r) /\ UNCHANGED requestVars
=============================================================================
