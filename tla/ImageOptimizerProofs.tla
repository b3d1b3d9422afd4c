------------------------ MODULE ImageOptimizerProofs ------------------------
(***************************************************************************)
(* What TLAPS proves of ImageOptimizer, for all sets of images, variants,  *)
(* requests, deletes and workers and for every fault budget.               *)
(***************************************************************************)
EXTENDS ImageOptimizer, TLAPS

(* A process at work has a variant, and TransformAndPersist runs only where *)
(* a request or a worker called it.                                         *)
JobOK == /\ \A r \in Requests : /\ rpc[r] \notin {"start", "done"} => job[r] \in Variants
                                /\ gen[r] # "off" => rpc[r] = "sync"
         /\ \A w \in Workers : /\ wpc[w] # "idle" => job[w] \in Variants
                               /\ gen[w] # "off" => wpc[w] = "gen"

TypeInv == TypeOK /\ JobOK

(* The state in which the processes start, before any request, has the types. *)
THEOREM InitTypeInv == Init => TypeInv
<1> SUFFICES ASSUME Init PROVE TypeInv
  OBVIOUS
<1> USE MaxFaultsAssumption, StoreAssumption, BlobsAssumption, BrokerAssumption,
        ResolveAssumption, WorkerAssumption, InitialAssumption DEF Init
<1>1. faults \in 0..MaxFaults /\ StoreTypeOK /\ BlobsTypeOK /\ BrokerTypeOK
  BY DEF InitFaults, StoreTypeOK, BlobsTypeOK, BrokerTypeOK, Statuses
<1>2. GenTypeOK /\ ResolveTypeOK /\ WorkerTypeOK
  BY DEF GenTypeOK, GenSteps, ResolveTypeOK, RequestSteps, Codes, ResolveInit,
         WorkerTypeOK, WorkerSteps, WorkerInit
<1>3. DeleteTypeOK
  BY DEF DeleteTypeOK, DeleteSteps, DeleteInit
<1>4. JobOK
  BY DEF JobOK, Procs, ResolveInit, WorkerInit
<1> QED
  BY <1>1, <1>2, <1>3, <1>4 DEF TypeInv, TypeOK
-----------------------------------------------------------------------------
(* The steps of TransformAndPersist preserve the types of what they touch. *)
LEMMA GenTypes ==
    ASSUME TypeInv, NEW p \in Procs, GenStep(p) \/ GenFails(p)
    PROVE  /\ job[p] \in Variants /\ gen[p] # "off"
           /\ StoreTypeOK' /\ BlobsTypeOK' /\ GenTypeOK'
           /\ UNCHANGED <<imageRows, attempts, queue, unacked, faults, originals, job>>
           /\ gen' = [gen EXCEPT ![p] = gen'[p]]
<1> USE DEF TypeInv, TypeOK, GenGoto, storeVars, blobVars, brokerVars
<1>1. gen[p] \in GenSteps
  BY DEF GenStep, GenFails, GenImage, GenFetch, GenWrite, GenMark, GenSteps
<1>2. job[p] \in Variants /\ gen[p] # "off"
  BY <1>1 DEF JobOK, Procs, GenSteps
<1>3. UNCHANGED <<imageRows, attempts, queue, unacked, faults, originals, job>>
  BY DEF GenStep, GenFails, GenImage, GenFetch, GenWrite, GenMark, WriteVariant,
         MarkReady, SetStatus
<1>4. status' \in [Variants -> Statuses \cup {"absent"}]
  BY DEF GenStep, GenFails, GenImage, GenFetch, GenWrite, GenMark, WriteVariant,
         MarkReady, SetStatus, StoreTypeOK, Statuses
<1>5. avifs' \subseteq Variants
  BY <1>2 DEF GenStep, GenFails, GenImage, GenFetch, GenWrite, GenMark, WriteVariant,
         BlobsTypeOK
<1>6. gen' \in [Procs -> GenSteps \cup {"off", "ok", "err"}] /\ gen' = [gen EXCEPT ![p] = gen'[p]]
  BY DEF GenStep, GenFails, GenImage, GenFetch, GenWrite, GenMark, GenTypeOK, GenSteps
<1> QED
  BY <1>2, <1>3, <1>4, <1>5, <1>6 DEF StoreTypeOK, BlobsTypeOK, GenTypeOK

(* Answering from a ready or failed row. *)
LEMMA ReadyTypes ==
    ASSUME ResolveTypeOK, NEW r \in Requests, AnswerReady(r)
    PROVE  ResolveTypeOK' /\ rpc' = [rpc EXCEPT ![r] = rpc'[r]]
<1> USE DEF AnswerReady, ResolveTypeOK, RequestSteps, Codes
<1>1. CASE r \in HeadRequests
  BY <1>1
<1>2. CASE r \notin HeadRequests
  BY <1>2
<1> QED
  BY <1>1, <1>2

(* The same for a row that may be ready or failed (AnswerTerminal). *)
LEMMA TerminalTypes ==
    ASSUME ResolveTypeOK, NEW r \in Requests, AnswerTerminal(r)
    PROVE  ResolveTypeOK' /\ rpc' = [rpc EXCEPT ![r] = rpc'[r]]
<1>1. CASE AnswerReady(r)
  BY <1>1, ReadyTypes
<1>2. CASE Answer(r, 422)
  BY <1>2 DEF Answer, ResolveTypeOK, RequestSteps, Codes
<1> QED
  BY <1>1, <1>2 DEF AnswerTerminal

OwnStep(r) ==
    \/ Begin(r) \/ GetImage(r) \/ GetVariantByHash(r) \/ UpsertPending(r)
    \/ ConflictFetch(r) \/ PublishBestEffort(r) \/ SyncGenerate(r) \/ Reload(r)
    \/ Poll(r) \/ PollExpired(r) \/ LastPoll(r) \/ ServeVariant(r)
    \/ CallFails(r) \/ RequestLost(r)

(* A step of a request that is not one of TransformAndPersist: what it does *)
(* to the request's own variables, and which variables it leaves alone.     *)
LEMMA RequestFrame ==
    ASSUME TypeInv, NEW r \in Requests, RequestNext(r), OwnStep(r)
    PROVE  /\ ResolveTypeOK'
           /\ rpc' = [rpc EXCEPT ![r] = rpc'[r]]
           /\ rpc[r] # "done"
           /\ UNCHANGED <<blobVars, unacked, workerVars, deleteVars>>
<1> USE DEF TypeInv, TypeOK, RequestNext, OwnStep, ReadsOnly
<1>1. UNCHANGED <<workerVars, deleteVars>>
  OBVIOUS
<1>2. UNCHANGED <<blobVars, unacked>>
  BY DEF Begin, GetImage, GetVariantByHash, UpsertPending, ConflictFetch,
         PublishBestEffort, SyncGenerate, Reload, Poll, PollExpired, LastPoll,
         ServeVariant, CallFails, RequestLost, brokerVars, blobVars, Publish
<1> SUFFICES /\ ResolveTypeOK'
             /\ rpc' = [rpc EXCEPT ![r] = rpc'[r]]
             /\ rpc[r] # "done"
  BY <1>1, <1>2
<1> USE ReadyTypes, TerminalTypes DEF Goto, Branch, Answer, ResolveTypeOK,
           RequestSteps, Codes
<1>3. CASE Begin(r)
  BY <1>3 DEF Begin
<1>4. CASE GetImage(r)
  BY <1>4 DEF GetImage
<1>5. CASE GetVariantByHash(r)
  BY <1>5 DEF GetVariantByHash
<1>6. CASE UpsertPending(r)
  BY <1>6 DEF UpsertPending
<1>7. CASE ConflictFetch(r)
  BY <1>7 DEF ConflictFetch
<1>8. CASE PublishBestEffort(r)
  BY <1>8 DEF PublishBestEffort
<1>9. CASE SyncGenerate(r)
  BY <1>9 DEF SyncGenerate
<1>10. CASE Reload(r)
  BY <1>10 DEF Reload
<1>11. CASE Poll(r)
  BY <1>11 DEF Poll
<1>12. CASE PollExpired(r)
  BY <1>12 DEF PollExpired
<1>13. CASE LastPoll(r)
  BY <1>13 DEF LastPoll
<1>14. CASE ServeVariant(r)
  BY <1>14 DEF ServeVariant
<1>15. CASE CallFails(r)
  BY <1>15 DEF CallFails
<1>16. CASE RequestLost(r)
  BY <1>16 DEF RequestLost
<1> QED
  BY <1>3, <1>4, <1>5, <1>6, <1>7, <1>8, <1>9, <1>10, <1>11, <1>12,
     <1>13, <1>14, <1>15, <1>16

(* ... and what it does to the variables it shares with others.             *)
LEMMA RequestEffect ==
    ASSUME TypeInv, NEW r \in Requests, RequestNext(r), OwnStep(r)
    PROVE  /\ faults' \in 0..MaxFaults
           /\ StoreTypeOK' /\ BrokerTypeOK' /\ GenTypeOK'
           /\ job' = [job EXCEPT ![r] = job'[r]]
           /\ gen' = [gen EXCEPT ![r] = gen'[r]]
           /\ rpc'[r] \notin {"start", "done"} => job'[r] \in Variants
           /\ gen'[r] # "off" => rpc'[r] = "sync"
<1> USE DEF TypeInv, TypeOK, RequestNext, OwnStep
<1>1. faults' \in 0..MaxFaults
  BY MaxFaultsAssumption
     DEF Begin, GetImage, GetVariantByHash, UpsertPending, ConflictFetch,
         PublishBestEffort, SyncGenerate, Reload, Poll, PollExpired, LastPoll,
         ServeVariant, CallFails, RequestLost, ReadsOnly, Fault
<1>2. StoreTypeOK'
  <2>1. InsertPending(job[r]) \/ UNCHANGED storeVars
    BY DEF Begin, GetImage, GetVariantByHash, UpsertPending, ConflictFetch,
         PublishBestEffort, SyncGenerate, Reload, Poll, PollExpired, LastPoll,
         ServeVariant, CallFails, RequestLost, ReadsOnly
  <2> QED
    BY <2>1 DEF InsertPending, StoreTypeOK, Statuses, storeVars
<1>3. BrokerTypeOK'
  <2>1. Publish(job[r]) \/ UNCHANGED brokerVars
    BY DEF Begin, GetImage, GetVariantByHash, UpsertPending, ConflictFetch,
         PublishBestEffort, SyncGenerate, Reload, Poll, PollExpired, LastPoll,
         ServeVariant, CallFails, RequestLost, ReadsOnly
  <2> QED
    BY <2>1 DEF Publish, BrokerTypeOK, brokerVars
<1>4. \/ Begin(r)
      \/ /\ UNCHANGED job
         /\ rpc[r] \notin {"start", "done"}
  BY DEF Begin, GetImage, GetVariantByHash, UpsertPending, ConflictFetch,
         PublishBestEffort, SyncGenerate, Reload, Poll, PollExpired, LastPoll,
         ServeVariant, CallFails, RequestLost, ReadsOnly,
         genVars, GenStart, GenStop, GenGoto
<1>5. \/ UNCHANGED gen /\ rpc[r] # "sync"
      \/ GenStop(r)
      \/ GenStart(r) /\ Goto(r, "sync")
  BY DEF Begin, GetImage, GetVariantByHash, UpsertPending, ConflictFetch,
         PublishBestEffort, SyncGenerate, Reload, Poll, PollExpired, LastPoll,
         ServeVariant, CallFails, RequestLost, ReadsOnly,
         genVars
<1>6. job' = [job EXCEPT ![r] = job'[r]] /\ gen' = [gen EXCEPT ![r] = gen'[r]] /\ GenTypeOK'
  BY <1>4, <1>5 DEF GenTypeOK, GenSteps, Procs, Begin, GenStart, GenStop, GenGoto
<1>7. rpc'[r] \notin {"start", "done"} => job'[r] \in Variants
  BY <1>4 DEF JobOK, Begin, Goto, Answer, ResolveTypeOK, GenTypeOK, Procs
<1>8. gen'[r] # "off" => rpc'[r] = "sync"
  BY <1>5 DEF JobOK, Goto, GenStart, GenStop, GenGoto, GenTypeOK, ResolveTypeOK, Procs
<1> QED
  BY <1>1, <1>2, <1>3, <1>6, <1>7, <1>8

(* A GET or HEAD, its failures included, preserves the invariant of types ... *)
LEMMA RequestTypes ==
    ASSUME TypeInv, NEW r \in Requests, RequestNext(r)
    PROVE  TypeInv'
<1> USE DEF TypeInv, TypeOK
<1>1. DeleteTypeOK' /\ WorkerTypeOK' /\ UNCHANGED <<wpc, tries>>
  BY DEF RequestNext, DeleteTypeOK, WorkerTypeOK, deleteVars, workerVars
<1>2. CASE (GenStep(r) \/ GenFails(r)) /\ UNCHANGED requestVars
  <2>1. /\ job[r] \in Variants /\ gen[r] # "off"
        /\ StoreTypeOK' /\ BlobsTypeOK' /\ GenTypeOK'
        /\ UNCHANGED <<imageRows, attempts, queue, unacked, faults, originals, job>>
        /\ gen' = [gen EXCEPT ![r] = gen'[r]]
    BY <1>2, GenTypes DEF Procs
  <2>2. BrokerTypeOK' /\ ResolveTypeOK'
    BY <1>2, <2>1 DEF BrokerTypeOK, ResolveTypeOK, requestVars
  <2>3. JobOK'
    BY <1>1, <1>2, <2>1, ResolveAssumption DEF JobOK, requestVars, GenTypeOK, Procs
  <2> QED
    BY <1>1, <2>1, <2>2, <2>3
<1>3. CASE OwnStep(r)
  <2>1. JobOK'
    BY <1>1, <1>3, RequestFrame, RequestEffect, ResolveAssumption
       DEF JobOK, GenTypeOK, ResolveTypeOK, Procs
  <2>2. BlobsTypeOK'
    BY <1>3, RequestFrame DEF BlobsTypeOK, blobVars
  <2> QED
    BY <1>1, <1>3, <2>1, <2>2, RequestFrame, RequestEffect
<1> QED
  BY <1>2, <1>3 DEF RequestNext, RequestStep, RequestFails, OwnStep
-----------------------------------------------------------------------------
(* The same for the steps of a worker ...                                   *)
WorkerOwnStep(w) ==
    \/ \E v \in Variants : Receive(w, v)
    \/ Lookup(w) \/ CountAttempt(w) \/ Generated(w) \/ GiveUp(w) \/ Backoff(w)
    \/ Acknowledge(w) \/ StatementFails(w) \/ Crash(w) \/ ConnectionLost(w)

(* What a step of a worker does besides moving the worker. *)
LEMMA WorkerEffect ==
    ASSUME TypeInv, NEW w \in Workers, WorkerNext(w), WorkerOwnStep(w)
    PROVE  /\ faults' \in 0..MaxFaults
           /\ StoreTypeOK' /\ BrokerTypeOK' /\ GenTypeOK' /\ WorkerTypeOK'
           /\ UNCHANGED <<blobVars, imageRows>>
           /\ job' = [job EXCEPT ![w] = job'[w]]
           /\ gen' = [gen EXCEPT ![w] = gen'[w]]
           /\ wpc' = [wpc EXCEPT ![w] = wpc'[w]]
           /\ wpc'[w] # "idle" => job'[w] \in Variants
           /\ gen'[w] # "off" => wpc'[w] = "gen"
<1> USE DEF TypeInv, TypeOK, WorkerOwnStep
<1>1. faults' \in 0..MaxFaults
  BY MaxFaultsAssumption
     DEF Receive, Lookup, CountAttempt, Generated, GiveUp, Backoff, Acknowledge,
         StatementFails, Crash, ConnectionLost, Fault
<1>2. UNCHANGED <<blobVars, imageRows>>
  BY DEF Receive, Lookup, CountAttempt, Generated, GiveUp, Backoff, Acknowledge,
         StatementFails, Crash, ConnectionLost,
         IncrAttempts, MarkFailed, SetStatus, storeVars
<1>3. StoreTypeOK'
  <2>1. IncrAttempts(job[w]) \/ MarkFailed(job[w]) \/ UNCHANGED storeVars
    BY DEF Receive, Lookup, CountAttempt, Generated, GiveUp, Backoff, Acknowledge,
         StatementFails, Crash, ConnectionLost
  <2> QED
    BY <2>1 DEF IncrAttempts, MarkFailed, SetStatus, StoreTypeOK, Statuses, storeVars
<1>4. BrokerTypeOK'
  <2>1. (\E v \in Variants : Deliver(w, v)) \/ Ack(w) \/ Requeue(w) \/ UNCHANGED brokerVars
    BY DEF Receive, Lookup, CountAttempt, Generated, GiveUp, Backoff, Acknowledge,
         StatementFails, Crash, ConnectionLost
  <2> QED
    BY <2>1 DEF Deliver, Ack, Requeue, BrokerTypeOK, brokerVars
<1>5. WorkerTypeOK' /\ wpc' = [wpc EXCEPT ![w] = wpc'[w]]
  <2>1. CASE CountAttempt(w)
    <3>1. wpc[w] # "idle" /\ job[w] \in Variants
      BY <2>1 DEF CountAttempt, JobOK
    <3>2. attempts'[job[w]] \in Nat
      BY <1>3, <3>1 DEF StoreTypeOK
    <3> QED
      BY <2>1, <3>2 DEF CountAttempt, WorkerTypeOK, WorkerSteps, WGoto
  <2>2. CASE ~CountAttempt(w)
    BY <2>2 DEF Receive, Lookup, Generated, GiveUp, Backoff, Acknowledge, StatementFails,
           Crash, ConnectionLost, WorkerTypeOK, WorkerSteps, WGoto, workerVars
  <2> QED
    BY <2>1, <2>2
<1>6. \/ \E v \in Variants : Receive(w, v)
      \/ UNCHANGED job /\ (wpc[w] # "idle" \/ UNCHANGED wpc)
  BY DEF Lookup, CountAttempt, Generated, GiveUp, Backoff, Acknowledge, StatementFails,
         Crash, ConnectionLost, genVars, GenStart, GenStop, GenGoto, workerVars
<1>7. \/ UNCHANGED gen /\ (wpc[w] # "gen" \/ UNCHANGED wpc)
      \/ GenStop(w)
      \/ GenStart(w) /\ wpc' = [wpc EXCEPT ![w] = "gen"]
  BY DEF Receive, Lookup, CountAttempt, Generated, GiveUp, Backoff, Acknowledge,
         StatementFails, Crash, ConnectionLost, genVars, workerVars
<1>8. job' = [job EXCEPT ![w] = job'[w]] /\ gen' = [gen EXCEPT ![w] = gen'[w]] /\ GenTypeOK'
  BY <1>6, <1>7 DEF GenTypeOK, GenSteps, Procs, Receive, GenStart, GenStop, GenGoto
<1>9. wpc'[w] # "idle" => job'[w] \in Variants
  BY <1>6 DEF JobOK, Receive, GenTypeOK, Procs
<1>10. gen'[w] # "off" => wpc'[w] = "gen"
  BY <1>7 DEF JobOK, GenStart, GenStop, GenGoto, GenTypeOK, WorkerTypeOK, Procs
<1> QED
  BY <1>1, <1>2, <1>3, <1>4, <1>5, <1>8, <1>9, <1>10

(* ... so does a worker, its crashes included ... *)
LEMMA WorkerTypes ==
    ASSUME TypeInv, NEW w \in Workers, WorkerNext(w)
    PROVE  TypeInv'
<1> USE DEF TypeInv, TypeOK
<1>1. DeleteTypeOK' /\ ResolveTypeOK' /\ UNCHANGED rpc
  BY DEF WorkerNext, DeleteTypeOK, ResolveTypeOK, deleteVars, requestVars
<1>2. CASE (GenStep(w) \/ GenFails(w)) /\ UNCHANGED workerVars
  <2>1. /\ job[w] \in Variants /\ gen[w] # "off"
        /\ StoreTypeOK' /\ BlobsTypeOK' /\ GenTypeOK'
        /\ UNCHANGED <<imageRows, attempts, queue, unacked, faults, originals, job>>
        /\ gen' = [gen EXCEPT ![w] = gen'[w]]
    BY <1>2, GenTypes DEF Procs
  <2>2. BrokerTypeOK' /\ WorkerTypeOK'
    BY <1>2, <2>1 DEF BrokerTypeOK, WorkerTypeOK, workerVars
  <2>3. JobOK'
    BY <1>1, <1>2, <2>1, ResolveAssumption DEF JobOK, workerVars, GenTypeOK, Procs
  <2> QED
    BY <1>1, <2>1, <2>2, <2>3
<1>3. CASE WorkerOwnStep(w)
  <2>1. JobOK'
    BY <1>1, <1>3, WorkerEffect, ResolveAssumption
       DEF JobOK, GenTypeOK, WorkerTypeOK, Procs
  <2>2. BlobsTypeOK'
    BY <1>3, WorkerEffect DEF BlobsTypeOK, blobVars
  <2> QED
    BY <1>1, <1>3, <2>1, <2>2, WorkerEffect
<1> QED
  BY <1>2, <1>3 DEF WorkerNext, WorkerStep, WorkerFails, WorkerOwnStep

(* ... and for those of a DELETE.                                           *)
LEMMA DeleteTypes ==
    ASSUME TypeInv, NEW d \in Deleters, DeleteNext(d)
    PROVE  TypeInv'
<1> USE DEF TypeInv, TypeOK, DeleteNext, DeleteStep, DeleteFails
<1>1. UNCHANGED <<brokerVars, genVars, requestVars, workerVars>>
  OBVIOUS
<1>2. BrokerTypeOK' /\ GenTypeOK' /\ ResolveTypeOK' /\ WorkerTypeOK' /\ JobOK'
  BY <1>1 DEF BrokerTypeOK, GenTypeOK, ResolveTypeOK, WorkerTypeOK, JobOK,
              brokerVars, genVars, requestVars, workerVars
<1>3. faults' \in 0..MaxFaults
  BY MaxFaultsAssumption
     DEF BeginDelete, DeleteGetImage, DeleteOriginalFile, ListPage, DeletePage,
         DeleteRow, DeleteCallFails, OriginalFails, ObjectsKept, DeleteLost, Fault
<1>4. StoreTypeOK'
  <2>1. DeleteImage(dimg[d]) \/ UNCHANGED storeVars
    BY DEF BeginDelete, DeleteGetImage, DeleteOriginalFile, ListPage, DeletePage,
         DeleteRow, DeleteCallFails, OriginalFails, ObjectsKept, DeleteLost
  <2> QED
    BY <2>1 DEF DeleteImage, StoreTypeOK, storeVars
<1>5. BlobsTypeOK'
  <2>1. DeleteOriginal(dimg[d]) \/ (\E S \in SUBSET Variants : DeleteObjects(S)) \/ UNCHANGED blobVars
    <3>1. page[d] \subseteq Variants
      BY DEF DeleteTypeOK
    <3> QED
      BY <3>1 DEF BeginDelete, DeleteGetImage, DeleteOriginalFile, ListPage, DeletePage,
         DeleteRow, DeleteCallFails, OriginalFails, ObjectsKept, DeleteLost
  <2> QED
    BY <2>1 DEF DeleteOriginal, DeleteObjects, BlobsTypeOK, blobVars
<1>6. dpc' \in [Deleters -> DeleteSteps] /\ UNCHANGED dimg
      /\ dcode' \in [Deleters -> {0, 204, 400, 404, 500}]
  BY DEF BeginDelete, DeleteGetImage, DeleteOriginalFile, ListPage, DeletePage,
         DeleteRow, DeleteCallFails, OriginalFails, ObjectsKept, DeleteLost, DGoto, Finish, AfterFiles, DeleteTypeOK, DeleteSteps
<1>7. token' \in [Deleters -> Nat] /\ page' \in [Deleters -> SUBSET Variants]
      /\ more' \in [Deleters -> BOOLEAN]
  <2>1. CASE ListPage(d)
    <3>1. Page(dimg[d], token[d]) \subseteq Variants
      BY DEF Page, Listed, BlobsTypeOK
    <3>2. CASE UNCHANGED listing
      BY <3>2 DEF DeleteTypeOK, listing
    <3>3. CASE ~UNCHANGED listing
      <4>1. PICK last \in Page(dimg[d], token[d]) :
              /\ token' = [token EXCEPT ![d] = KeyRank[last]]
              /\ page' = [page EXCEPT ![d] = Page(dimg[d], token[d])]
              /\ more' = [more EXCEPT ![d] = Page(dimg[d], token[d]) # Listed(dimg[d], token[d])]
        BY <2>1, <3>3 DEF ListPage
      <4>2. KeyRank[last] \in Nat
        BY <3>1, BlobsAssumption
      <4> QED
        BY <3>1, <4>1, <4>2 DEF DeleteTypeOK
    <3> QED
      BY <3>2, <3>3
  <2>2. CASE ~ListPage(d)
    BY <2>2 DEF BeginDelete, DeleteGetImage, DeleteOriginalFile, DeletePage, DeleteRow,
                DeleteCallFails, OriginalFails, ObjectsKept, DeleteLost, DeleteTypeOK, listing
  <2> QED
    BY <2>1, <2>2
<1>8. fileErr' \in [Deleters -> BOOLEAN]
  <2>1. UNCHANGED fileErr \/ fileErr' = [fileErr EXCEPT ![d] = TRUE]
    BY DEF BeginDelete, DeleteGetImage, DeleteOriginalFile, ListPage, DeletePage,
           DeleteRow, DeleteCallFails, OriginalFails, ObjectsKept, DeleteLost
  <2>2. fileErr \in [Deleters -> BOOLEAN]
    BY DEF DeleteTypeOK
  <2>3. CASE UNCHANGED fileErr
    BY <2>2, <2>3
  <2>4. CASE fileErr' = [fileErr EXCEPT ![d] = TRUE]
    BY <2>2, <2>4
  <2> QED
    BY <2>1, <2>3, <2>4
<1> QED
  BY <1>2, <1>3, <1>4, <1>5, <1>6, <1>7, <1>8 DEF DeleteTypeOK

(* The types survive every step of the system, of whatever process it is. *)
THEOREM NextTypeInv == TypeInv /\ [Next]_vars => TypeInv'
<1> SUFFICES ASSUME TypeInv, [Next]_vars PROVE TypeInv'
  OBVIOUS
<1>1. CASE Next
  BY <1>1, RequestTypes, WorkerTypes, DeleteTypes DEF Next
<1>2. CASE UNCHANGED vars
  BY <1>2 DEF vars, storeVars, blobVars, brokerVars, genVars, requestVars, workerVars,
              deleteVars, TypeInv, TypeOK, StoreTypeOK, BlobsTypeOK, BrokerTypeOK,
              GenTypeOK, ResolveTypeOK, WorkerTypeOK, DeleteTypeOK, JobOK
<1> QED
  BY <1>1, <1>2

(* Every variable keeps its type: in particular no message count goes below *)
(* zero, and no process works without a variant.                            *)
THEOREM TypeSafety == Spec => []TypeInv
<1> QED
  BY InitTypeInv, NextTypeInv, PTL DEF Spec

(* The type invariant that the runs check, of every reachable state.        *)
THEOREM TypeCorrect == Spec => []TypeOK
<1>1. TypeInv => TypeOK
  BY DEF TypeInv
<1> QED
  BY <1>1, TypeSafety, PTL
=============================================================================
