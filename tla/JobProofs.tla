----------------------------- MODULE JobProofs -----------------------------
(***************************************************************************)
(* The life of a job: one message at most names a variant, and it is not   *)
(* dropped while the variant is pending.                                   *)
(***************************************************************************)
EXTENDS ImageOptimizerProofs

(* The row of v exists, or went away with its image; from then on nothing   *)
(* inserts it again, because the foreign key refuses a row without image.   *)
Created(v) == HasVariant(v) \/ ~HasImage(ImageOf[v])

ForeignKey == \A v \in Variants : HasVariant(v) => HasImage(ImageOf[v])

(* What a step may do to the two tables. *)
RowStep == \/ \E v \in Variants : InsertPending(v) \/ MarkReady(v) \/ MarkFailed(v)
                                  \/ IncrAttempts(v)
           \/ \E i \in Images : DeleteImage(i)
           \/ UNCHANGED storeVars

(* ... and every handler and worker keeps to these statements. *)
LEMMA RowSteps ==
    ASSUME TypeInv, Next
    PROVE  RowStep
<1> USE DEF TypeInv, TypeOK, RowStep
<1>1. ASSUME NEW p \in Procs, GenStep(p) \/ GenFails(p) PROVE RowStep
  BY <1>1, GenTypes DEF GenStep, GenFails, GenImage, GenFetch, GenWrite, GenMark
<1>2. ASSUME NEW r \in Requests, RequestNext(r) PROVE RowStep
  <2>1. CASE rpc[r] = "upsert" /\ InsertPending(job[r])
    BY <2>1 DEF JobOK
  <2> QED
    BY <1>1, <1>2, <2>1
       DEF Procs, RequestNext, RequestStep, RequestFails, ReadsOnly, Begin, GetImage,
           GetVariantByHash, UpsertPending, ConflictFetch, PublishBestEffort,
           SyncGenerate, Reload, Poll, PollExpired, LastPoll, ServeVariant, CallFails,
           RequestLost
<1>3. ASSUME NEW w \in Workers, WorkerNext(w) PROVE RowStep
  <2>1. wpc[w] # "idle" => job[w] \in Variants
    BY DEF JobOK
  <2> QED
    BY <1>1, <1>3, <2>1
       DEF Procs, WorkerNext, WorkerStep, WorkerFails, Receive, Lookup, CountAttempt,
           Generated, GiveUp, Backoff, Acknowledge, StatementFails, Crash, ConnectionLost,
           workerVars
<1>4. ASSUME NEW d \in Deleters, DeleteNext(d) PROVE RowStep
  <2>1. dimg[d] \in Images
    BY DEF DeleteTypeOK
  <2> QED
    BY <1>4, <2>1
       DEF DeleteNext, DeleteStep, DeleteFails, BeginDelete, DeleteGetImage,
           DeleteOriginalFile, ListPage, DeletePage, DeleteRow, DeleteCallFails,
           OriginalFails, ObjectsKept, DeleteLost
<1> QED
  BY <1>2, <1>3, <1>4 DEF Next

(* Rows are created once, and nothing turns a row pending but its creation. *)
LEMMA RowsAreCreatedOnce ==
    ASSUME TypeInv, ForeignKey, RowStep
    PROVE  /\ ForeignKey'
           /\ imageRows' \subseteq imageRows
           /\ \A v \in Variants :
                 Created(v) => /\ Created(v)'
                               /\ status[v] # "pending" => status'[v] # "pending"
<1> USE StoreAssumption
    DEF TypeInv, TypeOK, StoreTypeOK, ForeignKey, Created, HasVariant, HasImage
<1>1. CASE \E v \in Variants : InsertPending(v)
  BY <1>1 DEF InsertPending
<1>2. CASE \E v \in Variants : MarkReady(v) \/ MarkFailed(v)
  BY <1>2 DEF MarkReady, MarkFailed, SetStatus
<1>3. CASE \E v \in Variants : IncrAttempts(v)
  BY <1>3 DEF IncrAttempts
<1>4. CASE \E i \in Images : DeleteImage(i)
  BY <1>4 DEF DeleteImage
<1>5. CASE UNCHANGED storeVars
  BY <1>5 DEF storeVars
<1> QED
  BY <1>1, <1>2, <1>3, <1>4, <1>5 DEF RowStep
-----------------------------------------------------------------------------
(* SingleJob by itself is not inductive: a publish must find no message, and *)
(* no other request that is about to publish the same variant.  Both follow  *)
(* because only the creator of the row publishes and rows are created once.  *)
Publishing(r, v) == rpc[r] = "publish" /\ job[r] = v

PublishersOK ==
    \A v \in Variants :
        /\ \A r \in Requests : Publishing(r, v) => Created(v) /\ ~InFlight(v)
        /\ \A r1, r2 \in Requests : Publishing(r1, v) /\ Publishing(r2, v) => r1 = r2

MessagesOK == \A v \in Variants : InFlight(v) => Created(v)

JobInv == /\ TypeInv /\ ForeignKey
          /\ SingleJob /\ MessagesOK /\ PublishersOK

(* What a step may do to the messages. *)
BrokerStep == \/ \E r \in Requests, v \in Variants :
                    Publishing(r, v) /\ Publish(v) /\ rpc'[r] = "sync"
              \/ \E w \in Workers, v \in Variants : Deliver(w, v)
              \/ \E w \in Workers : wpc[w] = "ack" /\ Ack(w)
              \/ \E w \in Workers : Requeue(w)
              \/ UNCHANGED brokerVars

(* ... and nothing but a publish, a delivery and their ends touches them. *)
LEMMA BrokerSteps ==
    ASSUME TypeInv, Next
    PROVE  BrokerStep
<1> USE DEF TypeInv, TypeOK, BrokerStep
<1>1. ASSUME NEW r \in Requests, RequestNext(r) PROVE BrokerStep
  BY <1>1, rpc[r] = "publish" => job[r] \in Variants
     DEF RequestNext, RequestStep, RequestFails, ReadsOnly, Begin, GetImage,
         GetVariantByHash, UpsertPending, ConflictFetch, PublishBestEffort,
         SyncGenerate, Reload, Poll, PollExpired, LastPoll, ServeVariant, CallFails,
         RequestLost, GenStep, GenFails, Publishing, Goto, ResolveTypeOK, JobOK
<1>2. ASSUME NEW w \in Workers, WorkerNext(w) PROVE BrokerStep
  BY <1>2
     DEF WorkerNext, WorkerStep, WorkerFails, Receive, Lookup, CountAttempt,
         Generated, GiveUp, Backoff, Acknowledge, StatementFails, Crash, ConnectionLost,
         GenStep, GenFails
<1>3. ASSUME NEW d \in Deleters, DeleteNext(d) PROVE BrokerStep
  BY <1>3 DEF DeleteNext, DeleteStep, DeleteFails
<1> QED
  BY <1>1, <1>2, <1>3 DEF Next

(* Which requests are about to publish after a step. *)
LEMMA PublishersMove ==
    ASSUME TypeInv, Next, NEW r \in Requests, NEW v \in Variants, Publishing(r, v)'
    PROVE  \/ Publishing(r, v)
           \/ InsertPending(v) /\ rpc' = [rpc EXCEPT ![r] = "publish"] /\ UNCHANGED job
<1> USE DEF TypeInv, TypeOK, Publishing
<1>1. CASE RequestNext(r)
  <2>1. CASE (GenStep(r) \/ GenFails(r)) /\ UNCHANGED requestVars
    BY <2>1, GenTypes DEF Procs, requestVars
  <2>2. CASE OwnStep(r)
    BY <2>2, RequestFrame, <1>1
       DEF OwnStep, ReadsOnly, Begin, GetImage,
         GetVariantByHash, UpsertPending, ConflictFetch, PublishBestEffort,
         SyncGenerate, Reload, Poll, PollExpired, LastPoll, ServeVariant, CallFails,
         RequestLost, genVars, Goto, Answer, AnswerReady, AnswerTerminal, Branch,
         ResolveTypeOK, JobOK, requestVars
  <2> QED
    BY <1>1, <2>1, <2>2 DEF RequestNext, RequestStep, RequestFails, OwnStep
<1>2. CASE \E q \in Requests \ {r} : RequestNext(q)
  <2> PICK q \in Requests \ {r} : RequestNext(q)
    BY <1>2
  <2>1. CASE (GenStep(q) \/ GenFails(q)) /\ UNCHANGED requestVars
    BY <2>1, GenTypes DEF Procs, requestVars
  <2>2. CASE OwnStep(q)
    BY <2>2, RequestFrame, RequestEffect DEF ResolveTypeOK, GenTypeOK, Procs
  <2> QED
    BY <2>1, <2>2 DEF RequestNext, RequestStep, RequestFails, OwnStep
<1>3. CASE \E w \in Workers : WorkerNext(w)
  <2> PICK w \in Workers : WorkerNext(w)
    BY <1>3
  <2>1. UNCHANGED rpc
    BY DEF WorkerNext, requestVars
  <2>2. job'[r] = job[r]
    <3>1. CASE (GenStep(w) \/ GenFails(w)) /\ UNCHANGED workerVars
      BY <3>1, GenTypes DEF Procs
    <3>2. CASE WorkerOwnStep(w)
      BY <3>2, WorkerEffect, ResolveAssumption DEF GenTypeOK, Procs
    <3> QED
      BY <3>1, <3>2 DEF WorkerNext, WorkerStep, WorkerFails, WorkerOwnStep
  <2> QED
    BY <2>1, <2>2
<1>4. CASE \E d \in Deleters : DeleteNext(d)
  BY <1>4 DEF DeleteNext, DeleteStep, DeleteFails, requestVars, genVars
<1> QED
  BY <1>1, <1>2, <1>3, <1>4 DEF Next
-----------------------------------------------------------------------------
(* Unless it is a publish, a step makes no message of a variant that had none *)
(* and no second one of a variant that had one.                               *)
LEMMA NoNewMessages ==
    ASSUME TypeInv, SingleJob,
           \/ \E w \in Workers, v \in Variants : Deliver(w, v)
           \/ \E w \in Workers : Ack(w) \/ Requeue(w)
           \/ UNCHANGED brokerVars
    PROVE  SingleJob' /\ \A v \in Variants : InFlight(v)' => InFlight(v)
<1> USE BrokerAssumption
    DEF TypeInv, TypeOK, BrokerTypeOK, SingleJob, InFlight, Holders
<1>1. CASE \E w \in Workers, v \in Variants : Deliver(w, v)
  BY <1>1 DEF Deliver
<1>2. CASE \E w \in Workers : Ack(w)
  BY <1>2 DEF Ack
<1>3. CASE \E w \in Workers : Requeue(w)
  BY <1>3 DEF Requeue
<1>4. CASE UNCHANGED brokerVars
  BY <1>4 DEF brokerVars
<1> QED
  BY <1>1, <1>2, <1>3, <1>4

(* A publish for a variant without a message makes exactly one. *)
LEMMA OneNewMessage ==
    ASSUME TypeInv, SingleJob, NEW u \in Variants, ~InFlight(u), Publish(u)
    PROVE  SingleJob' /\ \A v \in Variants : InFlight(v)' => InFlight(v) \/ v = u
  BY DEF TypeInv, TypeOK, BrokerTypeOK, SingleJob, InFlight, Holders, Publish

(* At the start nothing is queued, and cached variants belong to images. *)
THEOREM InitJobInv == Init => JobInv
<1> SUFFICES ASSUME Init PROVE JobInv
  OBVIOUS
<1>1. TypeInv
  BY InitTypeInv
<1>2. ForeignKey
  BY StoreAssumption, InitialAssumption DEF Init, ForeignKey, HasVariant, HasImage
<1>3. SingleJob /\ MessagesOK
  BY BrokerAssumption DEF Init, SingleJob, MessagesOK, InFlight, Holders
<1>4. PublishersOK
  BY DEF Init, ResolveInit, PublishersOK, Publishing
<1> QED
  BY <1>1, <1>2, <1>3, <1>4 DEF JobInv

(* A step of any process keeps the jobs unique: the publisher finds no other  *)
(* message and no other publisher, all other steps move or remove messages.   *)
LEMMA JobInvStep ==
    ASSUME JobInv, Next
    PROVE  JobInv'
<1> USE DEF JobInv
<1>1. TypeInv'
  BY NextTypeInv
<1>2. /\ ForeignKey'
      /\ \A v \in Variants : Created(v) => Created(v)'
  BY RowSteps, RowsAreCreatedOnce
<1>3. /\ SingleJob' /\ MessagesOK'
      /\ \A r \in Requests, v \in Variants : Publishing(r, v)' => ~InFlight(v)'
  <2>1. CASE \E r \in Requests, v \in Variants :
                Publishing(r, v) /\ Publish(v) /\ rpc'[r] = "sync"
    <3> PICK r \in Requests, u \in Variants :
                Publishing(r, u) /\ Publish(u) /\ rpc'[r] = "sync"
      BY <2>1
    <3>1. ~InFlight(u) /\ Created(u)
      BY DEF PublishersOK
    <3>2. SingleJob' /\ \A v \in Variants : InFlight(v)' => InFlight(v) \/ v = u
      BY <3>1, OneNewMessage
    <3>3. MessagesOK'
      BY <1>2, <3>1, <3>2 DEF MessagesOK
    <3>4. ASSUME NEW q \in Requests, NEW v \in Variants, Publishing(q, v)'
          PROVE  ~InFlight(v)'
      <4>1. CASE Publishing(q, v)
        <5>1. q # r
          BY <3>4 DEF Publishing
        <5> QED
          BY <3>2, <4>1, <5>1 DEF PublishersOK
      <4>2. CASE InsertPending(v)
        BY <3>1, <3>2, <4>2 DEF MessagesOK, InsertPending, Created
      <4> QED
        BY <3>4, <4>1, <4>2, PublishersMove
    <3> QED
      BY <3>2, <3>3, <3>4
  <2>2. CASE ~\E r \in Requests, v \in Variants :
                Publishing(r, v) /\ Publish(v) /\ rpc'[r] = "sync"
    <3>1. SingleJob' /\ \A v \in Variants : InFlight(v)' => InFlight(v)
      BY <2>2, BrokerSteps, NoNewMessages DEF BrokerStep
    <3>2. MessagesOK'
      BY <1>2, <3>1 DEF MessagesOK
    <3>3. ASSUME NEW q \in Requests, NEW v \in Variants, Publishing(q, v)'
          PROVE  ~InFlight(v)'
      BY <3>1, <3>3, PublishersMove DEF MessagesOK, InsertPending, Created, PublishersOK
    <3> QED
      BY <3>1, <3>2, <3>3
  <2> QED
    BY <2>1, <2>2
<1>4. ASSUME NEW v \in Variants, NEW r \in Requests, Publishing(r, v)'
      PROVE  Created(v)'
  <2>1. CASE Publishing(r, v)
    BY <1>2, <2>1 DEF PublishersOK
  <2>2. CASE InsertPending(v)
    BY <2>2 DEF InsertPending, Created, HasVariant, TypeInv, TypeOK, StoreTypeOK
  <2> QED
    BY <1>4, <2>1, <2>2, PublishersMove
<1>5. ASSUME NEW v \in Variants, NEW r1 \in Requests, NEW r2 \in Requests,
             Publishing(r1, v)', Publishing(r2, v)'
      PROVE  r1 = r2
  <2>1. \/ Publishing(r1, v)
        \/ InsertPending(v) /\ rpc' = [rpc EXCEPT ![r1] = "publish"] /\ UNCHANGED job
    BY <1>5, PublishersMove
  <2>2. \/ Publishing(r2, v)
        \/ InsertPending(v) /\ rpc' = [rpc EXCEPT ![r2] = "publish"] /\ UNCHANGED job
    BY <1>5, PublishersMove
  <2>3. InsertPending(v) => ~Publishing(r1, v) /\ ~Publishing(r2, v)
    BY DEF InsertPending, Created, PublishersOK
  <2> QED
    BY <1>5, <2>1, <2>2, <2>3
       DEF PublishersOK, Publishing, TypeInv, TypeOK, ResolveTypeOK
<1>6. PublishersOK'
  BY <1>3, <1>4, <1>5 DEF PublishersOK
<1> QED
  BY <1>1, <1>2, <1>3, <1>6

(* ... and so does a step in which nothing happens. *)
THEOREM NextJobInv == JobInv /\ [Next]_vars => JobInv'
<1> SUFFICES ASSUME JobInv, [Next]_vars PROVE JobInv'
  OBVIOUS
<1>1. CASE Next
  BY <1>1, JobInvStep
<1>2. CASE UNCHANGED vars
  <2>1. TypeInv'
    BY <1>2, NextTypeInv DEF JobInv
  <2> QED
    BY <1>2, <2>1
       DEF vars, storeVars, brokerVars, genVars, requestVars, JobInv, ForeignKey,
           SingleJob, MessagesOK, PublishersOK, Publishing, InFlight, Holders, Created,
           HasVariant, HasImage
<1> QED
  BY <1>1, <1>2

(* The invariant of jobs holds in every reachable state. *)
THEOREM JobInvariant == Spec => []JobInv
<1> QED
  BY InitJobInv, NextJobInv, PTL DEF Spec

(* However publishes, deliveries, requeues, crashes and lost connections     *)
(* interleave, no variant ever has two messages.                             *)
THEOREM SingleJobHolds == Spec => []SingleJob
<1>1. JobInv => SingleJob
  BY DEF JobInv
<1> QED
  BY <1>1, JobInvariant, PTL
-----------------------------------------------------------------------------
(* What a worker holds, and what it knows of the row when it acknowledges:   *)
(* it may have read the row long before, but the row, once created, is never *)
(* pending again after it was ready, failed or gone.                         *)
HoldsOwnJob(w) == unacked[w] # None => wpc[w] # "idle" /\ unacked[w] = job[w]

WorksOnCreated(w) == wpc[w] # "idle" => Created(job[w])

AcksSettled(w) == wpc[w] = "ack" \/ gen[w] = "ok" => status[job[w]] # "pending"

WorkerOK(w) == HoldsOwnJob(w) /\ WorksOnCreated(w) /\ AcksSettled(w)

WorkerInv == JobInv /\ \A w \in Workers : WorkerOK(w)

(* A worker is moved by its own steps only. *)
LEMMA OthersLeaveWorker ==
    ASSUME TypeInv, Next, NEW w \in Workers
    PROVE  \/ WorkerNext(w)
           \/ /\ job'[w] = job[w] /\ gen'[w] = gen[w] /\ unacked'[w] = unacked[w]
              /\ wpc'[w] = wpc[w] /\ tries'[w] = tries[w]
<1> USE DEF TypeInv, TypeOK
<1>1. ASSUME NEW r \in Requests, RequestNext(r)
      PROVE  /\ job'[w] = job[w] /\ gen'[w] = gen[w] /\ unacked'[w] = unacked[w]
             /\ wpc'[w] = wpc[w] /\ tries'[w] = tries[w]
  <2>1. UNCHANGED <<wpc, tries>> /\ r # w
    BY <1>1, ResolveAssumption DEF RequestNext, workerVars
  <2>2. CASE (GenStep(r) \/ GenFails(r)) /\ UNCHANGED requestVars
    BY <2>1, <2>2, GenTypes DEF GenTypeOK, Procs
  <2>3. CASE OwnStep(r)
    BY <1>1, <2>1, <2>3, RequestFrame, RequestEffect DEF GenTypeOK, Procs
  <2> QED
    BY <1>1, <2>2, <2>3 DEF RequestNext, RequestStep, RequestFails, OwnStep
<1>2. ASSUME NEW u \in Workers \ {w}, WorkerNext(u)
      PROVE  /\ job'[w] = job[w] /\ gen'[w] = gen[w] /\ unacked'[w] = unacked[w]
             /\ wpc'[w] = wpc[w] /\ tries'[w] = tries[w]
  <2>1. CASE (GenStep(u) \/ GenFails(u)) /\ UNCHANGED workerVars
    BY <2>1, GenTypes DEF GenTypeOK, Procs, workerVars
  <2>2. CASE WorkerOwnStep(u)
    <3>1. job'[w] = job[w] /\ gen'[w] = gen[w] /\ wpc'[w] = wpc[w]
      BY <1>2, <2>2, WorkerEffect DEF GenTypeOK, WorkerTypeOK, Procs
    <3>2. unacked'[w] = unacked[w]
      BY <2>2 DEF WorkerOwnStep, Receive, Lookup, CountAttempt, Generated, GiveUp, Backoff,
             Acknowledge, StatementFails, Crash, ConnectionLost, Deliver, Ack, Requeue,
             BrokerTypeOK, brokerVars
    <3>3. tries'[w] = tries[w]
      BY <2>2 DEF WorkerOwnStep, Receive, Lookup, CountAttempt, Generated, GiveUp, Backoff,
             Acknowledge, StatementFails, Crash, ConnectionLost, WGoto, WorkerTypeOK,
             workerVars
    <3> QED
      BY <3>1, <3>2, <3>3
  <2> QED
    BY <1>2, <2>1, <2>2 DEF WorkerNext, WorkerStep, WorkerFails, WorkerOwnStep
<1>3. ASSUME NEW d \in Deleters, DeleteNext(d)
      PROVE  UNCHANGED <<job, gen, unacked, wpc, tries>>
  BY <1>3 DEF DeleteNext, DeleteStep, DeleteFails, workerVars, genVars, brokerVars
<1> QED
  BY <1>1, <1>2, <1>3 DEF Next

(* What a worker knows of its variant stays true while others run: no        *)
(* statement of theirs makes the row pending again.                          *)
LEMMA WorkerInvStep ==
    ASSUME WorkerInv, Next
    PROVE  WorkerInv'
<1> USE DEF WorkerInv, JobInv
<1>1. JobInv' /\ TypeInv'
  BY JobInvStep
<1>2. \A v \in Variants : Created(v) => /\ Created(v)'
                                        /\ status[v] # "pending" => status'[v] # "pending"
  BY RowSteps, RowsAreCreatedOnce
<1>3. ASSUME NEW w \in Workers PROVE WorkerOK(w)'
  <2> USE DEF TypeInv, TypeOK
  <2>1. wpc[w] # "idle" => job[w] \in Variants /\ Created(job[w])
    BY DEF JobOK, WorkerOK, WorksOnCreated
  <2>2. gen[w] # "off" => wpc[w] = "gen"
    BY DEF JobOK
  <2>3. CASE /\ job'[w] = job[w] /\ gen'[w] = gen[w] /\ unacked'[w] = unacked[w]
             /\ wpc'[w] = wpc[w] /\ tries'[w] = tries[w]
    BY <1>2, <2>1, <2>2, <2>3
       DEF WorkerOK, HoldsOwnJob, WorksOnCreated, AcksSettled, Created, HasVariant, HasImage
  <2>4. CASE (GenStep(w) \/ GenFails(w)) /\ UNCHANGED workerVars
    <3>1. UNCHANGED <<job, unacked, wpc>>
      BY <2>4, GenTypes DEF Procs, workerVars
    <3>2. HoldsOwnJob(w)' /\ WorksOnCreated(w)'
      BY <1>2, <2>1, <3>1 DEF WorkerOK, HoldsOwnJob, WorksOnCreated, Created, HasVariant, HasImage
    <3>3. wpc[w] = "gen" /\ w \in Procs
      BY <2>2, <2>4, GenTypes DEF Procs
    <3>4. gen'[w] = "ok" => status'[job[w]] = "ready"
      BY <2>1, <2>4, <3>3
         DEF GenStep, GenFails, GenImage, GenFetch, GenWrite, GenMark, GenGoto, GenTypeOK,
             MarkReady, SetStatus, StoreTypeOK
    <3>5. AcksSettled(w)'
      BY <3>1, <3>3, <3>4 DEF AcksSettled
    <3> QED
      BY <3>2, <3>5 DEF WorkerOK
  <2>5. CASE WorkerNext(w) /\ WorkerOwnStep(w)
    <3> USE DEF WorkerOK, WGoto, GenTypeOK, WorkerTypeOK, BrokerTypeOK, Procs
    <3>1. CASE \E v \in Variants : Receive(w, v)
      <4> PICK v \in Variants : Receive(w, v)
        BY <3>1
      <4>1. Created(v) /\ Created(v)'
        BY <1>2 DEF Receive, Deliver, MessagesOK, InFlight
      <4>2. /\ job'[w] = v /\ unacked'[w] = v
            /\ wpc'[w] = "lookup" /\ gen'[w] # "ok"
        BY <2>2 DEF Receive, Deliver
      <4>3. Created(job[w])'
        BY <4>1, <4>2 DEF Created, HasVariant, HasImage
      <4> QED
        BY <4>2, <4>3 DEF HoldsOwnJob, WorksOnCreated, AcksSettled
    <3>2. CASE ~\E v \in Variants : Receive(w, v)
      <4>1. wpc[w] # "idle" \/ ConnectionLost(w)
        BY <2>5, <3>2
           DEF WorkerOwnStep, Lookup, CountAttempt, Generated, GiveUp, Backoff,
               Acknowledge, StatementFails, Crash
      <4>2. UNCHANGED job /\ wpc[w] # "idle"
        BY <2>5, <3>2, <4>1
           DEF WorkerOwnStep, Lookup, CountAttempt, Generated, GiveUp, Backoff,
               Acknowledge, StatementFails, Crash, ConnectionLost, genVars, GenStart,
               GenStop, GenGoto, HoldsOwnJob
      <4>3. WorksOnCreated(w)'
        BY <1>2, <2>1, <4>2 DEF WorksOnCreated, Created, HasVariant, HasImage
      <4>4. HoldsOwnJob(w)'
        BY <2>5, <3>2, <4>2
           DEF WorkerOwnStep, Lookup, CountAttempt, Generated, GiveUp, Backoff,
               Acknowledge, StatementFails, Crash, ConnectionLost, Ack, Requeue,
               brokerVars, workerVars, HoldsOwnJob
      <4>5. (wpc[w] = "ack" \/ gen[w] = "ok") => status'[job[w]] # "pending"
        BY <1>2, <2>1, <4>2 DEF AcksSettled
      <4>6. wpc'[w] = "ack" =>
              \/ wpc[w] = "ack" \/ gen[w] = "ok"
              \/ Lookup(w) /\ status[job[w]] # "pending"
              \/ MarkFailed(job[w])
        BY <2>5, <3>2
           DEF WorkerOwnStep, Lookup, CountAttempt, Generated, GiveUp, Backoff,
               Acknowledge, StatementFails, Crash, ConnectionLost, workerVars
      <4>7. gen'[w] = "ok" => gen[w] = "ok"
        BY <2>5, <3>2
           DEF WorkerOwnStep, Lookup, CountAttempt, Generated, GiveUp, Backoff,
               Acknowledge, StatementFails, Crash, ConnectionLost, genVars, GenStart,
               GenStop, GenGoto
      <4>8. AcksSettled(w)'
        <5>1. Lookup(w) /\ status[job[w]] # "pending" => status'[job[w]] # "pending"
          BY DEF Lookup, storeVars
        <5>2. MarkFailed(job[w]) => status'[job[w]] # "pending"
          BY <2>1, <4>2 DEF MarkFailed, SetStatus, StoreTypeOK
        <5> QED
          BY <4>2, <4>5, <4>6, <4>7, <5>1, <5>2 DEF AcksSettled
      <4> QED
        BY <4>3, <4>4, <4>8
    <3> QED
      BY <3>1, <3>2
  <2> QED
    BY <2>3, <2>4, <2>5, OthersLeaveWorker
       DEF WorkerNext, WorkerStep, WorkerFails, WorkerOwnStep
<1> QED
  BY <1>1, <1>3

(* What workers know of their variants holds in every reachable state. *)
THEOREM WorkerInvariant == Spec => []WorkerInv
<1>1. Init => WorkerInv
  <2> SUFFICES ASSUME Init PROVE WorkerInv
    OBVIOUS
  <2>1. JobInv
    BY InitJobInv
  <2> QED
    BY <2>1
       DEF Init, WorkerInit, Procs, WorkerInv, WorkerOK, HoldsOwnJob, WorksOnCreated,
           AcksSettled
<1>2. WorkerInv /\ [Next]_vars => WorkerInv'
  <2> SUFFICES ASSUME WorkerInv, UNCHANGED vars PROVE WorkerInv'
    BY WorkerInvStep
  <2>1. JobInv'
    BY NextJobInv DEF WorkerInv
  <2> QED
    BY <2>1
       DEF vars, storeVars, brokerVars, genVars, workerVars, WorkerInv, WorkerOK,
           HoldsOwnJob, WorksOnCreated, AcksSettled, Created, HasVariant, HasImage
<1> QED
  BY <1>1, <1>2, PTL DEF Spec

(* A message leaves the broker for good only by an acknowledgement, and the  *)
(* worker that acknowledges it knows that the row is no longer pending.      *)
LEMMA MessageLeavesSettled ==
    ASSUME WorkerInv, [Next]_vars, NEW v \in Variants, InFlight(v), ~InFlight(v)'
    PROVE  status[v] # "pending"
<1> USE DEF WorkerInv, JobInv, TypeInv, TypeOK, BrokerTypeOK, InFlight, Holders
<1>1. PICK w \in Workers : wpc[w] = "ack" /\ Ack(w) /\ unacked[w] = v
  <2>1. \A r \in Requests, u \in Variants : ~Publish(u)
    BY DEF Publish
  <2>2. \A w \in Workers, u \in Variants : ~Deliver(w, u)
    BY BrokerAssumption DEF Deliver
  <2>3. \A w \in Workers : ~Requeue(w)
    BY DEF Requeue
  <2>4. ~UNCHANGED brokerVars
    BY DEF brokerVars
  <2>5. Next
    BY <2>4 DEF vars
  <2>6. PICK w \in Workers : wpc[w] = "ack" /\ Ack(w)
    BY <2>1, <2>2, <2>3, <2>4, <2>5, BrokerSteps DEF BrokerStep
  <2>7. unacked[w] = v
    BY <2>6 DEF Ack
  <2> QED
    BY <2>6, <2>7
<1>2. job[w] = v
  BY <1>1, BrokerAssumption DEF WorkerOK, HoldsOwnJob
<1> QED
  BY <1>1, <1>2 DEF WorkerOK, AcksSettled

(* No job is dropped while its variant is pending.                           *)
THEOREM JobKeptHolds == Spec => JobKept
<1>1. WorkerInv /\ [Next]_vars =>
        [\A v \in Variants : InFlight(v) /\ ~InFlight(v)' => status[v] # "pending"]_vars
  BY MessageLeavesSettled
<1> QED
  BY <1>1, WorkerInvariant, PTL DEF Spec, JobKept
=============================================================================
