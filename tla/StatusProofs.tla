---------------------------- MODULE StatusProofs ----------------------------
(***************************************************************************)
(* What two answers mean: 422, that the attempts of the variant were used  *)
(* up, and 404, that the image is gone; and how many attempts there are.   *)
(***************************************************************************)
EXTENDS JobProofs, FiniteSetTheorems

(* A row that exists after a step and was created before it is the same row, *)
(* and its attempts are not taken back.                                      *)
LEMMA AttemptsGrow ==
    ASSUME TypeInv, ForeignKey, Next, NEW v \in Variants, Created(v), HasVariant(v)'
    PROVE  HasVariant(v) /\ attempts'[v] >= attempts[v]
<1> USE StoreAssumption
    DEF TypeInv, TypeOK, StoreTypeOK, ForeignKey, Created, HasVariant, HasImage
<1>1. CASE \E u \in Variants : InsertPending(u)
  BY <1>1 DEF InsertPending
<1>2. CASE \E u \in Variants : MarkReady(u) \/ MarkFailed(u)
  BY <1>2 DEF MarkReady, MarkFailed, SetStatus
<1>3. CASE \E u \in Variants : IncrAttempts(u)
  <2> PICK u \in Variants : IncrAttempts(u)
    BY <1>3
  <2>1. status'[v] = status[v]
    BY DEF IncrAttempts
  <2>2. attempts[v] \in Nat /\ (attempts'[v] = attempts[v] \/ attempts'[v] = attempts[v] + 1)
    BY DEF IncrAttempts
  <2> QED
    BY <2>1, <2>2
<1>4. CASE \E i \in Images : DeleteImage(i)
  BY <1>4 DEF DeleteImage
<1>5. CASE UNCHANGED storeVars
  BY <1>5 DEF storeVars
<1> QED
  BY <1>1, <1>2, <1>3, <1>4, <1>5, RowSteps DEF RowStep

(* FailedExhausted by itself is not inductive: a worker decides by the count *)
(* that IncrAttempts returned to it, which other workers may have raised, and*)
(* marks the row several steps later.                                        *)
CountsTrue(w) ==
    /\ wpc[w] \in {"gen", "giveUp"} /\ HasVariant(job[w]) => attempts[job[w]] >= tries[w]
    /\ wpc[w] = "giveUp" => tries[w] >= MaxAttempts

FailedInv == /\ WorkerInv
             /\ \A w \in Workers : CountsTrue(w)
             /\ FailedExhausted

(* A row becomes failed only when a worker gives up on it.                   *)
LEMMA FailedIsGivenUp ==
    ASSUME TypeInv, Next, NEW v \in Variants, status'[v] = "failed"
    PROVE  \/ status[v] = "failed"
           \/ \E w \in Workers : /\ wpc[w] = "giveUp" /\ job[w] = v /\ HasVariant(v)
                                 /\ UNCHANGED attempts
<1> USE DEF TypeInv, TypeOK, StoreTypeOK
<1>1. ASSUME NEW p \in Procs, GenStep(p) \/ GenFails(p)
      PROVE  status[v] = "failed"
  BY <1>1, GenTypes
     DEF GenStep, GenFails, GenImage, GenFetch, GenWrite, GenMark, MarkReady, SetStatus, storeVars
<1>2. ASSUME NEW r \in Requests, RequestNext(r), OwnStep(r)
      PROVE  status[v] = "failed"
  BY <1>2 DEF OwnStep, Begin, GetImage, GetVariantByHash, UpsertPending, ConflictFetch,
         PublishBestEffort, SyncGenerate, Reload, Poll, PollExpired, LastPoll,
         ServeVariant, CallFails, RequestLost, ReadsOnly, InsertPending, storeVars
<1>3. ASSUME NEW w \in Workers, WorkerNext(w), WorkerOwnStep(w)
      PROVE  \/ status[v] = "failed"
             \/ wpc[w] = "giveUp" /\ job[w] = v /\ HasVariant(v) /\ UNCHANGED attempts
  BY <1>3 DEF WorkerOwnStep, Receive, Lookup, CountAttempt, Generated, GiveUp, Backoff,
         Acknowledge, StatementFails, Crash, ConnectionLost, IncrAttempts, MarkFailed,
         SetStatus, storeVars
<1>4. ASSUME NEW d \in Deleters, DeleteNext(d) PROVE status[v] = "failed"
  <2>1. UNCHANGED storeVars \/ DeleteImage(dimg[d])
    BY <1>4 DEF DeleteNext, DeleteStep, DeleteFails, BeginDelete, DeleteGetImage,
           DeleteOriginalFile, ListPage, DeletePage, DeleteRow, DeleteCallFails,
           OriginalFails, ObjectsKept, DeleteLost
  <2> QED
    BY <2>1 DEF DeleteImage, storeVars
<1> QED
  BY <1>1, <1>2, <1>3, <1>4
     DEF Next, Procs, RequestNext, RequestStep, RequestFails, OwnStep,
         WorkerNext, WorkerStep, WorkerFails, WorkerOwnStep

(* Every step keeps the counts of the workers and the meaning of failed.     *)
LEMMA FailedInvStep ==
    ASSUME FailedInv, Next
    PROVE  FailedInv'
<1> USE DEF FailedInv
<1>1. WorkerInv' /\ TypeInv /\ ForeignKey
  BY WorkerInvStep DEF WorkerInv, JobInv
<1> USE DEF TypeInv, TypeOK, StoreTypeOK, WorkerTypeOK
<1>2. ASSUME NEW w \in Workers PROVE CountsTrue(w)'
  <2>1. wpc[w] # "idle" => job[w] \in Variants /\ Created(job[w])
    BY <1>1 DEF JobOK, WorkerInv, WorkerOK, WorksOnCreated
  <2>2. CASE job'[w] = job[w] /\ wpc'[w] = wpc[w] /\ tries'[w] = tries[w]
    <3>1. CASE wpc[w] \in {"gen", "giveUp"} /\ HasVariant(job[w])'
      <4>1. HasVariant(job[w]) /\ attempts'[job[w]] >= attempts[job[w]]
        <5>1. \A v \in Variants : Created(v) /\ status'[v] # "absent" =>
                 HasVariant(v) /\ attempts'[v] >= attempts[v]
          BY <1>1, AttemptsGrow DEF HasVariant
        <5>2. status'[job[w]] # "absent"
          BY <2>2, <3>1 DEF HasVariant
        <5> QED
          BY <2>1, <3>1, <5>1, <5>2
      <4>2. attempts[job[w]] >= tries[w]
        BY <3>1, <4>1 DEF CountsTrue
      <4>3. /\ attempts[job[w]] \in Nat /\ attempts'[job[w]] \in Nat /\ tries[w] \in Nat
        BY <1>1, <2>1, <3>1 DEF WorkerInv, JobInv
      <4>4. attempts'[job[w]] >= tries[w]
        BY <4>1, <4>2, <4>3
      <4> QED
        BY <2>2, <4>4 DEF CountsTrue
    <3>2. CASE ~(wpc[w] \in {"gen", "giveUp"} /\ HasVariant(job[w])')
      BY <2>2, <3>2 DEF CountsTrue, HasVariant
    <3> QED
      BY <3>1, <3>2
  <2>3. CASE (GenStep(w) \/ GenFails(w)) /\ UNCHANGED workerVars
    <3>1. UNCHANGED job
      BY <1>1, <2>3, GenTypes DEF Procs
    <3> QED
      BY <2>2, <2>3, <3>1 DEF workerVars
  <2>4. CASE CountAttempt(w)
    <3>1. CASE IncrAttempts(job[w]) /\ tries' = [tries EXCEPT ![w] = attempts'[job[w]]]
               /\ wpc' = [wpc EXCEPT ![w] = "gen"] /\ GenStart(w)
      <4>1. job' = job /\ wpc'[w] = "gen" /\ tries'[w] = attempts'[job[w]]
        BY <1>1, <3>1 DEF GenStart, GenGoto
      <4>2. attempts'[job[w]] \in Nat
        BY <1>1, <2>1, <2>4 DEF WorkerInv, JobInv, CountAttempt
      <4> QED
        BY <4>1, <4>2 DEF CountsTrue
    <3>2. CASE WGoto(w, "nack")
      BY <1>1, <3>2 DEF WGoto, CountsTrue
    <3> QED
      BY <2>4, <3>1, <3>2 DEF CountAttempt
  <2>5. CASE Generated(w)
    <3>1. UNCHANGED <<job, tries, attempts, status>> /\ wpc[w] = "gen"
      BY <2>5 DEF Generated, WGoto, GenStop, GenGoto, storeVars
    <3>2. wpc'[w] \notin {"gen", "giveUp"} \/ (wpc'[w] = "giveUp" /\ tries[w] >= MaxAttempts)
      BY <1>1, <2>5 DEF Generated, WGoto
    <3> QED
      BY <3>1, <3>2 DEF CountsTrue, HasVariant
  <2>6. CASE /\ WorkerNext(w) /\ WorkerOwnStep(w)
             /\ ~CountAttempt(w) /\ ~Generated(w) /\ ~ConnectionLost(w)
    <3>1. wpc'[w] \notin {"gen", "giveUp"}
      BY <1>1, <2>6
         DEF WorkerOwnStep, Receive, Lookup, GiveUp, Backoff, Acknowledge, StatementFails,
             Crash, WGoto
    <3> QED
      BY <3>1 DEF CountsTrue
  <2>7. CASE ConnectionLost(w)
    BY <2>2, <2>7 DEF ConnectionLost, workerVars, genVars
  <2> QED
    BY <1>1, <2>2, <2>3, <2>4, <2>5, <2>6, <2>7, OthersLeaveWorker
       DEF WorkerNext, WorkerStep, WorkerFails, WorkerOwnStep
<1>3. ASSUME NEW v \in Variants, status'[v] = "failed" PROVE attempts'[v] >= MaxAttempts
  <2>0. attempts[v] \in Nat /\ attempts'[v] \in Nat /\ MaxAttempts \in Nat
    BY <1>1, WorkerAssumption DEF WorkerInv, JobInv
  <2>1. CASE status[v] = "failed"
    <3>1. Created(v) /\ HasVariant(v)'
      BY <1>3, <2>1 DEF Created, HasVariant
    <3>2. attempts'[v] >= attempts[v]
      BY <1>1, <3>1, AttemptsGrow
    <3> QED
      BY <2>0, <2>1, <3>2 DEF FailedExhausted
  <2>2. CASE \E w \in Workers : /\ wpc[w] = "giveUp" /\ job[w] = v /\ HasVariant(v)
                                /\ UNCHANGED attempts
    <3> PICK w \in Workers : /\ wpc[w] = "giveUp" /\ job[w] = v /\ HasVariant(v)
                             /\ UNCHANGED attempts
      BY <2>2
    <3>1. attempts[v] >= tries[w] /\ tries[w] >= MaxAttempts /\ tries[w] \in Nat
      BY <1>1 DEF CountsTrue
    <3> QED
      BY <2>0, <3>1
  <2> QED
    BY <1>1, <1>3, <2>1, <2>2, FailedIsGivenUp
<1> QED
  BY <1>1, <1>2, <1>3 DEF FailedExhausted

(* A variant is failed, and answered 422, only after MaxAttempts attempts,   *)
(* however many workers count and mark it and whatever was redelivered.      *)
THEOREM FailedExhaustedHolds == Spec => []FailedExhausted
<1>1. FailedInv => FailedExhausted
  BY DEF FailedInv
<1>2. Init => WorkerInv
  BY InitJobInv DEF Init, WorkerInit, Procs, WorkerInv, WorkerOK, HoldsOwnJob, WorksOnCreated,
           AcksSettled
<1>3. Init => FailedInv
  BY <1>2 DEF Init, WorkerInit, FailedInv, CountsTrue, FailedExhausted
<1>4. FailedInv /\ [Next]_vars => FailedInv'
  <2> SUFFICES ASSUME FailedInv, UNCHANGED vars PROVE FailedInv'
    BY FailedInvStep
  <2>1. JobInv'
    BY NextJobInv DEF FailedInv, WorkerInv
  <2> QED
    BY <2>1
       DEF vars, storeVars, brokerVars, genVars, workerVars, WorkerInv, WorkerOK,
           HoldsOwnJob, WorksOnCreated, AcksSettled, Created, HasVariant, HasImage,
           FailedInv, CountsTrue, FailedExhausted
<1> QED
  BY <1>1, <1>3, <1>4, PTL DEF Spec
-----------------------------------------------------------------------------
(* A request that polls saw the row; if the row is gone, so is the image.    *)
PollsCreated == \A r \in Requests : rpc[r] = "poll" => Created(job[r])

PollInv == TypeInv /\ ForeignKey /\ PollsCreated

(* A request begins to poll only from a row that is there.                   *)
LEMMA PollersMove ==
    ASSUME TypeInv, Next, NEW r \in Requests, rpc'[r] = "poll"
    PROVE  /\ job'[r] = job[r] /\ job[r] \in Variants
           /\ rpc[r] = "poll" \/ (HasVariant(job[r]) /\ UNCHANGED storeVars)
<1> USE DEF TypeInv, TypeOK
<1>1. CASE RequestNext(r)
  <2>1. CASE (GenStep(r) \/ GenFails(r)) /\ UNCHANGED requestVars
    BY <1>1, <2>1, GenTypes DEF Procs, requestVars
  <2>2. CASE OwnStep(r)
    <3>1. /\ GetVariantByHash(r) \/ ConflictFetch(r)
          /\ status[job[r]] = "pending"
      BY <1>1, <2>2
         DEF OwnStep, ReadsOnly, Begin, GetImage, GetVariantByHash, UpsertPending,
             ConflictFetch, PublishBestEffort, SyncGenerate, Reload, Poll, PollExpired,
             LastPoll, ServeVariant, CallFails, RequestLost, Goto, Answer, AnswerReady,
             AnswerTerminal, Branch, ResolveTypeOK
    <3> QED
      BY <3>1 DEF GetVariantByHash, ConflictFetch, ReadsOnly, HasVariant, JobOK, genVars
  <2> QED
    BY <1>1, <2>1, <2>2 DEF RequestNext, RequestStep, RequestFails, OwnStep
<1>2. CASE ~RequestNext(r)
  <2>1. rpc'[r] = rpc[r] /\ job'[r] = job[r]
    <3>1. ASSUME NEW q \in Requests \ {r}, RequestNext(q)
          PROVE  rpc'[r] = rpc[r] /\ job'[r] = job[r]
      <4>1. CASE (GenStep(q) \/ GenFails(q)) /\ UNCHANGED requestVars
        BY <4>1, GenTypes DEF Procs, requestVars
      <4>2. CASE OwnStep(q)
        BY <3>1, <4>2, RequestFrame, RequestEffect DEF ResolveTypeOK, GenTypeOK, Procs
      <4> QED
        BY <3>1, <4>1, <4>2 DEF RequestNext, RequestStep, RequestFails, OwnStep
    <3>2. ASSUME NEW w \in Workers, WorkerNext(w)
          PROVE  rpc'[r] = rpc[r] /\ job'[r] = job[r]
      <4>1. UNCHANGED rpc
        BY <3>2 DEF WorkerNext, requestVars
      <4>2. CASE (GenStep(w) \/ GenFails(w)) /\ UNCHANGED workerVars
        BY <4>1, <4>2, GenTypes DEF Procs
      <4>3. CASE WorkerOwnStep(w)
        BY <3>2, <4>1, <4>3, WorkerEffect, ResolveAssumption DEF GenTypeOK, Procs
      <4> QED
        BY <3>2, <4>2, <4>3 DEF WorkerNext, WorkerStep, WorkerFails, WorkerOwnStep
    <3>3. ASSUME NEW d \in Deleters, DeleteNext(d)
          PROVE  rpc'[r] = rpc[r] /\ job'[r] = job[r]
      BY <3>3 DEF DeleteNext, requestVars, genVars
    <3> QED
      BY <1>2, <3>1, <3>2, <3>3 DEF Next
  <2> QED
    BY <2>1 DEF JobOK
<1> QED
  BY <1>1, <1>2

(* Every step keeps what the polling requests know.                          *)
LEMMA PollInvStep ==
    ASSUME PollInv, Next
    PROVE  PollInv'
<1> USE DEF PollInv
<1>1. TypeInv' /\ ForeignKey'
  BY NextTypeInv, RowSteps, RowsAreCreatedOnce
<1>2. \A v \in Variants : Created(v) => Created(v)'
  BY RowSteps, RowsAreCreatedOnce
<1>3. ASSUME NEW r \in Requests, rpc'[r] = "poll" PROVE Created(job[r])'
  <2>1. /\ job'[r] = job[r] /\ job[r] \in Variants
        /\ rpc[r] = "poll" \/ (HasVariant(job[r]) /\ UNCHANGED storeVars)
    BY <1>3, PollersMove
  <2>2. Created(job[r])
    BY <2>1 DEF PollsCreated, Created
  <2> QED
    BY <1>2, <2>1, <2>2 DEF Created, HasVariant, HasImage
<1> QED
  BY <1>1, <1>3 DEF PollsCreated

(* The invariant of polling requests holds in every reachable state.         *)
THEOREM PollInvariant == Spec => []PollInv
<1>1. Init => PollInv
  <2> SUFFICES ASSUME Init PROVE PollInv
    OBVIOUS
  <2>1. TypeInv /\ ForeignKey
    BY InitJobInv DEF JobInv
  <2> QED
    BY <2>1 DEF Init, ResolveInit, PollInv, PollsCreated
<1>2. PollInv /\ [Next]_vars => PollInv'
  <2> SUFFICES ASSUME PollInv, UNCHANGED vars PROVE PollInv'
    BY PollInvStep
  <2>1. TypeInv'
    BY NextTypeInv DEF PollInv
  <2> QED
    BY <2>1 DEF vars, storeVars, genVars, requestVars, PollInv, PollsCreated, ForeignKey,
                Created, HasVariant, HasImage
<1> QED
  BY <1>1, <1>2, PTL DEF Spec

(* The step that answers 404 is taken when the image is gone.                *)
LEMMA NotFoundStep ==
    ASSUME PollInv, [Next]_vars, NEW r \in Requests, rcode'[r] = 404, rcode[r] # 404
    PROVE  ~HasImage(ImageOf[job[r]])
<1> USE DEF PollInv, TypeInv, TypeOK, ResolveTypeOK
<1>1. PICK q \in Requests : RequestNext(q)
  BY DEF Next, vars, requestVars, WorkerNext, DeleteNext
<1>2. OwnStep(q)
  BY <1>1 DEF RequestNext, RequestStep, RequestFails, OwnStep, requestVars
<1>3. q = r /\ (GetImage(r) \/ (Poll(r) /\ ~HasVariant(job[r])))
            /\ (GetImage(r) => ~HasImage(ImageOf[job[r]]))
  BY <1>2
     DEF OwnStep, ReadsOnly, Begin, GetImage, GetVariantByHash, UpsertPending,
         ConflictFetch, PublishBestEffort, SyncGenerate, Reload, Poll, PollExpired,
         LastPoll, ServeVariant, CallFails, RequestLost, Goto, Answer, AnswerReady,
         AnswerTerminal, Branch
<1> QED
  BY <1>3 DEF Poll, PollsCreated, Created

(* 404 is never answered for an image that is there, not even by the request *)
(* that lost sight of its variant's row while it polled.                     *)
THEOREM NotFoundIsTrueHolds == Spec => NotFoundIsTrue
<1>1. PollInv /\ [Next]_vars =>
        [\A r \in Requests :
            rcode'[r] = 404 /\ rcode[r] # 404 => ~HasImage(ImageOf[job[r]])]_vars
  BY NotFoundStep
<1> QED
  BY <1>1, PollInvariant, PTL DEF Spec, NotFoundIsTrue
-----------------------------------------------------------------------------
(***************************************************************************)
(* AttemptsWithinBudget: an attempt that has been counted, or may still be *)
(* counted without another fault, is one of the first MaxAttempts or paid  *)
(* for by a fault.                                                         *)
(***************************************************************************)

(* Workers that lost the message of their job: one fault each.               *)
Orphans == {w \in Workers : wpc[w] # "idle" /\ unacked[w] = None}

(* Those of them that may still count an attempt of v.                       *)
Rights(v) == {w \in Workers : /\ job[w] = v /\ unacked[w] = None
                              /\ wpc[w] \in {"lookup", "incr"}}

(* The message of v may: its worker is about to, or the row is pending and   *)
(* no worker holds the message after its count.                              *)
MayCount(v) ==
    \/ \E w \in Workers : unacked[w] = v /\ wpc[w] = "incr"
    \/ /\ status[v] = "pending"
       /\ \A w \in Workers : unacked[w] = v => wpc[w] \notin {"gen", "giveUp"}

Budget(v) ==
    /\ HasVariant(v) =>
          attempts[v] + Cardinality(Rights(v)) + (IF MayCount(v) THEN 1 ELSE 0)
              <= MaxAttempts + faults
    /\ ~HasVariant(v) => attempts[v] = 0

(* What others have counted, or may count, since a worker counted cost a     *)
(* fault each: so the worker, which decides by its own count, may retry.     *)
Tally(w) ==
    unacked[w] # None /\ wpc[w] = "gen" /\ HasVariant(job[w]) =>
        attempts[job[w]] + Cardinality(Rights(job[w])) <= tries[w] + faults

BudgetInv == /\ WorkerInv
             /\ IsFiniteSet(Orphans) /\ Cardinality(Orphans) <= faults
             /\ \A v \in Variants : Budget(v)
             /\ \A w \in Workers : Tally(w)

(* The workers with a right are among those that lost their message.         *)
LEMMA RightsPaid ==
    ASSUME BudgetInv, NEW v
    PROVE  /\ IsFiniteSet(Rights(v)) /\ Cardinality(Rights(v)) \in Nat
           /\ Cardinality(Rights(v)) <= faults
<1>1. Rights(v) \subseteq Orphans
  BY DEF Rights, Orphans
<1>2. faults \in Nat
  BY MaxFaultsAssumption DEF BudgetInv, WorkerInv, JobInv, TypeInv, TypeOK
<1> QED
  BY <1>1, <1>2, FS_Subset, FS_CardinalityType DEF BudgetInv

(* A step of a worker that does not hold the message of v: it may count with *)
(* the right it has, or give the right up.                                   *)
LEMMA OrphanMoves ==
    ASSUME BudgetInv, NEW w \in Workers, WorkerNext(w), WorkerOwnStep(w),
           NEW v \in Variants, HasVariant(v), unacked[w] # v
    PROVE  /\ MayCount(v)' => MayCount(v)
           /\ \/ attempts'[v] = attempts[v] /\ Rights(v)' \subseteq Rights(v)
              \/ /\ attempts'[v] = attempts[v] + 1
                 /\ w \in Rights(v) /\ Rights(v)' = Rights(v) \ {w}
<1> USE DEF BudgetInv, WorkerInv, JobInv, TypeInv, TypeOK, StoreTypeOK, BrokerTypeOK, GenTypeOK,
            WorkerTypeOK, Procs
<1>1. /\ job' = [job EXCEPT ![w] = job'[w]] /\ wpc' = [wpc EXCEPT ![w] = wpc'[w]]
  BY WorkerEffect
<1>2. \A u \in Workers \ {w} : /\ job'[u] = job[u] /\ wpc'[u] = wpc[u]
                               /\ unacked'[u] = unacked[u]
  <2>1. \A u \in Workers \ {w} : unacked'[u] = unacked[u]
    BY DEF WorkerOwnStep, Receive, Lookup, CountAttempt, Generated, GiveUp, Backoff, Acknowledge,
           StatementFails, Crash, ConnectionLost, Deliver, Ack, Requeue, brokerVars
  <2> QED
    BY <1>1, <2>1
<1>3. unacked[w] # None => wpc[w] # "idle" /\ unacked[w] = job[w]
  BY DEF WorkerOK, HoldsOwnJob
<1>4. CASE \E u \in Variants : Receive(w, u)
  <2> PICK u \in Variants : Receive(w, u)
    BY <1>4
  <2>1. UNCHANGED <<status, attempts>> /\ wpc[w] = "idle" /\ wpc'[w] = "lookup"
    BY DEF Receive, WGoto, storeVars
  <2>2. unacked[w] = None /\ unacked'[w] = u /\ queue[u] > 0
    BY DEF Receive, Deliver
  <2>3. Rights(v)' \subseteq Rights(v)
    BY <1>2, <2>1, <2>2, BrokerAssumption DEF Rights
  <2>4. \A x \in Workers : unacked[x] # u
    BY <2>2 DEF SingleJob, Holders
  <2>5. MayCount(v)' => MayCount(v)
    BY <1>2, <2>1, <2>2, <2>4 DEF MayCount
  <2> QED
    BY <2>1, <2>3, <2>5
<1>5. CASE ~\E u \in Variants : Receive(w, u)
  <2>1. job'[w] = job[w] /\ unacked'[w] \in {unacked[w], None} /\ unacked'[w] # v
    BY <1>5, BrokerAssumption
       DEF WorkerOwnStep, Lookup, CountAttempt, Generated, GiveUp, Backoff, Acknowledge,
           StatementFails, Crash, ConnectionLost, Ack, Requeue, brokerVars, genVars, GenStart,
           GenStop, GenGoto
  <2>2. /\ status'[v] = status[v] \/ status'[v] = "failed"
        /\ MayCount(v)' => MayCount(v)
    <3>1. status'[v] = status[v] \/ status'[v] = "failed"
      BY <1>5
         DEF WorkerOwnStep, Lookup, CountAttempt, Generated, GiveUp, Backoff, Acknowledge,
             StatementFails, Crash, ConnectionLost, IncrAttempts, MarkFailed, SetStatus, storeVars
    <3> QED
      BY <1>2, <2>1, <3>1 DEF MayCount
  <2>3. CASE job[w] # v
    <3>1. attempts'[v] = attempts[v]
      BY <1>5, <2>3
         DEF WorkerOwnStep, Lookup, CountAttempt, Generated, GiveUp, Backoff, Acknowledge,
             StatementFails, Crash, ConnectionLost, IncrAttempts, MarkFailed, SetStatus, storeVars
    <3>2. Rights(v)' \subseteq Rights(v)
      BY <1>2, <2>1, <2>3 DEF Rights
    <3> QED
      BY <2>2, <3>1, <3>2
  <2>4. CASE job[w] = v
    <3>1. unacked[w] = None
      BY <1>3, <2>4
    <3>2. wpc'[w] \in {"lookup", "incr"} => wpc[w] \in {"lookup", "incr"}
      BY <1>5, <3>1
         DEF WorkerOwnStep, Lookup, CountAttempt, Generated, GiveUp, Backoff, Acknowledge,
             StatementFails, Crash, ConnectionLost, WGoto
    <3>3. Rights(v)' \subseteq Rights(v)
      BY <1>2, <2>1, <3>1, <3>2 DEF Rights
    <3>4. \/ attempts'[v] = attempts[v]
          \/ /\ attempts'[v] = attempts[v] + 1
             /\ wpc[w] = "incr" /\ wpc'[w] \in {"gen", "nack"}
      BY <1>5, <2>4
         DEF WorkerOwnStep, Lookup, CountAttempt, Generated, GiveUp, Backoff, Acknowledge,
             StatementFails, Crash, ConnectionLost, WGoto, IncrAttempts, MarkFailed, SetStatus,
             storeVars
    <3>5. wpc[w] = "incr" /\ wpc'[w] \in {"gen", "nack"} =>
             w \in Rights(v) /\ Rights(v)' = Rights(v) \ {w}
      BY <1>2, <2>1, <2>4, <3>1 DEF Rights
    <3> QED
      BY <2>2, <3>3, <3>4, <3>5
  <2> QED
    BY <2>3, <2>4
<1> QED
  BY <1>4, <1>5

(* A step of the worker that holds the message of v: what it counts was      *)
(* allowed to the message, and a fault or a retry allows one more.           *)
LEMMA HolderMoves ==
    ASSUME BudgetInv, NEW w \in Workers, WorkerNext(w), WorkerOwnStep(w),
           NEW v \in Variants, HasVariant(v), unacked[w] = v
    PROVE  \/ /\ UNCHANGED faults
              /\ attempts'[v] = attempts[v] /\ Rights(v)' = Rights(v)
              /\ (MayCount(v)' => MayCount(v)) \/ (wpc[w] = "gen" /\ tries[w] < MaxAttempts)
           \/ /\ UNCHANGED faults
              /\ attempts'[v] = attempts[v] + 1 /\ Rights(v)' = Rights(v)
              /\ MayCount(v) /\ ~MayCount(v)'
           \/ /\ faults' = faults + 1
              /\ attempts'[v] = attempts[v] /\ Rights(v)' = Rights(v)
           \/ /\ faults' = faults + 1
              /\ attempts'[v] = attempts[v] + 1 /\ Rights(v)' = Rights(v) /\ MayCount(v)
           \/ /\ faults' = faults + 1
              /\ attempts'[v] = attempts[v]
              /\ Rights(v)' = Rights(v) \cup {w}
              /\ MayCount(v)' => MayCount(v)
<1> USE DEF BudgetInv, WorkerInv, JobInv, TypeInv, TypeOK, StoreTypeOK, BrokerTypeOK, GenTypeOK,
            WorkerTypeOK, Procs
<1>1. /\ wpc[w] # "idle" /\ job[w] = v /\ v # None
      /\ \A u \in Workers : unacked[u] = v => u = w
  BY BrokerAssumption DEF WorkerOK, HoldsOwnJob, SingleJob
<1>2. ~\E u \in Variants : Receive(w, u)
  BY <1>1 DEF Receive
<1>3. /\ job' = job
      /\ \A u \in Workers \ {w} : wpc'[u] = wpc[u] /\ unacked'[u] = unacked[u]
  <2>1. UNCHANGED job
    BY <1>2
       DEF WorkerOwnStep, Lookup, CountAttempt, Generated, GiveUp, Backoff, Acknowledge,
           StatementFails, Crash, ConnectionLost, genVars, GenStart, GenStop, GenGoto
  <2>2. \A u \in Workers \ {w} : unacked'[u] = unacked[u]
    BY <1>2
       DEF WorkerOwnStep, Lookup, CountAttempt, Generated, GiveUp, Backoff, Acknowledge,
           StatementFails, Crash, ConnectionLost, Ack, Requeue, brokerVars
  <2> QED
    BY <2>1, <2>2, WorkerEffect
<1>4. MayCount(v) <=> \/ wpc[w] = "incr"
                      \/ status[v] = "pending" /\ wpc[w] \notin {"gen", "giveUp"}
  BY <1>1 DEF MayCount
<1>5. ASSUME unacked'[w] = v
      PROVE  /\ MayCount(v)' <=> \/ wpc'[w] = "incr"
                                 \/ status'[v] = "pending" /\ wpc'[w] \notin {"gen", "giveUp"}
             /\ Rights(v)' = Rights(v)
  BY <1>1, <1>3, <1>5 DEF MayCount, Rights
<1>6. ASSUME unacked'[w] = None
      PROVE  /\ MayCount(v)' => status'[v] = "pending"
             /\ wpc'[w] \notin {"lookup", "incr"} => Rights(v)' = Rights(v)
             /\ wpc'[w] \in {"lookup", "incr"} => Rights(v)' = Rights(v) \cup {w}
  BY <1>1, <1>3, <1>6 DEF MayCount, Rights
<1>7. CASE Lookup(w)
  <2>1. UNCHANGED <<faults, status, attempts, unacked>>
    BY <1>7 DEF Lookup, storeVars, brokerVars
  <2>2. wpc[w] = "lookup" /\ wpc'[w] = IF status[v] = "pending" THEN "incr" ELSE "ack"
    BY <1>1, <1>7 DEF Lookup, WGoto
  <2> QED
    BY <1>4, <1>5, <2>1, <2>2
<1>8. CASE CountAttempt(w)
  <2>1. UNCHANGED <<faults, status, unacked>> /\ wpc[w] = "incr" /\ wpc'[w] = "gen"
        /\ attempts'[v] = attempts[v] + 1
    BY <1>1, <1>8 DEF CountAttempt, IncrAttempts, brokerVars
  <2> QED
    BY <1>4, <1>5, <2>1
<1>9. CASE Generated(w)
  <2>1. UNCHANGED <<faults, status, attempts, unacked>> /\ wpc[w] = "gen"
    BY <1>9 DEF Generated, storeVars, brokerVars
  <2>2. \/ gen[w] = "ok" /\ wpc'[w] = "ack"
        \/ wpc'[w] = "giveUp" \/ tries[w] < MaxAttempts
    BY <1>9, WorkerAssumption DEF Generated, WGoto
  <2>3. gen[w] = "ok" => status[v] # "pending"
    BY <1>1 DEF WorkerOK, AcksSettled
  <2> QED
    BY <1>5, <2>1, <2>2, <2>3
<1>10. CASE GiveUp(w)
  <2>1. UNCHANGED <<faults, attempts, unacked>> /\ status'[v] = "failed" /\ wpc'[w] = "ack"
    BY <1>1, <1>10 DEF GiveUp, MarkFailed, SetStatus, WGoto, brokerVars
  <2> QED
    BY <1>5, <2>1
<1>11. CASE Backoff(w)
  <2>1. UNCHANGED <<faults, status, attempts, unacked>> /\ wpc[w] = "backoff" /\ wpc'[w] = "nack"
    BY <1>11 DEF Backoff, WGoto, storeVars, brokerVars
  <2> QED
    BY <1>4, <1>5, <2>1
<1>12. CASE Acknowledge(w)
  <2>1. UNCHANGED <<faults, status, attempts>> /\ unacked'[w] = None
        /\ wpc[w] \in {"ack", "nack"} /\ wpc'[w] = "idle"
    BY <1>12 DEF Acknowledge, Ack, Requeue, WGoto, storeVars
  <2> QED
    BY <1>4, <1>6, <2>1
<1>13. CASE StatementFails(w)
  <2>1. faults' = faults + 1 /\ UNCHANGED unacked
    BY <1>13 DEF StatementFails, Fault, brokerVars
  <2>2. \/ attempts'[v] = attempts[v]
        \/ attempts'[v] = attempts[v] + 1 /\ wpc[w] = "incr"
    BY <1>1, <1>13 DEF StatementFails, IncrAttempts, MarkFailed, SetStatus, storeVars
  <2> QED
    BY <1>4, <1>5, <2>1, <2>2
<1>14. CASE Crash(w)
  <2>1. faults' = faults + 1 /\ UNCHANGED attempts /\ unacked'[w] = None /\ wpc'[w] = "idle"
    BY <1>14 DEF Crash, Fault, Requeue, WGoto, storeVars
  <2> QED
    BY <1>6, <2>1
<1>15. CASE ConnectionLost(w)
  <2>1. faults' = faults + 1 /\ UNCHANGED <<status, attempts, wpc>> /\ unacked'[w] = None
    BY <1>15 DEF ConnectionLost, Fault, Requeue, storeVars, workerVars
  <2> QED
    BY <1>4, <1>6, <2>1
<1> QED
  BY <1>2, <1>7, <1>8, <1>9, <1>10, <1>11, <1>12, <1>13, <1>14, <1>15 DEF WorkerOwnStep

(* A step that is no worker's own counts no attempt and gives no right; at   *)
(* most it makes the row, whose message nobody works on yet.                 *)
LEMMA OthersMove ==
    ASSUME BudgetInv, Next, ~\E w \in Workers : WorkerNext(w) /\ WorkerOwnStep(w),
           NEW v \in Variants
    PROVE  /\ Orphans' = Orphans /\ faults' \in Nat /\ faults' >= faults
           /\ Rights(v)' = Rights(v)
           /\ HasVariant(v) /\ HasVariant(v)' =>
                 attempts'[v] = attempts[v] /\ (MayCount(v)' => MayCount(v))
           /\ ~HasVariant(v) /\ HasVariant(v)' => attempts'[v] = 0 /\ Rights(v) = {}
<1> USE DEF BudgetInv, WorkerInv, JobInv, TypeInv, TypeOK, StoreTypeOK
<1>1. \A w \in Workers : /\ job'[w] = job[w] /\ unacked'[w] = unacked[w]
                         /\ wpc'[w] = wpc[w] /\ tries'[w] = tries[w]
  <2> TAKE w \in Workers
  <2>1. CASE (GenStep(w) \/ GenFails(w)) /\ UNCHANGED workerVars
    BY <2>1, GenTypes DEF Procs, workerVars
  <2> QED
    BY <2>1, OthersLeaveWorker DEF WorkerNext, WorkerStep, WorkerFails, WorkerOwnStep
<1>2. Orphans' = Orphans /\ Rights(v)' = Rights(v)
  BY <1>1 DEF Orphans, Rights
<1>3. faults' \in Nat /\ faults' >= faults
  <2>1. TypeInv'
    BY NextTypeInv
  <2>2. faults \in Nat /\ faults' \in Nat
    BY <2>1, MaxFaultsAssumption
  <2>3. UNCHANGED faults \/ Fault
    <3>1. ASSUME NEW w \in Workers, WorkerNext(w) PROVE UNCHANGED faults
      BY <3>1 DEF WorkerNext, WorkerStep, WorkerFails, WorkerOwnStep, GenStep, GenFails
    <3>2. ASSUME NEW d \in Deleters, DeleteNext(d) PROVE UNCHANGED faults \/ Fault
      BY <3>2 DEF DeleteNext, DeleteStep, DeleteFails, BeginDelete, DeleteGetImage,
           DeleteOriginalFile, ListPage, DeletePage, DeleteRow, DeleteCallFails,
           OriginalFails, ObjectsKept, DeleteLost
    <3>3. ASSUME NEW r \in Requests, RequestNext(r) PROVE UNCHANGED faults \/ Fault
      BY <3>3 DEF RequestNext, RequestStep, RequestFails, GenStep, GenFails, ReadsOnly, Begin,
           GetImage, GetVariantByHash, UpsertPending, ConflictFetch, PublishBestEffort,
           SyncGenerate, Reload, Poll, PollExpired, LastPoll, ServeVariant, CallFails,
           RequestLost
    <3> QED
      BY <3>1, <3>2, <3>3 DEF Next
  <2> QED
    BY <2>2, <2>3 DEF Fault
<1>4. \/ \E u \in Variants : InsertPending(u) \/ MarkReady(u)
      \/ \E i \in Images : DeleteImage(i)
      \/ UNCHANGED storeVars
  <2>1. ASSUME NEW q \in Procs, GenStep(q) \/ GenFails(q)
        PROVE  (\E u \in Variants : MarkReady(u)) \/ UNCHANGED storeVars
    BY <2>1, GenTypes DEF GenStep, GenFails, GenImage, GenFetch, GenWrite, GenMark
  <2>2. ASSUME NEW w \in Workers, WorkerNext(w)
        PROVE  (\E u \in Variants : MarkReady(u)) \/ UNCHANGED storeVars
    BY <2>1, <2>2 DEF WorkerNext, WorkerStep, WorkerFails, WorkerOwnStep, Procs
  <2>3. ASSUME NEW d \in Deleters, DeleteNext(d)
        PROVE  (\E i \in Images : DeleteImage(i)) \/ UNCHANGED storeVars
    <3>1. dimg[d] \in Images
      BY DEF DeleteTypeOK
    <3> QED
      BY <2>3, <3>1
         DEF DeleteNext, DeleteStep, DeleteFails, BeginDelete, DeleteGetImage,
             DeleteOriginalFile, ListPage, DeletePage, DeleteRow, DeleteCallFails,
             OriginalFails, ObjectsKept, DeleteLost
  <2>4. ASSUME NEW r \in Requests, RequestNext(r)
        PROVE  (\E u \in Variants : InsertPending(u) \/ MarkReady(u)) \/ UNCHANGED storeVars
    <3>1. CASE rpc[r] = "upsert" /\ InsertPending(job[r])
      BY <3>1 DEF JobOK
    <3> QED
      BY <2>1, <2>4, <3>1
         DEF Procs, RequestNext, RequestStep, RequestFails, ReadsOnly, Begin, GetImage,
             GetVariantByHash, UpsertPending, ConflictFetch, PublishBestEffort,
             SyncGenerate, Reload, Poll, PollExpired, LastPoll, ServeVariant, CallFails,
             RequestLost
  <2> QED
    BY <2>2, <2>3, <2>4 DEF Next
<1>5. ASSUME HasVariant(v), HasVariant(v)'
      PROVE  attempts'[v] = attempts[v] /\ (MayCount(v)' => MayCount(v))
  <2>1. attempts'[v] = attempts[v] /\ (status'[v] = status[v] \/ status'[v] = "ready")
    <3>1. CASE \E u \in Variants : InsertPending(u)
      BY <1>5, <3>1 DEF InsertPending, HasVariant
    <3>2. CASE \E u \in Variants : MarkReady(u)
      BY <3>2 DEF MarkReady, SetStatus
    <3>3. CASE \E i \in Images : DeleteImage(i)
      BY <1>5, <3>3 DEF DeleteImage, HasVariant
    <3> QED
      BY <1>4, <3>1, <3>2, <3>3 DEF storeVars
  <2> QED
    BY <1>1, <2>1 DEF MayCount
<1>6. ASSUME ~HasVariant(v), HasVariant(v)' PROVE attempts'[v] = 0 /\ Rights(v) = {}
  <2>1. InsertPending(v)
    BY <1>4, <1>6 DEF InsertPending, MarkReady, SetStatus, DeleteImage, HasVariant, storeVars
  <2>2. ~Created(v) /\ attempts'[v] = 0
    BY <2>1 DEF InsertPending, Created
  <2> QED
    BY <2>2 DEF Rights, WorkerOK, WorksOnCreated
<1> QED
  BY <1>2, <1>3, <1>5, <1>6

(* Only a lost connection makes an orphan, and it is a fault.                *)
LEMMA OrphansPaid ==
    ASSUME BudgetInv, Next
    PROVE  IsFiniteSet(Orphans)' /\ Cardinality(Orphans)' <= faults'
<1> USE DEF BudgetInv, WorkerInv, JobInv, TypeInv, TypeOK, BrokerTypeOK, WorkerTypeOK
<1>0. faults \in Nat /\ Cardinality(Orphans) \in Nat
  BY MaxFaultsAssumption, FS_CardinalityType
<1>1. CASE ~\E w \in Workers : WorkerNext(w) /\ WorkerOwnStep(w)
  <2>1. CASE \E v \in Variants : TRUE
    BY <1>0, <1>1, <2>1, OthersMove
  <2>2. CASE Variants = {}
    <3>1. \A w \in Workers : wpc[w] = "idle"
      BY <2>2 DEF JobOK
    <3>2. TypeInv' /\ TypeInv
      BY NextTypeInv
    <3>3. \A w \in Workers : wpc'[w] = "idle"
      BY <2>2, <3>2 DEF JobOK
    <3>4. Orphans = {} /\ Orphans' = {}
      BY <3>1, <3>3 DEF Orphans
    <3>5. faults' \in Nat
      BY <3>2, MaxFaultsAssumption
    <3> QED
      BY <3>4, <3>5, FS_EmptySet
  <2> QED
    BY <2>1, <2>2
<1>2. ASSUME NEW w \in Workers, WorkerNext(w), WorkerOwnStep(w)
      PROVE  IsFiniteSet(Orphans)' /\ Cardinality(Orphans)' <= faults'
  <2>1. \A u \in Workers \ {w} : wpc'[u] = wpc[u] /\ unacked'[u] = unacked[u]
    <3>1. \A u \in Workers \ {w} : unacked'[u] = unacked[u]
      BY <1>2
         DEF WorkerOwnStep, Receive, Lookup, CountAttempt, Generated, GiveUp, Backoff,
             Acknowledge, StatementFails, Crash, ConnectionLost, Deliver, Ack, Requeue, brokerVars
    <3> QED
      BY <1>2, <3>1, WorkerEffect
  <2>2. CASE ConnectionLost(w)
    <3>1. Orphans' \subseteq Orphans \cup {w}
      BY <2>1 DEF Orphans
    <3>2. faults' = faults + 1
      BY <2>2 DEF ConnectionLost, Fault
    <3>3. /\ IsFiniteSet(Orphans \cup {w})
          /\ Cardinality(Orphans \cup {w}) \in {Cardinality(Orphans), Cardinality(Orphans) + 1}
      BY <1>0, FS_AddElement
    <3>4. /\ IsFiniteSet(Orphans') /\ Cardinality(Orphans') \in Nat
          /\ Cardinality(Orphans') <= Cardinality(Orphans \cup {w})
      BY <3>1, <3>3, FS_Subset, FS_CardinalityType
    <3> QED
      BY <1>0, <3>2, <3>3, <3>4
  <2>3. CASE ~ConnectionLost(w)
    <3>1. Orphans' \subseteq Orphans
      <4>1. wpc'[w] # "idle" /\ unacked'[w] = None => wpc[w] # "idle" /\ unacked[w] = None
        BY <1>2, <2>3, BrokerAssumption
           DEF WorkerOwnStep, Receive, Lookup, CountAttempt, Generated, GiveUp, Backoff,
               Acknowledge, StatementFails, Crash, Deliver, Ack, Requeue, brokerVars, WGoto
      <4> QED
        BY <2>1, <4>1 DEF Orphans
    <3>2. faults' \in {faults, faults + 1}
      BY <1>2
         DEF WorkerOwnStep, Receive, Lookup, CountAttempt, Generated, GiveUp, Backoff,
             Acknowledge, StatementFails, Crash, ConnectionLost, Fault
    <3>3. /\ IsFiniteSet(Orphans') /\ Cardinality(Orphans') \in Nat
          /\ Cardinality(Orphans') <= Cardinality(Orphans)
      BY <3>1, FS_Subset, FS_CardinalityType
    <3> QED
      BY <1>0, <3>2, <3>3
  <2> QED
    BY <2>2, <2>3
<1> QED
  BY <1>1, <1>2

(* Every step keeps the budget of every variant.                             *)
LEMMA BudgetStep ==
    ASSUME BudgetInv, Next, NEW v \in Variants
    PROVE  Budget(v)'
<1> USE DEF BudgetInv, WorkerInv, JobInv, TypeInv, TypeOK, StoreTypeOK
<1>1. TypeInv'
  BY NextTypeInv
<1>2. /\ attempts[v] \in Nat /\ attempts'[v] \in Nat /\ faults \in Nat /\ faults' \in Nat
      /\ MaxAttempts \in Nat /\ MaxAttempts >= 1
  BY <1>1, MaxFaultsAssumption, WorkerAssumption
<1>3. IsFiniteSet(Rights(v)) /\ Cardinality(Rights(v)) \in Nat
  BY RightsPaid
<1>4. ASSUME ~HasVariant(v)' PROVE attempts'[v] = 0
  <2>1. RowStep
    BY RowSteps
  <2> QED
    BY <1>4, <2>1 DEF RowStep, InsertPending, MarkReady, MarkFailed, SetStatus, IncrAttempts,
                      DeleteImage, storeVars, Budget, HasVariant
<1>5. ASSUME HasVariant(v)'
      PROVE  attempts'[v] + Cardinality(Rights(v)') + (IF MayCount(v)' THEN 1 ELSE 0)
                 <= MaxAttempts + faults'
  <2>1. CASE ~\E w \in Workers : WorkerNext(w) /\ WorkerOwnStep(w)
    <3>1. faults' >= faults /\ Rights(v)' = Rights(v)
      BY <2>1, OthersMove
    <3>2. CASE HasVariant(v)
      <4>1. attempts'[v] = attempts[v] /\ (MayCount(v)' => MayCount(v))
        BY <1>5, <2>1, <3>2, OthersMove
      <4> QED
        BY <1>2, <1>3, <3>1, <3>2, <4>1 DEF Budget
    <3>3. CASE ~HasVariant(v)
      <4>1. attempts'[v] = 0 /\ Cardinality(Rights(v)') = 0
        BY <1>5, <2>1, <3>1, <3>3, OthersMove, FS_EmptySet
      <4> DEFINE after == IF MayCount(v)' THEN 1 ELSE 0
      <4>2. after = 0 \/ after = 1
        OBVIOUS
      <4> HIDE DEF after
      <4>3. faults' >= 0
        BY <1>2
      <4>4. attempts'[v] + Cardinality(Rights(v)') + after <= MaxAttempts + faults'
        BY <1>2, <4>1, <4>2, <4>3
      <4> QED
        BY <4>4 DEF after
    <3> QED
      BY <3>2, <3>3
  <2>2. ASSUME NEW w \in Workers, WorkerNext(w), WorkerOwnStep(w)
        PROVE  attempts'[v] + Cardinality(Rights(v)') + (IF MayCount(v)' THEN 1 ELSE 0)
                   <= MaxAttempts + faults'
    <3>1. HasVariant(v)
      BY <1>5, <2>2
         DEF WorkerOwnStep, Receive, Lookup, CountAttempt, Generated, GiveUp, Backoff,
             Acknowledge, StatementFails, Crash, ConnectionLost, IncrAttempts, MarkFailed,
             SetStatus, storeVars, HasVariant
    <3>2. attempts[v] + Cardinality(Rights(v)) + (IF MayCount(v) THEN 1 ELSE 0)
              <= MaxAttempts + faults
      BY <3>1 DEF Budget
    <3>3. faults' \in {faults, faults + 1}
      BY <2>2
         DEF WorkerOwnStep, Receive, Lookup, CountAttempt, Generated, GiveUp, Backoff,
             Acknowledge, StatementFails, Crash, ConnectionLost, Fault
    <3>4. CASE unacked[w] # v
      <4>1. MayCount(v)' => MayCount(v)
        BY <2>2, <3>1, <3>4, OrphanMoves
      <4>2. CASE attempts'[v] = attempts[v] /\ Rights(v)' \subseteq Rights(v)
        <5>1. Cardinality(Rights(v)') <= Cardinality(Rights(v)) /\ Cardinality(Rights(v)') \in Nat
          BY <1>3, <4>2, FS_Subset, FS_CardinalityType
        <5> QED
          BY <1>2, <1>3, <3>2, <3>3, <4>1, <4>2, <5>1
      <4>3. CASE /\ attempts'[v] = attempts[v] + 1
                 /\ w \in Rights(v) /\ Rights(v)' = Rights(v) \ {w}
        <5>1. Cardinality(Rights(v)') = Cardinality(Rights(v)) - 1
          BY <1>3, <4>3, FS_RemoveElement
        <5> QED
          BY <1>2, <1>3, <3>2, <3>3, <4>1, <4>3, <5>1
      <4> QED
        BY <2>2, <3>1, <3>4, <4>2, <4>3, OrphanMoves
    <3>5. CASE unacked[w] = v
      <4>1. CASE wpc[w] = "gen" /\ tries[w] < MaxAttempts /\ UNCHANGED faults
                 /\ attempts'[v] = attempts[v] /\ Rights(v)' = Rights(v)
        <5>1. attempts[v] + Cardinality(Rights(v)) <= tries[w] + faults
          BY <3>1, <3>5, <4>1, BrokerAssumption DEF Tally, WorkerOK, HoldsOwnJob
        <5>2. tries[w] \in Nat
          BY DEF WorkerTypeOK
        <5> QED
          BY <1>2, <1>3, <4>1, <5>1, <5>2
      <4>2. CASE faults' = faults + 1 /\ attempts'[v] = attempts[v]
                 /\ Rights(v)' = Rights(v) \cup {w} /\ (MayCount(v)' => MayCount(v))
        <5>1. Cardinality(Rights(v)') \in {Cardinality(Rights(v)), Cardinality(Rights(v)) + 1}
          BY <1>3, <4>2, FS_AddElement
        <5> QED
          BY <1>2, <1>3, <3>2, <4>2, <5>1
      <4>3. CASE Rights(v)' = Rights(v)
        <5> DEFINE before == IF MayCount(v) THEN 1 ELSE 0
                   after == IF MayCount(v)' THEN 1 ELSE 0
        <5>1. before \in {0, 1} /\ after \in {0, 1}
          OBVIOUS
        <5>2. \/ attempts'[v] + after <= attempts[v] + before + (faults' - faults)
              \/ /\ wpc[w] = "gen" /\ tries[w] < MaxAttempts /\ UNCHANGED faults
                 /\ attempts'[v] = attempts[v]
          BY <1>2, <2>2, <3>1, <3>3, <3>5, HolderMoves
        <5>3. attempts[v] + Cardinality(Rights(v)) + before <= MaxAttempts + faults
          BY <3>2
        <5> HIDE DEF before, after
        <5>4. CASE attempts'[v] + after <= attempts[v] + before + (faults' - faults)
          <6>1. attempts'[v] + Cardinality(Rights(v)') + after <= MaxAttempts + faults'
            BY <1>2, <1>3, <4>3, <5>1, <5>3, <5>4
          <6> QED
            BY <6>1 DEF after
        <5> QED
          BY <4>1, <4>3, <5>2, <5>4
      <4> QED
        BY <2>2, <3>1, <3>5, <4>2, <4>3, HolderMoves
    <3> QED
      BY <3>4, <3>5
  <2> QED
    BY <2>1, <2>2
<1> QED
  BY <1>4, <1>5 DEF Budget, HasVariant

(* Every step keeps what the worker that counted owes to others.             *)
LEMMA TallyStep ==
    ASSUME BudgetInv, Next, NEW w \in Workers
    PROVE  Tally(w)'
<1> USE DEF BudgetInv, WorkerInv, JobInv, TypeInv, TypeOK, StoreTypeOK, BrokerTypeOK, GenTypeOK,
            WorkerTypeOK, Procs
<1>1. WorkerInv' /\ TypeInv'
  BY WorkerInvStep
<1> SUFFICES ASSUME unacked'[w] # None, wpc'[w] = "gen", HasVariant(job[w])'
             PROVE  attempts'[job'[w]] + Cardinality(Rights(job[w])') <= tries'[w] + faults'
  BY DEF Tally
<1>2. job'[w] \in Variants /\ unacked'[w] = job'[w]
  BY <1>1 DEF JobOK, WorkerOK, HoldsOwnJob
<1> PICK v \in Variants : v = job'[w]
  BY <1>2
<1>0. unacked'[w] = v /\ status'[v] # "absent"
  BY <1>2 DEF HasVariant
<1> SUFFICES attempts'[v] + Cardinality(Rights(v)') <= tries'[w] + faults'
  BY DEF Rights
<1>3. /\ attempts[v] \in Nat /\ attempts'[v] \in Nat /\ faults \in Nat /\ faults' \in Nat
      /\ tries[w] \in Nat /\ tries'[w] \in Nat
  BY <1>1, MaxFaultsAssumption
<1>4. IsFiniteSet(Rights(v)) /\ Cardinality(Rights(v)) \in Nat
  BY RightsPaid
<1>5. ASSUME unacked[w] = v, wpc[w] = "gen", tries'[w] = tries[w], faults' >= faults,
             HasVariant(v),
             \/ attempts'[v] = attempts[v] /\ Rights(v)' \subseteq Rights(v)
             \/ \E u \in Rights(v) : attempts'[v] = attempts[v] + 1 /\ Rights(v)' = Rights(v) \ {u}
      PROVE  attempts'[v] + Cardinality(Rights(v)') <= tries'[w] + faults'
  <2>1. attempts[v] + Cardinality(Rights(v)) <= tries[w] + faults
    BY <1>5, BrokerAssumption DEF Tally, WorkerOK, HoldsOwnJob
  <2>2. CASE attempts'[v] = attempts[v] /\ Rights(v)' \subseteq Rights(v)
    <3>1. Cardinality(Rights(v)') <= Cardinality(Rights(v)) /\ Cardinality(Rights(v)') \in Nat
      BY <1>4, <2>2, FS_Subset, FS_CardinalityType
    <3> QED
      BY <1>3, <1>4, <1>5, <2>1, <2>2, <3>1
  <2>3. ASSUME NEW u \in Rights(v), attempts'[v] = attempts[v] + 1, Rights(v)' = Rights(v) \ {u}
        PROVE  attempts'[v] + Cardinality(Rights(v)') <= tries'[w] + faults'
    <3>1. Cardinality(Rights(v)') = Cardinality(Rights(v)) - 1
      BY <1>4, <2>3, FS_RemoveElement
    <3> QED
      BY <1>3, <1>4, <1>5, <2>1, <2>3, <3>1
  <2> QED
    BY <1>5, <2>2, <2>3
<1>6. CASE ~\E u \in Workers : WorkerNext(u) /\ WorkerOwnStep(u)
  <2>1. /\ job'[w] = job[w] /\ unacked'[w] = unacked[w] /\ wpc'[w] = wpc[w]
        /\ tries'[w] = tries[w]
    <3>1. CASE (GenStep(w) \/ GenFails(w)) /\ UNCHANGED workerVars
      BY <3>1, GenTypes DEF workerVars
    <3> QED
      BY <1>6, <3>1, OthersLeaveWorker DEF WorkerNext, WorkerStep, WorkerFails, WorkerOwnStep
  <2>2. Created(v)
    BY <2>1 DEF WorkerOK, WorksOnCreated
  <2>3. HasVariant(v)'
    BY <1>0 DEF HasVariant
  <2>4. HasVariant(v)
    BY <2>2, <2>3, AttemptsGrow
  <2>5. attempts'[v] = attempts[v] /\ Rights(v)' = Rights(v) /\ faults' >= faults
    BY <1>6, <2>3, <2>4, OthersMove
  <2> QED
    BY <1>0, <1>5, <2>1, <2>4, <2>5
<1>7. ASSUME NEW u \in Workers, WorkerNext(u), WorkerOwnStep(u)
      PROVE  attempts'[v] + Cardinality(Rights(v)') <= tries'[w] + faults'
  <2>1. faults' \in {faults, faults + 1}
    BY <1>7
       DEF WorkerOwnStep, Receive, Lookup, CountAttempt, Generated, GiveUp, Backoff,
           Acknowledge, StatementFails, Crash, ConnectionLost, Fault
  <2>2. HasVariant(v)
    <3> QED
      BY <1>0, <1>7
         DEF WorkerOwnStep, Receive, Lookup, CountAttempt, Generated, GiveUp, Backoff,
             Acknowledge, StatementFails, Crash, ConnectionLost, IncrAttempts, MarkFailed,
             SetStatus, storeVars, HasVariant
  <2>3. CASE u = w
    <3>1. CountAttempt(w)
      BY <1>1, <1>7, <2>3
         DEF WorkerOwnStep, Receive, Lookup, Generated, GiveUp, Backoff, Acknowledge,
             StatementFails, Crash, ConnectionLost, WGoto, Requeue, workerVars
    <3>2. tries'[w] = attempts'[v] /\ UNCHANGED <<job, unacked, faults>>
      BY <3>1 DEF CountAttempt, WGoto, GenStart, GenGoto, brokerVars
    <3>3. \A x \in Workers \ {w} : wpc'[x] = wpc[x]
      BY <3>1 DEF CountAttempt, WGoto
    <3>4. Rights(v)' \subseteq Rights(v)
      BY <3>2, <3>3 DEF Rights
    <3>5. Cardinality(Rights(v)') <= Cardinality(Rights(v)) /\ Cardinality(Rights(v)') \in Nat
      BY <1>4, <3>4, FS_Subset, FS_CardinalityType
    <3>6. Cardinality(Rights(v)) <= faults
      BY RightsPaid
    <3> QED
      BY <1>3, <1>4, <3>2, <3>5, <3>6
  <2>4. CASE u # w
    <3>1. /\ job'[w] = job[w] /\ wpc'[w] = wpc[w]
      BY <1>7, <2>4, WorkerEffect
    <3>2. tries'[w] = tries[w] /\ unacked'[w] = unacked[w]
      BY <1>7, <2>4
         DEF WorkerOwnStep, Receive, Lookup, CountAttempt, Generated, GiveUp, Backoff,
             Acknowledge, StatementFails, Crash, ConnectionLost, Deliver, Ack, Requeue,
             brokerVars, WGoto, workerVars
    <3>3. unacked[u] # v
      BY <1>0, <2>4, <3>2, BrokerAssumption DEF SingleJob
    <3>4. \/ attempts'[v] = attempts[v] /\ Rights(v)' \subseteq Rights(v)
          \/ attempts'[v] = attempts[v] + 1 /\ u \in Rights(v) /\ Rights(v)' = Rights(v) \ {u}
      BY <1>7, <2>2, <3>3, OrphanMoves
    <3> QED
      BY <1>0, <1>3, <1>5, <2>1, <2>2, <3>1, <3>2, <3>4
  <2> QED
    BY <2>3, <2>4
<1> QED
  BY <1>6, <1>7

(* The budget holds in every reachable state.                                *)
THEOREM BudgetInvariant == Spec => []BudgetInv
<1>1. Init => BudgetInv
  <2> SUFFICES ASSUME Init PROVE BudgetInv
    OBVIOUS
  <2>1. JobInv
    BY InitJobInv
  <2>2. WorkerInv
    BY <2>1
       DEF Init, WorkerInit, Procs, WorkerInv, WorkerOK, HoldsOwnJob, WorksOnCreated, AcksSettled
  <2>3. Orphans = {} /\ \A v : Rights(v) = {}
    BY DEF Init, WorkerInit, Orphans, Rights
  <2>4. faults = 0
    BY DEF Init, InitFaults
  <2>5. \A v \in Variants : attempts[v] = 0 /\ ~MayCount(v)
    BY DEF Init, WorkerInit, MayCount
  <2>6. \A v \in Variants : Budget(v)
    BY <2>3, <2>4, <2>5, WorkerAssumption, FS_EmptySet DEF Budget
  <2>7. \A w \in Workers : Tally(w)
    BY DEF Init, WorkerInit, Tally
  <2> QED
    BY <2>2, <2>3, <2>4, <2>6, <2>7, FS_EmptySet DEF BudgetInv
<1>2. BudgetInv /\ [Next]_vars => BudgetInv'
  <2>1. ASSUME BudgetInv, Next PROVE BudgetInv'
    BY <2>1, WorkerInvStep, OrphansPaid, BudgetStep, TallyStep DEF BudgetInv
  <2>2. ASSUME BudgetInv, UNCHANGED vars PROVE BudgetInv'
    <3>1. JobInv'
      BY <2>2, NextJobInv DEF BudgetInv, WorkerInv
    <3> USE <2>2
        DEF vars, storeVars, brokerVars, genVars, workerVars, BudgetInv
    <3>2. WorkerInv'
      BY <3>1 DEF WorkerInv, WorkerOK, HoldsOwnJob, WorksOnCreated, AcksSettled, Created,
                  HasVariant, HasImage
    <3>3. Orphans' = Orphans /\ \A v : Rights(v)' = Rights(v) /\ (MayCount(v)' <=> MayCount(v))
      BY DEF Orphans, Rights, MayCount
    <3>4. \A v \in Variants : Budget(v)'
      BY <3>3 DEF Budget, HasVariant
    <3>5. \A w \in Workers : Tally(w)'
      BY DEF Tally, Rights, HasVariant
    <3> QED
      BY <3>2, <3>3, <3>4, <3>5
  <2> QED
    BY <2>1, <2>2
<1> QED
  BY <1>1, <1>2, PTL DEF Spec

(* No variant is tried more than MaxAttempts times but for faults, one each, *)
(* however many workers count it at the same time, whoever lost its message  *)
(* and went on, and however often a count was made whose reply was lost.     *)
THEOREM AttemptsWithinBudgetHolds == Spec => []AttemptsWithinBudget
<1>1. BudgetInv => AttemptsWithinBudget
  <2> SUFFICES ASSUME BudgetInv, NEW v \in Variants PROVE attempts[v] <= MaxAttempts + faults
    BY DEF AttemptsWithinBudget
  <2>1. /\ attempts[v] \in Nat /\ faults \in Nat /\ MaxAttempts \in Nat
        /\ Cardinality(Rights(v)) \in Nat
    BY RightsPaid, MaxFaultsAssumption, WorkerAssumption
       DEF BudgetInv, WorkerInv, JobInv, TypeInv, TypeOK, StoreTypeOK
  <2>2. Budget(v)
    BY DEF BudgetInv
  <2>3. CASE HasVariant(v)
    <3> DEFINE one == IF MayCount(v) THEN 1 ELSE 0
    <3>1. attempts[v] + Cardinality(Rights(v)) + one <= MaxAttempts + faults
      BY <2>2, <2>3 DEF Budget
    <3>2. one \in {0, 1}
      OBVIOUS
    <3> HIDE DEF one
    <3> QED
      BY <2>1, <3>1, <3>2
  <2>4. CASE ~HasVariant(v)
    BY <2>1, <2>2, <2>4 DEF Budget
  <2> QED
    BY <2>3, <2>4
<1> QED
  BY <1>1, BudgetInvariant, PTL
=============================================================================
