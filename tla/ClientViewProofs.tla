-------------------------- MODULE ClientViewProofs --------------------------
(***************************************************************************)
(* ImageOptimizer implements VariantCache: every step of a request, a      *)
(* worker or a DELETE is, seen by clients, a step of the cache or none; and*)
(* what clients may conclude from the cache alone.                         *)
(***************************************************************************)
EXTENDS ClientView, DeleteProofs, StatusProofs

(* The state of the cache that a state of the system stands for. *)
CImage == [i \in Images |-> ImageState(i)]
CPhase == [r \in Requests |-> Phase(r)]
CWanted == [r \in Requests |-> job[r]]

(* The system starts where the cache starts. *)
THEOREM InitCache == Init => Cache!Init
<1> SUFFICES ASSUME Init PROVE Cache!Init
  OBVIOUS
<1>1. \A i \in Images : ~Doomed(i)
  BY DEF Init, DeleteInit, Doomed
<1>2. CImage = [i \in Images |-> IF i \in Uploaded THEN "stored" ELSE "gone"]
  BY <1>1 DEF CImage, ImageState, HasImage, Init
<1>3. CPhase = [r \in Requests |-> "idle"] /\ CWanted = [r \in Requests |-> None]
  BY DEF CPhase, CWanted, Phase, Init, ResolveInit, Procs
<1>4. Confirmed = {}
  BY DEF Confirmed, Init, DeleteInit
<1> QED
  BY <1>2, <1>3, <1>4 DEF Cache!Init, CImage, CPhase, CWanted, Init, ResolveInit
-----------------------------------------------------------------------------
(* Nothing is generated that nobody asked for: the job of a worker, and the  *)
(* message it came from, name a variant of some request.                     *)
AskedFor(v) == \E r \in Requests : job[r] = v

WantedInv == /\ TypeInv
             /\ \A r \in Requests : rpc[r] = "start" => job[r] = None
             /\ \A v \in Variants : queue[v] > 0 => AskedFor(v)
             /\ \A w \in Workers : /\ unacked[w] # None => AskedFor(unacked[w])
                                   /\ wpc[w] # "idle" => AskedFor(job[w])

(* A step of a request outside TransformAndPersist either begins it or keeps *)
(* its variant, and publishes nothing but that.                              *)
LEMMA RequestJobs ==
    ASSUME TypeInv, NEW r \in Requests, RequestNext(r), OwnStep(r)
    PROVE  /\ rpc'[r] # "start"
           /\ rpc[r] = "start" \/ UNCHANGED job
           /\ UNCHANGED queue \/ (rpc[r] = "publish" /\ queue' = [queue EXCEPT ![job[r]] = @ + 1])
<1> USE DEF OwnStep, TypeInv, TypeOK, ResolveTypeOK
<1>1. rpc'[r] # "start"
  BY DEF Begin, GetImage, GetVariantByHash, UpsertPending, ConflictFetch,
         PublishBestEffort, SyncGenerate, Reload, Poll, PollExpired, LastPoll,
         ServeVariant, CallFails, RequestLost, Goto, Branch, Answer, AnswerTerminal, AnswerReady
<1>2. rpc[r] = "start" \/ UNCHANGED job
  BY DEF Begin, GetImage, GetVariantByHash, UpsertPending, ConflictFetch,
         PublishBestEffort, SyncGenerate, Reload, Poll, PollExpired, LastPoll,
         ServeVariant, CallFails, RequestLost, ReadsOnly, genVars, GenStart, GenStop, GenGoto
<1>3. UNCHANGED queue \/ (rpc[r] = "publish" /\ queue' = [queue EXCEPT ![job[r]] = @ + 1])
  BY DEF Begin, GetImage, GetVariantByHash, UpsertPending, ConflictFetch,
         PublishBestEffort, SyncGenerate, Reload, Poll, PollExpired, LastPoll,
         ServeVariant, CallFails, RequestLost, ReadsOnly, brokerVars, Publish
<1> QED
  BY <1>1, <1>2, <1>3

(* A step of a worker takes its variant from the queue or keeps it, and puts *)
(* back nothing but what it held.                                            *)
LEMMA WorkerJobs ==
    ASSUME TypeInv, NEW w \in Workers, WorkerNext(w), WorkerOwnStep(w)
    PROVE  \/ \E v \in Variants : queue[v] > 0 /\ Receive(w, v)
           \/ /\ UNCHANGED job
              /\ wpc[w] = "idle" => wpc'[w] = "idle"
              /\ UNCHANGED brokerVars \/ Ack(w) \/ Requeue(w)
<1> USE DEF WorkerOwnStep, TypeInv, TypeOK, WorkerTypeOK
<1>1. \/ \E v \in Variants : Receive(w, v)
      \/ UNCHANGED job /\ (wpc[w] # "idle" \/ wpc'[w] = "idle")
  BY DEF Lookup, CountAttempt, Generated, GiveUp, Backoff, Acknowledge, StatementFails,
         Crash, ConnectionLost, genVars, GenStart, GenStop, GenGoto, workerVars
<1>2. \/ \E v \in Variants : Receive(w, v)
      \/ UNCHANGED brokerVars \/ Ack(w) \/ Requeue(w)
  BY DEF Lookup, CountAttempt, Generated, GiveUp, Backoff, Acknowledge, StatementFails,
         Crash, ConnectionLost
<1>3. ASSUME NEW v \in Variants, Receive(w, v) PROVE queue[v] > 0
  BY <1>3 DEF Receive, Deliver
<1> QED
  BY <1>1, <1>2, <1>3

(* Every step keeps WantedInv.                                               *)
LEMMA WantedInvStep ==
    ASSUME WantedInv, Next
    PROVE  WantedInv'
<1> USE DEF WantedInv
<1>1. TypeInv'
  BY NextTypeInv
<1> USE DEF TypeInv, TypeOK
<1>2. ASSUME NEW p \in Procs, GenStep(p) \/ GenFails(p), UNCHANGED <<rpc, wpc>>
      PROVE  WantedInv'
  <2>1. UNCHANGED <<queue, unacked, job>>
    BY <1>2, GenTypes
  <2> QED
    BY <1>1, <1>2, <2>1 DEF AskedFor
<1>3. ASSUME NEW r \in Requests, RequestNext(r), OwnStep(r) PROVE WantedInv'
  <2>1. /\ rpc' = [rpc EXCEPT ![r] = rpc'[r]] /\ job' = [job EXCEPT ![r] = job'[r]]
        /\ UNCHANGED <<unacked, wpc>>
    BY <1>3, RequestFrame, RequestEffect DEF workerVars
  <2>2. \A v \in Variants : AskedFor(v) => AskedFor(v)'
    <3>1. rpc[r] = "start" => job[r] \notin Variants
      BY BrokerAssumption
    <3> QED
      BY <1>3, <2>1, <3>1, RequestJobs DEF AskedFor, GenTypeOK, Procs
  <2>3. ASSUME NEW q \in Requests, rpc'[q] = "start" PROVE job'[q] = None
    BY <1>3, <2>1, <2>3, RequestJobs DEF ResolveTypeOK, GenTypeOK, Procs
  <2>4. ASSUME NEW v \in Variants, queue'[v] > 0 PROVE AskedFor(v)'
    <3>1. rpc[r] = "publish" => job[r] \in Variants
      BY DEF JobOK
    <3>2. queue[v] > 0 \/ (v = job[r])
      BY <1>3, <2>4, <3>1, RequestJobs DEF BrokerTypeOK
    <3> QED
      BY <2>2, <3>2, <1>3, RequestJobs, BrokerAssumption DEF AskedFor
  <2>5. ASSUME NEW w \in Workers
        PROVE  /\ unacked'[w] # None => AskedFor(unacked[w])'
               /\ wpc'[w] # "idle" => AskedFor(job[w])'
    <3>1. job'[w] = job[w]
      BY <2>1, ResolveAssumption DEF GenTypeOK, Procs
    <3> QED
      BY <2>1, <2>2, <3>1 DEF AskedFor, JobOK, BrokerTypeOK
  <2> QED
    BY <1>1, <2>3, <2>4, <2>5
<1>4. ASSUME NEW w \in Workers, WorkerNext(w), WorkerOwnStep(w) PROVE WantedInv'
  <2>1. /\ UNCHANGED rpc
        /\ wpc' = [wpc EXCEPT ![w] = wpc'[w]] /\ job' = [job EXCEPT ![w] = job'[w]]
    BY <1>4, WorkerEffect DEF WorkerNext, requestVars
  <2>2. \A r \in Requests : job'[r] = job[r]
    BY <2>1, ResolveAssumption DEF GenTypeOK, Procs
  <2>3. \A v : AskedFor(v)' <=> AskedFor(v)
    BY <2>2 DEF AskedFor
  <2>4. CASE \E v \in Variants : queue[v] > 0 /\ Receive(w, v)
    <3> PICK v \in Variants : queue[v] > 0 /\ Receive(w, v)
      BY <2>4
    <3>1. AskedFor(v) /\ job'[w] = v
      BY DEF Receive, GenTypeOK, Procs
    <3>2. \A u \in Variants : queue'[u] > 0 => queue[u] > 0
      BY DEF Receive, Deliver, BrokerTypeOK
    <3>3. unacked' = [unacked EXCEPT ![w] = v]
      BY DEF Receive, Deliver
    <3> QED
      BY <1>1, <2>1, <2>2, <2>3, <3>1, <3>2, <3>3 DEF WorkerTypeOK, BrokerTypeOK, GenTypeOK, Procs
  <2>5. CASE /\ UNCHANGED job
             /\ wpc[w] = "idle" => wpc'[w] = "idle"
             /\ UNCHANGED brokerVars \/ Ack(w) \/ Requeue(w)
    <3>1. \A u \in Variants : queue'[u] > 0 => queue[u] > 0 \/ u = unacked[w]
      BY <2>5 DEF brokerVars, Ack, Requeue, BrokerTypeOK
    <3>2. \A x \in Workers : unacked'[x] = unacked[x] \/ unacked'[x] = None
      BY <2>5 DEF brokerVars, Ack, Requeue, BrokerTypeOK
    <3>3. \A x \in Workers : wpc'[x] # "idle" => wpc[x] # "idle"
      BY <2>1, <2>5 DEF WorkerTypeOK
    <3> QED
      BY <1>1, <2>1, <2>2, <2>3, <2>5, <3>1, <3>2, <3>3, BrokerAssumption
  <2> QED
    BY <1>4, <2>4, <2>5, WorkerJobs
<1>5. ASSUME NEW d \in Deleters, DeleteNext(d) PROVE WantedInv'
  BY <1>1, <1>5 DEF DeleteNext, brokerVars, genVars, requestVars, workerVars, AskedFor
<1> QED
  BY <1>2, <1>3, <1>4, <1>5
     DEF Next, Procs, RequestNext, RequestStep, RequestFails, OwnStep, requestVars,
         WorkerNext, WorkerStep, WorkerFails, WorkerOwnStep, workerVars

(* Whatever a worker is at was asked for, in every reachable state.          *)
THEOREM WantedInvariant == Spec => []WantedInv
<1>1. Init => WantedInv
  <2> SUFFICES ASSUME Init PROVE WantedInv
    OBVIOUS
  <2>1. TypeInv
    BY InitTypeInv
  <2> QED
    BY <2>1 DEF Init, WantedInv, WorkerInit, ResolveInit, Procs
<1>2. WantedInv /\ [Next]_vars => WantedInv'
  <2> SUFFICES ASSUME WantedInv, UNCHANGED vars PROVE WantedInv'
    BY WantedInvStep
  <2>1. TypeInv'
    BY NextTypeInv DEF WantedInv
  <2> QED
    BY <2>1 DEF vars, brokerVars, genVars, requestVars, workerVars, WantedInv, AskedFor
<1> QED
  BY <1>1, <1>2, PTL DEF Spec
-----------------------------------------------------------------------------
(* What the step proof needs of the reachable states.                        *)
ViewInv == ObjectsInv /\ PollInv /\ WantedInv

(* How a step that moves one request looks from the cache.                   *)
LEMMA ViewOfRequest ==
    ASSUME TypeInv, NEW r \in Requests, UNCHANGED <<imageRows, deleteVars, avifs>>,
           rpc' = [rpc EXCEPT ![r] = rpc'[r]], job' = [job EXCEPT ![r] = job'[r]]
    PROVE  /\ UNCHANGED <<CImage, Confirmed>>
           /\ CPhase' = [CPhase EXCEPT ![r] = Phase(r)']
           /\ CWanted' = [CWanted EXCEPT ![r] = job'[r]]
<1> USE DEF TypeInv, TypeOK, ResolveTypeOK, GenTypeOK, Procs
<1>1. UNCHANGED <<CImage, Confirmed>>
  BY DEF CImage, ImageState, HasImage, Doomed, Confirmed, deleteVars
<1>2. CPhase' = [CPhase EXCEPT ![r] = Phase(r)']
  <2>1. \A q \in Requests : q # r => Phase(q)' = Phase(q)
    BY DEF Phase
  <2> QED
    BY <2>1 DEF CPhase
<1>3. CWanted' = [CWanted EXCEPT ![r] = job'[r]]
  BY DEF CWanted
<1> QED
  BY <1>1, <1>2, <1>3

(* The answers that a step of a request may give, and what it saw then.      *)
TrueAnswer(r, code) ==
    \/ /\ code = 200 /\ rpc[r] # "getImage"
       /\ job[r] \in avifs \/ (r \in HeadRequests /\ status[job[r]] = "ready")
    \/ code = 404 /\ ~HasImage(ImageOf[job[r]])
    \/ code = 422 /\ rpc[r] # "getImage" /\ status[job[r]] = "failed"
    \/ code \in {500, 503}

(* What a step of a request outside TransformAndPersist does that a client   *)
(* could see: it begins, is refused, is admitted, works on, creates the row, *)
(* answers, or is lost.                                                      *)
Begins(r) == /\ rpc[r] = "start" /\ rpc'[r] = "getImage"
             /\ job'[r] \in Variants
             /\ UNCHANGED <<rcode, status>>

Refused(r) == /\ rpc[r] = "start" /\ rpc'[r] = "done"
              /\ rcode' = [rcode EXCEPT ![r] = 400]
              /\ UNCHANGED <<job, status>>

Admitted(r) == /\ rpc[r] = "getImage" /\ rpc'[r] = "getVariant"
               /\ HasImage(ImageOf[job[r]])
               /\ UNCHANGED <<rcode, job, status>>

WorksOn(r) == /\ rpc[r] \notin {"start", "getImage", "done"}
              /\ rpc'[r] \notin {"start", "getImage", "done"}
              /\ UNCHANGED <<rcode, job, status>>

Creates(r) == /\ rpc[r] = "upsert" /\ InsertPending(job[r])
              /\ \/ rpc'[r] = "publish" /\ UNCHANGED rcode
                 \/ rpc'[r] = "done" /\ rcode' = [rcode EXCEPT ![r] = 500]
              /\ UNCHANGED job

Answers(r) == /\ rpc[r] \notin {"start", "done"} /\ rpc'[r] = "done"
              /\ \E code \in {200, 404, 422, 500, 503} :
                    TrueAnswer(r, code) /\ rcode' = [rcode EXCEPT ![r] = code]
              /\ UNCHANGED <<job, status>>

Lost(r) == /\ rpc[r] \notin {"start", "done"} /\ rpc'[r] = "done"
           /\ UNCHANGED <<rcode, job, status>>

LEMMA ReadyMoves ==
    ASSUME TypeInv, NEW r \in Requests, rpc[r] \notin {"start", "getImage", "done"},
           status[job[r]] = "ready", AnswerReady(r), UNCHANGED <<job, status>>
    PROVE  WorksOn(r) \/ Answers(r)
<1> USE DEF TypeInv, TypeOK, ResolveTypeOK, AnswerReady
<1>1. CASE r \in HeadRequests
  BY <1>1 DEF Answers, TrueAnswer
<1>2. CASE r \notin HeadRequests
  <2>1. rcode' = rcode
    BY <1>2
  <2> QED
    BY <1>2, <2>1 DEF WorksOn
<1> QED
  BY <1>1, <1>2

LEMMA TerminalMoves ==
    ASSUME TypeInv, NEW r \in Requests, rpc[r] \notin {"start", "getImage", "done"},
           AnswerTerminal(r), UNCHANGED <<job, status>>
    PROVE  WorksOn(r) \/ Answers(r)
<1>1. CASE status[job[r]] = "ready" /\ AnswerReady(r)
  BY <1>1, ReadyMoves
<1>2. CASE status[job[r]] = "failed" /\ Answer(r, 422)
  BY <1>2 DEF Answer, Answers, TrueAnswer, TypeInv, TypeOK, ResolveTypeOK
<1> QED
  BY <1>1, <1>2 DEF AnswerTerminal

LEMMA RequestMoves ==
    ASSUME ViewInv, NEW r \in Requests, RequestNext(r), OwnStep(r)
    PROVE  \/ Begins(r) \/ Refused(r) \/ Admitted(r) \/ WorksOn(r)
           \/ Creates(r) \/ Answers(r) \/ Lost(r)
<1> DEFINE Moves == \/ Begins(r) \/ Refused(r) \/ Admitted(r) \/ WorksOn(r)
                    \/ Creates(r) \/ Answers(r) \/ Lost(r)
<1>1. TypeInv
  BY DEF ViewInv, PollInv
<1> USE <1>1 DEF TypeInv, TypeOK, ResolveTypeOK, Goto, Branch, Answer, ReadsOnly,
                 storeVars, genVars, GenStart, GenStop, GenGoto, TrueAnswer
<1>2. CASE Begin(r)
  <2>1. CASE Answer(r, 400) /\ UNCHANGED job
    BY <1>2, <2>1 DEF Begin, Refused
  <2>2. CASE (\E v \in Variants : job' = [job EXCEPT ![r] = v]) /\ Goto(r, "getImage")
    BY <1>2, <2>2 DEF Begin, Begins, GenTypeOK, Procs
  <2> QED
    BY <1>2, <2>1, <2>2 DEF Begin
<1>3. CASE GetImage(r)
  BY <1>3 DEF GetImage, Admitted, Answers
<1>4. CASE GetVariantByHash(r)
  BY <1>4, TerminalMoves DEF GetVariantByHash, WorksOn
<1>5. CASE UpsertPending(r)
  BY <1>5 DEF UpsertPending, Creates, WorksOn, Answers
<1>6. CASE ConflictFetch(r)
  BY <1>6, TerminalMoves DEF ConflictFetch, WorksOn, Answers
<1>7. CASE PublishBestEffort(r)
  BY <1>7 DEF PublishBestEffort, WorksOn
<1>8. CASE SyncGenerate(r)
  BY <1>8 DEF SyncGenerate, WorksOn, Answers
<1>9. CASE Reload(r)
  BY <1>9, ReadyMoves DEF Reload, WorksOn, Answers
<1>10. CASE Poll(r)
  <2>1. ~HasVariant(job[r]) => ~HasImage(ImageOf[job[r]])
    BY <1>10 DEF Poll, ViewInv, PollInv, PollsCreated, Created
  <2> QED
    BY <1>10, <2>1, TerminalMoves DEF Poll, WorksOn, Answers
<1>11. CASE PollExpired(r)
  BY <1>11 DEF PollExpired, WorksOn
<1>12. CASE LastPoll(r)
  BY <1>12, TerminalMoves DEF LastPoll, WorksOn, Answers
<1>13. CASE ServeVariant(r)
  <2>1. CASE job[r] \in avifs
    BY <1>13, <2>1 DEF ServeVariant, Answers
  <2>2. CASE job[r] \notin avifs
    BY <1>13, <2>2 DEF ServeVariant, Answers
  <2> QED
    BY <2>1, <2>2
<1>14. CASE CallFails(r)
  BY <1>14 DEF CallFails, Creates, Answers
<1>15. CASE RequestLost(r)
  BY <1>15 DEF RequestLost, Lost
<1> QED
  BY <1>2, <1>3, <1>4, <1>5, <1>6, <1>7, <1>8, <1>9, <1>10, <1>11, <1>12, <1>13, <1>14, <1>15
     DEF OwnStep

(* Each of these moves is a step of the cache.                               *)
LEMMA RequestImplements ==
    ASSUME ViewInv, NEW r \in Requests, RequestNext(r), OwnStep(r)
    PROVE  [Cache!Next]_(Cache!cacheVars)
<1>1. TypeInv /\ ObjectsInv /\ ForeignKey
  BY DEF ViewInv, PollInv
<1> USE DEF TypeInv, TypeOK, ResolveTypeOK, StoreTypeOK, GenTypeOK, Procs
<1>2. /\ UNCHANGED <<imageRows, deleteVars, originals, avifs>>
      /\ rpc' = [rpc EXCEPT ![r] = rpc'[r]] /\ job' = [job EXCEPT ![r] = job'[r]]
  <2>1. UNCHANGED <<blobVars, deleteVars>>
    BY <1>1, RequestFrame
  <2>2. UNCHANGED imageRows
    BY DEF OwnStep, Begin, GetImage, GetVariantByHash, UpsertPending, ConflictFetch,
           PublishBestEffort, SyncGenerate, Reload, Poll, PollExpired, LastPoll,
           ServeVariant, CallFails, RequestLost, ReadsOnly, InsertPending, storeVars
  <2> QED
    BY <1>1, <2>1, <2>2, RequestFrame, RequestEffect DEF blobVars
<1>3. /\ UNCHANGED <<CImage, Confirmed, avifs>>
      /\ CPhase' = [CPhase EXCEPT ![r] = Phase(r)']
      /\ CWanted' = [CWanted EXCEPT ![r] = job'[r]]
  BY <1>1, <1>2, ViewOfRequest
<1>4. /\ CPhase[r] = Phase(r) /\ CWanted[r] = job[r]
      /\ \A i \in Images : CImage[i] = ImageState(i)
  BY DEF CPhase, CWanted, CImage
<1>5. UNCHANGED job => UNCHANGED CWanted
  BY DEF CWanted
<1>6. rpc[r] # "start" => ImageOf[job[r]] \in Images /\ job[r] \in Variants
  BY <1>1, StoreAssumption, RequestFrame DEF JobOK
<1>7. CASE Begins(r)
  <2>1. Phase(r) = "idle" /\ Phase(r)' = "asked"
    BY <1>7 DEF Begins, Phase
  <2>2. PICK v \in Variants : v = job'[r]
    BY <1>7 DEF Begins
  <2>3. Cache!Ask(r, v)
    BY <1>3, <1>4, <1>7, <2>1, <2>2 DEF Begins, Cache!Ask, CImage, CPhase, CWanted
  <2> QED
    BY <2>3 DEF Cache!Next
<1>8. CASE Refused(r)
  <2>1. Phase(r) = "idle" /\ Phase(r)' = "closed"
    BY <1>8 DEF Refused, Phase
  <2>2. Cache!Reject(r)
    BY <1>3, <1>4, <1>5, <1>8, <2>1 DEF Refused, Cache!Reject, CImage, CPhase, CWanted
  <2> QED
    BY <2>2 DEF Cache!Next
<1>9. CASE Admitted(r)
  <2>1. Phase(r) = "asked" /\ Phase(r)' = "open"
    BY <1>9 DEF Admitted, Phase
  <2>2. ImageState(ImageOf[job[r]]) # "gone"
    BY <1>9 DEF Admitted, ImageState
  <2>3. Cache!Admit(r)
    BY <1>3, <1>4, <1>5, <1>6, <1>9, <2>1, <2>2
       DEF Admitted, Cache!Admit, CImage, CPhase, CWanted
  <2> QED
    BY <2>3 DEF Cache!Next
<1>10. CASE WorksOn(r)
  <2>1. Phase(r) = "open" /\ Phase(r)' = "open"
    BY <1>10 DEF WorksOn, Phase
  <2>2. UNCHANGED CPhase
    BY <1>3, <1>4, <2>1 DEF CPhase
  <2> QED
    BY <1>3, <1>5, <1>10, <2>2
       DEF WorksOn, Cache!cacheVars, Cache!requests, CImage, CPhase, CWanted
<1>11. rpc[r] \notin {"start", "done"} /\ rpc'[r] = "done" =>
          /\ Phase(r) \in {"asked", "open"} /\ Phase(r)' = "closed"
          /\ Phase(r) = "open" <=> rpc[r] # "getImage"
  BY DEF Phase
<1>12. CASE Lost(r)
  <2>1. Cache!Abandon(r)
    BY <1>3, <1>4, <1>5, <1>11, <1>12 DEF Lost, Cache!Abandon, CImage, CPhase, CWanted
  <2> QED
    BY <2>1 DEF Cache!Next
<1>13. ASSUME NEW code \in {200, 404, 422, 500, 503}, TrueAnswer(r, code),
              rpc[r] \notin {"start", "done"}
       PROVE  Cache!MayAnswer(r, code)
  <2>1. HasVariant(job[r]) => ImageState(ImageOf[job[r]]) # "gone"
    BY <1>1, <1>6, <1>13 DEF ForeignKey, ImageState, HasImage
  <2>2. status[job[r]] = "ready" => job[r] \in avifs \/ ImageState(ImageOf[job[r]]) = "deleting"
    BY <1>1, <1>6, <1>13, <2>1 DEF ObjectsInv, Written, Intact, ImageState, HasVariant
  <2>3. rpc[r] # "getImage" => CPhase[r] = "open"
    BY <1>4, <1>13 DEF Phase
  <2>4. code = 404 => ImageState(ImageOf[job[r]]) = "gone"
    BY <1>13 DEF TrueAnswer, ImageState
  <2> QED
    BY <1>4, <1>6, <1>13, <2>2, <2>3, <2>4
       DEF TrueAnswer, Cache!MayAnswer, CImage, CPhase, CWanted
<1>14. ASSUME NEW code, Cache!MayAnswer(r, code), rcode' = [rcode EXCEPT ![r] = code],
              rpc[r] \notin {"start", "done"}, rpc'[r] = "done", UNCHANGED job
       PROVE  Cache!Close(r, code)
  BY <1>3, <1>4, <1>5, <1>11, <1>14 DEF Cache!Close, CPhase, CWanted
<1>15. CASE Answers(r)
  <2>1. PICK code \in {200, 404, 422, 500, 503} :
          TrueAnswer(r, code) /\ rcode' = [rcode EXCEPT ![r] = code]
    BY <1>15 DEF Answers
  <2>2. Cache!Close(r, code)
    <3>1. rpc[r] \notin {"start", "done"} /\ rpc'[r] = "done" /\ UNCHANGED job
      BY <1>15 DEF Answers
    <3>2. Cache!MayAnswer(r, code)
      BY <1>13, <2>1, <3>1
    <3> QED
      BY <1>14, <2>1, <3>1, <3>2
  <2>3. Cache!Reply(r)
    BY <1>3, <1>15, <2>2 DEF Answers, Cache!Reply, CImage
  <2> QED
    BY <2>3 DEF Cache!Next
<1>16. CASE Creates(r)
  <2>1. Phase(r) = "open" /\ ImageState(ImageOf[job[r]]) # "gone"
    BY <1>16 DEF Creates, Phase, InsertPending, ImageState
  <2>2. UNCHANGED <<CPhase, CWanted, rcode>> \/ Cache!Close(r, 500)
    <3>1. CASE rpc'[r] = "publish" /\ UNCHANGED rcode
      <4>1. Phase(r)' = "open"
        BY <3>1 DEF Phase
      <4> QED
        BY <1>3, <1>4, <1>5, <1>16, <2>1, <3>1, <4>1 DEF Creates, CPhase
    <3>2. CASE rpc'[r] = "done" /\ rcode' = [rcode EXCEPT ![r] = 500]
      <4>1. Cache!MayAnswer(r, 500)
        BY DEF Cache!MayAnswer
      <4> QED
        BY <1>14, <1>16, <3>2, <4>1 DEF Creates
    <3> QED
      BY <1>16, <3>1, <3>2 DEF Creates
  <2>3. status' = [status EXCEPT ![job[r]] = "pending"] /\ status[job[r]] = "absent"
    BY <1>16 DEF Creates, InsertPending, HasVariant
  <2>4. Cache!Create(r)
    BY <1>3, <1>4, <1>6, <1>16, <2>1, <2>2, <2>3
       DEF Creates, Cache!Create, Cache!requests, CImage, CPhase, CWanted
  <2> QED
    BY <2>4 DEF Cache!Next
<1> QED
  BY <1>7, <1>8, <1>9, <1>10, <1>12, <1>15, <1>16, RequestMoves
-----------------------------------------------------------------------------
(* A step that moves no request and no DELETE and removes no image.          *)
LEMMA ViewOfOthers ==
    ASSUME UNCHANGED <<imageRows, deleteVars, rpc>>,
           \A r \in Requests : job'[r] = job[r]
    PROVE  UNCHANGED <<CImage, CPhase, CWanted, Confirmed>>
<1>1. UNCHANGED <<CImage, Confirmed>>
  BY DEF CImage, ImageState, HasImage, Doomed, Confirmed, deleteVars
<1>2. UNCHANGED CPhase
  BY DEF CPhase, Phase
<1> QED
  BY <1>1, <1>2 DEF CWanted

(* TransformAndPersist writes and marks only what some request asked for.    *)
LEMMA GenImplements ==
    ASSUME ViewInv, NEW p \in Procs, GenStep(p) \/ GenFails(p),
           UNCHANGED <<rpc, rcode, deleteVars>>
    PROVE  [Cache!Next]_(Cache!cacheVars)
<1>1. TypeInv /\ ObjectsInv /\ WantedInv
  BY DEF ViewInv, PollInv
<1> USE DEF TypeInv, TypeOK, StoreTypeOK
<1>2. job[p] \in Variants /\ gen[p] # "off" /\ UNCHANGED <<imageRows, job>>
  BY <1>1, GenTypes
<1>3. UNCHANGED <<CImage, CPhase, CWanted, Confirmed>>
  BY <1>2, ViewOfOthers
<1>4. PICK r \in Requests : job[r] = job[p]
  <2>1. CASE p \in Requests
    BY <2>1
  <2>2. CASE p \in Workers
    BY <1>1, <1>2, <2>2 DEF JobOK, WantedInv, AskedFor
  <2> QED
    BY <2>1, <2>2 DEF Procs
<1>5. Cache!Wanted(job[p])
  BY <1>4 DEF Cache!Wanted
<1>6. \/ UNCHANGED <<avifs, status>>
      \/ avifs' = avifs \cup {job[p]} /\ UNCHANGED status
      \/ gen[p] = "mark" /\ MarkReady(job[p]) /\ UNCHANGED avifs
  BY DEF GenStep, GenFails, GenImage, GenFetch, GenWrite, GenMark, WriteVariant,
         storeVars, blobVars
<1>7. PICK v \in Variants : v = job[p]
  BY <1>2
<1>8. CASE UNCHANGED <<avifs, status>>
  BY <1>3, <1>8 DEF Cache!cacheVars, Cache!requests, CImage, CPhase, CWanted
<1>9. CASE avifs' = avifs \cup {job[p]} /\ UNCHANGED status
  <2>1. Cache!Produce(v)
    BY <1>3, <1>5, <1>7, <1>9 DEF Cache!Produce, Cache!requests, CImage, CPhase, CWanted
  <2> QED
    BY <2>1 DEF Cache!Next
<1>10. CASE gen[p] = "mark" /\ MarkReady(job[p]) /\ UNCHANGED avifs
  <2>1. v \in avifs \/ CImage[ImageOf[v]] # "stored"
    <3>1. v \in avifs \/ Doomed(ImageOf[v])
      BY <1>1, <1>7, <1>10 DEF ObjectsInv, Written, Intact
    <3> QED
      BY <3>1, StoreAssumption DEF CImage, ImageState
  <2>2. Cache!MarkReady(v)
    BY <1>3, <1>5, <1>7, <1>10, <2>1
       DEF Cache!MarkReady, Cache!requests, CImage, CPhase, CWanted,
           MarkReady, SetStatus, HasVariant
  <2> QED
    BY <2>2 DEF Cache!Next
<1> QED
  BY <1>6, <1>8, <1>9, <1>10

(* Of a worker's own steps clients can see one: the row that is given up.    *)
LEMMA WorkerImplements ==
    ASSUME ViewInv, NEW w \in Workers, WorkerNext(w), WorkerOwnStep(w)
    PROVE  [Cache!Next]_(Cache!cacheVars)
<1>1. TypeInv /\ WantedInv
  BY DEF ViewInv, PollInv
<1> USE DEF TypeInv, TypeOK
<1>2. /\ UNCHANGED <<avifs, imageRows, deleteVars, rpc, rcode>>
      /\ job' = [job EXCEPT ![w] = job'[w]]
  BY <1>1, WorkerEffect DEF WorkerNext, requestVars, blobVars
<1>3. UNCHANGED <<CImage, CPhase, CWanted, Confirmed>>
  BY <1>1, <1>2, ViewOfOthers, ResolveAssumption DEF GenTypeOK, Procs
<1>4. UNCHANGED status \/ (wpc[w] = "giveUp" /\ MarkFailed(job[w]))
  BY DEF WorkerOwnStep, Receive, Lookup, CountAttempt, Generated, GiveUp, Backoff,
         Acknowledge, StatementFails, Crash, ConnectionLost, IncrAttempts, storeVars
<1>5. CASE UNCHANGED status
  BY <1>2, <1>3, <1>5 DEF Cache!cacheVars, Cache!requests, CImage, CPhase, CWanted
<1>6. CASE wpc[w] = "giveUp" /\ MarkFailed(job[w])
  <2>1. PICK v \in Variants : v = job[w]
    BY <1>1, <1>6 DEF JobOK
  <2>2. PICK r \in Requests : job[r] = v
    BY <1>1, <1>6, <2>1 DEF WantedInv, AskedFor
  <2>3. Cache!Wanted(v)
    BY <2>2 DEF Cache!Wanted
  <2>4. Cache!MarkFailed(v)
    BY <1>2, <1>3, <1>6, <2>1, <2>3
       DEF Cache!MarkFailed, Cache!requests, CImage, CPhase, CWanted,
           MarkFailed, SetStatus, HasVariant
  <2> QED
    BY <2>4 DEF Cache!Next
<1> QED
  BY <1>4, <1>5, <1>6
-----------------------------------------------------------------------------
Begun(d) == dpc[d] \in {"original", "list", "objects", "row", "done"}

(* What a step of a DELETE does that clients could see: nothing before its   *)
(* image check, the check that begins the deletion, objects of its page that *)
(* go, the row that goes, or the row that is found gone.                     *)
Prepares(d) == /\ ~Begun(d) /\ dpc'[d] \in {"getImage", "refused"} /\ dcode'[d] # 204
               /\ UNCHANGED <<storeVars, avifs>>

Dooms(d) == /\ ~Begun(d) /\ dpc'[d] = "original" /\ dcode'[d] # 204
            /\ HasImage(dimg[d])
            /\ UNCHANGED <<storeVars, avifs>>

Clears(d) == /\ Begun(d) /\ Begun(d)' /\ dcode'[d] # 204
             /\ \E S \in SUBSET page[d] : avifs' = avifs \ S
             /\ UNCHANGED storeVars

Removes(d) == /\ dpc[d] = "row" /\ dpc'[d] = "done"
              /\ DeleteImage(dimg[d])
              /\ UNCHANGED avifs

FindsGone(d) == /\ dpc[d] = "row" /\ dpc'[d] = "done" /\ dcode'[d] = 204
                /\ ~HasImage(dimg[d])
                /\ UNCHANGED <<storeVars, avifs>>

LEMMA DeleteMoves ==
    ASSUME FilesInv, NEW d \in Deleters, DeleteNext(d)
    PROVE  /\ dpc[d] # "done" /\ dcode[d] # 204
           /\ Prepares(d) \/ Dooms(d) \/ Clears(d) \/ Removes(d) \/ FindsGone(d)
<1> USE DEF FilesInv, TypeInv, TypeOK, DeleteTypeOK, DGoto, Finish, AfterFiles, Begun
<1>1. dpc[d] # "done" /\ dcode[d] # 204
  <2>1. dpc[d] # "done"
    BY DEF DeleteNext, DeleteStep, DeleteFails, BeginDelete, DeleteGetImage,
           DeleteOriginalFile, ListPage, DeletePage, DeleteRow, DeleteCallFails,
           OriginalFails, ObjectsKept, DeleteLost
  <2> QED
    BY <2>1 DEF DeleteOK
<1>2. CASE BeginDelete(d)
  BY <1>1, <1>2 DEF BeginDelete, Prepares, blobVars
<1>3. CASE DeleteGetImage(d)
  BY <1>1, <1>3 DEF DeleteGetImage, Prepares, Dooms, blobVars
<1>4. avifs = avifs \ {} /\ {} \subseteq page[d]
  OBVIOUS
<1>5. CASE DeleteOriginalFile(d) \/ OriginalFails(d)
  <2>1. UNCHANGED <<storeVars, avifs>> /\ dpc[d] = "original" /\ dpc'[d] = "list" /\ dcode'[d] # 204
    BY <1>1, <1>5 DEF DeleteOriginalFile, OriginalFails, DeleteOriginal, blobVars
  <2> QED
    BY <1>1, <1>4, <2>1 DEF Clears
<1>6. CASE ListPage(d)
  <2>1. UNCHANGED <<storeVars, avifs>> /\ dpc[d] = "list" /\ dcode'[d] # 204
    BY <1>1, <1>6 DEF ListPage, blobVars
  <2>2. dpc'[d] \in {"objects", "row", "done"}
    BY <1>6 DEF ListPage
  <2> QED
    BY <1>1, <1>4, <2>1, <2>2 DEF Clears
<1>7. CASE DeletePage(d) \/ ObjectsKept(d)
  <2>1. UNCHANGED storeVars /\ dpc[d] = "objects" /\ dcode'[d] # 204
    BY <1>1, <1>7 DEF DeletePage, ObjectsKept
  <2>2. dpc'[d] \in {"list", "row", "done"}
    BY <1>7 DEF DeletePage, ObjectsKept
  <2>3. \E S \in SUBSET page[d] : avifs' = avifs \ S
    BY <1>7 DEF DeletePage, ObjectsKept, DeleteObjects
  <2> QED
    BY <1>1, <2>1, <2>2, <2>3 DEF Clears
<1>8. CASE DeleteRow(d)
  BY <1>1, <1>8 DEF DeleteRow, Removes, FindsGone, blobVars
<1>9. CASE DeleteCallFails(d)
  <2>1. dcode'[d] # 204 /\ (dpc[d] = "getImage" \/ Begun(d))
    BY <1>9 DEF DeleteCallFails
  <2>2. CASE dpc[d] = "getImage"
    BY <1>1, <1>9, <2>1, <2>2 DEF DeleteCallFails, Prepares, blobVars
  <2>3. CASE Begun(d)
    <3>1. dpc'[d] = "done"
      BY <1>9, <2>3 DEF DeleteCallFails
    <3>2. \/ UNCHANGED <<storeVars, blobVars>>
          \/ (\E S \in SUBSET page[d] : DeleteObjects(S)) /\ UNCHANGED storeVars
          \/ dpc[d] = "row" /\ DeleteImage(dimg[d]) /\ UNCHANGED blobVars
      BY <1>9, <2>3 DEF DeleteCallFails
    <3> QED
      BY <1>1, <1>4, <2>1, <2>3, <3>1, <3>2 DEF Clears, Removes, DeleteObjects, blobVars
  <2> QED
    BY <2>1, <2>2, <2>3
<1>10. CASE DeleteLost(d)
  <2>1. UNCHANGED <<storeVars, avifs>> /\ dcode'[d] # 204
    BY <1>1, <1>10 DEF DeleteLost, blobVars
  <2>2. \/ dpc[d] = "getImage" /\ dpc'[d] = "refused"
        \/ Begun(d) /\ dpc'[d] = "done"
    BY <1>10 DEF DeleteLost, DeleteSteps
  <2> QED
    BY <1>1, <1>4, <2>1, <2>2 DEF Prepares, Clears
<1> QED
  BY <1>1, <1>2, <1>3, <1>5, <1>6, <1>7, <1>8, <1>9, <1>10 DEF DeleteNext, DeleteStep, DeleteFails

(* How a step of a DELETE looks from the cache.                              *)
LEMMA ViewOfDelete ==
    ASSUME FilesInv, NEW d \in Deleters, DeleteNext(d)
    PROVE  /\ UNCHANGED <<CPhase, CWanted, rcode>>
           /\ dcode'[d] # 204 => UNCHANGED Confirmed
           /\ dcode'[d] = 204 => Confirmed' = Confirmed \cup {dimg[d]}
           /\ \A i \in Images :
               /\ i # dimg[d] \/ (Begun(d)' <=> Begun(d)) => Doomed(i)' = Doomed(i)
               /\ i = dimg[d] /\ Begun(d) => Doomed(i)
               /\ i = dimg[d] /\ Begun(d)' => Doomed(i)'
<1>1. UNCHANGED <<rpc, rcode, job>>
  BY DEF DeleteNext, requestVars, genVars
<1>2. UNCHANGED <<CPhase, CWanted>>
  BY <1>1 DEF CPhase, CWanted, Phase
<1> USE DEF FilesInv, TypeInv, TypeOK, DeleteTypeOK
<1>3. /\ UNCHANGED dimg /\ dpc' = [dpc EXCEPT ![d] = dpc'[d]]
      /\ dcode' = [dcode EXCEPT ![d] = dcode'[d]] /\ dcode[d] # 204
  BY DeleteFrame, DeleteMoves
<1>4. /\ dcode'[d] # 204 => UNCHANGED Confirmed
      /\ dcode'[d] = 204 => Confirmed' = Confirmed \cup {dimg[d]}
  <2>1. \A e \in Deleters : e # d => dcode'[e] = dcode[e]
    BY <1>3
  <2>2. dcode'[d] # 204 => UNCHANGED Confirmed
    BY <1>3, <2>1 DEF Confirmed
  <2>3. dcode'[d] = 204 => Confirmed' = Confirmed \cup {dimg[d]}
    BY <1>3, <2>1 DEF Confirmed
  <2> QED
    BY <2>2, <2>3
<1>5. /\ \A i \in Images :
          /\ i # dimg[d] \/ (Begun(d)' <=> Begun(d)) => Doomed(i)' = Doomed(i)
          /\ i = dimg[d] /\ Begun(d) => Doomed(i)
          /\ i = dimg[d] /\ Begun(d)' => Doomed(i)'
  <2>1. \A e \in Deleters : e # d => dpc'[e] = dpc[e]
    BY <1>3
  <2> QED
    BY <1>3, <2>1 DEF Doomed, Begun
<1> QED
  BY <1>1, <1>2, <1>4, <1>5

(* Each of these moves is a step of the cache.                               *)
LEMMA DeleteImplements ==
    ASSUME FilesInv, NEW d \in Deleters, DeleteNext(d)
    PROVE  [Cache!Next]_(Cache!cacheVars)
<1> USE DEF FilesInv, TypeInv, TypeOK, StoreTypeOK, DeleteTypeOK
<1>1. UNCHANGED <<CPhase, CWanted, rcode>> /\ dimg[d] \in Images
  BY ViewOfDelete
<1>2. dimg[d] \in Images /\ (Begun(d) => Doomed(dimg[d]))
  BY ViewOfDelete
<1>3. CASE Prepares(d)
  <2>1. UNCHANGED <<CImage, Confirmed>>
    <3>1. \A i \in Images : Doomed(i)' = Doomed(i)
      BY <1>3, ViewOfDelete DEF Prepares, Begun
    <3> QED
      BY <1>3, <3>1, ViewOfDelete DEF Prepares, CImage, ImageState, HasImage, storeVars
  <2> QED
    BY <1>1, <1>3, <2>1
       DEF Prepares, storeVars, Cache!cacheVars, Cache!requests, CImage, CPhase, CWanted
<1>4. CASE Dooms(d)
  <2>1. UNCHANGED <<Confirmed, imageRows, status, avifs>>
    BY <1>4, ViewOfDelete DEF Dooms, storeVars
  <2>2. CASE Doomed(dimg[d])
    <3>1. \A i \in Images : Doomed(i)' = Doomed(i)
      <4>1. Begun(d)'
        BY <1>4 DEF Dooms, Begun
      <4>2. \A i \in Images : i # dimg[d] => Doomed(i)' = Doomed(i)
        BY ViewOfDelete
      <4>3. \A i \in Images : i = dimg[d] => Doomed(i)' /\ Doomed(i)
        BY <2>2, <4>1, ViewOfDelete
      <4> QED
        BY <4>2, <4>3 DEF Doomed
    <3>2. UNCHANGED CImage
      BY <2>1, <3>1 DEF CImage, ImageState, HasImage
    <3> QED
      BY <1>1, <2>1, <3>2 DEF Cache!cacheVars, Cache!requests, CImage, CPhase, CWanted
  <2>3. CASE ~Doomed(dimg[d])
    <3>1. \A i \in Images : /\ i # dimg[d] => Doomed(i)' = Doomed(i)
                            /\ i = dimg[d] => Doomed(i)'
      <4>1. Begun(d)'
        BY <1>4 DEF Dooms, Begun
      <4> QED
        BY <4>1, ViewOfDelete
    <3>2. CImage[dimg[d]] = "stored"
      BY <1>2, <1>4, <2>3 DEF Dooms, CImage, ImageState
    <3>3. CImage' = [CImage EXCEPT ![dimg[d]] = "deleting"]
      <4>1. \A i \in Images : i # dimg[d] => ImageState(i)' = ImageState(i)
        BY <2>1, <3>1 DEF ImageState, HasImage
      <4>2. \A i \in Images : i = dimg[d] => ImageState(i)' = "deleting"
        BY <1>4, <2>1, <3>1 DEF Dooms, ImageState, HasImage
      <4> QED
        BY <4>1, <4>2 DEF CImage
    <3>4. Cache!StartDelete(dimg[d])
      BY <1>1, <2>1, <3>2, <3>3
         DEF Cache!StartDelete, Cache!requests, CImage, CPhase, CWanted
    <3> QED
      BY <1>2, <3>4 DEF Cache!Next
  <2> QED
    BY <2>2, <2>3
<1>5. Begun(d) /\ Begun(d)' => \A i \in Images : Doomed(i)' = Doomed(i)
  BY ViewOfDelete
<1>6. CASE Clears(d)
  <2>1. UNCHANGED <<Confirmed, imageRows, status>>
    BY <1>6, ViewOfDelete DEF Clears, storeVars
  <2>2. UNCHANGED CImage
    BY <1>5, <1>6, <2>1 DEF Clears, CImage, ImageState, HasImage
  <2>3. PICK S \in SUBSET page[d] : avifs' = avifs \ S
    BY <1>6 DEF Clears
  <2>4. S \in SUBSET Variants
    OBVIOUS
  <2>5. \A v \in S : CImage[ImageOf[v]] # "stored"
    <3>1. \A v \in S : ImageOf[v] = dimg[d]
      BY DEF DeleteOK, VariantsOf
    <3> QED
      BY <1>2, <1>6, <3>1 DEF Clears, CImage, ImageState
  <2>6. Cache!Discard(S)
    BY <1>1, <2>1, <2>2, <2>3, <2>5
       DEF Cache!Discard, Cache!requests, CImage, CPhase, CWanted
  <2> QED
    BY <2>4, <2>6 DEF Cache!Next
<1>7. CASE Removes(d)
  <2>1. Begun(d) /\ Begun(d)'
    BY <1>7 DEF Removes, Begun
  <2>2. CImage[dimg[d]] = "deleting"
    BY <1>2, <1>7, <2>1 DEF Removes, DeleteImage, CImage, ImageState
  <2>3. CImage' = [CImage EXCEPT ![dimg[d]] = "gone"]
    BY <1>2, <1>5, <1>7, <2>1 DEF Removes, DeleteImage, CImage, ImageState, HasImage
  <2>4. Confirmed' \in {Confirmed, Confirmed \cup {dimg[d]}}
    BY ViewOfDelete
  <2>5. Cache!Vanish(dimg[d])
    BY <1>1, <1>7, <2>2, <2>3, <2>4
       DEF Removes, DeleteImage, Cache!Vanish, Cache!requests, CImage, CPhase, CWanted
  <2> QED
    BY <1>2, <2>5 DEF Cache!Next
<1>8. CASE FindsGone(d)
  <2>1. Begun(d) /\ Begun(d)' /\ UNCHANGED <<imageRows, status, avifs>>
    BY <1>8 DEF FindsGone, Begun, storeVars
  <2>2. UNCHANGED CImage /\ CImage[dimg[d]] = "gone"
    BY <1>2, <1>5, <1>8, <2>1 DEF FindsGone, CImage, ImageState, HasImage
  <2>3. Confirmed' = Confirmed \cup {dimg[d]}
    BY <1>8, ViewOfDelete DEF FindsGone
  <2>4. Cache!Confirm(dimg[d])
    BY <1>1, <2>1, <2>2, <2>3
       DEF Cache!Confirm, Cache!requests, CImage, CPhase, CWanted
  <2> QED
    BY <1>2, <2>4 DEF Cache!Next
<1> QED
  BY <1>3, <1>4, <1>6, <1>7, <1>8, DeleteMoves
-----------------------------------------------------------------------------
(* Every step of the system is a step of the cache, or none.                 *)
THEOREM NextCache == ViewInv /\ [Next]_vars => [Cache!Next]_(Cache!cacheVars)
<1> SUFFICES ASSUME ViewInv, [Next]_vars PROVE [Cache!Next]_(Cache!cacheVars)
  OBVIOUS
<1>1. CASE UNCHANGED vars
  <2>1. UNCHANGED <<imageRows, deleteVars, rpc, rcode, job, status, avifs>>
    BY <1>1 DEF vars, storeVars, blobVars, genVars, requestVars
  <2>2. UNCHANGED <<CImage, CPhase, CWanted, Confirmed>>
    BY <2>1, ViewOfOthers
  <2> QED
    BY <2>1, <2>2 DEF Cache!cacheVars, Cache!requests, CImage, CPhase, CWanted
<1>2. ASSUME NEW r \in Requests, RequestNext(r) PROVE [Cache!Next]_(Cache!cacheVars)
  BY <1>2, RequestImplements, GenImplements
     DEF RequestNext, RequestStep, RequestFails, OwnStep, Procs, requestVars
<1>3. ASSUME NEW w \in Workers, WorkerNext(w) PROVE [Cache!Next]_(Cache!cacheVars)
  BY <1>3, WorkerImplements, GenImplements
     DEF WorkerNext, WorkerStep, WorkerFails, WorkerOwnStep, Procs, requestVars
<1>4. ASSUME NEW d \in Deleters, DeleteNext(d) PROVE [Cache!Next]_(Cache!cacheVars)
  BY <1>4, DeleteImplements DEF ViewInv, ObjectsInv
<1> QED
  BY <1>1, <1>2, <1>3, <1>4 DEF Next

(* The processes keep what VariantCache promises to clients: no 200 without  *)
(* an object outside of a running deletion, 404 and 422 only when they are   *)
(* true, nothing generated unasked, nothing served of an image after its 204.*)
THEOREM ImplementsCacheHolds == Spec => ImplementsCache
<1>1. ObjectsInv /\ PollInv /\ WantedInv => ViewInv
  BY DEF ViewInv
<1> QED
  BY <1>1, InitCache, NextCache, ObjectsInvariant, PollInvariant, WantedInvariant, PTL
     DEF Spec, ImplementsCache, Cache!Spec
-----------------------------------------------------------------------------
(* What clients may conclude: the refinement makes every property of the     *)
(* cache one of the system.                                                  *)

(* What the cache alone shows: 204 is told only of images that are gone, and *)
(* who has no answer yet has status 0.                                       *)
CacheInv ==
    /\ \A i \in Confirmed : i \in Images /\ CImage[i] = "gone"
    /\ DOMAIN rcode = Requests
    /\ \A r \in Requests : /\ CPhase[r] # "closed" => rcode[r] = 0
                           /\ CPhase[r] \in {"asked", "open"} => CWanted[r] \in Variants

(* What an answer comes with.                                               *)
Answered(r, code) == /\ CPhase[r] \in {"asked", "open"} /\ Cache!MayAnswer(r, code)
                     /\ CPhase'[r] = "closed" /\ rcode'[r] = code /\ CWanted'[r] = CWanted[r]

(* What a step of the cache may do to one request. *)
Progress(r) ==
    \/ CPhase'[r] = CPhase[r] /\ rcode'[r] = rcode[r] /\ CWanted'[r] = CWanted[r]
    \/ CPhase[r] = "idle" /\ CPhase'[r] = "asked" /\ rcode'[r] = rcode[r] /\ CWanted'[r] \in Variants
    \/ CPhase[r] = "idle" /\ CPhase'[r] = "closed" /\ rcode'[r] = 400
    \/ /\ CPhase[r] = "asked" /\ CPhase'[r] = "open" /\ CImage[ImageOf[CWanted[r]]] # "gone"
       /\ rcode'[r] = rcode[r] /\ CWanted'[r] = CWanted[r]
    \/ CPhase'[r] = "closed" /\ rcode'[r] = rcode[r]
    \/ \E code \in {200, 404, 422, 500, 503} : Answered(r, code)

(* An answer is progress of its request, and no other's.                     *)
LEMMA CloseProgress ==
    ASSUME CacheInv, NEW q \in Requests, NEW code \in {200, 404, 422, 500, 503}, Cache!Close(q, code)
    PROVE  DOMAIN rcode' = Requests /\ \A r \in Requests : Progress(r)
<1>1. /\ CPhase[q] \in {"asked", "open"} /\ Cache!MayAnswer(q, code)
      /\ CPhase' = [CPhase EXCEPT ![q] = "closed"]
      /\ rcode' = [rcode EXCEPT ![q] = code]
      /\ CWanted' = CWanted
  BY DEF Cache!Close, CPhase, CWanted
<1>2. DOMAIN CPhase = Requests /\ DOMAIN rcode = Requests
  BY DEF CPhase, CacheInv
<1>3. DOMAIN rcode' = Requests
  BY <1>1, <1>2
<1>4. Answered(q, code)
  BY <1>1, <1>2 DEF Answered
<1>5. Progress(q)
  BY <1>4 DEF Progress
<1>6. ASSUME NEW r \in Requests, r # q PROVE Progress(r)
  BY <1>1, <1>2, <1>6 DEF Progress
<1> QED
  BY <1>3, <1>5, <1>6

(* Each action of the cache, by what it does to requests.                    *)
LEMMA CacheProgress ==
    ASSUME CacheInv, Cache!Next
    PROVE  DOMAIN rcode' = Requests /\ \A r \in Requests : Progress(r)
<1> DEFINE Goal == DOMAIN rcode' = Requests /\ \A r \in Requests : Progress(r)
<1>0. DOMAIN CPhase = Requests /\ DOMAIN CWanted = Requests /\ DOMAIN rcode = Requests
  BY DEF CPhase, CWanted, CacheInv
<1>1. ASSUME NEW q \in Requests, NEW v \in Variants, Cache!Ask(q, v) PROVE Goal
  <2>1. /\ CPhase[q] = "idle" /\ CPhase' = [CPhase EXCEPT ![q] = "asked"]
        /\ CWanted' = [CWanted EXCEPT ![q] = v] /\ rcode' = rcode
    BY <1>1 DEF Cache!Ask, CPhase, CWanted
  <2> QED
    BY <1>0, <2>1 DEF Progress
<1>2. ASSUME NEW q \in Requests, Cache!Reject(q) PROVE Goal
  <2>1. /\ CPhase[q] = "idle" /\ CPhase' = [CPhase EXCEPT ![q] = "closed"]
        /\ rcode' = [rcode EXCEPT ![q] = 400] /\ CWanted' = CWanted
    BY <1>2 DEF Cache!Reject, CPhase, CWanted
  <2> QED
    BY <1>0, <2>1 DEF Progress
<1>3. ASSUME NEW q \in Requests, Cache!Admit(q) PROVE Goal
  <2>1. /\ CPhase[q] = "asked" /\ CPhase' = [CPhase EXCEPT ![q] = "open"]
        /\ CImage[ImageOf[CWanted[q]]] # "gone" /\ rcode' = rcode /\ CWanted' = CWanted
    BY <1>3 DEF Cache!Admit, CPhase, CWanted, CImage
  <2> QED
    BY <1>0, <2>1 DEF Progress
<1>4. ASSUME NEW q \in Requests, Cache!Abandon(q) PROVE Goal
  <2>1. CPhase' = [CPhase EXCEPT ![q] = "closed"] /\ rcode' = rcode /\ CWanted' = CWanted
    BY <1>4 DEF Cache!Abandon, CPhase, CWanted
  <2> QED
    BY <1>0, <2>1 DEF Progress
<1>5. ASSUME NEW q \in Requests, Cache!Reply(q) PROVE Goal
  BY <1>5, CloseProgress DEF Cache!Reply
<1>6. CASE UNCHANGED Cache!requests
  <2>1. CPhase' = CPhase /\ CWanted' = CWanted /\ rcode' = rcode
    BY <1>6 DEF Cache!requests, CPhase, CWanted
  <2> QED
    BY <1>0, <2>1 DEF Progress
<1>7. ASSUME NEW q \in Requests, Cache!Create(q) PROVE Goal
  BY <1>6, <1>7, CloseProgress DEF Cache!Create
<1>8. ASSUME NEW v \in Variants, Cache!Produce(v) \/ Cache!MarkReady(v) \/ Cache!MarkFailed(v)
      PROVE  Goal
  BY <1>6, <1>8 DEF Cache!Produce, Cache!MarkReady, Cache!MarkFailed
<1>9. ASSUME NEW i \in Images, Cache!StartDelete(i) \/ Cache!Vanish(i) \/ Cache!Confirm(i)
      PROVE  Goal
  BY <1>6, <1>9 DEF Cache!StartDelete, Cache!Vanish, Cache!Confirm
<1>10. ASSUME NEW S \in SUBSET Variants, Cache!Discard(S) PROVE Goal
  BY <1>6, <1>10 DEF Cache!Discard
<1> QED
  BY <1>1, <1>2, <1>3, <1>4, <1>5, <1>7, <1>8, <1>9, <1>10 DEF Cache!Next

(* Requests by their progress; and an image that is gone does not return.    *)
LEMMA CacheKept == CacheInv /\ [Cache!Next]_(Cache!cacheVars) => CacheInv'
<1>1. ASSUME CacheInv, Cache!Next PROVE CacheInv'
  <2>1. \A i \in Confirmed' : i \in Images /\ CImage'[i] = "gone"
    <3>1. \/ UNCHANGED <<CImage, Confirmed>>
          \/ \E i \in Images : Cache!StartDelete(i) \/ Cache!Vanish(i) \/ Cache!Confirm(i)
      <4>1. ASSUME NEW r \in Requests, NEW v \in Variants,
                   Cache!Ask(r, v)
            PROVE  UNCHANGED <<CImage, Confirmed>>
        BY <4>1 DEF Cache!Ask, CImage
      <4>2. ASSUME NEW r \in Requests, Cache!Reply(r) \/ Cache!Create(r)
            PROVE  UNCHANGED <<CImage, Confirmed>>
        BY <4>2 DEF Cache!Reply, Cache!Create, CImage
      <4>3. ASSUME NEW v \in Variants, Cache!Produce(v) \/ Cache!MarkReady(v) \/ Cache!MarkFailed(v)
            PROVE  UNCHANGED <<CImage, Confirmed>>
        BY <4>3 DEF Cache!Produce, Cache!MarkReady, Cache!MarkFailed, CImage
      <4>4. ASSUME NEW S \in SUBSET Variants, Cache!Discard(S)
            PROVE  UNCHANGED <<CImage, Confirmed>>
        BY <4>4 DEF Cache!Discard, CImage
      <4>5. ASSUME NEW r \in Requests,
                   Cache!Reject(r) \/ Cache!Admit(r) \/ Cache!Abandon(r)
            PROVE  UNCHANGED <<CImage, Confirmed>>
        BY <4>5 DEF Cache!Reject, Cache!Admit, Cache!Abandon, CImage
      <4> QED
        BY <1>1, <4>1, <4>2, <4>3, <4>4, <4>5 DEF Cache!Next
    <3>2. ASSUME NEW i \in Images, Cache!StartDelete(i) \/ Cache!Vanish(i) \/ Cache!Confirm(i)
          PROVE  \A k \in Confirmed' : k \in Images /\ CImage'[k] = "gone"
      BY <1>1, <3>2 DEF Cache!StartDelete, Cache!Vanish, Cache!Confirm, CacheInv, CImage
    <3> QED
      BY <1>1, <3>1, <3>2 DEF CacheInv
  <2>2. DOMAIN rcode' = Requests /\ \A r \in Requests : Progress(r)
    BY <1>1, CacheProgress
  <2> QED
    BY <1>1, <2>1, <2>2 DEF CacheInv, Progress, Answered
<1>2. ASSUME CacheInv, UNCHANGED Cache!cacheVars PROVE CacheInv'
  BY <1>2 DEF CacheInv, Cache!cacheVars, Cache!requests, CImage, CPhase, CWanted
<1> QED
  BY <1>1, <1>2

(* Nothing is deleted and nobody is answered at the start.                   *)
LEMMA CacheInitially == Cache!Init => CacheInv
BY DEF Cache!Init, CacheInv, CImage, CPhase, CWanted

(* The invariant of the cache, of every reachable state of the system: it    *)
(* needs to look at the 13 actions of the cache only.                        *)
THEOREM CacheInvariant == Spec => []CacheInv
BY CacheKept, CacheInitially, ImplementsCacheHolds, PTL DEF ImplementsCache, Cache!Spec

(* A GET or HEAD that arrives when its image's DELETE has been answered 204  *)
(* is not admitted and not answered 200, whatever a late generation has put  *)
(* into the bucket (handlers.go resolveVariant, GetImage).                   *)
NotServedAfterDelete ==
    [][\A r \in Requests : Phase(r) = "asked" /\ ImageOf[job[r]] \in Confirmed =>
           Phase(r)' # "open" /\ rcode'[r] # 200]_vars

(* A GET is answered 200 only at a moment at which its object is stored.     *)
ServedHasObject ==
    [][\A r \in Requests \ HeadRequests : rcode'[r] = 200 /\ rcode[r] # 200 =>
           job[r] \in avifs]_vars

(* Both, of one request.                                                     *)
LEMMA RequestAnswers ==
    ASSUME CacheInv, NEW r \in Requests, Progress(r)
    PROVE  /\ Phase(r) = "asked" /\ ImageOf[job[r]] \in Confirmed =>
                  Phase(r)' # "open" /\ rcode'[r] # 200
           /\ r \notin HeadRequests /\ rcode'[r] = 200 /\ rcode[r] # 200 => job[r] \in avifs
<1>1. /\ CPhase[r] = Phase(r) /\ CPhase'[r] = Phase(r)' /\ CWanted[r] = job[r]
  BY DEF CPhase, CWanted
<1>2. ASSUME NEW code \in {200, 404, 422, 500, 503}, Answered(r, code), code = 200
      PROVE  Phase(r) = "open" /\ (r \notin HeadRequests => job[r] \in avifs)
  BY <1>1, <1>2 DEF Answered, Cache!MayAnswer, CPhase, CWanted
<1>3. rcode'[r] = 200 /\ rcode[r] # 200 =>
         Phase(r) = "open" /\ (r \notin HeadRequests => job[r] \in avifs)
  BY <1>2 DEF Progress, Answered
<1>4. Phase(r) = "asked" => rcode[r] = 0
  BY <1>1 DEF CacheInv
<1>5. Phase(r) = "asked" /\ Phase(r)' = "open" => CImage[ImageOf[job[r]]] # "gone"
  BY <1>1 DEF Progress, Answered
<1> QED
  BY <1>3, <1>4, <1>5 DEF CacheInv

(* After a 204 no later request is served, whatever is still being generated *)
(* for those that came before it.                                            *)
THEOREM NotServedAfterDeleteHolds == Spec => NotServedAfterDelete
<1>1. CacheInv /\ [Cache!Next]_(Cache!cacheVars) =>
        [\A r \in Requests : Phase(r) = "asked" /\ ImageOf[job[r]] \in Confirmed =>
           Phase(r)' # "open" /\ rcode'[r] # 200]_vars
  <2> SUFFICES ASSUME CacheInv, [Cache!Next]_(Cache!cacheVars), NEW r \in Requests,
                      Phase(r) = "asked", ImageOf[job[r]] \in Confirmed
               PROVE  Phase(r)' # "open" /\ rcode'[r] # 200
    OBVIOUS
  <2>1. CASE Cache!Next
    BY <2>1, CacheProgress, RequestAnswers
  <2>2. CASE UNCHANGED Cache!cacheVars
    <3>1. CPhase' = CPhase /\ rcode' = rcode /\ CPhase[r] = Phase(r) /\ CPhase'[r] = Phase(r)'
      BY <2>2 DEF Cache!cacheVars, Cache!requests, CPhase
    <3> QED
      BY <3>1 DEF CacheInv
  <2> QED
    BY <2>1, <2>2
<1> QED
  BY <1>1, CacheInvariant, ImplementsCacheHolds, PTL
     DEF ImplementsCache, Cache!Spec, NotServedAfterDelete

(* No GET is answered 200 on the word of the row alone.                      *)
THEOREM ServedHasObjectHolds == Spec => ServedHasObject
<1>1. CacheInv /\ [Cache!Next]_(Cache!cacheVars) =>
        [\A r \in Requests \ HeadRequests : rcode'[r] = 200 /\ rcode[r] # 200 =>
           job[r] \in avifs]_vars
  <2> SUFFICES ASSUME CacheInv, [Cache!Next]_(Cache!cacheVars), NEW r \in Requests \ HeadRequests,
                      rcode'[r] = 200, rcode[r] # 200
               PROVE  job[r] \in avifs
    OBVIOUS
  <2>1. CASE Cache!Next
    BY <2>1, CacheProgress, RequestAnswers
  <2>2. CASE UNCHANGED Cache!cacheVars
    BY <2>2 DEF Cache!cacheVars, Cache!requests
  <2> QED
    BY <2>1, <2>2
<1> QED
  BY <1>1, CacheInvariant, ImplementsCacheHolds, PTL
     DEF ImplementsCache, Cache!Spec, ServedHasObject
=============================================================================
