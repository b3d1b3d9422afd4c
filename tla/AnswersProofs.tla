--------------------------- MODULE AnswersProofs ---------------------------
(***************************************************************************)
(* How long a GET or HEAD may take and how soon it notices a result, for   *)
(* any number of requests and any timeouts; that a probe of /ready keeps   *)
(* its budget and how many goroutines its pings leave behind; and that a   *)
(* request is served the transform its own query asks for.                 *)
(***************************************************************************)
EXTENDS MCAnswers, FiniteSetTheorems, TLAPS

(* What a request has used up of its time at each of its steps.              *)
TimeOK(r) ==
    /\ step[r] = "away" => age[r] = 0 /\ ~waited[r]
    /\ step[r] = "looking" => age[r] < Timeout
    /\ step[r] = "sleeping" => timer[r] <= PollInterval /\ age[r] < Timeout + timer[r]
    /\ step[r] = "last" => Timeout <= age[r] /\ age[r] < Timeout + PollInterval
    /\ step[r] = "generating" => /\ timer[r] <= Timeout
                                 /\ age[r] < Timeout + PollInterval + timer[r]
                                 /\ waited[r] => Timeout <= age[r]
    /\ step[r] = "done" => age[r] < 2 * Timeout + PollInterval

(* A row that has settled did so during the sleep of whoever still sleeps.   *)
SleepOK(r) == step[r] = "sleeping" /\ Terminal(row) => settled <= timer[r]

WaitInv == /\ WaitTypeOK
           /\ \A r \in Peers : TimeOK(r)
           /\ \A r \in Peers : SleepOK(r)

LEMMA WaitInitially == WaitInit => WaitInv
BY WaitingAssumption, MaxFaultsAssumption
   DEF WaitInit, InitFaults, WaitInv, WaitTypeOK, TimeOK, SleepOK, Terminal

(* A request that takes a step keeps within its time, and is alone in what   *)
(* it changes but the row.                                                   *)
LEMMA RequestKeepsTime ==
    ASSUME WaitInv, NEW r \in Peers, RequestStep(r)
    PROVE  WaitInv'
<1> USE WaitingAssumption, MaxFaultsAssumption
<1>1. WaitTypeOK'
  <2> USE DEF WaitInv, WaitTypeOK, WaitGoto, WaitAnswer, WaitAnswerTerminal, SetRow
  <2>1. CASE WaitArrive(r)
    <3>1. CASE row = "absent"
      BY <2>1, <3>1 DEF WaitArrive
    <3>2. CASE row = "pending"
      <4>1. /\ WaitGoto(r, "looking") /\ waited' = [waited EXCEPT ![r] = TRUE]
            /\ UNCHANGED <<row, settled, faults>>
        BY <2>1, <3>2 DEF WaitArrive
      <4> QED
        BY <4>1
    <3>3. CASE row \notin {"absent", "pending"}
      BY <2>1, <3>3 DEF WaitArrive
    <3> QED
      BY <3>1, <3>2, <3>3
  <2>2. CASE Look(r) \/ Wake(r) \/ LastLook(r)
    BY <2>2 DEF Look, Wake, LastLook
  <2>3. CASE SyncGenerate(r)
    BY <2>3 DEF SyncGenerate
  <2>4. CASE Leave(r)
    BY <2>4 DEF Leave, Fault
  <2> QED
    BY <2>1, <2>2, <2>3, <2>4 DEF RequestStep
<1>2. TimeOK(r)' /\ SleepOK(r)'
  <2> USE DEF WaitInv, WaitTypeOK, TimeOK, SleepOK, Terminal,
              WaitGoto, WaitAnswer, WaitAnswerTerminal, SetRow
  <2>1. CASE WaitArrive(r)
    BY <2>1 DEF WaitArrive
  <2>2. CASE Look(r)
    BY <2>2 DEF Look
  <2>3. CASE Wake(r)
    BY <2>3 DEF Wake, Due, TimeLeft
  <2>4. CASE LastLook(r)
    BY <2>4 DEF LastLook
  <2>5. CASE SyncGenerate(r)
    BY <2>5 DEF SyncGenerate
  <2>6. CASE Leave(r)
    BY <2>6 DEF Leave
  <2> QED
    BY <2>1, <2>2, <2>3, <2>4, <2>5, <2>6 DEF RequestStep
<1>3. ASSUME NEW q \in Peers, q # r
      PROVE  TimeOK(q)' /\ SleepOK(q)'
  <2>1. UNCHANGED <<step[q], waited[q], age[q], timer[q]>>
    BY <1>3 DEF WaitInv, WaitTypeOK, RequestStep, WaitArrive, Look, Wake, LastLook,
           SyncGenerate, Leave, WaitGoto, WaitAnswer, WaitAnswerTerminal
  <2>2. (settled' = settled /\ (Terminal(row') => Terminal(row))) \/ settled' = 0
    BY DEF RequestStep, WaitArrive, Look, Wake, LastLook, SyncGenerate, Leave, SetRow, Terminal
  <2>3. timer[q] \in Nat
    BY DEF WaitInv, WaitTypeOK
  <2> QED
    BY <2>1, <2>2, <2>3 DEF WaitInv, TimeOK, SleepOK, Terminal
<1> QED
  BY <1>1, <1>2, <1>3 DEF WaitInv

LEMMA WaitInductive == WaitInv /\ [WaitNext]_waitVars => WaitInv'
<1> SUFFICES ASSUME WaitInv, [WaitNext]_waitVars PROVE WaitInv'
  OBVIOUS
<1> USE WaitingAssumption, MaxFaultsAssumption
<1>1. ASSUME NEW r \in Peers, RequestStep(r) PROVE WaitInv'
  BY <1>1, RequestKeepsTime
<1>2. CASE WorkerMarks \/ ImageDeleted
  BY <1>2 DEF WorkerMarks, ImageDeleted, SetRow, peerVars, WaitInv, WaitTypeOK, TimeOK,
         SleepOK, Terminal
<1>3. CASE WaitTick
  <2>1. WaitTypeOK'
    BY <1>3 DEF WaitTick, WaitInv, WaitTypeOK
  <2>2. ASSUME NEW r \in Peers PROVE TimeOK(r)' /\ SleepOK(r)'
    BY <1>3 DEF WaitTick, Waits, Due, Running, WaitInv, WaitTypeOK, TimeOK, SleepOK, Terminal
  <2> QED
    BY <2>1, <2>2 DEF WaitInv
<1>4. CASE UNCHANGED waitVars
  BY <1>4 DEF waitVars, WaitInv, WaitTypeOK, TimeOK, SleepOK, Terminal
<1> QED
  BY <1>1, <1>2, <1>3, <1>4 DEF WaitNext

(* WaitInvariant: the time that a request has spent bounds its next step, in  *)
(* every reachable state (waitOrSync, syncGenerate).                         *)
THEOREM WaitInvariant == WaitSpec => []WaitInv
BY WaitInitially, WaitInductive, PTL DEF WaitSpec

(* EndsWithinTwoTimeouts holds for every number of requests and whatever the *)
(* timeout and the pause: the wait and the generation have one timeout each. *)
THEOREM EndsWithinTwoTimeoutsHolds == WaitSpec => []EndsWithinTwoTimeouts
<1>1. WaitInv => EndsWithinTwoTimeouts
  <2> SUFFICES ASSUME WaitInv, NEW r \in Peers
               PROVE  age[r] < 2 * Timeout + PollInterval
    BY DEF EndsWithinTwoTimeouts
  <2> QED
    BY WaitingAssumption DEF WaitInv, WaitTypeOK, TimeOK
<1> QED
  BY <1>1, WaitInvariant, PTL

(* NoticedWithinAPause: a sleep began before the row settled, and lasts no   *)
(* longer than the pause.                                                    *)
THEOREM NoticedWithinAPauseHolds == WaitSpec => []NoticedWithinAPause
<1>1. WaitInv => NoticedWithinAPause
  <2> SUFFICES ASSUME WaitInv, NEW r \in Peers, step[r] = "sleeping", Terminal(row)
               PROVE  settled <= PollInterval
    BY DEF NoticedWithinAPause
  <2>1. settled <= timer[r] /\ timer[r] <= PollInterval
    BY DEF WaitInv, TimeOK, SleepOK
  <2>2. settled \in Nat /\ timer[r] \in Nat
    BY WaitingAssumption DEF WaitInv, WaitTypeOK
  <2> QED
    BY <2>1, <2>2, WaitingAssumption
<1> QED
  BY <1>1, WaitInvariant, PTL

(* WaitersGenerateLast: who has waited is at least one timeout old, so that a *)
(* generation that is older still has used up its own.                        *)
THEOREM WaitersGenerateLastHolds == WaitSpec => []WaitersGenerateLast
<1>1. WaitInv => WaitersGenerateLast
  <2> SUFFICES ASSUME WaitInv, NEW r \in Peers, NEW first \in Peers,
                      step[r] = "generating", waited[r],
                      step[first] = "generating", timer[first] >= age[r]
               PROVE  timer[first] = Timeout
    BY DEF WaitersGenerateLast
  <2>1. Timeout <= age[r] /\ timer[first] <= Timeout
    BY DEF WaitInv, TimeOK
  <2>2. age[r] \in Nat /\ timer[first] \in Nat
    BY DEF WaitInv, WaitTypeOK
  <2> QED
    BY <2>1, <2>2, WaitingAssumption
<1> QED
  BY <1>1, WaitInvariant, PTL
-----------------------------------------------------------------------------
(* The probes of /ready.                                                     *)
ReadyInv == ReadyTypeOK /\ AnsweredInTime

LEMMA ReadyInitially == ReadyInit => ReadyInv
BY ReadinessAssumption, MaxFaultsAssumption
   DEF ReadyInit, InitFaults, ReadyInv, ReadyTypeOK, Modes, AnsweredInTime

(* The end of a ping keeps the types and the time its probe has taken.       *)
LEMMA CheckKeepsInv ==
    ASSUME ReadyInv, NEW p \in Probers, NEW name \in {"postgres", "rabbitmq"},
           NEW ok \in BOOLEAN, NEW next \in {"idle", "rabbitmq"}, Checked(p, name, ok, next),
           inspect' \in [Probers -> {"off", "waiting", "ok", "err"}], leftover' \in Nat
    PROVE  ReadyInv'
<1> USE DEF Checked, ReadyInv, ReadyTypeOK
<1>1. failed' \in [Probers -> SUBSET {"postgres", "rabbitmq"}]
  <2>1. (IF ok THEN failed[p] ELSE failed[p] \cup {name}) \in SUBSET {"postgres", "rabbitmq"}
    OBVIOUS
  <2> QED
    BY <2>1
<1>2. since' \in [Probers -> Nat] /\ ppc' \in [Probers -> {"idle", "postgres", "rabbitmq", "select"}]
  OBVIOUS
<1>3. readyCode' \in [Probers -> {0, 200, 503}]
  OBVIOUS
<1>4. UNCHANGED <<spent, pg, broker, conn, silence, faults>>
  BY DEF depVars
<1> QED
  BY <1>1, <1>2, <1>3, <1>4 DEF Modes, AnsweredInTime

LEMMA ReadyInductive == ReadyInv /\ [ReadyNext]_readyVars => ReadyInv'
<1> SUFFICES ASSUME ReadyInv, [ReadyNext]_readyVars PROVE ReadyInv'
  OBVIOUS
<1> USE ReadinessAssumption, MaxFaultsAssumption
<1>1. ASSUME NEW p \in Probers, StartProbe(p) PROVE ReadyInv'
  BY <1>1 DEF StartProbe, depVars, ReadyInv, ReadyTypeOK, Modes, AnsweredInTime
<1>2. ASSUME NEW p \in Probers, ProbeStep(p) PROVE ReadyInv'
  <2>1. inspect \in [Probers -> {"off", "waiting", "ok", "err"}] /\ leftover \in Nat
    BY DEF ReadyInv, ReadyTypeOK
  <2>2. CASE PingPostgres(p)
    BY <2>1, <2>2, CheckKeepsInv DEF PingPostgres
  <2>3. CASE PingRabbitMQ(p)
    <3>1. CASE conn = "closed"
      BY <2>1, <2>3, <3>1, CheckKeepsInv DEF PingRabbitMQ
    <3>2. CASE conn # "closed"
      <4>1. /\ inspect' = [inspect EXCEPT ![p] = "waiting"]
            /\ ppc' = [ppc EXCEPT ![p] = "select"]
            /\ UNCHANGED <<spent, since, failed, readyCode, pg, broker, conn, silence, faults,
                            leftover>>
        BY <2>3, <3>2 DEF PingRabbitMQ, depVars
      <4> QED
        BY <4>1 DEF ReadyInv, ReadyTypeOK, Modes, AnsweredInTime
    <3> QED
      BY <3>1, <3>2
  <2>4. CASE InspectReturns(p)
    BY <2>4 DEF InspectReturns, depVars, probeVars, ReadyInv, ReadyTypeOK, Modes, AnsweredInTime
  <2>5. CASE Select(p)
    <3>1. inspect' \in [Probers -> {"off", "waiting", "ok", "err"}] /\ leftover' \in Nat
      <4>1. leftover' \in {leftover, leftover + 1}
        BY <2>5 DEF Select
      <4>2. inspect' = [inspect EXCEPT ![p] = "off"]
        BY <2>5 DEF Select
      <4> QED
        BY <2>1, <4>1, <4>2
    <3> QED
      BY <2>5, <3>1, CheckKeepsInv DEF Select
  <2> QED
    BY <1>2, <2>2, <2>3, <2>4, <2>5 DEF ProbeStep
<1>3. ASSUME NEW p \in Probers, ClientLeaves(p) PROVE ReadyInv'
  BY <1>3 DEF ClientLeaves, Fault, depVars, ReadyInv, ReadyTypeOK, Modes, AnsweredInTime
<1>4. CASE LeftoverEnds \/ HeartbeatMissed \/ PostgresFails \/ PostgresRecovers
  BY <1>4 DEF LeftoverEnds, HeartbeatMissed, PostgresFails, PostgresRecovers, Fault, depVars,
         probeVars, ReadyInv, ReadyTypeOK, Modes, AnsweredInTime
<1>5. CASE BrokerStalls \/ BrokerDies \/ BrokerRecovers
  BY <1>5 DEF BrokerStalls, BrokerDies, BrokerRecovers, Fault, probeVars, ReadyInv,
         ReadyTypeOK, Modes, AnsweredInTime
<1>6. CASE ReadyTick
  <2>1. ReadyTypeOK'
    BY <1>6 DEF ReadyTick, ReadyInv, ReadyTypeOK, Modes
  <2>2. ASSUME NEW p \in Probers PROVE spent'[p] <= ReadyTimeout
    BY <1>6 DEF ReadyTick, Blocked, Expired, ReadyInv, ReadyTypeOK, AnsweredInTime
  <2> QED
    BY <2>1, <2>2 DEF ReadyInv, AnsweredInTime
<1>7. CASE UNCHANGED readyVars
  BY <1>7 DEF readyVars, depVars, probeVars, ReadyInv, ReadyTypeOK, Modes, AnsweredInTime
<1> QED
  BY <1>1, <1>2, <1>3, <1>4, <1>5, <1>6, <1>7 DEF ReadyNext

(* AnsweredInTime: the budget of a probe is kept by any number of probers,   *)
(* whatever the timeouts of its two pings are.                               *)
THEOREM AnsweredInTimeHolds == ReadySpec => []AnsweredInTime
<1>1. ReadyInv => AnsweredInTime
  BY DEF ReadyInv
<1> QED
  BY <1>1, ReadyInitially, ReadyInductive, PTL DEF ReadySpec

Room == Heartbeat \div Shorter + 1

(* The time of its present probe that p can yet turn into a goroutine left   *)
(* behind, and how long the connection has been waiting at most.             *)
Used(p) == IF ppc[p] = "idle" THEN 0
           ELSE IF spent[p] < Shorter THEN spent[p] ELSE Shorter
Patience == IF broker = "stalled" /\ conn = "open" THEN silence ELSE Heartbeat

(* Each goroutine left behind has a mark of its own: whose it was, which     *)
(* fault was the last before it, and how many its prober had left since.     *)
Marks == Probers \X ((1..faults) \X (0..Room - 1))

Marked(S, n) ==
    /\ S \subseteq Marks
    /\ Cardinality(S) = leftover
    /\ \A m \in S : m[2][1] = faults => m[2][2] < n[m[1]]
    /\ \A p \in Probers : n[p] * Shorter + Used(p) <= Shorter + Patience

(* Before the first fault no probe has to wait. *)
Quiet == /\ conn = "open" => broker # "down"
         /\ faults = 0 => /\ pg = "up" /\ broker = "up" /\ conn = "open" /\ silence = 0
                          /\ \A p \in Probers : ppc[p] = "idle" \/ spent[p] = 0

(* For some marks and counts, the goroutines left behind are accounted for.  *)
Accounted == \E S \in SUBSET Marks, n \in [Probers -> Nat] : Marked(S, n)

(* ReadyInv, what holds before the first fault, and the account.             *)
LeftInv == ReadyInv /\ Quiet /\ Accounted

(* Room is the number of whole pings that fit into a stall, and one.         *)
LEMMA RoomEnough ==
    /\ Shorter \in Nat /\ Shorter > 0 /\ Shorter <= PingTimeout /\ Shorter <= ReadyTimeout
    /\ Room \in Nat /\ Room > 0
    /\ \A k \in Nat : k * Shorter <= Shorter + Heartbeat => k <= Room
<1>1. Shorter \in Nat /\ Shorter > 0 /\ Shorter <= PingTimeout /\ Shorter <= ReadyTimeout
  BY ReadinessAssumption DEF Shorter
<1> DEFINE q == Heartbeat \div Shorter
<1>2. Heartbeat \in Nat
  BY ReadinessAssumption
<1> HIDE DEF Shorter
<1>3. q \in Nat /\ Heartbeat < (q + 1) * Shorter
  BY <1>1, <1>2
<1>4. Room = q + 1
  BY DEF Room
<1> HIDE DEF q
<1>5. ASSUME NEW k \in Nat, k > q + 1
      PROVE  k * Shorter > Shorter + Heartbeat
  <2>1. k * Shorter >= (q + 2) * Shorter
    BY <1>1, <1>3, <1>5
  <2>2. (q + 2) * Shorter = (q + 1) * Shorter + Shorter
    BY <1>1, <1>3
  <2> QED
    BY <1>1, <1>2, <1>3, <1>5, <2>1, <2>2
<1>6. ASSUME NEW k \in Nat, k * Shorter <= Shorter + Heartbeat
      PROVE  k <= Room
  <2>1. k * Shorter \in Nat
    BY <1>1
  <2> QED
    BY <1>1, <1>2, <1>3, <1>4, <1>5, <1>6, <2>1
<1> QED
  BY <1>1, <1>3, <1>4, <1>6

(* No probe has used more than a ping may take.                              *)
LEMMA UsedSome ==
    ASSUME ReadyInv, NEW p \in Probers
    PROVE  Used(p) \in 0..Shorter
BY RoomEnough DEF Used, ReadyInv, ReadyTypeOK

(* There are so many marks.                                                  *)
LEMMA MarksFinite ==
    ASSUME faults \in Nat
    PROVE  /\ IsFiniteSet(Marks)
           /\ Cardinality(Marks) = Cardinality(Probers) * (faults * Room)
<1>1. IsFiniteSet(1..faults) /\ Cardinality(1..faults) = faults
  BY FS_Interval
<1>2. IsFiniteSet(0..Room - 1) /\ Cardinality(0..Room - 1) = Room
  BY FS_Interval, RoomEnough
<1> DEFINE A == 1..faults
           B == 0..Room - 1
<1>3. Marks = Probers \X (A \X B)
  BY DEF Marks
<1> HIDE DEF A, B
<1>4. IsFiniteSet(A \X B) /\ Cardinality(A \X B) = Cardinality(A) * Cardinality(B)
  BY <1>1, <1>2, FS_Product DEF A, B
<1>5. IsFiniteSet(A \X B) /\ Cardinality(A \X B) = faults * Room
  BY <1>1, <1>2, <1>4 DEF A, B
<1>6. /\ IsFiniteSet(Probers \X (A \X B))
      /\ Cardinality(Probers \X (A \X B)) = Cardinality(Probers) * Cardinality(A \X B)
  BY <1>5, FS_Product, ReadinessAssumption
<1> QED
  BY <1>3, <1>5, <1>6

(* The bound that the marks give. *)
LEMMA MarksBound == ASSUME LeftInv PROVE FewLeftBehind
<1>1. PICK S \in SUBSET Marks : Cardinality(S) = leftover
  BY DEF LeftInv, Accounted, Marked
<1>2. faults \in Nat
  BY MaxFaultsAssumption DEF LeftInv, ReadyInv, ReadyTypeOK
<1>3. Cardinality(S) <= Cardinality(Marks)
  BY <1>2, MarksFinite, FS_Subset
<1>4. Cardinality(Probers) \in Nat /\ Room \in Nat
  BY RoomEnough, FS_CardinalityType, ReadinessAssumption
<1>5. leftover <= Cardinality(Probers) * (faults * Room)
  BY <1>1, <1>2, <1>3, MarksFinite
<1>6. Cardinality(Probers) * (faults * Room) = faults * Cardinality(Probers) * Room
  BY <1>2, <1>4
<1> QED
  BY <1>5, <1>6 DEF FewLeftBehind, Room, Shorter

(* A stall is at most as long as the heartbeat allows.                       *)
LEMMA PatienceBounds == ASSUME ReadyInv PROVE Patience \in 0..Heartbeat
BY ReadinessAssumption DEF ReadyInv, ReadyTypeOK, Patience

(* Both bounds, of the next state.                                           *)
LEMMA NextBounds ==
    ASSUME ReadyInv', NEW p \in Probers
    PROVE  Used(p)' \in 0..Shorter /\ Patience' \in 0..Heartbeat
BY RoomEnough, ReadinessAssumption DEF Used, Patience, ReadyInv, ReadyTypeOK

(* A fault opens a new account. *)
LEMMA FaultAccounted ==
    ASSUME ReadyInv, ReadyInv', Accounted, faults' = faults + 1, leftover' = leftover
    PROVE  Accounted'
<1>1. PICK S \in SUBSET Marks, n \in [Probers -> Nat] : Marked(S, n)
  BY DEF Accounted
<1> DEFINE z == [p \in Probers |-> 0]
<1>2. faults \in Nat
  BY MaxFaultsAssumption DEF ReadyInv, ReadyTypeOK
<1>3. S \in SUBSET Marks'
  BY <1>1, <1>2 DEF Marks
<1>4. \A m \in S : m[2][1] # faults'
  BY <1>1, <1>2 DEF Marks
<1>5. ASSUME NEW p \in Probers PROVE 0 * Shorter + Used(p)' <= Shorter + Patience'
  <2>1. Used(p)' \in 0..Shorter /\ Patience' \in 0..Heartbeat
    BY NextBounds
  <2>2. 0 * Shorter = 0
    BY RoomEnough
  <2> QED
    BY <2>1, <2>2, RoomEnough, ReadinessAssumption
<1>6. Cardinality(S) = leftover'
  BY <1>1 DEF Marked
<1>7. z \in [Probers -> Nat] /\ \A p \in Probers : z[p] = 0
  OBVIOUS
<1> HIDE DEF z
<1>8. Marked(S, z)'
  BY <1>3, <1>4, <1>5, <1>6, <1>7 DEF Marked
<1> QED
  BY <1>3, <1>7, <1>8 DEF Accounted

(* Between faults nothing is used up but by a tick. *)
LEMMA QuietAccounted ==
    ASSUME ReadyInv, ReadyInv', Accounted, faults' = faults, leftover' = leftover,
           \A p \in Probers : Used(p)' <= Used(p) + (Patience' - Patience),
           Patience <= Patience'
    PROVE  Accounted'
<1>1. PICK S \in SUBSET Marks, n \in [Probers -> Nat] : Marked(S, n)
  BY DEF Accounted
<1>2. S \in SUBSET Marks'
  BY <1>1 DEF Marks
<1>3. ASSUME NEW p \in Probers PROVE n[p] * Shorter + Used(p)' <= Shorter + Patience'
  <2>1. /\ Used(p) \in Int /\ Used(p)' \in Int /\ Patience \in Int /\ Patience' \in Int
    <3>1. Used(p) \in 0..Shorter /\ Patience \in 0..Heartbeat
      BY UsedSome, PatienceBounds
    <3>2. Used(p)' \in 0..Shorter /\ Patience' \in 0..Heartbeat
      BY NextBounds
    <3> QED
      BY <3>1, <3>2
  <2>2. n[p] * Shorter + Used(p) <= Shorter + Patience
    BY <1>1 DEF Marked
  <2>3. n[p] * Shorter \in Int /\ Shorter \in Int
    BY RoomEnough
  <2> QED
    BY <2>1, <2>2, <2>3
<1>4. Marked(S, n)'
  BY <1>1, <1>2, <1>3 DEF Marked
<1> QED
  BY <1>2, <1>4 DEF Accounted

(* A ping that gives up has used up its time. *)
LEMMA LeavingAccounted ==
    ASSUME ReadyInv, ReadyInv', Accounted, faults' = faults, faults # 0, leftover' = leftover + 1,
           NEW p \in Probers, Used(p) = Shorter, Used(p)' = 0,
           \A q \in Probers \ {p} : Used(q)' = Used(q),
           Patience' = Patience
    PROVE  Accounted'
<1>1. PICK S \in SUBSET Marks, n \in [Probers -> Nat] : Marked(S, n)
  BY DEF Accounted
<1>2. PICK f : f = faults
  OBVIOUS
<1> DEFINE m == <<p, <<f, n[p]>>>>
           T == S \cup {m}
           k == [n EXCEPT ![p] = n[p] + 1]
<1>3. f \in Nat \ {0} /\ leftover \in Nat
  BY <1>2, MaxFaultsAssumption DEF ReadyInv, ReadyTypeOK
<1>4. Patience \in 0..Heartbeat
  BY PatienceBounds
<1>5. (n[p] + 1) * Shorter <= Shorter + Patience
  <2>1. n[p] * Shorter + Shorter <= Shorter + Patience
    BY <1>1 DEF Marked
  <2>2. (n[p] + 1) * Shorter = n[p] * Shorter + Shorter
    BY RoomEnough
  <2> QED
    BY <2>1, <2>2
<1>6. n[p] + 1 <= Room
  <2>1. (n[p] + 1) * Shorter <= Shorter + Heartbeat
    <3>1. (n[p] + 1) * Shorter \in Nat /\ Shorter \in Nat /\ Heartbeat \in Nat
      BY RoomEnough, ReadinessAssumption
    <3> QED
      BY <1>4, <1>5, <3>1
  <2>2. n[p] + 1 \in Nat
    OBVIOUS
  <2> QED
    BY <2>1, <2>2, RoomEnough, Zenon
<1>7. m \in Marks' /\ T \in SUBSET Marks'
  <2>1. f \in 1..faults' /\ n[p] \in 0..Room - 1
    BY <1>2, <1>3, <1>6, RoomEnough
  <2> QED
    BY <1>1, <2>1 DEF Marks
<1>8. m \notin S
  BY <1>1, <1>2 DEF Marked
<1>9. Cardinality(T) = leftover'
  <2>1. IsFiniteSet(S)
    BY <1>1, <1>2, <1>3, MarksFinite, FS_Subset
  <2> QED
    BY <1>1, <1>8, <2>1, FS_AddElement DEF Marked
<1>10. k \in [Probers -> Nat] /\ k[p] = n[p] + 1 /\ \A q \in Probers \ {p} : k[q] = n[q]
  OBVIOUS
<1>11. ASSUME NEW x \in T, x[2][1] = faults' PROVE x[2][2] < k[x[1]]
  <2>1. CASE x = m
    BY <1>10, <2>1
  <2>2. CASE x \in S
    <3>1. x[1] \in Probers /\ x[2][2] \in Int
      BY <1>1, <2>2, RoomEnough DEF Marks
    <3>2. x[2][2] < n[x[1]]
      BY <1>1, <1>11, <2>2 DEF Marked
    <3>3. x[1] = p \/ k[x[1]] = n[x[1]]
      BY <1>10, <3>1
    <3> QED
      BY <1>10, <3>1, <3>2, <3>3
  <2> QED
    BY <2>1, <2>2
<1>12. ASSUME NEW q \in Probers PROVE k[q] * Shorter + Used(q)' <= Shorter + Patience'
  <2>1. CASE q = p
    <3>1. (n[p] + 1) * Shorter \in Nat
      BY RoomEnough
    <3> QED
      BY <1>5, <1>10, <2>1, <3>1
  <2>2. CASE q # p
    BY <1>1, <1>10, <2>2 DEF Marked
  <2> QED
    BY <2>1, <2>2
<1> HIDE DEF T, k
<1>13. Marked(T, k)'
  BY <1>7, <1>9, <1>11, <1>12 DEF Marked
<1> QED
  BY <1>7, <1>10, <1>13 DEF Accounted

(* One that ends gives up any mark. *)
LEMMA EndingAccounted ==
    ASSUME ReadyInv, Accounted, faults' = faults, leftover > 0, leftover' = leftover - 1,
           \A p \in Probers : Used(p)' = Used(p),
           Patience' = Patience
    PROVE  Accounted'
<1>1. PICK S \in SUBSET Marks, n \in [Probers -> Nat] : Marked(S, n)
  BY DEF Accounted
<1>2. faults \in Nat /\ leftover \in Nat
  BY MaxFaultsAssumption DEF ReadyInv, ReadyTypeOK
<1>3. IsFiniteSet(S) /\ Cardinality(S) = leftover
  BY <1>1, <1>2, MarksFinite, FS_Subset DEF Marked
<1>4. PICK m : m \in S
  <2>1. S # {}
    BY <1>2, <1>3, FS_EmptySet
  <2> QED
    BY <2>1
<1>5. Cardinality(S \ {m}) = leftover'
  BY <1>3, <1>4, FS_RemoveElement
<1>6. Marked(S \ {m}, n)'
  BY <1>1, <1>5 DEF Marked, Marks
<1> QED
  BY <1>1, <1>6 DEF Accounted, Marks

(* With none left behind, all marks are free. *)
LEMMA NoneAccounted == ReadyInv /\ leftover = 0 => Accounted
<1> SUFFICES ASSUME ReadyInv, leftover = 0 PROVE Accounted
  OBVIOUS
<1> DEFINE z == [p \in Probers |-> 0]
<1>1. Cardinality({}) = leftover
  BY FS_EmptySet
<1>2. ASSUME NEW p \in Probers PROVE 0 * Shorter + Used(p) <= Shorter + Patience
  <2>1. Used(p) \in 0..Shorter /\ Patience \in 0..Heartbeat
    BY UsedSome, PatienceBounds
  <2>2. 0 * Shorter = 0
    BY RoomEnough
  <2> QED
    BY <2>1, <2>2, RoomEnough, ReadinessAssumption
<1>3. z \in [Probers -> Nat] /\ \A p \in Probers : z[p] = 0
  OBVIOUS
<1> HIDE DEF z
<1>4. Marked({}, z)
  BY <1>1, <1>2, <1>3 DEF Marked
<1> QED
  BY <1>3, <1>4 DEF Accounted

(* At the start, none is left behind.                                        *)
LEMMA LeftInitially == ReadyInit => LeftInv
<1> SUFFICES ASSUME ReadyInit PROVE LeftInv
  OBVIOUS
<1>1. ReadyInv
  BY ReadyInitially
<1>2. Quiet /\ leftover = 0
  BY DEF ReadyInit, Quiet
<1> QED
  BY <1>1, <1>2, NoneAccounted DEF LeftInv

(* Before the first fault nothing waits, so no ping runs out of time. *)
LEMMA ExpiredAfterFault ==
    ASSUME LeftInv, NEW p \in Probers, ppc[p] # "idle", Expired(p)
    PROVE  faults # 0 /\ Used(p) = Shorter
<1>1. spent[p] \in Nat /\ since[p] \in Nat
  BY DEF LeftInv, ReadyInv, ReadyTypeOK
<1>2. spent[p] >= Shorter
  BY <1>1, RoomEnough, ReadinessAssumption DEF Expired
<1>3. spent[p] # 0
  BY <1>1, <1>2, RoomEnough
<1> QED
  BY <1>1, <1>2, <1>3, RoomEnough DEF LeftInv, Quiet, Used

(* Only a fault ends the quiet, and a dead broker leaves no open connection. *)
LEMMA QuietKept == ASSUME LeftInv, [ReadyNext]_readyVars PROVE Quiet'
<1> USE DEF LeftInv, ReadyInv, ReadyTypeOK, Quiet
<1>1. ASSUME NEW p \in Probers, StartProbe(p) PROVE Quiet'
  BY <1>1 DEF StartProbe, depVars
<1>2. ASSUME NEW p \in Probers, ProbeStep(p) PROVE Quiet'
  <2>1. /\ UNCHANGED <<spent, pg, broker, conn, silence, faults>>
        /\ \A q \in Probers : ppc[q] = "idle" => ppc'[q] = "idle"
    BY <1>2 DEF ProbeStep, PingPostgres, PingRabbitMQ, InspectReturns, Select, Checked, depVars,
           probeVars
  <2> QED
    BY <2>1
<1>3. ASSUME NEW p \in Probers, ClientLeaves(p) PROVE Quiet'
  BY <1>3, MaxFaultsAssumption DEF ClientLeaves, Fault, depVars
<1>4. CASE LeftoverEnds
  BY <1>4 DEF LeftoverEnds, depVars, probeVars
<1>5. CASE HeartbeatMissed \/ PostgresRecovers \/ BrokerRecovers
  <2>1. Heartbeat # 0
    BY ReadinessAssumption
  <2> QED
    BY <1>5, <2>1 DEF HeartbeatMissed, PostgresRecovers, BrokerRecovers, probeVars
<1>6. CASE PostgresFails \/ BrokerStalls \/ BrokerDies
  BY <1>6, MaxFaultsAssumption DEF PostgresFails, BrokerStalls, BrokerDies, Fault, probeVars
<1>7. CASE ReadyTick
  BY <1>7 DEF ReadyTick, Blocked, Usable
<1>8. CASE UNCHANGED readyVars
  BY <1>8 DEF readyVars, depVars, probeVars
<1> QED
  BY <1>1, <1>2, <1>3, <1>4, <1>5, <1>6, <1>7, <1>8 DEF ReadyNext

(* Every step keeps the account, each for a reason of its own.               *)
LEMMA AccountedKept == ASSUME LeftInv, ReadyInv', [ReadyNext]_readyVars PROVE Accounted'
<1> USE RoomEnough, MaxFaultsAssumption, ReadinessAssumption
<1>a. ReadyInv /\ Accounted
  BY DEF LeftInv
<1>b. Patience \in 0..Heartbeat
  BY <1>a, PatienceBounds
<1>c. ASSUME NEW p \in Probers PROVE Used(p) \in 0..Shorter
  BY <1>a, UsedSome
<1>1. ASSUME NEW p \in Probers, StartProbe(p) PROVE Accounted'
  <2>1. faults' = faults /\ leftover' = leftover /\ Patience' = Patience
    BY <1>1 DEF StartProbe, depVars, Patience
  <2>2. ASSUME NEW q \in Probers PROVE Used(q)' <= Used(q)
    BY <1>a, <1>1, <1>c DEF StartProbe, Used, ReadyInv, ReadyTypeOK
  <2> QED
    BY <1>a, <1>b, <1>c, <2>1, <2>2, QuietAccounted
<1>2. ASSUME NEW p \in Probers, ProbeStep(p) PROVE Accounted'
  <2>1. /\ faults' = faults /\ Patience' = Patience
        /\ spent' = spent
        /\ \A q \in Probers \ {p} : ppc'[q] = ppc[q]
    BY <1>a, <1>2 DEF ProbeStep, PingPostgres, PingRabbitMQ, InspectReturns, Select, Checked, depVars,
           probeVars, Patience, ReadyInv, ReadyTypeOK
  <2>2. \A q \in Probers \ {p} : Used(q)' = Used(q)
    BY <2>1 DEF Used
  <2>3. CASE leftover' = leftover
    <3>1. ppc'[p] = "idle" \/ ppc[p] # "idle"
      BY <1>2 DEF ProbeStep, PingPostgres, PingRabbitMQ, InspectReturns, Select, Checked, probeVars
    <3>2. Used(p)' <= Used(p)
      BY <1>c, <2>1, <3>1 DEF Used
    <3>3. ASSUME NEW q \in Probers PROVE Used(q)' <= Used(q)
      BY <1>c, <2>2, <3>2
    <3> QED
      BY <1>a, <1>b, <1>c, <2>1, <2>3, <3>3, QuietAccounted
  <2>4. CASE leftover' # leftover
    <3>1. /\ ppc[p] = "select" /\ Expired(p) /\ leftover' = leftover + 1
          /\ ppc' = [ppc EXCEPT ![p] = "idle"]
      BY <1>2, <2>4 DEF ProbeStep, PingPostgres, PingRabbitMQ, InspectReturns, Select, Checked
    <3>2. faults # 0 /\ Used(p) = Shorter
      BY <3>1, ExpiredAfterFault
    <3>3. Used(p)' = 0
      BY <1>a, <3>1 DEF Used, ReadyInv, ReadyTypeOK
    <3> QED
      BY <1>a, <2>1, <2>2, <3>1, <3>2, <3>3, LeavingAccounted
  <2> QED
    BY <2>3, <2>4
<1>3. ASSUME NEW p \in Probers, ClientLeaves(p) PROVE Accounted'
  BY <1>a, <1>3, FaultAccounted DEF ClientLeaves, Fault
<1>4. CASE PostgresFails \/ BrokerStalls \/ BrokerDies
  BY <1>a, <1>4, FaultAccounted DEF PostgresFails, BrokerStalls, BrokerDies, Fault
<1>5. CASE LeftoverEnds
  <2>1. /\ leftover > 0 /\ leftover' = leftover - 1 /\ faults' = faults
        /\ UNCHANGED <<ppc, spent, broker, conn, silence>>
    BY <1>5 DEF LeftoverEnds, depVars, probeVars
  <2>2. Patience' = Patience /\ \A p \in Probers : Used(p)' = Used(p)
    BY <2>1 DEF Patience, Used
  <2> QED
    BY <1>a, <2>1, <2>2, EndingAccounted
<1>6. CASE HeartbeatMissed \/ PostgresRecovers \/ BrokerRecovers \/ UNCHANGED readyVars
  <2>1. UNCHANGED <<ppc, spent, leftover, faults>>
    BY <1>6 DEF HeartbeatMissed, PostgresRecovers, BrokerRecovers, readyVars, probeVars
  <2>2. Patience' = Patience \/ Patience' = Heartbeat
    BY <1>6 DEF HeartbeatMissed, PostgresRecovers, BrokerRecovers, readyVars, depVars, Patience
  <2>3. \A p \in Probers : Used(p)' = Used(p)
    BY <2>1 DEF Used
  <2>4. Patience' \in Int /\ Patience <= Patience'
    BY <1>b, <2>2
  <2> QED
    BY <1>a, <1>b, <1>c, <2>1, <2>3, <2>4, QuietAccounted
<1>7. CASE ReadyTick
  <2>1. CASE leftover = 0
    <3>1. (leftover = 0)'
      BY <1>7, <2>1 DEF ReadyTick
    <3> QED
      BY <3>1, NoneAccounted, PTL
  <2>2. CASE leftover # 0
    <3>1. broker = "stalled" /\ conn = "open" /\ UNCHANGED <<broker, conn>>
      BY <1>7, <1>a, <2>2 DEF ReadyTick, Usable, LeftInv, Quiet, ReadyInv, ReadyTypeOK, Modes
    <3>2. Patience' = Patience + 1
      BY <1>7, <3>1 DEF ReadyTick, Patience
    <3>3. ASSUME NEW p \in Probers PROVE Used(p)' <= Used(p) + 1
      BY <1>7, <1>a DEF ReadyTick, Used, ReadyInv, ReadyTypeOK
    <3>4. faults' = faults /\ leftover' = leftover
      BY <1>7 DEF ReadyTick
    <3> QED
      BY <1>a, <1>b, <1>c, <3>2, <3>3, <3>4, QuietAccounted
  <2> QED
    BY <2>1, <2>2
<1> QED
  BY <1>1, <1>2, <1>3, <1>4, <1>5, <1>6, <1>7 DEF ReadyNext

(* The account of the goroutines left behind holds in every reachable state. *)
THEOREM LeftInvariant == ReadySpec => []LeftInv
<1>1. LeftInv /\ [ReadyNext]_readyVars => LeftInv'
  BY ReadyInductive, QuietKept, AccountedKept DEF LeftInv
<1> QED
  BY <1>1, LeftInitially, PTL DEF ReadySpec

(* FewLeftBehind: for any number of probers and any timeouts, a stalled      *)
(* broker costs each prober no more goroutines per fault than pings run out  *)
(* between two heartbeats, and one.                                          *)
THEOREM FewLeftBehindHolds == ReadySpec => []FewLeftBehind
<1>1. LeftInv => FewLeftBehind
  BY MarksBound
<1> QED
  BY <1>1, LeftInvariant, PTL
-----------------------------------------------------------------------------
(* The parameters of a transform, from the query to the path that is fetched. *)
(* The fields of Params.                                                     *)
Names == {"w", "h", "crop", "fit", "q"}

(* An accepted number is absent, which is 0, or positive. *)
LEMMA AcceptedNumbers ==
    ASSUME NEW a \in Queries, NEW text \in {a.w, a.h, a.q}, Positive(text)
    PROVE  Number(text) \in Nat /\ (Number(text) = 0 <=> text = "")
<1>1. CASE text = ""
  BY <1>1 DEF Number
<1>2. CASE text # ""
  <2>1. text \in Numerals /\ Atoi[text] # NaN
    BY <1>2, ParamsAssumption DEF Positive
  <2>2. Atoi[text] \in Int /\ Atoi[text] > 0
    BY <1>2, <2>1, ParamsAssumption DEF Positive
  <2>3. Atoi[text] \in Nat /\ Atoi[text] # 0
    BY <2>2
  <2> QED
    BY <1>2, <2>3 DEF Number
<1> QED
  BY <1>1, <1>2

(* The parameters that the hash and the row are made of.                     *)
Normal(a) == Normalize(Parse(a))

(* What Normalize leaves as given and what it fills in.                      *)
LEMMA NormalForm ==
    ASSUME NEW a \in Queries, Accepted(a)
    PROVE  /\ Normal(a) = [n \in Names |-> Normal(a)[n]]
           /\ Normal(a).w = Number(a.w) /\ Normal(a).h = Number(a.h)
           /\ Normal(a).q = IF Number(a.q) = 0 THEN defaultQuality ELSE Number(a.q)
           /\ Normal(a).crop = IF a.crop = "" /\ Resizes(Normal(a)) THEN "center" ELSE a.crop
           /\ Normal(a).fit = IF a.fit = "" /\ Resizes(Normal(a)) THEN "cover" ELSE a.fit
<1>1. Number(a.q) \in Nat /\ (Number(a.q) = 0 <=> a.q = "")
  BY AcceptedNumbers DEF Accepted
<1>2. /\ Parse(a).w = Number(a.w) /\ Parse(a).h = Number(a.h)
      /\ Parse(a).crop = a.crop /\ Parse(a).fit = a.fit /\ Parse(a).q = Number(a.q)
      /\ DOMAIN Parse(a) = Names
  BY DEF Parse, Names
<1>3. /\ Normal(a).w = Number(a.w) /\ Normal(a).h = Number(a.h)
      /\ Normal(a).q = IF Number(a.q) = 0 THEN defaultQuality ELSE Number(a.q)
      /\ Normal(a).crop = IF a.crop = "" /\ Resizes(Parse(a)) THEN "center" ELSE a.crop
      /\ Normal(a).fit = IF a.fit = "" /\ Resizes(Parse(a)) THEN "cover" ELSE a.fit
      /\ Normal(a) = [n \in Names |-> Normal(a)[n]]
  BY <1>2 DEF Normal, Normalize, Names
<1>4. Resizes(Normal(a)) <=> Resizes(Parse(a))
  BY <1>2, <1>3 DEF Resizes
<1> QED
  BY <1>1, <1>3, <1>4 DEF Number

(* What a row says of its parameters is what was normalized for it.         *)
LEMMA RoundTrip ==
    ASSUME NEW a \in Queries, Accepted(a)
    PROVE  ParamsFromJSON(Hash(Parse(a))) = Normal(a)
<1> DEFINE p == Normal(a)
           json == Hash(Parse(a))
<1>1. /\ p = [n \in Names |-> p[n]] /\ DOMAIN p = Names
  BY NormalForm
<1>2. p.q # 0
  <2>1. defaultQuality # 0
    BY DEF defaultQuality
  <2>2. p.q = IF Number(a.q) = 0 THEN defaultQuality ELSE Number(a.q)
    BY NormalForm
  <2> HIDE DEF p
  <2> QED
    BY <2>1, <2>2
<1>3. json = [n \in {m \in Names : m = "q" \/ p[m] # Zero[m]} |-> p[n]]
  BY <1>1 DEF Hash, Fields, Normal
<1> HIDE DEF p, json
<1>4. DOMAIN Zero = Names
  BY DEF Zero, Names
<1>5. [n \in DOMAIN Zero |-> IF n \in DOMAIN json THEN json[n] ELSE Zero[n]] = p
  BY <1>1, <1>3, <1>4
<1>6. ParamsFromJSON(json) = [p EXCEPT !.q = IF @ = 0 THEN defaultQuality ELSE @]
  BY <1>5 DEF ParamsFromJSON
<1> QED
  BY <1>1, <1>2, <1>6 DEF p, json

(* The path that is built from normal parameters is the one asked for.      *)
LEMMA BuildsAsAsked ==
    ASSUME NEW a \in Queries, Accepted(a)
    PROVE  BuildPath(Normal(a)) = Asked(a)
<1> DEFINE p == Normal(a)
<1>1. /\ p.w = Number(a.w) /\ p.h = Number(a.h)
      /\ p.q = IF a.q = "" THEN defaultQuality ELSE Atoi[a.q]
      /\ p.crop = IF a.crop = "" /\ Resizes(p) THEN "center" ELSE a.crop
      /\ p.fit = IF a.fit = "" /\ Resizes(p) THEN "cover" ELSE a.fit
  <2>1. Number(a.q) = 0 <=> a.q = ""
    BY AcceptedNumbers DEF Accepted
  <2> QED
    BY <2>1, NormalForm DEF Number
<1> HIDE DEF p
<1>2. Resizes(p) <=> ~(a.w = "" /\ a.h = "")
  BY <1>1, AcceptedNumbers DEF Accepted, Resizes
<1>3. /\ a.fit \in {"", "cover", "contain", "fill"}
      /\ a.crop \in {"", "center", "top", "bottom", "left", "right"}
  BY DEF Accepted, validFits, validCrops
<1>4. resizingType(p.fit) =
        Types[IF a.fit = "" THEN IF a.w = "" /\ a.h = "" THEN "contain" ELSE "cover" ELSE a.fit]
  <2>1. /\ Types["cover"] = "fill" /\ Types["contain"] = "fit" /\ Types["fill"] = "force"
        /\ resizingType("cover") = "fill" /\ resizingType("contain") = "fit"
        /\ resizingType("fill") = "force" /\ resizingType("") = "fit"
    BY DEF resizingType, Types
  <2> QED
    BY <1>1, <1>2, <1>3, <2>1
<1>5. gravity(p.crop) = Anchors[IF a.crop = "" THEN "center" ELSE a.crop]
  <2>1. /\ Anchors["center"] = "ce" /\ Anchors["top"] = "no" /\ Anchors["bottom"] = "so"
        /\ Anchors["left"] = "we" /\ Anchors["right"] = "ea"
        /\ gravity("center") = "ce" /\ gravity("top") = "no" /\ gravity("bottom") = "so"
        /\ gravity("left") = "we" /\ gravity("right") = "ea" /\ gravity("") = "ce"
    BY DEF gravity, Anchors
  <2> QED
    BY <1>1, <1>3, <2>1
<1> QED
  BY <1>1, <1>4, <1>5 DEF BuildPath, Asked, p

(* A resize has one normal form.                                            *)
LEMMA OneNormalForm ==
    ASSUME NEW a \in Queries, Accepted(a), NEW b \in Queries, Accepted(b),
           Resizes(Normal(a)), BuildPath(Normal(a)) = BuildPath(Normal(b))
    PROVE  Normal(a) = Normal(b)
<1> DEFINE p == Normal(a)
           o == Normal(b)
<1>1. p.w = o.w /\ p.h = o.h /\ p.q = o.q
  <2>1. <<resizingType(p.fit), p.w, p.h>> = <<resizingType(o.fit), o.w, o.h>> /\ p.q = o.q
    BY DEF BuildPath
  <2> QED
    BY <2>1
<1>2. resizingType(p.fit) = resizingType(o.fit) /\ gravity(p.crop) = gravity(o.crop)
  <2>1. <<resizingType(p.fit), p.w, p.h>> = <<resizingType(o.fit), o.w, o.h>>
        /\ gravity(p.crop) = gravity(o.crop)
    BY DEF BuildPath
  <2> QED
    BY <2>1
<1>3. Resizes(o)
  BY <1>1 DEF Resizes
<1>4. ASSUME NEW x \in {p, o}
      PROVE  x.fit \in {"cover", "contain", "fill"}
             /\ x.crop \in {"center", "top", "bottom", "left", "right"}
  BY <1>3, NormalForm DEF Accepted, validFits, validCrops
<1>5. p.fit = o.fit
  BY <1>2, <1>4 DEF resizingType
<1>6. p.crop = o.crop
  BY <1>2, <1>4 DEF gravity
<1>7. \A n \in Names : p[n] = o[n]
  BY <1>1, <1>5, <1>6 DEF Names
<1> QED
  BY <1>7, NormalForm

(* A row says of its parameters what its hash does, and an object was        *)
(* generated from its row, whoever made the one and the other.               *)
RowsInv == \A k \in DOMAIN rows :
    /\ rows[k] = k
    /\ \E a \in Queries : Accepted(a) /\ k = Hash(Parse(a))

ObjectsInv == \A k \in DOMAIN objects :
    k \in DOMAIN rows /\ objects[k] = BuildPath(ParamsFromJSON(k))

GetInv(r) == /\ query[r] \in Queries
             /\ pc[r] \in {"parsed", "waiting", "served"} => Accepted(query[r])
             /\ pc[r] = "served" => body[r] = BuildPath(ParamsFromJSON(Key(r)))

ParamsInv == /\ query \in [Gets -> Queries]
             /\ pc \in [Gets -> {"start", "parsed", "waiting", "served", "rejected"}]
             /\ DOMAIN body = Gets
             /\ RowsInv /\ ObjectsInv
             /\ \A r \in Gets : GetInv(r)

(* No row and no object yet.                                                 *)
LEMMA ParamsInitially == ParamsInit => ParamsInv
<1> SUFFICES ASSUME ParamsInit PROVE ParamsInv
  OBVIOUS
<1>1. DOMAIN rows = {} /\ DOMAIN objects = {}
  BY DEF ParamsInit
<1> QED
  BY <1>1 DEF ParamsInit, ParamsInv, RowsInv, ObjectsInv, GetInv

(* Each step of a request or a generator keeps them.                         *)
LEMMA ParamsKept == ParamsInv /\ [ParamsNext]_paramVars => ParamsInv'
<1> SUFFICES ASSUME ParamsInv, [ParamsNext]_paramVars PROVE ParamsInv'
  OBVIOUS
<1> USE DEF ParamsInv
<1>1. ASSUME NEW r \in Gets, Receive(r) PROVE ParamsInv'
  BY <1>1 DEF Receive, RowsInv, ObjectsInv, GetInv, Key
<1>2. ASSUME NEW r \in Gets, Upsert(r) PROVE ParamsInv'
  <2>1. pc[r] = "parsed" /\ pc' = [pc EXCEPT ![r] = "waiting"] /\ UNCHANGED <<query, objects, body>>
    BY <1>2 DEF Upsert
  <2>2. Accepted(query[r]) /\ query[r] \in Queries
    BY <2>1 DEF GetInv
  <2>3. CacheKeyJSON(Parse(query[r])) = Key(r) /\ Key(r) = Hash(Parse(query[r]))
    BY DEF CacheKeyJSON, Hash, Key
  <2>4. \/ UNCHANGED rows
        \/ rows' = Put(rows, Key(r), Key(r))
    BY <1>2, <2>3 DEF Upsert
  <2>5. RowsInv' /\ DOMAIN rows \subseteq DOMAIN rows'
    <3>1. CASE UNCHANGED rows
      BY <3>1 DEF RowsInv
    <3>2. CASE rows' = Put(rows, Key(r), Key(r))
      <4>1. /\ DOMAIN rows' = DOMAIN rows \cup {Key(r)} /\ rows'[Key(r)] = Key(r)
            /\ \A k \in DOMAIN rows : k # Key(r) => rows'[k] = rows[k]
        BY <3>2 DEF Put
      <4>2. \E a \in Queries : Accepted(a) /\ Key(r) = Hash(Parse(a))
        BY <2>2, <2>3
      <4> QED
        BY <4>1, <4>2 DEF RowsInv
    <3> QED
      BY <2>4, <3>1, <3>2
  <2>6. ObjectsInv'
    BY <2>1, <2>5 DEF ObjectsInv
  <2>7. \A g \in Gets : GetInv(g)'
    BY <2>1, <2>2 DEF GetInv, Key
  <2> QED
    BY <2>1, <2>5, <2>6, <2>7
<1>3. ASSUME NEW r \in Gets, Serve(r) PROVE ParamsInv'
  <2>1. /\ pc[r] = "waiting" /\ Key(r) \in DOMAIN objects
        /\ body' = [body EXCEPT ![r] = objects[Key(r)]]
        /\ pc' = [pc EXCEPT ![r] = "served"]
        /\ UNCHANGED <<query, rows, objects>>
    BY <1>3 DEF Serve
  <2>2. \A g \in Gets : GetInv(g)'
    BY <2>1 DEF GetInv, Key, ObjectsInv
  <2>3. RowsInv' /\ ObjectsInv'
    BY <2>1 DEF RowsInv, ObjectsInv
  <2> QED
    BY <2>1, <2>2, <2>3
<1>4. ASSUME NEW key \in DOMAIN rows, Generate(key) PROVE ParamsInv'
  <2>1. /\ objects' = Put(objects, key, BuildPath(ParamsFromJSON(key)))
        /\ UNCHANGED <<query, pc, rows, body>>
    BY <1>4 DEF Generate, RowsInv
  <2>2. ObjectsInv'
    <3>1. /\ DOMAIN objects' = DOMAIN objects \cup {key}
          /\ objects'[key] = BuildPath(ParamsFromJSON(key))
          /\ \A k \in DOMAIN objects : k # key => objects'[k] = objects[k]
      BY <2>1 DEF Put
    <3> QED
      BY <2>1, <3>1 DEF ObjectsInv
  <2>3. RowsInv' /\ \A g \in Gets : GetInv(g)'
    BY <2>1 DEF RowsInv, GetInv, Key
  <2> QED
    BY <2>1, <2>2, <2>3
<1>5. CASE UNCHANGED paramVars
  BY <1>5 DEF paramVars, RowsInv, ObjectsInv, GetInv, Key
<1> QED
  BY <1>1, <1>2, <1>3, <1>4, <1>5 DEF ParamsNext

(* What rows and objects stand for holds in every reachable state.           *)
THEOREM ParamsInvariant == ParamsSpec => []ParamsInv
<1> QED
  BY ParamsInitially, ParamsKept, PTL DEF ParamsSpec

(* For any set of queries: whoever made the row and generated the object, a  *)
(* request gets the transform that its own query asks for.                   *)
THEOREM ServedAsAskedHolds == ParamsSpec => []ServedAsAsked
<1>1. ParamsInv => ServedAsAsked
  <2> SUFFICES ASSUME ParamsInv, NEW r \in Gets, pc[r] = "served"
               PROVE  body[r] = Asked(query[r])
    BY DEF ServedAsAsked
  <2>1. /\ query[r] \in Queries /\ Accepted(query[r])
        /\ body[r] = BuildPath(ParamsFromJSON(Hash(Parse(query[r]))))
    BY DEF ParamsInv, GetInv, Key
  <2> QED
    BY <2>1, RoundTrip, BuildsAsAsked
<1> QED
  BY <1>1, ParamsInvariant, PTL

(* Spellings of one resize share one row: what the normal form leaves apart  *)
(* is built into different paths.                                            *)
THEOREM OneRowPerResizeHolds == ParamsSpec => []OneRowPerResize
<1>1. ParamsInv => OneRowPerResize
  <2> SUFFICES ASSUME ParamsInv, NEW k1 \in DOMAIN rows, NEW k2 \in DOMAIN rows,
                      Resizes(ParamsFromJSON(rows[k1])),
                      BuildPath(ParamsFromJSON(rows[k1])) = BuildPath(ParamsFromJSON(rows[k2]))
               PROVE  k1 = k2
    BY DEF OneRowPerResize
  <2>1. PICK a \in Queries : Accepted(a) /\ k1 = Hash(Parse(a))
    BY DEF ParamsInv, RowsInv
  <2>2. PICK b \in Queries : Accepted(b) /\ k2 = Hash(Parse(b))
    BY DEF ParamsInv, RowsInv
  <2>3. ParamsFromJSON(rows[k1]) = Normal(a) /\ ParamsFromJSON(rows[k2]) = Normal(b)
    BY <2>1, <2>2, RoundTrip DEF ParamsInv, RowsInv
  <2>4. Normal(a) = Normal(b)
    BY <2>1, <2>2, <2>3, OneNormalForm
  <2> QED
    BY <2>1, <2>2, <2>4 DEF Hash, Normal
<1> QED
  BY <1>1, ParamsInvariant, PTL
-----------------------------------------------------------------------------
(* Waiting and Readiness as parts of one specification: a step of the one    *)
(* leaves all but the count of the faults to the other.                      *)
AnswersInv == WaitInv /\ ReadyInv

LEMMA AnswersInductive == AnswersInv /\ [Next]_vars => AnswersInv'
<1> SUFFICES ASSUME AnswersInv, [Next]_vars PROVE AnswersInv'
  OBVIOUS
<1>1. CASE WaitNext /\ UNCHANGED readyPart
  <2>1. WaitInv'
    BY <1>1, WaitInductive DEF AnswersInv
  <2>2. ReadyInv'
    BY <1>1, <2>1 DEF AnswersInv, WaitInv, WaitTypeOK, ReadyInv, ReadyTypeOK, AnsweredInTime,
           readyPart, depVars, probeVars
  <2> QED
    BY <2>1, <2>2 DEF AnswersInv
<1>2. CASE ReadyNext /\ UNCHANGED waitPart
  <2>1. ReadyInv'
    BY <1>2, ReadyInductive DEF AnswersInv
  <2>2. WaitInv'
    BY <1>2, <2>1 DEF AnswersInv, WaitInv, WaitTypeOK, TimeOK, SleepOK, ReadyInv, ReadyTypeOK,
           waitPart, peerVars
  <2> QED
    BY <2>1, <2>2 DEF AnswersInv
<1>3. CASE UNCHANGED <<waitPart, readyPart, faults>>
  BY <1>3 DEF AnswersInv, WaitInv, WaitTypeOK, TimeOK, SleepOK, ReadyInv, ReadyTypeOK,
         AnsweredInTime, waitPart, peerVars, readyPart, depVars, probeVars
<1> QED
  BY <1>1, <1>2, <1>3 DEF Next, vars

(* TypeOK: every variable of the two parts keeps its type, whichever part a  *)
(* behaviour is of.                                                          *)
THEOREM AnswersTypes == Spec => []TypeOK
<1>1. Init => AnswersInv
  BY WaitInitially, ReadyInitially DEF Init, AnswersInv
<1>2. AnswersInv => TypeOK
  BY DEF AnswersInv, WaitInv, ReadyInv, TypeOK
<1> QED
  BY <1>1, <1>2, AnswersInductive, PTL DEF Spec
=============================================================================
