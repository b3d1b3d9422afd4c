----------------------------- MODULE Readiness -----------------------------
(***************************************************************************)
(* GET /ready of one process: CheckReady pings Postgres and then RabbitMQ  *)
(* under one timeout, each ping also under its own, and the RabbitMQ ping  *)
(* runs QueueInspect, which knows no deadline, in a goroutine that it may  *)
(* leave behind.  Time goes by in ticks; a dependency that is up answers   *)
(* within one.                                                             *)
(***************************************************************************)
EXTENDS FaultBudget, FiniteSets

CONSTANTS Probers,          \* the clients of /ready, each probing again and again
          ReadyTimeout,     \* ticks for one CheckReady
          PingTimeout,      \* storePingTimeout, clientPingTimeout
          Heartbeat         \* ticks after which a silent connection is closed

ASSUME ReadinessAssumption == /\ IsFiniteSet(Probers)
                              /\ {ReadyTimeout, PingTimeout, Heartbeat} \subseteq Nat \ {0}

VARIABLES pg,               \* Postgres: "up", "stalled" or "down"
          broker,           \* RabbitMQ, likewise
          conn,             \* the process's AMQP connection: "open" or "closed"
          silence,          \* how long a stalled broker has kept it waiting
          ppc,              \* the next step of a probe
          spent,            \* how long the probe has taken
          since,            \* how much of that before its present ping
          failed,           \* the checks that failed
          readyCode,        \* its HTTP status, 0 before the answer
          inspect,          \* QueueInspect of its ping: "off", "waiting", "ok", "err"
          leftover          \* QueueInspect calls whose ping has given up

depVars == <<pg, broker, conn, silence>>
probeVars == <<ppc, spent, since, failed, readyCode>>
readyVars == <<depVars, probeVars, inspect, leftover, faults>>

Modes == {"up", "stalled", "down"}

ReadyTypeOK == /\ pg \in Modes /\ broker \in Modes
               /\ conn \in {"open", "closed"}
               /\ silence \in 0..Heartbeat
               /\ ppc \in [Probers -> {"idle", "postgres", "rabbitmq", "select"}]
               /\ spent \in [Probers -> Nat] /\ since \in [Probers -> Nat]
               /\ failed \in [Probers -> SUBSET {"postgres", "rabbitmq"}]
               /\ readyCode \in [Probers -> {0, 200, 503}]
               /\ inspect \in [Probers -> {"off", "waiting", "ok", "err"}]
               /\ leftover \in Nat
               /\ faults \in 0..MaxFaults

ReadyInit == /\ InitFaults
             /\ pg = "up" /\ broker = "up" /\ conn = "open" /\ silence = 0
             /\ ppc = [p \in Probers |-> "idle"]
             /\ spent = [p \in Probers |-> 0] /\ since = [p \in Probers |-> 0]
             /\ failed = [p \in Probers |-> {}]
             /\ readyCode = [p \in Probers |-> 0]
             /\ inspect = [p \in Probers |-> "off"]
             /\ leftover = 0
-----------------------------------------------------------------------------
Usable == broker = "up" /\ conn = "open"

(* Mutant of Expired: the ping's context is not derived from the probe's.   *)
OwnTimeoutOnly(p) == spent[p] - since[p] = PingTimeout

(* Mutant of Expired: the context is cancelled when Ping has set it up.     *)
CancelledAtOnce(p) == p \in Probers

(* The context of the present ping is done. *)
Expired(p) == spent[p] = ReadyTimeout \/ spent[p] - since[p] = PingTimeout

(* What ends a ping: its check is entered and the next ping has all of its  *)
(* own timeout, if the probe has it left.                                   *)
Checked(p, name, ok, next) ==
    /\ failed' = [failed EXCEPT ![p] = IF ok THEN @ ELSE @ \cup {name}]
    /\ since' = [since EXCEPT ![p] = spent[p]]
    /\ ppc' = [ppc EXCEPT ![p] = next]
    /\ readyCode' = [readyCode EXCEPT ![p] = IF next # "idle" THEN @
                                   ELSE IF failed'[p] = {} THEN 200 ELSE 503]
    /\ UNCHANGED <<spent, depVars, faults>>

StartProbe(p) == /\ ppc[p] = "idle"
                 /\ ppc' = [ppc EXCEPT ![p] = "postgres"]
                 /\ spent' = [spent EXCEPT ![p] = 0]
                 /\ since' = [since EXCEPT ![p] = 0]
                 /\ failed' = [failed EXCEPT ![p] = {}]
                 /\ readyCode' = [readyCode EXCEPT ![p] = 0]
                 /\ UNCHANGED <<depVars, inspect, leftover, faults>>

(* Mutant of PingPostgres: the pool is pinged without a context to end it.  *)
PingPostgresForever(p) == /\ ppc[p] = "postgres"
                          /\ \/ pg = "up" /\ Checked(p, "postgres", TRUE, "rabbitmq")
                             \/ pg = "down" /\ Checked(p, "postgres", FALSE, "rabbitmq")
                          /\ UNCHANGED <<inspect, leftover>>

PingPostgres(p) == /\ ppc[p] = "postgres"
                   /\ \/ pg = "up" /\ Checked(p, "postgres", TRUE, "rabbitmq")
                      \/ (pg = "down" \/ Expired(p)) /\ Checked(p, "postgres", FALSE, "rabbitmq")
                   /\ UNCHANGED <<inspect, leftover>>

(* A connection known to be closed fails the ping at once. *)
PingRabbitMQ(p) == /\ ppc[p] = "rabbitmq"
                   /\ \/ /\ conn = "closed"
                         /\ Checked(p, "rabbitmq", FALSE, "idle")
                         /\ UNCHANGED inspect
                      \/ /\ conn = "open"
                         /\ inspect' = [inspect EXCEPT ![p] = "waiting"]
                         /\ ppc' = [ppc EXCEPT ![p] = "select"]
                         /\ UNCHANGED <<spent, since, failed, readyCode, depVars, faults>>
                   /\ UNCHANGED leftover

(* The goroutine: QueueInspect returns, and its result waits in done. *)
InspectReturns(p) == /\ inspect[p] = "waiting"
                     /\ \/ Usable /\ inspect' = [inspect EXCEPT ![p] = "ok"]
                        \/ conn = "closed" /\ inspect' = [inspect EXCEPT ![p] = "err"]
                     /\ UNCHANGED <<depVars, probeVars, leftover, faults>>

(* The select of Ping: either case may be taken when both are ready.        *)
Select(p) == /\ ppc[p] = "select"
             /\ \/ /\ inspect[p] \in {"ok", "err"}
                   /\ Checked(p, "rabbitmq", inspect[p] = "ok", "idle")
                   /\ UNCHANGED leftover
                \/ /\ Expired(p)
                   /\ Checked(p, "rabbitmq", FALSE, "idle")
                   /\ leftover' = IF inspect[p] = "waiting" THEN leftover + 1 ELSE leftover
             /\ inspect' = [inspect EXCEPT ![p] = "off"]

(* Mutant of LeftoverEnds: done is not buffered and nobody receives from it. *)
LeftoverBlocks == /\ leftover > 0
                  /\ FALSE
                  /\ UNCHANGED readyVars

(* A goroutine left behind sends into the buffer of done and ends. *)
LeftoverEnds == /\ leftover > 0
                /\ Usable \/ conn = "closed"
                /\ leftover' = leftover - 1
                /\ UNCHANGED <<depVars, probeVars, inspect, faults>>

ProbeStep(p) == PingPostgres(p) \/ PingRabbitMQ(p) \/ InspectReturns(p) \/ Select(p)
-----------------------------------------------------------------------------
(* The dependencies, and a client that hangs up: its context is done.       *)
PostgresFails == /\ pg' \in {"stalled", "down"} \ {pg}
                 /\ Fault
                 /\ UNCHANGED <<broker, conn, silence, probeVars, inspect, leftover>>

PostgresRecovers == /\ pg # "up"
                    /\ pg' = "up"
                    /\ UNCHANGED <<broker, conn, silence, probeVars, inspect, leftover, faults>>

BrokerStalls == /\ broker = "up"
                /\ broker' = "stalled"
                /\ Fault
                /\ UNCHANGED <<pg, conn, silence, probeVars, inspect, leftover>>

BrokerDies == /\ broker # "down"
              /\ broker' = "down"
              /\ conn' = "closed"
              /\ silence' = 0
              /\ Fault
              /\ UNCHANGED <<pg, probeVars, inspect, leftover>>

(* Nothing in the process dials again: a closed connection stays closed.    *)
BrokerRecovers == /\ broker # "up"
                  /\ broker' = "up"
                  /\ silence' = 0
                  /\ UNCHANGED <<pg, conn, probeVars, inspect, leftover, faults>>

HeartbeatMissed == /\ conn = "open"
                   /\ silence = Heartbeat
                   /\ conn' = "closed"
                   /\ silence' = 0
                   /\ UNCHANGED <<pg, broker, probeVars, inspect, leftover, faults>>

ClientLeaves(p) == /\ ppc[p] # "idle"
                   /\ spent' = [spent EXCEPT ![p] = ReadyTimeout]
                   /\ Fault
                   /\ UNCHANGED <<depVars, ppc, since, failed, readyCode, inspect, leftover>>

(* What needs less than a tick has been done before the next one: only a    *)
(* stalled dependency makes a probe wait, and not beyond its timeout.       *)
Blocked(p) == /\ \/ ppc[p] = "postgres" /\ pg = "stalled"
                 \/ ppc[p] = "select" /\ inspect[p] = "waiting" /\ ~Usable /\ conn = "open"
              /\ ~Expired(p)

ReadyTick == /\ \A p \in Probers : ppc[p] # "idle" => Blocked(p)
             /\ leftover > 0 => ~Usable /\ conn = "open"
             /\ silence < Heartbeat
             /\ spent' = [p \in Probers |-> IF ppc[p] = "idle" THEN spent[p] ELSE spent[p] + 1]
             /\ silence' = IF broker = "stalled" /\ conn = "open" THEN silence + 1 ELSE 0
             /\ UNCHANGED <<pg, broker, conn, ppc, since, failed, readyCode, inspect,
                             leftover, faults>>

ReadyNext == \/ \E p \in Probers : StartProbe(p) \/ ProbeStep(p) \/ ClientLeaves(p)
             \/ LeftoverEnds \/ HeartbeatMissed \/ ReadyTick
             \/ PostgresFails \/ PostgresRecovers
             \/ BrokerStalls \/ BrokerDies \/ BrokerRecovers

(* Every step of a probe that is not a wait is taken and time goes by.      *)
ReadyFairness ==
    /\ \A p \in Probers : /\ WF_readyVars(PingPostgres(p))
                          /\ WF_readyVars(PingRabbitMQ(p))
                          /\ WF_readyVars(InspectReturns(p))
                          /\ WF_readyVars(Select(p))
    /\ WF_readyVars(LeftoverEnds)
    /\ WF_readyVars(HeartbeatMissed)
    /\ WF_readyVars(ReadyTick)

ReadySpec == ReadyInit /\ [][ReadyNext]_readyVars /\ ReadyFairness
-----------------------------------------------------------------------------
(* The two pings together take no longer than ReadyTimeout, although either *)
(* alone may use that much up (ready.go CheckReady).                        *)
AnsweredInTime == \A p \in Probers : spent[p] <= ReadyTimeout

(* What a ping has at most. *)
Shorter == IF PingTimeout < ReadyTimeout THEN PingTimeout ELSE ReadyTimeout

(* A broker that stops answering costs a bounded number of goroutines: each *)
(* prober leaves one behind whenever a ping has run out of time, until the  *)
(* heartbeat closes the connection and ends them all (queue.go Ping); and   *)
(* so for each fault.                                                       *)
FewLeftBehind ==
    leftover <= faults * Cardinality(Probers) * (Heartbeat \div Shorter + 1)

(* Every probe is answered, whatever its dependencies do.                   *)
EveryProbeEnds == \A p \in Probers : ppc[p] # "idle" ~> ppc[p] = "idle"

(* No goroutine of a ping stays behind for good, even if the broker never   *)
(* answers again.                                                           *)
LeftoversEnd == []<>(leftover = 0)
=============================================================================
