------------------------------- MODULE Broker -------------------------------
(***************************************************************************)
(* internal/queue and the RabbitMQ queue behind it: a bag of messages, each*)
(* naming a variant, that are ready for delivery, and the one message a    *)
(* worker holds unacknowledged (Qos(1), manual acknowledgement).  A        *)
(* requeued message may be delivered to any worker, in any order.          *)
(***************************************************************************)
EXTENDS Store

CONSTANTS Workers,          \* worker processes
          None              \* no variant

ASSUME BrokerAssumption == None \notin Variants

VARIABLES queue,            \* how many ready messages name the variant
          unacked           \* the message delivered to the worker, or None

brokerVars == <<queue, unacked>>

BrokerTypeOK == /\ queue \in [Variants -> Nat]
                /\ unacked \in [Workers -> Variants \cup {None}]

(* Publish without publisher confirms: whatever it returns, the message may *)
(* have reached the queue or not.                                           *)
Publish(v) == /\ \/ queue' = [queue EXCEPT ![v] = @ + 1]
                 \/ UNCHANGED queue
              /\ UNCHANGED unacked

Deliver(w, v) == /\ unacked[w] = None
                 /\ queue[v] > 0
                 /\ queue' = [queue EXCEPT ![v] = @ - 1]
                 /\ unacked' = [unacked EXCEPT ![w] = v]

(* d.Ack(false); its error is dropped.  After the connection was lost there *)
(* is nothing left to acknowledge and the call has no effect.               *)
Ack(w) == /\ unacked' = [unacked EXCEPT ![w] = None]
          /\ UNCHANGED queue

(* d.Nack(false, true), and what the broker does with the unacknowledged    *)
(* message of a connection that closes.                                     *)
Requeue(w) == /\ queue' = [v \in Variants |->
                              IF v = unacked[w] THEN queue[v] + 1 ELSE queue[v]]
              /\ unacked' = [unacked EXCEPT ![w] = None]
=============================================================================
