---------------------------------- MODULE Topic ----------------------------------
(*****************************************************************************)
(* The Pub/Sub topic the cloud side signals on (contracts/signals.odcs.yaml, *)
(* the two copies of publishing.py), and what may fail around it.  The topic *)
(* is outside the repository: it keeps a message until one delivery of it    *)
(* was answered with 200, so a message is delivered at least once and in any *)
(* order.                                                                     *)
(*****************************************************************************)
EXTENDS Naturals

CONSTANT MaxFaults      \* bound: calls that fail, instances killed, objects lost

VARIABLES
    topic,              \* messages published and not acknowledged
    faults              \* how many faults there have been

topicVars == <<topic, faults>>

TopicInit == topic = {} /\ faults = 0

Fault == faults < MaxFaults /\ faults' = faults + 1

\* publish(...).result(): the message is on the topic.
Published(m) == topic' = topic \union {m} /\ UNCHANGED faults

\* It raises, and the message is on the topic all the same or not.
PublishRaises(m) == Fault /\ topic' \in {topic, topic \union {m}}
==================================================================================
