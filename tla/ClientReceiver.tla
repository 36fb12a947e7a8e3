--------------------------- MODULE ClientReceiver --------------------------
(***************************************************************************)
(* The receiving half of the client library (lib/): what it does with the  *)
(* PUBLISH and PUBREL packets of the broker, the list msgs_in of QoS 2     *)
(* messages that wait for their PUBREL, and the calls of the on_message    *)
(* callback.  The protocol is MQTT 3.1.1, so the receive quota of MQTT 5   *)
(* plays no role.                                                          *)
(***************************************************************************)
EXTENDS Integers, FiniteSets, Packets

CONSTANTS
    ClientRefuses,  \* may the client answer a QoS 2 PUBLISH with an error code?
    Threaded        \* mosq->threaded # mosq_ts_none

ASSUME ClientAssumption == ClientRefuses \in BOOLEAN /\ Threaded \in BOOLEAN

VARIABLES
    msgs_in,    \* nodes of mosq->msgs_in.inflight, in the order of pos
    stored,     \* messages put in msgs_in so far, gives pos
    delivered,  \* history: on_message callbacks per publication
    givenUp     \* history: publications the client refused, or removed from
                \* msgs_in without the callback

clientVars == <<msgs_in, stored, delivered, givenUp>>

\* struct mosquitto_message_all in state mosq_ms_wait_for_pubrel.
InMsg(pubs) == [mid : Nat, pub : pubs, pos : Nat]

\* The on_message callback.
Deliver(p) == delivered' = [delivered EXCEPT ![p] = @ + 1]

\* handle__publish, case 0.
ReceiveQos0(pkt) ==
    /\ pkt.qos = 0
    /\ Deliver(pkt.pub)
    /\ UNCHANGED <<msgs_in, stored, givenUp, toBroker>>

\* handle__publish, case 1: send__puback, then the callback.
ReceiveQos1(pkt) ==
    /\ pkt.qos = 1
    /\ toBroker' = toBroker \cup {Answer(pkt, "PUBACK")}
    /\ Deliver(pkt.pub)
    /\ UNCHANGED <<msgs_in, stored, givenUp>>

\* Fault: the message is acknowledged and not queued.
ReceiveQos2Unqueued(pkt) ==
    /\ pkt.qos = 2
    /\ toBroker' = toBroker \cup {Answer(pkt, "PUBREC")}
    /\ UNCHANGED <<msgs_in, stored, delivered, givenUp>>

\* handle__publish, case 2: send__pubrec and message__queue.  A message with
\* the same mid that is already in the list is not looked for.
ReceiveQos2(pkt) ==
    /\ pkt.qos = 2
    /\ toBroker' = toBroker \cup {Answer(pkt, "PUBREC")}
    /\ msgs_in' = msgs_in \cup
            {[mid |-> pkt.mid, pub |-> pkt.pub, pos |-> stored + 1]}
    /\ stored' = stored + 1
    /\ UNCHANGED <<delivered, givenUp>>

\* A client (not this library) that refuses a QoS 2 message.
RefuseQos2(pkt) ==
    /\ ClientRefuses /\ pkt.qos = 2
    /\ toBroker' = toBroker \cup {Answer(pkt, "PUBREC_REFUSED")}
    /\ givenUp' = givenUp \cup {pkt.pub}
    /\ UNCHANGED <<msgs_in, stored, delivered>>

ReceivePublish(pkt) ==
    /\ pkt.type = "PUBLISH"
    /\ toClient' = toClient \ {pkt}
    /\ ReceiveQos0(pkt) \/ ReceiveQos1(pkt) \/ ReceiveQos2(pkt) \/ RefuseQos2(pkt)

\* message__remove: the first message with this mid.
IsFirstIn(mid, c) ==
    /\ c \in msgs_in /\ c.mid = mid
    /\ \A d \in msgs_in : d.mid = mid => c.pos <= d.pos

\* handle__pubrel: send__pubcomp, and the callback if a message was removed.
ReceivePubrel(pkt) ==
    /\ pkt.type = "PUBREL"
    /\ toClient' = toClient \ {pkt}
    /\ toBroker' = toBroker \cup {Answer(pkt, "PUBCOMP")}
    /\ \/ \E c \in msgs_in : /\ IsFirstIn(pkt.mid, c)
                             /\ msgs_in' = msgs_in \ {c}
                             /\ Deliver(c.pub)
       \/ /\ \A c \in msgs_in : c.mid # pkt.mid
          /\ UNCHANGED <<msgs_in, delivered>>
    /\ UNCHANGED <<stored, givenUp>>

\* handle__pubrel when send__pubcomp fails: the message is removed all the same
\* and the handler returns before the callback.  packet__queue writes, and so
\* fails, only in a client without a thread; the connection is then closed.
ReceivePubrelFails(pkt) ==
    /\ ~Threaded /\ pkt.type = "PUBREL"
    /\ \E c \in msgs_in : /\ IsFirstIn(pkt.mid, c)
                          /\ msgs_in' = msgs_in \ {c}
                          /\ givenUp' = givenUp \cup {c.pub}
    /\ UNCHANGED <<stored, delivered>>

ReceivePacket(pkt) == ReceivePublish(pkt) \/ ReceivePubrel(pkt)

ClientInit(pubs) ==
    /\ msgs_in = {} /\ stored = 0
    /\ delivered = [p \in pubs |-> 0] /\ givenUp = {}
============================================================================
