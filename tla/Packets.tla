------------------------------ MODULE Packets ------------------------------
(***************************************************************************)
(* The MQTT packets of the QoS handshakes and the TCP connection between   *)
(* the broker and one client (lib/send_mosq.c, lib/send_publish.c,         *)
(* lib/packet_mosq.c).  A connection loses packets only by closing, and    *)
(* then it loses all of them.                                              *)
(*                                                                         *)
(* Towards a subscriber (Delivery) the handshake of a message is           *)
(* stop-and-wait, so a connection never carries two equal packets and each *)
(* direction is a set.  Taking packets of different messages in any order  *)
(* only lets the client acknowledge out of order, which the broker must    *)
(* tolerate.  From a publisher (Ingress) the broker may repeat a PUBREC,   *)
(* and each direction is a queue.                                          *)
(*                                                                         *)
(* "pub" is the number of the publication a packet is about.  In a PUBLISH *)
(* it stands for topic and payload; in the acknowledgements it is a ghost  *)
(* that no handler reads.                                                  *)
(***************************************************************************)
EXTENDS Naturals, Sequences

VARIABLES toClient, toBroker

channel == <<toClient, toBroker>>

\* PUBREC_REFUSED is a PUBREC with a reason code >= 0x80.
PacketTypes ==
    {"PUBLISH", "PUBACK", "PUBREC", "PUBREC_REFUSED", "PUBREL", "PUBCOMP"}

Packet(pubs) == [type : PacketTypes, mid : Nat, pub : pubs, qos : 0..2]

\* send__publish, and send__pubrel for a message whose PUBREL is retried.
PublishPacket(m) ==
    [type |-> "PUBLISH", mid |-> m.mid, pub |-> m.pub, qos |-> m.qos]
PubrelPacket(m) ==
    [type |-> "PUBREL", mid |-> m.mid, pub |-> m.pub, qos |-> m.qos]

\* send__command_with_mid: the answer repeats the mid of the packet it answers.
Answer(pkt, type) == [pkt EXCEPT !.type = type]

\* Both ends lose what was still on the wire when the socket closes.
ChannelClosed == toClient' = {} /\ toBroker' = {}

ChannelInit == toClient = {} /\ toBroker = {}

\* The same for queues.
QueuesClosed == toClient' = <<>> /\ toBroker' = <<>>

QueuesInit == toClient = <<>> /\ toBroker = <<>>
============================================================================
