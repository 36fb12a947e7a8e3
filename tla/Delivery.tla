------------------------------ MODULE Delivery -----------------------------
(***************************************************************************)
(* The broker's outgoing messages of one session, the connection and the   *)
(* receiving client library, composed: delivery of QoS 0, 1 and 2 messages *)
(* to a subscriber whose connection comes and goes.                        *)
(***************************************************************************)
EXTENDS OutgoingMessages, ClientReceiver

vars == <<outVars, clientVars, channel>>

Init == OutInit /\ ChannelInit /\ ClientInit(Pubs)

\* A socket that never blocks has neither a backlog nor a packet half written.
Blocked == IF SocketBlocks THEN BOOLEAN ELSE {FALSE}

BrokerPublish ==
    \E qos \in QosLevels, full \in Blocked :
        Publish(qos, full) /\ UNCHANGED clientVars

BrokerSubscribe ==
    \E qos \in QosLevels, full \in Blocked, blocked \in Blocked :
        Subscribe(qos, full, blocked) /\ UNCHANGED clientVars

BrokerSubscribeOnly == SubscribeOnly /\ UNCHANGED clientVars

BrokerExpire == \E p \in Pubs : Expire(p) /\ UNCHANGED clientVars

BrokerDisconnect == Disconnect /\ UNCHANGED clientVars

BrokerConnect ==
    \E max \in Maxima, denied \in SUBSET Revocable :
        Connect(max, denied) /\ UNCHANGED clientVars

BrokerTakeover ==
    \E max \in Maxima, denied \in SUBSET Revocable :
        Takeover(max, denied) /\ UNCHANGED clientVars

BrokerConnectFails ==
    \E max \in Maxima, denied \in SUBSET Revocable, n \in 0..MaxPublish :
        ConnectFails(max, denied, n) /\ UNCHANGED clientVars

BrokerConnackFails ==
    \E max \in Maxima, denied \in SUBSET Revocable :
        ConnackFails(max, denied) /\ UNCHANGED clientVars

BrokerAck(p) ==
    \E pkt \in toBroker : pkt.pub = p /\ HandleAck(pkt) /\ UNCHANGED clientVars

ClientReceive(p) ==
    \E pkt \in toClient : pkt.pub = p /\ ReceivePacket(pkt) /\ UNCHANGED outVars

\* The client finds the connection broken when it answers a PUBREL, and closes
\* it.  What the broker does before it notices is a step before this one.
ClientAnswerFails(p) ==
    \E pkt \in toClient : pkt.pub = p /\ ReceivePubrelFails(pkt) /\ Disconnect

Next ==
    \/ BrokerPublish \/ BrokerSubscribe \/ BrokerSubscribeOnly \/ BrokerExpire
    \/ BrokerDisconnect \/ BrokerConnect \/ BrokerTakeover
    \/ BrokerConnectFails \/ BrokerConnackFails
    \/ \E p \in Pubs : BrokerAck(p) \/ ClientReceive(p) \/ ClientAnswerFails(p)

Spec == Init /\ [][Next]_vars

\* The client library reconnects (mosquitto_loop_forever), and both ends keep
\* reading their sockets.  Nothing obliges anyone to publish or to disconnect.
Fairness ==
    /\ WF_vars(BrokerConnect)
    /\ WF_vars(\E p \in Pubs : BrokerAck(p))
    /\ WF_vars(\E p \in Pubs : ClientReceive(p))

FairSpec == Spec /\ Fairness

----------------------------------------------------------------------------
(* Properties.                                                             *)

\* The variables have their types; in particular inflight_quota (database.c,
\* util_mosq.c) never goes below zero or above inflight_maximum.
TypeOK ==
    /\ sock \in BOOLEAN
    /\ msgs_out \in MsgData /\ msgs_out.quota <= msgs_out.maximum
    /\ last_mid \in 0..MidLimit
    /\ published \in 0..MaxPublish
    /\ expired \subseteq Pubs /\ drops \in Nat
    /\ accepted \subseteq Pubs /\ discarded \subseteq Pubs /\ released \subseteq Pubs
    /\ msgs_in \subseteq InMsg(Pubs) /\ stored \in Nat
    /\ delivered \in [Pubs -> Nat] /\ givenUp \subseteq Pubs
    /\ toClient \subseteq Packet(Pubs) /\ toBroker \subseteq Packet(Pubs)

\* QoS 1 and 2 messages are not lost (db__message_insert to
\* db__message_delete_outgoing): a message the broker accepted for the session
\* stays in its lists until the application of the client has got it, unless
\* it expired, was too large, may no longer be read, was refused, or was
\* removed by the client because its PUBCOMP could not be written.
NoLoss ==
    \A p \in accepted :
        p \in Held \/ delivered[p] > 0 \/ p \in discarded \cup givenUp

\* The same without the last two exceptions.  It holds of a threaded client that
\* refuses nothing (DeliveryProofs).
AlwaysGetsThrough ==
    \A p \in accepted : p \in Held \/ delivered[p] > 0 \/ p \in discarded

\* QoS 2 messages are delivered exactly once (man/mqtt.7.xml, line 124): none is
\* lost, and the callback is called once, although the client keeps a second
\* copy of a PUBLISH that is repeated (lib/handle_publish.c) and answers a PUBREL
\* that it cannot confirm by removing the message (lib/handle_pubrel.c).
QoS2ExactlyOnce ==
    AlwaysGetsThrough /\ \A p \in accepted : delivered[p] <= 1

\* QoS 2 handshake (db__message_reconnect_reset_outgoing,
\* db__message_update_outgoing): once the broker has processed the PUBREC of a
\* message it never sends its PUBLISH again, whatever reconnections follow.
NoRepublish ==
    [][\A pkt \in toClient' \ toClient :
            pkt.type = "PUBLISH" => pkt.pub \notin released]_vars

\* Whatever the window and however it changes at a reconnection, a QoS 1 or 2
\* message is never sent while an older one is still queued
\* (db__message_insert, db__message_delete_outgoing, db__message_write_queued_out
\* and db__message_reconnect_reset_outgoing share out the places of the window
\* and take from the head of queued).
InOrder ==
    [][\A pkt \in toClient' \ toClient :
          pkt.type = "PUBLISH" /\ pkt.qos > 0 =>
              \A m \in Qos12(msgs_out'.queued) : m.pub >= pkt.pub]_vars

\* msg_count12 counts the QoS 1 and 2 messages of both lists; the queue limit
\* relies on it (db__ready_for_queue).
CountExact ==
    msgs_out.count12 = Cardinality(Qos12(msgs_out.inflight))
                       + Cardinality(Qos12(msgs_out.queued))

\* Every accepted message is eventually delivered, or given up at one end, and
\* leaves the broker's lists (the retries of database.c against the answers of
\* lib/handle_publish.c and lib/handle_pubrel.c).
EventuallyDelivered ==
    \A p \in Pubs :
        p \in accepted ~> /\ p \notin Held
                          /\ delivered[p] > 0 \/ p \in discarded \cup givenUp

\* The composition implements the abstract store-and-forward service.
Service == INSTANCE StoreAndForward WITH
    taken <- accepted,
    kept <- Held \cap accepted,
    received <- {p \in accepted : delivered[p] > 0},
    dropped <- (discarded \cup givenUp) \cap accepted

\* Lists, message ids, retries and acknowledgements together (database.c with
\* lib/handle_publish.c and lib/handle_pubrel.c) do no more than the service
\* promises: a message leaves the broker only after the application has it, or
\* after one of the two ends has given it up, and nothing is accepted twice.
ImplementsService == Service!SFSpec

----------------------------------------------------------------------------
(* The inductive invariants behind NoLoss and NoRepublish.                 *)

Messages(D) == D.inflight \cup D.queued
Wire == toClient \cup toBroker

\* The client has the message of this mid in its list, or is done with it.
AtClient(x) ==
    \/ delivered[x.pub] > 0 \/ x.pub \in givenUp
    \/ \E c \in msgs_in : c.mid = x.mid /\ c.pub = x.pub

\* A PUBREC has been processed for m and its PUBCOMP has not.
IsLate(m) == m.state \in {"wait_for_pubcomp", "resend_pubrel"}

\* Everything that carries the message id of a publication: messages in the
\* lists, packets on the wire, messages the client has stored.
Carriers ==
    Qos12(Messages(msgs_out)) \cup {k \in Wire : k.qos > 0} \cup msgs_in

\* As long as last_mid has not wrapped round, a message id stands for one
\* publication wherever it occurs.
MidsAgree ==
    /\ last_mid <= published
    /\ \A x \in Carriers :
          /\ x.mid <= last_mid
          /\ \A y \in Carriers : x.mid = y.mid => x.pub = y.pub

\* What each step of a handshake says about the other end.
StepsJustified ==
    /\ \A m \in Messages(msgs_out) : IsLate(m) => m.qos > 0 /\ AtClient(m)
    /\ \A k \in toClient :
          /\ k.type \in {"PUBLISH", "PUBREL"}
          /\ k.type = "PUBREL" => k.qos > 0 /\ AtClient(k)
    /\ \A k \in toBroker :
          /\ k.qos > 0
          /\ k.type = "PUBACK" => delivered[k.pub] > 0
          /\ k.type = "PUBCOMP" => delivered[k.pub] > 0 \/ k.pub \in givenUp
          /\ k.type = "PUBREC" => AtClient(k)
          /\ k.type = "PUBREC_REFUSED" => k.pub \in givenUp

AcceptedHasQos ==
    /\ \A p \in accepted : p <= published
    /\ \A m \in Messages(msgs_out) :
          m.pub <= published /\ (m.pub \in accepted => m.qos > 0)

DeliveryInv == MidsAgree /\ StepsJustified /\ AcceptedHasQos /\ NoLoss

\* A message is in one list, once, and after its PUBREC it only waits for the
\* PUBCOMP.
ReleasedWaits ==
    /\ \A p \in released : p <= published
    /\ msgs_out.inflight \cap msgs_out.queued = {}
    /\ \A m, n \in Messages(msgs_out) : m.pub = n.pub => m = n
    /\ \A m \in msgs_out.inflight : m.pub \in released =>
          m.qos = 2 /\ m.state = "wait_for_pubcomp"
    /\ \A m \in msgs_out.queued : m.pub \notin released
============================================================================
