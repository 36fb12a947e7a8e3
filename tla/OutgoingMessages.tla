------------------------- MODULE OutgoingMessages --------------------------
(***************************************************************************)
(* The outgoing messages of one persistent client session in the broker:   *)
(* context->msgs_out, kept by src/database.c and driven by src/subs.c      *)
(* (publications), src/retain.c with src/handle_subscribe.c (retained      *)
(* messages), lib/handle_pubackcomp.c and lib/handle_pubrec.c              *)
(* (acknowledgements) and src/handle_connect.c (session resumption).       *)
(*                                                                         *)
(* The configuration is the default one for what is left out: no byte      *)
(* limits (max_inflight_bytes = max_queued_bytes = 0), listener max_qos 2. *)
(***************************************************************************)
EXTENDS Integers, FiniteSets, Packets, MessageLists

CONSTANTS
    MaxPublish,     \* bound: publications routed to this client
    MaxDrops,       \* bound: connections lost
    QosLevels,      \* qos of a publication, already min'ed with the subscription
    Maxima,         \* values of inflight_maximum a CONNECT may bring; 0 = none
    MaxQueued,      \* max_queued_messages; 0 = none
    QueueQos0,      \* queue_qos0_messages
    MidLimit,       \* largest message id, 65535 in the code (uint16_t)
    Expiring,       \* publications with a message expiry interval
    Oversize,       \* publications larger than the client's maximum packet size
    Revocable,      \* publications the client may lose read access to
    RetainedSent,   \* does a SUBSCRIBE of the client find retained messages?
    SocketBlocks,   \* may a socket write stop with EAGAIN?
    SendFailures    \* may a socket write fail while a session is resumed?

ASSUME OutAssumption ==
    /\ MaxPublish \in Nat /\ MaxDrops \in Nat /\ MaxQueued \in Nat
    /\ QosLevels \subseteq 0..2
    /\ Maxima \subseteq Nat
    /\ MidLimit \in Nat \ {0}
    /\ QueueQos0 \in BOOLEAN /\ RetainedSent \in BOOLEAN
    /\ SocketBlocks \in BOOLEAN /\ SendFailures \in BOOLEAN

VARIABLES
    sock,       \* TRUE: the client is connected and its context is mosq_cs_active
    msgs_out,   \* context->msgs_out
    last_mid,   \* context->last_mid
    published,  \* publications so far, numbered 1, 2, ...
    expired,    \* publications whose message_expiry_time has passed
    drops,      \* connections lost so far
    accepted,   \* history: QoS > 0 publications put in a list
    discarded,  \* history: of these, the ones dropped for a documented reason
    released    \* history: publications whose PUBREC the broker has processed

session == <<sock, msgs_out, last_mid, published, expired, drops>>
history == <<accepted, discarded, released>>
outVars == <<session, history>>

Pubs == 1..MaxPublish

\* enum mosquitto_msg_state, the values outgoing messages take.
MsgStates ==
    {"publish_qos0", "publish_qos1", "publish_qos2", "wait_for_puback",
     "wait_for_pubrec", "wait_for_pubcomp", "resend_pubrel", "queued"}

\* struct mosquitto_client_msg.
Msg == [pub : Pubs, mid : 0..MidLimit, qos : 0..2, state : MsgStates, pos : Nat]

\* struct mosquitto_msg_data.
MsgData ==
    [inflight : SUBSET Msg, queued : SUBSET Msg, quota : Nat, maximum : Nat,
     count12 : Int, appended : Nat]

\* context__init: quota and maximum start at max_inflight_messages.
EmptyMsgData(max) ==
    [inflight |-> {}, queued |-> {}, quota |-> max, maximum |-> max,
     count12 |-> 0, appended |-> 0]

----------------------------------------------------------------------------
(* Lists.                                                                  *)

\* Fault: the search takes the first node, whatever its message id.
MatchesHead(L, mid, m) == m \in L /\ \A x \in L : m.pos <= x.pos

\* The first node of L with this message id, as a DL_FOREACH finds it.
IsFirstMatch(L, mid, m) ==
    /\ m \in L /\ m.mid = mid
    /\ \A x \in L : x.mid = mid => m.pos <= x.pos

IsHead(L, m) == \A x \in L : m.pos <= x.pos

Qos12(L) == {m \in L : m.qos > 0}

\* Publications the broker still holds for the client.
Held == PubsOf(msgs_out.inflight) \cup PubsOf(msgs_out.queued)

----------------------------------------------------------------------------
(* Limits and quotas.                                                      *)

\* db__ready_for_flight for mosq_md_out.  full: out_packet_count has reached
\* max_queued_messages.
ReadyForFlight(D, qos, full) ==
    \/ D.maximum = 0
    \/ qos = 0 /\ (MaxQueued = 0 \/ ~full)
    \/ qos > 0 /\ D.quota > 0

\* db__ready_for_queue.
ReadyForQueue(D, qos) ==
    \/ MaxQueued = 0
    \/ /\ qos > 0 \/ QueueQos0
       /\ D.count12 - (IF sock THEN D.maximum ELSE 0) < MaxQueued

\* Fault: last_mid is not written back.
NextMidStuck == 1

\* mosquitto__mid_generate: last_mid is a uint16_t, and 0 is skipped.
NextMid == IF last_mid = MidLimit THEN 1 ELSE last_mid + 1

PublishState(qos) ==
    IF qos = 0 THEN "publish_qos0"
    ELSE IF qos = 1 THEN "publish_qos1" ELSE "publish_qos2"

IsPublish(m) == m.state \in {"publish_qos0", "publish_qos1", "publish_qos2"}

----------------------------------------------------------------------------
(* Moving messages from queued to inflight.                                *)

\* The messages of R in L get the publish state of their qos.
Mark(L, R) ==
    {IF m \in R THEN [m EXCEPT !.state = PublishState(m.qos)] ELSE m : m \in L}

\* The loops that mark and dequeue the first n messages.
Promote(D, n) ==
    LET Q == Mark(D.queued, FirstN(D.queued, n))
    IN  Dequeue([D EXCEPT !.queued = Q], FirstN(Q, n))

\* db__message_write_queued_out: dequeue while there is quota.
WriteQueuedOut(D) ==
    Promote(D, IF D.maximum = 0 THEN Cardinality(D.queued) ELSE D.quota)

----------------------------------------------------------------------------
(* Writing inflight messages to the socket.                                *)

\* db__message_write_inflight_out_single removes the message: it has expired,
\* it does not fit the client's maximum packet size, or it is QoS 0.
IsGone(m) ==
    \/ m.pub \in expired
    \/ IsPublish(m) /\ (m.qos = 0 \/ m.pub \in Oversize)

Advance(m) ==
    [m EXCEPT !.state =
        IF @ = "publish_qos1" THEN "wait_for_puback"
        ELSE IF @ = "publish_qos2" THEN "wait_for_pubrec"
        ELSE IF @ = "resend_pubrel" THEN "wait_for_pubcomp" ELSE @]

\* db__message_write_inflight_out_single for every message of W.  Only an
\* expired message gives its place in the quota back.
Write(D, W) ==
    LET gone == {m \in W : IsGone(m)}
        refund == {m \in Qos12(W) : m.pub \in expired}
    IN  [D EXCEPT
            !.inflight = (@ \ W) \cup {Advance(m) : m \in W \ gone},
            !.quota = Raise(D, Cardinality(refund)),
            !.count12 = @ - Cardinality(Qos12(gone))]

\* The packets Write puts on the socket.
Sent(W) ==
    {PublishPacket(m) : m \in {x \in W : /\ IsPublish(x)
                                        /\ x.pub \notin expired
                                        /\ x.pub \notin Oversize}}
    \cup
    {PubrelPacket(m) : m \in {x \in W : /\ x.state = "resend_pubrel"
                                       /\ x.pub \notin expired}}

\* The publications Write gives up.
Shed(W) == PubsOf({m \in Qos12(W) : IsGone(m)})

\* db__message_write_inflight_out_latest: from the end of the list back to the
\* first message that is not in a publish state; the head is always tried.
Latest(D) ==
    {m \in D.inflight :
        /\ IsPublish(m) \/ IsHead(D.inflight, m)
        /\ \A x \in D.inflight : x.pos > m.pos => IsPublish(x)}

\* A handler that ends by writing the latest messages of D.
FlushLatest(D) ==
    /\ toClient' = toClient \cup Sent(Latest(D))
    /\ discarded' = discarded \cup Shed(Latest(D))

----------------------------------------------------------------------------
(* Publications.                                                           *)

\* db__message_insert up to the write: the new message goes to inflight or to
\* queued, or it is dropped and the lists stay as they are.
Insert(D, qos, full) ==
    LET flies == sock /\ ReadyForFlight(D, qos, full)
        waits == /\ ~flies /\ ReadyForQueue(D, qos)
                 /\ qos > 0 \/ (~sock /\ QueueQos0)
        m == [pub |-> published + 1, mid |-> IF qos > 0 THEN NextMid ELSE 0,
              qos |-> qos, pos |-> D.appended + 1,
              state |-> IF flies THEN PublishState(qos) ELSE "queued"]
    IN  IF ~flies /\ ~waits THEN D
        ELSE [D EXCEPT
                !.inflight = IF flies THEN @ \cup {m} ELSE @,
                !.queued = IF waits THEN @ \cup {m} ELSE @,
                !.count12 = IF qos > 0 THEN @ + 1 ELSE @,
                !.quota = IF qos > 0 THEN Lower(@, 1) ELSE @,
                !.appended = @ + 1]

\* subs__send and retain__process: choose the mid and insert.
Arrive(qos, D) ==
    /\ published < MaxPublish
    /\ published' = published + 1
    /\ last_mid' = IF qos > 0 THEN NextMid ELSE last_mid
    /\ accepted' = IF qos > 0 /\ D # msgs_out
                   THEN accepted \cup {published + 1} ELSE accepted
    /\ UNCHANGED <<sock, expired, drops, released, toBroker>>

\* A publication matches the client's subscription: subs__send.
Publish(qos, full) ==
    LET D == Insert(msgs_out, qos, full)
    IN  /\ Arrive(qos, D)
        /\ IF sock /\ D # msgs_out
           THEN /\ msgs_out' = WriteQueuedOut(Write(D, Latest(D)))
                /\ FlushLatest(D)
           ELSE msgs_out' = D /\ UNCHANGED <<toClient, discarded>>

\* handle__subscribe with a retained message (retain__queue, update = false).
\* blocked: current_out_packet is not yet written, so nothing is sent.
Subscribe(qos, full, blocked) ==
    LET D == Insert(msgs_out, qos, full)
        E == WriteQueuedOut(D)
    IN  /\ sock /\ RetainedSent
        /\ Arrive(qos, D)
        /\ IF blocked
           THEN msgs_out' = D /\ UNCHANGED <<toClient, discarded>>
           ELSE msgs_out' = Write(E, Latest(E)) /\ FlushLatest(E)

\* handle__subscribe without a retained message that matches.
SubscribeOnly ==
    LET E == WriteQueuedOut(msgs_out)
    IN  /\ sock
        /\ msgs_out' = Write(E, Latest(E)) /\ FlushLatest(E)
        /\ UNCHANGED <<sock, last_mid, published, expired, drops, accepted, released,
                       toBroker>>

\* The wall clock passes message_expiry_time.
Expire(p) ==
    /\ p \in Expiring /\ p <= published /\ p \notin expired
    /\ expired' = expired \cup {p}
    /\ UNCHANGED <<sock, msgs_out, last_mid, published, drops, history, channel>>

----------------------------------------------------------------------------
(* Losing and resuming the connection.                                     *)

\* do_disconnect: the session stays, what was on the wire is lost.
CloseSocket ==
    /\ sock' = FALSE
    /\ drops' = drops + 1
    /\ ChannelClosed

Disconnect ==
    /\ sock /\ drops < MaxDrops
    /\ CloseSocket
    /\ UNCHANGED <<msgs_out, last_mid, published, expired, history>>

\* Fault: a QoS 2 message is always published again.
ResetStateForgets(m) == [m EXCEPT !.state = PublishState(m.qos)]

\* db__message_reconnect_reset_outgoing, the loop over inflight.
ResetState(m) ==
    [m EXCEPT !.state =
        IF m.qos = 2 /\ @ = "wait_for_pubcomp" THEN "resend_pubrel"
        ELSE PublishState(m.qos)]

\* db__message_reconnect_reset_outgoing.  The loop over queued marks each
\* message that db__ready_for_flight lets through (the first "quota" messages
\* and every QoS 0 message) and for each one dequeues the HEAD of the list.
ReconnectReset(D, max) ==
    LET quota == Lower(max, Cardinality(Qos12(D.inflight)))
        ready == IF max = 0 THEN D.queued
                 ELSE FirstN(D.queued, quota) \cup {m \in D.queued : m.qos = 0}
        Q == Mark(D.queued, ready)
    IN  Dequeue([D EXCEPT
                    !.inflight = {ResetState(m) : m \in @},
                    !.queued = Q,
                    !.quota = quota, !.maximum = max,
                    !.count12 = Cardinality(Qos12(D.inflight))
                                + Cardinality(Qos12(D.queued))],
                FirstN(Q, Cardinality(ready)))

\* connection_check_acl: messages the client may no longer read are deleted;
\* the quota and the counters are not adjusted.
CheckAcl(D, denied) ==
    [D EXCEPT !.inflight = {m \in @ : m.pub \notin denied},
              !.queued = {m \in @ : m.pub \notin denied}]

Restored(max, denied) == CheckAcl(ReconnectReset(msgs_out, max), denied)

Resumed(max, denied) == WriteQueuedOut(Restored(max, denied))

\* connect__on_authorised for the client's id: the new context takes the
\* session over, an older connection is closed, everything inflight is sent.
Resume(max, denied) ==
    LET D == Resumed(max, denied)
    IN  /\ sock' = TRUE
        /\ msgs_out' = Write(D, D.inflight)
        /\ toClient' = Sent(D.inflight) /\ toBroker' = {}
        /\ discarded' = discarded \cup Shed(D.inflight) \cup (Held \cap denied)
        /\ UNCHANGED <<last_mid, published, expired, accepted, released>>

\* The bound on drops also ends the loop of protocol errors and reconnections
\* that two messages with one mid can fall into.
Connect(max, denied) ==
    ~sock /\ drops <= MaxDrops /\ Resume(max, denied) /\ UNCHANGED drops

Takeover(max, denied) ==
    sock /\ drops < MaxDrops /\ Resume(max, denied) /\ drops' = drops + 1

\* The same handler when the socket write of the CONNACK fails: it returns
\* before the queue is looked at, and the connection is closed.
ConnackFails(max, denied) ==
    /\ SendFailures /\ ~sock /\ drops < MaxDrops
    /\ msgs_out' = Restored(max, denied)
    /\ CloseSocket
    /\ discarded' = discarded \cup (Held \cap denied)
    /\ UNCHANGED <<last_mid, published, expired, accepted, released>>

\* The same handler when a socket write fails after the first n messages: the
\* loop stops, the connection is closed.
ConnectFails(max, denied, n) ==
    LET D == Resumed(max, denied)
        W == FirstN(D.inflight, n)
    IN  /\ SendFailures /\ ~sock /\ drops < MaxDrops
        /\ msgs_out' = Write(D, W)
        /\ CloseSocket
        /\ discarded' = discarded \cup Shed(W) \cup (Held \cap denied)
        /\ UNCHANGED <<last_mid, published, expired, accepted, released>>

----------------------------------------------------------------------------
(* Acknowledgements.                                                       *)

\* Fault: nothing follows the message that was acknowledged.
RefillNothing(D, msg_index) == D

\* db__message_delete_outgoing after the search: msg_index counts the inflight
\* messages passed by the search, and as many queued messages are dequeued as
\* fit between msg_index and the maximum.
RefillFrom(D, msg_index) ==
    Promote(D, IF D.maximum = 0 THEN Cardinality(D.queued)
               ELSE Lower(D.maximum, msg_index))

\* Fault: msg_count12 is not maintained.
RemoveUncounted(D, m) == [D EXCEPT !.inflight = @ \ {m}]

\* db__message_remove of the acknowledged message.
Remove(D, m) ==
    [D EXCEPT !.inflight = @ \ {m},
              !.count12 = IF m.qos > 0 THEN @ - 1 ELSE @]

\* db__message_delete_outgoing: the protocol errors it answers.
IsMismatch(m, qos, expect) == m.qos # qos \/ (qos = 2 /\ m.state # expect)

\* db__message_delete_outgoing with its three ends: no such message, a message
\* in the wrong state (the connection is closed), the message is removed.
DeleteOutgoing(D, pkt, qos, expect) ==
    \/ LET E == RefillFrom(D, Cardinality(D.inflight))
       IN  /\ \A m \in D.inflight : m.mid # pkt.mid
           /\ msgs_out' = Write(E, Latest(E)) /\ FlushLatest(E)
           /\ toBroker' = toBroker \ {pkt}
           /\ UNCHANGED <<sock, drops>>
    \/ \E m \in D.inflight :
           /\ IsFirstMatch(D.inflight, pkt.mid, m)
           /\ IsMismatch(m, qos, expect)
           /\ msgs_out' = D
           /\ CloseSocket
           /\ UNCHANGED discarded
    \/ \E m \in D.inflight :
           LET E == RefillFrom(Remove(D, m), Before(D.inflight, m))
           IN  /\ IsFirstMatch(D.inflight, pkt.mid, m)
               /\ ~IsMismatch(m, qos, expect)
               /\ msgs_out' = Write(E, Latest(E)) /\ FlushLatest(E)
               /\ toBroker' = toBroker \ {pkt}
               /\ UNCHANGED <<sock, drops>>

\* handle__pubackcomp: the quota is raised before the mid is looked up.
HandlePubackcomp(pkt) ==
    LET D == [msgs_out EXCEPT !.quota = Raise(msgs_out, 1)]
        qos == IF pkt.type = "PUBACK" THEN 1 ELSE 2
    IN  /\ pkt.type \in {"PUBACK", "PUBCOMP"}
        /\ DeleteOutgoing(D, pkt, qos, "wait_for_pubcomp")
        /\ UNCHANGED <<last_mid, published, expired, accepted, released>>

\* handle__pubrec with a reason code >= 0x80: the quota is not raised.
HandlePubrecRefused(pkt) ==
    /\ pkt.type = "PUBREC_REFUSED"
    /\ DeleteOutgoing(msgs_out, pkt, 2, "wait_for_pubrec")
    /\ UNCHANGED <<last_mid, published, expired, accepted, released>>

\* handle__pubrec: db__message_update_outgoing, then send__pubrel, also for an
\* unknown mid.
HandlePubrec(pkt) ==
    /\ pkt.type = "PUBREC"
    /\ \/ /\ \A m \in msgs_out.inflight : m.mid # pkt.mid
          /\ toClient' = toClient \cup {Answer(pkt, "PUBREL")}
          /\ toBroker' = toBroker \ {pkt}
          /\ UNCHANGED <<sock, drops, msgs_out, released>>
       \/ \E m \in msgs_out.inflight :
          /\ IsFirstMatch(msgs_out.inflight, pkt.mid, m)
          /\ m.qos # 2
          /\ CloseSocket
          /\ UNCHANGED <<msgs_out, released>>
       \/ \E m \in msgs_out.inflight :
          /\ IsFirstMatch(msgs_out.inflight, pkt.mid, m)
          /\ m.qos = 2
          /\ msgs_out' = [msgs_out EXCEPT !.inflight =
                (@ \ {m}) \cup {[m EXCEPT !.state = "wait_for_pubcomp"]}]
          /\ released' = released \cup {m.pub}
          /\ toClient' = toClient \cup {Answer(pkt, "PUBREL")}
          /\ toBroker' = toBroker \ {pkt}
          /\ UNCHANGED <<sock, drops>>
    /\ UNCHANGED <<last_mid, published, expired, accepted, discarded>>

HandleAck(pkt) ==
    HandlePubackcomp(pkt) \/ HandlePubrec(pkt) \/ HandlePubrecRefused(pkt)

OutInit ==
    /\ sock = FALSE
    /\ \E max \in Maxima : msgs_out = EmptyMsgData(max)
    /\ last_mid = 0 /\ published = 0 /\ drops = 0
    /\ expired = {} /\ accepted = {} /\ discarded = {} /\ released = {}
============================================================================
