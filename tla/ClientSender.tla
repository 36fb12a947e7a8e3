--------------------------- MODULE ClientSender ----------------------------
(***************************************************************************)
(* The sending half of the client library: mosquitto_publish               *)
(* (lib/actions.c), the list msgs_out (lib/messages_mosq.c), the           *)
(* acknowledgement handlers as the library compiles them, and the          *)
(* reconnection (lib/connect.c, lib/handle_connack.c).                     *)
(*                                                                         *)
(* Messages are appended when they are published and never move, so the    *)
(* list is a set read in the order of the publication numbers.             *)
(***************************************************************************)
EXTENDS Integers, FiniteSets, Packets

CONSTANTS
    MaxPublish,     \* bound: calls of mosquitto_publish
    MaxDrops,       \* bound: connections lost or closed
    QosLevels,      \* qos of a publication
    MidLimit,       \* largest message id, 65535 in the code (uint16_t)
    Window          \* msgs_out.inflight_maximum the application has set

ASSUME SenderAssumption ==
    /\ MaxPublish \in Nat /\ MaxDrops \in Nat /\ QosLevels \subseteq 0..2
    /\ MidLimit \in Nat \ {0} /\ Window \in Nat \ {0}

VARIABLES
    conn,       \* the connection: none, connecting (CONNECT is on the way),
                \* accepted (CONNACK is on the way), active
    msgs_out,   \* mosq->msgs_out of the client
    published,  \* calls of mosquitto_publish so far
    drops,      \* connections lost or closed so far
    exact,      \* history: publications with QoS 2
    confirmed   \* history: publications the on_publish callback was called for

clientVars == <<conn, msgs_out, published, drops, exact, confirmed>>

Pubs == 1..MaxPublish

OutStates ==
    {"invalid", "publish_qos1", "publish_qos2", "wait_for_puback",
     "wait_for_pubrec", "wait_for_pubcomp", "resend_pubrel"}

\* struct mosquitto_message_all.
OutMsg == [pub : Pubs, mid : 1..MidLimit, qos : 1..2, state : OutStates]

\* mosquitto__mid_generate for the p-th publication: a uint16_t that skips 0.
MidOf(p) == ((p - 1) % MidLimit) + 1

Older(L, m) == Cardinality({x \in L : x.pub < m.pub})

\* The nodes of L in the order of the list.
InListOrder(L) ==
    [i \in 1..Cardinality(L) |-> CHOOSE m \in L : Older(L, m) = i - 1]

\* The first node of L with this message id, in a set.
FirstWith(L, mid) ==
    {m \in L : m.mid = mid /\ \A x \in L : x.mid = mid => m.pub <= x.pub}

PacketsFor(L, op(_)) == [i \in 1..Cardinality(L) |-> op(InListOrder(L)[i])]

\* util__increment_send_quota.
RaiseSend(D) == IF D.quota < D.maximum THEN D.quota + 1 ELSE D.quota

----------------------------------------------------------------------------
(* Sending.                                                                *)

\* The first n messages that were not sent yet.
Unsent(D, n) ==
    LET U == {m \in D.inflight : m.state = "invalid"}
    IN  {m \in U : Older(U, m) < n}

\* The messages of R are marked as sent.
Launch(D, R) ==
    [D EXCEPT !.inflight =
        {IF m \notin R THEN m
         ELSE IF m.qos = 1 THEN [m EXCEPT !.state = "wait_for_puback"]
         ELSE [m EXCEPT !.state = "wait_for_pubrec"] : m \in @}]

\* message__release_to_inflight on a socket: as many as the quota allows.
Released(D) ==
    LET R == Unsent(D, D.quota)
    IN  [Launch(D, R) EXCEPT !.quota = @ - Cardinality(R)]

ReleasedPackets(D) == PacketsFor(Unsent(D, D.quota), PublishPacket)

\* message__release_to_inflight without a socket: the first message is marked,
\* send__publish fails and the quota is not lowered.
Stranded(D) == Launch(D, Unsent(D, IF D.quota > 0 THEN 1 ELSE 0))

\* mosquitto_publish.  Without a connection a QoS 0 message is refused and a
\* QoS 1 or 2 message stays in the list.
ClientPublish(qos) ==
    LET m == [pub |-> published + 1, mid |-> MidOf(published + 1), qos |-> qos,
              state |-> "invalid"]
        D == [msgs_out EXCEPT !.inflight = @ \cup {m}]
    IN  /\ published < MaxPublish
        /\ published' = published + 1
        /\ exact' = IF qos = 2 THEN exact \cup {m.pub} ELSE exact
        /\ IF qos = 0 THEN
             /\ toBroker' = IF conn = "none" THEN toBroker
                            ELSE Append(toBroker, PublishPacket(m))
             /\ UNCHANGED msgs_out
           ELSE IF conn = "none" THEN
             msgs_out' = Stranded(D) /\ UNCHANGED toBroker
           ELSE
             msgs_out' = Released(D) /\ toBroker' = toBroker \o ReleasedPackets(D)
        /\ UNCHANGED <<conn, drops, confirmed, toClient>>

----------------------------------------------------------------------------
(* Losing the connection and connecting again.                             *)

\* loop_rc_handle: the socket is closed.
Hangup ==
    /\ drops < MaxDrops
    /\ conn' = "none" /\ drops' = drops + 1 /\ QueuesClosed

ConnectionLost ==
    /\ conn # "none"
    /\ Hangup
    /\ UNCHANGED <<msgs_out, published, exact, confirmed>>

\* Fault: the PUBREC is forgotten.
RetryStateForgets(m) ==
    [m EXCEPT !.state = IF m.qos = 1 THEN "publish_qos1" ELSE "publish_qos2"]

RetryState(m) ==
    [m EXCEPT !.state =
        IF m.qos = 1 THEN "publish_qos1"
        ELSE IF @ = "wait_for_pubrec" THEN "publish_qos2"
        ELSE IF @ = "wait_for_pubcomp" THEN "resend_pubrel" ELSE @]

\* message__reconnect_reset for msgs_out: the window is given to the messages
\* at the front of the list, the others count as never sent.
ReconnectReset(D, update_quota_only) ==
    LET W == {m \in D.inflight : Older(D.inflight, m) < D.maximum}
    IN  [D EXCEPT
            !.inflight =
                {IF m \notin W THEN [m EXCEPT !.state = "invalid"]
                 ELSE IF update_quota_only THEN m ELSE RetryState(m) : m \in @},
            !.quota = D.maximum - Cardinality(W)]

\* mosquitto__reconnect: CONNECT is sent; or the host cannot be reached.
Reconnect ==
    /\ conn = "none"
    /\ conn' = "connecting"
    /\ msgs_out' = ReconnectReset(msgs_out, FALSE)
    /\ UNCHANGED <<published, drops, exact, confirmed, channel>>

ReconnectFails ==
    /\ conn = "none"
    /\ msgs_out' = ReconnectReset(msgs_out, FALSE)
    /\ UNCHANGED <<conn, published, drops, exact, confirmed, channel>>

\* Fault: only the messages to be published are retried.
RetriedPublishes(D) ==
    {m \in D.inflight : m.state \in {"publish_qos1", "publish_qos2"}}

\* message__retry_check: what it sends, in list order.
Retried(D) ==
    {m \in D.inflight : m.state \in {"publish_qos1", "publish_qos2",
                                     "resend_pubrel", "wait_for_pubcomp"}}

RetryPacket(m) ==
    IF m.state \in {"publish_qos1", "publish_qos2"}
    THEN PublishPacket(m) ELSE PubrelPacket(m)

\* handle__connack with the Receive Maximum of the broker; 0 = not in the CONNACK.
HandleConnack(receive_maximum) ==
    LET max == IF receive_maximum > 0 THEN receive_maximum ELSE msgs_out.maximum
        D == ReconnectReset([msgs_out EXCEPT !.maximum = max], TRUE)
    IN  /\ conn = "accepted"
        /\ conn' = "active"
        /\ msgs_out' = D
        /\ toBroker' = toBroker \o PacketsFor(Retried(D), RetryPacket)
        /\ UNCHANGED <<published, drops, exact, confirmed, toClient>>

----------------------------------------------------------------------------
(* Acknowledgements.                                                       *)

\* The messages of M are deleted, the on_publish callback is called, and
\* message__release_to_inflight sends the next ones.
Complete(D, M) ==
    LET E == [D EXCEPT !.inflight = @ \ M]
    IN  /\ msgs_out' = Released(E)
        /\ toBroker' = toBroker \o ReleasedPackets(E)
        /\ confirmed' = confirmed \cup {m.pub : m \in M}
        /\ toClient' = Tail(toClient)
        /\ UNCHANGED <<conn, drops>>

\* handle__pubackcomp in the client.  A message of another qos with this mid
\* is a protocol error, and the connection is closed.
ClientPubackcomp(pkt) ==
    LET D == [msgs_out EXCEPT !.quota = RaiseSend(msgs_out)]
        M == FirstWith(D.inflight, pkt.mid)
        match == \A m \in M : m.qos = IF pkt.type = "PUBACK" THEN 1 ELSE 2
    IN  /\ pkt.type \in {"PUBACK", "PUBCOMP"}
        /\ \/ match /\ Complete(D, M)
           \/ ~match /\ msgs_out' = D /\ Hangup /\ UNCHANGED confirmed

\* handle__pubrec in the client with a reason code >= 0x80.
ClientPubrecRefused(pkt) ==
    LET D == [msgs_out EXCEPT !.quota = RaiseSend(msgs_out)]
    IN  /\ pkt.type = "PUBREC_REFUSED"
        /\ Complete(D, {m \in FirstWith(D.inflight, pkt.mid) : m.qos = 2})

\* handle__pubrec in the client: message__out_update, then send__pubrel, also
\* for an unknown mid.
ClientPubrec(pkt) ==
    LET M == FirstWith(msgs_out.inflight, pkt.mid)
        match == \A m \in M : m.qos = 2
    IN  /\ pkt.type = "PUBREC"
        /\ UNCHANGED confirmed
        /\ \/ /\ match
              /\ msgs_out' = [msgs_out EXCEPT !.inflight = (@ \ M) \cup
                    {[m EXCEPT !.state = "wait_for_pubcomp"] : m \in M}]
              /\ toBroker' = Append(toBroker, Answer(pkt, "PUBREL"))
              /\ toClient' = Tail(toClient)
              /\ UNCHANGED <<conn, drops>>
           \/ ~match /\ Hangup /\ UNCHANGED msgs_out

ClientHandle(pkt) ==
    /\ conn = "active"
    /\ ClientPubackcomp(pkt) \/ ClientPubrec(pkt) \/ ClientPubrecRefused(pkt)
    /\ UNCHANGED <<published, exact>>

SenderInit ==
    /\ conn = "none"
    /\ msgs_out = [inflight |-> {}, quota |-> Window, maximum |-> Window]
    /\ published = 0 /\ drops = 0 /\ exact = {} /\ confirmed = {}
============================================================================
