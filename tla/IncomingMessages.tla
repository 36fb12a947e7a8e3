-------------------------- MODULE IncomingMessages -------------------------
(***************************************************************************)
(* The incoming messages of a persistent client session in the broker:     *)
(* handle__publish (src/handle_publish.c) and context->msgs_in, the QoS 2  *)
(* messages that wait for their PUBREL (src/database.c, handle__pubrel).   *)
(*                                                                         *)
(* "pub" stands for topic and payload, which the broker compares when a    *)
(* message id occurs again.                                                *)
(***************************************************************************)
EXTENDS Integers, FiniteSets, Packets, MessageLists

CONSTANTS
    Maxima,         \* max_inflight_messages at a CONNECT (it can be reloaded)
    MaxQueued,      \* max_queued_messages; 0 = none
    Denied,         \* publications the client may not write
    Mqtt5           \* is the protocol MQTT 5?

ASSUME IncomingAssumption ==
    /\ Maxima \subseteq Nat /\ MaxQueued \in Nat /\ Mqtt5 \in BOOLEAN

VARIABLES
    msgs_in,    \* context->msgs_in
    routed,     \* history: how often a publication went to the subscribers
    refused     \* history: publications answered with an error

brokerVars == <<msgs_in, routed, refused>>

\* struct mosquitto_client_msg of an incoming message; its state is never read.
InMsg(pubs) == [pub : pubs, mid : Nat, pos : Nat]

NoMessages(max) ==
    [inflight |-> {}, queued |-> {}, quota |-> max, maximum |-> max,
     count12 |-> 0, appended |-> 0]

Matches(L, mid) ==
    {m \in L : m.mid = mid /\ \A x \in L : x.mid = mid => m.pos <= x.pos}

\* db__message_store_find: inflight first, then queued.
StoreFind(D, mid) ==
    IF Matches(D.inflight, mid) # {} THEN Matches(D.inflight, mid)
    ELSE Matches(D.queued, mid)

\* db__message_remove_incoming: only in inflight.
RemoveIncoming(D, mid) ==
    [D EXCEPT !.inflight = @ \ Matches(@, mid),
              !.count12 = @ - Cardinality(Matches(D.inflight, mid))]

\* db__ready_for_flight for mosq_md_in and qos > 0, db__ready_for_queue.
FlightReady(D) == D.maximum = 0 \/ D.quota > 0

QueueReady(D) == MaxQueued = 0 \/ D.count12 - D.maximum < MaxQueued

\* send__pubrec for every message of S, in list order.
Pubrecs(S) ==
    [i \in 1..Cardinality(S) |->
        LET m == CHOOSE x \in S : Before(S, x) = i - 1
        IN  [type |-> "PUBREC", mid |-> m.mid, pub |-> m.pub, qos |-> 2]]

\* The first n queued messages are dequeued and their PUBREC is sent.
AcceptQueued(D, n, answers) ==
    LET S == FirstN(D.queued, n)
    IN  [data |-> Dequeue(D, S), answers |-> answers \o Pubrecs(S)]

\* db__message_write_queued_in.  (The maximum it tests is the one of msgs_out,
\* which is 0 when max_inflight_messages is.)
WriteQueuedIn(D, answers) ==
    AcceptQueued(D, IF D.maximum = 0 THEN Cardinality(D.queued) ELSE D.quota,
                 answers)

Reply(result) ==
    /\ msgs_in' = result.data
    /\ toClient' = toClient \o result.answers

\* sub__messages_queue.
Route(pubs) ==
    routed' = [p \in DOMAIN routed |-> IF p \in pubs THEN routed[p] + 1 ELSE routed[p]]

----------------------------------------------------------------------------
(* handle__publish                                                         *)

\* process_bad_message: PUBACK or PUBREC with an error, which MQTT 3 cannot
\* express.  send__puback and a refusing send__pubrec raise the quota.
RefusePublish(D, pkt) ==
    /\ Reply(CASE pkt.qos = 0 -> [data |-> D, answers |-> <<>>]
               [] pkt.qos = 1 -> [data |-> [D EXCEPT !.quota = Raise(D, 1)],
                                  answers |-> <<Answer(pkt, "PUBACK")>>]
               [] pkt.qos = 2 /\ Mqtt5 ->
                                 [data |-> [D EXCEPT !.quota = Raise(D, 1)],
                                  answers |-> <<Answer(pkt, "PUBREC_REFUSED")>>]
               [] OTHER -> [data |-> D, answers |-> <<Answer(pkt, "PUBREC")>>])
    /\ refused' = refused \cup {pkt.pub}
    /\ UNCHANGED routed

\* db__message_insert for mosq_md_in.
InsertIncoming(D, pkt) ==
    LET m == [pub |-> pkt.pub, mid |-> pkt.mid, pos |-> D.appended + 1]
        E == [D EXCEPT !.count12 = @ + 1, !.appended = @ + 1]
    IN  IF FlightReady(D)
        THEN WriteQueuedIn([E EXCEPT !.inflight = @ \cup {m}],
                           <<Answer(pkt, "PUBREC")>>)
        ELSE WriteQueuedIn([E EXCEPT !.queued = @ \cup {m}], <<>>)

\* A message that is not stored: QoS 0 and 1 are routed at once (QoS 1 takes
\* and, with its PUBACK, gives back a place of the quota), QoS 2 is stored.
AcceptPublish(D, pkt) ==
    /\ CASE pkt.qos = 0 -> Reply(WriteQueuedIn(D, <<>>)) /\ Route({pkt.pub})
         [] pkt.qos = 1 ->
              LET E == [D EXCEPT !.quota = Lower(@, 1)]
              IN  /\ Reply(WriteQueuedIn([E EXCEPT !.quota = Raise(E, 1)],
                                         <<Answer(pkt, "PUBACK")>>))
                  /\ Route({pkt.pub})
         [] pkt.qos = 2 -> Reply(InsertIncoming(D, pkt)) /\ UNCHANGED routed
    /\ UNCHANGED refused

\* The message id belongs to a stored message with the same content.
IsDuplicate(D, pkt) ==
    pkt.qos > 0 /\ \E m \in StoreFind(D, pkt.mid) : m.pub = pkt.pub

\* A stored message with the same id and another content is removed.
Cleared(D, pkt) ==
    IF pkt.qos > 0 /\ StoreFind(D, pkt.mid) # {}
    THEN RemoveIncoming(D, pkt.mid) ELSE D

HandlePublish(pkt) ==
    LET D == Cleared(msgs_in, pkt)
        room == pkt.qos = 0 \/ FlightReady(D) \/ QueueReady(D)
        dup == IsDuplicate(msgs_in, pkt)
    IN  /\ pkt.type = "PUBLISH"
        /\ \/ pkt.pub \in Denied /\ RefusePublish(msgs_in, pkt)
           \/ /\ pkt.pub \notin Denied /\ dup
              /\ Reply(WriteQueuedIn(msgs_in, <<Answer(pkt, "PUBREC")>>))
              /\ UNCHANGED <<routed, refused>>
           \/ pkt.pub \notin Denied /\ ~dup /\ ~room /\ RefusePublish(D, pkt)
           \/ pkt.pub \notin Denied /\ ~dup /\ room /\ AcceptPublish(D, pkt)

----------------------------------------------------------------------------
(* handle__pubrel and the resumption of the session                        *)

\* Fault: the message stays in the list when it is routed.
ReleaseKeeps(D, M) == D

\* db__message_remove of the released messages.
Release(D, M) ==
    [D EXCEPT !.inflight = @ \ M, !.count12 = @ - Cardinality(M)]

\* db__message_release_incoming: every inflight message with this mid goes to
\* the subscribers.  The index that limits the queued messages counts the
\* released one too.  send__pubcomp follows in any case and raises the quota.
HandlePubrel(pkt) ==
    LET M == {m \in msgs_in.inflight : m.mid = pkt.mid}
        n == IF msgs_in.maximum = 0 THEN Cardinality(msgs_in.queued)
             ELSE Lower(msgs_in.maximum, Cardinality(msgs_in.inflight))
        r == AcceptQueued(Release(msgs_in, M), n, <<>>)
    IN  /\ pkt.type = "PUBREL"
        /\ Reply([data |-> [r.data EXCEPT !.quota = Raise(r.data, 1)],
                  answers |-> Append(r.answers, Answer(pkt, "PUBCOMP"))])
        /\ Route({m.pub : m \in M})
        /\ UNCHANGED refused

BrokerHandle(pkt) ==
    /\ toBroker' = Tail(toBroker)
    /\ HandlePublish(pkt) \/ HandlePubrel(pkt)

\* Fault: the QoS 2 messages that wait for their PUBREL are removed.
ResetForgets(D, max) == NoMessages(max)

\* db__message_reconnect_reset_incoming: inflight messages stay, queued ones
\* are dequeued while there is quota, without a PUBREC.
ResetIncoming(D, max) ==
    LET quota == Lower(max, Cardinality(D.inflight))
    IN  Dequeue([D EXCEPT !.quota = quota, !.maximum = max,
                           !.count12 = Cardinality(D.inflight) + Cardinality(D.queued)],
                FirstN(D.queued, IF max = 0 THEN Cardinality(D.queued) ELSE quota))

\* connect__on_authorised for the client's id.
HandleConnect(max) ==
    /\ msgs_in' = ResetIncoming(msgs_in, max)
    /\ UNCHANGED <<routed, refused, channel>>

IncomingInit(pubs) ==
    /\ \E max \in Maxima : msgs_in = NoMessages(max)
    /\ routed = [p \in pubs |-> 0] /\ refused = {}
============================================================================
