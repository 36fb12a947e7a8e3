------------------------------ MODULE Ingress ------------------------------
(***************************************************************************)
(* A publishing client and the broker's incoming messages of its session,  *)
(* composed: QoS 0, 1 and 2 publications over a connection that comes and  *)
(* goes.                                                                   *)
(***************************************************************************)
EXTENDS ClientSender, IncomingMessages

vars == <<clientVars, brokerVars, channel>>

Init == SenderInit /\ IncomingInit(Pubs) /\ QueuesInit

AppPublish == \E qos \in QosLevels : ClientPublish(qos) /\ UNCHANGED brokerVars

Lose == ConnectionLost /\ UNCHANGED brokerVars

Dial == Reconnect /\ UNCHANGED brokerVars

DialFails == ReconnectFails /\ UNCHANGED brokerVars

\* The broker takes CONNECT, which is the first packet of the connection.
BrokerConnect ==
    /\ conn = "connecting"
    /\ conn' = "accepted"
    /\ \E max \in Maxima : HandleConnect(max)
    /\ UNCHANGED <<msgs_out, published, drops, exact, confirmed>>

\* The client takes CONNACK, which carries the Receive Maximum in MQTT 5.
ClientConnack ==
    /\ HandleConnack(IF Mqtt5 THEN msgs_in.maximum ELSE 0)
    /\ UNCHANGED brokerVars

BrokerReceive ==
    /\ conn \in {"accepted", "active"} /\ toBroker # <<>>
    /\ BrokerHandle(Head(toBroker))
    /\ UNCHANGED clientVars

ClientReceive ==
    /\ toClient # <<>>
    /\ ClientHandle(Head(toClient))
    /\ UNCHANGED brokerVars

Next ==
    \/ AppPublish \/ Lose \/ Dial \/ DialFails \/ BrokerConnect \/ ClientConnack
    \/ BrokerReceive \/ ClientReceive

Spec == Init /\ [][Next]_vars

\* mosquitto_loop_forever reconnects without end, and both ends keep reading.
FairSpec ==
    /\ Spec
    /\ WF_vars(Dial) /\ WF_vars(BrokerConnect) /\ WF_vars(ClientConnack)
    /\ WF_vars(BrokerReceive) /\ WF_vars(ClientReceive)

----------------------------------------------------------------------------
(* Properties.                                                             *)

\* The variables have their types; the quotas of both ends stay between zero
\* and their maximum.
TypeOK ==
    /\ conn \in {"none", "connecting", "accepted", "active"}
    /\ msgs_out \in [inflight : SUBSET OutMsg, quota : Nat, maximum : Nat]
    /\ msgs_out.quota <= msgs_out.maximum
    /\ published \in 0..MaxPublish /\ drops \in Nat
    /\ exact \subseteq Pubs /\ confirmed \subseteq Pubs
    /\ msgs_in \in [inflight : SUBSET InMsg(Pubs), queued : SUBSET InMsg(Pubs),
                    quota : Nat, maximum : Nat, count12 : Int, appended : Nat]
    /\ msgs_in.quota <= msgs_in.maximum
    /\ routed \in [Pubs -> Nat] /\ refused \subseteq Pubs
    /\ toClient \in Seq(Packet(Pubs)) /\ toBroker \in Seq(Packet(Pubs))

\* The windows the publisher may have: its own and, in MQTT 5, what a CONNACK
\* has told it.
SendWindows == {Window} \cup (IF Mqtt5 THEN Maxima \ {0} ELSE {})

\* The broker's window is never below the publisher's.
WindowsFit == \A n \in Maxima \ {0} : \A w \in SendWindows : w <= n

\* The publisher has not had to wait for its window yet.
WithinWindow == \A w \in SendWindows : published <= w

\* QoS 2 (handle__publish, db__message_release_incoming, and the client's
\* message__reconnect_reset): as long as the message ids have not wrapped, a
\* publication goes to the subscribers at most once.  When messages wait for a
\* window wider than the broker's this is not so: message__reconnect_reset
\* forgets the PUBREC of a message that no longer fits.
RoutedOnce ==
    published <= MidLimit /\ (WindowsFit \/ WithinWindow) =>
        \A p \in exact : routed[p] <= 1

\* on_publish is called for a QoS 1 or 2 publication only when the broker has
\* given it to the subscribers or has refused it.
ConfirmedRouted == \A p \in confirmed : routed[p] > 0 \/ p \in refused

\* What either end still keeps.
Unfinished == PubsOf(msgs_out.inflight) \cup PubsOf(msgs_in.inflight \cup msgs_in.queued)

\* A QoS 1 or 2 publication that mosquitto_publish has put into the list is
\* eventually confirmed, and then neither end keeps anything of it: the retries
\* after a lost connection (message__retry_check) and the release of waiting
\* messages (message__release_to_inflight) are never the last to act.
EventuallyConfirmed ==
    \A p \in Pubs :
        p \in PubsOf(msgs_out.inflight) ~> p \in confirmed /\ p \notin Unfinished

\* Client and broker together implement exactly-once hand-over.
Once == INSTANCE ExactlyOnce WITH
    handed <- exact,
    copies <- [p \in Pubs |-> IF p \in exact THEN routed[p] ELSE 0],
    turned <- refused \cap exact,
    told <- confirmed \cap exact

\* The lists, states and retries of both ends (lib/messages_mosq.c,
\* database.c) do no more than the exactly-once service.
ImplementsOnce == Once!OnceSpec
============================================================================
