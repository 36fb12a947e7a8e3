# Verification of the message delivery of the code box

The repository is a "code box": a tree of network and device programs. Its
largest program with logic of its own is the MQTT broker and client library
Mosquitto 2.0.11 (`MQTT 通信/mosquitto-2.0.11`, called `M/` below); around it
stand sample programs, two libevent servers and serial port tools. This project
models the heart of the broker and of the client library: how a message is
handed over by a publisher, routed, stored, kept for a subscriber, sent,
acknowledged, repeated and forgotten while connections come and go; the life of
sessions, their subscriptions and wills; what survives a restart; the two
threads of the client library; and the objects of the dynamic security plugin.

## 1. Inventory

| Component | State it keeps | Operations | What is hard | What makes it correct |
|---|---|---|---|---|
| Outgoing lists of a session, `M/src/database.c` | `msgs_out`: lists inflight and queued, `inflight_quota`, `inflight_maximum`, counters; `last_mid` | insert, dequeue, write, update, delete, reset at reconnection | order of acknowledgements, resumption in any state, limits, quota that must pair up | nothing accepted is lost; QoS 2 not repeated after PUBREC; order and limits as documented; progress |
| Acknowledgement handlers, `M/lib/handle_pubackcomp.c`, `handle_pubrec.c` | none of their own | PUBACK, PUBCOMP, PUBREC, refused PUBREC | duplicates, stray and stale ids | an acknowledgement removes only its own message |
| Routing, `M/src/subs.c`, `topic_tok.c`, `retain.c`, `handle_subscribe.c` | subscription tree, retained tree | publish, subscribe, retain | shared subscriptions, overlapping filters | every matching session gets the message |
| Sessions, `M/src/handle_connect.c`, `context.c`, `loop.c` | table of clients by id, socket, session expiry | connect, take over, resume, disconnect | two connections for one id, failure half-way through a resumption | one live connection per id, session data survives |
| Packets, `M/lib/send_*.c`, `packet_mosq.c` | queue of packets being written | send, read, write | partial writes, blocked sockets | packets leave in order, once |
| Client library, receiving half, `M/lib/handle_publish.c`, `handle_pubrel.c` | `msgs_in` | receive PUBLISH, PUBREL | repeated PUBLISH and PUBREL | callback once for QoS 2 |
| Client library, sending half, `M/lib/actions.c`, `messages_mosq.c` | `msgs_out`, quota | publish, acknowledgements, reconnection | application thread against network thread | same as the broker's |
| Incoming messages of the broker, `M/src/handle_publish.c`, `database.c` | `msgs_in` | store, release, remove | repeated QoS 2 PUBLISH, quota of the receiver | routed exactly once |
| Message store, `M/src/database.c` | reference counts | add, ref, unref, compact | shared by lists, retained tree, wills | freed when, and only when, unused |
| Wills, session expiry, keepalive | sorted lists of deadlines | add, check, remove | a deadline against a reconnection | the will is sent once or never |
| Persistence, `M/src/persist_*.c` | file | save, restore | crash between the steps of a save | a restored broker keeps its promises |
| Bridges, `M/src/bridge*.c` | connection to another broker | start, connect, retry | two sessions glued together | no message lost over the bridge |
| Threads of the client library, `M/lib/loop.c`, `packet_mosq.c` | mutexes, packet queue, wake-up socket | loop, queue, write | lock order, lost wake-ups | no deadlock, packets are written |
| Access control and plugins | users, access lists; dynamic security: clients, groups, roles | check, edit | stale rights after a change | a check uses the current rights |
| libevent servers, `libevent/libevent学习` | free list of connections, worker queues, receive buffers | accept, dispatch, read, close | listener against workers, items freed while listed | a connection belongs to one worker and is freed once |
| Serial tools, memory check, samples | counters, list of allocations | test loop, allocate, free | few | counters match |

The components interact as follows. A PUBLISH from some client is stored
(`db__message_store`) and routed (`sub__messages_queue`); for each matching
subscription `subs__send` picks a message id from the subscriber's counter and
calls `db__message_insert`, which appends the message to inflight or to queued
and writes to the subscriber's socket. The subscriber's library answers; its
acknowledgements run `handle__pubackcomp` and `handle__pubrec`, which change the
lists and write again. A closed connection leaves the lists of a persistent
session as they are, and messages go on being queued. A CONNECT with the same
client id moves the lists to a new context, resets the state of each message
(`db__message_reconnect_reset`) and sends everything inflight again. The broker
is single threaded: a handler runs to its end, so one handler is one action.
What interleaves is the broker, the client, the wire and the failures.

Around this, `connect__on_authorised` also moves the subscriptions of the older
context, sends or cancels its will and leaves the context to be freed by the main
loop, which checks the timers of wills and sessions between two batches of
events. `persist__backup` and `persist__restore` carry sessions, subscriptions
and messages over a restart. In the client library the application's thread and
the network thread meet in the packet queue, the state and the socket.

`PROJECT.json` lists every component, also those that are not modelled, and
the hazards found while reading, each at its line.

## 2. Modules

    Packets            packets of the QoS handshakes, the connection
    MessageLists       inflight, queued and the quota of a message list

    from the broker to a subscriber
      OutgoingMessages   the broker's side: msgs_out of one session
      ClientReceiver     the client library's side: msgs_in and the callback
        Delivery           the composition, its fairness, the properties
          MCDelivery         instance for TLC
          DeliveryProofs     theorems: types, nothing is lost, no repetition after
                             PUBREC, the counter, the implementation of StoreAndForward
      StoreAndForward    what a session promises; Delivery implements it

    from a publisher to the broker
      ClientSender       the client library's side: mosquitto_publish, msgs_out
      IncomingMessages   the broker's side: handle__publish, msgs_in
        Ingress            the composition, its fairness, the properties
          MCIngress          instance for TLC
          IngressProofs      theorems: types, at most once, confirmed is routed,
                             the implementation of ExactlyOnce
      ExactlyOnce        what QoS 2 promises a publisher; Ingress implements it

    sessions and what they refer to
      Topics             topics and filters, the tokeniser, the reference matcher
        SubscriptionTree   the tree of subscriptions: add, remove, search
          SubscriptionTreeProofs  lemmas on it, for both modules below
          Sessions           contexts, takeover, wills, expiry, subscriptions, saves
            MCSessions         instances for TLC
            SessionsProofs     theorems: contexts, wills, timers, tree, routing
          MessageStore       stored messages, reference counts, retained tree, file
            MCMessageStore     instance for TLC
            MessageStoreProofs theorems: counts, once per client, restart, search
      Loops              invariants of the loops over lists and sets
      SubscriptionService  what a client may expect of its subscriptions;
                         Sessions implements it

    the client library with a network thread
      ClientThreads        two threads, packet queue, wake-up, reconnection
        ClientThreadsProofs  theorems and proofs

    the dynamic security plugin
      DynamicSecurity      clients, groups, roles, links, file, who is connected
        MCDynamicSecurity      instance for TLC
        DynamicSecurityProofs  theorems and proofs

The two directions meet in `sub__messages_queue`: it is the history variable
`routed` of `Ingress` and the input `Publish` of `Delivery`. They share no state
(`msgs_in` and `msgs_out` of a session are separate, and a client's two roles use
separate lists), so they are checked separately.

**Packets.** A packet is a record: type, message id, QoS and the publication it
is about. Per message the handshake is stop-and-wait, so one connection never
holds two equal packets, and each direction is a set; the two ends may take
packets of different messages in any order. TCP keeps the order, so this allows
more behaviours than the code has; they are those of a client that acknowledges
in an order of its own, which the protocol does not forbid and the broker must
accept. In the other direction the broker may send
a PUBREC twice (for a repeated PUBLISH, and from the queue), so there each
direction is a FIFO queue. A connection loses packets only by closing.

**OutgoingMessages.** `msgs_out` is a record of the two lists (sets of nodes,
ordered by `pos`), the quota, the maximum and `msg_count12`. `sock` stands for
the socket and the state `mosq_cs_active`.

| Action | Code |
|---|---|
| `Publish` | `subs__send`, `db__message_insert` with `update`, `db__message_write_inflight_out_latest`, `db__message_write_queued_out` |
| `Subscribe`, `SubscribeOnly` | `handle__subscribe` with and without a retained message (`retain__process`, insert without update), then queued and latest |
| `Expire` | the clock passes `message_expiry_time`; the lists only notice when a message is written |
| `Disconnect` | `context__disconnect`, `do_disconnect` for a persistent session |
| `Connect`, `Takeover` | `connect__on_authorised`: reset, access check, CONNACK, queued, all inflight |
| `ConnackFails`, `ConnectFails` | the same handler when a socket write fails at the CONNACK or after the first n messages |
| `HandlePubackcomp`, `HandlePubrec`, `HandlePubrecRefused` | the handlers of PUBACK, PUBCOMP and PUBREC with `db__message_delete_outgoing` and `db__message_update_outgoing` |

The loops are written as set operations on a prefix of a list: `Promote(D, n)`
marks and moves the first n queued messages, `RefillFrom` is the second loop of
`db__message_delete_outgoing`, `ReconnectReset` both loops of the reset. The
helpers keep the oddities of the code (section 6): `Dequeue` takes
quota for QoS 0 messages too, and the reset marks one message and moves another.

A write failure in another handler closes the connection as well; since a state
that marks a message as sent with the packet lost is what `Disconnect` produces,
only the resumption, whose failure leaves messages unmarked, has failure
actions. A takeover whose new connection fails is `Disconnect` followed by
`ConnectFails`.

**ClientReceiver.** `handle__publish` and `handle__pubrel` as the client library
compiles them, for MQTT 3.1.1, with the list `msgs_in` that survives a
reconnection of the same process. `delivered` counts callbacks. `RefuseQos2`
stands for a client of another make that answers with an error code.

| Action | Code |
|---|---|
| `ReceivePublish` | `handle__publish`: PUBACK or PUBREC, callback or `message__queue` |
| `ReceivePubrel` | `handle__pubrel`: PUBCOMP, `message__remove`, callback |
| `ReceivePubrelFails` | `handle__pubrel` when `send__pubcomp` fails: `message__remove`, no callback; the connection is closed |

A failing PUBCOMP needs a client without a network thread (`Threaded = FALSE`):
`packet__queue` then calls `packet__write` itself, while with a thread it only
queues. The publications that leave `msgs_in` this way are recorded in `givenUp`
together with those refused. An answer to a PUBLISH that cannot be written is an
answer that is lost with the connection, since the handler does the same in both
cases.

**StoreAndForward.** The abstract service: messages are taken, kept, received,
given up; a message leaves `kept` only when it was received or given up. The broker
gives up what has expired, is too large or may not be read any more; the client gives up
what it refuses, and what it removes without the callback because its PUBCOMP
cannot be written.

**ClientSender.** `msgs_out` of the library is one list; a message that was not
sent yet is in state invalid. `conn` is the connection as both ends see it: the
application may publish in every state, also before CONNACK.

| Action | Code |
|---|---|
| `ClientPublish` | `mosquitto_publish_v5`, `message__queue`, `message__release_to_inflight`, with and without a socket |
| `ConnectionLost` | the socket fails; `mosquitto__loop_rc_handle` |
| `Reconnect`, `ReconnectFails` | `mosquitto__reconnect` with `message__reconnect_reset` |
| `HandleConnack` | `handle__connack`: Receive Maximum, reset of the quota, `message__retry_check` |
| `ClientPubackcomp`, `ClientPubrec`, `ClientPubrecRefused` | the handlers as the library compiles them |

**IncomingMessages.** The QoS 2 messages of `context->msgs_in` that wait for
their PUBREL, inflight or queued.

| Action | Code |
|---|---|
| `HandlePublish` | `handle__publish`: access, duplicate or reused id, room, store, route or queue, then `db__message_write_queued_in` |
| `HandlePubrel` | `handle__pubrel`, `db__message_release_incoming`, PUBCOMP in any case |
| `HandleConnect` | `connect__on_authorised` with `db__message_reconnect_reset_incoming` |

As in the code, storing a QoS 2 message takes nothing from the receive quota;
only a resumption and the dequeueing of queued messages do. A queue therefore
forms only after a resumption, with a publisher whose window is larger than the
broker's.

**ExactlyOnce.** The abstract service: a message is handed over, passed on at
most once or turned down, and reported as done only after that.

**Topics, SubscriptionTree.** A topic is a sequence of levels and a level is a
name; only wildcards, `$` and `$share` are looked at, as in the code. A tree is a
function from paths to nodes. A leaf names its context, so that the pointers that
a takeover redirects are visible. `SubSearch` and `RetainSearch` follow the
recursion of the code as recursive functions; `TopicMatchesSub` is the library's
own matcher and serves as the reference.

**Sessions.** `db` is the memory of the broker: the contexts (numbered by
connection, never reused, so that a stale pointer shows), `contexts_by_id`, the
two timer lists, the list of contexts to free, and the tree. A helper maps a
memory to a memory, in the order in which the code calls it.

| Action | Code |
|---|---|
| `Connect` | `handle__connect`, `connect__on_authorised` with the takeover of an older context |
| `HandleDisconnect`, `ConnectionLost` | `handle__disconnect`, `do_disconnect`, `context__disconnect`, `context__send_will` |
| `Subscribe`, `Unsubscribe`, `Publish` | the handlers with `sub__add`, `sub__remove`, and the turn of shared subscriptions |
| `LoopTurn` | `session_expiry__check`, `will_delay__check`, `context__free_disused`, the clock |
| `Backup`, `Crash`, `Shutdown` | `persist__backup`; `persist__restore` after a kill; the end of `main` and a restart |

**SubscriptionService.** The abstract service: the subscriptions of a client
change by its own commands, are kept or lost when it connects according to clean
start and to whether its session outlived its connection, and return from the
last save after a restart. Shared subscriptions may be lost whenever a connection
is taken over, because the code loses them (section 6).

**MessageStore.** The messages by id with their counts and `dest_ids`, and all
that refers to them: the lists of each session (as what they refer to), the
retained tree, the file. Which subscriptions match is an input here (`Targets`,
with repetitions), since `Sessions` is about that. A `Restart` is from a file
written at this moment; a crash is a restart from the state of the last save,
after more time, so it adds no behaviour.

**ClientThreads.** Program counters `app` and `loop`; one step per section under
`out_packet_mutex` and per access to what is shared without a lock (the socket
and the wake-up bytes; `state` has a mutex of its own for each access). A packet
is written in two halves. `wire` records what every connection carried. The
application's callbacks run in the network thread and may publish or disconnect
(`CallBack`). The first packet read on a connection is its CONNACK (`LoopConnack`):
`handle__connack` calls `on_connect` and then sets the state to active, also when it is
`disconnected` by then.

**DynamicSecurity.** Six lists of links, two for each kind, kept apart as the
code keeps them; a command is one action with its save and its disconnections. What a
client must show to connect (client id and password) is one member of a small set.
A `modifyClient` that names a role that does not exist has changed it by then and
saves nothing (`ModifyClientFails`); `unsaved` records the clients it was for. The file
is written in place (`ConfigSave`; section 6), so a broker that is killed in the
middle of it finds an empty file, or one that is not JSON, and starts with nothing
(`KillInSave`): `mosquitto_plugin_init` ignores what `dynsec__config_load` returns.
With `Plain = TRUE` commands link one pair at a time (`addClientRole`,
`addGroupRole`, `addGroupClient`, and `modifyClient`, which links both ways), and
the anonymous group is not deleted. `Plain = FALSE` adds the commands that write
only one of the two lists: `createClient` and `createGroup` with roles,
`modifyGroup` with roles, a `createClient` that fails half-way, and `deleteGroup`
of the anonymous group. The two ends of a link then really differ (section 6), so
what is checked and proved is about `Plain = TRUE`.

Left out everywhere: byte limits (`max_inflight_bytes`, `max_queued_bytes`, 0 by
default), a listener's `max_qos`, and payloads.

## 3. Runs

| Run | Instance | Shows |
|---|---|---|
| `core` | 3 messages of any QoS, windows 1 and 2 that change at a resumption, 2 lost connections, a PUBCOMP that cannot be written | `TypeOK`; `NoLoss`; `NoRepublish`; `ReleasedWaits`: after its PUBREC a message is never in a publish state again, and no message is in two lists; `InOrder`: nothing is sent while an older message is queued; `CountExact`: the counter behind the queue limit |
| `full` | 2 messages of any QoS, windows 1 and 2, every failure and feature on | `DeliveryInv`, the inductive invariant; `ImplementsService` |
| `live` | 2 messages, window 1, 2 lost connections, fairness | `EventuallyDelivered` |
| `ingress` | 3 messages of any QoS, the first refused, MQTT 5, windows 2, 2 lost connections, fairness | `ImplementsOnce`: QoS 2 messages are routed exactly once and reported after that; `ConfirmedRouted` for QoS 1 as well; `EventuallyConfirmed` |
| `ingress_wide` | 4 messages, message ids 1 to 3, publisher window 3, broker window 1, queue limit 1, MQTT 3.1.1 | `TypeOK`, also with acknowledgements that meet a message of another QoS after the ids have wrapped; `RoutedOnce` with queued messages and a full queue |
| `wills` | 2 client ids, 3 connections, v3 and v5 clients with wills of delay 0 to 2 and sessions of length 0 to 2 or without end, 4 seconds | `NoDangling`; `WillOnce`, `WillNotForgotten`, `WillCancelled`; `SessionsTracked`, `ExpiredGone` |
| `subs` | 1 client id, 3 connections, filters `+/#` and a shared one, topics `a`, `a/b`, `$SYS`, no_local, 3 seconds, a save at any time, one crash or shutdown | `TreeConsistent`; `RoutedExactly`: the search of the tree against the reference matcher, in every reachable tree; `ImplementsSubscriptions` |
| `store` | 2 clients (one v3 and durable, one v5), topics `$x`, `$x/b`, `$SYS/n`, filters `$x/#`, `$x/+/#`, `$SYS/+`, lifetimes 0 and 1, 2 messages, lists of 2, one restart | `RefExact`, `OncePerClient`, `SurvivesRestart`, `RetainedFound` |
| `threads` | 2 publications, CONNACK, 1 broken connection, 1 failed attempt, 1 full socket, fairness | `NoLostWakeup`, `Accounted`, `WholePackets`, `EventuallyWritten`; no deadlock |
| `dynsec` | 2 clients, 1 group, 2 roles, 1 ACL, 2 credentials, any number of commands, restarts and kills during a save | `LinksAgree`, `FileExact`, `RightsEnforced`; no deadlock |
| `find_once` | 1 message of QoS 2, window 1, 2 lost connections, a client without a network thread | must fail: `QoS2ExactlyOnce` (section 6) |
| `find_stop` | no publication, 1 broken connection, 1 failed attempt, fairness | must fail: `DisconnectEndsLoop` (section 6) |

*Bounds.* `MaxPublish` and `MaxDrops` bound publications and lost connections.
Three messages with a window of two give a full window, a waiting message and
acknowledgements out of order; two lost connections give a failure during the
recovery from a failure. The window, the queue limit and the id space are
parameters, so their limits are met with small numbers. `core` keeps the
features that `full` turns on switched off to afford three messages. `core` and
`live` leave out what breaks their properties: expiry for `InOrder`, queued QoS 0
messages for `EventuallyDelivered`, failed resumptions for `NoRepublish`, wrapped
ids for `NoLoss`. All three have a client without a network thread, which has one
more failure. Likewise `ingress` gives both ends the same window, and
`RoutedOnce` speaks of the time before the ids wrap, and for a publisher whose
window may exceed the broker's, of the time before a message has to wait for the
window (`WithinWindow`). With more messages, ids and lost connections than in
`ingress_wide` TLC finds that a message is routed twice otherwise (section 6).

In `Sessions` the third connection takes over the second while the first is still
to be freed, and with two ids the timer lists hold two contexts in either order;
four seconds let a delay and a session of two run out one after the other.
`SessionsTracked` is checked without restarts and `wills` without subscriptions,
which the wills do not touch. In `MessageStore` two messages are enough for one to
replace the other in the retained tree while lists still refer to both, and a
`Fanout` of two finds one client twice. In `ClientThreads` two publications and
the CONNECT or DISCONNECT give a queue with a first, a middle and a last packet.
`DynamicSecurity` has no bound but its sets: two clients and two roles
tell the members of a link apart, the group stands between. `MCDynamicSecurity` makes
clients, roles and credentials symmetric: no definition tells one from another, and
the properties checked are invariants and one action property.

Deadlock is checked in `threads` (with the explicit end `Finished`) and `dynsec`.
The other models stop when their bounds are used up.

*Fairness.* `FairSpec` of `Delivery` and `Ingress` asks that a disconnected client
connects again (`mosquitto_loop_forever` retries without end) and that each end
goes on reading its socket (both run event loops). It asks nothing of publishers
and never a disconnection. In `Ingress` an attempt to connect may fail any finite
number of times (`ReconnectFails`). Weak fairness is enough: the number of lost
connections is bounded, so a packet on the wire is eventually on it for good.
`FairSpec` of `ClientThreads` asks that both threads run: the application's
thread finishes a call it has begun, and stops the loop once it has asked for
the end; the network thread takes its steps, but in `select()` only when a byte
or its own request to write makes it return. Neither the broker nor the timeout
of `select()`, which may be a day, is relied on.

*Mutants.* Next to some definitions stands one whose comment begins with
"Fault:". It is the definition with a plausible mistake; it is used only to see
that the run named in `PROJECT.json` notices.

## 4. Proofs

**Delivery.** `DeliveryProofs` proves for every value of the constants (any number
of messages, windows, lost connections, all features on or off):

- `TypeCorrect`: `Spec => []TypeOK`. The quota is the interesting part: it stays
  between 0 and the maximum because `util__increment_send_quota` and
  `util__decrement_send_quota` clamp it. The proof needs the fact that sets of
  list nodes stay within `Msg`, for each helper a lemma, and finiteness of the
  lists for the cardinalities (`TypeInv`).
- `HandshakesAgree`: `MaxPublish <= MidLimit` implies `Spec => []DeliveryInv`, and
  its consequence `NeverLost`: `Spec => []NoLoss`: what is accepted is kept until the
  application has it, or the broker or the client has given it up. The
  assumption says that message ids do not wrap. It is needed:
  `mosquitto__mid_generate` does not ask whether an id is still in use, and with
  a smaller `MidLimit` TLC finds an acknowledgement that removes another message.
- `ThreadedGetsThrough`: with a client that refuses nothing and has a network thread,
  `Spec => []AlwaysGetsThrough`, which is `NoLoss` without the client's exceptions.
  That the thread is needed is shown by `find_once`.

`NoLoss` is not inductive. A message leaves the lists when an acknowledgement
arrives, so the proof must know what an acknowledgement on the wire says about
the client. `DeliveryInv` adds:

- `MidsAgree`: wherever a message id occurs (lists, wire, the client's list) it
  stands for the same publication, and no id is larger than `last_mid`;
- `StepsJustified`: a PUBACK on the wire means the callback was called, a PUBCOMP that
  it was called or that the client has given the message up; PUBREC, PUBREL and the
  states that follow a PUBREC mean that the client has stored, delivered or given up
  the message; a refusal was recorded;
- `AcceptedHasQos`: only QoS 1 and 2 messages are in `accepted`.

The proof has one lemma per action and, under it, one step per conjunct; lemmas
on `Promote`, `Write`, `Latest`, `ReconnectReset` state which publications,
ids and states they keep.

`SessionImplementsService`, under the same
assumption: `Spec => ImplementsService`. Every handler of the broker is one step of
the service or a stuttering step, and so is every packet the client takes. The
invariant is `ServiceInv`: `DeliveryInv` and `NoneEarly`, which says that nothing (a
packet, the client's list, a callback) speaks of a publication before it is made;
without it a new message could be one that was already received.

The theorems about the lists need no assumption on message ids. Their invariant `ListInv`
says that a publication is in one list and once (`Distinct`), that lists
and `released` hold only what was published, and that what had its PUBREC waits
in inflight for its PUBCOMP (`Waits`). The operations rename messages
and move them (`Relabels`); one lemma says what such a step keeps, and each helper
is shown to be one.

- `CounterExact`: `Revocable = {}` implies `Spec => []CountExact`. When read access
  is withdrawn, `connection_check_acl` deletes messages without counting them.
- `ReleasedAlwaysWaits` and `NeverRepublished`: `SendFailures = FALSE` implies
  `Spec => []ReleasedWaits` and `Spec => NoRepublish`. A resumption that fails half-way
  is the divergence of section 6: the next reset publishes the message again.

**Ingress.** `IngressProofs` proves for any number of
messages and lost connections, any windows, limits and versions:

- `TypeCorrect`: `Spec => []TypeOK`, the quotas of both ends included.
- `RoutedAtMostOnce`: `Spec => []RoutedOnce`, without an assumption; the conditions
  are those in the property.
- `ConfirmedIsRouted`: `WindowsFit` and `MaxPublish <= MidLimit` imply
  `Spec => []ConfirmedRouted`.
- `ImplementsExactlyOnce`: the same assumptions imply `Spec => ImplementsOnce`.

`WindowsFit` says that the broker's window is never below the publisher's, which is
so with the defaults of both ends (20 messages); without it the code confirms a message
that nobody routes (section 6). The invariant has three layers:

- `Shape`, always: the types, the lists finite, with a publication once in the
  client's list and a place once in the broker's queue, quotas within their
  windows.
- `Core`, before the ids wrap and as long as the client forgets no PUBREC
  (`Remembers`, which `WithinWindow` gives and otherwise `Fit`): an id is
  the number of its publication wherever it occurs (`Numbers`), and QoS 2 is QoS 2
  everywhere (`Levels`); the broker stores a publication once (`Single`); what has a
  PUBREL or PUBCOMP on its way had its PUBREC (`Releases`), and no PUBLISH follows
  its PUBREL in the queue (`Ordered`); a routed QoS 2 message is stored nowhere, its
  PUBLISH is on no wire and the client will not send one again (`Done`); nothing is
  routed before it is published (`Known`).
- `Fit`, when also `WindowsFit` holds: the broker queues nothing (`Roomy`); of a
  publication there is at most one packet on the connection, both directions
  together (`Apart`), and it belongs to a message the client has sent (`Owned`); the
  messages sent are at the front of the client's list and the quota counts them
  (`Front`); what the broker keeps or has answered is among them (`Lively`,
  `Backed`), so that `message__reconnect_reset` never forgets it; an
  acknowledgement tells the truth (`Truthful`), a PUBREL is for something taken
  (`Asked`), and what was reported is settled (`Outcomes`).

That at most one packet per publication is on the connection is the heart of it: it makes each
handshake stop-and-wait although the queues hold packets of many messages. It
depends on `Front`, which depends on the quota being exact, which is what fails when
the windows do not fit.

**ClientThreads.** `ClientThreadsProofs` proves for every number of publications,
broken connections, failed attempts and full sockets:

- `AlwaysWoken`: `Spec => []NoLostWakeup`. The invariant is the property with the
  types (`Typed`): a packet enters the queue in a step that leaves its sender at
  `wake`, or in the network thread, and the network thread enters `select()` by a
  step that looks at the queue; so a packet that came after that look has its
  byte, which only the network thread takes.
- `PacketsAccounted`: `Spec => []Accounted`. The danger is `out_packet_last`, which
  `packet__cleanup_all` leaves behind: it must be right again whenever the queue is
  not empty. The property is strengthened by `Numbered`: the numbers of all
  packets lie between 1 and the counter and grow along the queue, and a current
  packet with nothing left to process has been written, which is what the network
  thread relies on when it goes on to the next one (`loop = "next"`).
- `WholeOnTheWire`: `Spec => []WholePackets`. Two facts are added. `Fresh`: a
  connection not used yet has carried nothing, and the library makes a new one only
  after it has given up the old one and dropped the current packet. `Continued`: the
  wire ends where the current packet stands, and all that is still to be written
  was queued after what this connection has carried.

**DynamicSecurity.** `DynamicSecurityProofs` proves for any sets of clients, groups,
roles and ACLs, under `Plain`:

- `LinksKept`: `Spec => []LinksAgree`, and `FileKept`: `Spec => []FileExact`. The
  two need each other: `Restart` rebuilds both ends of every link from the file,
  which holds only one, so the links are right because the file is exact, and the
  file is exact after it because the links lead only to what exists. A client is in
  `unsaved` only until the next command that saves. `Inv` is
  their conjunction with `Known`: whoever is connected is a client that exists or the
  anonymous one.
- `ChangesReachClients`: `Spec => RightsEnforced`, an action property: under `Inv`
  whoever gains or loses a right by a command is among those the command
  disconnects. `deleteRole` and `removeRoleACL` disconnect along the lists of the
  role while rights are looked up along those of clients and groups; that these
  are the same users is where `LinksAgree` is needed.

**Loops.** The broker's helpers loop over lists and sets: of contexts, messages,
subscriptions. In the models a loop is a fold. `Loops` is about one loop: its
parameters are the body `Op(e, d, x)` (the element x changes the data d; e is what
the loop leaves alone) and the invariant `Inv`, and it proves that an invariant that
holds at the start and is kept by every turn holds at the end (`ListLoop`,
`SetLoop`). A proof instantiates the module once for each of its loops, so that the
provers never have to instantiate an operator. It rests on the least number
principle (`LeastNat`) and on the definitions of the folds.

**Subscription tree.** `SubscriptionTreeProofs` speaks of *places*: the path of a
node and a share name. `At(tree, place)` is the list of leaves there and `Holders` the
contexts in it. For each operation (`RemoveLeaf`, `SubAdd`, `RotateShares`, the
hand-over at a resumption, the loop of `sub__clean_session`) a lemma says what the
list at every place is afterwards and that the tree stays `Neat`: finite, every prefix
of a path there, no dead branch. The search is a recursive function. `Hit` says
outright, without recursion, which nodes it returns from a node; it solves the
equation of the recursion, and by induction on the depth (`TreeInduction`) a solution
is the only one (`SearchIs`). `HitMatches` compares it with the reference matcher,
level by level.

**Sessions.** `SessionsProofs` proves for any clients, options, filters, topics, numbers of
connections, restarts and any clock:

- `SessionsNoDangling`, `SessionsWillOnce`, `SessionsWillNotForgotten`,
  `SessionsWillCancelled` (an action property), `SessionsExpiredGone`,
  `SessionsTreeConsistent`;
- `SessionsAreTracked`, with `MaxCrash = 0`: after a restart it is false, because
  `persist__client_chunk_restore` does not put the session in the expiry list
  (section 6);
- `SessionsRoutedExactly`, for topics that do not begin with `$share`, which
  `sub__topic_tokenise` would take for a shared subscription.

The invariant `Inv` says of every context which combinations of state, socket,
will, timers and log are possible (`Settled`), and of the memory as a whole that ids
and contexts agree (`Named`), that the timer lists are sorted and hold each context
once (`Timers`), and that the list of a context names the places where it has its
one leaf (`Filed`). The parts are separate because the helpers break some of them on
the way: between two helpers only `Good` holds, which no helper breaks, with an exact
account of what the helper did to its one context (`Only`, `Beside`). The loops of
`LoopTurn` have invariants that say which contexts have had their turn. A restart
starts from memory without timers (`Fresh`); the loops at shutdown only send wills
(`Sending`). For the routing one needs besides that a `#` node has no children, as
`sub__search` asks for that: every branch ends in a leaf (`LeafBelow`), the leaf
belongs to a filter, and in a filter nothing follows `#` (`HashEnds`).

**MessageStore.** `MessageStoreProofs` proves for any clients, topics, filters, lifetimes, list
lengths, numbers of messages and restarts:

- `StoreRefExact` and `StoreOncePerClient`;
- `StoreSurvivesRestart`: in every reachable state;
- `StoreRetainedFound`, if no filter is shared: `retain__queue` searches with the
  filter after the share name, which is another filter. The one case the search passes
  over (`Missed`: `$foo/#` and a message on `$foo` with nothing below it) is excepted.

A reference is a record: where it is and where it leads. `Balanced(store, R)` says that
every count is the number of references of the set R, which in the middle of an
operation need not be what the lists hold; for instance a guard stands for the
reference by which `sub__messages_queue` protects its message. `RefInc` and
`RefDec` keep it, with a reference added or taken away, and each operation ends with
R equal to all references (`AllRefs`). `StoreInv` adds `AtNodes` (a retained message is at
the node of its topic and has a payload), `Once`, and `Waiting`: a message that waits for its
PUBREL has one reference, and is not one of the broker's own. Since retained
messages are at different nodes, `retain__store` never finds an older one while the file is
read. For the restart, a list of the file is a selection from a list of the broker and
a list after the restart one from a list of the file; `Picks(s, t, n, X)` says that s
is what the ids X select from the first n of t, a selection from a selection is one
(`PicksTwice`), and two selections by the same ids are equal (`PicksOne`). That
nothing needed is left out of the file comes from the counts: what is
referred to has a count above zero (`ReferredCounted`). The
retained search is handled like that of the tree (`Found`, `FindIs`, `FoundMatches`).

The constants are assumed to be what the code makes sure of before: topics and
filters have passed the checks of `mosquitto_pub_topic_check` and
`mosquitto_sub_topic_check` and are not empty, clients do not publish below `$SYS` and
`$share` (`acl__check_dollar`, `M/src/security.c:646`; they may below any other `$`
level), the broker's own topics are below `$SYS`,
options have their types, bounds are numbers and the clients are finitely many. TLC evaluates
the assumptions in every run.

Only model-checked:

- `InOrder`, which holds only without expiry and would need the order of
  two lists through the loops of the reset;
- `ImplementsSubscriptions`, which needs more than who has a leaf where: also its
  options, through the restart;
- `EventuallyDelivered`, `EventuallyConfirmed` and `EventuallyWritten`, which need
  fairness and are out of the prover's reach. The refinements are proved for the
  safety part of the abstract specifications, which is all they have.

## 5. Abstract specifications

`StoreAndForward`, `ExactlyOnce` and `SubscriptionService` are the three promises a
user of MQTT relies on: a message accepted for a session is kept until it is
received, a QoS 2 publication is routed exactly once, and subscriptions live as
long as the session. Each is a small module without packets, lists or contexts,
instantiated with a refinement mapping in `Delivery`, `Ingress` and `Sessions` and
checked as a property of the detailed specification. The first two refinements are
also proved (section 4).

## 6. Where the code and its documents disagree

Two are kept as runs (`PROJECT.json`, findings):

- `find_once`: `handle__pubrel` of the client library removes a QoS 2 message without
  the callback when its PUBCOMP cannot be written, and confirms the repeated PUBREL
  after the reconnection, so that the broker forgets the message too
  (`ReceivePubrelFails`, `M/lib/handle_pubrel.c:96`; `M/man/mqtt.7.xml:124` promises
  exactly once). With `Threaded = TRUE` the same property fails by a second delivery
  (`ReceiveQos2`, below).
- `find_stop`: `mosquitto_disconnect` while the network thread is in
  `mosquitto__reconnect` is overwritten, and `mosquitto_loop_stop` waits for ever;
  `handle__connack` overwrites it as well (`LoopConnack`,
  `M/lib/handle_connack.c:117`).

The following were met while modelling. The definitions named show them; the
passing runs are set up so that they do not occur, or the properties allow them.

Message delivery:

- after an acknowledgement at the head of a full window the refill counts from the
  position of the removed message, and more messages than `max_inflight_messages`
  are inflight (`RefillFrom`, `M/src/database.c:359`,
  `M/man/mosquitto.conf.5.xml:597`);
- a QoS 2 message left in `resend_pubrel` by a resumption that failed is published
  from the start at the next one (`ResetState`, `M/src/database.c:792`;
  `SendFailures`);
- the client library stores a repeated QoS 2 PUBLISH a second time and a repeated
  PUBREL delivers the copy (`ReceiveQos2`, `M/lib/handle_publish.c:158`);
- a QoS 0 message dequeued at a resumption takes quota that is never given back,
  and with a window of one a QoS 1 message waits for ever (`Dequeue`,
  `M/src/database.c:333`; `QueueQos0`);
- with a publisher window above the broker's, a repeated PUBLISH of a queued QoS 2
  message is answered with PUBREC and its PUBREL, not found, with PUBCOMP: the
  publisher is told it is done while nothing routes it (`HandlePubrel`,
  `M/src/handle_publish.c:318`, `M/src/database.c:939`);
- a client library with more QoS 2 messages pending than its new window forgets
  that a message had its PUBREC and publishes it again (`RetryState`,
  `M/lib/messages_mosq.c:184`). Its window need not change for that: with a
  broker that queues, a message may be answered with two PUBCOMPs, each raises the
  quota, and the library has more messages on their way than its window. The message is
  then routed twice (TLC, with `MaxPublish = 6`, `MaxDrops = 4`, QoS 2, `Window = 2`,
  `Maxima = {1}`, MQTT 3.1.1); `RoutedOnce` excludes it by `WithinWindow`;
- QoS 0 messages are not counted in `max_queued_messages` (`ReadyForQueue`;
  `M/man/mosquitto.conf.5.xml:918` says they are); the reset marks one queued
  message and moves another (`ReconnectReset`, `M/src/database.c:826`); an expired
  message at a resumption frees the window and a later message overtakes a queued
  one (`Write`, `M/src/database.c:1003`); message ids are reused while in use once
  the counter has wrapped (`NextMid`, `M/lib/util_mosq.c:149`).

Sessions and storage:

- the list of delayed wills is in the order of the delays and not of the times, and
  the check stops at the first that is not due: a will may be late
  (`WillDelayAdd`, `M/src/will_delay.c:35`);
- the takeover moves the normal subscriptions of a session; shared ones stay with
  the old context and end with it (`ResumeSession`, `M/src/handle_connect.c:164`;
  `M/man/mqtt.7.xml:145` speaks of subscriptions without exception);
- a restored session is not on the list of sessions that expire and stays until
  its client returns (`Restored`, `M/src/persist_read.c:215`, with a FIXME;
  `M/mosquitto.conf:126` promises that unused sessions are removed);
- a `$SYS` message that only one durable client still has queued, and that was
  sent to it as a retained message, looks to the save like one that is only
  retained and is not saved (`OnlyRetained`, `M/src/persist_write.c:104`);
- a message that is retained on a topic of a single level with `$`, which clients may
  use, is not found by a subscription to `$foo/#` while nothing is below it, though
  `mosquitto_topic_matches_sub` matches the two (`Missed`, `M/src/retain.c:220`, `237`;
  `M/src/security.c:672`);
- a message restored in its last second gets the interval 0, which means that it
  never expires (`Restored` of `MessageStore`, `M/src/persist_read.c:290`);
- a publication on a topic below `$share` is tokenised like a shared subscription,
  and finds the subscribers of the rest of the topic (`Tokenise`,
  `M/src/topic_tok.c`); for a shared subscription `retain__queue` searches with the rest
  of its filter, too.

Client threads:

- `do_client_disconnect` unlocks `current_out_packet_mutex`, which on the path of a
  DISCONNECT received from the broker nobody has locked (`M/lib/connect.c:299`);
- the socket is valid before CONNECT is queued, so a publication of the
  application's thread may precede CONNECT on the new connection (`LoopDial`,
  `LoopConnect`).

Dynamic security:

- the file name of `dynsec__config_save` has room for the name of the old file only, so
  `.new` is cut off, the live file is emptied and written in place, and the `rename`
  that follows does nothing: a broker killed meanwhile starts without clients, groups and
  roles (`KillInSave`, `M/plugins/dynamic-security/plugin.c:443`, `450`, `464`; the
  comment at 463 says that a new file is moved over the proper one);
- a `modifyClient` that names a role that does not exist reports an error, with the new
  client id and password in force until the next restart, or for good if another command saves
  them (`ModifyClientFails`, `M/plugins/dynamic-security/clients.c:804`);
- `createClient`, `createGroup` and `modifyGroup` with roles write the list of the
  client or group and not that of the role: `deleteRole` then does not find them
  (`CreateClient`, `CreateGroup`, `ModifyGroup` with `Plain = FALSE`);
- a `createClient` that names a group that does not exist leaves the freed client
  in the lists of the groups before it (`M/plugins/dynamic-security/clients.c:444`);
- `deleteGroup` does not look whether the group is the anonymous one
  (`M/plugins/dynamic-security/groups.c:452`);
- `modifyRole` disconnects nobody, and `modifyGroup` not the clients it takes out
  of the group (`Unenforced`).

## 7. Not modelled

- *The library libevent* and the other libraries in the tree (uthash, cJSON, the
  C++ wrappers) and their headers: third-party code that the repository only uses.
  Most of the repository's lines are theirs.
- *The libevent servers*: the pool of connections of the server with worker threads
  is shared between threads without locks, free connections keep armed timers, and
  the transfer server deletes items that its list keeps. A model whose runs pass
  would have to leave out just that; the hazards list the place in the pool.
- *Configuration, logging, TLS, sockets, websockets, the wire format, persistence
  file formats, password hashing*: parsing, encoding and input/output around the
  models. The options that matter are constants.
- *Bridges*: a second kind of session with its own reconnection and topic mapping;
  the modelled functions are modelled for ordinary clients.
- *Command line programs, samples, serial port and memory tools*: linear programs
  over the library or a device.

Possible next steps: a proof of `ImplementsSubscriptions`; bridges as a composition of
`Ingress` and `Delivery`.
