--------------------------- MODULE ClientThreads ---------------------------
(***************************************************************************)
(* The client library with a network thread (mosquitto_loop_start): the    *)
(* application's thread queues packets and asks for the end, the network   *)
(* thread waits in select(), writes, reads, calls the application back and *)
(* reconnects.  They share the queue of outgoing packets, the socket, the  *)
(* state and a pair of connected sockets that wakes select().              *)
(*                                                                         *)
(* The sections under out_packet_mutex are single steps.  In this mode     *)
(* only the network thread takes current_out_packet_mutex.  The socket is  *)
(* read and set without a lock, as in the code.  Publications have QoS 0;  *)
(* those of QoS 1 and 2 are also in lists and are sent again (Ingress).    *)
(***************************************************************************)
EXTENDS Naturals, Sequences, SequencesExt, FiniteSets

CONSTANTS
    MaxPublish,  \* bound: publications
    MaxDrops,    \* bound: broken connections
    MaxFails,    \* bound: failed attempts to connect
    MaxBlocks    \* bound: how often the socket is full

ASSUME BoundAssumption == {MaxPublish, MaxDrops, MaxFails, MaxBlocks} \subseteq Nat

VARIABLES
    app,        \* the application's thread: what it does next
    loop,       \* the network thread: what it does next
    ready,      \* select() is asked to write; it reported a byte of the pair
    sock,       \* number of the connection, 0 for INVALID_SOCKET
    state,      \* mosq->state
    out_packet, out_packet_last,   \* the queue and the end of its linked list
    current,    \* at most one packet, the one being written
    to_process, \* halves of it still to be written
    pair,       \* bytes in the socket pair
    wire,       \* history: the halves written to every connection
    dropped,    \* history: packets thrown away
    count,      \* what has happened so far, for the bounds; the last connection
                \* for which the broker has sent its CONNACK
    asked       \* mosquitto_disconnect has been called

queueVars == <<out_packet, out_packet_last, current, to_process>>
vars == <<app, loop, ready, sock, state, queueVars, pair, wire, dropped, count, asked>>

None == [n |-> 0, kind |-> "none"]
Packet(kind) == [n |-> count.packets + 1, kind |-> kind]
Connections == 1..(MaxDrops + 1)
Nothing == [pair |-> FALSE, write |-> FALSE]

Init ==
    /\ app = "idle" /\ loop = "loop" /\ ready = Nothing
    /\ sock = 1 /\ state = "active"
    /\ out_packet = <<>> /\ out_packet_last = None /\ current = None /\ to_process = 0
    /\ pair = 0 /\ wire = [c \in Connections |-> <<>>] /\ dropped = {}
    /\ count = [packets |-> 0, published |-> 0, drops |-> 0, fails |-> 0, blocks |-> 0,
                connack |-> 1]
    /\ asked = FALSE

-----------------------------------------------------------------------------
(* packet__queue under its mutex: the packet is linked behind the last one.*)
Enqueue(p) ==
    /\ out_packet' = IF out_packet = <<>> THEN <<p>>
                     ELSE IF out_packet_last = Last(out_packet) THEN Append(out_packet, p)
                     ELSE out_packet
    /\ out_packet_last' = p

(* Fault: the packet taken stays at the head of the queue.                 *)
TakeNextAgain ==
    /\ current' = IF out_packet = <<>> THEN None ELSE Head(out_packet)
    /\ out_packet' = IF current = None THEN out_packet
                     ELSE IF out_packet = <<>> THEN <<>> ELSE Tail(out_packet)
    /\ UNCHANGED out_packet_last
    /\ to_process' = 2

(* The next packet moves from the queue to current_out_packet.             *)
TakeNext ==
    /\ current' = IF out_packet = <<>> THEN None ELSE Head(out_packet)
    /\ out_packet' = IF out_packet = <<>> THEN <<>> ELSE Tail(out_packet)
    /\ out_packet_last' = IF Len(out_packet) = 1 THEN None ELSE out_packet_last
    /\ to_process' = 2

(* mosquitto_publish with QoS 0 up to packet__queue: there is a socket.    *)
AppPublish ==
    /\ app = "idle" /\ ~asked
    /\ count.published < MaxPublish
    /\ sock # 0
    /\ app' = "publish"
    /\ UNCHANGED <<loop, ready, sock, state, queueVars, pair, wire, dropped, count, asked>>

(* mosquitto_disconnect: the state, then the socket is looked at.          *)
AppDisconnect ==
    /\ app = "idle" /\ ~asked
    /\ asked' = TRUE
    /\ state' = "disconnected"
    /\ app' = "disconnect"
    /\ UNCHANGED <<loop, ready, sock, queueVars, pair, wire, dropped, count>>

AppNotConnected ==
    /\ app = "disconnect" /\ sock = 0
    /\ app' = "idle"
    /\ UNCHANGED <<loop, ready, sock, state, queueVars, pair, wire, dropped, count, asked>>

(* Fault: no byte is written.                                              *)
AppQueueSilently ==
    /\ app = "publish" \/ (app = "disconnect" /\ sock # 0)
    /\ Enqueue(Packet(IF app = "publish" THEN "PUBLISH" ELSE "DISCONNECT"))
    /\ count' = [count EXCEPT !.packets = @ + 1,
                              !.published = IF app = "publish" THEN @ + 1 ELSE @]
    /\ app' = "idle"
    /\ UNCHANGED <<loop, ready, sock, state, current, to_process, pair, wire, dropped, asked>>

(* packet__queue: the list first, then a byte to wake select().            *)
AppQueue ==
    /\ app = "publish" \/ (app = "disconnect" /\ sock # 0)
    /\ Enqueue(Packet(IF app = "publish" THEN "PUBLISH" ELSE "DISCONNECT"))
    /\ count' = [count EXCEPT !.packets = @ + 1,
                              !.published = IF app = "publish" THEN @ + 1 ELSE @]
    /\ app' = "wake"
    /\ UNCHANGED <<loop, ready, sock, state, current, to_process, pair, wire, dropped, asked>>

AppWake ==
    /\ app = "wake"
    /\ pair' = pair + 1
    /\ app' = "idle"
    /\ UNCHANGED <<loop, ready, sock, state, queueVars, wire, dropped, count, asked>>

(* mosquitto_loop_stop without force: a byte, then pthread_join.           *)
AppStop ==
    /\ app = "idle" /\ asked
    /\ pair' = pair + 1
    /\ app' = "join"
    /\ UNCHANGED <<loop, ready, sock, state, queueVars, wire, dropped, count, asked>>

AppJoined ==
    /\ app = "join" /\ loop = "ended"
    /\ app' = "done"
    /\ UNCHANGED <<loop, ready, sock, state, queueVars, pair, wire, dropped, count, asked>>
-----------------------------------------------------------------------------
(* Fault: a packet half written is not looked for.                         *)
LoopBeginQueue ==
    /\ loop = "loop"
    /\ loop' = IF sock = 0 THEN "retry" ELSE "select"
    /\ ready' = [Nothing EXCEPT !.write = out_packet # <<>>]
    /\ UNCHANGED <<app, sock, state, queueVars, pair, wire, dropped, count, asked>>

(* mosquitto_loop up to select(): is there something to write?             *)
LoopBegin ==
    /\ loop = "loop"
    /\ loop' = IF sock = 0 THEN "retry" ELSE "select"
    /\ ready' = [Nothing EXCEPT !.write = out_packet # <<>> \/ current # None]
    /\ UNCHANGED <<app, sock, state, queueVars, pair, wire, dropped, count, asked>>

(* select() returns: something came from the broker, a byte came from the  *)
(* pair, or the socket can be written.                                     *)
LoopSelect(read) ==
    /\ loop = "select"
    /\ read \/ pair > 0 \/ ready.write
    /\ ready' = [ready EXCEPT !.pair = pair > 0]
    /\ loop' = IF read THEN "read" ELSE "pair"
    /\ UNCHANGED <<app, sock, state, queueVars, pair, wire, dropped, count, asked>>

(* The byte is read and stands for a writable socket, as the packet was    *)
(* not there when select() was called.                                     *)
LoopPair ==
    /\ loop = "pair"
    /\ pair' = IF ready.pair THEN pair - 1 ELSE pair
    /\ loop' = IF ready.write \/ ready.pair THEN "write" ELSE "loop"
    /\ UNCHANGED <<app, ready, sock, state, queueVars, wire, dropped, count, asked>>

(* Nothing is ready until the timeout: the keepalive interval or a day.    *)
LoopTimeout ==
    /\ loop = "select" /\ pair = 0 /\ ~ready.write
    /\ loop' = "loop" /\ ready' = Nothing
    /\ UNCHANGED <<app, sock, state, queueVars, pair, wire, dropped, count, asked>>

(* A call of the application's callback, in the network thread: it does    *)
(* nothing, or publishes, or disconnects (and sets the state, as in        *)
(* AppDisconnect).                                                         *)
CallBack(counted) ==
    \/ count' = counted /\ UNCHANGED <<out_packet, out_packet_last, asked, pair>>
    \/ /\ sock # 0 /\ count.published < MaxPublish
       /\ Enqueue(Packet("PUBLISH"))
       /\ count' = [counted EXCEPT !.packets = @ + 1, !.published = @ + 1]
       /\ pair' = pair + 1
       /\ UNCHANGED asked
    \/ /\ ~asked /\ sock # 0
       /\ asked' = TRUE
       /\ Enqueue(Packet("DISCONNECT"))
       /\ count' = [counted EXCEPT !.packets = @ + 1]
       /\ pair' = pair + 1

StateAfterCall == IF asked' # asked THEN "disconnected" ELSE state

(* packet__read of a message, with on_message.                             *)
LoopRead ==
    /\ loop = "read" /\ count.connack = sock
    /\ CallBack(count)
    /\ state' = StateAfterCall
    /\ loop' = "pair"
    /\ UNCHANGED <<app, ready, sock, current, to_process, wire, dropped>>

(* The CONNACK: handle__connack calls on_connect and then sets the state,  *)
(* whatever the callback or the application has made of it.                *)
LoopConnack ==
    /\ loop = "read" /\ count.connack # sock
    /\ \E i \in DOMAIN wire[sock] :
          wire[sock][i].packet.kind = "CONNECT" /\ wire[sock][i].left = 0
    /\ CallBack([count EXCEPT !.connack = sock])
    /\ state' = "active"
    /\ loop' = "pair"
    /\ UNCHANGED <<app, ready, sock, current, to_process, wire, dropped>>

(* do_client_disconnect: the next packet becomes the current one.          *)
DoClientDisconnect(rest) ==
    /\ state' = "disconnected" /\ sock' = 0
    /\ dropped' = dropped \cup rest
    /\ TakeNext

(* A DISCONNECT from the broker: handle__disconnect.                       *)
LoopDisconnected ==
    /\ loop = "read"
    /\ DoClientDisconnect({current} \ {None})
    /\ loop' = "loop"
    /\ UNCHANGED <<app, ready, pair, wire, count, asked>>

(* mosquitto__loop_rc_handle: the connection is closed, and on_disconnect  *)
(* may call mosquitto_disconnect, which finds no socket.                   *)
LoopLost ==
    /\ loop \in {"read", "writing"}
    /\ count.drops < MaxDrops
    /\ count' = [count EXCEPT !.drops = @ + 1]
    /\ sock' = 0
    /\ \/ UNCHANGED <<state, asked>>
       \/ ~asked /\ asked' = TRUE /\ state' = "disconnected"
    /\ loop' = "retry"
    /\ UNCHANGED <<app, ready, queueVars, pair, wire, dropped>>

(* packet__write takes the next packet, unless one is half written.        *)
LoopWrite ==
    /\ loop = "write"
    /\ IF current = None THEN TakeNext ELSE UNCHANGED queueVars
    /\ loop' = IF state = "connect_pending" THEN "loop" ELSE "writing"
    /\ UNCHANGED <<app, ready, sock, state, pair, wire, dropped, count, asked>>

(* net__write writes a part of the packet, or all that is left of it.      *)
LoopSend ==
    /\ loop = "writing" /\ current # None /\ to_process > 0
    /\ wire' = [wire EXCEPT ![sock] = Append(@, [packet |-> current, left |-> to_process - 1])]
    /\ to_process' = to_process - 1
    /\ UNCHANGED <<app, loop, ready, sock, state, out_packet, out_packet_last, current, pair,
                   dropped, count, asked>>

(* EAGAIN: the packet stays the current one.                               *)
LoopBlocked ==
    /\ loop = "writing" /\ current # None /\ to_process > 0
    /\ count.blocks < MaxBlocks
    /\ count' = [count EXCEPT !.blocks = @ + 1]
    /\ loop' = "loop"
    /\ UNCHANGED <<app, ready, sock, state, queueVars, pair, wire, dropped, asked>>

(* The packet is written: on_publish for a publication, the end of the     *)
(* connection for a DISCONNECT.                                            *)
LoopSent ==
    /\ loop = "writing" /\ current # None /\ to_process = 0
    /\ \/ /\ current.kind = "PUBLISH"
          /\ CallBack(count)
          /\ state' = StateAfterCall
          /\ loop' = "next"
          /\ UNCHANGED <<sock, dropped, current, to_process>>
       \/ /\ current.kind = "DISCONNECT"
          /\ DoClientDisconnect({})
          /\ loop' = "loop"
          /\ UNCHANGED <<pair, count, asked>>
       \/ /\ current.kind = "CONNECT"
          /\ loop' = "next"
          /\ UNCHANGED <<sock, state, queueVars, pair, dropped, count, asked>>
    /\ UNCHANGED <<app, ready, wire>>

LoopNext ==
    /\ loop = "next"
    /\ TakeNext
    /\ loop' = "writing"
    /\ UNCHANGED <<app, ready, sock, state, pair, wire, dropped, count, asked>>

LoopWritten ==
    /\ loop = "writing" /\ current = None
    /\ loop' = "loop"
    /\ UNCHANGED <<app, ready, sock, state, queueVars, pair, wire, dropped, count, asked>>
-----------------------------------------------------------------------------
(* mosquitto_loop_forever without a connection: has the end been asked     *)
(* for?  If not, sleep until a byte comes or the delay is over; the pair   *)
(* is emptied.  Then the state is looked at again.                         *)
LoopRetry ==
    /\ loop \in {"retry", "slept"}
    /\ IF loop = "retry" /\ state = "disconnected" THEN loop' = "ended" /\ UNCHANGED pair
       ELSE /\ loop' = IF loop = "retry" THEN "slept"
                        ELSE IF state = "disconnected" THEN "ended" ELSE "clean"
            /\ pair' = IF loop = "retry" \/ pair = 0 THEN 0 ELSE pair - 1
    /\ UNCHANGED <<app, ready, sock, state, queueVars, wire, dropped, count, asked>>

(* Fault: the packet that was being written is kept.                       *)
LoopCleanQueue ==
    /\ loop = "clean"
    /\ dropped' = dropped \cup Range(out_packet)
    /\ out_packet' = <<>>
    /\ loop' = "dial"
    /\ UNCHANGED <<app, ready, sock, state, out_packet_last, current, to_process, pair, wire,
                   count, asked>>

(* mosquitto_reconnect: packet__cleanup_all empties the queue.             *)
LoopClean ==
    /\ loop = "clean"
    /\ dropped' = dropped \cup Range(out_packet) \cup ({current} \ {None})
    /\ out_packet' = <<>> /\ current' = None /\ to_process' = 0
    /\ loop' = "dial"
    /\ UNCHANGED <<app, ready, sock, state, out_packet_last, pair, wire, count, asked>>

LoopDialFails ==
    /\ loop = "dial"
    /\ count.fails < MaxFails
    /\ count' = [count EXCEPT !.fails = @ + 1]
    /\ state' = "connect_pending"
    /\ loop' = "retry"
    /\ UNCHANGED <<app, ready, sock, queueVars, pair, wire, dropped, asked>>

(* net__socket_connect, and the state that goes with it.                   *)
LoopDial ==
    /\ loop = "dial"
    /\ sock' = count.drops + 1
    /\ loop' = "dialled"
    /\ UNCHANGED <<app, ready, state, queueVars, pair, wire, dropped, count, asked>>

LoopConnect ==
    /\ loop = "dialled"
    /\ state' = "active"
    /\ Enqueue(Packet("CONNECT"))
    /\ count' = [count EXCEPT !.packets = @ + 1]
    /\ pair' = pair + 1
    /\ loop' = "loop"
    /\ UNCHANGED <<app, ready, sock, current, to_process, wire, dropped, asked>>

LoopStep ==
    \/ LoopBegin \/ (\E read \in BOOLEAN : LoopSelect(read))
    \/ LoopRead \/ LoopConnack \/ LoopDisconnected \/ LoopLost \/ LoopPair
    \/ LoopWrite \/ LoopSend \/ LoopBlocked \/ LoopSent \/ LoopNext \/ LoopWritten
    \/ LoopRetry \/ LoopClean \/ LoopDialFails \/ LoopDial \/ LoopConnect

Finished == app \in {"idle", "done"} /\ loop = "ended" /\ UNCHANGED vars

Next ==
    \/ AppPublish \/ AppDisconnect \/ AppNotConnected \/ AppQueue \/ AppWake \/ AppStop \/ AppJoined
    \/ LoopStep \/ LoopTimeout
    \/ Finished

Spec == Init /\ [][Next]_vars

(* The threads run.  A step that waits for the broker is not fair, nor is  *)
(* the timeout of select(), which may be a day.                            *)
FairSpec ==
    /\ Spec
    /\ WF_vars(AppNotConnected) /\ WF_vars(AppQueue) /\ WF_vars(AppWake)
    /\ WF_vars(AppStop) /\ WF_vars(AppJoined)
    /\ WF_vars(LoopStep /\ (loop = "select" => pair > 0 \/ ready.write))
-----------------------------------------------------------------------------
Queued == Range(out_packet) \cup ({current} \ {None})
Written == UNION {{wire[c][i].packet : i \in {j \in DOMAIN wire[c] : wire[c][j].left = 0}} :
                     c \in Connections}

(* The network thread does not sleep on a packet: while it waits in        *)
(* select() without having asked to write, a packet in the queue has a     *)
(* byte in the pair with it, or its sender is about to write one.          *)
(* (packet__queue, mosquitto_loop: the order of the two steps.)            *)
NoLostWakeup ==
    loop = "select" /\ ~ready.write /\ Queued # {} => pair > 0 \/ app = "wake"

(* Packets are neither lost nor doubled: each one is in the queue, being   *)
(* written, written or thrown away by the end of a connection.  The end of *)
(* the linked list is what out_packet_last says.                           *)
Accounted ==
    /\ \A n \in 1..count.packets : \E p \in Queued \cup Written \cup dropped : p.n = n
    /\ out_packet # <<>> => out_packet_last = Last(out_packet)
    /\ \A p \in Range(out_packet) : p # current /\ p \notin Written \cup dropped

(* What a connection carries is whole packets, one after the other, in the *)
(* order in which they were queued; only the last may be incomplete.       *)
(* (current_out_packet, and packet__cleanup_all before a new connection.)  *)
WholePackets ==
    \A c \in Connections : \A i \in DOMAIN wire[c] :
        /\ wire[c][i].left = i % 2
        /\ i > 1 => IF i % 2 = 0 THEN wire[c][i].packet = wire[c][i - 1].packet
                    ELSE wire[c][i].packet.n > wire[c][i - 1].packet.n

(* A packet in the queue is eventually written or thrown away, or the      *)
(* network thread has ended.                                               *)
EventuallyWritten ==
    \A n \in 1..(MaxPublish + MaxDrops + 1) :
        (\E p \in Queued : p.n = n) ~>
            (loop = "ended" \/ \E p \in Written \cup dropped : p.n = n)

(* After mosquitto_disconnect the network thread ends.                     *)
DisconnectEndsLoop == asked ~> loop = "ended"
=============================================================================
