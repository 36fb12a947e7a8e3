------------------------ MODULE ClientThreadsProofs ------------------------
(***************************************************************************)
(* NoLostWakeup, Accounted and WholePackets for any number of publications,*)
(* broken connections, failed attempts and full sockets.                   *)
(***************************************************************************)
EXTENDS ClientThreads, TLAPS

Kinds == {"none", "CONNECT", "PUBLISH", "DISCONNECT"}
Packets == [n : Nat, kind : Kinds]
Counts == [packets : Nat, published : Nat, drops : 0..MaxDrops, fails : Nat, blocks : Nat,
           connack : Nat]
Halves == [packet : Packets, left : 0..1]

(* Types, and what the place of the network thread says about the socket   *)
(* and the pair.                                                           *)
Typed ==
    /\ ready \in [pair : BOOLEAN, write : BOOLEAN]
    /\ pair \in Nat
    /\ count \in Counts
    /\ sock \in 0..(MaxDrops + 1)
    /\ out_packet \in Seq(Packets) /\ out_packet_last \in Packets
    /\ current \in Packets /\ to_process \in 0..2
    /\ wire \in [Connections -> Seq(Halves)]
    /\ dropped \subseteq Packets
    /\ loop \in {"read", "pair"} /\ ready.pair => pair > 0
    /\ loop \in {"select", "read", "pair", "write", "writing", "next", "dialled"} => sock # 0

LEMMA Bounds == /\ MaxPublish \in Nat /\ MaxDrops \in Nat /\ MaxFails \in Nat /\ MaxBlocks \in Nat
BY BoundAssumption

LEMMA InitTyped == ASSUME Init PROVE Typed
<1>1. None \in Packets
  BY DEF None, Packets, Kinds
<1>2. count \in Counts
  BY Bounds DEF Init, Counts
<1>3. ready \in [pair : BOOLEAN, write : BOOLEAN] /\ ~ready.pair
  BY DEF Init, Nothing
<1>4. wire \in [Connections -> Seq(Halves)] /\ out_packet \in Seq(Packets)
  BY DEF Init
<1> QED BY <1>1, <1>2, <1>3, <1>4, Bounds DEF Init, Typed

LEMMA EnqueueTyped ==
    ASSUME Typed, NEW p \in Packets, Enqueue(p)
    PROVE  out_packet' \in Seq(Packets) /\ out_packet_last' \in Packets
BY DEF Typed, Enqueue

LEMMA PacketTyped ==
    ASSUME Typed, NEW kind \in Kinds PROVE Packet(kind) \in Packets
BY DEF Typed, Counts, Packet, Packets

LEMMA TakeNextTyped ==
    ASSUME Typed, TakeNext
    PROVE  /\ out_packet' \in Seq(Packets) /\ out_packet_last' \in Packets
           /\ current' \in Packets /\ to_process' \in 0..2
<1>1. None \in Packets
  BY DEF None, Packets, Kinds
<1>2. CASE out_packet = <<>>
  BY <1>1, <1>2 DEF Typed, TakeNext
<1>3. CASE out_packet # <<>>
  <2>1. Head(out_packet) \in Packets /\ Tail(out_packet) \in Seq(Packets)
  BY <1>3 DEF Typed
  <2> QED BY <1>1, <1>3, <2>1 DEF Typed, TakeNext
<1> QED BY <1>2, <1>3

(* The counters of each kind of event.                                     *)
LEMMA CountTyped ==
    ASSUME NEW c \in Counts
    PROVE  /\ [c EXCEPT !.packets = @ + 1] \in Counts
           /\ [c EXCEPT !.packets = @ + 1, !.published = @ + 1] \in Counts
           /\ [c EXCEPT !.fails = @ + 1] \in Counts
           /\ [c EXCEPT !.blocks = @ + 1] \in Counts
           /\ c.drops < MaxDrops => [c EXCEPT !.drops = @ + 1] \in Counts
<1>1. [c EXCEPT !.packets = @ + 1] \in Counts
  BY DEF Counts
<1>2. [c EXCEPT !.packets = @ + 1, !.published = @ + 1] \in Counts
  <2>1. ASSUME NEW x \in Counts PROVE [x EXCEPT !.published = @ + 1] \in Counts
  BY DEF Counts
  <2>2. [c EXCEPT !.packets = @ + 1, !.published = @ + 1]
            = [[c EXCEPT !.packets = @ + 1] EXCEPT !.published = @ + 1]
  BY DEF Counts
  <2> QED BY <1>1, <2>1, <2>2
<1>3. [c EXCEPT !.fails = @ + 1] \in Counts
  BY DEF Counts
<1>4. [c EXCEPT !.blocks = @ + 1] \in Counts
  BY DEF Counts
<1>5. ASSUME c.drops < MaxDrops PROVE [c EXCEPT !.drops = @ + 1] \in Counts
  <2>1. c.drops + 1 \in 0..MaxDrops
  BY <1>5, Bounds DEF Counts
  <2> QED BY <2>1 DEF Counts
<1> QED BY <1>1, <1>2, <1>3, <1>4, <1>5

(* A callback, of a message or a publication, or of a CONNACK.             *)
Counted == {count, [count EXCEPT !.connack = sock]}
CalledBack == \E counted \in Counted : CallBack(counted)

LEMMA CountedTyped ==
    ASSUME Typed, NEW c \in Counted
    PROVE  c \in Counts /\ c.packets = count.packets /\ c.drops = count.drops
<1>1. sock \in Nat /\ count \in Counts
  BY Bounds DEF Typed
<1> QED BY <1>1 DEF Counted, Counts

LEMMA CallBackTyped ==
    ASSUME Typed, CalledBack
    PROVE  /\ out_packet' \in Seq(Packets) /\ out_packet_last' \in Packets
           /\ count' \in Counts /\ pair' \in Nat /\ pair' >= pair
<1>0. PICK c \in Counted : CallBack(c)
  BY DEF CalledBack
<1>c. c \in Counts
  BY CountedTyped
<1>1. Packet("PUBLISH") \in Packets /\ Packet("DISCONNECT") \in Packets
  BY PacketTyped DEF Kinds
<1>2. CASE UNCHANGED <<out_packet, out_packet_last, pair>> /\ count' = c
  BY <1>c, <1>2 DEF Typed
<1>3. CASE Enqueue(Packet("PUBLISH")) /\ pair' = pair + 1
           /\ count' = [c EXCEPT !.packets = @ + 1, !.published = @ + 1]
  <2>1. out_packet' \in Seq(Packets) /\ out_packet_last' \in Packets
  BY <1>1, <1>3, EnqueueTyped
  <2>2. count' \in Counts
  BY <1>c, <1>3, CountTyped, Zenon
  <2> QED BY <1>3, <2>1, <2>2 DEF Typed
<1>4. CASE Enqueue(Packet("DISCONNECT")) /\ pair' = pair + 1
           /\ count' = [c EXCEPT !.packets = @ + 1]
  <2>1. out_packet' \in Seq(Packets) /\ out_packet_last' \in Packets
  BY <1>1, <1>4, EnqueueTyped
  <2>2. count' \in Counts
  BY <1>c, <1>4, CountTyped, Zenon
  <2> QED BY <1>4, <2>1, <2>2 DEF Typed
<1> QED BY <1>0, <1>2, <1>3, <1>4 DEF CallBack

LEMMA AppTyped ==
    ASSUME Typed, \/ AppPublish \/ AppDisconnect \/ AppNotConnected \/ AppQueue \/ AppWake
                  \/ AppStop \/ AppJoined
    PROVE  Typed'
<1>1. CASE AppPublish \/ AppDisconnect \/ AppNotConnected \/ AppJoined
  BY <1>1 DEF Typed, AppPublish, AppDisconnect, AppNotConnected, AppJoined, queueVars
<1>2. CASE AppQueue
  <2>1. out_packet' \in Seq(Packets) /\ out_packet_last' \in Packets
  BY <1>2, EnqueueTyped, PacketTyped DEF AppQueue, Kinds
  <2>2. count' \in Counts
    <3>1. CASE app = "publish"
    BY <1>2, <3>1, CountTyped, Zenon DEF AppQueue, Typed
    <3>2. CASE app # "publish"
      <4>1. count' = [count EXCEPT !.packets = @ + 1]
      BY <1>2, <3>2 DEF AppQueue, Typed, Counts
      <4> QED BY <4>1, CountTyped, Zenon DEF Typed
    <3> QED BY <3>1, <3>2
  <2> QED BY <1>2, <2>1, <2>2 DEF Typed, AppQueue
<1>3. CASE AppWake \/ AppStop
  BY <1>3 DEF Typed, AppWake, AppStop, queueVars
<1> QED BY <1>1, <1>2, <1>3

LEMMA LoopTyped ==
    ASSUME Typed, LoopStep \/ LoopTimeout PROVE Typed'
<1>1. CASE LoopBegin
  BY <1>1 DEF Typed, LoopBegin, Nothing, queueVars
<1>2. CASE \E read \in BOOLEAN : LoopSelect(read)
  <2>1. ready' \in [pair : BOOLEAN, write : BOOLEAN] /\ (ready'.pair => pair > 0)
    <3>1. CASE pair > 0 /\ ready' = [ready EXCEPT !.pair = TRUE]
    BY <3>1 DEF Typed
    <3>2. CASE ~(pair > 0) /\ ready' = [ready EXCEPT !.pair = FALSE]
    BY <3>2 DEF Typed
    <3>3. ready' = [ready EXCEPT !.pair = (pair > 0)] /\ (pair > 0) \in BOOLEAN
    BY <1>2 DEF LoopSelect
    <3> QED BY <3>1, <3>2, <3>3
  <2> QED BY <1>2, <2>1 DEF Typed, LoopSelect, queueVars
<1>3. CASE LoopRead
  BY <1>3, CallBackTyped DEF Typed, LoopRead, CalledBack, Counted
<1>3c. CASE LoopConnack
  BY <1>3c, CallBackTyped DEF Typed, LoopConnack, CalledBack, Counted
<1>4. CASE LoopDisconnected
  <2>1. current' \in Packets /\ out_packet' \in Seq(Packets) /\ out_packet_last' \in Packets
        /\ to_process' \in 0..2
  BY <1>4, TakeNextTyped DEF LoopDisconnected, DoClientDisconnect
  <2> QED BY <1>4, <2>1, Bounds DEF Typed, LoopDisconnected, DoClientDisconnect
<1>5. CASE LoopLost
  <2>1. count' \in Counts
  BY <1>5, CountTyped, Zenon DEF Typed, LoopLost
  <2> QED BY <1>5, <2>1, Bounds DEF Typed, LoopLost, queueVars
<1>6. CASE LoopPair
  BY <1>6 DEF Typed, LoopPair, queueVars
<1>7. CASE LoopWrite
  <2>1. current' \in Packets /\ out_packet' \in Seq(Packets) /\ out_packet_last' \in Packets
        /\ to_process' \in 0..2
  BY <1>7, TakeNextTyped DEF Typed, LoopWrite, queueVars
  <2> QED BY <1>7, <2>1 DEF Typed, LoopWrite
<1>8. CASE LoopSend
  <2>1. [packet |-> current, left |-> to_process - 1] \in Halves
  BY <1>8 DEF Typed, LoopSend, Halves
  <2>2. sock \in Connections
  BY <1>8, Bounds DEF Typed, LoopSend, Connections
  <2>3. wire' \in [Connections -> Seq(Halves)]
  BY <1>8, <2>1, <2>2 DEF Typed, LoopSend
  <2> QED BY <1>8, <2>3 DEF Typed, LoopSend
<1>9. CASE LoopBlocked
  <2>1. count' \in Counts
  BY <1>9, CountTyped, Zenon DEF Typed, LoopBlocked
  <2> QED BY <1>9, <2>1 DEF Typed, LoopBlocked, queueVars
<1>10. CASE LoopSent
  <2>1. CASE current.kind = "PUBLISH" /\ CallBack(count) /\ loop' = "next"
             /\ UNCHANGED <<sock, dropped, current, to_process>>
  BY <1>10, <2>1, CallBackTyped DEF Typed, LoopSent, CalledBack, Counted
  <2>2. CASE DoClientDisconnect({}) /\ loop' = "loop" /\ UNCHANGED <<pair, count, asked>>
    <3>1. current' \in Packets /\ out_packet' \in Seq(Packets) /\ out_packet_last' \in Packets
          /\ to_process' \in 0..2
    BY <2>2, TakeNextTyped DEF DoClientDisconnect
    <3> QED BY <1>10, <2>2, <3>1, Bounds DEF Typed, LoopSent, DoClientDisconnect
  <2>3. CASE loop' = "next" /\ UNCHANGED <<sock, state, queueVars, pair, dropped, count, asked>>
  BY <1>10, <2>3 DEF Typed, LoopSent, queueVars
  <2> QED BY <1>10, <2>1, <2>2, <2>3 DEF LoopSent
<1>11. CASE LoopNext
  <2>1. current' \in Packets /\ out_packet' \in Seq(Packets) /\ out_packet_last' \in Packets
        /\ to_process' \in 0..2
  BY <1>11, TakeNextTyped DEF LoopNext
  <2> QED BY <1>11, <2>1 DEF Typed, LoopNext
<1>12. CASE LoopWritten \/ LoopTimeout
  <2>1. CASE LoopWritten
  BY <2>1 DEF Typed, LoopWritten, queueVars
  <2>2. CASE LoopTimeout
  BY <2>2 DEF Typed, LoopTimeout, Nothing, queueVars
  <2> QED BY <1>12, <2>1, <2>2
<1>13. CASE LoopRetry
  BY <1>13 DEF Typed, LoopRetry, queueVars
<1>14. CASE LoopClean
  <2>1. None \in Packets
  BY DEF None, Packets, Kinds
  <2>2. Range(out_packet) \subseteq Packets
  BY DEF Typed, Range
  <2> QED BY <1>14, <2>1, <2>2 DEF Typed, LoopClean
<1>15. CASE LoopDialFails
  <2>1. count' \in Counts
  BY <1>15, CountTyped, Zenon DEF Typed, LoopDialFails
  <2> QED BY <1>15, <2>1 DEF Typed, LoopDialFails, queueVars
<1>16. CASE LoopDial
  <2>1. count.drops \in 0..MaxDrops
  BY DEF Typed, Counts
  <2> QED BY <1>16, <2>1, Bounds DEF Typed, LoopDial, queueVars
<1>17. CASE LoopConnect
  <2>1. out_packet' \in Seq(Packets) /\ out_packet_last' \in Packets
  BY <1>17, EnqueueTyped, PacketTyped DEF LoopConnect, Kinds
  <2>2. count' \in Counts
  BY <1>17, CountTyped, Zenon DEF Typed, LoopConnect
  <2> QED BY <1>17, <2>1, <2>2 DEF Typed, LoopConnect
<1> QED BY <1>1, <1>2, <1>3, <1>3c, <1>4, <1>5, <1>6, <1>7, <1>8, <1>9, <1>10, <1>11, <1>12, <1>13, <1>14,
      <1>15, <1>16, <1>17 DEF LoopStep

LEMMA StepTyped ==
    ASSUME Typed, [Next]_vars PROVE Typed'
<1>1. CASE UNCHANGED vars
  BY <1>1 DEF Typed, vars, queueVars
<1> QED BY <1>1, AppTyped, LoopTyped DEF Next, Finished
-----------------------------------------------------------------------------
LEMMA StepWakeup ==
    ASSUME Typed, NoLostWakeup, [Next]_vars PROVE NoLostWakeup'
<1>1. CASE UNCHANGED vars \/ Finished
  BY <1>1 DEF NoLostWakeup, Queued, Finished, vars, queueVars
<1>2. CASE AppPublish \/ AppDisconnect \/ AppNotConnected \/ AppJoined
  BY <1>2 DEF NoLostWakeup, Queued, AppPublish, AppDisconnect, AppNotConnected, AppJoined, queueVars
<1>3. CASE AppQueue
  BY <1>3 DEF NoLostWakeup, AppQueue
<1>4. CASE AppWake \/ AppStop
  BY <1>4 DEF NoLostWakeup, Typed, AppWake, AppStop
<1>5. CASE LoopBegin
  <2>1. SUFFICES ASSUME ~ready'.write PROVE Queued' = {}
  BY DEF NoLostWakeup
  <2>2. out_packet = <<>> /\ current = None
  BY <1>5, <2>1 DEF LoopBegin, Nothing
  <2>3. Range(<<>>) = {}
  BY DEF Range
  <2> QED BY <1>5, <2>2, <2>3 DEF LoopBegin, Queued, queueVars, None
<1>6. CASE loop' # "select"
  BY <1>6 DEF NoLostWakeup
<1>7. ASSUME LoopStep \/ LoopTimeout, ~LoopBegin PROVE loop' # "select"
  BY <1>7, Zenon DEF LoopStep, LoopTimeout, LoopSelect, LoopRead, LoopConnack, LoopDisconnected, LoopLost,
      LoopPair,
      LoopWrite, LoopSend, LoopBlocked, LoopSent, LoopNext, LoopWritten, LoopRetry, LoopClean,
      LoopDialFails, LoopDial, LoopConnect
<1> QED BY <1>1, <1>2, <1>3, <1>4, <1>5, <1>6, <1>7 DEF Next

(* The network thread never sleeps on a packet, for any number of          *)
(* publications and broken connections: packet__queue puts the packet into *)
(* the list before it writes the byte, mosquitto_loop looks at the list    *)
(* before it calls select().                                               *)
THEOREM AlwaysWoken == Spec => []NoLostWakeup
<1>1. Init => Typed /\ NoLostWakeup
  BY InitTyped DEF Init, NoLostWakeup
<1>2. Typed /\ NoLostWakeup /\ [Next]_vars => Typed' /\ NoLostWakeup'
  BY StepTyped, StepWakeup
<1> QED BY <1>1, <1>2, PTL DEF Spec
-----------------------------------------------------------------------------
(* What Accounted needs: packets are numbered in the order of the queue,   *)
(* and a packet leaves current_out_packet when it has been written.        *)
Numbered ==
    /\ \A p \in Queued \cup Written \cup dropped : p.n \in 1..count.packets
    /\ \A i, j \in DOMAIN out_packet : i < j => out_packet[i].n < out_packet[j].n
    /\ current # None /\ to_process = 0 => current \in Written
    /\ loop = "next" => current # None /\ to_process = 0

Books == Accounted /\ Numbered

LEMMA RangeAppend ==
    ASSUME NEW S, NEW s \in Seq(S), NEW e \in S
    PROVE  Range(Append(s, e)) = Range(s) \cup {e}
<1> DEFINE t == Append(s, e)
<1>1. DOMAIN s = 1..Len(s) /\ DOMAIN t = 1..(Len(s) + 1) /\ Len(s) \in Nat
  OBVIOUS
<1>2. \A i \in 1..Len(s) : t[i] = s[i]
  OBVIOUS
<1>3. t[Len(s) + 1] = e
  OBVIOUS
<1> HIDE DEF t
<1>4. Range(t) \subseteq Range(s) \cup {e}
  BY <1>1, <1>2, <1>3 DEF Range
<1>5. Range(s) \cup {e} \subseteq Range(t)
  BY <1>1, <1>2, <1>3 DEF Range
<1> QED BY <1>4, <1>5 DEF t

LEMMA RangeTail ==
    ASSUME NEW S, NEW s \in Seq(S), s # <<>>
    PROVE  Range(s) = Range(Tail(s)) \cup {Head(s)}
<1> DEFINE t == Tail(s)
<1>1. DOMAIN s = 1..Len(s) /\ DOMAIN t = 1..(Len(s) - 1) /\ Len(s) \in Nat \ {0}
  OBVIOUS
<1>2. \A i \in 1..(Len(s) - 1) : t[i] = s[i + 1]
  OBVIOUS
<1>3. Head(s) = s[1]
  OBVIOUS
<1> HIDE DEF t
<1>4. Range(s) \subseteq Range(t) \cup {s[1]}
  <2> SUFFICES ASSUME NEW i \in 1..Len(s) PROVE s[i] \in Range(t) \cup {s[1]}
    BY <1>1 DEF Range
  <2>1. CASE i = 1
    BY <2>1
  <2>2. CASE i # 1
    <3>1. i - 1 \in DOMAIN t /\ t[i - 1] = s[i]
      BY <1>1, <1>2, <2>2
    <3> QED BY <3>1 DEF Range
  <2> QED BY <2>1, <2>2
<1>5. Range(t) \cup {s[1]} \subseteq Range(s)
  BY <1>1, <1>2 DEF Range
<1> QED BY <1>3, <1>4, <1>5 DEF t

(* packet__queue: a new packet, behind all others.                         *)
LEMMA EnqueueBooks ==
    ASSUME Typed, Books, NEW kind \in Kinds \ {"none"}, Enqueue(Packet(kind)),
           count'.packets = count.packets + 1, UNCHANGED <<current, to_process, wire, dropped>>,
           loop' # "next" \/ loop = "next" \/ (current # None /\ to_process = 0)
    PROVE  Books'
<1> DEFINE p == Packet(kind)
<1>1. p \in Packets /\ p.n = count.packets + 1
  BY PacketTyped DEF Packet
<1>2. count.packets \in Nat
  BY DEF Typed, Counts
<1> HIDE DEF p
<1>3. out_packet' = Append(out_packet, p) /\ out_packet_last' = p
  <2>1. CASE out_packet = <<>>
    <3>1. Append(<<>>, p) = <<p>>
      OBVIOUS
    <3> QED BY <2>1, <3>1 DEF Enqueue, p
  <2>2. CASE out_packet # <<>>
    BY <2>2 DEF Enqueue, Books, Accounted, p
  <2> QED BY <2>1, <2>2
<1>4. Range(out_packet') = Range(out_packet) \cup {p}
  BY <1>1, <1>3, RangeAppend DEF Typed
<1>5. Written' = Written
  BY DEF Written
<1>6. Queued' = Queued \cup {p}
  BY <1>4 DEF Queued
<1>7. \A q \in Queued \cup Written \cup dropped : q # p
  BY <1>1, <1>2 DEF Books, Numbered
<1>8. Accounted'
  <2>1. \A n \in 1..count'.packets : \E q \in Queued' \cup Written' \cup dropped' : q.n = n
    BY <1>1, <1>2, <1>5, <1>6 DEF Books, Accounted
  <2>2. out_packet_last' = Last(out_packet')
    BY <1>1, <1>3 DEF Last, Typed
  <2>3. p # current
    <3>1. CASE current = None
      BY <1>1, <1>2, <3>1 DEF None
    <3>2. CASE current # None
      BY <1>7, <3>2 DEF Queued
    <3> QED BY <3>1, <3>2
  <2>4. \A q \in Range(out_packet') : q # current' /\ q \notin Written' \cup dropped'
    BY <1>4, <1>5, <1>7, <2>3 DEF Books, Accounted
  <2> QED BY <2>1, <2>2, <2>4 DEF Accounted
<1>9. Numbered'
  <2>1. \A q \in Queued' \cup Written' \cup dropped' : q.n \in 1..count'.packets
    BY <1>1, <1>2, <1>5, <1>6 DEF Books, Numbered
  <2>2. \A i, j \in DOMAIN out_packet' : i < j => out_packet'[i].n < out_packet'[j].n
    <3> SUFFICES ASSUME NEW i \in DOMAIN out_packet', NEW j \in DOMAIN out_packet', i < j
                 PROVE  out_packet'[i].n < out_packet'[j].n
      OBVIOUS
    <3>1. /\ Len(out_packet) \in Nat /\ DOMAIN out_packet = 1..Len(out_packet)
          /\ DOMAIN out_packet' = 1..(Len(out_packet) + 1)
          /\ i \in 1..Len(out_packet)
          /\ out_packet'[i] = out_packet[i]
      BY <1>1, <1>3 DEF Typed
    <3>2. CASE j \in 1..Len(out_packet)
      <4>1. out_packet'[j] = out_packet[j]
        BY <1>1, <1>3, <3>2 DEF Typed
      <4> QED BY <3>1, <3>2, <4>1 DEF Books, Numbered
    <3>3. CASE j = Len(out_packet) + 1
      <4>1. out_packet'[j] = p
        BY <1>1, <1>3, <3>3 DEF Typed
      <4>2. out_packet[i] \in Queued
        BY <3>1 DEF Queued, Range
      <4> QED BY <1>1, <1>2, <3>1, <4>1, <4>2 DEF Books, Numbered
    <3> QED BY <3>1, <3>2, <3>3
  <2> QED BY <2>1, <2>2, <1>5 DEF Books, Numbered
<1> QED BY <1>8, <1>9 DEF Books

(* Whatever neither the queue nor the wire takes part in.                  *)
LEMMA SameBooks ==
    ASSUME Books, UNCHANGED <<queueVars, wire, dropped>>, count'.packets = count.packets,
           loop' # "next" \/ loop = "next" \/ (current # None /\ to_process = 0)
    PROVE  Books'
BY DEF Books, Accounted, Numbered, Queued, Written, queueVars

(* The next packet is taken; the one before it has been written, or is     *)
(* thrown away.                                                            *)
LEMMA TakeNextBooks ==
    ASSUME Typed, Books, TakeNext, UNCHANGED wire, count'.packets = count.packets,
           dropped \subseteq dropped', dropped' \subseteq dropped \cup ({current} \ {None}),
           current = None \/ current \in Written \cup dropped', loop' # "next"
    PROVE  Books'
<1>1. Written' = Written
  BY DEF Written
<1>2. CASE out_packet = <<>>
  <2>1. out_packet' = <<>> /\ current' = None
    BY <1>2 DEF TakeNext
  <2>2. Range(<<>>) = {}
    BY DEF Range
  <2>3. Queued' = {} /\ Queued = {current} \ {None}
    BY <1>2, <2>1, <2>2 DEF Queued
  <2>4. Accounted'
    BY <1>1, <2>1, <2>2, <2>3 DEF Books, Accounted
  <2>5. Numbered'
    BY <1>1, <2>1, <2>3 DEF Books, Numbered
  <2> QED BY <2>4, <2>5 DEF Books
<1>3. CASE out_packet # <<>>
  <2> DEFINE h == Head(out_packet)
             t == Tail(out_packet)
  <2>1. out_packet' = t /\ current' = h /\ to_process' = 2
    BY <1>3 DEF TakeNext
  <2>2. /\ Len(out_packet) \in Nat \ {0} /\ DOMAIN out_packet = 1..Len(out_packet)
        /\ t \in Seq(Packets) /\ Len(t) = Len(out_packet) - 1 /\ DOMAIN t = 1..Len(t)
        /\ h = out_packet[1] /\ \A i \in 1..Len(t) : t[i] = out_packet[i + 1]
    BY <1>3 DEF Typed
  <2>3. Range(out_packet) = Range(t) \cup {h}
    BY <1>3, RangeTail DEF Typed
  <2> HIDE DEF h, t
  <2>4. h \in Queued /\ h # None
    BY <2>2, <2>3 DEF Queued, Books, Numbered, None
  <2>5. Queued' = Range(out_packet) /\ Queued = Range(out_packet) \cup ({current} \ {None})
    BY <2>1, <2>3, <2>4 DEF Queued
  <2>6. \A q \in Range(t) : q # h
    <3> SUFFICES ASSUME NEW i \in 1..Len(t) PROVE t[i] # h
      BY <2>2 DEF Range
    <3>1. out_packet[1].n < out_packet[i + 1].n
      BY <2>2 DEF Books, Numbered
    <3>2. h.n \in Nat
      <4>1. h \in Packets
        BY <2>2 DEF Typed
      <4> QED BY <4>1 DEF Packets
    <3> QED BY <2>2, <3>1, <3>2
  <2>7. Accounted'
    <3>1. \A n \in 1..count'.packets : \E q \in Queued' \cup Written' \cup dropped' : q.n = n
      BY <1>1, <2>5 DEF Books, Accounted
    <3>2. ASSUME out_packet' # <<>> PROVE out_packet_last' = Last(out_packet')
      <4>1. Len(t) # 0
        BY <2>1, <2>2, <3>2
      <4>2. out_packet_last' = out_packet_last
        BY <2>2, <4>1 DEF TakeNext
      <4>3. Last(t) = Last(out_packet)
        BY <2>2, <4>1 DEF Last
      <4> QED BY <1>3, <2>1, <4>2, <4>3 DEF Books, Accounted
    <3>3. \A q \in Range(out_packet') : q # current' /\ q \notin Written' \cup dropped'
      BY <1>1, <2>1, <2>3, <2>6 DEF Books, Accounted
    <3> QED BY <3>1, <3>2, <3>3 DEF Accounted
  <2>8. Numbered'
    <3>1. \A q \in Queued' \cup Written' \cup dropped' : q.n \in 1..count'.packets
      BY <1>1, <2>5 DEF Books, Numbered
    <3>2. \A i, j \in DOMAIN out_packet' : i < j => out_packet'[i].n < out_packet'[j].n
      <4> SUFFICES ASSUME NEW i \in 1..Len(t), NEW j \in 1..Len(t), i < j PROVE t[i].n < t[j].n
        BY <2>1, <2>2
      <4>1. i + 1 \in DOMAIN out_packet /\ j + 1 \in DOMAIN out_packet /\ i + 1 < j + 1
        BY <2>2
      <4>2. out_packet[i + 1].n < out_packet[j + 1].n
        BY <4>1 DEF Books, Numbered
      <4> QED BY <2>2, <4>2
    <3> QED BY <2>1, <3>1, <3>2 DEF Numbered
  <2> QED BY <2>7, <2>8 DEF Books
<1> QED BY <1>2, <1>3

(* A half is written; with the second one the packet is.                   *)
LEMMA SendBooks ==
    ASSUME Typed, Books, LoopSend PROVE Books'
<1> DEFINE half == [packet |-> current, left |-> to_process - 1]
           s == wire[sock]
<1>1. sock \in Connections /\ s \in Seq(Halves) /\ half \in Halves
  <2>1. sock \in Connections
    BY Bounds DEF Typed, LoopSend, Connections
  <2>2. half \in Halves
    BY DEF Typed, LoopSend, Halves
  <2> QED BY <2>1, <2>2 DEF Typed
<1>2. wire' = [wire EXCEPT ![sock] = Append(s, half)] /\ DOMAIN wire = Connections
  BY DEF LoopSend, Typed
<1>3. /\ DOMAIN s = 1..Len(s) /\ Len(s) \in Nat /\ DOMAIN Append(s, half) = 1..(Len(s) + 1)
      /\ Append(s, half)[Len(s) + 1] = half
      /\ \A i \in 1..Len(s) : Append(s, half)[i] = s[i]
  BY <1>1
<1>4. wire'[sock] = Append(s, half) /\ \A c \in Connections \ {sock} : wire'[c] = wire[c]
  BY <1>1, <1>2
<1>5. half.packet = current /\ half.left = to_process - 1 /\ to_process \in {1, 2}
  BY DEF LoopSend, Typed
<1> HIDE DEF half, s
<1>6. Written \subseteq Written'
  <2> SUFFICES ASSUME NEW c \in Connections, NEW i \in DOMAIN wire[c], wire[c][i].left = 0
               PROVE  i \in DOMAIN wire'[c] /\ wire'[c][i] = wire[c][i]
    BY DEF Written
  <2>1. CASE c = sock
    BY <1>3, <1>4, <2>1, SMTT(30) DEF s
  <2>2. CASE c # sock
    BY <1>4, <2>2
  <2> QED BY <2>1, <2>2
<1>7. Written' \subseteq Written \cup {current}
  <2> SUFFICES ASSUME NEW c \in Connections, NEW i \in DOMAIN wire'[c], wire'[c][i].left = 0,
                      wire'[c][i].packet # current
               PROVE  i \in DOMAIN wire[c] /\ wire'[c][i] = wire[c][i]
    BY DEF Written
  <2>1. CASE c = sock
    BY <1>3, <1>4, <1>5, <2>1, SMTT(30) DEF s
  <2>2. CASE c # sock
    BY <1>4, <2>2
  <2> QED BY <2>1, <2>2
<1>8. to_process' = 0 => current \in Written'
  <2> SUFFICES ASSUME to_process' = 0 PROVE current \in Written'
    OBVIOUS
  <2>1. half.left = 0
    BY <1>5 DEF LoopSend
  <2>2. Len(s) + 1 \in DOMAIN wire'[sock] /\ wire'[sock][Len(s) + 1] = half
    BY <1>3, <1>4
  <2> QED BY <1>1, <1>5, <2>1, <2>2 DEF Written
<1>9. Queued' = Queued /\ current \in Queued /\ UNCHANGED <<out_packet, out_packet_last, current>>
  BY DEF LoopSend, Queued
<1>10. UNCHANGED <<dropped, count, loop>> /\ loop = "writing"
  BY DEF LoopSend
<1>11. Accounted'
  BY <1>6, <1>7, <1>9, <1>10 DEF Books, Accounted
<1>12. Numbered'
  BY <1>6, <1>7, <1>8, <1>9, <1>10 DEF Books, Numbered
<1> QED BY <1>11, <1>12 DEF Books

(* packet__cleanup_all.                                                    *)
LEMMA CleanBooks ==
    ASSUME Typed, Books, LoopClean PROVE Books'
<1>1. Written' = Written /\ count' = count
  BY DEF LoopClean, Written
<1>2. Range(<<>>) = {}
  BY DEF Range
<1>3. Queued' = {} /\ dropped' = dropped \cup Queued
  BY <1>2 DEF LoopClean, Queued
<1>4. Accounted'
  BY <1>1, <1>2, <1>3 DEF Books, Accounted, LoopClean
<1>5. Numbered'
  BY <1>1, <1>3 DEF Books, Numbered, LoopClean
<1> QED BY <1>4, <1>5 DEF Books

LEMMA CallBackBooks ==
    ASSUME Typed, Books, CalledBack, UNCHANGED <<current, to_process, wire, dropped>>,
           loop' # "next" \/ (current # None /\ to_process = 0)
    PROVE  Books'
<1>0. PICK c \in Counted : CallBack(c)
  BY DEF CalledBack
<1>c. c \in Counts /\ c.packets = count.packets
  BY CountedTyped
<1>1. CASE UNCHANGED <<out_packet, out_packet_last>> /\ count' = c
  BY <1>c, <1>1, SameBooks DEF queueVars
<1>2. CASE Enqueue(Packet("PUBLISH"))
           /\ count' = [c EXCEPT !.packets = @ + 1, !.published = @ + 1]
  <2>1. count'.packets = count.packets + 1
    BY <1>c, <1>2 DEF Counts
  <2> QED BY <1>2, <2>1, EnqueueBooks DEF Kinds
<1>3. CASE Enqueue(Packet("DISCONNECT")) /\ count' = [c EXCEPT !.packets = @ + 1]
  <2>1. count'.packets = count.packets + 1
    BY <1>c, <1>3 DEF Counts
  <2> QED BY <1>3, <2>1, EnqueueBooks DEF Kinds
<1> QED BY <1>0, <1>1, <1>2, <1>3 DEF CallBack

LEMMA StepBooks ==
    ASSUME Typed, Books, [Next]_vars PROVE Books'
<1>1. CASE UNCHANGED vars \/ Finished
  BY <1>1, SameBooks DEF Finished, vars
<1>2. CASE AppPublish \/ AppDisconnect \/ AppNotConnected \/ AppWake \/ AppStop \/ AppJoined
  BY <1>2, SameBooks DEF AppPublish, AppDisconnect, AppNotConnected, AppWake, AppStop, AppJoined
<1>3. CASE AppQueue
  <2>1. count'.packets = count.packets + 1
    BY <1>3 DEF AppQueue, Typed, Counts
  <2>2. PICK kind \in Kinds \ {"none"} : Enqueue(Packet(kind))
    BY <1>3 DEF AppQueue, Kinds
  <2> QED BY <1>3, <2>1, <2>2, EnqueueBooks DEF AppQueue
<1>4. CASE LoopBegin \/ LoopPair \/ LoopWritten \/ LoopTimeout \/ LoopRetry \/ LoopDial
  BY <1>4, SameBooks DEF LoopBegin, LoopPair, LoopWritten, LoopTimeout, LoopRetry, LoopDial
<1>5. CASE \E read \in BOOLEAN : LoopSelect(read)
  BY <1>5, SameBooks DEF LoopSelect
<1>6. CASE LoopRead
  BY <1>6, CallBackBooks DEF LoopRead, CalledBack, Counted
<1>6c. CASE LoopConnack
  BY <1>6c, CallBackBooks DEF LoopConnack, CalledBack, Counted
<1>7. CASE LoopDisconnected
  BY <1>7, TakeNextBooks DEF LoopDisconnected, DoClientDisconnect
<1>8. CASE LoopLost \/ LoopBlocked \/ LoopDialFails
  <2>1. count'.packets = count.packets
    BY <1>8 DEF LoopLost, LoopBlocked, LoopDialFails, Typed, Counts
  <2> QED BY <1>8, <2>1, SameBooks DEF LoopLost, LoopBlocked, LoopDialFails
<1>9. CASE LoopWrite
  <2>1. CASE current = None
    BY <1>9, <2>1, TakeNextBooks DEF LoopWrite
  <2>2. CASE current # None
    BY <1>9, <2>2, SameBooks DEF LoopWrite
  <2> QED BY <2>1, <2>2
<1>10. CASE LoopSend
  BY <1>10, SendBooks
<1>11. CASE LoopSent
  <2>1. current # None /\ to_process = 0 /\ current \in Written /\ UNCHANGED wire
    BY <1>11 DEF LoopSent, Books, Numbered
  <2>2. CASE CallBack(count) /\ UNCHANGED <<dropped, current, to_process>>
    BY <2>1, <2>2, CallBackBooks DEF CalledBack, Counted
  <2>3. CASE DoClientDisconnect({}) /\ loop' = "loop" /\ UNCHANGED count
    BY <2>1, <2>3, TakeNextBooks DEF DoClientDisconnect
  <2>4. CASE UNCHANGED <<queueVars, dropped, count>>
    BY <2>1, <2>4, SameBooks
  <2> QED BY <1>11, <2>2, <2>3, <2>4 DEF LoopSent
<1>12. CASE LoopNext
  <2>1. current \in Written
    BY <1>12 DEF LoopNext, Books, Numbered
  <2> QED BY <1>12, <2>1, TakeNextBooks DEF LoopNext
<1>13. CASE LoopClean
  BY <1>13, CleanBooks
<1>14. CASE LoopConnect
  <2>1. count'.packets = count.packets + 1
    BY <1>14 DEF LoopConnect, Typed, Counts
  <2> QED BY <1>14, <2>1, EnqueueBooks DEF LoopConnect, Kinds
<1> QED BY <1>1, <1>2, <1>3, <1>4, <1>5, <1>6, <1>6c, <1>7, <1>8, <1>9, <1>10, <1>11, <1>12, <1>13, <1>14
        DEF Next, LoopStep

LEMMA InitBooks == ASSUME Init PROVE Books
<1>1. Range(<<>>) = {}
  BY DEF Range
<1>2. Queued = {} /\ Written = {}
  BY <1>1 DEF Init, Queued, Written
<1>3. Accounted
  BY <1>1, <1>2 DEF Init, Accounted
<1>4. Numbered
  <2>1. Queued \cup Written \cup dropped = {}
    BY <1>2 DEF Init
  <2>2. DOMAIN out_packet = {} /\ current = None /\ loop = "loop"
    BY DEF Init
  <2> QED BY <2>1, <2>2, Zenon DEF Numbered
<1> QED BY <1>3, <1>4 DEF Books

(* Packets are neither lost nor doubled and the linked list keeps its end, *)
(* for any number of packets and broken connections (packet__queue and     *)
(* packet__write of two threads, packet__cleanup_all).                     *)
THEOREM PacketsAccounted == Spec => []Accounted
<1>1. Init => Typed /\ Books
  BY InitTyped, InitBooks
<1>2. Typed /\ Books /\ [Next]_vars => Typed' /\ Books'
  BY StepTyped, StepBooks
<1>3. Books => Accounted
  BY DEF Books
<1> QED BY <1>1, <1>2, <1>3, PTL DEF Spec
-----------------------------------------------------------------------------
(* What WholePackets needs of the connections: one that has not been used  *)
(* yet carries nothing, and a new one is made only after the old one was   *)
(* given up.  After a DISCONNECT none is made.                             *)
Fresh ==
    /\ \A c \in Connections : c > count.drops + 1 => wire[c] = <<>>
    /\ sock # 0 => sock = count.drops + 1
    /\ sock = 0 => \/ wire[count.drops + 1] = <<>>
                   \/ state = "disconnected" /\ loop \in {"loop", "retry"}
                   \/ loop = "ended"
    /\ loop = "dial" => current = None
    /\ loop \in {"retry", "slept", "clean", "dial"} => sock = 0

(* What it needs of the packets: the wire goes on where the current packet *)
(* stands, and everything still to be written was queued later than what   *)
(* the connection has carried.                                             *)
Continued ==
    sock # 0 =>
       /\ \A i \in DOMAIN wire[sock] : wire[sock][i].packet.n <= count.packets
       /\ \A q \in Range(out_packet) : \A i \in DOMAIN wire[sock] : wire[sock][i].packet.n < q.n
       /\ current = None \/ to_process # 1 => Len(wire[sock]) % 2 = 0
       /\ current # None =>
             /\ \A q \in Range(out_packet) : current.n < q.n
             /\ to_process = 2 => \A i \in DOMAIN wire[sock] : wire[sock][i].packet.n < current.n
             /\ to_process = 1 => Len(wire[sock]) % 2 = 1
             /\ to_process < 2 => /\ Len(wire[sock]) > 0
                                  /\ wire[sock][Len(wire[sock])].packet = current

LEMMA FreshKept ==
    ASSUME Typed, Fresh, [Next]_vars PROVE Fresh'
<1>1. count.drops \in 0..MaxDrops /\ MaxDrops \in Nat
  BY Bounds DEF Typed, Counts
<1>2. CASE UNCHANGED vars \/ Finished
  BY <1>2 DEF Finished, vars, queueVars, Fresh
<1>3. CASE AppPublish \/ AppDisconnect \/ AppNotConnected \/ AppWake \/ AppStop \/ AppJoined
  BY <1>3 DEF AppPublish, AppDisconnect, AppNotConnected, AppWake, AppStop, AppJoined, queueVars, Fresh
<1>4. CASE AppQueue
  <2>1. count'.drops = count.drops
    BY <1>4 DEF AppQueue, Typed, Counts
  <2> QED BY <1>4, <2>1 DEF AppQueue, Fresh
<1>5. CASE LoopBegin \/ LoopPair \/ LoopWritten \/ LoopTimeout
  BY <1>5 DEF LoopBegin, LoopPair, LoopWritten, LoopTimeout, queueVars, Fresh, Typed
<1>6. CASE \E read \in BOOLEAN : LoopSelect(read)
  BY <1>6 DEF LoopSelect, queueVars, Fresh, Typed
<1>7. ASSUME CalledBack, sock # 0, UNCHANGED <<sock, wire, current>>, loop' \in {"pair", "next"}
      PROVE  Fresh'
  <2>1. count'.drops = count.drops
    <3>1. PICK c \in Counted : CallBack(c)
      BY <1>7 DEF CalledBack
    <3>2. c \in Counts /\ c.drops = count.drops
      BY CountedTyped
    <3> QED BY <3>1, <3>2 DEF CallBack, Counts
  <2> QED BY <1>7, <2>1 DEF Fresh
<1>8. CASE LoopRead
  BY <1>7, <1>8 DEF LoopRead, Typed, CalledBack, Counted
<1>8c. CASE LoopConnack
  BY <1>7, <1>8c DEF LoopConnack, Typed, CalledBack, Counted
<1>9. ASSUME NEW rest, DoClientDisconnect(rest), sock # 0, loop' = "loop", UNCHANGED <<wire, count>>
      PROVE  Fresh'
  BY <1>9 DEF DoClientDisconnect, Fresh
<1>10. CASE LoopDisconnected
  BY <1>9, <1>10 DEF LoopDisconnected, Typed
<1>11. CASE LoopLost
  <2>1. count'.drops = count.drops + 1 /\ count.drops < MaxDrops
    BY <1>11 DEF LoopLost, Typed, Counts
  <2>2. sock' = 0 /\ loop' = "retry" /\ UNCHANGED <<wire, current>>
    BY <1>11 DEF LoopLost, queueVars
  <2>3. count.drops + 2 \in Connections
    BY <1>1, <2>1 DEF Connections
  <2>4. wire[count.drops + 2] = <<>>
    BY <1>1, <2>3 DEF Fresh
  <2>5. \A c \in Connections : c > count'.drops + 1 => wire'[c] = <<>>
    BY <1>1, <2>1, <2>2 DEF Fresh, Connections
  <2>6. wire'[count'.drops + 1] = <<>>
    BY <1>1, <2>1, <2>2, <2>4
  <2> QED BY <2>2, <2>5, <2>6 DEF Fresh
<1>12. CASE LoopWrite
  BY <1>12 DEF LoopWrite, Fresh, Typed
<1>13. CASE LoopSend
  <2>1. sock # 0 /\ sock = count.drops + 1
    BY <1>13 DEF LoopSend, Typed, Fresh
  <2>2. \A c \in Connections : c > count.drops + 1 => wire'[c] = wire[c]
    BY <1>1, <1>13, <2>1 DEF LoopSend, Typed
  <2>3. UNCHANGED <<sock, loop, count>> /\ loop = "writing"
    BY <1>13 DEF LoopSend
  <2> QED BY <2>1, <2>2, <2>3 DEF Fresh
<1>14. CASE LoopBlocked
  <2>1. count'.drops = count.drops
    BY <1>14 DEF LoopBlocked, Typed, Counts
  <2> QED BY <1>14, <2>1 DEF LoopBlocked, queueVars, Fresh, Typed
<1>15. CASE LoopSent
  <2>1. sock # 0 /\ UNCHANGED wire
    BY <1>15 DEF LoopSent, Typed
  <2>2. CASE CallBack(count) /\ loop' = "next" /\ UNCHANGED <<sock, current>>
    BY <1>7, <2>1, <2>2 DEF CalledBack, Counted
  <2>3. CASE DoClientDisconnect({}) /\ loop' = "loop" /\ UNCHANGED count
    BY <1>9, <2>1, <2>3
  <2>4. CASE loop' = "next" /\ UNCHANGED <<sock, state, queueVars, count>>
    BY <2>1, <2>4 DEF Fresh, queueVars
  <2> QED BY <1>15, <2>2, <2>3, <2>4 DEF LoopSent
<1>16. CASE LoopNext
  BY <1>16 DEF LoopNext, Fresh, Typed
<1>17. CASE LoopRetry \/ LoopClean
  BY <1>17 DEF LoopRetry, LoopClean, queueVars, Fresh
<1>18. CASE LoopDialFails
  <2>1. count'.drops = count.drops
    BY <1>18 DEF LoopDialFails, Typed, Counts
  <2> QED BY <1>18, <2>1 DEF LoopDialFails, queueVars, Fresh
<1>19. CASE LoopDial
  BY <1>1, <1>19 DEF LoopDial, queueVars, Fresh
<1>20. CASE LoopConnect
  <2>1. count'.drops = count.drops
    BY <1>20 DEF LoopConnect, Typed, Counts
  <2> QED BY <1>20, <2>1 DEF LoopConnect, Fresh, Typed
<1> QED BY <1>2, <1>3, <1>4, <1>5, <1>6, <1>8, <1>8c, <1>10, <1>11, <1>12, <1>13, <1>14, <1>15, <1>16, <1>17,
           <1>18, <1>19, <1>20 DEF Next, LoopStep

LEMMA Parity ==
    ASSUME NEW k \in Nat
    PROVE  /\ k % 2 = 0 \/ k % 2 = 1
           /\ k % 2 = 0 => (k + 1) % 2 = 1
           /\ k % 2 = 1 => (k + 1) % 2 = 0
<1>1. k % 2 = 0 \/ k % 2 = 1
  OBVIOUS
<1>2. k % 2 = 0 => (k + 1) % 2 = 1
  OBVIOUS
<1>3. k % 2 = 1 => (k + 1) % 2 = 0
  OBVIOUS
<1> QED BY <1>1, <1>2, <1>3

LEMMA WireTyped ==
    ASSUME Typed, sock # 0
    PROVE  /\ wire[sock] \in Seq(Halves)
           /\ Len(wire[sock]) \in Nat /\ DOMAIN wire[sock] = 1..Len(wire[sock])
           /\ \A i \in DOMAIN wire[sock] : wire[sock][i].packet.n \in Nat
<1>1. sock \in Connections
  BY Bounds DEF Typed, Connections
<1> DEFINE s == wire[sock]
<1>2. s \in Seq(Halves)
  BY <1>1 DEF Typed
<1> HIDE DEF s
<1>3. Len(s) \in Nat /\ DOMAIN s = 1..Len(s) /\ \A i \in DOMAIN s : s[i] \in Halves
  BY <1>2
<1>4. \A i \in DOMAIN s : s[i].packet.n \in Nat
  BY <1>3 DEF Halves, Packets
<1> QED BY <1>2, <1>3, <1>4 DEF s

(* A new packet has a larger number than all that came before it.          *)
LEMMA EnqueueContinued ==
    ASSUME Typed, Books, Continued, NEW kind \in Kinds, Enqueue(Packet(kind)),
           count'.packets = count.packets + 1, UNCHANGED <<current, to_process, wire, sock>>
    PROVE  Continued'
<1> DEFINE p == Packet(kind)
<1>1. p \in Packets /\ p.n = count.packets + 1 /\ count.packets \in Nat
  BY PacketTyped DEF Packet, Typed, Counts
<1> HIDE DEF p
<1>2. Range(out_packet') \subseteq Range(out_packet) \cup {p}
  <2>1. CASE out_packet = <<>>
    <3>1. out_packet' = <<p>>
      BY <2>1 DEF Enqueue, p
    <3>2. Range(<<p>>) = {p}
      BY DEF Range
    <3> QED BY <3>1, <3>2
  <2>2. CASE out_packet' = Append(out_packet, p)
    BY <1>1, <2>2, RangeAppend DEF Typed
  <2>3. CASE out_packet' = out_packet
    BY <2>3
  <2> QED BY <2>1, <2>2, <2>3 DEF Enqueue, p
<1>3. ASSUME sock # 0 PROVE \A i \in DOMAIN wire[sock] : wire[sock][i].packet.n < p.n
  BY <1>1, <1>3, WireTyped DEF Continued
<1>4. current # None => current.n < p.n
  BY <1>1 DEF Books, Numbered, Queued
<1>5. ASSUME sock # 0 PROVE \A i \in DOMAIN wire[sock] : wire[sock][i].packet.n <= count'.packets
  BY <1>1, <1>5, WireTyped DEF Continued
<1>6. count' = count' /\ sock' = sock /\ wire' = wire /\ current' = current /\ to_process' = to_process
  OBVIOUS
<1> QED BY <1>2, <1>3, <1>4, <1>5, <1>6, Zenon DEF Continued

(* The next packet is taken when the one before it is complete.            *)
LEMMA TakeNextContinued ==
    ASSUME Typed, Books, Continued, TakeNext, UNCHANGED <<wire, sock, count>>,
           current = None \/ to_process = 0
    PROVE  Continued'
<1>1. CASE sock = 0
  BY <1>1 DEF Continued
<1>2. CASE sock # 0 /\ out_packet = <<>>
  <2>1. Range(out_packet') = {} /\ current' = None
    BY <1>2 DEF TakeNext, Range
  <2> QED BY <1>2, <2>1 DEF Continued
<1>3. CASE sock # 0 /\ out_packet # <<>>
  <2> DEFINE h == Head(out_packet)
             t == Tail(out_packet)
  <2>1. out_packet' = t /\ current' = h /\ to_process' = 2
    BY <1>3 DEF TakeNext
  <2>2. Range(out_packet) = Range(t) \cup {h}
    BY <1>3, RangeTail DEF Typed
  <2>3. /\ Len(out_packet) \in Nat \ {0} /\ DOMAIN out_packet = 1..Len(out_packet)
        /\ Len(t) = Len(out_packet) - 1 /\ DOMAIN t = 1..Len(t)
        /\ h = out_packet[1] /\ \A i \in 1..Len(t) : t[i] = out_packet[i + 1]
    BY <1>3 DEF Typed
  <2> HIDE DEF h, t
  <2>4. \A q \in Range(t) : h.n < q.n
    <3> SUFFICES ASSUME NEW i \in 1..Len(t) PROVE h.n < t[i].n
      BY <2>3 DEF Range
    <3> QED BY <2>3 DEF Books, Numbered
  <2>5. Len(wire[sock]) % 2 = 0
    BY <1>3 DEF Continued
  <2>6. \A q \in Range(out_packet) : \A i \in DOMAIN wire[sock] : wire[sock][i].packet.n < q.n
    BY <1>3 DEF Continued
  <2>7. \A i \in DOMAIN wire[sock] : wire[sock][i].packet.n <= count.packets
    BY <1>3 DEF Continued
  <2>8. \A q \in Range(t) : \A i \in DOMAIN wire[sock] : wire[sock][i].packet.n < q.n
    BY <2>2, <2>6, Zenon
  <2>9. \A i \in DOMAIN wire[sock] : wire[sock][i].packet.n < h.n
    BY <2>2, <2>6, Zenon
  <2>10. Continued' <=>
           /\ \A i \in DOMAIN wire[sock] : wire[sock][i].packet.n <= count.packets
           /\ \A q \in Range(t) : \A i \in DOMAIN wire[sock] : wire[sock][i].packet.n < q.n
           /\ h = None \/ 2 # 1 => Len(wire[sock]) % 2 = 0
           /\ h # None =>
                 /\ \A q \in Range(t) : h.n < q.n
                 /\ 2 = 2 => \A i \in DOMAIN wire[sock] : wire[sock][i].packet.n < h.n
                 /\ 2 = 1 => Len(wire[sock]) % 2 = 1
                 /\ 2 < 2 => /\ Len(wire[sock]) > 0
                             /\ wire[sock][Len(wire[sock])].packet = h
    BY <1>3, <2>1 DEF Continued
  <2>11. 2 # 1 /\ ~(2 < 2)
    OBVIOUS
  <2> QED BY <2>4, <2>5, <2>7, <2>8, <2>9, <2>10, <2>11, Zenon
<1> QED BY <1>1, <1>2, <1>3

LEMMA CallBackContinued ==
    ASSUME Typed, Books, Continued, CalledBack, UNCHANGED <<current, to_process, wire, sock>>
    PROVE  Continued'
<1>0. PICK c \in Counted : CallBack(c)
  BY DEF CalledBack
<1>c. c \in Counts /\ c.packets = count.packets
  BY CountedTyped
<1>1. CASE UNCHANGED <<out_packet, out_packet_last>> /\ count' = c
  BY <1>c, <1>1 DEF Continued
<1>2. CASE Enqueue(Packet("PUBLISH"))
           /\ count' = [c EXCEPT !.packets = @ + 1, !.published = @ + 1]
  <2>1. count'.packets = count.packets + 1
    BY <1>c, <1>2 DEF Counts
  <2> QED BY <1>2, <2>1, EnqueueContinued DEF Kinds
<1>3. CASE Enqueue(Packet("DISCONNECT")) /\ count' = [c EXCEPT !.packets = @ + 1]
  <2>1. count'.packets = count.packets + 1
    BY <1>c, <1>3 DEF Counts
  <2> QED BY <1>3, <2>1, EnqueueContinued DEF Kinds
<1> QED BY <1>0, <1>1, <1>2, <1>3 DEF CallBack

(* A half goes to the wire behind what is there.                           *)
LEMMA SendWhole ==
    ASSUME Typed, Books, Continued, WholePackets, LoopSend PROVE Continued' /\ WholePackets'
<1> DEFINE s == wire[sock]
           half == [packet |-> current, left |-> to_process - 1]
           k == Len(s)
<1>1. sock # 0 /\ sock \in Connections
  BY Bounds DEF Typed, LoopSend, Connections
<1>2. /\ s \in Seq(Halves) /\ k \in Nat /\ DOMAIN s = 1..k
      /\ \A i \in DOMAIN s : s[i].packet.n \in Nat
  BY <1>1, WireTyped
<1>3. /\ half \in Halves /\ half.packet = current /\ half.left = to_process - 1
      /\ to_process \in {1, 2} /\ to_process' = to_process - 1
      /\ current \in Packets /\ current.n \in Nat /\ current # None
  BY DEF Typed, LoopSend, Halves, Packets
<1>4. /\ wire'[sock] = Append(s, half) /\ \A c \in Connections \ {sock} : wire'[c] = wire[c]
  BY <1>1 DEF LoopSend, Typed
<1>5. UNCHANGED <<sock, current, out_packet, count>>
  BY DEF LoopSend
<1> HIDE DEF s, half
<1>6. /\ Len(wire'[sock]) = k + 1 /\ DOMAIN wire'[sock] = 1..(k + 1)
      /\ wire'[sock][k + 1] = half /\ \A i \in 1..k : wire'[sock][i] = s[i]
  BY <1>2, <1>3, <1>4
<1>7. /\ k % 2 = 0 \/ k % 2 = 1
      /\ k % 2 = 0 => (k + 1) % 2 = 1
      /\ k % 2 = 1 => (k + 1) % 2 = 0
  BY <1>2, Parity
<1> USE DEF s
<1>c. /\ \A i \in DOMAIN s : s[i].packet.n <= count.packets
      /\ \A q \in Range(out_packet) : \A i \in DOMAIN s : s[i].packet.n < q.n
      /\ to_process # 1 => k % 2 = 0
      /\ \A q \in Range(out_packet) : current.n < q.n
      /\ to_process = 2 => \A i \in DOMAIN s : s[i].packet.n < current.n
      /\ to_process = 1 => k % 2 = 1
      /\ to_process < 2 => k > 0 /\ s[k].packet = current
  BY <1>1, <1>3, Zenon DEF Continued
<1> HIDE DEF s, k
<1>8. to_process = 2 => k % 2 = 0 /\ \A i \in 1..k : s[i].packet.n < current.n
  BY <1>2, <1>c
<1>9. to_process = 1 => k % 2 = 1 /\ k > 0 /\ s[k].packet = current
  BY <1>c
<1>10. WholePackets'
  <2> SUFFICES ASSUME NEW c \in Connections, NEW i \in DOMAIN wire'[c]
               PROVE  /\ wire'[c][i].left = i % 2
                      /\ i > 1 => IF i % 2 = 0 THEN wire'[c][i].packet = wire'[c][i - 1].packet
                                  ELSE wire'[c][i].packet.n > wire'[c][i - 1].packet.n
    BY DEF WholePackets
  <2>1. CASE c # sock
    BY <1>4, <2>1 DEF WholePackets
  <2>2. CASE c = sock /\ i \in 1..k
    <3>1. i \in DOMAIN wire[c] /\ wire'[c][i] = wire[c][i]
      BY <1>2, <1>6, <2>2 DEF s
    <3>2. i > 1 => wire'[c][i - 1] = wire[c][i - 1]
      BY <1>2, <1>6, <2>2 DEF s
    <3> QED BY <3>1, <3>2 DEF WholePackets
  <2>3. CASE c = sock /\ i = k + 1
    <3>1. wire'[c][i] = half
      BY <1>6, <2>3
    <3>2. half.left = i % 2
      BY <1>3, <1>7, <1>8, <1>9, <2>3
    <3>3. CASE i = 1
      BY <3>1, <3>2, <3>3
    <3>4. CASE i > 1
      <4>1. k \in 1..k /\ wire'[c][i - 1] = s[k]
        BY <1>2, <1>6, <2>3, <3>4
      <4>2. CASE to_process = 2
        <5>1. i % 2 = 1 /\ s[k].packet.n < current.n
          BY <1>7, <1>8, <2>3, <4>1, <4>2
        <5>2. s[k].packet.n \in Nat
          BY <1>2, <4>1
        <5> QED BY <1>3, <3>1, <3>2, <4>1, <5>1, <5>2
      <4>3. CASE to_process = 1
        <5>1. i % 2 = 0 /\ s[k].packet = current
          BY <1>7, <1>9, <2>3, <4>3
        <5> QED BY <1>3, <3>1, <3>2, <4>1, <5>1
      <4> QED BY <1>3, <4>2, <4>3
    <3> QED BY <1>2, <2>3, <3>3, <3>4
  <2> QED BY <1>2, <1>6, <2>1, <2>2, <2>3
<1>11. Continued'
  <2>1. current.n <= count.packets /\ count.packets \in Nat
    BY <1>3 DEF Books, Numbered, Queued, Typed, Counts
  <2>2. \A i \in 1..(k + 1) : wire'[sock][i].packet.n <= count.packets
    BY <1>2, <1>3, <1>6, <1>c, <2>1
  <2>3. \A q \in Range(out_packet) : current.n < q.n
    BY <1>c
  <2>4. \A q \in Range(out_packet) : \A i \in 1..(k + 1) : wire'[sock][i].packet.n < q.n
    <3> SUFFICES ASSUME NEW q \in Range(out_packet), NEW i \in 1..(k + 1)
                 PROVE  wire'[sock][i].packet.n < q.n
      OBVIOUS
    <3>1. CASE i = k + 1
      BY <1>3, <1>6, <2>3, <3>1
    <3>2. CASE i \in 1..k
      BY <1>2, <1>6, <1>c, <3>2
    <3> QED BY <1>2, <3>1, <3>2
  <2>5. wire'[sock][k + 1].packet = current /\ k + 1 > 0
    BY <1>2, <1>3, <1>6
  <2>6. to_process' # 1 => (k + 1) % 2 = 0
    BY <1>3, <1>7, <1>9
  <2>7. to_process' = 1 => (k + 1) % 2 = 1
    BY <1>3, <1>7, <1>8
  <2>8. to_process' # 2
    BY <1>3
  <2> QED BY <1>3, <1>5, <1>6, <2>2, <2>3, <2>4, <2>5, <2>6, <2>7, <2>8 DEF Continued
<1> QED BY <1>10, <1>11

LEMMA StepContinued ==
    ASSUME Typed, Books, Fresh, Continued, WholePackets, [Next]_vars
    PROVE  Continued' /\ WholePackets'
<1>1. CASE LoopSend
  BY <1>1, SendWhole
<1>2. ASSUME wire' = wire PROVE WholePackets'
  BY <1>2 DEF WholePackets
<1>3. ASSUME UNCHANGED <<queueVars, wire, sock>>, count'.packets = count.packets
      PROVE  Continued' /\ WholePackets'
  BY <1>2, <1>3 DEF Continued, queueVars
<1>4. CASE UNCHANGED vars \/ Finished
  BY <1>3, <1>4 DEF Finished, vars
<1>5. CASE AppPublish \/ AppDisconnect \/ AppNotConnected \/ AppWake \/ AppStop \/ AppJoined
  BY <1>3, <1>5 DEF AppPublish, AppDisconnect, AppNotConnected, AppWake, AppStop, AppJoined
<1>6. CASE AppQueue
  <2>1. count'.packets = count.packets + 1
    BY <1>6 DEF AppQueue, Typed, Counts
  <2>2. PICK kind \in Kinds : Enqueue(Packet(kind))
    BY <1>6 DEF AppQueue, Kinds
  <2> QED BY <1>2, <1>6, <2>1, <2>2, EnqueueContinued DEF AppQueue
<1>7. CASE LoopBegin \/ LoopPair \/ LoopWritten \/ LoopTimeout \/ LoopRetry
  BY <1>3, <1>7 DEF LoopBegin, LoopPair, LoopWritten, LoopTimeout, LoopRetry
<1>8. CASE \E read \in BOOLEAN : LoopSelect(read)
  BY <1>3, <1>8 DEF LoopSelect
<1>9. CASE LoopRead
  BY <1>2, <1>9, CallBackContinued DEF LoopRead, CalledBack, Counted
<1>9c. CASE LoopConnack
  BY <1>2, <1>9c, CallBackContinued DEF LoopConnack, CalledBack, Counted
<1>10. CASE sock' = 0 /\ wire' = wire
  BY <1>2, <1>10 DEF Continued
<1>11. CASE LoopDisconnected \/ LoopLost
  BY <1>10, <1>11 DEF LoopDisconnected, DoClientDisconnect, LoopLost
<1>12. CASE LoopWrite
  <2>1. CASE current = None
    BY <1>2, <1>12, <2>1, TakeNextContinued DEF LoopWrite
  <2>2. CASE current # None
    BY <1>3, <1>12, <2>2 DEF LoopWrite
  <2> QED BY <2>1, <2>2
<1>13. CASE LoopBlocked \/ LoopDialFails
  <2>1. count'.packets = count.packets
    BY <1>13 DEF LoopBlocked, LoopDialFails, Typed, Counts
  <2> QED BY <1>3, <1>13, <2>1 DEF LoopBlocked, LoopDialFails
<1>14. CASE LoopSent
  <2>1. UNCHANGED wire
    BY <1>14 DEF LoopSent
  <2>2. CASE CallBack(count) /\ UNCHANGED <<sock, current, to_process>>
    BY <1>2, <2>1, <2>2, CallBackContinued DEF CalledBack, Counted
  <2>3. CASE DoClientDisconnect({})
    BY <1>10, <2>1, <2>3 DEF DoClientDisconnect
  <2>4. CASE UNCHANGED <<sock, queueVars, count>>
    BY <1>3, <2>1, <2>4
  <2> QED BY <1>14, <2>2, <2>3, <2>4 DEF LoopSent
<1>15. CASE LoopNext
  <2>1. to_process = 0
    BY <1>15 DEF LoopNext, Books, Numbered
  <2> QED BY <1>2, <1>15, <2>1, TakeNextContinued DEF LoopNext
<1>16. CASE LoopClean
  BY <1>10, <1>16 DEF LoopClean, Fresh
<1>17. CASE LoopDial
  <2>1. sock' = count.drops + 1 /\ wire' = wire /\ wire[count.drops + 1] = <<>> /\ current' = None
    BY <1>17 DEF LoopDial, Fresh, queueVars
  <2>2. wire'[sock'] = <<>> /\ Len(<<>>) % 2 = 0 /\ DOMAIN (wire'[sock']) = {}
    BY <2>1
  <2> QED BY <1>2, <2>1, <2>2 DEF Continued
<1>18. CASE LoopConnect
  <2>1. count'.packets = count.packets + 1
    BY <1>18 DEF LoopConnect, Typed, Counts
  <2> QED BY <1>2, <1>18, <2>1, EnqueueContinued DEF LoopConnect, Kinds
<1> QED BY <1>1, <1>4, <1>5, <1>6, <1>7, <1>8, <1>9, <1>9c, <1>11, <1>12, <1>13, <1>14, <1>15, <1>16, <1>17,
           <1>18 DEF Next, LoopStep

(* A connection carries whole packets in the order of the queue, for any   *)
(* number of packets, partial writes and broken connections: a packet half *)
(* written on one connection (packet__write with EAGAIN) is never          *)
(* continued on the next (packet__cleanup_all in mosquitto__reconnect).    *)
THEOREM WholeOnTheWire == Spec => []WholePackets
<1> DEFINE Inv == Typed /\ Books /\ Fresh /\ Continued /\ WholePackets
<1>1. Init => Inv
  <2> SUFFICES ASSUME Init PROVE Inv
    OBVIOUS
  <2>1. Typed /\ Books
    BY InitTyped, InitBooks
  <2>2. \A c \in Connections : wire[c] = <<>>
    BY DEF Init
  <2>3. sock = 1 /\ current = None /\ count.drops = 0 /\ loop = "loop" /\ Range(out_packet) = {}
    BY DEF Init, Range
  <2>4. 1 \in Connections /\ Len(<<>>) % 2 = 0 /\ DOMAIN <<>> = {}
    BY Bounds DEF Connections
  <2>5. Fresh
    BY <2>2, <2>3 DEF Fresh
  <2>6. Continued
    BY <2>2, <2>3, <2>4 DEF Continued
  <2>7. WholePackets
    BY <2>2, <2>4 DEF WholePackets
  <2> QED BY <2>1, <2>5, <2>6, <2>7
<1>2. Inv /\ [Next]_vars => Inv'
  BY StepTyped, StepBooks, FreshKept, StepContinued
<1>3. Inv => WholePackets
  OBVIOUS
<1> QED BY <1>1, <1>2, <1>3, PTL DEF Spec
=============================================================================
