--------------------------- MODULE IngressProofs ---------------------------
(***************************************************************************)
(* Proofs about Ingress: the types, and that a publication is routed at    *)
(* most once as long as the client forgets no PUBREC.                      *)
(***************************************************************************)
EXTENDS Ingress, FiniteSetTheorems, SequenceTheorems, TLAPS

USE DEF Pubs

\* The packets of a queue.
Elems(s) == {s[i] : i \in 1..Len(s)}

Wire == Elems(toBroker) \cup Elems(toClient)

\* The list of the client: finite, and a publication occurs in it once.
Listed(L) ==
    IsFiniteSet(L) /\ L \subseteq OutMsg /\ \A m, n \in L : m.pub = n.pub => m = n

\* msgs_out of the client: its list, and a quota within the window.  (The quota
\* may exceed it just after a CONNACK has set the window.)
Lists(D) ==
    /\ D \in [inflight : SUBSET OutMsg, quota : Nat, maximum : Nat]
    /\ Listed(D.inflight)

Sender(D) == Lists(D) /\ D.quota <= D.maximum

\* M is the list L with other states: g gives for each message what it became.
Rewrites(L, M, g) ==
    /\ g \in [L -> OutMsg] /\ M = {g[m] : m \in L}
    /\ \A m \in L : g[m].pub = m.pub /\ g[m].mid = m.mid /\ g[m].qos = m.qos

\* The states of a message that had its PUBREC.
Late == {"wait_for_pubcomp", "resend_pubrel"}

\* M is the list L after the messages of R have been sent.
Launches(L, M, R) ==
    \E g : /\ Rewrites(L, M, g)
           /\ \A m \in L : IF m \in R
                 THEN g[m].state = IF m.qos = 1 THEN "wait_for_puback" ELSE "wait_for_pubrec"
                 ELSE g[m] = m

\* M is the list L after a reset that gives the window to W.
Resets(L, M, W, u) ==
    \E g : /\ Rewrites(L, M, g)
           /\ \A m \in L : IF m \in W THEN g[m] = IF u THEN m ELSE RetryState(m)
                          ELSE g[m].state = "invalid"

\* A list of the broker: finite, and a place is taken once.
Placed(L) ==
    IsFiniteSet(L) /\ L \subseteq InMsg(Pubs) /\ \A m, n \in L : m.pos = n.pos => m = n

\* msgs_in of the session in the broker.
Receiver(D) ==
    /\ D \in [inflight : SUBSET InMsg(Pubs), queued : SUBSET InMsg(Pubs),
              quota : Nat, maximum : Nat, count12 : Int, appended : Nat]
    /\ D.quota <= D.maximum /\ IsFiniteSet(D.inflight) /\ Placed(D.queued)
    /\ \A m \in D.queued : m.pos <= D.appended

Stored(D) == D.inflight \cup D.queued

\* A publication is stored at most once.
Single(D) ==
    /\ \A m, n \in D.inflight : m.pub = n.pub => m = n
    /\ \A m, n \in D.queued : m.pub = n.pub => m = n
    /\ \A m \in D.inflight, n \in D.queued : m.pub # n.pub

\* What is stored in E was stored in D.
Within(E, D) ==
    \A e \in Stored(E) : \E d \in Stored(D) : d.pub = e.pub /\ d.mid = e.mid

\* The client, the session and the connection have their types.
Shape ==
    /\ TypeOK /\ Sender(msgs_out) /\ Receiver(msgs_in)
    /\ msgs_out.maximum \in SendWindows /\ msgs_in.maximum \in Maxima
    /\ \A m \in msgs_out.inflight : m.pub <= published /\ (m.state \in Late => m.qos = 2)
    /\ exact \subseteq 1..published

\* Nothing that had its PUBREC is outside the window of the client, be it the
\* present one or the one the next CONNACK brings.
Remembers ==
    \A m \in msgs_out.inflight : m.state \in Late =>
        /\ Older(msgs_out.inflight, m) < msgs_out.maximum
        /\ Mqtt5 /\ msgs_in.maximum > 0 => Older(msgs_out.inflight, m) < msgs_in.maximum

\* m is the message l at a later time; a PUBREC belongs to QoS 2.
Follows(m, l) ==
    /\ m.pub = l.pub /\ m.mid = l.mid /\ m.qos = l.qos
    /\ m.state \in Late => m.qos = 2
    /\ Remembers /\ l.state \in Late => m.state \in Late

\* The message ids at the client and on the connection are the numbers of the
\* publications.
Numbered == \A m \in msgs_out.inflight \cup Wire : m.mid = m.pub

\* The publication the application makes now.
Fresh(k) ==
    /\ published' = published + 1 /\ k.pub = published' /\ k.mid = MidOf(published')
    /\ k.qos = 2 <=> k.pub \in exact'

\* The client sends T: what it publishes is in its list and not past its PUBREC,
\* what it releases is.
Sending(T) ==
    /\ T \in Seq(Packet(Pubs))
    /\ \/ \A k \in Elems(T) :
             \/ /\ k.type = "PUBLISH"
                /\ \E m \in msgs_out'.inflight :
                      /\ m.pub = k.pub /\ m.mid = k.mid /\ m.qos = k.qos
                      /\ m.state \notin Late
             \/ /\ k.type = "PUBREL"
                /\ Numbered => \A m \in msgs_out'.inflight :
                                   m.pub = k.pub => m.state \in Late
                /\ \E m \in msgs_out'.inflight \cup Elems(toClient) :
                      m.pub = k.pub /\ m.mid = k.mid /\ m.qos = k.qos
       \/ \E k \in Packet(Pubs) : T = <<k>> /\ k.type = "PUBLISH" /\ Fresh(k)

\* What a step of the client does to its list and to the connection.
ClientMoves ==
    /\ Sender(msgs_out') /\ msgs_out'.maximum \in SendWindows
    /\ \A m \in msgs_out'.inflight :
          \/ \E l \in msgs_out.inflight : Follows(m, l)
          \/ Fresh(m) /\ m.state \notin Late
    /\ \/ toBroker' = <<>> /\ toClient' = <<>>
       \/ /\ toClient' = toClient \/ (toClient # <<>> /\ toClient' = Tail(toClient))
          /\ \E T : Sending(T) /\ toBroker' = toBroker \o T

\* What the broker answers to a packet: the answer proper, and the PUBREC of
\* queued messages.
Answers(A, pkt) ==
    /\ A \in Seq(Packet(Pubs))
    /\ \A k \in Elems(A) :
          \/ /\ k.mid = pkt.mid /\ k.pub = pkt.pub /\ k.qos = pkt.qos
             /\ k.type \in {"PUBACK", "PUBREC", "PUBREC_REFUSED", "PUBCOMP"}
             /\ k.type = "PUBCOMP" => pkt.type = "PUBREL"
          \/ /\ k.type = "PUBREC" /\ k.qos = 2
             /\ \E m \in msgs_in.queued : k.mid = m.mid /\ k.pub = m.pub

\* A PUBLISH of QoS 2 may be stored.
Stores(E, pkt) ==
    \A e \in Stored(E) :
        \/ \E d \in Stored(msgs_in) : d.pub = e.pub /\ d.mid = e.mid
        \/ pkt.type = "PUBLISH" /\ pkt.qos = 2 /\ e.pub = pkt.pub /\ e.mid = pkt.mid

\* The message ids are the numbers of the publications.
Named(pkt) == pkt.mid = pkt.pub /\ \A m \in Stored(msgs_in) : m.mid = m.pub

\* The session and the answers while a packet is handled.
InHand(D, A, pkt) ==
    /\ Receiver(D) /\ D.maximum = msgs_in.maximum
    /\ Stores(D, pkt) /\ Answers(A, pkt)
    /\ Named(pkt) /\ Single(msgs_in) => Single(D)
    /\ \A m \in D.queued :
          m \in msgs_in.queued \/ (m.pub = pkt.pub /\ m.mid = pkt.mid /\ pkt.qos = 2)

\* What handling a packet does to the session and to the answers.
Handling(pkt) ==
    /\ routed' \in [Pubs -> Nat] /\ refused' \subseteq Pubs
    /\ \E A : InHand(msgs_in', A, pkt) /\ toClient' = toClient \o A

\* The client has nothing to publish of p any more: it is not in the list, or it
\* had its PUBREC.
Past(p) == \A m \in msgs_out.inflight : m.pub = p => m.state \in Late

\* No PUBLISH follows the PUBREL of its publication.
Ordered(s) ==
    \A i, j \in 1..Len(s) :
        i < j /\ s[i].type = "PUBREL" /\ s[j].type = "PUBLISH" => s[i].pub # s[j].pub

\* As long as the message ids have not wrapped they are the numbers of the
\* publications, at both ends and between them.
Numbers ==
    \A m \in msgs_out.inflight \cup Wire \cup Stored(msgs_in) :
        m.mid = m.pub /\ m.pub <= published

\* QoS 2 is QoS 2 everywhere, and only QoS 2 is stored.
Levels ==
    /\ \A m \in msgs_out.inflight \cup Wire : m.qos = 2 <=> m.pub \in exact
    /\ \A m \in Stored(msgs_in) : m.pub \in exact

\* What is released, or released and routed, is past its PUBREC.
Releases ==
    \A k \in Wire : k.type \in {"PUBREL", "PUBCOMP"} => Past(k.pub)

\* What has gone to the subscribers went there once, and nothing of it is left
\* that could send it there again.
Done ==
    \A p \in exact : routed[p] > 0 =>
        /\ routed[p] = 1 /\ Past(p) /\ \A m \in Stored(msgs_in) : m.pub # p
        /\ \A k \in Elems(toBroker) : k.type = "PUBLISH" => k.pub # p

\* Nothing has gone to the subscribers that was not published.
Known == \A p \in Pubs : routed[p] > 0 => p <= published

Core ==
    /\ Numbers /\ Levels /\ Single(msgs_in) /\ Releases /\ Ordered(toBroker)
    /\ Done /\ Known

----------------------------------------------------------------------------
(* Queues.                                                                 *)

\* A packet sent on a connection (packet__queue) joins those on the way.
LEMMA ConcatElems ==
    ASSUME NEW S, NEW s \in Seq(S), NEW t \in Seq(S)
    PROVE  s \o t \in Seq(S) /\ Elems(s \o t) = Elems(s) \cup Elems(t)
<1>1. /\ s \o t \in Seq(S) /\ Len(s \o t) = Len(s) + Len(t)
      /\ \A i \in 1 .. Len(s) + Len(t) :
            (s \o t)[i] = IF i <= Len(s) THEN s[i] ELSE t[i - Len(s)]
  BY ConcatProperties
<1>2. Len(s) \in Nat /\ Len(t) \in Nat
  BY LenProperties
<1>3. Elems(s \o t) \subseteq Elems(s) \cup Elems(t)
  BY <1>1, <1>2 DEF Elems
<1>4. Elems(s) \subseteq Elems(s \o t)
  BY <1>1, <1>2 DEF Elems
<1>5. Elems(t) \subseteq Elems(s \o t)
  <2> SUFFICES ASSUME NEW j \in 1..Len(t) PROVE t[j] \in Elems(s \o t)
    BY DEF Elems
  <2>1. Len(s) + j \in 1..Len(s \o t) /\ (s \o t)[Len(s) + j] = t[j]
    BY <1>1, <1>2
  <2> QED
    BY <2>1 DEF Elems
<1> QED
  BY <1>1, <1>3, <1>4, <1>5

LEMMA SingleElem ==
    ASSUME NEW S, NEW e \in S, NEW a, a = <<e>>
    PROVE  a \in Seq(S) /\ Len(a) = 1 /\ a[1] = e /\ Elems(a) = {e}
<1>1. a \in Seq(S) /\ Len(a) = 1 /\ a[1] = e
  OBVIOUS
<1> QED
  BY <1>1 DEF Elems

\* Reading a packet leaves the others.
LEMMA TailElems ==
    ASSUME NEW S, NEW s \in Seq(S), s # <<>>
    PROVE  /\ Head(s) \in S /\ Head(s) \in Elems(s)
           /\ Tail(s) \in Seq(S) /\ Elems(Tail(s)) \subseteq Elems(s)
<1>1. /\ Head(s) \in S /\ Tail(s) \in Seq(S) /\ Len(Tail(s)) = Len(s) - 1
      /\ \A i \in 1 .. Len(Tail(s)) : Tail(s)[i] = s[i+1]
  BY HeadTailProperties
<1>2. Len(s) \in Nat \ {0} /\ Head(s) = s[1]
  BY EmptySeq
<1> QED
  BY <1>1, <1>2 DEF Elems

LEMMA EmptyElems ==
    ASSUME NEW S
    PROVE  <<>> \in Seq(S) /\ Elems(<<>>) = {}
  BY EmptySeq DEF Elems

\* The packets of a queue of packets are packets.
LEMMA ElemsType ==
    ASSUME NEW S, NEW s \in Seq(S)
    PROVE  Elems(s) \subseteq S
  BY ElementOfSeq DEF Elems

----------------------------------------------------------------------------
(* Places in a list.                                                       *)

\* The elements of a finite set, ordered by an injective key, have the places
\* 0, 1, ....
LEMMA Places ==
    ASSUME NEW L, IsFiniteSet(L), NEW f \in [L -> Nat],
           \A x, y \in L : f[x] = f[y] => x = y,
           NEW r, r = [m \in L |-> Cardinality({x \in L : f[x] < f[m]})]
    PROVE  /\ r \in [L -> 0..(Cardinality(L) - 1)]
           /\ \A x, y \in L : f[x] < f[y] => r[x] < r[y]
           /\ \A x, y \in L : r[x] = r[y] => x = y
           /\ \A i \in 1..Cardinality(L) : \E x \in L : r[x] = i - 1
<1> DEFINE B(m) == {x \in L : f[x] < f[m]}
<1>0. \A m, x \in L : B(m) \in SUBSET L /\ (x \in B(m) <=> f[x] < f[m])
  OBVIOUS
<1>1. \A m \in L : IsFiniteSet(B(m)) /\ Cardinality(B(m)) \in Nat /\ r[m] = Cardinality(B(m))
  BY FS_Subset, FS_CardinalityType
<1> HIDE DEF B
<1>2. Cardinality(L) \in Nat
  BY FS_CardinalityType
<1>3. ASSUME NEW x \in L, NEW T \in SUBSET L, B(x) \subseteq T, x \in T
      PROVE  r[x] < Cardinality(T)
  <2>1. IsFiniteSet(T) /\ Cardinality(T) \in Nat
    BY FS_Subset, FS_CardinalityType
  <2>2. B(x) \in SUBSET T /\ B(x) # T
    BY <1>0, <1>3
  <2>3. Cardinality(B(x)) <= Cardinality(T) /\ Cardinality(B(x)) # Cardinality(T)
    BY <2>1, <2>2, FS_Subset
  <2> QED
    BY <1>1, <2>1, <2>3
<1>4. \A m \in L : r[m] \in 0..(Cardinality(L) - 1)
  <2> TAKE m \in L
  <2>1. r[m] < Cardinality(L)
    BY <1>0, <1>3
  <2> QED
    BY <1>1, <1>2, <2>1
<1>5. \A x, y \in L : f[x] < f[y] => r[x] < r[y]
  <2> SUFFICES ASSUME NEW x \in L, NEW y \in L, f[x] < f[y]
               PROVE  r[x] < r[y]
    OBVIOUS
  <2>1. B(x) \subseteq B(y) /\ x \in B(y) /\ B(y) \in SUBSET L
    BY <1>0
  <2> QED
    BY <1>1, <1>3, <2>1
<1>6. \A x, y \in L : r[x] = r[y] => x = y
  <2> SUFFICES ASSUME NEW x \in L, NEW y \in L, r[x] = r[y]
               PROVE  x = y
    OBVIOUS
  <2>1. r[x] \in Nat /\ r[y] \in Nat
    BY <1>1
  <2>2. ~(f[x] < f[y]) /\ ~(f[y] < f[x])
    BY <2>1, <1>5
  <2> QED
    BY <2>2
<1>7. r \in Injection(L, 0..(Cardinality(L) - 1))
  BY <1>4, <1>6 DEF Injection, IsInjective
<1>8. /\ IsFiniteSet(0..(Cardinality(L) - 1))
      /\ Cardinality(0..(Cardinality(L) - 1)) = Cardinality(L)
  <2> DEFINE n == Cardinality(L) - 1
  <2>1. n \in Int /\ 0 \in Int /\ (IF 0 > n THEN 0 ELSE n - 0 + 1) = Cardinality(L)
    BY <1>2
  <2> HIDE DEF n
  <2>2. IsFiniteSet(0..n) /\ Cardinality(0..n) = Cardinality(L)
    BY <2>1, FS_Interval
  <2> QED
    BY <2>2 DEF n
<1>9. r \in Surjection(L, 0..(Cardinality(L) - 1))
  BY <1>7, <1>8, FS_Injection
<1>10. \A i \in 1..Cardinality(L) : \E x \in L : r[x] = i - 1
  <2> SUFFICES ASSUME NEW i \in 1..Cardinality(L) PROVE \E x \in L : r[x] = i - 1
    OBVIOUS
  <2>1. i - 1 \in 0..(Cardinality(L) - 1)
    BY <1>2
  <2> QED
    BY <1>9, <2>1 DEF Surjection
<1> QED
  BY <1>4, <1>5, <1>6, <1>10

\* At most n elements have a place below n.
LEMMA FewBelow ==
    ASSUME NEW L, NEW r \in [L -> Nat], \A x, y \in L : r[x] = r[y] => x = y,
           NEW n \in Nat, NEW T, T = {x \in L : r[x] < n}
    PROVE  IsFiniteSet(T) /\ Cardinality(T) <= n
<1> DEFINE g == [x \in T |-> r[x]]
<1>1. g \in Injection(T, 0..(n - 1))
  BY DEF Injection, IsInjective
<1>2. IsFiniteSet(0..(n - 1)) /\ Cardinality(0..(n - 1)) = n
  BY FS_Interval
<1> HIDE DEF g
<1> QED
  BY <1>1, <1>2, FS_Injection

\* The list of the client in its order (the DL_FOREACH loops of
\* lib/messages_mosq.c visit every message once).
LEMMA ListOrder ==
    ASSUME NEW L, Listed(L)
    PROVE  /\ \A m \in L : Older(L, m) \in Nat /\ Older(L, m) < Cardinality(L)
           /\ \A m, n \in L : m.pub < n.pub => Older(L, m) < Older(L, n)
           /\ \A m, n \in L : Older(L, m) = Older(L, n) => m = n
           /\ \A n \in Nat : Cardinality({m \in L : Older(L, m) < n}) <= n
           /\ InListOrder(L) \in [1..Cardinality(L) -> L]
           /\ \A m \in L : \E i \in 1..Cardinality(L) : InListOrder(L)[i] = m
           /\ \A i, j \in 1..Cardinality(L) : InListOrder(L)[i] = InListOrder(L)[j] => i = j
<1> DEFINE f == [m \in L |-> m.pub]
           r == [m \in L |-> Cardinality({x \in L : f[x] < f[m]})]
<1>1. f \in [L -> Nat] /\ \A x, y \in L : f[x] = f[y] => x = y
  BY SenderAssumption DEF Listed, OutMsg
<1>2. \A m \in L : r[m] = Older(L, m)
  <2> TAKE m \in L
  <2>1. {x \in L : f[x] < f[m]} = {x \in L : x.pub < m.pub}
    OBVIOUS
  <2> QED
    BY <2>1 DEF Older
<1>3. Cardinality(L) \in Nat
  BY FS_CardinalityType DEF Listed
<1> DEFINE c == Cardinality(L)
<1>4. r = [m \in L |-> Cardinality({x \in L : f[x] < f[m]})]
  OBVIOUS
<1> HIDE DEF f, r
<1>5. /\ r \in [L -> 0..(c - 1)]
      /\ \A x, y \in L : f[x] < f[y] => r[x] < r[y]
      /\ \A x, y \in L : r[x] = r[y] => x = y
      /\ \A i \in 1..c : \E x \in L : r[x] = i - 1
  BY <1>1, <1>4, Places DEF Listed
<1>6. \A m \in L : Older(L, m) \in Nat /\ Older(L, m) < c
  BY <1>2, <1>3, <1>5
<1>7. \A m, n \in L : m.pub < n.pub => Older(L, m) < Older(L, n)
  BY <1>2, <1>5 DEF f
<1>8. \A m, n \in L : Older(L, m) = Older(L, n) => m = n
  BY <1>2, <1>5
<1>9. \A n \in Nat : Cardinality({m \in L : Older(L, m) < n}) <= n
  <2> TAKE n \in Nat
  <2> DEFINE T == {m \in L : Older(L, m) < n}
  <2>1. T = {x \in L : r[x] < n}
    BY <1>2
  <2>2. r \in [L -> Nat]
    BY <1>3, <1>5
  <2> HIDE DEF T
  <2>3. Cardinality(T) <= n
    BY <1>5, <2>1, <2>2, FewBelow
  <2> QED
    BY <2>3 DEF T
<1> DEFINE o == InListOrder(L)
<1>10. \A i \in 1..c : o[i] \in L /\ Older(L, o[i]) = i - 1
  <2> TAKE i \in 1..c
  <2>1. \E m \in L : Older(L, m) = i - 1
    BY <1>2, <1>5
  <2>2. o[i] = CHOOSE m \in L : Older(L, m) = i - 1
    BY DEF InListOrder
  <2> QED
    BY <2>1, <2>2
<1>11. o \in [1..c -> L]
  BY <1>10 DEF InListOrder
<1>12. \A m \in L : \E i \in 1..c : o[i] = m
  <2> TAKE m \in L
  <2>1. Older(L, m) + 1 \in 1..c /\ (Older(L, m) + 1) - 1 = Older(L, m)
    BY <1>3, <1>6
  <2> QED
    BY <1>8, <1>10, <2>1
<1>13. \A i, j \in 1..c : o[i] = o[j] => i = j
  <2> SUFFICES ASSUME NEW i \in 1..c, NEW j \in 1..c, o[i] = o[j] PROVE i = j
    OBVIOUS
  <2>1. i - 1 = j - 1
    BY <1>10
  <2> QED
    BY <1>3, <2>1
<1> QED
  BY <1>6, <1>7, <1>8, <1>9, <1>11, <1>12, <1>13

\* The packets for a part of the list are one for each message.
LEMMA PacketsSent ==
    ASSUME NEW L, Listed(L)
    PROVE  /\ PacketsFor(L, PublishPacket) \in Seq(Packet(Pubs))
           /\ Elems(PacketsFor(L, PublishPacket)) = {PublishPacket(m) : m \in L}
           /\ PacketsFor(L, RetryPacket) \in Seq(Packet(Pubs))
           /\ Elems(PacketsFor(L, RetryPacket)) = {RetryPacket(m) : m \in L}
<1> DEFINE o == InListOrder(L)
           c == Cardinality(L)
           s == [i \in 1..c |-> PublishPacket(o[i])]
           t == [i \in 1..c |-> RetryPacket(o[i])]
<1>1. s = PacketsFor(L, PublishPacket) /\ t = PacketsFor(L, RetryPacket)
  BY DEF PacketsFor
<1>2. c \in Nat
  BY FS_CardinalityType DEF Listed
<1>3. \A m \in L : PublishPacket(m) \in Packet(Pubs) /\ RetryPacket(m) \in Packet(Pubs)
  <2> TAKE m \in L
  <2>1. m.pub \in Pubs /\ m.mid \in Nat /\ m.qos \in 0..2
    BY SenderAssumption DEF Listed, OutMsg
  <2> QED
    BY <2>1 DEF PublishPacket, PubrelPacket, RetryPacket, Packet, PacketTypes
<1>4. o \in [1..c -> L] /\ \A m \in L : \E i \in 1..c : o[i] = m
  BY ListOrder
<1> HIDE DEF o, c
<1>5. \A i \in 1..c : s[i] \in Packet(Pubs) /\ t[i] \in Packet(Pubs)
  BY <1>3, <1>4
<1>6. s \in Seq(Packet(Pubs)) /\ t \in Seq(Packet(Pubs)) /\ Len(s) = c /\ Len(t) = c
  BY <1>2, <1>5
<1>7. Elems(s) = {PublishPacket(m) : m \in L}
  <2>1. Elems(s) = {s[i] : i \in 1..c}
    BY <1>6 DEF Elems
  <2>2. \A i \in 1..c : s[i] = PublishPacket(o[i]) /\ o[i] \in L
    BY <1>4
  <2> HIDE DEF s
  <2> QED
    BY <1>4, <2>1, <2>2
<1>8. Elems(t) = {RetryPacket(m) : m \in L}
  <2>1. Elems(t) = {t[i] : i \in 1..c}
    BY <1>6 DEF Elems
  <2>2. \A i \in 1..c : t[i] = RetryPacket(o[i]) /\ o[i] \in L
    BY <1>4
  <2> HIDE DEF t
  <2> QED
    BY <1>4, <2>1, <2>2
<1> HIDE DEF s, t
<1> QED
  BY <1>1, <1>6, <1>7, <1>8

\* send__pubrec for queued messages: one for each.
LEMMA PubrecsSent ==
    ASSUME NEW L, Placed(L)
    PROVE  /\ Pubrecs(L) \in Seq(Packet(Pubs))
           /\ \A k \in Elems(Pubrecs(L)) :
                 k.type = "PUBREC" /\ k.qos = 2 /\ \E m \in L : k.mid = m.mid /\ k.pub = m.pub
<1> DEFINE f == [m \in L |-> m.pos]
           r == [m \in L |-> Cardinality({x \in L : f[x] < f[m]})]
           c == Cardinality(L)
           s == Pubrecs(L)
<1>1. f \in [L -> Nat] /\ \A x, y \in L : f[x] = f[y] => x = y
  BY DEF Placed, InMsg
<1>2. \A m \in L : r[m] = Before(L, m)
  <2> TAKE m \in L
  <2>1. {x \in L : f[x] < f[m]} = {x \in L : x.pos < m.pos}
    OBVIOUS
  <2> QED
    BY <2>1 DEF Before
<1>3. c \in Nat
  BY FS_CardinalityType DEF Placed
<1>4. r = [m \in L |-> Cardinality({x \in L : f[x] < f[m]})]
  OBVIOUS
<1> HIDE DEF f, r
<1>5. \A i \in 1..c : \E x \in L : r[x] = i - 1
  BY <1>1, <1>4, Places DEF Placed
<1> HIDE DEF c
<1>6. ASSUME NEW i \in 1..c
      PROVE  /\ s[i] \in Packet(Pubs) /\ s[i].type = "PUBREC" /\ s[i].qos = 2
             /\ \E m \in L : s[i].mid = m.mid /\ s[i].pub = m.pub
  <2> DEFINE m == CHOOSE x \in L : Before(L, x) = i - 1
  <2>1. \E x \in L : Before(L, x) = i - 1
    BY <1>2, <1>5
  <2>2. m \in L
    BY <2>1
  <2>3. s[i] = [type |-> "PUBREC", mid |-> m.mid, pub |-> m.pub, qos |-> 2]
    BY DEF Pubrecs, c
  <2> HIDE DEF m, s
  <2>4. m.mid \in Nat /\ m.pub \in Pubs
    BY <2>2 DEF Placed, InMsg
  <2> QED
    BY <2>2, <2>3, <2>4 DEF Packet, PacketTypes
<1>7. DOMAIN s = 1..c /\ s = [i \in 1..c |-> s[i]]
  BY DEF Pubrecs, c
<1> HIDE DEF s
<1>8. s \in Seq(Packet(Pubs)) /\ Len(s) = c
  BY <1>3, <1>6, <1>7
<1> QED
  BY <1>6, <1>8 DEF Elems, s

----------------------------------------------------------------------------
(* The list operations of the client.                                      *)

\* A change of states keeps the order of the list.
LEMMA RewriteKept ==
    ASSUME NEW L, Listed(L), NEW M, NEW g, Rewrites(L, M, g)
    PROVE  /\ Listed(M) /\ PubsOf(M) = PubsOf(L)
           /\ \A m \in L : g[m] \in M /\ Older(M, g[m]) = Older(L, m)
<1>1. \A x, y \in L : g[x] = g[y] => x = y
  BY DEF Listed, Rewrites
<1>2. IsFiniteSet(M)
  <2>1. g \in Surjection(L, M)
    BY DEF Rewrites, Surjection
  <2> QED
    BY <2>1, FS_Surjection DEF Listed
<1>3. Listed(M)
  BY <1>2 DEF Listed, Rewrites
<1>4. ASSUME NEW m \in L
      PROVE  Older(M, g[m]) = Older(L, m)
  <2> DEFINE A == {x \in L : x.pub < m.pub}
             B == {x \in M : x.pub < g[m].pub}
             h == [x \in A |-> g[x]]
  <2>1. \A x \in A : g[x] \in B
    BY DEF Rewrites
  <2>2. \A y \in B : \E x \in A : g[x] = y
    BY DEF Rewrites
  <2>3. h \in Injection(A, B) /\ h \in Surjection(A, B)
    BY <1>1, <2>1, <2>2 DEF Injection, IsInjective, Surjection
  <2>4. A \in SUBSET L /\ Older(M, g[m]) = Cardinality(B) /\ Older(L, m) = Cardinality(A)
    BY DEF Older
  <2> HIDE DEF A, B, h
  <2>5. IsFiniteSet(A)
    BY <2>4, FS_Subset DEF Listed
  <2>6. Cardinality(B) = Cardinality(A)
    BY <2>3, <2>5, FS_Surjection
  <2> QED
    BY <2>4, <2>6
<1> QED
  BY <1>3, <1>4 DEF Rewrites, PubsOf

\* A message that is not in the list yet comes last.
LEMMA AddKept ==
    ASSUME NEW L, Listed(L), NEW e \in OutMsg, \A m \in L : m.pub < e.pub
    PROVE  /\ Listed(L \cup {e})
           /\ \A m \in L : Older(L \cup {e}, m) = Older(L, m)
<1>1. IsFiniteSet(L \cup {e})
  BY FS_AddElement DEF Listed
<1>2. \A m \in L \cup {e} : m.pub \in Nat
  BY DEF Listed, OutMsg
<1>3. Listed(L \cup {e})
  BY <1>1, <1>2 DEF Listed
<1>4. ASSUME NEW m \in L PROVE Older(L \cup {e}, m) = Older(L, m)
  <2>1. {x \in L \cup {e} : x.pub < m.pub} = {x \in L : x.pub < m.pub}
    BY <1>2
  <2> QED
    BY <2>1 DEF Older
<1> QED
  BY <1>3, <1>4

\* A part of the list is a list.
LEMMA PartKept ==
    ASSUME NEW L, Listed(L), NEW M \in SUBSET L
    PROVE  /\ Listed(M) /\ Cardinality(M) \in Nat
           /\ \A m \in M : Older(M, m) \in Nat /\ Older(M, m) <= Older(L, m)
<1>1. IsFiniteSet(M) /\ Cardinality(M) \in Nat
  BY FS_Subset, FS_CardinalityType DEF Listed
<1>2. Listed(M)
  BY <1>1 DEF Listed
<1>3. ASSUME NEW m \in M PROVE Older(M, m) <= Older(L, m)
  <2> DEFINE A == {x \in L : x.pub < m.pub}
             B == {x \in M : x.pub < m.pub}
  <2>1. A \in SUBSET L /\ B \in SUBSET A
    OBVIOUS
  <2>2. Older(M, m) = Cardinality(B) /\ Older(L, m) = Cardinality(A)
    BY DEF Older
  <2> HIDE DEF A, B
  <2>3. IsFiniteSet(A)
    BY <2>1, FS_Subset DEF Listed
  <2> QED
    BY <2>1, <2>2, <2>3, FS_Subset
<1> QED
  BY <1>1, <1>2, <1>3, ListOrder

\* Launching changes the state of the messages launched.
LEMMA LaunchKept ==
    ASSUME NEW D, Sender(D), NEW R
    PROVE  /\ Sender(Launch(D, R))
           /\ Launch(D, R).quota = D.quota /\ Launch(D, R).maximum = D.maximum
           /\ Launches(D.inflight, Launch(D, R).inflight, R)
<1> DEFINE L == D.inflight
           t(m) == IF m \notin R THEN m
                   ELSE IF m.qos = 1 THEN [m EXCEPT !.state = "wait_for_puback"]
                   ELSE [m EXCEPT !.state = "wait_for_pubrec"]
           g == [m \in L |-> t(m)]
           M == {t(m) : m \in L}
<1>1. Launch(D, R) = [D EXCEPT !.inflight = M]
  BY DEF Launch
<1>2. L \subseteq OutMsg
  BY DEF Sender, Lists, Listed
<1>3. \A m \in L : /\ t(m) \in OutMsg
                   /\ t(m).pub = m.pub /\ t(m).mid = m.mid /\ t(m).qos = m.qos
                   /\ IF m \in R
                      THEN t(m).state = IF m.qos = 1 THEN "wait_for_puback"
                                        ELSE "wait_for_pubrec"
                      ELSE t(m) = m
  BY <1>2 DEF OutMsg, OutStates
<1> HIDE DEF t
<1>4. Rewrites(L, M, g)
  BY <1>3 DEF Rewrites
<1>5. /\ M \subseteq OutMsg /\ \A m \in L : g[m] = t(m)
  BY <1>3
<1> HIDE DEF g, M
<1>6. Listed(M)
  BY <1>4, RewriteKept DEF Sender, Lists
<1>7. /\ Launch(D, R).inflight = M /\ Launch(D, R).quota = D.quota
      /\ Launch(D, R).maximum = D.maximum
      /\ Launch(D, R) \in [inflight : SUBSET OutMsg, quota : Nat, maximum : Nat]
  BY <1>1, <1>5 DEF Sender, Lists
<1>8. Sender(Launch(D, R))
  BY <1>6, <1>7 DEF Sender, Lists
<1> QED
  BY <1>3, <1>4, <1>5, <1>7, <1>8 DEF Launches

\* message__release_to_inflight takes the oldest messages that were not sent,
\* no more than asked for.
LEMMA UnsentFirst ==
    ASSUME NEW D, Sender(D), NEW n \in Nat
    PROVE  /\ Unsent(D, n) \in SUBSET D.inflight
           /\ Listed(Unsent(D, n))
           /\ Cardinality(Unsent(D, n)) \in 0..n
           /\ \A m \in Unsent(D, n) : m.state = "invalid"
           /\ \A m \in Unsent(D, n), x \in D.inflight :
                 x.state = "invalid" /\ x.pub < m.pub => x \in Unsent(D, n)
<1> DEFINE U == {m \in D.inflight : m.state = "invalid"}
           R == Unsent(D, n)
<1>1. U \in SUBSET D.inflight /\ \A m \in U : m.state = "invalid"
  OBVIOUS
<1>2. R = {m \in U : Older(U, m) < n}
  BY DEF Unsent
<1>3. \A x \in D.inflight : x.state = "invalid" => x \in U
  OBVIOUS
<1> HIDE DEF U, R
<1>4. Listed(U)
  BY <1>1, PartKept DEF Sender, Lists
<1>5. R \in SUBSET U /\ R \in SUBSET D.inflight
  BY <1>1, <1>2
<1>6. Listed(R) /\ Cardinality(R) \in Nat
  BY <1>4, <1>5, PartKept
<1>7. Cardinality(R) <= n
  BY <1>2, <1>4, ListOrder
<1>8. \A m \in R, x \in D.inflight :
         x.state = "invalid" /\ x.pub < m.pub => x \in R
  <2> SUFFICES ASSUME NEW m \in R, NEW x \in D.inflight,
                      x.state = "invalid", x.pub < m.pub
               PROVE  x \in R
    OBVIOUS
  <2>1. x \in U /\ m \in U /\ Older(U, x) \in Nat /\ Older(U, m) \in Nat
        /\ Older(U, x) < Older(U, m) /\ Older(U, m) < n
    BY <1>2, <1>3, <1>4, <1>5, ListOrder
  <2> QED
    BY <1>2, <2>1
<1> QED
  BY <1>1, <1>5, <1>6, <1>7, <1>8 DEF R

\* message__release_to_inflight on a socket.
LEMMA ReleasedKept ==
    ASSUME NEW D, Sender(D), NEW R, R = Unsent(D, D.quota)
    PROVE  /\ Sender(Released(D))
           /\ Released(D).quota = D.quota - Cardinality(R)
           /\ Released(D).maximum = D.maximum
           /\ Launches(D.inflight, Released(D).inflight, R)
           /\ ReleasedPackets(D) \in Seq(Packet(Pubs))
           /\ Elems(ReleasedPackets(D)) = {PublishPacket(m) : m \in R}
<1> DEFINE E == Launch(D, R)
           c == Cardinality(R)
<1>1. D.quota \in Nat /\ D.maximum \in Nat /\ D.quota <= D.maximum
  BY DEF Sender, Lists
<1>2. c \in 0..D.quota /\ Listed(R)
  BY <1>1, UnsentFirst
<1>3. /\ Sender(E) /\ E.quota = D.quota /\ E.maximum = D.maximum
      /\ Launches(D.inflight, E.inflight, R)
  BY LaunchKept
<1>4. Released(D) = [E EXCEPT !.quota = @ - c]
  BY DEF Released
<1> HIDE DEF E, c
<1>5. /\ Released(D) \in [inflight : SUBSET OutMsg, quota : Nat, maximum : Nat]
      /\ Released(D).inflight = E.inflight /\ Released(D).maximum = D.maximum
      /\ Released(D).quota = D.quota - c
      /\ Released(D).quota <= Released(D).maximum
  BY <1>1, <1>2, <1>3, <1>4 DEF Sender, Lists
<1>6. Sender(Released(D))
  BY <1>3, <1>5 DEF Sender, Lists
<1>7. ReleasedPackets(D) = PacketsFor(R, PublishPacket)
  BY DEF ReleasedPackets
<1>8. /\ ReleasedPackets(D) \in Seq(Packet(Pubs))
      /\ Elems(ReleasedPackets(D)) = {PublishPacket(m) : m \in R}
  BY <1>2, <1>7, PacketsSent
<1> QED
  BY <1>3, <1>5, <1>6, <1>8 DEF c

\* message__reconnect_reset.
LEMMA ResetKept ==
    ASSUME NEW D, Lists(D), NEW u \in BOOLEAN, NEW W,
           W = {m \in D.inflight : Older(D.inflight, m) < D.maximum}
    PROVE  /\ Sender(ReconnectReset(D, u))
           /\ ReconnectReset(D, u).maximum = D.maximum
           /\ ReconnectReset(D, u).quota = D.maximum - Cardinality(W)
           /\ Resets(D.inflight, ReconnectReset(D, u).inflight, W, u)
<1> DEFINE L == D.inflight
           t(m) == IF m \notin W THEN [m EXCEPT !.state = "invalid"]
                   ELSE IF u THEN m ELSE RetryState(m)
           g == [m \in L |-> t(m)]
           M == {t(m) : m \in L}
           E == ReconnectReset(D, u)
           q == D.maximum - Cardinality(W)
<1>1. E = [D EXCEPT !.inflight = M, !.quota = q]
  BY DEF ReconnectReset
<1>2. L \subseteq OutMsg /\ Listed(L) /\ D.maximum \in Nat
  BY DEF Sender, Lists, Listed
<1>3. \A m \in L : /\ t(m) \in OutMsg
                   /\ t(m).pub = m.pub /\ t(m).mid = m.mid /\ t(m).qos = m.qos
                   /\ IF m \in W THEN t(m) = IF u THEN m ELSE RetryState(m)
                      ELSE t(m).state = "invalid"
  <2> TAKE m \in L
  <2>1. m \in OutMsg
    BY <1>2
  <2>2. /\ RetryState(m) \in OutMsg /\ RetryState(m).pub = m.pub
        /\ RetryState(m).mid = m.mid /\ RetryState(m).qos = m.qos
    BY <2>1 DEF RetryState, OutMsg, OutStates
  <2>3. [m EXCEPT !.state = "invalid"] \in OutMsg
    BY <2>1 DEF OutMsg, OutStates
  <2> QED
    BY <2>1, <2>2, <2>3 DEF OutMsg
<1>4. W \in SUBSET L
  OBVIOUS
<1>5. Cardinality(W) \in Nat
  BY <1>2, <1>4, PartKept
<1>6. Cardinality(W) <= D.maximum
  BY <1>2, ListOrder
<1> HIDE DEF t
<1>7. Rewrites(L, M, g)
  BY <1>3 DEF Rewrites
<1>8. /\ M \subseteq OutMsg /\ \A m \in L : g[m] = t(m)
  BY <1>3
<1> HIDE DEF g, M, E
<1>9. Listed(M)
  BY <1>2, <1>7, RewriteKept
<1>10. q \in Nat /\ q <= D.maximum
  BY <1>2, <1>5, <1>6
<1> HIDE DEF q
<1>11. /\ E.inflight = M /\ E.quota = q /\ E.maximum = D.maximum
       /\ E \in [inflight : SUBSET OutMsg, quota : Nat, maximum : Nat]
  BY <1>1, <1>8, <1>10 DEF Sender, Lists
<1>12. Sender(E)
  BY <1>9, <1>10, <1>11 DEF Sender, Lists
<1>13. Resets(L, M, W, u)
  <2>1. \A m \in L : IF m \in W THEN g[m] = IF u THEN m ELSE RetryState(m)
                    ELSE g[m].state = "invalid"
    BY <1>3, <1>8
  <2> QED
    BY <1>7, <2>1 DEF Resets
<1> QED
  BY <1>11, <1>12, <1>13 DEF E, q

----------------------------------------------------------------------------
(* The list operations of the broker.                                      *)

\* db__message_dequeue_first moves messages from queued to inflight.
LEMMA DequeueKept ==
    ASSUME NEW D, Receiver(D), NEW S \in SUBSET D.queued
    PROVE  /\ Receiver(Dequeue(D, S)) /\ Within(Dequeue(D, S), D)
           /\ Dequeue(D, S).maximum = D.maximum
           /\ Single(D) => Single(Dequeue(D, S))
<1> DEFINE E == Dequeue(D, S)
           mv(m) == [m EXCEPT !.pos = D.appended + 1 + Before(S, m)]
           f == [m \in S |-> mv(m)]
           J == {f[m] : m \in S}
           a == D.appended + Cardinality(S)
           q == Lower(D.quota, Cardinality(S))
<1>1. /\ D.inflight \subseteq InMsg(Pubs) /\ D.queued \subseteq InMsg(Pubs)
      /\ D.quota \in Nat /\ D.maximum \in Nat /\ D.quota <= D.maximum
      /\ D.appended \in Nat /\ IsFiniteSet(D.queued) /\ IsFiniteSet(D.inflight)
  BY DEF Receiver, Placed
<1>2. IsFiniteSet(S) /\ Cardinality(S) \in Nat
  BY <1>1, FS_Subset, FS_CardinalityType
<1>3. \A m \in S : Before(S, m) \in Nat
  <2> TAKE m \in S
  <2>1. {x \in S : x.pos < m.pos} \in SUBSET S
    OBVIOUS
  <2> QED
    BY <1>2, <2>1, FS_Subset, FS_CardinalityType DEF Before
<1>4. \A m \in S : mv(m) \in InMsg(Pubs) /\ mv(m).pub = m.pub /\ mv(m).mid = m.mid
  BY <1>1, <1>3 DEF InMsg
<1>5. E = [D EXCEPT !.inflight = @ \cup J, !.queued = @ \ S, !.quota = q, !.appended = a]
  <2>1. J = {mv(m) : m \in S}
    OBVIOUS
  <2> QED
    BY <2>1 DEF Dequeue
<1> HIDE DEF mv
<1>6. f \in Surjection(S, J)
  BY DEF Surjection
<1>7. \A e \in J : e \in InMsg(Pubs) /\ \E m \in S : e = mv(m)
  BY <1>4
<1>8. q \in Nat /\ q <= D.maximum /\ a \in Nat /\ D.appended <= a
  BY <1>1, <1>2 DEF Lower
<1> HIDE DEF f, J, E, q, a
<1>9. IsFiniteSet(J)
  BY <1>2, <1>6, FS_Surjection
<1>10. IsFiniteSet(D.inflight \cup J) /\ IsFiniteSet(D.queued \ S)
  BY <1>1, <1>9, FS_Union, FS_Difference
<1>11. /\ E.inflight = D.inflight \cup J /\ E.queued = D.queued \ S
       /\ E.quota = q /\ E.maximum = D.maximum /\ E.appended = a
       /\ E \in [inflight : SUBSET InMsg(Pubs), queued : SUBSET InMsg(Pubs),
                 quota : Nat, maximum : Nat, count12 : Int, appended : Nat]
  BY <1>1, <1>5, <1>7, <1>8 DEF Receiver
<1>12. \A m \in E.queued : m.pos <= E.appended
  BY <1>1, <1>8, <1>11 DEF Receiver, InMsg
<1>13. Receiver(E)
  BY <1>8, <1>10, <1>11, <1>12 DEF Receiver, Placed
<1>14. Within(E, D)
  BY <1>4, <1>7, <1>11 DEF Within, Stored
<1>15. Single(D) => Single(E)
  <2> SUFFICES ASSUME Single(D) PROVE Single(E)
    OBVIOUS
  <2>1. \A e \in J : \E m \in S : e = mv(m) /\ e.pub = m.pub
    BY <1>4, <1>7
  <2>2. \A m, n \in E.inflight : m.pub = n.pub => m = n
    BY <2>1, <1>11 DEF Single
  <2>3. \A m \in E.inflight, n \in E.queued : m.pub # n.pub
    BY <2>1, <1>11 DEF Single
  <2> QED
    BY <1>11, <2>2, <2>3 DEF Single
<1> QED
  BY <1>11, <1>13, <1>14, <1>15 DEF E

\* db__message_write_queued_in and the second half of
\* db__message_release_incoming.
LEMMA AcceptKept ==
    ASSUME NEW D, Receiver(D), NEW n, NEW a \in Seq(Packet(Pubs)),
           NEW r, r = AcceptQueued(D, n, a)
    PROVE  /\ Receiver(r.data) /\ Within(r.data, D) /\ r.data.maximum = D.maximum
           /\ Single(D) => Single(r.data)
           /\ r.answers \in Seq(Packet(Pubs))
           /\ \A k \in Elems(r.answers) :
                 \/ k \in Elems(a)
                 \/ /\ k.type = "PUBREC" /\ k.qos = 2
                    /\ \E m \in D.queued : k.mid = m.mid /\ k.pub = m.pub
<1> DEFINE S == FirstN(D.queued, n)
<1>1. r.data = Dequeue(D, S) /\ r.answers = a \o Pubrecs(S) /\ S \in SUBSET D.queued
  BY DEF AcceptQueued, FirstN
<1> HIDE DEF S
<1>2. Placed(S)
  BY <1>1, FS_Subset DEF Receiver, Placed
<1>3. /\ Pubrecs(S) \in Seq(Packet(Pubs))
      /\ \A k \in Elems(Pubrecs(S)) :
            k.type = "PUBREC" /\ k.qos = 2 /\ \E m \in S : k.mid = m.mid /\ k.pub = m.pub
  BY <1>2, PubrecsSent
<1>4. /\ a \o Pubrecs(S) \in Seq(Packet(Pubs))
      /\ Elems(a \o Pubrecs(S)) = Elems(a) \cup Elems(Pubrecs(S))
  BY <1>3, ConcatElems
<1> QED
  BY <1>1, <1>3, <1>4, DequeueKept

\* Without queued messages there is nothing to do.
LEMMA NothingQueued ==
    ASSUME NEW D, Receiver(D), D.queued = {}, NEW n, NEW a \in Seq(Packet(Pubs))
    PROVE  AcceptQueued(D, n, a) = [data |-> D, answers |-> a]
<1>1. FirstN(D.queued, n) = {}
  BY DEF FirstN
<1>2. Cardinality({}) = 0
  BY FS_EmptySet
<1>3. Pubrecs({}) = <<>>
  BY <1>2 DEF Pubrecs
<1>4. a \o <<>> = a
  BY ConcatEmptySeq
<1>5. Dequeue(D, {}) = D
  <2>1. Lower(D.quota, 0) = D.quota /\ D.appended + 0 = D.appended
    BY DEF Lower, Receiver
  <2>2. Dequeue(D, {}) = [D EXCEPT !.inflight = @, !.queued = @, !.quota = @, !.appended = @]
    BY <1>2, <2>1 DEF Dequeue, Receiver
  <2> QED
    BY <2>2 DEF Receiver
<1> QED
  BY <1>1, <1>3, <1>4, <1>5 DEF AcceptQueued

----------------------------------------------------------------------------
(* The handlers of the broker.                                             *)

\* An answer is a packet about the same publication.
LEMMA AnswerType ==
    ASSUME NEW pkt \in Packet(Pubs), NEW t \in PacketTypes
    PROVE  /\ Answer(pkt, t) \in Packet(Pubs) /\ Answer(pkt, t).type = t
           /\ Answer(pkt, t).mid = pkt.mid /\ Answer(pkt, t).pub = pkt.pub
           /\ Answer(pkt, t).qos = pkt.qos
           /\ <<Answer(pkt, t)>> \in Seq(Packet(Pubs))
           /\ Elems(<<Answer(pkt, t)>>) = {Answer(pkt, t)}
<1>1. /\ Answer(pkt, t) \in Packet(Pubs) /\ Answer(pkt, t).type = t
      /\ Answer(pkt, t).mid = pkt.mid /\ Answer(pkt, t).pub = pkt.pub
      /\ Answer(pkt, t).qos = pkt.qos
  BY DEF Answer, Packet
<1> QED
  BY <1>1, SingleElem

\* A quota raised or lowered stays within the window.
LEMMA QuotaKept ==
    ASSUME NEW D, Receiver(D), NEW q, q \in {Raise(D, 1), Lower(D.quota, 1)}
    PROVE  /\ Receiver([D EXCEPT !.quota = q])
           /\ [D EXCEPT !.quota = q].inflight = D.inflight
           /\ [D EXCEPT !.quota = q].queued = D.queued
           /\ [D EXCEPT !.quota = q].maximum = D.maximum
           /\ [D EXCEPT !.quota = q].quota = q
<1>1. q \in Nat /\ q <= D.maximum
  BY DEF Raise, Lower, Receiver
<1> QED
  BY <1>1 DEF Receiver

\* db__message_remove_incoming and db__message_release_incoming only remove.
LEMMA RemoveKept ==
    ASSUME NEW D, Receiver(D), NEW I \in SUBSET D.inflight, NEW E,
           /\ E \in [inflight : SUBSET InMsg(Pubs), queued : SUBSET InMsg(Pubs),
                     quota : Nat, maximum : Nat, count12 : Int, appended : Nat]
           /\ E.inflight = I /\ E.queued = D.queued
           /\ E.maximum = D.maximum /\ E.quota = D.quota /\ E.appended = D.appended
    PROVE  Receiver(E)
<1>1. IsFiniteSet(I) /\ I \in SUBSET InMsg(Pubs)
  BY FS_Subset DEF Receiver
<1> QED
  BY <1>1 DEF Receiver

\* The number of messages removed is a number.
LEMMA RemovedCount ==
    ASSUME NEW D, Receiver(D), NEW M \in SUBSET D.inflight
    PROVE  D.count12 - Cardinality(M) \in Int
  BY FS_Subset, FS_CardinalityType DEF Receiver

\* The removal of a stored message whose id comes back with another content.
LEMMA ClearedKept ==
    ASSUME NEW D, Receiver(D), NEW pkt
    PROVE  /\ Receiver(Cleared(D, pkt))
           /\ Cleared(D, pkt).inflight \subseteq D.inflight
           /\ Cleared(D, pkt).queued = D.queued
           /\ Cleared(D, pkt).maximum = D.maximum
<1> DEFINE M == Matches(D.inflight, pkt.mid)
           E == RemoveIncoming(D, pkt.mid)
<1>1. M \in SUBSET D.inflight
  BY DEF Matches
<1> DEFINE I == D.inflight \ M
           c == D.count12 - Cardinality(M)
<1>2. E = [D EXCEPT !.inflight = I, !.count12 = c]
  <2>1. E = [[D EXCEPT !.inflight = @ \ M] EXCEPT !.count12 = @ - Cardinality(M)]
    BY DEF RemoveIncoming, Receiver
  <2> QED
    BY <2>1 DEF Receiver
<1> HIDE DEF M, E
<1>3. I \in SUBSET D.inflight /\ c \in Int
  BY <1>1, RemovedCount
<1> HIDE DEF I, c
<1>4. /\ E \in [inflight : SUBSET InMsg(Pubs), queued : SUBSET InMsg(Pubs),
                quota : Nat, maximum : Nat, count12 : Int, appended : Nat]
      /\ E.inflight = I /\ E.queued = D.queued
      /\ E.maximum = D.maximum /\ E.quota = D.quota /\ E.appended = D.appended
  BY <1>2, <1>3 DEF Receiver
<1>5. Receiver(E)
  BY <1>3, <1>4, RemoveKept
<1> QED
  BY <1>3, <1>4, <1>5 DEF Cleared, E

\* When ids are publications, a message that is no duplicate is not stored.
LEMMA FreshNotStored ==
    ASSUME Receiver(msgs_in), NEW pkt \in Packet(Pubs), Named(pkt), Single(msgs_in),
           pkt.qos > 0, ~IsDuplicate(msgs_in, pkt)
    PROVE  /\ \A m \in Stored(msgs_in) : m.pub # pkt.pub
           /\ Cleared(msgs_in, pkt) = msgs_in
<1>1. ASSUME NEW L, L \in {msgs_in.inflight, msgs_in.queued}, NEW m \in L, m.mid = pkt.mid
      PROVE  Matches(L, pkt.mid) # {}
  <2>1. L \subseteq InMsg(Pubs) /\ \A x \in L : x.mid = pkt.mid => x = m
    BY <1>1 DEF Receiver, Placed, Named, Single, Stored
  <2>2. m.pos <= m.pos
    BY <2>1 DEF InMsg
  <2>3. m \in Matches(L, pkt.mid)
    BY <1>1, <2>1, <2>2 DEF Matches
  <2> QED
    BY <2>3
<1>2. \A m \in StoreFind(msgs_in, pkt.mid) : m \in Stored(msgs_in) /\ m.mid = pkt.mid
  BY DEF StoreFind, Matches, Stored
<1>3. StoreFind(msgs_in, pkt.mid) = {}
  BY <1>2 DEF IsDuplicate, Named
<1>4. \A m \in Stored(msgs_in) : m.mid # pkt.mid
  BY <1>1, <1>3 DEF StoreFind, Stored
<1> QED
  BY <1>3, <1>4 DEF Named, Cleared

\* Queued messages that are dequeued on the way add their PUBREC.
LEMMA AcceptInHand ==
    ASSUME NEW pkt \in Packet(Pubs), NEW D, NEW A, InHand(D, A, pkt), NEW n,
           NEW r, r = AcceptQueued(D, n, A)
    PROVE  InHand(r.data, r.answers, pkt)
<1>1. A \in Seq(Packet(Pubs)) /\ Receiver(D)
  BY DEF InHand, Answers
<1>2. /\ Receiver(r.data) /\ Within(r.data, D) /\ r.data.maximum = D.maximum
      /\ Single(D) => Single(r.data)
      /\ r.answers \in Seq(Packet(Pubs))
      /\ \A k \in Elems(r.answers) :
            \/ k \in Elems(A)
            \/ /\ k.type = "PUBREC" /\ k.qos = 2
               /\ \E m \in D.queued : k.mid = m.mid /\ k.pub = m.pub
  BY <1>1, AcceptKept
<1>3. Stores(r.data, pkt)
  <2> SUFFICES ASSUME NEW e \in Stored(r.data)
               PROVE  \/ \E d \in Stored(msgs_in) : d.pub = e.pub /\ d.mid = e.mid
                      \/ pkt.type = "PUBLISH" /\ pkt.qos = 2 /\ e.pub = pkt.pub /\ e.mid = pkt.mid
    BY DEF Stores
  <2>1. PICK d \in Stored(D) : d.pub = e.pub /\ d.mid = e.mid
    BY <1>2 DEF Within
  <2> QED
    BY <2>1 DEF InHand, Stores
<1>4. Answers(r.answers, pkt)
  BY <1>2 DEF InHand, Answers
<1>5. r.data.queued \subseteq D.queued
  <2>1. r.data = Dequeue(D, FirstN(D.queued, n))
    BY DEF AcceptQueued
  <2> QED
    BY <1>1, <2>1 DEF Dequeue, Receiver
<1> QED
  BY <1>2, <1>3, <1>4, <1>5 DEF InHand

\* The session as it is, or without a message that has been cleared.
LEMMA StartInHand ==
    ASSUME Shape, NEW pkt \in Packet(Pubs), NEW D, Receiver(D),
           D.inflight \subseteq msgs_in.inflight, D.queued = msgs_in.queued,
           D.maximum = msgs_in.maximum,
           NEW A, Answers(A, pkt)
    PROVE  InHand(D, A, pkt)
<1>1. Stores(D, pkt)
  BY DEF Stores, Stored
<1>2. Single(msgs_in) => Single(D)
  BY DEF Single
<1> QED
  BY <1>1, <1>2 DEF InHand

\* An acknowledgement of a PUBLISH answers it, and so does silence.
LEMMA PlainAnswers ==
    ASSUME NEW pkt \in Packet(Pubs), NEW t \in {"PUBACK", "PUBREC", "PUBREC_REFUSED"}
    PROVE  Answers(<<Answer(pkt, t)>>, pkt) /\ Answers(<<>>, pkt)
<1>1. t \in PacketTypes
  BY DEF PacketTypes
<1> QED
  BY <1>1, AnswerType, EmptyElems DEF Answers

LEMMA ReplyHandled ==
    ASSUME NEW pkt, NEW r, Reply(r), InHand(r.data, r.answers, pkt),
           routed' \in [Pubs -> Nat], refused' \subseteq Pubs
    PROVE  Handling(pkt)
  BY DEF Reply, Handling

\* process_bad_message.
LEMMA RefuseHandled ==
    ASSUME Shape, NEW pkt \in Packet(Pubs), NEW D, Receiver(D),
           D.inflight \subseteq msgs_in.inflight, D.queued = msgs_in.queued,
           D.maximum = msgs_in.maximum,
           RefusePublish(D, pkt)
    PROVE  Handling(pkt)
<1> DEFINE E == [D EXCEPT !.quota = Raise(D, 1)]
<1>1. /\ Receiver(E) /\ E.inflight = D.inflight /\ E.queued = D.queued
      /\ E.maximum = D.maximum
  BY QuotaKept
<1> HIDE DEF E
<1>2. \A t \in {"PUBACK", "PUBREC", "PUBREC_REFUSED"} :
         /\ InHand(D, <<Answer(pkt, t)>>, pkt) /\ InHand(E, <<Answer(pkt, t)>>, pkt)
         /\ InHand(D, <<>>, pkt)
  BY <1>1, PlainAnswers, StartInHand
<1>3. PICK r : Reply(r) /\ InHand(r.data, r.answers, pkt)
  <2>1. PICK r : /\ Reply(r)
                 /\ \/ r = [data |-> D, answers |-> <<>>]
                    \/ r = [data |-> E, answers |-> <<Answer(pkt, "PUBACK")>>]
                    \/ r = [data |-> E, answers |-> <<Answer(pkt, "PUBREC_REFUSED")>>]
                    \/ r = [data |-> D, answers |-> <<Answer(pkt, "PUBREC")>>]
    BY DEF RefusePublish, E
  <2> QED
    BY <1>2, <2>1
<1>4. routed' \in [Pubs -> Nat] /\ refused' \subseteq Pubs
  BY DEF RefusePublish, Shape, TypeOK, Packet
<1> QED
  BY <1>3, <1>4, ReplyHandled

\* db__message_insert stores a message of which nothing is stored yet.
LEMMA InsertInHand ==
    ASSUME Shape, NEW pkt \in Packet(Pubs), pkt.type = "PUBLISH", pkt.qos = 2,
           NEW D, Receiver(D),
           D.inflight \subseteq msgs_in.inflight, D.queued = msgs_in.queued,
           D.maximum = msgs_in.maximum,
           Named(pkt) /\ Single(msgs_in) => \A m \in Stored(msgs_in) : m.pub # pkt.pub,
           NEW r, r = InsertIncoming(D, pkt)
    PROVE  InHand(r.data, r.answers, pkt)
<1> DEFINE m == [pub |-> pkt.pub, mid |-> pkt.mid, pos |-> D.appended + 1]
           E == [D EXCEPT !.count12 = @ + 1, !.appended = @ + 1]
           F == [E EXCEPT !.inflight = @ \cup {m}]
           G == [E EXCEPT !.queued = @ \cup {m}]
<1>1. m \in InMsg(Pubs) /\ m.pub = pkt.pub /\ m.mid = pkt.mid /\ m.pos = D.appended + 1
  BY DEF InMsg, Receiver, Packet
<1>2. \/ \E n : r = AcceptQueued(F, n, <<Answer(pkt, "PUBREC")>>)
      \/ \E n : r = AcceptQueued(G, n, <<>>)
  BY DEF InsertIncoming, WriteQueuedIn
<1> HIDE DEF m
<1>3. IsFiniteSet(D.inflight \cup {m}) /\ IsFiniteSet(D.queued \cup {m})
  BY FS_AddElement DEF Receiver, Placed
<1>4. /\ F \in [inflight : SUBSET InMsg(Pubs), queued : SUBSET InMsg(Pubs),
                quota : Nat, maximum : Nat, count12 : Int, appended : Nat]
      /\ F.inflight = D.inflight \cup {m} /\ F.queued = D.queued
      /\ F.quota = D.quota /\ F.maximum = D.maximum /\ F.appended = D.appended + 1
      /\ G \in [inflight : SUBSET InMsg(Pubs), queued : SUBSET InMsg(Pubs),
                quota : Nat, maximum : Nat, count12 : Int, appended : Nat]
      /\ G.inflight = D.inflight /\ G.queued = D.queued \cup {m}
      /\ G.quota = D.quota /\ G.maximum = D.maximum /\ G.appended = D.appended + 1
  <2>1. /\ E \in [inflight : SUBSET InMsg(Pubs), queued : SUBSET InMsg(Pubs),
                  quota : Nat, maximum : Nat, count12 : Int, appended : Nat]
        /\ E.inflight = D.inflight /\ E.queued = D.queued /\ E.quota = D.quota
        /\ E.maximum = D.maximum /\ E.appended = D.appended + 1
    <3>1. D.count12 + 1 \in Int /\ D.appended + 1 \in Nat
      BY DEF Receiver
    <3>2. E = [D EXCEPT !.count12 = D.count12 + 1, !.appended = D.appended + 1]
      BY DEF Receiver
    <3> HIDE DEF E
    <3> QED
      BY <3>1, <3>2 DEF Receiver
  <2> HIDE DEF E
  <2> QED
    BY <1>1, <2>1
<1> HIDE DEF F, G, E
<1>5. \A x \in D.queued : x.pos \in Nat /\ x.pos <= D.appended /\ x.pos <= D.appended + 1
  BY DEF Receiver, InMsg
<1>6. D.appended \in Nat
  BY DEF Receiver
<1>7. Receiver(F)
  BY <1>3, <1>4, <1>5 DEF Receiver
<1>8. Receiver(G)
  <2>1. \A x, y \in D.queued \cup {m} : x.pos = y.pos => x = y
    BY <1>1, <1>5, <1>6 DEF Receiver, Placed
  <2>2. Placed(G.queued)
    BY <1>1, <1>3, <1>4, <2>1 DEF Placed, Receiver
  <2>3. \A x \in G.queued : x.pos <= G.appended
    BY <1>1, <1>4, <1>5, <1>6
  <2> QED
    BY <1>4, <2>2, <2>3 DEF Receiver
<1>9. Stores(F, pkt) /\ Stores(G, pkt)
  BY <1>1, <1>4 DEF Stores, Stored
<1>10. Named(pkt) /\ Single(msgs_in) => Single(F) /\ Single(G)
  <2> SUFFICES ASSUME Named(pkt), Single(msgs_in) PROVE Single(F) /\ Single(G)
    OBVIOUS
  <2>1. \A x \in D.inflight \cup D.queued : x.pub # m.pub
    BY <1>1 DEF Stored
  <2>2. Single(D)
    BY DEF Single
  <2> QED
    BY <1>4, <2>1, <2>2 DEF Single
<1>11. InHand(F, <<Answer(pkt, "PUBREC")>>, pkt) /\ InHand(G, <<>>, pkt)
  <2>1. Answers(<<Answer(pkt, "PUBREC")>>, pkt) /\ Answers(<<>>, pkt)
    BY PlainAnswers
  <2>2. /\ \A x \in F.queued : x \in msgs_in.queued
        /\ \A x \in G.queued :
              x \in msgs_in.queued \/ (x.pub = pkt.pub /\ x.mid = pkt.mid /\ pkt.qos = 2)
    BY <1>1, <1>4
  <2> QED
    BY <1>4, <1>7, <1>8, <1>9, <1>10, <2>1, <2>2 DEF InHand
<1> QED
  BY <1>2, <1>11, AcceptInHand

\* db__message_store and sub__messages_queue for a message that is accepted.
LEMMA AcceptHandled ==
    ASSUME Shape, NEW pkt \in Packet(Pubs), pkt.type = "PUBLISH",
           NEW D, Receiver(D),
           D.inflight \subseteq msgs_in.inflight, D.queued = msgs_in.queued,
           D.maximum = msgs_in.maximum,
           pkt.qos > 0 /\ Named(pkt) /\ Single(msgs_in) =>
               \A m \in Stored(msgs_in) : m.pub # pkt.pub,
           AcceptPublish(D, pkt)
    PROVE  Handling(pkt)
<1>0. pkt.qos = 0 \/ pkt.qos = 1 \/ pkt.qos = 2
  BY DEF Packet
<1>1. Route({pkt.pub}) \/ UNCHANGED routed
  BY <1>0 DEF AcceptPublish
<1>2. routed' \in [Pubs -> Nat] /\ refused' \subseteq Pubs
  BY <1>1, SMTT(30) DEF AcceptPublish, Shape, TypeOK, Route
<1>3. Answers(<<>>, pkt) /\ Answers(<<Answer(pkt, "PUBACK")>>, pkt)
  BY PlainAnswers
<1>4. CASE pkt.qos = 0
  <2>1. Reply(WriteQueuedIn(D, <<>>))
    BY <1>4 DEF AcceptPublish
  <2>2. PICK n : WriteQueuedIn(D, <<>>) = AcceptQueued(D, n, <<>>)
    BY DEF WriteQueuedIn
  <2>3. InHand(D, <<>>, pkt)
    BY <1>3, StartInHand
  <2> QED
    BY <1>2, <2>1, <2>2, <2>3, AcceptInHand, ReplyHandled
<1>5. CASE pkt.qos = 1
  <2> DEFINE E == [D EXCEPT !.quota = Lower(@, 1)]
             F == [E EXCEPT !.quota = Raise(E, 1)]
             a == <<Answer(pkt, "PUBACK")>>
  <2>1. Reply(WriteQueuedIn(F, a))
    BY <1>5 DEF AcceptPublish
  <2>2. E = [D EXCEPT !.quota = Lower(D.quota, 1)]
    BY DEF Receiver
  <2>3. /\ Receiver(E) /\ E.inflight = D.inflight /\ E.queued = D.queued
        /\ E.maximum = D.maximum
    BY <2>2, QuotaKept
  <2> HIDE DEF E
  <2>4. /\ Receiver(F) /\ F.inflight = D.inflight /\ F.queued = D.queued
        /\ F.maximum = D.maximum
    BY <2>3, QuotaKept
  <2>5. PICK n : WriteQueuedIn(F, a) = AcceptQueued(F, n, a)
    BY DEF WriteQueuedIn
  <2> HIDE DEF F
  <2>6. InHand(F, a, pkt)
    BY <1>3, <2>4, StartInHand
  <2> HIDE DEF a
  <2> QED
    BY <1>2, <2>1, <2>5, <2>6, AcceptInHand, ReplyHandled
<1>6. CASE pkt.qos = 2
  <2>1. Reply(InsertIncoming(D, pkt))
    BY <1>6 DEF AcceptPublish
  <2>2. InHand(InsertIncoming(D, pkt).data, InsertIncoming(D, pkt).answers, pkt)
    BY <1>6, InsertInHand
  <2> QED
    BY <1>2, <2>1, <2>2, ReplyHandled
<1> QED
  BY <1>0, <1>4, <1>5, <1>6

\* handle__publish.
LEMMA PublishHandled ==
    ASSUME Shape, NEW pkt \in Packet(Pubs), HandlePublish(pkt)
    PROVE  Handling(pkt)
<1> DEFINE D == Cleared(msgs_in, pkt)
<1>1. Receiver(msgs_in) /\ pkt.type = "PUBLISH"
  BY DEF Shape, HandlePublish
<1>2. /\ Receiver(D) /\ D.inflight \subseteq msgs_in.inflight
      /\ D.queued = msgs_in.queued /\ D.maximum = msgs_in.maximum
  BY <1>1, ClearedKept
<1>3. CASE RefusePublish(msgs_in, pkt) \/ RefusePublish(D, pkt)
  <2> HIDE DEF D
  <2> QED
    BY <1>1, <1>2, <1>3, RefuseHandled
<1>4. CASE /\ Reply(WriteQueuedIn(msgs_in, <<Answer(pkt, "PUBREC")>>))
           /\ UNCHANGED <<routed, refused>>
  <2> DEFINE a == <<Answer(pkt, "PUBREC")>>
  <2>1. InHand(msgs_in, a, pkt)
    BY <1>1, StartInHand, PlainAnswers
  <2> HIDE DEF a
  <2>2. PICK n : WriteQueuedIn(msgs_in, a) = AcceptQueued(msgs_in, n, a)
    BY DEF WriteQueuedIn
  <2>3. Reply(WriteQueuedIn(msgs_in, a))
    BY <1>4 DEF a
  <2>4. routed' \in [Pubs -> Nat] /\ refused' \subseteq Pubs
    BY <1>4 DEF Shape, TypeOK
  <2> QED
    BY <2>1, <2>2, <2>3, <2>4, AcceptInHand, ReplyHandled
<1>5. CASE ~IsDuplicate(msgs_in, pkt) /\ AcceptPublish(D, pkt)
  <2>1. pkt.qos > 0 /\ Named(pkt) /\ Single(msgs_in) =>
           \A m \in Stored(msgs_in) : m.pub # pkt.pub
    BY <1>1, <1>5, FreshNotStored
  <2> HIDE DEF D
  <2> QED
    BY <1>1, <1>2, <1>5, <2>1, AcceptHandled
<1> QED
  BY <1>3, <1>4, <1>5 DEF HandlePublish

\* handle__pubrel: what is released leaves the session.
LEMMA PubrelHandled ==
    ASSUME Shape, NEW pkt \in Packet(Pubs), HandlePubrel(pkt),
           NEW M, M = {m \in msgs_in.inflight : m.mid = pkt.mid}
    PROVE  /\ Handling(pkt)
           /\ \A e \in Stored(msgs_in') :
                 \E d \in (msgs_in.inflight \ M) \cup msgs_in.queued :
                    d.pub = e.pub /\ d.mid = e.mid
<1> DEFINE D == Release(msgs_in, M)
           n == IF msgs_in.maximum = 0 THEN Cardinality(msgs_in.queued)
                ELSE Lower(msgs_in.maximum, Cardinality(msgs_in.inflight))
           r == AcceptQueued(D, n, <<>>)
           E == [r.data EXCEPT !.quota = Raise(r.data, 1)]
           k == Answer(pkt, "PUBCOMP")
           I == msgs_in.inflight \ M
           c == msgs_in.count12 - Cardinality(M)
<1>0. pkt.type = "PUBREL" /\ Receiver(msgs_in)
  BY SMTT(30) DEF HandlePubrel, Shape
<1>1. msgs_in' = E /\ toClient' = toClient \o Append(r.answers, k)
  BY DEF HandlePubrel, Reply
<1>2. routed' \in [Pubs -> Nat] /\ refused' \subseteq Pubs
  BY SMTT(30) DEF HandlePubrel, Route, Shape, TypeOK
<1>3. D = [msgs_in EXCEPT !.inflight = I, !.count12 = c]
  BY DEF Release, Shape, TypeOK
<1>4. I \in SUBSET msgs_in.inflight /\ c \in Int
  BY <1>0, RemovedCount
<1> HIDE DEF I, c, D, n
<1>5. /\ D \in [inflight : SUBSET InMsg(Pubs), queued : SUBSET InMsg(Pubs),
                quota : Nat, maximum : Nat, count12 : Int, appended : Nat]
      /\ D.inflight = I /\ D.queued = msgs_in.queued
      /\ D.maximum = msgs_in.maximum /\ D.quota = msgs_in.quota
      /\ D.appended = msgs_in.appended
  BY <1>3, <1>4 DEF Shape, TypeOK
<1>6. Receiver(D)
  BY <1>0, <1>4, <1>5, RemoveKept
<1>7. Answers(<<>>, pkt)
  BY PlainAnswers
<1>8. InHand(D, <<>>, pkt)
  BY <1>4, <1>5, <1>6, <1>7, StartInHand
<1>9. InHand(r.data, r.answers, pkt)
  BY <1>8, AcceptInHand
<1>10. Within(r.data, D) /\ r.data.maximum = D.maximum
  <2> DEFINE a == <<>>
  <2>1. a \in Seq(Packet(Pubs))
    BY EmptyElems
  <2>2. r = AcceptQueued(D, n, a)
    OBVIOUS
  <2> HIDE DEF r, a
  <2> QED
    BY <1>6, <2>1, <2>2, AcceptKept
<1> HIDE DEF r
<1>11. /\ Receiver(E) /\ E.inflight = r.data.inflight /\ E.queued = r.data.queued
       /\ E.maximum = r.data.maximum
  BY <1>9, QuotaKept DEF InHand
<1> HIDE DEF E
<1>12. k \in Packet(Pubs) /\ k.type = "PUBCOMP" /\ k.mid = pkt.mid
       /\ k.pub = pkt.pub /\ k.qos = pkt.qos
  BY AnswerType DEF PacketTypes
<1> HIDE DEF k
<1>13. r.answers \in Seq(Packet(Pubs))
  BY <1>9 DEF InHand, Answers
<1>14. /\ Append(r.answers, k) \in Seq(Packet(Pubs))
       /\ Elems(Append(r.answers, k)) = Elems(r.answers) \cup {k}
  <2> DEFINE t == <<k>>
  <2>1. Append(r.answers, k) = r.answers \o t
    BY <1>12, <1>13, AppendIsConcat
  <2>2. t \in Seq(Packet(Pubs)) /\ Elems(t) = {k}
    BY <1>12, SingleElem
  <2> HIDE DEF t
  <2>3. /\ r.answers \o t \in Seq(Packet(Pubs))
        /\ Elems(r.answers \o t) = Elems(r.answers) \cup Elems(t)
    BY <1>13, <2>2, ConcatElems
  <2> QED
    BY <2>1, <2>2, <2>3
<1>15. Answers(Append(r.answers, k), pkt)
  BY <1>0, <1>9, <1>12, <1>14 DEF InHand, Answers
<1>16. InHand(E, Append(r.answers, k), pkt)
  <2>1. Stores(E, pkt)
    BY <1>9, <1>11 DEF InHand, Stores, Stored
  <2>2. Single(r.data) => Single(E)
    BY <1>11 DEF Single
  <2> QED
    BY <1>9, <1>11, <1>15, <2>1, <2>2 DEF InHand
<1>17. Handling(pkt)
  BY <1>1, <1>2, <1>16 DEF Handling
<1>18. ASSUME NEW e \in Stored(E)
       PROVE  \E d \in (msgs_in.inflight \ M) \cup msgs_in.queued :
                 d.pub = e.pub /\ d.mid = e.mid
  BY <1>5, <1>10, <1>11 DEF Within, Stored, I
<1> QED
  BY <1>1, <1>5, <1>10, <1>11, <1>17, <1>18

----------------------------------------------------------------------------
(* The steps of the client.                                                *)

\* mosquitto__mid_generate: an id between 1 and the largest, and before the
\* counter wraps the number of the publication.
LEMMA MidRange ==
    ASSUME NEW p \in Nat \ {0}
    PROVE  MidOf(p) \in 1..MidLimit /\ (p <= MidLimit => MidOf(p) = p)
  BY SenderAssumption DEF MidOf

\* Nothing changes but the states of messages, and the queues are emptied or
\* stay.
LEMMA QuietMoves ==
    ASSUME Shape, Sender(msgs_out'), msgs_out'.maximum \in SendWindows,
           \A m \in msgs_out'.inflight : \E l \in msgs_out.inflight : Follows(m, l),
           UNCHANGED channel \/ QueuesClosed
    PROVE  ClientMoves
<1>1. CASE QueuesClosed
  BY <1>1 DEF QueuesClosed, ClientMoves
<1>2. CASE UNCHANGED channel
  <2> DEFINE T == <<>>
  <2>1. T \in Seq(Packet(Pubs)) /\ Elems(T) = {}
    BY EmptyElems
  <2>2. toBroker' = toBroker \o T /\ toClient' = toClient
    BY <1>2, ConcatEmptySeq DEF channel, Shape, TypeOK
  <2> HIDE DEF T
  <2>3. Sending(T)
    BY <2>1 DEF Sending
  <2> QED
    BY <2>2, <2>3 DEF ClientMoves
<1> QED
  BY <1>1, <1>2

\* The messages launched are published, and wait for their acknowledgement.
LEMMA LaunchSending ==
    ASSUME NEW L, NEW R, R \subseteq L, Launches(L, msgs_out'.inflight, R),
           NEW T \in Seq(Packet(Pubs)), Elems(T) = {PublishPacket(x) : x \in R}
    PROVE  Sending(T)
<1> SUFFICES ASSUME NEW x \in R
             PROVE  LET k == PublishPacket(x)
                    IN  /\ k.type = "PUBLISH"
                        /\ \E m \in msgs_out'.inflight :
                              /\ m.pub = k.pub /\ m.mid = k.mid /\ m.qos = k.qos
                              /\ m.state \notin Late
  BY DEF Sending
<1>0. PICK g : /\ Rewrites(L, msgs_out'.inflight, g)
               /\ g[x].state = IF x.qos = 1 THEN "wait_for_puback" ELSE "wait_for_pubrec"
  BY DEF Launches
<1>1. /\ g[x] \in msgs_out'.inflight /\ g[x].pub = x.pub /\ g[x].mid = x.mid
      /\ g[x].qos = x.qos /\ g[x].state \notin Late
  BY <1>0 DEF Rewrites, Late
<1> QED
  BY <1>1 DEF PublishPacket

\* mosquitto_publish.
LEMMA PublishMoves ==
    ASSUME Shape, AppPublish
    PROVE  ClientMoves /\ published' = published + 1 /\ published' \in Pubs
<1>1. PICK qos \in QosLevels : ClientPublish(qos)
  BY DEF AppPublish
<1> DEFINE m == [pub |-> published + 1, mid |-> MidOf(published + 1), qos |-> qos,
                 state |-> "invalid"]
           D == [msgs_out EXCEPT !.inflight = @ \cup {m}]
           L == msgs_out.inflight
<1>2. /\ published < MaxPublish /\ published' = published + 1
      /\ exact' = IF qos = 2 THEN exact \cup {published'} ELSE exact
  BY <1>1 DEF ClientPublish
<1>3. published \in Nat /\ published' \in Pubs /\ published' \notin exact
  BY <1>2, SenderAssumption DEF Shape, TypeOK
<1>4. /\ m.pub = published' /\ m.mid = MidOf(published') /\ m.qos = qos
      /\ m.state = "invalid" /\ (qos = 2 <=> published' \in exact') /\ qos \in 0..2
      /\ MidOf(published') \in 1..MidLimit
  BY <1>2, <1>3, MidRange, SenderAssumption
<1>5. Fresh(m)
  BY <1>2, <1>4 DEF Fresh
<1>6. CASE qos = 0 /\ conn # "none"
  <2> DEFINE k == PublishPacket(m)
             T == <<k>>
  <2>1. toBroker' = Append(toBroker, k) /\ UNCHANGED <<msgs_out, toClient>>
    BY <1>1, <1>6 DEF ClientPublish
  <2>2. /\ k \in Packet(Pubs) /\ k.type = "PUBLISH" /\ Fresh(k)
    BY <1>3, <1>4, <1>5, SenderAssumption DEF PublishPacket, Packet, PacketTypes, Fresh
  <2> HIDE DEF k
  <2>3. toBroker' = toBroker \o T
    BY <2>1, <2>2, AppendIsConcat DEF Shape, TypeOK
  <2>4. T \in Seq(Packet(Pubs)) /\ T = <<k>>
    BY <2>2, SingleElem
  <2>5. Sending(T)
    BY <2>2, <2>4 DEF Sending
  <2>6. \A l \in msgs_out'.inflight : Follows(l, l) /\ l \in msgs_out.inflight
    BY <2>1 DEF Follows, Shape
  <2>7. Sender(msgs_out') /\ msgs_out'.maximum \in SendWindows
    BY <2>1 DEF Shape
  <2> HIDE DEF T
  <2> QED
    BY <1>2, <1>3, <2>1, <2>3, <2>5, <2>6, <2>7 DEF ClientMoves
<1>7. CASE qos = 0 /\ conn = "none"
  <2>1. UNCHANGED <<msgs_out, toClient, toBroker>>
    BY <1>1, <1>7 DEF ClientPublish
  <2>2. \A l \in msgs_out'.inflight : Follows(l, l) /\ l \in msgs_out.inflight
    BY <2>1 DEF Follows, Shape
  <2>3. Sender(msgs_out') /\ msgs_out'.maximum \in SendWindows /\ UNCHANGED channel
    BY <2>1 DEF Shape, channel
  <2> QED
    BY <1>2, <1>3, <2>2, <2>3, QuietMoves
<1>8. CASE qos # 0
  <2>1. m \in OutMsg
    BY <1>3, <1>4, <1>8 DEF OutMsg, OutStates
  <2>2. msgs_out' = (IF conn = "none" THEN Stranded(D) ELSE Released(D)) /\ UNCHANGED toClient
        /\ toBroker' = IF conn = "none" THEN toBroker ELSE toBroker \o ReleasedPackets(D)
    BY <1>1, <1>8 DEF ClientPublish
  <2> HIDE DEF m
  <2>3. \A x \in L : x.pub < m.pub
    BY <1>2, <1>3, <1>4 DEF Shape, Sender, Lists, Listed, OutMsg
  <2>4. Listed(L \cup {m})
    BY <2>1, <2>3, AddKept DEF Shape, Sender, Lists
  <2>5. /\ Sender(D) /\ D.inflight = L \cup {m} /\ D.quota = msgs_out.quota
        /\ D.maximum = msgs_out.maximum
    BY <2>1, <2>4 DEF Shape, Sender, Lists
  <2> HIDE DEF D, L
  <2>6. ASSUME NEW R, \A x \in R : x.state = "invalid",
               Launches(D.inflight, msgs_out'.inflight, R)
        PROVE  \A y \in msgs_out'.inflight :
                   \/ \E l \in msgs_out.inflight : Follows(y, l)
                   \/ Fresh(y) /\ y.state \notin Late
    <3>0. PICK g : /\ Rewrites(D.inflight, msgs_out'.inflight, g)
                   /\ \A x \in D.inflight : IF x \in R
                        THEN g[x].state = IF x.qos = 1 THEN "wait_for_puback"
                                          ELSE "wait_for_pubrec"
                        ELSE g[x] = x
      BY <2>6 DEF Launches
    <3> SUFFICES ASSUME NEW x \in D.inflight
                 PROVE  \/ \E l \in msgs_out.inflight : Follows(g[x], l)
                        \/ Fresh(g[x]) /\ g[x].state \notin Late
      BY <3>0 DEF Rewrites
    <3>1. g[x].pub = x.pub /\ g[x].mid = x.mid /\ g[x].qos = x.qos
          /\ (x.state \in Late => g[x].state \in Late)
          /\ (x.state \notin Late => g[x].state \notin Late)
      BY <2>6, <3>0 DEF Rewrites, Late
    <3>2. CASE x = m
      BY <1>4, <1>5, <3>1, <3>2 DEF Fresh, Late, m
    <3>3. CASE x \in L
      BY <3>1, <3>3 DEF Follows, L, Shape
    <3> QED
      BY <2>5, <3>2, <3>3
  <2>7. msgs_out.maximum \in SendWindows /\ D.quota \in Nat
    BY <2>5 DEF Shape, Sender, Lists
  <2>8. CASE conn = "none"
    <3> DEFINE n == IF D.quota > 0 THEN 1 ELSE 0
               R == Unsent(D, n)
    <3>1. msgs_out' = Launch(D, R) /\ UNCHANGED channel
      BY <2>2, <2>8 DEF Stranded, channel
    <3>2. \A x \in R : x.state = "invalid"
      BY <2>5, UnsentFirst
    <3> HIDE DEF R, n
    <3>3. /\ Sender(msgs_out') /\ msgs_out'.maximum = msgs_out.maximum
          /\ Launches(D.inflight, msgs_out'.inflight, R)
      BY <2>5, <3>1, LaunchKept
    <3> DEFINE T == <<>>
    <3>4. T \in Seq(Packet(Pubs)) /\ Elems(T) = {}
      BY EmptyElems
    <3>5. toBroker' = toBroker \o T /\ toClient' = toClient
      BY <3>1, ConcatEmptySeq DEF channel, Shape, TypeOK
    <3> HIDE DEF T
    <3>6. Sending(T)
      BY <3>4 DEF Sending
    <3> QED
      BY <1>2, <1>3, <2>6, <2>7, <3>2, <3>3, <3>5, <3>6 DEF ClientMoves
  <2>9. CASE conn # "none"
    <3> DEFINE R == Unsent(D, D.quota)
               T == ReleasedPackets(D)
    <3>1. msgs_out' = Released(D) /\ toBroker' = toBroker \o T /\ toClient' = toClient
      BY <2>2, <2>9
    <3>2. \A x \in R : x.state = "invalid" /\ x \in D.inflight
      BY <2>5, <2>7, UnsentFirst
    <3>3. R = Unsent(D, D.quota)
      OBVIOUS
    <3> HIDE DEF R, T
    <3>4. Launches(D.inflight, msgs_out'.inflight, R)
      BY <2>5, <3>1, <3>3, ReleasedKept
    <3>5. /\ Sender(msgs_out') /\ msgs_out'.maximum = msgs_out.maximum
          /\ T \in Seq(Packet(Pubs)) /\ Elems(T) = {PublishPacket(x) : x \in R}
      BY <2>5, <3>1, <3>3, ReleasedKept DEF T
    <3>6. \A y \in msgs_out'.inflight :
                   \/ \E l \in msgs_out.inflight : Follows(y, l)
                   \/ Fresh(y) /\ y.state \notin Late
      BY <2>6, <3>2, <3>4
    <3>7. Sending(T)
      BY <3>2, <3>4, <3>5, LaunchSending
    <3> QED
      BY <1>2, <1>3, <2>7, <3>1, <3>5, <3>6, <3>7 DEF ClientMoves
  <2> QED
    BY <2>8, <2>9
<1> QED
  BY <1>6, <1>7, <1>8

\* loop_rc_handle.
LEMMA LoseMoves ==
    ASSUME Shape, Lose
    PROVE  ClientMoves /\ UNCHANGED <<published, exact>>
<1>1. UNCHANGED <<msgs_out, published, exact>> /\ QueuesClosed
  BY DEF Lose, ConnectionLost, Hangup
<1>2. \A l \in msgs_out'.inflight : Follows(l, l) /\ l \in msgs_out.inflight
  BY <1>1 DEF Follows, Shape
<1>3. Sender(msgs_out') /\ msgs_out'.maximum \in SendWindows
  BY <1>1 DEF Shape
<1> QED
  BY <1>1, <1>2, <1>3, QuietMoves

\* message__reconnect_reset: a message keeps its PUBREC when it fits the window.
LEMMA ResetFollows ==
    ASSUME Shape, NEW D, Lists(D), D.inflight = msgs_out.inflight, NEW u \in BOOLEAN,
           Remembers => \A m \in D.inflight :
               m.state \in Late => Older(D.inflight, m) < D.maximum,
           NEW m \in ReconnectReset(D, u).inflight
    PROVE  \E l \in msgs_out.inflight : Follows(m, l)
<1> DEFINE W == {x \in D.inflight : Older(D.inflight, x) < D.maximum}
           M == ReconnectReset(D, u).inflight
<1>0. W = {x \in D.inflight : Older(D.inflight, x) < D.maximum}
  OBVIOUS
<1> HIDE DEF W
<1> DEFINE L == D.inflight
<1>1a. Resets(L, M, W, u)
  BY <1>0, ResetKept
<1>1. PICK g : /\ Rewrites(L, M, g)
               /\ \A x \in L :
                     IF x \in W THEN g[x] = IF u THEN x ELSE RetryState(x)
                     ELSE g[x].state = "invalid"
  BY <1>1a DEF Resets
<1> HIDE DEF M
<1>2. PICK l \in D.inflight : m = g[l]
  BY <1>1 DEF Rewrites, M
<1>3. m.pub = l.pub /\ m.mid = l.mid /\ m.qos = l.qos
  BY <1>1, <1>2 DEF Rewrites
<1>4. l.qos \in 1..2 /\ (l.state \in Late => l.qos = 2) /\ l \in OutMsg
  BY DEF Shape, Sender, Lists, Listed, OutMsg
<1>5. m.state \in Late => l.state \in Late
  <2>1. CASE l \notin W
    BY <1>1, <1>2, <2>1 DEF Late
  <2>2. CASE l \in W /\ u
    BY <1>1, <1>2, <2>2
  <2>3. CASE l \in W /\ ~u
    BY <1>1, <1>2, <1>4, <2>3 DEF RetryState, OutMsg, Late
  <2> QED
    BY <2>1, <2>2, <2>3
<1>6. ASSUME Remembers, l.state \in Late PROVE m.state \in Late
  <2>1. l \in W
    BY <1>0, <1>6
  <2>2. m = l \/ m = RetryState(l)
    BY <1>1, <1>2, <2>1
  <2> QED
    BY <1>4, <1>6, <2>2 DEF RetryState, OutMsg, Late
<1> QED
  BY <1>2, <1>3, <1>4, <1>5, <1>6 DEF Follows

\* mosquitto__reconnect, whether or not the host is reached.
LEMMA DialMoves ==
    ASSUME Shape, Dial \/ DialFails
    PROVE  ClientMoves /\ UNCHANGED <<published, exact>>
<1> DEFINE D == ReconnectReset(msgs_out, FALSE)
<1>1. msgs_out' = D /\ UNCHANGED <<published, exact, channel>>
  BY Zenon DEF Dial, DialFails, Reconnect, ReconnectFails
<1>2. Sender(msgs_out) /\ Lists(msgs_out) /\ msgs_out.maximum \in SendWindows
  BY DEF Shape, Sender
<1>3. Sender(D) /\ D.maximum = msgs_out.maximum
  BY <1>2, ResetKept
<1>4. \A m \in D.inflight : \E l \in msgs_out.inflight : Follows(m, l)
  BY <1>2, ResetFollows DEF Remembers
<1> HIDE DEF D
<1> QED
  BY <1>1, <1>2, <1>3, <1>4, QuietMoves

\* message__retry_check: what had its PUBREC is released again, what had not is
\* published again.
LEMMA RetrySending ==
    ASSUME Sender(msgs_out'), NEW T, T = PacketsFor(Retried(msgs_out'), RetryPacket)
    PROVE  Sending(T)
<1> DEFINE L == msgs_out'.inflight
           R == Retried(msgs_out')
<1>1. Listed(L) /\ R \in SUBSET L
  BY DEF Sender, Lists, Retried
<1>2. Listed(R)
  BY <1>1, PartKept
<1>3. T \in Seq(Packet(Pubs)) /\ Elems(T) = {RetryPacket(m) : m \in R}
  BY <1>2, PacketsSent
<1>4. ASSUME NEW x \in R
      PROVE  LET k == RetryPacket(x)
             IN  \/ /\ k.type = "PUBLISH"
                    /\ \E m \in msgs_out'.inflight :
                          /\ m.pub = k.pub /\ m.mid = k.mid /\ m.qos = k.qos
                          /\ m.state \notin Late
                 \/ /\ k.type = "PUBREL"
                    /\ \A m \in msgs_out'.inflight : m.pub = k.pub => m.state \in Late
                    /\ \E m \in msgs_out'.inflight \cup Elems(toClient) :
                          m.pub = k.pub /\ m.mid = k.mid /\ m.qos = k.qos
  <2>1. CASE x.state \in {"publish_qos1", "publish_qos2"}
    BY <1>1, <2>1, Zenon DEF RetryPacket, PublishPacket, Late
  <2>2. CASE x.state \in Late
    <3>1. x.state \notin {"publish_qos1", "publish_qos2"}
      BY <2>2 DEF Late
    <3>2. \A m \in L : m.pub = x.pub => m = x
      BY <1>1 DEF Listed
    <3> QED
      BY <1>1, <2>2, <3>1, <3>2, Zenon DEF RetryPacket, PubrelPacket
  <2> QED
    BY <2>1, <2>2 DEF Retried, Late
<1> HIDE DEF R, L
<1> QED
  BY <1>3, <1>4 DEF Sending

\* handle__connack, with or without a Receive Maximum.
LEMMA ConnackMoves ==
    ASSUME Shape, ClientConnack
    PROVE  ClientMoves /\ UNCHANGED <<published, exact>>
<1> DEFINE receive_maximum == IF Mqtt5 THEN msgs_in.maximum ELSE 0
           max == IF receive_maximum > 0 THEN receive_maximum ELSE msgs_out.maximum
           C == [msgs_out EXCEPT !.maximum = max]
           D == ReconnectReset(C, TRUE)
           T == PacketsFor(Retried(D), RetryPacket)
           L == msgs_out.inflight
<1>1. /\ msgs_out' = D /\ toBroker' = toBroker \o T /\ toClient' = toClient
      /\ UNCHANGED <<published, exact>>
  BY DEF ClientConnack, HandleConnack
<1>2. max \in Nat /\ max \in SendWindows
  BY SenderAssumption, IncomingAssumption DEF Shape, TypeOK, SendWindows
<1>3. Lists(msgs_out)
  BY DEF Shape, Sender
<1> HIDE DEF max
<1>4. /\ Lists(C) /\ C.inflight = L /\ C.maximum = max
  BY <1>2, <1>3 DEF Lists
<1> HIDE DEF C
<1>5. Sender(D) /\ D.maximum = max
  BY <1>4, ResetKept
<1>6. Remembers => \A m \in C.inflight :
         m.state \in Late => Older(C.inflight, m) < C.maximum
  BY <1>4, IncomingAssumption DEF Remembers, max
<1>7. \A m \in D.inflight : \E l \in msgs_out.inflight : Follows(m, l)
  BY <1>4, <1>6, ResetFollows
<1> HIDE DEF D
<1>8. Sending(T)
  BY <1>1, <1>5, RetrySending
<1> HIDE DEF T
<1> QED
  BY <1>1, <1>2, <1>5, <1>7, <1>8 DEF ClientMoves

\* What message__release_to_inflight sends is what the list held before.
LEMMA LaunchFollows ==
    ASSUME Shape, NEW L \in SUBSET msgs_out.inflight, NEW M, NEW R,
           \A x \in R : x.state = "invalid", Launches(L, M, R), NEW y \in M
    PROVE  \E l \in msgs_out.inflight : Follows(y, l)
<1>1. PICK g : /\ Rewrites(L, M, g)
               /\ \A x \in L : IF x \in R
                    THEN g[x].state = IF x.qos = 1 THEN "wait_for_puback"
                                      ELSE "wait_for_pubrec"
                    ELSE g[x] = x
  BY DEF Launches
<1>2. PICK l \in L : y = g[l]
  BY <1>1 DEF Rewrites
<1>3. y.pub = l.pub /\ y.mid = l.mid /\ y.qos = l.qos
      /\ (l.state \in Late => y.state \in Late)
      /\ (y.state \in Late => l.state \in Late)
  BY <1>1, <1>2 DEF Rewrites, Late
<1> QED
  BY <1>2, <1>3 DEF Follows, Shape

\* util__increment_send_quota.
LEMMA RaiseKept ==
    ASSUME NEW D, Sender(D), NEW L \in SUBSET D.inflight, NEW E,
           E = [inflight |-> L, quota |-> RaiseSend(D), maximum |-> D.maximum]
    PROVE  Sender(E)
<1>1. Listed(L) /\ L \subseteq OutMsg
  BY PartKept DEF Sender, Lists, Listed
<1>2. RaiseSend(D) \in Nat /\ RaiseSend(D) <= D.maximum /\ D.maximum \in Nat
  BY DEF Sender, Lists, RaiseSend
<1> QED
  BY <1>1, <1>2 DEF Sender, Lists

\* A message is deleted, and the next ones are sent.
LEMMA CompleteMoves ==
    ASSUME Shape, NEW D, D = [msgs_out EXCEPT !.quota = RaiseSend(msgs_out)],
           NEW M, Complete(D, M), toClient # <<>>
    PROVE  ClientMoves
<1> DEFINE L == msgs_out.inflight \ M
           E == [D EXCEPT !.inflight = @ \ M]
           T == ReleasedPackets(E)
           R == Unsent(E, E.quota)
<1>1. msgs_out' = Released(E) /\ toBroker' = toBroker \o T /\ toClient' = Tail(toClient)
  BY DEF Complete
<1>2. E = [inflight |-> L, quota |-> RaiseSend(msgs_out), maximum |-> msgs_out.maximum]
  <2> DEFINE q == RaiseSend(msgs_out)
  <2> HIDE DEF q
  <2>1. D = [inflight |-> msgs_out.inflight, quota |-> q, maximum |-> msgs_out.maximum]
    BY DEF Shape, TypeOK, q
  <2>2. E = [D EXCEPT !.inflight = L]
    BY <2>1
  <2> HIDE DEF L, E
  <2>3. E = [inflight |-> L, quota |-> q, maximum |-> msgs_out.maximum]
    BY <2>1, <2>2
  <2> QED
    BY <2>3 DEF q
<1>3. L \in SUBSET msgs_out.inflight /\ Sender(msgs_out)
  BY DEF Shape
<1> HIDE DEF L, E
<1>4. Sender(E)
  <2> DEFINE F == [inflight |-> L, quota |-> RaiseSend(msgs_out),
                   maximum |-> msgs_out.maximum]
  <2>1. Sender(F)
    BY <1>3, RaiseKept
  <2> QED
    BY <1>2, <2>1
<1>5. E.inflight = L /\ E.maximum = msgs_out.maximum /\ E.quota \in Nat
  BY <1>2, <1>4 DEF Sender, Lists
<1>6. (\A x \in R : x.state = "invalid") /\ R \subseteq L
  BY <1>4, <1>5, UnsentFirst
<1>7. R = Unsent(E, E.quota)
  OBVIOUS
<1> HIDE DEF R
<1>8. /\ Sender(msgs_out') /\ msgs_out'.maximum = msgs_out.maximum
      /\ Launches(L, msgs_out'.inflight, R)
      /\ T \in Seq(Packet(Pubs)) /\ Elems(T) = {PublishPacket(m) : m \in R}
  BY <1>1, <1>4, <1>5, <1>7, ReleasedKept
<1> HIDE DEF T
<1>9. Sending(T)
  BY <1>6, <1>8, LaunchSending
<1>10. \A y \in msgs_out'.inflight : \E l \in msgs_out.inflight : Follows(y, l)
  BY <1>3, <1>6, <1>8, LaunchFollows
<1>11. msgs_out'.maximum \in SendWindows
  BY <1>8 DEF Shape
<1> QED
  BY <1>1, <1>8, <1>9, <1>10, <1>11 DEF ClientMoves

\* A protocol error closes the connection.
LEMMA ErrorMoves ==
    ASSUME Shape, Hangup,
           msgs_out' \in {msgs_out, [msgs_out EXCEPT !.quota = RaiseSend(msgs_out)]}
    PROVE  ClientMoves
<1> DEFINE E == [inflight |-> msgs_out.inflight, quota |-> RaiseSend(msgs_out),
                 maximum |-> msgs_out.maximum]
           L == msgs_out.inflight
<1>1. Sender(msgs_out) /\ L \in SUBSET msgs_out.inflight
  BY DEF Shape
<1>2. Sender(E)
  BY <1>1, RaiseKept
<1>3. [msgs_out EXCEPT !.quota = RaiseSend(msgs_out)] = E
  BY DEF Shape, TypeOK
<1>4. /\ Sender(msgs_out') /\ msgs_out'.inflight = msgs_out.inflight
      /\ msgs_out'.maximum = msgs_out.maximum
  BY <1>1, <1>2, <1>3
<1>5. \A m \in msgs_out'.inflight : Follows(m, m)
  BY <1>4 DEF Follows, Shape
<1>6. QueuesClosed /\ msgs_out'.maximum \in SendWindows
  BY <1>4 DEF Hangup, Shape
<1> QED
  BY <1>4, <1>5, <1>6, QuietMoves

\* handle__pubrec in the client: the message waits for its PUBCOMP, and the
\* PUBREL is sent.
LEMMA PubrecMoves ==
    ASSUME Shape, toClient # <<>>, ClientPubrec(Head(toClient))
    PROVE  ClientMoves
<1> DEFINE pkt == Head(toClient)
           L == msgs_out.inflight
           M == FirstWith(L, pkt.mid)
           match == \A m \in M : m.qos = 2
           t(m) == IF m \in M THEN [m EXCEPT !.state = "wait_for_pubcomp"] ELSE m
           g == [m \in L |-> t(m)]
           N == {t(m) : m \in L}
           k == Answer(pkt, "PUBREL")
           T == <<k>>
<1>1. CASE ~match
  <2>1. Hangup /\ UNCHANGED msgs_out
    BY <1>1 DEF ClientPubrec
  <2> QED
    BY <2>1, ErrorMoves
<1>2. CASE match
  <2>0. pkt \in Packet(Pubs) /\ pkt \in Elems(toClient)
    BY TailElems DEF Shape, TypeOK
  <2>1. /\ msgs_out' = [msgs_out EXCEPT !.inflight = (L \ M) \cup
                          {[m EXCEPT !.state = "wait_for_pubcomp"] : m \in M}]
        /\ toBroker' = Append(toBroker, k) /\ toClient' = Tail(toClient)
    BY <1>2 DEF ClientPubrec
  <2>2. M \in SUBSET L
    BY DEF FirstWith
  <2> HIDE DEF M
  <2>3. (L \ M) \cup {[m EXCEPT !.state = "wait_for_pubcomp"] : m \in M} = N
    BY <2>2
  <2>4. Listed(L) /\ Sender(msgs_out)
    BY DEF Shape, Sender, Lists
  <2>5. \A m \in L : /\ t(m) \in OutMsg
                     /\ t(m).pub = m.pub /\ t(m).mid = m.mid /\ t(m).qos = m.qos
                     /\ IF m \in M THEN t(m).state = "wait_for_pubcomp" ELSE t(m) = m
    BY <2>4 DEF Listed, OutMsg, OutStates
  <2> HIDE DEF t
  <2>6. Rewrites(L, N, g)
    BY <2>5 DEF Rewrites
  <2> HIDE DEF g, N
  <2>7. Listed(N)
    BY <2>4, <2>6, RewriteKept
  <2>8. /\ msgs_out'.inflight = N /\ msgs_out'.maximum = msgs_out.maximum
        /\ Sender(msgs_out')
    BY <2>1, <2>3, <2>4, <2>7 DEF Sender, Lists, Listed
  <2>9. \A m \in L : g[m] \in N /\ g[m] = t(m)
    BY <2>5, <2>6 DEF Rewrites, g
  <2>10. ASSUME NEW y \in N PROVE \E l \in L : Follows(y, l)
    <3>1. PICK l \in L : y = t(l)
      BY DEF N
    <3>2. CASE l \in M
      BY <1>2, <2>5, <3>1, <3>2 DEF Follows, Late
    <3>3. CASE l \notin M
      BY <2>5, <3>1, <3>3 DEF Follows, Shape
    <3> QED
      BY <3>2, <3>3
  <2>11. /\ k \in Packet(Pubs) /\ k.type = "PUBREL" /\ k.mid = pkt.mid
         /\ k.pub = pkt.pub /\ k.qos = pkt.qos
    BY <2>0, AnswerType DEF PacketTypes
  <2> HIDE DEF k, pkt
  <2>12. T \in Seq(Packet(Pubs)) /\ Elems(T) = {k}
    BY <2>11, SingleElem
  <2>13. toBroker' = toBroker \o T
    BY <2>1, <2>11, AppendIsConcat DEF Shape, TypeOK
  <2>14. ASSUME Numbered, NEW y \in N, y.pub = k.pub
         PROVE  y.state \in Late
    <3>1. PICK l \in L : y = t(l) /\ l.pub = pkt.pub
      BY <2>5, <2>11, <2>14 DEF N
    <3>2. l.mid = pkt.mid /\ \A x \in L : x.mid = pkt.mid => x = l
      BY <2>0, <2>4, <2>14, <3>1 DEF Numbered, Wire, Listed
    <3>3. l.pub <= l.pub
      BY <2>4, SenderAssumption DEF Listed, OutMsg
    <3>4. l \in M
      BY <3>2, <3>3 DEF M, FirstWith
    <3> QED
      BY <2>5, <3>1, <3>4 DEF Late
  <2>15. Sending(T)
    BY <2>0, <2>8, <2>11, <2>12, <2>14 DEF Sending
  <2>16. msgs_out'.maximum \in SendWindows
    BY <2>8 DEF Shape
  <2> HIDE DEF T
  <2> QED
    BY <2>1, <2>8, <2>10, <2>13, <2>15, <2>16 DEF ClientMoves
<1> QED
  BY <1>1, <1>2

\* An acknowledgement at the client.
LEMMA ReceiveMoves ==
    ASSUME Shape, ClientReceive
    PROVE  ClientMoves /\ UNCHANGED <<published, exact>>
<1> DEFINE pkt == Head(toClient)
           D == [msgs_out EXCEPT !.quota = RaiseSend(msgs_out)]
<1>1. /\ toClient # <<>> /\ UNCHANGED <<published, exact>>
      /\ ClientPubackcomp(pkt) \/ ClientPubrec(pkt) \/ ClientPubrecRefused(pkt)
  BY DEF ClientReceive, ClientHandle
<1>2. CASE ClientPubrec(pkt)
  BY <1>1, <1>2, PubrecMoves
<1>3. CASE ClientPubackcomp(pkt) \/ ClientPubrecRefused(pkt)
  <2>1. (\E M : Complete(D, M)) \/ (msgs_out' = D /\ Hangup)
    BY <1>3 DEF ClientPubackcomp, ClientPubrecRefused
  <2>2. D = [msgs_out EXCEPT !.quota = RaiseSend(msgs_out)]
    OBVIOUS
  <2> HIDE DEF D
  <2> QED
    BY <1>1, <2>1, <2>2, CompleteMoves, ErrorMoves
<1> QED
  BY <1>1, <1>2, <1>3

----------------------------------------------------------------------------
(* Types.                                                                  *)

\* db__message_reconnect_reset_incoming.
LEMMA ConnectHandled ==
    ASSUME Shape, BrokerConnect
    PROVE  /\ Receiver(msgs_in') /\ msgs_in'.maximum \in Maxima
           /\ Within(msgs_in', msgs_in) /\ (Single(msgs_in) => Single(msgs_in'))
           /\ UNCHANGED <<msgs_out, published, exact, routed, refused, channel, confirmed>>
<1>1. PICK max \in Maxima : HandleConnect(max)
  BY DEF BrokerConnect
<1> DEFINE q == Lower(max, Cardinality(msgs_in.inflight))
           c == Cardinality(msgs_in.inflight) + Cardinality(msgs_in.queued)
           D == [msgs_in EXCEPT !.quota = q, !.maximum = max, !.count12 = c]
           n == IF max = 0 THEN Cardinality(msgs_in.queued) ELSE q
           S == FirstN(msgs_in.queued, n)
<1>2. msgs_in' = Dequeue(D, S)
  BY <1>1 DEF HandleConnect, ResetIncoming
<1>3. Receiver(msgs_in) /\ max \in Nat
  BY IncomingAssumption DEF Shape
<1>4. Cardinality(msgs_in.inflight) \in Nat /\ Cardinality(msgs_in.queued) \in Nat
  BY <1>3, FS_CardinalityType DEF Receiver, Placed
<1>5. q \in Nat /\ q <= max /\ c \in Int
  BY <1>3, <1>4 DEF Lower
<1> HIDE DEF q, c
<1>6. Receiver(D) /\ D.maximum = max /\ D.inflight = msgs_in.inflight
      /\ D.queued = msgs_in.queued
  BY <1>3, <1>5 DEF Receiver
<1> HIDE DEF D
<1>7. S \in SUBSET D.queued
  BY <1>6 DEF FirstN
<1> HIDE DEF S
<1>8. /\ Receiver(msgs_in') /\ Within(msgs_in', D) /\ msgs_in'.maximum = max
      /\ Single(D) => Single(msgs_in')
  BY <1>2, <1>6, <1>7, DequeueKept
<1>9. Within(msgs_in', msgs_in) /\ (Single(msgs_in) => Single(D))
  BY <1>6, <1>8 DEF Within, Stored, Single
<1> QED
  BY <1>1, <1>8, <1>9 DEF BrokerConnect, HandleConnect

\* The counters and histories of the client.
CountersOK ==
    /\ conn \in {"none", "connecting", "accepted", "active"}
    /\ published \in 0..MaxPublish /\ drops \in Nat /\ confirmed \subseteq Pubs
    /\ exact \subseteq 1..published

ClientSteps ==
    AppPublish \/ Lose \/ Dial \/ DialFails \/ ClientConnack \/ ClientReceive

\* A step of the client.
LEMMA StepMoves ==
    ASSUME Shape, ClientSteps
    PROVE  /\ ClientMoves /\ CountersOK' /\ UNCHANGED brokerVars
           /\ published' \in {published, published + 1}
           /\ exact \subseteq exact' /\ exact' \subseteq exact \cup {published + 1}
<1>0. CountersOK /\ published \in Nat /\ MaxPublish \in Nat
  BY SenderAssumption DEF Shape, TypeOK, CountersOK
<1>1. CASE AppPublish
  <2>1. /\ ClientMoves /\ published' = published + 1 /\ published' \in Pubs
    BY <1>1, PublishMoves
  <2>2. /\ UNCHANGED <<conn, drops, confirmed>> /\ UNCHANGED brokerVars
        /\ exact' \in {exact, exact \cup {published'}}
    BY <1>1 DEF AppPublish, ClientPublish
  <2> QED
    BY <1>0, <2>1, <2>2 DEF CountersOK
<1>2. CASE Lose
  <2>1. ClientMoves /\ UNCHANGED <<published, exact>>
    BY <1>2, LoseMoves
  <2> QED
    BY <1>0, <1>2, <2>1, SenderAssumption DEF CountersOK, Lose, ConnectionLost, Hangup
<1>3. CASE Dial \/ DialFails
  <2>1. ClientMoves /\ UNCHANGED <<published, exact>>
    BY <1>3, DialMoves
  <2> QED
    BY <1>0, <1>3, <2>1 DEF CountersOK, Dial, DialFails, Reconnect, ReconnectFails
<1>4. CASE ClientConnack
  <2>1. ClientMoves /\ UNCHANGED <<published, exact>>
    BY <1>4, ConnackMoves
  <2> QED
    BY <1>0, <1>4, <2>1 DEF CountersOK, ClientConnack, HandleConnack
<1>5. CASE ClientReceive
  <2>1. ClientMoves /\ UNCHANGED <<published, exact>> /\ UNCHANGED brokerVars
    BY <1>5, ReceiveMoves, SMTT(30) DEF ClientReceive
  <2>2. conn' \in {conn, "none"} /\ drops' \in {drops, drops + 1}
    BY <1>5, Zenon DEF ClientReceive, ClientHandle, ClientPubackcomp, ClientPubrec,
                ClientPubrecRefused, Complete, Hangup
  <2>3. confirmed' = confirmed \/ \E M \in SUBSET msgs_out.inflight :
                                     confirmed' = confirmed \cup {m.pub : m \in M}
    <3> DEFINE D == [msgs_out EXCEPT !.quota = RaiseSend(msgs_out)]
    <3>1. D.inflight = msgs_out.inflight
      BY SMTT(30) DEF Shape, TypeOK
    <3> HIDE DEF D
    <3>2. \/ confirmed' = confirmed
          \/ \E M : M \subseteq D.inflight /\ confirmed' = confirmed \cup {m.pub : m \in M}
      BY <1>5, Zenon DEF ClientReceive, ClientHandle, ClientPubackcomp, ClientPubrec,
                  ClientPubrecRefused, Complete, FirstWith, D
    <3> QED
      BY <3>1, <3>2
  <2>4. \A m \in msgs_out.inflight : m.pub \in Pubs
    BY DEF Shape, TypeOK, OutMsg
  <2>5. confirmed' \subseteq Pubs
    <3>1. ASSUME NEW M \in SUBSET msgs_out.inflight,
                 confirmed' = confirmed \cup {m.pub : m \in M}
          PROVE  confirmed' \subseteq Pubs
      <4>1. {m.pub : m \in M} \subseteq Pubs
        BY <2>4
      <4> QED
        BY <1>0, <3>1, <4>1 DEF CountersOK
    <3> QED
      BY <1>0, <2>3, <3>1 DEF CountersOK
  <2> QED
    BY <1>0, <2>1, <2>2, <2>5 DEF CountersOK
<1> QED
  BY <1>1, <1>2, <1>3, <1>4, <1>5 DEF ClientSteps

\* What the packets on the connection become.
LEMMA ClientWire ==
    ASSUME Shape, ClientMoves
    PROVE  toBroker' \in Seq(Packet(Pubs)) /\ toClient' \in Seq(Packet(Pubs))
<1>1. toBroker \in Seq(Packet(Pubs)) /\ toClient \in Seq(Packet(Pubs))
  BY DEF Shape, TypeOK
<1>2. CASE toBroker' = <<>> /\ toClient' = <<>>
  BY <1>2, EmptyElems
<1>3. CASE /\ toClient' = toClient \/ (toClient # <<>> /\ toClient' = Tail(toClient))
           /\ \E T : Sending(T) /\ toBroker' = toBroker \o T
  <2>1. PICK T : T \in Seq(Packet(Pubs)) /\ toBroker' = toBroker \o T
    BY <1>3 DEF Sending
  <2> QED
    BY <1>1, <1>3, <2>1, TailElems, ConcatElems, ZenonT(60)
<1> QED
  BY <1>2, <1>3 DEF ClientMoves

\* A packet read by the broker.
LEMMA BrokerStep ==
    ASSUME Shape, BrokerReceive, NEW pkt, pkt = Head(toBroker)
    PROVE  /\ pkt \in Packet(Pubs) /\ pkt \in Elems(toBroker)
           /\ Handling(pkt) /\ toBroker # <<>> /\ toBroker' = Tail(toBroker)
           /\ UNCHANGED clientVars
<1>1. /\ toBroker # <<>> /\ toBroker' = Tail(toBroker) /\ UNCHANGED clientVars
      /\ HandlePublish(pkt) \/ HandlePubrel(pkt)
  BY DEF BrokerReceive, BrokerHandle
<1>2. pkt \in Packet(Pubs) /\ pkt \in Elems(toBroker)
  BY <1>1, TailElems DEF Shape, TypeOK
<1> QED
  BY <1>1, <1>2, PublishHandled, PubrelHandled

\* The types are kept, and with them the shape of the lists.
LEMMA ShapeStep ==
    ASSUME Shape, [Next]_vars
    PROVE  Shape'
<1>1. CASE ClientSteps
  <2>1. /\ ClientMoves /\ CountersOK' /\ UNCHANGED brokerVars
        /\ published' \in {published, published + 1}
    BY <1>1, StepMoves
  <2>2. toBroker' \in Seq(Packet(Pubs)) /\ toClient' \in Seq(Packet(Pubs))
    BY <2>1, ClientWire
  <2>3. Sender(msgs_out') /\ msgs_out'.maximum \in SendWindows
    BY <2>1 DEF ClientMoves
  <2>4. Receiver(msgs_in)' /\ msgs_in'.maximum \in Maxima
    BY <2>1 DEF Shape, Receiver, brokerVars
  <2>5. ASSUME NEW m \in msgs_out'.inflight
        PROVE  m.pub <= published' /\ (m.state \in Late => m.qos = 2)
    <3>1. published' \in Nat /\ published \in Nat /\ published <= published'
      BY <2>1, SenderAssumption DEF CountersOK, Shape, TypeOK
    <3>2. CASE Fresh(m) /\ m.state \notin Late
      BY <3>1, <3>2 DEF Fresh
    <3>3. CASE \E l \in msgs_out.inflight : Follows(m, l)
      <4>1. PICK l \in msgs_out.inflight : Follows(m, l)
        BY <3>3
      <4>2. l.pub \in Nat /\ l.pub <= published
        BY SenderAssumption DEF Shape, Sender, Lists, Listed, OutMsg
      <4> QED
        BY <3>1, <4>1, <4>2 DEF Follows
    <3> QED
      BY <2>1, <3>2, <3>3 DEF ClientMoves
  <2>6. routed' \in [Pubs -> Nat] /\ refused' \subseteq Pubs
    BY <2>1 DEF brokerVars, Shape, TypeOK
  <2>7. exact' \subseteq 1..published' /\ exact' \subseteq Pubs
    BY <2>1, SenderAssumption DEF CountersOK
  <2>8. TypeOK'
    BY <2>1, <2>2, <2>3, <2>4, <2>6, <2>7 DEF TypeOK, CountersOK, Sender, Lists, Receiver
  <2> QED
    BY <2>3, <2>4, <2>5, <2>7, <2>8 DEF Shape
<1>2. CASE BrokerConnect
  <2>1. /\ Receiver(msgs_in') /\ msgs_in'.maximum \in Maxima
        /\ UNCHANGED <<msgs_out, published, exact, routed, refused, channel, confirmed>>
    BY <1>2, ConnectHandled
  <2>2. conn' = "accepted" /\ UNCHANGED drops
    BY <1>2 DEF BrokerConnect
  <2> QED
    BY <2>1, <2>2 DEF Shape, TypeOK, channel, Sender, Lists, Receiver
<1>3. CASE BrokerReceive
  <2> DEFINE pkt == Head(toBroker)
  <2>1. Handling(pkt) /\ toBroker # <<>> /\ toBroker' = Tail(toBroker) /\ UNCHANGED clientVars
    BY <1>3, BrokerStep
  <2>2. PICK A : InHand(msgs_in', A, pkt) /\ toClient' = toClient \o A
    BY <2>1 DEF Handling
  <2>3. /\ Receiver(msgs_in') /\ msgs_in'.maximum = msgs_in.maximum
        /\ A \in Seq(Packet(Pubs))
    BY <2>2 DEF InHand, Answers
  <2>4. toClient \in Seq(Packet(Pubs)) /\ toBroker \in Seq(Packet(Pubs))
    BY DEF Shape, TypeOK
  <2>5. toBroker' \in Seq(Packet(Pubs)) /\ toClient' \in Seq(Packet(Pubs))
    BY <2>1, <2>2, <2>3, <2>4, TailElems, ConcatElems
  <2>6. routed' \in [Pubs -> Nat] /\ refused' \subseteq Pubs
    BY <2>1 DEF Handling
  <2> HIDE DEF pkt
  <2> QED
    BY <2>1, <2>3, <2>5, <2>6 DEF Shape, TypeOK, clientVars, Sender, Lists, Receiver
<1>4. CASE UNCHANGED vars
  BY <1>4 DEF vars, clientVars, brokerVars, channel, Shape, TypeOK, Sender, Lists, Receiver
<1> QED
  BY <1>1, <1>2, <1>3, <1>4 DEF Next, ClientSteps

LEMMA ShapeInit ==
    ASSUME Init
    PROVE  Shape
<1>1. /\ conn = "none" /\ published = 0 /\ drops = 0 /\ exact = {} /\ confirmed = {}
      /\ msgs_out = [inflight |-> {}, quota |-> Window, maximum |-> Window]
      /\ toClient = <<>> /\ toBroker = <<>> /\ routed = [p \in Pubs |-> 0] /\ refused = {}
  BY DEF Init, SenderInit, IncomingInit, QueuesInit
<1>2. PICK max \in Maxima : msgs_in = NoMessages(max)
  BY DEF Init, IncomingInit
<1>3. IsFiniteSet({})
  BY FS_EmptySet
<1>4. Sender(msgs_out) /\ msgs_out.maximum \in SendWindows /\ msgs_out.inflight = {}
  BY <1>1, <1>3, SenderAssumption DEF Sender, Lists, Listed, SendWindows
<1>5. Receiver(msgs_in) /\ msgs_in.maximum \in Maxima
  BY <1>2, <1>3, IncomingAssumption DEF NoMessages, Receiver, Placed
<1>6. <<>> \in Seq(Packet(Pubs))
  BY EmptyElems
<1> QED
  BY <1>1, <1>4, <1>5, <1>6, SenderAssumption DEF Shape, TypeOK, Sender, Lists, Receiver

LEMMA AlwaysShape == Spec => []Shape
  BY ShapeInit, ShapeStep, PTL DEF Spec

\* Type correctness of a publisher and the broker.  The quota of the client and
\* the one of the session never leave their windows, although a CONNACK or a
\* reload of the configuration changes the windows and both ends raise the
\* quotas for acknowledgements that answer nothing.
THEOREM TypeCorrect == Spec => []TypeOK
<1>1. Shape => TypeOK
  BY DEF Shape
<1> QED
  BY <1>1, AlwaysShape, PTL

----------------------------------------------------------------------------
(* At most once.                                                           *)

\* Packets sent after the others keep the order.
LEMMA OrderedConcat ==
    ASSUME NEW S, NEW s \in Seq(S), NEW t \in Seq(S), Ordered(s), Ordered(t),
           \A a \in Elems(s), b \in Elems(t) :
               a.type = "PUBREL" /\ b.type = "PUBLISH" => a.pub # b.pub
    PROVE  Ordered(s \o t)
<1>1. /\ Len(s \o t) = Len(s) + Len(t)
      /\ \A i \in 1 .. Len(s) + Len(t) :
            (s \o t)[i] = IF i <= Len(s) THEN s[i] ELSE t[i - Len(s)]
  BY ConcatProperties
<1>2. Len(s) \in Nat /\ Len(t) \in Nat
  BY LenProperties
<1> DEFINE u == s \o t
<1> HIDE DEF u
<1> SUFFICES ASSUME NEW i \in 1..Len(u), NEW j \in 1..Len(u), i < j,
                    u[i].type = "PUBREL", u[j].type = "PUBLISH"
             PROVE  u[i].pub # u[j].pub
  BY DEF Ordered, u
<1>3. CASE j <= Len(s)
  <2>1. i \in 1..Len(s) /\ j \in 1..Len(s) /\ u[i] = s[i] /\ u[j] = s[j]
    BY <1>1, <1>2, <1>3 DEF u
  <2> QED
    BY <2>1 DEF Ordered
<1>4. CASE i > Len(s)
  <2>1. /\ i - Len(s) \in 1..Len(t) /\ j - Len(s) \in 1..Len(t) /\ i - Len(s) < j - Len(s)
        /\ u[i] = t[i - Len(s)] /\ u[j] = t[j - Len(s)]
    BY <1>1, <1>2, <1>4 DEF u
  <2> QED
    BY <2>1 DEF Ordered
<1>5. CASE i <= Len(s) /\ j > Len(s)
  <2>1. /\ i \in 1..Len(s) /\ j - Len(s) \in 1..Len(t)
        /\ u[i] = s[i] /\ u[j] = t[j - Len(s)]
    BY <1>1, <1>2, <1>5 DEF u
  <2>2. u[i] \in Elems(s) /\ u[j] \in Elems(t)
    BY <2>1 DEF Elems
  <2> QED
    BY <2>2
<1> QED
  BY <1>1, <1>2, <1>3, <1>4, <1>5 DEF u

\* Reading a packet keeps the order; after a PUBREL no PUBLISH of it is left.
LEMMA OrderedTail ==
    ASSUME NEW S, NEW s \in Seq(S), s # <<>>, Ordered(s)
    PROVE  /\ Ordered(Tail(s))
           /\ \A b \in Elems(Tail(s)) :
                 Head(s).type = "PUBREL" /\ b.type = "PUBLISH" => b.pub # Head(s).pub
<1>1. /\ Len(Tail(s)) = Len(s) - 1
      /\ \A i \in 1 .. Len(Tail(s)) : Tail(s)[i] = s[i+1]
  BY HeadTailProperties
<1>2. Len(s) \in Nat \ {0} /\ Head(s) = s[1]
  BY EmptySeq
<1> DEFINE u == Tail(s)
<1> HIDE DEF u
<1>3. Ordered(u)
  <2> SUFFICES ASSUME NEW i \in 1..Len(u), NEW j \in 1..Len(u), i < j,
                      u[i].type = "PUBREL", u[j].type = "PUBLISH"
               PROVE  u[i].pub # u[j].pub
    BY DEF Ordered
  <2>1. /\ i + 1 \in 1..Len(s) /\ j + 1 \in 1..Len(s) /\ i + 1 < j + 1
        /\ u[i] = s[i + 1] /\ u[j] = s[j + 1]
    BY <1>1, <1>2 DEF u
  <2> QED
    BY <2>1 DEF Ordered
<1>4. ASSUME NEW b \in Elems(u), Head(s).type = "PUBREL", b.type = "PUBLISH"
      PROVE  b.pub # Head(s).pub
  <2>1. PICK j \in 1..Len(u) : b = u[j]
    BY DEF Elems
  <2>2. 1 \in 1..Len(s) /\ j + 1 \in 1..Len(s) /\ 1 < j + 1 /\ b = s[j + 1]
    BY <1>1, <1>2, <2>1 DEF u
  <2> QED
    BY <1>2, <1>4, <2>2 DEF Ordered
<1> QED
  BY <1>3, <1>4 DEF u

\* What is past its PUBREC stays so, unless the client forgets it.
LEMMA PastKept ==
    ASSUME Shape, Remembers, ClientMoves, published' \in {published, published + 1},
           NEW p, Past(p), p \in Nat, p <= published
    PROVE  Past(p)'
<1>1. published \in Nat
  BY SenderAssumption DEF Shape, TypeOK
<1> SUFFICES ASSUME NEW m \in msgs_out'.inflight, m.pub = p
             PROVE  m.state \in Late
  BY DEF Past
<1>2. ~Fresh(m)
  BY <1>1 DEF Fresh
<1>3. PICK l \in msgs_out.inflight : Follows(m, l)
  BY <1>2 DEF ClientMoves
<1> QED
  BY <1>3 DEF Past, Follows

\* What the client sends keeps the order of the queue.
LEMMA SendOrdered ==
    ASSUME Shape, Remembers, Core, ClientMoves,
           published' \in {published, published + 1}, NEW T, Sending(T)
    PROVE  Ordered(toBroker \o T)
<1>0. toBroker \in Seq(Packet(Pubs)) /\ T \in Seq(Packet(Pubs)) /\ Ordered(toBroker)
  BY DEF Shape, TypeOK, Sending, Core
<1>1. Numbered
  BY DEF Numbered, Core, Numbers
<1>2. published \in Nat
  BY SenderAssumption DEF Shape, TypeOK
<1>3. ASSUME NEW a \in Elems(toBroker), NEW b \in Elems(T),
             a.type = "PUBREL", b.type = "PUBLISH"
      PROVE  a.pub # b.pub
  <2>1. a.pub \in Nat /\ a.pub <= published /\ Past(a.pub)
    BY <1>0, <1>3, ElemsType, SenderAssumption DEF Core, Numbers, Releases, Wire, Packet
  <2>2. Past(a.pub)'
    BY <2>1, PastKept
  <2>3. CASE \E k \in Packet(Pubs) : T = <<k>> /\ k.type = "PUBLISH" /\ Fresh(k)
    <3>1. PICK k \in Packet(Pubs) : T = <<k>> /\ Fresh(k)
      BY <2>3
    <3>2. b = k
      BY <3>1, SingleElem
    <3> QED
      BY <1>2, <2>1, <3>1, <3>2 DEF Fresh
  <2>4. CASE \E m \in msgs_out'.inflight : m.pub = b.pub /\ m.state \notin Late
    BY <2>2, <2>4 DEF Past
  <2> QED
    BY <1>3, <2>3, <2>4 DEF Sending
<1>4. Ordered(T)
  <2>1. CASE \E k \in Packet(Pubs) : T = <<k>> /\ k.type = "PUBLISH" /\ Fresh(k)
    <3>1. PICK k \in Packet(Pubs) : T = <<k>>
      BY <2>1
    <3>2. Len(T) = 1
      BY <3>1
    <3> QED
      BY <3>2 DEF Ordered
  <2>2. CASE \A k \in Elems(T) :
               \/ /\ k.type = "PUBLISH"
                  /\ \E m \in msgs_out'.inflight : m.pub = k.pub /\ m.state \notin Late
               \/ /\ k.type = "PUBREL"
                  /\ \A m \in msgs_out'.inflight : m.pub = k.pub => m.state \in Late
    <3> SUFFICES ASSUME NEW i \in 1..Len(T), NEW j \in 1..Len(T),
                        T[i].type = "PUBREL", T[j].type = "PUBLISH"
                 PROVE  T[i].pub # T[j].pub
      BY DEF Ordered
    <3>1. T[i] \in Elems(T) /\ T[j] \in Elems(T)
      BY DEF Elems
    <3> QED
      BY <2>2, <3>1
  <2> QED
    BY <1>1, <2>1, <2>2 DEF Sending
<1> QED
  BY <1>0, <1>3, <1>4, OrderedConcat

\* Where the packets on the connection come from after a step of the client.
LEMMA SentWire ==
    ASSUME Shape, Remembers, Core, ClientMoves,
           published' \in {published, published + 1}
    PROVE  /\ Ordered(toBroker')
           /\ \A k \in Elems(toBroker') \cup Elems(toClient') :
                 \/ k \in Wire /\ (k \in Elems(toBroker') => k \in Elems(toBroker))
                 \/ /\ k \in Elems(toBroker') /\ k.type = "PUBLISH"
                    /\ \E m \in msgs_out'.inflight :
                          /\ m.pub = k.pub /\ m.mid = k.mid /\ m.qos = k.qos
                          /\ m.state \notin Late
                 \/ /\ k \in Elems(toBroker') /\ k.type = "PUBREL" /\ Past(k.pub)'
                    /\ \E m \in msgs_out'.inflight \cup Wire :
                          m.pub = k.pub /\ m.mid = k.mid /\ m.qos = k.qos
                 \/ k \in Elems(toBroker') /\ k.type = "PUBLISH" /\ Fresh(k)
<1>1. toBroker \in Seq(Packet(Pubs)) /\ toClient \in Seq(Packet(Pubs)) /\ Numbered
  BY DEF Shape, TypeOK, Numbered, Core, Numbers
<1>2. CASE toBroker' = <<>> /\ toClient' = <<>>
  <2>1. Len(toBroker') = 0 /\ Elems(toBroker') = {} /\ Elems(toClient') = {}
    BY <1>2, EmptyElems
  <2> QED
    BY <2>1 DEF Ordered
<1>3. CASE /\ toClient' = toClient \/ (toClient # <<>> /\ toClient' = Tail(toClient))
           /\ \E T : Sending(T) /\ toBroker' = toBroker \o T
  <2>1. Elems(toClient') \subseteq Elems(toClient)
    BY <1>1, <1>3, TailElems
  <2>2. PICK T : Sending(T) /\ toBroker' = toBroker \o T
    BY <1>3
  <2>3. T \in Seq(Packet(Pubs))
    BY <2>2 DEF Sending
  <2>4. Elems(toBroker') = Elems(toBroker) \cup Elems(T)
    BY <1>1, <2>2, <2>3, ConcatElems
  <2>5. Ordered(toBroker')
    BY <2>2, SendOrdered
  <2>6. ASSUME NEW k \in Elems(T)
        PROVE  \/ /\ k.type = "PUBLISH"
                  /\ \E m \in msgs_out'.inflight :
                        /\ m.pub = k.pub /\ m.mid = k.mid /\ m.qos = k.qos
                        /\ m.state \notin Late
               \/ /\ k.type = "PUBREL" /\ Past(k.pub)'
                  /\ \E m \in msgs_out'.inflight \cup Wire :
                        m.pub = k.pub /\ m.mid = k.mid /\ m.qos = k.qos
               \/ k.type = "PUBLISH" /\ Fresh(k)
    <3>1. CASE \E l \in Packet(Pubs) : T = <<l>> /\ l.type = "PUBLISH" /\ Fresh(l)
      <4>1. PICK l \in Packet(Pubs) : T = <<l>> /\ l.type = "PUBLISH" /\ Fresh(l)
        BY <3>1
      <4>2. k = l
        BY <4>1, SingleElem
      <4> QED
        BY <4>1, <4>2
    <3>2. CASE ~ \E l \in Packet(Pubs) : T = <<l>> /\ l.type = "PUBLISH" /\ Fresh(l)
      <4>1. \/ /\ k.type = "PUBLISH"
               /\ \E m \in msgs_out'.inflight :
                     /\ m.pub = k.pub /\ m.mid = k.mid /\ m.qos = k.qos
                     /\ m.state \notin Late
            \/ /\ k.type = "PUBREL"
               /\ Numbered => \A m \in msgs_out'.inflight : m.pub = k.pub => m.state \in Late
               /\ \E m \in msgs_out'.inflight \cup Elems(toClient) :
                     m.pub = k.pub /\ m.mid = k.mid /\ m.qos = k.qos
        BY <2>2, <3>2 DEF Sending
      <4> QED
        BY <1>1, <4>1 DEF Past, Wire
    <3> QED
      BY <3>1, <3>2
  <2> QED
    BY <2>1, <2>4, <2>5, <2>6 DEF Wire
<1> QED
  BY <1>2, <1>3 DEF ClientMoves

\* A step of the client keeps the invariant.
LEMMA CoreClient ==
    ASSUME Shape, Remembers, Core, ClientSteps, published' <= MidLimit
    PROVE  Core'
<1>1. /\ ClientMoves /\ CountersOK' /\ UNCHANGED brokerVars
      /\ published' \in {published, published + 1}
      /\ exact \subseteq exact' /\ exact' \subseteq exact \cup {published + 1}
  BY StepMoves
<1>2. published \in Nat /\ published' \in Nat /\ published <= published'
  BY <1>1, SenderAssumption DEF Shape, TypeOK
<1>3. \A p \in Nat : p <= published => (p \in exact' <=> p \in exact)
  BY <1>1, <1>2
<1>4. /\ Ordered(toBroker')
      /\ \A k \in Elems(toBroker') \cup Elems(toClient') :
            \/ k \in Wire /\ (k \in Elems(toBroker') => k \in Elems(toBroker))
            \/ /\ k \in Elems(toBroker') /\ k.type = "PUBLISH"
               /\ \E m \in msgs_out'.inflight :
                     /\ m.pub = k.pub /\ m.mid = k.mid /\ m.qos = k.qos
                     /\ m.state \notin Late
            \/ /\ k \in Elems(toBroker') /\ k.type = "PUBREL" /\ Past(k.pub)'
               /\ \E m \in msgs_out'.inflight \cup Wire :
                     m.pub = k.pub /\ m.mid = k.mid /\ m.qos = k.qos
            \/ k \in Elems(toBroker') /\ k.type = "PUBLISH" /\ Fresh(k)
  BY <1>1, SentWire
<1>5. \A m \in msgs_out.inflight \cup Wire \cup Stored(msgs_in) : m.pub \in Nat
  <2>1. Elems(toBroker) \subseteq Packet(Pubs) /\ Elems(toClient) \subseteq Packet(Pubs)
    BY ElemsType DEF Shape, TypeOK
  <2>2. Stored(msgs_in) \subseteq InMsg(Pubs) /\ msgs_out.inflight \subseteq OutMsg
    BY DEF Shape, TypeOK, Stored
  <2> QED
    BY <2>1, <2>2, SenderAssumption DEF Wire, Packet, InMsg, OutMsg
<1>6. ASSUME NEW k, Fresh(k)
      PROVE  k.mid = k.pub /\ k.pub <= published' /\ (k.qos = 2 <=> k.pub \in exact')
  <2>1. k.pub = published' /\ published' \in Nat \ {0} /\ k.mid = MidOf(published')
    BY <1>2, <1>6 DEF Fresh
  <2> QED
    BY <1>6, <2>1, MidRange DEF Fresh
<1>7. ASSUME NEW m \in msgs_out.inflight \cup Wire
      PROVE  m.mid = m.pub /\ m.pub <= published' /\ (m.qos = 2 <=> m.pub \in exact')
  <2>1. m.mid = m.pub /\ m.pub <= published /\ (m.qos = 2 <=> m.pub \in exact)
    BY DEF Core, Numbers, Levels
  <2> QED
    BY <1>2, <1>3, <1>5, <2>1
<1>8. ASSUME NEW m \in msgs_out'.inflight
      PROVE  m.mid = m.pub /\ m.pub <= published' /\ (m.qos = 2 <=> m.pub \in exact')
  <2>1. CASE Fresh(m)
    BY <1>6, <2>1
  <2>2. CASE \E l \in msgs_out.inflight : Follows(m, l)
    BY <1>7, <2>2 DEF Follows
  <2> QED
    BY <1>1, <2>1, <2>2 DEF ClientMoves
<1>9. ASSUME NEW k \in Wire'
      PROVE  k.mid = k.pub /\ k.pub <= published' /\ (k.qos = 2 <=> k.pub \in exact')
  <2>1. k \in Elems(toBroker') \cup Elems(toClient')
    BY DEF Wire, Elems
  <2>2. \/ Fresh(k)
        \/ \E m \in msgs_out'.inflight \cup Wire :
              m.pub = k.pub /\ m.mid = k.mid /\ m.qos = k.qos
    BY <1>4, <2>1
  <2> QED
    BY <1>6, <1>7, <1>8, <2>2
<1>10. Stored(msgs_in') = Stored(msgs_in) /\ Single(msgs_in')
       /\ routed' = routed
  BY <1>1 DEF brokerVars, Core
<1>11. Numbers'
  <2>1. \A m \in Stored(msgs_in) : m.mid = m.pub /\ m.pub <= published'
    BY <1>2, <1>5 DEF Core, Numbers
  <2> QED
    BY <1>8, <1>9, <1>10, <2>1 DEF Numbers, Stored
<1>12. Levels'
  <2>1. \A m \in Stored(msgs_in) : m.pub \in exact'
    BY <1>1 DEF Core, Levels
  <2> QED
    BY <1>8, <1>9, <1>10, <2>1 DEF Levels, Stored
<1>13. Releases'
  <2> SUFFICES ASSUME NEW k \in Wire', k.type \in {"PUBREL", "PUBCOMP"}
               PROVE  Past(k.pub)'
    BY DEF Releases
  <2>1. k \in Elems(toBroker') \cup Elems(toClient')
    BY DEF Wire, Elems
  <2>2. Past(k.pub)' \/ k \in Wire
    BY <1>4, <2>1
  <2>3. ASSUME k \in Wire PROVE Past(k.pub)'
    <3>1. Past(k.pub) /\ k.pub \in Nat /\ k.pub <= published
      BY <1>5, <2>3 DEF Core, Releases, Numbers
    <3> QED
      BY <1>1, <3>1, PastKept
  <2> QED
    BY <2>2, <2>3
<1>14. Done'
  <2> SUFFICES ASSUME NEW p \in exact', routed[p] > 0
               PROVE  /\ routed[p] = 1 /\ Past(p)' /\ \A m \in Stored(msgs_in) : m.pub # p
                      /\ \A k \in Elems(toBroker') : k.type = "PUBLISH" => k.pub # p
    BY <1>10 DEF Done, Stored, Elems
  <2>1. p \in exact /\ p \in Nat /\ p <= published
    <3>1. p \in Pubs
      BY <1>1, SenderAssumption DEF CountersOK
    <3>2. p \in Nat /\ p <= published
      BY <3>1, SenderAssumption DEF Core, Known
    <3> QED
      BY <1>3, <3>2
  <2>2. /\ routed[p] = 1 /\ Past(p) /\ \A m \in Stored(msgs_in) : m.pub # p
        /\ \A k \in Elems(toBroker) : k.type = "PUBLISH" => k.pub # p
    BY <2>1 DEF Core, Done
  <2>3. Past(p)'
    BY <1>1, <2>1, <2>2, PastKept
  <2>4. ASSUME NEW k \in Elems(toBroker'), k.type = "PUBLISH", k.pub = p
        PROVE  FALSE
    <3>1. ~Fresh(k)
      BY <1>2, <2>1, <2>4 DEF Fresh
    <3>2. k \in Elems(toBroker) \/ \E m \in msgs_out'.inflight : m.pub = k.pub /\ m.state \notin Late
      BY <1>4, <2>4, <3>1
    <3> QED
      BY <2>2, <2>3, <2>4, <3>2 DEF Past
  <2> QED
    BY <2>2, <2>3, <2>4
<1>15. Known'
  BY <1>2, <1>10, SenderAssumption DEF Core, Known
<1> QED
  BY <1>4, <1>10, <1>11, <1>12, <1>13, <1>14, <1>15 DEF Core

\* The broker resumes the session.
LEMMA CoreConnect ==
    ASSUME Shape, Core, BrokerConnect
    PROVE  Core'
<1>1. /\ Within(msgs_in', msgs_in) /\ Single(msgs_in')
      /\ UNCHANGED <<msgs_out, published, exact, routed, toBroker, toClient>>
  BY ConnectHandled DEF Core, channel
<1>2. Wire' = Wire /\ Elems(toBroker)' = Elems(toBroker) /\ Ordered(toBroker)'
  BY <1>1 DEF Wire, Elems, Core, Ordered
<1>3. \A e \in Stored(msgs_in') : \E d \in Stored(msgs_in) : d.pub = e.pub /\ d.mid = e.mid
  BY <1>1 DEF Within
<1>4. \A p : Past(p)' <=> Past(p)
  BY <1>1 DEF Past
<1>5. Numbers' /\ Levels'
  BY <1>1, <1>2, <1>3 DEF Core, Numbers, Levels, Stored
<1>6. Releases' /\ Known'
  BY <1>1, <1>2, <1>4 DEF Core, Releases, Known
<1>7. Done'
  BY <1>1, <1>2, <1>3, <1>4 DEF Core, Done, Stored
<1> QED
  BY <1>1, <1>2, <1>5, <1>6, <1>7 DEF Core

\* What handle__publish and handle__pubrel give to the subscribers.
LEMMA Routes ==
    ASSUME Shape, NEW pkt \in Packet(Pubs),
           NEW M, M = {m \in msgs_in.inflight : m.mid = pkt.mid}
    PROVE  /\ HandlePublish(pkt) => \A p \in Pubs :
                 routed'[p] = routed[p] \/ (pkt.qos # 2 /\ p = pkt.pub)
           /\ HandlePubrel(pkt) => \A p \in Pubs :
                 routed'[p] = IF \E m \in M : m.pub = p THEN routed[p] + 1 ELSE routed[p]
<1>0. routed \in [Pubs -> Nat] /\ DOMAIN routed = Pubs /\ pkt.qos \in 0..2
  BY DEF Shape, TypeOK, Packet
<1>1. ASSUME HandlePublish(pkt), NEW p \in Pubs
      PROVE  routed'[p] = routed[p] \/ (pkt.qos # 2 /\ p = pkt.pub)
  <2>1. routed' = routed \/ (pkt.qos # 2 /\ Route({pkt.pub}))
    <3>1. ASSUME NEW D, RefusePublish(D, pkt) PROVE routed' = routed
      BY <3>1 DEF RefusePublish
    <3>2. ASSUME NEW D, AcceptPublish(D, pkt)
          PROVE  routed' = routed \/ (pkt.qos # 2 /\ Route({pkt.pub}))
      <4>1. CASE pkt.qos = 0
        BY <3>2, <4>1 DEF AcceptPublish
      <4>2. CASE pkt.qos = 1
        BY <3>2, <4>2 DEF AcceptPublish
      <4>3. CASE pkt.qos = 2
        BY <3>2, <4>3 DEF AcceptPublish
      <4> QED
        BY <1>0, <4>1, <4>2, <4>3
    <3> QED
      BY <1>1, <3>1, <3>2 DEF HandlePublish
  <2> QED
    BY <1>0, <2>1 DEF Route
<1>2. ASSUME HandlePubrel(pkt), NEW p \in Pubs
      PROVE  routed'[p] = IF \E m \in M : m.pub = p THEN routed[p] + 1 ELSE routed[p]
  <2>1. Route({m.pub : m \in M})
    BY <1>2 DEF HandlePubrel
  <2> QED
    BY <1>0, <2>1 DEF Route
<1> QED
  BY <1>1, <1>2

\* A packet at the broker keeps the invariant.
LEMMA CoreReceive ==
    ASSUME Shape, Core, BrokerReceive
    PROVE  Core'
<1> DEFINE pkt == Head(toBroker)
           M == {m \in msgs_in.inflight : m.mid = pkt.mid}
<1>1. /\ pkt \in Packet(Pubs) /\ pkt \in Elems(toBroker)
      /\ Handling(pkt) /\ toBroker # <<>> /\ toBroker' = Tail(toBroker)
      /\ UNCHANGED <<msgs_out, published, exact>>
  BY BrokerStep DEF clientVars
<1>2. HandlePublish(pkt) \/ HandlePubrel(pkt)
  BY DEF BrokerReceive, BrokerHandle
<1>3. /\ HandlePublish(pkt) => \A p \in Pubs :
            routed'[p] = routed[p] \/ (pkt.qos # 2 /\ p = pkt.pub)
      /\ HandlePubrel(pkt) => \A p \in Pubs :
            routed'[p] = IF \E m \in M : m.pub = p THEN routed[p] + 1 ELSE routed[p]
  BY <1>1, Routes
<1>4. HandlePubrel(pkt) => /\ pkt.type = "PUBREL"
                           /\ \A e \in Stored(msgs_in') :
                                 \E d \in (msgs_in.inflight \ M) \cup msgs_in.queued :
                                    d.pub = e.pub /\ d.mid = e.mid
  BY <1>1, PubrelHandled DEF HandlePubrel
<1>5. /\ Ordered(toBroker') /\ Elems(toBroker') \subseteq Elems(toBroker)
      /\ \A b \in Elems(toBroker') :
            pkt.type = "PUBREL" /\ b.type = "PUBLISH" => b.pub # pkt.pub
  BY <1>1, TailElems, OrderedTail DEF Shape, TypeOK, Core
<1>6. HandlePublish(pkt) => pkt.type = "PUBLISH"
  BY DEF HandlePublish
<1>7. /\ pkt.mid = pkt.pub /\ pkt.pub <= published /\ (pkt.qos = 2 <=> pkt.pub \in exact)
      /\ pkt.type = "PUBREL" => Past(pkt.pub)
  BY <1>1 DEF Core, Numbers, Levels, Releases, Wire
<1> HIDE DEF pkt
<1>8. PICK A : InHand(msgs_in', A, pkt) /\ toClient' = toClient \o A
  BY <1>1 DEF Handling
<1>9. /\ Stores(msgs_in', pkt) /\ Answers(A, pkt) /\ A \in Seq(Packet(Pubs))
      /\ Named(pkt) /\ Single(msgs_in) => Single(msgs_in')
  BY <1>8 DEF InHand, Answers
<1>10. Single(msgs_in')
  BY <1>7, <1>9 DEF Named, Core, Numbers
<1>11. Elems(toClient') = Elems(toClient) \cup Elems(A)
  BY <1>8, <1>9, ConcatElems DEF Shape, TypeOK
<1>12. \A p : Past(p)' <=> Past(p)
  BY <1>1 DEF Past
<1>13. ASSUME NEW k \in Elems(A)
       PROVE  /\ k.mid = k.pub /\ k.pub <= published /\ (k.qos = 2 <=> k.pub \in exact)
              /\ k.type \in {"PUBREL", "PUBCOMP"} => Past(k.pub)
  <2>1. CASE /\ k.mid = pkt.mid /\ k.pub = pkt.pub /\ k.qos = pkt.qos
             /\ k.type \in {"PUBACK", "PUBREC", "PUBREC_REFUSED", "PUBCOMP"}
             /\ k.type = "PUBCOMP" => pkt.type = "PUBREL"
    BY <1>7, <2>1
  <2>2. CASE /\ k.type = "PUBREC" /\ k.qos = 2
             /\ \E m \in msgs_in.queued : k.mid = m.mid /\ k.pub = m.pub
    BY <2>2 DEF Core, Numbers, Levels, Stored
  <2> QED
    BY <1>9, <2>1, <2>2 DEF Answers
<1>14. ASSUME NEW k \in Wire'
       PROVE  /\ k.mid = k.pub /\ k.pub <= published /\ (k.qos = 2 <=> k.pub \in exact)
              /\ k.type \in {"PUBREL", "PUBCOMP"} => Past(k.pub)
  <2>1. k \in Wire \cup Elems(A)
    <3>1. k \in Elems(toBroker') \cup Elems(toClient')
      BY DEF Wire, Elems
    <3> QED
      BY <1>5, <1>11, <3>1 DEF Wire
  <2> QED
    BY <1>13, <2>1 DEF Core, Numbers, Levels, Releases
<1>15. ASSUME NEW e \in Stored(msgs_in')
       PROVE  e.mid = e.pub /\ e.pub <= published /\ e.pub \in exact
  BY <1>7, <1>9 DEF Core, Numbers, Levels, Stores
<1>16. Numbers' /\ Levels' /\ Releases'
  BY <1>1, <1>12, <1>14, <1>15 DEF Core, Numbers, Levels, Releases, Stored
<1>17. Known'
  <2> SUFFICES ASSUME NEW p \in Pubs, routed'[p] > 0 PROVE p <= published
    BY <1>1 DEF Known
  <2>1. routed[p] > 0 \/ p = pkt.pub \/ \E m \in M : m.pub = p
    BY <1>2, <1>3
  <2> QED
    BY <1>7, <2>1 DEF Core, Known, Numbers, Stored
<1>18. Done'
  <2> SUFFICES ASSUME NEW p \in exact, routed'[p] > 0
               PROVE  /\ routed'[p] = 1 /\ Past(p) /\ \A m \in Stored(msgs_in') : m.pub # p
                      /\ \A k \in Elems(toBroker') : k.type = "PUBLISH" => k.pub # p
    BY <1>1, <1>12 DEF Done, Stored, Elems
  <2>0. p \in Pubs /\ routed[p] \in Nat
    BY SenderAssumption DEF Shape, TypeOK
  <2>1. CASE routed[p] > 0
    <3>1. /\ routed[p] = 1 /\ Past(p) /\ \A m \in Stored(msgs_in) : m.pub # p
          /\ \A k \in Elems(toBroker) : k.type = "PUBLISH" => k.pub # p
      BY <2>1 DEF Core, Done
    <3>2. ~(pkt.type = "PUBLISH" /\ pkt.pub = p)
      BY <1>1, <3>1
    <3>3. routed'[p] = routed[p]
      <4>1. ~ \E m \in M : m.pub = p
        BY <3>1 DEF Stored
      <4>2. HandlePublish(pkt) => ~(pkt.qos # 2 /\ p = pkt.pub)
        BY <1>6, <3>2
      <4> HIDE DEF M
      <4> QED
        BY <1>2, <1>3, <2>0, <4>1, <4>2
    <3>4. \A m \in Stored(msgs_in') : m.pub # p
      BY <1>9, <3>1, <3>2 DEF Stores
    <3> QED
      BY <1>5, <3>1, <3>3, <3>4
  <2>2. CASE routed[p] = 0
    <3>1. HandlePubrel(pkt)
      BY <1>2, <1>3, <1>7, <2>0, <2>2
    <3>2. PICK m \in M : m.pub = p
      BY <1>3, <2>0, <2>2, <3>1
    <3>3. routed'[p] = 1
      BY <1>3, <2>0, <2>2, <3>1, <3>2
    <3>4. p = pkt.pub
      BY <1>7, <3>2 DEF Core, Numbers, Stored
    <3>5. ASSUME NEW e \in Stored(msgs_in'), e.pub = p PROVE FALSE
      <4>1. PICK d \in (msgs_in.inflight \ M) \cup msgs_in.queued : d.pub = p
        BY <1>4, <3>1, <3>5
      <4>2. d.mid = d.pub
        BY <4>1 DEF Core, Numbers, Stored
      <4>3. d \notin msgs_in.inflight \ M
        BY <1>7, <3>4, <4>1, <4>2
      <4> QED
        BY <3>2, <4>1, <4>3 DEF Core, Single
    <3> QED
      BY <1>4, <1>5, <1>7, <3>1, <3>3, <3>4, <3>5
  <2> QED
    BY <2>0, <2>1, <2>2
<1> QED
  BY <1>5, <1>10, <1>16, <1>17, <1>18 DEF Core

LEMMA CoreInit ==
    ASSUME Init
    PROVE  Core
<1>1. /\ msgs_out.inflight = {} /\ routed = [p \in Pubs |-> 0] /\ published = 0
      /\ toClient = <<>> /\ toBroker = <<>> /\ exact = {}
  BY DEF Init, SenderInit, IncomingInit, QueuesInit
<1>2. msgs_in.inflight = {} /\ msgs_in.queued = {}
  BY DEF Init, IncomingInit, NoMessages
<1>3. Wire = {} /\ Elems(toBroker) = {} /\ Len(toBroker) = 0
  BY <1>1, EmptyElems DEF Wire
<1>4. Stored(msgs_in) = {}
  BY <1>2 DEF Stored
<1>5. Single(msgs_in) /\ Ordered(toBroker)
  BY <1>2, <1>3 DEF Single, Ordered
<1> QED
  BY <1>1, <1>3, <1>4, <1>5 DEF Core, Numbers, Levels, Releases, Done, Known

\* A step keeps the invariant as long as the ids do not wrap and the client has
\* not to forget a PUBREC.
LEMMA CoreStep ==
    ASSUME Shape, Remembers, Core, [Next]_vars, published' <= MidLimit
    PROVE  Core'
<1>1. CASE UNCHANGED vars
  BY <1>1 DEF vars, clientVars, brokerVars, channel, Core, Numbers, Levels, Single,
              Releases, Done, Known, Past, Ordered, Wire, Elems, Stored
<1> QED
  BY <1>1, CoreClient, CoreConnect, CoreReceive DEF Next, ClientSteps

\* The counter of mosquitto_publish only grows.
LEMMA PublishedGrows ==
    ASSUME Shape, [Next]_vars
    PROVE  published \in Nat /\ published' \in Nat /\ published <= published'
<1>1. published \in Nat
  BY SenderAssumption DEF Shape, TypeOK
<1>2. CASE ClientSteps
  BY <1>1, <1>2, StepMoves
<1>3. CASE BrokerConnect
  BY <1>1, <1>3, ConnectHandled
<1>4. CASE BrokerReceive
  BY <1>1, <1>4 DEF BrokerReceive, clientVars
<1>5. CASE UNCHANGED vars
  BY <1>1, <1>5 DEF vars, clientVars
<1> QED
  BY <1>2, <1>3, <1>4, <1>5 DEF Next, ClientSteps

\* A list that fits every window is never forgotten.
LEMMA FitsAll ==
    ASSUME Shape, WithinWindow
    PROVE  Remembers
<1> DEFINE L == msgs_out.inflight
<1>1. \A m \in L : m.pub \in Nat \ {0} /\ m.pub <= published
  BY SenderAssumption DEF Shape, Sender, Lists, Listed, OutMsg
<1>2. Listed(L) /\ published \in Nat
  BY SenderAssumption DEF Shape, Sender, Lists, TypeOK
<1>3. ASSUME NEW m \in L PROVE Older(L, m) \in Nat /\ Older(L, m) < published
  <2> DEFINE r == [x \in L |-> x.pub - 1]
             n == m.pub - 1
             T == {x \in L : r[x] < n}
  <2>1. r \in [L -> Nat] /\ (\A x, y \in L : r[x] = r[y] => x = y) /\ n \in Nat
    BY <1>1, <1>2 DEF Listed
  <2>2. T = {x \in L : x.pub < m.pub}
    BY <1>1
  <2>3. T = {x \in L : r[x] < n}
    OBVIOUS
  <2> HIDE DEF r, n, T
  <2>4. IsFiniteSet(T) /\ Cardinality(T) <= n
    BY <2>1, <2>3, FewBelow
  <2>5. Cardinality(T) \in Nat
    BY <2>4, FS_CardinalityType
  <2>6. Older(L, m) = Cardinality(T)
    BY <2>2 DEF Older
  <2> QED
    BY <1>1, <1>2, <2>1, <2>4, <2>5, <2>6 DEF n
<1>4. msgs_out.maximum \in SendWindows /\ msgs_out.maximum \in Nat
      /\ msgs_in.maximum \in Nat
      /\ (Mqtt5 /\ msgs_in.maximum > 0 => msgs_in.maximum \in SendWindows)
  BY IncomingAssumption DEF Shape, TypeOK, SendWindows
<1> QED
  BY <1>2, <1>3, <1>4 DEF Remembers, WithinWindow

\* Exactly once for a publisher whose list has not outgrown its window.
LEMMA OnceWithin == Spec => [](published <= MidLimit /\ WithinWindow => Core)
<1> DEFINE Inv == published <= MidLimit /\ WithinWindow => Core
<1>1. Init => Inv
  BY CoreInit
<1>2. ASSUME Shape, Inv, [Next]_vars
      PROVE  Inv'
  <2> SUFFICES ASSUME published' <= MidLimit, WithinWindow'
               PROVE  Core'
    OBVIOUS
  <2>1. published \in Nat /\ published' \in Nat /\ published <= published'
    BY <1>2, PublishedGrows
  <2>2. SendWindows \subseteq Nat /\ MidLimit \in Nat
    BY SenderAssumption, IncomingAssumption DEF SendWindows
  <2>3. published <= MidLimit /\ WithinWindow
    BY <2>1, <2>2 DEF WithinWindow
  <2> QED
    BY <1>2, <2>3, FitsAll, CoreStep
<1> HIDE DEF Inv
<1>3. Spec => []Inv
  BY <1>1, <1>2, AlwaysShape, PTL DEF Spec
<1> QED
  BY <1>3 DEF Inv
----------------------------------------------------------------------------
(***************************************************************************)
(* Proofs about Ingress: exactly once.                                     *)
(*                                                                         *)
(* When the window of the broker is never below the one of the publisher,  *)
(* the handshakes of a connection are stop-and-wait: the broker stores no  *)
(* message beyond its window, the connection carries one packet of a       *)
(* publication, and what was sent or stored is at the front of the list,   *)
(* where message__reconnect_reset does not forget it.                      *)
(***************************************************************************)

\* The broker stores the publication, has finished with it, or either.
Held(p) == \E s \in msgs_in.inflight : s.pub = p
Settled(p) == routed[p] > 0 \/ p \in refused
Taken(p) == Held(p) \/ Settled(p)

Sent(m) == m.state # "invalid"

\* A publication occurs once in a queue, and in one of two queues.
Unique(s) == \A i, j \in 1..Len(s) : s[i].pub = s[j].pub => i = j

Apart(s, t) ==
    Unique(s) /\ Unique(t) /\ \A k \in Elems(s), l \in Elems(t) : k.pub # l.pub

\* A packet of QoS 1 or 2 belongs to a message of the list that was sent; before
\* the CONNACK it was sent on this connection.
Owned(k) ==
    IF k.qos = 0 THEN \A m \in msgs_out.inflight : m.pub # k.pub
    ELSE \E m \in msgs_out.inflight :
            /\ m.pub = k.pub /\ m.qos = k.qos /\ Sent(m)
            /\ conn \in {"connecting", "accepted"} =>
                  m.state \in {"wait_for_puback", "wait_for_pubrec"}

\* The messages that were sent are at the front of the list, and the quota
\* counts them.
Front(D) ==
    \A m \in D.inflight : Sent(m) => Older(D.inflight, m) < D.maximum - D.quota

\* What the broker has answered or keeps was sent and is in the window.
Lively ==
    \A m \in msgs_out.inflight : m.state \in Late \/ Held(m.pub) =>
        Sent(m) /\ Older(msgs_out.inflight, m) < msgs_out.maximum

\* What the broker keeps is in the list, and was not to be refused.
Backed ==
    \A s \in msgs_in.inflight :
        s.pub \notin Denied /\ \E m \in msgs_out.inflight : m.pub = s.pub

\* An acknowledgement tells the truth.
Truthful(k) ==
    /\ k.type \in {"PUBACK", "PUBREC", "PUBREC_REFUSED", "PUBCOMP"}
    /\ k.qos = IF k.type = "PUBACK" THEN 1 ELSE 2
    /\ k.type = "PUBREC_REFUSED" => k.pub \in Denied
    /\ k.type = "PUBCOMP" => ~Held(k.pub)
    /\ IF k.type = "PUBREC" THEN Taken(k.pub) ELSE Settled(k.pub)

\* A PUBREL is sent for what the broker has taken.
Asked(k) ==
    \/ k.type = "PUBLISH"
    \/ k.type = "PUBREL" /\ k.qos = 2 /\ Taken(k.pub)

\* The broker has room for what it stores, and nothing waits for it.
Roomy ==
    /\ msgs_in.queued = {}
    /\ msgs_in.quota + Cardinality(msgs_in.inflight) >= msgs_in.maximum

\* The application is told of what the broker has finished with.
Outcomes ==
    /\ \A m \in msgs_out.inflight : m.state \in Late => Taken(m.pub)
    /\ \A p \in confirmed :
          Settled(p) /\ p <= published /\ \A m \in msgs_out.inflight : m.pub # p
    /\ \A p \in refused : p <= published

Fit ==
    /\ Roomy /\ Apart(toBroker, toClient) /\ \A k \in Wire : Owned(k)
    /\ conn = "none" => Wire = {}
    /\ conn # "none" => Front(msgs_out)
    /\ Lively /\ Backed /\ Outcomes
    /\ \A k \in Elems(toClient) : Truthful(k)
    /\ \A k \in Elems(toBroker) : Asked(k)

----------------------------------------------------------------------------
(* Queues.                                                                 *)

LEMMA UniqueConcat ==
    ASSUME NEW S, NEW s \in Seq(S), NEW t \in Seq(S), Apart(s, t)
    PROVE  Unique(s \o t)
<1>1. /\ Len(s \o t) = Len(s) + Len(t)
      /\ \A i \in 1 .. Len(s) + Len(t) :
            (s \o t)[i] = IF i <= Len(s) THEN s[i] ELSE t[i - Len(s)]
  BY ConcatProperties
<1>2. Len(s) \in Nat /\ Len(t) \in Nat
  BY LenProperties
<1> DEFINE u == s \o t
<1> HIDE DEF u
<1>3. ASSUME NEW i \in 1..Len(u), i <= Len(s)
      PROVE  i \in 1..Len(s) /\ u[i] = s[i] /\ u[i] \in Elems(s)
  BY <1>1, <1>2, <1>3 DEF u, Elems
<1>4. ASSUME NEW i \in 1..Len(u), ~(i <= Len(s))
      PROVE  i - Len(s) \in 1..Len(t) /\ u[i] = t[i - Len(s)] /\ u[i] \in Elems(t)
  BY <1>1, <1>2, <1>4 DEF u, Elems
<1> SUFFICES ASSUME NEW i \in 1..Len(u), NEW j \in 1..Len(u), u[i].pub = u[j].pub
             PROVE  i = j
  BY DEF Unique, u
<1>5. CASE i <= Len(s) /\ j <= Len(s)
  BY <1>3, <1>5 DEF Apart, Unique
<1>6. CASE ~(i <= Len(s)) /\ ~(j <= Len(s))
  <2>1. i - Len(s) = j - Len(s)
    BY <1>4, <1>6 DEF Apart, Unique
  <2> QED
    BY <1>2, <2>1
<1>7. CASE i <= Len(s) /\ ~(j <= Len(s))
  BY <1>3, <1>4, <1>7 DEF Apart
<1>8. CASE ~(i <= Len(s)) /\ j <= Len(s)
  BY <1>3, <1>4, <1>8 DEF Apart
<1> QED
  BY <1>5, <1>6, <1>7, <1>8

LEMMA UniqueTail ==
    ASSUME NEW S, NEW s \in Seq(S), s # <<>>, Unique(s)
    PROVE  Unique(Tail(s)) /\ \A k \in Elems(Tail(s)) : k.pub # Head(s).pub
<1>1. /\ Len(Tail(s)) = Len(s) - 1
      /\ \A i \in 1 .. Len(Tail(s)) : Tail(s)[i] = s[i+1]
  BY HeadTailProperties
<1>2. Len(s) \in Nat \ {0} /\ Head(s) = s[1]
  BY EmptySeq
<1> DEFINE u == Tail(s)
<1> HIDE DEF u
<1>3. \A i \in 1..Len(u) : i + 1 \in 1..Len(s) /\ u[i] = s[i + 1]
  BY <1>1, <1>2 DEF u
<1>4. Unique(u)
  <2> SUFFICES ASSUME NEW i \in 1..Len(u), NEW j \in 1..Len(u), u[i].pub = u[j].pub
               PROVE  i = j
    BY DEF Unique
  <2>1. i + 1 = j + 1
    BY <1>3 DEF Unique
  <2> QED
    BY <2>1
<1>5. ASSUME NEW k \in Elems(u) PROVE k.pub # Head(s).pub
  <2>1. PICK i \in 1..Len(u) : k = u[i]
    BY DEF Elems
  <2>2. 1 \in 1..Len(s) /\ i + 1 \in 1..Len(s) /\ i + 1 # 1
    BY <1>2, <1>3
  <2> QED
    BY <1>2, <1>3, <2>1, <2>2 DEF Unique
<1> QED
  BY <1>4, <1>5 DEF u

LEMMA UniqueSmall ==
    /\ Unique(<<>>)
    /\ \A e : Unique(<<e>>)
<1>1. Len(<<>>) = 0
  OBVIOUS
<1>2. \A e : Len(<<e>>) = 1
  OBVIOUS
<1> QED
  BY <1>1, <1>2 DEF Unique

\* What the client sends is of no publication on the way.
LEMMA ApartSend ==
    ASSUME NEW S, NEW s \in Seq(S), NEW t \in Seq(S), NEW T \in Seq(S), NEW t2 \in Seq(S),
           Apart(s, t), Unique(T), Unique(t2), Elems(t2) \subseteq Elems(t),
           \A k \in Elems(T), l \in Elems(s) \cup Elems(t2) : k.pub # l.pub
    PROVE  Apart(s \o T, t2)
<1>1. Elems(s \o T) = Elems(s) \cup Elems(T)
  BY ConcatElems
<1>2. Apart(s, T)
  BY DEF Apart
<1>3. Unique(s \o T)
  BY <1>2, UniqueConcat
<1> QED
  BY <1>1, <1>3 DEF Apart

\* What the broker answers is of the packet it has read.
LEMMA ApartAnswer ==
    ASSUME NEW S, NEW s \in Seq(S), NEW t \in Seq(S), NEW A \in Seq(S), s # <<>>,
           Apart(s, t), Unique(A), \A k \in Elems(A) : k.pub = Head(s).pub
    PROVE  Apart(Tail(s), t \o A)
<1>1. /\ Head(s) \in Elems(s) /\ Tail(s) \in Seq(S) /\ Elems(Tail(s)) \subseteq Elems(s)
      /\ Unique(Tail(s)) /\ \A k \in Elems(Tail(s)) : k.pub # Head(s).pub
  BY TailElems, UniqueTail DEF Apart
<1>2. Elems(t \o A) = Elems(t) \cup Elems(A)
  BY ConcatElems
<1>3. Apart(t, A)
  BY <1>1 DEF Apart
<1>4. Unique(t \o A)
  BY <1>3, UniqueConcat
<1> QED
  BY <1>1, <1>2, <1>4 DEF Apart

\* The packets of a list are of different publications.
LEMMA UniqueList ==
    ASSUME NEW L, Listed(L)
    PROVE  Unique(PacketsFor(L, PublishPacket)) /\ Unique(PacketsFor(L, RetryPacket))
<1> DEFINE o == InListOrder(L)
           c == Cardinality(L)
           s == [i \in 1..c |-> PublishPacket(o[i])]
           t == [i \in 1..c |-> RetryPacket(o[i])]
<1>1. s = PacketsFor(L, PublishPacket) /\ t = PacketsFor(L, RetryPacket)
  BY DEF PacketsFor
<1>2. c \in Nat
  BY FS_CardinalityType DEF Listed
<1>3. /\ \A i \in 1..c : o[i] \in L
      /\ \A i, j \in 1..c : o[i] = o[j] => i = j
  BY ListOrder
<1> HIDE DEF o, c
<1>4. \A i \in 1..c : s[i].pub = o[i].pub /\ t[i].pub = o[i].pub
  BY DEF PublishPacket, RetryPacket, PubrelPacket
<1>5. \A i, j \in 1..c : o[i].pub = o[j].pub => i = j
  BY <1>3 DEF Listed
<1>6. Len(s) = c /\ Len(t) = c
  BY <1>2
<1> HIDE DEF s, t
<1> QED
  BY <1>1, <1>4, <1>5, <1>6 DEF Unique

----------------------------------------------------------------------------
(* The front of the list.                                                  *)

\* message__release_to_inflight: what is sent follows what was sent before.
LEMMA FrontReleased ==
    ASSUME NEW E, Sender(E), Front(E)
    PROVE  Front(Released(E))
<1> DEFINE L == E.inflight
           R == Unsent(E, E.quota)
           M == Released(E).inflight
           c == Cardinality(R)
           b == E.maximum - E.quota
<1>1. Listed(L) /\ E.quota \in Nat /\ E.maximum \in Nat /\ b \in Nat
  BY DEF Sender, Lists
<1>2. R = Unsent(E, E.quota)
  OBVIOUS
<1>3. /\ R \in SUBSET L /\ Listed(R) /\ c \in Nat
      /\ \A m \in R : m.state = "invalid"
      /\ \A m \in R, x \in L : x.state = "invalid" /\ x.pub < m.pub => x \in R
  BY <1>1, UnsentFirst
<1> HIDE DEF R, b
<1>4. /\ Released(E).quota = E.quota - c /\ Released(E).maximum = E.maximum
      /\ Launches(L, M, R)
  BY <1>2, ReleasedKept
<1> HIDE DEF M, c, L
<1>5. PICK g : /\ Rewrites(L, M, g)
               /\ \A m \in L : m \notin R => g[m] = m
  BY <1>4 DEF Launches
<1>6. \A m \in L : g[m] \in M /\ Older(M, g[m]) = Older(L, m)
  BY <1>1, <1>5, RewriteKept
<1>7. /\ \A m \in L : Older(L, m) \in Nat
      /\ \A n \in Nat : Cardinality({m \in L : Older(L, m) < n}) <= n
  BY <1>1, ListOrder
<1>8. \A m \in L : Sent(m) => Older(L, m) < b
  BY DEF Front, L, b
<1>9. ASSUME NEW x \in R PROVE Older(L, x) < b + c
  <2> DEFINE A == {z \in L : z.pub < x.pub}
             B == {z \in L : Older(L, z) < b}
             C == R \ {x}
  <2>1. A \subseteq B \cup C
    <3> SUFFICES ASSUME NEW z \in A PROVE z \in B \cup C
      OBVIOUS
    <3>0. z \in L /\ z.pub < x.pub /\ x.pub \in Nat
      BY <1>1, <1>3, SenderAssumption DEF Listed, OutMsg
    <3>1. CASE Sent(z)
      BY <1>8, <3>0, <3>1
    <3>2. CASE ~Sent(z)
      <4>1. z \in R
        BY <1>3, <3>0, <3>2 DEF Sent
      <4>2. z # x
        BY <3>0
      <4> QED
        BY <4>1, <4>2
    <3> QED
      BY <3>1, <3>2
  <2>2. Older(L, x) = Cardinality(A)
    BY DEF Older
  <2>3. Cardinality(B) <= b
    BY <1>1, <1>7
  <2>4. IsFiniteSet(L) /\ IsFiniteSet(R) /\ B \in SUBSET L
    BY <1>1, <1>3 DEF Listed
  <2>5. IsFiniteSet(B) /\ Cardinality(B) \in Nat
    BY <2>4, FS_Subset, FS_CardinalityType
  <2>6. IsFiniteSet(C) /\ Cardinality(C) = c - 1
    BY <2>4, FS_RemoveElement DEF c
  <2> HIDE DEF A, B, C
  <2>7. Cardinality(C) \in Nat /\ Cardinality(B \cap C) \in Nat
    BY <2>5, <2>6, FS_Intersection, FS_CardinalityType
  <2>8. IsFiniteSet(B \cup C)
        /\ Cardinality(B \cup C) = Cardinality(B) + Cardinality(C) - Cardinality(B \cap C)
    BY <2>5, <2>6, FS_Union
  <2>9. Cardinality(A) <= Cardinality(B \cup C) /\ Cardinality(A) \in Nat
    BY <2>1, <2>8, FS_Subset, FS_CardinalityType
  <2> QED
    BY <1>1, <1>3, <2>2, <2>3, <2>5, <2>6, <2>7, <2>8, <2>9
<1> SUFFICES ASSUME NEW y \in M, Sent(y)
             PROVE  Older(M, y) < E.maximum - (E.quota - c)
  BY <1>4 DEF Front, M
<1>10. PICK x \in L : y = g[x]
  BY <1>5 DEF Rewrites
<1>11. Older(L, x) < b + c /\ Older(L, x) \in Nat
  <2>1. CASE x \in R
    BY <1>7, <1>9, <2>1
  <2>2. CASE x \notin R
    <3>1. Sent(x)
      BY <1>5, <1>10, <2>2
    <3> QED
      BY <1>1, <1>3, <1>7, <1>8, <3>1
  <2> QED
    BY <2>1, <2>2
<1> QED
  BY <1>1, <1>3, <1>6, <1>10, <1>11 DEF b

\* message__reconnect_reset: the quota is what the window leaves.
LEMMA FrontReset ==
    ASSUME NEW D, Lists(D), NEW u \in BOOLEAN
    PROVE  Front(ReconnectReset(D, u))
<1> DEFINE L == D.inflight
           W == {m \in L : Older(L, m) < D.maximum}
           M == ReconnectReset(D, u).inflight
<1>1. Listed(L) /\ D.maximum \in Nat /\ W \in SUBSET L
  BY DEF Lists
<1>2. W = {m \in L : Older(L, m) < D.maximum}
  OBVIOUS
<1> HIDE DEF W
<1>3. /\ ReconnectReset(D, u).maximum = D.maximum
      /\ ReconnectReset(D, u).quota = D.maximum - Cardinality(W)
      /\ Resets(L, M, W, u)
  BY <1>2, ResetKept
<1> HIDE DEF L, M
<1>4. PICK g : /\ Rewrites(L, M, g)
               /\ \A m \in L : m \notin W => g[m].state = "invalid"
  BY <1>3 DEF Resets
<1>5. \A m \in L : g[m] \in M /\ Older(M, g[m]) = Older(L, m)
  BY <1>1, <1>4, RewriteKept
<1>6. IsFiniteSet(W) /\ Cardinality(W) \in Nat
  BY <1>1, FS_Subset, FS_CardinalityType DEF Listed
<1> SUFFICES ASSUME NEW y \in M, Sent(y)
             PROVE  Older(M, y) < D.maximum - (D.maximum - Cardinality(W))
  BY <1>3 DEF Front, M
<1>7. PICK x \in W : y = g[x]
  BY <1>1, <1>4 DEF Rewrites, Sent
<1>8. /\ \A m \in L : Older(L, m) \in Nat
      /\ \A m, n \in L : m.pub < n.pub => Older(L, m) < Older(L, n)
  BY <1>1, ListOrder
<1>9. \A m \in L : m.pub \in Nat
  BY <1>1, SenderAssumption DEF Listed, OutMsg
<1> DEFINE A == {z \in L : z.pub < x.pub}
           C == W \ {x}
<1>10. A \subseteq C
  <2> SUFFICES ASSUME NEW z \in A PROVE z \in C
    OBVIOUS
  <2>1. z \in L /\ z.pub < x.pub /\ x \in L /\ Older(L, x) < D.maximum
    BY <1>1, <1>2
  <2>2. Older(L, z) < D.maximum /\ z # x
    BY <1>1, <1>8, <1>9, <2>1
  <2> QED
    BY <1>2, <2>1, <2>2
<1>11. IsFiniteSet(C) /\ Cardinality(C) = Cardinality(W) - 1
  BY <1>6, FS_RemoveElement
<1>12. Older(L, x) = Cardinality(A)
  BY DEF Older
<1> HIDE DEF A, C
<1>13. Cardinality(A) <= Cardinality(W) - 1 /\ Cardinality(A) \in Nat
  BY <1>10, <1>11, FS_Subset, FS_CardinalityType
<1> QED
  BY <1>1, <1>5, <1>6, <1>7, <1>12, <1>13

\* handle__pubackcomp: a message that was sent is deleted, and the quota raised.
LEMMA FrontCompleted ==
    ASSUME NEW D, Sender(D), Front(D), NEW r \in D.inflight, Sent(r), NEW E,
           E.inflight = D.inflight \ {r}, E.quota = RaiseSend(D), E.maximum = D.maximum
    PROVE  Front(E)
<1> DEFINE L == D.inflight
           K == L \ {r}
           b == D.maximum - D.quota
<1>1. Listed(L) /\ D.quota \in Nat /\ D.maximum \in Nat
  BY DEF Sender, Lists
<1>2. E.quota \in Nat /\ E.quota <= D.quota + 1
  BY <1>1 DEF RaiseSend
<1>3. /\ \A m \in L : Older(L, m) \in Nat
      /\ \A m, n \in L : m.pub < n.pub => Older(L, m) < Older(L, n)
  BY <1>1, ListOrder
<1>4. \A m \in L : m.pub \in Nat
  BY <1>1, SenderAssumption DEF Listed, OutMsg
<1> SUFFICES ASSUME NEW x \in K, Sent(x)
             PROVE  Older(K, x) < E.maximum - E.quota
  BY DEF Front
<1>5. x \in L /\ x # r /\ Older(L, x) < b /\ Older(L, r) < b
  BY DEF Front
<1>6. x.pub # r.pub
  BY <1>1, <1>5 DEF Listed
<1> DEFINE A == {z \in L : z.pub < x.pub}
           B == {z \in K : z.pub < x.pub}
<1>7. Older(L, x) = Cardinality(A) /\ Older(K, x) = Cardinality(B)
  BY DEF Older
<1>8. IsFiniteSet(A)
  <2>1. A \in SUBSET L
    OBVIOUS
  <2> QED
    BY <1>1, <2>1, FS_Subset DEF Listed
<1>9. CASE r.pub < x.pub
  <2>1. B = A \ {r} /\ r \in A
    BY <1>9
  <2> HIDE DEF A, B
  <2>2. Cardinality(B) = Cardinality(A) - 1
    BY <1>8, <2>1, FS_RemoveElement
  <2> QED
    BY <1>1, <1>2, <1>3, <1>5, <1>7, <2>2
<1>10. CASE x.pub < r.pub
  <2>1. B = A
    BY <1>4, <1>5, <1>10
  <2>2. Older(L, x) < Older(L, r)
    BY <1>3, <1>5, <1>10
  <2>3. Older(K, x) = Older(L, x) /\ Older(L, x) \in Nat /\ Older(L, r) \in Nat
    BY <1>3, <1>5, <1>7, <2>1
  <2> HIDE DEF A, B, K, L
  <2> QED
    BY <1>1, <1>2, <1>5, <2>2, <2>3
<1> QED
  BY <1>4, <1>5, <1>6, <1>9, <1>10

\* A message that is appended was not sent.
LEMMA FrontAdded ==
    ASSUME NEW D, Sender(D), Front(D), NEW e \in OutMsg, e.state = "invalid",
           \A m \in D.inflight : m.pub < e.pub, NEW E,
           E.inflight = D.inflight \cup {e}, E.quota = D.quota, E.maximum = D.maximum
    PROVE  Front(E)
<1>1. \A m \in D.inflight : Older(E.inflight, m) = Older(D.inflight, m)
  BY AddKept DEF Sender, Lists
<1> QED
  BY <1>1 DEF Front, Sent

----------------------------------------------------------------------------
(* Windows.                                                                *)

\* The window of the publisher is within the one of the broker, and a CONNACK
\* does not make it smaller.
LEMMA Windows ==
    ASSUME Shape, WindowsFit
    PROVE  /\ msgs_out.maximum \in Nat /\ msgs_in.maximum \in Nat
           /\ msgs_in.maximum > 0 => msgs_out.maximum <= msgs_in.maximum
<1>1. msgs_out.maximum \in Nat /\ msgs_in.maximum \in Nat
      /\ msgs_out.maximum \in SendWindows /\ msgs_in.maximum \in Maxima
  BY DEF Shape, TypeOK
<1> QED
  BY <1>1 DEF WindowsFit

LEMMA FitRemembers ==
    ASSUME Shape, WindowsFit, Fit
    PROVE  Remembers
<1>1. /\ msgs_out.maximum \in Nat /\ msgs_in.maximum \in Nat
      /\ msgs_in.maximum > 0 => msgs_out.maximum <= msgs_in.maximum
  BY Windows
<1>2. \A m \in msgs_out.inflight : Older(msgs_out.inflight, m) \in Nat
  BY ListOrder DEF Shape, Sender, Lists
<1>3. \A m \in msgs_out.inflight :
         m.state \in Late => Older(msgs_out.inflight, m) < msgs_out.maximum
  BY DEF Fit, Lively
<1> QED
  BY <1>1, <1>2, <1>3 DEF Remembers

\* There is room for a PUBLISH of a message that is not stored yet: what is
\* stored are other messages in the window of the publisher.
LEMMA Room ==
    ASSUME Shape, WindowsFit, Core, Fit, conn # "none",
           NEW pkt \in Elems(toBroker), pkt.qos > 0, ~Held(pkt.pub)
    PROVE  FlightReady(msgs_in)
<1> DEFINE L == msgs_out.inflight
           I == msgs_in.inflight
           J == {m \in L : Older(L, m) < msgs_out.maximum}
<1>1. /\ msgs_out.maximum \in Nat /\ msgs_in.maximum \in Nat
      /\ msgs_in.maximum > 0 => msgs_out.maximum <= msgs_in.maximum
  BY Windows
<1>2. Listed(L) /\ msgs_out.quota \in Nat /\ msgs_in.quota \in Nat /\ IsFiniteSet(I)
  BY DEF Shape, Sender, Lists, Receiver
<1>3. /\ \A m \in L : Older(L, m) \in Nat
      /\ Cardinality(J) <= msgs_out.maximum
  BY <1>1, <1>2, ListOrder
<1>4. PICK o \in L : o.pub = pkt.pub /\ Sent(o)
  BY DEF Fit, Owned, Wire
<1>5. o \in J
  <2>1. Older(L, o) < msgs_out.maximum - msgs_out.quota
    BY <1>4 DEF Fit, Front
  <2> QED
    BY <1>1, <1>2, <1>3, <2>1
<1> DEFINE h == [s \in I |-> CHOOSE m \in L : m.pub = s.pub]
<1>6. \A s \in I : h[s] \in L /\ h[s].pub = s.pub
  BY DEF Fit, Backed
<1> HIDE DEF h
<1>7. \A s \in I : h[s] \in J /\ h[s] # o
  <2> TAKE s \in I
  <2>1. Held(h[s].pub)
    BY <1>6 DEF Held
  <2>2. Older(L, h[s]) < msgs_out.maximum
    BY <1>6, <2>1 DEF Fit, Lively
  <2>3. h[s] # o
    BY <1>4, <1>6 DEF Held
  <2> QED
    BY <1>6, <2>2, <2>3
<1>8. IsFiniteSet(J) /\ Cardinality(J) \in Nat
  <2>1. J \in SUBSET L
    OBVIOUS
  <2> QED
    BY <1>2, <2>1, FS_Subset, FS_CardinalityType DEF Listed
<1> HIDE DEF J
<1> DEFINE C == J \ {o}
<1>9. IsFiniteSet(C) /\ Cardinality(C) = Cardinality(J) - 1
  BY <1>5, <1>8, FS_RemoveElement
<1>10. h \in Injection(I, C)
  <2>1. \A s, t \in I : h[s] = h[t] => s = t
    BY <1>6 DEF Core, Single
  <2>2. h \in [I -> C]
    BY <1>7 DEF h
  <2> QED
    BY <2>1, <2>2 DEF Injection, IsInjective
<1> HIDE DEF C
<1>11. Cardinality(I) <= Cardinality(C) /\ Cardinality(I) \in Nat
  BY <1>2, <1>9, <1>10, FS_Injection, FS_CardinalityType
<1>12. msgs_in.quota + Cardinality(I) >= msgs_in.maximum
  BY DEF Fit, Roomy
<1> QED
  BY <1>1, <1>2, <1>3, <1>8, <1>9, <1>11, <1>12 DEF FlightReady

----------------------------------------------------------------------------
(* The broker.                                                             *)

\* An answer to pkt, or none.
Reaction(A, pkt) ==
    \/ A = <<>>
    \/ \E k \in Packet(Pubs) : /\ A = <<k>> /\ k.pub = pkt.pub /\ k.qos = pkt.qos
                               /\ pkt.qos > 0 /\ Truthful(k)'

\* The broker forgets nothing it has taken or finished with.
Lasts ==
    /\ \A p \in Pubs : (Taken(p) => Taken(p)') /\ (Settled(p) => Settled(p)')

\* What handling pkt does when the windows fit.
Serves(pkt) ==
    /\ Roomy' /\ Lasts /\ \E A : Reaction(A, pkt) /\ toClient' = toClient \o A
    /\ \A s \in msgs_in'.inflight :
          \/ Held(s.pub)
          \/ s.pub = pkt.pub /\ pkt.qos = 2 /\ pkt.pub \notin Denied
    /\ \A p \in refused' : p \in refused \/ p = pkt.pub

LEMMA ReactionType ==
    ASSUME NEW pkt, NEW A, Reaction(A, pkt)
    PROVE  /\ A \in Seq(Packet(Pubs)) /\ Unique(A)
           /\ \A k \in Elems(A) : /\ k.pub = pkt.pub /\ k.qos = pkt.qos /\ pkt.qos > 0
                                  /\ Truthful(k)'
<1>1. CASE A = <<>>
  BY <1>1, EmptyElems, UniqueSmall
<1>2. CASE A # <<>>
  <2>1. PICK k \in Packet(Pubs) : /\ A = <<k>> /\ k.pub = pkt.pub /\ k.qos = pkt.qos
                                  /\ pkt.qos > 0 /\ Truthful(k)'
    BY <1>2 DEF Reaction
  <2>2. A \in Seq(Packet(Pubs)) /\ Elems(A) = {k}
    BY <2>1, SingleElem
  <2>3. Unique(A)
    BY <2>1, UniqueSmall
  <2> QED
    BY <2>1, <2>2, <2>3
<1> QED
  BY <1>1, <1>2

\* A packet that is served keeps the invariant.
LEMMA FitServed ==
    ASSUME Shape, Core, Fit, BrokerReceive, NEW pkt, pkt = Head(toBroker), Serves(pkt)
    PROVE  Fit'
<1>0. /\ pkt \in Packet(Pubs) /\ pkt \in Elems(toBroker) /\ pkt.pub \in Pubs
      /\ toBroker # <<>> /\ toBroker' = Tail(toBroker) /\ UNCHANGED clientVars
  BY BrokerStep DEF Packet
<1>1. UNCHANGED <<conn, msgs_out, published, confirmed>> /\ conn # "none" /\ conn' # "none"
  BY <1>0 DEF clientVars, BrokerReceive
<1>2. toBroker \in Seq(Packet(Pubs)) /\ toClient \in Seq(Packet(Pubs))
  BY DEF Shape, TypeOK
<1>3. PICK A : Reaction(A, pkt) /\ toClient' = toClient \o A
  BY DEF Serves
<1>4. /\ A \in Seq(Packet(Pubs)) /\ Unique(A)
      /\ \A k \in Elems(A) : /\ k.pub = pkt.pub /\ k.qos = pkt.qos /\ pkt.qos > 0
                             /\ Truthful(k)'
  BY <1>3, ReactionType
<1>5. /\ Elems(toClient') = Elems(toClient) \cup Elems(A)
      /\ Elems(toBroker') \subseteq Elems(toBroker)
  BY <1>0, <1>2, <1>3, <1>4, ConcatElems, TailElems
<1>6. Apart(toBroker', toClient')
  BY <1>0, <1>2, <1>3, <1>4, ApartAnswer DEF Fit
<1>7. Owned(pkt)
  BY <1>0 DEF Fit, Wire
<1>8. \A k : Owned(k)' <=> Owned(k)
  BY <1>1 DEF Owned
<1>9. ASSUME NEW k \in Wire' PROVE Owned(k)'
  <2>1. k \in Wire \/ k \in Elems(A)
    <3>1. k \in Elems(toBroker') \cup Elems(toClient')
      BY DEF Wire, Elems
    <3> QED
      BY <1>5, <3>1 DEF Wire
  <2>2. CASE k \in Wire
    BY <1>8, <2>2 DEF Fit
  <2>3. CASE k \in Elems(A)
    <3>1. k.pub = pkt.pub /\ k.qos = pkt.qos
      BY <1>4, <2>3
    <3> QED
      BY <1>7, <1>8, <3>1 DEF Owned
  <2> QED
    BY <2>1, <2>2, <2>3
<1>10. Front(msgs_out) /\ Front(msgs_out')
  BY <1>1 DEF Fit, Front
<1>11. \A p : Held(p)' => Held(p) \/ (p = pkt.pub /\ pkt.qos = 2 /\ pkt.pub \notin Denied)
  BY DEF Serves, Held
<1>12. pkt.qos = 2 => \E o \in msgs_out.inflight :
          o.pub = pkt.pub /\ Sent(o) /\ Older(msgs_out.inflight, o) < msgs_out.maximum
  <2> SUFFICES ASSUME pkt.qos = 2
               PROVE  \E o \in msgs_out.inflight :
                         /\ o.pub = pkt.pub /\ Sent(o)
                         /\ Older(msgs_out.inflight, o) < msgs_out.maximum
    OBVIOUS
  <2>1. PICK o \in msgs_out.inflight : o.pub = pkt.pub /\ Sent(o)
    BY <1>7 DEF Owned
  <2>2. Older(msgs_out.inflight, o) < msgs_out.maximum - msgs_out.quota
    BY <1>10, <2>1 DEF Front
  <2>3. Older(msgs_out.inflight, o) \in Nat /\ msgs_out.maximum \in Nat /\ msgs_out.quota \in Nat
    BY ListOrder DEF Shape, Sender, Lists
  <2> QED
    BY <2>1, <2>2, <2>3
<1>13. \A m, n \in msgs_out.inflight : m.pub = n.pub => m = n
  BY DEF Shape, Sender, Lists, Listed
<1>14. Lively'
  <2> SUFFICES ASSUME NEW m \in msgs_out.inflight, m.state \in Late \/ Held(m.pub)'
               PROVE  Sent(m) /\ Older(msgs_out.inflight, m) < msgs_out.maximum
    BY <1>1 DEF Lively, Sent
  <2>1. CASE m.state \in Late \/ Held(m.pub)
    BY <2>1 DEF Fit, Lively
  <2>2. CASE m.pub = pkt.pub /\ pkt.qos = 2
    BY <1>12, <1>13, <2>2
  <2> QED
    BY <1>11, <2>1, <2>2
<1>15. Backed'
  <2> SUFFICES ASSUME NEW s \in msgs_in'.inflight
               PROVE  s.pub \notin Denied /\ \E m \in msgs_out.inflight : m.pub = s.pub
    BY <1>1 DEF Backed
  <2>1. CASE Held(s.pub)
    BY <2>1 DEF Held, Fit, Backed
  <2>2. CASE s.pub = pkt.pub /\ pkt.qos = 2 /\ pkt.pub \notin Denied
    BY <1>12, <2>2
  <2> QED
    BY <2>1, <2>2 DEF Serves
<1>16. Outcomes'
  <2>1. \A m \in msgs_out.inflight : m.pub \in Pubs
    BY DEF Shape, TypeOK, OutMsg
  <2>2. confirmed \subseteq Pubs
    BY DEF Shape, TypeOK
  <2>3. pkt.pub <= published
    BY <1>0 DEF Core, Numbers, Wire
  <2>4. \A m \in msgs_out'.inflight : m.state \in Late => Taken(m.pub)'
    BY <1>1, <2>1 DEF Serves, Lasts, Fit, Outcomes
  <2>5. \A p \in confirmed' :
           Settled(p)' /\ p <= published' /\ \A m \in msgs_out'.inflight : m.pub # p
    BY <1>1, <2>2 DEF Serves, Lasts, Fit, Outcomes
  <2>6. \A p \in refused' : p <= published'
    BY <1>1, <2>3 DEF Serves, Fit, Outcomes
  <2> QED
    BY <2>4, <2>5, <2>6 DEF Outcomes
<1>17. \A k \in Elems(toClient) \cup Elems(toBroker) : k.pub \in Pubs
  BY <1>2, ElemsType DEF Packet
<1>18. ASSUME NEW k \in Elems(toClient') PROVE Truthful(k)'
  <2>1. CASE k \in Elems(A)
    BY <1>4, <2>1
  <2>2. CASE k \in Elems(toClient)
    <3>1. Truthful(k) /\ k.pub # pkt.pub /\ k.pub \in Pubs
      BY <1>0, <1>17, <2>2 DEF Fit, Apart
    <3>2. ~Held(k.pub) => ~Held(k.pub)'
      BY <1>11, <3>1
    <3>3. (Taken(k.pub) => Taken(k.pub)') /\ (Settled(k.pub) => Settled(k.pub)')
      BY <3>1 DEF Serves, Lasts
    <3> QED
      BY <3>1, <3>2, <3>3 DEF Truthful
  <2> QED
    BY <1>5, <2>1, <2>2
<1>19. ASSUME NEW k \in Elems(toBroker') PROVE Asked(k)'
  <2>1. Asked(k) /\ k.pub \in Pubs
    BY <1>5, <1>17 DEF Fit
  <2> QED
    BY <2>1 DEF Asked, Serves, Lasts
<1>20. Elems(toClient)' = Elems(toClient') /\ Elems(toBroker)' = Elems(toBroker')
       /\ Roomy'
  BY DEF Elems, Serves
<1>21. Apart(toBroker, toClient)' /\ Front(msgs_out)'
  BY <1>6, <1>10 DEF Apart, Unique, Elems, Front, Sent, Older
<1> QED
  BY <1>1, <1>9, <1>14, <1>15, <1>16, <1>18, <1>19, <1>20, <1>21 DEF Fit

\* The session keeps its messages, and the quota is not lowered.
LEMMA QuotaServes ==
    ASSUME Shape, Fit, NEW pkt, NEW A, Reaction(A, pkt), toClient' = toClient \o A,
           msgs_in'.inflight = msgs_in.inflight, msgs_in'.queued = {},
           msgs_in'.maximum = msgs_in.maximum, msgs_in'.quota \in Nat,
           msgs_in'.quota >= msgs_in.quota,
           \A p \in Pubs : Settled(p) => Settled(p)',
           \A p \in refused' : p \in refused \/ p = pkt.pub
    PROVE  Serves(pkt)
<1>1. IsFiniteSet(msgs_in.inflight) /\ msgs_in.quota \in Nat /\ msgs_in.maximum \in Nat
  BY DEF Shape, Receiver
<1>2. Cardinality(msgs_in.inflight) \in Nat
  BY <1>1, FS_CardinalityType
<1>3. msgs_in.quota + Cardinality(msgs_in.inflight) >= msgs_in.maximum
  BY DEF Fit, Roomy
<1>4. Roomy'
  BY <1>1, <1>2, <1>3 DEF Roomy
<1>5. \A p : Held(p)' <=> Held(p)
  BY DEF Held
<1>6. Lasts
  BY <1>5 DEF Lasts, Taken
<1>7. \A s \in msgs_in'.inflight : Held(s.pub)
  BY DEF Held
<1> QED
  BY <1>4, <1>6, <1>7 DEF Serves

\* handle__publish stores the message, with a PUBREC.
LEMMA InsertFlight ==
    ASSUME NEW D, Receiver(D), D.queued = {}, NEW pkt \in Packet(Pubs), FlightReady(D)
    PROVE  \E E, m : /\ InsertIncoming(D, pkt) =
                           [data |-> E, answers |-> <<Answer(pkt, "PUBREC")>>]
                     /\ m.pub = pkt.pub /\ E.inflight = D.inflight \cup {m}
                     /\ E.queued = {} /\ E.quota = D.quota /\ E.maximum = D.maximum
<1> DEFINE m == [pub |-> pkt.pub, mid |-> pkt.mid, pos |-> D.appended + 1]
           F == [D EXCEPT !.count12 = @ + 1, !.appended = @ + 1]
           E == [F EXCEPT !.inflight = @ \cup {m}]
           a == <<Answer(pkt, "PUBREC")>>
<1>1. m \in InMsg(Pubs) /\ m.pub = pkt.pub
  BY DEF InMsg, Receiver, Packet
<1>2. PICK n : InsertIncoming(D, pkt) = AcceptQueued(E, n, a)
  BY DEF InsertIncoming, WriteQueuedIn
<1> HIDE DEF m
<1>3. IsFiniteSet(D.inflight \cup {m})
  BY FS_AddElement DEF Receiver
<1>4. /\ F \in [inflight : SUBSET InMsg(Pubs), queued : SUBSET InMsg(Pubs),
                quota : Nat, maximum : Nat, count12 : Int, appended : Nat]
      /\ F.inflight = D.inflight /\ F.queued = D.queued /\ F.quota = D.quota
      /\ F.maximum = D.maximum /\ F.appended = D.appended + 1
  <2>1. D.count12 + 1 \in Int /\ D.appended + 1 \in Nat
    BY DEF Receiver
  <2>2. F = [D EXCEPT !.count12 = D.count12 + 1, !.appended = D.appended + 1]
    BY DEF Receiver
  <2> HIDE DEF F
  <2> QED
    BY <2>1, <2>2 DEF Receiver
<1> HIDE DEF F
<1>5. /\ E \in [inflight : SUBSET InMsg(Pubs), queued : SUBSET InMsg(Pubs),
                quota : Nat, maximum : Nat, count12 : Int, appended : Nat]
      /\ E.inflight = D.inflight \cup {m} /\ E.queued = {} /\ E.quota = D.quota
      /\ E.maximum = D.maximum /\ E.appended = D.appended + 1
  BY <1>1, <1>4
<1>6. Receiver(E)
  BY <1>3, <1>5 DEF Receiver, Placed
<1>7. a \in Seq(Packet(Pubs))
  BY AnswerType DEF PacketTypes
<1> HIDE DEF E, a
<1>8. AcceptQueued(E, n, a) = [data |-> E, answers |-> a]
  BY <1>5, <1>6, <1>7, NothingQueued
<1> QED
  BY <1>1, <1>2, <1>5, <1>8 DEF a

\* t is the type of the acknowledgement due for pkt.
Due(t, pkt) ==
    \/ t = "PUBACK" /\ pkt.qos = 1 /\ Settled(pkt.pub)'
    \/ t = "PUBREC" /\ pkt.qos = 2 /\ Taken(pkt.pub)'
    \/ t = "PUBREC_REFUSED" /\ pkt.qos = 2 /\ pkt.pub \in Denied /\ Settled(pkt.pub)'

\* The acknowledgement of a PUBLISH.
LEMMA PublishReaction ==
    ASSUME NEW pkt \in Packet(Pubs), NEW t, Due(t, pkt)
    PROVE  Reaction(<<Answer(pkt, t)>>, pkt)
<1> DEFINE k == Answer(pkt, t)
<1>0. t \in PacketTypes /\ pkt.qos > 0
  BY DEF PacketTypes, Due
<1>1. /\ k \in Packet(Pubs) /\ k.type = t /\ k.pub = pkt.pub /\ k.qos = pkt.qos
  BY <1>0, AnswerType
<1> HIDE DEF k
<1>2. Truthful(k)'
  <2>1. k.type = "PUBREC" => Taken(k.pub)'
    BY <1>1 DEF Due
  <2>2. k.type # "PUBREC" => Settled(k.pub)'
    BY <1>1 DEF Due
  <2>3. /\ k.type \in {"PUBACK", "PUBREC", "PUBREC_REFUSED"}
        /\ k.qos = IF k.type = "PUBACK" THEN 1 ELSE 2
        /\ k.type = "PUBREC_REFUSED" => k.pub \in Denied
    BY <1>1 DEF Due
  <2> QED
    BY <2>1, <2>2, <2>3 DEF Truthful
<1> QED
  BY <1>0, <1>1, <1>2 DEF Reaction, k

\* Nothing but the counts of the histories grows.
LEMMA SettledKept ==
    ASSUME Shape, routed' = routed \/ (\E S : Route(S)), refused \subseteq refused'
    PROVE  \A p \in Pubs : Settled(p) => Settled(p)'
<1>1. routed \in [Pubs -> Nat] /\ DOMAIN routed = Pubs
  BY DEF Shape, TypeOK
<1>2. ASSUME NEW p \in Pubs, routed[p] > 0 PROVE routed'[p] > 0
  <2>1. CASE routed' = routed
    BY <1>2, <2>1
  <2>2. CASE \E S : Route(S)
    <3>1. PICK S : Route(S)
      BY <2>2
    <3>2. routed'[p] = IF p \in S THEN routed[p] + 1 ELSE routed[p]
      BY <1>1, <3>1 DEF Route
    <3> QED
      BY <1>1, <1>2, <3>2
  <2> QED
    BY <2>1, <2>2
<1> QED
  BY <1>2 DEF Settled

LEMMA ReplyIs ==
    ASSUME NEW D, NEW a, Reply([data |-> D, answers |-> a])
    PROVE  msgs_in' = D /\ toClient' = toClient \o a
  BY DEF Reply

\* process_bad_message for a publication the client may not write.
LEMMA DeniedServes ==
    ASSUME Shape, Fit, NEW pkt \in Packet(Pubs), pkt.pub \in Denied,
           RefusePublish(msgs_in, pkt)
    PROVE  Serves(pkt)
<1> DEFINE E == [msgs_in EXCEPT !.quota = Raise(msgs_in, 1)]
<1>1. /\ Receiver(msgs_in) /\ msgs_in.queued = {} /\ pkt.qos \in 0..2
      /\ msgs_in.quota \in Nat /\ msgs_in.quota <= msgs_in.maximum /\ msgs_in.maximum \in Nat
  BY DEF Shape, Fit, Roomy, Packet, Receiver
<1>2. /\ Receiver(E) /\ E.inflight = msgs_in.inflight /\ E.queued = msgs_in.queued
      /\ E.maximum = msgs_in.maximum /\ E.quota = Raise(msgs_in, 1)
  BY <1>1, QuotaKept
<1>3. E.quota \in Nat /\ E.quota >= msgs_in.quota
  BY <1>1, <1>2 DEF Raise
<1>4. refused' = refused \cup {pkt.pub} /\ routed' = routed
  BY DEF RefusePublish
<1>5. Settled(pkt.pub)' /\ Taken(pkt.pub)'
  BY <1>4 DEF Settled, Taken
<1>6. \A p \in Pubs : Settled(p) => Settled(p)'
  BY <1>4, SettledKept
<1>7. \A p \in refused' : p \in refused \/ p = pkt.pub
  BY <1>4
<1> HIDE DEF E
<1>8. PICK A : /\ Reaction(A, pkt) /\ toClient' = toClient \o A
               /\ msgs_in' = msgs_in \/ msgs_in' = E
  <2> DEFINE ack == <<Answer(pkt, "PUBACK")>>
             ref == <<Answer(pkt, "PUBREC_REFUSED")>>
             rec == <<Answer(pkt, "PUBREC")>>
  <2>1. \E r : /\ Reply(r)
               /\ \/ pkt.qos = 0 /\ r = [data |-> msgs_in, answers |-> <<>>]
                  \/ pkt.qos = 1 /\ r = [data |-> E, answers |-> ack]
                  \/ pkt.qos = 2 /\ r = [data |-> E, answers |-> ref]
                  \/ pkt.qos = 2 /\ r = [data |-> msgs_in, answers |-> rec]
    BY <1>1 DEF RefusePublish, E
  <2>2. /\ pkt.qos = 1 => Reaction(ack, pkt)
        /\ pkt.qos = 2 => Reaction(ref, pkt) /\ Reaction(rec, pkt)
    <3>1. /\ pkt.qos = 1 => Due("PUBACK", pkt)
          /\ pkt.qos = 2 => Due("PUBREC", pkt) /\ Due("PUBREC_REFUSED", pkt)
      BY <1>5 DEF Due
    <3> QED
      BY <3>1, PublishReaction
  <2>3. Reaction(<<>>, pkt)
    BY DEF Reaction
  <2> HIDE DEF ack, ref, rec
  <2> QED
    BY <2>1, <2>2, <2>3 DEF Reply
<1>9. /\ msgs_in'.inflight = msgs_in.inflight /\ msgs_in'.queued = {}
      /\ msgs_in'.maximum = msgs_in.maximum /\ msgs_in'.quota \in Nat
      /\ msgs_in'.quota >= msgs_in.quota
  BY <1>1, <1>2, <1>3, <1>8
<1> QED
  BY <1>6, <1>7, <1>8, <1>9, QuotaServes

\* The broker answers a PUBLISH it has stored before.
LEMMA RepeatedServes ==
    ASSUME Shape, Core, Fit, NEW pkt \in Packet(Pubs), pkt \in Elems(toBroker),
           IsDuplicate(msgs_in, pkt),
           Reply(WriteQueuedIn(msgs_in, <<Answer(pkt, "PUBREC")>>)),
           UNCHANGED <<routed, refused>>
    PROVE  Serves(pkt)
<1> DEFINE a == <<Answer(pkt, "PUBREC")>>
<1>1. /\ Receiver(msgs_in) /\ msgs_in.queued = {}
      /\ msgs_in.quota \in Nat /\ a \in Seq(Packet(Pubs))
  BY AnswerType DEF Shape, Fit, Roomy, Receiver, PacketTypes
<1>2. Held(pkt.pub) /\ pkt.qos > 0
  <2>1. PICK m \in StoreFind(msgs_in, pkt.mid) : m.pub = pkt.pub
    BY DEF IsDuplicate
  <2>2. m \in msgs_in.inflight
    BY <1>1, <2>1 DEF StoreFind, Matches
  <2> QED
    BY <2>1, <2>2 DEF Held, IsDuplicate
<1>3. pkt.qos = 2
  BY <1>2 DEF Core, Levels, Wire, Stored, Held
<1> HIDE DEF a
<1>4. msgs_in' = msgs_in /\ toClient' = toClient \o a
  <2>1. PICK n : WriteQueuedIn(msgs_in, a) = AcceptQueued(msgs_in, n, a)
    BY DEF WriteQueuedIn
  <2>2. WriteQueuedIn(msgs_in, a) = [data |-> msgs_in, answers |-> a]
    BY <1>1, <2>1, NothingQueued
  <2>3. Reply(WriteQueuedIn(msgs_in, a))
    BY DEF a
  <2>4. Reply([data |-> msgs_in, answers |-> a])
    BY <2>2, <2>3
  <2> QED
    BY <2>4, ReplyIs
<1>5. Taken(pkt.pub)'
  BY <1>2, <1>4 DEF Taken, Held
<1>6. Reaction(a, pkt)
  <2>1. Due("PUBREC", pkt)
    BY <1>3, <1>5 DEF Due
  <2> QED
    BY <2>1, PublishReaction DEF a
<1>7. \A p \in Pubs : Settled(p) => Settled(p)'
  BY DEF Settled
<1>8. /\ msgs_in'.inflight = msgs_in.inflight /\ msgs_in'.queued = {}
      /\ msgs_in'.maximum = msgs_in.maximum /\ msgs_in'.quota \in Nat
      /\ msgs_in'.quota >= msgs_in.quota
  BY <1>1, <1>4
<1> QED
  BY <1>4, <1>6, <1>7, <1>8, QuotaServes

\* A PUBLISH that is new is routed or stored.
LEMMA AcceptServes ==
    ASSUME Shape, Core, Fit, NEW pkt \in Packet(Pubs), pkt.pub \notin Denied,
           pkt.qos = 2 => FlightReady(msgs_in), AcceptPublish(msgs_in, pkt)
    PROVE  Serves(pkt)
<1>1. /\ Receiver(msgs_in) /\ msgs_in.queued = {} /\ pkt.qos \in 0..2
      /\ msgs_in.quota \in Nat /\ msgs_in.quota <= msgs_in.maximum /\ msgs_in.maximum \in Nat
      /\ pkt.pub \in Pubs
  BY DEF Shape, Fit, Roomy, Packet, Receiver
<1>2. refused' = refused
  BY DEF AcceptPublish
<1>3. Route({pkt.pub}) => Settled(pkt.pub)' /\ \A p \in Pubs : Settled(p) => Settled(p)'
  <2> SUFFICES ASSUME Route({pkt.pub})
               PROVE  Settled(pkt.pub)' /\ \A p \in Pubs : Settled(p) => Settled(p)'
    OBVIOUS
  <2>1. routed \in [Pubs -> Nat] /\ DOMAIN routed = Pubs
    BY DEF Shape, TypeOK
  <2>2. routed'[pkt.pub] = routed[pkt.pub] + 1 /\ routed[pkt.pub] \in Nat
    BY <1>1, <2>1 DEF Route
  <2>3. \A p \in Pubs : Settled(p) => Settled(p)'
    BY <1>2, SettledKept
  <2> QED
    BY <2>2, <2>3 DEF Settled
<1>4. CASE pkt.qos = 0
  <2> DEFINE a == <<>>
  <2>1. Reply(WriteQueuedIn(msgs_in, a)) /\ Route({pkt.pub})
    BY <1>4 DEF AcceptPublish
  <2>2. a \in Seq(Packet(Pubs)) /\ Reaction(a, pkt)
    BY EmptyElems DEF Reaction
  <2> HIDE DEF a
  <2>3. PICK n : WriteQueuedIn(msgs_in, a) = AcceptQueued(msgs_in, n, a)
    BY DEF WriteQueuedIn
  <2>4. WriteQueuedIn(msgs_in, a) = [data |-> msgs_in, answers |-> a]
    BY <1>1, <2>2, <2>3, NothingQueued
  <2>5. msgs_in' = msgs_in /\ toClient' = toClient \o a
    BY <2>1, <2>4 DEF Reply
  <2>6. /\ msgs_in'.inflight = msgs_in.inflight /\ msgs_in'.queued = {}
        /\ msgs_in'.maximum = msgs_in.maximum /\ msgs_in'.quota \in Nat
        /\ msgs_in'.quota >= msgs_in.quota
    BY <1>1, <2>5
  <2> QED
    BY <1>2, <1>3, <2>1, <2>2, <2>5, <2>6, QuotaServes
<1>5. CASE pkt.qos = 1
  <2> DEFINE E == [msgs_in EXCEPT !.quota = Lower(@, 1)]
             F == [E EXCEPT !.quota = Raise(E, 1)]
             a == <<Answer(pkt, "PUBACK")>>
  <2>1. Reply(WriteQueuedIn(F, a)) /\ Route({pkt.pub})
    BY <1>5 DEF AcceptPublish
  <2>2. E = [msgs_in EXCEPT !.quota = Lower(msgs_in.quota, 1)]
    BY <1>1 DEF Receiver
  <2>3. /\ Receiver(E) /\ E.inflight = msgs_in.inflight /\ E.queued = msgs_in.queued
        /\ E.maximum = msgs_in.maximum /\ E.quota = Lower(msgs_in.quota, 1)
    BY <1>1, <2>2, QuotaKept
  <2> HIDE DEF E
  <2>4. /\ Receiver(F) /\ F.inflight = msgs_in.inflight /\ F.queued = msgs_in.queued
        /\ F.maximum = msgs_in.maximum /\ F.quota = Raise(E, 1)
    BY <2>3, QuotaKept
  <2> HIDE DEF F
  <2>5. F.quota \in Nat /\ F.quota >= msgs_in.quota
    BY <1>1, <2>3, <2>4 DEF Raise, Lower
  <2>6. a \in Seq(Packet(Pubs))
    BY AnswerType DEF PacketTypes
  <2>7. Reaction(a, pkt)
    <3>1. Due("PUBACK", pkt)
      BY <1>3, <1>5, <2>1 DEF Due
    <3> QED
      BY <3>1, PublishReaction
  <2> HIDE DEF a
  <2>8. PICK n : WriteQueuedIn(F, a) = AcceptQueued(F, n, a)
    BY DEF WriteQueuedIn
  <2>9. WriteQueuedIn(F, a) = [data |-> F, answers |-> a]
    BY <1>1, <2>4, <2>6, <2>8, NothingQueued
  <2>10. msgs_in' = F /\ toClient' = toClient \o a
    BY <2>1, <2>9 DEF Reply
  <2>11. /\ msgs_in'.inflight = msgs_in.inflight /\ msgs_in'.queued = {}
         /\ msgs_in'.maximum = msgs_in.maximum /\ msgs_in'.quota \in Nat
         /\ msgs_in'.quota >= msgs_in.quota
    BY <1>1, <2>4, <2>5, <2>10
  <2> QED
    BY <1>2, <1>3, <2>1, <2>7, <2>10, <2>11, QuotaServes
<1>6. CASE pkt.qos = 2
  <2> DEFINE a == <<Answer(pkt, "PUBREC")>>
             I == msgs_in.inflight
  <2>1. Reply(InsertIncoming(msgs_in, pkt)) /\ UNCHANGED routed
    BY <1>6 DEF AcceptPublish
  <2>2. PICK E, m : /\ InsertIncoming(msgs_in, pkt) = [data |-> E, answers |-> a]
                    /\ m.pub = pkt.pub /\ E.inflight = I \cup {m}
                    /\ E.queued = {} /\ E.quota = msgs_in.quota
                    /\ E.maximum = msgs_in.maximum
    BY <1>1, <1>6, InsertFlight
  <2>3. msgs_in' = E /\ toClient' = toClient \o a
    BY <2>1, <2>2 DEF Reply
  <2>4. Taken(pkt.pub)'
    BY <2>2, <2>3 DEF Taken, Held
  <2>5. Reaction(a, pkt)
    <3>1. Due("PUBREC", pkt)
      BY <1>6, <2>4 DEF Due
    <3> QED
      BY <3>1, PublishReaction
  <2>6. \A p \in Pubs : Settled(p)' <=> Settled(p)
    BY <1>2, <2>1 DEF Settled
  <2>7. Lasts
    BY <2>2, <2>3, <2>6 DEF Lasts, Taken, Held
  <2>8. Roomy'
    <3>1. IsFiniteSet(I) /\ Cardinality(I) \in Nat
      BY <1>1, FS_CardinalityType DEF Receiver
    <3>2. Cardinality(I \cup {m}) \in Nat /\ Cardinality(I \cup {m}) >= Cardinality(I)
      <4>1. IsFiniteSet(I \cup {m}) /\ I \in SUBSET (I \cup {m})
        BY <3>1, FS_AddElement
      <4> QED
        BY <3>1, <4>1, FS_Subset, FS_CardinalityType
    <3>3. msgs_in.quota + Cardinality(I) >= msgs_in.maximum
      BY DEF Fit, Roomy
    <3>4. /\ msgs_in'.inflight = I \cup {m} /\ msgs_in'.queued = {}
          /\ msgs_in'.quota = msgs_in.quota /\ msgs_in'.maximum = msgs_in.maximum
      BY <2>2, <2>3
    <3> HIDE DEF I
    <3> QED
      BY <1>1, <3>1, <3>2, <3>3, <3>4 DEF Roomy
  <2>9. \A s \in msgs_in'.inflight : Held(s.pub) \/ s.pub = pkt.pub
    BY <2>2, <2>3 DEF Held
  <2> HIDE DEF a
  <2> QED
    BY <1>2, <1>6, <2>3, <2>5, <2>7, <2>8, <2>9 DEF Serves
<1> QED
  BY <1>1, <1>4, <1>5, <1>6

\* handle__publish: a publication that fits is never refused for want of room.
LEMMA PublishServes ==
    ASSUME Shape, WindowsFit, Core, Fit, conn # "none",
           NEW pkt \in Packet(Pubs), pkt \in Elems(toBroker), HandlePublish(pkt)
    PROVE  Serves(pkt)
<1> DEFINE D == Cleared(msgs_in, pkt)
           room == pkt.qos = 0 \/ FlightReady(D) \/ QueueReady(D)
           dup == IsDuplicate(msgs_in, pkt)
<1>1. \/ pkt.pub \in Denied /\ RefusePublish(msgs_in, pkt)
      \/ /\ pkt.pub \notin Denied /\ dup
         /\ Reply(WriteQueuedIn(msgs_in, <<Answer(pkt, "PUBREC")>>))
         /\ UNCHANGED <<routed, refused>>
      \/ pkt.pub \notin Denied /\ ~dup /\ ~room /\ RefusePublish(D, pkt)
      \/ pkt.pub \notin Denied /\ ~dup /\ room /\ AcceptPublish(D, pkt)
  BY DEF HandlePublish
<1>2. pkt.qos \in 0..2
  BY DEF Packet
<1>3. CASE pkt.pub \in Denied
  BY <1>1, <1>3, DeniedServes
<1>4. CASE pkt.pub \notin Denied /\ dup
  BY <1>1, <1>4, RepeatedServes
<1>5. ASSUME pkt.qos > 0, ~dup PROVE D = msgs_in /\ FlightReady(msgs_in)
  <2>1. Named(pkt)
    BY DEF Named, Core, Numbers, Wire
  <2>2. /\ \A m \in Stored(msgs_in) : m.pub # pkt.pub
        /\ D = msgs_in
    BY <1>5, <2>1, FreshNotStored DEF Shape, Core
  <2>3. ~Held(pkt.pub)
    BY <2>2 DEF Held, Stored
  <2> QED
    BY <1>5, <2>2, <2>3, Room
<1>6. pkt.qos = 0 => D = msgs_in
  BY DEF Cleared
<1> HIDE DEF D
<1>7. CASE pkt.pub \notin Denied /\ ~dup
  <2>1. D = msgs_in /\ room /\ (pkt.qos = 2 => FlightReady(msgs_in))
    BY <1>2, <1>5, <1>6, <1>7
  <2>2. AcceptPublish(msgs_in, pkt)
    BY <1>1, <1>7, <2>1
  <2> QED
    BY <1>7, <2>1, <2>2, AcceptServes
<1> QED
  BY <1>3, <1>4, <1>7

LEMMA AtMostOne ==
    ASSUME NEW S, \A x, y \in S : x = y
    PROVE  IsFiniteSet(S) /\ Cardinality(S) \in 0..1
<1>1. CASE S = {}
  <2>1. IsFiniteSet({}) /\ Cardinality({}) = 0
    BY FS_EmptySet
  <2> QED
    BY <1>1, <2>1
<1>2. CASE S # {}
  <2>1. PICK x : S = {x}
    BY <1>2
  <2>2. IsFiniteSet({x}) /\ Cardinality({x}) = 1
    BY FS_Singleton
  <2> QED
    BY <2>1, <2>2
<1> QED
  BY <1>1, <1>2

\* handle__pubrel: the message is routed, and its place given back.
LEMMA PubrelServes ==
    ASSUME Shape, Core, Fit,
           NEW pkt \in Packet(Pubs), pkt \in Elems(toBroker), HandlePubrel(pkt)
    PROVE  Serves(pkt)
<1> DEFINE I == msgs_in.inflight
           M == {m \in I : m.mid = pkt.mid}
           F == Release(msgs_in, M)
           E == [F EXCEPT !.quota = Raise(F, 1)]
           b == <<>>
           k == Answer(pkt, "PUBCOMP")
           a == <<k>>
<1>1. /\ Receiver(msgs_in) /\ msgs_in.queued = {} /\ pkt.qos \in 0..2 /\ pkt.pub \in Pubs
      /\ msgs_in.quota \in Nat /\ msgs_in.quota <= msgs_in.maximum /\ msgs_in.maximum \in Nat
      /\ IsFiniteSet(I) /\ M \in SUBSET I /\ Cardinality(I) \in Nat
      /\ msgs_in.quota + Cardinality(I) >= msgs_in.maximum
  BY FS_CardinalityType DEF Shape, Fit, Roomy, Packet, Receiver
<1>2. pkt.type = "PUBREL" /\ pkt.qos = 2 /\ Taken(pkt.pub)
  BY DEF HandlePubrel, Fit, Asked
<1>3. /\ Receiver(F) /\ F.inflight = I \ M /\ F.queued = {}
      /\ F.quota = msgs_in.quota /\ F.maximum = msgs_in.maximum
  <2>1. msgs_in.count12 - Cardinality(M) \in Int
    BY <1>1, RemovedCount
  <2>2. F = [msgs_in EXCEPT !.inflight = I \ M, !.count12 = msgs_in.count12 - Cardinality(M)]
    BY <1>1 DEF Release, Receiver
  <2> HIDE DEF M, F
  <2>3. /\ F \in [inflight : SUBSET InMsg(Pubs), queued : SUBSET InMsg(Pubs),
                  quota : Nat, maximum : Nat, count12 : Int, appended : Nat]
        /\ F.inflight = I \ M /\ F.queued = msgs_in.queued
        /\ F.maximum = msgs_in.maximum /\ F.quota = msgs_in.quota
        /\ F.appended = msgs_in.appended
    BY <2>1, <2>2, <1>1 DEF Receiver
  <2>4. Receiver(F)
    BY <1>1, <2>3, RemoveKept
  <2> QED
    BY <1>1, <2>3, <2>4
<1>4. PICK n : Reply([data |-> [AcceptQueued(F, n, b).data EXCEPT
                                    !.quota = Raise(AcceptQueued(F, n, b).data, 1)],
                      answers |-> Append(AcceptQueued(F, n, b).answers, k)])
  BY DEF HandlePubrel
<1>5. Route({m.pub : m \in M}) /\ refused' = refused
  BY DEF HandlePubrel
<1> HIDE DEF F
<1>6. AcceptQueued(F, n, b) = [data |-> F, answers |-> b]
  <2>1. b \in Seq(Packet(Pubs))
    BY EmptyElems
  <2> HIDE DEF b
  <2> QED
    BY <1>3, <2>1, NothingQueued
<1>7. Append(b, k) = a
  OBVIOUS
<1>8. msgs_in' = E /\ toClient' = toClient \o a
  <2> HIDE DEF k, b, a
  <2>1. Reply([data |-> E, answers |-> a])
    BY <1>4, <1>6, <1>7, SMTT(30)
  <2> HIDE DEF E
  <2> QED
    BY <2>1, ReplyIs
<1>9. /\ E.inflight = I \ M /\ E.queued = {} /\ E.quota = Raise(F, 1)
      /\ E.maximum = msgs_in.maximum
  BY <1>3, QuotaKept
<1> HIDE DEF E
<1>10. \A m, n2 \in M : m = n2
  BY DEF Core, Numbers, Single, Stored
<1>11. Roomy'
  <2>1. IsFiniteSet(M) /\ Cardinality(M) \in 0..1
    BY <1>10, AtMostOne
  <2> HIDE DEF M
  <2>2. Cardinality(I \ M) = Cardinality(I) - Cardinality(I \cap M)
        /\ I \cap M = M /\ Cardinality(I \ M) \in Nat
    BY <1>1, FS_Difference, FS_CardinalityType
  <2>3. /\ msgs_in'.inflight = I \ M /\ msgs_in'.queued = {}
        /\ msgs_in'.quota = Raise(F, 1) /\ msgs_in'.maximum = msgs_in.maximum
    BY <1>8, <1>9
  <2> DEFINE c == Cardinality(I \ M)
             d == Cardinality(I)
             e == Cardinality(M)
  <2>4. c \in Nat /\ d \in Nat /\ e \in 0..1 /\ c = d - e
    BY <1>1, <2>1, <2>2
  <2>5. /\ Raise(F, 1) \in Nat
        /\ Raise(F, 1) = msgs_in.maximum \/ Raise(F, 1) = msgs_in.quota + 1
    BY <1>1, <1>3 DEF Raise
  <2>6. msgs_in.quota + d >= msgs_in.maximum
    BY <1>1
  <2> HIDE DEF c, d, e
  <2>7. Raise(F, 1) + c >= msgs_in.maximum
    BY <1>1, <2>4, <2>5, <2>6
  <2> QED
    BY <2>3, <2>7 DEF Roomy, c
<1>12. \A p \in Pubs : Settled(p) => Settled(p)'
  BY <1>5, SettledKept
<1>13. \A p \in Pubs : Held(p) => Held(p)' \/ Settled(p)'
  <2> SUFFICES ASSUME NEW p \in Pubs, Held(p), ~Held(p)'
               PROVE  Settled(p)'
    OBVIOUS
  <2>1. PICK s \in I : s.pub = p
    BY DEF Held
  <2>2. s \in M
    BY <1>8, <1>9, <2>1 DEF Held
  <2>3. routed \in [Pubs -> Nat] /\ DOMAIN routed = Pubs
    BY DEF Shape, TypeOK
  <2>4. routed'[p] = routed[p] + 1 /\ routed[p] \in Nat
    BY <1>5, <2>1, <2>2, <2>3 DEF Route
  <2> QED
    BY <2>4 DEF Settled
<1>14. Lasts
  BY <1>12, <1>13 DEF Lasts, Taken
<1>15. ~Held(pkt.pub)'
  <2>1. pkt.mid = pkt.pub /\ \A m \in I : m.mid = m.pub
    BY DEF Core, Numbers, Wire, Stored
  <2> QED
    BY <1>8, <1>9, <2>1 DEF Held
<1>16. Settled(pkt.pub)'
  BY <1>1, <1>2, <1>14, <1>15 DEF Lasts, Taken
<1>17. /\ k \in Packet(Pubs) /\ k.type = "PUBCOMP" /\ k.pub = pkt.pub /\ k.qos = pkt.qos
  <2>1. "PUBCOMP" \in PacketTypes
    BY DEF PacketTypes
  <2> QED
    BY <2>1, AnswerType
<1> HIDE DEF k
<1>18. Reaction(a, pkt)
  <2>1. Truthful(k)'
    BY <1>2, <1>15, <1>16, <1>17 DEF Truthful
  <2> QED
    BY <1>2, <1>17, <2>1 DEF Reaction
<1>19. \A s \in msgs_in'.inflight : Held(s.pub)
  BY <1>8, <1>9 DEF Held
<1> HIDE DEF a
<1> QED
  BY <1>5, <1>8, <1>11, <1>14, <1>18, <1>19 DEF Serves

\* A packet at the broker.
LEMMA FitReceive ==
    ASSUME Shape, WindowsFit, Core, Fit, BrokerReceive
    PROVE  Fit'
<1> DEFINE pkt == Head(toBroker)
<1>1. pkt \in Packet(Pubs) /\ pkt \in Elems(toBroker)
  BY BrokerStep
<1>2. conn # "none" /\ (HandlePublish(pkt) \/ HandlePubrel(pkt))
  BY DEF BrokerReceive, BrokerHandle
<1>3. pkt = Head(toBroker)
  OBVIOUS
<1> HIDE DEF pkt
<1>4. Serves(pkt)
  BY <1>1, <1>2, PublishServes, PubrelServes
<1> QED
  BY <1>3, <1>4, FitServed

\* db__message_reconnect_reset_incoming when nothing waits: the messages stay,
\* and the quota is what the window leaves.
LEMMA FitConnect ==
    ASSUME Shape, Fit, BrokerConnect
    PROVE  Fit'
<1>1. PICK max \in Maxima : msgs_in' = ResetIncoming(msgs_in, max)
  BY DEF BrokerConnect, HandleConnect
<1> DEFINE I == msgs_in.inflight
           c == Cardinality(I)
           q == Lower(max, c)
           E == [msgs_in EXCEPT !.quota = q, !.maximum = max,
                                !.count12 = c + Cardinality(msgs_in.queued)]
<1>2. Receiver(msgs_in) /\ msgs_in.queued = {} /\ max \in Nat
  BY IncomingAssumption DEF Shape, Fit, Roomy
<1>3. IsFiniteSet(I) /\ c \in Nat
  BY <1>2, FS_CardinalityType DEF Receiver
<1>4. PICK n : msgs_in' = Dequeue(E, FirstN(msgs_in.queued, n))
  BY <1>1 DEF ResetIncoming
<1>5. FirstN(msgs_in.queued, n) = {}
  BY <1>2 DEF FirstN
<1>6. /\ E.inflight = I /\ E.queued = {} /\ E.quota = q /\ E.maximum = max
      /\ DOMAIN E = {"inflight", "queued", "quota", "maximum", "count12", "appended"}
  BY <1>2 DEF Receiver
<1> HIDE DEF E, I
<1>7. Cardinality({}) = 0
  BY FS_EmptySet
<1>8. /\ msgs_in'.inflight = I /\ msgs_in'.queued = {} /\ msgs_in'.quota = Lower(q, 0)
      /\ msgs_in'.maximum = max
  BY <1>4, <1>5, <1>6, <1>7 DEF Dequeue
<1> HIDE DEF c
<1>9. Lower(q, 0) + c >= max
  BY <1>2, <1>3 DEF Lower
<1>10. Roomy'
  BY <1>8, <1>9 DEF Roomy, c
<1>11. /\ UNCHANGED <<msgs_out, published, confirmed, routed, refused, toClient, toBroker>>
       /\ conn = "connecting" /\ conn' = "accepted"
  BY DEF BrokerConnect, HandleConnect, channel
<1>12. \A p : /\ Held(p)' <=> Held(p)
              /\ Settled(p)' <=> Settled(p)
              /\ Taken(p)' <=> Taken(p)
  BY <1>8, <1>11 DEF Held, Settled, Taken, I
<1>13. \A k : Owned(k) => Owned(k)'
  BY <1>11 DEF Owned, Sent
<1>14. Wire' = Wire /\ Elems(toClient)' = Elems(toClient) /\ Elems(toBroker)' = Elems(toBroker)
  BY <1>11 DEF Wire, Elems
<1>15. Apart(toBroker, toClient)' /\ Front(msgs_out)'
  BY <1>11 DEF Fit, Apart, Unique, Elems, Front, Sent, Older
<1>16. Lively' /\ Backed' /\ Outcomes'
  BY <1>8, <1>11, <1>12 DEF Fit, Lively, Backed, Outcomes, Sent, I
<1>17. /\ \A k : Truthful(k) => Truthful(k)'
       /\ \A k : Asked(k) => Asked(k)'
  BY <1>12 DEF Truthful, Asked
<1>18. (\A k \in Wire : Owned(k))'
  BY <1>13, <1>14 DEF Fit
<1>19. (\A k \in Elems(toClient) : Truthful(k))' /\ (\A k \in Elems(toBroker) : Asked(k))'
  BY <1>14, <1>17 DEF Fit
<1> QED
  BY <1>10, <1>11, <1>15, <1>16, <1>18, <1>19 DEF Fit

----------------------------------------------------------------------------
(* The client.                                                             *)

\* What a step of the client has to keep.
LEMMA FitClient ==
    ASSUME Fit, UNCHANGED brokerVars,
           published \in Nat, published' \in Nat, published <= published', refused \subseteq Nat,
           Apart(toBroker', toClient'),
           \A k \in Elems(toBroker') \cup Elems(toClient') : Owned(k)',
           conn' = "none" => Elems(toBroker') \cup Elems(toClient') = {},
           conn' # "none" => Front(msgs_out'),
           \A m \in msgs_out'.inflight :
               /\ m.state \in Late \/ Held(m.pub) =>
                     Sent(m) /\ Older(msgs_out'.inflight, m) < msgs_out'.maximum
               /\ m.state \in Late => Taken(m.pub),
           \A s \in msgs_in.inflight : \E m \in msgs_out'.inflight : m.pub = s.pub,
           \A p \in confirmed' :
               Settled(p) /\ p <= published' /\ \A m \in msgs_out'.inflight : m.pub # p,
           Elems(toClient') \subseteq Elems(toClient),
           \A k \in Elems(toBroker') : k \in Elems(toBroker) \/ Asked(k)
    PROVE  Fit'
<1>1. UNCHANGED <<msgs_in, routed, refused>>
  BY DEF brokerVars
<1>2. \A p : /\ Held(p)' <=> Held(p)
             /\ Settled(p)' <=> Settled(p)
             /\ Taken(p)' <=> Taken(p)
  BY <1>1 DEF Held, Settled, Taken
<1>3. /\ \A k : Truthful(k) => Truthful(k)'
      /\ \A k : Asked(k) => Asked(k)'
  BY <1>2 DEF Truthful, Asked
<1>4. /\ Wire' = Elems(toBroker') \cup Elems(toClient')
      /\ Elems(toClient)' = Elems(toClient') /\ Elems(toBroker)' = Elems(toBroker')
  BY DEF Wire, Elems
<1>5. Roomy'
  BY <1>1 DEF Fit, Roomy
<1>6. Apart(toBroker, toClient)'
  BY DEF Apart, Unique, Elems
<1>7. conn' # "none" => Front(msgs_out)'
  BY DEF Front, Sent, Older
<1>8. Lively'
  BY <1>2 DEF Lively, Sent
<1>9. Backed'
  BY <1>1 DEF Fit, Backed
<1>10. Outcomes'
  <2>1. \A p \in refused' : p <= published'
    BY <1>1 DEF Fit, Outcomes
  <2> QED
    BY <1>2, <2>1 DEF Outcomes
<1>11. (\A k \in Wire : Owned(k))' /\ (conn = "none" => Wire = {})'
  BY <1>4
<1>12. (\A k \in Elems(toClient) : Truthful(k))'
  BY <1>3, <1>4 DEF Fit
<1>13. (\A k \in Elems(toBroker) : Asked(k))'
  BY <1>3, <1>4 DEF Fit
<1> QED
  BY <1>5, <1>6, <1>7, <1>8, <1>9, <1>10, <1>11, <1>12, <1>13 DEF Fit

LEMMA Counted ==
    ASSUME Shape
    PROVE  /\ published \in Nat /\ refused \subseteq Nat
           /\ \A m \in msgs_out.inflight : m.pub \in Nat
  BY SenderAssumption, SMTT(30) DEF Shape, TypeOK, OutMsg

\* loop_rc_handle: the packets on the way are lost.
LEMMA FitClosed ==
    ASSUME Shape, Fit, UNCHANGED <<brokerVars, published, confirmed>>,
           msgs_out'.inflight = msgs_out.inflight, msgs_out'.maximum = msgs_out.maximum,
           conn' = "none", QueuesClosed
    PROVE  Fit'
<1>1. toBroker' = <<>> /\ toClient' = <<>>
  BY DEF QueuesClosed
<1>2. Elems(toBroker') = {} /\ Elems(toClient') = {}
  BY <1>1, EmptyElems
<1>3. Apart(toBroker', toClient')
  <2>1. Unique(toBroker') /\ Unique(toClient')
    BY <1>1, UniqueSmall
  <2> QED
    BY <1>2, <2>1 DEF Apart
<1>4. published' = published /\ confirmed' = confirmed
  OBVIOUS
<1>5. \A m \in msgs_out'.inflight :
         /\ m.state \in Late \/ Held(m.pub) =>
               Sent(m) /\ Older(msgs_out'.inflight, m) < msgs_out'.maximum
         /\ m.state \in Late => Taken(m.pub)
  BY DEF Fit, Lively, Outcomes
<1>6. \A s \in msgs_in.inflight : \E m \in msgs_out'.inflight : m.pub = s.pub
  BY DEF Fit, Backed
<1>7. \A p \in confirmed' :
         Settled(p) /\ p <= published' /\ \A m \in msgs_out'.inflight : m.pub # p
  BY DEF Fit, Outcomes
<1>8. UNCHANGED brokerVars /\ published \in Nat /\ refused \subseteq Nat
  BY Counted
<1>9. published <= published'
  BY <1>4, <1>8
<1> QED
  BY <1>2, <1>3, <1>4, <1>5, <1>6, <1>7, <1>8, <1>9, FitClient

LEMMA FitLose ==
    ASSUME Shape, Fit, Lose
    PROVE  Fit'
  BY FitClosed DEF Lose, ConnectionLost, Hangup

\* mosquitto__reconnect: what the broker has taken stays in the window.
LEMMA FitDial ==
    ASSUME Shape, Fit, Dial \/ DialFails
    PROVE  Fit'
<1> DEFINE D == msgs_out
           L == D.inflight
           W == {m \in L : Older(L, m) < D.maximum}
           E == ReconnectReset(D, FALSE)
           M == E.inflight
<1>1. /\ conn = "none" /\ msgs_out' = E
      /\ UNCHANGED <<brokerVars, published, confirmed, toBroker, toClient>>
  BY Zenon DEF Dial, DialFails, Reconnect, ReconnectFails, channel
<1>2. Lists(D) /\ Listed(L) /\ FALSE \in BOOLEAN
  BY DEF Shape, Sender, Lists
<1>3. W = {m \in L : Older(L, m) < D.maximum}
  OBVIOUS
<1> HIDE DEF W
<1>4. E.maximum = D.maximum /\ Resets(L, M, W, FALSE)
  BY <1>2, <1>3, ResetKept
<1>5. Front(E)
  BY <1>2, FrontReset
<1> HIDE DEF E
<1>6. PICK g : /\ Rewrites(L, M, g)
               /\ \A m \in L : IF m \in W THEN g[m] = RetryState(m)
                              ELSE g[m].state = "invalid"
  BY <1>4 DEF Resets
<1>7. \A m \in L : g[m] \in M /\ Older(M, g[m]) = Older(L, m)
  BY <1>2, <1>6, RewriteKept
<1>8. Elems(toBroker') = {} /\ Elems(toClient') = {} /\ Apart(toBroker', toClient')
  <2>1. Wire = {}
    BY <1>1 DEF Fit
  <2> QED
    BY <1>1, <2>1 DEF Fit, Wire
<1>9. ASSUME NEW y \in M
      PROVE  /\ y.state \in Late \/ Held(y.pub) => Sent(y) /\ Older(M, y) < E.maximum
             /\ y.state \in Late => Taken(y.pub)
  <2>1. PICK x \in L : y = g[x] /\ y.pub = x.pub
    BY <1>6 DEF Rewrites
  <2>2. x \in OutMsg
    BY <1>2 DEF Listed
  <2>3. y.state \in Late => x.state \in Late
    <3>1. CASE x \in W
      BY <1>6, <2>1, <2>2, <3>1 DEF Late, RetryState, OutMsg
    <3>2. CASE x \notin W
      BY <1>6, <2>1, <3>2 DEF Late
    <3> QED
      BY <3>1, <3>2
  <2>4. ASSUME x.state \in Late \/ Held(x.pub) PROVE Sent(y) /\ Older(M, y) < E.maximum
    <3>1. Sent(x) /\ Older(L, x) < D.maximum
      BY <2>4 DEF Fit, Lively
    <3>2. x \in W
      BY <1>3, <3>1
    <3>3. Sent(y)
      BY <1>6, <2>1, <2>2, <3>1, <3>2 DEF Sent, RetryState, OutMsg
    <3> QED
      BY <1>4, <1>7, <2>1, <3>1, <3>3
  <2> QED
    BY <2>1, <2>3, <2>4 DEF Fit, Outcomes
<1>10. ASSUME NEW s \in msgs_in.inflight PROVE \E m \in M : m.pub = s.pub
  <2>1. PICK x \in L : x.pub = s.pub
    BY DEF Fit, Backed
  <2> QED
    BY <1>6, <1>7, <2>1 DEF Rewrites
<1>11. \A p \in confirmed' : Settled(p) /\ p <= published' /\ \A m \in M : m.pub # p
  BY <1>1, <1>6 DEF Fit, Outcomes, Rewrites
<1>12. published \in Nat /\ refused \subseteq Nat /\ published <= published' /\ published' \in Nat
  BY <1>1, Counted
<1>13. UNCHANGED brokerVars /\ msgs_out' = E
  BY <1>1
<1> QED
  BY <1>5, <1>8, <1>9, <1>10, <1>11, <1>12, <1>13, FitClient

\* handle__connack: a window that is not smaller keeps what was sent, and what
\* is retried is not on the way.
LEMMA FitConnack ==
    ASSUME Shape, WindowsFit, Fit, ClientConnack
    PROVE  Fit'
<1> DEFINE rm == IF Mqtt5 THEN msgs_in.maximum ELSE 0
           max == IF rm > 0 THEN rm ELSE msgs_out.maximum
           D == [msgs_out EXCEPT !.maximum = max]
           L == msgs_out.inflight
           W == {m \in L : Older(L, m) < max}
           E == ReconnectReset(D, TRUE)
           M == E.inflight
           R == Retried(E)
           T == PacketsFor(R, RetryPacket)
<1>1. /\ conn = "accepted" /\ conn' = "active" /\ msgs_out' = E
      /\ toBroker' = toBroker \o T /\ UNCHANGED <<published, confirmed, toClient, brokerVars>>
  BY DEF ClientConnack, HandleConnack
<1>2. max \in Nat /\ msgs_out.maximum \in Nat /\ msgs_out.maximum <= max
  BY Windows, IncomingAssumption
<1>3. /\ Listed(L) /\ msgs_out.quota \in Nat
      /\ msgs_out \in [inflight : SUBSET OutMsg, quota : Nat, maximum : Nat]
  BY DEF Shape, Sender, Lists
<1> HIDE DEF max
<1>4. Lists(D) /\ D.inflight = L /\ D.maximum = max /\ TRUE \in BOOLEAN
  BY <1>2, <1>3 DEF Lists
<1>5. W = {m \in D.inflight : Older(D.inflight, m) < D.maximum}
  BY <1>4
<1> HIDE DEF D, W
<1>6. Sender(E) /\ E.maximum = max /\ Resets(L, M, W, TRUE)
  BY <1>4, <1>5, ResetKept
<1>7. Front(E)
  BY <1>4, FrontReset
<1>8. Listed(M) /\ R \in SUBSET M
  BY <1>6 DEF Sender, Lists, Retried
<1>9. \A m \in R : m.state \in {"publish_qos1", "publish_qos2", "resend_pubrel", "wait_for_pubcomp"}
  BY DEF Retried
<1> HIDE DEF E, R
<1>10. Listed(R)
  BY <1>8, PartKept
<1>11. /\ T \in Seq(Packet(Pubs)) /\ Elems(T) = {RetryPacket(m) : m \in R} /\ Unique(T)
  BY <1>10, PacketsSent, UniqueList
<1> HIDE DEF T, M
<1>12. PICK g : /\ Rewrites(L, M, g)
                /\ \A m \in L : IF m \in W THEN g[m] = m ELSE g[m].state = "invalid"
  BY <1>6 DEF Resets
<1>13. \A m \in L : g[m] \in M /\ Older(M, g[m]) = Older(L, m)
  BY <1>3, <1>12, RewriteKept
<1>14. \A m \in L : Older(L, m) \in Nat
  BY <1>3, ListOrder
<1>15. \A m \in L : Sent(m) => m \in W /\ g[m] = m
  <2> SUFFICES ASSUME NEW m \in L, Sent(m) PROVE m \in W
    BY <1>12
  <2>1. Older(L, m) < msgs_out.maximum - msgs_out.quota
    BY <1>1 DEF Fit, Front
  <2>2. Older(L, m) < max
    BY <1>2, <1>3, <1>14, <2>1
  <2> QED
    BY <1>4, <1>5, <2>2
<1>16. \A y \in M : Sent(y) => y \in L
  BY <1>12 DEF Rewrites, Sent
<1>17. toBroker \in Seq(Packet(Pubs)) /\ toClient \in Seq(Packet(Pubs))
  BY DEF Shape, TypeOK
<1>18. Elems(toBroker') = Elems(toBroker) \cup Elems(T) /\ toClient' = toClient
  BY <1>1, <1>11, <1>17, ConcatElems
<1>19. ASSUME NEW k \in Elems(T)
       PROVE  \E m \in L : /\ k.pub = m.pub /\ k.qos = m.qos /\ m \in M /\ Sent(m)
                           /\ m.state \notin {"wait_for_puback", "wait_for_pubrec"}
                           /\ \/ k.type = "PUBLISH"
                              \/ k.type = "PUBREL" /\ m.state \in Late
  <2>1. PICK m \in R : k = RetryPacket(m)
    BY <1>11
  <2>2. Sent(m) /\ m \in M /\ m.state \notin {"wait_for_puback", "wait_for_pubrec"}
    BY <1>8, <1>9 DEF Sent
  <2>3. m \in L
    BY <1>16, <2>2
  <2>4. k.pub = m.pub /\ k.qos = m.qos
    BY <2>1 DEF RetryPacket, PublishPacket, PubrelPacket
  <2>5. k.type = "PUBLISH" \/ (k.type = "PUBREL" /\ m.state \in Late)
    BY <1>9, <2>1 DEF RetryPacket, PublishPacket, PubrelPacket, Late
  <2> QED
    BY <2>2, <2>3, <2>4, <2>5
<1>20. ASSUME NEW k \in Elems(T), NEW l \in Wire PROVE k.pub # l.pub
  <2>1. PICK m \in L : k.pub = m.pub /\ m.state \notin {"wait_for_puback", "wait_for_pubrec"}
    BY <1>19
  <2>2. Owned(l)
    BY DEF Fit
  <2>3. \A n \in L : n.pub = m.pub => n = m
    BY <1>3 DEF Listed
  <2> QED
    BY <1>1, <2>1, <2>2, <2>3 DEF Owned
<1>21. Apart(toBroker', toClient')
  <2>1. Apart(toBroker, toClient) /\ Unique(toClient)
    BY DEF Fit, Apart
  <2>2. \A k \in Elems(T), l \in Elems(toBroker) \cup Elems(toClient) : k.pub # l.pub
    BY <1>20 DEF Wire
  <2>3. Apart(toBroker \o T, toClient)
    BY <1>11, <1>17, <2>1, <2>2, ApartSend
  <2> QED
    BY <1>1, <2>3
<1>22. \A m \in L : m.qos \in 1..2
  BY <1>3 DEF Listed, OutMsg
<1>23. ASSUME NEW k \in Elems(toBroker') \cup Elems(toClient') PROVE Owned(k)'
  <2>1. CASE k \in Elems(T)
    <3>1. PICK m \in L : k.pub = m.pub /\ k.qos = m.qos /\ m \in M /\ Sent(m)
      BY <1>19, <2>1
    <3>2. k.qos # 0
      BY <1>22, <3>1
    <3> QED
      BY <1>1, <3>1, <3>2 DEF Owned, Sent, M
  <2>2. CASE k \in Wire /\ k.qos = 0
    <3>1. \A m \in L : m.pub # k.pub
      BY <2>2 DEF Fit, Owned
    <3>2. \A m \in M : m.pub # k.pub
      BY <1>12, <3>1 DEF Rewrites
    <3> QED
      BY <1>1, <2>2, <3>2 DEF Owned, M
  <2>3. CASE k \in Wire /\ k.qos # 0
    <3>1. PICK m \in L : m.pub = k.pub /\ m.qos = k.qos /\ Sent(m)
      BY <2>3 DEF Fit, Owned
    <3>2. m \in M
      BY <1>13, <1>15, <3>1
    <3> QED
      BY <1>1, <2>3, <3>1, <3>2 DEF Owned, Sent, M
  <2> QED
    BY <1>18, <2>1, <2>2, <2>3 DEF Wire
<1>24. ASSUME NEW y \in M
       PROVE  /\ y.state \in Late \/ Held(y.pub) => Sent(y) /\ Older(M, y) < E.maximum
              /\ y.state \in Late => Taken(y.pub)
  <2>1. PICK x \in L : y = g[x] /\ y.pub = x.pub
    BY <1>12 DEF Rewrites
  <2>2. y.state \in Late => x = y
    BY <1>12, <2>1 DEF Late
  <2>3. ASSUME x.state \in Late \/ Held(x.pub) PROVE Sent(y) /\ Older(M, y) < E.maximum
    <3>1. Sent(x) /\ Older(L, x) < msgs_out.maximum
      BY <2>3 DEF Fit, Lively
    <3>2. y = x /\ Older(M, y) = Older(L, x)
      BY <1>13, <1>15, <2>1, <3>1
    <3> QED
      BY <1>2, <1>6, <1>14, <3>1, <3>2
  <2> QED
    BY <2>1, <2>2, <2>3 DEF Fit, Outcomes
<1>25. ASSUME NEW s \in msgs_in.inflight PROVE \E m \in M : m.pub = s.pub
  <2>1. PICK x \in L : x.pub = s.pub
    BY DEF Fit, Backed
  <2> QED
    BY <1>12, <1>13, <2>1 DEF Rewrites
<1>26. \A p \in confirmed' : Settled(p) /\ p <= published' /\ \A m \in M : m.pub # p
  BY <1>1, <1>12 DEF Fit, Outcomes, Rewrites
<1>27. ASSUME NEW k \in Elems(T) PROVE Asked(k)
  <2>1. PICK m \in L : /\ k.pub = m.pub /\ k.qos = m.qos
                       /\ k.type = "PUBLISH" \/ (k.type = "PUBREL" /\ m.state \in Late)
    BY <1>19
  <2>2. m.state \in Late => m.qos = 2 /\ Taken(m.pub)
    BY DEF Shape, Fit, Outcomes
  <2> QED
    BY <2>1, <2>2 DEF Asked
<1>28. published \in Nat /\ refused \subseteq Nat /\ published <= published' /\ published' \in Nat
  BY <1>1, Counted
<1>29. /\ UNCHANGED brokerVars /\ msgs_out' = E /\ conn' # "none" /\ M = E.inflight
       /\ Elems(toClient') \subseteq Elems(toClient)
       /\ \A k \in Elems(toBroker') : k \in Elems(toBroker) \/ Asked(k)
  BY <1>1, <1>18, <1>27 DEF M
<1> QED
  BY <1>7, <1>21, <1>23, <1>24, <1>25, <1>26, <1>28, <1>29, FitClient

\* E is the list of the client after a message was appended or deleted; what is
\* deleted is nowhere else.
Edits(E) ==
    /\ Sender(E) /\ E.maximum = msgs_out.maximum
    /\ \A m \in E.inflight :
          \/ m \in msgs_out.inflight /\ Older(E.inflight, m) <= Older(msgs_out.inflight, m)
          \/ published < m.pub /\ m.state = "invalid"
    /\ \A m \in msgs_out.inflight :
          \/ m \in E.inflight
          \/ /\ ~Held(m.pub)
             /\ \A k \in Elems(toBroker) \cup Elems(toClient') : k.pub # m.pub
    /\ \A p \in confirmed' :
          Settled(p) /\ p <= published' /\ \A m \in E.inflight : m.pub # p

\* The messages of R, which were not sent yet, are marked as sent in M.
Waits(R, E) == R \subseteq E.inflight /\ \A m \in R : m.state = "invalid"

Marked(E, M, R) ==
    /\ \A y \in M :
          /\ y.state \in Late \/ Held(y.pub) => Sent(y) /\ Older(M, y) < E.maximum
          /\ y.state \in Late => Taken(y.pub)
    /\ \A s \in msgs_in.inflight : \E y \in M : y.pub = s.pub
    /\ \A p \in confirmed' :
          Settled(p) /\ p <= published' /\ \A y \in M : y.pub # p
    /\ \A m \in msgs_out.inflight : Sent(m) /\ m \in E.inflight => m \in M
    /\ \A y \in M : \E m \in E.inflight : m.pub = y.pub
    /\ \A m \in R : \E y \in M : /\ y.pub = m.pub /\ y.qos = m.qos
                                 /\ y.state \in {"wait_for_puback", "wait_for_pubrec"}

LEMMA EditsLaunched ==
    ASSUME Shape, Core, Fit, NEW E, Edits(E), NEW M, NEW R, Waits(R, E),
           Launches(E.inflight, M, R)
    PROVE  Marked(E, M, R)
<1> DEFINE K == E.inflight
           L == msgs_out.inflight
<1>1. Listed(K) /\ Listed(L) /\ published \in Nat
  BY Counted DEF Edits, Shape, Sender, Lists
<1>0. R \subseteq K /\ \A m \in R : m.state = "invalid"
  BY DEF Waits
<1>2. PICK g : /\ Rewrites(K, M, g)
               /\ \A m \in K : IF m \in R
                    THEN g[m].state = IF m.qos = 1 THEN "wait_for_puback" ELSE "wait_for_pubrec"
                    ELSE g[m] = m
  BY DEF Launches
<1>3. \A m \in K : g[m] \in M /\ Older(M, g[m]) = Older(K, m)
  BY <1>1, <1>2, RewriteKept
<1>4. /\ \A m \in K : Older(K, m) \in Nat
      /\ \A m \in L : Older(L, m) \in Nat
  BY <1>1, ListOrder
<1>5. \A m \in K : Held(m.pub) => m \in L
  <2> SUFFICES ASSUME NEW m \in K, Held(m.pub), m \notin L PROVE FALSE
    OBVIOUS
  <2>1. published < m.pub /\ m.pub \in Nat
    BY <1>1, SenderAssumption DEF Edits, Listed, OutMsg
  <2>2. m.pub <= published
    BY DEF Held, Core, Numbers, Stored
  <2> QED
    BY <1>1, <2>1, <2>2
<1>6. ASSUME NEW y \in M
      PROVE  /\ y.state \in Late \/ Held(y.pub) => Sent(y) /\ Older(M, y) < E.maximum
             /\ y.state \in Late => Taken(y.pub)
  <2>1. PICK x \in K : y = g[x] /\ y.pub = x.pub
    BY <1>2 DEF Rewrites
  <2>2. y.state \in Late => x = y /\ x \in L
    <3> SUFFICES ASSUME y.state \in Late PROVE x = y /\ x \in L
      OBVIOUS
    <3>1. x \notin R
      BY <1>2, <2>1 DEF Late
    <3>2. x = y
      BY <1>2, <2>1, <3>1
    <3> QED
      BY <3>2 DEF Edits, Late
  <2>3. ASSUME x \in L, x.state \in Late \/ Held(x.pub)
        PROVE  Sent(y) /\ Older(M, y) < E.maximum
    <3>1. Sent(x) /\ Older(L, x) < msgs_out.maximum
      BY <2>3 DEF Fit, Lively
    <3>2. x \notin R
      BY <1>0, <3>1 DEF Sent
    <3>3. y = x /\ Older(M, y) = Older(K, x)
      BY <1>2, <1>3, <2>1, <3>2
    <3>4. Older(K, x) <= Older(L, x)
      <4>1. published < x.pub => FALSE
        BY <1>1, <2>3, Counted DEF Shape
      <4> QED
        BY <4>1 DEF Edits
    <3>5. msgs_out.maximum \in Nat /\ E.maximum = msgs_out.maximum
      BY DEF Shape, TypeOK, Edits
    <3> QED
      BY <1>4, <2>3, <3>1, <3>3, <3>4, <3>5
  <2>4. x \in L /\ x.state \in Late => Taken(x.pub)
    BY DEF Fit, Outcomes
  <2> QED
    BY <1>5, <2>1, <2>2, <2>3, <2>4
<1>7. ASSUME NEW s \in msgs_in.inflight PROVE \E y \in M : y.pub = s.pub
  <2>1. PICK x \in L : x.pub = s.pub
    BY DEF Fit, Backed
  <2>2. x \in K
    BY <2>1 DEF Edits, Held
  <2> QED
    BY <1>2, <1>3, <2>1, <2>2 DEF Rewrites
<1>8. \A y \in M : \E m \in K : m.pub = y.pub
  BY <1>2 DEF Rewrites
<1>9. \A p \in confirmed' : Settled(p) /\ p <= published' /\ \A y \in M : y.pub # p
  BY <1>8 DEF Edits
<1>10. ASSUME NEW m \in L, Sent(m), m \in K PROVE m \in M
  BY <1>0, <1>2, <1>3, <1>10 DEF Sent
<1>11. ASSUME NEW m \in R
       PROVE  \E y \in M : /\ y.pub = m.pub /\ y.qos = m.qos
                           /\ y.state \in {"wait_for_puback", "wait_for_pubrec"}
  <2>1. m \in K
    BY <1>0
  <2>2. g[m] \in M /\ g[m].pub = m.pub /\ g[m].qos = m.qos
    BY <1>2, <1>3, <2>1 DEF Rewrites
  <2>3. g[m].state \in {"wait_for_puback", "wait_for_pubrec"}
    BY <1>2, <2>1
  <2> QED
    BY <2>2, <2>3
<1> QED
  BY <1>6, <1>7, <1>8, <1>9, <1>10, <1>11 DEF Marked

\* message__release_to_inflight after a message was appended or deleted.
LEMMA FitReleased ==
    ASSUME Shape, Core, Fit, NEW E, Edits(E), Front(E), UNCHANGED <<brokerVars, conn>>,
           conn # "none", published' \in Nat, published <= published',
           msgs_out' = Released(E), toBroker' = toBroker \o ReleasedPackets(E),
           toClient' \in Seq(Packet(Pubs)), Unique(toClient'),
           Elems(toClient') \subseteq Elems(toClient)
    PROVE  Fit'
<1> DEFINE K == E.inflight
           L == msgs_out.inflight
           R == Unsent(E, E.quota)
           M == Released(E).inflight
           T == ReleasedPackets(E)
<1>1. Sender(E) /\ E.quota \in Nat /\ Listed(K) /\ Listed(L)
  BY DEF Edits, Sender, Lists, Shape
<1>2. R = Unsent(E, E.quota)
  OBVIOUS
<1>3. R \in SUBSET K /\ Listed(R) /\ \A m \in R : m.state = "invalid"
  BY <1>1, UnsentFirst
<1>4. Unique(T)
  BY <1>3, UniqueList DEF ReleasedPackets
<1>5. Front(Released(E))
  BY <1>1, FrontReleased
<1> HIDE DEF R
<1>6. /\ Released(E).maximum = E.maximum /\ Launches(K, M, R)
      /\ T \in Seq(Packet(Pubs)) /\ Elems(T) = {PublishPacket(m) : m \in R}
  BY <1>1, <1>2, ReleasedKept
<1> HIDE DEF M, T, K
<1>7. Marked(E, M, R)
  <2>1. Waits(R, E) /\ Launches(E.inflight, M, R)
    BY <1>3, <1>6 DEF Waits, K
  <2> QED
    BY <2>1, EditsLaunched
<1>8. /\ \A m \in L : Sent(m) /\ m \in K => m \in M
      /\ \A y \in M : \E m \in K : m.pub = y.pub
      /\ \A m \in R : \E y \in M : /\ y.pub = m.pub /\ y.qos = m.qos
                                   /\ y.state \in {"wait_for_puback", "wait_for_pubrec"}
  BY <1>7 DEF Marked, K
<1>9. toBroker \in Seq(Packet(Pubs)) /\ toClient \in Seq(Packet(Pubs))
  BY DEF Shape, TypeOK
<1>10. Elems(toBroker') = Elems(toBroker) \cup Elems(T)
  BY <1>6, <1>9, ConcatElems DEF T
<1>11. \A m \in L : m.pub \in Nat /\ m.pub <= published
  BY Counted DEF Shape
<1>12. published \in Nat /\ \A k \in Wire : k.pub \in Nat /\ k.pub <= published
  <2>1. \A k \in Elems(toBroker) \cup Elems(toClient) : k \in Packet(Pubs)
    BY <1>9, ElemsType
  <2> QED
    BY <2>1, Counted DEF Core, Numbers, Wire, Packet
<1>13. \A m \in K : m.pub \in Nat /\ (m \in L \/ published < m.pub)
  <2>1. \A m \in K : m \in L \/ published < m.pub
    BY DEF Edits, K
  <2>2. \A m \in K : m.pub \in Nat
    BY <1>1, SenderAssumption DEF Listed, OutMsg
  <2> QED
    BY <2>1, <2>2
<1>14. ASSUME NEW k \in Wire, k.qos = 0, NEW m \in K PROVE m.pub # k.pub
  <2>1. \A x \in L : x.pub # k.pub
    BY <1>14 DEF Fit, Owned
  <2> QED
    BY <1>12, <1>13, <2>1
<1>15. ASSUME NEW k \in Elems(toBroker) \cup Elems(toClient'), k.qos # 0
       PROVE  \E m \in L : /\ m \in K /\ m.pub = k.pub /\ m.qos = k.qos /\ Sent(m)
                           /\ conn \in {"connecting", "accepted"} =>
                                 m.state \in {"wait_for_puback", "wait_for_pubrec"}
  <2>1. k \in Wire
    BY <1>15 DEF Wire
  <2>2. PICK m \in L : /\ m.pub = k.pub /\ m.qos = k.qos /\ Sent(m)
                       /\ conn \in {"connecting", "accepted"} =>
                             m.state \in {"wait_for_puback", "wait_for_pubrec"}
    BY <1>15, <2>1 DEF Fit, Owned
  <2>3. m \in K
    BY <1>15, <2>2 DEF Edits, K
  <2> QED
    BY <2>2, <2>3
<1>16. \A m \in R : m.qos \in 1..2
  BY <1>3 DEF Listed, OutMsg
<1>17. ASSUME NEW k \in Elems(T)
       PROVE  \E m \in R : k.pub = m.pub /\ k.qos = m.qos /\ k.type = "PUBLISH"
  BY <1>6 DEF PublishPacket
<1>18. ASSUME NEW k \in Elems(toBroker') \cup Elems(toClient') PROVE Owned(k)'
  <2>1. CASE k \in Elems(T)
    <3>1. PICK m \in R : k.pub = m.pub /\ k.qos = m.qos
      BY <1>17, <2>1
    <3>2. PICK y \in M : /\ y.pub = m.pub /\ y.qos = m.qos
                         /\ y.state \in {"wait_for_puback", "wait_for_pubrec"}
      BY <1>8
    <3>3. k.qos # 0 /\ Sent(y)
      BY <1>16, <3>1, <3>2, SMTT(30) DEF Sent
    <3> QED
      BY <3>1, <3>2, <3>3 DEF Owned, Sent, M
  <2>2. CASE k \in Elems(toBroker) \cup Elems(toClient') /\ k.qos = 0
    <3>1. k \in Wire
      BY <2>2 DEF Wire
    <3>2. \A m \in M : m.pub # k.pub
      BY <1>8, <1>14, <2>2, <3>1
    <3> QED
      BY <2>2, <3>2 DEF Owned, M
  <2>3. CASE k \in Elems(toBroker) \cup Elems(toClient') /\ k.qos # 0
    <3>1. PICK m \in L : /\ m \in K /\ m.pub = k.pub /\ m.qos = k.qos /\ Sent(m)
                         /\ conn \in {"connecting", "accepted"} =>
                               m.state \in {"wait_for_puback", "wait_for_pubrec"}
      BY <1>15, <2>3
    <3>2. m \in M
      BY <1>8, <3>1
    <3> QED
      BY <2>3, <3>1, <3>2 DEF Owned, Sent, M
  <2> QED
    BY <1>10, <2>1, <2>2, <2>3
<1>19. ASSUME NEW k \in Elems(T), NEW l \in Elems(toBroker) \cup Elems(toClient')
       PROVE  k.pub # l.pub
  <2>1. PICK m \in R : k.pub = m.pub
    BY <1>17
  <2>2. m \in K /\ ~Sent(m)
    BY <1>3, <2>1 DEF Sent
  <2>3. CASE l.qos = 0
    <3>1. l \in Wire
      BY DEF Wire
    <3> QED
      BY <1>14, <2>1, <2>2, <2>3, <3>1
  <2>4. CASE l.qos # 0
    <3>1. PICK n \in L : n \in K /\ n.pub = l.pub /\ Sent(n)
      BY <1>15, <2>4
    <3>2. n # m /\ \A x, y \in K : x.pub = y.pub => x = y
      BY <1>1, <2>2, <3>1 DEF Listed
    <3> QED
      BY <2>1, <2>2, <3>1, <3>2
  <2> QED
    BY <2>3, <2>4
<1>20. Apart(toBroker', toClient')
  <2>1. Apart(toBroker, toClient)
    BY DEF Fit
  <2>2. Apart(toBroker \o T, toClient')
    BY <1>4, <1>6, <1>9, <1>19, <2>1, ApartSend
  <2> QED
    BY <2>2 DEF T
<1>21. \A k \in Elems(toBroker') : k \in Elems(toBroker) \/ Asked(k)
  BY <1>10, <1>17 DEF Asked
<1>22. /\ UNCHANGED brokerVars /\ refused \subseteq Nat /\ conn' # "none"
       /\ M = msgs_out'.inflight /\ msgs_out'.maximum = E.maximum /\ Front(msgs_out')
  BY <1>5, <1>6, Counted DEF M
<1>23. /\ \A y \in M :
             /\ y.state \in Late \/ Held(y.pub) => Sent(y) /\ Older(M, y) < E.maximum
             /\ y.state \in Late => Taken(y.pub)
       /\ \A s \in msgs_in.inflight : \E y \in M : y.pub = s.pub
       /\ \A p \in confirmed' :
             Settled(p) /\ p <= published' /\ \A y \in M : y.pub # p
  BY <1>7 DEF Marked
<1> QED
  BY <1>23, <1>12, <1>18, <1>20, <1>21, <1>22, FitClient

\* mosquitto_publish.
LEMMA FitPublish ==
    ASSUME Shape, Core, Fit, AppPublish
    PROVE  Fit'
<1>1. PICK qos \in QosLevels : ClientPublish(qos) /\ UNCHANGED brokerVars
  BY DEF AppPublish
<1> DEFINE p == published + 1
           e == [pub |-> p, mid |-> MidOf(p), qos |-> qos, state |-> "invalid"]
           D == [msgs_out EXCEPT !.inflight = @ \cup {e}]
           L == msgs_out.inflight
<1>2. /\ published < MaxPublish /\ published' = p /\ published \in Nat
      /\ UNCHANGED <<conn, confirmed, toClient>> /\ refused \subseteq Nat
  BY <1>1, Counted DEF ClientPublish
<1>3. p \in Pubs /\ p \in Nat /\ published < p /\ published <= p /\ published' \in Nat
  BY <1>2, SenderAssumption
<1>4. /\ Listed(L) /\ Sender(msgs_out) /\ \A m \in L : m.pub \in Nat /\ m.pub < p
      /\ toBroker \in Seq(Packet(Pubs)) /\ toClient \in Seq(Packet(Pubs))
  BY <1>2, <1>3, Counted, SMTT(30) DEF Shape, TypeOK, Sender, Lists
<1>5. \A k \in Wire : k.pub \in Nat /\ k.pub <= published
  <2>1. \A k \in Elems(toBroker) \cup Elems(toClient) : k \in Packet(Pubs)
    BY <1>4, ElemsType
  <2> QED
    BY <2>1, SenderAssumption DEF Core, Numbers, Wire, Packet
<1>6. \A c \in confirmed' : Settled(c) /\ c <= published /\ c <= published'
                            /\ \A m \in L : m.pub # c
  <2>1. \A c \in confirmed : c \in Nat
    BY SenderAssumption DEF Shape, TypeOK
  <2> QED
    BY <1>2, <1>3, <2>1 DEF Fit, Outcomes
<1>7. /\ \A m \in L : /\ m.state \in Late \/ Held(m.pub) =>
                            Sent(m) /\ Older(L, m) < msgs_out.maximum
                      /\ m.state \in Late => Taken(m.pub)
      /\ \A s \in msgs_in.inflight : \E m \in L : m.pub = s.pub
      /\ Apart(toBroker, toClient) /\ Unique(toClient)
  BY DEF Fit, Lively, Outcomes, Backed, Apart
<1>8. ASSUME msgs_out' = msgs_out, toBroker' = toBroker PROVE Fit'
  <2>1. \A k : Owned(k)' <=> Owned(k)
    BY <1>2, <1>8 DEF Owned
  <2>2. \A k \in Elems(toBroker') \cup Elems(toClient') : Owned(k)'
    BY <1>2, <1>8, <2>1 DEF Fit, Wire
  <2>3. /\ conn' = "none" => Elems(toBroker') \cup Elems(toClient') = {}
        /\ conn' # "none" => Front(msgs_out')
        /\ Apart(toBroker', toClient') /\ Elems(toClient') \subseteq Elems(toClient)
        /\ \A k \in Elems(toBroker') : k \in Elems(toBroker)
    BY <1>2, <1>7, <1>8 DEF Fit, Wire
  <2> QED
    BY <1>1, <1>2, <1>3, <1>6, <1>7, <1>8, <2>2, <2>3, FitClient
<1>9. CASE qos = 0 /\ conn = "none"
  BY <1>1, <1>8, <1>9 DEF ClientPublish
<1>10. CASE qos = 0 /\ conn # "none"
  <2>0. PICK k : k = PublishPacket(e)
    OBVIOUS
  <2> DEFINE T == <<k>>
  <2>1. msgs_out' = msgs_out /\ toBroker' = Append(toBroker, k)
    BY <1>1, <1>10, <2>0 DEF ClientPublish
  <2>2. /\ k.pub = p /\ k.qos = 0 /\ k.type = "PUBLISH" /\ k \in Packet(Pubs)
    BY <1>3, <1>10, <2>0, MidRange, SenderAssumption DEF PublishPacket, Packet, PacketTypes
  <2>3. toBroker' = toBroker \o T
    BY <1>4, <2>1, <2>2
  <2>4. T = <<k>> /\ Unique(T)
    BY UniqueSmall
  <2> HIDE DEF T
  <2>5. T \in Seq(Packet(Pubs)) /\ Elems(T) = {k}
    BY <2>2, <2>4, SingleElem
  <2>6. Elems(toBroker') = Elems(toBroker) \cup {k}
    BY <1>4, <2>3, <2>5, ConcatElems
  <2>7. \A y \in Elems(T), l \in Elems(toBroker) \cup Elems(toClient) : y.pub # l.pub
    BY <1>2, <1>3, <1>5, <2>2, <2>5 DEF Wire
  <2>8. Apart(toBroker', toClient')
    <3>1. Apart(toBroker \o T, toClient)
      BY <1>4, <1>7, <2>4, <2>5, <2>7, ApartSend
    <3> QED
      BY <1>2, <2>3, <3>1
  <2>9. \A y : Owned(y) => Owned(y)'
    BY <1>2, <2>1 DEF Owned
  <2>10. Owned(k)'
    <3>1. \A m \in L : m.pub # k.pub
      BY <1>4, <1>3, <2>2
    <3> QED
      BY <2>1, <2>2, <3>1 DEF Owned
  <2>11. \A y \in Elems(toBroker') \cup Elems(toClient') : Owned(y)'
    BY <1>2, <2>6, <2>9, <2>10 DEF Fit, Wire
  <2>12. /\ conn' # "none" /\ Front(msgs_out') /\ Elems(toClient') \subseteq Elems(toClient)
         /\ \A y \in Elems(toBroker') : y \in Elems(toBroker) \/ Asked(y)
    BY <1>2, <1>10, <2>1, <2>2, <2>6 DEF Fit, Asked
  <2> QED
    BY <1>1, <1>2, <1>3, <1>6, <1>7, <2>1, <2>8, <2>11, <2>12, FitClient
<1>11. ASSUME qos # 0
       PROVE  /\ e \in OutMsg /\ Sender(D) /\ D.inflight = L \cup {e}
              /\ D.quota = msgs_out.quota /\ D.maximum = msgs_out.maximum /\ Edits(D)
  <2>1. e \in OutMsg /\ e.pub = p /\ e.state = "invalid"
    BY <1>3, <1>11, MidRange, SenderAssumption DEF OutMsg, OutStates
  <2> HIDE DEF e
  <2>2. Listed(L \cup {e}) /\ \A m \in L : Older(L \cup {e}, m) = Older(L, m)
    BY <1>4, <2>1, AddKept
  <2>3. /\ D \in [inflight : SUBSET OutMsg, quota : Nat, maximum : Nat]
        /\ D.inflight = L \cup {e} /\ D.quota = msgs_out.quota
        /\ D.maximum = msgs_out.maximum
    BY <1>4, <2>1 DEF Sender, Lists
  <2>4. Sender(D)
    BY <1>4, <2>2, <2>3 DEF Sender, Lists
  <2> HIDE DEF D
  <2>5. \A m \in L : Older(L, m) <= Older(L, m)
    <3>1. \A m \in L : Older(L, m) \in Nat
      BY <1>4, ListOrder
    <3> QED
      BY <3>1
  <2>6. \A c \in confirmed' : c # p
    BY <1>3, <1>2, <1>6
  <2>7. Edits(D)
    BY <1>3, <1>6, <2>1, <2>2, <2>3, <2>4, <2>5, <2>6 DEF Edits
  <2> QED
    BY <2>1, <2>3, <2>4, <2>7
<1>12. CASE qos # 0 /\ conn # "none"
  <2>1. msgs_out' = Released(D) /\ toBroker' = toBroker \o ReleasedPackets(D)
    BY <1>1, <1>12 DEF ClientPublish
  <2>2. Front(msgs_out) /\ e.pub = p /\ e.state = "invalid"
    BY <1>12 DEF Fit
  <2> HIDE DEF e, D
  <2>3. Front(D)
    BY <1>4, <1>11, <1>12, <2>2, FrontAdded
  <2> QED
    BY <1>1, <1>2, <1>3, <1>4, <1>7, <1>11, <1>12, <2>1, <2>3, FitReleased
<1>13. CASE qos # 0 /\ conn = "none"
  <2> DEFINE R == Unsent(D, IF D.quota > 0 THEN 1 ELSE 0)
             M == Launch(D, R).inflight
  <2>1. msgs_out' = Launch(D, R) /\ toBroker' = toBroker
    BY <1>1, <1>13 DEF ClientPublish, Stranded
  <2> HIDE DEF e, D
  <2>2. R \in SUBSET D.inflight /\ \A m \in R : m.state = "invalid"
    BY <1>11, <1>13, UnsentFirst
  <2> HIDE DEF R
  <2>3. Launch(D, R).maximum = D.maximum /\ Launches(D.inflight, M, R)
    BY <1>11, <1>13, LaunchKept
  <2> HIDE DEF M
  <2>4. /\ \A y \in M :
              /\ y.state \in Late \/ Held(y.pub) => Sent(y) /\ Older(M, y) < D.maximum
              /\ y.state \in Late => Taken(y.pub)
        /\ \A s \in msgs_in.inflight : \E y \in M : y.pub = s.pub
        /\ \A c \in confirmed' :
              Settled(c) /\ c <= published' /\ \A y \in M : y.pub # c
    <3>1. Waits(R, D) /\ Edits(D)
      BY <1>11, <1>13, <2>2 DEF Waits
    <3>2. Marked(D, M, R)
      BY <2>3, <3>1, EditsLaunched
    <3> QED
      BY <3>2 DEF Marked
  <2>5. Elems(toBroker') = {} /\ Elems(toClient') = {} /\ Apart(toBroker', toClient')
    <3>1. Wire = {}
      BY <1>13 DEF Fit
    <3> QED
      BY <1>2, <1>7, <2>1, <3>1 DEF Wire
  <2>6. M = msgs_out'.inflight /\ msgs_out'.maximum = D.maximum /\ conn' = "none"
    BY <1>2, <1>13, <2>1, <2>3 DEF M
  <2> QED
    BY <1>1, <1>2, <1>3, <2>4, <2>5, <2>6, FitClient
<1> QED
  BY <1>9, <1>10, <1>12, <1>13

\* The message an acknowledgement is about: message__delete and
\* message__out_update find it by its id.
LEMMA Acknowledged ==
    ASSUME Shape, Core, Fit, toClient # <<>>, NEW pkt, pkt = Head(toClient)
    PROVE  /\ pkt \in Packet(Pubs) /\ pkt \in Elems(toClient) /\ Truthful(pkt)
           /\ \E r \in msgs_out.inflight :
                 /\ r.pub = pkt.pub /\ r.qos = pkt.qos /\ Sent(r)
                 /\ FirstWith(msgs_out.inflight, pkt.mid) = {r}
<1> DEFINE L == msgs_out.inflight
<1>1. pkt \in Packet(Pubs) /\ pkt \in Elems(toClient)
  BY TailElems DEF Shape, TypeOK
<1>2. Truthful(pkt) /\ Owned(pkt)
  BY <1>1 DEF Fit, Wire
<1>3. pkt.qos # 0
  BY <1>2 DEF Truthful
<1>4. PICK r \in L : r.pub = pkt.pub /\ r.qos = pkt.qos /\ Sent(r)
  BY <1>2, <1>3 DEF Owned
<1>5. pkt.mid = pkt.pub /\ \A m \in L : m.mid = m.pub
  BY <1>1 DEF Core, Numbers, Wire
<1>6. \A m \in L : m.mid = pkt.mid <=> m = r
  BY <1>4, <1>5 DEF Shape, Sender, Lists, Listed
<1>7. r.pub <= r.pub
  BY <1>4, Counted
<1>8. FirstWith(L, pkt.mid) = {r}
  BY <1>4, <1>6, <1>7 DEF FirstWith
<1> QED
  BY <1>1, <1>2, <1>4, <1>8

\* What is read is of no other packet on the way.
LEMMA ReadApart ==
    ASSUME Shape, Fit, toClient # <<>>
    PROVE  /\ Tail(toClient) \in Seq(Packet(Pubs)) /\ Unique(Tail(toClient))
           /\ Elems(Tail(toClient)) \subseteq Elems(toClient)
           /\ \A k \in Elems(toBroker) \cup Elems(Tail(toClient)) :
                 k.pub # Head(toClient).pub
<1>1. toClient \in Seq(Packet(Pubs)) /\ Unique(toClient)
  BY DEF Shape, TypeOK, Fit, Apart
<1>2. /\ Head(toClient) \in Elems(toClient) /\ Tail(toClient) \in Seq(Packet(Pubs))
      /\ Elems(Tail(toClient)) \subseteq Elems(toClient)
  BY <1>1, TailElems
<1>3. Unique(Tail(toClient)) /\ \A k \in Elems(Tail(toClient)) : k.pub # Head(toClient).pub
  BY <1>1, UniqueTail
<1> QED
  BY <1>2, <1>3 DEF Fit, Apart

\* A publication that is done is deleted, and nothing of it is left.
LEMMA FitCompleted ==
    ASSUME Shape, Core, Fit, toClient # <<>>, conn # "none",
           NEW D, D = [msgs_out EXCEPT !.quota = RaiseSend(msgs_out)],
           NEW r \in msgs_out.inflight, r.pub = Head(toClient).pub, Sent(r),
           ~Held(r.pub), Settled(r.pub), Complete(D, {r}), UNCHANGED <<brokerVars, published>>
    PROVE  Fit'
<1> DEFINE L == msgs_out.inflight
           K == L \ {r}
           E == [D EXCEPT !.inflight = @ \ {r}]
<1>1. /\ msgs_out' = Released(E) /\ toBroker' = toBroker \o ReleasedPackets(E)
      /\ confirmed' = confirmed \cup {m.pub : m \in {r}}
      /\ toClient' = Tail(toClient) /\ UNCHANGED conn
  BY DEF Complete
<1>2. Sender(msgs_out) /\ Listed(L) /\ msgs_out.quota \in Nat /\ msgs_out.maximum \in Nat
      /\ msgs_out \in [inflight : SUBSET OutMsg, quota : Nat, maximum : Nat]
  BY DEF Shape, Sender, Lists
<1>3. /\ E = [inflight |-> K, quota |-> RaiseSend(msgs_out), maximum |-> msgs_out.maximum]
      /\ E.inflight = K /\ E.quota = RaiseSend(msgs_out) /\ E.maximum = msgs_out.maximum
  <2> DEFINE q == RaiseSend(msgs_out)
  <2> HIDE DEF q
  <2>1. D = [inflight |-> L, quota |-> q, maximum |-> msgs_out.maximum]
    BY <1>2 DEF q
  <2>2. E = [D EXCEPT !.inflight = K]
    BY <2>1
  <2> HIDE DEF K, E
  <2>3. E = [inflight |-> K, quota |-> q, maximum |-> msgs_out.maximum]
    BY <2>1, <2>2
  <2> QED
    BY <2>3 DEF q
<1> HIDE DEF E
<1>4. Sender(E)
  <2>1. K \in SUBSET msgs_out.inflight
    OBVIOUS
  <2> QED
    BY <1>2, <1>3, <2>1, RaiseKept
<1>5. Front(E)
  <2>1. Front(msgs_out)
    BY DEF Fit
  <2> QED
    BY <1>2, <1>3, <2>1, FrontCompleted
<1>6. /\ Tail(toClient) \in Seq(Packet(Pubs)) /\ Unique(Tail(toClient))
      /\ Elems(Tail(toClient)) \subseteq Elems(toClient)
      /\ \A k \in Elems(toBroker) \cup Elems(Tail(toClient)) : k.pub # r.pub
  BY ReadApart
<1>7. Edits(E)
  <2>1. \A m \in K : m \in L /\ Older(K, m) <= Older(L, m)
    <3>1. K \in SUBSET L
      OBVIOUS
    <3> QED
      BY <1>2, <3>1, PartKept
  <2>2. \A p \in confirmed' :
           Settled(p) /\ p <= published' /\ \A m \in K : m.pub # p
    <3>1. \A p \in confirmed :
             Settled(p) /\ p <= published' /\ \A m \in K : m.pub # p
      BY DEF Fit, Outcomes
    <3>2. r.pub <= published' /\ \A m \in K : m.pub # r.pub
      BY <1>2 DEF Shape, Listed
    <3> QED
      BY <1>1, <3>1, <3>2
  <2>3. \A m \in L :
          \/ m \in K
          \/ /\ ~Held(m.pub)
             /\ \A k \in Elems(toBroker) \cup Elems(toClient') : k.pub # m.pub
    BY <1>1, <1>6
  <2> HIDE DEF K
  <2> QED
    BY <1>3, <1>4, <2>1, <2>2, <2>3 DEF Edits
<1>8. published' \in Nat /\ published <= published'
  BY Counted
<1> QED
  BY <1>1, <1>5, <1>6, <1>7, <1>8, FitReleased

\* handle__pubrec: the message waits for its PUBCOMP.
LEMMA FitPubrec ==
    ASSUME Shape, Core, Fit, toClient # <<>>, conn = "active",
           ClientPubrec(Head(toClient)), UNCHANGED <<brokerVars, published>>
    PROVE  Fit'
<1>0. PICK pkt : pkt = Head(toClient)
  OBVIOUS
<1> DEFINE L == msgs_out.inflight
<1>1. /\ pkt \in Packet(Pubs) /\ Truthful(pkt)
      /\ \E r \in L : /\ r.pub = pkt.pub /\ r.qos = pkt.qos /\ Sent(r)
                      /\ FirstWith(L, pkt.mid) = {r}
  BY <1>0, Acknowledged
<1>2. PICK r \in L : /\ r.pub = pkt.pub /\ r.qos = pkt.qos /\ Sent(r)
                     /\ FirstWith(L, pkt.mid) = {r}
  BY <1>1
<1>3. pkt.type = "PUBREC" /\ confirmed' = confirmed
  BY <1>0 DEF ClientPubrec
<1>4. pkt.qos = 2 /\ Taken(pkt.pub)
  BY <1>1, <1>3 DEF Truthful
<1> DEFINE e == [r EXCEPT !.state = "wait_for_pubcomp"]
           M == (L \ {r}) \cup {e}
           g == [m \in L |-> IF m = r THEN e ELSE m]
           T == <<Answer(pkt, "PUBREL")>>
<1>5. /\ msgs_out' = [msgs_out EXCEPT !.inflight = M]
      /\ toBroker' = Append(toBroker, Answer(pkt, "PUBREL"))
      /\ toClient' = Tail(toClient) /\ UNCHANGED conn
  BY <1>0, <1>2, <1>4 DEF ClientPubrec
<1>6. /\ Listed(L) /\ msgs_out.quota \in Nat /\ msgs_out.maximum \in Nat /\ r \in OutMsg
      /\ msgs_out \in [inflight : SUBSET OutMsg, quota : Nat, maximum : Nat]
      /\ toBroker \in Seq(Packet(Pubs)) /\ toClient \in Seq(Packet(Pubs))
  BY DEF Shape, TypeOK, Sender, Lists, Listed
<1>7. e \in OutMsg /\ e.pub = r.pub /\ e.mid = r.mid /\ e.qos = r.qos
      /\ e.state = "wait_for_pubcomp"
  BY <1>6 DEF OutMsg, OutStates
<1> HIDE DEF e
<1>8. msgs_out'.inflight = M /\ msgs_out'.quota = msgs_out.quota
      /\ msgs_out'.maximum = msgs_out.maximum
  BY <1>5, <1>6
<1>9. Rewrites(L, M, g)
  <2>1. \A m \in L : m \in OutMsg
    BY <1>6 DEF Listed
  <2>2. g \in [L -> OutMsg]
    BY <1>7, <2>1
  <2>3. M = {g[m] : m \in L}
    BY <1>2
  <2> QED
    BY <1>7, <2>2, <2>3 DEF Rewrites
<1>10. /\ \A m \in L : g[m] \in M /\ Older(M, g[m]) = Older(L, m)
       /\ Listed(M)
  <2> HIDE DEF g, M
  <2> QED
    BY <1>6, <1>9, RewriteKept
<1>11. /\ e \in M /\ Older(M, e) = Older(L, r)
       /\ \A m \in L : m # r => m \in M /\ Older(M, m) = Older(L, m)
  BY <1>2, <1>10
<1>12. \A y \in M : y = e \/ (y \in L /\ y # r)
  OBVIOUS
<1> HIDE DEF M, g
<1>13. \A m \in L : Older(L, m) \in Nat /\ (Sent(m) => Older(L, m) < msgs_out.maximum - msgs_out.quota)
  BY <1>6, ListOrder DEF Fit, Front
<1>14. Front(msgs_out')
  <2> SUFFICES ASSUME NEW y \in M, Sent(y)
               PROVE  Older(M, y) < msgs_out.maximum - msgs_out.quota
    BY <1>8 DEF Front
  <2>1. CASE y = e
    BY <1>2, <1>11, <1>13, <2>1
  <2>2. CASE y \in L /\ y # r
    BY <1>11, <1>13, <2>2
  <2> QED
    BY <1>12, <2>1, <2>2
<1>15. ASSUME NEW y \in M
       PROVE  /\ y.state \in Late \/ Held(y.pub) =>
                    Sent(y) /\ Older(M, y) < msgs_out.maximum
              /\ y.state \in Late => Taken(y.pub)
  <2>1. CASE y = e
    <3>1. Sent(y) /\ Taken(y.pub)
      BY <1>2, <1>4, <1>7, <2>1 DEF Sent
    <3>2. Older(M, y) < msgs_out.maximum
      BY <1>2, <1>6, <1>11, <1>13, <2>1
    <3> QED
      BY <3>1, <3>2
  <2>2. CASE y \in L /\ y # r
    BY <1>11, <2>2 DEF Fit, Lively, Outcomes
  <2> QED
    BY <1>12, <2>1, <2>2
<1>16. ASSUME NEW s \in msgs_in.inflight PROVE \E m \in M : m.pub = s.pub
  <2>1. PICK x \in L : x.pub = s.pub
    BY DEF Fit, Backed
  <2> QED
    BY <1>7, <1>11, <2>1
<1>17. \A p \in confirmed' : Settled(p) /\ p <= published' /\ \A m \in M : m.pub # p
  BY <1>3, <1>7, <1>12 DEF Fit, Outcomes
<1>18. /\ Tail(toClient) \in Seq(Packet(Pubs)) /\ Unique(Tail(toClient))
       /\ Elems(Tail(toClient)) \subseteq Elems(toClient)
       /\ \A k \in Elems(toBroker) \cup Elems(Tail(toClient)) : k.pub # pkt.pub
  BY <1>0, ReadApart
<1>19. PICK l : l = Answer(pkt, "PUBREL")
  OBVIOUS
<1>20. l \in Packet(Pubs) /\ l.type = "PUBREL" /\ l.pub = pkt.pub /\ l.qos = 2
  <2>1. "PUBREL" \in PacketTypes
    BY DEF PacketTypes
  <2> QED
    BY <1>1, <1>4, <1>19, <2>1, AnswerType
<1>21. T = <<l>> /\ toBroker' = toBroker \o T
  BY <1>5, <1>6, <1>19, <1>20
<1> HIDE DEF T
<1>22. T \in Seq(Packet(Pubs)) /\ Elems(T) = {l} /\ Unique(T)
  BY <1>20, <1>21, SingleElem, UniqueSmall
<1>23. Elems(toBroker') = Elems(toBroker) \cup {l}
  <2>1. toBroker' = toBroker \o T
    BY <1>21
  <2>2. Elems(toBroker \o T) = Elems(toBroker) \cup Elems(T)
    BY <1>6, <1>22, ConcatElems
  <2> QED
    BY <1>22, <2>1, <2>2
<1>24. Apart(toBroker', toClient')
  <2>1. Apart(toBroker, toClient)
    BY DEF Fit
  <2>2. \A k \in Elems(T), x \in Elems(toBroker) \cup Elems(Tail(toClient)) : k.pub # x.pub
    BY <1>18, <1>20, <1>22
  <2>3. Apart(toBroker \o T, Tail(toClient))
    BY <1>6, <1>18, <1>22, <2>1, <2>2, ApartSend
  <2> QED
    BY <1>5, <1>21, <2>3
<1>25. ASSUME NEW k \in Elems(toBroker') \cup Elems(toClient') PROVE Owned(k)'
  <2>1. CASE k = l
    <3>1. k.qos # 0 /\ e.pub = k.pub /\ e.qos = k.qos /\ Sent(e)
      BY <1>2, <1>4, <1>7, <1>20, <2>1 DEF Sent
    <3>2. conn' = "active"
      BY <1>5
    <3>3. \E m \in msgs_out'.inflight : m.pub = k.pub /\ m.qos = k.qos /\ Sent(m)
      BY <1>8, <1>11, <3>1
    <3> QED
      BY <3>1, <3>2, <3>3 DEF Owned, Sent
  <2>2. CASE k # l
    <3>1. k \in Wire /\ k.pub # pkt.pub
      BY <1>5, <1>18, <1>23, <2>2 DEF Wire
    <3>2. Owned(k) /\ conn' = "active"
      BY <1>5, <3>1 DEF Fit
    <3>3. CASE k.qos = 0
      <4>1. \A m \in L : m.pub # k.pub
        BY <3>2, <3>3 DEF Owned
      <4>2. \A m \in msgs_out'.inflight : m.pub # k.pub
        BY <1>2, <1>7, <1>8, <1>12, <3>1, <4>1
      <4> QED
        BY <3>3, <4>2 DEF Owned
    <3>4. CASE k.qos # 0
      <4>1. PICK m \in L : m.pub = k.pub /\ m.qos = k.qos /\ Sent(m)
        BY <3>2, <3>4 DEF Owned
      <4>2. m \in msgs_out'.inflight
        BY <1>2, <1>8, <1>11, <3>1, <4>1
      <4> QED
        BY <3>2, <3>4, <4>1, <4>2 DEF Owned, Sent
    <3> QED
      BY <3>3, <3>4
  <2> QED
    BY <2>1, <2>2
<1>26. Asked(l)
  BY <1>4, <1>20 DEF Asked
<1>27. /\ \A k \in Elems(toBroker') : k \in Elems(toBroker) \/ Asked(k)
       /\ Elems(toClient') \subseteq Elems(toClient) /\ conn' # "none" /\ UNCHANGED brokerVars
  BY <1>5, <1>18, <1>23, <1>26
<1>28. published \in Nat /\ refused \subseteq Nat /\ published <= published' /\ published' \in Nat
  BY Counted
<1> QED
  BY <1>8, <1>14, <1>15, <1>16, <1>17, <1>24, <1>25, <1>27, <1>28, FitClient

\* An acknowledgement at the client.
LEMMA FitAcknowledged ==
    ASSUME Shape, Core, Fit, ClientReceive
    PROVE  Fit'
<1>0. PICK pkt : pkt = Head(toClient)
  OBVIOUS
<1> DEFINE L == msgs_out.inflight
           D == [msgs_out EXCEPT !.quota = RaiseSend(msgs_out)]
<1>1. /\ toClient # <<>> /\ conn = "active" /\ UNCHANGED <<brokerVars, published>>
      /\ ClientPubackcomp(pkt) \/ ClientPubrec(pkt) \/ ClientPubrecRefused(pkt)
  BY <1>0 DEF ClientReceive, ClientHandle
<1>2. /\ pkt \in Packet(Pubs) /\ pkt \in Elems(toClient) /\ Truthful(pkt)
      /\ \E r \in L : /\ r.pub = pkt.pub /\ r.qos = pkt.qos /\ Sent(r)
                      /\ FirstWith(L, pkt.mid) = {r}
  BY <1>0, <1>1, Acknowledged
<1>3. PICK r \in L : /\ r.pub = pkt.pub /\ r.qos = pkt.qos /\ Sent(r)
                     /\ FirstWith(L, pkt.mid) = {r}
  BY <1>2
<1>4. D.inflight = L
  BY DEF Shape, TypeOK
<1>5. D = [msgs_out EXCEPT !.quota = RaiseSend(msgs_out)]
  OBVIOUS
<1>6. CASE ClientPubackcomp(pkt)
  <2>1. pkt.type \in {"PUBACK", "PUBCOMP"}
    BY <1>6 DEF ClientPubackcomp
  <2>2. r.qos = IF pkt.type = "PUBACK" THEN 1 ELSE 2
    BY <1>2, <1>3 DEF Truthful
  <2>3. Complete(D, {r})
    BY <1>3, <1>4, <1>6, <2>2 DEF ClientPubackcomp
  <2>4. Settled(r.pub)
    BY <1>2, <1>3, <2>1 DEF Truthful
  <2>5. ~Held(r.pub)
    <3>1. CASE pkt.type = "PUBACK"
      <4>1. r.pub \notin exact
        BY <2>2, <3>1 DEF Core, Levels
      <4> QED
        BY <4>1 DEF Core, Levels, Held, Stored
    <3>2. CASE pkt.type = "PUBCOMP"
      BY <1>2, <1>3, <3>2 DEF Truthful
    <3> QED
      BY <2>1, <3>1, <3>2
  <2> HIDE DEF D
  <2> QED
    BY <1>0, <1>1, <1>3, <1>5, <2>3, <2>4, <2>5, FitCompleted
<1>7. CASE ClientPubrecRefused(pkt)
  <2>1. pkt.type = "PUBREC_REFUSED"
    BY <1>7 DEF ClientPubrecRefused
  <2>2. r.qos = 2 /\ Settled(r.pub) /\ r.pub \in Denied
    BY <1>2, <1>3, <2>1 DEF Truthful
  <2>3. {m \in FirstWith(D.inflight, pkt.mid) : m.qos = 2} = {r}
    BY <1>3, <1>4, <2>2
  <2>4. Complete(D, {r})
    BY <1>7, <2>3 DEF ClientPubrecRefused
  <2>5. ~Held(r.pub)
    BY <2>2 DEF Held, Fit, Backed
  <2> HIDE DEF D
  <2> QED
    BY <1>0, <1>1, <1>3, <1>5, <2>2, <2>4, <2>5, FitCompleted
<1>8. CASE ClientPubrec(pkt)
  BY <1>0, <1>1, <1>8, FitPubrec
<1> QED
  BY <1>1, <1>6, <1>7, <1>8

----------------------------------------------------------------------------
(* The invariant and what follows from it.                                 *)

LEMMA FitInit ==
    ASSUME Init
    PROVE  Fit
<1>1. /\ conn = "none" /\ msgs_out = [inflight |-> {}, quota |-> Window, maximum |-> Window]
      /\ confirmed = {} /\ refused = {} /\ toClient = <<>> /\ toBroker = <<>>
  BY DEF Init, SenderInit, IncomingInit, QueuesInit
<1>2. PICK max \in Maxima : msgs_in = NoMessages(max)
  BY DEF Init, IncomingInit
<1>3. /\ msgs_in.inflight = {} /\ msgs_in.queued = {} /\ msgs_in.quota = max
      /\ msgs_in.maximum = max /\ max \in Nat /\ msgs_out.inflight = {}
  BY <1>1, <1>2, IncomingAssumption DEF NoMessages
<1>4. Elems(toClient) = {} /\ Elems(toBroker) = {} /\ Wire = {}
  BY <1>1, EmptyElems DEF Wire
<1>5. Roomy
  <2>1. Cardinality({}) = 0
    BY FS_EmptySet
  <2> QED
    BY <1>3, <2>1 DEF Roomy
<1>6. Apart(toBroker, toClient)
  <2>1. Unique(toBroker) /\ Unique(toClient)
    BY <1>1, UniqueSmall
  <2> QED
    BY <1>4, <2>1 DEF Apart
<1>7. Lively /\ Backed /\ Outcomes
  BY <1>1, <1>3 DEF Lively, Backed, Outcomes
<1> QED
  BY <1>1, <1>4, <1>5, <1>6, <1>7 DEF Fit

LEMMA FitStep ==
    ASSUME Shape, WindowsFit, Core, Fit, [Next]_vars
    PROVE  Fit'
<1>1. CASE AppPublish
  BY <1>1, FitPublish
<1>2. CASE Lose
  BY <1>2, FitLose
<1>3. CASE Dial \/ DialFails
  BY <1>3, FitDial
<1>4. CASE BrokerConnect
  BY <1>4, FitConnect
<1>5. CASE ClientConnack
  BY <1>5, FitConnack
<1>6. CASE BrokerReceive
  BY <1>6, FitReceive
<1>7. CASE ClientReceive
  BY <1>7, FitAcknowledged
<1>8. CASE UNCHANGED vars
  <2>1. /\ UNCHANGED <<conn, msgs_out, published, confirmed, msgs_in, routed, refused,
                       toClient, toBroker>>
    BY <1>8 DEF vars, clientVars, brokerVars, channel
  <2>2. /\ (Roomy' <=> Roomy) /\ (Wire' = Wire)
        /\ Elems(toClient)' = Elems(toClient) /\ Elems(toBroker)' = Elems(toBroker)
        /\ (Front(msgs_out)' <=> Front(msgs_out))
        /\ (Apart(toBroker, toClient)' <=> Apart(toBroker, toClient))
    BY <2>1 DEF Roomy, Wire, Elems, Front, Sent, Older, Apart, Unique
  <2>3. \A p : /\ Held(p)' <=> Held(p)
               /\ Settled(p)' <=> Settled(p)
               /\ Taken(p)' <=> Taken(p)
    BY <2>1 DEF Held, Settled, Taken
  <2>4. /\ Lively' <=> Lively
        /\ Backed' <=> Backed
        /\ Outcomes' <=> Outcomes
    BY <2>1, <2>3 DEF Lively, Backed, Outcomes, Sent
  <2>5. \A k : /\ Truthful(k)' <=> Truthful(k)
               /\ Asked(k)' <=> Asked(k)
               /\ Owned(k)' <=> Owned(k)
    BY <2>1, <2>3 DEF Truthful, Asked, Owned, Sent
  <2> QED
    BY <2>1, <2>2, <2>4, <2>5 DEF Fit
<1> QED
  BY <1>1, <1>2, <1>3, <1>4, <1>5, <1>6, <1>7, <1>8 DEF Next

\* The invariant of a publisher whose window fits the broker's, until the
\* message ids wrap.
Inv == Shape /\ (published <= MidLimit /\ WindowsFit => Core /\ Fit)

LEMMA InvStep ==
    ASSUME Inv, [Next]_vars
    PROVE  Inv'
<1>1. Shape /\ Shape'
  BY ShapeStep DEF Inv
<1>2. published \in Nat /\ published' \in Nat /\ published <= published' /\ MidLimit \in Nat
  BY <1>1, PublishedGrows, SenderAssumption
<1>3. WindowsFit' <=> WindowsFit
  BY DEF WindowsFit, SendWindows
<1>4. ASSUME published' <= MidLimit, WindowsFit PROVE Core' /\ Fit'
  <2>1. Core /\ Fit
    BY <1>2, <1>4 DEF Inv
  <2>2. Remembers
    BY <1>1, <1>4, <2>1, FitRemembers
  <2> QED
    BY <1>1, <1>4, <2>1, <2>2, CoreStep, FitStep
<1> QED
  BY <1>1, <1>3, <1>4 DEF Inv

LEMMA AlwaysInv == Spec => []Inv
<1>1. Init => Inv
  BY ShapeInit, CoreInit, FitInit DEF Inv
<1>2. Inv /\ [Next]_vars => Inv'
  BY InvStep
<1> QED
  BY <1>1, <1>2, PTL DEF Spec

\* QoS 2 through lost connections, retries, refusals and windows that a CONNACK
\* or a reload changes: as long as the ids have not wrapped and either the
\* windows fit or nothing has had to wait, handle__publish and
\* db__message_release_incoming give a publication to the subscribers at most
\* once.
THEOREM RoutedAtMostOnce == Spec => []RoutedOnce
<1>1. ASSUME Shape, Core, NEW p \in exact PROVE routed[p] <= 1
  <2>1. routed \in [Pubs -> Nat] /\ p \in Pubs
    BY <1>1 DEF Shape, TypeOK
  <2>2. routed[p] > 0 => routed[p] = 1
    BY <1>1 DEF Core, Done
  <2> QED
    BY <2>1, <2>2
<1>2. Inv /\ (published <= MidLimit /\ WithinWindow => Core) => RoutedOnce
  BY <1>1 DEF Inv, RoutedOnce
<1> QED
  BY <1>2, AlwaysInv, OnceWithin, PTL

\* on_publish tells the truth: when the windows fit and the ids have not wrapped,
\* a QoS 1 or 2 publication it is called for has gone to the subscribers or was
\* refused.  (With a wider publisher it is called for a message that is still
\* queued.)
THEOREM ConfirmedIsRouted ==
    ASSUME WindowsFit, MaxPublish <= MidLimit
    PROVE  Spec => []ConfirmedRouted
<1>1. Inv => ConfirmedRouted
  <2> SUFFICES ASSUME Inv PROVE ConfirmedRouted
    OBVIOUS
  <2>1. published \in 0..MaxPublish
    BY DEF Inv, Shape, TypeOK
  <2>2. published <= MidLimit
    BY <2>1, SenderAssumption
  <2> QED
    BY <2>2 DEF Inv, Fit, Outcomes, Settled, ConfirmedRouted
<1> QED
  BY <1>1, AlwaysInv, PTL

----------------------------------------------------------------------------
(* Exactly once.                                                           *)

\* The copies the service counts.
Copies == [p \in Pubs |-> IF p \in exact THEN routed[p] ELSE 0]

\* Nothing happened that the service sees.
LEMMA NothingSeen ==
    ASSUME UNCHANGED <<exact, routed, refused, confirmed>>
    PROVE  UNCHANGED Once!onceVars
  BY DEF Once!onceVars

\* mosquitto_publish hands a QoS 2 message over.
LEMMA PublishOnce ==
    ASSUME Shape, Core, Fit, AppPublish
    PROVE  [Once!OnceNext]_(Once!onceVars)
<1>1. PICK qos \in QosLevels : ClientPublish(qos) /\ UNCHANGED brokerVars
  BY DEF AppPublish
<1>2. PICK p : p = published + 1
  OBVIOUS
<1>3. /\ published < MaxPublish /\ published \in Nat /\ MaxPublish \in Nat
      /\ UNCHANGED <<confirmed, routed, refused>>
      /\ exact' = IF qos = 2 THEN exact \cup {p} ELSE exact
  BY <1>1, <1>2, Counted, SenderAssumption DEF ClientPublish, brokerVars
<1>4. p \in Pubs /\ ~(p <= published)
  BY <1>2, <1>3
<1>5. routed \in [Pubs -> Nat] /\ exact \subseteq 1..published
  BY DEF Shape, TypeOK
<1>6. p \notin exact /\ p \notin confirmed /\ p \notin refused /\ routed[p] = 0
  BY <1>4, <1>5 DEF Fit, Outcomes, Core, Known
<1>7. CASE qos # 2
  BY <1>3, <1>7, NothingSeen
<1>8. CASE qos = 2
  <2>1. exact' = exact \cup {p}
    BY <1>3, <1>8
  <2>2. Copies' = Copies
    BY <1>3, <1>6, <2>1 DEF Copies
  <2>3. refused' \cap exact' = refused \cap exact /\ confirmed' \cap exact' = confirmed \cap exact
    BY <1>3, <1>6, <2>1
  <2>4. Once!HandOver(p)
    BY <1>6, <2>1, <2>2, <2>3 DEF Once!HandOver, Copies
  <2> QED
    BY <1>4, <2>4 DEF Once!OnceNext
<1> QED
  BY <1>7, <1>8

\* handle__publish may turn a message down.
LEMMA PublishedOnce ==
    ASSUME Shape, Core, NEW pkt \in Packet(Pubs), pkt \in Elems(toBroker), HandlePublish(pkt),
           UNCHANGED <<exact, confirmed>>
    PROVE  [Once!OnceNext]_(Once!onceVars)
<1>1. \A p \in Pubs : routed'[p] = routed[p] \/ (pkt.qos # 2 /\ p = pkt.pub)
  BY Routes
<1>2. pkt.qos = 2 <=> pkt.pub \in exact
  BY DEF Core, Levels, Wire
<1>3. \A p \in exact : p \in Pubs
  BY DEF Shape, TypeOK
<1>4. Copies' = Copies
  <2>1. \A p \in Pubs : p \in exact => routed'[p] = routed[p]
    BY <1>1, <1>2
  <2> QED
    BY <2>1 DEF Copies
<1>5. refused' = refused \/ refused' = refused \cup {pkt.pub}
  BY DEF HandlePublish, RefusePublish, AcceptPublish
<1>6. CASE refused' \cap exact = refused \cap exact
  <2>1. UNCHANGED Once!onceVars
    BY <1>4, <1>6 DEF Once!onceVars, Copies
  <2> QED
    BY <2>1
<1>7. CASE refused' \cap exact # refused \cap exact
  <2>1. pkt.pub \in exact /\ refused' = refused \cup {pkt.pub}
    BY <1>5, <1>7
  <2>2. refused' \cap exact = (refused \cap exact) \cup {pkt.pub}
    BY <2>1
  <2>3. Once!TurnDown(pkt.pub)
    BY <1>4, <2>1, <2>2 DEF Once!TurnDown, Copies
  <2> QED
    BY <1>3, <2>1, <2>3 DEF Once!OnceNext
<1> QED
  BY <1>6, <1>7

\* handle__pubrel passes the message on, before the application is told.
LEMMA ReleasedOnce ==
    ASSUME Shape, Core, Fit, NEW pkt \in Packet(Pubs), pkt \in Elems(toBroker), HandlePubrel(pkt),
           UNCHANGED <<exact, confirmed>>
    PROVE  [Once!OnceNext]_(Once!onceVars)
<1> DEFINE M == {m \in msgs_in.inflight : m.mid = pkt.mid}
<1>1. \A p \in Pubs :
         routed'[p] = IF \E m \in M : m.pub = p THEN routed[p] + 1 ELSE routed[p]
  BY Routes
<1>2. refused' = refused
  BY DEF HandlePubrel
<1>3. routed \in [Pubs -> Nat]
  BY DEF Shape, TypeOK
<1>4. CASE M = {}
  <2>1. Copies' = Copies
    BY <1>1, <1>4 DEF Copies
  <2>2. UNCHANGED Once!onceVars
    BY <1>2, <2>1 DEF Once!onceVars, Copies
  <2> QED
    BY <2>2
<1>5. CASE M # {}
  <2>1. PICK s \in msgs_in.inflight : s.mid = pkt.mid
    BY <1>5
  <2>2. PICK p : p = s.pub
    OBVIOUS
  <2>3. \A m \in M : m.pub = p
    BY <2>1, <2>2 DEF Core, Numbers, Stored
  <2>4. p \in exact /\ p \in Pubs
    BY <2>1, <2>2 DEF Core, Levels, Stored, Shape, TypeOK
  <2>5. routed[p] = 0
    <3>1. ~(routed[p] > 0)
      BY <2>1, <2>2, <2>4 DEF Core, Done, Stored
    <3> QED
      BY <1>3, <2>4, <3>1
  <2>6. p \notin confirmed
    BY <2>1, <2>2 DEF Fit, Backed, Outcomes
  <2>7. /\ routed'[p] = 1
        /\ \A q \in Pubs : q # p => routed'[q] = routed[q]
    BY <1>1, <2>1, <2>2, <2>3, <2>4, <2>5
  <2>8. Copies' = [Copies EXCEPT ![p] = 1] /\ Copies[p] = 0
    BY <2>4, <2>5, <2>7 DEF Copies
  <2>9. Once!Pass(p)
    BY <1>2, <2>4, <2>6, <2>8 DEF Once!Pass, Copies
  <2> QED
    BY <2>4, <2>9 DEF Once!OnceNext
<1> QED
  BY <1>4, <1>5

\* The client tells the application of one publication at a time.
LEMMA ToldOne ==
    ASSUME Shape, Core, Fit, ClientReceive
    PROVE  confirmed' = confirmed \/ \E p \in Pubs : confirmed' = confirmed \cup {p}
<1>0. PICK pkt : pkt = Head(toClient)
  OBVIOUS
<1> DEFINE L == msgs_out.inflight
           D == [msgs_out EXCEPT !.quota = RaiseSend(msgs_out)]
<1>1. /\ toClient # <<>>
      /\ ClientPubackcomp(pkt) \/ ClientPubrec(pkt) \/ ClientPubrecRefused(pkt)
  BY <1>0 DEF ClientReceive, ClientHandle
<1>2. \E r \in L : r.pub = pkt.pub /\ FirstWith(L, pkt.mid) = {r}
  BY <1>0, <1>1, Acknowledged
<1>3. PICK r \in L : FirstWith(L, pkt.mid) = {r}
  BY <1>2
<1>4. D.inflight = L /\ r.pub \in Pubs
  BY DEF Shape, TypeOK, OutMsg
<1>5. ASSUME NEW M \in SUBSET {r}, Complete(D, M)
      PROVE  confirmed' = confirmed \/ confirmed' = confirmed \cup {r.pub}
  <2>1. confirmed' = confirmed \cup {m.pub : m \in M}
    BY <1>5 DEF Complete
  <2>2. M = {} \/ M = {r}
    BY <1>5
  <2> QED
    BY <2>1, <2>2
<1>6. CASE ClientPubackcomp(pkt)
  BY <1>3, <1>4, <1>5, <1>6 DEF ClientPubackcomp
<1>7. CASE ClientPubrecRefused(pkt)
  <2> DEFINE M == {m \in FirstWith(D.inflight, pkt.mid) : m.qos = 2}
  <2>1. M \in SUBSET {r}
    BY <1>3, <1>4
  <2>2. Complete(D, M)
    BY <1>7 DEF ClientPubrecRefused
  <2> QED
    BY <1>4, <1>5, <2>1, <2>2
<1>8. CASE ClientPubrec(pkt)
  BY <1>8 DEF ClientPubrec
<1> QED
  BY <1>1, <1>6, <1>7, <1>8

\* An acknowledgement tells the application of what was passed on or refused.
LEMMA ToldOnce ==
    ASSUME Shape, Core, Fit, Fit', ClientReceive
    PROVE  [Once!OnceNext]_(Once!onceVars)
<1>1. UNCHANGED <<exact, routed, refused>>
  BY DEF ClientReceive, ClientHandle, brokerVars
<1>2. Copies' = Copies
  BY <1>1 DEF Copies
<1>3. CASE confirmed' \cap exact = confirmed \cap exact
  <2>1. UNCHANGED Once!onceVars
    BY <1>1, <1>2, <1>3 DEF Once!onceVars
  <2> QED
    BY <2>1
<1>4. CASE confirmed' \cap exact # confirmed \cap exact
  <2>1. PICK p \in Pubs : confirmed' = confirmed \cup {p}
    BY <1>4, ToldOne
  <2>2. p \in exact /\ confirmed' \cap exact = (confirmed \cap exact) \cup {p}
    BY <1>4, <2>1
  <2>3. Settled(p)'
    BY <2>1 DEF Fit, Outcomes
  <2>4. routed[p] > 0 \/ p \in refused
    BY <1>1, <2>3 DEF Settled
  <2>5. Copies[p] = 1 \/ p \in refused \cap exact
    BY <2>2, <2>4 DEF Copies, Core, Done
  <2>6. Once!Tell(p)
    BY <1>1, <1>2, <2>2, <2>5 DEF Once!Tell, Copies
  <2> QED
    BY <2>6 DEF Once!OnceNext
<1> QED
  BY <1>3, <1>4

\* Every step of Ingress is a step of the service or a stuttering step.
LEMMA StepOnce ==
    ASSUME Shape, Core, Fit, Fit', [Next]_vars
    PROVE  [Once!OnceNext]_(Once!onceVars)
<1>1. CASE AppPublish
  BY <1>1, PublishOnce
<1>2. CASE Lose \/ Dial \/ DialFails
  <2>1. UNCHANGED <<exact, routed, refused, confirmed>>
    BY <1>2, Zenon DEF Lose, ConnectionLost, Dial, Reconnect, DialFails, ReconnectFails, brokerVars
  <2> QED
    BY <2>1, NothingSeen
<1>3. CASE BrokerConnect \/ ClientConnack
  <2>1. UNCHANGED <<exact, routed, refused, confirmed>>
    BY <1>3 DEF BrokerConnect, HandleConnect, ClientConnack, HandleConnack, brokerVars
  <2> QED
    BY <2>1, NothingSeen
<1>4. CASE BrokerReceive
  <2>0. PICK pkt : pkt = Head(toBroker)
    OBVIOUS
  <2>1. pkt \in Packet(Pubs) /\ pkt \in Elems(toBroker) /\ UNCHANGED clientVars
    BY <1>4, <2>0, BrokerStep
  <2>2. UNCHANGED <<exact, confirmed>> /\ (HandlePublish(pkt) \/ HandlePubrel(pkt))
    BY <1>4, <2>0, <2>1 DEF BrokerReceive, BrokerHandle, clientVars
  <2> QED
    BY <2>1, <2>2, PublishedOnce, ReleasedOnce
<1>5. CASE ClientReceive
  BY <1>5, ToldOnce
<1>6. CASE UNCHANGED vars
  <2>1. UNCHANGED <<exact, routed, refused, confirmed>>
    BY <1>6 DEF vars, clientVars, brokerVars
  <2> QED
    BY <2>1, NothingSeen
<1> QED
  BY <1>1, <1>2, <1>3, <1>4, <1>5, <1>6 DEF Next

\* A publisher and the broker together implement exactly-once hand-over: the
\* lists, states, retries and acknowledgements of both ends pass a QoS 2 message
\* on once and report it only after that or after its refusal, when the windows
\* fit and the message ids do not wrap.
THEOREM ImplementsExactlyOnce ==
    ASSUME WindowsFit, MaxPublish <= MidLimit
    PROVE  Spec => ImplementsOnce
<1>1. Init => Once!OnceInit
  <2> SUFFICES ASSUME Init PROVE Once!OnceInit
    OBVIOUS
  <2>1. exact = {} /\ confirmed = {} /\ refused = {} /\ routed = [p \in Pubs |-> 0]
    BY DEF Init, SenderInit, IncomingInit
  <2> QED
    BY <2>1 DEF Once!OnceInit
<1>2. ASSUME Inv, Inv', [Next]_vars PROVE [Once!OnceNext]_(Once!onceVars)
  <2>1. published \in 0..MaxPublish /\ published' \in 0..MaxPublish
    BY <1>2 DEF Inv, Shape, TypeOK
  <2>2. published <= MidLimit /\ published' <= MidLimit
    BY <2>1, SenderAssumption
  <2>3. WindowsFit'
    BY DEF WindowsFit, SendWindows
  <2>4. Shape /\ Core /\ Fit /\ Fit'
    BY <1>2, <2>2, <2>3 DEF Inv
  <2> QED
    BY <1>2, <2>4, StepOnce
<1>3. Inv /\ Inv' /\ [Next]_vars => [Once!OnceNext]_(Once!onceVars)
  BY <1>2
<1> QED
  BY <1>1, <1>3, AlwaysInv, PTL DEF Spec, ImplementsOnce, Once!OnceSpec
============================================================================
