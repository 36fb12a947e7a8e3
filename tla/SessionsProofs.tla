--------------------------- MODULE SessionsProofs ---------------------------
(***************************************************************************)
(* Proofs about Sessions: the wills, the timers, and what refers to a      *)
(* context.                                                                *)
(*                                                                         *)
(* What must be true of one context is a predicate on values, Settled: its *)
(* fields, how often its will was sent, on which lists it is, and what the *)
(* history knows of the connection.  A helper of the broker touches one    *)
(* context (Others), so that a step is one case for that context and       *)
(* nothing new for the rest.                                               *)
(***************************************************************************)
EXTENDS Sessions, SubscriptionTreeProofs

States == {"free", "new", "active", "disconnecting", "disconnect_with_will", "duplicate",
           "disconnected", "disused"}

Leaf == [context : Conn, no_local : NoLocal]
Ref == {SubRef(f) : f \in Filters}

Context == [state : States, id : Clients \cup {NoId}, sock : BOOLEAN, v5 : BOOLEAN,
            clean : BOOLEAN, expiry : Nat, expiry_time : Nat, will : BOOLEAN, delay : Nat,
            will_time : Nat, subs : SUBSET Ref]

Mem == [context : [Conn -> Context], by_id : [Clients -> 0..MaxConn],
        expiry_list : Seq(Conn), delay_list : Seq(Conn), for_free : Seq(Conn),
        last_check : Nat, subs : Trees(Leaf), sent : [Conn -> Nat]]

Logs == [Conn -> [client : Clients \cup {NoId}, will : BOOLEAN,
                  end : {"none", "open", "clean", "lost", "taken", "down"}]]

\* A later connection of the same client.
Later(l, c) == \E e \in Conn : e > c /\ l[e].client = l[c].client

\* x is a context whose will was sent n times; it is on the list of sessions that
\* expire (ex), of delayed wills (de), of contexts to free (fr).  r is what the
\* history knows, later, whether the client has connected again, and k the number
\* of restarts.
Settled(x, n, ex, de, fr, r, later, k) ==
    /\ x.state \in {"free", "new", "active", "disconnected", "disused"}
    /\ x.state = "free" => x = FreeContext /\ ~fr
    /\ x.state = "new" => k > 0
    /\ x.state = "active" <=> x.sock
    /\ x.id = NoId => ~x.will /\ ~x.sock /\ (x.state # "free" => fr)
    /\ fr \/ x.state = "disused" => x.id = NoId
    /\ ~x.will => x.delay = 0
    /\ ex \/ de => ~x.sock /\ x.id # NoId
    /\ ex => x.expiry # 0
    /\ de <=> x.will /\ ~x.sock
    /\ /\ x.id # NoId /\ ~x.sock /\ x.state # "new"
       /\ x.expiry # Never \/ ClientExpiry # 0
       => ex \/ (x.expiry = 0 /\ de)
    /\ n <= 1 /\ (x.will => n = 0)
    /\ x.id # NoId => r.client = x.id /\ ~later
    /\ x.sock => x.will = r.will
    /\ r.client = NoId => x.state = "free" /\ n = 0
    /\ r.end = "clean" => n = 0 /\ ~x.will
    /\ r.client # NoId /\ r.will /\ r.end = "lost" => n > 0 \/ de \/ later

\* A client id leads to the one context that has it.
Named(d) ==
    /\ \A i \in Clients : d.by_id[i] # 0 => d.context[d.by_id[i]].id = i
    /\ \A c \in Conn : d.context[c].id # NoId => d.by_id[d.context[c].id] = c

\* The sessions that expire are in the order of their times.
Ordered(list, context) ==
    \A i, j \in DOMAIN list : i < j => context[list[i]].expiry_time <= context[list[j]].expiry_time

Timers(d) ==
    /\ IsInjective(d.expiry_list) /\ IsInjective(d.delay_list)
    /\ Ordered(d.expiry_list, d.context)
    /\ \A c \in Range(d.expiry_list) : d.context[c].expiry_time >= d.last_check

\* The list of a context names the places where it has its leaf.
Filed(d) ==
    /\ Neat(d.subs) /\ \A c \in Conn : IsFiniteSet(d.context[c].subs)
    /\ \A r \in Place : /\ OneEach(At(d.subs, r))
                         /\ \A c \in Conn : r \in d.context[c].subs <=> c \in Holders(At(d.subs, r))

Good(d) == d \in Mem /\ Timers(d) /\ Filed(d)

\* The contexts of F wait to be freed.
Sound(d, F, l, k) ==
    /\ Good(d) /\ F \subseteq Conn /\ Named(d)
    /\ \A c \in Conn : Settled(d.context[c], d.sent[c], c \in Range(d.expiry_list),
                               c \in Range(d.delay_list), c \in F, l[c], Later(l, c), k)

\* Connections are numbered from one.
Numbered(l) ==
    \A c, e \in Conn : e < c /\ l[c].client # NoId => l[e].client # NoId

\* What the file holds.
Stored == [filter : Filters, no_local : NoLocal]
Disk(saved) ==
    /\ DOMAIN saved \subseteq Clients
    /\ \A i \in DOMAIN saved : saved[i].expiry \in Nat /\ saved[i].subs \in SUBSET Stored /\ IsFiniteSet(saved[i].subs)

Inv ==
    /\ Sound(db, Range(db.for_free), log, crash) /\ IsInjective(db.for_free)
    /\ log \in Logs /\ Numbered(log) /\ now \in Nat /\ db.last_check <= now /\ crash \in 0..MaxCrash
    /\ Disk(disk)
----------------------------------------------------------------------------
(* Lists in order.                                                         *)

\* How far a condition holds from the front of a list.
LEMMA FrontLength ==
    ASSUME NEW N \in Nat, NEW P
    PROVE  LET n == Cardinality({i \in 1..N : \A j \in 1..i : j \in P})
           IN  n \in 0..N /\ (\A j \in 1..n : j \in P) /\ (n < N => n + 1 \notin P)
<1> DEFINE I == {i \in 1..N : \A j \in 1..i : j \in P}
           T == {n \in 0..N : n + 1 \notin I}
<1>1. N \in T /\ T \subseteq Nat
  OBVIOUS
<1>2. PICK n \in T : \A k \in T : n <= k
  <2> HIDE DEF T
  <2> QED
    BY <1>1, CleanLoop!LeastNat
<1>3. n \in 0..N /\ n + 1 \notin I
  OBVIOUS
<1>4. ASSUME NEW i \in 1..n PROVE i \in I
  <2>1. i - 1 \in 0..N /\ i - 1 < n /\ (i - 1) + 1 = i
    BY <1>3
  <2>2. ASSUME i - 1 \in T PROVE FALSE
    <3>1. n <= i - 1
      BY <1>2, <2>2
    <3> QED
      BY <1>3, <2>1, <3>1
  <2> QED
    BY <2>1, <2>2
<1>5. \A j \in 1..n : j \in P
  <2> SUFFICES ASSUME NEW j \in 1..n PROVE j \in P
    OBVIOUS
  <2>1. j \in I /\ j \in 1..j
    BY <1>3, <1>4
  <2> QED
    BY <2>1
<1>6. n < N => n + 1 \notin P
  <2> SUFFICES ASSUME n < N, n + 1 \in P PROVE FALSE
    OBVIOUS
  <2>1. n + 1 \in 1..N /\ \A j \in 1..(n + 1) : j \in 1..n \/ j = n + 1
    BY <1>3
  <2> QED
    BY <1>3, <1>5, <2>1
<1>7. ASSUME NEW i \in I PROVE i \in 1..n
  <2>1. i \in 1..N /\ \A j \in 1..i : j \in P
    OBVIOUS
  <2>2. CASE i > n
    <3>1. n < N /\ n + 1 \in 1..i
      BY <1>3, <2>1, <2>2
    <3> QED
      BY <1>6, <2>1, <3>1
  <2> QED
    BY <1>3, <2>1, <2>2
<1>8. I = 1..n
  BY <1>4, <1>7
<1>9. Cardinality(1..n) = n
  <2>1. n \in Int /\ 1 \in Int /\ n - 1 + 1 = n
    BY <1>3
  <2> QED
    BY <1>3, <2>1, FS_Interval
<1> HIDE DEF T
<1>10. Cardinality(I) = n
  BY <1>8, <1>9
<1> QED
  BY <1>3, <1>5, <1>6, <1>10

\* An element put in the middle of a list.
PutAfter(s, n, c) == SubSeq(s, 1, n) \o <<c>> \o SubSeq(s, n + 1, Len(s))

\* t is s with c put behind its first n elements.
IsPutIn(t, s, n, c) ==
    /\ Len(t) = Len(s) + 1
    /\ \A i \in 1..(Len(s) + 1) : t[i] = IF i <= n THEN s[i] ELSE IF i = n + 1 THEN c ELSE s[i - 1]

LEMMA PutIn ==
    ASSUME NEW S, NEW s \in Seq(S), NEW c \in S, NEW n \in 0..Len(s)
    PROVE  PutAfter(s, n, c) \in Seq(S) /\ IsPutIn(PutAfter(s, n, c), s, n, c)
<1>0. Len(s) \in Nat
  BY LenProperties
<1> DEFINE a == SubSeq(s, 1, n)
           b == SubSeq(s, n + 1, Len(s))
           ac == a \o <<c>>
           t == ac \o b
<1>1. a \in Seq(S) /\ Len(a) = n /\ \A i \in 1..n : a[i] = s[i]
  BY Cut
<1>2. b \in Seq(S) /\ Len(b) = Len(s) - n /\ \A i \in 1..(Len(s) - n) : b[i] = s[n + i]
  <2>1. /\ n + 1 \in 1..(Len(s) + 1) /\ Len(s) \in 0..Len(s) /\ n + 1 <= Len(s) + 1
        /\ Len(s) - (n + 1) + 1 = Len(s) - n
        /\ \A i \in Int : (n + 1) + i - 1 = n + i
    BY <1>0, SMTT(30)
  <2>2. /\ b \in Seq(S) /\ Len(b) = Len(s) - (n + 1) + 1
        /\ \A i \in 1..(Len(s) - (n + 1) + 1) : b[i] = s[(n + 1) + i - 1]
    BY <2>1, Part, ZenonT(60)
  <2> HIDE DEF b
  <2>3. ASSUME NEW i \in 1..(Len(s) - n) PROVE b[i] = s[n + i]
    <3>1. i \in 1..(Len(s) - (n + 1) + 1)
      BY <2>1
    <3>2. b[i] = s[(n + 1) + i - 1]
      BY <2>2, <3>1
    <3>3. (n + 1) + i - 1 = n + i
      BY <2>1
    <3> QED
      BY <3>2, <3>3
  <2> QED
    BY <2>1, <2>2, <2>3
<1>3. <<c>> \in Seq(S) /\ Len(<<c>>) = 1 /\ <<c>>[1] = c
  OBVIOUS
<1> HIDE DEF a, b
<1>4. /\ ac \in Seq(S) /\ Len(ac) = n + 1
      /\ \A i \in 1..(n + 1) : ac[i] = IF i <= n THEN a[i] ELSE <<c>>[i - n]
  BY <1>1, <1>3, ConcatProperties
<1>5. \A i \in 1..(n + 1) : ac[i] = IF i <= n THEN s[i] ELSE c
  <2> SUFFICES ASSUME NEW i \in 1..(n + 1) PROVE ac[i] = IF i <= n THEN s[i] ELSE c
    OBVIOUS
  <2>1. CASE i <= n
    BY <1>0, <1>1, <1>4, <2>1
  <2>2. CASE ~(i <= n)
    <3>1. i - n = 1
      BY <1>0, <2>2
    <3> QED
      BY <1>3, <1>4, <2>2, <3>1
  <2> QED
    BY <2>1, <2>2
<1> HIDE DEF ac
<1>6. /\ t \in Seq(S) /\ Len(t) = Len(ac) + Len(b)
      /\ \A i \in 1 .. Len(ac) + Len(b) : t[i] = IF i <= Len(ac) THEN ac[i] ELSE b[i - Len(ac)]
  BY <1>2, <1>4, ConcatProperties
<1>7. Len(ac) + Len(b) = Len(s) + 1
  BY <1>0, <1>2, <1>4
<1> HIDE DEF t
<1>8. ASSUME NEW i \in 1..(Len(s) + 1)
      PROVE  t[i] = IF i <= n THEN s[i] ELSE IF i = n + 1 THEN c ELSE s[i - 1]
  <2>1. t[i] = IF i <= n + 1 THEN ac[i] ELSE b[i - (n + 1)]
    BY <1>4, <1>6, <1>7
  <2>2. CASE i <= n + 1
    <3>1. i \in 1..(n + 1)
      BY <1>0, <2>2
    <3>2. ac[i] = IF i <= n THEN s[i] ELSE c
      BY <1>5, <3>1
    <3> QED
      BY <1>0, <2>1, <2>2, <3>1, <3>2
  <2>3. CASE ~(i <= n + 1)
    <3>1. i - (n + 1) \in 1..(Len(s) - n) /\ n + (i - (n + 1)) = i - 1 /\ ~(i <= n) /\ i # n + 1
      BY <1>0, <2>3
    <3>2. b[i - (n + 1)] = s[i - 1]
      BY <1>2, <3>1
    <3> QED
      BY <2>1, <2>3, <3>1, <3>2
  <2> QED
    BY <2>2, <2>3
<1>9. t \in Seq(S) /\ Len(t) = Len(s) + 1
  BY <1>6, <1>7
<1>10. t \in Seq(S) /\ IsPutIn(t, s, n, c)
  BY <1>8, <1>9 DEF IsPutIn
<1>11. PutAfter(s, n, c) = t
  BY DEF PutAfter, t, ac, a, b
<1> QED
  BY <1>10, <1>11

Sorted(list, key) == \A i, j \in DOMAIN list : i < j => key[list[i]] <= key[list[j]]

\* DL_INSERT_INORDER.
LEMMA InsertKeeps ==
    ASSUME NEW s \in Seq(Conn), IsInjective(s), NEW c \in Conn, c \notin Range(s),
           NEW key \in [Conn -> Nat]
    PROVE  LET t == InsertInOrder(s, c, key)
           IN  /\ t \in Seq(Conn) /\ IsInjective(t) /\ Range(t) = Range(s) \cup {c}
               /\ Sorted(s, key) => Sorted(t, key)
<1>0. Len(s) \in Nat /\ DOMAIN s = 1..Len(s) /\ \A i \in 1..Len(s) : s[i] \in Conn
  BY LenProperties, ElementOfSeq
<1> DEFINE P == {j \in 1..Len(s) : key[s[j]] < key[c]}
           n == Cardinality({i \in 1..Len(s) : \A j \in 1..i : j \in P})
           t == InsertInOrder(s, c, key)
<1>1. n \in 0..Len(s) /\ (\A j \in 1..n : j \in P) /\ (n < Len(s) => n + 1 \notin P)
  <2> HIDE DEF P
  <2> QED
    BY <1>0, FrontLength
<1>2. {i \in DOMAIN s : \A j \in 1..i : key[s[j]] < key[c]} = {i \in 1..Len(s) : \A j \in 1..i : j \in P}
  <2>1. \A i \in 1..Len(s) : \A j \in 1..i : j \in 1..Len(s)
    BY <1>0, SMTT(30)
  <2> QED
    BY <1>0, <2>1
<1>3. t = PutAfter(s, n, c)
  BY <1>2 DEF InsertInOrder, PutAfter
<1>4. \A j \in 1..n : key[s[j]] < key[c]
  BY <1>1
<1>5. n < Len(s) => ~(key[s[n + 1]] < key[c])
  BY <1>0, <1>1
<1> HIDE DEF n, P
<1>6. /\ t \in Seq(Conn) /\ Len(t) = Len(s) + 1
      /\ \A i \in 1..(Len(s) + 1) : t[i] = IF i <= n THEN s[i] ELSE IF i = n + 1 THEN c ELSE s[i - 1]
  <2> DEFINE v == PutAfter(s, n, c)
  <2>1. n \in 0..Len(s)
    BY <1>1
  <2>2. v \in Seq(Conn) /\ IsPutIn(v, s, n, c)
    BY <2>1, PutIn
  <2> HIDE DEF t
  <2>3. t = v
    BY <1>3
  <2> HIDE DEF v
  <2>4. t \in Seq(Conn) /\ IsPutIn(t, s, n, c)
    BY <2>2, <2>3
  <2> QED
    BY <2>4 DEF IsPutIn
<1> HIDE DEF t
<1>7. DOMAIN t = 1..(Len(s) + 1)
  BY <1>6, LenProperties
<1>8. ASSUME NEW i \in DOMAIN t
      PROVE  \/ i <= n /\ i \in DOMAIN s /\ t[i] = s[i]
             \/ i = n + 1 /\ t[i] = c
             \/ i > n + 1 /\ i - 1 \in DOMAIN s /\ t[i] = s[i - 1]
  <2>1. i \in 1..(Len(s) + 1) /\ n \in 0..Len(s)
    BY <1>1, <1>7
  <2>2. t[i] = IF i <= n THEN s[i] ELSE IF i = n + 1 THEN c ELSE s[i - 1]
    BY <1>6, <2>1
  <2>3. CASE i <= n
    BY <1>0, <2>1, <2>2, <2>3
  <2>4. CASE i = n + 1
    BY <1>0, <2>1, <2>2, <2>4
  <2>5. CASE i > n + 1
    <3>1. i - 1 \in 1..Len(s) /\ ~(i <= n) /\ i # n + 1
      BY <1>0, <2>1, <2>5
    <3> QED
      BY <1>0, <2>2, <2>5, <3>1
  <2> QED
    BY <1>0, <2>1, <2>3, <2>4, <2>5
<1>9. \A i \in DOMAIN s : s[i] # c
  BY DEF Range
<1>10. IsInjective(t)
  <2> SUFFICES ASSUME NEW i \in DOMAIN t, NEW j \in DOMAIN t, t[i] = t[j] PROVE i = j
    BY DEF IsInjective
  <2>1. i \in Nat /\ j \in Nat /\ n \in Nat
    BY <1>0, <1>1, <1>7
  <2>2. \A x, y \in DOMAIN s : s[x] = s[y] => x = y
    BY DEF IsInjective
  <2> QED
    BY <1>8, <1>9, <2>1, <2>2, SMTT(30)
<1>11. Range(t) = Range(s) \cup {c}
  <2>1. Range(t) \subseteq Range(s) \cup {c}
    BY <1>8 DEF Range
  <2>2. c \in Range(t)
    <3>1. n + 1 \in DOMAIN t /\ t[n + 1] = c
      BY <1>0, <1>1, <1>6, <1>7
    <3> QED
      BY <3>1 DEF Range
  <2>3. ASSUME NEW i \in DOMAIN s PROVE s[i] \in Range(t)
    <3>1. CASE i <= n
      <4>1. i \in DOMAIN t /\ t[i] = s[i]
        BY <1>0, <1>1, <1>6, <1>7, <3>1, SMTT(30)
      <4> QED
        BY <4>1 DEF Range
    <3>2. CASE ~(i <= n)
      <4>1. i + 1 \in DOMAIN t /\ ~(i + 1 <= n) /\ i + 1 # n + 1 /\ (i + 1) - 1 = i
        BY <1>0, <1>1, <1>7, <3>2, SMTT(30)
      <4>2. t[i + 1] = s[i]
        BY <1>6, <1>7, <4>1
      <4> QED
        BY <4>1, <4>2 DEF Range
    <3> QED
      BY <3>1, <3>2
  <2> QED
    BY <2>1, <2>2, <2>3 DEF Range
<1>12. ASSUME Sorted(s, key) PROVE Sorted(t, key)
  <2> SUFFICES ASSUME NEW i \in DOMAIN t, NEW j \in DOMAIN t, i < j PROVE key[t[i]] <= key[t[j]]
    BY DEF Sorted
  <2>1. \A x, y \in DOMAIN s : x < y => key[s[x]] <= key[s[y]]
    BY <1>12 DEF Sorted
  <2>2. i \in Nat /\ j \in Nat /\ n \in Nat /\ key[c] \in Nat /\ \A x \in DOMAIN s : key[s[x]] \in Nat
    BY <1>0, <1>1, <1>7
  <2>3. ASSUME NEW x \in DOMAIN s, x > n PROVE key[c] <= key[s[x]]
    <3>1. n + 1 \in DOMAIN s /\ n < Len(s)
      BY <1>0, <1>1, <2>3
    <3>2. key[c] <= key[s[n + 1]]
      BY <1>5, <2>2, <3>1
    <3>3. key[s[n + 1]] <= key[s[x]]
      <4>1. CASE x = n + 1
        BY <2>2, <3>1, <4>1
      <4>2. CASE x # n + 1
        <5>1. n + 1 < x
          BY <1>0, <2>2, <2>3, <4>2
        <5> QED
          BY <2>1, <3>1, <5>1
      <4> QED
        BY <4>1, <4>2
    <3> QED
      BY <2>2, <3>1, <3>2, <3>3
  <2>4. ASSUME NEW x \in DOMAIN s, x <= n PROVE key[s[x]] <= key[c]
    <3>1. x \in 1..n
      BY <1>0, <2>2, <2>4
    <3> QED
      BY <1>4, <2>2, <3>1
  <2>5. CASE i <= n /\ i \in DOMAIN s /\ t[i] = s[i]
    BY <1>8, <2>1, <2>2, <2>4, <2>5, SMTT(30)
  <2>6. CASE i = n + 1 /\ t[i] = c
    <3>1. j > n + 1 /\ j - 1 \in DOMAIN s /\ t[j] = s[j - 1] /\ j - 1 > n
      BY <1>8, <2>2, <2>6
    <3> QED
      BY <2>3, <2>6, <3>1
  <2>7. CASE i > n + 1 /\ i - 1 \in DOMAIN s /\ t[i] = s[i - 1]
    <3>1. j > n + 1 /\ j - 1 \in DOMAIN s /\ t[j] = s[j - 1] /\ i - 1 < j - 1
      BY <1>8, <2>2, <2>7, SMTT(30)
    <3> QED
      BY <2>1, <2>7, <3>1
  <2> QED
    BY <1>8, <2>5, <2>6, <2>7
<1> QED
  BY <1>6, <1>10, <1>11, <1>12 DEF t
----------------------------------------------------------------------------
(* The parts of the broker's memory.                                       *)

\* E has the same tables as d, as far as the wills and timers are concerned.
SameTables(d, E) ==
    /\ E.by_id = d.by_id /\ E.for_free = d.for_free
    /\ E.last_check = d.last_check /\ E.subs = d.subs
SameLists(d, E) == E.expiry_list = d.expiry_list /\ E.delay_list = d.delay_list

LEMMA MemParts ==
    ASSUME NEW d \in Mem
    PROVE  /\ d = [context |-> d.context, by_id |-> d.by_id, expiry_list |-> d.expiry_list,
                   delay_list |-> d.delay_list, for_free |-> d.for_free,
                   last_check |-> d.last_check, subs |-> d.subs, sent |-> d.sent]
           /\ d.context \in [Conn -> Context] /\ d.by_id \in [Clients -> 0..MaxConn]
           /\ d.expiry_list \in Seq(Conn) /\ d.delay_list \in Seq(Conn) /\ d.for_free \in Seq(Conn)
           /\ d.last_check \in Nat /\ d.subs \in Trees(Leaf) /\ d.sent \in [Conn -> Nat]
<1> USE DEF Mem
<1>1. d.context \in [Conn -> Context] /\ d.by_id \in [Clients -> 0..MaxConn]
  OBVIOUS
<1>2. d.expiry_list \in Seq(Conn) /\ d.delay_list \in Seq(Conn) /\ d.for_free \in Seq(Conn)
  OBVIOUS
<1>3. d.last_check \in Nat /\ d.subs \in Trees(Leaf) /\ d.sent \in [Conn -> Nat]
  OBVIOUS
<1> QED
  BY <1>1, <1>2, <1>3

LEMMA ContextParts ==
    ASSUME NEW x \in Context
    PROVE  /\ x = [state |-> x.state, id |-> x.id, sock |-> x.sock, v5 |-> x.v5, clean |-> x.clean,
                   expiry |-> x.expiry, expiry_time |-> x.expiry_time, will |-> x.will,
                   delay |-> x.delay, will_time |-> x.will_time, subs |-> x.subs]
           /\ x.state \in States /\ x.id \in Clients \cup {NoId} /\ x.sock \in BOOLEAN /\ x.v5 \in BOOLEAN
           /\ x.clean \in BOOLEAN /\ x.expiry \in Nat /\ x.expiry_time \in Nat /\ x.will \in BOOLEAN
           /\ x.delay \in Nat /\ x.will_time \in Nat /\ x.subs \in SUBSET Ref
BY DEF Context

\* One context is replaced.
LEMMA NewContext ==
    ASSUME NEW d, Good(d), NEW c \in Conn, NEW x \in Context, x.subs = d.context[c].subs,
           c \in Range(d.expiry_list) => x.expiry_time = d.context[c].expiry_time
    PROVE  LET E == [d EXCEPT !.context[c] = x]
           IN  /\ Good(E) /\ SameTables(d, E) /\ SameLists(d, E) /\ E.sent = d.sent
               /\ E.context = [d.context EXCEPT ![c] = x]
<1> DEFINE E == [d EXCEPT !.context[c] = x]
<1>1. d \in Mem
  BY DEF Good
<1>2. [d.context EXCEPT ![c] = x] \in [Conn -> Context]
  BY <1>1, MemParts
<1>3. /\ SameTables(d, E) /\ SameLists(d, E) /\ E.sent = d.sent
      /\ E.context = [d.context EXCEPT ![c] = x]
  BY <1>1 DEF Mem, SameTables, SameLists
<1>4. E \in Mem
  BY <1>1, <1>2 DEF Mem
<1> HIDE DEF E
<1>5. \A e \in Conn : E.context[e] = IF e = c THEN x ELSE d.context[e]
  BY <1>1, <1>3, MemParts
<1>6. \A e \in Range(d.expiry_list) : e \in Conn /\ E.context[e].expiry_time = d.context[e].expiry_time
  <2>1. Range(d.expiry_list) \subseteq Conn
    BY <1>1, MemParts, RangeOfSeq
  <2> QED
    BY <1>5, <2>1
<1>7. Timers(E)
  <2>1. Ordered(E.expiry_list, E.context)
    BY <1>3, <1>6 DEF Good, Timers, Ordered, SameLists, Range
  <2> QED
    BY <1>3, <1>6, <2>1 DEF Good, Timers, SameLists, SameTables
<1>8. Filed(E)
  <2>1. \A e \in Conn : E.context[e].subs = d.context[e].subs
    BY <1>5
  <2> QED
    BY <1>3, <2>1 DEF Good, Filed, SameTables
<1> QED
  BY <1>3, <1>4, <1>7, <1>8 DEF E, Good

\* A helper of the broker is about one context, c.
Only(d, E, c) ==
    /\ Good(E) /\ E.last_check = d.last_check
    /\ \A e \in Conn : e # c =>
          /\ E.context[e] = d.context[e] /\ E.sent[e] = d.sent[e]
          /\ e \in Range(E.expiry_list) <=> e \in Range(d.expiry_list)
          /\ e \in Range(E.delay_list) <=> e \in Range(d.delay_list)

\* What neither a will nor a timer changes in a context.
Like(x, y) ==
    /\ x.id = y.id /\ x.sock = y.sock /\ x.v5 = y.v5 /\ x.clean = y.clean /\ x.subs = y.subs
    /\ x.expiry = y.expiry

LEMMA OnlyTwice ==
    ASSUME NEW d, NEW E, NEW G, NEW c, Only(d, E, c), Only(E, G, c)
    PROVE  Only(d, G, c)
BY DEF Only

\* The facts that make Only of a change to the fields about one context.
LEMMA OnlyHere ==
    ASSUME NEW d, Good(d), NEW E \in Mem, NEW c \in Conn, E.last_check = d.last_check, E.subs = d.subs,
           \A e \in Conn : e # c => E.context[e] = d.context[e] /\ E.sent[e] = d.sent[e],
           E.context[c].subs = d.context[c].subs,
           c \in Range(d.expiry_list) => E.context[c].expiry_time = d.context[c].expiry_time,
           E.expiry_list = d.expiry_list, IsInjective(E.delay_list),
           \A e \in Conn : e # c => (e \in Range(E.delay_list) <=> e \in Range(d.delay_list))
    PROVE  Only(d, E, c)
<1>1. d \in Mem /\ Range(d.expiry_list) \subseteq Conn
  BY MemParts, RangeOfSeq DEF Good
<1>2. \A e \in Range(d.expiry_list) : E.context[e].expiry_time = d.context[e].expiry_time
  BY <1>1
<1>3. Ordered(E.expiry_list, E.context)
  BY <1>2 DEF Good, Timers, Ordered, Range
<1>4. Timers(E)
  BY <1>2, <1>3 DEF Good, Timers
<1>5. \A e \in Conn : E.context[e].subs = d.context[e].subs
  OBVIOUS
<1>6. Filed(E)
  BY <1>5 DEF Good, Filed
<1> QED
  BY <1>4, <1>6 DEF Only, Good

LEMMA WillClearDoes ==
    ASSUME NEW d, Good(d), NEW c \in Conn, ~d.context[c].will => d.context[c].delay = 0
    PROVE  LET E == WillClear(d, c)
           IN  /\ Only(d, E, c) /\ SameTables(d, E) /\ SameLists(d, E) /\ E.sent = d.sent
               /\ Like(E.context[c], d.context[c]) /\ E.context[c].state = d.context[c].state
               /\ E.context[c].expiry_time = d.context[c].expiry_time
               /\ E.context[c].will = FALSE /\ E.context[c].delay = 0
<1> DEFINE E == WillClear(d, c)
           x == d.context[c]
           y == [x EXCEPT !.will = FALSE, !.delay = 0]
<1>1. d \in Mem /\ x \in Context
  BY MemParts DEF Good
<1>2. CASE ~x.will
  <2>1. E = d
    BY <1>2 DEF WillClear
  <2>2. x.will = FALSE
    BY <1>1, <1>2, ContextParts
  <2> QED
    BY <1>2, <2>1, <2>2 DEF Only, SameTables, SameLists, Like
<1>3. CASE x.will
  <2>0. y \in Context /\ Like(y, x) /\ y.state = x.state /\ y.expiry_time = x.expiry_time /\ y.will = FALSE /\ y.delay = 0
    BY <1>1 DEF Context, Like
  <2> DEFINE G == [d EXCEPT !.context[c] = y]
  <2>1. E = G
    BY <1>1, <1>3 DEF WillClear, Mem
  <2>2. /\ Good(G) /\ SameTables(d, G) /\ SameLists(d, G) /\ G.sent = d.sent
        /\ G.context = [d.context EXCEPT ![c] = y]
    <3> HIDE DEF y
    <3> QED
      BY <2>0, NewContext DEF Like
  <2> HIDE DEF E, G, y
  <2>3. G.context[c] = y /\ \A e \in Conn : e # c => G.context[e] = d.context[e]
    BY <1>1, <2>2, MemParts
  <2>4. Only(d, G, c)
    BY <2>2, <2>3 DEF Only, SameTables, SameLists
  <2> QED
    BY <2>0, <2>1, <2>2, <2>3, <2>4 DEF E
<1> QED
  BY <1>2, <1>3

LEMMA WillDelayAddDoes ==
    ASSUME NEW d, Good(d), NEW c \in Conn, now \in Nat
    PROVE  LET E == WillDelayAdd(d, c)
           IN  /\ Only(d, E, c) /\ SameTables(d, E) /\ E.expiry_list = d.expiry_list /\ E.sent = d.sent
               /\ Like(E.context[c], d.context[c]) /\ E.context[c].state = d.context[c].state
               /\ E.context[c].expiry_time = d.context[c].expiry_time
               /\ E.context[c].will = d.context[c].will /\ E.context[c].delay = d.context[c].delay
               /\ c \in Range(E.delay_list)
<1> DEFINE E == WillDelayAdd(d, c)
           x == d.context[c]
           y == [x EXCEPT !.will_time = now + x.delay]
           key == [e \in Conn |-> d.context[e].delay]
           list == InsertInOrder(d.delay_list, c, key)
<1>1. d \in Mem /\ x \in Context /\ \A e \in Conn : d.context[e] \in Context
  BY MemParts DEF Good
<1>2. CASE c \in Range(d.delay_list)
  <2>1. E = d
    BY <1>2 DEF WillDelayAdd
  <2> QED
    BY <1>2, <2>1 DEF Only, SameTables, Like
<1>3. CASE c \notin Range(d.delay_list)
  <2>0. y \in Context /\ Like(y, x) /\ y.state = x.state /\ y.expiry_time = x.expiry_time
        /\ y.will = x.will /\ y.delay = x.delay
    BY <1>1 DEF Context, Like
  <2>1. key \in [Conn -> Nat]
    BY <1>1, ContextParts
  <2>2. list \in Seq(Conn) /\ IsInjective(list) /\ Range(list) = Range(d.delay_list) \cup {c}
    <3>1. d.delay_list \in Seq(Conn) /\ IsInjective(d.delay_list)
      BY <1>1, MemParts DEF Good, Timers
    <3> HIDE DEF key
    <3> QED
      BY <1>3, <2>1, <3>1, InsertKeeps
  <2>3. E = [d EXCEPT !.context[c].will_time = now + x.delay, !.delay_list = list]
    BY <1>3 DEF WillDelayAdd
  <2> HIDE DEF list, key
  <2>4. [d.context EXCEPT ![c] = y] \in [Conn -> Context]
    BY <1>1, <2>0, MemParts
  <2>5. /\ SameTables(d, E) /\ E.expiry_list = d.expiry_list /\ E.delay_list = list /\ E.sent = d.sent
        /\ E.context = [d.context EXCEPT ![c] = y]
    BY <1>1, <2>3 DEF Mem, SameTables
  <2>6. E \in Mem
    BY <1>1, <2>2, <2>3, <2>4 DEF Mem
  <2> HIDE DEF E, y
  <2>7. E.context[c] = y /\ \A e \in Conn : e # c => E.context[e] = d.context[e]
    BY <1>1, <2>5, MemParts
  <2>8. Only(d, E, c)
    <3>1. \A e \in Conn : e # c => (e \in Range(E.delay_list) <=> e \in Range(d.delay_list))
      BY <2>2, <2>5
    <3>2. E.last_check = d.last_check /\ E.subs = d.subs
      BY <2>5 DEF SameTables
    <3>3. \A e \in Conn : e # c => E.context[e] = d.context[e] /\ E.sent[e] = d.sent[e]
      BY <2>5, <2>7
    <3>4. E.context[c].subs = d.context[c].subs /\ E.context[c].expiry_time = d.context[c].expiry_time
      BY <2>0, <2>7 DEF Like
    <3> QED
      BY <2>2, <2>5, <2>6, <3>1, <3>2, <3>3, <3>4, OnlyHere
  <2> QED
    BY <2>0, <2>2, <2>5, <2>7, <2>8 DEF E
<1> QED
  BY <1>2, <1>3

\* The will of c stays set, waiting, if it has a delay and the client did not take it back.
Waits(x) == x.state # "disconnecting" /\ x.will /\ x.delay > 0
Sends(x) == x.state # "disconnecting" /\ x.will /\ x.delay = 0

LEMMA SendWillDoes ==
    ASSUME NEW d, Good(d), NEW c \in Conn, now \in Nat, ~d.context[c].will => d.context[c].delay = 0
    PROVE  LET E == SendWill(d, c)
               x == d.context[c]
           IN  /\ Only(d, E, c) /\ SameTables(d, E) /\ E.expiry_list = d.expiry_list
               /\ Like(E.context[c], x) /\ E.context[c].state = x.state
               /\ E.context[c].expiry_time = x.expiry_time
               /\ E.context[c].will = Waits(x) /\ E.context[c].delay = (IF Waits(x) THEN x.delay ELSE 0)
               /\ E.sent[c] = (IF Sends(x) THEN d.sent[c] + 1 ELSE d.sent[c])
               /\ c \in Range(E.delay_list) <=> c \in Range(d.delay_list) \/ Waits(x)
<1> DEFINE E == SendWill(d, c)
           x == d.context[c]
<1>1. d \in Mem /\ x \in Context /\ x.delay \in Nat /\ d.sent \in [Conn -> Nat] /\ x.will \in BOOLEAN
  <2>1. d \in Mem /\ x \in Context /\ d.sent \in [Conn -> Nat]
    BY MemParts DEF Good
  <2> QED
    BY <2>1, ContextParts
<1>2. CASE Waits(x)
  <2>1. E = WillDelayAdd(d, c)
    BY <1>2 DEF SendWill, Waits
  <2>2. ~Sends(x) /\ x.will = TRUE
    BY <1>1, <1>2 DEF Waits, Sends
  <2> HIDE DEF E
  <2>3. /\ Only(d, E, c) /\ SameTables(d, E) /\ E.expiry_list = d.expiry_list /\ E.sent = d.sent
        /\ Like(E.context[c], x) /\ E.context[c].state = x.state
        /\ E.context[c].expiry_time = x.expiry_time
        /\ E.context[c].will = x.will /\ E.context[c].delay = x.delay
        /\ c \in Range(E.delay_list)
    BY <2>1, WillDelayAddDoes
  <2> QED
    BY <1>2, <2>2, <2>3 DEF E
<1>3. CASE Sends(x)
  <2> DEFINE d1 == [d EXCEPT !.sent[c] = @ + 1]
  <2>1. E = WillClear(d1, c)
    BY <1>1, <1>3 DEF SendWill, Sends
  <2>2. [d.sent EXCEPT ![c] = d.sent[c] + 1] \in [Conn -> Nat]
    BY <1>1
  <2>3. /\ SameTables(d, d1) /\ SameLists(d, d1) /\ d1.context = d.context
        /\ d1.sent = [d.sent EXCEPT ![c] = d.sent[c] + 1]
    BY <1>1 DEF Mem, SameTables, SameLists
  <2>4. d1 \in Mem
    BY <1>1, <2>2 DEF Mem
  <2> HIDE DEF d1, E
  <2>5. d1.sent[c] = d.sent[c] + 1 /\ \A e \in Conn : e # c => d1.sent[e] = d.sent[e]
    BY <1>1, <2>3
  <2>6. Good(d1)
    BY <2>3, <2>4 DEF Good, Timers, Filed, SameTables, SameLists
  <2>7. /\ Only(d1, E, c) /\ SameTables(d1, E) /\ SameLists(d1, E) /\ E.sent = d1.sent
        /\ Like(E.context[c], d1.context[c]) /\ E.context[c].state = d1.context[c].state
        /\ E.context[c].expiry_time = d1.context[c].expiry_time
        /\ E.context[c].will = FALSE /\ E.context[c].delay = 0
    <3>1. ~d1.context[c].will => d1.context[c].delay = 0
      BY <2>3
    <3> QED
      BY <2>1, <2>6, <3>1, WillClearDoes
  <2>8. Only(d, E, c)
    BY <2>3, <2>5, <2>7 DEF Only, SameTables, SameLists
  <2>9. Waits(x) = FALSE
    BY <1>1, <1>3 DEF Waits, Sends
  <2> QED
    BY <1>3, <2>3, <2>5, <2>7, <2>8, <2>9 DEF SameTables, SameLists, E
<1>4. CASE ~Waits(x) /\ ~Sends(x)
  <2>1. E = WillClear(d, c)
    BY <1>1, <1>4 DEF SendWill, Waits, Sends
  <2> HIDE DEF E
  <2>2. /\ Only(d, E, c) /\ SameTables(d, E) /\ SameLists(d, E) /\ E.sent = d.sent
        /\ Like(E.context[c], x) /\ E.context[c].state = x.state
        /\ E.context[c].expiry_time = x.expiry_time
        /\ E.context[c].will = FALSE /\ E.context[c].delay = 0
    BY <2>1, WillClearDoes
  <2>3. Waits(x) = FALSE
    BY <1>4 DEF Waits
  <2> QED
    BY <1>4, <2>2, <2>3 DEF SameLists, E
<1> QED
  BY <1>2, <1>3, <1>4

\* A list of c's gone from one list.
LEMMA WillDelayRemoveDoes ==
    ASSUME NEW d, Good(d), NEW c \in Conn
    PROVE  LET E == WillDelayRemove(d, c)
           IN  /\ Only(d, E, c) /\ SameTables(d, E) /\ E.expiry_list = d.expiry_list /\ E.sent = d.sent
               /\ E.context = d.context /\ c \notin Range(E.delay_list)
<1> DEFINE E == WillDelayRemove(d, c)
           list == Without(d.delay_list, c)
<1>1. d \in Mem /\ d.delay_list \in Seq(Conn) /\ IsInjective(d.delay_list)
  <2>1. d \in Mem /\ IsInjective(d.delay_list)
    BY DEF Good, Timers
  <2> QED
    BY <2>1, MemParts
<1>2. /\ list \in Seq(Conn) /\ Thins(list, d.delay_list)
      /\ Range(list) = Range(d.delay_list) \ {c}
  BY <1>1, RemoveFirstKeeps DEF Without
<1>3. IsInjective(list)
  <2> HIDE DEF list
  <2> QED
    BY <1>1, <1>2, ThinsInjective
<1> HIDE DEF list
<1>4. E = [d EXCEPT !.delay_list = list]
  BY DEF WillDelayRemove, list
<1> HIDE DEF E
<1>5. /\ SameTables(d, E) /\ E.expiry_list = d.expiry_list /\ E.sent = d.sent
      /\ E.context = d.context /\ E.delay_list = list
  BY <1>1, <1>4 DEF Mem, SameTables
<1>6. E \in Mem
  BY <1>1, <1>2, <1>4 DEF Mem
<1>7. Only(d, E, c)
  <2>1. Good(E)
    BY <1>3, <1>5, <1>6 DEF Good, Timers, Filed, SameTables
  <2> QED
    BY <1>2, <1>5, <2>1 DEF Only, SameTables
<1> QED
  BY <1>2, <1>5, <1>7 DEF E

LEMMA SessionExpiryRemoveDoes ==
    ASSUME NEW d, Good(d), NEW c \in Conn
    PROVE  LET E == SessionExpiryRemove(d, c)
           IN  /\ Only(d, E, c) /\ SameTables(d, E) /\ E.delay_list = d.delay_list /\ E.sent = d.sent
               /\ E.context = d.context /\ c \notin Range(E.expiry_list)
<1> DEFINE E == SessionExpiryRemove(d, c)
           list == Without(d.expiry_list, c)
<1>1. d \in Mem /\ d.expiry_list \in Seq(Conn) /\ IsInjective(d.expiry_list)
  <2>1. d \in Mem /\ IsInjective(d.expiry_list)
    BY DEF Good, Timers
  <2> QED
    BY <2>1, MemParts
<1>2. /\ list \in Seq(Conn) /\ Thins(list, d.expiry_list)
      /\ Range(list) = Range(d.expiry_list) \ {c}
  BY <1>1, RemoveFirstKeeps DEF Without
<1> HIDE DEF list
<1>3. IsInjective(list)
  BY <1>1, <1>2, ThinsInjective
<1>4. E = [d EXCEPT !.expiry_list = list]
  BY DEF SessionExpiryRemove, list
<1> HIDE DEF E
<1>5. /\ SameTables(d, E) /\ E.delay_list = d.delay_list /\ E.sent = d.sent
      /\ E.context = d.context /\ E.expiry_list = list
  BY <1>1, <1>4 DEF Mem, SameTables
<1>6. E \in Mem
  BY <1>1, <1>2, <1>4 DEF Mem
<1>7. Ordered(list, d.context)
  <2>1. PICK h \in [DOMAIN list -> DOMAIN d.expiry_list] :
            /\ \A i, j \in DOMAIN list : i < j => h[i] < h[j]
            /\ \A i \in DOMAIN list : list[i] = d.expiry_list[h[i]]
    BY <1>2 DEF Thins
  <2>2. Ordered(d.expiry_list, d.context)
    BY DEF Good, Timers
  <2> QED
    BY <2>1, <2>2 DEF Ordered
<1>8. Only(d, E, c)
  <2>1. Good(E)
    BY <1>2, <1>3, <1>5, <1>6, <1>7 DEF Good, Timers, Filed, SameTables
  <2> QED
    BY <1>2, <1>5, <2>1 DEF Only, SameTables
<1> QED
  BY <1>2, <1>5, <1>8 DEF E

LEMMA SessionExpiryAddDoes ==
    ASSUME NEW d, Good(d), NEW c \in Conn, now \in Nat, d.last_check <= now,
           c \notin Range(d.expiry_list)
    PROVE  LET E == SessionExpiryAdd(d, c)
               x == d.context[c]
           IN  /\ Only(d, E, c) /\ SameTables(d, E) /\ E.delay_list = d.delay_list /\ E.sent = d.sent
               /\ Like(E.context[c], x) /\ E.context[c].state = x.state
               /\ E.context[c].will = x.will /\ E.context[c].delay = x.delay
               /\ c \in Range(E.expiry_list) <=> x.expiry # Never \/ ClientExpiry # 0
<1> DEFINE E == SessionExpiryAdd(d, c)
           x == d.context[c]
           interval == IF ClientExpiry # 0 /\ ClientExpiry < x.expiry THEN ClientExpiry ELSE x.expiry
           y == [x EXCEPT !.expiry_time = now + interval]
           key == [e \in Conn |-> IF e = c THEN now + interval ELSE d.context[e].expiry_time]
           list == InsertInOrder(d.expiry_list, c, key)
<1>1. d \in Mem /\ x \in Context /\ \A e \in Conn : d.context[e] \in Context
  BY MemParts DEF Good
<1>2. CASE ClientExpiry = 0 /\ x.expiry = Never
  <2>1. E = d
    BY <1>2 DEF SessionExpiryAdd
  <2> QED
    BY <1>2, <2>1 DEF Only, SameTables, Like
<1>3. CASE ~(ClientExpiry = 0 /\ x.expiry = Never)
  <2>0. interval \in Nat /\ now + interval \in Nat /\ now + interval >= now
    <3>1. x.expiry \in Nat /\ ClientExpiry \in Nat
      BY <1>1, ContextParts, BoundAssumption
    <3> QED
      BY <3>1
  <2>1. E = [d EXCEPT !.context[c].expiry_time = now + interval, !.expiry_list = list]
    BY <1>3 DEF SessionExpiryAdd
  <2> HIDE DEF interval
  <2>2. y \in Context /\ Like(y, x) /\ y.state = x.state /\ y.expiry_time = now + interval
        /\ y.will = x.will /\ y.delay = x.delay
    BY <1>1, <2>0 DEF Context, Like
  <2>3. key \in [Conn -> Nat]
    BY <1>1, <2>0, ContextParts
  <2>4. key[c] = now + interval /\ \A e \in Conn : e # c => key[e] = d.context[e].expiry_time
    OBVIOUS
  <2> HIDE DEF key
  <2>5. /\ d.expiry_list \in Seq(Conn) /\ IsInjective(d.expiry_list) /\ Range(d.expiry_list) \subseteq Conn
        /\ \A i \in DOMAIN d.expiry_list : d.expiry_list[i] \in Range(d.expiry_list)
    <3>1. d.expiry_list \in Seq(Conn) /\ IsInjective(d.expiry_list)
      BY <1>1, MemParts DEF Good, Timers
    <3> QED
      BY <3>1, RangeOfSeq DEF Range
  <2>6. Sorted(d.expiry_list, key)
    <3>1. \A i \in DOMAIN d.expiry_list : key[d.expiry_list[i]] = d.context[d.expiry_list[i]].expiry_time
      BY <2>4, <2>5
    <3> QED
      BY <3>1 DEF Good, Timers, Ordered, Sorted
  <2>7. /\ list \in Seq(Conn) /\ IsInjective(list) /\ Range(list) = Range(d.expiry_list) \cup {c}
        /\ Sorted(list, key)
    BY <2>3, <2>5, <2>6, InsertKeeps
  <2> HIDE DEF list
  <2>8. [d.context EXCEPT ![c] = y] \in [Conn -> Context]
    BY <1>1, <2>2, MemParts
  <2>9. /\ SameTables(d, E) /\ E.delay_list = d.delay_list /\ E.expiry_list = list /\ E.sent = d.sent
        /\ E.context = [d.context EXCEPT ![c] = y]
    BY <1>1, <2>1 DEF Mem, SameTables
  <2>10. E \in Mem
    BY <1>1, <2>1, <2>7, <2>8 DEF Mem
  <2> HIDE DEF E, y
  <2>11. E.context[c] = y /\ \A e \in Conn : e # c => E.context[e] = d.context[e]
    BY <1>1, <2>9, MemParts
  <2>12. \A e \in Conn : E.context[e].expiry_time = key[e]
    BY <2>2, <2>4, <2>11
  <2>13. Timers(E)
    <3>1. Range(list) \subseteq Conn /\ \A i \in DOMAIN list : list[i] \in Conn
      BY <2>5, <2>7 DEF Range
    <3>2. Ordered(E.expiry_list, E.context)
      BY <2>7, <2>9, <2>12, <3>1 DEF Sorted, Ordered
    <3>3. \A e \in Range(list) : E.context[e].expiry_time >= E.last_check
      <4>1. \A e \in Range(d.expiry_list) : d.context[e].expiry_time >= d.last_check
        BY DEF Good, Timers
      <4>2. d.last_check \in Nat /\ E.last_check = d.last_check
        BY <1>1, <2>9, MemParts DEF SameTables
      <4>3. now + interval >= d.last_check
        BY <2>0, <4>2
      <4> QED
        BY <2>2, <2>7, <2>11, <3>1, <4>1, <4>2, <4>3
    <3>4. IsInjective(E.delay_list)
      BY <2>9 DEF Good, Timers
    <3> QED
      BY <2>7, <2>9, <3>2, <3>3, <3>4 DEF Timers
  <2>14. Filed(E)
    <3>1. \A e \in Conn : E.context[e].subs = d.context[e].subs
      BY <2>2, <2>11 DEF Like
    <3> QED
      BY <2>9, <3>1 DEF Good, Filed, SameTables
  <2>15. Only(d, E, c)
    BY <2>7, <2>9, <2>10, <2>11, <2>13, <2>14 DEF Only, Good, SameTables
  <2> QED
    BY <1>3, <2>2, <2>7, <2>9, <2>11, <2>15 DEF E
<1> QED
  BY <1>2, <1>3

LEMMA AddToDisusedDoes ==
    ASSUME NEW d, Good(d), NEW c \in Conn, d.context[c].state # "disused"
    PROVE  LET E == AddToDisused(d, c)
               x == d.context[c]
           IN  /\ Only(d, E, c) /\ SameLists(d, E) /\ E.sent = d.sent /\ E.subs = d.subs
               /\ E.context[c] = [x EXCEPT !.state = "disused", !.id = NoId]
               /\ E.by_id = [i \in Clients |-> IF i = x.id THEN 0 ELSE d.by_id[i]]
               /\ E.for_free = <<c>> \o d.for_free
<1> DEFINE E == AddToDisused(d, c)
           x == d.context[c]
           y == [x EXCEPT !.state = "disused", !.id = NoId]
           by == [i \in Clients |-> IF i = x.id THEN 0 ELSE d.by_id[i]]
           free == <<c>> \o d.for_free
<1>1. d \in Mem /\ x \in Context /\ d.by_id \in [Clients -> 0..MaxConn] /\ d.for_free \in Seq(Conn)
  BY MemParts DEF Good
<1>2. y \in Context /\ y.subs = x.subs /\ y.expiry_time = x.expiry_time
  BY <1>1 DEF Context, States
<1>3. by \in [Clients -> 0..MaxConn]
  <2>1. 0 \in 0..MaxConn
    BY BoundAssumption
  <2> QED
    BY <1>1, <2>1
<1>4. free \in Seq(Conn)
  <2>1. <<c>> \in Seq(Conn)
    OBVIOUS
  <2> QED
    BY <1>1, <2>1, ConcatProperties
<1>5. E = [d EXCEPT !.context[c].state = "disused", !.context[c].id = NoId, !.by_id = by, !.for_free = free]
  BY DEF AddToDisused
<1> HIDE DEF by, free
<1>5a. E = [d EXCEPT !.context[c] = y, !.by_id = by, !.for_free = free]
  BY <1>1, <1>5, ZenonT(60) DEF Mem
<1> HIDE DEF E, y
<1>6. [d.context EXCEPT ![c] = y] \in [Conn -> Context]
  BY <1>1, <1>2, MemParts
<1>7. /\ SameLists(d, E) /\ E.sent = d.sent /\ E.subs = d.subs /\ E.last_check = d.last_check
      /\ E.by_id = by /\ E.for_free = free /\ E.context = [d.context EXCEPT ![c] = y]
  BY <1>1, <1>5a DEF Mem, SameLists
<1>8. E \in Mem
  BY <1>1, <1>3, <1>4, <1>5a, <1>6 DEF Mem
<1>9. E.context[c] = y /\ \A e \in Conn : e # c => E.context[e] = d.context[e]
  BY <1>1, <1>7, MemParts
<1>10. Only(d, E, c)
  <2>1. IsInjective(E.delay_list) /\ E.expiry_list = d.expiry_list /\ E.delay_list = d.delay_list
    BY <1>7 DEF Good, Timers, SameLists
  <2>2. \A e \in Conn : e # c => E.context[e] = d.context[e] /\ E.sent[e] = d.sent[e]
    BY <1>7, <1>9
  <2>3. E.context[c].subs = d.context[c].subs /\ E.context[c].expiry_time = d.context[c].expiry_time
    BY <1>2, <1>9
  <2> QED
    BY <1>7, <1>8, <2>1, <2>2, <2>3, OnlyHere
<1> QED
  BY <1>7, <1>9, <1>10 DEF E, y, by, free

Freed(x) == x.expiry = 0 /\ ~Waits(x)
Tracked(x) == x.expiry # 0 /\ (x.expiry # Never \/ ClientExpiry # 0)

\* do_disconnect: the timers know of the session, or the context waits to be freed.
LEMMA DisconnectDoes ==
    ASSUME NEW d, Good(d), NEW c \in Conn, now \in Nat, d.last_check <= now,
           c \notin Range(d.expiry_list), ~d.context[c].will => d.context[c].delay = 0,
           d.context[c].state \notin {"disconnected", "disused"}
    PROVE  LET E == Disconnect(d, c)
               x == d.context[c]
               y == E.context[c]
           IN  /\ Only(d, E, c) /\ E.subs = d.subs
               /\ y.state = "disconnected" /\ y.sock = FALSE /\ y.will = Waits(x)
               /\ y.delay = (IF Waits(x) THEN x.delay ELSE 0)
               /\ y.expiry = x.expiry /\ y.subs = x.subs /\ y.v5 = x.v5 /\ y.clean = x.clean
               /\ y.id = (IF Freed(x) THEN NoId ELSE x.id)
               /\ E.sent[c] = (IF Sends(x) THEN d.sent[c] + 1 ELSE d.sent[c])
               /\ c \in Range(E.delay_list) <=> c \in Range(d.delay_list) \/ Waits(x)
               /\ c \in Range(E.expiry_list) <=> Tracked(x)
               /\ E.by_id = (IF Freed(x) THEN [i \in Clients |-> IF i = x.id THEN 0 ELSE d.by_id[i]]
                             ELSE d.by_id)
               /\ E.for_free = (IF Freed(x) THEN <<c>> \o d.for_free ELSE d.for_free)
<1> DEFINE E == Disconnect(d, c)
           x == d.context[c]
           x0 == [x EXCEPT !.sock = FALSE]
           d0 == [d EXCEPT !.context[c] = x0]
           d1 == SendWill(d0, c)
           d2 == IF d1.context[c].expiry # 0 THEN SessionExpiryAdd(d1, c)
                 ELSE IF d1.context[c].delay = 0 THEN AddToDisused(d1, c) ELSE d1
           y2 == [d2.context[c] EXCEPT !.state = "disconnected"]
           G == [d2 EXCEPT !.context[c] = y2]
<1>1. d \in Mem /\ x \in Context
  BY MemParts DEF Good
<1>2. x0 \in Context /\ Like([x EXCEPT !.sock = x.sock], x) /\ x0.subs = x.subs /\ x0.state = x.state
      /\ x0.will = x.will /\ x0.delay = x.delay /\ x0.expiry = x.expiry /\ x0.id = x.id /\ x0.v5 = x.v5
      /\ x0.clean = x.clean /\ x0.sock = FALSE /\ x0.expiry_time = x.expiry_time
  BY <1>1 DEF Context, Like
<1>3. Waits(x0) = Waits(x) /\ Sends(x0) = Sends(x)
  BY <1>2 DEF Waits, Sends
<1>4. [d EXCEPT !.context[c].sock = FALSE] = d0
  BY <1>1 DEF Mem
<1>5. E = [d2 EXCEPT !.context[c].state = "disconnected"]
  BY <1>4, Zenon DEF Disconnect
<1> HIDE DEF E, x0
<1>6. /\ Good(d0) /\ SameTables(d, d0) /\ SameLists(d, d0) /\ d0.sent = d.sent
      /\ d0.context = [d.context EXCEPT ![c] = x0]
  BY <1>2, NewContext
<1> HIDE DEF d0
<1>7. d0.context[c] = x0 /\ Only(d, d0, c)
  <2>1. d0.context[c] = x0 /\ \A e \in Conn : e # c => d0.context[e] = d.context[e]
    BY <1>1, <1>6, MemParts
  <2> QED
    BY <1>6, <2>1 DEF Only, SameTables, SameLists
<1>8. /\ Only(d0, d1, c) /\ SameTables(d0, d1) /\ d1.expiry_list = d0.expiry_list
      /\ Like(d1.context[c], x0) /\ d1.context[c].state = x0.state
      /\ d1.context[c].will = Waits(x0) /\ d1.context[c].delay = (IF Waits(x0) THEN x0.delay ELSE 0)
      /\ d1.sent[c] = (IF Sends(x0) THEN d0.sent[c] + 1 ELSE d0.sent[c])
      /\ c \in Range(d1.delay_list) <=> c \in Range(d0.delay_list) \/ Waits(x0)
  <2>1. ~d0.context[c].will => d0.context[c].delay = 0
    BY <1>2, <1>7
  <2> DEFINE z == d0.context[c]
  <2>2. /\ Only(d0, d1, c) /\ SameTables(d0, d1) /\ d1.expiry_list = d0.expiry_list
        /\ Like(d1.context[c], z) /\ d1.context[c].state = z.state
        /\ d1.context[c].expiry_time = z.expiry_time
        /\ d1.context[c].will = Waits(z) /\ d1.context[c].delay = (IF Waits(z) THEN z.delay ELSE 0)
        /\ d1.sent[c] = (IF Sends(z) THEN d0.sent[c] + 1 ELSE d0.sent[c])
        /\ c \in Range(d1.delay_list) <=> c \in Range(d0.delay_list) \/ Waits(z)
    BY <1>6, <2>1, SendWillDoes
  <2> HIDE DEF d1
  <2>3. z = x0
    BY <1>7
  <2> HIDE DEF z
  <2> QED
    BY <2>2, <2>3
<1> HIDE DEF d1
<1> DEFINE x1 == d1.context[c]
<1>9. /\ Only(d, d1, c) /\ Good(d1) /\ SameTables(d, d1) /\ c \notin Range(d1.expiry_list) /\ d1.last_check <= now
      /\ x1.state = x.state /\ x1.sock = FALSE /\ x1.will = Waits(x) /\ x1.id = x.id /\ x1.expiry = x.expiry
      /\ x1.subs = x.subs /\ x1.v5 = x.v5 /\ x1.clean = x.clean
      /\ x1.delay = (IF Waits(x) THEN x.delay ELSE 0)
      /\ d1.sent[c] = (IF Sends(x) THEN d.sent[c] + 1 ELSE d.sent[c])
      /\ c \in Range(d1.delay_list) <=> c \in Range(d.delay_list) \/ Waits(x)
  <2>1. Only(d, d1, c) /\ Good(d1)
    BY <1>7, <1>8, OnlyTwice DEF Only
  <2> QED
    BY <1>2, <1>3, <1>6, <1>8, <2>1 DEF SameTables, SameLists, Like
<1>10. x1.delay = 0 <=> ~Waits(x)
  BY <1>9, SMTT(30) DEF Waits
<1> HIDE DEF x1
<1>11. /\ Only(d1, d2, c) /\ d2.subs = d.subs /\ d2.sent[c] = d1.sent[c] /\ d2.delay_list = d1.delay_list
       /\ LET y == d2.context[c] IN
             /\ y.sock = FALSE /\ y.will = Waits(x) /\ y.delay = x1.delay
             /\ y.expiry = x.expiry /\ y.subs = x.subs /\ y.v5 = x.v5 /\ y.clean = x.clean
             /\ y.id = (IF Freed(x) THEN NoId ELSE x.id)
       /\ c \in Range(d2.expiry_list) <=> Tracked(x)
       /\ d2.by_id = (IF Freed(x) THEN [i \in Clients |-> IF i = x.id THEN 0 ELSE d.by_id[i]] ELSE d.by_id)
       /\ d2.for_free = (IF Freed(x) THEN <<c>> \o d.for_free ELSE d.for_free)
  <2>1. CASE x.expiry # 0
    <3>1. d2 = SessionExpiryAdd(d1, c)
      BY <1>9, <2>1 DEF x1
    <3> HIDE DEF d2
    <3>2. /\ Only(d1, d2, c) /\ SameTables(d1, d2) /\ d2.delay_list = d1.delay_list /\ d2.sent = d1.sent
          /\ Like(d2.context[c], x1) /\ d2.context[c].will = x1.will /\ d2.context[c].delay = x1.delay
          /\ c \in Range(d2.expiry_list) <=> x1.expiry # Never \/ ClientExpiry # 0
      BY <1>9, <3>1, SessionExpiryAddDoes DEF x1
    <3> QED
      BY <1>9, <2>1, <3>2 DEF Like, SameTables, Freed, Tracked
  <2>2. CASE x.expiry = 0 /\ ~Waits(x)
    <3>1. d2 = AddToDisused(d1, c)
      BY <1>9, <1>10, <2>2 DEF x1
    <3> HIDE DEF d2
    <3>2. /\ Only(d1, d2, c) /\ SameLists(d1, d2) /\ d2.sent = d1.sent /\ d2.subs = d1.subs
          /\ d2.context[c] = [x1 EXCEPT !.state = "disused", !.id = NoId]
          /\ d2.by_id = [i \in Clients |-> IF i = x1.id THEN 0 ELSE d1.by_id[i]]
          /\ d2.for_free = <<c>> \o d1.for_free
      <4>1. d1.context[c].state # "disused" /\ Good(d1)
        BY <1>9 DEF x1
      <4> QED
        BY <3>1, <4>1, AddToDisusedDoes, ZenonT(60) DEF x1
    <3>3. x1 \in Context
      BY <1>9, MemParts DEF Good, x1
    <3> DEFINE y == [x1 EXCEPT !.state = "disused", !.id = NoId]
    <3>4. y.sock = x1.sock /\ y.will = x1.will /\ y.delay = x1.delay /\ y.expiry = x1.expiry
          /\ y.subs = x1.subs /\ y.v5 = x1.v5 /\ y.clean = x1.clean /\ y.id = NoId
      BY <3>3 DEF Context
    <3> HIDE DEF y
    <3>5. Freed(x) /\ ~Tracked(x)
      BY <2>2 DEF Freed, Tracked
    <3>6. d2.context[c] = y
      BY <3>2 DEF y
    <3>7. /\ d2.context[c].sock = FALSE /\ d2.context[c].will = Waits(x) /\ d2.context[c].delay = x1.delay
          /\ d2.context[c].expiry = x.expiry /\ d2.context[c].subs = x.subs
          /\ d2.context[c].v5 = x.v5 /\ d2.context[c].clean = x.clean
          /\ d2.context[c].id = (IF Freed(x) THEN NoId ELSE x.id)
      BY <1>9, <3>4, <3>5, <3>6
    <3>8. /\ d2.by_id = (IF Freed(x) THEN [i \in Clients |-> IF i = x.id THEN 0 ELSE d.by_id[i]] ELSE d.by_id)
          /\ d2.for_free = (IF Freed(x) THEN <<c>> \o d.for_free ELSE d.for_free)
      <4>1. d1.by_id = d.by_id /\ d1.for_free = d.for_free /\ x1.id = x.id
        BY <1>9 DEF SameTables
      <4> QED
        BY <3>2, <3>5, <4>1
    <3>9. d2.subs = d.subs /\ d2.sent[c] = d1.sent[c] /\ d2.delay_list = d1.delay_list
          /\ (c \in Range(d2.expiry_list) <=> Tracked(x))
      BY <1>9, <3>2, <3>5 DEF SameTables, SameLists
    <3> QED
      BY <3>2, <3>7, <3>8, <3>9
  <2>3. CASE x.expiry = 0 /\ Waits(x)
    <3>1. d2 = d1
      BY <1>9, <1>10, <2>3 DEF x1
    <3> HIDE DEF d2
    <3>2. Only(d1, d1, c)
      BY <1>9 DEF Only
    <3> QED
      BY <1>9, <2>3, <3>1, <3>2 DEF SameTables, Freed, Tracked, x1
  <2> QED
    BY <2>1, <2>2, <2>3
<1> HIDE DEF d2
<1>12. Only(d, d2, c) /\ Good(d2) /\ d2 \in Mem /\ d2.context[c] \in Context
  <2>1. Only(d, d2, c) /\ Good(d2)
    BY <1>9, <1>11, OnlyTwice DEF Only
  <2> QED
    BY <2>1, MemParts DEF Good
<1>13. LET y == d2.context[c] IN
       y2 \in Context /\ y2.state = "disconnected" /\ y2.sock = y.sock /\ y2.will = y.will /\ y2.delay = y.delay
       /\ y2.expiry = y.expiry /\ y2.expiry_time = y.expiry_time
       /\ y2.subs = y.subs /\ y2.v5 = y.v5 /\ y2.clean = y.clean /\ y2.id = y.id
  BY <1>12 DEF Context, States
<1>14. E = G
  BY <1>5, <1>12 DEF Mem
<1> HIDE DEF y2
<1>15. /\ Good(G) /\ SameTables(d2, G) /\ SameLists(d2, G) /\ G.sent = d2.sent
       /\ G.context = [d2.context EXCEPT ![c] = y2]
  BY <1>12, <1>13, NewContext
<1> HIDE DEF G
<1>16. G.context[c] = y2 /\ \A e \in Conn : e # c => G.context[e] = d2.context[e]
  BY <1>12, <1>15, MemParts
<1>17. Only(d2, G, c)
  BY <1>15, <1>16 DEF Only, SameTables, SameLists
<1>18. Only(d, E, c)
  BY <1>12, <1>14, <1>17, OnlyTwice
<1> QED
  BY <1>9, <1>11, <1>13, <1>14, <1>15, <1>16, <1>18 DEF SameTables, SameLists, E
----------------------------------------------------------------------------
(* Places of subscriptions.                                                *)

LEMMA FilterLevels ==
    ASSUME NEW f \in Filters
    PROVE  f \in Seq(Level) /\ f # <<>> /\ Len(f) \in Nat \ {0} /\ f[1] \in Level
<1>1. f \in Seq(STRING) /\ f # <<>>
  BY LevelAssumption, FilterAssumption DEF SubTopicCheck
<1>2. STRING \subseteq Level
  BY Zenon DEF Level
<1>3. Seq(STRING) \subseteq Seq(Level)
  BY <1>2, SeqMonotonic
<1>4. Len(f) \in Nat \ {0}
  BY <1>1, EmptySeq
<1>5. f \in Seq(Level)
  BY <1>1, <1>3
<1>6. 1 \in 1..Len(f)
  BY <1>4
<1> QED
  BY <1>1, <1>4, <1>5, <1>6, ElementOfSeq

LEMMA TopicsType ==
    ASSUME NEW f \in Filters
    PROVE  /\ Tokenise(f).topics \in Seq(Level) /\ Tokenise(f).topics # <<>>
           /\ Tokenise(f).share \in Level
<1>0. f \in Seq(Level) /\ f # <<>> /\ Len(f) \in Nat \ {0}
  BY FilterLevels
<1>1. "" \in Level /\ NoShare \in Level
  BY DEF Level
<1> DEFINE z == <<"">>
<1>2. \A x \in Level : <<x>> \in Seq(Level) /\ Len(<<x>>) = 1
  OBVIOUS
<1>2a. z \in Seq(Level) /\ Len(z) = 1
  BY <1>1, <1>2, Zenon
<1> HIDE DEF z
<1>3. CASE f[1] = "$share"
  <2>1. Len(f) >= 2
    BY <1>3, ShareAssumption
  <2> DEFINE rest == SubSeq(f, 3, Len(f))
  <2>2. rest \in Seq(Level)
    <3> DEFINE m == 3
               n == Len(f)
    <3>1. m \in 1..(Len(f) + 1) /\ n \in 0..Len(f) /\ m <= n + 1
      BY <1>0, <2>1
    <3> HIDE DEF m, n
    <3>2. SubSeq(f, m, n) \in Seq(Level)
      BY <1>0, <3>1, Part
    <3> QED
      BY <3>2 DEF m, n
  <2>3. f[2] \in Level
    <3>1. 2 \in 1..Len(f)
      BY <1>0, <2>1
    <3> QED
      BY <1>0, <3>1, ElementOfSeq
  <2> HIDE DEF rest
  <2>4. z \o rest \in Seq(Level) /\ Len(z \o rest) = Len(z) + Len(rest)
    BY <1>2a, <2>2, ConcatProperties
  <2>5. z \o rest # <<>>
    <3>1. Len(rest) \in Nat
      BY <2>2, LenProperties
    <3>2. Len(z \o rest) # 0
      BY <1>2a, <2>4, <3>1
    <3> QED
      BY <2>4, <3>2, EmptySeq
  <2>6. Tokenise(f) = [share |-> f[2], topics |-> z \o rest]
    BY <1>3 DEF Tokenise, rest, z
  <2> QED
    BY <2>3, <2>4, <2>5, <2>6
<1>4. CASE f[1] # "$share"
  <2> DEFINE head == IF f[1] \in DollarLevels THEN <<>> ELSE z
  <2>1. head \in Seq(Level)
    BY <1>2a, EmptySeq
  <2>2. Len(head) \in Nat
    BY <2>1, LenProperties
  <2>3. Tokenise(f) = [share |-> NoShare, topics |-> head \o f]
    BY <1>4 DEF Tokenise, z
  <2> HIDE DEF head
  <2>4. head \o f \in Seq(Level) /\ Len(head \o f) = Len(head) + Len(f)
    BY <1>0, <2>1, ConcatProperties
  <2>5. head \o f # <<>>
    <3>1. Len(head \o f) # 0
      BY <1>0, <2>2, <2>4
    <3> QED
      BY <2>4, <3>1, EmptySeq
  <2>6. Tokenise(f).topics = head \o f /\ Tokenise(f).share = NoShare
    BY <2>3
  <2>7. NoShare \in Level
    BY <1>1, Zenon
  <2> QED
    BY <2>4, <2>5, <2>6, <2>7
<1> QED
  BY <1>3, <1>4

LEMMA RefPlace ==
    ASSUME NEW f \in Filters
    PROVE  /\ SubRef(f) \in Place /\ SubRef(f).path = Path(Tokenise(f).topics)
           /\ SubRef(f).share = Tokenise(f).share /\ SubRef(f).path # <<>>
<1> DEFINE t == Tokenise(f).topics
           p == Path(t)
<1>1. t \in Seq(Level) /\ t # <<>> /\ Tokenise(f).share \in Level
  BY TopicsType
<1> HIDE DEF t
<1>2. Len(t) \in Nat \ {0}
  BY <1>1, EmptySeq
<1>3. t[1] \in Level
  <2>1. 1 \in 1..Len(t)
    BY <1>2
  <2> QED
    BY <1>1, <2>1, ElementOfSeq
<1>4. <<t[1]>> \in Seq(Level) /\ Len(<<t[1]>>) = 1
  BY <1>3
<1>5. p \in Seq(Level) /\ Len(p) = Len(<<t[1]>>) + Len(t)
  BY <1>1, <1>4, ConcatProperties DEF Path
<1>6. p # <<>>
  <2>1. Len(p) # 0
    BY <1>2, <1>4, <1>5
  <2> QED
    BY <1>5, <2>1, EmptySeq
<1>7. SubRef(f) = [path |-> p, share |-> Tokenise(f).share]
  BY DEF SubRef, t
<1> HIDE DEF p
<1>8. SubRef(f) \in Place /\ SubRef(f).path = p /\ SubRef(f).share = Tokenise(f).share
  BY <1>1, <1>5, <1>7 DEF Place
<1> QED
  BY <1>6, <1>8 DEF p, t

LEMMA RefsArePlaces == Ref \subseteq Place
BY RefPlace DEF Ref
----------------------------------------------------------------------------
(* What the broker does to one context.                                    *)

\* sub__clean_session: the context has no subscriptions any more.
LEMMA CleanSessionDoes ==
    ASSUME NEW d, Good(d), NEW c \in Conn
    PROVE  LET E == CleanSession(d, c)
           IN  /\ Only(d, E, c) /\ SameLists(d, E) /\ E.sent = d.sent
               /\ E.by_id = d.by_id /\ E.for_free = d.for_free
               /\ E.context[c] = [d.context[c] EXCEPT !.subs = {}]
<1> DEFINE E == CleanSession(d, c)
           x == d.context[c]
           y == [x EXCEPT !.subs = {}]
           u == Cleaned(d.subs, x.subs, c)
<1>1. d \in Mem /\ x \in Context /\ d.subs \in Trees(Leaf) /\ Range(d.expiry_list) \subseteq Conn
  BY MemParts, RangeOfSeq DEF Good
<1>2. x.subs \in SUBSET Place /\ IsFiniteSet(x.subs) /\ Neat(d.subs)
  BY <1>1, ContextParts, RefsArePlaces DEF Good, Filed
<1>3. /\ \A r \in Place : OneEach(At(d.subs, r))
      /\ \A r \in Place, e \in Conn : r \in d.context[e].subs <=> e \in Holders(At(d.subs, r))
  BY DEF Good, Filed
<1>4. \A r \in x.subs : c \in Holders(At(d.subs, r))
  BY <1>2, <1>3
<1>5. /\ u \in Trees(Leaf) /\ Neat(u)
      /\ \A r \in Place : /\ OneEach(At(u, r))
                          /\ Holders(At(u, r)) = Holders(At(d.subs, r)) \ (IF r \in x.subs THEN {c} ELSE {})
  BY <1>1, <1>2, <1>3, <1>4, CleanKeeps
<1>6. E = [d EXCEPT !.subs = u, !.context[c].subs = {}]
  BY DEF CleanSession, Cleaned
<1> HIDE DEF u
<1>7. y \in Context /\ y.subs = {} /\ y.expiry_time = x.expiry_time
  BY <1>1 DEF Context
<1>8. [d.context EXCEPT ![c] = y] \in [Conn -> Context]
  BY <1>1, <1>7, MemParts
<1>9. E = [d EXCEPT !.subs = u, !.context[c] = y]
  BY <1>1, <1>6 DEF Mem
<1> HIDE DEF E, y
<1>10. /\ SameLists(d, E) /\ E.sent = d.sent /\ E.by_id = d.by_id /\ E.for_free = d.for_free
       /\ E.last_check = d.last_check /\ E.subs = u /\ E.context = [d.context EXCEPT ![c] = y]
  BY <1>1, <1>9 DEF Mem, SameLists
<1>11. E \in Mem
  BY <1>1, <1>5, <1>8, <1>9 DEF Mem
<1>12. E.context[c] = y /\ \A e \in Conn : e # c => E.context[e] = d.context[e]
  BY <1>1, <1>10, MemParts
<1>13. \A e \in Conn : E.context[e].expiry_time = d.context[e].expiry_time
  BY <1>7, <1>12
<1>14. Timers(E)
  <2>1. E.expiry_list = d.expiry_list /\ E.delay_list = d.delay_list /\ Timers(d)
    BY <1>10 DEF SameLists, Good
  <2>2. \A i \in DOMAIN d.expiry_list : d.expiry_list[i] \in Conn
    BY <1>1 DEF Range
  <2>3. Ordered(E.expiry_list, E.context)
    BY <1>13, <2>1, <2>2 DEF Timers, Ordered
  <2> QED
    BY <1>1, <1>10, <1>13, <2>1, <2>3 DEF Timers
<1>15. Filed(E)
  <2>1. \A e \in Conn : IsFiniteSet(E.context[e].subs)
    BY <1>7, <1>12, FS_EmptySet DEF Good, Filed
  <2>2. ASSUME NEW r \in Place, NEW e \in Conn
        PROVE  r \in E.context[e].subs <=> e \in Holders(At(u, r))
    <3>1. r \in d.context[e].subs <=> e \in Holders(At(d.subs, r))
      BY <1>3
    <3>2. Holders(At(u, r)) = Holders(At(d.subs, r)) \ (IF r \in x.subs THEN {c} ELSE {})
      BY <1>5
    <3>3. CASE e = c
      BY <1>7, <1>12, <3>1, <3>2, <3>3
    <3>4. CASE e # c
      BY <1>12, <3>1, <3>2, <3>4
    <3> QED
      BY <3>3, <3>4
  <2> QED
    BY <1>5, <1>10, <2>1, <2>2 DEF Filed
<1>16. Only(d, E, c)
  BY <1>10, <1>11, <1>12, <1>14, <1>15 DEF Only, Good, SameLists
<1> QED
  BY <1>10, <1>12, <1>16 DEF E, y

\* The table of ids, when the context c keeps its id, and when it loses it.
LEMMA NamedKept ==
    ASSUME NEW d, NEW E, NEW c \in Conn, Named(d), E.by_id = d.by_id,
           \A e \in Conn : e # c => E.context[e] = d.context[e],
           E.context[c].id = d.context[c].id, d.by_id \in [Clients -> 0..MaxConn]
    PROVE  Named(E)
<1>1. \A e \in Conn : E.context[e].id = d.context[e].id
  OBVIOUS
<1>2. \A i \in Clients : d.by_id[i] # 0 => d.by_id[i] \in Conn
  BY BoundAssumption DEF Conn
<1> QED
  BY <1>1, <1>2 DEF Named

LEMMA NamedGone ==
    ASSUME NEW d, NEW E, NEW c \in Conn, Named(d),
           E.by_id = [i \in Clients |-> IF i = d.context[c].id THEN 0 ELSE d.by_id[i]],
           \A e \in Conn : e # c => E.context[e] = d.context[e],
           \A e \in Conn : d.context[e].id \in Clients \cup {NoId},
           E.context[c].id = NoId, d.by_id \in [Clients -> 0..MaxConn]
    PROVE  Named(E)
<1>1. \A i \in Clients : E.by_id[i] = IF i = d.context[c].id THEN 0 ELSE d.by_id[i]
  OBVIOUS
<1>2. \A i \in Clients : d.by_id[i] # 0 => d.by_id[i] \in Conn
  BY BoundAssumption DEF Conn
<1>3. ASSUME NEW i \in Clients, E.by_id[i] # 0 PROVE E.context[E.by_id[i]].id = i
  <2>1. i # d.context[c].id /\ E.by_id[i] = d.by_id[i] /\ d.context[d.by_id[i]].id = i
    BY <1>1, <1>3 DEF Named
  <2> QED
    BY <1>2, <1>3, <2>1
<1>4. ASSUME NEW e \in Conn, E.context[e].id # NoId PROVE E.by_id[E.context[e].id] = e
  <2>1. e # c /\ E.context[e] = d.context[e] /\ d.by_id[d.context[e].id] = e /\ d.context[e].id \in Clients
    BY <1>4 DEF Named
  <2>2. CASE d.context[e].id = d.context[c].id
    <3>1. d.by_id[d.context[c].id] = c
      BY <2>1, <2>2, <1>4 DEF Named
    <3> QED
      BY <2>1, <2>2, <3>1
  <2> QED
    BY <1>1, <2>1, <2>2
<1> QED
  BY <1>3, <1>4 DEF Named

\* The others stay as they are.
LEMMA SoundStep ==
    ASSUME NEW d, NEW F, NEW l, NEW k, NEW E, NEW F2, NEW l2, NEW c \in Conn,
           Sound(d, F, l, k), Only(d, E, c), F2 \subseteq Conn, F2 \ {c} = F \ {c},
           \A e \in Conn : l2[e].client = l[e].client,
           \A e \in Conn : e # c => l2[e] = l[e], Named(E),
           Settled(E.context[c], E.sent[c], c \in Range(E.expiry_list), c \in Range(E.delay_list),
                   c \in F2, l2[c], Later(l, c), k)
    PROVE  Sound(E, F2, l2, k)
<1>1. \A e \in Conn : Later(l2, e) <=> Later(l, e)
  BY DEF Later
<1>2. ASSUME NEW e \in Conn
      PROVE  Settled(E.context[e], E.sent[e], e \in Range(E.expiry_list), e \in Range(E.delay_list),
                     e \in F2, l2[e], Later(l2, e), k)
  <2>1. CASE e = c
    <3>1. Later(l2, c) <=> Later(l, c)
      BY <1>1
    <3> QED
      BY <2>1, <3>1 DEF Settled
  <2>2. CASE e # c
    <3>1. /\ E.context[e] = d.context[e] /\ E.sent[e] = d.sent[e] /\ l2[e] = l[e]
          /\ e \in Range(E.expiry_list) <=> e \in Range(d.expiry_list)
          /\ e \in Range(E.delay_list) <=> e \in Range(d.delay_list)
      BY <2>2 DEF Only
    <3>2. (e \in F2 <=> e \in F) /\ (Later(l2, e) <=> Later(l, e))
      BY <1>1, <2>2
    <3>3. Settled(d.context[e], d.sent[e], e \in Range(d.expiry_list),
                  e \in Range(d.delay_list), e \in F, l[e], Later(l, e), k)
      BY DEF Sound
    <3> QED
      BY <3>1, <3>2, <3>3 DEF Settled
  <2> QED
    BY <2>1, <2>2
<1> QED
  BY <1>2 DEF Sound, Only
----------------------------------------------------------------------------
(* The steps about one context keep the whole sound.                       *)

LEMMA PutFirst ==
    ASSUME NEW s \in Seq(Conn), IsInjective(s), NEW c \in Conn, c \notin Range(s)
    PROVE  /\ <<c>> \o s \in Seq(Conn) /\ IsInjective(<<c>> \o s)
           /\ Range(<<c>> \o s) = Range(s) \cup {c}
<1> DEFINE a == <<c>>
           t == a \o s
<1>0. Len(s) \in Nat /\ DOMAIN s = 1..Len(s)
  BY LenProperties
<1>1. a \in Seq(Conn) /\ Len(a) = 1 /\ a[1] = c
  OBVIOUS
<1> HIDE DEF a
<1>2. /\ t \in Seq(Conn) /\ Len(t) = Len(a) + Len(s)
      /\ \A i \in 1 .. Len(a) + Len(s) : t[i] = IF i <= Len(a) THEN a[i] ELSE s[i - Len(a)]
  BY <1>1, ConcatProperties
<1> HIDE DEF t
<1>3. DOMAIN t = 1..(Len(s) + 1)
  <2>1. DOMAIN t = 1..Len(t)
    BY <1>2, LenProperties
  <2>2. Len(t) = Len(s) + 1
    BY <1>0, <1>1, <1>2
  <2> QED
    BY <2>1, <2>2
<1>4. ASSUME NEW i \in DOMAIN t
      PROVE  \/ i = 1 /\ t[i] = c
             \/ i - 1 \in DOMAIN s /\ t[i] = s[i - 1]
  <2>1. i \in 1..(Len(s) + 1) /\ Len(a) + Len(s) = Len(s) + 1
    BY <1>0, <1>1, <1>3
  <2>2. t[i] = IF i <= 1 THEN a[i] ELSE s[i - 1]
    BY <1>1, <1>2, <2>1
  <2>3. CASE i <= 1
    <3>1. i = 1
      BY <2>1, <2>3
    <3> QED
      BY <1>1, <2>2, <3>1
  <2>4. CASE ~(i <= 1)
    <3>1. i - 1 \in 1..Len(s)
      BY <1>0, <2>1, <2>4
    <3> QED
      BY <1>0, <2>2, <2>4, <3>1
  <2> QED
    BY <2>3, <2>4
<1>5. \A i \in DOMAIN s : s[i] # c
  BY DEF Range
<1>6. IsInjective(t)
  <2> SUFFICES ASSUME NEW i \in DOMAIN t, NEW j \in DOMAIN t, t[i] = t[j] PROVE i = j
    BY DEF IsInjective
  <2>1. i \in Nat /\ j \in Nat
    BY <1>0, <1>3
  <2>2. \A x, y \in DOMAIN s : s[x] = s[y] => x = y
    BY DEF IsInjective
  <2> QED
    BY <1>4, <1>5, <2>1, <2>2
<1>7. Range(t) = Range(s) \cup {c}
  <2>1. Range(t) \subseteq Range(s) \cup {c}
    BY <1>4 DEF Range
  <2>2. c \in Range(t)
    <3>1. 1 \in DOMAIN t /\ t[1] = c
      BY <1>0, <1>1, <1>2, <1>3
    <3> QED
      BY <3>1 DEF Range
  <2>3. ASSUME NEW i \in DOMAIN s PROVE s[i] \in Range(t)
    <3>1. i + 1 \in DOMAIN t /\ ~(i + 1 <= 1) /\ (i + 1) - 1 = i
      BY <1>0, <1>3
    <3>2. t[i + 1] = s[i]
      BY <1>0, <1>1, <1>2, <1>3, <3>1
    <3> QED
      BY <3>1, <3>2 DEF Range
  <2> QED
    BY <2>1, <2>2, <2>3 DEF Range
<1> QED
  BY <1>2, <1>6, <1>7 DEF t, a

Ends == {"none", "open", "clean", "lost", "taken", "down"}
EndOf(l, c, how) == [l EXCEPT ![c] = [l[c] EXCEPT !.end = IF l[c].will THEN how ELSE @]]

LEMMA EndOfDoes ==
    ASSUME NEW l \in Logs, NEW c \in Conn, NEW how \in Ends
    PROVE  LET l2 == EndOf(l, c, how)
           IN  /\ l2 \in Logs /\ \A e \in Conn : l2[e].client = l[e].client
               /\ \A e \in Conn : e # c => l2[e] = l[e]
               /\ l2[c].will = l[c].will /\ l2[c].end = (IF l[c].will THEN how ELSE l[c].end)
<1> DEFINE Entry == [client : Clients \cup {NoId}, will : BOOLEAN, end : Ends]
           r == [l[c] EXCEPT !.end = IF l[c].will THEN how ELSE @]
           l2 == EndOf(l, c, how)
<1>1. Logs = [Conn -> Entry]
  BY DEF Logs, Ends
<1>2. l[c] \in Entry
  BY <1>1
<1>3. r \in Entry /\ r.client = l[c].client /\ r.will = l[c].will
      /\ r.end = (IF l[c].will THEN how ELSE l[c].end)
  BY <1>2
<1>4. l2 = [l EXCEPT ![c] = r]
  BY DEF EndOf
<1> HIDE DEF r, Entry, l2
<1>5. l2 \in Logs /\ l2[c] = r /\ \A e \in Conn : e # c => l2[e] = l[e]
  BY <1>1, <1>3, <1>4
<1>6. \A e \in Conn : l2[e].client = l[e].client
  BY <1>3, <1>5
<1> QED
  BY <1>3, <1>5, <1>6 DEF l2

\* The history sees a will only while the client has not come back.
Cancelled(d, E, l) == \A e \in Conn : E.sent[e] # d.sent[e] => ~Later(l, e)

\* A connection ends, on a DISCONNECT (z is what handle__disconnect makes of the
\* context) or otherwise.
LEMMA LeaveSound ==
    ASSUME NEW d, NEW l \in Logs, NEW k, NEW c \in Conn, NEW z \in Context, NEW how,
           Sound(d, Range(d.for_free), l, k), IsInjective(d.for_free), now \in Nat, d.last_check <= now,
           d.context[c].sock, z.id = d.context[c].id, z.subs = d.context[c].subs,
           \/ /\ z.state = "disconnecting" /\ z.will = FALSE /\ z.delay = 0 /\ how = "clean"
           \/ /\ z.state \in {"active", "disconnect_with_will"} /\ how = "lost"
              /\ z.will = d.context[c].will /\ z.delay = d.context[c].delay
    PROVE  LET E == Disconnect([d EXCEPT !.context[c] = z], c)
           IN  /\ Sound(E, Range(E.for_free), EndOf(l, c, how), k) /\ IsInjective(E.for_free)
               /\ E.last_check = d.last_check /\ Cancelled(d, E, l)
<1> DEFINE x == d.context[c]
           G == [d EXCEPT !.context[c] = z]
           E == Disconnect(G, c)
           y == E.context[c]
           l2 == EndOf(l, c, how)
<1>1. /\ Good(d) /\ d \in Mem /\ x \in Context /\ d.by_id \in [Clients -> 0..MaxConn]
      /\ d.for_free \in Seq(Conn) /\ d.sent[c] \in Nat /\ Named(d)
      /\ \A e \in Conn : d.context[e].id \in Clients \cup {NoId}
  <2>1. Good(d) /\ d \in Mem /\ Named(d)
    BY DEF Sound, Good
  <2> QED
    BY <2>1, MemParts, ContextParts
<1>2. Settled(x, d.sent[c], c \in Range(d.expiry_list), c \in Range(d.delay_list),
              c \in Range(d.for_free), l[c], Later(l, c), k)
  BY DEF Sound
<1>3. /\ c \notin Range(d.expiry_list) /\ c \notin Range(d.delay_list) /\ c \notin Range(d.for_free)
      /\ x.id # NoId /\ x.state = "active" /\ l[c].client = x.id /\ ~Later(l, c)
      /\ x.will = l[c].will /\ (~x.will => x.delay = 0) /\ (x.will => d.sent[c] = 0) /\ d.sent[c] <= 1
      /\ (l[c].end = "clean" => d.sent[c] = 0)
  BY <1>2 DEF Settled
<1>4. /\ Good(G) /\ SameTables(d, G) /\ SameLists(d, G) /\ G.sent = d.sent
      /\ G.context = [d.context EXCEPT ![c] = z]
  BY <1>1, <1>3, NewContext
<1> HIDE DEF G
<1>5. G.context[c] = z /\ \A e \in Conn : e # c => G.context[e] = d.context[e]
  BY <1>1, <1>4, MemParts
<1>6. Only(d, G, c)
  BY <1>4, <1>5 DEF Only, SameTables, SameLists
<1>7. ~z.will => z.delay = 0
  BY <1>3
<1>8. /\ Only(G, E, c) /\ E.subs = G.subs
      /\ y.state = "disconnected" /\ y.sock = FALSE /\ y.will = Waits(z)
      /\ y.delay = (IF Waits(z) THEN z.delay ELSE 0)
      /\ y.expiry = z.expiry /\ y.subs = z.subs
      /\ y.id = (IF Freed(z) THEN NoId ELSE z.id)
      /\ E.sent[c] = (IF Sends(z) THEN G.sent[c] + 1 ELSE G.sent[c])
      /\ c \in Range(E.delay_list) <=> c \in Range(G.delay_list) \/ Waits(z)
      /\ c \in Range(E.expiry_list) <=> Tracked(z)
      /\ E.by_id = (IF Freed(z) THEN [i \in Clients |-> IF i = z.id THEN 0 ELSE G.by_id[i]] ELSE G.by_id)
      /\ E.for_free = (IF Freed(z) THEN <<c>> \o G.for_free ELSE G.for_free)
  <2> DEFINE w == G.context[c]
  <2>1. /\ c \notin Range(G.expiry_list) /\ G.last_check <= now
        /\ ~w.will => w.delay = 0
        /\ w.state \notin {"disconnected", "disused"}
    BY <1>3, <1>4, <1>5, <1>7 DEF SameTables, SameLists
  <2>2. /\ Only(G, E, c) /\ E.subs = G.subs
        /\ y.state = "disconnected" /\ y.sock = FALSE /\ y.will = Waits(w)
        /\ y.delay = (IF Waits(w) THEN w.delay ELSE 0)
        /\ y.expiry = w.expiry /\ y.subs = w.subs /\ y.v5 = w.v5 /\ y.clean = w.clean
        /\ y.id = (IF Freed(w) THEN NoId ELSE w.id)
        /\ E.sent[c] = (IF Sends(w) THEN G.sent[c] + 1 ELSE G.sent[c])
        /\ c \in Range(E.delay_list) <=> c \in Range(G.delay_list) \/ Waits(w)
        /\ c \in Range(E.expiry_list) <=> Tracked(w)
        /\ E.by_id = (IF Freed(w) THEN [i \in Clients |-> IF i = w.id THEN 0 ELSE G.by_id[i]] ELSE G.by_id)
        /\ E.for_free = (IF Freed(w) THEN <<c>> \o G.for_free ELSE G.for_free)
    BY <1>4, <2>1, DisconnectDoes
  <2> HIDE DEF E
  <2>3. w = z
    BY <1>5
  <2> HIDE DEF w
  <2> QED
    BY <2>2, <2>3
<1> HIDE DEF E
<1>9. Only(d, E, c)
  BY <1>6, <1>8, OnlyTwice
<1>10. /\ c \in Range(E.delay_list) <=> Waits(z)
       /\ E.sent[c] = (IF Sends(z) THEN d.sent[c] + 1 ELSE d.sent[c])
       /\ E.by_id = (IF Freed(z) THEN [i \in Clients |-> IF i = x.id THEN 0 ELSE d.by_id[i]] ELSE d.by_id)
       /\ E.for_free = (IF Freed(z) THEN <<c>> \o d.for_free ELSE d.for_free)
  <2>1. G.by_id = d.by_id /\ G.for_free = d.for_free /\ G.delay_list = d.delay_list /\ G.sent = d.sent
    BY <1>4 DEF SameTables, SameLists
  <2> QED
    BY <1>3, <1>8, <2>1
<1>11. /\ l2 \in Logs /\ \A e \in Conn : l2[e].client = l[e].client
       /\ \A e \in Conn : e # c => l2[e] = l[e]
       /\ l2[c].will = l[c].will /\ l2[c].end = (IF l[c].will THEN how ELSE l[c].end)
  <2>1. how \in Ends
    BY DEF Ends
  <2> QED
    BY <2>1, EndOfDoes
<1> HIDE DEF l2
<1>12. /\ IsInjective(E.for_free) /\ Range(E.for_free) \subseteq Conn
       /\ Range(E.for_free) \ {c} = Range(d.for_free) \ {c}
       /\ c \in Range(E.for_free) <=> Freed(z)
  <2>1. Range(d.for_free) \subseteq Conn
    BY <1>1, RangeOfSeq
  <2>2. CASE Freed(z)
    <3>1. E.for_free = <<c>> \o d.for_free
      BY <1>10, <2>2
    <3>2. IsInjective(E.for_free) /\ Range(E.for_free) = Range(d.for_free) \cup {c}
      BY <1>1, <1>3, <3>1, PutFirst
    <3> QED
      BY <2>1, <2>2, <3>2
  <2>3. CASE ~Freed(z)
    BY <1>3, <1>10, <2>1, <2>3
  <2> QED
    BY <2>2, <2>3
<1>13. Named(E)
  <2>1. \A e \in Conn : e # c => E.context[e] = d.context[e]
    BY <1>9 DEF Only
  <2>2. CASE Freed(z)
    BY <1>1, <1>8, <1>10, <2>1, <2>2, NamedGone, ZenonT(60)
  <2>3. CASE ~Freed(z)
    <3>1. E.context[c].id = d.context[c].id /\ E.by_id = d.by_id
      BY <1>8, <1>10, <2>3
    <3> QED
      BY <1>1, <2>1, <3>1, NamedKept
  <2> QED
    BY <2>2, <2>3
<1>14. Settled(y, E.sent[c], c \in Range(E.expiry_list), c \in Range(E.delay_list),
               c \in Range(E.for_free), l2[c], Later(l, c), k)
  <2>1. z.will \in BOOLEAN /\ z.delay \in Nat /\ z.expiry \in Nat /\ x.will \in BOOLEAN
    BY <1>1, ContextParts
  <2>2. /\ y.state = "disconnected" /\ y.sock = FALSE /\ y.will = Waits(z)
        /\ y.delay = (IF Waits(z) THEN z.delay ELSE 0) /\ y.expiry = z.expiry
        /\ y.id = (IF Freed(z) THEN NoId ELSE x.id)
        /\ l2[c].client = x.id /\ (c \in Range(E.expiry_list) <=> Tracked(z))
    BY <1>3, <1>8, <1>11
  <2>2a. \/ /\ z.state = "disconnecting" /\ z.will = FALSE /\ z.delay = 0 /\ how = "clean"
         \/ /\ z.state # "disconnecting" /\ how = "lost" /\ z.will = x.will /\ z.delay = x.delay
    OBVIOUS
  <2> HIDE DEF y, x
  <2>2b. /\ Waits(z) \/ Sends(z) => x.will /\ how = "lost"
         /\ ~(Waits(z) /\ Sends(z))
         /\ x.will /\ how = "lost" => Waits(z) \/ Sends(z)
    BY <2>1, <2>2a DEF Waits, Sends
  <2>2c. /\ Sends(z) => E.sent[c] = 1
         /\ ~Sends(z) => E.sent[c] = d.sent[c]
    BY <1>1, <1>3, <1>10, <2>2b
  <2>2d. (l2[c].will <=> x.will) /\ (x.will => l2[c].end = how) /\ (~x.will => l2[c].end = l[c].end)
    BY <1>3, <1>11
  <2>2e. y.will <=> Waits(z)
    BY <2>2
  <2>3. E.sent[c] <= 1 /\ (y.will => E.sent[c] = 0)
    BY <1>1, <1>3, <2>2b, <2>2c, <2>2e
  <2>4. l2[c].end = "clean" => E.sent[c] = 0 /\ ~y.will
    <3>1. CASE x.will
      BY <1>3, <2>2b, <2>2c, <2>2d, <2>2e, <3>1
    <3>2. CASE ~x.will
      BY <1>3, <2>2b, <2>2c, <2>2d, <2>2e, <3>2
    <3> QED
      BY <3>1, <3>2
  <2>5. l2[c].will /\ l2[c].end = "lost" => E.sent[c] > 0 \/ c \in Range(E.delay_list)
    <3>1. ASSUME l2[c].will, l2[c].end = "lost" PROVE Waits(z) \/ Sends(z)
      BY <2>2b, <2>2d, <3>1
    <3>2. Sends(z) => E.sent[c] > 0
      BY <2>2c
    <3> QED
      BY <1>10, <3>1, <3>2
  <2>6. y.id # NoId /\ (y.expiry # Never \/ ClientExpiry # 0)
        => c \in Range(E.expiry_list) \/ (y.expiry = 0 /\ c \in Range(E.delay_list))
    BY <1>3, <1>10, <2>1, <2>2 DEF Freed, Tracked
  <2>7. c \in Range(E.expiry_list) \/ c \in Range(E.delay_list) => y.id # NoId
    BY <1>3, <1>10, <2>1, <2>2 DEF Freed, Tracked
  <2>8. y.id = NoId <=> Freed(z)
    BY <1>3, <2>2
  <2>9. c \in Range(E.delay_list) <=> y.will
    BY <1>10, <2>2
  <2>10. c \in Range(E.expiry_list) => y.expiry # 0
    BY <2>2 DEF Tracked
  <2>11. ~y.will => y.delay = 0
    BY <2>2
  <2>12. y.id = NoId => ~y.will
    BY <2>2, <2>8 DEF Freed
  <2> QED
    BY <1>3, <1>12, <2>2, <2>3, <2>4, <2>5, <2>6, <2>7, <2>8, <2>9, <2>10, <2>11, <2>12 DEF Settled
<1>15. Sound(E, Range(E.for_free), l2, k)
  <2> HIDE DEF y
  <2>1. Settled(E.context[c], E.sent[c], c \in Range(E.expiry_list), c \in Range(E.delay_list),
                c \in Range(E.for_free), l2[c], Later(l, c), k)
    BY <1>14 DEF y
  <2> QED
    BY <1>9, <1>11, <1>12, <1>13, <2>1, SoundStep
<1>16. Cancelled(d, E, l)
  BY <1>3, <1>9 DEF Cancelled, Only
<1>17. E.last_check = d.last_check
  BY <1>9 DEF Only
<1> QED
  BY <1>12, <1>15, <1>16, <1>17 DEF E, G, l2

\* context__send_will for a will without delay.
LEMMA SendNow ==
    ASSUME NEW d, Good(d), NEW c \in Conn, now \in Nat, d.context[c].delay = 0,
           d.context[c].state # "disconnecting"
    PROVE  LET E == SendWill(d, c)
               x == d.context[c]
           IN  /\ Only(d, E, c) /\ SameTables(d, E) /\ E.expiry_list = d.expiry_list
               /\ Like(E.context[c], x) /\ E.context[c].state = x.state
               /\ E.context[c].expiry_time = x.expiry_time
               /\ E.context[c].will = FALSE /\ E.context[c].delay = 0
               /\ E.sent[c] = (IF x.will THEN d.sent[c] + 1 ELSE d.sent[c])
               /\ c \in Range(E.delay_list) <=> c \in Range(d.delay_list)
<1> DEFINE E == SendWill(d, c)
           x == d.context[c]
<1>1. /\ Only(d, E, c) /\ SameTables(d, E) /\ E.expiry_list = d.expiry_list
      /\ Like(E.context[c], x) /\ E.context[c].state = x.state
      /\ E.context[c].expiry_time = x.expiry_time
      /\ E.context[c].will = Waits(x) /\ E.context[c].delay = (IF Waits(x) THEN x.delay ELSE 0)
      /\ E.sent[c] = (IF Sends(x) THEN d.sent[c] + 1 ELSE d.sent[c])
      /\ c \in Range(E.delay_list) <=> c \in Range(d.delay_list) \/ Waits(x)
  BY SendWillDoes
<1>2. Waits(x) = FALSE /\ (Sends(x) <=> x.will)
  BY DEF Waits, Sends
<1> HIDE DEF E, x
<1> QED
  BY <1>1, <1>2 DEF E, x

\* A context that has left the lists is put on the list of those to free.
LEMMA DisusedSound ==
    ASSUME NEW d, NEW G, NEW l \in Logs, NEW k, NEW c \in Conn,
           Sound(d, Range(d.for_free), l, k), IsInjective(d.for_free), Only(d, G, c),
           G.by_id = d.by_id, G.for_free = d.for_free, G.context[c].id = d.context[c].id,
           d.context[c].id # NoId, ~G.context[c].sock, ~G.context[c].will, G.context[c].delay = 0,
           G.context[c].state # "disused",
           c \notin Range(G.expiry_list), c \notin Range(G.delay_list), G.sent[c] <= 1,
           l[c].end = "clean" => G.sent[c] = 0,
           l[c].client # NoId /\ l[c].will /\ l[c].end = "lost" => G.sent[c] > 0
    PROVE  LET E == AddToDisused(G, c)
           IN  /\ Sound(E, Range(E.for_free), l, k) /\ IsInjective(E.for_free)
               /\ Only(d, E, c) /\ E.sent[c] = G.sent[c]
               /\ E.expiry_list = G.expiry_list /\ E.delay_list = G.delay_list
<1> DEFINE E == AddToDisused(G, c)
           x == G.context[c]
           y == [x EXCEPT !.state = "disused", !.id = NoId]
<1>1. /\ Good(G) /\ G \in Mem /\ Good(d) /\ d \in Mem /\ Named(d)
  BY DEF Only, Sound, Good
<1>2. /\ x \in Context /\ d.by_id \in [Clients -> 0..MaxConn] /\ d.for_free \in Seq(Conn)
      /\ \A e \in Conn : d.context[e].id \in Clients \cup {NoId}
  BY <1>1, MemParts, ContextParts
<1>3. Settled(d.context[c], d.sent[c], c \in Range(d.expiry_list), c \in Range(d.delay_list),
              c \in Range(d.for_free), l[c], Later(l, c), k)
  BY DEF Sound
<1>4. c \notin Range(d.for_free) /\ l[c].client # NoId
  BY <1>2, <1>3, NeverAssumption DEF Settled
<1>5. /\ Only(G, E, c) /\ SameLists(G, E) /\ E.sent = G.sent /\ E.subs = G.subs
      /\ E.context[c] = y
      /\ E.by_id = [i \in Clients |-> IF i = x.id THEN 0 ELSE G.by_id[i]]
      /\ E.for_free = <<c>> \o G.for_free
  BY <1>1, AddToDisusedDoes, Zenon
<1>6. /\ y.state = "disused" /\ y.id = NoId /\ y.sock = x.sock /\ y.will = x.will
      /\ y.delay = x.delay /\ y.expiry = x.expiry
  BY <1>2 DEF Context
<1> HIDE DEF E, y
<1>7. Only(d, E, c)
  BY <1>5, OnlyTwice
<1>8. IsInjective(E.for_free) /\ Range(E.for_free) = Range(d.for_free) \cup {c}
  BY <1>2, <1>4, <1>5, PutFirst
<1>9. Range(E.for_free) \subseteq Conn /\ Range(E.for_free) \ {c} = Range(d.for_free) \ {c}
  BY <1>2, <1>8, RangeOfSeq
<1>10. Named(E)
  <2>1. /\ E.by_id = [i \in Clients |-> IF i = d.context[c].id THEN 0 ELSE d.by_id[i]]
        /\ E.context[c].id = NoId
    BY <1>5, <1>6
  <2>2. \A e \in Conn : e # c => E.context[e] = d.context[e]
    BY <1>7 DEF Only
  <2>3. d.by_id \in [Clients -> 0..MaxConn] /\ \A e \in Conn : d.context[e].id \in Clients \cup {NoId}
    BY <1>2
  <2> HIDE DEF x
  <2> QED
    BY <1>1, <2>1, <2>2, <2>3, NamedGone
<1>11. Settled(E.context[c], E.sent[c], c \in Range(E.expiry_list), c \in Range(E.delay_list),
               c \in Range(E.for_free), l[c], Later(l, c), k)
  <2>1. c \notin Range(E.expiry_list) /\ c \notin Range(E.delay_list) /\ c \in Range(E.for_free)
    BY <1>5, <1>8 DEF SameLists
  <2>2. E.sent[c] = G.sent[c] /\ E.context[c] = y
    BY <1>5
  <2> QED
    BY <1>4, <1>6, <2>1, <2>2 DEF Settled
<1>12. Sound(E, Range(E.for_free), l, k)
  BY <1>7, <1>9, <1>10, <1>11, SoundStep
<1> QED
  BY <1>5, <1>7, <1>8, <1>12 DEF E, SameLists

\* The loop of session_expiry__check over one session.
LEMMA ExpireSound ==
    ASSUME NEW d, NEW l \in Logs, NEW k, NEW c \in Conn, now \in Nat,
           Sound(d, Range(d.for_free), l, k), IsInjective(d.for_free), c \in Range(d.expiry_list)
    PROVE  LET E == ExpireSession(d, c)
           IN  /\ Sound(E, Range(E.for_free), l, k) /\ IsInjective(E.for_free)
               /\ Only(d, E, c) /\ Cancelled(d, E, l) /\ c \notin Range(E.expiry_list)
<1> DEFINE E == ExpireSession(d, c)
           x == d.context[c]
           d1 == SessionExpiryRemove(d, c)
           d2 == WillDelayRemove(d1, c)
           z == [x EXCEPT !.expiry = 0, !.delay = 0]
           d3 == [d2 EXCEPT !.context[c] = z]
           d4 == SendWill(d3, c)
<1>1. Good(d) /\ d \in Mem /\ d.context \in [Conn -> Context] /\ x \in Context
  <2>1. Good(d) /\ d \in Mem
    BY DEF Sound, Good
  <2> QED
    BY <2>1, MemParts
<1>2. Settled(x, d.sent[c], c \in Range(d.expiry_list), c \in Range(d.delay_list),
              c \in Range(d.for_free), l[c], Later(l, c), k)
  BY DEF Sound
<1>3. /\ ~x.sock /\ x.id # NoId /\ x.state \in {"new", "disconnected"} /\ ~Later(l, c)
      /\ d.sent[c] <= 1 /\ (x.will => d.sent[c] = 0) /\ (l[c].end = "clean" => d.sent[c] = 0 /\ ~x.will)
      /\ l[c].client # NoId /\ l[c].will /\ l[c].end = "lost" => d.sent[c] > 0 \/ x.will
  BY <1>2 DEF Settled, FreeContext
<1>4. /\ Only(d, d1, c) /\ SameTables(d, d1) /\ d1.sent = d.sent /\ d1.context = d.context
      /\ c \notin Range(d1.expiry_list)
  BY <1>1, SessionExpiryRemoveDoes
<1> HIDE DEF d1
<1>5. /\ Only(d1, d2, c) /\ SameTables(d1, d2) /\ d2.expiry_list = d1.expiry_list /\ d2.sent = d1.sent
      /\ d2.context = d1.context /\ c \notin Range(d2.delay_list)
  <2>1. Good(d1)
    BY <1>4 DEF Only
  <2> QED
    BY <2>1, WillDelayRemoveDoes
<1>6. E = AddToDisused(SendWill([d2 EXCEPT !.context[c].expiry = 0, !.context[c].delay = 0], c), c)
  BY DEF ExpireSession, d1
<1> HIDE DEF d2
<1>7. Good(d2) /\ d2 \in Mem /\ d2.context[c] = x /\ d2.context = d.context
  BY <1>4, <1>5 DEF Only, Good
<1>8. [d2 EXCEPT !.context[c].expiry = 0, !.context[c].delay = 0] = d3
  BY <1>7 DEF Mem
<1>9. E = AddToDisused(d4, c)
  BY <1>6, <1>8
<1>10. /\ z \in Context /\ z.expiry = 0 /\ z.delay = 0 /\ z.subs = x.subs /\ z.state = x.state
       /\ z.expiry_time = x.expiry_time /\ z.id = x.id /\ z.sock = x.sock /\ z.will = x.will
  BY <1>1 DEF Context
<1> HIDE DEF z, E
<1>11. /\ Good(d3) /\ SameTables(d2, d3) /\ SameLists(d2, d3) /\ d3.sent = d2.sent
       /\ d3.context = [d2.context EXCEPT ![c] = z]
  BY <1>7, <1>10, NewContext
<1> HIDE DEF d3
<1>12. d3.context[c] = z /\ \A e \in Conn : e # c => d3.context[e] = d2.context[e]
  BY <1>1, <1>7, <1>11
<1>13. Only(d, d3, c)
  <2>1. Only(d2, d3, c)
    BY <1>11, <1>12 DEF Only, SameTables, SameLists
  <2> QED
    BY <1>4, <1>5, <2>1, OnlyTwice
<1>14. /\ Only(d3, d4, c) /\ SameTables(d3, d4) /\ d4.expiry_list = d3.expiry_list
       /\ Like(d4.context[c], z) /\ d4.context[c].state = z.state
       /\ d4.context[c].will = FALSE /\ d4.context[c].delay = 0
       /\ d4.sent[c] = (IF z.will THEN d3.sent[c] + 1 ELSE d3.sent[c])
       /\ c \in Range(d4.delay_list) <=> c \in Range(d3.delay_list)
  <2> DEFINE w == d3.context[c]
  <2>1. w.delay = 0 /\ w.state # "disconnecting"
    BY <1>3, <1>10, <1>12
  <2>2. /\ Only(d3, d4, c) /\ SameTables(d3, d4) /\ d4.expiry_list = d3.expiry_list
        /\ Like(d4.context[c], w) /\ d4.context[c].state = w.state
        /\ d4.context[c].expiry_time = w.expiry_time
        /\ d4.context[c].will = FALSE /\ d4.context[c].delay = 0
        /\ d4.sent[c] = (IF w.will THEN d3.sent[c] + 1 ELSE d3.sent[c])
        /\ c \in Range(d4.delay_list) <=> c \in Range(d3.delay_list)
    BY <1>11, <2>1, SendNow
  <2>3. w = z
    BY <1>12
  <2> HIDE DEF w, d4
  <2> QED
    BY <2>2, <2>3
<1> HIDE DEF d4
<1>15. Only(d, d4, c)
  BY <1>13, <1>14, OnlyTwice
<1>16. /\ c \notin Range(d4.expiry_list) /\ c \notin Range(d4.delay_list)
       /\ d4.by_id = d.by_id /\ d4.for_free = d.for_free
       /\ d4.sent[c] = (IF x.will THEN d.sent[c] + 1 ELSE d.sent[c])
  BY <1>4, <1>5, <1>10, <1>11, <1>14 DEF SameTables, SameLists
<1>17. d4.context[c].id = x.id /\ ~d4.context[c].sock /\ d4.context[c].state # "disused"
  BY <1>3, <1>10, <1>14 DEF Like
<1>18. d.sent[c] \in Nat
  BY <1>1, MemParts
<1>19. /\ d4.sent[c] <= 1 /\ (l[c].end = "clean" => d4.sent[c] = 0)
       /\ l[c].client # NoId /\ l[c].will /\ l[c].end = "lost" => d4.sent[c] > 0
  <2>1. CASE x.will
    BY <1>3, <1>16, <1>18, <2>1
  <2>2. CASE ~x.will
    BY <1>3, <1>16, <1>18, <2>2
  <2> QED
    BY <2>1, <2>2
<1>20. /\ Sound(E, Range(E.for_free), l, k) /\ IsInjective(E.for_free)
       /\ Only(d, E, c) /\ E.expiry_list = d4.expiry_list
  <2>1. ~d4.context[c].will /\ d4.context[c].delay = 0 /\ d.context[c].id # NoId
        /\ d4.context[c].id = d.context[c].id
    BY <1>3, <1>14, <1>17
  <2> QED
    BY <1>9, <1>15, <1>16, <1>17, <1>19, <2>1, DisusedSound
<1>21. Cancelled(d, E, l)
  BY <1>3, <1>20 DEF Cancelled, Only
<1> QED
  BY <1>16, <1>20, <1>21 DEF E

\* The loop of will_delay__check over one context.
LEMMA DelayedSound ==
    ASSUME NEW d, NEW l \in Logs, NEW k, NEW c \in Conn, now \in Nat,
           Sound(d, Range(d.for_free), l, k), IsInjective(d.for_free), c \in Range(d.delay_list)
    PROVE  LET E == SendDelayedWill(d, c)
           IN  /\ Sound(E, Range(E.for_free), l, k) /\ IsInjective(E.for_free)
               /\ Only(d, E, c) /\ Cancelled(d, E, l) /\ c \notin Range(E.delay_list)
               /\ E.expiry_list = d.expiry_list
               /\ c \in Range(d.expiry_list) => E.context[c].expiry_time = d.context[c].expiry_time
<1> DEFINE E == SendDelayedWill(d, c)
           x == d.context[c]
           d2 == WillDelayRemove(d, c)
           z == [x EXCEPT !.delay = 0]
           d3 == [d2 EXCEPT !.context[c] = z]
           d4 == SendWill(d3, c)
<1>1. Good(d) /\ d \in Mem /\ d.context \in [Conn -> Context] /\ x \in Context
  <2>1. Good(d) /\ d \in Mem
    BY DEF Sound, Good
  <2> QED
    BY <2>1, MemParts
<1>2. Settled(x, d.sent[c], c \in Range(d.expiry_list), c \in Range(d.delay_list),
              c \in Range(d.for_free), l[c], Later(l, c), k)
  BY DEF Sound
<1>3. /\ ~x.sock /\ x.id # NoId /\ x.state \in {"new", "disconnected"} /\ ~Later(l, c)
      /\ x.will /\ d.sent[c] = 0 /\ l[c].end # "clean" /\ c \notin Range(d.for_free)
      /\ c \in Range(d.expiry_list) => x.expiry # 0
      /\ x.state # "new" /\ (x.expiry # Never \/ ClientExpiry # 0) /\ x.expiry # 0 => c \in Range(d.expiry_list)
      /\ l[c].client = x.id /\ (x.state = "new" => k > 0)
  BY <1>2 DEF Settled, FreeContext
<1>5. /\ Only(d, d2, c) /\ SameTables(d, d2) /\ d2.expiry_list = d.expiry_list /\ d2.sent = d.sent
      /\ d2.context = d.context /\ c \notin Range(d2.delay_list)
  BY <1>1, WillDelayRemoveDoes
<1>6. E = LET g == SendWill([d2 EXCEPT !.context[c].delay = 0], c)
          IN  IF g.context[c].expiry = 0 THEN AddToDisused(g, c) ELSE g
  BY DEF SendDelayedWill
<1> HIDE DEF d2
<1>7. Good(d2) /\ d2 \in Mem /\ d2.context[c] = x /\ d2.context = d.context
  BY <1>5 DEF Only, Good
<1>8. [d2 EXCEPT !.context[c].delay = 0] = d3
  BY <1>7 DEF Mem
<1>9. E = IF d4.context[c].expiry = 0 THEN AddToDisused(d4, c) ELSE d4
  BY <1>6, <1>8
<1>10. /\ z \in Context /\ z.expiry = x.expiry /\ z.delay = 0 /\ z.subs = x.subs /\ z.state = x.state
       /\ z.expiry_time = x.expiry_time /\ z.id = x.id /\ z.sock = x.sock /\ z.will = x.will
  BY <1>1 DEF Context
<1> HIDE DEF z, E
<1>11. /\ Good(d3) /\ SameTables(d2, d3) /\ SameLists(d2, d3) /\ d3.sent = d2.sent
       /\ d3.context = [d2.context EXCEPT ![c] = z]
  BY <1>7, <1>10, NewContext
<1> HIDE DEF d3
<1>12. d3.context[c] = z /\ \A e \in Conn : e # c => d3.context[e] = d2.context[e]
  BY <1>1, <1>7, <1>11
<1>13. Only(d, d3, c)
  <2>1. Only(d2, d3, c)
    BY <1>11, <1>12 DEF Only, SameTables, SameLists
  <2> QED
    BY <1>5, <2>1, OnlyTwice
<1>14. /\ Only(d3, d4, c) /\ SameTables(d3, d4) /\ d4.expiry_list = d3.expiry_list
       /\ Like(d4.context[c], z) /\ d4.context[c].state = z.state
       /\ d4.context[c].expiry_time = z.expiry_time
       /\ d4.context[c].will = FALSE /\ d4.context[c].delay = 0
       /\ d4.sent[c] = (IF z.will THEN d3.sent[c] + 1 ELSE d3.sent[c])
       /\ c \in Range(d4.delay_list) <=> c \in Range(d3.delay_list)
  <2> DEFINE w == d3.context[c]
  <2>1. w.delay = 0 /\ w.state # "disconnecting"
    BY <1>3, <1>10, <1>12
  <2>2. /\ Only(d3, d4, c) /\ SameTables(d3, d4) /\ d4.expiry_list = d3.expiry_list
        /\ Like(d4.context[c], w) /\ d4.context[c].state = w.state
        /\ d4.context[c].expiry_time = w.expiry_time
        /\ d4.context[c].will = FALSE /\ d4.context[c].delay = 0
        /\ d4.sent[c] = (IF w.will THEN d3.sent[c] + 1 ELSE d3.sent[c])
        /\ c \in Range(d4.delay_list) <=> c \in Range(d3.delay_list)
    BY <1>11, <2>1, SendNow
  <2>3. w = z
    BY <1>12
  <2> HIDE DEF w, d4
  <2> QED
    BY <2>2, <2>3
<1> HIDE DEF d4
<1>15. Only(d, d4, c)
  BY <1>13, <1>14, OnlyTwice
<1>16. /\ d4.expiry_list = d.expiry_list /\ c \notin Range(d4.delay_list)
       /\ d4.by_id = d.by_id /\ d4.for_free = d.for_free /\ d4.sent[c] = 1
  <2>1. d4.sent[c] = d.sent[c] + 1
    BY <1>3, <1>5, <1>10, <1>11, <1>14
  <2>2. d4.sent[c] = 1
    BY <1>3, <2>1
  <2> QED
    BY <1>5, <1>11, <1>14, <2>2 DEF SameTables, SameLists
<1>17. /\ d4.context[c].id = x.id /\ ~d4.context[c].sock /\ d4.context[c].state = x.state
       /\ d4.context[c].expiry = x.expiry /\ ~d4.context[c].will /\ d4.context[c].delay = 0
       /\ d4.context[c].expiry_time = x.expiry_time
  BY <1>3, <1>10, <1>14 DEF Like
<1>18. CASE x.expiry = 0
  <2>1. E = AddToDisused(d4, c)
    BY <1>9, <1>17, <1>18
  <2>2. /\ c \notin Range(d4.expiry_list) /\ d4.context[c].state # "disused" /\ d.context[c].id # NoId
        /\ d4.context[c].id = d.context[c].id /\ d4.sent[c] <= 1 /\ d4.sent[c] > 0
    BY <1>3, <1>16, <1>17, <1>18
  <2>3. /\ Sound(E, Range(E.for_free), l, k) /\ IsInjective(E.for_free)
        /\ Only(d, E, c) /\ E.expiry_list = d4.expiry_list /\ E.delay_list = d4.delay_list
    BY <1>3, <1>15, <1>16, <1>17, <2>1, <2>2, DisusedSound
  <2>4. Cancelled(d, E, l)
    BY <1>3, <2>3 DEF Cancelled, Only
  <2>5. c \notin Range(d.expiry_list)
    BY <1>3, <1>18
  <2> QED
    BY <1>16, <2>3, <2>4, <2>5 DEF E
<1>19. CASE x.expiry # 0
  <2>1. E = d4
    BY <1>9, <1>17, <1>19
  <2>2. Named(d4)
    <3>1. \A e \in Conn : e # c => d4.context[e] = d.context[e]
      BY <1>15 DEF Only
    <3>2. Named(d) /\ d.by_id \in [Clients -> 0..MaxConn] /\ d4.context[c].id = d.context[c].id
      BY <1>1, <1>17, MemParts DEF Sound
    <3> QED
      BY <1>16, <3>1, <3>2, NamedKept
  <2>3. Settled(d4.context[c], d4.sent[c], c \in Range(d4.expiry_list), c \in Range(d4.delay_list),
                c \in Range(d4.for_free), l[c], Later(l, c), k)
    <3>0. c \in Range(d4.expiry_list) <=> c \in Range(d.expiry_list)
      BY <1>16
    <3>1. c \notin Range(d4.for_free) /\ 1 > 0 /\ x.id \in Clients
      BY <1>1, <1>3, <1>16, ContextParts
    <3> HIDE DEF x
    <3>2. l[c].client # NoId /\ x.id # NoId
      BY <1>3
    <3> QED
      BY <1>3, <1>16, <1>17, <1>19, <3>0, <3>1, <3>2 DEF Settled
  <2>4. Range(d4.for_free) \subseteq Conn /\ Range(d4.for_free) \ {c} = Range(d.for_free) \ {c}
    BY <1>1, <1>16, MemParts, RangeOfSeq
  <2>5. Sound(d4, Range(d4.for_free), l, k)
    BY <1>15, <2>2, <2>3, <2>4, SoundStep
  <2>6. Cancelled(d, d4, l)
    BY <1>3, <1>15 DEF Cancelled, Only
  <2>7. IsInjective(d4.for_free)
    BY <1>16
  <2> QED
    BY <1>15, <1>16, <1>17, <2>1, <2>5, <2>6, <2>7 DEF E
<1> QED
  BY <1>18, <1>19

LEMMA FreeContextType == FreeContext \in Context
<1>1. {} \in SUBSET Ref /\ NoId \in Clients \cup {NoId} /\ 0 \in Nat
  OBVIOUS
<1> QED
  BY <1>1 DEF FreeContext, Context, States

\* The loop of context__free_disused over one context.
LEMMA CleanupSound ==
    ASSUME NEW d, NEW F, NEW l, NEW k, NEW c \in F, Sound(d, F, l, k)
    PROVE  LET E == Cleanup(d, c)
           IN  /\ Sound(E, F \ {c}, l, k) /\ E.for_free = d.for_free
               /\ E.last_check = d.last_check /\ E.sent = d.sent
<1> DEFINE E == Cleanup(d, c)
           x == d.context[c]
           d0 == CleanSession(d, c)
           x0 == [x EXCEPT !.subs = {}]
           G == [d0 EXCEPT !.context[c] = FreeContext]
<1>0. c \in Conn /\ F \subseteq Conn
  BY DEF Sound
<1>1. Good(d) /\ d \in Mem /\ d.context \in [Conn -> Context] /\ x \in Context
      /\ d.by_id \in [Clients -> 0..MaxConn]
  <2>1. Good(d) /\ d \in Mem
    BY DEF Sound, Good
  <2> QED
    BY <1>0, <2>1, MemParts
<1>2. Settled(x, d.sent[c], c \in Range(d.expiry_list), c \in Range(d.delay_list),
              c \in F, l[c], Later(l, c), k)
  BY <1>0 DEF Sound
<1>3. x.id = NoId /\ ~x.will /\ c \notin Range(d.expiry_list) /\ c \notin Range(d.delay_list)
  BY <1>2 DEF Settled
<1>4. /\ Only(d, d0, c) /\ SameLists(d, d0) /\ d0.sent = d.sent
      /\ d0.by_id = d.by_id /\ d0.for_free = d.for_free /\ d0.context[c] = x0
  BY <1>0, <1>1, CleanSessionDoes
<1>5. x0.subs = {} /\ x0.will = x.will
  BY <1>1 DEF Context
<1>6. E = [SendWill(d0, c) EXCEPT !.context[c] = FreeContext,
                !.by_id = [i \in Clients |-> IF i = x.id THEN 0 ELSE @[i]]]
  BY DEF Cleanup
<1> HIDE DEF d0, x0, E
<1>7. Good(d0) /\ d0 \in Mem /\ d0.context \in [Conn -> Context] /\ d0.by_id \in [Clients -> 0..MaxConn]
  <2>1. Good(d0) /\ d0 \in Mem
    BY <1>4, SMTT(30) DEF Only, Good
  <2> QED
    BY <2>1, MemParts
<1>8. SendWill(d0, c) = d0
  <2>1. ~d0.context[c].will
    BY <1>3, <1>4, <1>5
  <2> QED
    BY <2>1 DEF SendWill, WillClear
<1>9. [i \in Clients |-> IF i = x.id THEN 0 ELSE d0.by_id[i]] = d0.by_id
  BY <1>3, <1>7, NeverAssumption
<1>10. E = G
  <2>1. E = [d0 EXCEPT !.context[c] = FreeContext, !.by_id = d0.by_id]
    BY <1>6, <1>8, <1>9
  <2> QED
    BY <1>7, <2>1 DEF Mem
<1>11. FreeContext \in Context /\ FreeContext.subs = {} /\ FreeContext.id = NoId
       /\ FreeContext.state = "free" /\ FreeContext.will = FALSE /\ FreeContext.sock = FALSE
       /\ FreeContext.delay = 0
  BY FreeContextType DEF FreeContext
<1>12. /\ Good(G) /\ SameTables(d0, G) /\ SameLists(d0, G) /\ G.sent = d0.sent
       /\ G.context = [d0.context EXCEPT ![c] = FreeContext]
  <2>1. c \notin Range(d0.expiry_list) /\ FreeContext.subs = d0.context[c].subs
    BY <1>3, <1>4, <1>5, <1>11 DEF SameLists
  <2> DEFINE y == FreeContext
  <2>2. y \in Context /\ y.subs = d0.context[c].subs
    BY <1>11, <2>1
  <2> HIDE DEF y
  <2>3. LET H == [d0 EXCEPT !.context[c] = y]
        IN  /\ Good(H) /\ SameTables(d0, H) /\ SameLists(d0, H) /\ H.sent = d0.sent
            /\ H.context = [d0.context EXCEPT ![c] = y]
    BY <1>0, <1>7, <2>1, <2>2, NewContext
  <2> QED
    BY <2>3 DEF y
<1> HIDE DEF G
<1>13. G.context[c] = FreeContext /\ \A e \in Conn : e # c => G.context[e] = d0.context[e]
  BY <1>0, <1>7, <1>12
<1>14. Only(d, G, c)
  <2>1. Only(d0, G, c)
    BY <1>12, <1>13 DEF Only, SameTables, SameLists
  <2> QED
    BY <1>4, <2>1, OnlyTwice
<1>15. G.sent = d.sent /\ G.for_free = d.for_free /\ G.by_id = d.by_id /\ G.last_check = d.last_check
       /\ G.expiry_list = d.expiry_list /\ G.delay_list = d.delay_list
  BY <1>4, <1>12, <1>14 DEF SameTables, SameLists, Only
<1>16. Named(G)
  <2>1. \A e \in Conn : e # c => G.context[e] = d.context[e]
    BY <1>14 DEF Only
  <2>2. Named(d) /\ G.context[c].id = d.context[c].id
    BY <1>3, <1>11, <1>13 DEF Sound
  <2> QED
    BY <1>0, <1>1, <1>15, <2>1, <2>2, NamedKept
<1>17. Settled(G.context[c], G.sent[c], c \in Range(G.expiry_list), c \in Range(G.delay_list),
               c \in F \ {c}, l[c], Later(l, c), k)
  <2>1. /\ d.sent[c] <= 1 /\ (l[c].client = NoId => d.sent[c] = 0) /\ (l[c].end = "clean" => d.sent[c] = 0)
        /\ l[c].client # NoId /\ l[c].will /\ l[c].end = "lost" => d.sent[c] > 0 \/ Later(l, c)
    BY <1>2, <1>3 DEF Settled
  <2>2. G.sent[c] = d.sent[c] /\ c \notin Range(G.expiry_list) /\ c \notin Range(G.delay_list)
    BY <1>3, <1>15
  <2> QED
    BY <1>11, <1>13, <2>1, <2>2 DEF Settled
<1>18. Sound(G, F \ {c}, l, k)
  <2> DEFINE F2 == F \ {c}
  <2>1. F2 \subseteq Conn /\ F2 \ {c} = F \ {c}
    BY <1>0
  <2>2. Settled(G.context[c], G.sent[c], c \in Range(G.expiry_list), c \in Range(G.delay_list),
               c \in F2, l[c], Later(l, c), k)
    BY <1>17
  <2> HIDE DEF F2
  <2>3. Sound(G, F2, l, k)
    BY <1>0, <1>14, <1>16, <2>1, <2>2, SoundStep
  <2> QED
    BY <2>3 DEF F2
<1> QED
  BY <1>10, <1>15, <1>18 DEF E
----------------------------------------------------------------------------
(* The loops of one turn of the main loop.  e holds what a loop starts     *)
(* with: base, the memory; list; l, the history; k, the restarts.          *)

\* The elements of a list that a loop has not come to after n of them.
Rest(list, n) == {c \in Range(list) : \A m \in 1..n : list[m] # c}

ExpiryInv(e, n, d) ==
    /\ Sound(d, Range(d.for_free), e.l, e.k) /\ IsInjective(d.for_free)
    /\ d.last_check = e.base.last_check /\ Cancelled(e.base, d, e.l)
    /\ \A c \in Conn : c \in Range(d.expiry_list) <=>
          c \in Range(e.base.expiry_list) /\ \A m \in 1..n : e.list[m] # c
    /\ \A c \in Range(d.expiry_list) : d.context[c].expiry_time = e.base.context[c].expiry_time

ExpiryLoop == INSTANCE Loops WITH
    Op  <- LAMBDA e, d, c : ExpireSession(d, c),
    Inv <- ExpiryInv

DelayInv(e, n, d) ==
    /\ Sound(d, Range(d.for_free), e.l, e.k) /\ IsInjective(d.for_free)
    /\ d.last_check = e.base.last_check /\ Cancelled(e.base, d, e.l)
    /\ d.expiry_list = e.base.expiry_list
    /\ \A c \in Conn : c \in Range(d.delay_list) <=>
          c \in Range(e.base.delay_list) /\ \A m \in 1..n : e.list[m] # c
    /\ \A c \in Range(d.expiry_list) : d.context[c].expiry_time = e.base.context[c].expiry_time

DelayLoop == INSTANCE Loops WITH
    Op  <- LAMBDA e, d, c : SendDelayedWill(d, c),
    Inv <- DelayInv

FreeInv(e, n, d) ==
    /\ Sound(d, Rest(e.list, n), e.l, e.k) /\ d.for_free = <<>>
    /\ d.last_check = e.base.last_check /\ d.sent = e.base.sent

FreeLoop == INSTANCE Loops WITH
    Op  <- LAMBDA e, d, c : Cleanup(d, c),
    Inv <- FreeInv

LEMMA CancelledTwice ==
    ASSUME NEW d, NEW E, NEW G, NEW l, Cancelled(d, E, l), Cancelled(E, G, l)
    PROVE  Cancelled(d, G, l)
BY DEF Cancelled

LEMMA DueFirstDoes ==
    ASSUME NEW s \in Seq(Conn), NEW time
    PROVE  LET t == DueFirst(s, time)
           IN  /\ t \in Seq(Conn) /\ Len(t) \in 0..Len(s) /\ \A i \in 1..Len(t) : t[i] = s[i]
               /\ Len(t) < Len(s) => ~(time[s[Len(t) + 1]] < now)
<1>0. Len(s) \in Nat /\ DOMAIN s = 1..Len(s)
  BY LenProperties
<1> DEFINE P == {j \in 1..Len(s) : time[s[j]] < now}
           n == Cardinality({i \in 1..Len(s) : \A j \in 1..i : j \in P})
           t == DueFirst(s, time)
<1>1. n \in 0..Len(s) /\ (n < Len(s) => n + 1 \notin P)
  <2> HIDE DEF P
  <2> QED
    BY <1>0, FrontLength
<1>2. {i \in DOMAIN s : \A j \in 1..i : time[s[j]] < now} = {i \in 1..Len(s) : \A j \in 1..i : j \in P}
  <2>1. \A i \in 1..Len(s) : \A j \in 1..i : j \in 1..Len(s)
    BY <1>0
  <2> QED
    BY <1>0, <2>1
<1>3. t = SubSeq(s, 1, n)
  BY <1>2 DEF DueFirst
<1>4. n < Len(s) => ~(time[s[n + 1]] < now)
  BY <1>0, <1>1
<1> HIDE DEF n, P, t
<1>5. t \in Seq(Conn) /\ Len(t) = n /\ \A i \in 1..n : t[i] = s[i]
  BY <1>1, <1>3, Cut
<1> QED
  BY <1>1, <1>4, <1>5 DEF t

\* session_expiry__check: what is due is gone.
LEMMA ExpiryCheckSound ==
    ASSUME NEW d, NEW l \in Logs, NEW k, now \in Nat, Sound(d, Range(d.for_free), l, k),
           IsInjective(d.for_free)
    PROVE  LET E == SessionExpiryCheck(d)
           IN  /\ Sound(E, Range(E.for_free), l, k) /\ IsInjective(E.for_free)
               /\ E.last_check = d.last_check /\ Cancelled(d, E, l)
               /\ \A c \in Range(E.expiry_list) : E.context[c].expiry_time >= now
<1> DEFINE E == SessionExpiryCheck(d)
           time == [c \in DOMAIN d.context |-> d.context[c].expiry_time]
           s == d.expiry_list
           list == DueFirst(s, time)
           e == [base |-> d, list |-> list, l |-> l, k |-> k]
<1>1. /\ Good(d) /\ d \in Mem /\ d.context \in [Conn -> Context] /\ s \in Seq(Conn) /\ IsInjective(s)
      /\ Ordered(s, d.context) /\ \A c \in Conn : d.context[c].expiry_time \in Nat
  <2>1. Good(d) /\ d \in Mem /\ IsInjective(s) /\ Ordered(s, d.context)
    BY DEF Sound, Good, Timers
  <2> QED
    BY <2>1, MemParts, ContextParts
<1>1a. \A c \in Conn : time[c] = d.context[c].expiry_time
  BY <1>1
<1> HIDE DEF time
<1>2. /\ list \in Seq(Conn) /\ Len(list) \in 0..Len(s) /\ \A i \in 1..Len(list) : list[i] = s[i]
      /\ Len(list) < Len(s) => ~(time[s[Len(list) + 1]] < now)
  BY <1>1, DueFirstDoes
<1>3. E = ExpiryLoop!OverList(e, d, list)
  BY DEF time, SessionExpiryCheck, ExpiryLoop!OverList, FoldLeft, ExpiryLoop!FoldLeft, MapThenFoldSet,
         ExpiryLoop!MapThenFoldSet, Max, ExpiryLoop!Max
<1>4. e.base = d /\ e.list = list /\ e.l = l /\ e.k = k
  OBVIOUS
<1> HIDE DEF e, E, list
<1>5. Len(s) \in Nat /\ DOMAIN s = 1..Len(s) /\ \A i \in 1..Len(s) : s[i] \in Conn /\ s[i] \in Range(s)
  BY <1>1, LenProperties, ElementOfSeq DEF Range
<1>6. ExpiryInv(e, 0, d)
  BY <1>4 DEF ExpiryInv, Cancelled
<1>7. ASSUME NEW n \in 1..Len(list), NEW g, ExpiryInv(e, n - 1, g)
      PROVE  ExpiryInv(e, n, ExpireSession(g, list[n]))
  <2> DEFINE c == list[n]
             G == ExpireSession(g, c)
  <2>0. n \in Nat /\ n \in 1..Len(s) /\ c = s[n] /\ c \in Conn /\ c \in Range(s)
    BY <1>2, <1>5
  <2>1. /\ Sound(g, Range(g.for_free), l, k) /\ IsInjective(g.for_free)
        /\ g.last_check = d.last_check /\ Cancelled(d, g, l)
        /\ \A x \in Conn : x \in Range(g.expiry_list) <=> x \in Range(s) /\ \A m \in 1..(n - 1) : list[m] # x
        /\ \A x \in Range(g.expiry_list) : g.context[x].expiry_time = d.context[x].expiry_time
    BY <1>4, <1>7 DEF ExpiryInv
  <2>2. \A m \in 1..(n - 1) : list[m] # c
    <3> SUFFICES ASSUME NEW m \in 1..(n - 1), list[m] = c PROVE FALSE
      OBVIOUS
    <3>1. m \in 1..Len(s) /\ m \in 1..Len(list) /\ m # n
      BY <1>2, <1>5, <2>0
    <3>2. list[m] = s[m]
      BY <1>2, <3>1
    <3> QED
      BY <1>1, <1>5, <2>0, <3>1, <3>2 DEF IsInjective
  <2>3. c \in Range(g.expiry_list)
    BY <2>0, <2>1, <2>2
  <2> HIDE DEF c
  <2>4. /\ Sound(G, Range(G.for_free), l, k) /\ IsInjective(G.for_free)
        /\ Only(g, G, c) /\ Cancelled(g, G, l) /\ c \notin Range(G.expiry_list)
    BY <2>0, <2>1, <2>3, ExpireSound
  <2> HIDE DEF G
  <2>5. G.last_check = d.last_check /\ Cancelled(d, G, l)
    BY <2>1, <2>4, CancelledTwice DEF Only
  <2>6. ASSUME NEW x \in Conn
        PROVE  x \in Range(G.expiry_list) <=> x \in Range(s) /\ \A m \in 1..n : list[m] # x
    <3>1. (\A m \in 1..n : list[m] # x) <=> (\A m \in 1..(n - 1) : list[m] # x) /\ c # x
      <4>1. \A m \in 1..n : m \in 1..(n - 1) \/ m = n
        BY <2>0
      <4>2. n \in 1..n /\ \A m \in 1..(n - 1) : m \in 1..n
        BY <2>0
      <4> QED
        BY <4>1, <4>2 DEF c
    <3>2. CASE x = c
      BY <2>4, <3>1, <3>2
    <3>3. CASE x # c
      BY <2>1, <2>4, <3>1, <3>3 DEF Only
    <3> QED
      BY <3>2, <3>3
  <2>7. ASSUME NEW x \in Range(G.expiry_list) PROVE G.context[x].expiry_time = d.context[x].expiry_time
    <3>1. x \in Conn /\ x # c
      <4>1. G.expiry_list \in Seq(Conn)
        BY <2>4, MemParts DEF Only, Good
      <4> QED
        BY <2>4, <4>1, RangeOfSeq
    <3> QED
      BY <2>1, <2>4, <3>1 DEF Only
  <2>8. ExpiryInv(e, n, G)
    BY <1>4, <2>4, <2>5, <2>6, <2>7 DEF ExpiryInv
  <2> QED
    BY <2>8 DEF G, c
<1>8. \A n \in 1..Len(list) : \A g : ExpiryInv(e, n - 1, g) => ExpiryInv(e, n, ExpireSession(g, list[n]))
  BY <1>7
<1>9. ExpiryInv(e, Len(list), E)
  BY <1>2, <1>3, <1>6, <1>8, ExpiryLoop!ListLoop
<1>10. /\ Sound(E, Range(E.for_free), l, k) /\ IsInjective(E.for_free)
       /\ E.last_check = d.last_check /\ Cancelled(d, E, l)
       /\ \A x \in Conn : x \in Range(E.expiry_list) <=> x \in Range(s) /\ \A m \in 1..Len(list) : list[m] # x
       /\ \A x \in Range(E.expiry_list) : E.context[x].expiry_time = d.context[x].expiry_time
  BY <1>4, <1>9 DEF ExpiryInv
<1>11. ASSUME NEW c \in Range(E.expiry_list) PROVE E.context[c].expiry_time >= now
  <2>0. c \in Conn
    <3>1. E.expiry_list \in Seq(Conn)
      BY <1>10, MemParts DEF Sound, Good
    <3> QED
      BY <3>1, RangeOfSeq
  <2>1. c \in Range(s) /\ \A m \in 1..Len(list) : list[m] # c
    BY <1>10, <2>0
  <2>2. PICK i \in DOMAIN s : s[i] = c
    BY <2>1 DEF Range
  <2>3. i > Len(list)
    <3>1. SUFFICES ASSUME i <= Len(list) PROVE FALSE
      BY <1>2, <1>5
    <3>2. i \in 1..Len(list)
      BY <1>2, <1>5, <3>1
    <3> QED
      BY <1>2, <2>1, <2>2, <3>2
  <2> DEFINE j == Len(list) + 1
  <2>4. j \in DOMAIN s /\ j <= i /\ Len(list) < Len(s)
    BY <1>2, <1>5, <2>3
  <2>5. d.context[s[j]].expiry_time >= now
    <3>1. s[j] \in Conn /\ ~(time[s[j]] < now)
      BY <1>2, <1>5, <2>4
    <3>2. time[s[j]] = d.context[s[j]].expiry_time /\ d.context[s[j]].expiry_time \in Nat
      BY <1>1, <1>1a, <3>1
    <3> QED
      BY <3>1, <3>2
  <2>6. d.context[s[j]].expiry_time <= d.context[c].expiry_time
    <3>1. CASE j = i
      BY <1>1, <2>0, <2>2, <3>1
    <3>2. CASE j < i
      BY <1>1, <2>2, <2>4, <3>2 DEF Ordered
    <3> HIDE DEF j
    <3> QED
      BY <1>5, <2>4, <3>1, <3>2
  <2>7. d.context[s[j]].expiry_time \in Nat /\ d.context[c].expiry_time \in Nat
    BY <1>1, <1>5, <2>0, <2>4
  <2> QED
    BY <1>10, <2>5, <2>6, <2>7
<1> QED
  BY <1>10, <1>11 DEF E

\* will_delay__check leaves the list of sessions that expire as it is.
LEMMA DelayCheckSound ==
    ASSUME NEW d, NEW l \in Logs, NEW k, now \in Nat, Sound(d, Range(d.for_free), l, k),
           IsInjective(d.for_free)
    PROVE  LET E == WillDelayCheck(d)
           IN  /\ Sound(E, Range(E.for_free), l, k) /\ IsInjective(E.for_free)
               /\ E.last_check = d.last_check /\ Cancelled(d, E, l) /\ E.expiry_list = d.expiry_list
               /\ \A c \in Range(d.expiry_list) : E.context[c].expiry_time = d.context[c].expiry_time
<1> DEFINE E == WillDelayCheck(d)
           time == [c \in DOMAIN d.context |-> d.context[c].will_time]
           s == d.delay_list
           list == DueFirst(s, time)
           e == [base |-> d, list |-> list, l |-> l, k |-> k]
<1>1. Good(d) /\ d \in Mem /\ s \in Seq(Conn) /\ IsInjective(s)
  <2>1. Good(d) /\ d \in Mem /\ IsInjective(s)
    BY DEF Sound, Good, Timers
  <2> QED
    BY <2>1, MemParts
<1> HIDE DEF time
<1>2. list \in Seq(Conn) /\ Len(list) \in 0..Len(s) /\ \A i \in 1..Len(list) : list[i] = s[i]
  BY <1>1, DueFirstDoes
<1>3. E = DelayLoop!OverList(e, d, list)
  BY DEF time, WillDelayCheck, DelayLoop!OverList, FoldLeft, DelayLoop!FoldLeft, MapThenFoldSet,
         DelayLoop!MapThenFoldSet, Max, DelayLoop!Max
<1>4. e.base = d /\ e.list = list /\ e.l = l /\ e.k = k
  OBVIOUS
<1> HIDE DEF e, E, list
<1>5. Len(s) \in Nat /\ DOMAIN s = 1..Len(s) /\ \A i \in 1..Len(s) : s[i] \in Conn /\ s[i] \in Range(s)
  BY <1>1, LenProperties, ElementOfSeq DEF Range
<1>6. DelayInv(e, 0, d)
  BY <1>4 DEF DelayInv, Cancelled
<1>7. ASSUME NEW n \in 1..Len(list), NEW g, DelayInv(e, n - 1, g)
      PROVE  DelayInv(e, n, SendDelayedWill(g, list[n]))
  <2> DEFINE c == list[n]
             G == SendDelayedWill(g, c)
  <2>0. n \in Nat /\ n \in 1..Len(s) /\ c = s[n] /\ c \in Conn /\ c \in Range(s)
    BY <1>2, <1>5
  <2>1. /\ Sound(g, Range(g.for_free), l, k) /\ IsInjective(g.for_free)
        /\ g.last_check = d.last_check /\ Cancelled(d, g, l) /\ g.expiry_list = d.expiry_list
        /\ \A x \in Conn : x \in Range(g.delay_list) <=> x \in Range(s) /\ \A m \in 1..(n - 1) : list[m] # x
        /\ \A x \in Range(g.expiry_list) : g.context[x].expiry_time = d.context[x].expiry_time
    BY <1>4, <1>7 DEF DelayInv
  <2>2. \A m \in 1..(n - 1) : list[m] # c
    <3> SUFFICES ASSUME NEW m \in 1..(n - 1), list[m] = c PROVE FALSE
      OBVIOUS
    <3>1. m \in 1..Len(s) /\ m \in 1..Len(list) /\ m # n
      BY <1>2, <1>5, <2>0
    <3>2. list[m] = s[m]
      BY <1>2, <3>1
    <3> QED
      BY <1>1, <1>5, <2>0, <3>1, <3>2 DEF IsInjective
  <2>3. c \in Range(g.delay_list)
    BY <2>0, <2>1, <2>2
  <2> HIDE DEF c
  <2>4. /\ Sound(G, Range(G.for_free), l, k) /\ IsInjective(G.for_free)
        /\ Only(g, G, c) /\ Cancelled(g, G, l) /\ c \notin Range(G.delay_list)
        /\ G.expiry_list = g.expiry_list
        /\ c \in Range(g.expiry_list) => G.context[c].expiry_time = g.context[c].expiry_time
    <3>1. c \in Conn /\ Sound(g, Range(g.for_free), l, k) /\ IsInjective(g.for_free)
      BY <2>0, <2>1
    <3>2. LET H == SendDelayedWill(g, c)
          IN  /\ Sound(H, Range(H.for_free), l, k) /\ IsInjective(H.for_free)
              /\ Only(g, H, c) /\ Cancelled(g, H, l) /\ c \notin Range(H.delay_list)
              /\ H.expiry_list = g.expiry_list
              /\ c \in Range(g.expiry_list) => H.context[c].expiry_time = g.context[c].expiry_time
      BY <2>3, <3>1, DelayedSound
    <3> QED
      BY <3>2
  <2> HIDE DEF G
  <2>5. G.last_check = d.last_check /\ Cancelled(d, G, l)
    BY <2>1, <2>4, CancelledTwice DEF Only
  <2>6. ASSUME NEW x \in Conn
        PROVE  x \in Range(G.delay_list) <=> x \in Range(s) /\ \A m \in 1..n : list[m] # x
    <3>1. (\A m \in 1..n : list[m] # x) <=> (\A m \in 1..(n - 1) : list[m] # x) /\ c # x
      <4>1. \A m \in 1..n : m \in 1..(n - 1) \/ m = n
        BY <2>0
      <4>2. n \in 1..n /\ \A m \in 1..(n - 1) : m \in 1..n
        BY <2>0
      <4> QED
        BY <4>1, <4>2 DEF c
    <3>2. CASE x = c
      BY <2>4, <3>1, <3>2
    <3>3. CASE x # c
      BY <2>1, <2>4, <3>1, <3>3 DEF Only
    <3> QED
      BY <3>2, <3>3
  <2>7. ASSUME NEW x \in Range(G.expiry_list) PROVE G.context[x].expiry_time = d.context[x].expiry_time
    <3>1. x \in Conn
      <4>1. G.expiry_list \in Seq(Conn)
        BY <2>4, MemParts DEF Only, Good
      <4> QED
        BY <4>1, RangeOfSeq
    <3>2. x \in Range(g.expiry_list)
      BY <2>4
    <3>3. G.context[x].expiry_time = g.context[x].expiry_time
      <4>1. CASE x = c
        BY <2>4, <3>2, <4>1
      <4>2. CASE x # c
        BY <2>4, <3>1, <4>2 DEF Only
      <4> QED
        BY <4>1, <4>2
    <3> QED
      BY <2>1, <3>2, <3>3
  <2>8. DelayInv(e, n, G)
    BY <1>4, <2>1, <2>4, <2>5, <2>6, <2>7 DEF DelayInv
  <2> QED
    BY <2>8 DEF G, c
<1>8. \A n \in 1..Len(list) : \A g : DelayInv(e, n - 1, g) => DelayInv(e, n, SendDelayedWill(g, list[n]))
  BY <1>7
<1>9. DelayInv(e, Len(list), E)
  BY <1>2, <1>3, <1>6, <1>8, DelayLoop!ListLoop
<1> QED
  BY <1>4, <1>9 DEF DelayInv, E

\* context__free_disused.
LEMMA FreeDisusedSound ==
    ASSUME NEW d, NEW l, NEW k, Sound(d, Range(d.for_free), l, k), IsInjective(d.for_free)
    PROVE  LET E == FreeDisused(d)
           IN  /\ Sound(E, Range(E.for_free), l, k) /\ IsInjective(E.for_free)
               /\ E.last_check = d.last_check /\ E.sent = d.sent
<1> DEFINE E == FreeDisused(d)
           d0 == [d EXCEPT !.for_free = <<>>]
           list == d.for_free
           e == [base |-> d, list |-> list, l |-> l, k |-> k]
<1>1. Good(d) /\ d \in Mem /\ list \in Seq(Conn)
  <2>1. Good(d) /\ d \in Mem
    BY DEF Sound, Good
  <2> QED
    BY <2>1, MemParts
<1>2. E = FreeLoop!OverList(e, d0, list)
  BY DEF FreeDisused, FreeLoop!OverList, FoldLeft, FreeLoop!FoldLeft, MapThenFoldSet,
         FreeLoop!MapThenFoldSet, Max, FreeLoop!Max
<1>3. e.base = d /\ e.list = list /\ e.l = l /\ e.k = k
  OBVIOUS
<1> HIDE DEF e, E
<1>4. Len(list) \in Nat /\ DOMAIN list = 1..Len(list)
  BY <1>1, LenProperties
<1>5. FreeInv(e, 0, d0)
  <2>1. /\ d0.for_free = <<>> /\ d0.context = d.context /\ d0.by_id = d.by_id /\ d0.sent = d.sent
        /\ d0.expiry_list = d.expiry_list /\ d0.delay_list = d.delay_list
        /\ d0.last_check = d.last_check /\ d0.subs = d.subs
    BY <1>1 DEF Mem
  <2>2. d0 \in Mem
    <3>1. <<>> \in Seq(Conn)
      OBVIOUS
    <3> QED
      BY <1>1, <3>1 DEF Mem
  <2> HIDE DEF d0
  <2>3. Good(d0)
    BY <1>1, <2>1, <2>2 DEF Good, Timers, Filed
  <2>4. Rest(list, 0) = Range(list)
    BY DEF Rest
  <2>5. Sound(d0, Range(list), l, k)
    BY <2>1, <2>3 DEF Sound, Named
  <2> QED
    BY <1>3, <2>1, <2>4, <2>5 DEF FreeInv
<1> HIDE DEF d0
<1>6. ASSUME NEW n \in 1..Len(list), NEW g, FreeInv(e, n - 1, g)
      PROVE  FreeInv(e, n, Cleanup(g, list[n]))
  <2> DEFINE c == list[n]
             F == Rest(list, n - 1)
  <2>1. Sound(g, F, l, k) /\ g.for_free = <<>> /\ g.last_check = d.last_check /\ g.sent = d.sent
    BY <1>3, <1>6 DEF FreeInv
  <2>2. c \in F
    <3>1. c \in Range(list)
      BY <1>4 DEF Range
    <3>2. ASSUME NEW m \in 1..(n - 1) PROVE list[m] # c
      <4>1. m \in DOMAIN list /\ n \in DOMAIN list /\ m # n
        BY <1>4
      <4> QED
        BY <4>1 DEF IsInjective
    <3> QED
      BY <3>1, <3>2 DEF Rest
  <2>3. F \ {c} = Rest(list, n)
    <3>1. \A m \in 1..n : m \in 1..(n - 1) \/ m = n
      BY <1>4
    <3>2. n \in 1..n /\ \A m \in 1..(n - 1) : m \in 1..n
      BY <1>4
    <3> QED
      BY <3>1, <3>2 DEF Rest
  <2> DEFINE G == Cleanup(g, c)
  <2> HIDE DEF c, F
  <2>4. /\ Sound(G, F \ {c}, l, k) /\ G.for_free = g.for_free
        /\ G.last_check = g.last_check /\ G.sent = g.sent
    <3>1. Sound(g, F, l, k)
      BY <2>1
    <3>2. LET H == Cleanup(g, c)
          IN  /\ Sound(H, F \ {c}, l, k) /\ H.for_free = g.for_free
              /\ H.last_check = g.last_check /\ H.sent = g.sent
      BY <2>2, <3>1, CleanupSound
    <3> QED
      BY <3>2
  <2> HIDE DEF G
  <2>5. FreeInv(e, n, G)
    BY <1>3, <2>1, <2>3, <2>4 DEF FreeInv
  <2> QED
    BY <2>5 DEF G, c
<1>7. \A n \in 1..Len(list) : \A g : FreeInv(e, n - 1, g) => FreeInv(e, n, Cleanup(g, list[n]))
  BY <1>6
<1>8. FreeInv(e, Len(list), E)
  <2> HIDE DEF list
  <2> QED
    BY <1>1, <1>2, <1>5, <1>7, FreeLoop!ListLoop
<1>9. Sound(E, Rest(list, Len(list)), l, k) /\ E.for_free = <<>>
      /\ E.last_check = d.last_check /\ E.sent = d.sent
  BY <1>3, <1>8 DEF FreeInv
<1>10. Rest(list, Len(list)) = {} /\ Range(<<>>) = {} /\ IsInjective(<<>>)
  BY <1>4 DEF Rest, Range, IsInjective
<1> QED
  BY <1>9, <1>10 DEF E

\* One turn of the main loop.
LEMMA TurnSound ==
    ASSUME NEW d, NEW l \in Logs, NEW k, now \in Nat, d.last_check <= now,
           Sound(d, Range(d.for_free), l, k), IsInjective(d.for_free)
    PROVE  LET E == Turn(d)
           IN  /\ Sound(E, Range(E.for_free), l, k) /\ IsInjective(E.for_free)
               /\ E.last_check <= now /\ Cancelled(d, E, l)
<1> DEFINE d1 == SessionExpiryCheck(d)
           d2 == WillDelayCheck(d1)
           d3 == [d2 EXCEPT !.last_check = now]
           d4 == IF now <= d.last_check THEN d ELSE d3
           E == FreeDisused(d4)
<1>1. /\ Sound(d1, Range(d1.for_free), l, k) /\ IsInjective(d1.for_free)
      /\ d1.last_check = d.last_check /\ Cancelled(d, d1, l)
      /\ \A c \in Range(d1.expiry_list) : d1.context[c].expiry_time >= now
  BY ExpiryCheckSound
<1>0. Turn(d) = E
  BY DEF Turn
<1> HIDE DEF d1
<1>2. /\ Sound(d2, Range(d2.for_free), l, k) /\ IsInjective(d2.for_free)
      /\ d2.last_check = d1.last_check /\ Cancelled(d1, d2, l) /\ d2.expiry_list = d1.expiry_list
      /\ \A c \in Range(d1.expiry_list) : d2.context[c].expiry_time = d1.context[c].expiry_time
  BY <1>1, DelayCheckSound
<1> HIDE DEF d2
<1>3. d2 \in Mem /\ Timers(d2) /\ Filed(d2)
  BY <1>2 DEF Sound, Good
<1>4. /\ d3.for_free = d2.for_free /\ d3.context = d2.context /\ d3.by_id = d2.by_id /\ d3.sent = d2.sent
      /\ d3.expiry_list = d2.expiry_list /\ d3.delay_list = d2.delay_list
      /\ d3.last_check = now /\ d3.subs = d2.subs
  BY <1>3 DEF Mem
<1>5. d3 \in Mem
  BY <1>3 DEF Mem
<1> HIDE DEF d3
<1>6. Good(d3)
  <2>1. \A c \in Range(d3.expiry_list) : d3.context[c].expiry_time >= d3.last_check
    BY <1>1, <1>2, <1>4
  <2>2. Timers(d3)
    BY <1>3, <1>4, <2>1 DEF Timers
  <2>3. Filed(d3)
    BY <1>3, <1>4 DEF Filed
  <2> QED
    BY <1>5, <2>2, <2>3 DEF Good
<1>7. /\ Sound(d3, Range(d3.for_free), l, k) /\ IsInjective(d3.for_free)
      /\ d3.last_check = now /\ Cancelled(d, d3, l)
  <2>1. Sound(d3, Range(d3.for_free), l, k)
    BY <1>2, <1>4, <1>6 DEF Sound, Named
  <2>2. Cancelled(d, d2, l)
    BY <1>1, <1>2, CancelledTwice
  <2> QED
    BY <1>2, <1>4, <2>1, <2>2 DEF Cancelled
<1>8. /\ Sound(d4, Range(d4.for_free), l, k) /\ IsInjective(d4.for_free)
      /\ d4.last_check <= now /\ Cancelled(d, d4, l)
  <2>1. CASE now <= d.last_check
    <3>1. d4 = d
      BY <2>1
    <3> HIDE DEF d4
    <3> QED
      BY <3>1 DEF Cancelled
  <2>2. CASE ~(now <= d.last_check)
    <3>1. d4 = d3
      BY <2>2
    <3> HIDE DEF d4
    <3> QED
      BY <1>7, <3>1
  <2> QED
    BY <2>1, <2>2
<1> HIDE DEF d4
<1>9. /\ Sound(E, Range(E.for_free), l, k) /\ IsInjective(E.for_free)
      /\ E.last_check = d4.last_check /\ E.sent = d4.sent
  BY <1>8, FreeDisusedSound
<1> HIDE DEF E
<1> QED
  BY <1>0, <1>8, <1>9 DEF Cancelled
----------------------------------------------------------------------------
(* A client connects again while the broker has a context of its id.       *)

Fields(x, y) ==
    /\ x.state = y.state /\ x.id = y.id /\ x.sock = y.sock /\ x.v5 = y.v5 /\ x.clean = y.clean
    /\ x.expiry = y.expiry /\ x.expiry_time = y.expiry_time /\ x.will = y.will /\ x.delay = y.delay

\* A step about f that may hand its subscriptions to c.
Beside(d, E, c, f) ==
    /\ Good(E) /\ E.last_check = d.last_check
    /\ \A e \in Conn : e # f =>
          /\ e # c => E.context[e] = d.context[e]
          /\ E.sent[e] = d.sent[e]
          /\ e \in Range(E.expiry_list) <=> e \in Range(d.expiry_list)
          /\ e \in Range(E.delay_list) <=> e \in Range(d.delay_list)
    /\ Fields(E.context[c], d.context[c])

LEMMA BesideOnly ==
    ASSUME NEW d, NEW E, NEW G, NEW c \in Conn, NEW f \in Conn, c # f, Beside(d, E, c, f), Only(E, G, f)
    PROVE  Beside(d, G, c, f)
BY DEF Beside, Only

LEMMA LeafRenames ==
    ASSUME NEW c \in Conn
    PROVE  Renames(Leaf, c)
<1> SUFFICES ASSUME NEW leaf \in Leaf
             PROVE  [leaf EXCEPT !.context = c] \in Leaf /\ [leaf EXCEPT !.context = c].context = c
  BY DEF Renames
<1> QED
  BY DEF Leaf

LEMMA ResumeDoes ==
    ASSUME NEW d, Good(d), NEW c \in Conn, NEW f \in Conn, c # f, d.context[c].subs = {}
    PROVE  LET E == ResumeSession(d, c, f)
           IN  /\ Beside(d, E, c, f) /\ SameLists(d, E) /\ E.sent = d.sent
               /\ E.by_id = d.by_id /\ E.for_free = d.for_free
               /\ Fields(E.context[f], d.context[f])
<1> DEFINE E == ResumeSession(d, c, f)
           x == d.context[f]
           y == d.context[c]
           moved == {s \in x.subs : s.share = NoShare}
           x2 == [x EXCEPT !.subs = x.subs \ moved]
           y2 == [y EXCEPT !.subs = moved]
           u == HandOver(d.subs, moved, c, f)
<1>1. d \in Mem /\ x \in Context /\ y \in Context /\ d.subs \in Trees(Leaf) /\ Range(d.expiry_list) \subseteq Conn
      /\ d.context \in [Conn -> Context] /\ d.expiry_list \in Seq(Conn)
  <2>1. d \in Mem
    BY DEF Good
  <2> QED
    BY <2>1, MemParts, RangeOfSeq
<1>2. x.subs \in SUBSET Ref /\ x.subs \in SUBSET Place /\ IsFiniteSet(x.subs) /\ Neat(d.subs)
  BY <1>1, ContextParts, RefsArePlaces DEF Good, Filed
<1>3. /\ \A r \in Place : OneEach(At(d.subs, r))
      /\ \A r \in Place, e \in Conn : r \in d.context[e].subs <=> e \in Holders(At(d.subs, r))
  BY DEF Good, Filed
<1>4. moved \in SUBSET Ref /\ moved \in SUBSET Place /\ \A s \in moved : s.share = NoShare /\ s \in x.subs
  BY <1>2
<1>5. IsFiniteSet(moved) /\ IsFiniteSet(x.subs \ moved)
  BY <1>2, FS_Subset
<1>6. E = [d EXCEPT !.context[c].subs = moved, !.context[f].subs = @ \ moved, !.subs = u]
  BY DEF ResumeSession, HandOver, Take
<1> HIDE DEF moved
<1>7. /\ u \in Trees(Leaf) /\ Neat(u)
      /\ \A r \in Place : /\ OneEach(At(u, r))
                          /\ Holders(At(u, r)) =
                               IF r \in moved THEN (Holders(At(d.subs, r)) \ {f}) \cup {c} ELSE Holders(At(d.subs, r))
  <2>1. \A s \in moved : s.share = NoShare /\ f \in Holders(At(d.subs, s))
    BY <1>3, <1>4
  <2>2. \A r \in Place : OneEach(At(d.subs, r)) /\ c \notin Holders(At(d.subs, r))
    BY <1>3
  <2>3. Renames(Leaf, c)
    BY LeafRenames
  <2> DEFINE t == d.subs
  <2>4. /\ t \in Trees(Leaf) /\ Neat(t) /\ moved \in SUBSET Place
        /\ \A s \in moved : s.share = NoShare /\ f \in Holders(At(t, s))
        /\ \A r \in Place : OneEach(At(t, r)) /\ c \notin Holders(At(t, r))
    BY <1>1, <1>2, <1>4, <2>1, <2>2
  <2> HIDE DEF t
  <2>5. LET v == HandOver(t, moved, c, f)
        IN  /\ v \in Trees(Leaf) /\ Neat(v)
            /\ \A r \in Place : /\ OneEach(At(v, r))
                                /\ Holders(At(v, r)) =
                                     IF r \in moved THEN (Holders(At(t, r)) \ {f}) \cup {c} ELSE Holders(At(t, r))
    BY <2>3, <2>4, HandOverKeeps
  <2> QED
    BY <2>5 DEF t
<1> HIDE DEF u
<1>8. /\ x2 \in Context /\ Fields(x2, x) /\ x2.subs = x.subs \ moved
      /\ y2 \in Context /\ Fields(y2, y) /\ y2.subs = moved
  <2>1. x.subs \ moved \in SUBSET Ref
    BY <1>2
  <2> QED
    BY <1>1, <1>4, <2>1 DEF Context, Fields
<1>9. E = [d EXCEPT !.context[c] = y2, !.context[f] = x2, !.subs = u]
  BY <1>1, <1>6 DEF Mem
<1> HIDE DEF E, x2, y2
<1>10. [d.context EXCEPT ![c] = y2, ![f] = x2] \in [Conn -> Context]
  BY <1>1, <1>8
<1>11. /\ SameLists(d, E) /\ E.sent = d.sent /\ E.by_id = d.by_id /\ E.for_free = d.for_free
       /\ E.last_check = d.last_check /\ E.subs = u
       /\ E.context = [d.context EXCEPT ![c] = y2, ![f] = x2]
  BY <1>1, <1>9 DEF Mem, SameLists
<1>12. E \in Mem
  BY <1>1, <1>7, <1>9, <1>10 DEF Mem
<1>13. E.context[c] = y2 /\ E.context[f] = x2 /\ \A e \in Conn : e # c /\ e # f => E.context[e] = d.context[e]
  BY <1>1, <1>11
<1>14. \A e \in Conn : E.context[e].expiry_time = d.context[e].expiry_time
  BY <1>8, <1>13 DEF Fields
<1>15. Timers(E)
  <2>1. E.expiry_list = d.expiry_list /\ E.delay_list = d.delay_list /\ Timers(d)
    BY <1>11 DEF SameLists, Good
  <2>2. \A i \in DOMAIN d.expiry_list : d.expiry_list[i] \in Conn
    BY <1>1 DEF Range
  <2>3. Ordered(E.expiry_list, E.context)
    BY <1>14, <2>1, <2>2 DEF Timers, Ordered
  <2> QED
    BY <1>1, <1>11, <1>14, <2>1, <2>3 DEF Timers
<1>16. Filed(E)
  <2>1. \A e \in Conn : IsFiniteSet(E.context[e].subs)
    BY <1>5, <1>8, <1>13 DEF Good, Filed
  <2>2. ASSUME NEW r \in Place, NEW e \in Conn
        PROVE  r \in E.context[e].subs <=> e \in Holders(At(u, r))
    <3>1. r \in d.context[e].subs <=> e \in Holders(At(d.subs, r))
      BY <1>3
    <3>2. Holders(At(u, r)) =
              IF r \in moved THEN (Holders(At(d.subs, r)) \ {f}) \cup {c} ELSE Holders(At(d.subs, r))
      BY <1>7
    <3>3. CASE e = c
      <4>1. e \notin Holders(At(d.subs, r))
        BY <3>1, <3>3
      <4> QED
        BY <1>8, <1>13, <3>2, <3>3, <4>1
    <3>4. CASE e = f
      BY <1>8, <1>13, <3>1, <3>2, <3>4
    <3>5. CASE e # c /\ e # f
      BY <1>13, <3>1, <3>2, <3>5
    <3> QED
      BY <3>3, <3>4, <3>5
  <2> QED
    BY <1>7, <1>11, <2>1, <2>2 DEF Filed
<1>17. Beside(d, E, c, f)
  <2>1. Good(E)
    BY <1>12, <1>15, <1>16 DEF Good
  <2> QED
    BY <1>8, <1>11, <1>13, <2>1 DEF Beside, SameLists
<1> QED
  BY <1>8, <1>11, <1>13, <1>17 DEF E

\* connect__on_authorised leaves the older context without id, will or timer.
TakenOver(d, E, c, f) ==
    LET x == d.context[f]
        y == E.context[f]
    IN  /\ Beside(d, E, c, f)
        /\ y.state = "disconnected" /\ y.sock = FALSE /\ y.will = FALSE /\ y.delay = 0 /\ y.id = NoId
        /\ f \notin Range(E.expiry_list) /\ f \notin Range(E.delay_list)
        /\ E.sent[f] = d.sent[f] \/ (x.will /\ E.sent[f] = d.sent[f] + 1)
        /\ E.by_id = [i \in Clients |-> IF i = x.id THEN 0 ELSE d.by_id[i]]
        /\ E.for_free = <<f>> \o d.for_free

LEMMA TakeoverDoes ==
    ASSUME NEW d, Good(d), NEW c \in Conn, NEW f \in Conn, c # f, d.context[c].subs = {},
           now \in Nat, d.last_check <= now, d.context[f].state \in {"new", "active", "disconnected"},
           ~d.context[f].will => d.context[f].delay = 0
    PROVE  TakenOver(d, Takeover(d, c, f), c, f)
<1> DEFINE x == d.context[f]
           new == d.context[c]
           d1 == IF ~new.clean /\ x.expiry > 0 THEN ResumeSession(d, c, f) ELSE d
           d2 == IF new.clean THEN CleanSession(d1, f) ELSE d1
           d3 == IF \/ x.v5 /\ x.expiry = 0
                    \/ ~x.v5 /\ x.clean
                    \/ new.clean
                 THEN SendWill(d2, f) ELSE d2
           da == SessionExpiryRemove(d3, f)
           dw == WillDelayRemove(da, f)
           d4 == WillClear(dw, f)
           z == [d4.context[f] EXCEPT !.clean = TRUE, !.expiry = 0, !.state = "duplicate"]
           d5 == [d4 EXCEPT !.context[f] = z]
           E == Disconnect(d5, f)
<1>0. Takeover(d, c, f) = Disconnect([d4 EXCEPT !.context[f].clean = TRUE, !.context[f].expiry = 0,
                                                 !.context[f].state = "duplicate"], f)
  BY DEF Takeover
<1>1. /\ Beside(d, d1, c, f) /\ d1.sent = d.sent /\ d1.by_id = d.by_id /\ d1.for_free = d.for_free
      /\ Fields(d1.context[f], x)
  <2>1. CASE ~new.clean /\ x.expiry > 0
    <3>1. d1 = ResumeSession(d, c, f)
      BY <2>1
    <3> QED
      BY <3>1, ResumeDoes
  <2>2. CASE ~(~new.clean /\ x.expiry > 0)
    <3>1. d1 = d
      BY <2>2
    <3> HIDE DEF d1
    <3> QED
      BY <3>1 DEF Beside, Fields
  <2> QED
    BY <2>1, <2>2
<1> HIDE DEF d1
<1>2. /\ Beside(d, d2, c, f) /\ d2.sent = d.sent /\ d2.by_id = d.by_id /\ d2.for_free = d.for_free
      /\ Fields(d2.context[f], x)
  <2>1. CASE new.clean
    <3>1. d2 = CleanSession(d1, f) /\ Good(d1)
      BY <1>1, <2>1 DEF Beside
    <3>2. /\ Only(d1, d2, f) /\ d2.sent = d1.sent /\ d2.by_id = d1.by_id /\ d2.for_free = d1.for_free
          /\ d2.context[f] = [d1.context[f] EXCEPT !.subs = {}]
      BY <3>1, CleanSessionDoes
    <3> HIDE DEF d2
    <3>3. d1.context[f] \in Context
      BY <3>1, MemParts DEF Good
    <3> DEFINE v == d1.context[f]
               w == [v EXCEPT !.subs = {}]
    <3>4. Fields(w, v)
      BY <3>3 DEF Context, Fields
    <3>5. d2.context[f] = w
      BY <3>2
    <3> HIDE DEF v, w
    <3>6. Fields(d2.context[f], x)
      <4>1. Fields(v, x)
        BY <1>1 DEF v
      <4> QED
        BY <3>4, <3>5, <4>1 DEF Fields
    <3> QED
      BY <1>1, <3>2, <3>6, BesideOnly
  <2>2. CASE ~new.clean
    <3>1. d2 = d1
      BY <2>2
    <3> QED
      BY <1>1, <3>1
  <2> QED
    BY <2>1, <2>2
<1> HIDE DEF d2
<1>3. /\ Beside(d, d3, c, f) /\ d3.by_id = d.by_id /\ d3.for_free = d.for_free
      /\ d3.context[f].id = x.id /\ (~d3.context[f].will => d3.context[f].delay = 0)
      /\ d3.sent[f] = d.sent[f] \/ (x.will /\ d3.sent[f] = d.sent[f] + 1)
  <2>1. CASE \/ x.v5 /\ x.expiry = 0
             \/ ~x.v5 /\ x.clean
             \/ new.clean
    <3>1. d3 = SendWill(d2, f) /\ Good(d2)
      BY <1>2, <2>1 DEF Beside
    <3> HIDE DEF d3
    <3> DEFINE v == d2.context[f]
    <3>2. ~v.will => v.delay = 0
      BY <1>2 DEF Fields
    <3>3. LET H == SendWill(d2, f)
          IN  /\ Only(d2, H, f) /\ SameTables(d2, H) /\ H.expiry_list = d2.expiry_list
              /\ Like(H.context[f], v) /\ H.context[f].state = v.state
              /\ H.context[f].expiry_time = v.expiry_time
              /\ H.context[f].will = Waits(v) /\ H.context[f].delay = (IF Waits(v) THEN v.delay ELSE 0)
              /\ H.sent[f] = (IF Sends(v) THEN d2.sent[f] + 1 ELSE d2.sent[f])
              /\ f \in Range(H.delay_list) <=> f \in Range(d2.delay_list) \/ Waits(v)
      BY <3>1, <3>2, SendWillDoes
    <3>4. /\ Only(d2, d3, f) /\ SameTables(d2, d3) /\ Like(d3.context[f], v)
          /\ d3.context[f].will = Waits(v) /\ d3.context[f].delay = (IF Waits(v) THEN v.delay ELSE 0)
          /\ d3.sent[f] = (IF Sends(v) THEN d2.sent[f] + 1 ELSE d2.sent[f])
      BY <3>1, <3>3
    <3>5. Sends(v) => x.will
      BY <1>2 DEF Sends, Fields
    <3>6. d3.by_id = d.by_id /\ d3.for_free = d.for_free /\ d3.context[f].id = x.id
      BY <1>2, <3>4 DEF SameTables, Like, Fields
    <3>7. d3.sent[f] = d.sent[f] \/ (x.will /\ d3.sent[f] = d.sent[f] + 1)
      BY <1>2, <3>4, <3>5
    <3>8. Beside(d, d3, c, f)
      BY <1>2, <3>4, BesideOnly
    <3> QED
      BY <3>4, <3>6, <3>7, <3>8
  <2>2. CASE ~(\/ x.v5 /\ x.expiry = 0
               \/ ~x.v5 /\ x.clean
               \/ new.clean)
    <3>1. d3 = d2
      BY <2>2
    <3> HIDE DEF d3
    <3> QED
      BY <1>2, <3>1 DEF Fields
  <2> QED
    BY <2>1, <2>2
<1> HIDE DEF d3
<1>4. /\ Only(d3, da, f) /\ SameTables(d3, da) /\ da.sent = d3.sent /\ da.context = d3.context
      /\ f \notin Range(da.expiry_list)
  <2>1. Good(d3)
    BY <1>3 DEF Beside
  <2> QED
    BY <2>1, SessionExpiryRemoveDoes
<1> HIDE DEF da
<1>5. /\ Only(da, dw, f) /\ SameTables(da, dw) /\ dw.expiry_list = da.expiry_list /\ dw.sent = da.sent
      /\ dw.context = da.context /\ f \notin Range(dw.delay_list)
  <2>1. Good(da)
    BY <1>4 DEF Only
  <2> QED
    BY <2>1, WillDelayRemoveDoes
<1> HIDE DEF dw
<1>6. /\ Only(dw, d4, f) /\ SameTables(dw, d4) /\ SameLists(dw, d4) /\ d4.sent = dw.sent
      /\ Like(d4.context[f], dw.context[f])
      /\ d4.context[f].will = FALSE /\ d4.context[f].delay = 0
  <2>1. Good(dw) /\ (~dw.context[f].will => dw.context[f].delay = 0)
    BY <1>3, <1>4, <1>5 DEF Only
  <2> QED
    BY <2>1, WillClearDoes
<1> HIDE DEF d4
<1>7. /\ Beside(d, d4, c, f) /\ Good(d4) /\ d4 \in Mem /\ d4.context[f] \in Context
      /\ d4.by_id = d.by_id /\ d4.for_free = d.for_free
      /\ f \notin Range(d4.expiry_list) /\ f \notin Range(d4.delay_list)
      /\ d4.sent[f] = d3.sent[f] /\ d4.context[f].id = x.id /\ d4.last_check = d.last_check
  <2>1. Only(d3, d4, f)
    BY <1>4, <1>5, <1>6, OnlyTwice
  <2>2. Beside(d, d4, c, f) /\ Good(d4)
    BY <1>3, <2>1, BesideOnly DEF Only
  <2>3. d4 \in Mem /\ d4.context[f] \in Context
    BY <2>2, MemParts DEF Good
  <2>4. d4.last_check = d.last_check
    BY <2>2 DEF Beside
  <2> QED
    BY <1>3, <1>4, <1>5, <1>6, <2>2, <2>3, <2>4 DEF SameTables, SameLists, Like
<1>8. /\ z \in Context /\ z.state = "duplicate" /\ z.expiry = 0 /\ z.will = d4.context[f].will
      /\ z.delay = d4.context[f].delay /\ z.id = d4.context[f].id /\ z.subs = d4.context[f].subs
      /\ z.expiry_time = d4.context[f].expiry_time
  BY <1>7 DEF Context, States
<1>9. [d4 EXCEPT !.context[f].clean = TRUE, !.context[f].expiry = 0, !.context[f].state = "duplicate"] = d5
  BY <1>7 DEF Mem
<1> HIDE DEF z
<1>10. /\ Good(d5) /\ SameTables(d4, d5) /\ SameLists(d4, d5) /\ d5.sent = d4.sent
       /\ d5.context = [d4.context EXCEPT ![f] = z]
  BY <1>7, <1>8, NewContext
<1> HIDE DEF d5
<1>11. d5.context[f] = z /\ \A e \in Conn : e # f => d5.context[e] = d4.context[e]
  BY <1>7, <1>10, MemParts
<1>12. Beside(d, d5, c, f)
  <2>1. Only(d4, d5, f)
    BY <1>10, <1>11 DEF Only, SameTables, SameLists
  <2> QED
    BY <1>7, <2>1, BesideOnly
<1>13. z.will = FALSE /\ z.delay = 0 /\ z.id = x.id
  BY <1>6, <1>7, <1>8
<1>14. ~Waits(z) /\ ~Sends(z) /\ Freed(z) /\ ~Tracked(z)
  BY <1>8, <1>13 DEF Waits, Sends, Freed, Tracked
<1>15. LET H == Disconnect(d5, f)
           w == d5.context[f]
           y == H.context[f]
       IN  /\ Only(d5, H, f) /\ H.subs = d5.subs
           /\ y.state = "disconnected" /\ y.sock = FALSE /\ y.will = Waits(w)
           /\ y.delay = (IF Waits(w) THEN w.delay ELSE 0)
           /\ y.expiry = w.expiry /\ y.subs = w.subs /\ y.v5 = w.v5 /\ y.clean = w.clean
           /\ y.id = (IF Freed(w) THEN NoId ELSE w.id)
           /\ H.sent[f] = (IF Sends(w) THEN d5.sent[f] + 1 ELSE d5.sent[f])
           /\ f \in Range(H.delay_list) <=> f \in Range(d5.delay_list) \/ Waits(w)
           /\ f \in Range(H.expiry_list) <=> Tracked(w)
           /\ H.by_id = (IF Freed(w) THEN [i \in Clients |-> IF i = w.id THEN 0 ELSE d5.by_id[i]] ELSE d5.by_id)
           /\ H.for_free = (IF Freed(w) THEN <<f>> \o d5.for_free ELSE d5.for_free)
  <2>1. /\ f \notin Range(d5.expiry_list) /\ d5.last_check <= now
        /\ ~d5.context[f].will => d5.context[f].delay = 0
        /\ d5.context[f].state \notin {"disconnected", "disused"}
    BY <1>7, <1>8, <1>10, <1>11, <1>13 DEF SameTables, SameLists
  <2> QED
    BY <1>10, <2>1, DisconnectDoes, ZenonT(60)
<1> HIDE DEF E
<1>16. LET y == E.context[f]
       IN  /\ Only(d5, E, f)
           /\ y.state = "disconnected" /\ y.sock = FALSE /\ y.will = Waits(z)
           /\ y.delay = (IF Waits(z) THEN z.delay ELSE 0)
           /\ y.id = (IF Freed(z) THEN NoId ELSE z.id)
           /\ E.sent[f] = (IF Sends(z) THEN d5.sent[f] + 1 ELSE d5.sent[f])
           /\ f \in Range(E.delay_list) <=> f \in Range(d5.delay_list) \/ Waits(z)
           /\ f \in Range(E.expiry_list) <=> Tracked(z)
           /\ E.by_id = (IF Freed(z) THEN [i \in Clients |-> IF i = z.id THEN 0 ELSE d5.by_id[i]] ELSE d5.by_id)
           /\ E.for_free = (IF Freed(z) THEN <<f>> \o d5.for_free ELSE d5.for_free)
  BY <1>11, <1>15 DEF E
<1>17. /\ Only(d5, E, f) /\ E.context[f].state = "disconnected" /\ E.context[f].sock = FALSE
       /\ E.context[f].will = FALSE /\ E.context[f].delay = 0 /\ E.context[f].id = NoId
       /\ E.sent[f] = d5.sent[f] /\ (f \in Range(E.delay_list) <=> f \in Range(d5.delay_list))
       /\ f \notin Range(E.expiry_list)
       /\ E.by_id = [i \in Clients |-> IF i = z.id THEN 0 ELSE d5.by_id[i]]
       /\ E.for_free = <<f>> \o d5.for_free
  BY <1>14, <1>16
<1>18. /\ d5.sent[f] = d3.sent[f] /\ f \notin Range(d5.delay_list)
       /\ d5.by_id = d.by_id /\ d5.for_free = d.for_free
  BY <1>7, <1>10 DEF SameTables, SameLists
<1>19. Beside(d, E, c, f)
  BY <1>12, <1>17, BesideOnly
<1>20. Takeover(d, c, f) = E
  BY <1>0, <1>9 DEF E
<1>21. /\ f \notin Range(E.delay_list)
       /\ E.sent[f] = d.sent[f] \/ (x.will /\ E.sent[f] = d.sent[f] + 1)
       /\ E.by_id = [i \in Clients |-> IF i = x.id THEN 0 ELSE d.by_id[i]]
       /\ E.for_free = <<f>> \o d.for_free
  BY <1>3, <1>13, <1>17, <1>18
<1>22. TakenOver(d, E, c, f)
  BY <1>17, <1>19, <1>21 DEF TakenOver
<1> QED
  BY <1>20, <1>22
----------------------------------------------------------------------------
(* CONNECT.                                                                *)

\* The connections used so far are the first ones.
LEMMA UsedFirst ==
    ASSUME Numbered(log)
    PROVE  NextConn \in 1..(MaxConn + 1) /\ \A e \in Conn : log[e].client # NoId <=> e < NextConn
<1>0. MaxConn \in Nat
  BY BoundAssumption
<1> DEFINE I == {i \in 1..MaxConn : \A j \in 1..i : j \in Used}
<1>1. Used = I
  <2>1. ASSUME NEW i \in Used PROVE i \in I
    <3>1. i \in 1..MaxConn /\ log[i].client # NoId
      BY DEF Used, Conn
    <3>2. ASSUME NEW j \in 1..i PROVE j \in Used
      <4>1. j \in Conn /\ i \in Conn /\ (j = i \/ j < i)
        BY <1>0, <3>1 DEF Conn
      <4> QED
        BY <3>1, <4>1 DEF Numbered, Used
    <3> QED
      BY <3>1, <3>2
  <2>2. ASSUME NEW i \in I PROVE i \in Used
    <3>1. i \in 1..MaxConn /\ i \in 1..i
      BY <1>0
    <3> QED
      BY <3>1
  <2> QED
    BY <2>1, <2>2
<1> DEFINE n == Cardinality(Used)
<1>2. n \in 0..MaxConn /\ (\A j \in 1..n : j \in Used) /\ (n < MaxConn => n + 1 \notin Used)
  <2> DEFINE m == Cardinality(I)
  <2>1. m \in 0..MaxConn /\ (\A j \in 1..m : j \in Used) /\ (m < MaxConn => m + 1 \notin Used)
    BY <1>0, FrontLength
  <2>2. m = n
    BY <1>1
  <2> HIDE DEF m, n
  <2> QED
    BY <2>1, <2>2
<1> HIDE DEF n
<1>3. NextConn = n + 1
  BY DEF NextConn, n
<1>4. ASSUME NEW e \in Conn, e \in Used, ~(e < n + 1) PROVE FALSE
  <2>1. e \in 1..MaxConn /\ n + 1 \in 1..MaxConn /\ n + 1 \in 1..e /\ n < MaxConn
    BY <1>0, <1>2, <1>4 DEF Conn
  <2>2. n + 1 \in Used
    BY <1>1, <1>4, <2>1
  <2> QED
    BY <1>2, <2>1, <2>2
<1>5. \A e \in Conn : e \in Used <=> e < n + 1
  <2> SUFFICES ASSUME NEW e \in Conn PROVE e \in Used <=> e < n + 1
    OBVIOUS
  <2>1. e < n + 1 => e \in 1..n
    BY <1>0, <1>2 DEF Conn
  <2> QED
    BY <1>2, <1>4, <2>1
<1>6. \A e \in Conn : e \in Used <=> log[e].client # NoId
  BY DEF Used
<1> QED
  BY <1>0, <1>2, <1>3, <1>5, <1>6

\* The table leads a client id to c.
LEMMA NewName ==
    ASSUME NEW d, Good(d), NEW i \in Clients, NEW c \in Conn
    PROVE  LET E == [d EXCEPT !.by_id[i] = c]
           IN  /\ Good(E) /\ SameLists(d, E) /\ E.sent = d.sent /\ E.context = d.context
               /\ E.by_id = [d.by_id EXCEPT ![i] = c] /\ E.for_free = d.for_free
               /\ E.last_check = d.last_check /\ E.subs = d.subs
<1> DEFINE b == [d.by_id EXCEPT ![i] = c]
           E == [d EXCEPT !.by_id = b]
<1>1. d \in Mem /\ d.by_id \in [Clients -> 0..MaxConn] /\ Timers(d) /\ Filed(d)
  BY MemParts DEF Good
<1>2. b \in [Clients -> 0..MaxConn]
  <2>1. c \in 0..MaxConn
    BY BoundAssumption DEF Conn
  <2> QED
    BY <1>1, <2>1
<1>3. [d EXCEPT !.by_id[i] = c] = E
  OBVIOUS
<1> HIDE DEF b
<1>4. /\ SameLists(d, E) /\ E.sent = d.sent /\ E.context = d.context
      /\ E.by_id = b /\ E.for_free = d.for_free /\ E.last_check = d.last_check /\ E.subs = d.subs
  BY <1>1 DEF Mem, SameLists
<1>5. E \in Mem
  BY <1>1, <1>2 DEF Mem
<1> HIDE DEF E
<1>6. Timers(E)
  BY <1>1, <1>4 DEF Timers, SameLists
<1>7. Filed(E)
  BY <1>1, <1>4 DEF Filed
<1> QED
  BY <1>3, <1>4, <1>5, <1>6, <1>7 DEF Good, b

Entry(i, o) == [client |-> i, end |-> "open", will |-> o.will]

\* The history after a CONNECT that found the context f, or none.
ConnectLog(l, c, f, r) ==
    LET known == [l EXCEPT ![c] = r]
    IN  IF f = 0 \/ l[f].end # "open" THEN known
        ELSE [known EXCEPT ![f] = [l[f] EXCEPT !.end = IF l[f].will THEN "taken" ELSE @]]

LEMMA ConnectLogDoes ==
    ASSUME NEW l \in Logs, NEW c \in Conn, NEW f \in 0..MaxConn, f # c, NEW i \in Clients, NEW o \in Options
    PROVE  LET l2 == ConnectLog(l, c, f, Entry(i, o))
           IN  /\ l2 \in Logs /\ l2[c] = Entry(i, o)
               /\ \A e \in Conn : e # c => /\ l2[e].client = l[e].client /\ l2[e].will = l[e].will
                                           /\ l2[e].end = l[e].end \/ (e = f /\ l2[e].end = "taken")
               /\ \A e \in Conn : e # c /\ e # f => l2[e] = l[e]
<1> DEFINE R == [client : Clients \cup {NoId}, will : BOOLEAN, end : Ends]
           r == Entry(i, o)
           l2 == ConnectLog(l, c, f, r)
<1>1. Logs = [Conn -> R]
  BY DEF Logs, Ends
<1>2. r \in R
  <2>1. o.will \in BOOLEAN
    BY OptionTypes
  <2> QED
    BY <2>1 DEF Entry, Ends
<1>3. \A e \in Conn : l[e] \in R
  BY <1>1
<1> HIDE DEF r
<1>4. CASE f = 0 \/ l[f].end # "open"
  <2>1. l2 = [l EXCEPT ![c] = r]
    BY <1>4 DEF ConnectLog
  <2> HIDE DEF l2, R
  <2>2. l2 \in Logs /\ l2[c] = r /\ \A e \in Conn : e # c => l2[e] = l[e]
    BY <1>1, <1>2, <2>1
  <2> QED
    BY <2>2 DEF l2, r
<1>5. CASE ~(f = 0 \/ l[f].end # "open")
  <2> DEFINE q == [l[f] EXCEPT !.end = IF l[f].will THEN "taken" ELSE @]
  <2>0. f \in Conn
    BY <1>5, BoundAssumption DEF Conn
  <2>1. q \in R /\ q.client = l[f].client /\ q.will = l[f].will /\ (q.end = l[f].end \/ q.end = "taken")
    <3>1. l[f] \in R
      BY <1>3, <2>0
    <3> QED
      BY <3>1 DEF Ends
  <2>2. l2 = [[l EXCEPT ![c] = r] EXCEPT ![f] = q]
    BY <1>5 DEF ConnectLog
  <2> HIDE DEF l2, R, q
  <2>3. l2 \in Logs /\ l2[c] = r /\ l2[f] = q /\ \A e \in Conn : e # c /\ e # f => l2[e] = l[e]
    BY <1>1, <1>2, <2>0, <2>1, <2>2
  <2>4. \A e \in Conn : e # c => /\ l2[e].client = l[e].client /\ l2[e].will = l[e].will
                                 /\ l2[e].end = l[e].end \/ (e = f /\ l2[e].end = "taken")
    BY <2>1, <2>3
  <2> QED
    BY <2>3, <2>4 DEF l2, r
<1> QED
  BY <1>4, <1>5

\* Nothing is left of an earlier use in memory that is allocated.
LEMMA Unused ==
    ASSUME NEW d, NEW l \in Logs, NEW k, NEW c \in Conn, Sound(d, Range(d.for_free), l, k), l[c].client = NoId
    PROVE  /\ d.context[c] = FreeContext /\ d.sent[c] = 0 /\ c \notin Range(d.for_free)
           /\ c \notin Range(d.expiry_list) /\ c \notin Range(d.delay_list)
<1>1. Settled(d.context[c], d.sent[c], c \in Range(d.expiry_list), c \in Range(d.delay_list),
              c \in Range(d.for_free), l[c], Later(l, c), k)
  BY DEF Sound
<1>2. d.context[c].state = "free" /\ d.context[c] = FreeContext /\ d.sent[c] = 0 /\ c \notin Range(d.for_free)
  BY <1>1 DEF Settled
<1>3. FreeContext.id = NoId
  BY DEF FreeContext
<1> QED
  BY <1>1, <1>2, <1>3 DEF Settled

\* f has the id i.
Owns(d, l, f, i) ==
    /\ d.context[f].id = i /\ l[f].client = i /\ ~Later(l, f) /\ f \notin Range(d.for_free)
    /\ d.context[f].state \in {"new", "active", "disconnected"}
    /\ ~d.context[f].will => d.context[f].delay = 0
    /\ d.sent[f] <= 1 /\ (d.context[f].will => d.sent[f] = 0)
    /\ l[f].end = "clean" => d.sent[f] = 0 /\ ~d.context[f].will
    /\ \A e \in Conn : e # f => d.context[e].id # i

LEMMA Owner ==
    ASSUME NEW d, NEW l \in Logs, NEW k, NEW f \in Conn, NEW i \in Clients, Sound(d, Range(d.for_free), l, k),
           d.by_id[i] = f
    PROVE  Owns(d, l, f, i)
<1>0. f # 0 /\ i # NoId
  BY NeverAssumption DEF Conn
<1>1. Settled(d.context[f], d.sent[f], f \in Range(d.expiry_list), f \in Range(d.delay_list),
              f \in Range(d.for_free), l[f], Later(l, f), k)
  BY DEF Sound
<1>2. d.context[f].id = i /\ \A e \in Conn : e # f => d.context[e].id # i
  BY <1>0 DEF Sound, Named
<1>3. d.context[f].state # "free"
  <2>1. FreeContext.id = NoId
    BY DEF FreeContext
  <2> QED
    BY <1>0, <1>1, <1>2, <2>1 DEF Settled
<1> QED
  BY <1>0, <1>1, <1>2, <1>3 DEF Settled, Owns

\* The context of a new connection.
Accepted(i, o) == [FreeContext EXCEPT
    !.state = "new", !.id = i, !.sock = TRUE, !.v5 = o.v5, !.clean = o.clean,
    !.expiry = o.expiry, !.will = o.will, !.delay = o.delay]

LEMMA AcceptedType ==
    ASSUME NEW i \in Clients, NEW o \in Options
    PROVE  LET x == Accepted(i, o)
           IN  /\ x \in Context /\ x.state = "new" /\ x.id = i /\ x.sock /\ x.will = o.will /\ x.delay = o.delay
               /\ x.subs = {} /\ (~x.will => x.delay = 0)
<1>1. o \in [v5 : BOOLEAN, clean : BOOLEAN, expiry : Nat, will : BOOLEAN, delay : Nat]
  BY OptionTypes
<1>2. ~o.will => o.delay = 0
  BY OptionAssumption
<1> QED
  BY <1>1, <1>2, ZenonT(60) DEF Accepted, FreeContext, Context, States

\* The state of the broker while the CONNECT is handled: c has its context and f,
\* if there was one, has lost its id.
Admitted(d, E, c, f, i, o) ==
    LET y == E.context[c]
        w == E.context[f]
    IN  /\ Good(E) /\ E.last_check = d.last_check
        /\ \A e \in Conn : e # f =>
             /\ e # c => E.context[e] = d.context[e]
             /\ E.sent[e] = d.sent[e]
             /\ e \in Range(E.expiry_list) <=> e \in Range(d.expiry_list)
             /\ e \in Range(E.delay_list) <=> e \in Range(d.delay_list)
        /\ y.id = i /\ y.sock = TRUE /\ y.will = o.will /\ (~y.will => y.delay = 0)
        /\ f = 0 => E.by_id = d.by_id /\ E.for_free = d.for_free
        /\ f # 0 =>
             /\ w.state = "disconnected" /\ w.sock = FALSE /\ w.will = FALSE /\ w.delay = 0 /\ w.id = NoId
             /\ f \notin Range(E.expiry_list) /\ f \notin Range(E.delay_list)
             /\ E.sent[f] = d.sent[f] \/ (d.context[f].will /\ E.sent[f] = d.sent[f] + 1)
             /\ E.by_id = [j \in Clients |-> IF j = i THEN 0 ELSE d.by_id[j]]
             /\ E.for_free = <<f>> \o d.for_free

LEMMA AcceptDoes ==
    ASSUME NEW d, NEW l \in Logs, NEW k, NEW c \in Conn, NEW i \in Clients, NEW o \in Options,
           Sound(d, Range(d.for_free), l, k), l[c].client = NoId
    PROVE  LET E == [d EXCEPT !.context[c] = Accepted(i, o)]
           IN  Admitted(d, E, c, 0, i, o) /\ E.context[c].subs = {} /\ SameTables(d, E)
<1> DEFINE x == Accepted(i, o)
           E == [d EXCEPT !.context[c] = x]
<1>1. Good(d) /\ d \in Mem /\ d.context \in [Conn -> Context]
  BY MemParts DEF Sound, Good
<1>2. /\ d.context[c] = FreeContext /\ d.sent[c] = 0
      /\ c \notin Range(d.expiry_list) /\ c \notin Range(d.delay_list)
  BY Unused
<1>3. FreeContext.subs = {}
  BY DEF FreeContext
<1>4. /\ x \in Context /\ x.state = "new" /\ x.id = i /\ x.sock /\ x.will = o.will /\ x.delay = o.delay
      /\ x.subs = {} /\ (~x.will => x.delay = 0)
  BY AcceptedType
<1> HIDE DEF x
<1>5. /\ Good(E) /\ SameTables(d, E) /\ SameLists(d, E) /\ E.sent = d.sent
      /\ E.context = [d.context EXCEPT ![c] = x]
  <2>1. x.subs = d.context[c].subs /\ c \notin Range(d.expiry_list)
    BY <1>2, <1>3, <1>4
  <2> QED
    BY <1>1, <1>4, <2>1, NewContext
<1> HIDE DEF E
<1>6. E.context[c] = x /\ \A e \in Conn : e # c => E.context[e] = d.context[e]
  BY <1>1, <1>5
<1>7. x.sock = TRUE
  BY <1>4, ContextParts
<1>8. Admitted(d, E, c, 0, i, o)
  BY <1>4, <1>5, <1>6, <1>7 DEF SameTables, SameLists, Admitted
<1> QED
  BY <1>4, <1>5, <1>6, <1>8 DEF E, x

LEMMA AdmitDoes ==
    ASSUME NEW d, NEW l \in Logs, NEW k, NEW c \in Conn, NEW i \in Clients, NEW o \in Options,
           NEW f \in Conn, d.by_id[i] = f,
           Sound(d, Range(d.for_free), l, k), l[c].client = NoId, now \in Nat, d.last_check <= now
    PROVE  LET E == Takeover([d EXCEPT !.context[c] = Accepted(i, o)], c, f)
           IN  Admitted(d, E, c, f, i, o) /\ f # c
<1> DEFINE d1 == [d EXCEPT !.context[c] = Accepted(i, o)]
           x == d1.context[c]
           E == Takeover(d1, c, f)
<1>1. Admitted(d, d1, c, 0, i, o) /\ d1.context[c].subs = {} /\ SameTables(d, d1)
  BY AcceptDoes
<1> HIDE DEF d1
<1>2. Owns(d, l, f, i)
  BY Owner
<1>3. c # f /\ f # 0
  BY <1>2, NeverAssumption DEF Conn, Owns
<1>4. d1.context[f] = d.context[f] /\ d1.sent[f] = d.sent[f] /\ Good(d1) /\ d1.last_check = d.last_check
  BY <1>1, <1>3 DEF Admitted
<1>5. /\ d1.context[f].state \in {"new", "active", "disconnected"}
      /\ ~d1.context[f].will => d1.context[f].delay = 0
      /\ d1.context[c].subs = {} /\ d1.last_check <= now
  BY <1>1, <1>2, <1>4 DEF Owns
<1>6. TakenOver(d1, E, c, f)
  BY <1>3, <1>4, <1>5, TakeoverDoes
<1> HIDE DEF E
<1>7. /\ Beside(d1, E, c, f)
      /\ E.context[f].state = "disconnected" /\ E.context[f].sock = FALSE
      /\ E.context[f].will = FALSE /\ E.context[f].delay = 0 /\ E.context[f].id = NoId
      /\ f \notin Range(E.expiry_list) /\ f \notin Range(E.delay_list)
      /\ E.sent[f] = d.sent[f] \/ (d.context[f].will /\ E.sent[f] = d.sent[f] + 1)
      /\ E.by_id = [j \in Clients |-> IF j = i THEN 0 ELSE d.by_id[j]]
      /\ E.for_free = <<f>> \o d.for_free
  BY <1>1, <1>2, <1>4, <1>6 DEF SameTables, TakenOver, Owns
<1>8. Good(E) /\ Fields(E.context[c], x) /\ E.last_check = d.last_check
  BY <1>4, <1>7 DEF Beside
<1>9. \A e \in Conn : e # f =>
         /\ e # c => E.context[e] = d.context[e]
         /\ E.sent[e] = d.sent[e]
         /\ e \in Range(E.expiry_list) <=> e \in Range(d.expiry_list)
         /\ e \in Range(E.delay_list) <=> e \in Range(d.delay_list)
  BY <1>1, <1>3, <1>7 DEF Beside, Admitted, Conn
<1>10. /\ E.context[c].id = i /\ E.context[c].sock = TRUE /\ E.context[c].will = o.will
       /\ (~E.context[c].will => E.context[c].delay = 0)
  BY <1>1, <1>8 DEF Fields, Admitted
<1>11. Admitted(d, E, c, f, i, o)
  BY <1>3, <1>7, <1>8, <1>9, <1>10 DEF Admitted
<1> QED
  BY <1>3, <1>11 DEF E, d1

\* The end of connect__on_authorised.
Welcome(d, c, i) == [d EXCEPT !.by_id[i] = c, !.context[c].state = "active"]

Welcomed(d, E, c, i) ==
    LET y == d.context[c]
    IN  /\ Good(E) /\ SameLists(d, E) /\ E.sent = d.sent /\ E.for_free = d.for_free
        /\ E.last_check = d.last_check /\ E.by_id = [d.by_id EXCEPT ![i] = c]
        /\ \A e \in Conn : e # c => E.context[e] = d.context[e]
        /\ E.context[c].state = "active" /\ E.context[c].id = y.id /\ E.context[c].sock = y.sock
        /\ E.context[c].will = y.will /\ E.context[c].delay = y.delay

LEMMA WelcomeDoes ==
    ASSUME NEW d, Good(d), NEW c \in Conn, NEW i \in Clients
    PROVE  Welcomed(d, Welcome(d, c, i), c, i)
<1> DEFINE y == d.context[c]
           z == [y EXCEPT !.state = "active"]
           G == [d EXCEPT !.context[c] = z]
           E == [G EXCEPT !.by_id[i] = c]
<1>1. d \in Mem /\ y \in Context /\ d.context \in [Conn -> Context]
  BY MemParts DEF Good
<1>2. Welcome(d, c, i) = E
  BY <1>1 DEF Welcome, Mem
<1>3. /\ z \in Context /\ z.state = "active" /\ z.id = y.id /\ z.sock = y.sock /\ z.will = y.will
      /\ z.delay = y.delay /\ z.subs = y.subs /\ z.expiry_time = y.expiry_time
  BY <1>1 DEF Context, States
<1> HIDE DEF z
<1>4. /\ Good(G) /\ SameTables(d, G) /\ SameLists(d, G) /\ G.sent = d.sent
      /\ G.context = [d.context EXCEPT ![c] = z]
  BY <1>3, NewContext
<1> HIDE DEF G
<1>5. /\ Good(E) /\ SameLists(G, E) /\ E.sent = G.sent /\ E.context = G.context
      /\ E.by_id = [G.by_id EXCEPT ![i] = c] /\ E.for_free = G.for_free
      /\ E.last_check = G.last_check /\ E.subs = G.subs
  BY <1>4, NewName
<1> HIDE DEF E
<1>6. E.context[c] = z /\ \A e \in Conn : e # c => E.context[e] = d.context[e]
  BY <1>1, <1>4, <1>5
<1> QED
  BY <1>2, <1>3, <1>4, <1>5, <1>6 DEF SameTables, SameLists, Welcomed

LEMMA WelcomeNamed ==
    ASSUME NEW d, NEW E, Named(d), NEW c \in Conn, NEW f \in 0..MaxConn, NEW i \in Clients, f = d.by_id[i], c # f,
           d.by_id \in [Clients -> 0..MaxConn], E.by_id = [d.by_id EXCEPT ![i] = c],
           \A e \in Conn : d.context[e].id \in Clients \cup {NoId}, d.context[c].id = NoId,
           E.context[c].id = i, f # 0 => E.context[f].id = NoId,
           \A e \in Conn : e # c /\ e # f => E.context[e] = d.context[e]
    PROVE  Named(E)
<1>0. 0 \notin Conn /\ i # NoId
  BY NeverAssumption DEF Conn
<1>1. \A j \in Clients : E.by_id[j] = IF j = i THEN c ELSE d.by_id[j]
  OBVIOUS
<1>2. \A j \in Clients : d.by_id[j] # 0 => d.by_id[j] \in Conn
  BY BoundAssumption DEF Conn
<1>3. ASSUME NEW j \in Clients, E.by_id[j] # 0 PROVE E.context[E.by_id[j]].id = j
  <2>1. CASE j = i
    BY <1>1, <2>1
  <2>2. CASE j # i
    <3>1. E.by_id[j] = d.by_id[j] /\ d.by_id[j] \in Conn /\ d.context[d.by_id[j]].id = j
      BY <1>1, <1>2, <1>3, <2>2 DEF Named
    <3>2. d.by_id[j] # c
      BY <3>1, NeverAssumption
    <3>3. d.by_id[j] # f
      <4>1. ASSUME d.by_id[j] = f PROVE FALSE
        <5>1. d.context[f].id = i
          BY <1>0, <3>1, <4>1 DEF Named
        <5> QED
          BY <2>2, <3>1, <4>1, <5>1
      <4> QED
        BY <4>1
    <3> QED
      BY <3>1, <3>2, <3>3
  <2> QED
    BY <2>1, <2>2
<1>4. ASSUME NEW e \in Conn, E.context[e].id # NoId PROVE E.by_id[E.context[e].id] = e
  <2>1. CASE e = c
    BY <1>1, <2>1
  <2>2. CASE e # c
    <3>1. e # f
      BY <1>0, <1>4
    <3>2. E.context[e] = d.context[e] /\ d.context[e].id \in Clients /\ d.by_id[d.context[e].id] = e
      BY <1>4, <2>2, <3>1 DEF Named
    <3>3. d.context[e].id # i
      BY <3>1, <3>2
    <3> QED
      BY <1>1, <3>2, <3>3
  <2> QED
    BY <2>1, <2>2
<1> QED
  BY <1>3, <1>4 DEF Named

Joined(d, E, l, l2, k) ==
    /\ Sound(E, Range(E.for_free), l2, k) /\ IsInjective(E.for_free)
    /\ E.last_check = d.last_check /\ Cancelled(d, E, l)

LEMMA ConnectSound ==
    ASSUME NEW d, NEW G, NEW l \in Logs, NEW k, NEW c \in Conn, NEW i \in Clients, NEW o \in Options,
           NEW f \in 0..MaxConn, d.by_id[i] = f, Admitted(d, G, c, f, i, o), f # c,
           Sound(d, Range(d.for_free), l, k), IsInjective(d.for_free),
           \A e \in Conn : l[e].client # NoId <=> e < c
    PROVE  Joined(d, Welcome(G, c, i), l, ConnectLog(l, c, f, Entry(i, o)), k)
<1> DEFINE E == Welcome(G, c, i)
           l2 == ConnectLog(l, c, f, Entry(i, o))
           F == Range(d.for_free)
<1>0. 0 \notin Conn /\ i # NoId /\ (f # 0 => f \in Conn) /\ ~(c < c) /\ Conn \subseteq Nat
  BY NeverAssumption, BoundAssumption DEF Conn
<1>1. /\ Good(d) /\ d \in Mem /\ d.context \in [Conn -> Context] /\ d.by_id \in [Clients -> 0..MaxConn]
      /\ d.for_free \in Seq(Conn) /\ Named(d) /\ \A e \in Conn : d.context[e].id \in Clients \cup {NoId}
      /\ d.sent \in [Conn -> Nat]
  <2>1. Good(d) /\ d \in Mem /\ Named(d)
    BY DEF Sound, Good
  <2> QED
    BY <2>1, MemParts, ContextParts
<1>2. /\ d.context[c] = FreeContext /\ d.sent[c] = 0 /\ c \notin Range(d.for_free)
      /\ c \notin Range(d.expiry_list) /\ c \notin Range(d.delay_list)
  <2>1. l[c].client = NoId
    BY <1>0
  <2> QED
    BY <2>1, Unused
<1>3. d.context[c].id = NoId
  BY <1>2 DEF FreeContext
<1>4. f # 0 => Owns(d, l, f, i)
  <2>1. f # 0 => f \in Conn
    BY <1>0
  <2> QED
    BY <2>1, Owner
<1>5. Good(G)
  BY DEF Admitted
<1>6. /\ Good(E) /\ SameLists(G, E) /\ E.sent = G.sent /\ E.for_free = G.for_free
      /\ E.last_check = G.last_check /\ E.by_id = [G.by_id EXCEPT ![i] = c]
      /\ \A e \in Conn : e # c => E.context[e] = G.context[e]
      /\ E.context[c].state = "active" /\ E.context[c].id = G.context[c].id /\ E.context[c].sock = G.context[c].sock
      /\ E.context[c].will = G.context[c].will /\ E.context[c].delay = G.context[c].delay
  <2>1. Welcomed(G, E, c, i)
    BY <1>5, WelcomeDoes
  <2> QED
    BY <2>1 DEF Welcomed
<1>7. /\ l2 \in Logs /\ l2[c] = Entry(i, o)
      /\ \A e \in Conn : e # c => /\ l2[e].client = l[e].client /\ l2[e].will = l[e].will
                                  /\ l2[e].end = l[e].end \/ (e = f /\ l2[e].end = "taken")
      /\ \A e \in Conn : e # c /\ e # f => l2[e] = l[e]
  BY ConnectLogDoes
<1> HIDE DEF E, l2
<1>8. E.by_id = [d.by_id EXCEPT ![i] = c]
  <2>1. G.by_id = d.by_id \/ G.by_id = [j \in Clients |-> IF j = i THEN 0 ELSE d.by_id[j]]
    BY DEF Admitted
  <2> QED
    BY <1>1, <1>6, <2>1
<1>9. \A e \in Conn : e # f =>
         /\ e # c => E.context[e] = d.context[e]
         /\ E.sent[e] = d.sent[e]
         /\ e \in Range(E.expiry_list) <=> e \in Range(d.expiry_list)
         /\ e \in Range(E.delay_list) <=> e \in Range(d.delay_list)
  BY <1>6 DEF Admitted, SameLists
<1>10. /\ E.context[c].state = "active" /\ E.context[c].id = i /\ E.context[c].sock = TRUE
       /\ E.context[c].will = o.will /\ (~E.context[c].will => E.context[c].delay = 0)
  BY <1>6 DEF Admitted
<1>11. f # 0 => /\ E.context[f].state = "disconnected" /\ E.context[f].sock = FALSE
                /\ E.context[f].will = FALSE /\ E.context[f].delay = 0 /\ E.context[f].id = NoId
                /\ f \notin Range(E.expiry_list) /\ f \notin Range(E.delay_list)
                /\ E.sent[f] = d.sent[f] \/ (d.context[f].will /\ E.sent[f] = d.sent[f] + 1)
                /\ E.for_free = <<f>> \o d.for_free
  BY <1>0, <1>6 DEF Admitted, SameLists
<1>12. /\ IsInjective(E.for_free) /\ Range(E.for_free) \subseteq Conn
       /\ \A e \in Conn : e \in Range(E.for_free) <=> e \in F \/ e = f
  <2>1. Range(d.for_free) \subseteq Conn
    BY <1>1, RangeOfSeq
  <2>2. CASE f = 0
    <3>1. E.for_free = d.for_free
      BY <1>6, <2>2 DEF Admitted
    <3> QED
      BY <1>0, <2>1, <2>2, <3>1
  <2>3. CASE f # 0
    <3>1. E.for_free = <<f>> \o d.for_free /\ f \notin Range(d.for_free) /\ f \in Conn
      BY <1>0, <1>4, <1>11, <2>3 DEF Owns
    <3>2. IsInjective(E.for_free) /\ Range(E.for_free) = Range(d.for_free) \cup {f}
      BY <1>1, <3>1, PutFirst
    <3> QED
      BY <2>1, <3>1, <3>2
  <2> QED
    BY <2>2, <2>3
<1>13. Named(E)
  <2>1. /\ E.context[c].id = i /\ (f # 0 => E.context[f].id = NoId)
        /\ \A e \in Conn : e # c /\ e # f => E.context[e] = d.context[e]
    BY <1>9, <1>10, <1>11
  <2> QED
    BY <1>1, <1>3, <1>8, <2>1, WelcomeNamed
<1>14. Settled(E.context[c], E.sent[c], c \in Range(E.expiry_list), c \in Range(E.delay_list),
               c \in Range(E.for_free), l2[c], Later(l2, c), k)
  <2>1. /\ E.sent[c] = 0 /\ c \notin Range(E.expiry_list) /\ c \notin Range(E.delay_list)
        /\ c \notin Range(E.for_free)
    BY <1>2, <1>9, <1>12
  <2>2. l2[c].client = i /\ l2[c].will = o.will /\ l2[c].end = "open"
    BY <1>7 DEF Entry
  <2>3. ~Later(l2, c)
    <3>1. \A e \in Conn : e > c => e # c /\ ~(e < c)
      BY <1>0
    <3>2. \A e \in Conn : e > c => l2[e].client = NoId
      BY <1>7, <3>1
    <3> QED
      BY <1>0, <2>2, <3>2 DEF Later
  <2> QED
    BY <1>0, <1>10, <2>1, <2>2, <2>3 DEF Settled
<1>15. f # 0 => Settled(E.context[f], E.sent[f], f \in Range(E.expiry_list), f \in Range(E.delay_list),
                        f \in Range(E.for_free), l2[f], Later(l2, f), k)
  <2> SUFFICES ASSUME f # 0
               PROVE  Settled(E.context[f], E.sent[f], f \in Range(E.expiry_list), f \in Range(E.delay_list),
                              f \in Range(E.for_free), l2[f], Later(l2, f), k)
    OBVIOUS
  <2>1. f \in Conn /\ Owns(d, l, f, i) /\ d.sent[f] \in Nat
    BY <1>0, <1>1, <1>4
  <2>2. Later(l2, f)
    <3>1. f < c /\ l[f].client = i
      BY <1>0, <2>1 DEF Owns
    <3>2. l2[c].client = i /\ l2[f].client = i /\ c > f
      BY <1>0, <1>7, <2>1, <3>1 DEF Entry
    <3> QED
      BY <3>2 DEF Later
  <2>3. E.sent[f] <= 1
    BY <1>11, <2>1 DEF Owns
  <2>4. l2[f].end = "clean" => E.sent[f] = 0
    <3>1. ASSUME l2[f].end = "clean" PROVE l[f].end = "clean"
      BY <1>7, <2>1, <3>1
    <3> QED
      BY <1>11, <2>1, <3>1 DEF Owns
  <2>5. l2[f].client # NoId
    BY <1>0, <1>7, <2>1 DEF Owns
  <2>6. f \in Range(E.for_free)
    BY <1>12, <2>1
  <2> QED
    BY <1>11, <2>2, <2>3, <2>4, <2>5, <2>6 DEF Settled
<1>16. ASSUME NEW e \in Conn, e # c, e # f
       PROVE  Settled(E.context[e], E.sent[e], e \in Range(E.expiry_list), e \in Range(E.delay_list),
                      e \in Range(E.for_free), l2[e], Later(l2, e), k)
  <2>1. Settled(d.context[e], d.sent[e], e \in Range(d.expiry_list), e \in Range(d.delay_list),
                e \in F, l[e], Later(l, e), k)
    BY DEF Sound
  <2>2. l2[e] = l[e] /\ (e \in Range(E.for_free) <=> e \in F)
    BY <1>7, <1>12, <1>16
  <2>3. l[e].client # NoId /\ Later(l, e) => Later(l2, e)
    <3> SUFFICES ASSUME l[e].client # NoId, NEW g \in Conn, g > e, l[g].client = l[e].client PROVE Later(l2, e)
      BY DEF Later
    <3>1. g # c
      BY <1>0
    <3>2. l2[g].client = l2[e].client
      BY <1>7, <2>2, <3>1
    <3> QED
      BY <3>2 DEF Later
  <2>4. d.context[e].id # NoId /\ ~Later(l, e) => ~Later(l2, e)
    <3> SUFFICES ASSUME d.context[e].id # NoId, NEW g \in Conn, g > e, l2[g].client = l2[e].client PROVE Later(l, e)
      BY DEF Later
    <3>1. d.context[e].id \in Clients /\ l[e].client = d.context[e].id
      BY <1>1, <2>1 DEF Settled
    <3>2. g # c
      <4>1. ASSUME g = c PROVE FALSE
        <5>1. d.context[e].id = i
          BY <1>7, <2>2, <3>1, <4>1 DEF Entry
        <5>2. d.by_id[i] = e
          BY <1>0, <1>1, <5>1 DEF Named
        <5> QED
          BY <1>16, <5>2
      <4> QED
        BY <4>1
    <3>3. l[g].client = l[e].client
      BY <1>7, <2>2, <3>2
    <3> QED
      BY <3>3 DEF Later
  <2>5. /\ E.context[e] = d.context[e] /\ E.sent[e] = d.sent[e]
        /\ e \in Range(E.expiry_list) <=> e \in Range(d.expiry_list)
        /\ e \in Range(E.delay_list) <=> e \in Range(d.delay_list)
    BY <1>9, <1>16
  <2> HIDE DEF F
  <2> QED
    BY <2>1, <2>2, <2>3, <2>4, <2>5 DEF Settled
<1>17. Sound(E, Range(E.for_free), l2, k)
  <2>1. \A e \in Conn : Settled(E.context[e], E.sent[e], e \in Range(E.expiry_list), e \in Range(E.delay_list),
                                e \in Range(E.for_free), l2[e], Later(l2, e), k)
    BY <1>0, <1>14, <1>15, <1>16
  <2> QED
    BY <1>6, <1>12, <1>13, <2>1 DEF Sound
<1>18. Cancelled(d, E, l)
  <2>1. ASSUME NEW e \in Conn, E.sent[e] # d.sent[e] PROVE ~Later(l, e)
    <3>1. e = f
      BY <1>9, <2>1
    <3> QED
      BY <1>0, <1>4, <3>1 DEF Owns
  <2> QED
    BY <2>1 DEF Cancelled
<1>19. E.last_check = d.last_check
  BY <1>6 DEF Admitted
<1> QED
  BY <1>12, <1>17, <1>18, <1>19 DEF Joined, E, l2
----------------------------------------------------------------------------
(* Subscriptions.                                                          *)

\* The tree becomes u, and the list of the context c becomes S.
Refile(d, c, u, S) == [d EXCEPT !.subs = u, !.context[c].subs = S]

Refiled(d, E, c) ==
    /\ Only(d, E, c) /\ SameLists(d, E) /\ E.sent = d.sent /\ E.by_id = d.by_id
    /\ E.for_free = d.for_free /\ Fields(E.context[c], d.context[c])

\* The leaves of u are those of the tree of d, except for those of c.
Agrees(d, c, u, S) ==
    /\ u \in Trees(Leaf) /\ Neat(u) /\ S \in SUBSET Ref /\ IsFiniteSet(S)
    /\ \A r \in Place : /\ OneEach(At(u, r)) /\ (c \in Holders(At(u, r)) <=> r \in S)
                        /\ \A e \in Conn : e # c => (e \in Holders(At(u, r)) <=> e \in Holders(At(d.subs, r)))

LEMMA RefileDoes ==
    ASSUME NEW d, Good(d), NEW c \in Conn, NEW u, NEW S, Agrees(d, c, u, S)
    PROVE  /\ Refiled(d, Refile(d, c, u, S), c) /\ Refile(d, c, u, S).subs = u
           /\ Refile(d, c, u, S).context[c].subs = S
<1> DEFINE E == Refile(d, c, u, S)
           x == d.context[c]
           y == [x EXCEPT !.subs = S]
<1>1. d \in Mem /\ x \in Context /\ Range(d.expiry_list) \subseteq Conn
  BY MemParts, RangeOfSeq DEF Good
<1>2. /\ \A r \in Place, e \in Conn : r \in d.context[e].subs <=> e \in Holders(At(d.subs, r))
      /\ u \in Trees(Leaf) /\ Neat(u) /\ S \in SUBSET Ref /\ IsFiniteSet(S)
  BY DEF Good, Filed, Agrees
<1>3. y \in Context /\ y.subs = S /\ Fields(y, x)
  BY <1>1, <1>2 DEF Context, Fields
<1>4. E = [d EXCEPT !.subs = u, !.context[c] = y]
  BY <1>1 DEF Mem, Refile
<1> HIDE DEF y
<1>5. [d.context EXCEPT ![c] = y] \in [Conn -> Context]
  BY <1>1, <1>3, MemParts
<1> HIDE DEF E
<1>6. /\ SameLists(d, E) /\ E.sent = d.sent /\ E.by_id = d.by_id /\ E.for_free = d.for_free
      /\ E.last_check = d.last_check /\ E.subs = u /\ E.context = [d.context EXCEPT ![c] = y]
  BY <1>1, <1>4 DEF Mem, SameLists
<1>7. E \in Mem
  BY <1>1, <1>2, <1>4, <1>5 DEF Mem
<1>8. E.context[c] = y /\ \A e \in Conn : e # c => E.context[e] = d.context[e]
  BY <1>1, <1>6, MemParts
<1>9. \A e \in Conn : E.context[e].expiry_time = d.context[e].expiry_time
  BY <1>3, <1>8 DEF Fields
<1>10. Timers(E)
  <2>1. E.expiry_list = d.expiry_list /\ E.delay_list = d.delay_list /\ Timers(d)
    BY <1>6 DEF SameLists, Good
  <2>2. \A i \in DOMAIN d.expiry_list : d.expiry_list[i] \in Conn
    BY <1>1 DEF Range
  <2>3. Ordered(E.expiry_list, E.context)
    BY <1>9, <2>1, <2>2 DEF Timers, Ordered
  <2> QED
    BY <1>1, <1>6, <1>9, <2>1, <2>3 DEF Timers
<1>11. Filed(E)
  <2>1. \A e \in Conn : IsFiniteSet(E.context[e].subs)
    BY <1>2, <1>3, <1>8 DEF Good, Filed
  <2>2. ASSUME NEW r \in Place, NEW e \in Conn
        PROVE  r \in E.context[e].subs <=> e \in Holders(At(u, r))
    <3>1. r \in d.context[e].subs <=> e \in Holders(At(d.subs, r))
      BY <1>2
    <3>2. CASE e = c
      BY <1>3, <1>8, <3>2 DEF Agrees
    <3>3. CASE e # c
      BY <1>8, <3>1, <3>3 DEF Agrees
    <3> QED
      BY <3>2, <3>3
  <2> QED
    BY <1>2, <1>6, <2>1, <2>2 DEF Filed, Agrees
<1>12. Only(d, E, c)
  BY <1>6, <1>7, <1>8, <1>10, <1>11 DEF Only, Good, SameLists
<1> QED
  BY <1>3, <1>6, <1>8, <1>12 DEF E, Refiled

\* A context is not touched by a change of its list.
LEMMA RefiledSound ==
    ASSUME NEW d, NEW E, NEW F, NEW l, NEW k, NEW c \in Conn, Sound(d, F, l, k), Refiled(d, E, c),
           d.context[c].state # "free"
    PROVE  Sound(E, F, l, k)
<1> DEFINE x == d.context[c]
           y == E.context[c]
<1>1. Good(d) /\ Named(d) /\ F \subseteq Conn /\ d \in Mem /\ d.by_id \in [Clients -> 0..MaxConn]
  BY MemParts DEF Sound, Good
<1>2. /\ Only(d, E, c) /\ E.by_id = d.by_id /\ E.sent = d.sent /\ E.expiry_list = d.expiry_list
      /\ E.delay_list = d.delay_list /\ Fields(y, x)
  BY DEF Refiled, SameLists
<1>3. Settled(x, d.sent[c], c \in Range(d.expiry_list), c \in Range(d.delay_list), c \in F, l[c], Later(l, c), k)
  BY DEF Sound
<1>4. Settled(y, d.sent[c], c \in Range(d.expiry_list), c \in Range(d.delay_list), c \in F, l[c], Later(l, c), k)
  <2>1. x.state # "free"
    OBVIOUS
  <2> HIDE DEF x, y
  <2> QED
    BY <1>2, <1>3, <2>1 DEF Settled, Fields
<1>5. Settled(E.context[c], E.sent[c], c \in Range(E.expiry_list), c \in Range(E.delay_list), c \in F,
              l[c], Later(l, c), k)
  BY <1>2, <1>4
<1>6. Named(E)
  <2>1. E.context[c].id = d.context[c].id /\ \A e \in Conn : e # c => E.context[e] = d.context[e]
    BY <1>2 DEF Fields, Only
  <2> QED
    BY <1>1, <1>2, <2>1, NamedKept
<1> QED
  BY <1>1, <1>2, <1>5, <1>6, SoundStep

\* The lists of leaves hold connections.
LEMMA HoldersType ==
    ASSUME NEW t \in Trees(Leaf), NEW r \in Place
    PROVE  Holders(At(t, r)) \subseteq Conn
<1>1. At(t, r) \in Seq(Leaf)
  <2>1. CASE r.path \in DOMAIN t
    <3>1. t[r.path] \in Node(Leaf)
      BY <2>1, TreesType
    <3> QED
      BY <2>1, <3>1, MembersType DEF At
  <2>2. CASE r.path \notin DOMAIN t
    BY <2>2, EmptySeq DEF At
  <2> QED
    BY <2>1, <2>2
<1>2. \A i \in DOMAIN At(t, r) : At(t, r)[i] \in Leaf
  BY <1>1
<1> QED
  BY <1>2 DEF Holders, Leaf

\* sub__add for the context c.
Add(d, c, f, n) ==
    [d EXCEPT !.subs = SubAdd(@, f, [context |-> c, no_local |-> n], IdOf(d)),
              !.context[c].subs = @ \cup {SubRef(f)}]

LEMMA AddDoes ==
    ASSUME NEW d, Good(d), Named(d), NEW c \in Conn, d.context[c].id # NoId, NEW f \in Filters, NEW n \in NoLocal
    PROVE  Refiled(d, Add(d, c, f, n), c)
<1> DEFINE x == d.context[c]
           r == SubRef(f)
           leaf == [context |-> c, no_local |-> n]
           id == IdOf(d)
           t == d.subs
           u == SubAdd(t, f, leaf, id)
           S == x.subs \cup {r}
<1>1. d \in Mem /\ x \in Context /\ t \in Trees(Leaf) /\ Neat(t) /\ x.subs \in SUBSET Ref /\ IsFiniteSet(x.subs)
      /\ d.context \in [Conn -> Context]
  BY MemParts, ContextParts DEF Good, Filed
<1>2. /\ \A q \in Place : OneEach(At(t, q))
      /\ \A q \in Place, e \in Conn : q \in d.context[e].subs <=> e \in Holders(At(t, q))
  BY DEF Good, Filed
<1>3. r \in Place /\ r.path = Path(Tokenise(f).topics) /\ r.share = Tokenise(f).share /\ r.path # <<>> /\ r \in Ref
  BY RefPlace DEF Ref
<1>4. leaf \in Leaf /\ leaf.context = c
  BY DEF Leaf
<1>5. \A q \in Holders(At(t, r)) : id[q] = id[leaf.context] => q = leaf.context
  <2> SUFFICES ASSUME NEW q \in Holders(At(t, r)), id[q] = id[c] PROVE q = c
    BY <1>4
  <2>1. q \in Conn
    BY <1>1, <1>3, HoldersType
  <2>2. d.context[q].id = d.context[c].id
    BY <2>1 DEF IdOf
  <2> QED
    BY <2>1, <2>2 DEF Named
<1>6. Add(d, c, f, n) = Refile(d, c, u, S)
  BY DEF Add, Refile
<1>7. IsFiniteSet(S) /\ S \in SUBSET Ref
  BY <1>1, <1>3, FS_AddElement
<1> HIDE DEF r, leaf, id, t, S
<1>8. /\ u \in Trees(Leaf) /\ Neat(u)
      /\ \A q \in Place : /\ OneEach(At(u, q))
                          /\ Holders(At(u, q)) = Holders(At(t, q)) \cup (IF q = r THEN {leaf.context} ELSE {})
  BY <1>1, <1>2, <1>3, <1>4, <1>5, SubAddKeeps
<1> HIDE DEF u
<1>9. Agrees(d, c, u, S)
  <2>1. ASSUME NEW q \in Place
        PROVE  /\ c \in Holders(At(u, q)) <=> q \in S
               /\ \A e \in Conn : e # c => (e \in Holders(At(u, q)) <=> e \in Holders(At(d.subs, q)))
    <3>1. Holders(At(u, q)) = Holders(At(t, q)) \cup (IF q = r THEN {c} ELSE {})
      BY <1>4, <1>8
    <3>2. q \in S <=> c \in Holders(At(t, q)) \/ q = r
      BY <1>2 DEF S
    <3> QED
      BY <3>1, <3>2 DEF t
  <2> QED
    BY <1>7, <1>8, <2>1 DEF Agrees
<1> QED
  BY <1>6, <1>9, RefileDoes

\* The leaf of c at a place goes, if it is there.
Dropped(t, u, r, c) ==
    /\ u \in Trees(Leaf) /\ Neat(u)
    /\ \A q \in Place : /\ OneEach(At(u, q))
                        /\ Holders(At(u, q)) = Holders(At(t, q)) \ (IF q = r THEN {c} ELSE {})

LEMMA DropDoes ==
    ASSUME NEW t \in Trees(Leaf), Neat(t), \A q \in Place : OneEach(At(t, q)), NEW r \in Place, NEW c
    PROVE  Dropped(t, IF r.path \in DOMAIN t /\ c \in Holders(At(t, r)) THEN RemoveLeaf(t, r.path, r.share, c) ELSE t,
                   r, c)
<1>1. CASE r.path \in DOMAIN t /\ c \in Holders(At(t, r))
  <2> DEFINE v == RemoveLeaf(t, r.path, r.share, c)
  <2>1. /\ v \in Trees(Leaf) /\ Neat(v)
        /\ \A q \in Place : /\ OneEach(At(v, q))
                            /\ Holders(At(v, q)) = Holders(At(t, q)) \ (IF q = r THEN {c} ELSE {})
    BY <1>1, RemoveLeafKeeps
  <2> HIDE DEF v
  <2>2. Dropped(t, v, r, c)
    BY <2>1 DEF Dropped
  <2> QED
    BY <1>1, <2>2 DEF v
<1>2. CASE ~(r.path \in DOMAIN t /\ c \in Holders(At(t, r)))
  <2>1. c \notin Holders(At(t, r))
    BY <1>2 DEF At, Holders
  <2>2. \A q \in Place : Holders(At(t, q)) = Holders(At(t, q)) \ (IF q = r THEN {c} ELSE {})
    BY <2>1
  <2>3. Dropped(t, t, r, c)
    BY <2>2 DEF Dropped
  <2> QED
    BY <1>2, <2>3
<1> QED
  BY <1>1, <1>2

\* sub__remove for the context c.
SubRemoved(d, c, f) ==
    [d EXCEPT !.subs = SubRemove(@, f, c), !.context[c].subs = @ \ {SubRef(f)}]

LEMMA RemoveDoes ==
    ASSUME NEW d, Good(d), NEW c \in Conn, NEW f \in Filters
    PROVE  Refiled(d, SubRemoved(d, c, f), c)
<1> DEFINE x == d.context[c]
           r == SubRef(f)
           t == d.subs
           u == SubRemove(t, f, c)
           S == x.subs \ {r}
<1>1. d \in Mem /\ x \in Context /\ t \in Trees(Leaf) /\ Neat(t) /\ x.subs \in SUBSET Ref /\ IsFiniteSet(x.subs)
  BY MemParts, ContextParts DEF Good, Filed
<1>2. /\ \A q \in Place : OneEach(At(t, q))
      /\ \A q \in Place, e \in Conn : q \in d.context[e].subs <=> e \in Holders(At(t, q))
  BY DEF Good, Filed
<1>3. r \in Place /\ r.path = Path(Tokenise(f).topics) /\ r.share = Tokenise(f).share
  BY RefPlace
<1>4. SubRemoved(d, c, f) = Refile(d, c, u, S)
  BY DEF SubRemoved, Refile
<1>5. IsFiniteSet(S) /\ S \in SUBSET Ref
  BY <1>1, FS_Subset
<1>6. u = IF r.path \in DOMAIN t /\ c \in Holders(At(t, r)) THEN RemoveLeaf(t, r.path, r.share, c) ELSE t
  <2>1. u = IF r.path \in DOMAIN t /\ \E i \in DOMAIN Members(t[r.path], r.share) :
                                           Members(t[r.path], r.share)[i].context = c
            THEN RemoveLeaf(t, r.path, r.share, c) ELSE t
    BY <1>3 DEF SubRemove
  <2>2. r.path \in DOMAIN t => (c \in Holders(At(t, r)) <=> \E i \in DOMAIN Members(t[r.path], r.share) :
                                           Members(t[r.path], r.share)[i].context = c)
    BY DEF Holders, At
  <2> HIDE DEF u, r, t
  <2> QED
    BY <2>1, <2>2
<1> HIDE DEF r, t, u, S
<1>7. /\ u \in Trees(Leaf) /\ Neat(u)
      /\ \A q \in Place : /\ OneEach(At(u, q))
                          /\ Holders(At(u, q)) = Holders(At(t, q)) \ (IF q = r THEN {c} ELSE {})
  <2> DEFINE v == IF r.path \in DOMAIN t /\ c \in Holders(At(t, r)) THEN RemoveLeaf(t, r.path, r.share, c) ELSE t
  <2>1. Dropped(t, v, r, c)
    BY <1>1, <1>2, <1>3, DropDoes
  <2>2. Dropped(t, u, r, c)
    BY <1>6, <2>1
  <2> QED
    BY <2>2 DEF Dropped
<1>8. Agrees(d, c, u, S)
  <2>1. ASSUME NEW q \in Place
        PROVE  /\ c \in Holders(At(u, q)) <=> q \in S
               /\ \A e \in Conn : e # c => (e \in Holders(At(u, q)) <=> e \in Holders(At(d.subs, q)))
    <3>1. Holders(At(u, q)) = Holders(At(t, q)) \ (IF q = r THEN {c} ELSE {})
      BY <1>7
    <3>2. q \in S <=> c \in Holders(At(t, q)) /\ q # r
      BY <1>2 DEF S
    <3> QED
      BY <3>1, <3>2 DEF t
  <2> QED
    BY <1>5, <1>7, <2>1 DEF Agrees
<1> QED
  BY <1>4, <1>8, RefileDoes

\* A publication turns the lists of the share names.
Rotate(d, topic) == [d EXCEPT !.subs = RotateShares(@, topic)]

LEMMA RotateSound ==
    ASSUME NEW d, NEW F, NEW l, NEW k, NEW topic, Sound(d, F, l, k)
    PROVE  LET E == Rotate(d, topic)
           IN  /\ Sound(E, F, l, k) /\ E.for_free = d.for_free /\ E.sent = d.sent
               /\ E.last_check = d.last_check
<1> DEFINE t == d.subs
           u == RotateShares(t, topic)
           E == [d EXCEPT !.subs = u]
<1>0. Rotate(d, topic) = E
  BY DEF Rotate
<1>1. Good(d) /\ d \in Mem /\ t \in Trees(Leaf) /\ Neat(t) /\ (\A q \in Place : OneEach(At(t, q))) /\ Named(d)
      /\ F \subseteq Conn
  BY MemParts DEF Sound, Good, Filed
<1> HIDE DEF t
<1>2. /\ u \in Trees(Leaf) /\ Neat(u)
      /\ \A q \in Place : OneEach(At(u, q)) /\ Holders(At(u, q)) = Holders(At(t, q))
  BY <1>1, RotateKeeps
<1> HIDE DEF u
<1>3. E \in Mem
  BY <1>1, <1>2 DEF Mem
<1>4. /\ E.context = d.context /\ E.sent = d.sent /\ E.by_id = d.by_id /\ E.expiry_list = d.expiry_list
      /\ E.delay_list = d.delay_list /\ E.last_check = d.last_check /\ E.for_free = d.for_free /\ E.subs = u
  BY <1>1 DEF Mem
<1> HIDE DEF E
<1>5. Timers(E)
  BY <1>1, <1>4 DEF Good, Timers
<1>6. Filed(E)
  BY <1>1, <1>2, <1>4 DEF Good, Filed, t
<1>7. Good(E) /\ Named(E)
  BY <1>1, <1>3, <1>4, <1>5, <1>6 DEF Good, Named
<1>8. Sound(E, F, l, k)
  BY <1>1, <1>4, <1>7 DEF Sound
<1> QED
  BY <1>0, <1>4, <1>8
----------------------------------------------------------------------------
(* The saved state.                                                        *)

\* What is put before a list comes off again.
LEMMA DropFront ==
    ASSUME NEW S, NEW a \in Seq(S), NEW f \in Seq(S)
    PROVE  SubSeq(a \o f, Len(a) + 1, Len(a \o f)) = f
<1> DEFINE p == a \o f
           m == Len(a) + 1
           n == Len(p)
<1>1. Len(a) \in Nat /\ Len(f) \in Nat
  BY LenProperties
<1>2. /\ p \in Seq(S) /\ Len(p) = Len(a) + Len(f)
      /\ \A i \in 1 .. Len(a) + Len(f) : p[i] = IF i <= Len(a) THEN a[i] ELSE f[i - Len(a)]
  BY ConcatProperties
<1> HIDE DEF p
<1>3. m \in 1..(Len(p) + 1) /\ n \in 0..Len(p) /\ m <= n + 1 /\ n - m + 1 = Len(f)
  BY <1>1, <1>2
<1> HIDE DEF m, n
<1>4. /\ SubSeq(p, m, n) \in Seq(S) /\ Len(SubSeq(p, m, n)) = n - m + 1
      /\ \A i \in 1..(n - m + 1) : SubSeq(p, m, n)[i] = p[m + i - 1]
  BY <1>2, <1>3, Part
<1>5. \A i \in 1..Len(f) : SubSeq(p, m, n)[i] = f[i]
  <2> SUFFICES ASSUME NEW i \in 1..Len(f) PROVE SubSeq(p, m, n)[i] = f[i]
    OBVIOUS
  <2>1. m + i - 1 = Len(a) + i /\ Len(a) + i \in 1 .. Len(a) + Len(f) /\ ~(Len(a) + i <= Len(a))
        /\ Len(a) + i - Len(a) = i
    BY <1>1 DEF m
  <2>2. p[Len(a) + i] = f[i]
    BY <1>2, <2>1
  <2> QED
    BY <1>3, <1>4, <2>1, <2>2
<1>6. SubSeq(p, m, n) = f
  BY <1>3, <1>4, <1>5, SeqEqual
<1> QED
  BY <1>6 DEF p, m, n

LEMMA ConcatFirst ==
    ASSUME NEW S, NEW a \in Seq(S), NEW f \in Seq(S), Len(a) >= 1
    PROVE  (a \o f)[1] = a[1]
<1>1. Len(a) \in Nat /\ Len(f) \in Nat
  BY LenProperties
<1>2. \A i \in 1 .. Len(a) + Len(f) : (a \o f)[i] = IF i <= Len(a) THEN a[i] ELSE f[i - Len(a)]
  BY ConcatProperties
<1>3. 1 \in 1 .. Len(a) + Len(f) /\ 1 <= Len(a)
  BY <1>1
<1> QED
  BY <1>2, <1>3

LEMMA TwoFront ==
    ASSUME NEW S, NEW z \in Seq(S), Len(z) = 1, NEW f \in Seq(S)
    PROVE  /\ (z \o f)[1] = z[1] /\ (z \o (z \o f))[1] = z[1]
           /\ SubSeq(z \o (z \o f), 3, Len(z \o (z \o f))) = f
<1>1. (z \o f)[1] = z[1]
  BY ConcatFirst
<1>2. z \o f \in Seq(S)
  BY ConcatProperties
<1>3. (z \o (z \o f))[1] = z[1]
  BY <1>2, ConcatFirst
<1>4. z \o z \in Seq(S) /\ Len(z \o z) = Len(z) + Len(z)
  BY ConcatProperties
<1>5. (z \o z) \o f = z \o (z \o f)
  BY ConcatAssociative
<1>6. SubSeq((z \o z) \o f, Len(z \o z) + 1, Len((z \o z) \o f)) = f
  BY <1>4, DropFront
<1>7. Len(z \o z) + 1 = 3
  BY <1>4
<1> QED
  BY <1>1, <1>3, <1>5, <1>6, <1>7

\* persist__subs_save puts the filter together again from the nodes of its path.
LEMMA FilterBack ==
    ASSUME NEW f \in Filters, SubRef(f).share = NoShare
    PROVE  FilterOf(SubRef(f).path) = f
<1>0. f \in Seq(Level) /\ f # <<>> /\ Len(f) \in Nat \ {0} /\ f[1] \in Level
  BY FilterLevels
<1>1. f[1] # "$share"
  <2> SUFFICES ASSUME f[1] = "$share" PROVE FALSE
    OBVIOUS
  <2>1. Len(f) >= 2 /\ f \in Seq(STRING) /\ \A i \in DOMAIN f : f[i] # "/"
    BY ShareAssumption, LevelAssumption
  <2>2. 2 \in DOMAIN f
    BY <1>0, <2>1
  <2>3. SubRef(f).share = f[2]
    BY DEF SubRef, Tokenise
  <2> QED
    BY <2>1, <2>2, <2>3 DEF NoShare
<1> DEFINE p == SubRef(f).path
<1>2. CASE f[1] \in DollarLevels
  <2> DEFINE a == <<f[1]>>
  <2>1. a \in Seq(Level) /\ Len(a) = 1 /\ a[1] = f[1]
    BY <1>0
  <2>2. Tokenise(f).topics = f
    <3>1. Tokenise(f).topics = <<>> \o f
      BY <1>1, <1>2 DEF Tokenise
    <3> QED
      BY <1>0, <3>1, ConcatEmptySeq
  <2>3. p = a \o f
    BY <2>2 DEF SubRef, Path
  <2> HIDE DEF p, a
  <2>4. p[1] = f[1]
    <3>1. /\ Len(a \o f) = Len(a) + Len(f)
          /\ \A i \in 1 .. Len(a) + Len(f) : (a \o f)[i] = IF i <= Len(a) THEN a[i] ELSE f[i - Len(a)]
      BY <1>0, <2>1, ConcatProperties
    <3>2. 1 \in 1 .. Len(a) + Len(f) /\ 1 <= Len(a)
      BY <1>0, <2>1
    <3>3. (a \o f)[1] = a[1]
      BY <3>1, <3>2
    <3> QED
      BY <2>1, <2>3, <3>3
  <2>5. p[1] # ""
    BY <1>2, <2>4, DollarAssumption, Zenon
  <2>6. FilterOf(p) = SubSeq(p, 2, Len(p))
    BY <2>5, Zenon DEF FilterOf
  <2>7. SubSeq(a \o f, Len(a) + 1, Len(a \o f)) = f
    BY <1>0, <2>1, DropFront
  <2>8. Len(a) + 1 = 2
    BY <2>1
  <2> QED
    BY <2>3, <2>6, <2>7, <2>8 DEF p
<1>3. CASE f[1] \notin DollarLevels
  <2> DEFINE z == <<"">>
             t == z \o f
  <2>1. z \in Seq(Level) /\ Len(z) = 1 /\ z[1] = ""
    BY DEF Level
  <2>2. Tokenise(f).topics = t
    BY <1>1, <1>3, Zenon DEF Tokenise
  <2>3. p = <<t[1]>> \o t
    BY <2>2, Zenon DEF SubRef, Path
  <2>4. t[1] = "" /\ (z \o t)[1] = "" /\ SubSeq(z \o t, 3, Len(z \o t)) = f
    <3> HIDE DEF z
    <3> QED
      BY <1>0, <2>1, TwoFront, Zenon
  <2> HIDE DEF p, t
  <2>5. p = z \o t
    BY <2>3, <2>4, Zenon
  <2>6. FilterOf(p) = SubSeq(p, 3, Len(p))
    BY <2>4, <2>5, Zenon DEF FilterOf
  <2> QED
    BY <2>4, <2>5, <2>6, Zenon DEF p
<1> QED
  BY <1>2, <1>3

LEMMA SavedType ==
    ASSUME NEW d, Good(d)
    PROVE  Disk(Saved(d))
<1> DEFINE D == {j \in Clients : d.by_id[j] # 0 /\ ~d.context[d.by_id[j]].clean}
           Of(p, i) == {m \in Range(d.subs[p].subs) : IdOf(d)[m.context] = i}
           At1(p, i) == {[filter |-> FilterOf(p), no_local |-> m.no_local] : m \in Of(p, i)}
           All(i) == UNION {At1(p, i) : p \in DOMAIN d.subs}
<1>1. /\ d \in Mem /\ d.context \in [Conn -> Context] /\ d.by_id \in [Clients -> 0..MaxConn]
      /\ d.subs \in Trees(Leaf) /\ Neat(d.subs)
  BY MemParts DEF Good, Filed
<1>2. \A r \in Place, e \in Conn : r \in d.context[e].subs <=> e \in Holders(At(d.subs, r))
  BY SMTT(30) DEF Good, Filed
<1>3. /\ DOMAIN Saved(d) = D
      /\ \A i \in D : Saved(d)[i].expiry = d.context[d.by_id[i]].expiry /\ Saved(d)[i].subs = All(i)
  BY DEF Saved
<1>4. ASSUME NEW i \in D PROVE d.context[d.by_id[i]].expiry \in Nat
  <2>1. d.by_id[i] \in Conn
    BY <1>1, BoundAssumption DEF Conn
  <2> QED
    BY <1>1, <2>1, ContextParts
<1>5. ASSUME NEW p \in DOMAIN d.subs
      PROVE  d.subs[p].subs \in Seq(Leaf) /\ p \in Seq(Level)
  BY <1>1, TreesType DEF Node
<1>6. ASSUME NEW p \in DOMAIN d.subs, NEW m \in Range(d.subs[p].subs)
      PROVE  m \in Leaf /\ FilterOf(p) \in Filters
  <2> DEFINE r == [path |-> p, share |-> NoShare]
  <2>1. r \in Place /\ r.path = p /\ r.share = NoShare
    BY <1>5, Zenon DEF Place, Level
  <2>2. PICK n \in DOMAIN d.subs[p].subs : m = d.subs[p].subs[n]
    BY DEF Range
  <2>3. m \in Leaf /\ m.context \in Conn
    <3>1. m \in Leaf
      BY <1>5, <2>2
    <3> QED
      BY <3>1 DEF Leaf
  <2>4. m.context \in Holders(At(d.subs, r))
    BY <2>1, <2>2 DEF Holders, At, Members
  <2>5. r \in d.context[m.context].subs
    BY <1>2, <2>1, <2>3, <2>4
  <2>6. r \in Ref
    BY <1>1, <2>3, <2>5, ContextParts
  <2>7. PICK f \in Filters : r = SubRef(f)
    BY <2>6 DEF Ref
  <2> QED
    BY <2>1, <2>3, <2>7, FilterBack
<1>7. ASSUME NEW p \in DOMAIN d.subs, NEW i
      PROVE  At1(p, i) \in SUBSET Stored /\ IsFiniteSet(At1(p, i))
  <2>1. At1(p, i) \in SUBSET Stored
    BY <1>6 DEF Stored, Leaf
  <2> DEFINE s == d.subs[p].subs
             I == {n \in 1..Len(s) : IdOf(d)[s[n].context] = i}
             f == [n \in I |-> [filter |-> FilterOf(p), no_local |-> s[n].no_local]]
  <2>2. Len(s) \in Nat /\ DOMAIN s = 1..Len(s)
    BY <1>5, LenProperties
  <2>3. IsFiniteSet(I)
    <3>1. IsFiniteSet(1..Len(s))
      BY <2>2, FS_Interval, SMTT(30)
    <3> QED
      BY <3>1, FS_Subset
  <2>4. At1(p, i) = {f[n] : n \in I}
    BY <2>2 DEF Range
  <2>5. f = [n \in I |-> f[n]]
    OBVIOUS
  <2> HIDE DEF I, f
  <2>6. IsFiniteSet({f[n] : n \in I})
    BY <2>3, <2>5, FiniteImage
  <2> QED
    BY <2>1, <2>4, <2>6
<1>8. ASSUME NEW i \in D PROVE All(i) \in SUBSET Stored /\ IsFiniteSet(All(i))
  <2>1. All(i) \in SUBSET Stored
    BY <1>7
  <2> DEFINE P == DOMAIN d.subs
             g == [p \in P |-> At1(p, i)]
             U == {g[p] : p \in P}
  <2>2. IsFiniteSet(P)
    BY <1>1 DEF Neat, Closed
  <2>3. g = [p \in P |-> g[p]] /\ \A p \in P : g[p] = At1(p, i)
    OBVIOUS
  <2>4. \A p \in P : IsFiniteSet(At1(p, i))
    BY <1>7
  <2> HIDE DEF g, At1
  <2>4a. All(i) = UNION U
    BY <2>3
  <2>5. \A T \in U : IsFiniteSet(T)
    BY <2>3, <2>4
  <2> HIDE DEF All, P
  <2>6. IsFiniteSet(U)
    BY <2>2, <2>3, FiniteImage
  <2> HIDE DEF U
  <2>7. IsFiniteSet(UNION U)
    BY <2>5, <2>6, FS_UNION
  <2> QED
    BY <2>1, <2>4a, <2>7
<1> HIDE DEF D, All
<1>9. D \subseteq Clients
  BY DEF D
<1> QED
  BY <1>3, <1>4, <1>8, <1>9 DEF Disk
----------------------------------------------------------------------------
(* A restart.                                                              *)

\* ids lists the elements of S, each once.
Lists(ids, S) ==
    /\ ids \in Seq(S) /\ Len(ids) = Cardinality(S)
    /\ \A m, n \in 1..Len(ids) : ids[m] = ids[n] => m = n
    /\ \A x \in S : \E n \in 1..Len(ids) : ids[n] = x

LEMMA SetToSeqDoes ==
    ASSUME NEW S, IsFiniteSet(S)
    PROVE  Lists(SetToSeq(S), S)
<1> DEFINE n == Cardinality(S)
           ids == SetToSeq(S)
<1>1. n \in Nat /\ ExistsBijection(1..n, S) /\ IsFiniteSet(1..n) /\ Cardinality(1..n) = n
  BY FS_CardinalityType, FS_Interval
<1>2. PICK f : f \in Bijection(1..n, S)
  BY <1>1 DEF ExistsBijection
<1>3. f \in [1..n -> S] /\ IsInjective(f)
  BY <1>2 DEF Bijection, Injection, IsInjective
<1>4. ids \in [1..n -> S] /\ IsInjective(ids)
  BY <1>3 DEF SetToSeq
<1> HIDE DEF ids, n
<1>5. ids \in Injection(1..n, S)
  BY <1>4 DEF Injection, IsInjective
<1>6. ids \in Surjection(1..n, S)
  BY <1>1, <1>5, FS_Injection DEF n
<1>7. ids \in Seq(S) /\ Len(ids) = n
  BY <1>1, <1>4, SeqDef
<1>8. \A x \in S : \E m \in 1..n : ids[m] = x
  BY <1>6 DEF Surjection
<1>9. \A m, k \in 1..n : ids[m] = ids[k] => m = k
  BY <1>4 DEF IsInjective
<1> QED
  BY <1>7, <1>8, <1>9 DEF Lists, ids, n

\* The number of the context of every saved session.
Num(saved, first) ==
    LET ids == SetToSeq(DOMAIN saved)
    IN  [i \in DOMAIN saved |-> first - 1 + CHOOSE n \in DOMAIN ids : ids[n] = i]

\* The numbers are those from first on, up to last.
Counts(saved, num, ids, first, last) ==
    /\ \A i \in DOMAIN saved : num[i] \in Conn /\ first <= num[i] /\ num[i] <= last /\ ids[num[i] - first + 1] = i
    /\ \A c \in Conn : first <= c /\ c <= last => ids[c - first + 1] \in DOMAIN saved /\ num[ids[c - first + 1]] = c

LEMMA NumDoes ==
    ASSUME NEW saved, NEW ids, Lists(ids, DOMAIN saved), ids = SetToSeq(DOMAIN saved),
           NEW first \in 1..(MaxConn + 1), first - 1 + Len(ids) <= MaxConn
    PROVE  Counts(saved, Num(saved, first), ids, first, first - 1 + Len(ids))
<1> DEFINE S == DOMAIN saved
           num == Num(saved, first)
           at == [i \in S |-> CHOOSE n \in DOMAIN ids : ids[n] = i]
<1>1. /\ ids \in Seq(S) /\ Len(ids) \in Nat /\ DOMAIN ids = 1..Len(ids) /\ MaxConn \in Nat
      /\ \A m, n \in 1..Len(ids) : ids[m] = ids[n] => m = n
      /\ \A x \in S : \E n \in 1..Len(ids) : ids[n] = x
  <2>1. ids \in Seq(S)
    BY DEF Lists
  <2> QED
    BY <2>1, BoundAssumption, LenProperties DEF Lists
<1>2. \A i \in S : at[i] \in 1..Len(ids) /\ ids[at[i]] = i
  BY <1>1
<1>3. num = [i \in S |-> first - 1 + at[i]]
  BY DEF Num
<1> HIDE DEF at, num
<1>4. ASSUME NEW i \in S
      PROVE  /\ num[i] \in Conn /\ first <= num[i] /\ num[i] <= first - 1 + Len(ids)
             /\ ids[num[i] - first + 1] = i
  <2>1. num[i] = first - 1 + at[i] /\ at[i] \in 1..Len(ids)
    BY <1>2, <1>3
  <2>2. num[i] - first + 1 = at[i]
    BY <1>1, <2>1
  <2>3. num[i] \in Conn /\ first <= num[i] /\ num[i] <= first - 1 + Len(ids)
    <3>1. Len(ids) \in Nat /\ MaxConn \in Nat /\ first \in Nat /\ first >= 1
      BY <1>1
    <3>2. PICK n \in 1..Len(ids) : num[i] = first - 1 + n
      BY <2>1
    <3> QED
      BY <3>1, <3>2 DEF Conn
  <2>4. ids[num[i] - first + 1] = i
    BY <1>2, <2>2
  <2> QED
    BY <2>3, <2>4
<1>5. ASSUME NEW c \in Conn, first <= c, c <= first - 1 + Len(ids)
      PROVE  ids[c - first + 1] \in S /\ num[ids[c - first + 1]] = c
  <2> DEFINE n == c - first + 1
  <2>1. n \in 1..Len(ids) /\ c = first - 1 + n
    BY <1>1, <1>5 DEF Conn
  <2> HIDE DEF n
  <2>2. ids[n] \in S
    BY <1>1, <2>1
  <2>3. at[ids[n]] = n
    BY <1>1, <1>2, <2>1, <2>2
  <2> QED
    BY <1>3, <2>1, <2>2, <2>3 DEF n
<1> QED
  BY <1>4, <1>5 DEF Counts, num

\* The context of a saved session before its subscriptions are read.
Revived(i, expiry) == [FreeContext EXCEPT !.state = "new", !.id = i, !.clean = FALSE, !.expiry = expiry]

Blank(saved, num) ==
    LET context == [c \in Conn |->
            IF \E i \in DOMAIN saved : num[i] = c
            THEN LET i == CHOOSE j \in DOMAIN saved : num[j] = c IN Revived(i, saved[i].expiry)
            ELSE FreeContext]
    IN  Memory(context, [i \in Clients |-> IF i \in DOMAIN saved THEN num[i] ELSE 0], InitialTree)

\* d is the memory after a restart that read saved: the sessions have the numbers
\* first to last, and there is nothing else.
Fresh(d, saved, ids, first, last) ==
    /\ Good(d) /\ Named(d) /\ d.expiry_list = <<>> /\ d.delay_list = <<>> /\ d.for_free = <<>> /\ d.last_check = 0
    /\ \A c \in Conn : first <= c /\ c <= last =>
          /\ ids[c - first + 1] \in DOMAIN saved
          /\ Fields(d.context[c], Revived(ids[c - first + 1], saved[ids[c - first + 1]].expiry))
    /\ \A c \in Conn : ~(first <= c /\ c <= last) => d.context[c] = FreeContext

\* What counts of such a context.
Asleep(x, i) ==
    /\ x \in Context /\ x.id = i /\ x.subs = {}
    /\ x.state = "new" /\ x.will = FALSE /\ x.sock = FALSE /\ x.delay = 0

LEMMA RevivedType ==
    ASSUME NEW i \in Clients, NEW expiry, expiry \in Nat
    PROVE  Asleep(Revived(i, expiry), i)
BY DEF Asleep, Revived, FreeContext, Context, States

LEMMA BlankFresh ==
    ASSUME NEW saved, Disk(saved), NEW num, NEW ids, NEW first \in 1..(MaxConn + 1), NEW last,
           Counts(saved, num, ids, first, last)
    PROVE  Fresh(Blank(saved, num), saved, ids, first, last)
<1> DEFINE S == DOMAIN saved
           context == [c \in Conn |->
              IF \E i \in S : num[i] = c
              THEN LET i == CHOOSE j \in S : num[j] = c IN Revived(i, saved[i].expiry)
              ELSE FreeContext]
           by_id == [i \in Clients |-> IF i \in S THEN num[i] ELSE 0]
           d == Memory(context, by_id, InitialTree)
<1>1. S \subseteq Clients /\ \A i \in S : saved[i].expiry \in Nat
  BY DEF Disk
<1>2. ASSUME NEW i \in S PROVE num[i] \in Conn /\ context[num[i]] = Revived(i, saved[i].expiry)
  <2>1. num[i] \in Conn /\ \A j \in S : num[j] = num[i] => j = i
    BY DEF Counts
  <2>2. (CHOOSE j \in S : num[j] = num[i]) = i
    BY <2>1
  <2> QED
    BY <2>1, <2>2
<1>3. ASSUME NEW c \in Conn, \A i \in S : num[i] # c PROVE context[c] = FreeContext
  BY <1>3
<1>4. ASSUME NEW c \in Conn
      PROVE  context[c] \in Context /\ context[c].subs = {}
  <2>1. CASE \E i \in S : num[i] = c
    <3>1. PICK i \in S : num[i] = c
      BY <2>1
    <3>2. context[c] = Revived(i, saved[i].expiry)
      BY <1>2, <3>1
    <3>3. i \in Clients /\ saved[i].expiry \in Nat
      BY <1>1
    <3>4. Asleep(Revived(i, saved[i].expiry), i)
      BY <3>3, RevivedType
    <3> HIDE DEF context
    <3> QED
      BY <3>2, <3>4 DEF Asleep
  <2>2. CASE \A i \in S : num[i] # c
    <3>1. context[c] = FreeContext
      BY <1>3, <2>2
    <3> HIDE DEF context
    <3> QED
      BY <3>1, FreeContextType DEF FreeContext
  <2> QED
    BY <2>1, <2>2
<1>5. context \in [Conn -> Context]
  <2>1. context = [c \in Conn |-> context[c]]
    OBVIOUS
  <2> HIDE DEF context
  <2> QED
    BY <1>4, <2>1
<1>6. by_id \in [Clients -> 0..MaxConn]
  <2>1. \A i \in Clients : i \in S => num[i] \in 0..MaxConn
    <3>1. \A n \in Conn : n \in 0..MaxConn
      BY BoundAssumption DEF Conn
    <3> QED
      BY <1>2, <3>1
  <2>2. 0 \in 0..MaxConn
    BY BoundAssumption
  <2> QED
    BY <2>1, <2>2
<1>7. \A i \in Clients : by_id[i] = IF i \in S THEN num[i] ELSE 0
  OBVIOUS
<1> HIDE DEF context, by_id
<1>8. /\ InitialTree \in Trees(Leaf) /\ Neat(InitialTree)
      /\ \A x \in Place : OneEach(At(InitialTree, x)) /\ Holders(At(InitialTree, x)) = {}
  BY InitialTreeKeeps
<1>9. /\ d.context = context /\ d.by_id = by_id /\ d.expiry_list = <<>> /\ d.delay_list = <<>>
      /\ d.for_free = <<>> /\ d.last_check = 0 /\ d.subs = InitialTree /\ d.sent = [c \in Conn |-> 0]
  BY DEF Memory
<1>10. d \in Mem
  <2>1. <<>> \in Seq(Conn) /\ [c \in Conn |-> 0] \in [Conn -> Nat]
    OBVIOUS
  <2> QED
    BY <1>5, <1>6, <1>8, <2>1 DEF Memory, Mem
<1> HIDE DEF d
<1>11. Good(d)
  <2>1. IsInjective(<<>>) /\ Range(<<>>) = {} /\ Ordered(<<>>, d.context)
    BY DEF IsInjective, Range, Ordered
  <2>2. Timers(d)
    BY <1>9, <2>1 DEF Timers
  <2>3. Filed(d)
    BY <1>4, <1>8, <1>9, FS_EmptySet DEF Filed
  <2> QED
    BY <1>10, <2>2, <2>3 DEF Good
<1>12. Named(d)
  <2>1. ASSUME NEW i \in Clients, d.by_id[i] # 0 PROVE d.context[d.by_id[i]].id = i
    <3>1. i \in S /\ d.by_id[i] = num[i]
      BY <1>7, <1>9, <2>1
    <3>2. i \in Clients /\ saved[i].expiry \in Nat
      BY <1>1, <3>1
    <3>3. Asleep(Revived(i, saved[i].expiry), i)
      BY <3>2, RevivedType
    <3> QED
      BY <1>2, <1>9, <3>1, <3>3 DEF Asleep
  <2>2. ASSUME NEW c \in Conn, d.context[c].id # NoId PROVE d.by_id[d.context[c].id] = c
    <3>1. \E i \in S : num[i] = c
      BY <1>3, <1>9, <2>2 DEF FreeContext
    <3>2. PICK i \in S : num[i] = c
      BY <3>1
    <3>3. d.context[c].id = i
      <4>1. i \in Clients /\ saved[i].expiry \in Nat
        BY <1>1, <3>2
      <4>2. Asleep(Revived(i, saved[i].expiry), i)
        BY <4>1, RevivedType
      <4> QED
        BY <1>2, <1>9, <3>2, <4>2 DEF Asleep
    <3> QED
      BY <1>1, <1>7, <1>9, <3>2, <3>3
  <2> QED
    BY <2>1, <2>2 DEF Named
<1>13. ASSUME NEW c \in Conn, first <= c, c <= last
       PROVE  /\ ids[c - first + 1] \in S
              /\ Fields(d.context[c], Revived(ids[c - first + 1], saved[ids[c - first + 1]].expiry))
  <2> DEFINE i == ids[c - first + 1]
  <2>1. i \in S /\ num[i] = c
    BY <1>13 DEF Counts
  <2> HIDE DEF i
  <2>2. d.context[c] = Revived(i, saved[i].expiry)
    BY <1>2, <1>9, <2>1
  <2> QED
    BY <2>1, <2>2 DEF Fields, i
<1>14. ASSUME NEW c \in Conn, ~(first <= c /\ c <= last) PROVE d.context[c] = FreeContext
  <2>1. \A i \in S : num[i] # c
    BY <1>14 DEF Counts
  <2> QED
    BY <1>3, <1>9, <2>1
<1>15. Blank(saved, num) = d
  BY DEF Blank, d, context, by_id
<1> QED
  BY <1>9, <1>11, <1>12, <1>13, <1>14, <1>15 DEF Fresh

\* The loops of the restart: over the subscriptions of a session, and over the
\* sessions.  e holds what they start from, and the context c of the session.
SubsInv(e, t, d) == Fresh(d, e.saved, e.ids, e.first, e.last)

SubsLoop == INSTANCE Loops WITH
    Op  <- LAMBDA e, d, s : [d EXCEPT !.subs = SubAdd(@, s.filter, [context |-> e.c, no_local |-> s.no_local], IdOf(d)),
                                      !.context[e.c].subs = @ \cup {SubRef(s.filter)}],
    Inv <- SubsInv

RestoreInv(e, n, d) == Fresh(d, e.saved, e.ids, e.first, e.last)

RestoreLoop == INSTANCE Loops WITH
    Op  <- LAMBDA e, d, i : RestoreSubs(d, e.num[i], e.saved[i].subs),
    Inv <- RestoreInv

\* A subscription read from the file.
LEMMA AddFresh ==
    ASSUME NEW d, NEW saved, NEW ids, NEW first \in 1..(MaxConn + 1), NEW last, Fresh(d, saved, ids, first, last),
           Disk(saved), NEW c \in Conn, first <= c, c <= last, NEW f \in Filters, NEW n \in NoLocal
    PROVE  Fresh(Add(d, c, f, n), saved, ids, first, last)
<1> DEFINE E == Add(d, c, f, n)
           i == ids[c - first + 1]
<1>1. Good(d) /\ Named(d) /\ i \in DOMAIN saved /\ Fields(d.context[c], Revived(i, saved[i].expiry))
  BY DEF Fresh
<1>2. d.context[c].id # NoId
  <2>1. i \in Clients /\ saved[i].expiry \in Nat
    BY <1>1 DEF Disk
  <2>2. Asleep(Revived(i, saved[i].expiry), i)
    BY <2>1, RevivedType
  <2> QED
    BY <1>1, <2>1, <2>2, NeverAssumption DEF Asleep, Fields
<1>3. Refiled(d, E, c)
  BY <1>1, <1>2, AddDoes
<1> HIDE DEF E, i
<1>4. /\ Good(E) /\ E.last_check = d.last_check /\ E.expiry_list = d.expiry_list /\ E.delay_list = d.delay_list
      /\ E.for_free = d.for_free /\ E.by_id = d.by_id /\ Fields(E.context[c], d.context[c])
      /\ \A e \in Conn : e # c => E.context[e] = d.context[e]
  BY <1>3 DEF Refiled, Only, SameLists
<1>5. Named(E)
  <2>1. E.context[c].id = d.context[c].id
    BY <1>4 DEF Fields
  <2>2. d.by_id \in [Clients -> 0..MaxConn]
    BY <1>1, MemParts DEF Good
  <2> QED
    BY <1>1, <1>4, <2>1, <2>2, NamedKept
<1>6. ASSUME NEW e \in Conn, first <= e, e <= last
      PROVE  /\ ids[e - first + 1] \in DOMAIN saved
             /\ Fields(E.context[e], Revived(ids[e - first + 1], saved[ids[e - first + 1]].expiry))
  <2> DEFINE j == ids[e - first + 1]
  <2>1. j \in DOMAIN saved /\ Fields(d.context[e], Revived(j, saved[j].expiry))
    BY <1>6 DEF Fresh
  <2> HIDE DEF j
  <2>2. Fields(E.context[e], Revived(j, saved[j].expiry))
    <3>1. CASE e = c
      BY <1>4, <2>1, <3>1 DEF Fields
    <3>2. CASE e # c
      BY <1>4, <2>1, <3>2
    <3> QED
      BY <3>1, <3>2
  <2> QED
    BY <2>1, <2>2 DEF j
<1>7. ASSUME NEW e \in Conn, ~(first <= e /\ e <= last) PROVE E.context[e] = FreeContext
  <2>1. e # c /\ d.context[e] = FreeContext
    BY <1>7 DEF Fresh
  <2> QED
    BY <1>4, <2>1
<1> QED
  BY <1>4, <1>5, <1>6, <1>7 DEF Fresh, E

LEMMA RestoreSubsFresh ==
    ASSUME NEW d, NEW saved, NEW ids, NEW first \in 1..(MaxConn + 1), NEW last, Fresh(d, saved, ids, first, last),
           Disk(saved), NEW c \in Conn, first <= c, c <= last, NEW S, IsFiniteSet(S), S \subseteq Stored
    PROVE  Fresh(RestoreSubs(d, c, S), saved, ids, first, last)
<1> DEFINE e == [saved |-> saved, ids |-> ids, first |-> first, last |-> last, c |-> c]
           E == RestoreSubs(d, c, S)
<1>1. e.saved = saved /\ e.ids = ids /\ e.first = first /\ e.last = last /\ e.c = c
  OBVIOUS
<1>2. E = SubsLoop!OverSet(e, d, S)
  BY DEF RestoreSubs, SubsLoop!OverSet, FoldSet, SubsLoop!FoldSet, MapThenFoldSet, SubsLoop!MapThenFoldSet
<1> HIDE DEF e, E
<1>3. SubsInv(e, {}, d)
  BY <1>1 DEF SubsInv
<1>4. ASSUME NEW t \in SUBSET S, NEW s \in S, NEW g, SubsInv(e, t, g)
      PROVE  SubsInv(e, t \cup {s},
                [g EXCEPT !.subs = SubAdd(@, s.filter, [context |-> e.c, no_local |-> s.no_local], IdOf(g)),
                          !.context[e.c].subs = @ \cup {SubRef(s.filter)}])
  <2>1. s.filter \in Filters /\ s.no_local \in NoLocal
    BY DEF Stored
  <2>2. Fresh(g, saved, ids, first, last)
    BY <1>1, <1>4 DEF SubsInv
  <2>3. Fresh(Add(g, c, s.filter, s.no_local), saved, ids, first, last)
    BY <2>1, <2>2, AddFresh
  <2> QED
    BY <1>1, <2>3 DEF SubsInv, Add
<1>5. \A t \in SUBSET S, s \in S : \A g : s \notin t /\ SubsInv(e, t, g) =>
          SubsInv(e, t \cup {s},
                [g EXCEPT !.subs = SubAdd(@, s.filter, [context |-> e.c, no_local |-> s.no_local], IdOf(g)),
                          !.context[e.c].subs = @ \cup {SubRef(s.filter)}])
  BY <1>4, Zenon
<1>6. SubsInv(e, S, E)
  <2>1. SubsLoop!IsFiniteSet(S)
    BY DEF IsFiniteSet, SubsLoop!IsFiniteSet
  <2> QED
    BY <1>2, <1>3, <1>5, <2>1, SubsLoop!SetLoop, Zenon
<1> QED
  BY <1>1, <1>6 DEF SubsInv, E

\* persist__restore.
LEMMA RestoredFresh ==
    ASSUME NEW saved, Disk(saved), NEW first \in 1..(MaxConn + 1), first - 1 + Cardinality(DOMAIN saved) <= MaxConn
    PROVE  LET ids == SetToSeq(DOMAIN saved)
           IN  /\ Fresh(Restored(saved, first), saved, ids, first, first - 1 + Len(ids))
               /\ Lists(ids, DOMAIN saved)
<1> DEFINE S == DOMAIN saved
           ids == SetToSeq(S)
           num == Num(saved, first)
           last == first - 1 + Len(ids)
           base == Blank(saved, num)
           e == [saved |-> saved, ids |-> ids, first |-> first, last |-> last, num |-> num]
           E == Restored(saved, first)
<1>1. IsFiniteSet(S) /\ S \subseteq Clients
  BY BoundAssumption, FS_Subset DEF Disk
<1>2. Lists(ids, S)
  BY <1>1, SetToSeqDoes
<1>3. first - 1 + Len(ids) <= MaxConn /\ ids \in Seq(S)
  BY <1>2 DEF Lists
<1>4. e.saved = saved /\ e.ids = ids /\ e.first = first /\ e.last = last /\ e.num = num
  OBVIOUS
<1>5. E = RestoreLoop!OverList(e, base, ids)
  BY DEF Restored, Num, Blank, Revived, RestoreLoop!OverList, FoldLeft, RestoreLoop!FoldLeft, MapThenFoldSet,
         RestoreLoop!MapThenFoldSet, Max, RestoreLoop!Max
<1> HIDE DEF e, E
<1>6. Counts(saved, num, ids, first, last)
  BY <1>2, <1>3, NumDoes
<1> HIDE DEF num, ids, last
<1>7. Fresh(base, saved, ids, first, last)
  BY <1>6, BlankFresh
<1> HIDE DEF base
<1>8. RestoreInv(e, 0, base)
  BY <1>4, <1>7 DEF RestoreInv
<1>9. ASSUME NEW n \in 1..Len(ids), NEW g, RestoreInv(e, n - 1, g)
      PROVE  RestoreInv(e, n, RestoreSubs(g, e.num[ids[n]], e.saved[ids[n]].subs))
  <2> DEFINE i == ids[n]
  <2>1. i \in S
    BY <1>3
  <2> HIDE DEF i
  <2>2. num[i] \in Conn /\ first <= num[i] /\ num[i] <= last
    BY <1>6, <2>1 DEF Counts
  <2>3. saved[i].subs \subseteq Stored /\ IsFiniteSet(saved[i].subs)
    BY <2>1 DEF Disk
  <2>4. Fresh(g, saved, ids, first, last)
    BY <1>4, <1>9 DEF RestoreInv
  <2>5. Fresh(RestoreSubs(g, num[i], saved[i].subs), saved, ids, first, last)
    BY <2>2, <2>3, <2>4, RestoreSubsFresh
  <2> QED
    BY <1>4, <2>5 DEF RestoreInv, i
<1>10. \A n \in 1..Len(ids) : \A g : RestoreInv(e, n - 1, g) =>
          RestoreInv(e, n, RestoreSubs(g, e.num[ids[n]], e.saved[ids[n]].subs))
  BY <1>9
<1>11. RestoreInv(e, Len(ids), E)
  BY <1>3, <1>5, <1>8, <1>10, RestoreLoop!ListLoop
<1>12. Fresh(E, saved, ids, first, last)
  BY <1>4, <1>11 DEF RestoreInv
<1> QED
  BY <1>2, <1>12 DEF E, ids, last

\* What the history says of the wills sent before the process went.
Accounted(sent, l) ==
    /\ sent \in [Conn -> Nat]
    /\ \A c \in Conn : /\ sent[c] <= 1 /\ (l[c].client = NoId => sent[c] = 0)
                       /\ l[c].end = "clean" => sent[c] = 0

LEMMA LogAfterCrashDoes ==
    ASSUME log \in Logs, Numbered(log), NEW saved, Disk(saved), NEW ids, ids = SetToSeq(DOMAIN saved),
           Lists(ids, DOMAIN saved), NextConn - 1 + Len(ids) <= MaxConn
    PROVE  LET l2 == LogAfterCrash(saved)
               last == NextConn - 1 + Len(ids)
           IN  /\ l2 \in Logs /\ Numbered(l2)
               /\ \A c \in Conn : NextConn <= c /\ c <= last =>
                     l2[c] = [client |-> ids[c - NextConn + 1], end |-> "open", will |-> FALSE]
               /\ \A c \in Conn : ~(NextConn <= c /\ c <= last) =>
                     /\ l2[c].client = log[c].client /\ l2[c].will = log[c].will
                     /\ l2[c].end = (IF log[c].will THEN "down" ELSE log[c].end)
<1> DEFINE R == [client : Clients \cup {NoId}, will : BOOLEAN, end : Ends]
           l2 == LogAfterCrash(saved)
           first == NextConn
           last == first - 1 + Len(ids)
           S == DOMAIN saved
<1>1. Logs = [Conn -> R] /\ \A c \in Conn : log[c] \in R
  BY DEF Logs, Ends
<1>2. first \in 1..(MaxConn + 1) /\ \A e \in Conn : log[e].client # NoId <=> e < first
  BY UsedFirst
<1>3. Len(ids) \in Nat /\ ids \in Seq(S) /\ S \subseteq Clients /\ MaxConn \in Nat
  <2>1. ids \in Seq(S)
    BY DEF Lists
  <2> QED
    BY <2>1, LenProperties, BoundAssumption DEF Disk
<1>4. l2 = [c \in Conn |-> IF c \in first..last
                           THEN [client |-> ids[c - first + 1], end |-> "open", will |-> FALSE]
                           ELSE [log[c] EXCEPT !.end = IF log[c].will THEN "down" ELSE log[c].end]]
  BY DEF LogAfterCrash, Ended
<1> HIDE DEF l2, first, R
<1>5. \A c \in Conn : c \in first..last <=> first <= c /\ c <= last
  BY <1>2, <1>3 DEF Conn
<1> HIDE DEF last
<1>6. ASSUME NEW c \in Conn, first <= c, c <= last
      PROVE  /\ l2[c] = [client |-> ids[c - first + 1], end |-> "open", will |-> FALSE]
             /\ ids[c - first + 1] \in S
  <2>1. c - first + 1 \in 1..Len(ids)
    BY <1>2, <1>3, <1>6 DEF Conn, last
  <2> QED
    BY <1>3, <1>4, <1>5, <1>6, <2>1
<1>7. ASSUME NEW c \in Conn, ~(first <= c /\ c <= last)
      PROVE  /\ l2[c] = [log[c] EXCEPT !.end = IF log[c].will THEN "down" ELSE log[c].end]
             /\ l2[c].client = log[c].client /\ l2[c].will = log[c].will
             /\ l2[c].end = (IF log[c].will THEN "down" ELSE log[c].end)
  <2>1. l2[c] = [log[c] EXCEPT !.end = IF log[c].will THEN "down" ELSE log[c].end]
    BY <1>4, <1>5, <1>7
  <2> QED
    BY <1>1, <2>1 DEF R
<1>8. ASSUME NEW c \in Conn PROVE l2[c] \in R
  <2>1. CASE first <= c /\ c <= last
    <3>1. ids[c - first + 1] \in Clients
      BY <1>3, <1>6, <2>1
    <3>2. PICK i \in Clients : l2[c] = [client |-> i, end |-> "open", will |-> FALSE]
      BY <1>6, <2>1, <3>1
    <3> QED
      BY <3>2 DEF R, Ends
  <2>2. CASE ~(first <= c /\ c <= last)
    <3> DEFINE h == IF log[c].will THEN "down" ELSE log[c].end
    <3>1. log[c] \in R /\ l2[c] = [log[c] EXCEPT !.end = h]
      BY <1>1, <1>7, <2>2
    <3>2. h \in Ends
      BY <3>1 DEF R, Ends
    <3> HIDE DEF h
    <3> QED
      BY <3>1, <3>2 DEF R
  <2> QED
    BY <2>1, <2>2
<1>9. l2 \in Logs
  <2>1. l2 = [c \in Conn |-> l2[c]]
    BY <1>4
  <2> QED
    BY <1>1, <1>8, <2>1
<1>10. \A c \in Conn : l2[c].client # NoId <=> c <= last
  <2> SUFFICES ASSUME NEW c \in Conn PROVE l2[c].client # NoId <=> c <= last
    OBVIOUS
  <2>0. c < first => c <= last
    BY <1>2, <1>3 DEF Conn, last
  <2>1. CASE first <= c /\ c <= last
    <3>1. ids[c - first + 1] \in Clients
      BY <1>3, <1>6, <2>1
    <3>2. PICK i \in Clients : l2[c] = [client |-> i, end |-> "open", will |-> FALSE]
      BY <1>6, <2>1, <3>1
    <3> QED
      BY <2>1, <3>2, NeverAssumption
  <2>2. CASE ~(first <= c /\ c <= last)
    <3>1. l2[c].client = log[c].client
      BY <1>7, <2>2
    <3>2. c < first <=> c <= last
      BY <1>2, <1>3, <2>2 DEF Conn, last
    <3> QED
      BY <1>2, <3>1, <3>2
  <2> QED
    BY <2>1, <2>2
<1>11. Numbered(l2)
  <2>1. \A c, e \in Conn : e < c /\ c <= last => e <= last
    BY <1>2, <1>3 DEF Conn, last
  <2> QED
    BY <1>10, <2>1 DEF Numbered
<1> QED
  BY <1>6, <1>7, <1>9, <1>11 DEF l2, first, last

\* The broker after a restart.
LEMMA RestartSound ==
    ASSUME log \in Logs, Numbered(log), NEW saved, Disk(saved),
           NextConn - 1 + Cardinality(DOMAIN saved) <= MaxConn,
           NEW sent, Accounted(sent, log), NEW k \in Nat, k > 0
    PROVE  LET E == [Restored(saved, NextConn) EXCEPT !.sent = sent]
               l2 == LogAfterCrash(saved)
           IN  /\ Sound(E, Range(E.for_free), l2, k) /\ IsInjective(E.for_free) /\ E.last_check = 0
               /\ l2 \in Logs /\ Numbered(l2) /\ E.sent = sent
<1> DEFINE S == DOMAIN saved
           ids == SetToSeq(S)
           first == NextConn
           last == first - 1 + Len(ids)
           d == Restored(saved, first)
           E == [d EXCEPT !.sent = sent]
           l2 == LogAfterCrash(saved)
<1>1. first \in 1..(MaxConn + 1) /\ \A e \in Conn : log[e].client # NoId <=> e < first
  BY UsedFirst
<1>2. Fresh(d, saved, ids, first, last) /\ Lists(ids, S)
  BY <1>1, RestoredFresh
<1>3. /\ l2 \in Logs /\ Numbered(l2)
      /\ \A c \in Conn : first <= c /\ c <= last =>
            l2[c] = [client |-> ids[c - first + 1], end |-> "open", will |-> FALSE]
      /\ \A c \in Conn : ~(first <= c /\ c <= last) =>
            /\ l2[c].client = log[c].client /\ l2[c].will = log[c].will
            /\ l2[c].end = (IF log[c].will THEN "down" ELSE log[c].end)
  <2>1. first - 1 + Len(ids) <= MaxConn
    BY <1>2 DEF Lists
  <2> QED
    BY <1>2, <2>1, LogAfterCrashDoes
<1>4. Len(ids) \in Nat /\ ids \in Seq(S) /\ S \subseteq Clients /\ MaxConn \in Nat
  <2>1. ids \in Seq(S)
    BY <1>2 DEF Lists
  <2> QED
    BY <2>1, LenProperties, BoundAssumption DEF Disk
<1> HIDE DEF ids, first, d, l2, last
<1>5. Good(d) /\ d \in Mem /\ Named(d) /\ d.expiry_list = <<>> /\ d.delay_list = <<>> /\ d.for_free = <<>>
      /\ d.last_check = 0
  BY <1>2 DEF Fresh, Good
<1>6. sent \in [Conn -> Nat]
  BY DEF Accounted
<1>7. /\ E.sent = sent /\ E.context = d.context /\ E.by_id = d.by_id /\ E.expiry_list = <<>> /\ E.delay_list = <<>>
      /\ E.for_free = <<>> /\ E.last_check = 0 /\ E.subs = d.subs
  BY <1>5 DEF Mem
<1>8. E \in Mem
  BY <1>5, <1>6 DEF Mem
<1> HIDE DEF E
<1>9. Good(E) /\ Named(E)
  <2>1. Timers(E)
    BY <1>5, <1>7 DEF Good, Timers
  <2>2. Filed(E)
    BY <1>5, <1>7 DEF Good, Filed
  <2> QED
    BY <1>5, <1>7, <1>8, <2>1, <2>2 DEF Good, Named
<1>10. Range(<<>>) = {} /\ IsInjective(<<>>)
  BY DEF Range, IsInjective
<1>11. ASSUME NEW c \in Conn, first <= c, c <= last
       PROVE  Settled(d.context[c], sent[c], FALSE, FALSE, FALSE, l2[c], Later(l2, c), k)
  <2> DEFINE i == ids[c - first + 1]
             x == d.context[c]
             y == Revived(i, saved[i].expiry)
  <2>1. i \in S /\ Fields(x, y)
    BY <1>2, <1>11 DEF Fresh
  <2>2. i \in Clients /\ saved[i].expiry \in Nat
    BY <2>1 DEF Disk
  <2>3. Asleep(y, i)
    BY <2>2, RevivedType
  <2>4. l2[c] = [client |-> i, end |-> "open", will |-> FALSE]
    BY <1>3, <1>11
  <2>5. sent[c] = 0
    <3>1. ~(c < first)
      BY <1>1, <1>11 DEF Conn
    <3> QED
      BY <1>1, <3>1 DEF Accounted
  <2>6. ~Later(l2, c)
    <3> SUFFICES ASSUME NEW e \in Conn, e > c, l2[e].client = i PROVE FALSE
      BY <2>4 DEF Later
    <3>0. e \in Nat /\ c \in Nat /\ first \in Nat
      BY <1>1 DEF Conn
    <3>1. CASE e <= last
      <4>1. first <= e
        BY <1>11, <3>0
      <4>2. l2[e] = [client |-> ids[e - first + 1], end |-> "open", will |-> FALSE]
        BY <1>3, <3>1, <4>1
      <4>3. ids[e - first + 1] = ids[c - first + 1]
        BY <4>2
      <4>4. e - first + 1 \in 1..Len(ids) /\ c - first + 1 \in 1..Len(ids)
        BY <1>4, <1>11, <3>0, <3>1, <4>1 DEF last
      <4>5. e - first + 1 = c - first + 1
        BY <1>2, <4>3, <4>4 DEF Lists
      <4> QED
        BY <3>0, <4>5
    <3>2. CASE ~(e <= last)
      <4>1. l2[e].client = log[e].client
        BY <1>3, <3>2
      <4>2. ~(e < first)
        BY <1>11, <3>0
      <4>3. log[e].client = NoId
        BY <1>1, <4>2
      <4> QED
        BY <2>2, <4>1, <4>3, NeverAssumption
    <3> QED
      BY <3>1, <3>2
  <2>7. i # NoId
    BY <2>2, NeverAssumption
  <2>8. /\ x.state = "new" /\ x.id = i /\ x.sock = FALSE /\ x.will = FALSE /\ x.delay = 0
    BY <2>1, <2>3 DEF Asleep, Fields
  <2>9. l2[c].client = i /\ l2[c].end = "open" /\ l2[c].will = FALSE
    BY <2>4
  <2> HIDE DEF x, y, i
  <2>10. Settled(x, sent[c], FALSE, FALSE, FALSE, l2[c], Later(l2, c), k)
    BY <2>5, <2>6, <2>7, <2>8, <2>9 DEF Settled
  <2> QED
    BY <2>10 DEF x
<1>12. ASSUME NEW c \in Conn, ~(first <= c /\ c <= last)
       PROVE  Settled(d.context[c], sent[c], FALSE, FALSE, FALSE, l2[c], Later(l2, c), k)
  <2> DEFINE n == sent[c]
  <2>1. d.context[c] = FreeContext
    BY <1>2, <1>12 DEF Fresh
  <2>2. /\ l2[c].client = log[c].client /\ l2[c].will = log[c].will
        /\ l2[c].end = (IF log[c].will THEN "down" ELSE log[c].end)
    BY <1>3, <1>12
  <2>3. /\ n \in Nat /\ n <= 1 /\ (log[c].client = NoId => n = 0) /\ (log[c].end = "clean" => n = 0)
    BY DEF Accounted
  <2> DEFINE x == FreeContext
  <2>4. /\ x.state = "free" /\ x.id = NoId /\ x.sock = FALSE /\ x.will = FALSE /\ x.delay = 0
    BY DEF FreeContext
  <2> HIDE DEF n
  <2>5. Settled(FreeContext, n, FALSE, FALSE, FALSE, l2[c], Later(l2, c), k)
    <3>1. ~(l2[c].will /\ l2[c].end = "lost")
      BY <2>2
    <3>2. (l2[c].client = NoId => n = 0) /\ (l2[c].end = "clean" => n = 0)
      BY <2>2, <2>3
    <3> HIDE DEF x
    <3>3. Settled(x, n, FALSE, FALSE, FALSE, l2[c], Later(l2, c), k)
      BY <2>3, <2>4, <3>1, <3>2 DEF Settled, x
    <3> QED
      BY <3>3 DEF x
  <2> QED
    BY <2>1, <2>5 DEF n
<1>13. Sound(E, Range(E.for_free), l2, k)
  <2>1. \A c \in Conn : Settled(d.context[c], sent[c], FALSE, FALSE, FALSE, l2[c], Later(l2, c), k)
    BY <1>11, <1>12
  <2>2. ASSUME NEW c \in Conn
        PROVE  Settled(E.context[c], E.sent[c], c \in Range(E.expiry_list), c \in Range(E.delay_list),
                       c \in Range(E.for_free), l2[c], Later(l2, c), k)
    <3>1. /\ (c \in Range(E.expiry_list)) = FALSE /\ (c \in Range(E.delay_list)) = FALSE
          /\ (c \in Range(E.for_free)) = FALSE
      BY <1>7, <1>10
    <3> QED
      BY <1>7, <2>1, <3>1
  <2> QED
    BY <1>7, <1>9, <1>10, <2>2 DEF Sound
<1> QED
  BY <1>3, <1>7, <1>10, <1>13 DEF E, l2, d, first
----------------------------------------------------------------------------
(* The wills at shutdown.                                                  *)

\* Of the wills that were set in d some have been sent, once.
Sending(d, g) ==
    /\ Good(g)
    /\ \A c \in Conn :
          /\ ~g.context[c].will => g.context[c].delay = 0
          /\ g.context[c].will => d.context[c].will /\ g.sent[c] = d.sent[c]
          /\ g.sent[c] # d.sent[c] => d.context[c].will /\ g.sent[c] = d.sent[c] + 1

AllInv(e, t, g) == Sending(e, g)

AllLoop == INSTANCE Loops WITH
    Op  <- LAMBDA e, d, c : SendWill(d, c),
    Inv <- AllInv

LastLoop == INSTANCE Loops WITH
    Op  <- LAMBDA e, d, c : SendWill([WillDelayRemove(d, c) EXCEPT !.context[c].delay = 0], c),
    Inv <- AllInv

LEMMA SendWillSending ==
    ASSUME NEW d, NEW g, Sending(d, g), NEW c \in Conn, now \in Nat
    PROVE  Sending(d, SendWill(g, c))
<1> DEFINE E == SendWill(g, c)
           x == g.context[c]
<1>1. Good(g) /\ x \in Context /\ x.will \in BOOLEAN /\ (~x.will => x.delay = 0)
  <2>1. Good(g) /\ g \in Mem /\ (~x.will => x.delay = 0)
    BY DEF Sending, Good
  <2>2. x \in Context
    BY <2>1, MemParts
  <2> QED
    BY <2>1, <2>2, ContextParts
<1>2. /\ Only(g, E, c)
      /\ E.context[c].will = Waits(x) /\ E.context[c].delay = (IF Waits(x) THEN x.delay ELSE 0)
      /\ E.sent[c] = (IF Sends(x) THEN g.sent[c] + 1 ELSE g.sent[c])
  BY <1>1, SendWillDoes
<1> HIDE DEF E
<1>3. /\ x.will => d.context[c].will /\ g.sent[c] = d.sent[c]
      /\ g.sent[c] # d.sent[c] => d.context[c].will /\ g.sent[c] = d.sent[c] + 1
  BY DEF Sending
<1>4. ~E.context[c].will => E.context[c].delay = 0
  BY <1>2
<1>5. E.context[c].will => d.context[c].will /\ E.sent[c] = d.sent[c]
  <2>1. Waits(x) => x.will /\ ~Sends(x)
    BY DEF Waits, Sends
  <2> QED
    BY <1>2, <1>3, <2>1
<1>6. E.sent[c] # d.sent[c] => d.context[c].will /\ E.sent[c] = d.sent[c] + 1
  <2>1. CASE Sends(x)
    <3>1. x.will
      BY <2>1 DEF Sends
    <3> QED
      BY <1>2, <1>3, <2>1, <3>1
  <2>2. CASE ~Sends(x)
    BY <1>2, <1>3, <2>2
  <2> QED
    BY <2>1, <2>2
<1>7. ASSUME NEW e \in Conn, e # c
      PROVE  /\ ~E.context[e].will => E.context[e].delay = 0
             /\ E.context[e].will => d.context[e].will /\ E.sent[e] = d.sent[e]
             /\ E.sent[e] # d.sent[e] => d.context[e].will /\ E.sent[e] = d.sent[e] + 1
  <2>1. E.context[e] = g.context[e] /\ E.sent[e] = g.sent[e]
    BY <1>2, <1>7 DEF Only
  <2> QED
    BY <2>1 DEF Sending
<1>8. Good(E)
  BY <1>2 DEF Only
<1> QED
  BY <1>4, <1>5, <1>6, <1>7, <1>8 DEF Sending, E

\* will_delay__send_all makes the delay zero first.
LEMMA UndelayedSending ==
    ASSUME NEW d, NEW g, Sending(d, g), NEW c \in Conn
    PROVE  Sending(d, [WillDelayRemove(g, c) EXCEPT !.context[c].delay = 0])
<1> DEFINE x == g.context[c]
           d2 == WillDelayRemove(g, c)
           z == [x EXCEPT !.delay = 0]
           d3 == [d2 EXCEPT !.context[c] = z]
<1>1. Good(g) /\ g \in Mem /\ x \in Context /\ g.context \in [Conn -> Context]
  <2>1. Good(g) /\ g \in Mem
    BY DEF Sending, Good
  <2> QED
    BY <2>1, MemParts
<1>2. Only(g, d2, c) /\ d2.context = g.context /\ d2.sent = g.sent
  BY <1>1, WillDelayRemoveDoes
<1> HIDE DEF d2
<1>3. Good(d2) /\ d2 \in Mem /\ d2.context[c] = x
  BY <1>2 DEF Only, Good
<1>4. [d2 EXCEPT !.context[c].delay = 0] = d3
  BY <1>3 DEF Mem
<1>5. z \in Context /\ z.delay = 0 /\ z.subs = x.subs /\ z.expiry_time = x.expiry_time /\ z.will = x.will
  BY <1>1 DEF Context
<1> HIDE DEF z
<1>6. Good(d3) /\ d3.sent = d2.sent /\ d3.context = [d2.context EXCEPT ![c] = z]
  BY <1>3, <1>5, NewContext
<1> HIDE DEF d3
<1>7. d3.context[c] = z /\ \A e \in Conn : e # c => d3.context[e] = g.context[e]
  BY <1>1, <1>2, <1>6
<1>8. Sending(d, d3)
  <2> SUFFICES ASSUME NEW e \in Conn
               PROVE  /\ ~d3.context[e].will => d3.context[e].delay = 0
                      /\ d3.context[e].will => d.context[e].will /\ d3.sent[e] = d.sent[e]
                      /\ d3.sent[e] # d.sent[e] => d.context[e].will /\ d3.sent[e] = d.sent[e] + 1
    BY <1>6 DEF Sending
  <2>1. d3.sent[e] = g.sent[e] /\ d3.context[e].will = g.context[e].will
        /\ (d3.context[e].delay = 0 \/ d3.context[e].delay = g.context[e].delay)
    <3>1. CASE e = c
      BY <1>2, <1>5, <1>6, <1>7, <3>1
    <3>2. CASE e # c
      BY <1>2, <1>6, <1>7, <3>2
    <3> QED
      BY <3>1, <3>2
  <2> QED
    BY <2>1 DEF Sending
<1> QED
  BY <1>4, <1>8 DEF d2

LEMMA SendAllSound ==
    ASSUME NEW d, NEW l \in Logs, NEW k, now \in Nat, Sound(d, Range(d.for_free), l, k)
    PROVE  LET E == SendAllWills(d)
           IN  Good(E) /\ Accounted(E.sent, l) /\ Cancelled(d, E, l)
<1> DEFINE S == Range(d.by_id) \ {0}
           d1 == FoldSet(LAMBDA c, e : SendWill(e, c), d, S)
           list == d1.delay_list
           E == FoldLeft(LAMBDA e, c : SendWill([WillDelayRemove(e, c) EXCEPT !.context[c].delay = 0], c),
                         d1, list)
<1>0. SendAllWills(d) = E
  BY DEF SendAllWills
<1>1. Good(d) /\ d \in Mem /\ d.by_id \in [Clients -> 0..MaxConn] /\ d.sent \in [Conn -> Nat]
  BY MemParts DEF Sound, Good
<1>2. \A c \in Conn : Settled(d.context[c], d.sent[c], c \in Range(d.expiry_list), c \in Range(d.delay_list),
                              c \in Range(d.for_free), l[c], Later(l, c), k)
  BY DEF Sound
<1>3. S \subseteq Conn /\ IsFiniteSet(S)
  <2>1. S \subseteq Conn
    BY <1>1, BoundAssumption DEF Range, Conn
  <2>2. IsFiniteSet(Conn)
    BY BoundAssumption, FS_Interval DEF Conn
  <2> QED
    BY <2>1, <2>2, FS_Subset
<1>4. Sending(d, d)
  BY <1>1, <1>2 DEF Sending, Settled
<1>5. d1 = AllLoop!OverSet(d, d, S)
  BY DEF AllLoop!OverSet, FoldSet, AllLoop!FoldSet, MapThenFoldSet, AllLoop!MapThenFoldSet
<1>6. E = LastLoop!OverList(d, d1, list)
  BY DEF LastLoop!OverList, FoldLeft, LastLoop!FoldLeft, MapThenFoldSet,
         LastLoop!MapThenFoldSet, Max, LastLoop!Max
<1> HIDE DEF E, d1, S
<1>7. Sending(d, d1)
  <2>1. AllInv(d, {}, d)
    BY <1>4 DEF AllInv
  <2>2. \A t \in SUBSET S, c \in S : \A g : c \notin t /\ AllInv(d, t, g) => AllInv(d, t \cup {c}, SendWill(g, c))
    BY <1>3, SendWillSending DEF AllInv
  <2>3. AllLoop!IsFiniteSet(S)
    BY <1>3 DEF IsFiniteSet, AllLoop!IsFiniteSet
  <2>4. AllInv(d, S, d1)
    BY <1>5, <2>1, <2>2, <2>3, AllLoop!SetLoop
  <2> QED
    BY <2>4 DEF AllInv
<1>8. list \in Seq(Conn)
  BY <1>7, MemParts DEF Sending, Good
<1> HIDE DEF list
<1>9. Sending(d, E)
  <2>1. AllInv(d, 0, d1)
    BY <1>7 DEF AllInv
  <2>2. ASSUME NEW n \in 1..Len(list), NEW g, AllInv(d, n - 1, g)
        PROVE  AllInv(d, n, SendWill([WillDelayRemove(g, list[n]) EXCEPT !.context[list[n]].delay = 0], list[n]))
    <3> DEFINE c == list[n]
               h == [WillDelayRemove(g, c) EXCEPT !.context[c].delay = 0]
    <3>1. c \in Conn /\ Sending(d, g)
      BY <1>8, <2>2, LenProperties DEF AllInv
    <3> HIDE DEF c
    <3>2. Sending(d, h)
      BY <3>1, UndelayedSending
    <3> HIDE DEF h
    <3>3. Sending(d, SendWill(h, c))
      BY <3>1, <3>2, SendWillSending
    <3> QED
      BY <3>3 DEF AllInv, h, c
  <2>3. \A n \in 1..Len(list) : \A g : AllInv(d, n - 1, g) =>
            AllInv(d, n, SendWill([WillDelayRemove(g, list[n]) EXCEPT !.context[list[n]].delay = 0], list[n]))
    BY <2>2
  <2>4. AllInv(d, Len(list), E)
    BY <1>6, <1>8, <2>1, <2>3, LastLoop!ListLoop
  <2> QED
    BY <2>4 DEF AllInv
<1>10. Good(E) /\ E.sent \in [Conn -> Nat]
  BY <1>9, MemParts DEF Sending, Good
<1>11. ASSUME NEW c \in Conn, E.sent[c] # d.sent[c]
       PROVE  E.sent[c] = 1 /\ ~Later(l, c) /\ l[c].client # NoId /\ l[c].end # "clean"
  <2>1. d.context[c].will /\ E.sent[c] = d.sent[c] + 1
    BY <1>9, <1>11 DEF Sending
  <2>2. d.sent[c] = 0 /\ d.context[c].id # NoId /\ ~Later(l, c) /\ l[c].end # "clean" /\ l[c].client = d.context[c].id
    BY <1>2, <2>1 DEF Settled
  <2> QED
    BY <2>1, <2>2
<1>12. Accounted(E.sent, l)
  <2>1. ASSUME NEW c \in Conn
        PROVE  E.sent[c] <= 1 /\ (l[c].client = NoId => E.sent[c] = 0) /\ (l[c].end = "clean" => E.sent[c] = 0)
    <3>1. CASE E.sent[c] = d.sent[c]
      <4>1. d.sent[c] <= 1 /\ (l[c].client = NoId => d.sent[c] = 0) /\ (l[c].end = "clean" => d.sent[c] = 0)
        BY <1>2 DEF Settled
      <4> QED
        BY <3>1, <4>1
    <3>2. CASE E.sent[c] # d.sent[c]
      BY <1>11, <3>2
    <3> QED
      BY <3>1, <3>2
  <2> QED
    BY <1>10, <2>1 DEF Accounted
<1>13. Cancelled(d, E, l)
  BY <1>11 DEF Cancelled
<1> QED
  BY <1>0, <1>10, <1>12, <1>13
----------------------------------------------------------------------------
(* The invariant, action by action.                                        *)

\* The next state is as it should be, and no will was sent that was given up.
Kept == Inv' /\ Cancelled(db, db', log)

LEMMA KeptBy ==
    ASSUME Inv, Sound(db', Range(db'.for_free), log', crash'), IsInjective(db'.for_free), Cancelled(db, db', log),
           log' \in Logs, Numbered(log'), now' \in Nat, db'.last_check <= now', crash' \in 0..MaxCrash, Disk(disk')
    PROVE  Kept
BY DEF Kept, Inv

LEMMA InitInv == Init => Inv
<1> SUFFICES ASSUME Init PROVE Inv
  OBVIOUS
<1> DEFINE none == [i \in {} |-> [expiry |-> 0, subs |-> {}]]
<1>0. MaxConn \in Nat /\ MaxCrash \in Nat
  BY BoundAssumption
<1>1. /\ DOMAIN none = {} /\ Disk(none) /\ Counts(none, none, <<>>, 1, 0)
  <2>1. \A c \in Conn : ~(1 <= c /\ c <= 0)
    BY <1>0 DEF Conn
  <2>2. DOMAIN none = {}
    OBVIOUS
  <2> HIDE DEF none
  <2> QED
    BY <2>1, <2>2 DEF Disk, Counts
<1>2. db = Blank(none, none)
  <2>1. \A c \in Conn : ~\E i \in DOMAIN none : none[i] = c
    BY <1>1
  <2>2. \A i \in Clients : i \notin DOMAIN none
    BY <1>1
  <2> HIDE DEF none
  <2> QED
    BY <2>1, <2>2 DEF Init, Blank
<1> HIDE DEF none
<1>3. Fresh(db, none, <<>>, 1, 0)
  <2>1. 1 \in 1..(MaxConn + 1)
    BY <1>0
  <2> QED
    BY <1>1, <1>2, <2>1, BlankFresh
<1>4. /\ Good(db) /\ Named(db) /\ db.expiry_list = <<>> /\ db.delay_list = <<>> /\ db.for_free = <<>>
      /\ db.last_check = 0 /\ \A c \in Conn : db.context[c] = FreeContext
  <2>1. \A c \in Conn : ~(1 <= c /\ c <= 0)
    BY <1>0 DEF Conn
  <2> QED
    BY <1>3, <2>1 DEF Fresh
<1>5. \A c \in Conn : db.sent[c] = 0
  BY DEF Init, Memory
<1>6. Range(<<>>) = {} /\ IsInjective(<<>>)
  BY DEF Range, IsInjective
<1>7. \A c \in Conn : log[c].client = NoId /\ log[c].end = "none" /\ log[c].will = FALSE
  BY DEF Init
<1>8. ASSUME NEW c \in Conn
      PROVE  Settled(db.context[c], db.sent[c], c \in Range(db.expiry_list), c \in Range(db.delay_list),
                     c \in Range(db.for_free), log[c], Later(log, c), crash)
  <2> DEFINE x == FreeContext
  <2>1. x.state = "free" /\ x.id = NoId /\ x.sock = FALSE /\ x.will = FALSE /\ x.delay = 0
    BY DEF FreeContext
  <2> HIDE DEF x
  <2>2. Settled(x, 0, FALSE, FALSE, FALSE, log[c], Later(log, c), crash)
    BY <1>7, <2>1 DEF Settled, x
  <2>3. /\ (c \in Range(db.expiry_list)) = FALSE /\ (c \in Range(db.delay_list)) = FALSE
        /\ (c \in Range(db.for_free)) = FALSE
    BY <1>4, <1>6
  <2> QED
    BY <1>4, <1>5, <2>2, <2>3 DEF x
<1>9. Sound(db, Range(db.for_free), log, crash)
  BY <1>4, <1>6, <1>8 DEF Sound
<1>10. log \in Logs /\ Numbered(log)
  <2>1. log \in Logs
    BY DEF Init, Logs
  <2> QED
    BY <1>7, <2>1 DEF Numbered
<1>11. Disk(disk)
  <2>1. disk = <<>> /\ DOMAIN <<>> = {}
    BY DEF Init
  <2> QED
    BY <2>1 DEF Disk
<1>12. now = 1 /\ crash = 0
  BY DEF Init
<1>13. now \in Nat /\ 0 <= now /\ crash \in 0..MaxCrash
  BY <1>0, <1>12
<1> QED
  BY <1>4, <1>6, <1>9, <1>10, <1>11, <1>13 DEF Inv

LEMMA ConnectKeeps ==
    ASSUME Inv, NEW i \in Clients, NEW o \in Options, Connect(i, o)
    PROVE  Kept
<1> DEFINE c == NextConn
           f == db.by_id[i]
           d1 == [db EXCEPT !.context[c] = Accepted(i, o)]
           d2 == IF f = 0 THEN d1 ELSE Takeover(d1, c, f)
           l2 == ConnectLog(log, c, f, Entry(i, o))
<1>1. /\ c \in Conn /\ db' = Welcome(d2, c, i) /\ log' = l2
      /\ disk' = disk /\ now' = now /\ crash' = crash
  BY DEF Connect, Accepted, Welcome, ConnectLog, Entry, Ended
<1>2. /\ Sound(db, Range(db.for_free), log, crash) /\ IsInjective(db.for_free)
      /\ log \in Logs /\ Numbered(log) /\ now \in Nat /\ db.last_check <= now /\ crash \in 0..MaxCrash
      /\ Disk(disk)
  BY DEF Inv
<1>3. \A e \in Conn : log[e].client # NoId <=> e < c
  BY <1>2, UsedFirst
<1>4. f \in 0..MaxConn /\ (f # 0 => f \in Conn) /\ 0 \notin Conn
  <2>1. db.by_id \in [Clients -> 0..MaxConn]
    BY <1>2, MemParts DEF Sound, Good
  <2> QED
    BY <2>1, BoundAssumption DEF Conn
<1>5. log[c].client = NoId
  <2>1. ~(c < c)
    BY <1>1, BoundAssumption DEF Conn
  <2> QED
    BY <1>1, <1>3, <2>1
<1> HIDE DEF c, l2
<1>6. Admitted(db, d2, c, f, i, o) /\ f # c
  <2>1. CASE f = 0
    <3>1. d2 = d1
      BY <2>1
    <3>2. Admitted(db, d1, c, 0, i, o)
      BY <1>1, <1>2, <1>5, AcceptDoes
    <3> HIDE DEF d1, d2
    <3> QED
      BY <1>1, <1>4, <2>1, <3>1, <3>2
  <2>2. CASE f # 0
    <3>1. d2 = Takeover(d1, c, f) /\ f \in Conn
      BY <1>4, <2>2
    <3>2. Admitted(db, Takeover(d1, c, f), c, f, i, o) /\ f # c
      BY <1>1, <1>2, <1>5, <3>1, AdmitDoes
    <3> HIDE DEF d1, d2
    <3> QED
      BY <3>1, <3>2
  <2> QED
    BY <2>1, <2>2
<1> HIDE DEF d2, f
<1>7. Joined(db, Welcome(d2, c, i), log, ConnectLog(log, c, f, Entry(i, o)), crash)
  BY <1>1, <1>2, <1>3, <1>4, <1>6, ConnectSound DEF f
<1>8. Joined(db, db', log, log', crash)
  BY <1>1, <1>7 DEF l2
<1>9. l2 \in Logs /\ l2[c] = Entry(i, o) /\ \A e \in Conn : e # c => l2[e].client = log[e].client
  BY <1>1, <1>2, <1>4, <1>6, ConnectLogDoes DEF l2
<1>10. Numbered(log')
  <2>1. \A e \in Conn : l2[e].client # NoId <=> (e < c \/ e = c)
    <3>1. Entry(i, o).client = i /\ i # NoId
      BY NeverAssumption DEF Entry
    <3> QED
      BY <1>1, <1>3, <1>9, <3>1
  <2>2. \A e, g \in Conn : g < e /\ (e < c \/ e = c) => g < c
    BY <1>1, BoundAssumption DEF Conn
  <2> QED
    BY <1>1, <2>1, <2>2 DEF Numbered
<1> QED
  BY <1>1, <1>2, <1>8, <1>9, <1>10, KeptBy DEF Joined

\* A connection that ended is still counted.
LEMMA EndNumbered ==
    ASSUME NEW l \in Logs, Numbered(l), NEW c \in Conn, NEW how \in Ends
    PROVE  EndOf(l, c, how) \in Logs /\ Numbered(EndOf(l, c, how))
<1> DEFINE l2 == EndOf(l, c, how)
<1>1. l2 \in Logs /\ \A e \in Conn : l2[e].client = l[e].client
  BY EndOfDoes
<1> HIDE DEF l2
<1> QED
  BY <1>1 DEF Numbered, l2

\* A context with a socket.
LEMMA WithSocket ==
    ASSUME Inv, NEW c \in Conn, db.context[c].sock
    PROVE  db.context[c].state = "active" /\ db.context[c] \in Context /\ db \in Mem /\ db.context \in [Conn -> Context]
<1>1. Settled(db.context[c], db.sent[c], c \in Range(db.expiry_list), c \in Range(db.delay_list),
              c \in Range(db.for_free), log[c], Later(log, c), crash)
  BY DEF Inv, Sound
<1>2. db \in Mem
  BY DEF Inv, Sound, Good
<1> QED
  BY <1>1, <1>2, MemParts DEF Settled

LEMMA LostKeeps ==
    ASSUME Inv, NEW c \in Conn, ConnectionLost(c)
    PROVE  Kept
<1> DEFINE x == db.context[c]
           E == Disconnect([db EXCEPT !.context[c] = x], c)
<1>1. /\ x.sock /\ db' = Disconnect(db, c) /\ log' = EndOf(log, c, "lost")
      /\ disk' = disk /\ now' = now /\ crash' = crash
  BY DEF ConnectionLost, EndOf, Ended
<1>2. /\ Sound(db, Range(db.for_free), log, crash) /\ IsInjective(db.for_free)
      /\ log \in Logs /\ Numbered(log) /\ now \in Nat /\ db.last_check <= now /\ crash \in 0..MaxCrash
      /\ Disk(disk)
  BY DEF Inv
<1>3. x.state = "active" /\ x \in Context /\ db \in Mem /\ db.context \in [Conn -> Context]
  BY <1>1, WithSocket
<1>4. [db EXCEPT !.context[c] = x] = db
  BY <1>3 DEF Mem
<1>5. /\ Sound(E, Range(E.for_free), EndOf(log, c, "lost"), crash) /\ IsInjective(E.for_free)
      /\ E.last_check = db.last_check /\ Cancelled(db, E, log)
  BY <1>1, <1>2, <1>3, LeaveSound
<1>6. E = db'
  BY <1>1, <1>4
<1> HIDE DEF E
<1>7. log' \in Logs /\ Numbered(log')
  BY <1>1, <1>2, EndNumbered DEF Ends
<1> QED
  BY <1>1, <1>2, <1>5, <1>6, <1>7, KeptBy

LEMMA SetTwice ==
    ASSUME NEW d \in Mem, NEW c \in Conn, NEW u, NEW v
    PROVE  [[d EXCEPT !.context[c] = u] EXCEPT !.context[c] = v] = [d EXCEPT !.context[c] = v]
<1>1. d.context \in [Conn -> Context]
  BY MemParts
<1> QED
  BY <1>1 DEF Mem

LEMMA LeaveKeeps ==
    ASSUME Inv, NEW c \in Conn, NEW w \in BOOLEAN, NEW expiry \in {o.expiry : o \in Options},
           HandleDisconnect(c, w, expiry)
    PROVE  Kept
<1> DEFINE x == db.context[c]
           d1 == [db EXCEPT !.context[c].expiry = expiry]
           d2 == IF w THEN [d1 EXCEPT !.context[c].state = "disconnect_with_will"]
                 ELSE [WillClear(d1, c) EXCEPT !.context[c].state = "disconnecting"]
           how == IF w THEN "lost" ELSE "clean"
           y == [x EXCEPT !.expiry = expiry]
           z == IF w THEN [y EXCEPT !.state = "disconnect_with_will"]
                ELSE [y EXCEPT !.state = "disconnecting", !.will = FALSE, !.delay = 0]
           E == Disconnect([db EXCEPT !.context[c] = z], c)
<1>1. /\ x.sock /\ db' = Disconnect(d2, c) /\ log' = EndOf(log, c, how)
      /\ disk' = disk /\ now' = now /\ crash' = crash
  BY DEF HandleDisconnect, EndOf, Ended
<1>2. /\ Sound(db, Range(db.for_free), log, crash) /\ IsInjective(db.for_free)
      /\ log \in Logs /\ Numbered(log) /\ now \in Nat /\ db.last_check <= now /\ crash \in 0..MaxCrash
      /\ Disk(disk)
  BY DEF Inv
<1>3. x.state = "active" /\ x \in Context /\ db \in Mem /\ db.context \in [Conn -> Context]
  BY <1>1, WithSocket
<1>3a. ~x.will => x.delay = 0
  BY <1>2 DEF Sound, Settled
<1>4. expiry \in Nat
  BY OptionTypes
<1>5. /\ y \in Context /\ y.will = x.will /\ y.delay = x.delay /\ y.id = x.id /\ y.subs = x.subs
  BY <1>3, <1>4 DEF Context
<1>6. d1 = [db EXCEPT !.context[c] = y] /\ d1.context[c] = y
  BY <1>3 DEF Mem
<1> HIDE DEF y
<1>7. d2 = [db EXCEPT !.context[c] = z]
  <2>1. CASE w
    BY <1>3, <1>6, <2>1, ZenonT(60) DEF Mem
  <2>2. CASE ~w
    <3>1. CASE y.will
      <4> DEFINE u == [y EXCEPT !.will = FALSE, !.delay = 0]
      <4>0. d1 \in Mem
        BY <1>3, <1>5, <1>6 DEF Mem
      <4> HIDE DEF d1
      <4>1. WillClear(d1, c) = [d1 EXCEPT !.context[c] = u]
        BY <1>6, <3>1, <4>0, ZenonT(60) DEF WillClear, Mem
      <4>2. z = [u EXCEPT !.state = "disconnecting"]
        BY <1>5, <2>2 DEF Context
      <4> HIDE DEF u, z
      <4>3. [db EXCEPT !.context[c] = u] = [d1 EXCEPT !.context[c] = u]
        BY <1>3, <1>6, SetTwice, Zenon
      <4>4. [[db EXCEPT !.context[c] = u] EXCEPT !.context[c].state = "disconnecting"] = [db EXCEPT !.context[c] = z]
        BY <1>3, <4>2 DEF Mem
      <4>5. d2 = [WillClear(d1, c) EXCEPT !.context[c].state = "disconnecting"]
        BY <2>2 DEF d1
      <4> QED
        BY <4>1, <4>3, <4>4, <4>5
    <3>2. CASE ~y.will
      <4>1. WillClear(d1, c) = d1
        BY <1>6, <3>2 DEF WillClear
      <4>2. z = [y EXCEPT !.state = "disconnecting"]
        BY <1>3a, <1>5, <2>2, <3>2 DEF Context
      <4> HIDE DEF z
      <4>3. [[db EXCEPT !.context[c] = y] EXCEPT !.context[c].state = "disconnecting"] = [db EXCEPT !.context[c] = z]
        BY <1>3, <4>2 DEF Mem
      <4>4. d2 = [WillClear(d1, c) EXCEPT !.context[c].state = "disconnecting"]
        BY <2>2
      <4> HIDE DEF d1
      <4> QED
        BY <1>6, <4>1, <4>3, <4>4
    <3> QED
      BY <3>1, <3>2
  <2> QED
    BY <2>1, <2>2
<1>8. /\ z \in Context /\ z.id = x.id /\ z.subs = x.subs
      /\ \/ z.state = "disconnecting" /\ z.will = FALSE /\ z.delay = 0 /\ how = "clean"
         \/ /\ z.state \in {"active", "disconnect_with_will"} /\ how = "lost"
            /\ z.will = x.will /\ z.delay = x.delay
  <2>1. CASE w
    BY <1>5, <2>1 DEF Context, States
  <2>2. CASE ~w
    BY <1>5, <2>2 DEF Context, States
  <2> QED
    BY <2>1, <2>2
<1> HIDE DEF z, d2
<1>9. how \in Ends
  BY DEF Ends
<1> HIDE DEF how
<1>10. /\ Sound(E, Range(E.for_free), EndOf(log, c, how), crash) /\ IsInjective(E.for_free)
       /\ E.last_check = db.last_check /\ Cancelled(db, E, log)
  BY <1>1, <1>2, <1>8, LeaveSound, ZenonT(60)
<1>11. E = db'
  BY <1>1, <1>7
<1> HIDE DEF E
<1>12. log' \in Logs /\ Numbered(log')
  BY <1>1, <1>2, <1>9, EndNumbered
<1> QED
  BY <1>1, <1>2, <1>10, <1>11, <1>12, KeptBy

\* A subscription or its end.
LEMMA FiledKeeps ==
    ASSUME Inv, NEW c \in Conn, db.context[c].state = "active", Refiled(db, db', c),
           disk' = disk, now' = now, log' = log, crash' = crash
    PROVE  Kept
<1>1. /\ Sound(db, Range(db.for_free), log, crash) /\ IsInjective(db.for_free)
      /\ log \in Logs /\ Numbered(log) /\ now \in Nat /\ db.last_check <= now /\ crash \in 0..MaxCrash
      /\ Disk(disk)
  BY DEF Inv
<1>2. db'.for_free = db.for_free /\ db'.sent = db.sent /\ db'.last_check = db.last_check
  BY DEF Refiled, Only
<1>3. Sound(db', Range(db.for_free), log, crash)
  BY <1>1, RefiledSound
<1>4. Cancelled(db, db', log)
  BY <1>2 DEF Cancelled
<1> QED
  BY <1>1, <1>2, <1>3, <1>4, KeptBy

LEMMA SubscribeKeeps ==
    ASSUME Inv, NEW c \in Conn, NEW f \in Filters, NEW n \in NoLocal, Subscribe(c, f, n)
    PROVE  Kept
<1>1. /\ db.context[c].state = "active" /\ db' = Add(db, c, f, n)
      /\ disk' = disk /\ now' = now /\ log' = log /\ crash' = crash
  BY DEF Subscribe, Add
<1>2. Good(db) /\ Named(db)
  BY DEF Inv, Sound
<1>3. db.context[c].id # NoId
  <2>1. Settled(db.context[c], db.sent[c], c \in Range(db.expiry_list), c \in Range(db.delay_list),
                c \in Range(db.for_free), log[c], Later(log, c), crash)
    BY DEF Inv, Sound
  <2> QED
    BY <1>1, <2>1 DEF Settled
<1>4. Refiled(db, db', c)
  BY <1>1, <1>2, <1>3, AddDoes
<1> QED
  BY <1>1, <1>4, FiledKeeps

LEMMA UnsubscribeKeeps ==
    ASSUME Inv, NEW c \in Conn, NEW f \in Filters, Unsubscribe(c, f)
    PROVE  Kept
<1>1. /\ db.context[c].state = "active" /\ db' = SubRemoved(db, c, f)
      /\ disk' = disk /\ now' = now /\ log' = log /\ crash' = crash
  BY DEF Unsubscribe, SubRemoved
<1>2. Good(db)
  BY DEF Inv, Sound
<1>3. Refiled(db, db', c)
  BY <1>1, <1>2, RemoveDoes
<1> QED
  BY <1>1, <1>3, FiledKeeps

LEMMA PublishKeeps ==
    ASSUME Inv, NEW topic, Publish(topic)
    PROVE  Kept
<1>1. db' = Rotate(db, topic) /\ disk' = disk /\ now' = now /\ log' = log /\ crash' = crash
  BY DEF Publish, Rotate
<1>2. /\ Sound(db, Range(db.for_free), log, crash) /\ IsInjective(db.for_free)
      /\ log \in Logs /\ Numbered(log) /\ now \in Nat /\ db.last_check <= now /\ crash \in 0..MaxCrash
      /\ Disk(disk)
  BY DEF Inv
<1>3. LET E == Rotate(db, topic)
      IN  /\ Sound(E, Range(db.for_free), log, crash) /\ E.for_free = db.for_free /\ E.sent = db.sent
          /\ E.last_check = db.last_check
  BY <1>2, RotateSound
<1>4. Cancelled(db, db', log)
  BY <1>1, <1>3 DEF Cancelled
<1> QED
  BY <1>1, <1>2, <1>3, <1>4, KeptBy

LEMMA TurnKeeps ==
    ASSUME Inv, LoopTurn
    PROVE  Kept
<1>1. db' = Turn(db) /\ now' \in {now, now + 1} /\ disk' = disk /\ log' = log /\ crash' = crash
  BY DEF LoopTurn
<1>2. /\ Sound(db, Range(db.for_free), log, crash) /\ IsInjective(db.for_free)
      /\ log \in Logs /\ Numbered(log) /\ now \in Nat /\ db.last_check <= now /\ crash \in 0..MaxCrash
      /\ Disk(disk)
  BY DEF Inv
<1>3. LET E == Turn(db)
      IN  /\ Sound(E, Range(E.for_free), log, crash) /\ IsInjective(E.for_free)
          /\ E.last_check <= now /\ Cancelled(db, E, log)
  BY <1>2, TurnSound
<1>4. /\ Sound(db', Range(db'.for_free), log, crash) /\ IsInjective(db'.for_free)
      /\ db'.last_check <= now /\ Cancelled(db, db', log)
  BY <1>1, <1>3
<1>5. now' \in Nat /\ db'.last_check <= now'
  <2>1. db'.last_check \in Nat
    BY <1>4, MemParts DEF Sound, Good
  <2> QED
    BY <1>1, <1>2, <1>4, <2>1
<1> QED
  BY <1>1, <1>2, <1>4, <1>5, KeptBy

LEMMA BackupKeeps ==
    ASSUME Inv, Backup
    PROVE  Kept
<1>1. disk' = Saved(db) /\ db' = db /\ now' = now /\ log' = log /\ crash' = crash
  BY DEF Backup
<1>2. /\ Sound(db, Range(db.for_free), log, crash) /\ IsInjective(db.for_free)
      /\ log \in Logs /\ Numbered(log) /\ now \in Nat /\ db.last_check <= now /\ crash \in 0..MaxCrash
  BY DEF Inv
<1>3. Disk(disk')
  BY <1>1, <1>2, SavedType DEF Sound
<1>4. Cancelled(db, db', log)
  BY <1>1 DEF Cancelled
<1> QED
  BY <1>1, <1>2, <1>3, <1>4, KeptBy

\* A restart from saved, after sent wills.
LEMMA RestartKeeps ==
    ASSUME Inv, NEW saved, Disk(saved), NEW sent, Accounted(sent, log), crash < MaxCrash,
           \A c \in Conn : sent[c] # db.sent[c] => ~Later(log, c),
           NextConn - 1 + Cardinality(DOMAIN saved) <= MaxConn,
           db' = [Restored(saved, NextConn) EXCEPT !.sent = sent], log' = LogAfterCrash(saved),
           crash' = crash + 1, disk' = saved, now' = now
    PROVE  Kept
<1>1. log \in Logs /\ Numbered(log) /\ now \in Nat /\ crash \in 0..MaxCrash
  BY DEF Inv
<1>2. crash' \in Nat /\ crash' > 0 /\ crash' \in 0..MaxCrash
  BY <1>1, BoundAssumption
<1> DEFINE E == [Restored(saved, NextConn) EXCEPT !.sent = sent]
           l2 == LogAfterCrash(saved)
           k == crash'
<1>3. /\ Sound(E, Range(E.for_free), l2, k) /\ IsInjective(E.for_free) /\ E.last_check = 0
      /\ l2 \in Logs /\ Numbered(l2) /\ E.sent = sent
  <2>1. k \in Nat /\ k > 0
    BY <1>2
  <2> HIDE DEF k
  <2> QED
    BY <1>1, <2>1, RestartSound
<1> HIDE DEF E, l2
<1>4. /\ Sound(db', Range(db'.for_free), log', crash') /\ IsInjective(db'.for_free) /\ db'.last_check = 0
      /\ log' \in Logs /\ Numbered(log') /\ db'.sent = sent
  BY <1>3 DEF E, l2
<1>5. Cancelled(db, db', log)
  BY <1>4 DEF Cancelled
<1>6. now' \in Nat /\ db'.last_check <= now'
  BY <1>1, <1>4
<1> QED
  BY <1>2, <1>4, <1>5, <1>6, KeptBy

LEMMA CrashKeeps ==
    ASSUME Inv, Crash
    PROVE  Kept
<1>1. /\ crash < MaxCrash /\ NextConn - 1 + Cardinality(DOMAIN disk) <= MaxConn
      /\ db' = [Restored(disk, NextConn) EXCEPT !.sent = db.sent] /\ log' = LogAfterCrash(disk)
      /\ crash' = crash + 1 /\ disk' = disk /\ now' = now
  BY DEF Crash
<1>2. Disk(disk)
  BY DEF Inv
<1>3. Accounted(db.sent, log)
  <2>1. db.sent \in [Conn -> Nat]
    BY MemParts DEF Inv, Sound, Good
  <2> QED
    BY <2>1 DEF Inv, Sound, Settled, Accounted
<1> QED
  BY <1>1, <1>2, <1>3, RestartKeeps

LEMMA ShutdownKeeps ==
    ASSUME Inv, Shutdown
    PROVE  Kept
<1> DEFINE d == SendAllWills(db)
           last == Saved(d)
<1>1. /\ crash < MaxCrash /\ NextConn - 1 + Cardinality(DOMAIN last) <= MaxConn
      /\ db' = [Restored(last, NextConn) EXCEPT !.sent = d.sent] /\ log' = LogAfterCrash(last)
      /\ crash' = crash + 1 /\ disk' = last /\ now' = now
  BY DEF Shutdown
<1>2. Good(d) /\ Accounted(d.sent, log) /\ Cancelled(db, d, log)
  <2>1. Sound(db, Range(db.for_free), log, crash) /\ log \in Logs /\ now \in Nat
    BY DEF Inv
  <2> QED
    BY <2>1, SendAllSound
<1> HIDE DEF d
<1>3. Disk(last)
  BY <1>2, SavedType
<1> HIDE DEF last
<1> QED
  BY <1>1, <1>2, <1>3, RestartKeeps DEF Cancelled

LEMMA NextKeeps ==
    ASSUME Inv, [Next]_vars
    PROVE  Kept
<1>1. ASSUME NEW i \in Clients, NEW o \in Options, Connect(i, o) PROVE Kept
  BY <1>1, ConnectKeeps
<1>2. ASSUME NEW c \in Conn, ConnectionLost(c) PROVE Kept
  BY <1>2, LostKeeps
<1>3. ASSUME NEW c \in Conn, NEW w \in BOOLEAN, NEW e \in {o.expiry : o \in Options}, HandleDisconnect(c, w, e)
      PROVE  Kept
  BY <1>3, LeaveKeeps
<1>4. ASSUME NEW c \in Conn, NEW f \in Filters, NEW n \in NoLocal, Subscribe(c, f, n) PROVE Kept
  BY <1>4, SubscribeKeeps
<1>5. ASSUME NEW c \in Conn, NEW f \in Filters, Unsubscribe(c, f) PROVE Kept
  BY <1>5, UnsubscribeKeeps
<1>6. ASSUME NEW t \in TopicNames, Publish(t) PROVE Kept
  BY <1>6, PublishKeeps
<1>7. ASSUME LoopTurn PROVE Kept
  BY <1>7, TurnKeeps
<1>8. ASSUME Backup PROVE Kept
  BY <1>8, BackupKeeps
<1>9. ASSUME Crash PROVE Kept
  BY <1>9, CrashKeeps
<1>10. ASSUME Shutdown PROVE Kept
  BY <1>10, ShutdownKeeps
<1>11. CASE UNCHANGED vars
  <2>1. db' = db /\ disk' = disk /\ now' = now /\ log' = log /\ crash' = crash
    BY <1>11 DEF vars
  <2>2. Inv'
    BY <2>1 DEF Inv
  <2> QED
    BY <2>1, <2>2 DEF Kept, Cancelled
<1> QED
  BY <1>1, <1>2, <1>3, <1>4, <1>5, <1>6, <1>7, <1>8, <1>9, <1>10, <1>11 DEF Next
----------------------------------------------------------------------------
(* The theorems.                                                           *)

LEMMA SettledAll ==
    ASSUME Inv
    PROVE  /\ Good(db) /\ db \in Mem /\ Named(db) /\ IsInjective(db.for_free)
           /\ \A c \in Conn : Settled(db.context[c], db.sent[c], c \in Range(db.expiry_list),
                                      c \in Range(db.delay_list), c \in Range(db.for_free), log[c], Later(log, c), crash)
BY DEF Inv, Sound, Good

\* A leaf of the tree, at its place.
LEMMA LeafPlace ==
    ASSUME NEW t \in Trees(Leaf), Neat(t), NEW p \in DOMAIN t, NEW g \in {NoShare} \cup DOMAIN t[p].shared
    PROVE  LET r == [path |-> p, share |-> g]
           IN  /\ r \in Place /\ At(t, r) = Members(t[p], g)
               /\ Members(t[p], g) = (IF g = NoShare THEN t[p].subs ELSE t[p].shared[g])
<1> DEFINE r == [path |-> p, share |-> g]
<1>1. p \in Seq(Level) /\ t[p] \in Node(Leaf)
  BY TreesType
<1>2. DOMAIN t[p].shared \subseteq Level
  <2>1. t[p].shared \in Shares(Leaf)
    BY <1>1 DEF Node
  <2> QED
    BY <2>1 DEF Shares
<1>3. r \in Place
  BY <1>1, <1>2, Zenon DEF Place, Level
<1> QED
  BY <1>3 DEF At, Members

\* Whoever has a leaf in the tree has not been freed.
LEMMA LeafHolder ==
    ASSUME Inv, NEW l \in Leaves(db)
    PROVE  l.context \in Conn /\ db.context[l.context].state # "free"
<1> DEFINE t == db.subs
           c == l.context
<1>1. t \in Trees(Leaf) /\ Neat(t)
  BY SettledAll, MemParts DEF Good, Filed
<1>2. PICK p \in DOMAIN t : \/ l \in Range(t[p].subs)
                            \/ \E g \in DOMAIN t[p].shared : l \in Range(t[p].shared[g])
  BY DEF Leaves
<1>3. NoShare \notin DOMAIN t[p].shared
  BY <1>1 DEF Neat, Closed, Tidy
<1>4. PICK g \in {NoShare} \cup DOMAIN t[p].shared :
          l \in Range(IF g = NoShare THEN t[p].subs ELSE t[p].shared[g])
  BY <1>2, <1>3
<1> DEFINE r == [path |-> p, share |-> g]
<1>5. r \in Place /\ l \in Range(At(t, r))
  <2>1. /\ r \in Place /\ At(t, r) = Members(t[p], g)
        /\ Members(t[p], g) = (IF g = NoShare THEN t[p].subs ELSE t[p].shared[g])
    BY <1>1, LeafPlace
  <2> QED
    BY <1>4, <2>1
<1> HIDE DEF r
<1>6. c \in Holders(At(t, r))
  BY <1>5 DEF Holders, Range
<1>7. c \in Conn
  BY <1>1, <1>5, <1>6, HoldersType
<1>8. r \in db.context[c].subs
  BY <1>5, <1>6, <1>7, SettledAll DEF Good, Filed
<1>9. db.context[c].state # "free"
  <2>1. FreeContext.subs = {}
    BY DEF FreeContext
  <2>2. db.context[c].state = "free" => db.context[c] = FreeContext
    BY <1>7, SettledAll DEF Settled
  <2> QED
    BY <1>8, <2>1, <2>2
<1> QED
  BY <1>7, <1>9

LEMMA InvNoDangling == Inv => NoDangling
<1> SUFFICES ASSUME Inv PROVE NoDangling
  OBVIOUS
<1>1. /\ Good(db) /\ db \in Mem /\ Named(db) /\ IsInjective(db.for_free)
      /\ \A c \in Conn : Settled(db.context[c], db.sent[c], c \in Range(db.expiry_list),
                                 c \in Range(db.delay_list), c \in Range(db.for_free), log[c], Later(log, c), crash)
  BY SettledAll
<1>2. IsInjective(db.expiry_list) /\ IsInjective(db.delay_list)
  BY <1>1 DEF Good, Timers
<1>3. /\ Range(db.expiry_list) \subseteq Conn /\ Range(db.delay_list) \subseteq Conn
      /\ Range(db.for_free) \subseteq Conn
  <2>1. db.expiry_list \in Seq(Conn) /\ db.delay_list \in Seq(Conn) /\ db.for_free \in Seq(Conn)
    BY <1>1, MemParts
  <2> QED
    BY <2>1, RangeOfSeq
<1>4. FreeContext.id = NoId
  BY DEF FreeContext
<1>5. ASSUME NEW c \in Range(db.expiry_list) \cup Range(db.delay_list)
      PROVE  ~db.context[c].sock /\ c \notin Range(db.for_free) /\ db.context[c].state # "free"
  <2>1. c \in Conn
    BY <1>3
  <2>2. Settled(db.context[c], db.sent[c], c \in Range(db.expiry_list), c \in Range(db.delay_list),
                c \in Range(db.for_free), log[c], Later(log, c), crash)
    BY <1>1, <2>1
  <2> QED
    BY <1>4, <2>2 DEF Settled
<1>6. ASSUME NEW c \in Range(db.for_free) PROVE db.context[c].state # "free"
  BY <1>1, <1>3 DEF Settled
<1>7. ASSUME NEW i \in Clients PROVE {c \in Conn : db.context[c].id = i} = {db.by_id[i]} \ {0}
  <2>1. db.by_id[i] # 0 => db.by_id[i] \in Conn /\ db.context[db.by_id[i]].id = i
    <3>1. db.by_id \in [Clients -> 0..MaxConn]
      BY <1>1, MemParts
    <3>2. db.by_id[i] # 0 => db.by_id[i] \in Conn
      BY <3>1, BoundAssumption DEF Conn
    <3> QED
      BY <1>1, <3>2 DEF Named
  <2>2. \A c \in Conn : db.context[c].id = i => db.by_id[i] = c /\ c # 0
    <3>1. i # NoId /\ 0 \notin Conn
      BY NeverAssumption, BoundAssumption DEF Conn
    <3> QED
      BY <1>1, <3>1 DEF Named
  <2> QED
    BY <2>1, <2>2
<1> DEFINE lists == {db.expiry_list, db.delay_list, db.for_free}
<1>8. \A c \in (UNION {Range(l) : l \in lists}) \cup {l.context : l \in Leaves(db)} : db.context[c].state # "free"
  <2>1. UNION {Range(l) : l \in lists} = Range(db.expiry_list) \cup Range(db.delay_list) \cup Range(db.for_free)
    OBVIOUS
  <2>2. \A l \in Leaves(db) : db.context[l.context].state # "free"
    BY LeafHolder
  <2>3. \A c \in UNION {Range(l) : l \in lists} : db.context[c].state # "free"
    BY <1>5, <1>6, <2>1
  <2> HIDE DEF lists
  <2> QED
    BY <2>2, <2>3
<1>9. \A l \in lists : IsInjective(l)
  BY <1>1, <1>2
<1>10. \A c \in Range(db.expiry_list) \cup Range(db.delay_list) : ~db.context[c].sock /\ c \notin Range(db.for_free)
  BY <1>5
<1> QED
  BY <1>7, <1>8, <1>9, <1>10 DEF NoDangling

LEMMA InvWills == Inv => WillOnce /\ WillNotForgotten
<1> SUFFICES ASSUME Inv PROVE WillOnce /\ WillNotForgotten
  OBVIOUS
<1>1. \A c \in Conn : Settled(db.context[c], db.sent[c], c \in Range(db.expiry_list),
                              c \in Range(db.delay_list), c \in Range(db.for_free), log[c], Later(log, c), crash)
  BY SettledAll
<1>2. WillOnce
  <2> SUFFICES ASSUME NEW c \in Conn PROVE db.sent[c] <= IF log[c].end = "clean" THEN 0 ELSE 1
    BY DEF WillOnce
  <2>1. db.sent[c] <= 1 /\ (log[c].end = "clean" => db.sent[c] = 0)
    BY <1>1 DEF Settled
  <2>2. CASE log[c].end = "clean"
    BY <2>1, <2>2
  <2>3. CASE log[c].end # "clean"
    BY <2>1, <2>3
  <2> QED
    BY <2>2, <2>3
<1>3. WillNotForgotten
  <2> SUFFICES ASSUME NEW c \in Used, log[c].will, log[c].end = "lost"
               PROVE  \/ db.sent[c] > 0 \/ c \in Range(db.delay_list)
                      \/ \E e \in Used : e > c /\ log[e].client = log[c].client
    BY DEF WillNotForgotten
  <2>1. c \in Conn /\ log[c].client # NoId
    BY DEF Used
  <2>2. db.sent[c] > 0 \/ c \in Range(db.delay_list) \/ Later(log, c)
    BY <1>1, <2>1 DEF Settled
  <2>3. Later(log, c) => \E e \in Used : e > c /\ log[e].client = log[c].client
    BY <2>1, SMTT(30) DEF Later, Used
  <2> QED
    BY <2>2, <2>3
<1> QED
  BY <1>2, <1>3

LEMMA InvTimers == Inv => ExpiredGone /\ (crash = 0 => SessionsTracked)
<1> SUFFICES ASSUME Inv PROVE ExpiredGone /\ (crash = 0 => SessionsTracked)
  OBVIOUS
<1>1. ExpiredGone
  BY SettledAll DEF Good, Timers, ExpiredGone
<1>2. ASSUME crash = 0 PROVE SessionsTracked
  <2> SUFFICES ASSUME NEW c \in Conn, db.context[c].id # NoId, ~db.context[c].sock,
                      db.context[c].expiry # Never \/ ClientExpiry # 0
               PROVE  c \in Range(db.expiry_list) \/ (db.context[c].expiry = 0 /\ c \in Range(db.delay_list))
    BY DEF SessionsTracked
  <2>1. Settled(db.context[c], db.sent[c], c \in Range(db.expiry_list), c \in Range(db.delay_list),
                c \in Range(db.for_free), log[c], Later(log, c), crash)
    BY SettledAll
  <2>2. db.context[c].state # "new"
    BY <1>2, <2>1 DEF Settled
  <2> QED
    BY <2>1, <2>2 DEF Settled
<1> QED
  BY <1>1, <1>2

LEMMA InvTree == Inv => TreeConsistent
<1> SUFFICES ASSUME Inv PROVE TreeConsistent
  OBVIOUS
<1> DEFINE t == db.subs
           Mine(p, c) == {h \in {NoShare} \cup DOMAIN t[p].shared :
                             \E i \in DOMAIN Members(t[p], h) : Members(t[p], h)[i].context = c}
           All(c) == UNION {{[path |-> p, share |-> g] : g \in Mine(p, c)} : p \in DOMAIN t}
<1>1. t \in Trees(Leaf) /\ Neat(t) /\ db.context \in [Conn -> Context]
  BY SettledAll, MemParts DEF Good, Filed
<1>2. \A r \in Place, c \in Conn : r \in db.context[c].subs <=> c \in Holders(At(t, r))
  BY SettledAll DEF Good, Filed
<1>3. ASSUME NEW c \in Conn, NEW r \in db.context[c].subs PROVE r \in All(c)
  <2>0. db.context[c] \in Context
    BY <1>1
  <2>1. r \in Place
    BY <2>0, RefsArePlaces, ContextParts
  <2>2. c \in Holders(At(t, r)) /\ r = [path |-> r.path, share |-> r.share]
    BY <1>2, <2>1 DEF Place
  <2>3. r.path \in DOMAIN t
    BY <2>2 DEF At, Holders
  <2>4. At(t, r) = Members(t[r.path], r.share)
    BY <2>3 DEF At
  <2>5. r.share \in {NoShare} \cup DOMAIN t[r.path].shared
    <3>1. At(t, r) # <<>>
      BY <2>2 DEF Holders
    <3> QED
      BY <2>4, <3>1 DEF Members
  <2>6. r.share \in Mine(r.path, c)
    BY <2>2, <2>4, <2>5 DEF Holders
  <2> HIDE DEF Mine
  <2> QED
    BY <2>2, <2>3, <2>6
<1>4. ASSUME NEW c \in Conn, NEW p \in DOMAIN t, NEW g \in Mine(p, c)
      PROVE  [path |-> p, share |-> g] \in db.context[c].subs
  <2> DEFINE r == [path |-> p, share |-> g]
  <2>1. r \in Place /\ At(t, r) = Members(t[p], g)
    BY <1>1, LeafPlace
  <2> HIDE DEF r
  <2>2. c \in Holders(At(t, r))
    BY <2>1 DEF Holders
  <2> QED
    BY <1>2, <2>1, <2>2 DEF r
<1>5. \A c \in Conn : db.context[c].subs = All(c)
  <2> SUFFICES ASSUME NEW c \in Conn PROVE db.context[c].subs = All(c)
    OBVIOUS
  <2>1. \A r \in db.context[c].subs : r \in All(c)
    BY <1>3
  <2>2. \A r \in All(c) : r \in db.context[c].subs
    <3> HIDE DEF Mine
    <3> QED
      BY <1>4
  <2> QED
    BY <2>1, <2>2
<1>6. \A p \in DOMAIN t : Len(p) > 1 => ~IsEmptyNode(t[p]) \/ Children(t, p) # {}
  BY <1>1 DEF Neat, Alive
<1> QED
  BY <1>5, <1>6 DEF TreeConsistent

(* The invariant of the broker's sessions, over connections, takeovers,    *)
(* timers, subscriptions, saves, crashes and restarts.                     *)
THEOREM SessionsInvariant == Spec => []Inv
<1>1. Inv /\ [Next]_vars => Inv'
  BY NextKeeps DEF Kept
<1> QED
  BY <1>1, InitInv, PTL DEF Spec

(* No list, no table and no leaf of the tree refers to a context that has  *)
(* been freed, and a client id leads to one context: context__free_disused *)
(* never leaves a pointer to what it frees.                                *)
THEOREM SessionsNoDangling == Spec => []NoDangling
BY SessionsInvariant, InvNoDangling, PTL

(* A will is published at most once over takeover, delay, expiry and       *)
(* shutdown, and not at all after a plain DISCONNECT.                      *)
THEOREM SessionsWillOnce == Spec => []WillOnce
BY SessionsInvariant, InvWills, PTL

(* The will of a connection that broke off is published, waits in the      *)
(* delay list, or was given up since the client came back.                 *)
THEOREM SessionsWillNotForgotten == Spec => []WillNotForgotten
BY SessionsInvariant, InvWills, PTL

(* After a client has come back no step publishes the will of its earlier  *)
(* connection, neither a timer nor the loops at shutdown.                  *)
THEOREM SessionsWillCancelled == Spec => WillCancelled
<1> DEFINE A == \A c \in {x \in Conn : db'.sent[x] > db.sent[x]} :
                   ~\E e \in Used : e > c /\ log[e].client = log[c].client
<1>1. ASSUME Inv, [Next]_vars PROVE A
  <2> SUFFICES ASSUME NEW c \in Conn, db'.sent[c] > db.sent[c],
                      NEW e \in Used, e > c, log[e].client = log[c].client
               PROVE  FALSE
    OBVIOUS
  <2>1. Kept
    BY <1>1, NextKeeps
  <2>2. db.sent[c] \in Nat
    BY <1>1, SettledAll, MemParts
  <2>3. db'.sent[c] # db.sent[c]
    BY <2>2
  <2>4. ~Later(log, c)
    BY <2>1, <2>3 DEF Kept, Cancelled
  <2>5. e \in Conn
    BY DEF Used
  <2> QED
    BY <2>4, <2>5 DEF Later
<1> QED
  BY <1>1, SessionsInvariant, PTL DEF Spec, WillCancelled

(* No session that was due is left after session_expiry__check: the list   *)
(* stays in the order of the times.                                        *)
THEOREM SessionsExpiredGone == Spec => []ExpiredGone
BY SessionsInvariant, InvTimers, PTL

(* A session without connection that is to end is known to a timer, in a   *)
(* broker that was not restarted; persist__client_chunk_restore does not   *)
(* put a restored session in the list.                                     *)
THEOREM SessionsAreTracked ==
    ASSUME MaxCrash = 0
    PROVE  Spec => []SessionsTracked
<1>1. Inv => crash = 0
  BY DEF Inv
<1> QED
  BY <1>1, SessionsInvariant, InvTimers, PTL

(* A context lists exactly the nodes it has a leaf at, and the tree has no *)
(* dead branches: sub__clean_session finds every leaf.                     *)
THEOREM SessionsTreeConsistent == Spec => []TreeConsistent
BY SessionsInvariant, InvTree, PTL

----------------------------------------------------------------------------
(* Routing.                                                                *)

\* A filter without share name.
LEMMA Unshared ==
    ASSUME NEW f \in Filters
    PROVE  /\ IsName(f)
           /\ SubRef(f).share = NoShare <=> f[1] # "$share"
<1>0. f \in Seq(Level) /\ Len(f) \in Nat \ {0}
  BY FilterLevels
<1>1. ASSUME f[1] = "$share" PROVE SubRef(f).share # NoShare
  <2>1. Len(f) >= 2 /\ f \in Seq(STRING) /\ \A i \in DOMAIN f : f[i] # "/"
    BY <1>1, ShareAssumption, LevelAssumption
  <2>2. 2 \in DOMAIN f
    BY <1>0, <2>1
  <2>3. SubRef(f).share = f[2]
    BY <1>1 DEF SubRef, Tokenise
  <2> QED
    BY <2>1, <2>2, <2>3 DEF NoShare
<1>2. ASSUME f[1] # "$share" PROVE SubRef(f).share = NoShare
  BY <1>2, SMTT(30) DEF SubRef, Tokenise
<1> QED
  BY <1>0, <1>1, <1>2 DEF IsName

\* Only the last level of a path may be "#".
LEMMA HashEnds ==
    ASSUME NEW f \in Filters, NEW q, q = SubRef(f).path, NEW j \in 1..(Len(q) - 1)
    PROVE  q[j] # "#"
<1> DEFINE F == Tokenise(f).topics
<1>0. /\ f \in Seq(Level) /\ Len(f) \in Nat \ {0} /\ IsName(f)
      /\ F \in Seq(Level) /\ F # <<>> /\ q = Path(F)
  BY FilterLevels, TopicsType, RefPlace, Unshared
<1>1. IsName(F) /\ Len(F) \in Nat /\ Len(F) >= 1
  <2> HIDE DEF F
  <2> QED
    BY <1>0, EmptySeq, LenProperties DEF IsName
<1>2. /\ Len(q) = Len(F) + 1 /\ q[1] = F[1]
      /\ \A i \in 1..Len(F) : q[i + 1] = F[i]
  BY <1>0, <1>1, PathIs, SMTT(30)
<1>3. \A i \in 1..(Len(f) - 1) : f[i] # "#"
  BY FilterAssumption DEF SubTopicCheck
<1>4. Nil # "#"
  BY Zenon DEF Nil
<1>5. "#" \notin DollarLevels
  BY Special
<1>6. F[1] # "#" /\ \A i \in 1..(Len(F) - 1) : F[i] # "#"
  <2>1. CASE f[1] = "$share"
    <3> DEFINE z == <<Nil>>
               rest == SubSeq(f, 3, Len(f))
    <3>1. Len(f) >= 2
      BY <2>1, ShareAssumption
    <3>2. F = z \o rest
      BY <2>1, Zenon DEF Tokenise, Nil
    <3>3. rest \in Seq(Level) /\ Len(rest) = Len(f) - 2 /\ \A i \in 1..Len(rest) : rest[i] = f[i + 2]
      <4> DEFINE m == 3
                 n == Len(f)
      <4>1. m \in 1..(Len(f) + 1) /\ n \in 0..Len(f) /\ m <= n + 1
        BY <1>0, <3>1
      <4> HIDE DEF m, n
      <4>2. /\ SubSeq(f, m, n) \in Seq(Level) /\ Len(SubSeq(f, m, n)) = n - m + 1
            /\ \A i \in 1..(n - m + 1) : SubSeq(f, m, n)[i] = f[m + i - 1]
        BY <1>0, <4>1, Part
      <4>3. n - m + 1 = Len(f) - 2 /\ \A i \in 1..(n - m + 1) : m + i - 1 = i + 2
        BY <1>0 DEF m, n
      <4>4. rest = SubSeq(f, m, n)
        BY DEF m, n
      <4> HIDE DEF rest
      <4> QED
        BY <4>2, <4>3, <4>4
    <3>4. z \in Seq(Level) /\ Len(z) = 1 /\ z[1] = Nil
      BY Special
    <3> HIDE DEF z, rest, F
    <3>5. /\ Len(F) = 1 + Len(rest)
          /\ \A i \in 1..(1 + Len(rest)) : F[i] = IF i <= 1 THEN z[i] ELSE rest[i - 1]
      <4>1. /\ Len(F) = Len(z) + Len(rest)
            /\ \A i \in 1..(Len(z) + Len(rest)) : F[i] = IF i <= Len(z) THEN z[i] ELSE rest[i - Len(z)]
        BY <3>2, <3>3, <3>4, ConcatProperties
      <4> QED
        BY <3>4, <4>1
    <3>6. F[1] = Nil
      BY <1>1, <3>4, <3>5
    <3>7. ASSUME NEW i \in 1..(Len(F) - 1), i # 1 PROVE F[i] # "#"
      <4>1. i - 1 \in 1..Len(rest) /\ i \in 1..(1 + Len(rest)) /\ ~(i <= 1)
        BY <1>1, <3>5, <3>7
      <4>2. F[i] = f[(i - 1) + 2]
        BY <3>3, <3>5, <4>1
      <4>3. (i - 1) + 2 \in 1..(Len(f) - 1)
        BY <1>0, <1>1, <3>3, <3>5, <3>7
      <4> QED
        BY <1>3, <4>2, <4>3
    <3> QED
      BY <1>4, <3>6, <3>7
  <2>2. CASE f[1] # "$share"
    <3> DEFINE k == Shift(f)
    <3>1. /\ Len(F) = Len(f) + k
          /\ k = 1 => F[1] = Nil
          /\ \A i \in 1..Len(f) : F[i + k] = f[i]
      BY <1>0, <2>2, TokensAre
    <3>2. k \in {0, 1} /\ (k = 0 => f[1] \in DollarLevels)
      BY DEF Shift
    <3> HIDE DEF F, k
    <3>3. CASE k = 0
      <4>1. \A i \in 1..Len(f) : F[i] = f[i]
        BY <1>0, <3>1, <3>3
      <4> QED
        BY <1>0, <1>3, <1>5, <3>1, <3>2, <3>3, <4>1
    <3>4. CASE k = 1
      <4>1. ASSUME NEW i \in 1..(Len(F) - 1), i # 1 PROVE F[i] # "#"
        <5>1. i - 1 \in 1..(Len(f) - 1) /\ i - 1 \in 1..Len(f) /\ (i - 1) + 1 = i
          BY <1>0, <3>1, <3>4, <4>1
        <5> QED
          BY <1>3, <3>1, <3>4, <5>1
      <4> QED
        BY <1>4, <3>1, <3>4, <4>1
    <3> QED
      BY <3>2, <3>3, <3>4
  <2> QED
    BY <2>1, <2>2
<1> HIDE DEF F
<1>7. CASE j = 1
  BY <1>2, <1>6, <1>7
<1>8. CASE j # 1
  <2>1. j - 1 \in 1..(Len(F) - 1) /\ j - 1 \in 1..Len(F) /\ (j - 1) + 1 = j
    BY <1>1, <1>2, <1>8
  <2> QED
    BY <1>2, <1>6, <2>1
<1> QED
  BY <1>7, <1>8

\* A list with a leaf is where a filter puts it.
LEMMA LeafFiled ==
    ASSUME Inv, NEW p \in DOMAIN db.subs, NEW g \in {NoShare} \cup DOMAIN db.subs[p].shared,
           NEW l \in Range(Members(db.subs[p], g))
    PROVE  /\ l \in Leaf /\ l.context \in Conn
           /\ \E f \in Filters : SubRef(f) = [path |-> p, share |-> g]
<1> DEFINE t == db.subs
           r == [path |-> p, share |-> g]
           c == l.context
<1>1. t \in Trees(Leaf) /\ Neat(t) /\ db.context \in [Conn -> Context]
  BY SettledAll, MemParts DEF Good, Filed
<1>2. /\ r \in Place /\ At(t, r) = Members(t[p], g)
      /\ Members(t[p], g) = (IF g = NoShare THEN t[p].subs ELSE t[p].shared[g])
  BY <1>1, LeafPlace
<1>3. Members(t[p], g) \in Seq(Leaf)
  <2>1. t[p] \in Node(Leaf)
    BY <1>1, TreesType
  <2>2. t[p].subs \in Seq(Leaf) /\ t[p].shared \in Shares(Leaf)
    BY <2>1 DEF Node
  <2>3. g # NoShare => t[p].shared[g] \in Seq(Leaf)
    BY <2>2 DEF Shares
  <2> QED
    BY <1>2, <2>2, <2>3
<1>4. PICK n \in DOMAIN Members(t[p], g) : l = Members(t[p], g)[n]
  BY DEF Range
<1>5. l \in Leaf /\ c \in Conn
  <2>1. l \in Leaf
    BY <1>3, <1>4, ElementOfSeq
  <2> QED
    BY <2>1 DEF Leaf
<1> HIDE DEF r
<1>6. c \in Holders(At(t, r))
  BY <1>2, <1>4 DEF Holders
<1>7. r \in db.context[c].subs
  BY <1>2, <1>5, <1>6, SettledAll DEF Good, Filed
<1>8. r \in Ref
  BY <1>1, <1>5, <1>7, ContextParts
<1> QED
  BY <1>5, <1>8 DEF Ref, r

\* No node is below a "#".
LEMMA HashAlone ==
    ASSUME Inv, NEW p \in DOMAIN db.subs, p[Len(p)] = "#"
    PROVE  Children(db.subs, p) = {}
<1> DEFINE t == db.subs
<1>1. t \in Trees(Leaf) /\ Neat(t)
  BY SettledAll, MemParts DEF Good, Filed
<1>2. Nodes(DOMAIN t) /\ <<>> \notin DOMAIN t
  BY <1>1, NeatNodes
<1>3. \A s \in DOMAIN t : s \in Seq(Level) /\ Len(s) \in Nat /\ Len(s) >= 1
  <2> SUFFICES ASSUME NEW s \in DOMAIN t PROVE s \in Seq(Level) /\ Len(s) \in Nat /\ Len(s) >= 1
    OBVIOUS
  <2>1. s \in Seq(Level) /\ s # <<>>
    BY <1>2 DEF Nodes
  <2>2. Len(s) \in Nat \ {0}
    BY <2>1, EmptySeq
  <2> QED
    BY <2>1, <2>2
<1> SUFFICES ASSUME NEW q \in Children(t, p) PROVE FALSE
  OBVIOUS
<1>4. q \in DOMAIN t /\ Len(q) = Len(p) + 1 /\ Below(p, q)
  <2>1. q \in DOMAIN t /\ Len(q) = Len(p) + 1 /\ IsPrefix(p, q)
    BY DEF Children
  <2> QED
    BY <1>3, <2>1, ChildIs
<1>5. Len(q) > 1
  BY <1>3, <1>4
<1>6. PICK s \in DOMAIN t : (s = q \/ Below(q, s)) /\ ~IsEmptyNode(t[s])
  BY <1>1, <1>4, <1>5, LeafBelow
<1>7. Len(p) \in 1..(Len(s) - 1) /\ s[Len(p)] = "#"
  <2>1. Len(p) \in Nat /\ Len(p) >= 1 /\ Len(q) \in Nat /\ Len(s) \in Nat
    BY <1>3, <1>4
  <2>2. q[Len(p)] = "#"
    BY <1>4, <2>1 DEF Below
  <2>3. s[Len(p)] = q[Len(p)] /\ Len(s) >= Len(q)
    <3>1. Len(p) \in 1..Len(q)
      BY <1>4, <2>1
    <3> QED
      BY <1>6, <2>1, <3>1 DEF Below
  <2> QED
    BY <1>4, <2>1, <2>2, <2>3
<1>8. PICK g \in {NoShare} \cup DOMAIN t[s].shared : Members(t[s], g) # <<>>
  <2>1. NoShare \notin DOMAIN t[s].shared /\ \A g \in DOMAIN t[s].shared : t[s].shared[g] # <<>>
    BY <1>1 DEF Neat, Closed, Tidy
  <2> QED
    BY <1>6, <2>1 DEF IsEmptyNode, Members
<1>9. PICK l : l \in Range(Members(t[s], g))
  <2>1. Members(t[s], g) \in Seq(Leaf)
    <3>1. t[s] \in Node(Leaf)
      BY <1>1, TreesType
    <3>2. t[s].subs \in Seq(Leaf) /\ t[s].shared \in Shares(Leaf)
      BY <3>1 DEF Node
    <3>3. g # NoShare => t[s].shared[g] \in Seq(Leaf)
      BY <3>2 DEF Shares
    <3> QED
      BY <3>2, <3>3 DEF Members
  <2>2. Len(Members(t[s], g)) \in Nat \ {0}
    BY <1>8, <2>1, EmptySeq
  <2>3. 1 \in DOMAIN Members(t[s], g)
    BY <2>1, <2>2, LenProperties
  <2> QED
    BY <2>3 DEF Range
<1>10. PICK f \in Filters : SubRef(f) = [path |-> s, share |-> g]
  BY <1>9, LeafFiled
<1>11. SubRef(f).path = s
  BY <1>10
<1> QED
  BY <1>7, <1>11, HashEnds

LEMMA TopicLevels ==
    ASSUME NEW u \in TopicNames
    PROVE  IsName(u) /\ PubTopicCheck(u)
<1>1. u \in Seq(STRING) /\ PubTopicCheck(u)
  BY LevelAssumption, FilterAssumption, SMTT(30)
<1>2. STRING \subseteq Level
  BY DEF Level
<1>3. u \in Seq(Level)
  BY <1>1, <1>2, SeqMonotonic
<1>4. u # <<>>
  BY <1>1 DEF PubTopicCheck
<1>5. Len(u) \in Nat \ {0}
  BY <1>3, <1>4, EmptySeq
<1> QED
  BY <1>1, <1>3, <1>5 DEF IsName

\* The search finds the node of a filter exactly if the filter matches the topic.
LEMMA FoundMatches ==
    ASSUME Inv, NEW u \in TopicNames, u[1] # "$share", NEW f \in Filters, f[1] # "$share",
           SubRef(f).path \in DOMAIN db.subs
    PROVE  SubRef(f).path \in SubSearch(db.subs, u) <=> TopicMatchesSub(f, u)
<1> DEFINE t == db.subs
           F == Tokenise(f).topics
           T == Tokenise(u).topics
           q == SubRef(f).path
<1>1. t \in Trees(Leaf) /\ Neat(t)
  BY SettledAll, MemParts DEF Good, Filed
<1>2. Nodes(DOMAIN t) /\ <<>> \notin DOMAIN t
  BY <1>1, NeatNodes
<1>3. IsName(u) /\ PubTopicCheck(u)
  BY TopicLevels
<1>4. IsName(f) /\ q = Path(F) /\ q \in Seq(Level)
  BY Unshared, RefPlace DEF Place
<1>5. IsName(F)
  BY <1>4, TokensAre
<1>6. IsName(T)
  BY <1>3, TokensAre
<1>7. Len(q) = Len(F) + 1 /\ Len(F) \in Nat /\ Len(F) >= 1
  BY <1>4, <1>5, PathIs, LenProperties DEF IsName
<1>8. f[Len(f)] = "#" => Children(t, q) = {}
  <2> SUFFICES ASSUME f[Len(f)] = "#" PROVE Children(t, q) = {}
    OBVIOUS
  <2> DEFINE k == Shift(f)
  <2>1. Len(F) = Len(f) + k /\ (\A i \in 1..Len(f) : F[i + k] = f[i]) /\ \A i \in 1..Len(F) : q[i + 1] = F[i]
    BY <1>4, <1>5, TokensAre, PathIs, ZenonT(60)
  <2>2. Len(f) \in Nat /\ Len(f) >= 1
    BY <1>4, LenProperties DEF IsName
  <2> HIDE DEF k, F, q
  <2>3. F[Len(F)] = "#"
    BY <2>1, <2>2
  <2>4. q[Len(q)] = "#"
    BY <1>7, <2>1, <2>3
  <2> QED
    BY <2>4, HashAlone DEF q
<1> HIDE DEF t
<1>9. Hit(t, T, <<T[1]>>, q) <=> TopicMatchesSub(f, u)
  BY <1>3, <1>4, <1>8, HitMatches
<1>10. SubSearch(t, u) = IF <<T[1]>> \in DOMAIN t THEN {s \in DOMAIN t : Hit(t, T, <<T[1]>>, s)} ELSE {}
  BY <1>2, <1>6, SubSearchIs
<1>11. Hit(t, T, <<T[1]>>, q) => <<T[1]>> \in DOMAIN t
  <2> SUFFICES ASSUME Below(<<T[1]>>, q) PROVE <<T[1]>> \in DOMAIN t
    BY DEF Hit
  <2> DEFINE a == T[1]
             z == <<a>>
  <2>1. a \in Level
    <3>1. T \in Seq(Level) /\ 1 \in 1..Len(T)
      BY <1>6, LenProperties DEF IsName
    <3> QED
      BY <3>1, ElementOfSeq
  <2>2. z \in Seq(Level) /\ Len(z) = 1 /\ z[1] = a
    BY <2>1
  <2>3. q[1] = z[1]
    BY <2>2 DEF Below
  <2> DEFINE b == SubSeq(q, 1, 1)
  <2>4. b \in Seq(Level) /\ Len(b) = 1 /\ b[1] = q[1]
    <3> DEFINE n == 1
    <3>1. n \in 0..Len(q) /\ n \in Nat /\ n = 1
      BY <1>7
    <3> HIDE DEF n, q
    <3>2. SubSeq(q, 1, n) \in Seq(Level) /\ Len(SubSeq(q, 1, n)) = n /\ \A i \in 1..n : SubSeq(q, 1, n)[i] = q[i]
      BY <1>4, <3>1, Cut
    <3> QED
      BY <3>1, <3>2
  <2>5. b \in DOMAIN t
    <3>1. b \in PathPrefixes(q)
      <4>1. 1 \in 1..Len(q)
        BY <1>7
      <4> QED
        BY <4>1 DEF PathPrefixes
    <3> QED
      BY <1>2, <3>1 DEF Nodes, t
  <2> HIDE DEF b, z, q
  <2>6. b = z
    <3>1. \A i \in 1..Len(z) : i = 1
      BY <2>2
    <3>2. \A i \in 1..Len(z) : b[i] = z[i]
      BY <2>3, <2>4, <3>1
    <3> QED
      BY <2>2, <2>4, <3>2, SeqEqual
  <2> QED
    BY <2>5, <2>6 DEF z
<1> QED
  BY <1>9, <1>10, <1>11 DEF t

LEMMA InvRouted ==
    ASSUME \A t \in TopicNames : t[1] # "$share"
    PROVE  Inv => RoutedExactly
<1> SUFFICES ASSUME Inv, NEW u \in TopicNames, NEW source \in Clients \cup {NoId}
             PROVE  Subscribers(db.subs, u, source, IdOf(db), NoId) =
                        {i \in Clients : \E s \in SessionOf(i) :
                            /\ s \notin NoSession /\ ~IsShared(s)
                            /\ TopicMatchesSub(s.filter, u)
                            /\ ~(s.no_local /\ i = source)}
  BY DEF RoutedExactly
<1> DEFINE t == db.subs
           id == IdOf(db)
           Found == UNION {Range(t[p].subs) : p \in SubSearch(t, u)}
           Told == {l \in Found : id[l.context] # NoId /\ ~(l.no_local /\ id[l.context] = source)}
           Good1(i, s) == /\ s \notin NoSession /\ ~IsShared(s)
                          /\ TopicMatchesSub(s.filter, u)
                          /\ ~(s.no_local /\ i = source)
           at(f) == IF Refs[f].path \notin DOMAIN t THEN <<>> ELSE Members(t[Refs[f].path], Refs[f].share)
           Entry1(f, l) == [filter |-> f, no_local |-> l.no_local]
<1>0. /\ t \in Trees(Leaf) /\ Neat(t) /\ Named(db) /\ db.context \in [Conn -> Context]
      /\ db.by_id \in [Clients -> 0..MaxConn] /\ u[1] # "$share"
  BY SettledAll, MemParts DEF Good, Filed
<1>1. Subscribers(t, u, source, id, NoId) = {id[l.context] : l \in Told}
  BY DEF Subscribers
<1>2. \A c \in Conn : id[c] = db.context[c].id /\ id[c] \in Clients \cup {NoId}
  BY <1>0, ContextParts DEF IdOf
<1>3. \A f \in Filters : Refs[f] = SubRef(f)
  BY DEF Refs
<1>4. \A i \in Clients : db.by_id[i] # 0 =>
          SessionOf(i) = UNION {{Entry1(f, l) : l \in {m \in Range(at(f)) : db.context[m.context].id = i}} : f \in Filters}
  BY DEF SessionOf
<1>5. \A i \in Clients : db.by_id[i] = 0 => SessionOf(i) = NoSession
  BY DEF SessionOf
<1>6. SubSearch(t, u) \subseteq DOMAIN t
  <2> DEFINE T == Tokenise(u).topics
  <2>1. IsName(T)
    BY <1>0, TopicLevels, TokensAre
  <2>2. Nodes(DOMAIN t) /\ <<>> \notin DOMAIN t
    BY <1>0, NeatNodes
  <2> HIDE DEF T, t
  <2>3. SubSearch(t, u) = IF <<T[1]>> \in DOMAIN t THEN {s \in DOMAIN t : Hit(t, T, <<T[1]>>, s)} ELSE {}
    BY <2>1, <2>2, SubSearchIs DEF T
  <2> QED
    BY <2>3
<1>7. ASSUME NEW l \in Told PROVE id[l.context] \in Clients /\ \E s \in SessionOf(id[l.context]) : Good1(id[l.context], s)
  <2> DEFINE i == id[l.context]
  <2>1. PICK p \in DOMAIN t : p \in SubSearch(t, u) /\ l \in Range(t[p].subs)
    BY <1>6
  <2>2. Members(t[p], NoShare) = t[p].subs
    BY DEF Members
  <2>3. l \in Leaf /\ l.context \in Conn /\ \E f \in Filters : SubRef(f) = [path |-> p, share |-> NoShare]
    BY <2>1, <2>2, LeafFiled
  <2>4. PICK f \in Filters : SubRef(f) = [path |-> p, share |-> NoShare]
    BY <2>3
  <2>5. SubRef(f).path = p /\ SubRef(f).share = NoShare /\ f[1] # "$share"
    BY <2>4, Unshared
  <2>6. i \in Clients /\ db.context[l.context].id = i /\ ~(l.no_local /\ i = source)
    BY <1>2, <2>3
  <2>7. db.by_id[i] # 0
    <3>1. 0 \notin Conn /\ i # NoId
      BY <2>6, NeverAssumption, BoundAssumption DEF Conn
    <3> QED
      BY <1>0, <2>3, <2>6, <3>1 DEF Named
  <2>8. TopicMatchesSub(f, u)
    BY <1>0, <2>1, <2>5, FoundMatches
  <2> DEFINE s == Entry1(f, l)
  <2>9. l \in Range(at(f))
    BY <1>3, <2>1, <2>2, <2>5
  <2> HIDE DEF i, at, Told, t
  <2>10. s \in SessionOf(i)
    <3> DEFINE Mine(h) == {Entry1(h, k) : k \in {m \in Range(at(h)) : db.context[m.context].id = i}}
    <3>1. s \in Mine(f)
      BY <2>6, <2>9
    <3>2. SessionOf(i) = UNION {Mine(h) : h \in Filters}
      BY <1>4, <2>6, <2>7
    <3> HIDE DEF Mine, s
    <3> QED
      BY <3>1, <3>2
  <2>11. s \notin NoSession
    <3>1. f # <<"">>
      BY EmptyAssumption, Zenon
    <3>2. s.filter = f
      OBVIOUS
    <3> DEFINE e == <<"">>
    <3>3. NoSession = {[filter |-> e, no_local |-> FALSE]}
      BY DEF NoSession
    <3> HIDE DEF e, s
    <3>4. \A x \in NoSession : x.filter = e
      BY <3>3
    <3> QED
      BY <3>1, <3>2, <3>4, Zenon DEF e
  <2>12. ~IsShared(s) /\ s.filter = f /\ s.no_local = l.no_local
    BY <2>5 DEF IsShared
  <2> HIDE DEF s
  <2>13. Good1(i, s)
    BY <2>6, <2>8, <2>11, <2>12
  <2> QED
    BY <2>6, <2>10, <2>13 DEF i
<1>8. ASSUME NEW i \in Clients, NEW s \in SessionOf(i), Good1(i, s) PROVE \E l \in Told : id[l.context] = i
  <2>1. db.by_id[i] # 0
    BY <1>5, <1>8
  <2>2a. PICK f \in Filters : \E l \in Range(at(f)) : db.context[l.context].id = i /\ s = Entry1(f, l)
    <3> HIDE DEF at, Entry1
    <3> QED
      BY <1>4, <2>1
  <2>2. PICK l \in Range(at(f)) : db.context[l.context].id = i /\ s = Entry1(f, l)
    BY <2>2a
  <2>3. SubRef(f).path \in DOMAIN t /\ l \in Range(Members(t[SubRef(f).path], SubRef(f).share))
    BY <1>3, <2>2 DEF Range
  <2>4. s.filter = f /\ s.no_local = l.no_local
    BY <2>2
  <2>5. f[1] # "$share" /\ TopicMatchesSub(f, u)
    BY <1>8, <2>4 DEF IsShared
  <2>6. SubRef(f).share = NoShare
    BY <2>5, Unshared
  <2> DEFINE p == SubRef(f).path
  <2>7. l \in Range(t[p].subs)
    BY <2>3, <2>6 DEF Members
  <2>8. p \in SubSearch(t, u)
    BY <1>0, <2>3, <2>5, FoundMatches
  <2>9. l \in Found
    <3> HIDE DEF p, t
    <3> QED
      BY <2>7, <2>8
  <2>10. l.context \in Conn
    <3>1. l \in Range(Members(t[p], NoShare))
      BY <2>7 DEF Members
    <3> QED
      BY <2>3, <3>1, LeafFiled
  <2>11. id[l.context] = i /\ i # NoId
    BY <1>2, <2>2, <2>10, NeverAssumption
  <2>12. ~(l.no_local /\ i = source)
    BY <1>8, <2>4
  <2> HIDE DEF Found, id
  <2> QED
    BY <2>9, <2>11, <2>12
<1> HIDE DEF Told, t, id, Good1
<1>9. {id[l.context] : l \in Told} = {i \in Clients : \E s \in SessionOf(i) : Good1(i, s)}
  BY <1>7, <1>8
<1> QED
  BY <1>1, <1>9 DEF Good1, t, id

(* The search of the tree sends a publication to the clients with a        *)
(* subscription that mosquitto_topic_matches_sub says it matches, and to   *)
(* no others, over takeovers, unsubscriptions, expiry and restarts.  The   *)
(* topics are not below "$share": sub__topic_tokenise would take such a    *)
(* name for a shared subscription.                                         *)
THEOREM SessionsRoutedExactly ==
    ASSUME \A t \in TopicNames : t[1] # "$share"
    PROVE  Spec => []RoutedExactly
BY SessionsInvariant, InvRouted, PTL
============================================================================
