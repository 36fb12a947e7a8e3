------------------------- MODULE MessageStoreProofs -------------------------
(***************************************************************************)
(* Proofs about MessageStore: the count of a message is the number of the  *)
(* references to it, a client of MQTT 3 is given a message once, a restart *)
(* gives back what lasts, and a subscription finds the retained messages   *)
(* its filter matches.                                                     *)
(*                                                                         *)
(* A reference is a record that says where it is and where it leads.  A    *)
(* helper of the broker adds one to the set of all references or takes one *)
(* away, and the count with it; in the middle of an operation the set is   *)
(* not yet, or no longer, what the lists hold, and a guard stands for the  *)
(* reference by which sub__messages_queue protects its message.            *)
(*                                                                         *)
(* A list of the file is a selection from a list of the broker, and a list *)
(* after the restart one from a list of the file: Picks says which ids are *)
(* selected, and there is one list of which it is true.                    *)
(***************************************************************************)
EXTENDS MessageStore, SubscriptionTreeProofs

Message == [topic : TopicNames, payload : BOOLEAN, retain : BOOLEAN, expiry : Nat,
            ref_count : Nat, dest_ids : SUBSET Clients]
Stores == UNION {[D -> Message] : D \in SUBSET Nat}
Entry == [id : Nat, retain : BOOLEAN]
Rooted == {P \in SUBSET Seq(Level) : Nodes(P) /\ <<>> \notin P}
Retains == UNION {[P -> Nat] : P \in Rooted}

Mem == [store : Stores, msgs_in : [Clients -> SUBSET Nat], msgs_out : [Clients -> Seq(Entry)],
        retains : Retains, last_db_id : Nat]

\* The references: from a node, from the incoming and the outgoing messages of a
\* client, and from the function that is at work.
RetainRef(p, id) == [kind |-> "retain", at |-> p, pos |-> 0, to |-> id]
InRef(c, id)     == [kind |-> "in", at |-> c, pos |-> 0, to |-> id]
OutRef(c, n, id) == [kind |-> "out", at |-> c, pos |-> n, to |-> id]
Guard(id)        == [kind |-> "guard", at |-> 0, pos |-> 0, to |-> id]

RetainRefs(d) == {RetainRef(p, d.retains[p]) : p \in RetainedNodes(d)}
InRefs(d) == {r \in [kind : {"in"}, at : Clients, pos : {0}, to : Nat] : r.to \in d.msgs_in[r.at]}
OutRefs(d) == {r \in [kind : {"out"}, at : Clients, pos : Nat, to : Nat] :
                  r.pos \in DOMAIN d.msgs_out[r.at] /\ d.msgs_out[r.at][r.pos].id = r.to}
AllRefs(d) == RetainRefs(d) \cup InRefs(d) \cup OutRefs(d)

\* The counts are those of the references of R.
Balanced(store, R) ==
    /\ IsFiniteSet(R)
    /\ \A r \in R : r.to \in DOMAIN store
    /\ \A id \in DOMAIN store : store[id].ref_count = Cardinality({r \in R : r.to = id})

\* A retained message has a payload and is at the node of its topic.
AtNodes(d) ==
    \A p \in RetainedNodes(d) :
        d.retains[p] \in DOMAIN d.store =>
            NodeOf[d.store[d.retains[p]].topic] = p /\ d.store[d.retains[p]].payload

Sound(d, R) ==
    /\ d \in Mem /\ DOMAIN d.store \subseteq 1..d.last_db_id
    /\ Balanced(d.store, R) /\ AtNodes(d)

\* What a reference more or less makes of the store.
CountUp(s, id) == [s EXCEPT ![id].ref_count = @ + 1]
CountDown(s, id) == IF s[id].ref_count = 1 THEN [i \in DOMAIN s \ {id} |-> s[i]]
                    ELSE [s EXCEPT ![id].ref_count = @ - 1]

\* The messages without a reference.
Unused(store) == {id \in DOMAIN store : store[id].ref_count = 0}

\* The messages of t are messages of s.
Same(s, t) ==
    /\ DOMAIN t \subseteq DOMAIN s
    /\ \A i \in DOMAIN t : /\ t[i].topic = s[i].topic /\ t[i].payload = s[i].payload
                           /\ t[i].retain = s[i].retain /\ t[i].expiry = s[i].expiry

\* Nothing but the store changes from d to e.
OnlyStore(d, e) ==
    /\ e.msgs_in = d.msgs_in /\ e.msgs_out = d.msgs_out /\ e.retains = d.retains
    /\ e.last_db_id = d.last_db_id

\* e is d with one reference more to this message, or one less.
CountedUp(d, e, id) ==
    /\ OnlyStore(d, e) /\ Same(d.store, e.store)
    /\ DOMAIN e.store = DOMAIN d.store /\ Unused(e.store) = Unused(d.store) \ {id}
    /\ \A i \in DOMAIN e.store : e.store[i].dest_ids = d.store[i].dest_ids
CountedDown(d, e, id) ==
    /\ OnlyStore(d, e) /\ Same(d.store, e.store)
    /\ id \in DOMAIN d.store /\ \A i \in DOMAIN d.store : i # id => i \in DOMAIN e.store
    /\ Unused(e.store) \subseteq Unused(d.store) \ {id}
    /\ \A i \in DOMAIN e.store : e.store[i].dest_ids = d.store[i].dest_ids
----------------------------------------------------------------------------
(* Counting.                                                               *)

LEMMA StoreParts ==
    ASSUME NEW s
    PROVE  s \in Stores <=> s \in [DOMAIN s -> Message] /\ DOMAIN s \subseteq Nat
<1>1. ASSUME s \in Stores PROVE s \in [DOMAIN s -> Message] /\ DOMAIN s \subseteq Nat
  <2>1. PICK D \in SUBSET Nat : s \in [D -> Message]
    BY <1>1 DEF Stores
  <2> QED
    BY <2>1
<1>2. ASSUME s \in [DOMAIN s -> Message], DOMAIN s \subseteq Nat PROVE s \in Stores
  BY <1>2 DEF Stores
<1> QED
  BY <1>1, <1>2

LEMMA RetainsParts ==
    ASSUME NEW s
    PROVE  s \in Retains <=> s \in [DOMAIN s -> Nat] /\ DOMAIN s \in Rooted
<1>1. ASSUME s \in Retains PROVE s \in [DOMAIN s -> Nat] /\ DOMAIN s \in Rooted
  <2>1. PICK D \in Rooted : s \in [D -> Nat]
    BY <1>1 DEF Retains
  <2> QED
    BY <2>1
<1>2. ASSUME s \in [DOMAIN s -> Nat], DOMAIN s \in Rooted PROVE s \in Retains
  BY <1>2 DEF Retains
<1> QED
  BY <1>1, <1>2

LEMMA MemParts ==
    ASSUME NEW d \in Mem
    PROVE  /\ d.store \in Stores /\ d.msgs_in \in [Clients -> SUBSET Nat]
           /\ d.msgs_out \in [Clients -> Seq(Entry)] /\ d.retains \in Retains
           /\ d.last_db_id \in Nat
           /\ d.store \in [DOMAIN d.store -> Message] /\ DOMAIN d.store \subseteq Nat
           /\ d.retains \in [DOMAIN d.retains -> Nat] /\ DOMAIN d.retains \subseteq Seq(Level)
           /\ DOMAIN d.retains \in Rooted
<1>1. /\ d.store \in Stores /\ d.msgs_in \in [Clients -> SUBSET Nat]
      /\ d.msgs_out \in [Clients -> Seq(Entry)] /\ d.retains \in Retains
      /\ d.last_db_id \in Nat
  BY DEF Mem
<1> QED
  BY <1>1, StoreParts, RetainsParts DEF Rooted

\* retain__store and the nodes of one more topic.
LEMMA RootedMore ==
    ASSUME NEW D \in Rooted, NEW p \in Seq(Level)
    PROVE  D \cup PathPrefixes(p) \in Rooted
<1>1. PathPrefixes(p) \subseteq Seq(Level) /\ <<>> \notin PathPrefixes(p) /\ IsFiniteSet(PathPrefixes(p))
  BY PrefixTypes, PrefixFinite
<1>2. D \subseteq Seq(Level) /\ <<>> \notin D /\ IsFiniteSet(D) /\ \A q \in D : PathPrefixes(q) \subseteq D
  BY DEF Rooted, Nodes
<1>3. \A q \in PathPrefixes(p) : PathPrefixes(q) \subseteq PathPrefixes(p)
  BY PrefixOfPrefix
<1>4. IsFiniteSet(D \cup PathPrefixes(p))
  BY <1>1, <1>2, FS_Union
<1> QED
  BY <1>1, <1>2, <1>3, <1>4 DEF Rooted, Nodes

LEMMA BalancedMore ==
    ASSUME NEW s \in Stores, NEW R, Balanced(s, R), NEW id \in DOMAIN s, NEW x, x \notin R, x.to = id
    PROVE  LET t == CountUp(s, id)
           IN  /\ t \in Stores /\ Balanced(t, R \cup {x}) /\ DOMAIN t = DOMAIN s /\ Same(s, t)
               /\ Unused(t) = Unused(s) \ {id}
               /\ \A i \in DOMAIN t : t[i].dest_ids = s[i].dest_ids
<1> DEFINE t == CountUp(s, id)
           Of(i) == {r \in R : r.to = i}
           Of2(i) == {r \in R \cup {x} : r.to = i}
<1>1. s \in [DOMAIN s -> Message] /\ DOMAIN s \subseteq Nat
  BY StoreParts
<1>2. t \in [DOMAIN s -> Message] /\ DOMAIN t = DOMAIN s
  BY <1>1 DEF Message, CountUp
<1>3. \A i \in DOMAIN s : t[i].ref_count = s[i].ref_count + (IF i = id THEN 1 ELSE 0)
  BY <1>1 DEF Message, CountUp
<1>4. /\ \A i \in DOMAIN s : /\ t[i].topic = s[i].topic /\ t[i].payload = s[i].payload
                             /\ t[i].retain = s[i].retain /\ t[i].expiry = s[i].expiry
      /\ \A i \in DOMAIN t : t[i].dest_ids = s[i].dest_ids
  BY <1>1 DEF Message, CountUp
<1>5. \A i \in DOMAIN s : s[i].ref_count \in Nat
  BY <1>1 DEF Message
<1> HIDE DEF t
<1>6. IsFiniteSet(R) /\ IsFiniteSet(R \cup {x})
  BY FS_AddElement DEF Balanced
<1>7. \A i : IsFiniteSet(Of(i))
  BY <1>6, FS_Subset
<1>8. ASSUME NEW i \in DOMAIN s PROVE Cardinality(Of2(i)) = Cardinality(Of(i)) + (IF i = id THEN 1 ELSE 0)
  <2>1. CASE i = id
    <3>1. Of2(i) = Of(i) \cup {x} /\ x \notin Of(i)
      BY <2>1
    <3> HIDE DEF Of, Of2
    <3>2. Cardinality(Of(i) \cup {x}) = Cardinality(Of(i)) + 1
      BY <1>7, <3>1, FS_AddElement
    <3> QED
      BY <2>1, <3>1, <3>2
  <2>2. CASE i # id
    <3>1. Of2(i) = Of(i)
      BY <2>2
    <3>2. Cardinality(Of(i)) \in Nat
      BY <1>7, FS_CardinalityType
    <3> HIDE DEF Of, Of2
    <3> QED
      BY <2>2, <3>1, <3>2
  <2> QED
    BY <2>1, <2>2
<1>9. \A i \in DOMAIN s : s[i].ref_count = Cardinality(Of(i))
  BY DEF Balanced
<1>10. Balanced(t, R \cup {x})
  <2>1. \A r \in R \cup {x} : r.to \in DOMAIN t
    BY <1>2 DEF Balanced
  <2>2. \A i \in DOMAIN t : t[i].ref_count = Cardinality(Of2(i))
    <3> HIDE DEF Of, Of2
    <3> QED
      BY <1>2, <1>3, <1>8, <1>9
  <2> QED
    BY <1>6, <2>1, <2>2 DEF Balanced
<1>11. Unused(t) = Unused(s) \ {id}
  BY <1>2, <1>3, <1>5 DEF Unused
<1>12. t \in Stores
  BY <1>1, <1>2, StoreParts
<1> QED
  BY <1>2, <1>4, <1>10, <1>11, <1>12 DEF t, Same

LEMMA BalancedLess ==
    ASSUME NEW s \in Stores, NEW R, Balanced(s, R), NEW id, NEW x \in R, x.to = id
    PROVE  LET t == CountDown(s, id)
           IN  /\ id \in DOMAIN s /\ t \in Stores /\ Balanced(t, R \ {x}) /\ Same(s, t)
               /\ DOMAIN t \subseteq DOMAIN s /\ \A i \in DOMAIN s : i # id => i \in DOMAIN t
               /\ Unused(t) \subseteq Unused(s) \ {id}
               /\ \A i \in DOMAIN t : t[i].dest_ids = s[i].dest_ids
<1> DEFINE t == CountDown(s, id)
           Of(i) == {r \in R : r.to = i}
           Of2(i) == {r \in R \ {x} : r.to = i}
<1>1. s \in [DOMAIN s -> Message] /\ DOMAIN s \subseteq Nat /\ id \in DOMAIN s
  BY StoreParts DEF Balanced
<1>2. \A i \in DOMAIN s : s[i].ref_count \in Nat
  BY <1>1 DEF Message
<1>3. IsFiniteSet(R) /\ IsFiniteSet(R \ {x})
  BY FS_RemoveElement DEF Balanced
<1>4. \A i : IsFiniteSet(Of(i))
  BY <1>3, FS_Subset
<1>5. \A i \in DOMAIN s : s[i].ref_count = Cardinality(Of(i))
  BY DEF Balanced
<1>6. x \in Of(id)
  OBVIOUS
<1>7. Cardinality(Of2(id)) = Cardinality(Of(id)) - 1 /\ IsFiniteSet(Of2(id))
  <2>1. Of2(id) = Of(id) \ {x}
    OBVIOUS
  <2> HIDE DEF Of, Of2
  <2> QED
    BY <1>4, <1>6, <2>1, FS_RemoveElement
<1>8. \A i : i # id => Of2(i) = Of(i)
  OBVIOUS
<1>9. s[id].ref_count > 0
  <2>1. Cardinality(Of(id)) # 0
    <3> HIDE DEF Of
    <3> QED
      BY <1>4, <1>6, FS_EmptySet
  <2> QED
    BY <1>1, <1>2, <1>5, <2>1
<1>10. CASE s[id].ref_count = 1
  <2>1. t = [i \in DOMAIN s \ {id} |-> s[i]]
    BY <1>10 DEF CountDown
  <2>2. DOMAIN t = DOMAIN s \ {id} /\ \A i \in DOMAIN t : t[i] = s[i]
    BY <2>1
  <2>3. t \in [DOMAIN t -> Message]
    BY <1>1, <2>1
  <2>4. Of2(id) = {}
    <3>1. Cardinality(Of2(id)) = 0
      BY <1>1, <1>5, <1>7, <1>10
    <3> HIDE DEF Of2
    <3> QED
      BY <1>7, <3>1, FS_EmptySet
  <2> HIDE DEF t
  <2>5. Balanced(t, R \ {x})
    <3>1. \A r \in R \ {x} : r.to \in DOMAIN t
      BY <2>2, <2>4 DEF Balanced
    <3>2. \A i \in DOMAIN t : t[i].ref_count = Cardinality(Of2(i))
      BY <1>5, <1>8, <2>2
    <3> QED
      BY <1>3, <3>1, <3>2 DEF Balanced
  <2>6. t \in Stores
    BY <1>1, <2>2, <2>3, StoreParts
  <2>7. Same(s, t) /\ Unused(t) \subseteq Unused(s) \ {id}
    BY <2>2 DEF Same, Unused
  <2> QED
    BY <1>1, <2>2, <2>5, <2>6, <2>7 DEF t
<1>11. CASE s[id].ref_count # 1
  <2>1. t = [s EXCEPT ![id].ref_count = @ - 1]
    BY <1>11 DEF CountDown
  <2>2. DOMAIN t = DOMAIN s /\ \A i \in DOMAIN s : i # id => t[i] = s[i]
    BY <1>1, <2>1
  <2>3. t[id] = [s[id] EXCEPT !.ref_count = @ - 1] /\ s[id] \in Message
    BY <1>1, <2>1
  <2>4. s[id].ref_count - 1 \in Nat /\ s[id].ref_count - 1 # 0
    BY <1>1, <1>2, <1>9, <1>11
  <2>5. /\ t[id] \in Message /\ t[id].ref_count = s[id].ref_count - 1 /\ t[id].topic = s[id].topic
        /\ t[id].payload = s[id].payload /\ t[id].retain = s[id].retain
        /\ t[id].expiry = s[id].expiry /\ t[id].dest_ids = s[id].dest_ids
    BY <2>3, <2>4 DEF Message
  <2>6. t \in [DOMAIN t -> Message]
    <3>1. \A i \in DOMAIN s : t[i] \in Message
      BY <1>1, <2>2, <2>5
    <3>2. t = [i \in DOMAIN t |-> t[i]]
      BY <1>1, <2>1
    <3> HIDE DEF t
    <3> QED
      BY <2>2, <3>1, <3>2
  <2> HIDE DEF t
  <2>7. Balanced(t, R \ {x})
    <3>1. \A r \in R \ {x} : r.to \in DOMAIN t
      BY <2>2 DEF Balanced
    <3>2. ASSUME NEW i \in DOMAIN t PROVE t[i].ref_count = Cardinality(Of2(i))
      <4>1. CASE i = id
        BY <1>1, <1>5, <1>7, <2>5, <4>1
      <4>2. CASE i # id
        BY <1>5, <1>8, <2>2, <4>2
      <4> QED
        BY <4>1, <4>2
    <3> QED
      BY <1>3, <3>1, <3>2 DEF Balanced
  <2>8. t \in Stores
    BY <1>1, <2>2, <2>6, StoreParts
  <2>9. Same(s, t) /\ Unused(t) \subseteq Unused(s) \ {id}
    BY <2>2, <2>4, <2>5 DEF Same, Unused
  <2> QED
    BY <1>1, <2>2, <2>5, <2>7, <2>8, <2>9 DEF t
<1> QED
  BY <1>10, <1>11

LEMMA AtNodesStill ==
    ASSUME NEW d, NEW e, AtNodes(d), e.retains = d.retains, Same(d.store, e.store)
    PROVE  AtNodes(e)
BY DEF AtNodes, RetainedNodes, Same

LEMMA SameMore ==
    ASSUME NEW s, NEW t, NEW u, Same(s, t), Same(t, u)
    PROVE  Same(s, u)
BY DEF Same

\* db__msg_store_ref_inc for the reference x.
LEMMA RefIncSound ==
    ASSUME NEW d, NEW R, Sound(d, R), NEW id \in DOMAIN d.store, NEW x, x \notin R, x.to = id
    PROVE  Sound(RefInc(d, id), R \cup {x}) /\ CountedUp(d, RefInc(d, id), id)
<1> DEFINE s == d.store
           t == CountUp(s, id)
           e == RefInc(d, id)
<1>1. d \in Mem /\ s \in Stores /\ Balanced(s, R) /\ AtNodes(d) /\ DOMAIN s \subseteq 1..d.last_db_id
  BY MemParts DEF Sound
<1>2. e = [d EXCEPT !.store = t]
  BY <1>1 DEF RefInc, Mem, CountUp
<1>3. e.store = t /\ OnlyStore(d, e)
  BY <1>1, <1>2 DEF Mem, OnlyStore
<1>4. /\ t \in Stores /\ Balanced(t, R \cup {x}) /\ DOMAIN t = DOMAIN s /\ Same(s, t)
      /\ Unused(t) = Unused(s) \ {id}
      /\ \A i \in DOMAIN t : t[i].dest_ids = s[i].dest_ids
  BY <1>1, BalancedMore, ZenonT(60)
<1>5. e \in Mem
  BY <1>1, <1>2, <1>4 DEF Mem
<1> HIDE DEF t, e
<1>6. AtNodes(e)
  BY <1>1, <1>3, <1>4, AtNodesStill DEF OnlyStore
<1>7. Sound(e, R \cup {x})
  BY <1>1, <1>3, <1>4, <1>5, <1>6 DEF Sound, OnlyStore
<1> QED
  BY <1>3, <1>4, <1>7 DEF e, CountedUp

\* db__msg_store_ref_dec for the reference x.
LEMMA RefDecSound ==
    ASSUME NEW d, NEW R, Sound(d, R), NEW x \in R, NEW id, id = x.to
    PROVE  Sound(RefDec(d, id), R \ {x}) /\ CountedDown(d, RefDec(d, id), id)
<1> DEFINE s == d.store
           t == CountDown(s, id)
           e == RefDec(d, id)
<1>1. d \in Mem /\ s \in Stores /\ Balanced(s, R) /\ AtNodes(d) /\ DOMAIN s \subseteq 1..d.last_db_id
  BY MemParts DEF Sound
<1>2. e = [d EXCEPT !.store = t]
  BY <1>1 DEF RefDec, Mem, CountDown
<1>3. e.store = t /\ OnlyStore(d, e)
  BY <1>1, <1>2 DEF Mem, OnlyStore
<1>4. /\ id \in DOMAIN s /\ t \in Stores /\ Balanced(t, R \ {x}) /\ Same(s, t)
      /\ DOMAIN t \subseteq DOMAIN s /\ \A i \in DOMAIN s : i # id => i \in DOMAIN t
      /\ Unused(t) \subseteq Unused(s) \ {id}
      /\ \A i \in DOMAIN t : t[i].dest_ids = s[i].dest_ids
  BY <1>1, BalancedLess, ZenonT(60)
<1>5. e \in Mem
  BY <1>1, <1>2, <1>4 DEF Mem
<1> HIDE DEF t, e
<1>6. AtNodes(e)
  BY <1>1, <1>3, <1>4, AtNodesStill DEF OnlyStore
<1>7. Sound(e, R \ {x})
  BY <1>1, <1>3, <1>4, <1>5, <1>6 DEF Sound, OnlyStore
<1> QED
  BY <1>3, <1>4, <1>7 DEF e, CountedDown

\* A list or a node that is set leaves the store as it is.
LEMMA StillSound ==
    ASSUME NEW d, NEW e, NEW R, Sound(d, R), e \in Mem, e.store = d.store,
           e.last_db_id = d.last_db_id, AtNodes(e)
    PROVE  Sound(e, R)
BY DEF Sound
----------------------------------------------------------------------------
(* The references of the lists and of the nodes.                           *)

LEMMA RetainRefsAre ==
    ASSUME NEW d, NEW r
    PROVE  r \in RetainRefs(d) <=> \E p \in RetainedNodes(d) : r = RetainRef(p, d.retains[p])
BY DEF RetainRefs

IsIn(d, r) == \E c \in Clients : \E id \in d.msgs_in[c] : r = InRef(c, id)

LEMMA InRefsAre ==
    ASSUME NEW d \in Mem, NEW r
    PROVE  r \in InRefs(d) <=> IsIn(d, r)
<1>1. d.msgs_in \in [Clients -> SUBSET Nat]
  BY MemParts
<1> QED
  BY <1>1 DEF InRefs, InRef, IsIn

LEMMA EntryParts ==
    ASSUME NEW d \in Mem, NEW c \in Clients
    PROVE  /\ d.msgs_out[c] \in Seq(Entry) /\ Len(d.msgs_out[c]) \in Nat
           /\ DOMAIN d.msgs_out[c] = 1..Len(d.msgs_out[c])
           /\ \A n \in DOMAIN d.msgs_out[c] : /\ n \in Nat /\ d.msgs_out[c][n] \in Entry
                                              /\ d.msgs_out[c][n].id \in Nat
                                              /\ d.msgs_out[c][n].retain \in BOOLEAN
<1>1. d.msgs_out[c] \in Seq(Entry)
  BY MemParts
<1>2. Len(d.msgs_out[c]) \in Nat /\ DOMAIN d.msgs_out[c] = 1..Len(d.msgs_out[c])
  BY <1>1, LenProperties
<1>3. \A n \in 1..Len(d.msgs_out[c]) : d.msgs_out[c][n] \in Entry
  BY <1>1, ElementOfSeq
<1> QED
  BY <1>1, <1>2, <1>3 DEF Entry

IsOut(d, r) == \E c \in Clients : \E n \in DOMAIN d.msgs_out[c] : r = OutRef(c, n, d.msgs_out[c][n].id)

LEMMA OutRefsAre ==
    ASSUME NEW d \in Mem, NEW r
    PROVE  r \in OutRefs(d) <=> IsOut(d, r)
<1>1. ASSUME NEW c \in Clients, NEW n \in DOMAIN d.msgs_out[c] PROVE n \in Nat /\ d.msgs_out[c][n].id \in Nat
  BY EntryParts
<1> QED
  BY <1>1 DEF OutRefs, OutRef, IsOut

LEMMA RefsDiffer ==
    /\ \A p, c, i, j : RetainRef(p, i) # InRef(c, j)
    /\ \A p, c, n, i, j : RetainRef(p, i) # OutRef(c, n, j) /\ InRef(p, i) # OutRef(c, n, j)
    /\ \A p, n, i, j : RetainRef(p, i) # Guard(j) /\ InRef(p, i) # Guard(j) /\ OutRef(p, n, i) # Guard(j)
    /\ \A p, q, i, j : RetainRef(p, i) = RetainRef(q, j) <=> p = q /\ i = j
    /\ \A p, q, i, j : InRef(p, i) = InRef(q, j) <=> p = q /\ i = j
    /\ \A p, q, m, n, i, j : OutRef(p, m, i) = OutRef(q, n, j) <=> p = q /\ m = n /\ i = j
    /\ \A p, m, i : RetainRef(p, i).to = i /\ InRef(p, i).to = i /\ OutRef(p, m, i).to = i /\ Guard(i).to = i
<1>1. "retain" # "in" /\ "retain" # "out" /\ "in" # "out" /\ "retain" # "guard" /\ "in" # "guard" /\ "out" # "guard"
  OBVIOUS
<1> QED
  BY <1>1 DEF RetainRef, InRef, OutRef, Guard

\* Where the references come from alone decides what they are.
LEMMA SameRefs ==
    ASSUME NEW d, NEW e, OnlyStore(d, e)
    PROVE  AllRefs(e) = AllRefs(d)
BY DEF OnlyStore, AllRefs, RetainRefs, RetainedNodes, InRefs, OutRefs

LEMMA OutMember ==
    ASSUME NEW d \in Mem, NEW c \in Clients, NEW n, NEW i
    PROVE  OutRef(c, n, i) \in AllRefs(d) <=> n \in DOMAIN d.msgs_out[c] /\ i = d.msgs_out[c][n].id
<1>1. OutRef(c, n, i) \notin RetainRefs(d) /\ OutRef(c, n, i) \notin InRefs(d)
  <2>1. OutRef(c, n, i).kind = "out"
    BY DEF OutRef
  <2> QED
    BY <2>1 DEF RetainRefs, RetainRef, InRefs
<1>2. OutRef(c, n, i) \in OutRefs(d) <=> n \in DOMAIN d.msgs_out[c] /\ i = d.msgs_out[c][n].id
  BY OutRefsAre, RefsDiffer DEF IsOut
<1> QED
  BY <1>1, <1>2 DEF AllRefs

LEMMA InMember ==
    ASSUME NEW d \in Mem, NEW c \in Clients, NEW i
    PROVE  InRef(c, i) \in AllRefs(d) <=> i \in d.msgs_in[c]
<1>1. InRef(c, i) \notin RetainRefs(d) /\ InRef(c, i) \notin OutRefs(d)
  BY RetainRefsAre, OutRefsAre, RefsDiffer DEF IsOut
<1>2. InRef(c, i) \in InRefs(d) <=> i \in d.msgs_in[c]
  BY InRefsAre, RefsDiffer DEF IsIn
<1> QED
  BY <1>1, <1>2 DEF AllRefs

LEMMA RetainMember ==
    ASSUME NEW d \in Mem, NEW p, NEW i
    PROVE  RetainRef(p, i) \in AllRefs(d) <=> p \in RetainedNodes(d) /\ i = d.retains[p]
<1>1. RetainRef(p, i) \notin InRefs(d) /\ RetainRef(p, i) \notin OutRefs(d)
  <2>1. RetainRef(p, i).kind = "retain"
    BY DEF RetainRef
  <2> QED
    BY <2>1 DEF InRefs, OutRefs
<1>2. RetainRef(p, i) \in RetainRefs(d) <=> p \in RetainedNodes(d) /\ i = d.retains[p]
  BY RetainRefsAre, RefsDiffer
<1> QED
  BY <1>1, <1>2 DEF AllRefs

LEMMA GuardApart ==
    ASSUME NEW d, NEW i
    PROVE  Guard(i) \notin AllRefs(d)
<1>1. Guard(i) \notin InRefs(d) /\ Guard(i) \notin OutRefs(d)
  <2>1. Guard(i).kind = "guard"
    BY DEF Guard
  <2> QED
    BY <2>1 DEF InRefs, OutRefs
<1>2. Guard(i) \notin RetainRefs(d)
  BY RetainRefsAre, RefsDiffer
<1> QED
  BY <1>1, <1>2 DEF AllRefs

\* A message put at the end of a list.
LEMMA AppendRefs ==
    ASSUME NEW d \in Mem, NEW e \in Mem, NEW c \in Clients, NEW m \in Entry,
           e.retains = d.retains, e.msgs_in = d.msgs_in,
           e.msgs_out = [d.msgs_out EXCEPT ![c] = Append(@, m)]
    PROVE  LET x == OutRef(c, Len(d.msgs_out[c]) + 1, m.id)
           IN  AllRefs(e) = AllRefs(d) \cup {x} /\ x \notin AllRefs(d)
<1> DEFINE x == OutRef(c, Len(d.msgs_out[c]) + 1, m.id)
           s == d.msgs_out[c]
           t == e.msgs_out[c]
<1>1. s \in Seq(Entry) /\ d.msgs_out \in [Clients -> Seq(Entry)]
  BY MemParts
<1>2. t = Append(s, m) /\ \A b \in Clients : b # c => e.msgs_out[b] = d.msgs_out[b]
  BY <1>1
<1>3. /\ DOMAIN s = 1..Len(s) /\ Len(s) \in Nat /\ DOMAIN t = 1..(Len(s) + 1)
      /\ (\A n \in 1..Len(s) : t[n] = s[n]) /\ t[Len(s) + 1] = m
  BY <1>1, <1>2, LenProperties, AppendProperties
<1> HIDE DEF s, t
<1>4. x \notin AllRefs(d)
  <2>1. Len(s) + 1 \notin DOMAIN s
    BY <1>3
  <2> QED
    BY <2>1, OutMember DEF s
<1>5. RetainRefs(e) = RetainRefs(d) /\ InRefs(e) = InRefs(d)
  BY DEF RetainRefs, InRefs, RetainedNodes
<1>6. ASSUME NEW r PROVE r \in OutRefs(e) <=> r \in OutRefs(d) \cup {x}
  <2>1. ASSUME r \in OutRefs(e) PROVE r \in OutRefs(d) \cup {x}
    <3>0. PICK b \in Clients : \E n \in DOMAIN e.msgs_out[b] : r = OutRef(b, n, e.msgs_out[b][n].id)
      <4>1. IsOut(e, r)
        BY <2>1, OutRefsAre
      <4> QED
        BY <4>1 DEF IsOut
    <3>1. PICK n \in DOMAIN e.msgs_out[b] : r = OutRef(b, n, e.msgs_out[b][n].id)
      BY <3>0
    <3>2. CASE b # c
      BY <1>2, <3>1, <3>2, OutRefsAre DEF IsOut
    <3>3. CASE b = c /\ n = Len(s) + 1
      BY <1>3, <3>1, <3>3 DEF s, t
    <3>4. CASE b = c /\ n # Len(s) + 1
      <4>1. n \in 1..Len(s) /\ e.msgs_out[b][n] = d.msgs_out[b][n] /\ n \in DOMAIN d.msgs_out[b]
        BY <1>3, <3>4 DEF s, t
      <4> QED
        BY <3>1, <4>1, OutRefsAre DEF IsOut
    <3> QED
      BY <3>2, <3>3, <3>4
  <2>2. ASSUME r \in OutRefs(d) PROVE r \in OutRefs(e)
    <3>0. PICK b \in Clients : \E n \in DOMAIN d.msgs_out[b] : r = OutRef(b, n, d.msgs_out[b][n].id)
      BY <2>2, OutRefsAre DEF IsOut
    <3>1. PICK n \in DOMAIN d.msgs_out[b] : r = OutRef(b, n, d.msgs_out[b][n].id)
      BY <3>0
    <3>2. n \in DOMAIN e.msgs_out[b] /\ e.msgs_out[b][n] = d.msgs_out[b][n]
      <4>1. CASE b # c
        BY <1>2, <3>1, <4>1
      <4>2. CASE b = c
        BY <1>3, <3>1, <4>2 DEF s, t
      <4> QED
        BY <4>1, <4>2
    <3> QED
      BY <3>1, <3>2, OutRefsAre DEF IsOut
  <2>3. x \in OutRefs(e)
    <3>1. Len(s) + 1 \in DOMAIN e.msgs_out[c] /\ x = OutRef(c, Len(s) + 1, e.msgs_out[c][Len(s) + 1].id)
      BY <1>3 DEF s, t
    <3> QED
      BY <3>1, OutRefsAre DEF IsOut
  <2> QED
    BY <2>1, <2>2, <2>3
<1>7. OutRefs(e) = OutRefs(d) \cup {x}
  BY <1>6
<1> QED
  BY <1>4, <1>5, <1>7 DEF AllRefs

\* The guards of the function at work.
Guards(X) == \A x \in X : \E i \in Nat : x = Guard(i)

\* What db__message_insert does to the lists.
Inserted(d, e, c, m) ==
    /\ e.msgs_in = d.msgs_in /\ e.retains = d.retains /\ e.last_db_id = d.last_db_id
    /\ Same(d.store, e.store) /\ DOMAIN e.store = DOMAIN d.store /\ Unused(e.store) \subseteq Unused(d.store)
    /\ \/ e = d /\ c \notin V5 /\ ~m.retain /\ c \in d.store[m.id].dest_ids
       \/ /\ e.msgs_out = [d.msgs_out EXCEPT ![c] = Append(@, m)]
          /\ c \in V5 \/ m.retain \/ c \notin d.store[m.id].dest_ids
          /\ e.store[m.id].dest_ids = IF m.retain THEN d.store[m.id].dest_ids
                                      ELSE d.store[m.id].dest_ids \cup {c}

\* The message with other clients in its dest_ids.
Given(s, id, v) == [s EXCEPT ![id] = [s[id] EXCEPT !.dest_ids = v]]

LEMMA GivenTo ==
    ASSUME NEW S, NEW s \in [S -> Message], NEW id \in S, NEW v \in SUBSET Clients, NEW t,
           t = Given(s, id, v)
    PROVE  /\ t \in [S -> Message] /\ DOMAIN t = S
           /\ \A i \in DOMAIN t : t[i].ref_count = s[i].ref_count
           /\ Same(s, t) /\ t[id].dest_ids = v
<1> DEFINE m == [s[id] EXCEPT !.dest_ids = v]
<1>1. s[id] \in Message
  OBVIOUS
<1>2. /\ m \in Message /\ m.ref_count = s[id].ref_count /\ m.dest_ids = v
      /\ m.topic = s[id].topic /\ m.payload = s[id].payload
      /\ m.retain = s[id].retain /\ m.expiry = s[id].expiry
  BY <1>1 DEF Message
<1>3. t = [s EXCEPT ![id] = m]
  BY DEF Given
<1> HIDE DEF m
<1>4. t \in [S -> Message] /\ DOMAIN t = S /\ \A i \in S : t[i] = IF i = id THEN m ELSE s[i]
  BY <1>2, <1>3
<1>5. Same(s, t)
  BY <1>2, <1>4 DEF Same
<1> QED
  BY <1>2, <1>4, <1>5

LEMMA InsertSound ==
    ASSUME NEW d, NEW X, Guards(X), Sound(d, AllRefs(d) \cup X), NEW id \in DOMAIN d.store,
           NEW c \in Clients, NEW retain \in BOOLEAN
    PROVE  LET e == Insert(d, c, id, retain)
           IN  Sound(e, AllRefs(e) \cup X) /\ Inserted(d, e, c, [id |-> id, retain |-> retain])
<1> DEFINE e == Insert(d, c, id, retain)
           m == [id |-> id, retain |-> retain]
           g == RefInc(d, id)
           x == OutRef(c, Len(d.msgs_out[c]) + 1, id)
           s == [g.store EXCEPT ![id].dest_ids = IF retain THEN @ ELSE @ \cup {c}]
<1>0. /\ d \in Mem /\ d.store \in [DOMAIN d.store -> Message] /\ DOMAIN d.store \subseteq Nat
      /\ AtNodes(d)
  BY MemParts DEF Sound
<1>1. CASE c \notin V5 /\ ~retain /\ c \in d.store[id].dest_ids
  <2>1. e = d
    BY <1>1 DEF Insert
  <2> QED
    BY <1>1, <2>1 DEF Inserted, Same
<1>2. CASE ~(c \notin V5 /\ ~retain /\ c \in d.store[id].dest_ids)
  <2>1. e = [g EXCEPT !.msgs_out[c] = Append(@, m), !.store[id].dest_ids = IF retain THEN @ ELSE @ \cup {c}]
    BY <1>2 DEF Insert
  <2>2. x \notin AllRefs(d) \cup X
    <3>1. x \notin AllRefs(d)
      <4>1. Len(d.msgs_out[c]) + 1 \notin DOMAIN d.msgs_out[c]
        <5>1. d.msgs_out[c] \in Seq(Entry)
          BY <1>0, MemParts
        <5>2. DOMAIN d.msgs_out[c] = 1..Len(d.msgs_out[c]) /\ Len(d.msgs_out[c]) \in Nat
          BY <5>1, LenProperties
        <5> QED
          BY <5>2
      <4> QED
        BY <1>0, <4>1, OutMember
    <3>2. x \notin X
      BY RefsDiffer DEF Guards
    <3> QED
      BY <3>1, <3>2
  <2>3. /\ Sound(g, (AllRefs(d) \cup X) \cup {x}) /\ OnlyStore(d, g) /\ Same(d.store, g.store)
        /\ DOMAIN g.store = DOMAIN d.store /\ Unused(g.store) = Unused(d.store) \ {id}
        /\ \A i \in DOMAIN g.store : g.store[i].dest_ids = d.store[i].dest_ids
    <3>1. x.to = id
      BY RefsDiffer
    <3> HIDE DEF x
    <3>2. Sound(g, (AllRefs(d) \cup X) \cup {x}) /\ CountedUp(d, g, id)
      BY <2>2, <3>1, RefIncSound
    <3> QED
      BY <3>2 DEF CountedUp
  <2> HIDE DEF g, x
  <2>4. g \in Mem /\ g.store \in [DOMAIN g.store -> Message] /\ g.msgs_out \in [Clients -> Seq(Entry)]
    BY <2>3, MemParts DEF Sound
  <2>5. e = [g EXCEPT !.msgs_out = [g.msgs_out EXCEPT ![c] = Append(@, m)], !.store = s]
    BY <2>1, <2>4 DEF Mem
  <2>6. m \in Entry /\ Append(g.msgs_out[c], m) \in Seq(Entry)
    <3>1. m \in Entry
      BY <1>0 DEF Entry
    <3> HIDE DEF m
    <3> QED
      BY <2>4, <3>1, AppendProperties
  <2>7. /\ s \in [DOMAIN g.store -> Message] /\ DOMAIN s = DOMAIN g.store
        /\ \A i \in DOMAIN s : s[i].ref_count = g.store[i].ref_count
        /\ Same(g.store, s)
        /\ s[id].dest_ids = IF retain THEN g.store[id].dest_ids ELSE g.store[id].dest_ids \cup {c}
    <3> DEFINE v == IF retain THEN g.store[id].dest_ids ELSE g.store[id].dest_ids \cup {c}
    <3>1. s = Given(g.store, id, v)
      BY DEF Given
    <3>2. v \in SUBSET Clients
      <4>1. g.store[id].dest_ids \in SUBSET Clients
        <5>1. g.store[id] \in Message
          BY <2>3, <2>4
        <5> QED
          BY <5>1 DEF Message
      <4> QED
        BY <4>1
    <3> HIDE DEF s, v
    <3>3. /\ s \in [DOMAIN g.store -> Message] /\ DOMAIN s = DOMAIN g.store
          /\ \A i \in DOMAIN s : s[i].ref_count = g.store[i].ref_count
          /\ Same(g.store, s) /\ s[id].dest_ids = v
      <4>1. id \in DOMAIN g.store /\ g.store \in [DOMAIN g.store -> Message]
        BY <2>3, <2>4
      <4> QED
        BY <3>1, <3>2, <4>1, GivenTo
    <3> QED
      BY <3>3 DEF v
  <2>8. s \in Stores
    BY <1>0, <2>3, <2>7, StoreParts
  <2> HIDE DEF s, m
  <2>9. e \in Mem
    <3>1. [g.msgs_out EXCEPT ![c] = Append(@, m)] \in [Clients -> Seq(Entry)]
      BY <2>4, <2>6
    <3> QED
      BY <2>4, <2>5, <2>8, <3>1 DEF Mem
  <2>10. /\ e.store = s /\ e.msgs_out = [g.msgs_out EXCEPT ![c] = Append(@, m)]
         /\ e.msgs_in = g.msgs_in /\ e.retains = g.retains /\ e.last_db_id = g.last_db_id
    BY <2>4, <2>5 DEF Mem
  <2>11. Balanced(s, (AllRefs(d) \cup X) \cup {x})
    BY <2>3, <2>7 DEF Sound, Balanced
  <2>12. AtNodes(e)
    <3>1. AtNodes(g)
      BY <2>3 DEF Sound
    <3> QED
      BY <2>7, <2>10, <3>1, AtNodesStill
  <2> HIDE DEF e
  <2>13. AllRefs(e) = AllRefs(d) \cup {x}
    <3>1. e.msgs_out = [d.msgs_out EXCEPT ![c] = Append(@, m)]
      BY <2>3, <2>10 DEF OnlyStore
    <3>2. m.id = id
      BY DEF m
    <3> QED
      BY <1>0, <2>3, <2>6, <2>9, <2>10, <3>1, <3>2, AppendRefs DEF OnlyStore, x
  <2>14. Sound(e, AllRefs(e) \cup X)
    <3>1. AllRefs(e) \cup X = (AllRefs(d) \cup X) \cup {x}
      BY <2>13
    <3>2. DOMAIN e.store \subseteq 1..e.last_db_id
      BY <2>3, <2>7, <2>10 DEF Sound
    <3> QED
      BY <2>9, <2>10, <2>11, <2>12, <3>1, <3>2 DEF Sound
  <2>15. Inserted(d, e, c, m)
    <3>1. Same(d.store, e.store) /\ DOMAIN e.store = DOMAIN d.store
      BY <2>3, <2>7, <2>10 DEF Same
    <3>2. Unused(e.store) \subseteq Unused(d.store)
      BY <2>3, <2>7, <2>10 DEF Unused
    <3>3. m.id = id /\ m.retain = retain
      BY DEF m
    <3> QED
      BY <1>2, <2>3, <2>7, <2>10, <3>1, <3>2, <3>3 DEF Inserted, OnlyStore
  <2> QED
    BY <2>14, <2>15 DEF e, m
<1> QED
  BY <1>1, <1>2
----------------------------------------------------------------------------
(* The retained messages.                                                  *)

LEMMA NodeType ==
    ASSUME NEW topic \in TopicNames
    PROVE  /\ NodeOf[topic] \in Seq(Level) /\ NodeOf[topic] # <<>>
           /\ NodeOf[topic] \in PathPrefixes(NodeOf[topic]) /\ PathPrefixes(NodeOf[topic]) \subseteq Seq(Level)
<1> DEFINE z == <<"">>
           head == IF topic[1] \in DollarLevels THEN <<>> ELSE z
           t == head \o topic
           p == Path(t)
<1>1. topic \in Seq(Level) /\ Len(topic) \in Nat \ {0}
  <2>1. topic \in Seq(STRING) /\ topic # <<>>
    BY TopicAssumption DEF TopicNames, PubTopicCheck
  <2>2. Seq(STRING) \subseteq Seq(Level)
    <3>1. STRING \subseteq Level
      BY Zenon DEF Level
    <3> QED
      BY <3>1, SeqMonotonic
  <2> QED
    BY <2>1, <2>2, EmptySeq, LenProperties
<1>2. topic[1] # "$share"
  <2>1. "$SYS" # "$share"
    BY Zenon
  <2> QED
    BY <2>1, TopicAssumption DEF TopicNames
<1>3. Tokenise(topic).topics = t
  BY <1>2, Zenon DEF Tokenise
<1>4. NodeOf[topic] = p
  BY <1>3, Zenon DEF NodeOf
<1>5. z \in Seq(Level) /\ <<>> \in Seq(Level)
  <2>1. "" \in Level
    BY DEF Level
  <2>2. \A a \in Level : <<a>> \in Seq(Level)
    OBVIOUS
  <2>3. z \in Seq(Level)
    BY <2>1, <2>2, Zenon
  <2> HIDE DEF z
  <2> QED
    BY <2>3, EmptySeq
<1> HIDE DEF z
<1>6. head \in Seq(Level)
  BY <1>5
<1>7. Len(head) \in Nat
  BY <1>6, LenProperties
<1> HIDE DEF head
<1>8. t \in Seq(Level) /\ Len(t) = Len(head) + Len(topic)
  BY <1>1, <1>6, ConcatProperties
<1>9. t[1] \in Level
  <2>1. 1 \in 1..Len(t)
    BY <1>1, <1>7, <1>8
  <2> HIDE DEF t
  <2> QED
    BY <1>8, <2>1, ElementOfSeq
<1>10. Len(t) \in Nat
  BY <1>8, LenProperties
<1> HIDE DEF t
<1>11. <<t[1]>> \in Seq(Level) /\ Len(<<t[1]>>) = 1
  BY <1>9
<1>12. p \in Seq(Level) /\ Len(p) = Len(<<t[1]>>) + Len(t)
  BY <1>8, <1>11, ConcatProperties DEF Path
<1>13. p # <<>>
  <2>1. Len(p) # 0
    BY <1>10, <1>11, <1>12
  <2> QED
    BY <1>12, <2>1, EmptySeq
<1> HIDE DEF p
<1> QED
  BY <1>4, <1>12, <1>13, PrefixTypes

OldAt(d, p) == IF p \in DOMAIN d.retains THEN d.retains[p] ELSE 0

\* The node p is given the message i, or none, and nodes without one are new.
SetAt(d, e, p, i) ==
    /\ e.msgs_in = d.msgs_in /\ e.msgs_out = d.msgs_out /\ e.last_db_id = d.last_db_id
    /\ DOMAIN d.retains \subseteq DOMAIN e.retains /\ p \in DOMAIN e.retains /\ e.retains[p] = i
    /\ \A q \in DOMAIN e.retains : q # p => e.retains[q] = OldAt(d, q)

LEMMA SetRefs ==
    ASSUME NEW d \in Mem, NEW e \in Mem, NEW p, NEW i, SetAt(d, e, p, i)
    PROVE  AllRefs(e) = (AllRefs(d) \ {RetainRef(p, OldAt(d, p))})
                            \cup (IF i = 0 THEN {} ELSE {RetainRef(p, i)})
<1> DEFINE x == RetainRef(p, OldAt(d, p))
           new == IF i = 0 THEN {} ELSE {RetainRef(p, i)}
<1>1. InRefs(e) = InRefs(d) /\ OutRefs(e) = OutRefs(d)
  BY DEF SetAt, InRefs, OutRefs
<1>2. x \notin InRefs(d) /\ x \notin OutRefs(d)
  <2>1. x.kind = "retain"
    BY DEF RetainRef
  <2> HIDE DEF x
  <2> QED
    BY <2>1 DEF InRefs, OutRefs
<1>3. \A q : q # p => /\ q \in RetainedNodes(e) <=> q \in RetainedNodes(d)
                      /\ q \in RetainedNodes(d) => e.retains[q] = d.retains[q]
  BY DEF SetAt, RetainedNodes, OldAt
<1>4. p \in RetainedNodes(e) <=> i # 0
  BY DEF SetAt, RetainedNodes
<1>5. e.retains[p] = i
  BY DEF SetAt
<1>6. ASSUME NEW r PROVE r \in RetainRefs(e) <=> r \in (RetainRefs(d) \ {x}) \cup new
  <2>1. ASSUME r \in RetainRefs(e) PROVE r \in (RetainRefs(d) \ {x}) \cup new
    <3>1. PICK q \in RetainedNodes(e) : r = RetainRef(q, e.retains[q])
      BY <2>1, RetainRefsAre
    <3>2. CASE q = p
      BY <1>4, <1>5, <3>1, <3>2
    <3>3. CASE q # p
      <4>1. q \in RetainedNodes(d) /\ r = RetainRef(q, d.retains[q])
        BY <1>3, <3>1, <3>3
      <4>2. r \in RetainRefs(d) /\ r # x
        BY <3>3, <4>1, RetainRefsAre, RefsDiffer
      <4> QED
        BY <4>2
    <3> QED
      BY <3>2, <3>3
  <2>2. ASSUME r \in RetainRefs(d), r # x PROVE r \in RetainRefs(e)
    <3>1. PICK q \in RetainedNodes(d) : r = RetainRef(q, d.retains[q])
      BY <2>2, RetainRefsAre
    <3>2. q # p
      BY <2>2, <3>1 DEF OldAt, RetainedNodes
    <3>3. q \in RetainedNodes(e) /\ r = RetainRef(q, e.retains[q])
      BY <1>3, <3>1, <3>2
    <3> QED
      BY <3>3, RetainRefsAre
  <2>3. ASSUME r \in new PROVE r \in RetainRefs(e)
    <3>1. i # 0 /\ r = RetainRef(p, i)
      BY <2>3
    <3> QED
      BY <1>4, <1>5, <3>1, RetainRefsAre
  <2> QED
    BY <2>1, <2>2, <2>3
<1>7. RetainRefs(e) = (RetainRefs(d) \ {x}) \cup new
  BY <1>6
<1> HIDE DEF x, new
<1>8. AllRefs(e) = (AllRefs(d) \ {x}) \cup new
  BY <1>1, <1>2, <1>7 DEF AllRefs
<1> QED
  BY <1>8 DEF x, new

LEMMA OldRef ==
    ASSUME NEW d \in Mem, NEW p, NEW i
    PROVE  RetainRef(p, i) \in AllRefs(d) <=> i # 0 /\ i = OldAt(d, p)
BY RetainMember DEF OldAt, RetainedNodes

\* What retain__store does.
Retained(d, e, id) ==
    /\ SetAt(d, e, NodeOf[d.store[id].topic], IF d.store[id].payload THEN id ELSE 0)
    /\ Same(d.store, e.store) /\ id \in DOMAIN e.store /\ Unused(e.store) \subseteq Unused(d.store)
    /\ d.store[id].payload => id \notin Unused(e.store)
    /\ \A i \in DOMAIN d.store : i \in DOMAIN e.store \/ i = OldAt(d, NodeOf[d.store[id].topic])
    /\ \A i \in DOMAIN e.store : e.store[i].dest_ids = d.store[i].dest_ids

LEMMA RetainStoreSound ==
    ASSUME NEW d, NEW X, Guards(X), Sound(d, AllRefs(d) \cup X), NEW id \in DOMAIN d.store,
           Guard(id) \in X \/ OldAt(d, NodeOf[d.store[id].topic]) = 0
    PROVE  LET e == RetainStore(d, id)
           IN  Sound(e, AllRefs(e) \cup X) /\ Retained(d, e, id)
<1> DEFINE m == d.store[id]
           node == NodeOf[m.topic]
           tree == [p \in DOMAIN d.retains \cup PathPrefixes(node) |->
                       IF p \in DOMAIN d.retains THEN d.retains[p] ELSE 0]
           old == tree[node]
           d1 == IF old = 0 THEN d ELSE RefDec(d, old)
           d2 == IF m.payload THEN RefInc(d1, id) ELSE d1
           i == IF m.payload THEN id ELSE 0
           after == [tree EXCEPT ![node] = i]
           e == RetainStore(d, id)
           R == AllRefs(d) \cup X
           x == RetainRef(node, old)
           y == RetainRef(node, id)
<1>1. /\ d \in Mem /\ d.store \in [DOMAIN d.store -> Message] /\ DOMAIN d.store \subseteq 1..d.last_db_id
      /\ d.retains \in [DOMAIN d.retains -> Nat] /\ DOMAIN d.retains \subseteq Seq(Level)
      /\ d.last_db_id \in Nat /\ AtNodes(d) /\ DOMAIN d.retains \in Rooted
  BY MemParts DEF Sound
<1>2. id \in Nat /\ id # 0 /\ m \in Message /\ m.topic \in TopicNames /\ m.payload \in BOOLEAN
  <2>1. id \in 1..d.last_db_id /\ m \in Message
    BY <1>1
  <2> QED
    BY <1>1, <2>1 DEF Message
<1>3. node \in PathPrefixes(node) /\ PathPrefixes(node) \subseteq Seq(Level) /\ node \in Seq(Level)
  BY <1>2, NodeType
<1>4. old = OldAt(d, node)
  BY <1>3 DEF OldAt
<1>5. e = [d2 EXCEPT !.retains = after]
  BY DEF RetainStore
<1>6. /\ tree \in [DOMAIN d.retains \cup PathPrefixes(node) -> Nat]
      /\ \A p \in DOMAIN d.retains \cup PathPrefixes(node) : tree[p] = OldAt(d, p)
  BY <1>1 DEF OldAt
<1>7. i \in Nat
  BY <1>2
<1> HIDE DEF tree, old, node, m, i
<1>8. /\ after \in [DOMAIN d.retains \cup PathPrefixes(node) -> Nat]
      /\ after[node] = i /\ \A p \in DOMAIN d.retains \cup PathPrefixes(node) : p # node => after[p] = OldAt(d, p)
  BY <1>3, <1>6, <1>7
<1>9. after \in Retains /\ DOMAIN after = DOMAIN d.retains \cup PathPrefixes(node)
  <2>1. DOMAIN after = DOMAIN d.retains \cup PathPrefixes(node)
    BY <1>8
  <2>2. DOMAIN d.retains \cup PathPrefixes(node) \in Rooted
    BY <1>1, <1>3, RootedMore
  <2> HIDE DEF after
  <2> QED
    BY <1>8, <2>1, <2>2, RetainsParts
<1> HIDE DEF after
<1>10. x \notin X /\ y \notin X /\ (x \in R <=> old # 0) /\ (y \in R <=> old = id)
  <2>1. x \notin X /\ y \notin X
    BY RefsDiffer, SMTT(30) DEF Guards
  <2>2. x \in AllRefs(d) <=> old # 0
    BY <1>1, <1>4, OldRef DEF x
  <2>3. y \in AllRefs(d) <=> old = id
    BY <1>1, <1>2, <1>4, OldRef DEF y
  <2> QED
    BY <2>1, <2>2, <2>3
<1>11. x.to = old /\ y.to = id
  BY RefsDiffer
<1>12. x = y <=> old = id
  BY RefsDiffer
<1> HIDE DEF x, y
<1>13. /\ Sound(d1, R \ {x}) /\ OnlyStore(d, d1) /\ Same(d.store, d1.store)
       /\ Unused(d1.store) \subseteq Unused(d.store) /\ id \in DOMAIN d1.store
       /\ \A j \in DOMAIN d.store : j \in DOMAIN d1.store \/ j = old
       /\ \A j \in DOMAIN d1.store : d1.store[j].dest_ids = d.store[j].dest_ids
  <2>1. CASE old = 0
    <3>1. d1 = d /\ R \ {x} = R
      BY <1>10, <2>1
    <3> QED
      BY <3>1 DEF OnlyStore, Same
  <2>2. CASE old # 0
    <3>1. d1 = RefDec(d, old)
      BY <2>2
    <3>2. x \in R /\ Sound(d, R)
      BY <1>10, <2>2
    <3>2a. Sound(RefDec(d, old), R \ {x}) /\ CountedDown(d, RefDec(d, old), old)
      <4> HIDE DEF R
      <4> QED
        BY <1>11, <3>2, RefDecSound
    <3> HIDE DEF d1
    <3>3. Sound(d1, R \ {x}) /\ CountedDown(d, d1, old)
      BY <3>1, <3>2a
    <3>4. id \in DOMAIN d1.store
      <4>1. CASE old # id
        BY <3>3, <4>1 DEF CountedDown
      <4>2. CASE old = id
        <5>1. Guard(id) \in R \ {x}
          BY <1>4, <1>10, <2>2, <4>2 DEF node, m
        <5>2. Guard(id).to = id
          BY RefsDiffer
        <5> QED
          BY <3>3, <5>1, <5>2 DEF Sound, Balanced
      <4> QED
        BY <4>1, <4>2
    <3> QED
      BY <3>3, <3>4 DEF CountedDown
  <2> QED
    BY <2>1, <2>2
<1> HIDE DEF d1
<1> DEFINE new == IF i = 0 THEN {} ELSE {RetainRef(node, i)}
<1>14. new = IF m.payload THEN {y} ELSE {}
  BY <1>2 DEF i, y
<1>15. /\ Sound(d2, (R \ {x}) \cup new) /\ OnlyStore(d, d2) /\ Same(d.store, d2.store)
       /\ Unused(d2.store) \subseteq Unused(d.store) /\ id \in DOMAIN d2.store
       /\ m.payload => id \notin Unused(d2.store)
       /\ \A j \in DOMAIN d.store : j \in DOMAIN d2.store \/ j = old
       /\ \A j \in DOMAIN d2.store : d2.store[j].dest_ids = d.store[j].dest_ids
  <2>1. CASE ~m.payload
    <3>1. d2 = d1 /\ new = {} /\ (R \ {x}) \cup new = R \ {x}
      BY <1>14, <2>1
    <3> HIDE DEF d2, new, R
    <3> QED
      BY <1>13, <2>1, <3>1
  <2>2. CASE m.payload
    <3>1. d2 = RefInc(d1, id) /\ new = {y}
      BY <1>14, <2>2
    <3>2. y \notin R \ {x}
      BY <1>10, <1>12
    <3>2a. Sound(RefInc(d1, id), (R \ {x}) \cup {y}) /\ CountedUp(d1, RefInc(d1, id), id)
      <4> DEFINE Q == R \ {x}
      <4>1. Sound(d1, Q) /\ y \notin Q
        BY <1>13, <3>2
      <4> HIDE DEF Q
      <4>2. Sound(RefInc(d1, id), Q \cup {y}) /\ CountedUp(d1, RefInc(d1, id), id)
        BY <1>11, <1>13, <4>1, RefIncSound
      <4> QED
        BY <4>2 DEF Q
    <3> HIDE DEF d2, R, new
    <3>3. Sound(d2, (R \ {x}) \cup new) /\ CountedUp(d1, d2, id)
      BY <3>1, <3>2a
    <3>4. OnlyStore(d, d2) /\ Same(d.store, d2.store)
      BY <1>13, <3>3 DEF CountedUp, OnlyStore, Same
    <3>5. /\ Unused(d2.store) \subseteq Unused(d.store) /\ id \in DOMAIN d2.store /\ id \notin Unused(d2.store)
          /\ \A j \in DOMAIN d.store : j \in DOMAIN d2.store \/ j = old
          /\ \A j \in DOMAIN d2.store : d2.store[j].dest_ids = d.store[j].dest_ids
      BY <1>13, <3>3 DEF CountedUp
    <3> QED
      BY <3>3, <3>4, <3>5
  <2> QED
    BY <1>2, <2>1, <2>2
<1> HIDE DEF d2
<1>16. d2 \in Mem
  BY <1>15 DEF Sound
<1> HIDE DEF e
<1>17. /\ e \in Mem /\ e.retains = after /\ e.store = d2.store /\ e.msgs_in = d2.msgs_in
       /\ e.msgs_out = d2.msgs_out /\ e.last_db_id = d2.last_db_id
  BY <1>5, <1>9, <1>16 DEF Mem
<1>18. SetAt(d, e, node, i)
  BY <1>3, <1>8, <1>9, <1>15, <1>17 DEF SetAt, OnlyStore
<1>19. AllRefs(e) \cup X = (R \ {x}) \cup new
  <2>1. AllRefs(e) = (AllRefs(d) \ {x}) \cup new
    BY <1>1, <1>4, <1>17, <1>18, SetRefs DEF x
  <2> HIDE DEF new
  <2> QED
    BY <1>10, <2>1
<1>20. AtNodes(e)
  <2> SUFFICES ASSUME NEW p \in RetainedNodes(e), e.retains[p] \in DOMAIN e.store
               PROVE  NodeOf[e.store[e.retains[p]].topic] = p /\ e.store[e.retains[p]].payload
    BY DEF AtNodes
  <2>1. CASE p = node
    <3>1. e.retains[p] = i /\ i # 0
      BY <1>18, <2>1 DEF SetAt, RetainedNodes
    <3>2. i = id /\ m.payload
      BY <3>1 DEF i
    <3>3. e.store[id].topic = d.store[id].topic /\ e.store[id].payload = d.store[id].payload
      BY <1>15, <1>17 DEF Same
    <3> QED
      BY <2>1, <3>1, <3>2, <3>3 DEF node, m
  <2>2. CASE p # node
    <3>1. p \in RetainedNodes(d) /\ e.retains[p] = d.retains[p]
      BY <1>18, <2>2 DEF SetAt, RetainedNodes, OldAt
    <3>2. /\ e.retains[p] \in DOMAIN d.store /\ e.store[e.retains[p]].topic = d.store[e.retains[p]].topic
          /\ e.store[e.retains[p]].payload = d.store[e.retains[p]].payload
      BY <1>15, <1>17 DEF Same
    <3> QED
      BY <1>1, <3>1, <3>2 DEF AtNodes
  <2> QED
    BY <2>1, <2>2
<1>21. Sound(e, AllRefs(e) \cup X)
  BY <1>15, <1>17, <1>19, <1>20 DEF Sound
<1>22. Retained(d, e, id)
  <2>1. SetAt(d, e, NodeOf[d.store[id].topic], IF d.store[id].payload THEN id ELSE 0)
    BY <1>18 DEF node, m, i
  <2>2. m.payload <=> d.store[id].payload
    BY DEF m
  <2> QED
    BY <1>4, <1>15, <1>17, <2>1, <2>2 DEF Retained, node, m
<1> QED
  BY <1>21, <1>22 DEF e
----------------------------------------------------------------------------
(* A message on its way to the lists.                                      *)

\* No list holds the message.
Absent(d, id) == \A b \in Clients : \A n \in DOMAIN d.msgs_out[b] : d.msgs_out[b][n].id # id

\* OncePerClient, in the middle of an operation.
Once(d) ==
    \A c \in Clients \ V5 : \A m, n \in DOMAIN d.msgs_out[c] :
        /\ d.msgs_out[c][m].id = d.msgs_out[c][n].id
        /\ ~d.msgs_out[c][m].retain /\ ~d.msgs_out[c][n].retain
        => m = n

\* Who has been given the message is written down in it.
Marked(d, id) ==
    \A b \in Clients : \A n \in DOMAIN d.msgs_out[b] :
        d.msgs_out[b][n].id = id /\ ~d.msgs_out[b][n].retain => b \in d.store[id].dest_ids

\* What the lists hold more is this message.
Added(d, e, id) ==
    \A b \in Clients : \A n \in DOMAIN e.msgs_out[b] :
        \/ n \in DOMAIN d.msgs_out[b] /\ e.msgs_out[b][n] = d.msgs_out[b][n]
        \/ e.msgs_out[b][n].id = id

QueueInv(e, n, d) ==
    /\ Sound(d, AllRefs(d) \cup {Guard(e.id)}) /\ e.id \in DOMAIN d.store
    /\ Once(d) /\ Marked(d, e.id) /\ Added(e.base, d, e.id)
    /\ d.msgs_in = e.base.msgs_in /\ d.retains = e.base.retains /\ d.last_db_id = e.base.last_db_id
    /\ Same(e.base.store, d.store) /\ Unused(d.store) \subseteq Unused(e.base.store)

QueueLoop == INSTANCE Loops WITH
    Op  <- LAMBDA e, d, c : Insert(d, c, e.id, FALSE),
    Inv <- QueueInv

\* The list of a client with a message more.
LEMMA OneMore ==
    ASSUME NEW d \in Mem, NEW e, NEW c \in Clients, NEW m \in Entry,
           e.msgs_out = [d.msgs_out EXCEPT ![c] = Append(@, m)]
    PROVE  \A b \in Clients : \A n \in DOMAIN e.msgs_out[b] :
              \/ n \in DOMAIN d.msgs_out[b] /\ e.msgs_out[b][n] = d.msgs_out[b][n]
              \/ b = c /\ n = Len(d.msgs_out[c]) + 1 /\ e.msgs_out[b][n] = m
<1> DEFINE s == d.msgs_out[c]
<1>1. /\ d.msgs_out \in [Clients -> Seq(Entry)] /\ s \in Seq(Entry)
      /\ Len(s) \in Nat /\ DOMAIN s = 1..Len(s)
  BY MemParts, EntryParts
<1>2. e.msgs_out[c] = Append(s, m) /\ \A b \in Clients : b # c => e.msgs_out[b] = d.msgs_out[b]
  BY <1>1
<1> HIDE DEF s
<1>3. /\ DOMAIN Append(s, m) = 1..(Len(s) + 1) /\ (\A n \in 1..Len(s) : Append(s, m)[n] = s[n])
      /\ Append(s, m)[Len(s) + 1] = m
  BY <1>1, LenProperties, AppendProperties
<1> SUFFICES ASSUME NEW b \in Clients, NEW n \in DOMAIN e.msgs_out[b]
             PROVE  \/ n \in DOMAIN d.msgs_out[b] /\ e.msgs_out[b][n] = d.msgs_out[b][n]
                    \/ b = c /\ n = Len(d.msgs_out[c]) + 1 /\ e.msgs_out[b][n] = m
  OBVIOUS
<1>4. CASE b # c
  BY <1>2, <1>4
<1>5. CASE b = c
  <2>1. n \in 1..(Len(s) + 1) /\ e.msgs_out[b] = Append(s, m)
    BY <1>2, <1>3, <1>5
  <2>2. n \in 1..Len(s) \/ n = Len(s) + 1
    BY <1>1, <2>1
  <2> QED
    BY <1>1, <1>3, <1>5, <2>1, <2>2 DEF s
<1> QED
  BY <1>4, <1>5

LEMMA QueueStep ==
    ASSUME NEW e, NEW n, NEW k, NEW d, QueueInv(e, n, d), NEW c \in Clients
    PROVE  QueueInv(e, k, Insert(d, c, e.id, FALSE))
<1> DEFINE g == Insert(d, c, e.id, FALSE)
           m == [id |-> e.id, retain |-> FALSE]
           X == {Guard(e.id)}
<1>1. /\ Sound(d, AllRefs(d) \cup X) /\ e.id \in DOMAIN d.store /\ Once(d) /\ Marked(d, e.id)
      /\ Added(e.base, d, e.id)
      /\ d.msgs_in = e.base.msgs_in /\ d.retains = e.base.retains /\ d.last_db_id = e.base.last_db_id
      /\ Same(e.base.store, d.store) /\ Unused(d.store) \subseteq Unused(e.base.store)
  BY DEF QueueInv
<1>2. d \in Mem /\ DOMAIN d.store \subseteq Nat
  BY <1>1, MemParts DEF Sound
<1>3. Guards(X) /\ m \in Entry /\ m.id = e.id /\ ~m.retain
  BY <1>1, <1>2 DEF Guards, Entry
<1> HIDE DEF X
<1>4. Sound(g, AllRefs(g) \cup X) /\ Inserted(d, g, c, m)
  BY <1>1, <1>3, InsertSound
<1> HIDE DEF g, m
<1>5. /\ g.msgs_in = d.msgs_in /\ g.retains = d.retains /\ g.last_db_id = d.last_db_id
      /\ Same(d.store, g.store) /\ DOMAIN g.store = DOMAIN d.store /\ Unused(g.store) \subseteq Unused(d.store)
  BY <1>4 DEF Inserted
<1>6. Same(e.base.store, g.store)
  BY <1>1, <1>5 DEF Same
<1>7. CASE g = d
  BY <1>1, <1>7 DEF QueueInv, X, g
<1>8. CASE g # d
  <2>1. /\ g.msgs_out = [d.msgs_out EXCEPT ![c] = Append(@, m)]
        /\ c \in V5 \/ c \notin d.store[e.id].dest_ids
        /\ g.store[e.id].dest_ids = d.store[e.id].dest_ids \cup {c}
    BY <1>3, <1>4, <1>8 DEF Inserted
  <2>2. \A b \in Clients : \A i \in DOMAIN g.msgs_out[b] :
           \/ i \in DOMAIN d.msgs_out[b] /\ g.msgs_out[b][i] = d.msgs_out[b][i]
           \/ b = c /\ i = Len(d.msgs_out[c]) + 1 /\ g.msgs_out[b][i] = m
    BY <1>2, <1>3, <2>1, OneMore
  <2>3. Added(e.base, g, e.id)
    BY <1>1, <1>3, <2>2 DEF Added
  <2>4. Marked(g, e.id)
    BY <1>1, <2>1, <2>2 DEF Marked
  <2>5. Once(g)
    <3> SUFFICES ASSUME NEW b \in Clients \ V5, NEW i \in DOMAIN g.msgs_out[b],
                        NEW j \in DOMAIN g.msgs_out[b],
                        g.msgs_out[b][i].id = g.msgs_out[b][j].id,
                        ~g.msgs_out[b][i].retain, ~g.msgs_out[b][j].retain
                 PROVE  i = j
      BY DEF Once
    <3>1. CASE i \in DOMAIN d.msgs_out[b] /\ g.msgs_out[b][i] = d.msgs_out[b][i]
      <4>1. CASE j \in DOMAIN d.msgs_out[b] /\ g.msgs_out[b][j] = d.msgs_out[b][j]
        BY <1>1, <3>1, <4>1 DEF Once
      <4>2. CASE b = c /\ j = Len(d.msgs_out[c]) + 1 /\ g.msgs_out[b][j] = m
        <5>1. c \in d.store[e.id].dest_ids
          BY <1>1, <1>3, <3>1, <4>2 DEF Marked
        <5> QED
          BY <2>1, <4>2, <5>1
      <4> QED
        BY <2>2, <4>1, <4>2
    <3>2. CASE b = c /\ i = Len(d.msgs_out[c]) + 1 /\ g.msgs_out[b][i] = m
      <4>1. CASE j \in DOMAIN d.msgs_out[b] /\ g.msgs_out[b][j] = d.msgs_out[b][j]
        <5>1. c \in d.store[e.id].dest_ids
          BY <1>1, <1>3, <3>2, <4>1 DEF Marked
        <5> QED
          BY <2>1, <3>2, <5>1
      <4>2. CASE b = c /\ j = Len(d.msgs_out[c]) + 1 /\ g.msgs_out[b][j] = m
        BY <3>2, <4>2
      <4> QED
        BY <2>2, <4>1, <4>2
    <3> QED
      BY <2>2, <3>1, <3>2
  <2>6. QueueInv(e, k, g)
    BY <1>1, <1>4, <1>5, <1>6, <2>3, <2>4, <2>5 DEF QueueInv, X
  <2> QED
    BY <2>6 DEF g
<1> QED
  BY <1>7, <1>8

\* What sub__messages_queue does.
Queued(d, e, id) ==
    /\ e.msgs_in = d.msgs_in /\ e.last_db_id = d.last_db_id
    /\ Added(d, e, id) /\ Unused(e.store) \subseteq Unused(d.store) \ {id} /\ Same(d.store, e.store)
    /\ \A p \in DOMAIN e.retains : \/ e.retains[p] \in {0, id}
                                   \/ p \in DOMAIN d.retains /\ e.retains[p] = d.retains[p]

LEMMA MessagesQueueSound ==
    ASSUME NEW d, Sound(d, AllRefs(d)), Once(d), NEW id \in DOMAIN d.store, Absent(d, id),
           NEW to \in Seq(Clients)
    PROVE  LET e == MessagesQueue(d, id, to)
           IN  Sound(e, AllRefs(e)) /\ Once(e) /\ Queued(d, e, id)
<1> DEFINE d0 == RefInc(d, id)
           d1 == FoldLeft(LAMBDA x, c : Insert(x, c, id, FALSE), d0, to)
           d2 == IF d.store[id].retain THEN RetainStore(d1, id) ELSE d1
           e == MessagesQueue(d, id, to)
           g == Guard(id)
           X == {g}
           env == [id |-> id, base |-> d0]
<1>1. d \in Mem /\ d.store \in [DOMAIN d.store -> Message] /\ DOMAIN d.store \subseteq Nat
  BY MemParts DEF Sound
<1>2. g.to = id /\ Guards(X) /\ g \in X
  BY <1>1, RefsDiffer DEF Guards
<1>3. \A x : g \notin AllRefs(x)
  BY GuardApart
<1>4. e = RefDec(d2, id)
  BY DEF MessagesQueue
<1>5. Sound(d0, AllRefs(d) \cup X) /\ CountedUp(d, d0, id)
  <2> HIDE DEF g
  <2> QED
    BY <1>2, <1>3, RefIncSound
<1>6. OnlyStore(d, d0) /\ Same(d.store, d0.store) /\ Unused(d0.store) \subseteq Unused(d.store) /\ id \in DOMAIN d0.store
  BY <1>5 DEF CountedUp
<1>7. AllRefs(d0) = AllRefs(d)
  BY <1>6, SameRefs
<1>8. env.id = id /\ env.base = d0
  OBVIOUS
<1>9. d1 = QueueLoop!OverList(env, d0, to)
  BY DEF QueueLoop!OverList, FoldLeft, QueueLoop!FoldLeft, MapThenFoldSet,
         QueueLoop!MapThenFoldSet, Max, QueueLoop!Max
<1> HIDE DEF d0, d1, env, g, X
<1>10. QueueInv(env, 0, d0)
  <2>1. Once(d0) /\ Absent(d0, id)
    BY <1>6 DEF Once, Absent, OnlyStore
  <2>2. Marked(d0, id) /\ Added(d0, d0, id)
    BY <2>1 DEF Absent, Marked, Added
  <2> QED
    BY <1>5, <1>6, <1>7, <1>8, <2>1, <2>2 DEF QueueInv, X, g, Same
<1>11. \A n \in 1..Len(to) : \A x : QueueInv(env, n - 1, x) => QueueInv(env, n, Insert(x, to[n], env.id, FALSE))
  <2>1. \A n \in 1..Len(to) : to[n] \in Clients
    BY ElementOfSeq
  <2> QED
    BY <2>1, QueueStep
<1>12. QueueInv(env, Len(to), d1)
  BY <1>9, <1>10, <1>11, QueueLoop!ListLoop
<1>13. /\ Sound(d1, AllRefs(d1) \cup X) /\ id \in DOMAIN d1.store /\ Once(d1) /\ Added(d0, d1, id)
       /\ d1.msgs_in = d0.msgs_in /\ d1.retains = d0.retains /\ d1.last_db_id = d0.last_db_id
       /\ Unused(d1.store) \subseteq Unused(d0.store) /\ Same(d0.store, d1.store)
  BY <1>8, <1>12 DEF QueueInv, X, g
<1>14. /\ Sound(d2, AllRefs(d2) \cup X) /\ id \in DOMAIN d2.store
       /\ d2.msgs_in = d1.msgs_in /\ d2.msgs_out = d1.msgs_out /\ d2.last_db_id = d1.last_db_id
       /\ Unused(d2.store) \subseteq Unused(d1.store) /\ Same(d1.store, d2.store)
       /\ \A p \in DOMAIN d2.retains : \/ d2.retains[p] \in {0, id}
                                       \/ p \in DOMAIN d1.retains /\ d2.retains[p] = d1.retains[p]
  <2>1. CASE ~d.store[id].retain
    BY <1>13, <2>1 DEF Same
  <2>2. CASE d.store[id].retain
    <3>1. d2 = RetainStore(d1, id)
      BY <2>2
    <3>2. Sound(RetainStore(d1, id), AllRefs(RetainStore(d1, id)) \cup X) /\ Retained(d1, RetainStore(d1, id), id)
      BY <1>2, <1>13, RetainStoreSound DEF g
    <3> HIDE DEF d2
    <3>3. Sound(d2, AllRefs(d2) \cup X) /\ Retained(d1, d2, id)
      BY <3>1, <3>2
    <3> QED
      BY <3>3 DEF Retained, SetAt, OldAt
  <2> QED
    BY <2>1, <2>2
<1> HIDE DEF d2, e
<1>15. Sound(e, (AllRefs(d2) \cup X) \ {g}) /\ CountedDown(d2, e, id)
  <2>1. g \in AllRefs(d2) \cup X
    BY <1>2
  <2> QED
    BY <1>2, <1>4, <1>14, <2>1, RefDecSound
<1>16. OnlyStore(d2, e) /\ Unused(e.store) \subseteq Unused(d2.store) \ {id} /\ Same(d2.store, e.store)
  BY <1>15 DEF CountedDown
<1>17. AllRefs(e) = AllRefs(d2)
  BY <1>16, SameRefs
<1>18. Sound(e, AllRefs(e))
  <2>1. (AllRefs(d2) \cup X) \ {g} = AllRefs(d2)
    BY <1>3 DEF X
  <2> QED
    BY <1>15, <1>17, <2>1
<1>19. Once(e)
  BY <1>13, <1>14, <1>16 DEF Once, OnlyStore
<1>20. Added(d, e, id)
  BY <1>6, <1>13, <1>14, <1>16 DEF Added, OnlyStore
<1>21. Same(d.store, e.store)
  BY <1>6, <1>13, <1>14, <1>16, SameMore
<1>22. Queued(d, e, id)
  BY <1>6, <1>13, <1>14, <1>16, <1>20, <1>21 DEF Queued, OnlyStore
<1> QED
  BY <1>18, <1>19, <1>22 DEF e
----------------------------------------------------------------------------
(* The operations of the broker.                                           *)

\* A message that waits for its PUBREL is from a client and is nowhere else.
Waiting(d) ==
    \A c \in Clients : \A id \in d.msgs_in[c] :
        /\ ~IsSys(d.store[id])
        /\ Absent(d, id) /\ \A b \in Clients : b # c => id \notin d.msgs_in[b]
        /\ \A p \in DOMAIN d.retains : d.retains[p] # id

Whole(d) == Sound(d, AllRefs(d)) /\ Once(d) /\ Waiting(d)

\* Every reference leads to a message.
LEMMA WholeRefs ==
    ASSUME NEW d, Sound(d, AllRefs(d))
    PROVE  /\ \A c \in Clients : \A id \in d.msgs_in[c] : id \in DOMAIN d.store
           /\ \A c \in Clients : \A n \in DOMAIN d.msgs_out[c] : d.msgs_out[c][n].id \in DOMAIN d.store
           /\ \A p \in RetainedNodes(d) : /\ d.retains[p] \in DOMAIN d.store
                                          /\ NodeOf[d.store[d.retains[p]].topic] = p
                                          /\ d.store[d.retains[p]].payload
<1>1. d \in Mem /\ AtNodes(d) /\ \A r \in AllRefs(d) : r.to \in DOMAIN d.store
  BY DEF Sound, Balanced
<1>2. ASSUME NEW c \in Clients, NEW id \in d.msgs_in[c] PROVE id \in DOMAIN d.store
  <2>1. InRef(c, id) \in AllRefs(d) /\ InRef(c, id).to = id
    BY <1>1, InMember, RefsDiffer
  <2> QED
    BY <1>1, <2>1
<1>3. ASSUME NEW c \in Clients, NEW n \in DOMAIN d.msgs_out[c] PROVE d.msgs_out[c][n].id \in DOMAIN d.store
  <2> DEFINE x == OutRef(c, n, d.msgs_out[c][n].id)
  <2>1. x \in AllRefs(d)
    BY <1>1, OutMember
  <2>2. x.to = d.msgs_out[c][n].id
    BY RefsDiffer
  <2> HIDE DEF x
  <2> QED
    BY <1>1, <2>1, <2>2
<1>4. ASSUME NEW p \in RetainedNodes(d)
      PROVE  /\ d.retains[p] \in DOMAIN d.store /\ NodeOf[d.store[d.retains[p]].topic] = p
             /\ d.store[d.retains[p]].payload
  <2> DEFINE x == RetainRef(p, d.retains[p])
  <2>1. x \in AllRefs(d)
    BY <1>1, RetainMember
  <2>2. x.to = d.retains[p]
    BY RefsDiffer
  <2> HIDE DEF x
  <2> QED
    BY <1>1, <2>1, <2>2 DEF AtNodes
<1> QED
  BY <1>2, <1>3, <1>4

\* A message that waits keeps its topic.
LEMMA StillOurs ==
    ASSUME NEW d, NEW e, Sound(e, AllRefs(e)), NEW c \in Clients, NEW i \in e.msgs_in[c],
           Same(d.store, e.store), ~IsSys(d.store[i])
    PROVE  ~IsSys(e.store[i])
<1>1. i \in DOMAIN e.store
  BY WholeRefs
<1> QED
  BY <1>1 DEF Same, IsSys

\* What db__message_store adds to the messages.
NewMessage(topic, payload, retain, lifetime) ==
    [topic |-> topic, payload |-> payload, retain |-> retain,
     expiry |-> IF lifetime > 0 THEN now + lifetime ELSE 0, ref_count |-> 0, dest_ids |-> {}]

StoredIn(d, e, topic) ==
    LET id == e.last_db_id
    IN  /\ Same(e.store, d.store) /\ e.store[id].topic = topic
        /\ Sound(e, AllRefs(e)) /\ id = d.last_db_id + 1 /\ id \in DOMAIN e.store /\ id \notin DOMAIN d.store
        /\ Absent(e, id) /\ Unused(e.store) \subseteq Unused(d.store) \cup {id}
        /\ e.msgs_in = d.msgs_in /\ e.msgs_out = d.msgs_out /\ e.retains = d.retains

LEMMA StoreSound ==
    ASSUME NEW d, Sound(d, AllRefs(d)), now \in Nat, NEW topic \in TopicNames,
           NEW payload \in BOOLEAN, NEW retain \in BOOLEAN, NEW lifetime \in Nat
    PROVE  StoredIn(d, Store(d, topic, payload, retain, lifetime), topic)
<1> DEFINE e == Store(d, topic, payload, retain, lifetime)
           id == d.last_db_id + 1
           m == NewMessage(topic, payload, retain, lifetime)
           s == [i \in DOMAIN d.store \cup {id} |-> IF i = id THEN m ELSE d.store[i]]
<1>1. /\ d \in Mem /\ d.store \in [DOMAIN d.store -> Message] /\ DOMAIN d.store \subseteq Nat /\ d.last_db_id \in Nat
      /\ DOMAIN d.store \subseteq 1..d.last_db_id /\ Balanced(d.store, AllRefs(d)) /\ AtNodes(d)
  BY MemParts DEF Sound
<1>2. e = [d EXCEPT !.last_db_id = id, !.store = s]
  BY <1>1 DEF Store, NewMessage, Mem
<1>3. m \in Message /\ m.ref_count = 0 /\ m.topic = topic
  BY DEF NewMessage, Message
<1>4. id \in Nat /\ id \notin DOMAIN d.store
  BY <1>1
<1> HIDE DEF m
<1>5. DOMAIN s = DOMAIN d.store \cup {id} /\ s[id] = m /\ \A i \in DOMAIN d.store : s[i] = d.store[i]
  BY <1>4
<1>6. s \in Stores
  <2>1. s = [i \in DOMAIN s |-> s[i]]
    OBVIOUS
  <2> HIDE DEF s
  <2>2. s \in [DOMAIN s -> Message]
    <3>1. \A i \in DOMAIN s : s[i] \in Message
      BY <1>1, <1>3, <1>5
    <3> QED
      BY <2>1, <3>1
  <2> QED
    BY <1>1, <1>4, <1>5, <2>2, StoreParts
<1> HIDE DEF s, id
<1>7. e \in Mem
  BY <1>1, <1>2, <1>4, <1>6 DEF Mem
<1>8. /\ e.store = s /\ e.last_db_id = id /\ e.msgs_in = d.msgs_in /\ e.msgs_out = d.msgs_out
      /\ e.retains = d.retains
  BY <1>1, <1>2 DEF Mem
<1> HIDE DEF e
<1>9. AllRefs(e) = AllRefs(d)
  BY <1>8 DEF AllRefs, RetainRefs, RetainedNodes, InRefs, OutRefs
<1>10. Balanced(s, AllRefs(d))
  <2>1. IsFiniteSet(AllRefs(d)) /\ \A r \in AllRefs(d) : r.to \in DOMAIN s
    BY <1>1, <1>5 DEF Balanced
  <2>2. ASSUME NEW i \in DOMAIN s PROVE s[i].ref_count = Cardinality({r \in AllRefs(d) : r.to = i})
    <3>1. CASE i = id
      <4>1. {r \in AllRefs(d) : r.to = i} = {}
        BY <1>1, <1>4, <3>1 DEF Balanced
      <4> QED
        BY <1>3, <1>5, <3>1, <4>1, FS_EmptySet
    <3>2. CASE i # id
      BY <1>1, <1>5, <3>2 DEF Balanced
    <3> QED
      BY <3>1, <3>2
  <2> QED
    BY <2>1, <2>2 DEF Balanced
<1>11. AtNodes(e)
  <2> SUFFICES ASSUME NEW p \in RetainedNodes(e), e.retains[p] \in DOMAIN e.store
               PROVE  NodeOf[e.store[e.retains[p]].topic] = p /\ e.store[e.retains[p]].payload
    BY DEF AtNodes
  <2>1. p \in RetainedNodes(d) /\ e.retains[p] = d.retains[p]
    BY <1>8 DEF RetainedNodes
  <2>2. /\ d.retains[p] \in DOMAIN d.store /\ NodeOf[d.store[d.retains[p]].topic] = p
        /\ d.store[d.retains[p]].payload
    BY <2>1, WholeRefs
  <2> QED
    BY <1>5, <1>8, <2>1, <2>2
<1>12. Sound(e, AllRefs(e))
  <2>1. DOMAIN s \subseteq 1..id
    BY <1>1, <1>5 DEF id
  <2> QED
    BY <1>7, <1>8, <1>9, <1>10, <1>11, <2>1 DEF Sound
<1>13. Absent(e, id)
  <2>1. \A c \in Clients : \A n \in DOMAIN d.msgs_out[c] : d.msgs_out[c][n].id # id
    BY <1>4, WholeRefs
  <2> QED
    BY <1>8, <2>1 DEF Absent
<1>14. Unused(e.store) \subseteq Unused(d.store) \cup {id}
  BY <1>5, <1>8 DEF Unused
<1>15. id = d.last_db_id + 1 /\ id \in DOMAIN e.store
  BY <1>5, <1>8 DEF id
<1>16. Same(e.store, d.store) /\ e.store[id].topic = topic
  BY <1>3, <1>5, <1>8 DEF Same
<1> QED
  BY <1>4, <1>8, <1>12, <1>13, <1>14, <1>15, <1>16 DEF e, StoredIn

\* What an operation makes of d: with or without a new message, and no other that nothing refers to.
After(d, e) ==
    /\ Whole(e) /\ e.last_db_id \in {d.last_db_id, d.last_db_id + 1}
    /\ Unused(e.store) \subseteq Unused(d.store)

\* handle__publish and those who publish like it.
LEMMA PublishWhole ==
    ASSUME NEW d, Whole(d), now \in Nat, NEW topic \in TopicNames,
           NEW payload \in BOOLEAN, NEW retain \in BOOLEAN, NEW lifetime \in Nat, NEW to \in Seq(Clients)
    PROVE  LET d1 == Store(d, topic, payload, retain, lifetime)
           IN  After(d, MessagesQueue(d1, d1.last_db_id, to))
<1> DEFINE d1 == Store(d, topic, payload, retain, lifetime)
           id == d1.last_db_id
           e == MessagesQueue(d1, id, to)
<1>1. Sound(d, AllRefs(d)) /\ Once(d) /\ Waiting(d)
  BY DEF Whole
<1>2. /\ Sound(d1, AllRefs(d1)) /\ id = d.last_db_id + 1 /\ id \in DOMAIN d1.store /\ id \notin DOMAIN d.store
      /\ Absent(d1, id) /\ Unused(d1.store) \subseteq Unused(d.store) \cup {id}
      /\ d1.msgs_in = d.msgs_in /\ d1.msgs_out = d.msgs_out /\ d1.retains = d.retains
      /\ Same(d1.store, d.store)
  <2>1. StoredIn(d, d1, topic)
    BY <1>1, StoreSound
  <2> HIDE DEF d1
  <2> QED
    BY <2>1 DEF StoredIn
<1> HIDE DEF d1
<1>3. Once(d1)
  BY <1>1, <1>2 DEF Once
<1>4. Sound(e, AllRefs(e)) /\ Once(e) /\ Queued(d1, e, id)
  <2> HIDE DEF id
  <2> QED
    BY <1>2, <1>3, MessagesQueueSound
<1> HIDE DEF e
<1>5. Waiting(e)
  <2> SUFFICES ASSUME NEW c \in Clients, NEW i \in e.msgs_in[c]
               PROVE  /\ ~IsSys(e.store[i])
                      /\ Absent(e, i) /\ \A b \in Clients : b # c => i \notin e.msgs_in[b]
                      /\ \A p \in DOMAIN e.retains : e.retains[p] # i
    BY DEF Waiting
  <2>1. i \in d.msgs_in[c] /\ e.msgs_in = d.msgs_in
    BY <1>2, <1>4 DEF Queued
  <2>2. i \in DOMAIN d.store
    BY <1>1, <2>1, WholeRefs
  <2>2a. i # id /\ i # 0
    BY <1>1, <1>2, <2>2 DEF Sound
  <2>3. /\ Absent(d, i) /\ (\A b \in Clients : b # c => i \notin d.msgs_in[b])
        /\ \A p \in DOMAIN d.retains : d.retains[p] # i
    BY <1>1, <2>1 DEF Waiting
  <2>4. Absent(e, i)
    BY <1>2, <1>4, <2>2a, <2>3 DEF Queued, Added, Absent
  <2>5. \A p \in DOMAIN e.retains : e.retains[p] # i
    BY <1>2, <1>4, <2>2a, <2>3 DEF Queued
  <2>6. ~IsSys(e.store[i])
    <3>1. ~IsSys(d1.store[i])
      BY <1>1, <1>2, <2>1, <2>2 DEF Waiting, Same, IsSys
    <3>2. Same(d1.store, e.store)
      BY <1>4 DEF Queued
    <3> QED
      BY <1>4, <3>1, <3>2, StillOurs
  <2> QED
    BY <2>1, <2>3, <2>4, <2>5, <2>6
<1>6. e.last_db_id = d.last_db_id + 1
  BY <1>2, <1>4 DEF Queued
<1>7. Unused(e.store) \subseteq Unused(d.store)
  BY <1>2, <1>4 DEF Queued
<1> QED
  BY <1>4, <1>5, <1>6, <1>7 DEF Whole, After, e, d1

LEMMA InMoreRefs ==
    ASSUME NEW d \in Mem, NEW e \in Mem, NEW c \in Clients, NEW id, e.retains = d.retains, e.msgs_out = d.msgs_out,
           e.msgs_in = [d.msgs_in EXCEPT ![c] = @ \cup {id}]
    PROVE  AllRefs(e) = AllRefs(d) \cup {InRef(c, id)}
<1>1. RetainRefs(e) = RetainRefs(d) /\ OutRefs(e) = OutRefs(d)
  BY DEF RetainRefs, OutRefs, RetainedNodes
<1>2. d.msgs_in \in [Clients -> SUBSET Nat]
  BY MemParts
<1>3. e.msgs_in[c] = d.msgs_in[c] \cup {id} /\ \A b \in Clients : b # c => e.msgs_in[b] = d.msgs_in[b]
  BY <1>2
<1>4. ASSUME NEW r PROVE r \in InRefs(e) <=> r \in InRefs(d) \cup {InRef(c, id)}
  <2>1. r \in InRefs(e) <=> IsIn(e, r)
    BY InRefsAre
  <2>2. r \in InRefs(d) <=> IsIn(d, r)
    BY InRefsAre
  <2> QED
    BY <1>3, <2>1, <2>2 DEF IsIn
<1>5. InRefs(e) = InRefs(d) \cup {InRef(c, id)}
  BY <1>4
<1> QED
  BY <1>1, <1>5 DEF AllRefs

InLess(d, e, c, id) ==
    /\ e.retains = d.retains /\ e.msgs_out = d.msgs_out
    /\ e.msgs_in = [d.msgs_in EXCEPT ![c] = @ \ {id}]

LEMMA InLessRefs ==
    ASSUME NEW d \in Mem, NEW e \in Mem, NEW c \in Clients, NEW id, InLess(d, e, c, id)
    PROVE  AllRefs(e) = AllRefs(d) \ {InRef(c, id)}
<1>1. RetainRefs(e) = RetainRefs(d) /\ OutRefs(e) = OutRefs(d)
  BY DEF RetainRefs, OutRefs, RetainedNodes, InLess
<1>2. d.msgs_in \in [Clients -> SUBSET Nat]
  BY MemParts
<1>3. e.msgs_in[c] = d.msgs_in[c] \ {id} /\ \A b \in Clients : b # c => e.msgs_in[b] = d.msgs_in[b]
  BY <1>2 DEF InLess
<1>4. ASSUME NEW r PROVE r \in InRefs(e) <=> r \in InRefs(d) \ {InRef(c, id)}
  <2>1. r \in InRefs(e) <=> IsIn(e, r)
    BY InRefsAre
  <2>2. r \in InRefs(d) <=> IsIn(d, r)
    BY InRefsAre
  <2>3. \A b, i : InRef(b, i) = InRef(c, id) <=> b = c /\ i = id
    BY RefsDiffer
  <2> QED
    BY <1>3, <2>1, <2>2, <2>3 DEF IsIn
<1>5. InRefs(e) = InRefs(d) \ {InRef(c, id)}
  BY <1>4
<1>6. InRef(c, id) \notin RetainRefs(d) /\ InRef(c, id) \notin OutRefs(d)
  <2>1. InRef(c, id).kind = "in"
    BY DEF InRef
  <2> QED
    BY <2>1 DEF RetainRefs, RetainRef, OutRefs
<1> QED
  BY <1>1, <1>5, <1>6 DEF AllRefs

\* handle__publish with QoS 2.
\* The same, without a change of the outgoing messages.
AfterIn(d, e) == After(d, e) /\ e.msgs_out = d.msgs_out

LEMMA Publish2Whole ==
    ASSUME NEW d, Whole(d), now \in Nat, NEW c \in Clients, NEW topic \in ClientTopics,
           NEW payload \in BOOLEAN, NEW retain \in BOOLEAN
    PROVE  LET d1 == Store(d, topic, payload, retain, 0)
               e == [RefInc(d1, d1.last_db_id) EXCEPT !.msgs_in[c] = @ \cup {d1.last_db_id}]
           IN  AfterIn(d, e)
<1> DEFINE d1 == Store(d, topic, payload, retain, 0)
           id == d1.last_db_id
           d2 == RefInc(d1, id)
           in == [d2.msgs_in EXCEPT ![c] = @ \cup {id}]
           e == [d2 EXCEPT !.msgs_in[c] = @ \cup {id}]
           x == InRef(c, id)
<1>1. Sound(d, AllRefs(d)) /\ Once(d) /\ Waiting(d)
  BY DEF Whole
<1>2. /\ Sound(d1, AllRefs(d1)) /\ id = d.last_db_id + 1 /\ id \in DOMAIN d1.store /\ id \notin DOMAIN d.store
      /\ Absent(d1, id) /\ Unused(d1.store) \subseteq Unused(d.store) \cup {id}
      /\ d1.msgs_in = d.msgs_in /\ d1.msgs_out = d.msgs_out /\ d1.retains = d.retains
      /\ Same(d1.store, d.store) /\ d1.store[id].topic = topic
  <2>1. StoredIn(d, d1, topic)
    BY <1>1, StoreSound DEF TopicNames
  <2> HIDE DEF d1
  <2> QED
    BY <2>1 DEF StoredIn
<1>3. d1 \in Mem /\ d \in Mem
  BY <1>1, <1>2 DEF Sound
<1> HIDE DEF d1, id
<1>4. x \notin AllRefs(d1) /\ x.to = id
  <2>1. id \notin d1.msgs_in[c]
    BY <1>1, <1>2, WholeRefs
  <2> QED
    BY <1>3, <2>1, InMember, RefsDiffer
<1> HIDE DEF x
<1>5. Sound(d2, AllRefs(d1) \cup {x}) /\ CountedUp(d1, d2, id)
  BY <1>2, <1>4, RefIncSound
<1> HIDE DEF d2
<1>6. d2 \in Mem /\ d2.msgs_in \in [Clients -> SUBSET Nat] /\ id \in Nat
  <2>1. d2 \in Mem
    BY <1>5 DEF Sound
  <2> QED
    BY <1>2, <1>3, <2>1, MemParts
<1>7. OnlyStore(d1, d2) /\ Unused(d2.store) \subseteq Unused(d1.store) \ {id} /\ Same(d1.store, d2.store)
  BY <1>5 DEF CountedUp
<1>8. e = [d2 EXCEPT !.msgs_in = in]
  BY <1>6 DEF Mem
<1>9. in \in [Clients -> SUBSET Nat]
  BY <1>6
<1> HIDE DEF in, e
<1>10. /\ e \in Mem /\ e.msgs_in = in /\ e.store = d2.store /\ e.msgs_out = d2.msgs_out
       /\ e.retains = d2.retains /\ e.last_db_id = d2.last_db_id
  BY <1>6, <1>8, <1>9 DEF Mem
<1>11. AllRefs(e) = AllRefs(d1) \cup {x}
  <2>1. AllRefs(e) = AllRefs(d2) \cup {x}
    BY <1>6, <1>10, InMoreRefs DEF in, x
  <2> QED
    BY <1>7, <2>1, SameRefs
<1>12. AtNodes(e)
  <2>1. AtNodes(d2)
    BY <1>5 DEF Sound
  <2> QED
    BY <1>10, <2>1 DEF AtNodes, RetainedNodes
<1>13. Sound(e, AllRefs(e))
  BY <1>5, <1>10, <1>11, <1>12, StillSound
<1>14. Once(e)
  BY <1>1, <1>2, <1>7, <1>10 DEF Once, OnlyStore
<1>15. e.msgs_in[c] = d.msgs_in[c] \cup {id} /\ \A b \in Clients : b # c => e.msgs_in[b] = d.msgs_in[b]
  BY <1>2, <1>6, <1>7, <1>10 DEF in, OnlyStore
<1>16. Waiting(e)
  <2> SUFFICES ASSUME NEW b \in Clients, NEW i \in e.msgs_in[b]
               PROVE  /\ ~IsSys(e.store[i])
                      /\ Absent(e, i) /\ \A a \in Clients : a # b => i \notin e.msgs_in[a]
                      /\ \A p \in DOMAIN e.retains : e.retains[p] # i
    BY DEF Waiting
  <2>1. e.msgs_out = d.msgs_out /\ e.retains = d.retains
    BY <1>2, <1>7, <1>10 DEF OnlyStore
  <2>2. CASE i = id
    <3>1. Absent(e, i)
      BY <1>2, <2>1, <2>2 DEF Absent
    <3>2. \A a \in Clients : id \notin d.msgs_in[a]
      BY <1>1, <1>2, WholeRefs
    <3>3. b = c
      BY <1>15, <2>2, <3>2
    <3>4. \A p \in DOMAIN d.retains : d.retains[p] # id
      <4> SUFFICES ASSUME NEW p \in DOMAIN d.retains, d.retains[p] = id PROVE FALSE
        OBVIOUS
      <4>1. id # 0
        BY <1>2, <1>3, MemParts
      <4>2. p \in RetainedNodes(d)
        BY <4>1 DEF RetainedNodes
      <4> QED
        BY <1>1, <1>2, <4>2, WholeRefs
    <3>5. ~IsSys(d1.store[i])
      <4>1. topic[1] # "$SYS"
        BY TopicAssumption
      <4> QED
        BY <1>2, <2>2, <4>1 DEF IsSys
    <3>6. ~IsSys(e.store[i])
      BY <1>7, <1>10, <1>13, <3>5, StillOurs
    <3> QED
      BY <1>15, <2>1, <2>2, <3>1, <3>2, <3>3, <3>4, <3>6
  <2>3. CASE i # id
    <3>1. i \in d.msgs_in[b]
      BY <1>15, <2>3
    <3>2. /\ Absent(d, i) /\ (\A a \in Clients : a # b => i \notin d.msgs_in[a])
          /\ \A p \in DOMAIN d.retains : d.retains[p] # i
      BY <1>1, <3>1 DEF Waiting
    <3>3. ~IsSys(d1.store[i])
      <4>1. i \in DOMAIN d.store /\ ~IsSys(d.store[i])
        BY <1>1, <3>1, WholeRefs DEF Waiting
      <4> QED
        BY <1>2, <4>1 DEF Same, IsSys
    <3>4. ~IsSys(e.store[i])
      BY <1>7, <1>10, <1>13, <3>3, StillOurs
    <3> QED
      BY <1>15, <2>1, <2>3, <3>2, <3>4 DEF Absent
  <2> QED
    BY <2>2, <2>3
<1>17. e.last_db_id = d.last_db_id + 1 /\ e.msgs_out = d.msgs_out
  BY <1>2, <1>7, <1>10 DEF OnlyStore, id
<1>18. Unused(e.store) \subseteq Unused(d.store)
  BY <1>2, <1>7, <1>10
<1> QED
  BY <1>13, <1>14, <1>16, <1>17, <1>18 DEF Whole, After, AfterIn, e, d2, id, d1

\* db__message_release_incoming.
LEMMA ReleaseWhole ==
    ASSUME NEW d, Whole(d), NEW c \in Clients, NEW id \in d.msgs_in[c], NEW to \in Seq(Clients)
    PROVE  After(d, RefDec([MessagesQueue(d, id, to) EXCEPT !.msgs_in[c] = @ \ {id}], id))
<1> DEFINE d1 == MessagesQueue(d, id, to)
           in == [d1.msgs_in EXCEPT ![c] = @ \ {id}]
           d2 == [d1 EXCEPT !.msgs_in[c] = @ \ {id}]
           e == RefDec(d2, id)
           x == InRef(c, id)
<1>1. Sound(d, AllRefs(d)) /\ Once(d) /\ Waiting(d)
  BY DEF Whole
<1>2. id \in DOMAIN d.store /\ Absent(d, id)
  BY <1>1, WholeRefs DEF Waiting
<1>3. Sound(d1, AllRefs(d1)) /\ Once(d1) /\ Queued(d, d1, id)
  BY <1>1, <1>2, MessagesQueueSound
<1>4. d1 \in Mem /\ d1.msgs_in \in [Clients -> SUBSET Nat] /\ d1.msgs_in = d.msgs_in
  BY <1>3, MemParts DEF Sound, Queued
<1> HIDE DEF d1
<1>5. d2 = [d1 EXCEPT !.msgs_in = in]
  BY <1>4 DEF Mem
<1>6. in \in [Clients -> SUBSET Nat]
  BY <1>4
<1> HIDE DEF in, d2
<1>7. /\ d2 \in Mem /\ d2.msgs_in = in /\ d2.store = d1.store /\ d2.msgs_out = d1.msgs_out
      /\ d2.retains = d1.retains /\ d2.last_db_id = d1.last_db_id
  BY <1>4, <1>5, <1>6 DEF Mem
<1>8. AllRefs(d2) = AllRefs(d1) \ {x}
  <2>1. d1 \in Mem /\ d2 \in Mem /\ InLess(d1, d2, c, id)
    BY <1>4, <1>7 DEF in, InLess
  <2> QED
    BY <2>1, InLessRefs
<1>9. x \in AllRefs(d1) /\ x.to = id
  BY <1>4, InMember, RefsDiffer
<1> HIDE DEF x
<1>10. Sound(d2, AllRefs(d1))
  <2>1. AtNodes(d2)
    <3>1. AtNodes(d1)
      BY <1>3 DEF Sound
    <3> QED
      BY <1>7, <3>1 DEF AtNodes, RetainedNodes
  <2> QED
    BY <1>3, <1>7, <2>1, StillSound
<1>11. Sound(e, AllRefs(d1) \ {x}) /\ CountedDown(d2, e, id)
  BY <1>9, <1>10, RefDecSound
<1> HIDE DEF e
<1>12. OnlyStore(d2, e) /\ Unused(e.store) \subseteq Unused(d2.store) /\ Same(d2.store, e.store)
  BY <1>11 DEF CountedDown
<1>13. Sound(e, AllRefs(e))
  BY <1>8, <1>11, <1>12, SameRefs
<1>14. Once(e)
  BY <1>3, <1>7, <1>12 DEF Once, OnlyStore
<1>15. e.msgs_in[c] = d.msgs_in[c] \ {id} /\ \A b \in Clients : b # c => e.msgs_in[b] = d.msgs_in[b]
  BY <1>4, <1>7, <1>12 DEF in, OnlyStore
<1>16. Waiting(e)
  <2> SUFFICES ASSUME NEW b \in Clients, NEW i \in e.msgs_in[b]
               PROVE  /\ ~IsSys(e.store[i])
                      /\ Absent(e, i) /\ \A a \in Clients : a # b => i \notin e.msgs_in[a]
                      /\ \A p \in DOMAIN e.retains : e.retains[p] # i
    BY DEF Waiting
  <2>1. i # id /\ i \in d.msgs_in[b]
    BY <1>1, <1>15 DEF Waiting
  <2>2. /\ Absent(d, i) /\ (\A a \in Clients : a # b => i \notin d.msgs_in[a])
        /\ \A p \in DOMAIN d.retains : d.retains[p] # i
    BY <1>1, <2>1 DEF Waiting
  <2>3. i # 0
    <3>1. i \in DOMAIN d.store
      BY <1>1, <2>1, WholeRefs
    <3> QED
      BY <1>1, <3>1 DEF Sound
  <2>4. Absent(e, i)
    BY <1>3, <1>7, <1>12, <2>1, <2>2 DEF Queued, Added, Absent, OnlyStore
  <2>5. \A p \in DOMAIN e.retains : e.retains[p] # i
    BY <1>3, <1>7, <1>12, <2>1, <2>2, <2>3 DEF Queued, OnlyStore
  <2>6. ~IsSys(e.store[i])
    <3>1. ~IsSys(d.store[i])
      BY <1>1, <2>1 DEF Waiting
    <3>2. Same(d.store, d1.store) /\ Same(d1.store, e.store)
      BY <1>3, <1>7, <1>12 DEF Queued
    <3>3. Same(d.store, e.store)
      BY <3>2, SameMore
    <3> QED
      BY <1>13, <3>1, <3>3, StillOurs
  <2> QED
    BY <1>15, <2>2, <2>4, <2>5, <2>6
<1>17. e.last_db_id = d.last_db_id /\ Unused(e.store) \subseteq Unused(d.store)
  BY <1>3, <1>7, <1>12 DEF Queued, OnlyStore
<1> QED
  BY <1>13, <1>14, <1>16, <1>17 DEF Whole, After, e, d2, d1

\* References that change their places.
LEMMA BalancedMoved ==
    ASSUME NEW s, NEW R, NEW S, Balanced(s, R), NEW f \in [R -> S],
           \A a, b \in R : f[a] = f[b] => a = b,
           \A y \in S : \E a \in R : f[a] = y,
           \A a \in R : f[a].to = a.to
    PROVE  Balanced(s, S)
<1>1. IsFiniteSet(R) /\ f \in Bijection(R, S)
  BY DEF Balanced, Bijection, Injection, Surjection, IsInjective
<1>2. IsFiniteSet(S)
  BY <1>1, FS_Bijection DEF ExistsBijection
<1>3. \A y \in S : y.to \in DOMAIN s
  BY DEF Balanced
<1>4. ASSUME NEW id \in DOMAIN s PROVE s[id].ref_count = Cardinality({y \in S : y.to = id})
  <2> DEFINE A == {a \in R : a.to = id}
             B == {y \in S : y.to = id}
             g == [a \in A |-> f[a]]
  <2>1. g \in Bijection(A, B)
    <3>1. g \in [A -> B]
      OBVIOUS
    <3>2. \A a, b \in A : g[a] = g[b] => a = b
      OBVIOUS
    <3>3. \A y \in B : \E a \in A : g[a] = y
      OBVIOUS
    <3> HIDE DEF g, A, B
    <3> QED
      BY <3>1, <3>2, <3>3 DEF Bijection, Injection, Surjection, IsInjective
  <2>2. IsFiniteSet(A)
    BY <1>1, FS_Subset
  <2> HIDE DEF g, A, B
  <2>3. Cardinality(B) = Cardinality(A)
    BY <2>1, <2>2, FS_Bijection DEF ExistsBijection
  <2> QED
    BY <2>3 DEF Balanced, A, B
<1> QED
  BY <1>2, <1>3, <1>4 DEF Balanced

\* What a list holds is what another held, at other places.
Moved(d, e) ==
    \A b \in Clients : \E h \in [DOMAIN e.msgs_out[b] -> DOMAIN d.msgs_out[b]] :
        /\ \A i, j \in DOMAIN e.msgs_out[b] : h[i] = h[j] => i = j
        /\ \A i \in DOMAIN e.msgs_out[b] : e.msgs_out[b][i] = d.msgs_out[b][h[i]]

LEMMA MovedOnce ==
    ASSUME NEW d, NEW e, Moved(d, e), Once(d)
    PROVE  Once(e)
<1> SUFFICES ASSUME NEW b \in Clients \ V5, NEW i \in DOMAIN e.msgs_out[b], NEW j \in DOMAIN e.msgs_out[b],
                    e.msgs_out[b][i].id = e.msgs_out[b][j].id,
                    ~e.msgs_out[b][i].retain, ~e.msgs_out[b][j].retain
             PROVE  i = j
  BY DEF Once
<1>1. PICK h \in [DOMAIN e.msgs_out[b] -> DOMAIN d.msgs_out[b]] :
         /\ \A x, y \in DOMAIN e.msgs_out[b] : h[x] = h[y] => x = y
         /\ \A x \in DOMAIN e.msgs_out[b] : e.msgs_out[b][x] = d.msgs_out[b][h[x]]
  BY DEF Moved
<1>2. h[i] \in DOMAIN d.msgs_out[b] /\ h[j] \in DOMAIN d.msgs_out[b]
  BY <1>1
<1>3. h[i] = h[j]
  BY <1>1, <1>2 DEF Once
<1> QED
  BY <1>1, <1>3

LEMMA MovedAbsent ==
    ASSUME NEW d, NEW e, Moved(d, e), NEW id, Absent(d, id)
    PROVE  Absent(e, id)
<1> SUFFICES ASSUME NEW b \in Clients, NEW i \in DOMAIN e.msgs_out[b]
             PROVE  e.msgs_out[b][i].id # id
  BY DEF Absent
<1>1. PICK h \in [DOMAIN e.msgs_out[b] -> DOMAIN d.msgs_out[b]] :
         \A x \in DOMAIN e.msgs_out[b] : e.msgs_out[b][x] = d.msgs_out[b][h[x]]
  BY DEF Moved
<1>2. h[i] \in DOMAIN d.msgs_out[b]
  BY <1>1
<1> QED
  BY <1>1, <1>2 DEF Absent

\* A message leaves the list of c.
ListLess(d, e, c, n) ==
    /\ e.retains = d.retains /\ e.msgs_in = d.msgs_in
    /\ e.msgs_out = [d.msgs_out EXCEPT ![c] = RemoveAt(@, n)]

LEMMA OneLess ==
    ASSUME NEW d \in Mem, NEW e \in Mem, NEW c \in Clients, NEW n \in DOMAIN d.msgs_out[c], ListLess(d, e, c, n)
    PROVE  LET s == d.msgs_out[c]
               t == e.msgs_out[c]
           IN  /\ n \in Nat /\ Len(s) \in Nat /\ n \in 1..Len(s) /\ DOMAIN s = 1..Len(s) /\ DOMAIN t = 1..(Len(s) - 1)
               /\ \A i \in 1..(Len(s) - 1) : t[i] = IF i < n THEN s[i] ELSE s[i + 1]
               /\ \A b \in Clients : b # c => e.msgs_out[b] = d.msgs_out[b]
<1> DEFINE s == d.msgs_out[c]
<1>1. /\ s \in Seq(Entry) /\ Len(s) \in Nat /\ DOMAIN s = 1..Len(s) /\ d.msgs_out \in [Clients -> Seq(Entry)]
  BY MemParts, EntryParts
<1>2. e.msgs_out[c] = RemoveAt(s, n) /\ \A b \in Clients : b # c => e.msgs_out[b] = d.msgs_out[b]
  BY <1>1 DEF ListLess
<1> HIDE DEF s
<1>3. n \in 1..Len(s)
  BY <1>1, SMTT(30) DEF s
<1>4. /\ RemoveAt(s, n) \in Seq(Entry) /\ Len(RemoveAt(s, n)) = Len(s) - 1
      /\ \A i \in 1..(Len(s) - 1) : RemoveAt(s, n)[i] = IF i < n THEN s[i] ELSE s[i + 1]
  BY <1>1, <1>3, RemoveAtKeeps, Zenon
<1>5. DOMAIN RemoveAt(s, n) = 1..(Len(s) - 1)
  BY <1>4, LenProperties
<1>6. n \in Nat
  BY <1>1, <1>3
<1> QED
  BY <1>1, <1>2, <1>3, <1>4, <1>5, <1>6 DEF s

LEMMA LessMoved ==
    ASSUME NEW d \in Mem, NEW e \in Mem, NEW c \in Clients, NEW n \in DOMAIN d.msgs_out[c], ListLess(d, e, c, n)
    PROVE  Moved(d, e)
<1> DEFINE s == d.msgs_out[c]
           t == e.msgs_out[c]
<1>1. /\ n \in Nat /\ Len(s) \in Nat /\ n \in 1..Len(s) /\ DOMAIN s = 1..Len(s) /\ DOMAIN t = 1..(Len(s) - 1)
      /\ \A i \in 1..(Len(s) - 1) : t[i] = IF i < n THEN s[i] ELSE s[i + 1]
      /\ \A b \in Clients : b # c => e.msgs_out[b] = d.msgs_out[b]
  BY OneLess
<1> SUFFICES ASSUME NEW b \in Clients
             PROVE  \E h \in [DOMAIN e.msgs_out[b] -> DOMAIN d.msgs_out[b]] :
                       /\ \A i, j \in DOMAIN e.msgs_out[b] : h[i] = h[j] => i = j
                       /\ \A i \in DOMAIN e.msgs_out[b] : e.msgs_out[b][i] = d.msgs_out[b][h[i]]
  BY DEF Moved
<1>2. CASE b # c
  <2>1. e.msgs_out[b] = d.msgs_out[b]
    BY <1>1, <1>2
  <2> DEFINE h == [i \in DOMAIN e.msgs_out[b] |-> i]
  <2>2. h \in [DOMAIN e.msgs_out[b] -> DOMAIN d.msgs_out[b]]
    BY <2>1
  <2> QED
    BY <2>1, <2>2
<1>3. CASE b = c
  <2> HIDE DEF s, t
  <2> DEFINE h == [i \in DOMAIN t |-> IF i < n THEN i ELSE i + 1]
  <2>1. h \in [DOMAIN t -> DOMAIN s]
    BY <1>1
  <2>2. \A i, j \in DOMAIN t : h[i] = h[j] => i = j
    BY <1>1
  <2>3. \A i \in DOMAIN t : t[i] = s[h[i]]
    BY <1>1
  <2> HIDE DEF h
  <2> QED
    BY <1>3, <2>1, <2>2, <2>3 DEF s, t
<1> QED
  BY <1>2, <1>3

LEMMA LessRefs ==
    ASSUME NEW d \in Mem, NEW e \in Mem, NEW c \in Clients, NEW n \in DOMAIN d.msgs_out[c], ListLess(d, e, c, n),
           NEW store, Balanced(store, AllRefs(d) \ {OutRef(c, n, d.msgs_out[c][n].id)})
    PROVE  Balanced(store, AllRefs(e))
<1> DEFINE s == d.msgs_out[c]
           t == e.msgs_out[c]
           x == OutRef(c, n, s[n].id)
           R == AllRefs(d) \ {x}
           late(r) == r.kind = "out" /\ r.at = c /\ r.pos > n
           f == [r \in R |-> IF late(r) THEN OutRef(c, r.pos - 1, r.to) ELSE r]
<1>1. /\ n \in Nat /\ Len(s) \in Nat /\ n \in 1..Len(s) /\ DOMAIN s = 1..Len(s) /\ DOMAIN t = 1..(Len(s) - 1)
      /\ \A i \in 1..(Len(s) - 1) : t[i] = IF i < n THEN s[i] ELSE s[i + 1]
      /\ \A b \in Clients : b # c => e.msgs_out[b] = d.msgs_out[b]
  BY OneLess
<1>2. RetainRefs(e) = RetainRefs(d) /\ InRefs(e) = InRefs(d)
  BY DEF RetainRefs, InRefs, RetainedNodes, ListLess
<1>3. \A k : OutRef(c, k, s[k].id) \in AllRefs(d) <=> k \in 1..Len(s)
  BY <1>1, OutMember
<1>4. \A k : OutRef(c, k, t[k].id) \in AllRefs(e) <=> k \in 1..(Len(s) - 1)
  BY <1>1, OutMember
<1>5. \A r : (r \in RetainRefs(d) => r.kind = "retain") /\ (r \in InRefs(d) => r.kind = "in")
  BY DEF RetainRefs, RetainRef, InRefs
\* The references of d are those of c and those that stay.
<1>6. ASSUME NEW r \in AllRefs(d)
      PROVE  \/ ~(r.kind = "out" /\ r.at = c) /\ r \in AllRefs(e)
             \/ \E k \in 1..Len(s) : r = OutRef(c, k, s[k].id)
  <2>1. CASE r \in RetainRefs(d) \cup InRefs(d)
    <3>1. r \in AllRefs(e) /\ r.kind # "out"
      BY <1>2, <1>5, <2>1 DEF AllRefs
    <3> QED
      BY <3>1
  <2>2. CASE r \in OutRefs(d)
    <3>1. PICK b \in Clients : \E k \in DOMAIN d.msgs_out[b] : r = OutRef(b, k, d.msgs_out[b][k].id)
      BY <2>2, OutRefsAre DEF IsOut
    <3>2. PICK k \in DOMAIN d.msgs_out[b] : r = OutRef(b, k, d.msgs_out[b][k].id)
      BY <3>1
    <3>3. CASE b = c
      BY <1>1, <3>2, <3>3
    <3>4. CASE b # c
      <4>1. r.at = b
        BY <3>2 DEF OutRef
      <4>2. IsOut(e, r)
        BY <1>1, <3>2, <3>4 DEF IsOut
      <4>3. r \in AllRefs(e)
        BY <4>2, OutRefsAre DEF AllRefs
      <4> QED
        BY <3>4, <4>1, <4>3
    <3> QED
      BY <3>3, <3>4
  <2> QED
    BY <2>1, <2>2 DEF AllRefs
<1>7. ASSUME NEW r \in AllRefs(e)
      PROVE  \/ ~(r.kind = "out" /\ r.at = c) /\ r \in AllRefs(d)
             \/ \E k \in 1..(Len(s) - 1) : r = OutRef(c, k, t[k].id)
  <2>1. CASE r \in RetainRefs(d) \cup InRefs(d)
    <3>1. r \in AllRefs(d) /\ r.kind # "out"
      BY <1>5, <2>1 DEF AllRefs
    <3> QED
      BY <3>1
  <2>2. CASE r \in OutRefs(e)
    <3>0. IsOut(e, r)
      BY <2>2, OutRefsAre
    <3>1. PICK b \in Clients : \E k \in DOMAIN e.msgs_out[b] : r = OutRef(b, k, e.msgs_out[b][k].id)
      BY <3>0 DEF IsOut
    <3>2. PICK k \in DOMAIN e.msgs_out[b] : r = OutRef(b, k, e.msgs_out[b][k].id)
      BY <3>1
    <3>3. CASE b = c
      BY <1>1, <3>2, <3>3
    <3>4. CASE b # c
      <4>1. r.at = b
        BY <3>2 DEF OutRef
      <4>2. IsOut(d, r)
        BY <1>1, <3>2, <3>4 DEF IsOut
      <4>3. r \in AllRefs(d)
        BY <4>2, OutRefsAre DEF AllRefs
      <4> QED
        BY <3>4, <4>1, <4>3
    <3> QED
      BY <3>3, <3>4
  <2> QED
    BY <1>2, <2>1, <2>2 DEF AllRefs
<1> HIDE DEF s, t
<1>8. \A k, i : LET r == OutRef(c, k, i) IN r.kind = "out" /\ r.at = c /\ r.pos = k /\ r.to = i
  BY DEF OutRef
<1>9. ASSUME NEW r \in R
      PROVE  /\ f[r] \in AllRefs(e) /\ f[r].to = r.to
             /\ \/ ~(r.kind = "out" /\ r.at = c) /\ f[r] = r
                \/ \E k \in 1..Len(s) : k # n /\ r = OutRef(c, k, s[k].id)
                      /\ f[r] = OutRef(c, IF k < n THEN k ELSE k - 1, s[k].id)
  <2>0. f[r] = IF late(r) THEN OutRef(c, r.pos - 1, r.to) ELSE r
    OBVIOUS
  <2> HIDE DEF f
  <2>1. CASE ~(r.kind = "out" /\ r.at = c) /\ r \in AllRefs(e)
    BY <2>0, <2>1
  <2>2. CASE \E k \in 1..Len(s) : r = OutRef(c, k, s[k].id)
    <3>1. PICK k \in 1..Len(s) : r = OutRef(c, k, s[k].id)
      BY <2>2
    <3>2. k # n
      BY <3>1 DEF x
    <3>3. r.kind = "out" /\ r.at = c /\ r.pos = k /\ r.to = s[k].id
      BY <1>8, <3>1
    <3> DEFINE j == IF k < n THEN k ELSE k - 1
    <3>4. j \in 1..(Len(s) - 1) /\ t[j] = s[k]
      <4>1. j \in 1..(Len(s) - 1)
        BY <1>1, <3>2
      <4>2. CASE k < n
        BY <1>1, <4>1, <4>2
      <4>3. CASE ~(k < n)
        <5>1. j = k - 1 /\ ~(j < n) /\ j + 1 = k
          BY <1>1, <3>2, <4>3
        <5> HIDE DEF j
        <5> QED
          BY <1>1, <4>1, <5>1
      <4> QED
        BY <4>2, <4>3
    <3>5. f[r] = OutRef(c, j, s[k].id)
      <4>1. CASE k < n
        <5>1. ~late(r)
          BY <1>1, <3>3, <4>1
        <5> QED
          BY <2>0, <3>1, <4>1, <5>1
      <4>2. CASE ~(k < n)
        <5>1. late(r)
          BY <1>1, <3>2, <3>3, <4>2
        <5> QED
          BY <2>0, <3>3, <4>2, <5>1
      <4> QED
        BY <4>1, <4>2
    <3>6. f[r] = OutRef(c, j, t[j].id) /\ f[r].to = s[k].id
      BY <1>8, <3>4, <3>5
    <3>7. f[r] \in AllRefs(e)
      BY <1>4, <3>4, <3>6
    <3> QED
      BY <3>1, <3>2, <3>3, <3>5, <3>6, <3>7
  <2> QED
    BY <1>6, <2>1, <2>2
<1>10. f \in [R -> AllRefs(e)]
  BY <1>9
<1>11. ASSUME NEW a \in R, NEW b \in R, f[a] = f[b] PROVE a = b
  <2>1. CASE f[a] = a /\ ~(a.kind = "out" /\ a.at = c)
    <3>1. ~(\E k \in 1..Len(s) : k # n /\ b = OutRef(c, k, s[k].id)
                      /\ f[b] = OutRef(c, IF k < n THEN k ELSE k - 1, s[k].id))
      BY <1>8, <1>11, <2>1
    <3> HIDE DEF f, R
    <3> QED
      BY <1>9, <1>11, <2>1, <3>1
  <2>2. CASE \E k \in 1..Len(s) : k # n /\ a = OutRef(c, k, s[k].id)
                      /\ f[a] = OutRef(c, IF k < n THEN k ELSE k - 1, s[k].id)
    <3>1. PICK k \in 1..Len(s) : k # n /\ a = OutRef(c, k, s[k].id)
                      /\ f[a] = OutRef(c, IF k < n THEN k ELSE k - 1, s[k].id)
      BY <2>2
    <3>2. CASE f[b] = b /\ ~(b.kind = "out" /\ b.at = c)
      BY <1>8, <1>11, <3>1, <3>2
    <3>3. CASE \E l \in 1..Len(s) : l # n /\ b = OutRef(c, l, s[l].id)
                      /\ f[b] = OutRef(c, IF l < n THEN l ELSE l - 1, s[l].id)
      <4>1. PICK l \in 1..Len(s) : l # n /\ b = OutRef(c, l, s[l].id)
                      /\ f[b] = OutRef(c, IF l < n THEN l ELSE l - 1, s[l].id)
        BY <3>3
      <4>2. (IF k < n THEN k ELSE k - 1) = (IF l < n THEN l ELSE l - 1)
        BY <1>11, <3>1, <4>1, RefsDiffer
      <4>3. k = l
        BY <1>1, <3>1, <4>1, <4>2
      <4> QED
        BY <3>1, <4>1, <4>3
    <3> QED
      BY <1>9, <3>2, <3>3
  <2> QED
    BY <1>9, <2>1, <2>2
<1>12. ASSUME NEW y \in AllRefs(e) PROVE \E a \in R : f[a] = y
  <2>1. CASE ~(y.kind = "out" /\ y.at = c) /\ y \in AllRefs(d)
    <3>1. y # x
      BY <1>8, <2>1
    <3>2. y \in R /\ f[y] = y
      BY <2>1, <3>1
    <3> QED
      BY <3>2
  <2>2. CASE \E k \in 1..(Len(s) - 1) : y = OutRef(c, k, t[k].id)
    <3>1. PICK k \in 1..(Len(s) - 1) : y = OutRef(c, k, t[k].id)
      BY <2>2
    <3> DEFINE j == IF k < n THEN k ELSE k + 1
               a == OutRef(c, j, s[j].id)
    <3>2. j \in 1..Len(s) /\ j # n /\ t[k] = s[j] /\ (j > n <=> ~(k < n))
      <4>1. CASE k < n
        BY <1>1, <4>1
      <4>2. CASE ~(k < n)
        BY <1>1, <4>2
      <4> QED
        BY <4>1, <4>2
    <3>3. a \in AllRefs(d) /\ a # x
      BY <1>3, <3>2, RefsDiffer
    <3>4. a \in R
      BY <3>3
    <3>5. a.kind = "out" /\ a.at = c /\ a.pos = j /\ a.to = s[j].id
      BY <1>8
    <3> HIDE DEF a
    <3>6. f[a] = y
      <4>1. CASE k < n
        <5>1. ~late(a) /\ j = k
          BY <3>2, <3>5, <4>1
        <5>2. f[a] = a
          BY <3>4, <5>1
        <5> QED
          BY <3>1, <3>2, <5>1, <5>2 DEF a
      <4>2. CASE ~(k < n)
        <5>1. late(a) /\ a.pos - 1 = k
          BY <3>2, <3>5, <4>2
        <5>2. f[a] = OutRef(c, k, a.to)
          BY <3>4, <5>1
        <5> QED
          BY <3>1, <3>2, <3>5, <5>2
      <4> QED
        BY <4>1, <4>2
    <3> QED
      BY <3>4, <3>6
  <2> QED
    BY <1>7, <2>1, <2>2
<1>13. Balanced(store, R)
  BY DEF s
<1>14. /\ \A a, b \in R : f[a] = f[b] => a = b
       /\ \A y \in AllRefs(e) : \E a \in R : f[a] = y
       /\ \A a \in R : f[a].to = a.to
  BY <1>9, <1>11, <1>12, SMTT(30)
<1> HIDE DEF f, R
<1> QED
  BY <1>10, <1>13, <1>14, BalancedMoved

\* No list is longer than the bound.
Short(d) == \A c \in Clients : Len(d.msgs_out[c]) <= MaxList

\* db__message_remove.
LEMMA FinishWhole ==
    ASSUME NEW d, Whole(d), NEW c \in Clients, NEW n \in DOMAIN d.msgs_out[c]
    PROVE  LET e == [RefDec(d, d.msgs_out[c][n].id) EXCEPT !.msgs_out[c] = RemoveAt(@, n)]
           IN  After(d, e) /\ (Short(d) => Short(e))
<1> DEFINE id == d.msgs_out[c][n].id
           d1 == RefDec(d, id)
           out == [d1.msgs_out EXCEPT ![c] = RemoveAt(@, n)]
           e == [d1 EXCEPT !.msgs_out[c] = RemoveAt(@, n)]
           x == OutRef(c, n, id)
<1>1. Sound(d, AllRefs(d)) /\ Once(d) /\ Waiting(d) /\ d \in Mem
  BY DEF Whole, Sound
<1>2. x \in AllRefs(d) /\ x.to = id
  BY <1>1, OutMember, RefsDiffer
<1> HIDE DEF x
<1>3. Sound(d1, AllRefs(d) \ {x}) /\ CountedDown(d, d1, id)
  <2> HIDE DEF id
  <2> QED
    BY <1>1, <1>2, RefDecSound, SMTT(30)
<1>4. OnlyStore(d, d1) /\ Unused(d1.store) \subseteq Unused(d.store) /\ Same(d.store, d1.store)
  BY <1>3 DEF CountedDown
<1> HIDE DEF d1
<1>5. d1 \in Mem /\ d1.msgs_out \in [Clients -> Seq(Entry)]
  <2>1. d1 \in Mem
    BY <1>3 DEF Sound
  <2> QED
    BY <2>1, MemParts
<1>6. e = [d1 EXCEPT !.msgs_out = out]
  BY <1>5 DEF Mem
<1>7. n \in 1..Len(d1.msgs_out[c])
  <2>1. d1.msgs_out = d.msgs_out
    BY <1>4 DEF OnlyStore
  <2>2. DOMAIN d.msgs_out[c] = 1..Len(d.msgs_out[c])
    BY <1>1, EntryParts
  <2> QED
    BY <2>1, <2>2
<1>8. out \in [Clients -> Seq(Entry)]
  <2>1. RemoveAt(d1.msgs_out[c], n) \in Seq(Entry)
    <3> DEFINE s == d1.msgs_out[c]
    <3>1. s \in Seq(Entry) /\ n \in 1..Len(s)
      BY <1>5, <1>7
    <3> HIDE DEF s
    <3>2. RemoveAt(s, n) \in Seq(Entry)
      BY <3>1, RemoveAtKeeps
    <3> QED
      BY <3>2 DEF s
  <2> QED
    BY <1>5, <2>1
<1> HIDE DEF out, e
<1>9. /\ e \in Mem /\ e.msgs_out = out /\ e.store = d1.store /\ e.msgs_in = d1.msgs_in
      /\ e.retains = d1.retains /\ e.last_db_id = d1.last_db_id
  BY <1>5, <1>6, <1>8 DEF Mem
<1>10. ListLess(d, e, c, n)
  BY <1>4, <1>9 DEF ListLess, OnlyStore, out
<1>11. Balanced(e.store, AllRefs(e))
  <2>1. Balanced(e.store, AllRefs(d) \ {OutRef(c, n, d.msgs_out[c][n].id)})
    BY <1>3, <1>9 DEF Sound, x
  <2> QED
    BY <1>1, <1>9, <1>10, <2>1, LessRefs
<1>12. AtNodes(e)
  <2>1. AtNodes(d1)
    BY <1>3 DEF Sound
  <2> QED
    BY <1>9, <2>1 DEF AtNodes, RetainedNodes
<1>13. Sound(e, AllRefs(e))
  <2>1. DOMAIN d1.store \subseteq 1..d1.last_db_id
    BY <1>3 DEF Sound
  <2> QED
    BY <1>9, <1>11, <1>12, <2>1 DEF Sound
<1>14. Moved(d, e)
  BY <1>1, <1>9, <1>10, LessMoved
<1>15. Waiting(e)
  <2> SUFFICES ASSUME NEW b \in Clients, NEW i \in e.msgs_in[b]
               PROVE  /\ ~IsSys(e.store[i])
                      /\ Absent(e, i) /\ \A a \in Clients : a # b => i \notin e.msgs_in[a]
                      /\ \A p \in DOMAIN e.retains : e.retains[p] # i
    BY DEF Waiting
  <2>1. e.msgs_in = d.msgs_in /\ e.retains = d.retains
    BY <1>10 DEF ListLess
  <2>2. /\ Absent(d, i) /\ (\A a \in Clients : a # b => i \notin d.msgs_in[a])
        /\ \A p \in DOMAIN d.retains : d.retains[p] # i
    BY <1>1, <2>1 DEF Waiting
  <2>3. ~IsSys(d.store[i])
    BY <1>1, <2>1 DEF Waiting
  <2>4. ~IsSys(e.store[i])
    BY <1>4, <1>9, <1>13, <2>3, StillOurs
  <2> QED
    BY <1>14, <2>1, <2>2, <2>4, MovedAbsent
<1>16. Once(e)
  BY <1>1, <1>14, MovedOnce
<1>17. e.last_db_id = d.last_db_id /\ Unused(e.store) \subseteq Unused(d.store)
  BY <1>4, <1>9 DEF OnlyStore
<1>18. ASSUME Short(d) PROVE Short(e)
  <2> SUFFICES ASSUME NEW b \in Clients PROVE Len(e.msgs_out[b]) <= MaxList
    BY DEF Short
  <2>1. CASE b # c
    <3>1. e.msgs_out[b] = d.msgs_out[b]
      BY <1>1, <1>9, <1>10, <2>1, OneLess
    <3> QED
      BY <1>18, <3>1 DEF Short
  <2>2. CASE b = c
    <3>1. Len(d.msgs_out[c]) \in Nat /\ DOMAIN e.msgs_out[c] = 1..(Len(d.msgs_out[c]) - 1)
          /\ n \in 1..Len(d.msgs_out[c])
      BY <1>1, <1>9, <1>10, OneLess
    <3>2. DOMAIN e.msgs_out[c] = 1..Len(e.msgs_out[c]) /\ Len(e.msgs_out[c]) \in Nat
      BY <1>9, EntryParts
    <3>3. Len(e.msgs_out[c]) <= Len(d.msgs_out[c])
      <4> DEFINE k == Len(e.msgs_out[c])
                 l == Len(d.msgs_out[c])
      <4>1. k \in Nat /\ l \in Nat /\ 1..k = 1..(l - 1) /\ l >= 1
        BY <3>1, <3>2, SMTT(30)
      <4> HIDE DEF k, l
      <4>2. k = 0 \/ k \in 1..(l - 1)
        BY <4>1
      <4>3. k <= l
        BY <4>1, <4>2
      <4> QED
        BY <4>3 DEF k, l
    <3>4. Len(d.msgs_out[c]) <= MaxList /\ MaxList \in Nat
      BY <1>18, BoundAssumption DEF Short
    <3> QED
      BY <2>2, <3>1, <3>2, <3>3, <3>4
  <2> QED
    BY <2>1, <2>2
<1> QED
  BY <1>13, <1>15, <1>16, <1>17, <1>18, Zenon DEF Whole, After, e, d1
----------------------------------------------------------------------------
(* Retained messages for a new subscription.                               *)

\* What retain__queue has done to e.base after the nodes of t.
RetainInv(e, t, d) ==
    /\ Sound(d, AllRefs(d)) /\ Once(d)
    /\ d.msgs_in = e.base.msgs_in /\ d.last_db_id = e.base.last_db_id
    /\ Unused(d.store) \subseteq Unused(e.base.store) /\ Same(e.base.store, d.store)
    /\ DOMAIN d.retains = DOMAIN e.base.retains
    /\ \A p \in DOMAIN d.retains : /\ d.retains[p] \in {0, e.base.retains[p]}
                                   /\ p \in e.nodes \ t => d.retains[p] = e.base.retains[p]
    /\ \A b \in Clients : \A n \in DOMAIN d.msgs_out[b] :
          \/ n \in DOMAIN e.base.msgs_out[b] /\ d.msgs_out[b][n] = e.base.msgs_out[b][n]
          \/ \E p \in RetainedNodes(e.base) : d.msgs_out[b][n].id = e.base.retains[p]

RetainLoop == INSTANCE Loops WITH
    Op  <- LAMBDA e, d, p : RetainProcess(d, e.c, p),
    Inv <- RetainInv

LEMMA RetainStep ==
    ASSUME NEW e, e.c \in Clients, e.nodes \subseteq RetainedNodes(e.base),
           NEW t, NEW node \in e.nodes, node \notin t, NEW d, RetainInv(e, t, d)
    PROVE  RetainInv(e, t \cup {node}, RetainProcess(d, e.c, node))
<1> DEFINE id == d.retains[node]
           c == e.c
           g == RetainProcess(d, c, node)
<1>1. /\ Sound(d, AllRefs(d)) /\ Once(d)
      /\ d.msgs_in = e.base.msgs_in /\ d.last_db_id = e.base.last_db_id
      /\ Unused(d.store) \subseteq Unused(e.base.store) /\ Same(e.base.store, d.store)
      /\ DOMAIN d.retains = DOMAIN e.base.retains
      /\ \A p \in DOMAIN d.retains : /\ d.retains[p] \in {0, e.base.retains[p]}
                                     /\ p \in e.nodes \ t => d.retains[p] = e.base.retains[p]
      /\ \A b \in Clients : \A n \in DOMAIN d.msgs_out[b] :
            \/ n \in DOMAIN e.base.msgs_out[b] /\ d.msgs_out[b][n] = e.base.msgs_out[b][n]
            \/ \E p \in RetainedNodes(e.base) : d.msgs_out[b][n].id = e.base.retains[p]
  BY DEF RetainInv
<1>2. /\ d \in Mem /\ d.retains \in [DOMAIN d.retains -> Nat] /\ DOMAIN d.retains \subseteq Seq(Level)
      /\ DOMAIN d.store \subseteq Nat /\ DOMAIN d.retains \in Rooted
  BY <1>1, MemParts DEF Sound
<1>3. node \in RetainedNodes(e.base) /\ node \in RetainedNodes(d) /\ id = e.base.retains[node] /\ id # 0
      /\ node \in DOMAIN d.retains
  BY <1>1 DEF RetainedNodes
<1>4. id \in DOMAIN d.store
  BY <1>1, <1>3, WholeRefs
<1>5. CASE d.store[id].expiry > 0 /\ now >= d.store[id].expiry
  <2> DEFINE d1 == RefDec(d, id)
             x == RetainRef(node, id)
             r == [d1.retains EXCEPT ![node] = 0]
  <2>1. g = [d1 EXCEPT !.retains[node] = 0]
    BY <1>5 DEF RetainProcess
  <2>2. x \in AllRefs(d) /\ x.to = id
    BY <1>2, <1>3, RetainMember, RefsDiffer
  <2> HIDE DEF x
  <2>3. Sound(d1, AllRefs(d) \ {x}) /\ CountedDown(d, d1, id)
    <3> HIDE DEF id
    <3> QED
      BY <1>1, <2>2, RefDecSound
  <2>4. OnlyStore(d, d1) /\ Unused(d1.store) \subseteq Unused(d.store) /\ d1 \in Mem /\ Same(d.store, d1.store)
    BY <2>3 DEF CountedDown, Sound
  <2> HIDE DEF d1
  <2>5. g = [d1 EXCEPT !.retains = r]
    BY <2>1, <2>4 DEF Mem
  <2>5a. d1.retains = d.retains
    BY <2>4 DEF OnlyStore
  <2>6. r \in [DOMAIN d.retains -> Nat] /\ DOMAIN r = DOMAIN d.retains
    BY <1>2, <2>5a
  <2>7. r[node] = 0 /\ \A p \in DOMAIN r : p # node => r[p] = d.retains[p]
    BY <1>2, <1>3, <2>5a
  <2> HIDE DEF r
  <2>8. r \in Retains
    BY <1>2, <2>6, RetainsParts
  <2> HIDE DEF g
  <2>9. /\ g \in Mem /\ g.retains = r /\ g.store = d1.store /\ g.msgs_in = d1.msgs_in
        /\ g.msgs_out = d1.msgs_out /\ g.last_db_id = d1.last_db_id
    BY <2>4, <2>5, <2>8 DEF Mem
  <2>10. SetAt(d, g, node, 0)
    BY <1>3, <2>4, <2>6, <2>7, <2>9 DEF SetAt, OnlyStore, OldAt
  <2>11. AllRefs(g) = AllRefs(d) \ {x}
    <3>1. OldAt(d, node) = id
      BY <1>3 DEF OldAt
    <3>2. AllRefs(g) = (AllRefs(d) \ {RetainRef(node, OldAt(d, node))})
                            \cup (IF 0 = 0 THEN {} ELSE {RetainRef(node, 0)})
      BY <1>2, <2>9, <2>10, SetRefs
    <3> QED
      BY <3>1, <3>2 DEF x
  <2>12. AtNodes(g)
    <3>1. AtNodes(d1)
      BY <2>3 DEF Sound
    <3> QED
      BY <2>5a, <2>6, <2>7, <2>9, <3>1 DEF AtNodes, RetainedNodes
  <2>13. Sound(g, AllRefs(g))
    BY <2>3, <2>9, <2>11, <2>12, StillSound
  <2>14. g.msgs_out = d.msgs_out /\ g.msgs_in = d.msgs_in /\ g.last_db_id = d.last_db_id /\ DOMAIN g.retains = DOMAIN d.retains
    BY <2>4, <2>6, <2>9 DEF OnlyStore
  <2>15. Once(g)
    BY <1>1, <2>14 DEF Once
  <2>16. \A p \in DOMAIN g.retains : /\ g.retains[p] \in {0, e.base.retains[p]}
                                     /\ p \in e.nodes \ (t \cup {node}) => g.retains[p] = e.base.retains[p]
    BY <1>1, <2>6, <2>7, <2>9
  <2>17. Same(e.base.store, g.store)
    BY <1>1, <2>4, <2>9, SameMore
  <2>18. RetainInv(e, t \cup {node}, g)
    BY <1>1, <2>4, <2>9, <2>13, <2>14, <2>15, <2>16, <2>17 DEF RetainInv
  <2> QED
    BY <2>18 DEF g
<1>6. CASE ~(d.store[id].expiry > 0 /\ now >= d.store[id].expiry)
  <2> DEFINE m == [id |-> id, retain |-> TRUE]
  <2>1. g = Insert(d, c, id, TRUE)
    BY <1>6 DEF RetainProcess
  <2>2. Sound(g, AllRefs(g)) /\ Inserted(d, g, c, m)
    <3>1. Guards({}) /\ Sound(d, AllRefs(d) \cup {})
      BY <1>1 DEF Guards
    <3> HIDE DEF id
    <3>2. Sound(Insert(d, c, id, TRUE), AllRefs(Insert(d, c, id, TRUE)) \cup {}) /\ Inserted(d, Insert(d, c, id, TRUE), c, m)
      BY <1>4, <3>1, InsertSound
    <3> HIDE DEF g
    <3> QED
      BY <2>1, <3>2
  <2>3. m \in Entry /\ m.id = id /\ m.retain
    BY <1>2, <1>4 DEF Entry
  <2> HIDE DEF g, m
  <2>4. /\ g.msgs_in = d.msgs_in /\ g.retains = d.retains /\ g.last_db_id = d.last_db_id
        /\ Unused(g.store) \subseteq Unused(d.store) /\ g.msgs_out = [d.msgs_out EXCEPT ![c] = Append(@, m)]
        /\ Same(d.store, g.store)
    BY <2>2, <2>3 DEF Inserted
  <2>5. \A b \in Clients : \A i \in DOMAIN g.msgs_out[b] :
           \/ i \in DOMAIN d.msgs_out[b] /\ g.msgs_out[b][i] = d.msgs_out[b][i]
           \/ b = c /\ i = Len(d.msgs_out[c]) + 1 /\ g.msgs_out[b][i] = m
    BY <1>2, <2>3, <2>4, OneMore
  <2>6. Once(g)
    <3> SUFFICES ASSUME NEW b \in Clients \ V5, NEW i \in DOMAIN g.msgs_out[b], NEW j \in DOMAIN g.msgs_out[b],
                        g.msgs_out[b][i].id = g.msgs_out[b][j].id,
                        ~g.msgs_out[b][i].retain, ~g.msgs_out[b][j].retain
                 PROVE  i = j
      BY DEF Once
    <3>1. /\ i \in DOMAIN d.msgs_out[b] /\ g.msgs_out[b][i] = d.msgs_out[b][i]
          /\ j \in DOMAIN d.msgs_out[b] /\ g.msgs_out[b][j] = d.msgs_out[b][j]
      BY <2>3, <2>5
    <3> QED
      BY <1>1, <3>1 DEF Once
  <2>7. \A b \in Clients : \A n \in DOMAIN g.msgs_out[b] :
          \/ n \in DOMAIN e.base.msgs_out[b] /\ g.msgs_out[b][n] = e.base.msgs_out[b][n]
          \/ \E p \in RetainedNodes(e.base) : g.msgs_out[b][n].id = e.base.retains[p]
    <3> SUFFICES ASSUME NEW b \in Clients, NEW n \in DOMAIN g.msgs_out[b]
                 PROVE  \/ n \in DOMAIN e.base.msgs_out[b] /\ g.msgs_out[b][n] = e.base.msgs_out[b][n]
                        \/ \E p \in RetainedNodes(e.base) : g.msgs_out[b][n].id = e.base.retains[p]
      OBVIOUS
    <3>1. CASE n \in DOMAIN d.msgs_out[b] /\ g.msgs_out[b][n] = d.msgs_out[b][n]
      BY <1>1, <3>1
    <3>2. CASE g.msgs_out[b][n] = m
      BY <1>3, <2>3, <3>2
    <3> QED
      BY <2>5, <3>1, <3>2
  <2>8. Same(e.base.store, g.store)
    BY <1>1, <2>4, SameMore
  <2>9. RetainInv(e, t \cup {node}, g)
    BY <1>1, <2>2, <2>4, <2>6, <2>7, <2>8 DEF RetainInv
  <2> QED
    BY <2>9 DEF g
<1> QED
  BY <1>5, <1>6

LEMMA RetainedFinite ==
    ASSUME NEW d, Sound(d, AllRefs(d))
    PROVE  IsFiniteSet(RetainedNodes(d))
<1> DEFINE f == [p \in RetainedNodes(d) |-> RetainRef(p, d.retains[p])]
<1>1. d \in Mem /\ IsFiniteSet(AllRefs(d))
  BY DEF Sound, Balanced
<1>2. f \in [RetainedNodes(d) -> AllRefs(d)]
  BY <1>1, RetainMember
<1>3. \A p, q \in RetainedNodes(d) : f[p] = f[q] => p = q
  BY RefsDiffer
<1> HIDE DEF f
<1>4. f \in Injection(RetainedNodes(d), AllRefs(d))
  BY <1>2, <1>3 DEF Injection, IsInjective
<1> QED
  BY <1>1, <1>4, FS_Injection

\* retain__queue.
LEMMA RetainQueueWhole ==
    ASSUME NEW d, Whole(d), NEW c \in Clients, NEW f
    PROVE  After(d, FoldSet(LAMBDA node, x : RetainProcess(x, c, node), d, RetainSearch(d.retains, f)))
<1> DEFINE S == RetainSearch(d.retains, f)
           e == FoldSet(LAMBDA node, x : RetainProcess(x, c, node), d, S)
           env == [c |-> c, base |-> d, nodes |-> S]
<1>1. Sound(d, AllRefs(d)) /\ Once(d) /\ Waiting(d) /\ d \in Mem
  BY DEF Whole, Sound
<1>2. S \subseteq RetainedNodes(d)
  BY DEF RetainSearch, RetainedNodes
<1> HIDE DEF S
<1>3. IsFiniteSet(S)
  BY <1>1, <1>2, RetainedFinite, FS_Subset
<1>4. env.c = c /\ env.base = d /\ env.nodes = S
  OBVIOUS
<1>5. e = RetainLoop!OverSet(env, d, S)
  BY DEF RetainLoop!OverSet, FoldSet, RetainLoop!FoldSet, MapThenFoldSet, RetainLoop!MapThenFoldSet
<1> HIDE DEF e, env
<1>6. RetainInv(env, {}, d)
  <2>1. \A p \in DOMAIN d.retains : d.retains[p] \in {0, d.retains[p]}
    OBVIOUS
  <2> QED
    BY <1>1, <1>4, <2>1 DEF RetainInv, Same
<1>7. \A t \in SUBSET S, node \in S : \A x :
         node \notin t /\ RetainInv(env, t, x) => RetainInv(env, t \cup {node}, RetainProcess(x, env.c, node))
  BY <1>2, <1>4, RetainStep
<1>8. RetainInv(env, S, e)
  <2>1. RetainLoop!IsFiniteSet(S)
    BY <1>3 DEF IsFiniteSet, RetainLoop!IsFiniteSet
  <2> QED
    BY <1>5, <1>6, <1>7, <2>1, RetainLoop!SetLoop
<1>9. /\ Sound(e, AllRefs(e)) /\ Once(e) /\ e.msgs_in = d.msgs_in /\ e.last_db_id = d.last_db_id
      /\ Unused(e.store) \subseteq Unused(d.store) /\ DOMAIN e.retains = DOMAIN d.retains
      /\ Same(d.store, e.store) /\ \A p \in DOMAIN e.retains : e.retains[p] \in {0, d.retains[p]}
      /\ \A b \in Clients : \A n \in DOMAIN e.msgs_out[b] :
            \/ n \in DOMAIN d.msgs_out[b] /\ e.msgs_out[b][n] = d.msgs_out[b][n]
            \/ \E p \in RetainedNodes(d) : e.msgs_out[b][n].id = d.retains[p]
  BY <1>4, <1>8 DEF RetainInv
<1>10. Waiting(e)
  <2> SUFFICES ASSUME NEW b \in Clients, NEW i \in e.msgs_in[b]
               PROVE  /\ ~IsSys(e.store[i])
                      /\ Absent(e, i) /\ \A a \in Clients : a # b => i \notin e.msgs_in[a]
                      /\ \A p \in DOMAIN e.retains : e.retains[p] # i
    BY DEF Waiting
  <2>1. i \in d.msgs_in[b] /\ e.msgs_in = d.msgs_in
    BY <1>9
  <2>2. i # 0
    BY <1>1, <2>1, WholeRefs DEF Sound
  <2>3. /\ Absent(d, i) /\ (\A a \in Clients : a # b => i \notin d.msgs_in[a])
        /\ \A p \in DOMAIN d.retains : d.retains[p] # i
    BY <1>1, <2>1 DEF Waiting
  <2>4. Absent(e, i)
    BY <1>9, <2>3 DEF Absent, RetainedNodes
  <2>5. ~IsSys(d.store[i])
    BY <1>1, <2>1 DEF Waiting
  <2>6. ~IsSys(e.store[i])
    BY <1>9, <2>5, StillOurs, SMTT(30)
  <2> QED
    BY <1>9, <2>1, <2>2, <2>3, <2>4, <2>6
<1> QED
  BY <1>9, <1>10, Zenon DEF Whole, After, e, S
----------------------------------------------------------------------------
(* The end of a session.                                                   *)

\* The references from the lists of c that db__messages_delete has passed.
OutDone(d, c, n) == {r \in OutRefs(d) : r.at = c /\ r.pos <= n}
InDone(d, c, t) == {r \in InRefs(d) : r.at = c /\ r.to \in t}

OutDropInv(e, n, d) ==
    /\ Sound(d, AllRefs(e.base) \ OutDone(e.base, e.c, n)) /\ Same(e.base.store, d.store)
    /\ OnlyStore(e.base, d) /\ Unused(d.store) \subseteq Unused(e.base.store)

InDropInv(e, t, d) ==
    /\ Sound(d, (AllRefs(e.base) \ OutDone(e.base, e.c, Len(e.base.msgs_out[e.c]))) \ InDone(e.base, e.c, t))
    /\ Same(e.base.store, d.store)
    /\ OnlyStore(e.base, d) /\ Unused(d.store) \subseteq Unused(e.base.store)

OutDropLoop == INSTANCE Loops WITH Op <- LAMBDA e, d, m : RefDec(d, m.id), Inv <- OutDropInv
InDropLoop == INSTANCE Loops WITH Op <- LAMBDA e, d, id : RefDec(d, id), Inv <- InDropInv

LEMMA OutDropStep ==
    ASSUME NEW e, e.base \in Mem, e.c \in Clients, NEW n \in DOMAIN e.base.msgs_out[e.c],
           NEW d, OutDropInv(e, n - 1, d)
    PROVE  OutDropInv(e, n, RefDec(d, e.base.msgs_out[e.c][n].id))
<1> DEFINE b == e.base
           c == e.c
           id == b.msgs_out[c][n].id
           x == OutRef(c, n, id)
           R == AllRefs(b) \ OutDone(b, c, n - 1)
           g == RefDec(d, id)
<1>0. n \in Nat
  BY EntryParts
<1>1. Sound(d, R) /\ OnlyStore(b, d) /\ Unused(d.store) \subseteq Unused(b.store) /\ Same(b.store, d.store)
  BY DEF OutDropInv
<1>2. x \in AllRefs(b) /\ x \in OutRefs(b) /\ x.to = id /\ x.at = c /\ x.pos = n
  BY OutMember, OutRefsAre DEF IsOut, OutRef
<1>3. x \in R
  BY <1>0, <1>2 DEF OutDone
<1>4. OutDone(b, c, n) = OutDone(b, c, n - 1) \cup {x}
  <2>1. ASSUME NEW r \in OutDone(b, c, n), r \notin OutDone(b, c, n - 1) PROVE r = x
    <3>1. r \in OutRefs(b) /\ r.at = c /\ r.pos <= n /\ ~(r.pos <= n - 1)
      BY <2>1 DEF OutDone
    <3>2. r.pos \in Nat /\ r.pos = n
      BY <1>0, <3>1 DEF OutRefs
    <3> QED
      BY <3>1, <3>2 DEF OutRefs, OutRef
  <2>2. OutDone(b, c, n - 1) \subseteq OutDone(b, c, n)
    <3> SUFFICES ASSUME NEW r \in OutDone(b, c, n - 1) PROVE r \in OutDone(b, c, n)
      OBVIOUS
    <3>1. r \in OutRefs(b) /\ r.at = c /\ r.pos <= n - 1 /\ r.pos \in Nat
      BY DEF OutDone, OutRefs
    <3> QED
      BY <1>0, <3>1 DEF OutDone
  <2>3. x \in OutDone(b, c, n)
    BY <1>0, <1>2 DEF OutDone
  <2> QED
    BY <2>1, <2>2, <2>3
<1> HIDE DEF x, R, id
<1>5. Sound(g, R \ {x}) /\ CountedDown(d, g, id)
  BY <1>1, <1>2, <1>3, RefDecSound
<1>6. R \ {x} = AllRefs(b) \ OutDone(b, c, n)
  BY <1>4 DEF R
<1> HIDE DEF g
<1>7. OnlyStore(b, g) /\ Unused(g.store) \subseteq Unused(b.store)
  BY <1>1, <1>5 DEF OnlyStore, CountedDown
<1>8. Same(b.store, g.store)
  BY <1>1, <1>5, SameMore DEF CountedDown
<1> QED
  BY <1>5, <1>6, <1>7, <1>8, Zenon DEF OutDropInv, g, id

LEMMA InDropStep ==
    ASSUME NEW e, e.base \in Mem, e.c \in Clients, NEW id \in e.base.msgs_in[e.c], NEW t, id \notin t,
           NEW d, InDropInv(e, t, d)
    PROVE  InDropInv(e, t \cup {id}, RefDec(d, id))
<1> DEFINE b == e.base
           c == e.c
           x == InRef(c, id)
           Q == AllRefs(b) \ OutDone(b, c, Len(b.msgs_out[c]))
           R == Q \ InDone(b, c, t)
           g == RefDec(d, id)
<1>1. Sound(d, R) /\ OnlyStore(b, d) /\ Unused(d.store) \subseteq Unused(b.store) /\ Same(b.store, d.store)
  BY DEF InDropInv
<1>2. x \in AllRefs(b) /\ x \in InRefs(b) /\ x.to = id /\ x.at = c /\ x.kind = "in"
  <2>1. x.to = id /\ x.at = c /\ x.kind = "in"
    BY DEF InRef
  <2>2. x \in AllRefs(b)
    BY InMember
  <2>3. x \notin RetainRefs(b) /\ x \notin OutRefs(b)
    BY RetainRefsAre, OutRefsAre, RefsDiffer DEF IsOut
  <2> HIDE DEF x
  <2> QED
    BY <2>1, <2>2, <2>3 DEF AllRefs
<1>3. x \in R
  <2>1. x \notin OutRefs(b)
    BY <1>2 DEF OutRefs
  <2> QED
    BY <1>2, <2>1 DEF InDone, OutDone
<1>4. InDone(b, c, t \cup {id}) = InDone(b, c, t) \cup {x}
  <2>1. ASSUME NEW r \in InDone(b, c, t \cup {id}), r \notin InDone(b, c, t) PROVE r = x
    <3>1. r \in InRefs(b) /\ r.at = c /\ r.to = id
      BY <2>1 DEF InDone
    <3> QED
      BY <3>1 DEF InRefs, InRef
  <2>2. x \in InDone(b, c, t \cup {id}) /\ InDone(b, c, t) \subseteq InDone(b, c, t \cup {id})
    BY <1>2 DEF InDone
  <2> QED
    BY <2>1, <2>2
<1> HIDE DEF x, R, Q
<1>5. Sound(g, R \ {x}) /\ CountedDown(d, g, id)
  BY <1>1, <1>2, <1>3, RefDecSound
<1>6. R \ {x} = Q \ InDone(b, c, t \cup {id})
  BY <1>4 DEF R
<1> HIDE DEF g
<1>7. OnlyStore(b, g) /\ Unused(g.store) \subseteq Unused(b.store)
  BY <1>1, <1>5 DEF OnlyStore, CountedDown
<1>8. Same(b.store, g.store)
  BY <1>1, <1>5, SameMore DEF CountedDown
<1> QED
  BY <1>5, <1>6, <1>7, <1>8 DEF InDropInv, g, Q

\* The lists of c are empty.
Emptied(d, e, c) ==
    /\ e.retains = d.retains /\ e.msgs_in = [d.msgs_in EXCEPT ![c] = {}]
    /\ e.msgs_out = [d.msgs_out EXCEPT ![c] = <<>>]

LEMMA EmptiedRefs ==
    ASSUME NEW d \in Mem, NEW e \in Mem, NEW c \in Clients, Emptied(d, e, c)
    PROVE  AllRefs(e) = (AllRefs(d) \ OutDone(d, c, Len(d.msgs_out[c]))) \ InDone(d, c, d.msgs_in[c])
<1>1. d.msgs_in \in [Clients -> SUBSET Nat] /\ d.msgs_out \in [Clients -> Seq(Entry)]
  BY MemParts
<1>2. /\ e.msgs_out[c] = <<>> /\ DOMAIN e.msgs_out[c] = {} /\ e.msgs_in[c] = {}
      /\ \A b \in Clients : b # c => e.msgs_out[b] = d.msgs_out[b] /\ e.msgs_in[b] = d.msgs_in[b]
  <2>1. DOMAIN <<>> = {}
    OBVIOUS
  <2> QED
    BY <1>1, <2>1 DEF Emptied
<1>3. RetainRefs(e) = RetainRefs(d)
  BY DEF Emptied, RetainRefs, RetainedNodes
<1>4. ASSUME NEW r PROVE r \in OutRefs(e) <=> r \in OutRefs(d) /\ r.at # c
  BY <1>2 DEF OutRefs
<1>5. ASSUME NEW r PROVE r \in InRefs(e) <=> r \in InRefs(d) /\ r.at # c
  BY <1>2 DEF InRefs
<1>6. ASSUME NEW r PROVE r \in OutDone(d, c, Len(d.msgs_out[c])) <=> r \in OutRefs(d) /\ r.at = c
  <2>1. ASSUME r \in OutRefs(d), r.at = c PROVE r.pos <= Len(d.msgs_out[c])
    <3>1. r.pos \in DOMAIN d.msgs_out[c] /\ r.pos \in Nat
      BY <2>1 DEF OutRefs
    <3>2. DOMAIN d.msgs_out[c] = 1..Len(d.msgs_out[c]) /\ Len(d.msgs_out[c]) \in Nat
      BY EntryParts
    <3> QED
      BY <3>1, <3>2
  <2> QED
    BY <2>1 DEF OutDone
<1>7. ASSUME NEW r PROVE r \in InDone(d, c, d.msgs_in[c]) <=> r \in InRefs(d) /\ r.at = c
  BY DEF InDone, InRefs
<1>8. \A r \in RetainRefs(d) : r.kind = "retain"
  BY DEF RetainRefs, RetainRef
<1>9. (\A r \in OutRefs(d) : r.kind = "out") /\ (\A r \in InRefs(d) : r.kind = "in")
  BY DEF OutRefs, InRefs
<1>10. ASSUME NEW r
       PROVE  r \in AllRefs(e) <=> r \in AllRefs(d) /\ r \notin OutDone(d, c, Len(d.msgs_out[c]))
                                                    /\ r \notin InDone(d, c, d.msgs_in[c])
  BY <1>3, <1>4, <1>5, <1>6, <1>7, <1>8, <1>9 DEF AllRefs
<1> QED
  BY <1>10

LEMMA InFinite ==
    ASSUME NEW d, Sound(d, AllRefs(d)), NEW c \in Clients
    PROVE  IsFiniteSet(d.msgs_in[c])
<1>1. d \in Mem /\ DOMAIN d.store \subseteq 1..d.last_db_id /\ d.last_db_id \in Nat
  BY MemParts DEF Sound
<1>2. d.msgs_in[c] \subseteq 1..d.last_db_id
  BY <1>1, WholeRefs
<1>3. IsFiniteSet(1..d.last_db_id)
  BY <1>1, FS_Interval, SMTT(30)
<1> QED
  BY <1>2, <1>3, FS_Subset

\* db__messages_delete.
LEMMA DeleteWhole ==
    ASSUME NEW d, Whole(d), NEW c \in Clients
    PROVE  LET d1 == FoldLeft(LAMBDA x, m : RefDec(x, m.id), d, d.msgs_out[c])
               d2 == FoldSet(LAMBDA id, x : RefDec(x, id), d1, d.msgs_in[c])
               e == [d2 EXCEPT !.msgs_out[c] = <<>>, !.msgs_in[c] = {}]
           IN  After(d, e) /\ (Short(d) => Short(e))
<1> DEFINE list == d.msgs_out[c]
           S == d.msgs_in[c]
           d1 == FoldLeft(LAMBDA x, m : RefDec(x, m.id), d, list)
           d2 == FoldSet(LAMBDA id, x : RefDec(x, id), d1, S)
           e == [d2 EXCEPT !.msgs_out[c] = <<>>, !.msgs_in[c] = {}]
           env == [base |-> d, c |-> c]
           out == [d.msgs_out EXCEPT ![c] = <<>>]
           in == [d.msgs_in EXCEPT ![c] = {}]
<1>1. Sound(d, AllRefs(d)) /\ Once(d) /\ Waiting(d) /\ d \in Mem
  BY DEF Whole, Sound
<1>2. env.base = d /\ env.c = c
  OBVIOUS
<1>3. d1 = OutDropLoop!OverList(env, d, list)
  BY DEF OutDropLoop!OverList, FoldLeft, OutDropLoop!FoldLeft, MapThenFoldSet,
         OutDropLoop!MapThenFoldSet, Max, OutDropLoop!Max
<1>4. d2 = InDropLoop!OverSet(env, d1, S)
  BY DEF InDropLoop!OverSet, FoldSet, InDropLoop!FoldSet, MapThenFoldSet, InDropLoop!MapThenFoldSet
<1> HIDE DEF d1, d2, env
<1>5. list \in Seq(Entry) /\ DOMAIN list = 1..Len(list)
  BY <1>1, EntryParts
<1>6. OutDropInv(env, Len(list), d1)
  <2>1. OutDone(d, c, 0) = {}
    <3>1. \A r \in OutRefs(d) : r.at = c => r.pos \in 1..Len(list) /\ Len(list) \in Nat
      BY <1>1, <1>5, EntryParts DEF OutRefs
    <3> QED
      BY <3>1 DEF OutDone
  <2>2. OutDropInv(env, 0, d)
    BY <1>1, <1>2, <2>1 DEF OutDropInv, OnlyStore, Same
  <2>3. \A n \in 1..Len(list) : \A x : OutDropInv(env, n - 1, x) => OutDropInv(env, n, RefDec(x, list[n].id))
    BY <1>1, <1>2, <1>5, OutDropStep
  <2> HIDE DEF list
  <2> QED
    BY <1>3, <1>5, <2>2, <2>3, OutDropLoop!ListLoop
<1>7. InDropInv(env, S, d2)
  <2>1. InDone(d, c, {}) = {}
    BY DEF InDone
  <2>2. InDropInv(env, {}, d1)
    BY <1>2, <1>6, <2>1 DEF InDropInv, OutDropInv
  <2>3. \A t \in SUBSET S, id \in S : \A x : id \notin t /\ InDropInv(env, t, x) => InDropInv(env, t \cup {id}, RefDec(x, id))
    BY <1>1, <1>2, InDropStep
  <2>4. InDropLoop!IsFiniteSet(S)
    BY <1>1, InFinite DEF IsFiniteSet, InDropLoop!IsFiniteSet
  <2> HIDE DEF S
  <2> QED
    BY <1>4, <2>2, <2>3, <2>4, InDropLoop!SetLoop
<1> DEFINE R == (AllRefs(d) \ OutDone(d, c, Len(list))) \ InDone(d, c, S)
<1>8. Sound(d2, R) /\ OnlyStore(d, d2) /\ Unused(d2.store) \subseteq Unused(d.store) /\ d2 \in Mem
      /\ Same(d.store, d2.store)
  BY <1>2, <1>7 DEF InDropInv, Sound
<1>9. d2.msgs_out = d.msgs_out /\ d2.msgs_in = d.msgs_in /\ d2.retains = d.retains /\ d2.last_db_id = d.last_db_id
  BY <1>8 DEF OnlyStore
<1>10. e = [d2 EXCEPT !.msgs_out = out, !.msgs_in = in]
  BY <1>8, <1>9 DEF Mem
<1>11. out \in [Clients -> Seq(Entry)] /\ in \in [Clients -> SUBSET Nat]
  BY <1>1, MemParts
<1>12. \A b \in Clients : out[b] = (IF b = c THEN <<>> ELSE d.msgs_out[b]) /\ in[b] = IF b = c THEN {} ELSE d.msgs_in[b]
  BY <1>1, MemParts
<1>13. /\ e \in Mem /\ e.msgs_out = out /\ e.msgs_in = in /\ e.store = d2.store /\ e.retains = d.retains
       /\ e.last_db_id = d.last_db_id
  BY <1>8, <1>9, <1>10, <1>11 DEF Mem
<1>14. Emptied(d, e, c)
  BY <1>13 DEF Emptied
<1> HIDE DEF e, out, in
<1>15. AllRefs(e) = R
  BY <1>1, <1>13, <1>14, EmptiedRefs
<1>16. AtNodes(e)
  BY <1>8, <1>9, <1>13 DEF AtNodes, RetainedNodes, Sound
<1>17. Sound(e, AllRefs(e))
  BY <1>8, <1>9, <1>13, <1>15, <1>16, StillSound
<1>18. \A b \in Clients : \A n \in DOMAIN e.msgs_out[b] : b # c /\ e.msgs_out[b] = d.msgs_out[b]
  <2>1. DOMAIN <<>> = {}
    OBVIOUS
  <2> QED
    BY <1>12, <1>13, <2>1
<1>19. Once(e)
  BY <1>1, <1>18 DEF Once
<1>20. Waiting(e)
  <2>1. \A b \in Clients : e.msgs_in[b] \subseteq d.msgs_in[b]
    BY <1>12, <1>13
  <2>2. \A i : Absent(d, i) => Absent(e, i)
    BY <1>18 DEF Absent
  <2>3. ASSUME NEW b \in Clients, NEW i \in e.msgs_in[b] PROVE ~IsSys(e.store[i])
    <3>1. ~IsSys(d.store[i])
      BY <1>1, <2>1, <2>3 DEF Waiting
    <3> QED
      BY <1>8, <1>13, <1>17, <2>3, <3>1, StillOurs
  <2> QED
    BY <1>1, <1>13, <2>1, <2>2, <2>3 DEF Waiting
<1>21. ASSUME Short(d) PROVE Short(e)
  <2>1. Len(<<>>) = 0 /\ MaxList \in Nat
    BY BoundAssumption
  <2> QED
    BY <1>12, <1>13, <1>21, <2>1 DEF Short
<1> QED
  BY <1>8, <1>13, <1>17, <1>19, <1>20, <1>21, Zenon DEF Whole, After, e, d2, d1
----------------------------------------------------------------------------
(* The file.                                                               *)

\* s is made of some of the first n messages of t.
Kept(s, t, n) ==
    /\ s \in Seq(Entry) /\ Len(s) \in Nat /\ DOMAIN s = 1..Len(s) /\ Len(s) <= n
    /\ \E h \in [1..Len(s) -> 1..n] : /\ \A i, j \in 1..Len(s) : h[i] = h[j] => i = j
                                      /\ \A i \in 1..Len(s) : s[i] = t[h[i]]

LEMMA KeptNone ==
    ASSUME NEW t, NEW n \in Nat
    PROVE  Kept(<<>>, t, n)
<1> DEFINE s == <<>>
           h == [i \in {} |-> 1]
<1>1. s \in Seq(Entry) /\ Len(s) = 0 /\ DOMAIN s = {}
  OBVIOUS
<1>2. h \in [{} -> 1..n] /\ 1..0 = {}
  OBVIOUS
<1> HIDE DEF h, s
<1>3. 1..Len(s) = {}
  BY <1>1
<1>4. h \in [1..Len(s) -> 1..n] /\ \A i \in 1..Len(s) : FALSE
  BY <1>2, <1>3, Zenon
<1>5. Len(s) \in Nat /\ Len(s) <= n /\ DOMAIN s = 1..Len(s)
  BY <1>1, <1>3
<1>6. Kept(s, t, n)
  BY <1>1, <1>4, <1>5 DEF Kept
<1> QED
  BY <1>6 DEF s

LEMMA KeptNext ==
    ASSUME NEW t \in Seq(Entry), NEW n \in 1..Len(t), NEW s, Kept(s, t, n - 1)
    PROVE  Kept(s, t, n) /\ Kept(Append(s, t[n]), t, n)
<1>0. Len(t) \in Nat /\ n \in Nat /\ t[n] \in Entry
  BY LenProperties, ElementOfSeq
<1>1. s \in Seq(Entry) /\ Len(s) \in Nat /\ DOMAIN s = 1..Len(s) /\ Len(s) <= n - 1
  BY DEF Kept
<1>2. PICK h \in [1..Len(s) -> 1..(n - 1)] : /\ \A i, j \in 1..Len(s) : h[i] = h[j] => i = j
                                             /\ \A i \in 1..Len(s) : s[i] = t[h[i]]
  BY DEF Kept
<1>3. \A i \in 1..Len(s) : h[i] \in 1..n /\ h[i] # n
  BY <1>0, <1>2
<1>4. Kept(s, t, n)
  <2>1. h \in [1..Len(s) -> 1..n]
    BY <1>2, <1>3
  <2>2. Len(s) <= n
    BY <1>0, <1>1
  <2> QED
    BY <1>1, <1>2, <2>1, <2>2 DEF Kept
<1>5. Kept(Append(s, t[n]), t, n)
  <2> DEFINE z == Append(s, t[n])
             l == Len(s)
             g == [i \in 1..(l + 1) |-> IF i = l + 1 THEN n ELSE h[i]]
  <2>1. /\ z \in Seq(Entry) /\ Len(z) = l + 1 /\ DOMAIN z = 1..(l + 1) /\ z[l + 1] = t[n]
        /\ \A i \in 1..l : z[i] = s[i]
    BY <1>0, <1>1, AppendProperties, LenProperties
  <2>2. l + 1 \in Nat /\ l + 1 <= n
    BY <1>0, <1>1
  <2>3. \A i \in 1..(l + 1) : i = l + 1 \/ i \in 1..l
    BY <1>1
  <2>4. g \in [1..(l + 1) -> 1..n]
    BY <1>0, <1>3, <2>3
  <2>5. \A i, j \in 1..(l + 1) : g[i] = g[j] => i = j
    <3> SUFFICES ASSUME NEW i \in 1..(l + 1), NEW j \in 1..(l + 1), g[i] = g[j] PROVE i = j
      OBVIOUS
    <3>1. i = l + 1 \/ (i \in 1..l /\ g[i] = h[i] /\ g[i] # n)
      BY <1>1, <1>3, <2>3
    <3>2. j = l + 1 \/ (j \in 1..l /\ g[j] = h[j] /\ g[j] # n)
      BY <1>1, <1>3, <2>3
    <3>3. i = l + 1 => g[i] = n
      OBVIOUS
    <3>4. j = l + 1 => g[j] = n
      OBVIOUS
    <3> QED
      BY <1>2, <3>1, <3>2, <3>3, <3>4
  <2>6. \A i \in 1..(l + 1) : z[i] = t[g[i]]
    BY <1>1, <1>2, <2>1, <2>3
  <2> HIDE DEF z, g
  <2>7. Kept(z, t, n)
    BY <2>1, <2>2, <2>4, <2>5, <2>6 DEF Kept
  <2> QED
    BY <2>7 DEF z
<1> QED
  BY <1>4, <1>5

LEMMA KeptTwice ==
    ASSUME NEW r, NEW s, NEW t, NEW n \in Nat, Kept(r, s, Len(s)), Kept(s, t, n)
    PROVE  Kept(r, t, n)
<1>1. r \in Seq(Entry) /\ Len(r) \in Nat /\ DOMAIN r = 1..Len(r) /\ Len(r) <= Len(s) /\ Len(s) \in Nat /\ Len(s) <= n
  BY DEF Kept
<1>2. PICK h \in [1..Len(r) -> 1..Len(s)] : /\ \A i, j \in 1..Len(r) : h[i] = h[j] => i = j
                                            /\ \A i \in 1..Len(r) : r[i] = s[h[i]]
  BY DEF Kept
<1>3. PICK g \in [1..Len(s) -> 1..n] : /\ \A i, j \in 1..Len(s) : g[i] = g[j] => i = j
                                       /\ \A i \in 1..Len(s) : s[i] = t[g[i]]
  BY DEF Kept
<1> DEFINE f == [i \in 1..Len(r) |-> g[h[i]]]
<1>4. f \in [1..Len(r) -> 1..n]
  BY <1>2, <1>3
<1>5. \A i, j \in 1..Len(r) : f[i] = f[j] => i = j
  BY <1>2, <1>3
<1>6. \A i \in 1..Len(r) : r[i] = t[f[i]]
  BY <1>2, <1>3
<1>7. Len(r) <= n
  BY <1>1
<1> HIDE DEF f
<1> QED
  BY <1>1, <1>4, <1>5, <1>6, <1>7 DEF Kept

\* f tells for every number k which of the first k messages of t are picked: those of the ids in X.
PickRun(f, t, n, X) ==
    /\ f \in [0..n -> Seq(Entry)] /\ f[0] = <<>>
    /\ \A k \in 1..n : f[k] = IF t[k].id \in X THEN Append(f[k - 1], t[k]) ELSE f[k - 1]

\* s is made of the messages of X among the first n of t, in their order.
Picks(s, t, n, X) == \E f : PickRun(f, t, n, X) /\ f[n] = s

\* What holds of 0 and goes on from a number to the next.
LEMMA CountTo ==
    ASSUME NEW n \in Nat, NEW S, 0 \in S, \A k \in 1..n : k - 1 \in S => k \in S
    PROVE  \A k \in 0..n : k \in S
<1> SUFFICES ASSUME NEW k \in 0..n, k \notin S PROVE FALSE
  OBVIOUS
<1> DEFINE T == {j \in 0..n : j \notin S}
<1>1. T \subseteq Nat /\ T # {}
  OBVIOUS
<1>2. PICK j \in T : \A i \in T : j <= i
  BY <1>1, QueueLoop!LeastNat
<1>3. j \in 1..n /\ j - 1 \in 0..n /\ ~(j <= j - 1)
  BY <1>2
<1>4. j - 1 \in S
  BY <1>2, <1>3
<1> QED
  BY <1>2, <1>3, <1>4

LEMMA PicksNone ==
    ASSUME NEW t, NEW X
    PROVE  Picks(<<>>, t, 0, X)
<1> DEFINE z == <<>>
           f == [k \in 0..0 |-> z]
<1>1. z \in Seq(Entry)
  OBVIOUS
<1> HIDE DEF z
<1>2. f \in [0..0 -> Seq(Entry)] /\ f[0] = z
  BY <1>1
<1>3. \A k \in 1..0 : FALSE
  OBVIOUS
<1> HIDE DEF f
<1>4. PickRun(f, t, 0, X) /\ f[0] = z
  BY <1>2, <1>3 DEF PickRun, z
<1> QED
  BY <1>4 DEF Picks, z

LEMMA PicksNext ==
    ASSUME NEW t \in Seq(Entry), NEW n \in 1..Len(t), NEW s, NEW X, Picks(s, t, n - 1, X)
    PROVE  Picks(IF t[n].id \in X THEN Append(s, t[n]) ELSE s, t, n, X)
<1> DEFINE z == IF t[n].id \in X THEN Append(s, t[n]) ELSE s
<1>0. Len(t) \in Nat /\ n \in Nat /\ t[n] \in Entry /\ n - 1 \in Nat /\ n # 0
  BY LenProperties, ElementOfSeq
<1>1. PICK f : PickRun(f, t, n - 1, X) /\ f[n - 1] = s
  BY DEF Picks
<1>2. /\ f \in [0..(n - 1) -> Seq(Entry)] /\ f[0] = <<>>
      /\ \A k \in 1..(n - 1) : f[k] = IF t[k].id \in X THEN Append(f[k - 1], t[k]) ELSE f[k - 1]
  BY <1>1 DEF PickRun
<1>3. s \in Seq(Entry)
  BY <1>0, <1>1, <1>2
<1>4. z \in Seq(Entry)
  BY <1>0, <1>3, AppendProperties
<1> DEFINE g == [k \in 0..n |-> IF k = n THEN z ELSE f[k]]
<1> HIDE DEF z
<1>5. \A k \in 0..n : k = n \/ k \in 0..(n - 1)
  BY <1>0
<1>6. g \in [0..n -> Seq(Entry)]
  BY <1>2, <1>4, <1>5
<1>7. 0 \in 0..n /\ g[0] = f[0] /\ n \in 0..n /\ g[n] = z
  BY <1>0
<1>8. ASSUME NEW k \in 1..n
      PROVE  g[k] = IF t[k].id \in X THEN Append(g[k - 1], t[k]) ELSE g[k - 1]
  <2>1. k - 1 \in 0..n /\ k - 1 # n /\ g[k - 1] = f[k - 1]
    BY <1>0
  <2>2. CASE k = n
    BY <1>1, <1>7, <2>1, <2>2 DEF z
  <2>3. CASE k # n
    <3>1. k \in 1..(n - 1) /\ k \in 0..n /\ g[k] = f[k]
      BY <1>0, <2>3
    <3> QED
      BY <1>2, <2>1, <3>1
  <2> QED
    BY <2>2, <2>3
<1> HIDE DEF g
<1>9. PickRun(g, t, n, X) /\ g[n] = z
  BY <1>2, <1>6, <1>7, <1>8 DEF PickRun
<1> QED
  BY <1>9 DEF Picks, z

\* There is one list that is made of them.
LEMMA PicksOne ==
    ASSUME NEW n \in Nat, NEW t, NEW X, NEW r, NEW s, Picks(r, t, n, X), Picks(s, t, n, X)
    PROVE  r = s
<1>1. PICK f : PickRun(f, t, n, X) /\ f[n] = r
  BY DEF Picks
<1>2. PICK g : PickRun(g, t, n, X) /\ g[n] = s
  BY DEF Picks
<1> DEFINE S == {k \in 0..n : f[k] = g[k]}
<1>3. 0 \in S
  BY <1>1, <1>2 DEF PickRun
<1>4. ASSUME NEW k \in 1..n, k - 1 \in S PROVE k \in S
  <2>1. f[k - 1] = g[k - 1] /\ k \in 0..n
    BY <1>4
  <2>2. f[k] = g[k]
    BY <1>1, <1>2, <2>1 DEF PickRun
  <2> QED
    BY <2>1, <2>2
<1> HIDE DEF S
<1>5. \A k \in 0..n : k \in S
  BY <1>3, <1>4, CountTo
<1> QED
  BY <1>1, <1>2, <1>5 DEF S

\* Ids that are not in the list do not matter.
LEMMA PicksSame ==
    ASSUME NEW n \in Nat, NEW t, NEW X, NEW Y, NEW s, Picks(s, t, n, X),
           \A k \in 1..n : t[k].id \in X <=> t[k].id \in Y
    PROVE  Picks(s, t, n, Y)
<1>1. PICK f : PickRun(f, t, n, X) /\ f[n] = s
  BY DEF Picks
<1>2. PickRun(f, t, n, Y)
  BY <1>1 DEF PickRun
<1> QED
  BY <1>1, <1>2 DEF Picks

\* What has been picked stays as it is.
LEMMA PicksGrow ==
    ASSUME NEW n \in Nat, NEW t \in Seq(Entry), n <= Len(t), NEW X, NEW f, PickRun(f, t, n, X)
    PROVE  \A j \in 0..n : /\ Len(f[j]) \in Nat /\ Len(f[j]) <= Len(f[n])
                           /\ \A i \in 1..Len(f[j]) : f[n][i] = f[j][i]
<1>1. /\ f \in [0..n -> Seq(Entry)] /\ f[0] = <<>>
      /\ \A k \in 1..n : f[k] = IF t[k].id \in X THEN Append(f[k - 1], t[k]) ELSE f[k - 1]
  BY DEF PickRun
<1>2. \A k \in 0..n : f[k] \in Seq(Entry) /\ Len(f[k]) \in Nat
  BY <1>1, LenProperties
<1>3. \A k \in 1..n : t[k] \in Entry
  BY ElementOfSeq, LenProperties
<1> SUFFICES ASSUME NEW j \in 0..n
             PROVE  Len(f[j]) <= Len(f[n]) /\ \A i \in 1..Len(f[j]) : f[n][i] = f[j][i]
  BY <1>2
<1> DEFINE S == {k \in 0..n : j <= k => Len(f[j]) <= Len(f[k]) /\ \A i \in 1..Len(f[j]) : f[k][i] = f[j][i]}
<1>4. 0 \in S
  <2>1. j <= 0 => j = 0
    OBVIOUS
  <2> QED
    BY <1>2, <2>1
<1>5. ASSUME NEW k \in 1..n, k - 1 \in S PROVE k \in S
  <2>1. k \in 0..n /\ k - 1 \in 0..n
    OBVIOUS
  <2>2. CASE j = k
    BY <1>2, <2>1, <2>2
  <2>3. CASE ~(j <= k)
    BY <2>1, <2>3
  <2>4. CASE j <= k /\ j # k
    <3>1. j <= k - 1
      BY <2>1, <2>4
    <3>2. Len(f[j]) <= Len(f[k - 1]) /\ \A i \in 1..Len(f[j]) : f[k - 1][i] = f[j][i]
      BY <1>5, <3>1
    <3>3. Len(f[k - 1]) <= Len(f[k]) /\ \A i \in 1..Len(f[k - 1]) : f[k][i] = f[k - 1][i]
      <4>1. CASE t[k].id \in X
        <5>1. f[k] = Append(f[k - 1], t[k])
          BY <1>1, <4>1
        <5>2. f[k - 1] \in Seq(Entry) /\ t[k] \in Entry
          BY <1>2, <1>3, <2>1
        <5> QED
          BY <1>2, <2>1, <5>1, <5>2, AppendProperties
      <4>2. CASE t[k].id \notin X
        <5>1. f[k] = f[k - 1]
          BY <1>1, <4>2
        <5>2. Len(f[k - 1]) \in Nat
          BY <1>2, <2>1
        <5> QED
          BY <5>1, <5>2
      <4> QED
        BY <4>1, <4>2
    <3>4. \A i \in 1..Len(f[j]) : i \in 1..Len(f[k - 1])
      BY <1>2, <2>1, <3>2
    <3>5. Len(f[j]) <= Len(f[k])
      BY <1>2, <2>1, <3>2, <3>3, SMTT(30)
    <3> QED
      BY <2>1, <3>2, <3>3, <3>4, <3>5
  <2> QED
    BY <2>2, <2>3, <2>4
<1>6. \A k \in 0..n : k \in S
  <2> HIDE DEF S
  <2> QED
    BY <1>4, <1>5, CountTo
<1>7. n \in 0..n /\ j <= n
  OBVIOUS
<1> QED
  BY <1>6, <1>7

\* Picking from what has been picked.
LEMMA PicksTwice ==
    ASSUME NEW t \in Seq(Entry), NEW X, NEW Y, NEW s, NEW r,
           Picks(s, t, Len(t), X), Picks(r, s, Len(s), Y)
    PROVE  Picks(r, t, Len(t), X \cap Y)
<1> DEFINE n == Len(t)
<1>0. n \in Nat
  BY LenProperties
<1>1. PICK f : PickRun(f, t, n, X) /\ f[n] = s
  BY DEF Picks
<1>2. PICK g : PickRun(g, s, Len(s), Y) /\ g[Len(s)] = r
  BY DEF Picks
<1>3. /\ f \in [0..n -> Seq(Entry)] /\ f[0] = <<>>
      /\ \A k \in 1..n : f[k] = IF t[k].id \in X THEN Append(f[k - 1], t[k]) ELSE f[k - 1]
  BY <1>1 DEF PickRun
<1>4. /\ g \in [0..Len(s) -> Seq(Entry)] /\ g[0] = <<>>
      /\ \A k \in 1..Len(s) : g[k] = IF s[k].id \in Y THEN Append(g[k - 1], s[k]) ELSE g[k - 1]
  BY <1>2 DEF PickRun
<1>5. \A k \in 0..n : /\ f[k] \in Seq(Entry) /\ Len(f[k]) \in Nat /\ Len(f[k]) <= Len(s)
                      /\ \A i \in 1..Len(f[k]) : s[i] = f[k][i]
  BY <1>0, <1>1, <1>3, PicksGrow
<1>6. Len(s) \in Nat /\ \A k \in 0..n : Len(f[k]) \in 0..Len(s)
  BY <1>0, <1>1, <1>5
<1> DEFINE h == [k \in 0..n |-> g[Len(f[k])]]
<1>7. h \in [0..n -> Seq(Entry)]
  BY <1>4, <1>6
<1>8. h[0] = <<>>
  <2>1. Len(f[0]) = 0 /\ 0 \in 0..n
    BY <1>0, <1>3
  <2> QED
    BY <1>4, <2>1
<1>9. h[n] = r
  BY <1>0, <1>1, <1>2
<1>10. ASSUME NEW k \in 1..n
       PROVE  h[k] = IF t[k].id \in X \cap Y THEN Append(h[k - 1], t[k]) ELSE h[k - 1]
  <2>1. k \in 0..n /\ k - 1 \in 0..n /\ t[k] \in Entry
    BY <1>0, ElementOfSeq
  <2>2. CASE t[k].id \in X
    <3> DEFINE l == Len(f[k - 1])
    <3>1. f[k] = Append(f[k - 1], t[k]) /\ f[k - 1] \in Seq(Entry) /\ l \in Nat
      BY <1>3, <1>5, <2>1, <2>2
    <3>2. Len(f[k]) = l + 1 /\ f[k][l + 1] = t[k]
      BY <2>1, <3>1, AppendProperties
    <3>3. l + 1 \in 1..Len(s) /\ (l + 1) - 1 = l
      BY <1>6, <2>1, <3>1, <3>2
    <3>4. s[l + 1] = t[k]
      <4>1. l + 1 \in 1..Len(f[k])
        BY <3>1, <3>2
      <4> QED
        BY <1>5, <2>1, <3>2, <4>1
    <3>5. g[l + 1] = IF t[k].id \in Y THEN Append(g[l], t[k]) ELSE g[l]
      BY <1>4, <3>3, <3>4
    <3>6. h[k] = g[l + 1] /\ h[k - 1] = g[l]
      BY <2>1, <3>2
    <3> QED
      BY <2>2, <3>5, <3>6
  <2>3. CASE t[k].id \notin X
    <3>1. f[k] = f[k - 1]
      BY <1>3, <2>3
    <3> QED
      BY <2>1, <2>3, <3>1
  <2> QED
    BY <2>2, <2>3
<1> HIDE DEF h
<1>11. PickRun(h, t, n, X \cap Y)
  BY <1>7, <1>8, <1>10 DEF PickRun
<1> QED
  BY <1>9, <1>11 DEF Picks

\* Everything in the list was picked.
LEMMA PicksFrom ==
    ASSUME NEW t \in Seq(Entry), NEW X, NEW s, Picks(s, t, Len(t), X)
    PROVE  \A i \in DOMAIN s : s[i].id \in X /\ \E k \in 1..Len(t) : s[i] = t[k]
<1> DEFINE n == Len(t)
<1>0. n \in Nat
  BY LenProperties
<1>1. PICK f : PickRun(f, t, n, X) /\ f[n] = s
  BY DEF Picks
<1>2. /\ f \in [0..n -> Seq(Entry)] /\ f[0] = <<>>
      /\ \A k \in 1..n : f[k] = IF t[k].id \in X THEN Append(f[k - 1], t[k]) ELSE f[k - 1]
  BY <1>1 DEF PickRun
<1> DEFINE Good(m) == m.id \in X /\ \E j \in 1..n : m = t[j]
           S == {k \in 0..n : \A i \in DOMAIN f[k] : Good(f[k][i])}
<1>3. 0 \in S
  BY <1>0, <1>2
<1>4. ASSUME NEW k \in 1..n, k - 1 \in S PROVE k \in S
  <2>0. k \in 0..n /\ k - 1 \in 0..n /\ t[k] \in Entry
    BY <1>0, ElementOfSeq
  <2>1. k \in 0..n /\ k - 1 \in 0..n /\ t[k] \in Entry /\ f[k - 1] \in Seq(Entry)
    BY <1>2, <2>0
  <2>2. \A i \in DOMAIN f[k - 1] : Good(f[k - 1][i])
    BY <1>4
  <2>3. CASE t[k].id \in X
    <3>1. f[k] = Append(f[k - 1], t[k])
      BY <1>2, <2>3
    <3>2. Good(t[k])
      BY <2>3
    <3>3. /\ Len(f[k - 1]) \in Nat /\ DOMAIN f[k - 1] = 1..Len(f[k - 1]) /\ DOMAIN f[k] = 1..(Len(f[k - 1]) + 1)
          /\ f[k][Len(f[k - 1]) + 1] = t[k] /\ \A i \in 1..Len(f[k - 1]) : f[k][i] = f[k - 1][i]
      BY <2>1, <3>1, AppendProperties, LenProperties
    <3> HIDE DEF Good
    <3>4. \A i \in DOMAIN f[k] : Good(f[k][i])
      BY <2>2, <3>2, <3>3, SMTT(30)
    <3> QED
      BY <2>1, <3>4
  <2>4. CASE t[k].id \notin X
    <3>1. f[k] = f[k - 1]
      BY <1>2, <2>4
    <3> HIDE DEF Good
    <3> QED
      BY <2>1, <2>2, <3>1
  <2> QED
    BY <2>3, <2>4
<1>5. n \in S
  <2>1. \A k \in 0..n : k \in S
    <3> HIDE DEF S
    <3> QED
      BY <1>0, <1>3, <1>4, CountTo
  <2> QED
    BY <1>0, <2>1
<1> QED
  BY <1>1, <1>5

SaveInv(e, n, kept) == Kept(kept, e.list, n) /\ Picks(kept, e.list, n, e.keep)

SaveLoop == INSTANCE Loops WITH
    Op  <- LAMBDA e, kept, m : IF OnlyRetained(e.d.store[m.id]) THEN kept ELSE Append(kept, m),
    Inv <- SaveInv

\* The messages that are not taken for retained ones only.
ToSave(d) == {i \in Nat : ~OnlyRetained(d.store[i])}

\* persist__client_messages_save.
LEMMA SavedListKept ==
    ASSUME NEW d, NEW list \in Seq(Entry)
    PROVE  Kept(SavedList(d, list), list, Len(list)) /\ Picks(SavedList(d, list), list, Len(list), ToSave(d))
<1> DEFINE env == [d |-> d, list |-> list, keep |-> ToSave(d)]
           E == SavedList(d, list)
<1>1. env.list = list /\ env.keep = ToSave(d) /\ env.d = d
  OBVIOUS
<1>2. E = SaveLoop!OverList(env, <<>>, list)
  BY DEF SavedList, SaveLoop!OverList, FoldLeft, SaveLoop!FoldLeft, MapThenFoldSet,
         SaveLoop!MapThenFoldSet, Max, SaveLoop!Max
<1> HIDE DEF env, E
<1>3. SaveInv(env, 0, <<>>)
  BY <1>1, KeptNone, PicksNone DEF SaveInv
<1>4. \A n \in 1..Len(list) : \A x : SaveInv(env, n - 1, x) =>
          SaveInv(env, n, IF OnlyRetained(env.d.store[list[n].id]) THEN x ELSE Append(x, list[n]))
  <2> SUFFICES ASSUME NEW n \in 1..Len(list), NEW x, SaveInv(env, n - 1, x)
               PROVE  SaveInv(env, n, IF OnlyRetained(env.d.store[list[n].id]) THEN x ELSE Append(x, list[n]))
    OBVIOUS
  <2>1. Kept(x, list, n - 1) /\ Picks(x, list, n - 1, ToSave(d))
    BY <1>1 DEF SaveInv
  <2>2. Kept(x, list, n) /\ Kept(Append(x, list[n]), list, n)
    BY <2>1, KeptNext
  <2>3. Picks(IF list[n].id \in ToSave(d) THEN Append(x, list[n]) ELSE x, list, n, ToSave(d))
    BY <2>1, PicksNext
  <2>4. list[n].id \in Nat
    <3>1. list[n] \in Entry
      BY ElementOfSeq
    <3> QED
      BY <3>1 DEF Entry
  <2>5. list[n].id \in ToSave(d) <=> ~OnlyRetained(d.store[list[n].id])
    BY <2>4 DEF ToSave
  <2> QED
    BY <1>1, <2>2, <2>3, <2>5 DEF SaveInv
<1>5. SaveInv(env, Len(list), E)
  BY <1>2, <1>3, <1>4, SaveLoop!ListLoop
<1> QED
  BY <1>1, <1>5 DEF SaveInv, E

\* What the file f holds of d.
FileOf(d, f) ==
    /\ f.last_db_id = d.last_db_id /\ DOMAIN f.store \subseteq DOMAIN d.store
    /\ f.store \in [DOMAIN f.store -> Message]
    /\ \A i \in DOMAIN f.store : f.store[i].topic = d.store[i].topic
    /\ \A c \in Durable : /\ f.msgs_in[c] \subseteq d.msgs_in[c]
                          /\ Kept(f.msgs_out[c], d.msgs_out[c], Len(d.msgs_out[c]))
    /\ \A i \in f.retained : \E p \in RetainedNodes(d) : i = d.retains[p]

\* Nothing that should be there is missing in the file.
FileHas(d, f) ==
    /\ \A i \in DOMAIN d.store : d.store[i].ref_count > 0 /\ ~OnlyRetained(d.store[i]) => i \in DOMAIN f.store
    /\ \A i \in DOMAIN f.store : /\ ~OnlyRetained(d.store[i])
                                 /\ f.store[i].payload = d.store[i].payload /\ f.store[i].expiry = d.store[i].expiry
                                 /\ ~IsSys(d.store[i]) => f.store[i].retain = d.store[i].retain
    /\ \A c \in Durable : /\ f.msgs_in[c] = {id \in d.msgs_in[c] : ~OnlyRetained(d.store[id])}
                          /\ Picks(f.msgs_out[c], d.msgs_out[c], Len(d.msgs_out[c]), ToSave(d))
    /\ \A i : i \in f.retained <=> \E p \in RetainedNodes(d) : i = d.retains[p] /\ ~IsSys(d.store[i])

LEMMA SavedFile ==
    ASSUME NEW d \in Mem
    PROVE  FileOf(d, Saved(d)) /\ FileHas(d, Saved(d))
<1> DEFINE f == Saved(d)
           D == {i \in DOMAIN d.store : d.store[i].ref_count > 0 /\ ~OnlyRetained(d.store[i])}
<1>1. /\ d.store \in [DOMAIN d.store -> Message] /\ d.msgs_in \in [Clients -> SUBSET Nat]
      /\ \A c \in Durable : c \in Clients /\ d.msgs_out[c] \in Seq(Entry)
  BY MemParts, EntryParts, ClientAssumption
<1>2. f.last_db_id = d.last_db_id
  BY DEF Saved
<1>3. f.store = [id \in D |-> [d.store[id] EXCEPT !.retain = @ /\ ~IsSys(d.store[id])]]
  BY DEF Saved
<1>4. \A c \in Durable : f.msgs_in[c] = {id \in d.msgs_in[c] : ~OnlyRetained(d.store[id])}
  BY DEF Saved
<1>5. \A c \in Durable : f.msgs_out[c] = SavedList(d, d.msgs_out[c])
  BY DEF Saved
<1>6. f.retained = {d.retains[p] : p \in {q \in DOMAIN d.retains : d.retains[q] # 0 /\ ~IsSys(d.store[d.retains[q]])}}
  BY DEF Saved
<1>7. \A i \in D : /\ i \in DOMAIN d.store /\ d.store[i] \in Message
  BY <1>1
<1> HIDE DEF f, D
<1>8. \A i \in D : /\ f.store[i] \in Message /\ f.store[i].topic = d.store[i].topic
                   /\ f.store[i].payload = d.store[i].payload /\ f.store[i].expiry = d.store[i].expiry
                   /\ ~IsSys(d.store[i]) => f.store[i].retain = d.store[i].retain
  <2> SUFFICES ASSUME NEW i \in D
               PROVE  /\ f.store[i] \in Message /\ f.store[i].topic = d.store[i].topic
                      /\ f.store[i].payload = d.store[i].payload /\ f.store[i].expiry = d.store[i].expiry
                      /\ ~IsSys(d.store[i]) => f.store[i].retain = d.store[i].retain
    OBVIOUS
  <2> DEFINE m == d.store[i]
             v == m.retain /\ ~IsSys(m)
  <2>1. f.store[i] = [m EXCEPT !.retain = v] /\ m \in Message
    BY <1>3, <1>7
  <2>2. v \in BOOLEAN /\ m.retain \in BOOLEAN
    BY <2>1 DEF Message
  <2>2a. ASSUME ~IsSys(m) PROVE v = m.retain
    BY <2>2, <2>2a, Zenon
  <2> HIDE DEF v, m
  <2>3. LET x == [m EXCEPT !.retain = v]
        IN  x \in Message /\ x.topic = m.topic /\ x.payload = m.payload /\ x.expiry = m.expiry /\ x.retain = v
    BY <2>1, <2>2 DEF Message
  <2> QED
    BY <2>1, <2>2a, <2>3 DEF m
<1>9. DOMAIN f.store = D /\ f.store \in [DOMAIN f.store -> Message]
  BY <1>3, <1>8
<1>10. \A c \in Durable : /\ Kept(f.msgs_out[c], d.msgs_out[c], Len(d.msgs_out[c]))
                          /\ Picks(f.msgs_out[c], d.msgs_out[c], Len(d.msgs_out[c]), ToSave(d))
  BY <1>1, <1>5, SavedListKept
<1>11. \A i \in f.retained : \E p \in RetainedNodes(d) : i = d.retains[p]
  BY <1>6 DEF RetainedNodes
<1>12. FileOf(d, f)
  BY <1>2, <1>4, <1>7, <1>8, <1>9, <1>10, <1>11 DEF FileOf
<1>13. \A i : i \in f.retained <=> \E p \in RetainedNodes(d) : i = d.retains[p] /\ ~IsSys(d.store[i])
  BY <1>6 DEF RetainedNodes
<1>14. \A i : i \in D <=> i \in DOMAIN d.store /\ d.store[i].ref_count > 0 /\ ~OnlyRetained(d.store[i])
  BY DEF D
<1>15. FileHas(d, f)
  BY <1>4, <1>8, <1>9, <1>10, <1>13, <1>14 DEF FileHas
<1> QED
  BY <1>12, <1>15 DEF f

\* The messages are there and their lists are made: nothing but the counts changes.
Listing(d, g) ==
    /\ Sound(g, AllRefs(g)) /\ g.retains = d.retains /\ g.last_db_id = d.last_db_id
    /\ DOMAIN g.store = DOMAIN d.store /\ Same(d.store, g.store)

LEMMA ListingMore ==
    ASSUME NEW d, NEW g, NEW h, Listing(d, g), Listing(g, h)
    PROVE  Listing(d, h)
<1>1. /\ Sound(h, AllRefs(h)) /\ h.retains = d.retains /\ h.last_db_id = d.last_db_id
      /\ DOMAIN h.store = DOMAIN d.store
  BY DEF Listing
<1>2. Same(d.store, h.store)
  BY DEF Listing, Same
<1> QED
  BY <1>1, <1>2 DEF Listing

LEMMA InListed ==
    ASSUME NEW d, Sound(d, AllRefs(d)), NEW c \in Clients, NEW id \in DOMAIN d.store, id \notin d.msgs_in[c]
    PROVE  LET g == [RefInc(d, id) EXCEPT !.msgs_in[c] = @ \cup {id}]
           IN  Listing(d, g) /\ g.msgs_out = d.msgs_out /\ g.msgs_in = [d.msgs_in EXCEPT ![c] = @ \cup {id}]
<1> DEFINE d1 == RefInc(d, id)
           in == [d1.msgs_in EXCEPT ![c] = @ \cup {id}]
           g == [d1 EXCEPT !.msgs_in[c] = @ \cup {id}]
           x == InRef(c, id)
<1>1. d \in Mem /\ DOMAIN d.store \subseteq Nat
  BY MemParts DEF Sound
<1>2. x \notin AllRefs(d) /\ x.to = id
  BY <1>1, InMember, RefsDiffer
<1> HIDE DEF x
<1>3. Sound(d1, AllRefs(d) \cup {x}) /\ CountedUp(d, d1, id)
  BY <1>2, RefIncSound
<1>4. OnlyStore(d, d1) /\ d1 \in Mem /\ DOMAIN d1.store = DOMAIN d.store /\ Same(d.store, d1.store)
  BY <1>3 DEF Sound, CountedUp
<1>5. d1.msgs_in = d.msgs_in /\ d1.msgs_out = d.msgs_out /\ d1.retains = d.retains /\ d1.last_db_id = d.last_db_id
  BY <1>4 DEF OnlyStore
<1> HIDE DEF d1
<1>6. g = [d1 EXCEPT !.msgs_in = in]
  BY <1>4 DEF Mem
<1>7. in \in [Clients -> SUBSET Nat]
  BY <1>1, <1>4, MemParts
<1> HIDE DEF g
<1>8. /\ g \in Mem /\ g.msgs_in = in /\ g.msgs_out = d1.msgs_out /\ g.retains = d1.retains
      /\ g.last_db_id = d1.last_db_id /\ g.store = d1.store
  BY <1>4, <1>6, <1>7 DEF Mem
<1>9. AllRefs(g) = AllRefs(d) \cup {x}
  BY <1>1, <1>5, <1>8, InMoreRefs DEF x
<1>10. AtNodes(g)
  BY <1>3, <1>8 DEF Sound, AtNodes, RetainedNodes
<1>11. Sound(g, AllRefs(g))
  BY <1>3, <1>8, <1>9, <1>10, StillSound
<1>12. Listing(d, g)
  BY <1>4, <1>5, <1>8, <1>11 DEF Listing
<1> QED
  BY <1>5, <1>8, <1>12 DEF g, d1

\* The message m is put at the end of the list of c.
AtEnd(d, g, c, m) ==
    Listing(d, g) /\ g.msgs_in = d.msgs_in /\ g.msgs_out = [d.msgs_out EXCEPT ![c] = Append(@, m)]

LEMMA OutListed ==
    ASSUME NEW d, Sound(d, AllRefs(d)), NEW c \in Clients, NEW m \in Entry, m.id \in DOMAIN d.store
    PROVE  AtEnd(d, [RefInc(d, m.id) EXCEPT !.msgs_out[c] = Append(@, m)], c, m)
<1> DEFINE id == m.id
           d1 == RefInc(d, id)
           out == [d1.msgs_out EXCEPT ![c] = Append(@, m)]
           g == [d1 EXCEPT !.msgs_out[c] = Append(@, m)]
           x == OutRef(c, Len(d.msgs_out[c]) + 1, id)
<1>1. d \in Mem
  BY DEF Sound
<1>2. x \notin AllRefs(d) /\ x.to = id
  <2>1. Len(d.msgs_out[c]) + 1 \notin DOMAIN d.msgs_out[c]
    BY <1>1, EntryParts
  <2> QED
    BY <1>1, <2>1, OutMember, RefsDiffer
<1> HIDE DEF x
<1>3. Sound(d1, AllRefs(d) \cup {x}) /\ CountedUp(d, d1, id)
  <2> HIDE DEF id
  <2>1. id \in DOMAIN d.store
    BY DEF id
  <2> QED
    BY <1>2, <2>1, RefIncSound
<1>4. OnlyStore(d, d1) /\ d1 \in Mem /\ DOMAIN d1.store = DOMAIN d.store /\ Same(d.store, d1.store)
  BY <1>3 DEF Sound, CountedUp
<1>5. d1.msgs_in = d.msgs_in /\ d1.msgs_out = d.msgs_out /\ d1.retains = d.retains /\ d1.last_db_id = d.last_db_id
  BY <1>4 DEF OnlyStore
<1> HIDE DEF d1
<1>6. g = [d1 EXCEPT !.msgs_out = out]
  BY <1>4 DEF Mem
<1>7. out \in [Clients -> Seq(Entry)]
  <2>1. d1.msgs_out \in [Clients -> Seq(Entry)]
    BY <1>4, MemParts
  <2>2. Append(d1.msgs_out[c], m) \in Seq(Entry)
    BY <2>1, AppendProperties
  <2> QED
    BY <2>1, <2>2
<1> HIDE DEF g
<1>8. /\ g \in Mem /\ g.msgs_out = out /\ g.msgs_in = d1.msgs_in /\ g.retains = d1.retains
      /\ g.last_db_id = d1.last_db_id /\ g.store = d1.store
  BY <1>4, <1>6, <1>7 DEF Mem
<1>9. AllRefs(g) = AllRefs(d) \cup {x}
  BY <1>1, <1>5, <1>8, AppendRefs DEF x
<1>10. AtNodes(g)
  BY <1>3, <1>8 DEF Sound, AtNodes, RetainedNodes
<1>11. Sound(g, AllRefs(g))
  BY <1>3, <1>8, <1>9, <1>10, StillSound
<1>12. Listing(d, g)
  BY <1>4, <1>5, <1>8, <1>11 DEF Listing
<1>13. AtEnd(d, g, c, m)
  BY <1>5, <1>8, <1>12 DEF AtEnd
<1> QED
  BY <1>13 DEF g, d1

\* The lists of the other clients stay as they are.
Others(d, g, c) == \A b \in Clients : b # c => g.msgs_in[b] = d.msgs_in[b] /\ g.msgs_out[b] = d.msgs_out[b]

InListInv(e, t, g) ==
    /\ Listing(e.base, g) /\ Others(e.base, g, e.c)
    /\ g.msgs_in[e.c] = t /\ g.msgs_out[e.c] = <<>>

OutListInv(e, n, g) ==
    /\ Listing(e.base, g) /\ Others(e.base, g, e.c)
    /\ g.msgs_in[e.c] = e.in /\ Kept(g.msgs_out[e.c], e.list, n)
    /\ Picks(g.msgs_out[e.c], e.list, n, e.load)

InListLoop == INSTANCE Loops WITH
    Op  <- LAMBDA e, g, id : [RefInc(g, id) EXCEPT !.msgs_in[e.c] = @ \cup {id}],
    Inv <- InListInv

PutLast(load, c, g, m) ==
    IF m.id \in load THEN [RefInc(g, m.id) EXCEPT !.msgs_out[c] = Append(@, m)] ELSE g

OutListLoop == INSTANCE Loops WITH
    Op  <- LAMBDA e, g, m : PutLast(e.load, e.c, g, m),
    Inv <- OutListInv

LEMMA InListStep ==
    ASSUME NEW e, e.c \in Clients, NEW t, NEW id \in DOMAIN e.base.store, id \notin t,
           NEW g, InListInv(e, t, g)
    PROVE  InListInv(e, t \cup {id}, [RefInc(g, id) EXCEPT !.msgs_in[e.c] = @ \cup {id}])
<1> DEFINE h == [RefInc(g, id) EXCEPT !.msgs_in[e.c] = @ \cup {id}]
<1>1. /\ Listing(e.base, g) /\ Others(e.base, g, e.c) /\ g.msgs_in[e.c] = t /\ g.msgs_out[e.c] = <<>>
      /\ Sound(g, AllRefs(g)) /\ DOMAIN g.store = DOMAIN e.base.store
  BY DEF InListInv, Listing
<1>2. Listing(g, h) /\ h.msgs_out = g.msgs_out /\ h.msgs_in = [g.msgs_in EXCEPT ![e.c] = @ \cup {id}]
  BY <1>1, InListed, SMTT(30)
<1>3. g.msgs_in \in [Clients -> SUBSET Nat]
  BY <1>1, MemParts DEF Sound
<1> HIDE DEF h
<1>4. h.msgs_in[e.c] = t \cup {id} /\ \A b \in Clients : b # e.c => h.msgs_in[b] = g.msgs_in[b]
  BY <1>1, <1>2, <1>3
<1>5. Others(e.base, h, e.c) /\ h.msgs_out[e.c] = <<>>
  BY <1>1, <1>2, <1>4 DEF Others
<1>6. Listing(e.base, h)
  BY <1>1, <1>2, ListingMore
<1>7. InListInv(e, t \cup {id}, h)
  BY <1>4, <1>5, <1>6 DEF InListInv
<1> QED
  BY <1>7 DEF h

LEMMA OutListStep ==
    ASSUME NEW e, e.c \in Clients, e.load = DOMAIN e.base.store, e.list \in Seq(Entry),
           NEW n \in 1..Len(e.list), NEW g, OutListInv(e, n - 1, g)
    PROVE  OutListInv(e, n, PutLast(e.load, e.c, g, e.list[n]))
<1> DEFINE m == e.list[n]
           h == [RefInc(g, m.id) EXCEPT !.msgs_out[e.c] = Append(@, m)]
<1>0. m \in Entry
  BY ElementOfSeq
<1>1. /\ Listing(e.base, g) /\ Others(e.base, g, e.c) /\ g.msgs_in[e.c] = e.in /\ Kept(g.msgs_out[e.c], e.list, n - 1)
      /\ Picks(g.msgs_out[e.c], e.list, n - 1, e.load)
      /\ Sound(g, AllRefs(g)) /\ DOMAIN g.store = DOMAIN e.base.store
  BY DEF OutListInv, Listing
<1>2. /\ Kept(g.msgs_out[e.c], e.list, n) /\ Kept(Append(g.msgs_out[e.c], m), e.list, n)
      /\ Picks(IF m.id \in e.load THEN Append(g.msgs_out[e.c], m) ELSE g.msgs_out[e.c], e.list, n, e.load)
  BY <1>1, KeptNext, PicksNext
<1>3. CASE m.id \notin e.load
  <2>1. OutListInv(e, n, g)
    BY <1>1, <1>2, <1>3, SMTT(30) DEF OutListInv
  <2> QED
    BY <1>3, <2>1 DEF PutLast
<1>4. CASE m.id \in e.load
  <2> HIDE DEF m
  <2>0. AtEnd(g, h, e.c, m)
    BY <1>0, <1>1, <1>4, OutListed
  <2>1. Listing(g, h) /\ h.msgs_in = g.msgs_in /\ h.msgs_out = [g.msgs_out EXCEPT ![e.c] = Append(@, m)]
    <3> HIDE DEF h
    <3> QED
      BY <2>0 DEF AtEnd
  <2>2. g.msgs_out \in [Clients -> Seq(Entry)]
    BY <1>1, MemParts DEF Sound
  <2> HIDE DEF h
  <2>3. h.msgs_out[e.c] = Append(g.msgs_out[e.c], m) /\ \A b \in Clients : b # e.c => h.msgs_out[b] = g.msgs_out[b]
    BY <2>1, <2>2
  <2>4. Others(e.base, h, e.c) /\ h.msgs_in[e.c] = e.in
    BY <1>1, <2>1, <2>3 DEF Others
  <2>5. Listing(e.base, h)
    BY <1>1, <2>1, ListingMore
  <2>6. OutListInv(e, n, h)
    BY <1>2, <1>4, <2>3, <2>4, <2>5 DEF OutListInv
  <2> QED
    BY <1>4, <2>6 DEF h, m, PutLast
<1> QED
  BY <1>3, <1>4

\* The lists of c are made from the file.
ListsMade(d, g, c, file, load) ==
    /\ Listing(d, g) /\ Others(d, g, c) /\ g.msgs_in[c] = file.msgs_in[c] \cap load
    /\ Kept(g.msgs_out[c], file.msgs_out[c], Len(file.msgs_out[c]))
    /\ Picks(g.msgs_out[c], file.msgs_out[c], Len(file.msgs_out[c]), load)

\* persist__client_msg_restore for the messages of one client.
LEMMA RestoreListsSound ==
    ASSUME NEW d, Sound(d, AllRefs(d)), NEW c \in Clients, NEW file, NEW load, load = DOMAIN d.store,
           d.msgs_in[c] = {}, d.msgs_out[c] = <<>>, file.msgs_out[c] \in Seq(Entry)
    PROVE  ListsMade(d, RestoreLists(d, c, file, load), c, file, load)
<1> DEFINE S == file.msgs_in[c] \cap load
           list == file.msgs_out[c]
           d1 == FoldSet(LAMBDA id, x : [RefInc(x, id) EXCEPT !.msgs_in[c] = @ \cup {id}], d, S)
           g == RestoreLists(d, c, file, load)
           env == [base |-> d, c |-> c, in |-> S, list |-> list, load |-> load]
<1>1. env.base = d /\ env.c = c /\ env.in = S /\ env.list = list /\ env.load = load
  OBVIOUS
<1>2. d1 = InListLoop!OverSet(env, d, S)
  BY DEF InListLoop!OverSet, FoldSet, InListLoop!FoldSet, MapThenFoldSet, InListLoop!MapThenFoldSet
<1> DEFINE last(z) == FoldLeft(LAMBDA x, m : PutLast(load, c, x, m), z, list)
<1>3a. g = last(d1)
  BY Zenon DEF RestoreLists, PutLast
<1>3b. last(d1) = OutListLoop!OverList(env, d1, list)
  <2> HIDE DEF d1
  <2> QED
    BY DEF OutListLoop!OverList, FoldLeft, OutListLoop!FoldLeft, MapThenFoldSet,
         OutListLoop!MapThenFoldSet, Max, OutListLoop!Max
<1>3. g = OutListLoop!OverList(env, d1, list)
  BY <1>3a, <1>3b, Zenon
<1>4. d.last_db_id \in Nat /\ load \subseteq 1..d.last_db_id
  BY MemParts DEF Sound
<1>5. IsFiniteSet(S) /\ S \subseteq load
  <2>1. IsFiniteSet(1..d.last_db_id)
    BY <1>4, FS_Interval
  <2>2. S \subseteq 1..d.last_db_id
    BY <1>4
  <2> QED
    BY <2>1, <2>2, FS_Subset
<1> HIDE DEF S, d1, g, env, list
<1>6. InListInv(env, S, d1)
  <2>1. InListInv(env, {}, d)
    BY <1>1 DEF InListInv, Listing, Others, Same
  <2>2. \A t \in SUBSET S, id \in S : \A x : id \notin t /\ InListInv(env, t, x) =>
           InListInv(env, t \cup {id}, [RefInc(x, id) EXCEPT !.msgs_in[env.c] = @ \cup {id}])
    BY <1>1, <1>5, InListStep
  <2>3. InListLoop!IsFiniteSet(S)
    BY <1>5 DEF IsFiniteSet, InListLoop!IsFiniteSet
  <2> QED
    BY <1>2, <2>1, <2>2, <2>3, InListLoop!SetLoop
<1>7. OutListInv(env, Len(list), g)
  <2>1. OutListInv(env, 0, d1)
    BY <1>1, <1>6, KeptNone, PicksNone DEF InListInv, OutListInv
  <2>2. \A n \in 1..Len(list) : \A x : OutListInv(env, n - 1, x) =>
           OutListInv(env, n, PutLast(env.load, env.c, x, list[n]))
    BY <1>1, OutListStep DEF list
  <2>3. list \in Seq(Entry)
    BY DEF list
  <2> QED
    BY <1>3, <2>1, <2>2, <2>3, OutListLoop!ListLoop
<1> QED
  BY <1>1, <1>7 DEF OutListInv, ListsMade, g, S, list

\* The lists of the clients of t are made.
ListedInv(e, t, g) ==
    /\ Listing(e.base, g)
    /\ \A b \in Clients : IF b \in t THEN /\ g.msgs_in[b] = e.file.msgs_in[b] \cap e.load
                                          /\ Kept(g.msgs_out[b], e.file.msgs_out[b], Len(e.file.msgs_out[b]))
                                          /\ Picks(g.msgs_out[b], e.file.msgs_out[b], Len(e.file.msgs_out[b]), e.load)
                          ELSE g.msgs_in[b] = {} /\ g.msgs_out[b] = <<>>

ListedLoop == INSTANCE Loops WITH
    Op  <- LAMBDA e, g, c : RestoreLists(g, c, e.file, e.load),
    Inv <- ListedInv

LEMMA ListedStep ==
    ASSUME NEW e, e.load = DOMAIN e.base.store, NEW c \in Clients, e.file.msgs_out[c] \in Seq(Entry),
           NEW t, c \notin t, NEW g, ListedInv(e, t, g)
    PROVE  ListedInv(e, t \cup {c}, RestoreLists(g, c, e.file, e.load))
<1> DEFINE h == RestoreLists(g, c, e.file, e.load)
<1>1. /\ Listing(e.base, g) /\ Sound(g, AllRefs(g)) /\ DOMAIN g.store = DOMAIN e.base.store
      /\ g.msgs_in[c] = {} /\ g.msgs_out[c] = <<>>
  BY DEF ListedInv, Listing
<1>2. /\ Listing(g, h) /\ Others(g, h, c) /\ h.msgs_in[c] = e.file.msgs_in[c] \cap e.load
      /\ Kept(h.msgs_out[c], e.file.msgs_out[c], Len(e.file.msgs_out[c]))
      /\ Picks(h.msgs_out[c], e.file.msgs_out[c], Len(e.file.msgs_out[c]), e.load)
  <2>1. ListsMade(g, h, c, e.file, e.load)
    BY <1>1, RestoreListsSound
  <2> HIDE DEF h
  <2> QED
    BY <2>1 DEF ListsMade
<1> HIDE DEF h
<1>3. Listing(e.base, h)
  BY <1>1, <1>2, ListingMore
<1>4. ASSUME NEW b \in Clients
      PROVE  IF b \in t \cup {c} THEN /\ h.msgs_in[b] = e.file.msgs_in[b] \cap e.load
                                      /\ Kept(h.msgs_out[b], e.file.msgs_out[b], Len(e.file.msgs_out[b]))
                                      /\ Picks(h.msgs_out[b], e.file.msgs_out[b], Len(e.file.msgs_out[b]), e.load)
             ELSE h.msgs_in[b] = {} /\ h.msgs_out[b] = <<>>
  <2>1. CASE b = c
    BY <1>2, <2>1
  <2>2. CASE b # c
    <3>1. h.msgs_in[b] = g.msgs_in[b] /\ h.msgs_out[b] = g.msgs_out[b]
      BY <1>2, <2>2 DEF Others
    <3> QED
      BY <2>2, <3>1 DEF ListedInv
  <2> QED
    BY <2>1, <2>2
<1>5. ListedInv(e, t \cup {c}, h)
  BY <1>3, <1>4 DEF ListedInv
<1> QED
  BY <1>5 DEF h

\* The node holds the message.
Again(g, p, i) == p \in DOMAIN g.retains /\ g.retains[p] = i

\* The retained messages of t are back.
KeepInv(e, t, g) ==
    /\ Sound(g, AllRefs(g)) /\ g.msgs_in = e.base.msgs_in /\ g.msgs_out = e.base.msgs_out
    /\ g.last_db_id = e.base.last_db_id
    /\ DOMAIN g.store = DOMAIN e.base.store /\ Same(e.base.store, g.store)
    /\ \A p \in DOMAIN g.retains : g.retains[p] = 0 \/ g.retains[p] \in t
    /\ \A i \in t : e.base.store[i].payload => Again(g, NodeOf[e.base.store[i].topic], i)

KeepLoop == INSTANCE Loops WITH Op <- LAMBDA e, g, id : RetainStore(g, id), Inv <- KeepInv

LEMMA KeepStep ==
    ASSUME NEW e, e.S \subseteq DOMAIN e.base.store,
           \A i, j \in e.S : NodeOf[e.base.store[i].topic] = NodeOf[e.base.store[j].topic] => i = j,
           NEW t \in SUBSET e.S, NEW id \in e.S, id \notin t, NEW g, KeepInv(e, t, g)
    PROVE  KeepInv(e, t \cup {id}, RetainStore(g, id))
<1> DEFINE h == RetainStore(g, id)
           node == NodeOf[g.store[id].topic]
<1>1. /\ Sound(g, AllRefs(g)) /\ g.msgs_in = e.base.msgs_in /\ g.msgs_out = e.base.msgs_out
      /\ g.last_db_id = e.base.last_db_id
      /\ DOMAIN g.store = DOMAIN e.base.store /\ Same(e.base.store, g.store)
      /\ \A p \in DOMAIN g.retains : g.retains[p] = 0 \/ g.retains[p] \in t
      /\ \A i \in t : e.base.store[i].payload => Again(g, NodeOf[e.base.store[i].topic], i)
  BY DEF KeepInv
<1>2. /\ id \in DOMAIN g.store /\ \A i \in DOMAIN g.store : g.store[i].topic = e.base.store[i].topic
      /\ g.store[id].payload = e.base.store[id].payload
  BY <1>1 DEF Same
<1>3. OldAt(g, node) = 0
  <2>1. SUFFICES ASSUME OldAt(g, node) # 0 PROVE FALSE
    OBVIOUS
  <2> DEFINE old == g.retains[node]
  <2>2. node \in RetainedNodes(g) /\ old \in t
    <3> HIDE DEF node
    <3>1. node \in DOMAIN g.retains /\ old # 0
      BY <2>1 DEF OldAt
    <3>2. \A p \in DOMAIN g.retains : g.retains[p] = 0 \/ g.retains[p] \in t
      BY <1>1
    <3> QED
      BY <3>1, <3>2 DEF RetainedNodes
  <2>3. old \in DOMAIN g.store /\ NodeOf[g.store[old].topic] = node
    <3> HIDE DEF node
    <3>1. \A p \in RetainedNodes(g) : /\ g.retains[p] \in DOMAIN g.store
                                      /\ NodeOf[g.store[g.retains[p]].topic] = p
      BY <1>1, WholeRefs
    <3> QED
      BY <2>2, <3>1
  <2>4. old \in e.S /\ NodeOf[e.base.store[old].topic] = NodeOf[e.base.store[id].topic]
    BY <1>2, <2>2, <2>3, ZenonT(30)
  <2>5. old = id
    BY <2>4, Zenon
  <2> QED
    BY <2>2, <2>5
<1>4. Sound(h, AllRefs(h)) /\ Retained(g, h, id)
  <2>1. Guards({}) /\ Sound(g, AllRefs(g) \cup {})
    BY <1>1 DEF Guards
  <2>2. Sound(RetainStore(g, id), AllRefs(RetainStore(g, id)) \cup {}) /\ Retained(g, RetainStore(g, id), id)
    BY <1>2, <1>3, <2>1, RetainStoreSound
  <2> HIDE DEF h
  <2>3. AllRefs(RetainStore(g, id)) \cup {} = AllRefs(RetainStore(g, id))
    OBVIOUS
  <2> QED
    BY <2>2, <2>3 DEF h
<1> HIDE DEF h
<1>5. /\ SetAt(g, h, node, IF g.store[id].payload THEN id ELSE 0) /\ Same(g.store, h.store)
      /\ \A i \in DOMAIN g.store : i \in DOMAIN h.store \/ i = OldAt(g, node)
  BY <1>4 DEF Retained
<1>6. /\ h.msgs_in = g.msgs_in /\ h.msgs_out = g.msgs_out /\ h.last_db_id = g.last_db_id
      /\ \A q \in DOMAIN h.retains : h.retains[q] \in {0, id} \/ h.retains[q] = OldAt(g, q)
  BY <1>5 DEF SetAt
<1>7. DOMAIN h.store = DOMAIN g.store
  <2>1. 0 \notin DOMAIN g.store
    BY <1>1 DEF Sound
  <2>2. DOMAIN h.store \subseteq DOMAIN g.store
    BY <1>5 DEF Same
  <2> QED
    BY <1>3, <1>5, <2>1, <2>2
<1>8. Same(e.base.store, h.store)
  BY <1>1, <1>5 DEF Same
<1>9. \A q \in DOMAIN h.retains : h.retains[q] = 0 \/ h.retains[q] \in t \cup {id}
  BY <1>1, <1>6 DEF OldAt
<1>10. ASSUME NEW i \in t \cup {id}, e.base.store[i].payload
       PROVE  Again(h, NodeOf[e.base.store[i].topic], i)
  <2> DEFINE p == NodeOf[e.base.store[i].topic]
  <2>1. CASE i = id
    <3>1. p = node
      BY <1>2, <2>1
    <3>2. node \in DOMAIN h.retains /\ h.retains[node] = id
      BY <1>2, <1>5, <1>10, <2>1 DEF SetAt
    <3> QED
      BY <2>1, <3>1, <3>2 DEF Again
  <2>2. CASE i # id
    <3>1. i \in t /\ i \in e.S
      BY <2>2
    <3>2. p # node
      BY <1>2, <2>2, <3>1
    <3>3. p \in DOMAIN g.retains /\ g.retains[p] = i
      BY <1>1, <1>10, <3>1 DEF Again
    <3>4. p \in DOMAIN h.retains /\ h.retains[p] = i
      BY <1>5, <3>2, <3>3 DEF SetAt, OldAt
    <3> QED
      BY <3>4 DEF Again
  <2> QED
    BY <2>1, <2>2
<1>11. KeepInv(e, t \cup {id}, h)
  BY <1>1, <1>4, <1>6, <1>7, <1>8, <1>9, <1>10 DEF KeepInv
<1> QED
  BY <1>11 DEF h


\* Messages that nothing refers to.
Bare(d) ==
    /\ d \in Mem /\ DOMAIN d.store \subseteq 1..d.last_db_id
    /\ \A p \in DOMAIN d.retains : d.retains[p] = 0
    /\ \A c \in Clients : d.msgs_in[c] = {} /\ d.msgs_out[c] = <<>>
    /\ \A i \in DOMAIN d.store : d.store[i].ref_count = 0

LEMMA BareSound ==
    ASSUME NEW d, Bare(d)
    PROVE  Sound(d, AllRefs(d))
<1>1. /\ d \in Mem /\ DOMAIN d.store \subseteq 1..d.last_db_id /\ RetainedNodes(d) = {}
      /\ \A c \in Clients : d.msgs_in[c] = {} /\ d.msgs_out[c] = <<>>
      /\ \A i \in DOMAIN d.store : d.store[i].ref_count = 0
  BY DEF Bare, RetainedNodes
<1>2. DOMAIN <<>> = {}
  OBVIOUS
<1>3. RetainRefs(d) = {} /\ InRefs(d) = {} /\ OutRefs(d) = {}
  <2>1. RetainRefs(d) = {}
    BY <1>1 DEF RetainRefs
  <2>2. InRefs(d) = {}
    BY <1>1 DEF InRefs
  <2>3. OutRefs(d) = {}
    BY <1>1, <1>2 DEF OutRefs
  <2> QED
    BY <2>1, <2>2, <2>3
<1>4. AllRefs(d) = {}
  BY <1>3 DEF AllRefs
<1>5. Balanced(d.store, {})
  <2>1. \A i : {r \in {} : r.to = i} = {}
    OBVIOUS
  <2> QED
    BY <1>1, <2>1, FS_EmptySet DEF Balanced
<1>6. AtNodes(d)
  BY <1>1 DEF AtNodes
<1> QED
  BY <1>1, <1>4, <1>5, <1>6 DEF Sound

LEMMA NoMessagesBare ==
    Bare(NoMessages)
<1> DEFINE d == NoMessages
           D == {<<"">>, <<"$SYS">>}
<1>1. /\ d = [store |-> <<>>, msgs_in |-> [c \in Clients |-> {}], msgs_out |-> [c \in Clients |-> <<>>],
              retains |-> EmptyRetains, last_db_id |-> 0]
  BY DEF NoMessages
<1>2. EmptyRetains = [p \in D |-> 0]
  BY DEF EmptyRetains, InitialTree
<1>3. D \in Rooted
  <2>1. DOMAIN InitialTree = D
    BY DEF InitialTree
  <2>2. InitialTree \in Trees({}) /\ Neat(InitialTree)
    BY InitialTreeKeeps
  <2>3. Nodes(DOMAIN InitialTree) /\ <<>> \notin DOMAIN InitialTree
    BY <2>2, NeatNodes
  <2> HIDE DEF D
  <2> QED
    BY <2>1, <2>3 DEF Rooted, Nodes
<1> HIDE DEF D
<1>4. EmptyRetains \in Retains /\ \A p \in DOMAIN EmptyRetains : EmptyRetains[p] = 0
  BY <1>2, <1>3, RetainsParts
<1>5. <<>> \in Stores
  <2>1. DOMAIN <<>> = {} /\ <<>> \in [{} -> Message]
    OBVIOUS
  <2> QED
    BY <2>1, StoreParts
<1>6. [c \in Clients |-> {}] \in [Clients -> SUBSET Nat] /\ [c \in Clients |-> <<>>] \in [Clients -> Seq(Entry)]
  OBVIOUS
<1>7. d \in Mem
  BY <1>1, <1>4, <1>5, <1>6 DEF Mem
<1>8. DOMAIN <<>> = {}
  OBVIOUS
<1>9. d.store = <<>> /\ d.retains = EmptyRetains /\ \A c \in Clients : d.msgs_in[c] = {} /\ d.msgs_out[c] = <<>>
  BY <1>1
<1>10. DOMAIN d.store = {}
  BY <1>8, <1>9
<1> HIDE DEF d
<1>11. Bare(d)
  BY <1>4, <1>7, <1>9, <1>10 DEF Bare
<1> QED
  BY <1>11 DEF d

\* The messages of the file that are loaded, before anything refers to them.
Loaded(file, time) ==
    {id \in DOMAIN file.store : file.store[id].expiry = 0 \/ file.store[id].expiry >= time}
Chunks(file, time) ==
    [NoMessages EXCEPT !.last_db_id = file.last_db_id,
                       !.store = [id \in Loaded(file, time) |->
                           [file.store[id] EXCEPT !.ref_count = 0, !.dest_ids = {},
                                                  !.expiry = IF @ = time THEN 0 ELSE @]]]
Listed(file, time) ==
    FoldSet(LAMBDA c, d : RestoreLists(d, c, file, Loaded(file, time)), Chunks(file, time), Durable)

LEMMA ChunksBare ==
    ASSUME NEW d, d \in Mem, DOMAIN d.store \subseteq 1..d.last_db_id, NEW file, FileOf(d, file), NEW time \in Nat
    PROVE  LET g == Chunks(file, time)
           IN  /\ Bare(g) /\ DOMAIN g.store = Loaded(file, time) /\ g.last_db_id = d.last_db_id
               /\ Loaded(file, time) \subseteq DOMAIN d.store
               /\ \A i \in DOMAIN g.store : /\ g.store[i].topic = d.store[i].topic
                                            /\ g.store[i].payload = file.store[i].payload
                                            /\ g.store[i].retain = file.store[i].retain
<1> DEFINE g == Chunks(file, time)
           D == Loaded(file, time)
           s == [id \in D |-> [file.store[id] EXCEPT !.ref_count = 0, !.dest_ids = {},
                                                     !.expiry = IF @ = time THEN 0 ELSE @]]
<1>1. g = [NoMessages EXCEPT !.last_db_id = file.last_db_id, !.store = s]
  BY DEF Chunks
<1>2. /\ file.last_db_id = d.last_db_id /\ DOMAIN file.store \subseteq DOMAIN d.store
      /\ file.store \in [DOMAIN file.store -> Message]
      /\ \A i \in DOMAIN file.store : file.store[i].topic = d.store[i].topic
  BY DEF FileOf
<1>3. D \subseteq DOMAIN file.store
  BY DEF Loaded
<1> HIDE DEF D
<1>4. ASSUME NEW i \in D
      PROVE  /\ s[i] \in Message /\ s[i].topic = file.store[i].topic /\ s[i].ref_count = 0
             /\ s[i].payload = file.store[i].payload /\ s[i].retain = file.store[i].retain
  <2> DEFINE m == file.store[i]
  <2>1. m \in Message
    BY <1>2, <1>3
  <2>2. s[i] = [m EXCEPT !.ref_count = 0, !.dest_ids = {}, !.expiry = IF @ = time THEN 0 ELSE @]
    BY SMTT(30)
  <2> HIDE DEF m
  <2> QED
    BY <2>1, <2>2 DEF Message, m
<1>5. DOMAIN s = D /\ s \in [D -> Message]
  BY <1>4, Zenon
<1> HIDE DEF s
<1>6. d.last_db_id \in Nat /\ D \subseteq Nat /\ D \subseteq 1..d.last_db_id /\ D \subseteq DOMAIN d.store
  BY <1>2, <1>3, MemParts
<1>7. s \in Stores
  BY <1>5, <1>6, StoreParts
<1>8. /\ NoMessages \in Mem /\ (\A p \in DOMAIN NoMessages.retains : NoMessages.retains[p] = 0)
      /\ \A c \in Clients : NoMessages.msgs_in[c] = {} /\ NoMessages.msgs_out[c] = <<>>
  BY NoMessagesBare DEF Bare
<1> HIDE DEF g
<1>9. /\ g \in Mem /\ g.store = s /\ g.last_db_id = d.last_db_id /\ g.retains = NoMessages.retains
      /\ g.msgs_in = NoMessages.msgs_in /\ g.msgs_out = NoMessages.msgs_out
  BY <1>1, <1>2, <1>6, <1>7, <1>8 DEF Mem
<1>10. Bare(g)
  BY <1>4, <1>5, <1>6, <1>8, <1>9 DEF Bare
<1>11. \A i \in DOMAIN g.store : /\ g.store[i].topic = d.store[i].topic
                                 /\ g.store[i].payload = file.store[i].payload
                                 /\ g.store[i].retain = file.store[i].retain
  BY <1>2, <1>3, <1>4, <1>5, <1>9
<1> QED
  BY <1>5, <1>6, <1>9, <1>10, <1>11 DEF g, D

\* What the lists are after all chunks of the clients.
LEMMA ListedSound ==
    ASSUME NEW d, d \in Mem, DOMAIN d.store \subseteq 1..d.last_db_id, NEW file, FileOf(d, file), NEW time \in Nat
    PROVE  ListedInv([base |-> Chunks(file, time), file |-> file, load |-> Loaded(file, time)],
                     Durable, Listed(file, time))
<1> DEFINE g == Chunks(file, time)
           load == Loaded(file, time)
           env == [base |-> g, file |-> file, load |-> load]
           h == Listed(file, time)
<1>1. Bare(g) /\ DOMAIN g.store = load
  BY ChunksBare
<1>2. Sound(g, AllRefs(g))
  BY <1>1, BareSound
<1>3. env.base = g /\ env.file = file /\ env.load = load
  OBVIOUS
<1>4. h = ListedLoop!OverSet(env, g, Durable)
  BY DEF Listed, ListedLoop!OverSet, FoldSet, ListedLoop!FoldSet, MapThenFoldSet, ListedLoop!MapThenFoldSet
<1> HIDE DEF g, load, h, env
<1>5. Durable \subseteq Clients /\ IsFiniteSet(Durable)
  BY ClientAssumption, FS_Subset
<1>6. ListedInv(env, {}, g)
  BY <1>1, <1>2, <1>3 DEF ListedInv, Listing, Same, Bare
<1>7. \A c \in Durable : file.msgs_out[c] \in Seq(Entry)
  BY DEF FileOf, Kept
<1>8. \A t \in SUBSET Durable, c \in Durable : \A x : c \notin t /\ ListedInv(env, t, x) =>
          ListedInv(env, t \cup {c}, RestoreLists(x, c, env.file, env.load))
  BY <1>1, <1>3, <1>5, <1>7, ListedStep
<1>9. ListedInv(env, Durable, h)
  <2>1. ListedLoop!IsFiniteSet(Durable)
    BY <1>5 DEF IsFiniteSet, ListedLoop!IsFiniteSet
  <2> QED
    BY <1>4, <1>6, <1>8, <2>1, ListedLoop!SetLoop
<1> QED
  BY <1>9 DEF env, h, g, load

\* What the file gives back of d.
Returned(d, g) ==
    /\ Sound(g, AllRefs(g)) /\ g.last_db_id = d.last_db_id
    /\ \A c \in Clients : /\ g.msgs_in[c] \subseteq d.msgs_in[c]
                          /\ Kept(g.msgs_out[c], d.msgs_out[c], Len(d.msgs_out[c]))
    /\ \A p \in DOMAIN g.retains : g.retains[p] = 0 \/ \E q \in RetainedNodes(d) : g.retains[p] = d.retains[q]

\* Nothing of the file that is loaded is lost on the way.
Back(file, time, g) ==
    /\ DOMAIN g.store = Loaded(file, time)
    /\ \A i \in DOMAIN g.store : /\ g.store[i].topic = file.store[i].topic
                                 /\ g.store[i].payload = file.store[i].payload
                                 /\ g.store[i].retain = file.store[i].retain
    /\ \A c \in Durable : /\ g.msgs_in[c] = file.msgs_in[c] \cap Loaded(file, time)
                          /\ Picks(g.msgs_out[c], file.msgs_out[c], Len(file.msgs_out[c]), Loaded(file, time))
    /\ \A p \in DOMAIN g.retains : g.retains[p] = 0 \/ g.retains[p] \in file.retained \cap Loaded(file, time)
    /\ \A i \in file.retained \cap Loaded(file, time) :
          file.store[i].payload => Again(g, NodeOf[file.store[i].topic], i)

\* persist__restore.
LEMMA RestoredSound ==
    ASSUME NEW d, Sound(d, AllRefs(d)), NEW file, FileOf(d, file), NEW time \in Nat
    PROVE  Returned(d, Restored(file, time)) /\ Back(file, time, Restored(file, time))
<1> DEFINE g == Chunks(file, time)
           load == Loaded(file, time)
           h == Listed(file, time)
           S == file.retained \cap load
           e == Restored(file, time)
           env == [base |-> h, S |-> S]
           lists == [base |-> g, file |-> file, load |-> load]
<1>1. d \in Mem /\ DOMAIN d.store \subseteq 1..d.last_db_id /\ d.last_db_id \in Nat
  BY MemParts DEF Sound
<1>2. /\ Bare(g) /\ DOMAIN g.store = load /\ g.last_db_id = d.last_db_id /\ load \subseteq DOMAIN d.store
      /\ \A i \in DOMAIN g.store : /\ g.store[i].topic = d.store[i].topic
                                   /\ g.store[i].payload = file.store[i].payload
                                   /\ g.store[i].retain = file.store[i].retain
  BY <1>1, ChunksBare
<1>2a. \A i \in load : file.store[i].topic = d.store[i].topic
  BY DEF FileOf, Loaded
<1>3. e = FoldSet(LAMBDA id, x : RetainStore(x, id), h, S)
  BY Zenon DEF Restored, Listed, Chunks, Loaded
<1>4. lists.base = g /\ lists.file = file /\ lists.load = load
  OBVIOUS
<1>5. ListedInv(lists, Durable, h)
  BY <1>1, ListedSound
<1> HIDE DEF lists, h, load, g
<1>6. /\ Sound(h, AllRefs(h)) /\ h.retains = g.retains /\ h.last_db_id = d.last_db_id /\ DOMAIN h.store = load
      /\ \A i \in load : /\ h.store[i].topic = d.store[i].topic /\ h.store[i].payload = file.store[i].payload
                         /\ h.store[i].retain = file.store[i].retain
  BY <1>2, <1>4, <1>5 DEF ListedInv, Listing, Same
<1>7. ASSUME NEW c \in Clients
      PROVE  h.msgs_in[c] \subseteq d.msgs_in[c] /\ Kept(h.msgs_out[c], d.msgs_out[c], Len(d.msgs_out[c]))
  <2>0. Len(d.msgs_out[c]) \in Nat
    BY <1>1, EntryParts
  <2>1. CASE c \in Durable
    <3>1. /\ file.msgs_in[c] \subseteq d.msgs_in[c] /\ Kept(file.msgs_out[c], d.msgs_out[c], Len(d.msgs_out[c]))
      BY <2>1 DEF FileOf
    <3>2. h.msgs_in[c] = file.msgs_in[c] \cap load /\ Kept(h.msgs_out[c], file.msgs_out[c], Len(file.msgs_out[c]))
      BY <1>4, <1>5, <2>1 DEF ListedInv
    <3> QED
      BY <2>0, <3>1, <3>2, KeptTwice
  <2>2. CASE c \notin Durable
    <3>1. h.msgs_in[c] = {} /\ h.msgs_out[c] = <<>>
      BY <1>5, <2>2 DEF ListedInv
    <3>2. Kept(<<>>, d.msgs_out[c], Len(d.msgs_out[c]))
      BY <2>0, KeptNone
    <3> QED
      BY <3>1, <3>2
  <2> QED
    BY <2>1, <2>2
<1>8. \A i \in S : i \in load /\ \E p \in RetainedNodes(d) : i = d.retains[p]
  BY DEF FileOf
<1>9. env.base = h /\ env.S = S
  OBVIOUS
<1>10. e = KeepLoop!OverSet(env, h, S)
  <2> HIDE DEF e, h, S, env
  <2> QED
    BY <1>3 DEF KeepLoop!OverSet, FoldSet, KeepLoop!FoldSet, MapThenFoldSet, KeepLoop!MapThenFoldSet
<1> HIDE DEF e, S, env
<1>11. \A i, j \in S : NodeOf[h.store[i].topic] = NodeOf[h.store[j].topic] => i = j
  <2> SUFFICES ASSUME NEW i \in S, NEW j \in S, NodeOf[h.store[i].topic] = NodeOf[h.store[j].topic]
               PROVE  i = j
    OBVIOUS
  <2>1. PICK p \in RetainedNodes(d) : i = d.retains[p]
    BY <1>8
  <2>2. PICK q \in RetainedNodes(d) : j = d.retains[q]
    BY <1>8, SMTT(30)
  <2>3. NodeOf[d.store[i].topic] = p /\ NodeOf[d.store[j].topic] = q
    BY <2>1, <2>2, WholeRefs
  <2>4. p = q
    BY <1>6, <1>8, <2>3
  <2> QED
    BY <2>1, <2>2, <2>4
<1>12. IsFiniteSet(S)
  <2>1. IsFiniteSet(1..d.last_db_id)
    BY <1>1, FS_Interval
  <2>2. S \subseteq 1..d.last_db_id
    BY <1>1, <1>2, <1>8
  <2> QED
    BY <2>1, <2>2, FS_Subset
<1>13. KeepInv(env, {}, h)
  BY <1>2, <1>6, <1>9 DEF KeepInv, Same, Bare
<1>14. \A t \in SUBSET S, id \in S : \A x : id \notin t /\ KeepInv(env, t, x) => KeepInv(env, t \cup {id}, RetainStore(x, id))
  BY <1>6, <1>8, <1>9, <1>11, KeepStep
<1>15. KeepInv(env, S, e)
  <2>1. KeepLoop!IsFiniteSet(S)
    BY <1>12 DEF IsFiniteSet, KeepLoop!IsFiniteSet
  <2> QED
    BY <1>10, <1>13, <1>14, <2>1, KeepLoop!SetLoop
<1>16. Returned(d, e)
  BY <1>6, <1>7, <1>8, <1>9, <1>15 DEF KeepInv, Returned
<1>17. /\ DOMAIN e.store = load
       /\ \A i \in load : /\ e.store[i].topic = file.store[i].topic
                          /\ e.store[i].payload = file.store[i].payload
                          /\ e.store[i].retain = file.store[i].retain
  BY <1>2a, <1>6, <1>9, <1>15 DEF KeepInv, Same
<1>18. ASSUME NEW c \in Durable
       PROVE  /\ e.msgs_in[c] = file.msgs_in[c] \cap load
              /\ Picks(e.msgs_out[c], file.msgs_out[c], Len(file.msgs_out[c]), load)
  <2>1. c \in Clients /\ e.msgs_in = h.msgs_in /\ e.msgs_out = h.msgs_out
    BY <1>9, <1>15, ClientAssumption DEF KeepInv
  <2> QED
    BY <1>4, <1>5, <2>1 DEF ListedInv
<1>19. /\ \A p \in DOMAIN e.retains : e.retains[p] = 0 \/ e.retains[p] \in S
       /\ \A i \in S : file.store[i].payload => Again(e, NodeOf[file.store[i].topic], i)
  BY <1>2a, <1>6, <1>8, <1>9, <1>15 DEF KeepInv
<1>20. Back(file, time, e)
  BY <1>17, <1>18, <1>19 DEF Back, load, S
<1> QED
  BY <1>16, <1>20 DEF e

LEMMA RestartWhole ==
    ASSUME NEW d, Whole(d), NEW time \in Nat
    PROVE  LET e == Restored(Saved(d), time)
           IN  Whole(e) /\ e.last_db_id = d.last_db_id /\ (Short(d) => Short(e))
<1> DEFINE file == Saved(d)
           e == Restored(file, time)
<1>1. Sound(d, AllRefs(d)) /\ Once(d) /\ Waiting(d) /\ d \in Mem
  BY DEF Whole, Sound
<1>2. FileOf(d, file)
  BY <1>1, SavedFile
<1> HIDE DEF file
<1>3. Returned(d, e) /\ Back(file, time, e)
  BY <1>1, <1>2, RestoredSound
<1> HIDE DEF e
<1>3a. \A i \in DOMAIN e.store : e.store[i].topic = d.store[i].topic
  BY <1>2, <1>3 DEF Back, Loaded, FileOf
<1>4. /\ Sound(e, AllRefs(e)) /\ e.last_db_id = d.last_db_id
      /\ \A c \in Clients : /\ e.msgs_in[c] \subseteq d.msgs_in[c]
                            /\ Kept(e.msgs_out[c], d.msgs_out[c], Len(d.msgs_out[c]))
      /\ \A p \in DOMAIN e.retains : e.retains[p] = 0 \/ \E q \in RetainedNodes(d) : e.retains[p] = d.retains[q]
  BY <1>3 DEF Returned
<1>5. Moved(d, e)
  <2> SUFFICES ASSUME NEW b \in Clients
               PROVE  \E h \in [DOMAIN e.msgs_out[b] -> DOMAIN d.msgs_out[b]] :
                         /\ \A i, j \in DOMAIN e.msgs_out[b] : h[i] = h[j] => i = j
                         /\ \A i \in DOMAIN e.msgs_out[b] : e.msgs_out[b][i] = d.msgs_out[b][h[i]]
    BY DEF Moved
  <2>1. DOMAIN d.msgs_out[b] = 1..Len(d.msgs_out[b])
    BY <1>1, EntryParts
  <2>2. Kept(e.msgs_out[b], d.msgs_out[b], Len(d.msgs_out[b]))
    BY <1>4
  <2> QED
    BY <2>1, <2>2, SMTT(30) DEF Kept
<1>6. Once(e)
  BY <1>1, <1>5, MovedOnce
<1>7. Waiting(e)
  <2> SUFFICES ASSUME NEW c \in Clients, NEW i \in e.msgs_in[c]
               PROVE  /\ ~IsSys(e.store[i])
                      /\ Absent(e, i) /\ \A b \in Clients : b # c => i \notin e.msgs_in[b]
                      /\ \A p \in DOMAIN e.retains : e.retains[p] # i
    BY DEF Waiting
  <2>1. i \in d.msgs_in[c]
    BY <1>4
  <2>2. /\ Absent(d, i) /\ (\A b \in Clients : b # c => i \notin d.msgs_in[b]) /\ ~IsSys(d.store[i])
        /\ \A p \in DOMAIN d.retains : d.retains[p] # i
    BY <1>1, <2>1 DEF Waiting
  <2>3. i # 0
    BY <1>1, <2>1, WholeRefs DEF Sound
  <2>3a. i \in DOMAIN e.store
    BY <1>4, WholeRefs
  <2>3b. ~IsSys(e.store[i])
    BY <1>3a, <2>2, <2>3a DEF IsSys
  <2>4. Absent(e, i)
    BY <1>5, <2>2, MovedAbsent
  <2> QED
    BY <1>4, <2>2, <2>3, <2>3b, <2>4 DEF RetainedNodes
<1>8. ASSUME Short(d) PROVE Short(e)
  <2> SUFFICES ASSUME NEW c \in Clients PROVE Len(e.msgs_out[c]) <= MaxList
    BY DEF Short
  <2>1. Len(e.msgs_out[c]) \in Nat /\ Len(e.msgs_out[c]) <= Len(d.msgs_out[c])
    BY <1>4 DEF Kept
  <2>2. Len(d.msgs_out[c]) \in Nat /\ Len(d.msgs_out[c]) <= MaxList /\ MaxList \in Nat
    BY <1>1, <1>8, EntryParts, BoundAssumption DEF Short
  <2> QED
    BY <2>1, <2>2
<1> QED
  BY <1>4, <1>6, <1>7, <1>8 DEF Whole, e, file
----------------------------------------------------------------------------
(* The theorems.                                                           *)

StoreInv ==
    /\ Whole(db) /\ Short(db) /\ now \in Nat /\ restarts \in Nat
    /\ loaded \in 0..db.last_db_id /\ \A id \in Unused(db.store) : id <= loaded

LEMMA InitInv ==
    Init => StoreInv
<1> SUFFICES ASSUME Init PROVE StoreInv
  OBVIOUS
<1>1. db = NoMessages /\ now = 1 /\ restarts = 0 /\ loaded = 0
  BY DEF Init
<1>2. Bare(db)
  BY <1>1, NoMessagesBare
<1>3. Sound(db, AllRefs(db))
  BY <1>2, BareSound
<1>4. \A c \in Clients : db.msgs_in[c] = {} /\ db.msgs_out[c] = <<>> /\ DOMAIN db.msgs_out[c] = {} /\ Len(db.msgs_out[c]) = 0
  <2>1. DOMAIN <<>> = {} /\ Len(<<>>) = 0
    OBVIOUS
  <2> QED
    BY <1>2, <2>1 DEF Bare
<1>5. Once(db) /\ Waiting(db)
  BY <1>4 DEF Once, Waiting
<1>6. Short(db)
  BY <1>4, BoundAssumption DEF Short
<1>7. db.last_db_id = 0 /\ db.store = <<>>
  BY <1>1 DEF NoMessages
<1>8. Unused(db.store) = {}
  <2>1. DOMAIN <<>> = {}
    OBVIOUS
  <2> QED
    BY <1>7, <2>1 DEF Unused
<1> QED
  BY <1>1, <1>3, <1>5, <1>6, <1>7, <1>8 DEF StoreInv, Whole

LEMMA TargetSeqs ==
    ASSUME NEW to \in Targets
    PROVE  to \in Seq(Clients)
<1>1. PICK n \in 0..Fanout : to \in [1..n -> Clients]
  BY DEF Targets
<1>2. n \in Nat
  BY <1>1, BoundAssumption
<1> QED
  BY <1>1, <1>2, SeqDef

\* What an operation while the broker runs leaves behind.
LEMMA KeepsInv ==
    ASSUME StoreInv, Whole(db'), Short(db'), db'.last_db_id \in {db.last_db_id, db.last_db_id + 1},
           Unused(db'.store) \subseteq Unused(db.store), now' \in Nat, UNCHANGED <<restarts, loaded>>
    PROVE  StoreInv'
<1>1. db.last_db_id \in Nat
  BY MemParts DEF StoreInv, Whole, Sound
<1>2. loaded' \in 0..db'.last_db_id
  BY <1>1 DEF StoreInv
<1> QED
  BY <1>2 DEF StoreInv

LEMMA PublishInv ==
    ASSUME StoreInv, NEW topic \in TopicNames, NEW payload \in BOOLEAN, NEW retain \in BOOLEAN,
           NEW lifetime \in Nat, NEW to \in Targets, Publish(topic, payload, retain, lifetime, to)
    PROVE  StoreInv'
<1> DEFINE d1 == Store(db, topic, payload, retain, lifetime)
           e == MessagesQueue(d1, d1.last_db_id, to)
<1>1. db' = e /\ Bounded /\ UNCHANGED <<now, restarts, loaded>>
  BY DEF Publish
<1>2. to \in Seq(Clients)
  BY TargetSeqs
<1>3. Whole(db) /\ now \in Nat
  BY DEF StoreInv
<1>4. After(db, e)
  BY <1>2, <1>3, PublishWhole, Zenon
<1> HIDE DEF e, d1
<1>5. Short(db')
  BY <1>1 DEF Bounded, Short
<1> QED
  BY <1>1, <1>3, <1>4, <1>5, KeepsInv DEF After

LEMMA Publish2Inv ==
    ASSUME StoreInv, NEW c \in Durable, NEW topic \in ClientTopics, NEW payload \in BOOLEAN, NEW retain \in BOOLEAN,
           Publish2(c, topic, payload, retain)
    PROVE  StoreInv'
<1> DEFINE d1 == Store(db, topic, payload, retain, 0)
           id == d1.last_db_id
           e == [RefInc(d1, id) EXCEPT !.msgs_in[c] = @ \cup {id}]
<1>1. db' = e /\ UNCHANGED <<now, restarts, loaded>>
  BY DEF Publish2
<1>2. c \in Clients
  BY ClientAssumption
<1>3. Whole(db) /\ now \in Nat /\ Short(db)
  BY DEF StoreInv
<1>4. AfterIn(db, e)
  BY <1>2, <1>3, Publish2Whole, Zenon
<1> HIDE DEF e
<1>5. Short(db')
  BY <1>1, <1>3, <1>4 DEF Short, AfterIn
<1> QED
  BY <1>1, <1>3, <1>4, <1>5, KeepsInv DEF After, AfterIn

LEMMA ReleaseInv ==
    ASSUME StoreInv, NEW c \in Clients, NEW id \in db.msgs_in[c], NEW to \in Targets, Release(c, id, to)
    PROVE  StoreInv'
<1> DEFINE e == RefDec([MessagesQueue(db, id, to) EXCEPT !.msgs_in[c] = @ \ {id}], id)
<1>1. db' = e /\ Bounded /\ UNCHANGED <<now, restarts, loaded>>
  BY DEF Release
<1>2. to \in Seq(Clients)
  BY TargetSeqs
<1>3. Whole(db) /\ now \in Nat
  BY DEF StoreInv
<1>4. After(db, e)
  BY <1>2, <1>3, ReleaseWhole, Zenon
<1> HIDE DEF e
<1>5. Short(db')
  BY <1>1 DEF Bounded, Short
<1> QED
  BY <1>1, <1>3, <1>4, <1>5, KeepsInv DEF After

LEMMA FinishInv ==
    ASSUME StoreInv, NEW c \in Clients, NEW n \in DOMAIN db.msgs_out[c], Finish(c, n)
    PROVE  StoreInv'
<1> DEFINE e == [RefDec(db, db.msgs_out[c][n].id) EXCEPT !.msgs_out[c] = RemoveAt(@, n)]
<1>1. db' = e /\ UNCHANGED <<now, restarts, loaded>>
  BY DEF Finish
<1>2. Whole(db) /\ now \in Nat /\ Short(db)
  BY DEF StoreInv
<1>3. After(db, e) /\ (Short(db) => Short(e))
  BY <1>2, FinishWhole, Zenon
<1> HIDE DEF e
<1> QED
  BY <1>1, <1>2, <1>3, KeepsInv DEF After

LEMMA RetainQueueInv ==
    ASSUME StoreInv, NEW c \in Clients, NEW f, RetainQueue(c, f)
    PROVE  StoreInv'
<1> DEFINE e == FoldSet(LAMBDA node, x : RetainProcess(x, c, node), db, RetainSearch(db.retains, f))
<1>1. db' = e /\ Bounded /\ UNCHANGED <<now, restarts, loaded>>
  BY Zenon DEF RetainQueue
<1>2. Whole(db) /\ now \in Nat
  BY DEF StoreInv
<1>3. After(db, e)
  BY <1>2, RetainQueueWhole, Zenon
<1> HIDE DEF e
<1>4. Short(db')
  BY <1>1 DEF Bounded, Short
<1> QED
  BY <1>1, <1>2, <1>3, <1>4, KeepsInv DEF After

LEMMA DeleteInv ==
    ASSUME StoreInv, NEW c \in Clients, MessagesDelete(c)
    PROVE  StoreInv'
<1> DEFINE d1 == FoldLeft(LAMBDA x, m : RefDec(x, m.id), db, db.msgs_out[c])
           d2 == FoldSet(LAMBDA id, x : RefDec(x, id), d1, db.msgs_in[c])
           e == [d2 EXCEPT !.msgs_out[c] = <<>>, !.msgs_in[c] = {}]
<1>1. db' = e /\ UNCHANGED <<now, restarts, loaded>>
  BY DEF MessagesDelete
<1>2. Whole(db) /\ now \in Nat /\ Short(db)
  BY DEF StoreInv
<1>3. After(db, e) /\ (Short(db) => Short(e))
  BY <1>2, DeleteWhole, Zenon
<1> HIDE DEF e
<1> QED
  BY <1>1, <1>2, <1>3, KeepsInv DEF After

LEMMA RestartInv ==
    ASSUME StoreInv, NEW down \in 0..MaxDown, Restart(down)
    PROVE  StoreInv'
<1> DEFINE time == now + down
           e == Restored(Saved(db), time)
<1>1. db' = e /\ now' = time /\ restarts' = restarts + 1 /\ loaded' = db.last_db_id
  BY DEF Restart
<1>2. Whole(db) /\ Short(db) /\ now \in Nat /\ restarts \in Nat /\ time \in Nat
  BY BoundAssumption DEF StoreInv
<1> HIDE DEF time
<1>3. Whole(e) /\ e.last_db_id = db.last_db_id /\ (Short(db) => Short(e))
  BY <1>2, RestartWhole
<1> HIDE DEF e
<1>4. db.last_db_id \in Nat /\ DOMAIN e.store \subseteq 1..db.last_db_id
  BY <1>3, MemParts DEF Whole, Sound
<1>5. \A id \in Unused(e.store) : id <= db.last_db_id
  BY <1>4 DEF Unused
<1> QED
  BY <1>1, <1>2, <1>3, <1>4, <1>5 DEF StoreInv

LEMMA NextInv ==
    StoreInv /\ [Next]_vars => StoreInv'
<1> SUFFICES ASSUME StoreInv, [Next]_vars PROVE StoreInv'
  OBVIOUS
<1>0. TRUE \in BOOLEAN /\ FALSE \in BOOLEAN /\ 0 \in Nat /\ Lifetimes \subseteq Nat
      /\ ClientTopics \subseteq TopicNames /\ SysTopics \subseteq TopicNames
  BY LifetimeAssumption DEF TopicNames
<1>1. ASSUME NEW t \in ClientTopics, NEW p \in BOOLEAN, NEW l \in Lifetimes, NEW to \in Targets,
             Publish(t, p, TRUE, l, to)
      PROVE  StoreInv'
  BY <1>0, <1>1, PublishInv
<1>2. ASSUME NEW t \in ClientTopics, NEW l \in Lifetimes, NEW to \in Targets, Publish(t, TRUE, FALSE, l, to)
      PROVE  StoreInv'
  BY <1>0, <1>2, PublishInv
<1>3. ASSUME NEW t \in ClientTopics, NEW c \in Durable, NEW r \in BOOLEAN, Publish2(c, t, r, r)
      PROVE  StoreInv'
  BY <1>0, <1>3, Publish2Inv
<1>4. ASSUME NEW t \in SysTopics, NEW to \in Targets, SysTreeUpdate(t, to)
      PROVE  StoreInv'
  <2>1. Publish(t, TRUE, TRUE, 0, to)
    BY <1>4 DEF SysTreeUpdate
  <2> QED
    BY <1>0, <2>1, PublishInv
<1>5. ASSUME NEW c \in Clients, NEW id \in db.msgs_in[c], NEW to \in Targets, Release(c, id, to)
      PROVE  StoreInv'
  BY <1>5, ReleaseInv
<1>6. ASSUME NEW c \in Clients, NEW n \in DOMAIN db.msgs_out[c], Finish(c, n)
      PROVE  StoreInv'
  BY <1>6, FinishInv
<1>7. ASSUME NEW c \in Clients, NEW f \in Filters, RetainQueue(c, f)
      PROVE  StoreInv'
  BY <1>7, RetainQueueInv
<1>8. ASSUME NEW c \in Clients, MessagesDelete(c)
      PROVE  StoreInv'
  BY <1>8, DeleteInv
<1>9. CASE Tick
  BY <1>9 DEF Tick, StoreInv
<1>10. ASSUME NEW down \in 0..MaxDown, Restart(down)
       PROVE  StoreInv'
  BY <1>10, RestartInv
<1>11. CASE UNCHANGED vars
  BY <1>11 DEF vars, StoreInv
<1> QED
  BY <1>1, <1>2, <1>3, <1>4, <1>5, <1>6, <1>7, <1>8, <1>9, <1>10, <1>11, Zenon DEF Next

(* Every operation of the broker on its messages, and every restart from   *)
(* the file, keeps the counts those of the references, gives a v3 client a *)
(* message once, and leaves a message that waits for its PUBREL with one   *)
(* client and nowhere else.                                                *)
THEOREM StoreInvariant ==
    Spec => []StoreInv
<1>1. Init => StoreInv
  BY InitInv
<1>2. StoreInv /\ [Next]_vars => StoreInv'
  BY NextInv
<1> QED
  BY <1>1, <1>2, PTL DEF Spec

LEMMA SameSize ==
    ASSUME NEW S, NEW T, IsFiniteSet(T), NEW f \in [S -> T],
           \A x, y \in S : f[x] = f[y] => x = y, \A y \in T : \E x \in S : f[x] = y
    PROVE  Cardinality(S) = Cardinality(T)
<1>1. f \in Injection(S, T) /\ f \in Surjection(S, T)
  BY DEF Injection, Surjection, IsInjective
<1> QED
  BY <1>1, FS_Injection

\* The references to a message, counted by their kinds.
LEMMA CountedByKind ==
    ASSUME NEW d, Sound(d, AllRefs(d)), Short(d), NEW id
    PROVE  Cardinality({r \in AllRefs(d) : r.to = id}) = References(d, id)
<1> DEFINE All == {r \in AllRefs(d) : r.to = id}
           A == {r \in RetainRefs(d) : r.to = id}
           B == {r \in InRefs(d) : r.to = id}
           C == {r \in OutRefs(d) : r.to = id}
           P == {p \in RetainedNodes(d) : d.retains[p] = id}
           Q == {c \in Clients : id \in d.msgs_in[c]}
           W == {x \in Clients \X (1..MaxList) :
                    x[2] \in DOMAIN d.msgs_out[x[1]] /\ d.msgs_out[x[1]][x[2]].id = id}
<1>1. d \in Mem /\ IsFiniteSet(AllRefs(d))
  BY DEF Sound, Balanced
<1>2. All = A \cup B \cup C /\ A \subseteq AllRefs(d) /\ B \subseteq AllRefs(d) /\ C \subseteq AllRefs(d)
  BY DEF AllRefs
<1>3. IsFiniteSet(A) /\ IsFiniteSet(B) /\ IsFiniteSet(C)
  <2> HIDE DEF A, B, C
  <2> QED
    BY <1>1, <1>2, FS_Subset
<1>4. A \cap B = {} /\ (A \cup B) \cap C = {}
  <2>1. \A r \in A : r.kind = "retain"
    BY DEF RetainRefs, RetainRef
  <2>2. (\A r \in B : r.kind = "in") /\ (\A r \in C : r.kind = "out")
    BY DEF InRefs, OutRefs
  <2>3. "retain" # "in" /\ "retain" # "out" /\ "in" # "out"
    OBVIOUS
  <2> HIDE DEF A, B, C
  <2> QED
    BY <2>1, <2>2, <2>3
<1>5. Cardinality(P) = Cardinality(A)
  <2> DEFINE f == [p \in P |-> RetainRef(p, id)]
  <2>1. f \in [P -> A]
    BY RetainRefsAre, RefsDiffer
  <2>2. \A x, y \in P : f[x] = f[y] => x = y
    BY RefsDiffer
  <2>3. \A y \in A : \E x \in P : f[x] = y
    <3> SUFFICES ASSUME NEW y \in A PROVE \E x \in P : f[x] = y
      OBVIOUS
    <3>1. PICK p \in RetainedNodes(d) : y = RetainRef(p, d.retains[p])
      BY RetainRefsAre
    <3>2. d.retains[p] = id
      BY <3>1, RefsDiffer
    <3> QED
      BY <3>1, <3>2
  <2> HIDE DEF f, P, A
  <2> QED
    BY <1>3, <2>1, <2>2, <2>3, SameSize
<1>6. Cardinality(Q) = Cardinality(B)
  <2> DEFINE f == [c \in Q |-> InRef(c, id)]
  <2>1. f \in [Q -> B]
    BY <1>1, InRefsAre, RefsDiffer DEF IsIn
  <2>2. \A x, y \in Q : f[x] = f[y] => x = y
    BY RefsDiffer
  <2>3. \A y \in B : \E x \in Q : f[x] = y
    <3> SUFFICES ASSUME NEW y \in B PROVE \E x \in Q : f[x] = y
      OBVIOUS
    <3>0. PICK c \in Clients : \E i \in d.msgs_in[c] : y = InRef(c, i)
      BY <1>1, InRefsAre DEF IsIn
    <3>1. PICK i \in d.msgs_in[c] : y = InRef(c, i)
      BY <3>0
    <3>2. i = id
      BY <3>1, RefsDiffer
    <3> QED
      BY <3>1, <3>2
  <2> HIDE DEF f, Q, B
  <2> QED
    BY <1>3, <2>1, <2>2, <2>3, SameSize
<1>7. Cardinality(W) = Cardinality(C)
  <2> DEFINE f == [x \in W |-> OutRef(x[1], x[2], id)]
  <2>1. f \in [W -> C]
    <3> SUFFICES ASSUME NEW x \in W PROVE OutRef(x[1], x[2], id) \in C
      OBVIOUS
    <3>1. x[1] \in Clients /\ x[2] \in DOMAIN d.msgs_out[x[1]] /\ d.msgs_out[x[1]][x[2]].id = id
      BY SMTT(30)
    <3> HIDE DEF W
    <3> QED
      BY <1>1, <3>1, OutRefsAre, RefsDiffer DEF IsOut
  <2>2. \A x, y \in W : f[x] = f[y] => x = y
    BY RefsDiffer
  <2>3. \A y \in C : \E x \in W : f[x] = y
    <3> SUFFICES ASSUME NEW y \in C PROVE \E x \in W : f[x] = y
      OBVIOUS
    <3>0. PICK c \in Clients : \E i \in DOMAIN d.msgs_out[c] : y = OutRef(c, i, d.msgs_out[c][i].id)
      <4>1. IsOut(d, y)
        BY <1>1, OutRefsAre
      <4> QED
        BY <4>1 DEF IsOut
    <3>1. PICK i \in DOMAIN d.msgs_out[c] : y = OutRef(c, i, d.msgs_out[c][i].id)
      BY <3>0
    <3>2. d.msgs_out[c][i].id = id
      BY <3>1, RefsDiffer
    <3>3. i \in 1..MaxList
      <4>1. i \in 1..Len(d.msgs_out[c]) /\ Len(d.msgs_out[c]) \in Nat
        BY <1>1, EntryParts
      <4>2. Len(d.msgs_out[c]) <= MaxList /\ MaxList \in Nat
        BY BoundAssumption DEF Short
      <4> QED
        BY <4>1, <4>2
    <3>4. <<c, i>> \in W
      BY <3>2, <3>3
    <3> QED
      BY <3>1, <3>2, <3>4
  <2> HIDE DEF f, W, C
  <2> QED
    BY <1>3, <2>1, <2>2, <2>3, SameSize
<1>8. References(d, id) = Cardinality(P) + Cardinality(Q) + Cardinality(W)
  BY DEF References
<1> HIDE DEF A, B, C, P, Q, W, All
<1>9. /\ IsFiniteSet(A \cup B) /\ Cardinality(A \cup B) = Cardinality(A) + Cardinality(B)
  <2>1. /\ IsFiniteSet(A \cup B)
        /\ Cardinality(A \cup B) = Cardinality(A) + Cardinality(B) - Cardinality(A \cap B)
    BY <1>3, FS_Union
  <2>2. Cardinality(A) \in Nat /\ Cardinality(B) \in Nat /\ Cardinality(A \cap B) = 0
    BY <1>3, <1>4, FS_CardinalityType, FS_EmptySet
  <2> QED
    BY <2>1, <2>2
<1>10. Cardinality((A \cup B) \cup C) = Cardinality(A) + Cardinality(B) + Cardinality(C)
  <2>1. Cardinality((A \cup B) \cup C) = Cardinality(A \cup B) + Cardinality(C) - Cardinality((A \cup B) \cap C)
    BY <1>3, <1>9, FS_Union
  <2>2. /\ Cardinality(A) \in Nat /\ Cardinality(B) \in Nat /\ Cardinality(C) \in Nat
        /\ Cardinality((A \cup B) \cap C) = 0
    BY <1>3, <1>4, FS_CardinalityType, FS_EmptySet
  <2> QED
    BY <1>9, <2>1, <2>2
<1> QED
  BY <1>2, <1>5, <1>6, <1>7, <1>8, <1>10 DEF All

(* The count of every message is the number of the nodes, incoming and     *)
(* outgoing messages that refer to it: no reference leads to a message     *)
(* that has been freed, and what nothing refers to came from the file.     *)
(* (db__msg_store_ref_inc, db__msg_store_ref_dec and their callers.)       *)
THEOREM StoreRefExact ==
    Spec => []RefExact
<1>1. StoreInv => RefExact
  <2> SUFFICES ASSUME StoreInv PROVE RefExact
    OBVIOUS
  <2>1. Sound(db, AllRefs(db)) /\ Short(db) /\ \A id \in Unused(db.store) : id <= loaded
    BY DEF StoreInv, Whole
  <2>2. \A id \in DOMAIN db.store : db.store[id].ref_count = Cardinality({r \in AllRefs(db) : r.to = id})
    BY <2>1 DEF Sound, Balanced
  <2>3. ASSUME NEW id \in DOMAIN db.store PROVE db.store[id].ref_count = References(db, id)
    <3>1. Cardinality({r \in AllRefs(db) : r.to = id}) = References(db, id)
      BY <2>1, CountedByKind
    <3> QED
      BY <2>2, <3>1
  <2>4. \A id \in DOMAIN db.store : db.store[id].ref_count = 0 => id <= loaded
    BY <2>1 DEF Unused
  <2> QED
    BY <2>1, <2>3, <2>4, WholeRefs DEF RefExact
<1> QED
  BY <1>1, StoreInvariant, PTL

(* A v3 client has a message once in its list, whatever subscriptions it   *)
(* has and however often the broker is started again.                      *)
(* (db__message_insert: the dest_ids of the message.)                      *)
THEOREM StoreOncePerClient ==
    Spec => []OncePerClient
<1>1. StoreInv => OncePerClient
  BY DEF StoreInv, Whole, Once, OncePerClient
<1> QED
  BY <1>1, StoreInvariant, PTL

----------------------------------------------------------------------------
(* What a restart keeps.                                                   *)

PassInv(e, n, kept) == Picks(kept, e.list, n, Nat \ e.ids)

PassLoop == INSTANCE Loops WITH
    Op  <- LAMBDA e, kept, m : IF m.id \in e.ids THEN kept ELSE Append(kept, m),
    Inv <- PassInv

LEMMA WithoutPicks ==
    ASSUME NEW list \in Seq(Entry), NEW ids
    PROVE  Picks(Without(list, ids), list, Len(list), Nat \ ids)
<1> DEFINE env == [list |-> list, ids |-> ids]
           E == Without(list, ids)
<1>1. env.list = list /\ env.ids = ids
  OBVIOUS
<1>2. E = PassLoop!OverList(env, <<>>, list)
  BY DEF Without, PassLoop!OverList, FoldLeft, PassLoop!FoldLeft, MapThenFoldSet,
         PassLoop!MapThenFoldSet, Max, PassLoop!Max
<1> HIDE DEF env, E
<1>3. PassInv(env, 0, <<>>)
  BY <1>1, PicksNone DEF PassInv
<1>4. \A n \in 1..Len(list) : \A x : PassInv(env, n - 1, x) =>
          PassInv(env, n, IF list[n].id \in env.ids THEN x ELSE Append(x, list[n]))
  <2> SUFFICES ASSUME NEW n \in 1..Len(list), NEW x, PassInv(env, n - 1, x)
               PROVE  PassInv(env, n, IF list[n].id \in env.ids THEN x ELSE Append(x, list[n]))
    OBVIOUS
  <2>1. Picks(x, list, n - 1, Nat \ ids)
    BY <1>1 DEF PassInv
  <2>2. Picks(IF list[n].id \in Nat \ ids THEN Append(x, list[n]) ELSE x, list, n, Nat \ ids)
    BY <2>1, PicksNext
  <2>3. list[n].id \in Nat
    <3>1. list[n] \in Entry
      BY ElementOfSeq
    <3> QED
      BY <3>1 DEF Entry
  <2> QED
    BY <1>1, <2>2, <2>3 DEF PassInv
<1>5. PassInv(env, Len(list), E)
  BY <1>2, <1>3, <1>4, PassLoop!ListLoop
<1> QED
  BY <1>1, <1>5 DEF PassInv, E

\* What is referred to is counted, and so it is saved.
LEMMA ReferredCounted ==
    ASSUME NEW d, Sound(d, AllRefs(d))
    PROVE  /\ \A c \in Clients : \A id \in d.msgs_in[c] : d.store[id].ref_count > 0
           /\ \A c \in Clients : \A n \in DOMAIN d.msgs_out[c] : d.store[d.msgs_out[c][n].id].ref_count > 0
           /\ \A p \in RetainedNodes(d) : d.store[d.retains[p]].ref_count > 0
<1>1. d \in Mem /\ Balanced(d.store, AllRefs(d))
  BY DEF Sound
<1>2. ASSUME NEW r \in AllRefs(d) PROVE d.store[r.to].ref_count > 0
  <2> DEFINE R == {x \in AllRefs(d) : x.to = r.to}
  <2>1. IsFiniteSet(AllRefs(d)) /\ r.to \in DOMAIN d.store /\ d.store[r.to].ref_count = Cardinality(R)
    BY <1>1 DEF Balanced
  <2>2. IsFiniteSet(R) /\ R # {}
    <3>1. R \subseteq AllRefs(d) /\ r \in R
      OBVIOUS
    <3> QED
      BY <2>1, <3>1, FS_Subset
  <2> HIDE DEF R
  <2>3. Cardinality(R) \in Nat /\ Cardinality(R) # 0
    BY <2>2, FS_CardinalityType, FS_EmptySet
  <2> QED
    BY <2>1, <2>3
<1>3. ASSUME NEW c \in Clients, NEW id \in d.msgs_in[c] PROVE d.store[id].ref_count > 0
  <2>1. InRef(c, id) \in AllRefs(d) /\ InRef(c, id).to = id
    BY <1>1, InMember, RefsDiffer
  <2> QED
    BY <1>2, <2>1
<1>4. ASSUME NEW c \in Clients, NEW n \in DOMAIN d.msgs_out[c] PROVE d.store[d.msgs_out[c][n].id].ref_count > 0
  <2> DEFINE x == OutRef(c, n, d.msgs_out[c][n].id)
  <2>1. x \in AllRefs(d)
    BY <1>1, OutMember
  <2>2. x.to = d.msgs_out[c][n].id
    BY RefsDiffer
  <2> HIDE DEF x
  <2> QED
    BY <1>2, <2>1, <2>2
<1>5. ASSUME NEW p \in RetainedNodes(d) PROVE d.store[d.retains[p]].ref_count > 0
  <2> DEFINE x == RetainRef(p, d.retains[p])
  <2>1. x \in AllRefs(d)
    BY <1>1, RetainMember
  <2>2. x.to = d.retains[p]
    BY RefsDiffer
  <2> HIDE DEF x
  <2> QED
    BY <1>2, <2>1, <2>2
<1> QED
  BY <1>3, <1>4, <1>5

\* Whether a message of d outlasts a restart at this time.
Outlasts(d, i, time) == ~IsSys(d.store[i]) /\ (d.store[i].expiry = 0 \/ d.store[i].expiry >= time)

\* What the store is after a restart: what is referred to and outlasts it is there, unchanged.
SameStore(d, e, time) ==
    /\ \A i \in DOMAIN d.store : d.store[i].ref_count > 0 /\ Outlasts(d, i, time) => i \in DOMAIN e.store
    /\ \A i \in DOMAIN e.store :
          /\ i \in DOMAIN d.store /\ e.store[i].topic = d.store[i].topic
          /\ ~IsSys(d.store[i]) => /\ Outlasts(d, i, time) /\ e.store[i].payload = d.store[i].payload
                                   /\ e.store[i].retain = d.store[i].retain

LEMMA StoreBack ==
    ASSUME NEW d, NEW file, NEW time, NEW e, FileOf(d, file), FileHas(d, file), Back(file, time, e)
    PROVE  SameStore(d, e, time)
<1>1. /\ DOMAIN file.store \subseteq DOMAIN d.store
      /\ \A i \in DOMAIN file.store : /\ file.store[i].topic = d.store[i].topic /\ file.store[i].payload = d.store[i].payload
                                      /\ file.store[i].expiry = d.store[i].expiry
                                      /\ ~IsSys(d.store[i]) => file.store[i].retain = d.store[i].retain
  BY DEF FileOf, FileHas
<1>2. /\ DOMAIN e.store = Loaded(file, time)
      /\ \A i \in DOMAIN e.store : /\ e.store[i].topic = file.store[i].topic
                                   /\ e.store[i].payload = file.store[i].payload
                                   /\ e.store[i].retain = file.store[i].retain
  BY DEF Back
<1>3. \A i : i \in Loaded(file, time) <=> /\ i \in DOMAIN file.store
                                          /\ file.store[i].expiry = 0 \/ file.store[i].expiry >= time
  BY DEF Loaded
<1>4. \A i \in DOMAIN d.store : d.store[i].ref_count > 0 /\ ~IsSys(d.store[i]) => i \in DOMAIN file.store
  BY DEF FileHas, OnlyRetained
<1>5. ASSUME NEW i \in DOMAIN d.store, d.store[i].ref_count > 0, Outlasts(d, i, time) PROVE i \in DOMAIN e.store
  <2>1. ~IsSys(d.store[i]) /\ (d.store[i].expiry = 0 \/ d.store[i].expiry >= time)
    BY <1>5 DEF Outlasts
  <2>2. i \in DOMAIN file.store
    BY <1>4, <1>5, <2>1
  <2> QED
    BY <1>1, <1>2, <1>3, <2>1, <2>2
<1>6. ASSUME NEW i \in DOMAIN e.store
      PROVE  /\ i \in DOMAIN d.store /\ e.store[i].topic = d.store[i].topic
             /\ ~IsSys(d.store[i]) => /\ Outlasts(d, i, time) /\ e.store[i].payload = d.store[i].payload
                                      /\ e.store[i].retain = d.store[i].retain
  <2>1. i \in DOMAIN file.store /\ (file.store[i].expiry = 0 \/ file.store[i].expiry >= time)
    BY <1>2, <1>3
  <2> QED
    BY <1>1, <1>2, <2>1 DEF Outlasts
<1> QED
  BY <1>5, <1>6 DEF SameStore

\* What a restart keeps of the list of a client.
LEMMA ListBack ==
    ASSUME NEW d, Sound(d, AllRefs(d)), NEW file, NEW time, NEW e, FileOf(d, file), FileHas(d, file),
           Back(file, time, e), Sound(e, AllRefs(e)), NEW c \in Durable,
           NEW sys, sys = {i \in DOMAIN e.store : IsSys(e.store[i])},
           NEW lost, lost = {i \in DOMAIN d.store : ~Outlasts(d, i, time)}
    PROVE  /\ Without(e.msgs_out[c], sys) = Without(d.msgs_out[c], lost)
           /\ \A k \in DOMAIN Without(d.msgs_out[c], lost) :
                 LET id == Without(d.msgs_out[c], lost)[k].id
                 IN  id \in DOMAIN e.store /\ id \in DOMAIN d.store /\ Outlasts(d, id, time)
<1> DEFINE t == d.msgs_out[c]
           s == file.msgs_out[c]
           g == e.msgs_out[c]
           x == Without(g, sys)
           y == Without(t, lost)
           load == Loaded(file, time)
           X == ToSave(d) \cap load
           Y == X \cap (Nat \ sys)
<1>1. c \in Clients /\ d \in Mem /\ e \in Mem
  BY ClientAssumption DEF Sound
<1>2. t \in Seq(Entry) /\ g \in Seq(Entry) /\ s \in Seq(Entry) /\ Len(t) \in Nat /\ DOMAIN t = 1..Len(t)
  BY <1>1, EntryParts DEF FileOf, Kept
<1>3. Picks(s, t, Len(t), ToSave(d)) /\ Picks(g, s, Len(s), load)
  BY DEF FileHas, Back
<1>4. Picks(x, g, Len(g), Nat \ sys) /\ Picks(y, t, Len(t), Nat \ lost)
  BY <1>2, WithoutPicks
<1>5. SameStore(d, e, time) /\ DOMAIN e.store = load
  BY StoreBack DEF Back
<1>6. ASSUME NEW k \in 1..Len(t)
      PROVE  /\ t[k].id \in Nat /\ t[k].id \in DOMAIN d.store /\ d.store[t[k].id].ref_count > 0
             /\ t[k].id \in Y <=> Outlasts(d, t[k].id, time)
  <2> DEFINE i == t[k].id
  <2>1. i \in DOMAIN d.store /\ d.store[i].ref_count > 0
    BY <1>1, <1>2, WholeRefs, ReferredCounted
  <2>2. i \in Nat
    <3>1. t[k] \in Entry
      BY <1>2, ElementOfSeq
    <3> QED
      BY <3>1 DEF Entry
  <2> HIDE DEF i
  <2>3. ASSUME Outlasts(d, i, time) PROVE i \in Y
    <3>1. i \in load /\ ~IsSys(d.store[i]) /\ e.store[i].topic = d.store[i].topic
      BY <1>5, <2>1, <2>3 DEF SameStore, Outlasts
    <3>2. i \in ToSave(d)
      BY <2>2, <3>1 DEF ToSave, OnlyRetained
    <3>3. i \notin sys
      BY <3>1 DEF IsSys
    <3> QED
      BY <2>2, <3>1, <3>2, <3>3
  <2>4. ASSUME i \in Y PROVE Outlasts(d, i, time)
    <3>1. i \in DOMAIN e.store /\ ~IsSys(e.store[i])
      BY <1>5, <2>4
    <3>2. ~IsSys(d.store[i])
      BY <1>5, <3>1 DEF SameStore, IsSys
    <3> QED
      BY <1>5, <3>1, <3>2 DEF SameStore
  <2> QED
    BY <2>1, <2>2, <2>3, <2>4 DEF i
<1> HIDE DEF t, s, g, x, y, load, X, Y
<1>7. Picks(g, t, Len(t), X)
  BY <1>2, <1>3, PicksTwice DEF X
<1>8. Picks(x, t, Len(t), Y)
  BY <1>2, <1>4, <1>7, PicksTwice DEF Y
<1>9. \A k \in 1..Len(t) : t[k].id \in Y <=> t[k].id \in Nat \ lost
  BY <1>6
<1>10. Picks(x, t, Len(t), Nat \ lost)
  BY <1>2, <1>8, <1>9, PicksSame
<1>11. x = y
  BY <1>2, <1>4, <1>10, PicksOne
<1>12. ASSUME NEW j \in DOMAIN y
       PROVE  y[j].id \in DOMAIN e.store /\ y[j].id \in DOMAIN d.store /\ Outlasts(d, y[j].id, time)
  <2>1. y[j].id \in Nat \ lost /\ \E k \in 1..Len(t) : y[j] = t[k]
    BY <1>2, <1>4, PicksFrom, SMTT(30)
  <2>2. PICK k \in 1..Len(t) : y[j] = t[k]
    BY <2>1
  <2>3. y[j].id \in DOMAIN d.store /\ d.store[y[j].id].ref_count > 0 /\ Outlasts(d, y[j].id, time)
    BY <1>6, <2>1, <2>2
  <2> QED
    BY <1>5, <2>3 DEF SameStore
<1> QED
  BY <1>11, <1>12 DEF x, y, g, t

\* What a restart keeps of the retained messages.
LEMMA NodesBack ==
    ASSUME NEW d, Sound(d, AllRefs(d)), NEW file, NEW time, NEW e, FileOf(d, file), FileHas(d, file),
           Back(file, time, e), Sound(e, AllRefs(e)), NEW p
    PROVE  IF p \in RetainedNodes(d) /\ Outlasts(d, d.retains[p], time)
           THEN p \in RetainedNodes(e) /\ e.retains[p] = d.retains[p]
           ELSE p \notin RetainedNodes(e)
<1>1. SameStore(d, e, time) /\ DOMAIN e.store = Loaded(file, time)
  BY StoreBack DEF Back
<1>2. CASE p \in RetainedNodes(d) /\ Outlasts(d, d.retains[p], time)
  <2> DEFINE i == d.retains[p]
  <2>1. i \in DOMAIN d.store /\ NodeOf[d.store[i].topic] = p /\ d.store[i].payload /\ d.store[i].ref_count > 0
    BY <1>2, WholeRefs, ReferredCounted
  <2>2. i \in Loaded(file, time) /\ i \in DOMAIN e.store
    BY <1>1, <1>2, <2>1 DEF SameStore
  <2>3. i \in file.retained
    BY <1>2 DEF FileHas, Outlasts
  <2>4. file.store[i].topic = d.store[i].topic /\ file.store[i].payload
    <3>1. i \in DOMAIN file.store
      BY <2>2 DEF Loaded
    <3>2. file.store[i].topic = d.store[i].topic
      BY <3>1 DEF FileOf
    <3>3. file.store[i].payload = d.store[i].payload
      BY <3>1 DEF FileHas
    <3> QED
      BY <2>1, <3>2, <3>3
  <2>5. i # 0
    BY <1>2 DEF RetainedNodes
  <2> HIDE DEF i
  <2>6. Again(e, p, i)
    BY <2>1, <2>2, <2>3, <2>4 DEF Back
  <2> QED
    BY <1>2, <2>5, <2>6 DEF Again, RetainedNodes, i
<1>3. ASSUME p \in RetainedNodes(e) PROVE p \in RetainedNodes(d) /\ Outlasts(d, d.retains[p], time)
  <2> DEFINE j == e.retains[p]
  <2>1. j \in file.retained /\ j \in Loaded(file, time)
    BY <1>3 DEF Back, RetainedNodes
  <2>2. PICK q \in RetainedNodes(d) : j = d.retains[q] /\ ~IsSys(d.store[j])
    BY <2>1 DEF FileHas
  <2>3. NodeOf[e.store[j].topic] = p /\ NodeOf[d.store[j].topic] = q
    BY <1>3, <2>2, WholeRefs
  <2>4. e.store[j].topic = d.store[j].topic /\ Outlasts(d, j, time)
    BY <1>1, <2>1, <2>2 DEF SameStore
  <2> QED
    BY <2>2, <2>3, <2>4
<1> QED
  BY <1>2, <1>3

(* A restart from a file written now gives every durable client its        *)
(* messages back, in their order, and every topic its retained message,    *)
(* but for the messages of the broker itself and those that are too old.   *)
(* (persist__backup, persist__restore.)                                    *)
THEOREM StoreSurvivesRestart ==
    Spec => []SurvivesRestart
<1>1. ASSUME StoreInv PROVE SurvivesRestart
  <2> DEFINE file == Saved(db)
             r == Restored(file, now)
             lost == {id \in DOMAIN db.store : ~Lasting(id)}
             sys == {id \in DOMAIN r.store : IsSys(r.store[id])}
  <2>1. Sound(db, AllRefs(db)) /\ Waiting(db) /\ db \in Mem /\ now \in Nat
    BY <1>1 DEF StoreInv, Whole, Sound
  <2>2. FileOf(db, file) /\ FileHas(db, file)
    BY <2>1, SavedFile
  <2> HIDE DEF file
  <2>3. Sound(r, AllRefs(r)) /\ Back(file, now, r)
    BY <2>1, <2>2, RestoredSound DEF Returned
  <2> HIDE DEF r
  <2>4. SameStore(db, r, now) /\ DOMAIN r.store = Loaded(file, now)
    BY <2>2, <2>3, StoreBack DEF Back
  <2>5. \A id : Lasting(id) <=> Outlasts(db, id, now)
    BY DEF Lasting, Outlasts
  <2>6. lost = {id \in DOMAIN db.store : ~Outlasts(db, id, now)}
    BY <2>5
  <2> HIDE DEF lost, sys
  <2>7. ASSUME NEW c \in Durable
        PROVE  /\ Without(r.msgs_out[c], sys) = Without(db.msgs_out[c], lost)
               /\ \A k \in DOMAIN Without(db.msgs_out[c], lost) :
                     LET id == Without(db.msgs_out[c], lost)[k].id
                     IN  id \in DOMAIN r.store /\ id \in DOMAIN db.store /\ Outlasts(db, id, now)
    <3>1. sys = {id \in DOMAIN r.store : IsSys(r.store[id])}
      BY DEF sys
    <3> QED
      BY <2>1, <2>2, <2>3, <2>6, <3>1, ListBack, SMTT(30)
  <2>8. ASSUME NEW c \in Durable PROVE r.msgs_in[c] = {id \in db.msgs_in[c] : Lasting(id)}
    <3>1. c \in Clients
      BY ClientAssumption
    <3>2. r.msgs_in[c] = {id \in db.msgs_in[c] : ~OnlyRetained(db.store[id])} \cap Loaded(file, now)
      BY <2>2, <2>3 DEF FileHas, Back
    <3>3. ASSUME NEW id \in db.msgs_in[c] PROVE id \in r.msgs_in[c] <=> Lasting(id)
      <4>1. id \in DOMAIN db.store /\ db.store[id].ref_count > 0 /\ ~IsSys(db.store[id])
        BY <2>1, <3>1, WholeRefs, ReferredCounted DEF Waiting
      <4>2. ~OnlyRetained(db.store[id])
        BY <4>1 DEF OnlyRetained
      <4>3. id \in r.msgs_in[c] <=> id \in DOMAIN r.store
        BY <2>4, <3>2, <4>2
      <4>4. id \in DOMAIN r.store <=> Outlasts(db, id, now)
        BY <2>4, <4>1 DEF SameStore
      <4> QED
        BY <2>5, <4>3, <4>4
    <3> QED
      BY <3>2, <3>3
  <2>9. ASSUME NEW c \in Durable, NEW m \in Range(Without(db.msgs_out[c], lost))
        PROVE  /\ r.store[m.id].topic = db.store[m.id].topic
               /\ r.store[m.id].payload = db.store[m.id].payload
               /\ r.store[m.id].retain = db.store[m.id].retain
    <3>1. PICK k \in DOMAIN Without(db.msgs_out[c], lost) : m = Without(db.msgs_out[c], lost)[k]
      BY DEF Range
    <3>2. m.id \in DOMAIN r.store /\ Outlasts(db, m.id, now)
      BY <2>7, <3>1
    <3> QED
      BY <2>4, <3>2 DEF SameStore, Outlasts
  <2>10. ASSUME NEW t \in TopicNames
         PROVE  (IF NodeOf[t] \in RetainedNodes(r) THEN r.retains[NodeOf[t]] ELSE 0) =
                  (IF NodeOf[t] \in RetainedNodes(db) /\ Lasting(db.retains[NodeOf[t]]) THEN db.retains[NodeOf[t]] ELSE 0)
    <3> DEFINE p == NodeOf[t]
    <3>1. IF p \in RetainedNodes(db) /\ Outlasts(db, db.retains[p], now)
          THEN p \in RetainedNodes(r) /\ r.retains[p] = db.retains[p]
          ELSE p \notin RetainedNodes(r)
      BY <2>1, <2>2, <2>3, NodesBack
    <3> QED
      BY <2>5, <3>1
  <2> QED
    BY <2>7, <2>8, <2>9, <2>10 DEF SurvivesRestart, r, file, lost, sys
<1> QED
  BY <1>1, StoreInvariant, PTL

----------------------------------------------------------------------------
(* Finding retained messages.                                              *)

\* What retain__search does at every node, when f tells what it finds below others.
FindStep(tree, s, f) ==
    [p \in DOMAIN tree |->
        LET i == IF Len(p) < Len(s) THEN Len(p) ELSE Len(s) IN
        IF s[i] = "#"
        THEN UNION {{b} \cup f[b] : b \in Children(tree, p)}
        ELSE LET branches == IF s[i] = "+" THEN Children(tree, p)
                             ELSE {Append(p, s[i])} \cap DOMAIN tree
             IN  UNION {IF i = Len(s) THEN {b}
                        ELSE f[b] \cup
                             (IF s[i + 1] = "#" /\ (i > 1 \/ Children(tree, b) # {})
                              THEN {b} ELSE {}) : b \in branches}]

\* The level of the filter at p, the branches it follows there, whether the node b of
\* one is found, and whether the search goes on below it.
Turn(s, p) == IF Len(p) < Len(s) THEN Len(p) ELSE Len(s)
Ways(tree, s, p) == IF s[Turn(s, p)] \in {"#", "+"} THEN Children(tree, p)
                    ELSE {Append(p, s[Turn(s, p)])} \cap DOMAIN tree
Takes(tree, s, p, b) ==
    \/ s[Turn(s, p)] = "#" \/ Turn(s, p) = Len(s)
    \/ s[Turn(s, p) + 1] = "#" /\ (Turn(s, p) > 1 \/ Children(tree, b) # {})
Deeper(s, p) == s[Turn(s, p)] = "#" \/ Turn(s, p) # Len(s)

\* A filter as retain__search gets it.
IsFilter(s) == IsName(s) /\ \A j \in 1..(Len(s) - 1) : s[j] # "#"

\* q is what the search is for, as far as the levels after p go.
Found(tree, s, p, q) ==
    /\ Below(p, q)
    /\ IF s[Len(s)] = "#"
       THEN /\ Len(q) >= Len(s) /\ (Len(q) = Len(s) => Len(s) > 2 \/ Children(tree, q) # {})
            /\ \A j \in (Len(p) + 1)..Len(s) : s[j - 1] \in {"+", q[j]}
       ELSE IF Len(p) < Len(s)
       THEN /\ Len(q) = Len(s) + 1
            /\ \A j \in (Len(p) + 1)..Len(q) : s[j - 1] \in {"+", q[j]}
       ELSE Len(q) = Len(p) + 1 /\ s[Len(s)] \in {"+", q[Len(q)]}

LEMMA TurnIs ==
    ASSUME NEW s, IsFilter(s), NEW p \in Seq(Level), p # <<>>
    PROVE  /\ Turn(s, p) \in 1..Len(s) /\ s[Turn(s, p)] \in Level /\ Len(s) \in Nat /\ Len(p) \in Nat /\ Len(p) >= 1
           /\ Len(p) < Len(s) => Turn(s, p) = Len(p)
           /\ ~(Len(p) < Len(s)) => Turn(s, p) = Len(s)
<1>1. s \in Seq(Level) /\ Len(s) \in Nat /\ Len(s) >= 1 /\ Len(p) \in Nat \ {0}
  BY EmptySeq, LenProperties DEF IsFilter, IsName
<1>2. Turn(s, p) \in 1..Len(s)
  BY <1>1 DEF Turn
<1> QED
  BY <1>1, <1>2, ElementOfSeq DEF Turn

LEMMA WaysAre ==
    ASSUME NEW tree, Nodes(DOMAIN tree), NEW s, IsFilter(s), NEW p \in DOMAIN tree, p # <<>>
    PROVE  \A b : b \in Ways(tree, s, p) <=>
               /\ b \in DOMAIN tree /\ Len(b) = Len(p) + 1 /\ Below(p, b)
               /\ s[Turn(s, p)] \in {"#", "+", b[Len(p) + 1]}
<1>0. DOMAIN tree \subseteq Seq(Level)
  BY DEF Nodes
<1> DEFINE x == s[Turn(s, p)]
<1>1. x \in Level
  BY <1>0, TurnIs
<1> HIDE DEF x
<1> SUFFICES ASSUME NEW b
             PROVE  b \in Ways(tree, s, p) <=>
                        /\ b \in DOMAIN tree /\ Len(b) = Len(p) + 1 /\ Below(p, b) /\ x \in {"#", "+", b[Len(p) + 1]}
  BY DEF x
<1>2. CASE x \in {"#", "+"}
  <2>1. b \in Ways(tree, s, p) <=> b \in DOMAIN tree /\ Len(b) = Len(p) + 1 /\ IsPrefix(p, b)
    BY <1>2 DEF Ways, Children, x
  <2>2. b \in DOMAIN tree => (Len(b) = Len(p) + 1 /\ IsPrefix(p, b) <=> Len(b) = Len(p) + 1 /\ Below(p, b))
    BY <1>0, ChildIs
  <2> QED
    BY <1>2, <2>1, <2>2
<1>3. CASE x \notin {"#", "+"}
  <2>1. b \in Ways(tree, s, p) <=> b \in DOMAIN tree /\ b = Append(p, x)
    BY <1>3 DEF Ways, x
  <2>2. b \in DOMAIN tree => (b = Append(p, x) <=> Len(b) = Len(p) + 1 /\ Below(p, b) /\ b[Len(p) + 1] = x)
    BY <1>0, <1>1, AppendIs
  <2> QED
    BY <1>3, <2>1, <2>2
<1> QED
  BY <1>2, <1>3

\* One step further down, for a filter that ends in "#".
LEMMA FoundOpen ==
    ASSUME NEW tree, Nodes(DOMAIN tree), NEW s, IsFilter(s), s[Len(s)] = "#",
           NEW p \in DOMAIN tree, p # <<>>, NEW q \in DOMAIN tree
    PROVE  Found(tree, s, p, q) <=>
               \E b \in Ways(tree, s, p) : \/ Takes(tree, s, p, b) /\ q = b
                                           \/ Deeper(s, p) /\ Found(tree, s, b, q)
<1> DEFINE D == DOMAIN tree
           L == Len(p)
           m == Len(s)
           Fit(n) == \A j \in n..m : s[j - 1] \in {"+", q[j]}
<1>0. /\ D \subseteq Seq(Level) /\ L \in Nat /\ L >= 1 /\ m \in Nat /\ Len(q) \in Nat
      /\ \A b \in D : Len(b) \in Nat
      /\ L < m => Turn(s, p) = L
      /\ ~(L < m) => Turn(s, p) = m
  BY TurnIs, LenProperties DEF Nodes
<1>1. \A b : b \in Ways(tree, s, p) <=>
          b \in D /\ Len(b) = L + 1 /\ Below(p, b) /\ s[Turn(s, p)] \in {"#", "+", b[L + 1]}
  BY WaysAre
<1>2. \A x \in D : Found(tree, s, x, q) <=>
          /\ Below(x, q) /\ Len(q) >= m /\ (Len(q) = m => m > 2 \/ Children(tree, q) # {}) /\ Fit(Len(x) + 1)
  BY DEF Found
<1>3. ASSUME NEW b \in D, Len(b) = L + 1, Below(p, b), Below(b, q)
      PROVE  Below(p, q) /\ q[L + 1] = b[L + 1] /\ Len(q) > L + 1
  <2>1. Below(p, q) /\ Len(b) < Len(q) /\ \A j \in 1..Len(b) : q[j] = b[j]
    BY <1>0, <1>3, BelowBelow
  <2> QED
    BY <1>0, <1>3, <2>1
<1>4. ASSUME Below(p, q), Len(q) # L + 1
      PROVE  \E b \in D : Len(b) = L + 1 /\ Below(p, b) /\ Below(b, q) /\ b[L + 1] = q[L + 1]
  BY <1>4, StepDown
<1>5. CASE ~(L < m)
  <2>1. Turn(s, p) = m /\ Deeper(s, p) /\ \A b : Takes(tree, s, p, b)
    BY <1>0, <1>5 DEF Deeper, Takes
  <2>2. \A x \in D : Len(x) >= m /\ Below(x, q) => Found(tree, s, x, q)
    <3> SUFFICES ASSUME NEW x \in D, Len(x) >= m, Below(x, q) PROVE Found(tree, s, x, q)
      OBVIOUS
    <3>1. Len(x) \in Nat /\ Len(q) > Len(x)
      BY <1>0 DEF Below
    <3>2. Len(q) >= m /\ Len(q) # m /\ Fit(Len(x) + 1)
      BY <1>0, <3>1
    <3> HIDE DEF Fit
    <3> QED
      BY <1>2, <3>2
  <2>3. ASSUME Found(tree, s, p, q)
        PROVE  \E b \in Ways(tree, s, p) : q = b \/ Found(tree, s, b, q)
    <3>1. Below(p, q)
      BY <2>3 DEF Found
    <3>2. CASE Len(q) = L + 1
      BY <1>1, <2>1, <3>1, <3>2
    <3>3. CASE Len(q) # L + 1
      <4>1. PICK b \in D : Len(b) = L + 1 /\ Below(p, b) /\ Below(b, q) /\ b[L + 1] = q[L + 1]
        BY <1>4, <3>1, <3>3
      <4>2. b \in Ways(tree, s, p)
        BY <1>1, <2>1, <4>1
      <4>3. Len(b) >= m
        BY <1>0, <1>5, <4>1
      <4> QED
        BY <2>2, <4>1, <4>2, <4>3
    <3> QED
      BY <3>2, <3>3
  <2>4. ASSUME NEW b \in Ways(tree, s, p), q = b \/ Found(tree, s, b, q)
        PROVE  Found(tree, s, p, q)
    <3>1. b \in D /\ Len(b) = L + 1 /\ Below(p, b)
      BY <1>1
    <3>2. Below(p, q)
      <4>1. CASE q = b
        BY <3>1, <4>1
      <4>2. CASE Found(tree, s, b, q)
        <5>1. Below(b, q)
          BY <4>2 DEF Found
        <5> QED
          BY <1>3, <3>1, <5>1
      <4> QED
        BY <2>4, <4>1, <4>2
    <3> QED
      BY <1>0, <1>5, <2>2, <3>2
  <2> QED
    BY <2>1, <2>3, <2>4
<1>6. CASE L < m
  <2>1. Turn(s, p) = L /\ s[L] # "#" /\ Deeper(s, p)
    <3>1. L \in 1..(m - 1)
      BY <1>0, <1>6
    <3> QED
      BY <1>0, <1>6, <3>1 DEF IsFilter, Deeper
  <2>2. \A b : Takes(tree, s, p, b) <=> L + 1 = m /\ (L > 1 \/ Children(tree, b) # {})
    <3>1. s[L + 1] = "#" <=> L + 1 = m
      <4>1. L + 1 # m => L + 1 \in 1..(m - 1)
        BY <1>0, <1>6
      <4> QED
        BY <4>1 DEF IsFilter
    <3>2. L # m
      BY <1>0, <1>6
    <3> QED
      BY <2>1, <3>1, <3>2 DEF Takes
  <2>3. Fit(L + 1) <=> s[L] \in {"+", q[L + 1]} /\ Fit(L + 2)
    <3>1. \A j : j \in (L + 1)..m <=> j = L + 1 \/ j \in (L + 2)..m
      BY <1>0, <1>6
    <3>2. (L + 1) - 1 = L
      BY <1>0
    <3> QED
      BY <3>1, <3>2
  <2> HIDE DEF Fit
  <2>4. ASSUME Found(tree, s, p, q)
        PROVE  \E b \in Ways(tree, s, p) : (Takes(tree, s, p, b) /\ q = b) \/ Found(tree, s, b, q)
    <3>1. /\ Below(p, q) /\ Len(q) >= m /\ (Len(q) = m => m > 2 \/ Children(tree, q) # {})
          /\ s[L] \in {"+", q[L + 1]} /\ Fit(L + 2)
      BY <1>2, <2>3, <2>4
    <3>2. CASE Len(q) = L + 1
      <4>1. L + 1 = m /\ (L > 1 \/ Children(tree, q) # {})
        BY <1>0, <1>6, <3>1, <3>2
      <4>2. Takes(tree, s, p, q)
        BY <2>2, <4>1
      <4>3. q \in Ways(tree, s, p)
        BY <1>1, <2>1, <3>1, <3>2
      <4> QED
        BY <4>2, <4>3
    <3>3. CASE Len(q) # L + 1
      <4>1. PICK b \in D : Len(b) = L + 1 /\ Below(p, b) /\ Below(b, q) /\ b[L + 1] = q[L + 1]
        BY <1>4, <3>1, <3>3
      <4>2. b \in Ways(tree, s, p)
        BY <1>1, <2>1, <3>1, <4>1
      <4>3. Len(b) + 1 = L + 2
        BY <1>0, <4>1
      <4>4. Found(tree, s, b, q)
        BY <1>2, <3>1, <4>1, <4>3
      <4> QED
        BY <4>2, <4>4
    <3> QED
      BY <3>2, <3>3
  <2>5. ASSUME NEW b \in Ways(tree, s, p), Takes(tree, s, p, b), q = b
        PROVE  Found(tree, s, p, q)
    <3>1. Len(q) = L + 1 /\ Below(p, q) /\ s[L] \in {"+", q[L + 1]} /\ L + 1 = m /\ (L > 1 \/ Children(tree, q) # {})
      BY <1>1, <2>1, <2>2, <2>5
    <3>2. Fit(L + 2)
      BY <1>0, <3>1 DEF Fit
    <3>3. Len(q) >= m /\ (m > 2 \/ Children(tree, q) # {})
      BY <1>0, <3>1
    <3> QED
      BY <1>2, <2>3, <3>1, <3>2, <3>3
  <2>6. ASSUME NEW b \in Ways(tree, s, p), Found(tree, s, b, q)
        PROVE  Found(tree, s, p, q)
    <3>1. b \in D /\ Len(b) = L + 1 /\ Below(p, b) /\ s[L] \in {"+", b[L + 1]}
      BY <1>1, <2>1
    <3>2. /\ Below(b, q) /\ Len(q) >= m /\ (Len(q) = m => m > 2 \/ Children(tree, q) # {})
          /\ Fit(Len(b) + 1)
      BY <1>2, <2>6, <3>1
    <3>3. Len(b) + 1 = L + 2
      BY <1>0, <3>1
    <3>4. Below(p, q) /\ q[L + 1] = b[L + 1]
      BY <1>3, <3>1, <3>2
    <3> QED
      BY <1>2, <2>3, <3>1, <3>2, <3>3, <3>4
  <2> QED
    BY <2>1, <2>4, <2>5, <2>6
<1> QED
  BY <1>5, <1>6

\* The same for a filter without "#".
LEMMA FoundClosed ==
    ASSUME NEW tree, Nodes(DOMAIN tree), NEW s, IsFilter(s), s[Len(s)] # "#",
           NEW p \in DOMAIN tree, p # <<>>, NEW q \in DOMAIN tree
    PROVE  Found(tree, s, p, q) <=>
               \E b \in Ways(tree, s, p) : \/ Takes(tree, s, p, b) /\ q = b
                                           \/ Deeper(s, p) /\ Found(tree, s, b, q)
<1> DEFINE D == DOMAIN tree
           L == Len(p)
           m == Len(s)
           Fit(n) == \A j \in n..(m + 1) : s[j - 1] \in {"+", q[j]}
<1>0. /\ D \subseteq Seq(Level) /\ L \in Nat /\ L >= 1 /\ m \in Nat /\ Len(q) \in Nat
      /\ \A b \in D : Len(b) \in Nat
      /\ L < m => Turn(s, p) = L
      /\ ~(L < m) => Turn(s, p) = m
  BY TurnIs, LenProperties DEF Nodes
<1>1. \A b : b \in Ways(tree, s, p) <=>
          b \in D /\ Len(b) = L + 1 /\ Below(p, b) /\ s[Turn(s, p)] \in {"#", "+", b[L + 1]}
  BY WaysAre
<1>1a. \A j \in 1..m : s[j] # "#"
  <2>1. \A j \in 1..m : j = m \/ j \in 1..(m - 1)
    BY <1>0
  <2> QED
    BY <2>1 DEF IsFilter
<1>2. \A x \in D : Len(x) < m => (Found(tree, s, x, q) <=> Below(x, q) /\ Len(q) = m + 1 /\ Fit(Len(x) + 1))
  BY DEF Found
<1>3. \A x \in D : ~(Len(x) < m) => (Found(tree, s, x, q) <=>
          Below(x, q) /\ Len(q) = Len(x) + 1 /\ s[m] \in {"+", q[Len(q)]})
  BY DEF Found
<1>4. CASE ~(L < m)
  <2>1. Turn(s, p) = m /\ ~Deeper(s, p) /\ \A b : Takes(tree, s, p, b)
    BY <1>0, <1>4 DEF Deeper, Takes
  <2>2. q \in Ways(tree, s, p) <=> Len(q) = L + 1 /\ Below(p, q) /\ s[m] \in {"+", q[L + 1]}
    BY <1>1, <2>1
  <2>3. Found(tree, s, p, q) <=> q \in Ways(tree, s, p)
    BY <1>3, <1>4, <2>2
  <2> QED
    BY <2>1, <2>3
<1>5. CASE L < m
  <2>1. Turn(s, p) = L /\ s[L] # "#" /\ Deeper(s, p) /\ \A b : ~Takes(tree, s, p, b)
    <3>1. L \in 1..m /\ L + 1 \in 1..m /\ L # m
      BY <1>0, <1>5
    <3>2. s[L] # "#" /\ s[L + 1] # "#"
      BY <1>1a, <3>1
    <3> QED
      BY <1>0, <1>5, <3>1, <3>2 DEF Deeper, Takes
  <2>2. Fit(L + 1) <=> s[L] \in {"+", q[L + 1]} /\ Fit(L + 2)
    <3>1. \A j : j \in (L + 1)..(m + 1) <=> j = L + 1 \/ j \in (L + 2)..(m + 1)
      BY <1>0, <1>5
    <3>2. (L + 1) - 1 = L
      BY <1>0
    <3> QED
      BY <3>1, <3>2
  <2>3. ASSUME NEW b \in D, Len(b) = L + 1
        PROVE  Found(tree, s, b, q) <=> Below(b, q) /\ Len(q) = m + 1 /\ Fit(L + 2)
    <3>1. Len(b) + 1 = L + 2
      BY <1>0, <2>3
    <3>2. CASE L + 1 < m
      <4> HIDE DEF Fit
      <4> QED
        BY <1>2, <2>3, <3>1, <3>2
    <3>3. CASE ~(L + 1 < m)
      <4>1. L + 1 = m /\ ~(Len(b) < m) /\ Len(b) + 1 = m + 1
        BY <1>0, <1>5, <2>3, <3>3
      <4>2. Fit(L + 2) <=> s[m] \in {"+", q[m + 1]}
        <5>1. \A j : j \in (L + 2)..(m + 1) <=> j = m + 1
          BY <1>0, <4>1
        <5>2. (m + 1) - 1 = m
          BY <1>0
        <5> QED
          BY <5>1, <5>2
      <4> HIDE DEF Fit
      <4>3. Found(tree, s, b, q) <=> Below(b, q) /\ Len(q) = m + 1 /\ s[m] \in {"+", q[Len(q)]}
        BY <1>3, <4>1
      <4> QED
        BY <4>2, <4>3
    <3> QED
      BY <3>2, <3>3
  <2> HIDE DEF Fit
  <2>4. ASSUME Found(tree, s, p, q) PROVE \E b \in Ways(tree, s, p) : Found(tree, s, b, q)
    <3>1. Below(p, q) /\ Len(q) = m + 1 /\ s[L] \in {"+", q[L + 1]} /\ Fit(L + 2)
      BY <1>2, <1>5, <2>2, <2>4
    <3>2. Len(q) # L + 1
      BY <1>0, <1>5, <3>1
    <3>3. PICK b \in D : Len(b) = L + 1 /\ Below(p, b) /\ Below(b, q) /\ b[L + 1] = q[L + 1]
      BY <3>1, <3>2, StepDown
    <3>4. b \in Ways(tree, s, p)
      BY <1>1, <2>1, <3>1, <3>3
    <3> QED
      BY <2>3, <3>1, <3>3, <3>4
  <2>5. ASSUME NEW b \in Ways(tree, s, p), Found(tree, s, b, q) PROVE Found(tree, s, p, q)
    <3>1. b \in D /\ Len(b) = L + 1 /\ Below(p, b) /\ s[L] \in {"+", b[L + 1]}
      BY <1>1, <2>1
    <3>2. Below(b, q) /\ Len(q) = m + 1 /\ Fit(L + 2)
      BY <2>3, <2>5, <3>1
    <3>3. Below(p, q) /\ \A j \in 1..Len(b) : q[j] = b[j]
      BY <1>0, <3>1, <3>2, BelowBelow
    <3>4. q[L + 1] = b[L + 1]
      BY <1>0, <3>1, <3>3
    <3> QED
      BY <1>2, <1>5, <2>2, <3>1, <3>2, <3>3, <3>4
  <2> QED
    BY <2>1, <2>4, <2>5
<1> QED
  BY <1>4, <1>5

\* The search finds these nodes, whatever the tree.
LEMMA FindIs ==
    ASSUME NEW tree, DOMAIN tree \in Rooted, NEW s, IsFilter(s)
    PROVE  /\ \E f : f = FindStep(tree, s, f)
           /\ \A f : f = FindStep(tree, s, f) =>
                 \A p \in DOMAIN tree : f[p] = {q \in DOMAIN tree : Found(tree, s, p, q)}
<1> DEFINE D == DOMAIN tree
           B(p) == Ways(tree, s, p)
           hits(p) == {q \in D : Found(tree, s, p, q)}
           One(f, p) == FindStep(tree, s, f)[p]
<1>0. Nodes(D) /\ <<>> \notin D /\ D \subseteq Seq(Level)
  BY DEF Rooted
<1>1. ASSUME NEW f PROVE FindStep(tree, s, f) = [p \in D |-> One(f, p)]
  BY DEF FindStep
<1>2. ASSUME NEW f, NEW p \in D, NEW q
      PROVE  q \in One(f, p) <=> \E b \in B(p) : \/ Takes(tree, s, p, b) /\ q = b
                                                 \/ Deeper(s, p) /\ q \in f[b]
  <2> DEFINE i == Turn(s, p)
             Own(b) == s[i + 1] = "#" /\ (i > 1 \/ Children(tree, b) # {})
             ways == IF s[i] = "+" THEN Children(tree, p) ELSE {Append(p, s[i])} \cap D
  <2>1. One(f, p) = IF s[i] = "#" THEN UNION {{b} \cup f[b] : b \in Children(tree, p)}
                    ELSE UNION {IF i = Len(s) THEN {b} ELSE f[b] \cup (IF Own(b) THEN {b} ELSE {}) : b \in ways}
    BY DEF FindStep, Turn
  <2>2. \A b : Takes(tree, s, p, b) <=> s[i] = "#" \/ i = Len(s) \/ Own(b)
    BY DEF Takes
  <2>3. Deeper(s, p) <=> s[i] = "#" \/ i # Len(s)
    BY DEF Deeper
  <2>4. B(p) = IF s[i] = "#" THEN Children(tree, p) ELSE ways
    BY DEF Ways
  <2> HIDE DEF One, Own, ways, i, B
  <2>5. CASE s[i] = "#"
    <3>1. q \in One(f, p) <=> \E b \in B(p) : q = b \/ q \in f[b]
      BY <2>1, <2>4, <2>5
    <3> QED
      BY <2>2, <2>3, <2>5, <3>1
  <2>6. CASE s[i] # "#" /\ i = Len(s)
    <3>1. q \in One(f, p) <=> \E b \in B(p) : q = b
      BY <2>1, <2>4, <2>6
    <3> QED
      BY <2>2, <2>3, <2>6, <3>1
  <2>7. CASE s[i] # "#" /\ i # Len(s)
    <3>1. q \in One(f, p) <=> \E b \in B(p) : q \in f[b] \/ (Own(b) /\ q = b)
      BY <2>1, <2>4, <2>7
    <3> QED
      BY <2>2, <2>3, <2>7, <3>1
  <2> QED
    BY <2>5, <2>6, <2>7
<1>3. \A p \in D : \A b \in B(p) : b \in D /\ Len(b) = Len(p) + 1
  BY <1>0, WaysAre
<1>4. ASSUME NEW f, NEW p \in D, \A b \in B(p) : f[b] = hits(b) PROVE One(f, p) = hits(p)
  <2>1. ASSUME NEW q \in D
        PROVE  Found(tree, s, p, q) <=> \E b \in B(p) : \/ Takes(tree, s, p, b) /\ q = b
                                                        \/ Deeper(s, p) /\ Found(tree, s, b, q)
    BY <1>0, FoundOpen, FoundClosed
  <2> HIDE DEF B, One
  <2>2. ASSUME NEW q PROVE q \in One(f, p) <=> q \in hits(p)
    <3>1. \A b \in B(p) : q \in f[b] <=> q \in D /\ Found(tree, s, b, q)
      BY <1>4
    <3> QED
      BY <1>2, <1>3, <2>1, <3>1
  <2> HIDE DEF hits
  <2>3. \A q : q \in One(f, p) <=> q \in hits(p)
    BY <2>2
  <2>4. \E X : One(f, p) = UNION X
    BY DEF One, FindStep
  <2> QED
    BY <2>3, <2>4
<1> HIDE DEF B, One
<1>5. \E f : f = FindStep(tree, s, f)
  <2> DEFINE h == [p \in D |-> hits(p)]
  <2>1. \A p \in D : h[p] = hits(p)
    OBVIOUS
  <2>2. h = [p \in D |-> h[p]]
    OBVIOUS
  <2> HIDE DEF h, hits
  <2>3. \A p \in D : One(h, p) = h[p]
    BY <1>3, <1>4, <2>1
  <2>4. FindStep(tree, s, h) = h
    BY <1>1, <2>2, <2>3
  <2> QED
    BY <2>4
<1>6. ASSUME NEW f, f = FindStep(tree, s, f) PROVE \A p \in D : f[p] = hits(p)
  <2> DEFINE Good == {p \in D : f[p] = hits(p)}
  <2>1. \A p \in D : f[p] = One(f, p)
    BY <1>1, <1>6
  <2>2. ASSUME NEW p \in D, \A q \in D : Len(q) = Len(p) + 1 => q \in Good PROVE p \in Good
    <3>1. \A b \in B(p) : f[b] = hits(b)
      BY <1>3, <2>2
    <3> QED
      BY <1>4, <2>1, <3>1
  <2>3. D \subseteq Good
    <3>1. \A p \in D : (\A q \in D : Len(q) = Len(p) + 1 => q \in Good) => p \in Good
      BY <2>2
    <3> HIDE DEF Good
    <3> QED
      BY <1>0, <3>1, TreeInduction
  <2> QED
    BY <2>3
<1> QED
  BY <1>5, <1>6

LEMMA RetainSearchNodesIs ==
    ASSUME NEW tree, DOMAIN tree \in Rooted, NEW filter, NEW s, s = Tokenise(filter).topics, IsFilter(s)
    PROVE  RetainSearchNodes(tree, filter) = IF <<s[1]>> \in DOMAIN tree
                                             THEN {q \in DOMAIN tree : Found(tree, s, <<s[1]>>, q)} ELSE {}
<1> DEFINE run == CHOOSE f : f = FindStep(tree, s, f)
<1>1. run = FindStep(tree, s, run)
  <2>1. \E f : f = FindStep(tree, s, f)
    BY FindIs
  <2> QED
    BY <2>1, Zenon
<1>2. RetainSearchNodes(tree, filter) = IF <<s[1]>> \in DOMAIN tree THEN run[<<s[1]>>] ELSE {}
  BY DEF RetainSearchNodes, FindStep
<1> HIDE DEF run
<1>3. \A p \in DOMAIN tree : run[p] = {q \in DOMAIN tree : Found(tree, s, p, q)}
  BY <1>1, FindIs
<1> QED
  BY <1>2, <1>3

\* A level of a topic is no "#", and one of a filter only if it is the last.
LEMMA NoHash ==
    ASSUME NEW f, IsName(f), f[1] # "$share", NEW n \in Nat, n <= Len(f), \A i \in 1..n : f[i] # "#",
           NEW F, F = Tokenise(f).topics
    PROVE  \A i \in 1..(n + Shift(f)) : F[i] # "#"
<1> DEFINE k == Shift(f)
<1>1. k \in {0, 1} /\ Len(f) \in Nat /\ Len(f) >= 1
  BY LenProperties DEF Shift, IsName
<1>2. /\ Len(F) = Len(f) + k
      /\ k = 1 => F[1] = Nil
      /\ \A i \in 1..Len(f) : F[i + k] = f[i]
  BY TokensAre
<1>3. Nil # "#"
  BY Zenon DEF Nil
<1> HIDE DEF k
<1> SUFFICES ASSUME NEW i \in 1..(n + k) PROVE F[i] # "#"
  BY DEF k
<1>4. CASE k = 1 /\ i = 1
  BY <1>2, <1>3, <1>4
<1>5. CASE ~(k = 1 /\ i = 1)
  <2>1. i - k \in 1..n /\ i - k \in 1..Len(f) /\ (i - k) + k = i
    BY <1>1, <1>5
  <2> QED
    BY <1>2, <2>1
<1> QED
  BY <1>4, <1>5

\* A filter and a topic agree, level by level.
Agree(F, T) ==
    /\ T[1] = F[1]
    /\ \/ Len(F) = Len(T) /\ \A i \in 1..Len(F) : F[i] \in {"+", T[i]}
       \/ F[Len(F)] = "#" /\ Len(F) - 1 <= Len(T) /\ \A i \in 1..(Len(F) - 1) : F[i] \in {"+", T[i]}

LEMMA OneLevel ==
    ASSUME NEW a \in Level, NEW q \in Seq(Level), Len(q) > 1
    PROVE  Len(<<a>>) = 1 /\ (Below(<<a>>, q) <=> q[1] = a)
<1> DEFINE z == <<a>>
<1>1. Len(z) = 1 /\ z[1] = a
  OBVIOUS
<1> HIDE DEF z
<1>2. \A j \in 1..Len(z) : j = 1
  BY <1>1
<1>3. 1 \in 1..Len(z)
  BY <1>1
<1>4. Below(z, q) <=> q[1] = a
  BY <1>1, <1>2, <1>3 DEF Below
<1> QED
  BY <1>1, <1>4 DEF z

LEMMA FoundAgrees ==
    ASSUME NEW tree, NEW F, IsFilter(F), NEW T, IsName(T), \A i \in 1..Len(T) : T[i] # "#"
    PROVE  Found(tree, F, <<F[1]>>, Path(T)) <=>
               Agree(F, T) /\ (Len(T) = 1 /\ Len(F) = 2 => Children(tree, Path(T)) # {})
<1> DEFINE q == Path(T)
           n == Len(F)
           N == Len(T)
           a == <<F[1]>>
           M(i) == F[i] \in {"+", T[i]}
           C == N = 1 /\ n = 2 => Children(tree, q) # {}
<1>0. /\ F \in Seq(Level) /\ T \in Seq(Level) /\ n \in Nat /\ N \in Nat /\ n >= 1 /\ N >= 1 /\ IsName(F)
  BY LenProperties DEF IsFilter, IsName
<1>1. q \in Seq(Level) /\ Len(q) = N + 1 /\ q[1] = T[1] /\ \A i \in 1..N : q[i + 1] = T[i]
  BY PathIs
<1>2. F[1] \in Level
  <2>1. 1 \in 1..n
    BY <1>0
  <2> QED
    BY <1>0, <2>1, ElementOfSeq
<1>3. Len(a) = 1 /\ (Below(a, q) <=> T[1] = F[1])
  <2>1. Len(q) > 1
    BY <1>0, <1>1
  <2> HIDE DEF q
  <2> QED
    BY <1>1, <1>2, <2>1, OneLevel
<1> HIDE DEF q, a
<1>4. ASSUME NEW e \in Nat, e <= N
      PROVE  (\A j \in 2..(e + 1) : F[j - 1] \in {"+", q[j]}) <=> \A i \in 1..e : M(i)
  <2>1. ASSUME \A j \in 2..(e + 1) : F[j - 1] \in {"+", q[j]}, NEW i \in 1..e PROVE M(i)
    <3>1. i + 1 \in 2..(e + 1) /\ (i + 1) - 1 = i /\ i \in 1..N
      BY <1>0, <1>4
    <3> QED
      BY <1>1, <2>1, <3>1
  <2>2. ASSUME \A i \in 1..e : M(i), NEW j \in 2..(e + 1) PROVE F[j - 1] \in {"+", q[j]}
    <3>1. j - 1 \in 1..e /\ (j - 1) + 1 = j /\ j - 1 \in 1..N
      BY <1>0, <1>4
    <3> QED
      BY <1>1, <2>2, <3>1
  <2> QED
    BY <2>1, <2>2
<1>5. CASE F[n] = "#"
  <2>1. Found(tree, F, a, q) <=>
            /\ T[1] = F[1] /\ N + 1 >= n /\ (N + 1 = n => n > 2 \/ Children(tree, q) # {})
            /\ \A j \in 2..n : F[j - 1] \in {"+", q[j]}
    BY <1>1, <1>3, <1>5 DEF Found
  <2>2. N + 1 >= n <=> n - 1 <= N
    BY <1>0
  <2>3. (N + 1 = n => n > 2 \/ Children(tree, q) # {}) <=> C
    <3>0. n \in Nat /\ N \in Nat /\ N >= 1
      BY <1>0
    <3> HIDE DEF n, N
    <3>1. N + 1 = n /\ ~(n > 2) => N = 1 /\ n = 2
      BY <3>0
    <3>2. N = 1 /\ n = 2 => N + 1 = n /\ ~(n > 2)
      OBVIOUS
    <3> QED
      BY <3>1, <3>2 DEF C
  <2>4. n - 1 <= N => ((\A j \in 2..n : F[j - 1] \in {"+", q[j]}) <=> \A i \in 1..(n - 1) : M(i))
    <3> SUFFICES ASSUME n - 1 <= N
                 PROVE  (\A j \in 2..n : F[j - 1] \in {"+", q[j]}) <=> \A i \in 1..(n - 1) : M(i)
      OBVIOUS
    <3>1. n - 1 \in Nat /\ (n - 1) + 1 = n
      BY <1>0
    <3> HIDE DEF M, n
    <3> QED
      BY <1>4, <3>1
  <2>5. n = N => ~M(n)
    <3>1. n = N => n \in 1..N
      BY <1>0
    <3> QED
      BY <1>5, <3>1
  <2>6. ~(n = N /\ \A i \in 1..n : M(i))
    <3>1. n \in 1..n
      BY <1>0
    <3> HIDE DEF M
    <3> QED
      BY <2>5, <3>1
  <2>7. Agree(F, T) <=> T[1] = F[1] /\ n - 1 <= N /\ \A i \in 1..(n - 1) : M(i)
    BY <1>5, <2>6 DEF Agree
  <2> QED
    BY <2>1, <2>2, <2>3, <2>4, <2>7 DEF q, a
<1>6. CASE F[n] # "#"
  <2>1. Agree(F, T) <=> T[1] = F[1] /\ n = N /\ \A i \in 1..n : M(i)
    BY <1>6 DEF Agree
  <2>4. n = N => C
    BY <1>0
  <2>2. CASE 1 < n
    <3>1. Found(tree, F, a, q) <=> T[1] = F[1] /\ N + 1 = n + 1 /\ \A j \in 2..(N + 1) : F[j - 1] \in {"+", q[j]}
      BY <1>1, <1>3, <1>6, <2>2 DEF Found
    <3>2. N + 1 = n + 1 <=> n = N
      BY <1>0
    <3>3. (\A j \in 2..(N + 1) : F[j - 1] \in {"+", q[j]}) <=> \A i \in 1..N : M(i)
      <4>1. N <= N
        BY <1>0
      <4> HIDE DEF M, N
      <4> QED
        BY <1>0, <1>4, <4>1
    <3> HIDE DEF M, C
    <3> QED
      BY <2>1, <2>4, <3>1, <3>2, <3>3 DEF q, a, C
  <2>3. CASE ~(1 < n)
    <3>1. n = 1 /\ (N + 1 = 2 <=> n = N)
      <4>0. n \in Nat /\ N \in Nat /\ n >= 1 /\ ~(1 < n)
        BY <1>0, <2>3
      <4> HIDE DEF n, N
      <4>1. n = 1
        BY <4>0
      <4>2. N + 1 = 2 <=> N = 1
        BY <4>0
      <4> QED
        BY <4>1, <4>2
    <3>2. Found(tree, F, a, q) <=> T[1] = F[1] /\ N + 1 = 2 /\ F[n] \in {"+", q[N + 1]}
      BY <1>1, <1>3, <1>6, <2>3, <3>1 DEF Found
    <3>3. N + 1 = 2 => q[N + 1] = T[1]
      BY <1>0, <1>1
    <3>4. (\A i \in 1..n : M(i)) <=> M(1)
      BY <3>1
    <3>5. n = N => (F[n] \in {"+", q[N + 1]} <=> M(1))
      BY <3>1, <3>3
    <3>6. Found(tree, F, a, q) <=> Agree(F, T) /\ C
      <4> HIDE DEF M, C, n, N
      <4> QED
        BY <2>1, <2>4, <3>1, <3>2, <3>4, <3>5
    <3> QED
      BY <3>6 DEF q, a, C
  <2> QED
    BY <2>2, <2>3
<1> QED
  BY <1>5, <1>6

LEMMA HitAgrees ==
    ASSUME NEW tree, NEW F, IsName(F), NEW T, IsName(T), Children(tree, Path(F)) = {}
    PROVE  Hit(tree, T, <<T[1]>>, Path(F)) <=> Agree(F, T)
<1> DEFINE q == Path(F)
           n == Len(F)
           N == Len(T)
           a == <<T[1]>>
           M(i) == F[i] \in {"+", T[i]}
<1>0. F \in Seq(Level) /\ T \in Seq(Level) /\ n \in Nat /\ N \in Nat /\ n >= 1 /\ N >= 1
  BY LenProperties DEF IsName
<1>1. q \in Seq(Level) /\ Len(q) = n + 1 /\ q[1] = F[1] /\ \A i \in 1..n : q[i + 1] = F[i]
  BY PathIs
<1>2. T[1] \in Level
  <2>1. 1 \in 1..N
    BY <1>0
  <2> QED
    BY <1>0, <2>1, ElementOfSeq
<1>3. Len(a) = 1 /\ (Below(a, q) <=> T[1] = F[1])
  <2>1. Len(q) > 1
    BY <1>0, <1>1
  <2> HIDE DEF q
  <2> QED
    BY <1>1, <1>2, <2>1, OneLevel
<1>4. q[Len(q)] = F[n]
  <2>1. n \in 1..n
    BY <1>0
  <2> HIDE DEF q
  <2> QED
    BY <1>1, <2>1
<1> HIDE DEF q, a
<1>5. ASSUME NEW e \in Nat, e <= n
      PROVE  (\A j \in 2..(e + 1) : Fits(T, q, j)) <=> e <= N /\ \A i \in 1..e : M(i)
  <2>1. ASSUME NEW i \in 1..e PROVE i + 1 \in 2..(e + 1) /\ (Fits(T, q, i + 1) <=> i <= N /\ M(i))
    <3>1. i + 1 \in 2..(e + 1) /\ (i + 1) - 1 = i /\ (i + 1 <= N + 1 <=> i <= N) /\ i \in 1..n
      BY <1>0, <1>5
    <3>2. q[i + 1] = F[i]
      BY <1>1, <3>1
    <3> QED
      BY <3>1, <3>2 DEF Fits
  <2>2. \A j \in 2..(e + 1) : j - 1 \in 1..e /\ (j - 1) + 1 = j
    BY <1>0, <1>5
  <2>3. (\A j \in 2..(e + 1) : Fits(T, q, j)) <=> \A i \in 1..e : i <= N /\ M(i)
    <3> HIDE DEF M
    <3> QED
      BY <2>1, <2>2
  <2>4. (\A i \in 1..e : i <= N) <=> e <= N
    <3>1. e = 0 => e <= N
      BY <1>0
    <3>2. e # 0 => e \in 1..e
      BY <1>5
    <3>3. e <= N => \A i \in 1..e : i <= N
      BY <1>0, <1>5
    <3> QED
      BY <3>1, <3>2, <3>3
  <2> HIDE DEF M
  <2> QED
    BY <2>3, <2>4
<1>6. (\A j \in 2..(n + 1) : Fits(T, q, j)) <=> n <= N /\ \A i \in 1..n : M(i)
  <2>1. n <= n
    BY <1>0
  <2> HIDE DEF n, M
  <2> QED
    BY <1>0, <1>5, <2>1
<1>7. (\A j \in 2..n : Fits(T, q, j)) <=> n - 1 <= N /\ \A i \in 1..(n - 1) : M(i)
  <2>1. n - 1 \in Nat /\ n - 1 <= n /\ (n - 1) + 1 = n
    BY <1>0
  <2> HIDE DEF n, M
  <2> QED
    BY <1>5, <2>1
<1>8. Hit(tree, T, a, q) <=>
          /\ T[1] = F[1]
          /\ \/ n + 1 = N + 1 /\ \A j \in 2..(n + 1) : Fits(T, q, j)
             \/ F[n] = "#" /\ \A j \in 2..n : Fits(T, q, j)
  <2>1. (n + 1) - 1 = n /\ 1 + 1 = 2
    BY <1>0
  <2>2. Children(tree, q) = {}
    BY DEF q
  <2>3. (Len(a) + 1)..Len(q) = 2..(n + 1) /\ (Len(a) + 1)..(Len(q) - 1) = 2..n
    BY <1>1, <1>3, <2>1
  <2> HIDE DEF n, N
  <2> QED
    BY <1>1, <1>3, <1>4, <2>2, <2>3 DEF Hit, N
<1>9. n + 1 = N + 1 <=> n = N
  BY <1>0
<1>10. n = N => n <= N
  BY <1>0
<1>11. Agree(F, T) <=> /\ T[1] = F[1]
                       /\ \/ n = N /\ \A i \in 1..n : M(i)
                          \/ F[n] = "#" /\ n - 1 <= N /\ \A i \in 1..(n - 1) : M(i)
  BY DEF Agree
<1> HIDE DEF n, N, M
<1> QED
  BY <1>6, <1>7, <1>8, <1>9, <1>10, <1>11 DEF q, a

\* The root of a node exists.
LEMMA RootAbove ==
    ASSUME NEW D \in Rooted, NEW a \in Level, NEW p \in D, Below(<<a>>, p)
    PROVE  <<a>> \in D
<1> DEFINE z == <<a>>
           b == SubSeq(p, 1, 1)
<1>1. z \in Seq(Level) /\ Len(z) = 1 /\ z[1] = a
  OBVIOUS
<1>2. p \in Seq(Level) /\ PathPrefixes(p) \subseteq D
  BY DEF Rooted, Nodes
<1>3. Len(p) \in Nat
  BY <1>2, LenProperties
<1>4. Len(p) > 1 /\ p[1] = a
  <2>1. 1 \in 1..Len(z)
    BY <1>1
  <2> QED
    BY <1>1, <2>1 DEF Below
<1>5. b \in Seq(Level) /\ Len(b) = 1 /\ b[1] = a
  <2> DEFINE n == 1
  <2>1. n \in 0..Len(p) /\ n \in 1..n /\ n = 1
    BY <1>3, <1>4
  <2> HIDE DEF n
  <2>2. SubSeq(p, 1, n) \in Seq(Level) /\ Len(SubSeq(p, 1, n)) = n /\ \A i \in 1..n : SubSeq(p, 1, n)[i] = p[i]
    BY <1>2, <2>1, Cut
  <2> QED
    BY <1>4, <2>1, <2>2
<1>6. b \in D
  <2>1. 1 \in 1..Len(p)
    BY <1>3, <1>4
  <2> QED
    BY <1>2, <2>1 DEF PathPrefixes
<1> HIDE DEF b, z
<1>7. b = z
  <2>1. \A i \in 1..Len(z) : i = 1
    BY <1>1
  <2>2. \A i \in 1..Len(z) : b[i] = z[i]
    BY <1>1, <1>5, <2>1
  <2> QED
    BY <1>1, <1>5, <2>2, SeqEqual
<1> QED
  BY <1>6, <1>7 DEF z

\* retain__search finds the node of a topic exactly if the filter matches it, but for
\* a topic of one '$' level, which "#" finds from the node above it if it has branches.
OneDollar(f, t) == Len(t) = 1 /\ t[1] \in DollarLevels /\ f = <<t[1], "#">>

LEMMA FoundMatches ==
    ASSUME NEW tree, NEW f \in Filters, f[1] # "$share", NEW u \in TopicNames,
           NEW F, F = Tokenise(f).topics
    PROVE  /\ IsFilter(F)
           /\ Found(tree, F, <<F[1]>>, NodeOf[u]) <=>
                  /\ TopicMatchesSub(f, u)
                  /\ OneDollar(f, u) => Children(tree, NodeOf[u]) # {}
<1> DEFINE T == Tokenise(u).topics
           k == Shift(f)
           n == Len(f) - 1
<1>0. STRING \subseteq Level
  BY Zenon DEF Level
<1>1. IsName(f) /\ n \in Nat /\ n <= Len(f) /\ \A i \in 1..n : f[i] # "#"
  <2>1. f \in Seq(STRING) /\ f # <<>> /\ \A i \in 1..n : f[i] # "#"
    BY FilterAssumption DEF SubTopicCheck
  <2>2. f \in Seq(Level)
    BY <1>0, <2>1, SeqMonotonic
  <2>3. Len(f) \in Nat \ {0}
    BY <2>1, <2>2, EmptySeq
  <2>4. IsName(f) /\ n \in Nat /\ n <= Len(f)
    BY <2>2, <2>3 DEF IsName
  <2> QED
    BY <2>1, <2>4
<1>2. /\ IsName(u) /\ Len(u) \in Nat /\ Len(u) >= 1 /\ PubTopicCheck(u) /\ \A i \in 1..Len(u) : u[i] # "#"
      /\ u[1] # "$share"
  <2>1. u \in Seq(STRING) /\ PubTopicCheck(u) /\ u # <<>> /\ \A i \in DOMAIN u : u[i] \notin {"+", "#"}
    BY TopicAssumption DEF TopicNames, PubTopicCheck
  <2>2. u \in Seq(Level)
    BY <1>0, <2>1, SeqMonotonic
  <2>3. Len(u) \in Nat \ {0} /\ DOMAIN u = 1..Len(u)
    BY <2>1, <2>2, EmptySeq, LenProperties
  <2>4. u[1] # "$share"
    <3>1. "$SYS" # "$share"
      BY Zenon
    <3> QED
      BY <3>1, TopicAssumption DEF TopicNames
  <2>6. IsName(u) /\ Len(u) \in Nat /\ Len(u) >= 1
    BY <2>2, <2>3 DEF IsName
  <2> QED
    BY <2>1, <2>3, <2>4, <2>6
<1>3. Len(F) = Len(f) + k /\ IsName(F) /\ k \in {0, 1} /\ Len(f) \in Nat
  BY <1>1, TokensAre, LenProperties DEF IsName, Shift
<1>4. IsFilter(F)
  <2>1. \A i \in 1..(n + k) : F[i] # "#"
    <3> HIDE DEF n
    <3> QED
      BY <1>1, NoHash
  <2>2. n + k = Len(F) - 1
    BY <1>3
  <2> QED
    BY <1>3, <2>1, <2>2 DEF IsFilter
<1>5. IsName(T) /\ Len(T) = Len(u) + Shift(u) /\ Shift(u) \in {0, 1}
  BY <1>2, TokensAre DEF Shift
<1>6. Agree(F, T) => (Len(T) = 1 /\ Len(F) = 2 <=> OneDollar(f, u))
  <2> SUFFICES ASSUME Agree(F, T) PROVE Len(T) = 1 /\ Len(F) = 2 <=> OneDollar(f, u)
    OBVIOUS
  <2> DEFINE g == <<u[1], "#">>
  <2>1. Len(g) = 2 /\ g[1] = u[1] /\ g[2] = "#" /\ g \in Seq(Level)
    <3>1. u[1] \in Level /\ "#" \in Level
      <4>1. 1 \in 1..Len(u) /\ u \in Seq(Level)
        BY <1>2 DEF IsName
      <4>2. "#" \in Level
        BY Zenon DEF Level
      <4> QED
        BY <4>1, <4>2, ElementOfSeq
    <3> QED
      BY <3>1
  <2> HIDE DEF g
  <2>2. ASSUME Len(T) = 1, Len(F) = 2 PROVE OneDollar(f, u)
    <3>1. Len(u) = 1 /\ Shift(u) = 0
      BY <1>2, <1>5, <2>2
    <3>2. u[1] \in DollarLevels
      BY <3>1 DEF Shift
    <3>3. T[1] = u[1] /\ F[1] = u[1]
      <4>1. T[1 + Shift(u)] = u[1]
        BY <1>2, <3>1, TokensAre
      <4>2. 1 + Shift(u) = 1
        BY <3>1
      <4> QED
        BY <4>1, <4>2 DEF Agree
    <3>4. F[2] = "#"
      BY <2>2 DEF Agree
    <3>5. k # 1
      BY <1>1, <3>2, <3>3, TokensAre, Special
    <3>6. k = 0 /\ Len(f) = 2
      BY <1>3, <2>2, <3>5
    <3>7. f[1] = F[1] /\ f[2] = F[2]
      <4>1. \A i \in 1..Len(f) : F[i + k] = f[i]
        BY <1>1, TokensAre
      <4>2. 1 \in 1..Len(f) /\ 2 \in 1..Len(f) /\ 1 + k = 1 /\ 2 + k = 2
        BY <3>6
      <4> QED
        BY <4>1, <4>2
    <3>8. f = g
      <4>1. \A i \in 1..Len(f) : i = 1 \/ i = 2
        BY <3>6
      <4>2. \A i \in 1..Len(f) : f[i] = g[i]
        BY <2>1, <3>3, <3>4, <3>7, <4>1
      <4>3. f \in Seq(Level)
        BY <1>1 DEF IsName
      <4> QED
        BY <2>1, <3>6, <4>2, <4>3, SeqEqual
    <3> QED
      BY <3>1, <3>2, <3>8 DEF OneDollar, g
  <2>3. ASSUME OneDollar(f, u) PROVE Len(T) = 1 /\ Len(F) = 2
    <3>1. Len(u) = 1 /\ u[1] \in DollarLevels /\ f = g
      BY <2>3 DEF OneDollar, g
    <3>2. Shift(u) = 0 /\ Shift(f) = 0 /\ Len(f) = 2
      BY <2>1, <3>1 DEF Shift
    <3> QED
      BY <1>3, <1>5, <3>1, <3>2
  <2> QED
    BY <2>2, <2>3
<1>7. \A i \in 1..Len(T) : T[i] # "#"
  <2>1. Len(u) <= Len(u)
    BY <1>2
  <2>2. \A i \in 1..(Len(u) + Shift(u)) : T[i] # "#"
    BY <1>2, <2>1, NoHash
  <2> QED
    BY <1>5, <2>2
<1> DEFINE none == <<>>
<1>8. Children(none, Path(F)) = {}
  BY DEF Children
<1> HIDE DEF none
<1>9. Found(tree, F, <<F[1]>>, Path(T)) <=>
          Agree(F, T) /\ (Len(T) = 1 /\ Len(F) = 2 => Children(tree, Path(T)) # {})
  BY <1>4, <1>5, <1>7, FoundAgrees
<1>10. Hit(none, T, <<T[1]>>, Path(F)) <=> Agree(F, T)
  BY <1>3, <1>5, <1>8, HitAgrees
<1>11. Hit(none, T, <<T[1]>>, Path(F)) <=> TopicMatchesSub(f, u)
  BY <1>1, <1>2, <1>8, HitMatches
<1>12. NodeOf[u] = Path(T)
  BY DEF NodeOf
<1> HIDE DEF T
<1> QED
  BY <1>4, <1>6, <1>9, <1>10, <1>11, <1>12

(* A subscription is sent the retained messages of exactly the topics that *)
(* mosquitto_topic_matches_sub says its filter matches, at whatever nodes  *)
(* the tree has, but for "$foo", which "$foo/#" misses while nothing is    *)
(* below it.  For a shared subscription retain__queue searches with    *)
(* the filter after the share name, which is another filter.               *)
THEOREM StoreRetainedFound ==
    ASSUME \A f \in Filters : f[1] # "$share"
    PROVE  Spec => []RetainedFound
<1>1. ASSUME StoreInv PROVE RetainedFound
  <2> SUFFICES ASSUME NEW f \in Filters
               PROVE  RetainSearch(db.retains, f) =
                          {NodeOf[t] : t \in {u \in TopicNames :
                              /\ TopicMatchesSub(f, u) /\ ~Missed(f, u)
                              /\ NodeOf[u] \in RetainedNodes(db)}}
    BY DEF RetainedFound
  <2> DEFINE tree == db.retains
             F == Tokenise(f).topics
             S == {u \in TopicNames : /\ TopicMatchesSub(f, u) /\ ~Missed(f, u)
                                      /\ NodeOf[u] \in RetainedNodes(db)}
             R == RetainSearchNodes(tree, f)
  <2>1. Sound(db, AllRefs(db)) /\ db \in Mem /\ AtNodes(db) /\ DOMAIN tree \in Rooted
    BY <1>1, MemParts DEF StoreInv, Whole, Sound
  <2>2. \A p \in RetainedNodes(db) : \E u \in TopicNames : NodeOf[u] = p
    <3> SUFFICES ASSUME NEW p \in RetainedNodes(db) PROVE \E u \in TopicNames : NodeOf[u] = p
      OBVIOUS
    <3>1. tree[p] \in DOMAIN db.store
      BY <2>1, WholeRefs
    <3>2. NodeOf[db.store[tree[p]].topic] = p
      BY <2>1, <3>1 DEF AtNodes
    <3>3. db.store[tree[p]] \in Message
      BY <2>1, <3>1, MemParts
    <3>4. db.store[tree[p]].topic \in TopicNames
      BY <3>3 DEF Message
    <3> QED
      BY <3>2, <3>4
  <2>3. \A u \in TopicNames : Found(tree, F, <<F[1]>>, NodeOf[u]) <=> TopicMatchesSub(f, u) /\ ~Missed(f, u)
    <3>1. \A u \in TopicNames : Missed(f, u) <=> OneDollar(f, u) /\ Children(tree, NodeOf[u]) = {}
      BY DEF Missed, OneDollar
    <3> QED
      BY <3>1, FoundMatches
  <2>4. RetainedNodes(db) # {} => IsFilter(F)
    BY <2>2, FoundMatches
  <2>5. RetainSearch(tree, f) = R \cap RetainedNodes(db)
    BY DEF RetainSearch, RetainedNodes
  <2>6. ASSUME NEW p \in RetainedNodes(db) PROVE p \in R <=> Found(tree, F, <<F[1]>>, p)
    <3>1. p \in DOMAIN tree /\ IsFilter(F)
      BY <2>4 DEF RetainedNodes
    <3>2. R = IF <<F[1]>> \in DOMAIN tree THEN {q \in DOMAIN tree : Found(tree, F, <<F[1]>>, q)} ELSE {}
      BY <2>1, <3>1, RetainSearchNodesIs
    <3>3. Found(tree, F, <<F[1]>>, p) => <<F[1]>> \in DOMAIN tree
      <4> SUFFICES ASSUME Below(<<F[1]>>, p) PROVE <<F[1]>> \in DOMAIN tree
        BY DEF Found
      <4>1. F[1] \in Level
        <5>1. F \in Seq(Level) /\ 1 \in 1..Len(F)
          BY <3>1, LenProperties DEF IsFilter, IsName
        <5> QED
          BY <5>1, ElementOfSeq
      <4> HIDE DEF tree, F
      <4> QED
        BY <2>1, <3>1, <4>1, RootAbove
    <3> QED
      BY <3>1, <3>2, <3>3
  <2>7. ASSUME NEW p \in RetainedNodes(db), p \in R PROVE \E u \in S : p = NodeOf[u]
    <3>1. PICK u \in TopicNames : NodeOf[u] = p
      BY <2>2
    <3>2. TopicMatchesSub(f, u) /\ ~Missed(f, u)
      BY <2>3, <2>6, <2>7, <3>1
    <3> QED
      BY <3>1, <3>2
  <2>8. ASSUME NEW u \in S PROVE NodeOf[u] \in R \cap RetainedNodes(db)
    <3>1. u \in TopicNames /\ TopicMatchesSub(f, u) /\ ~Missed(f, u) /\ NodeOf[u] \in RetainedNodes(db)
      OBVIOUS
    <3> QED
      BY <2>3, <2>6, <3>1
  <2> HIDE DEF R, S
  <2>9. R \cap RetainedNodes(db) = {NodeOf[u] : u \in S}
    BY <2>7, <2>8
  <2> QED
    BY <2>5, <2>9 DEF S
<1> QED
  BY <1>1, StoreInvariant, PTL
============================================================================
