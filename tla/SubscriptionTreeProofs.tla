----------------------- MODULE SubscriptionTreeProofs -----------------------
(***************************************************************************)
(* Proofs about the subscription tree: what every operation on it does to  *)
(* the list of leaves at every place, that it leaves no dead branch, and   *)
(* which places the search for a topic reaches.                            *)
(***************************************************************************)
EXTENDS SubscriptionTree, FiniteSetTheorems, SequenceTheorems, TLAPS

\* The levels of a path, and the share names.
Level == STRING \cup {"", "$SYS", "+", "#", NoShare}

\* A leaf list is found by the path of its node and the share name.
Place == [path : Seq(Level), share : Level]
At(tree, r) == IF r.path \in DOMAIN tree THEN Members(tree[r.path], r.share) ELSE <<>>

\* The contexts with a leaf in a list, and that each has one.
Holders(leaves) == {leaves[i].context : i \in DOMAIN leaves}
OneEach(leaves) == \A i, j \in DOMAIN leaves : leaves[i].context = leaves[j].context => i = j

Shares(L) == UNION {[G -> Seq(L)] : G \in SUBSET Level}
Node(L) == [subs : Seq(L), shared : Shares(L)]
Trees(L) == UNION {[P -> Node(L)] : P \in SUBSET Seq(Level)}

\* A share name has members.
Tidy(node) == NoShare \notin DOMAIN node.shared /\ \A g \in DOMAIN node.shared : node.shared[g] # <<>>

Alive(tree, p) == Len(p) > 1 => ~IsEmptyNode(tree[p]) \/ Children(tree, p) # {}

\* The nodes form a tree.
Closed(tree) ==
    /\ IsFiniteSet(DOMAIN tree) /\ <<>> \notin DOMAIN tree
    /\ \A p \in DOMAIN tree : PathPrefixes(p) \subseteq DOMAIN tree /\ Tidy(tree[p])

Neat(tree) == Closed(tree) /\ \A p \in DOMAIN tree : Alive(tree, p)

\* The loop of sub__clean_session over the list of a context, e.c.  What it is to
\* show is that in the tree e.tree only the places done so far, t, lose a leaf.
CleanInv(e, t, tree) ==
    /\ tree \in Trees(e.L) /\ Neat(tree)
    /\ \A r \in Place : /\ OneEach(At(tree, r))
                         /\ Holders(At(tree, r)) =
                              Holders(At(e.tree, r)) \ (IF r \in t THEN {e.c} ELSE {})

CleanLoop == INSTANCE Loops WITH
    Op  <- LAMBDA e, tree, r : RemoveLeaf(tree, r.path, r.share, e.c),
    Inv <- CleanInv
----------------------------------------------------------------------------
(* Lists.                                                                  *)

\* t is s without some of its elements.
Thins(t, s) ==
    \E h \in [DOMAIN t -> DOMAIN s] :
        /\ \A i, j \in DOMAIN t : i < j => h[i] < h[j]
        /\ \A i \in DOMAIN t : t[i] = s[h[i]]

\* A part of a list.
LEMMA Part ==
    ASSUME NEW S, NEW s \in Seq(S), NEW m \in 1..(Len(s) + 1), NEW n \in 0..Len(s), m <= n + 1
    PROVE  /\ SubSeq(s, m, n) \in Seq(S) /\ Len(SubSeq(s, m, n)) = n - m + 1
           /\ \A i \in 1..(n - m + 1) : SubSeq(s, m, n)[i] = s[m + i - 1]
<1>1. Len(s) \in Nat /\ \A i \in 1..Len(s) : s[i] \in S
  BY LenProperties, ElementOfSeq
<1>2. m \in Int /\ n \in Int /\ \A i \in m..n : s[i] \in S
  BY <1>1
<1>3. /\ SubSeq(s, m, n) \in Seq(S) /\ Len(SubSeq(s, m, n)) = IF m <= n THEN n - m + 1 ELSE 0
      /\ \A i \in 1..(n - m + 1) : SubSeq(s, m, n)[i] = s[m + i - 1]
  BY <1>2, SubSeqProperties
<1>4. (IF m <= n THEN n - m + 1 ELSE 0) = n - m + 1
  BY <1>1
<1> QED
  BY <1>3, <1>4

LEMMA RemoveAtKeeps ==
    ASSUME NEW S, NEW s \in Seq(S), NEW k \in 1..Len(s)
    PROVE  /\ RemoveAt(s, k) \in Seq(S)
           /\ Len(RemoveAt(s, k)) = Len(s) - 1
           /\ \A i \in 1..(Len(s) - 1) : RemoveAt(s, k)[i] = IF i < k THEN s[i] ELSE s[i + 1]
           /\ Thins(RemoveAt(s, k), s)
<1>0. Len(s) \in Nat /\ DOMAIN s = 1..Len(s)
  BY LenProperties
<1> DEFINE a == SubSeq(s, 1, k - 1)
           b == SubSeq(s, k + 1, Len(s))
           t == RemoveAt(s, k)
<1>1. /\ a \in Seq(S) /\ Len(a) = k - 1
      /\ \A i \in 1..(k - 1) : a[i] = s[i]
  BY <1>0
<1>2. /\ b \in Seq(S) /\ Len(b) = Len(s) - k
      /\ \A i \in 1..(Len(s) - k) : b[i] = s[k + i]
  <2>1. /\ k + 1 \in 1..(Len(s) + 1) /\ Len(s) \in 0..Len(s) /\ k + 1 <= Len(s) + 1
        /\ Len(s) - (k + 1) + 1 = Len(s) - k
        /\ \A i \in Int : (k + 1) + i - 1 = k + i
    BY <1>0, SMTT(30)
  <2>2. /\ b \in Seq(S) /\ Len(b) = Len(s) - (k + 1) + 1
        /\ \A i \in 1..(Len(s) - (k + 1) + 1) : b[i] = s[(k + 1) + i - 1]
    BY <2>1, Part, ZenonT(60)
  <2> HIDE DEF a, b
  <2>3. 1..(Len(s) - (k + 1) + 1) = 1..(Len(s) - k)
    BY <2>1
  <2>4. \A i \in 1..(Len(s) - k) : b[i] = s[k + i]
    BY <2>1, <2>2, <2>3
  <2> QED
    BY <2>1, <2>2, <2>4
<1> HIDE DEF a, b
<1>3. /\ a \o b \in Seq(S) /\ Len(a \o b) = Len(a) + Len(b)
      /\ \A i \in 1 .. Len(a) + Len(b) : (a \o b)[i] = IF i <= Len(a) THEN a[i] ELSE b[i - Len(a)]
  BY <1>1, <1>2, ConcatProperties
<1>4. t = a \o b
  BY DEF RemoveAt, a, b
<1>5. t \in Seq(S) /\ Len(t) = Len(s) - 1
  <2>1. Len(a) + Len(b) = Len(s) - 1
    BY <1>0, <1>1, <1>2
  <2> QED
    BY <1>3, <1>4, <2>1
<1>6. ASSUME NEW i \in 1..(Len(s) - 1)
      PROVE  t[i] = IF i < k THEN s[i] ELSE s[i + 1]
  <2>1. t[i] = IF i <= k - 1 THEN a[i] ELSE b[i - (k - 1)]
    BY <1>0, <1>1, <1>2, <1>3, <1>4
  <2>2. CASE i < k
    BY <1>0, <1>1, <2>1, <2>2
  <2>3. CASE ~(i < k)
    <3>1. i - (k - 1) \in 1..(Len(s) - k) /\ k + (i - (k - 1)) = i + 1
      BY <1>0, <2>3
    <3>2. b[i - (k - 1)] = s[i + 1]
      BY <1>2, <3>1
    <3> QED
      BY <1>0, <2>1, <2>3, <3>2
  <2> QED
    BY <2>2, <2>3
<1> HIDE DEF t
<1>7. DOMAIN t = 1..(Len(s) - 1)
  BY <1>5, LenProperties
<1> DEFINE h == [i \in 1..(Len(s) - 1) |-> IF i < k THEN i ELSE i + 1]
<1>8. h \in [DOMAIN t -> DOMAIN s]
  BY <1>0, <1>7
<1>9. \A i, j \in DOMAIN t : i < j => h[i] < h[j]
  BY <1>0, <1>7
<1>10. \A i \in DOMAIN t : t[i] = s[h[i]]
  BY <1>6, <1>7
<1> HIDE DEF h
<1>11. Thins(t, s)
  BY <1>8, <1>9, <1>10 DEF Thins
<1> QED
  BY <1>5, <1>6, <1>11 DEF t

LEMMA ThinsRefl ==
    ASSUME NEW S, NEW s \in Seq(S)
    PROVE  Thins(s, s)
<1> DEFINE h == [i \in DOMAIN s |-> i]
<1>1. h \in [DOMAIN s -> DOMAIN s] /\ \A i \in DOMAIN s : h[i] = i
  OBVIOUS
<1> HIDE DEF h
<1> QED
  BY <1>1 DEF Thins

LEMMA ThinsInjective ==
    ASSUME NEW S, NEW s \in Seq(S), NEW t \in Seq(S), Thins(t, s), IsInjective(s)
    PROVE  IsInjective(t)
<1>0. /\ Len(s) \in Nat /\ DOMAIN s = 1..Len(s) /\ DOMAIN s \subseteq Nat
      /\ Len(t) \in Nat /\ DOMAIN t = 1..Len(t) /\ DOMAIN t \subseteq Nat
  BY LenProperties
<1>1. PICK h \in [DOMAIN t -> DOMAIN s] :
          /\ \A i, j \in DOMAIN t : i < j => h[i] < h[j]
          /\ \A i \in DOMAIN t : t[i] = s[h[i]]
  BY DEF Thins
<1>2. ASSUME NEW i \in DOMAIN t, NEW j \in DOMAIN t, t[i] = t[j]
      PROVE  i = j
  <2>1. h[i] = h[j]
    BY <1>1, <1>2 DEF IsInjective
  <2>2. h[i] \in Nat /\ i \in Nat /\ j \in Nat
    BY <1>0, <1>1
  <2>3. ~(h[i] < h[j]) /\ ~(h[j] < h[i])
    BY <2>1, <2>2
  <2>4. ~(i < j) /\ ~(j < i)
    BY <1>1, <2>3
  <2> QED
    BY <2>2, <2>4
<1> QED
  BY <1>2 DEF IsInjective

\* The first element with a property.
LEMMA FirstMatch ==
    ASSUME NEW S, NEW s \in Seq(S), NEW I, I \subseteq 1..Len(s), I # {}
    PROVE  Min(I) \in I /\ \A i \in I : Min(I) <= i
<1>1. I \subseteq Nat
  BY LenProperties
<1>2. \E n \in I : \A k \in I : n <= k
  BY <1>1, CleanLoop!LeastNat
<1> QED
  BY <1>2 DEF Min

LEMMA RemoveFirstKeeps ==
    ASSUME NEW S, NEW s \in Seq(S), NEW e, IsInjective(s)
    PROVE  /\ RemoveFirst(s, e) \in Seq(S) /\ Thins(RemoveFirst(s, e), s)
           /\ Range(RemoveFirst(s, e)) = Range(s) \ {e}
<1> DEFINE I == {i \in 1..Len(s) : s[i] = e}
<1>0. Len(s) \in Nat /\ DOMAIN s = 1..Len(s)
  BY LenProperties
<1>1. CASE I = {}
  <2>1. RemoveFirst(s, e) = s
    BY <1>1 DEF RemoveFirst
  <2>2. e \notin Range(s)
    BY <1>0, <1>1 DEF Range
  <2> QED
    BY <2>1, <2>2, ThinsRefl
<1>2. CASE I # {}
  <2> DEFINE k == Min(I)
             t == RemoveAt(s, k)
  <2>1. k \in I
    BY <1>2, FirstMatch
  <2>2. RemoveFirst(s, e) = t
    BY <1>2 DEF RemoveFirst, SelectInSeq
  <2> HIDE DEF k
  <2>3. k \in 1..Len(s) /\ s[k] = e
    BY <2>1
  <2>4. /\ t \in Seq(S) /\ Len(t) = Len(s) - 1 /\ Thins(t, s)
        /\ \A i \in 1..(Len(s) - 1) : t[i] = IF i < k THEN s[i] ELSE s[i + 1]
    BY <2>3, RemoveAtKeeps
  <2> HIDE DEF t
  <2>5. DOMAIN t = 1..(Len(s) - 1)
    BY <2>4, LenProperties
  <2>6. \A j \in 1..Len(s) : j # k => s[j] # e
    BY <1>0, <2>3 DEF IsInjective
  <2>7. ASSUME NEW x \in Range(t)
        PROVE  x \in Range(s) \ {e}
    <3>1. PICK i \in 1..(Len(s) - 1) : x = t[i]
      BY <2>5 DEF Range
    <3>2. PICK j \in 1..Len(s) : j # k /\ t[i] = s[j]
      <4>1. CASE i < k
        BY <1>0, <2>4, <3>1, <4>1
      <4>2. CASE ~(i < k)
        <5>1. i + 1 \in 1..Len(s) /\ i + 1 # k
          BY <1>0, <2>3, <4>2
        <5> QED
          BY <2>4, <4>2, <5>1
      <4> QED
        BY <4>1, <4>2
    <3> QED
      BY <1>0, <2>6, <3>1, <3>2 DEF Range
  <2>8. ASSUME NEW x \in Range(s), x # e
        PROVE  x \in Range(t)
    <3>1. PICK j \in 1..Len(s) : x = s[j]
      BY <1>0 DEF Range
    <3>2. j # k
      BY <2>3, <2>8, <3>1
    <3>3. CASE j < k
      <4>1. j \in 1..(Len(s) - 1) /\ t[j] = s[j]
        BY <1>0, <2>3, <2>4, <3>3
      <4> QED
        BY <2>5, <3>1, <4>1 DEF Range
    <3>4. CASE ~(j < k)
      <4>1. j - 1 \in 1..(Len(s) - 1) /\ ~(j - 1 < k) /\ (j - 1) + 1 = j
        BY <1>0, <2>3, <3>2, <3>4
      <4>2. t[j - 1] = s[j]
        BY <2>4, <4>1
      <4> QED
        BY <2>5, <3>1, <4>1, <4>2 DEF Range
    <3> QED
      BY <3>3, <3>4
  <2>9. Range(t) = Range(s) \ {e}
    BY <2>7, <2>8
  <2> QED
    BY <2>2, <2>4, <2>9
<1> QED
  BY <1>1, <1>2

Left(leaves, c) == RemoveFirstMatch(leaves, LAMBDA leaf : leaf.context = c)

\* Taking the leaf of one context out of a list.
LEMMA RemoveLeafOf ==
    ASSUME NEW L, NEW s \in Seq(L), NEW c, OneEach(s)
    PROVE  LET t == Left(s, c)
           IN  t \in Seq(L) /\ OneEach(t) /\ Holders(t) = Holders(s) \ {c}
<1> DEFINE I == {i \in 1..Len(s) : s[i].context = c}
           r == Left(s, c)
<1>0. Len(s) \in Nat /\ DOMAIN s = 1..Len(s)
  BY LenProperties
<1>1. CASE I = {}
  <2>1. r = s
    BY <1>1 DEF Left, RemoveFirstMatch
  <2>2. c \notin Holders(s)
    BY <1>0, <1>1 DEF Holders
  <2> QED
    BY <2>1, <2>2
<1>2. CASE I # {}
  <2> DEFINE k == Min(I)
             t == RemoveAt(s, k)
  <2>1. k \in I
    BY <1>2, FirstMatch
  <2>2. r = t
    BY <1>2 DEF Left, RemoveFirstMatch, SelectInSeq
  <2> HIDE DEF k
  <2>3. k \in 1..Len(s) /\ s[k].context = c
    BY <2>1
  <2>4. /\ t \in Seq(L) /\ Len(t) = Len(s) - 1 /\ Thins(t, s)
        /\ \A i \in 1..(Len(s) - 1) : t[i] = IF i < k THEN s[i] ELSE s[i + 1]
    BY <2>3, RemoveAtKeeps
  <2> HIDE DEF t, I
  <2>5. DOMAIN t = 1..(Len(s) - 1)
    BY <2>4, LenProperties
  <2>6. \A j \in 1..Len(s) : j # k => s[j].context # c
    BY <1>0, <2>3 DEF OneEach
  <2>7. ASSUME NEW i \in DOMAIN t
        PROVE  \E j \in 1..Len(s) : j # k /\ t[i] = s[j]
    <3>1. CASE i < k
      BY <1>0, <2>3, <2>4, <2>5, <3>1
    <3>2. CASE ~(i < k)
      <4>1. i + 1 \in 1..Len(s) /\ i + 1 # k /\ t[i] = s[i + 1]
        BY <1>0, <2>3, <2>4, <2>5, <3>2
      <4> QED
        BY <4>1
    <3> QED
      BY <3>1, <3>2
  <2>8. ASSUME NEW j \in 1..Len(s), j # k
        PROVE  \E i \in DOMAIN t : t[i] = s[j]
    <3>1. CASE j < k
      <4>1. j \in 1..(Len(s) - 1) /\ t[j] = s[j]
        BY <1>0, <2>3, <2>4, <3>1
      <4> QED
        BY <2>5, <4>1
    <3>2. CASE ~(j < k)
      <4>1. j - 1 \in 1..(Len(s) - 1) /\ ~(j - 1 < k) /\ (j - 1) + 1 = j
        BY <1>0, <2>3, <2>8, <3>2
      <4>2. t[j - 1] = s[j]
        BY <2>4, <4>1
      <4> QED
        BY <2>5, <4>1, <4>2
    <3> QED
      BY <3>1, <3>2
  <2>9. Holders(t) = Holders(s) \ {c}
    <3>1. ASSUME NEW i \in DOMAIN t PROVE t[i].context \in Holders(s) \ {c}
      BY <1>0, <2>6, <2>7 DEF Holders
    <3>2. ASSUME NEW j \in DOMAIN s, s[j].context # c PROVE s[j].context \in Holders(t)
      <4>1. j \in 1..Len(s) /\ j # k
        BY <1>0, <2>3, <3>2
      <4> QED
        BY <2>8, <4>1 DEF Holders
    <3> QED
      BY <3>1, <3>2 DEF Holders
  <2>10. OneEach(t)
    <3>1. PICK h \in [DOMAIN t -> DOMAIN s] :
              /\ \A i, j \in DOMAIN t : i < j => h[i] < h[j]
              /\ \A i \in DOMAIN t : t[i] = s[h[i]]
      BY <2>4 DEF Thins
    <3>2. ASSUME NEW i \in DOMAIN t, NEW j \in DOMAIN t, t[i].context = t[j].context
          PROVE  i = j
      <4>1. h[i] = h[j] /\ h[i] \in Nat
        BY <1>0, <3>1, <3>2 DEF OneEach
      <4>2. i \in Nat /\ j \in Nat
        BY <1>0, <2>5
      <4>3. ~(h[i] < h[j]) /\ ~(h[j] < h[i])
        BY <4>1
      <4>4. ~(i < j) /\ ~(j < i)
        BY <3>1, <4>3
      <4> QED
        BY <4>2, <4>4
    <3> QED
      BY <3>2 DEF OneEach
  <2> HIDE DEF r
  <2> QED
    BY <2>2, <2>4, <2>9, <2>10 DEF r
<1> QED
  BY <1>1, <1>2

\* A list with one more leaf.
LEMMA AppendLeaf ==
    ASSUME NEW L, NEW s \in Seq(L), NEW leaf \in L, OneEach(s), leaf.context \notin Holders(s)
    PROVE  /\ Append(s, leaf) \in Seq(L) /\ OneEach(Append(s, leaf))
           /\ Holders(Append(s, leaf)) = Holders(s) \cup {leaf.context}
<1> DEFINE t == Append(s, leaf)
<1>0. Len(s) \in Nat /\ DOMAIN s = 1..Len(s)
  BY LenProperties
<1>1. /\ t \in Seq(L) /\ Len(t) = Len(s) + 1
      /\ \A i \in 1..Len(s) : t[i] = s[i]
      /\ t[Len(s) + 1] = leaf
  BY AppendProperties
<1>2. DOMAIN t = 1..(Len(s) + 1)
  BY <1>1, LenProperties
<1> HIDE DEF t
<1>3. \A i \in 1..(Len(s) + 1) : i \in 1..Len(s) \/ i = Len(s) + 1
  BY <1>0
<1>4. Holders(t) = Holders(s) \cup {leaf.context}
  <2>1. Holders(t) \subseteq Holders(s) \cup {leaf.context}
    BY <1>0, <1>1, <1>2, <1>3 DEF Holders
  <2>2. \A i \in DOMAIN s : i \in DOMAIN t /\ t[i] = s[i]
    BY <1>0, <1>1, <1>2
  <2>3. Len(s) + 1 \in DOMAIN t
    BY <1>0, <1>2
  <2>4. Holders(s) \subseteq Holders(t)
    BY <2>2 DEF Holders
  <2>5. leaf.context \in Holders(t)
    BY <1>1, <2>3 DEF Holders
  <2> QED
    BY <2>1, <2>4, <2>5
<1>5. ASSUME NEW i \in DOMAIN t, NEW j \in DOMAIN t, t[i].context = t[j].context
      PROVE  i = j
  <2>1. CASE i \in 1..Len(s) /\ j \in 1..Len(s)
    BY <1>0, <1>1, <1>5, <2>1 DEF OneEach
  <2>2. CASE i \in 1..Len(s) /\ j = Len(s) + 1
    BY <1>0, <1>1, <1>5, <2>2 DEF Holders
  <2>3. CASE j \in 1..Len(s) /\ i = Len(s) + 1
    BY <1>0, <1>1, <1>5, <2>3 DEF Holders
  <2> QED
    BY <1>2, <1>3, <2>1, <2>2, <2>3
<1>6. OneEach(t)
  BY <1>5 DEF OneEach
<1> QED
  BY <1>1, <1>4, <1>6 DEF t

\* The first leaf of a list goes to its end.
LEMMA TurnLeaves ==
    ASSUME NEW L, NEW s \in Seq(L), s # <<>>, OneEach(s)
    PROVE  LET t == Append(Tail(s), Head(s))
           IN  t \in Seq(L) /\ t # <<>> /\ OneEach(t) /\ Holders(t) = Holders(s)
<1> DEFINE t == Append(Tail(s), Head(s))
           n == Len(s)
<1>0. n \in Nat /\ n # 0 /\ DOMAIN s = 1..n
  BY LenProperties, EmptySeq
<1>1. /\ Head(s) = s[1] /\ Head(s) \in L /\ Tail(s) \in Seq(L)
      /\ Len(Tail(s)) = n - 1 /\ \A i \in 1..(n - 1) : Tail(s)[i] = s[i + 1]
  BY <1>0, HeadTailProperties
<1>2. /\ t \in Seq(L) /\ Len(t) = n
      /\ \A i \in 1..(n - 1) : t[i] = s[i + 1]
      /\ t[n] = s[1]
  <2>1. /\ t \in Seq(L) /\ Len(t) = Len(Tail(s)) + 1
        /\ \A i \in 1..Len(Tail(s)) : t[i] = Tail(s)[i]
        /\ t[Len(Tail(s)) + 1] = Head(s)
    BY <1>1, AppendProperties
  <2>2. (n - 1) + 1 = n
    BY <1>0
  <2> HIDE DEF t, n
  <2> QED
    BY <1>1, <2>1, <2>2
<1>3. DOMAIN t = 1..n /\ t # <<>>
  BY <1>0, <1>2, LenProperties
<1> HIDE DEF t, n
<1>4. ASSUME NEW i \in 1..n PROVE \E j \in 1..n : t[j] = s[i]
  <2>1. CASE i = 1
    BY <1>0, <1>2, <2>1
  <2>2. CASE i # 1
    <3>1. i - 1 \in 1..(n - 1) /\ (i - 1) + 1 = i /\ i - 1 \in 1..n
      BY <1>0, <2>2
    <3> QED
      BY <1>2, <3>1
  <2> QED
    BY <2>1, <2>2
<1>5. ASSUME NEW i \in 1..n
      PROVE  \/ i \in 1..(n - 1) /\ t[i] = s[i + 1] /\ i + 1 \in 1..n
             \/ i = n /\ t[i] = s[1] /\ 1 \in 1..n
  BY <1>0, <1>2
<1>6. Holders(t) = Holders(s)
  <2>1. Holders(t) \subseteq Holders(s)
    BY <1>0, <1>3, <1>5 DEF Holders
  <2>2. Holders(s) \subseteq Holders(t)
    BY <1>0, <1>3, <1>4, ZenonT(60) DEF Holders
  <2> QED
    BY <2>1, <2>2
<1>7. ASSUME NEW i \in 1..n, NEW j \in 1..n, t[i].context = t[j].context
      PROVE  i = j
  <2>1. \A x, y \in 1..n : s[x].context = s[y].context => x = y
    BY <1>0 DEF OneEach
  <2>2. CASE i = n
    <3>1. CASE j = n
      BY <2>2, <3>1
    <3>2. CASE j # n
      <4>1. t[i] = s[1] /\ 1 \in 1..n /\ t[j] = s[j + 1] /\ j + 1 \in 1..n
        BY <1>0, <1>2, <2>2, <3>2
      <4>2. 1 = j + 1
        BY <1>7, <2>1, <4>1
      <4> QED
        BY <4>2
    <3> QED
      BY <3>1, <3>2
  <2>3. CASE i # n
    <3>0. t[i] = s[i + 1] /\ i + 1 \in 1..n
      BY <1>0, <1>2, <2>3
    <3>1. CASE j = n
      <4>1. t[j] = s[1] /\ 1 \in 1..n
        BY <1>0, <1>2, <3>1
      <4>2. 1 = i + 1
        BY <1>7, <2>1, <3>0, <4>1
      <4> QED
        BY <4>2
    <3>2. CASE j # n
      <4>1. t[j] = s[j + 1] /\ j + 1 \in 1..n
        BY <1>0, <1>2, <3>2
      <4>2. i + 1 = j + 1
        BY <1>7, <2>1, <3>0, <4>1
      <4> QED
        BY <4>2
    <3> QED
      BY <3>1, <3>2
  <2> QED
    BY <2>2, <2>3
<1>8. OneEach(t)
  BY <1>3, <1>7 DEF OneEach
<1> QED
  BY <1>2, <1>3, <1>6, <1>8 DEF t

\* The leaf of f becomes one of c.
Renames(L, c) ==
    \A leaf \in L : [leaf EXCEPT !.context = c] \in L /\ [leaf EXCEPT !.context = c].context = c
Take(leaves, c, f) ==
    [i \in DOMAIN leaves |-> IF leaves[i].context = f THEN [leaves[i] EXCEPT !.context = c] ELSE leaves[i]]

LEMMA TakeLeaves ==
    ASSUME NEW L, NEW s \in Seq(L), NEW c, NEW f, OneEach(s), c \notin Holders(s),
           Renames(L, c)
    PROVE  LET t == Take(s, c, f)
           IN  /\ t \in Seq(L) /\ OneEach(t)
               /\ Holders(t) = (Holders(s) \ {f}) \cup (IF f \in Holders(s) THEN {c} ELSE {})
<1> DEFINE take(leaf) == IF leaf.context = f THEN [leaf EXCEPT !.context = c] ELSE leaf
           t == [i \in DOMAIN s |-> take(s[i])]
<1>0. Len(s) \in Nat /\ DOMAIN s = 1..Len(s) /\ \A i \in DOMAIN s : s[i] \in L
  BY LenProperties, ElementOfSeq
<1>1. \A i \in DOMAIN s : /\ take(s[i]) \in L
                          /\ take(s[i]).context = IF s[i].context = f THEN c ELSE s[i].context
  BY <1>0 DEF Renames
<1>2. DOMAIN t = DOMAIN s /\ \A i \in DOMAIN s : t[i] = take(s[i])
  OBVIOUS
<1> HIDE DEF take
<1>3. t \in Seq(L)
  <2>1. t \in [1..Len(s) -> L]
    BY <1>0, <1>1
  <2> QED
    BY <1>0, <2>1, IsASeq
<1> HIDE DEF t
<1>4. \A i \in DOMAIN s : s[i].context # c
  BY DEF Holders
<1>5. OneEach(t)
  BY <1>1, <1>2, <1>4 DEF OneEach
<1>6. Holders(t) = (Holders(s) \ {f}) \cup (IF f \in Holders(s) THEN {c} ELSE {})
  <2>1. ASSUME NEW x \in Holders(t)
        PROVE  x \in (Holders(s) \ {f}) \cup (IF f \in Holders(s) THEN {c} ELSE {})
    BY <1>1, <1>2 DEF Holders
  <2>2. ASSUME NEW x \in Holders(s) \ {f}
        PROVE  x \in Holders(t)
    BY <1>1, <1>2 DEF Holders
  <2>3. ASSUME f \in Holders(s)
        PROVE  c \in Holders(t)
    BY <1>1, <1>2, <2>3 DEF Holders
  <2> QED
    BY <2>1, <2>2, <2>3
<1> QED
  BY <1>3, <1>5, <1>6 DEF t, take, Take
----------------------------------------------------------------------------
(* Nodes.                                                                  *)

LEMMA SharesType ==
    ASSUME NEW L, NEW z
    PROVE  z \in Shares(L) <=> z \in [DOMAIN z -> Seq(L)] /\ DOMAIN z \subseteq Level
<1>1. ASSUME z \in Shares(L) PROVE z \in [DOMAIN z -> Seq(L)] /\ DOMAIN z \subseteq Level
  <2>1. PICK G \in SUBSET Level : z \in [G -> Seq(L)]
    BY <1>1 DEF Shares
  <2> QED
    BY <2>1
<1>2. ASSUME z \in [DOMAIN z -> Seq(L)], DOMAIN z \subseteq Level PROVE z \in Shares(L)
  <2>1. DOMAIN z \in SUBSET Level
    BY <1>2
  <2> QED
    BY <1>2, <2>1 DEF Shares
<1> QED
  BY <1>1, <1>2

LEMMA TreesType ==
    ASSUME NEW L, NEW t
    PROVE  t \in Trees(L) <=> t \in [DOMAIN t -> Node(L)] /\ DOMAIN t \subseteq Seq(Level)
<1>1. ASSUME t \in Trees(L) PROVE t \in [DOMAIN t -> Node(L)] /\ DOMAIN t \subseteq Seq(Level)
  <2>1. PICK P \in SUBSET Seq(Level) : t \in [P -> Node(L)]
    BY <1>1 DEF Trees
  <2> QED
    BY <2>1
<1>2. ASSUME t \in [DOMAIN t -> Node(L)], DOMAIN t \subseteq Seq(Level) PROVE t \in Trees(L)
  <2>1. DOMAIN t \in SUBSET Seq(Level)
    BY <1>2
  <2> QED
    BY <1>2, <2>1 DEF Trees
<1> QED
  BY <1>1, <1>2

LEMMA MembersType ==
    ASSUME NEW L, NEW node \in Node(L), NEW h
    PROVE  Members(node, h) \in Seq(L)
<1>1. node.subs \in Seq(L) /\ node.shared \in Shares(L)
  BY DEF Node
<1>2. node.shared \in [DOMAIN node.shared -> Seq(L)]
  BY <1>1, SharesType
<1>3. <<>> \in Seq(L)
  BY EmptySeq
<1> QED
  BY <1>1, <1>2, <1>3 DEF Members

LEMMA EmptyNodeType ==
    ASSUME NEW L
    PROVE  EmptyNode \in Node(L) /\ Tidy(EmptyNode) /\ \A h : Members(EmptyNode, h) = <<>>
<1>1. <<>> \in Seq(L) /\ DOMAIN <<>> = {}
  BY EmptySeq
<1>2. <<>> \in Shares(L)
  <2>1. <<>> \in Seq(Seq(L)) /\ Len(<<>>) = 0
    BY EmptySeq
  <2>2. <<>> \in [1..Len(<<>>) -> Seq(L)] /\ 1..0 = {}
    BY <2>1, LenProperties
  <2>3. <<>> \in [DOMAIN <<>> -> Seq(L)]
    BY <1>1, <2>1, <2>2
  <2> QED
    BY <1>1, <2>3, SharesType
<1> QED
  BY <1>1, <1>2 DEF EmptyNode, Node, Tidy, Members

LEMMA WithMembersKeeps ==
    ASSUME NEW L, NEW node \in Node(L), Tidy(node), NEW share \in Level, NEW leaves \in Seq(L)
    PROVE  LET new == WithMembers(node, share, leaves)
           IN  /\ new \in Node(L) /\ Tidy(new)
               /\ \A h \in Level : Members(new, h) = IF h = share THEN leaves ELSE Members(node, h)
               /\ leaves # <<>> => ~IsEmptyNode(new)
<1>1. node.subs \in Seq(L) /\ node.shared \in Shares(L) /\ node = [subs |-> node.subs, shared |-> node.shared]
  BY DEF Node
<1>2. node.shared \in [DOMAIN node.shared -> Seq(L)] /\ DOMAIN node.shared \subseteq Level
  BY <1>1, SharesType
<1>3. CASE share = NoShare
  <2> DEFINE new == [node EXCEPT !.subs = leaves]
  <2>1. new = [subs |-> leaves, shared |-> node.shared]
    BY <1>1
  <2>2. WithMembers(node, share, leaves) = new
    BY <1>3 DEF WithMembers
  <2> HIDE DEF new
  <2>3. new.subs = leaves /\ new.shared = node.shared
    BY <2>1
  <2>4. new \in Node(L)
    BY <1>1, <2>1 DEF Node
  <2> QED
    BY <1>3, <2>2, <2>3, <2>4 DEF Tidy, Members, IsEmptyNode
<1>4. CASE share # NoShare
  <2> DEFINE G == (DOMAIN node.shared \cup {share}) \ (IF leaves = <<>> THEN {share} ELSE {})
             z == [g \in G |-> IF g = share THEN leaves ELSE node.shared[g]]
             new == [node EXCEPT !.shared = z]
  <2>1. new = [subs |-> node.subs, shared |-> z]
    BY <1>1, SMTT(30)
  <2>2. WithMembers(node, share, leaves) = new
    BY <1>4 DEF WithMembers
  <2> HIDE DEF new
  <2>3. new.subs = node.subs /\ new.shared = z
    BY <2>1
  <2>4. DOMAIN z = G /\ \A g \in G : z[g] = IF g = share THEN leaves ELSE node.shared[g]
    OBVIOUS
  <2>5. G \subseteq Level /\ \A g \in G : g = share \/ g \in DOMAIN node.shared
    BY <1>2
  <2>6. z \in [G -> Seq(L)]
    BY <1>2, <2>5
  <2>7. z \in Shares(L)
    <3> HIDE DEF z, G
    <3> QED
      BY <2>4, <2>5, <2>6, SharesType
  <2>8. \A h : h # share => (h \in G <=> h \in DOMAIN node.shared)
    OBVIOUS
  <2>9. share \in G <=> leaves # <<>>
    OBVIOUS
  <2> HIDE DEF z, G
  <2>10. new \in Node(L)
    BY <1>1, <2>1, <2>7 DEF Node
  <2>11. Tidy(new)
    BY <1>4, <2>3, <2>4, <2>5, <2>9 DEF Tidy
  <2>12. \A h \in Level : Members(new, h) = IF h = share THEN leaves ELSE Members(node, h)
    BY <1>4, <2>3, <2>4, <2>8, <2>9 DEF Members
  <2>13. leaves # <<>> => ~IsEmptyNode(new)
    BY <2>3, <2>4, <2>9 DEF IsEmptyNode
  <2> QED
    BY <2>2, <2>10, <2>11, <2>12, <2>13
<1> QED
  BY <1>3, <1>4
----------------------------------------------------------------------------
(* Paths.                                                                  *)

LEMMA Cut ==
    ASSUME NEW S, NEW p \in Seq(S), NEW n \in 0..Len(p)
    PROVE  /\ SubSeq(p, 1, n) \in Seq(S) /\ Len(SubSeq(p, 1, n)) = n
           /\ \A i \in 1..n : SubSeq(p, 1, n)[i] = p[i]
<1>1. Len(p) \in Nat
  BY LenProperties
<1>2. 1 \in 1..(Len(p) + 1) /\ 1 <= n + 1 /\ n - 1 + 1 = n /\ \A i \in Int : 1 + i - 1 = i
  BY <1>1
<1> QED
  BY <1>2, Part

LEMMA CutTwice ==
    ASSUME NEW S, NEW p \in Seq(S), NEW n \in 0..Len(p), NEW m \in 0..n
    PROVE  SubSeq(SubSeq(p, 1, n), 1, m) = SubSeq(p, 1, m)
<1>0. Len(p) \in Nat
  BY LenProperties
<1> DEFINE a == SubSeq(p, 1, n)
           b == SubSeq(a, 1, m)
           e == SubSeq(p, 1, m)
<1>1. a \in Seq(S) /\ Len(a) = n /\ \A i \in 1..n : a[i] = p[i]
  BY Cut
<1>2. m \in 0..Len(p)
  BY <1>0
<1>3. e \in Seq(S) /\ Len(e) = m /\ \A i \in 1..m : e[i] = p[i]
  BY <1>2, Cut
<1> HIDE DEF a
<1>4. b \in Seq(S) /\ Len(b) = m /\ \A i \in 1..m : b[i] = a[i]
  BY <1>1, Cut
<1> HIDE DEF b, e
<1>5. \A i \in 1..m : i \in 1..n
  BY <1>0
<1>6. Len(b) = Len(e) /\ \A i \in 1..Len(b) : b[i] = e[i]
  BY <1>1, <1>3, <1>4, <1>5
<1>7. b = e
  BY <1>3, <1>4, <1>6, SeqEqual
<1> QED
  BY <1>7 DEF a, b, e

LEMMA CutAll ==
    ASSUME NEW S, NEW p \in Seq(S)
    PROVE  SubSeq(p, 1, Len(p)) = p
<1>1. Len(p) \in 0..Len(p)
  BY LenProperties
<1>2. /\ SubSeq(p, 1, Len(p)) \in Seq(S) /\ Len(SubSeq(p, 1, Len(p))) = Len(p)
      /\ \A i \in 1..Len(p) : SubSeq(p, 1, Len(p))[i] = p[i]
  BY <1>1, Cut
<1> QED
  BY <1>2, SeqEqual

LEMMA FiniteImage ==
    ASSUME NEW I, IsFiniteSet(I), NEW f, f = [x \in I |-> f[x]]
    PROVE  IsFiniteSet({f[x] : x \in I})
<1> DEFINE T == {f[x] : x \in I}
<1>1. f \in [I -> T]
  OBVIOUS
<1>2. \A y \in T : \E x \in I : f[x] = y
  OBVIOUS
<1> HIDE DEF T
<1>3. f \in Surjection(I, T)
  BY <1>1, <1>2 DEF Surjection
<1>4. IsFiniteSet(T)
  BY <1>3, FS_Surjection
<1> QED
  BY <1>4 DEF T

LEMMA PrefixTypes ==
    ASSUME NEW p \in Seq(Level)
    PROVE  /\ PathPrefixes(p) \subseteq Seq(Level) /\ <<>> \notin PathPrefixes(p)
           /\ p # <<>> => p \in PathPrefixes(p)
<1>0. Len(p) \in Nat
  BY LenProperties
<1>1. ASSUME NEW n \in 1..Len(p)
      PROVE  SubSeq(p, 1, n) \in Seq(Level) /\ SubSeq(p, 1, n) # <<>>
  <2>1. n \in 0..Len(p)
    BY <1>0
  <2>2. SubSeq(p, 1, n) \in Seq(Level) /\ Len(SubSeq(p, 1, n)) = n
    BY <2>1, Cut
  <2> QED
    BY <2>2, EmptySeq
<1>2. PathPrefixes(p) \subseteq Seq(Level) /\ <<>> \notin PathPrefixes(p)
  BY <1>1, SMTT(30) DEF PathPrefixes
<1>3. ASSUME p # <<>> PROVE p \in PathPrefixes(p)
  <2>1. Len(p) \in 1..Len(p)
    BY <1>0, <1>3, EmptySeq
  <2>2. p = SubSeq(p, 1, Len(p))
    BY CutAll
  <2> QED
    BY <2>1, <2>2, Zenon DEF PathPrefixes
<1> QED
  BY <1>2, <1>3

LEMMA PrefixFinite ==
    ASSUME NEW p \in Seq(Level)
    PROVE  IsFiniteSet(PathPrefixes(p))
<1> DEFINE I == 1..Len(p)
           f == [n \in I |-> SubSeq(p, 1, n)]
<1>1. IsFiniteSet(I)
  <2>1. Len(p) \in Nat
    BY LenProperties
  <2> QED
    BY <2>1, FS_Interval
<1>2. PathPrefixes(p) = {f[n] : n \in I} /\ f = [n \in I |-> f[n]]
  BY DEF PathPrefixes
<1> HIDE DEF f, I
<1> QED
  BY <1>1, <1>2, FiniteImage

LEMMA PrefixOfPrefix ==
    ASSUME NEW p \in Seq(Level), NEW q \in PathPrefixes(p)
    PROVE  PathPrefixes(q) \subseteq PathPrefixes(p)
<1>0. Len(p) \in Nat
  BY LenProperties
<1>1. PICK n \in 1..Len(p) : q = SubSeq(p, 1, n)
  BY DEF PathPrefixes
<1>2. n \in 0..Len(p)
  BY <1>0
<1>3. Len(q) = n
  BY <1>1, <1>2, Cut
<1>4. ASSUME NEW m \in 1..n PROVE SubSeq(q, 1, m) \in PathPrefixes(p)
  <2>1. m \in 0..n /\ m \in 1..Len(p)
    BY <1>0
  <2>2. SubSeq(q, 1, m) = SubSeq(p, 1, m)
    BY <1>1, <1>2, <2>1, CutTwice, SMTT(30)
  <2> QED
    BY <2>1, <2>2 DEF PathPrefixes
<1> QED
  BY <1>3, <1>4 DEF PathPrefixes

\* A node on the way to p, and the one below it.
LEMMA ChildOnPath ==
    ASSUME NEW p \in Seq(Level), NEW q \in Seq(Level), NEW z \in PathPrefixes(p),
           Len(z) = Len(q) + 1, IsPrefix(q, z), q # <<>>
    PROVE  q \in PathPrefixes(p)
<1>0. Len(p) \in Nat /\ Len(q) \in Nat /\ Len(q) # 0
  BY LenProperties, EmptySeq
<1>1. PICK n \in 1..Len(p) : z = SubSeq(p, 1, n)
  BY DEF PathPrefixes
<1>2. n \in 0..Len(p) /\ Len(z) = n
  <2>1. n \in 0..Len(p)
    BY <1>0
  <2> QED
    BY <1>1, <2>1, Cut
<1>3. Len(q) \in 0..n /\ Len(q) \in 1..Len(p)
  BY <1>0, <1>2
<1>4. SubSeq(q, 1, Len(q)) = SubSeq(z, 1, Len(q))
  BY DEF IsPrefix
<1>5. SubSeq(z, 1, Len(q)) = SubSeq(p, 1, Len(q))
  BY <1>1, <1>2, <1>3, CutTwice
<1>6. q = SubSeq(p, 1, Len(q))
  BY <1>4, <1>5, CutAll
<1> QED
  BY <1>3, <1>6, Zenon DEF PathPrefixes

LEMMA NextOnPath ==
    ASSUME NEW p \in Seq(Level), NEW k \in 1..Len(p), k + 1 \in 1..Len(p)
    PROVE  LET q == SubSeq(p, 1, k)
               z == SubSeq(p, 1, k + 1)
           IN  Len(z) = Len(q) + 1 /\ IsPrefix(q, z)
<1> DEFINE q == SubSeq(p, 1, k)
           z == SubSeq(p, 1, k + 1)
<1>0. Len(p) \in Nat /\ k \in 0..Len(p) /\ k + 1 \in 0..Len(p) /\ k \in 0..(k + 1)
  BY LenProperties
<1>1. q \in Seq(Level) /\ Len(q) = k /\ z \in Seq(Level) /\ Len(z) = k + 1
  BY <1>0, Cut
<1>2. SubSeq(z, 1, k) = q
  BY <1>0, CutTwice
<1>3. SubSeq(q, 1, k) = q
  BY <1>1, CutAll
<1> HIDE DEF q, z
<1>4. Len(z) = Len(q) + 1 /\ IsPrefix(q, z)
  BY <1>0, <1>1, <1>2, <1>3 DEF IsPrefix
<1> QED
  BY <1>4 DEF q, z
----------------------------------------------------------------------------
(* The operations on the tree.                                             *)

LEMMA PruneKeeps ==
    ASSUME NEW L, NEW t \in Trees(L), Closed(t), NEW p \in DOMAIN t,
           \A q \in DOMAIN t : q # p => Alive(t, q)
    PROVE  LET u == Prune(t, p)
           IN  u \in Trees(L) /\ Neat(u) /\ \A r \in Place : At(u, r) = At(t, r)
<1> DEFINE cut(n) == SubSeq(p, 1, n)
           kept(k) == ~IsEmptyNode(t[cut(k)]) \/ ~(Children(t, cut(k)) \subseteq PathPrefixes(p))
           gone(n) == \A k \in n..Len(p) : ~kept(k)
           R == {cut(n) : n \in {m \in 2..Len(p) : gone(m)}}
           u == Prune(t, p)
<1>0. /\ t \in [DOMAIN t -> Node(L)] /\ DOMAIN t \subseteq Seq(Level)
      /\ p \in Seq(Level) /\ p # <<>> /\ Len(p) \in Nat /\ PathPrefixes(p) \subseteq DOMAIN t
  <2>1. t \in [DOMAIN t -> Node(L)] /\ DOMAIN t \subseteq Seq(Level)
    BY TreesType
  <2>2. p \in Seq(Level) /\ p # <<>> /\ PathPrefixes(p) \subseteq DOMAIN t
    BY <2>1 DEF Closed
  <2> QED
    BY <2>1, <2>2, LenProperties
<1>1. u = [q \in DOMAIN t \ R |-> t[q]]
  BY DEF Prune
<1>2. DOMAIN u = DOMAIN t \ R /\ \A q \in DOMAIN u : u[q] = t[q]
  BY <1>1
<1> HIDE DEF u
<1>3. \A n \in 1..Len(p) : cut(n) \in Seq(Level) /\ Len(cut(n)) = n /\ cut(n) \in PathPrefixes(p)
  <2> SUFFICES ASSUME NEW n \in 1..Len(p)
               PROVE  cut(n) \in Seq(Level) /\ Len(cut(n)) = n /\ cut(n) \in PathPrefixes(p)
    OBVIOUS
  <2>1. n \in 0..Len(p)
    BY <1>0
  <2>2. cut(n) \in Seq(Level) /\ Len(cut(n)) = n
    BY <1>0, <2>1, Cut
  <2> QED
    BY <2>2 DEF PathPrefixes
<1>4. \A z : z \in R <=> \E n \in 2..Len(p) : z = cut(n) /\ gone(n)
  OBVIOUS
<1>5. \A q \in PathPrefixes(p) : \E n \in 1..Len(p) : q = cut(n)
  BY DEF PathPrefixes
<1>6. \A n \in 2..Len(p) : gone(n) => ~kept(n) /\ \A m \in n..Len(p) : gone(m)
  BY <1>0
<1>7. \A n \in 2..Len(p) : ~gone(n) => kept(n) \/ (n + 1 \in 2..Len(p) /\ ~gone(n + 1))
  BY <1>0
<1> HIDE DEF cut, R, gone
<1>8. R \subseteq PathPrefixes(p) /\ R \subseteq DOMAIN t
  <2>1. \A n \in 2..Len(p) : n \in 1..Len(p)
    BY <1>0
  <2> QED
    BY <1>0, <1>3, <1>4, <2>1
<1>9. \A n \in 2..Len(p) : cut(n) \in R <=> gone(n)
  <2> SUFFICES ASSUME NEW n \in 2..Len(p), cut(n) \in R PROVE gone(n)
    BY <1>4
  <2>1. PICK m \in 2..Len(p) : cut(n) = cut(m) /\ gone(m)
    BY <1>4
  <2>2. n \in 1..Len(p) /\ m \in 1..Len(p)
    BY <1>0
  <2>3. n = m
    BY <1>3, <2>1, <2>2
  <2> QED
    BY <2>1, <2>3
<1>10. \A q \in R : IsEmptyNode(t[q]) /\ Children(t, q) \subseteq PathPrefixes(p)
  BY <1>4, <1>6
<1>11. u \in Trees(L)
  <2>1. u \in [DOMAIN u -> Node(L)] /\ DOMAIN u \subseteq Seq(Level)
    BY <1>0, <1>1, <1>2
  <2> QED
    BY <2>1, TreesType
<1>12. ASSUME NEW r \in Place PROVE At(u, r) = At(t, r)
  <2>1. CASE r.path \in R
    <3>1. Members(t[r.path], r.share) = <<>>
      BY <1>10, <2>1 DEF IsEmptyNode, Members
    <3> QED
      BY <1>2, <2>1, <3>1 DEF At
  <2>2. CASE r.path \notin R
    BY <1>2, <2>2 DEF At
  <2> QED
    BY <2>1, <2>2
<1>13. ASSUME NEW q \in DOMAIN u PROVE PathPrefixes(q) \subseteq DOMAIN u
  <2>0. q \in DOMAIN t /\ q \notin R /\ q \in Seq(Level) /\ q # <<>> /\ PathPrefixes(q) \subseteq DOMAIN t
    BY <1>0, <1>2 DEF Closed
  <2>1. Len(q) \in Nat /\ Len(q) # 0
    BY <2>0, LenProperties, EmptySeq
  <2> DEFINE pre(n) == SubSeq(q, 1, n)
  <2>2. \A n \in 1..Len(q) : pre(n) \in DOMAIN t
    BY <2>0 DEF PathPrefixes
  <2>3. \A n \in 1..Len(q) : pre(n) \in Seq(Level) /\ Len(pre(n)) = n
    <3>1. \A n \in 1..Len(q) : n \in 0..Len(q)
      BY <2>1
    <3> QED
      BY <2>0, <3>1, Cut
  <2>4. pre(Len(q)) = q
    BY <2>0, CutAll
  <2>5. ASSUME NEW n \in 1..Len(q), pre(n) \in R PROVE FALSE
    <3> DEFINE Out == {m \in n..Len(q) : pre(m) \notin R}
    <3>1. Out \subseteq Nat /\ Len(q) \in Out
      <4>1. n..Len(q) \subseteq Nat /\ Len(q) \in n..Len(q)
        BY <2>1
      <4>2. pre(Len(q)) \notin R
        BY <2>0, <2>4
      <4> HIDE DEF pre
      <4> QED
        BY <4>1, <4>2
    <3>2. PICK m \in Out : \A k \in Out : m <= k
      <4> HIDE DEF Out
      <4> QED
        BY <3>1, CleanLoop!LeastNat
    <3>3. m \in n..Len(q) /\ pre(m) \notin R /\ m # n
      BY <2>5
    <3>4. m - 1 \in n..Len(q) /\ m - 1 \notin Out
      BY <2>1, <3>1, <3>2, <3>3
    <3>5. pre(m - 1) \in R
      BY <3>4
    <3> HIDE DEF Out
    <3>6. m - 1 \in 1..Len(q) /\ (m - 1) + 1 = m /\ m \in 1..Len(q)
      BY <2>1, <3>3, <3>4
    <3>7. Len(pre(m)) = Len(pre(m - 1)) + 1 /\ IsPrefix(pre(m - 1), pre(m))
      BY <2>0, <3>6, NextOnPath
    <3> HIDE DEF pre
    <3>8. pre(m) \in Children(t, pre(m - 1))
      BY <2>2, <3>6, <3>7 DEF Children
    <3>9. pre(m) \in PathPrefixes(p)
      BY <1>10, <3>5, <3>8
    <3>10. PICK a \in 1..Len(p) : pre(m) = cut(a)
      BY <1>5, <3>9
    <3>11. PICK b \in 2..Len(p) : pre(m - 1) = cut(b) /\ gone(b)
      BY <1>4, <3>5
    <3>12. a = m /\ b = m - 1
      <4>1. b \in 1..Len(p)
        BY <1>0
      <4> QED
        BY <1>3, <2>3, <3>6, <3>10, <3>11, <4>1
    <3>13. a \in b..Len(p) /\ a \in 2..Len(p)
      BY <1>0, <3>6, <3>12
    <3>14. gone(a)
      BY <1>6, <3>11, <3>13
    <3> QED
      BY <1>9, <3>3, <3>10, <3>13, <3>14
  <2> QED
    BY <1>2, <2>2, <2>5 DEF PathPrefixes
<1>14. Closed(u)
  <2>1. IsFiniteSet(DOMAIN u)
    BY <1>2, FS_Subset DEF Closed
  <2> QED
    BY <1>2, <1>13, <2>1 DEF Closed
<1>15. ASSUME NEW q \in DOMAIN u, Len(q) > 1
       PROVE  ~IsEmptyNode(u[q]) \/ Children(u, q) # {}
  <2>0. q \in DOMAIN t /\ q \notin R /\ q \in Seq(Level) /\ u[q] = t[q] /\ q # <<>>
    BY <1>0, <1>2 DEF Closed
  <2>1. \A z \in Children(t, q) : z \notin R => z \in Children(u, q)
    BY <1>2 DEF Children
  <2>2. CASE q \in PathPrefixes(p)
    <3>1. PICK k \in 1..Len(p) : q = cut(k)
      BY <1>5, <2>2
    <3>2. k \in 2..Len(p) /\ Len(q) = k
      BY <1>0, <1>3, <1>15, <3>1
    <3>3. ~gone(k)
      BY <1>9, <2>0, <3>1, <3>2
    <3>4. CASE kept(k)
      <4>1. ~IsEmptyNode(t[q]) \/ \E z \in Children(t, q) : z \notin PathPrefixes(p)
        BY <3>1, <3>4
      <4> QED
        BY <1>8, <2>0, <2>1, <4>1
    <3>5. CASE k + 1 \in 2..Len(p) /\ ~gone(k + 1)
      <4>1. cut(k + 1) \notin R /\ k + 1 \in 1..Len(p)
        BY <1>0, <1>9, <3>5
      <4>2. cut(k + 1) \in DOMAIN t
        BY <1>0, <1>3, <4>1
      <4>3. Len(cut(k + 1)) = Len(cut(k)) + 1 /\ IsPrefix(cut(k), cut(k + 1))
        BY <1>0, <4>1, NextOnPath DEF cut
      <4>4. cut(k + 1) \in Children(t, q)
        BY <3>1, <4>2, <4>3 DEF Children
      <4> QED
        BY <2>1, <4>1, <4>4
    <3> QED
      BY <1>7, <3>2, <3>3, <3>4, <3>5
  <2>3. CASE q \notin PathPrefixes(p)
    <3>1. q # p
      BY <1>0, <2>3, PrefixTypes
    <3>2. Alive(t, q)
      BY <2>0, <3>1
    <3>3. ASSUME NEW z \in Children(t, q) PROVE z \notin R
      <4>1. Len(z) = Len(q) + 1 /\ IsPrefix(q, z)
        BY DEF Children
      <4>2. z \notin PathPrefixes(p)
        BY <1>0, <2>0, <2>3, <4>1, ChildOnPath
      <4> QED
        BY <1>8, <4>2
    <3>4. ~IsEmptyNode(t[q]) \/ Children(t, q) # {}
      BY <1>15, <3>2 DEF Alive
    <3> QED
      BY <2>0, <2>1, <3>3, <3>4
  <2> QED
    BY <2>2, <2>3
<1>16. Neat(u)
  BY <1>14, <1>15 DEF Neat, Alive
<1> QED
  BY <1>11, <1>12, <1>16 DEF u

\* Another list at one place of the tree.
Put(t, r, leaves) == [t EXCEPT ![r.path] = WithMembers(@, r.share, leaves)]

LEMMA NewMembers ==
    ASSUME NEW L, NEW t \in Trees(L), Closed(t), NEW r \in Place, r.path \in DOMAIN t,
           NEW leaves \in Seq(L)
    PROVE  LET u == Put(t, r, leaves)
           IN  /\ u \in Trees(L) /\ Closed(u) /\ DOMAIN u = DOMAIN t
               /\ \A q \in DOMAIN t : q # r.path => (Alive(t, q) => Alive(u, q))
               /\ leaves # <<>> => Alive(u, r.path)
               /\ \A x \in Place : At(u, x) = IF x = r THEN leaves ELSE At(t, x)
<1> DEFINE p == r.path
           new == WithMembers(t[p], r.share, leaves)
           u == Put(t, r, leaves)
<1>0. t \in [DOMAIN t -> Node(L)] /\ DOMAIN t \subseteq Seq(Level)
  BY TreesType
<1>1. r.share \in Level /\ t[p] \in Node(L) /\ Tidy(t[p])
  BY <1>0 DEF Place, Closed
<1>2. /\ new \in Node(L) /\ Tidy(new)
      /\ \A h \in Level : Members(new, h) = IF h = r.share THEN leaves ELSE Members(t[p], h)
      /\ leaves # <<>> => ~IsEmptyNode(new)
  BY <1>1, WithMembersKeeps
<1>3. /\ u \in [DOMAIN t -> Node(L)] /\ DOMAIN u = DOMAIN t /\ u[p] = new
      /\ \A q \in DOMAIN t : q # p => u[q] = t[q]
  <2> HIDE DEF new
  <2>1. u = [t EXCEPT ![p] = new]
    BY DEF new, Put
  <2> HIDE DEF u
  <2> QED
    BY <1>0, <1>2, <2>1
<1> HIDE DEF new, u
<1>4. u \in Trees(L)
  BY <1>0, <1>3, TreesType
<1>5. Closed(u)
  BY <1>2, <1>3 DEF Closed
<1>6. \A q : Children(u, q) = Children(t, q)
  BY <1>3 DEF Children
<1>7. \A q \in DOMAIN t : q # p => (Alive(t, q) => Alive(u, q))
  BY <1>3, <1>6 DEF Alive
<1>8. leaves # <<>> => Alive(u, p)
  BY <1>2, <1>3 DEF Alive
<1>9. ASSUME NEW x \in Place PROVE At(u, x) = IF x = r THEN leaves ELSE At(t, x)
  <2>1. x = r <=> x.path = p /\ x.share = r.share
    BY DEF Place
  <2>2. x.share \in Level
    BY DEF Place
  <2>3. CASE x.path = p
    BY <1>2, <1>3, <2>1, <2>2, <2>3 DEF At
  <2>4. CASE x.path # p
    BY <1>3, <2>1, <2>4 DEF At
  <2> QED
    BY <2>3, <2>4
<1> QED
  BY <1>3, <1>4, <1>5, <1>7, <1>8, <1>9 DEF u

\* The leaf of c at one place goes (sub__remove, sub__clean_session).
LEMMA RemoveLeafKeeps ==
    ASSUME NEW L, NEW t \in Trees(L), Neat(t), NEW r \in Place, r.path \in DOMAIN t,
           NEW c, \A x \in Place : OneEach(At(t, x))
    PROVE  LET u == RemoveLeaf(t, r.path, r.share, c)
           IN  /\ u \in Trees(L) /\ Neat(u)
               /\ \A x \in Place : /\ OneEach(At(u, x))
                                   /\ Holders(At(u, x)) = Holders(At(t, x)) \ (IF x = r THEN {c} ELSE {})
<1> DEFINE p == r.path
           old == Members(t[p], r.share)
           left == Left(old, c)
           v == Put(t, r, left)
           u == Prune(v, p)
<1>0. t \in [DOMAIN t -> Node(L)] /\ t[p] \in Node(L)
  BY TreesType
<1>1. old = At(t, r) /\ old \in Seq(L) /\ OneEach(old)
  <2>1. old = At(t, r)
    BY DEF At
  <2>2. old \in Seq(L)
    BY <1>0, MembersType
  <2> QED
    BY <2>1, <2>2
<1>2. left \in Seq(L) /\ OneEach(left) /\ Holders(left) = Holders(old) \ {c}
  <2> HIDE DEF old
  <2> QED
    BY <1>1, RemoveLeafOf
<1>3. RemoveLeaf(t, r.path, r.share, c) = u
  BY DEF RemoveLeaf, Left, Put
<1> HIDE DEF old, left
<1>4. /\ v \in Trees(L) /\ Closed(v) /\ DOMAIN v = DOMAIN t
      /\ \A q \in DOMAIN t : q # p => (Alive(t, q) => Alive(v, q))
      /\ \A x \in Place : At(v, x) = IF x = r THEN left ELSE At(t, x)
  BY <1>2, NewMembers DEF Neat
<1> HIDE DEF v
<1>5. p \in DOMAIN v /\ \A q \in DOMAIN v : q # p => Alive(v, q)
  BY <1>4 DEF Neat
<1>6. u \in Trees(L) /\ Neat(u) /\ \A x \in Place : At(u, x) = At(v, x)
  BY <1>4, <1>5, PruneKeeps
<1> HIDE DEF u
<1>7. ASSUME NEW x \in Place
      PROVE  /\ OneEach(At(u, x))
             /\ Holders(At(u, x)) = Holders(At(t, x)) \ (IF x = r THEN {c} ELSE {})
  <2>1. At(u, x) = IF x = r THEN left ELSE At(t, x)
    BY <1>4, <1>6
  <2> QED
    BY <1>1, <1>2, <2>1
<1> QED
  BY <1>3, <1>6, <1>7

\* The loop of sub__clean_session over the places in S, at all of which c has a leaf.
Cleaned(t, S, c) == FoldSet(LAMBDA s, tree : RemoveLeaf(tree, s.path, s.share, c), t, S)

LEMMA CleanKeeps ==
    ASSUME NEW L, NEW t \in Trees(L), Neat(t), NEW c, NEW S \in SUBSET Place, IsFiniteSet(S),
           \A x \in Place : OneEach(At(t, x)),
           \A x \in S : c \in Holders(At(t, x))
    PROVE  LET u == Cleaned(t, S, c)
           IN  /\ u \in Trees(L) /\ Neat(u)
               /\ \A x \in Place : /\ OneEach(At(u, x))
                                   /\ Holders(At(u, x)) = Holders(At(t, x)) \ (IF x \in S THEN {c} ELSE {})
<1> DEFINE e == [L |-> L, tree |-> t, c |-> c]
           u == Cleaned(t, S, c)
<1>0. e.L = L /\ e.tree = t /\ e.c = c
  OBVIOUS
<1>1. u = CleanLoop!OverSet(e, t, S)
  BY <1>0 DEF Cleaned, CleanLoop!OverSet, FoldSet, CleanLoop!FoldSet, MapThenFoldSet, CleanLoop!MapThenFoldSet
<1> HIDE DEF e, u
<1>2. CleanInv(e, {}, t)
  BY <1>0 DEF CleanInv
<1>3. ASSUME NEW w \in SUBSET S, NEW r \in S, NEW d, r \notin w, CleanInv(e, w, d)
      PROVE  CleanInv(e, w \cup {r}, RemoveLeaf(d, r.path, r.share, e.c))
  <2>1. /\ d \in Trees(L) /\ Neat(d) /\ r \in Place
        /\ \A x \in Place : OneEach(At(d, x)) /\ Holders(At(d, x)) = Holders(At(t, x)) \ (IF x \in w THEN {c} ELSE {})
    BY <1>0, <1>3 DEF CleanInv
  <2>2. c \in Holders(At(d, r))
    BY <1>3, <2>1
  <2>3. r.path \in DOMAIN d
    <3>1. SUFFICES ASSUME r.path \notin DOMAIN d PROVE FALSE
      OBVIOUS
    <3>2. At(d, r) = <<>>
      BY <3>1 DEF At
    <3> QED
      BY <2>2, <3>2 DEF Holders
  <2> DEFINE v == RemoveLeaf(d, r.path, r.share, c)
  <2>4. /\ v \in Trees(L) /\ Neat(v)
        /\ \A x \in Place : /\ OneEach(At(v, x))
                            /\ Holders(At(v, x)) = Holders(At(d, x)) \ (IF x = r THEN {c} ELSE {})
    BY <2>1, <2>3, RemoveLeafKeeps
  <2>5. RemoveLeaf(d, r.path, r.share, e.c) = v
    BY <1>0
  <2> HIDE DEF v
  <2>6. \A x \in Place : Holders(At(v, x)) = Holders(At(t, x)) \ (IF x \in w \cup {r} THEN {c} ELSE {})
    <3> SUFFICES ASSUME NEW x \in Place
                 PROVE  Holders(At(v, x)) = Holders(At(t, x)) \ (IF x \in w \cup {r} THEN {c} ELSE {})
      OBVIOUS
    <3>1. /\ Holders(At(v, x)) = Holders(At(d, x)) \ (IF x = r THEN {c} ELSE {})
          /\ Holders(At(d, x)) = Holders(At(t, x)) \ (IF x \in w THEN {c} ELSE {})
      BY <2>1, <2>4
    <3>2. CASE x = r
      BY <3>1, <3>2
    <3>3. CASE x # r
      BY <3>1, <3>3
    <3> QED
      BY <3>2, <3>3
  <2> QED
    BY <1>0, <2>4, <2>5, <2>6 DEF CleanInv
<1>4. \A w \in SUBSET S, r \in S : \A d :
          r \notin w /\ CleanInv(e, w, d) => CleanInv(e, w \cup {r}, RemoveLeaf(d, r.path, r.share, e.c))
  BY <1>3
<1>5. CleanInv(e, S, u)
  <2>1. CleanLoop!IsFiniteSet(S)
    BY DEF IsFiniteSet, CleanLoop!IsFiniteSet
  <2> QED
    BY <1>1, <1>2, <1>4, <2>1, CleanLoop!SetLoop
<1>6. u \in Trees(L) /\ Neat(u) /\ \A x \in Place : /\ OneEach(At(u, x))
          /\ Holders(At(u, x)) = Holders(At(t, x)) \ (IF x \in S THEN {c} ELSE {})
  BY <1>0, <1>5 DEF CleanInv
<1> QED
  BY <1>6 DEF u

LEMMA AddPathKeeps ==
    ASSUME NEW L, NEW t \in Trees(L), Neat(t), NEW p \in Seq(Level), p # <<>>
    PROVE  LET u == AddPath(t, p)
           IN  /\ u \in Trees(L) /\ Closed(u) /\ p \in DOMAIN u
               /\ \A q \in DOMAIN u : q # p => Alive(u, q)
               /\ \A r \in Place : At(u, r) = At(t, r)
<1> DEFINE u == AddPath(t, p)
<1>0. t \in [DOMAIN t -> Node(L)] /\ DOMAIN t \subseteq Seq(Level) /\ Len(p) \in Nat
  BY TreesType, LenProperties
<1>1. /\ DOMAIN u = DOMAIN t \cup PathPrefixes(p)
      /\ u = [q \in DOMAIN u |-> u[q]]
      /\ \A q \in DOMAIN u : u[q] = IF q \in DOMAIN t THEN t[q] ELSE EmptyNode
  BY DEF AddPath
<1> HIDE DEF u
<1>2. /\ PathPrefixes(p) \subseteq Seq(Level) /\ <<>> \notin PathPrefixes(p) /\ p \in PathPrefixes(p)
      /\ IsFiniteSet(PathPrefixes(p))
      /\ \A q \in PathPrefixes(p) : PathPrefixes(q) \subseteq PathPrefixes(p)
  BY PrefixTypes, PrefixFinite, PrefixOfPrefix
<1>3. EmptyNode \in Node(L) /\ Tidy(EmptyNode) /\ \A h : Members(EmptyNode, h) = <<>>
  BY EmptyNodeType
<1>4. u \in Trees(L)
  <2>1. u \in [DOMAIN u -> Node(L)] /\ DOMAIN u \subseteq Seq(Level)
    BY <1>0, <1>1, <1>2, <1>3
  <2> QED
    BY <2>1, TreesType
<1>5. Closed(u)
  <2>1. IsFiniteSet(DOMAIN u)
    <3> DEFINE A == DOMAIN t
               B == PathPrefixes(p)
    <3>1. IsFiniteSet(A) /\ IsFiniteSet(B)
      BY <1>2 DEF Neat, Closed
    <3> HIDE DEF A, B
    <3>2. IsFiniteSet(A \cup B)
      BY <3>1, FS_Union
    <3> QED
      BY <1>1, <3>2 DEF A, B
  <2>2. <<>> \notin DOMAIN u
    BY <1>1, <1>2 DEF Neat, Closed
  <2>3. ASSUME NEW q \in DOMAIN u PROVE PathPrefixes(q) \subseteq DOMAIN u /\ Tidy(u[q])
    BY <1>1, <1>2, <1>3 DEF Neat, Closed
  <2> QED
    BY <2>1, <2>2, <2>3 DEF Closed
<1>6. ASSUME NEW q \in DOMAIN u, q # p PROVE Alive(u, q)
  <2>1. CASE q \in DOMAIN t
    <3>1. Alive(t, q) /\ u[q] = t[q]
      BY <1>1, <2>1 DEF Neat
    <3>2. Children(t, q) \subseteq Children(u, q)
      BY <1>1 DEF Children
    <3> QED
      BY <3>1, <3>2 DEF Alive
  <2>2. CASE q \notin DOMAIN t
    <3>1. PICK n \in 1..Len(p) : q = SubSeq(p, 1, n)
      BY <1>1, <2>2 DEF PathPrefixes
    <3>2. n # Len(p)
      BY <1>6, <3>1, CutAll
    <3>3. n + 1 \in 1..Len(p)
      BY <1>0, <3>2
    <3> DEFINE z == SubSeq(p, 1, n + 1)
    <3>4. Len(z) = Len(q) + 1 /\ IsPrefix(q, z)
      BY <3>1, <3>3, NextOnPath
    <3>5. z \in DOMAIN u
      BY <1>1, <3>3 DEF PathPrefixes
    <3> HIDE DEF z
    <3>6. z \in Children(u, q)
      BY <3>4, <3>5 DEF Children
    <3> QED
      BY <3>6 DEF Alive
  <2> QED
    BY <2>1, <2>2
<1>7. ASSUME NEW r \in Place PROVE At(u, r) = At(t, r)
  BY <1>1, <1>3 DEF At
<1> QED
  BY <1>1, <1>2, <1>4, <1>5, <1>6, <1>7 DEF u

\* sub__add: the place of the filter gets a leaf of this context, unless it has one.
LEMMA SubAddKeeps ==
    ASSUME NEW L, NEW t \in Trees(L), Neat(t), NEW filter, NEW leaf \in L, NEW id,
           NEW r \in Place, r.path = Path(Tokenise(filter).topics), r.share = Tokenise(filter).share,
           r.path # <<>>, \A x \in Place : OneEach(At(t, x)),
           \A x \in Holders(At(t, r)) : id[x] = id[leaf.context] => x = leaf.context
    PROVE  LET u == SubAdd(t, filter, leaf, id)
           IN  /\ u \in Trees(L) /\ Neat(u)
               /\ \A x \in Place : /\ OneEach(At(u, x))
                                   /\ Holders(At(u, x)) =
                                        Holders(At(t, x)) \cup (IF x = r THEN {leaf.context} ELSE {})
<1> DEFINE v == AddPath(t, r.path)
           old == Members(v[r.path], r.share)
           leaves == AddLeaf(old, leaf, id)
           u == Put(v, r, leaves)
<1>0. r.path \in Seq(Level)
  BY DEF Place
<1>1. SubAdd(t, filter, leaf, id) = u
  BY DEF SubAdd, Put
<1>2. /\ v \in Trees(L) /\ Closed(v) /\ r.path \in DOMAIN v
      /\ \A q \in DOMAIN v : q # r.path => Alive(v, q)
      /\ \A x \in Place : At(v, x) = At(t, x)
  BY <1>0, AddPathKeeps
<1> HIDE DEF v
<1>3. old = At(t, r) /\ old \in Seq(L) /\ OneEach(old)
  <2>1. old = At(v, r)
    BY <1>2 DEF At
  <2>2. v[r.path] \in Node(L)
    BY <1>2, TreesType
  <2>3. old \in Seq(L)
    BY <2>2, MembersType
  <2> QED
    BY <1>2, <2>1, <2>3
<1>4. leaves \in Seq(L) /\ OneEach(leaves) /\ Holders(leaves) = Holders(old) \cup {leaf.context}
  <2> HIDE DEF old
  <2>1. CASE \E i \in DOMAIN old : id[old[i].context] = id[leaf.context]
    <3>1. leaves = old
      BY <2>1 DEF AddLeaf
    <3>2. PICK i \in DOMAIN old : id[old[i].context] = id[leaf.context]
      BY <2>1
    <3>3. old[i].context \in Holders(old)
      BY DEF Holders
    <3>4. leaf.context \in Holders(old)
      BY <1>3, <3>2, <3>3
    <3> QED
      BY <1>3, <3>1, <3>4
  <2>2. CASE ~\E i \in DOMAIN old : id[old[i].context] = id[leaf.context]
    <3>1. leaves = Append(old, leaf)
      BY <2>2 DEF AddLeaf
    <3>2. leaf.context \notin Holders(old)
      BY <2>2 DEF Holders
    <3> QED
      BY <1>3, <3>1, <3>2, AppendLeaf
  <2> QED
    BY <2>1, <2>2
<1> HIDE DEF old, leaves
<1>5. leaves # <<>>
  <2>1. leaf.context \in Holders(leaves)
    BY <1>4
  <2> QED
    BY <2>1 DEF Holders
<1>6. /\ u \in Trees(L) /\ Closed(u) /\ DOMAIN u = DOMAIN v
      /\ \A q \in DOMAIN v : q # r.path => (Alive(v, q) => Alive(u, q))
      /\ leaves # <<>> => Alive(u, r.path)
      /\ \A x \in Place : At(u, x) = IF x = r THEN leaves ELSE At(v, x)
  <2>1. v \in Trees(L) /\ Closed(v) /\ r.path \in DOMAIN v /\ leaves \in Seq(L)
    BY <1>2, <1>4
  <2> QED
    BY <2>1, NewMembers
<1> HIDE DEF u
<1>7. Neat(u)
  BY <1>2, <1>5, <1>6 DEF Neat
<1>8. ASSUME NEW x \in Place
      PROVE  /\ OneEach(At(u, x))
             /\ Holders(At(u, x)) = Holders(At(t, x)) \cup (IF x = r THEN {leaf.context} ELSE {})
  <2>1. At(u, x) = IF x = r THEN leaves ELSE At(t, x)
    BY <1>2, <1>6
  <2> QED
    BY <1>3, <1>4, <2>1
<1> QED
  BY <1>1, <1>6, <1>7, <1>8

\* A change of nodes that leaves an empty node empty and no other.
LEMMA SameNodes ==
    ASSUME NEW L, NEW t \in Trees(L), Neat(t), NEW u, u = [p \in DOMAIN t |-> u[p]],
           \A p \in DOMAIN t : u[p] \in Node(L) /\ Tidy(u[p]) /\ (IsEmptyNode(u[p]) => IsEmptyNode(t[p]))
    PROVE  u \in Trees(L) /\ Neat(u) /\ DOMAIN u = DOMAIN t
<1>0. t \in [DOMAIN t -> Node(L)] /\ DOMAIN t \subseteq Seq(Level)
  BY TreesType
<1> DEFINE D == DOMAIN t
<1>1a. u = [p \in D |-> u[p]] /\ \A p \in D : u[p] \in Node(L)
  OBVIOUS
<1> HIDE DEF D
<1>1b. DOMAIN u = D /\ u \in [D -> Node(L)]
  BY <1>1a
<1>1. DOMAIN u = DOMAIN t /\ u \in [DOMAIN u -> Node(L)]
  BY <1>1b DEF D
<1>2. u \in Trees(L)
  BY <1>0, <1>1, TreesType
<1>3. Closed(u)
  BY <1>1 DEF Neat, Closed
<1>4. \A p : Children(u, p) = Children(t, p)
  BY <1>1 DEF Children
<1>5. \A p \in DOMAIN u : Alive(u, p)
  BY <1>1, <1>4 DEF Neat, Alive
<1> QED
  BY <1>1, <1>2, <1>3, <1>5 DEF Neat

\* subs__shared_process: the same leaves, in another order.
LEMMA RotateKeeps ==
    ASSUME NEW L, NEW t \in Trees(L), Neat(t), NEW topic, \A x \in Place : OneEach(At(t, x))
    PROVE  LET u == RotateShares(t, topic)
           IN  /\ u \in Trees(L) /\ Neat(u)
               /\ \A x \in Place : OneEach(At(u, x)) /\ Holders(At(u, x)) = Holders(At(t, x))
<1> DEFINE found == SubSearch(t, topic)
           turn(z) == [g \in DOMAIN z |-> Append(Tail(z[g]), Head(z[g]))]
           u == RotateShares(t, topic)
<1>0. t \in [DOMAIN t -> Node(L)] /\ DOMAIN t \subseteq Seq(Level)
  BY TreesType
<1>1. u = [p \in DOMAIN t |-> IF p \in found THEN [t[p] EXCEPT !.shared = turn(t[p].shared)] ELSE t[p]]
  BY DEF RotateShares
<1> HIDE DEF found
<1>2. /\ DOMAIN u = DOMAIN t /\ u = [p \in DOMAIN t |-> u[p]]
      /\ \A p \in DOMAIN t : u[p] = IF p \in found THEN [t[p] EXCEPT !.shared = turn(t[p].shared)] ELSE t[p]
  BY <1>1
<1> HIDE DEF u
<1>3. ASSUME NEW p \in DOMAIN t
      PROVE  /\ u[p] \in Node(L) /\ Tidy(u[p]) /\ (IsEmptyNode(u[p]) => IsEmptyNode(t[p]))
             /\ \A h \in Level : /\ OneEach(Members(u[p], h))
                                  /\ Holders(Members(u[p], h)) = Holders(Members(t[p], h))
  <2> DEFINE node == t[p]
             z == turn(node.shared)
  <2>0. /\ node \in Node(L) /\ Tidy(node) /\ p \in Seq(Level)
        /\ node.subs \in Seq(L) /\ node.shared \in Shares(L)
        /\ node = [subs |-> node.subs, shared |-> node.shared]
    BY <1>0 DEF Neat, Closed, Node
  <2>1. \A h \in Level : OneEach(Members(node, h))
    <3> SUFFICES ASSUME NEW h \in Level PROVE OneEach(Members(node, h))
      OBVIOUS
    <3> DEFINE x == [path |-> p, share |-> h]
    <3>1. x \in Place /\ x.path = p /\ x.share = h
      BY <2>0 DEF Place
    <3> HIDE DEF x
    <3>2. OneEach(At(t, x)) /\ At(t, x) = Members(node, h)
      BY <3>1 DEF At
    <3> QED
      BY <3>2
  <2>2. CASE p \notin found
    <3>1. u[p] = node
      BY <1>2, <2>2
    <3> QED
      BY <2>0, <2>1, <3>1
  <2>3. CASE p \in found
    <3>0. u[p] = [node EXCEPT !.shared = z]
      BY <1>2, <2>3
    <3> HIDE DEF node
    <3>1. u[p] = [subs |-> node.subs, shared |-> z]
      BY <2>0, <3>0
    <3>2. u[p].subs = node.subs /\ u[p].shared = z
      BY <3>1
    <3>3. node.shared \in [DOMAIN node.shared -> Seq(L)] /\ DOMAIN node.shared \subseteq Level
      BY <2>0, SharesType
    <3>4. DOMAIN z = DOMAIN node.shared /\ z = [g \in DOMAIN z |-> z[g]]
      OBVIOUS
    <3>5. ASSUME NEW g \in DOMAIN node.shared
          PROVE  z[g] \in Seq(L) /\ z[g] # <<>> /\ OneEach(z[g]) /\ Holders(z[g]) = Holders(node.shared[g])
      <4>1. node.shared[g] \in Seq(L) /\ node.shared[g] # <<>> /\ g # NoShare /\ g \in Level
        BY <2>0, <3>3 DEF Tidy
      <4>2. OneEach(node.shared[g])
        <5>1. Members(node, g) = node.shared[g]
          BY <4>1 DEF Members
        <5> QED
          BY <2>1, <4>1, <5>1
      <4>3. z[g] = Append(Tail(node.shared[g]), Head(node.shared[g]))
        OBVIOUS
      <4> HIDE DEF z
      <4> QED
        BY <4>1, <4>2, <4>3, TurnLeaves
    <3> HIDE DEF z
    <3>6. z \in Shares(L)
      <4>1. z \in [DOMAIN z -> Seq(L)]
        BY <3>4, <3>5
      <4> QED
        BY <3>3, <3>4, <4>1, SharesType
    <3>7. u[p] \in Node(L)
      BY <2>0, <3>1, <3>6 DEF Node
    <3>8. Tidy(u[p])
      BY <2>0, <3>2, <3>4, <3>5 DEF Tidy
    <3>9. IsEmptyNode(u[p]) => IsEmptyNode(node)
      BY <3>2, <3>4 DEF IsEmptyNode
    <3>10. ASSUME NEW h \in Level
           PROVE  /\ OneEach(Members(u[p], h))
                  /\ Holders(Members(u[p], h)) = Holders(Members(node, h))
      <4>1. CASE h = NoShare
        BY <2>1, <3>2, <4>1 DEF Members
      <4>2. CASE h # NoShare /\ h \in DOMAIN node.shared
        BY <3>2, <3>4, <3>5, <4>2 DEF Members
      <4>3. CASE h # NoShare /\ h \notin DOMAIN node.shared
        <5>1. Members(u[p], h) = <<>> /\ Members(node, h) = <<>>
          BY <3>2, <3>4, <4>3 DEF Members
        <5> QED
          BY <2>1, <5>1
      <4> QED
        BY <4>1, <4>2, <4>3
    <3> QED
      BY <3>7, <3>8, <3>9, <3>10 DEF node
  <2> QED
    BY <2>2, <2>3
<1>4. u \in Trees(L) /\ Neat(u)
  BY <1>2, <1>3, SameNodes
<1>5. ASSUME NEW x \in Place
      PROVE  OneEach(At(u, x)) /\ Holders(At(u, x)) = Holders(At(t, x))
  <2>1. x.share \in Level
    BY DEF Place
  <2>2. CASE x.path \in DOMAIN t
    BY <1>2, <1>3, <2>1, <2>2 DEF At
  <2>3. CASE x.path \notin DOMAIN t
    <3>1. At(u, x) = At(t, x)
      BY <1>2, <2>3 DEF At
    <3> QED
      BY <3>1
  <2> QED
    BY <2>2, <2>3
<1> QED
  BY <1>4, <1>5 DEF u

\* What the resumption of a session makes of the tree.
HandOver(t, moved, c, f) ==
    [p \in DOMAIN t |-> IF \E s \in moved : s.path = p THEN [t[p] EXCEPT !.subs = Take(@, c, f)] ELSE t[p]]

LEMMA HandOverKeeps ==
    ASSUME NEW L, NEW t \in Trees(L), Neat(t), NEW c, NEW f, NEW moved \in SUBSET Place,
           \A s \in moved : s.share = NoShare /\ f \in Holders(At(t, s)),
           \A x \in Place : OneEach(At(t, x)) /\ c \notin Holders(At(t, x)),
           Renames(L, c)
    PROVE  LET u == HandOver(t, moved, c, f)
           IN  /\ u \in Trees(L) /\ Neat(u)
               /\ \A x \in Place : /\ OneEach(At(u, x))
                                   /\ Holders(At(u, x)) =
                                        IF x \in moved THEN (Holders(At(t, x)) \ {f}) \cup {c} ELSE Holders(At(t, x))
<1> DEFINE u == HandOver(t, moved, c, f)
           here(p) == \E s \in moved : s.path = p
<1>0. t \in [DOMAIN t -> Node(L)] /\ DOMAIN t \subseteq Seq(Level) /\ NoShare \in Level
  <2>1. NoShare \in Level
    BY DEF Level
  <2> QED
    BY <2>1, TreesType
<1>1. u = [p \in DOMAIN t |-> IF here(p) THEN [t[p] EXCEPT !.subs = Take(t[p].subs, c, f)] ELSE t[p]]
  BY DEF HandOver
<1>2. /\ DOMAIN u = DOMAIN t /\ u = [p \in DOMAIN t |-> u[p]]
      /\ \A p \in DOMAIN t : u[p] = IF here(p) THEN [t[p] EXCEPT !.subs = Take(t[p].subs, c, f)] ELSE t[p]
  BY <1>1
<1> HIDE DEF u
<1>3. ASSUME NEW x \in Place PROVE x \in moved <=> x.share = NoShare /\ here(x.path)
  <2>1. ASSUME x.share = NoShare, NEW s \in moved, s.path = x.path PROVE x = s
    BY <2>1 DEF Place
  <2> QED
    BY <2>1
<1> HIDE DEF here
<1>4. ASSUME NEW p \in DOMAIN t, here(p)
      PROVE  LET s == Take(t[p].subs, c, f)
             IN  /\ u[p] \in Node(L) /\ u[p].subs = s /\ u[p].shared = t[p].shared
                 /\ s # <<>> /\ OneEach(s) /\ Holders(s) = (Holders(t[p].subs) \ {f}) \cup {c}
  <2> DEFINE node == t[p]
             s == Take(node.subs, c, f)
             x == [path |-> p, share |-> NoShare]
  <2>0. /\ node \in Node(L) /\ p \in Seq(Level)
        /\ node.subs \in Seq(L) /\ node.shared \in Shares(L)
        /\ node = [subs |-> node.subs, shared |-> node.shared]
    BY <1>0 DEF Node
  <2>1. x \in Place /\ x.path = p /\ x.share = NoShare
    BY <1>0, <2>0 DEF Place
  <2> HIDE DEF x
  <2>2. x \in moved
    BY <1>3, <1>4, <2>1
  <2>3. At(t, x) = node.subs
    BY <2>1 DEF At, Members
  <2>4. f \in Holders(node.subs) /\ OneEach(node.subs) /\ c \notin Holders(node.subs)
    BY <2>1, <2>2, <2>3
  <2>5. u[p] = [node EXCEPT !.subs = s]
    BY <1>2, <1>4
  <2> HIDE DEF node
  <2>6. /\ s \in Seq(L) /\ OneEach(s)
        /\ Holders(s) = (Holders(node.subs) \ {f}) \cup (IF f \in Holders(node.subs) THEN {c} ELSE {})
    <3>1. node.subs \in Seq(L)
      BY <2>0
    <3> QED
      BY <2>4, <3>1, TakeLeaves
  <2> HIDE DEF s
  <2>7. u[p] = [subs |-> s, shared |-> node.shared]
    BY <2>0, <2>5
  <2>8. u[p].subs = s /\ u[p].shared = node.shared /\ u[p] \in Node(L)
    BY <2>0, <2>6, <2>7 DEF Node
  <2>9. s # <<>>
    <3>1. c \in Holders(s)
      BY <2>4, <2>6
    <3> QED
      BY <3>1 DEF Holders
  <2> QED
    BY <2>4, <2>6, <2>8, <2>9 DEF node, s
<1>5. ASSUME NEW p \in DOMAIN t, ~here(p) PROVE u[p] = t[p]
  BY <1>2, <1>5
<1>6. ASSUME NEW p \in DOMAIN t
      PROVE  u[p] \in Node(L) /\ Tidy(u[p]) /\ (IsEmptyNode(u[p]) => IsEmptyNode(t[p]))
  <2>0. t[p] \in Node(L) /\ Tidy(t[p])
    BY <1>0 DEF Neat, Closed
  <2>1. CASE here(p)
    <3>1. u[p] \in Node(L) /\ u[p].subs # <<>> /\ u[p].shared = t[p].shared
      BY <1>4, <2>1
    <3> QED
      BY <2>0, <3>1 DEF Tidy, IsEmptyNode
  <2>2. CASE ~here(p)
    BY <1>5, <2>0, <2>2
  <2> QED
    BY <2>1, <2>2
<1>7. u \in Trees(L) /\ Neat(u)
  BY <1>2, <1>6, SameNodes
<1>8. ASSUME NEW x \in Place
      PROVE  /\ OneEach(At(u, x))
             /\ Holders(At(u, x)) =
                  IF x \in moved THEN (Holders(At(t, x)) \ {f}) \cup {c} ELSE Holders(At(t, x))
  <2> DEFINE p == x.path
  <2>0. OneEach(At(t, x))
    OBVIOUS
  <2>1. CASE p \notin DOMAIN t
    <3>1. At(u, x) = At(t, x) /\ At(t, x) = <<>>
      BY <1>2, <2>1 DEF At
    <3>2. Holders(At(t, x)) = {}
      BY <3>1 DEF Holders
    <3>3. x \notin moved
      BY <3>2
    <3> QED
      BY <2>0, <3>1, <3>3
  <2>2. CASE p \in DOMAIN t /\ ~here(p)
    <3>1. At(u, x) = At(t, x)
      BY <1>2, <1>5, <2>2 DEF At
    <3> QED
      BY <1>3, <2>0, <2>2, <3>1
  <2>3. CASE p \in DOMAIN t /\ here(p) /\ x.share # NoShare
    <3>1. u[p].shared = t[p].shared
      BY <1>4, <2>3
    <3>2. At(u, x) = At(t, x)
      BY <1>2, <2>3, <3>1 DEF At, Members
    <3> QED
      BY <1>3, <2>0, <2>3, <3>2
  <2>4. CASE p \in DOMAIN t /\ here(p) /\ x.share = NoShare
    <3> DEFINE s == Take(t[p].subs, c, f)
    <3>1. u[p].subs = s /\ OneEach(s) /\ Holders(s) = (Holders(t[p].subs) \ {f}) \cup {c}
      BY <1>4, <2>4
    <3> HIDE DEF s
    <3>2. At(u, x) = s /\ At(t, x) = t[p].subs
      BY <1>2, <2>4, <3>1 DEF At, Members
    <3> QED
      BY <1>3, <2>4, <3>1, <3>2
  <2> QED
    BY <2>1, <2>2, <2>3, <2>4
<1> QED
  BY <1>7, <1>8 DEF u

\* The tree a broker starts with.
LEMMA InitialTreeKeeps ==
    ASSUME NEW L
    PROVE  /\ InitialTree \in Trees(L) /\ Neat(InitialTree)
           /\ \A x \in Place : OneEach(At(InitialTree, x)) /\ Holders(At(InitialTree, x)) = {}
<1> DEFINE t == InitialTree
           D == {<<"">>, <<"$SYS">>}
<1>0. EmptyNode \in Node(L) /\ Tidy(EmptyNode) /\ \A h : Members(EmptyNode, h) = <<>>
  BY EmptyNodeType
<1>1. DOMAIN t = D /\ t \in [D -> Node(L)] /\ \A p \in D : t[p] = EmptyNode
  BY <1>0 DEF InitialTree
<1> HIDE DEF t
<1>2. \A p \in D : p \in Seq(Level) /\ Len(p) = 1 /\ p # <<>>
  <2>1. "" \in Level /\ "$SYS" \in Level
    BY DEF Level
  <2>2. \A x \in Level : <<x>> \in Seq(Level) /\ Len(<<x>>) = 1 /\ <<x>> # <<>>
    <3> HIDE DEF D
    <3> QED
      OBVIOUS
  <2> QED
    BY <2>1, <2>2, Zenon
<1> HIDE DEF D
<1>3. ASSUME NEW p \in D PROVE PathPrefixes(p) \subseteq D
  <2>1. Len(p) = 1 /\ p \in Seq(Level) /\ SubSeq(p, 1, Len(p)) = p
    BY <1>2, CutAll
  <2>2. \A n \in 1..1 : n = 1
    OBVIOUS
  <2> QED
    BY <2>1, <2>2 DEF PathPrefixes
<1>4. IsFiniteSet(D)
  <2>1. IsFiniteSet({<<"">>}) /\ IsFiniteSet({<<"$SYS">>})
    BY FS_Singleton, Zenon
  <2>2. IsFiniteSet({<<"">>} \cup {<<"$SYS">>})
    BY <2>1, FS_Union, Zenon
  <2>3. D = {<<"">>} \cup {<<"$SYS">>}
    BY DEF D
  <2> QED
    BY <2>2, <2>3, Zenon
<1>5. t \in Trees(L)
  <2>1. t \in [DOMAIN t -> Node(L)] /\ DOMAIN t \subseteq Seq(Level)
    BY <1>1, <1>2
  <2> QED
    BY <2>1, TreesType
<1>6. Neat(t)
  <2>1. Closed(t)
    BY <1>0, <1>1, <1>2, <1>3, <1>4 DEF Closed
  <2>2. ASSUME NEW p \in DOMAIN t PROVE Alive(t, p)
    <3>1. Len(p) = 1
      BY <1>1, <1>2
    <3>2. ~(Len(p) > 1)
      BY <3>1
    <3> QED
      BY <3>2 DEF Alive
  <2> QED
    BY <2>1, <2>2 DEF Neat
<1>7. ASSUME NEW x \in Place PROVE OneEach(At(t, x)) /\ Holders(At(t, x)) = {}
  <2>1. At(t, x) = <<>>
    BY <1>0, <1>1 DEF At
  <2> QED
    BY <2>1 DEF OneEach, Holders
<1> QED
  BY <1>5, <1>6, <1>7 DEF t

(* Searching.                                                              *)

\* The nodes of a tree.
Nodes(D) == IsFiniteSet(D) /\ D \subseteq Seq(Level) /\ \A p \in D : PathPrefixes(p) \subseteq D

\* q is below p.
Below(p, q) == Len(p) < Len(q) /\ \A j \in 1..Len(p) : q[j] = p[j]

LEMMA ChildIs ==
    ASSUME NEW p \in Seq(Level), NEW q \in Seq(Level)
    PROVE  Len(q) = Len(p) + 1 /\ IsPrefix(p, q) <=> Len(q) = Len(p) + 1 /\ Below(p, q)
<1>0. Len(p) \in Nat /\ Len(q) \in Nat
  BY LenProperties
<1> SUFFICES ASSUME Len(q) = Len(p) + 1 PROVE IsPrefix(p, q) <=> Below(p, q)
  OBVIOUS
<1>1. SubSeq(p, 1, Len(p)) = p
  BY CutAll
<1> DEFINE a == SubSeq(q, 1, Len(p))
<1>2. a \in Seq(Level) /\ Len(a) = Len(p) /\ \A i \in 1..Len(p) : a[i] = q[i]
  <2>1. Len(p) \in 0..Len(q)
    BY <1>0
  <2> QED
    BY <2>1, Cut
<1>3. IsPrefix(p, q) <=> p = a
  BY <1>0, <1>1 DEF IsPrefix
<1> HIDE DEF a
<1>4. p = a <=> \A i \in 1..Len(p) : p[i] = a[i]
  BY <1>2, SeqEqual
<1>5. Below(p, q) <=> \A j \in 1..Len(p) : q[j] = p[j]
  BY <1>0 DEF Below
<1> QED
  BY <1>2, <1>3, <1>4, <1>5

LEMMA AppendIs ==
    ASSUME NEW p \in Seq(Level), NEW q \in Seq(Level), NEW x \in Level
    PROVE  q = Append(p, x) <=> Len(q) = Len(p) + 1 /\ Below(p, q) /\ q[Len(p) + 1] = x
<1>0. Len(p) \in Nat /\ Len(q) \in Nat
  BY LenProperties
<1> DEFINE a == Append(p, x)
<1>1. /\ a \in Seq(Level) /\ Len(a) = Len(p) + 1 /\ \A i \in 1..Len(p) : a[i] = p[i]
      /\ a[Len(p) + 1] = x
  BY AppendProperties
<1> HIDE DEF a
<1>2. ASSUME Len(q) = Len(p) + 1, Below(p, q), q[Len(p) + 1] = x PROVE q = a
  <2>1. \A i \in 1..Len(q) : i \in 1..Len(p) \/ i = Len(p) + 1
    BY <1>0, <1>2
  <2>2. \A i \in 1..Len(q) : q[i] = a[i]
    BY <1>1, <1>2, <2>1 DEF Below
  <2> QED
    BY <1>1, <1>2, <2>2, SeqEqual
<1>3. ASSUME q = a PROVE Len(q) = Len(p) + 1 /\ Below(p, q) /\ q[Len(p) + 1] = x
  BY <1>0, <1>1, <1>3 DEF Below
<1> QED
  BY <1>2, <1>3 DEF a

\* The node after p on the way to q.
LEMMA StepDown ==
    ASSUME NEW D, Nodes(D), NEW p \in D, NEW q \in D, Below(p, q), Len(q) # Len(p) + 1
    PROVE  \E b \in D : /\ Len(b) = Len(p) + 1 /\ Below(p, b) /\ Below(b, q)
                        /\ b[Len(p) + 1] = q[Len(p) + 1]
<1>0. p \in Seq(Level) /\ q \in Seq(Level) /\ Len(p) \in Nat /\ Len(q) \in Nat
  BY LenProperties DEF Nodes
<1> DEFINE b == SubSeq(q, 1, Len(p) + 1)
<1>1. Len(p) + 1 \in 1..Len(q) /\ Len(p) + 1 < Len(q)
  BY <1>0 DEF Below
<1>2. b \in D
  BY <1>1 DEF Nodes, PathPrefixes
<1>3. Len(b) = Len(p) + 1 /\ \A i \in 1..(Len(p) + 1) : b[i] = q[i]
  <2>1. Len(p) + 1 \in 0..Len(q)
    BY <1>1
  <2> QED
    BY <1>0, <2>1, Cut
<1> HIDE DEF b
<1>4. Below(p, b)
  BY <1>0, <1>3 DEF Below
<1>5. Below(b, q)
  BY <1>1, <1>3 DEF Below
<1>6. b[Len(p) + 1] = q[Len(p) + 1]
  BY <1>0, <1>3
<1> QED
  BY <1>2, <1>3, <1>4, <1>5, <1>6

LEMMA BelowBelow ==
    ASSUME NEW p \in Seq(Level), NEW b \in Seq(Level), NEW q \in Seq(Level), Below(p, b), Below(b, q)
    PROVE  Below(p, q) /\ Len(p) < Len(b) /\ Len(b) < Len(q) /\ \A j \in 1..Len(b) : q[j] = b[j]
<1>0. Len(p) \in Nat /\ Len(q) \in Nat /\ Len(b) \in Nat
  BY LenProperties
<1>1. Len(p) < Len(b) /\ Len(b) < Len(q) /\ \A j \in 1..Len(b) : q[j] = b[j]
  BY DEF Below
<1>2. \A j \in 1..Len(p) : j \in 1..Len(b) /\ b[j] = p[j]
  BY <1>0, <1>1 DEF Below
<1> QED
  BY <1>0, <1>1, <1>2 DEF Below

\* What holds of a node when it holds of the nodes one level down, holds of all.
LEMMA TreeInduction ==
    ASSUME NEW D, Nodes(D), NEW Good,
           \A p \in D : (\A q \in D : Len(q) = Len(p) + 1 => q \in Good) => p \in Good
    PROVE  D \subseteq Good
<1> DEFINE Deep(p) == {q \in D : Len(q) >= Len(p)}
           Bad == {n \in Nat : \E p \in D : p \notin Good /\ Cardinality(Deep(p)) = n}
<1>0. \A p \in D : IsFiniteSet(Deep(p)) /\ Cardinality(Deep(p)) \in Nat /\ Len(p) \in Nat
  <2> SUFFICES ASSUME NEW p \in D PROVE IsFiniteSet(Deep(p)) /\ Cardinality(Deep(p)) \in Nat /\ Len(p) \in Nat
    OBVIOUS
  <2>1. IsFiniteSet(D) /\ Deep(p) \subseteq D /\ Len(p) \in Nat
    BY LenProperties DEF Nodes
  <2> QED
    BY <2>1, FS_Subset, FS_CardinalityType
<1>1. SUFFICES ASSUME NEW x \in D, x \notin Good PROVE FALSE
  OBVIOUS
<1>2. Bad \subseteq Nat /\ Bad # {}
  <2> HIDE DEF Deep
  <2>1. Cardinality(Deep(x)) \in Bad
    BY <1>0, <1>1
  <2> QED
    BY <2>1
<1>3. PICK n \in Bad : \A k \in Bad : n <= k
  <2> HIDE DEF Bad
  <2> QED
    BY <1>2, CleanLoop!LeastNat
<1>4. PICK p \in D : p \notin Good /\ Cardinality(Deep(p)) = n
  OBVIOUS
<1>5. PICK q \in D : Len(q) = Len(p) + 1 /\ q \notin Good
  BY <1>4
<1>6. Deep(q) \subseteq Deep(p) /\ p \in Deep(p) /\ p \notin Deep(q)
  BY <1>0, <1>5
<1>7. Cardinality(Deep(q)) < Cardinality(Deep(p))
  <2>1. IsFiniteSet(Deep(p)) /\ Deep(q) # Deep(p)
    BY <1>0, <1>6
  <2> HIDE DEF Deep
  <2>2. /\ Cardinality(Deep(q)) <= Cardinality(Deep(p))
        /\ Cardinality(Deep(p)) = Cardinality(Deep(q)) => Deep(p) = Deep(q)
    BY <1>6, <2>1, FS_Subset
  <2>3. Cardinality(Deep(q)) \in Nat /\ Cardinality(Deep(p)) \in Nat
    BY <1>0
  <2> QED
    BY <2>1, <2>2, <2>3
<1>8. Cardinality(Deep(q)) \in Bad
  BY <1>0, <1>5
<1> HIDE DEF Bad, Deep
<1> QED
  BY <1>0, <1>3, <1>4, <1>7, <1>8

\* The levels of a name.
IsName(t) == t \in Seq(Level) /\ Len(t) >= 1

\* What sub__search does at every node, when f tells what it finds below others.
SearchStep(tree, t, f) ==
    [p \in DOMAIN tree |->
        LET i        == Len(p)
            branches == IF i > Len(t) THEN {}
                        ELSE {Append(p, t[i]), Append(p, "+")} \cap DOMAIN tree
            hash     == Append(p, "#")
        IN  (UNION {f[b] : b \in branches})
            \cup (IF i = Len(t) THEN branches ELSE {})
            \cup (IF hash \in DOMAIN tree /\ Children(tree, hash) = {} THEN {hash} ELSE {})]

\* The level j of the path q stands for a level of the topic t.
Fits(t, q, j) == j <= Len(t) + 1 /\ q[j] \in {t[j - 1], "+"}

\* q is what the search is for, as far as the levels after p go.
Hit(tree, t, p, q) ==
    /\ Below(p, q)
    /\ \/ /\ Len(q) = Len(t) + 1
          /\ \A j \in (Len(p) + 1)..Len(q) : Fits(t, q, j)
       \/ /\ q[Len(q)] = "#" /\ Children(tree, q) = {}
          /\ \A j \in (Len(p) + 1)..(Len(q) - 1) : Fits(t, q, j)

\* Hits one step further down.
LEMMA HitStep ==
    ASSUME NEW tree, Nodes(DOMAIN tree), NEW t, IsName(t), NEW p \in DOMAIN tree, NEW q \in DOMAIN tree,
           NEW B, \A b : b \in B <=> /\ b \in DOMAIN tree /\ Len(p) <= Len(t) /\ Len(b) = Len(p) + 1
                                     /\ Below(p, b) /\ b[Len(p) + 1] \in {t[Len(p)], "+"}
    PROVE  Hit(tree, t, p, q) <=> \/ \E b \in B : Hit(tree, t, b, q)
                                  \/ Len(p) = Len(t) /\ q \in B
                                  \/ /\ Len(q) = Len(p) + 1 /\ Below(p, q) /\ q[Len(p) + 1] = "#"
                                     /\ Children(tree, q) = {}
<1> DEFINE D == DOMAIN tree
<1>0. p \in Seq(Level) /\ q \in Seq(Level) /\ Len(p) \in Nat /\ Len(q) \in Nat /\ Len(t) \in Nat
  BY LenProperties DEF Nodes, IsName
<1>1. ASSUME Hit(tree, t, p, q), Len(q) = Len(p) + 1
      PROVE  \/ Len(p) = Len(t) /\ q \in B
             \/ q[Len(p) + 1] = "#" /\ Children(tree, q) = {}
  <2>1. Below(p, q)
    BY <1>1 DEF Hit
  <2>2. CASE Len(q) = Len(t) + 1 /\ \A j \in (Len(p) + 1)..Len(q) : Fits(t, q, j)
    <3>1. Fits(t, q, Len(p) + 1) /\ Len(p) = Len(t)
      BY <1>0, <1>1, <2>2
    <3>2. q[Len(p) + 1] \in {t[Len(p)], "+"}
      BY <1>0, <3>1 DEF Fits
    <3> QED
      BY <1>0, <1>1, <2>1, <3>1, <3>2
  <2>3. CASE q[Len(q)] = "#" /\ Children(tree, q) = {}
    BY <1>1, <2>3
  <2> QED
    BY <1>1, <2>2, <2>3 DEF Hit
<1>2. ASSUME Hit(tree, t, p, q), Len(q) # Len(p) + 1
      PROVE  \E b \in B : Hit(tree, t, b, q)
  <2>1. Below(p, q)
    BY <1>2 DEF Hit
  <2>2. PICK b \in D : /\ Len(b) = Len(p) + 1 /\ Below(p, b) /\ Below(b, q)
                       /\ b[Len(p) + 1] = q[Len(p) + 1]
    BY <1>2, <2>1, StepDown
  <2>3. Len(p) + 1 < Len(q)
    BY <1>0, <2>1, <1>2 DEF Below
  <2>4. Fits(t, q, Len(p) + 1)
    <3>1. Len(p) + 1 \in (Len(p) + 1)..Len(q) /\ Len(p) + 1 \in (Len(p) + 1)..(Len(q) - 1)
      BY <1>0, <2>3
    <3> QED
      BY <1>2, <3>1 DEF Hit
  <2>5. Len(p) <= Len(t) /\ b[Len(p) + 1] \in {t[Len(p)], "+"}
    BY <1>0, <2>2, <2>4 DEF Fits
  <2>6. b \in B
    BY <2>2, <2>5
  <2>7. \A j : j \in (Len(b) + 1)..Len(q) => j \in (Len(p) + 1)..Len(q)
    BY <1>0, <2>2
  <2>8. \A j : j \in (Len(b) + 1)..(Len(q) - 1) => j \in (Len(p) + 1)..(Len(q) - 1)
    BY <1>0, <2>2
  <2>9. Hit(tree, t, b, q)
    BY <1>2, <2>2, <2>7, <2>8 DEF Hit
  <2> QED
    BY <2>6, <2>9
<1>3. ASSUME NEW b \in B, Hit(tree, t, b, q) PROVE Hit(tree, t, p, q)
  <2>1. /\ b \in D /\ b \in Seq(Level) /\ Len(p) <= Len(t) /\ Len(b) = Len(p) + 1
        /\ Below(p, b) /\ b[Len(p) + 1] \in {t[Len(p)], "+"}
    BY DEF Nodes
  <2>2. Below(b, q)
    BY <1>3 DEF Hit
  <2>3. Below(p, q) /\ q[Len(p) + 1] = b[Len(p) + 1]
    <3>1. Below(p, q) /\ \A j \in 1..Len(b) : q[j] = b[j]
      BY <1>0, <2>1, <2>2, BelowBelow
    <3> QED
      BY <1>0, <2>1, <3>1
  <2>4. Fits(t, q, Len(p) + 1)
    BY <1>0, <2>1, <2>3 DEF Fits
  <2>5. \A j : j \in (Len(p) + 1)..Len(q) => j = Len(p) + 1 \/ j \in (Len(b) + 1)..Len(q)
    BY <1>0, <2>1
  <2>6. \A j : j \in (Len(p) + 1)..(Len(q) - 1) => j = Len(p) + 1 \/ j \in (Len(b) + 1)..(Len(q) - 1)
    BY <1>0, <2>1
  <2> QED
    BY <1>3, <2>3, <2>4, <2>5, <2>6 DEF Hit
<1>4. ASSUME Len(p) = Len(t), q \in B PROVE Hit(tree, t, p, q)
  <2>1. Len(q) = Len(p) + 1 /\ Below(p, q) /\ q[Len(p) + 1] \in {t[Len(p)], "+"}
    BY <1>4
  <2>2. \A j \in (Len(p) + 1)..Len(q) : j = Len(p) + 1
    BY <1>0, <2>1
  <2>3. Fits(t, q, Len(p) + 1)
    BY <1>0, <1>4, <2>1 DEF Fits
  <2> QED
    BY <1>4, <2>1, <2>2, <2>3 DEF Hit
<1>5. ASSUME Len(q) = Len(p) + 1, Below(p, q), q[Len(p) + 1] = "#", Children(tree, q) = {}
      PROVE  Hit(tree, t, p, q)
  <2>1. \A j \in (Len(p) + 1)..(Len(q) - 1) : FALSE
    BY <1>0, <1>5
  <2> QED
    BY <1>5, <2>1 DEF Hit
<1>6. Hit(tree, t, p, q) => Below(p, q)
  BY DEF Hit
<1> HIDE DEF D
<1> QED
  BY <1>1, <1>2, <1>3, <1>4, <1>5, <1>6

\* The branches sub__search follows, and the "#" branch.
Branches(tree, t, p) == IF Len(p) > Len(t) THEN {}
                        ELSE {Append(p, t[Len(p)]), Append(p, "+")} \cap DOMAIN tree
Beyond(tree, p) == IF Append(p, "#") \in DOMAIN tree /\ Children(tree, Append(p, "#")) = {}
                  THEN {Append(p, "#")} ELSE {}

LEMMA BranchesAre ==
    ASSUME NEW tree, Nodes(DOMAIN tree), NEW t, IsName(t), NEW p \in DOMAIN tree, p # <<>>
    PROVE  /\ \A b : b \in Branches(tree, t, p) <=>
                        /\ b \in DOMAIN tree /\ Len(p) <= Len(t) /\ Len(b) = Len(p) + 1
                        /\ Below(p, b) /\ b[Len(p) + 1] \in {t[Len(p)], "+"}
           /\ \A q \in DOMAIN tree : q \in Beyond(tree, p) <=>
                        /\ Len(q) = Len(p) + 1 /\ Below(p, q) /\ q[Len(p) + 1] = "#"
                        /\ Children(tree, q) = {}
<1>0. p \in Seq(Level) /\ Len(p) \in Nat /\ Len(p) >= 1 /\ Len(t) \in Nat
  BY LenProperties, EmptySeq DEF Nodes, IsName
<1>1. "+" \in Level /\ "#" \in Level /\ (Len(p) <= Len(t) => t[Len(p)] \in Level)
  <2>1. Len(p) <= Len(t) => Len(p) \in 1..Len(t)
    BY <1>0
  <2>2. "+" \in Level /\ "#" \in Level
    BY DEF Level
  <2> HIDE DEF Level
  <2> QED
    BY <2>1, <2>2, ElementOfSeq DEF IsName
<1>2. \A q \in DOMAIN tree : q \in Seq(Level)
  BY DEF Nodes
<1>3. ASSUME NEW b
      PROVE  b \in Branches(tree, t, p) <=>
                        /\ b \in DOMAIN tree /\ Len(p) <= Len(t) /\ Len(b) = Len(p) + 1
                        /\ Below(p, b) /\ b[Len(p) + 1] \in {t[Len(p)], "+"}
  <2>1. b \in Branches(tree, t, p) <=>
           b \in DOMAIN tree /\ Len(p) <= Len(t) /\ (b = Append(p, t[Len(p)]) \/ b = Append(p, "+"))
    BY <1>0 DEF Branches
  <2>2. CASE b \in DOMAIN tree /\ Len(p) <= Len(t)
    <3>1. /\ b = Append(p, t[Len(p)]) <=> Len(b) = Len(p) + 1 /\ Below(p, b) /\ b[Len(p) + 1] = t[Len(p)]
          /\ b = Append(p, "+") <=> Len(b) = Len(p) + 1 /\ Below(p, b) /\ b[Len(p) + 1] = "+"
      BY <1>0, <1>1, <1>2, <2>2, AppendIs
    <3> QED
      BY <2>1, <2>2, <3>1
  <2> QED
    BY <2>1, <2>2
<1>4. ASSUME NEW q \in DOMAIN tree
      PROVE  q \in Beyond(tree, p) <=>
                        /\ Len(q) = Len(p) + 1 /\ Below(p, q) /\ q[Len(p) + 1] = "#"
                        /\ Children(tree, q) = {}
  <2>1. q = Append(p, "#") <=> Len(q) = Len(p) + 1 /\ Below(p, q) /\ q[Len(p) + 1] = "#"
    BY <1>0, <1>1, <1>2, AppendIs
  <2>2. q \in Beyond(tree, p) <=> q = Append(p, "#") /\ Children(tree, q) = {}
    BY DEF Beyond
  <2> QED
    BY <2>1, <2>2
<1> QED
  BY <1>3, <1>4

\* The search finds the hits, whatever the tree.
LEMMA SearchIs ==
    ASSUME NEW tree, Nodes(DOMAIN tree), <<>> \notin DOMAIN tree, NEW t, IsName(t)
    PROVE  /\ \E f : f = SearchStep(tree, t, f)
           /\ \A f : f = SearchStep(tree, t, f) =>
                 \A p \in DOMAIN tree : f[p] = {q \in DOMAIN tree : Hit(tree, t, p, q)}
<1> DEFINE D == DOMAIN tree
           B(p) == Branches(tree, t, p)
           R(p) == Beyond(tree, p)
           hits(p) == {q \in D : Hit(tree, t, p, q)}
           One(f, p) == (UNION {f[b] : b \in B(p)}) \cup (IF Len(p) = Len(t) THEN B(p) ELSE {}) \cup R(p)
<1>1. ASSUME NEW f PROVE SearchStep(tree, t, f) = [p \in D |-> One(f, p)]
  BY DEF SearchStep, Branches, Beyond
<1>2. ASSUME NEW f, NEW p \in D, \A b \in B(p) : f[b] = hits(b) PROVE One(f, p) = hits(p)
  <2>1. /\ \A b : b \in B(p) <=>
                        /\ b \in D /\ Len(p) <= Len(t) /\ Len(b) = Len(p) + 1
                        /\ Below(p, b) /\ b[Len(p) + 1] \in {t[Len(p)], "+"}
        /\ \A q \in D : q \in R(p) <=>
                        /\ Len(q) = Len(p) + 1 /\ Below(p, q) /\ q[Len(p) + 1] = "#"
                        /\ Children(tree, q) = {}
    BY BranchesAre
  <2>2. B(p) \subseteq D /\ R(p) \subseteq D
    BY <2>1 DEF Beyond
  <2> HIDE DEF B, R
  <2>3. ASSUME NEW q \in D
        PROVE  Hit(tree, t, p, q) <=> \/ \E b \in B(p) : Hit(tree, t, b, q)
                                      \/ Len(p) = Len(t) /\ q \in B(p)
                                      \/ q \in R(p)
    BY <2>1, HitStep
  <2>4. ASSUME NEW q
        PROVE  q \in One(f, p) <=> \/ \E b \in B(p) : q \in f[b]
                                   \/ Len(p) = Len(t) /\ q \in B(p)
                                   \/ q \in R(p)
    OBVIOUS
  <2>5. ASSUME NEW q PROVE q \in One(f, p) <=> q \in hits(p)
    <3>1. (\E b \in B(p) : q \in f[b]) <=> q \in D /\ \E b \in B(p) : Hit(tree, t, b, q)
      BY <1>2
    <3> QED
      BY <2>2, <2>3, <2>4, <3>1
  <2> HIDE DEF One, hits
  <2> QED
    BY <2>5
<1>3. \A p \in D : \A b \in B(p) : b \in D /\ Len(b) = Len(p) + 1
  BY BranchesAre
<1> HIDE DEF B, R, One
<1>4. \E f : f = SearchStep(tree, t, f)
  <2> DEFINE h == [p \in D |-> hits(p)]
  <2>1. \A p \in D : h[p] = hits(p)
    OBVIOUS
  <2>2. h = [p \in D |-> h[p]]
    OBVIOUS
  <2> HIDE DEF h, hits
  <2>3. \A p \in D : One(h, p) = h[p]
    BY <1>2, <1>3, <2>1
  <2>4. SearchStep(tree, t, h) = h
    BY <1>1, <2>2, <2>3
  <2> QED
    BY <2>4
<1>5. ASSUME NEW f, f = SearchStep(tree, t, f) PROVE \A p \in D : f[p] = hits(p)
  <2> DEFINE Good == {p \in D : f[p] = hits(p)}
  <2>1. \A p \in D : f[p] = One(f, p)
    BY <1>1, <1>5
  <2>2. ASSUME NEW p \in D, \A q \in D : Len(q) = Len(p) + 1 => q \in Good PROVE p \in Good
    <3>1. \A b \in B(p) : f[b] = hits(b)
      BY <1>3, <2>2
    <3> QED
      BY <1>2, <2>1, <3>1
  <2>3. D \subseteq Good
    <3>1. \A p \in D : (\A q \in D : Len(q) = Len(p) + 1 => q \in Good) => p \in Good
      BY <2>2
    <3> HIDE DEF Good
    <3> QED
      BY <3>1, TreeInduction
  <2> QED
    BY <2>3
<1> QED
  BY <1>4, <1>5

LEMMA SubSearchIs ==
    ASSUME NEW tree, Nodes(DOMAIN tree), <<>> \notin DOMAIN tree, NEW topic, NEW t, t = Tokenise(topic).topics,
           IsName(t)
    PROVE  SubSearch(tree, topic) = IF <<t[1]>> \in DOMAIN tree
                                    THEN {q \in DOMAIN tree : Hit(tree, t, <<t[1]>>, q)} ELSE {}
<1> DEFINE run == CHOOSE f : f = SearchStep(tree, t, f)
<1>1. run = SearchStep(tree, t, run)
  <2>1. \E f : f = SearchStep(tree, t, f)
    BY SearchIs
  <2> QED
    BY <2>1, Zenon
<1>2. SubSearch(tree, topic) = IF <<t[1]>> \in DOMAIN tree THEN run[<<t[1]>>] ELSE {}
  BY DEF SubSearch, SearchStep
<1> HIDE DEF run
<1>3. \A p \in DOMAIN tree : run[p] = {q \in DOMAIN tree : Hit(tree, t, p, q)}
  BY <1>1, SearchIs
<1> QED
  BY <1>2, <1>3

\* The empty level.
Nil == ""

LEMMA Special ==
    /\ Nil \in Level /\ Nil \notin DollarLevels
    /\ "+" \notin DollarLevels /\ "#" \notin DollarLevels
<1>1. Nil \in Level
  BY Zenon DEF Level, Nil
<1>2. Nil \notin DollarLevels /\ "+" \notin DollarLevels /\ "#" \notin DollarLevels
  BY DollarAssumption, Zenon DEF Nil
<1> QED
  BY <1>1, <1>2

\* The tokens before the levels of a name.
Shift(f) == IF f[1] \in DollarLevels THEN 0 ELSE 1

LEMMA TokensAre ==
    ASSUME NEW f, IsName(f), f[1] # "$share"
    PROVE  LET F == Tokenise(f).topics
           IN  /\ F \in Seq(Level) /\ Len(F) = Len(f) + Shift(f) /\ IsName(F)
               /\ Shift(f) = 1 => F[1] = Nil
               /\ \A i \in 1..Len(f) : F[i + Shift(f)] = f[i]
<1> DEFINE F == Tokenise(f).topics
           z == <<Nil>>
<1>0. f \in Seq(Level) /\ Len(f) \in Nat /\ Len(f) >= 1
  BY LenProperties DEF IsName
<1>1. CASE f[1] \in DollarLevels
  <2>1. F = <<>> \o f
    BY <1>1 DEF Tokenise
  <2>2. F = f
    BY <1>0, <2>1, ConcatEmptySeq
  <2> HIDE DEF F
  <2> QED
    BY <1>0, <1>1, <2>2 DEF Shift, IsName, F
<1>2. CASE f[1] \notin DollarLevels
  <2>1. F = z \o f
    BY <1>2, Zenon DEF Tokenise, Nil
  <2>2. z \in Seq(Level) /\ Len(z) = 1 /\ z[1] = Nil
    BY Special
  <2> HIDE DEF z
  <2>3. /\ z \o f \in Seq(Level) /\ Len(z \o f) = Len(z) + Len(f)
        /\ \A i \in 1 .. Len(z) + Len(f) : (z \o f)[i] = IF i <= Len(z) THEN z[i] ELSE f[i - Len(z)]
    BY <1>0, <2>2, ConcatProperties
  <2> HIDE DEF F
  <2>4. Len(F) = Len(f) + 1 /\ F[1] = Nil
    BY <1>0, <2>1, <2>2, <2>3
  <2>5. \A i \in 1..Len(f) : F[i + 1] = f[i]
    <3> SUFFICES ASSUME NEW i \in 1..Len(f) PROVE F[i + 1] = f[i]
      OBVIOUS
    <3>1. i + 1 \in 1 .. Len(z) + Len(f) /\ ~(i + 1 <= Len(z)) /\ i + 1 - Len(z) = i
      BY <1>0, <2>2
    <3> QED
      BY <2>1, <2>3, <3>1
  <2> QED
    BY <1>0, <1>2, <2>1, <2>3, <2>4, <2>5 DEF Shift, IsName, F
<1> QED
  BY <1>1, <1>2

LEMMA PathIs ==
    ASSUME NEW F, IsName(F)
    PROVE  /\ Path(F) \in Seq(Level) /\ Len(Path(F)) = Len(F) + 1 /\ Path(F)[1] = F[1]
           /\ \A i \in 1..Len(F) : Path(F)[i + 1] = F[i]
<1> DEFINE z == <<F[1]>>
<1>0. F \in Seq(Level) /\ Len(F) \in Nat /\ Len(F) >= 1
  BY LenProperties DEF IsName
<1>1. F[1] \in Level
  <2>1. 1 \in 1..Len(F)
    BY <1>0
  <2> QED
    BY <1>0, <2>1, ElementOfSeq
<1>2. z \in Seq(Level) /\ Len(z) = 1 /\ z[1] = F[1]
  BY <1>1
<1>3. Path(F) = z \o F
  BY DEF Path
<1> HIDE DEF z
<1>4. /\ z \o F \in Seq(Level) /\ Len(z \o F) = Len(z) + Len(F)
      /\ \A i \in 1 .. Len(z) + Len(F) : (z \o F)[i] = IF i <= Len(z) THEN z[i] ELSE F[i - Len(z)]
  BY <1>0, <1>2, ConcatProperties
<1>5. Path(F) \in Seq(Level) /\ Len(Path(F)) = Len(F) + 1 /\ Path(F)[1] = F[1]
  BY <1>0, <1>2, <1>3, <1>4
<1>6. \A i \in 1..Len(F) : Path(F)[i + 1] = F[i]
  <2> SUFFICES ASSUME NEW i \in 1..Len(F) PROVE Path(F)[i + 1] = F[i]
    OBVIOUS
  <2>1. i + 1 \in 1 .. Len(z) + Len(F) /\ ~(i + 1 <= Len(z)) /\ i + 1 - Len(z) = i
    BY <1>0, <1>2
  <2> QED
    BY <1>3, <1>4, <2>1
<1> QED
  BY <1>5, <1>6

\* The path of a filter is a hit from the root of the topic if and only if the
\* filter matches the topic.
LEMMA HitMatches ==
    ASSUME NEW tree, NEW f, IsName(f), f[1] # "$share", NEW u, IsName(u), u[1] # "$share",
           PubTopicCheck(u), NEW F, F = Tokenise(f).topics, NEW T, T = Tokenise(u).topics,
           NEW q, q = Path(F), f[Len(f)] = "#" => Children(tree, q) = {}
    PROVE  Hit(tree, T, <<T[1]>>, q) <=> TopicMatchesSub(f, u)
<1> DEFINE open == f[Len(f)] = "#"
           k == Shift(f)
           m == Shift(u)
<1>0. /\ f \in Seq(Level) /\ Len(f) \in Nat /\ Len(f) >= 1
      /\ u \in Seq(Level) /\ Len(u) \in Nat /\ Len(u) >= 1 /\ DOMAIN u = 1..Len(u)
      /\ k \in {0, 1} /\ m \in {0, 1}
  BY LenProperties DEF IsName, Shift
<1>1. /\ F \in Seq(Level) /\ Len(F) = Len(f) + k /\ IsName(F)
      /\ k = 1 => F[1] = Nil
      /\ \A i \in 1..Len(f) : F[i + k] = f[i]
  BY TokensAre
<1>2. /\ T \in Seq(Level) /\ Len(T) = Len(u) + m /\ IsName(T)
      /\ m = 1 => T[1] = Nil
      /\ \A i \in 1..Len(u) : T[i + m] = u[i]
  BY TokensAre
<1>3. /\ q \in Seq(Level) /\ Len(q) = Len(F) + 1 /\ q[1] = F[1]
      /\ \A i \in 1..Len(F) : q[i + 1] = F[i]
  BY <1>1, PathIs
<1>4. Nil \notin DollarLevels /\ "+" \notin DollarLevels /\ "#" \notin DollarLevels
  BY Special
<1>5. (f[1] \in DollarLevels <=> k = 0) /\ (u[1] \in DollarLevels <=> m = 0)
  BY DEF Shift
<1>6. (k = 0 => F[1] = f[1]) /\ (m = 0 => T[1] = u[1])
  <2>1. 1 \in 1..Len(f) /\ 1 \in 1..Len(u)
    BY <1>0
  <2>2. k = 0 => 1 + k = 1
    OBVIOUS
  <2>3. m = 0 => 1 + m = 1
    OBVIOUS
  <2> HIDE DEF k, m
  <2> QED
    BY <1>1, <1>2, <2>1, <2>2, <2>3
<1> HIDE DEF k, m
<1>7. F[1] = T[1] <=> k = m /\ (k = 0 => f[1] = u[1])
  BY <1>0, <1>1, <1>2, <1>4, <1>5, <1>6
<1>8. \A i \in 1..Len(u) : u[i] # "+" /\ u[i] # "#"
  BY <1>0 DEF PubTopicCheck
<1>9. Below(<<T[1]>>, q) <=> F[1] = T[1]
  <2>1. Len(<<T[1]>>) = 1 /\ <<T[1]>>[1] = T[1] /\ 1..1 = {1}
    OBVIOUS
  <2> QED
    BY <1>0, <1>1, <1>3, <2>1 DEF Below
<1>10. q[Len(q)] = "#" <=> open
  <2>1. Len(F) \in 1..Len(F) /\ Len(f) \in 1..Len(f) /\ Len(f) + k = Len(F)
    BY <1>0, <1>1
  <2>2. q[Len(q)] = F[Len(F)]
    BY <1>3, <2>1
  <2>3. F[Len(F)] = f[Len(f)]
    BY <1>1, <2>1
  <2> QED
    BY <2>2, <2>3
<1>11. Len(<<T[1]>>) = 1
  OBVIOUS
<1> DEFINE All(n) == \A i \in 1..n : i <= Len(u) /\ f[i] \in {u[i], "+"}
<1>12. ASSUME F[1] = T[1], NEW n \in 0..Len(f)
       PROVE  (\A j \in 2..(n + k + 1) : Fits(T, q, j)) <=> All(n)
  <2>0. k = m
    BY <1>7, <1>12
  <2>1. ASSUME NEW i \in 1..n
        PROVE  /\ i + k + 1 \in 2..(n + k + 1)
               /\ Fits(T, q, i + k + 1) <=> i <= Len(u) /\ f[i] \in {u[i], "+"}
    <3>1. i + k \in 1..Len(F) /\ i \in 1..Len(f) /\ (i + k + 1) - 1 = i + k /\ i + k + 1 \in 2..(n + k + 1)
      BY <1>0, <1>1, SMTT(30)
    <3>2. q[i + k + 1] = f[i]
      BY <1>1, <1>3, <3>1
    <3>3. i + k + 1 <= Len(T) + 1 <=> i <= Len(u)
      BY <1>0, <1>2, <2>0
    <3>4. i <= Len(u) => T[i + k] = u[i]
      BY <1>0, <1>2, <2>0
    <3>5. Fits(T, q, i + k + 1) <=> i + k + 1 <= Len(T) + 1 /\ q[i + k + 1] \in {T[i + k], "+"}
      BY <3>1 DEF Fits
    <3> QED
      BY <3>1, <3>2, <3>3, <3>4, <3>5
  <2>2. ASSUME k = 1 PROVE Fits(T, q, 2)
    <3>1. 1 \in 1..Len(F) /\ 1 + 1 = 2 /\ 2 - 1 = 1 /\ 2 <= Len(T) + 1
      BY <1>0, <1>1, <1>2, SMTT(30)
    <3>2. q[2] = T[1]
      BY <1>3, <1>12, <3>1
    <3> QED
      BY <3>1, <3>2 DEF Fits
  <2>3. ASSUME NEW j \in 2..(n + k + 1), ~(k = 1 /\ j = 2) PROVE \E i \in 1..n : j = i + k + 1
    <3>1. j - k - 1 \in 1..n /\ j = (j - k - 1) + k + 1
      BY <1>0, <2>3
    <3> QED
      BY <3>1
  <2>4. ASSUME All(n), NEW j \in 2..(n + k + 1) PROVE Fits(T, q, j)
    <3>1. CASE k = 1 /\ j = 2
      BY <2>2, <3>1
    <3>2. CASE ~(k = 1 /\ j = 2)
      <4>1. PICK i \in 1..n : j = i + k + 1
        BY <2>3, <3>2
      <4> QED
        BY <2>1, <2>4, <4>1
    <3> QED
      BY <3>1, <3>2
  <2>5. ASSUME \A j \in 2..(n + k + 1) : Fits(T, q, j), NEW i \in 1..n
        PROVE  i <= Len(u) /\ f[i] \in {u[i], "+"}
    BY <2>1, <2>5
  <2> QED
    BY <2>4, <2>5
<1>13. Hit(tree, T, <<T[1]>>, q) <=>
          /\ F[1] = T[1]
          /\ \/ Len(f) = Len(u) /\ All(Len(f))
             \/ open /\ All(Len(f) - 1)
  <2>1. ASSUME F[1] = T[1]
        PROVE  /\ Len(q) = Len(T) + 1 <=> Len(f) = Len(u)
               /\ (\A j \in 2..Len(q) : Fits(T, q, j)) <=> All(Len(f))
               /\ (\A j \in 2..(Len(q) - 1) : Fits(T, q, j)) <=> All(Len(f) - 1)
    <3>1. k = m
      BY <1>7, <2>1
    <3>2. Len(q) = Len(f) + k + 1 /\ Len(q) - 1 = (Len(f) - 1) + k + 1
      BY <1>0, <1>1, <1>3
    <3>3. Len(f) \in 0..Len(f) /\ Len(f) - 1 \in 0..Len(f)
      BY <1>0
    <3> HIDE DEF All
    <3>4. (\A j \in 2..(Len(f) + k + 1) : Fits(T, q, j)) <=> All(Len(f))
      BY <1>12, <2>1, <3>3
    <3>5. (\A j \in 2..((Len(f) - 1) + k + 1) : Fits(T, q, j)) <=> All(Len(f) - 1)
      BY <1>12, <2>1, <3>3
    <3>6. Len(q) = Len(T) + 1 <=> Len(f) = Len(u)
      BY <1>0, <1>2, <3>1, <3>2
    <3> QED
      BY <3>2, <3>4, <3>5, <3>6
  <2>2. Hit(tree, T, <<T[1]>>, q) <=>
          /\ F[1] = T[1]
          /\ \/ Len(q) = Len(T) + 1 /\ \A j \in 2..Len(q) : Fits(T, q, j)
             \/ open /\ \A j \in 2..(Len(q) - 1) : Fits(T, q, j)
    <3>1. Len(<<T[1]>>) + 1 = 2
      OBVIOUS
    <3> QED
      BY <1>9, <1>10, <3>1 DEF Hit
  <2> HIDE DEF All, open
  <2> QED
    BY <2>1, <2>2
<1>14. TopicMatchesSub(f, u) <=>
          /\ k = m
          /\ IF open THEN Len(u) >= Len(f) - 1 /\ \A i \in 1..(Len(f) - 1) : f[i] \in {"+", u[i]}
             ELSE Len(u) = Len(f) /\ \A i \in 1..Len(f) : f[i] \in {"+", u[i]}
  BY <1>0, <1>5 DEF TopicMatchesSub, Last
<1>15. open => ~(Len(f) = Len(u) /\ All(Len(f)))
  BY <1>0, <1>8
<1>16. All(Len(f) - 1) <=> Len(u) >= Len(f) - 1 /\ \A i \in 1..(Len(f) - 1) : f[i] \in {"+", u[i]}
  <2>1. ASSUME All(Len(f) - 1) PROVE Len(u) >= Len(f) - 1
    <3>1. CASE Len(f) = 1
      BY <1>0, <3>1
    <3>2. CASE Len(f) # 1
      BY <1>0, <2>1, <3>2
    <3> QED
      BY <3>1, <3>2
  <2>2. ASSUME Len(u) >= Len(f) - 1, NEW i \in 1..(Len(f) - 1) PROVE i <= Len(u)
    BY <1>0, <2>2
  <2> QED
    BY <2>1, <2>2
<1>17. Len(f) = Len(u) => (All(Len(f)) <=> \A i \in 1..Len(f) : f[i] \in {"+", u[i]})
  BY <1>0
<1>18. ASSUME k = m, k = 0, \/ Len(u) = Len(f) /\ \A i \in 1..Len(f) : f[i] \in {"+", u[i]}
                            \/ open /\ \A i \in 1..(Len(f) - 1) : f[i] \in {"+", u[i]}
       PROVE  f[1] = u[1]
  <2>1. f[1] \in DollarLevels
    BY <1>5, <1>18
  <2>2. f[1] # "+" /\ f[1] # "#"
    BY <1>4, <2>1
  <2>3. CASE Len(u) = Len(f) /\ \A i \in 1..Len(f) : f[i] \in {"+", u[i]}
    BY <1>0, <2>2, <2>3
  <2>4. CASE open /\ \A i \in 1..(Len(f) - 1) : f[i] \in {"+", u[i]}
    <3>1. Len(f) # 1
      BY <2>2, <2>4
    <3> QED
      BY <1>0, <2>2, <2>4, <3>1
  <2> QED
    BY <1>18, <2>3, <2>4
<1> HIDE DEF All, open
<1> QED
  BY <1>0, <1>7, <1>13, <1>14, <1>15, <1>16, <1>17, <1>18

LEMMA NeatNodes ==
    ASSUME NEW L, NEW tree \in Trees(L), Neat(tree)
    PROVE  Nodes(DOMAIN tree) /\ <<>> \notin DOMAIN tree
<1>1. DOMAIN tree \subseteq Seq(Level)
  BY TreesType
<1> QED
  BY <1>1 DEF Neat, Closed, Nodes

\* A tree without dead branches has a leaf at every node, or below it.
LEMMA LeafBelow ==
    ASSUME NEW L, NEW tree \in Trees(L), Neat(tree), NEW x \in DOMAIN tree, Len(x) > 1
    PROVE  \E q \in DOMAIN tree : (q = x \/ Below(x, q)) /\ ~IsEmptyNode(tree[q])
<1> DEFINE D == DOMAIN tree
           Leafy(p) == \E q \in D : (q = p \/ Below(p, q)) /\ ~IsEmptyNode(tree[q])
           Fine == {p \in D : Len(p) > 1 => Leafy(p)}
<1>1. Nodes(D) /\ D \subseteq Seq(Level) /\ \A p \in D : Len(p) \in Nat
  <2>1. Nodes(D)
    BY NeatNodes
  <2> QED
    BY <2>1, LenProperties DEF Nodes
<1>2. ASSUME NEW p \in D, \A q \in D : Len(q) = Len(p) + 1 => q \in Fine
      PROVE  p \in Fine
  <2> SUFFICES ASSUME Len(p) > 1 PROVE Leafy(p)
    OBVIOUS
  <2>1. ~IsEmptyNode(tree[p]) \/ Children(tree, p) # {}
    BY DEF Neat, Alive
  <2>2. CASE ~IsEmptyNode(tree[p])
    BY <2>2
  <2>3. CASE Children(tree, p) # {}
    <3>1. PICK q \in D : Len(q) = Len(p) + 1 /\ IsPrefix(p, q)
      BY <2>3 DEF Children
    <3>2. Below(p, q) /\ Len(q) > 1
      BY <1>1, <3>1, ChildIs
    <3>3. Leafy(q)
      BY <1>2, <3>1, <3>2
    <3>4. PICK s \in D : (s = q \/ Below(q, s)) /\ ~IsEmptyNode(tree[s])
      BY <3>3
    <3>5. Below(p, s)
      <4>1. CASE s = q
        BY <3>2, <4>1
      <4>2. CASE Below(q, s)
        <5>1. Len(p) \in Nat /\ Len(q) \in Nat /\ Len(s) \in Nat
          BY <1>1
        <5> QED
          BY <3>1, <3>2, <4>2, <5>1 DEF Below
      <4> QED
        BY <3>4, <4>1, <4>2
    <3> QED
      BY <3>4, <3>5
  <2> QED
    BY <2>1, <2>2, <2>3
<1>3. D \subseteq Fine
  <2> HIDE DEF Fine, D
  <2> QED
    BY <1>1, <1>2, TreeInduction
<1> QED
  BY <1>3
============================================================================
