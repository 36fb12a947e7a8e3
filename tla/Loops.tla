------------------------------- MODULE Loops -------------------------------
(***************************************************************************)
(* Invariants of loops.  A loop of the code over a list or a set is a fold *)
(* in the models.  Op(e, d, x) is its body: what the element x makes of    *)
(* the data d, where e stands for what the loop does not change.  Inv is   *)
(* the invariant of the loop; it may speak of what has been done so far.   *)
(*                                                                         *)
(* The module is instantiated once for every loop a proof is about, since  *)
(* the provers cannot instantiate a theorem about all operators.           *)
(***************************************************************************)
EXTENDS Naturals, Sequences, SequencesExt, FiniteSetTheorems, SequenceTheorems,
        WellFoundedInduction, TLAPS

CONSTANTS Op(_, _, _), Inv(_, _, _)

\* The loop over a list, from its first element to its last.
OverList(e, base, list) == FoldLeft(LAMBDA d, x : Op(e, d, x), base, list)

\* The loop over a set, in any order.
OverSet(e, base, S) == FoldSet(LAMBDA x, d : Op(e, d, x), base, S)

\* it gives for a set of steps what the data are after them; pick tells which
\* step of the set was the last one, and val what element it was about.
Runs(it, D, e, base, pick, val) ==
    it = [t \in D |-> IF t = {} THEN base ELSE Op(e, it[t \ {pick[t]}], val[pick[t]])]

LEMMA LeastNat ==
    ASSUME NEW T, T \subseteq Nat, T # {}
    PROVE  \E n \in T : \A k \in T : n <= k
<1> DEFINE R == OpToRel(<, Nat)
<1>1. IsWellFoundedOn(R, Nat)
  BY NatLessThanWellFounded
<1>2. \A x, y \in Nat : <<x, y>> \in R <=> x < y
  BY DEF OpToRel
<1> HIDE DEF R
<1>3. \E n \in T : \A k \in T : ~(<<k, n>> \in R)
  BY <1>1, WFMin
<1>4. PICK n \in T : \A k \in T : ~(<<k, n>> \in R)
  BY <1>3
<1>5. ASSUME NEW k \in T PROVE n <= k
  <2>1. ~(<<k, n>> \in R)
    BY <1>4
  <2>2. k \in Nat /\ n \in Nat
    OBVIOUS
  <2>3. ~(k < n)
    BY <1>2, <2>1, <2>2
  <2> QED
    BY <2>2, <2>3
<1> QED
  BY <1>5

Small(S, n) == {t \in SUBSET S : Cardinality(t) <= n}

\* Up to a number of steps the data are defined.
LEMMA RunsUpTo ==
    ASSUME NEW S, IsFiniteSet(S), NEW e, NEW base, NEW pick, NEW val,
           \A t \in SUBSET S : t # {} => pick[t] \in t,
           NEW n \in Nat
    PROVE  \E it : Runs(it, Small(S, n), e, base, pick, val)
<1> DEFINE D(k) == Small(S, k)
           Bad == {k \in Nat : ~\E it : Runs(it, D(k), e, base, pick, val)}
<1>0. \A t \in SUBSET S : IsFiniteSet(t) /\ Cardinality(t) \in Nat
  BY FS_Subset, FS_CardinalityType
<1>1. SUFFICES ASSUME Bad # {} PROVE FALSE
  OBVIOUS
<1>2. PICK k \in Bad : \A j \in Bad : k <= j
  <2>1. Bad \subseteq Nat
    OBVIOUS
  <2> HIDE DEF Bad
  <2> QED
    BY <1>1, <2>1, LeastNat
<1>2a. k \in Nat /\ ~\E it : Runs(it, D(k), e, base, pick, val)
  OBVIOUS
<1>2b. \A j \in Nat : j < k => \E it : Runs(it, D(j), e, base, pick, val)
  BY <1>2
<1> HIDE DEF Bad
<1>3. CASE k = 0
  <2>1. \A t \in D(0) : t = {}
    BY <1>0, FS_EmptySet DEF Small
  <2> DEFINE g == [t \in D(0) |-> base]
  <2>2. g = [t \in D(0) |-> IF t = {} THEN base ELSE Op(e, g[t \ {pick[t]}], val[pick[t]])]
    BY <2>1
  <2> HIDE DEF g
  <2>3. Runs(g, D(0), e, base, pick, val)
    BY <2>2 DEF Runs
  <2> QED
    BY <1>2a, <1>3, <2>3
<1>4. CASE k # 0
  <2>1. k - 1 \in Nat /\ k - 1 < k
    BY <1>2a, <1>4
  <2>2. PICK f : Runs(f, D(k - 1), e, base, pick, val)
    BY <1>2b, <2>1
  <2> DEFINE g == [t \in D(k) |-> IF t \in D(k - 1) THEN f[t]
                                  ELSE Op(e, f[t \ {pick[t]}], val[pick[t]])]
  <2>3. \A t \in D(k) : t # {} => t \ {pick[t]} \in D(k - 1) /\ t \ {pick[t]} \in D(k)
    <3> SUFFICES ASSUME NEW t \in D(k), t # {}
                 PROVE  t \ {pick[t]} \in D(k - 1) /\ t \ {pick[t]} \in D(k)
      OBVIOUS
    <3>1. t \in SUBSET S /\ pick[t] \in t
      BY DEF Small
    <3>2. Cardinality(t \ {pick[t]}) = Cardinality(t) - 1
      BY <1>0, <3>1, FS_RemoveElement
    <3>3. Cardinality(t) \in Nat /\ Cardinality(t) <= k
      BY <1>0, <3>1 DEF Small
    <3>4. Cardinality(t \ {pick[t]}) <= k - 1 /\ Cardinality(t \ {pick[t]}) <= k
      BY <1>2a, <3>2, <3>3
    <3> QED
      BY <3>1, <3>4 DEF Small
  <2>4. {} \in D(k - 1)
    BY <2>1, FS_EmptySet DEF Small
  <2>5. ASSUME NEW t \in D(k)
        PROVE  g[t] = IF t = {} THEN base ELSE Op(e, g[t \ {pick[t]}], val[pick[t]])
    <3>1. t # {} => g[t \ {pick[t]}] = f[t \ {pick[t]}]
      BY <2>3
    <3>2. t \in D(k - 1) => f[t] = IF t = {} THEN base ELSE Op(e, f[t \ {pick[t]}], val[pick[t]])
      BY <2>2 DEF Runs
    <3> QED
      BY <2>4, <3>1, <3>2
  <2>6. g = [t \in D(k) |-> g[t]]
    OBVIOUS
  <2> HIDE DEF g
  <2>7. g = [t \in D(k) |-> IF t = {} THEN base ELSE Op(e, g[t \ {pick[t]}], val[pick[t]])]
    BY <2>5, <2>6
  <2> QED
    BY <1>2a, <2>7 DEF Runs
<1> QED
  BY <1>3, <1>4

LEMMA RunsExist ==
    ASSUME NEW S, IsFiniteSet(S), NEW e, NEW base, NEW pick, NEW val,
           \A t \in SUBSET S : t # {} => pick[t] \in t
    PROVE  \E it : Runs(it, SUBSET S, e, base, pick, val)
<1> DEFINE n == Cardinality(S)
<1>1. \A t \in SUBSET S : Cardinality(t) <= n
  BY FS_Subset
<1>2. Small(S, n) = SUBSET S
  BY <1>1 DEF Small
<1>3. n \in Nat
  BY FS_CardinalityType
<1> HIDE DEF n
<1>4. \E it : Runs(it, Small(S, n), e, base, pick, val)
  BY <1>3, RunsUpTo
<1> QED
  BY <1>2, <1>4

\* What is passed on from the steps before the last one to all steps is true of
\* any number of them.
LEMMA StepByStep ==
    ASSUME NEW S, IsFiniteSet(S), NEW pick, NEW Good,
           \A t \in SUBSET S : t # {} => pick[t] \in t,
           \A t \in SUBSET S : (t # {} => t \ {pick[t]} \in Good) => t \in Good
    PROVE  S \in Good
<1> DEFINE Bad == {n \in Nat : \E t \in SUBSET S : Cardinality(t) = n /\ t \notin Good}
<1>0. \A t \in SUBSET S : IsFiniteSet(t) /\ Cardinality(t) \in Nat
  BY FS_Subset, FS_CardinalityType
<1>1. SUFFICES ASSUME S \notin Good PROVE FALSE
  OBVIOUS
<1>2. Bad \subseteq Nat /\ Bad # {}
  BY <1>0, <1>1
<1>3. PICK n \in Bad : \A k \in Bad : n <= k
  <2> HIDE DEF Bad
  <2> QED
    BY <1>2, LeastNat
<1>4. PICK t \in SUBSET S : Cardinality(t) = n /\ t \notin Good
  OBVIOUS
<1>5. t # {} /\ t \ {pick[t]} \notin Good /\ pick[t] \in t
  BY <1>4
<1>6. Cardinality(t \ {pick[t]}) = n - 1
  BY <1>0, <1>4, <1>5, FS_RemoveElement
<1>7. n \in Nat /\ Cardinality(t \ {pick[t]}) \in Nat
  BY <1>0
<1>8. n - 1 \in Bad
  BY <1>5, <1>6, <1>7
<1> HIDE DEF Bad
<1> QED
  BY <1>3, <1>7, <1>8

LEMMA GreatestStep ==
    ASSUME NEW N \in Nat, NEW t \in SUBSET (1..N), t # {}
    PROVE  Max(t) \in t /\ \A y \in t : Max(t) >= y
<1> DEFINE T == {k \in Nat : \A y \in t : y <= k}
<1>1. N \in T
  OBVIOUS
<1>2. PICK n \in T : \A k \in T : n <= k
  <2>1. T \subseteq Nat /\ T # {}
    BY <1>1
  <2> HIDE DEF T
  <2> QED
    BY <2>1, LeastNat
<1>3. n \in Nat /\ \A y \in t : y <= n
  OBVIOUS
<1>4. n \in t
  <2>1. SUFFICES ASSUME n \notin t PROVE FALSE
    OBVIOUS
  <2>2. n # 0
    <3>1. PICK y \in t : TRUE
      OBVIOUS
    <3>2. y \in 1..N /\ y <= n
      BY <1>3, <3>1
    <3> QED
      BY <3>2
  <2>3. \A y \in t : y <= n - 1
    <3> SUFFICES ASSUME NEW y \in t PROVE y <= n - 1
      OBVIOUS
    <3>1. y \in Nat /\ y <= n /\ y # n
      BY <1>3, <2>1
    <3> QED
      BY <1>3, <3>1
  <2>4. n - 1 \in T
    BY <1>3, <2>2, <2>3
  <2>5. n <= n - 1
    BY <1>2, <2>4
  <2> QED
    BY <1>3, <2>5
<1>5. \E x \in t : \A y \in t : x >= y
  BY <1>3, <1>4
<1> QED
  BY <1>5 DEF Max

\* The invariant of a loop over a list: it holds before, and the n-th turn keeps
\* it.  Inv(e, n, d) says what d is after n turns.
THEOREM ListLoop ==
    ASSUME NEW e, NEW base, NEW S, NEW list \in Seq(S), Inv(e, 0, base),
           \A n \in 1..Len(list) : \A d : Inv(e, n - 1, d) => Inv(e, n, Op(e, d, list[n]))
    PROVE  Inv(e, Len(list), OverList(e, base, list))
<1> DEFINE I == 1..Len(list)
           pick == [t \in SUBSET I |-> Max(t)]
<1>0. Len(list) \in Nat /\ DOMAIN list = I
  BY LenProperties
<1>1. IsFiniteSet(I) /\ \A t \in SUBSET I : IsFiniteSet(t)
  <2>1. IsFiniteSet(I)
    BY <1>0, FS_Interval
  <2> HIDE DEF I
  <2> QED
    BY <2>1, FS_Subset
<1>2. \A t \in SUBSET I : t # {} => Max(t) \in t /\ \A y \in t : Max(t) >= y
  BY <1>0, GreatestStep
<1>3. \A t \in SUBSET I : t # {} => pick[t] \in t
  BY <1>2
<1>4. PICK it : Runs(it, SUBSET I, e, base, pick, list)
  <2> HIDE DEF I, pick
  <2> QED
    BY <1>1, <1>3, RunsExist
<1> DEFINE Body(f) == [t \in SUBSET I |->
                          IF t = {} THEN base ELSE Op(e, f[t \ {Max(t)}], list[Max(t)])]
           run == CHOOSE f : f = Body(f)
<1>5. it = Body(it)
  BY <1>4 DEF Runs
<1>6. run = Body(run)
  <2> HIDE DEF Body
  <2> QED
    BY <1>5, Zenon
<1>7. OverList(e, base, list) = run[I]
  BY <1>0 DEF OverList, FoldLeft, MapThenFoldSet
<1>8. Runs(run, SUBSET I, e, base, pick, list)
  <2> HIDE DEF run
  <2> QED
    BY <1>6 DEF Runs
<1> HIDE DEF run, Body
<1> DEFINE Good == {t \in SUBSET I : \A n \in 0..Len(list) : t = 1..n => Inv(e, n, run[t])}
<1>9. ASSUME NEW t \in SUBSET I, t # {} => t \ {pick[t]} \in Good
      PROVE  t \in Good
  <2> SUFFICES ASSUME NEW n \in 0..Len(list), t = 1..n
               PROVE  Inv(e, n, run[t])
    OBVIOUS
  <2>1. CASE n = 0
    <3>1. t = {}
      BY <2>1
    <3>2. run[t] = base
      BY <1>8, <3>1 DEF Runs
    <3> QED
      BY <2>1, <3>2
  <2>2. CASE n # 0
    <3>1. n \in 1..Len(list) /\ n - 1 \in 0..Len(list)
      BY <1>0, <2>2
    <3>2. t # {} /\ Max(t) = n
      <4>1. t # {} /\ n \in t
        <5>1. n \in 1..n
          BY <3>1
        <5> QED
          BY <5>1
      <4>2. Max(t) \in t /\ Max(t) >= n
        BY <1>2, <4>1
      <4> QED
        BY <3>1, <4>1, <4>2
    <3>3. t \ {n} = 1..(n - 1)
      BY <3>1
    <3>4. pick[t] = n
      BY <3>2
    <3>5. Inv(e, n - 1, run[t \ {n}])
      <4>1. t \ {n} \in Good
        BY <1>9, <3>2, <3>4
      <4> QED
        BY <3>1, <3>3, <4>1
    <3>6. run[t] = Op(e, run[t \ {n}], list[n])
      <4> HIDE DEF pick
      <4> QED
        BY <1>8, <3>2, <3>4 DEF Runs
    <3> QED
      BY <3>1, <3>5, <3>6
  <2> QED
    BY <2>1, <2>2
<1>10. I \in Good
  <2>1. \A t \in SUBSET I : (t # {} => t \ {pick[t]} \in Good) => t \in Good
    BY <1>9
  <2> HIDE DEF I, pick, Good
  <2> QED
    BY <1>1, <1>3, <2>1, StepByStep
<1>11. Inv(e, Len(list), run[I])
  <2>1. Len(list) \in 0..Len(list) /\ I = 1..Len(list)
    BY <1>0
  <2>2. \A n \in 0..Len(list) : I = 1..n => Inv(e, n, run[I])
    BY <1>10
  <2> HIDE DEF I, Good
  <2> QED
    BY <2>1, <2>2
<1> QED
  BY <1>7, <1>11

\* The invariant of a loop over a set: Inv(e, t, d) says what d is after the
\* elements of t.
THEOREM SetLoop ==
    ASSUME NEW e, NEW base, NEW S, IsFiniteSet(S), Inv(e, {}, base),
           \A t \in SUBSET S, x \in S : \A d :
              x \notin t /\ Inv(e, t, d) => Inv(e, t \cup {x}, Op(e, d, x))
    PROVE  Inv(e, S, OverSet(e, base, S))
<1> DEFINE pick == [t \in SUBSET S |-> CHOOSE x \in t : TRUE]
           val == [x \in S |-> x]
<1>1. \A t \in SUBSET S : t # {} => (CHOOSE x \in t : TRUE) \in t
  OBVIOUS
<1>2. \A t \in SUBSET S : t # {} => pick[t] \in t
  BY <1>1
<1>3. PICK it : Runs(it, SUBSET S, e, base, pick, val)
  <2> HIDE DEF pick, val
  <2> QED
    BY <1>2, RunsExist
<1> DEFINE Body(f) == [t \in SUBSET S |-> IF t = {} THEN base
                          ELSE Op(e, f[t \ {CHOOSE x \in t : TRUE}], CHOOSE x \in t : TRUE)]
           run == CHOOSE f : f = Body(f)
<1>4. ASSUME NEW t \in SUBSET S, t # {}
      PROVE  pick[t] = (CHOOSE x \in t : TRUE) /\ val[pick[t]] = (CHOOSE x \in t : TRUE)
  BY <1>1, <1>4
<1>5. it = Body(it)
  <2> HIDE DEF pick, val
  <2> QED
    BY <1>3, <1>4 DEF Runs
<1>6. run = Body(run)
  <2> HIDE DEF Body
  <2> QED
    BY <1>5, Zenon
<1>7. OverSet(e, base, S) = run[S]
  BY DEF OverSet, FoldSet, MapThenFoldSet
<1>8. Runs(run, SUBSET S, e, base, pick, val)
  <2> HIDE DEF run, pick, val
  <2> QED
    BY <1>4, <1>6 DEF Runs
<1> HIDE DEF run, Body
<1> DEFINE Good == {t \in SUBSET S : Inv(e, t, run[t])}
<1>9. ASSUME NEW t \in SUBSET S, t # {} => t \ {pick[t]} \in Good
      PROVE  t \in Good
  <2>1. CASE t = {}
    <3>1. run[t] = base
      BY <1>8, <2>1 DEF Runs
    <3> QED
      BY <2>1, <3>1
  <2>2. CASE t # {}
    <3> DEFINE x == pick[t]
    <3>1. x \in t /\ x \in S /\ val[x] = x
      BY <1>2, <2>2
    <3> HIDE DEF pick
    <3>2. run[t] = Op(e, run[t \ {x}], x)
      BY <1>8, <2>2, <3>1 DEF Runs
    <3>3. Inv(e, t \ {x}, run[t \ {x}])
      BY <1>9, <2>2
    <3> HIDE DEF x
    <3>4. Inv(e, (t \ {x}) \cup {x}, run[t])
      BY <3>1, <3>2, <3>3
    <3>5. (t \ {x}) \cup {x} = t
      BY <3>1
    <3> QED
      BY <3>4, <3>5
  <2> QED
    BY <2>1, <2>2
<1>10. S \in Good
  <2>1. \A t \in SUBSET S : (t # {} => t \ {pick[t]} \in Good) => t \in Good
    BY <1>9
  <2> HIDE DEF pick, val, Good
  <2> QED
    BY <1>2, <2>1, StepByStep
<1> QED
  BY <1>7, <1>10
=============================================================================
