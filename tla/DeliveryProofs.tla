--------------------------- MODULE DeliveryProofs --------------------------
(***************************************************************************)
(* Proofs about Delivery: type correctness, and DeliveryInv with NoLoss,   *)
(* for every value of the constants.                                       *)
(*                                                                         *)
(* The handlers are compositions of the list operations of                 *)
(* OutgoingMessages.  Each operation gets two lemmas: it preserves         *)
(* WellFormed, and it relates the messages before and after (Evolves).     *)
(* The invariants are then proved from these relations, one step per       *)
(* action.                                                                 *)
(***************************************************************************)
EXTENDS Delivery, FiniteSetTheorems, TLAPS

USE DEF Pubs

\* A msgs_out value with finite lists and a quota within its maximum.
WellFormed(D) ==
    /\ D \in MsgData /\ D.quota <= D.maximum
    /\ IsFiniteSet(D.inflight) /\ IsFiniteSet(D.queued)

TypeInv == TypeOK /\ WellFormed(msgs_out)

\* e is the message d at a later time.
Follows(e, d) ==
    e.pub = d.pub /\ e.mid = d.mid /\ e.qos = d.qos /\ (IsLate(e) => IsLate(d))

\* From D to E no message appears, and of the QoS 1 and 2 messages only
\* publications of lost disappear.
Evolves(D, E, lost) ==
    /\ WellFormed(E)
    /\ \A e \in Messages(E) : \E d \in Messages(D) : Follows(e, d)
    /\ \A d \in Messages(D) : d.qos > 0 =>
          d.pub \in lost \/ \E e \in Messages(E) : e.pub = d.pub /\ e.qos = d.qos

----------------------------------------------------------------------------
(* Finite sets and list positions.                                         *)

\* The image of a finite set under a function is finite.
LEMMA FiniteImage ==
    ASSUME NEW S, IsFiniteSet(S), NEW T, NEW f \in [S -> T]
    PROVE  IsFiniteSet({f[x] : x \in S})
<1> DEFINE R == {f[x] : x \in S}
<1>1. f \in Surjection(S, R)
  BY DEF Surjection
<1> QED
  BY <1>1, FS_Surjection

\* An index in a finite list (a msg_index of database.c) is a natural number.
LEMMA BeforeNat ==
    ASSUME NEW L, IsFiniteSet(L), NEW m
    PROVE  Before(L, m) \in Nat
<1>1. {x \in L : x.pos < m.pos} \in SUBSET L
  OBVIOUS
<1> QED
  BY <1>1, FS_Subset, FS_CardinalityType DEF Before

\* util__increment_send_quota and util__decrement_send_quota keep the quota
\* between 0 and the maximum.
LEMMA QuotaRange ==
    ASSUME NEW D, D.quota \in Nat, D.maximum \in Nat, D.quota <= D.maximum,
           NEW n \in Nat
    PROVE  /\ Raise(D, n) \in Nat /\ Raise(D, n) <= D.maximum
           /\ Lower(D.quota, n) \in Nat /\ Lower(D.quota, n) <= D.quota
           /\ Lower(D.maximum, n) \in Nat /\ Lower(D.maximum, n) <= D.maximum
  BY DEF Raise, Lower

----------------------------------------------------------------------------
(* Type correctness of the list operations.                                *)

\* Giving messages the publish state of their qos (the switch statements of
\* database.c) yields messages.
LEMMA MarkType ==
    ASSUME NEW L, L \subseteq Msg, IsFiniteSet(L), NEW R
    PROVE  Mark(L, R) \subseteq Msg /\ IsFiniteSet(Mark(L, R))
<1> DEFINE f == [m \in L |-> IF m \in R THEN [m EXCEPT !.state = PublishState(m.qos)] ELSE m]
<1>1. Mark(L, R) = {f[m] : m \in L}
  BY DEF Mark
<1>2. f \in [L -> Msg]
  BY DEF Msg, MsgStates, PublishState
<1> HIDE DEF f
<1>3. IsFiniteSet({f[m] : m \in L})
  BY <1>2, FiniteImage
<1> QED
  BY <1>1, <1>2, <1>3

\* db__message_dequeue_first preserves well-formedness.
LEMMA DequeueType ==
    ASSUME NEW D, WellFormed(D), NEW S, S \subseteq D.queued
    PROVE  /\ WellFormed(Dequeue(D, S))
           /\ Dequeue(D, S).maximum = D.maximum
<1> DEFINE f == [m \in S |-> [m EXCEPT !.pos = D.appended + 1 + Before(S, m)]]
           E == Dequeue(D, S)
<1>1. IsFiniteSet(S) /\ Cardinality(S) \in Nat
  BY FS_Subset, FS_CardinalityType DEF WellFormed
<1>2. D.inflight \subseteq Msg /\ D.queued \subseteq Msg /\ D.quota \in Nat
      /\ D.maximum \in Nat /\ D.count12 \in Int /\ D.appended \in Nat
  BY DEF WellFormed, MsgData
<1>3. \A m \in S : f[m] \in Msg
  <2> TAKE m \in S
  <2>1. m \in Msg
    BY <1>2
  <2>2. D.appended + 1 + Before(S, m) \in Nat
    BY <1>1, <1>2, BeforeNat
  <2> QED
    BY <2>1, <2>2 DEF Msg
<1>4. {f[m] : m \in S} = {[m EXCEPT !.pos = D.appended + 1 + Before(S, m)] : m \in S}
  OBVIOUS
<1> DEFINE I == D.inflight \cup {f[m] : m \in S}
           Q == D.queued \ S
           q == Lower(D.quota, Cardinality(S))
           a == D.appended + Cardinality(S)
<1>5. E = [D EXCEPT !.inflight = I, !.queued = Q, !.quota = q, !.appended = a]
  BY <1>4 DEF Dequeue
<1>6. f \in [S -> Msg]
  BY <1>3
<1> HIDE DEF f
<1>7. IsFiniteSet({f[m] : m \in S}) /\ {f[m] : m \in S} \subseteq Msg
  BY <1>1, <1>6, FiniteImage
<1>8. IsFiniteSet(I) /\ I \subseteq Msg
  BY <1>2, <1>7, FS_Union DEF WellFormed
<1>9. IsFiniteSet(Q) /\ Q \subseteq Msg
  BY <1>2, FS_Subset DEF WellFormed
<1>10. q \in Nat /\ q <= D.maximum /\ a \in Nat
  BY <1>1, <1>2 DEF Lower, WellFormed
<1> HIDE DEF E, I, Q, q, a
<1>11. /\ E \in MsgData
       /\ E.inflight = I /\ E.queued = Q /\ E.quota = q /\ E.maximum = D.maximum
  BY <1>5, <1>8, <1>9, <1>10 DEF WellFormed, MsgData
<1> QED
  BY <1>8, <1>9, <1>10, <1>11 DEF WellFormed, E

----------------------------------------------------------------------------
(* What the list operations do to the messages.                            *)

\* Operations compose.
LEMMA EvolvesTrans ==
    ASSUME NEW D, NEW E, NEW F, NEW l1, NEW l2,
           Evolves(D, E, l1), Evolves(E, F, l2)
    PROVE  Evolves(D, F, l1 \cup l2)
<1>1. \A f \in Messages(F) : \E d \in Messages(D) : Follows(f, d)
  <2> TAKE f \in Messages(F)
  <2>1. PICK e \in Messages(E) : Follows(f, e)
    BY DEF Evolves
  <2>2. PICK d \in Messages(D) : Follows(e, d)
    BY DEF Evolves
  <2> QED
    BY <2>1, <2>2 DEF Follows
<1>2. \A d \in Messages(D) : d.qos > 0 =>
          d.pub \in l1 \cup l2 \/ \E f \in Messages(F) : f.pub = d.pub /\ f.qos = d.qos
  BY DEF Evolves
<1> QED
  BY <1>1, <1>2 DEF Evolves

\* db__message_dequeue_first moves messages, it loses and makes none.
LEMMA DequeueEvolves ==
    ASSUME NEW D, WellFormed(D), NEW S, S \subseteq D.queued
    PROVE  Evolves(D, Dequeue(D, S), {})
<1> DEFINE E == Dequeue(D, S)
           mv(m) == [m EXCEPT !.pos = D.appended + 1 + Before(S, m)]
<1>1. E.inflight = D.inflight \cup {mv(m) : m \in S} /\ E.queued = D.queued \ S
  BY DEF Dequeue, WellFormed, MsgData
<1>2. \A m \in S : m \in Msg
  BY DEF WellFormed, MsgData
<1>3. \A m \in S : /\ mv(m).pub = m.pub /\ mv(m).mid = m.mid
                   /\ mv(m).qos = m.qos /\ mv(m).state = m.state
  BY <1>2 DEF Msg
<1> HIDE DEF E, mv
<1>4. \A e \in Messages(E) : \E d \in Messages(D) : Follows(e, d)
  BY <1>1, <1>3 DEF Messages, Follows, IsLate
<1>5. \A d \in Messages(D) : \E e \in Messages(E) : e.pub = d.pub /\ e.qos = d.qos
  BY <1>1, <1>3 DEF Messages
<1> QED
  BY <1>4, <1>5, DequeueType DEF Evolves, E

\* Marking queued messages changes only their state, to one that is not late.
LEMMA MarkEvolves ==
    ASSUME NEW D, WellFormed(D), NEW R
    PROVE  /\ Evolves(D, [D EXCEPT !.queued = Mark(D.queued, R)], {})
           /\ [D EXCEPT !.queued = Mark(D.queued, R)].queued = Mark(D.queued, R)
           /\ [D EXCEPT !.queued = Mark(D.queued, R)].inflight = D.inflight
<1> DEFINE Q == Mark(D.queued, R)
           E == [D EXCEPT !.queued = Q]
           mk(m) == IF m \in R THEN [m EXCEPT !.state = PublishState(m.qos)] ELSE m
<1>1. Q \subseteq Msg /\ IsFiniteSet(Q)
  BY MarkType DEF WellFormed, MsgData
<1>2. Q = {mk(m) : m \in D.queued}
  BY DEF Mark
<1>3. \A m \in D.queued : m \in Msg
  BY DEF WellFormed, MsgData
<1>4. \A m \in D.queued : /\ mk(m).pub = m.pub /\ mk(m).mid = m.mid
                          /\ mk(m).qos = m.qos /\ (IsLate(mk(m)) => IsLate(m))
  BY <1>3 DEF Msg, IsLate, PublishState
<1> HIDE DEF Q, mk
<1>5. WellFormed(E) /\ E.maximum = D.maximum /\ E.queued = Q /\ E.inflight = D.inflight
  BY <1>1 DEF WellFormed, MsgData
<1> HIDE DEF E
<1>6. \A e \in Messages(E) : \E d \in Messages(D) : Follows(e, d)
  BY <1>2, <1>4, <1>5 DEF Messages, Follows
<1>7. \A d \in Messages(D) : \E e \in Messages(E) : e.pub = d.pub /\ e.qos = d.qos
  BY <1>2, <1>4, <1>5 DEF Messages
<1> QED
  BY <1>5, <1>6, <1>7 DEF Evolves, E, Q

\* The loops that refill inflight from queued lose and make no message.
LEMMA PromoteEvolves ==
    ASSUME NEW D, WellFormed(D), NEW n
    PROVE  Evolves(D, Promote(D, n), {})
<1> DEFINE Q == Mark(D.queued, FirstN(D.queued, n))
           E == [D EXCEPT !.queued = Q]
<1>1. Evolves(D, E, {}) /\ E.queued = Q
  BY MarkEvolves
<1>2. FirstN(Q, n) \subseteq E.queued
  BY <1>1 DEF FirstN
<1>3. Promote(D, n) = Dequeue(E, FirstN(Q, n))
  BY DEF Promote
<1> HIDE DEF E, Q
<1>4. Evolves(E, Dequeue(E, FirstN(Q, n)), {})
  BY <1>1, <1>2, DequeueEvolves DEF Evolves
<1> QED
  BY <1>1, <1>3, <1>4, EvolvesTrans

\* db__message_write_queued_out and the refill of db__message_delete_outgoing
\* are such loops.
LEMMA RefillEvolves ==
    ASSUME NEW D, WellFormed(D), NEW n
    PROVE  Evolves(D, WriteQueuedOut(D), {}) /\ Evolves(D, RefillFrom(D, n), {})
  BY PromoteEvolves DEF WriteQueuedOut, RefillFrom

\* db__message_write_inflight_out_single loses only what it gives up and QoS 0
\* messages, which it has sent.
LEMMA WriteEvolves ==
    ASSUME NEW D, WellFormed(D), NEW W, W \subseteq D.inflight
    PROVE  Evolves(D, Write(D, W), Shed(W))
<1> DEFINE E == Write(D, W)
           gone == {m \in W : IsGone(m)}
           refund == {m \in Qos12(W) : m.pub \in expired}
           f == [m \in W \ gone |-> Advance(m)]
           I == (D.inflight \ W) \cup {f[m] : m \in W \ gone}
           q == Raise(D, Cardinality(refund))
           c == D.count12 - Cardinality(Qos12(gone))
<1>1. D.inflight \subseteq Msg /\ D.queued \subseteq Msg /\ D.quota \in Nat
      /\ D.maximum \in Nat /\ D.quota <= D.maximum /\ D.count12 \in Int
  BY DEF WellFormed, MsgData
<1>2. IsFiniteSet(W) /\ IsFiniteSet(gone) /\ IsFiniteSet(W \ gone)
      /\ IsFiniteSet(refund) /\ IsFiniteSet(Qos12(gone)) /\ IsFiniteSet(D.inflight \ W)
  BY FS_Subset DEF WellFormed, Qos12
<1>3. Cardinality(refund) \in Nat /\ Cardinality(Qos12(gone)) \in Nat
  BY <1>2, FS_CardinalityType
<1>4. \A m \in W : /\ Advance(m) \in Msg
                   /\ Advance(m).pub = m.pub /\ Advance(m).mid = m.mid
                   /\ Advance(m).qos = m.qos /\ (IsLate(Advance(m)) => IsLate(m))
  BY <1>1 DEF Advance, Msg, MsgStates, IsLate
<1>5. E = [D EXCEPT !.inflight = I, !.quota = q, !.count12 = c]
  <2>1. {f[m] : m \in W \ gone} = {Advance(m) : m \in W \ gone}
    OBVIOUS
  <2> QED
    BY <2>1 DEF Write
<1>6. f \in [W \ gone -> Msg] /\ \A m \in W \ gone : f[m] = Advance(m)
  BY <1>4
<1>7. q \in Nat /\ q <= D.maximum /\ c \in Int
  BY <1>1, <1>3, QuotaRange
<1> HIDE DEF f, gone
<1>8. IsFiniteSet({f[m] : m \in W \ gone}) /\ {f[m] : m \in W \ gone} \subseteq Msg
  <2> DEFINE U == W \ gone
  <2>1. IsFiniteSet(U) /\ f \in [U -> Msg]
    BY <1>2, <1>6
  <2> HIDE DEF U
  <2>2. IsFiniteSet({f[m] : m \in U}) /\ {f[m] : m \in U} \subseteq Msg
    BY <2>1, FiniteImage
  <2> QED
    BY <2>2 DEF U
<1>9. IsFiniteSet(I) /\ I \subseteq Msg
  BY <1>1, <1>2, <1>8, FS_Union
<1> HIDE DEF E, I, q, c
<1>10. E \in MsgData /\ E.inflight = I /\ E.queued = D.queued /\ E.quota = q
       /\ E.maximum = D.maximum
  BY <1>5, <1>7, <1>9 DEF WellFormed, MsgData
<1>11. WellFormed(E)
  BY <1>7, <1>9, <1>10 DEF WellFormed
<1>12. \A e \in Messages(E) : \E d \in Messages(D) : Follows(e, d)
  <2> TAKE e \in Messages(E)
  <2>1. CASE e \in Messages(D)
    BY <2>1 DEF Follows
  <2>2. CASE e \notin Messages(D)
    <3>1. PICK m \in W \ gone : e = f[m]
      BY <1>10, <2>2 DEF Messages, I
    <3>2. m \in Messages(D)
      BY <3>1 DEF Messages
    <3> QED
      BY <3>1, <3>2, <1>4, <1>6 DEF Follows
  <2> QED
    BY <2>1, <2>2
<1>13. \A d \in Messages(D) : d.qos > 0 =>
         d.pub \in Shed(W) \/ \E e \in Messages(E) : e.pub = d.pub /\ e.qos = d.qos
  <2> SUFFICES ASSUME NEW d \in Messages(D), d.qos > 0
               PROVE  \/ d.pub \in Shed(W)
                      \/ \E e \in Messages(E) : e.pub = d.pub /\ e.qos = d.qos
    OBVIOUS
  <2>1. CASE d \in gone
    BY <2>1 DEF PubsOf, Shed, Qos12, gone
  <2>2. CASE d \in W \ gone
    <3>1. f[d] \in Messages(E) /\ f[d].pub = d.pub /\ f[d].qos = d.qos
      BY <2>2, <1>4, <1>6, <1>10 DEF Messages, I
    <3> QED
      BY <3>1
  <2>3. CASE d \notin W
    BY <2>3, <1>10 DEF Messages, I
  <2> QED
    BY <2>1, <2>2, <2>3
<1> QED
  BY <1>10, <1>11, <1>12, <1>13 DEF Evolves, E, gone

\* db__message_remove in db__message_delete_outgoing.
LEMMA RemoveEvolves ==
    ASSUME NEW D, WellFormed(D), NEW m \in D.inflight
    PROVE  Evolves(D, Remove(D, m), {m.pub})
<1> DEFINE E == Remove(D, m)
           I == D.inflight \ {m}
           c == IF m.qos > 0 THEN D.count12 - 1 ELSE D.count12
<1>1. IsFiniteSet(I) /\ I \subseteq Msg /\ c \in Int
  BY FS_Subset DEF WellFormed, MsgData
<1>2. E = [D EXCEPT !.inflight = I, !.count12 = c]
  BY DEF Remove
<1> HIDE DEF I, c, E
<1>3. WellFormed(E) /\ E.inflight = I /\ E.queued = D.queued
  BY <1>1, <1>2 DEF WellFormed, MsgData
<1> QED
  BY <1>3 DEF Evolves, Messages, Follows, E, I

\* util__increment_send_quota leaves the lists alone.
LEMMA RaiseEvolves ==
    ASSUME NEW D, WellFormed(D)
    PROVE  /\ Evolves(D, [D EXCEPT !.quota = Raise(D, 1)], {})
           /\ [D EXCEPT !.quota = Raise(D, 1)].inflight = D.inflight
           /\ [D EXCEPT !.quota = Raise(D, 1)].queued = D.queued
<1> DEFINE q == Raise(D, 1)
           E == [D EXCEPT !.quota = q]
<1>1. q \in Nat /\ q <= D.maximum
  BY QuotaRange DEF WellFormed, MsgData
<1> HIDE DEF q
<1>2. WellFormed(E) /\ E.inflight = D.inflight /\ E.queued = D.queued
  BY <1>1 DEF WellFormed, MsgData
<1> HIDE DEF E
<1> QED
  BY <1>2 DEF Evolves, Messages, Follows, E, q

\* connection_check_acl loses only what the client may no longer read.
LEMMA CheckAclEvolves ==
    ASSUME NEW D, WellFormed(D), NEW denied
    PROVE  Evolves(D, CheckAcl(D, denied), denied)
<1> DEFINE E == CheckAcl(D, denied)
           I == {m \in D.inflight : m.pub \notin denied}
           Q == {m \in D.queued : m.pub \notin denied}
<1>1. IsFiniteSet(I) /\ I \subseteq Msg /\ IsFiniteSet(Q) /\ Q \subseteq Msg
  BY FS_Subset DEF WellFormed, MsgData
<1>2. E = [D EXCEPT !.inflight = I, !.queued = Q]
  BY DEF CheckAcl
<1> HIDE DEF E, I, Q
<1>3. WellFormed(E) /\ E.inflight = I /\ E.queued = Q
  BY <1>1, <1>2 DEF WellFormed, MsgData
<1> QED
  BY <1>3 DEF Evolves, Messages, Follows, E, I, Q

\* db__message_reconnect_reset_outgoing loses and makes no message, and a
\* message is late afterwards only if it was late before.
LEMMA ReconnectResetEvolves ==
    ASSUME NEW D, WellFormed(D), NEW max \in Nat
    PROVE  Evolves(D, ReconnectReset(D, max), {})
<1> DEFINE quota == Lower(max, Cardinality(Qos12(D.inflight)))
           ready == IF max = 0 THEN D.queued
                    ELSE FirstN(D.queued, quota) \cup {m \in D.queued : m.qos = 0}
           Q == Mark(D.queued, ready)
           f == [m \in D.inflight |-> ResetState(m)]
           I == {f[m] : m \in D.inflight}
           c == Cardinality(Qos12(D.inflight)) + Cardinality(Qos12(D.queued))
           E == [D EXCEPT !.inflight = I, !.queued = Q, !.quota = quota,
                          !.maximum = max, !.count12 = c]
           mk(m) == IF m \in ready THEN [m EXCEPT !.state = PublishState(m.qos)] ELSE m
<1>1. D.inflight \subseteq Msg /\ D.queued \subseteq Msg
  BY DEF WellFormed, MsgData
<1>2. IsFiniteSet(Qos12(D.inflight)) /\ IsFiniteSet(Qos12(D.queued))
  BY FS_Subset DEF WellFormed, Qos12
<1>3. Cardinality(Qos12(D.inflight)) \in Nat /\ Cardinality(Qos12(D.queued)) \in Nat
  BY <1>2, FS_CardinalityType
<1>4. quota \in Nat /\ quota <= max /\ c \in Int
  BY <1>3 DEF Lower
<1>5. Q \subseteq Msg /\ IsFiniteSet(Q)
  BY <1>1, MarkType DEF WellFormed
<1>6. \A m \in D.inflight : /\ f[m] \in Msg
                            /\ f[m].pub = m.pub /\ f[m].mid = m.mid
                            /\ f[m].qos = m.qos /\ (IsLate(f[m]) => IsLate(m))
  BY <1>1 DEF ResetState, Msg, MsgStates, IsLate, PublishState
<1>7. f \in [D.inflight -> Msg]
  BY <1>6
<1>8. ReconnectReset(D, max) = Dequeue(E, FirstN(Q, Cardinality(ready)))
  <2>1. I = {ResetState(m) : m \in D.inflight}
    OBVIOUS
  <2> QED
    BY <2>1 DEF ReconnectReset
<1>9. \A m \in D.queued : /\ mk(m).pub = m.pub /\ mk(m).mid = m.mid
                          /\ mk(m).qos = m.qos /\ (IsLate(mk(m)) => IsLate(m))
  BY <1>1 DEF Msg, IsLate, PublishState
<1>10. Q = {mk(m) : m \in D.queued}
  BY DEF Mark
<1> HIDE DEF f
<1>11. IsFiniteSet(I) /\ I \subseteq Msg
  BY <1>7, FiniteImage DEF WellFormed
<1> HIDE DEF quota, Q, c, mk, ready
<1>12. I \in SUBSET Msg
  BY <1>11
<1> HIDE DEF I
<1>13. WellFormed(E) /\ E.inflight = I /\ E.queued = Q
  BY <1>4, <1>5, <1>11 DEF WellFormed, MsgData
<1> HIDE DEF E
<1>14. \A e \in Messages(E) : \E d \in Messages(D) : Follows(e, d)
  BY <1>6, <1>9, <1>10, <1>13 DEF Messages, Follows, I
<1>15. \A d \in Messages(D) : \E e \in Messages(E) : e.pub = d.pub /\ e.qos = d.qos
  BY <1>6, <1>9, <1>10, <1>13 DEF Messages, I
<1>16. Evolves(D, E, {})
  BY <1>13, <1>14, <1>15 DEF Evolves
<1>17. Evolves(E, Dequeue(E, FirstN(Q, Cardinality(ready))), {})
  BY <1>13, DequeueEvolves DEF FirstN
<1> QED
  BY <1>8, <1>16, <1>17, EvolvesTrans

\* A resumed session (connect__on_authorised up to the write).
LEMMA ResumedEvolves ==
    ASSUME WellFormed(msgs_out), NEW max \in Nat, NEW denied
    PROVE  /\ Evolves(msgs_out, Restored(max, denied), denied)
           /\ Evolves(msgs_out, Resumed(max, denied), denied)
<1> DEFINE E == ReconnectReset(msgs_out, max)
           F == CheckAcl(E, denied)
           G == WriteQueuedOut(F)
<1>1. Evolves(msgs_out, E, {})
  BY ReconnectResetEvolves
<1> HIDE DEF E
<1>2. Evolves(E, F, denied)
  BY <1>1, CheckAclEvolves DEF Evolves
<1> HIDE DEF F
<1>3. Evolves(F, G, {})
  BY <1>2, RefillEvolves DEF Evolves
<1>4. Evolves(E, G, denied \cup {})
  BY <1>2, <1>3, EvolvesTrans
<1>5. Evolves(msgs_out, G, {} \cup (denied \cup {}))
  BY <1>1, <1>4, EvolvesTrans
<1>6. Evolves(msgs_out, F, {} \cup denied)
  BY <1>1, <1>2, EvolvesTrans
<1>7. {} \cup (denied \cup {}) = denied /\ {} \cup denied = denied
  OBVIOUS
<1> QED
  BY <1>5, <1>6, <1>7 DEF Resumed, Restored, E, F, G

\* db__message_insert adds at most one message, with the next mid, in a state
\* in which no PUBREC has been seen.
LEMMA InsertAdds ==
    ASSUME TypeInv, published < MaxPublish, NEW qos \in 0..2, NEW full
    PROVE  LET E == Insert(msgs_out, qos, full)
           IN  /\ WellFormed(E)
               /\ \/ E = msgs_out
                  \/ \E m \in Msg :
                       /\ Messages(E) = Messages(msgs_out) \cup {m}
                       /\ m.pub = published + 1 /\ m.qos = qos /\ ~IsLate(m)
                       /\ m.mid = IF qos > 0 THEN NextMid ELSE 0
<1> DEFINE D == msgs_out
           E == Insert(D, qos, full)
           flies == sock /\ ReadyForFlight(D, qos, full)
           waits == /\ ~flies /\ ReadyForQueue(D, qos)
                    /\ qos > 0 \/ (~sock /\ QueueQos0)
           m == [pub |-> published + 1, mid |-> IF qos > 0 THEN NextMid ELSE 0,
                 qos |-> qos, pos |-> D.appended + 1,
                 state |-> IF flies THEN PublishState(qos) ELSE "queued"]
           I == IF flies THEN D.inflight \cup {m} ELSE D.inflight
           Q == IF waits THEN D.queued \cup {m} ELSE D.queued
           c == IF qos > 0 THEN D.count12 + 1 ELSE D.count12
           q == IF qos > 0 THEN Lower(D.quota, 1) ELSE D.quota
           a == D.appended + 1
<1>1. WellFormed(D)
  BY DEF TypeInv
<1>2. CASE ~flies /\ ~waits
  <2>1. E = D
    BY <1>2 DEF Insert
  <2> QED
    BY <1>1, <2>1
<1>3. CASE flies \/ waits
  <2>1. NextMid \in 0..MidLimit
    BY OutAssumption DEF TypeInv, TypeOK, NextMid
  <2>2. m \in Msg
    BY <2>1, <1>1, OutAssumption DEF Msg, MsgStates, PublishState, WellFormed, MsgData,
       TypeInv, TypeOK
  <2>3. m.pub = published + 1 /\ m.qos = qos /\ ~IsLate(m)
        /\ m.mid = IF qos > 0 THEN NextMid ELSE 0
    BY DEF IsLate, PublishState
  <2>4. E = [D EXCEPT !.inflight = I, !.queued = Q, !.count12 = c, !.quota = q,
                      !.appended = a]
    BY <1>3 DEF Insert
  <2>5. flies => ~waits
    OBVIOUS
  <2> HIDE DEF m, flies, waits
  <2>6. IsFiniteSet(D.inflight \cup {m}) /\ IsFiniteSet(D.queued \cup {m})
    BY <1>1, FS_AddElement DEF WellFormed
  <2>7. IsFiniteSet(I) /\ IsFiniteSet(Q) /\ I \subseteq Msg /\ Q \subseteq Msg
    BY <1>1, <2>2, <2>6 DEF WellFormed, MsgData
  <2>8. c \in Int /\ q \in Nat /\ q <= D.maximum /\ a \in Nat
    BY <1>1 DEF WellFormed, MsgData, Lower
  <2>9. I \cup Q = D.inflight \cup D.queued \cup {m}
    BY <1>3
  <2> HIDE DEF I, Q, c, q, a, E, D
  <2>10. WellFormed(E) /\ E.inflight = I /\ E.queued = Q
    BY <1>1, <2>4, <2>7, <2>8 DEF WellFormed, MsgData
  <2>11. Messages(E) = Messages(D) \cup {m}
    BY <2>9, <2>10 DEF Messages
  <2> QED
    BY <2>2, <2>3, <2>10, <2>11 DEF D, E
<1> QED
  BY <1>2, <1>3

\* The packets db__message_write_inflight_out_single sends: a PUBLISH for a
\* message in a publish state, a PUBREL for one in state resend_pubrel.
LEMMA SentPackets ==
    ASSUME NEW W, W \subseteq Msg
    PROVE  /\ Sent(W) \subseteq Packet(Pubs)
           /\ \A k \in Sent(W) : \E m \in W :
                 /\ k.mid = m.mid /\ k.pub = m.pub /\ k.qos = m.qos
                 /\ \/ k.type = "PUBLISH" /\ IsPublish(m)
                    \/ k.type = "PUBREL" /\ m.state = "resend_pubrel"
<1>1. \A m \in Msg : PublishPacket(m) \in Packet(Pubs) /\ PubrelPacket(m) \in Packet(Pubs)
  BY OutAssumption DEF Msg, Packet, PacketTypes, PublishPacket, PubrelPacket
<1>2. \A k \in Sent(W) : \E m \in W :
         \/ k = PublishPacket(m) /\ IsPublish(m)
         \/ k = PubrelPacket(m) /\ m.state = "resend_pubrel"
  BY DEF Sent
<1>3. Sent(W) \subseteq Packet(Pubs)
  BY <1>1, <1>2
<1> QED
  BY <1>2, <1>3 DEF PublishPacket, PubrelPacket

\* What the loops write is inflight, and what they give up was a message.
LEMMA WrittenSets ==
    ASSUME NEW D, WellFormed(D), NEW n
    PROVE  /\ Latest(D) \subseteq D.inflight /\ FirstN(D.inflight, n) \subseteq D.inflight
           /\ D.inflight \subseteq Msg
           /\ \A W : W \subseteq D.inflight => Shed(W) \subseteq Pubs
  BY DEF WellFormed, MsgData, Latest, FirstN, Shed, PubsOf, Qos12, Msg

----------------------------------------------------------------------------
(* Every broker handler, seen from the messages.                           *)

\* A handler that starts from the lists D and ends by writing: nothing appears,
\* what disappears is in lost or in discarded', and every new packet is about
\* a message of D.
Outcome(D, lost) ==
    /\ WellFormed(msgs_out')
    /\ \A e \in Messages(msgs_out') : \E d \in Messages(D) : Follows(e, d)
    /\ \A d \in Messages(D) : d.qos > 0 =>
          \/ d.pub \in lost \cup discarded'
          \/ \E e \in Messages(msgs_out') : e.pub = d.pub
    /\ toClient' \subseteq Packet(Pubs)
    /\ \A k \in toClient' : k \in toClient \/ \E d \in Messages(D) :
          /\ k.mid = d.mid /\ k.pub = d.pub /\ k.qos = d.qos
          /\ k.type = "PUBLISH" \/ (k.type = "PUBREL" /\ IsLate(d))
    /\ toBroker' \subseteq toBroker
    /\ discarded \subseteq discarded' /\ discarded' \subseteq Pubs

\* The common end of the handlers: db__message_write_inflight_out_latest or
\* _all, alone or followed by db__message_write_queued_out.
LEMMA WriteOutcome ==
    ASSUME TypeInv, NEW D, NEW E, NEW lost, Evolves(D, E, lost),
           NEW W, W \subseteq E.inflight,
           msgs_out' \in {Write(E, W), WriteQueuedOut(Write(E, W))},
           toClient' \in {toClient \cup Sent(W), Sent(W), {}},
           toBroker' \subseteq toBroker,
           discarded \cup Shed(W) \subseteq discarded', discarded' \subseteq Pubs
    PROVE  Outcome(D, lost)
<1>1. WellFormed(E)
  BY DEF Evolves
<1>2. Evolves(E, Write(E, W), Shed(W))
  BY <1>1, WriteEvolves
<1>3. Evolves(E, msgs_out', Shed(W))
  <2>1. CASE msgs_out' = Write(E, W)
    BY <2>1, <1>2
  <2>2. CASE msgs_out' = WriteQueuedOut(Write(E, W))
    <3> DEFINE F == Write(E, W)
    <3> HIDE DEF F
    <3>1. Evolves(E, F, Shed(W)) /\ WellFormed(F)
      BY <1>2 DEF F, Evolves
    <3>2. Evolves(F, WriteQueuedOut(F), {})
      BY <3>1, RefillEvolves
    <3>3. Evolves(E, WriteQueuedOut(F), Shed(W) \cup {})
      BY <3>1, <3>2, EvolvesTrans
    <3>4. Shed(W) \cup {} = Shed(W)
      OBVIOUS
    <3> QED
      BY <3>3, <3>4, <2>2 DEF F
  <2> QED
    BY <2>1, <2>2
<1>4. Evolves(D, msgs_out', lost \cup Shed(W))
  BY <1>3, EvolvesTrans
<1>5. W \subseteq Msg
  BY <1>1 DEF WellFormed, MsgData
<1>6. toClient' \subseteq Packet(Pubs)
  BY <1>5, SentPackets DEF TypeInv, TypeOK
<1>7. ASSUME NEW k \in toClient', k \notin toClient
      PROVE  \E d \in Messages(D) :
               /\ k.mid = d.mid /\ k.pub = d.pub /\ k.qos = d.qos
               /\ k.type = "PUBLISH" \/ (k.type = "PUBREL" /\ IsLate(d))
  <2>1. k \in Sent(W)
    BY <1>7
  <2>2. PICK m \in W : /\ k.mid = m.mid /\ k.pub = m.pub /\ k.qos = m.qos
                       /\ k.type = "PUBLISH" \/ (k.type = "PUBREL" /\ IsLate(m))
    BY <2>1, <1>5, SentPackets DEF IsLate
  <2>3. m \in Messages(E)
    BY DEF Messages
  <2>4. PICK d \in Messages(D) : Follows(m, d)
    BY <2>3 DEF Evolves
  <2> QED
    BY <2>2, <2>4 DEF Follows
<1> QED
  BY <1>4, <1>6, <1>7 DEF Outcome, Evolves

\* A handler that ends without writing to the socket.
LEMMA IdleOutcome ==
    ASSUME TypeInv, NEW D, Evolves(D, msgs_out', {}),
           toClient' \subseteq toClient, toBroker' \subseteq toBroker,
           discarded' = discarded
    PROVE  Outcome(D, {})
  BY DEF Outcome, Evolves, TypeInv, TypeOK

\* An operation that changes nothing.
LEMMA EvolvesSame ==
    ASSUME NEW D, WellFormed(D)
    PROVE  Evolves(D, D, {})
  BY DEF Evolves, Follows

\* subs__send and retain__queue: the outcome of the inserted lists.
LEMMA ArrivalOutcome ==
    ASSUME TypeInv, NEW qos \in 0..2, NEW full, NEW blocked,
           Publish(qos, full) \/ Subscribe(qos, full, blocked)
    PROVE  Outcome(Insert(msgs_out, qos, full), {})
<1> DEFINE D == Insert(msgs_out, qos, full)
<1>1. published < MaxPublish
  BY DEF Publish, Subscribe, Arrive
<1>2. WellFormed(D)
  BY <1>1, InsertAdds
<1>3. toBroker' = toBroker
  BY DEF Publish, Subscribe, Arrive
<1>4. CASE msgs_out' = D /\ UNCHANGED <<toClient, discarded>>
  <2> HIDE DEF D
  <2>1. Evolves(D, msgs_out', {})
    BY <1>2, <1>4, EvolvesSame
  <2> QED
    BY <2>1, <1>3, <1>4, IdleOutcome DEF D
<1>5. CASE msgs_out' = WriteQueuedOut(Write(D, Latest(D))) /\ FlushLatest(D)
  <2> HIDE DEF D
  <2>1. Evolves(D, D, {}) /\ Latest(D) \subseteq D.inflight /\ Shed(Latest(D)) \subseteq Pubs
    BY <1>2, EvolvesSame, WrittenSets
  <2>2. discarded' = discarded \cup Shed(Latest(D)) /\ discarded' \subseteq Pubs
    BY <1>5, <2>1 DEF FlushLatest, TypeInv, TypeOK
  <2>3. Outcome(D, {})
    BY <1>3, <1>5, <2>1, <2>2, WriteOutcome DEF FlushLatest
  <2> QED
    BY <2>3 DEF D
<1>6. CASE LET E == WriteQueuedOut(D)
           IN  msgs_out' = Write(E, Latest(E)) /\ FlushLatest(E)
  <2> DEFINE E == WriteQueuedOut(D)
  <2> HIDE DEF D
  <2>1. Evolves(D, E, {})
    BY <1>2, RefillEvolves
  <2>2. msgs_out' = Write(E, Latest(E)) /\ FlushLatest(E)
    BY <1>6
  <2> HIDE DEF E
  <2>3. Latest(E) \subseteq E.inflight /\ Shed(Latest(E)) \subseteq Pubs
    BY <2>1, WrittenSets DEF Evolves
  <2>4. discarded' = discarded \cup Shed(Latest(E)) /\ discarded' \subseteq Pubs
    BY <2>2, <2>3 DEF FlushLatest, TypeInv, TypeOK
  <2>5. Outcome(D, {})
    BY <1>3, <2>1, <2>2, <2>3, <2>4, WriteOutcome DEF FlushLatest
  <2> QED
    BY <2>5 DEF D
<1> QED
  BY <1>4, <1>5, <1>6 DEF Publish, Subscribe

\* handle__subscribe when nothing is retained.
LEMMA SubscribeOutcome ==
    ASSUME TypeInv, SubscribeOnly
    PROVE  Outcome(msgs_out, {})
<1> DEFINE E == WriteQueuedOut(msgs_out)
<1>1. Evolves(msgs_out, E, {})
  BY RefillEvolves DEF TypeInv
<1>2. msgs_out' = Write(E, Latest(E)) /\ FlushLatest(E) /\ toBroker' = toBroker
  BY DEF SubscribeOnly
<1> HIDE DEF E
<1>3. Latest(E) \subseteq E.inflight /\ Shed(Latest(E)) \subseteq Pubs
  BY <1>1, WrittenSets DEF Evolves
<1>4. discarded' = discarded \cup Shed(Latest(E)) /\ discarded' \subseteq Pubs
  BY <1>2, <1>3 DEF FlushLatest, TypeInv, TypeOK
<1> QED
  BY <1>1, <1>2, <1>3, <1>4, WriteOutcome DEF FlushLatest

\* connect__on_authorised, complete or interrupted by a failing write.
LEMMA ResumeOutcome ==
    ASSUME TypeInv, NEW max \in Nat, NEW denied, NEW n,
           Resume(max, denied) \/ ConnectFails(max, denied, n)
    PROVE  Outcome(msgs_out, {})
<1> DEFINE D == Resumed(max, denied)
<1>1. Evolves(msgs_out, D, denied)
  BY ResumedEvolves DEF TypeInv
<1>2. PICK W : /\ W \in {D.inflight, FirstN(D.inflight, n)}
               /\ msgs_out' = Write(D, W)
               /\ toClient' \in {Sent(W), {}} /\ toBroker' = {}
               /\ discarded' = discarded \cup Shed(W) \cup (Held \cap denied)
  <2>1. CASE Resume(max, denied)
    BY <2>1 DEF Resume
  <2>2. CASE ConnectFails(max, denied, n)
    BY <2>2 DEF ConnectFails, CloseSocket, ChannelClosed
  <2> QED
    BY <2>1, <2>2
<1> HIDE DEF D
<1>3. W \subseteq D.inflight /\ Shed(W) \subseteq Pubs
  BY <1>1, <1>2, WrittenSets DEF Evolves
<1>4. Held \subseteq Pubs
  BY DEF Held, PubsOf, TypeInv, TypeOK, MsgData, Msg
<1>5. discarded \cup Shed(W) \subseteq discarded' /\ discarded' \subseteq Pubs
  BY <1>2, <1>3, <1>4 DEF TypeInv, TypeOK
<1>6. Outcome(msgs_out, denied)
  BY <1>1, <1>2, <1>3, <1>5, WriteOutcome
<1>7. \A d \in Messages(msgs_out) : d.pub \in denied => d.pub \in discarded'
  BY <1>2 DEF Messages, Held, PubsOf
<1> QED
  BY <1>6, <1>7 DEF Outcome

\* connect__on_authorised when the CONNACK cannot be sent.
LEMMA ConnackOutcome ==
    ASSUME TypeInv, NEW max \in Nat, NEW denied, ConnackFails(max, denied)
    PROVE  Outcome(msgs_out, {})
<1>1. Evolves(msgs_out, msgs_out', denied)
  BY ResumedEvolves DEF ConnackFails, TypeInv
<1>2. /\ toClient' = {} /\ toBroker' = {}
      /\ discarded' = discarded \cup (Held \cap denied)
  BY DEF ConnackFails, CloseSocket, ChannelClosed
<1>3. Held \subseteq Pubs
  BY DEF Held, PubsOf, TypeInv, TypeOK, MsgData, Msg
<1>4. \A d \in Messages(msgs_out) : d.pub \in denied => d.pub \in discarded'
  BY <1>2 DEF Messages, Held, PubsOf
<1>5. discarded \subseteq discarded' /\ discarded' \subseteq Pubs
  BY <1>2, <1>3 DEF TypeInv, TypeOK
<1> QED
  BY <1>1, <1>2, <1>4, <1>5 DEF Outcome, Evolves

\* db__message_delete_outgoing: at most the acknowledged message is lost, and
\* it has the mid and the qos the handler looked for.
LEMMA DeleteOutcome ==
    ASSUME TypeInv, NEW D, Evolves(msgs_out, D, {}), NEW pkt, NEW qos \in 1..2,
           NEW expect, DeleteOutgoing(D, pkt, qos, expect)
    PROVE  \/ Outcome(msgs_out, {})
           \/ \E m \in Messages(msgs_out) :
                 m.mid = pkt.mid /\ m.qos > 0 /\ Outcome(msgs_out, {m.pub})
<1>1. CASE \E m \in D.inflight :
              /\ IsMismatch(m, qos, expect)
              /\ msgs_out' = D /\ CloseSocket /\ UNCHANGED discarded
  BY <1>1, IdleOutcome DEF CloseSocket, ChannelClosed
<1>2. ASSUME NEW E, NEW lost, Evolves(msgs_out, E, lost),
             msgs_out' = Write(E, Latest(E)), FlushLatest(E),
             toBroker' = toBroker \ {pkt}
      PROVE  Outcome(msgs_out, lost)
  <2>1. Latest(E) \subseteq E.inflight /\ Shed(Latest(E)) \subseteq Pubs
    BY <1>2, WrittenSets DEF Evolves
  <2>2. discarded' = discarded \cup Shed(Latest(E)) /\ discarded' \subseteq Pubs
    BY <1>2, <2>1 DEF FlushLatest, TypeInv, TypeOK
  <2> QED
    BY <1>2, <2>1, <2>2, WriteOutcome DEF FlushLatest
<1>3. CASE LET E == RefillFrom(D, Cardinality(D.inflight))
           IN  /\ msgs_out' = Write(E, Latest(E)) /\ FlushLatest(E)
               /\ toBroker' = toBroker \ {pkt}
  <2> DEFINE E == RefillFrom(D, Cardinality(D.inflight))
  <2>1. Evolves(D, E, {})
    BY RefillEvolves DEF Evolves
  <2>2. Evolves(msgs_out, E, {} \cup {})
    BY <2>1, EvolvesTrans
  <2>3. msgs_out' = Write(E, Latest(E)) /\ FlushLatest(E) /\ toBroker' = toBroker \ {pkt}
    BY <1>3
  <2> HIDE DEF E
  <2>4. Evolves(msgs_out, E, {})
    BY <2>2 DEF Evolves
  <2> QED
    BY <1>2, <2>3, <2>4
<1>4. ASSUME NEW m \in D.inflight, IsFirstMatch(D.inflight, pkt.mid, m),
             ~IsMismatch(m, qos, expect),
             LET E == RefillFrom(Remove(D, m), Before(D.inflight, m))
             IN  /\ msgs_out' = Write(E, Latest(E)) /\ FlushLatest(E)
                 /\ toBroker' = toBroker \ {pkt}
      PROVE  \E d \in Messages(msgs_out) :
                 d.mid = pkt.mid /\ d.qos > 0 /\ Outcome(msgs_out, {d.pub})
  <2> DEFINE F == Remove(D, m)
             E == RefillFrom(F, Before(D.inflight, m))
  <2>1. Evolves(D, F, {m.pub})
    BY RemoveEvolves DEF Evolves
  <2>2. Evolves(F, E, {})
    <3> HIDE DEF F
    <3> QED
      BY <2>1, RefillEvolves DEF Evolves
  <2>3. msgs_out' = Write(E, Latest(E)) /\ FlushLatest(E) /\ toBroker' = toBroker \ {pkt}
    BY <1>4
  <2> HIDE DEF E, F
  <2>4. Evolves(D, E, {m.pub} \cup {})
    BY <2>1, <2>2, EvolvesTrans
  <2>5. Evolves(msgs_out, E, {} \cup ({m.pub} \cup {}))
    BY <2>4, EvolvesTrans
  <2>6. Evolves(msgs_out, E, {m.pub})
    BY <2>5 DEF Evolves
  <2>7. Outcome(msgs_out, {m.pub})
    BY <1>2, <2>3, <2>6
  <2>8. PICK d \in Messages(msgs_out) : Follows(m, d)
    BY DEF Evolves, Messages
  <2>9. d.pub = m.pub /\ d.mid = pkt.mid /\ d.qos = qos
    BY <1>4, <2>8 DEF Follows, IsFirstMatch, IsMismatch
  <2>10. d.mid = pkt.mid /\ d.qos > 0
    BY <2>9
  <2>11. Outcome(msgs_out, {d.pub})
    BY <2>7, <2>9
  <2> QED
    BY <2>10, <2>11
<1> QED
  BY <1>1, <1>3, <1>4 DEF DeleteOutgoing

\* What handle__pubackcomp and handle__pubrec with an error code do to the
\* lists.
LEMMA AckOutcome ==
    ASSUME TypeInv, NEW pkt, HandlePubackcomp(pkt) \/ HandlePubrecRefused(pkt)
    PROVE  \/ Outcome(msgs_out, {})
           \/ \E m \in Messages(msgs_out) :
                 m.mid = pkt.mid /\ m.qos > 0 /\ Outcome(msgs_out, {m.pub})
<1>1. CASE HandlePubackcomp(pkt)
  <2> DEFINE D == [msgs_out EXCEPT !.quota = Raise(msgs_out, 1)]
             qos == IF pkt.type = "PUBACK" THEN 1 ELSE 2
  <2>1. Evolves(msgs_out, D, {})
    BY RaiseEvolves DEF TypeInv
  <2>2. DeleteOutgoing(D, pkt, qos, "wait_for_pubcomp") /\ qos \in 1..2
    BY <1>1 DEF HandlePubackcomp
  <2> HIDE DEF D, qos
  <2> QED
    BY <2>1, <2>2, DeleteOutcome
<1>2. CASE HandlePubrecRefused(pkt)
  <2>1. Evolves(msgs_out, msgs_out, {})
    BY EvolvesSame DEF TypeInv
  <2>2. DeleteOutgoing(msgs_out, pkt, 2, "wait_for_pubrec")
    BY <1>2 DEF HandlePubrecRefused
  <2> QED
    BY <2>1, <2>2, DeleteOutcome
<1> QED
  BY <1>1, <1>2

\* handle__pubrec for a message it finds: only the state of that message
\* changes.
LEMMA PubrecLists ==
    ASSUME TypeInv, NEW m \in msgs_out.inflight, m.qos = 2,
           msgs_out' = [msgs_out EXCEPT !.inflight =
                (@ \ {m}) \cup {[m EXCEPT !.state = "wait_for_pubcomp"]}]
    PROVE  /\ WellFormed(msgs_out')
           /\ \E n \in Msg :
                 /\ n = [m EXCEPT !.state = "wait_for_pubcomp"]
                 /\ n.pub = m.pub /\ n.mid = m.mid /\ n.qos = m.qos
                 /\ msgs_out'.inflight = (msgs_out.inflight \ {m}) \cup {n}
                 /\ msgs_out'.queued = msgs_out.queued
<1> DEFINE n == [m EXCEPT !.state = "wait_for_pubcomp"]
           I == (msgs_out.inflight \ {m}) \cup {n}
<1>1. m \in Msg
  BY DEF TypeInv, WellFormed, MsgData
<1>2. n \in Msg /\ n.pub = m.pub /\ n.mid = m.mid /\ n.qos = m.qos
  BY <1>1 DEF Msg, MsgStates
<1> HIDE DEF n
<1>3. IsFiniteSet(I) /\ I \subseteq Msg
  <2> DEFINE J == msgs_out.inflight \ {m}
  <2>1. IsFiniteSet(J) /\ J \subseteq Msg
    BY FS_Subset DEF TypeInv, WellFormed, MsgData
  <2> HIDE DEF J
  <2>2. IsFiniteSet(J \cup {n})
    BY <2>1, FS_AddElement
  <2> QED
    BY <1>2, <2>1, <2>2 DEF J
<1>4. msgs_out' = [msgs_out EXCEPT !.inflight = I]
  BY DEF n
<1> HIDE DEF I
<1>5. WellFormed(msgs_out') /\ msgs_out'.inflight = I /\ msgs_out'.queued = msgs_out.queued
  BY <1>3, <1>4 DEF TypeInv, WellFormed, MsgData
<1>6. n = [m EXCEPT !.state = "wait_for_pubcomp"]
  BY DEF n
<1>7. msgs_out'.inflight = (msgs_out.inflight \ {m}) \cup {n}
  BY <1>5 DEF I
<1> QED
  BY <1>2, <1>5, <1>6, <1>7

----------------------------------------------------------------------------
(* Type correctness.                                                       *)

\* The handlers preserve the types and the finiteness of the lists.
LEMMA TypePreserved ==
    ASSUME TypeInv, [Next]_vars
    PROVE  TypeInv'
<1> USE OutAssumption
<1>1. ASSUME NEW D, NEW lost, Outcome(D, lost)
      PROVE  /\ WellFormed(msgs_out') /\ msgs_out' \in MsgData
             /\ msgs_out'.quota <= msgs_out'.maximum
             /\ toClient' \subseteq Packet(Pubs) /\ toBroker' \subseteq Packet(Pubs)
             /\ discarded' \subseteq Pubs
  BY <1>1 DEF Outcome, WellFormed, TypeInv, TypeOK
<1>2. ASSUME NEW pkt \in Packet(Pubs), NEW type \in PacketTypes
      PROVE  Answer(pkt, type) \in Packet(Pubs)
  BY <1>2 DEF Packet, Answer
<1>3. CASE BrokerPublish \/ BrokerSubscribe
  <2>1. PICK qos \in QosLevels, full \in Blocked, blocked \in BOOLEAN :
           (Publish(qos, full) \/ Subscribe(qos, full, blocked)) /\ UNCHANGED clientVars
    BY <1>3 DEF BrokerPublish, BrokerSubscribe, Blocked
  <2>2. qos \in 0..2
    OBVIOUS
  <2>3. Outcome(Insert(msgs_out, qos, full), {})
    BY <2>1, <2>2, ArrivalOutcome
  <2>4. PICK D : Arrive(qos, D)
    BY <2>1 DEF Publish, Subscribe
  <2>5. last_mid' \in 0..MidLimit /\ published' \in 0..MaxPublish
        /\ accepted' \subseteq Pubs
    BY <2>4 DEF Arrive, NextMid, TypeInv, TypeOK
  <2> QED
    BY <1>1, <2>1, <2>3, <2>4, <2>5 DEF Arrive, clientVars, TypeInv, TypeOK
<1>9. CASE BrokerSubscribeOnly
  <2>1. Outcome(msgs_out, {})
    BY <1>9, SubscribeOutcome DEF BrokerSubscribeOnly
  <2>2. UNCHANGED <<sock, last_mid, published, expired, drops, accepted, released, clientVars>>
    BY <1>9 DEF BrokerSubscribeOnly, SubscribeOnly
  <2> QED
    BY <1>1, <2>1, <2>2 DEF clientVars, TypeInv, TypeOK
<1>4. CASE BrokerExpire \/ BrokerDisconnect
  <2>1. UNCHANGED <<msgs_out, last_mid, published, accepted, discarded, released, clientVars>>
    BY <1>4 DEF BrokerExpire, Expire, BrokerDisconnect, Disconnect, history
  <2>2. toClient' \subseteq toClient /\ toBroker' \subseteq toBroker
    BY <1>4 DEF BrokerExpire, Expire, BrokerDisconnect, Disconnect, CloseSocket,
       ChannelClosed, channel
  <2>3. expired' \subseteq Pubs /\ drops' \in Nat
    <3>1. CASE BrokerExpire
      BY <3>1 DEF BrokerExpire, Expire, TypeInv, TypeOK
    <3>2. CASE BrokerDisconnect
      BY <3>2 DEF BrokerDisconnect, Disconnect, CloseSocket, TypeInv, TypeOK
    <3> QED
      BY <1>4, <3>1, <3>2
  <2>4. sock' = sock \/ sock' = FALSE
    BY <1>4 DEF BrokerExpire, Expire, BrokerDisconnect, Disconnect, CloseSocket
  <2> QED
    BY <2>1, <2>2, <2>3, <2>4 DEF clientVars, TypeInv, TypeOK, WellFormed
<1>5. CASE BrokerConnect \/ BrokerTakeover \/ BrokerConnectFails \/ BrokerConnackFails
  <2>1. PICK max \in Maxima, denied \in SUBSET Revocable, n \in 0..MaxPublish :
           /\ \/ Resume(max, denied) \/ ConnectFails(max, denied, n)
              \/ ConnackFails(max, denied)
           /\ drops' \in {drops, drops + 1}
           /\ UNCHANGED clientVars
    BY <1>5 DEF BrokerConnect, BrokerTakeover, BrokerConnectFails, BrokerConnackFails,
       Connect, Takeover, ConnectFails, ConnackFails, CloseSocket
  <2>2. Outcome(msgs_out, {})
    BY <2>1, ResumeOutcome, ConnackOutcome
  <2> QED
    <3>1. sock' = TRUE \/ sock' = FALSE
      BY <2>1 DEF Resume, ConnectFails, ConnackFails, CloseSocket
    <3>2. UNCHANGED <<last_mid, published, expired, accepted, released>>
      BY <2>1 DEF Resume, ConnectFails, ConnackFails
    <3> QED
      <4>1. drops' \in Nat
        BY <2>1 DEF TypeInv, TypeOK
      <4>2. UNCHANGED <<msgs_in, stored, delivered, givenUp>>
        BY <2>1 DEF clientVars
      <4> QED
        BY <1>1, <2>2, <3>1, <3>2, <4>1, <4>2 DEF TypeInv, TypeOK
<1>6. CASE \E p \in Pubs : BrokerAck(p)
  <2>1. PICK pkt \in toBroker : HandleAck(pkt) /\ UNCHANGED clientVars
    BY <1>6 DEF BrokerAck
  <2>2. CASE HandlePubackcomp(pkt) \/ HandlePubrecRefused(pkt)
    <3>1. \E lost : Outcome(msgs_out, lost)
      BY <2>2, AckOutcome
    <3>2. UNCHANGED <<last_mid, published, expired, accepted, released>>
      BY <2>2 DEF HandlePubackcomp, HandlePubrecRefused
    <3>3. UNCHANGED <<sock, drops>> \/ CloseSocket
      BY <2>2 DEF HandlePubackcomp, HandlePubrecRefused, DeleteOutgoing
    <3>4. (sock' = sock \/ sock' = FALSE) /\ drops' \in Nat
      BY <3>3 DEF CloseSocket, TypeInv, TypeOK
    <3> QED
      BY <1>1, <2>1, <3>1, <3>2, <3>4 DEF clientVars, TypeInv, TypeOK
  <2>3. CASE HandlePubrec(pkt)
    <3>1. Answer(pkt, "PUBREL") \in Packet(Pubs)
      BY <1>2 DEF PacketTypes, TypeInv, TypeOK
    <3>2. /\ sock' = sock \/ sock' = FALSE
          /\ drops' \in Nat /\ released' \subseteq Pubs
          /\ toClient' \subseteq Packet(Pubs) /\ toBroker' \subseteq Packet(Pubs)
      <4>1. msgs_out.inflight \subseteq Msg
        BY DEF TypeInv, TypeOK, MsgData
      <4>2. \A m \in msgs_out.inflight : m.pub \in Pubs
        BY <4>1 DEF Msg
      <4> QED
        BY <2>3, <3>1, <4>2 DEF HandlePubrec, CloseSocket, ChannelClosed, TypeInv, TypeOK
    <3>3. WellFormed(msgs_out')
      <4>1. CASE msgs_out' = msgs_out
        BY <4>1 DEF TypeInv
      <4>2. CASE \E m \in msgs_out.inflight :
                   m.qos = 2 /\ msgs_out' = [msgs_out EXCEPT !.inflight =
                      (@ \ {m}) \cup {[m EXCEPT !.state = "wait_for_pubcomp"]}]
        BY <4>2, PubrecLists
      <4> QED
        BY <2>3, <4>1, <4>2 DEF HandlePubrec
    <3>4. UNCHANGED <<last_mid, published, expired, accepted, discarded>>
      BY <2>3 DEF HandlePubrec
    <3> QED
      BY <2>1, <3>2, <3>3, <3>4 DEF WellFormed, clientVars, TypeInv, TypeOK
  <2> QED
    BY <2>1, <2>2, <2>3 DEF HandleAck
<1>7. CASE \E p \in Pubs : ClientReceive(p)
  <2>1. PICK pkt \in toClient : ReceivePacket(pkt) /\ UNCHANGED outVars
    BY <1>7 DEF ClientReceive
  <2>2. pkt \in Packet(Pubs) /\ pkt.pub \in Pubs /\ pkt.mid \in Nat
    BY DEF TypeInv, TypeOK, Packet
  <2>3. toClient' \subseteq Packet(Pubs)
    BY <2>1 DEF ReceivePacket, ReceivePublish, ReceivePubrel, TypeInv, TypeOK
  <2>4. toBroker' \subseteq Packet(Pubs)
    <3>1. toBroker' = toBroker \/ \E type \in PacketTypes :
             toBroker' = toBroker \cup {Answer(pkt, type)}
      BY <2>1 DEF ReceivePacket, ReceivePublish, ReceivePubrel, ReceiveQos0, ReceiveQos1,
         ReceiveQos2, RefuseQos2, PacketTypes
    <3> QED
      BY <1>2, <2>2, <3>1 DEF TypeInv, TypeOK
  <2>5. delivered' \in [Pubs -> Nat]
    <3>1. delivered' = delivered \/ \E p \in Pubs : Deliver(p)
      BY <2>1, <2>2 DEF ReceivePacket, ReceivePublish, ReceivePubrel, ReceiveQos0,
         ReceiveQos1, ReceiveQos2, RefuseQos2, TypeInv, TypeOK, InMsg
    <3> QED
      BY <3>1 DEF Deliver, TypeInv, TypeOK
  <2>6. msgs_in' \subseteq InMsg(Pubs) /\ stored' \in Nat /\ givenUp' \subseteq Pubs
    <3>1. [mid |-> pkt.mid, pub |-> pkt.pub, pos |-> stored + 1] \in InMsg(Pubs)
      BY <2>2 DEF TypeInv, TypeOK, InMsg
    <3>2. /\ \/ msgs_in' \subseteq msgs_in
             \/ msgs_in' = msgs_in \cup {[mid |-> pkt.mid, pub |-> pkt.pub, pos |-> stored + 1]}
          /\ stored' \in {stored, stored + 1}
          /\ givenUp' \subseteq givenUp \cup {pkt.pub}
      BY <2>1 DEF ReceivePacket, ReceivePublish, ReceivePubrel, ReceiveQos0,
         ReceiveQos1, ReceiveQos2, RefuseQos2
    <3> QED
      BY <2>2, <3>1, <3>2 DEF TypeInv, TypeOK
  <2> QED
    BY <2>1, <2>3, <2>4, <2>5, <2>6 DEF outVars, session, history, TypeInv, TypeOK, WellFormed
<1>8. CASE UNCHANGED vars
  BY <1>8 DEF vars, outVars, session, history, clientVars, channel, TypeInv, TypeOK, WellFormed
<1>10. CASE \E p \in Pubs : ClientAnswerFails(p)
  <2>1. PICK pkt \in toClient : ReceivePubrelFails(pkt) /\ Disconnect
    BY <1>10 DEF ClientAnswerFails
  <2>2. PICK c \in msgs_in : msgs_in' = msgs_in \ {c} /\ givenUp' = givenUp \cup {c.pub}
    BY <2>1 DEF ReceivePubrelFails
  <2>3. c.pub \in Pubs
    BY DEF TypeInv, TypeOK, InMsg
  <2>4. /\ msgs_in' \subseteq InMsg(Pubs) /\ givenUp' \subseteq Pubs
        /\ UNCHANGED <<stored, delivered>>
    BY <2>1, <2>2, <2>3 DEF ReceivePubrelFails, TypeInv, TypeOK
  <2>5. /\ UNCHANGED <<msgs_out, last_mid, published, expired, accepted, discarded, released>>
        /\ sock' = FALSE /\ drops' = drops + 1 /\ toClient' = {} /\ toBroker' = {}
    BY <2>1 DEF Disconnect, CloseSocket, ChannelClosed, history
  <2>6. WellFormed(msgs_out)'
    BY <2>5 DEF TypeInv, WellFormed
  <2>7. sock' \in BOOLEAN
    BY <2>5
  <2>8. drops' \in Nat
    BY <2>5 DEF TypeInv, TypeOK
  <2>9. /\ msgs_out' \in MsgData /\ msgs_out'.quota <= msgs_out'.maximum
        /\ delivered' \in [Pubs -> Nat] /\ stored' \in Nat
    BY <2>4, <2>5 DEF TypeInv, TypeOK
  <2>10. TypeOK'
    BY <2>4, <2>5, <2>7, <2>8, <2>9 DEF TypeInv, TypeOK
  <2> QED
    BY <2>6, <2>10 DEF TypeInv
<1> QED
  BY <1>3, <1>4, <1>5, <1>6, <1>7, <1>8, <1>9, <1>10 DEF Next

\* The initial state: an empty session that has never been connected.
LEMMA TypeInit ==
    ASSUME Init
    PROVE  TypeInv
<1>1. PICK max \in Maxima : msgs_out = EmptyMsgData(max)
  BY DEF Init, OutInit
<1>2. WellFormed(msgs_out)
  BY <1>1, OutAssumption, FS_EmptySet DEF EmptyMsgData, WellFormed, MsgData
<1>3. sock = FALSE /\ drops = 0 /\ stored = 0 /\ last_mid = 0 /\ published = 0
      /\ expired = {} /\ accepted = {} /\ discarded = {} /\ released = {}
      /\ msgs_in = {} /\ givenUp = {} /\ toClient = {} /\ toBroker = {}
  BY DEF Init, OutInit, ChannelInit, ClientInit
<1>4. delivered \in [Pubs -> Nat]
  BY DEF Init, ClientInit
<1>5. sock \in BOOLEAN
  BY <1>3
<1>6. /\ last_mid \in 0..MidLimit /\ published \in 0..MaxPublish
      /\ drops \in Nat /\ stored \in Nat
  BY <1>3, OutAssumption
<1>7. msgs_out \in MsgData /\ msgs_out.quota <= msgs_out.maximum
  BY <1>2 DEF WellFormed
<1> QED
  BY <1>2, <1>3, <1>4, <1>5, <1>6, <1>7 DEF TypeInv, TypeOK

\* Type correctness of the broker's lists, the wire and the client, for every
\* configuration: the quota stays between 0 and the maximum through every
\* sequence of inserts, dequeues, acknowledgements and reconnections, and the
\* mid stays within its 16 bits.
THEOREM TypeCorrect == Spec => []TypeOK
<1>1. Init => TypeInv
  BY TypeInit
<1>2. TypeInv /\ [Next]_vars => TypeInv'
  BY TypePreserved
<1>3. TypeInv => TypeOK
  BY DEF TypeInv
<1> QED
  BY <1>1, <1>2, <1>3, PTL DEF Spec

----------------------------------------------------------------------------
(* No QoS 1 or 2 message is lost.                                          *)

\* D is the current lists, or these and a message that has just arrived.
Arrived(D) ==
    /\ Messages(msgs_out) \subseteq Messages(D)
    /\ \A d \in Messages(D) : d \in Messages(msgs_out) \/
          /\ d.pub = published + 1 /\ published' = published + 1 /\ ~IsLate(d)
          /\ d.qos > 0 => d.mid = last_mid + 1 /\ last_mid' = last_mid + 1
          /\ d.pub \in accepted' => d.qos > 0
    /\ \/ published' = published /\ last_mid' = last_mid
       \/ published' = published + 1 /\ last_mid' \in {last_mid, last_mid + 1}
    /\ accepted \subseteq accepted'
    /\ \A p \in accepted' : p \in accepted \/
          /\ p = published + 1 /\ published' = published + 1
          /\ \E d \in Messages(D) : d.pub = p /\ d.qos > 0

\* A broker handler that leaves the state of the messages to Outcome preserves
\* the invariant, if the client has what it removes.
LEMMA OutcomePreserves ==
    ASSUME TypeInv, DeliveryInv, NEW D, NEW lost, Outcome(D, lost), Arrived(D),
           UNCHANGED clientVars,
           \A p \in lost : delivered[p] > 0 \/ p \in discarded' \cup givenUp
    PROVE  DeliveryInv'
<1> USE DEF Messages
<1>1. UNCHANGED <<msgs_in, delivered, givenUp>>
  BY DEF clientVars
<1>2. published \in Nat /\ last_mid \in Nat /\ last_mid <= published
  BY OutAssumption DEF TypeInv, TypeOK, DeliveryInv, MidsAgree
<1>3. \A m \in Messages(msgs_out) : m \in Msg /\ m.pub \in Nat
  BY DEF TypeInv, TypeOK, MsgData, Msg
<1>4. \A m \in Messages(msgs_out) : m.pub <= published /\ (m.pub \in accepted => m.qos > 0)
  BY DEF DeliveryInv, AcceptedHasQos
<1>5. MidsAgree'
  <2>1. last_mid' <= published'
    BY <1>2 DEF Arrived
  <2>2. ASSUME NEW x \in Carriers'
        PROVE  \/ \E y \in Carriers : x.mid = y.mid /\ x.pub = y.pub
               \/ /\ x.mid = last_mid + 1 /\ last_mid' = last_mid + 1
                  /\ x.pub = published + 1
    <3>1. ASSUME NEW d \in Messages(D), d.qos > 0, x.mid = d.mid, x.pub = d.pub
          PROVE  \/ \E y \in Carriers : x.mid = y.mid /\ x.pub = y.pub
                 \/ /\ x.mid = last_mid + 1 /\ last_mid' = last_mid + 1
                    /\ x.pub = published + 1
      BY <3>1 DEF Arrived, Carriers, Qos12
    <3>2. CASE x \in Qos12(Messages(msgs_out'))
      <4>1. PICK d \in Messages(D) : Follows(x, d)
        BY <3>2 DEF Outcome, Qos12
      <4>2. d.qos > 0 /\ x.mid = d.mid /\ x.pub = d.pub
        BY <3>2, <4>1 DEF Follows, Qos12
      <4> QED
        BY <3>1, <4>2
    <3>3. CASE x \in Wire' /\ x.qos > 0
      <4>1. CASE x \in toClient \cup toBroker
        BY <3>3, <4>1 DEF Carriers, Wire
      <4>2. CASE x \notin toClient \cup toBroker
        <5>1. PICK d \in Messages(D) : x.mid = d.mid /\ x.pub = d.pub /\ x.qos = d.qos
          BY <3>3, <4>2 DEF Outcome, Wire
        <5> QED
          BY <3>1, <3>3, <5>1
      <4> QED
        BY <4>1, <4>2
    <3>4. CASE x \in msgs_in
      BY <3>4 DEF Carriers
    <3> QED
      BY <1>1, <2>2, <3>2, <3>3, <3>4 DEF Carriers
  <2>3. \A y \in Carriers : y.mid \in Nat /\ y.mid <= last_mid
    <3>1. \A y \in Carriers : y.mid \in Nat
      BY OutAssumption DEF Carriers, Wire, Qos12, TypeInv, TypeOK, MsgData, Msg, Packet, InMsg
    <3> QED
      BY <3>1 DEF DeliveryInv, MidsAgree
  <2>4. \A y, z \in Carriers : y.mid = z.mid => y.pub = z.pub
    BY DEF DeliveryInv, MidsAgree
  <2>5. ASSUME NEW x \in Carriers'
        PROVE  x.mid <= last_mid'
    BY <1>2, <2>2, <2>3 DEF Arrived
  <2>6. ASSUME NEW x \in Carriers', NEW y \in Carriers', x.mid = y.mid
        PROVE  x.pub = y.pub
    BY <1>2, <2>2, <2>3, <2>4, <2>6
  <2> QED
    BY <2>1, <2>5, <2>6 DEF MidsAgree
<1>6. StepsJustified'
  <2>1. \A x : AtClient(x) => AtClient(x)'
    BY <1>1 DEF AtClient
  <2>2. ASSUME NEW m \in Messages(D), IsLate(m)
        PROVE  m.qos > 0 /\ AtClient(m)
    BY <2>2 DEF Arrived, DeliveryInv, StepsJustified
  <2>3. ASSUME NEW m \in Messages(msgs_out'), IsLate(m)
        PROVE  m.qos > 0 /\ AtClient(m)'
    <3>1. PICK d \in Messages(D) : Follows(m, d)
      BY DEF Outcome
    <3>2. d.qos > 0 /\ AtClient(d)
      BY <2>2, <2>3, <3>1 DEF Follows
    <3>3. m.qos = d.qos /\ m.mid = d.mid /\ m.pub = d.pub
      BY <3>1 DEF Follows
    <3>4. AtClient(m)
      BY <3>2, <3>3 DEF AtClient
    <3> QED
      BY <2>1, <3>2, <3>3, <3>4
  <2>4. ASSUME NEW k \in toClient'
        PROVE  /\ k.type \in {"PUBLISH", "PUBREL"}
               /\ k.type = "PUBREL" => k.qos > 0 /\ AtClient(k)'
    <3>1. CASE k \in toClient
      BY <2>1, <3>1 DEF DeliveryInv, StepsJustified
    <3>2. CASE k \notin toClient
      <4>1. PICK d \in Messages(D) :
               /\ k.mid = d.mid /\ k.pub = d.pub /\ k.qos = d.qos
               /\ k.type = "PUBLISH" \/ (k.type = "PUBREL" /\ IsLate(d))
        BY <3>2 DEF Outcome
      <4>2. k.type = "PUBREL" => k.qos > 0 /\ AtClient(k)
        BY <2>2, <4>1 DEF AtClient
      <4> QED
        BY <2>1, <4>1, <4>2
    <3> QED
      BY <3>1, <3>2
  <2>5. ASSUME NEW k \in toBroker'
        PROVE  /\ k.qos > 0
               /\ k.type = "PUBACK" => delivered'[k.pub] > 0
               /\ k.type = "PUBCOMP" => delivered'[k.pub] > 0 \/ k.pub \in givenUp'
               /\ k.type = "PUBREC" => AtClient(k)'
               /\ k.type = "PUBREC_REFUSED" => k.pub \in givenUp'
    <3>1. k \in toBroker
      BY DEF Outcome
    <3> QED
      BY <1>1, <2>1, <3>1 DEF DeliveryInv, StepsJustified
  <2> QED
    BY <2>3, <2>4, <2>5 DEF StepsJustified
<1>7. AcceptedHasQos'
  <2>1. published <= published' /\ published' \in Nat
    BY <1>2 DEF Arrived
  <2>2. ASSUME NEW p \in accepted'
        PROVE  p <= published'
    <3>1. \A q \in accepted : q \in Nat /\ q <= published
      BY DEF TypeInv, TypeOK, DeliveryInv, AcceptedHasQos
    <3> QED
      BY <1>2, <2>1, <3>1 DEF Arrived
  <2>3. ASSUME NEW m \in Messages(msgs_out')
        PROVE  m.pub <= published' /\ (m.pub \in accepted' => m.qos > 0)
    <3>1. PICK d \in Messages(D) : Follows(m, d)
      BY DEF Outcome
    <3>2. d.pub <= published' /\ (d.pub \in accepted' => d.qos > 0)
      <4>1. CASE d \in Messages(msgs_out)
        <5>1. d.pub \in Nat /\ d.pub <= published
          BY <1>3, <1>4, <4>1
        <5>2. d.pub \in accepted' => d.pub \in accepted
          BY <1>2, <5>1 DEF Arrived
        <5> QED
          BY <1>2, <1>4, <2>1, <4>1, <5>1, <5>2
      <4>2. CASE d \notin Messages(msgs_out)
        BY <1>2, <4>2 DEF Arrived
      <4> QED
        BY <4>1, <4>2
    <3> QED
      BY <3>1, <3>2 DEF Follows
  <2> QED
    BY <2>2, <2>3 DEF AcceptedHasQos
<1>8. NoLoss'
  <2> SUFFICES ASSUME NEW p \in accepted'
               PROVE  p \in Held' \/ delivered'[p] > 0 \/ p \in discarded' \cup givenUp'
    BY DEF NoLoss
  <2>1. CASE \E d \in Messages(D) : d.pub = p /\ d.qos > 0
    <3>1. \/ p \in lost \cup discarded'
          \/ \E e \in Messages(msgs_out') : e.pub = p
      BY <2>1 DEF Outcome
    <3> QED
      BY <1>1, <3>1 DEF Held, PubsOf
  <2>2. CASE p \in accepted
    <3>1. CASE p \in Held
      <4>1. PICK m \in Messages(msgs_out) : m.pub = p
        BY <3>1 DEF Held, PubsOf
      <4> QED
        BY <1>4, <2>1, <2>2, <4>1 DEF Arrived
    <3>2. CASE p \notin Held
      BY <1>1, <2>2, <3>2 DEF DeliveryInv, NoLoss, Outcome
    <3> QED
      BY <3>1, <3>2
  <2> QED
    BY <2>1, <2>2 DEF Arrived
<1> QED
  BY <1>5, <1>6, <1>7, <1>8 DEF DeliveryInv

\* What a broker handler does to the lists, the wire and the history, put
\* together: the client has what is removed for another reason than those that
\* discarded records.
Handled ==
    /\ UNCHANGED clientVars
    /\ \E D, lost :
          /\ Outcome(D, lost) /\ Arrived(D)
          /\ lost = {} \/ accepted' = accepted
          /\ \A p \in lost : delivered[p] > 0 \/ p \in discarded' \cup givenUp

LEMMA HandledPreserves ==
    ASSUME TypeInv, DeliveryInv, Handled
    PROVE  DeliveryInv'
<1>1. PICK D, lost : /\ Outcome(D, lost) /\ Arrived(D)
                     /\ \A p \in lost : delivered[p] > 0 \/ p \in discarded' \cup givenUp
  BY DEF Handled
<1>2. UNCHANGED clientVars
  BY DEF Handled
<1> QED
  BY <1>1, <1>2, OutcomePreserves

\* A handler that takes no new message in.
LEMMA NothingArrived ==
    ASSUME TypeInv, UNCHANGED <<published, last_mid, accepted>>
    PROVE  Arrived(msgs_out)
<1>1. published' = published /\ last_mid' = last_mid /\ accepted' = accepted
  OBVIOUS
<1> QED
  BY <1>1, Zenon DEF Arrived

\* subs__send and retain__queue: the new message gets a mid that nothing else
\* carries.
LEMMA ArrivalHandled ==
    ASSUME TypeInv, DeliveryInv, MaxPublish <= MidLimit,
           BrokerPublish \/ BrokerSubscribe
    PROVE  Handled
<1> USE OutAssumption
<1>1. PICK qos \in QosLevels, full \in Blocked, blocked \in BOOLEAN :
         (Publish(qos, full) \/ Subscribe(qos, full, blocked)) /\ UNCHANGED clientVars
  BY DEF BrokerPublish, BrokerSubscribe, Blocked
<1> DEFINE D == Insert(msgs_out, qos, full)
<1>2. qos \in 0..2 /\ Arrive(qos, D)
  BY <1>1 DEF Publish, Subscribe
<1>3. Outcome(D, {})
  BY <1>1, <1>2, ArrivalOutcome
<1>4. published \in Nat /\ last_mid \in Nat /\ published < MaxPublish
      /\ last_mid <= published /\ NextMid = last_mid + 1
  BY <1>2 DEF Arrive, TypeInv, TypeOK, DeliveryInv, MidsAgree, NextMid
<1>5. \/ D = msgs_out
      \/ \E m \in Msg :
           /\ Messages(D) = Messages(msgs_out) \cup {m}
           /\ m.pub = published + 1 /\ m.qos = qos /\ ~IsLate(m)
           /\ m.mid = IF qos > 0 THEN NextMid ELSE 0
  BY <1>2, <1>4, InsertAdds
<1> HIDE DEF D
<1>6. Arrived(D)
  <2>1. /\ published' = published + 1 /\ last_mid' \in {last_mid, last_mid + 1}
        /\ qos > 0 => last_mid' = last_mid + 1
        /\ accepted \subseteq accepted' /\ accepted' \subseteq accepted \cup {published + 1}
        /\ published + 1 \in accepted' =>
              published + 1 \in accepted \/ (qos > 0 /\ D # msgs_out)
    BY <1>2, <1>4 DEF Arrive
  <2>2. \A p \in accepted : p \in Nat /\ p <= published
    BY DEF TypeInv, TypeOK, DeliveryInv, AcceptedHasQos
  <2>3. published + 1 \notin accepted
    BY <1>4, <2>2
  <2>4. CASE D = msgs_out
    <3>1. accepted' = accepted
      BY <2>1, <2>3, <2>4
    <3> QED
      BY <2>1, <2>4, <3>1, Zenon DEF Arrived
  <2>5. CASE \E m \in Msg :
           /\ Messages(D) = Messages(msgs_out) \cup {m}
           /\ m.pub = published + 1 /\ m.qos = qos /\ ~IsLate(m)
           /\ m.mid = IF qos > 0 THEN NextMid ELSE 0
    <3>1. PICK m \in Msg :
             /\ Messages(D) = Messages(msgs_out) \cup {m}
             /\ m.pub = published + 1 /\ m.qos = qos /\ ~IsLate(m)
             /\ m.mid = IF qos > 0 THEN NextMid ELSE 0
      BY <2>5
    <3>2. m.qos > 0 => m.mid = last_mid + 1 /\ last_mid' = last_mid + 1
      BY <1>4, <2>1, <3>1
    <3>3. m.pub \in accepted' => m.qos > 0
      BY <2>1, <2>3, <3>1
    <3>4. \A p \in accepted' : p \in accepted \/
             /\ p = published + 1 /\ published' = published + 1
             /\ \E d \in Messages(D) : d.pub = p /\ d.qos > 0
      BY <2>1, <3>1, <3>3
    <3> QED
      <4>1. Messages(msgs_out) \subseteq Messages(D)
        BY <3>1
      <4>2. \A d \in Messages(D) : d \in Messages(msgs_out) \/ d = m
        BY <3>1
      <4> QED
        BY <2>1, <3>1, <3>2, <3>3, <3>4, <4>1, <4>2, Zenon DEF Arrived
  <2> QED
    BY <1>5, <2>4, <2>5
<1> QED
  BY <1>1, <1>3, <1>6 DEF Handled

\* A SUBSCRIBE without retained messages, and losing, resuming and taking over
\* the connection.
LEMMA ConnectionHandled ==
    ASSUME TypeInv, DeliveryInv,
           \/ BrokerSubscribeOnly \/ BrokerDisconnect \/ BrokerConnect
           \/ BrokerTakeover \/ BrokerConnectFails \/ BrokerConnackFails
    PROVE  Handled
<1>1. UNCHANGED <<published, last_mid, accepted, clientVars>>
  BY DEF BrokerSubscribeOnly, SubscribeOnly, BrokerDisconnect, BrokerConnect,
     BrokerTakeover, BrokerConnectFails, BrokerConnackFails, Disconnect, Connect, Takeover, Resume, ConnectFails, ConnackFails,
     history
<1>2. Outcome(msgs_out, {})
  <2>1. CASE BrokerDisconnect
    <3>1. Evolves(msgs_out, msgs_out', {})
      BY <2>1, EvolvesSame DEF BrokerDisconnect, Disconnect, TypeInv
    <3>2. toClient' \subseteq toClient /\ toBroker' \subseteq toBroker /\ discarded' = discarded
      BY <2>1 DEF BrokerDisconnect, Disconnect, CloseSocket, ChannelClosed, history
    <3> QED
      BY <3>1, <3>2, IdleOutcome
  <2>2. CASE BrokerConnect \/ BrokerTakeover \/ BrokerConnectFails
    <3>1. PICK max \in Maxima, denied \in SUBSET Revocable, n \in 0..MaxPublish :
             Resume(max, denied) \/ ConnectFails(max, denied, n)
      BY <2>2, OutAssumption DEF BrokerConnect, BrokerTakeover, BrokerConnectFails, Connect, Takeover
    <3> QED
      BY <3>1, ResumeOutcome, OutAssumption
  <2>3. CASE BrokerConnackFails
    BY <2>3, ConnackOutcome, OutAssumption DEF BrokerConnackFails
  <2>4. CASE BrokerSubscribeOnly
    BY <2>4, SubscribeOutcome DEF BrokerSubscribeOnly
  <2> QED
    BY <2>1, <2>2, <2>3, <2>4
<1>3. Arrived(msgs_out)
  BY <1>1, NothingArrived
<1> QED
  BY <1>1, <1>2, <1>3 DEF Handled

\* handle__pubackcomp and handle__pubrec with an error code remove only a
\* message that the client has delivered or given up: the mid in the packet and
\* the mid of the message stand for the same publication.
LEMMA AckHandled ==
    ASSUME TypeInv, DeliveryInv, NEW pkt \in toBroker, UNCHANGED clientVars,
           HandlePubackcomp(pkt) \/ HandlePubrecRefused(pkt)
    PROVE  Handled
<1>1. UNCHANGED <<published, last_mid, accepted>>
  BY DEF HandlePubackcomp, HandlePubrecRefused
<1>2. Arrived(msgs_out)
  BY <1>1, NothingArrived
<1>3. CASE Outcome(msgs_out, {})
  BY <1>2, <1>3 DEF Handled
<1>4. CASE \E m \in Messages(msgs_out) :
             m.mid = pkt.mid /\ m.qos > 0 /\ Outcome(msgs_out, {m.pub})
  <2>1. PICK m \in Messages(msgs_out) :
           m.mid = pkt.mid /\ m.qos > 0 /\ Outcome(msgs_out, {m.pub})
    BY <1>4
  <2>2. pkt.qos > 0 /\ (delivered[pkt.pub] > 0 \/ pkt.pub \in givenUp)
    BY DEF HandlePubackcomp, HandlePubrecRefused, DeliveryInv, StepsJustified
  <2>3. pkt \in Carriers /\ m \in Carriers
    BY <2>1, <2>2 DEF Carriers, Wire, Qos12
  <2>4. m.pub = pkt.pub
    BY <2>1, <2>3 DEF DeliveryInv, MidsAgree
  <2> QED
    BY <1>1, <1>2, <2>1, <2>2, <2>4 DEF Handled
<1> QED
  BY <1>3, <1>4, AckOutcome

\* A step after which everything carries a mid that was already carried for
\* the same publication.
LEMMA MidsKept ==
    ASSUME TypeInv, MidsAgree, UNCHANGED <<last_mid, published>>,
           \A x \in Carriers' : \E y \in Carriers : x.mid = y.mid /\ x.pub = y.pub
    PROVE  MidsAgree'
  BY DEF MidsAgree

\* send__command_with_mid copies the mid.
LEMMA AnswerFields ==
    ASSUME NEW pkt \in Packet(Pubs), NEW type \in PacketTypes
    PROVE  /\ Answer(pkt, type).mid = pkt.mid /\ Answer(pkt, type).pub = pkt.pub
           /\ Answer(pkt, type).qos = pkt.qos /\ Answer(pkt, type).type = type
  BY DEF Answer, Packet

\* handle__pubrec preserves the invariant: the client has the message, so a
\* PUBREL may be sent for it, known to the broker or not.
LEMMA PubrecPreserves ==
    ASSUME TypeInv, DeliveryInv, NEW pkt \in toBroker, UNCHANGED clientVars,
           HandlePubrec(pkt)
    PROVE  DeliveryInv'
<1> DEFINE ans == Answer(pkt, "PUBREL")
<1>1. /\ ans.mid = pkt.mid /\ ans.pub = pkt.pub /\ ans.qos = pkt.qos
      /\ ans.type = "PUBREL"
  BY AnswerFields DEF TypeInv, TypeOK, PacketTypes
<1>2. pkt.qos > 0 /\ AtClient(pkt) /\ pkt \in Carriers
  BY DEF HandlePubrec, DeliveryInv, StepsJustified, Carriers, Wire
<1>3. UNCHANGED <<msgs_in, delivered, givenUp, last_mid, published, accepted, discarded>>
  BY DEF HandlePubrec, clientVars
<1>4. /\ \A k \in toClient' : k \in toClient \/ k = ans
      /\ toBroker' \subseteq toBroker
  BY DEF HandlePubrec, CloseSocket, ChannelClosed
<1>5. \A m \in Messages(msgs_out') : m \in Messages(msgs_out) \/
         /\ m.qos > 0 /\ m.mid = pkt.mid
         /\ \E n \in Messages(msgs_out) : m.pub = n.pub /\ m.mid = n.mid /\ m.qos = n.qos
  <2>1. CASE msgs_out' = msgs_out
    BY <2>1
  <2>2. CASE msgs_out' # msgs_out
    <3>1. PICK m \in msgs_out.inflight :
             /\ m.mid = pkt.mid /\ m.qos = 2
             /\ msgs_out' = [msgs_out EXCEPT !.inflight =
                   (@ \ {m}) \cup {[m EXCEPT !.state = "wait_for_pubcomp"]}]
      BY <2>2 DEF HandlePubrec, IsFirstMatch
    <3>2. PICK n : /\ n.pub = m.pub /\ n.mid = m.mid /\ n.qos = m.qos
                   /\ msgs_out'.inflight = (msgs_out.inflight \ {m}) \cup {n}
                   /\ msgs_out'.queued = msgs_out.queued
      BY <3>1, PubrecLists
    <3> QED
      BY <3>1, <3>2 DEF Messages
  <2> QED
    BY <2>1, <2>2
<1>6. PubsOf(msgs_out.inflight) \cup PubsOf(msgs_out.queued) \subseteq Held'
  <2>1. CASE msgs_out' = msgs_out
    BY <2>1 DEF Held
  <2>2. CASE msgs_out' # msgs_out
    <3>1. PICK m \in msgs_out.inflight :
             /\ m.mid = pkt.mid /\ m.qos = 2
             /\ msgs_out' = [msgs_out EXCEPT !.inflight =
                   (@ \ {m}) \cup {[m EXCEPT !.state = "wait_for_pubcomp"]}]
      BY <2>2 DEF HandlePubrec, IsFirstMatch
    <3>2. PICK n : /\ n.pub = m.pub /\ n.mid = m.mid /\ n.qos = m.qos
                   /\ msgs_out'.inflight = (msgs_out.inflight \ {m}) \cup {n}
                   /\ msgs_out'.queued = msgs_out.queued
      BY <3>1, PubrecLists
    <3> QED
      BY <3>1, <3>2 DEF Held, PubsOf
  <2> QED
    BY <2>1, <2>2
<1> HIDE DEF ans
<1>7. MidsAgree'
  <2>1. ASSUME NEW x \in Carriers'
        PROVE  \E y \in Carriers : x.mid = y.mid /\ x.pub = y.pub
    <3>1. CASE x \in Qos12(Messages(msgs_out'))
      BY <1>5, <3>1 DEF Carriers, Qos12
    <3>2. CASE x \in Wire' /\ x.qos > 0
      BY <1>1, <1>2, <1>4, <3>2 DEF Carriers, Wire
    <3>3. CASE x \in msgs_in
      BY <3>3 DEF Carriers
    <3> QED
      BY <1>3, <2>1, <3>1, <3>2, <3>3 DEF Carriers
  <2> QED
    BY <1>3, <2>1, MidsKept DEF DeliveryInv
<1>8. StepsJustified'
  <2>1. \A x : AtClient(x) => AtClient(x)'
    BY <1>3 DEF AtClient
  <2>2. ASSUME NEW m \in Messages(msgs_out'), IsLate(m)
        PROVE  m.qos > 0 /\ AtClient(m)'
    <3>1. CASE m \in Messages(msgs_out)
      BY <2>1, <2>2, <3>1 DEF DeliveryInv, StepsJustified
    <3>2. CASE m \notin Messages(msgs_out)
      <4>1. PICK n \in Messages(msgs_out) :
               /\ m.pub = n.pub /\ m.mid = n.mid /\ m.qos = n.qos
               /\ m.qos > 0 /\ m.mid = pkt.mid
        BY <1>5, <3>2
      <4>2. n \in Carriers
        BY <4>1 DEF Carriers, Qos12
      <4>3. m.pub = pkt.pub
        BY <1>2, <4>1, <4>2 DEF DeliveryInv, MidsAgree
      <4>4. AtClient(m)
        BY <1>2, <4>1, <4>3 DEF AtClient
      <4> QED
        BY <2>1, <4>1, <4>4
    <3> QED
      BY <3>1, <3>2
  <2>3. AtClient(ans)
    BY <1>1, <1>2 DEF AtClient
  <2>4. \A k \in toClient' : /\ k.type \in {"PUBLISH", "PUBREL"}
                             /\ k.type = "PUBREL" => k.qos > 0 /\ AtClient(k)'
    BY <1>1, <1>2, <1>4, <2>1, <2>3 DEF DeliveryInv, StepsJustified
  <2>5. \A k \in toBroker' :
           /\ k.qos > 0
           /\ k.type = "PUBACK" => delivered'[k.pub] > 0
           /\ k.type = "PUBCOMP" => delivered'[k.pub] > 0 \/ k.pub \in givenUp'
           /\ k.type = "PUBREC" => AtClient(k)'
           /\ k.type = "PUBREC_REFUSED" => k.pub \in givenUp'
    BY <1>3, <1>4, <2>1 DEF DeliveryInv, StepsJustified
  <2> QED
    BY <2>2, <2>4, <2>5 DEF StepsJustified
<1>9. AcceptedHasQos'
  BY <1>3, <1>5 DEF DeliveryInv, AcceptedHasQos
<1>10. NoLoss'
  BY <1>3, <1>6 DEF DeliveryInv, NoLoss, Held
<1> QED
  BY <1>7, <1>8, <1>9, <1>10 DEF DeliveryInv

\* handle__publish and handle__pubrel of the client preserve the invariant.
LEMMA ClientPreserves ==
    ASSUME TypeInv, DeliveryInv, NEW pkt \in toClient, UNCHANGED outVars,
           ReceivePacket(pkt)
    PROVE  DeliveryInv'
<1>1. UNCHANGED <<msgs_out, last_mid, published, accepted, discarded>>
  BY DEF outVars, session, history
<1>2. pkt \in Packet(Pubs) /\ pkt.pub \in Pubs
  BY DEF TypeInv, TypeOK, Packet
<1>3. \A type \in PacketTypes :
         /\ Answer(pkt, type).mid = pkt.mid /\ Answer(pkt, type).pub = pkt.pub
         /\ Answer(pkt, type).qos = pkt.qos /\ Answer(pkt, type).type = type
  BY <1>2, AnswerFields
<1>4. toClient' = toClient \ {pkt}
  BY DEF ReceivePacket, ReceivePublish, ReceivePubrel
<1>5. ASSUME NEW p \in Pubs
      PROVE  delivered[p] \in Nat /\ delivered'[p] \in Nat /\ delivered[p] <= delivered'[p]
  <2>1. delivered' = delivered \/ \E q \in Pubs : Deliver(q)
    BY <1>2 DEF ReceivePacket, ReceivePublish, ReceivePubrel, ReceiveQos0,
       ReceiveQos1, ReceiveQos2, RefuseQos2, TypeInv, TypeOK, InMsg
  <2>2. delivered \in [Pubs -> Nat]
    BY DEF TypeInv, TypeOK
  <2>3. ASSUME NEW q \in Pubs, Deliver(q)
        PROVE  delivered'[p] = IF p = q THEN delivered[p] + 1 ELSE delivered[p]
    BY <2>2, <2>3 DEF Deliver
  <2>4. delivered[p] \in Nat
    BY <2>2
  <2>5. CASE delivered' = delivered
    BY <2>4, <2>5
  <2>6. CASE \E q \in Pubs : Deliver(q)
    <3>1. PICK q \in Pubs : Deliver(q)
      BY <2>6
    <3>2. delivered'[p] \in {delivered[p], delivered[p] + 1}
      BY <2>3, <3>1
    <3> QED
      BY <2>4, <3>2
  <2> QED
    BY <2>1, <2>5, <2>6
<1>6. \A c \in msgs_in : c \in msgs_in' \/ delivered'[c.pub] > 0
  <2>1. \A c \in msgs_in : c.pub \in Pubs
    BY DEF TypeInv, TypeOK, InMsg
  <2>2. CASE \E c \in msgs_in : msgs_in' = msgs_in \ {c} /\ Deliver(c.pub)
    BY <2>1, <2>2 DEF Deliver, TypeInv, TypeOK
  <2>3. CASE msgs_in \subseteq msgs_in'
    BY <2>3
  <2>4. CASE ReceivePublish(pkt)
    BY <2>3, <2>4 DEF ReceivePublish, ReceiveQos0, ReceiveQos1, ReceiveQos2, RefuseQos2
  <2>5. CASE ReceivePubrel(pkt)
    BY <2>2, <2>3, <2>5 DEF ReceivePubrel
  <2> QED
    BY <2>4, <2>5 DEF ReceivePacket
<1>7. givenUp \subseteq givenUp'
  BY DEF ReceivePacket, ReceivePublish, ReceivePubrel, ReceiveQos0,
     ReceiveQos1, ReceiveQos2, RefuseQos2
<1>8. ASSUME NEW x, x.pub \in Pubs, AtClient(x)
      PROVE  AtClient(x)'
  BY <1>5, <1>6, <1>8, <1>7 DEF AtClient
<1>9. \A c \in msgs_in' : c \in msgs_in \/
         /\ c.mid = pkt.mid /\ c.pub = pkt.pub /\ pkt.qos > 0
  BY DEF ReceivePacket, ReceivePublish, ReceivePubrel, ReceiveQos0,
     ReceiveQos1, ReceiveQos2, RefuseQos2
<1>10. ASSUME NEW k \in toBroker', k \notin toBroker
       PROVE  /\ k.mid = pkt.mid /\ k.pub = pkt.pub /\ k.qos = pkt.qos /\ k.qos > 0
              /\ k.type = "PUBACK" => delivered'[k.pub] > 0
              /\ k.type = "PUBCOMP" => delivered'[k.pub] > 0 \/ k.pub \in givenUp'
              /\ k.type = "PUBREC" => AtClient(k)'
              /\ k.type = "PUBREC_REFUSED" => k.pub \in givenUp'
  <2>1. CASE pkt.type = "PUBLISH" /\ ReceiveQos1(pkt)
    <3>1. k = Answer(pkt, "PUBACK") /\ pkt.qos = 1 /\ Deliver(pkt.pub)
      BY <1>10, <2>1 DEF ReceiveQos1
    <3>2. delivered'[pkt.pub] > 0
      BY <1>2, <3>1 DEF Deliver, TypeInv, TypeOK
    <3> QED
      BY <1>3, <3>1, <3>2 DEF PacketTypes
  <2>2. CASE pkt.type = "PUBLISH" /\ ReceiveQos2(pkt)
    <3>1. k = Answer(pkt, "PUBREC") /\ pkt.qos = 2
          /\ [mid |-> pkt.mid, pub |-> pkt.pub, pos |-> stored + 1] \in msgs_in'
      BY <1>10, <2>2 DEF ReceiveQos2
    <3>2. k.mid = pkt.mid /\ k.pub = pkt.pub /\ k.qos = 2 /\ k.type = "PUBREC"
      BY <1>3, <3>1 DEF PacketTypes
    <3>3. AtClient(k)'
      BY <3>1, <3>2 DEF AtClient
    <3> QED
      BY <3>1, <3>2, <3>3
  <2>3. CASE pkt.type = "PUBLISH" /\ RefuseQos2(pkt)
    <3>1. k = Answer(pkt, "PUBREC_REFUSED") /\ pkt.qos = 2 /\ pkt.pub \in givenUp'
      BY <1>10, <2>3 DEF RefuseQos2
    <3> QED
      BY <1>3, <3>1 DEF PacketTypes
  <2>4. CASE ReceivePubrel(pkt)
    <3>1. k = Answer(pkt, "PUBCOMP") /\ pkt.type = "PUBREL"
      BY <1>10, <2>4 DEF ReceivePubrel
    <3>2. k.mid = pkt.mid /\ k.pub = pkt.pub /\ k.qos = pkt.qos /\ k.type = "PUBCOMP"
      BY <1>3, <3>1 DEF PacketTypes
    <3>3. pkt.qos > 0 /\ AtClient(pkt)
      BY <3>1 DEF DeliveryInv, StepsJustified
    <3>4. pkt \in Carriers
      BY <3>3 DEF Carriers, Wire
    <3>5. CASE \E c \in msgs_in : IsFirstIn(pkt.mid, c) /\ Deliver(c.pub)
      <4>1. PICK c \in msgs_in : c.mid = pkt.mid /\ Deliver(c.pub)
        BY <3>5 DEF IsFirstIn
      <4>2. c \in Carriers
        BY <4>1 DEF Carriers
      <4>3. c.pub = pkt.pub
        BY <3>4, <4>1, <4>2 DEF DeliveryInv, MidsAgree
      <4>4. delivered'[pkt.pub] > 0
        BY <1>2, <4>1, <4>3 DEF Deliver, TypeInv, TypeOK
      <4> QED
        BY <3>2, <3>3, <4>4
    <3>6. CASE \A c \in msgs_in : c.mid # pkt.mid
      <4>1. delivered[pkt.pub] > 0 \/ pkt.pub \in givenUp
        BY <3>3, <3>6 DEF AtClient
      <4>2. delivered'[pkt.pub] > 0 \/ pkt.pub \in givenUp'
        BY <1>2, <1>5, <1>7, <4>1
      <4> QED
        BY <3>2, <3>3, <4>2
    <3> QED
      BY <2>4, <3>5, <3>6 DEF ReceivePubrel
  <2>5. CASE pkt.type = "PUBLISH" /\ ReceiveQos0(pkt)
    BY <1>10, <2>5 DEF ReceiveQos0
  <2> QED
    BY <2>1, <2>2, <2>3, <2>4, <2>5 DEF ReceivePacket, ReceivePublish
<1>11. MidsAgree'
  <2>1. ASSUME NEW x \in Carriers'
        PROVE  \E y \in Carriers : x.mid = y.mid /\ x.pub = y.pub
    <3>1. pkt.qos > 0 => pkt \in Carriers
      BY DEF Carriers, Wire
    <3>2. CASE x \in Qos12(Messages(msgs_out'))
      BY <1>1, <3>2 DEF Carriers
    <3>3. CASE x \in Wire' /\ x.qos > 0
      BY <1>4, <1>10, <3>1, <3>3 DEF Carriers, Wire
    <3>4. CASE x \in msgs_in'
      BY <1>9, <3>1, <3>4 DEF Carriers
    <3> QED
      BY <2>1, <3>2, <3>3, <3>4 DEF Carriers
  <2> QED
    BY <1>1, <2>1, MidsKept DEF DeliveryInv
<1>12. StepsJustified'
  <2>1. ASSUME NEW m \in Messages(msgs_out'), IsLate(m)
        PROVE  m.qos > 0 /\ AtClient(m)'
    <3>1. m \in Messages(msgs_out) /\ m.pub \in Pubs
      BY <1>1 DEF Messages, TypeInv, TypeOK, MsgData, Msg
    <3> QED
      BY <1>8, <2>1, <3>1 DEF DeliveryInv, StepsJustified
  <2>2. ASSUME NEW k \in toClient'
        PROVE  /\ k.type \in {"PUBLISH", "PUBREL"}
               /\ k.type = "PUBREL" => k.qos > 0 /\ AtClient(k)'
    <3>1. k \in toClient /\ k.pub \in Pubs
      BY <1>4 DEF TypeInv, TypeOK, Packet
    <3> QED
      BY <1>8, <3>1 DEF DeliveryInv, StepsJustified
  <2>3. ASSUME NEW k \in toBroker'
        PROVE  /\ k.qos > 0
               /\ k.type = "PUBACK" => delivered'[k.pub] > 0
               /\ k.type = "PUBCOMP" => delivered'[k.pub] > 0 \/ k.pub \in givenUp'
               /\ k.type = "PUBREC" => AtClient(k)'
               /\ k.type = "PUBREC_REFUSED" => k.pub \in givenUp'
    <3>1. CASE k \in toBroker
      <4>1. k.pub \in Pubs
        BY <3>1 DEF TypeInv, TypeOK, Packet
      <4>2. /\ k.qos > 0
            /\ k.type = "PUBACK" => delivered[k.pub] > 0
            /\ k.type = "PUBCOMP" => delivered[k.pub] > 0 \/ k.pub \in givenUp
            /\ k.type = "PUBREC" => AtClient(k)
            /\ k.type = "PUBREC_REFUSED" => k.pub \in givenUp
        BY <3>1 DEF DeliveryInv, StepsJustified
      <4> QED
        BY <1>5, <1>8, <1>7, <4>1, <4>2
    <3>2. CASE k \notin toBroker
      BY <1>10, <3>2
    <3> QED
      BY <3>1, <3>2
  <2> QED
    BY <2>1, <2>2, <2>3 DEF StepsJustified
<1>13. AcceptedHasQos'
  BY <1>1 DEF DeliveryInv, AcceptedHasQos
<1>14. NoLoss'
  <2> SUFFICES ASSUME NEW p \in accepted
               PROVE  p \in Held' \/ delivered'[p] > 0 \/ p \in discarded' \cup givenUp'
    BY <1>1 DEF NoLoss
  <2>1. p \in Pubs
    BY DEF TypeInv, TypeOK
  <2>2. p \in Held \/ delivered[p] > 0 \/ p \in discarded \cup givenUp
    BY DEF DeliveryInv, NoLoss
  <2>3. Held' = Held
    BY <1>1 DEF Held
  <2> QED
    BY <1>1, <1>5, <1>7, <2>1, <2>2, <2>3
<1> QED
  BY <1>11, <1>12, <1>13, <1>14 DEF DeliveryInv

\* The way handle__pubrel ends when its PUBCOMP cannot be written preserves the
\* invariant: the message it removes counts as given up.
LEMMA AnswerFailsPreserves ==
    ASSUME TypeInv, DeliveryInv, NEW pkt \in toClient, ReceivePubrelFails(pkt), Disconnect
    PROVE  DeliveryInv'
<1>1. /\ UNCHANGED <<msgs_out, last_mid, published, accepted, discarded, delivered>>
      /\ toClient' = {} /\ toBroker' = {}
  BY DEF ReceivePubrelFails, Disconnect, CloseSocket, ChannelClosed, history
<1>2. PICK c \in msgs_in : msgs_in' = msgs_in \ {c} /\ givenUp' = givenUp \cup {c.pub}
  BY DEF ReceivePubrelFails
<1>3. MidsAgree'
  <2>1. Carriers' \subseteq Carriers
    BY <1>1, <1>2 DEF Carriers, Wire
  <2> QED
    BY <1>1, <2>1, MidsKept DEF DeliveryInv
<1>4. \A x : AtClient(x) => AtClient(x)'
  BY <1>1, <1>2 DEF AtClient
<1>5. StepsJustified'
  BY <1>1, <1>4 DEF DeliveryInv, StepsJustified
<1>6. AcceptedHasQos' /\ NoLoss'
  BY <1>1, <1>2 DEF DeliveryInv, AcceptedHasQos, NoLoss, Held
<1> QED
  BY <1>3, <1>5, <1>6 DEF DeliveryInv

\* The clock and stuttering change nothing the invariant speaks of.
LEMMA ExpirePreserves ==
    ASSUME DeliveryInv, BrokerExpire \/ UNCHANGED vars
    PROVE  DeliveryInv'
<1>1. UNCHANGED <<msgs_out, last_mid, published, accepted, discarded, toClient, toBroker,
                  msgs_in, delivered, givenUp>>
  BY DEF BrokerExpire, Expire, vars, outVars, session, history, clientVars, channel
<1> QED
  BY <1>1 DEF DeliveryInv, MidsAgree, StepsJustified, AcceptedHasQos, NoLoss, Carriers,
     Wire, AtClient, Held

\* The conjunction is inductive as long as last_mid does not wrap round.
LEMMA DeliveryInit ==
    ASSUME Init
    PROVE  TypeInv /\ DeliveryInv
<1>1. TypeInv
  BY TypeInit
<1>2. /\ last_mid = 0 /\ published = 0 /\ accepted = {} /\ msgs_in = {}
      /\ toClient = {} /\ toBroker = {} /\ Messages(msgs_out) = {}
  BY DEF Init, OutInit, ChannelInit, ClientInit, EmptyMsgData, Messages
<1>3. DeliveryInv
  BY <1>2 DEF DeliveryInv, MidsAgree, StepsJustified, AcceptedHasQos, NoLoss, Carriers,
     Wire, Qos12
<1> QED
  BY <1>1, <1>3

LEMMA DeliveryStep ==
    ASSUME TypeInv, DeliveryInv, MaxPublish <= MidLimit, [Next]_vars
    PROVE  TypeInv' /\ DeliveryInv'
<1>1. TypeInv'
  BY TypePreserved
<1>2. CASE BrokerPublish \/ BrokerSubscribe
  BY <1>1, <1>2, ArrivalHandled, HandledPreserves
<1>3. CASE BrokerExpire \/ UNCHANGED vars
  BY <1>1, <1>3, ExpirePreserves
<1>4. CASE \/ BrokerSubscribeOnly \/ BrokerDisconnect \/ BrokerConnect
           \/ BrokerTakeover \/ BrokerConnectFails \/ BrokerConnackFails
  BY <1>1, <1>4, ConnectionHandled, HandledPreserves
<1>5. CASE \E p \in Pubs : BrokerAck(p)
  <2>1. PICK pkt \in toBroker : HandleAck(pkt) /\ UNCHANGED clientVars
    BY <1>5 DEF BrokerAck
  <2> QED
    BY <1>1, <2>1, AckHandled, HandledPreserves, PubrecPreserves DEF HandleAck
<1>6. CASE \E p \in Pubs : ClientReceive(p)
  <2>1. PICK pkt \in toClient : ReceivePacket(pkt) /\ UNCHANGED outVars
    BY <1>6 DEF ClientReceive
  <2> QED
    BY <1>1, <2>1, ClientPreserves
<1>7. CASE \E p \in Pubs : ClientAnswerFails(p)
  <2>1. PICK pkt \in toClient : ReceivePubrelFails(pkt) /\ Disconnect
    BY <1>7 DEF ClientAnswerFails
  <2> QED
    BY <1>1, <2>1, AnswerFailsPreserves
<1> QED
  BY <1>2, <1>3, <1>4, <1>5, <1>6, <1>7 DEF Next

\* The two ends of every handshake agree: a mid stands for one publication in
\* the broker's lists, on the wire and at the client, and what the broker has
\* ticked off (PUBREC seen, PUBREL or acknowledgement on its way) the client
\* has, has delivered or has given up (lib/handle_pubrel.c removes a message
\* whose PUBCOMP cannot be written), through every interleaving, as long as
\* last_mid does not wrap round.
THEOREM HandshakesAgree ==
    ASSUME MaxPublish <= MidLimit
    PROVE  Spec => []DeliveryInv
<1>1. Init => TypeInv /\ DeliveryInv
  BY DeliveryInit
<1>2. TypeInv /\ DeliveryInv /\ [Next]_vars => TypeInv' /\ DeliveryInv'
  BY DeliveryStep
<1> QED
  BY <1>1, <1>2, PTL DEF Spec

\* A QoS 1 or 2 message the broker has accepted for a session stays in its
\* lists until the client has delivered it or one of the two ends has given it
\* up, through every interleaving of publications, acknowledgements, lost
\* connections and resumptions, as long as last_mid does not wrap round.
THEOREM NeverLost ==
    ASSUME MaxPublish <= MidLimit
    PROVE  Spec => []NoLoss
<1>1. Spec => []DeliveryInv
  BY HandshakesAgree
<1>2. DeliveryInv => NoLoss
  BY DEF DeliveryInv
<1> QED
  BY <1>1, <1>2, PTL

\* With a client that refuses nothing and has a thread of its own, so that
\* handle__pubrel never fails to send its PUBCOMP, an accepted message reaches
\* the application unless the broker discards it: the two ways in which the
\* client gives a message up are the only ones.
THEOREM ThreadedGetsThrough ==
    ASSUME MaxPublish <= MidLimit, Threaded, ~ClientRefuses
    PROVE  Spec => []AlwaysGetsThrough
<1>1. Init => givenUp = {}
  BY DEF Init, ClientInit
<1>2. givenUp = {} /\ [Next]_vars => (givenUp = {})'
  <2> SUFFICES ASSUME givenUp = {}, [Next]_vars PROVE givenUp' = {}
    OBVIOUS
  <2>1. CASE \E p \in Pubs : ClientReceive(p)
    BY <2>1 DEF ClientReceive, ReceivePacket, ReceivePublish, ReceivePubrel, ReceiveQos0,
       ReceiveQos1, ReceiveQos2, RefuseQos2
  <2>2. CASE \E p \in Pubs : ClientAnswerFails(p)
    BY <2>2 DEF ClientAnswerFails, ReceivePubrelFails
  <2>3. CASE UNCHANGED clientVars
    BY <2>3 DEF clientVars
  <2> QED
    BY <2>1, <2>2, <2>3 DEF Next, BrokerPublish, BrokerSubscribe, BrokerSubscribeOnly,
       BrokerExpire, BrokerDisconnect, BrokerConnect, BrokerTakeover, BrokerConnectFails,
       BrokerConnackFails, BrokerAck, vars
<1>3. Spec => []NoLoss
  BY NeverLost
<1>4. NoLoss /\ givenUp = {} => AlwaysGetsThrough
  BY DEF NoLoss, AlwaysGetsThrough
<1> QED
  BY <1>1, <1>2, <1>3, <1>4, PTL DEF Spec
----------------------------------------------------------------------------
(***************************************************************************)
(* Delivery implements StoreAndForward: under the refinement mapping of    *)
(* Delivery every handler of the broker is a Broker step of the service,   *)
(* every packet the client takes a Receive, a GiveUp or a stuttering step. *)
(*                                                                         *)
(* DeliveryInv does not say that nothing speaks of a publication before it *)
(* is made, and without that a new message could be one that the           *)
(* application has already got: NoneEarly adds it.                         *)
(***************************************************************************)

NoneEarly ==
    /\ \A k \in Wire : k.pub <= published
    /\ \A c \in msgs_in : c.pub <= published
    /\ \A p \in Pubs : delivered[p] > 0 => p <= published

ServiceInv == TypeInv /\ DeliveryInv /\ NoneEarly

----------------------------------------------------------------------------
(* The broker's handlers.                                                  *)

\* What a broker handler sends is about a message it holds.
LEMMA HandledEarly ==
    ASSUME ServiceInv, Handled
    PROVE  NoneEarly'
<1>1. PICK D, lost : Outcome(D, lost) /\ Arrived(D)
  BY DEF Handled
<1>2. UNCHANGED <<msgs_in, delivered>>
  BY DEF Handled, clientVars
<1>3. published \in Nat /\ published <= published' /\ published' \in Nat
  BY <1>1, OutAssumption DEF Arrived, ServiceInv, TypeInv, TypeOK
<1>4. /\ \A k \in Wire : k.pub \in Nat
      /\ \A c \in msgs_in : c.pub \in Nat
      /\ \A m \in Messages(msgs_out) : m.pub \in Nat
  <2>1. \A k \in Wire : k.pub \in Nat
    BY OutAssumption DEF ServiceInv, TypeInv, TypeOK, Wire, Packet
  <2>2. \A c \in msgs_in : c.pub \in Nat
    BY OutAssumption DEF ServiceInv, TypeInv, TypeOK, InMsg
  <2>3. \A m \in Messages(msgs_out) : m.pub \in Nat
    BY OutAssumption DEF ServiceInv, TypeInv, TypeOK, Messages, MsgData, Msg
  <2> QED
    BY <2>1, <2>2, <2>3
<1>5. ASSUME NEW d \in Messages(D)
      PROVE  d.pub <= published'
  <2>1. CASE d \in Messages(msgs_out)
    BY <1>3, <1>4, <2>1 DEF ServiceInv, DeliveryInv, AcceptedHasQos
  <2>2. CASE d.pub = published + 1 /\ published' = published + 1
    BY <1>3, <2>2
  <2> QED
    BY <1>1, <2>1, <2>2 DEF Arrived
<1>6. ASSUME NEW k \in Wire'
      PROVE  k.pub <= published'
  <2>1. CASE k \in Wire
    BY <1>3, <1>4, <2>1 DEF ServiceInv, NoneEarly
  <2>2. CASE k \notin Wire
    <3>1. PICK d \in Messages(D) : k.pub = d.pub
      BY <1>1, <2>2 DEF Outcome, Wire
    <3> QED
      BY <1>5, <3>1
  <2> QED
    BY <2>1, <2>2
<1>7. \A c \in msgs_in' : c.pub <= published'
  BY <1>2, <1>3, <1>4 DEF ServiceInv, NoneEarly
<1>8. \A p \in Pubs : delivered'[p] > 0 => p <= published'
  BY <1>2, <1>3, OutAssumption DEF ServiceInv, NoneEarly
<1> QED
  BY <1>6, <1>7, <1>8 DEF NoneEarly

\* A broker handler is a Broker step: the message it accepts is new, what it
\* forgets the application has got, or it has been given up.
LEMMA HandledServes ==
    ASSUME ServiceInv, TypeInv', Handled
    PROVE  Service!Broker
<1>1. PICK D, lost :
         /\ Outcome(D, lost) /\ Arrived(D)
         /\ lost = {} \/ accepted' = accepted
         /\ \A p \in lost : delivered[p] > 0 \/ p \in discarded' \cup givenUp
  BY DEF Handled
<1>2. UNCHANGED <<delivered, givenUp>>
  BY DEF Handled, clientVars
<1>3. /\ accepted \subseteq Pubs /\ accepted' \subseteq Pubs /\ published \in Nat
      /\ \A p \in accepted : p \in Nat /\ p <= published
  <2>1. accepted \subseteq Pubs /\ accepted' \subseteq Pubs /\ published \in Nat
    BY OutAssumption DEF ServiceInv, TypeInv, TypeOK
  <2>2. \A p \in accepted : p <= published
    BY DEF ServiceInv, DeliveryInv, AcceptedHasQos
  <2> QED
    BY <2>1, <2>2, OutAssumption
<1> DEFINE new == accepted' \ accepted
           kept == Held \cap accepted
           received == {p \in accepted : delivered[p] > 0}
           dropped == (discarded \cup givenUp) \cap accepted
<1>4. /\ accepted \subseteq accepted' /\ \A p \in new : p = published + 1
  BY <1>1 DEF Arrived
<1>5. new \in SUBSET (Pubs \ accepted) /\ (\A p, q \in new : p = q) /\ accepted' = accepted \cup new
  BY <1>3, <1>4
<1>6. kept' \subseteq kept \cup new
  <2> SUFFICES ASSUME NEW p \in kept', p \in accepted
               PROVE  p \in Held
    OBVIOUS
  <2>1. PICK e \in Messages(msgs_out') : e.pub = p
    BY DEF Held, PubsOf, Messages
  <2>2. PICK d \in Messages(D) : d.pub = p
    BY <1>1, <2>1 DEF Outcome, Follows
  <2>3. d \in Messages(msgs_out)
    BY <1>1, <1>3, <2>2 DEF Arrived
  <2> QED
    BY <2>2, <2>3 DEF Held, PubsOf, Messages
<1>7. (kept \cup new) \ kept' \subseteq received \cup dropped'
  <2> SUFFICES ASSUME NEW p \in kept \cup new, p \notin kept'
               PROVE  p \in received \cup dropped'
    OBVIOUS
  <2>1. p \in accepted' /\ p \notin Held'
    BY <1>4
  <2>2. PICK d \in Messages(D) : d.pub = p /\ d.qos > 0
    <3>1. CASE p \in new
      BY <1>1, <3>1 DEF Arrived
    <3>2. CASE p \in kept
      <4>1. PICK m \in Messages(msgs_out) : m.pub = p
        BY <3>2 DEF Held, PubsOf, Messages
      <4>2. m.qos > 0
        BY <3>2, <4>1 DEF ServiceInv, DeliveryInv, AcceptedHasQos
      <4> QED
        BY <1>1, <4>1, <4>2 DEF Arrived
    <3> QED
      BY <3>1, <3>2
  <2>3. ~ \E e \in Messages(msgs_out') : e.pub = p
    BY <2>1 DEF Held, PubsOf, Messages
  <2>4. p \in lost \cup discarded'
    BY <1>1, <2>2, <2>3 DEF Outcome
  <2>5. CASE p \in discarded' \cup givenUp
    BY <1>2, <2>1, <2>5
  <2>6. CASE p \in lost /\ delivered[p] > 0
    <3>1. p \in accepted
      BY <1>1, <2>1, <2>6
    <3> QED
      BY <2>6, <3>1
  <2> QED
    BY <1>1, <2>4, <2>5, <2>6
<1>8. dropped \subseteq dropped' /\ dropped' \subseteq accepted'
  BY <1>1, <1>2, <1>4 DEF Outcome
<1>9. received' = received
  <2>1. \A p \in new : ~(delivered[p] > 0)
    BY <1>3, <1>4, <1>5 DEF ServiceInv, NoneEarly
  <2> QED
    BY <1>2, <1>4, <2>1
<1> QED
  BY <1>5, <1>6, <1>7, <1>8, <1>9 DEF Service!Broker

\* A step of the broker that changes nothing of the mapped variables but what
\* is on the wire, or holds the same publications.
LEMMA PubrecHolds ==
    ASSUME ServiceInv, NEW pkt, HandlePubrec(pkt)
    PROVE  Held' = Held
<1>1. CASE msgs_out' = msgs_out
  BY <1>1 DEF Held
<1>2. CASE msgs_out' # msgs_out
  <2>1. PICK m \in msgs_out.inflight :
           /\ m.mid = pkt.mid /\ m.qos = 2
           /\ msgs_out' = [msgs_out EXCEPT !.inflight =
                 (@ \ {m}) \cup {[m EXCEPT !.state = "wait_for_pubcomp"]}]
    BY <1>2 DEF HandlePubrec, IsFirstMatch
  <2>2. PICK n : /\ n.pub = m.pub
                 /\ msgs_out'.inflight = (msgs_out.inflight \ {m}) \cup {n}
                 /\ msgs_out'.queued = msgs_out.queued
    BY <2>1, PubrecLists DEF ServiceInv
  <2> QED
    BY <2>1, <2>2 DEF Held, PubsOf
<1> QED
  BY <1>1, <1>2

\* handle__pubrec, the clock and stuttering do not change what the service
\* speaks of.
LEMMA SilentSteps ==
    ASSUME ServiceInv,
           \/ BrokerExpire \/ UNCHANGED vars
           \/ \E pkt \in toBroker : HandlePubrec(pkt) /\ UNCHANGED clientVars
    PROVE  NoneEarly' /\ UNCHANGED Service!sfVars
<1>1. UNCHANGED <<published, msgs_in, delivered, givenUp, accepted, discarded>>
  BY DEF BrokerExpire, Expire, vars, outVars, session, history, clientVars, HandlePubrec
<1>2. Held' = Held
  <2>1. CASE BrokerExpire \/ UNCHANGED vars
    BY <2>1 DEF BrokerExpire, Expire, vars, outVars, session, Held
  <2> QED
    BY <2>1, PubrecHolds
<1>3. ASSUME NEW k \in Wire' PROVE k.pub <= published
  <2>1. CASE k \in Wire
    BY <2>1 DEF ServiceInv, NoneEarly
  <2>2. CASE k \notin Wire
    <3>1. PICK pkt \in toBroker : k = Answer(pkt, "PUBREL")
      BY <2>2 DEF BrokerExpire, Expire, vars, channel, HandlePubrec, Wire, CloseSocket,
         ChannelClosed
    <3>2. k.pub = pkt.pub
      BY <3>1, AnswerFields DEF ServiceInv, TypeInv, TypeOK, PacketTypes
    <3> QED
      BY <3>2 DEF ServiceInv, NoneEarly, Wire
  <2> QED
    BY <2>1, <2>2
<1>4. NoneEarly'
  BY <1>1, <1>3 DEF ServiceInv, NoneEarly
<1> QED
  BY <1>1, <1>2, <1>4 DEF Service!sfVars

----------------------------------------------------------------------------
(* The client.                                                             *)

\* handle__publish and handle__pubrel deliver at most one publication, one
\* that has been made, and refuse at most one.
LEMMA ClientServes ==
    ASSUME ServiceInv, NEW pkt \in toClient, UNCHANGED outVars, ReceivePacket(pkt)
    PROVE  /\ NoneEarly'
           /\ Service!Receive \/ Service!GiveUp \/ UNCHANGED Service!sfVars
<1>1. UNCHANGED <<msgs_out, published, accepted, discarded>> /\ Held' = Held
  BY DEF outVars, session, history, Held
<1>2. /\ pkt \in Packet(Pubs) /\ pkt.pub \in Pubs /\ pkt.pub <= published
      /\ delivered \in [Pubs -> Nat]
      /\ \A c \in msgs_in : c.pub \in Pubs /\ c.pub <= published
  BY DEF ServiceInv, TypeInv, TypeOK, NoneEarly, Wire, Packet, InMsg
<1>3. /\ \A k \in toClient' : k \in toClient
      /\ \A k \in toBroker' : k \in toBroker \/ \E type \in PacketTypes : k = Answer(pkt, type)
      /\ \A c \in msgs_in' : c \in msgs_in \/ c.pub = pkt.pub
  BY DEF ReceivePacket, ReceivePublish, ReceivePubrel, ReceiveQos0, ReceiveQos1, ReceiveQos2,
     RefuseQos2, PacketTypes
<1>4. \A type \in PacketTypes : Answer(pkt, type).pub = pkt.pub
  BY <1>2, AnswerFields
<1>5. /\ \A k \in Wire' : k.pub <= published
      /\ \A c \in msgs_in' : c.pub <= published
  BY <1>2, <1>3, <1>4 DEF ServiceInv, NoneEarly, Wire
<1>6. ASSUME NEW p \in Pubs, p <= published, Deliver(p), givenUp' = givenUp
      PROVE  /\ \A q \in Pubs : delivered'[q] > 0 => q <= published
             /\ Service!Receive \/ UNCHANGED Service!sfVars
  <2>1. \A q \in Pubs : delivered'[q] = IF q = p THEN delivered[q] + 1 ELSE delivered[q]
    BY <1>2, <1>6 DEF Deliver
  <2>2. \A q \in Pubs : delivered[q] \in Nat
    BY <1>2
  <2>3. \A q \in Pubs : delivered'[q] > 0 => q <= published
    BY <1>6, <2>1 DEF ServiceInv, NoneEarly
  <2>4. accepted \subseteq Pubs
    BY DEF ServiceInv, TypeInv, TypeOK
  <2>5. \A q \in accepted : delivered'[q] > 0 <=> q = p \/ delivered[q] > 0
    BY <2>1, <2>2, <2>4
  <2>6. CASE p \in accepted
    <3>1. {q \in accepted' : delivered'[q] > 0} = {q \in accepted : delivered[q] > 0} \cup {p}
      BY <1>1, <2>5, <2>6
    <3> QED
      BY <1>1, <1>6, <2>3, <2>6, <3>1 DEF Service!Receive
  <2>7. CASE p \notin accepted
    <3>1. {q \in accepted' : delivered'[q] > 0} = {q \in accepted : delivered[q] > 0}
      BY <1>1, <2>5, <2>7
    <3> QED
      BY <1>1, <1>6, <2>3, <3>1 DEF Service!sfVars
  <2> QED
    BY <2>6, <2>7
<1>7. ASSUME delivered' = delivered
      PROVE  \A q \in Pubs : delivered'[q] > 0 => q <= published
  BY <1>7 DEF ServiceInv, NoneEarly
<1>8. CASE givenUp' = givenUp /\ \E p \in Pubs : p <= published /\ Deliver(p)
  BY <1>1, <1>5, <1>6, <1>8 DEF NoneEarly
<1>9. CASE UNCHANGED <<delivered, givenUp>>
  BY <1>1, <1>5, <1>7, <1>9 DEF NoneEarly, Service!sfVars
<1>10. CASE delivered' = delivered /\ givenUp' = givenUp \cup {pkt.pub}
  <2>1. CASE pkt.pub \in accepted
    <3>1. (discarded' \cup givenUp') \cap accepted' = ((discarded \cup givenUp) \cap accepted) \cup {pkt.pub}
      BY <1>1, <1>10, <2>1
    <3>2. Service!GiveUp
      BY <1>1, <1>10, <2>1, <3>1 DEF Service!GiveUp
    <3> QED
      BY <1>1, <1>5, <1>7, <1>10, <3>2 DEF NoneEarly
  <2>2. CASE pkt.pub \notin accepted
    <3>1. (discarded' \cup givenUp') \cap accepted' = (discarded \cup givenUp) \cap accepted
      BY <1>1, <1>10, <2>2
    <3> QED
      BY <1>1, <1>5, <1>7, <1>10, <3>1 DEF NoneEarly, Service!sfVars
  <2> QED
    BY <2>1, <2>2
<1>11. CASE ReceivePublish(pkt)
  BY <1>2, <1>8, <1>9, <1>10, <1>11 DEF ReceivePublish, ReceiveQos0, ReceiveQos1, ReceiveQos2,
     RefuseQos2
<1>12. CASE ReceivePubrel(pkt)
  BY <1>2, <1>8, <1>9, <1>12 DEF ReceivePubrel
<1> QED
  BY <1>11, <1>12 DEF ReceivePacket

\* handle__pubrel without its PUBCOMP gives one publication up, one that has
\* been made.
LEMMA AnswerFailsServes ==
    ASSUME ServiceInv, NEW pkt \in toClient, ReceivePubrelFails(pkt), Disconnect
    PROVE  /\ NoneEarly'
           /\ Service!GiveUp \/ UNCHANGED Service!sfVars
<1>1. /\ UNCHANGED <<msgs_out, published, accepted, discarded, delivered>> /\ Held' = Held
      /\ toClient' = {} /\ toBroker' = {}
  BY DEF ReceivePubrelFails, Disconnect, CloseSocket, ChannelClosed, history, Held
<1>2. PICK c \in msgs_in : msgs_in' = msgs_in \ {c} /\ givenUp' = givenUp \cup {c.pub}
  BY DEF ReceivePubrelFails
<1>3. NoneEarly'
  BY <1>1, <1>2 DEF ServiceInv, NoneEarly, Wire
<1>4. CASE c.pub \in accepted
  <2>1. (discarded' \cup givenUp') \cap accepted' = ((discarded \cup givenUp) \cap accepted) \cup {c.pub}
    BY <1>1, <1>2, <1>4
  <2> QED
    BY <1>1, <1>3, <1>4, <2>1 DEF Service!GiveUp
<1>5. CASE c.pub \notin accepted
  <2>1. (discarded' \cup givenUp') \cap accepted' = (discarded \cup givenUp) \cap accepted
    BY <1>1, <1>2, <1>5
  <2> QED
    BY <1>1, <1>3, <2>1 DEF Service!sfVars
<1> QED
  BY <1>4, <1>5

----------------------------------------------------------------------------
(* The refinement.                                                         *)

\* Every step of Delivery is a step of the service or a stuttering step.
LEMMA StepServes ==
    ASSUME ServiceInv, MaxPublish <= MidLimit, [Next]_vars
    PROVE  ServiceInv' /\ [Service!SFNext]_(Service!sfVars)
<1>1. TypeInv /\ DeliveryInv /\ TypeInv' /\ DeliveryInv'
  BY DeliveryStep DEF ServiceInv
<1>2. ASSUME Handled
      PROVE  NoneEarly' /\ [Service!SFNext]_(Service!sfVars)
  BY <1>1, <1>2, HandledEarly, HandledServes DEF Service!SFNext
<1>3. CASE BrokerPublish \/ BrokerSubscribe
  BY <1>1, <1>2, <1>3, ArrivalHandled DEF ServiceInv
<1>4. CASE \/ BrokerSubscribeOnly \/ BrokerDisconnect \/ BrokerConnect
           \/ BrokerTakeover \/ BrokerConnectFails \/ BrokerConnackFails
  BY <1>1, <1>2, <1>4, ConnectionHandled DEF ServiceInv
<1>5. CASE BrokerExpire \/ UNCHANGED vars
  BY <1>1, <1>5, SilentSteps DEF ServiceInv
<1>6. CASE \E p \in Pubs : BrokerAck(p)
  <2>1. PICK pkt \in toBroker : HandleAck(pkt) /\ UNCHANGED clientVars
    BY <1>6 DEF BrokerAck
  <2>2. CASE HandlePubackcomp(pkt) \/ HandlePubrecRefused(pkt)
    BY <1>1, <1>2, <2>1, <2>2, AckHandled DEF ServiceInv
  <2>3. CASE HandlePubrec(pkt)
    BY <1>1, <2>1, <2>3, SilentSteps DEF ServiceInv
  <2> QED
    BY <2>1, <2>2, <2>3 DEF HandleAck
<1>7. CASE \E p \in Pubs : ClientReceive(p)
  <2>1. PICK pkt \in toClient : ReceivePacket(pkt) /\ UNCHANGED outVars
    BY <1>7 DEF ClientReceive
  <2> QED
    BY <1>1, <2>1, ClientServes DEF ServiceInv, Service!SFNext
<1>8. CASE \E p \in Pubs : ClientAnswerFails(p)
  <2>1. PICK pkt \in toClient : ReceivePubrelFails(pkt) /\ Disconnect
    BY <1>8 DEF ClientAnswerFails
  <2> QED
    BY <1>1, <2>1, AnswerFailsServes DEF ServiceInv, Service!SFNext
<1> QED
  BY <1>3, <1>4, <1>5, <1>6, <1>7, <1>8 DEF Next

\* A session with its lists, message ids, quotas, retries and acknowledgements,
\* and a client whose connection comes and goes, do no more than the service
\* promises: a message leaves the broker only after the application has it or
\* after one of the two ends has given it up for one of the recorded reasons
\* (the client's are a refusal and a PUBCOMP it cannot write), and nothing is
\* accepted twice.  As for NeverLost, last_mid must not wrap round.
THEOREM SessionImplementsService ==
    ASSUME MaxPublish <= MidLimit
    PROVE  Spec => ImplementsService
<1>1. Init => ServiceInv /\ Service!SFInit
  <2> SUFFICES ASSUME Init PROVE ServiceInv /\ Service!SFInit
    OBVIOUS
  <2>1. TypeInv /\ DeliveryInv
    BY DeliveryInit
  <2>2. /\ accepted = {} /\ msgs_in = {} /\ toClient = {} /\ toBroker = {}
        /\ \A p \in Pubs : delivered[p] = 0
    BY DEF Init, OutInit, ChannelInit, ClientInit
  <2>3. NoneEarly
    BY <2>2 DEF NoneEarly, Wire
  <2>4. Service!SFInit
    BY <2>2 DEF Service!SFInit
  <2> QED
    BY <2>1, <2>3, <2>4 DEF ServiceInv
<1>2. ServiceInv /\ [Next]_vars => ServiceInv' /\ [Service!SFNext]_(Service!sfVars)
  BY StepServes
<1> QED
  BY <1>1, <1>2, PTL DEF Spec, ImplementsService, Service!SFSpec
----------------------------------------------------------------------------
(***************************************************************************)
(* What the lists of a session guarantee without any assumption on message *)
(* ids: a publication is in one list, once (Distinct).  From it follow     *)
(*   - CountExact, if read access is never withdrawn (connection_check_acl *)
(*     does not count what it deletes);                                    *)
(*   - ReleasedWaits and NoRepublish, if a session is never given up in    *)
(*     the middle of its resumption (a second reset takes resend_pubrel    *)
(*     for a message whose PUBREC has not come).                           *)
(*                                                                         *)
(* The operations on the lists rename messages: each message keeps its     *)
(* publication and its qos and changes its state or its place (Relabels).  *)
(***************************************************************************)

Distinct(D) ==
    /\ D.inflight \cap D.queued = {}
    /\ \A m, n \in Messages(D) : m.pub = n.pub => m = n

Orderly(D) == WellFormed(D) /\ Distinct(D)

\* The QoS 1 and 2 publications of both lists, and their counter.
Live(D) == PubsOf(Qos12(Messages(D)))
Counted(D) == D.count12 = Cardinality(Live(D))

\* The messages whose PUBREC has been processed are in inflight in state st.
Waits(D, st) ==
    /\ \A m \in D.inflight : m.pub \in released => m.qos = 2 /\ m.state = st
    /\ \A m \in D.queued : m.pub \notin released

LateStates == {"wait_for_pubcomp", "resend_pubrel"}

\* The lists of E are the messages I and Q of D under the renaming f.
Relabels(D, E, I, Q, f) ==
    /\ f \in [Messages(D) -> Msg]
    /\ \A m \in Messages(D) : f[m].pub = m.pub /\ f[m].qos = m.qos
    /\ I \subseteq Messages(D) /\ Q \subseteq Messages(D) /\ I \cap Q = {}
    /\ E.inflight = {f[m] : m \in I} /\ E.queued = {f[m] : m \in Q}

\* From D to E the lists stay in order and the counter right.
Keeps(D, E) ==
    /\ Orderly(E)
    /\ PubsOf(Messages(E)) \subseteq PubsOf(Messages(D))
    /\ Revocable = {} /\ Counted(D) => Counted(E)

LEMMA KeepsTrans ==
    ASSUME NEW D, NEW E, NEW F, Keeps(D, E), Keeps(E, F)
    PROVE  Keeps(D, F)
  BY DEF Keeps

LEMMA RelabelDistinct ==
    ASSUME NEW D, NEW E, NEW I, NEW Q, NEW f, Distinct(D), Relabels(D, E, I, Q, f)
    PROVE  /\ Distinct(E)
           /\ Live(E) = PubsOf(Qos12(I \cup Q))
           /\ PubsOf(Messages(E)) \subseteq PubsOf(Messages(D))
<1>1. \A e \in E.inflight : \E m \in I : e = f[m] /\ e.pub = m.pub /\ e.qos = m.qos
  BY DEF Relabels
<1>2. \A e \in E.queued : \E m \in Q : e = f[m] /\ e.pub = m.pub /\ e.qos = m.qos
  BY DEF Relabels
<1>3. I \subseteq Messages(D) /\ Q \subseteq Messages(D) /\ I \cap Q = {}
  BY DEF Relabels
<1>4. \A m, n \in Messages(D) : m.pub = n.pub => m = n
  BY DEF Distinct
<1>5. E.inflight \cap E.queued = {}
  BY <1>1, <1>2, <1>3, <1>4
<1>6. \A e \in Messages(E) : \E m \in I \cup Q : e = f[m] /\ e.pub = m.pub /\ e.qos = m.qos
  BY <1>1, <1>2 DEF Messages
<1>7. \A x, y \in Messages(E) : x.pub = y.pub => x = y
  BY <1>3, <1>4, <1>6
<1>8. \A m \in I \cup Q : \E e \in Messages(E) : e.pub = m.pub /\ e.qos = m.qos
  <2> SUFFICES ASSUME NEW m \in I \cup Q
               PROVE  \E e \in Messages(E) : e.pub = m.pub /\ e.qos = m.qos
    OBVIOUS
  <2>1. f[m] \in Messages(E) /\ f[m].pub = m.pub /\ f[m].qos = m.qos
    BY DEF Relabels, Messages
  <2> QED
    BY <2>1
<1>9. Live(E) = PubsOf(Qos12(I \cup Q))
  BY <1>6, <1>8 DEF Live, PubsOf, Qos12
<1>10. PubsOf(Messages(E)) \subseteq PubsOf(Messages(D))
  BY <1>3, <1>6 DEF PubsOf
<1> QED
  BY <1>5, <1>7, <1>9, <1>10 DEF Distinct

\* Publications are counted by counting messages.
LEMMA PubsCount ==
    ASSUME NEW D, Orderly(D), NEW S, S \subseteq Messages(D)
    PROVE  /\ IsFiniteSet(S) /\ IsFiniteSet(PubsOf(S))
           /\ Cardinality(PubsOf(S)) = Cardinality(S) /\ Cardinality(S) \in Nat
<1> DEFINE T == PubsOf(S)
           f == [m \in S |-> m.pub]
<1>1. IsFiniteSet(Messages(D))
  BY FS_Union DEF Orderly, WellFormed, Messages
<1>2. IsFiniteSet(S)
  BY <1>1, FS_Subset
<1>3. f \in Surjection(S, T)
  BY DEF Surjection, PubsOf
<1>4. f \in Injection(S, T)
  <2>1. \A m, n \in S : m.pub = n.pub => m = n
    BY DEF Orderly, Distinct
  <2>2. f \in [S -> T]
    BY DEF PubsOf
  <2> QED
    BY <2>1, <2>2 DEF Injection, IsInjective
<1> HIDE DEF T, f
<1>5. IsFiniteSet(T) /\ Cardinality(T) = Cardinality(S)
  BY <1>2, <1>3, <1>4, FS_Surjection
<1> QED
  BY <1>2, <1>5, FS_CardinalityType DEF T

\* CountExact says that the live publications are counted.
LEMMA LiveCount ==
    ASSUME NEW D, Orderly(D)
    PROVE  /\ IsFiniteSet(Live(D))
           /\ Cardinality(Live(D)) = Cardinality(Qos12(D.inflight)) + Cardinality(Qos12(D.queued))
<1> DEFINE A == Qos12(D.inflight)
           B == Qos12(D.queued)
           S == Qos12(Messages(D))
<1>1. S = A \cup B /\ A \cap B = {} /\ S \subseteq Messages(D)
  BY DEF Qos12, Messages, Orderly, Distinct
<1>2. IsFiniteSet(A) /\ IsFiniteSet(B)
  BY FS_Subset DEF Orderly, WellFormed, Qos12
<1>3. IsFiniteSet(PubsOf(S)) /\ Cardinality(PubsOf(S)) = Cardinality(S)
  BY <1>1, PubsCount
<1> HIDE DEF A, B, S
<1>4. Cardinality(A \cup B) = Cardinality(A) + Cardinality(B) - Cardinality(A \cap B)
  BY <1>2, FS_Union
<1>5. Cardinality(A) \in Nat /\ Cardinality(B) \in Nat /\ Cardinality({}) = 0
  BY <1>2, FS_CardinalityType, FS_EmptySet
<1>6. Cardinality(S) = Cardinality(A \cup B) /\ Cardinality(A \cap B) = 0
  BY <1>1, <1>5, Zenon
<1>7. Cardinality(S) = Cardinality(A) + Cardinality(B)
  BY <1>4, <1>5, <1>6
<1> QED
  BY <1>3, <1>7 DEF Live, A, B, S

----------------------------------------------------------------------------
(* The operations on the lists.                                            *)

\* db__message_dequeue_first.
LEMMA DequeueKept ==
    ASSUME NEW D, Orderly(D), NEW S, S \subseteq D.queued
    PROVE  /\ Keeps(D, Dequeue(D, S))
           /\ \A st \in LateStates : Waits(D, st) => Waits(Dequeue(D, S), st)
<1> DEFINE E == Dequeue(D, S)
           mv(m) == [m EXCEPT !.pos = D.appended + 1 + Before(S, m)]
           f == [m \in Messages(D) |-> IF m \in S THEN mv(m) ELSE m]
           I == D.inflight \cup S
           Q == D.queued \ S
<1>1. WellFormed(D) /\ Distinct(D) /\ WellFormed(E)
  BY DequeueType DEF Orderly
<1>2. E.inflight = D.inflight \cup {mv(m) : m \in S} /\ E.queued = Q /\ E.count12 = D.count12
  BY <1>1, Zenon DEF Dequeue, WellFormed, MsgData
<1>3. /\ \A m \in S : m \in Msg /\ m \in Messages(D)
      /\ Messages(D) \subseteq Msg /\ D.appended \in Nat /\ IsFiniteSet(S)
  BY <1>1, FS_Subset DEF WellFormed, MsgData, Messages
<1>4. \A m \in S : mv(m) \in Msg /\ mv(m).pub = m.pub /\ mv(m).qos = m.qos /\ mv(m).state = m.state
  <2> TAKE m \in S
  <2>1. D.appended + 1 + Before(S, m) \in Nat
    BY <1>3, BeforeNat
  <2> QED
    BY <1>3, <2>1 DEF Msg
<1> HIDE DEF mv, E
<1>5. Relabels(D, E, I, Q, f)
  <2>1. f \in [Messages(D) -> Msg]
    BY <1>3, <1>4
  <2>2. \A m \in Messages(D) : f[m].pub = m.pub /\ f[m].qos = m.qos
    BY <1>3, <1>4
  <2>3. I \subseteq Messages(D) /\ Q \subseteq Messages(D) /\ I \cap Q = {}
    BY <1>1 DEF Messages, Distinct
  <2>4. E.inflight = {f[m] : m \in I} /\ E.queued = {f[m] : m \in Q}
    <3>1. \A m \in D.inflight : m \in Messages(D) /\ m \notin S /\ f[m] = m
      BY <1>1 DEF Messages, Distinct
    <3>2. \A m \in S : f[m] = mv(m)
      BY <1>3
    <3>3. \A m \in Q : f[m] = m
      BY DEF Messages
    <3> HIDE DEF f, Q
    <3>4. E.queued = {f[m] : m \in Q}
      BY <1>2, <3>3
    <3>5. E.inflight \subseteq {f[m] : m \in I}
      BY <1>2, <3>1, <3>2
    <3>6. {f[m] : m \in I} \subseteq E.inflight
      BY <1>2, <3>1, <3>2
    <3> QED
      BY <3>4, <3>5, <3>6
  <2> QED
    BY <2>1, <2>2, <2>3, <2>4 DEF Relabels
<1>6. Distinct(E) /\ Live(E) = PubsOf(Qos12(I \cup Q)) /\ PubsOf(Messages(E)) \subseteq PubsOf(Messages(D))
  BY <1>1, <1>5, RelabelDistinct
<1>7. I \cup Q = Messages(D)
  BY DEF Messages
<1>8. Live(E) = Live(D)
  BY <1>6, <1>7 DEF Live
<1>9. \A st \in LateStates : Waits(D, st) => Waits(E, st)
  BY <1>2, <1>4 DEF Waits
<1> QED
  BY <1>1, <1>2, <1>6, <1>8, <1>9 DEF Keeps, Orderly, Counted, E

\* Marking queued messages.
LEMMA MarkKept ==
    ASSUME NEW D, Orderly(D), NEW R
    PROVE  /\ Keeps(D, [D EXCEPT !.queued = Mark(D.queued, R)])
           /\ \A st \in LateStates :
                 Waits(D, st) => Waits([D EXCEPT !.queued = Mark(D.queued, R)], st)
<1> DEFINE E == [D EXCEPT !.queued = Mark(D.queued, R)]
           mk(m) == IF m \in R THEN [m EXCEPT !.state = PublishState(m.qos)] ELSE m
           f == [m \in Messages(D) |-> IF m \in D.queued THEN mk(m) ELSE m]
<1>1. WellFormed(D) /\ Distinct(D) /\ Messages(D) \subseteq Msg
  BY DEF Orderly, WellFormed, MsgData, Messages
<1>2. Evolves(D, E, {})
  BY <1>1, MarkEvolves
<1>3. E.inflight = D.inflight /\ E.count12 = D.count12 /\ E.queued = {mk(m) : m \in D.queued}
  BY <1>1 DEF Mark, WellFormed, MsgData
<1>4. \A m \in D.queued : mk(m) \in Msg /\ mk(m).pub = m.pub /\ mk(m).qos = m.qos
  BY <1>1 DEF Messages, Msg, MsgStates, PublishState
<1> HIDE DEF mk, E
<1>5. Relabels(D, E, D.inflight, D.queued, f)
  <2>1. f \in [Messages(D) -> Msg]
    BY <1>1, <1>4
  <2>2. \A m \in Messages(D) : f[m].pub = m.pub /\ f[m].qos = m.qos
    BY <1>4
  <2>3. \A m \in D.inflight : f[m] = m
    BY <1>1 DEF Messages, Distinct
  <2>4. \A m \in D.queued : f[m] = mk(m)
    BY DEF Messages
  <2> HIDE DEF f
  <2>5. D.inflight \subseteq Messages(D) /\ D.queued \subseteq Messages(D)
        /\ D.inflight \cap D.queued = {}
    BY <1>1 DEF Messages, Distinct
  <2>6. E.inflight = {f[m] : m \in D.inflight}
    BY <1>3, <2>3
  <2>7. E.queued = {f[m] : m \in D.queued}
    BY <1>3, <2>4
  <2> QED
    BY <2>1, <2>2, <2>5, <2>6, <2>7 DEF Relabels
<1> DEFINE I == D.inflight
           Q == D.queued
<1>5a. Relabels(D, E, I, Q, f)
  BY <1>5
<1> HIDE DEF f, I, Q
<1>6. /\ Distinct(E) /\ Live(E) = PubsOf(Qos12(I \cup Q))
      /\ PubsOf(Messages(E)) \subseteq PubsOf(Messages(D))
  BY <1>1, <1>5a, RelabelDistinct
<1>7. Live(E) = Live(D)
  BY <1>6 DEF Live, Messages, I, Q
<1>8. \A st \in LateStates : Waits(D, st) => Waits(E, st)
  BY <1>3, <1>4 DEF Waits
<1>9. WellFormed(E)
  BY <1>2 DEF Evolves
<1>10. Keeps(D, E)
  BY <1>3, <1>6, <1>7, <1>9 DEF Keeps, Orderly, Counted
<1> QED
  BY <1>8, <1>10 DEF E

\* The loops that refill inflight from queued.
LEMMA PromoteKept ==
    ASSUME NEW D, Orderly(D), NEW n
    PROVE  /\ Keeps(D, Promote(D, n))
           /\ \A st \in LateStates : Waits(D, st) => Waits(Promote(D, n), st)
<1> DEFINE Q == Mark(D.queued, FirstN(D.queued, n))
           E == [D EXCEPT !.queued = Q]
           F == Dequeue(E, FirstN(Q, n))
<1>1. Keeps(D, E) /\ (\A st \in LateStates : Waits(D, st) => Waits(E, st))
  BY MarkKept
<1>2. E.queued = Q
  BY DEF Orderly, WellFormed, MsgData
<1>3. FirstN(Q, n) \subseteq E.queued
  BY <1>2 DEF FirstN
<1>4. Promote(D, n) = F
  BY DEF Promote
<1> HIDE DEF E, Q
<1>5. Keeps(E, F) /\ (\A st \in LateStates : Waits(E, st) => Waits(F, st))
  BY <1>1, <1>3, DequeueKept DEF Keeps
<1> HIDE DEF F
<1> QED
  BY <1>1, <1>4, <1>5, KeepsTrans

LEMMA RefillKept ==
    ASSUME NEW D, Orderly(D), NEW n
    PROVE  /\ Keeps(D, WriteQueuedOut(D)) /\ Keeps(D, RefillFrom(D, n))
           /\ \A st \in LateStates : Waits(D, st) =>
                 Waits(WriteQueuedOut(D), st) /\ Waits(RefillFrom(D, n), st)
  BY PromoteKept DEF WriteQueuedOut, RefillFrom

\* db__message_write_inflight_out_single: a message that waits for its PUBCOMP
\* stays as it is, one whose PUBREL is to be sent again comes to wait for it,
\* and only what is in a publish state is published.
LEMMA WriteKept ==
    ASSUME NEW D, Orderly(D), NEW W, W \subseteq D.inflight
    PROVE  /\ Keeps(D, Write(D, W))
           /\ Waits(D, "wait_for_pubcomp") => Waits(Write(D, W), "wait_for_pubcomp")
           /\ Waits(D, "resend_pubrel") /\ W = D.inflight => Waits(Write(D, W), "wait_for_pubcomp")
           /\ \A st \in LateStates : Waits(D, st) =>
                 \A k \in Sent(W) : k.type = "PUBLISH" => k.pub \notin released
<1> DEFINE E == Write(D, W)
           gone == {m \in W : IsGone(m)}
           f == [m \in Messages(D) |-> IF m \in W THEN Advance(m) ELSE m]
           I == D.inflight \ gone
<1>1. WellFormed(D) /\ Distinct(D) /\ Messages(D) \subseteq Msg
  BY DEF Orderly, WellFormed, MsgData, Messages
<1>2. WellFormed(E)
  BY <1>1, WriteEvolves DEF Evolves
<1>3. /\ E.inflight = (D.inflight \ W) \cup {Advance(m) : m \in W \ gone}
      /\ E.queued = D.queued
      /\ E.count12 = D.count12 - Cardinality(Qos12(gone))
  BY <1>1 DEF Write, WellFormed, MsgData
<1>4. \A m \in W : /\ Advance(m) \in Msg
                   /\ Advance(m).pub = m.pub /\ Advance(m).qos = m.qos
                   /\ m.state \in LateStates => Advance(m).state = "wait_for_pubcomp"
  BY <1>1 DEF Advance, Msg, MsgStates, Messages, LateStates
<1> HIDE DEF E, gone
<1>5. Relabels(D, E, I, D.queued, f)
  <2>1. f \in [Messages(D) -> Msg]
    BY <1>1, <1>4
  <2>2. \A m \in Messages(D) : f[m].pub = m.pub /\ f[m].qos = m.qos
    BY <1>4
  <2>3. \A m \in W : f[m] = Advance(m)
    BY DEF Messages
  <2>4. \A m \in Messages(D) : m \notin W => f[m] = m
    OBVIOUS
  <2>5. D.inflight \subseteq Messages(D) /\ D.queued \subseteq Messages(D)
        /\ D.inflight \cap D.queued = {} /\ gone \subseteq W
    BY <1>1 DEF Messages, Distinct, gone
  <2> HIDE DEF f
  <2>6. E.inflight \subseteq {f[m] : m \in I}
    <3> SUFFICES ASSUME NEW e \in E.inflight PROVE \E m \in I : e = f[m]
      OBVIOUS
    <3>1. CASE e \in D.inflight \ W
      BY <2>4, <2>5, <3>1
    <3>2. CASE \E m \in W \ gone : e = Advance(m)
      BY <2>3, <2>5, <3>2
    <3> QED
      BY <1>3, <3>1, <3>2
  <2>7. {f[m] : m \in I} \subseteq E.inflight
    <3> SUFFICES ASSUME NEW m \in I PROVE f[m] \in E.inflight
      OBVIOUS
    <3>1. CASE m \in W
      BY <1>3, <2>3, <3>1
    <3>2. CASE m \notin W
      BY <1>3, <2>4, <2>5, <3>2
    <3> QED
      BY <3>1, <3>2
  <2>8. E.queued = {f[m] : m \in D.queued}
    BY <1>3, <2>4, <2>5
  <2> QED
    BY <2>1, <2>2, <2>5, <2>6, <2>7, <2>8 DEF Relabels
<1> HIDE DEF f, I
<1>6. /\ Distinct(E) /\ Live(E) = PubsOf(Qos12(I \cup D.queued))
      /\ PubsOf(Messages(E)) \subseteq PubsOf(Messages(D))
  BY <1>1, <1>5, RelabelDistinct
<1>7. Counted(D) => Counted(E)
  <2> DEFINE S == Qos12(Messages(D))
             T == Qos12(I \cup D.queued)
             G == Qos12(gone)
  <2>1. T = S \ G /\ G \subseteq S /\ S \subseteq Messages(D)
    BY <1>1 DEF Qos12, Messages, Distinct, gone, I
  <2> HIDE DEF S, T, G
  <2>2. /\ IsFiniteSet(S) /\ Cardinality(S) \in Nat /\ Cardinality(PubsOf(S)) = Cardinality(S)
    BY <2>1, PubsCount
  <2>3. Cardinality(PubsOf(T)) = Cardinality(T) /\ IsFiniteSet(T) /\ Cardinality(T) \in Nat
    BY <2>1, PubsCount
  <2>4. IsFiniteSet(G) /\ Cardinality(G) \in Nat
    BY <2>1, PubsCount
  <2>5. Cardinality(T) = Cardinality(S) - Cardinality(G)
    <3>1. S = T \cup G /\ T \cap G = {}
      BY <2>1
    <3>2. Cardinality(T \cup G) = Cardinality(T) + Cardinality(G) - Cardinality(T \cap G)
      BY <2>3, <2>4, FS_Union
    <3>3. Cardinality(S) = Cardinality(T \cup G) /\ Cardinality(T \cap G) = 0
      BY <3>1, FS_EmptySet, Zenon
    <3> QED
      BY <2>2, <2>3, <2>4, <3>2, <3>3
  <2>6. Live(D) = PubsOf(S) /\ Live(E) = PubsOf(T) /\ E.count12 = D.count12 - Cardinality(G)
    BY <1>3, <1>6 DEF Live, S, T, G
  <2> QED
    BY <2>2, <2>3, <2>4, <2>5, <2>6 DEF Counted
<1>8. \A st \in LateStates : Waits(D, st) =>
         \A k \in Sent(W) : k.type = "PUBLISH" => k.pub \notin released
  <2> SUFFICES ASSUME NEW st \in LateStates, Waits(D, st), NEW k \in Sent(W), k.type = "PUBLISH"
               PROVE  k.pub \notin released
    OBVIOUS
  <2>1. PICK m \in W : k.pub = m.pub /\ IsPublish(m)
    BY <1>1, SentPackets DEF Messages
  <2> QED
    BY <2>1 DEF Waits, IsPublish, LateStates
<1>9. Waits(D, "wait_for_pubcomp") => Waits(E, "wait_for_pubcomp")
  BY <1>3, <1>4 DEF Waits, LateStates
<1>10. Waits(D, "resend_pubrel") /\ W = D.inflight => Waits(E, "wait_for_pubcomp")
  BY <1>3, <1>4 DEF Waits, LateStates
<1> QED
  BY <1>2, <1>6, <1>7, <1>8, <1>9, <1>10 DEF Keeps, Orderly, E

\* db__message_remove in db__message_delete_outgoing.
LEMMA RemoveKept ==
    ASSUME NEW D, Orderly(D), NEW m \in D.inflight
    PROVE  /\ Keeps(D, Remove(D, m))
           /\ \A st \in LateStates : Waits(D, st) => Waits(Remove(D, m), st)
<1> DEFINE E == Remove(D, m)
<1>1. WellFormed(D) /\ Distinct(D) /\ D.count12 \in Int /\ m \in Messages(D)
  BY DEF Orderly, WellFormed, MsgData, Messages
<1>2. WellFormed(E)
  BY <1>1, RemoveEvolves DEF Evolves
<1>3. /\ E.inflight = D.inflight \ {m} /\ E.queued = D.queued
      /\ E.count12 = IF m.qos > 0 THEN D.count12 - 1 ELSE D.count12
  BY <1>1 DEF Remove, WellFormed, MsgData
<1> HIDE DEF E
<1>4. Messages(E) = Messages(D) \ {m}
  BY <1>1, <1>3 DEF Messages, Distinct
<1>5. Distinct(E) /\ PubsOf(Messages(E)) \subseteq PubsOf(Messages(D))
  BY <1>1, <1>3, <1>4 DEF Distinct, PubsOf
<1>6. Counted(D) => Counted(E)
  <2>1. CASE m.qos > 0
    <3>1. m.pub \in Live(D)
      BY <1>1, <2>1 DEF Live, PubsOf, Qos12
    <3>2. Live(E) = Live(D) \ {m.pub}
      BY <1>1, <1>4 DEF Live, PubsOf, Qos12, Distinct
    <3>3. IsFiniteSet(Live(D))
      BY LiveCount
    <3>4. Cardinality(Live(D) \ {m.pub}) = Cardinality(Live(D)) - 1
      BY <3>1, <3>3, FS_RemoveElement
    <3> QED
      BY <1>3, <2>1, <3>2, <3>4 DEF Counted
  <2>2. CASE ~(m.qos > 0)
    <3>1. Live(E) = Live(D)
      BY <1>4, <2>2 DEF Live, PubsOf, Qos12
    <3> QED
      BY <1>3, <2>2, <3>1 DEF Counted
  <2> QED
    BY <2>1, <2>2
<1>7. \A st \in LateStates : Waits(D, st) => Waits(E, st)
  BY <1>3 DEF Waits
<1>8. Keeps(D, E)
  BY <1>2, <1>5, <1>6 DEF Keeps, Orderly
<1> QED
  BY <1>7, <1>8 DEF E

\* util__increment_send_quota leaves the lists alone.
LEMMA RaiseKept ==
    ASSUME NEW D, Orderly(D)
    PROVE  /\ Keeps(D, [D EXCEPT !.quota = Raise(D, 1)])
           /\ \A st \in LateStates : Waits(D, st) => Waits([D EXCEPT !.quota = Raise(D, 1)], st)
<1> DEFINE E == [D EXCEPT !.quota = Raise(D, 1)]
<1>1. WellFormed(D) /\ Distinct(D)
  BY DEF Orderly
<1>2. WellFormed(E) /\ E.inflight = D.inflight /\ E.queued = D.queued
  BY <1>1, RaiseEvolves DEF Evolves
<1>3. E.count12 = D.count12
  BY <1>1 DEF WellFormed, MsgData
<1> HIDE DEF E
<1>4. Messages(E) = Messages(D)
  BY <1>2 DEF Messages
<1>5. Distinct(E) /\ Live(E) = Live(D) /\ PubsOf(Messages(E)) = PubsOf(Messages(D))
  BY <1>1, <1>2, <1>4 DEF Distinct, Live
<1>6. \A st \in LateStates : Waits(D, st) => Waits(E, st)
  BY <1>2 DEF Waits
<1>7. Keeps(D, E)
  BY <1>2, <1>3, <1>5 DEF Keeps, Orderly, Counted
<1> QED
  BY <1>6, <1>7 DEF E

\* connection_check_acl.
LEMMA CheckAclKept ==
    ASSUME NEW D, Orderly(D), NEW denied, denied \subseteq Revocable
    PROVE  /\ Keeps(D, CheckAcl(D, denied))
           /\ \A st \in LateStates : Waits(D, st) => Waits(CheckAcl(D, denied), st)
<1> DEFINE E == CheckAcl(D, denied)
<1>1. WellFormed(D) /\ Distinct(D)
  BY DEF Orderly
<1>2. WellFormed(E)
  BY <1>1, CheckAclEvolves DEF Evolves
<1>3. /\ E.inflight = {m \in D.inflight : m.pub \notin denied}
      /\ E.queued = {m \in D.queued : m.pub \notin denied}
      /\ E.count12 = D.count12
  BY <1>1 DEF CheckAcl, WellFormed, MsgData
<1> HIDE DEF E
<1>4. Messages(E) \subseteq Messages(D) /\ (Revocable = {} => Messages(E) = Messages(D))
  BY <1>3 DEF Messages
<1>5. Distinct(E) /\ PubsOf(Messages(E)) \subseteq PubsOf(Messages(D))
  BY <1>1, <1>3, <1>4 DEF Distinct, PubsOf
<1>6. Revocable = {} /\ Counted(D) => Counted(E)
  BY <1>3, <1>4 DEF Counted, Live
<1>7. \A st \in LateStates : Waits(D, st) => Waits(E, st)
  BY <1>3 DEF Waits
<1>8. Keeps(D, E)
  BY <1>2, <1>5, <1>6 DEF Keeps, Orderly
<1> QED
  BY <1>7, <1>8 DEF E

\* db__message_reconnect_reset_outgoing: it counts anew, and a message that
\* waits for its PUBCOMP is one whose PUBREL is to be sent again.
LEMMA ReconnectResetKept ==
    ASSUME NEW D, Orderly(D), NEW max \in Nat
    PROVE  /\ Keeps(D, ReconnectReset(D, max))
           /\ Waits(D, "wait_for_pubcomp") => Waits(ReconnectReset(D, max), "resend_pubrel")
<1> DEFINE quota == Lower(max, Cardinality(Qos12(D.inflight)))
           ready == IF max = 0 THEN D.queued
                    ELSE FirstN(D.queued, quota) \cup {m \in D.queued : m.qos = 0}
           mk(m) == IF m \in ready THEN [m EXCEPT !.state = PublishState(m.qos)] ELSE m
           c == Cardinality(Qos12(D.inflight)) + Cardinality(Qos12(D.queued))
           Q1 == Mark(D.queued, ready)
           I1 == {ResetState(m) : m \in D.inflight}
           E == [D EXCEPT !.inflight = I1, !.queued = Q1, !.quota = quota,
                          !.maximum = max, !.count12 = c]
           S == FirstN(Q1, Cardinality(ready))
           f == [m \in Messages(D) |-> IF m \in D.inflight THEN ResetState(m) ELSE mk(m)]
           I == D.inflight
           Q == D.queued
<1>1. WellFormed(D) /\ Distinct(D) /\ Messages(D) \subseteq Msg
  BY DEF Orderly, WellFormed, MsgData, Messages
<1>2. ReconnectReset(D, max) = Dequeue(E, S)
  BY DEF ReconnectReset
<1>3. Q1 = {mk(m) : m \in D.queued}
  BY DEF Mark
<1>4. \A m \in D.queued : mk(m) \in Msg /\ mk(m).pub = m.pub /\ mk(m).qos = m.qos
  BY <1>1 DEF Messages, Msg, MsgStates, PublishState
<1>5. \A m \in D.inflight :
         /\ ResetState(m) \in Msg
         /\ ResetState(m).pub = m.pub /\ ResetState(m).qos = m.qos
         /\ m.qos = 2 /\ m.state = "wait_for_pubcomp" => ResetState(m).state = "resend_pubrel"
  BY <1>1 DEF Messages, Msg, MsgStates, PublishState, ResetState
<1>6. /\ IsFiniteSet(I1) /\ I1 \subseteq Msg
  <2> DEFINE g == [m \in D.inflight |-> ResetState(m)]
  <2>1. g \in [D.inflight -> Msg] /\ I1 = {g[m] : m \in D.inflight}
    BY <1>5
  <2> HIDE DEF g
  <2>2. IsFiniteSet({g[m] : m \in D.inflight})
    BY <1>1, <2>1, FiniteImage DEF WellFormed
  <2> QED
    BY <2>1, <2>2, <1>5
<1>7. IsFiniteSet(Q1) /\ Q1 \subseteq Msg
  BY <1>1, MarkType DEF WellFormed, MsgData
<1>8. quota \in Nat /\ quota <= max /\ c \in Int
  <2>1. IsFiniteSet(Qos12(D.inflight)) /\ IsFiniteSet(Qos12(D.queued))
    BY <1>1, FS_Subset DEF WellFormed, Qos12
  <2>2. Cardinality(Qos12(D.inflight)) \in Nat /\ Cardinality(Qos12(D.queued)) \in Nat
    BY <2>1, FS_CardinalityType
  <2> QED
    BY <2>2 DEF Lower
<1>9. S \subseteq Q1
  BY DEF FirstN
<1> HIDE DEF quota, ready, mk, c, Q1, S
<1>10. I1 \in SUBSET Msg
  BY <1>6
<1> HIDE DEF I1
<1>11. WellFormed(E) /\ E.inflight = I1 /\ E.queued = Q1 /\ E.count12 = c
  BY <1>1, <1>6, <1>7, <1>8 DEF WellFormed, MsgData
<1> HIDE DEF E
<1>12. Relabels(D, E, I, Q, f)
  <2>1. f \in [Messages(D) -> Msg]
    BY <1>4, <1>5 DEF Messages
  <2>2. \A m \in Messages(D) : f[m].pub = m.pub /\ f[m].qos = m.qos
    BY <1>4, <1>5 DEF Messages
  <2>3. \A m \in D.inflight : f[m] = ResetState(m)
    BY DEF Messages
  <2>4. \A m \in D.queued : f[m] = mk(m)
    BY <1>1 DEF Messages, Distinct
  <2> HIDE DEF f
  <2>5. I \subseteq Messages(D) /\ Q \subseteq Messages(D) /\ I \cap Q = {}
    BY <1>1 DEF Messages, Distinct
  <2>6. E.inflight = {f[m] : m \in D.inflight}
    BY <1>11, <2>3 DEF I1
  <2>7. E.queued = {f[m] : m \in D.queued}
    BY <1>3, <1>11, <2>4
  <2> QED
    BY <2>1, <2>2, <2>5, <2>6, <2>7 DEF Relabels
<1> HIDE DEF f, I, Q
<1>13. /\ Distinct(E) /\ Live(E) = PubsOf(Qos12(I \cup Q))
       /\ PubsOf(Messages(E)) \subseteq PubsOf(Messages(D))
  BY <1>1, <1>12, RelabelDistinct
<1>14. Counted(E)
  <2>1. Live(E) = Live(D)
    BY <1>13 DEF Live, Messages, I, Q
  <2>2. Cardinality(Live(D)) = c
    BY LiveCount DEF c
  <2> QED
    BY <1>11, <2>1, <2>2 DEF Counted
<1>15. Waits(D, "wait_for_pubcomp") => Waits(E, "resend_pubrel")
  BY <1>3, <1>4, <1>5, <1>11 DEF Waits, I1
<1>16. Keeps(D, E)
  BY <1>11, <1>13, <1>14 DEF Keeps, Orderly
<1>17. Keeps(E, Dequeue(E, S)) /\ (\A st \in LateStates : Waits(E, st) => Waits(Dequeue(E, S), st))
  BY <1>9, <1>11, <1>16, DequeueKept DEF Keeps
<1>18. Keeps(D, Dequeue(E, S))
  BY <1>16, <1>17, KeepsTrans
<1> QED
  BY <1>2, <1>15, <1>17, <1>18 DEF LateStates

\* A resumed session (connect__on_authorised up to the write).
LEMMA ResumedKept ==
    ASSUME Orderly(msgs_out), NEW max \in Nat, NEW denied, denied \subseteq Revocable
    PROVE  /\ Keeps(msgs_out, Restored(max, denied)) /\ Keeps(msgs_out, Resumed(max, denied))
           /\ Waits(msgs_out, "wait_for_pubcomp") => Waits(Resumed(max, denied), "resend_pubrel")
<1> DEFINE E == ReconnectReset(msgs_out, max)
           F == CheckAcl(E, denied)
           G == WriteQueuedOut(F)
<1>1. Keeps(msgs_out, E) /\ (Waits(msgs_out, "wait_for_pubcomp") => Waits(E, "resend_pubrel"))
  BY ReconnectResetKept
<1> HIDE DEF E
<1>2. Keeps(E, F) /\ (\A st \in LateStates : Waits(E, st) => Waits(F, st))
  BY <1>1, CheckAclKept DEF Keeps
<1> HIDE DEF F
<1>3. Keeps(F, G) /\ (\A st \in LateStates : Waits(F, st) => Waits(G, st))
  BY <1>2, RefillKept DEF Keeps
<1> HIDE DEF G
<1>4. Keeps(msgs_out, F)
  BY <1>1, <1>2, KeepsTrans
<1>5. Keeps(msgs_out, G)
  BY <1>3, <1>4, KeepsTrans
<1>6. Waits(msgs_out, "wait_for_pubcomp") => Waits(G, "resend_pubrel")
  BY <1>1, <1>2, <1>3 DEF LateStates
<1> QED
  BY <1>4, <1>5, <1>6 DEF Resumed, Restored, E, F, G

\* Nothing is in a list before it is published.
Made == \A m \in Messages(msgs_out) : m.pub <= published
ReleasedMade == \A p \in released : p <= published

ListInv == TypeInv /\ Distinct(msgs_out) /\ Made

\* db__message_insert adds at most one message, of a new publication.
LEMMA InsertKept ==
    ASSUME ListInv, ReleasedMade \/ SendFailures, published < MaxPublish, NEW qos \in 0..2, NEW full
    PROVE  LET E == Insert(msgs_out, qos, full)
           IN  /\ Orderly(E)
               /\ PubsOf(Messages(E)) \subseteq PubsOf(Messages(msgs_out)) \cup {published + 1}
               /\ Counted(msgs_out) => Counted(E)
               /\ ~SendFailures /\ Waits(msgs_out, "wait_for_pubcomp") => Waits(E, "wait_for_pubcomp")
<1> DEFINE D == msgs_out
           E == Insert(D, qos, full)
           flies == sock /\ ReadyForFlight(D, qos, full)
           waits == /\ ~flies /\ ReadyForQueue(D, qos)
                    /\ qos > 0 \/ (~sock /\ QueueQos0)
           m == [pub |-> published + 1, mid |-> IF qos > 0 THEN NextMid ELSE 0,
                 qos |-> qos, pos |-> D.appended + 1,
                 state |-> IF flies THEN PublishState(qos) ELSE "queued"]
<1>1. Orderly(D) /\ WellFormed(D) /\ Distinct(D) /\ TypeInv /\ WellFormed(E)
  BY InsertAdds DEF ListInv, TypeInv, Orderly
<1>2. CASE ~flies /\ ~waits
  <2>1. E = D
    BY <1>2 DEF Insert
  <2> QED
    BY <1>1, <2>1
<1>3. CASE flies \/ waits
  <2>1. m.pub = published + 1 /\ m.qos = qos
    OBVIOUS
  <2>2. /\ E.inflight = (IF flies THEN D.inflight \cup {m} ELSE D.inflight)
        /\ E.queued = (IF waits THEN D.queued \cup {m} ELSE D.queued)
        /\ E.count12 = (IF qos > 0 THEN D.count12 + 1 ELSE D.count12)
    BY <1>1, <1>3 DEF Insert, WellFormed, MsgData
  <2>3. flies => ~waits
    OBVIOUS
  <2> HIDE DEF m, flies, waits, E, D
  <2>4. published \in Nat /\ \A n \in Messages(D) : n.pub \in Nat /\ n.pub <= published
    BY OutAssumption DEF ListInv, TypeInv, TypeOK, Made, Messages, MsgData, Msg, D
  <2>5. \A n \in Messages(D) : n.pub # m.pub
    BY <2>1, <2>4
  <2>6. m \notin Messages(D)
    BY <2>5
  <2>7. Messages(E) = Messages(D) \cup {m}
    BY <1>3, <2>2, <2>3 DEF Messages
  <2>8. Distinct(E)
    <3>1. E.inflight \cap E.queued = {}
      BY <1>1, <2>2, <2>3, <2>6 DEF Distinct, Messages
    <3> QED
      BY <1>1, <2>5, <2>7, <3>1 DEF Distinct
  <2>9. PubsOf(Messages(E)) \subseteq PubsOf(Messages(D)) \cup {published + 1}
    BY <2>1, <2>7 DEF PubsOf
  <2>10. Counted(D) => Counted(E)
    <3>1. IsFiniteSet(Live(D)) /\ m.pub \notin Live(D)
      BY <1>1, <2>5, LiveCount DEF Live, PubsOf, Qos12
    <3>2. CASE qos > 0
      <4>1. Live(E) = Live(D) \cup {m.pub}
        BY <2>1, <2>7, <3>2 DEF Live, PubsOf, Qos12
      <4>2. Cardinality(Live(D) \cup {m.pub}) = Cardinality(Live(D)) + 1
        BY <3>1, FS_AddElement
      <4> QED
        BY <2>2, <3>2, <4>1, <4>2 DEF Counted
    <3>3. CASE ~(qos > 0)
      <4>1. Live(E) = Live(D)
        BY <2>1, <2>7, <3>3 DEF Live, PubsOf, Qos12
      <4> QED
        BY <2>2, <3>3, <4>1 DEF Counted
    <3> QED
      BY <3>2, <3>3
  <2>11. ~SendFailures /\ Waits(D, "wait_for_pubcomp") => Waits(E, "wait_for_pubcomp")
    <3> SUFFICES ASSUME ReleasedMade, Waits(D, "wait_for_pubcomp") PROVE Waits(E, "wait_for_pubcomp")
      OBVIOUS
    <3>1. \A p \in released : p \in Nat /\ p <= published
      BY OutAssumption DEF ReleasedMade, ListInv, TypeInv, TypeOK
    <3>2. m.pub \notin released
      BY <2>1, <2>4, <3>1
    <3> QED
      BY <2>2, <3>2 DEF Waits
  <2> QED
    BY <1>1, <2>8, <2>9, <2>10, <2>11 DEF Orderly, D, E
<1> QED
  BY <1>2, <1>3

----------------------------------------------------------------------------
(* The handlers.                                                           *)

\* What a handler of the broker leaves: the lists in order, the counter right
\* and the released messages waiting, none of them published again.
Tended ==
    /\ Orderly(msgs_out') /\ Made'
    /\ Revocable = {} /\ Counted(msgs_out) => Counted(msgs_out')
    /\ ~SendFailures /\ Waits(msgs_out, "wait_for_pubcomp") =>
          /\ Waits(msgs_out', "wait_for_pubcomp")
          /\ \A k \in toClient' \ toClient : k.type = "PUBLISH" => k.pub \notin released

\* Fewer or the same publications in the lists.
LEMMA StillMade ==
    ASSUME ListInv, Keeps(msgs_out, msgs_out'), published' = published
    PROVE  Made'
<1>1. \A e \in Messages(msgs_out') : \E m \in Messages(msgs_out) : e.pub = m.pub
  BY DEF Keeps, PubsOf
<1> QED
  BY <1>1 DEF ListInv, Made

\* The common end of the handlers.
LEMMA FlushKept ==
    ASSUME NEW E, Orderly(E), NEW W, W \subseteq E.inflight,
           NEW M, M \in {Write(E, W), WriteQueuedOut(Write(E, W))}
    PROVE  /\ Keeps(E, M)
           /\ Waits(E, "wait_for_pubcomp") => Waits(M, "wait_for_pubcomp")
           /\ Waits(E, "resend_pubrel") /\ W = E.inflight => Waits(M, "wait_for_pubcomp")
           /\ Waits(E, "wait_for_pubcomp") \/ Waits(E, "resend_pubrel") =>
                 \A k \in Sent(W) : k.type = "PUBLISH" => k.pub \notin released
<1> DEFINE F == Write(E, W)
<1>1. /\ Keeps(E, F)
      /\ Waits(E, "wait_for_pubcomp") => Waits(F, "wait_for_pubcomp")
      /\ Waits(E, "resend_pubrel") /\ W = E.inflight => Waits(F, "wait_for_pubcomp")
      /\ Waits(E, "wait_for_pubcomp") \/ Waits(E, "resend_pubrel") =>
            \A k \in Sent(W) : k.type = "PUBLISH" => k.pub \notin released
  BY WriteKept DEF LateStates
<1> HIDE DEF F
<1>2. Keeps(F, WriteQueuedOut(F))
      /\ (Waits(F, "wait_for_pubcomp") => Waits(WriteQueuedOut(F), "wait_for_pubcomp"))
  BY <1>1, RefillKept DEF Keeps, LateStates
<1>3. Keeps(E, WriteQueuedOut(F))
  BY <1>1, <1>2, KeepsTrans
<1>4. M = F \/ M = WriteQueuedOut(F)
  BY DEF F
<1> QED
  BY <1>1, <1>2, <1>3, <1>4

\* The handlers that write the latest messages of lists E made from the
\* current ones.
LEMMA LatestTended ==
    ASSUME ListInv, NEW E, Keeps(msgs_out, E), published' = published,
           Waits(msgs_out, "wait_for_pubcomp") => Waits(E, "wait_for_pubcomp"),
           msgs_out' = Write(E, Latest(E)), FlushLatest(E)
    PROVE  Tended
<1>1. Orderly(E) /\ Latest(E) \subseteq E.inflight
  BY DEF Keeps, Latest
<1>2. /\ Keeps(E, msgs_out')
      /\ Waits(E, "wait_for_pubcomp") => Waits(msgs_out', "wait_for_pubcomp")
      /\ Waits(E, "wait_for_pubcomp") =>
            \A k \in Sent(Latest(E)) : k.type = "PUBLISH" => k.pub \notin released
  BY <1>1, FlushKept
<1>3. Keeps(msgs_out, msgs_out')
  BY <1>2, KeepsTrans
<1>4. Made'
  BY <1>3, StillMade
<1>5. toClient' \ toClient \subseteq Sent(Latest(E))
  BY DEF FlushLatest
<1> QED
  BY <1>2, <1>3, <1>4, <1>5 DEF Tended, Keeps

\* subs__send and retain__queue.
LEMMA ArrivalTended ==
    ASSUME ListInv, ReleasedMade \/ SendFailures, BrokerPublish \/ BrokerSubscribe
    PROVE  Tended
<1> USE OutAssumption
<1>1. PICK qos \in QosLevels, full \in Blocked, blocked \in BOOLEAN :
         Publish(qos, full) \/ Subscribe(qos, full, blocked)
  BY DEF BrokerPublish, BrokerSubscribe, Blocked
<1> DEFINE D == Insert(msgs_out, qos, full)
           F == WriteQueuedOut(D)
<1>2. qos \in 0..2 /\ published < MaxPublish /\ published' = published + 1
  BY <1>1 DEF Publish, Subscribe, Arrive
<1>3. /\ Orderly(D)
      /\ PubsOf(Messages(D)) \subseteq PubsOf(Messages(msgs_out)) \cup {published + 1}
      /\ Counted(msgs_out) => Counted(D)
      /\ ~SendFailures /\ Waits(msgs_out, "wait_for_pubcomp") => Waits(D, "wait_for_pubcomp")
  BY <1>2, InsertKept
<1> HIDE DEF D
<1>4. /\ Keeps(D, F)
      /\ Waits(D, "wait_for_pubcomp") => Waits(F, "wait_for_pubcomp")
  BY <1>3, RefillKept DEF LateStates
<1> HIDE DEF F
<1>5. PICK E, W :
         /\ E \in {D, F}
         /\ \/ msgs_out' = D /\ toClient' = toClient
            \/ /\ W \subseteq E.inflight /\ toClient' = toClient \cup Sent(W)
               /\ msgs_out' \in {Write(E, W), WriteQueuedOut(Write(E, W))}
  <2>1. CASE msgs_out' = D /\ toClient' = toClient
    BY <2>1
  <2>2. CASE msgs_out' = WriteQueuedOut(Write(D, Latest(D))) /\ FlushLatest(D)
    <3>1. Latest(D) \subseteq D.inflight
      BY DEF Latest
    <3> QED
      BY <2>2, <3>1 DEF FlushLatest
  <2>3. CASE msgs_out' = Write(F, Latest(F)) /\ FlushLatest(F)
    <3>1. Latest(F) \subseteq F.inflight
      BY DEF Latest
    <3> QED
      BY <2>3, <3>1 DEF FlushLatest
  <2> QED
    BY <1>1, <2>1, <2>2, <2>3 DEF Publish, Subscribe, D, F
<1>6. Keeps(D, D)
  BY <1>3 DEF Keeps
<1>7. Keeps(D, E) /\ (Waits(D, "wait_for_pubcomp") => Waits(E, "wait_for_pubcomp"))
  BY <1>4, <1>5, <1>6
<1>8. /\ Keeps(D, msgs_out')
      /\ Waits(D, "wait_for_pubcomp") =>
            /\ Waits(msgs_out', "wait_for_pubcomp")
            /\ \A k \in toClient' \ toClient : k.type = "PUBLISH" => k.pub \notin released
  <2>1. CASE msgs_out' = D /\ toClient' = toClient
    BY <1>6, <2>1
  <2>2. CASE /\ W \subseteq E.inflight /\ toClient' = toClient \cup Sent(W)
             /\ msgs_out' \in {Write(E, W), WriteQueuedOut(Write(E, W))}
    <3>1. Orderly(E)
      BY <1>7 DEF Keeps
    <3>2. /\ Keeps(E, msgs_out')
          /\ Waits(E, "wait_for_pubcomp") => Waits(msgs_out', "wait_for_pubcomp")
          /\ Waits(E, "wait_for_pubcomp") =>
                \A k \in Sent(W) : k.type = "PUBLISH" => k.pub \notin released
      BY <2>2, <3>1, FlushKept
    <3>3. Keeps(D, msgs_out')
      BY <1>7, <3>2, KeepsTrans
    <3> QED
      BY <1>7, <2>2, <3>2, <3>3
  <2> QED
    BY <1>5, <2>1, <2>2
<1>9. Made'
  <2>1. \A e \in Messages(msgs_out') : e.pub \in PubsOf(Messages(msgs_out)) \cup {published + 1}
    BY <1>3, <1>8 DEF Keeps, PubsOf
  <2>2. published \in Nat /\ \A n \in Messages(msgs_out) : n.pub \in Nat /\ n.pub <= published
    BY DEF ListInv, TypeInv, TypeOK, Made, Messages, MsgData, Msg
  <2>3. \A p \in PubsOf(Messages(msgs_out)) \cup {published + 1} : p <= published + 1
    BY <2>2 DEF PubsOf
  <2> QED
    BY <1>2, <2>1, <2>3 DEF Made
<1> QED
  BY <1>3, <1>8, <1>9 DEF Tended, Keeps

\* handle__subscribe without a retained message, and do_disconnect.
LEMMA QuietTended ==
    ASSUME ListInv, BrokerSubscribeOnly \/ BrokerDisconnect
    PROVE  Tended
<1>1. Orderly(msgs_out)
  BY DEF ListInv, TypeInv, Orderly
<1>2. CASE BrokerSubscribeOnly
  <2> DEFINE E == WriteQueuedOut(msgs_out)
  <2>1. /\ Keeps(msgs_out, E)
        /\ Waits(msgs_out, "wait_for_pubcomp") => Waits(E, "wait_for_pubcomp")
    BY <1>1, RefillKept DEF LateStates
  <2>2. msgs_out' = Write(E, Latest(E)) /\ FlushLatest(E) /\ published' = published
    BY <1>2 DEF BrokerSubscribeOnly, SubscribeOnly
  <2> HIDE DEF E
  <2> QED
    BY <2>1, <2>2, LatestTended
<1>3. CASE BrokerDisconnect
  <2>1. msgs_out' = msgs_out /\ published' = published /\ toClient' = {}
    BY <1>3 DEF BrokerDisconnect, Disconnect, CloseSocket, ChannelClosed
  <2>2. Made'
    BY <2>1 DEF ListInv, Made
  <2> QED
    BY <1>1, <2>1, <2>2 DEF Tended
<1> QED
  BY <1>2, <1>3

\* connect__on_authorised, complete or not.
LEMMA ResumeTended ==
    ASSUME ListInv, BrokerConnect \/ BrokerTakeover \/ BrokerConnectFails \/ BrokerConnackFails
    PROVE  Tended
<1>1. PICK max \in Maxima, denied \in SUBSET Revocable, n \in 0..MaxPublish :
         \/ Resume(max, denied)
         \/ ConnectFails(max, denied, n) \/ ConnackFails(max, denied)
  <2>1. 0 \in 0..MaxPublish
    BY OutAssumption
  <2>2. CASE BrokerConnect \/ BrokerTakeover
    BY <2>1, <2>2 DEF BrokerConnect, BrokerTakeover, Connect, Takeover
  <2>3. CASE BrokerConnectFails
    BY <2>3 DEF BrokerConnectFails
  <2>4. CASE BrokerConnackFails
    BY <2>1, <2>4 DEF BrokerConnackFails
  <2> QED
    BY <2>2, <2>3, <2>4
<1>2. Orderly(msgs_out) /\ max \in Nat /\ denied \subseteq Revocable
  BY OutAssumption DEF ListInv, TypeInv, Orderly
<1> DEFINE D == Resumed(max, denied)
<1>3. /\ Keeps(msgs_out, Restored(max, denied)) /\ Keeps(msgs_out, D)
      /\ Waits(msgs_out, "wait_for_pubcomp") => Waits(D, "resend_pubrel")
  BY <1>2, ResumedKept
<1>4. published' = published
  BY <1>1 DEF Resume, ConnectFails, ConnackFails
<1>5. CASE Resume(max, denied)
  <2>1. msgs_out' = Write(D, D.inflight) /\ toClient' = Sent(D.inflight)
    BY <1>5 DEF Resume
  <2> HIDE DEF D
  <2>2. /\ Keeps(D, msgs_out')
        /\ Waits(D, "resend_pubrel") => Waits(msgs_out', "wait_for_pubcomp")
        /\ Waits(D, "resend_pubrel") =>
              \A k \in Sent(D.inflight) : k.type = "PUBLISH" => k.pub \notin released
    BY <1>3, <2>1, FlushKept DEF Keeps
  <2>3. Keeps(msgs_out, msgs_out')
    BY <1>3, <2>2, KeepsTrans
  <2>4. Made'
    BY <1>4, <2>3, StillMade
  <2> QED
    BY <1>3, <2>1, <2>2, <2>3, <2>4 DEF Tended, Keeps
<1>6. CASE ConnectFails(max, denied, n)
  <2> DEFINE W == FirstN(D.inflight, n)
  <2>1. msgs_out' = Write(D, W) /\ SendFailures /\ W \subseteq D.inflight
    BY <1>6 DEF ConnectFails, FirstN
  <2> HIDE DEF D, W
  <2>2. Keeps(D, msgs_out')
    BY <1>3, <2>1, FlushKept DEF Keeps
  <2>3. Keeps(msgs_out, msgs_out')
    BY <1>3, <2>2, KeepsTrans
  <2>4. Made'
    BY <1>4, <2>3, StillMade
  <2> QED
    BY <2>1, <2>3, <2>4 DEF Tended, Keeps
<1>7. CASE ConnackFails(max, denied)
  <2>1. msgs_out' = Restored(max, denied) /\ SendFailures
    BY <1>7 DEF ConnackFails
  <2>2. Keeps(msgs_out, msgs_out')
    BY <1>3, <2>1
  <2>3. Made'
    BY <1>4, <2>2, StillMade
  <2> QED
    BY <2>1, <2>2, <2>3 DEF Tended, Keeps
<1> QED
  BY <1>1, <1>5, <1>6, <1>7

\* db__message_delete_outgoing.
LEMMA DeleteTended ==
    ASSUME ListInv, NEW D, Keeps(msgs_out, D), published' = published,
           Waits(msgs_out, "wait_for_pubcomp") => Waits(D, "wait_for_pubcomp"),
           NEW pkt, NEW qos, NEW expect, DeleteOutgoing(D, pkt, qos, expect)
    PROVE  Tended
<1>1. Orderly(D)
  BY DEF Keeps
<1>2. CASE msgs_out' = D /\ CloseSocket
  <2>1. Made'
    BY <1>2, StillMade
  <2>2. toClient' = {}
    BY <1>2 DEF CloseSocket, ChannelClosed
  <2> QED
    BY <1>2, <2>1, <2>2 DEF Tended, Keeps
<1>3. CASE LET E == RefillFrom(D, Cardinality(D.inflight))
           IN  msgs_out' = Write(E, Latest(E)) /\ FlushLatest(E)
  <2> DEFINE E == RefillFrom(D, Cardinality(D.inflight))
  <2>1. Keeps(D, E) /\ (Waits(D, "wait_for_pubcomp") => Waits(E, "wait_for_pubcomp"))
    BY <1>1, RefillKept DEF LateStates
  <2>2. msgs_out' = Write(E, Latest(E)) /\ FlushLatest(E)
    BY <1>3
  <2> HIDE DEF E
  <2>3. Keeps(msgs_out, E)
    BY <2>1, KeepsTrans
  <2> QED
    BY <2>1, <2>2, <2>3, LatestTended
<1>4. ASSUME NEW m \in D.inflight,
             LET E == RefillFrom(Remove(D, m), Before(D.inflight, m))
             IN  msgs_out' = Write(E, Latest(E)) /\ FlushLatest(E)
      PROVE  Tended
  <2> DEFINE F == Remove(D, m)
             E == RefillFrom(F, Before(D.inflight, m))
  <2>1. Keeps(D, F) /\ (Waits(D, "wait_for_pubcomp") => Waits(F, "wait_for_pubcomp"))
    BY <1>1, RemoveKept DEF LateStates
  <2>2. msgs_out' = Write(E, Latest(E)) /\ FlushLatest(E)
    BY <1>4
  <2> HIDE DEF F
  <2>3. Keeps(F, E) /\ (Waits(F, "wait_for_pubcomp") => Waits(E, "wait_for_pubcomp"))
    BY <2>1, RefillKept DEF LateStates, Keeps
  <2> HIDE DEF E
  <2>4. Keeps(msgs_out, F)
    BY <2>1, KeepsTrans
  <2>5. Keeps(msgs_out, E)
    BY <2>3, <2>4, KeepsTrans
  <2> QED
    BY <2>1, <2>2, <2>3, <2>5, LatestTended
<1> QED
  BY <1>2, <1>3, <1>4 DEF DeleteOutgoing

LEMMA AckTended ==
    ASSUME ListInv, NEW pkt, HandlePubackcomp(pkt) \/ HandlePubrecRefused(pkt)
    PROVE  Tended
<1>1. Orderly(msgs_out)
  BY DEF ListInv, TypeInv, Orderly
<1>2. published' = published
  BY DEF HandlePubackcomp, HandlePubrecRefused
<1>3. CASE HandlePubackcomp(pkt)
  <2> DEFINE D == [msgs_out EXCEPT !.quota = Raise(msgs_out, 1)]
             qos == IF pkt.type = "PUBACK" THEN 1 ELSE 2
  <2>1. Keeps(msgs_out, D) /\ (Waits(msgs_out, "wait_for_pubcomp") => Waits(D, "wait_for_pubcomp"))
    BY <1>1, RaiseKept DEF LateStates
  <2>2. DeleteOutgoing(D, pkt, qos, "wait_for_pubcomp")
    BY <1>3 DEF HandlePubackcomp
  <2> HIDE DEF D, qos
  <2> QED
    BY <1>2, <2>1, <2>2, DeleteTended
<1>4. CASE HandlePubrecRefused(pkt)
  <2>1. Keeps(msgs_out, msgs_out)
    BY <1>1 DEF Keeps
  <2>2. DeleteOutgoing(msgs_out, pkt, 2, "wait_for_pubrec")
    BY <1>4 DEF HandlePubrecRefused
  <2> QED
    BY <1>2, <2>1, <2>2, DeleteTended
<1> QED
  BY <1>3, <1>4

\* handle__pubrec: the message it finds is the only one of its publication.
LEMMA PubrecTended ==
    ASSUME ListInv, NEW pkt \in toBroker, HandlePubrec(pkt)
    PROVE  /\ Orderly(msgs_out') /\ Made'
           /\ Counted(msgs_out) => Counted(msgs_out')
           /\ Waits(msgs_out, "wait_for_pubcomp") => Waits(msgs_out, "wait_for_pubcomp")'
           /\ ReleasedMade => ReleasedMade'
           /\ \A k \in toClient' \ toClient : k.type # "PUBLISH"
<1>1. /\ Orderly(msgs_out) /\ WellFormed(msgs_out) /\ Distinct(msgs_out) /\ TypeInv
      /\ published' = published
  BY DEF ListInv, TypeInv, Orderly, HandlePubrec
<1>2. \A k \in toClient' \ toClient : k.type # "PUBLISH"
  <2>1. Answer(pkt, "PUBREL").type = "PUBREL"
    BY <1>1, AnswerFields DEF TypeInv, TypeOK, PacketTypes
  <2> QED
    BY <2>1 DEF HandlePubrec, CloseSocket, ChannelClosed
<1>3. CASE UNCHANGED <<msgs_out, released>>
  <2>1. Made' /\ (ReleasedMade => ReleasedMade')
    BY <1>1, <1>3 DEF ListInv, Made, ReleasedMade
  <2>2. Waits(msgs_out, "wait_for_pubcomp") => Waits(msgs_out, "wait_for_pubcomp")'
    BY <1>3 DEF Waits
  <2> QED
    BY <1>1, <1>2, <1>3, <2>1, <2>2
<1>4. ASSUME NEW m \in msgs_out.inflight, m.qos = 2,
             msgs_out' = [msgs_out EXCEPT !.inflight =
                (@ \ {m}) \cup {[m EXCEPT !.state = "wait_for_pubcomp"]}],
             released' = released \cup {m.pub}
      PROVE  /\ Orderly(msgs_out') /\ Made'
             /\ Counted(msgs_out) => Counted(msgs_out')
             /\ Waits(msgs_out, "wait_for_pubcomp") => Waits(msgs_out, "wait_for_pubcomp")'
             /\ ReleasedMade => ReleasedMade'
  <2>1. m \in Msg /\ m \in Messages(msgs_out)
    BY <1>1 DEF WellFormed, MsgData, Messages
  <2>2. PICK n \in Msg : /\ n = [m EXCEPT !.state = "wait_for_pubcomp"]
                         /\ n.pub = m.pub /\ n.qos = m.qos
                         /\ msgs_out'.inflight = (msgs_out.inflight \ {m}) \cup {n}
                         /\ msgs_out'.queued = msgs_out.queued
    BY <1>1, <1>4, PubrecLists
  <2>3. n.state = "wait_for_pubcomp"
    BY <2>1, <2>2 DEF Msg
  <2>4. WellFormed(msgs_out')
    BY <1>1, <1>4, PubrecLists
  <2>5. msgs_out'.count12 = msgs_out.count12
    BY <1>1, <1>4 DEF WellFormed, MsgData
  <2> DEFINE I == msgs_out.inflight
             Q == msgs_out.queued
             f == [x \in Messages(msgs_out) |-> IF x = m THEN n ELSE x]
  <2>6. Relabels(msgs_out, msgs_out', I, Q, f)
    <3>1. f \in [Messages(msgs_out) -> Msg]
      BY <1>1, <2>2 DEF WellFormed, MsgData, Messages
    <3>2. \A x \in Messages(msgs_out) : f[x].pub = x.pub /\ f[x].qos = x.qos
      BY <2>2
    <3>3. I \subseteq Messages(msgs_out) /\ Q \subseteq Messages(msgs_out) /\ I \cap Q = {}
      BY <1>1 DEF Messages, Distinct
    <3>4. f[m] = n /\ \A x \in Messages(msgs_out) : x # m => f[x] = x
      BY <2>1
    <3>5. m \notin Q
      BY <3>3
    <3> HIDE DEF f
    <3>6. msgs_out'.queued = {f[x] : x \in Q}
      BY <2>2, <3>3, <3>4, <3>5
    <3>7. msgs_out'.inflight = {f[x] : x \in I}
      BY <2>2, <3>3, <3>4
    <3> QED
      BY <3>1, <3>2, <3>3, <3>6, <3>7 DEF Relabels
  <2> HIDE DEF I, Q, f
  <2>7. /\ Distinct(msgs_out') /\ Live(msgs_out') = PubsOf(Qos12(I \cup Q))
        /\ PubsOf(Messages(msgs_out')) \subseteq PubsOf(Messages(msgs_out))
    BY <1>1, <2>6, RelabelDistinct
  <2>8. Live(msgs_out') = Live(msgs_out)
    BY <2>7 DEF Live, Messages, I, Q
  <2>9. Counted(msgs_out) => Counted(msgs_out')
    BY <2>5, <2>8 DEF Counted
  <2>10. Orderly(msgs_out')
    BY <2>4, <2>7 DEF Orderly
  <2>11. Keeps(msgs_out, msgs_out')
    BY <2>7, <2>9, <2>10 DEF Keeps
  <2>12. Made'
    BY <1>1, <2>11, StillMade
  <2>13. Waits(msgs_out, "wait_for_pubcomp") => Waits(msgs_out, "wait_for_pubcomp")'
    <3>1. \A x \in Messages(msgs_out) : x.pub = m.pub => x = m
      BY <1>1, <2>1 DEF Distinct
    <3>2. m \notin msgs_out.queued
      BY <1>1 DEF Distinct
    <3> QED
      BY <1>4, <2>2, <2>3, <3>1, <3>2 DEF Waits, Messages
  <2>14. ReleasedMade => ReleasedMade'
    BY <1>1, <1>4, <2>1 DEF ReleasedMade, ListInv, Made
  <2> QED
    BY <2>9, <2>10, <2>12, <2>13, <2>14
<1>5. \/ UNCHANGED <<msgs_out, released>>
      \/ \E m \in msgs_out.inflight :
            /\ m.qos = 2
            /\ msgs_out' = [msgs_out EXCEPT !.inflight =
                  (@ \ {m}) \cup {[m EXCEPT !.state = "wait_for_pubcomp"]}]
            /\ released' = released \cup {m.pub}
  BY DEF HandlePubrec
<1> QED
  BY <1>2, <1>3, <1>4, <1>5

----------------------------------------------------------------------------
(* The steps, and the theorems.                                            *)

LEMMA ListStep ==
    ASSUME ListInv, [Next]_vars, ReleasedMade \/ SendFailures
    PROVE  /\ ListInv'
           /\ Revocable = {} /\ Counted(msgs_out) => Counted(msgs_out')
           /\ ~SendFailures /\ Waits(msgs_out, "wait_for_pubcomp") =>
                 /\ ReleasedMade' /\ Waits(msgs_out, "wait_for_pubcomp")'
                 /\ \A k \in toClient' \ toClient : k.type = "PUBLISH" => k.pub \notin released
<1>1. TypeInv'
  BY TypePreserved DEF ListInv
<1>2. ASSUME Tended, released' = released, published' \in {published, published + 1}
      PROVE  /\ ListInv'
             /\ Revocable = {} /\ Counted(msgs_out) => Counted(msgs_out')
             /\ ~SendFailures /\ Waits(msgs_out, "wait_for_pubcomp") =>
                 /\ ReleasedMade' /\ Waits(msgs_out, "wait_for_pubcomp")'
                 /\ \A k \in toClient' \ toClient : k.type = "PUBLISH" => k.pub \notin released
  <2>1. ListInv'
    BY <1>1, <1>2 DEF Tended, ListInv, Orderly, Distinct
  <2>2. ReleasedMade => ReleasedMade'
    <3>1. published \in Nat /\ \A p \in released : p \in Nat
      BY OutAssumption DEF ListInv, TypeInv, TypeOK
    <3> QED
      BY <1>2, <3>1 DEF ReleasedMade
  <2>3. Waits(msgs_out', "wait_for_pubcomp") => Waits(msgs_out, "wait_for_pubcomp")'
    BY <1>2 DEF Waits
  <2> QED
    BY <1>2, <2>1, <2>2, <2>3 DEF Tended
<1>3. CASE BrokerPublish \/ BrokerSubscribe
  <2>1. released' = released /\ published' = published + 1
    BY <1>3 DEF BrokerPublish, BrokerSubscribe, Publish, Subscribe, Arrive
  <2> QED
    BY <1>2, <1>3, <2>1, ArrivalTended
<1>4. CASE BrokerSubscribeOnly \/ BrokerDisconnect
  <2>1. released' = released /\ published' = published
    BY <1>4 DEF BrokerSubscribeOnly, SubscribeOnly, BrokerDisconnect, Disconnect, history
  <2> QED
    BY <1>2, <1>4, <2>1, QuietTended
<1>5. CASE BrokerConnect \/ BrokerTakeover \/ BrokerConnectFails \/ BrokerConnackFails
  <2>1. released' = released /\ published' = published
    BY <1>5 DEF BrokerConnect, BrokerTakeover, BrokerConnectFails, BrokerConnackFails,
       Connect, Takeover, Resume, ConnectFails, ConnackFails
  <2> QED
    BY <1>2, <1>5, <2>1, ResumeTended
<1>6. CASE \E p \in Pubs : BrokerAck(p)
  <2>1. PICK pkt \in toBroker : HandleAck(pkt)
    BY <1>6 DEF BrokerAck
  <2>2. CASE HandlePubackcomp(pkt) \/ HandlePubrecRefused(pkt)
    <3>1. released' = released /\ published' = published
      BY <2>2 DEF HandlePubackcomp, HandlePubrecRefused
    <3> QED
      BY <1>2, <2>2, <3>1, AckTended
  <2>3. CASE HandlePubrec(pkt)
    <3>1. /\ Orderly(msgs_out') /\ Made'
          /\ Counted(msgs_out) => Counted(msgs_out')
          /\ Waits(msgs_out, "wait_for_pubcomp") => Waits(msgs_out, "wait_for_pubcomp")'
          /\ ReleasedMade => ReleasedMade'
          /\ \A k \in toClient' \ toClient : k.type # "PUBLISH"
      BY <2>3, PubrecTended
    <3>2. ListInv'
      BY <1>1, <3>1 DEF ListInv, Orderly, Distinct
    <3> QED
      BY <3>1, <3>2
  <2> QED
    BY <2>1, <2>2, <2>3 DEF HandleAck
<1>7. CASE \/ \E p \in Pubs : ClientReceive(p) \/ ClientAnswerFails(p)
           \/ BrokerExpire \/ UNCHANGED vars
  <2>1. UNCHANGED <<msgs_out, published, released>>
    BY <1>7 DEF ClientReceive, ClientAnswerFails, Disconnect, BrokerExpire, Expire, vars,
       outVars, session, history
  <2>2. toClient' \subseteq toClient
    BY <1>7 DEF ClientReceive, ReceivePacket, ReceivePublish, ReceivePubrel,
       ClientAnswerFails, Disconnect, CloseSocket, ChannelClosed, BrokerExpire,
       Expire, channel, vars
  <2>3. Orderly(msgs_out') /\ Made'
    BY <2>1 DEF ListInv, TypeInv, Orderly, Made
  <2>4. Tended
    BY <2>1, <2>2, <2>3 DEF Tended
  <2> QED
    BY <1>2, <2>1, <2>4
<1> QED
  BY <1>3, <1>4, <1>5, <1>6, <1>7 DEF Next

LEMMA ListInit ==
    ASSUME Init
    PROVE  /\ ListInv /\ Counted(msgs_out)
           /\ ReleasedMade /\ Waits(msgs_out, "wait_for_pubcomp")
<1>1. PICK max \in Maxima : msgs_out = EmptyMsgData(max)
  BY DEF Init, OutInit
<1>2. msgs_out.inflight = {} /\ msgs_out.queued = {} /\ msgs_out.count12 = 0 /\ released = {}
  BY <1>1 DEF EmptyMsgData, Init, OutInit
<1>3. Messages(msgs_out) = {} /\ Live(msgs_out) = {}
  BY <1>2 DEF Messages, Live, PubsOf, Qos12
<1>4. TypeInv
  BY TypeInit
<1>5. Counted(msgs_out)
  BY <1>2, <1>3, FS_EmptySet DEF Counted
<1> QED
  BY <1>2, <1>3, <1>4, <1>5 DEF ListInv, Distinct, Made, ReleasedMade, Waits

\* msg_count12 is exact for every configuration in which read access is not
\* withdrawn: inserting, sending, giving up, acknowledging and resuming count
\* every QoS 1 and 2 message once, so the queue limit is applied to the number
\* of messages there are.
THEOREM CounterExact ==
    ASSUME Revocable = {}
    PROVE  Spec => []CountExact
<1> DEFINE Inv == ListInv /\ Counted(msgs_out) /\ (ReleasedMade \/ SendFailures)
                  /\ (~SendFailures => Waits(msgs_out, "wait_for_pubcomp"))
<1>1. Init => Inv
  BY ListInit
<1>2. Inv /\ [Next]_vars => Inv'
  <2> SUFFICES ASSUME Inv, [Next]_vars PROVE Inv'
    OBVIOUS
  <2>1. Counted(msgs_out') => Counted(msgs_out)'
    BY DEF Counted, Live
  <2> QED
    BY <2>1, ListStep
<1>3. Inv => CountExact
  <2> SUFFICES ASSUME Inv PROVE CountExact
    OBVIOUS
  <2>1. Orderly(msgs_out)
    BY DEF ListInv, TypeInv, Orderly
  <2> QED
    BY <2>1, LiveCount DEF Counted, CountExact
<1> QED
  BY <1>1, <1>2, <1>3, PTL DEF Spec

\* A publication is in one list of the session, once, and after its PUBREC it
\* only waits for the PUBCOMP, whatever is inserted, dequeued, acknowledged or
\* resumed in between, if no resumption is cut short by a failing write.
THEOREM ReleasedAlwaysWaits ==
    ASSUME SendFailures = FALSE
    PROVE  Spec => []ReleasedWaits
<1> DEFINE Inv == ListInv /\ ReleasedMade /\ Waits(msgs_out, "wait_for_pubcomp")
<1>1. Init => Inv
  BY ListInit
<1>2. Inv /\ [Next]_vars => Inv'
  BY ListStep
<1>3. Inv => ReleasedWaits
  BY DEF ListInv, Distinct, ReleasedMade, Waits, ReleasedWaits
<1> QED
  BY <1>1, <1>2, <1>3, PTL DEF Spec

\* Once the PUBREC of a message has been processed its PUBLISH is never sent
\* again, by no publication, refill, acknowledgement or reconnection.
THEOREM NeverRepublished ==
    ASSUME SendFailures = FALSE
    PROVE  Spec => NoRepublish
<1> DEFINE Inv == ListInv /\ ReleasedMade /\ Waits(msgs_out, "wait_for_pubcomp")
           Fresh == \A pkt \in toClient' \ toClient :
                       pkt.type = "PUBLISH" => pkt.pub \notin released
<1>1. Init => Inv
  BY ListInit
<1>2. Inv /\ [Next]_vars => Inv'
  BY ListStep
<1>3. Inv /\ [Next]_vars => [Fresh]_vars
  BY ListStep
<1> QED
  BY <1>1, <1>2, <1>3, PTL DEF Spec, NoRepublish
============================================================================
