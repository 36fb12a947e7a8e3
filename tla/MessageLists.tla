---------------------------- MODULE MessageLists ---------------------------
(***************************************************************************)
(* The lists inflight and queued of a struct mosquitto_msg_data and its    *)
(* inflight_quota, as src/database.c and lib/util_mosq.c handle them for   *)
(* either direction.                                                       *)
(*                                                                         *)
(* A linked list is a set of nodes; the field "pos" of a node gives its    *)
(* place: a DL_APPEND takes the next number of "appended", so a list is    *)
(* read in the order of pos.                                               *)
(***************************************************************************)
EXTENDS Integers, FiniteSets

\* Index of m in L, counted from 0.
Before(L, m) == Cardinality({x \in L : x.pos < m.pos})

FirstN(L, n) == {x \in L : Before(L, x) < n}

PubsOf(L) == {m.pub : m \in L}

\* util__increment_send_quota, n times, and util__decrement_send_quota.
Raise(D, n) == IF D.quota + n < D.maximum THEN D.quota + n ELSE D.maximum

\* Fault: the decrement without its test for zero.
LowerUnguarded(quota, n) == quota - n

Lower(quota, n) == IF n < quota THEN quota - n ELSE 0

\* Fault: the message is appended to inflight and not deleted from queued.
DequeueKeeps(D, S) ==
    [D EXCEPT
        !.inflight = @ \cup
            {[m EXCEPT !.pos = D.appended + 1 + Before(S, m)] : m \in S},
        !.quota = Lower(@, Cardinality(S)),
        !.appended = @ + Cardinality(S)]

\* db__message_dequeue_first, once for each message of the prefix S of queued.
Dequeue(D, S) ==
    [D EXCEPT
        !.inflight = @ \cup
            {[m EXCEPT !.pos = D.appended + 1 + Before(S, m)] : m \in S},
        !.queued = @ \ S,
        !.quota = Lower(@, Cardinality(S)),
        !.appended = @ + Cardinality(S)]
============================================================================
