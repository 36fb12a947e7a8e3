---------------------------- MODULE ExactlyOnce ----------------------------
(***************************************************************************)
(* What QoS 2 promises a publisher: a message goes to the subscribers at   *)
(* most once, and the application is told that it is done only after it    *)
(* has gone there or was refused.                                          *)
(***************************************************************************)
EXTENDS Naturals

CONSTANT Pubs

VARIABLES
    handed,     \* messages the application has handed over
    copies,     \* how often a message went to the subscribers
    turned,     \* messages the broker has refused
    told        \* messages the application was told are done

onceVars == <<handed, copies, turned, told>>

OnceInit ==
    /\ handed = {} /\ turned = {} /\ told = {}
    /\ copies = [p \in Pubs |-> 0]

HandOver(p) ==
    p \notin handed /\ handed' = handed \cup {p} /\ UNCHANGED <<copies, turned, told>>

Pass(p) ==
    /\ p \in handed \ told /\ copies[p] = 0
    /\ copies' = [copies EXCEPT ![p] = 1]
    /\ UNCHANGED <<handed, turned, told>>

TurnDown(p) ==
    p \in handed /\ turned' = turned \cup {p} /\ UNCHANGED <<handed, copies, told>>

Tell(p) ==
    /\ copies[p] = 1 \/ p \in turned
    /\ told' = told \cup {p}
    /\ UNCHANGED <<handed, copies, turned>>

OnceNext == \E p \in Pubs : HandOver(p) \/ Pass(p) \/ TurnDown(p) \/ Tell(p)

OnceSpec == OnceInit /\ [][OnceNext]_onceVars
============================================================================
