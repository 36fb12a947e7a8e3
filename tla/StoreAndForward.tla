-------------------------- MODULE StoreAndForward --------------------------
(***************************************************************************)
(* What a persistent session promises for QoS 1 and 2 messages, without    *)
(* lists, message ids, quotas or packets: the broker keeps a message until *)
(* the application has it or until it has given the message up.            *)
(***************************************************************************)
CONSTANT Pubs

VARIABLES
    taken,      \* messages the broker has accepted
    kept,       \* messages it still keeps
    received,   \* messages the application of the client has got
    dropped     \* messages given up: expired, too large, no access, refused or
                \* removed by the client

sfVars == <<taken, kept, received, dropped>>

SFInit == taken = {} /\ kept = {} /\ received = {} /\ dropped = {}

\* The broker accepts at most one message, gives messages up, and forgets only
\* messages that were received or given up.
Broker ==
    /\ \E new \in SUBSET (Pubs \ taken) :
          /\ \A p, q \in new : p = q
          /\ taken' = taken \cup new
          /\ kept' \subseteq kept \cup new
          /\ (kept \cup new) \ kept' \subseteq received \cup dropped'
    /\ dropped \subseteq dropped' /\ dropped' \subseteq taken'
    /\ UNCHANGED received

\* The application gets a message, perhaps again.
Receive ==
    \E p \in taken : received' = received \cup {p} /\ UNCHANGED <<taken, kept, dropped>>

\* The client refuses a message, or removes it without telling the application.
GiveUp ==
    \E p \in taken : dropped' = dropped \cup {p} /\ UNCHANGED <<taken, kept, received>>

SFNext == Broker \/ Receive \/ GiveUp

SFSpec == SFInit /\ [][SFNext]_sfVars
============================================================================
