------------------------ MODULE SubscriptionService ------------------------
(***************************************************************************)
(* What a client may count on about its subscriptions: they belong to its  *)
(* session, only the client changes them while the session lasts, and a    *)
(* restart of the broker goes back to what was saved.                      *)
(***************************************************************************)
EXTENDS Naturals, FiniteSets

CONSTANTS
    Clients,
    Gone,       \* stands for the subscriptions of a client without a session
    Shared(_)   \* subscriptions that belong to a share name

VARIABLES
    session,   \* the subscriptions of every client
    opens,     \* how often every client has connected
    durable,   \* clients whose session outlives the connection
    clean,     \* clients whose last connection asked for a clean start
    saved,     \* the sessions on disk
    restarts   \* how often the broker has been restarted

Kept(S) == {s \in S : ~Shared(s)}

Start == /\ session = [i \in Clients |-> Gone] /\ opens = [i \in Clients |-> 0]
         /\ durable = {} /\ clean = {} /\ saved = session /\ restarts = 0

\* Clients other than i see nothing.
OnlyFor(i) == \A j \in Clients \ {i} : session'[j] = session[j]

(* A connection goes on with a durable session, and with its subscriptions *)
(* other than shared ones, or starts with none.                            *)
Open(i) ==
    /\ OnlyFor(i)
    /\ opens' = [opens EXCEPT ![i] = @ + 1]
    /\ session'[i] = IF i \in durable \ clean' THEN Kept(session[i]) ELSE {}
    /\ UNCHANGED <<saved, restarts>>

(* A client with a session adds or takes away one subscription.            *)
Change(i) ==
    /\ OnlyFor(i)
    /\ Gone \notin {session[i], session'[i]}
    /\ Cardinality(session[i] \ session'[i]) + Cardinality(session'[i] \ session[i]) = 1
    /\ UNCHANGED <<opens, durable, clean, saved, restarts>>

(* Sessions end, with the connection or by the clock; the others last.     *)
End ==
    /\ \A i \in Clients : session'[i] \in {session[i], Gone}
    /\ UNCHANGED <<opens, saved, restarts>>

\* A save puts sessions on disk, each as it is or not at all.
Written == \A i \in Clients : saved'[i] \in {Gone, Kept(session[i])}

Save == Written /\ UNCHANGED <<session, opens, durable, clean, restarts>>

(* After a restart the sessions are those on disk, from an earlier save or *)
(* from the one of the shutdown.                                           *)
Restart ==
    /\ saved' = saved \/ Written
    /\ session' = saved'
    /\ restarts' = restarts + 1

Step == (\E i \in Clients : Open(i) \/ Change(i)) \/ End \/ Save \/ Restart

Service == Start /\ [][Step]_<<session, opens, durable, clean, saved, restarts>>
=============================================================================
