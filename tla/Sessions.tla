------------------------------ MODULE Sessions ------------------------------
(***************************************************************************)
(* The client contexts of the broker over their life: CONNECT with takeover*)
(* of an older connection, DISCONNECT, a lost connection, the will and its *)
(* delay, session expiry, the list of contexts to free, subscriptions, the *)
(* saved state, a crash and a restart.                                     *)
(*                                                                         *)
(* The broker has one thread.  Events of connections are handled one after *)
(* the other; between two batches the main loop checks the timers and      *)
(* frees what is on the free list (LoopTurn).  A context is named by the   *)
(* number of its connection and never reused, so that a pointer to freed   *)
(* memory shows.                                                           *)
(***************************************************************************)
EXTENDS SubscriptionTree

CONSTANTS
    Clients,      \* client ids
    NoId,         \* a context whose id was taken away
    Options,      \* what a CONNECT asks for
    Filters,      \* subscription filters
    TopicNames,   \* topics published to
    NoLocal,      \* the no_local options that are used
    ClientExpiry, \* persistent_client_expiration, 0 for none
    Never,        \* the expiry interval UINT32_MAX
    MaxConn,      \* bound: connections accepted, restored contexts included
    MaxTime,      \* bound: the clock
    MaxCrash      \* bound: crashes and shutdowns of the broker

(* v5: the protocol; clean: clean start; expiry: session_expiry_interval;  *)
(* will; delay: will_delay_interval, 0 without a will.  A v3 client has no *)
(* delay, and clean start alone decides about its session.                 *)
ASSUME OptionAssumption ==
    \A o \in Options : /\ ~o.v5 => o.delay = 0 /\ o.expiry = (IF o.clean THEN 0 ELSE Never)
                       /\ ~o.will => o.delay = 0
ASSUME OptionTypes ==
    Options \subseteq [v5 : BOOLEAN, clean : BOOLEAN, expiry : Nat, will : BOOLEAN, delay : Nat]
ASSUME FilterAssumption == /\ \A f \in Filters : SubTopicCheck(f)
                           /\ \A t \in TopicNames : PubTopicCheck(t)
ASSUME EmptyAssumption == <<"">> \notin Filters   \* handle__subscribe: an empty filter is refused
ASSUME ShareAssumption == \A f \in Filters : f[1] = "$share" => Len(f) >= 2
ASSUME LevelAssumption ==
    \A f \in Filters \cup TopicNames : f \in Seq(STRING) /\ \A i \in DOMAIN f : f[i] # "/"
ASSUME NeverAssumption == Never > MaxTime /\ NoId \notin Clients
ASSUME BoundAssumption == /\ {ClientExpiry, Never, MaxConn, MaxTime, MaxCrash} \subseteq Nat
                          /\ IsFiniteSet(Clients)

Conn == 1..MaxConn

VARIABLES
    db,    \* the broker's memory, see Memory
    disk,  \* what the last save wrote: the sessions and their subscriptions
    now,   \* db.now_real_s
    log,   \* history: for every connection its client, its will, how it ended if it had one
    crash  \* number of crashes and shutdowns so far

vars == <<db, disk, now, log, crash>>

(* struct mosquitto.  "free" stands for memory not allocated.              *)
FreeContext == [state |-> "free", id |-> NoId, sock |-> FALSE, v5 |-> FALSE, clean |-> TRUE,
                expiry |-> 0, expiry_time |-> 0, will |-> FALSE, delay |-> 0, will_time |-> 0,
                subs |-> {}]

(* context: the connections; by_id: db.contexts_by_id, 0 for none;         *)
(* expiry_list, delay_list, for_free: the lists; last_check: of both timer *)
(* checks, which run one after the other; subs: the tree; sent: history, how *)
(* often the will of a connection was published.                           *)
Memory(context, by_id, subs) ==
    [context |-> context, by_id |-> by_id, expiry_list |-> <<>>, delay_list |-> <<>>,
     for_free |-> <<>>, last_check |-> 0, subs |-> subs,
     sent |-> [c \in Conn |-> 0]]

IdOf(d) == [c \in Conn |-> d.context[c].id]

(* DL_DELETE, of an element that is in the list.                           *)
Without(list, c) == RemoveFirst(list, c)

(* DL_INSERT_INORDER: before the first element that is not smaller.        *)
InsertInOrder(list, c, key) ==
    LET n == Cardinality({i \in DOMAIN list : \A j \in 1..i : key[list[j]] < key[c]})
    IN  SubSeq(list, 1, n) \o <<c>> \o SubSeq(list, n + 1, Len(list))

-----------------------------------------------------------------------------
(* will__clear.                                                            *)
WillClear(d, c) ==
    IF d.context[c].will THEN [d EXCEPT !.context[c].will = FALSE, !.context[c].delay = 0]
    ELSE d

(* will_delay__add.                                                        *)
WillDelayAdd(d, c) ==
    IF c \in Range(d.delay_list) THEN d
    ELSE [d EXCEPT !.context[c].will_time = now + d.context[c].delay,
                   !.delay_list = InsertInOrder(@, c, [x \in Conn |-> d.context[x].delay])]

(* Fault: the will stays set after it has been published.                  *)
SendWillKeepingIt(d, c) ==
    IF d.context[c].state # "disconnecting" /\ d.context[c].will
    THEN IF d.context[c].delay > 0 THEN WillDelayAdd(d, c) ELSE [d EXCEPT !.sent[c] = @ + 1]
    ELSE WillClear(d, c)

(* context__send_will, for a client allowed to publish its will.           *)
SendWill(d, c) ==
    IF d.context[c].state # "disconnecting" /\ d.context[c].will
    THEN IF d.context[c].delay > 0 THEN WillDelayAdd(d, c)
         ELSE WillClear([d EXCEPT !.sent[c] = @ + 1], c)
    ELSE WillClear(d, c)

WillDelayRemove(d, c) == [d EXCEPT !.delay_list = Without(@, c)]

SessionExpiryRemove(d, c) == [d EXCEPT !.expiry_list = Without(@, c)]

(* Fault: the list is in the order of the additions.                       *)
SessionExpiryAppend(d, c) ==
    IF d.context[c].expiry = Never THEN d
    ELSE [d EXCEPT !.context[c].expiry_time = now + d.context[c].expiry,
                   !.expiry_list = Append(@, c)]

(* session_expiry__add: the shorter of the client's interval and the       *)
(* broker's.                                                               *)
SessionExpiryAdd(d, c) ==
    LET interval == IF ClientExpiry # 0 /\ ClientExpiry < d.context[c].expiry
                    THEN ClientExpiry ELSE d.context[c].expiry
        times    == [x \in Conn |-> IF x = c THEN now + interval ELSE d.context[x].expiry_time]
    IN  IF ClientExpiry = 0 /\ d.context[c].expiry = Never THEN d
        ELSE [d EXCEPT !.context[c].expiry_time = now + interval,
                       !.expiry_list = InsertInOrder(@, c, times)]

(* context__remove_from_by_id takes whatever context has the id out.       *)
AddToDisused(d, c) ==
    IF d.context[c].state = "disused" THEN d
    ELSE [d EXCEPT !.context[c].state = "disused", !.context[c].id = NoId,
                   !.by_id = [i \in Clients |-> IF i = d.context[c].id THEN 0 ELSE @[i]],
                   !.for_free = <<c>> \o @]

(* Fault: with a delayed will pending the context is freed all the same.   *)
DisconnectFreeing(d, c) ==
    IF d.context[c].state = "disconnected" THEN d
    ELSE LET d1 == SendWill([d EXCEPT !.context[c].sock = FALSE], c)
             d2 == IF d1.context[c].expiry = 0 THEN AddToDisused(d1, c) ELSE SessionExpiryAdd(d1, c)
         IN  [d2 EXCEPT !.context[c].state = "disconnected"]

(* Fault: a session with a delayed will is not put in the expiry list.     *)
DisconnectUntracked(d, c) ==
    IF d.context[c].state = "disconnected" THEN d
    ELSE LET d1 == SendWill([d EXCEPT !.context[c].sock = FALSE], c)
             d2 == IF d1.context[c].delay > 0 THEN d1
                   ELSE IF d1.context[c].expiry # 0 THEN SessionExpiryAdd(d1, c)
                   ELSE AddToDisused(d1, c)
         IN  [d2 EXCEPT !.context[c].state = "disconnected"]

(* do_disconnect and context__disconnect.                                  *)
Disconnect(d, c) ==
    IF d.context[c].state = "disconnected" THEN d
    ELSE LET d1 == SendWill([d EXCEPT !.context[c].sock = FALSE], c)
             d2 == IF d1.context[c].expiry # 0 THEN SessionExpiryAdd(d1, c)
                   ELSE IF d1.context[c].delay = 0 THEN AddToDisused(d1, c)
                   ELSE d1
         IN  [d2 EXCEPT !.context[c].state = "disconnected"]

(* sub__clean_session: every leaf of this context, by its own list.        *)
CleanSession(d, c) ==
    [d EXCEPT !.subs = FoldSet(LAMBDA s, tree : RemoveLeaf(tree, s.path, s.share, c),
                               @, d.context[c].subs),
              !.context[c].subs = {}]

(* context__cleanup with force_free.                                       *)
Cleanup(d, c) ==
    LET d1 == SendWill(CleanSession(d, c), c)
    IN  [d1 EXCEPT !.context[c] = FreeContext,
                   !.by_id = [i \in Clients |-> IF i = d.context[c].id THEN 0 ELSE @[i]]]

(* context__free_disused.                                                  *)
FreeDisused(d) ==
    FoldLeft(Cleanup, [d EXCEPT !.for_free = <<>>], d.for_free)

\* The elements at the front of a list that are due; time[c] is when c is.
DueFirst(list, time) ==
    SubSeq(list, 1, Cardinality({i \in DOMAIN list : \A j \in 1..i : time[list[j]] < now}))

(* Fault: the delayed will is dropped with the session.                    *)
ExpireDroppingWill(d, c) ==
    AddToDisused([WillDelayRemove(SessionExpiryRemove(d, c), c) EXCEPT
                     !.context[c].expiry = 0, !.context[c].will = FALSE], c)

ExpireSession(d, c) ==
    LET d1 == [WillDelayRemove(SessionExpiryRemove(d, c), c) EXCEPT
                  !.context[c].expiry = 0, !.context[c].delay = 0]
    IN  AddToDisused(SendWill(d1, c), c)

(* session_expiry__check stops at the first session that is not due.       *)
SessionExpiryCheck(d) ==
    FoldLeft(ExpireSession, d, DueFirst(d.expiry_list, [c \in DOMAIN d.context |-> d.context[c].expiry_time]))

SendDelayedWill(d, c) ==
    LET d1 == SendWill([WillDelayRemove(d, c) EXCEPT !.context[c].delay = 0], c)
    IN  IF d1.context[c].expiry = 0 THEN AddToDisused(d1, c) ELSE d1

(* will_delay__check stops at the first will that is not due.              *)
WillDelayCheck(d) ==
    FoldLeft(SendDelayedWill, d, DueFirst(d.delay_list, [c \in DOMAIN d.context |-> d.context[c].will_time]))

(* At shutdown: context__send_will for everyone, then will_delay__send_all.*)
SendAllWills(d) ==
    LET d1 == FoldSet(LAMBDA c, e : SendWill(e, c), d, Range(d.by_id) \ {0})
    IN  FoldLeft(LAMBDA e, c : SendWill([WillDelayRemove(e, c) EXCEPT !.context[c].delay = 0], c),
                 d1, d1.delay_list)
-----------------------------------------------------------------------------
(* Fault: the leaves are handed over, the old context still lists them.    *)
ResumeKeepingList(d, c, f) ==
    LET moved == {s \in d.context[f].subs : s.share = NoShare}
        taken(leaves) == [i \in DOMAIN leaves |->
            IF leaves[i].context = f THEN [leaves[i] EXCEPT !.context = c] ELSE leaves[i]]
    IN  [d EXCEPT !.subs = [p \in DOMAIN d.subs |->
                      IF \E s \in moved : s.path = p
                      THEN [d.subs[p] EXCEPT !.subs = taken(d.subs[p].subs)]
                      ELSE d.subs[p]]]

(* The part of connect__on_authorised about an older context of this id:   *)
(* its normal subscriptions move if the session goes on, its will is sent  *)
(* if the session does not, and it is disconnected for good.               *)
ResumeSession(d, c, f) ==
    LET moved == {s \in d.context[f].subs : s.share = NoShare}
        taken(leaves) == [i \in DOMAIN leaves |->
            IF leaves[i].context = f THEN [leaves[i] EXCEPT !.context = c] ELSE leaves[i]]
    IN  [d EXCEPT !.context[c].subs = moved,
                  !.context[f].subs = @ \ moved,
                  !.subs = [p \in DOMAIN d.subs |->
                      IF \E s \in moved : s.path = p
                      THEN [d.subs[p] EXCEPT !.subs = taken(d.subs[p].subs)]
                      ELSE d.subs[p]]]

(* Fault: the delayed will of the older connection is left in its list.    *)
TakeoverKeepingWill(d, c, f) ==
    LET old == d.context[f]
        new == d.context[c]
        d1  == IF ~new.clean /\ old.expiry > 0 THEN ResumeSession(d, c, f) ELSE d
        d2  == IF new.clean THEN CleanSession(d1, f) ELSE d1
        d4  == SessionExpiryRemove(d2, f)
    IN  Disconnect([d4 EXCEPT !.context[f].clean = TRUE, !.context[f].expiry = 0,
                              !.context[f].state = "duplicate"], f)

(* Fault: a clean start leaves the subscriptions of the older session.     *)
TakeoverUnclean(d, c, f) ==
    LET d1 == IF d.context[f].expiry > 0 THEN ResumeSession(d, c, f) ELSE d
        d4 == WillClear(WillDelayRemove(SessionExpiryRemove(d1, f), f), f)
    IN  Disconnect([d4 EXCEPT !.context[f].clean = TRUE, !.context[f].expiry = 0,
                              !.context[f].state = "duplicate"], f)

Takeover(d, c, f) ==
    LET old == d.context[f]
        new == d.context[c]
        d1  == IF ~new.clean /\ old.expiry > 0 THEN ResumeSession(d, c, f) ELSE d
        d2  == IF new.clean THEN CleanSession(d1, f) ELSE d1
        d3  == IF \/ old.v5 /\ old.expiry = 0
                  \/ ~old.v5 /\ old.clean
                  \/ new.clean
               THEN SendWill(d2, f) ELSE d2
        d4  == WillClear(WillDelayRemove(SessionExpiryRemove(d3, f), f), f)
    IN  Disconnect([d4 EXCEPT !.context[f].clean = TRUE, !.context[f].expiry = 0,
                              !.context[f].state = "duplicate"], f)

\* The connections used so far, and the next one.
Used == {c \in Conn : log[c].client # NoId}
NextConn == Cardinality(Used) + 1
Ended(c, how) == [log[c] EXCEPT !.end = IF log[c].will THEN how ELSE @]

(* handle__connect and connect__on_authorised of an accepted CONNECT.      *)
Connect(i, o) ==
    LET c  == NextConn
        f  == db.by_id[i]
        d1 == [db EXCEPT !.context[c] = [FreeContext EXCEPT
                  !.state = "new", !.id = i, !.sock = TRUE, !.v5 = o.v5, !.clean = o.clean,
                  !.expiry = o.expiry, !.will = o.will, !.delay = o.delay]]
        d2 == IF f = 0 THEN d1 ELSE Takeover(d1, c, f)
    IN  /\ c \in Conn
        /\ db' = [d2 EXCEPT !.by_id[i] = c, !.context[c].state = "active"]
        /\ LET known == [log EXCEPT ![c] = [client |-> i, end |-> "open", will |-> o.will]]
           IN  log' = IF f = 0 \/ log[f].end # "open" THEN known
                      ELSE [known EXCEPT ![f] = Ended(f, "taken")]
        /\ UNCHANGED <<disk, now, crash>>

(* handle__disconnect: a v5 client may shorten or stretch the life of its  *)
(* session, unless it was to end with the connection, and ask for its will.*)
HandleDisconnect(c, with_will, expiry) ==
    LET x == db.context[c] IN
    /\ x.sock
    /\ with_will => x.v5
    /\ expiry # x.expiry => x.v5 /\ x.expiry # 0
    /\ LET d1 == [db EXCEPT !.context[c].expiry = expiry]
           d2 == IF with_will THEN [d1 EXCEPT !.context[c].state = "disconnect_with_will"]
                 ELSE [WillClear(d1, c) EXCEPT !.context[c].state = "disconnecting"]
       IN  db' = Disconnect(d2, c)
    /\ log' = [log EXCEPT ![c] = Ended(c, IF with_will THEN "lost" ELSE "clean")]
    /\ UNCHANGED <<disk, now, crash>>

(* do_disconnect after a read or write error, a protocol error or the end  *)
(* of the keepalive interval.                                              *)
ConnectionLost(c) ==
    /\ db.context[c].sock
    /\ db' = Disconnect(db, c)
    /\ log' = [log EXCEPT ![c] = Ended(c, "lost")]
    /\ UNCHANGED <<disk, now, crash>>

SubRef(filter) == [path |-> Path(Tokenise(filter).topics), share |-> Tokenise(filter).share]

(* handle__subscribe with sub__add: the context remembers a new leaf.      *)
Subscribe(c, filter, no_local) ==
    /\ db.context[c].state = "active"
    /\ db' = [db EXCEPT !.subs = SubAdd(@, filter, [context |-> c, no_local |-> no_local], IdOf(db)),
                        !.context[c].subs = @ \cup {SubRef(filter)}]
    /\ UNCHANGED <<disk, now, log, crash>>

(* handle__unsubscribe with sub__remove.                                   *)
Unsubscribe(c, filter) ==
    /\ db.context[c].state = "active"
    /\ db' = [db EXCEPT !.subs = SubRemove(@, filter, c),
                        !.context[c].subs = @ \ {SubRef(filter)}]
    /\ UNCHANGED <<disk, now, log, crash>>

(* sub__messages_queue: what it changes in the tree is the turn of the     *)
(* share names.  The messages themselves are the matter of Delivery.       *)
Publish(topic) ==
    /\ db' = [db EXCEPT !.subs = RotateShares(@, topic)]
    /\ UNCHANGED <<disk, now, log, crash>>

(* One turn of mosquitto_main_loop between two batches of events: the      *)
(* timers if the clock has moved, then the contexts to free.               *)
Turn(d) ==
    LET checked == IF now <= d.last_check THEN d
                   ELSE [WillDelayCheck(SessionExpiryCheck(d)) EXCEPT !.last_check = now]
    IN  FreeDisused(checked)

LoopTurn ==
    /\ db' = Turn(db)
    /\ now' \in {now, now + 1} /\ now' <= MaxTime
    /\ UNCHANGED <<disk, log, crash>>
-----------------------------------------------------------------------------
\* The filter a node stands for: what persist__subs_save puts together.
FilterOf(path) == SubSeq(path, IF path[1] = "" THEN 3 ELSE 2, Len(path))

(* persist__client_save and persist__subs_save_all: durable sessions, and  *)
(* the leaves in the lists of normal subscriptions.                        *)
Saved(d) ==
    [i \in {j \in Clients : d.by_id[j] # 0 /\ ~d.context[d.by_id[j]].clean} |->
        [expiry |-> d.context[d.by_id[i]].expiry,
         subs   |-> UNION {{[filter |-> FilterOf(p), no_local |-> l.no_local] :
                              l \in {m \in Range(d.subs[p].subs) : IdOf(d)[m.context] = i}} :
                          p \in DOMAIN d.subs}]]

(* persist__backup; the new file replaces the old one by a rename.         *)
Backup ==
    /\ disk' = Saved(db)
    /\ UNCHANGED <<db, now, log, crash>>

(* persist__sub_chunk_restore, for all subscriptions of the context c.     *)
RestoreSubs(d, c, subs) ==
    FoldSet(LAMBDA s, e :
                [e EXCEPT !.subs = SubAdd(@, s.filter, [context |-> c, no_local |-> s.no_local], IdOf(e)),
                          !.context[c].subs = @ \cup {SubRef(s.filter)}],
            d, subs)

(* persist__restore: every saved session becomes a context without socket, *)
(* protocol or place in the list of sessions that expire.                  *)
Restored(saved, first) ==
    LET ids == SetToSeq(DOMAIN saved)
        num == [i \in DOMAIN saved |-> first - 1 + CHOOSE n \in DOMAIN ids : ids[n] = i]
        context == [c \in Conn |->
            IF \E i \in DOMAIN saved : num[i] = c
            THEN LET i == CHOOSE j \in DOMAIN saved : num[j] = c IN
                 [FreeContext EXCEPT !.state = "new", !.id = i, !.clean = FALSE,
                                     !.expiry = saved[i].expiry]
            ELSE FreeContext]
        by_id == [i \in Clients |-> IF i \in DOMAIN saved THEN num[i] ELSE 0]
    IN  FoldLeft(LAMBDA d, i : RestoreSubs(d, num[i], saved[i].subs),
                 Memory(context, by_id, InitialTree), ids)

\* What is left of the connections after the process has gone: the restored ones are new.
LogAfterCrash(saved) ==
    LET ids == SetToSeq(DOMAIN saved) IN
    [c \in Conn |->
        IF c \in NextConn..(NextConn - 1 + Len(ids))
        THEN [client |-> ids[c - NextConn + 1], end |-> "open", will |-> FALSE]
        ELSE Ended(c, "down")]

(* The process is killed and started again: mosquitto.c, db__open.         *)
Crash ==
    /\ crash < MaxCrash
    /\ NextConn - 1 + Cardinality(DOMAIN disk) <= MaxConn
    /\ db' = [Restored(disk, NextConn) EXCEPT !.sent = db.sent]
    /\ log' = LogAfterCrash(disk)
    /\ crash' = crash + 1
    /\ UNCHANGED <<disk, now>>

(* SIGTERM: wills, a last save, and a start from it.                       *)
Shutdown ==
    LET last == Saved(SendAllWills(db)) IN
    /\ crash < MaxCrash
    /\ NextConn - 1 + Cardinality(DOMAIN last) <= MaxConn
    /\ disk' = last
    /\ db' = [Restored(last, NextConn) EXCEPT !.sent = SendAllWills(db).sent]
    /\ log' = LogAfterCrash(last)
    /\ crash' = crash + 1
    /\ UNCHANGED now

Init ==
    /\ db = Memory([c \in Conn |-> FreeContext], [i \in Clients |-> 0], InitialTree)
    /\ disk = <<>>
    /\ now = 1
    /\ log = [c \in Conn |-> [client |-> NoId, end |-> "none", will |-> FALSE]]
    /\ crash = 0

Next ==
    \/ \E i \in Clients, o \in Options : Connect(i, o)
    \/ \E c \in Conn : \/ ConnectionLost(c)
                        \/ \E w \in BOOLEAN, e \in {o.expiry : o \in Options} :
                              HandleDisconnect(c, w, e)
                        \/ \E f \in Filters : \/ \E n \in NoLocal : Subscribe(c, f, n)
                                              \/ Unsubscribe(c, f)
    \/ \E t \in TopicNames : Publish(t)
    \/ LoopTurn
    \/ crash < MaxCrash /\ Backup
    \/ Crash
    \/ Shutdown

Spec == Init /\ [][Next]_vars
-----------------------------------------------------------------------------
Leaves(d) == UNION {Range(d.subs[p].subs) \cup UNION {Range(d.subs[p].shared[g]) :
                        g \in DOMAIN d.subs[p].shared} : p \in DOMAIN d.subs}

(* No list, no table and no node of the tree refers to a context that has  *)
(* been freed; a context is freed once; a client id leads to one context,  *)
(* the only one with that id; a context on a timer list has no socket and  *)
(* is not about to be freed.  (context.c: context__add_to_disused,         *)
(* context__free_disused; handle_connect.c: takeover.)                     *)
NoDangling ==
    LET lists == {db.expiry_list, db.delay_list, db.for_free}
        timed == Range(db.expiry_list) \cup Range(db.delay_list)
    IN  /\ \A l \in lists : IsInjective(l)
        /\ \A c \in (UNION {Range(l) : l \in lists}) \cup {l.context : l \in Leaves(db)} :
              db.context[c].state # "free"
        /\ \A i \in Clients : {c \in Conn : db.context[c].id = i} = {db.by_id[i]} \ {0}
        /\ \A c \in timed : ~db.context[c].sock /\ c \notin Range(db.for_free)

(* A will is published at most once, and never for a connection that ended *)
(* with a plain DISCONNECT.  (context.c: context__send_will; ChangeLog:    *)
(* "potential duplicate Will messages".)                                   *)
WillOnce ==
    \A c \in Conn : db.sent[c] <= IF log[c].end = "clean" THEN 0 ELSE 1

(* The will of a connection that broke off is published, or waits in the   *)
(* delay list, or was given up because the client came back.               *)
(* (session_expiry__check must send it although it takes it off the list.) *)
WillNotForgotten ==
    \A c \in Used : log[c].will /\ log[c].end = "lost" =>
        \/ db.sent[c] > 0
        \/ c \in Range(db.delay_list)
        \/ \E e \in Used : e > c /\ log[e].client = log[c].client

(* Once a client has come back, the will of its earlier connection is not  *)
(* published any more.  (handle_connect.c: will_delay__remove; test        *)
(* 07-will-delay-reconnect.py.)                                            *)
WillCancelled ==
    [][\A c \in {x \in Conn : db'.sent[x] > db.sent[x]} :
          ~\E e \in Used : e > c /\ log[e].client = log[c].client]_vars

(* A session without connection that is to end is known to a timer.        *)
(* (context.c: context__disconnect; mosquitto.conf:                        *)
(* persistent_client_expiration.)                                          *)
SessionsTracked ==
    \A c \in Conn :
        LET x == db.context[c] IN
        x.id # NoId /\ ~x.sock /\ (x.expiry # Never \/ ClientExpiry # 0) =>
            \/ c \in Range(db.expiry_list)
            \/ x.expiry = 0 /\ c \in Range(db.delay_list)

(* After the timers have been checked no session is left that was due.     *)
(* (session_expiry.c: the list is in the order of the times.)              *)
ExpiredGone == \A c \in Range(db.expiry_list) : db.context[c].expiry_time >= db.last_check

-----------------------------------------------------------------------------
\* Stands for the subscriptions of a client that has no session.
NoSession == {[filter |-> <<"">>, no_local |-> FALSE]}

IsShared(s) == s.filter[1] = "$share"

Refs == [f \in Filters |-> SubRef(f)]

\* The subscriptions the tree holds for a client id, whichever context the leaf names.
SessionOf(i) ==
    LET at(f) == IF Refs[f].path \notin DOMAIN db.subs THEN <<>>
                 ELSE Members(db.subs[Refs[f].path], Refs[f].share)
    IN  IF db.by_id[i] = 0 THEN NoSession
        ELSE UNION {{[filter |-> f, no_local |-> l.no_local] :
                        l \in {m \in Range(at(f)) : db.context[m.context].id = i}} : f \in Filters}

Service == INSTANCE SubscriptionService WITH
    Gone    <- NoSession,
    Shared  <- IsShared,
    session <- [i \in Clients |-> SessionOf(i)],
    opens   <- [i \in Clients |-> Cardinality({c \in Used : log[c].client = i})],
    restarts <- crash,
    clean   <- {i \in Clients : db.by_id[i] # 0 /\ db.context[db.by_id[i]].clean},
    durable <- {i \in Clients : db.by_id[i] # 0 /\ db.context[db.by_id[i]].expiry > 0},
    saved   <- [i \in Clients |-> IF i \in DOMAIN disk THEN disk[i].subs ELSE NoSession]

(* The subscriptions of a client are those of SubscriptionService, over    *)
(* takeovers, expiry, the freeing of old contexts, saves and restarts.     *)
ImplementsSubscriptions == Service!Service

(* The search of the tree finds for every topic the clients one of whose   *)
(* subscriptions matches it, and no others.  (subs.c: sub__search, against *)
(* util_topic.c: mosquitto_topic_matches_sub.)                             *)
RoutedExactly ==
    \A t \in TopicNames, source \in Clients \cup {NoId} :
        Subscribers(db.subs, t, source, IdOf(db), NoId) =
            {i \in Clients : \E s \in SessionOf(i) :
                /\ s \notin NoSession /\ ~IsShared(s)
                /\ TopicMatchesSub(s.filter, t)
                /\ ~(s.no_local /\ i = source)}

(* The tree and the lists of the contexts agree: a context knows every     *)
(* node it has a leaf at, and the tree has no dead branches.  (subs.c:     *)
(* sub__clean_session finds the leaves by the list of the context.)        *)
TreeConsistent ==
    /\ \A c \in Conn : db.context[c].subs =
          UNION {{[path |-> p, share |-> g] : g \in
              {h \in {NoShare} \cup DOMAIN db.subs[p].shared :
                  \E i \in DOMAIN Members(db.subs[p], h) : Members(db.subs[p], h)[i].context = c}} :
              p \in DOMAIN db.subs}
    /\ \A p \in DOMAIN db.subs : Len(p) > 1 =>
          ~IsEmptyNode(db.subs[p]) \/ Children(db.subs, p) # {}
=============================================================================
