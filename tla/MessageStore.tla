---------------------------- MODULE MessageStore ----------------------------
(***************************************************************************)
(* The stored messages of the broker.  A message is kept once (struct      *)
(* mosquitto_msg_store) and shared, by a reference count, between the      *)
(* lists of the sessions and the tree of retained messages; it is freed    *)
(* when the count reaches zero.  persist__backup writes the store, the     *)
(* lists and the retained messages to a file and persist__restore builds   *)
(* them again at the start.                                                *)
(*                                                                         *)
(* How a list moves through its handshake is the matter of Delivery and    *)
(* Ingress; here a list is what it refers to.  Which sessions a message    *)
(* goes to is the matter of Sessions; here it is any short list of         *)
(* clients, with repetitions for overlapping subscriptions.                *)
(***************************************************************************)
EXTENDS SubscriptionTree

CONSTANTS
    Clients,     \* client ids, each with a session
    V5,          \* those that speak MQTT 5
    Durable,     \* those with clean_start false
    ClientTopics, SysTopics,   \* topics clients, and the broker itself, publish to
    Filters,     \* subscription filters
    Lifetimes,   \* message expiry intervals, 0 for none
    Fanout,      \* bound: subscriptions that match a message
    MaxList,     \* bound: messages in a list
    MaxId,       \* bound: messages stored
    MaxTime,     \* bound: the clock while the broker runs
    MaxDown,     \* bound: the time it is down
    MaxRestart   \* bound: restarts

ASSUME ClientAssumption ==
    V5 \subseteq Clients /\ Durable \subseteq Clients /\ IsFiniteSet(Clients)
\* acl__check_dollar: a client may not publish on "$SYS" (but for the state of a
\* bridge, which is not modelled) or "$share", and may on any other "$foo".
ASSUME TopicAssumption ==
    /\ "$SYS" \in DollarLevels
    /\ \A t \in ClientTopics : t[1] \notin {"$SYS", "$share"}
    /\ \A t \in SysTopics : t[1] = "$SYS" /\ Len(t) >= 2
    /\ \A t \in ClientTopics \cup SysTopics : t \in Seq(STRING) /\ PubTopicCheck(t)
ASSUME FilterAssumption == \A f \in Filters : f \in Seq(STRING) /\ SubTopicCheck(f)
ASSUME LifetimeAssumption == Lifetimes \subseteq Nat
ASSUME BoundAssumption == {Fanout, MaxList, MaxId, MaxTime, MaxDown, MaxRestart} \subseteq Nat

VARIABLES
    db,       \* store: the messages by db_id; msgs_in, msgs_out: per client;
              \* retains: db.retains; last_db_id
    now,      \* db.now_real_s
    restarts, loaded   \* history: restarts so far, last_db_id at the last one

vars == <<db, now, restarts, loaded>>

TopicNames == ClientTopics \cup SysTopics
NodeOf == [t \in TopicNames |-> Path(Tokenise(t).topics)]

\* A retained message is found at the node of its topic; 0 for none.
EmptyRetains == [p \in DOMAIN InitialTree |-> 0]

NoMessages == [store |-> <<>>, msgs_in |-> [c \in Clients |-> {}],
               msgs_out |-> [c \in Clients |-> <<>>],
               retains |-> EmptyRetains, last_db_id |-> 0]

-----------------------------------------------------------------------------
(* db__message_store.                                                      *)
Store(d, topic, payload, retain, lifetime) ==
    LET id == d.last_db_id + 1
        m  == [topic |-> topic, payload |-> payload, retain |-> retain,
               expiry |-> IF lifetime > 0 THEN now + lifetime ELSE 0,
               ref_count |-> 0, dest_ids |-> {}]
    IN  [d EXCEPT !.last_db_id = id,
                  !.store = [i \in DOMAIN @ \cup {id} |-> IF i = id THEN m ELSE @[i]]]

RefInc(d, id) == [d EXCEPT !.store[id].ref_count = @ + 1]

(* db__msg_store_ref_dec and db__msg_store_remove.                         *)
RefDec(d, id) ==
    IF d.store[id].ref_count = 1
    THEN [d EXCEPT !.store = [i \in DOMAIN @ \ {id} |-> @[i]]]
    ELSE [d EXCEPT !.store[id].ref_count = @ - 1]

(* Fault: who has been sent the message is not looked up.                  *)
InsertAgain(d, c, id, retain) ==
    LET e == RefInc(d, id) IN
    [e EXCEPT !.msgs_out[c] = Append(@, [id |-> id, retain |-> retain]),
              !.store[id].dest_ids = IF retain THEN @ ELSE @ \cup {c}]

(* db__message_insert of an outgoing message the client has room for, with *)
(* allow_duplicate_messages false: a v3 client gets it once, unless it is  *)
(* sent as a retained message.                                             *)
Insert(d, c, id, retain) ==
    IF c \notin V5 /\ ~retain /\ c \in d.store[id].dest_ids THEN d
    ELSE LET e == RefInc(d, id) IN
         [e EXCEPT !.msgs_out[c] = Append(@, [id |-> id, retain |-> retain]),
                   !.store[id].dest_ids = IF retain THEN @ ELSE @ \cup {c}]

(* Fault: the message that was retained keeps its reference.               *)
RetainKeepingOld(d, id) ==
    LET m    == d.store[id]
        node == NodeOf[m.topic]
        tree == [p \in DOMAIN d.retains \cup PathPrefixes(node) |->
                    IF p \in DOMAIN d.retains THEN d.retains[p] ELSE 0]
        d2   == IF m.payload THEN RefInc(d, id) ELSE d
    IN  [d2 EXCEPT !.retains = [tree EXCEPT ![node] = IF m.payload THEN id ELSE 0]]

(* retain__store: a message without payload deletes the retained one.      *)
RetainStore(d, id) ==
    LET m    == d.store[id]
        node == NodeOf[m.topic]
        tree == [p \in DOMAIN d.retains \cup PathPrefixes(node) |->
                    IF p \in DOMAIN d.retains THEN d.retains[p] ELSE 0]
        old  == tree[node]
        d1   == IF old = 0 THEN d ELSE RefDec(d, old)
        d2   == IF m.payload THEN RefInc(d1, id) ELSE d1
    IN  [d2 EXCEPT !.retains = [tree EXCEPT ![node] = IF m.payload THEN id ELSE 0]]

(* sub__messages_queue; "to" are the clients of the leaves sub__search     *)
(* finds.  The message is protected by a reference of its own.             *)
MessagesQueue(d, id, to) ==
    LET d1 == FoldLeft(LAMBDA e, c : Insert(e, c, id, FALSE), RefInc(d, id), to)
        d2 == IF d.store[id].retain THEN RetainStore(d1, id) ELSE d1
    IN  RefDec(d2, id)

Bounded == \A c \in Clients : Len(db'.msgs_out[c]) <= MaxList

\* The leaves a message may find.
Targets == UNION {[1..n -> Clients] : n \in 0..Fanout}

(* handle__publish with QoS 0 or 1, and db__messages_easy_queue: a will, a *)
(* message of a plugin.                                                    *)
Publish(topic, payload, retain, lifetime, to) ==
    LET d1 == Store(db, topic, payload, retain, lifetime) IN
    /\ db.last_db_id < MaxId
    /\ db' = MessagesQueue(d1, d1.last_db_id, to)
    /\ Bounded
    /\ UNCHANGED <<now, restarts, loaded>>

(* sys_tree__update: the broker's own messages, always retained; they live *)
(* for a minute or for ever, longer than the clock runs here.              *)
SysTreeUpdate(topic, to) == Publish(topic, TRUE, TRUE, 0, to)

(* handle__publish with QoS 2: the message waits for its PUBREL.           *)
Publish2(c, topic, payload, retain) ==
    LET d1 == Store(db, topic, payload, retain, 0)
        id == d1.last_db_id
    IN  /\ db.last_db_id < MaxId
        /\ db' = [RefInc(d1, id) EXCEPT !.msgs_in[c] = @ \cup {id}]
        /\ UNCHANGED <<now, restarts, loaded>>

(* handle__pubrel: db__message_release_incoming.                           *)
Release(c, id, to) ==
    /\ id \in db.msgs_in[c]
    /\ db' = RefDec([MessagesQueue(db, id, to) EXCEPT !.msgs_in[c] = @ \ {id}], id)
    /\ Bounded
    /\ UNCHANGED <<now, restarts, loaded>>

(* db__message_remove of an outgoing message: acknowledged, written with   *)
(* QoS 0, too old or too large.                                            *)
Finish(c, n) ==
    /\ n \in DOMAIN db.msgs_out[c]
    /\ db' = [RefDec(db, db.msgs_out[c][n].id) EXCEPT
                 !.msgs_out[c] = RemoveAt(@, n)]
    /\ UNCHANGED <<now, restarts, loaded>>

(* retain__process: a message that is too old is deleted instead.          *)
RetainProcess(d, c, node) ==
    LET id == d.retains[node]
        m  == d.store[id]
    IN  IF m.expiry > 0 /\ now >= m.expiry
        THEN [RefDec(d, id) EXCEPT !.retains[node] = 0]
        ELSE Insert(d, c, id, TRUE)

(* Fault: '#' finds the parent only if it has other branches.              *)
RetainSearchBelow(tree, filter) ==
    LET s == Tokenise(filter).topics
        Search[p \in DOMAIN tree] ==
            LET i == IF Len(p) < Len(s) THEN Len(p) ELSE Len(s) IN
            IF s[i] = "#"
            THEN UNION {{b} \cup Search[b] : b \in Children(tree, p)}
            ELSE LET branches == IF s[i] = "+" THEN Children(tree, p)
                                 ELSE {Append(p, s[i])} \cap DOMAIN tree
                 IN  UNION {IF i = Len(s) THEN {b}
                            ELSE Search[b] \cup
                                 (IF s[i + 1] = "#" /\ Children(tree, b) # {}
                                  THEN {b} ELSE {}) : b \in branches}
    IN  IF <<s[1]>> \in DOMAIN tree
        THEN {p \in Search[<<s[1]>>] : tree[p] # 0} ELSE {}

(* retain__search: the nodes for this filter.  The level counts from zero, *)
(* and "#" also finds the node above it: always below the first level, and *)
(* there if it has branches.  Below a node found by the last level of the  *)
(* filter, a "#", that level is the one to look at again.                  *)
RetainSearchNodes(tree, filter) ==
    LET s == Tokenise(filter).topics
        Search[p \in DOMAIN tree] ==
            LET i == IF Len(p) < Len(s) THEN Len(p) ELSE Len(s) IN
            IF s[i] = "#"
            THEN UNION {{b} \cup Search[b] : b \in Children(tree, p)}
            ELSE LET branches == IF s[i] = "+" THEN Children(tree, p)
                                 ELSE {Append(p, s[i])} \cap DOMAIN tree
                 IN  UNION {IF i = Len(s) THEN {b}
                            ELSE Search[b] \cup
                                 (IF s[i + 1] = "#" /\ (i > 1 \/ Children(tree, b) # {})
                                  THEN {b} ELSE {}) : b \in branches}
    IN  IF <<s[1]>> \in DOMAIN tree THEN Search[<<s[1]>>] ELSE {}

(* Those of them with a retained message.                                  *)
RetainSearch(tree, filter) ==
    RetainSearchNodes(tree, filter) \cap {p \in DOMAIN tree : tree[p] # 0}

(* retain__queue, from handle__subscribe.                                  *)
RetainQueue(c, filter) ==
    /\ db' = FoldSet(LAMBDA node, d : RetainProcess(d, c, node), db,
                     RetainSearch(db.retains, filter))
    /\ Bounded
    /\ UNCHANGED <<now, restarts, loaded>>

(* db__messages_delete at the end of a session.                            *)
MessagesDelete(c) ==
    LET d1 == FoldLeft(LAMBDA d, m : RefDec(d, m.id), db, db.msgs_out[c])
        d2 == FoldSet(LAMBDA id, d : RefDec(d, id), d1, db.msgs_in[c])
    IN  /\ db' = [d2 EXCEPT !.msgs_out[c] = <<>>, !.msgs_in[c] = {}]
        /\ UNCHANGED <<now, restarts, loaded>>

Tick ==
    /\ now < MaxTime
    /\ now' = now + 1
    /\ UNCHANGED <<db, restarts, loaded>>
-----------------------------------------------------------------------------
IsSys(m) == m.topic[1] = "$SYS"

\* A $SYS message with these counts is taken for one that is only retained.
OnlyRetained(m) == IsSys(m) /\ m.ref_count <= 1 /\ m.dest_ids = {}

(* Fault: a message outside $SYS is skipped for its counts as well.        *)
SavedIfShared(d) ==
    [last_db_id |-> d.last_db_id,
     store    |-> [id \in {i \in DOMAIN d.store : d.store[i].ref_count > 1
                                                  \/ d.store[i].dest_ids # {}} |-> d.store[id]],
     msgs_in  |-> [c \in Durable |-> d.msgs_in[c]],
     msgs_out |-> [c \in Durable |-> d.msgs_out[c]],
     retained |-> {d.retains[p] : p \in {q \in DOMAIN d.retains : d.retains[q] # 0}}]

(* persist__client_messages_save.                                          *)
SavedList(d, list) ==
    FoldLeft(LAMBDA kept, m : IF OnlyRetained(d.store[m.id]) THEN kept ELSE Append(kept, m),
             <<>>, list)

(* persist__backup: the store, the lists of durable clients, the retained  *)
(* messages outside $SYS.                                                  *)
Saved(d) ==
    [last_db_id |-> d.last_db_id,
     store    |-> [id \in {i \in DOMAIN d.store : d.store[i].ref_count > 0
                                                  /\ ~OnlyRetained(d.store[i])} |->
                      [d.store[id] EXCEPT !.retain = @ /\ ~IsSys(d.store[id])]],
     msgs_in  |-> [c \in Durable |-> {id \in d.msgs_in[c] : ~OnlyRetained(d.store[id])}],
     msgs_out |-> [c \in Durable |-> SavedList(d, d.msgs_out[c])],
     retained |-> {d.retains[p] : p \in {q \in DOMAIN d.retains :
                      d.retains[q] # 0 /\ ~IsSys(d.store[d.retains[q]])}}]

(* persist__client_msg_restore, for the messages of one client: those that *)
(* were not loaded are passed over.                                        *)
RestoreLists(d, c, file, load) ==
    LET d1 == FoldSet(LAMBDA id, e : [RefInc(e, id) EXCEPT !.msgs_in[c] = @ \cup {id}],
                      d, file.msgs_in[c] \cap load)
    IN  FoldLeft(LAMBDA e, m : IF m.id \in load
                               THEN [RefInc(e, m.id) EXCEPT !.msgs_out[c] = Append(@, m)]
                               ELSE e,
                 d1, file.msgs_out[c])

(* persist__restore: a message too old is not loaded, and references to it *)
(* are passed over.  The file is rebuilt chunk by chunk: the store, the    *)
(* lists, the retained messages.  A rest of zero seconds is an interval of *)
(* zero, which db__message_store takes for none.                           *)
Restored(file, time) ==
    LET load    == {id \in DOMAIN file.store :
                       file.store[id].expiry = 0 \/ file.store[id].expiry >= time}
        stored  == [NoMessages EXCEPT
                       !.last_db_id = file.last_db_id,
                       !.store = [id \in load |->
                           [file.store[id] EXCEPT !.ref_count = 0, !.dest_ids = {},
                                                  !.expiry = IF @ = time THEN 0 ELSE @]]]
        listed  == FoldSet(LAMBDA c, d : RestoreLists(d, c, file, load), stored, Durable)
    IN  FoldSet(LAMBDA id, d : RetainStore(d, id), listed, file.retained \cap load)

(* The process ends and starts again after a while, from the last file.    *)
(* What happened since that file was written leaves no trace, so that a    *)
(* crash is a restart from the state of the last save, after more time.    *)
Restart(down) ==
    /\ restarts < MaxRestart
    /\ db' = Restored(Saved(db), now + down)
    /\ now' = now + down
    /\ restarts' = restarts + 1
    /\ loaded' = db.last_db_id

Init ==
    /\ db = NoMessages
    /\ now = 1 /\ restarts = 0 /\ loaded = 0

Next ==
    \/ \E t \in ClientTopics :
          \/ \E p \in BOOLEAN, l \in Lifetimes, to \in Targets : Publish(t, p, TRUE, l, to)
          \/ \E l \in Lifetimes, to \in Targets : Publish(t, TRUE, FALSE, l, to)
          \/ \E c \in Durable, r \in BOOLEAN : Publish2(c, t, r, r)
    \/ \E t \in SysTopics, to \in Targets : SysTreeUpdate(t, to)
    \/ \E c \in Clients :
          \/ \E id \in db.msgs_in[c], to \in Targets : Release(c, id, to)
          \/ \E n \in DOMAIN db.msgs_out[c] : Finish(c, n)
          \/ \E f \in Filters : RetainQueue(c, f)
          \/ MessagesDelete(c)
    \/ Tick
    \/ \E down \in 0..MaxDown : Restart(down)

Spec == Init /\ [][Next]_vars
-----------------------------------------------------------------------------
RetainedNodes(d) == {p \in DOMAIN d.retains : d.retains[p] # 0}

\* How often a message is referred to.
References(d, id) ==
    Cardinality({p \in RetainedNodes(d) : d.retains[p] = id})
    + Cardinality({c \in Clients : id \in d.msgs_in[c]})
    + Cardinality({x \in Clients \X (1..MaxList) :
                      x[2] \in DOMAIN d.msgs_out[x[1]] /\ d.msgs_out[x[1]][x[2]].id = id})

(* Every reference is counted and leads to a message that has not been     *)
(* freed, and no other message is kept, except those that came from the    *)
(* file without any reference.  (db__msg_store_ref_inc and _dec; the       *)
(* last_db_id of the file keeps new messages off the ids of old ones.)     *)
RefExact ==
    /\ \A c \in Clients : /\ db.msgs_in[c] \subseteq DOMAIN db.store
                          /\ \A n \in DOMAIN db.msgs_out[c] : db.msgs_out[c][n].id \in DOMAIN db.store
    /\ \A p \in RetainedNodes(db) : /\ db.retains[p] \in DOMAIN db.store
                                    /\ NodeOf[db.store[db.retains[p]].topic] = p
    /\ \A id \in DOMAIN db.store : /\ db.store[id].ref_count = References(db, id)
                                   /\ db.store[id].ref_count = 0 => id <= loaded

(* A v3 client is given a message once, whatever overlapping subscriptions *)
(* it has.  (mosquitto.conf: allow_duplicate_messages.)                    *)
OncePerClient ==
    \A c \in Clients \ V5 : \A m, n \in DOMAIN db.msgs_out[c] :
        /\ db.msgs_out[c][m].id = db.msgs_out[c][n].id
        /\ ~db.msgs_out[c][m].retain /\ ~db.msgs_out[c][n].retain
        => m = n

\* What must be there after a restart now: it is not too old and not a message of the broker.
Lasting(id) == LET m == db.store[id] IN ~IsSys(m) /\ (m.expiry = 0 \/ m.expiry >= now)

\* The list without the messages of these ids.
Without(list, ids) ==
    FoldLeft(LAMBDA kept, m : IF m.id \in ids THEN kept ELSE Append(kept, m), <<>>, list)

(* A restart from a file written now gives every durable client its        *)
(* messages back, in their order, and every topic its retained message.    *)
(* (persist_write.c, persist_read.c: five kinds of chunks that refer to    *)
(* each other by db_id.)                                                   *)
SurvivesRestart ==
    LET r == Restored(Saved(db), now)
        same(id) == LET x == r.store[id] y == db.store[id]
                    IN  x.topic = y.topic /\ x.payload = y.payload /\ x.retain = y.retain
        ours(list) == Without(list, {id \in DOMAIN db.store : ~Lasting(id)})
    IN  /\ \A c \in Durable :
              /\ Without(r.msgs_out[c], {id \in DOMAIN r.store : IsSys(r.store[id])}) = ours(db.msgs_out[c])
              /\ r.msgs_in[c] = {id \in db.msgs_in[c] : Lasting(id)}
              /\ \A m \in Range(ours(db.msgs_out[c])) : same(m.id)
        /\ \A t \in TopicNames :
              LET p == NodeOf[t] IN
              (IF p \in RetainedNodes(r) THEN r.retains[p] ELSE 0) =
                  (IF p \in RetainedNodes(db) /\ Lasting(db.retains[p]) THEN db.retains[p] ELSE 0)

\* "$foo/#" also matches "$foo", but retain__search passes over the node before
\* the '#' at level 0 unless it has branches.
Missed(f, t) ==
    /\ Len(t) = 1 /\ t[1] \in DollarLevels /\ f = <<t[1], "#">>
    /\ Children(db.retains, NodeOf[t]) = {}

(* A subscription finds the retained messages of the topics its filter     *)
(* matches and no others, but for a topic of a single '$' level.           *)
(* (retain__search, against mosquitto_topic_matches_sub.)                  *)
RetainedFound ==
    \A f \in Filters :
        RetainSearch(db.retains, f) =
            {NodeOf[t] : t \in {u \in TopicNames : /\ TopicMatchesSub(f, u) /\ ~Missed(f, u)
                                                 /\ NodeOf[u] \in RetainedNodes(db)}}
=============================================================================
