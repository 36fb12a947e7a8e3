-------------------------- MODULE SubscriptionTree --------------------------
(***************************************************************************)
(* The subscription tree of the broker (db.subs).  A node is named by its  *)
(* path from the root; a tree is a function from the paths that exist to   *)
(* nodes, with the list of subscribed contexts and, for every share name,  *)
(* the list of its members.  A leaf names its context, as in the code.     *)
(***************************************************************************)
EXTENDS Topics, FiniteSets

EmptyNode == [subs |-> <<>>, shared |-> <<>>]

\* The node of the filter with these tokens: the root is found by the first token.
Path(topics) == <<topics[1]>> \o topics

PathPrefixes(p) == {SubSeq(p, 1, n) : n \in 1..Len(p)}

Children(tree, p) == {q \in DOMAIN tree : Len(q) = Len(p) + 1 /\ IsPrefix(p, q)}

IsEmptyNode(node) == node.subs = <<>> /\ DOMAIN node.shared = {}

(* db__open: the two roots that always exist.                              *)
InitialTree == [p \in {<<"">>, <<"$SYS">>} |-> EmptyNode]

(* sub__add_context: the nodes of the path that are missing.               *)
AddPath(tree, p) ==
    [q \in DOMAIN tree \cup PathPrefixes(p) |-> IF q \in DOMAIN tree THEN tree[q] ELSE EmptyNode]

Members(node, share) == IF share = NoShare THEN node.subs
                        ELSE IF share \in DOMAIN node.shared THEN node.shared[share] ELSE <<>>

\* A share name without members is deleted with its last leaf.
WithMembers(node, share, leaves) ==
    IF share = NoShare THEN [node EXCEPT !.subs = leaves]
    ELSE [node EXCEPT !.shared =
            [g \in (DOMAIN @ \cup {share}) \ (IF leaves = <<>> THEN {share} ELSE {}) |->
                IF g = share THEN leaves ELSE @[g]]]

(* sub__add_leaf: a second subscription of the same client id updates the  *)
(* leaf that is there (QoS and identifier, which are left out here).       *)
AddLeaf(leaves, leaf, id) ==
    IF \E i \in DOMAIN leaves : id[leaves[i].context] = id[leaf.context]
    THEN leaves
    ELSE Append(leaves, leaf)

(* sub__add; id gives the client id of a context.                          *)
SubAdd(tree, filter, leaf, id) ==
    LET tok == Tokenise(filter)
        p   == Path(tok.topics)
    IN  [AddPath(tree, p) EXCEPT
            ![p] = WithMembers(@, tok.share, AddLeaf(Members(@, tok.share), leaf, id))]

(* The end of sub__remove_recurse, and the loop over tmp_remove_subs: from *)
(* the node up, those left without children and members are freed; a root  *)
(* is kept.                                                                *)
Prune(tree, p) ==
    LET gone(n) == \A k \in n..Len(p) :
                       LET q == SubSeq(p, 1, k) IN
                       /\ IsEmptyNode(tree[q])
                       /\ Children(tree, q) \subseteq PathPrefixes(p)
    IN  [q \in DOMAIN tree \ {SubSeq(p, 1, n) : n \in {m \in 2..Len(p) : gone(m)}} |-> tree[q]]

(* sub__remove_normal, sub__remove_shared and sub__clean_session: the leaf *)
(* of this very context goes, then the nodes it leaves empty.              *)
RemoveLeaf(tree, p, share, c) ==
    LET left == RemoveFirstMatch(Members(tree[p], share), LAMBDA leaf : leaf.context = c)
    IN  Prune([tree EXCEPT ![p] = WithMembers(@, share, left)], p)

(* sub__remove.                                                            *)
SubRemove(tree, filter, c) ==
    LET tok == Tokenise(filter)
        p   == Path(tok.topics)
    IN  IF p \in DOMAIN tree /\ \E i \in DOMAIN Members(tree[p], tok.share) :
                                    Members(tree[p], tok.share)[i].context = c
        THEN RemoveLeaf(tree, p, tok.share, c)
        ELSE tree

(* Fault: a '#' after the last level of the topic is missed.               *)
SearchWithoutParent(tree, topic) ==
    LET t == Tokenise(topic).topics
        Search[p \in DOMAIN tree] ==
            LET i        == Len(p)
                branches == IF i > Len(t) THEN {}
                            ELSE {Append(p, t[i]), Append(p, "+")} \cap DOMAIN tree
                hash     == Append(p, "#")
            IN  (UNION {Search[b] : b \in branches})
                \cup (IF i = Len(t) THEN branches ELSE {})
                \cup (IF i <= Len(t) /\ hash \in DOMAIN tree THEN {hash} ELSE {})
    IN  IF <<t[1]>> \in DOMAIN tree THEN Search[<<t[1]>>] ELSE {}

(* sub__search: the nodes whose members are sent a message on this topic:  *)
(* at each level the literal branch, the "+" branch, and the "#" branch,   *)
(* which also stands for no further level.  The root is one node more than *)
(* the topic has levels, so that the level after p is that of p's length.  *)
SubSearch(tree, topic) ==
    LET t == Tokenise(topic).topics
        Search[p \in DOMAIN tree] ==
            LET i        == Len(p)
                branches == IF i > Len(t) THEN {}
                            ELSE {Append(p, t[i]), Append(p, "+")} \cap DOMAIN tree
                hash     == Append(p, "#")
            IN  (UNION {Search[b] : b \in branches})
                \cup (IF i = Len(t) THEN branches ELSE {})
                \cup (IF hash \in DOMAIN tree /\ Children(tree, hash) = {} THEN {hash} ELSE {})
    IN  IF <<t[1]>> \in DOMAIN tree THEN Search[<<t[1]>>] ELSE {}

(* subs__process: the client ids that get the message through normal       *)
(* subscriptions; a context without an id, about to be freed, is skipped,  *)
(* and so is the publisher itself if it asked for that.                    *)
Subscribers(tree, topic, source, id, NoId) ==
    {id[leaf.context] : leaf \in
        {l \in UNION {Range(tree[p].subs) : p \in SubSearch(tree, topic)} :
            id[l.context] # NoId /\ ~(l.no_local /\ id[l.context] = source)}}

(* subs__shared_process: one member of every share name is sent the        *)
(* message and goes to the end of its list.                                *)
RotateShares(tree, topic) ==
    [p \in DOMAIN tree |->
        IF p \in SubSearch(tree, topic)
        THEN [tree[p] EXCEPT !.shared = [g \in DOMAIN @ |-> Append(Tail(@[g]), Head(@[g]))]]
        ELSE tree[p]]
=============================================================================
