------------------------------- MODULE Topics -------------------------------
(***************************************************************************)
(* Topics and subscription filters, as sequences of levels: "a/+/#" is     *)
(* <<"a", "+", "#">>.  What is inside a level is never looked at, except   *)
(* for the wildcards and for a first level that starts with '$'.           *)
(***************************************************************************)
EXTENDS Naturals, Sequences, SequencesExt

CONSTANT DollarLevels   \* the levels in use that start with '$'

ASSUME DollarAssumption == "$share" \in DollarLevels /\ {"", "+", "#"} \cap DollarLevels = {}

\* No share name; a level never holds the separator.
NoShare == "/"

(* sub__topic_tokenise: an empty level is put before a topic that does not *)
(* start with '$'; "$share/name/filter" gives the name and the filter.     *)
Tokenise(levels) ==
    IF levels[1] = "$share"
    THEN [share |-> levels[2], topics |-> <<"">> \o SubSeq(levels, 3, Len(levels))]
    ELSE [share  |-> NoShare,
          topics |-> (IF levels[1] \in DollarLevels THEN <<>> ELSE <<"">>) \o levels]

(* mosquitto_topic_matches_sub: '+' stands for one level, a final '#' for  *)
(* any number of them, none included; '$' topics need a '$' filter.        *)
TopicMatchesSub(sub, topic) ==
    LET open  == Last(sub) = "#"
        fixed == IF open THEN Len(sub) - 1 ELSE Len(sub)
    IN  /\ (sub[1] \in DollarLevels) <=> (topic[1] \in DollarLevels)
        /\ IF open THEN Len(topic) >= fixed ELSE Len(topic) = fixed
        /\ \A i \in 1..fixed : sub[i] \in {"+", topic[i]}

(* mosquitto_sub_topic_check: '#' may only be the last level.              *)
SubTopicCheck(sub) == sub # <<>> /\ \A i \in 1..(Len(sub) - 1) : sub[i] # "#"

(* mosquitto_pub_topic_check: a topic to publish to has no wildcard.       *)
PubTopicCheck(topic) == topic # <<>> /\ \A i \in DOMAIN topic : topic[i] \notin {"+", "#"}
=============================================================================
