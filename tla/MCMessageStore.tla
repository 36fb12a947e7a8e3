--------------------------- MODULE MCMessageStore ---------------------------
EXTENDS MessageStore

Dollar == {"$SYS", "$share", "$x"}

\* A first level with '$' has no empty level before it: these are the topics
\* for which the first '#' of a filter can stand at level 0, 1 and 2.
SomeTopics == {<<"$x">>, <<"$x", "b">>}
BrokerTopics == {<<"$SYS", "n">>}
SomeFilters == {<<"$x", "#">>, <<"$x", "+", "#">>, <<"$SYS", "+">>}
=============================================================================
