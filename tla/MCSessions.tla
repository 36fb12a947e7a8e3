----------------------------- MODULE MCSessions -----------------------------
EXTENDS Sessions, TLC

Option(v5, clean, expiry, will, delay) ==
    [v5 |-> v5, clean |-> clean, expiry |-> expiry, will |-> will, delay |-> delay]

\* v3 clients, and v5 clients with wills of several delays and sessions of several lengths.
WillOptions ==
    {Option(FALSE, TRUE, 0, TRUE, 0), Option(FALSE, FALSE, Never, TRUE, 0),
     Option(TRUE, TRUE, 0, FALSE, 0), Option(TRUE, TRUE, 1, TRUE, 1),
     Option(TRUE, FALSE, 0, TRUE, 1), Option(TRUE, FALSE, 2, TRUE, 2)}

SubOptions == {Option(FALSE, TRUE, 0, FALSE, 0), Option(TRUE, FALSE, 1, FALSE, 0)}

NoFilters == {}
SubFilters == {<<"+", "#">>, <<"$share", "g", "a">>}
SomeTopics == {<<"a">>, <<"a", "b">>, <<"$SYS">>}
Dollar == {"$share", "$SYS"}
Symmetry == Permutations(Clients)
=============================================================================
