------------------------- MODULE MCDynamicSecurity -------------------------
(* Bounds for TLC.  Clients, roles and credentials are alike.              *)
EXTENDS DynamicSecurity

Alike == Permutations(Clients) \cup Permutations(Roles) \cup Permutations(Credentials)
=============================================================================
