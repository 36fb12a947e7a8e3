----------------------- MODULE DynamicSecurityProofs -----------------------
(***************************************************************************)
(* LinksAgree and FileExact for every set of clients, groups, roles and    *)
(* ACLs.  Neither is inductive without the other: Restart takes the links  *)
(* from the file.  Credentials are those of the known clients, so that to  *)
(* change one client's leaves the others' alone.                           *)
(***************************************************************************)
EXTENDS DynamicSecurity, TLAPS

ForClients(f) == DOMAIN f = Clients /\ f = [c \in Clients |-> f[c]]

CredentialsKnown == ForClients(credentials) /\ ForClients(file.credentials)

Inv == LinksAgree /\ FileExact /\ CredentialsKnown

(* What LinksAgree and Config speak of.                                    *)
state == <<objects, links, acls, anonymous, disabled, credentials>>

(* A command that saves has only the links to account for.                 *)
LEMMA Saved ==
    ASSUME ConfigSave
    PROVE  FileExact' /\ (ForClients(credentials') => CredentialsKnown')
<1>1. file' = Config'
  BY DEF ConfigSave
<1>2. file'.credentials = credentials'
  BY <1>1 DEF Config
<1>3. [Config EXCEPT !.credentials = credentials]' = Config'
  BY DEF Config
<1>4. [Config EXCEPT !.credentials = file.credentials]' = [Config EXCEPT !.credentials = credentials]'
  BY <1>2
<1> QED BY <1>1, <1>2, <1>3, <1>4 DEF FileExact, CredentialsKnown

LEMMA Kept ==
    ASSUME Inv, ConfigSave, LinksAgree', UNCHANGED credentials PROVE Inv'
BY Saved DEF Inv, CredentialsKnown

(* To set the credentials of one client.                                   *)
LEMMA OneSet ==
    ASSUME CredentialsKnown, NEW c \in Clients, NEW k, credentials' = [credentials EXCEPT ![c] = k]
    PROVE  /\ ForClients(credentials') /\ credentials'[c] = k
           /\ \A x \in Clients \ {c} : credentials'[x] = credentials[x]
           /\ ConfigSave /\ LinksAgree' => Inv'
BY Saved DEF CredentialsKnown, ForClients, Inv

(* A command that changes none of it keeps both.                           *)
LEMMA Same ==
    ASSUME Inv, UNCHANGED state, NotSaved \/ ConfigSave
    PROVE  Inv'
<1>1. LinksAgree'
  BY DEF Inv, LinksAgree, state, objects, links
<1>2. CASE NotSaved
  BY <1>1, <1>2 DEF Inv, FileExact, CredentialsKnown, ForClients, Config, NotSaved, state,
      objects, links
<1>3. CASE ConfigSave
  BY <1>1, <1>3, Saved DEF Inv, CredentialsKnown, state
<1> QED BY <1>2, <1>3

LEMMA InitInv ==
    ASSUME Init PROVE Inv
<1>1. LinksAgree
  BY DEF Init, LinksAgree
<1>2. FileExact
  BY DEF Init, FileExact, Config
<1>3. ForClients(credentials) /\ file.credentials = credentials
  BY DEF Init, ForClients, Config
<1> QED BY <1>1, <1>2, <1>3 DEF Inv, CredentialsKnown

LEMMA ClientCommandInv ==
    ASSUME Plain, Inv, ClientCommand PROVE Inv'
<1>1. PICK c \in Clients :
        \/ \E k \in Credentials, gs \in SUBSET Groups : CreateClient(c, k, {}, gs, TRUE)
        \/ DeleteClient(c) \/ DisableClient(c) \/ EnableClient(c)
        \/ \E k \in Credentials : SetCredentials(c, k) \/ ModifyClientFails(c, k)
        \/ \E k \in Credentials, rs \in (SUBSET Roles) \cup {None},
              gs \in (SUBSET Groups) \cup {None} : ModifyClient(c, k, rs, gs)
        \/ \E r \in Roles : AddClientRole(c, r) \/ RemoveClientRole(c, r)
  BY PlainAssumption DEF ClientCommand
<1>2. CASE \E k \in Credentials, gs \in SUBSET Groups : CreateClient(c, k, {}, gs, TRUE)
  <2>1. LinksAgree' /\ ConfigSave /\ \E k : credentials' = [credentials EXCEPT ![c] = k]
    BY <1>2 DEF Inv, LinksAgree, CreateClient
  <2> QED BY <2>1, OneSet DEF Inv
<1>3. CASE DeleteClient(c)
  <2>1. LinksAgree' /\ ConfigSave /\ credentials' = [credentials EXCEPT ![c] = None]
    BY <1>3 DEF Inv, LinksAgree, DeleteClient, RolesOf
  <2> QED BY <2>1, OneSet DEF Inv
<1>4. CASE DisableClient(c)
  BY <1>4, Kept DEF Inv, LinksAgree, DisableClient, objects, links
<1>5. CASE EnableClient(c)
  BY <1>5, Kept DEF Inv, LinksAgree, EnableClient, objects, links
<1>6. CASE \E k \in Credentials : SetCredentials(c, k)
  <2>1. LinksAgree' /\ ConfigSave /\ \E k : credentials' = [credentials EXCEPT ![c] = k]
    BY <1>6 DEF Inv, LinksAgree, SetCredentials, objects, links
  <2> QED BY <2>1, OneSet DEF Inv
<1>7. CASE \E k \in Credentials, rs \in (SUBSET Roles) \cup {None},
              gs \in (SUBSET Groups) \cup {None} : ModifyClient(c, k, rs, gs)
  <2>1. LinksAgree' /\ ConfigSave /\ \E k : credentials' = [credentials EXCEPT ![c] = k]
    BY <1>7 DEF Inv, LinksAgree, ModifyClient, RolesOf, objects
  <2> QED BY <2>1, OneSet DEF Inv
<1>8. CASE \E k \in Credentials : ModifyClientFails(c, k)
  <2>1. PICK k \in Credentials : ModifyClientFails(c, k)
    BY <1>8
  <2>2. LinksAgree'
    BY <2>1 DEF Inv, LinksAgree, ModifyClientFails, objects, links
  <2>3. ForClients(credentials') /\ credentials'[c] = k
        /\ \A x \in Clients \ {c} : credentials'[x] = credentials[x]
    BY <2>1, OneSet DEF Inv, ModifyClientFails
  <2>4. [Config EXCEPT !.credentials = file.credentials]' = [Config EXCEPT !.credentials = file.credentials]
    BY <2>1 DEF ModifyClientFails, Config, objects, links
  <2>5. \A x \in Clients \ unsaved' : file'.credentials[x] = credentials'[x]
    BY <2>1, <2>3 DEF Inv, FileExact, ModifyClientFails
  <2> QED BY <2>1, <2>2, <2>3, <2>4, <2>5 DEF Inv, FileExact, CredentialsKnown, ModifyClientFails
<1>9. CASE \E r \in Roles : AddClientRole(c, r)
  BY <1>9, Kept DEF Inv, LinksAgree, AddClientRole, objects
<1>10. CASE \E r \in Roles : RemoveClientRole(c, r)
  BY <1>10, Kept DEF Inv, LinksAgree, RemoveClientRole, objects
<1> QED BY <1>1, <1>2, <1>3, <1>4, <1>5, <1>6, <1>7, <1>8, <1>9, <1>10

LEMMA GroupCommandInv ==
    ASSUME Plain, Inv, GroupCommand PROVE Inv'
<1>1. PICK g \in Groups :
        \/ CreateGroup(g, {}) \/ DeleteGroup(g) \/ SetAnonymousGroup(g)
        \/ \E r \in Roles : AddGroupRole(g, r) \/ RemoveGroupRole(g, r)
        \/ \E c \in Clients : AddGroupClient(g, c) \/ RemoveGroupClient(g, c)
        \/ \E cs \in (SUBSET Clients) \cup {None} : ModifyGroup(g, None, cs)
        \/ ModifyGroupFails(g)
  BY PlainAssumption DEF GroupCommand
<1>2. CASE CreateGroup(g, {})
  BY <1>2, Kept DEF Inv, LinksAgree, CreateGroup
<1>3. CASE DeleteGroup(g)
  BY <1>3, Kept DEF Inv, LinksAgree, DeleteGroup
<1>4. CASE SetAnonymousGroup(g)
  BY <1>4, Kept DEF Inv, LinksAgree, SetAnonymousGroup, objects, links
<1>5. CASE \E r \in Roles : AddGroupRole(g, r)
  BY <1>5, Kept DEF Inv, LinksAgree, AddGroupRole, objects
<1>6. CASE \E r \in Roles : RemoveGroupRole(g, r)
  BY <1>6, Kept DEF Inv, LinksAgree, RemoveGroupRole, objects
<1>7. CASE \E c \in Clients : AddGroupClient(g, c)
  <2>1. PICK c \in Clients : AddGroupClient(g, c)
  BY <1>7
  <2>2. CASE <<c, g>> \in groupClients
    <3>1. UNCHANGED state
    BY <2>1, <2>2, Zenon DEF AddGroupClient, state, links
    <3> QED BY <2>1, <2>2, <3>1, Same DEF AddGroupClient
  <2>3. CASE <<c, g>> \notin groupClients
  BY <2>1, <2>3, Kept DEF Inv, LinksAgree, AddGroupClient, objects
  <2> QED BY <2>2, <2>3
<1>8. CASE \E c \in Clients : RemoveGroupClient(g, c)
  BY <1>8, Kept DEF Inv, LinksAgree, RemoveGroupClient, objects
<1>9. CASE \E cs \in (SUBSET Clients) \cup {None} : ModifyGroup(g, None, cs)
  BY <1>9, Kept DEF Inv, LinksAgree, ModifyGroup, objects
<1>10. CASE ModifyGroupFails(g)
  BY <1>10, Same DEF ModifyGroupFails, state
<1> QED BY <1>1, <1>2, <1>3, <1>4, <1>5, <1>6, <1>7, <1>8, <1>9, <1>10

LEMMA RoleCommandInv ==
    ASSUME Inv, RoleCommand PROVE Inv'
<1>1. PICK r \in Roles :
        \/ \E as \in SUBSET Acls : CreateRole(r, as) \/ ModifyRole(r, as)
        \/ DeleteRole(r)
        \/ \E a \in Acls : AddRoleAcl(r, a) \/ RemoveRoleAcl(r, a)
  BY DEF RoleCommand
<1>2. CASE \E as \in SUBSET Acls : CreateRole(r, as)
  BY <1>2, Kept DEF Inv, LinksAgree, CreateRole, links
<1>3. CASE \E as \in SUBSET Acls : ModifyRole(r, as)
  BY <1>3, Kept DEF Inv, LinksAgree, ModifyRole, objects, links
<1>4. CASE DeleteRole(r)
  BY <1>4, Kept DEF Inv, LinksAgree, DeleteRole
<1>5. CASE \E a \in Acls : AddRoleAcl(r, a)
  BY <1>5, Kept DEF Inv, LinksAgree, AddRoleAcl, objects, links
<1>6. CASE \E a \in Acls : RemoveRoleAcl(r, a)
  BY <1>6, Kept DEF Inv, LinksAgree, RemoveRoleAcl, objects, links
<1> QED BY <1>1, <1>2, <1>3, <1>4, <1>5, <1>6

(* Loading a file that says what the plugin knew loses no link.            *)
LEMMA RestartInv ==
    ASSUME Inv, Restart PROVE Inv'
<1>1. LinksAgree'
  BY DEF Inv, LinksAgree, FileExact, Config, Restart
<1>2. file' = file /\ file.credentials = credentials' /\ CredentialsKnown'
  BY DEF Inv, CredentialsKnown, Restart
<1>3. file = [Config EXCEPT !.credentials = file.credentials]'
  <2>1. UNCHANGED <<clients, groups, roles, acls, disabled, anonymous, clientRoles, groupRoles,
                    groupClients>>
    BY DEF Inv, LinksAgree, FileExact, Config, Restart
  <2>2. [Config EXCEPT !.credentials = file.credentials]' = [Config EXCEPT !.credentials = file.credentials]
    BY <1>2, <2>1 DEF Config
  <2> QED BY <2>2 DEF Inv, FileExact
<1> QED BY <1>1, <1>2, <1>3 DEF Inv, FileExact

(* A file that breaks off says nothing, and nothing is what is loaded.     *)
LEMMA KillInSaveInv ==
    ASSUME Inv, KillInSave PROVE Inv'
<1>1. LinksAgree'
  BY DEF KillInSave, LinksAgree
<1>2. ForClients(credentials')
  BY DEF KillInSave, ForClients
<1> QED BY <1>1, <1>2, Saved DEF Inv, KillInSave, ConfigSave

LEMMA StepInv ==
    ASSUME Plain, Inv, [Next]_vars PROVE Inv'
<1>1. CASE \E u \in Clients \cup {Anon} : Connect(u)
  BY <1>1, Same DEF Connect, state
<1>2. CASE ClientCommand
  BY <1>2, ClientCommandInv
<1>3. CASE GroupCommand
  BY <1>3, GroupCommandInv
<1>4. CASE RoleCommand
  BY <1>4, RoleCommandInv
<1>5. CASE Restart
  BY <1>5, RestartInv
<1>6. CASE KillInSave
  BY <1>6, KillInSaveInv
<1>7. CASE UNCHANGED vars
  BY <1>7, Same DEF vars, state, NotSaved
<1> QED BY <1>1, <1>2, <1>3, <1>4, <1>5, <1>6, <1>7 DEF Next

(* Whatever clients, groups, roles and ACLs there are, and in whatever     *)
(* order they are created, linked, changed and deleted, over restarts too: *)
(* as long as the commands link one pair at a time no list keeps what was  *)
(* freed (the clean-up of deleteClient, deleteGroup and deleteRole).       *)
THEOREM LinksKept ==
    ASSUME Plain PROVE Spec => []LinksAgree
<1>1. Init => Inv
  BY InitInv
<1>2. Inv /\ [Next]_vars => Inv'
  BY StepInv
<1>3. Inv => LinksAgree
  BY DEF Inv
<1> QED BY <1>1, <1>2, <1>3, PTL DEF Spec

(* The same for the file: killed between two commands the broker comes     *)
(* back with the same clients, groups, roles and links, and credentials of *)
(* which only those of a failed modifyClient are the old ones; the file    *)
(* that a kill in dynsec__config_save leaves, and the command after it,    *)
(* agree again (dynsec__config_save, dynsec__config_load).                 *)
THEOREM FileKept ==
    ASSUME Plain PROVE Spec => []FileExact
<1>1. Init => Inv
  BY InitInv
<1>2. Inv /\ [Next]_vars => Inv'
  BY StepInv
<1>3. Inv => FileExact
  BY DEF Inv
<1> QED BY <1>1, <1>2, <1>3, PTL DEF Spec

-----------------------------------------------------------------------------
(* Who is connected with a name is a client of the plugin.                 *)
Known ==
    /\ online \subseteq clients \cup {Anon}
    /\ clients \subseteq Clients /\ groups \subseteq Groups

LEMMA InitKnown ==
    ASSUME Init PROVE Known
BY DEF Init, Known

LEMMA StepKnown ==
    ASSUME FileExact, [Next]_vars, Known PROVE Known'
<1>1. CASE \E u \in Clients \cup {Anon} : Connect(u)
  BY <1>1 DEF Known, Connect, objects
<1>2. CASE ClientCommand
  <2>1. groups' = groups
  BY <1>2, ZenonT(60) DEF ClientCommand, CreateClient, DeleteClient, DisableClient, EnableClient,
      SetCredentials, ModifyClient, ModifyClientFails, AddClientRole, RemoveClientRole, objects
  <2>2. PICK c \in Clients :
          \/ clients' = clients /\ online' \subseteq online
          \/ clients' = clients \cup {c} /\ online' = online
          \/ clients' = clients \ {c} /\ online' = online \ {c}
    <3>1. PICK c \in Clients :
            \/ clients' \in {clients, clients \cup {c}} /\ online' = online
            \/ DeleteClient(c)
            \/ clients' = clients /\ Kick({c})
    BY <1>2, ZenonT(60) DEF ClientCommand, CreateClient, DisableClient, EnableClient, SetCredentials,
      ModifyClient, ModifyClientFails, AddClientRole, RemoveClientRole, objects
    <3> QED BY <3>1 DEF DeleteClient, Kick
  <2> QED BY <2>1, <2>2 DEF Known
<1>3. CASE GroupCommand
  BY <1>3, ZenonT(60) DEF Known, GroupCommand, CreateGroup, DeleteGroup, SetAnonymousGroup, AddGroupRole,
      RemoveGroupRole, AddGroupClient, RemoveGroupClient, ModifyGroup, ModifyGroupFails, objects,
      Kick
<1>4. CASE RoleCommand
  BY <1>4 DEF Known, RoleCommand, CreateRole, ModifyRole, DeleteRole, AddRoleAcl, RemoveRoleAcl,
      objects, Kick
<1>5. CASE Restart
  BY <1>5 DEF Known, Restart, FileExact, Config
<1>6. CASE KillInSave
  BY <1>6 DEF Known, KillInSave
<1>7. CASE UNCHANGED vars
  BY <1>7 DEF Known, vars, objects
<1> QED BY <1>1, <1>2, <1>3, <1>4, <1>5, <1>6, <1>7 DEF Next

(* The rights of those who stay connected are what they were.              *)
Enforced == \A u \in online \cap online' : Rights(u)' = Rights(u)

(* What Rights reads.                                                      *)
rights == <<acls, clientRoles, groupRoles, clientGroups, anonymous>>

LEMMA SameRights ==
    ASSUME UNCHANGED rights PROVE Enforced
BY DEF Enforced, Rights, Has, rights

(* A command that links or unlinks one client, which it disconnects or     *)
(* which is not connected.                                                 *)
LEMMA OneClient ==
    ASSUME NEW c, c \notin online \cap online', UNCHANGED <<acls, groupRoles, anonymous>>,
           \A u, x : u # c => (<<u, x>> \in clientRoles' <=> <<u, x>> \in clientRoles),
           \A u, x : u # c => (<<u, x>> \in clientGroups' <=> <<u, x>> \in clientGroups)
    PROVE  Enforced
BY DEF Enforced, Rights, Has

(* A command about one role, which disconnects those who have it.          *)
LEMMA OneRole ==
    ASSUME NEW r,
           \A u \in online \cap online' :
               /\ ~Has(u, r) /\ ~Has(u, r)'
               /\ \A x : x # r => (Has(u, x)' <=> Has(u, x)),
           \A p : p \in acls \cup acls' /\ p[1] # r => (p \in acls' <=> p \in acls)
    PROVE  Enforced
BY DEF Enforced, Rights

LEMMA RoleUsersHave ==
    ASSUME Inv, Known, NEW r, NEW u \in online, Has(u, r) PROVE u \in RoleUsers(r)
BY NameAssumption DEF Inv, LinksAgree, Known, Has, RoleUsers, GroupUsers, MembersOf

LEMMA ClientCommandEnforced ==
    ASSUME Plain, Inv, Known, ClientCommand PROVE Enforced
<1>1. PICK c \in Clients :
        \/ \E k \in Credentials, gs \in SUBSET Groups : CreateClient(c, k, {}, gs, TRUE)
        \/ DeleteClient(c) \/ DisableClient(c) \/ EnableClient(c)
        \/ \E k \in Credentials : SetCredentials(c, k) \/ ModifyClientFails(c, k)
        \/ \E k \in Credentials, rs \in (SUBSET Roles) \cup {None},
              gs \in (SUBSET Groups) \cup {None} : ModifyClient(c, k, rs, gs)
        \/ \E r \in Roles : AddClientRole(c, r) \/ RemoveClientRole(c, r)
  BY PlainAssumption DEF ClientCommand
<1>2. CASE \E k \in Credentials, gs \in SUBSET Groups : CreateClient(c, k, {}, gs, TRUE)
  BY <1>2, NameAssumption, OneClient DEF Known, CreateClient
<1>3. CASE DeleteClient(c)
  BY <1>3, OneClient DEF DeleteClient, Kick, RolesOf
<1>4. CASE DisableClient(c)
  BY <1>4, SameRights DEF DisableClient, rights, links
<1>5. CASE EnableClient(c)
  BY <1>5, SameRights DEF EnableClient, rights, links
<1>6. CASE \E k \in Credentials : SetCredentials(c, k)
  BY <1>6, SameRights DEF SetCredentials, rights, links
<1>7. CASE \E k \in Credentials, rs \in (SUBSET Roles) \cup {None},
              gs \in (SUBSET Groups) \cup {None} : ModifyClient(c, k, rs, gs)
  BY <1>7, OneClient DEF ModifyClient, Kick, RolesOf
<1>8. CASE \E k \in Credentials : ModifyClientFails(c, k)
  BY <1>8, SameRights DEF ModifyClientFails, rights, links
<1>9. CASE \E r \in Roles : AddClientRole(c, r)
  BY <1>9, OneClient DEF AddClientRole, Kick
<1>10. CASE \E r \in Roles : RemoveClientRole(c, r)
  BY <1>10, OneClient DEF RemoveClientRole, Kick
<1> QED BY <1>1, <1>2, <1>3, <1>4, <1>5, <1>6, <1>7, <1>8, <1>9, <1>10

LEMMA GroupCommandEnforced ==
    ASSUME Plain, Inv, Known, GroupCommand PROVE Unenforced \/ Enforced
<1>1. PICK g \in Groups :
        \/ CreateGroup(g, {}) \/ DeleteGroup(g) \/ SetAnonymousGroup(g)
        \/ \E r \in Roles : AddGroupRole(g, r) \/ RemoveGroupRole(g, r)
        \/ \E c \in Clients : AddGroupClient(g, c) \/ RemoveGroupClient(g, c)
        \/ \E cs \in (SUBSET Clients) \cup {None} : ModifyGroup(g, None, cs)
        \/ ModifyGroupFails(g)
  BY PlainAssumption DEF GroupCommand
<1>2. CASE CreateGroup(g, {})
  BY <1>2, SameRights DEF CreateGroup, rights
<1>3. CASE DeleteGroup(g)
  BY <1>3, NameAssumption DEF Inv, LinksAgree, Known, Enforced, Rights, Has, DeleteGroup, Kick,
      GroupUsers, MembersOf
<1>4. CASE SetAnonymousGroup(g)
  BY <1>4, NameAssumption DEF Inv, LinksAgree, Known, Enforced, Rights, Has, SetAnonymousGroup, Kick, links
<1>5. CASE \E r \in Roles : AddGroupRole(g, r)
  BY <1>5, NameAssumption, ZenonT(60) DEF Inv, LinksAgree, Known, Enforced, Rights, Has, AddGroupRole, Kick,
      GroupUsers, MembersOf
<1>6. CASE \E r \in Roles : RemoveGroupRole(g, r)
  BY <1>6, NameAssumption DEF Inv, LinksAgree, Known, Enforced, Rights, Has, RemoveGroupRole, Kick,
      GroupUsers, MembersOf
<1>7. CASE \E c \in Clients : AddGroupClient(g, c)
  BY <1>7, OneClient DEF AddGroupClient, Kick
<1>8. CASE \E c \in Clients : RemoveGroupClient(g, c)
  BY <1>8, OneClient DEF RemoveGroupClient, Kick
<1>9. CASE \E cs \in (SUBSET Clients) \cup {None} : ModifyGroup(g, None, cs)
  <2>1. PICK cs \in (SUBSET Clients) \cup {None} : ModifyGroup(g, None, cs)
  BY <1>9
  <2>2. CASE cs = None
  BY <2>1, <2>2, SameRights DEF ModifyGroup, rights
  <2>3. CASE cs \in SUBSET Clients
  BY <2>1, <2>3 DEF Unenforced
  <2> QED BY <2>1, <2>2, <2>3
<1>10. CASE ModifyGroupFails(g)
  BY <1>10, SameRights DEF ModifyGroupFails, rights, links
<1> QED BY <1>1, <1>2, <1>3, <1>4, <1>5, <1>6, <1>7, <1>8, <1>9, <1>10

LEMMA RoleCommandEnforced ==
    ASSUME Inv, Known, RoleCommand PROVE Unenforced \/ Enforced
<1>1. PICK r \in Roles :
        \/ \E as \in SUBSET Acls : CreateRole(r, as) \/ ModifyRole(r, as)
        \/ DeleteRole(r)
        \/ \E a \in Acls : AddRoleAcl(r, a) \/ RemoveRoleAcl(r, a)
  BY DEF RoleCommand
<1>2. CASE \E as \in SUBSET Acls : CreateRole(r, as)
  <2>1. \A u, x : Has(u, x)' <=> Has(u, x)
  BY <1>2 DEF Has, CreateRole, links
  <2>2. \A u : ~Has(u, r)
  BY <1>2 DEF Inv, LinksAgree, Has, CreateRole
  <2> QED BY <1>2, <2>1, <2>2, OneRole DEF CreateRole
<1>3. CASE \E as \in SUBSET Acls : ModifyRole(r, as)
  BY <1>3 DEF Unenforced
<1>4. CASE DeleteRole(r)
  <2>1. \A u, x : x # r => (Has(u, x)' <=> Has(u, x))
  BY <1>4 DEF Has, DeleteRole
  <2>2. \A u : ~Has(u, r)'
  BY <1>4 DEF Inv, LinksAgree, Has, DeleteRole
  <2>3. \A u \in online \cap online' : ~Has(u, r)
  BY <1>4, RoleUsersHave DEF DeleteRole, Kick
  <2> QED BY <1>4, <2>1, <2>2, <2>3, OneRole DEF DeleteRole
<1>5. CASE \E a \in Acls : AddRoleAcl(r, a) \/ RemoveRoleAcl(r, a)
  <2>1. \A u, x : Has(u, x)' <=> Has(u, x)
  BY <1>5 DEF Has, AddRoleAcl, RemoveRoleAcl, links
  <2>2. \A u \in online \cap online' : ~Has(u, r)
  BY <1>5, RoleUsersHave DEF AddRoleAcl, RemoveRoleAcl, Kick
  <2> QED BY <1>5, <2>1, <2>2, OneRole DEF AddRoleAcl, RemoveRoleAcl
<1> QED BY <1>1, <1>2, <1>3, <1>4, <1>5

(* A client whose rights a command changes is disconnected by it, for      *)
(* every set of clients, groups, roles and ACLs, wherever the change comes *)
(* from; the commands that do not enforce theirs are set apart             *)
(* (dynsec_clientlist__kick_all, group__kick_all, role__kick_all).         *)
THEOREM ChangesReachClients ==
    ASSUME Plain PROVE Spec => RightsEnforced
<1>1. Init => Inv /\ Known
  BY InitInv, InitKnown
<1>2. Inv /\ Known /\ [Next]_vars => Inv' /\ Known'
  BY StepInv, StepKnown DEF Inv
<1>3. Inv /\ Known /\ [Next]_vars => [Enforced \/ Unenforced]_vars
  <2> SUFFICES ASSUME Inv, Known, [Next]_vars PROVE [Enforced \/ Unenforced]_vars
    OBVIOUS
  <2>1. CASE \E u \in Clients \cup {Anon} : Connect(u)
  BY <2>1, SameRights DEF Connect, rights, links
  <2>2. CASE ClientCommand
  BY <2>2, ClientCommandEnforced
  <2>3. CASE GroupCommand
  BY <2>3, GroupCommandEnforced
  <2>4. CASE RoleCommand
  BY <2>4, RoleCommandEnforced
  <2>5. CASE Restart
  BY <2>5 DEF Restart, Enforced
  <2>6. CASE KillInSave
  BY <2>6 DEF KillInSave, Enforced
  <2> QED BY <2>1, <2>2, <2>3, <2>4, <2>5, <2>6 DEF Next
<1> QED BY <1>1, <1>2, <1>3, PTL DEF Spec, RightsEnforced, Enforced
=============================================================================
