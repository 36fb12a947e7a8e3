-------------------------- MODULE DynamicSecurity --------------------------
(***************************************************************************)
(* The dynamic security plugin: clients, groups and roles that commands on *)
(* $CONTROL/dynamic-security/v1 create, link, change and delete.  Every    *)
(* link is kept twice, once at each end, as lists of pointers: a client    *)
(* lists its roles and its groups, a group its roles and its clients, a    *)
(* role its clients and its groups.  The model keeps the lists apart, as   *)
(* sets of pairs.  A command that refers to what does not exist, or asks   *)
(* for what is already so, changes nothing and is not an action.           *)
(*                                                                         *)
(* Names stand for objects.  Texts, priorities and the default access are  *)
(* left out; an ACL, and what a client has to show to connect (client id   *)
(* and password), is a member of a small set.                              *)
(***************************************************************************)
EXTENDS FiniteSets, TLC

CONSTANTS
    Clients, Groups, Roles, Acls, Credentials,
    None,    \* no anonymous group, no credentials
    Anon,    \* the clients without a username
    Plain    \* commands link one pair at a time, and spare the anonymous group

ASSUME NameAssumption == None \notin Groups /\ Anon \notin Clients
ASSUME PlainAssumption == Plain \in BOOLEAN

VARIABLES
    clients, groups, roles,      \* local_clients, local_groups, local_roles
    clientRoles, roleClients,    \* client->rolelist, role->clientlist: client, role
    groupRoles, roleGroups,      \* group->rolelist, role->grouplist: group, role
    groupClients, clientGroups,  \* group->clientlist, client->grouplist: client, group
    acls,                        \* role->acls
    anonymous,                   \* dynsec_anonymous_group
    disabled,                    \* client->disabled
    credentials,                 \* client->clientid and client->pw
    file,                        \* what the configuration file says when it is read
    unsaved,     \* history: clients with new credentials since the file was written or read
    online                       \* usernames of the connected clients

objects == <<clients, groups, roles>>
links == <<clientRoles, roleClients, groupRoles, roleGroups, groupClients, clientGroups>>
vars == <<objects, links, acls, anonymous, disabled, credentials, file, unsaved, online>>

RolesOf(c) == {p \in clientRoles : p[1] = c}
MembersOf(g) == {c \in Clients : <<c, g>> \in groupClients}

(* The clients that group__kick_all disconnects.                           *)
GroupUsers(g) == MembersOf(g) \cup (IF g = anonymous THEN {Anon} ELSE {})

(* The clients that role__kick_all disconnects.                            *)
RoleUsers(r) ==
    {c \in Clients : <<c, r>> \in roleClients}
        \cup UNION {GroupUsers(g) : g \in {h \in Groups : <<h, r>> \in roleGroups}}

(* What the file says: the lists of clients and groups, not of roles.      *)
Config ==
    [clients |-> clients, groups |-> groups, roles |-> roles, acls |-> acls,
     disabled |-> disabled, credentials |-> credentials, clientRoles |-> clientRoles,
     groupRoles |-> groupRoles, groupClients |-> groupClients, anonymous |-> anonymous]

(* dynsec__config_save, at the end of every command.  The name of the new  *)
(* file, cut to strlen(config_file) characters, is that of the old one: it *)
(* is emptied and written in place (KillInSave).                           *)
ConfigSave == file' = Config' /\ unsaved' = {}

NotSaved == UNCHANGED <<file, unsaved>>

Kick(users) == online' = online \ users
-----------------------------------------------------------------------------
Init ==
    /\ clients = {} /\ groups = {} /\ roles = {}
    /\ clientRoles = {} /\ roleClients = {} /\ groupRoles = {} /\ roleGroups = {}
    /\ groupClients = {} /\ clientGroups = {}
    /\ acls = {} /\ anonymous = None /\ disabled = {} /\ online = {}
    /\ credentials = [c \in Clients |-> None]
    /\ file = Config /\ unsaved = {}

(* dynsec_auth__basic_auth_callback accepts a client that is not disabled  *)
(* and whose password is right; without a username the broker decides.     *)
Connect(u) ==
    /\ u \in (clients \ disabled) \cup {Anon}
    /\ online' = online \cup {u}
    /\ UNCHANGED <<objects, links, acls, anonymous, disabled, credentials>>
    /\ NotSaved

(* createClient: the roles of the command enter the list of the client     *)
(* alone, its groups are linked both ways.  At a group that does not exist *)
(* the client is freed; as it has left local_clients by then, it stays in  *)
(* the lists of the groups that were linked before.                        *)
CreateClient(c, k, rs, gs, complete) ==
    /\ c \notin clients
    /\ rs \subseteq roles /\ gs \subseteq groups
    /\ clients' = IF complete THEN clients \cup {c} ELSE clients
    /\ clientRoles' = IF complete THEN clientRoles \cup ({c} \X rs) ELSE clientRoles
    /\ groupClients' = groupClients \cup ({c} \X gs)
    /\ clientGroups' = IF complete THEN clientGroups \cup ({c} \X gs) ELSE clientGroups
    /\ credentials' = IF complete THEN [credentials EXCEPT ![c] = k] ELSE credentials
    /\ UNCHANGED <<groups, roles, roleClients, groupRoles, roleGroups, acls, anonymous, disabled,
                   online>>
    /\ IF complete THEN ConfigSave ELSE NotSaved

(* deleteClient.                                                           *)
DeleteClient(c) ==
    /\ c \in clients
    /\ clients' = clients \ {c}
    /\ groupClients' = groupClients \ {p \in clientGroups : p[1] = c}
    /\ clientGroups' = {p \in clientGroups : p[1] # c}
    /\ roleClients' = roleClients \ RolesOf(c)
    /\ clientRoles' = clientRoles \ RolesOf(c)
    /\ disabled' = disabled \ {c}
    /\ credentials' = [credentials EXCEPT ![c] = None]
    /\ Kick({c})
    /\ UNCHANGED <<groups, roles, groupRoles, roleGroups, acls, anonymous>>
    /\ ConfigSave

(* disableClient, enableClient.                                            *)
DisableClient(c) ==
    /\ c \in clients
    /\ disabled' = disabled \cup {c}
    /\ Kick({c})
    /\ UNCHANGED <<objects, links, acls, anonymous, credentials>>
    /\ ConfigSave

EnableClient(c) ==
    /\ c \in clients
    /\ disabled' = disabled \ {c}
    /\ UNCHANGED <<objects, links, acls, anonymous, credentials, online>>
    /\ ConfigSave

(* setClientId, setClientPassword: the client has to connect again.        *)
SetCredentials(c, k) ==
    /\ c \in clients
    /\ credentials' = [credentials EXCEPT ![c] = k]
    /\ Kick({c})
    /\ UNCHANGED <<objects, links, acls, anonymous, disabled>>
    /\ ConfigSave

(* modifyClient with a role that does not exist: the client has the new    *)
(* client id and password by then, and is disconnected, but nothing is     *)
(* saved.                                                                  *)
ModifyClientFails(c, k) ==
    /\ c \in clients
    /\ credentials' = [credentials EXCEPT ![c] = k]
    /\ unsaved' = IF k = credentials[c] THEN unsaved ELSE unsaved \cup {c}
    /\ Kick({c})
    /\ UNCHANGED <<objects, links, acls, anonymous, disabled, file>>

(* modifyGroup with a role that does not exist: the members are            *)
(* disconnected all the same.                                              *)
ModifyGroupFails(g) ==
    /\ g \in groups
    /\ Kick(GroupUsers(g))
    /\ UNCHANGED <<objects, links, acls, anonymous, disabled, credentials>>
    /\ NotSaved

(* modifyClient: a list that is given replaces the old one, both ways.     *)
ModifyClient(c, k, rs, gs) ==
    /\ c \in clients
    /\ credentials' = [credentials EXCEPT ![c] = k]
    /\ \/ rs = None /\ UNCHANGED <<clientRoles, roleClients>>
       \/ /\ rs # None /\ rs \subseteq roles
          /\ clientRoles' = (clientRoles \ RolesOf(c)) \cup ({c} \X rs)
          /\ roleClients' = (roleClients \ RolesOf(c)) \cup ({c} \X rs)
    /\ \/ gs = None /\ UNCHANGED <<groupClients, clientGroups>>
       \/ /\ gs # None
          /\ groupClients' = (groupClients \ {p \in clientGroups : p[1] = c})
                                 \cup ({c} \X (gs \cap groups))
          /\ clientGroups' = {p \in clientGroups : p[1] # c} \cup ({c} \X (gs \cap groups))
    /\ Kick({c})
    /\ UNCHANGED <<objects, groupRoles, roleGroups, acls, anonymous, disabled>>
    /\ ConfigSave

(* addClientRole.                                                          *)
AddClientRole(c, r) ==
    /\ c \in clients /\ r \in roles /\ <<c, r>> \notin clientRoles
    /\ clientRoles' = clientRoles \cup {<<c, r>>}
    /\ roleClients' = roleClients \cup {<<c, r>>}
    /\ Kick({c})
    /\ UNCHANGED <<objects, groupRoles, roleGroups, groupClients, clientGroups, acls, anonymous,
                   disabled, credentials>>
    /\ ConfigSave

(* removeClientRole: the role's list is looked at when the client's had it.*)
RemoveClientRole(c, r) ==
    /\ c \in clients /\ r \in roles
    /\ clientRoles' = clientRoles \ {<<c, r>>}
    /\ roleClients' = IF <<c, r>> \in clientRoles THEN roleClients \ {<<c, r>>} ELSE roleClients
    /\ Kick({c})
    /\ UNCHANGED <<objects, groupRoles, roleGroups, groupClients, clientGroups, acls, anonymous,
                   disabled, credentials>>
    /\ ConfigSave
-----------------------------------------------------------------------------
(* createGroup: the roles of the command enter the list of the group alone.*)
CreateGroup(g, rs) ==
    /\ g \notin groups
    /\ rs \subseteq roles
    /\ groups' = groups \cup {g}
    /\ groupRoles' = groupRoles \cup ({g} \X rs)
    /\ UNCHANGED <<clients, roles, clientRoles, roleClients, roleGroups, groupClients,
                   clientGroups, acls, anonymous, disabled, credentials, online>>
    /\ ConfigSave

(* Fault: the roles keep the group, as before version 2.0.6.               *)
DeleteGroupFirst(g) ==
    /\ g \in groups
    /\ Kick(GroupUsers(g))
    /\ groups' = groups \ {g}
    /\ groupRoles' = {p \in groupRoles : p[1] # g}
    /\ clientGroups' = clientGroups \ {p \in groupClients : p[2] = g}
    /\ groupClients' = {p \in groupClients : p[2] # g}
    /\ UNCHANGED <<clients, roles, clientRoles, roleClients, roleGroups, acls, anonymous, disabled,
                   credentials>>
    /\ ConfigSave

(* deleteGroup.  dynsec_anonymous_group is not looked at.                  *)
DeleteGroup(g) ==
    /\ g \in groups
    /\ Plain => g # anonymous
    /\ Kick(GroupUsers(g))
    /\ groups' = groups \ {g}
    /\ roleGroups' = roleGroups \ {p \in groupRoles : p[1] = g}
    /\ groupRoles' = {p \in groupRoles : p[1] # g}
    /\ clientGroups' = clientGroups \ {p \in groupClients : p[2] = g}
    /\ groupClients' = {p \in groupClients : p[2] # g}
    /\ UNCHANGED <<clients, roles, clientRoles, roleClients, acls, anonymous, disabled,
                   credentials>>
    /\ ConfigSave

(* addGroupRole, removeGroupRole.                                          *)
AddGroupRole(g, r) ==
    /\ g \in groups /\ r \in roles /\ <<g, r>> \notin groupRoles
    /\ groupRoles' = groupRoles \cup {<<g, r>>}
    /\ roleGroups' = roleGroups \cup {<<g, r>>}
    /\ Kick(GroupUsers(g))
    /\ UNCHANGED <<objects, clientRoles, roleClients, groupClients, clientGroups, acls, anonymous,
                   disabled, credentials>>
    /\ ConfigSave

RemoveGroupRole(g, r) ==
    /\ g \in groups /\ r \in roles
    /\ groupRoles' = groupRoles \ {<<g, r>>}
    /\ roleGroups' = roleGroups \ {<<g, r>>}
    /\ Kick(GroupUsers(g))
    /\ UNCHANGED <<objects, clientRoles, roleClients, groupClients, clientGroups, acls, anonymous,
                   disabled, credentials>>
    /\ ConfigSave

(* addGroupClient, which disconnects the client in any case.               *)
AddGroupClient(g, c) ==
    /\ g \in groups /\ c \in clients
    /\ groupClients' = groupClients \cup {<<c, g>>}
    /\ clientGroups' = IF <<c, g>> \in groupClients THEN clientGroups
                       ELSE clientGroups \cup {<<c, g>>}
    /\ Kick({c})
    /\ UNCHANGED <<objects, clientRoles, roleClients, groupRoles, roleGroups, acls, anonymous,
                   disabled, credentials>>
    /\ IF <<c, g>> \in groupClients THEN NotSaved ELSE ConfigSave

(* Fault: the new lists are not saved.                                     *)
RemoveGroupClientUnsaved(g, c) ==
    /\ g \in groups /\ c \in clients
    /\ groupClients' = groupClients \ {<<c, g>>}
    /\ clientGroups' = clientGroups \ {<<c, g>>}
    /\ Kick({c})
    /\ UNCHANGED <<objects, clientRoles, roleClients, groupRoles, roleGroups, acls, anonymous,
                   disabled, credentials>>
    /\ NotSaved

(* removeGroupClient.                                                      *)
RemoveGroupClient(g, c) ==
    /\ g \in groups /\ c \in clients
    /\ groupClients' = groupClients \ {<<c, g>>}
    /\ clientGroups' = clientGroups \ {<<c, g>>}
    /\ Kick({c})
    /\ UNCHANGED <<objects, clientRoles, roleClients, groupRoles, roleGroups, acls, anonymous,
                   disabled, credentials>>
    /\ ConfigSave

(* modifyGroup: a list of roles replaces the list of the group, and that   *)
(* of no role; a list of clients replaces the members, both ways; who is   *)
(* a member then is disconnected.                                          *)
ModifyGroup(g, rs, cs) ==
    /\ g \in groups
    /\ \/ rs = None /\ UNCHANGED groupRoles
       \/ /\ rs # None /\ rs \subseteq roles
          /\ groupRoles' = {p \in groupRoles : p[1] # g} \cup ({g} \X rs)
    /\ \/ cs = None /\ UNCHANGED <<clientGroups, groupClients>>
       \/ /\ cs # None
          /\ clientGroups' = (clientGroups \ {p \in groupClients : p[2] = g})
                                 \cup ((cs \cap clients) \X {g})
          /\ groupClients' = {p \in groupClients : p[2] # g} \cup ((cs \cap clients) \X {g})
    /\ Kick({c \in Clients : <<c, g>> \in groupClients'} \cup (GroupUsers(g) \cap {Anon}))
    /\ UNCHANGED <<objects, clientRoles, roleClients, roleGroups, acls, anonymous, disabled,
                   credentials>>
    /\ ConfigSave

(* setAnonymousGroup.                                                      *)
SetAnonymousGroup(g) ==
    /\ g \in groups
    /\ anonymous' = g
    /\ Kick({Anon})
    /\ UNCHANGED <<objects, links, acls, disabled, credentials>>
    /\ ConfigSave
-----------------------------------------------------------------------------
(* createRole.                                                             *)
CreateRole(r, as) ==
    /\ r \notin roles
    /\ roles' = roles \cup {r}
    /\ acls' = acls \cup ({r} \X as)
    /\ UNCHANGED <<clients, groups, links, anonymous, disabled, credentials, online>>
    /\ ConfigSave

(* Fault: the members of the role's groups stay connected.                 *)
DeleteRoleQuietly(r) ==
    /\ r \in roles
    /\ Kick({c \in Clients : <<c, r>> \in roleClients})
    /\ clientRoles' = clientRoles \ {p \in roleClients : p[2] = r}
    /\ roleClients' = {p \in roleClients : p[2] # r}
    /\ groupRoles' = groupRoles \ {p \in roleGroups : p[2] = r}
    /\ roleGroups' = {p \in roleGroups : p[2] # r}
    /\ roles' = roles \ {r}
    /\ acls' = {p \in acls : p[1] # r}
    /\ UNCHANGED <<clients, groups, groupClients, clientGroups, anonymous, disabled, credentials>>
    /\ ConfigSave

(* deleteRole: whom it is taken from are those in the lists of the role.   *)
DeleteRole(r) ==
    /\ r \in roles
    /\ Kick(RoleUsers(r))
    /\ clientRoles' = clientRoles \ {p \in roleClients : p[2] = r}
    /\ roleClients' = {p \in roleClients : p[2] # r}
    /\ groupRoles' = groupRoles \ {p \in roleGroups : p[2] = r}
    /\ roleGroups' = {p \in roleGroups : p[2] # r}
    /\ roles' = roles \ {r}
    /\ acls' = {p \in acls : p[1] # r}
    /\ UNCHANGED <<clients, groups, groupClients, clientGroups, anonymous, disabled, credentials>>
    /\ ConfigSave

(* addRoleACL, removeRoleACL.                                              *)
AddRoleAcl(r, a) ==
    /\ r \in roles /\ <<r, a>> \notin acls
    /\ acls' = acls \cup {<<r, a>>}
    /\ Kick(RoleUsers(r))
    /\ UNCHANGED <<objects, links, anonymous, disabled, credentials>>
    /\ ConfigSave

RemoveRoleAcl(r, a) ==
    /\ r \in roles /\ <<r, a>> \in acls
    /\ acls' = acls \ {<<r, a>>}
    /\ Kick(RoleUsers(r))
    /\ UNCHANGED <<objects, links, anonymous, disabled, credentials>>
    /\ ConfigSave

(* modifyRole: nobody is disconnected.                                     *)
ModifyRole(r, as) ==
    /\ r \in roles
    /\ acls' = {p \in acls : p[1] # r} \cup ({r} \X as)
    /\ UNCHANGED <<objects, links, anonymous, disabled, credentials, online>>
    /\ ConfigSave

(* The broker stops, or is killed, and starts: dynsec__config_load reads   *)
(* roles, clients and groups and links what exists, both ways.             *)
Restart ==
    LET client_roles == file.clientRoles \cap (file.clients \X file.roles)
        group_roles == file.groupRoles \cap (file.groups \X file.roles)
        members == file.groupClients \cap (file.clients \X file.groups)
    IN  /\ clients' = file.clients /\ groups' = file.groups /\ roles' = file.roles
        /\ clientRoles' = client_roles /\ roleClients' = client_roles
        /\ groupRoles' = group_roles /\ roleGroups' = group_roles
        /\ groupClients' = members /\ clientGroups' = members
        /\ acls' = file.acls /\ disabled' = file.disabled /\ credentials' = file.credentials
        /\ anonymous' = IF file.anonymous \in file.groups THEN file.anonymous ELSE None
        /\ online' = {} /\ unsaved' = {}
        /\ UNCHANGED file

(* The broker is killed while a command saves, and starts: the file is     *)
(* empty, or breaks off before its last bracket and is not JSON.  The      *)
(* error of dynsec__config_load is ignored, and the plugin has nothing.    *)
KillInSave ==
    /\ clients' = {} /\ groups' = {} /\ roles' = {}
    /\ clientRoles' = {} /\ roleClients' = {} /\ groupRoles' = {} /\ roleGroups' = {}
    /\ groupClients' = {} /\ clientGroups' = {}
    /\ acls' = {} /\ anonymous' = None /\ disabled' = {} /\ online' = {}
    /\ credentials' = [c \in Clients |-> None]
    /\ file' = Config' /\ unsaved' = {}

ClientCommand ==
    \E c \in Clients :
        \/ \E k \in Credentials, gs \in SUBSET Groups, complete \in {TRUE, Plain},
              rs \in (IF Plain THEN {{}} ELSE SUBSET Roles) : CreateClient(c, k, rs, gs, complete)
        \/ DeleteClient(c) \/ DisableClient(c) \/ EnableClient(c)
        \/ \E k \in Credentials : SetCredentials(c, k) \/ ModifyClientFails(c, k)
        \/ \E k \in Credentials, rs \in (SUBSET Roles) \cup {None},
              gs \in (SUBSET Groups) \cup {None} : ModifyClient(c, k, rs, gs)
        \/ \E r \in Roles : AddClientRole(c, r) \/ RemoveClientRole(c, r)

GroupCommand ==
    \E g \in Groups :
        \/ \E rs \in (IF Plain THEN {{}} ELSE SUBSET Roles) : CreateGroup(g, rs)
        \/ DeleteGroup(g) \/ SetAnonymousGroup(g)
        \/ \E r \in Roles : AddGroupRole(g, r) \/ RemoveGroupRole(g, r)
        \/ \E c \in Clients : AddGroupClient(g, c) \/ RemoveGroupClient(g, c)
        \/ \E rs \in (IF Plain THEN {None} ELSE (SUBSET Roles) \cup {None}),
              cs \in (SUBSET Clients) \cup {None} : ModifyGroup(g, rs, cs)
        \/ ModifyGroupFails(g)

RoleCommand ==
    \E r \in Roles :
        \/ \E as \in SUBSET Acls : CreateRole(r, as) \/ ModifyRole(r, as)
        \/ DeleteRole(r)
        \/ \E a \in Acls : AddRoleAcl(r, a) \/ RemoveRoleAcl(r, a)

Next ==
    \/ \E u \in Clients \cup {Anon} : Connect(u)
    \/ ClientCommand \/ GroupCommand \/ RoleCommand
    \/ Restart \/ KillInSave

Spec == Init /\ [][Next]_vars
-----------------------------------------------------------------------------
(* The two ends of every link agree, and both exist: no list holds a       *)
(* pointer to what has been freed, whatever was deleted in which order.    *)
(* (dynsec_rolelist__client_remove, dynsec_grouplist__remove and           *)
(* dynsec__remove_all_clients_from_group clean up from one end.)           *)
LinksAgree ==
    /\ clientRoles = roleClients /\ clientRoles \subseteq clients \X roles
    /\ groupRoles = roleGroups /\ groupRoles \subseteq groups \X roles
    /\ groupClients = clientGroups /\ groupClients \subseteq clients \X groups
    /\ acls \subseteq roles \X Acls /\ disabled \subseteq clients
    /\ anonymous \in groups \cup {None}

(* Between two commands the file says what the plugin knows: a broker that *)
(* is killed then comes back with the same clients, groups, roles and      *)
(* links, and the same credentials but of the clients for which a          *)
(* modifyClient failed after the last command that saved.                  *)
(* (dynsec__config_save in every command, dynsec__config_load.)            *)
FileExact ==
    /\ file = [Config EXCEPT !.credentials = file.credentials]
    /\ \A c \in Clients \ unsaved : file.credentials[c] = credentials[c]

\* The roles of a user: its own, and those of its groups.
Has(u, r) ==
    \/ <<u, r>> \in clientRoles
    \/ \E g \in Groups : /\ <<g, r>> \in groupRoles
                         /\ <<u, g>> \in clientGroups \/ (u = Anon /\ g = anonymous)

\* What a user may do.
Rights(u) == {p \in acls : Has(u, p[1])}

Unenforced ==
    \/ \E g \in Groups, cs \in SUBSET Clients : ModifyGroup(g, None, cs)
    \/ \E r \in Roles, as \in SUBSET Acls : ModifyRole(r, as)

(* A client whose rights change is disconnected by the command that        *)
(* changes them, wherever the change comes from: its own roles, its        *)
(* groups, a role of its groups, the anonymous group.  ("Enforce any       *)
(* changes", group__kick_all and role__kick_all; modifyRole and the list   *)
(* of clients of modifyGroup do not do so.)                                *)
RightsEnforced ==
    [][(\A u \in online \cap online' : Rights(u)' = Rights(u)) \/ Unenforced]_vars
=============================================================================
