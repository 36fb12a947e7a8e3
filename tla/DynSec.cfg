CONSTANTS
    Clients = {c1, c2}
    Groups = {g1}
    Roles = {r1, r2}
    Acls = {a1}
    Credentials = {k1, k2}
    None = None
    Anon = Anon
    Plain = TRUE
SYMMETRY Alike
SPECIFICATION Spec
INVARIANTS
    LinksAgree
    FileExact
PROPERTIES
    RightsEnforced
