SPECIFICATION Spec
CONSTANTS
    r1 = r1
    r2 = r2
    boss = boss
    ann = ann
    bob = bob
    g1 = g1
    u1 = u1
    u2 = u2
    u3 = u3
    n1 = n1
    n2 = n2
    p1 = p1
    NoUser = NoUser
    Nobody = Nobody
    NoSession = NoSession
    Requests = {r1, r2}
    Emails = {boss, ann}
    Guests = {ann}
    Boss = boss
    Subjects = {g1}
    UserIds = {u1, u2, u3}
    InvitationIds = {n1, n2}
    Calls = {r1, r2}
    Users = {ann, bob}
    Changing = {ann}
    AutoLogin = bob
    ToolCalls = {r1, r2}
    People = {n1, n2}
    SessionIds = {u1, u2, u3}
    Commands = {p1}
    Faults = {"load", "copy", "compose", "down", "record", "restore", "clear", "kill"}
    Agents = {ann, bob}
    Settings = {g1}
    Servers = {p1}
SYMMETRY Symmetry
INVARIANTS
    TypeOK CredentialsNameAccounts CookiesAgree LoggedOutStaysOut
    SessionsAgree OriginalIsKept AgentFilesAgree
PROPERTIES
    AcceptanceIsAJoin GuestListRefined
