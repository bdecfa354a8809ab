----------------------------- MODULE McpSessions -----------------------------
(***************************************************************************)
(* The tools of the MCP server (backend/mcp): each call is one transaction  *)
(* that finds or creates the caller's row, opens or continues a session,    *)
(* works, and records the call; it answers after the commit.                *)
(***************************************************************************)
CONSTANTS
    ToolCalls,      \* slots for calls in flight
    People,         \* subjects of the identity provider
    SessionIds,
    Nobody,         \* the caller when authentication is off
    NoSession       \* no session id, and the owner of no session

ASSUME McpAssumption ==
    /\ Nobody \notin People /\ NoSession \notin People /\ Nobody # NoSession
    /\ NoSession \notin SessionIds

VARIABLES
    authEnabled,    \* mcp.auth_enabled of the running server
    knownUsers,     \* mcp_users rows, by subject
    owner,          \* mcp_sessions rows: mcp_user_id, or NoSession for no row
    recorded,       \* mcp_tool_calls rows: [session, by]
    handed,         \* [session, to]: the session ids that clients were given
    tool            \* the calls in flight

mcpVars == <<authEnabled, knownUsers, owner, recorded, handed, tool>>

Callers == People \cup {Nobody}

IdleCall ==
    [at |-> "idle", by |-> Nobody, asked |-> NoSession, session |-> NoSession,
     newUser |-> FALSE]

McpTypeOK ==
    /\ authEnabled \in BOOLEAN
    /\ knownUsers \subseteq People
    /\ owner \in [SessionIds -> Callers \cup {NoSession}]
    /\ recorded \subseteq [session : SessionIds, by : Callers]
    /\ handed \subseteq [session : SessionIds, to : Callers]
    /\ tool \in [ToolCalls ->
          [at : {"idle", "lookup", "upsert", "session", "work", "record", "commit"},
           by : Callers, asked : SessionIds \cup {NoSession},
           session : SessionIds \cup {NoSession}, newUser : BOOLEAN]]

McpInit ==
    /\ authEnabled \in BOOLEAN
    /\ knownUsers = {}
    /\ owner = [s \in SessionIds |-> NoSession]
    /\ recorded = {} /\ handed = {}
    /\ tool = [c \in ToolCalls |-> IdleCall]

mcpTables == <<authEnabled, knownUsers, owner, recorded, handed>>

At(c, state) == tool[c].at = state

Step(c, next) == tool' = [tool EXCEPT ![c] = next] /\ UNCHANGED mcpTables

\* An exception leaves `async with database.async_session()`: all is undone.
Fail(c) == ~At(c, "idle") /\ Step(c, IdleCall)

\* workspace_auth_check has let the caller in, or authentication is off.  A
\* client may name any session id.
Begin(c) ==
    /\ At(c, "idle")
    /\ \E by \in IF authEnabled THEN People ELSE {Nobody},
          asked \in SessionIds \cup {NoSession} :
          Step(c, [IdleCall EXCEPT
                      !.at = IF authEnabled THEN "lookup" ELSE "session",
                      !.by = by, !.asked = asked])

\* resolve_mcp_user: a select, then an insert or an update, which waits for the
\* transaction of another call of the same person.
Lookup(c) ==
    /\ At(c, "lookup")
    /\ Step(c, [tool[c] EXCEPT !.at = "upsert", !.newUser = tool[c].by \notin knownUsers])

HoldsUserRow(c) == tool[c].at \in {"session", "work", "record", "commit"}

Upsert(c) ==
    /\ At(c, "upsert")
    /\ \A d \in ToolCalls \ {c} : tool[d].by = tool[c].by => ~HoldsUserRow(d)
    /\ Step(c, IF tool[c].newUser /\ tool[c].by \in knownUsers
               THEN IdleCall        \* uq_mcp_user_provider_subject
               ELSE [tool[c] EXCEPT !.at = "session"])

\* Mutant: a session that exists is open to everybody.
OpenAnySession(c) ==
    /\ At(c, "session")
    /\ LET taken == {tool[d].session : d \in ToolCalls}
           asked == tool[c].asked IN
       IF asked = NoSession
       THEN \E s \in SessionIds \ taken :
               /\ owner[s] = NoSession
               /\ Step(c, [tool[c] EXCEPT !.at = "work", !.session = s])
       ELSE IF owner[asked] # NoSession
       THEN Step(c, [tool[c] EXCEPT !.at = "work", !.session = asked])
       ELSE Fail(c)

\* get_mcp_session: a new session, or one that is the caller's.
OpenSession(c) ==
    /\ At(c, "session")
    /\ LET taken == {tool[d].session : d \in ToolCalls}
           asked == tool[c].asked IN
       IF asked = NoSession
       THEN \E s \in SessionIds \ taken :
               /\ owner[s] = NoSession
               /\ Step(c, [tool[c] EXCEPT !.at = "work", !.session = s])
       ELSE IF owner[asked] = tool[c].by
       THEN Step(c, [tool[c] EXCEPT !.at = "work", !.session = asked])
       ELSE Fail(c)                 \* McpSessionAccessDeniedException

\* list_knowledge_bases, search or fetch_file; a failure is Fail.
Work(c) == At(c, "work") /\ Step(c, [tool[c] EXCEPT !.at = "record"])

\* record_mcp_tool_call; a knowledge base deleted meanwhile is Fail.
Record(c) == At(c, "record") /\ Step(c, [tool[c] EXCEPT !.at = "commit"])

CommitCall(c) ==
    /\ At(c, "commit")
    /\ LET t == tool[c] IN
       /\ knownUsers' = knownUsers \cup ({t.by} \ {Nobody})
       /\ owner' = [owner EXCEPT ![t.session] = t.by]
       /\ recorded' = recorded \cup {[session |-> t.session, by |-> t.by]}
       /\ handed' = handed \cup {[session |-> t.session, to |-> t.by]}
    /\ tool' = [tool EXCEPT ![c] = IdleCall]
    /\ UNCHANGED authEnabled

\* A new deployment may switch authentication on or off over the same tables.
Redeploy ==
    /\ \A c \in ToolCalls : At(c, "idle")
    /\ authEnabled' = ~authEnabled
    /\ UNCHANGED <<knownUsers, owner, recorded, handed, tool>>

McpNext ==
    \/ \E c \in ToolCalls :
          \/ Begin(c) \/ Lookup(c) \/ Upsert(c) \/ OpenSession(c)
          \/ Work(c) \/ Record(c) \/ CommitCall(c) \/ Fail(c)
    \/ Redeploy

McpSpec == McpInit /\ [][McpNext]_mcpVars

-----------------------------------------------------------------------------
(* Properties *)

\* Whoever has used a session owns it, also across redeployments that switch
\* authentication on or off, and when several calls open sessions at once.
SessionsAreOwned == \A r \in recorded : owner[r.session] = r.by

\* A client is given no session id that it cannot go on with: the id was
\* committed before the answer, and is its own.
HandedSessionsAreOpen == \A h \in handed : owner[h.session] = h.to

\* A call that fails leaves nothing: every session row has a recorded call, and
\* belongs to a known user or to nobody.
SessionsAreUsed ==
    \A s \in SessionIds : owner[s] # NoSession =>
        /\ \E r \in recorded : r.session = s
        /\ owner[s] \in knownUsers \cup {Nobody}

\* The table of sessions, the record of calls and what clients hold agree.
SessionsAgree == SessionsAreOwned /\ HandedSessionsAreOpen /\ SessionsAreUsed

(* Why: a call at work has a session of its own, or one that only it has *)

AtWork(c) == tool[c].at \in {"work", "record", "commit"}

SessionReserved(c) ==
    LET s == tool[c].session IN
    /\ s \in SessionIds
    /\ owner[s] \in {NoSession, tool[c].by}
    /\ owner[s] = NoSession => \A d \in ToolCalls \ {c} : tool[d].session # s

McpInvariant == SessionsAgree /\ \A c \in ToolCalls : AtWork(c) => SessionReserved(c)

=============================================================================
