----------------------------- MODULE MCServices -----------------------------
(***************************************************************************)
(* Accounts, BrowserSession, McpSessions, HarnessEnvironment and            *)
(* AgentConfigs for TLC.  They share no state, and are checked side by      *)
(* side: `part` says which of them a behaviour is of.                       *)
(***************************************************************************)
EXTENDS Accounts, BrowserSession, McpSessions, HarnessEnvironment, AgentConfigs, TLC

CONSTANTS r1, r2, boss, ann, bob, g1, u1, u2, u3, n1, n2, p1

VARIABLE part

accountsRest == <<browserVars, mcpVars, harnessVars, agentVars, part>>
browserRest == <<accountVars, mcpVars, harnessVars, agentVars, part>>
mcpRest == <<accountVars, browserVars, harnessVars, agentVars, part>>
harnessRest == <<accountVars, browserVars, mcpVars, agentVars, part>>
agentsRest == <<accountVars, browserVars, mcpVars, harnessVars, part>>
vars == <<accountVars, browserVars, mcpVars, harnessVars, agentVars, part>>

\* What does not change in the other parts has one initial value there.
Init ==
    /\ part \in {"accounts", "browser", "mcp", "harness", "agents"}
    /\ AccountsInit /\ BrowserInit /\ McpInit /\ HarnessInit /\ AgentsInit
    /\ part # "browser" => role = [u \in Users |-> "member"]
    /\ part # "mcp" => authEnabled
    /\ part # "agents" => file = [t \in Agents |-> Empty]

Next ==
    \/ part = "accounts" /\ AccountsNext /\ UNCHANGED accountsRest
    \/ part = "browser" /\ BrowserNext /\ UNCHANGED browserRest
    \/ part = "mcp" /\ McpNext /\ UNCHANGED mcpRest
    \/ part = "harness" /\ HarnessNext /\ UNCHANGED harnessRest
    \/ part = "agents" /\ AgentsNext /\ UNCHANGED agentsRest

Spec == Init /\ [][Next]_vars

\* Every variable of every part has its type.
TypeOK ==
    /\ AccountsTypeOK /\ BrowserTypeOK /\ McpTypeOK
    /\ HarnessTypeOK /\ AgentsTypeOK

\* Slots and identifiers are interchangeable.
Symmetry == Permutations(Requests) \cup Permutations(UserIds) \cup Permutations(InvitationIds)

=============================================================================
