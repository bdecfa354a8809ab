--------------------------- MODULE ServicesProofs ---------------------------
(***************************************************************************)
(* Proofs about BrowserSession and McpSessions, for every number of         *)
(* requests, accounts and sessions; AgentConfigs, for every number of       *)
(* agents; and HarnessEnvironment, for one command at a time under every    *)
(* fault but a kill between saving the original and recording the state.    *)
(* Then about all that MCServices runs side by side: the parts behave in it *)
(* as they do on their own, so that what is proved about each of them holds *)
(* there.                                                                   *)
(***************************************************************************)
EXTENDS MCServices, AccountsProofs

(* The cookies of a browser *)

LEMMA Constants ==
  /\ NoToken \in Tokens /\ FreeCall \in CallRecords
  /\ NoToken.user = NoUser
  /\ \A u \in Users \cup {NoUser}, r \in UserRoles : [user |-> u, role |-> r] \in Tokens
BY DEF NoToken, Tokens, FreeCall, CallRecords, UserRoles, Kinds, SignIns, Pages

\* What a handler may answer: nothing, tokens of an account, or the end of the
\* session; and who it may be, once the browser is signed out.
AnswerGiven(c) ==
    /\ call' = [call EXCEPT ![c] = call'[c]]
    /\ call'[c] \in CallRecords
    /\ call'[c].state = "answered"
    /\ call'[c].access = NoToken /\ call'[c].refresh = NoUser
    /\ call'[c].set # NoToken => call'[c].set.user # NoUser
    /\ signedOut => call'[c].set.user \in Outsiders

LEMMA AnswerIsGiven ==
  ASSUME BrowserTypeOK, NEW c \in Calls, NEW as \in Users \cup {NoUser},
         NEW set \in Tokens, Answer(c, as, set),
         set # NoToken => set.user # NoUser,
         signedOut => set.user \in Outsiders
  PROVE  AnswerGiven(c)
<1>1. call[c].kind \in Kinds
  BY DEF BrowserTypeOK, CallRecords
<1>2. call'[c] = [FreeCall EXCEPT !.kind = call[c].kind, !.state = "answered",
                                  !.as = as, !.set = set]
  BY DEF BrowserTypeOK, Answer
<1>3. call' = [call EXCEPT ![c] = call'[c]]
  BY <1>2 DEF BrowserTypeOK, Answer
<1> QED
  BY <1>1, <1>2, <1>3, Constants DEF AnswerGiven, FreeCall, CallRecords

LEMMA TokensAreIssued ==
  ASSUME BrowserTypeOK, NEW u \in Users
  PROVE  Issue(u) \in Tokens /\ Issue(u).user = u
BY DEF BrowserTypeOK, Issue, Tokens

LEMMA HandlersAnswer ==
  ASSUME BrowserTypeOK, BrowserInvariant, NEW c \in Calls, Handle(c)
  PROVE  AnswerGiven(c) /\ account' \in [Users -> {"absent", "active", "inactive", "deleted"}]
                        /\ uncommitted' \subseteq Users
<1>1. /\ call[c].user \in Users \cup {NoUser} /\ call[c].refresh \in Users \cup {NoUser}
      /\ call[c].access.user \in Users \cup {NoUser}
      /\ AutoLogin \in Users \cup {NoUser} /\ NoUser \notin Users
      /\ call[c].state = "sent"
  BY BrowserAssumption DEF BrowserTypeOK, CallRecords, Tokens, Handle
<1>2. ASSUME Refused(c)
      PROVE  AnswerGiven(c)
  BY <1>1, <1>2, AnswerIsGiven, Constants DEF Refused, Outsiders
<1>3. ASSUME NEW u \in Users, Answer(c, u, Issue(u)), signedOut => u \in Outsiders
      PROVE  AnswerGiven(c)
  BY <1>1, <1>3, AnswerIsGiven, TokensAreIssued
<1>4. ASSUME call[c].kind \in SignIns
      PROVE  call[c].user \in Users /\ ~signedOut
  BY <1>1, <1>4 DEF BrowserInvariant
<1>5. CASE Authenticate(c)
  <2>1. PICK accessValid \in BOOLEAN, refreshValid \in BOOLEAN, ownResponse \in BOOLEAN :
           LET u == Caller(c, accessValid, refreshValid) IN
           IF u = NoUser \/ (call[c].kind = "admin" /\ role[u] # "admin")
           THEN Refused(c)
           ELSE Answer(c, u, IF Heals(c, accessValid) /\ ~ownResponse
                             THEN Issue(u) ELSE NoToken)
    BY <1>5 DEF Authenticate
  <2> DEFINE u == Caller(c, accessValid, refreshValid)
  <2>2. u \in Users \cup {NoUser}
    BY <1>1 DEF Caller
  <2>3. Heals(c, accessValid) => u \in {call[c].refresh, AutoLogin, NoUser}
    BY DEF Caller, Heals
  <2>4. signedOut /\ Heals(c, accessValid) => u \in Outsiders
    BY <1>1, <2>3 DEF BrowserInvariant, Outsiders
  <2>5. CASE Refused(c)
    BY <1>2, <1>5, <2>5 DEF Authenticate, BrowserTypeOK
  <2>6. CASE u # NoUser /\ Answer(c, u, Issue(u)) /\ Heals(c, accessValid)
    BY <1>3, <1>5, <2>2, <2>4, <2>6 DEF Authenticate, BrowserTypeOK
  <2>7. CASE Answer(c, u, NoToken)
    <3>1. AnswerGiven(c)
      BY <2>2, <2>7, AnswerIsGiven, Constants DEF Outsiders
    <3> QED
      BY <1>5, <3>1 DEF Authenticate, BrowserTypeOK
  <2> HIDE DEF u
  <2> QED
    BY <2>1, <2>5, <2>6, <2>7 DEF u
<1>6. CASE Login(c)
  BY <1>2, <1>3, <1>4, <1>6 DEF Login, SignIns, BrowserTypeOK
<1>7. CASE Callback(c)
  BY <1>2, <1>3, <1>4, <1>7 DEF Callback, SignIns, BrowserTypeOK
<1>8. CASE Register(c)
  BY <1>2, <1>3, <1>4, <1>8 DEF Register, SignIns, BrowserTypeOK
<1>9. CASE DevLogin(c)
  BY <1>2, <1>3, <1>4, <1>9 DEF DevLogin, SignIns, BrowserTypeOK
<1>10. CASE Logout(c)
  <2>1. call'[c] = [FreeCall EXCEPT !.kind = "logout", !.state = "answered", !.clear = TRUE]
    BY <1>10 DEF Logout, BrowserTypeOK
  <2>2. call' = [call EXCEPT ![c] = call'[c]]
    BY <1>10, <2>1 DEF Logout, BrowserTypeOK
  <2>3. call'[c] \in CallRecords /\ call'[c].set = NoToken /\ call'[c].state = "answered"
        /\ call'[c].access = NoToken /\ call'[c].refresh = NoUser
    BY <2>1, Constants DEF FreeCall, CallRecords, Kinds
  <2> QED
    BY <1>10, <2>2, <2>3, Constants DEF Logout, AnswerGiven, Outsiders, BrowserTypeOK
<1>11. CASE Refresh(c)
  BY <1>2, <1>11 DEF Refresh, BrowserTypeOK
<1> QED
  BY <1>5, <1>6, <1>7, <1>8, <1>9, <1>10, <1>11 DEF Handle

LEMMA BrowserStep ==
  ASSUME BrowserTypeOK, BrowserInvariant, [BrowserNext]_browserVars
  PROVE  BrowserTypeOK' /\ BrowserInvariant'
<1>0. NoUser \notin Users /\ AutoLogin \in Users \cup {NoUser} /\ Changing \subseteq Users
  BY BrowserAssumption
<1>1. ASSUME NEW c \in Calls, NEW kind \in Kinds, NEW u \in Users \cup {NoUser},
             Send(c, kind, u)
      PROVE  BrowserTypeOK' /\ BrowserInvariant'
  <2> DEFINE new == [FreeCall EXCEPT
                        !.kind = kind, !.user = u, !.state = "sent",
                        !.access = IF kind \in Pages \cup {"bearer"} THEN access ELSE @,
                        !.refresh = IF kind \in Pages \cup {"refresh"} THEN refresh ELSE @]
  <2>1. /\ new.kind = kind /\ new.user = u /\ new.state = "sent" /\ new.set = NoToken
        /\ new.access \in {access, NoToken} /\ new.refresh \in {refresh, NoUser}
    BY DEF FreeCall
  <2>2. new \in CallRecords
    <3>1. new.access \in Tokens /\ new.refresh \in Users \cup {NoUser}
      BY <2>1, Constants DEF BrowserTypeOK
    <3>2. NoToken \in Tokens
      BY Constants
    <3> QED
      BY <3>1, <3>2 DEF FreeCall, CallRecords
  <2> HIDE DEF new
  <2>3. call' = [call EXCEPT ![c] = new]
    BY <1>1 DEF Send, new
  <2>4. BrowserTypeOK'
    BY <1>1, <2>2, <2>3 DEF Send, BrowserTypeOK
  <2>5. ASSUME NEW d \in Calls
        PROVE  /\ call'[d].state = "free" => call'[d] = FreeCall
               /\ call'[d].state = "sent" /\ call'[d].kind \in SignIns => call'[d].user # NoUser
               /\ call'[d].set # NoToken => call'[d].set.user # NoUser
               /\ signedOut' =>
                     /\ call'[d].state = "sent" => call'[d].kind \notin SignIns
                     /\ {call'[d].access.user, call'[d].refresh, call'[d].set.user} \subseteq Outsiders
    <3>1. CASE d = c
      <4>1. call'[d] = new
        BY <2>3, <3>1 DEF BrowserTypeOK
      <4> QED
        BY <1>1, <2>1, <4>1, Constants DEF Send, BrowserInvariant, LoggedOutStaysOut, Outsiders
    <3>2. CASE d # c
      <4>1. call'[d] = call[d] /\ (signedOut' => signedOut)
        BY <1>1, <2>3, <3>2 DEF BrowserTypeOK, Send
      <4> QED
        BY <4>1 DEF BrowserInvariant
    <3> QED
      BY <3>1, <3>2
  <2> QED
    BY <1>1, <2>4, <2>5 DEF Send, BrowserInvariant, CookiesAgree, LoggedOutStaysOut
<1>2. ASSUME NEW c \in Calls, Handle(c)
      PROVE  BrowserTypeOK' /\ BrowserInvariant'
  <2>1. AnswerGiven(c) /\ account' \in [Users -> {"absent", "active", "inactive", "deleted"}]
                       /\ uncommitted' \subseteq Users
    BY <1>2, HandlersAnswer
  <2>2. BrowserTypeOK'
    BY <1>2, <2>1 DEF Handle, AnswerGiven, BrowserTypeOK
  <2>3. \A d \in Calls \ {c} : call'[d] = call[d]
    BY <2>1 DEF AnswerGiven, BrowserTypeOK
  <2> QED
    BY <1>2, <2>1, <2>2, <2>3, Constants
       DEF Handle, AnswerGiven, BrowserInvariant, CookiesAgree, LoggedOutStaysOut, Outsiders
<1>3. ASSUME NEW c \in Calls, Receive(c)
      PROVE  BrowserTypeOK' /\ BrowserInvariant'
  <2>1. call[c] \in CallRecords /\ call[c].set \in Tokens
        /\ call[c].set.user \in Users \cup {NoUser} /\ call[c].clear \in BOOLEAN
    BY DEF BrowserTypeOK, CallRecords, Tokens
  <2>2. call'[c] = FreeCall /\ \A d \in Calls \ {c} : call'[d] = call[d]
    BY <1>3 DEF Receive, BrowserTypeOK
  <2>3. access' \in Tokens /\ refresh' \in Users \cup {NoUser} /\ signedOut' \in BOOLEAN
    BY <1>3, <2>1, Constants DEF Receive, BrowserTypeOK
  <2>4. BrowserTypeOK'
    BY <1>3, <2>3, Constants DEF Receive, BrowserTypeOK
  <2>5. CookiesAgree'
    BY <1>3, Constants DEF Receive, CookiesAgree, BrowserInvariant
  <2>6. LoggedOutStaysOut'
    <3>1. CASE call[c].clear
      BY <1>3, <3>1, Constants DEF Receive, LoggedOutStaysOut
    <3>2. CASE ~call[c].clear
      <4>1. signedOut' => signedOut
        BY <1>3, <3>2, <2>1 DEF Receive, BrowserTypeOK
      <4> QED
        BY <1>3, <3>2, <4>1 DEF Receive, LoggedOutStaysOut, BrowserInvariant, Outsiders
    <3> QED
      BY <3>1, <3>2
  <2>7. FreeCall.state = "free" /\ FreeCall.set = NoToken /\ FreeCall.access = NoToken
        /\ FreeCall.refresh = NoUser
    BY DEF FreeCall
  <2>8. ASSUME NEW d \in Calls, d # c, signedOut'
        PROVE  /\ call[d].state = "sent" => call[d].kind \notin SignIns
               /\ {call[d].access.user, call[d].refresh, call[d].set.user} \subseteq Outsiders
    <3>1. signedOut \/ call[d].state = "free"
      BY <1>3, <2>8 DEF Receive
    <3> QED
      BY <2>7, <3>1, Constants DEF BrowserInvariant, Outsiders
  <2> QED
    BY <2>2, <2>4, <2>5, <2>6, <2>7, <2>8, Constants DEF BrowserInvariant, Outsiders
<1>4. ASSUME NEW u \in Users, CommitAccount(u) \/ LoseAccount(u)
      PROVE  BrowserTypeOK' /\ BrowserInvariant'
  BY <1>4 DEF CommitAccount, LoseAccount, BrowserTypeOK, BrowserInvariant,
              CookiesAgree, LoggedOutStaysOut
<1>5. ASSUME NEW u \in Changing, AccountChanges(u)
      PROVE  BrowserTypeOK' /\ BrowserInvariant'
  <2>1. account' \in [Users -> {"absent", "active", "inactive", "deleted"}]
        /\ role' \in [Users -> UserRoles]
    BY <1>0, <1>5 DEF AccountChanges, BrowserTypeOK, UserRoles
  <2> QED
    BY <1>5, <2>1 DEF AccountChanges, BrowserTypeOK, BrowserInvariant,
                      CookiesAgree, LoggedOutStaysOut
<1>6. CASE AccessCookieExpires
  BY <1>6, Constants DEF AccessCookieExpires, BrowserTypeOK, BrowserInvariant,
                         CookiesAgree, LoggedOutStaysOut
<1>7. CASE RefreshCookieExpires
  BY <1>7 DEF RefreshCookieExpires, BrowserTypeOK, BrowserInvariant,
              CookiesAgree, LoggedOutStaysOut
<1>8. CASE UNCHANGED browserVars
  BY <1>8 DEF browserVars, BrowserTypeOK, BrowserInvariant, CookiesAgree, LoggedOutStaysOut
<1> QED
  BY <1>1, <1>2, <1>3, <1>4, <1>5, <1>6, <1>7, <1>8 DEF BrowserNext

LEMMA BrowserInvariantHolds == BrowserSpec => [](BrowserTypeOK /\ BrowserInvariant)
<1>1. BrowserInit => BrowserTypeOK /\ BrowserInvariant
  <2> SUFFICES ASSUME BrowserInit
               PROVE  BrowserTypeOK /\ BrowserInvariant
    OBVIOUS
  <2>1. \A c \in Calls : call[c] = FreeCall
    BY DEF BrowserInit
  <2>2. BrowserTypeOK
    BY Constants DEF BrowserInit, BrowserTypeOK
  <2>3. FreeCall.state = "free" /\ FreeCall.set = NoToken
    BY DEF FreeCall
  <2> QED
    BY <2>1, <2>2, <2>3 DEF BrowserInit, BrowserInvariant, CookiesAgree, LoggedOutStaysOut
<1> QED
  BY <1>1, BrowserStep, PTL DEF BrowserSpec

\* Whatever the order of answers, the two cookies are of one account.
THEOREM CookiesStayTogether == BrowserSpec => []CookiesAgree
BY BrowserInvariantHolds, PTL DEF BrowserInvariant

\* A log-out that nothing was sent beside is final until the next sign-in.
THEOREM LogoutIsFinal == BrowserSpec => []LoggedOutStaysOut
BY BrowserInvariantHolds, PTL DEF BrowserInvariant

-----------------------------------------------------------------------------
(* The sessions of the MCP server *)

LEMMA Owners ==
  /\ NoSession \notin Callers /\ Nobody \in Callers /\ People \subseteq Callers
  /\ NoSession \notin SessionIds
BY McpAssumption DEF Callers

LEMMA McpTypeStep ==
  ASSUME McpTypeOK, McpInvariant, [McpNext]_mcpVars
  PROVE  McpTypeOK'
<1> DEFINE Records == [at : {"idle", "lookup", "upsert", "session", "work", "record", "commit"},
                       by : Callers, asked : SessionIds \cup {NoSession},
                       session : SessionIds \cup {NoSession}, newUser : BOOLEAN]
<1>1. IdleCall \in Records
  BY Owners DEF IdleCall
<1>2. ASSUME NEW c \in ToolCalls, NEW next \in Records, Step(c, next)
      PROVE  McpTypeOK'
  BY <1>2 DEF Step, mcpTables, McpTypeOK
<1>3. \A c \in ToolCalls : tool[c] \in Records
  BY DEF McpTypeOK
<1> HIDE DEF Records
<1>4. ASSUME NEW c \in ToolCalls, Begin(c)
      PROVE  McpTypeOK'
  <2>1. PICK by \in (IF authEnabled THEN People ELSE {Nobody}),
             asked \in SessionIds \cup {NoSession} :
                Step(c, [IdleCall EXCEPT
                            !.at = IF authEnabled THEN "lookup" ELSE "session",
                            !.by = by, !.asked = asked])
    BY <1>4 DEF Begin
  <2>2. by \in Callers
    BY Owners
  <2>3. [IdleCall EXCEPT !.at = IF authEnabled THEN "lookup" ELSE "session",
                         !.by = by, !.asked = asked] \in Records
    BY <1>1, <2>2 DEF Records, IdleCall
  <2> QED
    BY <1>2, <2>1, <2>3
<1>5. ASSUME NEW c \in ToolCalls, Lookup(c)
      PROVE  McpTypeOK'
  <2>1. [tool[c] EXCEPT !.at = "upsert", !.newUser = tool[c].by \notin knownUsers] \in Records
    BY <1>3 DEF Records
  <2> QED
    BY <1>2, <1>5, <2>1 DEF Lookup
<1>6. ASSUME NEW c \in ToolCalls, Upsert(c)
      PROVE  McpTypeOK'
  <2>1. [tool[c] EXCEPT !.at = "session"] \in Records
    BY <1>3 DEF Records
  <2> QED
    BY <1>1, <1>2, <1>6, <2>1 DEF Upsert
<1>7. ASSUME NEW c \in ToolCalls, OpenSession(c)
      PROVE  McpTypeOK'
  <2>1. \A s \in SessionIds \cup {NoSession} :
           [tool[c] EXCEPT !.at = "work", !.session = s] \in Records
    BY <1>3 DEF Records
  <2>2. tool[c].asked \in SessionIds \cup {NoSession}
    BY <1>3 DEF Records
  <2> QED
    BY <1>1, <1>2, <1>7, <2>1, <2>2 DEF OpenSession, Fail
<1>8. ASSUME NEW c \in ToolCalls, Work(c) \/ Record(c)
      PROVE  McpTypeOK'
  <2>1. /\ [tool[c] EXCEPT !.at = "record"] \in Records
        /\ [tool[c] EXCEPT !.at = "commit"] \in Records
    BY <1>3 DEF Records
  <2> QED
    BY <1>2, <1>8, <2>1 DEF Work, Record
<1>9. ASSUME NEW c \in ToolCalls, CommitCall(c)
      PROVE  McpTypeOK'
  <2>1. tool[c].by \in Callers /\ tool[c].session \in SessionIds
    BY <1>3, <1>9 DEF CommitCall, At, McpInvariant, AtWork, SessionReserved, Records
  <2>2. tool[c].by \in People \cup {Nobody}
    BY <2>1 DEF Callers
  <2> QED
    BY <1>1, <1>9, <2>1, <2>2 DEF CommitCall, McpTypeOK, Records
<1>10. ASSUME NEW c \in ToolCalls, Fail(c)
       PROVE  McpTypeOK'
  BY <1>1, <1>2, <1>10 DEF Fail
<1>11. CASE Redeploy
  BY <1>11 DEF Redeploy, McpTypeOK
<1>12. CASE UNCHANGED mcpVars
  BY <1>12 DEF mcpVars, McpTypeOK
<1> QED
  BY <1>4, <1>5, <1>6, <1>7, <1>8, <1>9, <1>10, <1>11, <1>12 DEF McpNext

\* A step that only moves one call keeps the tables.
LEMMA MovesKeep ==
  ASSUME McpTypeOK, McpInvariant, NEW c \in ToolCalls, NEW next, Step(c, next),
         next.at \in {"work", "record", "commit"} =>
            \/ AtWork(c) /\ next.session = tool[c].session /\ next.by = tool[c].by
            \/ /\ next.session \in SessionIds
               /\ next.by # NoSession
               /\ owner[next.session] = next.by
            \/ /\ next.session \in SessionIds /\ owner[next.session] = NoSession
               /\ \A d \in ToolCalls : tool[d].session # next.session,
         \A d \in ToolCalls \ {c} : AtWork(d) /\ owner[tool[d].session] = NoSession =>
            next.session # tool[d].session
  PROVE  McpInvariant'
<1>1. /\ tool'[c] = next /\ \A d \in ToolCalls \ {c} : tool'[d] = tool[d]
      /\ owner' = owner /\ recorded' = recorded /\ handed' = handed /\ knownUsers' = knownUsers
  BY DEF Step, mcpTables, McpTypeOK
<1>2. SessionsAgree'
  BY <1>1 DEF McpInvariant, SessionsAgree, SessionsAreOwned, HandedSessionsAreOpen, SessionsAreUsed
<1>3. AtWork(c)' => SessionReserved(c)'
  BY <1>1 DEF McpInvariant, AtWork, SessionReserved
<1>4. ASSUME NEW d \in ToolCalls, d # c, AtWork(d)'
      PROVE  SessionReserved(d)'
  BY <1>1, <1>4 DEF McpInvariant, AtWork, SessionReserved
<1> QED
  BY <1>2, <1>3, <1>4 DEF McpInvariant

LEMMA McpStep ==
  ASSUME McpTypeOK, McpInvariant, [McpNext]_mcpVars
  PROVE  McpInvariant'
<1>1. \A c \in ToolCalls : /\ tool[c].by \in Callers /\ tool[c].by # NoSession
                           /\ tool[c].asked \in SessionIds \cup {NoSession}
  BY Owners DEF McpTypeOK
<1>2. \A d \in ToolCalls : AtWork(d) => tool[d].session \in SessionIds
  BY DEF McpInvariant, SessionReserved
<1>3. IdleCall.at = "idle" /\ IdleCall.session = NoSession
  BY DEF IdleCall
<1>4. ASSUME NEW c \in ToolCalls, Step(c, IdleCall)
      PROVE  McpInvariant'
  BY <1>2, <1>3, <1>4, MovesKeep, Owners
<1>5. ASSUME NEW c \in ToolCalls, NEW next, Step(c, next),
             next.session = tool[c].session, next.by = tool[c].by,
             next.at \in {"work", "record", "commit"} => AtWork(c)
      PROVE  McpInvariant'
  <2>1. \A d \in ToolCalls \ {c} : AtWork(d) /\ owner[tool[d].session] = NoSession =>
           next.session # tool[d].session
    BY <1>5 DEF McpInvariant, SessionReserved
  <2> QED
    BY <1>5, <2>1, MovesKeep
<1>6. ASSUME NEW c \in ToolCalls, Begin(c)
      PROVE  McpInvariant'
  <2>1. PICK by, asked :
           Step(c, [IdleCall EXCEPT !.at = IF authEnabled THEN "lookup" ELSE "session",
                                    !.by = by, !.asked = asked])
    BY <1>6 DEF Begin
  <2> DEFINE next == [IdleCall EXCEPT !.at = IF authEnabled THEN "lookup" ELSE "session",
                                      !.by = by, !.asked = asked]
  <2>2. next.at \in {"lookup", "session"} /\ next.session = NoSession
    BY DEF IdleCall
  <2>3. Step(c, next)
    BY <2>1
  <2> HIDE DEF next
  <2> QED
    BY <1>2, <2>2, <2>3, MovesKeep, Owners
<1>7. ASSUME NEW c \in ToolCalls, Lookup(c)
      PROVE  McpInvariant'
  <2> DEFINE next == [tool[c] EXCEPT !.at = "upsert", !.newUser = tool[c].by \notin knownUsers]
  <2>1. next.at = "upsert" /\ next.session = tool[c].session /\ next.by = tool[c].by
    BY DEF McpTypeOK
  <2>2. Step(c, next)
    BY <1>7 DEF Lookup
  <2> HIDE DEF next
  <2> QED
    BY <1>5, <2>1, <2>2
<1>8. ASSUME NEW c \in ToolCalls, Upsert(c)
      PROVE  McpInvariant'
  <2>1. \/ Step(c, IdleCall)
        \/ \E next : /\ Step(c, next) /\ next.at = "session"
                     /\ next.session = tool[c].session /\ next.by = tool[c].by
    BY <1>8 DEF Upsert, McpTypeOK
  <2> QED
    BY <1>4, <1>5, <2>1
<1>9. ASSUME NEW c \in ToolCalls, OpenSession(c)
      PROVE  McpInvariant'
  <2>1. CASE \E s \in SessionIds \ {tool[d].session : d \in ToolCalls} :
                /\ owner[s] = NoSession
                /\ Step(c, [tool[c] EXCEPT !.at = "work", !.session = s])
    <3>1. PICK s \in SessionIds \ {tool[d].session : d \in ToolCalls} :
                /\ owner[s] = NoSession
                /\ Step(c, [tool[c] EXCEPT !.at = "work", !.session = s])
      BY <2>1
    <3> DEFINE next == [tool[c] EXCEPT !.at = "work", !.session = s]
    <3>2. next.session = s
      BY DEF McpTypeOK
    <3>3. \A d \in ToolCalls : tool[d].session # s
      BY <3>1
    <3>4. Step(c, next)
      BY <3>1
    <3> HIDE DEF next
    <3> QED
      BY <3>1, <3>2, <3>3, <3>4, MovesKeep
  <2>2. CASE /\ tool[c].asked # NoSession /\ owner[tool[c].asked] = tool[c].by
             /\ Step(c, [tool[c] EXCEPT !.at = "work", !.session = tool[c].asked])
    <3> DEFINE next == [tool[c] EXCEPT !.at = "work", !.session = tool[c].asked]
    <3>1. next.session = tool[c].asked /\ next.by = tool[c].by
      BY DEF McpTypeOK
    <3>4. Step(c, next)
      BY <2>2
    <3> HIDE DEF next
    <3>2. /\ next.session \in SessionIds /\ next.by # NoSession
          /\ owner[next.session] = next.by
      BY <1>1, <2>2, <3>1
    <3>3. \A d \in ToolCalls \ {c} : AtWork(d) /\ owner[tool[d].session] = NoSession =>
             next.session # tool[d].session
      BY <3>2
    <3> QED
      BY <3>1, <3>2, <3>3, <3>4, MovesKeep
  <2>3. CASE Step(c, IdleCall)
    BY <1>4, <2>3
  <2> QED
    BY <1>9, <2>1, <2>2, <2>3 DEF OpenSession, Fail
<1>10. ASSUME NEW c \in ToolCalls, Work(c) \/ Record(c)
       PROVE  McpInvariant'
  <2>1. PICK next : /\ Step(c, next)
                    /\ next.session = tool[c].session /\ next.by = tool[c].by
    BY <1>10 DEF Work, Record, McpTypeOK
  <2>2. AtWork(c)
    BY <1>10 DEF Work, Record, At, AtWork
  <2> QED
    BY <1>5, <2>1, <2>2
<1>11. ASSUME NEW c \in ToolCalls, CommitCall(c)
       PROVE  McpInvariant'
  <2> DEFINE s == tool[c].session
             by == tool[c].by
  <2>1. s \in SessionIds /\ owner[s] \in {NoSession, by} /\ by \in Callers /\ by # NoSession
        /\ (owner[s] = NoSession => \A d \in ToolCalls \ {c} : tool[d].session # s)
    BY <1>1, <1>11 DEF CommitCall, At, McpInvariant, AtWork, SessionReserved
  <2>2. /\ owner' = [owner EXCEPT ![s] = by]
        /\ recorded' = recorded \cup {[session |-> s, by |-> by]}
        /\ handed' = handed \cup {[session |-> s, to |-> by]}
        /\ knownUsers' = knownUsers \cup ({by} \ {Nobody})
        /\ tool'[c] = IdleCall /\ \A d \in ToolCalls \ {c} : tool'[d] = tool[d]
    BY <1>11 DEF CommitCall, McpTypeOK
  <2> HIDE DEF s, by
  <2>3. /\ owner'[s] = by
        /\ \A q \in SessionIds \ {s} : owner'[q] = owner[q]
        /\ \A q \in SessionIds : owner[q] # NoSession => owner'[q] = owner[q]
    BY <2>1, <2>2 DEF McpTypeOK
  <2>4. SessionsAreOwned' /\ HandedSessionsAreOpen'
    <3>1. \A r \in recorded : r.session \in SessionIds /\ r.by # NoSession
      BY Owners DEF McpTypeOK
    <3>2. \A h \in handed : h.session \in SessionIds /\ h.to # NoSession
      BY Owners DEF McpTypeOK
    <3>3. SessionsAreOwned'
      BY <2>2, <2>3, <3>1 DEF McpInvariant, SessionsAgree, SessionsAreOwned
    <3>4. HandedSessionsAreOpen'
      BY <2>2, <2>3, <3>2 DEF McpInvariant, SessionsAgree, HandedSessionsAreOpen
    <3> QED
      BY <3>3, <3>4
  <2>5. SessionsAreUsed'
    <3>1. \A r \in recorded : r \in recorded'
      BY <2>2
    <3>2. [session |-> s, by |-> by] \in recorded' /\ by \in knownUsers' \cup {Nobody}
      BY <2>2
    <3>3. \A q \in SessionIds \ {s} : owner'[q] = owner[q]
      BY <2>3
    <3>4. \E r \in recorded' : r.session = s
      BY <3>2
    <3> QED
      BY <2>2, <2>3, <3>1, <3>2, <3>3, <3>4 DEF McpInvariant, SessionsAgree, SessionsAreUsed
  <2>6. ASSUME NEW d \in ToolCalls, AtWork(d)'
        PROVE  SessionReserved(d)'
    <3>1. d # c /\ tool'[d] = tool[d] /\ AtWork(d)
      BY <1>3, <2>2, <2>6 DEF AtWork
    <3>2. SessionReserved(d)
      BY <3>1 DEF McpInvariant
    <3>3. CASE tool[d].session = s
      <4>1. owner[s] = by /\ by = tool[d].by
        BY <2>1, <3>1, <3>2, <3>3 DEF SessionReserved
      <4> QED
        BY <2>1, <2>3, <3>1, <3>3, <4>1 DEF SessionReserved
    <3>4. CASE tool[d].session # s
      <4>1. owner'[tool[d].session] = owner[tool[d].session]
        BY <2>3, <3>2, <3>4 DEF SessionReserved
      <4>2. tool[d].session # NoSession
        BY <3>2, Owners DEF SessionReserved
      <4> QED
        BY <1>3, <2>2, <3>1, <3>2, <4>1, <4>2 DEF SessionReserved
    <3> QED
      BY <3>3, <3>4
  <2> QED
    BY <2>4, <2>5, <2>6 DEF McpInvariant, SessionsAgree
<1>12. ASSUME NEW c \in ToolCalls, Fail(c)
       PROVE  McpInvariant'
  BY <1>4, <1>12 DEF Fail
<1>13. CASE Redeploy
  BY <1>13 DEF Redeploy, McpInvariant, SessionsAgree, SessionsAreOwned,
               HandedSessionsAreOpen, SessionsAreUsed, AtWork, SessionReserved
<1>14. CASE UNCHANGED mcpVars
  BY <1>14 DEF mcpVars, McpInvariant, SessionsAgree, SessionsAreOwned,
               HandedSessionsAreOpen, SessionsAreUsed, AtWork, SessionReserved
<1> QED
  BY <1>6, <1>7, <1>8, <1>9, <1>10, <1>11, <1>12, <1>13, <1>14 DEF McpNext

LEMMA McpInvariantHolds == McpSpec => [](McpTypeOK /\ McpInvariant)
<1>1. McpInit => McpTypeOK /\ McpInvariant
  <2> SUFFICES ASSUME McpInit
               PROVE  McpTypeOK /\ McpInvariant
    OBVIOUS
  <2>1. \A c \in ToolCalls : ~AtWork(c)
    BY DEF McpInit, AtWork, IdleCall
  <2>2. McpTypeOK
    BY Owners DEF McpInit, McpTypeOK, IdleCall
  <2>3. SessionsAgree
    BY DEF McpInit, SessionsAgree, SessionsAreOwned, HandedSessionsAreOpen, SessionsAreUsed
  <2> QED
    BY <2>1, <2>2, <2>3 DEF McpInvariant
<1> QED
  BY <1>1, McpTypeStep, McpStep, PTL DEF McpSpec

\* A session is its first caller's for good, every row of the table has been
\* used, and clients hold no dead id: for any number of calls and deployments.
THEOREM SessionsStayAgreed == McpSpec => []SessionsAgree
BY McpInvariantHolds, PTL DEF McpInvariant

-----------------------------------------------------------------------------
(* The test environment *)

ProcessRecords == [name : {"up", "teardown", "run"}, mode : Modes, at : Places]

\* Where a command goes, and that it stays one.
LEMMA Moves ==
  ASSUME HarnessTypeOK, NEW p \in Commands
  PROVE  /\ \A from, to : Goes(p, from, to) /\ to \in Places =>
               /\ cmd[p].at = from /\ cmd'[p].at = to
               /\ cmd' \in [Commands -> ProcessRecords]
         /\ Ends(p) => cmd'[p].at = "idle" /\ cmd' \in [Commands -> ProcessRecords]
         /\ \A from : FailsAt(p, from) =>
               /\ cmd[p].at = from /\ cmd'[p].at \in {"idle", "find"}
               /\ cmd' \in [Commands -> ProcessRecords]
<1> USE DEF ProcessRecords
<1>1. ASSUME NEW to \in Places, cmd' = [cmd EXCEPT ![p].at = to]
      PROVE  cmd'[p].at = to /\ cmd' \in [Commands -> ProcessRecords]
  BY <1>1 DEF HarnessTypeOK
<1>2. Ends(p) => cmd'[p].at = "idle" /\ cmd' \in [Commands -> ProcessRecords]
  BY DEF Ends, Resting, Modes, Places, HarnessTypeOK
<1>3. "find" \in Places
  BY DEF Places
<1> HIDE DEF ProcessRecords
<1> QED
  BY <1>1, <1>2, <1>3 DEF Goes, FailsAt

LEMMA HarnessStep ==
  ASSUME NEW p, Commands = {p}, OrderlyPreparation,
         HarnessTypeOK, HarnessInvariant, [HarnessNext]_harnessVars
  PROVE  HarnessTypeOK' /\ HarnessInvariant'
<1> DEFINE States == [mode : Modes, status : {"starting", "ready"}] \cup {NoState}
           Good == /\ config' \in Contents /\ backup' \in Contents \cup {"none"}
                   /\ state' \in States /\ containers' \in BOOLEAN
                   /\ cmd' \in [Commands -> ProcessRecords]
                   /\ ReliedOn(cmd[p].at)'
<1>1. /\ p \in Commands /\ ReliedOn(cmd[p].at)
      /\ config \in Contents /\ backup \in Contents \cup {"none"}
      /\ state \in States /\ containers \in BOOLEAN
      /\ cmd \in [Commands -> ProcessRecords]
  BY DEF HarnessTypeOK, HarnessInvariant, ProcessRecords
<1>2. Good => HarnessTypeOK' /\ HarnessInvariant'
  BY <1>1 DEF HarnessTypeOK, HarnessInvariant, ProcessRecords
<1>3. /\ \A to : to \in {"idle", "check", "read", "allocate", "prepare", "save", "replace",
                         "write", "compose", "undo_down", "undo_restore", "undo_clear", "ready",
                         "command", "find", "down", "restore", "clear"} <=> to \in Places
      /\ NoState \in States
      /\ \A m \in Modes : /\ [mode |-> m, status |-> "starting"] \in States \ {NoState}
                          /\ [mode |-> m, status |-> "ready"] \in States \ {NoState}
  BY DEF Places, Modes, NoState
<1>4. cmd[p].mode \in Modes
  BY <1>1 DEF ProcessRecords
<1> HIDE DEF States
<1>5. ASSUME NEW name \in {"up", "teardown", "run"}, NEW mode \in Modes, Start(p, name, mode)
      PROVE  Good
  <2>1. cmd' \in [Commands -> ProcessRecords] /\ cmd'[p].at \in {"read", "find", "check"}
    BY <1>1, <1>3, <1>5 DEF Start, ProcessRecords
  <2>2. cmd[p].at = "idle" /\ UNCHANGED files
    BY <1>5 DEF Start
  <2> QED
    BY <1>1, <2>1, <2>2 DEF files, ReliedOn
<1>6. ASSUME CheckNone(p) \/ CommandEnds(p)
      PROVE  Good
  BY <1>1, <1>3, <1>6, Moves DEF CheckNone, CommandEnds, files, ReliedOn
<1>7. ASSUME ReadState(p)
      PROVE  Good
  BY <1>1, <1>3, <1>7, Moves DEF ReadState, files, ReliedOn
<1>8. ASSUME Allocate(p)
      PROVE  Good
  BY <1>1, <1>3, <1>8, Moves DEF Allocate, files, ReliedOn
<1>9. ASSUME Prepare(p) \/ PrepareFails(p)
      PROVE  Good
  BY <1>1, <1>3, <1>9, Moves DEF Prepare, PrepareFails, files, ReliedOn
<1>10. ASSUME SaveOriginal(p)
      PROVE  Good
  BY <1>1, <1>3, <1>10, Moves DEF SaveOriginal, ReliedOn, Contents
<1>11. ASSUME SaveFails(p)
      PROVE  Good
  BY <1>1, <1>3, <1>11, Moves DEF SaveFails, ReliedOn, Contents
<1>12. ASSUME Replace(p)
      PROVE  Good
  BY <1>1, <1>3, <1>12, Moves DEF Replace, ReliedOn, Contents
<1>13. ASSUME ReplaceFails(p) \/ ReplaceUndoFails(p) \/ WriteStateFails(p)
      PROVE  Good
  <2>1. ReplaceFails(p)
    BY <1>13 DEF ReplaceUndoFails, WriteStateFails, OrderlyPreparation
  <2> QED
    BY <1>1, <1>3, <2>1, Moves DEF ReplaceFails, ReliedOn, Contents
<1>14. ASSUME WriteState(p)
      PROVE  Good
  <2>1. state' \in States \ {NoState} /\ UNCHANGED <<config, backup, containers>>
    BY <1>3, <1>4, <1>14 DEF WriteState
  <2>2. cmd[p].at = "write" /\ cmd'[p].at = "compose"
        /\ cmd' \in [Commands -> ProcessRecords]
    BY <1>1, <1>3, <1>14, Moves DEF WriteState
  <2> QED
    BY <1>1, <2>1, <2>2 DEF ReliedOn
<1>15. ASSUME ComposeUp(p)
      PROVE  Good
  BY <1>1, <1>3, <1>15, Moves DEF ComposeUp, ReliedOn
<1>16. ASSUME ComposeFails(p)
      PROVE  Good
  <2>1. containers' \in BOOLEAN /\ UNCHANGED <<config, backup, state>>
    BY <1>1, <1>16 DEF ComposeFails
  <2>2. cmd[p].at = "compose" /\ cmd'[p].at \in {"undo_down", "idle", "find"}
        /\ cmd' \in [Commands -> ProcessRecords]
    BY <1>1, <1>3, <1>16, Moves DEF ComposeFails
  <2> QED
    BY <1>1, <2>1, <2>2 DEF ReliedOn
<1>17. ASSUME UndoDown(p)
      PROVE  Good
  <2>1. containers' \in BOOLEAN /\ UNCHANGED <<config, backup, state>>
    BY <1>1, <1>17 DEF UndoDown
  <2>2. cmd[p].at = "undo_down" /\ cmd'[p].at = "undo_restore"
        /\ cmd' \in [Commands -> ProcessRecords]
    BY <1>1, <1>3, <1>17, Moves DEF UndoDown
  <2> QED
    BY <1>1, <2>1, <2>2 DEF ReliedOn
<1>18. ASSUME UndoRestore(p)
      PROVE  Good
  BY <1>1, <1>3, <1>18, Moves DEF UndoRestore, CopyBack, ReliedOn, Contents
<1>27. ASSUME UndoRestoreFails(p) \/ RestoreFails(p)
      PROVE  Good
  <2>1. /\ cmd[p].at \in {"undo_restore", "restore"} /\ CopyBackFails
        /\ cmd'[p].at \in {"idle", "find"} /\ cmd' \in [Commands -> ProcessRecords]
    BY <1>27, Moves DEF UndoRestoreFails, RestoreFails
  <2> QED
    BY <1>1, <2>1 DEF CopyBackFails, ReliedOn, Contents
<1>28. ASSUME UndoClearFails(p) \/ ClearStateFails(p)
      PROVE  Good
  <2>1. /\ cmd[p].at \in {"undo_clear", "clear"} /\ ClearFails
        /\ cmd'[p].at \in {"idle", "find"} /\ cmd' \in [Commands -> ProcessRecords]
    BY <1>28, Moves DEF UndoClearFails, ClearStateFails
  <2> QED
    BY <1>1, <1>3, <2>1 DEF ClearFails, ReliedOn, Contents
<1>29. ASSUME MarkReadyFails(p)
      PROVE  Good
  BY <1>1, <1>29, Moves DEF MarkReadyFails, files, ReliedOn
<1>19. ASSUME UndoClear(p)
      PROVE  Good
  BY <1>1, <1>3, <1>19, Moves DEF UndoClear, Clear, ReliedOn, Contents
<1>20. ASSUME MarkReady(p)
      PROVE  Good
  <2>1. state' \in States \ {NoState} /\ UNCHANGED <<config, backup, containers>>
    BY <1>3, <1>4, <1>20 DEF MarkReady
  <2>2. cmd[p].at = "ready"
    BY <1>20 DEF MarkReady
  <2>3. cmd'[p].at \in {"command", "idle"} /\ cmd' \in [Commands -> ProcessRecords]
    BY <1>1, <1>3, <1>20, Moves DEF MarkReady
  <2> QED
    BY <1>1, <2>1, <2>2, <2>3 DEF ReliedOn
<1>21. ASSUME Find(p)
      PROVE  Good
  BY <1>1, <1>3, <1>21, Moves DEF Find, files, ReliedOn
<1>22. ASSUME Down(p) \/ DownFails(p)
      PROVE  Good
  <2>1. CASE Down(p)
    <3>1. containers' \in BOOLEAN /\ UNCHANGED <<config, backup, state>>
      BY <2>1 DEF Down
    <3> QED
      BY <1>1, <1>3, <2>1, <3>1, Moves DEF Down, ReliedOn
  <2>2. CASE DownFails(p)
    BY <1>1, <2>2, Moves DEF DownFails, files, ReliedOn
  <2> QED
    BY <1>22, <2>1, <2>2
<1>23. ASSUME Restore(p)
      PROVE  Good
  BY <1>1, <1>3, <1>23, Moves DEF Restore, CopyBack, ReliedOn, Contents
<1>24. ASSUME ClearState(p)
      PROVE  Good
  BY <1>1, <1>3, <1>24, Moves DEF ClearState, Clear, ReliedOn, Contents
<1>25. ASSUME Killed(p)
      PROVE  Good
  <2>1. cmd[p].at \notin {"save", "replace", "write"} /\ Ends(p)
    BY <1>25 DEF Killed, OrderlyPreparation
  <2>2. cmd'[p].at = "idle" /\ cmd' \in [Commands -> ProcessRecords]
    BY <1>1, <2>1, Moves
  <2>3. containers' \in BOOLEAN
    BY <1>1, <1>25 DEF Killed
  <2>4. CASE cmd[p].at \in {"clear", "undo_clear"}
    BY <1>1, <1>3, <1>25, <2>1, <2>2, <2>3, <2>4 DEF Killed, ReliedOn, Contents
  <2>5. CASE cmd[p].at \in {"restore", "undo_restore"}
    BY <1>1, <1>3, <1>25, <2>1, <2>2, <2>3, <2>5 DEF Killed, ReliedOn, Contents
  <2>6. CASE cmd[p].at \notin {"clear", "undo_clear", "restore", "undo_restore"}
    <3>1. config' = config /\ backup' = backup /\ state' = state
      BY <1>25, <2>1, <2>6 DEF Killed
    <3> QED
      BY <1>1, <2>1, <2>2, <2>3, <3>1 DEF ReliedOn
  <2> QED
    BY <2>4, <2>5, <2>6
<1>26. ASSUME UNCHANGED harnessVars
      PROVE  Good
  BY <1>1, <1>26 DEF harnessVars, ReliedOn
<1> HIDE DEF Good
<1> QED
  BY <1>2, <1>5, <1>6, <1>7, <1>8, <1>9, <1>10, <1>11, <1>12, <1>13, <1>14, <1>15, <1>16,
     <1>17, <1>18, <1>19, <1>20, <1>21, <1>22, <1>23, <1>24, <1>25, <1>26, <1>27, <1>28, <1>29
     DEF HarnessNext, CommandStep

\* A configuration is only replaced after it has been saved, so that a copy that
\* fails has something to copy back: whatever fails or is killed.
Saved(p) == cmd[p].at = "replace" => backup # "none"

LEMMA HarnessTypeStep ==
  ASSUME NEW p, Commands = {p}, HarnessTypeOK, Saved(p), [HarnessNext]_harnessVars
  PROVE  HarnessTypeOK' /\ Saved(p)'
<1> DEFINE States == [mode : Modes, status : {"starting", "ready"}] \cup {NoState}
           Moved == cmd' \in [Commands -> ProcessRecords]
<1>1. /\ p \in Commands /\ config \in Contents /\ backup \in Contents \cup {"none"}
      /\ state \in States /\ containers \in BOOLEAN
      /\ cmd \in [Commands -> ProcessRecords]
  BY DEF HarnessTypeOK, ProcessRecords
<1>2. ASSUME config' \in Contents, backup' \in Contents \cup {"none"}, state' \in States,
             containers' \in BOOLEAN, Moved, cmd'[p].at = "replace" => backup' # "none"
      PROVE  HarnessTypeOK' /\ Saved(p)'
  BY <1>2 DEF HarnessTypeOK, Saved, ProcessRecords
<1>3. /\ \A to : to \in {"idle", "check", "read", "allocate", "prepare", "save", "replace",
                         "write", "compose", "undo_down", "undo_restore", "undo_clear", "ready",
                         "command", "find", "down", "restore", "clear"} <=> to \in Places
      /\ NoState \in States
      /\ \A m \in Modes : /\ [mode |-> m, status |-> "starting"] \in States
                          /\ [mode |-> m, status |-> "ready"] \in States
  BY DEF Places, Modes, NoState
<1>4. cmd[p].mode \in Modes
  BY <1>1 DEF ProcessRecords
<1> HIDE DEF States
<1>5. ASSUME NEW name \in {"up", "teardown", "run"}, NEW mode \in Modes, Start(p, name, mode)
      PROVE  HarnessTypeOK' /\ Saved(p)'
  <2>1. cmd' \in [Commands -> ProcessRecords] /\ cmd'[p].at \in {"read", "find", "check"}
    BY <1>1, <1>3, <1>5 DEF Start, ProcessRecords
  <2>2. UNCHANGED files
    BY <1>5 DEF Start
  <2> QED
    BY <1>1, <1>2, <2>1, <2>2 DEF files
<1>6. ASSUME \/ CheckNone(p) \/ ReadState(p) \/ Allocate(p) \/ Prepare(p) \/ PrepareFails(p)
             \/ CommandEnds(p) \/ Find(p) \/ DownFails(p)
             \/ WriteStateFails(p) \/ MarkReadyFails(p)
      PROVE  HarnessTypeOK' /\ Saved(p)'
  <2>1. UNCHANGED files
    BY <1>6 DEF CheckNone, ReadState, Allocate, Prepare, PrepareFails, CommandEnds, Find, DownFails,
               WriteStateFails, MarkReadyFails
  <2>2. Moved /\ cmd'[p].at # "replace"
    BY <1>1, <1>3, <1>6, Moves
       DEF CheckNone, ReadState, Allocate, Prepare, PrepareFails, CommandEnds, Find, DownFails,
               WriteStateFails, MarkReadyFails
  <2> QED
    BY <1>1, <1>2, <2>1, <2>2 DEF files
<1>7. ASSUME SaveOriginal(p) \/ SaveFails(p)
      PROVE  HarnessTypeOK' /\ Saved(p)'
  <2>1. Moved
    BY <1>1, <1>3, <1>7, Moves DEF SaveOriginal, SaveFails
  <2> QED
    BY <1>1, <1>2, <1>7, <2>1 DEF SaveOriginal, SaveFails, Contents
<1>8. ASSUME Replace(p) \/ ReplaceFails(p) \/ ReplaceUndoFails(p)
      PROVE  HarnessTypeOK' /\ Saved(p)'
  <2>1. Moved /\ cmd[p].at = "replace" /\ cmd'[p].at # "replace"
    BY <1>1, <1>3, <1>8, Moves DEF Replace, ReplaceFails, ReplaceUndoFails
  <2> QED
    BY <1>1, <1>2, <1>8, <2>1 DEF Replace, ReplaceFails, ReplaceUndoFails, Contents, Saved
<1>9. ASSUME WriteState(p) \/ MarkReady(p)
      PROVE  HarnessTypeOK' /\ Saved(p)'
  <2>1. Moved /\ cmd'[p].at # "replace"
    BY <1>1, <1>3, <1>9, Moves DEF WriteState, MarkReady
  <2>2. state' \in States /\ UNCHANGED <<config, backup, containers>>
    BY <1>3, <1>4, <1>9 DEF WriteState, MarkReady
  <2> QED
    BY <1>1, <1>2, <2>1, <2>2
<1>10. ASSUME ComposeUp(p) \/ ComposeFails(p) \/ UndoDown(p) \/ Down(p)
       PROVE  HarnessTypeOK' /\ Saved(p)'
  <2>1. Moved /\ cmd'[p].at # "replace"
    <3>1. \/ \E from \in {"compose", "undo_down", "down"},
               to \in {"ready", "undo_down", "undo_restore", "restore"} : Goes(p, from, to)
          \/ FailsAt(p, "compose")
      BY <1>10 DEF ComposeUp, ComposeFails, UndoDown, Down
    <3> QED
      BY <1>1, <1>3, <3>1, Moves
  <2>2. containers' \in BOOLEAN /\ UNCHANGED <<config, backup, state>>
    BY <1>1, <1>10 DEF ComposeUp, ComposeFails, UndoDown, Down
  <2> QED
    BY <1>1, <1>2, <2>1, <2>2
<1>14. ASSUME UndoRestoreFails(p) \/ RestoreFails(p) \/ UndoClearFails(p) \/ ClearStateFails(p)
       PROVE  HarnessTypeOK' /\ Saved(p)'
  <2>1. Moved /\ cmd'[p].at # "replace" /\ (CopyBackFails \/ ClearFails)
    BY <1>14, Moves DEF UndoRestoreFails, RestoreFails, UndoClearFails, ClearStateFails
  <2> QED
    BY <1>1, <1>2, <1>3, <2>1 DEF CopyBackFails, ClearFails, Contents
<1>11. ASSUME UndoRestore(p) \/ Restore(p) \/ UndoClear(p) \/ ClearState(p)
       PROVE  HarnessTypeOK' /\ Saved(p)'
  <2>1. Moved /\ cmd'[p].at # "replace"
    BY <1>1, <1>3, <1>11, Moves DEF UndoRestore, Restore, UndoClear, ClearState
  <2> QED
    BY <1>1, <1>2, <1>3, <1>11, <2>1
       DEF UndoRestore, Restore, UndoClear, ClearState, CopyBack, Clear
<1>12. ASSUME Killed(p)
       PROVE  HarnessTypeOK' /\ Saved(p)'
  <2>1. Moved /\ cmd'[p].at # "replace"
    BY <1>1, <1>12, Moves DEF Killed
  <2>2. config' \in Contents
    BY <1>1, <1>12 DEF Killed, Contents
  <2>3. backup' \in Contents \cup {"none"}
    BY <1>1, <1>12 DEF Killed, Contents
  <2>4. state' \in States
    BY <1>1, <1>3, <1>12 DEF Killed
  <2>5. containers' \in BOOLEAN
    BY <1>1, <1>12 DEF Killed
  <2> QED
    BY <1>2, <2>1, <2>2, <2>3, <2>4, <2>5
<1>13. ASSUME UNCHANGED harnessVars
       PROVE  HarnessTypeOK' /\ Saved(p)'
  BY <1>13 DEF harnessVars, HarnessTypeOK, Saved
<1> QED
  BY <1>5, <1>6, <1>7, <1>8, <1>9, <1>10, <1>11, <1>12, <1>13, <1>14
     DEF HarnessNext, CommandStep

\* Under every fault the configuration and what is saved of it are what they
\* may be: no step copies back what was never saved.
THEOREM HarnessTypeCorrect ==
  ASSUME NEW p, Commands = {p}
  PROVE  HarnessSpec => []HarnessTypeOK
<1>1. HarnessInit => HarnessTypeOK /\ Saved(p)
  <2> SUFFICES ASSUME HarnessInit PROVE HarnessTypeOK /\ Saved(p)
    OBVIOUS
  <2>1. cmd \in [Commands -> [name : {"up", "teardown", "run"}, mode : Modes, at : Places]]
    BY DEF HarnessInit, Resting, Modes, Places
  <2>2. cmd[p].at = "idle"
    BY DEF HarnessInit, Resting
  <2> QED
    BY <2>1, <2>2 DEF HarnessInit, HarnessTypeOK, Saved, Contents
<1>2. HarnessTypeOK /\ Saved(p) /\ [HarnessNext]_harnessVars
         => (HarnessTypeOK /\ Saved(p))'
  BY HarnessTypeStep
<1> QED
  BY <1>1, <1>2, PTL DEF HarnessSpec

\* The developer's configuration survives every sequence of commands, failures
\* and kills, as long as none of the three faults occurs that leave `up` without
\* a record of what it has replaced.
THEOREM OriginalIsNeverLost ==
  ASSUME NEW p, Commands = {p}, OrderlyPreparation
  PROVE  HarnessSpec => []OriginalIsKept
<1>1. HarnessInit => HarnessTypeOK /\ HarnessInvariant
  <2> SUFFICES ASSUME HarnessInit
               PROVE  HarnessTypeOK /\ HarnessInvariant
    OBVIOUS
  <2>1. cmd \in [Commands -> [name : {"up", "teardown", "run"}, mode : Modes, at : Places]]
    BY DEF HarnessInit, Resting, Modes, Places
  <2>2. cmd[p].at = "idle"
    BY DEF HarnessInit, Resting
  <2> QED
    BY <2>1, <2>2 DEF HarnessInit, HarnessTypeOK, Contents, HarnessInvariant, ReliedOn
<1>2. HarnessTypeOK /\ HarnessInvariant /\ [HarnessNext]_harnessVars
         => (HarnessTypeOK /\ HarnessInvariant)'
  BY HarnessStep
<1>3. HarnessInvariant => OriginalIsKept
  BY DEF HarnessInvariant, ReliedOn, OriginalIsKept, Working
<1> QED
  BY <1>1, <1>2, <1>3, PTL DEF HarnessSpec

-----------------------------------------------------------------------------
(* The installer *)

LEMMA Rewritten ==
  ASSUME NEW c \in Configs, c.form # "array", AgentsTypeOK
  PROVE  LET n == Change(ReadJson(c)) IN
         /\ n \in Configs /\ n.form # "array"
         /\ Theirs(n) = Theirs(c)
         /\ job.action = "install" => n.ours = "current" \/ n.key = "odd"
         /\ job.action = "uninstall" => n.ours = "none"
         /\ n = ReadJson(c) => /\ job.action = "install" => n = c
                               /\ n.ours = c.ours
<1>1. /\ ReadJson(c) \in Configs /\ ReadJson(c).form = "object"
      /\ ReadJson(c).servers = c.servers /\ ReadJson(c).settings = c.settings
      /\ ReadJson(c).ours = c.ours
      /\ ReadJson(c) = c \/ ReadJson(c) = Empty
  BY DEF ReadJson, Configs, Empty
<1> DEFINE d == ReadJson(c)
<1>2. /\ d \in [form : {"object"}, key : {"absent", "odd", "servers"},
               ours : {"none", "old", "current"},
               servers : SUBSET Servers, settings : SUBSET Settings]
      /\ d.key # "servers" => d.ours = "none" /\ d.servers = {}
  BY <1>1 DEF Configs, Empty
<1> HIDE DEF d
<1>3. Theirs(d) = Theirs(c)
  BY <1>1 DEF d, Theirs
<1>4. ASSUME job.action = "install"
      PROVE  LET n == Installed(d) IN
             /\ n \in Configs /\ n.form # "array" /\ Theirs(n) = Theirs(d)
             /\ n.ours = "current" \/ n.key = "odd"
             /\ n = d => d = c
  <2>1. CASE d.key = "odd" \/ d.ours = "current"
    BY <1>1, <1>2, <2>1 DEF Installed, d, Empty
  <2>2. CASE ~(d.key = "odd" \/ d.ours = "current")
    <3> DEFINE n == [d EXCEPT !.key = "servers", !.ours = "current"]
    <3>1. /\ n \in [form : {"object"}, key : {"absent", "odd", "servers"},
                    ours : {"none", "old", "current"},
                    servers : SUBSET Servers, settings : SUBSET Settings]
          /\ n.key = "servers" /\ n.ours = "current" /\ n.form = "object"
          /\ n.servers = d.servers /\ n.settings = d.settings
      BY <1>2
    <3> HIDE DEF n
    <3>2. n \in Configs /\ Theirs(n) = Theirs(d) /\ n # d
      BY <2>2, <3>1 DEF Configs, Theirs
    <3>3. Installed(d) = n
      BY <2>2 DEF Installed, n
    <3> QED
      BY <3>1, <3>2, <3>3
  <2> QED
    BY <2>1, <2>2
<1>5. ASSUME job.action = "uninstall"
      PROVE  LET n == Uninstalled(d) IN
             /\ n \in Configs /\ n.form # "array" /\ Theirs(n) = Theirs(d)
             /\ n.ours = "none"
  <2>1. CASE d.ours = "none"
    BY <1>1, <1>2, <2>1 DEF Uninstalled, d
  <2>2. CASE d.ours # "none" /\ d.servers # {}
    <3> DEFINE n == [d EXCEPT !.ours = "none"]
    <3>1. /\ n \in [form : {"object"}, key : {"absent", "odd", "servers"},
                    ours : {"none", "old", "current"},
                    servers : SUBSET Servers, settings : SUBSET Settings]
          /\ n.key = d.key /\ n.ours = "none" /\ n.form = "object"
          /\ n.servers = d.servers /\ n.settings = d.settings
      BY <1>2
    <3> HIDE DEF n
    <3>2. n \in Configs /\ Theirs(n) = Theirs(d)
      BY <1>2, <2>2, <3>1 DEF Configs, Theirs
    <3>3. Uninstalled(d) = n
      BY <2>2 DEF Uninstalled, n
    <3> QED
      BY <3>1, <3>2, <3>3
  <2>3. CASE d.ours # "none" /\ d.servers = {}
    <3> DEFINE n == [d EXCEPT !.ours = "none", !.key = "absent"]
    <3>1. /\ n \in [form : {"object"}, key : {"absent", "odd", "servers"},
                    ours : {"none", "old", "current"},
                    servers : SUBSET Servers, settings : SUBSET Settings]
          /\ n.ours = "none" /\ n.form = "object"
          /\ n.servers = d.servers /\ n.settings = d.settings
      BY <1>2
    <3> HIDE DEF n
    <3>2. n \in Configs /\ Theirs(n) = Theirs(d)
      BY <2>3, <3>1 DEF Configs, Theirs
    <3>3. Uninstalled(d) = n
      BY <2>3 DEF Uninstalled, n
    <3> QED
      BY <3>1, <3>2, <3>3
  <2> QED
    BY <2>1, <2>2, <2>3
<1>6. job.action \in {"install", "uninstall"}
  BY DEF AgentsTypeOK
<1>7. CASE job.action = "install"
  <2>1. Change(ReadJson(c)) = Installed(d)
    BY <1>7 DEF Change, d
  <2> QED
    BY <1>1, <1>3, <1>4, <1>7, <2>1 DEF d
<1>8. CASE job.action = "uninstall"
  <2>1. Change(ReadJson(c)) = Uninstalled(d)
    BY <1>8 DEF Change, d
  <2> QED
    BY <1>1, <1>3, <1>5, <1>8, <2>1 DEF d
<1> QED
  BY <1>6, <1>7, <1>8

LEMMA AgentsStep ==
  ASSUME AgentsTypeOK, AgentsInvariant, [AgentsNext]_agentVars
  PROVE  AgentsTypeOK' /\ AgentsInvariant'
<1> USE DEF AgentsInvariant, AgentFilesAgree, TheirsIsKept, ReportedTargetsAgree
<1>0. /\ file \in [Agents -> Configs] /\ "next" \notin Agents /\ "idle" \notin Agents
      /\ job.action \in {"install", "uninstall"} /\ job.left \subseteq Agents
      /\ job.done \subseteq Agents
  BY AgentsAssumption DEF AgentsTypeOK
<1>1. NoJob.at = "idle" /\ NoJob.done = {}
      /\ NoJob \in [action : {"install", "uninstall"}, at : {"idle", "next"} \cup Agents,
                    left : SUBSET Agents, done : SUBSET Agents]
  BY DEF NoJob
<1>2. \A c \in Configs : Theirs(c) \in [servers : SUBSET Servers, settings : SUBSET Settings]
  BY DEF Configs, Theirs, Empty
<1>3. ASSUME NEW t \in Agents
      PROVE  /\ Done(t).at = "next" /\ Done(t).action = job.action
             /\ Done(t).done = job.done \cup {t}
             /\ Done(t) \in [action : {"install", "uninstall"}, at : {"idle", "next"} \cup Agents,
                             left : SUBSET Agents, done : SUBSET Agents]
  BY <1>3 DEF Done, AgentsTypeOK
<1>4. ASSUME NEW action \in {"install", "uninstall"}, NEW targets \in SUBSET Agents,
             RunCommand(action, targets)
      PROVE  AgentsTypeOK' /\ AgentsInvariant'
  BY <1>0, <1>4 DEF RunCommand, AgentsTypeOK
<1>5. ASSUME NEW t \in Agents, HandleTarget(t)
      PROVE  AgentsTypeOK' /\ AgentsInvariant'
  <2>1. file' = file /\ kept' = kept
    BY <1>5 DEF HandleTarget
  <2>2. CASE job' = NoJob
    BY <1>0, <1>1, <2>1, <2>2 DEF AgentsTypeOK
  <2>3. CASE /\ job' = [job EXCEPT !.at = t]
             /\ file[t].form # "array"
    <3>1. job'.at = t /\ job'.done = job.done /\ job'.action = job.action
          /\ job' \in [action : {"install", "uninstall"}, at : {"idle", "next"} \cup Agents,
                       left : SUBSET Agents, done : SUBSET Agents]
      BY <2>3 DEF AgentsTypeOK
    <3> QED
      BY <2>1, <2>3, <3>1 DEF AgentsTypeOK
  <2>4. CASE /\ job' = Done(t)
             /\ file[t].form # "array"
             /\ \/ job.action = "uninstall" /\ file[t].form = "missing"
                \/ Change(ReadJson(file[t])) = ReadJson(file[t])
    <3>1. IF job.action = "install"
          THEN file[t].ours = "current" \/ file[t].key = "odd"
          ELSE file[t].ours = "none"
      <4>1. CASE job.action = "uninstall" /\ file[t].form = "missing"
        BY <1>0, <4>1 DEF Configs, Empty
      <4>2. CASE Change(ReadJson(file[t])) = ReadJson(file[t])
        BY <1>0, <2>4, <4>2, Rewritten
      <4> QED
        BY <2>4, <4>1, <4>2
    <3> QED
      BY <1>0, <1>3, <2>1, <2>4, <3>1 DEF AgentsTypeOK
  <2> QED
    BY <1>5, <2>2, <2>3, <2>4 DEF HandleTarget
<1>6. ASSUME NEW t \in Agents, WriteJson(t)
      PROVE  AgentsTypeOK' /\ AgentsInvariant'
  <2> DEFINE n == Change(ReadJson(file[t]))
  <2>1. job.at = t /\ file' = [file EXCEPT ![t] = n] /\ job' = Done(t) /\ kept' = kept
    BY <1>6 DEF WriteJson
  <2>2. file[t] \in Configs /\ file[t].form # "array"
    BY <1>0, <2>1
  <2>3. /\ n \in Configs /\ Theirs(n) = Theirs(file[t])
        /\ IF job.action = "install" THEN n.ours = "current" \/ n.key = "odd"
                                     ELSE n.ours = "none"
    BY <1>0, <2>2, Rewritten
  <2> HIDE DEF n
  <2>4. file'[t] = n /\ \A q \in Agents \ {t} : file'[q] = file[q]
    BY <1>0, <2>1
  <2>5. file' \in [Agents -> Configs]
    BY <1>0, <2>1, <2>3
  <2> QED
    BY <1>0, <1>3, <2>1, <2>3, <2>4, <2>5 DEF AgentsTypeOK
<1>7. CASE EndCommand
  BY <1>0, <1>1, <1>7 DEF EndCommand, AgentsTypeOK
<1>8. CASE EndEarly
  <2>1. job' = NoJob
    BY <1>8 DEF EndEarly
  <2>2. CASE UNCHANGED <<file, kept>>
    BY <1>0, <1>1, <2>1, <2>2 DEF AgentsTypeOK
  <2>3. CASE /\ job.at \in Agents
             /\ file' = [file EXCEPT ![job.at] = [Empty EXCEPT !.form = "broken"]]
             /\ kept' = [kept EXCEPT ![job.at] = Theirs(Empty)]
    <3> DEFINE b == [Empty EXCEPT !.form = "broken"]
    <3>1. b \in Configs /\ Theirs(b) = Theirs(Empty)
          /\ Theirs(Empty) \in [servers : SUBSET Servers, settings : SUBSET Settings]
      BY DEF Configs, Theirs, Empty
    <3> HIDE DEF b
    <3>2. file' = [file EXCEPT ![job.at] = b]
      BY <2>3 DEF b
    <3> QED
      BY <1>0, <1>1, <2>1, <2>3, <3>1, <3>2 DEF AgentsTypeOK
  <2> QED
    BY <1>8, <2>2, <2>3 DEF EndEarly
<1>9. ASSUME NEW t \in Agents, NEW c \in Configs, EditFile(t, c)
      PROVE  AgentsTypeOK' /\ AgentsInvariant'
  <2>1. job' = [job EXCEPT !.done = @ \ {t}] /\ job.at # t
    BY <1>9 DEF EditFile
  <2>2. job'.at = job.at /\ job'.action = job.action /\ job'.done = job.done \ {t}
        /\ job' \in [action : {"install", "uninstall"}, at : {"idle", "next"} \cup Agents,
                     left : SUBSET Agents, done : SUBSET Agents]
    BY <2>1 DEF AgentsTypeOK
  <2>3. file' = [file EXCEPT ![t] = c] /\ kept' = [kept EXCEPT ![t] = Theirs(c)]
    BY <1>9 DEF EditFile
  <2>4. file' \in [Agents -> Configs]
        /\ kept' \in [Agents -> [servers : SUBSET Servers, settings : SUBSET Settings]]
    BY <1>0, <1>2, <2>3 DEF AgentsTypeOK
  <2> QED
    BY <1>0, <2>1, <2>2, <2>3, <2>4 DEF AgentsTypeOK
<1>10. CASE UNCHANGED agentVars
  BY <1>10 DEF agentVars, AgentsTypeOK
<1> QED
  BY <1>4, <1>5, <1>6, <1>7, <1>8, <1>9, <1>10 DEF AgentsNext

LEMMA AgentsInvariantHolds == AgentsSpec => [](AgentsTypeOK /\ AgentsInvariant)
<1>1. AgentsInit => AgentsTypeOK /\ AgentsInvariant
  <2> SUFFICES ASSUME AgentsInit
               PROVE  AgentsTypeOK /\ AgentsInvariant
    OBVIOUS
  <2>1. \A c \in Configs : Theirs(c) \in [servers : SUBSET Servers, settings : SUBSET Settings]
    BY DEF Configs, Theirs, Empty
  <2>2. job.at = "idle" /\ job.done = {}
        /\ job \in [action : {"install", "uninstall"}, at : {"idle", "next"} \cup Agents,
                    left : SUBSET Agents, done : SUBSET Agents]
    BY DEF AgentsInit, NoJob
  <2> QED
    BY <2>1, <2>2, AgentsAssumption
       DEF AgentsInit, AgentsTypeOK, AgentsInvariant, AgentFilesAgree, TheirsIsKept,
           ReportedTargetsAgree
<1> QED
  BY <1>1, AgentsStep, PTL DEF AgentsSpec

\* Agents keep what is theirs and reports are true, for any number of agents
\* and any content of their files.
THEOREM AgentFilesStayAgreed == AgentsSpec => []AgentFilesAgree
BY AgentsInvariantHolds, PTL DEF AgentsInvariant

-----------------------------------------------------------------------------
(* The services side by side *)

\* No part is disturbed by the steps of another.
LEMMA PartsAreThemselves ==
  Spec => AccountsSpec /\ BrowserSpec /\ McpSpec /\ HarnessSpec /\ AgentsSpec
<1>1. Init => AccountsInit /\ BrowserInit /\ McpInit /\ HarnessInit /\ AgentsInit
  BY DEF Init
<1>2. [Next]_vars =>
        /\ [AccountsNext]_accountVars
        /\ [BrowserNext]_browserVars
        /\ [McpNext]_mcpVars
        /\ [HarnessNext]_harnessVars
        /\ [AgentsNext]_agentVars
  BY DEF Next, vars, accountsRest, browserRest, mcpRest, harnessRest, agentsRest
<1> QED
  BY <1>1, <1>2, PTL DEF Spec, AccountsSpec, BrowserSpec, McpSpec, HarnessSpec, AgentsSpec

\* Every variable of the services has its type: for any number of users,
\* invitations, browsers, tool calls and agents, and one command of the harness.
THEOREM ServicesTypeCorrect ==
  ASSUME NEW p, Commands = {p}
  PROVE  Spec => []TypeOK
<1>1. AccountsSpec => []AccountsTypeOK
  BY AccountsInvariantHolds, PTL
<1>2. BrowserSpec => []BrowserTypeOK
  BY BrowserInvariantHolds, PTL
<1>3. McpSpec => []McpTypeOK
  BY McpInvariantHolds, PTL
<1>4. HarnessSpec => []HarnessTypeOK
  BY HarnessTypeCorrect
<1>5. AgentsSpec => []AgentsTypeOK
  BY AgentsInvariantHolds, PTL
<1> QED
  BY <1>1, <1>2, <1>3, <1>4, <1>5, PartsAreThemselves, PTL DEF TypeOK

=============================================================================
