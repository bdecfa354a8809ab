--------------------------- MODULE BrowserSession ---------------------------
(***************************************************************************)
(* One browser, its token cookies, and the server that issues and checks   *)
(* them (backend/auth/tokens.py, dependencies.py, routes/auth.py, views.py).*)
(* Requests overlap, and their answers arrive in any order.                *)
(***************************************************************************)
CONSTANTS
    Calls,          \* slots for the browser's requests
    Users,
    Changing,       \* a bound: the accounts that change while tokens are out
    AutoLogin,      \* the account of config.auth.dev_auto_login_email, or NoUser
    NoUser

ASSUME BrowserAssumption ==
    /\ NoUser \notin Users /\ Changing \subseteq Users
    /\ AutoLogin \in Users \cup {NoUser}

UserRoles == {"admin", "member"}

\* The claims of an access token, with the role at issue time.  A refresh token
\* has its subject only.
Tokens == [user : Users \cup {NoUser}, role : UserRoles]

NoToken == [user |-> NoUser, role |-> "member"]

SignIns == {"login", "callback", "register", "dev_login_form"}
Pages == {"page", "admin"}
Kinds == SignIns \cup Pages \cup {"bearer", "logout", "refresh"}

VARIABLES
    account,    \* the committed users rows: absent, active, inactive or deleted
    role,       \* their roles
    uncommitted,    \* accounts whose request has answered and not committed yet
    access, refresh,    \* the cookies
    call,       \* [kind, user, access, refresh, state, as, set, clear] of a request
    signedOut   \* a log-out has been answered, and nothing is left of before

browserVars ==
    <<account, role, uncommitted, access, refresh, call, signedOut>>

FreeCall ==
    [kind |-> "page", user |-> NoUser, access |-> NoToken, refresh |-> NoUser,
     state |-> "free", as |-> NoUser, set |-> NoToken, clear |-> FALSE]

CallRecords ==
    [kind : Kinds, user : Users \cup {NoUser},
     access : Tokens, refresh : Users \cup {NoUser},
     state : {"free", "sent", "answered"},
     as : Users \cup {NoUser}, set : Tokens, clear : BOOLEAN]

BrowserTypeOK ==
    /\ account \in [Users -> {"absent", "active", "inactive", "deleted"}]
    /\ role \in [Users -> UserRoles]
    /\ uncommitted \subseteq Users
    /\ access \in Tokens /\ refresh \in Users \cup {NoUser}
    /\ call \in [Calls -> CallRecords]
    /\ signedOut \in BOOLEAN

BrowserInit ==
    /\ account = [u \in Users |-> "absent"]
    /\ role \in [Users -> UserRoles]
    /\ uncommitted = {}
    /\ access = NoToken /\ refresh = NoUser
    /\ call = [c \in Calls |-> FreeCall]
    /\ signedOut = FALSE

Idle == \A c \in Calls : call[c].state = "free"

-----------------------------------------------------------------------------
(* The browser *)

\* A request carries the cookies as they are when it is sent, or for a bearer
\* call the access token in the Authorization header.
Send(c, kind, u) ==
    /\ call[c].state = "free"
    /\ kind \in SignIns <=> u # NoUser
    /\ call' = [call EXCEPT ![c] = [FreeCall EXCEPT
                   !.kind = kind, !.user = u, !.state = "sent",
                   !.access = IF kind \in Pages \cup {"bearer"} THEN access ELSE @,
                   !.refresh = IF kind \in Pages \cup {"refresh"} THEN refresh ELSE @]]
    /\ signedOut' = (signedOut /\ kind \notin SignIns)
    /\ UNCHANGED <<account, role, uncommitted, access, refresh>>

\* Mutant: an answer renews the access cookie only.
ReceiveAccess(c) ==
    /\ call[c].state = "answered"
    /\ access' = IF call[c].clear THEN NoToken
                 ELSE IF call[c].set = NoToken THEN access ELSE call[c].set
    /\ refresh' = IF call[c].clear THEN NoUser
                  ELSE IF refresh = NoUser THEN call[c].set.user ELSE refresh
    /\ signedOut' =
          (signedOut \/ (call[c].clear /\ \A d \in Calls \ {c} : call[d].state = "free"))
    /\ call' = [call EXCEPT ![c] = FreeCall]
    /\ UNCHANGED <<account, role, uncommitted>>

\* Mutant: logging out leaves the refresh cookie.
ReceiveKeepingRefresh(c) ==
    /\ call[c].state = "answered"
    /\ access' = IF call[c].clear THEN NoToken
                 ELSE IF call[c].set = NoToken THEN access ELSE call[c].set
    /\ refresh' = IF call[c].set = NoToken THEN refresh ELSE call[c].set.user
    /\ signedOut' =
          (signedOut \/ (call[c].clear /\ \A d \in Calls \ {c} : call[d].state = "free"))
    /\ call' = [call EXCEPT ![c] = FreeCall]
    /\ UNCHANGED <<account, role, uncommitted>>

\* The cookies of an answer are stored together.
Receive(c) ==
    /\ call[c].state = "answered"
    /\ access' = IF call[c].clear THEN NoToken
                 ELSE IF call[c].set = NoToken THEN access ELSE call[c].set
    /\ refresh' = IF call[c].clear THEN NoUser
                  ELSE IF call[c].set = NoToken THEN refresh ELSE call[c].set.user
    /\ signedOut' =
          (signedOut \/ (call[c].clear /\ \A d \in Calls \ {c} : call[d].state = "free"))
    /\ call' = [call EXCEPT ![c] = FreeCall]
    /\ UNCHANGED <<account, role, uncommitted>>

\* The access cookie lives for minutes, the refresh cookie for days; each
\* answer starts both.
AccessCookieExpires ==
    /\ access # NoToken
    /\ access' = NoToken
    /\ UNCHANGED <<account, role, uncommitted, refresh, call, signedOut>>

RefreshCookieExpires ==
    /\ access = NoToken /\ refresh # NoUser
    /\ refresh' = NoUser
    /\ UNCHANGED <<account, role, uncommitted, access, call, signedOut>>

-----------------------------------------------------------------------------
(* The server *)

Active(u) == u # NoUser /\ account[u] = "active"

Exists(u) == account[u] \in {"active", "inactive"}

\* create_access_token and create_refresh_token for the row as it is now.
Issue(u) == [user |-> u, role |-> role[u]]

Answer(c, as, set) ==
    call' = [call EXCEPT ![c] = [FreeCall EXCEPT
                !.kind = call[c].kind, !.state = "answered", !.as = as, !.set = set]]

\* 401, 403 or a redirect to the login page: cookies that a dependency has set
\* are not on the answer.
Refused(c) == Answer(c, NoUser, NoToken)

\* get_current_user, whose selects read the row of the token's subject: who the
\* caller is, and whether that takes new tokens.  A token that was valid when
\* it was sent may have expired.
Heals(c, accessValid) == ~accessValid /\ call[c].kind # "bearer"

Caller(c, accessValid, refreshValid) ==
    IF accessValid
    THEN IF Active(call[c].access.user) THEN call[c].access.user ELSE NoUser
    ELSE IF ~Heals(c, accessValid) THEN NoUser
    ELSE IF refreshValid /\ Active(call[c].refresh) THEN call[c].refresh
    ELSE IF Active(AutoLogin) THEN AutoLogin
    ELSE NoUser

\* A page, an admin page (get_current_admin_user) or an API call.  The new
\* cookies reach the browser unless the route returns a Response of its own.
Authenticate(c) ==
    /\ call[c].kind \in Pages \cup {"bearer"}
    /\ \E accessValid, refreshValid, ownResponse \in BOOLEAN :
          LET u == Caller(c, accessValid, refreshValid) IN
          /\ accessValid => call[c].access # NoToken
          /\ refreshValid => call[c].refresh # NoUser
          /\ IF u = NoUser \/ (call[c].kind = "admin" /\ role[u] # "admin")
             THEN Refused(c)
             ELSE Answer(c, u, IF Heals(c, accessValid) /\ ~ownResponse
                               THEN Issue(u) ELSE NoToken)
    /\ UNCHANGED <<account, uncommitted>>

\* auth_login, login_form: a wrong password is refused like an inactive account.
Login(c) ==
    /\ call[c].kind = "login"
    /\ \/ Active(call[c].user) /\ Answer(c, call[c].user, Issue(call[c].user))
       \/ Refused(c)
    /\ UNCHANGED <<account, uncommitted>>

\* auth_callback of a person who has an account, active or not.
Callback(c) ==
    /\ call[c].kind = "callback"
    /\ IF Exists(call[c].user)
       THEN Answer(c, call[c].user, Issue(call[c].user))
       ELSE Refused(c)
    /\ UNCHANGED <<account, uncommitted>>

\* auth_register, register_form, and auth_callback of a new person: the answer
\* goes out before the session of the request commits.
Register(c) ==
    /\ call[c].kind = "register"
    /\ \/ /\ account[call[c].user] = "absent" /\ call[c].user \notin uncommitted
          /\ uncommitted' = uncommitted \cup {call[c].user}
          /\ Answer(c, call[c].user, Issue(call[c].user))
       \/ Refused(c) /\ UNCHANGED uncommitted
    /\ UNCHANGED account

CommitAccount(u) ==
    /\ u \in uncommitted
    /\ account' = [account EXCEPT ![u] = "active"]
    /\ uncommitted' = uncommitted \ {u}
    /\ UNCHANGED <<role, access, refresh, call, signedOut>>

LoseAccount(u) ==
    /\ u \in uncommitted
    /\ uncommitted' = uncommitted \ {u}
    /\ UNCHANGED <<account, role, access, refresh, call, signedOut>>

\* dev_login_form: scope="function" commits the new account before the answer.
DevLogin(c) ==
    /\ call[c].kind = "dev_login_form"
    /\ LET u == call[c].user IN
       \/ Exists(u) /\ Answer(c, u, Issue(u)) /\ UNCHANGED account
       \/ /\ account[u] = "absent" /\ u \notin uncommitted
          /\ account' = [account EXCEPT ![u] = "active"]
          /\ Answer(c, u, Issue(u))
       \/ Refused(c) /\ UNCHANGED account
    /\ UNCHANGED uncommitted

\* auth_logout, logout_view.
Logout(c) ==
    /\ call[c].kind = "logout"
    /\ call' = [call EXCEPT ![c] = [FreeCall EXCEPT
                   !.kind = "logout", !.state = "answered", !.clear = TRUE]]
    /\ UNCHANGED <<account, uncommitted>>

\* auth_refresh: int() of the subject, a UUID, raises before the account is
\* looked up, so that every valid token is answered with an error.
Refresh(c) ==
    /\ call[c].kind = "refresh"
    /\ Refused(c)
    /\ UNCHANGED <<account, uncommitted>>

Handle(c) ==
    /\ call[c].state = "sent"
    /\ \/ Authenticate(c) \/ Login(c) \/ Callback(c) \/ Register(c)
       \/ DevLogin(c) \/ Logout(c) \/ Refresh(c)
    /\ UNCHANGED <<role, access, refresh, signedOut>>

\* Accounts change while tokens for them are out: delete_user removes the row;
\* is_active and role have no route, and are changed at the database.
AccountChanges(u) ==
    /\ Exists(u)
    /\ \/ /\ account' = [account EXCEPT ![u] = IF @ = "active" THEN "inactive" ELSE "active"]
          /\ UNCHANGED role
       \/ /\ account' = [account EXCEPT ![u] = "deleted"] /\ UNCHANGED role
       \/ /\ role' = [role EXCEPT ![u] = IF @ = "admin" THEN "member" ELSE "admin"]
          /\ UNCHANGED account
    /\ UNCHANGED <<uncommitted, access, refresh, call, signedOut>>

BrowserNext ==
    \/ \E c \in Calls, kind \in Kinds, u \in Users \cup {NoUser} : Send(c, kind, u)
    \/ \E c \in Calls : Handle(c) \/ Receive(c)
    \/ \E u \in Users : CommitAccount(u) \/ LoseAccount(u)
    \/ \E u \in Changing : AccountChanges(u)
    \/ AccessCookieExpires \/ RefreshCookieExpires

BrowserSpec == BrowserInit /\ [][BrowserNext]_browserVars

-----------------------------------------------------------------------------
(* Properties *)

\* The two cookies are never of two accounts, and there is no access cookie
\* without the refresh cookie that can renew it, whatever the order in which
\* answers to sign-ins, self-healed pages and log-outs arrive.
CookiesAgree ==
    access # NoToken => refresh # NoUser /\ refresh = access.user

\* A browser that has logged out, with no other request under way, stays
\* logged out until somebody signs in (or development signs it in).
LoggedOutStaysOut ==
    signedOut => {access.user, refresh} \subseteq {NoUser, AutoLogin}

(* Why: what requests carry and answers set *)

Outsiders == {NoUser, AutoLogin}

BrowserInvariant ==
    /\ CookiesAgree /\ LoggedOutStaysOut
    /\ \A c \in Calls :
          /\ call[c].state = "free" => call[c] = FreeCall
          /\ call[c].state = "sent" /\ call[c].kind \in SignIns => call[c].user # NoUser
          /\ call[c].set # NoToken => call[c].set.user # NoUser
          /\ signedOut =>
                /\ call[c].state = "sent" => call[c].kind \notin SignIns
                /\ {call[c].access.user, call[c].refresh, call[c].set.user} \subseteq Outsiders

(* A claim of the repository that a run refutes *)

\* "Exchange a valid refresh token for a new access + refresh token pair"
\* (src/backend/auth/routes/auth.py:69).
RefreshExchanges ==
    [][\A c \in Calls :
          /\ call[c].kind = "refresh" /\ call[c].state = "sent"
          /\ call'[c].state = "answered"
          /\ Active(call[c].refresh)
          => call'[c].set # NoToken]_browserVars

=============================================================================
