------------------------------ MODULE Accounts ------------------------------
(***************************************************************************)
(* Invitations, accounts and their credentials (backend/auth, backend/users)*)
(* under concurrent requests.  Every request is one READ COMMITTED          *)
(* transaction: a select sees the last commits, a flush takes row and key   *)
(* locks and checks the constraints, and what was flushed shows at commit.  *)
(***************************************************************************)

CONSTANTS
    Requests,           \* request slots: a slot serves one request after another
    Emails,
    Guests,             \* the addresses that admins invite
    Boss,               \* config.auth.bootstrap_admin_email
    Subjects,           \* the provider's identifiers of persons (provider_sub)
    UserIds,            \* identifiers: enough of them for the rows that exist
    InvitationIds       \* and the ones that requests still have in hand

ASSUME AccountsAssumption ==
    /\ Boss \in Emails /\ Guests \subseteq Emails
    /\ Subjects # {} /\ "password" \notin Subjects

Roles == {"admin", "member"}

UserRows == [id : UserIds, email : Emails, role : Roles]
InvitationRows ==
    [id : InvitationIds, email : Emails, role : Roles, by : UserIds,
     accepted : BOOLEAN]

\* A user_passwords row (unique per user) or a user_auth_providers row (unique
\* per subject).
CredentialRows == [user : UserIds, key : Subjects \cup {"password"}]

\* The rows that a transaction has inserted, accepted or deleted.
Writes ==
    [user : SUBSET UserRows, credential : SUBSET CredentialRows,
     invite : SUBSET InvitationRows, accept : SUBSET InvitationRows,
     revoke : SUBSET InvitationRows, remove : SUBSET UserRows]

NoWrites ==
    [user |-> {}, credential |-> {}, invite |-> {}, accept |-> {},
     revoke |-> {}, remove |-> {}]

Ops == {"callback", "register", "dev", "create", "invite", "revoke", "delete"}

VARIABLES
    users, invitations, credentials,    \* the committed rows
    step,       \* the statement a request executes next
    input,      \* [op, email, subject, role] of the request
    found,      \* the row that its selects have loaded, as a set
    work        \* what it has flushed

accountVars == <<users, invitations, credentials, step, input, found, work>>

rows == <<users, invitations, credentials>>

Steps ==
    {"idle", "provider", "email", "invitation", "insert", "link", "exists",
     "invite", "load", "delete", "commit"}

Inputs == [op : Ops, email : Emails, subject : Subjects, role : Roles]

AccountsTypeOK ==
    /\ users \subseteq UserRows
    /\ invitations \subseteq InvitationRows
    /\ credentials \subseteq CredentialRows
    /\ step \in [Requests -> Steps]
    /\ input \in [Requests -> Inputs]
    /\ found \in [Requests -> SUBSET (UserRows \cup InvitationRows)]
    /\ work \in [Requests -> Writes]

\* The body of a request: the subject is for callbacks, the role for invitations.
AnySubject == CHOOSE s \in Subjects : TRUE

Bodies ==
    {in \in Inputs : /\ in.op # "callback" => in.subject = AnySubject
                     /\ IF in.op = "invite" THEN in.email \in Guests
                                            ELSE in.role = "member"}

AnyInput == [op |-> "create", email |-> Boss, subject |-> AnySubject, role |-> "member"]

AccountsInit ==
    /\ users = {} /\ invitations = {} /\ credentials = {}
    /\ step = [r \in Requests |-> "idle"]
    /\ input = [r \in Requests |-> AnyInput]
    /\ found = [r \in Requests |-> {}]
    /\ work = [r \in Requests |-> NoWrites]

-----------------------------------------------------------------------------
(* Transactions *)

Ids(S) == {x.id : x \in S}

\* The users rows that flushed rows reference, and so keep from being deleted.
Referenced(w) == {c.user : c \in w.credential} \cup {i.by : i \in w.invite}

\* v has to wait for the end of the transaction that has flushed w: they write
\* the same row, insert the same unique key, or one deletes what the other uses.
Blocks(v, w) ==
    \/ \E a \in v.user, b \in w.user \cup w.remove : a.email = b.email
    \/ \E a \in v.invite, b \in w.invite \cup w.revoke : a.email = b.email
    \/ \E a \in v.credential, b \in w.credential : a.key = b.key /\ a.key \in Subjects
    \/ Ids(v.accept \cup v.revoke) \cap Ids(w.accept \cup w.revoke) # {}
    \/ Ids(v.remove) \cap (Ids(w.remove) \cup Referenced(w)) # {}
    \/ Referenced(v) \cap Ids(w.remove) # {}

\* Mutant: no foreign key keeps an account that has credentials.
ViolatesUniqueness(r, w) ==
    \/ \E a \in w.user, b \in users : a.email = b.email
    \/ \E a \in w.invite, b \in invitations : a.email = b.email
    \/ \E a \in w.credential, b \in credentials : a.key = b.key /\ a.key \in Subjects

\* IntegrityError: a unique constraint, or a foreign key without ON DELETE.
ViolatesConstraint(r, w) ==
    \/ \E a \in w.user, b \in users : a.email = b.email
    \/ \E a \in w.invite, b \in invitations : a.email = b.email
    \/ \E a \in w.credential, b \in credentials : a.key = b.key /\ a.key \in Subjects
    \/ ~ Referenced(w) \subseteq Ids(users \cup work[r].user)
    \/ \E u \in Ids(w.remove) :
          \/ \E c \in credentials : c.user = u
          \/ \E i \in invitations : i.by = u

\* Mutant: an update that finds no row is passed over.
UpdatesMissingRowQuietly(w) == FALSE

\* StaleDataError: an UPDATE by primary key that finds no row.  (A DELETE that
\* finds none is only warned about.)
UpdatesMissingRow(w) == ~ Ids(w.accept) \subseteq Ids(invitations)

Merge(v, w) ==
    [user |-> v.user \cup w.user, credential |-> v.credential \cup w.credential,
     invite |-> v.invite \cup w.invite, accept |-> v.accept \cup w.accept,
     revoke |-> v.revoke \cup w.revoke, remove |-> v.remove \cup w.remove]

Goto(r, s) == step' = [step EXCEPT ![r] = s]

\* The request ends and its session keeps nothing: an error answer, or an
\* exception that rolls back.
End(r) ==
    /\ Goto(r, "idle")
    /\ input' = [input EXCEPT ![r] = AnyInput]
    /\ found' = [found EXCEPT ![r] = {}]
    /\ work' = [work EXCEPT ![r] = NoWrites]

Refuse(r) == End(r) /\ UNCHANGED rows

Flush(r, w, next) ==
    /\ \A s \in Requests \ {r} : ~Blocks(w, work[s])
    /\ IF ViolatesConstraint(r, w) \/ UpdatesMissingRow(w)
       THEN Refuse(r)
       ELSE /\ work' = [work EXCEPT ![r] = Merge(@, w)]
            /\ found' = [found EXCEPT ![r] = {}]
            /\ Goto(r, next)
            /\ UNCHANGED <<rows, input>>

Select(r, result, next) ==
    /\ found' = [found EXCEPT ![r] = result]
    /\ Goto(r, next)
    /\ UNCHANGED <<rows, input, work>>

Accepted(i) == [i EXCEPT !.accepted = TRUE]

\* get_db_session commits when the handler has returned.
Commit(r) ==
    /\ step[r] = "commit"
    /\ LET w == work[r]
           kept == {i \in invitations : i.id \notin Ids(w.revoke)} IN
       /\ users' = {u \in users : u.id \notin Ids(w.remove)} \cup w.user
       /\ invitations' =
             {i \in kept : i.id \notin Ids(w.accept)}
                \cup {Accepted(i) : i \in {j \in kept : j.id \in Ids(w.accept)}}
                \cup w.invite
       /\ credentials' = credentials \cup w.credential
    /\ End(r)

\* A lost connection, or an error of the database, ends a request early.
Abort(r) ==
    /\ step[r] # "idle"
    /\ Refuse(r)

-----------------------------------------------------------------------------
(* Requests *)

FirstStep(op) ==
    CASE op = "callback" -> "provider"
      [] op \in {"register", "dev"} -> "email"
      [] op = "create" -> "insert"
      [] op = "invite" -> "exists"
      [] op \in {"revoke", "delete"} -> "load"

\* A request arrives.  Invitations are for admins: get_current_admin_user reads
\* the row of the caller.
Arrive(r, in) ==
    /\ step[r] = "idle"
    /\ LET admins == {u \in users : u.role = "admin"} IN
       IF in.op \in {"invite", "revoke"}
       THEN \E u \in admins : found' = [found EXCEPT ![r] = {u}]
       ELSE UNCHANGED found
    /\ input' = [input EXCEPT ![r] = in]
    /\ Goto(r, FirstStep(in.op))
    /\ UNCHANGED <<rows, work>>

\* login_with_provider, 1: the linked account signs in.
FindByProvider(r) ==
    /\ step[r] = "provider"
    /\ IF \E c \in credentials : c.key = input[r].subject
       THEN Refuse(r)       \* signed in, nothing to write
       ELSE Select(r, {}, "email")

\* login_with_provider, 2, register_with_password and the development login:
\* an account that has the address is linked, refused or signed in.
FindByEmail(r) ==
    /\ step[r] = "email"
    /\ LET same == {u \in users : u.email = input[r].email} IN
       IF same = {} THEN Select(r, {}, "invitation")
       ELSE IF input[r].op = "callback" THEN Select(r, same, "link")
       ELSE Refuse(r)

\* Whether expires_at has passed is for the clock to say.
FindPendingInvitation(r) ==
    /\ step[r] = "invitation"
    /\ \E expired \in BOOLEAN :
          LET pending == {i \in invitations : /\ i.email = input[r].email
                                              /\ ~i.accepted /\ ~expired} IN
          IF pending # {} \/ input[r].email = Boss
          THEN Select(r, pending, "insert")
          ELSE Refuse(r)

\* Mutant: an account made by an API call has no role yet.
NewRoleUnset(r) ==
    IF input[r].op = "create" THEN "none"
    ELSE IF found[r] = {} THEN "admin"
    ELSE (CHOOSE i \in found[r] : TRUE).role

\* Mutant: the role of the invitation is not looked at.
NewRoleOfAddress(r) == IF input[r].email = Boss THEN "admin" ELSE "member"

\* The role of a new account: the invitation's, or the bootstrap admin's.
NewRole(r) ==
    IF input[r].op = "create" THEN "member"
    ELSE IF found[r] = {} THEN "admin"
    ELSE (CHOOSE i \in found[r] : TRUE).role

\* UUIDs and sequence values are never drawn twice: a new identifier is one that
\* no row and no request mentions.
FreeUserIds ==
    UserIds \ (Ids(users) \cup
        UNION {Ids(work[r].user \cup work[r].remove \cup found[r]) : r \in Requests})

FreeInvitationIds ==
    InvitationIds \ (Ids(invitations) \cup
        UNION {Ids(work[r].invite \cup work[r].accept \cup work[r].revoke \cup found[r]) :
                  r \in Requests})

NewUser(r, id) == [id |-> id, email |-> input[r].email, role |-> NewRole(r)]

\* The first flush: the users row and the acceptance of the invitation.
InsertUser(r) ==
    /\ step[r] = "insert"
    /\ \E id \in FreeUserIds :
          Flush(r, [NoWrites EXCEPT !.user = {NewUser(r, id)}, !.accept = found[r]],
                IF input[r].op \in {"callback", "register"} THEN "link" ELSE "commit")

Owner(r) == CHOOSE u \in (IF work[r].user = {} THEN found[r] ELSE work[r].user) : TRUE

\* The second flush: the password row or the provider's link.
InsertCredential(r) ==
    /\ step[r] = "link"
    /\ LET key == IF input[r].op = "register" THEN "password" ELSE input[r].subject IN
       Flush(r, [NoWrites EXCEPT !.credential = {[user |-> Owner(r).id, key |-> key]}],
             "commit")

\* create_invitation: the address must not have an invitation.
FindInvitationByEmail(r) ==
    /\ step[r] = "exists"
    /\ IF \E i \in invitations : i.email = input[r].email
       THEN Refuse(r)
       ELSE Select(r, found[r], "invite")

InsertInvitation(r) ==
    /\ step[r] = "invite"
    /\ \E admin \in found[r], id \in FreeInvitationIds :
          Flush(r, [NoWrites EXCEPT !.invite =
                       {[id |-> id, email |-> input[r].email,
                         role |-> input[r].role, by |-> admin.id,
                         accepted |-> FALSE]}], "commit")

\* revoke_invitation and delete_user load the row and then delete it.
Load(r) ==
    /\ step[r] = "load"
    /\ LET table == IF input[r].op = "revoke" THEN invitations ELSE users
           row == {x \in table : x.email = input[r].email} IN
       IF row = {} THEN Refuse(r) ELSE Select(r, row, "delete")

Delete(r) ==
    /\ step[r] = "delete"
    /\ Flush(r, IF input[r].op = "revoke"
                THEN [NoWrites EXCEPT !.revoke = found[r]]
                ELSE [NoWrites EXCEPT !.remove = found[r]], "commit")

RequestStep(r) ==
    \/ FindByProvider(r) \/ FindByEmail(r) \/ FindPendingInvitation(r)
    \/ InsertUser(r) \/ InsertCredential(r)
    \/ FindInvitationByEmail(r) \/ InsertInvitation(r)
    \/ Load(r) \/ Delete(r)
    \/ Commit(r)

AccountsNext ==
    \/ \E r \in Requests, in \in Bodies : Arrive(r, in)
    \/ \E r \in Requests : RequestStep(r) \/ Abort(r)

AccountsSpec == AccountsInit /\ [][AccountsNext]_accountVars

-----------------------------------------------------------------------------
(* Properties *)

\* A password or a provider's link always leads to an account: delete_user is
\* refused while it has one, also while a login is just about to link it.
CredentialsNameAccounts == \A c \in credentials : c.user \in Ids(users)

\* An invitation is marked accepted only together with the creation of the
\* account it grants, in its role: neither a registration that fails after
\* marking it, nor a revocation or a new invitation in between, leaves one
\* without the other.
AcceptanceIsAJoin ==
    [][\A i \in invitations' :
          i.accepted /\ (\A j \in invitations : j.id = i.id => ~j.accepted) =>
              \E u \in users' \ users : u.email = i.email /\ u.role = i.role]_accountVars

\* What the tables promise to a reader who sees only the list of members and
\* the list of invitations.
Guest(x) == [email |-> x.email, role |-> x.role]

List == INSTANCE GuestList WITH
    members <- {Guest(u) : u \in users},
    invited <- {Guest(i) : i \in invitations}

\* However requests interleave, every commit is one step of the guest list.
GuestListRefined == List!Spec

(* Why: the inductive invariant *)

\* The addresses of rows are unique, and inviters exist.
TablesConsistent ==
    /\ \A a, b \in users : a.email = b.email \/ a.id = b.id => a = b
    /\ \A a, b \in invitations : a.email = b.email \/ a.id = b.id => a = b
    /\ \A i \in invitations : \E u \in users : u.id = i.by /\ u.role = "admin"

\* A transaction that has flushed can commit: its constraints hold, and go on
\* to hold when others commit, because of what it keeps locked.
NewRowsFit(w) ==
    /\ \A a \in w.user, b \in users : a.email # b.email /\ a.id # b.id
    /\ \A a \in w.invite, b \in invitations : a.email # b.email /\ a.id # b.id

ReferencesHold(w) ==
    /\ \A c \in w.credential : c.user \in Ids(users \cup w.user)
    /\ \A i \in w.invite : \E u \in users : u.id = i.by /\ u.role = "admin"

AcceptedStand(w) ==
    \A i \in w.accept : \E j \in invitations : j.id = i.id /\ Guest(j) = Guest(i)

NothingRefersTo(w) ==
    \A u \in Ids(w.remove) : /\ \A c \in credentials : c.user # u
                             /\ \A i \in invitations : i.by # u

Committable(w) ==
    NewRowsFit(w) /\ ReferencesHold(w) /\ AcceptedStand(w) /\ NothingRefersTo(w)

Compatible(v, w) ==
    /\ \A a \in v.user, b \in w.user : a.email # b.email /\ a.id # b.id
    /\ \A a \in v.invite, b \in w.invite : a.email # b.email /\ a.id # b.id
    /\ Ids(v.accept) \cap Ids(w.revoke) = {}
    /\ Referenced(v) \cap Ids(w.remove) = {}

\* What a transaction has flushed is the work of one handler: an account that is
\* granted, with its credential, or one row of another kind.
JoinWork(w) ==
    /\ w.invite = {} /\ w.revoke = {} /\ w.remove = {}
    /\ \/ w.user = {} /\ w.accept = {}
       \/ \E u \in UserRows :
             /\ w.user = {u}
             /\ \/ /\ w.accept = {}
                   /\ u.role = "member" \/ Guest(u) = [email |-> Boss, role |-> "admin"]
                \/ \E i \in InvitationRows : w.accept = {i} /\ Guest(i) = Guest(u)

OtherWork(w) ==
    /\ w.user = {} /\ w.accept = {} /\ w.credential = {}
    /\ \/ w.revoke = {} /\ w.remove = {}
          /\ \E i \in InvitationRows : w.invite = {i} /\ ~i.accepted
       \/ w.invite = {} /\ (w.revoke = {} \/ w.remove = {})

Shaped(r) ==
    /\ step[r] \notin {"link", "commit"} => work[r] = NoWrites
    /\ step[r] = "link" => JoinWork(work[r])
    /\ JoinWork(work[r]) \/ OtherWork(work[r])

\* An identifier is never drawn twice: a row that was loaded, if it is still
\* there, is as it was loaded (but for the acceptance).
KnownUser(u) ==
    /\ \A v \in users : v.id = u.id => v = u
    /\ \A s \in Requests : \A v \in work[s].user : v.id # u.id

KnownInvitation(i) ==
    /\ \A j \in invitations : j.id = i.id => Guest(j) = Guest(i)
    /\ \A s \in Requests : \A j \in work[s].invite : j.id # i.id

Informed(r) ==
    LET f == found[r] IN
    /\ input[r].op = "create" => step[r] \in {"idle", "insert", "commit"}
    /\ step[r] \in {"idle", "provider", "email", "invitation"} => f = {}
    /\ step[r] = "insert" =>
          /\ f = {} \/ \E i \in InvitationRows :
                          f = {i} /\ i.email = input[r].email /\ KnownInvitation(i)
          /\ input[r].op = "create" => f = {}
          /\ input[r].op # "create" /\ f = {} => input[r].email = Boss
    /\ step[r] = "link" => f \subseteq UserRows /\ f \cup work[r].user # {}
    /\ step[r] \in {"exists", "invite"} =>
          f \subseteq UserRows /\ \A u \in f : u.role = "admin" /\ KnownUser(u)
    /\ step[r] = "delete" =>
          f \subseteq (IF input[r].op = "revoke" THEN InvitationRows ELSE UserRows)

AccountsInvariant ==
    /\ TablesConsistent /\ CredentialsNameAccounts
    /\ \A r \in Requests : Committable(work[r]) /\ Shaped(r) /\ Informed(r)
    /\ \A r, s \in Requests : r # s => Compatible(work[r], work[s])

=============================================================================
