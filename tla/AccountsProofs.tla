--------------------------- MODULE AccountsProofs ---------------------------
(***************************************************************************)
(* Proofs about Accounts, for every number of requests, addresses and       *)
(* persons: the tables stay consistent, an invitation is accepted only by   *)
(* the creation of its account, and every commit is one step of GuestList.  *)
(***************************************************************************)
EXTENDS Accounts, TLAPS

Inv == AccountsTypeOK /\ AccountsInvariant

LEMMA NoWritesShape ==
  /\ NoWrites \in Writes /\ JoinWork(NoWrites)
  /\ NoWrites.user = {} /\ NoWrites.credential = {} /\ NoWrites.invite = {}
  /\ NoWrites.accept = {} /\ NoWrites.revoke = {} /\ NoWrites.remove = {}
BY DEF NoWrites, Writes, JoinWork

LEMMA AnyInputIsInput == AnyInput \in Inputs
BY AccountsAssumption DEF AnyInput, Inputs, Ops, Roles, AnySubject

(* Steps that read *)

\* A request that only reads leaves the others as they are.
LEMMA ReadersPreserve ==
  ASSUME Inv, NEW r \in Requests, NEW at \in Steps, NEW in \in Inputs,
         NEW f \in SUBSET (UserRows \cup InvitationRows),
         step' = [step EXCEPT ![r] = at],
         input' = [input EXCEPT ![r] = in],
         found' = [found EXCEPT ![r] = f],
         UNCHANGED <<rows, work>>,
         Shaped(r)', Informed(r)'
  PROVE  Inv'
<1>1. AccountsTypeOK'
  BY DEF Inv, AccountsTypeOK, rows
<1>2. ASSUME NEW s \in Requests \ {r}
      PROVE  Shaped(s)' /\ Informed(s)'
  <2>1. /\ step'[s] = step[s] /\ input'[s] = input[s] /\ found'[s] = found[s]
        /\ work'[s] = work[s]
    BY DEF Inv, AccountsTypeOK
  <2>2. Shaped(s) /\ Informed(s)
    BY DEF Inv, AccountsInvariant
  <2>3. Shaped(s)'
    BY <2>1, <2>2 DEF Shaped
  <2>4. \A x : (KnownUser(x)' <=> KnownUser(x)) /\ (KnownInvitation(x)' <=> KnownInvitation(x))
    BY DEF KnownUser, KnownInvitation, rows
  <2> QED
    BY <2>1, <2>2, <2>3, <2>4 DEF Informed
<1>3. \A s \in Requests : Shaped(s)' /\ Informed(s)'
  BY <1>2
<1>4. ASSUME NEW s \in Requests
      PROVE  Committable(work[s])'
  <2>1. Committable(work[s])
    BY DEF Inv, AccountsInvariant
  <2>2. users' = users /\ invitations' = invitations /\ credentials' = credentials
    BY DEF rows
  <2> QED
    BY <2>1, <2>2 DEF Committable, NewRowsFit, ReferencesHold, AcceptedStand, NothingRefersTo
<1>5. (TablesConsistent /\ CredentialsNameAccounts)'
  BY DEF Inv, AccountsInvariant, TablesConsistent, CredentialsNameAccounts, rows
<1>6. \A s, t \in Requests : s # t => Compatible(work[s], work[t])'
  BY DEF Inv, AccountsInvariant
<1> QED
  BY <1>1, <1>3, <1>4, <1>5, <1>6 DEF Inv, AccountsInvariant

\* What stands in a table is known: nobody has flushed another row with its id.
LEMMA RowsAreKnown ==
  ASSUME Inv
  PROVE  /\ \A u \in users : KnownUser(u)
         /\ \A i \in invitations : KnownInvitation(i)
<1>1. \A u, v \in users : u.id = v.id => u = v
  BY DEF Inv, AccountsInvariant, TablesConsistent
<1>2. \A i, j \in invitations : i.id = j.id => i = j
  BY DEF Inv, AccountsInvariant, TablesConsistent
<1>3. \A s \in Requests : Committable(work[s])
  BY DEF Inv, AccountsInvariant
<1>4. ASSUME NEW s \in Requests
      PROVE  /\ \A u \in users, v \in work[s].user : v.id # u.id
             /\ \A i \in invitations, j \in work[s].invite : j.id # i.id
  BY <1>3 DEF Committable, NewRowsFit
<1> QED
  BY <1>1, <1>2, <1>4 DEF KnownUser, KnownInvitation

\* A request that has flushed nothing selects a row and goes on.
LEMMA SelectPreserves ==
  ASSUME Inv, NEW r \in Requests, NEW f \in SUBSET (UserRows \cup InvitationRows),
         NEW at \in Steps, work[r] = NoWrites, Select(r, f, at), Informed(r)'
  PROVE  Inv'
<1>1. Shaped(r)'
  BY NoWritesShape DEF Shaped, Select, Inv, AccountsTypeOK
<1>2. input' = [input EXCEPT ![r] = input[r]] /\ input[r] \in Inputs
  BY DEF Select, Inv, AccountsTypeOK
<1> QED
  BY <1>1, <1>2, ReadersPreserve DEF Select, Goto

LEMMA NothingFlushed ==
  ASSUME Inv, NEW r \in Requests, step[r] \notin {"link", "commit"}
  PROVE  work[r] = NoWrites
BY DEF Inv, AccountsInvariant, Shaped

LEMMA SelectInforms ==
  ASSUME Inv, NEW r \in Requests, NEW f, NEW at, Select(r, f, at)
  PROVE  /\ step'[r] = at /\ found'[r] = f /\ input'[r] = input[r] /\ work'[r] = work[r]
         /\ \A u : KnownUser(u)' <=> KnownUser(u)
         /\ \A i : KnownInvitation(i)' <=> KnownInvitation(i)
<1>1. /\ step'[r] = at /\ found'[r] = f /\ input'[r] = input[r] /\ work'[r] = work[r]
  BY DEF Select, Goto, Inv, AccountsTypeOK
<1>2. users' = users /\ invitations' = invitations /\ work' = work
  BY DEF Select, rows
<1> QED
  BY <1>1, <1>2 DEF KnownUser, KnownInvitation

(* Steps that end a request *)

\* A request that ends without a commit takes its writes with it.
LEMMA RefusePreserves ==
  ASSUME Inv, NEW r \in Requests, Refuse(r)
  PROVE  Inv'
<1>1. /\ step' = [step EXCEPT ![r] = "idle"] /\ input' = [input EXCEPT ![r] = AnyInput]
      /\ found' = [found EXCEPT ![r] = {}] /\ work' = [work EXCEPT ![r] = NoWrites]
      /\ users' = users /\ invitations' = invitations /\ credentials' = credentials
  BY DEF Refuse, End, Goto, rows
<1>2. AccountsTypeOK'
  BY <1>1, NoWritesShape, AnyInputIsInput DEF Inv, AccountsTypeOK, Steps
<1>3. \A s \in Requests : work'[s] = IF s = r THEN NoWrites ELSE work[s]
  BY <1>1 DEF Inv, AccountsTypeOK
<1>4. ASSUME NEW s \in Requests
      PROVE  Committable(work[s])'
  <2>1. CASE s = r
    <3>1. work'[s] = NoWrites /\ Ids({}) = {}
      BY <1>3, <2>1 DEF Ids
    <3> QED
      BY <3>1, NoWritesShape DEF Committable, NewRowsFit, ReferencesHold, AcceptedStand,
           NothingRefersTo
  <2>2. CASE s # r
    <3>1. Committable(work[s]) /\ work'[s] = work[s]
      BY <1>3, <2>2 DEF Inv, AccountsInvariant
    <3> QED
      BY <1>1, <3>1 DEF Committable, NewRowsFit, ReferencesHold, AcceptedStand,
           NothingRefersTo
  <2> QED
    BY <2>1, <2>2
<1>5. \A x : (KnownUser(x) => KnownUser(x)') /\ (KnownInvitation(x) => KnownInvitation(x)')
  BY <1>1, <1>3, NoWritesShape DEF KnownUser, KnownInvitation
<1>6. Shaped(r)' /\ Informed(r)'
  BY <1>1, NoWritesShape DEF Inv, AccountsTypeOK, Shaped, Informed
<1>7. ASSUME NEW s \in Requests \ {r}
      PROVE  Shaped(s)' /\ Informed(s)'
  <2>1. /\ step'[s] = step[s] /\ input'[s] = input[s] /\ found'[s] = found[s]
        /\ work'[s] = work[s]
    BY <1>1 DEF Inv, AccountsTypeOK
  <2>2. Shaped(s) /\ Informed(s)
    BY DEF Inv, AccountsInvariant
  <2>3. Shaped(s)'
    BY <2>1, <2>2 DEF Shaped
  <2> QED
    BY <1>5, <2>1, <2>2, <2>3 DEF Informed
<1>8. (TablesConsistent /\ CredentialsNameAccounts)'
  BY <1>1 DEF Inv, AccountsInvariant, TablesConsistent, CredentialsNameAccounts
<1>9. \A s, t \in Requests : s # t => Compatible(work[s], work[t])'
  <2>1. \A w : Compatible(NoWrites, w) /\ Compatible(w, NoWrites)
    BY NoWritesShape DEF Compatible, Ids, Referenced
  <2> QED
    BY <1>3, <2>1 DEF Inv, AccountsInvariant
<1> QED
  BY <1>2, <1>4, <1>6, <1>7, <1>8, <1>9 DEF Inv, AccountsInvariant

(* Steps that flush *)

LEMMA IdsOfUnion == \A S, T : Ids(S \cup T) = Ids(S) \cup Ids(T)
BY DEF Ids

LEMMA MergeNothing ==
  ASSUME NEW w \in Writes
  PROVE  Merge(NoWrites, w) = w
<1> DEFINE m == Merge(NoWrites, w)
<1>1. /\ m.user = w.user /\ m.credential = w.credential /\ m.invite = w.invite
      /\ m.accept = w.accept /\ m.revoke = w.revoke /\ m.remove = w.remove
  BY NoWritesShape DEF Merge
<1>2. m \in Writes
  BY <1>1 DEF Merge, Writes
<1> HIDE DEF m
<1>3. m = w
  BY <1>1, <1>2 DEF Writes
<1> QED
  BY <1>3 DEF m

LEMMA FreshIds ==
  /\ \A id \in FreeUserIds :
        /\ id \in UserIds /\ \A u \in users : u.id # id
        /\ \A s \in Requests : \A u \in work[s].user \cup work[s].remove \cup found[s] : u.id # id
  /\ \A id \in FreeInvitationIds :
        /\ id \in InvitationIds /\ \A i \in invitations : i.id # id
        /\ \A s \in Requests :
              \A i \in work[s].invite \cup work[s].revoke \cup found[s] : i.id # id
<1>1. ASSUME NEW id \in FreeUserIds
      PROVE  /\ id \in UserIds /\ \A u \in users : u.id # id
             /\ \A s \in Requests : \A u \in work[s].user \cup work[s].remove \cup found[s] : u.id # id
  BY <1>1 DEF FreeUserIds, Ids
<1>2. ASSUME NEW id \in FreeInvitationIds
      PROVE  /\ id \in InvitationIds /\ \A i \in invitations : i.id # id
             /\ \A s \in Requests :
                   \A i \in work[s].invite \cup work[s].revoke \cup found[s] : i.id # id
  BY <1>2 DEF FreeInvitationIds, Ids
<1> QED
  BY <1>1, <1>2

LEMMA MergeCompatible ==
  ASSUME NEW v, NEW w, NEW x,
         Compatible(v, x), Compatible(x, v), Compatible(w, x), Compatible(x, w)
  PROVE  Compatible(Merge(v, w), x) /\ Compatible(x, Merge(v, w))
<1>1. /\ Merge(v, w).user = v.user \cup w.user
      /\ Merge(v, w).credential = v.credential \cup w.credential
      /\ Merge(v, w).invite = v.invite \cup w.invite
      /\ Merge(v, w).accept = v.accept \cup w.accept
      /\ Merge(v, w).revoke = v.revoke \cup w.revoke
      /\ Merge(v, w).remove = v.remove \cup w.remove
  BY DEF Merge
<1>2. Referenced(Merge(v, w)) = Referenced(v) \cup Referenced(w)
  BY <1>1 DEF Referenced
<1>3. /\ Ids(Merge(v, w).accept) = Ids(v.accept) \cup Ids(w.accept)
      /\ Ids(Merge(v, w).revoke) = Ids(v.revoke) \cup Ids(w.revoke)
      /\ Ids(Merge(v, w).remove) = Ids(v.remove) \cup Ids(w.remove)
  BY <1>1, IdsOfUnion
<1> QED
  BY <1>1, <1>2, <1>3 DEF Compatible

\* What waits for no other transaction is compatible with them all.
LEMMA UnblockedCompatible ==
  ASSUME NEW v, NEW w, ~Blocks(v, w),
         \A a \in v.user, b \in w.user : a.id # b.id,
         \A a \in v.invite, b \in w.invite : a.id # b.id
  PROVE  Compatible(v, w) /\ Compatible(w, v)
<1>1. /\ Ids(v.accept) \cap Ids(w.revoke) = {} /\ Ids(w.accept) \cap Ids(v.revoke) = {}
  BY IdsOfUnion DEF Blocks
<1>2. /\ Referenced(v) \cap Ids(w.remove) = {} /\ Referenced(w) \cap Ids(v.remove) = {}
  BY DEF Blocks
<1>3. /\ \A a \in v.user, b \in w.user : a.email # b.email
      /\ \A a \in v.invite, b \in w.invite : a.email # b.email
  BY DEF Blocks
<1> QED
  BY <1>1, <1>2, <1>3 DEF Compatible

\* The constraints that a flush has checked.
LEMMA FlushCommittable ==
  ASSUME Inv, NEW r \in Requests, NEW w \in Writes,
         ~ViolatesConstraint(r, w), ~UpdatesMissingRow(w),
         \A u \in w.user : u.id \in FreeUserIds,
         \A i \in w.invite : i.id \in FreeInvitationIds,
         \A i \in w.accept : KnownInvitation(i),
         \A i \in w.invite :
             work[r].user = {} /\ \E u : u.id = i.by /\ u.role = "admin" /\ KnownUser(u)
  PROVE  Committable(Merge(work[r], w))
<1> DEFINE m == Merge(work[r], w)
<1>1. /\ m.user = work[r].user \cup w.user
      /\ m.credential = work[r].credential \cup w.credential
      /\ m.invite = work[r].invite \cup w.invite
      /\ m.accept = work[r].accept \cup w.accept
      /\ m.remove = work[r].remove \cup w.remove
  BY DEF Merge
<1>2. Committable(work[r])
  BY DEF Inv, AccountsInvariant
<1> HIDE DEF m
<1>3. NewRowsFit(m)
  <2>1. /\ \A a \in w.user, b \in users : a.email # b.email /\ a.id # b.id
        /\ \A a \in w.invite, b \in invitations : a.email # b.email /\ a.id # b.id
    BY FreshIds DEF ViolatesConstraint
  <2> QED
    BY <1>1, <1>2, <2>1 DEF Committable, NewRowsFit
<1>4. ReferencesHold(m)
  <2>1. Referenced(w) \subseteq Ids(users \cup work[r].user)
    BY DEF ViolatesConstraint
  <2>2. \A c \in w.credential : c.user \in Ids(users \cup m.user)
    BY <1>1, <2>1, IdsOfUnion DEF Referenced
  <2>3. \A c \in work[r].credential : c.user \in Ids(users \cup m.user)
    BY <1>1, <1>2, IdsOfUnion DEF Committable, ReferencesHold
  <2>4. ASSUME NEW i \in w.invite
        PROVE  \E u \in users : u.id = i.by /\ u.role = "admin"
    <3>1. i.by \in Ids(users)
      <4>1. i.by \in Referenced(w) /\ users \cup work[r].user = users
        BY DEF Referenced
      <4> QED
        BY <2>1, <4>1
    <3>2. PICK v \in users : v.id = i.by
      BY <3>1 DEF Ids
    <3>3. PICK u : u.id = i.by /\ u.role = "admin" /\ KnownUser(u)
      OBVIOUS
    <3> QED
      BY <3>2, <3>3 DEF KnownUser
  <2> QED
    BY <1>1, <1>2, <2>2, <2>3, <2>4 DEF Committable, ReferencesHold
<1>5. AcceptedStand(m)
  <2>1. ASSUME NEW i \in w.accept
        PROVE  \E j \in invitations : j.id = i.id /\ Guest(j) = Guest(i)
    <3>1. PICK j \in invitations : j.id = i.id
      BY DEF UpdatesMissingRow, Ids
    <3> QED
      BY <3>1 DEF KnownInvitation
  <2> QED
    BY <1>1, <1>2, <2>1 DEF Committable, AcceptedStand
<1>6. NothingRefersTo(m)
  BY <1>1, <1>2, IdsOfUnion DEF Committable, NothingRefersTo, ViolatesConstraint
<1> QED
  BY <1>3, <1>4, <1>5, <1>6 DEF Committable, m

LEMMA FlushPreserves ==
  ASSUME Inv, NEW r \in Requests, NEW w \in Writes, NEW next \in {"link", "commit"},
         Flush(r, w, next),
         \/ JoinWork(Merge(work[r], w))
         \/ next = "commit" /\ OtherWork(Merge(work[r], w)),
         input[r].op = "create" => next = "commit",
         next = "link" => w.user # {},
         \A u \in w.user : u.id \in FreeUserIds,
         \A i \in w.invite : i.id \in FreeInvitationIds,
         \A i \in w.accept : KnownInvitation(i),
         \A i \in w.invite :
             work[r].user = {} /\ \E u : u.id = i.by /\ u.role = "admin" /\ KnownUser(u)
  PROVE  Inv'
<1> DEFINE m == Merge(work[r], w)
<1>1. CASE ViolatesConstraint(r, w) \/ UpdatesMissingRow(w)
  BY <1>1, RefusePreserves DEF Flush
<1>2. CASE ~ViolatesConstraint(r, w) /\ ~UpdatesMissingRow(w)
  <2>1. /\ \A s \in Requests \ {r} : ~Blocks(w, work[s])
        /\ work' = [work EXCEPT ![r] = m] /\ found' = [found EXCEPT ![r] = {}]
        /\ step' = [step EXCEPT ![r] = next] /\ input' = input
        /\ users' = users /\ invitations' = invitations /\ credentials' = credentials
    BY <1>2 DEF Flush, Goto, rows
  <2>2. m \in Writes
    BY DEF Inv, AccountsTypeOK, Writes, Merge
  <2>3. Committable(m)
    BY <1>2, FlushCommittable
  <2>4. m.user = work[r].user \cup w.user /\ m.invite = work[r].invite \cup w.invite
    BY DEF Merge
  <2>5. JoinWork(m) \/ (next = "commit" /\ OtherWork(m))
    OBVIOUS
  <2>6. ASSUME NEW s \in Requests \ {r}
        PROVE  Compatible(m, work[s]) /\ Compatible(work[s], m)
    <3>1. Compatible(w, work[s]) /\ Compatible(work[s], w)
      BY <2>1, FreshIds, UnblockedCompatible
    <3>2. Compatible(work[r], work[s]) /\ Compatible(work[s], work[r])
      BY DEF Inv, AccountsInvariant
    <3> QED
      BY <3>1, <3>2, MergeCompatible
  <2> HIDE DEF m
  <2>7. \A s \in Requests : work'[s] = IF s = r THEN m ELSE work[s]
    BY <2>1 DEF Inv, AccountsTypeOK
  <2>8. AccountsTypeOK'
    BY <2>1, <2>2 DEF Inv, AccountsTypeOK, Steps
  <2>9. ASSUME NEW s \in Requests
        PROVE  Committable(work[s])'
    <3>1. Committable(work'[s])
      BY <2>3, <2>7 DEF Inv, AccountsInvariant
    <3> QED
      BY <2>1, <3>1 DEF Committable, NewRowsFit, ReferencesHold, AcceptedStand, NothingRefersTo
  <2>10. Shaped(r)' /\ Informed(r)'
    BY <2>1, <2>4, <2>5, <2>7 DEF Inv, AccountsTypeOK, Shaped, Informed
  <2>11. ASSUME NEW s \in Requests \ {r}
         PROVE  Shaped(s)' /\ Informed(s)'
    <3>1. /\ step'[s] = step[s] /\ input'[s] = input[s] /\ found'[s] = found[s]
          /\ work'[s] = work[s]
      BY <2>1 DEF Inv, AccountsTypeOK
    <3>2. Shaped(s) /\ Informed(s)
      BY DEF Inv, AccountsInvariant
    <3>3. Shaped(s)'
      BY <3>1, <3>2 DEF Shaped
    <3>4. \A x \in found[s] : /\ KnownUser(x) => KnownUser(x)'
                              /\ KnownInvitation(x) => KnownInvitation(x)'
      <4>1. \A x \in found[s] : /\ \A u \in w.user : u.id # x.id
                                /\ \A i \in w.invite : i.id # x.id
        BY FreshIds
      <4> QED
        BY <2>1, <2>4, <2>7, <4>1 DEF KnownUser, KnownInvitation
    <3> QED
      BY <3>1, <3>2, <3>3, <3>4 DEF Informed
  <2>12. (TablesConsistent /\ CredentialsNameAccounts)'
    BY <2>1 DEF Inv, AccountsInvariant, TablesConsistent, CredentialsNameAccounts
  <2>13. \A s, t \in Requests : s # t => Compatible(work[s], work[t])'
    <3>1. ASSUME NEW s \in Requests, NEW t \in Requests, s # t
          PROVE  Compatible(work'[s], work'[t])
      BY <2>6, <2>7, <3>1 DEF Inv, AccountsInvariant
    <3> QED
      BY <3>1
  <2> QED
    BY <2>8, <2>9, <2>10, <2>11, <2>12, <2>13 DEF Inv, AccountsInvariant
<1> QED
  BY <1>1, <1>2

(* Commits *)

\* What a commit makes of an invitation that stays.
After(w, j) == IF j.id \in Ids(w.accept) THEN Accepted(j) ELSE j

Kept(w) == {j \in invitations : j.id \notin Ids(w.revoke)}

LEMMA AfterKeeps ==
  ASSUME NEW w, NEW j \in InvitationRows
  PROVE  /\ After(w, j) \in InvitationRows
         /\ After(w, j).id = j.id /\ After(w, j).email = j.email
         /\ After(w, j).role = j.role /\ After(w, j).by = j.by
         /\ Guest(After(w, j)) = Guest(j)
BY DEF After, Accepted, InvitationRows, Guest

LEMMA CommitTables ==
  ASSUME Inv, NEW r \in Requests, Commit(r)
  PROVE  /\ users' = {u \in users : u.id \notin Ids(work[r].remove)} \cup work[r].user
         /\ invitations' = {After(work[r], j) : j \in Kept(work[r])} \cup work[r].invite
         /\ credentials' = credentials \cup work[r].credential
         /\ step' = [step EXCEPT ![r] = "idle"] /\ input' = [input EXCEPT ![r] = AnyInput]
         /\ found' = [found EXCEPT ![r] = {}] /\ work' = [work EXCEPT ![r] = NoWrites]
         /\ \A s \in Requests : work'[s] = IF s = r THEN NoWrites ELSE work[s]
BY DEF Commit, End, Goto, After, Kept, Inv, AccountsTypeOK

LEMMA CommitTypes ==
  ASSUME Inv, NEW r \in Requests, Commit(r)
  PROVE  AccountsTypeOK'
<1>1. /\ work[r] \in Writes /\ Kept(work[r]) \subseteq InvitationRows
  BY DEF Inv, AccountsTypeOK, Kept
<1>2. users' \subseteq UserRows /\ credentials' \subseteq CredentialRows
  BY <1>1, CommitTables DEF Inv, AccountsTypeOK, Writes
<1>3. invitations' \subseteq InvitationRows
  BY <1>1, CommitTables, AfterKeeps DEF Writes
<1>4. /\ step' \in [Requests -> Steps] /\ input' \in [Requests -> Inputs]
      /\ work' \in [Requests -> Writes]
      /\ found' \in [Requests -> SUBSET (UserRows \cup InvitationRows)]
  BY CommitTables, NoWritesShape, AnyInputIsInput DEF Inv, AccountsTypeOK, Steps
<1> QED
  BY <1>2, <1>3, <1>4 DEF AccountsTypeOK

\* Every row after a commit was there, or is one that the transaction inserted.
LEMMA CommitRows ==
  ASSUME Inv, NEW r \in Requests, Commit(r)
  PROVE  /\ \A u \in users' : u \in users \/ u \in work[r].user
         /\ \A i \in invitations' :
               \/ \E j \in Kept(work[r]) : j \in InvitationRows /\ i = After(work[r], j)
               \/ i \in work[r].invite
         /\ \A j \in Kept(work[r]) : j \in invitations /\ j \in InvitationRows
BY CommitTables DEF Inv, AccountsTypeOK, Kept

\* One handler writes rows of one kind.
LEMMA OneRowAtATime ==
  ASSUME Inv, NEW r \in Requests
  PROVE  /\ JoinWork(work[r]) \/ OtherWork(work[r])
         /\ \A a, b \in work[r].user : a = b
         /\ \A a, b \in work[r].invite : a = b
         /\ work[r].remove # {} => Referenced(work[r]) = {}
<1>1. JoinWork(work[r]) \/ OtherWork(work[r])
  BY DEF Inv, AccountsInvariant, Shaped
<1>2. /\ \A a, b \in work[r].user : a = b
      /\ \A a, b \in work[r].invite : a = b
  BY <1>1 DEF JoinWork, OtherWork
<1>3. work[r].remove # {} => work[r].credential = {} /\ work[r].invite = {}
  BY <1>1 DEF JoinWork, OtherWork
<1> QED
  BY <1>1, <1>2, <1>3 DEF Referenced

LEMMA CommitConsistent ==
  ASSUME Inv, NEW r \in Requests, Commit(r)
  PROVE  (TablesConsistent /\ CredentialsNameAccounts)'
<1> DEFINE w == work[r]
<1>1. Committable(w) /\ TablesConsistent /\ CredentialsNameAccounts
  BY DEF Inv, AccountsInvariant
<1>2. ASSUME NEW a \in users', NEW b \in users', a.email = b.email \/ a.id = b.id
      PROVE  a = b
  <2>1. /\ a \in users \/ a \in w.user
        /\ b \in users \/ b \in w.user
    BY CommitRows
  <2> QED
    BY <1>1, <1>2, <2>1, OneRowAtATime DEF Committable, NewRowsFit, TablesConsistent
<1>3. ASSUME NEW a \in invitations', NEW b \in invitations', a.email = b.email \/ a.id = b.id
      PROVE  a = b
  <2>1. CASE a \in w.invite /\ b \in w.invite
    BY <2>1, OneRowAtATime
  <2>2. ASSUME NEW x \in w.invite, NEW j \in Kept(w)
        PROVE  x.email # After(w, j).email /\ x.id # After(w, j).id
    <3>1. j \in invitations /\ After(w, j).email = j.email /\ After(w, j).id = j.id
      BY CommitRows, AfterKeeps
    <3> QED
      BY <1>1, <3>1 DEF Committable, NewRowsFit
  <2>3. ASSUME NEW i \in Kept(w), NEW j \in Kept(w), a = After(w, i), b = After(w, j)
        PROVE  a = b
    <3>1. /\ i \in invitations /\ a.email = i.email /\ a.id = i.id
          /\ j \in invitations /\ b.email = j.email /\ b.id = j.id
      BY <2>3, CommitRows, AfterKeeps
    <3>2. i = j
      BY <1>1, <1>3, <3>1 DEF TablesConsistent
    <3> QED
      BY <2>3, <3>2
  <2> QED
    BY <1>3, <2>1, <2>2, <2>3, CommitRows
<1>4. \A u \in users : u.id \notin Ids(w.remove) => u \in users'
  BY CommitTables
<1>5. ASSUME NEW i \in invitations'
      PROVE  \E u \in users' : u.id = i.by /\ u.role = "admin"
  <2>1. CASE i \in w.invite
    <3>1. PICK u \in users : u.id = i.by /\ u.role = "admin"
      BY <1>1, <2>1 DEF Committable, ReferencesHold
    <3>2. Ids(w.remove) = {}
      BY <2>1, OneRowAtATime DEF JoinWork, OtherWork, Ids
    <3> QED
      BY <1>4, <3>1, <3>2
  <2>2. ASSUME NEW j \in Kept(w), i = After(w, j)
        PROVE  \E u \in users' : u.id = i.by /\ u.role = "admin"
    <3>1. j \in invitations /\ i.by = j.by
      BY <2>2, CommitRows, AfterKeeps
    <3>2. PICK u \in users : u.id = j.by /\ u.role = "admin"
      BY <1>1, <3>1 DEF TablesConsistent
    <3>3. u.id \notin Ids(w.remove)
      BY <1>1, <3>1, <3>2 DEF Committable, NothingRefersTo
    <3> QED
      BY <1>4, <3>1, <3>2, <3>3
  <2> QED
    BY <2>1, <2>2, CommitRows
<1>6. ASSUME NEW c \in credentials'
      PROVE  c.user \in Ids(users')
  <2>1. \A u \in users : u.id \notin Ids(w.remove) => u.id \in Ids(users')
    BY <1>4 DEF Ids
  <2>2. \A u \in w.user : u.id \in Ids(users')
    BY CommitTables DEF Ids
  <2>3. CASE c \in credentials
    <3>1. c.user \notin Ids(w.remove)
      BY <1>1, <2>3 DEF Committable, NothingRefersTo
    <3> QED
      BY <1>1, <2>1, <2>3, <3>1 DEF CredentialsNameAccounts, Ids
  <2>4. CASE c \in w.credential
    <3>1. Ids(w.remove) = {}
      BY <2>4, OneRowAtATime DEF JoinWork, OtherWork, Ids
    <3>2. c.user \in Ids(users \cup w.user)
      BY <1>1, <2>4 DEF Committable, ReferencesHold
    <3> QED
      BY <2>1, <2>2, <3>1, <3>2 DEF Ids
  <2> QED
    BY <2>3, <2>4, CommitTables
<1> QED
  BY <1>2, <1>3, <1>5, <1>6 DEF TablesConsistent, CredentialsNameAccounts

\* What another transaction has flushed can still be committed.
LEMMA CommitLeavesCommittable ==
  ASSUME Inv, NEW r \in Requests, Commit(r), NEW s \in Requests \ {r}
  PROVE  Committable(work[s])'
<1> DEFINE w == work[r] v == work[s]
<1>1. /\ Committable(w) /\ Committable(v) /\ Compatible(w, v) /\ Compatible(v, w)
      /\ work'[s] = v
  BY CommitTables DEF Inv, AccountsInvariant
<1>2. \A u \in users : u.id \in Referenced(v) => u \in users'
  BY <1>1, CommitTables DEF Compatible
<1>3. NewRowsFit(v)'
  <2>1. ASSUME NEW a \in v.user, NEW b \in users'
        PROVE  a.email # b.email /\ a.id # b.id
    BY <1>1, CommitRows DEF Committable, NewRowsFit, Compatible
  <2>2. ASSUME NEW a \in v.invite, NEW b \in invitations'
        PROVE  a.email # b.email /\ a.id # b.id
    <3>1. CASE b \in w.invite
      BY <1>1, <3>1 DEF Compatible
    <3>2. ASSUME NEW j \in Kept(w), b = After(w, j)
          PROVE  a.email # b.email /\ a.id # b.id
      <4>1. j \in invitations /\ b.email = j.email /\ b.id = j.id
        BY <3>2, CommitRows, AfterKeeps
      <4> QED
        BY <1>1, <4>1 DEF Committable, NewRowsFit
    <3> QED
      BY <3>1, <3>2, CommitRows
  <2> QED
    BY <1>1, <2>1, <2>2 DEF NewRowsFit
<1>4. ReferencesHold(v)'
  <2>1. ASSUME NEW c \in v.credential
        PROVE  c.user \in Ids(users' \cup v.user)
    <3>1. c.user \in Ids(users \cup v.user) /\ c.user \in Referenced(v)
      BY <1>1 DEF Committable, ReferencesHold, Referenced
    <3> QED
      BY <1>2, <3>1 DEF Ids
  <2>2. ASSUME NEW i \in v.invite
        PROVE  \E u \in users' : u.id = i.by /\ u.role = "admin"
    <3>1. i.by \in Referenced(v) /\ \E u \in users : u.id = i.by /\ u.role = "admin"
      BY <1>1 DEF Committable, ReferencesHold, Referenced
    <3> QED
      BY <1>2, <3>1
  <2> QED
    BY <1>1, <2>1, <2>2 DEF ReferencesHold
<1>5. AcceptedStand(v)'
  <2>1. ASSUME NEW i \in v.accept
        PROVE  \E k \in invitations' : k.id = i.id /\ Guest(k) = Guest(i)
    <3>1. PICK j \in invitations : j.id = i.id /\ Guest(j) = Guest(i)
      BY <1>1 DEF Committable, AcceptedStand
    <3>2. j.id \notin Ids(w.revoke)
      BY <1>1, <3>1 DEF Compatible, Ids
    <3>3. j \in Kept(w) /\ j \in InvitationRows
      BY <3>2, CommitRows DEF Kept
    <3>4. After(w, j) \in invitations'
      BY <3>3, CommitTables
    <3> QED
      BY <3>1, <3>3, <3>4, AfterKeeps
  <2> QED
    BY <1>1, <2>1 DEF AcceptedStand
<1>6. NothingRefersTo(v)'
  <2>1. ASSUME NEW u \in Ids(v.remove), NEW c \in credentials'
        PROVE  c.user # u
    <3>1. CASE c \in credentials
      BY <1>1, <3>1 DEF Committable, NothingRefersTo
    <3>2. CASE c \in w.credential
      BY <1>1, <3>2 DEF Compatible, Referenced
    <3> QED
      BY <3>1, <3>2, CommitTables
  <2>2. ASSUME NEW u \in Ids(v.remove), NEW i \in invitations'
        PROVE  i.by # u
    <3>1. CASE i \in w.invite
      BY <1>1, <3>1 DEF Compatible, Referenced
    <3>2. ASSUME NEW j \in Kept(w), i = After(w, j)
          PROVE  i.by # u
      <4>1. j \in invitations /\ i.by = j.by
        BY <3>2, CommitRows, AfterKeeps
      <4> QED
        BY <1>1, <4>1 DEF Committable, NothingRefersTo
    <3> QED
      BY <3>1, <3>2, CommitRows
  <2> QED
    BY <1>1, <2>1, <2>2 DEF NothingRefersTo
<1> QED
  BY <1>3, <1>4, <1>5, <1>6 DEF Committable

LEMMA CommitLeavesKnown ==
  ASSUME Inv, NEW r \in Requests, Commit(r), NEW x
  PROVE  /\ KnownUser(x) => KnownUser(x)'
         /\ KnownInvitation(x) => KnownInvitation(x)'
<1>1. ASSUME KnownUser(x)
      PROVE  KnownUser(x)'
  <2>1. \A v \in users' : v.id = x.id => v = x
    BY <1>1, CommitRows DEF KnownUser
  <2>2. \A s \in Requests : \A v \in work'[s].user : v.id # x.id
    BY <1>1, CommitTables, NoWritesShape DEF KnownUser
  <2> QED
    BY <2>1, <2>2 DEF KnownUser
<1>2. ASSUME KnownInvitation(x)
      PROVE  KnownInvitation(x)'
  <2>1. ASSUME NEW i \in invitations', i.id = x.id
        PROVE  Guest(i) = Guest(x)
    <3>1. i \notin work[r].invite
      BY <1>2, <2>1 DEF KnownInvitation
    <3>2. PICK j \in Kept(work[r]) : i = After(work[r], j)
      BY <3>1, CommitRows
    <3>3. j \in invitations /\ j.id = x.id /\ Guest(i) = Guest(j)
      BY <2>1, <3>2, CommitRows, AfterKeeps
    <3> QED
      BY <1>2, <3>3 DEF KnownInvitation
  <2>2. \A s \in Requests : \A v \in work'[s].invite : v.id # x.id
    BY <1>2, CommitTables, NoWritesShape DEF KnownInvitation
  <2> QED
    BY <2>1, <2>2 DEF KnownInvitation
<1> QED
  BY <1>1, <1>2

LEMMA CommitPreserves ==
  ASSUME Inv, NEW r \in Requests, Commit(r)
  PROVE  Inv'
<1>1. AccountsTypeOK' /\ (TablesConsistent /\ CredentialsNameAccounts)'
  BY CommitTypes, CommitConsistent
<1>2. work'[r] = NoWrites /\ step'[r] = "idle" /\ input'[r] = AnyInput /\ found'[r] = {}
  BY CommitTables DEF Inv, AccountsTypeOK
<1>3. Committable(work[r])'
  <2>1. Ids({}) = {}
    BY DEF Ids
  <2> QED
    BY <1>2, <2>1, NoWritesShape DEF Committable, NewRowsFit, ReferencesHold, AcceptedStand,
       NothingRefersTo
<1>4. Shaped(r)' /\ Informed(r)'
  BY <1>2, NoWritesShape DEF Shaped, Informed
<1>6. ASSUME NEW x
      PROVE  /\ KnownUser(x) => KnownUser(x)'
             /\ KnownInvitation(x) => KnownInvitation(x)'
  BY CommitLeavesKnown
<1>7. ASSUME NEW s \in Requests \ {r}
      PROVE  Shaped(s)' /\ Informed(s)'
  <2>1. /\ step'[s] = step[s] /\ input'[s] = input[s] /\ found'[s] = found[s]
        /\ work'[s] = work[s]
    BY CommitTables DEF Inv, AccountsTypeOK
  <2>2. Shaped(s) /\ Informed(s)
    BY DEF Inv, AccountsInvariant
  <2>3. Shaped(s)'
    BY <2>1, <2>2 DEF Shaped
  <2> QED
    BY <1>6, <2>1, <2>2, <2>3 DEF Informed
<1>8. \A s, t \in Requests : s # t => Compatible(work[s], work[t])'
  <2>1. \A w : Compatible(NoWrites, w) /\ Compatible(w, NoWrites)
    BY NoWritesShape DEF Compatible, Ids, Referenced
  <2> QED
    BY <2>1, CommitTables DEF Inv, AccountsInvariant
<1> QED
  BY <1>1, <1>3, <1>4, <1>7, <1>8, CommitLeavesCommittable DEF Inv, AccountsInvariant

(* What a commit means *)

\* One step of AcceptanceIsAJoin, and of GuestList.
AcceptsByJoining ==
    \A i \in invitations' :
        i.accepted /\ (\A j \in invitations : j.id = i.id => ~j.accepted) =>
            \E u \in users' \ users : u.email = i.email /\ u.role = i.role

LEMMA CommitAcceptsByJoining ==
  ASSUME Inv, NEW r \in Requests, Commit(r)
  PROVE  AcceptsByJoining
<1> DEFINE w == work[r]
<1>1. Committable(w) /\ TablesConsistent
  BY DEF Inv, AccountsInvariant
<1> SUFFICES ASSUME NEW i \in invitations', i.accepted,
                    \A j \in invitations : j.id = i.id => ~j.accepted
             PROVE  \E u \in users' \ users : u.email = i.email /\ u.role = i.role
  BY DEF AcceptsByJoining
<1>2. i \notin w.invite
  BY OneRowAtATime DEF JoinWork, OtherWork
<1>3. PICK j \in Kept(w) : i = After(w, j)
  BY <1>2, CommitRows
<1>4. j \in invitations /\ i.id = j.id /\ Guest(i) = Guest(j)
  BY <1>3, CommitRows, AfterKeeps
<1>5. j.id \in Ids(w.accept)
  BY <1>3, <1>4 DEF After
<1>6. PICK u \in UserRows, a \in InvitationRows :
         w.user = {u} /\ w.accept = {a} /\ Guest(a) = Guest(u)
  BY <1>5, OneRowAtATime DEF JoinWork, OtherWork, Ids
<1>7. a.id = j.id
  BY <1>5, <1>6 DEF Ids
<1>8. Guest(j) = Guest(a)
  BY <1>1, <1>4, <1>6, <1>7 DEF Committable, AcceptedStand, TablesConsistent
<1>9. u \in users' /\ u \notin users
  BY <1>1, <1>6, CommitTables DEF Committable, NewRowsFit
<1> QED
  BY <1>4, <1>6, <1>8, <1>9 DEF Guest

\* The guests before and after a commit.
LEMMA CommitGuests ==
  ASSUME Inv, NEW r \in Requests, Commit(r)
  PROVE  /\ work[r].remove = {} =>
               {Guest(u) : u \in users'} =
                   {Guest(u) : u \in users} \cup {Guest(u) : u \in work[r].user}
         /\ work[r].user = {} =>
               {Guest(u) : u \in users'} \subseteq {Guest(u) : u \in users}
         /\ work[r].revoke = {} =>
               {Guest(i) : i \in invitations'} =
                   {Guest(i) : i \in invitations} \cup {Guest(i) : i \in work[r].invite}
         /\ work[r].invite = {} =>
               {Guest(i) : i \in invitations'} \subseteq {Guest(i) : i \in invitations}
<1> DEFINE w == work[r]
<1>1. ASSUME w.remove = {}
      PROVE  {Guest(u) : u \in users'} = {Guest(u) : u \in users} \cup {Guest(u) : u \in w.user}
  <2>1. users' = users \cup w.user
    BY <1>1, CommitTables DEF Ids
  <2> QED
    BY <2>1
<1>2. ASSUME w.user = {}
      PROVE  {Guest(u) : u \in users'} \subseteq {Guest(u) : u \in users}
  BY <1>2, CommitTables
<1>3. \A j \in Kept(w) : j \in invitations /\ Guest(After(w, j)) = Guest(j)
  BY CommitRows, AfterKeeps
<1>4. {Guest(i) : i \in invitations'} =
         {Guest(j) : j \in Kept(w)} \cup {Guest(i) : i \in w.invite}
  <2>1. {Guest(i) : i \in {After(w, j) : j \in Kept(w)}} = {Guest(j) : j \in Kept(w)}
    BY <1>3
  <2>2. invitations' = {After(w, j) : j \in Kept(w)} \cup w.invite
    BY CommitTables
  <2> QED
    BY <2>1, <2>2
<1>5. ASSUME w.revoke = {}
      PROVE  Kept(w) = invitations
  BY <1>5 DEF Kept, Ids
<1> QED
  BY <1>1, <1>2, <1>3, <1>4, <1>5

LEMMA CommitIsAListStep ==
  ASSUME Inv, NEW r \in Requests, Commit(r)
  PROVE  [List!Next]_(List!listVars)
<1> DEFINE w == work[r]
           members == {Guest(u) : u \in users}
           invited == {Guest(i) : i \in invitations}
<1>1. Committable(w)
  BY DEF Inv, AccountsInvariant
<1>2. CASE JoinWork(w) /\ w.user = {}
  <2>1. w.remove = {} /\ w.revoke = {} /\ w.invite = {}
    BY <1>2 DEF JoinWork
  <2>2. members' = members /\ invited' = invited
    BY <1>2, <2>1, CommitGuests
  <2> QED
    BY <2>2 DEF List!listVars
<1>3. CASE JoinWork(w) /\ w.user # {}
  <2>1. PICK u \in UserRows :
          /\ w.user = {u}
          /\ \/ u.role = "member" \/ Guest(u) = [email |-> Boss, role |-> "admin"]
             \/ \E i \in InvitationRows : w.accept = {i} /\ Guest(i) = Guest(u)
    BY <1>3 DEF JoinWork
  <2>2. members' = members \cup {Guest(u)} /\ invited' = invited
    <3>1. w.remove = {} /\ w.revoke = {} /\ w.invite = {}
      BY <1>3 DEF JoinWork
    <3> QED
      BY <2>1, <3>1, CommitGuests
  <2>3. \A m \in members : m.email # Guest(u).email
    BY <1>1, <2>1 DEF Committable, NewRowsFit, Guest
  <2>4. List!Admitted(Guest(u))
    <3>1. ASSUME NEW i \in InvitationRows, w.accept = {i}, Guest(i) = Guest(u)
          PROVE  Guest(u) \in invited
      BY <1>1, <3>1 DEF Committable, AcceptedStand
    <3> QED
      BY <2>1, <3>1 DEF List!Admitted, Guest
  <2>5. List!Join
    BY <2>2, <2>3, <2>4 DEF List!Join
  <2> QED
    BY <2>5 DEF List!Next
<1>4. CASE OtherWork(w) /\ w.invite # {}
  <2>1. PICK i \in InvitationRows : w.invite = {i}
    BY <1>4 DEF OtherWork
  <2>2. members' = members /\ invited' = invited \cup {Guest(i)}
    <3>1. w.user = {} /\ w.remove = {} /\ w.revoke = {}
      BY <1>4 DEF OtherWork
    <3> QED
      BY <2>1, <3>1, CommitGuests
  <2>3. \E m \in members : m.role = "admin"
    <3>1. PICK u \in users : u.role = "admin"
      BY <1>1, <2>1 DEF Committable, ReferencesHold
    <3>2. Guest(u) \in members /\ Guest(u).role = "admin"
      BY <3>1 DEF Guest
    <3> QED
      BY <3>2
  <2>4. \A j \in invited : j.email # Guest(i).email
    BY <1>1, <2>1 DEF Committable, NewRowsFit, Guest
  <2>5. List!Invite
    BY <2>2, <2>3, <2>4 DEF List!Invite
  <2> QED
    BY <2>5 DEF List!Next
<1>5. CASE OtherWork(w) /\ w.invite = {}
  <2>1. w.user = {} /\ (w.revoke = {} \/ w.remove = {})
    BY <1>5 DEF OtherWork
  <2>2. CASE w.remove = {}
    <3>1. members' = members /\ invited' \subseteq invited
      BY <1>5, <2>1, <2>2, CommitGuests
    <3>2. List!Withdraw
      BY <3>1 DEF List!Withdraw
    <3> QED
      BY <3>2 DEF List!Next
  <2>3. CASE w.revoke = {}
    <3>1. members' \subseteq members /\ invited' = invited
      BY <1>5, <2>1, <2>3, CommitGuests
    <3>2. List!Leave
      BY <3>1 DEF List!Leave
    <3> QED
      BY <3>2 DEF List!Next
  <2> QED
    BY <2>1, <2>2, <2>3
<1> QED
  BY <1>2, <1>3, <1>4, <1>5, OneRowAtATime

(* Requests *)

\* What each step of a request keeps, and what it may do to the tables.
StepIsRight(r) ==
    /\ Inv'
    /\ UNCHANGED rows \/ Commit(r)

LEMMA ArriveIsRight ==
  ASSUME Inv, NEW r \in Requests, NEW in \in Bodies, Arrive(r, in)
  PROVE  StepIsRight(r)
<1>1. /\ in \in Inputs /\ step[r] = "idle" /\ FirstStep(in.op) \in Steps
      /\ in.op \in Ops
  BY DEF Arrive, Bodies, Inputs, FirstStep, Ops, Steps
<1>2. /\ UNCHANGED <<rows, work>> /\ work[r] = NoWrites /\ found[r] = {}
      /\ step' = [step EXCEPT ![r] = FirstStep(in.op)]
      /\ input' = [input EXCEPT ![r] = in]
  BY <1>1, NothingFlushed DEF Arrive, Goto, Inv, AccountsInvariant, Informed
<1>3. /\ found'[r] \in SUBSET (UserRows \cup InvitationRows)
      /\ found' = [found EXCEPT ![r] = found'[r]]
      /\ IF in.op \in {"invite", "revoke"}
         THEN found'[r] \subseteq UserRows /\ \A u \in found'[r] : u \in users /\ u.role = "admin"
         ELSE found'[r] = {}
  BY <1>1, <1>2 DEF Arrive, Inv, AccountsTypeOK
<1>4. \A u \in users : KnownUser(u)'
  BY <1>2, RowsAreKnown DEF KnownUser, rows
<1>5. step'[r] = FirstStep(in.op) /\ input'[r] = in /\ work'[r] = NoWrites
  BY <1>2 DEF Inv, AccountsTypeOK
<1>6. Shaped(r)'
  BY <1>5, NoWritesShape DEF Shaped
<1>7. Informed(r)'
  BY <1>1, <1>3, <1>4, <1>5 DEF Informed, FirstStep, Ops
<1> QED
  BY <1>1, <1>2, <1>3, <1>6, <1>7, ReadersPreserve DEF StepIsRight

LEMMA LoginReadsAreRight ==
  ASSUME Inv, NEW r \in Requests,
         FindByProvider(r) \/ FindByEmail(r) \/ FindPendingInvitation(r)
  PROVE  StepIsRight(r)
<1>1. CASE Refuse(r)
  BY <1>1, RefusePreserves DEF StepIsRight, Refuse
<1>2. ASSUME step[r] \in {"provider", "email", "invitation"}
      PROVE  work[r] = NoWrites /\ input[r].op # "create"
  BY <1>2, NothingFlushed DEF Inv, AccountsInvariant, Informed
<1>3. ASSUME step[r] = "provider", Select(r, {}, "email")
      PROVE  StepIsRight(r)
  <2>1. Informed(r)'
    BY <1>2, <1>3, SelectInforms DEF Informed
  <2> QED
    BY <1>2, <1>3, <2>1, SelectPreserves DEF StepIsRight, Select, Steps
<1>4. ASSUME step[r] = "email", Select(r, {}, "invitation")
      PROVE  StepIsRight(r)
  <2>1. Informed(r)'
    BY <1>2, <1>4, SelectInforms DEF Informed
  <2> QED
    BY <1>2, <1>4, <2>1, SelectPreserves DEF StepIsRight, Select, Steps
<1>5. ASSUME NEW same, step[r] = "email", same \subseteq users, same # {},
             Select(r, same, "link")
      PROVE  StepIsRight(r)
  <2>1. same \subseteq UserRows
    BY <1>5 DEF Inv, AccountsTypeOK
  <2>2. Informed(r)'
    BY <1>2, <1>5, <2>1, SelectInforms DEF Informed
  <2> QED
    BY <1>2, <1>5, <2>1, <2>2, SelectPreserves DEF StepIsRight, Select, Steps
<1>6. ASSUME NEW pending, step[r] = "invitation", pending \subseteq invitations,
             \A i \in pending : i.email = input[r].email,
             pending # {} \/ input[r].email = Boss, Select(r, pending, "insert")
      PROVE  StepIsRight(r)
  <2>1. pending \subseteq InvitationRows
    BY <1>6 DEF Inv, AccountsTypeOK
  <2>2. \A i, j \in pending : i = j
    BY <1>6 DEF Inv, AccountsInvariant, TablesConsistent
  <2>3. \A i \in pending : KnownInvitation(i)
    BY <1>6, RowsAreKnown
  <2>4. pending = {} \/ \E i \in InvitationRows : pending = {i}
    BY <2>1, <2>2
  <2>5. Informed(r)'
    BY <1>2, <1>6, <2>3, <2>4, SelectInforms DEF Informed
  <2> QED
    BY <1>2, <1>6, <2>1, <2>5, SelectPreserves DEF StepIsRight, Select, Steps
<1>7. CASE FindByProvider(r)
  BY <1>1, <1>3, <1>7 DEF FindByProvider
<1>8. CASE FindByEmail(r)
  <2> DEFINE same == {u \in users : u.email = input[r].email}
  <2>1. step[r] = "email" /\ same \subseteq users
    BY <1>8 DEF FindByEmail
  <2>2. \/ Select(r, {}, "invitation") \/ Refuse(r)
        \/ same # {} /\ Select(r, same, "link")
    BY <1>8 DEF FindByEmail
  <2> HIDE DEF same
  <2> QED
    BY <1>1, <1>4, <1>5, <2>1, <2>2
<1>9. CASE FindPendingInvitation(r)
  <2>1. PICK expired \in BOOLEAN :
          LET pending == {i \in invitations : /\ i.email = input[r].email
                                              /\ ~i.accepted /\ ~expired} IN
          IF pending # {} \/ input[r].email = Boss
          THEN Select(r, pending, "insert")
          ELSE Refuse(r)
    BY <1>9 DEF FindPendingInvitation
  <2> DEFINE pending == {i \in invitations : /\ i.email = input[r].email
                                             /\ ~i.accepted /\ ~expired}
  <2>2. /\ step[r] = "invitation" /\ pending \subseteq invitations
        /\ \A i \in pending : i.email = input[r].email
    BY <1>9 DEF FindPendingInvitation
  <2>3. \/ Refuse(r)
        \/ (pending # {} \/ input[r].email = Boss) /\ Select(r, pending, "insert")
    BY <2>1
  <2> HIDE DEF pending
  <2> QED
    BY <1>1, <1>6, <2>2, <2>3
<1> QED
  BY <1>7, <1>8, <1>9

LEMMA InsertUserIsRight ==
  ASSUME Inv, NEW r \in Requests, InsertUser(r)
  PROVE  StepIsRight(r)
<1> DEFINE next == IF input[r].op \in {"callback", "register"} THEN "link" ELSE "commit"
<1>1. PICK id \in FreeUserIds :
        Flush(r, [NoWrites EXCEPT !.user = {NewUser(r, id)}, !.accept = found[r]], next)
  BY DEF InsertUser
<1> DEFINE u == NewUser(r, id)
           w == [NoWrites EXCEPT !.user = {u}, !.accept = found[r]]
<1>2. step[r] = "insert" /\ work[r] = NoWrites /\ input[r] \in Inputs
  BY NothingFlushed DEF InsertUser, Inv, AccountsTypeOK
<1>3. /\ found[r] = {} \/ \E i \in InvitationRows :
                             found[r] = {i} /\ i.email = input[r].email /\ KnownInvitation(i)
      /\ input[r].op = "create" => found[r] = {}
      /\ input[r].op # "create" /\ found[r] = {} => input[r].email = Boss
  BY <1>2 DEF Inv, AccountsInvariant, Informed
<1>4. /\ u.email = input[r].email /\ u.id = id /\ u.role = NewRole(r)
      /\ Guest(u) = [email |-> input[r].email, role |-> NewRole(r)]
  BY DEF NewUser, Guest
<1>5. /\ found[r] = {} => \/ NewRole(r) = "member"
                          \/ NewRole(r) = "admin" /\ input[r].email = Boss
      /\ \A i \in InvitationRows : found[r] = {i} => NewRole(r) = i.role
  BY <1>3 DEF NewRole
<1>6. NewRole(r) \in Roles /\ id \in UserIds /\ u \in UserRows
  <2>1. NewRole(r) \in Roles /\ input[r].email \in Emails
    BY <1>2, <1>3, <1>5 DEF Roles, InvitationRows, Inputs
  <2>2. id \in UserIds
    BY FreshIds
  <2> QED
    BY <2>1, <2>2 DEF NewUser, UserRows
<1> HIDE DEF u
<1>7. /\ w.user = {u} /\ w.accept = found[r] /\ w.credential = {}
      /\ w.invite = {} /\ w.revoke = {} /\ w.remove = {}
  BY DEF NoWrites
<1>8. w \in Writes
  BY <1>3, <1>6 DEF Writes, NoWrites
<1>9. Merge(work[r], w) = w
  BY <1>2, <1>8, MergeNothing
<1>10. JoinWork(w)
  <2>1. CASE found[r] = {}
    BY <1>4, <1>5, <1>6, <1>7, <2>1 DEF JoinWork
  <2>2. ASSUME NEW i \in InvitationRows, found[r] = {i}, i.email = input[r].email
        PROVE  JoinWork(w)
    BY <1>4, <1>5, <1>6, <1>7, <2>2 DEF JoinWork, Guest
  <2> QED
    BY <1>3, <2>1, <2>2
<1>11. /\ next \in {"link", "commit"}
       /\ input[r].op = "create" => next = "commit"
  OBVIOUS
<1>12. \A i \in w.accept : KnownInvitation(i)
  BY <1>3, <1>7
<1>13. Flush(r, w, next)
  BY <1>1 DEF u
<1>14. /\ \A x \in w.user : x.id \in FreeUserIds
       /\ w.user # {} /\ w.invite = {}
  BY <1>4, <1>7
<1> HIDE DEF w, next
<1>15. Inv'
  <2>1. JoinWork(Merge(work[r], w))
    BY <1>9, <1>10
  <2> QED
    BY <2>1, <1>8, <1>11, <1>12, <1>13, <1>14, FlushPreserves
<1>16. UNCHANGED rows
  BY <1>13 DEF Flush, Refuse
<1> QED
  BY <1>15, <1>16 DEF StepIsRight

LEMMA InsertCredentialIsRight ==
  ASSUME Inv, NEW r \in Requests, InsertCredential(r)
  PROVE  StepIsRight(r)
<1> DEFINE key == IF input[r].op = "register" THEN "password" ELSE input[r].subject
           c == [user |-> Owner(r).id, key |-> key]
           w == [NoWrites EXCEPT !.credential = {c}]
<1>1. step[r] = "link" /\ Flush(r, w, "commit") /\ work[r] \in Writes
      /\ input[r] \in Inputs
  BY DEF InsertCredential, Inv, AccountsTypeOK
<1>2. JoinWork(work[r]) /\ found[r] \subseteq UserRows /\ found[r] \cup work[r].user # {}
  BY <1>1 DEF Inv, AccountsInvariant, Shaped, Informed
<1>3. Owner(r) \in UserRows
  BY <1>1, <1>2 DEF Owner, Writes
<1>4. c \in CredentialRows
  BY <1>1, <1>3 DEF CredentialRows, UserRows, Inputs
<1> HIDE DEF c
<1>5. /\ w.credential = {c} /\ w.user = {} /\ w.accept = {}
      /\ w.invite = {} /\ w.revoke = {} /\ w.remove = {}
  BY DEF NoWrites
<1>6. w \in Writes
  BY <1>4 DEF Writes, NoWrites
<1> HIDE DEF w
<1>7. JoinWork(Merge(work[r], w))
  <2>1. LET m == Merge(work[r], w) IN
        /\ m.user = work[r].user /\ m.accept = work[r].accept
        /\ m.invite = work[r].invite /\ m.revoke = work[r].revoke /\ m.remove = work[r].remove
    BY <1>5 DEF Merge
  <2> QED
    BY <1>2, <2>1 DEF JoinWork
<1>8. Inv'
  BY <1>1, <1>5, <1>6, <1>7, FlushPreserves
<1>9. UNCHANGED rows
  BY <1>1 DEF Flush, Refuse
<1> QED
  BY <1>8, <1>9 DEF StepIsRight

LEMMA InvitingIsRight ==
  ASSUME Inv, NEW r \in Requests, FindInvitationByEmail(r) \/ InsertInvitation(r)
  PROVE  StepIsRight(r)
<1>1. step[r] \in {"exists", "invite"} /\ work[r] = NoWrites /\ input[r] \in Inputs
  BY NothingFlushed DEF FindInvitationByEmail, InsertInvitation, Inv, AccountsTypeOK
<1>2. /\ input[r].op # "create" /\ found[r] \subseteq UserRows
      /\ \A u \in found[r] : u.role = "admin" /\ KnownUser(u)
  BY <1>1 DEF Inv, AccountsInvariant, Informed
<1>3. CASE FindInvitationByEmail(r)
  <2>1. CASE Refuse(r)
    BY <2>1, RefusePreserves DEF StepIsRight, Refuse
  <2>2. ASSUME Select(r, found[r], "invite")
        PROVE  StepIsRight(r)
    <3>1. Informed(r)'
      BY <1>2, <2>2, SelectInforms DEF Informed
    <3> QED
      BY <1>1, <1>2, <2>2, <3>1, SelectPreserves DEF StepIsRight, Select, Steps
  <2> QED
    BY <1>3, <2>1, <2>2 DEF FindInvitationByEmail
<1>4. CASE InsertInvitation(r)
  <2>1. PICK admin \in found[r], id \in FreeInvitationIds :
          Flush(r, [NoWrites EXCEPT !.invite =
                      {[id |-> id, email |-> input[r].email, role |-> input[r].role,
                        by |-> admin.id, accepted |-> FALSE]}], "commit")
    BY <1>4 DEF InsertInvitation
  <2> DEFINE i == [id |-> id, email |-> input[r].email, role |-> input[r].role,
                   by |-> admin.id, accepted |-> FALSE]
             w == [NoWrites EXCEPT !.invite = {i}]
  <2>2. /\ i.id = id /\ i.by = admin.id /\ ~i.accepted /\ id \in InvitationIds
    BY FreshIds
  <2>3. i \in InvitationRows
    BY <1>1, <1>2, <2>2 DEF InvitationRows, UserRows, Inputs
  <2>4. Flush(r, w, "commit")
    BY <2>1
  <2> HIDE DEF i
  <2>5. /\ w.invite = {i} /\ w.user = {} /\ w.accept = {} /\ w.credential = {}
        /\ w.revoke = {} /\ w.remove = {}
    BY DEF NoWrites
  <2>6. w \in Writes
    BY <2>3 DEF Writes, NoWrites
  <2> HIDE DEF w
  <2>7. OtherWork(w)
    BY <2>2, <2>3, <2>5 DEF OtherWork
  <2>8. \A x \in w.invite :
          /\ x.id \in FreeInvitationIds
          /\ work[r].user = {} /\ \E u : u.id = x.by /\ u.role = "admin" /\ KnownUser(u)
    BY <1>1, <1>2, <2>2, <2>5, NoWritesShape
  <2>9. Inv'
    BY <1>1, <2>4, <2>5, <2>6, <2>7, <2>8, MergeNothing, FlushPreserves
  <2>10. UNCHANGED rows
    BY <2>4 DEF Flush, Refuse
  <2> QED
    BY <2>9, <2>10 DEF StepIsRight
<1> QED
  BY <1>3, <1>4

LEMMA DeletingIsRight ==
  ASSUME Inv, NEW r \in Requests, Load(r) \/ Delete(r)
  PROVE  StepIsRight(r)
<1>1. step[r] \in {"load", "delete"} /\ work[r] = NoWrites
  BY NothingFlushed DEF Load, Delete
<1>2. input[r].op # "create"
  BY <1>1 DEF Inv, AccountsInvariant, Informed
<1>3. CASE Load(r)
  <2> DEFINE table == IF input[r].op = "revoke" THEN invitations ELSE users
             row == {x \in table : x.email = input[r].email}
  <2>1. Refuse(r) \/ Select(r, row, "delete")
    BY <1>3 DEF Load
  <2>2. row \subseteq IF input[r].op = "revoke" THEN InvitationRows ELSE UserRows
    BY DEF Inv, AccountsTypeOK
  <2> HIDE DEF row
  <2>3. CASE Refuse(r)
    BY <2>3, RefusePreserves DEF StepIsRight, Refuse
  <2>4. ASSUME Select(r, row, "delete")
        PROVE  StepIsRight(r)
    <3>1. Informed(r)'
      BY <1>2, <2>2, <2>4, SelectInforms DEF Informed
    <3>2. row \in SUBSET (UserRows \cup InvitationRows)
      BY <2>2
    <3> QED
      BY <1>1, <2>4, <3>1, <3>2, SelectPreserves DEF StepIsRight, Select, Steps
  <2> QED
    BY <2>1, <2>3, <2>4
<1>4. CASE Delete(r)
  <2> DEFINE w == IF input[r].op = "revoke"
                  THEN [NoWrites EXCEPT !.revoke = found[r]]
                  ELSE [NoWrites EXCEPT !.remove = found[r]]
  <2>1. Flush(r, w, "commit") /\ step[r] = "delete"
    BY <1>4 DEF Delete
  <2>2. found[r] \subseteq IF input[r].op = "revoke" THEN InvitationRows ELSE UserRows
    BY <2>1 DEF Inv, AccountsInvariant, Informed
  <2>3. /\ w.invite = {} /\ w.user = {} /\ w.accept = {} /\ w.credential = {}
        /\ w.revoke = {} \/ w.remove = {}
    BY DEF NoWrites
  <2>4. w \in Writes
    BY <2>2 DEF Writes, NoWrites
  <2> HIDE DEF w
  <2>5. OtherWork(w)
    BY <2>3 DEF OtherWork
  <2>6. Inv'
    BY <1>1, <2>1, <2>3, <2>4, <2>5, MergeNothing, FlushPreserves
  <2>7. UNCHANGED rows
    BY <2>1 DEF Flush, Refuse
  <2> QED
    BY <2>6, <2>7 DEF StepIsRight
<1> QED
  BY <1>3, <1>4

(* The theorems *)

LEMMA AccountsInitInv ==
  ASSUME AccountsInit
  PROVE  Inv
<1>1. AccountsTypeOK
  BY NoWritesShape, AnyInputIsInput DEF AccountsInit, AccountsTypeOK, Steps
<1>2. TablesConsistent /\ CredentialsNameAccounts
  BY DEF AccountsInit, TablesConsistent, CredentialsNameAccounts
<1>3. \A r \in Requests : Committable(work[r]) /\ Shaped(r) /\ Informed(r)
  <2>1. Ids({}) = {}
    BY DEF Ids
  <2>2. ASSUME NEW r \in Requests
        PROVE  /\ work[r] = NoWrites /\ step[r] = "idle" /\ found[r] = {}
    BY DEF AccountsInit
  <2>3. Committable(NoWrites)
    BY <2>1, NoWritesShape DEF Committable, NewRowsFit, ReferencesHold, AcceptedStand,
       NothingRefersTo
  <2> QED
    BY <2>2, <2>3, NoWritesShape DEF Shaped, Informed
<1>4. \A r, s \in Requests : r # s => Compatible(work[r], work[s])
  BY NoWritesShape DEF AccountsInit, Compatible, Ids, Referenced
<1> QED
  BY <1>1, <1>2, <1>3, <1>4 DEF Inv, AccountsInvariant

LEMMA AccountsStep ==
  ASSUME Inv, [AccountsNext]_accountVars
  PROVE  Inv' /\ (UNCHANGED rows \/ \E r \in Requests : Commit(r))
<1>1. CASE UNCHANGED accountVars
  <2>1. UNCHANGED rows /\ AccountsTypeOK'
    BY <1>1 DEF accountVars, rows, Inv, AccountsTypeOK
  <2>2. (TablesConsistent /\ CredentialsNameAccounts)'
    BY <1>1 DEF accountVars, Inv, AccountsInvariant, TablesConsistent, CredentialsNameAccounts
  <2>3. ASSUME NEW r \in Requests
        PROVE  (Committable(work[r]) /\ Shaped(r) /\ Informed(r))'
    <3>1. Committable(work[r]) /\ Shaped(r) /\ Informed(r)
      BY DEF Inv, AccountsInvariant
    <3>2. Committable(work[r])'
      BY <1>1, <3>1 DEF accountVars, Committable, NewRowsFit, ReferencesHold, AcceptedStand,
         NothingRefersTo
    <3>3. Shaped(r)'
      BY <1>1, <3>1 DEF accountVars, Shaped
    <3>4. Informed(r)'
      BY <1>1, <3>1 DEF accountVars, Informed, KnownUser, KnownInvitation
    <3> QED
      BY <3>2, <3>3, <3>4
  <2>4. \A r, s \in Requests : r # s => Compatible(work[r], work[s])'
    BY <1>1 DEF accountVars, Inv, AccountsInvariant
  <2> QED
    BY <2>1, <2>2, <2>3, <2>4 DEF Inv, AccountsInvariant
<1>2. ASSUME NEW r \in Requests, StepIsRight(r)
      PROVE  Inv' /\ (UNCHANGED rows \/ \E s \in Requests : Commit(s))
  BY <1>2 DEF StepIsRight
<1>3. ASSUME NEW r \in Requests, NEW in \in Bodies, Arrive(r, in)
      PROVE  StepIsRight(r)
  BY <1>3, ArriveIsRight
<1>4. ASSUME NEW r \in Requests, RequestStep(r)
      PROVE  StepIsRight(r)
  <2>1. CASE Commit(r)
    BY <2>1, CommitPreserves DEF StepIsRight
  <2> QED
    BY <1>4, <2>1, LoginReadsAreRight, InsertUserIsRight, InsertCredentialIsRight,
       InvitingIsRight, DeletingIsRight DEF RequestStep
<1>5. ASSUME NEW r \in Requests, Abort(r)
      PROVE  StepIsRight(r)
  BY <1>5, RefusePreserves DEF Abort, StepIsRight, Refuse
<1> QED
  BY <1>1, <1>2, <1>3, <1>4, <1>5 DEF AccountsNext

\* The tables are consistent, whatever requests do at once and wherever they end,
\* and what each has read and flushed agrees with them.
THEOREM AccountsInvariantHolds == AccountsSpec => [](AccountsTypeOK /\ AccountsInvariant)
<1>1. AccountsSpec => []Inv
  BY AccountsInitInv, AccountsStep, PTL DEF AccountsSpec
<1> QED
  BY <1>1, PTL DEF Inv

\* A credential always leads to an account.
THEOREM CredentialsLeadToAccounts == AccountsSpec => []CredentialsNameAccounts
BY AccountsInvariantHolds, PTL DEF AccountsInvariant

\* An invitation is accepted by the creation of the account it grants, whoever
\* else registers, revokes or invites at the same time.
THEOREM AcceptedByJoining == AccountsSpec => AcceptanceIsAJoin
<1>1. Inv /\ [AccountsNext]_accountVars => [AcceptsByJoining]_accountVars
  <2>1. UNCHANGED rows => AcceptsByJoining
    BY DEF rows, AcceptsByJoining
  <2> QED
    BY <2>1, AccountsStep, CommitAcceptsByJoining
<1>2. AccountsSpec => []Inv
  BY AccountsInvariantHolds, PTL DEF Inv
<1> QED
  BY <1>1, <1>2, PTL DEF AccountsSpec, AcceptanceIsAJoin, AcceptsByJoining

\* Statement by statement, and with any requests at once, the service implements
\* the list of guests.
THEOREM AccountsImplementList == AccountsSpec => GuestListRefined
<1>1. AccountsInit => List!Init
  BY DEF AccountsInit, List!Init
<1>2. Inv /\ [AccountsNext]_accountVars => [List!Next]_(List!listVars)
  <2>1. UNCHANGED rows => UNCHANGED List!listVars
    BY DEF rows, List!listVars
  <2> QED
    BY <2>1, AccountsStep, CommitIsAListStep
<1>3. AccountsSpec => []Inv
  BY AccountsInvariantHolds, PTL DEF Inv
<1> QED
  BY <1>1, <1>2, <1>3, PTL DEF AccountsSpec, GuestListRefined, List!Spec

=============================================================================
