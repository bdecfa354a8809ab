------------------------------ MODULE GuestList ------------------------------
(***************************************************************************)
(* What invitations promise: one account for an address, and no account    *)
(* with more than a member's rights unless an invitation, standing at that  *)
(* moment, or the configuration grants them.                                *)
(***************************************************************************)
CONSTANT Boss       \* the address that may always join as admin

VARIABLES
    members,        \* the [email, role] of the accounts
    invited         \* the [email, role] of the standing invitations

listVars == <<members, invited>>

Init == members = {} /\ invited = {}

\* Anyone may be entered as a member (POST /users/).
Admitted(g) ==
    \/ g \in invited
    \/ g = [email |-> Boss, role |-> "admin"]
    \/ g.role = "member"

Join ==
    \E g \in members' :
        /\ \A m \in members : m.email # g.email
        /\ Admitted(g)
        /\ members' = members \cup {g}
        /\ UNCHANGED invited

Leave == members' \subseteq members /\ UNCHANGED invited

\* By an admin, and once for an address.
Invite ==
    \E g \in invited' :
        /\ \E m \in members : m.role = "admin"
        /\ \A i \in invited : i.email # g.email
        /\ invited' = invited \cup {g}
        /\ UNCHANGED members

Withdraw == invited' \subseteq invited /\ UNCHANGED members

Next == Join \/ Leave \/ Invite \/ Withdraw

Spec == Init /\ [][Next]_listVars

=============================================================================
