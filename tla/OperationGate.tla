--------------------------- MODULE OperationGate ---------------------------
(***************************************************************************)
(* What starting a conversion or an indexing run promises: an operation is *)
(* accepted only when no other one runs, begins once, and ends once.       *)
(***************************************************************************)
CONSTANT Requests

VARIABLE status   \* the status of each request's task, or "none"

Statuses == {"none", "WAITING", "IN_PROGRESS", "SUCCESS", "FAILED"}

Init == status = [r \in Requests |-> "none"]

InFlight(r) == status[r] \in {"WAITING", "IN_PROGRESS"}

Accept(r) ==
    /\ status[r] = "none"
    /\ \A q \in Requests : ~InFlight(q)
    /\ status' = [status EXCEPT ![r] = "WAITING"]

Begin(r) ==
    /\ status[r] = "WAITING"
    /\ status' = [status EXCEPT ![r] = "IN_PROGRESS"]

Finish(r) ==
    /\ status[r] = "IN_PROGRESS"
    /\ \E result \in {"SUCCESS", "FAILED"} :
          status' = [status EXCEPT ![r] = result]

Next == \E r \in Requests : Accept(r) \/ Begin(r) \/ Finish(r)

Spec == Init /\ [][Next]_status

=============================================================================
