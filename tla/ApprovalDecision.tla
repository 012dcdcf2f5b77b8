-------------------------- MODULE ApprovalDecision --------------------------
(***************************************************************************)
(* What the approval workflow promises to the rest of the system, whoever  *)
(* calls it and whatever fails: a request is decided once, and a decided   *)
(* request is performed at most once, and only if it was approved.         *)
(***************************************************************************)
CONSTANTS
  Approvals,    \* the requests
  Performers    \* who may carry an approved action out

VARIABLES
  status,       \* where each request stands
  performed     \* <<who, request>>, one pair for each time an action was carried out

Open == "PENDING"
Decisions == {"APPROVED", "REJECTED", "EXPIRED", "CANCELLED"}

Init ==
  /\ status \in [Approvals -> {"ABSENT", Open}]
  /\ performed = {}

Ask(a) ==
  /\ status[a] = "ABSENT"
  /\ status' = [status EXCEPT ![a] = Open]
  /\ UNCHANGED performed

Decide(a, d) ==
  /\ status[a] = Open
  /\ status' = [status EXCEPT ![a] = d]
  /\ UNCHANGED performed

Perform(x, a) ==
  /\ status[a] = "APPROVED"
  /\ \A p \in performed : p[2] # a
  /\ performed' = performed \cup {<<x, a>>}
  /\ UNCHANGED status

Next ==
  \E a \in Approvals :
    \/ Ask(a)
    \/ \E d \in Decisions : Decide(a, d)
    \/ \E x \in Performers : Perform(x, a)

Spec == Init /\ [][Next]_<<status, performed>>
=============================================================================
