----------------------------- MODULE EventInbox -----------------------------
(***************************************************************************)
(* What the webhook endpoint promises of each event, however often and     *)
(* however concurrently it is delivered: it may fail any number of times,  *)
(* it is completed by one delivery at most, and it is then left alone.     *)
(***************************************************************************)
CONSTANTS
  Events,
  Deliveries

VARIABLES
  state,        \* where each event stands
  completed     \* <<delivery, event>>: whose handling was the one that counted

Init ==
  /\ state \in [Events -> {"NEW", "PROCESSED", "FAILED"}]
  /\ completed = {}

Open(e) == state[e] # "PROCESSED"

Fail(e) ==
  /\ Open(e)
  /\ state' = [state EXCEPT ![e] = "FAILED"]
  /\ UNCHANGED completed

Complete(x, e) ==
  /\ Open(e)
  /\ \A p \in completed : p[2] # e
  /\ state' = [state EXCEPT ![e] = "PROCESSED"]
  /\ completed' = completed \cup {<<x, e>>}

Next ==
  \E e \in Events : Fail(e) \/ \E x \in Deliveries : Complete(x, e)

Spec == Init /\ [][Next]_<<state, completed>>
=============================================================================
