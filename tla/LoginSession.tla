---------------------------- MODULE LoginSession ----------------------------
(***************************************************************************)
(* What token rotation promises: a login is a baton.  Its client holds it, *)
(* or a single request that is exchanging it; once let go it is gone, and  *)
(* only a new login makes a new one.                                       *)
(***************************************************************************)
CONSTANTS
  Sessions,     \* the logins
  Carriers      \* requests that may exchange a baton

VARIABLE holder \* "none", "client", "ended", or the carrier that has it

Init == holder \in [Sessions -> {"none", "client", "ended"}]

Start(s) ==
  /\ holder[s] = "none"
  /\ holder' = [holder EXCEPT ![s] = "client"]

Take(s, x) ==
  /\ holder[s] = "client"
  /\ holder' = [holder EXCEPT ![s] = x]

GiveBack(s) ==
  /\ holder[s] \in Carriers
  /\ holder' = [holder EXCEPT ![s] = "client"]

Drop(s) ==
  /\ holder[s] \in Carriers
  /\ holder' = [holder EXCEPT ![s] = "ended"]

End(S) ==
  /\ \A s \in S : holder[s] = "client"
  /\ holder' = [s \in Sessions |-> IF s \in S THEN "ended" ELSE holder[s]]

Next ==
  \/ \E s \in Sessions : \/ Start(s) \/ GiveBack(s) \/ Drop(s)
                         \/ \E x \in Carriers : Take(s, x)
  \/ \E S \in SUBSET Sessions : End(S)

Spec == Init /\ [][Next]_holder
=============================================================================
