----------------------------- MODULE HealthRule -----------------------------
(***************************************************************************)
(* How ClientHealthService.calculate rates a client, from what its one     *)
(* query of the account returned (client-health.service.ts).               *)
(*                                                                         *)
(* Dates are days, and a date that is not set is the day Never.  A row is  *)
(* a checklist item or a deliverable: digits is the first number before a  *)
(* "d" in its identifier, 0 when there is none.                            *)
(***************************************************************************)
EXTENDS Integers, FiniteSetsExt

ItemStatuses == {"NOT_STARTED", "IN_PROGRESS", "WAITING_ON_CLIENT", "BLOCKED",
                 "SUBMITTED", "COMPLETE", "WAIVED", "CANCELLED"}

WorkStatuses == {"NOT_STARTED", "IN_PROGRESS", "BLOCKED", "WAITING_ON_CLIENT",
                 "DELIVERED", "ACCEPTED", "REJECTED", "CANCELLED"}

HealthStates == {"HEALTHY", "WATCH", "AT_RISK", "CRITICAL", "PAUSED", "CHURNED",
                 "UNKNOWN"}

Elevated == {"AT_RISK", "CRITICAL"}

\* Later than any day of a run.
Never == 1000

\* What stands in the way of a launch, and what no longer can be late.
OpenGate(status) == status \notin {"COMPLETE", "WAIVED"}
Settled(status) == status \in {"COMPLETE", "WAIVED", "DELIVERED", "ACCEPTED", "CANCELLED"}

\* The values of a PAYMENT row that the pattern /PAID/ matches.
Confirmed == {"PAID_MANUAL", "UNPAID_MANUAL"}

With(rows, status) == {r \in DOMAIN rows : rows[r].status = status}

\* daysSince
Age(row, today) == today - row.touched

\* Every item is required.  Deliverables are never WAIVED, and items are
\* neither DELIVERED nor ACCEPTED.
Late(rows, today) ==
  {r \in DOMAIN rows : rows[r].due < today /\ ~Settled(rows[r].status)}

LongestBlock(rows, today) ==
  Max({0} \cup {Age(rows[r], today) : r \in With(rows, "BLOCKED")})

Unresponsive(items, today) ==
  \E i \in With(items, "WAITING_ON_CLIENT") : Age(items[i], today) >= 14

\* The evidence of a late row names its identifier and its date, and the number
\* of days is looked for in that text.
OverdueDays(rows, today) == Max({0} \cup {rows[r].digits : r \in Late(rows, today)})

Rate(account) ==
  LET items   == account.items
      works   == account.works
      today   == account.today
      rows    == {items, works}
      blocked == Cardinality(With(items, "BLOCKED")) + Cardinality(With(works, "BLOCKED"))
  IN  IF account.service \in {"CHURNED", "PAUSED"} THEN account.service
      ELSE IF \/ \E R \in rows : LongestBlock(R, today) > 14
              \/ blocked >= 2 THEN "CRITICAL"
      ELSE IF \/ blocked = 1
              \/ \E R \in rows : OverdueDays(R, today) > 7
              \/ Unresponsive(items, today)
              \/ With(works, "REJECTED") # {} THEN "AT_RISK"
      ELSE IF \/ \E R \in rows : Late(R, today) # {}
              \/ account.payment \notin Confirmed \cup {"none"} THEN "WATCH"
      ELSE IF ~account.planned /\ ~account.recorded THEN "UNKNOWN"
      ELSE "HEALTHY"
=============================================================================
