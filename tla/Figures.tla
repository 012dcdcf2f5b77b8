------------------------------- MODULE Figures -------------------------------
(***************************************************************************)
(* The figures of the dashboards and reports (kpi.service.ts,              *)
(* dashboard.service.ts and reporting.service.ts of the marketing module,  *)
(* and the workspace's own dashboard.service.ts).                          *)
(*                                                                         *)
(* A reading is a series of queries, without a transaction around them,    *)
(* and other requests write between any two.  Several figures are worked   *)
(* out more than once, from different queries by different code.  Counts   *)
(* of tasks, stages, signals and candidates enter no other figure and are  *)
(* left out.  The queries of one Promise.all are taken in the order they   *)
(* are sent in: what is claimed of a reading is claimed only where nothing *)
(* was written under it, and there the order makes no difference.  Each    *)
(* query reads the clock for itself, so that a date which passes counts as *)
(* a write.                                                                *)
(***************************************************************************)
EXTENDS Integers, Sequences, FiniteSets, Functions

CONSTANTS
  Clients, Items, Works, Deals, People,
  Owner,       \* the client of each item and deliverable
  Required,    \* the items that a launch waits for
  Ours,        \* the items DEMM is responsible for
  Price, Tier, \* of the offer each client bought
  Value,       \* of each deal: what it is worth, and how likely, in percent
  Likely,
  Shown,       \* the clients a list of those at risk holds at most
  MaxWrites,   \* a bound on the writes of others
  None         \* null

ItemStatuses == {"NOT_STARTED", "IN_PROGRESS", "WAITING_ON_CLIENT", "BLOCKED",
                 "SUBMITTED", "COMPLETE", "WAIVED", "CANCELLED"}
WorkStatuses == {"NOT_STARTED", "IN_PROGRESS", "BLOCKED", "WAITING_ON_CLIENT",
                 "DELIVERED", "ACCEPTED", "REJECTED", "CANCELLED"}
Dues == {"past", "soon"}

VARIABLES
  db,          \* the tables
  reader,      \* which view is asked for
  figures,     \* what the queries of the reading have come to so far
  writes,      \* the writes so far
  under        \* *history* those made under the reading

vars == <<db, reader, figures, writes, under>>

Client == [service : {"PENDING_ONBOARDING", "ACTIVE", None},
           plan : {"NOT_STARTED", "COMPLETE", None},
           billed : Nat \cup {None},
           health : {"HEALTHY", "AT_RISK", "CRITICAL", None}]

Stranger == [service |-> None, plan |-> None, billed |-> None, health |-> None]
Newcomer == [Stranger EXCEPT !.service = "PENDING_ONBOARDING", !.plan = "NOT_STARTED"]

Accounts == {c \in Clients : db.clients[c].service # None}
InService(status) == {c \in Clients : db.clients[c].service = status}
Of(c, R) == {r \in R : Owner[r] = c}

\* The items of a client, none before there is a plan; its deliverables likewise.
ItemsOf(c) == IF db.clients[c].plan = None THEN {} ELSE Of(c, Items)
WorksOf(c) == IF db.clients[c].plan = None THEN {} ELSE Of(c, Works)
AllItems == UNION {ItemsOf(c) : c \in Clients}
AllWorks == UNION {WorksOf(c) : c \in Clients}

Status(r) == IF r \in Items THEN db.items[r].status ELSE db.works[r].status
Due(r) == IF r \in Items THEN db.items[r].due ELSE db.works[r].due
Having(R, statuses) == {r \in R : Status(r) \in statuses}

\* A share in tenths of a percent, rounded; of nothing there is none.
Share(part, whole) ==
  IF whole = 0 THEN None ELSE (2000 * part + whole) \div (2 * whole)

-----------------------------------------------------------------------------
(* KpiService                                                              *)

Revenue == SumFunction([p \in db.ledger |-> p.amount])

Classification(verified, all, otherwise) ==
  IF all = {} \/ verified = {} THEN otherwise
  ELSE IF verified = all THEN "ACTUAL_VERIFIED" ELSE "MIXED_SOURCES"

RevenueClass ==
  Classification({p \in db.ledger : p.source = "STRIPE_WEBHOOK"}, db.ledger, "MANUALLY_RECORDED")

\* The newest active subscription, or what the offer costs.
Mrr ==
  SumFunction([c \in InService("ACTIVE") |->
                 IF db.clients[c].billed # None THEN db.clients[c].billed ELSE Price[c]])

MrrClass ==
  Classification({c \in InService("ACTIVE") : db.clients[c].billed # None},
                 InService("ACTIVE"), "ESTIMATED")

OpenDeals == {x \in Deals : db.deals[x].status = "OPEN"}
Projected == SumFunctionOnSet(Value, OpenDeals)
Weighted == SumFunction([x \in OpenDeals |-> (Value[x] * Likely[x]) \div 100])

Leads == {p \in People : db.people[p].status = "LEAD"}
Backlog == {p \in Leads : ~db.people[p].met}

Planned == {c \in Clients : db.clients[c].plan # None}
Completion ==
  Share(Cardinality({c \in Planned : db.clients[c].plan = "COMPLETE"}), Cardinality(Planned))

\* mutant of KpiReady: an item that was started is done
KpiReadyStarted ==
  {c \in InService("PENDING_ONBOARDING") :
     LET required == ItemsOf(c) \cap Required IN
       required # {} /\ Having(required, {"NOT_STARTED"}) = {}}

KpiReady ==
  {c \in InService("PENDING_ONBOARDING") :
     LET required == ItemsOf(c) \cap Required IN
       required # {} /\ required = Having(required, {"COMPLETE", "WAIVED"})}

KpiOverdue ==
  {w \in AllWorks :
     Due(w) = "past" /\ Status(w) \notin {"DELIVERED", "ACCEPTED", "CANCELLED"}}

Elevated == {c \in Clients : db.clients[c].health \in {"AT_RISK", "CRITICAL"}}

Least(m, n) == IF m < n THEN m ELSE n

\* What getRelationshipIntelligence lists of them: the latest rated, and no more than
\* Shown; when each was rated is left open.
Listed == {L \in SUBSET Elevated : Cardinality(L) = Least(Shown, Cardinality(Elevated))}

Rated == {c \in Clients : db.clients[c].health # None}

Average ==
  IF Accounts = {} THEN None
  ELSE SumFunctionOnSet(Price, Accounts) \div Cardinality(Accounts)

Tiers == [t \in {Tier[c] : c \in Accounts} |->
               Cardinality({c \in Accounts : Tier[c] = t})]

-----------------------------------------------------------------------------
(* DashboardService.getClientOperations, from one query of the accounts    *)

Pending == InService("PENDING_ONBOARDING")

Blocked == {c \in Pending : Having(ItemsOf(c), {"BLOCKED"}) # {}}

\* Items that DEMM still owes, whoever they wait on.
WaitingOnDemm ==
  {c \in Pending :
     (ItemsOf(c) \cap Ours) \ Having(Items, {"COMPLETE", "WAIVED", "CANCELLED"}) # {}}

WaitingOnThemselves ==
  {c \in Pending : Having(ItemsOf(c) \ Ours, {"WAITING_ON_CLIENT"}) # {}}

OpsReady ==
  {c \in Pending :
     LET required == ItemsOf(c) \cap Required IN
       required # {} /\ \A i \in required : Status(i) \in {"COMPLETE", "WAIVED"}}

OpsOverdue ==
  UNION {{w \in WorksOf(c) :
            Due(w) = "past" /\ Status(w) \notin {"DELIVERED", "ACCEPTED", "CANCELLED"}} :
         c \in Accounts}

Operations ==
  [pending |-> Cardinality(Pending), ready |-> Cardinality(OpsReady),
   active |-> Cardinality(InService("ACTIVE")), blocked |-> Blocked,
   waitingOnDemm |-> WaitingOnDemm, waitingOnThemselves |-> WaitingOnThemselves,
   overdue |-> OpsOverdue]

\* Open items that are due within a week, of getRelationshipIntelligence.
Milestones ==
  {i \in AllItems : Due(i) = "soon" /\ Status(i) \notin {"COMPLETE", "WAIVED", "CANCELLED"}}

-----------------------------------------------------------------------------
(* ReportingService.getClientProgressReport, of client c                   *)

ReportOf(c) ==
  LET items == ItemsOf(c)
      works == WorksOf(c)
      held  == items \cap Ours
  IN  [workCompleted   |-> Having(items, {"COMPLETE"})
                             \cup Having(works, {"DELIVERED", "ACCEPTED"}),
       workInProgress  |-> Having(items \cup works, {"IN_PROGRESS"}),
       waitingOnClient |-> Having(items, {"WAITING_ON_CLIENT"}),
       waitingOnDemm   |-> Having(held, {"NOT_STARTED", "IN_PROGRESS", "BLOCKED"})
                             \cup Having(works, {"NOT_STARTED", "BLOCKED"}),
       blockers        |-> Having(items \cup works, {"BLOCKED"}),
       upcoming        |-> {r \in items \cup works : Due(r) = "soon"},
       incomplete      |-> db.clients[c].plan = None]

-----------------------------------------------------------------------------
(* The workspace's dashboard: getDashboardData                             *)

DeskProjected == SumFunction([x \in OpenDeals |-> (Value[x] * Likely[x]) \div 100])
LikelyToBook == {x \in OpenDeals : Likely[x] >= 70}
NeedsFollowup == {p \in Leads : ~db.people[p].met /\ ~db.people[p].noted}

\* OnboardingService.checkLaunchReadiness: what activate asks.
MayLaunch(c) ==
  Having(ItemsOf(c) \cap Required, ItemStatuses \ {"COMPLETE", "WAIVED"}) = {}

-----------------------------------------------------------------------------
(* The readings                                                            *)

KpiQueries == <<"revenue", "mrr", "pipeline", "backlog", "leads", "converted", "completion",
                "ready", "overdue", "active", "elevated", "rated", "all", "churned",
                "total", "average", "tiers">>
SectionQueries == <<"byStage", "open", "operations", "atRisk", "milestones">>

Queries(kind) ==
  CASE kind = "dashboard" -> KpiQueries \o SectionQueries
    [] kind = "desk"      -> <<"today", "projected", "followup">>
    [] kind = "report"    -> <<"account">>

\* What the queries come to, but for the list of clients at risk.
Answer(q) ==
  CASE q = "revenue"    -> [value |-> Revenue, class |-> RevenueClass]
    [] q = "mrr"        -> [value |-> Mrr, class |-> MrrClass]
    [] q = "pipeline"   -> [projected |-> Projected, weighted |-> Weighted]
    [] q = "backlog"    -> Cardinality(Backlog)
    [] q = "completion" -> Completion
    [] q = "ready"      -> Cardinality(KpiReady)
    [] q = "overdue"    -> Cardinality(KpiOverdue)
    [] q = "active"     -> Cardinality(InService("ACTIVE"))
    [] q = "elevated"   -> Cardinality(Elevated)
    [] q = "rated"      -> Cardinality(Rated)
    [] q = "churned"    -> Cardinality(InService("CHURNED"))
    [] q \in {"converted", "all", "total"} -> Cardinality(Accounts)
    [] q \in {"leads", "today"}            -> Cardinality(People)
    [] q = "average"    -> Average
    [] q = "tiers"      -> Tiers
    [] q = "byStage"    -> Projected
    [] q = "open"       -> Cardinality(OpenDeals)
    [] q = "operations" -> Operations
    [] q = "milestones" -> Cardinality(Milestones)
    [] q = "projected"  -> [value |-> DeskProjected, likely |-> Cardinality(LikelyToBook)]
    [] q = "followup"   -> Cardinality(NeedsFollowup)
    [] q = "account"    -> [c \in Accounts |-> ReportOf(c)]

Answers(q) == IF q = "atRisk" THEN Listed ELSE {Answer(q)}

\* A business unit with clients in onboarding, all at risk or none rated, or none yet.
Init ==
  /\ \E converted \in SUBSET Clients, rating \in {"AT_RISK", None},
        status \in [Items -> {"NOT_STARTED", "COMPLETE"}], due \in {"past", "soon"} :
       db = [clients |-> [c \in Clients |-> IF c \in converted THEN [Newcomer EXCEPT !.health = rating]
                                             ELSE Stranger],
             items   |-> [i \in Items |-> [status |-> status[i], due |-> due]],
             works   |-> [w \in Works |-> [status |-> "NOT_STARTED", due |-> due]],
             deals   |-> [x \in Deals |-> [status |-> "OPEN"]],
             people  |-> [p \in People |-> [status |-> "LEAD", met |-> FALSE, noted |-> FALSE]],
             ledger  |-> {}]
  /\ reader \in {"dashboard", "desk", "report"}
  /\ figures = << >>
  /\ writes = 0
  /\ under = 0

\* The next query of the reading.
Query ==
  /\ Len(figures) < Len(Queries(reader))
  /\ \E answer \in Answers(Queries(reader)[Len(figures) + 1]) :
       figures' = Append(figures, answer)
  /\ UNCHANGED <<db, reader, writes, under>>

Over == Len(figures) = Len(Queries(reader))

\* The handlers that write what is read here, each by what it leaves behind.
Write(tables) ==
  /\ writes < MaxWrites /\ ~Over
  /\ tables # db
  /\ db' = tables
  /\ writes' = writes + 1
  /\ under' = IF figures = << >> THEN 0 ELSE under + 1
  /\ UNCHANGED <<reader, figures>>

Converts(c) ==
  /\ db.clients[c].service = None
  /\ Write([db EXCEPT !.clients[c] = Newcomer])

Launches(c) ==
  /\ db.clients[c].service = "PENDING_ONBOARDING"
  /\ Write([db EXCEPT !.clients[c].service = "ACTIVE", !.clients[c].plan = "COMPLETE"])

Rates(c) ==
  \E h \in {"HEALTHY", "AT_RISK"} :
    db.clients[c].service # None /\ Write([db EXCEPT !.clients[c].health = h])

Bills(c) ==
  /\ db.clients[c].service # None
  /\ Write([db EXCEPT !.clients[c].billed = Price[c]])

UpdatesItem(i) ==
  /\ db.clients[Owner[i]].plan # None
  /\ \E s \in ItemStatuses : Write([db EXCEPT !.items[i].status = s])

UpdatesWork(w) ==
  /\ db.clients[Owner[w]].plan # None
  /\ \E s \in WorkStatuses : Write([db EXCEPT !.works[w].status = s])

\* The date of an item or a deliverable passes.
ItemFallsDue(i) ==
  /\ db.items[i].due = "soon"
  /\ Write([db EXCEPT !.items[i].due = "past"])

WorkFallsDue(w) ==
  /\ db.works[w].due = "soon"
  /\ Write([db EXCEPT !.works[w].due = "past"])

ClosesDeal(x) == \E s \in {"WON", "LOST"} : Write([db EXCEPT !.deals[x].status = s])

Touches(p) ==
  \/ Write([db EXCEPT !.people[p].met = TRUE])
  \/ Write([db EXCEPT !.people[p].noted = TRUE])
  \/ Write([db EXCEPT !.people[p].status = "CUSTOMER"])

Pays ==
  \E source \in {"STRIPE_WEBHOOK", "MANUAL"} :
    Write([db EXCEPT !.ledger = @ \cup {[amount |-> 97, source |-> source]}])

Next ==
  \/ Query
  \/ \E c \in Clients : Converts(c) \/ Launches(c) \/ Rates(c) \/ Bills(c)
  \/ \E i \in Items : UpdatesItem(i) \/ ItemFallsDue(i)
  \/ \E w \in Works : UpdatesWork(w) \/ WorkFallsDue(w)
  \/ \E x \in Deals : ClosesDeal(x)
  \/ \E p \in People : Touches(p)
  \/ Pays

Spec == Init /\ [][Next]_vars

-----------------------------------------------------------------------------
(* Properties.                                                             *)

\* The tables have the columns of the schema, and a reading answers no query twice.
TypesHold ==
  /\ db.clients \in [Clients -> Client]
  /\ db.items \in [Items -> [status : ItemStatuses, due : Dues]]
  /\ db.works \in [Works -> [status : WorkStatuses, due : Dues]]
  /\ db.deals \in [Deals -> [status : {"OPEN", "WON", "LOST"}]]
  /\ db.people \in [People -> [status : {"LEAD", "CUSTOMER"}, met : BOOLEAN, noted : BOOLEAN]]
  /\ Len(figures) <= Len(Queries(reader))
  /\ writes \in 0..MaxWrites /\ under \in 0..writes

\* The figure of that query, and how far two of them are apart.
The(q) == figures[CHOOSE n \in DOMAIN figures : Queries(reader)[n] = q]
Apart(m, n) == IF m > n THEN m - n ELSE n - m

\* The counts of clients of KpiService differ from those of the lists beside them
\* by no more than what was written while the dashboard was read, and no count does
\* if nothing was; the list of clients at risk is Shown long at most, and up to there
\* as long as the count ("Single source of truth for the Marketing Dashboard",
\* dashboard.service.ts; a conversion brings all deliverables of a client at once);
\* then a client that counts as ready can be launched without an override, and what
\* the workspace's own dashboard calls projected is the weighted pipeline.
FiguresAgree ==
  Over =>
    /\ reader = "dashboard" =>
         /\ Apart(The("ready"), The("operations").ready) <= under
         /\ Apart(The("active"), The("operations").active) <= under
         /\ Apart(Least(Shown, The("elevated")), Cardinality(The("atRisk"))) <= under
         /\ under = 0 => /\ The("overdue") = Cardinality(The("operations").overdue)
                         /\ The("pipeline").projected = The("byStage")
                         /\ The("ready") <= Cardinality({c \in Pending : MayLaunch(c)})
                         /\ The("rated") <= The("all")
    /\ reader = "desk" /\ under = 0 =>
         /\ The("projected").value = Weighted
         /\ The("followup") <= Cardinality(Backlog)

\* The report a client gets does not contradict what is shown inside: work reported
\* as done is not owed, what blocks or waits is on the internal lists, and a client
\* that counts as ready has no required item under way (ReportingService, which
\* keeps the two reports apart and works each out for itself).
ReportsAgree ==
  Over /\ reader = "report" =>
    \A c \in DOMAIN The("account") :
      LET r == The("account")[c]
          open == r.waitingOnClient \cup r.waitingOnDemm \cup r.blockers \cup r.workInProgress
      IN  /\ r.workCompleted \cap open = {}
          /\ c \in KpiReady => Required \cap open = {}
          /\ c \in Pending =>
               /\ r.blockers \cap Items # {} => c \in Blocked
               /\ r.waitingOnDemm \cap Items # {} => c \in WaitingOnDemm
               /\ r.waitingOnClient \ Ours # {} => c \in WaitingOnThemselves
=============================================================================
