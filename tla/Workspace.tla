----------------------------- MODULE Workspace -----------------------------
(***************************************************************************)
(* What the users of a workspace do: register and sign in within the       *)
(* limits of their clients, get past the guards, run agent tools, keep     *)
(* records.  As in Services a behaviour is of the part that its first      *)
(* state names; parts that have a variable of the same name use the same   *)
(* one.                                                                    *)
(***************************************************************************)
EXTENDS Naturals

CONSTANTS
  Calls,        \* requests to register, to run a tool, and those the limiter counts
  Editors,      \* requests that write records
  Guarded,      \* requests that pass the guards
  Invited, Spelled, Other, Passwords, Subdomains,
  Sessions,
  Workspaces, Users, Member,
  Clients, Limits, MaxMinutes,
  Home, Units, Asked, Given, MaxChanges,
  None

VARIABLES
  part,        \* the part
  calls, rows, past,
  accounts, invitation, seats, overtaken, removed,
  activeExecutions, completedExecutions, aborted, asked,
  members, trail,
  settings, budgets, minute,
  workspaces, changes

registrationOnly == <<accounts, invitation, seats, overtaken, removed>>
runsOnly == <<activeExecutions, completedExecutions, aborted, asked>>
recordsOnly == <<members, trail, past>>
budgetsOnly == <<settings, budgets, minute>>
requestsOnly == <<workspaces, changes>>

vars == <<part, calls, rows, registrationOnly, runsOnly, recordsOnly, budgetsOnly, requestsOnly>>

Registration == INSTANCE AccountRegistration

Runs == INSTANCE AgentRuns

Records == INSTANCE CrmRecords WITH Calls <- Editors

Budgets == INSTANCE ClientBudgets

Requests == INSTANCE RequestAuthority WITH Calls <- Guarded

\* null is no account, no outcome and no answer.
RegistrationFit ==
  None \notin [password : Passwords, by : Calls] \cup {"CREATED", "ALREADY_REGISTERED"}
                \cup Registration!Answers

\* null is no run and not the mark of a cancellation.
RunsFit == None \notin Calls \cup {"pre-emptive-abort"}

\* Requests are not among the first records, and null is neither a record nor the
\* name of one.
RecordsFit ==
  /\ Editors \cap (Records!Kinds \X Workspaces \X {1, 2}) = {}
  /\ None \notin Records!Ids
  /\ None \notin Records!Row

\* null is no answer, no client has the address of a server, and the limits and the
\* bound are numbers.
BudgetsFit ==
  /\ None \notin {200, 400, 429, 502}
  /\ Budgets!Web \notin Clients /\ Budgets!Balancer \notin Clients
  /\ Limits \in [Budgets!Paths -> Nat] /\ MaxMinutes \in Nat

\* The roles that others give are roles, and the bound is a number.
RequestsFit == Given \subseteq Requests!Roles /\ MaxChanges \in Nat

ASSUME ConstantsAssumption == RegistrationFit /\ RunsFit /\ RecordsFit /\ BudgetsFit /\ RequestsFit

NoAccounts ==
  accounts = None /\ invitation = None /\ overtaken = None /\ removed = None
NoRegistration == NoAccounts /\ seats = None
NoRuns ==
  activeExecutions = None /\ completedExecutions = None /\ aborted = None /\ asked = None
NoRecords == members = None /\ trail = None /\ past = None
NoBudgets == settings = None /\ budgets = None /\ minute = None
NoRequests == workspaces = None /\ changes = None

Init ==
  \/ /\ part = "registration" /\ Registration!Init
     /\ NoRuns /\ NoRecords /\ NoBudgets /\ NoRequests
  \/ /\ part = "runs" /\ Runs!Init
     /\ NoRegistration /\ NoRecords /\ NoBudgets /\ NoRequests /\ rows = None
  \/ /\ part = "records" /\ Records!Init
     /\ NoRegistration /\ NoRuns /\ NoBudgets /\ NoRequests
  \/ /\ part = "budgets" /\ Budgets!Init
     /\ NoRegistration /\ NoRuns /\ NoRecords /\ NoRequests /\ rows = None
  \/ /\ part = "requests" /\ Requests!Init
     /\ NoAccounts /\ NoRuns /\ NoRecords /\ NoBudgets /\ rows = None

Next ==
  /\ UNCHANGED part
  /\ \/ /\ part = "registration" /\ Registration!Next
        /\ UNCHANGED <<runsOnly, recordsOnly, budgetsOnly, requestsOnly>>
     \/ /\ part = "runs" /\ Runs!Next
        /\ UNCHANGED <<registrationOnly, recordsOnly, budgetsOnly, requestsOnly, rows>>
     \/ /\ part = "records" /\ Records!Next
        /\ UNCHANGED <<registrationOnly, runsOnly, budgetsOnly, requestsOnly>>
     \/ /\ part = "budgets" /\ Budgets!Next
        /\ UNCHANGED <<registrationOnly, runsOnly, recordsOnly, requestsOnly, rows>>
     \/ /\ part = "requests" /\ Requests!Next
        /\ UNCHANGED <<accounts, invitation, overtaken, removed, runsOnly, recordsOnly,
                       budgetsOnly, rows>>

Spec == Init /\ [][Next]_vars

\* The answers about an account and its session are true (AccountRegistration).
\* In each part one property has the types of the part's variables with it.
RegistrationAnswersTruly ==
  part = "registration" => Registration!TypesHold /\ Registration!RegistrationAnswersTruly

\* NoDeadAccounts and RemovedStayOut of AccountRegistration: a withdrawn or spent
\* invitation makes no account and lets nobody in again.
InvitationsEndForGood ==
  part = "registration" => Registration!NoDeadAccounts /\ Registration!RemovedStayOut

\* A run that was cancelled before it started is not carried out (AgentRuns).
CancellationHolds == part = "runs" => Runs!TypesHold /\ Runs!CancellationHolds

\* RelationsStayInside and TrailEndsWhereTheDealIs of CrmRecords: records refer to
\* records of their workspace but where an update took the record or the relation
\* elsewhere unchecked, and the activities of a deal end where it is.
RelationsStayInside ==
  part = "records" => Records!TypesHold /\ Records!RelationsStayInside /\ Records!TrailEndsWhereTheDealIs

\* A client is refused for its own requests (ClientBudgets).
BudgetsAreTheirOwn == part = "budgets" => Budgets!TypesHold /\ Budgets!BudgetsAreTheirOwn

\* A request acts by an authority its user had since it was sent (RequestAuthority).
AuthorityWasHeld == part = "requests" => Requests!TypesHold /\ Requests!AuthorityWasHeld

\* What the comments of the code say and the code does not do: InvitationHopsAreNotThrottled
\* of ClientBudgets, RegistrantsCanSignIn of AccountRegistration.
InvitationHopsAreNotThrottled == part = "budgets" => Budgets!InvitationHopsAreNotThrottled

RegistrantsCanSignIn == part = "registration" => Registration!RegistrantsCanSignIn
=============================================================================
