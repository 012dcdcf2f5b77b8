--------------------------- MODULE ClientDelivery ---------------------------
(***************************************************************************)
(* The work done for one client account after its conversion: the          *)
(* onboarding checklist and the launch (onboarding.service.ts), the        *)
(* deliverables (service-deliverable.service.ts), the recorded contract    *)
(* and payment states, and the health rating that follows them             *)
(* (client-health.service.ts).                                             *)
(*                                                                         *)
(* A call reads the rows it needs, then writes in one transaction, and     *)
(* after its commit rates the client in further statements of its own.     *)
(* Nothing is locked: other calls run between any two of these steps.      *)
(***************************************************************************)
EXTENDS HealthRule, Sequences

CONSTANTS
  Calls,       \* requests; each is one process
  Items,       \* the checklist items the account's offer asks for
  Services,    \* the deliverables its offer includes
  Extras,      \* deliverables that may be added outside the scope
  Digits,      \* the number in the identifier of each row
  Asks,        \* the bodies of a PATCH: a status and a due date, or None
  Ratings,     \* the states an override may set
  Account,     \* the identifier of the account
  Contacts,    \* the identifiers of the contacts of its business unit
  Horizon,     \* the last day, a bound
  None         \* null

Works == Services \cup Extras
Rows == Items \cup Works

VARIABLES
  plan,        \* OnboardingPlan.state, or None
  service,     \* ClientAccount.serviceStatus
  rows,        \* checklist items and deliverables, or None
  commercial,  \* latest PAYMENT value, and whether anything is recorded
  health,      \* the ClientHealth row, or None
  signals,     \* HEALTH_DEGRADED signals in state ACTIVE
  overrides,   \* LaunchGateOverride rows: their affectedGates
  filed,       \* calls whose MemoryCandidate on a transition is on record
  today,       \* the date
  calls,       \* the local state of every request
  log,         \* *history* status changes of every row
  launches,    \* *history* what every activation found
  past         \* *history* what has come between reads and writes

evidence == <<plan, service, rows, commercial, today>>
rating == <<health, signals, filed>>
vars == <<evidence, rating, overrides, calls, log, launches, past>>

Row == [status : ItemStatuses \cup WorkStatuses, due : Nat, touched : Nat, digits : Nat]
HealthRow == [state : HealthStates, computed : HealthStates,
              override : HealthStates \cup {None}]

\* Reads are over and writes or the rating remain.
Working == {"update", "launch", "generate", "override", "clear", "evidence",
            "health", "save", "signal"}
Ended == {"done", "refused", "crashed"}

Idle == [pc |-> "idle", op |-> None, row |-> None, ask |-> None, was |-> None,
         gates |-> {}, rated |-> None, found |-> None, between |-> {}]

NewRow(r) == [status |-> "NOT_STARTED", due |-> Never, touched |-> today,
              digits |-> Digits[r]]

Exists(R) == {r \in R : rows[r] # None}

\* What the query of an account returns, as the rule sees it.
Facts == [service  |-> service,
          planned  |-> plan # None,
          items    |-> [r \in Exists(Items) |-> rows[r]],
          works    |-> [r \in Exists(Works) |-> rows[r]],
          payment  |-> commercial.payment,
          recorded |-> commercial.recorded,
          today    |-> today]

-----------------------------------------------------------------------------

\* An account converted before plans were made, or one that has its plan, whose
\* items and deliverables have had an undisturbed change each, and that was
\* rated after them; either may have been put under an override.
Init ==
  /\ today = 0
  /\ service = "PENDING_ONBOARDING"
  /\ commercial = [payment |-> "none", recorded |-> FALSE]
  /\ plan \in {None, "NOT_STARTED"}
  /\ \E was \in [Rows -> {"NOT_STARTED", "BLOCKED"}] :
       /\ rows = [r \in Rows |-> IF plan # None /\ r \notin Extras
                                 THEN [NewRow(r) EXCEPT !.status = was[r]] ELSE None]
       /\ log = [r \in Rows |-> IF rows[r] # None /\ was[r] = "BLOCKED"
                                THEN <<[from |-> "NOT_STARTED", to |-> "BLOCKED",
                                        overtaken |-> FALSE]>>
                                ELSE << >>]
  /\ \/ health = None
     \/ \E o \in Ratings \cup {None} :
          health = [state |-> IF o = None THEN Rate(Facts) ELSE o,
                    computed |-> Rate(Facts), override |-> o]
  /\ signals = IF health # None /\ health.computed \in Elevated THEN 1 ELSE 0
  /\ overrides = {}
  /\ filed = {}
  /\ calls = [c \in Calls |-> Idle]
  /\ launches = {}
  /\ past = [unrated |-> health = None, torn |-> FALSE,
             disturbed |-> health # None /\ health.override # None]

At(c, pc) == calls[c].pc = pc

\* History: what has happened to the rows that call d has read.
Notice(f, what, others) ==
  [d \in Calls |->
     IF d \in others /\ f[d].pc \in Working
     THEN [f[d] EXCEPT !.between = @ \cup what] ELSE f[d]]

Turn(c, new) == calls' = [calls EXCEPT ![c] = new]

\* The other calls learn what was written under them.
TurnAndTell(c, new, what) ==
  calls' = Notice([calls EXCEPT ![c] = new], what, Calls \ {c})

\* A request of kind op after its first reads, and one that is over.
Request(op, pc) == [Idle EXCEPT !.pc = pc, !.op = op]
Over(outcome) == [Idle EXCEPT !.pc = outcome]

Answer(c, outcome) == Turn(c, Over(outcome))

-----------------------------------------------------------------------------
(* Updates of a checklist item or a deliverable.                           *)

\* The row is read before the transaction.
FindRow(c, r, ask) ==
  /\ At(c, "idle")
  /\ Turn(c, IF rows[r] = None THEN Over("refused")
             ELSE [Request("update", "update")
                     EXCEPT !.row = r, !.ask = ask, !.was = rows[r].status])
  /\ UNCHANGED <<evidence, rating, overrides, log, launches, past>>

UpdateItem(c) ==
  \E i \in Items, ask \in Asks :
    ask.status \in ItemStatuses \cup {None} /\ FindRow(c, i, ask)

UpdateDeliverable(c) ==
  \E w \in Works, ask \in Asks :
    ask.status \in WorkStatuses \cup {None} /\ FindRow(c, w, ask)

Given(value, kept) == IF value = None THEN kept ELSE value

\* A status is written, and put on record, when it differs from the one read.
Changes(call) == call.ask.status \notin {None, call.was}

\* mutant of Patched: the status that was asked for is written in any case
PatchedAlways(row, call) ==
  [row EXCEPT !.status = Given(call.ask.status, @), !.due = Given(call.ask.due, @),
              !.touched = today]

Patched(row, call) ==
  [row EXCEPT !.status  = IF Changes(call) THEN call.ask.status ELSE @,
              !.due     = Given(call.ask.due, @),
              !.touched = today]

LogEntry(call) == [from |-> call.was, to |-> call.ask.status,
                   overtaken |-> call.row \in call.between]

CommitUpdate(c) ==
  /\ At(c, "update")
  /\ LET call == calls[c] IN
       /\ rows' = [rows EXCEPT ![call.row] = Patched(@, call)]
       /\ log' = IF Changes(call)
                 THEN [log EXCEPT ![call.row] = Append(@, LogEntry(call))] ELSE log
       /\ TurnAndTell(c, Request(call.op, "evidence"),
                      {call.row, "evidence"})
  /\ UNCHANGED <<plan, service, commercial, today, rating, overrides, launches, past>>

-----------------------------------------------------------------------------
(* The launch.                                                             *)

OpenGates == {i \in Exists(Items) : OpenGate(rows[i].status)}

\* activate reads the required items; without an override one that is still
\* open refuses it.
Activate(c) ==
  \E bypass \in BOOLEAN :
    /\ At(c, "idle")
    /\ Turn(c, IF plan = None \/ (OpenGates # {} /\ ~bypass)
               THEN Over("refused")
               ELSE [Request("activate", "launch") EXCEPT !.gates = OpenGates])
    /\ UNCHANGED <<evidence, rating, overrides, log, launches, past>>

\* mutant of Bypassed: the row is written before its gates are collected
BypassedUnnamed(call) == IF call.gates # {} THEN {{}} ELSE {}

\* The LaunchGateOverride row of a launch over open items.
Bypassed(call) == IF call.gates # {} THEN {call.gates} ELSE {}

CommitLaunch(c) ==
  /\ At(c, "launch")
  /\ LET call == calls[c] IN
       /\ overrides' = overrides \cup Bypassed(call)
       /\ launches' = launches \cup {[read    |-> call.gates,
                                      open    |-> OpenGates,
                                      between |-> call.between \cap Items]}
       /\ TurnAndTell(c, Request(call.op, "evidence"), {"evidence"})
  /\ plan' = "COMPLETE"
  /\ service' = "ACTIVE"
  /\ UNCHANGED <<rows, commercial, today, rating, log, past>>

-----------------------------------------------------------------------------
(* Writes that do not rate the client.                                     *)

\* The rating no longer follows the evidence.
Unrated == past' = [past EXCEPT !.unrated = TRUE]

\* The repair of an account that has no plan: generateForClient.
Generate(c) ==
  /\ At(c, "idle")
  /\ Turn(c, IF plan = None THEN Request("generate", "generate") ELSE Over("done"))
  /\ UNCHANGED <<evidence, rating, overrides, log, launches, past>>

\* An account has one plan: a second insert fails and rolls back.
CommitPlan(c) ==
  /\ At(c, "generate")
  /\ IF plan # None
     THEN /\ Answer(c, "refused")
          /\ UNCHANGED <<evidence, past>>
     ELSE /\ plan' = "NOT_STARTED"
          /\ rows' = [r \in Rows |-> IF r \in Extras THEN rows[r] ELSE NewRow(r)]
          /\ TurnAndTell(c, Over("done"),
                         Items \cup Services \cup {"evidence"})
          /\ Unrated
          /\ UNCHANGED <<service, commercial, today>>
  /\ UNCHANGED <<rating, overrides, log, launches>>

CreateOutsideScope(c) ==
  \E w \in Extras :
    /\ At(c, "idle")
    /\ rows[w] = None
    /\ rows' = [rows EXCEPT ![w] = NewRow(w)]
    /\ TurnAndTell(c, Over("done"), {w, "evidence"})
    /\ Unrated
    /\ UNCHANGED <<plan, service, commercial, today, rating, overrides, log, launches>>

\* A PAYMENT is not taken by hand over a live subscription unless the caller
\* says so; a CONTRACT always is.
RecordCommercialStateChange(c) ==
  \E payment \in {"none", "PAID_MANUAL", "PENDING_MANUAL"}, refused \in BOOLEAN :
    /\ At(c, "idle")
    /\ refused => payment # "none"
    /\ IF refused
       THEN /\ Turn(c, Over("refused"))
            /\ UNCHANGED <<commercial, past>>
       ELSE /\ commercial' = [recorded |-> TRUE,
                              payment |-> IF payment = "none" THEN commercial.payment
                                          ELSE payment]
            /\ TurnAndTell(c, Over("done"), {"evidence"})
            /\ Unrated
    /\ UNCHANGED <<plan, service, rows, today, rating, overrides, log, launches>>

\* Weeks go by; no job rates the client again.
TimePasses ==
  /\ today < Horizon
  /\ today' = Horizon
  /\ calls' = Notice(calls, {"evidence"}, Calls)
  /\ Unrated
  /\ UNCHANGED <<plan, service, rows, commercial, rating, overrides, log, launches>>

-----------------------------------------------------------------------------
(* The rating: calculate, after the commit of an update or a launch, or as *)
(* a request of its own.                                                   *)

Recalculate(c) ==
  /\ At(c, "idle")
  /\ Turn(c, Request("recalculate", "evidence"))
  /\ UNCHANGED <<evidence, rating, overrides, log, launches, past>>

ReadEvidence(c) ==
  /\ At(c, "evidence")
  /\ Turn(c, [calls[c] EXCEPT !.pc = "health", !.rated = Rate(Facts), !.between = {}])
  /\ UNCHANGED <<evidence, rating, overrides, log, launches, past>>

ReadHealth(c) ==
  /\ At(c, "health")
  /\ Turn(c, [calls[c] EXCEPT !.pc = "save", !.found = health, !.between = @ \ {"health"}])
  /\ UNCHANGED <<evidence, rating, overrides, log, launches, past>>

OverrideIn(row) == IF row = None THEN None ELSE row.override
IsElevated(row) == row # None /\ row.state \in Elevated

\* mutant of Effective: the computed state is shown over an override
EffectiveComputed(call) == call.rated

Effective(call) == Given(OverrideIn(call.found), call.rated)

\* An update leaves the override that the row has by now.
Upserted(call) ==
  [state    |-> Effective(call),
   computed |-> call.rated,
   override |-> OverrideIn(IF health = None THEN call.found ELSE health)]

\* mutant of Crosses: every rating of an elevated client tells
CrossesAgain(call) == IsElevated(call.found) \/ Effective(call) \in Elevated

\* A rating that crosses the line between elevated and not goes on to tell the
\* relationship memory.
Crosses(call) == IsElevated(call.found) # (Effective(call) \in Elevated)

SaveHealth(c) ==
  /\ At(c, "save")
  /\ LET call == calls[c] IN
       /\ health' = Upserted(call)
       /\ TurnAndTell(c, IF Crosses(call) THEN [Request(call.op, "signal") EXCEPT !.rated = Effective(call)]
                      ELSE Over("done"),
                      {"health"})
       /\ past' = [unrated   |-> "evidence" \in call.between,
                   torn      |-> "health" \in call.between,
                   disturbed |-> \/ past.disturbed
                                 \/ "health" \in call.between
                                 \/ \E d \in Calls \ {c} : At(d, "signal")]
  /\ UNCHANGED <<evidence, signals, filed, overrides, log, launches>>

\* recordHealthChangeCandidate: the candidate is filed under the subject CONTACT
\* with the identifier of the account, and is refused when no contact has it.
Filed == Account \in Contacts

\* onHealthDegraded, onHealthRecovered: the signal is written first.
Signal(c) ==
  /\ At(c, "signal")
  /\ signals' = IF calls[c].rated \in Elevated THEN signals + 1 ELSE 0
  /\ IF Filed
     THEN filed' = filed \cup {c} /\ Answer(c, "done")
     ELSE /\ UNCHANGED filed
          /\ Answer(c, IF calls[c].op = "recalculate" THEN "refused" ELSE "done")
  /\ UNCHANGED <<evidence, health, overrides, log, launches, past>>

-----------------------------------------------------------------------------
(* The override of a rating.  The row is read before the transaction.      *)

Override(c) ==
  \E state \in Ratings :
    /\ At(c, "idle")
    /\ Turn(c, IF health = None THEN Over("refused")
               ELSE [Request("override", "override") EXCEPT !.rated = state])
    /\ UNCHANGED <<evidence, rating, overrides, log, launches, past>>

CommitOverride(c) ==
  /\ At(c, "override")
  /\ health' = [health EXCEPT !.state = calls[c].rated, !.override = calls[c].rated]
  /\ TurnAndTell(c, Over("done"), {"health"})
  /\ past' = [past EXCEPT !.torn = FALSE, !.disturbed = TRUE]
  /\ UNCHANGED <<evidence, signals, filed, overrides, log, launches>>

ClearOverride(c) ==
  /\ At(c, "idle")
  /\ Turn(c, IF OverrideIn(health) = None THEN Over("refused")
             ELSE [Request("clear", "clear") EXCEPT !.found = health])
  /\ UNCHANGED <<evidence, rating, overrides, log, launches, past>>

\* The state goes back to the computed one that was read.
CommitClear(c) ==
  /\ At(c, "clear")
  /\ health' = [health EXCEPT !.state = calls[c].found.computed, !.override = None]
  /\ TurnAndTell(c, Over("done"), {"health"})
  /\ past' = [past EXCEPT !.torn = "health" \in calls[c].between, !.disturbed = TRUE]
  /\ UNCHANGED <<evidence, signals, filed, overrides, log, launches>>

-----------------------------------------------------------------------------

\* The process dies, or the statement of a rating fails and is logged.
Crash(c) ==
  /\ calls[c].pc \in Working
  /\ Answer(c, "crashed")
  /\ past' = [past EXCEPT
                !.unrated   = @ \/ (/\ calls[c].op # "recalculate"
                                   /\ calls[c].pc \in {"evidence", "health", "save"}),
                !.disturbed = @ \/ At(c, "signal")]
  /\ UNCHANGED <<evidence, rating, overrides, log, launches>>

Step(c) ==
  \/ UpdateItem(c) \/ UpdateDeliverable(c) \/ CommitUpdate(c)
  \/ Activate(c) \/ CommitLaunch(c)
  \/ Generate(c) \/ CommitPlan(c) \/ CreateOutsideScope(c)
  \/ RecordCommercialStateChange(c)
  \/ Recalculate(c) \/ ReadEvidence(c) \/ ReadHealth(c) \/ SaveHealth(c) \/ Signal(c)
  \/ Override(c) \/ CommitOverride(c) \/ ClearOverride(c) \/ CommitClear(c)
  \/ Crash(c)

Next == TimePasses \/ \E c \in Calls : Step(c)

Spec == Init /\ [][Next]_vars

-----------------------------------------------------------------------------
(* Properties.                                                             *)

LogRow == [from : ItemStatuses \cup WorkStatuses, to : ItemStatuses \cup WorkStatuses,
           overtaken : BOOLEAN]

\* The columns hold values of their types (models of schema.prisma).
TypesHold ==
  /\ plan \in {None, "NOT_STARTED", "COMPLETE"}
  /\ service \in {"PENDING_ONBOARDING", "ACTIVE"}
  /\ rows \in [Rows -> Row \cup {None}]
  /\ health \in HealthRow \cup {None}
  /\ signals \in Nat
  /\ overrides \subseteq SUBSET Items
  /\ filed \subseteq Calls
  /\ \A c \in Calls : calls[c].pc \in {"idle"} \cup Working \cup Ended
  /\ log \in [Rows -> Seq(LogRow)]
  /\ launches \subseteq [read : SUBSET Items, open : SUBSET Items, between : SUBSET Items]

\* The history of an item or a deliverable tells what happened to it: its
\* status is the last one on record, and each change starts where the one
\* before it ended, unless it was written over a change made since its call had
\* read the row (updateItem, ServiceDeliverableService.update).
HistoryMissesOnlyOverlaps ==
  \A r \in Exists(Rows) :
    /\ rows[r].status = IF log[r] = << >> THEN "NOT_STARTED" ELSE log[r][Len(log[r])].to
    /\ \A k \in DOMAIN log[r] :
         log[r][k].overtaken
         \/ log[r][k].from = IF k = 1 THEN "NOT_STARTED" ELSE log[r][k - 1].to

\* A client is launched over a required item that is open only if an override
\* on record names the item or the item was changed while the activation ran;
\* and the plan and the account say so together (OnboardingService.activate).
LaunchIsJustified ==
  /\ (plan = "COMPLETE") <=> (launches # {})
  /\ (service = "ACTIVE") <=> (launches # {})
  /\ \A l \in launches :
       /\ l.open \subseteq l.read \cup l.between
       /\ l.read # {} => l.read \in overrides

\* The state callers read is the override if one is set and the computed state
\* if not, unless a rating or the end of an override was written over a row
\* that had changed since it was read (ClientHealthService, model ClientHealth).
StateMissesOverrideOnlyByOverlap ==
  health # None /\ ~past.torn =>
    health.state = Given(health.override, health.computed)

Quiescent == \A c \in Calls : calls[c].pc \in Ended \cup {"idle"}

\* When every call has ended the rating is that of the evidence, unless the last
\* thing to happen was a rating of older evidence, a rating that broke off, or
\* a change that nothing rates: a payment, a deliverable outside the scope, a
\* repaired plan, the passing of time.  Its signal is active when the client is
\* elevated and only then, unless ratings overlapped, one broke off before its
\* signal, or an override was made (ClientHealthService.calculate).
RatingFollowsEvidence ==
  Quiescent /\ health # None =>
    /\ past.unrated \/ health.computed = Rate(Facts)
    /\ past.disturbed \/ signals = IF IsElevated(health) THEN 1 ELSE 0

-----------------------------------------------------------------------------
(* Statements of comments in the code that it does not keep (README,       *)
(* section 6).                                                             *)

\* Every crossing is put before a human as a pending candidate
\* (MarketingRelationshipService.recordHealthChangeCandidate).
CrossingsAreFiled ==
  [][\A c \in Calls : At(c, "signal") /\ calls'[c].pc \in {"done", "refused"}
        => c \in filed']_vars

\* A client is rated by the days its items are late
\* (the comment of ClientHealthService: nothing that is not read off the data).
RatedByDays ==
  \A c \in Calls : At(c, "health") /\ calls[c].between = {} =>
    calls[c].rated =
      Rate([Facts EXCEPT
        !.items = [r \in DOMAIN @ |-> [@[r] EXCEPT !.digits = today - rows[r].due]],
        !.works = [r \in DOMAIN @ |-> [@[r] EXCEPT !.digits = today - rows[r].due]]])
=============================================================================
