--------------------------- MODULE AgentApprovals ---------------------------
(***************************************************************************)
(* Human approval of high-risk agent actions                               *)
(* (backend/src/modules/agent/agent.service.ts).                           *)
(*                                                                         *)
(* A tool call whose arguments are high-risk is not run: it is staged as a *)
(* PENDING row of AgentApproval.  Somebody else then resolves the row, its *)
(* requester withdraws it, or its window lapses.  The HTTP calls are the   *)
(* processes of this module: between two awaits of one call any step of    *)
(* another may happen, a database write may fail, and the server may die.  *)
(***************************************************************************)
EXTENDS Integers

CONSTANTS
  Users,        \* people with a seat in some workspace
  Workspaces,   \* tenants
  Approvals,    \* ids an AgentApproval row may get
  Calls,        \* the HTTP calls made; each is one process
  Roles,        \* values of the Role enum
  Permitted,    \* roles in the permission list of the high-risk tool
  None,         \* null
  TTL,          \* APPROVAL_TTL_MS, in ticks of the clock
  MaxClock      \* bound on the clock

ASSUME NoneAssumption ==
  None \notin Users \cup Workspaces \cup Approvals \cup Roles \cup Nat
ASSUME RoleAssumption == Permitted \subseteq Roles
ASSUME ClockAssumption == TTL \in Nat \ {0} /\ MaxClock \in Nat

VARIABLES
  clock,        \* Date.now()
  approvals,    \* the AgentApproval table
  calls,        \* the local state of every call
  governance,   \* AuditLog rows of writeApprovalAudit
  runRow,       \* the AuditLog row of each call's run: its response column
  refusedRows,  \* calls that wrote an EXECUTION_REFUSED AuditLog row
  effects       \* what tool handlers committed, with the authority they used

vars == <<clock, approvals, calls, governance, runRow, refusedRows, effects>>

-----------------------------------------------------------------------------

Terminal == {"APPROVED", "REJECTED", "EXPIRED", "CANCELLED"}

Rows == [status    : {"ABSENT", "PENDING"} \cup Terminal,
         workspace : Workspaces \cup {None},
         requester : Users \cup {None},
         role      : Roles \cup {None},
         expiresAt : Nat \cup {None},
         resolver  : Users \cup {None}]

Absent == [status |-> "ABSENT", workspace |-> None, requester |-> None,
           role |-> None, expiresAt |-> None, resolver |-> None]

PendingRow(w, u, r, t) ==
  [status |-> "PENDING", workspace |-> w, requester |-> u,
   role |-> r, expiresAt |-> t, resolver |-> None]

\* Rows found at start-up: staged before requesterRole and expiresAt existed,
\* or by an earlier release whose tool had another permission list.
EarlierRows ==
       {PendingRow(w, u, None, None) : w \in Workspaces, u \in Users}
  \cup {PendingRow(w, u, r, TTL) : w \in Workspaces, u \in Users, r \in Roles}

Refusals == {"STAGING_REFUSED", "LEGACY_REFUSED", "SELF_APPROVAL_REFUSED"}

Events == {"NONE", "STAGED"} \cup Refusals \cup Terminal

\* A call ends with its answer sent, refused without a write, or dead.
Ended == {"done", "refused", "crashed"}

CallPcs == {"idle", "read", "claim", "record", "run", "handler", "result",
            "error", "refuse"} \cup Ended

CallStates == [pc      : CallPcs,
               user     : Users \cup {None},
               workspace: Workspaces \cup {None},
               approval : Approvals \cup {None},
               action   : {"NONE", "EXECUTE", "APPROVE", "REJECT", "CANCEL"},
               now      : Nat,
               event    : Events,
               claimed  : BOOLEAN,
               seen     : Rows]

NewCall(pc, u, w, a, action, now, event) ==
  [pc |-> pc, user |-> u, workspace |-> w, approval |-> a, action |-> action,
   now |-> now, event |-> event, claimed |-> FALSE, seen |-> Absent]

Idle == NewCall("idle", None, None, None, "NONE", 0, "NONE")

Init ==
  /\ clock = 0
  /\ approvals \in [Approvals -> {Absent} \cup EarlierRows]
  /\ calls = [c \in Calls |-> Idle]
  /\ governance = {}
  /\ runRow = [c \in Calls |-> "none"]
  /\ refusedRows = {}
  /\ effects = {}

Tick ==
  /\ clock < MaxClock
  /\ clock' = clock + 1
  /\ UNCHANGED <<approvals, calls, governance, runRow, refusedRows, effects>>

Goto(c, pc) == calls' = [calls EXCEPT ![c].pc = pc]

-----------------------------------------------------------------------------
(* executeTool, for arguments the tool calls high-risk: stageApproval.     *)

\* The arguments survive redaction, so the row is created.
Stage(c, u, w, r, a) ==
  /\ calls[c].pc = "idle"
  /\ r \in Permitted
  /\ approvals[a].status = "ABSENT"
  /\ approvals' = [approvals EXCEPT ![a] = PendingRow(w, u, r, clock + TTL)]
  /\ calls' = [calls EXCEPT ![c] =
                 NewCall("record", u, w, a, "EXECUTE", clock, "STAGED")]
  /\ UNCHANGED <<clock, governance, runRow, refusedRows, effects>>

\* Redaction would rewrite an argument: audited, and nothing is stored.
RefuseStaging(c, u, w, r) ==
  /\ calls[c].pc = "idle"
  /\ r \in Permitted
  /\ calls' = [calls EXCEPT ![c] =
                 NewCall("record", u, w, None, "EXECUTE", clock, "STAGING_REFUSED")]
  /\ UNCHANGED <<clock, approvals, governance, runRow, refusedRows, effects>>

-----------------------------------------------------------------------------
(* resolveApproval and cancelApproval: take the clock, read the row.       *)

Begin(c, u, w, a, action) ==
  /\ calls[c].pc = "idle"
  /\ calls' = [calls EXCEPT ![c] =
                 NewCall("read", u, w, a, action, clock, "NONE")]
  /\ UNCHANGED <<clock, approvals, governance, runRow, refusedRows, effects>>

Resolve(c, u, w, a) == \E d \in {"APPROVE", "REJECT"} : Begin(c, u, w, a, d)

Withdraw(c, u, w, a) == Begin(c, u, w, a, "CANCEL")

\* The row as findUnique returns it to call c.
Found(c) == approvals[calls[c].approval]

Reading(c) == calls[c].pc = "read"

AnyTenant(c) == TRUE                         \* mutant of SameTenant
SameTenant(c) == Found(c).workspace = calls[c].workspace

\* A row of another tenant is indistinguishable from one that does not exist.
Visible(c) == Found(c).status # "ABSENT" /\ SameTenant(c)

Sees(c) == Reading(c) /\ Visible(c)

Resolving(c) == calls[c].action \in {"APPROVE", "REJECT"}

\* Mutant of WindowClosed: the last instant still counts as open.
WindowClosedLate(c) ==
  Found(c).expiresAt # None /\ Found(c).expiresAt < calls[c].now

\* Against the clock read when the call began; null means no expiry.
WindowClosed(c) ==
  Found(c).expiresAt # None /\ Found(c).expiresAt <= calls[c].now

Lapsed(c) == Found(c).status = "PENDING" /\ WindowClosed(c)

Legacy(c) == Found(c).status = "PENDING" /\ Found(c).role = None

\* The rest of the synchronous code after the read: where call c goes next,
\* and which transition or refusal it is about to write.
Decide(c, pc, event) ==
  /\ calls' = [calls EXCEPT ![c].pc = pc, ![c].event = event,
                            ![c].seen = Found(c)]
  /\ UNCHANGED <<clock, approvals, governance, runRow, refusedRows, effects>>

FindNothing(c) == Reading(c) /\ ~Visible(c) /\ Decide(c, "refused", "NONE")

FindLapsed(c) ==
  Sees(c) /\ Resolving(c) /\ Lapsed(c) /\ Decide(c, "claim", "EXPIRED")

FindLegacy(c) ==
  /\ Sees(c) /\ Resolving(c) /\ ~Lapsed(c) /\ Legacy(c)
  /\ Decide(c, "record", "LEGACY_REFUSED")

FindRejectable(c) ==
  /\ Sees(c) /\ calls[c].action = "REJECT" /\ ~Lapsed(c) /\ ~Legacy(c)
  /\ Decide(c, "claim", "REJECTED")

FindOwnRequest(c) ==
  /\ Sees(c) /\ calls[c].action = "APPROVE" /\ ~Lapsed(c) /\ ~Legacy(c)
  /\ Found(c).requester = calls[c].user
  /\ Decide(c, "record", "SELF_APPROVAL_REFUSED")

FindApprovable(c) ==
  /\ Sees(c) /\ calls[c].action = "APPROVE" /\ ~Lapsed(c) /\ ~Legacy(c)
  /\ Found(c).requester # calls[c].user
  /\ Decide(c, "claim", "APPROVED")

FindForeign(c) ==
  /\ Sees(c) /\ calls[c].action = "CANCEL"
  /\ Found(c).requester # calls[c].user
  /\ Decide(c, "refused", "NONE")

FindWithdrawable(c) ==
  /\ Sees(c) /\ calls[c].action = "CANCEL"
  /\ Found(c).requester = calls[c].user
  /\ Decide(c, "claim", "CANCELLED")

-----------------------------------------------------------------------------
(* The conditional UPDATE (updateMany) that decides a request.             *)

ClaimIgnoresStatus(c) == SameTenant(c)       \* mutant of ClaimMatches

\* The WHERE clause of the updateMany of each transition.
ClaimMatches(c) ==
  /\ SameTenant(c)
  /\ Found(c).status = "PENDING"
  /\ calls[c].event = "APPROVED" =>
       /\ Found(c).role # None
       /\ Found(c).requester # calls[c].user
       /\ ~WindowClosed(c)

\* Only APPROVE and REJECT name a person who decided.
Resolver(c) ==
  IF calls[c].event \in {"APPROVED", "REJECTED"} THEN calls[c].user ELSE None

WinClaim(c) ==
  /\ calls[c].pc = "claim"
  /\ ClaimMatches(c)
  /\ approvals' = [approvals EXCEPT
                     ![calls[c].approval].status = calls[c].event,
                     ![calls[c].approval].resolver = Resolver(c)]
  /\ calls' = [calls EXCEPT ![c].pc = "record", ![c].claimed = TRUE]
  /\ UNCHANGED <<clock, governance, runRow, refusedRows, effects>>

\* Mutant of LoseClaim: the count of the updateMany is not looked at.
LoseClaimUnnoticed(c) ==
  /\ calls[c].pc = "claim"
  /\ ~ClaimMatches(c)
  /\ Goto(c, "record")
  /\ UNCHANGED <<clock, approvals, governance, runRow, refusedRows, effects>>

LoseClaim(c) ==
  /\ calls[c].pc = "claim"
  /\ ~ClaimMatches(c)
  /\ Goto(c, "refused")
  /\ UNCHANGED <<clock, approvals, governance, runRow, refusedRows, effects>>

\* writeApprovalAudit, a transaction of its own after the transition.
GovernanceRow(c) ==
  [call       |-> c,
   event      |-> calls[c].event,
   approval   |-> calls[c].approval,
   actor      |-> IF calls[c].event = "EXPIRED" THEN None ELSE calls[c].user,
   approvedBy |-> IF calls[c].event \in
                     {"APPROVED", "REJECTED"} \cup (Refusals \ {"STAGING_REFUSED"})
                  THEN calls[c].user ELSE None]

Record(c) ==
  /\ calls[c].pc = "record"
  /\ governance' = governance \cup {GovernanceRow(c)}
  /\ Goto(c, IF calls[c].event = "APPROVED" THEN "run" ELSE "done")
  /\ UNCHANGED <<clock, approvals, runRow, refusedRows, effects>>

-----------------------------------------------------------------------------
(* executeApprovedTool and runTool, for the winner of an APPROVE claim.    *)

\* Mutant of RunForbidden: the refusal is not caught.
RunForbiddenUncaught(c) ==
  /\ calls[c].pc = "run"
  /\ calls[c].seen.role \notin Permitted
  /\ Goto(c, "refused")
  /\ UNCHANGED <<clock, approvals, governance, runRow, refusedRows, effects>>

\* runTool checks the staged role again; a refusal is caught and audited.
RunForbidden(c) ==
  /\ calls[c].pc = "run"
  /\ calls[c].seen.role \notin Permitted
  /\ Goto(c, "refuse")
  /\ UNCHANGED <<clock, approvals, governance, runRow, refusedRows, effects>>

\* Mutant of RunStart: the row is left for the result to create.
RunStartUnrecorded(c) ==
  /\ calls[c].pc = "run"
  /\ calls[c].seen.role \in Permitted
  /\ Goto(c, "handler")
  /\ UNCHANGED <<clock, approvals, governance, runRow, refusedRows, effects>>

\* The intent row is written before the handler is called.
RunStart(c) ==
  /\ calls[c].pc = "run"
  /\ calls[c].seen.role \in Permitted
  /\ runRow' = [runRow EXCEPT ![c] = "open"]
  /\ Goto(c, "handler")
  /\ UNCHANGED <<clock, approvals, governance, refusedRows, effects>>

\* Mutant of Effect: the action runs as the approver.
EffectOfApprover(c) ==
  [call |-> c, approval |-> calls[c].approval, actor |-> calls[c].user,
   role |-> calls[c].seen.role, workspace |-> calls[c].seen.workspace]

\* What the handler commits: everything comes from the row that was read.
Effect(c) ==
  [call |-> c, approval |-> calls[c].approval, actor |-> calls[c].seen.requester,
   role |-> calls[c].seen.role, workspace |-> calls[c].seen.workspace]

HandlerCommits(c) ==
  /\ calls[c].pc = "handler"
  /\ effects' = effects \cup {Effect(c)}
  /\ Goto(c, "result")
  /\ UNCHANGED <<clock, approvals, governance, runRow, refusedRows>>

\* The handler throws, or the session was aborted before it was called.
HandlerFails(c) ==
  /\ calls[c].pc = "handler"
  /\ Goto(c, "error")
  /\ UNCHANGED <<clock, approvals, governance, runRow, refusedRows, effects>>

RecordResult(c) ==
  /\ calls[c].pc = "result"
  /\ runRow' = [runRow EXCEPT ![c] = "ok"]
  /\ Goto(c, "done")
  /\ UNCHANGED <<clock, approvals, governance, refusedRows, effects>>

RecordError(c) ==
  /\ calls[c].pc = "error"
  /\ runRow' = [runRow EXCEPT ![c] = "error"]
  /\ Goto(c, "done")
  /\ UNCHANGED <<clock, approvals, governance, refusedRows, effects>>

RecordRefusal(c) ==
  /\ calls[c].pc = "refuse"
  /\ refusedRows' = refusedRows \cup {c}
  /\ Goto(c, "done")
  /\ UNCHANGED <<clock, approvals, governance, runRow, effects>>

\* An audit write of runTool fails: the catch of runTool or of
\* executeApprovedTool takes over.
AuditFails(c) ==
  /\ \/ calls[c].pc = "run" /\ calls[c].seen.role \in Permitted /\ Goto(c, "refuse")
     \/ calls[c].pc = "result" /\ Goto(c, "error")
     \/ calls[c].pc = "error" /\ Goto(c, "refuse")
  /\ UNCHANGED <<clock, approvals, governance, runRow, refusedRows, effects>>

\* The process dies, or an uncaught write fails (a 500): nothing resumes c.
Crash(c) ==
  /\ calls[c].pc \notin Ended \cup {"idle"}
  /\ Goto(c, "crashed")
  /\ UNCHANGED <<clock, approvals, governance, runRow, refusedRows, effects>>

-----------------------------------------------------------------------------

\* What call c does by itself, once begun.
Proceed(c) ==
  \/ FindNothing(c) \/ FindLapsed(c) \/ FindLegacy(c) \/ FindRejectable(c)
  \/ FindOwnRequest(c) \/ FindApprovable(c) \/ FindForeign(c)
  \/ FindWithdrawable(c) \/ WinClaim(c) \/ LoseClaim(c) \/ Record(c)
  \/ RunForbidden(c) \/ RunStart(c) \/ HandlerCommits(c) \/ HandlerFails(c)
  \/ RecordResult(c) \/ RecordError(c) \/ RecordRefusal(c) \/ AuditFails(c)

Request(c) ==
  \E u \in Users, w \in Workspaces :
    \/ \E r \in Roles : RefuseStaging(c, u, w, r)
    \/ \E a \in Approvals :
         \/ \E r \in Roles : Stage(c, u, w, r, a)
         \/ Resolve(c, u, w, a)
         \/ Withdraw(c, u, w, a)

Next ==
  \/ Tick
  \/ \E c \in Calls : Request(c) \/ Proceed(c) \/ Crash(c)

Spec == Init /\ [][Next]_vars

\* Node runs every ready continuation, so a call that can go on does.  Nothing
\* makes a person act, the clock reach a bound, or the server crash.
FairSpec == Spec /\ \A c \in Calls : WF_vars(Proceed(c))

-----------------------------------------------------------------------------
(* Safety.                                                                 *)

GovernanceRows ==
  [call: Calls, event: Events, approval: Approvals \cup {None},
   actor: Users \cup {None}, approvedBy: Users \cup {None}]

Effects ==
  [call: Calls, approval: Approvals, actor: Users \cup {None},
   role: Roles \cup {None}, workspace: Workspaces \cup {None}]

TypeOK ==
  /\ clock \in Nat
  /\ approvals \in [Approvals -> Rows]
  /\ calls \in [Calls -> CallStates]
  /\ governance \subseteq GovernanceRows
  /\ runRow \in [Calls -> {"none", "open", "ok", "error"}]
  /\ refusedRows \subseteq Calls
  /\ effects \subseteq Effects

\* However many resolutions race, are replayed or crash half way, the action
\* of one approval is carried out at most once ("AT-MOST-ONCE TOOL EXECUTION").
AtMostOnceExecution ==
  \A e, f \in effects : e.approval = f.approval => e = f

\* An action is carried out only for an APPROVED row, decided by somebody other
\* than its requester, and with the authority captured at staging: the
\* requester's identity, role and workspace, never the approver's.
ExecutionAuthorised ==
  \A e \in effects :
    LET row == approvals[e.approval] IN
      /\ row.status = "APPROVED"
      /\ row.resolver \notin {None, row.requester}
      /\ e.actor = row.requester
      /\ e.role = row.role /\ e.role \in Permitted
      /\ e.workspace = row.workspace

\* A call that approves began before the window closed, and a row is EXPIRED
\* only once its window has closed, whatever was read and decided in between.
WindowRespected ==
  /\ \A c \in Calls :
       calls[c].claimed /\ calls[c].event = "APPROVED" =>
         \/ approvals[calls[c].approval].expiresAt = None
         \/ calls[c].now < approvals[calls[c].approval].expiresAt
  /\ \A a \in Approvals :
       approvals[a].status = "EXPIRED" =>
         approvals[a].expiresAt # None /\ approvals[a].expiresAt <= clock

\* What is carried out was decided by somebody else, within the window, and runs
\* with the authority of who asked (executeTool, resolveApproval).
ExecutionIsDue == ExecutionAuthorised /\ WindowRespected

\* The governance trail never contradicts the table: at most one row tells of
\* a decision on an approval, and the table holds that decision and decider.
\* (It may lack the row: the two writes are separate transactions.)
GovernanceTruthful ==
  \A g \in governance :
    g.event \in Terminal =>
      /\ approvals[g.approval].status = g.event
      /\ approvals[g.approval].resolver = g.approvedBy
      /\ \A h \in governance :
           h.event \in Terminal /\ h.approval = g.approval => h = g

\* No action without a trace: whatever a handler committed, its intent row was
\* written first, and still says so after a crash or a failed update.
EffectsHaveIntent == \A e \in effects : runRow[e.call] # "none"

\* The two records of an approval, its governance trail and the rows of its runs,
\* agree with the table and with what was done (recordDecision, runTool).
TrailIsWhole == GovernanceTruthful /\ EffectsHaveIntent

\* A decision is final, and what was staged is what is decided on: no step
\* rewrites a decided row, or the staged part of a pending one.
DecisionFinal ==
  [][\A a \in Approvals :
       /\ approvals[a].status \in Terminal => approvals'[a] = approvals[a]
       /\ approvals[a].status = "PENDING" =>
            \E s \in Terminal, u \in Users \cup {None} :
              approvals'[a] \in {approvals[a],
                [approvals[a] EXCEPT !.status = s, !.resolver = u]}]_vars

\* A row is decided only by a call made inside the row's own workspace.
TenantIsolation ==
  [][\A a \in Approvals :
       approvals[a].status = "PENDING" /\ approvals'[a] # approvals[a] =>
         \E c \in Calls :
           /\ calls[c].workspace = approvals[a].workspace
           /\ calls[c].approval = a /\ calls'[c].claimed /\ ~calls[c].claimed]_vars

-----------------------------------------------------------------------------
(* The inductive invariant behind the safety properties.                   *)

\* The authority columns of a row never change once a call has read them.
SeenIsCurrent(c) ==
  /\ Found(c).status # "ABSENT"
  /\ Found(c).workspace = calls[c].seen.workspace
  /\ Found(c).requester = calls[c].seen.requester
  /\ Found(c).role = calls[c].seen.role
  /\ Found(c).expiresAt = calls[c].seen.expiresAt

CallOK(c) ==
  /\ calls[c].now <= clock
  /\ calls[c].pc = "read" =>
       calls[c].approval \in Approvals /\ calls[c].user \in Users
  /\ calls[c].pc \in {"idle", "read", "claim"} => ~calls[c].claimed
  /\ calls[c].pc = "claim" \/ calls[c].claimed =>
       /\ calls[c].approval \in Approvals /\ calls[c].user \in Users
       /\ calls[c].event \in Terminal
       /\ SeenIsCurrent(c)
       /\ calls[c].event = "EXPIRED" => WindowClosed(c)
  /\ calls[c].claimed =>
       /\ Found(c).status = calls[c].event
       /\ Found(c).resolver = Resolver(c)
       /\ calls[c].event = "APPROVED" =>
            Found(c).requester # calls[c].user /\ ~WindowClosed(c)
  /\ calls[c].pc = "record" /\ calls[c].event \in Terminal => calls[c].claimed
  /\ calls[c].pc \in {"run", "handler", "result", "error", "refuse"} =>
       calls[c].claimed /\ calls[c].event = "APPROVED"
  /\ calls[c].pc \in {"handler", "result", "error"} =>
       runRow[c] # "none" /\ calls[c].seen.role \in Permitted

UniqueWinner ==
  \A c, d \in Calls :
    calls[c].claimed /\ calls[d].claimed /\ calls[c].approval = calls[d].approval
      => c = d

EffectOK(e) ==
  LET c == e.call IN
    /\ calls[c].claimed /\ calls[c].event = "APPROVED"
    /\ calls[c].pc \notin {"run", "record", "handler"}
    /\ e = Effect(c)
    /\ runRow[c] # "none" /\ calls[c].seen.role \in Permitted

TrailOK(g) ==
  g.event \in Terminal =>
    /\ calls[g.call].claimed
    /\ calls[g.call].pc # "record"
    /\ g = GovernanceRow(g.call)

ExpiredOK ==
  \A a \in Approvals :
    approvals[a].status = "EXPIRED" =>
      approvals[a].expiresAt # None /\ approvals[a].expiresAt <= clock

\* Every decision was taken by the one call that won the conditional UPDATE,
\* and each row that later steps write still matches that call's own state.
IInv ==
  /\ TypeOK
  /\ \A c \in Calls : CallOK(c)
  /\ UniqueWinner
  /\ \A e \in effects : EffectOK(e)
  /\ \A g \in governance : TrailOK(g)
  /\ ExpiredOK

-----------------------------------------------------------------------------
(* Refinement and liveness.                                                *)

Performed == {<<e.call, e.approval>> : e \in effects}

Decision == INSTANCE ApprovalDecision
              WITH Performers <- Calls,
                   status <- [a \in Approvals |-> approvals[a].status],
                   performed <- Performed

\* All that the rest of the system may rely on: each request is decided once,
\* and performed at most once and only after approval; and by nobody outside the
\* workspace it was made in.
ImplementsDecision == Decision!Spec /\ TenantIsolation

\* The outcome of an approved request is on record, or its process died.
Settled(a) ==
  \E c \in Calls :
    /\ calls[c].approval = a /\ calls[c].claimed
    /\ runRow[c] \in {"ok", "error"} \/ c \in refusedRows \/ calls[c].pc = "crashed"

\* An approved request is always acted on and its outcome recorded, unless
\* the process that won the claim crashes: nothing resumes it.
ApprovedIsSettled ==
  \A a \in Approvals : approvals[a].status = "APPROVED" ~> Settled(a)
=============================================================================
