------------------------ MODULE AgentApprovalsProofs ------------------------
(***************************************************************************)
(* Proofs about AgentApprovals, for any numbers of users, tenants, rows    *)
(* and concurrent calls.                                                   *)
(***************************************************************************)
EXTENDS AgentApprovals, TLAPS

\* Every step keeps the types: one step of the proof per action.  CallOK is
\* needed because a call that reads or claims a row must name one.
LEMMA TypeStep == IInv /\ [Next]_vars => TypeOK'
<1> SUFFICES ASSUME IInv, [Next]_vars PROVE TypeOK'
  OBVIOUS
<1> USE NoneAssumption, RoleAssumption, ClockAssumption DEF IInv
<1>1. CASE Tick
  BY <1>1 DEF TypeOK, Tick
<1>2. CASE UNCHANGED vars
  BY <1>2 DEF TypeOK, vars
<1>3. ASSUME NEW c \in Calls, Request(c) PROVE TypeOK'
  <2>1. PICK u \in Users, w \in Workspaces :
          \/ \E r \in Roles : RefuseStaging(c, u, w, r)
          \/ \E a \in Approvals :
               \/ \E r \in Roles : Stage(c, u, w, r, a)
               \/ Resolve(c, u, w, a)
               \/ Withdraw(c, u, w, a)
    BY <1>3 DEF Request
  <2> DEFINE New(pc, a, d, e) == NewCall(pc, u, w, a, d, clock, e)
  <2>2. ASSUME NEW pc \in CallPcs, NEW a \in Approvals \cup {None}, NEW e \in Events,
               NEW d \in {"NONE", "EXECUTE", "APPROVE", "REJECT", "CANCEL"}
        PROVE  New(pc, a, d, e) \in CallStates
    BY <2>2 DEF NewCall, CallStates, Absent, Rows, TypeOK
  <2>3. ASSUME NEW r \in Roles, RefuseStaging(c, u, w, r) PROVE TypeOK'
    <3>1. New("record", None, "EXECUTE", "STAGING_REFUSED") \in CallStates
      BY <2>2 DEF CallPcs, Events, Refusals
    <3>2. QED
      BY <2>3, <3>1 DEF TypeOK, RefuseStaging
  <2>4. ASSUME NEW a \in Approvals, NEW r \in Roles, Stage(c, u, w, r, a)
        PROVE  TypeOK'
    <3>1. PendingRow(w, u, r, clock + TTL) \in Rows
      BY DEF PendingRow, Rows, TypeOK
    <3>2. New("record", a, "EXECUTE", "STAGED") \in CallStates
      BY <2>2 DEF CallPcs, Events
    <3>3. QED
      BY <2>4, <3>1, <3>2 DEF TypeOK, Stage
  <2>5. ASSUME NEW a \in Approvals, NEW d \in {"APPROVE", "REJECT", "CANCEL"},
               Begin(c, u, w, a, d)
        PROVE  TypeOK'
    <3>1. New("read", a, d, "NONE") \in CallStates
      BY <2>2 DEF CallPcs, Events
    <3>2. QED
      BY <2>5, <3>1 DEF TypeOK, Begin
  <2>6. QED
    BY <2>1, <2>3, <2>4, <2>5 DEF Resolve, Withdraw
<1>4. ASSUME NEW c \in Calls, Proceed(c) PROVE TypeOK'
  <2>1. calls[c] \in CallStates /\ CallOK(c)
    BY DEF TypeOK
  <2>2. ASSUME NEW pc \in CallPcs, Goto(c, pc)
        PROVE  calls' \in [Calls -> CallStates]
    BY <2>1, <2>2 DEF Goto, TypeOK, CallStates
  <2>3. ASSUME NEW pc \in CallPcs, NEW e \in Events, Reading(c), Decide(c, pc, e)
        PROVE  TypeOK'
    <3>1. Found(c) \in Rows
      BY <2>1, <2>3 DEF TypeOK, CallOK, Reading, Found
    <3>2. QED
      BY <2>1, <2>3, <3>1 DEF TypeOK, Decide, CallStates
  <2>4. CASE \/ FindNothing(c) \/ FindLapsed(c) \/ FindLegacy(c)
             \/ FindRejectable(c) \/ FindOwnRequest(c) \/ FindApprovable(c)
             \/ FindForeign(c) \/ FindWithdrawable(c)
    BY <2>3, <2>4 DEF FindNothing, FindLapsed, FindLegacy, FindRejectable,
       FindOwnRequest, FindApprovable, FindForeign, FindWithdrawable, Sees,
       CallPcs, Ended, Events, Refusals, Terminal
  <2>5. CASE WinClaim(c)
    <3>1. /\ calls[c].approval \in Approvals
          /\ calls[c].event \in Terminal
          /\ Resolver(c) \in Users \cup {None}
      BY <2>1, <2>5 DEF CallOK, WinClaim, Resolver, CallStates
    <3>2. approvals' \in [Approvals -> Rows]
      BY <2>5, <3>1 DEF WinClaim, TypeOK, Rows
    <3>3. QED
      BY <2>1, <2>5, <3>2 DEF WinClaim, TypeOK, CallStates, CallPcs
  <2>6. CASE Record(c)
    <3>1. GovernanceRow(c) \in GovernanceRows
      BY <2>1 DEF GovernanceRow, GovernanceRows, CallStates
    <3>2. calls' \in [Calls -> CallStates]
      BY <2>6, <2>2 DEF Record, CallPcs, Ended
    <3>3. QED
      BY <2>6, <3>1, <3>2 DEF Record, TypeOK
  <2>7. CASE HandlerCommits(c)
    <3>1. Effect(c) \in Effects
      BY <2>1, <2>7 DEF HandlerCommits, CallOK, Effect, Effects, CallStates, Rows
    <3>2. calls' \in [Calls -> CallStates]
      BY <2>7, <2>2 DEF HandlerCommits, CallPcs
    <3>3. QED
      BY <2>7, <3>1, <3>2 DEF HandlerCommits, TypeOK
  <2>8. CASE \/ LoseClaim(c) \/ RunForbidden(c) \/ RunStart(c) \/ HandlerFails(c)
             \/ RecordResult(c) \/ RecordError(c) \/ RecordRefusal(c) \/ AuditFails(c)
    <3>2. calls' \in [Calls -> CallStates]
      BY <2>8, <2>2 DEF LoseClaim, RunForbidden, RunStart, HandlerFails,
         RecordResult, RecordError, RecordRefusal, AuditFails, CallPcs, Ended
    <3>3. /\ UNCHANGED <<clock, approvals, governance, effects>>
          /\ runRow' \in [Calls -> {"none", "open", "ok", "error"}]
          /\ refusedRows' \subseteq Calls
      BY <2>8 DEF LoseClaim, RunForbidden, RunStart, HandlerFails,
         RecordResult, RecordError, RecordRefusal, AuditFails, TypeOK
    <3>4. QED
      BY <3>2, <3>3 DEF TypeOK
  <2>9. QED
    BY <1>4, <2>4, <2>5, <2>6, <2>7, <2>8 DEF Proceed
<1>5. ASSUME NEW c \in Calls, Crash(c) PROVE TypeOK'
  <2>1. calls[c] \in CallStates
    BY DEF TypeOK
  <2>2. calls' \in [Calls -> CallStates]
    BY <1>5, <2>1 DEF Crash, Goto, TypeOK, CallStates, CallPcs, Ended
  <2>3. QED
    BY <1>5, <2>2 DEF Crash, TypeOK
<1>6. QED
  BY <1>1, <1>2, <1>3, <1>4, <1>5 DEF Next

-----------------------------------------------------------------------------

\* A row's authority is fixed once it exists, and a decided row for good.
Frozen(a) ==
  /\ approvals[a].status # "ABSENT" =>
       /\ approvals'[a].status # "ABSENT"
       /\ approvals'[a].workspace = approvals[a].workspace
       /\ approvals'[a].requester = approvals[a].requester
       /\ approvals'[a].role = approvals[a].role
       /\ approvals'[a].expiresAt = approvals[a].expiresAt
  /\ approvals[a].status \in Terminal => approvals'[a] = approvals[a]

\* Only staging and a won claim write the table.
LEMMA TableWrites ==
  ASSUME IInv, [Next]_vars, NEW b \in Approvals, approvals'[b] # approvals[b]
  PROVE  \/ \E w \in Workspaces, u \in Users, r \in Roles :
              /\ approvals[b].status = "ABSENT"
              /\ approvals'[b] = PendingRow(w, u, r, clock + TTL)
         \/ \E c \in Calls : WinClaim(c) /\ calls[c].approval = b
<1>1. approvals \in [Approvals -> Rows]
  BY DEF IInv, TypeOK
<1>2. ASSUME NEW c \in Calls, Proceed(c) PROVE WinClaim(c) \/ UNCHANGED approvals
  BY <1>2 DEF Proceed, Decide, FindNothing, FindLapsed, FindLegacy,
     FindRejectable, FindOwnRequest, FindApprovable, FindForeign,
     FindWithdrawable, LoseClaim, Record, RunForbidden, RunStart,
     HandlerCommits, HandlerFails, RecordResult, RecordError, RecordRefusal,
     AuditFails
<1>3. ASSUME NEW c \in Calls, WinClaim(c) PROVE calls[c].approval = b
  BY <1>1, <1>3 DEF WinClaim
<1>4. ASSUME NEW c \in Calls, Request(c)
      PROVE  \E w \in Workspaces, u \in Users, r \in Roles :
               /\ approvals[b].status = "ABSENT"
               /\ approvals'[b] = PendingRow(w, u, r, clock + TTL)
  BY <1>1, <1>4 DEF Request, RefuseStaging, Stage, Resolve, Withdraw, Begin
<1>5. QED
  BY <1>2, <1>3, <1>4 DEF Next, vars, Tick, Crash

\* Staging needs an absent row, a claim a pending one.
LEMMA RowsFrozen == IInv /\ [Next]_vars => \A a \in Approvals : Frozen(a)
<1> SUFFICES ASSUME IInv, [Next]_vars, NEW b \in Approvals,
                    approvals'[b] # approvals[b]
             PROVE  Frozen(b)
  BY DEF Frozen
<1>1. CASE approvals[b].status = "ABSENT"
  BY <1>1 DEF Frozen, Terminal
<1>2. ASSUME NEW c \in Calls, WinClaim(c), calls[c].approval = b PROVE Frozen(b)
  <2>1. /\ approvals[b] \in Rows /\ approvals[b].status = "PENDING"
        /\ calls[c].event \in Terminal
        /\ approvals'[b] = [approvals[b] EXCEPT !.status = calls[c].event,
                                                !.resolver = Resolver(c)]
    BY <1>2 DEF WinClaim, ClaimMatches, Found, CallOK, IInv, TypeOK
  <2>2. QED
    BY <2>1 DEF Frozen, Rows, Terminal
<1>3. QED
  BY <1>1, <1>2, TableWrites

\* What a step leaves of a call it does not advance.
LEMMA OtherCalls ==
  ASSUME IInv, TypeOK', \A a \in Approvals : Frozen(a),
         NEW d \in Calls, calls'[d] = calls[d], runRow'[d] = runRow[d],
         clock' >= clock
  PROVE  CallOK(d)'
<1>1. CallOK(d) /\ calls[d] \in CallStates /\ clock \in Nat /\ clock' \in Nat
  BY DEF IInv, TypeOK
<1>2. CASE ~(calls[d].pc = "claim" \/ calls[d].claimed)
  BY <1>1, <1>2 DEF CallOK, CallStates
<1>3. CASE calls[d].pc = "claim" \/ calls[d].claimed
  <2>1. /\ calls[d].approval \in Approvals
        /\ Frozen(calls[d].approval)
        /\ approvals[calls[d].approval].status # "ABSENT"
    BY <1>1, <1>3 DEF CallOK, SeenIsCurrent, Found
  <2>2. SeenIsCurrent(d)' /\ (WindowClosed(d)' <=> WindowClosed(d))
    BY <1>1, <1>3, <2>1 DEF CallOK, SeenIsCurrent, Found, Frozen, WindowClosed
  <2>3. calls[d].claimed => Found(d)' = Found(d) /\ Resolver(d)' = Resolver(d)
    BY <1>1, <2>1 DEF CallOK, Found, Frozen, Resolver
  <2>4. QED
    BY <1>1, <2>1, <2>2, <2>3 DEF CallOK, CallStates
<1>4. QED
  BY <1>2, <1>3

\* The state of the call itself after each of its steps.
LEMMA ActingCall ==
  ASSUME IInv, TypeOK', NEW c \in Calls, Proceed(c) \/ Crash(c)
  PROVE  CallOK(c)'
<1> DEFINE Same == /\ UNCHANGED <<clock, approvals>>
                   /\ runRow'[c] = runRow[c] \/ runRow'[c] # "none"
<1>1. /\ CallOK(c) /\ calls[c] \in CallStates /\ calls' \in [Calls -> CallStates]
      /\ calls \in [Calls -> CallStates] /\ approvals \in [Approvals -> Rows]
      /\ runRow \in [Calls -> {"none", "open", "ok", "error"}]
  BY DEF IInv, TypeOK
<1>2. ASSUME Goto(c, "refused") \/ Goto(c, "done") \/ Goto(c, "crashed"),
             calls[c].pc \notin {"idle", "read"}, Same
      PROVE  CallOK(c)'
  BY <1>1, <1>2 DEF Goto, CallOK, CallStates, SeenIsCurrent, Found,
     WindowClosed, Resolver
<1>3. ASSUME Goto(c, "crashed"), calls[c].pc = "read", Same
      PROVE  CallOK(c)'
  BY <1>1, <1>3 DEF Goto, CallOK, CallStates
<1>4. ASSUME NEW pc \in {"run", "handler", "result", "error", "refuse"},
             Goto(c, pc), Same, calls[c].claimed, calls[c].event = "APPROVED",
             pc \in {"handler", "result", "error"} =>
               runRow'[c] # "none" /\ calls[c].seen.role \in Permitted
      PROVE  CallOK(c)'
  BY <1>1, <1>4 DEF Goto, CallOK, CallStates, SeenIsCurrent, Found,
     WindowClosed, Resolver
<1>5. CASE WinClaim(c)
  <2>1. /\ calls'[c] = [calls[c] EXCEPT !.pc = "record", !.claimed = TRUE]
        /\ calls[c].approval \in Approvals /\ calls[c].event \in Terminal
        /\ approvals'[calls[c].approval] =
             [Found(c) EXCEPT !.status = calls[c].event, !.resolver = Resolver(c)]
        /\ Found(c) \in Rows
        /\ UNCHANGED <<clock, runRow>>
    BY <1>1, <1>5 DEF WinClaim, CallOK, Found
  <2>2. SeenIsCurrent(c)' /\ WindowClosed(c)' = WindowClosed(c)
    BY <1>1, <1>5, <2>1 DEF WinClaim, CallOK, SeenIsCurrent, Found, WindowClosed,
       Rows, CallStates, Terminal
  <2>3. /\ Found(c)'.status = calls'[c].event
        /\ Found(c)'.resolver = Resolver(c)'
        /\ calls[c].event = "APPROVED" =>
             Found(c)'.requester # calls[c].user /\ ~WindowClosed(c)
    BY <1>1, <1>5, <2>1 DEF WinClaim, ClaimMatches, Found, Resolver, Rows, CallStates
  <2>4. QED
    BY <1>1, <1>5, <2>1, <2>2, <2>3 DEF WinClaim, CallOK, CallStates
<1>6. ASSUME NEW pc \in {"refused", "claim", "record"}, NEW e \in Events,
             Decide(c, pc, e), Reading(c),
             pc = "record" => e \notin Terminal,
             pc = "claim" => /\ Visible(c) /\ e \in Terminal
                             /\ e = "EXPIRED" => WindowClosed(c)
      PROVE  CallOK(c)'
  <2>1. /\ calls'[c] = [calls[c] EXCEPT !.pc = pc, !.event = e, !.seen = Found(c)]
        /\ calls[c].approval \in Approvals /\ calls[c].user \in Users
        /\ ~calls[c].claimed /\ Found(c) \in Rows
        /\ pc = "claim" => Found(c).status # "ABSENT"
        /\ Found(c)' = Found(c)
        /\ UNCHANGED <<clock, approvals>>
    BY <1>1, <1>6 DEF Decide, Reading, Visible, CallOK, Found, CallStates
  <2>2. QED
    BY <1>1, <1>6, <2>1 DEF CallOK, CallStates, SeenIsCurrent, WindowClosed
<1>7. CASE \/ FindNothing(c) \/ FindLapsed(c) \/ FindLegacy(c)
           \/ FindRejectable(c) \/ FindOwnRequest(c) \/ FindApprovable(c)
           \/ FindForeign(c) \/ FindWithdrawable(c)
  BY <1>6, <1>7 DEF FindNothing, FindLapsed, FindLegacy, FindRejectable,
     FindOwnRequest, FindApprovable, FindForeign, FindWithdrawable, Sees,
     Lapsed, Events, Refusals, Terminal
<1>8. CASE LoseClaim(c)
  BY <1>2, <1>8 DEF LoseClaim
<1>9. CASE Record(c)
  <2>1. calls[c].event = "APPROVED" => calls[c].claimed
    BY <1>1, <1>9 DEF Record, CallOK, Terminal
  <2>2. CASE calls[c].event = "APPROVED"
    BY <1>4, <1>9, <2>1, <2>2 DEF Record
  <2>3. CASE calls[c].event # "APPROVED"
    BY <1>2, <1>9, <2>3 DEF Record
  <2>4. QED
    BY <2>2, <2>3
<1>10. CASE RunForbidden(c)
  BY <1>1, <1>4, <1>10 DEF RunForbidden, CallOK
<1>11. CASE RunStart(c)
  BY <1>1, <1>4, <1>11 DEF RunStart, CallOK
<1>12. CASE HandlerCommits(c) \/ HandlerFails(c)
  BY <1>1, <1>4, <1>12 DEF HandlerCommits, HandlerFails, CallOK
<1>13. CASE RecordResult(c) \/ RecordError(c) \/ RecordRefusal(c)
  BY <1>1, <1>2, <1>13 DEF RecordResult, RecordError, RecordRefusal
<1>14. CASE AuditFails(c)
  BY <1>1, <1>4, <1>14 DEF AuditFails, CallOK
<1>15. CASE Crash(c)
  BY <1>2, <1>3, <1>15 DEF Crash
<1>16. QED
  BY <1>5, <1>7, <1>8, <1>9, <1>10, <1>11, <1>12, <1>13, <1>14, <1>15 DEF Proceed

\* What any step does to any call.
Advances(d) ==
  /\ calls'[d].user = calls[d].user /\ calls'[d].workspace = calls[d].workspace
  /\ calls'[d].approval = calls[d].approval /\ calls'[d].now = calls[d].now
  /\ calls[d].pc # "read" => /\ calls'[d].event = calls[d].event
                             /\ calls'[d].seen = calls[d].seen
  /\ ~WinClaim(d) => calls'[d].claimed = calls[d].claimed

\* A step leaves a call alone, begins it, or advances it without touching what
\* it is about.
LEMMA CallFrame ==
  ASSUME IInv, [Next]_vars, NEW d \in Calls
  PROVE  \/ calls'[d] = calls[d] /\ runRow'[d] = runRow[d] /\ ~WinClaim(d)
         \/ Request(d) /\ calls[d].pc = "idle" /\ ~calls'[d].claimed
         \/ (Proceed(d) \/ Crash(d)) /\ Advances(d)
<1>1. /\ calls \in [Calls -> CallStates] /\ CallOK(d)
      /\ runRow \in [Calls -> {"none", "open", "ok", "error"}]
  BY DEF IInv, TypeOK
<1>2. ASSUME NEW c \in Calls, Request(c)
      PROVE  c = d => calls[d].pc = "idle" /\ ~calls'[d].claimed
  BY <1>1, <1>2 DEF Request, RefuseStaging, Stage, Resolve, Withdraw, Begin, NewCall
<1>3. ASSUME Proceed(d) \/ Crash(d) PROVE Advances(d)
  <2>1. ASSUME NEW pc, Goto(d, pc) PROVE Advances(d)
    BY <1>1, <2>1 DEF Goto, Advances, CallStates
  <2>2. ASSUME NEW pc, NEW e, Decide(d, pc, e), Reading(d) PROVE Advances(d)
    BY <1>1, <2>2 DEF Decide, Reading, Advances, CallStates
  <2>3. WinClaim(d) => Advances(d)
    BY <1>1 DEF WinClaim, Advances, CallStates
  <2>4. QED
    BY <1>3, <2>1, <2>2, <2>3 DEF Proceed, Crash, FindNothing, FindLapsed,
       FindLegacy, FindRejectable, FindOwnRequest, FindApprovable, FindForeign,
       FindWithdrawable, Sees, LoseClaim, Record, RunForbidden, RunStart,
       HandlerCommits, HandlerFails, RecordResult, RecordError, RecordRefusal,
       AuditFails
<1>4. ASSUME NEW c \in Calls, Request(c), c # d
      PROVE  calls'[d] = calls[d] /\ runRow'[d] = runRow[d]
  BY <1>1, <1>4 DEF Request, RefuseStaging, Stage, Resolve, Withdraw, Begin
<1>5. ASSUME NEW c \in Calls, Proceed(c) \/ Crash(c), c # d
      PROVE  calls'[d] = calls[d] /\ runRow'[d] = runRow[d]
  <2>1. ASSUME NEW pc, Goto(c, pc) PROVE calls'[d] = calls[d]
    BY <1>1, <1>5, <2>1 DEF Goto
  <2>2. ASSUME NEW pc, NEW e, Decide(c, pc, e)
        PROVE  calls'[d] = calls[d] /\ runRow'[d] = runRow[d]
    BY <1>1, <1>5, <2>2 DEF Decide
  <2>3. CASE WinClaim(c)
    BY <1>1, <1>5, <2>3 DEF WinClaim
  <2>4. CASE \/ FindNothing(c) \/ FindLapsed(c) \/ FindLegacy(c)
             \/ FindRejectable(c) \/ FindOwnRequest(c) \/ FindApprovable(c)
             \/ FindForeign(c) \/ FindWithdrawable(c)
    BY <2>2, <2>4 DEF FindNothing, FindLapsed, FindLegacy, FindRejectable,
       FindOwnRequest, FindApprovable, FindForeign, FindWithdrawable
  <2>5. CASE RunStart(c) \/ RecordResult(c) \/ RecordError(c)
    BY <1>1, <1>5, <2>1, <2>5 DEF RunStart, RecordResult, RecordError
  <2>6. CASE \/ LoseClaim(c) \/ Record(c) \/ RunForbidden(c) \/ HandlerCommits(c)
             \/ HandlerFails(c) \/ RecordRefusal(c) \/ AuditFails(c) \/ Crash(c)
    BY <2>1, <2>6 DEF LoseClaim, Record, RunForbidden, HandlerCommits,
       HandlerFails, RecordRefusal, AuditFails, Crash
  <2>7. QED
    BY <1>5, <2>3, <2>4, <2>5, <2>6 DEF Proceed
<1>6. WinClaim(d) => calls'[d] # calls[d]
  <2>1. WinClaim(d) => calls[d].pc = "claim" /\ calls'[d].pc = "record"
    BY <1>1 DEF WinClaim, CallStates
  <2>2. QED
    BY <2>1
<1>7. CASE Tick \/ UNCHANGED vars
  BY <1>6, <1>7 DEF Tick, vars
<1>8. ASSUME NEW c \in Calls, Request(c) \/ Proceed(c) \/ Crash(c)
      PROVE  \/ calls'[d] = calls[d] /\ runRow'[d] = runRow[d] /\ ~WinClaim(d)
             \/ Request(d) /\ calls[d].pc = "idle" /\ ~calls'[d].claimed
             \/ (Proceed(d) \/ Crash(d)) /\ Advances(d)
  BY <1>2, <1>3, <1>4, <1>5, <1>6, <1>8
<1>9. QED
  BY <1>7, <1>8 DEF Next

\* Time does not go back.
LEMMA ClockStep == IInv /\ [Next]_vars => clock' >= clock
<1> SUFFICES ASSUME IInv, [Next]_vars PROVE clock' >= clock
  OBVIOUS
<1>1. ASSUME NEW c \in Calls, Proceed(c) PROVE clock' = clock
  BY <1>1 DEF Proceed, Decide, FindNothing, FindLapsed, FindLegacy,
     FindRejectable, FindOwnRequest, FindApprovable, FindForeign,
     FindWithdrawable, WinClaim, LoseClaim, Record, RunForbidden, RunStart,
     HandlerCommits, HandlerFails, RecordResult, RecordError, RecordRefusal,
     AuditFails
<1>2. ASSUME NEW c \in Calls, Request(c) \/ Crash(c) PROVE clock' = clock
  BY <1>2 DEF Request, Stage, RefuseStaging, Resolve, Withdraw, Begin, Crash
<1>3. clock \in Nat
  BY DEF IInv, TypeOK
<1>4. QED
  BY <1>1, <1>2, <1>3 DEF Next, vars, Tick

\* Every call keeps its part of the invariant, the one that acts and the others.
LEMMA CallsStep == IInv /\ [Next]_vars => \A d \in Calls : CallOK(d)'
<1> SUFFICES ASSUME IInv, [Next]_vars, NEW d \in Calls PROVE CallOK(d)'
  OBVIOUS
<1>1. TypeOK' /\ \A a \in Approvals : Frozen(a)
  BY TypeStep, RowsFrozen
<1>2. clock' >= clock
  BY ClockStep
<1>3. CASE calls'[d] = calls[d] /\ runRow'[d] = runRow[d]
  BY <1>1, <1>2, <1>3, OtherCalls
<1>4. CASE Proceed(d) \/ Crash(d)
  BY <1>1, <1>4, ActingCall
<1>5. CASE Request(d)
  <2>1. /\ calls'[d].pc \in {"record", "read"} /\ ~calls'[d].claimed
        /\ calls'[d].pc = "record" => calls'[d].event \notin Terminal
        /\ calls'[d].pc = "read" => /\ calls'[d].approval \in Approvals
                                    /\ calls'[d].user \in Users
        /\ calls'[d].now = clock /\ clock' = clock
    BY <1>5 DEF Request, RefuseStaging, Stage, Resolve, Withdraw, Begin, NewCall,
       IInv, TypeOK, Terminal
  <2>2. QED
    BY <1>1, <2>1 DEF CallOK, TypeOK
<1>6. QED
  BY <1>3, <1>4, <1>5, CallFrame

\* A second claim of a decided row finds it no longer pending.
LEMMA WinnerStep == IInv /\ [Next]_vars => UniqueWinner'
<1> SUFFICES ASSUME IInv, [Next]_vars, NEW c \in Calls, NEW d \in Calls,
                    calls'[c].claimed, calls'[d].claimed,
                    calls'[c].approval = calls'[d].approval, c # d
             PROVE  FALSE
  BY DEF UniqueWinner
<1>1. ASSUME NEW e \in Calls, calls'[e].claimed
      PROVE  /\ calls'[e].approval = calls[e].approval
             /\ calls[e].claimed \/ WinClaim(e)
  BY <1>1, CallFrame DEF Advances
<1>2. ASSUME NEW e \in Calls, NEW f \in Calls, WinClaim(e), e # f,
             calls[e].approval = calls[f].approval
      PROVE  ~calls[f].claimed /\ ~WinClaim(f)
  <2>1. Found(e).status = "PENDING" /\ Found(f) = Found(e)
    BY <1>2 DEF WinClaim, ClaimMatches, Found
  <2>2. ~calls[f].claimed
    BY <2>1 DEF IInv, CallOK, Terminal
  <2>3. calls'[f] = calls[f]
    BY <1>2 DEF WinClaim, IInv, TypeOK
  <2>4. QED
    BY <2>2, <2>3 DEF WinClaim, IInv, TypeOK, CallStates
<1>3. QED
  BY <1>1, <1>2 DEF IInv, UniqueWinner

\* Past its claim a call only moves forward, and its run row never vanishes.
LEMMA PastClaim ==
  ASSUME IInv, NEW c \in Calls, Proceed(c) \/ Crash(c),
         calls[c].pc \notin {"idle", "read", "claim"}
  PROVE  /\ calls'[c].pc \notin {"idle", "read", "claim", "record"} /\ ~WinClaim(c)
         /\ calls[c].pc \notin {"record", "run", "handler"} =>
              calls'[c].pc \notin {"run", "handler"}
         /\ runRow'[c] = runRow[c] \/ runRow'[c] # "none"
<1>1. /\ calls \in [Calls -> CallStates]
      /\ runRow \in [Calls -> {"none", "open", "ok", "error"}]
  BY DEF IInv, TypeOK
<1>2. ASSUME NEW pc, Goto(c, pc) PROVE calls'[c].pc = pc
  BY <1>1, <1>2 DEF Goto, CallStates
<1>3. /\ ~WinClaim(c) /\ ~LoseClaim(c) /\ ~FindNothing(c) /\ ~FindLapsed(c)
      /\ ~FindLegacy(c) /\ ~FindRejectable(c) /\ ~FindOwnRequest(c)
      /\ ~FindApprovable(c) /\ ~FindForeign(c) /\ ~FindWithdrawable(c)
  BY DEF WinClaim, LoseClaim, FindNothing, FindLapsed, FindLegacy,
     FindRejectable, FindOwnRequest, FindApprovable, FindForeign,
     FindWithdrawable, Sees, Reading
<1>4. CASE Record(c)
  BY <1>2, <1>3, <1>4 DEF Record
<1>5. CASE RunStart(c) \/ RecordResult(c) \/ RecordError(c)
  BY <1>1, <1>2, <1>3, <1>5 DEF RunStart, RecordResult, RecordError
<1>6. CASE \/ RunForbidden(c) \/ HandlerCommits(c) \/ HandlerFails(c)
           \/ RecordRefusal(c) \/ AuditFails(c) \/ Crash(c)
  BY <1>2, <1>3, <1>6 DEF RunForbidden, HandlerCommits, HandlerFails,
     RecordRefusal, AuditFails, Crash
<1>7. QED
  BY <1>3, <1>4, <1>5, <1>6 DEF Proceed

\* Only a call that won an APPROVE claim and wrote its intent row commits.
LEMMA EffectsStep == IInv /\ [Next]_vars => \A e \in effects' : EffectOK(e)'
<1> SUFFICES ASSUME IInv, [Next]_vars, NEW e \in effects' PROVE EffectOK(e)'
  OBVIOUS
<1>1. /\ effects \subseteq Effects /\ effects' \subseteq Effects
      /\ calls \in [Calls -> CallStates] /\ calls' \in [Calls -> CallStates]
      /\ runRow \in [Calls -> {"none", "open", "ok", "error"}]
  BY TypeStep DEF IInv, TypeOK
<1>2. e.call \in Calls
  BY <1>1 DEF Effects
<1>3. CASE e \in effects
  <2>1. EffectOK(e) /\ CallOK(e.call)
    BY <1>2, <1>3 DEF IInv
  <2>2. CASE calls'[e.call] = calls[e.call] /\ runRow'[e.call] = runRow[e.call]
    BY <2>1, <2>2 DEF EffectOK, Effect
  <2>3. CASE (Proceed(e.call) \/ Crash(e.call)) /\ Advances(e.call)
    <3>1. calls[e.call].pc \notin {"idle", "read", "claim", "record", "run", "handler"}
      BY <2>1 DEF EffectOK, CallOK
    <3>2. /\ calls'[e.call].pc \notin {"record", "run", "handler"}
          /\ runRow'[e.call] = runRow[e.call] \/ runRow'[e.call] # "none"
          /\ ~WinClaim(e.call)
      BY <1>2, <2>3, <3>1, PastClaim
    <3>3. QED
      BY <2>1, <2>3, <3>1, <3>2 DEF Advances, EffectOK, Effect
  <2>4. QED
    BY <1>2, <2>1, <2>2, <2>3, CallFrame DEF EffectOK, CallOK
<1>4. CASE e \notin effects
  <2>1. PICK c \in Calls : HandlerCommits(c) /\ e = Effect(c)
    <3>1. ASSUME NEW c \in Calls, Request(c) \/ Crash(c) PROVE effects' = effects
      BY <3>1 DEF Request, RefuseStaging, Stage, Resolve, Withdraw, Begin, Crash
    <3>2. ASSUME NEW c \in Calls, Proceed(c), ~HandlerCommits(c)
          PROVE  effects' = effects
      BY <3>2 DEF Proceed, Decide, FindNothing, FindLapsed, FindLegacy,
         FindRejectable, FindOwnRequest, FindApprovable, FindForeign,
         FindWithdrawable, WinClaim, LoseClaim, Record, RunForbidden, RunStart,
         HandlerFails, RecordResult, RecordError, RecordRefusal, AuditFails
    <3>3. QED
      BY <1>4, <3>1, <3>2 DEF Next, vars, Tick, HandlerCommits
  <2>2. CallOK(c) /\ calls[c].pc = "handler"
    BY <2>1 DEF IInv, HandlerCommits
  <2>3. /\ calls'[c] = [calls[c] EXCEPT !.pc = "result"] /\ runRow'[c] = runRow[c]
    BY <1>1, <2>1 DEF HandlerCommits, Goto
  <2>4. e.call = c
    BY <2>1 DEF Effect
  <2>5. QED
    BY <1>1, <2>1, <2>2, <2>3, <2>4 DEF CallOK, CallStates, EffectOK, Effect
<1>5. QED
  BY <1>3, <1>4

\* A decision is audited by the call that won its claim.
LEMMA TrailStep == IInv /\ [Next]_vars => \A g \in governance' : TrailOK(g)'
<1> SUFFICES ASSUME IInv, [Next]_vars, NEW g \in governance', g.event \in Terminal
             PROVE  TrailOK(g)'
  BY DEF TrailOK
<1>1. /\ governance \subseteq GovernanceRows /\ governance' \subseteq GovernanceRows
      /\ calls \in [Calls -> CallStates]
  BY TypeStep DEF IInv, TypeOK
<1>2. g.call \in Calls
  BY <1>1 DEF GovernanceRows
<1>3. CASE g \in governance
  <2>1. /\ calls[g.call].claimed /\ calls[g.call].pc # "record"
        /\ g = GovernanceRow(g.call) /\ CallOK(g.call)
    BY <1>2, <1>3 DEF IInv, TrailOK
  <2>2. CASE calls'[g.call] = calls[g.call]
    BY <2>1, <2>2 DEF TrailOK, GovernanceRow
  <2>3. CASE (Proceed(g.call) \/ Crash(g.call)) /\ Advances(g.call)
    <3>1. calls[g.call].pc \notin {"idle", "read", "claim", "record"}
      BY <2>1 DEF CallOK
    <3>2. calls'[g.call].pc # "record" /\ ~WinClaim(g.call)
      BY <1>2, <2>3, <3>1, PastClaim
    <3>3. QED
      BY <2>1, <2>3, <3>1, <3>2 DEF Advances, TrailOK, GovernanceRow
  <2>4. QED
    BY <1>2, <2>1, <2>2, <2>3, CallFrame DEF CallOK
<1>4. CASE g \notin governance
  <2>1. PICK c \in Calls : Record(c) /\ g = GovernanceRow(c)
    <3>1. ASSUME NEW c \in Calls, Request(c) \/ Crash(c) PROVE governance' = governance
      BY <3>1 DEF Request, RefuseStaging, Stage, Resolve, Withdraw, Begin, Crash
    <3>2. ASSUME NEW c \in Calls, Proceed(c), ~Record(c)
          PROVE  governance' = governance
      BY <3>2 DEF Proceed, Decide, FindNothing, FindLapsed, FindLegacy,
         FindRejectable, FindOwnRequest, FindApprovable, FindForeign,
         FindWithdrawable, WinClaim, LoseClaim, RunForbidden, RunStart,
         HandlerCommits, HandlerFails, RecordResult, RecordError,
         RecordRefusal, AuditFails
    <3>3. QED
      BY <1>4, <3>1, <3>2 DEF Next, vars, Tick, Record
  <2>2. g.call = c /\ g.event = calls[c].event
    BY <2>1 DEF GovernanceRow
  <2>3. CallOK(c) /\ calls[c].pc = "record" /\ calls[c].claimed
    BY <2>1, <2>2 DEF IInv, Record, CallOK
  <2>4. \/ calls'[c] = [calls[c] EXCEPT !.pc = "run"]
        \/ calls'[c] = [calls[c] EXCEPT !.pc = "done"]
    BY <1>1, <2>1 DEF Record, Goto
  <2>5. QED
    BY <1>1, <2>1, <2>2, <2>3, <2>4 DEF TrailOK, GovernanceRow, CallStates
<1>5. QED
  BY <1>3, <1>4

\* A row turns EXPIRED only by a claim of a call that began after its window.
LEMMA ExpiredStep == IInv /\ [Next]_vars => ExpiredOK'
<1> SUFFICES ASSUME IInv, [Next]_vars, NEW a \in Approvals,
                    approvals'[a].status = "EXPIRED"
             PROVE  approvals'[a].expiresAt # None /\ approvals'[a].expiresAt <= clock'
  BY DEF ExpiredOK
<1>1. clock' \in Nat /\ clock \in Nat /\ clock' >= clock
  BY TypeStep, ClockStep DEF IInv, TypeOK
<1>2. approvals \in [Approvals -> Rows] /\ Frozen(a)
  BY RowsFrozen DEF IInv, TypeOK
<1>3. CASE approvals[a].status = "EXPIRED"
  <2>1. approvals[a].expiresAt # None /\ approvals[a].expiresAt <= clock
    BY <1>3 DEF IInv, ExpiredOK
  <2>2. approvals[a].expiresAt \in Nat
    BY <1>2, <2>1 DEF Rows
  <2>3. QED
    BY <1>1, <1>2, <1>3, <2>1, <2>2 DEF Frozen, Terminal
<1>4. CASE approvals[a].status # "EXPIRED"
  <2>1. approvals'[a] # approvals[a]
    BY <1>4
  <2>2. \A w, u, r, t : PendingRow(w, u, r, t).status # "EXPIRED"
    BY DEF PendingRow
  <2>3. PICK c \in Calls : WinClaim(c) /\ calls[c].approval = a
    BY <2>1, <2>2, TableWrites
  <2>4. /\ CallOK(c)' /\ calls'[c].claimed /\ calls'[c].approval = a
        /\ calls'[c] \in CallStates /\ approvals'[a] \in Rows
    BY <2>3, CallsStep, TypeStep DEF WinClaim, IInv, TypeOK, CallStates
  <2>5. WindowClosed(c)' /\ calls'[c].now <= clock'
    BY <2>4 DEF CallOK, Found
  <2>6. QED
    BY <1>1, <2>4, <2>5 DEF Found, WindowClosed, Rows, CallStates
<1>5. QED
  BY <1>3, <1>4

-----------------------------------------------------------------------------
(* The theorems.                                                           *)

\* At start-up nothing is decided and no call has begun.
LEMMA InitIInv == Init => IInv
<1> SUFFICES ASSUME Init PROVE IInv
  OBVIOUS
<1> USE NoneAssumption, RoleAssumption, ClockAssumption
<1>1. Absent \in Rows /\ EarlierRows \subseteq Rows
  BY DEF Absent, Rows, EarlierRows, PendingRow
<1>2. Idle \in CallStates
  BY <1>1 DEF Idle, NewCall, CallStates, CallPcs, Events
<1>3. TypeOK
  BY <1>1, <1>2 DEF Init, TypeOK
<1>4. \A a \in Approvals : approvals[a].status \in {"ABSENT", "PENDING"}
  BY DEF Init, Absent, EarlierRows, PendingRow
<1>5. \A c \in Calls : CallOK(c) /\ ~calls[c].claimed
  BY DEF Init, Idle, NewCall, CallOK
<1>6. QED
  BY <1>3, <1>4, <1>5 DEF IInv, UniqueWinner, ExpiredOK, Init

\* The inductive invariant: every decided row was decided by the one call that
\* won its conditional UPDATE, and what that call still writes agrees with it.
THEOREM Inductive == Spec => []IInv
<1>1. IInv /\ [Next]_vars => IInv'
  BY TypeStep, CallsStep, WinnerStep, EffectsStep, TrailStep, ExpiredStep DEF IInv
<1>2. QED
  BY InitIInv, <1>1, PTL DEF Spec

\* agent.service.ts:867-868, "AT-MOST-ONCE TOOL EXECUTION", for any number of
\* concurrent, replayed and crashed resolutions.
THEOREM ExecutedAtMostOnce == Spec => []AtMostOnceExecution
<1>1. IInv => AtMostOnceExecution
  <2> SUFFICES ASSUME IInv, NEW e \in effects, NEW f \in effects,
                      e.approval = f.approval
               PROVE  e = f
    BY DEF AtMostOnceExecution
  <2>1. /\ e.call \in Calls /\ f.call \in Calls
        /\ EffectOK(e) /\ EffectOK(f)
    BY DEF IInv, TypeOK, Effects
  <2>2. e.approval = calls[e.call].approval /\ f.approval = calls[f.call].approval
    BY <2>1 DEF EffectOK, Effect
  <2>3. e.call = f.call
    BY <2>1, <2>2 DEF IInv, UniqueWinner, EffectOK
  <2>4. QED
    BY <2>1, <2>3 DEF EffectOK
<1>2. QED
  BY Inductive, <1>1, PTL

\* Separation of duties and staged authority: what a handler commits was
\* approved by somebody else, and runs as the requester with the staged role.
THEOREM ExecutedWithAuthority == Spec => []ExecutionAuthorised
<1>1. IInv => ExecutionAuthorised
  <2> SUFFICES ASSUME IInv, NEW e \in effects
               PROVE  LET row == approvals[e.approval] IN
                        /\ row.status = "APPROVED"
                        /\ row.resolver \notin {None, row.requester}
                        /\ e.actor = row.requester
                        /\ e.role = row.role /\ e.role \in Permitted
                        /\ e.workspace = row.workspace
    BY DEF ExecutionAuthorised
  <2>1. e.call \in Calls /\ EffectOK(e) /\ CallOK(e.call) /\ calls[e.call] \in CallStates
    BY DEF IInv, TypeOK, Effects
  <2>2. /\ Found(e.call).status = "APPROVED"
        /\ Found(e.call).resolver = calls[e.call].user
        /\ Found(e.call).requester # calls[e.call].user
        /\ SeenIsCurrent(e.call) /\ calls[e.call].user \in Users
    BY <2>1 DEF EffectOK, CallOK, Resolver
  <2>3. /\ e.approval = calls[e.call].approval
        /\ e.actor = calls[e.call].seen.requester
        /\ e.role = calls[e.call].seen.role /\ e.role \in Permitted
        /\ e.workspace = calls[e.call].seen.workspace
    BY <2>1 DEF EffectOK, Effect
  <2>4. QED
    BY <2>2, <2>3, NoneAssumption DEF Found, SeenIsCurrent
<1>2. QED
  BY Inductive, <1>1, PTL

\* The types of every variable, of which the others make use.
THEOREM TypeCorrect == Spec => []TypeOK
<1>1. IInv => TypeOK
  BY DEF IInv
<1>2. QED
  BY Inductive, <1>1, PTL

\* No decision is taken outside the window of the request: an approval began
\* before it closed, an expiry after.
THEOREM WindowIsRespected == Spec => []WindowRespected
<1>1. IInv => WindowRespected
  <2> SUFFICES ASSUME IInv PROVE WindowRespected
    OBVIOUS
  <2>1. ASSUME NEW c \in Calls, calls[c].claimed, calls[c].event = "APPROVED"
        PROVE  \/ approvals[calls[c].approval].expiresAt = None
               \/ calls[c].now < approvals[calls[c].approval].expiresAt
    <3>1. /\ Found(c) \in Rows /\ calls[c].now \in Nat /\ ~WindowClosed(c)
      BY <2>1 DEF IInv, TypeOK, CallOK, CallStates, Found
    <3>2. QED
      BY <3>1 DEF WindowClosed, Found, Rows
  <2>2. QED
    BY <2>1 DEF WindowRespected, IInv, ExpiredOK
<1>2. QED
  BY Inductive, <1>1, PTL

\* The governance trail agrees with the table and never tells of two decisions
\* on one request, though it is written by a transaction of its own.
THEOREM TrailIsTruthful == Spec => []GovernanceTruthful
<1>1. IInv => GovernanceTruthful
  <2> SUFFICES ASSUME IInv, NEW g \in governance, g.event \in Terminal
               PROVE  /\ approvals[g.approval].status = g.event
                      /\ approvals[g.approval].resolver = g.approvedBy
                      /\ \A h \in governance :
                           h.event \in Terminal /\ h.approval = g.approval => h = g
    BY DEF GovernanceTruthful
  <2>1. ASSUME NEW h \in governance, h.event \in Terminal
        PROVE  /\ h.call \in Calls /\ calls[h.call].claimed
               /\ h = GovernanceRow(h.call) /\ CallOK(h.call)
    BY <2>1 DEF IInv, TypeOK, GovernanceRows, TrailOK
  <2>2. /\ g.approval = calls[g.call].approval /\ g.event = calls[g.call].event
        /\ g.approvedBy = Resolver(g.call)
    BY <2>1 DEF GovernanceRow, Resolver, Terminal, Refusals
  <2>3. ASSUME NEW h \in governance, h.event \in Terminal, h.approval = g.approval
        PROVE  h = g
    BY <2>1, <2>3 DEF GovernanceRow, IInv, UniqueWinner
  <2>4. QED
    BY <2>1, <2>2, <2>3 DEF CallOK, Found
<1>2. QED
  BY Inductive, <1>1, PTL

\* An intent row precedes every committed action, whatever fails after it.
THEOREM EffectsAreTraced == Spec => []EffectsHaveIntent
<1>1. IInv => EffectsHaveIntent
  BY DEF IInv, EffectOK, EffectsHaveIntent
<1>2. QED
  BY Inductive, <1>1, PTL

\* No step rewrites a decided row, or the staged part of a pending one.
THEOREM DecisionsAreFinal == Spec => DecisionFinal
<1> DEFINE Kept(a) ==
      /\ approvals[a].status \in Terminal => approvals'[a] = approvals[a]
      /\ approvals[a].status = "PENDING" =>
           \E s \in Terminal, u \in Users \cup {None} :
             approvals'[a] \in {approvals[a],
               [approvals[a] EXCEPT !.status = s, !.resolver = u]}
<1>1. IInv /\ [Next]_vars => \A a \in Approvals : Kept(a)
  <2> SUFFICES ASSUME IInv, [Next]_vars, NEW a \in Approvals PROVE Kept(a)
    OBVIOUS
  <2>1. CASE approvals'[a] = approvals[a]
    BY <2>1 DEF Terminal
  <2>2. ASSUME NEW c \in Calls, WinClaim(c), calls[c].approval = a PROVE Kept(a)
    <3>1. calls[c] \in CallStates /\ CallOK(c) /\ approvals \in [Approvals -> Rows]
      BY DEF IInv, TypeOK
    <3>2. calls[c].event \in Terminal /\ Resolver(c) \in Users \cup {None}
      BY <2>2, <3>1 DEF CallOK, WinClaim, Resolver, CallStates
    <3>3. approvals[a].status = "PENDING"
      BY <2>2 DEF WinClaim, ClaimMatches, Found
    <3>4. approvals'[a] = [approvals[a] EXCEPT !.status = calls[c].event,
                                               !.resolver = Resolver(c)]
      BY <2>2, <3>1 DEF WinClaim
    <3>5. QED
      BY <3>2, <3>3, <3>4 DEF Terminal
  <2>3. CASE approvals[a].status = "ABSENT"
    BY <2>3 DEF Terminal
  <2>4. QED
    BY <2>1, <2>2, <2>3, TableWrites
<1>2. QED
  BY Inductive, <1>1, PTL DEF DecisionFinal, Spec

\* Only a call made inside the row's workspace can decide the row.
THEOREM TenantsAreIsolated == Spec => TenantIsolation
<1> DEFINE Isolated(a) ==
      approvals[a].status = "PENDING" /\ approvals'[a] # approvals[a] =>
        \E c \in Calls :
          /\ calls[c].workspace = approvals[a].workspace
          /\ calls[c].approval = a /\ calls'[c].claimed /\ ~calls[c].claimed
<1>1. IInv /\ [Next]_vars => \A a \in Approvals : Isolated(a)
  <2> SUFFICES ASSUME IInv, [Next]_vars, NEW a \in Approvals,
                      approvals[a].status = "PENDING", approvals'[a] # approvals[a]
               PROVE  \E c \in Calls :
                        /\ calls[c].workspace = approvals[a].workspace
                        /\ calls[c].approval = a
                        /\ calls'[c].claimed /\ ~calls[c].claimed
    OBVIOUS
  <2>1. PICK c \in Calls : WinClaim(c) /\ calls[c].approval = a
    BY TableWrites
  <2>2. calls[c].workspace = approvals[a].workspace
    BY <2>1 DEF WinClaim, ClaimMatches, SameTenant, Found
  <2>3. calls'[c].claimed /\ ~calls[c].claimed
    BY <2>1 DEF WinClaim, CallOK, IInv, TypeOK, CallStates
  <2>4. QED
    BY <2>1, <2>2, <2>3
<1>2. QED
  BY Inductive, <1>1, PTL DEF TenantIsolation, Spec

\* The workflow implements its abstract specification, tenant by tenant: every step of a call
\* is Ask, Decide or Perform of the request it is about, or a stutter.
THEOREM Refinement == Spec => ImplementsDecision
<1> DEFINE status == [a \in Approvals |-> approvals[a].status]
<1>1. Init => Decision!Init
  <2> SUFFICES ASSUME Init PROVE Decision!Init
    OBVIOUS
  <2>1. \A a \in Approvals : approvals[a].status \in {"ABSENT", "PENDING"}
    BY DEF Init, Absent, EarlierRows, PendingRow
  <2>2. Performed = {}
    BY DEF Init, Performed
  <2>3. QED
    BY <2>1, <2>2 DEF Decision!Init, Decision!Open
<1>2. IInv /\ IInv' /\ [Next]_vars => [Decision!Next]_<<status, Performed>>
  <2> SUFFICES ASSUME IInv, IInv', [Next]_vars
               PROVE  Decision!Next \/ UNCHANGED <<status, Performed>>
    OBVIOUS
  <2>1. /\ approvals \in [Approvals -> Rows] /\ approvals' \in [Approvals -> Rows]
        /\ calls \in [Calls -> CallStates]
    BY DEF IInv, TypeOK
  <2>2. ASSUME NEW c \in Calls, WinClaim(c) PROVE Decision!Next
    <3>1. calls[c].approval \in Approvals /\ calls[c].event \in Terminal
      BY <2>2 DEF IInv, CallOK, WinClaim
    <3>2. /\ approvals[calls[c].approval].status = "PENDING"
          /\ approvals' = [approvals EXCEPT
                            ![calls[c].approval].status = calls[c].event,
                            ![calls[c].approval].resolver = Resolver(c)]
          /\ effects' = effects
      BY <2>2 DEF WinClaim, ClaimMatches, Found
    <3>3. status' = [status EXCEPT ![calls[c].approval] = calls[c].event]
      BY <2>1, <3>1, <3>2 DEF Rows
    <3>4. calls[c].event \in Decision!Decisions
      BY <3>1 DEF Decision!Decisions, Terminal
    <3>5. QED
      BY <3>1, <3>2, <3>3, <3>4
         DEF Decision!Next, Decision!Decide, Decision!Open, Performed
  <2>3. ASSUME NEW c \in Calls, HandlerCommits(c) PROVE Decision!Next
    <3>1. /\ calls[c].pc = "handler" /\ CallOK(c)
          /\ effects' = effects \cup {Effect(c)} /\ status' = status
      BY <2>3 DEF HandlerCommits, IInv
    <3>2. /\ calls[c].claimed /\ calls[c].approval \in Approvals
          /\ status[calls[c].approval] = "APPROVED"
      BY <3>1 DEF CallOK, Found
    <3>3. \A e \in effects : e.approval # calls[c].approval
      BY <3>1, <3>2 DEF IInv, TypeOK, Effects, EffectOK, Effect, UniqueWinner
    <3>4. Performed' = Performed \cup {<<c, calls[c].approval>>}
      <4>1. <<Effect(c).call, Effect(c).approval>> = <<c, calls[c].approval>>
        BY DEF Effect
      <4>2. Performed' = {<<e.call, e.approval>> : e \in effects \cup {Effect(c)}}
        BY <3>1 DEF Performed
      <4>3. QED
        BY <4>1, <4>2 DEF Performed
    <3>5. \A p \in Performed : p[2] # calls[c].approval
      BY <3>3 DEF Performed
    <3>6. QED
      BY <3>1, <3>2, <3>4, <3>5 DEF Decision!Next, Decision!Perform
  <2>4. ASSUME NEW c \in Calls, NEW u \in Users, NEW w \in Workspaces,
               NEW r \in Roles, NEW a \in Approvals, Stage(c, u, w, r, a)
        PROVE  Decision!Next
    <3>1. status' = [status EXCEPT ![a] = "PENDING"]
      BY <2>1, <2>4 DEF Stage, PendingRow
    <3>2. Decision!Ask(a)
      BY <2>4, <3>1 DEF Stage, Decision!Ask, Decision!Open, Performed
    <3>3. QED
      BY <3>2 DEF Decision!Next
  <2>5. ASSUME UNCHANGED <<approvals, effects>> PROVE UNCHANGED <<status, Performed>>
    BY <2>5 DEF Performed
  <2>6. ASSUME NEW c \in Calls, Proceed(c), ~WinClaim(c), ~HandlerCommits(c)
        PROVE  UNCHANGED <<approvals, effects>>
    BY <2>6 DEF Proceed, Decide, FindNothing, FindLapsed, FindLegacy,
       FindRejectable, FindOwnRequest, FindApprovable, FindForeign,
       FindWithdrawable, LoseClaim, Record, RunForbidden, RunStart,
       HandlerFails, RecordResult, RecordError, RecordRefusal, AuditFails
  <2>7. ASSUME NEW c \in Calls, Request(c)
        PROVE  Decision!Next \/ UNCHANGED <<approvals, effects>>
    BY <2>4, <2>7 DEF Request, RefuseStaging, Resolve, Withdraw, Begin
  <2>8. CASE Tick \/ (\E c \in Calls : Crash(c)) \/ UNCHANGED vars
    BY <2>5, <2>8 DEF Tick, Crash, vars
  <2>9. QED
    BY <2>2, <2>3, <2>5, <2>6, <2>7, <2>8 DEF Next
<1>3. QED
  BY Inductive, TenantsAreIsolated, <1>1, <1>2, PTL DEF Spec, ImplementsDecision, Decision!Spec

\* What is executed is due: approved by another, in its window, as the requester.
THEOREM ExecutedOnlyWhenDue == Spec => []ExecutionIsDue
  BY ExecutedWithAuthority, WindowIsRespected, PTL DEF ExecutionIsDue

\* The trail and the runs agree with the table and with what was done.
THEOREM NothingIsHidden == Spec => []TrailIsWhole
  BY TrailIsTruthful, EffectsAreTraced, PTL DEF TrailIsWhole
=============================================================================
