------------------------------ MODULE AgentRuns ------------------------------
(***************************************************************************)
(* Runs of agent tools and their cancellation (runTool, cancelExecution    *)
(* and the registries of backend/src/modules/agent/agent.service.ts).      *)
(*                                                                         *)
(* The service keeps in memory, by session, the abort controller of the    *)
(* run under way and the sessions that are over.  A run enters itself,     *)
(* awaits its intent row, looks at the controller once, and from there on  *)
(* cannot be stopped; it leaves the registries before its result row is    *)
(* written.  What a run may do, and its rows, are in AgentApprovals.       *)
(***************************************************************************)
EXTENDS Naturals, FiniteSets

CONSTANTS
  Calls,       \* runs: requests of users, and approved actions
  Sessions,    \* session ids, of the client or of the clock
  None         \* null

VARIABLES
  activeExecutions,     \* session -> the call whose abort controller it has,
                        \* "pre-emptive-abort", or None
  completedExecutions,  \* sessions that are over
  aborted,              \* calls whose controller is aborted
  calls,
  asked                 \* *history* what the cancellations answered

vars == <<activeExecutions, completedExecutions, aborted, calls, asked>>

registries == <<activeExecutions, completedExecutions>>

\* controller: whose abort controller the run looks at.  carried: the tool has
\* been called.  parted: the session was closed by something else than a
\* cancellation of this run, before the run looked at its controller.
Call == [pc : {"idle", "entered", "recorded", "running", "ended", "answered"},
         session : Sessions \cup {None},
         controller : Calls \cup {"pre-emptive-abort", None},
         carried : BOOLEAN, parted : BOOLEAN]

Idle == [pc |-> "idle", session |-> None, controller |-> None,
         carried |-> FALSE, parted |-> FALSE]

Init ==
  /\ activeExecutions = [s \in Sessions |-> None]
  /\ completedExecutions = {}
  /\ aborted = {}
  /\ calls = [c \in Calls |-> Idle]
  /\ asked = [cancelled |-> {}, misled |-> {}]

At(c, pc) == calls[c].pc = pc

\* Runs of a session that have yet to look at their controller.
Unstarted(s) == {c \in Calls : calls[c].session = s /\ calls[c].pc \in {"entered", "recorded"}}

Aborted(controller) == controller = "pre-emptive-abort" \/ controller \in aborted

-----------------------------------------------------------------------------
(* runTool                                                                 *)

\* mutant of Controller: the run is given a controller of its own
ControllerOfItsOwn(c, s) == c

\* A run joins the controller its session has.
Controller(c, s) == IF activeExecutions[s] = None THEN c ELSE activeExecutions[s]

\* The session is the client's, or the clock's if there is none: any of them may
\* have been used before, or be in use.
EnterRun(c) ==
  /\ At(c, "idle")
  /\ \E s \in Sessions :
       /\ calls' = [calls EXCEPT ![c] = [Idle EXCEPT
                      !.pc = "entered", !.session = s, !.controller = Controller(c, s)]]
       /\ activeExecutions' = [activeExecutions EXCEPT ![s] = Controller(c, s)]
       \* *history* the run comes after a cancellation that was promised to it
       /\ asked' = IF activeExecutions[s] = "pre-emptive-abort"
                   THEN [asked EXCEPT !.cancelled = @ \cup {c}] ELSE asked
  /\ UNCHANGED <<completedExecutions, aborted>>

\* The intent row.  If it cannot be written the run fails and its entry stays.
RecordIntent(c) ==
  /\ At(c, "entered")
  /\ \E written \in BOOLEAN :
       calls' = [calls EXCEPT ![c].pc = IF written THEN "recorded" ELSE "answered"]
  /\ UNCHANGED <<registries, aborted, asked>>

\* The session is closed, whoever has entered it since.
Close(c, s) ==
  /\ activeExecutions' = [activeExecutions EXCEPT ![s] = None]
  /\ completedExecutions' = completedExecutions \cup {s}
  /\ calls' = [d \in Calls |->
       IF d = c THEN [calls[d] EXCEPT !.pc = "ended"]
       ELSE IF d \in Unstarted(s) THEN [calls[d] EXCEPT !.parted = TRUE] ELSE calls[d]]

\* The one look at the controller.
StartRun(c) ==
  /\ At(c, "recorded") /\ ~Aborted(calls[c].controller)
  /\ calls' = [calls EXCEPT ![c].pc = "running", ![c].carried = TRUE]
  /\ UNCHANGED <<registries, aborted, asked>>

StopRun(c) ==
  /\ At(c, "recorded") /\ Aborted(calls[c].controller)
  /\ Close(c, calls[c].session)
  /\ UNCHANGED <<aborted, asked>>

\* The handler returns or throws.
EndRun(c) ==
  /\ At(c, "running")
  /\ Close(c, calls[c].session)
  /\ UNCHANGED <<aborted, asked>>

\* The result row.  If the update fails the error path closes the session again;
\* if that row fails too, the request does.
RecordResult(c) ==
  /\ At(c, "ended")
  /\ \/ calls' = [calls EXCEPT ![c].pc = "answered"] /\ UNCHANGED registries
     \/ /\ calls[c].carried
        /\ LET s == calls[c].session IN
             /\ activeExecutions' = [activeExecutions EXCEPT ![s] = None]
             /\ completedExecutions' = completedExecutions \cup {s}
             /\ calls' = [d \in Calls |->
                  IF d = c THEN [calls[d] EXCEPT !.pc = "answered"]
                  ELSE IF d \in Unstarted(s) THEN [calls[d] EXCEPT !.parted = TRUE]
                  ELSE calls[d]]
  /\ UNCHANGED <<aborted, asked>>

-----------------------------------------------------------------------------
(* cancelExecution                                                         *)

\* mutant of Resolved: the sessions that are over are looked up first
ResolvedOnce(s) == s \in completedExecutions

Resolved(s) == activeExecutions[s] = None /\ s \in completedExecutions

\* "Pre-commit already resolved."
RefuseCancellation(s) ==
  /\ Resolved(s)
  /\ asked' = [asked EXCEPT !.misled = @ \cup
                  {c \in Unstarted(s) : ~Aborted(calls[c].controller)}]
  /\ UNCHANGED <<registries, aborted, calls>>

\* A session nobody has heard of is cancelled ahead of its run.
CancelAhead(s) ==
  /\ ~Resolved(s) /\ activeExecutions[s] = None
  /\ activeExecutions' = [activeExecutions EXCEPT ![s] = "pre-emptive-abort"]
  /\ UNCHANGED <<completedExecutions, aborted, calls, asked>>

CancelActive(s) ==
  /\ ~Resolved(s) /\ activeExecutions[s] # None
  /\ aborted' = aborted \cup ({activeExecutions[s]} \cap Calls)
  /\ activeExecutions' = [activeExecutions EXCEPT ![s] = None]
  /\ completedExecutions' = completedExecutions \cup {s}
  /\ asked' = [asked EXCEPT !.cancelled = @ \cup Unstarted(s)]
  /\ UNCHANGED calls

\* The registries and the runs are in the memory of the process; rows that were
\* written stay.
Restart ==
  /\ \E c \in Calls : calls[c].pc \in {"entered", "recorded", "running", "ended"}
  /\ activeExecutions' = [s \in Sessions |-> None]
  /\ completedExecutions' = {}
  /\ aborted' = {}
  /\ calls' = [c \in Calls |-> IF At(c, "idle") THEN calls[c]
                               ELSE [calls[c] EXCEPT !.pc = "answered"]]
  /\ UNCHANGED asked

-----------------------------------------------------------------------------

Run(c) == EnterRun(c) \/ RecordIntent(c) \/ StartRun(c) \/ StopRun(c) \/ EndRun(c)
          \/ RecordResult(c)

Cancel(s) == RefuseCancellation(s) \/ CancelAhead(s) \/ CancelActive(s)

Next == (\E c \in Calls : Run(c)) \/ (\E s \in Sessions : Cancel(s)) \/ Restart

Spec == Init /\ [][Next]_vars

-----------------------------------------------------------------------------
(* Properties.                                                             *)

TypesHold ==
  /\ activeExecutions \in [Sessions -> Calls \cup {"pre-emptive-abort", None}]
  /\ completedExecutions \subseteq Sessions
  /\ aborted \subseteq Calls
  /\ calls \in [Calls -> Call]
  /\ asked \in [cancelled : SUBSET Calls, misled : SUBSET Calls]

\* A run that had not started when its session was answered CANCELLED, or came
\* to a session cancelled ahead of it, is not carried out; and nobody is told
\* that a run is past cancelling while it has yet to start and is not aborted.
\* Both fail only for a run whose session was closed under it by the end of
\* another run of the same session (cancelExecution, the abort check of runTool).
CancellationHolds ==
  \A c \in Calls :
    /\ c \in asked.cancelled /\ calls[c].carried => calls[c].parted
    /\ c \in asked.misled => calls[c].parted
=============================================================================
