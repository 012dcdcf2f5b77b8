------------------------ MODULE TeamMembershipProofs ------------------------
(* Proofs about TeamMembership, for every set of users, rows and calls.    *)
EXTENDS TeamMembership, FiniteSetTheorems, TLAPS

-----------------------------------------------------------------------------
(* Roles and calls.                                                        *)

\* The rank table as facts an arithmetic prover can use.
LEMMA Ranks ==
  /\ Roles = {"SUPERADMIN", "ORG_OWNER", "ORG_ADMIN", "WORKSPACE_ADMIN", "USER", "AGENT"}
  /\ \A r \in Roles : RankOf[r] \in Nat
  /\ GrantableRoles \subseteq Roles /\ AdminRoles \subseteq Roles
  /\ OrgWideRoles \subseteq AdminRoles
  /\ Asked \subseteq Roles
BY RoleAssumption DEF Roles, RankOf, GrantableRoles, AdminRoles, OrgWideRoles

\* More than one owner means an owner besides any given user.
LEMMA AnotherOwner ==
  ASSUME AnotherOwnerLeft, NEW v PROVE \E u \in Users \ {v} : members[u] = "ORG_OWNER"
<1>1. IsFiniteSet(Owners)
  BY UserAssumption, FS_Subset DEF Owners
<1>2. ~(Owners \subseteq {v})
  <2>1. SUFFICES ASSUME Owners \subseteq {v} PROVE FALSE
    OBVIOUS
  <2>2. Cardinality(Owners) <= Cardinality({v}) /\ Cardinality({v}) = 1
    BY <2>1, FS_Subset, FS_Singleton
  <2>3. Cardinality(Owners) \in Nat
    BY <1>1, FS_CardinalityType
  <2>4. QED
    BY <2>2, <2>3 DEF AnotherOwnerLeft
<1>3. QED
  BY <1>2 DEF Owners

\* A call in a state given by NewCall.
LEMMA NewCallType ==
  ASSUME NEW pc \in CallPcs, NEW u \in Users \cup {None}, NEW r \in Roles \cup {None},
         NEW t \in Users \cup {None}, NEW role \in Roles \cup {None},
         NEW i \in Invitations \cup {None}
  PROVE  NewCall(pc, u, r, t, role, i) \in CallStates
BY DEF NewCall, CallStates

\* What is said of the sessions holds through a step of a call that issues none
\* and takes no seat away.
LEMMA SessionsStay ==
  ASSUME IInv, NEW c \in Calls, UNCHANGED overtaken, sessions' \subseteq sessions,
         \A d \in Calls : d # c => calls'[d] = calls[d],
         \A u \in Users : members[u] # None => members'[u] # None,
         calls[c].pc \notin {"done", "failed"},
         calls[c].pc = "issue" => calls'[c].pc = "failed",
         calls'[c].pc \in {"seat", "issue"} => calls'[c].user \in Users,
         calls'[c].pc = "issue" => members'[calls'[c].user] # None
  PROVE  RemovedAreSignedOut' /\ \A d \in Calls : RenewCallOK(d)'
<1>1. sessions \subseteq Users /\ overtaken \subseteq Calls
  BY DEF IInv, TypeOK
<1>2. c \in overtaken => calls[c].pc = "issue"
  BY DEF IInv, RenewCallOK
<1>3. RemovedAreSignedOut'
  BY <1>1, <1>2 DEF IInv, RemovedAreSignedOut
<1>4. ASSUME NEW d \in Calls PROVE RenewCallOK(d)'
  <2>1. CASE d = c
    BY <1>2, <2>1 DEF RenewCallOK
  <2>2. CASE d # c
    BY <2>2 DEF IInv, RenewCallOK
  <2>3. QED
    BY <2>1, <2>2
<1>5. QED
  BY <1>3, <1>4

\* A step of one call that leaves the tables alone keeps the invariant if it
\* keeps what is said of that call and of the sessions.
LEMMA CallStep ==
  ASSUME IInv, NEW c \in Calls, NEW x \in CallStates,
         calls' = [calls EXCEPT ![c] = x], x.held = {}, x.pc # "create",
         UNCHANGED <<members, invitations, lapsed, earlier, overtaken>>,
         sessions' \subseteq Users,
         lock' \in Calls \cup {None}, \A d \in Calls \ {c} : lock' = d <=> lock = d,
         calls[c].pc \in {"audit", "done", "failed"}
           => x.pc \in {"audit", "done", "failed"},
         x.pc \notin {"JOINED", "ALREADY_MEMBER"},
         x.pc \in {"invitee", "supersede"} => x.target \in Users /\ x.newRole \in Asked,
         SeatCallOK(c)', AcceptCallOK(c)',
         RemovedAreSignedOut', \A d \in Calls : RenewCallOK(d)'
  PROVE  IInv'
<1>1. /\ calls \in [Calls -> CallStates] /\ calls' \in [Calls -> CallStates]
      /\ calls'[c] = x
      /\ \A d \in Calls : d # c => calls'[d] = calls[d]
  BY DEF IInv, TypeOK
<1>2. TypeOK' /\ OwnerRemains'
  BY <1>1 DEF IInv, TypeOK, OwnerRemains
<1>3. ASSUME NEW i \in Invitations PROVE RowOK(i)'
  BY <1>1 DEF IInv, RowOK
<1>4. ASSUME NEW d \in Calls PROVE SeatCallOK(d)'
  <2>1. CASE d = c
    BY <2>1
  <2>2. CASE d # c
    BY <1>1, <2>2 DEF IInv, SeatCallOK, Permitted
  <2>3. QED
    BY <2>1, <2>2
<1>5. ASSUME NEW d \in Calls PROVE InviteCallOK(d)'
  BY <1>1 DEF IInv, InviteCallOK, Claimable
<1>6. ASSUME NEW d \in Calls PROVE AcceptCallOK(d)'
  <2>1. CASE d = c
    BY <2>1
  <2>2. CASE d # c
    BY <1>1, <2>2 DEF IInv, AcceptCallOK
  <2>3. QED
    BY <2>1, <2>2
<1>7. LinkIsUsedOnce' /\ OnlyOverlappingInvitesCoexist'
  BY <1>1 DEF IInv, LinkIsUsedOnce, OnlyOverlappingInvitesCoexist, Claimable
<1>8. QED
  BY <1>2, <1>3, <1>4, <1>5, <1>6, <1>7 DEF IInv

\* The same of a call that issues no session.
LEMMA LocalStep ==
  ASSUME IInv, NEW c \in Calls, NEW x \in CallStates,
         calls' = [calls EXCEPT ![c] = x], x.held = {}, x.pc # "create",
         UNCHANGED <<members, invitations, lapsed, earlier, overtaken>>,
         sessions' \subseteq sessions,
         lock' \in Calls \cup {None}, \A d \in Calls \ {c} : lock' = d <=> lock = d,
         calls[c].pc \notin {"done", "failed"},
         calls[c].pc = "audit" => x.pc \in {"done", "failed"},
         calls[c].pc = "issue" => x.pc = "failed",
         x.pc \in {"seat", "issue"} => x.user \in Users,
         x.pc = "issue" => members[x.user] # None,
         x.pc \notin {"JOINED", "ALREADY_MEMBER"},
         x.pc \in {"invitee", "supersede"} => x.target \in Users /\ x.newRole \in Asked,
         SeatCallOK(c)', AcceptCallOK(c)'
  PROVE  IInv'
<1>1. calls'[c] = x /\ \A d \in Calls : d # c => calls'[d] = calls[d]
  BY DEF IInv, TypeOK
<1>2. sessions' \subseteq Users
  BY DEF IInv, TypeOK
<1>3. RemovedAreSignedOut' /\ \A d \in Calls : RenewCallOK(d)'
  BY <1>1, SessionsStay
<1>4. QED
  BY <1>2, <1>3, CallStep

\* The same of a call that moves on from pc without learning anything.
LEMMA TurnStep ==
  ASSUME IInv, NEW c \in Calls, NEW pc \in CallPcs, Goto(c, pc),
         UNCHANGED <<members, sessions, invitations, lapsed, earlier, overtaken>>,
         lock' \in Calls \cup {None}, \A d \in Calls \ {c} : lock' = d <=> lock = d,
         calls[c].pc \notin {"create", "issue", "done", "failed"},
         calls[c].pc = "audit" => pc = "done",
         pc \notin {"create", "JOINED", "ALREADY_MEMBER", "invitee", "seat"},
         pc = "issue" => calls[c].user \in Users /\ members[calls[c].user] # None,
         pc = "supersede" => calls[c].pc = "invitee",
         SeatCallOK(c)', AcceptCallOK(c)'
  PROVE  IInv'
<1> DEFINE x == [calls[c] EXCEPT !.pc = pc]
<1>1. calls \in [Calls -> CallStates] /\ calls[c] \in CallStates
  BY DEF IInv, TypeOK
<1>2. x \in CallStates /\ x.pc = pc /\ x.held = {}
      /\ x.target = calls[c].target /\ x.newRole = calls[c].newRole
      /\ x.user = calls[c].user
  BY <1>1 DEF CallStates, IInv, InviteCallOK
<1>3. calls' = [calls EXCEPT ![c] = x]
  BY DEF Goto
<1>4. x.pc \in {"invitee", "supersede"} => x.target \in Users /\ x.newRole \in Asked
  BY <1>2 DEF IInv, InviteCallOK
<1> HIDE DEF x
<1>5. QED
  BY <1>2, <1>3, <1>4, LocalStep

\* What Goto does to its call.
LEMMA GotoFacts ==
  ASSUME IInv, NEW c \in Calls, NEW pc \in CallPcs, Goto(c, pc)
  PROVE  /\ calls[c] \in CallStates /\ calls'[c].pc = pc
         /\ calls'[c].user = calls[c].user /\ calls'[c].authority = calls[c].authority
         /\ calls'[c].target = calls[c].target /\ calls'[c].newRole = calls[c].newRole
         /\ calls'[c].invitation = calls[c].invitation /\ calls'[c].held = calls[c].held
         /\ calls' \in [Calls -> CallStates]
         /\ \A d \in Calls : d # c => calls'[d] = calls[d]
<1>1. calls \in [Calls -> CallStates] /\ calls[c] \in CallStates
  BY DEF IInv, TypeOK
<1>2. QED
  BY <1>1 DEF Goto, CallStates

-----------------------------------------------------------------------------
(* A request begins.                                                       *)

LEMMA RequestStep == ASSUME IInv, NEW c \in Calls, Request(c) PROVE IInv'
<1> USE NullAssumption
<1>1. /\ calls \in [Calls -> CallStates] /\ calls[c].pc = "idle" /\ lock \in Calls \cup {None}
      /\ lock # c /\ lock' = lock /\ sessions' \subseteq sessions
      /\ UNCHANGED <<members, invitations, lapsed, earlier, overtaken>>
  BY DEF IInv, TypeOK, SeatCallOK, Request, Renew, ChangeRole, Invite, RemoveMember,
         RevokeInvitation, AcceptInvitation, BeginAsAdmin, Begin
<1>2. ASSUME NEW x \in CallStates, calls' = [calls EXCEPT ![c] = x], x.held = {},
             x.pc \in {"lock", "invitee", "revoke", "read", "seat"},
             x.pc = "seat" => x.user \in Users,
             x.pc \in {"lock", "invitee"} => x.target \in Users,
             x.pc = "invitee" => x.newRole \in Asked,
             x.pc \in {"lock", "revoke"} => x.authority \in AdminRoles,
             x.pc = "lock" /\ x.newRole # None =>
               x.newRole \in Asked /\ CanGrant(x.authority, x.newRole),
             x.pc \in {"revoke", "read"} => x.invitation \in Invitations,
             x.pc = "read" =>
               x.user \in Users /\ invitations[x.invitation].status # "ABSENT"
      PROVE  IInv'
  <2>1. calls'[c] = x
    BY <1>1, <1>2
  <2>2. SeatCallOK(c)'
    BY <1>1, <1>2, <2>1 DEF SeatCallOK
  <2>3. AcceptCallOK(c)'
    BY <1>1, <1>2, <2>1, Ranks DEF AcceptCallOK
  <2>4. QED
    BY <1>1, <1>2, <2>2, <2>3, LocalStep
<1>3. \A u \in Users : RoleOf(u) \in Roles \cup {None}
  BY OrgRoleAssumption, Ranks DEF RoleOf, IInv, TypeOK, OrgWideRoles, AdminRoles
<1>4. ASSUME NEW u \in Users, NEW target \in Users, NEW role \in Asked,
             ChangeRole(c, u, target, role)
      PROVE  IInv'
  <2> DEFINE x == NewCall("lock", u, RoleOf(u), target, role, None)
  <2>1. x \in CallStates
    BY <1>3, NewCallType, Ranks DEF CallPcs
  <2>2. QED
    BY <1>2, <1>4, <2>1 DEF ChangeRole, BeginAsAdmin, Begin, NewCall
<1>5. ASSUME NEW u \in Users, NEW target \in Users, RemoveMember(c, u, target)
      PROVE  IInv'
  <2> DEFINE x == NewCall("lock", u, RoleOf(u), target, None, None)
  <2>1. x \in CallStates
    BY <1>3, NewCallType DEF CallPcs
  <2>2. QED
    BY <1>2, <1>5, <2>1 DEF RemoveMember, BeginAsAdmin, Begin, NewCall
<1>6. ASSUME NEW u \in Users, NEW target \in Users, NEW role \in Asked,
             Invite(c, u, target, role)
      PROVE  IInv'
  <2> DEFINE x == NewCall("invitee", u, RoleOf(u), target, role, None)
  <2>1. x \in CallStates
    BY <1>3, NewCallType, Ranks DEF CallPcs
  <2>2. QED
    BY <1>2, <1>6, <2>1 DEF Invite, BeginAsAdmin, Begin, NewCall
<1>7. ASSUME NEW u \in Users, NEW i \in Invitations, RevokeInvitation(c, u, i)
      PROVE  IInv'
  <2> DEFINE x == NewCall("revoke", u, RoleOf(u), None, None, i)
  <2>1. x \in CallStates
    BY <1>3, NewCallType DEF CallPcs
  <2>2. QED
    BY <1>2, <1>7, <2>1 DEF RevokeInvitation, BeginAsAdmin, Begin, NewCall
<1>8. ASSUME NEW u \in Users, NEW i \in Invitations, AcceptInvitation(c, u, i)
      PROVE  IInv'
  <2> DEFINE x == NewCall("read", u, None, None, None, i)
  <2>1. x \in CallStates
    BY NewCallType DEF CallPcs
  <2>2. QED
    BY <1>2, <1>8, <2>1 DEF AcceptInvitation, Begin, NewCall
<1>9. ASSUME NEW u \in Users, Renew(c, u) PROVE IInv'
  <2> DEFINE x == NewCall("seat", u, None, None, None, None)
  <2>1. x \in CallStates
    BY NewCallType DEF CallPcs
  <2>2. QED
    BY <1>2, <1>9, <2>1 DEF Renew, NewCall
<1>10. QED
  BY <1>4, <1>5, <1>6, <1>7, <1>8, <1>9 DEF Request

-----------------------------------------------------------------------------
(* changeRole and removeMember.                                            *)

LEMMA LockStep == ASSUME IInv, NEW c \in Calls, LockWorkspace(c) PROVE IInv'
<1> USE NullAssumption
<1>1. /\ calls[c].pc = "lock" /\ Goto(c, "target") /\ lock' = c /\ lock = None
      /\ UNCHANGED <<members, sessions, invitations, lapsed, earlier, overtaken>>
      /\ "target" \in CallPcs
  BY DEF LockWorkspace, LockIsFree, CallPcs
<1>2. SeatCallOK(c)' /\ AcceptCallOK(c)'
  BY <1>1, GotoFacts DEF IInv, SeatCallOK, AcceptCallOK
<1>3. QED
  BY <1>1, <1>2, TurnStep

\* A refusal under the lock.
LEMMA RefuseStep ==
  ASSUME IInv, NEW c \in Calls, calls[c].pc \in {"target", "count"}, Refuse(c)
  PROVE  IInv'
<1> USE NullAssumption
<1>1. /\ Goto(c, "refused") /\ lock' = None /\ lock = c
      /\ UNCHANGED <<members, sessions, invitations, lapsed, earlier, overtaken>>
      /\ "refused" \in CallPcs
  BY DEF Refuse, CallPcs, Ended, IInv, SeatCallOK
<1>2. SeatCallOK(c)' /\ AcceptCallOK(c)'
  BY <1>1, GotoFacts DEF IInv, SeatCallOK, AcceptCallOK
<1>3. QED
  BY <1>1, <1>2, TurnStep

LEMMA FindTargetStep == ASSUME IInv, NEW c \in Calls, FindTarget(c) PROVE IInv'
<1> USE NullAssumption
<1> DEFINE seat == members[calls[c].target]
           pc == IF seat = "ORG_OWNER" /\ calls[c].newRole # seat THEN "count" ELSE "write"
<1>1. calls[c].pc = "target" /\ lock = c /\ lock \in Calls
  BY DEF FindTarget, IInv, SeatCallOK
<1>2. CASE Refuse(c)
  BY <1>1, <1>2, RefuseStep
<1>3. CASE seat # None /\ Permitted(c, seat) /\ Turn(c, pc)
  <2>1. /\ Goto(c, pc) /\ pc \in CallPcs /\ pc \in {"count", "write"}
        /\ UNCHANGED <<members, sessions, invitations, lapsed, earlier, overtaken, lock>>
    BY <1>3 DEF Turn, CallPcs
  <2>2. SeatCallOK(c)'
    <3>1. Permitted(c, seat)'
      BY <1>3, <2>1, GotoFacts DEF Permitted
    <3>2. QED
      BY <1>1, <1>3, <2>1, <3>1, GotoFacts DEF IInv, SeatCallOK
  <2>3. AcceptCallOK(c)'
    BY <1>1, <2>1, GotoFacts DEF IInv, AcceptCallOK
  <2>4. QED
    BY <1>1, <2>1, <2>2, <2>3, TurnStep
<1>4. QED
  BY <1>2, <1>3 DEF FindTarget

LEMMA CountStep == ASSUME IInv, NEW c \in Calls, AssertNotLastOwner(c) PROVE IInv'
<1> USE NullAssumption
<1>1. calls[c].pc = "count" /\ lock = c /\ lock \in Calls
  BY DEF AssertNotLastOwner, IInv, SeatCallOK
<1>2. CASE Refuse(c)
  BY <1>1, <1>2, RefuseStep
<1>3. CASE AnotherOwnerLeft /\ Turn(c, "write")
  <2>1. /\ Goto(c, "write") /\ "write" \in CallPcs
        /\ UNCHANGED <<members, sessions, invitations, lapsed, earlier, overtaken, lock>>
    BY <1>3 DEF Turn, CallPcs
  <2>2. SeatCallOK(c)'
    <3>1. \E u \in Users \ {calls[c].target} : members[u] = "ORG_OWNER"
      BY <1>3, AnotherOwner
    <3>2. Permitted(c, members[calls[c].target]) = Permitted(c, members[calls[c].target])'
      BY <2>1, GotoFacts DEF Permitted
    <3>3. QED
      BY <1>1, <2>1, <3>1, <3>2, GotoFacts DEF IInv, SeatCallOK
  <2>3. AcceptCallOK(c)'
    BY <1>1, <2>1, GotoFacts DEF IInv, AcceptCallOK
  <2>4. QED
    BY <1>1, <2>1, <2>2, <2>3, TurnStep
<1>4. QED
  BY <1>2, <1>3 DEF AssertNotLastOwner

\* The commit leaves an owner, and nobody else has judged or counted yet.
LEMMA CommitStep == ASSUME IInv, NEW c \in Calls, CommitSeat(c) PROVE IInv'
<1> USE NullAssumption
<1> DEFINE u == calls[c].target
           role == calls[c].newRole
<1>1. /\ calls[c].pc = "write" /\ lock = c /\ Goto(c, "done") /\ "done" \in CallPcs
      /\ u \in Users /\ role \in Roles \cup {None} /\ lock' = None
      /\ members' = [members EXCEPT ![u] = role]
      /\ UNCHANGED <<invitations, lapsed, earlier>>
  BY Ranks DEF CommitSeat, CallPcs, Ended, IInv, SeatCallOK
<1>2. /\ calls'[c].pc = "done" /\ calls' \in [Calls -> CallStates]
      /\ calls'[c].held = calls[c].held
      /\ \A d \in Calls : d # c => calls'[d] = calls[d]
  BY <1>1, GotoFacts
<1>3. TypeOK'
  <2>1. overtaken' \subseteq Calls /\ sessions' \subseteq Users
    BY DEF IInv, TypeOK, CommitSeat, SessionsAfter, Renewing
  <2>2. QED
    BY <1>1, <1>2, <2>1 DEF IInv, TypeOK
<1>4. OwnerRemains'
  <2>1. members[u] # "ORG_OWNER" \/ role = "ORG_OWNER"
          \/ \E v \in Users \ {u} : members[v] = "ORG_OWNER"
    BY <1>1 DEF IInv, SeatCallOK
  <2>2. PICK v \in Users : members[v] = "ORG_OWNER"
    BY DEF IInv, OwnerRemains
  <2>3. QED
    BY <1>1, <2>1, <2>2 DEF OwnerRemains, IInv, TypeOK
<1>5. RemovedAreSignedOut' /\ \A d \in Calls : RenewCallOK(d)'
  <2>1. /\ overtaken \subseteq overtaken' /\ sessions' \subseteq sessions
        /\ role = None => u \notin sessions'
        /\ \A v \in Users \ {u} : members'[v] = members[v]
        /\ role # None => members'[u] # None
    BY <1>1, NullAssumption DEF IInv, TypeOK, CommitSeat, SessionsAfter
  <2>2. RemovedAreSignedOut'
    BY <1>1, <1>2, <2>1 DEF IInv, TypeOK, RemovedAreSignedOut
  <2>3. ASSUME NEW d \in Calls PROVE RenewCallOK(d)'
    <3>1. CASE d = c
      BY <1>2, <3>1 DEF RenewCallOK
    <3>2. CASE d # c /\ role = None
      <4>1. overtaken' = overtaken \cup Renewing(u)
        BY <3>2 DEF CommitSeat
      <4>2. QED
        BY <1>2, <2>1, <3>2, <4>1 DEF IInv, RenewCallOK, Renewing
    <3>3. CASE d # c /\ role # None
      <4>1. overtaken' = overtaken
        BY <3>3 DEF CommitSeat
      <4>2. QED
        BY <1>2, <2>1, <3>3, <4>1 DEF IInv, RenewCallOK
    <3>4. QED
      BY <3>1, <3>2, <3>3
  <2>4. QED
    BY <2>2, <2>3
<1>6. ASSUME NEW i \in Invitations PROVE RowOK(i)'
  BY <1>1, <1>2 DEF IInv, RowOK
<1>7. ASSUME NEW d \in Calls PROVE SeatCallOK(d)'
  <2>1. CASE d = c
    BY <1>1, <1>2, <2>1 DEF SeatCallOK
  <2>2. CASE d # c
    <3>1. calls[d].pc \notin {"target", "count", "write"}
      BY <1>1, <2>2 DEF IInv, SeatCallOK
    <3>2. QED
      BY <1>1, <1>2, <2>2, <3>1 DEF IInv, SeatCallOK
  <2>3. QED
    BY <2>1, <2>2
<1>8. ASSUME NEW d \in Calls PROVE InviteCallOK(d)'
  BY <1>1, <1>2 DEF IInv, InviteCallOK, Claimable
<1>9. ASSUME NEW d \in Calls PROVE AcceptCallOK(d)'
  BY <1>1, <1>2 DEF IInv, AcceptCallOK
<1>10. LinkIsUsedOnce' /\ OnlyOverlappingInvitesCoexist'
  BY <1>1, <1>2 DEF IInv, LinkIsUsedOnce, OnlyOverlappingInvitesCoexist, Claimable
<1>11. QED
  BY <1>3, <1>4, <1>5, <1>6, <1>7, <1>8, <1>9, <1>10 DEF IInv

-----------------------------------------------------------------------------
(* Turns of invitations, and failures.                                     *)

\* A turn between states outside the locked transactions.
LEMMA FreeTurnStep ==
  ASSUME IInv, NEW c \in Calls, NEW pc \in CallPcs, Turn(c, pc),
         calls[c].pc \notin {"lock", "target", "count", "write", "create", "issue", "done",
                         "failed"},
         calls[c].pc = "audit" => pc = "done",
         pc \in {"supersede", "audit", "retry", "expire", "claim", "ALREADY_ACCEPTED",
                 "done", "refused", "issue"},
         pc = "issue" => calls[c].user \in Users /\ members[calls[c].user] # None,
         pc = "supersede" => calls[c].pc = "invitee",
         AcceptCallOK(c)'
  PROVE  IInv'
<1> USE NullAssumption
<1>1. Goto(c, pc) /\ UNCHANGED <<members, sessions, invitations, lapsed, earlier, overtaken, lock>>
  BY DEF Turn
<1>2. lock # c /\ lock \in Calls \cup {None}
  BY DEF IInv, TypeOK, SeatCallOK
<1>3. SeatCallOK(c)'
  BY <1>1, <1>2, GotoFacts DEF SeatCallOK
<1>4. QED
  BY <1>1, <1>2, <1>3, TurnStep

LEMMA QuietSteps ==
  ASSUME IInv, NEW c \in Calls,
         \/ FindInvitee(c) \/ Audit(c) \/ Retry(c) \/ LoseClaim(c)
         \/ ClaimRevocation(c) /\ ~Claimable(calls[c].invitation)
  PROVE  IInv'
<1> USE DEF CallPcs, Ended
<1>1. CASE FindInvitee(c)
  <2>1. PICK pc \in {"refused", "supersede"} : Turn(c, pc) /\ calls[c].pc = "invitee"
    BY <1>1 DEF FindInvitee
  <2>2. AcceptCallOK(c)'
    BY <2>1, GotoFacts DEF AcceptCallOK, Turn
  <2>3. QED
    BY <2>1, <2>2, FreeTurnStep
<1>2. CASE Audit(c)
  <2>1. Turn(c, "done") /\ calls[c].pc = "audit"
    BY <1>2 DEF Audit
  <2>2. AcceptCallOK(c)'
    BY <2>1, GotoFacts DEF AcceptCallOK, Turn
  <2>3. QED
    BY <2>1, <2>2, FreeTurnStep
<1>3. CASE Retry(c) \/ LoseClaim(c)
  <2>1. PICK pc \in {"ALREADY_ACCEPTED", "refused"} :
          Turn(c, pc) /\ calls[c].pc \in {"retry", "claim"}
    BY <1>3 DEF Retry, LoseClaim
  <2>2. AcceptCallOK(c)'
    BY <2>1, GotoFacts DEF AcceptCallOK, Turn
  <2>3. QED
    BY <2>1, <2>2, FreeTurnStep
<1>4. CASE ClaimRevocation(c) /\ ~Claimable(calls[c].invitation)
  <2>1. Turn(c, "refused") /\ calls[c].pc = "revoke"
    BY <1>4 DEF ClaimRevocation
  <2>2. AcceptCallOK(c)'
    BY <2>1, GotoFacts DEF AcceptCallOK, Turn
  <2>3. QED
    BY <2>1, <2>2, FreeTurnStep
<1>5. QED
  BY <1>1, <1>2, <1>3, <1>4

LEMMA ReadStep == ASSUME IInv, NEW c \in Calls, ReadInvitation(c) PROVE IInv'
<1> USE DEF CallPcs, Ended
<1> DEFINE i == calls[c].invitation
<1>1. calls[c].pc = "read" /\ i \in Invitations /\ calls[c].user \in Users
  BY DEF ReadInvitation, IInv, AcceptCallOK
<1>2. PICK pc \in {"refused", "expire", "retry", "claim"} :
        /\ Turn(c, pc)
        /\ pc \in {"expire", "claim"} => invitations[i].email = calls[c].user
        /\ pc = "expire" => i \in lapsed
  BY <1>1 DEF ReadInvitation
<1>3. AcceptCallOK(c)'
  BY <1>1, <1>2, GotoFacts DEF IInv, AcceptCallOK, Turn
<1>4. QED
  BY <1>1, <1>2, <1>3, FreeTurnStep

LEMMA FindSeatStep == ASSUME IInv, NEW c \in Calls, FindSeat(c) PROVE IInv'
<1> USE DEF CallPcs, Ended
<1>1. calls[c].pc = "seat" /\ calls[c].user \in Users
  BY DEF FindSeat, IInv, RenewCallOK
<1>2. PICK pc \in {"refused", "issue"} :
        Turn(c, pc) /\ (pc = "issue" => members[calls[c].user] # None)
  BY DEF FindSeat
<1>3. AcceptCallOK(c)'
  BY <1>2, GotoFacts DEF AcceptCallOK, Turn
<1>4. QED
  BY <1>1, <1>2, <1>3, FreeTurnStep

\* A session is issued to a seat, or by a call that was overtaken.
LEMMA IssueStep == ASSUME IInv, NEW c \in Calls, IssueSession(c) PROVE IInv'
<1> USE NullAssumption
<1> DEFINE x == [calls[c] EXCEPT !.pc = "done"]
           u == calls[c].user
<1>1. /\ calls[c].pc = "issue" /\ calls' = [calls EXCEPT ![c] = x]
      /\ sessions' = sessions \cup {u} /\ u \in Users /\ lock # c
      /\ UNCHANGED <<members, invitations, lapsed, lock, earlier, overtaken>>
      /\ calls \in [Calls -> CallStates] /\ calls[c] \in CallStates
      /\ sessions \subseteq Users /\ lock \in Calls \cup {None} /\ overtaken \subseteq Calls
  BY DEF IssueSession, Goto, IInv, TypeOK, RenewCallOK, SeatCallOK
<1>2. x \in CallStates /\ x.pc = "done" /\ x.held = {} /\ x.user = u
  BY <1>1 DEF CallStates, CallPcs, Ended, IInv, InviteCallOK
<1> HIDE DEF x
<1>3. calls'[c] = x /\ \A d \in Calls : d # c => calls'[d] = calls[d]
  BY <1>1
<1>4. SeatCallOK(c)' /\ AcceptCallOK(c)'
  BY <1>1, <1>2, <1>3 DEF SeatCallOK, AcceptCallOK
<1>5. RemovedAreSignedOut'
  <2>1. members[u] # None \/ c \in overtaken
    BY <1>1 DEF IInv, RenewCallOK
  <2>2. QED
    BY <1>1, <1>2, <1>3, <2>1 DEF IInv, RemovedAreSignedOut
<1>6. ASSUME NEW d \in Calls PROVE RenewCallOK(d)'
  BY <1>1, <1>2, <1>3 DEF IInv, RenewCallOK
<1>7. sessions' \subseteq Users
  BY <1>1
<1>8. QED
  BY <1>1, <1>2, <1>4, <1>5, <1>6, <1>7, CallStep

LEMMA FailStep == ASSUME IInv, NEW c \in Calls, Fail(c) PROVE IInv'
<1> USE NullAssumption
<1> DEFINE x == [calls[c] EXCEPT !.pc = "failed", !.held = {}]
<1>1. calls \in [Calls -> CallStates] /\ calls[c] \in CallStates
      /\ lock \in Calls \cup {None} /\ calls[c].pc \notin {"done", "failed"}
  BY DEF IInv, TypeOK, Fail, Ended
<1>2. x \in CallStates /\ x.pc = "failed" /\ x.held = {}
  BY <1>1 DEF CallStates, CallPcs, Ended
<1>3. calls' = [calls EXCEPT ![c] = x]
      /\ UNCHANGED <<members, sessions, invitations, lapsed, earlier, overtaken>>
  BY DEF Fail
<1>4. /\ lock' \in Calls \cup {None} /\ lock' # c
      /\ \A d \in Calls \ {c} : lock' = d <=> lock = d
  BY <1>1 DEF Fail
<1> HIDE DEF x
<1>5. calls'[c] = x
  BY <1>1, <1>3
<1>6. SeatCallOK(c)' /\ AcceptCallOK(c)'
  BY <1>2, <1>4, <1>5 DEF SeatCallOK, AcceptCallOK
<1>7. QED
  BY <1>1, <1>2, <1>3, <1>4, <1>6, LocalStep

LEMMA LapseStep == ASSUME IInv, NEW i \in Invitations, Lapse(i) PROVE IInv'
<1>1. /\ UNCHANGED <<members, sessions, invitations, lock, calls, earlier, overtaken>>
      /\ lapsed' = lapsed \cup {i}
  BY DEF Lapse
<1>2. TypeOK' /\ OwnerRemains' /\ RemovedAreSignedOut' /\ \A d \in Calls : RenewCallOK(d)'
  BY <1>1 DEF IInv, TypeOK, OwnerRemains, RemovedAreSignedOut, RenewCallOK
<1>3. \A r \in Invitations : RowOK(r)'
  BY <1>1 DEF IInv, RowOK
<1>4. \A d \in Calls : SeatCallOK(d)' /\ InviteCallOK(d)'
  BY <1>1 DEF IInv, SeatCallOK, InviteCallOK, Permitted, Claimable
<1>5. \A d \in Calls : AcceptCallOK(d)'
  BY <1>1 DEF IInv, AcceptCallOK
<1>6. LinkIsUsedOnce' /\ OnlyOverlappingInvitesCoexist'
  BY <1>1 DEF IInv, LinkIsUsedOnce, OnlyOverlappingInvitesCoexist, Claimable
<1>7. QED
  BY <1>2, <1>3, <1>4, <1>5, <1>6 DEF IInv

-----------------------------------------------------------------------------
(* A pending row is decided: revoked, expired or accepted.                 *)

\* Row i is decided by call c, and no other row changes.
DecidedBy(c, i, to) ==
  /\ invitations[i].status = "PENDING" /\ Unlocked({i})
  /\ invitations' \in [Invitations -> Rows]
  /\ \A r \in Invitations : r # i => invitations'[r] = invitations[r]
  /\ invitations'[i].status = to
  /\ invitations'[i].email = invitations[i].email
  /\ invitations'[i].role = invitations[i].role
  /\ invitations'[i].maker = invitations[i].maker

\* What that preserves whatever else the step does to the caller and its seat.
LEMMA DecisionStep ==
  ASSUME IInv, NEW c \in Calls, NEW i \in Invitations, NEW to, NEW pc \in CallPcs,
         DecidedBy(c, i, to), to \in {"REVOKED", "EXPIRED", "ACCEPTED"}, Goto(c, pc),
         calls[c].pc \in {"revoke", "expire", "claim"}, calls[c].invitation = i,
         pc \in {"audit", "refused"} \/
           (to = "ACCEPTED" /\ calls[c].pc = "claim" /\ pc \in {"JOINED", "ALREADY_MEMBER"}),
         UNCHANGED <<lapsed, earlier, overtaken>>
  PROVE  /\ \A r \in Invitations : RowOK(r)'
         /\ \A d \in Calls : InviteCallOK(d)' /\ AcceptCallOK(d)'
         /\ LinkIsUsedOnce' /\ OnlyOverlappingInvitesCoexist'
<1>1. /\ calls'[c].pc = pc /\ calls'[c].held = calls[c].held /\ calls[c].held = {}
      /\ calls'[c].user = calls[c].user /\ calls'[c].invitation = i
      /\ \A d \in Calls : d # c => calls'[d] = calls[d]
  BY GotoFacts DEF IInv, InviteCallOK
<1>2. ASSUME NEW r \in Invitations PROVE RowOK(r)'
  BY <1>1 DEF IInv, RowOK, DecidedBy
<1>3. ASSUME NEW d \in Calls PROVE InviteCallOK(d)'
  <2>1. \A r \in Invitations : Claimable(r)' => Claimable(r)
    BY DEF DecidedBy, Claimable
  <2>2. \A r \in calls[d].held : r \in Invitations /\ r # i
    BY DEF DecidedBy, Unlocked, IInv, TypeOK, CallStates
  <2>3. \A r \in calls[d].held : Claimable(r)'
    BY <2>2 DEF DecidedBy, IInv, InviteCallOK, Claimable
  <2>4. \A r \in Invitations : invitations[r].status # "ABSENT"
          => invitations'[r].status # "ABSENT" /\ invitations'[r].email = invitations[r].email
    BY DEF DecidedBy
  <2>5. earlier[d] \subseteq Invitations
    BY DEF IInv, TypeOK
  <2>6. calls'[d].held = calls[d].held /\ \A e \in Calls : calls'[e].held = calls[e].held
    BY <1>1
  <2>7. CASE d = c
    BY <1>1, <2>1, <2>3, <2>4, <2>5, <2>6, <2>7 DEF IInv, InviteCallOK
  <2>8. CASE d # c
    BY <1>1, <2>1, <2>3, <2>4, <2>5, <2>6, <2>8 DEF IInv, InviteCallOK
  <2>9. QED
    BY <2>7, <2>8
<1>4. ASSUME NEW d \in Calls PROVE AcceptCallOK(d)'
  <2>1. \A r \in Invitations : invitations[r].status # "ABSENT"
          => invitations'[r].status # "ABSENT" /\ invitations'[r].email = invitations[r].email
    BY DEF DecidedBy
  <2>2. \A r \in Invitations : invitations[r].status = "ACCEPTED"
          => invitations'[r].status = "ACCEPTED"
    BY DEF DecidedBy
  <2>3. CASE d = c
    <3>1. calls[c].pc \in {"expire", "claim"} => calls[c].user \in Users
      BY DEF IInv, AcceptCallOK
    <3>2. QED
      BY <1>1, <2>1, <2>2, <2>3, <3>1 DEF IInv, AcceptCallOK, DecidedBy
  <2>4. CASE d # c
    BY <1>1, <2>1, <2>2, <2>4 DEF IInv, AcceptCallOK
  <2>5. QED
    BY <2>3, <2>4
<1>5. LinkIsUsedOnce'
  BY <1>1, <1>4 DEF IInv, LinkIsUsedOnce, DecidedBy, AcceptCallOK
<1>6. OnlyOverlappingInvitesCoexist'
  <2>1. \A r \in Invitations : Claimable(r)' =>
          /\ Claimable(r) /\ invitations'[r].email = invitations[r].email
          /\ invitations'[r].maker = invitations[r].maker
    BY DEF DecidedBy, Claimable
  <2>2. QED
    BY <2>1 DEF IInv, OnlyOverlappingInvitesCoexist
<1>7. QED
  BY <1>2, <1>3, <1>4, <1>5, <1>6

\* Deciding a row leaves what the locked transactions judged.
LEMMA SeatsKept ==
  ASSUME IInv, NEW c \in Calls, NEW pc \in CallPcs, Goto(c, pc),
         calls[c].pc \in {"revoke", "expire", "claim", "supersede", "create"},
         pc \in {"audit", "refused", "JOINED", "ALREADY_MEMBER", "create"}, lock' = lock,
         NEW u \in Users, NEW role \in Roles,
         members' = [members EXCEPT ![u] = SeatAfterInsert(u, role)],
         UNCHANGED <<sessions, overtaken>>
  PROVE  /\ members' \in [Users -> Roles \cup {None}]
         /\ OwnerRemains' /\ RemovedAreSignedOut' /\ \A d \in Calls : RenewCallOK(d)'
         /\ \A d \in Calls : SeatCallOK(d)'
<1> USE NullAssumption
<1>1. \A v \in Users : members[v] # None => members'[v] = members[v]
  BY DEF IInv, TypeOK, SeatAfterInsert
<1>2. members' \in [Users -> Roles \cup {None}]
  BY DEF IInv, TypeOK, SeatAfterInsert
<1>3. calls'[c].pc = pc /\ \A d \in Calls : d # c => calls'[d] = calls[d]
  BY GotoFacts
<1>4. OwnerRemains' /\ RemovedAreSignedOut' /\ \A d \in Calls : RenewCallOK(d)'
  <2>1. OwnerRemains'
    BY <1>1, Ranks DEF IInv, OwnerRemains
  <2>2. RemovedAreSignedOut' /\ \A d \in Calls : RenewCallOK(d)'
    BY <1>1, <1>3, SessionsStay
  <2>3. QED
    BY <2>1, <2>2
<1>5. ASSUME NEW d \in Calls PROVE SeatCallOK(d)'
  <2>1. CASE d = c
    BY <1>3, <2>1 DEF IInv, SeatCallOK
  <2>2. CASE d # c
    <3>1. calls[d].pc \in {"count", "write"} =>
            members'[calls[d].target] = members[calls[d].target]
      BY <1>1 DEF IInv, SeatCallOK
    <3>2. calls[d].pc \in {"count", "write"} =>
            Permitted(d, members[calls[d].target]) = Permitted(d, members[calls[d].target])'
      BY <1>3, <2>2, <3>1 DEF Permitted
    <3>3. \A v \in Users : members[v] = "ORG_OWNER" => members'[v] = "ORG_OWNER"
      BY <1>1, Ranks DEF IInv, TypeOK
    <3>4. QED
      BY <1>3, <2>2, <3>1, <3>2, <3>3 DEF IInv, SeatCallOK
  <2>3. QED
    BY <2>1, <2>2
<1>6. QED
  BY <1>2, <1>4, <1>5

\* The three decisions.
LEMMA Decisions ==
  ASSUME IInv, NEW c \in Calls,
         \/ ClaimRevocation(c) /\ Claimable(calls[c].invitation)
         \/ MarkExpired(c) /\ Claimable(calls[c].invitation)
         \/ WinClaim(c)
  PROVE  \E to \in {"REVOKED", "EXPIRED", "ACCEPTED"}, pc \in CallPcs :
           /\ calls[c].invitation \in Invitations
           /\ DecidedBy(c, calls[c].invitation, to) /\ Goto(c, pc)
           /\ calls[c].pc \in {"revoke", "expire", "claim"}
           /\ \/ pc \in {"audit", "refused"}
              \/ to = "ACCEPTED" /\ calls[c].pc = "claim" /\ pc \in {"JOINED", "ALREADY_MEMBER"}
           /\ UNCHANGED <<lapsed, earlier, overtaken, sessions, lock>>
           /\ \E u \in Users, role \in Roles :
                members' = [members EXCEPT ![u] = SeatAfterInsert(u, role)]
<1> USE DEF CallPcs, Ended
<1> DEFINE i == calls[c].invitation
<1>1. /\ members \in [Users -> Roles \cup {None}] /\ invitations \in [Invitations -> Rows]
      /\ calls[c] \in CallStates
  BY DEF IInv, TypeOK
<1>2. i \in Invitations /\ (calls[c].pc \in {"expire", "claim"} => calls[c].user \in Users)
  BY DEF IInv, AcceptCallOK, ClaimRevocation, MarkExpired, WinClaim
<1>3. invitations[i] \in Rows /\ invitations[i].status = "PENDING"
      /\ invitations[i].role \in Roles
  BY <1>1, <1>2, Ranks DEF Claimable, IInv, RowOK, WinClaim
<1>4. ASSUME members' = members
      PROVE  \E u \in Users, role \in Roles :
                members' = [members EXCEPT ![u] = SeatAfterInsert(u, role)]
  <2>1. PICK u \in Users : members[u] = "ORG_OWNER"
    BY DEF IInv, OwnerRemains
  <2>2. members' = [members EXCEPT ![u] = SeatAfterInsert(u, "ORG_OWNER")]
    BY <1>1, <1>4, <2>1 DEF SeatAfterInsert
  <2>3. QED
    BY <2>1, <2>2, Ranks
<1>5. CASE ClaimRevocation(c) /\ Claimable(i)
  <2>1. DecidedBy(c, i, "REVOKED")
    BY <1>1, <1>2, <1>3, <1>5 DEF ClaimRevocation, PutInvitation, DecidedBy, Rows
  <2>2. QED
    BY <1>2, <1>4, <1>5, <2>1 DEF ClaimRevocation
<1>6. CASE MarkExpired(c) /\ Claimable(i)
  <2>1. DecidedBy(c, i, "EXPIRED")
    BY <1>1, <1>2, <1>3, <1>6 DEF MarkExpired, DecidedBy, Rows
  <2>2. QED
    BY <1>2, <1>4, <1>6, <2>1 DEF MarkExpired
<1>7. CASE WinClaim(c)
  <2>1. DecidedBy(c, i, "ACCEPTED")
    BY <1>1, <1>2, <1>3, <1>7 DEF WinClaim, PutInvitation, Accepted, DecidedBy, Rows
  <2>2. members' = [members EXCEPT ![calls[c].user] =
                      SeatAfterInsert(calls[c].user, invitations[i].role)]
    BY <1>7 DEF WinClaim
  <2>3. PICK pc \in {"JOINED", "ALREADY_MEMBER"} : Goto(c, pc)
    BY <1>7 DEF WinClaim
  <2>4. QED
    BY <1>2, <1>3, <1>7, <2>1, <2>2, <2>3 DEF WinClaim
<1>8. QED
  BY <1>5, <1>6, <1>7

LEMMA DecideStep ==
  ASSUME IInv, NEW c \in Calls,
         \/ ClaimRevocation(c) /\ Claimable(calls[c].invitation)
         \/ MarkExpired(c) /\ Claimable(calls[c].invitation)
         \/ WinClaim(c)
  PROVE  IInv'
<1> DEFINE i == calls[c].invitation
<1>1. PICK to \in {"REVOKED", "EXPIRED", "ACCEPTED"}, pc \in CallPcs :
           /\ i \in Invitations
           /\ DecidedBy(c, i, to) /\ Goto(c, pc)
           /\ calls[c].pc \in {"revoke", "expire", "claim"}
           /\ \/ pc \in {"audit", "refused"}
              \/ to = "ACCEPTED" /\ calls[c].pc = "claim" /\ pc \in {"JOINED", "ALREADY_MEMBER"}
           /\ UNCHANGED <<lapsed, earlier, overtaken, sessions, lock>>
           /\ \E u \in Users, role \in Roles :
                members' = [members EXCEPT ![u] = SeatAfterInsert(u, role)]
  BY Decisions
<1>2. PICK u \in Users, role \in Roles :
        members' = [members EXCEPT ![u] = SeatAfterInsert(u, role)]
  BY <1>1
<1>3. /\ members' \in [Users -> Roles \cup {None}] /\ OwnerRemains' /\ RemovedAreSignedOut'
      /\ \A d \in Calls : SeatCallOK(d)' /\ RenewCallOK(d)'
  BY <1>1, <1>2, SeatsKept
<1>4. /\ \A r \in Invitations : RowOK(r)'
      /\ \A d \in Calls : InviteCallOK(d)' /\ AcceptCallOK(d)'
      /\ LinkIsUsedOnce' /\ OnlyOverlappingInvitesCoexist'
  BY <1>1, DecisionStep
<1>5. TypeOK'
  BY <1>1, <1>3, GotoFacts DEF IInv, TypeOK, DecidedBy
<1>6. QED
  BY <1>3, <1>4, <1>5 DEF IInv

\* An expired link that somebody else decided first.
LEMMA LateExpiryStep ==
  ASSUME IInv, NEW c \in Calls, MarkExpired(c), ~Claimable(calls[c].invitation)
  PROVE  IInv'
<1>1. Turn(c, "refused") /\ calls[c].pc = "expire"
  BY DEF MarkExpired, Turn
<1>2. AcceptCallOK(c)'
  BY <1>1, GotoFacts DEF AcceptCallOK, Turn, CallPcs, Ended
<1>3. QED
  BY <1>1, <1>2, FreeTurnStep DEF CallPcs, Ended

-----------------------------------------------------------------------------
(* invite: the update of what it can see, then the row and the commit.     *)

LEMMA SupersedeStep == ASSUME IInv, NEW c \in Calls, Supersede(c) PROVE IInv'
<1> USE NullAssumption
<1> DEFINE old == PendingFor(calls[c].target)
           x == [calls[c] EXCEPT !.pc = "create", !.held = old]
<1>1. /\ calls[c].pc = "supersede" /\ Unlocked(old) /\ calls' = [calls EXCEPT ![c] = x]
      /\ earlier' = [earlier EXCEPT ![c] =
                       {i \in Invitations : invitations[i].status # "ABSENT"}]
      /\ UNCHANGED <<members, sessions, invitations, lapsed, lock, overtaken>>
      /\ calls \in [Calls -> CallStates] /\ calls[c] \in CallStates
      /\ earlier \in [Calls -> SUBSET Invitations]
  BY DEF Supersede, Superseded, IInv, TypeOK
<1>2. /\ x \in CallStates /\ x.pc = "create" /\ x.held = old
      /\ x.target = calls[c].target /\ x.newRole = calls[c].newRole
  BY <1>1 DEF CallStates, CallPcs, PendingFor
<1>3. \A i \in old : i \in Invitations /\ Claimable(i)
  BY DEF PendingFor, Claimable
<1>4. \A i \in Invitations :
        Claimable(i) /\ invitations[i].email = calls[c].target => i \in old
  BY DEF PendingFor, Claimable
<1>5. \A d \in Calls : calls[d].held \cap old = {}
  BY <1>1 DEF Unlocked
<1> HIDE DEF x, old
<1>6. /\ calls'[c] = x /\ \A d \in Calls : d # c => calls'[d] = calls[d]
      /\ calls' \in [Calls -> CallStates] /\ earlier' \in [Calls -> SUBSET Invitations]
      /\ earlier'[c] = {i \in Invitations : invitations[i].status # "ABSENT"}
      /\ \A d \in Calls : d # c => earlier'[d] = earlier[d]
  BY <1>1, <1>2
<1>7. TypeOK' /\ OwnerRemains' /\ RemovedAreSignedOut' /\ \A d \in Calls : RenewCallOK(d)'
  <2>1. TypeOK' /\ OwnerRemains'
    BY <1>1, <1>6 DEF IInv, TypeOK, OwnerRemains
  <2>2. RemovedAreSignedOut' /\ \A d \in Calls : RenewCallOK(d)'
    BY <1>1, <1>2, <1>6, SessionsStay
  <2>3. QED
    BY <2>1, <2>2
<1>8. ASSUME NEW i \in Invitations PROVE RowOK(i)' /\ invitations[i].maker # c
  BY <1>1, <1>2, <1>6 DEF IInv, RowOK
<1>9. ASSUME NEW d \in Calls PROVE SeatCallOK(d)'
  <2>1. CASE d = c
    BY <1>1, <1>2, <1>6, <2>1 DEF IInv, SeatCallOK
  <2>2. CASE d # c
    BY <1>1, <1>6, <2>2 DEF IInv, SeatCallOK, Permitted
  <2>3. QED
    BY <2>1, <2>2
<1>10. ASSUME NEW d \in Calls PROVE InviteCallOK(d)'
  <2>1. CASE d = c
    <3>1. x.target \in Users /\ x.newRole \in Asked
      BY <1>1, <1>2 DEF IInv, InviteCallOK
    <3>2. QED
      BY <1>1, <1>2, <1>3, <1>4, <1>5, <1>6, <2>1, <3>1 DEF InviteCallOK, Claimable
  <2>2. CASE d # c
    <3>1. \A e \in Calls : d = e \/ calls'[d].held \cap calls'[e].held = {}
      <4>1. TAKE e \in Calls
      <4>2. CASE e = c
        BY <1>2, <1>5, <1>6, <2>2, <4>2
      <4>3. CASE e # c
        BY <1>6, <2>2, <4>3 DEF IInv, InviteCallOK
      <4>4. QED
        BY <4>2, <4>3
    <3>2. QED
      BY <1>1, <1>6, <2>2, <3>1 DEF IInv, InviteCallOK, Claimable
  <2>3. QED
    BY <2>1, <2>2
<1>11. ASSUME NEW d \in Calls PROVE AcceptCallOK(d)'
  <2>1. CASE d = c
    BY <1>2, <1>6, <2>1 DEF AcceptCallOK
  <2>2. CASE d # c
    BY <1>1, <1>6, <2>2 DEF IInv, AcceptCallOK
  <2>3. QED
    BY <2>1, <2>2
<1>12. LinkIsUsedOnce'
  BY <1>1, <1>2, <1>6 DEF IInv, LinkIsUsedOnce
<1>13. OnlyOverlappingInvitesCoexist'
  <2>1. SUFFICES ASSUME NEW i \in Invitations, NEW j \in Invitations, i # j,
                        Claimable(i), Claimable(j),
                        invitations[i].email = invitations[j].email,
                        NEW p \in {<<i, j>>, <<j, i>>}, invitations[p[2]].maker # None
                 PROVE  p[1] \notin earlier'[invitations[p[2]].maker]
    BY <1>1 DEF OnlyOverlappingInvitesCoexist, Claimable
  <2>2. p[2] \in Invitations /\ invitations[p[2]].maker \in Calls
    BY <2>1 DEF IInv, TypeOK, Rows
  <2>3. earlier'[invitations[p[2]].maker] = earlier[invitations[p[2]].maker]
    BY <1>6, <1>8, <2>2
  <2>4. QED
    BY <2>1, <2>3 DEF IInv, OnlyOverlappingInvitesCoexist
<1>14. QED
  BY <1>7, <1>8, <1>9, <1>10, <1>11, <1>12, <1>13 DEF IInv

LEMMA CreateStep ==
  ASSUME IInv, NEW c \in Calls, NEW new \in Invitations, CreateInvitation(c, new)
  PROVE  IInv'
<1> USE NullAssumption
<1> DEFINE x == [calls[c] EXCEPT !.pc = "audit", !.held = {}]
           held == calls[c].held
           row == PendingRow(calls[c].target, calls[c].newRole, c)
<1>1. /\ calls[c].pc = "create" /\ calls' = [calls EXCEPT ![c] = x]
      /\ invitations[new].status = "ABSENT"
      /\ UNCHANGED <<members, sessions, lapsed, lock, earlier, overtaken>>
      /\ calls \in [Calls -> CallStates] /\ calls[c] \in CallStates
      /\ invitations \in [Invitations -> Rows] /\ earlier \in [Calls -> SUBSET Invitations]
      /\ calls[c].target \in Users /\ calls[c].newRole \in Asked
  BY DEF CreateInvitation, IInv, TypeOK, InviteCallOK
<1>2. /\ x \in CallStates /\ x.pc = "audit" /\ x.held = {}
  BY <1>1 DEF CallStates, CallPcs
<1>3. /\ row \in Rows /\ row.status = "PENDING" /\ row.maker = c
      /\ row.email = calls[c].target /\ row.role = calls[c].newRole
  BY <1>1, Ranks DEF PendingRow, Rows
<1>4. /\ invitations'[new] = row
      /\ \A i \in Invitations \ {new} : i \notin held => invitations'[i] = invitations[i]
      /\ \A i \in held \ {new} :
           invitations'[i] = [invitations[i] EXCEPT !.status = "REVOKED"]
  BY <1>1 DEF CreateInvitation, CallStates
<1>5. held \subseteq Invitations /\ new \notin held /\ \A i \in held : Claimable(i)
  BY <1>1 DEF IInv, InviteCallOK, CallStates, Claimable
<1> HIDE DEF x, row, held
<1>6. \A i \in held : /\ invitations'[i] \in Rows /\ invitations'[i].status = "REVOKED"
                      /\ invitations'[i].email = invitations[i].email
                      /\ invitations'[i].role = invitations[i].role
                      /\ invitations'[i].maker = invitations[i].maker
  <2>1. TAKE i \in held
  <2>2. invitations[i] \in Rows /\ invitations'[i] = [invitations[i] EXCEPT !.status = "REVOKED"]
    BY <1>1, <1>4, <1>5
  <2>3. QED
    BY <2>2 DEF Rows
<1>7. /\ calls'[c] = x /\ \A d \in Calls : d # c => calls'[d] = calls[d]
      /\ calls' \in [Calls -> CallStates]
  BY <1>1, <1>2
<1>8. invitations' \in [Invitations -> Rows]
  <2>1. \A i \in Invitations : invitations'[i] \in Rows
    BY <1>1, <1>3, <1>4, <1>6
  <2>2. QED
    BY <1>1, <2>1 DEF CreateInvitation
<1>9. TypeOK' /\ OwnerRemains' /\ RemovedAreSignedOut' /\ \A d \in Calls : RenewCallOK(d)'
  <2>1. TypeOK' /\ OwnerRemains'
    BY <1>1, <1>7, <1>8 DEF IInv, TypeOK, OwnerRemains
  <2>2. RemovedAreSignedOut' /\ \A d \in Calls : RenewCallOK(d)'
    BY <1>1, <1>2, <1>7, SessionsStay
  <2>3. QED
    BY <2>1, <2>2
<1>10. \A i \in Invitations \ {new} :
         /\ invitations'[i].email = invitations[i].email
         /\ invitations'[i].role = invitations[i].role
         /\ invitations'[i].maker = invitations[i].maker
         /\ invitations[i].status = "ABSENT" <=> invitations'[i].status = "ABSENT"
         /\ invitations[i].status = "ACCEPTED" => invitations'[i].status = "ACCEPTED"
         /\ Claimable(i)' <=> Claimable(i) /\ i \notin held
  BY <1>4, <1>5, <1>6 DEF Claimable
<1>11. \A d \in Calls : new \notin earlier[d]
  BY <1>1 DEF IInv, InviteCallOK
<1>12. ASSUME NEW i \in Invitations PROVE RowOK(i)'
  <2>1. CASE i = new
    BY <1>1, <1>2, <1>3, <1>4, <1>7, <2>1 DEF RowOK
  <2>2. CASE i # new
    BY <1>1, <1>2, <1>7, <1>10, <2>2 DEF IInv, RowOK
  <2>3. QED
    BY <2>1, <2>2
<1>13. ASSUME NEW d \in Calls PROVE SeatCallOK(d)'
  <2>1. CASE d = c
    BY <1>1, <1>2, <1>7, <2>1 DEF IInv, SeatCallOK
  <2>2. CASE d # c
    BY <1>1, <1>7, <2>2 DEF IInv, SeatCallOK, Permitted
  <2>3. QED
    BY <2>1, <2>2
<1>14. ASSUME NEW d \in Calls PROVE InviteCallOK(d)'
  <2>1. \A i \in earlier[d] : i \in Invitations \ {new} /\ invitations'[i].status # "ABSENT"
    BY <1>1, <1>10, <1>11 DEF IInv, InviteCallOK
  <2>2. CASE d = c
    BY <1>1, <1>2, <1>7, <2>1, <2>2 DEF InviteCallOK
  <2>3. CASE d # c
    <3>1. calls[d].held \cap held = {} /\ calls[d].held \subseteq Invitations
      BY <1>1, <2>3 DEF IInv, InviteCallOK, held, CallStates
    <3>2. \A i \in calls[d].held : Claimable(i) /\ i # new
      BY <1>1 DEF IInv, InviteCallOK, Claimable
    <3>3. \A i \in calls[d].held : Claimable(i)'
      BY <1>10, <3>1, <3>2
    <3>4. \A e \in Calls : d = e \/ calls'[d].held \cap calls'[e].held = {}
      BY <1>2, <1>7, <2>3 DEF IInv, InviteCallOK
    <3>5. calls[d].pc = "create" =>
            \A i \in earlier[d] :
              Claimable(i)' /\ invitations'[i].email = calls[d].target => i \in calls[d].held
      BY <1>10, <2>1 DEF IInv, InviteCallOK
    <3>6. QED
      BY <1>1, <1>7, <2>1, <2>3, <3>3, <3>4, <3>5 DEF IInv, InviteCallOK
  <2>4. QED
    BY <2>2, <2>3
<1>15. ASSUME NEW d \in Calls PROVE AcceptCallOK(d)'
  <2>1. CASE d = c
    BY <1>2, <1>7, <2>1 DEF AcceptCallOK
  <2>2. CASE d # c
    BY <1>1, <1>7, <1>10, <2>2 DEF IInv, AcceptCallOK
  <2>3. QED
    BY <2>1, <2>2
<1>16. LinkIsUsedOnce'
  BY <1>1, <1>2, <1>7, <1>10 DEF IInv, LinkIsUsedOnce, AcceptCallOK
<1>17. OnlyOverlappingInvitesCoexist'
  <2>1. SUFFICES ASSUME NEW i \in Invitations, NEW j \in Invitations, i # j,
                        Claimable(i)', Claimable(j)',
                        invitations'[i].email = invitations'[j].email,
                        invitations'[j].maker # None
                 PROVE  i \notin earlier[invitations'[j].maker]
    BY <1>1 DEF OnlyOverlappingInvitesCoexist
  <2>2. invitations'[j].maker \in Calls
    BY <1>8, <2>1 DEF Rows
  <2>3. CASE i = new
    BY <1>11, <2>2, <2>3
  <2>4. CASE j = new
    <3>1. Claimable(i) /\ i \notin held /\ invitations[i].email = calls[c].target
      BY <1>3, <1>4, <1>10, <2>1, <2>4
    <3>2. i \notin earlier[c]
      BY <1>1, <3>1 DEF IInv, InviteCallOK, held
    <3>3. QED
      BY <1>3, <1>4, <2>4, <3>2
  <2>5. CASE i # new /\ j # new
    <3>1. /\ Claimable(i) /\ Claimable(j) /\ invitations[i].email = invitations[j].email
          /\ invitations'[j].maker = invitations[j].maker
      BY <1>10, <2>1, <2>5
    <3>2. <<i, j>>[1] = i /\ <<i, j>>[2] = j
      OBVIOUS
    <3>3. QED
      BY <2>1, <3>1, <3>2 DEF IInv, OnlyOverlappingInvitesCoexist
  <2>6. QED
    BY <2>3, <2>4, <2>5
<1>18. QED
  BY <1>9, <1>12, <1>13, <1>14, <1>15, <1>16, <1>17 DEF IInv

-----------------------------------------------------------------------------
(* The invariant is inductive.                                             *)

LEMMA InitInvariant == Init => IInv
<1> SUFFICES ASSUME Init PROVE IInv
  OBVIOUS
<1> USE NullAssumption
<1>1. Idle \in CallStates /\ Idle.pc = "idle" /\ Idle.held = {}
  BY DEF Idle, NewCall, CallStates, CallPcs
<1>2. \A c \in Calls : calls[c] = Idle
  BY DEF Init
<1> DEFINE Fresh(row) ==
             /\ row \in Rows /\ row.maker = None /\ row.status \in {"ABSENT", "PENDING"}
             /\ row.status # "ABSENT" => row.email \in Users /\ row.role \in Asked
<1>3. ASSUME NEW i \in Invitations PROVE Fresh(invitations[i])
  <2>1. CASE invitations[i] = Absent
    BY <2>1 DEF Absent, PendingRow, Rows
  <2>2. ASSUME NEW u \in Users, NEW r \in Asked, invitations[i] = PendingRow(u, r, None)
        PROVE  Fresh(invitations[i])
    BY <2>2, Ranks DEF PendingRow, Rows
  <2>3. QED
    BY <2>1, <2>2 DEF Init
<1>4. TypeOK
  <2>1. members \in [Users -> Roles \cup {None}] /\ sessions \subseteq Users
    BY RoleAssumption DEF Init
  <2>2. calls \in [Calls -> CallStates] /\ earlier \in [Calls -> SUBSET Invitations]
    BY <1>1 DEF Init
  <2>3. invitations \in [Invitations -> Rows]
    BY <1>3 DEF Init
  <2>4. QED
    BY <2>1, <2>2, <2>3 DEF Init, TypeOK
<1>5. OwnerRemains /\ RemovedAreSignedOut /\ \A c \in Calls : RenewCallOK(c)
  BY <1>1, <1>2 DEF Init, OwnerRemains, RemovedAreSignedOut, RenewCallOK
<1>6. \A i \in Invitations : RowOK(i)
  BY <1>3 DEF RowOK
<1>7. ASSUME NEW c \in Calls PROVE SeatCallOK(c) /\ InviteCallOK(c) /\ AcceptCallOK(c)
  <2>1. SeatCallOK(c)
    BY <1>1, <1>2 DEF Init, SeatCallOK
  <2>2. InviteCallOK(c)
    BY <1>1, <1>2 DEF Init, InviteCallOK
  <2>3. AcceptCallOK(c)
    BY <1>1, <1>2 DEF AcceptCallOK
  <2>4. QED
    BY <2>1, <2>2, <2>3
<1>8. LinkIsUsedOnce
  BY <1>1, <1>2 DEF LinkIsUsedOnce
<1>9. OnlyOverlappingInvitesCoexist
  BY <1>3 DEF OnlyOverlappingInvitesCoexist
<1>10. QED
  BY <1>4, <1>5, <1>6, <1>7, <1>8, <1>9 DEF IInv

LEMMA NextInvariant == IInv /\ [Next]_vars => IInv'
<1> SUFFICES ASSUME IInv, [Next]_vars PROVE IInv'
  OBVIOUS
<1>1. ASSUME NEW c \in Calls, Proceed(c) PROVE IInv'
  <2>1. CASE LockWorkspace(c) \/ FindTarget(c) \/ AssertNotLastOwner(c) \/ CommitSeat(c)
    BY <2>1, LockStep, FindTargetStep, CountStep, CommitStep
  <2>2. CASE FindInvitee(c) \/ Audit(c) \/ Retry(c) \/ LoseClaim(c)
    BY <2>2, QuietSteps
  <2>3. CASE Supersede(c) \/ ReadInvitation(c)
    BY <2>3, SupersedeStep, ReadStep
  <2>4. CASE ClaimRevocation(c)
    BY <2>4, QuietSteps, DecideStep
  <2>5. CASE MarkExpired(c)
    BY <2>5, DecideStep, LateExpiryStep
  <2>6. CASE WinClaim(c)
    BY <2>6, DecideStep
  <2>7. CASE \E i \in Invitations : CreateInvitation(c, i)
    BY <2>7, CreateStep
  <2>8. CASE FindSeat(c) \/ IssueSession(c)
    BY <2>8, FindSeatStep, IssueStep
  <2>9. QED
    BY <1>1, <2>1, <2>2, <2>3, <2>4, <2>5, <2>6, <2>7, <2>8 DEF Proceed
<1>2. CASE UNCHANGED vars
  <2>1. UNCHANGED <<members, sessions, invitations, lapsed, lock, calls, earlier, overtaken>>
    BY <1>2 DEF vars
  <2>2. TypeOK' /\ OwnerRemains' /\ RemovedAreSignedOut' /\ \A c \in Calls : RenewCallOK(c)'
    BY <2>1 DEF IInv, TypeOK, OwnerRemains, RemovedAreSignedOut, RenewCallOK
  <2>3. \A i \in Invitations : RowOK(i)'
    BY <2>1 DEF IInv, RowOK
  <2>4. \A c \in Calls : SeatCallOK(c)' /\ InviteCallOK(c)'
    BY <2>1 DEF IInv, SeatCallOK, InviteCallOK, Permitted, Claimable
  <2>5. \A c \in Calls : AcceptCallOK(c)'
    BY <2>1 DEF IInv, AcceptCallOK
  <2>6. LinkIsUsedOnce' /\ OnlyOverlappingInvitesCoexist'
    BY <2>1 DEF IInv, LinkIsUsedOnce, OnlyOverlappingInvitesCoexist, Claimable
  <2>7. QED
    BY <2>2, <2>3, <2>4, <2>5, <2>6 DEF IInv
<1>3. QED
  BY <1>1, <1>2, RequestStep, FailStep, LapseStep DEF Next

\* The invariant that carries every result below: the holder of the workspace
\* lock has judged the seat as it is, and row locks protect what is superseded.
THEOREM Inductive == Spec => []IInv
<1>1. Init => IInv
  BY InitInvariant
<1>2. IInv /\ [Next]_vars => IInv'
  BY NextInvariant
<1>3. QED
  BY <1>1, <1>2, PTL DEF Spec

\* Every variable keeps its type.
THEOREM TypeCorrect == Spec => []TypeOK
<1>1. IInv => TypeOK
  BY DEF IInv
<1>2. QED
  BY <1>1, Inductive, PTL

\* No race of removals and role changes leaves the workspace without an owner.
THEOREM OwnerAlwaysRemains == Spec => []OwnerRemains
<1>1. IInv => OwnerRemains
  BY DEF IInv
<1>2. QED
  BY <1>1, Inductive, PTL

\* A removal signs out, whatever calls race it, save for a session issued on the
\* strength of a seat that was read before.
THEOREM RemovalSignsOut == Spec => []RemovedAreSignedOut
<1>1. IInv => RemovedAreSignedOut
  BY DEF IInv
<1>2. QED
  BY <1>1, Inductive, PTL

\* One link lets in one request, however many race over it.
THEOREM LinksAreUsedOnce == Spec => []LinkIsUsedOnce
<1>1. IInv => LinkIsUsedOnce
  BY DEF IInv
<1>2. QED
  BY <1>1, Inductive, PTL

\* A newer invitation leaves alive only what it could not see.
THEOREM InvitationsSupersede == Spec => []OnlyOverlappingInvitesCoexist
<1>1. IInv => OnlyOverlappingInvitesCoexist
  BY DEF IInv
<1>2. QED
  BY <1>1, Inductive, PTL

-----------------------------------------------------------------------------
(* Steps: decisions are final, and seats change as the roster says.        *)

\* A decided row is out of reach of every action.
THEOREM DecisionsStayFinal == Spec => DecisionsAreFinal
<1>1. ASSUME IInv, [Next]_vars, NEW i \in Invitations, Decided(i)
      PROVE  invitations'[i] = invitations[i]
  <2>1. CASE UNCHANGED vars
    BY <2>1 DEF vars
  <2>2. CASE \E r \in Invitations : Lapse(r)
    BY <2>2 DEF Lapse
  <2>3. ASSUME NEW c \in Calls, Request(c) PROVE invitations' = invitations
    BY <2>3 DEF Request, Renew, ChangeRole, Invite, RemoveMember, RevokeInvitation,
                AcceptInvitation, BeginAsAdmin, Begin
  <2>4. ASSUME NEW c \in Calls, Fail(c) PROVE invitations' = invitations
    BY <2>4 DEF Fail
  <2>5. ASSUME NEW c \in Calls, Proceed(c) PROVE invitations'[i] = invitations[i]
    <3>1. CASE LockWorkspace(c) \/ FindTarget(c) \/ AssertNotLastOwner(c) \/ CommitSeat(c)
      BY <3>1 DEF LockWorkspace, FindTarget, AssertNotLastOwner, CommitSeat, Turn, Refuse
    <3>2. CASE FindInvitee(c) \/ Supersede(c) \/ Audit(c) \/ ReadInvitation(c)
                 \/ Retry(c) \/ LoseClaim(c)
      BY <3>2 DEF FindInvitee, Supersede, Audit, ReadInvitation, Retry, LoseClaim, Turn
    <3>3. CASE (ClaimRevocation(c) \/ MarkExpired(c)) /\ ~Claimable(calls[c].invitation)
      BY <3>3 DEF ClaimRevocation, MarkExpired, Turn
    <3>4. CASE \/ ClaimRevocation(c) /\ Claimable(calls[c].invitation)
               \/ MarkExpired(c) /\ Claimable(calls[c].invitation)
               \/ WinClaim(c)
      BY <1>1, <3>4, Decisions DEF DecidedBy, Decided
    <3>5. ASSUME NEW new \in Invitations, CreateInvitation(c, new)
          PROVE  invitations'[i] = invitations[i]
      <4>1. i # new /\ i \notin calls[c].held
        BY <1>1, <3>5 DEF CreateInvitation, Decided, IInv, InviteCallOK, Claimable
      <4>2. QED
        BY <3>5, <4>1 DEF CreateInvitation
    <3>6. CASE FindSeat(c) \/ IssueSession(c)
      BY <3>6 DEF FindSeat, IssueSession, Turn
    <3>7. QED
      BY <2>5, <3>1, <3>2, <3>3, <3>4, <3>5, <3>6 DEF Proceed
  <2>6. QED
    BY <1>1, <2>1, <2>2, <2>3, <2>4, <2>5 DEF Next
<1>2. IInv /\ [Next]_vars
        => [\A i \in Invitations : Decided(i) => invitations'[i] = invitations[i]]_vars
  BY <1>1
<1>3. QED
  BY <1>2, Inductive, PTL DEF Spec, DecisionsAreFinal

\* The roster speaks of the same ranks.
LEMMA SameRanks ==
  /\ Roster!Roles = Roles /\ Roster!GrantableRoles = GrantableRoles
  /\ Roster!AdminRoles = AdminRoles
  /\ \A a, r : /\ Roster!CanGrant(a, r) <=> CanGrant(a, r)
               /\ Roster!CanManage(a, r) <=> CanManage(a, r)
               /\ Roster!CanRemove(a, r) <=> CanRemove(a, r)
BY DEF Roster!Roles, Roles, Roster!RankOf, RankOf, Roster!GrantableRoles, GrantableRoles,
       Roster!AdminRoles, AdminRoles, Roster!CanGrant, CanGrant, Roster!CanManage,
       CanManage, Roster!CanRemove, CanRemove

\* A commit is a change or a removal of the roster, by the caller's rank.
LEMMA CommitRefines ==
  ASSUME IInv, OwnerRemains', NEW c \in Calls, CommitSeat(c) PROVE Roster!Next
<1> USE NullAssumption
<1> DEFINE u == calls[c].target
           role == calls[c].newRole
<1>1. /\ u \in Users /\ members[u] # None /\ Permitted(c, members[u])
      /\ calls[c].authority \in AdminRoles
      /\ role # None => role \in GrantableRoles /\ CanGrant(calls[c].authority, role)
      /\ members' = [members EXCEPT ![u] = role]
  BY RoleAssumption DEF CommitSeat, IInv, SeatCallOK
<1>2. Roster!Owned(members')
  BY DEF OwnerRemains, Roster!Owned
<1>3. calls[c].authority \in Asking[u]
  BY <1>1 DEF CommitSeat, Asking, Ended
<1>4. CASE role = None
  BY <1>1, <1>2, <1>3, <1>4, SameRanks DEF Permitted, Roster!Remove, Roster!Next
<1>5. CASE role # None
  BY <1>1, <1>2, <1>3, <1>5, SameRanks DEF Permitted, Roster!Change, Roster!Next
<1>6. QED
  BY <1>4, <1>5

\* An acceptance is a join of the roster, or leaves the seats as they are.
LEMMA JoinRefines ==
  ASSUME IInv, NEW c \in Calls, WinClaim(c) PROVE [Roster!Next]_members
<1> DEFINE i == calls[c].invitation
           u == calls[c].user
<1>1. /\ u \in Users /\ i \in Invitations /\ invitations[i].role \in GrantableRoles
      /\ members' = [members EXCEPT ![u] = SeatAfterInsert(u, invitations[i].role)]
      /\ members \in [Users -> Roles \cup {None}]
  BY RoleAssumption DEF WinClaim, IInv, TypeOK, AcceptCallOK, RowOK
<1>2. CASE members[u] = None
  BY <1>1, <1>2, SameRanks DEF SeatAfterInsert, Roster!Join, Roster!Next
<1>3. CASE members[u] # None
  BY <1>1, <1>3 DEF SeatAfterInsert
<1>4. QED
  BY <1>2, <1>3

\* Seat changes, statement by statement and interleaved, are the atomic ones of
\* TeamRoster.
THEOREM Refinement == Spec => ImplementsTeamRoster
<1>1. Init => Roster!Init
  BY RoleAssumption, SameRanks DEF Init, Roster!Init, Roster!Owned
<1>2. ASSUME IInv, [Next]_vars PROVE [Roster!Next]_members
  <2>1. OwnerRemains'
    BY <1>2, NextInvariant DEF IInv
  <2>2. CASE UNCHANGED vars \/ \E i \in Invitations : Lapse(i)
    BY <2>2 DEF vars, Lapse
  <2>3. ASSUME NEW c \in Calls, Request(c) \/ Fail(c) PROVE members' = members
    BY <2>3 DEF Request, Renew, ChangeRole, Invite, RemoveMember, RevokeInvitation,
                AcceptInvitation, BeginAsAdmin, Begin, Fail
  <2>4. ASSUME NEW c \in Calls, Proceed(c) PROVE [Roster!Next]_members
    <3>1. CASE LockWorkspace(c) \/ FindTarget(c) \/ AssertNotLastOwner(c)
      BY <3>1 DEF LockWorkspace, FindTarget, AssertNotLastOwner, Turn, Refuse
    <3>2. CASE FindInvitee(c) \/ Supersede(c) \/ Audit(c) \/ ReadInvitation(c)
                 \/ Retry(c) \/ LoseClaim(c)
      BY <3>2 DEF FindInvitee, Supersede, Audit, ReadInvitation, Retry, LoseClaim, Turn
    <3>3. CASE \/ ClaimRevocation(c) \/ MarkExpired(c)
               \/ \E i \in Invitations : CreateInvitation(c, i)
      BY <3>3 DEF ClaimRevocation, MarkExpired, CreateInvitation, Turn
    <3>4. CASE CommitSeat(c)
      BY <1>2, <2>1, <3>4, CommitRefines
    <3>5. CASE WinClaim(c)
      BY <1>2, <3>5, JoinRefines
    <3>6. CASE FindSeat(c) \/ IssueSession(c)
      BY <3>6 DEF FindSeat, IssueSession, Turn
    <3>7. QED
      BY <2>4, <3>1, <3>2, <3>3, <3>4, <3>5, <3>6 DEF Proceed
  <2>5. QED
    BY <1>2, <2>2, <2>3, <2>4 DEF Next
<1>3. QED
  BY <1>1, <1>2, Inductive, PTL DEF Spec, ImplementsTeamRoster, Roster!Spec

\* One link that works at a time, and one entry by it, unless invitations overlapped.
THEOREM OneEntryPerInvitation == Spec => []OneLinkOneEntry
  BY LinksAreUsedOnce, InvitationsSupersede, PTL DEF OneLinkOneEntry
=============================================================================
