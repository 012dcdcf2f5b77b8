--------------------------- MODULE TeamMembership ---------------------------
(***************************************************************************)
(* Seats of one workspace and the invitations to it                        *)
(* (backend/src/modules/team/team.service.ts).                             *)
(*                                                                         *)
(* Changing a role or removing a member runs in a transaction that first   *)
(* locks the workspace's row; invitations take no such lock and rely on    *)
(* conditional updates of their own row.  A call's statements interleave   *)
(* with those of every other call, and a call may fail at any of them,     *)
(* which rolls its open transaction back.                                  *)
(*                                                                         *)
(* Removing a member ends the member's sessions in the same transaction.   *)
(* Beside it a refresh, a login or a switch of workspace reads the seat    *)
(* and then issues a session (issueTokensForMembership of auth.service.ts) *)
(* without any lock.                                                       *)
(***************************************************************************)
EXTENDS RoleHierarchy, FiniteSets

CONSTANTS
  Users,        \* accounts; each stands for its own email address
  Invitations,  \* rows the Invitation table may get
  Issued,       \* those pending at start-up
  Calls,        \* the HTTP calls made; each is one process
  OrgRole,      \* role of a user's organization-wide membership, or None
  Seats,        \* roles held in the workspace at start-up
  Asked,        \* roles that requests name
  None          \* null

ASSUME UserAssumption == IsFiniteSet(Users)
ASSUME IssuedAssumption == Issued \subseteq Invitations
ASSUME RoleAssumption == Asked \subseteq GrantableRoles /\ Seats \subseteq Roles
ASSUME NullAssumption == None \notin Roles \cup Users \cup Calls \cup Invitations
ASSUME OrgRoleAssumption == OrgRole \in [Users -> OrgWideRoles \cup {None}]

VARIABLES
  members,      \* the Membership table of the workspace: each user's role
  sessions,     \* users with a live refresh token for the workspace
  invitations,  \* the Invitation table
  lapsed,       \* invitations whose expiresAt has passed
  lock,         \* the call whose transaction holds the Workspace row, or None
  calls,        \* the local state of every call
  earlier,      \* history: the invitations committed when a call superseded
  overtaken     \* history: calls between seat and session when it was removed

vars == <<members, sessions, invitations, lapsed, lock, calls, earlier, overtaken>>

-----------------------------------------------------------------------------

Rows == [status : {"ABSENT", "PENDING", "ACCEPTED", "REVOKED", "EXPIRED"},
         email  : Users \cup {None},
         role   : Roles \cup {None},
         acceptedBy : Users \cup {None},
         maker  : Calls \cup {None}]    \* history: the call that created it

PendingRow(u, role, c) ==
  [status |-> "PENDING", email |-> u, role |-> role, acceptedBy |-> None,
   maker |-> c]

Absent == [PendingRow(None, None, None) EXCEPT !.status = "ABSENT"]

\* How a call ends: acceptance with its outcome, anything else "done", a
\* refusal (an HTTP error by the service), or an error of the database or process.
Ended == {"JOINED", "ALREADY_MEMBER", "ALREADY_ACCEPTED", "done", "refused", "failed"}

CallPcs == {"idle", "lock", "target", "count", "write", "invitee", "supersede",
            "create", "audit", "revoke", "read", "retry", "expire", "claim",
            "seat", "issue"} \cup Ended

CallStates == [pc        : CallPcs,
               user      : Users \cup {None},        \* who calls
               authority : Roles \cup {None},        \* request.user.role
               target    : Users \cup {None},        \* whose seat, or invitee
               newRole   : Roles \cup {None},        \* None for a removal
               invitation : Invitations \cup {None},
               held      : SUBSET Invitations]       \* row locks of its update

NewCall(pc, u, r, target, role, i) ==
  [pc |-> pc, user |-> u, authority |-> r, target |-> target, newRole |-> role,
   invitation |-> i, held |-> {}]

Idle == NewCall("idle", None, None, None, None, None)

\* register() makes the creator of a workspace its owner.
Init ==
  /\ members \in [Users -> Seats \cup {None}]
  /\ \E u \in Users : members[u] = "ORG_OWNER"
  /\ sessions \in SUBSET {u \in Users : members[u] # None}
  /\ invitations \in [Invitations ->
       {Absent} \cup {PendingRow(u, r, None) : u \in Users, r \in Asked}]
  /\ \A i \in Invitations : invitations[i] # Absent <=> i \in Issued
  /\ \A i, j \in Issued : invitations[i].email = invitations[j].email => i = j
  /\ lapsed = {}
  /\ lock = None
  /\ calls = [c \in Calls |-> Idle]
  /\ earlier = [c \in Calls |-> {}]
  /\ overtaken = {}

-----------------------------------------------------------------------------
(* The guards in front of a request, and its transaction.                  *)

\* resolveAuthorizedWorkspace: the seat in the workspace, else the one above it.
RoleOf(u) == IF members[u] # None THEN members[u] ELSE OrgRole[u]

Begin(c, call) ==
  /\ calls[c].pc = "idle"
  /\ calls' = [calls EXCEPT ![c] = call]
  /\ UNCHANGED <<members, sessions, invitations, lapsed, lock, earlier, overtaken>>

\* JwtAuthGuard, WorkspaceGuard and RolesGuard: the role is read once, here.
BeginAsAdmin(c, u, pc, target, role, i) ==
  /\ RoleOf(u) \in AdminRoles
  /\ Begin(c, NewCall(pc, u, RoleOf(u), target, role, i))

Goto(c, pc) == calls' = [calls EXCEPT ![c].pc = pc]

\* A step of a call that changes nothing but where the call is.
Turn(c, pc) ==
  /\ Goto(c, pc)
  /\ UNCHANGED <<members, sessions, invitations, lapsed, lock, earlier, overtaken>>

RefuseLocked(c) == Turn(c, "refused")                 \* mutant of Refuse

\* An exception in withWorkspaceLock rolls back and unlocks.
Refuse(c) ==
  /\ Goto(c, "refused")
  /\ lock' = None
  /\ UNCHANGED <<members, sessions, invitations, lapsed, earlier, overtaken>>

-----------------------------------------------------------------------------
(* changeRole and removeMember.                                            *)

ChangeRole(c, u, target, role) ==
  /\ role \in Asked
  /\ BeginAsAdmin(c, u, "lock", target, role, None)
  /\ CanGrant(RoleOf(u), role)

RemoveMember(c, u, target) == BeginAsAdmin(c, u, "lock", target, None, None)

LockAtOnce(c) == TRUE                                 \* mutant of LockIsFree
LockIsFree(c) == lock = None

LockWorkspace(c) ==
  /\ calls[c].pc = "lock"
  /\ LockIsFree(c)
  /\ lock' = c
  /\ Goto(c, "target")
  /\ UNCHANGED <<members, sessions, invitations, lapsed, earlier, overtaken>>

Permitted(c, seat) ==
  IF calls[c].newRole = None THEN CanRemove(calls[c].authority, seat)
                          ELSE CanManage(calls[c].authority, seat)

FindTarget(c) ==
  LET seat == members[calls[c].target]
  IN  /\ calls[c].pc = "target"
      /\ IF seat = None \/ ~Permitted(c, seat)
           THEN Refuse(c)
           ELSE Turn(c, IF seat = "ORG_OWNER" /\ calls[c].newRole # seat
                          THEN "count" ELSE "write")

Owners == {u \in Users : members[u] = "ORG_OWNER"}

AnotherOwnerLeft == Cardinality(Owners) > 1

AssertNotLastOwner(c) ==
  /\ calls[c].pc = "count"
  /\ IF AnotherOwnerLeft THEN Turn(c, "write") ELSE Refuse(c)

SessionsKept(c) == sessions                           \* mutant of SessionsAfter
SessionsAfter(c) ==
  IF calls[c].newRole = None THEN sessions \ {calls[c].target} ELSE sessions

\* Calls that found the member's seat and have yet to issue the session.
Renewing(u) == {d \in Calls : calls[d].pc = "issue" /\ calls[d].user = u}

\* The update or the delete, the end of the removed member's sessions, commit.
CommitSeat(c) ==
  /\ calls[c].pc = "write"
  /\ members' = [members EXCEPT ![calls[c].target] = calls[c].newRole]
  /\ sessions' = SessionsAfter(c)
  /\ overtaken' = IF calls[c].newRole = None
                    THEN overtaken \cup Renewing(calls[c].target) ELSE overtaken
  /\ lock' = None
  /\ Goto(c, "done")
  /\ UNCHANGED <<invitations, lapsed, earlier>>

-----------------------------------------------------------------------------
(* issueTokensForMembership: refresh, choice and switch of a workspace.    *)

\* The caller is proven; a refresh token it spent may have been the last here.
Renew(c, u) ==
  /\ calls[c].pc = "idle"
  /\ calls' = [calls EXCEPT ![c] = NewCall("seat", u, None, None, None, None)]
  /\ sessions' \in {sessions, sessions \ {u}}
  /\ UNCHANGED <<members, invitations, lapsed, lock, earlier, overtaken>>

FindSeat(c) ==
  /\ calls[c].pc = "seat"
  /\ Turn(c, IF members[calls[c].user] = None THEN "refused" ELSE "issue")

IssueSession(c) ==
  /\ calls[c].pc = "issue"
  /\ sessions' = sessions \cup {calls[c].user}
  /\ Goto(c, "done")
  /\ UNCHANGED <<members, invitations, lapsed, lock, earlier, overtaken>>

-----------------------------------------------------------------------------
(* invite and revokeInvitation.                                            *)

Invite(c, u, email, role) ==
  /\ role \in Asked
  /\ BeginAsAdmin(c, u, "invitee", email, role, None)
  /\ CanGrant(RoleOf(u), role)

FindInvitee(c) ==
  /\ calls[c].pc = "invitee"
  /\ Turn(c, IF members[calls[c].target] # None THEN "refused" ELSE "supersede")

PendingFor(u) ==
  {i \in Invitations : invitations[i].status = "PENDING" /\ invitations[i].email = u}

\* An uncommitted update of a row makes every other update of it wait.
Unlocked(I) == \A d \in Calls : calls[d].held \cap I = {}

SupersedeNone(u) == {}                               \* mutant of Superseded
Superseded(u) == PendingFor(u)

\* The updateMany sees what has committed; its own effect commits with create.
Supersede(c) ==
  LET old == Superseded(calls[c].target)
  IN  /\ calls[c].pc = "supersede"
      /\ Unlocked(old)
      /\ calls' = [calls EXCEPT ![c].pc = "create", ![c].held = old]
      /\ earlier' = [earlier EXCEPT ![c] =
                       {i \in Invitations : invitations[i].status # "ABSENT"}]
      /\ UNCHANGED <<members, sessions, invitations, lapsed, lock, overtaken>>

CreateInvitation(c, new) ==
  /\ calls[c].pc = "create"
  /\ invitations[new].status = "ABSENT"
  /\ invitations' = [i \in Invitations |->
       IF i = new THEN PendingRow(calls[c].target, calls[c].newRole, c)
       ELSE IF i \in calls[c].held THEN [invitations[i] EXCEPT !.status = "REVOKED"]
       ELSE invitations[i]]
  /\ calls' = [calls EXCEPT ![c].pc = "audit", ![c].held = {}]
  /\ UNCHANGED <<members, sessions, lapsed, lock, earlier, overtaken>>

Audit(c) == calls[c].pc = "audit" /\ Turn(c, "done")

RevokeInvitation(c, u, i) == BeginAsAdmin(c, u, "revoke", None, None, i)

PutInvitation(i, row) == invitations' = [invitations EXCEPT ![i] = row]

RevokeAnyway(i) == invitations[i].status # "ABSENT"   \* mutant of Claimable
Claimable(i) == invitations[i].status = "PENDING"

ClaimRevocation(c) ==
  LET i == calls[c].invitation
  IN  /\ calls[c].pc = "revoke"
      /\ Unlocked({i})
      /\ IF Claimable(i)
           THEN /\ PutInvitation(i, [invitations[i] EXCEPT !.status = "REVOKED"])
                /\ Goto(c, "audit")
                /\ UNCHANGED <<members, sessions, lapsed, lock, earlier, overtaken>>
           ELSE Turn(c, "refused")

-----------------------------------------------------------------------------
(* acceptInvitation and acceptInvitationById.                              *)

\* By token or by capability; a token of no invitation is refused at once.
AcceptInvitation(c, u, i) ==
  /\ invitations[i].status # "ABSENT"
  /\ Begin(c, NewCall("read", u, None, None, None, i))

Lapse(i) ==
  /\ invitations[i].status # "ABSENT"
  /\ i \notin lapsed
  /\ lapsed' = lapsed \cup {i}
  /\ UNCHANGED <<members, sessions, invitations, lock, calls, earlier, overtaken>>

UsedBy(row, u) == row.status = "ACCEPTED" /\ row.acceptedBy = u

ReadInvitation(c) ==
  LET i == calls[c].invitation
      seen == invitations[i]
  IN  /\ calls[c].pc = "read"
      /\ Turn(c, IF seen.email # calls[c].user THEN "refused"
                 ELSE IF i \in lapsed THEN "expire"
                 ELSE IF UsedBy(seen, calls[c].user) THEN "retry"
                 ELSE IF seen.status # "PENDING" THEN "refused"
                 ELSE "claim")

MarkExpired(c) ==
  LET i == calls[c].invitation
  IN  /\ calls[c].pc = "expire"
      /\ Unlocked({i})
      /\ invitations' = IF Claimable(i)
                          THEN [invitations EXCEPT ![i].status = "EXPIRED"]
                          ELSE invitations
      /\ Goto(c, "refused")
      /\ UNCHANGED <<members, sessions, lapsed, lock, earlier, overtaken>>

Retry(c) == calls[c].pc = "retry" /\ Turn(c, "ALREADY_ACCEPTED")

Accepted(i, u) == [invitations[i] EXCEPT !.status = "ACCEPTED", !.acceptedBy = u]

\* INSERT ... ON CONFLICT DO NOTHING: a seat that exists is left as it is.
SeatOnConflict(u, role) == role                       \* mutant of SeatAfterInsert
SeatAfterInsert(u, role) == IF members[u] = None THEN role ELSE members[u]

WinClaim(c) ==
  LET i == calls[c].invitation
      u == calls[c].user
  IN  /\ calls[c].pc = "claim"
      /\ Unlocked({i})
      /\ Claimable(i)
      /\ PutInvitation(i, Accepted(i, u))
      /\ members' = [members EXCEPT ![u] = SeatAfterInsert(u, invitations[i].role)]
      /\ Goto(c, IF members[u] = None THEN "JOINED" ELSE "ALREADY_MEMBER")
      /\ UNCHANGED <<sessions, lapsed, lock, earlier, overtaken>>

LoseClaim(c) ==
  LET now == invitations[calls[c].invitation]
  IN  /\ calls[c].pc = "claim"
      /\ Unlocked({calls[c].invitation})
      /\ ~Claimable(calls[c].invitation)
      /\ Turn(c, IF UsedBy(now, calls[c].user) THEN "ALREADY_ACCEPTED" ELSE "refused")

-----------------------------------------------------------------------------

\* A statement fails or the process dies: what has not committed is undone.
Fail(c) ==
  /\ calls[c].pc \notin {"idle"} \cup Ended
  /\ calls' = [calls EXCEPT ![c].pc = "failed", ![c].held = {}]
  /\ lock' = IF lock = c THEN None ELSE lock
  /\ UNCHANGED <<members, sessions, invitations, lapsed, earlier, overtaken>>

Proceed(c) ==
  \/ LockWorkspace(c) \/ FindTarget(c) \/ AssertNotLastOwner(c) \/ CommitSeat(c)
  \/ FindSeat(c) \/ IssueSession(c)
  \/ FindInvitee(c) \/ Supersede(c) \/ Audit(c) \/ ClaimRevocation(c)
  \/ \E i \in Invitations : CreateInvitation(c, i)
  \/ ReadInvitation(c) \/ MarkExpired(c) \/ Retry(c) \/ WinClaim(c) \/ LoseClaim(c)

Request(c) ==
  \E u \in Users :
    \/ \E target \in Users, role \in Asked :
         ChangeRole(c, u, target, role) \/ Invite(c, u, target, role)
    \/ \E target \in Users : RemoveMember(c, u, target)
    \/ Renew(c, u)
    \/ \E i \in Invitations : RevokeInvitation(c, u, i) \/ AcceptInvitation(c, u, i)

Next ==
  \/ \E c \in Calls : Request(c) \/ Proceed(c) \/ Fail(c)
  \/ \E i \in Invitations : Lapse(i)

Spec == Init /\ [][Next]_vars

\* Every statement sent returns; nothing makes a person act or time pass.
FairSpec == Spec /\ \A c \in Calls : WF_vars(Proceed(c))

-----------------------------------------------------------------------------
(* Safety.                                                                 *)

TypeOK ==
  /\ members \in [Users -> Roles \cup {None}]
  /\ sessions \subseteq Users
  /\ invitations \in [Invitations -> Rows]
  /\ lapsed \subseteq Invitations
  /\ lock \in Calls \cup {None}
  /\ calls \in [Calls -> CallStates]
  /\ earlier \in [Calls -> SUBSET Invitations]
  /\ overtaken \subseteq Calls

\* Whatever role changes and removals race, somebody can still administer the
\* workspace ("left with zero owners and no way to administer it").
OwnerRemains == \E u \in Users : members[u] = "ORG_OWNER"

\* A removed member holds no session of the workspace, save one that a call of
\* theirs issued after the removal on the strength of the seat it had read before
\* (removeMember, issueTokensForMembership).
RemovedAreSignedOut ==
  \A u \in sessions :
    \/ members[u] # None
    \/ \E c \in overtaken : calls[c].user = u /\ calls[c].pc = "done"

\* One link lets in one request: of all the acceptances of an invitation,
\* retried and simultaneous, at most one reports having used it, and then no
\* revocation, expiry or newer invitation has taken the link back.
LinkIsUsedOnce ==
  \A c, d \in Calls :
    calls[c].pc \in {"JOINED", "ALREADY_MEMBER"} =>
      /\ invitations[calls[c].invitation].status = "ACCEPTED"
      /\ calls[d].pc \in {"JOINED", "ALREADY_MEMBER"}
           /\ calls[d].invitation = calls[c].invitation => d = c

\* Two links work for one address only when neither invitation could see the
\* other: their transactions overlapped.
OnlyOverlappingInvitesCoexist ==
  \A i, j \in Invitations :
    /\ i # j
    /\ Claimable(i) /\ Claimable(j)
    /\ invitations[i].email = invitations[j].email
    => \A p \in {<<i, j>>, <<j, i>>} :
         invitations[p[2]].maker = None \/ p[1] \notin earlier[invitations[p[2]].maker]

\* A person who is invited has one link that works, and it works once, unless
\* two invitations overlapped (invite, acceptResolvedInvitation).
OneLinkOneEntry == LinkIsUsedOnce /\ OnlyOverlappingInvitesCoexist

\* An invitation that left PENDING is never touched again.
Decided(i) == invitations[i].status \in {"ACCEPTED", "REVOKED", "EXPIRED"}

DecisionsAreFinal ==
  [][\A i \in Invitations : Decided(i) => invitations'[i] = invitations[i]]_vars

-----------------------------------------------------------------------------
(* The inductive invariant of TeamMembershipProofs.                        *)

\* What an invitation is, and that its maker has no more to do with it.
RowOK(i) ==
  /\ invitations[i].status # "ABSENT" =>
       invitations[i].email \in Users /\ invitations[i].role \in Asked
  /\ \A c \in Calls :
       invitations[i].maker = c => calls[c].pc \in {"audit", "done", "failed"}

\* The holder of the lock has judged the seat as it is, and counted the owners.
SeatCallOK(c) ==
  /\ calls[c].pc \in {"target", "count", "write"} <=> lock = c
  /\ calls[c].pc \in {"lock", "target", "count", "write"} =>
       /\ calls[c].target \in Users
       /\ calls[c].authority \in AdminRoles
       /\ calls[c].newRole # None =>
            calls[c].newRole \in Asked /\ CanGrant(calls[c].authority, calls[c].newRole)
  /\ calls[c].pc \in {"count", "write"} =>
       /\ members[calls[c].target] # None
       /\ Permitted(c, members[calls[c].target])
  /\ calls[c].pc = "write" =>
       \/ members[calls[c].target] # "ORG_OWNER"
       \/ calls[c].newRole = "ORG_OWNER"
       \/ \E u \in Users \ {calls[c].target} : members[u] = "ORG_OWNER"

\* The rows an invitation is about to supersede are pending still, and are all
\* the pending ones it could see; nobody else is about to touch them.
InviteCallOK(c) ==
  /\ calls[c].pc \in {"invitee", "supersede", "create"} =>
       calls[c].target \in Users /\ calls[c].newRole \in Asked
  /\ calls[c].held # {} => calls[c].pc = "create"
  /\ \A i \in calls[c].held : Claimable(i)
  /\ \A d \in Calls : d = c \/ calls[c].held \cap calls[d].held = {}
  /\ \A i \in earlier[c] : invitations[i].status # "ABSENT"
  /\ calls[c].pc = "create" =>
       \A i \in earlier[c] :
         Claimable(i) /\ invitations[i].email = calls[c].target => i \in calls[c].held

\* An acceptance is of the caller's own link, and its answer stays true.
AcceptCallOK(c) ==
  LET i == calls[c].invitation
  IN  /\ calls[c].pc = "revoke" => i \in Invitations /\ calls[c].authority # None
      /\ calls[c].pc \in {"read", "retry", "expire", "claim", "JOINED", "ALREADY_MEMBER"} =>
           i \in Invitations /\ calls[c].user \in Users
      /\ calls[c].pc \in {"read", "expire", "claim"} => invitations[i].status # "ABSENT"
      /\ calls[c].pc \in {"expire", "claim"} => invitations[i].email = calls[c].user
      /\ calls[c].pc = "expire" => i \in lapsed
      /\ calls[c].pc \in {"JOINED", "ALREADY_MEMBER"} => invitations[i].status = "ACCEPTED"

\* Whoever is about to issue a session has a seat, or was removed meanwhile.
RenewCallOK(c) ==
  /\ calls[c].pc \in {"seat", "issue"} => calls[c].user \in Users
  /\ calls[c].pc = "issue" => members[calls[c].user] # None \/ c \in overtaken
  /\ c \in overtaken => calls[c].pc \in {"issue", "done", "failed"}

IInv ==
  /\ TypeOK
  /\ OwnerRemains
  /\ RemovedAreSignedOut
  /\ \A i \in Invitations : RowOK(i)
  /\ \A c \in Calls :
       SeatCallOK(c) /\ InviteCallOK(c) /\ AcceptCallOK(c) /\ RenewCallOK(c)
  /\ LinkIsUsedOnce
  /\ OnlyOverlappingInvitesCoexist

-----------------------------------------------------------------------------
(* Refinement and liveness.                                                *)

\* The ranks that the requests about a seat were let in with.
Asking ==
  [u \in Users |-> {calls[c].authority :
     c \in {d \in Calls : calls[d].pc \notin Ended /\ calls[d].target = u}}]

Roster == INSTANCE TeamRoster WITH asking <- Asking

\* Every seat change is one the roster allows: within the rank of the very caller
\* who makes it, judged by the seat as it is (changeRole, removeMember).
ImplementsTeamRoster == Roster!Spec

\* No call waits for ever for the lock of the workspace or of an invitation.
CallsEnd == \A c \in Calls : calls[c].pc # "idle" ~> calls[c].pc \in Ended
=============================================================================
