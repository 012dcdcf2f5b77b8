-------------------------- MODULE RequestAuthority --------------------------
(***************************************************************************)
(* What lets a request reach its handler: the two token strategies         *)
(* (jwt.strategy.ts, invitation-capability.strategy.ts), WorkspaceGuard    *)
(* with resolveAuthorizedWorkspace, RolesGuard, BusinessUnitGuard, the     *)
(* checks of WorkspaceController and those of executeTool.                 *)
(*                                                                         *)
(* The requests are of one user.  Between the awaits of the guards others  *)
(* give the user a seat, change it or take it away (TeamMembership), and   *)
(* workspaces are made.  Signature and expiry are the library's.           *)
(***************************************************************************)
EXTENDS RoleHierarchy, FiniteSets

CONSTANTS
  Calls,
  Workspaces,      \* ids, taken or not
  Home,            \* workspace id -> the organization it is, or would be, of
  Units,           \* the workspaces that have a business unit
  Asked,           \* the tools that are asked for, known or not
  Given,           \* the roles others give
  MaxChanges,      \* a bound on what others do
  None             \* null

VARIABLES
  seats,           \* the memberships of the user
  workspaces,      \* the workspaces there are
  calls,           \* the local state of every request
  changes

vars == <<seats, workspaces, calls, changes>>

Organizations == {Home[w] : w \in Workspaces}

\* The claims of the tokens that the API signs.  Tokens of the build before the
\* claim existed have no tokenType.
Session(w)  == [tokenType |-> "access", purpose |-> None, workspace |-> w]
Legacy(w)   == [tokenType |-> None, purpose |-> None, workspace |-> w]
Selection   == [tokenType |-> "pre-session", purpose |-> "workspace-selection", workspace |-> None]
Capability  == [tokenType |-> "pre-session", purpose |-> "invitation-acceptance", workspace |-> None]

Tokens == {Session(w) : w \in Workspaces} \cup {Legacy(w) : w \in Workspaces}
          \cup {Selection, Capability}

\* Routes by their guards: those behind WorkspaceGuard, of which "manage" has the
\* administrative roles and "relations" BusinessUnitGuard; those of
\* WorkspaceController; and the one of a capability.
Scoped == {"read", "manage", "relations", "execute"}
Routes == Scoped \cup {"list", "get", "create", "accept"}

\* The tools and who may run them (registerTools).
Readers == {"ORG_OWNER", "ORG_ADMIN", "WORKSPACE_ADMIN", "USER"}
Writers == Readers \ {"USER"}
Permissions == [getDashboard |-> Readers, searchContacts |-> Readers,
                createContact |-> Writers, createPipeline |-> Writers,
                createOpportunity |-> Writers, moveOpportunity |-> Writers]

\* large: the value of a deal is above 5000.
IsHighRisk(tool, large) == tool = "createOpportunity" /\ large

Seat == [organization : Organizations, workspace : Workspaces \cup {None}, role : Roles]

Call == [pc : {"idle", "sent", "known", "unit", "creating", "refused", "handled", "run", "staged"},
         token : Tokens \cup {None}, route : Routes \cup {None},
         named : Workspaces \cup {None}, tool : Asked \cup {None}, large : BOOLEAN,
         known : SUBSET Seat, workspace : Workspaces \cup {None}, role : Roles \cup {None},
         held : SUBSET SUBSET Seat]

\* known: the memberships as the strategy read them.  held: *history* the
\* memberships there have been since the request was sent.
Idle == [pc |-> "idle", token |-> None, route |-> None, named |-> None, tool |-> None,
         large |-> FALSE, known |-> {}, workspace |-> None, role |-> None, held |-> {}]

\* A user has at most one seat in a workspace and one above the workspaces of an
\* organization; only the organization-wide roles are given above them.
OneSeatEach(S) ==
  \A s, t \in S : s.organization = t.organization /\ s.workspace = t.workspace => s = t

Init ==
  /\ \E above \in SUBSET [organization : Organizations, workspace : {None}, role : {"ORG_ADMIN"}],
        direct \in SUBSET {[organization |-> Home[w], workspace |-> w, role |-> r] :
                             w \in Workspaces, r \in Given} :
       /\ seats = above \cup direct
       /\ OneSeatEach(seats)
  /\ \E missing \in Workspaces : workspaces = Workspaces \ {missing}
  /\ \A s \in seats : s.workspace \in workspaces \cup {None}
  /\ calls = [c \in Calls |-> Idle]
  /\ changes = 0

-----------------------------------------------------------------------------
(* What others do.                                                         *)

\* Every request under way has seen the memberships it had, and the new ones.
Become(S) ==
  /\ changes < MaxChanges
  /\ changes' = changes + 1
  /\ seats' = S
  /\ calls' = [c \in Calls |-> IF calls[c].pc \in {"idle", "refused"} THEN calls[c]
                               ELSE [calls[c] EXCEPT !.held = @ \cup {S}]]
  /\ UNCHANGED workspaces

In(w) == {s \in seats : s.workspace = w}

Grant(w, role) ==
  /\ w \in workspaces
  /\ Become((seats \ In(w)) \cup {[organization |-> Home[w], workspace |-> w, role |-> role]})

Remove(w) == In(w) # {} /\ Become(seats \ In(w))

\* Another request makes the workspace.
Found(w) ==
  /\ w \notin workspaces
  /\ workspaces' = workspaces \cup {w}
  /\ UNCHANGED <<seats, calls, changes>>

-----------------------------------------------------------------------------
(* The strategies.                                                         *)

Send(c, token, route, named, tool, large) ==
  /\ route \in Scoped \/ (named # None) = (route \in {"get", "create"})
  /\ (tool # None) = (route = "execute")
  /\ large => tool = "createOpportunity"
  /\ calls' = [calls EXCEPT ![c] = [Idle EXCEPT
       !.pc = "sent", !.token = token, !.route = route, !.named = named, !.tool = tool,
       !.large = large, !.held = {seats}]]
  /\ UNCHANGED <<seats, workspaces, changes>>

Step(c, pc) ==
  /\ calls' = [calls EXCEPT ![c].pc = pc]
  /\ UNCHANGED <<seats, workspaces, changes>>

Refuse(c) == Step(c, "refused")

IsSession(token) ==
  token.purpose = None /\ token.tokenType \in {None, "access"}

IsCapability(token) ==
  token.tokenType = "pre-session" /\ token.purpose = "invitation-acceptance"

\* JwtStrategy.validate: the claims, then the user with every membership.
Validate(c) ==
  LET call == calls[c]
  IN  /\ call.pc = "sent" /\ call.route # "accept"
      /\ \/ ~IsSession(call.token) /\ Refuse(c)
         \/ /\ IsSession(call.token)
            /\ calls' = [calls EXCEPT ![c].known = seats, ![c].pc = "known"]
            /\ UNCHANGED <<seats, workspaces, changes>>

\* InvitationCapabilityStrategy.validate reads nothing; TeamMembership has the rest.
ValidateCapability(c) ==
  /\ calls[c].pc = "sent" /\ calls[c].route = "accept"
  /\ Step(c, IF IsCapability(calls[c].token) THEN "handled" ELSE "refused")

-----------------------------------------------------------------------------
(* The guards.                                                             *)

Above(S, w) ==
  {s \in S : s.workspace = None /\ s.organization = Home[w] /\ s.role \in OrgWideRoles}

\* mutant of SeatsFor: an administrator of any organization is one of all
SeatsForAny(S, w) ==
  LET direct == {s \in S : s.workspace = w}
  IN  IF direct # {} THEN direct ELSE {s \in S : s.workspace = None}

\* resolveAuthorizedWorkspace: the seat in the workspace comes before the one above.
SeatsFor(S, w) ==
  LET direct == {s \in S : s.workspace = w /\ s.organization = Home[w]}
  IN  IF direct # {} THEN direct ELSE Above(S, w)

Admit(c, w, role, pc) ==
  /\ calls' = [calls EXCEPT ![c].workspace = w, ![c].role = role, ![c].pc = pc]
  /\ UNCHANGED <<seats, workspaces, changes>>

\* WorkspaceGuard: the header, else the token; then the route's own guard and, for
\* a tool, getToolOrThrow, assertToolPermission and the risk, before any await.
After(call, role) ==
  CASE call.route = "manage" -> IF role \in AdminRoles THEN "handled" ELSE "refused"
    [] call.route = "relations" -> "unit"
    [] call.route = "execute" ->
         IF call.tool \notin DOMAIN Permissions THEN "refused"
         ELSE IF role \notin Permissions[call.tool] THEN "refused"
         ELSE IF IsHighRisk(call.tool, call.large) THEN "staged" ELSE "run"
    [] OTHER -> "handled"

ResolveWorkspace(c) ==
  LET call == calls[c]
      w    == IF call.route = "get" \/ call.named # None THEN call.named ELSE call.token.workspace
  IN  /\ call.pc = "known" /\ call.route \in Scoped \cup {"get"}
      /\ \/ w \notin workspaces /\ Refuse(c)
         \/ w \in workspaces /\ SeatsFor(call.known, w) = {} /\ Refuse(c)
         \/ /\ w \in workspaces
            /\ \E s \in SeatsFor(call.known, w) : Admit(c, w, s.role, After(call, s.role))

\* BusinessUnitGuard reads the workspace again.
CheckUnit(c) ==
  /\ calls[c].pc = "unit"
  /\ Step(c, IF calls[c].workspace \in Units THEN "handled" ELSE "refused")

\* RolesGuard without WorkspaceGuard before it: the user has no role yet, and
\* SUPERADMIN is asked for.
ListWorkspaces(c) ==
  /\ calls[c].pc = "known" /\ calls[c].route = "list"
  /\ Refuse(c)

\* WorkspaceController.create looks at the memberships itself; the subdomain (taken
\* as the id) is looked up, and is unique in the table.
AuthorizeCreation(c) ==
  /\ calls[c].pc = "known" /\ calls[c].route = "create"
  /\ Step(c, IF Above(calls[c].known, calls[c].named) # {} /\ calls[c].named \notin workspaces
             THEN "creating" ELSE "refused")

CreateWorkspace(c) ==
  LET w == calls[c].named
  IN  /\ calls[c].pc = "creating"
      /\ \/ w \in workspaces /\ Refuse(c)
         \/ /\ w \notin workspaces
            /\ workspaces' = workspaces \cup {w}
            /\ calls' = [calls EXCEPT ![c].workspace = w, ![c].pc = "handled"]
            /\ UNCHANGED <<seats, changes>>

-----------------------------------------------------------------------------

Request(c) ==
  /\ calls[c].pc = "idle"
  /\ \E token \in Tokens, route \in Routes, named \in Workspaces \cup {None},
        tool \in Asked \cup {None}, large \in BOOLEAN :
       Send(c, token, route, named, tool, large)

Handle(c) == Validate(c) \/ ValidateCapability(c) \/ ResolveWorkspace(c) \/ CheckUnit(c)
             \/ ListWorkspaces(c) \/ AuthorizeCreation(c) \/ CreateWorkspace(c)

Next ==
  \/ \E c \in Calls : Request(c) \/ Handle(c)
  \/ \E w \in Workspaces : Remove(w) \/ Found(w) \/ \E r \in Given : Grant(w, r)

Spec == Init /\ [][Next]_vars

-----------------------------------------------------------------------------
(* Properties.                                                             *)

TypesHold ==
  /\ seats \in SUBSET Seat
  /\ workspaces \in SUBSET Workspaces
  /\ calls \in [Calls -> Call]
  /\ changes \in 0..MaxChanges

Reached(call) == call.pc \in {"handled", "run", "staged"}

\* The role that memberships S give in w: that of the seat in it, which counts even
\* when it is the lower one, or else that of an organization-wide seat of the
\* organization w is of.
GivesRole(S, w, role) ==
  \E s \in S :
    /\ s.role = role /\ s.organization = Home[w]
    /\ \/ s.workspace = w
       \/ s.workspace = None /\ role \in OrgWideRoles /\ ~\E t \in S : t.workspace = w

\* Whatever is changed while the guards wait, a request that reaches its handler
\* acts in a workspace by a role that the user's memberships gave there at some
\* moment since it was sent, all of one moment; a token for choosing a workspace or
\* accepting an invitation opens nothing else; a tool runs at once only for a role
\* it is for, and never a large deal.
AuthorityWasHeld ==
  \A c \in Calls :
    LET call == calls[c]
    IN  Reached(call) =>
          IF call.route = "accept" THEN call.token = Capability
          ELSE /\ call.token \notin {Selection, Capability}
               /\ IF call.route = "create"
                  THEN \E S \in call.held : \E r \in OrgWideRoles :
                         \E s \in S : s.role = r /\ s.workspace = None
                                      /\ s.organization = Home[call.workspace]
                  ELSE \E S \in call.held : GivesRole(S, call.workspace, call.role)
               /\ call.route = "manage" => call.role \in AdminRoles
               /\ call.pc = "run" => call.role \in Permissions[call.tool] /\ ~call.large
=============================================================================
