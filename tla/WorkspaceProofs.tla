-------------------------- MODULE WorkspaceProofs --------------------------
(***************************************************************************)
(* Proofs about Workspace: its invariants for any number of requests,      *)
(* users, workspaces and clients.  Each component has its inductive        *)
(* invariant; at the end the steps of the whole are those of its part.     *)
(***************************************************************************)
EXTENDS Workspace, Integers, Sequences, FiniteSetTheorems, TLAPS

-----------------------------------------------------------------------------
(* Requests act by an authority their user had (RequestAuthority).        *)

\* A seat in a workspace is one of the organization the workspace is of.
Consistent(S) == \A s \in S : s.workspace # None => s.organization = Home[s.workspace]

\* What the guards have found out about a call, by where it is.
Past(call) == call.pc \notin {"idle", "refused", "sent"}

\* The role was given by memberships of one moment.
GivenAtOnce(call) == \E S \in call.held : Requests!GivesRole(S, call.workspace, call.role)

\* An organization-wide seat above w is among memberships the call has seen.
SeatAbove(call, w) == \E S \in call.held : Requests!Above(S, w) # {}

\* now: the memberships there are.
RequestSound(call, now) ==
  /\ call.pc \notin {"idle", "refused"} => /\ now \in call.held
                                           /\ call.token \in Requests!Tokens
                                           /\ call.large => call.tool = "createOpportunity"
  /\ Past(call) /\ call.route = "accept" =>
     call.pc = "handled" /\ Requests!IsCapability(call.token)
  /\ Past(call) /\ call.route # "accept" =>
     Requests!IsSession(call.token) /\ call.known \in call.held
  /\ Past(call) /\ call.route \in Requests!Scoped \cup {"get"} /\ call.pc # "known"
     => GivenAtOnce(call)
  /\ call.route = "create" /\ call.pc = "creating" => SeatAbove(call, call.named)
  /\ call.route = "create" /\ Requests!Reached(call) => SeatAbove(call, call.workspace)
  /\ call.route = "manage" /\ Requests!Reached(call) => call.role \in Requests!AdminRoles
  /\ call.pc = "run" => call.role \in Requests!Permissions[call.tool] /\ ~call.large
  /\ call.pc = "creating" => call.route = "create"
  /\ call.pc = "unit" => call.route = "relations"
  /\ Requests!Reached(call) => call.route # "list"
  /\ call.pc # "idle" => call.route \in Requests!Routes
  /\ call.pc \notin {"idle", "refused"} /\ call.route = "create" => call.named \in Workspaces

\* The inductive invariant: every membership table that a call has seen is in order.
RequestsInductive ==
  /\ Requests!TypesHold
  /\ Consistent(seats)
  /\ \A c \in Guarded : /\ \A S \in calls[c].held : Consistent(S)
                        /\ RequestSound(calls[c], seats)

-----------------------------------------------------------------------------
(* About the operators.                                                    *)

\* The seats that resolveAuthorizedWorkspace may pick give the role they have.
LEMMA PickedSeatGivesRole ==
  ASSUME NEW S, Consistent(S), NEW w, NEW s \in Requests!SeatsFor(S, w)
  PROVE  Requests!GivesRole(S, w, s.role)
<1> DEFINE direct == {t \in S : t.workspace = w /\ t.organization = Home[w]}
<1>1. CASE direct # {}
  <2>1. s \in direct  BY <1>1 DEF Requests!SeatsFor
  <2> QED  BY <2>1 DEF Requests!GivesRole
<1>2. CASE direct = {}
  <2>1. s \in Requests!Above(S, w)  BY <1>2 DEF Requests!SeatsFor
  <2>2. s \in S /\ s.workspace = None /\ s.organization = Home[w]
          /\ s.role \in Requests!OrgWideRoles
    BY <2>1 DEF Requests!Above
  <2>3. w # None  BY <2>2, <1>2
  <2>4. ~\E t \in S : t.workspace = w  BY <2>3, <1>2 DEF Consistent
  <2> QED  BY <2>2, <2>4 DEF Requests!GivesRole
<1> QED  BY <1>1, <1>2

\* The two strategies take different tokens of those that are signed.
LEMMA StrategiesDiffer ==
  ASSUME NEW token \in Requests!Tokens
  PROVE  /\ Requests!IsCapability(token) => token = Requests!Capability
         /\ Requests!IsSession(token) => token \notin {Requests!Selection, Requests!Capability}
<1>1. CASE \E w \in Workspaces : token = Requests!Session(w)
  BY <1>1 DEF Requests!Session, Requests!IsCapability, Requests!IsSession, Requests!Selection,
              Requests!Capability
<1>2. CASE \E w \in Workspaces : token = Requests!Legacy(w)
  BY <1>2 DEF Requests!Legacy, Requests!IsCapability, Requests!IsSession, Requests!Selection,
              Requests!Capability
<1>3. CASE token = Requests!Selection
  BY <1>3 DEF Requests!IsCapability, Requests!IsSession, Requests!Selection, Requests!Capability
<1>4. CASE token = Requests!Capability
  BY <1>4 DEF Requests!IsCapability, Requests!IsSession, Requests!Selection, Requests!Capability
<1> QED  BY <1>1, <1>2, <1>3, <1>4 DEF Requests!Tokens

\* Where a call goes when its workspace is resolved.
LEMMA AfterTheGuard ==
  ASSUME NEW call, NEW role, call.route \in Requests!Scoped \cup {"get"},
         call.large => call.tool = "createOpportunity"
  PROVE  LET pc == Requests!After(call, role)
         IN  /\ pc \in {"handled", "refused", "unit", "run", "staged"}
             /\ pc = "unit" => call.route = "relations"
             /\ pc \in {"handled", "run", "staged"} /\ call.route = "manage"
                => role \in Requests!AdminRoles
             /\ pc = "run" => role \in Requests!Permissions[call.tool] /\ ~call.large
<1>1. CASE call.route = "manage"     BY <1>1 DEF Requests!After
<1>2. CASE call.route = "relations"  BY <1>2 DEF Requests!After
<1>3. CASE call.route = "execute"    BY <1>3 DEF Requests!After, Requests!IsHighRisk
<1>4. CASE call.route \in {"read", "get"}  BY <1>4 DEF Requests!After
<1> QED  BY <1>1, <1>2, <1>3, <1>4 DEF Requests!Scoped

-----------------------------------------------------------------------------
(* The steps.                                                              *)

LEMMA RequestsBegin == RequestsFit /\ Requests!Init => RequestsInductive
<1> SUFFICES ASSUME RequestsFit, Requests!Init PROVE RequestsInductive  OBVIOUS
<1>1. Consistent(seats)
  BY DEF Requests!Init, Consistent
<1>2. calls = [c \in Guarded |-> Requests!Idle]  BY DEF Requests!Init
<1>3. Requests!Idle.pc = "idle" /\ Requests!Idle.held = {} /\ Requests!Idle.route = None
  BY DEF Requests!Idle
<1>4. ASSUME NEW c \in Guarded
      PROVE  (\A S \in calls[c].held : Consistent(S)) /\ RequestSound(calls[c], seats)
  BY <1>2, <1>3 DEF RequestSound, Past, Requests!Reached
<1>5. Requests!TypesHold
  <2>1. Requests!Idle \in Requests!Call  BY DEF Requests!Idle, Requests!Call
  <2>2. seats \in SUBSET Requests!Seat
    BY DEF Requests!Init, Requests!Seat, Requests!Organizations, RequestsFit, Requests!Roles,
           Requests!RankOf
  <2>3. workspaces \in SUBSET Workspaces  BY DEF Requests!Init
  <2>4. changes \in 0..MaxChanges  BY DEF Requests!Init, RequestsFit
  <2> QED  BY <1>2, <2>1, <2>2, <2>3, <2>4 DEF Requests!TypesHold
<1> QED  BY <1>1, <1>4, <1>5 DEF RequestsInductive

\* A step of one call that leaves the memberships alone.
LEMMA CallStep ==
  ASSUME RequestsInductive, NEW c \in Guarded, NEW call \in Requests!Call, UNCHANGED <<seats,
         changes>>,
         workspaces' \in SUBSET Workspaces, calls' = [calls EXCEPT ![c] = call],
         \A S \in call.held : Consistent(S), RequestSound(call, seats)
  PROVE  RequestsInductive'
<1>1. \A d \in Guarded : calls'[d] = IF d = c THEN call ELSE calls[d]
  BY DEF RequestsInductive, Requests!TypesHold
<1>2. Consistent(seats')  BY DEF RequestsInductive
<1>3. ASSUME NEW d \in Guarded
      PROVE  (\A S \in calls'[d].held : Consistent(S)) /\ RequestSound(calls'[d], seats')
  BY <1>1 DEF RequestsInductive
<1>6. Requests!TypesHold'  BY DEF RequestsInductive, Requests!TypesHold
<1> QED  BY <1>2, <1>3, <1>6 DEF RequestsInductive, Consistent

LEMMA RequestCallIsTyped ==
  ASSUME RequestsInductive, NEW c \in Guarded
  PROVE  calls[c] \in Requests!Call
BY DEF RequestsInductive, Requests!TypesHold

\* Others change the memberships; whoever has been let in keeps what it was let in by.
LEMMA BecomeIsSound ==
  ASSUME RequestsInductive, RequestsFit, NEW S \in SUBSET Requests!Seat, Consistent(S),
         Requests!Become(S)
  PROVE  RequestsInductive'
<1>1. ASSUME NEW c \in Guarded
      PROVE  calls'[c] = IF calls[c].pc \in {"idle", "refused"} THEN calls[c]
                         ELSE [calls[c] EXCEPT !.held = @ \cup {S}]
  BY DEF Requests!Become
<1>2. Requests!TypesHold'
  <2>1. ASSUME NEW c \in Guarded PROVE calls'[c] \in Requests!Call
    <3>1. calls[c] \in Requests!Call  BY RequestCallIsTyped
    <3>2. calls[c].held \cup {S} \in SUBSET SUBSET Requests!Seat  BY <3>1 DEF Requests!Call
    <3>3. [calls[c] EXCEPT !.held = @ \cup {S}] \in Requests!Call
      BY <3>1, <3>2 DEF Requests!Call
    <3> QED  BY <1>1, <3>1, <3>3
  <2>2. calls' = [c \in Guarded |-> calls'[c]]  BY DEF Requests!Become
  <2>3. calls' \in [Guarded -> Requests!Call]  BY <2>1, <2>2
  <2>4. changes' \in 0..MaxChanges
    BY DEF Requests!Become, RequestsInductive, Requests!TypesHold, RequestsFit
  <2> QED  BY <2>3, <2>4 DEF Requests!Become, RequestsInductive, Requests!TypesHold
<1>3. ASSUME NEW c \in Guarded
      PROVE  (\A T \in calls'[c].held : Consistent(T)) /\ RequestSound(calls'[c], seats')
  <2>0. calls[c] \in Requests!Call  BY RequestCallIsTyped
  <2>1. CASE calls[c].pc \in {"idle", "refused"}
    <3>1. calls'[c] = calls[c]  BY <1>1, <2>1
    <3> QED  BY <3>1, <2>1 DEF RequestsInductive, RequestSound
  <2>2. CASE calls[c].pc \notin {"idle", "refused"}
    <3> DEFINE call == [calls[c] EXCEPT !.held = @ \cup {S}]
    <3>1. calls'[c] = call  BY <1>1, <2>2
    <3>2. /\ call.held = calls[c].held \cup {S} /\ call.pc = calls[c].pc
          /\ call.token = calls[c].token /\ call.route = calls[c].route
          /\ call.named = calls[c].named /\ call.tool = calls[c].tool
          /\ call.large = calls[c].large /\ call.known = calls[c].known
          /\ call.workspace = calls[c].workspace /\ call.role = calls[c].role
      BY <2>0 DEF Requests!Call
    <3> HIDE DEF call
    <3>3. \A T \in call.held : Consistent(T)  BY <3>2 DEF RequestsInductive
    <3>4. GivenAtOnce(calls[c]) => GivenAtOnce(call)  BY <3>2 DEF GivenAtOnce
    <3>5. \A w : SeatAbove(calls[c], w) => SeatAbove(call, w)  BY <3>2 DEF SeatAbove
    <3>6. seats' \in call.held  BY <3>2 DEF Requests!Become
    <3>7. RequestSound(calls[c], seats)  BY DEF RequestsInductive
    <3>8. Past(call) = Past(calls[c]) /\ Requests!Reached(call) = Requests!Reached(calls[c])
      BY <3>2 DEF Past, Requests!Reached
    <3>9. RequestSound(call, seats')
      BY <2>2, <3>2, <3>4, <3>5, <3>6, <3>7, <3>8 DEF RequestSound
    <3> QED  BY <3>1, <3>3, <3>9
  <2> QED  BY <2>1, <2>2
<1>4. Consistent(seats')  BY DEF Requests!Become
<1> QED  BY <1>2, <1>3, <1>4 DEF RequestsInductive, Consistent

LEMMA SendIsSound ==
  ASSUME RequestsInductive, NEW c \in Guarded, NEW token \in Requests!Tokens,
         NEW route \in Requests!Routes,
         NEW named \in Workspaces \cup {None}, NEW tool \in Asked \cup {None},
         NEW large \in BOOLEAN, Requests!Send(c, token, route, named, tool, large)
  PROVE  RequestsInductive'
<1> DEFINE call == [Requests!Idle EXCEPT !.pc = "sent", !.token = token, !.route = route,
                      !.named = named, !.tool = tool, !.large = large, !.held = {seats}]
<1>1. /\ call.pc = "sent" /\ call.held = {seats} /\ call.token = token /\ call.large = large
      /\ call.tool = tool /\ call.route = route /\ call.named = named
  BY DEF Requests!Idle
<1>2. call \in Requests!Call
  BY DEF Requests!Idle, Requests!Call, RequestsInductive, Requests!TypesHold
<1>3. UNCHANGED <<seats, changes>> /\ workspaces' \in SUBSET Workspaces
      /\ calls' = [calls EXCEPT ![c] = call]
  BY DEF Requests!Send, RequestsInductive, Requests!TypesHold
<1> HIDE DEF call
<1>4. ASSUME route = "create" PROVE named \in Workspaces
  <2>1. route \notin Requests!Scoped /\ route \in {"get", "create"}  BY <1>4 DEF Requests!Scoped
  <2>2. named # None  BY <2>1 DEF Requests!Send
  <2> QED  BY <2>2
<1>6. RequestSound(call, seats)
  BY <1>1, <1>4 DEF RequestSound, Past, Requests!Reached, Requests!Send
<1>5. \A S \in call.held : Consistent(S)  BY <1>1 DEF RequestsInductive
<1> QED  BY <1>2, <1>3, <1>5, <1>6, CallStep

\* A guard lets a call on, or turns it away.
LEMMA RefuseIsSound ==
  ASSUME RequestsInductive, NEW c \in Guarded, Requests!Refuse(c), calls[c].pc # "idle"
  PROVE  RequestsInductive'
<1> DEFINE call == [calls[c] EXCEPT !.pc = "refused"]
<1>1. calls[c] \in Requests!Call  BY RequestCallIsTyped
<1>2. /\ call \in Requests!Call /\ call.pc = "refused" /\ call.held = calls[c].held
      /\ call.route = calls[c].route
  BY <1>1 DEF Requests!Call
<1>3. UNCHANGED <<seats, changes>> /\ workspaces' \in SUBSET Workspaces
      /\ calls' = [calls EXCEPT ![c] = call]
  BY <1>1 DEF Requests!Refuse, Requests!Step, RequestsInductive, Requests!TypesHold
<1> HIDE DEF call
<1>4. RequestSound(call, seats)
  BY <1>2 DEF RequestSound, Past, Requests!Reached, RequestsInductive
<1> QED  BY <1>2, <1>3, <1>4, CallStep DEF RequestsInductive

LEMMA ValidateIsSound ==
  ASSUME RequestsInductive, NEW c \in Guarded, Requests!Validate(c)
  PROVE  RequestsInductive'
<1>1. calls[c] \in Requests!Call /\ calls[c].pc = "sent" /\ calls[c].route # "accept"
  BY RequestCallIsTyped DEF Requests!Validate
<1>2. CASE Requests!Refuse(c)  BY <1>1, <1>2, RefuseIsSound
<1>3. CASE ~Requests!Refuse(c)
  <2> DEFINE call == [calls[c] EXCEPT !.known = seats, !.pc = "known"]
  <2>1. Requests!IsSession(calls[c].token)  BY <1>3 DEF Requests!Validate
  <2>2. /\ call.pc = "known" /\ call.known = seats /\ call.held = calls[c].held
        /\ call.route = calls[c].route /\ call.token = calls[c].token
        /\ call.tool = calls[c].tool /\ call.large = calls[c].large
           /\ call.named = calls[c].named
    BY <1>1 DEF Requests!Call
  <2>3. call \in Requests!Call  BY <1>1 DEF Requests!Call, RequestsInductive, Requests!TypesHold
  <2>4. UNCHANGED <<seats, changes>> /\ workspaces' \in SUBSET Workspaces
        /\ calls' = [calls EXCEPT ![c] = call]
    BY <1>1, <1>3 DEF Requests!Validate, RequestsInductive, Requests!TypesHold
  <2> HIDE DEF call
  <2>5. RequestSound(calls[c], seats)  BY DEF RequestsInductive
  <2>6. RequestSound(call, seats)
    BY <1>1, <2>1, <2>2, <2>5 DEF RequestSound, Past, Requests!Reached
  <2> QED  BY <2>2, <2>3, <2>4, <2>6, CallStep DEF RequestsInductive
<1> QED  BY <1>2, <1>3

\* A step that only moves a call on.
LEMMA RequestMoveIsSound ==
  ASSUME RequestsInductive, NEW c \in Guarded, NEW pc \in {"handled", "creating"},
         Requests!Step(c, pc),
         \/ calls[c].route = "accept" /\ pc = "handled" /\ Requests!IsCapability(calls[c].token)
            /\ calls[c].pc = "sent"
         \/ calls[c].route = "relations" /\ pc = "handled" /\ calls[c].pc = "unit"
         \/ calls[c].route = "create" /\ pc = "creating" /\ calls[c].pc = "known"
            /\ Requests!Above(calls[c].known, calls[c].named) # {}
  PROVE  RequestsInductive'
<1> DEFINE call == [calls[c] EXCEPT !.pc = pc]
<1>1. calls[c] \in Requests!Call  BY RequestCallIsTyped
<1>2. /\ call.pc = pc /\ call.held = calls[c].held /\ call.known = calls[c].known
      /\ call.route = calls[c].route /\ call.token = calls[c].token
      /\ call.tool = calls[c].tool /\ call.large = calls[c].large /\ call.named = calls[c].named
      /\ call.workspace = calls[c].workspace /\ call.role = calls[c].role
  BY <1>1 DEF Requests!Call
<1>3. call \in Requests!Call  BY <1>1 DEF Requests!Call
<1>4. UNCHANGED <<seats, changes>> /\ workspaces' \in SUBSET Workspaces
      /\ calls' = [calls EXCEPT ![c] = call]
  BY <1>1 DEF Requests!Step, RequestsInductive, Requests!TypesHold
<1> HIDE DEF call
<1>5. RequestSound(calls[c], seats)  BY DEF RequestsInductive
<1>6. RequestSound(call, seats)
  <2>1. CASE /\ calls[c].route = "accept" /\ pc = "handled"
                /\ Requests!IsCapability(calls[c].token)
             /\ calls[c].pc = "sent"
    BY <1>2, <1>5, <2>1 DEF RequestSound, Past, Requests!Reached, Requests!Scoped,
                            Requests!Routes
  <2>2. CASE calls[c].route = "relations" /\ pc = "handled" /\ calls[c].pc = "unit"
    BY <1>2, <1>5, <2>2 DEF RequestSound, Past, Requests!Reached, GivenAtOnce, Requests!Scoped,
                            Requests!Routes
  <2>3. CASE /\ calls[c].route = "create" /\ pc = "creating" /\ calls[c].pc = "known"
             /\ Requests!Above(calls[c].known, calls[c].named) # {}
    <3>1. SeatAbove(call, call.named)  BY <1>2, <1>5, <2>3 DEF RequestSound, Past, SeatAbove
    <3> QED
      BY <1>2, <1>5, <2>3, <3>1 DEF RequestSound, Past, Requests!Reached, Requests!Scoped,
                                    Requests!Routes
  <2> QED  BY <2>1, <2>2, <2>3
<1> QED  BY <1>2, <1>3, <1>4, <1>6, CallStep DEF RequestsInductive

LEMMA ResolveIsSound ==
  ASSUME RequestsInductive, NEW c \in Guarded, Requests!ResolveWorkspace(c)
  PROVE  RequestsInductive'
<1> DEFINE w == IF calls[c].route = "get" \/ calls[c].named # None
                THEN calls[c].named ELSE calls[c].token.workspace
<1>1. /\ calls[c] \in Requests!Call /\ calls[c].pc = "known"
      /\ calls[c].route \in Requests!Scoped \cup {"get"} /\ calls[c].route # "accept"
  BY RequestCallIsTyped DEF Requests!ResolveWorkspace, Requests!Scoped
<1>2. CASE Requests!Refuse(c)  BY <1>1, <1>2, RefuseIsSound
<1>3. CASE ~Requests!Refuse(c)
  <2>1. PICK s \in Requests!SeatsFor(calls[c].known, w) :
          w \in workspaces /\ Requests!Admit(c, w, s.role, Requests!After(calls[c], s.role))
    BY <1>3 DEF Requests!ResolveWorkspace
  <2> DEFINE pc   == Requests!After(calls[c], s.role)
             call == [calls[c] EXCEPT !.workspace = w, !.role = s.role, !.pc = pc]
  <2>2. RequestSound(calls[c], seats)  BY DEF RequestsInductive
  <2>3. calls[c].known \in calls[c].held /\ calls[c].token \in Requests!Tokens
        /\ (calls[c].large => calls[c].tool = "createOpportunity")
        /\ Requests!IsSession(calls[c].token)
    BY <1>1, <2>2 DEF RequestSound, Past
  <2>4. /\ pc \in {"handled", "refused", "unit", "run", "staged"}
        /\ pc = "unit" => calls[c].route = "relations"
        /\ pc \in {"handled", "run", "staged"} /\ calls[c].route = "manage"
           => s.role \in Requests!AdminRoles
        /\ pc = "run" => s.role \in Requests!Permissions[calls[c].tool] /\ ~calls[c].large
    BY <1>1, <2>3, AfterTheGuard
  <2>5. Consistent(calls[c].known)  BY <2>3 DEF RequestsInductive
  <2>6. Requests!GivesRole(calls[c].known, w, s.role)  BY <2>1, <2>5, PickedSeatGivesRole
  <2>7. s.role \in Requests!Roles
    <3>1. s \in calls[c].known  BY <2>1 DEF Requests!SeatsFor, Requests!Above
    <3> QED  BY <1>1, <3>1 DEF Requests!Call, Requests!Seat
  <2>8. w \in Workspaces  BY <2>1 DEF RequestsInductive, Requests!TypesHold
  <2> HIDE DEF w, pc
  <2>9. call \in Requests!Call  BY <1>1, <2>4, <2>7, <2>8 DEF Requests!Call
  <2>10. /\ call.pc = pc /\ call.held = calls[c].held /\ call.known = calls[c].known
         /\ call.route = calls[c].route /\ call.token = calls[c].token
         /\ call.tool = calls[c].tool /\ call.large = calls[c].large
         /\ call.workspace = w /\ call.role = s.role
    BY <1>1 DEF Requests!Call
  <2>11. UNCHANGED <<seats, changes>> /\ workspaces' \in SUBSET Workspaces
         /\ calls' = [calls EXCEPT ![c] = call]
    <3>1. calls' = [calls EXCEPT ![c].workspace = w, ![c].role = s.role, ![c].pc = pc]
      BY <2>1 DEF Requests!Admit, pc
    <3>2. calls \in [Guarded -> Requests!Call]  BY DEF RequestsInductive, Requests!TypesHold
    <3> QED  BY <1>1, <2>1, <3>1, <3>2 DEF Requests!Admit, RequestsInductive, Requests!TypesHold
  <2> HIDE DEF call
  <2>12. GivenAtOnce(call)  BY <2>3, <2>6, <2>10 DEF GivenAtOnce
  <2>13. RequestSound(call, seats)
    BY <1>1, <2>2, <2>3, <2>4, <2>10, <2>12 DEF RequestSound, Past, Requests!Reached,
                                                Requests!Scoped, Requests!Routes
  <2> QED  BY <2>9, <2>10, <2>11, <2>13, CallStep DEF RequestsInductive
<1> QED  BY <1>2, <1>3

LEMMA CreateIsSound ==
  ASSUME RequestsInductive, NEW c \in Guarded, Requests!CreateWorkspace(c)
  PROVE  RequestsInductive'
<1> DEFINE w    == calls[c].named
           call == [calls[c] EXCEPT !.workspace = w, !.pc = "handled"]
<1>1. /\ calls[c] \in Requests!Call /\ calls[c].pc = "creating" /\ RequestSound(calls[c], seats)
  BY RequestCallIsTyped DEF Requests!CreateWorkspace, RequestsInductive
<1>2. calls[c].route = "create" /\ SeatAbove(calls[c], w)  BY <1>1 DEF RequestSound
<1>3. CASE Requests!Refuse(c)  BY <1>1, <1>3, RefuseIsSound
<1>4. CASE ~Requests!Refuse(c)
  <2>1. call \in Requests!Call  BY <1>1 DEF Requests!Call
  <2>2. /\ call.pc = "handled" /\ call.held = calls[c].held /\ call.known = calls[c].known
        /\ call.route = calls[c].route /\ call.token = calls[c].token
        /\ call.tool = calls[c].tool /\ call.large = calls[c].large /\ call.workspace = w
        /\ call.named = calls[c].named
    BY <1>1 DEF Requests!Call
  <2>3. /\ workspaces' = workspaces \cup {w} /\ UNCHANGED <<seats, changes>>
        /\ calls' = [calls EXCEPT ![c].workspace = w, ![c].pc = "handled"]
    BY <1>4 DEF Requests!CreateWorkspace
  <2>4. calls' = [calls EXCEPT ![c] = call]
    BY <1>1, <2>3 DEF RequestsInductive, Requests!TypesHold
  <2>5. w \in Workspaces  BY <1>1, <1>2 DEF RequestSound
  <2>6. SeatAbove(call, w)  BY <1>2, <2>2 DEF SeatAbove
  <2> HIDE DEF call, w
  <2>7. RequestSound(call, seats)
    BY <1>1, <1>2, <2>2, <2>6 DEF RequestSound, Past, Requests!Reached, Requests!Scoped,
                                  Requests!Routes
  <2>8. workspaces' \in SUBSET Workspaces
    BY <2>3, <2>5 DEF RequestsInductive, Requests!TypesHold
  <2> QED  BY <2>1, <2>2, <2>3, <2>4, <2>7, <2>8, CallStep DEF RequestsInductive
<1> QED  BY <1>3, <1>4


LEMMA RequestsNext == RequestsInductive /\ RequestsFit /\ [Requests!Next]_(Requests!vars)
                        => RequestsInductive'
<1> SUFFICES ASSUME RequestsInductive, RequestsFit, [Requests!Next]_(Requests!vars)
             PROVE  RequestsInductive'
  OBVIOUS
<1>1. ASSUME NEW c \in Guarded, Requests!Request(c) PROVE RequestsInductive'
  BY <1>1, SendIsSound DEF Requests!Request
<1>2. ASSUME NEW c \in Guarded, Requests!Validate(c) PROVE RequestsInductive'
  BY <1>2, ValidateIsSound
<1>3. ASSUME NEW c \in Guarded, Requests!ValidateCapability(c) PROVE RequestsInductive'
  <2>1. CASE Requests!IsCapability(calls[c].token)
    BY <1>3, <2>1, RequestMoveIsSound DEF Requests!ValidateCapability
  <2>2. CASE ~Requests!IsCapability(calls[c].token)
    BY <1>3, <2>2, RefuseIsSound DEF Requests!ValidateCapability, Requests!Refuse
  <2> QED  BY <2>1, <2>2
<1>4. ASSUME NEW c \in Guarded, Requests!ResolveWorkspace(c) PROVE RequestsInductive'
  BY <1>4, ResolveIsSound
<1>5. ASSUME NEW c \in Guarded, Requests!CheckUnit(c) PROVE RequestsInductive'
  <2>1. calls[c].route = "relations"
    BY <1>5 DEF Requests!CheckUnit, RequestsInductive, RequestSound
  <2>2. CASE calls[c].workspace \in Units
    BY <1>5, <2>1, <2>2, RequestMoveIsSound DEF Requests!CheckUnit
  <2>3. CASE calls[c].workspace \notin Units
    BY <1>5, <2>3, RefuseIsSound DEF Requests!CheckUnit, Requests!Refuse
  <2> QED  BY <2>2, <2>3
<1>6. ASSUME NEW c \in Guarded, Requests!ListWorkspaces(c) PROVE RequestsInductive'
  BY <1>6, RefuseIsSound DEF Requests!ListWorkspaces
<1>7. ASSUME NEW c \in Guarded, Requests!AuthorizeCreation(c) PROVE RequestsInductive'
  <2>1. CASE Requests!Above(calls[c].known, calls[c].named) # {}
               /\ calls[c].named \notin workspaces
    BY <1>7, <2>1, RequestMoveIsSound DEF Requests!AuthorizeCreation
  <2>2. CASE ~(Requests!Above(calls[c].known, calls[c].named) # {}
               /\ calls[c].named \notin workspaces)
    BY <1>7, <2>2, RefuseIsSound DEF Requests!AuthorizeCreation, Requests!Refuse
  <2> QED  BY <2>1, <2>2
<1>8. ASSUME NEW c \in Guarded, Requests!CreateWorkspace(c) PROVE RequestsInductive'
  BY <1>8, CreateIsSound
<1>9. ASSUME NEW w \in Workspaces, Requests!Remove(w) PROVE RequestsInductive'
  <2>1. Consistent(seats \ Requests!In(w)) /\ seats \ Requests!In(w) \in SUBSET Requests!Seat
    BY DEF RequestsInductive, Requests!TypesHold, Consistent
  <2> QED  BY <1>9, <2>1, BecomeIsSound DEF Requests!Remove
<1>10. ASSUME NEW w \in Workspaces, NEW role \in Given, Requests!Grant(w, role)
       PROVE  RequestsInductive'
  <2> DEFINE seat == [organization |-> Home[w], workspace |-> w, role |-> role]
  <2>1. seat \in Requests!Seat  BY DEF Requests!Seat, Requests!Organizations, RequestsFit
  <2>2. Consistent((seats \ Requests!In(w)) \cup {seat})  BY DEF RequestsInductive, Consistent
  <2>3. (seats \ Requests!In(w)) \cup {seat} \in SUBSET Requests!Seat
    BY <2>1 DEF RequestsInductive, Requests!TypesHold
  <2> QED  BY <1>10, <2>2, <2>3, BecomeIsSound DEF Requests!Grant
<1>11. ASSUME NEW w \in Workspaces, Requests!Found(w) PROVE RequestsInductive'
  BY <1>11 DEF Requests!Found, RequestsInductive, Requests!TypesHold, Consistent
<1>12. CASE UNCHANGED Requests!vars
  BY <1>12 DEF Requests!vars, RequestsInductive, Requests!TypesHold, Consistent
<1> QED
  BY <1>1, <1>2, <1>3, <1>4, <1>5, <1>6, <1>7, <1>8, <1>9, <1>10, <1>11, <1>12
  DEF Requests!Next, Requests!Handle

LEMMA RequestsMeanHeld == RequestsInductive => Requests!AuthorityWasHeld
<1> SUFFICES ASSUME RequestsInductive, NEW c \in Guarded, Requests!Reached(calls[c])
             PROVE  LET call == calls[c]
                    IN  IF call.route = "accept" THEN call.token = Requests!Capability
                        ELSE /\ call.token \notin {Requests!Selection, Requests!Capability}
                             /\ IF call.route = "create"
                                THEN \E S \in call.held : \E r \in Requests!OrgWideRoles :
                                       \E s \in S : s.role = r /\ s.workspace = None
                                                    /\ s.organization = Home[call.workspace]
                                ELSE \E S \in call.held : Requests!GivesRole(S, call.workspace,
                                  call.role)
                             /\ call.route = "manage" => call.role \in Requests!AdminRoles
                             /\ call.pc = "run" =>
                                call.role \in Requests!Permissions[call.tool] /\ ~call.large
  BY DEF Requests!AuthorityWasHeld
<1>1. RequestSound(calls[c], seats) /\ Past(calls[c]) /\ calls[c].token \in Requests!Tokens
  BY DEF RequestsInductive, RequestSound, Requests!Reached, Past
<1>2. CASE calls[c].route = "accept"
  BY <1>1, <1>2, StrategiesDiffer DEF RequestSound
<1>3. CASE calls[c].route # "accept"
  <2>1. calls[c].token \notin {Requests!Selection, Requests!Capability}
    BY <1>1, <1>3, StrategiesDiffer DEF RequestSound
  <2>2. CASE calls[c].route = "create"
    <3>1. SeatAbove(calls[c], calls[c].workspace)  BY <1>1, <2>2 DEF RequestSound
    <3> QED  BY <1>1, <2>1, <2>2, <3>1 DEF SeatAbove, Requests!Above, RequestSound
  <2>3. CASE calls[c].route # "create"
    <3>1. calls[c].route \in Requests!Scoped \cup {"get"} /\ calls[c].pc # "known"
      BY <1>1, <1>3, <2>3 DEF RequestSound, Requests!Reached, Requests!Routes
    <3>2. GivenAtOnce(calls[c])  BY <1>1, <3>1 DEF RequestSound
    <3> QED  BY <1>1, <1>3, <2>1, <2>3, <3>2 DEF GivenAtOnce, RequestSound
  <2> QED  BY <2>2, <2>3
<1> QED  BY <1>2, <1>3

-----------------------------------------------------------------------------
(* Cancelled runs (AgentRuns).                                            *)

IsUnstarted(call) == call.pc \in {"entered", "recorded"}

\* A run that has yet to look at its controller, and whose session has been its own
\* since it entered: either the session still has that controller, or it is aborted.
Linked(c) ==
  IsUnstarted(calls[c]) /\ ~calls[c].parted =>
    \/ activeExecutions[calls[c].session] = calls[c].controller
    \/ Runs!Aborted(calls[c].controller)

\* Who was told CANCELLED before its run looked will find the controller aborted.
Promised(c) ==
  c \in asked.cancelled /\ ~calls[c].parted =>
    /\ ~calls[c].carried
    /\ IsUnstarted(calls[c]) => Runs!Aborted(calls[c].controller)

RunSound(c) ==
  /\ Linked(c) /\ Promised(c)
  /\ c \in asked.misled => calls[c].parted
  /\ calls[c].pc = "idle" => c \notin asked.cancelled /\ c \notin asked.misled
  /\ calls[c].pc # "idle" => calls[c].session \in Sessions /\ calls[c].controller # None
  /\ calls[c].pc = "idle" \/ IsUnstarted(calls[c]) => ~calls[c].carried

RunsInductive == Runs!TypesHold /\ \A c \in Calls : RunSound(c)

-----------------------------------------------------------------------------

LEMMA RunsBegin == Runs!Init => RunsInductive
<1> SUFFICES ASSUME Runs!Init PROVE RunsInductive  OBVIOUS
<1>1. Runs!Idle \in Runs!Call /\ Runs!Idle.pc = "idle" /\ ~Runs!Idle.carried
  BY DEF Runs!Idle, Runs!Call
<1>2. Runs!TypesHold  BY <1>1 DEF Runs!Init, Runs!TypesHold
<1>3. \A c \in Calls : calls[c].pc = "idle" /\ ~calls[c].carried /\ c \notin asked.cancelled
        /\ c \notin asked.misled
  BY <1>1 DEF Runs!Init
<1>4. \A c \in Calls : RunSound(c)
  BY <1>3 DEF RunSound, Linked, Promised, IsUnstarted
<1> QED  BY <1>2, <1>4 DEF RunsInductive

LEMMA RunCallIsTyped == ASSUME RunsInductive, NEW c \in Calls PROVE calls[c] \in Runs!Call
BY DEF RunsInductive, Runs!TypesHold

\* A run joins the controller of its session, or brings its own.
LEMMA EnterIsSound ==
  ASSUME RunsInductive, RunsFit, NEW c \in Calls, Runs!EnterRun(c)
  PROVE  RunsInductive'
<1>1. PICK s \in Sessions :
        /\ calls' = [calls EXCEPT ![c] = [Runs!Idle EXCEPT
                       !.pc = "entered", !.session = s, !.controller = Runs!Controller(c, s)]]
        /\ activeExecutions' = [activeExecutions EXCEPT ![s] = Runs!Controller(c, s)]
        /\ asked' = IF activeExecutions[s] = "pre-emptive-abort"
                    THEN [asked EXCEPT !.cancelled = @ \cup {c}] ELSE asked
  BY DEF Runs!EnterRun
<1> DEFINE k    == Runs!Controller(c, s)
           call == [Runs!Idle EXCEPT !.pc = "entered", !.session = s, !.controller = k]
<1>2. k \in Calls \cup {"pre-emptive-abort"} /\ k # None
      /\ (activeExecutions[s] # None => k = activeExecutions[s])
  BY DEF Runs!Controller, RunsInductive, Runs!TypesHold, RunsFit
<1>3. /\ call.pc = "entered" /\ call.session = s /\ call.controller = k
      /\ call.carried = FALSE /\ call.parted = FALSE
  BY DEF Runs!Idle
<1>4. call \in Runs!Call  BY <1>2 DEF Runs!Idle, Runs!Call
<1>5. UNCHANGED <<completedExecutions, aborted>> /\ calls[c].pc = "idle"
  BY DEF Runs!EnterRun, Runs!At
<1>6. /\ calls' = [calls EXCEPT ![c] = call]
      /\ activeExecutions' = [activeExecutions EXCEPT ![s] = k]
  BY <1>1
<1> HIDE DEF call, k
<1>7. asked'.misled = asked.misled
      /\ asked'.cancelled \subseteq asked.cancelled \cup {c}
      /\ (c \in asked'.cancelled =>
         c \in asked.cancelled \/ activeExecutions[s] = "pre-emptive-abort")
      /\ asked' \in [cancelled : SUBSET Calls, misled : SUBSET Calls]
  BY <1>1 DEF RunsInductive, Runs!TypesHold
<1>8. Runs!TypesHold'  BY <1>2, <1>4, <1>5, <1>6, <1>7 DEF RunsInductive, Runs!TypesHold
<1>9. ASSUME NEW d \in Calls PROVE RunSound(d)'
  <2>1. CASE d = c
    <3>1. calls'[c] = call /\ activeExecutions'[s] = k
      BY <1>6 DEF RunsInductive, Runs!TypesHold
    <3>2. Linked(c)'  BY <1>3, <3>1 DEF Linked
    <3>3. c \in asked'.cancelled => k = "pre-emptive-abort"
      BY <1>2, <1>5, <1>7 DEF RunsInductive, RunSound, Runs!TypesHold, RunsFit
    <3>4. Promised(c)'  BY <1>3, <3>1, <3>3 DEF Promised, Runs!Aborted
    <3> QED  BY <1>2, <1>3, <1>5, <1>7, <2>1, <3>1, <3>2, <3>4 DEF RunSound, RunsInductive
  <2>2. CASE d # c
    <3>1. calls'[d] = calls[d]  BY <1>6, <2>2 DEF RunsInductive, Runs!TypesHold
    <3>2. \A t \in Sessions : activeExecutions[t] # None
            => activeExecutions'[t] = activeExecutions[t]
      BY <1>2, <1>6 DEF RunsInductive, Runs!TypesHold
    <3>3. (d \in asked'.cancelled <=> d \in asked.cancelled)
            /\ (d \in asked'.misled <=> d \in asked.misled)
      BY <1>1, <2>2 DEF RunsInductive, Runs!TypesHold
    <3>4. RunSound(d)  BY DEF RunsInductive
    <3>5. Linked(d)'  BY <1>5, <3>1, <3>2, <3>4 DEF Linked, RunSound, IsUnstarted, Runs!Aborted
    <3>6. Promised(d)'  BY <1>5, <3>1, <3>3, <3>4 DEF Promised, RunSound, Runs!Aborted
    <3> QED  BY <3>1, <3>3, <3>4, <3>5, <3>6 DEF RunSound, IsUnstarted
  <2> QED  BY <2>1, <2>2
<1> QED  BY <1>8, <1>9 DEF RunsInductive
\* A step that leaves the sessions, the controllers and the answers alone.
LEMMA RunMoveIsSound ==
  ASSUME RunsInductive, NEW c \in Calls, NEW pc \in {"recorded", "running", "answered"},
         NEW carried \in BOOLEAN,
         calls' = [calls EXCEPT ![c].pc = pc, ![c].carried = carried],
         UNCHANGED <<Runs!registries, aborted, asked>>, calls[c].pc # "idle",
         pc = "recorded" => calls[c].pc = "entered" /\ carried = calls[c].carried,
         pc = "answered" => carried = calls[c].carried,
         pc = "running" => calls[c].pc = "recorded" /\ ~Runs!Aborted(calls[c].controller)
  PROVE  RunsInductive'
<1>1. calls[c] \in Runs!Call  BY RunCallIsTyped
<1> DEFINE call == [calls[c] EXCEPT !.pc = pc, !.carried = carried]
<1>2. /\ call.pc = pc /\ call.carried = carried /\ call.session = calls[c].session
      /\ call.controller = calls[c].controller /\ call.parted = calls[c].parted
         /\ call \in Runs!Call
  BY <1>1 DEF Runs!Call
<1>3. calls' = [calls EXCEPT ![c] = call]  BY <1>1 DEF RunsInductive, Runs!TypesHold
<1> HIDE DEF call
<1>4. Runs!TypesHold'  BY <1>2, <1>3 DEF RunsInductive, Runs!TypesHold, Runs!registries
<1>5. ASSUME NEW d \in Calls PROVE RunSound(d)'
  <2>1. RunSound(d)  BY DEF RunsInductive
  <2>2. UNCHANGED <<activeExecutions, aborted, asked>>  BY DEF Runs!registries
  <2>3. calls'[d] = IF d = c THEN call ELSE calls[d]  BY <1>3 DEF RunsInductive, Runs!TypesHold
  <2>4. Linked(d)'  BY <1>2, <2>1, <2>2, <2>3 DEF RunSound, Linked, IsUnstarted, Runs!Aborted
  <2>5. Promised(d)'
    BY <1>2, <2>1, <2>2, <2>3 DEF RunSound, Promised, IsUnstarted, Runs!Aborted
  <2> QED  BY <1>2, <2>1, <2>2, <2>3, <2>4, <2>5 DEF RunSound, IsUnstarted
<1> QED  BY <1>4, <1>5 DEF RunsInductive
\* The end of a run closes its session, whoever has entered it since.
LEMMA CloseIsSound ==
  ASSUME RunsInductive, NEW c \in Calls, NEW s \in Sessions, NEW pc \in {"ended", "answered"},
         calls[c].pc # "idle",
         activeExecutions' = [activeExecutions EXCEPT ![s] = None],
         completedExecutions' = completedExecutions \cup {s},
         UNCHANGED <<aborted, asked>>,
         calls' = [d \in Calls |->
           IF d = c THEN [calls[d] EXCEPT !.pc = pc]
           ELSE IF d \in Runs!Unstarted(s) THEN [calls[d] EXCEPT !.parted = TRUE] ELSE calls[d]]
  PROVE  RunsInductive'
<1>1. ASSUME NEW d \in Calls
      PROVE  /\ calls'[d] \in Runs!Call
             /\ calls'[d].session = calls[d].session
             /\ calls'[d].controller = calls[d].controller
             /\ calls'[d].carried = calls[d].carried
             /\ calls'[d].pc = IF d = c THEN pc ELSE calls[d].pc
             /\ calls'[d].parted = IF d # c /\ d \in Runs!Unstarted(s) THEN TRUE
                ELSE calls[d].parted
  <2>1. calls[d] \in Runs!Call  BY RunCallIsTyped
  <2>2. CASE d = c  BY <2>1, <2>2 DEF Runs!Call
  <2>3. CASE d # c /\ d \in Runs!Unstarted(s)  BY <2>1, <2>3 DEF Runs!Call
  <2>4. CASE d # c /\ d \notin Runs!Unstarted(s)  BY <2>1, <2>4
  <2> QED  BY <2>2, <2>3, <2>4
<1>2. Runs!TypesHold'
  <2>1. calls' \in [Calls -> Runs!Call]  BY <1>1
  <2> QED  BY <2>1 DEF RunsInductive, Runs!TypesHold
<1>3. ASSUME NEW d \in Calls PROVE RunSound(d)'
  <2>1. RunSound(d)  BY DEF RunsInductive
  <2>2. CASE d = c
    BY <1>1, <2>1, <2>2 DEF RunSound, Linked, Promised, IsUnstarted
  <2>3. CASE d # c
    <3>1. Linked(d)'
      <4>1. CASE d \in Runs!Unstarted(s)  BY <1>1, <2>3, <4>1 DEF Linked
      <4>2. CASE d \notin Runs!Unstarted(s)
        <5>1. IsUnstarted(calls[d]) => calls[d].session # s
          BY <4>2 DEF Runs!Unstarted, IsUnstarted
        <5>2. IsUnstarted(calls[d])
                => activeExecutions'[calls[d].session] = activeExecutions[calls[d].session]
          BY <5>1, <2>1 DEF RunSound, RunsInductive, Runs!TypesHold
        <5> QED  BY <1>1, <2>1, <2>3, <4>2, <5>2 DEF RunSound, Linked, IsUnstarted, Runs!Aborted
      <4> QED  BY <4>1, <4>2
    <3>2. Promised(d)'  BY <1>1, <2>1, <2>3 DEF RunSound, Promised, IsUnstarted, Runs!Aborted
    <3> QED  BY <1>1, <2>1, <2>3, <3>1, <3>2 DEF RunSound, IsUnstarted
  <2> QED  BY <2>2, <2>3
<1> QED  BY <1>2, <1>3 DEF RunsInductive

LEMMA RunIsSound ==
  ASSUME RunsInductive, RunsFit, NEW c \in Calls, Runs!Run(c)
  PROVE  RunsInductive'
<1>0. calls[c] \in Runs!Call  BY RunCallIsTyped
<1>1. CASE Runs!EnterRun(c)  BY <1>1, EnterIsSound
<1>2. CASE Runs!RecordIntent(c)
  <2>1. PICK written \in BOOLEAN :
          calls' = [calls EXCEPT ![c].pc = IF written THEN "recorded" ELSE "answered"]
    BY <1>2 DEF Runs!RecordIntent
  <2> DEFINE pc == IF written THEN "recorded" ELSE "answered"
  <2>2. calls' = [calls EXCEPT ![c].pc = pc, ![c].carried = calls[c].carried]
    BY <1>0, <2>1 DEF RunsInductive, Runs!TypesHold, Runs!Call
  <2>3. calls[c].carried \in BOOLEAN /\ pc \in {"recorded", "answered"}  BY <1>0 DEF Runs!Call
  <2> HIDE DEF pc
  <2> QED  BY <1>2, <2>2, <2>3, RunMoveIsSound DEF Runs!RecordIntent, Runs!At
<1>3. CASE Runs!StartRun(c)
  BY <1>3, RunMoveIsSound DEF Runs!StartRun, Runs!At
<1>4. CASE Runs!StopRun(c) \/ Runs!EndRun(c)
  <2>1. calls[c].session \in Sessions
    BY <1>4, <1>0 DEF Runs!StopRun, Runs!EndRun, Runs!At, Runs!Call, RunsInductive, RunSound,
                      IsUnstarted
  <2> QED  BY <1>4, <2>1, CloseIsSound DEF Runs!StopRun, Runs!EndRun, Runs!Close, Runs!At
<1>5. CASE Runs!RecordResult(c)
  <2>1. CASE calls' = [calls EXCEPT ![c].pc = "answered"] /\ UNCHANGED Runs!registries
    <3>1. calls' = [calls EXCEPT ![c].pc = "answered", ![c].carried = calls[c].carried]
      BY <1>0, <2>1 DEF RunsInductive, Runs!TypesHold, Runs!Call
    <3>2. calls[c].carried \in BOOLEAN  BY <1>0 DEF Runs!Call
    <3> QED  BY <1>5, <2>1, <3>1, <3>2, RunMoveIsSound DEF Runs!RecordResult, Runs!At
  <2>2. CASE ~(calls' = [calls EXCEPT ![c].pc = "answered"] /\ UNCHANGED Runs!registries)
    <3>1. calls[c].session \in Sessions
      BY <1>5, <1>0 DEF Runs!RecordResult, Runs!At, Runs!Call, RunsInductive, RunSound
    <3> QED  BY <1>5, <2>2, <3>1, CloseIsSound DEF Runs!RecordResult, Runs!At
  <2> QED  BY <2>1, <2>2
<1> QED  BY <1>1, <1>2, <1>3, <1>4, <1>5 DEF Runs!Run

\* What a session answers to a cancellation is kept for the runs in it.
LEMMA CancelIsSound ==
  ASSUME RunsInductive, RunsFit, NEW s \in Sessions, Runs!Cancel(s)
  PROVE  RunsInductive'
<1>0. ASSUME NEW d \in Calls PROVE RunSound(d) /\ calls[d] \in Runs!Call
  BY RunCallIsTyped DEF RunsInductive
<1>1. CASE Runs!RefuseCancellation(s)
  <2>1. /\ UNCHANGED <<activeExecutions, completedExecutions, aborted, calls>>
        /\ asked' = [asked EXCEPT !.misled = @
           \cup {c \in Runs!Unstarted(s) : ~Runs!Aborted(calls[c].controller)}]
    BY <1>1 DEF Runs!RefuseCancellation, Runs!registries
  <2>2. Runs!TypesHold'  BY <2>1 DEF RunsInductive, Runs!TypesHold, Runs!Unstarted
  <2>3. asked'.cancelled = asked.cancelled
        /\ asked'.misled = asked.misled
           \cup {c \in Runs!Unstarted(s) : ~Runs!Aborted(calls[c].controller)}
    BY <2>1 DEF RunsInductive, Runs!TypesHold
  <2>4. ASSUME NEW d \in Calls PROVE RunSound(d)'
    <3>1. Linked(d)' /\ Promised(d)'
      BY <1>0, <2>1, <2>3 DEF RunSound, Linked, Promised, IsUnstarted, Runs!Aborted
    <3>2. ASSUME d \in Runs!Unstarted(s), ~Runs!Aborted(calls[d].controller)
          PROVE  calls[d].parted
      <4>1. IsUnstarted(calls[d]) /\ calls[d].session = s
        BY <3>2 DEF Runs!Unstarted, IsUnstarted
      <4>2. activeExecutions[s] = None  BY <1>1 DEF Runs!RefuseCancellation, Runs!Resolved
      <4>3. calls[d].controller # None  BY <1>0, <4>1 DEF RunSound, IsUnstarted
      <4> QED  BY <1>0, <3>2, <4>1, <4>2, <4>3 DEF RunSound, Linked
    <3>3. d \in Runs!Unstarted(s) => calls[d].pc # "idle"  BY DEF Runs!Unstarted
    <3> QED  BY <1>0, <2>1, <2>3, <3>1, <3>2, <3>3 DEF RunSound, IsUnstarted
  <2> QED  BY <2>2, <2>4 DEF RunsInductive
<1>2. CASE Runs!CancelAhead(s)
  <2>1. /\ UNCHANGED <<completedExecutions, aborted, calls, asked>>
        /\ activeExecutions[s] = None
        /\ activeExecutions' = [activeExecutions EXCEPT ![s] = "pre-emptive-abort"]
    BY <1>2 DEF Runs!CancelAhead
  <2>2. Runs!TypesHold'  BY <2>1 DEF RunsInductive, Runs!TypesHold
  <2>3. ASSUME NEW d \in Calls PROVE RunSound(d)'
    <3>1. Linked(d)'
      <4>1. CASE calls[d].session = s
        BY <1>0, <2>1, <4>1 DEF RunSound, Linked, IsUnstarted, Runs!Aborted
      <4>2. CASE calls[d].session # s
        BY <1>0, <2>1, <4>2 DEF RunSound, Linked, IsUnstarted, Runs!Aborted, RunsInductive,
                                Runs!TypesHold
      <4> QED  BY <4>1, <4>2
    <3>2. Promised(d)'  BY <1>0, <2>1 DEF RunSound, Promised, IsUnstarted, Runs!Aborted
    <3> QED  BY <1>0, <2>1, <3>1, <3>2 DEF RunSound, IsUnstarted
  <2> QED  BY <2>2, <2>3 DEF RunsInductive
<1>3. CASE Runs!CancelActive(s)
  <2>1. /\ aborted' = aborted \cup ({activeExecutions[s]} \cap Calls)
        /\ activeExecutions' = [activeExecutions EXCEPT ![s] = None]
        /\ completedExecutions' = completedExecutions \cup {s}
        /\ asked' = [asked EXCEPT !.cancelled = @ \cup Runs!Unstarted(s)]
        /\ UNCHANGED calls /\ activeExecutions[s] # None
    BY <1>3 DEF Runs!CancelActive
  <2>2. Runs!TypesHold'  BY <2>1 DEF RunsInductive, Runs!TypesHold, Runs!Unstarted
  <2>3. asked'.misled = asked.misled /\ asked'.cancelled = asked.cancelled
          \cup Runs!Unstarted(s)
    BY <2>1 DEF RunsInductive, Runs!TypesHold
  <2>4. \A k : Runs!Aborted(k) => Runs!Aborted(k)'  BY <2>1 DEF Runs!Aborted
  <2>5. ASSUME NEW d \in Calls PROVE RunSound(d)'
    <3>1. ASSUME d \in Runs!Unstarted(s), ~calls[d].parted
          PROVE  Runs!Aborted(calls[d].controller)'
      <4>1. IsUnstarted(calls[d]) /\ calls[d].session = s
        BY <3>1 DEF Runs!Unstarted, IsUnstarted
      <4>2. CASE activeExecutions[s] = calls[d].controller
        <5>1. calls[d].controller \in Calls \cup {"pre-emptive-abort"}
          BY <2>1, <4>2 DEF RunsInductive, Runs!TypesHold
        <5> QED  BY <2>1, <4>2, <5>1 DEF Runs!Aborted
      <4>3. CASE Runs!Aborted(calls[d].controller)  BY <2>1, <4>3 DEF Runs!Aborted
      <4> QED  BY <1>0, <3>1, <4>1, <4>2, <4>3 DEF RunSound, Linked
    <3>2. Linked(d)'
      <4>1. CASE d \in Runs!Unstarted(s)  BY <2>1, <3>1, <4>1 DEF Linked, Runs!Aborted
      <4>2. CASE d \notin Runs!Unstarted(s)
        <5>1. IsUnstarted(calls[d]) => calls[d].session # s
          BY <4>2 DEF Runs!Unstarted, IsUnstarted
        <5> QED
          BY <1>0, <2>1, <5>1 DEF RunSound, Linked, IsUnstarted, Runs!Aborted, RunsInductive,
                                  Runs!TypesHold
      <4> QED  BY <4>1, <4>2
    <3>3. Promised(d)'
      <4>1. CASE d \in Runs!Unstarted(s)
        <5>1. ~calls[d].carried  BY <1>0, <4>1 DEF RunSound, Runs!Unstarted, IsUnstarted
        <5> QED  BY <2>1, <3>1, <4>1, <5>1 DEF Promised, Runs!Aborted
      <4>2. CASE d \notin Runs!Unstarted(s)
        BY <1>0, <2>1, <2>3, <4>2 DEF RunSound, Promised, IsUnstarted, Runs!Aborted
      <4> QED  BY <4>1, <4>2
    <3>4. d \in Runs!Unstarted(s) => calls[d].pc # "idle"  BY DEF Runs!Unstarted
    <3> QED  BY <1>0, <2>1, <2>3, <3>2, <3>3, <3>4 DEF RunSound, IsUnstarted
  <2> QED  BY <2>2, <2>5 DEF RunsInductive
<1> QED  BY <1>1, <1>2, <1>3 DEF Runs!Cancel

LEMMA RestartIsSound == ASSUME RunsInductive, Runs!Restart PROVE RunsInductive'
<1>1. ASSUME NEW d \in Calls
      PROVE  /\ calls'[d] \in Runs!Call /\ ~IsUnstarted(calls'[d])
             /\ calls'[d].carried = calls[d].carried /\ calls'[d].parted = calls[d].parted
             /\ calls'[d].session = calls[d].session
                /\ calls'[d].controller = calls[d].controller
             /\ calls'[d].pc = "idle" <=> calls[d].pc = "idle"
  <2>1. calls[d] \in Runs!Call  BY RunCallIsTyped
  <2>2. CASE calls[d].pc = "idle"  BY <2>1, <2>2 DEF Runs!Restart, Runs!At, IsUnstarted
  <2>3. CASE calls[d].pc # "idle"
    BY <2>1, <2>3 DEF Runs!Restart, Runs!At, IsUnstarted, Runs!Call
  <2> QED  BY <2>2, <2>3
<1>2. Runs!TypesHold'
  <2>1. calls' \in [Calls -> Runs!Call]  BY <1>1 DEF Runs!Restart
  <2> QED  BY <2>1 DEF Runs!Restart, RunsInductive, Runs!TypesHold
<1>3. ASSUME NEW d \in Calls PROVE RunSound(d)'
  <2>1. RunSound(d)  BY DEF RunsInductive
  <2> QED  BY <1>1, <2>1 DEF RunSound, Linked, Promised, Runs!Restart
<1> QED  BY <1>2, <1>3 DEF RunsInductive


LEMMA RunsNext == RunsInductive /\ RunsFit /\ [Runs!Next]_(Runs!vars) => RunsInductive'
<1> SUFFICES ASSUME RunsInductive, RunsFit, [Runs!Next]_(Runs!vars) PROVE RunsInductive'
  OBVIOUS
<1>1. ASSUME NEW c \in Calls, Runs!Run(c) PROVE RunsInductive'  BY <1>1, RunIsSound
<1>2. ASSUME NEW s \in Sessions, Runs!Cancel(s) PROVE RunsInductive'  BY <1>2, CancelIsSound
<1>3. CASE Runs!Restart  BY <1>3, RestartIsSound
<1>4. CASE UNCHANGED Runs!vars
  BY <1>4 DEF Runs!vars, RunsInductive, Runs!TypesHold, RunSound, Linked, Promised,
              IsUnstarted, Runs!Aborted
<1> QED  BY <1>1, <1>2, <1>3, <1>4 DEF Runs!Next

-----------------------------------------------------------------------------
(* Records refer to records of their workspace (CrmRecords).              *)

\* The locals of a request.
Shaped(f) == DOMAIN f = {"pc", "op", "kind", "workspace", "row", "refers", "left"}

\* What is referred to from w, but by the free relations, belongs there; whatever is
\* referred to is of the right kind.
Inside(refers, w, table, people, then, free) ==
  \A r \in DOMAIN Records!Nothing :
    refers[r] # None =>
      IF r = "owner" THEN r \in free \/ refers[r] \in people[w] \/ <<w,
        refers[r]>> \in then.departed
      ELSE /\ refers[r] \in Records!Ids /\ table[refers[r]] # None /\ table[refers[r]].kind = r
           /\ r \in free \/ refers[r] \in then.moved \/ table[refers[r]].workspace = w

\* The relations of a record that may lead elsewhere.
Free(x, then) == {r \in DOMAIN Records!Nothing : x \in then.moved \/ <<x, r>> \in then.strayed}

\* What a request has found out by the time it writes.
RecordSound(c, f, table, people, then) ==
  /\ Shaped(f)
  /\ f.pc = "idle" => table[c] = None
  /\ f.pc \in {"check", "tell"} =>
       /\ f.op \in {"create", "update", "move"}
       /\ f.kind \in Records!Kinds /\ f.workspace \in Workspaces /\ f.row \in Records!Ids
          /\ f.refers \in Records!Refs
       /\ Inside(f.refers, f.workspace, table, people, then, Records!Unchecked(f.op, f.kind))
       /\ f.op = "create" => f.row = c /\ table[c] = None
       /\ f.op # "create" => /\ table[f.row] # None
                             /\ f.row \in then.moved \/ table[f.row].workspace = f.workspace
       /\ f.op = "move" => f.left = <<"stage">> \/ (f.left = << >> /\ f.refers["stage"] # None)
  /\ f.pc = "tell" => f.op = "move" /\ f.left = << >>

Histories ==
  [departed : SUBSET (Workspaces \X Users), moving : SUBSET Editors,
      blurred : SUBSET Records!Ids,
   moved : SUBSET Records!Ids, strayed : SUBSET (Records!Ids \X DOMAIN Records!Nothing)]

Typed ==
  /\ rows \in [Records!Ids -> Records!Row \cup {None}]
  /\ members \in [Workspaces -> SUBSET Users]
  /\ trail \in [Records!Ids -> Seq(Records!Targets)]
  /\ DOMAIN calls = Editors
  /\ past \in Histories

Related ==
  \A x \in Records!Ids : rows[x] # None =>
    Inside(rows[x].refers, rows[x].workspace, rows, members, past, Free(x, past))

\* A deal that nothing has blurred is where its movers have put it, and without
\* movers where its last activity says.
Follows(x, row, told, state, then) ==
  /\ told # << >> => row # None
  /\ x \notin then.blurred =>
       /\ \A d \in then.moving : state[d].row = x
          => row.refers["stage"] = state[d].refers["stage"]
       /\ told # << >> /\ ~(\E d \in then.moving : state[d].row = x) =>
            told[Len(told)] = row.refers["stage"]

RecordsInductive ==
  /\ Typed
  /\ Related
  /\ \A c \in Editors : RecordSound(c, calls[c], rows, members, past)
  /\ \A c \in Editors : c \in past.moving <=> calls[c].pc = "tell"
  /\ \A x \in Records!Ids : Follows(x, rows[x], trail[x], calls, past)

-----------------------------------------------------------------------------
(* About the operators.                                                    *)

\* Records keep their kind, and their place unless they are moved; who leaves and
\* what is moved is remembered.
Later(table, people, then, table2, people2, then2) ==
  /\ \A y \in Records!Ids : table[y] # None =>
       /\ table2[y] # None /\ table2[y].kind = table[y].kind
       /\ y \in then2.moved \/ table2[y].workspace = table[y].workspace
  /\ \A w \in Workspaces : \A p \in people[w] : p \in people2[w] \/ <<w, p>> \in then2.departed
  /\ then.departed \subseteq then2.departed /\ then.moved \subseteq then2.moved
  /\ then.strayed \subseteq then2.strayed

\* What belongs to a workspace goes on to.
LEMMA InsideStays ==
  ASSUME NEW table, NEW people, NEW then, NEW table2, NEW people2, NEW then2,
         Later(table, people, then, table2, people2, then2)
  PROVE  \A refers, free : \A w \in Workspaces :
           Inside(refers, w, table, people, then, free)
             => Inside(refers, w, table2, people2, then2, free)
BY DEF Inside, Later

\* The more is free, the less is asked.
LEMMA InsideWidens ==
  ASSUME NEW refers, NEW w, NEW table, NEW people, NEW then, NEW free, NEW more,
         Inside(refers, w, table, people, then, free), free \subseteq more
  PROVE  Inside(refers, w, table, people, then, more)
BY DEF Inside

\* What a request has found out stays so.
LEMMA SoundStays ==
  ASSUME NEW c, NEW f, NEW table, NEW people, NEW then, NEW table2, NEW people2, NEW then2,
         Later(table, people, then, table2, people2, then2),
         table[c] = None => table2[c] = None,
         RecordSound(c, f, table, people, then)
  PROVE  RecordSound(c, f, table2, people2, then2)
<1>1. f.pc \in {"check", "tell"} =>
        Inside(f.refers, f.workspace, table2, people2, then2, Records!Unchecked(f.op, f.kind))
  BY InsideStays DEF RecordSound
<1>2. f.pc \in {"check", "tell"} /\ f.op # "create" =>
        /\ table2[f.row] # None
        /\ f.row \in then2.moved \/ table2[f.row].workspace = f.workspace
  BY DEF RecordSound, Later
<1> QED  BY <1>1, <1>2 DEF RecordSound

\* A body without relations belongs everywhere.
LEMMA NothingIsInside ==
  ASSUME NEW w, NEW table, NEW people, NEW then, NEW free
  PROVE  Records!Nothing \in Records!Refs /\ Inside(Records!Nothing, w, table, people, then,
           free)
BY DEF Records!Nothing, Records!Refs, Records!Targets, Inside

\* Fields that a body leaves out stay, the others are those of the body.
LEMMA MergedIsInside ==
  ASSUME NEW old \in Records!Refs, NEW new \in Records!Refs, NEW w, NEW table, NEW people,
         NEW then, NEW free,
         Inside(old, w, table, people, then, free), Inside(new, w, table, people, then, free)
  PROVE  /\ Records!Merged(old, new) \in Records!Refs
         /\ Inside(Records!Merged(old, new), w, table, people, then, free)
         /\ \A r \in DOMAIN Records!Nothing :
              Records!Merged(old, new)[r] = IF new[r] = None THEN old[r] ELSE new[r]
<1>1. DOMAIN old = DOMAIN Records!Nothing  BY DEF Records!Refs
<1>2. \A r \in DOMAIN Records!Nothing : Records!Merged(old, new)[r] = IF new[r] = None
        THEN old[r] ELSE new[r]
  BY <1>1 DEF Records!Merged
<1>3. Records!Merged(old, new) \in Records!Refs  BY <1>1 DEF Records!Merged, Records!Refs
<1>4. Inside(Records!Merged(old, new), w, table, people, then, free)  BY <1>2 DEF Inside
<1> QED  BY <1>2, <1>3, <1>4

\* Only relations go unchecked, and only those of an update.
LEMMA UncheckedAreRelations ==
  \A op, kind : /\ Records!Unchecked(op, kind) \subseteq DOMAIN Records!Nothing
                /\ op # "update" => Records!Unchecked(op, kind) = {}
                /\ "owner" \notin Records!Unchecked(op, kind)
                   /\ "stage" \notin Records!Unchecked(op, kind)
BY DEF Records!Unchecked, Records!Nothing

\* A move names a stage, and nothing else.
LEMMA Stages ==
  /\ "stage" \in DOMAIN Records!Nothing
  /\ Head(<<"stage">>) = "stage" /\ Tail(<<"stage">>) = << >>
  /\ \A kind : Records!Named("move", kind) = <<"stage">>
<1>1. "stage" \in DOMAIN Records!Nothing  BY DEF Records!Nothing
<1>2. Head(<<"stage">>) = "stage" /\ Tail(<<"stage">>) = << >>  OBVIOUS
<1>3. \A kind : Records!Named("move", kind) = <<"stage">>  BY DEF Records!Named
<1> QED  BY <1>1, <1>2, <1>3

-----------------------------------------------------------------------------
(* The steps.                                                              *)

\* The first records.
LEMMA RecordsBegin == RecordsFit /\ Records!Init => RecordsInductive
<1> SUFFICES ASSUME RecordsFit, Records!Init PROVE RecordsInductive  OBVIOUS
<1> DEFINE pipeline(w) == <<"pipeline", w, 1>>
           stage(w)    == <<"stage", w, 1>>
<1>1. \A x \in Records!Ids \ Editors : x[1] \in Records!Kinds /\ x[2] \in Workspaces
  BY DEF Records!Ids, Records!Kinds
<1>2. \A w \in Workspaces : /\ pipeline(w) \in Records!Ids /\ pipeline(w) \notin Editors
                            /\ stage(w) \in Records!Ids /\ stage(w) \notin Editors
  BY DEF RecordsFit, Records!Ids, Records!Kinds
<1>3. \A w \in Workspaces : /\ pipeline(w)[1] = "pipeline" /\ pipeline(w)[2] = w
                            /\ stage(w)[1] = "stage" /\ stage(w)[2] = w
  OBVIOUS
<1>4. \A kind, w :
        /\ Records!Seed(kind, w).kind = kind /\ Records!Seed(kind, w).workspace = w
        /\ \A r \in DOMAIN Records!Nothing :
             \/ Records!Seed(kind, w).refers[r] = None
             \/ r = "pipeline" /\ Records!Seed(kind, w).refers[r] = pipeline(w)
             \/ r = "stage" /\ Records!Seed(kind, w).refers[r] = stage(w)
  BY DEF Records!Seed, Records!Nothing
<1>5. \A kind \in Records!Kinds, w \in Workspaces : Records!Seed(kind, w) \in Records!Row
  BY <1>2 DEF Records!Seed, Records!Row, Records!Refs, Records!Targets, Records!Nothing
<1> HIDE DEF pipeline, stage
<1>6. \A x \in Records!Ids : rows[x] = IF x \in Editors THEN None ELSE Records!Seed(x[1], x[2])
  BY DEF Records!Init
<1>7. \A x \in Records!Ids : rows[x] # None =>
        x[1] \in Records!Kinds /\ x[2] \in Workspaces /\ rows[x] = Records!Seed(x[1], x[2])
  BY <1>1, <1>6
<1>8. \A w \in Workspaces : /\ rows[pipeline(w)] = Records!Seed("pipeline", w)
                            /\ rows[stage(w)] = Records!Seed("stage", w)
  BY <1>2, <1>3, <1>6
<1>9. \A w \in Workspaces : /\ rows[pipeline(w)] # None /\ rows[stage(w)] # None
                            /\ rows[pipeline(w)].kind = "pipeline"
                            /\ rows[pipeline(w)].workspace = w
                            /\ rows[stage(w)].kind = "stage" /\ rows[stage(w)].workspace = w
  BY <1>4, <1>5, <1>8 DEF RecordsFit, Records!Kinds
<1>10. rows \in [Records!Ids -> Records!Row \cup {None}]
  BY <1>1, <1>5 DEF Records!Init
<1>11. Typed
  BY <1>10 DEF Typed, Histories, Records!Init, Records!Targets
<1>12. Related
  <2> SUFFICES ASSUME NEW x \in Records!Ids, rows[x] # None
               PROVE  Inside(rows[x].refers, rows[x].workspace, rows, members, past,
                        Free(x, past))
    BY DEF Related
  <2>1. /\ rows[x].workspace = x[2] /\ x[2] \in Workspaces
        /\ \A r \in DOMAIN Records!Nothing :
             \/ rows[x].refers[r] = None
             \/ r = "pipeline" /\ rows[x].refers[r] = pipeline(x[2])
             \/ r = "stage" /\ rows[x].refers[r] = stage(x[2])
    BY <1>4, <1>7
  <2> QED  BY <1>2, <1>9, <2>1 DEF Inside
<1>13. \A c \in Editors : calls[c] = Records!Idle  BY DEF Records!Init
<1>14. \A c \in Editors : RecordSound(c, calls[c], rows, members, past)
  BY <1>13 DEF RecordSound, Shaped, Records!Idle, Records!Init, Records!Ids
<1>15. \A c \in Editors : c \in past.moving <=> calls[c].pc = "tell"
  BY <1>13 DEF Records!Init, Records!Idle
<1>16. \A x \in Records!Ids : Follows(x, rows[x], trail[x], calls, past)
  BY DEF Records!Init, Follows
<1> QED  BY <1>11, <1>12, <1>14, <1>15, <1>16 DEF RecordsInductive

\* A step of one call that writes no row and tells nothing, and is not about to tell.
LEMMA QuietStep ==
  ASSUME RecordsInductive, NEW c \in Editors, NEW f,
         Records!Turn(c, f), UNCHANGED <<rows, members, trail, past>>,
         calls[c].pc # "tell", f.pc # "tell",
         RecordSound(c, f, rows, members, past)
  PROVE  RecordsInductive'
<1>1. DOMAIN calls' = Editors /\ calls'[c] = f /\ \A d \in Editors \ {c} : calls'[d] = calls[d]
  BY DEF Records!Turn, RecordsInductive, Typed
<1>2. c \notin past.moving  BY DEF RecordsInductive
<1>3. \A d \in past.moving : calls'[d] = calls[d]
  BY <1>1, <1>2 DEF RecordsInductive, Typed, Histories
<1>4. Typed'  BY <1>1 DEF RecordsInductive, Typed
<1>5. Related'  BY DEF RecordsInductive, Related
<1>6. \A d \in Editors : RecordSound(d, calls'[d], rows, members, past)
  BY <1>1 DEF RecordsInductive
<1>7. \A d \in Editors : d \in past.moving <=> calls'[d].pc = "tell"
  BY <1>1, <1>2 DEF RecordsInductive
<1>8. \A x \in Records!Ids : Follows(x, rows[x], trail[x], calls', past)
  BY <1>3 DEF RecordsInductive, Follows
<1> QED  BY <1>4, <1>5, <1>6, <1>7, <1>8 DEF RecordsInductive

\* What a request that is over leaves behind is sound.
LEMMA OverIsSound ==
  ASSUME NEW c, NEW pc, pc \notin {"idle", "check", "tell"}, NEW table, NEW people, NEW then
  PROVE  Records!Over(pc).pc = pc /\ RecordSound(c, Records!Over(pc), table, people, then)
BY DEF Records!Over, Records!Idle, RecordSound, Shaped

\* A new record is looked forward to.
LEMMA CreateKeeps ==
  ASSUME RecordsFit, RecordsInductive, NEW c \in Editors, NEW kind \in Records!Kinds,
         NEW w \in Workspaces,
         Records!Create(c, kind, w)
  PROVE  RecordsInductive'
<1> DEFINE f == [Records!Idle EXCEPT !.pc = "check", !.op = "create", !.kind = kind,
                                        !.workspace = w,
                                     !.row = c, !.left = Records!Named("create", kind)]
<1>1. /\ f.pc = "check" /\ f.op = "create" /\ f.kind = kind /\ f.workspace = w /\ f.row = c
      /\ f.refers = Records!Nothing /\ Shaped(f)
  BY DEF Records!Idle, Shaped
<1>2. Records!Turn(c, f) /\ calls[c].pc # "tell"  BY DEF Records!Create, Records!At
<1> HIDE DEF f
<1>3. c \in Records!Ids /\ rows[c] = None
  BY DEF Records!Ids, Records!Create, Records!At, RecordsInductive, RecordSound
<1>4. Inside(f.refers, f.workspace, rows, members, past, Records!Unchecked(f.op, f.kind))
  BY <1>1, NothingIsInside
<1>5. RecordSound(c, f, rows, members, past)
  BY <1>1, <1>3, <1>4, NothingIsInside DEF RecordSound
<1> QED  BY <1>1, <1>2, <1>5, QuietStep DEF Records!Create

\* A change of a record of the workspace begins.
LEMMA ChangeKeeps ==
  ASSUME RecordsFit, RecordsInductive, NEW c \in Editors, NEW op \in {"update", "move"},
         NEW x \in Records!Ids,
         Records!Change(c, op, x)
  PROVE  RecordsInductive'
<1> DEFINE f == [Records!Idle EXCEPT !.pc = "check", !.op = op, !.kind = rows[x].kind,
                                        !.row = x,
                                     !.workspace = rows[x].workspace,
                                       !.left = Records!Named(op, rows[x].kind)]
<1>1. /\ f.pc = "check" /\ f.op = op /\ f.kind = rows[x].kind /\ f.row = x
      /\ f.workspace = rows[x].workspace
      /\ f.refers = Records!Nothing /\ f.left = Records!Named(op, rows[x].kind) /\ Shaped(f)
  BY DEF Records!Idle, Shaped
<1>2. calls[c].pc # "tell" /\ rows[x] # None /\ Records!Turn(c, f)
  BY DEF Records!Change, Records!At
<1> HIDE DEF f
<1>3. rows[x].kind \in Records!Kinds /\ rows[x].workspace \in Workspaces
  BY <1>2 DEF RecordsInductive, Typed, Records!Row
<1>4. op = "move" => f.left = <<"stage">>  BY <1>1, Stages
<1>5. Inside(f.refers, f.workspace, rows, members, past, Records!Unchecked(f.op, f.kind))
  BY <1>1, NothingIsInside
<1>6. RecordSound(c, f, rows, members, past)
  BY <1>1, <1>2, <1>3, <1>4, <1>5, NothingIsInside DEF RecordSound
<1> QED  BY <1>1, <1>2, <1>6, QuietStep DEF Records!Change

\* One of another workspace, or of none, is not found.
LEMMA MissRowKeeps ==
  ASSUME RecordsInductive, NEW c \in Editors, Records!MissRow(c)
  PROVE  RecordsInductive'
<1>1. calls[c].pc # "tell" /\ Records!Turn(c, Records!Over("refused")) /\ UNCHANGED <<rows,
        members, trail, past>>
  BY DEF Records!MissRow, Records!At
<1> QED  BY <1>1, OverIsSound, QuietStep

\* What is looked up is found in the workspace.
LEMMA CheckKeeps ==
  ASSUME RecordsFit, RecordsInductive, NEW c \in Editors, Records!Check(c)
  PROVE  RecordsInductive'
<1> DEFINE f == calls[c]
           r == Head(f.left)
           next == [f EXCEPT !.left = Tail(@)]
<1>1. f.pc = "check" /\ f.left # << >> /\ UNCHANGED <<rows, members, trail, past>>
  BY DEF Records!Check, Records!At
<1>2. RecordSound(c, f, rows, members, past)  BY DEF RecordsInductive
<1>3. /\ next.pc = "check" /\ next.op = f.op /\ next.kind = f.kind
      /\ next.workspace = f.workspace /\ next.row = f.row /\ next.refers = f.refers
      /\ next.left = Tail(f.left) /\ Shaped(next)
  BY <1>1, <1>2 DEF RecordSound, Shaped
<1>4. f.op = "move" => r = "stage" /\ next.left = << >>
  <2>1. f.op = "move" => f.left = <<"stage">>  BY <1>1, <1>2 DEF RecordSound
  <2> QED  BY <1>3, <2>1, Stages
<1>5. \/ r \notin Records!Needed(f.op) /\ Records!Turn(c, next)
      \/ \E x \in Records!Candidates(r) : Records!Passes(f, r, x)
         /\ Records!Turn(c, [next EXCEPT !.refers[r] = x])
      \/ Records!Turn(c, Records!Over("refused"))
  BY DEF Records!Check
<1> HIDE DEF next
<1>6. CASE r \notin Records!Needed(f.op) /\ Records!Turn(c, next)
  <2>1. f.op # "move"  BY <1>4, <1>6 DEF Records!Needed
  <2>2. RecordSound(c, next, rows, members, past)  BY <1>1, <1>2, <1>3, <2>1 DEF RecordSound
  <2> QED  BY <1>1, <1>3, <1>6, <2>2, QuietStep
<1>7. ASSUME NEW x \in Records!Candidates(r), Records!Passes(f, r, x),
             Records!Turn(c, [next EXCEPT !.refers[r] = x])
      PROVE  RecordsInductive'
  <2> DEFINE then == [next EXCEPT !.refers[r] = x]
  <2>1. /\ then.pc = "check" /\ then.op = f.op /\ then.kind = f.kind
        /\ then.workspace = f.workspace /\ then.row = f.row
        /\ then.refers = [f.refers EXCEPT ![r] = x]
        /\ then.left = next.left /\ Shaped(then)
    BY <1>3 DEF Shaped
  <2>2. Records!Turn(c, then)  BY <1>7
  <2> HIDE DEF then
  <2> DEFINE free == Records!Unchecked(f.op, f.kind)
  <2>3. /\ x \in Records!Targets
        /\ r # "owner" => /\ x \in Records!Ids /\ rows[x] # None /\ rows[x].kind = r
                          /\ r \in free \/ rows[x].workspace = f.workspace
        /\ r = "owner" => r \in free \/ x \in members[f.workspace]
    BY <1>7 DEF Records!Candidates, Records!Passes, Records!Belongs, Records!Targets
  <2>4. f.refers \in Records!Refs /\ Inside(f.refers, f.workspace, rows, members, past, free)
    BY <1>1, <1>2 DEF RecordSound
  <2> HIDE DEF free
  <2>5. then.refers \in Records!Refs  BY <2>1, <2>3, <2>4 DEF Records!Refs
  <2>6. \A q \in DOMAIN Records!Nothing : then.refers[q] = IF q = r THEN x ELSE f.refers[q]
    BY <2>1, <2>4 DEF Records!Refs
  <2>7. Inside(then.refers, f.workspace, rows, members, past, free)
    BY <2>3, <2>4, <2>6 DEF Inside
  <2>8. f.op = "move" => then.left = << >> /\ then.refers["stage"] # None
    BY <1>4, <2>1, <2>3, <2>6, Stages DEF RecordsFit
  <2>9. Inside(then.refers, then.workspace, rows, members, past,
          Records!Unchecked(then.op, then.kind))
    BY <2>1, <2>7 DEF free
  <2>10. RecordSound(c, then, rows, members, past)
    BY <1>1, <1>2, <2>1, <2>5, <2>8, <2>9 DEF RecordSound
  <2> QED  BY <1>1, <2>1, <2>2, <2>10, QuietStep
<1>8. CASE Records!Turn(c, Records!Over("refused"))
  BY <1>1, <1>8, OverIsSound, QuietStep
<1> QED  BY <1>5, <1>6, <1>7, <1>8

\* The write of one row keeps kind and place of what there was; a move is then to be
\* told.
LEMMA WriteKeeps ==
  ASSUME RecordsFit, RecordsInductive, NEW c \in Editors, Records!Write(c)
  PROVE  RecordsInductive'
<1> DEFINE f == calls[c]
           x == f.row
           row(w) == IF f.op = "create"
                     THEN [kind |-> f.kind, workspace |-> w, refers |-> f.refers]
                     ELSE [rows[x] EXCEPT !.workspace = w,
                       !.refers = Records!Merged(@, f.refers)]
           end == IF f.op = "move" THEN [f EXCEPT !.pc = "tell"] ELSE Records!Over("done")
<1>0. PICK w \in Records!Destinations(f) : rows' = [rows EXCEPT ![x] = row(w)]
             /\ past' = Records!Written(c, x, w)
  BY DEF Records!Write
<1> DEFINE new == row(w)
<1>1. /\ f.pc = "check" /\ f.left = << >> /\ rows' = [rows EXCEPT ![x] = new]
      /\ past' = Records!Written(c, x, w) /\ Records!Turn(c, end) /\ UNCHANGED <<members,
         trail>>
  <2>1. f.pc = "check" /\ f.left = << >>  BY DEF Records!Write, Records!At
  <2>2. Records!Turn(c, end)  BY DEF Records!Write
  <2>3. UNCHANGED <<members, trail>>  BY DEF Records!Write
  <2> QED  BY <1>0, <2>1, <2>2, <2>3
<1>2. RecordSound(c, f, rows, members, past)  BY DEF RecordsInductive
<1>3. /\ f.op \in {"create", "update", "move"} /\ f.kind \in Records!Kinds
         /\ f.workspace \in Workspaces
      /\ x \in Records!Ids /\ f.refers \in Records!Refs
      /\ Inside(f.refers, f.workspace, rows, members, past, Records!Unchecked(f.op, f.kind))
      /\ f.op = "create" => x = c /\ rows[c] = None
      /\ f.op # "create" => /\ rows[x] # None /\ rows[x] \in Records!Row
                            /\ x \in past.moved \/ rows[x].workspace = f.workspace
      /\ f.op = "move" => f.refers["stage"] # None
  BY <1>1, <1>2 DEF RecordSound, RecordsInductive, Typed
<1>4. w \in Workspaces /\ (f.op = "create" => w = f.workspace)
  BY <1>3 DEF Records!Destinations, Records!Row
<1>5. /\ new \in Records!Row /\ new.workspace = w
      /\ f.op = "create" => new.refers = f.refers
      /\ f.op # "create" =>
         new.kind = rows[x].kind /\ new.refers = Records!Merged(rows[x].refers, f.refers)
  <2>1. CASE f.op = "create"
    <3>1. new = [kind |-> f.kind, workspace |-> w, refers |-> f.refers]  BY <2>1
    <3> HIDE DEF new
    <3> QED  BY <1>3, <1>4, <2>1, <3>1 DEF Records!Row
  <2>2. CASE f.op # "create"
    <3> DEFINE merged == Records!Merged(rows[x].refers, f.refers)
    <3>1. new = [rows[x] EXCEPT !.workspace = w, !.refers = merged]  BY <2>2
    <3>2. merged \in Records!Refs  BY <1>3, <2>2 DEF Records!Row, Records!Merged, Records!Refs
    <3> HIDE DEF new, merged
    <3>3. new \in Records!Row /\ new.kind = rows[x].kind /\ new.workspace = w
            /\ new.refers = merged
      BY <1>3, <1>4, <2>2, <3>1, <3>2 DEF Records!Row
    <3> QED  BY <2>2, <3>3 DEF merged
  <2> QED  BY <2>1, <2>2
<1>6. /\ end.pc # "tell" => RecordSound(c, end, rows, members, past) /\ end.pc = "done"
      /\ f.op = "move" => /\ end.pc = "tell" /\ end.row = x /\ end.refers = f.refers
                          /\ RecordSound(c, end, rows, members, past)
      /\ end.pc = "tell" <=> f.op = "move"
  <2>1. CASE f.op = "move"
    <3>1. end = [f EXCEPT !.pc = "tell"]  BY <2>1
    <3> HIDE DEF end
    <3>2. /\ end.pc = "tell" /\ end.op = f.op /\ end.kind = f.kind
             /\ end.workspace = f.workspace
          /\ end.row = x /\ end.refers = f.refers /\ end.left = f.left /\ Shaped(end)
      BY <1>2, <3>1 DEF RecordSound, Shaped
    <3>3. Inside(end.refers, end.workspace, rows, members, past,
            Records!Unchecked(end.op, end.kind))
      BY <1>3, <3>2
    <3> QED  BY <1>1, <1>2, <1>3, <2>1, <3>2, <3>3 DEF RecordSound
  <2>2. CASE f.op # "move"
    <3>1. end = Records!Over("done")  BY <2>2
    <3> HIDE DEF end
    <3> QED  BY <2>2, <3>1, OverIsSound
  <2> QED  BY <2>1, <2>2
<1> HIDE DEF row, new, end
<1>7. /\ DOMAIN calls' = Editors /\ calls'[c] = end
      /\ \A d \in Editors \ {c} : calls'[d] = calls[d]
  BY <1>1 DEF Records!Turn, RecordsInductive, Typed
<1>8. /\ rows' \in [Records!Ids -> Records!Row \cup {None}] /\ rows'[x] = new /\ new # None
      /\ \A y \in Records!Ids \ {x} : rows'[y] = rows[y]
  BY <1>1, <1>3, <1>5 DEF RecordsInductive, Typed, RecordsFit
<1>9. /\ past'.departed = past.departed
      /\ past'.moving = IF f.op = "move" THEN past.moving \cup {c} ELSE past.moving
      /\ past'.blurred = IF \/ \E d \in past.moving : calls[d].row = x
                            \/ f.op = "update" /\ f.refers["stage"] # None
                         THEN past.blurred \cup {x} ELSE past.blurred
      /\ past'.moved = IF f.op # "create" /\ w # rows[x].workspace
                       THEN past.moved \cup {x} ELSE past.moved
      /\ past'.strayed = past.strayed \cup {<<x, r>> : r \in Records!Foreign(f)}
      /\ past' \in Histories
  <2>1. Records!Foreign(f) \subseteq DOMAIN Records!Nothing
    BY UncheckedAreRelations DEF Records!Foreign
  <2>2. past \in Histories  BY DEF RecordsInductive, Typed
  <2>3. {<<x, r>> : r \in Records!Foreign(f)} \subseteq Records!Ids \X DOMAIN Records!Nothing
    BY <1>3, <2>1
  <2> QED  BY <1>1, <1>3, <2>2, <2>3 DEF Records!Written, Histories
<1>10. Later(rows, members, past, rows', members', past')
  BY <1>1, <1>3, <1>5, <1>8, <1>9 DEF Later
<1>11. Inside(new.refers, w, rows', members', past', Free(x, past'))
  <2> DEFINE free == Free(x, past')
  <2>1. Inside(f.refers, f.workspace, rows', members', past', Records!Unchecked(f.op, f.kind))
    BY <1>3, <1>10, InsideStays
  <2>2. CASE f.op = "create"
    <3>1. Records!Unchecked(f.op, f.kind) = {}  BY <2>2, UncheckedAreRelations
    <3> QED  BY <1>4, <1>5, <2>1, <2>2, <3>1, InsideWidens
  <2>3. CASE f.op # "create"
    <3>1. /\ rows[x].refers \in Records!Refs /\ rows[x].workspace \in Workspaces
          /\ Inside(rows[x].refers, rows[x].workspace, rows', members', past', Free(x, past))
      BY <1>3, <1>10, <2>3, InsideStays DEF RecordsInductive, Related, Records!Row
    <3>2. Inside(rows[x].refers, w, rows', members', past', free)
      <4>1. CASE x \in past'.moved
        <5>1. free = DOMAIN Records!Nothing  BY <4>1 DEF Free
        <5> QED  BY <3>1, <5>1 DEF Inside
      <4>2. CASE x \notin past'.moved
        <5>1. w = rows[x].workspace  BY <1>9, <2>3, <4>2
        <5>2. Free(x, past) \subseteq free  BY <1>9, <4>2 DEF Free
        <5> HIDE DEF free
        <5> QED  BY <3>1, <5>1, <5>2, InsideWidens
      <4> QED  BY <4>1, <4>2
    <3>3. Inside(f.refers, w, rows', members', past', free)
      <4>1. CASE x \in past'.moved
        <5>1. free = DOMAIN Records!Nothing  BY <4>1 DEF Free
        <5> QED  BY <2>1, <5>1 DEF Inside
      <4>2. CASE x \notin past'.moved
        <5>1. w = f.workspace  BY <1>3, <1>9, <2>3, <4>2
        <5>2. \A r \in Records!Unchecked(f.op, f.kind) :
                f.refers[r] # None /\ r \notin free => rows[f.refers[r]].workspace = w
          BY <1>9, <5>1, UncheckedAreRelations DEF Records!Foreign, Free
        <5>3. \A r \in Records!Unchecked(f.op, f.kind) :
                f.refers[r] # None =>
                  f.refers[r] \in Records!Ids /\ rows[f.refers[r]] # None
          BY <1>3, UncheckedAreRelations DEF Inside
        <5>4. \A r \in Records!Unchecked(f.op, f.kind) :
                f.refers[r] # None /\ r \notin free =>
                  f.refers[r] \in past'.moved \/ rows'[f.refers[r]].workspace = w
          BY <1>10, <5>2, <5>3 DEF Later
        <5> HIDE DEF free
        <5> QED  BY <2>1, <5>1, <5>4, UncheckedAreRelations DEF Inside
      <4> QED  BY <4>1, <4>2
    <3> QED  BY <1>3, <1>5, <2>3, <3>1, <3>2, <3>3, MergedIsInside
  <2> QED  BY <2>2, <2>3
<1>12. Typed'  BY <1>1, <1>7, <1>8, <1>9 DEF RecordsInductive, Typed
<1>13. Related'
  <2> SUFFICES ASSUME NEW y \in Records!Ids, rows'[y] # None
               PROVE  Inside(rows'[y].refers, rows'[y].workspace, rows', members', past',
                             Free(y, past'))
    BY DEF Related
  <2>1. CASE y = x  BY <1>5, <1>8, <1>11, <2>1
  <2>2. CASE y # x
    <3>1. rows'[y] = rows[y] /\ rows[y].workspace \in Workspaces
      BY <1>8, <2>2 DEF RecordsInductive, Typed, Records!Row
    <3>2. Inside(rows[y].refers, rows[y].workspace, rows, members, past, Free(y, past))
      BY <3>1 DEF RecordsInductive, Related
    <3>3. Free(y, past) \subseteq Free(y, past')  BY <1>9 DEF Free
    <3> QED  BY <1>10, <3>1, <3>2, <3>3, InsideStays, InsideWidens
  <2> QED  BY <2>1, <2>2
<1>14. \A d \in Editors : RecordSound(d, calls'[d], rows', members', past')
  <2>1. end.pc # "idle" /\ RecordSound(c, end, rows, members, past)
    BY <1>6
  <2>2. RecordSound(c, end, rows', members', past')
    <3>1. end.pc = "tell" => end.op # "create"  BY <2>1 DEF RecordSound
    <3>2. end.pc \in {"check", "tell"} =>
            Inside(end.refers, end.workspace, rows', members', past',
              Records!Unchecked(end.op, end.kind))
      BY <1>10, <2>1, InsideStays DEF RecordSound
    <3>3. end.pc \in {"check", "tell"} => end.op = "move"  BY <1>6, <2>1 DEF RecordSound
    <3>4. end.pc \in {"check", "tell"} =>
            /\ rows'[end.row] # None
            /\ end.row \in past'.moved \/ rows'[end.row].workspace = end.workspace
      BY <1>10, <2>1, <3>3 DEF RecordSound, Later
    <3> QED  BY <2>1, <3>2, <3>3, <3>4 DEF RecordSound
  <2>3. ASSUME NEW d \in Editors \ {c}
        PROVE  RecordSound(d, calls[d], rows', members', past')
    <3>1. RecordSound(d, calls[d], rows, members, past)  BY DEF RecordsInductive
    <3>2. rows[d] = None => rows'[d] = None
      BY <1>3, <1>8 DEF Records!Ids
    <3> QED  BY <1>10, <3>1, <3>2, SoundStays
  <2> QED  BY <1>7, <2>2, <2>3
<1>15. \A d \in Editors : d \in past'.moving <=> calls'[d].pc = "tell"
  BY <1>1, <1>6, <1>7, <1>9 DEF RecordsInductive
<1>16. \A y \in Records!Ids : Follows(y, rows'[y], trail[y], calls', past')
  <2>1. c \notin past.moving  BY <1>1 DEF RecordsInductive
  <2>2. \A d \in past.moving : d \in Editors \ {c} /\ calls'[d] = calls[d]
    BY <1>7, <2>1 DEF RecordsInductive, Typed, Histories
  <2>3. ASSUME NEW y \in Records!Ids \ {x} PROVE Follows(y, rows'[y], trail[y], calls', past')
    <3>1. Follows(y, rows[y], trail[y], calls, past)  BY DEF RecordsInductive
    <3>2. c \in past'.moving => calls'[c].row = x  BY <1>6, <1>7, <1>9, <2>1
    <3> QED  BY <1>8, <1>9, <2>2, <3>1, <3>2 DEF Follows
  <2>4. Follows(x, rows'[x], trail[x], calls', past')
    <3>1. Follows(x, rows[x], trail[x], calls, past)  BY <1>3 DEF RecordsInductive
    <3>2. trail[x] # << >> => rows'[x] # None  BY <1>8
    <3> SUFFICES ASSUME x \notin past'.blurred
                 PROVE  /\ \A d \in past'.moving :
                             calls'[d].row = x
                               => rows'[x].refers["stage"] = calls'[d].refers["stage"]
                        /\ trail[x] # << >> /\ ~(\E d \in past'.moving : calls'[d].row = x) =>
                             trail[x][Len(trail[x])] = rows'[x].refers["stage"]
      BY <3>2 DEF Follows
    <3>3. /\ ~\E d \in past.moving : calls[d].row = x
          /\ ~(f.op = "update" /\ f.refers["stage"] # None)
          /\ x \notin past.blurred
      BY <1>9
    <3>a. f.op # "create" =>
            \A r \in DOMAIN Records!Nothing :
              new.refers[r] = IF f.refers[r] = None THEN rows[x].refers[r] ELSE f.refers[r]
      BY <1>3, <1>5 DEF Records!Row, Records!Refs, Records!Merged
    <3>4. CASE f.op = "move"
      <4>1. rows'[x].refers["stage"] = f.refers["stage"]  BY <1>3, <1>8, <3>4, <3>a, Stages
      <4>2. c \in past'.moving /\ calls'[c].row = x /\ calls'[c].refers = f.refers
        BY <1>6, <1>7, <1>9, <3>4
      <4> QED  BY <1>9, <2>2, <3>3, <3>4, <4>1, <4>2
    <3>5. CASE f.op = "update"
      <4>1. rows'[x].refers["stage"] = rows[x].refers["stage"]
        BY <1>8, <3>3, <3>5, <3>a, Stages
      <4> QED  BY <1>9, <2>2, <3>1, <3>3, <3>5, <4>1 DEF Follows
    <3>6. CASE f.op = "create"
      <4>1. trail[x] = << >>  BY <1>3, <3>1, <3>6 DEF Follows
      <4> QED  BY <1>9, <2>2, <3>3, <3>6, <4>1
    <3> QED  BY <1>3, <3>4, <3>5, <3>6
  <2> QED  BY <2>3, <2>4
<1> QED  BY <1>1, <1>12, <1>13, <1>14, <1>15, <1>16 DEF RecordsInductive

\* The step of a mover that is over, and of the history of its move.
LEMMA MoveEnds ==
  ASSUME RecordsInductive, NEW c \in Editors, NEW pc \in {"done", "failed"},
         calls[c].pc = "tell",
         NEW x, x = calls[c].row,
         Records!Turn(c, Records!Over(pc)), UNCHANGED <<rows, members>>,
         past'.departed = past.departed, past'.moving = past.moving \ {c},
         past'.moved = past.moved, past'.strayed = past.strayed,
         past.blurred \subseteq past'.blurred,
         past' \in Histories,
         trail' \in [Records!Ids -> Seq(Records!Targets)],
         \A y \in Records!Ids \ {x} : trail'[y] = trail[y],
         x \in past'.blurred \/ (/\ trail'[x] # << >>
                                 /\ trail'[x][Len(trail'[x])] = calls[c].refers["stage"]),
         trail'[x] # << >> => rows[x] # None
  PROVE  RecordsInductive'
<1>1. /\ DOMAIN calls' = Editors /\ calls'[c] = Records!Over(pc)
      /\ \A d \in Editors \ {c} : calls'[d] = calls[d]
  BY DEF Records!Turn, RecordsInductive, Typed
<1>0. Later(rows, members, past, rows', members', past')  BY DEF Later
<1>2. /\ calls'[c].pc # "tell"
      /\ RecordSound(c, calls'[c], rows', members', past')
  <2>1. pc \notin {"idle", "check", "tell"}  OBVIOUS
  <2>2. Records!Over(pc).pc = pc /\ RecordSound(c, Records!Over(pc), rows', members', past')
    BY <2>1, OverIsSound
  <2> QED  BY <1>1, <2>1, <2>2
<1>3. Typed'  BY <1>1 DEF RecordsInductive, Typed
<1>4. Related'  BY DEF RecordsInductive, Related, Free, Inside
<1>5. \A d \in Editors : RecordSound(d, calls'[d], rows', members', past')
  <2>1. \A d \in Editors : RecordSound(d, calls[d], rows, members, past)
    BY DEF RecordsInductive
  <2> QED  BY <1>1, <1>0, <1>2, <2>1, SoundStays
<1>6. \A d \in Editors : d \in past'.moving <=> calls'[d].pc = "tell"
  BY <1>1, <1>2 DEF RecordsInductive
<1>7. \A d \in past'.moving : d \in past.moving /\ calls'[d] = calls[d]
  BY <1>1 DEF RecordsInductive, Typed, Histories
<1>8. c \in past.moving  BY DEF RecordsInductive
<1>9. ASSUME NEW y \in Records!Ids
      PROVE  Follows(y, rows'[y], trail'[y], calls', past')
  <2>1. Follows(y, rows[y], trail[y], calls, past)  BY DEF RecordsInductive
  <2>2. CASE y # x
    <3>1. \A d \in past.moving : d = c \/ d \in past'.moving  OBVIOUS
    <3>2. calls[c].row # y  BY <2>2
    <3> QED  BY <1>7, <2>1, <2>2, <3>1, <3>2 DEF Follows
  <2>3. CASE y = x
    <3>1. trail'[y] # << >> => rows'[y] # None  BY <2>3
    <3>2. y \notin past'.blurred => rows[y].refers["stage"] = calls[c].refers["stage"]
      BY <1>8, <2>1, <2>3 DEF Follows
    <3> QED  BY <1>7, <2>1, <2>3, <3>1, <3>2 DEF Follows
  <2> QED  BY <2>2, <2>3
<1> QED  BY <1>3, <1>4, <1>5, <1>6, <1>9 DEF RecordsInductive

\* The activity names the stage the mover wrote.
LEMMA TellKeeps ==
  ASSUME RecordsFit, RecordsInductive, NEW c \in Editors, Records!Tell(c)
  PROVE  RecordsInductive'
<1> DEFINE x == calls[c].row
           stage == calls[c].refers["stage"]
<1>1. /\ calls[c].pc = "tell" /\ trail' = [trail EXCEPT ![x] = Append(@, stage)]
      /\ past' = [past EXCEPT !.moving = @ \ {c}]
      /\ Records!Turn(c, Records!Over("done")) /\ UNCHANGED <<rows, members>>
  BY DEF Records!Tell, Records!At
<1>2. /\ x \in Records!Ids /\ rows[x] # None /\ calls[c].refers \in Records!Refs
  BY <1>1 DEF RecordsInductive, RecordSound
<1>3. stage \in Records!Targets /\ trail[x] \in Seq(Records!Targets)
  BY <1>2, Stages DEF Records!Refs, RecordsInductive, Typed
<1> HIDE DEF stage
<1> DEFINE longer == Append(trail[x], stage)
<1>4. longer \in Seq(Records!Targets) /\ longer # << >> /\ longer[Len(longer)] = stage
  BY <1>3
<1> HIDE DEF longer
<1>5. /\ trail' \in [Records!Ids -> Seq(Records!Targets)] /\ trail'[x] = longer
      /\ \A y \in Records!Ids \ {x} : trail'[y] = trail[y]
  BY <1>1, <1>2, <1>4 DEF RecordsInductive, Typed, longer
<1>6. /\ past'.departed = past.departed /\ past'.moving = past.moving \ {c}
      /\ past'.blurred = past.blurred
      /\ past'.moved = past.moved /\ past'.strayed = past.strayed
      /\ past' \in Histories
  BY <1>1 DEF RecordsInductive, Typed, Histories
<1> QED  BY <1>1, <1>2, <1>4, <1>5, <1>6, MoveEnds DEF stage

\* A move that breaks off blurs the trail of its deal.
LEMMA BreakOffKeeps ==
  ASSUME RecordsFit, RecordsInductive, NEW c \in Editors, Records!BreakOff(c)
  PROVE  RecordsInductive'
<1> DEFINE x == calls[c].row
<1>1. /\ calls[c].pc = "tell"
      /\ past' = [past EXCEPT !.moving = @ \ {c}, !.blurred = @ \cup {x}]
      /\ Records!Turn(c, Records!Over("failed")) /\ UNCHANGED <<rows, members, trail>>
  BY DEF Records!BreakOff, Records!At
<1>2. x \in Records!Ids /\ rows[x] # None  BY <1>1 DEF RecordsInductive, RecordSound
<1>3. /\ past'.departed = past.departed /\ past'.moving = past.moving \ {c}
      /\ past'.blurred = past.blurred \cup {x}
      /\ past'.moved = past.moved /\ past'.strayed = past.strayed
      /\ past' \in Histories
  BY <1>1, <1>2 DEF RecordsInductive, Typed, Histories
<1>4. trail' \in [Records!Ids -> Seq(Records!Targets)]  BY <1>1 DEF RecordsInductive, Typed
<1> QED  BY <1>1, <1>2, <1>3, <1>4, MoveEnds

\* Who leaves is remembered.
LEMMA RemoveKeeps ==
  ASSUME RecordsFit, RecordsInductive, NEW w \in Workspaces, NEW p \in Users,
         Records!Remove(w, p)
  PROVE  RecordsInductive'
<1>1. /\ members' = [members EXCEPT ![w] = @ \ {p}] /\ UNCHANGED <<rows, trail, calls>>
      /\ past' = [past EXCEPT !.departed = @ \cup {<<w, p>>}]
  BY DEF Records!Remove
<1>2. /\ past'.departed = past.departed \cup {<<w, p>>}
      /\ past'.moving = past.moving /\ past'.blurred = past.blurred
      /\ past'.moved = past.moved /\ past'.strayed = past.strayed
      /\ past' \in Histories
  <2>1. past \in Histories  BY DEF RecordsInductive, Typed
  <2>2. past.departed \cup {<<w, p>>} \in SUBSET (Workspaces \X Users)  BY <2>1 DEF Histories
  <2> QED  BY <1>1, <2>1, <2>2 DEF Histories
<1>3. \A v \in Workspaces : members'[v] = IF v = w THEN members[v] \ {p} ELSE members[v]
  BY <1>1 DEF RecordsInductive, Typed
<1>4. Later(rows, members, past, rows', members', past')
  BY <1>1, <1>2, <1>3 DEF Later
<1>5. Typed'  BY <1>1, <1>2 DEF RecordsInductive, Typed
<1>6. \A x \in Records!Ids : rows[x] # None => rows[x].workspace \in Workspaces
  BY DEF RecordsInductive, Typed, Records!Row
<1>7. Related'
  <2>1. \A x : Free(x, past') = Free(x, past)  BY <1>2 DEF Free
  <2>2. ASSUME NEW x \in Records!Ids, rows[x] # None
        PROVE  Inside(rows[x].refers, rows[x].workspace, rows', members', past', Free(x, past))
    <3>1. Inside(rows[x].refers, rows[x].workspace, rows, members, past, Free(x, past))
      BY <2>2 DEF RecordsInductive, Related
    <3>2. rows[x].workspace \in Workspaces  BY <1>6, <2>2
    <3> QED  BY <1>4, <3>1, <3>2, InsideStays
  <2>3. \A x \in Records!Ids : rows'[x] = rows[x]  BY <1>1
  <2> QED  BY <2>1, <2>2, <2>3 DEF Related
<1>8. \A c \in Editors : RecordSound(c, calls'[c], rows', members', past')
  BY <1>1, <1>4, SoundStays DEF RecordsInductive
<1>9. \A x \in Records!Ids : Follows(x, rows'[x], trail'[x], calls', past')
  BY <1>1, <1>2 DEF RecordsInductive, Follows
<1> QED  BY <1>1, <1>2, <1>5, <1>7, <1>8, <1>9 DEF RecordsInductive

\* A step in which nothing happens.
LEMMA StutterKeeps == RecordsInductive /\ UNCHANGED Records!vars => RecordsInductive'
BY DEF RecordsInductive, Records!vars, Typed, Related


\* Every step keeps the invariant.
LEMMA RecordsNext == RecordsFit /\ RecordsInductive /\ [Records!Next]_(Records!vars)
                       => RecordsInductive'
<1> SUFFICES ASSUME RecordsFit, RecordsInductive, [Records!Next]_(Records!vars)
             PROVE  RecordsInductive'
  OBVIOUS
<1>1. ASSUME NEW c \in Editors, NEW w \in Workspaces, NEW kind \in Records!Kinds,
               Records!Create(c, kind, w)
      PROVE  RecordsInductive'
  BY <1>1, CreateKeeps
<1>2. ASSUME NEW c \in Editors, NEW op \in {"update", "move"}, NEW x \in Records!Ids,
               Records!Change(c, op, x)
      PROVE  RecordsInductive'
  BY <1>2, ChangeKeeps
<1>3. ASSUME NEW c \in Editors, Records!Check(c) PROVE RecordsInductive'     BY <1>3, CheckKeeps
<1>4. ASSUME NEW c \in Editors, Records!Write(c) PROVE RecordsInductive'     BY <1>4, WriteKeeps
<1>5. ASSUME NEW c \in Editors, Records!Tell(c) PROVE RecordsInductive'      BY <1>5, TellKeeps
<1>6. ASSUME NEW c \in Editors, Records!BreakOff(c) PROVE RecordsInductive'
  BY <1>6, BreakOffKeeps
<1>7. ASSUME NEW w \in Workspaces, NEW p \in Users, Records!Remove(w, p) PROVE RecordsInductive'
  BY <1>7, RemoveKeeps
<1>8. ASSUME NEW c \in Editors, Records!MissRow(c)
      PROVE  RecordsInductive'   BY <1>8, MissRowKeeps
<1>9. CASE UNCHANGED Records!vars  BY <1>9, StutterKeeps
<1> QED  BY <1>1, <1>2, <1>3, <1>4, <1>5, <1>6, <1>7, <1>8, <1>9 DEF Records!Next

-----------------------------------------------------------------------------
(* What requests look up.                                                 *)

\* What a record of a kind may refer to.
May(kind) == {Records!References(kind)[n] : n \in DOMAIN Records!References(kind)}

\* A request under way has looked up, and will look up, only what its record may refer
\* to; one that is over names nothing.
Looking(f) ==
  /\ f.pc \in {"idle", "check", "tell", "refused", "done", "failed"}
  /\ f.pc \in {"check", "tell"} =>
       /\ f.left \in Seq(May(f.kind))
       /\ \A r \in DOMAIN Records!Nothing : f.refers[r] # None => r \in May(f.kind)
  /\ f.pc \notin {"check", "tell"} => f.kind = None

\* What a body may name is a relation of the record's kind.
LEMMA NamedIsAllowed ==
  /\ \A kind \in Records!Kinds : Records!Named("create", kind) \in Seq(May(kind))
  /\ \A kind \in Records!Kinds : Records!Named("update", kind) \in Seq(May(kind))
  /\ Records!Named("move", "opportunity") \in Seq(May("opportunity"))
<1>1. /\ May("contact") = {"company", "owner"}
      /\ May("opportunity") = {"pipeline", "stage", "contact", "owner"}
      /\ May("task") = {"contact", "opportunity"} /\ May("stage") = {"pipeline"}
  <2>1. /\ Records!References("contact") = <<"company", "owner">>
        /\ Records!References("opportunity") = <<"pipeline", "stage", "contact", "owner">>
        /\ Records!References("task") = <<"contact", "opportunity">>
        /\ Records!References("stage") = <<"pipeline">>
    BY DEF Records!References
  <2>2. May("contact") = {"company", "owner"}
    <3>1. DOMAIN <<"company", "owner">> = {1, 2}  OBVIOUS
    <3> QED  BY <2>1, <3>1 DEF May
  <2>3. May("opportunity") = {"pipeline", "stage", "contact", "owner"}
    <3>1. DOMAIN <<"pipeline", "stage", "contact", "owner">> = {1, 2, 3, 4}  OBVIOUS
    <3> QED  BY <2>1, <3>1 DEF May
  <2>4. May("task") = {"contact", "opportunity"}
    <3>1. DOMAIN <<"contact", "opportunity">> = {1, 2}  OBVIOUS
    <3> QED  BY <2>1, <3>1 DEF May
  <2>5. May("stage") = {"pipeline"}
    <3>1. DOMAIN <<"pipeline">> = {1}  OBVIOUS
    <3> QED  BY <2>1, <3>1 DEF May
  <2> QED  BY <2>2, <2>3, <2>4, <2>5
<1>2. ASSUME NEW kind \in Records!Kinds PROVE Records!Named("create", kind) \in Seq(May(kind))
  BY <1>1 DEF Records!Kinds, Records!Named, Records!References
<1>3. ASSUME NEW kind \in Records!Kinds PROVE Records!Named("update", kind) \in Seq(May(kind))
  BY <1>1 DEF Records!Kinds, Records!Named, Records!References
<1>4. Records!Named("move", "opportunity") \in Seq(May("opportunity"))
  BY <1>1 DEF Records!Named
<1> QED  BY <1>2, <1>3, <1>4

LEMMA LookingBegins == Records!Init => \A c \in Editors : Looking(calls[c])
<1>1. Looking(Records!Idle)  BY DEF Records!Idle, Looking
<1>2. Records!Init => \A c \in Editors : calls[c] = Records!Idle  BY DEF Records!Init
<1> QED  BY <1>1, <1>2

LEMMA OverLooks ==
  ASSUME NEW pc \in {"refused", "done", "failed"} PROVE Looking(Records!Over(pc))
BY DEF Records!Over, Records!Idle, Looking

\* A step looks up what may be looked up.
LEMMA NextLooks ==
  RecordsInductive /\ (\A c \in Editors : Looking(calls[c])) /\ [Records!Next]_(Records!vars)
    => \A c \in Editors : Looking(calls'[c])
<1> SUFFICES ASSUME RecordsInductive, \A c \in Editors : Looking(calls[c]),
                      [Records!Next]_(Records!vars)
             PROVE  \A c \in Editors : Looking(calls'[c])
  OBVIOUS
<1>1. ASSUME NEW c \in Editors, NEW f, Records!Turn(c, f), Looking(f)
      PROVE  \A d \in Editors : Looking(calls'[d])
  BY <1>1 DEF Records!Turn, RecordsInductive, Typed
<1>2. ASSUME NEW c \in Editors, NEW w \in Workspaces, NEW kind \in Records!Kinds,
               Records!Create(c, kind, w)
      PROVE  \A d \in Editors : Looking(calls'[d])
  <2> DEFINE f == [Records!Idle EXCEPT !.pc = "check", !.op = "create", !.kind = kind,
                                          !.workspace = w,
                                       !.row = c, !.left = Records!Named("create", kind)]
  <2>1. f.pc = "check" /\ f.kind = kind /\ f.refers = Records!Nothing
          /\ f.left = Records!Named("create", kind)
    BY DEF Records!Idle
  <2>2. Records!Turn(c, f)  BY <1>2 DEF Records!Create
  <2> HIDE DEF f
  <2>3. Looking(f)  BY <2>1, NamedIsAllowed DEF Looking, Records!Nothing
  <2> QED  BY <1>1, <2>2, <2>3
<1>3. ASSUME NEW c \in Editors, NEW op \in {"update", "move"}, NEW x \in Records!Ids,
               Records!Change(c, op, x)
      PROVE  \A d \in Editors : Looking(calls'[d])
  <2> DEFINE f == [Records!Idle EXCEPT !.pc = "check", !.op = op, !.kind = rows[x].kind,
                                          !.row = x,
                                       !.workspace = rows[x].workspace,
                                       !.left = Records!Named(op, rows[x].kind)]
  <2>1. /\ f.pc = "check" /\ f.kind = rows[x].kind /\ f.refers = Records!Nothing
        /\ f.left = Records!Named(op, rows[x].kind)
    BY DEF Records!Idle
  <2>2. Records!Turn(c, f)  BY <1>3 DEF Records!Change
  <2> HIDE DEF f
  <2>3. rows[x].kind \in Records!Kinds /\ (op = "move" => rows[x].kind = "opportunity")
    BY <1>3 DEF Records!Change, RecordsInductive, Typed, Records!Row
  <2>4. Looking(f)  BY <2>1, <2>3, NamedIsAllowed DEF Looking, Records!Nothing
  <2> QED  BY <1>1, <2>2, <2>4, OverLooks
<1>4. ASSUME NEW c \in Editors, Records!Check(c) PROVE \A d \in Editors : Looking(calls'[d])
  <2> DEFINE f == calls[c]
             r == Head(f.left)
             next == [f EXCEPT !.left = Tail(@)]
             found(x) == [next EXCEPT !.refers[r] = x]
  <2>1. f.pc = "check" /\ f.left # << >> /\ Looking(f)  BY <1>4 DEF Records!Check, Records!At
  <2>2. f.left \in Seq(May(f.kind)) /\ f.refers \in Records!Refs /\ Shaped(f)
    BY <2>1 DEF Looking, RecordsInductive, RecordSound
  <2>3. r \in May(f.kind) /\ Tail(f.left) \in Seq(May(f.kind))
    <3>1. \A S : \A s \in Seq(S) : s # << >> => Head(s) \in S /\ Tail(s) \in Seq(S)
      OBVIOUS
    <3> QED  BY <2>1, <2>2, <3>1
  <2>4. /\ next.pc = "check" /\ next.kind = f.kind /\ next.refers = f.refers
        /\ next.left = Tail(f.left) /\ DOMAIN next = DOMAIN f
    BY <2>1, <2>2 DEF Shaped
  <2>5. \/ Records!Turn(c, next) \/ Records!Turn(c, Records!Over("refused"))
        \/ \E x \in Records!Candidates(r) : Records!Turn(c, found(x))
    BY <1>4 DEF Records!Check
  <2> HIDE DEF next
  <2>6. Looking(next)  BY <2>1, <2>3, <2>4 DEF Looking
  <2>7. ASSUME NEW x PROVE Looking(found(x))
    <3>1. /\ found(x).pc = "check" /\ found(x).kind = f.kind /\ found(x).left = next.left
          /\ found(x).refers = [f.refers EXCEPT ![r] = x]
      BY <2>2, <2>4 DEF Shaped
    <3> HIDE DEF found
    <3>2. \A q \in DOMAIN Records!Nothing : q # r => found(x).refers[q] = f.refers[q]
      BY <2>2, <3>1 DEF Records!Refs
    <3> QED  BY <2>1, <2>3, <2>4, <3>1, <3>2 DEF Looking
  <2> QED  BY <1>1, <2>5, <2>6, <2>7, OverLooks
<1>5. ASSUME NEW c \in Editors, Records!Write(c) PROVE \A d \in Editors : Looking(calls'[d])
  <2> DEFINE f == calls[c]
             told == [f EXCEPT !.pc = "tell"]
  <2>1. f.pc = "check" /\ Looking(f)  BY <1>5 DEF Records!Write, Records!At
  <2>2. Records!Turn(c, told) \/ Records!Turn(c, Records!Over("done"))
    BY <1>5 DEF Records!Write
  <2>3. told.pc = "tell" /\ told.kind = f.kind /\ told.refers = f.refers /\ told.left = f.left
    BY DEF RecordsInductive, RecordSound, Shaped
  <2> HIDE DEF told
  <2>4. Looking(told)  BY <2>1, <2>3 DEF Looking
  <2> QED  BY <1>1, <2>2, <2>4, OverLooks
<1>6. ASSUME NEW c \in Editors, Records!MissRow(c) \/ Records!Tell(c) \/ Records!BreakOff(c)
      PROVE  \A d \in Editors : Looking(calls'[d])
  BY <1>1, <1>6, OverLooks DEF Records!MissRow, Records!Tell, Records!BreakOff
<1>7. ASSUME UNCHANGED calls PROVE \A d \in Editors : Looking(calls'[d])
  BY <1>7
<1>8. ASSUME NEW w \in Workspaces, NEW p \in Users, Records!Remove(w, p)
      PROVE  \A d \in Editors : Looking(calls'[d])
  BY <1>7, <1>8 DEF Records!Remove
<1>9. CASE UNCHANGED Records!vars  BY <1>7, <1>9 DEF Records!vars
<1> QED  BY <1>2, <1>3, <1>4, <1>5, <1>6, <1>8, <1>9 DEF Records!Next

LEMMA RecordsMeanTypes ==
  RecordsInductive /\ (\A c \in Editors : Looking(calls[c])) => Records!TypesHold
BY DEF RecordsInductive, Typed, Records!Row, Looking, Records!TypesHold, May

LEMMA RecordsStay == RecordsInductive =>
                       Records!RelationsStayInside /\ Records!TrailEndsWhereTheDealIs
<1>1. RecordsInductive => Records!RelationsStayInside
  BY DEF Records!RelationsStayInside, RecordsInductive, Related, Inside, Free, Records!Records
<1>2. RecordsInductive => Records!TrailEndsWhereTheDealIs
  BY DEF RecordsInductive, Follows, Records!TrailEndsWhereTheDealIs, Records!Records
<1> QED  BY <1>1, <1>2

-----------------------------------------------------------------------------
(* Clients are refused for their own requests (ClientBudgets).            *)

\* The component counts as its library does.
LEMMA SameCardinality == \A S : Budgets!Cardinality(S) = Cardinality(S)
BY DEF Budgets!Cardinality, Cardinality

\* What is known of a request on its way.
CountedCall ==
  [pc : {"idle", "sent", "done"}, client : Clients \cup {None}, path : Budgets!Paths
      \cup {None},
   via : {"web", "direct", None},
   claim : [key : Clients, whole : BOOLEAN, fresh : BOOLEAN] \cup {None},
   minute : Nat, answer : {None, 200, 400, 429, 502}]

\* A request has a client, whom its claim names.
RequestSaysWho(call) ==
  /\ call.pc # "idle" => call.client \in Clients /\ call.path \in Budgets!Paths
                         /\ call.via \in {"web", "direct"}
  /\ call.pc # "done" => call.answer = None
  /\ call.claim # None => call.via = "web" /\ call.claim.key = call.client

\* An entry is that of a request which has been answered in this minute.
EntryIsEarned(b) ==
  /\ b.call \in Calls
  /\ b = [tracker |-> Budgets!Tracker(calls[b.call]), path |-> calls[b.call].path,
     call |-> b.call]
  /\ calls[b.call].pc = "done" /\ calls[b.call].answer # 502
  /\ calls[b.call].minute = minute

BudgetAnswered == {c \in Calls : calls[c].pc = "done"}

\* The inductive invariant: what has been answered is finite, so a refusal can be
\* charged to as many requests as its limit says.
BudgetsInductive ==
  /\ settings \in Budgets!Settings /\ minute \in 0 .. MaxMinutes
  /\ calls \in [Calls -> CountedCall]
  /\ \A c \in Calls : RequestSaysWho(calls[c]) /\ calls[c].minute <= minute
  /\ \A b \in budgets : EntryIsEarned(b)
  /\ IsFiniteSet(BudgetAnswered)
  /\ Budgets!BudgetsAreTheirOwn

LEMMA BudgetsBegin == ASSUME BudgetsFit, Budgets!Init PROVE BudgetsInductive
<1>1. \A c \in Calls : calls[c] = Budgets!Idle  BY DEF Budgets!Init
<1>2. Budgets!Idle \in CountedCall  BY DEF Budgets!Idle, CountedCall
<1>3. RequestSaysWho(Budgets!Idle) /\ Budgets!Idle.minute <= 0
  BY DEF RequestSaysWho, Budgets!Idle
<1>4. BudgetAnswered = {}  BY <1>1 DEF BudgetAnswered, Budgets!Idle
<1>5. Budgets!BudgetsAreTheirOwn
  BY <1>1 DEF Budgets!BudgetsAreTheirOwn, Budgets!OwnBudgets, Budgets!NothingUncounted,
              Budgets!Idle, BudgetsFit
<1> QED
  BY <1>1, <1>2, <1>3, <1>4, <1>5, FS_EmptySet DEF Budgets!Init, BudgetsInductive, BudgetsFit

\* A step before a request is answered: nobody is answered by it.
LEMMA OnTheWay ==
  ASSUME BudgetsFit, BudgetsInductive, UNCHANGED <<settings, budgets, minute>>,
         NEW c \in Calls, NEW call \in CountedCall, calls[c].pc # "done",
         RequestSaysWho(call), call.minute <= minute, call.pc # "done" \/ call.answer = 502,
         calls' = [calls EXCEPT ![c] = call]
  PROVE  BudgetsInductive'
<1>1. \A d \in Calls : calls'[d] = IF d = c THEN call ELSE calls[d]
  BY DEF BudgetsInductive
<1>2. calls' \in [Calls -> CountedCall]  BY DEF BudgetsInductive
<1>3. \A d \in Calls : RequestSaysWho(calls'[d]) /\ calls'[d].minute <= minute'
  BY <1>1 DEF BudgetsInductive
<1>4. ASSUME NEW b \in budgets' PROVE EntryIsEarned(b)'
  <2>1. EntryIsEarned(b) /\ b.call # c  BY DEF BudgetsInductive, EntryIsEarned
  <2> QED  BY <1>1, <2>1 DEF EntryIsEarned, Budgets!Tracker, Budgets!Verified, Budgets!Claimed
<1>5. IsFiniteSet(BudgetAnswered')
  <2>1. BudgetAnswered' \subseteq BudgetAnswered \cup {c}  BY <1>1 DEF BudgetAnswered
  <2>2. IsFiniteSet(BudgetAnswered \cup {c})  BY FS_AddElement DEF BudgetsInductive
  <2> QED  BY <2>1, <2>2, FS_Subset
<1>6. Budgets!OwnBudgets'
  <2> SUFFICES ASSUME NEW d \in Calls, (calls[d].answer = 429)',
                      (Budgets!Verified(calls[d]) \/ (calls[d].via = "direct"
                        /\ settings.apiHops))'
               PROVE  (Budgets!Cardinality(Budgets!Alike(d)) >= Limits[calls[d].path])'
    BY DEF Budgets!OwnBudgets
  <2>1. d # c /\ calls'[d] = calls[d]
    BY <1>1 DEF BudgetsFit, RequestSaysWho
  <2>2. Budgets!Cardinality(Budgets!Alike(d)) >= Limits[calls[d].path]
    BY <2>1 DEF BudgetsInductive, Budgets!BudgetsAreTheirOwn, Budgets!OwnBudgets,
                Budgets!Verified, Budgets!Claimed
  <2>3. Budgets!Alike(d)' = Budgets!Alike(d)
    BY <1>1, <2>1 DEF Budgets!Alike
  <2> QED  BY <2>1, <2>2, <2>3
<1>7. Budgets!NothingUncounted'
  BY <1>1 DEF BudgetsInductive, Budgets!BudgetsAreTheirOwn, Budgets!NothingUncounted,
              BudgetsFit, RequestSaysWho
<1> QED  BY <1>2, <1>3, <1>4, <1>5, <1>6, <1>7 DEF BudgetsInductive, Budgets!BudgetsAreTheirOwn

LEMMA RequestIsOnTheWay ==
  ASSUME BudgetsFit, BudgetsInductive, NEW c \in Calls, NEW u \in Clients,
         NEW p \in Budgets!Paths,
         NEW v \in {"web", "direct"}, Budgets!Request(c, u, p, v)
  PROVE  BudgetsInductive'
<1> DEFINE forward == v = "web" /\ p \in Budgets!Forwarded
           stuck == forward /\ settings.secret = "missing"
           claim == IF forward THEN Budgets!Identity(u) ELSE None
           pc == IF stuck THEN "done" ELSE "sent"
           answer == IF stuck THEN 502 ELSE None
           call == [pc |-> pc, client |-> u, path |-> p, via |-> v, claim |-> claim,
                    minute |-> 0, answer |-> answer]
<1>1. calls[c].pc = "idle" /\ calls' = [calls EXCEPT ![c] = call]
      /\ UNCHANGED <<settings, budgets, minute>>
  BY DEF Budgets!Request
<1>2. /\ claim # None => v = "web" /\ claim = [key |-> u, whole |-> TRUE, fresh |-> TRUE]
      /\ claim \in [key : Clients, whole : BOOLEAN, fresh : BOOLEAN] \cup {None}
  BY DEF Budgets!Identity
<1>3. pc \in {"sent", "done"} /\ answer \in {None, 502} /\ (pc = "done" <=> answer # None)
  BY DEF BudgetsFit
<1> HIDE DEF claim, pc, answer
<1>4. call \in CountedCall  BY <1>2, <1>3 DEF CountedCall
<1>5. RequestSaysWho(call)  BY <1>2, <1>3 DEF RequestSaysWho
<1>6. call.pc # "done" \/ call.answer = 502  BY <1>3
<1>7. call.minute <= minute  BY DEF BudgetsInductive, BudgetsFit
<1> QED  BY <1>1, <1>4, <1>5, <1>6, <1>7, OnTheWay

LEMMA SpoiltIsOnTheWay ==
  ASSUME BudgetsFit, BudgetsInductive, NEW c \in Calls, NEW flaw \in {"whole", "fresh"},
         Budgets!Spoil(c, flaw)
  PROVE  BudgetsInductive'
<1> DEFINE claim == [calls[c].claim EXCEPT ![flaw] = FALSE]
           call == [calls[c] EXCEPT !.claim = claim]
<1>1. calls[c] \in CountedCall /\ RequestSaysWho(calls[c])  BY DEF BudgetsInductive
<1>2. calls[c].pc = "sent" /\ calls' = [calls EXCEPT ![c].claim[flaw] = FALSE]
      /\ UNCHANGED <<settings, budgets, minute>> /\ calls[c].claim # None
  BY DEF Budgets!Spoil
<1>3. calls[c].claim \in [key : Clients, whole : BOOLEAN, fresh : BOOLEAN]
  BY <1>1, <1>2 DEF CountedCall
<1>4. claim \in [key : Clients, whole : BOOLEAN, fresh : BOOLEAN]
      /\ claim.key = calls[c].claim.key
  BY <1>3
<1>5. calls' = [calls EXCEPT ![c] = call]  BY <1>2
<1> HIDE DEF claim
<1>6. call \in CountedCall  BY <1>1, <1>4 DEF CountedCall
<1>7. RequestSaysWho(call)  BY <1>1, <1>2, <1>4 DEF RequestSaysWho, CountedCall
<1>8. call.pc # "done"  BY <1>1, <1>2 DEF CountedCall
<1>9. calls[c].pc # "done"  BY <1>2
<1>10. call.minute <= minute  BY <1>1 DEF BudgetsInductive, CountedCall
<1> QED  BY <1>2, <1>5, <1>6, <1>7, <1>8, <1>9, <1>10, OnTheWay

\* The minute ends: nobody is counted any longer, the answers stay.
LEMMA MinuteIsOver ==
  ASSUME BudgetsFit, BudgetsInductive, Budgets!Minute
  PROVE  BudgetsInductive'
<1>1. ASSUME NEW c \in Calls
      PROVE  /\ calls'[c] \in CountedCall /\ RequestSaysWho(calls'[c])
             /\ calls[c].pc = "done" => calls'[c] = calls[c]
             /\ calls'[c].pc = calls[c].pc /\ calls'[c].answer = calls[c].answer
             /\ calls'[c].minute = calls[c].minute
  <2>1. calls[c] \in CountedCall /\ RequestSaysWho(calls[c])  BY DEF BudgetsInductive
  <2>2. CASE calls[c].pc = "sent" /\ calls[c].claim # None
    <3> DEFINE claim == [calls[c].claim EXCEPT !.fresh = FALSE]
    <3>1. calls'[c] = [calls[c] EXCEPT !.claim = claim]  BY <2>2 DEF Budgets!Minute
    <3>0. calls[c].claim \in [key : Clients, whole : BOOLEAN, fresh : BOOLEAN]
      BY <2>1, <2>2 DEF CountedCall
    <3>2. claim \in [key : Clients, whole : BOOLEAN, fresh : BOOLEAN]
          /\ claim.key = calls[c].claim.key
      BY <3>0
    <3> HIDE DEF claim
    <3> QED  BY <2>1, <2>2, <3>1, <3>2 DEF CountedCall, RequestSaysWho
  <2>3. CASE ~(calls[c].pc = "sent" /\ calls[c].claim # None)
    BY <2>1, <2>3 DEF Budgets!Minute
  <2> QED  BY <2>2, <2>3
<1>2. calls' \in [Calls -> CountedCall]
  <2>1. calls' = [c \in Calls |-> calls'[c]]  BY DEF Budgets!Minute
  <2> QED  BY <1>1, <2>1
<1>3. minute' \in 0 .. MaxMinutes /\ settings' = settings /\ budgets' = {}
        /\ minute' = minute + 1
  BY DEF Budgets!Minute, BudgetsInductive, BudgetsFit
<1>4. BudgetAnswered' = BudgetAnswered  BY <1>1 DEF BudgetAnswered
<1>5. Budgets!OwnBudgets'
  <2> SUFFICES ASSUME NEW d \in Calls, (calls[d].answer = 429)',
                      (Budgets!Verified(calls[d]) \/ (calls[d].via = "direct"
                        /\ settings.apiHops))'
               PROVE  (Budgets!Cardinality(Budgets!Alike(d)) >= Limits[calls[d].path])'
    BY DEF Budgets!OwnBudgets
  <2>1. calls[d].pc = "done"
    BY <1>1 DEF BudgetsFit, RequestSaysWho, BudgetsInductive
  <2>2. calls'[d] = calls[d]  BY <1>1, <2>1
  <2>3. Budgets!Cardinality(Budgets!Alike(d)) >= Limits[calls[d].path]
    BY <1>3, <2>2 DEF BudgetsInductive, Budgets!BudgetsAreTheirOwn, Budgets!OwnBudgets,
                      Budgets!Verified, Budgets!Claimed
  <2>4. Budgets!Alike(d)' = Budgets!Alike(d)
    BY <1>1, <2>2 DEF Budgets!Alike
  <2> QED  BY <2>2, <2>3, <2>4
<1>6. Budgets!NothingUncounted'
  <2>1. ASSUME NEW c \in Calls
        PROVE  calls'[c].minute <= minute /\ calls'[c].minute \in Nat /\ minute \in Nat
    BY <1>1 DEF BudgetsInductive, CountedCall, BudgetsFit
  <2> QED  BY <1>3, <2>1 DEF Budgets!NothingUncounted
<1>7. \A c \in Calls : calls'[c].minute <= minute'
  BY <1>1, <1>3 DEF BudgetsInductive, CountedCall, BudgetsFit
<1> QED
  BY <1>7, <1>1, <1>2, <1>3, <1>4, <1>5, <1>6 DEF BudgetsInductive, Budgets!BudgetsAreTheirOwn

\* The requests that are counted like c were made by its client.
LEMMA SameTrackerSameClient ==
  ASSUME BudgetsFit, BudgetsInductive, NEW c \in Calls, NEW d \in Calls,
         calls[c].pc # "idle", calls[d].pc # "idle",
           Budgets!Tracker(calls[c]) = Budgets!Tracker(calls[d]),
         Budgets!Verified(calls[c]) \/ (calls[c].via = "direct" /\ settings.apiHops)
  PROVE  calls[d].client = calls[c].client
<1>1. RequestSaysWho(calls[c]) /\ RequestSaysWho(calls[d])  BY DEF BudgetsInductive
<1>2. CASE Budgets!Verified(calls[c])
  BY <1>1, <1>2 DEF Budgets!Tracker, RequestSaysWho, Budgets!Verified, Budgets!Claimed
<1>3. CASE ~Budgets!Verified(calls[c])
  BY <1>1, <1>3 DEF Budgets!Tracker, RequestSaysWho, BudgetsFit, Budgets!Verified,
                    Budgets!Claimed
<1> QED  BY <1>2, <1>3

LEMMA CountingIsFair ==
  ASSUME BudgetsFit, BudgetsInductive, NEW c \in Calls, Budgets!CanActivate(c)
  PROVE  BudgetsInductive'
<1> DEFINE over == Budgets!Cardinality(Budgets!CountedFor(Budgets!Tracker(calls[c]),
             calls[c].path)) >= Limits[calls[c].path]
           answer == IF over THEN 429
                     ELSE IF Budgets!Claimed(calls[c]) /\ ~Budgets!Verified(calls[c]) THEN 400
                       ELSE 200
           call == [calls[c] EXCEPT !.pc = "done", !.minute = minute, !.answer = answer]
           entry == [tracker |-> Budgets!Tracker(calls[c]), path |-> calls[c].path, call |-> c]
<1>1. calls[c].pc = "sent" /\ budgets' = budgets \cup {entry} /\ UNCHANGED <<settings, minute>>
  BY DEF Budgets!CanActivate, Budgets!Counted
<1>17. calls' = [calls EXCEPT ![c].pc = "done", ![c].minute = minute, ![c].answer = answer]
  BY DEF Budgets!CanActivate
<1>2. calls[c] \in CountedCall /\ RequestSaysWho(calls[c]) /\ minute \in Nat
  BY DEF BudgetsInductive, BudgetsFit
<1>3. answer \in {200, 400, 429} /\ (answer = 429 => over)  OBVIOUS
<1> HIDE DEF answer, over
<1> HIDE DEF entry
<1>19. call = [calls[c] EXCEPT !.pc = "done", !.minute = minute, !.answer = answer]  OBVIOUS
<1> HIDE DEF call
<1>18. entry.call = c  BY DEF entry
<1>20. call = [pc |-> "done", client |-> calls[c].client, path |-> calls[c].path,
               via |-> calls[c].via, claim |-> calls[c].claim, minute |-> minute,
               answer |-> answer]
  BY <1>2, <1>19 DEF CountedCall
<1>21. /\ calls[c].client \in Clients \cup {None} /\ calls[c].path \in Budgets!Paths \cup {None}
       /\ calls[c].via \in {"web", "direct", None}
       /\ calls[c].claim \in [key : Clients, whole : BOOLEAN, fresh : BOOLEAN] \cup {None}
  BY <1>2 DEF CountedCall
<1>22. call \in CountedCall  BY <1>2, <1>3, <1>20, <1>21 DEF CountedCall
<1>4. /\ call \in CountedCall
      /\ call.client = calls[c].client /\ call.path = calls[c].path /\ call.via = calls[c].via
      /\ call.claim = calls[c].claim /\ call.pc = "done" /\ call.answer = answer
      /\ call.minute = minute
  BY <1>20, <1>22
<1>0. calls' = [calls EXCEPT ![c] = call]  BY <1>17, <1>19 DEF BudgetsInductive
<1>14. RequestSaysWho(call) /\ call.minute <= minute
  BY <1>1, <1>2, <1>4 DEF RequestSaysWho
<1>5. \A d \in Calls : calls'[d] = IF d = c THEN call ELSE calls[d]
  BY <1>0 DEF BudgetsInductive
<1>6. calls' \in [Calls -> CountedCall]  BY <1>0, <1>4 DEF BudgetsInductive
<1>7. \A d \in Calls : RequestSaysWho(calls'[d]) /\ calls'[d].minute <= minute'
  BY <1>1, <1>14, <1>5 DEF BudgetsInductive
<1>8. \A d \in Calls : Budgets!Tracker(calls[d])' = Budgets!Tracker(calls[d])
        /\ Budgets!Verified(calls[d])' = Budgets!Verified(calls[d])
  BY <1>1, <1>4, <1>5 DEF Budgets!Tracker, Budgets!Verified, Budgets!Claimed
<1>9. ASSUME NEW b \in budgets' PROVE EntryIsEarned(b)'
  <2>1. CASE b = entry  BY <1>1, <1>3, <1>4, <1>5, <1>8, <2>1 DEF EntryIsEarned, entry
  <2>2. CASE b \in budgets
    <3>1. EntryIsEarned(b) /\ b.call # c  BY <1>1, <2>2 DEF BudgetsInductive, EntryIsEarned
    <3> QED  BY <1>1, <1>5, <1>8, <3>1 DEF EntryIsEarned
  <2> QED  BY <1>1, <2>1, <2>2
<1>10. BudgetAnswered' = BudgetAnswered \cup {c}  BY <1>4, <1>5 DEF BudgetAnswered
<1>11. IsFiniteSet(BudgetAnswered) /\ IsFiniteSet(BudgetAnswered')
  BY <1>10, FS_AddElement DEF BudgetsInductive
<1>12. ASSUME NEW d \in Calls, d # c
       PROVE  /\ IsFiniteSet(Budgets!Alike(d)) /\ IsFiniteSet(Budgets!Alike(d)')
              /\ Budgets!Alike(d) \subseteq Budgets!Alike(d)'
  <2>1. Budgets!Alike(d) \subseteq Budgets!Alike(d)'  BY <1>1, <1>5, <1>12 DEF Budgets!Alike
  <2>2. Budgets!Alike(d)' \subseteq BudgetAnswered'  BY DEF Budgets!Alike, BudgetAnswered
  <2> QED  BY <1>11, <2>1, <2>2, FS_Subset
<1>13. ASSUME over, Budgets!Verified(calls[c]) \/ (calls[c].via = "direct" /\ settings.apiHops)
       PROVE  Budgets!Cardinality(Budgets!Alike(c)') >= Limits[calls[c].path]
  <2> DEFINE S == Budgets!CountedFor(Budgets!Tracker(calls[c]), calls[c].path)
             f == [b \in S |-> b.call]
  <2>1. ASSUME NEW b \in S
        PROVE  /\ b.call \in Budgets!Alike(c)'
               /\ b = [tracker |-> Budgets!Tracker(calls[c]), path |-> calls[c].path,
                  call |-> b.call]
    <3>1. EntryIsEarned(b) /\ b.tracker = Budgets!Tracker(calls[c]) /\ b.path = calls[c].path
      BY DEF Budgets!CountedFor, BudgetsInductive
    <3>2. /\ Budgets!Tracker(calls[b.call]) = Budgets!Tracker(calls[c])
             /\ calls[b.call].path = calls[c].path
          /\ b.call \in Calls /\ calls[b.call].pc = "done"
          /\ b = [tracker |-> Budgets!Tracker(calls[c]), path |-> calls[c].path,
             call |-> b.call]
      BY <3>1 DEF EntryIsEarned
    <3>3. calls[b.call].client = calls[c].client
      BY <1>1, <1>13, <3>2, SameTrackerSameClient
    <3>4. b.call # c  BY <1>1, <3>2
    <3>5. calls'[b.call] = calls[b.call] /\ calls'[c] = call  BY <1>5, <3>2, <3>4
    <3> QED  BY <1>4, <3>1, <3>2, <3>3, <3>4, <3>5 DEF Budgets!Alike, EntryIsEarned
  <2>2. f \in Injection(S, Budgets!Alike(c)')
    BY <2>1 DEF Injection, IsInjective
  <2>3. IsFiniteSet(Budgets!Alike(c)')
    <3>1. Budgets!Alike(c)' \subseteq BudgetAnswered'  BY DEF Budgets!Alike, BudgetAnswered
    <3> QED  BY <1>11, <3>1, FS_Subset
  <2>4. IsFiniteSet(S) /\ Budgets!Cardinality(S) <= Budgets!Cardinality(Budgets!Alike(c)')
    BY <2>2, <2>3, FS_Injection, SameCardinality
  <2>5. Budgets!Cardinality(S) \in Nat /\ Budgets!Cardinality(Budgets!Alike(c)') \in Nat
    BY <2>3, <2>4, FS_CardinalityType, SameCardinality
  <2>6. Limits[calls[c].path] \in Nat
    BY <1>1, <1>2 DEF BudgetsFit, RequestSaysWho
  <2> QED  BY <1>13, <2>4, <2>5, <2>6 DEF over
<1>15. Budgets!OwnBudgets'
  <2> SUFFICES ASSUME NEW d \in Calls, (calls[d].answer = 429)',
                      (Budgets!Verified(calls[d]) \/ (calls[d].via = "direct"
                        /\ settings.apiHops))'
               PROVE  (Budgets!Cardinality(Budgets!Alike(d)) >= Limits[calls[d].path])'
    BY DEF Budgets!OwnBudgets
  <2>1. CASE d = c
    <3>1. Budgets!Verified(calls[c]) \/ (calls[c].via = "direct" /\ settings.apiHops)
      BY <1>1, <1>4, <1>5, <1>8, <2>1
    <3>2. over  BY <1>3, <1>4, <1>5, <2>1
    <3> QED  BY <1>4, <1>5, <1>13, <2>1, <3>1, <3>2
  <2>2. CASE d # c
    <3>1. Budgets!Cardinality(Budgets!Alike(d)) >= Limits[calls[d].path]
      BY <1>1, <1>5, <1>8, <2>2 DEF BudgetsInductive, Budgets!BudgetsAreTheirOwn,
                                    Budgets!OwnBudgets
    <3>2. Budgets!Cardinality(Budgets!Alike(d)') \in Nat
            /\ Budgets!Cardinality(Budgets!Alike(d)) \in Nat
          /\ Budgets!Cardinality(Budgets!Alike(d)) <= Budgets!Cardinality(Budgets!Alike(d)')
      BY <1>12, <2>2, FS_CardinalityType, SameCardinality, FS_Subset
    <3>3. Limits[calls[d].path] \in Nat /\ calls'[d] = calls[d]
      <4>1. RequestSaysWho(calls[d]) /\ calls[d].answer = 429 /\ calls'[d] = calls[d]
        BY <1>5, <2>2 DEF BudgetsInductive
      <4> QED  BY <4>1 DEF BudgetsFit, RequestSaysWho
    <3> QED  BY <3>1, <3>2, <3>3
  <2> QED  BY <2>1, <2>2
<1>16. Budgets!NothingUncounted'
  <2> SUFFICES ASSUME NEW d \in Calls, (calls[d].answer \in {200, 400, 429})',
                        (calls[d].minute = minute)'
               PROVE  \E b \in budgets' : b.call = d
    BY DEF Budgets!NothingUncounted
  <2>1. CASE d = c  BY <1>1, <1>18, <2>1
  <2>2. CASE d # c
    BY <1>1, <1>5, <2>2 DEF BudgetsInductive, Budgets!BudgetsAreTheirOwn,
                            Budgets!NothingUncounted
  <2> QED  BY <2>1, <2>2
<1> QED
  BY <1>1, <1>6, <1>7, <1>9, <1>11, <1>15, <1>16 DEF BudgetsInductive,
                                                     Budgets!BudgetsAreTheirOwn

LEMMA BudgetsNext ==
  ASSUME BudgetsFit, BudgetsInductive, [Budgets!Next]_(Budgets!vars)
  PROVE  BudgetsInductive'
<1>1. ASSUME NEW c \in Calls, NEW u \in Clients, NEW p \in Budgets!Paths,
               NEW v \in {"web", "direct"},
             Budgets!Request(c, u, p, v)
      PROVE  BudgetsInductive'
  BY <1>1, RequestIsOnTheWay
<1>2. ASSUME NEW c \in Calls, Budgets!Damage(c) \/ Budgets!Delay(c) PROVE BudgetsInductive'
  BY <1>2, SpoiltIsOnTheWay DEF Budgets!Damage, Budgets!Delay
<1>3. ASSUME NEW c \in Calls, Budgets!CanActivate(c) PROVE BudgetsInductive'
  BY <1>3, CountingIsFair
<1>4. CASE Budgets!Minute  BY <1>4, MinuteIsOver
<1>5. CASE UNCHANGED Budgets!vars
  BY <1>5 DEF Budgets!vars, BudgetsInductive, EntryIsEarned, Budgets!Tracker, Budgets!Verified,
              Budgets!Claimed, BudgetAnswered,
              Budgets!BudgetsAreTheirOwn, Budgets!OwnBudgets, Budgets!NothingUncounted,
                Budgets!Alike
<1> QED  BY <1>1, <1>2, <1>3, <1>4, <1>5 DEF Budgets!Next

LEMMA BudgetsMeanOwn == BudgetsInductive => Budgets!TypesHold /\ Budgets!BudgetsAreTheirOwn
BY DEF BudgetsInductive, Budgets!TypesHold, CountedCall

-----------------------------------------------------------------------------
(* Registration and login answer truly (AccountRegistration).             *)

\* What a call has written, by where it is.
Written(c) ==
  /\ calls[c].pc \in {"idle", "looked", "organized", "housed"} \cup Registration!Joining
          \/ calls[c].kind = "enter"
       => Registration!CreatedBy(c) = {}
  /\ calls[c].pc \in {"created", "owned"} => Registration!CreatedBy(c) = {calls[c].email}
  /\ calls[c].pc \in {"idle", "looked"} => rows[c] = {}
  /\ calls[c].pc = "organized" => rows[c] = {"organization"}
  /\ calls[c].pc \in {"housed", "created"} => rows[c] = {"organization", "workspace"}
  /\ calls[c].pc = "owned" => rows[c] = {"organization", "workspace", "owner"}

\* What a call knows, by where it is.
Established(c) ==
  /\ calls[c].pc # "idle" =>
     calls[c].email \in Registration!Addresses /\ calls[c].password \in Passwords
  /\ calls[c].pc \in {"idle"} \cup Registration!Founding \cup Registration!Joining
          \/ calls[c].kind = "enter"
       => calls[c].outcome = None
  /\ calls[c].pc # "answered" => calls[c].answer = None
  /\ calls[c].pc \in Registration!Founding => calls[c].kind = "found"
  /\ calls[c].pc \in Registration!Joining \cup {"registered"} =>
     calls[c].kind = "join" /\ Registration!Normal(calls[c].email) = Invited
  /\ calls[c].pc = "conflict" => accounts[Invited] # None
  /\ calls[c].pc \in {"proved", "capable", "accepted"} \/ calls[c].answer = "session"
       => accounts[calls[c].email] # None /\ Registration!Knows(c, calls[c].email)
  /\ calls[c].pc = "accepted" \/ calls[c].answer = "session"
       => invitation.status = "ACCEPTED" /\ invitation.acceptedBy = calls[c].email
  /\ calls[c].outcome = "ALREADY_REGISTERED" => accounts[Invited] # None

\* Who has seen the invitation pending is overtaken when it no longer is.
Warned(c) ==
  /\ calls[c].pc \in {"hashed", "reread"} => calls[c].seen = "PENDING"
  /\ calls[c].pc \in {"read", "hashed", "reread"} /\ calls[c].seen = "PENDING"
     /\ invitation.status = "ACCEPTED" => c \in overtaken
  /\ calls[c].pc = "reread" /\ invitation.status = "REVOKED" => c \in overtaken
  /\ calls[c].outcome = "CREATED" /\ calls[c].seen # "PENDING" =>
       calls[c].seen = "EXPIRED" \/ c \in overtaken

\* The part of RegistrationAnswersTruly about one call.
Truthful(c) ==
  /\ calls[c].outcome = "CREATED" => Registration!CreatedBy(c) = {Invited}
  /\ calls[c].outcome = "ALREADY_REGISTERED" =>
     Registration!Knows(c, Invited) /\ Registration!CreatedBy(c) = {}
  /\ calls[c].answer # "could not be created"
  /\ calls[c].answer = "registered" =>
       Registration!CreatedBy(c) = {calls[c].email} /\ rows[c] = {"organization", "workspace",
         "owner"}

Honest(c) == Written(c) /\ Established(c) /\ Warned(c) /\ Truthful(c)

\* The inductive invariant: nobody has had a seat while the invitation is open.
AccountsInductive ==
  /\ Registration!TypesHold
  /\ \A c \in Calls : Honest(c)
  /\ invitation.status # "ACCEPTED" => seats = {} /\ removed = {}
  /\ removed \cap seats = {}

LEMMA AccountsBegin == ASSUME RegistrationFit, Registration!Init PROVE AccountsInductive
<1>1. Registration!Idle \in Registration!Call  BY DEF Registration!Idle, Registration!Call
<1>2. Registration!TypesHold  BY <1>1 DEF Registration!Init, Registration!TypesHold
<1>3. ASSUME NEW c \in Calls PROVE Honest(c)
  <2>1. calls[c] = Registration!Idle /\ rows[c] = {} /\ Registration!CreatedBy(c) = {}
    BY DEF Registration!Init, Registration!CreatedBy, Registration!Addresses
  <2>2. /\ Registration!Idle.pc = "idle" /\ Registration!Idle.kind = None
           /\ Registration!Idle.outcome = None /\ Registration!Idle.answer = None
        /\ Registration!Idle.seen = None
    BY DEF Registration!Idle
  <2> QED
    BY <2>1, <2>2 DEF Honest, Written, Established, Warned, Truthful, RegistrationFit,
                      Registration!Answers,
                      Registration!Joining, Registration!Founding
<1> QED  BY <1>2, <1>3 DEF AccountsInductive, Registration!Init

LEMMA AccountCallIsTyped ==
  ASSUME AccountsInductive, NEW c \in Calls
  PROVE  calls[c] \in Registration!Call
BY DEF AccountsInductive, Registration!TypesHold

\* Accounts are made, but not by d; the invitation is not reopened, and who loses it is told.
Beside(d) ==
  /\ \A a \in Registration!Addresses : \/ accounts'[a] = accounts[a]
                                       \/ accounts[a] = None /\ accounts'[a] # None
                                          /\ accounts'[a].by # d
  /\ invitation.status = "ACCEPTED" =>
       invitation'.status = "ACCEPTED" /\ invitation'.acceptedBy = invitation.acceptedBy
  /\ invitation'.status = "ACCEPTED" /\ invitation.status # "ACCEPTED" =>
       (calls[d].pc \in Registration!Joining => d \in overtaken')
  /\ invitation'.status = "REVOKED" /\ invitation.status # "REVOKED" =>
       (calls[d].pc = "reread" => d \in overtaken')
  /\ overtaken \subseteq overtaken'

\* What happens beside a call leaves it as honest as it was.
LEMMA BesideIsHonest ==
  ASSUME AccountsInductive, RegistrationFit, NEW d \in Calls, Beside(d),
         calls'[d] = calls[d], rows'[d] = rows[d]
  PROVE  Honest(d)'
<1>1. Honest(d) /\ calls[d] \in Registration!Call  BY AccountCallIsTyped DEF AccountsInductive
<1>2. Registration!CreatedBy(d)' = Registration!CreatedBy(d)
  BY DEF Registration!CreatedBy, Beside
<1>3. Written(d)'  BY <1>1, <1>2 DEF Honest, Written
<1>4. \A a \in Registration!Addresses : accounts[a] # None => accounts'[a] = accounts[a]
  BY DEF Beside
<1>5. Established(d)'
  <2>0. Established(d)  BY <1>1 DEF Honest
  <2>1. (calls[d].pc = "conflict" \/ calls[d].outcome = "ALREADY_REGISTERED"
          => accounts[Invited] # None)'
    BY <1>4, <2>0 DEF Established, Registration!Addresses
  <2>2. calls[d].answer = "session" => calls[d].pc = "answered"
    BY <2>0 DEF Established, RegistrationFit, Registration!Answers
  <2>3. (calls[d].pc \in {"proved", "capable", "accepted"} \/ calls[d].answer = "session"
         => accounts[calls[d].email] # None /\ Registration!Knows(d, calls[d].email))'
    BY <1>4, <2>0, <2>2 DEF Established, Registration!Knows
  <2>4. (calls[d].pc = "accepted" \/ calls[d].answer = "session"
         => invitation.status = "ACCEPTED" /\ invitation.acceptedBy = calls[d].email)'
    BY <2>0 DEF Established, Beside
  <2> QED  BY <2>0, <2>1, <2>3, <2>4 DEF Established
<1>6. Warned(d)'  BY <1>1 DEF Honest, Warned, Beside, Registration!Joining
<1>7. Truthful(d)'
  <2>1. calls[d].outcome = "ALREADY_REGISTERED" => accounts[Invited] # None
    BY <1>1 DEF Honest, Established
  <2> QED
    BY <1>1, <1>2, <1>4, <2>1 DEF Honest, Truthful, Registration!Knows, Registration!Addresses
<1> QED  BY <1>3, <1>5, <1>6, <1>7 DEF Honest

\* A call goes on, and makes no account, while the invitation and the seats stay.
LEMMA GoesOn ==
  ASSUME AccountsInductive, RegistrationFit, NEW c \in Calls, NEW r \in Registration!Call,
         Registration!Set(c, r),
         UNCHANGED <<accounts, invitation, seats, overtaken, removed>>,
         rows' \in [Calls -> SUBSET {"organization", "workspace", "owner"}],
         \A d \in Calls \ {c} : rows'[d] = rows[d],
         Honest(c)'
  PROVE  AccountsInductive'
<1>1. Registration!TypesHold'
  BY DEF AccountsInductive, Registration!TypesHold, Registration!Set
<1>2. ASSUME NEW d \in Calls PROVE Honest(d)'
  <2>1. CASE d # c
    <3>1. calls'[d] = calls[d]
      BY <2>1 DEF Registration!Set, AccountsInductive, Registration!TypesHold
    <3>2. Beside(d)  BY DEF Beside
    <3> QED  BY <2>1, <3>1, <3>2, BesideIsHonest
  <2> QED  BY <2>1
<1> QED  BY <1>1, <1>2 DEF AccountsInductive

\* A call is refused, or breaks off.
LEMMA RefusedIsHonest ==
  ASSUME AccountsInductive, RegistrationFit, NEW c \in Calls,
         NEW answer \in Registration!Answers \ {"registered", "session",
           "could not be created"},
         Registration!Answer(c, answer), calls[c].pc # "idle",
         UNCHANGED <<accounts, invitation, seats, rows, overtaken, removed>>
  PROVE  AccountsInductive'
<1> DEFINE r == [calls[c] EXCEPT !.pc = "answered", !.answer = answer]
<1>1. calls[c] \in Registration!Call /\ Honest(c)  BY AccountCallIsTyped DEF AccountsInductive
<1>2. r \in Registration!Call  BY <1>1 DEF Registration!Call
<1>3. calls'[c] = r /\ Registration!Set(c, r)
  BY DEF Registration!Answer, Registration!Set, AccountsInductive, Registration!TypesHold
<1>4. /\ r.pc = "answered" /\ r.answer = answer /\ r.kind = calls[c].kind
      /\ r.email = calls[c].email /\ r.password = calls[c].password
      /\ r.outcome = calls[c].outcome /\ r.seen = calls[c].seen
  BY <1>1 DEF Registration!Call
<1> HIDE DEF r
<1>5. Registration!CreatedBy(c)' = Registration!CreatedBy(c)  BY DEF Registration!CreatedBy
<1>6. Written(c)'
  BY <1>1, <1>3, <1>4, <1>5 DEF Honest, Written, Registration!Joining
<1>7. Established(c)'
  <2>1. Established(c)  BY <1>1 DEF Honest
  <2> QED
    BY <1>1, <1>3, <1>4, <2>1 DEF Established, Registration!Joining, Registration!Founding
<1>8. Warned(c)'  BY <1>1, <1>3, <1>4 DEF Honest, Warned
<1>9. Truthful(c)'  BY <1>1, <1>3, <1>4, <1>5 DEF Honest, Truthful, Registration!Knows
<1> QED
  BY <1>2, <1>3, <1>6, <1>7, <1>8, <1>9, GoesOn DEF Honest, AccountsInductive,
                                                    Registration!TypesHold

\* What a call becomes when it goes on to pc, or is answered.
LEMMA Went ==
  ASSUME AccountsInductive, NEW c \in Calls,
         NEW pc \in {"idle", "answered"} \cup Registration!Founding \cup Registration!Joining
           \cup Registration!Entering,
         Registration!Go(c, pc)
  PROVE  /\ calls'[c] \in Registration!Call /\ Registration!Set(c, calls'[c])
         /\ calls'[c].pc = pc /\ calls'[c].kind = calls[c].kind
         /\ calls'[c].email = calls[c].email /\ calls'[c].password = calls[c].password
         /\ calls'[c].outcome = calls[c].outcome /\ calls'[c].seen = calls[c].seen
         /\ calls'[c].answer = calls[c].answer
<1>1. calls[c] \in Registration!Call  BY AccountCallIsTyped
<1>2. [calls[c] EXCEPT !.pc = pc] \in Registration!Call  BY <1>1 DEF Registration!Call
<1>3. calls'[c] = [calls[c] EXCEPT !.pc = pc]
  BY DEF Registration!Go, Registration!Set, AccountsInductive, Registration!TypesHold
<1>4. Registration!Set(c, calls'[c])  BY <1>3 DEF Registration!Go, Registration!Set
<1> QED  BY <1>1, <1>2, <1>3, <1>4 DEF Registration!Call

LEMMA LookUpIsHonest ==
  ASSUME AccountsInductive, RegistrationFit, NEW c \in Calls, Registration!LookUpAddress(c)
  PROVE  AccountsInductive'
<1>1. Honest(c) /\ calls[c].pc = "idle"
  BY DEF AccountsInductive, Registration!LookUpAddress, Registration!At
<1>2. PICK a \in Registration!Addresses, p \in Passwords, e \in Subdomains :
        LET r == [Registration!Idle EXCEPT !.kind = "found", !.email = a, !.password = p,
          !.subdomain = e]
        IN  IF accounts[a] # None
            THEN Registration!Set(c, [r EXCEPT !.pc = "answered", !.answer = "exists"])
            ELSE Registration!Set(c, [r EXCEPT !.pc = "looked"])
  BY DEF Registration!LookUpAddress
<1> DEFINE r == [pc |-> IF accounts[a] # None THEN "answered" ELSE "looked", kind |-> "found",
                 email |-> a, password |-> p, subdomain |-> e, seen |-> None, outcome |-> None,
                 answer |-> IF accounts[a] # None THEN "exists" ELSE None]
<1>3. Registration!Set(c, r)  BY <1>2 DEF Registration!Idle, Registration!Set
<1>4. r \in Registration!Call
  BY DEF Registration!Call, Registration!Founding, Registration!Answers, Registration!Kinds
<1>5. calls'[c] = r  BY <1>3 DEF Registration!Set, AccountsInductive, Registration!TypesHold
<1>6. UNCHANGED <<accounts, invitation, seats, rows, overtaken, removed>>
  BY DEF Registration!LookUpAddress
<1>7. Registration!CreatedBy(c)' = {} /\ rows'[c] = {}
  BY <1>1, <1>6 DEF Registration!CreatedBy, Honest, Written
<1>8. Honest(c)'
  <2>1. r.pc \in {"answered", "looked"} /\ r.email \in Registration!Addresses
          /\ r.password \in Passwords /\ r.outcome = None
        /\ r.kind = "found" /\ r.answer \in {"exists", None}
           /\ (r.pc = "looked" => r.answer = None)
    OBVIOUS
  <2> HIDE DEF r
  <2> QED
    BY <1>5, <1>7, <2>1 DEF Honest, Written, Established, Warned, Truthful, RegistrationFit,
                            Registration!Joining,
                            Registration!Answers, Registration!Founding
<1> QED  BY <1>3, <1>4, <1>6, <1>8, GoesOn DEF AccountsInductive, Registration!TypesHold

LEMMA WroteIsTyped ==
  ASSUME AccountsInductive, NEW c \in Calls,
         NEW what \in {"organization", "workspace", "owner"},
         Registration!Write(c, what)
  PROVE  /\ rows' \in [Calls -> SUBSET {"organization", "workspace", "owner"}]
         /\ \A d \in Calls \ {c} : rows'[d] = rows[d]
         /\ rows'[c] = rows[c] \cup {what}
BY DEF AccountsInductive, Registration!TypesHold, Registration!Write

\* While a founder goes on, only what it has written can be wrong.
LEMMA FounderGoesOn ==
  ASSUME AccountsInductive, RegistrationFit, NEW c \in Calls,
         calls[c].pc \in Registration!Founding,
         NEW pc \in Registration!Founding \ {"looked"}, Registration!Go(c, pc), Written(c)'
  PROVE  Honest(c)'
<1>1. Established(c) /\ pc \notin {"idle", "answered", "registered"} \cup Registration!Joining
        \cup Registration!Entering
      /\ calls[c].pc \notin {"idle", "answered"}
  BY DEF AccountsInductive, Honest, Registration!Founding, Registration!Joining,
         Registration!Entering
<1>2. calls'[c].pc = pc /\ calls'[c].email = calls[c].email
        /\ calls'[c].outcome = calls[c].outcome
      /\ calls'[c].answer = calls[c].answer
      /\ calls'[c].password = calls[c].password /\ calls'[c].kind = calls[c].kind
  BY Went
<1>3. calls'[c].password \in Passwords /\ calls'[c].kind = "found"
      /\ calls'[c].outcome = None /\ calls'[c].answer = None
         /\ calls'[c].email \in Registration!Addresses
  BY <1>1, <1>2 DEF Established
<1>4. None \notin Registration!Answers /\ None \notin {"CREATED", "ALREADY_REGISTERED"}
  BY DEF RegistrationFit
<1>5. Established(c)'
  BY <1>1, <1>2, <1>3, <1>4 DEF Established, Registration!Joining, Registration!Entering,
                                Registration!Answers
<1>6. Warned(c)'  BY <1>1, <1>2, <1>3, <1>4 DEF Warned, Registration!Joining
<1>7. Truthful(c)'  BY <1>3, <1>4 DEF Truthful, Registration!Answers
<1> QED  BY <1>5, <1>6, <1>7 DEF Honest

LEMMA OrganizationIsHonest ==
  ASSUME AccountsInductive, RegistrationFit, NEW c \in Calls, Registration!CreateOrganization(c)
  PROVE  AccountsInductive'
<1>1. Honest(c) /\ calls[c].pc = "looked"
  BY DEF AccountsInductive, Registration!CreateOrganization, Registration!At
<1>2. Registration!Go(c, "organized") /\ Registration!Write(c, "organization")
      /\ UNCHANGED <<accounts, invitation, seats, overtaken, removed>>
  BY DEF Registration!CreateOrganization
<1>3. Registration!CreatedBy(c)' = Registration!CreatedBy(c)  BY <1>2 DEF Registration!CreatedBy
<1>4. calls'[c].pc = "organized" /\ calls'[c].kind = calls[c].kind
  BY <1>2, Went DEF Registration!Founding
<1>5. Written(c)'
  BY <1>1, <1>2, <1>3, <1>4, WroteIsTyped DEF Honest, Written, Registration!Joining
<1>6. Honest(c)'  BY <1>1, <1>2, <1>5, FounderGoesOn DEF Registration!Founding
<1> QED  BY <1>2, <1>6, Went, WroteIsTyped, GoesOn DEF Registration!Founding

LEMMA WorkspaceIsHonest ==
  ASSUME AccountsInductive, RegistrationFit, NEW c \in Calls, Registration!CreateWorkspace(c)
  PROVE  AccountsInductive'
<1>1. Honest(c) /\ calls[c].pc = "organized"
  BY DEF AccountsInductive, Registration!CreateWorkspace, Registration!At
<1>2. CASE Registration!Answer(c, "error") /\ UNCHANGED rows
  BY <1>1, <1>2, RefusedIsHonest DEF Registration!CreateWorkspace, Registration!Answers
<1>3. CASE Registration!Go(c, "housed") /\ Registration!Write(c, "workspace")
  <2>1. UNCHANGED <<accounts, invitation, seats, overtaken, removed>>
    BY DEF Registration!CreateWorkspace
  <2>2. Registration!CreatedBy(c)' = Registration!CreatedBy(c)
    BY <2>1 DEF Registration!CreatedBy
  <2>3. calls'[c].pc = "housed" /\ calls'[c].kind = calls[c].kind
    BY <1>3, Went DEF Registration!Founding
  <2>4. Written(c)'
    BY <1>1, <1>3, <2>2, <2>3, WroteIsTyped DEF Honest, Written, Registration!Joining
  <2>5. Honest(c)'  BY <1>1, <1>3, <2>4, FounderGoesOn DEF Registration!Founding
  <2> QED  BY <1>3, <2>1, <2>5, Went, WroteIsTyped, GoesOn DEF Registration!Founding
<1> QED  BY <1>2, <1>3 DEF Registration!CreateWorkspace

LEMMA OwnerIsHonest ==
  ASSUME AccountsInductive, RegistrationFit, NEW c \in Calls, Registration!CreateOwner(c)
  PROVE  AccountsInductive'
<1>1. Honest(c) /\ calls[c].pc = "created"
  BY DEF AccountsInductive, Registration!CreateOwner, Registration!At
<1>2. Registration!Go(c, "owned") /\ Registration!Write(c, "owner")
      /\ UNCHANGED <<accounts, invitation, seats, overtaken, removed>>
  BY DEF Registration!CreateOwner
<1>3. Registration!CreatedBy(c)' = Registration!CreatedBy(c)  BY <1>2 DEF Registration!CreatedBy
<1>4. calls'[c].pc = "owned" /\ calls'[c].email = calls[c].email
        /\ calls'[c].kind = calls[c].kind
  BY <1>2, Went DEF Registration!Founding
<1>5. Written(c)'
  <2>1. Written(c)  BY <1>1 DEF Honest
  <2>2. rows'[c] = {"organization", "workspace", "owner"}
    BY <1>1, <1>2, <2>1, WroteIsTyped DEF Written
  <2>3. calls[c].kind # "enter" \/ Registration!CreatedBy(c) = {}  BY <2>1 DEF Written
  <2> QED  BY <1>1, <1>3, <1>4, <2>1, <2>2, <2>3 DEF Written, Registration!Joining
<1>6. Honest(c)'  BY <1>1, <1>2, <1>5, FounderGoesOn DEF Registration!Founding
<1> QED  BY <1>2, <1>6, Went, WroteIsTyped, GoesOn DEF Registration!Founding

\* The answer to a call that has come to its end.
LEMMA AccountAnswered ==
  ASSUME AccountsInductive, NEW c \in Calls, NEW answer \in Registration!Answers,
         Registration!Answer(c, answer)
  PROVE  /\ calls'[c] \in Registration!Call /\ Registration!Set(c, calls'[c])
         /\ calls'[c].pc = "answered" /\ calls'[c].kind = calls[c].kind
         /\ calls'[c].email = calls[c].email /\ calls'[c].password = calls[c].password
         /\ calls'[c].outcome = calls[c].outcome /\ calls'[c].seen = calls[c].seen
         /\ calls'[c].answer = answer
<1> DEFINE r == [calls[c] EXCEPT !.pc = "answered", !.answer = answer]
<1>1. calls[c] \in Registration!Call  BY AccountCallIsTyped
<1>2. r \in Registration!Call  BY <1>1 DEF Registration!Call
<1>3. calls'[c] = r
  BY DEF Registration!Answer, Registration!Set, AccountsInductive, Registration!TypesHold
<1>4. Registration!Set(c, calls'[c])  BY <1>3 DEF Registration!Answer, Registration!Set
<1> QED  BY <1>1, <1>2, <1>3, <1>4 DEF Registration!Call

LEMMA RegisteredIsHonest ==
  ASSUME AccountsInductive, RegistrationFit, NEW c \in Calls, Registration!RecordRegistration(c)
  PROVE  AccountsInductive'
<1>1. Honest(c) /\ calls[c].pc = "owned"
  BY DEF AccountsInductive, Registration!RecordRegistration, Registration!At
<1>2. Registration!Answer(c, "registered") /\ UNCHANGED <<accounts, invitation, seats, rows,
        overtaken, removed>>
  BY DEF Registration!RecordRegistration
<1>3. Registration!CreatedBy(c)' = Registration!CreatedBy(c)  BY <1>2 DEF Registration!CreatedBy
<1>4. Honest(c)'
  BY <1>1, <1>2, <1>3, AccountAnswered DEF Honest, Written, Established, Warned, Truthful,
                                           Registration!Joining, Registration!Founding,
                                           RegistrationFit, Registration!Answers
<1> QED
  BY <1>2, <1>4, AccountAnswered, GoesOn DEF Registration!Answers, AccountsInductive,
                                             Registration!TypesHold

\* Accounts are made by c only.
GrowsBy(c) ==
  /\ accounts' \in [Registration!Addresses -> [password : Passwords, by : Calls] \cup {None}]
  /\ \A b \in Registration!Addresses : \/ accounts'[b] = accounts[b]
                                       \/ accounts[b] = None /\ accounts'[b] # None
                                          /\ accounts'[b].by = c

\* A call makes the account of an address that has none.
LEMMA MakesAccount ==
  ASSUME AccountsInductive, RegistrationFit, NEW c \in Calls, NEW a \in Registration!Addresses,
         accounts[a] = None,
         accounts' = [accounts EXCEPT ![a] = Registration!NewAccount(c)], calls[c].pc # "idle",
         Registration!CreatedBy(c) = {}
  PROVE  /\ GrowsBy(c) /\ Registration!CreatedBy(c)' = {a}
         /\ accounts'[a] # None /\ accounts'[a].password = calls[c].password
<1>1. calls[c].password \in Passwords  BY DEF AccountsInductive, Honest, Established
<1>2. Registration!NewAccount(c) \in [password : Passwords, by : Calls]
  BY <1>1 DEF Registration!NewAccount
<1>3. Registration!NewAccount(c) # None /\ Registration!NewAccount(c).by = c
        /\ Registration!NewAccount(c).password = calls[c].password
  BY <1>2 DEF RegistrationFit, Registration!NewAccount
<1>4. accounts \in [Registration!Addresses -> [password : Passwords, by : Calls] \cup {None}]
  BY DEF AccountsInductive, Registration!TypesHold
<1>5. \A b \in Registration!Addresses : accounts'[b] = IF b = a THEN Registration!NewAccount(c)
        ELSE accounts[b]
  BY <1>4
<1>6. Registration!CreatedBy(c)' = {a}  BY <1>3, <1>5 DEF Registration!CreatedBy
<1> QED  BY <1>2, <1>3, <1>4, <1>5, <1>6 DEF GrowsBy

\* The step of a call that makes an account, while the invitation and the seats stay.
LEMMA GoesOnWithAccount ==
  ASSUME AccountsInductive, RegistrationFit, NEW c \in Calls, calls'[c] \in Registration!Call,
         Registration!Set(c, calls'[c]),
         UNCHANGED <<invitation, seats, rows, overtaken, removed>>,
         GrowsBy(c),
         Honest(c)'
  PROVE  AccountsInductive'
<1>0. calls' \in [Calls -> Registration!Call]
  BY DEF AccountsInductive, Registration!TypesHold, Registration!Set
<1>1. Registration!TypesHold'  BY <1>0 DEF AccountsInductive, Registration!TypesHold, GrowsBy
<1>2. ASSUME NEW d \in Calls PROVE Honest(d)'
  <2>1. CASE d # c
    <3>1. calls'[d] = calls[d]
      BY <2>1 DEF Registration!Set, AccountsInductive, Registration!TypesHold
    <3>2. Beside(d)  BY <2>1 DEF Beside, GrowsBy
    <3> QED  BY <2>1, <3>1, <3>2, BesideIsHonest
  <2> QED  BY <2>1
<1> QED  BY <1>1, <1>2 DEF AccountsInductive

LEMMA UserIsHonest ==
  ASSUME AccountsInductive, RegistrationFit, NEW c \in Calls, Registration!CreateUser(c)
  PROVE  AccountsInductive'
<1> DEFINE a == calls[c].email
<1>1. Honest(c) /\ calls[c].pc = "housed" /\ a \in Registration!Addresses
  BY DEF AccountsInductive, Registration!CreateUser, Registration!At, Honest, Established
<1>2. UNCHANGED <<invitation, seats, rows, overtaken, removed>>  BY DEF Registration!CreateUser
<1>3. CASE Registration!Answer(c, "error") /\ UNCHANGED accounts
  BY <1>1, <1>2, <1>3, RefusedIsHonest DEF Registration!Answers
<1>4. CASE accounts[a] = None /\ accounts' = [accounts EXCEPT ![a] = Registration!NewAccount(c)]
             /\ Registration!Go(c, "created")
  <2>1. Registration!CreatedBy(c) = {}  BY <1>1 DEF Honest, Written
  <2>2. Registration!CreatedBy(c)' = {a}  BY <1>1, <1>4, <2>1, MakesAccount
  <2>3. calls'[c].pc = "created" /\ calls'[c].email = a /\ calls'[c].kind = calls[c].kind
    BY <1>4, Went DEF Registration!Founding
  <2>4. calls[c].kind # "enter"  BY <1>1 DEF Honest, Established, Registration!Founding
  <2>5. Written(c)'  BY <1>1, <1>2, <2>2, <2>3, <2>4 DEF Honest, Written, Registration!Joining
  <2>6. Honest(c)'  BY <1>1, <1>4, <2>5, FounderGoesOn DEF Registration!Founding
  <2>7. GrowsBy(c)  BY <1>1, <1>4, <2>1, MakesAccount
  <2>8. calls'[c] \in Registration!Call /\ Registration!Set(c, calls'[c])
    BY <1>4, Went DEF Registration!Founding
  <2> QED  BY <1>2, <2>6, <2>7, <2>8, GoesOnWithAccount
<1> QED  BY <1>3, <1>4 DEF Registration!CreateUser

LEMMA ReadIsHonest ==
  ASSUME AccountsInductive, RegistrationFit, NEW c \in Calls, Registration!ReadInvitation(c)
  PROVE  AccountsInductive'
<1>1. Honest(c) /\ calls[c].pc = "idle"
  BY DEF AccountsInductive, Registration!ReadInvitation, Registration!At
<1>2. PICK a \in Registration!Addresses, p \in Passwords :
        LET r == [Registration!Idle EXCEPT !.kind = "join", !.email = a, !.password = p,
                                           !.seen = invitation.status]
            refused(why) == [r EXCEPT !.pc = "answered", !.answer = why]
        IN  Registration!Set(c, IF Registration!Normal(a) # Invited
                                   \/ invitation.status = "REVOKED"
                                THEN refused("not found")
                                ELSE IF invitation.lapsed THEN refused("expired")
                                ELSE [r EXCEPT !.pc = "read"])
  BY DEF Registration!ReadInvitation
<1> DEFINE lost == Registration!Normal(a) # Invited \/ invitation.status = "REVOKED"
           pc == IF lost \/ invitation.lapsed THEN "answered" ELSE "read"
           answer == IF lost THEN "not found" ELSE IF invitation.lapsed THEN "expired" ELSE None
           r == [pc |-> pc, kind |-> "join", email |-> a, password |-> p, subdomain |-> None,
                 seen |-> invitation.status, outcome |-> None, answer |-> answer]
<1>3. Registration!Set(c, r)
  <2>1. CASE lost  BY <1>2, <2>1 DEF Registration!Idle
  <2>2. CASE ~lost /\ invitation.lapsed  BY <1>2, <2>2 DEF Registration!Idle
  <2>3. CASE ~lost /\ ~invitation.lapsed  BY <1>2, <2>3 DEF Registration!Idle
  <2> QED  BY <2>1, <2>2, <2>3
<1>4. /\ pc \in {"answered", "read"} /\ answer \in {"not found", "expired", None}
      /\ pc = "read" => Registration!Normal(a) = Invited /\ answer = None
  OBVIOUS
<1>5. invitation.status \in {"PENDING", "ACCEPTED", "REVOKED", "EXPIRED"}
  BY DEF AccountsInductive, Registration!TypesHold
<1> HIDE DEF pc, answer
<1>6. r \in Registration!Call
  BY <1>4, <1>5 DEF Registration!Call, Registration!Joining, Registration!Answers,
                    Registration!Kinds
<1>7. calls'[c] = r  BY <1>3 DEF Registration!Set, AccountsInductive, Registration!TypesHold
<1>8. UNCHANGED <<accounts, invitation, seats, rows, overtaken, removed>>
  BY DEF Registration!ReadInvitation
<1>9. Registration!CreatedBy(c)' = {}  BY <1>1, <1>8 DEF Registration!CreatedBy, Honest, Written
<1>10. None \notin Registration!Answers /\ None \notin {"CREATED", "ALREADY_REGISTERED"}
  BY DEF RegistrationFit
<1>11. Honest(c)'
  <2>1. calls'[c].pc = pc /\ calls'[c].email = a /\ calls'[c].password = p
          /\ calls'[c].kind = "join"
        /\ calls'[c].outcome = None /\ calls'[c].answer = answer
           /\ calls'[c].seen = invitation.status
    BY <1>7
  <2>2. Written(c)'  BY <1>4, <1>9, <2>1 DEF Written
  <2>3. Established(c)'
    BY <1>4, <1>10, <2>1 DEF Established, Registration!Joining, Registration!Founding,
                             Registration!Answers
  <2>4. Warned(c)'
    <3>1. invitation.status = "PENDING" => invitation.status # "ACCEPTED"  OBVIOUS
    <3> QED  BY <1>4, <1>8, <1>10, <2>1, <3>1 DEF Warned
  <2>5. Truthful(c)'  BY <1>4, <1>10, <2>1 DEF Truthful, Registration!Answers
  <2> QED  BY <2>2, <2>3, <2>4, <2>5 DEF Honest
<1> QED  BY <1>3, <1>6, <1>8, <1>11, GoesOn DEF AccountsInductive, Registration!TypesHold

\* What somebody invited has got to know holds beside what has been written.
LEMMA InviteeGoesOn ==
  ASSUME AccountsInductive, RegistrationFit, NEW c \in Calls,
         calls[c].pc \in Registration!Joining,
         NEW pc \in {"hashed", "reread", "conflict"}, Registration!Go(c, pc),
         UNCHANGED <<accounts, invitation, seats, rows, overtaken, removed>>,
         pc = "conflict" => accounts[Invited] # None,
         Warned(c)'
  PROVE  AccountsInductive'
<1>1. Established(c) /\ Written(c)  BY DEF AccountsInductive, Honest
<1>2. calls'[c].pc = pc /\ calls'[c].email = calls[c].email
        /\ calls'[c].outcome = calls[c].outcome
      /\ calls'[c].password = calls[c].password /\ calls'[c].kind = calls[c].kind
      /\ calls'[c].answer = calls[c].answer /\ calls'[c] \in Registration!Call
         /\ Registration!Set(c, calls'[c])
  BY Went DEF Registration!Joining
<1>3. calls'[c].outcome = None /\ calls'[c].answer = None /\ calls'[c].kind = "join"
      /\ Registration!Normal(calls'[c].email) = Invited
         /\ calls'[c].email \in Registration!Addresses
      /\ calls'[c].password \in Passwords
  BY <1>1, <1>2 DEF Established, Registration!Joining
<1>4. None \notin Registration!Answers /\ None \notin {"CREATED", "ALREADY_REGISTERED"}
  BY DEF RegistrationFit
<1>5. Registration!CreatedBy(c)' = {}  BY <1>1 DEF Registration!CreatedBy, Written
<1>6. Written(c)'  BY <1>2, <1>5 DEF Written
<1>7. Established(c)'
  BY <1>2, <1>3, <1>4 DEF Established, Registration!Joining, Registration!Founding,
                          Registration!Answers
<1>8. Truthful(c)'  BY <1>3, <1>4 DEF Truthful, Registration!Answers
<1>9. Honest(c)'  BY <1>6, <1>7, <1>8 DEF Honest
<1> QED  BY <1>2, <1>9, GoesOn DEF AccountsInductive, Registration!TypesHold

\* Whoever finds the account is told that it is there if it knows the password.
LEMMA ResolvedIsHonest ==
  ASSUME AccountsInductive, RegistrationFit, NEW c \in Calls,
         calls[c].pc \in Registration!Joining,
         accounts[Invited] # None, Registration!Resolved(c),
         UNCHANGED <<accounts, invitation, seats, rows, overtaken, removed>>
  PROVE  AccountsInductive'
<1>1. Established(c) /\ Written(c) /\ calls[c] \in Registration!Call
  BY AccountCallIsTyped DEF AccountsInductive, Honest
<1>2. Registration!Normal(calls[c].email) = Invited /\ calls[c].kind = "join"
  BY <1>1 DEF Established
<1>3. CASE ~Registration!Proves(c, Invited)
  BY <1>2, <1>3, RefusedIsHonest DEF Registration!Resolved, Registration!Joining,
                                     Registration!Answers
<1>4. CASE Registration!Proves(c, Invited)
  <2> DEFINE r == [calls[c] EXCEPT !.pc = "registered", !.outcome = "ALREADY_REGISTERED"]
  <2>1. Registration!Set(c, r)  BY <1>2, <1>4 DEF Registration!Resolved
  <2>2. calls'[c] = r  BY <2>1 DEF Registration!Set, AccountsInductive, Registration!TypesHold
  <2>3. r \in Registration!Call  BY <1>1 DEF Registration!Call, Registration!Entering
  <2>4. /\ r.pc = "registered" /\ r.outcome = "ALREADY_REGISTERED" /\ r.kind = "join"
        /\ r.email = calls[c].email /\ r.password = calls[c].password
        /\ r.answer = None
    <3>1. calls[c].answer = None  BY <1>1 DEF Established, Registration!Joining
    <3> QED  BY <1>1, <1>2, <3>1 DEF Registration!Call
  <2> HIDE DEF r
  <2>5. Registration!CreatedBy(c)' = {}  BY <1>1 DEF Registration!CreatedBy, Written
  <2>6. None \notin Registration!Answers /\ None \notin {"CREATED", "ALREADY_REGISTERED"}
    BY DEF RegistrationFit
  <2>7. Written(c)'  BY <2>2, <2>4, <2>5 DEF Written
  <2>8. Established(c)'
    BY <1>1, <1>2, <2>2, <2>4, <2>6 DEF Established, Registration!Joining,
                                        Registration!Founding, Registration!Answers
  <2>9. Warned(c)'  BY <2>2, <2>4 DEF Warned
  <2>10. Truthful(c)'
    BY <1>4, <2>2, <2>4, <2>5, <2>6 DEF Truthful, Registration!Answers, Registration!Knows,
                                        Registration!Proves
  <2> QED
    BY <2>1, <2>3, <2>7, <2>8, <2>9, <2>10, GoesOn DEF AccountsInductive,
           Registration!TypesHold, Honest
<1> QED  BY <1>3, <1>4

LEMMA ResolveIsHonest ==
  ASSUME AccountsInductive, RegistrationFit, NEW c \in Calls, Registration!ResolveExisting(c)
  PROVE  AccountsInductive'
<1>1. /\ Established(c) /\ Warned(c) /\ calls[c].pc = "read"
      /\ UNCHANGED <<accounts, invitation, seats, rows, overtaken, removed>>
  BY DEF AccountsInductive, Honest, Registration!ResolveExisting, Registration!At
<1>2. Registration!Normal(calls[c].email) = Invited
  BY <1>1 DEF Established, Registration!Joining
<1>3. CASE accounts[Invited] # None
  BY <1>1, <1>2, <1>3, ResolvedIsHonest DEF Registration!ResolveExisting, Registration!Joining
<1>4. CASE accounts[Invited] = None /\ calls[c].seen # "PENDING"
  BY <1>1, <1>2, <1>4, RefusedIsHonest DEF Registration!ResolveExisting, Registration!Answers
<1>5. CASE accounts[Invited] = None /\ calls[c].seen = "PENDING"
  <2>1. Registration!Go(c, "hashed")  BY <1>2, <1>5 DEF Registration!ResolveExisting
  <2>2. calls'[c].pc = "hashed" /\ calls'[c].seen = calls[c].seen
          /\ calls'[c].outcome = calls[c].outcome
    BY <2>1, Went DEF Registration!Joining
  <2>3. Warned(c)'  BY <1>1, <1>5, <2>2 DEF Warned
  <2> QED  BY <1>1, <2>1, <2>3, InviteeGoesOn DEF Registration!Joining
<1> QED  BY <1>3, <1>4, <1>5

LEMMA ReReadIsHonest ==
  ASSUME AccountsInductive, RegistrationFit, NEW c \in Calls, Registration!ReReadInvitation(c)
  PROVE  AccountsInductive'
<1>1. /\ Established(c) /\ Warned(c) /\ calls[c].pc = "hashed"
      /\ UNCHANGED <<accounts, invitation, seats, rows, overtaken, removed>>
  BY DEF AccountsInductive, Honest, Registration!ReReadInvitation, Registration!At
<1>2. CASE Registration!Withdrawn(c)
  BY <1>1, <1>2, RefusedIsHonest DEF Registration!ReReadInvitation, Registration!Answers
<1>3. CASE ~Registration!Withdrawn(c)
  <2>1. Registration!Go(c, "reread")  BY <1>3 DEF Registration!ReReadInvitation
  <2>2. calls'[c].pc = "reread" /\ calls'[c].seen = calls[c].seen
          /\ calls'[c].outcome = calls[c].outcome
    BY <2>1, Went DEF Registration!Joining
  <2>3. Warned(c)'  BY <1>1, <1>3, <2>2 DEF Warned, Registration!Withdrawn
  <2> QED  BY <1>1, <2>1, <2>3, InviteeGoesOn DEF Registration!Joining
<1> QED  BY <1>2, <1>3

LEMMA ConflictIsHonest ==
  ASSUME AccountsInductive, RegistrationFit, NEW c \in Calls, Registration!ResolveConflict(c)
  PROVE  AccountsInductive'
<1>1. /\ Established(c) /\ calls[c].pc = "conflict"
      /\ UNCHANGED <<accounts, invitation, seats, rows, overtaken, removed>>
  BY DEF AccountsInductive, Honest, Registration!ResolveConflict, Registration!At
<1>2. Registration!Normal(calls[c].email) = Invited /\ accounts[Invited] # None
  BY <1>1 DEF Established, Registration!Joining
<1> QED  BY <1>1, <1>2, ResolvedIsHonest DEF Registration!ResolveConflict, Registration!Joining

LEMMA CommitIsHonest ==
  ASSUME AccountsInductive, RegistrationFit, NEW c \in Calls, Registration!CommitAccount(c)
  PROVE  AccountsInductive'
<1>1. /\ Honest(c) /\ calls[c].pc = "reread" /\ calls[c] \in Registration!Call
      /\ UNCHANGED <<invitation, seats, rows, overtaken, removed>>
  BY AccountCallIsTyped DEF AccountsInductive, Registration!CommitAccount, Registration!At
<1>2. Registration!Normal(calls[c].email) = Invited /\ calls[c].kind = "join"
        /\ calls[c].answer = None
      /\ Invited \in Registration!Addresses
  BY <1>1 DEF Honest, Established, Registration!Joining, Registration!Addresses
<1>3. CASE accounts[Invited] # None
  <2>1. Registration!Go(c, "conflict") /\ UNCHANGED accounts
    BY <1>2, <1>3 DEF Registration!CommitAccount
  <2>2. calls'[c].pc = "conflict" /\ calls'[c].seen = calls[c].seen
          /\ calls'[c].outcome = calls[c].outcome
    BY <2>1, Went DEF Registration!Joining
  <2>3. Warned(c)'  BY <1>1, <2>2 DEF Honest, Warned
  <2> QED  BY <1>1, <1>3, <2>1, <2>3, InviteeGoesOn DEF Registration!Joining
<1>4. CASE accounts[Invited] = None
  <2> DEFINE r == [calls[c] EXCEPT !.pc = "registered", !.outcome = "CREATED",
                                   !.seen = invitation.status]
  <2>1. Registration!Set(c, r)
          /\ accounts' = [accounts EXCEPT ![Invited] = Registration!NewAccount(c)]
    BY <1>2, <1>4 DEF Registration!CommitAccount
  <2>2. calls'[c] = r  BY <2>1 DEF Registration!Set, AccountsInductive, Registration!TypesHold
  <2>3. invitation.status \in {"PENDING", "ACCEPTED", "REVOKED", "EXPIRED"}
    BY DEF AccountsInductive, Registration!TypesHold
  <2>4. r \in Registration!Call  BY <1>1, <2>3 DEF Registration!Call, Registration!Entering
  <2>5. /\ r.pc = "registered" /\ r.outcome = "CREATED" /\ r.kind = "join"
        /\ r.email = calls[c].email /\ r.password = calls[c].password
        /\ r.answer = None /\ r.seen = invitation.status
    BY <1>1, <1>2 DEF Registration!Call
  <2> HIDE DEF r
  <2>6. Registration!CreatedBy(c) = {}  BY <1>1 DEF Honest, Written, Registration!Joining
  <2>7. GrowsBy(c) /\ Registration!CreatedBy(c)' = {Invited}
    BY <1>1, <1>2, <1>4, <2>1, <2>6, MakesAccount
  <2>8. None \notin Registration!Answers /\ None \notin {"CREATED", "ALREADY_REGISTERED"}
    BY DEF RegistrationFit
  <2>9. Written(c)'  BY <2>2, <2>5 DEF Written, Registration!Joining
  <2>10. Established(c)'
    <3>1. calls[c].email \in Registration!Addresses /\ calls[c].password \in Passwords
      BY <1>1 DEF Honest, Established
    <3> QED
      BY <1>2, <2>2, <2>5, <2>8, <3>1 DEF Established, Registration!Joining,
                                          Registration!Founding, Registration!Answers
  <2>11. Warned(c)'
    <3>1. calls[c].seen = "PENDING" /\ Warned(c)  BY <1>1 DEF Honest, Warned
    <3>2. invitation.status \in {"ACCEPTED", "REVOKED"} => c \in overtaken
      BY <1>1, <3>1 DEF Warned
    <3> QED  BY <1>1, <2>2, <2>3, <2>5, <3>2 DEF Warned
  <2>12. Truthful(c)'  BY <2>2, <2>5, <2>7, <2>8 DEF Truthful, Registration!Answers
  <2>13. calls'[c] \in Registration!Call /\ Registration!Set(c, calls'[c])  BY <2>1, <2>2, <2>4
  <2>14. Honest(c)'  BY <2>9, <2>10, <2>11, <2>12 DEF Honest
  <2> QED  BY <1>1, <2>7, <2>13, <2>14, GoesOnWithAccount
<1> QED  BY <1>3, <1>4

-----------------------------------------------------------------------------

\* A call that holds an account goes on with the password of it.
LEMMA HolderGoesOn ==
  ASSUME AccountsInductive, RegistrationFit, NEW c \in Calls,
         NEW pc \in {"capable", "accepted"},
         calls[c].pc \in {"proved", "capable"}, Registration!Go(c, pc),
         UNCHANGED <<accounts, rows>>, overtaken \subseteq overtaken',
         pc = "accepted" =>
           invitation'.status = "ACCEPTED" /\ invitation'.acceptedBy = calls[c].email
  PROVE  calls'[c] \in Registration!Call /\ Registration!Set(c, calls'[c]) /\ Honest(c)'
<1>1. Honest(c)  BY DEF AccountsInductive
<1>2. /\ calls'[c] \in Registration!Call /\ Registration!Set(c, calls'[c])
      /\ calls'[c].pc = pc /\ calls'[c].email = calls[c].email
         /\ calls'[c].outcome = calls[c].outcome
      /\ calls'[c].password = calls[c].password /\ calls'[c].kind = calls[c].kind
      /\ calls'[c].answer = calls[c].answer /\ calls'[c].seen = calls[c].seen
  BY Went DEF Registration!Entering
<1>3. None \notin Registration!Answers /\ None \notin {"CREATED", "ALREADY_REGISTERED"}
  BY DEF RegistrationFit
<1>4. Registration!CreatedBy(c)' = Registration!CreatedBy(c)  BY DEF Registration!CreatedBy
<1>5. Written(c)'  BY <1>1, <1>2, <1>4 DEF Honest, Written, Registration!Joining
<1>6. Established(c)'
  <2>1. Established(c)  BY <1>1 DEF Honest
  <2>2. calls[c].answer = None  BY <2>1 DEF Established
  <2> QED
    BY <1>2, <1>3, <2>1, <2>2 DEF Established, Registration!Joining, Registration!Founding,
                                  Registration!Answers, Registration!Knows
<1>7. Warned(c)'  BY <1>1, <1>2 DEF Honest, Warned
<1>8. Truthful(c)'  BY <1>1, <1>2, <1>4 DEF Honest, Truthful, Registration!Knows
<1> QED  BY <1>2, <1>5, <1>6, <1>7, <1>8 DEF Honest

LEMMA LoginIsHonest ==
  ASSUME AccountsInductive, RegistrationFit, NEW c \in Calls, Registration!Login(c)
  PROVE  AccountsInductive'
<1>1. /\ Honest(c) /\ calls[c].pc \in {"registered", "idle"} /\ calls[c] \in Registration!Call
      /\ UNCHANGED <<accounts, invitation, seats, rows, overtaken, removed>>
  BY AccountCallIsTyped DEF AccountsInductive, Registration!Login, Registration!At
<1>2. CASE calls[c].pc = "registered"
  <2>1. Registration!Set(c, IF accounts[calls[c].email] # None
                               /\ accounts[calls[c].email].password = calls[c].password
                            THEN [calls[c] EXCEPT !.pc = "proved"]
                            ELSE [calls[c] EXCEPT !.pc = "answered",
                              !.answer = "invalid password"])
    BY <1>2 DEF Registration!Login, Registration!At
  <2>2. CASE ~(accounts[calls[c].email] # None
               /\ accounts[calls[c].email].password = calls[c].password)
    <3>1. Registration!Answer(c, "invalid password")  BY <2>1, <2>2 DEF Registration!Answer
    <3> QED  BY <1>1, <1>2, <3>1, RefusedIsHonest DEF Registration!Answers
  <2>3. CASE accounts[calls[c].email] # None
               /\ accounts[calls[c].email].password = calls[c].password
    <3>1. Registration!Go(c, "proved")  BY <2>1, <2>3 DEF Registration!Go
    <3>2. /\ calls'[c] \in Registration!Call /\ Registration!Set(c, calls'[c])
          /\ calls'[c].pc = "proved" /\ calls'[c].email = calls[c].email
             /\ calls'[c].outcome = calls[c].outcome
          /\ calls'[c].password = calls[c].password /\ calls'[c].kind = calls[c].kind
          /\ calls'[c].answer = calls[c].answer /\ calls'[c].seen = calls[c].seen
      BY <3>1, Went DEF Registration!Entering
    <3>3. Registration!CreatedBy(c)' = Registration!CreatedBy(c)
      BY <1>1 DEF Registration!CreatedBy
    <3>4. Written(c)'  BY <1>1, <1>2, <3>2, <3>3 DEF Honest, Written, Registration!Joining
    <3>5. None \notin Registration!Answers  BY DEF RegistrationFit
    <3>6. Established(c)'
      BY <1>1, <1>2, <2>3, <3>2, <3>5 DEF Honest, Established, Registration!Joining,
                                          Registration!Founding, Registration!Answers,
                                          Registration!Knows
    <3>7. Warned(c)'  BY <1>1, <3>2 DEF Honest, Warned
    <3>8. Truthful(c)'  BY <1>1, <3>2, <3>3 DEF Honest, Truthful, Registration!Knows
    <3> QED
      BY <1>1, <3>2, <3>4, <3>6, <3>7, <3>8, GoesOn DEF Honest, AccountsInductive,
             Registration!TypesHold
  <2> QED  BY <2>2, <2>3
<1>3. CASE calls[c].pc = "idle"
  <2>1. PICK a \in Registration!Addresses, p \in Passwords :
          Registration!Set(c, IF accounts[a] # None /\ accounts[a].password = p
                              THEN [[Registration!Idle EXCEPT !.kind = "enter", !.email = a,
                                !.password = p] EXCEPT !.pc = "proved"]
                              ELSE [[Registration!Idle EXCEPT !.kind = "enter", !.email = a,
                                         !.password = p]
                                      EXCEPT !.pc = "answered", !.answer = "invalid password"])
    BY <1>3 DEF Registration!Login, Registration!At
  <2> DEFINE good == accounts[a] # None /\ accounts[a].password = p
             pc == IF good THEN "proved" ELSE "answered"
             answer == IF good THEN None ELSE "invalid password"
             r == [pc |-> pc, kind |-> "enter", email |-> a, password |-> p, subdomain |-> None,
                   seen |-> None, outcome |-> None, answer |-> answer]
  <2>2. Registration!Set(c, r)
    <3>1. CASE good  BY <2>1, <3>1 DEF Registration!Idle
    <3>2. CASE ~good  BY <2>1, <3>2 DEF Registration!Idle
    <3> QED  BY <3>1, <3>2
  <2>3. /\ pc \in {"answered", "proved"} /\ answer \in {"invalid password", None}
        /\ pc = "proved" => good /\ answer = None
    OBVIOUS
  <2> HIDE DEF pc, answer
  <2>4. r \in Registration!Call
    BY <2>3 DEF Registration!Call, Registration!Entering, Registration!Answers,
                Registration!Kinds
  <2>5. calls'[c] = r  BY <2>2 DEF Registration!Set, AccountsInductive, Registration!TypesHold
  <2>6. Registration!CreatedBy(c)' = {}
    BY <1>1, <1>3 DEF Registration!CreatedBy, Honest, Written
  <2>7. None \notin Registration!Answers /\ None \notin {"CREATED", "ALREADY_REGISTERED"}
    BY DEF RegistrationFit
  <2>8. calls'[c].pc = pc /\ calls'[c].email = a /\ calls'[c].password = p
          /\ calls'[c].kind = "enter"
        /\ calls'[c].outcome = None /\ calls'[c].answer = answer
    BY <2>5
  <2>9. Written(c)'  BY <2>3, <2>6, <2>8 DEF Written
  <2>10. Established(c)'
    BY <1>1, <2>3, <2>7, <2>8 DEF Established, Registration!Joining, Registration!Founding,
                                  Registration!Answers, Registration!Knows
  <2>11. Warned(c)'  BY <2>3, <2>7, <2>8 DEF Warned
  <2>12. Truthful(c)'  BY <2>3, <2>7, <2>8 DEF Truthful, Registration!Answers
  <2> QED
    BY <1>1, <2>2, <2>4, <2>9, <2>10, <2>11, <2>12, GoesOn DEF Honest, AccountsInductive,
           Registration!TypesHold
<1> QED  BY <1>1, <1>2, <1>3

LEMMA MintIsHonest ==
  ASSUME AccountsInductive, RegistrationFit, NEW c \in Calls,
         Registration!MintInvitationCapability(c)
  PROVE  AccountsInductive'
<1>1. /\ calls[c].pc = "proved"
      /\ UNCHANGED <<accounts, invitation, seats, rows, overtaken, removed>>
      /\ Registration!Answer(c, "not found") \/ Registration!Answer(c, "expired")
         \/ Registration!Go(c, "capable")
  BY DEF Registration!MintInvitationCapability, Registration!At
<1>2. CASE Registration!Answer(c, "not found") \/ Registration!Answer(c, "expired")
  BY <1>1, <1>2, RefusedIsHonest DEF Registration!Answers
<1>3. CASE Registration!Go(c, "capable")
  <2>1. calls'[c] \in Registration!Call /\ Registration!Set(c, calls'[c]) /\ Honest(c)'
    BY <1>1, <1>3, HolderGoesOn
  <2> QED  BY <1>1, <2>1, GoesOn DEF AccountsInductive, Registration!TypesHold
<1> QED  BY <1>1, <1>2, <1>3

\* The invitation is accepted, once: nobody has been removed before.
LEMMA AcceptIsHonest ==
  ASSUME AccountsInductive, RegistrationFit, NEW c \in Calls, Registration!AcceptInvitation(c)
  PROVE  AccountsInductive'
<1>1. /\ Honest(c) /\ calls[c].pc = "capable" /\ calls[c].email \in Registration!Addresses
      /\ UNCHANGED <<accounts, rows, removed>>
      /\ invitation \in [status : {"PENDING", "ACCEPTED", "REVOKED", "EXPIRED"},
                         lapsed : BOOLEAN, acceptedBy : Registration!Addresses \cup {None}]
  BY DEF AccountsInductive, Registration!TypesHold, Registration!AcceptInvitation,
         Registration!At, Honest, Established
<1>2. CASE invitation.lapsed
  <2>1. /\ Registration!Answer(c, "expired") /\ UNCHANGED <<seats, overtaken>>
        /\ invitation' = [invitation EXCEPT !.status = IF @ = "PENDING" THEN "EXPIRED" ELSE @]
    BY <1>2 DEF Registration!AcceptInvitation
  <2>2. /\ calls'[c] \in Registration!Call /\ Registration!Set(c, calls'[c])
        /\ calls'[c].pc = "answered" /\ calls'[c].kind = calls[c].kind
        /\ calls'[c].email = calls[c].email /\ calls'[c].password = calls[c].password
        /\ calls'[c].outcome = calls[c].outcome /\ calls'[c].seen = calls[c].seen
        /\ calls'[c].answer = "expired"
    BY <2>1, AccountAnswered DEF Registration!Answers
  <2>3. /\ invitation'.status = IF invitation.status = "PENDING" THEN "EXPIRED"
           ELSE invitation.status
        /\ invitation'.acceptedBy = invitation.acceptedBy
        /\ invitation' \in [status : {"PENDING", "ACCEPTED", "REVOKED", "EXPIRED"},
                            lapsed : BOOLEAN, acceptedBy : Registration!Addresses \cup {None}]
    BY <1>1, <2>1
  <2>4. \A d \in Calls : Beside(d)  BY <1>1, <2>1, <2>3 DEF Beside
  <2>5. ASSUME NEW d \in Calls \ {c} PROVE calls'[d] = calls[d]
    BY <2>2 DEF Registration!Set, AccountsInductive, Registration!TypesHold
  <2>6. Registration!CreatedBy(c)' = Registration!CreatedBy(c)
    BY <1>1 DEF Registration!CreatedBy
  <2>7. Honest(c)'
    <3>1. Written(c)'  BY <1>1, <2>2, <2>6 DEF Honest, Written, Registration!Joining
    <3>2. Established(c)'
      BY <1>1, <2>2 DEF Honest, Established, Registration!Joining, Registration!Founding,
                        Registration!Knows
    <3>3. Warned(c)'  BY <1>1, <2>1, <2>2 DEF Honest, Warned
    <3>4. Truthful(c)'  BY <1>1, <2>2, <2>6 DEF Honest, Truthful, Registration!Knows
    <3> QED  BY <3>1, <3>2, <3>3, <3>4 DEF Honest
  <2>8. \A d \in Calls : Honest(d)'  BY <1>1, <2>4, <2>5, <2>7, BesideIsHonest
  <2>9. Registration!TypesHold'
    BY <1>1, <2>1, <2>2, <2>3 DEF AccountsInductive, Registration!TypesHold, Registration!Set
  <2> QED  BY <1>1, <2>1, <2>3, <2>8, <2>9 DEF AccountsInductive
<1>3. CASE ~invitation.lapsed /\ Registration!Returning(c)
  <2>1. /\ seats' = seats /\ UNCHANGED <<invitation, overtaken>>
        /\ Registration!Go(c, "accepted") \/ Registration!Answer(c, "no access")
    BY <1>3 DEF Registration!AcceptInvitation, Registration!Readmitted
  <2>2. CASE Registration!Answer(c, "no access")
    BY <1>1, <2>1, <2>2, RefusedIsHonest DEF Registration!Answers
  <2>3. CASE Registration!Go(c, "accepted")
    <3>1. calls'[c] \in Registration!Call /\ Registration!Set(c, calls'[c]) /\ Honest(c)'
      BY <1>1, <1>3, <2>1, <2>3, HolderGoesOn DEF Registration!Returning
    <3> QED  BY <1>1, <2>1, <3>1, GoesOn DEF AccountsInductive, Registration!TypesHold
  <2> QED  BY <2>1, <2>2, <2>3
<1>4. CASE ~invitation.lapsed /\ ~Registration!Returning(c) /\ invitation.status # "PENDING"
  <2>1. Registration!Answer(c, "no longer valid") /\ UNCHANGED <<invitation, seats, overtaken>>
    BY <1>4 DEF Registration!AcceptInvitation
  <2> QED  BY <1>1, <2>1, RefusedIsHonest DEF Registration!Answers
<1>5. CASE ~invitation.lapsed /\ invitation.status = "PENDING"
  <2>1. /\ invitation' = [invitation EXCEPT !.status = "ACCEPTED",
           !.acceptedBy = calls[c].email]
        /\ seats' = seats \cup {calls[c].email} /\ Registration!Go(c, "accepted")
        /\ overtaken' = overtaken \cup {d \in Calls : calls[d].pc \in Registration!Joining}
    BY <1>5 DEF Registration!AcceptInvitation, Registration!Returning
  <2>2. /\ invitation'.status = "ACCEPTED" /\ invitation'.acceptedBy = calls[c].email
        /\ invitation' \in [status : {"PENDING", "ACCEPTED", "REVOKED", "EXPIRED"},
                            lapsed : BOOLEAN, acceptedBy : Registration!Addresses \cup {None}]
    BY <1>1, <2>1
  <2>3. calls'[c] \in Registration!Call /\ Registration!Set(c, calls'[c]) /\ Honest(c)'
    BY <1>1, <2>1, <2>2, HolderGoesOn
  <2>4. ASSUME NEW d \in Calls PROVE Beside(d)
    BY <1>1, <1>5, <2>1, <2>2 DEF Beside
  <2>5. ASSUME NEW d \in Calls \ {c} PROVE calls'[d] = calls[d]
    BY <2>3 DEF Registration!Set, AccountsInductive, Registration!TypesHold
  <2>6. \A d \in Calls : Honest(d)'  BY <1>1, <2>3, <2>4, <2>5, BesideIsHonest
  <2>7. Registration!TypesHold'
    BY <1>1, <2>1, <2>2, <2>3 DEF AccountsInductive, Registration!TypesHold, Registration!Set
  <2>8. removed = {}  BY <1>5 DEF AccountsInductive
  <2> QED  BY <1>1, <2>1, <2>2, <2>6, <2>7, <2>8 DEF AccountsInductive
<1> QED  BY <1>2, <1>3, <1>4, <1>5

LEMMA SelectIsHonest ==
  ASSUME AccountsInductive, RegistrationFit, NEW c \in Calls, Registration!SelectWorkspace(c)
  PROVE  AccountsInductive'
<1>1. /\ Honest(c) /\ calls[c].pc = "accepted"
      /\ UNCHANGED <<accounts, invitation, seats, rows, overtaken, removed>>
  BY DEF AccountsInductive, Registration!SelectWorkspace, Registration!At
<1>2. CASE Registration!Answer(c, "forbidden")
  BY <1>1, <1>2, RefusedIsHonest DEF Registration!Answers
<1>3. CASE Registration!Answer(c, "session")
  <2>1. /\ calls'[c] \in Registration!Call /\ Registration!Set(c, calls'[c])
        /\ calls'[c].pc = "answered" /\ calls'[c].kind = calls[c].kind
        /\ calls'[c].email = calls[c].email /\ calls'[c].password = calls[c].password
        /\ calls'[c].outcome = calls[c].outcome /\ calls'[c].seen = calls[c].seen
        /\ calls'[c].answer = "session"
    BY <1>3, AccountAnswered DEF Registration!Answers
  <2>2. Registration!CreatedBy(c)' = Registration!CreatedBy(c)
    BY <1>1 DEF Registration!CreatedBy
  <2>3. Written(c)'  BY <1>1, <2>1, <2>2 DEF Honest, Written, Registration!Joining
  <2>4. Established(c)'
    BY <1>1, <2>1 DEF Honest, Established, Registration!Joining, Registration!Founding,
                      Registration!Knows
  <2>5. Warned(c)'  BY <1>1, <2>1 DEF Honest, Warned
  <2>6. Truthful(c)'  BY <1>1, <2>1, <2>2 DEF Honest, Truthful, Registration!Knows
  <2> QED
    BY <1>1, <2>1, <2>3, <2>4, <2>5, <2>6, GoesOn DEF Honest, AccountsInductive,
                                                      Registration!TypesHold
<1> QED  BY <1>2, <1>3 DEF Registration!SelectWorkspace

\* What others do to the invitation and the seats.
LEMMA OthersAreHonest ==
  ASSUME AccountsInductive, RegistrationFit,
         Registration!RevokeInvitation \/ Registration!Lapse
           \/ \E a \in Registration!Addresses : Registration!RemoveMember(a)
  PROVE  AccountsInductive'
<1>1. invitation \in [status : {"PENDING", "ACCEPTED", "REVOKED", "EXPIRED"},
                     lapsed : BOOLEAN, acceptedBy : Registration!Addresses \cup {None}]
  BY DEF AccountsInductive, Registration!TypesHold
<1>2. CASE Registration!RevokeInvitation
  <2>1. invitation.status = "PENDING" /\ invitation'.status = "REVOKED"
        /\ invitation' \in [status : {"PENDING", "ACCEPTED", "REVOKED", "EXPIRED"},
                            lapsed : BOOLEAN, acceptedBy : Registration!Addresses \cup {None}]
    BY <1>1, <1>2 DEF Registration!RevokeInvitation
  <2>2. \A d \in Calls : Beside(d)
    BY <1>2, <2>1 DEF Registration!RevokeInvitation, Beside, Registration!At
  <2>3. \A d \in Calls : Honest(d)'
    BY <1>2, <2>2, BesideIsHonest DEF Registration!RevokeInvitation
  <2>4. Registration!TypesHold'
    BY <1>2, <2>1 DEF Registration!RevokeInvitation, AccountsInductive, Registration!TypesHold
  <2> QED  BY <1>2, <2>1, <2>3, <2>4 DEF Registration!RevokeInvitation, AccountsInductive
<1>3. CASE Registration!Lapse
  <2>1. invitation'.status = invitation.status /\ invitation'.acceptedBy = invitation.acceptedBy
        /\ invitation' \in [status : {"PENDING", "ACCEPTED", "REVOKED", "EXPIRED"},
                            lapsed : BOOLEAN, acceptedBy : Registration!Addresses \cup {None}]
    BY <1>1, <1>3 DEF Registration!Lapse
  <2>2. \A d \in Calls : Beside(d)  BY <1>3, <2>1 DEF Registration!Lapse, Beside
  <2>3. \A d \in Calls : Honest(d)'  BY <1>3, <2>2, BesideIsHonest DEF Registration!Lapse
  <2>4. Registration!TypesHold'
    BY <1>3, <2>1 DEF Registration!Lapse, AccountsInductive, Registration!TypesHold
  <2> QED  BY <1>3, <2>1, <2>3, <2>4 DEF Registration!Lapse, AccountsInductive
<1>4. ASSUME NEW a \in Registration!Addresses, Registration!RemoveMember(a)
      PROVE  AccountsInductive'
  <2>1. \A d \in Calls : Beside(d)  BY <1>4 DEF Registration!RemoveMember, Beside
  <2>2. \A d \in Calls : Honest(d)'  BY <1>4, <2>1, BesideIsHonest DEF Registration!RemoveMember
  <2>3. Registration!TypesHold'
    BY <1>4 DEF Registration!RemoveMember, AccountsInductive, Registration!TypesHold
  <2> QED  BY <1>4, <2>2, <2>3 DEF Registration!RemoveMember, AccountsInductive
<1> QED  BY <1>2, <1>3, <1>4

LEMMA AccountsNext ==
  ASSUME AccountsInductive, RegistrationFit, [Registration!Next]_(Registration!vars)
  PROVE  AccountsInductive'
<1>1. ASSUME NEW c \in Calls, Registration!Found(c) PROVE AccountsInductive'
  BY <1>1, LookUpIsHonest, OrganizationIsHonest, WorkspaceIsHonest, UserIsHonest, OwnerIsHonest,
     RegisteredIsHonest DEF Registration!Found
<1>2. ASSUME NEW c \in Calls, Registration!Join(c) PROVE AccountsInductive'
  BY <1>2, ReadIsHonest, ResolveIsHonest, ReReadIsHonest, CommitIsHonest, ConflictIsHonest
     DEF Registration!Join
<1>3. ASSUME NEW c \in Calls, Registration!Enter(c) PROVE AccountsInductive'
  BY <1>3, LoginIsHonest, MintIsHonest, AcceptIsHonest, SelectIsHonest DEF Registration!Enter
<1>4. ASSUME NEW c \in Calls, Registration!BreakOff(c) PROVE AccountsInductive'
  BY <1>4, RefusedIsHonest DEF Registration!BreakOff, Registration!Answers,
                               Registration!Founding, Registration!Joining,
                               Registration!Entering
<1>5. CASE Registration!RevokeInvitation \/ Registration!Lapse
             \/ \E a \in Registration!Addresses : Registration!RemoveMember(a)
  BY <1>5, OthersAreHonest
<1>6. CASE UNCHANGED Registration!vars
  <2>1. \A d \in Calls : Beside(d)  BY <1>6 DEF Registration!vars, Beside
  <2>2. \A d \in Calls : Honest(d)'  BY <1>6, <2>1, BesideIsHonest DEF Registration!vars
  <2> QED  BY <1>6, <2>2 DEF Registration!vars, AccountsInductive, Registration!TypesHold
<1> QED  BY <1>1, <1>2, <1>3, <1>4, <1>5, <1>6 DEF Registration!Next

LEMMA AccountsMeanTruth ==
  AccountsInductive =>
    Registration!TypesHold /\ Registration!RegistrationAnswersTruly
      /\ Registration!NoDeadAccounts /\ Registration!RemovedStayOut
BY DEF AccountsInductive, Honest, Truthful, Established, Warned,
       Registration!RegistrationAnswersTruly,
       Registration!NoDeadAccounts, Registration!RemovedStayOut

-----------------------------------------------------------------------------
(* The whole: a behaviour is of one part, which takes the steps of its     *)
(* component.                                                              *)

\* A step of the whole in which a part goes on is one of its component, or none.
LEMMA StepsAreOfThePart ==
  ASSUME [Next]_vars
  PROVE  /\ part' = part
         /\ part = "registration" => [Registration!Next]_(Registration!vars)
         /\ part = "runs" => [Runs!Next]_(Runs!vars)
         /\ part = "records" => [Records!Next]_(Records!vars)
         /\ part = "budgets" => [Budgets!Next]_(Budgets!vars)
         /\ part = "requests" => [Requests!Next]_(Requests!vars)
<1>1. CASE Next  BY <1>1 DEF Next
<1>2. CASE UNCHANGED vars
  BY <1>2 DEF vars, registrationOnly, runsOnly, recordsOnly, budgetsOnly, requestsOnly,
              Registration!vars, Runs!vars, Records!vars, Budgets!vars, Requests!vars
<1> QED  BY <1>1, <1>2

\* The accounts keep their inductive invariant.
LEMMA AccountsStay == Spec => [](part = "registration" => AccountsInductive)
<1> DEFINE Inv == part = "registration" => AccountsInductive
<1>1. Init => Inv  BY ConstantsAssumption, AccountsBegin DEF Init
<1>2. Inv /\ [Next]_vars => Inv'
  <2> SUFFICES ASSUME Inv, [Next]_vars, part' = "registration" PROVE AccountsInductive'
    OBVIOUS
  <2>1. AccountsInductive /\ [Registration!Next]_(Registration!vars)
    BY StepsAreOfThePart
  <2> QED  BY <2>1, ConstantsAssumption, AccountsNext
<1> QED  BY <1>1, <1>2, PTL DEF Spec

\* What a request is told of an account and its session is true, for any number of
\* requests that overlap, break off and lose their answers (registerInvited,
\* resolveExisting, acceptInvitation, login).
THEOREM AnswersAreTrue == Spec => []RegistrationAnswersTruly
<1>1. (part = "registration" => AccountsInductive) => RegistrationAnswersTruly
  BY AccountsMeanTruth DEF RegistrationAnswersTruly
<1> QED  BY <1>1, AccountsStay, PTL

\* A withdrawn or spent invitation makes no account and lets nobody in again, however
\* late the requests are that have read it before (registerInvited, acceptInvitation).
THEOREM InvitationsEnd == Spec => []InvitationsEndForGood
<1>1. (part = "registration" => AccountsInductive) => InvitationsEndForGood
  BY AccountsMeanTruth DEF InvitationsEndForGood
<1> QED  BY <1>1, AccountsStay, PTL

\* A cancellation that was answered CANCELLED is kept, and nobody is told that a run
\* is past cancelling while it is not, unless the end of another run closed the
\* session first (cancelExecution, runTool).
THEOREM CancellationIsKept == Spec => []CancellationHolds
<1> DEFINE Inv == part = "runs" => RunsInductive
<1>1. Init => Inv  BY RunsBegin DEF Init
<1>2. Inv /\ [Next]_vars => Inv'
  <2> SUFFICES ASSUME Inv, [Next]_vars, part' = "runs" PROVE RunsInductive'
    OBVIOUS
  <2>1. RunsInductive /\ [Runs!Next]_(Runs!vars)  BY StepsAreOfThePart
  <2> QED  BY <2>1, ConstantsAssumption, RunsNext
<1>3. RunsInductive => Runs!TypesHold /\ Runs!CancellationHolds
  BY DEF RunsInductive, RunSound, Promised, Runs!CancellationHolds
<1>4. Inv => CancellationHolds  BY <1>3 DEF CancellationHolds
<1> QED  BY <1>1, <1>2, <1>4, PTL DEF Spec

\* What a record refers to is of its own workspace, unless an update named the workspace
\* or a relation that update does not look up, and always of the right kind; the last
\* activity of a deal names the stage it is in unless moves overlapped, one broke off or
\* update moved it, for any number of requests and workspaces (validateRelations,
\* moveStage).
THEOREM RecordsStayInside == Spec => []RelationsStayInside
<1> DEFINE Inv == part = "records" =>
                    RecordsInductive /\ \A c \in Editors : Looking(calls[c])
<1>1. Init => Inv  BY ConstantsAssumption, RecordsBegin, LookingBegins DEF Init
<1>2. Inv /\ [Next]_vars => Inv'
  <2> SUFFICES ASSUME Inv, [Next]_vars, part' = "records"
               PROVE  RecordsInductive' /\ \A c \in Editors : Looking(calls'[c])
    OBVIOUS
  <2>1. /\ RecordsInductive /\ \A c \in Editors : Looking(calls[c])
        /\ [Records!Next]_(Records!vars)
    BY StepsAreOfThePart
  <2> QED  BY <2>1, ConstantsAssumption, RecordsNext, NextLooks
<1>3. Inv => RelationsStayInside
  BY RecordsStay, RecordsMeanTypes DEF RelationsStayInside
<1> QED  BY <1>1, <1>2, <1>3, PTL DEF Spec

\* A client is refused only for as many requests of its own as its limit, and no
\* request that passed the limiter went uncounted, for any number of clients and
\* requests, however their claims are damaged or late (invitation-throttler.guard.ts).
THEOREM BudgetsAreNotShared == Spec => []BudgetsAreTheirOwn
<1> DEFINE Inv == part = "budgets" => BudgetsInductive
<1>1. Init => Inv  BY ConstantsAssumption, BudgetsBegin DEF Init
<1>2. Inv /\ [Next]_vars => Inv'
  <2> SUFFICES ASSUME Inv, [Next]_vars, part' = "budgets" PROVE BudgetsInductive'
    OBVIOUS
  <2>1. BudgetsInductive /\ [Budgets!Next]_(Budgets!vars)  BY StepsAreOfThePart
  <2> QED  BY <2>1, ConstantsAssumption, BudgetsNext
<1>3. Inv => BudgetsAreTheirOwn  BY BudgetsMeanOwn DEF BudgetsAreTheirOwn
<1> QED  BY <1>1, <1>2, <1>3, PTL DEF Spec

\* A request that reaches its handler acts by a role that the memberships of one
\* moment since it was sent gave its user in that workspace, and with a token that
\* is for it (JwtStrategy, WorkspaceGuard, RolesGuard, executeTool).
THEOREM AuthorityIsNeverInvented == Spec => []AuthorityWasHeld
<1> DEFINE Inv == part = "requests" => RequestsInductive
<1>1. Init => Inv  BY ConstantsAssumption, RequestsBegin DEF Init
<1>2. Inv /\ [Next]_vars => Inv'
  <2> SUFFICES ASSUME Inv, [Next]_vars, part' = "requests" PROVE RequestsInductive'
    OBVIOUS
  <2>1. RequestsInductive /\ [Requests!Next]_(Requests!vars)  BY StepsAreOfThePart
  <2> QED  BY <2>1, ConstantsAssumption, RequestsNext
<1>3. RequestsInductive => Requests!TypesHold  BY DEF RequestsInductive
<1>4. Inv => AuthorityWasHeld  BY <1>3, RequestsMeanHeld DEF AuthorityWasHeld
<1> QED  BY <1>1, <1>2, <1>4, PTL DEF Spec
=============================================================================
