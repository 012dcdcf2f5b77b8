---------------------------- MODULE RefreshTokens ----------------------------
(***************************************************************************)
(* Login sessions and the rotation of their refresh tokens                 *)
(* (backend/src/modules/auth/auth.service.ts).                             *)
(*                                                                         *)
(* A refresh token is spent by an atomic conditional UPDATE and replaced by *)
(* a successor.  Presenting a spent token is either a second tab that lost *)
(* a race or the replay of a stolen copy; the service tells them apart by  *)
(* comparing when the request started with when the token was revoked, and *)
(* answers a replay by revoking every session of the account.              *)
(***************************************************************************)
EXTENDS Integers

CONSTANTS
  Users,
  Workspaces,
  Tokens,       \* rows the RefreshToken table may get
  Issued,       \* those that exist at start-up
  Calls,        \* the HTTP calls made; each is one process
  None,         \* null
  Lifetime,     \* life of a refresh token, in ticks of the clock
  Skew,         \* CLOCK_SKEW_ALLOWANCE_MS
  Lag,          \* longest time from new Date() to the commit that stores it
  MaxClock      \* bound on the clock

ASSUME TokenAssumption == Issued \subseteq Tokens
ASSUME NullAssumption == None \notin Users \cup Workspaces \cup Tokens \cup Calls \cup Nat
ASSUME TimeAssumption ==
  Lifetime \in Nat /\ Skew \in Nat /\ Lag \in Nat /\ MaxClock \in Nat

VARIABLES
  clock,        \* Date.now()
  members,      \* the Membership table: <<user, workspace>>
  tokens,       \* the RefreshToken table
  calls,        \* the local state of every call
  origin,       \* history: which login a token descends from, when it was spent
  ended,        \* history: logins ended by a revocation of the whole account
  overtaken     \* history: calls between claim and issue when that happened

vars == <<clock, members, tokens, calls, origin, ended, overtaken>>

history == <<origin, ended, overtaken>>

-----------------------------------------------------------------------------

Rows == [state     : {"absent", "live", "revoked"},
         user      : Users \cup {None},
         workspace : Workspaces \cup {None},
         expiresAt : Nat,
         revokedAt : Nat \cup {None}]

Absent == [state |-> "absent", user |-> None, workspace |-> None,
           expiresAt |-> 0, revokedAt |-> None]

LiveRow(u, w, t) == [state |-> "live", user |-> u, workspace |-> w,
                     expiresAt |-> t, revokedAt |-> None]

\* Revoked before the column revokedAt existed.
LegacyRow(u, w) == [state |-> "revoked", user |-> u, workspace |-> w,
                    expiresAt |-> Lifetime, revokedAt |-> None]

Origins == [root : Tokens \cup {None},      \* the token its login was given
            minter : Calls \cup {None},     \* the call that created it
            spentAt : Nat \cup {None}]      \* when its revocation committed

Kinds == {"NONE", "LOGIN", "REFRESH", "SWITCH", "LOGOUT", "LOGOUT_ALL", "REMOVE"}

\* A call ends done, refused, refused as benign, refused as a reuse that was
\* audited (REFRESH_TOKEN_REUSE_DETECTED), or dead.
Ended == {"done", "refused", "benign", "reported", "crashed"}

CallPcs == {"idle", "read", "claim", "member", "mint", "family", "report"} \cup Ended

CallStates == [pc : CallPcs,
               kind : Kinds,
               token : Tokens \cup {None},
               user : Users \cup {None},
               workspace : Workspaces \cup {None},
               started : Nat]

NewCall(pc, kind, t, u, w, now) ==
  [pc |-> pc, kind |-> kind, token |-> t, user |-> u, workspace |-> w,
   started |-> now]

Idle == NewCall("idle", "NONE", None, None, None, 0)

Init ==
  /\ clock = 0
  /\ members \in SUBSET (Users \X Workspaces)
  /\ tokens \in [Tokens -> {Absent}
                   \cup {LiveRow(m[1], m[2], Lifetime) : m \in members}
                   \cup {LegacyRow(u, w) : u \in Users, w \in Workspaces}]
  /\ \A t \in Tokens : tokens[t] # Absent <=> t \in Issued
  /\ calls = [c \in Calls |-> Idle]
  /\ origin = [t \in Tokens |->
                 [root |-> IF t \in Issued THEN t ELSE None, minter |-> None,
                  spentAt |-> None]]
  /\ ended = {}
  /\ overtaken = {}

Tick ==
  /\ clock < MaxClock
  /\ clock' = clock + 1
  /\ UNCHANGED <<members, tokens, calls, history>>

\* What new Date(), evaluated no earlier than t0, may be when it is stored.
Stamps(t0) == {s \in 0 .. clock : t0 <= s /\ clock <= s + Lag}

Goto(c, pc) == calls' = [calls EXCEPT ![c].pc = pc]

\* The conditional UPDATE of a set of rows that are live.
Revoke(R, s) ==
  /\ tokens' = [t \in Tokens |->
                  IF t \in R
                    THEN [tokens[t] EXCEPT !.state = "revoked", !.revokedAt = s]
                    ELSE tokens[t]]
  /\ origin' = [t \in Tokens |->
                  IF t \in R THEN [origin[t] EXCEPT !.spentAt = clock]
                             ELSE origin[t]]

LiveOf(u) == {t \in Tokens : tokens[t].state = "live" /\ tokens[t].user = u}

-----------------------------------------------------------------------------
(* The calls: selectWorkspace after a password login, refresh, and switch. *)

Begin(c, kind, pc, t, u, w) ==
  /\ calls[c].pc = "idle"
  /\ calls' = [calls EXCEPT ![c] = NewCall(pc, kind, t, u, w, clock)]
  /\ UNCHANGED <<clock, members, tokens, history>>

SelectWorkspace(c, u, w) == Begin(c, "LOGIN", "member", None, u, w)

RefreshToken(c, t) == Begin(c, "REFRESH", "read", t, None, None)

SwitchWorkspace(c, t, w) == Begin(c, "SWITCH", "read", t, None, w)

\* The row as findUnique returns it to call c.
Found(c) == tokens[calls[c].token]

Reading(c) == calls[c].pc = "read"

\* Mutant of Benign: the flat window the causal test replaced.
BenignByAge(c) ==
  /\ Found(c).revokedAt # None
  /\ clock < Found(c).revokedAt + Skew + 1

\* isBenignConcurrentPresentation: had the request started when it was revoked?
Benign(c) ==
  /\ Found(c).revokedAt # None
  /\ calls[c].started < Found(c).revokedAt + Skew

Expired(c) == Found(c).expiresAt < clock

\* A step of c that writes no table.
Turn(c, pc) == Goto(c, pc) /\ UNCHANGED <<clock, members, tokens, history>>

\* STATE 1, unknown; also STATE 3, live but expired.
FindUnusable(c) ==
  /\ Reading(c)
  /\ \/ Found(c).state = "absent"
     \/ Found(c).state = "live" /\ Expired(c)
  /\ Turn(c, "refused")

\* STATE 2: known and revoked.  Both answers are the same 401.
FindRaced(c) ==
  Reading(c) /\ Found(c).state = "revoked" /\ Benign(c) /\ Turn(c, "benign")

\* The call goes on with the owner of the row it found.
Owned(c, pc, w) ==
  calls' = [calls EXCEPT ![c].pc = pc, ![c].user = Found(c).user, ![c].workspace = w]

\* Mutant of FindReplayed: the audit row is written and nothing revoked.
FindReplayedReport(c) ==
  /\ Reading(c) /\ Found(c).state = "revoked" /\ ~Benign(c)
  /\ Owned(c, "report", calls[c].workspace)
  /\ UNCHANGED <<clock, members, tokens, history>>

FindReplayed(c) ==
  /\ Reading(c) /\ Found(c).state = "revoked" /\ ~Benign(c)
  /\ Owned(c, "family", calls[c].workspace)
  /\ UNCHANGED <<clock, members, tokens, history>>

\* STATE 4.  A refresh keeps the workspace of its token; a switch names one.
FindLive(c) ==
  /\ Reading(c) /\ Found(c).state = "live" /\ ~Expired(c)
  /\ Owned(c, "claim", IF calls[c].kind = "SWITCH" THEN calls[c].workspace
                                                   ELSE Found(c).workspace)
  /\ UNCHANGED <<clock, members, tokens, history>>

\* Mutant of ClaimMatches: the update is keyed on the id alone.
ClaimAlways(c) == TRUE

ClaimMatches(c) == Found(c).state = "live"

WinClaim(c) ==
  /\ calls[c].pc = "claim" /\ ClaimMatches(c)
  /\ \E s \in Stamps(calls[c].started) : Revoke({calls[c].token}, s)
  /\ Goto(c, "member")
  /\ UNCHANGED <<clock, members, ended, overtaken>>

LoseClaim(c) ==
  calls[c].pc = "claim" /\ ~ClaimMatches(c) /\ Turn(c, "refused")

AnyMember(c) == TRUE                        \* mutant of IsMember
IsMember(c) == <<calls[c].user, calls[c].workspace>> \in members

FindMember(c) == calls[c].pc = "member" /\ IsMember(c) /\ Turn(c, "mint")

\* Mutant of FindNoMember: the membership found is not looked at.
FindNoMemberEver(c) == calls[c].pc = "member" /\ Turn(c, "refused")

FindNoMember(c) == calls[c].pc = "member" /\ ~IsMember(c) /\ Turn(c, "refused")

Root(c, t) ==
  IF calls[c].kind = "LOGIN" THEN t ELSE origin[calls[c].token].root

Mint(c, t) ==
  /\ calls[c].pc = "mint"
  /\ tokens[t].state = "absent"
  /\ tokens' = [tokens EXCEPT
                  ![t] = LiveRow(calls[c].user, calls[c].workspace, clock + Lifetime)]
  /\ origin' = [origin EXCEPT ![t].root = Root(c, t), ![t].minter = c]
  /\ Goto(c, "done")
  /\ UNCHANGED <<clock, members, ended, overtaken>>

-----------------------------------------------------------------------------
(* Revocation.                                                             *)

\* The history of an account-wide revocation: the logins it ends, and the
\* calls that have spent a token of the account and not yet replaced it.
RevokeAccount(u, t0) ==
  /\ \E s \in Stamps(t0) : Revoke(LiveOf(u), s)
  /\ ended' = ended \cup {origin[t].root : t \in {x \in Tokens : tokens[x].user = u}}
  /\ overtaken' = overtaken \cup {d \in Calls :
                     calls[d].pc \in {"member", "mint"} /\ calls[d].user = u}

\* handleSuspectedTokenReuse: the revocation commits before its audit row, and
\* a failure of the audit is swallowed.
RevokeFamily(c) ==
  /\ calls[c].pc = "family"
  /\ RevokeAccount(calls[c].user, calls[c].started)
  /\ Goto(c, "report")
  /\ UNCHANGED <<clock, members>>

ReportReuse(c) ==
  /\ calls[c].pc = "report"
  /\ \E pc \in {"reported", "refused"} : Turn(c, pc)

\* Calls of one statement or transaction end as soon as they begin.
Finish(c, kind, t, u, w) ==
  /\ calls[c].pc = "idle"
  /\ calls' = [calls EXCEPT ![c] = NewCall("done", kind, t, u, w, clock)]

\* logout stamps the row whatever state it is in.
Logout(c, t) ==
  /\ Finish(c, "LOGOUT", t, None, None)
  /\ tokens[t].state # "absent"
  /\ \E s \in Stamps(0) :
       tokens' = [tokens EXCEPT ![t].state = "revoked", ![t].revokedAt = s]
  /\ origin' = [origin EXCEPT
                  ![t].spentAt = IF tokens[t].state = "live" THEN clock ELSE @]
  /\ UNCHANGED <<clock, members, ended, overtaken>>

LogoutAll(c, u) ==
  /\ Finish(c, "LOGOUT_ALL", None, u, None)
  /\ RevokeAccount(u, 0)
  /\ UNCHANGED <<clock, members>>

\* Mutant of RemovedTokens: the removal leaves the sessions alone.
RemovedTokensKept(u, w) == {}

RemovedTokens(u, w) == {t \in LiveOf(u) : tokens[t].workspace = w}

\* removeMember of team.service.ts, one transaction.
RemoveMember(c, u, w) ==
  /\ Finish(c, "REMOVE", None, u, w)
  /\ <<u, w>> \in members
  /\ members' = members \ {<<u, w>>}
  /\ \E s \in Stamps(0) : Revoke(RemovedTokens(u, w), s)
  /\ overtaken' = overtaken \cup {d \in Calls :
        calls[d].pc = "mint" /\ calls[d].user = u /\ calls[d].workspace = w}
  /\ UNCHANGED <<clock, ended>>

\* The process dies, or a query of the call fails.
Crash(c) ==
  calls[c].pc \notin Ended \cup {"idle"} /\ Turn(c, "crashed")

-----------------------------------------------------------------------------

Proceed(c) ==
  \/ FindUnusable(c) \/ FindRaced(c) \/ FindReplayed(c) \/ FindLive(c)
  \/ WinClaim(c) \/ LoseClaim(c) \/ FindMember(c) \/ FindNoMember(c)
  \/ \E t \in Tokens : Mint(c, t)
  \/ RevokeFamily(c) \/ ReportReuse(c)

Request(c) ==
  \/ \E u \in Users, w \in Workspaces : SelectWorkspace(c, u, w) \/ RemoveMember(c, u, w)
  \/ \E t \in Tokens : RefreshToken(c, t) \/ Logout(c, t)
  \/ \E t \in Tokens, w \in Workspaces : SwitchWorkspace(c, t, w)
  \/ \E u \in Users : LogoutAll(c, u)

Next ==
  \/ Tick
  \/ \E c \in Calls : Request(c) \/ Proceed(c) \/ Crash(c)

Spec == Init /\ [][Next]_vars

\* Node runs every ready continuation; nothing makes a person or a clock act.
FairSpec == Spec /\ \A c \in Calls : WF_vars(Proceed(c))

-----------------------------------------------------------------------------
(* Safety.                                                                 *)

TypeOK ==
  /\ clock \in Nat
  /\ members \subseteq Users \X Workspaces
  /\ tokens \in [Tokens -> Rows]
  /\ calls \in [Calls -> CallStates]
  /\ origin \in [Tokens -> Origins]
  /\ ended \subseteq Tokens \cup {None}
  /\ overtaken \subseteq Calls

\* Call c has spent a token of login r and not yet replaced it.
Holds(c, r) ==
  /\ calls[c].pc \in {"member", "mint"} /\ calls[c].kind # "LOGIN"
  /\ origin[calls[c].token].root = r

\* One login is one session: however many refreshes and switches race over it,
\* it never has two live tokens ("one refresh token amplified into N sessions"),
\* and none while a call that spent one has yet to issue the next.
NoAmplification ==
  \A t \in Tokens :
    tokens[t].state = "live" =>
      /\ \A x \in Tokens :
           tokens[x].state = "live" /\ origin[x].root = origin[t].root => x = t
      /\ \A c \in Calls : ~Holds(c, origin[t].root)

\* A request that was in flight when its token's revocation committed is never
\* taken for a replay, so racing tabs do not sign the account out.
RacersAreBenign ==
  \A c \in Calls :
    calls[c].pc \in {"family", "report"} =>
      LET spent == origin[calls[c].token].spentAt
      IN  spent # None => calls[c].started >= spent

\* A request that began after its token was spent (beyond the allowance for
\* clock skew) is taken for a replay, unless the token was meanwhile presented
\* to logout, however soon it comes.
ReplayIsDetected ==
  \A c \in Calls :
    calls[c].pc = "benign" =>
      LET spent == origin[calls[c].token].spentAt
      IN  \/ spent # None /\ calls[c].started < spent + Skew
          \/ \E d \in Calls : calls[d].kind = "LOGOUT" /\ calls[d].token = calls[c].token

\* A replay is told from a race: racing tabs do not sign the account out, and a
\* token that was spent before is not let pass (isBenignConcurrentPresentation).
ReplaysAreTold == RacersAreBenign /\ ReplayIsDetected

\* Revoking an account leaves of each of its logins at most the session that a
\* call which had already spent its token was about to issue.
RevocationHolds ==
  \A t \in Tokens :
    tokens[t].state = "live" /\ origin[t].root \in ended =>
      \E c \in overtaken :
        calls[c].kind # "LOGIN" /\ origin[calls[c].token].root = origin[t].root

\* Nobody holds a live token for a workspace they were removed from, save one
\* issued by a call that had read the membership before the removal.
RemovedHoldNoToken ==
  \A t \in Tokens :
    tokens[t].state = "live" /\ <<tokens[t].user, tokens[t].workspace>> \notin members =>
      origin[t].minter \in overtaken

\* Neither who was revoked nor who has left keeps a token, except one that a call
\* in flight was about to issue (revokeAllForUser, removeMember).
RevokedHoldNothing == RevocationHolds /\ RemovedHoldNoToken

\* An audited reuse did end the sessions: the revocation commits before the
\* audit row, so a crash between the two never leaves a false report.
ReportsAreTrue ==
  \A c \in Calls :
    calls[c].pc = "reported" => origin[calls[c].token].root \in ended

-----------------------------------------------------------------------------
(* The inductive invariant behind the safety properties.                   *)

\* Every row descends from the first row of its login, and has its user.
RowOK(t) ==
  /\ tokens[t].state = "absent" <=> origin[t].root = None
  /\ tokens[t].state = "absent" => tokens[t].user = None
  /\ tokens[t].state # "absent" =>
       /\ tokens[t].user \in Users /\ tokens[t].workspace \in Workspaces
       /\ origin[t].root \in Tokens
       /\ origin[origin[t].root].root = origin[t].root
       /\ tokens[origin[t].root].user = tokens[t].user
  /\ tokens[t].state = "live" => tokens[t].revokedAt = None
  /\ tokens[t].state # "revoked" => origin[t].spentAt = None
  /\ origin[t].spentAt # None =>
       /\ origin[t].spentAt <= clock
       /\ tokens[t].revokedAt # None
       /\ origin[t].spentAt <= tokens[t].revokedAt + Lag

\* Nothing moves the revocation of a row but logout.
StampOK(t) ==
  tokens[t].revokedAt # None =>
    \/ origin[t].spentAt # None /\ tokens[t].revokedAt <= origin[t].spentAt
    \/ \E d \in Calls : calls[d].kind = "LOGOUT" /\ calls[d].token = t

CallOK(c) ==
  /\ calls[c].started <= clock
  /\ calls[c].kind = "LOGOUT" => calls[c].pc = "done"
  /\ calls[c].pc \in {"read", "claim", "family", "report", "benign", "reported"} =>
       calls[c].token \in Tokens /\ calls[c].kind \in {"REFRESH", "SWITCH"}
  /\ calls[c].pc = "read" /\ calls[c].kind = "SWITCH" => calls[c].workspace \in Workspaces
  /\ calls[c].pc \in {"claim", "member", "mint"} =>
       /\ calls[c].user \in Users /\ calls[c].workspace \in Workspaces
       /\ calls[c].kind \in {"LOGIN", "REFRESH", "SWITCH"}
  /\ calls[c].pc \in {"claim", "family", "report", "reported"} =>
       /\ Found(c).state # "absent" /\ Found(c).user = calls[c].user
  /\ calls[c].pc \in {"family", "report", "reported", "benign"} => Found(c).state = "revoked"
  /\ calls[c].pc \in {"member", "mint"} /\ calls[c].kind # "LOGIN" =>
       /\ calls[c].token \in Tokens
       /\ Found(c).state = "revoked" /\ Found(c).user = calls[c].user
  /\ calls[c].pc = "mint" /\ ~IsMember(c) => c \in overtaken
  /\ calls[c].pc \in {"report", "reported"} => origin[calls[c].token].root \in ended

\* The baton of login r is somewhere: with its client or with a call.
Carried(r) ==
  \/ \E t \in Tokens : tokens[t].state = "live" /\ origin[t].root = r
  \/ \E c \in Calls : Holds(c, r)

OneCarrier ==
  \A c, d \in Calls : \A r \in Tokens : Holds(c, r) /\ Holds(d, r) => c = d

EndedOK ==
  /\ \A r \in ended : r \in Tokens /\ tokens[r].state # "absent"
  /\ \A r \in ended :
       Carried(r) => \E c \in overtaken : /\ calls[c].kind # "LOGIN"
                                          /\ calls[c].token \in Tokens
                                          /\ origin[calls[c].token].root = r
  /\ \A c \in overtaken : calls[c].pc \notin {"idle", "read", "claim"}

\* Each login has one baton, and whoever carries the baton of a login that was
\* ended took it before the end.
IInv ==
  /\ TypeOK
  /\ \A t \in Tokens : RowOK(t) /\ StampOK(t)
  /\ \A c \in Calls : CallOK(c)
  /\ NoAmplification
  /\ OneCarrier
  /\ EndedOK
  /\ RemovedHoldNoToken
  /\ ReplayIsDetected

-----------------------------------------------------------------------------
(* Refinement and liveness.                                                *)

\* Where the baton of each login is: with its client, with a call, or gone.
Holder(r) ==
  IF origin[r].root # r THEN "none"
  ELSE IF \E t \in Tokens : tokens[t].state = "live" /\ origin[t].root = r
    THEN "client"
  ELSE IF \E c \in Calls : Holds(c, r) THEN CHOOSE c \in Calls : Holds(c, r)
  ELSE "ended"

Baton == INSTANCE LoginSession
           WITH Sessions <- Tokens, Carriers <- Calls,
                holder <- [r \in Tokens |-> Holder(r)]

\* A login is a baton: held by the client or by the one call that is moving it,
\* and never seen again once dropped.
ImplementsLoginSession == Baton!Spec

\* A won claim is answered with a session, unless the target workspace has no
\* seat for the user or the process dies.  (A refused switch costs the session.)
ClaimIsHonoured ==
  \A c \in Calls :
    calls[c].pc = "member" ~>
      \/ calls[c].pc \in {"done", "crashed"}
      \/ calls[c].pc = "refused" /\ ~IsMember(c)

\* Stated by auth.service.ts, and not kept (README, section 6): a detected replay ends
\* "every live session for that account, forcing re-authentication".
RevocationIsComplete ==
  \A t \in Tokens : tokens[t].state = "live" => origin[t].root \notin ended
=============================================================================
