------------------------- MODULE RefreshTokensProofs -------------------------
(***************************************************************************)
(* Proofs about RefreshTokens, for any numbers of users, workspaces, rows  *)
(* and concurrent calls, and any lifetimes, skew and commit lag.           *)
(***************************************************************************)
EXTENDS RefreshTokens, TLAPS

\* Row r and its history o after a revocation.
Stamped(r, s) == [r EXCEPT !.state = "revoked", !.revokedAt = s]
SpentAt(o, n) == [o EXCEPT !.spentAt = n]

\* What any step may do to row t: nothing, create it, revoke it for the first
\* time, or stamp it again at logout.
Created(t) ==
  \E c \in Calls : Mint(c, t)

Spent(t) ==
  /\ tokens[t].state = "live"
  /\ \E s \in Stamps(0) : tokens'[t] = Stamped(tokens[t], s)
  /\ origin'[t] = SpentAt(origin[t], clock)

Restamped(t) ==
  /\ tokens[t].state = "revoked"
  /\ \E s \in Stamps(0) : tokens'[t] = Stamped(tokens[t], s)
  /\ origin'[t] = origin[t]
  /\ \E d \in Calls : Logout(d, t)

LEMMA RowStep ==
  ASSUME IInv, [Next]_vars, NEW t \in Tokens
  PROVE  \/ tokens'[t] = tokens[t] /\ origin'[t] = origin[t]
         \/ clock' = clock /\ (Created(t) \/ Spent(t) \/ Restamped(t))
<1> DEFINE Same == tokens'[t] = tokens[t] /\ origin'[t] = origin[t]
           Goal == \/ Same
                   \/ clock' = clock /\ (Created(t) \/ Spent(t) \/ Restamped(t))
<1> USE NullAssumption, TimeAssumption
<1>1. /\ tokens \in [Tokens -> Rows] /\ origin \in [Tokens -> Origins]
      /\ calls \in [Calls -> CallStates] /\ clock \in Nat
  BY DEF IInv, TypeOK
<1>2. ASSUME NEW R \in SUBSET Tokens, \A x \in R : tokens[x].state = "live",
             NEW t0 \in Nat, NEW s \in Stamps(t0), Revoke(R, s), clock' = clock
      PROVE  Goal
  <2>1. s \in Stamps(0)
    BY <1>1 DEF Stamps
  <2>2. CASE t \in R
    BY <1>1, <1>2, <2>1, <2>2 DEF Revoke, Spent, Stamped, SpentAt
  <2>3. CASE t \notin R
    BY <1>1, <1>2, <2>3 DEF Revoke
  <2>4. QED
    BY <2>2, <2>3
<1>3. ASSUME NEW c \in Calls, WinClaim(c) PROVE Goal
  <2>1. calls[c].token \in Tokens /\ calls[c].started \in Nat
    BY <1>1, <1>3 DEF WinClaim, IInv, CallOK, CallStates
  <2>2. PICK s \in Stamps(calls[c].started) : Revoke({calls[c].token}, s)
    BY <1>3 DEF WinClaim
  <2>3. QED
    BY <1>2, <1>3, <2>1, <2>2 DEF WinClaim, ClaimMatches, Found
<1>4. ASSUME NEW u, NEW t0 \in Nat, RevokeAccount(u, t0), clock' = clock
      PROVE  Goal
  <2>1. PICK s \in Stamps(t0) : Revoke(LiveOf(u), s)
    BY <1>4 DEF RevokeAccount
  <2>2. QED
    BY <1>2, <1>4, <2>1 DEF LiveOf
<1>5. ASSUME NEW c \in Calls, RevokeFamily(c) \/ \E u \in Users : LogoutAll(c, u)
      PROVE  Goal
  <2>1. calls[c].started \in Nat
    BY <1>1 DEF CallStates
  <2>2. QED
    BY <1>4, <1>5, <2>1 DEF RevokeFamily, LogoutAll
<1>6. ASSUME NEW c \in Calls, NEW u, NEW w, RemoveMember(c, u, w) PROVE Goal
  <2>1. PICK s \in Stamps(0) : Revoke(RemovedTokens(u, w), s)
    BY <1>6 DEF RemoveMember
  <2>2. QED
    BY <1>2, <1>6, <2>1 DEF RemovedTokens, LiveOf, RemoveMember
<1>7. ASSUME NEW c \in Calls, NEW x \in Tokens, Logout(c, x) PROVE Goal
  <2>1. PICK s \in Stamps(0) :
          tokens' = [tokens EXCEPT ![x].state = "revoked", ![x].revokedAt = s]
    BY <1>7 DEF Logout
  <2>2. /\ tokens'[t] = IF t = x THEN Stamped(tokens[t], s) ELSE tokens[t]
        /\ origin'[t] = IF t = x /\ tokens[t].state = "live"
                           THEN SpentAt(origin[t], clock) ELSE origin[t]
    BY <1>1, <1>7, <2>1 DEF Logout, Origins, Stamped, SpentAt
  <2>3. CASE t = x /\ tokens[t].state = "live"
    BY <1>7, <2>2, <2>3 DEF Logout, Spent
  <2>4. CASE t = x /\ tokens[t].state # "live"
    <3>1. tokens[t].state = "revoked"
      BY <1>1, <1>7, <2>4 DEF Rows, Logout
    <3>2. QED
      BY <1>7, <2>2, <2>4, <3>1 DEF Logout, Restamped
  <2>5. QED
    BY <2>2, <2>3, <2>4
<1>8. ASSUME NEW c \in Calls, NEW x \in Tokens, Mint(c, x) PROVE Goal
  <2>1. CASE x = t
    BY <1>8, <2>1 DEF Mint, Created
  <2>2. CASE x # t
    BY <1>1, <1>8, <2>2 DEF Mint
  <2>3. QED
    BY <2>1, <2>2
<1>9. ASSUME NEW c \in Calls, Proceed(c) PROVE Goal
  BY <1>3, <1>5, <1>8, <1>9 DEF Proceed, FindUnusable, FindRaced, FindReplayed, FindLive,
     LoseClaim, FindMember, FindNoMember, ReportReuse, Turn, history
<1>10. ASSUME NEW c \in Calls, Request(c) PROVE Goal
  BY <1>5, <1>6, <1>7, <1>10 DEF Request, SelectWorkspace, RefreshToken, SwitchWorkspace,
     Begin, history
<1>11. QED
  BY <1>9, <1>10 DEF Next, vars, Tick, Crash, Turn, history

-----------------------------------------------------------------------------

\* What any step may do to call d: nothing, begin it, or move it on.
Advances(d) ==
  /\ calls[d].pc \notin Ended \cup {"idle"}
  /\ calls'[d].kind = calls[d].kind
  /\ calls'[d].token = calls[d].token
  /\ calls'[d].started = calls[d].started
  /\ calls[d].pc # "read" => /\ calls'[d].user = calls[d].user
                             /\ calls'[d].workspace = calls[d].workspace

LEMMA CallStep ==
  ASSUME TypeOK, [Next]_vars, NEW d \in Calls
  PROVE  \/ calls'[d] = calls[d]
         \/ calls[d].pc = "idle" /\ Request(d)
         \/ Advances(d) /\ (Proceed(d) \/ Crash(d))
<1>1. calls \in [Calls -> CallStates]
  BY DEF TypeOK
<1>2. ASSUME NEW c \in Calls, Proceed(c) \/ Crash(c)
      PROVE  Advances(c) /\ \A x \in Calls \ {c} : calls'[x] = calls[x]
  <2>1. ASSUME NEW pc, Goto(c, pc), calls[c].pc \notin Ended \cup {"idle"}
        PROVE  Advances(c) /\ \A x \in Calls \ {c} : calls'[x] = calls[x]
    BY <1>1, <2>1 DEF Goto, Advances, CallStates
  <2>2. ASSUME NEW pc, NEW w, Owned(c, pc, w), Reading(c)
        PROVE  Advances(c) /\ \A x \in Calls \ {c} : calls'[x] = calls[x]
    BY <1>1, <2>2 DEF Owned, Reading, Advances, CallStates, Ended
  <2>3. QED
    BY <1>2, <2>1, <2>2 DEF Proceed, Crash, FindUnusable, FindRaced, FindReplayed,
       FindLive, WinClaim, LoseClaim, FindMember, FindNoMember, Mint, RevokeFamily,
       ReportReuse, Turn, Reading, Ended
<1>3. ASSUME NEW c \in Calls, Request(c)
      PROVE  calls[c].pc = "idle" /\ \A x \in Calls \ {c} : calls'[x] = calls[x]
  BY <1>1, <1>3 DEF Request, SelectWorkspace, RefreshToken, SwitchWorkspace, Begin,
     Logout, LogoutAll, RemoveMember, Finish
<1>4. QED
  BY <1>2, <1>3 DEF Next, vars, Tick

-----------------------------------------------------------------------------

\* Updates of rows and of their history keep them well formed.
LEMMA RowUpdates ==
  /\ \A r \in Rows : \A s \in Nat :
       /\ Stamped(r, s) \in Rows
       /\ Stamped(r, s).state = "revoked" /\ Stamped(r, s).revokedAt = s
       /\ Stamped(r, s).user = r.user /\ Stamped(r, s).workspace = r.workspace
  /\ \A o \in Origins : \A n \in Nat :
       /\ SpentAt(o, n) \in Origins
       /\ SpentAt(o, n).root = o.root /\ SpentAt(o, n).minter = o.minter
       /\ SpentAt(o, n).spentAt = n
  BY DEF Rows, Origins, Stamped, SpentAt

LEMMA ClockStep == [Next]_vars => clock' = clock \/ clock' = clock + 1
  BY DEF Next, vars, Tick, Request, Proceed, Crash, SelectWorkspace, RefreshToken,
     SwitchWorkspace, Begin, Logout, LogoutAll, RemoveMember, FindUnusable,
     FindRaced, FindReplayed, FindLive, WinClaim, LoseClaim, FindMember, FindNoMember,
     Mint, RevokeFamily, ReportReuse, Turn

\* Every step keeps the types.
LEMMA TypeStep == IInv /\ [Next]_vars => TypeOK'
<1> SUFFICES ASSUME IInv, [Next]_vars PROVE TypeOK'
  OBVIOUS
<1> USE NullAssumption, TimeAssumption
<1>1. /\ tokens \in [Tokens -> Rows] /\ origin \in [Tokens -> Origins]
      /\ calls \in [Calls -> CallStates] /\ clock \in Nat
      /\ members \subseteq Users \X Workspaces
      /\ ended \subseteq Tokens \cup {None} /\ overtaken \subseteq Calls
  BY DEF IInv, TypeOK
<1>2. ASSUME NEW t \in Tokens PROVE tokens'[t] \in Rows /\ origin'[t] \in Origins
  <2>1. ASSUME NEW c \in Calls, Mint(c, t) PROVE tokens'[t] \in Rows /\ origin'[t] \in Origins
    <3>1. calls[c].user \in Users /\ calls[c].workspace \in Workspaces
          /\ Root(c, t) \in Tokens \cup {None}
      BY <1>1, <2>1 DEF Mint, IInv, CallOK, Root, Origins
    <3>2. LiveRow(calls[c].user, calls[c].workspace, clock + Lifetime) \in Rows
      BY <1>1, <3>1 DEF LiveRow, Rows
    <3>3. origin'[t] = [origin[t] EXCEPT !.root = Root(c, t), !.minter = c]
      BY <1>1, <2>1 DEF Mint
    <3>4. origin'[t] \in Origins
      <4>1. origin[t] \in Origins
        BY <1>1
      <4>2. QED
        BY <3>1, <3>3, <4>1 DEF Origins
    <3>5. QED
      BY <1>1, <2>1, <3>2, <3>4 DEF Mint
  <2>2. Stamps(0) \subseteq Nat
    BY <1>1 DEF Stamps
  <2>3. ASSUME Spent(t) \/ Restamped(t) PROVE tokens'[t] \in Rows /\ origin'[t] \in Origins
    <3>1. PICK s \in Nat : tokens'[t] = Stamped(tokens[t], s)
      BY <2>2, <2>3 DEF Spent, Restamped
    <3>2. tokens'[t] \in Rows
      BY <1>1, <3>1, RowUpdates
    <3>3. origin'[t] \in Origins
      BY <1>1, <2>3, RowUpdates DEF Spent, Restamped
    <3>4. QED
      BY <3>2, <3>3
  <2>4. QED
    BY <1>1, <2>1, <2>3, RowStep DEF Created
<1>3. tokens' \in [Tokens -> Rows] /\ origin' \in [Tokens -> Origins]
  <2> DEFINE OverTokens == /\ tokens' = [t \in Tokens |-> tokens'[t]]
                           /\ origin' = [t \in Tokens |-> origin'[t]]
  <2>1. ASSUME UNCHANGED <<tokens, origin>> PROVE OverTokens
    BY <1>1, <2>1
  <2>2. ASSUME NEW R, NEW s, Revoke(R, s) PROVE OverTokens
    BY <2>2 DEF Revoke
  <2>3. ASSUME NEW c, NEW t, Mint(c, t) \/ Logout(c, t) PROVE OverTokens
    BY <1>1, <2>3 DEF Mint, Logout
  <2>4. OverTokens
    BY <2>1, <2>2, <2>3 DEF Next, vars, Tick, Request, Proceed, Crash, SelectWorkspace,
     RefreshToken, SwitchWorkspace, Begin, LogoutAll, RemoveMember, FindUnusable, FindRaced,
     FindReplayed, FindLive, WinClaim, LoseClaim, FindMember, FindNoMember,
     RevokeFamily, ReportReuse, RevokeAccount, Turn, history
  <2>5. QED
    BY <1>2, <2>4
<1>4. calls' \in [Calls -> CallStates]
  <2>1. ASSUME NEW c \in Calls, NEW pc \in CallPcs, Goto(c, pc)
        PROVE  calls' \in [Calls -> CallStates]
    BY <1>1, <2>1 DEF Goto, CallStates
  <2>2. ASSUME NEW c \in Calls, NEW pc \in CallPcs, NEW w \in Workspaces \cup {None},
               Reading(c), Owned(c, pc, w)
        PROVE  calls' \in [Calls -> CallStates]
    <3>1. Found(c).user \in Users \cup {None}
      BY <1>1, <2>2 DEF IInv, CallOK, Reading, Found, Rows
    <3>2. [calls[c] EXCEPT !.pc = pc, !.user = Found(c).user, !.workspace = w] \in CallStates
      <4>1. calls[c] \in CallStates
        BY <1>1
      <4>2. QED
        BY <3>1, <4>1 DEF CallStates
    <3>3. calls' = [calls EXCEPT ![c] =
                      [calls[c] EXCEPT !.pc = pc, !.user = Found(c).user, !.workspace = w]]
      BY <1>1, <2>2 DEF Owned
    <3>4. QED
      BY <1>1, <3>2, <3>3
  <2>3. ASSUME NEW c \in Calls, Proceed(c) \/ Crash(c)
        PROVE  calls' \in [Calls -> CallStates]
    <3>1. CASE FindLive(c)
      <4>1. Found(c).workspace \in Workspaces \cup {None} /\ calls[c].workspace \in Workspaces \cup {None}
        BY <1>1, <3>1 DEF IInv, CallOK, FindLive, Reading, Found, Rows, CallStates
      <4>2. QED
        BY <2>2, <3>1, <4>1 DEF FindLive, CallPcs
    <3>2. CASE FindReplayed(c)
      <4>1. calls[c].workspace \in Workspaces \cup {None}
        BY <1>1 DEF CallStates
      <4>2. QED
        BY <2>2, <3>2, <4>1 DEF FindReplayed, CallPcs
    <3>3. QED
      BY <2>1, <2>3, <3>1, <3>2 DEF Proceed, Crash, FindUnusable, FindRaced,
         WinClaim, LoseClaim, FindMember, FindNoMember, Mint, RevokeFamily,
         ReportReuse, Turn, CallPcs, Ended
  <2>4. ASSUME NEW pc \in CallPcs, NEW k \in Kinds, NEW t \in Tokens \cup {None},
               NEW u \in Users \cup {None}, NEW w \in Workspaces \cup {None}
        PROVE  NewCall(pc, k, t, u, w, clock) \in CallStates
    BY <1>1 DEF NewCall, CallStates
  <2>5. ASSUME NEW c \in Calls, Request(c) PROVE calls' \in [Calls -> CallStates]
    <3> DEFINE Result(x) == calls' = [calls EXCEPT ![c] = x]
    <3> USE <2>4 DEF CallPcs, Ended, Kinds
    <3>1. ASSUME NEW x \in CallStates, Result(x) PROVE calls' \in [Calls -> CallStates]
      BY <1>1, <3>1
    <3>2. ASSUME NEW u \in Users, NEW w \in Workspaces, SelectWorkspace(c, u, w)
          PROVE  \E x \in CallStates : Result(x)
      BY <3>2 DEF SelectWorkspace, Begin
    <3>3. ASSUME NEW t \in Tokens, RefreshToken(c, t)
          PROVE  \E x \in CallStates : Result(x)
      BY <3>3 DEF RefreshToken, Begin
    <3>4. ASSUME NEW t \in Tokens, NEW w \in Workspaces, SwitchWorkspace(c, t, w)
          PROVE  \E x \in CallStates : Result(x)
      BY <3>4 DEF SwitchWorkspace, Begin
    <3>5. ASSUME NEW t \in Tokens, Logout(c, t)
          PROVE  \E x \in CallStates : Result(x)
      BY <3>5 DEF Logout, Finish
    <3>6. ASSUME NEW u \in Users, LogoutAll(c, u)
          PROVE  \E x \in CallStates : Result(x)
      BY <3>6 DEF LogoutAll, Finish
    <3>7. ASSUME NEW u \in Users, NEW w \in Workspaces, RemoveMember(c, u, w)
          PROVE  \E x \in CallStates : Result(x)
      BY <3>7 DEF RemoveMember, Finish
    <3> HIDE DEF Result
    <3>8. QED
      BY <2>5, <3>1, <3>2, <3>3, <3>4, <3>5, <3>6, <3>7 DEF Request
  <2>6. QED
    BY <1>1, <2>3, <2>5 DEF Next, vars, Tick
<1>5. clock' \in Nat
  BY <1>1, ClockStep
<1>6. /\ members' \subseteq members
      /\ ended' \subseteq Tokens \cup {None} /\ overtaken' \subseteq Calls
  <2>1. ASSUME NEW u, NEW t0, RevokeAccount(u, t0)
        PROVE  ended' \subseteq Tokens \cup {None} /\ overtaken' \subseteq Calls
    BY <1>1, <2>1 DEF RevokeAccount, Origins
  <2>2. ASSUME NEW c, NEW u, NEW w, RemoveMember(c, u, w)
        PROVE  members' \subseteq members /\ ended' = ended /\ overtaken' \subseteq Calls
    BY <1>1, <2>2 DEF RemoveMember
  <2>3. ASSUME NEW c, RevokeFamily(c) \/ \E u \in Users : LogoutAll(c, u)
        PROVE  members' = members /\ \E u, t0 : RevokeAccount(u, t0)
    BY <2>3 DEF RevokeFamily, LogoutAll
  <2>4. QED
    BY <1>1, <2>1, <2>2, <2>3 DEF Next, vars, Tick, Request, Proceed, Crash,
       SelectWorkspace, RefreshToken, SwitchWorkspace, Begin, Logout, FindUnusable,
       FindRaced, FindReplayed, FindLive, WinClaim, LoseClaim, FindMember, FindNoMember,
       Mint, ReportReuse, Turn, history
<1>7. QED
  BY <1>1, <1>3, <1>4, <1>5, <1>6 DEF TypeOK

-----------------------------------------------------------------------------

\* The initial rows are whole, and nothing is spent, held or ended.
LEMMA InitInv == Init => IInv
<1> SUFFICES ASSUME Init PROVE IInv
  OBVIOUS
<1> USE NullAssumption, TimeAssumption, TokenAssumption
<1> DEFINE Fit(r) == /\ r \in Rows /\ r.revokedAt = None
                     /\ r # Absent => /\ r.state # "absent" /\ r.user \in Users
                                      /\ r.workspace \in Workspaces
                     /\ r.state = "live" => <<r.user, r.workspace>> \in members
<1>1. tokens = [t \in Tokens |-> tokens[t]] /\ \A t \in Tokens : Fit(tokens[t])
  <2>1. Fit(Absent)
    BY DEF Absent, Rows
  <2>2. ASSUME NEW u \in Users, NEW w \in Workspaces PROVE Fit(LegacyRow(u, w))
    BY DEF LegacyRow, Rows
  <2>3. ASSUME NEW m \in members PROVE Fit(LiveRow(m[1], m[2], Lifetime))
    <3>1. m = <<m[1], m[2]>> /\ m[1] \in Users /\ m[2] \in Workspaces
      BY DEF Init
    <3>2. QED
      BY <3>1 DEF LiveRow, Rows
  <2> HIDE DEF Fit
  <2>4. QED
    BY <2>1, <2>2, <2>3 DEF Init
<1>0. ASSUME NEW t \in Tokens
      PROVE  /\ tokens[t].revokedAt = None /\ origin[t].spentAt = None
             /\ \/ /\ tokens[t].state # "absent" /\ tokens[t].user \in Users
                   /\ tokens[t].workspace \in Workspaces /\ origin[t].root = t
                \/ /\ tokens[t].state = "absent" /\ tokens[t].user = None
                   /\ origin[t].root = None
  <2>3. Fit(tokens[t]) /\ (tokens[t] # Absent <=> t \in Issued)
    BY <1>1 DEF Init
  <2>4. origin[t] = [root |-> IF t \in Issued THEN t ELSE None, minter |-> None,
                     spentAt |-> None]
    BY DEF Init
  <2> HIDE DEF Init
  <2>1. CASE t \in Issued
    BY <2>1, <2>3, <2>4
  <2>2. CASE t \notin Issued
    BY <2>2, <2>3, <2>4 DEF Absent
  <2>5. QED
    BY <2>1, <2>2
<1>2. TypeOK
  <2>1. Idle \in CallStates
    BY DEF Idle, NewCall, CallStates, CallPcs, Kinds
  <2>2. origin \in [Tokens -> Origins]
    BY DEF Init, Origins
  <2>3. tokens \in [Tokens -> Rows]
    BY <1>1
  <2>4. QED
    BY <2>1, <2>2, <2>3 DEF TypeOK, Init
<1>3. \A t \in Tokens : RowOK(t) /\ StampOK(t)
  BY <1>0 DEF RowOK, StampOK
<1>4. \A c \in Calls : calls[c].pc = "idle" /\ CallOK(c)
  BY DEF Init, CallOK, Idle, NewCall
<1>5. \A c \in Calls : \A r : ~Holds(c, r)
  BY <1>4 DEF Holds
<1>6. NoAmplification
  <2>1. \A t \in Tokens : tokens[t].state = "live" => origin[t].root = t
    BY <1>0
  <2>2. QED
    BY <1>5, <2>1 DEF NoAmplification
<1>7. OneCarrier /\ EndedOK /\ ReplayIsDetected /\ RemovedHoldNoToken
  <2>1. OneCarrier
    BY <1>5 DEF OneCarrier
  <2>2. EndedOK
    BY DEF EndedOK, Init
  <2>3. ReplayIsDetected
    BY <1>4 DEF ReplayIsDetected
  <2>4. RemovedHoldNoToken
    BY <1>1, Zenon DEF RemovedHoldNoToken
  <2>5. QED
    BY <2>1, <2>2, <2>3, <2>4
<1>8. QED
  BY <1>2, <1>3, <1>4, <1>6, <1>7 DEF IInv

-----------------------------------------------------------------------------

\* A row that exists keeps its user, its workspace and its descent.
Kept(t) ==
  tokens[t].state # "absent" =>
    /\ tokens'[t].state # "absent"
    /\ tokens'[t].state = "live" => tokens[t].state = "live"
    /\ tokens'[t].user = tokens[t].user /\ tokens'[t].workspace = tokens[t].workspace
    /\ origin'[t].root = origin[t].root /\ origin'[t].minter = origin[t].minter
    /\ tokens[t].state = "revoked" => origin'[t].spentAt = origin[t].spentAt

LEMMA RowsKept == IInv /\ [Next]_vars => \A t \in Tokens : Kept(t)
<1> SUFFICES ASSUME IInv, [Next]_vars, NEW t \in Tokens PROVE Kept(t)
  OBVIOUS
<1>1. tokens[t] \in Rows /\ origin[t] \in Origins /\ clock \in Nat
  BY DEF IInv, TypeOK
<1>2. Stamps(0) \subseteq Nat
  BY <1>1 DEF Stamps
<1>3. Created(t) => Kept(t)
  BY DEF Kept, Created, Mint
<1>4. ASSUME Spent(t) \/ Restamped(t) PROVE Kept(t)
  <2>1. PICK s \in Nat : tokens'[t] = Stamped(tokens[t], s)
    BY <1>2, <1>4 DEF Spent, Restamped
  <2>2. /\ tokens'[t].state = "revoked" /\ tokens'[t].user = tokens[t].user
        /\ tokens'[t].workspace = tokens[t].workspace
    BY <1>1, <2>1, RowUpdates
  <2>3. /\ origin'[t].root = origin[t].root /\ origin'[t].minter = origin[t].minter
        /\ tokens[t].state = "revoked" => origin'[t] = origin[t]
    <3>1. CASE Spent(t)
      <4>1. origin'[t] = SpentAt(origin[t], clock) /\ tokens[t].state = "live"
        BY <3>1 DEF Spent
      <4>2. /\ SpentAt(origin[t], clock).root = origin[t].root
            /\ SpentAt(origin[t], clock).minter = origin[t].minter
        BY <1>1, RowUpdates
      <4> QED
        BY <4>1, <4>2
    <3>2. CASE Restamped(t)
      BY <3>2 DEF Restamped
    <3>3. QED
      BY <1>4, <3>1, <3>2
  <2>4. QED
    BY <2>2, <2>3 DEF Kept
<1>5. QED
  BY <1>3, <1>4, RowStep DEF Kept

\* A call that presented a token to logout stays on record.
LEMMA LogoutsKept ==
  ASSUME IInv, [Next]_vars, NEW t \in Tokens,
         \E d \in Calls : calls[d].kind = "LOGOUT" /\ calls[d].token = t
  PROVE  \E d \in Calls : calls'[d].kind = "LOGOUT" /\ calls'[d].token = t
<1>1. PICK d \in Calls : calls[d].kind = "LOGOUT" /\ calls[d].token = t
  OBVIOUS
<1>2. calls[d].pc = "done"
  BY <1>1 DEF IInv, CallOK
<1>3. calls'[d] = calls[d]
  BY <1>2, CallStep DEF IInv, Advances, Ended
<1>4. QED
  BY <1>1, <1>3

\* Rows stay whole: a successor has the user and the root of its predecessor.
LEMMA RowsStep == IInv /\ [Next]_vars => \A t \in Tokens : RowOK(t)' /\ StampOK(t)'
<1> SUFFICES ASSUME IInv, [Next]_vars, NEW t \in Tokens PROVE RowOK(t)' /\ StampOK(t)'
  OBVIOUS
<1> USE NullAssumption, TimeAssumption
<1>1. /\ tokens[t] \in Rows /\ origin[t] \in Origins /\ clock \in Nat
      /\ calls \in [Calls -> CallStates] /\ RowOK(t) /\ StampOK(t)
      /\ \A x \in Tokens : Kept(x)
  BY RowsKept DEF IInv, TypeOK
<1>2. clock' \in Nat /\ clock' >= clock
  BY <1>1, ClockStep
<1>3. Stamps(0) \subseteq {n \in Nat : n <= clock /\ clock <= n + Lag}
  BY <1>1 DEF Stamps
<1>7. tokens[t].state # "absent" =>
        /\ origin[t].root \in Tokens
        /\ origin'[origin[t].root].root = origin[t].root
        /\ tokens'[origin[t].root].user = tokens[t].user
  <2> SUFFICES ASSUME tokens[t].state # "absent"
               PROVE  /\ origin[t].root \in Tokens
                      /\ origin'[origin[t].root].root = origin[t].root
                      /\ tokens'[origin[t].root].user = tokens[t].user
    OBVIOUS
  <2>1. /\ origin[t].root \in Tokens /\ Kept(origin[t].root) /\ RowOK(origin[t].root)
        /\ origin[origin[t].root].root = origin[t].root
        /\ tokens[origin[t].root].user = tokens[t].user
    BY <1>1 DEF RowOK, IInv
  <2>2. tokens[origin[t].root].state # "absent"
    BY <2>1 DEF RowOK
  <2>3. QED
    BY <2>1, <2>2 DEF Kept
<1>4. CASE tokens'[t] = tokens[t] /\ origin'[t] = origin[t]
  <2>1. origin'[t].spentAt # None => origin'[t].spentAt <= clock'
    BY <1>1, <1>2, <1>4 DEF RowOK, Origins
  <2>3. RowOK(t)'
    BY <1>1, <1>4, <1>7, <2>1 DEF RowOK
  <2>2. StampOK(t)'
    BY <1>1, <1>4, LogoutsKept DEF StampOK
  <2>4. QED
    BY <2>2, <2>3
<1>5. ASSUME NEW c \in Calls, Mint(c, t) PROVE RowOK(t)' /\ StampOK(t)'
  <2>1. /\ calls[c].user \in Users /\ calls[c].workspace \in Workspaces
        /\ tokens'[t] = LiveRow(calls[c].user, calls[c].workspace, clock + Lifetime)
        /\ origin'[t].root = Root(c, t) /\ origin'[t].spentAt = origin[t].spentAt
    BY <1>1, <1>5 DEF Mint, IInv, CallOK, TypeOK, Origins
  <2>2. StampOK(t)'
    BY <2>1 DEF StampOK, LiveRow
  <2>3. CASE calls[c].kind = "LOGIN"
    <3>1. origin'[t].root = t /\ origin[t].spentAt = None
      BY <1>1, <1>5, <2>1, <2>3 DEF Root, RowOK, Mint
    <3>2. RowOK(t)'
      BY <2>1, <3>1 DEF RowOK, LiveRow
    <3>3. QED
      BY <2>2, <3>2
  <2>4. CASE calls[c].kind # "LOGIN"
    <3> DEFINE p == calls[c].token
               r == origin[p].root
    <3>1. /\ p \in Tokens /\ RowOK(p) /\ tokens[p].state # "absent"
          /\ tokens[p].user = calls[c].user
      BY <1>5, <2>4 DEF IInv, CallOK, Mint, Found
    <3>2. /\ r \in Tokens /\ origin[r].root = r
          /\ tokens[r].user = calls[c].user /\ tokens[r].state # "absent"
      BY <3>1 DEF RowOK, IInv
    <3>3. /\ r # t /\ origin'[r].root = r /\ tokens'[r].user = calls[c].user
          /\ origin'[t].root = r
      BY <1>1, <1>5, <2>1, <2>4, <3>2 DEF Kept, Mint, Root
    <3>4. origin[t].spentAt = None
      BY <1>1, <1>5 DEF RowOK, Mint
    <3>5. RowOK(t)'
      BY <2>1, <3>2, <3>3, <3>4 DEF RowOK, LiveRow
    <3>6. QED
      BY <2>2, <3>5
  <2>5. QED
    BY <2>3, <2>4, <2>2
<1>6. CASE clock' = clock /\ (Spent(t) \/ Restamped(t))
  <2>1. PICK s \in Nat : /\ s <= clock /\ clock <= s + Lag
                         /\ tokens'[t] = Stamped(tokens[t], s)
    BY <1>3, <1>6 DEF Spent, Restamped
  <2>2. /\ tokens'[t].state = "revoked" /\ tokens'[t].revokedAt = s
        /\ tokens'[t].user = tokens[t].user /\ tokens'[t].workspace = tokens[t].workspace
        /\ tokens[t].state # "absent" /\ origin'[t].root = origin[t].root
    BY <1>1, <1>6, <2>1 DEF Stamped, Rows, Spent, Restamped, SpentAt, Origins
  <2>3. \/ Spent(t) /\ origin'[t].spentAt = clock
        \/ Restamped(t) /\ origin'[t].spentAt = origin[t].spentAt
    BY <1>1, <1>6 DEF Spent, Restamped, SpentAt, Origins
  <2>4. RowOK(t)'
    <3>1. origin'[t].spentAt # None => /\ origin'[t].spentAt <= clock'
                                      /\ origin'[t].spentAt <= tokens'[t].revokedAt + Lag
      BY <1>1, <1>6, <2>1, <2>2, <2>3 DEF RowOK, Origins
    <3>2. QED
      BY <1>1, <1>7, <2>2, <3>1 DEF RowOK
  <2>5. StampOK(t)'
    <3>1. CASE Spent(t)
      BY <1>1, <2>1, <2>2, <2>3, <3>1 DEF StampOK, Spent, Restamped
    <3>2. CASE Restamped(t)
      <4>1. PICK d \in Calls : Logout(d, t)
        BY <3>2 DEF Restamped
      <4>2. calls'[d].kind = "LOGOUT" /\ calls'[d].token = t
        BY <1>1, <4>1 DEF Logout, Finish, NewCall
      <4>3. QED
        BY <4>2 DEF StampOK
    <3>3. QED
      BY <2>3, <3>1, <3>2
  <2>6. QED
    BY <2>4, <2>5
<1>8. QED
  BY <1>4, <1>5, <1>6, RowStep DEF Created

-----------------------------------------------------------------------------

\* What moves the members and the history of revocations.
LEMMA HistoryStep ==
  ASSUME IInv, [Next]_vars
  PROVE  /\ ended \subseteq ended' /\ overtaken \subseteq overtaken'
         /\ \/ members' = members
            \/ \E c \in Calls, u \in Users, w \in Workspaces : RemoveMember(c, u, w)
         /\ \/ ended' = ended
            \/ \E u \in Users, t0 \in Nat : RevokeAccount(u, t0) /\ clock' = clock
         /\ \/ overtaken' = overtaken
            \/ \E u \in Users, t0 \in Nat : RevokeAccount(u, t0)
            \/ \E c \in Calls, u \in Users, w \in Workspaces : RemoveMember(c, u, w)
<1>1. ASSUME NEW c \in Calls, RevokeFamily(c)
      PROVE  calls[c].user \in Users /\ calls[c].started \in Nat
  <2>1. calls[c].token \in Tokens /\ Found(c).state # "absent" /\ Found(c).user = calls[c].user
    BY <1>1 DEF IInv, CallOK, RevokeFamily
  <2>2. calls[c].user \in Users
    BY <2>1 DEF IInv, RowOK, Found
  <2>3. QED
    BY <2>2 DEF IInv, TypeOK, CallStates
<1>2. ASSUME NEW c \in Calls, Proceed(c)
      PROVE  /\ members' = members
             /\ UNCHANGED <<ended, overtaken>> \/ RevokeFamily(c)
  BY <1>2 DEF Proceed, FindUnusable, FindRaced, FindReplayed, FindLive, WinClaim,
     LoseClaim, FindMember, FindNoMember, Mint, RevokeFamily, ReportReuse, Turn, history
<1>3. ASSUME NEW c \in Calls, Request(c)
      PROVE  \/ UNCHANGED <<members, ended, overtaken>>
             \/ \E u \in Users : LogoutAll(c, u)
             \/ \E u \in Users, w \in Workspaces : RemoveMember(c, u, w)
  BY <1>3 DEF Request, SelectWorkspace, RefreshToken, SwitchWorkspace, Begin, Logout, history
<1>4. ASSUME NEW u, NEW t0, RevokeAccount(u, t0)
      PROVE  ended \subseteq ended' /\ overtaken \subseteq overtaken'
  BY <1>4 DEF RevokeAccount
<1>5. ASSUME NEW c, NEW u, NEW w, RemoveMember(c, u, w)
      PROVE  ended = ended' /\ overtaken \subseteq overtaken'
  BY <1>5 DEF RemoveMember
<1>6. ASSUME NEW c \in Calls, RevokeFamily(c)
      PROVE  /\ \E u \in Users, t0 \in Nat : RevokeAccount(u, t0)
             /\ members' = members /\ clock' = clock
  BY <1>1, <1>6 DEF RevokeFamily
<1>7. ASSUME NEW c \in Calls, NEW u \in Users, LogoutAll(c, u)
      PROVE  RevokeAccount(u, 0) /\ members' = members /\ clock' = clock
  BY <1>7 DEF LogoutAll
<1>8. CASE UNCHANGED <<members, ended, overtaken>>
  BY <1>8
<1>9. CASE \E c \in Calls : RevokeFamily(c) \/ \E u \in Users : LogoutAll(c, u)
  BY <1>4, <1>6, <1>7, <1>9
<1>10. CASE \E c \in Calls, u \in Users, w \in Workspaces : RemoveMember(c, u, w)
  BY <1>5, <1>10
<1>11. QED
  BY <1>2, <1>3, <1>8, <1>9, <1>10 DEF Next, vars, Tick, Crash, Turn, history

\* The membership a call has read holds still, or the call is overtaken.
LEMMA SeatsKept ==
  ASSUME IInv, [Next]_vars, NEW d \in Calls, calls[d].pc = "mint",
         calls'[d].user = calls[d].user, calls'[d].workspace = calls[d].workspace
  PROVE  IsMember(d)' \/ d \in overtaken'
<1>1. IsMember(d) \/ d \in overtaken
  BY DEF IInv, CallOK
<1>2. CASE members' = members
  BY <1>1, <1>2, HistoryStep DEF IsMember
<1>3. ASSUME NEW c \in Calls, NEW u \in Users, NEW w \in Workspaces, RemoveMember(c, u, w)
      PROVE  IsMember(d)' \/ d \in overtaken'
  <2>1. CASE calls[d].user = u /\ calls[d].workspace = w
    BY <1>3, <2>1 DEF RemoveMember
  <2>2. CASE ~(calls[d].user = u /\ calls[d].workspace = w)
    <3>1. <<calls[d].user, calls[d].workspace>> # <<u, w>>
      BY <2>2
    <3>2. QED
      BY <1>1, <1>3, <3>1, HistoryStep DEF RemoveMember, IsMember
  <2>3. QED
    BY <2>1, <2>2
<1>4. QED
  BY <1>2, <1>3, HistoryStep

\* The state in which a call begins.
LEMMA Begun ==
  ASSUME calls \in [Calls -> CallStates], NEW d \in Calls, Request(d)
  PROVE  \/ \E k \in Kinds, t \in Tokens \cup {None}, u \in Users \cup {None},
               w \in Workspaces \cup {None} :
              calls'[d] = NewCall("done", k, t, u, w, clock)
         \/ \E u \in Users, w \in Workspaces :
              calls'[d] = NewCall("member", "LOGIN", None, u, w, clock)
         \/ \E t \in Tokens : calls'[d] = NewCall("read", "REFRESH", t, None, None, clock)
         \/ \E t \in Tokens, w \in Workspaces :
              calls'[d] = NewCall("read", "SWITCH", t, None, w, clock)
<1>1. ASSUME NEW k \in Kinds, NEW t \in Tokens \cup {None}, NEW u \in Users \cup {None},
             NEW w \in Workspaces \cup {None}, Finish(d, k, t, u, w)
      PROVE  calls'[d] = NewCall("done", k, t, u, w, clock)
  BY <1>1 DEF Finish
<1>2. ASSUME NEW k, NEW pc, NEW t, NEW u, NEW w, Begin(d, k, pc, t, u, w)
      PROVE  calls'[d] = NewCall(pc, k, t, u, w, clock)
  BY <1>2 DEF Begin
<1>3. ASSUME NEW u \in Users, NEW w \in Workspaces, SelectWorkspace(d, u, w)
      PROVE  calls'[d] = NewCall("member", "LOGIN", None, u, w, clock)
  BY <1>2, <1>3 DEF SelectWorkspace
<1>4. ASSUME NEW t \in Tokens, RefreshToken(d, t)
      PROVE  calls'[d] = NewCall("read", "REFRESH", t, None, None, clock)
  BY <1>2, <1>4 DEF RefreshToken
<1>5. ASSUME NEW t \in Tokens, NEW w \in Workspaces, SwitchWorkspace(d, t, w)
      PROVE  calls'[d] = NewCall("read", "SWITCH", t, None, w, clock)
  BY <1>2, <1>5 DEF SwitchWorkspace
<1>6. "LOGOUT" \in Kinds /\ "LOGOUT_ALL" \in Kinds /\ "REMOVE" \in Kinds
  BY DEF Kinds
<1> DEFINE Done == \E k \in Kinds, t \in Tokens \cup {None}, u \in Users \cup {None},
                     w \in Workspaces \cup {None} :
                     calls'[d] = NewCall("done", k, t, u, w, clock)
<1>7. ASSUME NEW t \in Tokens, Logout(d, t) PROVE Done
  BY <1>1, <1>6, <1>7 DEF Logout
<1>8. ASSUME NEW u \in Users, LogoutAll(d, u) PROVE Done
  BY <1>1, <1>6, <1>8 DEF LogoutAll
<1>9. ASSUME NEW u \in Users, NEW w \in Workspaces, RemoveMember(d, u, w) PROVE Done
  BY <1>1, <1>6, <1>9 DEF RemoveMember
<1> HIDE DEF Done
<1>10. \/ Done
       \/ \E u \in Users, w \in Workspaces :
            calls'[d] = NewCall("member", "LOGIN", None, u, w, clock)
       \/ \E t \in Tokens : calls'[d] = NewCall("read", "REFRESH", t, None, None, clock)
       \/ \E t \in Tokens, w \in Workspaces :
            calls'[d] = NewCall("read", "SWITCH", t, None, w, clock)
  BY <1>3, <1>4, <1>5, <1>7, <1>8, <1>9 DEF Request
<1>11. QED
  BY <1>10 DEF Done

\* What a call knows stays true: of itself while it waits, and of its next
\* state when it acts.
LEMMA CallsStep == IInv /\ [Next]_vars => \A d \in Calls : CallOK(d)'
<1> SUFFICES ASSUME IInv, [Next]_vars, NEW d \in Calls PROVE CallOK(d)'
  OBVIOUS
<1> USE NullAssumption
<1>1. /\ calls \in [Calls -> CallStates] /\ calls' \in [Calls -> CallStates]
      /\ calls[d] \in CallStates /\ calls'[d] \in CallStates
      /\ clock \in Nat /\ clock' \in Nat /\ clock <= clock' /\ CallOK(d)
  BY TypeStep, ClockStep DEF IInv, TypeOK
<1>2. ASSUME calls[d].token \in Tokens, calls'[d].token = calls[d].token
      PROVE  /\ RowOK(calls[d].token) /\ Kept(calls[d].token) /\ Found(d) \in Rows
             /\ tokens[calls[d].token] = Found(d)
             /\ tokens'[calls[d].token] = Found(d)' /\ Found(d)' \in Rows
  BY <1>2, RowsKept, TypeStep DEF IInv, TypeOK, Found
<1>3. CASE calls'[d] = calls[d]
  <2>1. CASE calls[d].pc \in {"claim", "family", "report", "reported", "benign"}
             \/ (calls[d].pc \in {"member", "mint"} /\ calls[d].kind # "LOGIN")
    <3>1. calls[d].token \in Tokens
      BY <1>1, <2>1 DEF CallOK
    <3>2. /\ Found(d)'.state # "absent" /\ Found(d)'.user = Found(d).user
          /\ Found(d).state = "revoked" => Found(d)'.state = "revoked"
          /\ origin'[calls[d].token].root = origin[calls[d].token].root
      BY <1>1, <1>2, <1>3, <2>1, <3>1 DEF CallOK, Kept, Rows
    <3>3. ended \subseteq ended'
      BY HistoryStep
    <3>4. calls[d].pc = "mint" => IsMember(d)' \/ d \in overtaken'
      BY <1>3, SeatsKept
    <3>5. QED
      BY <1>1, <1>3, <2>1, <3>1, <3>2, <3>3, <3>4 DEF CallOK, CallStates
  <2>2. CASE ~(calls[d].pc \in {"claim", "family", "report", "reported", "benign"}
               \/ (calls[d].pc \in {"member", "mint"} /\ calls[d].kind # "LOGIN"))
    <3>1. calls[d].pc = "mint" => IsMember(d)' \/ d \in overtaken'
      BY <1>3, SeatsKept
    <3>2. QED
      BY <1>1, <1>3, <2>2, <3>1 DEF CallOK, CallStates
  <2>3. QED
    BY <2>1, <2>2
<1>4. CASE Request(d)
  <2>1. \/ calls'[d].pc = "done"
        \/ /\ calls'[d].pc = "member" /\ calls'[d].kind = "LOGIN"
           /\ calls'[d].user \in Users /\ calls'[d].workspace \in Workspaces
        \/ /\ calls'[d].pc = "read" /\ calls'[d].kind \in {"REFRESH", "SWITCH"}
           /\ calls'[d].token \in Tokens
           /\ calls'[d].kind = "SWITCH" => calls'[d].workspace \in Workspaces
    BY <1>1, <1>4, Begun DEF NewCall
  <2>2. calls'[d].started = clock
    BY <1>1, <1>4, Begun DEF NewCall
  <2>3. QED
    BY <1>1, <2>1, <2>2 DEF CallOK
<1>5. ASSUME Advances(d), NEW pc, Goto(d, pc)
      PROVE  /\ calls'[d].pc = pc /\ calls'[d].user = calls[d].user
             /\ calls'[d].workspace = calls[d].workspace
             /\ calls'[d].token = calls[d].token /\ calls'[d].kind = calls[d].kind
             /\ calls'[d].started = calls[d].started /\ calls[d].kind # "LOGOUT"
  BY <1>1, <1>5 DEF Advances, Goto, CallOK, CallStates, Ended
<1>6. ASSUME Advances(d), Goto(d, "refused") \/ Goto(d, "done") \/ Goto(d, "crashed")
      PROVE  CallOK(d)'
  BY <1>1, <1>5, <1>6 DEF CallOK, CallStates
<1>7. CASE Advances(d) /\ WinClaim(d)
  <2>1. /\ calls[d].token \in Tokens /\ Found(d).user = calls[d].user
        /\ Found(d).state = "live"
        /\ calls[d].kind \in {"REFRESH", "SWITCH"}
        /\ calls[d].user \in Users /\ calls[d].workspace \in Workspaces
    BY <1>1, <1>7 DEF WinClaim, CallOK, ClaimMatches
  <2>2. tokens'[calls[d].token].state = "revoked"
    <3>1. PICK s \in Stamps(calls[d].started) : Revoke({calls[d].token}, s)
      BY <1>7 DEF WinClaim
    <3>2. tokens'[calls[d].token] = Stamped(Found(d), s)
      BY <2>1, <3>1 DEF Revoke, Stamped, Found
    <3>3. s \in Nat
      BY <1>1 DEF Stamps
    <3>4. QED
      BY <1>2, <1>7, <2>1, <3>2, <3>3, RowUpdates DEF Advances
  <2>3. QED
    BY <1>1, <1>2, <1>5, <1>7, <2>1, <2>2 DEF WinClaim, CallOK, Kept
<1>8. CASE Advances(d) /\ FindMember(d)
  <2>1. /\ calls[d].user \in Users /\ calls[d].workspace \in Workspaces
        /\ calls[d].kind \in {"LOGIN", "REFRESH", "SWITCH"}
        /\ UNCHANGED <<clock, members, tokens, overtaken>>
    BY <1>1, <1>8 DEF FindMember, Turn, CallOK, history
  <2>2. IsMember(d)'
    BY <1>5, <1>8, <2>1 DEF FindMember, Turn, IsMember
  <2>3. calls[d].kind # "LOGIN" => /\ calls[d].token \in Tokens /\ Found(d)' = Found(d)
                                  /\ Found(d).state = "revoked"
                                  /\ Found(d).user = calls[d].user
    BY <1>1, <1>5, <1>8, <2>1 DEF FindMember, Turn, CallOK, Found
  <2>4. QED
    BY <1>1, <1>5, <1>8, <2>1, <2>2, <2>3 DEF FindMember, Turn, CallOK
<1>9. CASE Advances(d) /\ FindRaced(d)
  <2>1. /\ calls[d].token \in Tokens /\ calls[d].kind \in {"REFRESH", "SWITCH"}
        /\ Found(d)' = Found(d) /\ Found(d).state = "revoked"
    BY <1>1, <1>5, <1>9 DEF FindRaced, Reading, Turn, CallOK, Found
  <2>2. QED
    BY <1>1, <1>5, <1>9, <2>1 DEF FindRaced, Turn, CallOK
<1>10. CASE Advances(d) /\ (FindReplayed(d) \/ FindLive(d))
  <2>1. /\ calls[d].token \in Tokens /\ calls[d].kind \in {"REFRESH", "SWITCH"}
        /\ calls[d].kind = "SWITCH" => calls[d].workspace \in Workspaces
        /\ calls'[d].token = calls[d].token /\ calls'[d].kind = calls[d].kind
        /\ calls'[d].started = calls[d].started
        /\ UNCHANGED <<clock, tokens>>
    BY <1>1, <1>10 DEF FindReplayed, FindLive, Reading, CallOK, Advances
  <2>2. /\ Found(d)' = Found(d) /\ Found(d).state # "absent"
        /\ Found(d).user \in Users /\ Found(d).workspace \in Workspaces
    BY <1>2, <1>10, <2>1 DEF Found, RowOK, FindReplayed, FindLive
  <2>3. CASE FindReplayed(d)
    <3>1. calls'[d].pc = "family" /\ calls'[d].user = Found(d).user
          /\ Found(d).state = "revoked"
      BY <1>1, <2>3 DEF FindReplayed, Owned, CallStates
    <3>2. QED
      BY <1>1, <2>1, <2>2, <3>1 DEF CallOK
  <2>4. CASE FindLive(d)
    <3>1. calls'[d].pc = "claim" /\ calls'[d].user = Found(d).user
          /\ calls'[d].workspace = IF calls[d].kind = "SWITCH" THEN calls[d].workspace
                                                             ELSE Found(d).workspace
      BY <1>1, <2>4 DEF FindLive, Owned, CallStates
    <3>2. QED
      BY <1>1, <2>1, <2>2, <3>1 DEF CallOK
  <2>5. QED
    BY <1>10, <2>3, <2>4
<1>11. CASE Advances(d) /\ (RevokeFamily(d) \/ ReportReuse(d))
  <2>1. /\ calls[d].token \in Tokens /\ calls[d].kind \in {"REFRESH", "SWITCH"}
        /\ Found(d).state = "revoked" /\ Found(d).user = calls[d].user
    BY <1>1, <1>11 DEF RevokeFamily, ReportReuse, CallOK
  <2>2. /\ Found(d)'.state = "revoked" /\ Found(d)'.user = calls[d].user
        /\ origin'[calls[d].token].root = origin[calls[d].token].root
        /\ calls'[d].token = calls[d].token
    BY <1>2, <1>11, <2>1 DEF Kept, Rows, Advances
  <2>3. CASE RevokeFamily(d)
    <3>1. /\ origin[calls[d].token].root \in ended'
          /\ Goto(d, "report")
      BY <2>1, <2>3 DEF RevokeFamily, RevokeAccount, Found
    <3>2. calls'[d].pc = "report" /\ calls'[d].kind = calls[d].kind
          /\ calls'[d].started = calls[d].started /\ calls'[d].user = calls[d].user
      BY <1>5, <1>11, <3>1
    <3>3. QED
      BY <1>1, <2>1, <2>2, <3>1, <3>2 DEF CallOK, CallStates
  <2>4. CASE ReportReuse(d)
    <3>1. origin[calls[d].token].root \in ended'
      BY <1>1, <2>4, HistoryStep DEF ReportReuse, CallOK
    <3>2. CASE Goto(d, "reported")
      <4>1. calls'[d].pc = "reported" /\ calls'[d].kind = calls[d].kind
            /\ calls'[d].started = calls[d].started /\ calls'[d].user = calls[d].user
        BY <1>5, <1>11, <3>2
      <4>2. QED
        BY <1>1, <2>1, <2>2, <3>1, <4>1 DEF CallOK, CallStates
    <3>3. QED
      BY <1>6, <1>11, <2>4, <3>2 DEF ReportReuse, Turn
  <2>5. QED
    BY <1>11, <2>3, <2>4
<1>12. CASE Advances(d) /\ (\/ FindUnusable(d) \/ LoseClaim(d) \/ FindNoMember(d)
                           \/ Crash(d) \/ \E t \in Tokens : Mint(d, t))
  BY <1>6, <1>12 DEF FindUnusable, LoseClaim, FindNoMember, Crash, Mint, Turn
<1>13. QED
  BY <1>3, <1>4, <1>7, <1>8, <1>9, <1>10, <1>11, <1>12, CallStep DEF Proceed, IInv

-----------------------------------------------------------------------------

\* A root is a row that exists.
LEMMA RootExists ==
  ASSUME IInv, NEW x \in Tokens, tokens[x].state # "absent"
  PROVE  /\ origin[x].root \in Tokens
         /\ tokens[origin[x].root].state # "absent"
         /\ tokens[origin[x].root].user = tokens[x].user
<1>1. /\ origin[x].root \in Tokens /\ origin[origin[x].root].root = origin[x].root
      /\ tokens[origin[x].root].user = tokens[x].user
  BY DEF IInv, RowOK
<1>2. RowOK(origin[x].root) /\ origin[x].root # None
  BY <1>1, NullAssumption DEF IInv
<1>3. QED
  BY <1>1, <1>2 DEF RowOK

\* A call that holds a baton has spent the row that carried it.
LEMMA HolderFacts ==
  ASSUME IInv, NEW d \in Calls, NEW r, Holds(d, r)
  PROVE  /\ calls[d].token \in Tokens /\ r = origin[calls[d].token].root
         /\ tokens[calls[d].token].state = "revoked"
         /\ tokens[calls[d].token].user = calls[d].user
  BY DEF IInv, CallOK, Holds, Found

\* A claim is the only way for a call to come to hold a baton.
LEMMA HoldsStep ==
  ASSUME IInv, [Next]_vars, NEW d \in Calls, NEW r, Holds(d, r)'
  PROVE  \/ Holds(d, r)
         \/ /\ WinClaim(d) /\ calls[d].token \in Tokens
            /\ tokens[calls[d].token].state = "live"
            /\ tokens'[calls[d].token].state # "live"
            /\ origin[calls[d].token].root = r
<1>1. calls \in [Calls -> CallStates] /\ calls[d] \in CallStates /\ CallOK(d) /\ CallOK(d)'
  BY CallsStep DEF IInv, TypeOK
<1>2. /\ calls'[d].pc \in {"member", "mint"} /\ calls'[d].kind # "LOGIN"
      /\ calls'[d].token \in Tokens /\ origin'[calls'[d].token].root = r
      /\ tokens'[calls'[d].token].state = "revoked"
  BY <1>1 DEF Holds, CallOK, Found
<1>3. ASSUME calls[d].pc \in {"member", "mint"}, calls[d].kind = calls'[d].kind,
             calls[d].token = calls'[d].token
      PROVE  Holds(d, r)
  <2>1. tokens[calls[d].token].state = "revoked" /\ Kept(calls[d].token)
    BY <1>1, <1>2, <1>3, RowsKept DEF CallOK, Found
  <2>2. QED
    BY <1>2, <1>3, <2>1 DEF Kept, Holds
<1>4. CASE calls'[d] = calls[d]
  BY <1>2, <1>3, <1>4
<1>5. ASSUME Request(d) PROVE FALSE
  <2>1. calls'[d].pc \in {"done", "read"} \/ calls'[d].kind = "LOGIN"
    <3> DEFINE Shape(pc, k) == \E t, u, w : calls'[d] = NewCall(pc, k, t, u, w, clock)
    <3>1. \/ \E k \in Kinds : Shape("done", k)
          \/ Shape("member", "LOGIN") \/ Shape("read", "REFRESH") \/ Shape("read", "SWITCH")
      BY <1>1, <1>5, Begun
    <3>2. ASSUME NEW pc, NEW k, Shape(pc, k) PROVE calls'[d].pc = pc /\ calls'[d].kind = k
      BY <3>2 DEF NewCall
    <3>3. QED
      BY <3>1, <3>2
  <2>2. QED
    BY <1>2, <2>1
<1>6. CASE Advances(d) /\ WinClaim(d)
  <2>1. /\ calls[d].token \in Tokens /\ tokens[calls[d].token].state = "live"
        /\ calls'[d].token = calls[d].token
    BY <1>1, <1>6 DEF WinClaim, ClaimMatches, CallOK, Found, Advances
  <2>2. Kept(calls[d].token)
    BY <2>1, RowsKept
  <2>3. QED
    BY <1>2, <1>6, <2>1, <2>2 DEF Kept
<1>7. CASE Advances(d) /\ FindMember(d)
  BY <1>2, <1>3, <1>7 DEF FindMember, Advances
<1>8. ASSUME Advances(d), Proceed(d) \/ Crash(d), ~WinClaim(d), ~FindMember(d)
      PROVE  FALSE
  <2>1. ASSUME NEW pc, Goto(d, pc) PROVE calls'[d].pc = pc
    BY <1>1, <2>1 DEF Goto, CallStates
  <2>2. ASSUME NEW pc, NEW w, Owned(d, pc, w) PROVE calls'[d].pc = pc
    BY <1>1, <2>2 DEF Owned, CallStates
  <2>3. QED
    BY <1>2, <1>8, <2>1, <2>2 DEF Proceed, Crash, FindUnusable, FindRaced, FindReplayed,
       FindLive, LoseClaim, FindNoMember, Mint, RevokeFamily, ReportReuse, Turn
<1>9. QED
  BY <1>4, <1>5, <1>6, <1>7, <1>8, CallStep DEF IInv

\* Call c issues row t, a successor or the first row of a login.
Issues(c, t) ==
  /\ tokens[t].state = "absent" /\ origin'[t].root = Root(c, t) /\ origin'[t].minter = c
  /\ tokens'[t].user = calls[c].user /\ tokens'[t].workspace = calls[c].workspace
  /\ calls[c].pc = "mint" /\ calls'[c].pc = "done"
  /\ \A x \in Tokens \ {t} : tokens'[x] = tokens[x] /\ origin'[x] = origin[x]
  /\ calls[c].kind # "LOGIN" => Holds(c, Root(c, t))
  /\ UNCHANGED <<members, ended, overtaken>>

LEMMA MintFacts ==
  ASSUME IInv, NEW c \in Calls, NEW t \in Tokens, Mint(c, t)
  PROVE  Issues(c, t)
<1>1. /\ tokens \in [Tokens -> Rows] /\ origin \in [Tokens -> Origins]
      /\ calls \in [Calls -> CallStates]
  BY DEF IInv, TypeOK
<1>2. calls'[c].pc = "done"
  BY <1>1 DEF Mint, Goto, CallStates
<1>3. origin'[t].root = Root(c, t) /\ origin'[t].minter = c
  BY <1>1 DEF Mint, Origins
<1>4. tokens'[t].user = calls[c].user /\ tokens'[t].workspace = calls[c].workspace
  BY <1>1 DEF Mint, LiveRow
<1>5. calls[c].kind # "LOGIN" => Holds(c, Root(c, t))
  BY DEF Mint, Holds, Root
<1>6. \A x \in Tokens \ {t} : tokens'[x] = tokens[x] /\ origin'[x] = origin[x]
  BY <1>1 DEF Mint
<1>7. QED
  BY <1>2, <1>3, <1>4, <1>5, <1>6 DEF Mint, Issues

\* A live row was live before, or a call has just issued it.
LEMMA LiveStep ==
  ASSUME IInv, [Next]_vars, NEW t \in Tokens, tokens'[t].state = "live"
  PROVE  \/ /\ tokens[t].state = "live" /\ Kept(t)
            /\ origin'[t].root = origin[t].root
         \/ \E c \in Calls : Issues(c, t)
<1>1. tokens[t] \in Rows /\ Kept(t)
  BY RowsKept DEF IInv, TypeOK
<1>2. CASE tokens[t].state # "absent"
  BY <1>1, <1>2 DEF Kept
<1>3. CASE tokens[t].state = "absent"
  BY <1>3, RowStep, MintFacts DEF Created, Spent, Restamped
<1>4. QED
  BY <1>2, <1>3

-----------------------------------------------------------------------------

\* One live token for each login, and no other call that could issue one.
LEMMA AmplificationStep == IInv /\ [Next]_vars => NoAmplification'
<1> SUFFICES ASSUME IInv, [Next]_vars, NEW t \in Tokens, tokens'[t].state = "live",
                    NEW r, r = origin'[t].root
             PROVE  /\ \A x \in Tokens :
                         tokens'[x].state = "live" /\ origin'[x].root = r => x = t
                    /\ \A d \in Calls : ~Holds(d, r)'
  BY DEF NoAmplification, Holds
<1> USE NullAssumption
<1>1. ASSUME NEW x \in Tokens, tokens[x].state # "absent", NEW c \in Calls, NEW y \in Tokens,
             Issues(c, y), calls[c].kind = "LOGIN"
      PROVE  origin[x].root # origin'[y].root
  BY <1>1, RootExists DEF Issues, Root
<1>2. ASSUME NEW x \in Tokens, tokens[x].state = "live", NEW c \in Calls, NEW y \in Tokens,
             Issues(c, y)
      PROVE  origin[x].root # origin'[y].root
  BY <1>1, <1>2 DEF Issues, IInv, NoAmplification
<1>3. ASSUME NEW x \in Tokens, tokens'[x].state = "live", origin'[x].root = r PROVE x = t
  <2>1. CASE tokens[x].state = "live" /\ tokens[t].state = "live"
    BY <1>3, <2>1, RowsKept DEF IInv, NoAmplification, Kept
  <2>2. ASSUME tokens[x].state = "live", NEW c \in Calls, Issues(c, t), x # t PROVE FALSE
    <3>1. origin'[x] = origin[x]
      BY <2>2 DEF Issues
    <3>2. QED
      BY <1>2, <1>3, <2>2, <3>1
  <2>3. ASSUME tokens[t].state = "live", NEW c \in Calls, Issues(c, x), x # t PROVE FALSE
    <3>1. origin'[t] = origin[t]
      BY <2>3 DEF Issues
    <3>2. QED
      BY <1>2, <1>3, <2>3, <3>1
  <2>4. ASSUME NEW c \in Calls, NEW d \in Calls, Issues(c, x), Issues(d, t), x # t
        PROVE  FALSE
    <3>1. tokens'[x] = tokens[x] /\ tokens[x].state = "absent"
      BY <2>4 DEF Issues
    <3>2. QED
      BY <1>3, <3>1
  <2>5. QED
    BY <1>3, <2>1, <2>2, <2>3, <2>4, LiveStep
<1>4. ASSUME NEW d \in Calls, Holds(d, r)' PROVE FALSE
  <2>1. CASE tokens[t].state = "live" /\ origin'[t].root = origin[t].root
    BY <1>4, <2>1, HoldsStep DEF IInv, NoAmplification
  <2>2. ASSUME NEW c \in Calls, Issues(c, t) PROVE FALSE
    <3>1. Holds(d, r)
      BY <1>4, <2>2, HoldsStep DEF Issues
    <3>2. /\ calls[d].token \in Tokens /\ r = origin[calls[d].token].root
          /\ tokens[calls[d].token].state = "revoked"
      BY <3>1, HolderFacts
    <3>3. calls[c].kind # "LOGIN"
      BY <1>1, <2>2, <3>2
    <3>4. c = d
      BY <2>2, <3>1, <3>2, <3>3, RootExists DEF Issues, IInv, OneCarrier
    <3>5. QED
      BY <1>4, <2>2, <3>4 DEF Issues, Holds
  <2>3. QED
    BY <2>1, <2>2, LiveStep
<1>5. QED
  BY <1>3, <1>4

\* Only the winner of a claim comes to hold the baton, and it was with the client.
LEMMA CarrierStep == IInv /\ [Next]_vars => OneCarrier'
<1> SUFFICES ASSUME IInv, [Next]_vars, NEW c \in Calls, NEW d \in Calls, NEW r \in Tokens,
                    Holds(c, r)', Holds(d, r)'
             PROVE  c = d
  BY DEF OneCarrier, Holds
<1>1. CASE Holds(c, r) /\ Holds(d, r)
  BY <1>1 DEF IInv, OneCarrier
<1>2. ASSUME NEW x \in Calls, NEW y \in Calls, Holds(x, r), WinClaim(y),
             calls[y].token \in Tokens, tokens[calls[y].token].state = "live",
             origin[calls[y].token].root = r
      PROVE  FALSE
  BY <1>2 DEF IInv, NoAmplification
<1>3. CASE WinClaim(c) /\ WinClaim(d)
  <2>1. SUFFICES ASSUME c # d PROVE FALSE
    OBVIOUS
  <2>2. calls'[d].pc = "claim"
    BY <1>3, <2>1 DEF WinClaim, Goto, IInv, TypeOK
  <2>3. QED
    BY <2>2 DEF Holds
<1>4. QED
  BY <1>1, <1>2, <1>3, HoldsStep

\* A call past its claim does not come back to it.
LEMMA PastClaim ==
  ASSUME IInv, [Next]_vars, NEW d \in Calls, calls[d].pc \notin {"idle", "read", "claim"}
  PROVE  /\ calls'[d].pc \notin {"idle", "read", "claim"}
         /\ calls'[d].kind = calls[d].kind /\ calls'[d].token = calls[d].token
<1>1. calls \in [Calls -> CallStates]
  BY DEF IInv, TypeOK
<1>2. ASSUME NEW pc, Goto(d, pc), pc \notin {"idle", "read", "claim"}
      PROVE  calls'[d].pc \notin {"idle", "read", "claim"}
  BY <1>1, <1>2 DEF Goto, CallStates
<1>3. ASSUME Proceed(d) \/ Crash(d)
      PROVE  calls'[d].pc \notin {"idle", "read", "claim"}
  BY <1>2, <1>3 DEF Proceed, Crash, FindUnusable, FindRaced, FindReplayed, FindLive,
     WinClaim, LoseClaim, FindMember, FindNoMember, Mint, RevokeFamily, ReportReuse,
     Turn, Reading
<1>4. QED
  BY <1>3, CallStep DEF Advances, IInv

\* A login that was ended is carried by nobody who did not carry it before.
LEMMA CarriedStep ==
  ASSUME IInv, [Next]_vars, NEW r \in Tokens, tokens[r].state # "absent", Carried(r)'
  PROVE  Carried(r)
<1>1. ASSUME NEW t \in Tokens, tokens'[t].state = "live", origin'[t].root = r
      PROVE  Carried(r)
  <2>1. CASE tokens[t].state = "live" /\ origin'[t].root = origin[t].root
    BY <1>1, <2>1 DEF Carried
  <2>2. ASSUME NEW c \in Calls, Issues(c, t) PROVE Carried(r)
    BY <1>1, <2>2 DEF Issues, Root, Carried
  <2>3. QED
    BY <1>1, <2>1, <2>2, LiveStep
<1>2. ASSUME NEW d \in Calls, Holds(d, r)' PROVE Carried(r)
  BY <1>2, HoldsStep DEF Carried
<1>3. QED
  BY <1>1, <1>2 DEF Carried

LEMMA EndedStep == IInv /\ [Next]_vars => EndedOK'
<1> SUFFICES ASSUME IInv, [Next]_vars PROVE EndedOK'
  OBVIOUS
<1> USE NullAssumption
<1>1. /\ \A r \in ended : r \in Tokens /\ tokens[r].state # "absent"
      /\ \A x \in Tokens : Kept(x) /\ RowOK(x)
      /\ \A c \in overtaken : c \in Calls /\ calls[c].pc \notin {"idle", "read", "claim"}
      /\ overtaken' \subseteq Calls /\ \A c \in Calls : CallOK(c)'
      /\ overtaken \subseteq overtaken'
  BY RowsKept, TypeStep, CallsStep, HistoryStep DEF IInv, EndedOK, TypeOK
<1> DEFINE Witnessed(r) == \E c \in overtaken' : /\ calls'[c].kind # "LOGIN"
                                                 /\ calls'[c].token \in Tokens
                                                 /\ origin'[calls'[c].token].root = r
<1>2. ASSUME NEW u \in Users, NEW x \in Tokens, tokens[x].user = u
      PROVE  /\ origin[x].root \in Tokens /\ tokens[origin[x].root].state # "absent"
             /\ tokens[origin[x].root].user = u
  <2>1. tokens[x].state # "absent"
    BY <1>1, <1>2 DEF RowOK
  <2>2. QED
    BY <1>2, <2>1, RootExists
<1>3. ASSUME NEW r \in ended'
      PROVE  \/ r \in ended
             \/ \E u \in Users, t0 \in Nat, x \in Tokens :
                  RevokeAccount(u, t0) /\ r = origin[x].root /\ tokens[x].user = u
  BY <1>3, HistoryStep DEF RevokeAccount
<1>4. ASSUME NEW r \in ended' PROVE r \in Tokens /\ tokens'[r].state # "absent"
  BY <1>1, <1>2, <1>3 DEF Kept
<1>5. ASSUME NEW r \in ended, Carried(r)' PROVE Witnessed(r)
  <2>1. PICK c \in overtaken : /\ calls[c].kind # "LOGIN" /\ calls[c].token \in Tokens
                              /\ origin[calls[c].token].root = r
    BY <1>1, <1>5, CarriedStep DEF IInv, EndedOK
  <2>2. calls'[c].kind = calls[c].kind /\ calls'[c].token = calls[c].token
    BY <1>1, PastClaim
  <2>3. tokens[calls[c].token].state # "absent"
    BY <1>1, <2>1 DEF RowOK
  <2>4. origin'[calls[c].token].root = r
    BY <1>1, <2>1, <2>3 DEF Kept
  <2>5. QED
    BY <1>1, <2>1, <2>2, <2>4
<1>6. ASSUME NEW u \in Users, NEW t0 \in Nat, NEW x \in Tokens, RevokeAccount(u, t0),
             tokens[x].user = u, NEW r, r = origin[x].root, r \notin ended, Carried(r)'
      PROVE  Witnessed(r)
  <2>1. r \in Tokens /\ tokens[r].user = u /\ tokens[r].state # "absent"
    BY <1>2, <1>6
  <2>2. r \in ended'
    BY <1>6 DEF RevokeAccount
  <2>3. ASSUME NEW t \in Tokens, tokens'[t].state = "live", origin'[t].root = r
        PROVE  FALSE
    <3>1. tokens[t].state = "live" /\ origin[t].root = r
      BY <1>6, <2>2, <2>3, LiveStep DEF Issues
    <3>2. t \in LiveOf(u)
      BY <2>1, <3>1, RootExists DEF LiveOf
    <3>3. PICK s \in Stamps(t0) : Revoke(LiveOf(u), s)
      BY <1>6 DEF RevokeAccount
    <3>4. tokens'[t] = Stamped(tokens[t], s)
      BY <3>2, <3>3 DEF Revoke, Stamped
    <3>5. s \in Nat /\ tokens[t] \in Rows
      BY DEF Stamps, IInv, TypeOK
    <3>6. QED
      BY <2>3, <3>4, <3>5, RowUpdates
  <2>4. ASSUME NEW d \in Calls, Holds(d, r)' PROVE Witnessed(r)
    <3>1. Holds(d, r)
      BY <1>6, <2>2, <2>4, HoldsStep DEF WinClaim
    <3>2. /\ calls[d].token \in Tokens /\ origin[calls[d].token].root = r
          /\ tokens[calls[d].token].state # "absent"
          /\ tokens[calls[d].token].user = calls[d].user
      BY <3>1, HolderFacts
    <3>3. calls[d].user = u
      BY <2>1, <3>2, RootExists
    <3>4. d \in overtaken'
      BY <1>6, <3>1, <3>3 DEF RevokeAccount, Holds
    <3>5. calls'[d].token \in Tokens
      BY <1>1, <2>4 DEF Holds, CallOK
    <3>6. QED
      BY <2>4, <3>4, <3>5 DEF Holds
  <2>5. QED
    BY <1>6, <2>3, <2>4 DEF Carried
<1>7. ASSUME NEW r \in ended', Carried(r)' PROVE Witnessed(r)
  BY <1>3, <1>5, <1>6, <1>7
<1>8. ASSUME NEW c \in overtaken' PROVE calls'[c].pc \notin {"idle", "read", "claim"}
  <2>1. calls[c].pc \notin {"idle", "read", "claim"}
    BY <1>1, <1>8, HistoryStep DEF RevokeAccount, RemoveMember
  <2>2. QED
    BY <1>1, <2>1, PastClaim
<1>9. QED
  BY <1>4, <1>7, <1>8 DEF EndedOK

\* A removal takes the tokens of the seat with it, but for those of calls that
\* read the membership before.
LEMMA RemovedStep == IInv /\ [Next]_vars => RemovedHoldNoToken'
<1> SUFFICES ASSUME IInv, [Next]_vars, NEW t \in Tokens, tokens'[t].state = "live",
                    <<tokens'[t].user, tokens'[t].workspace>> \notin members'
             PROVE  origin'[t].minter \in overtaken'
  BY DEF RemovedHoldNoToken
<1>1. overtaken \subseteq overtaken' /\ tokens[t] \in Rows
  BY HistoryStep DEF IInv, TypeOK
<1>2. ASSUME tokens[t].state = "live", Kept(t) PROVE origin'[t].minter \in overtaken'
  <2>1. /\ tokens'[t].user = tokens[t].user /\ tokens'[t].workspace = tokens[t].workspace
        /\ origin'[t].minter = origin[t].minter
    BY <1>2 DEF Kept
  <2>2. CASE members' = members
    BY <1>1, <1>2, <2>1, <2>2 DEF IInv, RemovedHoldNoToken
  <2>3. ASSUME NEW c \in Calls, NEW u \in Users, NEW w \in Workspaces, RemoveMember(c, u, w)
        PROVE  origin'[t].minter \in overtaken'
    <3>1. CASE tokens[t].user = u /\ tokens[t].workspace = w
      <4>1. t \in RemovedTokens(u, w)
        BY <1>2, <3>1 DEF RemovedTokens, LiveOf
      <4>2. PICK s \in Stamps(0) : Revoke(RemovedTokens(u, w), s)
        BY <2>3 DEF RemoveMember
      <4>3. tokens'[t] = Stamped(tokens[t], s)
        BY <4>1, <4>2 DEF Revoke, Stamped
      <4>4. s \in Nat
        BY DEF Stamps, IInv, TypeOK
      <4>5. QED
        BY <1>1, <4>3, <4>4, RowUpdates
    <3>2. CASE <<tokens[t].user, tokens[t].workspace>> \notin members
      BY <1>1, <1>2, <2>1, <3>2 DEF IInv, RemovedHoldNoToken
    <3>3. CASE /\ <<tokens[t].user, tokens[t].workspace>> \in members
               /\ ~(tokens[t].user = u /\ tokens[t].workspace = w)
      <4>1. <<tokens[t].user, tokens[t].workspace>> # <<u, w>>
        BY <3>3
      <4>2. QED
        BY <2>1, <2>3, <3>3, <4>1 DEF RemoveMember
    <3>4. QED
      BY <3>1, <3>2, <3>3
  <2>4. QED
    BY <2>2, <2>3, HistoryStep
<1>3. ASSUME NEW c \in Calls, Issues(c, t) PROVE origin'[t].minter \in overtaken'
  BY <1>3 DEF Issues, IInv, CallOK, IsMember
<1>4. QED
  BY <1>2, <1>3, LiveStep

\* The judgement is made on the row, whose revocation only a logout can move.
LEMMA ReplayStep == IInv /\ [Next]_vars => ReplayIsDetected'
<1> SUFFICES ASSUME IInv, [Next]_vars, NEW c \in Calls, calls'[c].pc = "benign"
             PROVE  \/ /\ origin'[calls'[c].token].spentAt # None
                       /\ calls'[c].started < origin'[calls'[c].token].spentAt + Skew
                    \/ \E d \in Calls : /\ calls'[d].kind = "LOGOUT"
                                       /\ calls'[d].token = calls'[c].token
  BY DEF ReplayIsDetected
<1> USE NullAssumption, TimeAssumption
<1>1. calls \in [Calls -> CallStates] /\ calls[c] \in CallStates /\ CallOK(c)
  BY DEF IInv, TypeOK
<1> DEFINE Fair == \/ /\ origin[calls[c].token].spentAt # None
                      /\ calls[c].started < origin[calls[c].token].spentAt + Skew
                   \/ \E d \in Calls : calls[d].kind = "LOGOUT" /\ calls[d].token = calls[c].token
<1>2. ASSUME calls[c].token \in Tokens, Found(c).state = "revoked", Fair,
             calls'[c].token = calls[c].token, calls'[c].started = calls[c].started
      PROVE  \/ /\ origin'[calls'[c].token].spentAt # None
                /\ calls'[c].started < origin'[calls'[c].token].spentAt + Skew
             \/ \E d \in Calls : /\ calls'[d].kind = "LOGOUT"
                                /\ calls'[d].token = calls'[c].token
  <2>1. origin'[calls[c].token].spentAt = origin[calls[c].token].spentAt
    BY <1>2, RowsKept DEF Kept, Found
  <2>2. QED
    BY <1>2, <2>1, LogoutsKept
<1>3. CASE calls'[c] = calls[c]
  BY <1>1, <1>2, <1>3 DEF IInv, ReplayIsDetected, CallOK
<1>4. ASSUME Request(c) PROVE FALSE
  <2> DEFINE Shape(pc, k) == \E t, u, w : calls'[c] = NewCall(pc, k, t, u, w, clock)
  <2>1. \/ \E k \in Kinds : Shape("done", k)
        \/ Shape("member", "LOGIN") \/ Shape("read", "REFRESH") \/ Shape("read", "SWITCH")
    BY <1>1, <1>4, Begun
  <2>2. ASSUME NEW pc, NEW k, Shape(pc, k) PROVE calls'[c].pc = pc
    BY <2>2 DEF NewCall
  <2>3. QED
    BY <2>1, <2>2
<1>5. ASSUME Proceed(c) \/ Crash(c) PROVE FindRaced(c)
  <2>1. ASSUME NEW pc, Goto(c, pc) PROVE pc = "benign"
    BY <1>1, <2>1 DEF Goto, CallStates
  <2>2. ASSUME NEW pc, NEW w, Owned(c, pc, w) PROVE pc = "benign"
    BY <1>1, <2>2 DEF Owned, CallStates
  <2>3. QED
    BY <1>5, <2>1, <2>2 DEF Proceed, Crash, FindUnusable, FindReplayed,
       FindLive, WinClaim, LoseClaim, FindMember, FindNoMember, Mint, RevokeFamily,
       ReportReuse, Turn
<1>6. CASE Advances(c) /\ FindRaced(c)
  <2>1. /\ calls[c].token \in Tokens /\ Found(c).state = "revoked"
        /\ Found(c).revokedAt # None
        /\ calls[c].started < Found(c).revokedAt + Skew
    BY <1>1, <1>6 DEF FindRaced, Reading, CallOK, Benign
  <2>2. StampOK(calls[c].token) /\ Found(c) \in Rows /\ origin[calls[c].token] \in Origins
    BY <2>1 DEF IInv, TypeOK, Found
  <2>3. Fair
    BY <1>1, <2>1, <2>2 DEF StampOK, Found, Rows, Origins, CallStates
  <2>4. QED
    BY <1>2, <1>6, <2>1, <2>3 DEF Advances
<1>7. QED
  BY <1>3, <1>4, <1>5, <1>6, CallStep DEF IInv

-----------------------------------------------------------------------------

LEMMA InvStep == IInv /\ [Next]_vars => IInv'
  BY TypeStep, RowsStep, CallsStep, AmplificationStep, CarrierStep, EndedStep,
     RemovedStep, ReplayStep DEF IInv

\* Each login has one baton: with its client, with one call, or gone; and who
\* carries the baton of a login that was ended took it before the end.
THEOREM Inductive == Spec => []IInv
  BY InitInv, InvStep, PTL DEF Spec

\* Every variable keeps its type.
THEOREM TypeCorrect == Spec => []TypeOK
<1>1. IInv => TypeOK
  BY DEF IInv
<1>2. QED
  BY <1>1, Inductive, PTL

\* No race of refreshes and switches turns one login into two sessions.
THEOREM OneLoginOneSession == Spec => []NoAmplification
<1>1. IInv => NoAmplification
  BY DEF IInv
<1>2. QED
  BY <1>1, Inductive, PTL

\* A revocation of the account leaves at most what a call in flight was about to
\* issue.
THEOREM RevocationLasts == Spec => []RevocationHolds
<1>1. IInv => RevocationHolds
  BY DEF IInv, EndedOK, Carried, RevocationHolds
<1>2. QED
  BY <1>1, Inductive, PTL

\* A removal ends the sessions of the seat, save those of calls that had read the
\* membership.
THEOREM RemovalEndsSessions == Spec => []RemovedHoldNoToken
<1>1. IInv => RemovedHoldNoToken
  BY DEF IInv
<1>2. QED
  BY <1>1, Inductive, PTL

\* A request that began after the spend is a replay, unless the token was
\* presented to logout as well.
THEOREM ReplaysAreDetected == Spec => []ReplayIsDetected
<1>1. IInv => ReplayIsDetected
  BY DEF IInv
<1>2. QED
  BY <1>1, Inductive, PTL

\* An audited reuse did end the login whose token was replayed.
THEOREM ReportsTellTruth == Spec => []ReportsAreTrue
<1>1. IInv => ReportsAreTrue
  BY DEF IInv, CallOK, ReportsAreTrue
<1>2. QED
  BY <1>1, Inductive, PTL

-----------------------------------------------------------------------------

\* When every commit follows its new Date() within the skew allowance, a request
\* in flight at the commit is never judged a replay.
THEOREM RacersAreSafe == Lag <= Skew => (Spec => []RacersAreBenign)
<1> SUFFICES ASSUME Lag <= Skew PROVE Spec => []RacersAreBenign
  OBVIOUS
<1> USE NullAssumption, TimeAssumption
<1>1. Init => RacersAreBenign
  BY DEF Init, RacersAreBenign, Idle, NewCall
<1>2. IInv /\ RacersAreBenign /\ [Next]_vars => RacersAreBenign'
  <2> SUFFICES ASSUME IInv, RacersAreBenign, [Next]_vars, NEW c \in Calls,
                      calls'[c].pc \in {"family", "report"},
                      origin'[calls'[c].token].spentAt # None
               PROVE  calls'[c].started >= origin'[calls'[c].token].spentAt
    BY DEF RacersAreBenign
  <2>1. calls \in [Calls -> CallStates] /\ calls[c] \in CallStates /\ CallOK(c)
    BY DEF IInv, TypeOK
  <2>2. ASSUME calls[c].token \in Tokens, Found(c).state = "revoked",
               calls'[c].token = calls[c].token
        PROVE  origin'[calls'[c].token].spentAt = origin[calls[c].token].spentAt
    BY <2>2, RowsKept DEF Kept, Found
  <2>3. CASE calls[c].pc \in {"family", "report"}
    <3>1. calls'[c].token = calls[c].token /\ calls'[c].started = calls[c].started
      BY <2>3, CallStep DEF Advances, IInv
    <3>2. calls[c].token \in Tokens /\ Found(c).state = "revoked"
      BY <2>1, <2>3 DEF CallOK
    <3>3. QED
      BY <2>2, <2>3, <3>1, <3>2 DEF RacersAreBenign
  <2>4. ASSUME Request(c) PROVE FALSE
    <3> DEFINE Shape(pc, k) == \E t, u, w : calls'[c] = NewCall(pc, k, t, u, w, clock)
    <3>1. \/ \E k \in Kinds : Shape("done", k)
          \/ Shape("member", "LOGIN") \/ Shape("read", "REFRESH") \/ Shape("read", "SWITCH")
      BY <2>1, <2>4, Begun
    <3>2. ASSUME NEW pc, NEW k, Shape(pc, k) PROVE calls'[c].pc = pc
      BY <3>2 DEF NewCall
    <3>3. QED
      BY <3>1, <3>2
  <2>5. ASSUME Proceed(c) \/ Crash(c), calls[c].pc \notin {"family", "report"}
        PROVE  FindReplayed(c)
    <3>1. ASSUME NEW pc, Goto(c, pc) PROVE pc \in {"family", "report"}
      BY <2>1, <3>1 DEF Goto, CallStates
    <3>2. ASSUME NEW pc, NEW w, Owned(c, pc, w) PROVE pc \in {"family", "report"}
      BY <2>1, <3>2 DEF Owned, CallStates
    <3>3. \A pc : Goto(c, pc) => pc \notin {"refused", "benign", "member", "mint", "done", "crashed"}
      BY <3>1
    <3>4. ~RevokeFamily(c) /\ ~ReportReuse(c)
      BY <2>5 DEF RevokeFamily, ReportReuse
    <3>5. ~FindLive(c)
      BY <3>2 DEF FindLive
    <3>6. QED
      BY <2>5, <3>3, <3>4, <3>5 DEF Proceed, Crash, FindUnusable, FindRaced,
         WinClaim, LoseClaim, FindMember, FindNoMember, Mint, Turn
  <2>6. CASE Advances(c) /\ FindReplayed(c)
    <3>1. /\ calls[c].token \in Tokens /\ Found(c).state = "revoked" /\ ~Benign(c)
          /\ calls'[c].token = calls[c].token /\ calls'[c].started = calls[c].started
      BY <2>1, <2>6 DEF FindReplayed, Reading, CallOK, Advances
    <3>2. RowOK(calls[c].token) /\ Found(c) \in Rows /\ origin[calls[c].token] \in Origins
      BY <3>1 DEF IInv, TypeOK, Found
    <3>3. origin[calls[c].token].spentAt # None => calls[c].started >= origin[calls[c].token].spentAt
      BY <2>1, <3>1, <3>2 DEF RowOK, Benign, Found, Rows, Origins, CallStates
    <3>4. QED
      BY <2>2, <3>1, <3>3
  <2>7. QED
    BY <2>3, <2>4, <2>5, <2>6, CallStep DEF IInv
<1>3. QED
  BY <1>1, <1>2, Inductive, PTL DEF Spec

\* Revocation and removal leave at most what a call in flight was about to issue.
THEOREM RevocationIsFelt == Spec => []RevokedHoldNothing
  BY RevocationLasts, RemovalEndsSessions, PTL DEF RevokedHoldNothing

\* Races and replays are told apart, when commits stay within the skew allowance.
THEOREM ReplaysAreToldApart == Lag <= Skew => (Spec => []ReplaysAreTold)
<1> SUFFICES ASSUME Lag <= Skew PROVE Spec => []ReplaysAreTold
  OBVIOUS
<1>1. Spec => []RacersAreBenign
  BY RacersAreSafe
<1>2. RacersAreBenign /\ ReplayIsDetected => ReplaysAreTold
  BY DEF ReplaysAreTold
<1>3. QED
  BY <1>1, <1>2, ReplaysAreDetected, PTL

-----------------------------------------------------------------------------
(* The refinement: the baton of a login as LoginSession sees it.           *)

\* Row r began a login; its client has a token.
Rooted(r) == origin[r].root = r
WithClient(r) == \E t \in Tokens : tokens[t].state = "live" /\ origin[t].root = r

\* Each login has its baton in one place.
Placed ==
  \A r \in Tokens :
    /\ ~Rooted(r) => Holder(r) = "none" /\ ~Carried(r)
    /\ WithClient(r) => Holder(r) = "client" /\ Rooted(r)
    /\ \A c \in Calls : Holds(c, r) => Holder(r) = c /\ Rooted(r) /\ ~WithClient(r)
    /\ Rooted(r) /\ ~Carried(r) => Holder(r) = "ended"

LEMMA HolderIs == IInv => Placed
<1> SUFFICES ASSUME IInv, NEW r \in Tokens
             PROVE  /\ ~Rooted(r) => Holder(r) = "none" /\ ~Carried(r)
                    /\ WithClient(r) => Holder(r) = "client" /\ Rooted(r)
                    /\ \A c \in Calls :
                         Holds(c, r) => Holder(r) = c /\ Rooted(r) /\ ~WithClient(r)
                    /\ Rooted(r) /\ ~Carried(r) => Holder(r) = "ended"
  BY DEF Placed
<1>1. ASSUME NEW x \in Tokens, tokens[x].state # "absent", origin[x].root = r PROVE Rooted(r)
  BY <1>1 DEF IInv, RowOK, Rooted
<1>2. WithClient(r) => Rooted(r)
  BY <1>1 DEF WithClient
<1>3. \A c \in Calls : Holds(c, r) => Rooted(r) /\ ~WithClient(r)
  BY <1>1, HolderFacts DEF IInv, NoAmplification, WithClient
<1>4. ASSUME NEW c \in Calls, Holds(c, r) PROVE (CHOOSE d \in Calls : Holds(d, r)) = c
  BY <1>4 DEF IInv, OneCarrier
<1>5. Carried(r) <=> WithClient(r) \/ \E c \in Calls : Holds(c, r)
  BY DEF Carried, WithClient
<1>6. ~Rooted(r) => Holder(r) = "none"
  BY DEF Rooted, Holder
<1>7. WithClient(r) => Holder(r) = "client"
  BY <1>2 DEF Rooted, WithClient, Holder
<1>8. ASSUME NEW c \in Calls, Holds(c, r) PROVE Holder(r) = c
  BY <1>3, <1>4, <1>8 DEF Rooted, WithClient, Holder
<1>9. Rooted(r) /\ ~Carried(r) => Holder(r) = "ended"
  BY <1>5 DEF Rooted, WithClient, Holder
<1> QED  BY <1>2, <1>3, <1>5, <1>6, <1>7, <1>8, <1>9

\* The same of the next state.
LEMMA HolderWillBe == IInv' => Placed'
BY HolderIs, PTL

\* The login r is where it was.
SameBaton(r) ==
  /\ Rooted(r)' <=> Rooted(r)
  /\ WithClient(r)' <=> WithClient(r)
  /\ \A c \in Calls : Holds(c, r)' <=> Holds(c, r)

LEMMA BatonStays ==
  ASSUME IInv, IInv', NEW r \in Tokens, SameBaton(r)
  PROVE  Holder(r)' = Holder(r)
<1>1. CASE ~Rooted(r)
  BY <1>1, HolderIs, HolderWillBe DEF SameBaton, Placed
<1>2. CASE WithClient(r)
  BY <1>2, HolderIs, HolderWillBe DEF SameBaton, Placed
<1>3. ASSUME NEW c \in Calls, Holds(c, r) PROVE Holder(r)' = Holder(r)
  BY <1>3, HolderIs, HolderWillBe DEF SameBaton, Placed
<1>4. CASE Rooted(r) /\ ~WithClient(r) /\ \A c \in Calls : ~Holds(c, r)
  BY <1>4, HolderIs, HolderWillBe DEF SameBaton, Placed, Carried, WithClient
<1> QED  BY <1>1, <1>2, <1>3, <1>4

\* Once begun a login has its root for good, and a new root is a new row.
LEMMA RootsStay ==
  ASSUME IInv, [Next]_vars, NEW r \in Tokens
  PROVE  /\ tokens[r].state # "absent" => (Rooted(r)' <=> Rooted(r))
         /\ Rooted(r) => Rooted(r)' /\ tokens[r].state # "absent"
<1>1. RowOK(r) /\ Kept(r)
  BY RowsKept DEF IInv
<1> QED  BY <1>1, NullAssumption DEF Kept, RowOK, Rooted

\* A call that has the baton keeps it, unless it issues a token, finds no seat or dies.
LEMMA HoldersStay ==
  ASSUME IInv, [Next]_vars, NEW d \in Calls, NEW r, Holds(d, r),
         ~FindNoMember(d), ~Crash(d), \A t \in Tokens : ~Mint(d, t)
  PROVE  Holds(d, r)'
<1>1. calls \in [Calls -> CallStates] /\ calls[d].pc \in {"member", "mint"}
  BY DEF IInv, TypeOK, Holds
<1>2. calls[d].token \in Tokens /\ tokens[calls[d].token].state = "revoked"
  BY HolderFacts
<1>3. calls'[d].kind = calls[d].kind /\ calls'[d].token = calls[d].token
  BY <1>1, PastClaim
<1>4. calls'[d].pc \in {"member", "mint"}
  <2>1. CASE calls'[d] = calls[d]
    BY <1>1, <2>1
  <2>2. CASE Proceed(d)
    <3>1. FindMember(d)
      BY <1>1, <2>2 DEF Proceed, FindUnusable, FindRaced, FindReplayed, FindLive, Reading,
         WinClaim, LoseClaim, RevokeFamily, ReportReuse
    <3>2. calls'[d].pc = "mint"
      BY <1>1, <3>1 DEF FindMember, Turn, Goto, CallStates
    <3> QED  BY <3>2
  <2> QED  BY <1>1, <2>1, <2>2, CallStep DEF IInv
<1>5. origin'[calls[d].token].root = origin[calls[d].token].root
  BY <1>2, RowsKept DEF Kept
<1> QED  BY <1>3, <1>4, <1>5 DEF Holds

\* What LoginSession sees.
Batons == [r \in Tokens |-> Holder(r)]

LEMMA OthersStay ==
  ASSUME IInv, IInv', NEW r \in Tokens, \A x \in Tokens \ {r} : SameBaton(x)
  PROVE  Batons' = [Batons EXCEPT ![r] = Holder(r)']
  BY BatonStays DEF Batons

\* A claim that is won takes the baton.
LEMMA ClaimTakes ==
  ASSUME IInv, IInv', [Next]_vars, NEW c \in Calls, WinClaim(c)
  PROVE  \E r \in Tokens : Baton!Take(r, c)
<1> DEFINE t == calls[c].token
<1>1. /\ tokens \in [Tokens -> Rows] /\ origin \in [Tokens -> Origins]
      /\ calls \in [Calls -> CallStates]
  BY DEF IInv, TypeOK
<1>2. /\ t \in Tokens /\ calls[c].kind \in {"REFRESH", "SWITCH"} /\ tokens[t].state = "live"
      /\ calls[c].pc = "claim"
  BY DEF WinClaim, ClaimMatches, Found, IInv, CallOK
<1>3. PICK r \in Tokens : r = origin[t].root /\ WithClient(r)
  BY <1>2, RootExists DEF WithClient
<1>4. PICK s \in Stamps(calls[c].started) : Revoke({t}, s)
  BY DEF WinClaim
<1>5. /\ tokens'[t].state = "revoked"
      /\ \A x \in Tokens \ {t} : tokens'[x] = tokens[x]
      /\ \A x \in Tokens : origin'[x].root = origin[x].root
  BY <1>1, <1>2, <1>4 DEF Revoke, Rows, Origins
<1>6. /\ calls'[c].pc = "member" /\ calls'[c].kind = calls[c].kind
      /\ calls'[c].token = t /\ \A d \in Calls \ {c} : calls'[d] = calls[d]
  BY <1>1 DEF WinClaim, Goto, CallStates
<1>7. Holds(c, r)'
  BY <1>2, <1>3, <1>5, <1>6 DEF Holds
<1>8. ASSUME NEW x \in Tokens \ {r} PROVE SameBaton(x)
  <2>1. Rooted(x)' <=> Rooted(x)
    BY <1>5 DEF Rooted
  <2>2. WithClient(x)' <=> WithClient(x)
    BY <1>2, <1>3, <1>5, <1>8 DEF WithClient
  <2>3. ~Holds(c, x) /\ ~Holds(c, x)'
    BY <1>2, <1>3, <1>5, <1>6, <1>8 DEF Holds
  <2>4. ASSUME NEW d \in Calls \ {c} PROVE Holds(d, x)' <=> Holds(d, x)
    <3>1. ASSUME calls[d].token \in Tokens
          PROVE  origin'[calls'[d].token].root = origin[calls[d].token].root
      BY <1>5, <1>6, <3>1
    <3>2. Holds(d, x) => calls[d].token \in Tokens
      BY HolderFacts
    <3>3. Holds(d, x)' => Holds(d, x)
      BY <1>6, HoldsStep, <2>4 DEF WinClaim, Goto, Holds
    <3> QED  BY <1>6, <3>1, <3>2, <3>3 DEF Holds
  <2> QED  BY <2>1, <2>2, <2>3, <2>4 DEF SameBaton
<1>9. Batons' = [Batons EXCEPT ![r] = c]
  BY <1>3, <1>7, <1>8, OthersStay, HolderWillBe DEF Placed
<1>10. Batons[r] = "client"
  BY <1>3, HolderIs DEF Batons, Placed
<1> QED  BY <1>3, <1>9, <1>10 DEF Baton!Take, Batons

\* A new login has its first token; or the call that has the baton gives it back.
LEMMA IssueGives ==
  ASSUME IInv, IInv', [Next]_vars, NEW c \in Calls, NEW t \in Tokens, Mint(c, t)
  PROVE  \E r \in Tokens : Baton!Start(r) \/ Baton!GiveBack(r)
<1>1. /\ tokens \in [Tokens -> Rows] /\ origin \in [Tokens -> Origins]
      /\ calls \in [Calls -> CallStates]
  BY DEF IInv, TypeOK
<1>2. Issues(c, t) /\ tokens'[t].state = "live"
  BY <1>1, MintFacts DEF Mint, LiveRow
<1>3. origin[t].root = None
  BY <1>2 DEF Issues, IInv, RowOK
<1>4. \A d \in Calls \ {c} : calls'[d] = calls[d]
  BY <1>1 DEF Mint, Goto
<1>5. \A x \in Tokens : ~Holds(c, x)'
  BY <1>2 DEF Issues, Holds
<1>6. ASSUME NEW x \in Tokens, x # origin'[t].root, x # t PROVE Rooted(x)' <=> Rooted(x)
  BY <1>2, <1>6 DEF Issues, Rooted
<1>7. ASSUME NEW x \in Tokens, x # origin'[t].root PROVE WithClient(x)' <=> WithClient(x)
  BY <1>2, <1>3, <1>7 DEF Issues, WithClient
<1>8. ASSUME NEW d \in Calls \ {c}, NEW x \in Tokens PROVE Holds(d, x)' <=> Holds(d, x)
  <2>1. Holds(d, x)' => Holds(d, x)
    BY <1>4, HoldsStep DEF WinClaim, Goto, Holds
  <2>2. ASSUME Holds(d, x) PROVE origin'[calls[d].token].root = origin[calls[d].token].root
    BY <2>2, HolderFacts, <1>2 DEF Issues
  <2> QED  BY <1>4, <2>1, <2>2 DEF Holds
<1>9. CASE calls[c].kind = "LOGIN"
  <2>1. origin'[t].root = t
    BY <1>2, <1>9 DEF Issues, Root
  <2>2. ~Rooted(t) /\ WithClient(t)'
    BY <1>2, <1>3, <2>1, NullAssumption DEF Rooted, WithClient
  <2>3. \A x \in Tokens : ~Holds(c, x)
    BY <1>9 DEF Holds
  <2>4. \A x \in Tokens \ {t} : SameBaton(x)
    BY <1>5, <1>6, <1>7, <1>8, <2>1, <2>3 DEF SameBaton
  <2>5. Batons' = [Batons EXCEPT ![t] = "client"]
    BY <2>2, <2>4, OthersStay, HolderWillBe DEF Placed
  <2>6. Batons[t] = "none"
    BY <2>2, HolderIs DEF Batons, Placed
  <2> QED  BY <2>5, <2>6 DEF Baton!Start, Batons
<1>10. CASE calls[c].kind # "LOGIN"
  <2>1. PICK r : r = origin'[t].root /\ Holds(c, r)
    BY <1>2, <1>10 DEF Issues
  <2>2. r \in Tokens /\ tokens[r].state # "absent"
    BY <2>1, HolderFacts, RootExists
  <2>3. r # t /\ WithClient(r)'
    BY <1>2, <2>1, <2>2 DEF Issues, WithClient
  <2>4. ~Rooted(t) /\ ~Rooted(t)'
    BY <1>3, <2>1, <2>3, NullAssumption DEF Rooted
  <2>5. ASSUME NEW x \in Tokens \ {r} PROVE SameBaton(x)
    <3>1. ~Holds(c, x)
      BY <2>1, <2>5 DEF Holds
    <3> QED  BY <1>5, <1>6, <1>7, <1>8, <2>1, <2>4, <2>5, <3>1 DEF SameBaton
  <2>6. Batons' = [Batons EXCEPT ![r] = "client"]
    BY <2>2, <2>3, <2>5, OthersStay, HolderWillBe DEF Placed
  <2>7. Batons[r] = c
    BY <2>1, <2>2, HolderIs DEF Batons, Placed
  <2> QED  BY <2>2, <2>6, <2>7 DEF Baton!GiveBack, Batons
<1> QED  BY <1>9, <1>10

\* A call that finds no seat or dies drops the baton it has.
LEMMA FailureDrops ==
  ASSUME IInv, IInv', [Next]_vars, NEW c \in Calls, FindNoMember(c) \/ Crash(c),
         NEW r \in Tokens, Holds(c, r)
  PROVE  Baton!Drop(r)
<1>1. calls \in [Calls -> CallStates]
  BY DEF IInv, TypeOK
<1>2. /\ tokens' = tokens /\ origin' = origin
      /\ \A d \in Calls \ {c} : calls'[d] = calls[d]
      /\ calls'[c].pc \in {"refused", "crashed"}
  BY <1>1 DEF FindNoMember, Crash, Turn, Goto, CallStates, history
<1>3. \A x \in Tokens : (Rooted(x)' <=> Rooted(x)) /\ (WithClient(x)' <=> WithClient(x))
  BY <1>2 DEF Rooted, WithClient
<1>4. \A d \in Calls \ {c} : \A x \in Tokens : Holds(d, x)' <=> Holds(d, x)
  BY <1>2 DEF Holds
<1>5. \A x \in Tokens : ~Holds(c, x)'
  BY <1>2 DEF Holds
<1>6. \A x \in Tokens \ {r} : SameBaton(x)
  BY <1>3, <1>4, <1>5 DEF Holds, SameBaton
<1>7. Rooted(r)' /\ ~Carried(r)'
  <2>1. Rooted(r) /\ ~WithClient(r)
    BY HolderIs DEF Placed
  <2>2. \A d \in Calls : ~Holds(d, r)'
    BY <1>4, <1>5 DEF IInv, OneCarrier
  <2>3. ~WithClient(r)' /\ Rooted(r)'
    BY <1>3, <2>1
  <2> QED  BY <2>2, <2>3 DEF Carried, WithClient
<1>8. Batons' = [Batons EXCEPT ![r] = "ended"]
  BY <1>6, <1>7, OthersStay, HolderWillBe DEF Placed
<1>9. Batons[r] = c
  BY HolderIs DEF Batons, Placed
<1> QED  BY <1>8, <1>9 DEF Baton!Drop, Batons

\* Every other step ends the logins whose tokens it revokes, of which there may be none.
LEMMA OthersEnd ==
  ASSUME IInv, IInv', [Next]_vars,
         \A c \in Calls : /\ ~WinClaim(c) /\ \A t \in Tokens : ~Mint(c, t)
                          /\ FindNoMember(c) \/ Crash(c) => \A r \in Tokens : ~Holds(c, r)
  PROVE  \E S \in SUBSET Tokens : Baton!End(S)
<1>1. ASSUME NEW d \in Calls, NEW r \in Tokens PROVE Holds(d, r)' <=> Holds(d, r)
  BY HoldsStep, HoldersStay
<1>2. ASSUME NEW t \in Tokens
      PROVE  /\ origin'[t].root = origin[t].root
             /\ tokens'[t].state = "live" => tokens[t].state = "live"
  <2>1. tokens[t] \in Rows /\ origin[t] \in Origins /\ clock \in Nat /\ ~Created(t)
    BY DEF IInv, TypeOK, Created
  <2>2. ASSUME NEW s \in Stamps(0) PROVE Stamped(tokens[t], s).state = "revoked"
    BY <2>1 DEF Stamped, Rows
  <2>3. SpentAt(origin[t], clock).root = origin[t].root
    BY <2>1, RowUpdates
  <2> QED  BY <2>1, <2>2, <2>3, RowStep DEF Spent, Restamped
<1> DEFINE S == {r \in Tokens : WithClient(r) /\ ~WithClient(r)'}
<1>3. ASSUME NEW r \in Tokens PROVE Holder(r)' = IF r \in S THEN "ended" ELSE Holder(r)
  <2>1. (Rooted(r)' <=> Rooted(r)) /\ (WithClient(r)' => WithClient(r))
    BY <1>2 DEF Rooted, WithClient
  <2>2. CASE r \in S
    <3>1. Rooted(r) /\ \A c \in Calls : ~Holds(c, r)
      BY <2>2, HolderIs DEF Placed
    <3>2. Rooted(r)' /\ ~Carried(r)'
      BY <1>1, <2>1, <2>2, <3>1 DEF Carried, WithClient
    <3> QED  BY <2>2, <3>2, HolderWillBe DEF Placed
  <2>3. CASE r \notin S
    <3>1. SameBaton(r)
      BY <1>1, <2>1, <2>3 DEF SameBaton
    <3> QED  BY <2>3, <3>1, BatonStays
  <2> QED  BY <2>2, <2>3
<1>4. \A r \in S : Batons[r] = "client"
  BY HolderIs DEF Placed, Batons
<1>5. Batons' = [r \in Tokens |-> IF r \in S THEN "ended" ELSE Batons[r]]
  BY <1>3 DEF Batons
<1> QED  BY <1>4, <1>5 DEF Baton!End, Batons

\* A login is one baton, taken by a won claim, given back with the next token, dropped
\* by a call that fails and ended by a revocation (LoginSession).
THEOREM Refinement == Spec => ImplementsLoginSession
<1>1. Init => Baton!Init
  <2> SUFFICES ASSUME Init, NEW r \in Tokens PROVE Holder(r) \in {"none", "client", "ended"}
    BY DEF Baton!Init
  <2>1. \A c \in Calls : ~Holds(c, r)
    BY DEF Init, Holds, Idle, NewCall
  <2> QED  BY <2>1 DEF Holder
<1>2. ASSUME IInv, IInv', [Next]_vars PROVE [Baton!Next]_Batons
  <2>1. CASE \E c \in Calls : WinClaim(c)
    BY <1>2, <2>1, ClaimTakes DEF Baton!Next
  <2>2. CASE \E c \in Calls, t \in Tokens : Mint(c, t)
    BY <1>2, <2>2, IssueGives DEF Baton!Next
  <2>3. CASE \E c \in Calls, r \in Tokens : (FindNoMember(c) \/ Crash(c)) /\ Holds(c, r)
    BY <1>2, <2>3, FailureDrops DEF Baton!Next
  <2>4. CASE \A c \in Calls : /\ ~WinClaim(c) /\ \A t \in Tokens : ~Mint(c, t)
                              /\ FindNoMember(c) \/ Crash(c) => \A r \in Tokens : ~Holds(c, r)
    BY <1>2, <2>4, OthersEnd DEF Baton!Next
  <2> QED  BY <2>1, <2>2, <2>3, <2>4
<1>3. IInv /\ IInv' /\ [Next]_vars => [Baton!Next]_Batons
  BY <1>2
<1> QED  BY <1>1, <1>3, Inductive, PTL DEF Spec, ImplementsLoginSession, Baton!Spec, Batons
=============================================================================
