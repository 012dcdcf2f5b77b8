------------------------- MODULE AccountRegistration -------------------------
(***************************************************************************)
(* How accounts come to be (register, registerInvited, login, mint of the  *)
(* invitation capability in backend/src/modules/auth/auth.service.ts, and  *)
(* the route of the web server that chains them with the acceptance).      *)
(*                                                                         *)
(* An account is found by the spelling of its address.  register and login *)
(* take the address as it was typed, registerInvited stores it normalized, *)
(* and an invitation is compared with the normalized address.  There is    *)
(* one invitation; what else happens to it and to the seats is the subject *)
(* of TeamMembership.                                                      *)
(***************************************************************************)
EXTENDS Naturals, FiniteSets

CONSTANTS
  Calls,
  Invited,      \* the address of the invitation, in lower case
  Spelled,      \* the same address as somebody types it
  Other,        \* another address
  Passwords,
  Subdomains,
  None          \* null

Addresses == {Invited, Spelled, Other}

VARIABLES
  accounts,     \* spelling -> the account found by it, or None
  invitation,
  seats,        \* accounts that are members of the workspace of the invitation
  rows,         \* what else a founder's call has written
  calls,
  overtaken,    \* *history* calls whose invitation changed behind their last look
  removed       \* *history* accounts whose seat was taken away

vars == <<accounts, invitation, seats, rows, calls, overtaken, removed>>

Kinds == {"found", "join", "enter"}

\* A call is a founder's registration, that of somebody who is invited followed
\* by the acceptance, or the acceptance alone.
Idle == [pc |-> "idle", kind |-> None, email |-> None, password |-> None,
         subdomain |-> None, seen |-> None, outcome |-> None, answer |-> None]

Founding == {"looked", "organized", "housed", "created", "owned"}
Joining == {"read", "hashed", "reread", "conflict"}
Entering == {"registered", "proved", "capable", "accepted"}

Answers == {"exists", "error", "registered", "not found", "expired", "no longer valid",
            "invalid password", "could not be created", "no access", "forbidden", "session"}

Init ==
  /\ accounts = [a \in Addresses |-> None]
  /\ invitation = [status |-> "PENDING", lapsed |-> FALSE, acceptedBy |-> None]
  /\ seats = {}
  /\ rows = [c \in Calls |-> {}]
  /\ calls = [c \in Calls |-> Idle]
  /\ overtaken = {}
  /\ removed = {}

At(c, pc) == calls[c].pc = pc
Normal(a) == IF a = Spelled THEN Invited ELSE a

Set(c, r) == calls' = [calls EXCEPT ![c] = r]
Go(c, pc) == Set(c, [calls[c] EXCEPT !.pc = pc])
Answer(c, answer) == Set(c, [calls[c] EXCEPT !.pc = "answered", !.answer = answer])

-----------------------------------------------------------------------------
(* register: four statements, each committed by itself                     *)

LookUpAddress(c) ==
  /\ At(c, "idle")
  /\ \E a \in Addresses, p \in Passwords, d \in Subdomains :
       LET r == [Idle EXCEPT !.kind = "found", !.email = a, !.password = p, !.subdomain = d]
       IN  IF accounts[a] # None
           THEN Set(c, [r EXCEPT !.pc = "answered", !.answer = "exists"])
           ELSE Set(c, [r EXCEPT !.pc = "looked"])
  /\ UNCHANGED <<accounts, invitation, seats, rows, overtaken, removed>>

Write(c, what) == rows' = [rows EXCEPT ![c] = @ \cup {what}]

CreateOrganization(c) ==
  /\ At(c, "looked")
  /\ Write(c, "organization") /\ Go(c, "organized")
  /\ UNCHANGED <<accounts, invitation, seats, overtaken, removed>>

Taken(d) == \E c \in Calls : "workspace" \in rows[c] /\ calls[c].subdomain = d

\* A subdomain is unique.
CreateWorkspace(c) ==
  /\ At(c, "organized")
  /\ IF Taken(calls[c].subdomain) THEN Answer(c, "error") /\ UNCHANGED rows
     ELSE Write(c, "workspace") /\ Go(c, "housed")
  /\ UNCHANGED <<accounts, invitation, seats, overtaken, removed>>

NewAccount(c) == [password |-> calls[c].password, by |-> c]

CreateUser(c) ==
  /\ At(c, "housed")
  /\ LET a == calls[c].email IN
       IF accounts[a] # None THEN Answer(c, "error") /\ UNCHANGED accounts
       ELSE accounts' = [accounts EXCEPT ![a] = NewAccount(c)] /\ Go(c, "created")
  /\ UNCHANGED <<invitation, seats, rows, overtaken, removed>>

CreateOwner(c) ==
  /\ At(c, "created")
  /\ Write(c, "owner") /\ Go(c, "owned")
  /\ UNCHANGED <<accounts, invitation, seats, overtaken, removed>>

RecordRegistration(c) ==
  /\ At(c, "owned")
  /\ Answer(c, "registered")
  /\ UNCHANGED <<accounts, invitation, seats, rows, overtaken, removed>>

-----------------------------------------------------------------------------
(* registerInvited                                                         *)

\* One message for a link that does not exist, is another's or was withdrawn.
ReadInvitation(c) ==
  /\ At(c, "idle")
  /\ \E a \in Addresses, p \in Passwords :
       LET r == [Idle EXCEPT !.kind = "join", !.email = a, !.password = p,
                             !.seen = invitation.status]
           refused(why) == [r EXCEPT !.pc = "answered", !.answer = why]
       IN  Set(c, IF Normal(a) # Invited \/ invitation.status = "REVOKED"
                  THEN refused("not found")
                  ELSE IF invitation.lapsed THEN refused("expired")
                  ELSE [r EXCEPT !.pc = "read"])
  /\ UNCHANGED <<accounts, invitation, seats, rows, overtaken, removed>>

\* mutant of Proves: the account is the caller's whatever the password
ProvesAnything(c, a) == TRUE

\* The caller knows the password of an account.
Proves(c, a) == accounts[a].password = calls[c].password

\* resolveExistingRegistration
Resolved(c) ==
  LET a == Normal(calls[c].email) IN
    IF Proves(c, a)
    THEN Set(c, [calls[c] EXCEPT !.pc = "registered", !.outcome = "ALREADY_REGISTERED"])
    ELSE Answer(c, "invalid password")

\* A retry is answered before anything is written; an invitation that was pending
\* when it was read is needed for more.
ResolveExisting(c) ==
  /\ At(c, "read")
  /\ IF accounts[Normal(calls[c].email)] # None THEN Resolved(c)
     ELSE IF calls[c].seen # "PENDING" THEN Answer(c, "no longer valid")
     ELSE Go(c, "hashed")
  /\ UNCHANGED <<accounts, invitation, seats, rows, overtaken, removed>>

\* mutant of Withdrawn: the first look is taken for the second
WithdrawnAtFirst(c) == calls[c].seen = "REVOKED"

Withdrawn(c) == invitation.status = "REVOKED"

\* The transaction looks at the invitation again.
ReReadInvitation(c) ==
  /\ At(c, "hashed")
  /\ IF Withdrawn(c) THEN Answer(c, "not found") ELSE Go(c, "reread")
  /\ UNCHANGED <<accounts, invitation, seats, rows, overtaken, removed>>

CommitAccount(c) ==
  /\ At(c, "reread")
  /\ LET a == Normal(calls[c].email) IN
       IF accounts[a] # None THEN Go(c, "conflict") /\ UNCHANGED accounts
       ELSE /\ accounts' = [accounts EXCEPT ![a] = NewAccount(c)]
            /\ Set(c, [calls[c] EXCEPT !.pc = "registered", !.outcome = "CREATED",
                                       !.seen = invitation.status])
  /\ UNCHANGED <<invitation, seats, rows, overtaken, removed>>

\* Another call has created the account in between.
ResolveConflict(c) ==
  /\ At(c, "conflict")
  /\ IF accounts[Normal(calls[c].email)] # None THEN Resolved(c)
     ELSE Answer(c, "could not be created")
  /\ UNCHANGED <<accounts, invitation, seats, rows, overtaken, removed>>

-----------------------------------------------------------------------------
(* accept-invitation: login, capability, acceptance, session               *)

\* registerThenAccept goes on with what was typed, acceptWithCredentials starts
\* here.
Login(c) ==
  /\ At(c, "registered") \/ At(c, "idle")
  /\ \E a \in Addresses, p \in Passwords :
       LET r == IF At(c, "idle")
                THEN [Idle EXCEPT !.kind = "enter", !.email = a, !.password = p]
                ELSE calls[c]
       IN  /\ r.email = a /\ r.password = p
           /\ Set(c, IF accounts[a] # None /\ accounts[a].password = p
                     THEN [r EXCEPT !.pc = "proved"]
                     ELSE [r EXCEPT !.pc = "answered", !.answer = "invalid password"])
  /\ UNCHANGED <<accounts, invitation, seats, rows, overtaken, removed>>

\* Accepted already, by the account that comes back.
Returning(c) == invitation.status = "ACCEPTED" /\ invitation.acceptedBy = calls[c].email

MintInvitationCapability(c) ==
  /\ At(c, "proved")
  /\ IF Normal(calls[c].email) # Invited THEN Answer(c, "not found")
     ELSE IF invitation.lapsed THEN Answer(c, "expired")
     ELSE IF invitation.status # "PENDING" /\ ~Returning(c) THEN Answer(c, "not found")
     ELSE Go(c, "capable")
  /\ UNCHANGED <<accounts, invitation, seats, rows, overtaken, removed>>

\* mutant of Readmitted: a link that was used lets its account in again
ReadmittedAlways(c) == seats \cup {calls[c].email}

\* The seats after a link that was used is opened again by its account.
Readmitted(c) == seats

Inside(c) == calls[c].email \in seats

\* acceptInvitationById, in one step (TeamMembership has its parts).
AcceptInvitation(c) ==
  /\ At(c, "capable")
  /\ IF invitation.lapsed
     THEN /\ Answer(c, "expired")
          /\ invitation' = [invitation EXCEPT !.status = IF @ = "PENDING" THEN "EXPIRED" ELSE @]
          /\ UNCHANGED <<seats, overtaken>>
     ELSE IF Returning(c)
     THEN /\ seats' = Readmitted(c)
          /\ IF calls[c].email \in seats' THEN Go(c, "accepted") ELSE Answer(c, "no access")
          /\ UNCHANGED <<invitation, overtaken>>
     ELSE IF invitation.status = "PENDING"
     THEN /\ invitation' = [invitation EXCEPT !.status = "ACCEPTED",
                                              !.acceptedBy = calls[c].email]
          /\ seats' = seats \cup {calls[c].email}
          /\ Go(c, "accepted")
          /\ overtaken' = overtaken \cup {d \in Calls : calls[d].pc \in Joining}
     ELSE Answer(c, "no longer valid") /\ UNCHANGED <<invitation, seats, overtaken>>
  /\ UNCHANGED <<accounts, rows, removed>>

\* selectWorkspace needs the seat, which may be gone again.
SelectWorkspace(c) ==
  /\ At(c, "accepted")
  /\ Answer(c, IF Inside(c) THEN "session" ELSE "forbidden")
  /\ UNCHANGED <<accounts, invitation, seats, rows, overtaken, removed>>

-----------------------------------------------------------------------------

\* A statement fails, the process stops or an answer between two servers is lost:
\* what was committed stays.
BreakOff(c) ==
  /\ calls[c].pc \in Founding \cup Joining \cup Entering
  /\ Answer(c, "error")
  /\ UNCHANGED <<accounts, invitation, seats, rows, overtaken, removed>>

\* An administrator withdraws a pending invitation.
RevokeInvitation ==
  /\ invitation.status = "PENDING"
  /\ invitation' = [invitation EXCEPT !.status = "REVOKED"]
  /\ overtaken' = overtaken \cup {c \in Calls : At(c, "reread")}
  /\ UNCHANGED <<accounts, seats, rows, calls, removed>>

RemoveMember(a) ==
  /\ a \in seats
  /\ seats' = seats \ {a}
  /\ removed' = removed \cup {a}
  /\ UNCHANGED <<accounts, invitation, rows, calls, overtaken>>

Lapse ==
  /\ ~invitation.lapsed
  /\ invitation' = [invitation EXCEPT !.lapsed = TRUE]
  /\ UNCHANGED <<accounts, seats, rows, calls, overtaken, removed>>

Found(c) == LookUpAddress(c) \/ CreateOrganization(c) \/ CreateWorkspace(c)
            \/ CreateUser(c) \/ CreateOwner(c) \/ RecordRegistration(c)

Join(c) == ReadInvitation(c) \/ ResolveExisting(c) \/ ReReadInvitation(c)
           \/ CommitAccount(c) \/ ResolveConflict(c)

Enter(c) == Login(c) \/ MintInvitationCapability(c) \/ AcceptInvitation(c)
            \/ SelectWorkspace(c)

Next ==
  \/ \E c \in Calls : Found(c) \/ Join(c) \/ Enter(c) \/ BreakOff(c)
  \/ RevokeInvitation \/ Lapse
  \/ \E a \in Addresses : RemoveMember(a)

Spec == Init /\ [][Next]_vars

-----------------------------------------------------------------------------
(* Properties.                                                             *)

Call == [pc : {"idle", "answered"} \cup Founding \cup Joining \cup Entering,
         kind : Kinds \cup {None}, email : Addresses \cup {None},
         password : Passwords \cup {None}, subdomain : Subdomains \cup {None},
         seen : {"PENDING", "ACCEPTED", "REVOKED", "EXPIRED", None},
         outcome : {"CREATED", "ALREADY_REGISTERED", None}, answer : Answers \cup {None}]

TypesHold ==
  /\ accounts \in [Addresses -> [password : Passwords, by : Calls] \cup {None}]
  /\ invitation \in [status : {"PENDING", "ACCEPTED", "REVOKED", "EXPIRED"},
                     lapsed : BOOLEAN, acceptedBy : Addresses \cup {None}]
  /\ seats \subseteq Addresses /\ removed \subseteq Addresses
  /\ rows \in [Calls -> SUBSET {"organization", "workspace", "owner"}]
  /\ calls \in [Calls -> Call]
  /\ overtaken \subseteq Calls

Knows(c, a) == calls[c].password = accounts[a].password
CreatedBy(c) == {a \in Addresses : accounts[a] # None /\ accounts[a].by = c}

\* Of the calls that register one address one is told CREATED, and the account is
\* as it asked; another is told ALREADY_REGISTERED only if it knows the password,
\* and never that the account could not be created; and a session is given only to
\* the account that holds the invitation, for its password (registerInvited, the
\* chain of accept-invitation).
RegistrationAnswersTruly ==
  \A c \in Calls :
    /\ calls[c].outcome = "CREATED" => CreatedBy(c) = {Invited}
    /\ calls[c].outcome = "ALREADY_REGISTERED" => Knows(c, Invited) /\ CreatedBy(c) = {}
    /\ calls[c].answer # "could not be created"
    /\ calls[c].answer = "registered" =>
         CreatedBy(c) = {calls[c].email} /\ rows[c] = {"organization", "workspace", "owner"}
    /\ calls[c].answer = "session" =>
         Knows(c, calls[c].email) /\ invitation.acceptedBy = calls[c].email

\* No account comes of an invitation that was withdrawn, or accepted by another
\* account, except behind the back of the call: withdrawn after it looked again in
\* its transaction, accepted after it looked first (registerInvited: "revocation
\* that does not stop the thing it revokes", "a dead account").
NoDeadAccounts ==
  \A c \in Calls :
    calls[c].outcome = "CREATED" /\ calls[c].seen # "PENDING" =>
      calls[c].seen = "EXPIRED" \/ c \in overtaken

\* Who was removed from the workspace is not let in again by the link that was
\* used before, however often it is tried (the chain of accept-invitation).
RemovedStayOut == removed \cap seats = {}

\* Whoever registers by an invitation can go on to accept it in the same action
\* (registerThenAccept: "Create the account, then immediately accept").
RegistrantsCanSignIn ==
  \A c \in Calls : calls[c].outcome # None => calls[c].answer # "invalid password"
=============================================================================
