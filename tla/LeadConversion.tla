--------------------------- MODULE LeadConversion ---------------------------
(***************************************************************************)
(* Leads and their conversion to clients within one business unit          *)
(* (lead.service.ts, and ClientAccountService.convert).                    *)
(*                                                                         *)
(* A conversion looks its idempotency key up, and then reads, checks and   *)
(* inserts in one transaction.  An insert that collides with one not yet   *)
(* committed waits for its outcome, as PostgreSQL does.  The profile of    *)
(* the client is opened on a connection of its own, outside the            *)
(* transaction.                                                            *)
(***************************************************************************)
EXTENDS Integers, FiniteSetsExt

CONSTANTS
  Calls,       \* requests; each is one process
  Known,       \* contacts that exist at the start
  Firms,       \* companies that may exist at the start, all of one name
  Keys,        \* values of the idempotency-key header
  None         \* null

\* A row created by a call is named after it.
People == Known \cup Calls
Companies == Firms \cup Calls

VARIABLES
  contacts,    \* Contact rows by id, or None
  companies,   \* Company rows of the one name
  opportunities, \* the status of each contact's acquisition opportunity
  accounts,    \* ClientAccount rows
  keys,        \* the account of each ConversionIdempotencyKey, by its contact
  profiles,    \* contacts and companies with a RelationshipProfile
  sellable,    \* whether the offer is live
  calls,       \* the local state of every request
  past         \* *history* whether two leads made a company at once

vars == <<contacts, companies, opportunities, accounts, keys, profiles,
          sellable, calls, past>>

book == <<contacts, companies, opportunities, accounts, keys>>

Account == [contact : People, company : Companies \cup {None}]

Idle == [pc |-> "idle", contact |-> None, company |-> None, key |-> None,
         answer |-> None, raced |-> FALSE, late |-> FALSE]

\* The account row is inserted and not yet committed.
Holding == {"profile", "open", "commit"}
Working == {"found", "scope", "check", "insert", "recover"} \cup Holding

Init ==
  /\ companies \in SUBSET Firms
  /\ \E firm \in companies \cup {None} :
       contacts = [p \in People |->
                     IF p \in Known THEN [status |-> "LEAD", company |-> firm] ELSE None]
  /\ opportunities = [p \in People |-> IF p \in Known THEN "OPEN" ELSE None]
  /\ accounts = {}
  /\ keys = [k \in Keys |-> None]
  /\ profiles = {}
  /\ sellable = TRUE
  /\ calls = [c \in Calls |-> Idle]
  /\ past = FALSE

At(c, pc) == calls[c].pc = pc
Goto(c, new) == calls' = [calls EXCEPT ![c] = new]
Continue(c, pc) == Goto(c, [calls[c] EXCEPT !.pc = pc])

\* What was asked stays on view beside the answer.
Answer(c, outcome, account) ==
  Goto(c, [calls[c] EXCEPT !.pc = outcome, !.answer = account])

-----------------------------------------------------------------------------
(* createLead                                                              *)

\* The company is found by its name, in the transaction that will create it.
\* A duplicate of the contact is only warned of.
FindCompany(c) ==
  /\ At(c, "idle")
  /\ \E firm \in IF companies = {} THEN {None} ELSE companies :
       Goto(c, [Idle EXCEPT !.pc = "found", !.company = firm])
  /\ UNCHANGED <<book, profiles, sellable, past>>

\* mutant of CompanyFor: a company is made for every lead
CompanyForEach(c) == c

\* Names are not unique.
CompanyFor(c) == IF calls[c].company = None THEN c ELSE calls[c].company

CreateLead(c) ==
  LET firm == CompanyFor(c) IN
    /\ At(c, "found")
    /\ companies' = companies \cup {firm}
    /\ contacts' = [contacts EXCEPT ![c] = [status |-> "LEAD", company |-> firm]]
    /\ opportunities' = [opportunities EXCEPT ![c] = "OPEN"]
    /\ past' = (past \/ (firm \notin companies /\ calls[c].late))
    /\ calls' = [d \in Calls |->
                   IF d = c THEN [Idle EXCEPT !.pc = "done"]
                   ELSE IF At(d, "found") THEN [calls[d] EXCEPT !.late = TRUE]
                   ELSE calls[d]]
    /\ UNCHANGED <<accounts, keys, profiles, sellable>>

-----------------------------------------------------------------------------
(* convert                                                                 *)

\* A key that is on record answers with its account, whoever it was made for.
Convert(c) ==
  \E p \in People, firm \in companies \cup {None}, key \in Keys \cup {None} :
    /\ At(c, "idle")
    /\ contacts[p] # None
    /\ LET call == [Idle EXCEPT !.contact = p, !.company = firm, !.key = key] IN
         Goto(c, IF key # None /\ keys[key] # None
                 THEN [call EXCEPT !.pc = "answered", !.answer = keys[key]]
                 ELSE [call EXCEPT !.pc = "scope"])
    /\ UNCHANGED <<book, profiles, sellable, past>>

\* The contact, its open opportunity, and the company: the one asked for or the
\* contact's own.
ResolveScope(c) ==
  LET p == calls[c].contact IN
    /\ At(c, "scope")
    /\ IF opportunities[p] # "OPEN" THEN Answer(c, "notfound", None)
       ELSE Goto(c, [calls[c] EXCEPT
                       !.pc = "check",
                       !.company = IF @ = None THEN contacts[p].company ELSE @])
    /\ UNCHANGED <<book, profiles, sellable, past>>

\* Accounts of this contact or this company.
Rivals(p, firm) ==
  {a \in accounts : a.contact = p \/ (firm # None /\ a.company = firm)}

\* The offer is sellable, and neither has been converted.
CheckDuplicate(c) ==
  /\ At(c, "check")
  /\ IF ~sellable THEN Answer(c, "unsellable", None)
     ELSE IF Rivals(calls[c].contact, calls[c].company) # {}
     THEN Answer(c, "conflict", None)
     ELSE Continue(c, "insert")
  /\ UNCHANGED <<book, profiles, sellable, past>>

\* The unique indexes of ClientAccount.
Unique(a, b) ==
  a.contact # b.contact /\ (a.company = None \/ a.company # b.company)

RowOf(c) == [contact |-> calls[c].contact, company |-> calls[c].company]

InsertAccount(c) ==
  /\ At(c, "insert")
  /\ \A d \in Calls \ {c} : calls[d].pc \in Holding => Unique(RowOf(c), RowOf(d))
  /\ Continue(c, IF \A a \in accounts : Unique(RowOf(c), a) THEN "profile" ELSE "recover")
  /\ UNCHANGED <<book, profiles, sellable, past>>

\* The client entity is the company when there is one.
Subject(c) == IF calls[c].company # None THEN calls[c].company ELSE calls[c].contact

FindProfile(c) ==
  /\ At(c, "profile")
  /\ Continue(c, IF Subject(c) \in profiles THEN "commit" ELSE "open")
  /\ UNCHANGED <<book, profiles, sellable, past>>

\* Someone else may have opened it: the insert is then a unique violation like
\* any other.
OpenProfile(c) ==
  /\ At(c, "open")
  /\ IF Subject(c) \in profiles
     THEN /\ Goto(c, [calls[c] EXCEPT !.pc = "recover", !.raced = TRUE])
          /\ UNCHANGED profiles
     ELSE /\ profiles' = profiles \cup {Subject(c)}
          /\ Continue(c, "commit")
  /\ UNCHANGED <<book, sellable, past>>

\* The key is written last; one that another conversion has written undoes this
\* one.
CommitConversion(c) ==
  LET call == calls[c] IN
    /\ At(c, "commit")
    /\ IF call.key # None /\ keys[call.key] # None
       THEN /\ Continue(c, "recover")
            /\ UNCHANGED <<accounts, keys, contacts, opportunities>>
       ELSE /\ accounts' = accounts \cup {RowOf(c)}
            /\ keys' = [k \in Keys |-> IF k = call.key THEN call.contact ELSE keys[k]]
            /\ contacts' = [contacts EXCEPT ![call.contact].status = "CUSTOMER"]
            /\ opportunities' = [opportunities EXCEPT ![call.contact] = "WON"]
            /\ Answer(c, "answered", call.contact)
    /\ UNCHANGED <<companies, profiles, sellable, past>>

\* mutant of Recovered: the loser of any race answers with the last account
RecoveredAnyhow(call) == IF accounts = {} THEN None ELSE (CHOOSE a \in accounts : TRUE).contact

\* After a unique violation: the account of the key, if it is on record.
Recovered(call) == IF call.key = None THEN None ELSE keys[call.key]

Recover(c) ==
  LET account == Recovered(calls[c]) IN
    /\ At(c, "recover")
    /\ Answer(c, IF account = None THEN "conflict" ELSE "answered", account)
    /\ UNCHANGED <<book, profiles, sellable, past>>

-----------------------------------------------------------------------------

\* The process dies: the transaction is rolled back.
Crash(c) ==
  /\ calls[c].pc \in Working
  /\ Continue(c, "crashed")
  /\ UNCHANGED <<book, profiles, sellable, past>>

\* Other parts of the system open profiles, close opportunities and retire the
\* offer.
OtherProfile ==
  \E s \in {p \in Known : contacts[p] # None} \cup companies :
    /\ profiles' = profiles \cup {s}
    /\ UNCHANGED <<book, sellable, calls, past>>

LoseOpportunity ==
  \E p \in Known :
    /\ opportunities[p] = "OPEN"
    /\ opportunities' = [opportunities EXCEPT ![p] = "LOST"]
    /\ UNCHANGED <<contacts, companies, accounts, keys, profiles, sellable, calls, past>>

RetireOffer ==
  /\ sellable
  /\ sellable' = FALSE
  /\ UNCHANGED <<book, profiles, calls, past>>

Step(c) ==
  \/ FindCompany(c) \/ CreateLead(c)
  \/ Convert(c) \/ ResolveScope(c) \/ CheckDuplicate(c) \/ InsertAccount(c)
  \/ FindProfile(c) \/ OpenProfile(c) \/ CommitConversion(c) \/ Recover(c)
  \/ Crash(c)

Next == OtherProfile \/ LoseOpportunity \/ RetireOffer \/ \E c \in Calls : Step(c)

Spec == Init /\ [][Next]_vars

-----------------------------------------------------------------------------
(* Properties.                                                             *)

TypesHold ==
  /\ contacts \in [People -> [status : {"LEAD", "CUSTOMER"},
                              company : Companies \cup {None}] \cup {None}]
  /\ companies \subseteq Companies
  /\ opportunities \in [People -> {"OPEN", "WON", "LOST", None}]
  /\ accounts \subseteq Account
  /\ keys \in [Keys -> People \cup {None}]
  /\ profiles \subseteq People \cup Companies
  /\ \A c \in Calls : calls[c].answer \in People \cup {None}

\* A conversion that is answered with a client names one that exists, and the
\* client of the contact it was asked to convert, unless its key was used for
\* another contact as well; no contact and no company becomes two clients
\* (ClientAccountService.convert).
AnswersOwnClient ==
  /\ \A a, b \in accounts :
       a = b \/ (a.contact # b.contact /\ (a.company = None \/ a.company # b.company))
  /\ \A c \in Calls : At(c, "answered") =>
       /\ \E a \in accounts : a.contact = calls[c].answer
       /\ \/ calls[c].answer = calls[c].contact
          \/ \E d \in Calls : calls[d].key = calls[c].key /\ calls[d].contact # calls[c].contact

\* A caller who is told that the contact or the company has already been
\* converted is told the truth, unless the profile of the client was opened by
\* someone else while the conversion was about to (the catch of convert).
ConflictsAreTrue ==
  \A c \in Calls : At(c, "conflict") =>
    \/ calls[c].raced
    \/ Rivals(calls[c].contact, calls[c].company) # {}

\* Two leads that name the same company share it, unless both looked for it
\* before either had made it (LeadService.createLead).
LeadsShareACompany == past \/ Cardinality(companies) <= 1 \/ companies \subseteq Firms
=============================================================================
