---------------------------- MODULE Dom26rMemory ----------------------------
(***************************************************************************)
(* What one business unit remembers of the people it deals with            *)
(* (backend/src/modules/dom26r).                                           *)
(*                                                                         *)
(* Facts are captured as engrams or proposed as candidates that somebody   *)
(* approves or rejects; engrams are corrected, forgotten and cited in      *)
(* briefs; consent is granted and withdrawn.  Every operation reads its    *)
(* row, judges what it read, writes in a transaction that tests nothing    *)
(* again, and then writes its audit event by itself.                       *)
(***************************************************************************)
EXTENDS FiniteSets

CONSTANTS
  Subjects,     \* contacts and companies of the business unit
  Candidates,   \* rows the MemoryCandidate table may get
  Engrams,      \* rows the Engram table may get
  Directives,   \* rows the ConsentDirective table may get
  Issued,       \* candidates and engrams that exist at start-up
  Calls,        \* the HTTP calls made; each is one process
  Redacted,     \* 'REDACTED / FORGOTTEN'
  None          \* null

ASSUME IssuedAssumption == Issued \subseteq Candidates \cup Engrams
ASSUME NullAssumption ==
  /\ None \notin Subjects \cup Candidates \cup Engrams \cup Directives \cup Calls
  /\ Redacted \notin Calls \cup {None}

VARIABLES
  profiles,     \* how far each subject is known: subject row, profile row
  candidates,   \* the MemoryCandidate table
  engrams,      \* the Engram table
  approvals,    \* the MemoryApproval table
  corrections,  \* the MemoryCorrection table
  briefs,       \* BriefEvidence: which call's brief cites which engram
  directives,   \* the ConsentDirective table: status
  audit,        \* the MemoryAuditEvent table: who did what
  calls,        \* the local state of every call
  commits,      \* history: calls whose writes have committed
  knew          \* history: those that had when a call read its row

vars == <<profiles, candidates, engrams, approvals, corrections, briefs,
          directives, audit, calls, commits, knew>>

history == <<commits, knew>>

-----------------------------------------------------------------------------

\* A text is named for the call that wrote it; None is one from before.
Texts == Calls \cup {None, Redacted}

CandidateRows == [status  : {"ABSENT", "PENDING", "APPROVED", "REJECTED"},
                  subject : Subjects \cup {None},
                  maker   : Calls \cup {None}]

EngramRows == [state   : {"ABSENT", "ACTIVE", "DELETED"},
               subject : Subjects \cup {None},
               text    : Texts,
               origin  : Candidates \cup {None},     \* promoted from
               maker   : Calls \cup {None}]

Candidate(status, s, c) == [status |-> status, subject |-> s, maker |-> c]

Engram(state, s, text, k, c) ==
  [state |-> state, subject |-> s, text |-> text, origin |-> k, maker |-> c]

NoCandidate == Candidate("ABSENT", None, None)
NoEngram == Engram("ABSENT", None, None, None, None)

\* CONVERT stands for the facts of a conversion, OPEN for the pages that only
\* want the profile of a client.
Capturing == {"CAPTURE", "PROPOSE", "CONVERT", "OPEN"}
Reviewing == {"APPROVE", "REJECT"}
Kinds == Capturing \cup Reviewing \cup
           {"NONE", "CORRECT", "FORGET", "BRIEF", "GRANT", "WITHDRAW"}

Ended == {"done", "refused", "failed"}

CallPcs == {"idle", "subject", "newSubject", "profile", "newProfile", "read",
            "write", "audit"} \cup Ended

CallStates == [pc      : CallPcs,
               kind    : Kinds,
               subject : Subjects \cup {None},
               target  : Candidates \cup Engrams \cup Directives \cup {None},
               saw     : Texts]                      \* the text it read

Idle == [pc |-> "idle", kind |-> "NONE", subject |-> None, target |-> None, saw |-> None]

Init ==
  /\ profiles \in [Subjects -> {"none", "subject", "profile"}]
  /\ candidates \in [Candidates ->
       {NoCandidate} \cup {Candidate("PENDING", s, None) : s \in Subjects}]
  /\ engrams \in [Engrams ->
       {NoEngram} \cup {Engram("ACTIVE", s, None, None, None) : s \in Subjects}]
  /\ \A k \in Candidates :
       /\ candidates[k] # NoCandidate <=> k \in Issued
       /\ candidates[k] # NoCandidate => profiles[candidates[k].subject] = "profile"
  /\ \A e \in Engrams :
       /\ engrams[e] # NoEngram <=> e \in Issued
       /\ engrams[e] # NoEngram => profiles[engrams[e].subject] = "profile"
  /\ approvals = {} /\ corrections = {} /\ briefs = {} /\ audit = {}
  /\ directives = [d \in Directives |-> "ABSENT"]
  /\ calls = [c \in Calls |-> Idle]
  /\ commits = {}
  /\ knew = [c \in Calls |-> {}]

Goto(c, pc) == calls' = [calls EXCEPT ![c].pc = pc]

At(c, pc) == calls[c].pc = pc

Doing(c, kind) == calls[c].kind = kind

\* A step of a call that writes no table.
Turn(c, pc) ==
  /\ Goto(c, pc)
  /\ UNCHANGED <<profiles, candidates, engrams, approvals, corrections, briefs,
                 directives, audit, history>>

\* Call c ends before it has committed, and its locals go.
Abandon(c, pc) ==
  /\ calls' = [calls EXCEPT ![c] = [Idle EXCEPT !.pc = pc]]
  /\ knew' = [knew EXCEPT ![c] = {}]
  /\ UNCHANGED <<profiles, candidates, engrams, approvals, corrections, briefs,
                 directives, audit, commits>>

Begin(c, kind, s, x) ==
  /\ At(c, "idle")
  /\ calls' = [calls EXCEPT ![c] =
       [pc |-> IF kind \in Capturing THEN "subject" ELSE "read",
        kind |-> kind, subject |-> s, target |-> x, saw |-> None]]
  /\ UNCHANGED <<profiles, candidates, engrams, approvals, corrections, briefs,
                 directives, audit, history>>

-----------------------------------------------------------------------------
(* getOrCreateProfile, always outside the transaction of its caller.       *)

Known(c) == profiles[calls[c].subject]

SetKnown(c, level, pc) ==
  /\ profiles' = [profiles EXCEPT ![calls[c].subject] = level]
  /\ Goto(c, pc)
  /\ UNCHANGED <<candidates, engrams, approvals, corrections, briefs,
                 directives, audit, history>>

AfterProfile(c) == IF Doing(c, "OPEN") THEN "done" ELSE "write"

FindSubject(c) ==
  At(c, "subject") /\ Turn(c, IF Known(c) = "none" THEN "newSubject" ELSE "profile")

\* contactId and companyId are unique: the second insert throws.
CreateSubject(c) ==
  /\ At(c, "newSubject")
  /\ IF Known(c) = "none" THEN SetKnown(c, "subject", "profile") ELSE Abandon(c, "failed")

FindProfile(c) ==
  At(c, "profile") /\ Turn(c, IF Known(c) = "profile" THEN AfterProfile(c) ELSE "newProfile")

CreateProfile(c) ==
  /\ At(c, "newProfile")
  /\ IF Known(c) # "profile" THEN SetKnown(c, "profile", AfterProfile(c)) ELSE Abandon(c, "failed")

-----------------------------------------------------------------------------
(* What each operation reads, and how it judges it.                        *)

Target(c) == calls[c].target

Reads(c, kinds) == At(c, "read") /\ calls[c].kind \in kinds

\* Call c goes on to its write with the text it read.
Accept(c, text) ==
  /\ calls' = [calls EXCEPT ![c].pc = "write", ![c].saw = text]
  /\ knew' = [knew EXCEPT ![c] = commits]
  /\ UNCHANGED <<profiles, candidates, engrams, approvals, corrections, briefs,
                 directives, audit, commits>>

\* Mutant of Reviewable: a decided candidate may be decided again.
ReviewableAlways(k) == candidates[k].status # "ABSENT"
Reviewable(k) == candidates[k].status = "PENDING"

ReadCandidate(c) ==
  /\ Reads(c, Reviewing)
  /\ IF Reviewable(Target(c)) THEN Accept(c, None) ELSE Abandon(c, "refused")

CorrectableAlways(e) == engrams[e].state # "ABSENT"   \* mutant of Correctable
Correctable(e) == engrams[e].state = "ACTIVE"

\* A forgotten engram can be read, and forgotten again.
ReadEngram(c) ==
  LET e == Target(c)
  IN  /\ Reads(c, {"CORRECT", "FORGET"})
      /\ IF IF Doing(c, "CORRECT") THEN Correctable(e) ELSE engrams[e].state # "ABSENT"
           THEN Accept(c, engrams[e].text)
           ELSE Abandon(c, "refused")

\* Profiles and the subject of an engram never change: two reads in one.
ReadEvidence(c) ==
  LET e == Target(c)
  IN  /\ Reads(c, {"BRIEF"})
      /\ IF Known(c) = "profile" /\ engrams[e].state # "ABSENT"
              /\ engrams[e].subject = calls[c].subject
           THEN Accept(c, engrams[e].text)
           ELSE Abandon(c, "refused")

ReadForConsent(c) ==
  /\ Reads(c, {"GRANT", "WITHDRAW"})
  /\ IF IF Doing(c, "GRANT") THEN Known(c) = "profile"
                             ELSE directives[Target(c)] = "GRANTED"
       THEN Accept(c, None)
       ELSE Abandon(c, "refused")

-----------------------------------------------------------------------------
(* What it writes: one transaction, judged by what was read.               *)

Writes(c, kind) == At(c, "write") /\ Doing(c, kind)

\* The transaction commits, and the audit event is next.
Commit(c) == Goto(c, "audit") /\ commits' = commits \cup {c} /\ UNCHANGED knew

Create(c, k) ==
  /\ candidates[k].status = "ABSENT"
  /\ candidates' = [candidates EXCEPT ![k] = Candidate("PENDING", calls[c].subject, c)]

Insert(e, row) ==
  /\ engrams[e].state = "ABSENT"
  /\ engrams' = [engrams EXCEPT ![e] = row]

Capture(c, e) == Insert(e, Engram("ACTIVE", calls[c].subject, c, None, c))

CreateCandidate(c) ==
  /\ Writes(c, "PROPOSE")
  /\ \E k \in Candidates : Create(c, k)
  /\ Commit(c)
  /\ UNCHANGED <<profiles, engrams, approvals, corrections, briefs, directives, audit>>

CreateEngram(c) ==
  /\ Writes(c, "CAPTURE")
  /\ \E e \in Engrams : Capture(c, e)
  /\ Commit(c)
  /\ UNCHANGED <<profiles, candidates, approvals, corrections, briefs, directives, audit>>

FactEvents(c) == {<<c, "PROPOSE">>, <<c, "CAPTURE">>}

\* Mutant of RecordFacts: the audit events are not part of the transaction.
RecordFactsAuditedFirst(c) ==
  /\ Writes(c, "CONVERT")
  /\ IF FactEvents(c) \subseteq audit
       THEN /\ \E k \in Candidates, e \in Engrams : Create(c, k) /\ Capture(c, e)
            /\ Goto(c, "done")
            /\ commits' = commits \cup {c}
            /\ UNCHANGED <<audit, knew>>
       ELSE /\ audit' = audit \cup FactEvents(c)
            /\ UNCHANGED <<candidates, engrams, calls, history>>
  /\ UNCHANGED <<profiles, approvals, corrections, briefs, directives>>

\* recordConversionFacts, in the transaction of a conversion: the rows and their
\* audit events commit with it, or not at all.
RecordFacts(c) ==
  /\ Writes(c, "CONVERT")
  /\ \E k \in Candidates, e \in Engrams : Create(c, k) /\ Capture(c, e)
  /\ audit' = audit \cup FactEvents(c)
  /\ Goto(c, "done")
  /\ commits' = commits \cup {c}
  /\ UNCHANGED <<profiles, approvals, corrections, briefs, directives, knew>>

Decision(c, status) == [call |-> c, candidate |-> Target(c), status |-> status]

Decide(c, status) ==
  /\ approvals' = approvals \cup {Decision(c, status)}
  /\ candidates' = [candidates EXCEPT ![Target(c)].status = status]

Promoted(c) ==
  Engram("ACTIVE", candidates[Target(c)].subject, None, Target(c), c)

\* Mutant of Promote: the engram is created after the transaction.
PromoteInTwo(c) ==
  /\ Writes(c, "APPROVE")
  /\ IF Decision(c, "APPROVED") \in approvals
       THEN /\ \E e \in Engrams : Insert(e, Promoted(c))
            /\ Commit(c)
            /\ UNCHANGED <<approvals, candidates>>
       ELSE Decide(c, "APPROVED") /\ UNCHANGED <<engrams, calls, history>>
  /\ UNCHANGED <<profiles, corrections, briefs, directives, audit>>

Promote(c) ==
  /\ Writes(c, "APPROVE")
  /\ Decide(c, "APPROVED")
  /\ \E e \in Engrams : Insert(e, Promoted(c))
  /\ Commit(c)
  /\ UNCHANGED <<profiles, corrections, briefs, directives, audit>>

Reject(c) ==
  /\ Writes(c, "REJECT")
  /\ Decide(c, "REJECTED")
  /\ Commit(c)
  /\ UNCHANGED <<profiles, engrams, corrections, briefs, directives, audit>>

\* The correction keeps the text that was read; the update replaces the text
\* that is there (history: over).
Correct(c) ==
  LET e == Target(c)
  IN  /\ Writes(c, "CORRECT")
      /\ corrections' = corrections \cup
           {[call |-> c, engram |-> e, before |-> calls[c].saw, over |-> engrams[e].text]}
      /\ engrams' = [engrams EXCEPT ![e].text = c]
      /\ Commit(c)
      /\ UNCHANGED <<profiles, candidates, approvals, briefs, directives, audit>>

Forget(c) ==
  /\ Writes(c, "FORGET")
  /\ engrams' = [engrams EXCEPT ![Target(c)].text = Redacted, ![Target(c)].state = "DELETED"]
  /\ Commit(c)
  /\ UNCHANGED <<profiles, candidates, approvals, corrections, briefs, directives, audit>>

Cite(c) ==
  /\ Writes(c, "BRIEF")
  /\ briefs' = briefs \cup {<<c, Target(c)>>}
  /\ Commit(c)
  /\ UNCHANGED <<profiles, candidates, engrams, approvals, corrections, directives, audit>>

Grant(c) ==
  /\ Writes(c, "GRANT")
  /\ \E d \in Directives :
       /\ directives[d] = "ABSENT"
       /\ directives' = [directives EXCEPT ![d] = "GRANTED"]
  /\ Commit(c)
  /\ UNCHANGED <<profiles, candidates, engrams, approvals, corrections, briefs, audit>>

Withdraw(c) ==
  /\ Writes(c, "WITHDRAW")
  /\ directives' = [directives EXCEPT ![Target(c)] = "WITHDRAWN"]
  /\ Commit(c)
  /\ UNCHANGED <<profiles, candidates, engrams, approvals, corrections, briefs, audit>>

\* Dom26rAuditService.record, a statement of its own.
Record(c) ==
  /\ At(c, "audit")
  /\ audit' = audit \cup {<<c, calls[c].kind>>}
  /\ Goto(c, "done")
  /\ UNCHANGED <<profiles, candidates, engrams, approvals, corrections, briefs,
                 directives, history>>

\* A statement fails or the process dies: an open transaction is rolled back.
Fail(c) ==
  /\ calls[c].pc \notin {"idle"} \cup Ended
  /\ IF At(c, "audit") THEN Turn(c, "failed") ELSE Abandon(c, "failed")

-----------------------------------------------------------------------------

Write(c) ==
  \/ CreateCandidate(c) \/ CreateEngram(c) \/ RecordFacts(c)
  \/ Promote(c) \/ Reject(c) \/ Correct(c) \/ Forget(c)
  \/ Cite(c) \/ Grant(c) \/ Withdraw(c)

Proceed(c) ==
  \/ FindSubject(c) \/ CreateSubject(c) \/ FindProfile(c) \/ CreateProfile(c)
  \/ ReadCandidate(c) \/ ReadEngram(c) \/ ReadEvidence(c) \/ ReadForConsent(c)
  \/ Write(c) \/ Record(c)

Request(c) ==
  \/ \E s \in Subjects, kind \in Capturing \cup {"GRANT"} : Begin(c, kind, s, None)
  \/ \E k \in Candidates, kind \in Reviewing : Begin(c, kind, None, k)
  \/ \E e \in Engrams, kind \in {"CORRECT", "FORGET"} : Begin(c, kind, None, e)
  \/ \E s \in Subjects, e \in Engrams : Begin(c, "BRIEF", s, e)
  \/ \E d \in Directives : Begin(c, "WITHDRAW", None, d)

Next == \E c \in Calls : Request(c) \/ Proceed(c) \/ Fail(c)

Spec == Init /\ [][Next]_vars

-----------------------------------------------------------------------------
(* Safety.                                                                 *)

TypeOK ==
  /\ profiles \in [Subjects -> {"none", "subject", "profile"}]
  /\ candidates \in [Candidates -> CandidateRows]
  /\ engrams \in [Engrams -> EngramRows]
  /\ approvals \subseteq
       [call : Calls, candidate : Candidates, status : {"APPROVED", "REJECTED"}]
  /\ corrections \subseteq [call : Calls, engram : Engrams, before : Texts, over : Texts]
  /\ briefs \subseteq Calls \X Engrams
  /\ directives \in [Directives -> {"ABSENT", "GRANTED", "WITHDRAWN"}]
  /\ audit \subseteq Calls \X Kinds
  /\ calls \in [Calls -> CallStates]
  /\ commits \subseteq Calls
  /\ knew \in [Calls -> SUBSET Calls]

\* What the audit event of an action says that call c has done.
Did(c, action) ==
  \/ action = "PROPOSE" /\ \E k \in Candidates : candidates[k].maker = c
  \/ action = "CAPTURE" /\ \E e \in Engrams : engrams[e].maker = c /\ engrams[e].origin = None
  \/ action = "APPROVE" /\ Decision(c, "APPROVED") \in approvals
  \/ action = "REJECT" /\ Decision(c, "REJECTED") \in approvals
  \/ action = "CORRECT" /\ \E r \in corrections : r.call = c /\ r.engram = Target(c)
  \/ action = "FORGET" /\ engrams[Target(c)].state = "DELETED"
  \/ action = "BRIEF" /\ <<c, Target(c)>> \in briefs
  \/ action = "GRANT" /\ \E d \in Directives : directives[d] # "ABSENT"
  \/ action = "WITHDRAW" /\ directives[Target(c)] = "WITHDRAWN"

\* No event of success for what never happened, not even when a conversion that
\* recorded facts is rolled back ("would leave a false SUCCESS audit event").
AuditIsTruthful == \A a \in audit : Did(a[1], a[2])

\* However reviews race or fail, what was promoted was approved, each approval
\* promoted one engram, and the state of a candidate is one that was decided.
DecisionsAreOnRecord ==
  /\ \A k \in Candidates : candidates[k].status \in {"APPROVED", "REJECTED"} =>
       \E a \in approvals : a.candidate = k /\ a.status = candidates[k].status
  /\ \A a \in approvals : a.status = "APPROVED" =>
       \E e \in Engrams :
         /\ engrams[e].maker = a.call /\ engrams[e].origin = a.candidate
         /\ \A x \in Engrams : engrams[x].maker = a.call => x = e
  /\ \A e \in Engrams : engrams[e].origin # None =>
       \E a \in approvals : /\ a.call = engrams[e].maker /\ a.status = "APPROVED"
                            /\ a.candidate = engrams[e].origin

\* Events and decisions say what is in the tables, whatever failed after they were
\* written (recordEvent, review).
RecordsAreTruthful == AuditIsTruthful /\ DecisionsAreOnRecord

\* Neither of two calls had seen what the other wrote.
Overlap(c, d) == c \notin knew[d] /\ d \notin knew[c]

\* A candidate is decided twice, or both ways, only by reviews that overlapped.
DecisionsCollideOnlyByOverlap ==
  \A a, b \in approvals :
    a.candidate = b.candidate /\ a.call # b.call => Overlap(a.call, b.call)

\* Call d has forgotten engram e.
Forgot(d, e) == d \in commits /\ Doing(d, "FORGET") /\ Target(d) = e

\* A text is replaced without being kept in the trail, or comes back to an engram
\* that was forgotten, only by a correction that overlapped the call whose
\* writing it misses.
CorrectionsMissOnlyOverlaps ==
  /\ \A r \in corrections : r.over # r.before =>
       \A d \in Calls : r.over = d \/ (r.over = Redacted /\ Forgot(d, r.engram)) =>
         d \notin knew[r.call]
  /\ \A e \in Engrams : engrams[e].state = "DELETED" /\ engrams[e].text # Redacted =>
       /\ engrams[e].text \in Calls
       /\ \A d \in Calls : Forgot(d, e) => d \notin knew[engrams[e].text]

\* Nobody's decision or text is lost unless two requests about it overlapped
\* (review, correct, forget).
LossesNeedOverlap == DecisionsCollideOnlyByOverlap /\ CorrectionsMissOnlyOverlaps

-----------------------------------------------------------------------------
(* The inductive invariant behind them.                                    *)

\* What the kind of a call says of its target, and its commit of its place.
CallsOK ==
  \A c \in Calls :
    /\ calls[c].kind \in Reviewing => Target(c) \in Candidates
    /\ calls[c].kind \in {"CORRECT", "FORGET", "BRIEF"} => Target(c) \in Engrams
    /\ Doing(c, "WITHDRAW") => Target(c) \in Directives
    /\ calls[c].pc \in {"subject", "newSubject", "profile", "newProfile"} =>
         calls[c].kind \in Capturing
    /\ c \in commits => calls[c].pc \in {"audit"} \cup Ended
    /\ knew[c] \subseteq commits

\* Rows are written by calls that have committed.
RowsOK ==
  /\ \A k \in Candidates : candidates[k].status = "ABSENT" => candidates[k].maker = None
  /\ \A e \in Engrams :
       /\ engrams[e].state = "ABSENT" => engrams[e] = NoEngram
       /\ {engrams[e].maker, engrams[e].text} \subseteq commits \cup {None, Redacted}
  /\ \A a \in approvals :
       a.call \in commits /\ candidates[a.candidate].status \in {"APPROVED", "REJECTED"}
  /\ \A r \in corrections : r.call \in commits

\* What an event is about to say, or said, of a call that has committed is so.
AuditOK ==
  /\ \A a \in audit :
       a[1] \in commits /\ a[2] \in {calls[a[1]].kind, "PROPOSE", "CAPTURE"}
  /\ \A c \in Calls : At(c, "audit") => c \in commits /\ Did(c, calls[c].kind)
  /\ \A c \in commits : Doing(c, "FORGET") => engrams[Target(c)].state = "DELETED"

\* A review or a correction about to write knows nothing of what came between.
PendingOK ==
  \A c \in Calls : At(c, "write") =>
    /\ calls[c].kind \in Reviewing =>
         \A a \in approvals : a.candidate = Target(c) => a.call \notin knew[c]
    /\ Doing(c, "CORRECT") =>
         /\ engrams[Target(c)].state # "ABSENT"
         /\ \A d \in Calls : Forgot(d, Target(c)) => d \notin knew[c]
         /\ engrams[Target(c)].text # calls[c].saw => engrams[Target(c)].text \notin knew[c]

\* It is inductive, and implies the properties above.
IInv ==
  /\ TypeOK /\ CallsOK /\ RowsOK /\ AuditOK /\ PendingOK
  /\ AuditIsTruthful /\ DecisionsAreOnRecord
  /\ DecisionsCollideOnlyByOverlap /\ CorrectionsMissOnlyOverlaps

-----------------------------------------------------------------------------
(* A statement of a comment in the code, which it does not keep (README,   *)
(* section 6).                                                             *)

\* engram.service.ts: "A forgotten engram's redaction is the guarantee, not a
\* draft state".
ForgottenStaysRedacted ==
  \A e \in Engrams : engrams[e].state = "DELETED" => engrams[e].text = Redacted
=============================================================================
