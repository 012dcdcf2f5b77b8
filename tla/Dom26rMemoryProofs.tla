------------------------- MODULE Dom26rMemoryProofs -------------------------
(***************************************************************************)
(* Proofs about Dom26rMemory, for any number of calls, subjects and rows.  *)
(***************************************************************************)
EXTENDS Dom26rMemory, TLAPS

-----------------------------------------------------------------------------
(* The two ways a call takes a step.                                       *)

tables == <<candidates, engrams, approvals, corrections, briefs, directives>>

\* Only call c moves; once it has committed it keeps its kind and its target.
Advances(c) ==
  /\ calls' \in [Calls -> CallStates]
  /\ knew' \in [Calls -> SUBSET Calls]
  /\ \A d \in Calls \ {c} : calls'[d] = calls[d] /\ knew'[d] = knew[d]
  /\ c \in commits => /\ calls'[c].kind = calls[c].kind
                      /\ calls'[c].target = calls[c].target
                      /\ calls'[c].pc \in Ended
                      /\ knew'[c] = knew[c]

\* What a call may be after a step that wrote no row of memory.
FitsAfter(c, s) ==
  /\ s.kind \in Reviewing => s.target \in Candidates
  /\ s.kind \in {"CORRECT", "FORGET", "BRIEF"} => s.target \in Engrams
  /\ s.kind = "WITHDRAW" => s.target \in Directives
  /\ s.pc \in {"subject", "newSubject", "profile", "newProfile"} => s.kind \in Capturing
  /\ s.pc # "audit"
  /\ s.pc = "write" =>
       /\ s.kind \in Reviewing => candidates[s.target].status = "PENDING"
       /\ s.kind = "CORRECT" => engrams[s.target].state = "ACTIVE" /\ engrams[s.target].text = s.saw

\* A step that reads, judges, sets up a profile, audits or ends.
Reading(c) ==
  /\ UNCHANGED <<tables, commits>>
  /\ Advances(c)
  /\ knew'[c] \subseteq commits
  /\ FitsAfter(c, calls'[c])
  /\ audit' = audit \/ (At(c, "audit") /\ audit' = audit \cup {<<c, calls[c].kind>>})
  /\ profiles' \in [Subjects -> {"none", "subject", "profile"}]

\* The transaction of a call.
Writing(c) ==
  /\ c \notin commits
  /\ commits' = commits \cup {c}
  /\ knew' = knew
  /\ profiles' = profiles
  /\ At(c, "write")
  /\ \E pc \in {"audit", "done"} : calls' = [calls EXCEPT ![c].pc = pc]
  /\ calls'[c].pc = "audit" <=> calls[c].kind # "CONVERT"

LEMMA WriteWrites ==
  ASSUME TypeOK, CallsOK, NEW c \in Calls, Write(c)
  PROVE  Writing(c)
<1>1. At(c, "write") => c \notin commits
  BY DEF CallsOK, At, Ended
<1>2. ASSUME Commit(c), At(c, "write"), ~Doing(c, "CONVERT"), profiles' = profiles PROVE Writing(c)
  BY <1>1, <1>2 DEF TypeOK, Commit, Goto, At, Doing, Writing, CallStates
<1>3. CASE RecordFacts(c)
  BY <1>1, <1>3 DEF TypeOK, RecordFacts, Writes, Goto, At, Doing, Writing, CallStates
<1>4. QED
  BY <1>2, <1>3 DEF Write, Writes, Doing, CreateCandidate, CreateEngram, Promote, Reject, Correct,
                    Forget, Cite, Grant, Withdraw

LEMMA OthersRead ==
  ASSUME TypeOK, CallsOK, NEW c \in Calls, Request(c) \/ Proceed(c) \/ Fail(c), ~Write(c)
  PROVE  Reading(c)
<1>1. /\ calls \in [Calls -> CallStates] /\ knew \in [Calls -> SUBSET Calls]
      /\ profiles \in [Subjects -> {"none", "subject", "profile"}]
      /\ commits \subseteq Calls
      /\ knew[c] \subseteq commits
      /\ c \in commits => calls[c].pc \in {"audit"} \cup Ended
  BY DEF TypeOK, CallsOK
<1> DEFINE Stays(s) == /\ s.kind = calls[c].kind /\ s.target = calls[c].target
                       /\ s.saw = calls[c].saw
<1>2. ASSUME NEW pc \in CallPcs, Goto(c, pc), knew' = knew, pc \notin {"audit"},
             pc = "write" => calls[c].kind \in Capturing,
             pc \in {"newSubject", "profile", "newProfile"} => calls[c].kind \in Capturing,
             pc # "subject",
             c \in commits => pc \in Ended
      PROVE  Advances(c) /\ knew'[c] \subseteq commits /\ FitsAfter(c, calls'[c])
  <2>1. /\ calls' \in [Calls -> CallStates]
        /\ \A d \in Calls \ {c} : calls'[d] = calls[d]
        /\ calls'[c].pc = pc /\ calls'[c].kind = calls[c].kind
        /\ calls'[c].target = calls[c].target
    BY <1>1, <1>2 DEF Goto, CallStates
  <2>2. Advances(c) /\ knew'[c] \subseteq commits
    BY <1>1, <1>2, <2>1 DEF Advances
  <2>3. FitsAfter(c, calls'[c])
    BY <1>2, <2>1 DEF FitsAfter, CallsOK, Target, Doing, Capturing, Reviewing
  <2>4. QED
    BY <2>2, <2>3
<1>3. ASSUME NEW pc \in {"refused", "failed"}, Abandon(c, pc), c \notin commits PROVE Reading(c)
  <2>1. [Idle EXCEPT !.pc = pc] \in CallStates
    BY DEF Idle, CallStates, CallPcs, Ended, Kinds, Texts
  <2>2. /\ calls' \in [Calls -> CallStates] /\ calls'[c] = [Idle EXCEPT !.pc = pc]
        /\ \A d \in Calls \ {c} : calls'[d] = calls[d]
    BY <1>1, <1>3, <2>1 DEF Abandon
  <2>3. FitsAfter(c, calls'[c])
    BY <2>2 DEF FitsAfter, Idle, Reviewing, Capturing
  <2>4. Advances(c) /\ knew'[c] \subseteq commits
    BY <1>1, <1>3, <2>2 DEF Abandon, Advances
  <2>5. QED
    BY <1>1, <1>3, <2>3, <2>4 DEF Abandon, Reading, tables
<1>4. ASSUME NEW pc \in CallPcs, Turn(c, pc), pc # "audit", pc # "subject",
             pc = "write" => calls[c].kind \in Capturing,
             pc \in {"newSubject", "profile", "newProfile"} => calls[c].kind \in Capturing,
             c \in commits => pc \in Ended
      PROVE  Reading(c)
  BY <1>1, <1>2, <1>4 DEF Turn, history, Reading, tables
<1>5. ASSUME NEW text \in Texts, Accept(c, text), At(c, "read"),
             calls[c].kind \in Reviewing => candidates[Target(c)].status = "PENDING",
             Doing(c, "CORRECT") =>
               engrams[Target(c)].state = "ACTIVE" /\ engrams[Target(c)].text = text
      PROVE  Reading(c)
  <2>1. /\ calls' \in [Calls -> CallStates]
        /\ \A d \in Calls \ {c} : calls'[d] = calls[d]
        /\ calls'[c].pc = "write" /\ calls'[c].saw = text
        /\ calls'[c].kind = calls[c].kind /\ calls'[c].target = calls[c].target
    BY <1>1, <1>5 DEF Accept, CallStates, CallPcs
  <2>2. /\ knew' \in [Calls -> SUBSET Calls] /\ knew'[c] = commits
        /\ \A d \in Calls \ {c} : knew'[d] = knew[d]
    BY <1>1, <1>5 DEF Accept
  <2>3. c \notin commits
    BY <1>1, <1>5 DEF At, Ended
  <2>4. FitsAfter(c, calls'[c])
    BY <1>5, <2>1 DEF FitsAfter, CallsOK, Target, Doing
  <2>5. QED
    BY <1>1, <1>5, <2>1, <2>2, <2>3, <2>4 DEF Accept, Reading, Advances, tables
<1>6. CASE Request(c)
  <2>1. ASSUME NEW kind \in Kinds, NEW s \in Subjects \cup {None},
               NEW x \in Candidates \cup Engrams \cup Directives \cup {None},
               Begin(c, kind, s, x),
               kind \in Reviewing => x \in Candidates,
               kind \in {"CORRECT", "FORGET", "BRIEF"} => x \in Engrams,
               kind = "WITHDRAW" => x \in Directives
        PROVE  Reading(c)
    <3> DEFINE b == [pc |-> IF kind \in Capturing THEN "subject" ELSE "read",
                     kind |-> kind, subject |-> s, target |-> x, saw |-> None]
    <3>1. b \in CallStates
      BY <2>1 DEF CallStates, CallPcs, Texts
    <3>2. FitsAfter(c, b)
      BY <2>1 DEF FitsAfter
    <3>3. calls' = [calls EXCEPT ![c] = b]
      BY <2>1 DEF Begin
    <3> HIDE DEF b
    <3>4. calls'[c] = b /\ calls' \in [Calls -> CallStates] /\ \A d \in Calls \ {c} : calls'[d] = calls[d]
      BY <1>1, <3>1, <3>3
    <3>5. c \notin commits
      BY <1>1, <2>1 DEF Begin, At, Ended
    <3>6. QED
      BY <1>1, <2>1, <3>2, <3>4, <3>5 DEF Begin, Reading, Advances, tables, history
  <2>2. QED
    BY <1>6, <2>1 DEF Request, Kinds, Capturing, Reviewing
<1>7. ASSUME At(c, "subject") \/ At(c, "newSubject") \/ At(c, "profile") \/ At(c, "newProfile")
      PROVE  calls[c].kind \in Capturing /\ c \notin commits
  BY <1>1, <1>7 DEF CallsOK, At, Ended
<1>8. ASSUME NEW level \in {"subject", "profile"}, NEW pc \in {"profile", "done", "write"},
             SetKnown(c, level, pc), calls[c].kind \in Capturing, c \notin commits
      PROVE  Reading(c)
  BY <1>1, <1>2, <1>8 DEF SetKnown, history, Reading, tables, CallPcs, Ended
<1>9. AfterProfile(c) \in {"done", "write"}
  BY DEF AfterProfile
<1>10. CASE FindSubject(c)
  BY <1>4, <1>7, <1>10 DEF FindSubject, CallPcs
<1>11. CASE CreateSubject(c)
  BY <1>3, <1>7, <1>8, <1>11 DEF CreateSubject
<1>12. CASE FindProfile(c)
  BY <1>4, <1>7, <1>9, <1>12 DEF FindProfile, CallPcs, Ended
<1>13. CASE CreateProfile(c)
  BY <1>3, <1>7, <1>8, <1>9, <1>13 DEF CreateProfile
<1>14. At(c, "read") => c \notin commits
  BY <1>1 DEF At, Ended
<1>15. CASE ReadCandidate(c)
  BY <1>3, <1>5, <1>14, <1>15 DEF ReadCandidate, Reads, Reviewable, Doing, Reviewing, Texts
<1>16. CASE ReadEngram(c)
  <2>1. Target(c) \in Engrams /\ engrams[Target(c)].text \in Texts
    BY <1>16 DEF ReadEngram, Reads, CallsOK, TypeOK, EngramRows
  <2>2. QED
    BY <1>3, <1>5, <1>14, <1>16, <2>1 DEF ReadEngram, Reads, Correctable, Doing, Reviewing
<1>17. CASE ReadEvidence(c)
  <2>1. Target(c) \in Engrams /\ engrams[Target(c)].text \in Texts
    BY <1>17 DEF ReadEvidence, Reads, CallsOK, TypeOK, EngramRows
  <2>2. QED
    BY <1>3, <1>5, <1>14, <1>17, <2>1 DEF ReadEvidence, Reads, Doing, Reviewing
<1>18. CASE ReadForConsent(c)
  BY <1>3, <1>5, <1>14, <1>18 DEF ReadForConsent, Reads, Doing, Reviewing, Texts
<1>19. CASE Record(c)
  <2>1. Advances(c) /\ knew'[c] \subseteq commits /\ FitsAfter(c, calls'[c])
    BY <1>2, <1>19 DEF Record, history, CallPcs, Ended
  <2>2. QED
    BY <1>1, <1>19, <2>1 DEF Record, Reading, tables, history
<1>20. CASE Fail(c)
  BY <1>1, <1>3, <1>4, <1>20 DEF Fail, At, CallPcs, Ended
<1>21. QED
  BY <1>6, <1>10, <1>11, <1>12, <1>13, <1>15, <1>16, <1>17, <1>18, <1>19, <1>20 DEF Proceed

-----------------------------------------------------------------------------
(* What the calls do with the tables.                                      *)

\* Rows and events are never taken back, and keep their makers.
Grows ==
  /\ \A k \in Candidates : candidates[k].maker # None => candidates'[k].maker = candidates[k].maker
  /\ \A e \in Engrams :
       /\ engrams[e].state # "ABSENT" => /\ engrams'[e].maker = engrams[e].maker
                                         /\ engrams'[e].origin = engrams[e].origin
                                         /\ engrams'[e].state # "ABSENT"
       /\ engrams[e].state = "DELETED" => engrams'[e].state = "DELETED"
  /\ approvals \subseteq approvals' /\ corrections \subseteq corrections' /\ briefs \subseteq briefs'
  /\ \A d \in Directives :
       /\ directives[d] # "ABSENT" => directives'[d] # "ABSENT"
       /\ directives[d] = "WITHDRAWN" => directives'[d] = "WITHDRAWN"

LEMMA WriteGrows ==
  ASSUME TypeOK, CallsOK, RowsOK, NEW c \in Calls, Write(c)
  PROVE  Grows
<1>1. ASSUME NEW k \in Candidates, Create(c, k)
      PROVE  \A x \in Candidates : candidates[x].maker # None => candidates'[x].maker = candidates[x].maker
  BY <1>1 DEF TypeOK, RowsOK, Create
<1>2. ASSUME NEW e \in Engrams, NEW row \in EngramRows, row.state # "ABSENT", Insert(e, row)
      PROVE  \A x \in Engrams :
               /\ engrams[x].state # "ABSENT" => engrams'[x] = engrams[x]
               /\ engrams[x].state = "DELETED" => engrams'[x].state = "DELETED"
  BY <1>2 DEF TypeOK, Insert
<1>3. calls[c] \in CallStates
  BY DEF TypeOK
<1>4. Engram("ACTIVE", calls[c].subject, c, None, c) \in EngramRows
  BY <1>3 DEF CallStates, Engram, EngramRows, Texts
<1>5. CASE CreateCandidate(c)
  BY <1>1, <1>5 DEF CreateCandidate, Grows
<1>6. CASE CreateEngram(c)
  BY <1>2, <1>4, <1>6 DEF CreateEngram, Capture, Engram, Grows
<1>7. CASE RecordFacts(c)
  <2>1. PICK k \in Candidates, e \in Engrams : Create(c, k) /\ Capture(c, e)
    BY <1>7 DEF RecordFacts
  <2>2. QED
    BY <1>1, <1>2, <1>4, <1>7, <2>1 DEF RecordFacts, Capture, Engram, Grows
<1>8. ASSUME NEW status \in {"APPROVED", "REJECTED"}, Decide(c, status)
      PROVE  /\ approvals \subseteq approvals'
             /\ \A k \in Candidates : candidates'[k].maker = candidates[k].maker
  BY <1>8 DEF TypeOK, Decide, CandidateRows
<1>9. CASE Promote(c)
  <2>1. Target(c) \in Candidates
    BY <1>9 DEF Promote, Writes, Doing, CallsOK, Reviewing
  <2>2. Promoted(c) \in EngramRows /\ Promoted(c).state # "ABSENT"
    BY <2>1 DEF TypeOK, CandidateRows, Promoted, Engram, EngramRows, Texts
  <2>3. QED
    BY <1>2, <1>8, <1>9, <2>2 DEF Promote, Grows
<1>10. CASE Reject(c)
  BY <1>8, <1>10 DEF Reject, Grows
<1>11. CASE Correct(c)
  BY <1>11 DEF Correct, TypeOK, EngramRows, Grows
<1>12. CASE Forget(c)
  <2>1. \A x \in Engrams : /\ engrams'[x].maker = engrams[x].maker
                           /\ engrams'[x].origin = engrams[x].origin
                           /\ engrams'[x].state \in {engrams[x].state, "DELETED"}
    BY <1>12 DEF Forget, TypeOK, EngramRows
  <2>2. QED
    BY <1>12, <2>1 DEF Forget, Grows
<1>13. CASE Cite(c)
  BY <1>13 DEF Cite, Grows
<1>14. CASE Grant(c)
  BY <1>14 DEF Grant, Grows, TypeOK
<1>15. CASE Withdraw(c)
  BY <1>15 DEF Withdraw, Grows, TypeOK
<1>16. QED
  BY <1>5, <1>6, <1>7, <1>9, <1>10, <1>11, <1>12, <1>13, <1>14, <1>15 DEF Write

\* What is said of a call stays true while its target does.
LEMMA DidStays ==
  ASSUME RowsOK, Grows, NEW c \in Calls, NEW action, Did(c, action),
         calls'[c].target = calls[c].target,
         action = "FORGET" => Target(c) \in Engrams,
         action = "WITHDRAW" => Target(c) \in Directives
  PROVE  Did(c, action)'
<1>1. c # None
  BY NullAssumption
<1>2. CASE action = "PROPOSE"
  BY <1>1, <1>2 DEF Did, Grows
<1>3. CASE action = "CAPTURE"
  <2>1. PICK e \in Engrams : engrams[e].maker = c /\ engrams[e].origin = None
    BY <1>3 DEF Did
  <2>2. engrams[e].state # "ABSENT"
    BY <1>1, <2>1 DEF RowsOK, NoEngram, Engram
  <2>3. QED
    BY <1>3, <2>1, <2>2 DEF Did, Grows
<1>4. CASE action \in {"APPROVE", "REJECT"}
  BY <1>4 DEF Did, Grows, Decision, Target
<1>5. CASE action \in {"CORRECT", "BRIEF"}
  BY <1>5 DEF Did, Grows, Target
<1>6. CASE action \in {"FORGET", "GRANT", "WITHDRAW"}
  BY <1>6 DEF Did, Grows, Target
<1>7. QED
  BY <1>2, <1>3, <1>4, <1>5, <1>6 DEF Did

\* What a transaction of call c makes of candidate k.
CandidateAfter(c, k) ==
  \/ candidates'[k] = candidates[k]
  \/ /\ candidates[k].status = "ABSENT"
     /\ candidates'[k].status = "PENDING" /\ candidates'[k].maker = c
  \/ /\ calls[c].kind \in Reviewing /\ k = Target(c)
     /\ candidates'[k].status \in {"APPROVED", "REJECTED"}
     /\ candidates'[k].maker = candidates[k].maker

\* The review of a call, if it is one, decides its target.
ReviewAfter(c) ==
  IF calls[c].kind \in Reviewing
    THEN /\ Target(c) \in Candidates
         /\ candidates'[Target(c)].status = IF Doing(c, "APPROVE") THEN "APPROVED" ELSE "REJECTED"
         /\ approvals' = approvals \cup {Decision(c, candidates'[Target(c)].status)}
    ELSE approvals' = approvals

\* What it makes of engram e.
EngramAfter(c, e) ==
  \/ engrams'[e] = engrams[e]
  \/ /\ engrams[e].state = "ABSENT" /\ engrams'[e].state = "ACTIVE"
     /\ engrams'[e].maker = c /\ engrams'[e].text \in {c, None}
     /\ engrams'[e].origin # None => Doing(c, "APPROVE") /\ engrams'[e].origin = Target(c)
  \/ /\ e = Target(c)
     /\ engrams'[e].maker = engrams[e].maker /\ engrams'[e].origin = engrams[e].origin
     /\ \/ Doing(c, "CORRECT") /\ engrams'[e].text = c /\ engrams'[e].state = engrams[e].state
        \/ Doing(c, "FORGET") /\ engrams'[e].text = Redacted /\ engrams'[e].state = "DELETED"

\* The correction of a call, if it is one.
CorrectionAfter(c) ==
  IF Doing(c, "CORRECT")
    THEN /\ Target(c) \in Engrams
         /\ corrections' = corrections \cup
              {[call |-> c, engram |-> Target(c), before |-> calls[c].saw,
                over |-> engrams[Target(c)].text]}
    ELSE corrections' = corrections

LEMMA WriteCandidates ==
  ASSUME TypeOK, CallsOK, NEW c \in Calls, Write(c)
  PROVE  ReviewAfter(c) /\ \A k \in Candidates : CandidateAfter(c, k)
<1>1. ASSUME NEW k \in Candidates, Create(c, k) PROVE \A x \in Candidates : CandidateAfter(c, x)
  BY <1>1 DEF TypeOK, Create, Candidate, CandidateAfter
<1>2. ASSUME NEW status \in {"APPROVED", "REJECTED"}, Decide(c, status), calls[c].kind \in Reviewing,
             status = IF Doing(c, "APPROVE") THEN "APPROVED" ELSE "REJECTED"
      PROVE  ReviewAfter(c) /\ \A x \in Candidates : CandidateAfter(c, x)
  <2>1. Target(c) \in Candidates
    BY <1>2 DEF CallsOK
  <2>2. candidates' = [candidates EXCEPT ![Target(c)].status = status]
    BY <1>2 DEF Decide
  <2>3. candidates'[Target(c)].status = status
    BY <2>1, <2>2 DEF TypeOK, CandidateRows
  <2>4. \A x \in Candidates : CandidateAfter(c, x)
    BY <1>2, <2>1, <2>2 DEF CandidateAfter, TypeOK, CandidateRows
  <2>5. QED
    BY <1>2, <2>1, <2>3, <2>4 DEF ReviewAfter, Decide
<1>3. ASSUME candidates' = candidates PROVE \A x \in Candidates : CandidateAfter(c, x)
  BY <1>3 DEF CandidateAfter
<1>4. CASE Promote(c)
  BY <1>2, <1>4 DEF Promote, Writes, Doing, Reviewing
<1>5. CASE Reject(c)
  BY <1>2, <1>5 DEF Reject, Writes, Doing, Reviewing
<1>6. CASE CreateCandidate(c)
  BY <1>1, <1>6 DEF CreateCandidate, Writes, Doing, Reviewing, ReviewAfter
<1>7. CASE RecordFacts(c)
  BY <1>1, <1>7 DEF RecordFacts, Writes, Doing, Reviewing, ReviewAfter
<1>8. QED
  BY <1>3, <1>4, <1>5, <1>6, <1>7
     DEF Write, Writes, Doing, Reviewing, ReviewAfter, CreateEngram, Correct, Forget, Cite, Grant,
         Withdraw

LEMMA WriteEngrams ==
  ASSUME TypeOK, CallsOK, NEW c \in Calls, Write(c)
  PROVE  CorrectionAfter(c) /\ \A e \in Engrams : EngramAfter(c, e)
<1>1. ASSUME NEW e \in Engrams, Capture(c, e) PROVE \A x \in Engrams : EngramAfter(c, x)
  BY <1>1 DEF TypeOK, Capture, Insert, Engram, EngramAfter
<1>2. CASE Promote(c)
  <2>1. PICK e \in Engrams : Insert(e, Promoted(c))
    BY <1>2 DEF Promote
  <2>2. \A x \in Engrams : EngramAfter(c, x)
    BY <1>2, <2>1 DEF TypeOK, Promote, Writes, Promoted, Insert, Engram, EngramAfter
  <2>3. QED
    BY <1>2, <2>2 DEF Promote, Writes, Doing, CorrectionAfter
<1>3. CASE Correct(c)
  <2>1. Target(c) \in Engrams /\ Doing(c, "CORRECT")
    BY <1>3 DEF Correct, Writes, Doing, CallsOK
  <2>2. \A x \in Engrams : EngramAfter(c, x)
    BY <1>3, <2>1 DEF TypeOK, EngramRows, Correct, EngramAfter
  <2>3. QED
    BY <1>3, <2>1, <2>2 DEF Correct, CorrectionAfter
<1>4. CASE Forget(c)
  <2>1. Doing(c, "FORGET")
    BY <1>4 DEF Forget, Writes
  <2>2. \A x \in Engrams : EngramAfter(c, x)
    BY <1>4, <2>1 DEF TypeOK, EngramRows, Forget, EngramAfter
  <2>3. QED
    BY <1>4, <2>1, <2>2 DEF Forget, Doing, CorrectionAfter
<1>5. CASE CreateEngram(c)
  BY <1>1, <1>5 DEF CreateEngram, Writes, Doing, CorrectionAfter
<1>6. CASE RecordFacts(c)
  BY <1>1, <1>6 DEF RecordFacts, Writes, Doing, CorrectionAfter
<1>7. ASSUME engrams' = engrams PROVE \A x \in Engrams : EngramAfter(c, x)
  BY <1>7 DEF EngramAfter
<1>8. QED
  BY <1>2, <1>3, <1>4, <1>5, <1>6, <1>7
     DEF Write, Writes, Doing, CorrectionAfter, CreateCandidate, Reject, Cite, Grant, Withdraw

\* What a transaction makes true is what its audit event will say.
LEMMA WriteDoes ==
  ASSUME TypeOK, CallsOK, NEW c \in Calls, Write(c)
  PROVE  /\ ~Doing(c, "CONVERT") => Did(c, calls[c].kind)' /\ audit' = audit
         /\ Doing(c, "CONVERT") => /\ Did(c, "PROPOSE")' /\ Did(c, "CAPTURE")'
                                   /\ audit' = audit \cup FactEvents(c)
<1>1. Writing(c)
  BY WriteWrites
<1>2. Target(c)' = Target(c) /\ (calls'[c]).kind = calls[c].kind
  BY <1>1 DEF Writing, TypeOK, CallStates, Target
<1>3. ASSUME NEW k \in Candidates, Create(c, k) PROVE Did(c, "PROPOSE")'
  BY <1>3 DEF TypeOK, Create, Candidate, Did
<1>4. ASSUME NEW e \in Engrams, Capture(c, e) PROVE Did(c, "CAPTURE")'
  BY <1>4 DEF TypeOK, Capture, Insert, Engram, Did
<1>5. CASE CreateCandidate(c)
  BY <1>2, <1>3, <1>5 DEF CreateCandidate, Writes, Doing
<1>6. CASE CreateEngram(c)
  BY <1>2, <1>4, <1>6 DEF CreateEngram, Writes, Doing
<1>7. CASE RecordFacts(c)
  BY <1>3, <1>4, <1>7 DEF RecordFacts, Writes, Doing
<1>8. CASE Promote(c)
  BY <1>2, <1>8 DEF Promote, Writes, Doing, Decide, Decision, Did
<1>9. CASE Reject(c)
  BY <1>2, <1>9 DEF Reject, Writes, Doing, Decide, Decision, Did
<1>10. CASE Correct(c)
  <2> DEFINE row == [call |-> c, engram |-> Target(c), before |-> calls[c].saw,
                     over |-> engrams[Target(c)].text]
  <2>1. row \in corrections' /\ row.call = c /\ row.engram = Target(c)
    BY <1>10 DEF Correct
  <2> HIDE DEF row
  <2>2. \E r \in corrections' : r.call = c /\ r.engram = Target(c)
    BY <2>1
  <2>3. QED
    BY <1>2, <1>10, <2>2 DEF Correct, Writes, Doing, Did
<1>11. CASE Forget(c)
  <2>1. Target(c) \in Engrams
    BY <1>11 DEF Forget, Writes, Doing, CallsOK
  <2>2. engrams'[Target(c)].state = "DELETED"
    BY <1>11, <2>1 DEF Forget, TypeOK, EngramRows
  <2>3. QED
    BY <1>2, <1>11, <2>2 DEF Forget, Writes, Doing, Did
<1>12. CASE Cite(c)
  BY <1>2, <1>12 DEF Cite, Writes, Doing, Did
<1>13. CASE Grant(c)
  <2>1. \E d \in Directives : directives'[d] # "ABSENT"
    BY <1>13 DEF Grant, TypeOK
  <2>2. QED
    BY <1>2, <1>13, <2>1 DEF Grant, Writes, Doing, Did
<1>14. CASE Withdraw(c)
  <2>1. Target(c) \in Directives
    BY <1>14 DEF Withdraw, Writes, Doing, CallsOK
  <2>2. directives'[Target(c)] = "WITHDRAWN"
    BY <1>14, <2>1 DEF Withdraw, TypeOK
  <2>3. QED
    BY <1>2, <1>14, <2>2 DEF Withdraw, Writes, Doing, Did
<1>15. QED
  BY <1>5, <1>6, <1>7, <1>8, <1>9, <1>10, <1>11, <1>12, <1>13, <1>14 DEF Write

-----------------------------------------------------------------------------
(* The inductive invariant, part by part.                                  *)

LEMMA WriteTypes ==
  ASSUME TypeOK, CallsOK, NEW c \in Calls, Write(c)
  PROVE  TypeOK'
<1>1. /\ calls[c] \in CallStates
      /\ Writing(c)
  BY WriteWrites DEF TypeOK
<1>2. /\ profiles' \in [Subjects -> {"none", "subject", "profile"}]
      /\ calls' \in [Calls -> CallStates]
      /\ commits' \subseteq Calls /\ knew' \in [Calls -> SUBSET Calls]
  BY <1>1 DEF TypeOK, Writing, CallStates, CallPcs, Ended
<1> DEFINE OK == /\ candidates' \in [Candidates -> CandidateRows]
                 /\ engrams' \in [Engrams -> EngramRows]
                 /\ approvals' \subseteq
                      [call : Calls, candidate : Candidates, status : {"APPROVED", "REJECTED"}]
                 /\ corrections' \subseteq
                      [call : Calls, engram : Engrams, before : Texts, over : Texts]
                 /\ briefs' \subseteq Calls \X Engrams
                 /\ directives' \in [Directives -> {"ABSENT", "GRANTED", "WITHDRAWN"}]
                 /\ audit' \subseteq Calls \X Kinds
<1> SUFFICES OK
  BY <1>2 DEF TypeOK
<1>3. ASSUME NEW k \in Candidates, Create(c, k) PROVE candidates' \in [Candidates -> CandidateRows]
  BY <1>1, <1>3 DEF TypeOK, Create, Candidate, CandidateRows, CallStates
<1>4. ASSUME NEW e \in Engrams, NEW row \in EngramRows, Insert(e, row)
      PROVE  engrams' \in [Engrams -> EngramRows]
  BY <1>4 DEF TypeOK, Insert
<1>5. Engram("ACTIVE", calls[c].subject, c, None, c) \in EngramRows
  BY <1>1 DEF CallStates, Engram, EngramRows, Texts
<1>6. ASSUME NEW status \in {"APPROVED", "REJECTED"}, Decide(c, status), Target(c) \in Candidates
      PROVE  /\ candidates' \in [Candidates -> CandidateRows]
             /\ approvals' \subseteq
                  [call : Calls, candidate : Candidates, status : {"APPROVED", "REJECTED"}]
  BY <1>6 DEF TypeOK, Decide, Decision, CandidateRows
<1>7. CASE CreateCandidate(c)
  BY <1>3, <1>7 DEF TypeOK, CreateCandidate
<1>8. CASE CreateEngram(c)
  BY <1>4, <1>5, <1>8 DEF TypeOK, CreateEngram, Capture
<1>9. CASE RecordFacts(c)
  <2>1. audit' \subseteq Calls \X Kinds
    BY <1>9 DEF TypeOK, RecordFacts, FactEvents, Kinds, Capturing
  <2>2. QED
    BY <1>3, <1>4, <1>5, <1>9, <2>1 DEF TypeOK, RecordFacts, Capture
<1>10. CASE Promote(c)
  <2>1. Target(c) \in Candidates
    BY <1>10 DEF Promote, Writes, Doing, CallsOK, Reviewing
  <2>2. Promoted(c) \in EngramRows
    BY <2>1 DEF TypeOK, CandidateRows, Promoted, Engram, EngramRows, Texts
  <2>3. QED
    BY <1>4, <1>6, <1>10, <2>1, <2>2 DEF TypeOK, Promote
<1>11. CASE Reject(c)
  <2>1. Target(c) \in Candidates
    BY <1>11 DEF Reject, Writes, Doing, CallsOK, Reviewing
  <2>2. QED
    BY <1>6, <1>11, <2>1 DEF TypeOK, Reject
<1>12. CASE Correct(c)
  <2>1. Target(c) \in Engrams
    BY <1>12 DEF Correct, Writes, Doing, CallsOK
  <2>2. [engrams[Target(c)] EXCEPT !.text = c] \in EngramRows
    BY <2>1 DEF TypeOK, EngramRows, Texts
  <2>3. engrams' \in [Engrams -> EngramRows]
    BY <1>12, <2>1, <2>2 DEF TypeOK, Correct
  <2>4. engrams[Target(c)].text \in Texts /\ calls[c].saw \in Texts
    BY <1>1, <2>1 DEF TypeOK, EngramRows, CallStates
  <2>5. corrections' \subseteq [call : Calls, engram : Engrams, before : Texts, over : Texts]
    BY <1>12, <2>1, <2>4 DEF TypeOK, Correct
  <2>6. QED
    BY <1>12, <2>3, <2>5 DEF TypeOK, Correct
<1>13. CASE Forget(c)
  <2>1. \A e \in Engrams : [engrams[e] EXCEPT !.text = Redacted] \in EngramRows
    BY DEF TypeOK, EngramRows, Texts
  <2>2. \A row \in EngramRows : [row EXCEPT !.state = "DELETED"] \in EngramRows
    BY DEF EngramRows
  <2>3. Target(c) \in Engrams
    BY <1>13 DEF Forget, Writes, Doing, CallsOK
  <2>4. engrams' \in [Engrams -> EngramRows]
    BY <1>13, <2>1, <2>2, <2>3 DEF TypeOK, Forget
  <2>5. QED
    BY <1>13, <2>4 DEF TypeOK, Forget
<1>14. CASE Cite(c)
  <2>1. Target(c) \in Engrams
    BY <1>14 DEF Cite, Writes, Doing, CallsOK
  <2>2. QED
    BY <1>14, <2>1 DEF TypeOK, Cite
<1>15. CASE Grant(c)
  BY <1>15 DEF TypeOK, Grant
<1>16. CASE Withdraw(c)
  BY <1>16 DEF TypeOK, Withdraw
<1>17. QED
  BY <1>7, <1>8, <1>9, <1>10, <1>11, <1>12, <1>13, <1>14, <1>15, <1>16 DEF Write

\* Reading steps write no row, and so keep what is said of rows.
LEMMA ReadingKeeps ==
  ASSUME IInv, NEW c \in Calls, Reading(c)
  PROVE  IInv'
<1>1. TypeOK /\ CallsOK /\ RowsOK /\ AuditOK /\ PendingOK
  BY DEF IInv
<1>2. /\ candidates' = candidates /\ engrams' = engrams /\ approvals' = approvals
      /\ corrections' = corrections /\ briefs' = briefs /\ directives' = directives
      /\ commits' = commits
      /\ Advances(c)
      /\ FitsAfter(c, calls'[c])
  BY DEF Reading, tables
<1>3. TypeOK'
  BY <1>1, <1>2 DEF TypeOK, Reading, Advances, CallStates
<1>4. CallsOK'
  <2>1. ASSUME NEW d \in Calls, d # c
        PROVE  calls'[d] = calls[d] /\ knew'[d] = knew[d]
    BY <1>2, <2>1 DEF Advances
  <2>2. c \in commits => calls'[c].pc \in Ended
    BY <1>2 DEF Advances
  <2>3. QED
    BY <1>1, <1>2, <2>1, <2>2 DEF CallsOK, Reading, FitsAfter, Target, Doing
<1>5. RowsOK'
  BY <1>1, <1>2 DEF RowsOK, NoEngram, Engram
<1>6. ASSUME NEW d \in commits
      PROVE  /\ d \in Calls
             /\ calls'[d].kind = calls[d].kind /\ calls'[d].target = calls[d].target
             /\ knew'[d] = knew[d]
  BY <1>1, <1>2, <1>6 DEF TypeOK, Advances
<1>7. Grows
  BY <1>2 DEF Grows
<1>8. ASSUME NEW d \in commits, NEW action, Did(d, action),
             action \in {calls[d].kind, "PROPOSE", "CAPTURE"}
      PROVE  Did(d, action)'
  BY <1>1, <1>6, <1>7, <1>8, DidStays DEF CallsOK, Doing, Target
<1>9. ASSUME NEW a \in audit'
      PROVE  a[1] \in commits /\ a[2] \in {calls[a[1]].kind, "PROPOSE", "CAPTURE"} /\ Did(a[1], a[2])
  <2>1. CASE a \in audit
    BY <1>1, <2>1 DEF AuditOK, IInv, AuditIsTruthful
  <2>2. CASE a = <<c, calls[c].kind>> /\ At(c, "audit")
    BY <1>1, <2>2 DEF AuditOK
  <2>3. QED
    BY <1>9, <2>1, <2>2 DEF Reading
<1>10. AuditIsTruthful'
  BY <1>8, <1>9 DEF AuditIsTruthful
<1>11. AuditOK'
  <2>1. ASSUME NEW d \in Calls, At(d, "audit")' PROVE d \in commits /\ Did(d, calls[d].kind)'
    <3>1. d # c /\ calls'[d] = calls[d]
      BY <1>2, <2>1 DEF FitsAfter, At, Advances
    <3>2. d \in commits /\ Did(d, calls[d].kind)
      BY <1>1, <2>1, <3>1 DEF AuditOK, At
    <3>3. QED
      BY <1>8, <3>1, <3>2
  <2>2. ASSUME NEW d \in commits, Doing(d, "FORGET")' PROVE (engrams[Target(d)].state = "DELETED")'
    BY <1>1, <1>2, <1>6, <2>2 DEF AuditOK, Doing, Target
  <2>3. QED
    BY <1>2, <1>6, <1>9, <2>1, <2>2 DEF AuditOK
<1>12. ASSUME NEW d \in Calls, NEW e, Forgot(d, e)' PROVE Forgot(d, e)
  BY <1>2, <1>6, <1>12 DEF Forgot, Doing, Target
<1>13. PendingOK'
  <2> SUFFICES ASSUME NEW d \in Calls, At(d, "write")'
               PROVE  /\ calls'[d].kind \in Reviewing =>
                           \A a \in approvals : a.candidate = Target(d)' => a.call \notin knew'[d]
                      /\ Doing(d, "CORRECT")' =>
                           /\ engrams[Target(d)'].state # "ABSENT"
                           /\ \A x \in Calls : Forgot(x, Target(d))' => x \notin knew'[d]
                           /\ engrams[Target(d)'].text # calls'[d].saw =>
                                engrams[Target(d)'].text \notin knew'[d]
    BY <1>2 DEF PendingOK
  <2>1. CASE d # c
    <3>1. calls'[d] = calls[d] /\ knew'[d] = knew[d] /\ Target(d)' = Target(d)
      BY <1>2, <2>1 DEF Advances, Target
    <3>2. \A x \in Calls : Forgot(x, Target(d))' => Forgot(x, Target(d))
      BY <1>12, <3>1 DEF Forgot
    <3>3. QED
      BY <1>1, <3>1, <3>2 DEF PendingOK, At, Doing
  <2>2. CASE d = c
    <3>1. /\ calls'[c].kind \in Reviewing => candidates[Target(c)'].status = "PENDING"
          /\ Doing(c, "CORRECT")' => /\ engrams[Target(c)'].state = "ACTIVE"
                                     /\ engrams[Target(c)'].text = calls'[c].saw
      BY <1>2, <2>2 DEF FitsAfter, Target, Doing, At
    <3>2. \A x \in Calls : Forgot(x, Target(c))' => engrams[Target(c)'].state = "DELETED"
      BY <1>1, <1>2, <1>6 DEF Forgot, AuditOK, Doing, Target
    <3>3. QED
      BY <1>1, <2>2, <3>1, <3>2 DEF RowsOK
  <2>3. QED
    BY <2>1, <2>2
<1>14. DecisionsAreOnRecord'
  BY <1>2 DEF IInv, DecisionsAreOnRecord
<1>15. DecisionsCollideOnlyByOverlap'
  BY <1>1, <1>2, <1>6 DEF IInv, DecisionsCollideOnlyByOverlap, Overlap, RowsOK
<1>16. CorrectionsMissOnlyOverlaps'
  <2>1. \A r \in corrections : knew'[r.call] = knew[r.call]
    BY <1>1, <1>6 DEF RowsOK
  <2>2. \A e \in Engrams : engrams[e].text \in Calls => knew'[engrams[e].text] = knew[engrams[e].text]
    BY <1>1, <1>6, NullAssumption DEF RowsOK
  <2>3. QED
    BY <1>2, <1>12, <2>1, <2>2 DEF IInv, CorrectionsMissOnlyOverlaps
<1>17. QED
  BY <1>3, <1>4, <1>5, <1>10, <1>11, <1>13, <1>14, <1>15, <1>16 DEF IInv

\* A call that writes is known to nobody, and no row is its work yet.
LEMMA WriterIsNew ==
  ASSUME IInv, NEW c \in Calls, Writing(c)
  PROVE  /\ \A d \in Calls : c \notin knew[d]
         /\ \A e \in Engrams : engrams[e].maker # c /\ engrams[e].text # c
         /\ \A a \in approvals : a.call # c
         /\ \A r \in corrections : r.call # c
         /\ \A a \in audit : a[1] # c
         /\ \A e : ~Forgot(c, e)
<1>1. c \notin commits /\ c # None /\ c # Redacted
  BY NullAssumption DEF Writing
<1>2. QED
  BY <1>1 DEF IInv, CallsOK, RowsOK, AuditOK, Forgot

LEMMA WriteKeepsRows ==
  ASSUME IInv, NEW c \in Calls, Write(c)
  PROVE  CallsOK' /\ RowsOK' /\ AuditOK' /\ AuditIsTruthful'
<1>1. TypeOK /\ CallsOK /\ RowsOK /\ AuditOK /\ AuditIsTruthful
  BY DEF IInv
<1>2. Writing(c) /\ Grows
  BY <1>1, WriteWrites, WriteGrows
<1>3. /\ \A d \in Calls : /\ calls'[d].kind = calls[d].kind
                          /\ calls'[d].target = calls[d].target
                          /\ d # c => calls'[d] = calls[d]
      /\ At(c, "write")
      /\ calls'[c].pc \in {"audit", "done"}
      /\ calls'[c].pc = "audit" <=> calls[c].kind # "CONVERT"
      /\ knew' = knew /\ commits' = commits \cup {c} /\ c \notin commits
  BY <1>1, <1>2 DEF Writing, TypeOK, CallStates
<1>4. CallsOK'
  BY <1>1, <1>3 DEF CallsOK, Target, Doing, Ended
<1>5. ReviewAfter(c) /\ \A k \in Candidates : CandidateAfter(c, k)
  BY <1>1, WriteCandidates
<1>6. CorrectionAfter(c) /\ \A e \in Engrams : EngramAfter(c, e)
  BY <1>1, WriteEngrams
<1>7. RowsOK'
  <2>1. ASSUME NEW k \in Candidates, candidates'[k].status = "ABSENT" PROVE candidates'[k].maker = None
    BY <1>1, <1>5, <2>1 DEF CandidateAfter, RowsOK
  <2>2. ASSUME NEW e \in Engrams
        PROVE  /\ engrams'[e].state = "ABSENT" => engrams'[e] = NoEngram
               /\ {engrams'[e].maker, engrams'[e].text} \subseteq commits' \cup {None, Redacted}
    <3>1. Doing(c, "CORRECT") /\ e = Target(c) => engrams[e].state # "ABSENT"
      BY <1>3 DEF IInv, PendingOK
    <3>2. CASE engrams'[e] = engrams[e]
      BY <1>1, <1>3, <3>2 DEF RowsOK
    <3>3. CASE engrams'[e] # engrams[e]
      <4>1. engrams'[e].state # "ABSENT"
        BY <1>6, <3>1, <3>3 DEF EngramAfter
      <4>2. engrams'[e].maker \in {c, engrams[e].maker} /\ engrams'[e].text \in {c, None, Redacted}
        BY <1>6, <3>3 DEF EngramAfter
      <4>3. QED
        BY <1>1, <1>3, <4>1, <4>2 DEF RowsOK
    <3>4. QED
      BY <3>2, <3>3
  <2>3. ASSUME NEW a \in approvals'
        PROVE  a.call \in commits' /\ candidates'[a.candidate].status \in {"APPROVED", "REJECTED"}
    <3>1. CASE a \in approvals
      <4>1. a.candidate \in Candidates
        BY <1>1, <3>1 DEF TypeOK
      <4>2. QED
        BY <1>1, <1>3, <1>5, <3>1, <4>1 DEF RowsOK, CandidateAfter
    <3>2. CASE a \notin approvals
      BY <1>3, <1>5, <2>3, <3>2 DEF ReviewAfter, Decision, Doing
    <3>3. QED
      BY <3>1, <3>2
  <2>4. ASSUME NEW r \in corrections' PROVE r.call \in commits'
    BY <1>1, <1>3, <1>6, <2>4 DEF RowsOK, CorrectionAfter
  <2>5. QED
    BY <2>1, <2>2, <2>3, <2>4, <1>3 DEF RowsOK, NoEngram, Engram
<1>8. ASSUME NEW d \in commits, NEW action, Did(d, action),
             action \in {calls[d].kind, "PROPOSE", "CAPTURE"}
      PROVE  Did(d, action)'
  <2>1. d \in Calls
    BY <1>1 DEF TypeOK
  <2>2. QED
    BY <1>1, <1>2, <1>3, <1>8, <2>1, DidStays DEF CallsOK, Doing, Target
<1>9. ASSUME NEW a \in audit'
      PROVE  /\ a[1] \in commits' /\ a[2] \in {calls[a[1]].kind, "PROPOSE", "CAPTURE"}
             /\ Did(a[1], a[2])'
  <2>1. CASE a \in audit
    <3>1. a[1] \in commits /\ a[2] \in {calls[a[1]].kind, "PROPOSE", "CAPTURE"} /\ Did(a[1], a[2])
      BY <1>1, <2>1 DEF AuditOK, AuditIsTruthful
    <3>2. QED
      BY <1>3, <1>8, <3>1
  <2>2. CASE a \notin audit
    <3>1. /\ Doing(c, "CONVERT") /\ a \in {<<c, "PROPOSE">>, <<c, "CAPTURE">>}
          /\ Did(c, "PROPOSE")' /\ Did(c, "CAPTURE")'
      BY <1>1, <1>9, <2>2, WriteDoes DEF FactEvents
    <3>2. QED
      BY <1>3, <3>1
  <2>3. QED
    BY <2>1, <2>2
<1>10. AuditIsTruthful'
  BY <1>9 DEF AuditIsTruthful
<1>11. AuditOK'
  <2>1. ASSUME NEW a \in audit'
        PROVE  (a[1] \in commits /\ a[2] \in {calls[a[1]].kind, "PROPOSE", "CAPTURE"})'
    <3>1. a[1] \in Calls
      BY <1>1, <1>3, <1>9 DEF TypeOK
    <3>2. QED
      BY <1>3, <1>9, <3>1
  <2>2. ASSUME NEW d \in Calls, At(d, "audit")' PROVE (d \in commits /\ Did(d, calls[d].kind))'
    <3>1. CASE d = c
      <4>1. ~Doing(c, "CONVERT")
        BY <1>3, <2>2, <3>1 DEF At, Doing
      <4>2. QED
        BY <1>1, <1>3, <3>1, <4>1, WriteDoes
    <3>2. CASE d # c
      <4>1. d \in commits /\ Did(d, calls[d].kind) /\ calls'[d] = calls[d]
        BY <1>1, <1>3, <2>2, <3>2 DEF AuditOK, At
      <4>2. QED
        BY <1>3, <1>8, <4>1
    <3>3. QED
      BY <3>1, <3>2
  <2>3. ASSUME NEW d \in commits', Doing(d, "FORGET")' PROVE (engrams[Target(d)].state = "DELETED")'
    <3>1. d \in Calls /\ Doing(d, "FORGET") /\ Target(d)' = Target(d) /\ Target(d) \in Engrams
      BY <1>1, <1>3, <2>3 DEF TypeOK, CallsOK, Doing, Target
    <3>2. CASE d = c
      <4>1. Did(c, calls[c].kind)'
        BY <1>1, <3>1, <3>2, WriteDoes DEF Doing
      <4>2. QED
        BY <1>3, <3>1, <3>2, <4>1 DEF Did, Doing
    <3>3. CASE d # c
      <4>1. engrams[Target(d)].state = "DELETED"
        BY <1>1, <1>3, <3>1, <3>3 DEF AuditOK
      <4>2. QED
        BY <1>2, <3>1, <4>1 DEF Grows
    <3>4. QED
      BY <3>2, <3>3
  <2>4. QED
    BY <2>1, <2>2, <2>3 DEF AuditOK
<1>12. QED
  BY <1>4, <1>7, <1>10, <1>11

LEMMA WriteKeepsDecisions ==
  ASSUME IInv, NEW c \in Calls, Write(c)
  PROVE  DecisionsAreOnRecord' /\ DecisionsCollideOnlyByOverlap'
<1>1. TypeOK /\ CallsOK /\ RowsOK /\ PendingOK /\ DecisionsAreOnRecord /\ DecisionsCollideOnlyByOverlap
  BY DEF IInv
<1>2. Writing(c)
  BY <1>1, WriteWrites
<1>3. /\ \A d \in Calls : c \notin knew[d]
      /\ \A e \in Engrams : engrams[e].maker # c
      /\ \A a \in approvals : a.call # c
      /\ knew' = knew /\ At(c, "write")
  BY <1>2, WriterIsNew DEF Writing
<1>4. ReviewAfter(c) /\ \A k \in Candidates : CandidateAfter(c, k)
  BY <1>1, WriteCandidates
<1>5. \A e \in Engrams : EngramAfter(c, e)
  BY <1>1, WriteEngrams
<1>6. approvals \subseteq approvals' /\ \A a \in approvals' \ approvals :
        /\ calls[c].kind \in Reviewing /\ a.call = c /\ a.candidate = Target(c)
        /\ a.status = "APPROVED" <=> Doing(c, "APPROVE")
  BY <1>4 DEF ReviewAfter, Decision
<1>7. ASSUME Doing(c, "APPROVE")
      PROVE  \E e \in Engrams :
               /\ engrams'[e].maker = c /\ engrams'[e].origin = Target(c)
               /\ \A x \in Engrams : engrams'[x].maker = c => x = e
  <2>1. Promote(c)
    BY <1>7 DEF Write, Writes, Doing, CreateCandidate, CreateEngram, RecordFacts, Reject, Correct,
                Forget, Cite, Grant, Withdraw
  <2>2. PICK e \in Engrams : Insert(e, Promoted(c))
    BY <2>1 DEF Promote
  <2>3. /\ engrams'[e].maker = c /\ engrams'[e].origin = Target(c)
        /\ \A x \in Engrams \ {e} : engrams'[x] = engrams[x]
    BY <1>1, <2>2 DEF TypeOK, Insert, Promoted, Engram
  <2>4. QED
    BY <1>3, <2>3
<1>8. ASSUME NEW k \in Candidates, candidates'[k].status \in {"APPROVED", "REJECTED"}
      PROVE  \E a \in approvals' : a.candidate = k /\ a.status = candidates'[k].status
  <2>1. CASE candidates'[k] = candidates[k]
    BY <1>1, <1>6, <1>8, <2>1 DEF DecisionsAreOnRecord
  <2>2. CASE candidates'[k] # candidates[k]
    <3>1. calls[c].kind \in Reviewing /\ k = Target(c)
      BY <1>4, <1>8, <2>2 DEF CandidateAfter
    <3>2. Decision(c, candidates'[k].status) \in approvals'
      BY <1>4, <3>1 DEF ReviewAfter
    <3>3. Decision(c, candidates'[k].status).candidate = k
          /\ Decision(c, candidates'[k].status).status = candidates'[k].status
      BY <3>1 DEF Decision
    <3>4. QED
      BY <3>2, <3>3
  <2>3. QED
    BY <2>1, <2>2
<1>9. ASSUME NEW a \in approvals', a.status = "APPROVED"
      PROVE  \E e \in Engrams :
               /\ engrams'[e].maker = a.call /\ engrams'[e].origin = a.candidate
               /\ \A x \in Engrams : engrams'[x].maker = a.call => x = e
  <2>1. CASE a \in approvals
    <3>1. a.call # c /\ a.call # None
      BY <1>1, <1>3, <2>1, NullAssumption DEF TypeOK
    <3>2. \A e \in Engrams : engrams'[e].maker = a.call <=> engrams[e].maker = a.call
      <4> SUFFICES ASSUME NEW e \in Engrams
                   PROVE  engrams'[e].maker = a.call <=> engrams[e].maker = a.call
        OBVIOUS
      <4>1. CASE engrams[e].state = "ABSENT" /\ engrams'[e].maker = c
        BY <1>1, <3>1, <4>1 DEF RowsOK, NoEngram, Engram
      <4>2. CASE engrams'[e].maker = engrams[e].maker
        BY <4>2
      <4>3. QED
        BY <1>5, <4>1, <4>2 DEF EngramAfter
    <3>3. PICK e \in Engrams : /\ engrams[e].maker = a.call /\ engrams[e].origin = a.candidate
                               /\ \A x \in Engrams : engrams[x].maker = a.call => x = e
      BY <1>1, <1>9, <2>1 DEF DecisionsAreOnRecord
    <3>4. engrams'[e].origin = engrams[e].origin
      BY <1>5, <3>1, <3>2, <3>3 DEF EngramAfter
    <3>5. QED
      BY <3>2, <3>3, <3>4
  <2>2. CASE a \notin approvals
    BY <1>6, <1>7, <1>9, <2>2
  <2>3. QED
    BY <2>1, <2>2
<1>10. ASSUME NEW e \in Engrams, engrams'[e].origin # None
       PROVE  \E a \in approvals' : /\ a.call = engrams'[e].maker /\ a.status = "APPROVED"
                                    /\ a.candidate = engrams'[e].origin
  <2>1. CASE engrams'[e].origin = engrams[e].origin /\ engrams'[e].maker = engrams[e].maker
    BY <1>1, <1>6, <1>10, <2>1 DEF DecisionsAreOnRecord
  <2>2. CASE /\ Doing(c, "APPROVE") /\ engrams'[e].origin = Target(c) /\ engrams'[e].maker = c
    <3>1. Decision(c, "APPROVED") \in approvals'
      BY <1>4, <2>2 DEF ReviewAfter, Doing, Reviewing
    <3>2. QED
      BY <2>2, <3>1 DEF Decision
  <2>3. QED
    BY <1>5, <1>10, <2>1, <2>2 DEF EngramAfter
<1>11. DecisionsAreOnRecord'
  BY <1>8, <1>9, <1>10 DEF DecisionsAreOnRecord
<1>12. \A a \in approvals : a.candidate = Target(c) /\ calls[c].kind \in Reviewing =>
         Overlap(a.call, c)
  BY <1>1, <1>3 DEF TypeOK, PendingOK, Overlap
<1>13. ASSUME NEW a \in approvals', NEW b \in approvals', a.candidate = b.candidate, a.call # b.call
       PROVE  Overlap(a.call, b.call)
  <2>1. CASE a \in approvals /\ b \in approvals
    BY <1>1, <1>13, <2>1 DEF DecisionsCollideOnlyByOverlap
  <2>2. CASE a \notin approvals \/ b \notin approvals
    BY <1>6, <1>12, <1>13, <2>2 DEF Overlap
  <2>3. QED
    BY <2>1, <2>2
<1>14. QED
  BY <1>3, <1>11, <1>13 DEF DecisionsCollideOnlyByOverlap, Overlap

LEMMA WriteKeepsCorrections ==
  ASSUME IInv, NEW c \in Calls, Write(c)
  PROVE  PendingOK' /\ CorrectionsMissOnlyOverlaps'
<1>1. TypeOK /\ CallsOK /\ RowsOK /\ AuditOK /\ PendingOK /\ CorrectionsMissOnlyOverlaps
  BY DEF IInv
<1>2. Writing(c)
  BY <1>1, WriteWrites
<1>3. /\ \A d \in Calls : c \notin knew[d]
      /\ \A r \in corrections : r.call # c
      /\ c # None /\ c # Redacted
      /\ knew' = knew /\ At(c, "write")
      /\ \A d \in Calls : /\ calls'[d].kind = calls[d].kind /\ Target(d)' = Target(d)
                          /\ d # c => calls'[d] = calls[d]
      /\ calls'[c].pc # "write"
      /\ commits' = commits \cup {c}
  <2>1. /\ \A d \in Calls : c \notin knew[d]
        /\ \A r \in corrections : r.call # c
    BY <1>2, WriterIsNew
  <2>2. /\ \A d \in Calls : /\ calls'[d].kind = calls[d].kind
                            /\ calls'[d].target = calls[d].target
                            /\ d # c => calls'[d] = calls[d]
        /\ calls'[c].pc # "write" /\ At(c, "write")
        /\ knew' = knew /\ commits' = commits \cup {c}
    BY <1>1, <1>2 DEF Writing, TypeOK, CallStates
  <2>3. QED
    BY <2>1, <2>2, NullAssumption DEF Target
<1>4. ReviewAfter(c)
  BY <1>1, WriteCandidates
<1>5. CorrectionAfter(c) /\ \A e \in Engrams : EngramAfter(c, e)
  BY <1>1, WriteEngrams
<1>6. ASSUME NEW d \in Calls, NEW e PROVE Forgot(d, e)' => Forgot(d, e) \/ d = c
  BY <1>3, <1>6 DEF Forgot, Doing
<1>7. PendingOK'
  <2> SUFFICES ASSUME NEW d \in Calls, At(d, "write")'
               PROVE  /\ calls'[d].kind \in Reviewing =>
                           \A a \in approvals' : a.candidate = Target(d)' => a.call \notin knew'[d]
                      /\ Doing(d, "CORRECT")' =>
                           /\ engrams'[Target(d)'].state # "ABSENT"
                           /\ \A x \in Calls : Forgot(x, Target(d))' => x \notin knew'[d]
                           /\ engrams'[Target(d)'].text # calls'[d].saw =>
                                engrams'[Target(d)'].text \notin knew'[d]
    BY DEF PendingOK
  <2>1. d # c /\ calls'[d] = calls[d] /\ At(d, "write") /\ Target(d)' = Target(d) /\ knew'[d] = knew[d]
    BY <1>3 DEF At
  <2>2. ASSUME calls[d].kind \in Reviewing, NEW a \in approvals', a.candidate = Target(d)
        PROVE  a.call \notin knew[d]
    BY <1>1, <1>3, <1>4, <2>1, <2>2 DEF PendingOK, ReviewAfter, Decision
  <2>3. ASSUME Doing(d, "CORRECT")
        PROVE  /\ engrams'[Target(d)].state # "ABSENT"
               /\ \A x \in Calls : Forgot(x, Target(d))' => x \notin knew[d]
               /\ engrams'[Target(d)].text # calls[d].saw => engrams'[Target(d)].text \notin knew[d]
    <3>1. /\ Target(d) \in Engrams
          /\ engrams[Target(d)].state # "ABSENT"
          /\ \A x \in Calls : Forgot(x, Target(d)) => x \notin knew[d]
          /\ engrams[Target(d)].text # calls[d].saw => engrams[Target(d)].text \notin knew[d]
      BY <1>1, <2>1, <2>3 DEF CallsOK, PendingOK, Doing
    <3>2. \A x \in Calls : Forgot(x, Target(d))' => x \notin knew[d]
      <4> SUFFICES ASSUME NEW x \in Calls, Forgot(x, Target(d))' PROVE x \notin knew[d]
        OBVIOUS
      <4>1. Forgot(x, Target(d)) \/ x = c
        BY <1>3, <2>1 DEF Forgot, Doing
      <4>2. QED
        BY <1>3, <3>1, <4>1
    <3>3. \/ engrams'[Target(d)] = engrams[Target(d)]
          \/ /\ engrams'[Target(d)].state # "ABSENT"
             /\ engrams'[Target(d)].text \in {c, Redacted}
      BY <1>5, <3>1 DEF EngramAfter
    <3>4. Redacted \notin knew[d]
      BY <1>1, NullAssumption DEF TypeOK
    <3>5. QED
      BY <1>3, <3>1, <3>2, <3>3, <3>4
  <2>4. QED
    BY <2>1, <2>2, <2>3 DEF Doing
<1>8. ASSUME NEW r \in corrections', r.over # r.before, NEW d \in Calls,
             r.over = d \/ (r.over = Redacted /\ Forgot(d, r.engram)')
      PROVE  d \notin knew[r.call]
  <2>1. CASE r \in corrections
    <3>1. r.call \in Calls
      BY <1>1, <2>1 DEF TypeOK
    <3>2. CASE d = c
      BY <1>3, <3>1, <3>2
    <3>3. CASE d # c
      <4>1. Forgot(d, r.engram)' => Forgot(d, r.engram)
        BY <1>3, <3>3 DEF Forgot, Doing
      <4>2. QED
        BY <1>1, <1>8, <2>1, <4>1 DEF CorrectionsMissOnlyOverlaps
    <3>4. QED
      BY <3>2, <3>3
  <2>2. CASE r \notin corrections
    <3>1. /\ Doing(c, "CORRECT") /\ r.call = c /\ r.engram = Target(c)
          /\ r.before = calls[c].saw /\ r.over = engrams[Target(c)].text
      BY <1>5, <1>8, <2>2 DEF CorrectionAfter
    <3>2. CASE r.over = d
      BY <1>1, <1>3, <1>8, <3>1, <3>2 DEF PendingOK
    <3>3. CASE Forgot(d, Target(c))'
      <4>1. d # c
        BY <1>3, <3>1, <3>3 DEF Forgot, Doing
      <4>2. Forgot(d, Target(c))
        BY <1>3, <3>3, <4>1 DEF Forgot, Doing
      <4>3. QED
        BY <1>1, <1>3, <3>1, <4>2 DEF PendingOK
    <3>4. QED
      BY <1>3, <1>8, <3>1, <3>2, <3>3
  <2>3. QED
    BY <2>1, <2>2
<1>9. ASSUME NEW e \in Engrams, engrams'[e].state = "DELETED", engrams'[e].text # Redacted
      PROVE  /\ engrams'[e].text \in Calls
             /\ \A d \in Calls : Forgot(d, e)' => d \notin knew[engrams'[e].text]
  <2>1. CASE engrams'[e] = engrams[e]
    <3>1. /\ engrams[e].text \in Calls
          /\ \A d \in Calls : Forgot(d, e) => d \notin knew[engrams[e].text]
      BY <1>1, <1>9, <2>1 DEF CorrectionsMissOnlyOverlaps
    <3>2. QED
      BY <1>3, <1>6, <2>1, <3>1
  <2>2. CASE engrams'[e] # engrams[e]
    <3>1. Doing(c, "CORRECT") /\ e = Target(c) /\ engrams'[e].text = c
      BY <1>5, <1>9, <2>2 DEF EngramAfter
    <3>2. \A d \in Calls : Forgot(d, e) => d \notin knew[c]
      BY <1>1, <1>3, <3>1 DEF PendingOK
    <3>3. QED
      BY <1>3, <1>6, <3>1, <3>2
  <2>3. QED
    BY <2>1, <2>2
<1>10. CorrectionsMissOnlyOverlaps'
  <2>1. ASSUME NEW r \in corrections', r.over # r.before, NEW d \in Calls,
               r.over = d \/ (r.over = Redacted /\ Forgot(d, r.engram)')
        PROVE  d \notin knew'[r.call]
    BY <1>3, <1>8, <2>1
  <2>2. QED
    BY <1>3, <1>9, <2>1 DEF CorrectionsMissOnlyOverlaps
<1>11. QED
  BY <1>7, <1>10

-----------------------------------------------------------------------------
(* The theorems.                                                           *)

\* Init of every instance satisfies the inductive invariant.
LEMMA InitOK == Init => IInv
<1> SUFFICES ASSUME Init PROVE IInv
  OBVIOUS
<1>1. Idle \in CallStates
  BY DEF Idle, CallStates, CallPcs, Kinds, Texts
<1>2. /\ NoCandidate \in CandidateRows /\ NoEngram \in EngramRows
      /\ \A s \in Subjects : /\ Candidate("PENDING", s, None) \in CandidateRows
                             /\ Engram("ACTIVE", s, None, None, None) \in EngramRows
  BY DEF NoCandidate, NoEngram, Candidate, Engram, CandidateRows, EngramRows, Texts
<1>3. TypeOK
  BY <1>1, <1>2 DEF Init, TypeOK
<1>4. \A k \in Candidates : /\ candidates[k].status \in {"ABSENT", "PENDING"}
                            /\ candidates[k].maker = None
  BY DEF Init, NoCandidate, Candidate
<1>5. \A e \in Engrams : /\ engrams[e].state \in {"ABSENT", "ACTIVE"}
                         /\ engrams[e].state = "ABSENT" => engrams[e] = NoEngram
                         /\ engrams[e].maker = None /\ engrams[e].text = None
                         /\ engrams[e].origin = None
  BY DEF Init, NoEngram, Engram
<1>6. \A c \in Calls : calls[c] = Idle /\ knew[c] = {}
  BY DEF Init
<1>7. CallsOK /\ PendingOK /\ AuditOK
  BY <1>6 DEF Init, Idle, CallsOK, PendingOK, AuditOK, At, Doing, Reviewing
<1>8. RowsOK
  BY <1>4, <1>5 DEF Init, RowsOK
<1>9. AuditIsTruthful /\ DecisionsAreOnRecord /\ DecisionsCollideOnlyByOverlap
  BY <1>4, <1>5 DEF Init, AuditIsTruthful, DecisionsAreOnRecord, DecisionsCollideOnlyByOverlap
<1>10. CorrectionsMissOnlyOverlaps
  BY <1>5 DEF Init, CorrectionsMissOnlyOverlaps
<1>11. QED
  BY <1>3, <1>7, <1>8, <1>9, <1>10 DEF IInv

LEMMA StepOK == IInv /\ [Next]_vars => IInv'
<1> SUFFICES ASSUME IInv, [Next]_vars PROVE IInv'
  OBVIOUS
<1>1. ASSUME NEW c \in Calls, Request(c) \/ Proceed(c) \/ Fail(c) PROVE IInv'
  <2>1. TypeOK /\ CallsOK
    BY DEF IInv
  <2>2. CASE Write(c)
    BY <2>1, <2>2, WriteTypes, WriteKeepsRows, WriteKeepsDecisions, WriteKeepsCorrections DEF IInv
  <2>3. CASE ~Write(c)
    BY <1>1, <2>1, <2>3, OthersRead, ReadingKeeps
  <2>4. QED
    BY <2>2, <2>3
<1>2. CASE UNCHANGED vars
  <2>1. TypeOK'
    BY <1>2 DEF vars, IInv, TypeOK
  <2>2. CallsOK' /\ RowsOK'
    BY <1>2 DEF vars, IInv, CallsOK, RowsOK, Target, Doing
  <2>3. AuditOK' /\ AuditIsTruthful'
    BY <1>2 DEF vars, IInv, AuditOK, AuditIsTruthful, Did, Decision, Target, Doing, At
  <2>4. PendingOK' /\ CorrectionsMissOnlyOverlaps'
    BY <1>2 DEF vars, IInv, PendingOK, CorrectionsMissOnlyOverlaps, Forgot, Target, Doing, At
  <2>5. DecisionsAreOnRecord' /\ DecisionsCollideOnlyByOverlap'
    BY <1>2 DEF vars, IInv, DecisionsAreOnRecord, DecisionsCollideOnlyByOverlap, Overlap
  <2>6. QED
    BY <2>1, <2>2, <2>3, <2>4, <2>5 DEF IInv
<1>3. QED
  BY <1>1, <1>2 DEF Next

\* The inductive invariant holds of every behaviour of the calls.
THEOREM Inductive == Spec => []IInv
BY InitOK, StepOK, PTL DEF Spec

\* Every variable keeps its type.
THEOREM TypeCorrect == Spec => []TypeOK
<1>1. IInv => TypeOK
  BY DEF IInv
<1>2. QED
  BY Inductive, <1>1, PTL

\* Dom26rAuditService.record says SUCCESS only of what has been committed.
THEOREM NoFalseSuccess == Spec => []AuditIsTruthful
<1>1. IInv => AuditIsTruthful
  BY DEF IInv
<1>2. QED
  BY Inductive, <1>1, PTL

\* Promotions, approvals and the state of a candidate agree (approve, reject).
THEOREM PromotionsWereApproved == Spec => []DecisionsAreOnRecord
<1>1. IInv => DecisionsAreOnRecord
  BY DEF IInv
<1>2. QED
  BY Inductive, <1>1, PTL

\* Reviews that do not overlap never decide a candidate twice.
THEOREM OneDecisionWithoutOverlap == Spec => []DecisionsCollideOnlyByOverlap
<1>1. IInv => DecisionsCollideOnlyByOverlap
  BY DEF IInv
<1>2. QED
  BY Inductive, <1>1, PTL

\* Corrections lose a text or undo a forget only of a call they overlapped.
THEOREM NothingLostWithoutOverlap == Spec => []CorrectionsMissOnlyOverlaps
<1>1. IInv => CorrectionsMissOnlyOverlaps
  BY DEF IInv
<1>2. QED
  BY Inductive, <1>1, PTL

\* Events and decisions say what has been committed.
THEOREM RecordsTellTruth == Spec => []RecordsAreTruthful
  BY NoFalseSuccess, PromotionsWereApproved, PTL DEF RecordsAreTruthful

\* Decisions and texts are lost only where requests overlapped.
THEOREM LossNeedsOverlap == Spec => []LossesNeedOverlap
  BY OneDecisionWithoutOverlap, NothingLostWithoutOverlap, PTL DEF LossesNeedOverlap
=============================================================================
