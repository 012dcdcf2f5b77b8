----------------------------- MODULE CrmRecords -----------------------------
(***************************************************************************)
(* The records of a workspace: contacts, companies, opportunities, tasks   *)
(* and pipelines (contact.service.ts, company.service.ts,                  *)
(* opportunity.service.ts, task.service.ts and pipeline.service.ts), which *)
(* refer to each other and to members of the workspace.  A new pipeline    *)
(* gets its stages in its own transaction; one more is added here.         *)
(*                                                                         *)
(* A request looks up what its body refers to, one row after the other,    *)
(* and then writes one row; moveStage writes a second one.  Nothing is     *)
(* locked, and team.service.ts removes members in between.  Records are    *)
(* never deleted.                                                          *)
(*                                                                         *)
(* Bodies are of type any, so that nothing is stripped from them, and      *)
(* update writes all it is given: also the relations it does not look up,  *)
(* which need only exist, and the workspace.  Create overwrites the latter *)
(* with the caller's.  Identifiers, and records nested in a body, are left *)
(* out.                                                                    *)
(***************************************************************************)
EXTENDS Integers, Sequences

CONSTANTS
  Calls,       \* requests; each is one process
  Workspaces,
  Users,
  Member,      \* the workspace each user is in at first
  None         \* null

VARIABLES
  rows,        \* the records, or None
  members,     \* the users of each workspace
  trail,       \* the activities of each opportunity: the stages they name
  calls,       \* the local state of every request
  past         \* *history* who has left, what has become of the moves, and the
               \* records and relations that unchecked fields took elsewhere

vars == <<rows, members, trail, calls, past>>

Kinds == {"pipeline", "stage", "company", "contact", "opportunity", "task"}

\* The relations of a record in the order in which they are looked up.
References(kind) ==
  CASE kind = "contact"     -> <<"company", "owner">>
    [] kind = "opportunity" -> <<"pipeline", "stage", "contact", "owner">>
    [] kind = "task"        -> <<"contact", "opportunity">>
    [] kind = "stage"       -> <<"pipeline">>
    [] OTHER                -> << >>

\* Those that update writes without looking them up.
Unchecked(op, kind) ==
  CASE op = "update" /\ kind = "opportunity" -> {"pipeline"}
    [] op = "update" /\ kind = "task"        -> {"contact", "opportunity"}
    [] OTHER                                 -> {}

\* Those that a request may name, and those it must.
Named(op, kind) == IF op = "move" THEN <<"stage">> ELSE References(kind)

Needed(op) == IF op = "update" THEN {} ELSE {"pipeline", "stage"}

\* Each workspace has a record of every kind but a task to begin with, and a second
\* stage; a request may add one.
Ids == ((Kinds \ {"task"}) \X Workspaces \X {1}) \cup ({"stage"} \X Workspaces \X {2}) \cup Calls

Nothing == [r \in {"company", "owner", "pipeline", "stage", "contact", "opportunity"} |-> None]

Seed(kind, w) ==
  [kind |-> kind, workspace |-> w,
   refers |-> IF kind = "opportunity"
              THEN [Nothing EXCEPT !["pipeline"] = <<"pipeline", w, 1>>,
                                   !["stage"] = <<"stage", w, 1>>]
              ELSE IF kind = "stage" THEN [Nothing EXCEPT !["pipeline"] = <<"pipeline", w, 1>>]
              ELSE Nothing]

Idle == [pc |-> "idle", op |-> None, kind |-> None, workspace |-> None, row |-> None,
         refers |-> Nothing, left |-> << >>]

Init ==
  /\ rows = [x \in Ids |-> IF x \in Calls THEN None ELSE Seed(x[1], x[2])]
  /\ members = [w \in Workspaces |-> {p \in Users : Member[p] = w}]
  /\ trail = [x \in Ids |-> << >>]
  /\ calls = [c \in Calls |-> Idle]
  /\ past = [departed |-> {}, moving |-> {}, blurred |-> {}, moved |-> {}, strayed |-> {}]

At(c, pc) == calls[c].pc = pc
Turn(c, new) == calls' = [calls EXCEPT ![c] = new]

\* A request that is over.
Over(pc) == [Idle EXCEPT !.pc = pc]

-----------------------------------------------------------------------------

Create(c, kind, w) ==
  /\ At(c, "idle")
  /\ Turn(c, [Idle EXCEPT !.pc = "check", !.op = "create", !.kind = kind, !.workspace = w,
                          !.row = c, !.left = Named("create", kind)])
  /\ UNCHANGED <<rows, members, trail, past>>

\* update and moveStage: a row of the workspace is found, another is refused.
Change(c, op, x) ==
  /\ At(c, "idle")
  /\ rows[x] # None /\ rows[x].kind \notin {"pipeline", "stage"}
  /\ op = "move" => rows[x].kind = "opportunity"
  /\ Turn(c, [Idle EXCEPT !.pc = "check", !.op = op, !.kind = rows[x].kind, !.row = x,
                          !.workspace = rows[x].workspace, !.left = Named(op, rows[x].kind)])
  /\ UNCHANGED <<rows, members, trail, past>>

MissRow(c) ==
  /\ At(c, "idle")
  /\ Turn(c, Over("refused"))
  /\ UNCHANGED <<rows, members, trail, past>>

\* mutant of Belongs: any pipeline's stages will do
BelongsAnywhere(r, x, w) ==
  IF r = "owner" THEN x \in members[w] ELSE r = "stage" \/ rows[x].workspace = w

\* The look-up of one relation, by its identifier and the workspace.
Belongs(r, x, w) ==
  IF r = "owner" THEN x \in members[w] ELSE rows[x].workspace = w

Candidates(r) ==
  IF r = "owner" THEN Users ELSE {x \in Ids : rows[x] # None /\ rows[x].kind = r}

\* A relation passes that is found, or that is not looked for.
Passes(f, r, x) == r \in Unchecked(f.op, f.kind) \/ Belongs(r, x, f.workspace)

\* validateRelations: the next of the relations that the body names.
Check(c) ==
  LET f == calls[c]
      r == Head(f.left)
      next == [f EXCEPT !.left = Tail(@)]
  IN  /\ At(c, "check") /\ f.left # << >>
      /\ \/ r \notin Needed(f.op) /\ Turn(c, next)
         \/ \E x \in Candidates(r) : Passes(f, r, x) /\ Turn(c, [next EXCEPT !.refers[r] = x])
         \/ /\ {x \in Candidates(r) : ~Passes(f, r, x)} # {}
            /\ Turn(c, Over("refused"))
      /\ UNCHANGED <<rows, members, trail, past>>

\* The fields that a body leaves out keep their values.
Merged(old, new) == [r \in DOMAIN old |-> IF new[r] = None THEN old[r] ELSE new[r]]

\* The workspace a record is in after the write: an update may name any.
Destinations(f) ==
  CASE f.op = "create" -> {f.workspace}
    [] f.op = "update" -> Workspaces
    [] f.op = "move"   -> {rows[f.row].workspace}

\* The relations that a body names unchecked, of another workspace.
Foreign(f) ==
  {r \in Unchecked(f.op, f.kind) :
     f.refers[r] # None /\ rows[f.refers[r]].workspace # f.workspace}

\* History: a move that overlaps another, or a change of the stage by update, blurs
\* the trail of the deal.
Written(c, x, w) ==
  LET f == calls[c] IN
  [past EXCEPT
     !.moving  = IF f.op = "move" THEN @ \cup {c} ELSE @,
     !.blurred = IF \/ \E d \in past.moving : calls[d].row = x
                    \/ f.op = "update" /\ f.refers["stage"] # None
                 THEN @ \cup {x} ELSE @,
     !.moved   = IF f.op # "create" /\ w # rows[x].workspace THEN @ \cup {x} ELSE @,
     !.strayed = @ \cup {<<x, r>> : r \in Foreign(f)}]

Write(c) ==
  LET f == calls[c]
      x == f.row
  IN  /\ At(c, "check") /\ f.left = << >>
      /\ \E w \in Destinations(f) :
           /\ rows' = [rows EXCEPT ![x] =
                IF f.op = "create"
                THEN [kind |-> f.kind, workspace |-> w, refers |-> f.refers]
                ELSE [rows[x] EXCEPT !.workspace = w, !.refers = Merged(@, f.refers)]]
           /\ past' = Written(c, x, w)
      /\ Turn(c, IF f.op = "move" THEN [f EXCEPT !.pc = "tell"] ELSE Over("done"))
      /\ UNCHANGED <<members, trail>>

\* moveStage: the activity names the stage the update has returned.
Tell(c) ==
  LET x == calls[c].row IN
    /\ At(c, "tell")
    /\ trail' = [trail EXCEPT ![x] = Append(@, calls[c].refers["stage"])]
    /\ past' = [past EXCEPT !.moving = @ \ {c}]
    /\ Turn(c, Over("done"))
    /\ UNCHANGED <<rows, members>>

\* The second write fails, or the process ends before it.
BreakOff(c) ==
  /\ At(c, "tell")
  /\ past' = [past EXCEPT !.moving = @ \ {c}, !.blurred = @ \cup {calls[c].row}]
  /\ Turn(c, Over("failed"))
  /\ UNCHANGED <<rows, members, trail>>

\* team.service.ts removes a member; the records keep their owners.
Remove(w, p) ==
  /\ p \in members[w]
  /\ members' = [members EXCEPT ![w] = @ \ {p}]
  /\ past' = [past EXCEPT !.departed = @ \cup {<<w, p>>}]
  /\ UNCHANGED <<rows, trail, calls>>

Next ==
  \/ \E c \in Calls :
       \/ \E kind \in Kinds, w \in Workspaces : Create(c, kind, w)
       \/ \E op \in {"update", "move"}, x \in Ids : Change(c, op, x)
       \/ MissRow(c)
       \/ Check(c) \/ Write(c) \/ Tell(c) \/ BreakOff(c)
  \/ \E w \in Workspaces, p \in Users : Remove(w, p)

Spec == Init /\ [][Next]_vars

-----------------------------------------------------------------------------
(* Properties.                                                             *)

Targets == Ids \cup Users \cup {None}
Refs    == [DOMAIN Nothing -> Targets]
Row     == [kind : Kinds, workspace : Workspaces, refers : Refs]

\* A record keeps its kind, a request has looked up only what it may name.
TypesHold ==
  /\ rows \in [Ids -> Row \cup {None}]
  /\ members \in [Workspaces -> SUBSET Users]
  /\ \A c \in Calls :
       /\ calls[c].pc \in {"idle", "check", "tell", "refused", "done", "failed"}
       /\ calls[c].kind # None =>
            \A r \in DOMAIN Nothing :
              calls[c].refers[r] # None => r \in {References(calls[c].kind)[n] :
                                                  n \in DOMAIN References(calls[c].kind)}

Records == {x \in Ids : rows[x] # None}

\* What a record refers to is of its own workspace, and an owner is a member of it or
\* has left, however its creation and its changes overlap with others ("Prevent
\* relation hijacking", opportunity.service.ts); only an update whose body names the
\* workspace, or a relation that update does not look up, takes one of the two
\* elsewhere, and even then a relation is of the right kind.
RelationsStayInside ==
  \A x \in Records, r \in DOMAIN Nothing :
    LET y == rows[x].refers[r]
        w == rows[x].workspace
    IN  y # None =>
          /\ r # "owner" => rows[y].kind = r
          /\ \/ x \in past.moved \/ <<x, r>> \in past.strayed
             \/ IF r = "owner" THEN y \in members[w] \/ <<w, y>> \in past.departed
                ELSE y \in past.moved \/ rows[y].workspace = w

\* The same without the exception, which is not kept.
NoRelationIsHijacked ==
  \A x \in Records, r \in DOMAIN Nothing \ {"owner"} :
    rows[x].refers[r] # None => rows[rows[x].refers[r]].workspace = rows[x].workspace

\* The last activity of a deal names the stage it is in, unless moves overlapped, one
\* broke off between its two writes, or update, which tells nothing, has moved it
\* (moveStage).
TrailEndsWhereTheDealIs ==
  \A x \in Records \ past.blurred :
    trail[x] # << >> /\ ~(\E d \in past.moving : calls[d].row = x) =>
      trail[x][Len(trail[x])] = rows[x].refers["stage"]
=============================================================================
