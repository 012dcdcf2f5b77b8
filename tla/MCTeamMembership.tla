-------------------------- MODULE MCTeamMembership --------------------------
(***************************************************************************)
(* Instances of TeamMembership for TLC, of which a behaviour is one.  In   *)
(* "links" the seats are those of owners who are all signed in,            *)
(* invitations are of one role, and statements go on; in "ranks" seats and *)
(* invitations are of every rank, one invitation less is sent, and no      *)
(* session is renewed.                                                     *)
(***************************************************************************)
EXTENDS TeamMembership, TLC

CONSTANT Spare   \* the invitation that is not sent in "ranks"

VARIABLE part

\* One user administers the organization without a seat in the workspace.
AdminAbove == [u \in Users |-> IF u = CHOOSE x \in Users : TRUE THEN "ORG_ADMIN" ELSE None]

\* The bounds of the two instances.
Within ==
  /\ part = "links" =>
       /\ \A i \in Invitations : invitations[i].role \in {"USER", None}
       /\ \A c \in Calls : calls[c].newRole \in {"USER", None}
                           /\ calls[c].authority # "ORG_ADMIN"
  /\ part = "ranks" =>
       /\ invitations[Spare].status = "ABSENT"
       /\ \A c \in Calls : calls[c].pc # "seat"

Started ==
  /\ part \in {"links", "ranks"}
  /\ Init /\ Within
  /\ part = "links" =>
       /\ \A u \in Users : members[u] \in {"ORG_OWNER", None}
       /\ sessions = {u \in Users : members[u] # None}

Move == UNCHANGED part /\ Next /\ Within'

Finish(c) == part = "links" /\ UNCHANGED part /\ Proceed(c) /\ Within'

Instances ==
  /\ Started
  /\ [][Move]_<<vars, part>>
  /\ \A c \in Calls : WF_<<vars, part>>(Finish(c))

Underway(c) == part = "links" /\ calls[c].pc \notin {"idle"} \cup Ended

\* CallsEnd of TeamMembership where statements go on: no call waits for ever for the
\* lock of the workspace or of an invitation.
LinkCallsEnd == \A c \in Calls : Underway(c) ~> ~Underway(c)
=============================================================================
