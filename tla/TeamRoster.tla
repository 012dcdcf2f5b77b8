----------------------------- MODULE TeamRoster -----------------------------
(***************************************************************************)
(* What the team service promises of a workspace: seats change one at a    *)
(* time, each change is within the rank of the administrator who asked for *)
(* it and judged by the role the seat has at that moment, an invitation    *)
(* never rewrites a seat, and an owner always remains.                     *)
(***************************************************************************)
EXTENDS RoleHierarchy

CONSTANTS Users, None

VARIABLES
  members,   \* each user's role in the workspace
  asking     \* of each seat, the ranks of those whose request about it is under way

Owned(m) == \E u \in Users : m[u] = "ORG_OWNER"

Init == members \in [Users -> Roles \cup {None}] /\ Owned(members)

Join(u) ==
  /\ members[u] = None
  /\ \E role \in GrantableRoles : members' = [members EXCEPT ![u] = role]

Change(u) ==
  /\ \E actor \in asking[u], role \in GrantableRoles :
       /\ CanGrant(actor, role) /\ CanManage(actor, members[u])
       /\ members' = [members EXCEPT ![u] = role]
  /\ Owned(members')

Remove(u) ==
  /\ \E actor \in asking[u] : CanRemove(actor, members[u])
  /\ members' = [members EXCEPT ![u] = None]
  /\ Owned(members')

Next ==
  \E u \in Users :
    \/ Join(u)
    \/ members[u] # None /\ (Change(u) \/ Remove(u))

Spec == Init /\ [][Next]_members
=============================================================================
