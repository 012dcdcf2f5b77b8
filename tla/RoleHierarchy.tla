--------------------------- MODULE RoleHierarchy ---------------------------
(***************************************************************************)
(* Who may hand out a role, and to whose seat it may be done               *)
(* (backend/src/modules/team/role-hierarchy.ts).                           *)
(***************************************************************************)
EXTENDS Integers

RankOf == [SUPERADMIN |-> 100, ORG_OWNER |-> 80, ORG_ADMIN |-> 60,
           WORKSPACE_ADMIN |-> 40, USER |-> 20, AGENT |-> 10]

Roles == DOMAIN RankOf

GrantableRoles == {"ORG_OWNER", "ORG_ADMIN", "WORKSPACE_ADMIN", "USER"}

AdminRoles == {"SUPERADMIN", "ORG_OWNER", "ORG_ADMIN", "WORKSPACE_ADMIN"}

OrgWideRoles == {"SUPERADMIN", "ORG_OWNER", "ORG_ADMIN"}

CanGrant(actor, role) == role \in GrantableRoles /\ RankOf[role] <= RankOf[actor]

CanRemove(actor, role) == role # "SUPERADMIN" /\ RankOf[role] <= RankOf[actor]

CanManage(actor, role) == role # "AGENT" /\ CanRemove(actor, role)
=============================================================================
