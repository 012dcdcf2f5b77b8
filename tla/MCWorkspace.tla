---------------------------- MODULE MCWorkspace ----------------------------
(***************************************************************************)
(* The small instance of Workspace that TLC checks.                        *)
(***************************************************************************)
EXTENDS Workspace, TLC

CONSTANTS p1, p2   \* the users

MemberOf == p1 :> "u" @@ p2 :> "v"

LimitOf == [register |-> 1, registerInvited |-> 2, capability |-> 1]

OrganizationOf == [u |-> "o", v |-> "p"]

\* Requests, passwords, sessions and clients are alike.
Symmetry == Permutations(Clients) \cup Permutations(Calls)
=============================================================================
