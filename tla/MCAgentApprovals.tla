-------------------------- MODULE MCAgentApprovals --------------------------
(* Instances of AgentApprovals for TLC. *)
EXTENDS AgentApprovals, TLC

=============================================================================
