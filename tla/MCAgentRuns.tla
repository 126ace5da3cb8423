---------------------------- MODULE MCAgentRuns ----------------------------
EXTENDS AgentRuns, TLC

(* Agents are all alike. *)
Identities == Permutations(Agent)
=============================================================================
