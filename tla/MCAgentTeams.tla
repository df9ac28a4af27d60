---------------------------- MODULE MCAgentTeams ---------------------------
(* Small instances of AgentTeams.                                          *)
EXTENDS AgentTeams, TLC

ValueSymmetry == Permutations(Values)
=============================================================================
