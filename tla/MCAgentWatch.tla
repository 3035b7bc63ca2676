---------------------------- MODULE MCAgentWatch ----------------------------
(* Instances of the agent watch for TLC.                                   *)
EXTENDS AgentWatchSafety
=============================================================================
