---------------------------- MODULE MCAgentTurn ----------------------------
(* Instances of AgentTurn for TLC. *)
EXTENDS AgentTurn

AllFaults == {"llm", "db", "listing", "abort"}
NoFaults == {}

=============================================================================
