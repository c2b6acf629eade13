--------------------------- MODULE MCAgentGateway ---------------------------
(* Small instances of AgentGateway for TLC. *)
EXTENDS AgentGateway, TLC

Symmetry == Permutations(Agents) \cup Permutations(Handlers)
=============================================================================
