---------------------------- MODULE MCAgentGraph ----------------------------
(* Instances of AgentGraph for TLC. *)
EXTENDS AgentGraph

(* Two skills that answer from wide evidence and one that does not. *)
SomeSkills == {"quick_fact_qa", "generic_rag", "software_compare"}

(* A request that allows no refinement, and one that never limits it. *)
OneAndMany == {1, 5}
=============================================================================
