---------------------------- MODULE MCAgentTree ----------------------------
(***************************************************************************)
(* The root, its child a and a's child b: an agent that is parent and      *)
(* child at once is what the release protocol is about.                    *)
(***************************************************************************)
EXTENDS AgentTree

CONSTANTS a, b

MCAgents == {a, b}
MCParent == [x \in MCAgents |-> IF x = a THEN Root ELSE a]
============================================================================
