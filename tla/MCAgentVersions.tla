---------------------------- MODULE MCAgentVersions ----------------------------
(* AgentVersions with the symmetry of its ids, for TLC.                    *)
EXTENDS AgentVersions, TLC

Symmetry == Permutations(Versions) \cup Permutations(Agents) \cup Permutations(Requests)
===============================================================================
