--------------------------- MODULE MCAgentTarget ---------------------------
(***************************************************************************)
(* TLC instance of AgentTarget: the pages are interchangeable.             *)
(***************************************************************************)
EXTENDS AgentTarget, TLC

PageSymmetry == Permutations(Pages)
============================================================================
