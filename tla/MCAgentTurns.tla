----------------------------- MODULE MCAgentTurns -----------------------------
(***************************************************************************)
(* Instances of AgentTurns for TLC: two topics, each with its window, that *)
(* compete for one turn slot.                                              *)
(***************************************************************************)
EXTENDS AgentTurns

CONSTANTS r1, r2,  \* topics
          w1, w2   \* windows
===============================================================================
