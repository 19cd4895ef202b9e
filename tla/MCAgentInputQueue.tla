-------------------------- MODULE MCAgentInputQueue --------------------------
(***************************************************************************)
(* Instances of AgentInputQueue for TLC: one topic that moves between two  *)
(* windows.                                                                *)
(***************************************************************************)
EXTENDS AgentInputQueue

CONSTANTS r1,      \* topic
          w1, w2   \* windows
==============================================================================
