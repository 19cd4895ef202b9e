-------------------------- MODULE MCUpdateProcessor --------------------------
(***************************************************************************)
(* Instances of UpdateProcessor for TLC: two topics.                       *)
(***************************************************************************)
EXTENDS UpdateProcessor

CONSTANTS k1, k2  \* topics
==============================================================================
