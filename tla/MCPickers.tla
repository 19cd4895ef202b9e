------------------------------ MODULE MCPickers ------------------------------
(* Small instances of TopicPickers. *)
EXTENDS TopicPickers

CONSTANTS t1, t2  \* topics
==============================================================================
