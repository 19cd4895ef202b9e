------------------------------ MODULE MCTopics -------------------------------
(***************************************************************************)
(* The pickers that give a topic its first window (TopicPickers) and the   *)
(* registry of topics and windows (ConversationRegistry), checked in one   *)
(* run: a behaviour exercises one of them, the other stays as it started.  *)
(***************************************************************************)
EXTENDS ConversationRegistry, TopicPickers, TLC

VARIABLE part   \* the part the behaviour exercises

\* All sessions in one directory.
OneDir == [s \in Sessions |-> CHOOSE d \in Dirs: TRUE]

TopicsInit ==
  /\ part \in {"registry", "pickers"} /\ Init /\ PickersInit
  /\ part = "pickers" \/ (~roots /\ windows = 0)
RegistryStep == part = "registry" /\ Next /\ UNCHANGED <<part, pickersVars>>
PickersStep == part = "pickers" /\ PickersNext /\ UNCHANGED <<part, vars>>
TopicsSpec == TopicsInit /\ [][RegistryStep \/ PickersStep]_<<part, vars, pickersVars>>

Perms == Permutations(Topics) \cup Permutations(Sessions)
==============================================================================
