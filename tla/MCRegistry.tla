----------------------------- MODULE MCRegistry -----------------------------
(* Small instances of ConversationRegistry. *)
EXTENDS ConversationRegistry, TLC

\* All sessions in one directory.
OneDir == [s \in Sessions |-> CHOOSE d \in Dirs: TRUE]
Perms == Permutations(Topics) \cup Permutations(Sessions)
=============================================================================
