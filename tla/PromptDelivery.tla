---------------------------- MODULE PromptDelivery ----------------------------
(***************************************************************************)
(* What the agent input queue promises about a prompt, whatever windows,   *)
(* tasks and restarts are involved: it is accepted once, handed to the     *)
(* agent at most once and only from the queued state, and what was handed  *)
(* over or forgotten never comes back.                                     *)
(***************************************************************************)
EXTENDS Naturals

CONSTANT Prompts

VARIABLES status,  \* "new", "queued", "submitted" or "gone"
          sends    \* times the text was handed to the agent

vars == <<status, sends>>

Init ==
    /\ status = [p \in Prompts |-> "new"]
    /\ sends = [p \in Prompts |-> 0]

Accept(p) ==
    /\ status[p] = "new"
    /\ status' = [status EXCEPT ![p] = "queued"]
    /\ UNCHANGED sends

Submit(p) ==
    /\ status[p] = "queued"
    /\ status' = [status EXCEPT ![p] = "submitted"]
    /\ sends' = [sends EXCEPT ![p] = @ + 1]

\* Confirmed, refused, expired or discarded, possibly many at once.
Forget(S) ==
    /\ \A p \in S : status[p] \in {"queued", "submitted"}
    /\ status' = [p \in Prompts |-> IF p \in S THEN "gone" ELSE status[p]]
    /\ UNCHANGED sends

Next ==
    \/ \E p \in Prompts : Accept(p) \/ Submit(p)
    \/ \E S \in SUBSET Prompts : Forget(S)

Spec == Init /\ [][Next]_vars
===============================================================================
