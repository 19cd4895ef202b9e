----------------------------- MODULE IssueBridge -----------------------------
(***************************************************************************)
(* The GitHub issue bridge (bridge.py): a separate program that polls the  *)
(* open issues of each target, selects the newest and pastes its text into *)
(* the target's tmux window, unless that version of the issue was the last *)
(* one it dispatched there.  What was dispatched is remembered in memory   *)
(* and saved to a file after every pass that comes to its end.             *)
(***************************************************************************)
EXTENDS Naturals, Sequences, FiniteSets

CONSTANTS
  Targets,    \* the targets of the configuration, a sequence
  Issues,
  MaxStamp,   \* bound on the updates of issues
  MaxFaults   \* bound on failing commands, crashes and restarts

VARIABLES
  open,       \* the open issues
  stamp,      \* updatedAt of every issue, 0 before it exists
  pass,       \* the step of the pass, the targets still to process, the choice
  memory,     \* state["targets"][...]["last_fingerprint"]
  file,       \* the saved state
  pasted,     \* the version pasted last into a target's window
  excused,    \* targets whose last dispatch a fault kept from being saved
  dirty,      \* a pass has failed since the last save
  faults

vars == <<open, stamp, pass, memory, file, pasted, excused, dirty, faults>>

TargetSet == {Targets[i]: i \in DOMAIN Targets}
NoIssue == [issue |-> "none", at |-> 0]
Resting == [step |-> "rest", todo |-> <<>>, version |-> NoIssue]
Target == Head(pass.todo)
Clock == CHOOSE n \in 0..MaxStamp: n \in {stamp[i]: i \in Issues} /\ \A i \in Issues: stamp[i] <= n

Init ==
  /\ open = {} /\ stamp = [i \in Issues |-> 0]
  /\ pass = Resting
  /\ memory = [t \in TargetSet |-> NoIssue] /\ file = memory /\ pasted = memory
  /\ excused = {} /\ dirty = FALSE /\ faults = 0

\* Somebody opens, edits or closes an issue; each is an update of it.
Edit ==
  \E i \in Issues:
    /\ Clock < MaxStamp
    /\ stamp' = [stamp EXCEPT ![i] = Clock + 1]
    /\ open' \in {open \cup {i}, open \ {i}}
    /\ UNCHANGED <<pass, memory, file, pasted, excused, dirty, faults>>

------------------------------------------------------------------------------
\* A pass goes through the targets in order (run_once).
Begin ==
  /\ pass = Resting
  /\ pass' = [Resting EXCEPT !.step = "list", !.todo = Targets]
  /\ UNCHANGED <<open, stamp, memory, file, pasted, excused, dirty, faults>>

NextTarget == IF Len(pass.todo) = 1 THEN [Resting EXCEPT !.step = "save"]
              ELSE [Resting EXCEPT !.step = "list", !.todo = Tail(pass.todo)]

\* list_open_issues and select_issue: the newest.
List ==
  /\ pass.step = "list"
  /\ IF open = {} THEN pass' = NextTarget
     ELSE LET i == CHOOSE i \in open: \A j \in open: stamp[j] <= stamp[i]
          IN pass' = [pass EXCEPT !.step = "fetch", !.version = [issue |-> i, at |-> stamp[i]]]
  /\ UNCHANGED <<open, stamp, memory, file, pasted, excused, dirty, faults>>

\* _ensure_full_issue reads the issue again; the fingerprint is that of what
\* is dispatched, not of what was listed.
Fetch ==
  /\ pass.step = "fetch"
  /\ LET version == [pass.version EXCEPT !.at = stamp[pass.version.issue]] IN
     pass' = IF memory[Target] = version THEN NextTarget
             ELSE [pass EXCEPT !.step = "paste", !.version = version]
  /\ UNCHANGED <<open, stamp, memory, file, pasted, excused, dirty, faults>>

\* The window is not there: skipped, to be tried again in the next pass.
NoWindow ==
  /\ pass.step = "paste" /\ faults < MaxFaults /\ faults' = faults + 1
  /\ pass' = NextTarget
  /\ UNCHANGED <<open, stamp, memory, file, pasted, excused, dirty>>

Paste ==
  /\ pass.step = "paste"
  /\ pasted' = [pasted EXCEPT ![Target] = pass.version]
  /\ excused' = excused \ {Target}
  /\ pass' = [pass EXCEPT !.step = "enter"]
  /\ UNCHANGED <<open, stamp, memory, file, dirty, faults>>

\* Enter is pressed and the dispatch remembered.
Enter ==
  /\ pass.step = "enter"
  /\ memory' = [memory EXCEPT ![Target] = pass.version]
  /\ pass' = NextTarget
  /\ UNCHANGED <<open, stamp, file, pasted, excused, dirty, faults>>

\* What the end of a pass writes.
\* Fault: the state is not written.
SavedNever == file
Saved == memory
Save ==
  /\ pass.step = "save"
  /\ file' = Saved /\ dirty' = FALSE /\ pass' = Resting
  /\ UNCHANGED <<open, stamp, memory, pasted, excused, faults>>

------------------------------------------------------------------------------
Fault == faults < MaxFaults /\ faults' = faults + 1
Unrecorded == IF pass.step = "enter" THEN {Target} ELSE {}
\* Targets whose dispatch only the process remembers.
Unsaved == {t \in TargetSet: memory[t] # file[t]}

\* gh or tmux keeps failing: the exception ends the pass without a save, and
\* the watcher goes on with what it has in memory.  The text may have been
\* pasted without Enter.
Abort ==
  /\ pass.step \in {"list", "fetch", "paste", "enter"} /\ Fault
  /\ pass' = Resting /\ dirty' = TRUE
  /\ excused' = excused \cup Unrecorded
  /\ UNCHANGED <<open, stamp, memory, file, pasted>>

\* The process ends, in the middle of a pass or between two, and starts with
\* the saved state.
Crash ==
  /\ pass # Resting /\ Fault
  /\ pass' = Resting /\ memory' = file /\ dirty' = FALSE
  /\ excused' = excused \cup Unsaved \cup Unrecorded
  /\ UNCHANGED <<open, stamp, file, pasted>>
Restart ==
  /\ pass = Resting /\ Fault
  /\ memory' = file /\ dirty' = FALSE
  /\ excused' = IF dirty THEN excused \cup Unsaved ELSE excused
  /\ UNCHANGED <<open, stamp, pass, file, pasted>>

Pass == Begin \/ List \/ Fetch \/ Paste \/ Enter \/ Save
Next == Edit \/ Pass \/ NoWindow \/ Abort \/ Crash \/ Restart
Spec == Init /\ [][Next]_vars

------------------------------------------------------------------------------
\* A version that was the last one pasted into a window is pasted there again
\* only when a failed pass or a crash kept its dispatch from being saved: no
\* orderly restart and no other target's failure repeats a dispatch.
RepeatsOnlyAfterFault ==
  [][\A t \in TargetSet:
       pass.step = "paste" /\ pass'.step = "enter" /\ Target = t /\ pass.version = pasted[t]
         => t \in excused]_vars

=============================================================================
