----------------------------- MODULE AgentRetries -----------------------------
(***************************************************************************)
(* The automatic retries of a turn that the model's overload ended: after  *)
(* each such error a continuation prompt is sent with a growing delay,     *)
(* until the delays are used up, the agent completes an answer or the user *)
(* sends something new.  A row of the table transient_agent_retries makes  *)
(* the retry survive a restart; one topic and its windows are modelled.    *)
(***************************************************************************)
EXTENDS Naturals, Sequences, FiniteSets

CONSTANTS
  Windows,
  Delays,      \* number of _TRANSIENT_AGENT_RETRY_DELAYS_SECONDS
  MaxInputs,   \* bound on the user's inputs
  MaxFaults    \* bound on crashes, rebinds and failing sends

VARIABLES
  bound,     \* the topic's window
  turn,      \* per window: "none", "runs", or "failed" with its error reported
  up,        \* the bot is running and has restored the retries
  row,       \* the table: attempt and state per window
  attempts,  \* _transient_agent_retry_attempts
  task,      \* _transient_agent_retry_tasks: the attempt and step per window
  tries,     \* the attempts submitted since the series began
  inputs, faults

vars == <<bound, turn, up, row, attempts, task, tries, inputs, faults>>

NoRow == [attempt |-> 0, state |-> "none"]
NoTask == [attempt |-> 0, step |-> "none"]
Row(attempt, state) == [attempt |-> attempt, state |-> state]
Task(attempt, step) == [attempt |-> attempt, step |-> step]
Fail == faults < MaxFaults /\ faults' = faults + 1

Init ==
  /\ bound \in Windows /\ up = TRUE
  /\ turn = [w \in Windows |-> "none"]
  /\ row = [w \in Windows |-> NoRow]
  /\ attempts = [w \in Windows |-> 0]
  /\ task = [w \in Windows |-> NoTask]
  /\ tries = <<>> /\ inputs = 0 /\ faults = 0

------------------------------------------------------------------------------
\* _reset_transient_agent_retry: the task is cancelled wherever it is, the
\* count and the row go.
\* Fault: the row stays.
ResetInMemory(w) ==
  /\ task' = [task EXCEPT ![w] = NoTask]
  /\ attempts' = [attempts EXCEPT ![w] = 0]
  /\ tries' = <<>> /\ UNCHANGED row
Reset(w) ==
  /\ task' = [task EXCEPT ![w] = NoTask]
  /\ attempts' = [attempts EXCEPT ![w] = 0]
  /\ row' = [row EXCEPT ![w] = NoRow]
  /\ tries' = <<>>

UserInput ==
  /\ up /\ inputs < MaxInputs /\ inputs' = inputs + 1
  /\ Reset(bound) /\ turn' = [turn EXCEPT ![bound] = "runs"]
  /\ UNCHANGED <<bound, up, faults>>

\* The complete answer, read from the transcript.
Complete == \E w \in Windows:
  /\ up /\ turn[w] = "runs" /\ w = bound
  /\ Reset(w) /\ turn' = [turn EXCEPT ![w] = "none"]
  /\ UNCHANGED <<bound, up, inputs, faults>>

\* _schedule_transient_agent_retry: a task that is there, sleeping or still
\* busy with its prompt, is left to it; a scheduled row keeps its attempt.
NextAttempt(w) ==
  IF row[w].state = "scheduled" THEN row[w].attempt
  ELSE 1 + (IF row[w].attempt > attempts[w] THEN row[w].attempt ELSE attempts[w])
Schedule(w) ==
  IF task[w] # NoTask \/ NextAttempt(w) > Delays THEN UNCHANGED <<row, attempts, task>>
  ELSE /\ row' = [row EXCEPT ![w] = Row(NextAttempt(w), "scheduled")]
       /\ attempts' = [attempts EXCEPT ![w] = NextAttempt(w)]
       /\ task' = [task EXCEPT ![w] = Task(NextAttempt(w), "sleep")]

\* The turn fails and its error is read from the transcript; after a restart
\* the same error may be read again.
Error ==
  /\ up /\ turn[bound] = "runs" /\ Schedule(bound)
  /\ turn' = [turn EXCEPT ![bound] = "failed"]
  /\ UNCHANGED <<bound, up, tries, inputs, faults>>
ErrorAgain ==
  /\ up /\ turn[bound] = "failed" /\ Fail /\ Schedule(bound)
  /\ UNCHANGED <<bound, up, turn, tries, inputs>>

------------------------------------------------------------------------------
\* mark_transient_agent_retry_waiting, before the prompt is sent: a restart
\* from here on does not send it again.
\* Fault: the row is marked only afterwards.
MarkedLater(w) == row[w]
Marked(w) == Row(row[w].attempt, "waiting")

Due == \E w \in Windows:
  /\ up /\ task[w].step = "sleep"
  /\ IF row[w] = Row(task[w].attempt, "scheduled")
     THEN /\ row' = [row EXCEPT ![w] = Marked(w)]
          /\ task' = [task EXCEPT ![w].step = "send"]
     ELSE UNCHANGED row /\ task' = [task EXCEPT ![w] = NoTask]
  /\ UNCHANGED <<bound, turn, up, attempts, tries, inputs, faults>>

\* _send_or_queue_agent_input.
Send == \E w \in Windows:
  /\ up /\ task[w].step = "send"
  /\ tries' = Append(tries, task[w].attempt)
  /\ turn' = [turn EXCEPT ![w] = "runs"]
  /\ task' = [task EXCEPT ![w].step = "sent"]
  /\ UNCHANGED <<bound, up, row, attempts, inputs, faults>>
SendFails == \E w \in Windows:
  /\ up /\ task[w].step = "send" /\ Fail
  /\ task' = [task EXCEPT ![w].step = "sent"]
  /\ UNCHANGED <<bound, turn, up, row, attempts, tries, inputs>>
\* The working status or the notice is out and the task ends.
End == \E w \in Windows:
  /\ up /\ task[w].step = "sent"
  /\ task' = [task EXCEPT ![w] = NoTask]
  /\ UNCHANGED <<bound, turn, up, row, attempts, tries, inputs, faults>>

------------------------------------------------------------------------------
\* The process dies or is stopped; tasks and counts are lost, rows stay.
\* Meanwhile, or while the bot runs, the agent's turn may end unseen, and the
\* topic may come to have another window.
Crash ==
  /\ up /\ Fail /\ up' = FALSE
  /\ task' = [w \in Windows |-> NoTask] /\ attempts' = [w \in Windows |-> 0]
  /\ bound' \in Windows
  /\ turn' = [turn EXCEPT ![bound'] = turn[bound]]
  /\ UNCHANGED <<row, tries, inputs>>

\* _restore_transient_agent_retries: a row of a window the topic is no longer
\* bound to is written anew for the one it is bound to.
Retargeted == IF \E w \in Windows: row[w] # NoRow
              THEN [w \in Windows |-> IF w = bound
                      THEN row[CHOOSE v \in Windows: row[v] # NoRow] ELSE NoRow]
              ELSE row
Resumed(r) == r.state = "scheduled"
Restore ==
  /\ ~up /\ up' = TRUE
  /\ row' = Retargeted
  /\ attempts' = [w \in Windows |-> Retargeted[w].attempt]
  /\ task' = [w \in Windows |->
       IF Resumed(Retargeted[w]) THEN Task(Retargeted[w].attempt, "sleep") ELSE NoTask]
  /\ UNCHANGED <<bound, turn, tries, inputs, faults>>

Next == UserInput \/ Complete \/ Error \/ ErrorAgain \/ Due \/ Send \/ SendFails \/ End \/ Crash \/ Restore
Spec == Init /\ [][Next]_vars

------------------------------------------------------------------------------
\* No attempt of a series is submitted twice, whatever restarts, repeated
\* error reports and windows that change, and a series has at most as many
\* attempts as there are delays.
RetriedOnce ==
  \A i, j \in DOMAIN tries: i < j => tries[i] < tries[j] /\ tries[j] <= Delays

\* While the bot runs, a retry that was announced and not sent has a task.
ScheduledHasTask ==
  up => \A w \in Windows:
          row[w].state = "scheduled" => task[w] = Task(row[w].attempt, "sleep")
=============================================================================
