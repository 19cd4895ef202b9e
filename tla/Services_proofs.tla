--------------------------- MODULE Services_proofs ----------------------------
(***************************************************************************)
(* What holds of the parts that MCServices checks together, for every      *)
(* value of their constants: input choices, agent retries, host health     *)
(* alerts, the events of an agent node, the runner pool, the issue bridge  *)
(* and the status bubbles.  They share no state, so each part has an       *)
(* inductive invariant of its own.                                         *)
(***************************************************************************)
EXTENDS MCServices, SequenceTheorems, FiniteSetTheorems, TLAPS

------------------------------------------------------------------------------
(* Input choices: a message the user chose a route for reaches an agent at *)
(* most once (ChosenOnce).  A message which is being handled has left the  *)
(* table, and only messages never seen enter it.                           *)

ChoicesShape ==
  /\ seen \subseteq Messages /\ Pending \subseteq seen
  /\ sent \in [Messages -> Nat]
  /\ handler = [step |-> handler.step, mode |-> handler.mode,
                message |-> handler.message, window |-> handler.window]

\* Who is being handled was seen and taken out of the table.
Taken ==
  IF handler.step = "idle" THEN handler.message = 0
  ELSE handler.message \in seen \ Pending

UnseenUnsent == \A m \in Messages \ seen: sent[m] = 0

ChoicesInv == ChoicesShape /\ Taken /\ UnseenUnsent /\ ChosenOnce

LEMMA IdleShape ==
  /\ Idle.step = "idle" /\ Idle.message = 0
  /\ Idle = [step |-> Idle.step, mode |-> Idle.mode, message |-> Idle.message, window |-> Idle.window]
  BY DEF Idle

LEMMA InitChoices == ASSUME 0 \notin Messages, ChoicesInit PROVE ChoicesInv
  BY IdleShape DEF ChoicesInit, ChoicesInv, ChoicesShape, Taken, UnseenUnsent, ChosenOnce, Pending

\* A step that hands nothing to an agent, takes messages out of the table
\* and ends or does not touch what is handled.
Drops ==
  /\ UNCHANGED <<seen, sent>> /\ Pending' \subseteq Pending
  /\ handler' = Idle \/ UNCHANGED handler
     \/ \E step: step # "idle" /\ handler.step # "idle" /\ handler' = [handler EXCEPT !.step = step]

LEMMA DropsKeeps == ASSUME 0 \notin Messages, ChoicesInv, Drops PROVE ChoicesInv'
<1>1. CASE handler' = Idle
  BY <1>1, IdleShape DEF Drops, ChoicesInv, ChoicesShape, Taken, UnseenUnsent, ChosenOnce
<1>2. CASE UNCHANGED handler
  BY <1>2 DEF Drops, ChoicesInv, ChoicesShape, Taken, UnseenUnsent, ChosenOnce
<1>3. ASSUME NEW step, step # "idle", handler.step # "idle", handler' = [handler EXCEPT !.step = step]
      PROVE  ChoicesInv'
  <2>1. /\ handler'.step = step /\ handler'.message = handler.message
        /\ handler' = [step |-> handler'.step, mode |-> handler'.mode,
                       message |-> handler'.message, window |-> handler'.window]
    BY <1>3 DEF ChoicesInv, ChoicesShape
  <2> QED BY <1>3, <2>1 DEF Drops, ChoicesInv, ChoicesShape, Taken, UnseenUnsent, ChosenOnce
<1> QED BY <1>1, <1>2, <1>3 DEF Drops

LEMMA OfferKeeps == ASSUME 0 \notin Messages, ChoicesInv, Offer PROVE ChoicesInv'
<1>1. PICK m \in Messages \ seen:
        /\ handler = Idle /\ seen' = seen \cup {m} /\ UNCHANGED <<handler, sent>>
        /\ LET kept == Without(expired) IN
           choices' = kept \/ choices' = [n \in DOMAIN kept \cup {m} |-> IF n = m THEN boundTo ELSE kept[n]]
  BY DEF Offer
<1>2. Pending' \subseteq Pending \cup {m}
  BY <1>1 DEF Without, Pending
<1>3. sent[m] = 0
  BY <1>1 DEF ChoicesInv, UnseenUnsent
<1>4. ChoicesShape' /\ UnseenUnsent'
  BY <1>1, <1>2 DEF ChoicesInv, ChoicesShape, UnseenUnsent
<1>5. Taken'
  BY <1>1, IdleShape DEF Taken
<1>6. ChosenOnce'
  BY <1>1, <1>2, <1>3 DEF ChoicesInv, ChosenOnce
<1> QED BY <1>4, <1>5, <1>6 DEF ChoicesInv

LEMMA PressKeeps == ASSUME 0 \notin Messages, ChoicesInv, Press PROVE ChoicesInv'
<1>1. PICK m \in seen, mode \in Modes:
        /\ handler = Idle /\ UNCHANGED <<seen, sent>>
        /\ IF m \in Pending THEN choices' = Claimed(m) ELSE UNCHANGED choices
        /\ IF m \in Pending \ expired /\ mode # "cancel"
           THEN handler' = [step |-> "claimed", mode |-> mode, message |-> m, window |-> choices[m]]
           ELSE handler' = Idle
  BY DEF Press
<1>2. Pending' = Pending \ {m}
  BY <1>1 DEF Claimed, Without, Pending
<1>3. CASE handler' = Idle
  BY <1>1, <1>2, <1>3, DropsKeeps DEF Drops
<1>4. CASE m \in Pending /\ handler' = [step |-> "claimed", mode |-> mode, message |-> m, window |-> choices[m]]
  BY <1>1, <1>2, <1>4 DEF ChoicesInv, ChoicesShape, Taken, UnseenUnsent, ChosenOnce
<1> QED BY <1>1, <1>3, <1>4

LEMMA RouteKeeps == ASSUME 0 \notin Messages, ChoicesInv, Route PROVE ChoicesInv'
<1>1. CASE UNCHANGED sent
  BY <1>1, DropsKeeps DEF Route, Drops, Pending
<1>2. CASE sent' = [sent EXCEPT ![handler.message] = @ + 1]
  <2> DEFINE m == handler.message
  <2>1. m \in Messages /\ m \in seen /\ m \notin Pending
    BY DEF Route, ChoicesInv, ChoicesShape, Taken
  <2>2. sent[m] = 0
    BY <2>1 DEF ChoicesInv, ChoicesShape, ChosenOnce
  <2>3. sent'[m] = 1 /\ \A n \in Messages \ {m}: sent'[n] = sent[n]
    BY <1>2, <2>1, <2>2 DEF ChoicesInv, ChoicesShape
  <2>4. handler' = Idle /\ UNCHANGED <<choices, seen>> /\ Pending' = Pending
    BY DEF Route, Pending
  <2>5. ChoicesShape'
    BY <1>2, <2>1, <2>4, IdleShape DEF ChoicesInv, ChoicesShape
  <2>6. Taken' /\ UnseenUnsent'
    BY <2>1, <2>3, <2>4, IdleShape DEF ChoicesInv, Taken, UnseenUnsent
  <2>7. ChosenOnce'
    BY <2>1, <2>2, <2>3, <2>4, IdleShape DEF ChoicesInv, ChosenOnce
  <2> QED BY <2>5, <2>6, <2>7 DEF ChoicesInv
<1> QED BY <1>1, <1>2 DEF Route

LEMMA NextChoices == ASSUME 0 \notin Messages, ChoicesInv, [ChoicesNext]_choicesVars PROVE ChoicesInv'
<1>1. CASE UNCHANGED choicesVars
  BY <1>1, DropsKeeps DEF choicesVars, Drops, Pending
<1>2. CASE Expire \/ Rebind \/ Recover \/ ChoicesCrash
  BY <1>2, DropsKeeps DEF Expire, Rebind, Recover, ChoicesCrash, Drops, Pending
<1>3. CASE Check
  BY <1>3, DropsKeeps DEF Check, Drops, Pending
<1>4. CASE Discard
  <2>1. Pending' \subseteq Pending
    BY <1>4 DEF Discard, Pending
  <2>2. "send" # "idle" /\ handler.step # "idle" /\ handler' = [handler EXCEPT !.step = "send"]
    BY <1>4 DEF Discard
  <2>3. Drops
    BY <1>4, <2>1, <2>2 DEF Discard, Drops
  <2> QED BY <2>3, DropsKeeps
<1> QED BY <1>1, <1>2, <1>3, <1>4, OfferKeeps, PressKeeps, RouteKeeps DEF ChoicesNext

\* However often the buttons of a message are pressed, and whatever crashes
\* and rebinds come in between, it reaches an agent at most once.
THEOREM MessageChosenOnce == ASSUME 0 \notin Messages PROVE ChoicesSpec => []ChosenOnce
<1>1. ChoicesInv => ChosenOnce
  BY DEF ChoicesInv
<1>2. ChoicesInit => ChoicesInv
  BY InitChoices
<1>3. ChoicesInv /\ [ChoicesNext]_choicesVars => ChoicesInv'
  BY NextChoices
<1> QED BY <1>1, <1>2, <1>3, PTL DEF ChoicesSpec

------------------------------------------------------------------------------
(* Agent retries: an announced retry has its task while the bot runs        *)
(* (ScheduledHasTask), and no attempt of a series is submitted twice        *)
(* (RetriedOnce).                                                           *)

Steps == {"none", "sleep", "send", "sent"}
RetriesShape ==
  /\ bound \in Windows
  /\ row = [w \in Windows |-> row[w]]
  /\ \A w \in Windows: row[w] = Row(row[w].attempt, row[w].state)
  /\ task = [w \in Windows |-> task[w]]
  /\ \A w \in Windows: task[w] = Task(task[w].attempt, task[w].step)

TasksInv == RetriesShape /\ ScheduledHasTask

LEMMA RecordShape ==
  ASSUME NEW a, NEW s
  PROVE  /\ Row(a, s).attempt = a /\ Row(a, s).state = s
         /\ Task(a, s).attempt = a /\ Task(a, s).step = s
         /\ NoRow = Row(0, "none") /\ NoTask = Task(0, "none")
  BY DEF Row, Task, NoRow, NoTask

LEMMA InitTasks == Init => TasksInv
  BY RecordShape DEF Init, TasksInv, RetriesShape, ScheduledHasTask

\* A step that changes the row and the task of one window.
LEMMA OneWindow ==
  ASSUME TasksInv, NEW w \in Windows, NEW r, NEW s, NEW a, NEW p,
         bound' \in Windows, up' = up,
         row' = [row EXCEPT ![w] = Row(r, s)], task' = [task EXCEPT ![w] = Task(a, p)],
         s = "scheduled" => a = r /\ p = "sleep"
  PROVE  TasksInv'
<1>1. row'[w] = Row(r, s) /\ task'[w] = Task(a, p)
  BY DEF TasksInv, RetriesShape
<1>2. \A v \in Windows \ {w}: row'[v] = row[v] /\ task'[v] = task[v]
  BY DEF TasksInv, RetriesShape
<1>3. /\ row' = [v \in Windows |-> row'[v]]
      /\ task' = [v \in Windows |-> task'[v]]
  BY DEF TasksInv, RetriesShape
<1>4. ASSUME NEW v \in Windows
      PROVE  /\ row'[v] = Row(row'[v].attempt, row'[v].state)
             /\ task'[v] = Task(task'[v].attempt, task'[v].step)
  <2>1. CASE v = w
    BY <2>1, <1>1, RecordShape
  <2>2. CASE v # w
    BY <2>2, <1>2 DEF TasksInv, RetriesShape
  <2> QED BY <2>1, <2>2
<1>5. RetriesShape'
  BY <1>3, <1>4 DEF RetriesShape
<1>6. ScheduledHasTask'
  BY <1>1, <1>2, RecordShape DEF TasksInv, ScheduledHasTask
<1> QED BY <1>5, <1>6 DEF TasksInv

\* The entries a step leaves alone are entries it could have written.
LEMMA Unchanged ==
  ASSUME TasksInv, NEW w \in Windows
  PROVE  /\ row = [row EXCEPT ![w] = Row(row[w].attempt, row[w].state)]
         /\ task = [task EXCEPT ![w] = Task(task[w].attempt, task[w].step)]
  BY DEF TasksInv, RetriesShape

LEMMA ScheduleKeeps ==
  ASSUME TasksInv, NEW w \in Windows, Schedule(w), up' = up, UNCHANGED bound
  PROVE  TasksInv'
<1>1. CASE UNCHANGED <<row, task>>
  BY <1>1 DEF TasksInv, RetriesShape, ScheduledHasTask
<1>2. CASE /\ row' = [row EXCEPT ![w] = Row(NextAttempt(w), "scheduled")]
           /\ task' = [task EXCEPT ![w] = Task(NextAttempt(w), "sleep")]
  BY <1>2, OneWindow DEF TasksInv, RetriesShape
<1> QED BY <1>1, <1>2 DEF Schedule

LEMMA DueKeeps == ASSUME TasksInv, Due PROVE TasksInv'
<1>1. PICK w \in Windows:
        /\ up /\ task[w].step = "sleep" /\ UNCHANGED <<bound, up>>
        /\ IF row[w] = Row(task[w].attempt, "scheduled")
           THEN row' = [row EXCEPT ![w] = Marked(w)] /\ task' = [task EXCEPT ![w].step = "send"]
           ELSE UNCHANGED row /\ task' = [task EXCEPT ![w] = NoTask]
  BY DEF Due
<1>2. bound' \in Windows /\ task[w] = Task(task[w].attempt, "sleep")
  BY <1>1 DEF TasksInv, RetriesShape
<1>3. CASE row[w] = Row(task[w].attempt, "scheduled")
  <2>1. task' = [task EXCEPT ![w] = Task(task[w].attempt, "send")]
    BY <1>1, <1>2, <1>3 DEF Task
  <2>2. row' = [row EXCEPT ![w] = Row(row[w].attempt, "waiting")]
    BY <1>1, <1>3 DEF Marked
  <2> QED BY <1>1, <1>2, <2>1, <2>2, OneWindow
<1>4. CASE row[w] # Row(task[w].attempt, "scheduled")
  <2>1. row[w].state # "scheduled"
    BY <1>1, <1>2, <1>4, RecordShape DEF TasksInv, RetriesShape, ScheduledHasTask
  <2>2. task' = [task EXCEPT ![w] = Task(0, "none")]
    BY <1>1, <1>4, RecordShape
  <2>3. row' = [row EXCEPT ![w] = Row(row[w].attempt, row[w].state)]
    BY <1>1, <1>4, Unchanged
  <2> QED BY <1>1, <1>2, <2>1, <2>2, <2>3, OneWindow
<1> QED BY <1>3, <1>4

\* The steps of the task after that leave the row, which no longer waits.
LEMMA TaskKeeps == ASSUME TasksInv, Send \/ SendFails \/ End PROVE TasksInv'
<1>1. PICK w \in Windows:
        /\ up /\ task[w].step \in {"send", "sent"} /\ UNCHANGED <<bound, up, row>>
        /\ task' = [task EXCEPT ![w].step = "sent"] \/ task' = [task EXCEPT ![w] = NoTask]
  BY DEF Send, SendFails, End
<1>2. bound' \in Windows /\ task[w] = Task(task[w].attempt, task[w].step)
  BY <1>1 DEF TasksInv, RetriesShape
<1>3. row[w].state # "scheduled"
  BY <1>1, RecordShape DEF TasksInv, ScheduledHasTask
<1>4. row' = [row EXCEPT ![w] = Row(row[w].attempt, row[w].state)]
  BY <1>1, Unchanged
<1>5. PICK a, p: task' = [task EXCEPT ![w] = Task(a, p)]
  <2>1. CASE task' = [task EXCEPT ![w].step = "sent"]
    <3>1. [task[w] EXCEPT !.step = "sent"] = Task(task[w].attempt, "sent")
      BY <1>2 DEF Task
    <3> QED BY <2>1, <3>1
  <2>2. CASE task' = [task EXCEPT ![w] = NoTask]
    BY <2>2, RecordShape
  <2> QED BY <1>1, <2>1, <2>2
<1> QED BY <1>1, <1>2, <1>3, <1>4, <1>5, OneWindow

LEMMA ResetKeeps ==
  ASSUME TasksInv, NEW w \in Windows, Reset(w), UNCHANGED <<bound, up>>
  PROVE  TasksInv'
<1>1. row' = [row EXCEPT ![w] = Row(0, "none")] /\ task' = [task EXCEPT ![w] = Task(0, "none")]
  BY RecordShape DEF Reset
<1> QED BY <1>1, OneWindow DEF TasksInv, RetriesShape

LEMMA RestoreKeeps == ASSUME TasksInv, Restore PROVE TasksInv'
<1> DEFINE R == Retargeted
<1>1. R = [w \in Windows |-> R[w]] /\ \A w \in Windows: R[w] = Row(R[w].attempt, R[w].state)
  <2>1. CASE \E w \in Windows: row[w] # NoRow
    <3> DEFINE v == CHOOSE v \in Windows: row[v] # NoRow
    <3>1. v \in Windows
      BY <2>1
    <3>2. R = [w \in Windows |-> IF w = bound THEN row[v] ELSE NoRow]
      BY <2>1 DEF Retargeted
    <3> HIDE DEF v, R
    <3>3. \A w \in Windows: R[w] = IF w = bound THEN row[v] ELSE NoRow
      BY <3>2
    <3>4. R = [w \in Windows |-> R[w]]
      BY <3>2
    <3> QED BY <3>1, <3>3, <3>4, RecordShape DEF TasksInv, RetriesShape
  <2>2. CASE ~\E w \in Windows: row[w] # NoRow
    BY <2>2 DEF Retargeted, TasksInv, RetriesShape
  <2> QED BY <2>1, <2>2
<1>2. /\ row' = R /\ UNCHANGED bound
      /\ task' = [w \in Windows |-> IF R[w].state = "scheduled" THEN Task(R[w].attempt, "sleep") ELSE NoTask]
  BY DEF Restore, Resumed
<1> HIDE DEF R
<1>3. RetriesShape'
  BY <1>1, <1>2, RecordShape DEF TasksInv, RetriesShape
<1>4. ScheduledHasTask'
  BY <1>2 DEF ScheduledHasTask
<1> QED BY <1>3, <1>4 DEF TasksInv

LEMMA NextTasks == TasksInv /\ [Next]_vars => TasksInv'
<1> SUFFICES ASSUME TasksInv, [Next]_vars PROVE TasksInv'
  OBVIOUS
<1>1. CASE UNCHANGED vars
  BY <1>1 DEF vars, TasksInv, RetriesShape, ScheduledHasTask
<1>2. CASE UserInput
  BY <1>2, ResetKeeps DEF UserInput, TasksInv, RetriesShape
<1>3. CASE Complete
  BY <1>3, ResetKeeps DEF Complete
<1>4. CASE Error \/ ErrorAgain
  BY <1>4, ScheduleKeeps DEF Error, ErrorAgain, TasksInv, RetriesShape
<1>5. CASE Crash
  BY <1>5, RecordShape DEF Crash, TasksInv, RetriesShape, ScheduledHasTask
<1> QED BY <1>1, <1>2, <1>3, <1>4, <1>5, DueKeeps, TaskKeeps, RestoreKeeps DEF Next

\* While the bot runs, an announced retry is never without the task that
\* sends it, through crashes, restarts and windows that change.
THEOREM AnnouncedRetryHasTask == Spec => []ScheduledHasTask
<1>1. TasksInv => ScheduledHasTask
  BY DEF TasksInv
<1> QED BY <1>1, InitTasks, NextTasks, PTL DEF Spec
------------------------------------------------------------------------------
(* No attempt of a series is submitted twice.                               *)

\* All there is of retries belongs to one window, the topic's while the bot runs: it moves
\* with a restart, and is what the restored attempt is counted from.
Only(v) ==
  \A w \in Windows \ {v}: row[w] = NoRow /\ task[w] = NoTask /\ attempts[w] = 0

Unsent(v) == row[v].state = "scheduled" \/ task[v].step = "send"

\* The row has the highest attempt, and one that is still to be submitted has not been.
Level(v) ==
  /\ row[v].attempt \in Nat /\ row[v].attempt <= Delays
  /\ up => attempts[v] = row[v].attempt
  /\ task[v] # NoTask => task[v].attempt = row[v].attempt
  /\ \A i \in DOMAIN tries: /\ tries[i] <= row[v].attempt
                            /\ Unsent(v) => tries[i] < row[v].attempt

OneSeries == \E v \in Windows: (up => v = bound) /\ Only(v) /\ Level(v)

RetryInv ==
  /\ TasksInv
  /\ attempts \in [Windows -> Nat] /\ tries \in Seq(Nat)
  /\ OneSeries /\ RetriedOnce

\* A step that changes the entries of the topic's window only, and submits nothing.
LEMMA TopicStep ==
  ASSUME RetryInv, TasksInv', up, UNCHANGED <<up, bound, tries>>, attempts' \in [Windows -> Nat],
         \A w \in Windows \ {bound}: row'[w] = row[w] /\ task'[w] = task[w]
                                                     /\ attempts'[w] = attempts[w],
         row'[bound].attempt \in Nat, row'[bound].attempt <= Delays,
         row'[bound].attempt >= row[bound].attempt,
         attempts'[bound] = row'[bound].attempt,
         task'[bound] # NoTask => task'[bound].attempt = row'[bound].attempt,
         Unsent(bound)' => Unsent(bound) \/ row'[bound].attempt > row[bound].attempt
  PROVE  RetryInv'
<1>1. bound \in Windows /\ Only(bound) /\ Level(bound)
  BY DEF RetryInv, OneSeries
<1>2. \A i \in DOMAIN tries: tries[i] \in Nat
  BY DEF RetryInv
<1>3. Only(bound)'
  BY <1>1 DEF Only
<1>4. Level(bound)'
  BY <1>1, <1>2 DEF Level
<1>5. RetriedOnce'
  BY DEF RetryInv, RetriedOnce
<1> QED BY <1>1, <1>3, <1>4, <1>5 DEF RetryInv, OneSeries

LEMMA ScheduleRetries ==
  ASSUME Delays \in Nat, RetryInv, TasksInv', up, Schedule(bound), UNCHANGED <<up, bound, tries>>
  PROVE  RetryInv'
<1>1. bound \in Windows /\ Level(bound) /\ attempts \in [Windows -> Nat] /\ RetriesShape
  BY DEF RetryInv, OneSeries, TasksInv, RetriesShape
<1>2. CASE UNCHANGED <<row, attempts, task>>
  BY <1>1, <1>2, TopicStep DEF Level, Unsent
<1>3. CASE ~UNCHANGED <<row, attempts, task>>
  <2> DEFINE n == NextAttempt(bound)
  <2>1. /\ task[bound] = NoTask /\ ~(n > Delays)
        /\ row' = [row EXCEPT ![bound] = Row(n, "scheduled")]
        /\ attempts' = [attempts EXCEPT ![bound] = n]
        /\ task' = [task EXCEPT ![bound] = Task(n, "sleep")]
    BY <1>3 DEF Schedule
  <2>2. /\ n \in Nat
        /\ n = IF row[bound].state = "scheduled" THEN row[bound].attempt ELSE row[bound].attempt + 1
    BY <1>1 DEF Level, NextAttempt
  <2> HIDE DEF n
  <2>3. row'[bound] = Row(n, "scheduled") /\ attempts'[bound] = n /\ task'[bound] = Task(n, "sleep")
    BY <1>1, <2>1 DEF RetriesShape
  <2>4. \A w \in Windows \ {bound}: row'[w] = row[w] /\ task'[w] = task[w]
                                                     /\ attempts'[w] = attempts[w]
    BY <1>1, <2>1 DEF RetriesShape
  <2>5. row'[bound].attempt = n /\ task'[bound].attempt = n
    BY <2>3, RecordShape
  <2>6. n <= Delays /\ n >= row[bound].attempt
        /\ (n > row[bound].attempt \/ row[bound].state = "scheduled")
    BY <1>1, <2>1, <2>2 DEF Level
  <2>7. attempts' \in [Windows -> Nat]
    BY <1>1, <2>1, <2>2
  <2> QED BY <2>2, <2>3, <2>4, <2>5, <2>6, <2>7, TopicStep DEF Unsent
<1> QED BY <1>2, <1>3

\* Who has a task is the topic's window.
LEMMA TaskAtTopic ==
  ASSUME RetryInv, up, NEW w \in Windows, task[w].step # "none"
  PROVE  w = bound
  BY RecordShape DEF RetryInv, OneSeries, Only

LEMMA TaskRetries ==
  ASSUME RetryInv, TasksInv', Due \/ SendFails \/ End
  PROVE  RetryInv'
<1>1. PICK w \in Windows:
        /\ up /\ task[w].step \in {"sleep", "send", "sent"} /\ UNCHANGED <<bound, up, attempts, tries>>
        /\ row' = row \/ row' = [row EXCEPT ![w] = Marked(w)]
        /\ \/ task' = [task EXCEPT ![w] = NoTask]
           \/ task' = [task EXCEPT ![w].step = "sent"]
           \/ row[w].state = "scheduled" /\ task' = [task EXCEPT ![w].step = "send"]
  BY RecordShape DEF Due, SendFails, End
<1>2. w = bound /\ Level(w) /\ attempts \in [Windows -> Nat] /\ RetriesShape /\ RetriesShape'
  BY <1>1, TaskAtTopic DEF RetryInv, OneSeries, TasksInv
<1>3. \A u \in Windows \ {w}: row'[u] = row[u] /\ task'[u] = task[u]
  BY <1>1, <1>2 DEF RetriesShape
<1>4. row'[w].attempt = row[w].attempt /\ (row'[w].state = "scheduled" => row[w].state = "scheduled")
  BY <1>1, <1>2, RecordShape DEF RetriesShape, Marked
<1>5. task[w] # NoTask
  BY <1>1, RecordShape
<1>6. /\ task'[w] # NoTask => task'[w].attempt = task[w].attempt
      /\ task'[w].step = "send" => row[w].state = "scheduled"
  <2>1. CASE task' = [task EXCEPT ![w] = NoTask]
    BY <1>2, <2>1, RecordShape DEF RetriesShape
  <2>2. CASE task' = [task EXCEPT ![w].step = "sent"]
    BY <1>2, <2>2, RecordShape DEF RetriesShape, Task
  <2>3. CASE row[w].state = "scheduled" /\ task' = [task EXCEPT ![w].step = "send"]
    BY <1>2, <2>3, RecordShape DEF RetriesShape, Task
  <2> QED BY <1>1, <2>1, <2>2, <2>3
<1> QED BY <1>1, <1>2, <1>3, <1>4, <1>5, <1>6, TopicStep DEF Level, Unsent

\* The attempt that is submitted is higher than those before it.
LEMMA SendRetries ==
  ASSUME Delays \in Nat, RetryInv, TasksInv', Send
  PROVE  RetryInv'
<1>1. PICK w \in Windows:
        /\ up /\ task[w].step = "send" /\ UNCHANGED <<bound, up, attempts, row>>
        /\ tries' = Append(tries, task[w].attempt)
        /\ task' = [task EXCEPT ![w].step = "sent"]
  BY DEF Send
<1>2. w = bound /\ Only(w) /\ Level(w) /\ RetriesShape /\ tries \in Seq(Nat) /\ RetriedOnce
  BY <1>1, TaskAtTopic DEF RetryInv, OneSeries, TasksInv
<1> DEFINE n == row[w].attempt
<1>3. task[w].attempt = n /\ n \in Nat /\ n <= Delays /\ \A i \in DOMAIN tries: tries[i] < n
  BY <1>1, <1>2, RecordShape DEF Level, Unsent
<1>4. row[w].state # "scheduled"
  BY <1>1, <1>2, RecordShape DEF RetryInv, TasksInv, ScheduledHasTask
<1>5. task'[w] = Task(n, "sent") /\ \A u \in Windows \ {w}: task'[u] = task[u]
  BY <1>1, <1>2, <1>3, RecordShape DEF RetriesShape, Task
<1>6. /\ tries' \in Seq(Nat) /\ DOMAIN tries' = 1..Len(tries) + 1 /\ Len(tries) \in Nat
      /\ DOMAIN tries = 1..Len(tries)
      /\ \A i \in DOMAIN tries: tries'[i] = tries[i] /\ tries[i] \in Nat
      /\ tries'[Len(tries) + 1] = n
  BY <1>1, <1>2, <1>3
<1>7. \A i \in DOMAIN tries': tries'[i] <= n
  BY <1>3, <1>6
<1>8. RetriedOnce'
  <2> SUFFICES ASSUME NEW i \in DOMAIN tries', NEW j \in DOMAIN tries', i < j
               PROVE  tries'[i] < tries'[j] /\ tries'[j] <= Delays
    BY DEF RetriedOnce
  <2>1. i \in DOMAIN tries
    BY <1>6
  <2>2. CASE j \in DOMAIN tries
    BY <1>2, <1>6, <2>1, <2>2 DEF RetriedOnce
  <2>3. CASE j = Len(tries) + 1
    BY <1>3, <1>6, <2>1, <2>3
  <2> QED BY <1>6, <2>2, <2>3
<1>9. Level(w)'
  BY <1>1, <1>2, <1>3, <1>4, <1>5, <1>7, RecordShape DEF Level, Unsent
<1>10. Only(w)'
  BY <1>1, <1>2, <1>5 DEF Only
<1> QED BY <1>1, <1>2, <1>6, <1>8, <1>9, <1>10 DEF RetryInv, OneSeries

LEMMA ResetRetries ==
  ASSUME Delays \in Nat, RetryInv, TasksInv', up, Reset(bound), UNCHANGED <<up, bound>>
  PROVE  RetryInv'
<1>1. bound \in Windows /\ Only(bound) /\ RetriesShape /\ attempts \in [Windows -> Nat]
  BY DEF RetryInv, OneSeries, TasksInv, RetriesShape
<1>2. /\ row'[bound] = NoRow /\ task'[bound] = NoTask /\ attempts'[bound] = 0
      /\ attempts' \in [Windows -> Nat] /\ tries' = <<>>
      /\ \A w \in Windows \ {bound}: row'[w] = row[w] /\ task'[w] = task[w] /\ attempts'[w] = attempts[w]
  BY <1>1 DEF Reset, RetriesShape
<1>3. Only(bound)'
  BY <1>1, <1>2 DEF Only
<1>4. Level(bound)'
  <2>1. DOMAIN tries' = {}
    BY <1>2
  <2>2. row'[bound].attempt = 0 /\ task'[bound].attempt = 0 /\ task'[bound].step = "none"
    BY <1>2, RecordShape
  <2> QED BY <1>2, <2>1, <2>2, RecordShape DEF Level, Unsent
<1>5. tries' \in Seq(Nat) /\ RetriedOnce'
  BY <1>2 DEF RetriedOnce
<1> QED BY <1>1, <1>2, <1>3, <1>4, <1>5 DEF RetryInv, OneSeries

\* The attempts that were submitted and the row outlive the process.
LEMMA CrashRetries ==
  ASSUME RetryInv, TasksInv', Crash
  PROVE  RetryInv'
<1>1. PICK v \in Windows: Only(v) /\ Level(v)
  BY DEF RetryInv, OneSeries
<1>2. /\ ~up' /\ UNCHANGED <<row, tries>>
      /\ \A w \in Windows: task'[w] = NoTask /\ attempts'[w] = 0
      /\ attempts' \in [Windows -> Nat]
  BY DEF Crash
<1>3. Only(v)' /\ Level(v)'
  BY <1>1, <1>2, RecordShape DEF Only, Level, Unsent
<1>4. tries' \in Seq(Nat) /\ RetriedOnce'
  BY <1>2 DEF RetryInv, RetriedOnce
<1> QED BY <1>2, <1>3, <1>4 DEF RetryInv, OneSeries

\* The restored row is that of the window the series was at.
LEMMA RestoreRetries ==
  ASSUME RetryInv, TasksInv', Restore
  PROVE  RetryInv'
<1> DEFINE R == Retargeted
<1>1. PICK v \in Windows: Only(v) /\ Level(v)
  BY DEF RetryInv, OneSeries
<1>2. bound \in Windows /\ RetriesShape
  BY DEF RetryInv, TasksInv, RetriesShape
<1>3. /\ R[bound] = row[v] /\ \A w \in Windows \ {bound}: R[w] = NoRow
      /\ \A w \in Windows: R[w].attempt \in Nat
  <2>1. NoRow.attempt \in Nat
    BY RecordShape
  <2>2. CASE row[v] # NoRow
    <3>1. v = CHOOSE u \in Windows: row[u] # NoRow
      BY <1>1, <2>2 DEF Only
    <3>2. R = [w \in Windows |-> IF w = bound THEN row[v] ELSE NoRow]
      BY <2>2, <3>1 DEF Retargeted
    <3> QED BY <1>1, <1>2, <2>1, <3>2 DEF Level
  <2>3. CASE row[v] = NoRow
    <3>1. \A w \in Windows: row[w] = NoRow
      BY <1>1, <2>3 DEF Only
    <3>2. R = row
      BY <3>1 DEF Retargeted
    <3> QED BY <1>2, <2>1, <2>3, <3>1, <3>2
  <2> QED BY <2>2, <2>3
<1>4. /\ up' /\ row' = R /\ UNCHANGED <<bound, tries>>
      /\ attempts' = [w \in Windows |-> R[w].attempt]
      /\ task' = [w \in Windows |-> IF Resumed(R[w]) THEN Task(R[w].attempt, "sleep") ELSE NoTask]
  BY DEF Restore
<1> HIDE DEF R
<1>5. Only(bound)'
  BY <1>3, <1>4, RecordShape DEF Only, Resumed
<1>6. Level(bound)'
  BY <1>1, <1>2, <1>3, <1>4, RecordShape DEF Level, Unsent
<1>7. attempts' \in [Windows -> Nat] /\ tries' \in Seq(Nat) /\ RetriedOnce'
  BY <1>3, <1>4 DEF RetryInv, RetriedOnce
<1> QED BY <1>2, <1>4, <1>5, <1>6, <1>7 DEF RetryInv, OneSeries

LEMMA NextRetries == ASSUME Delays \in Nat PROVE RetryInv /\ [Next]_vars => RetryInv'
<1> SUFFICES ASSUME RetryInv, [Next]_vars PROVE RetryInv'
  OBVIOUS
<1>1. TasksInv'
  BY NextTasks DEF RetryInv
<1>2. CASE UNCHANGED vars
  <2>1. PICK v \in Windows: (up => v = bound) /\ Only(v) /\ Level(v)
    BY DEF RetryInv, OneSeries
  <2>2. Only(v)' /\ Level(v)' /\ (up' => v = bound')
    BY <1>2, <2>1 DEF vars, Only, Level, Unsent
  <2> QED BY <1>1, <1>2, <2>2 DEF vars, RetryInv, OneSeries, RetriedOnce
<1>3. CASE UserInput \/ Complete
  BY <1>1, <1>3, ResetRetries DEF UserInput, Complete
<1>4. CASE Error \/ ErrorAgain
  BY <1>1, <1>4, ScheduleRetries DEF Error, ErrorAgain
<1> QED BY <1>1, <1>2, <1>3, <1>4, TaskRetries, SendRetries, CrashRetries, RestoreRetries DEF Next

\* bot.py: _schedule_transient_agent_retry and mark_transient_agent_retry_waiting never
\* submit an attempt of a series again, or one beyond the delays, whatever restarts,
\* repeated error reports and rebinds come between.
THEOREM AttemptsAreRetriedOnce == ASSUME Delays \in Nat PROVE Spec => []RetriedOnce
<1>1. Init => RetryInv
  <2> SUFFICES ASSUME Init PROVE RetryInv
    OBVIOUS
  <2>1. /\ TasksInv /\ bound \in Windows /\ tries = <<>> /\ attempts \in [Windows -> Nat]
        /\ \A w \in Windows: row[w] = NoRow /\ task[w] = NoTask /\ attempts[w] = 0
    BY InitTasks DEF Init
  <2>2. Only(bound) /\ Level(bound)
    BY <2>1, RecordShape DEF Only, Level
  <2> QED BY <2>1, <2>2 DEF RetryInv, OneSeries, RetriedOnce
<1>2. RetryInv => RetriedOnce
  BY DEF RetryInv
<1> QED BY <1>1, <1>2, NextRetries, PTL DEF Spec
------------------------------------------------------------------------------
(* Host health: a recovery message is true (RecoveryIsTrue).  The          *)
(* candidate is never older than the row of clear samples behind it, and   *)
(* an issue in the table means that the last message was an alert.         *)

HealthInv ==
  /\ h_event \in {"none", "alert", "recovery"}
  /\ h_clear \in 0..Stable + 1 /\ h_candidate \in 0..Stable + 1
  /\ h_candidate # Health!NoCandidate => h_candidate < h_clear
  /\ h_active # {} => h_told = "alert" \/ h_unrecorded
  /\ RecoveryIsTrue

LEMMA HealthSteps == ServicesSpec => [][Health!Next \/ UNCHANGED healthVars]_healthVars
<1>1. [ServicesNext]_allVars => [Health!Next \/ UNCHANGED healthVars]_healthVars
  BY DEF ServicesNext, allVars, BubblesStep, BridgeStep, PoolStep, RetriesStep, ChoicesStep,
         HealthStep, UpdaterStep, NodesStep
<1> QED BY <1>1, PTL DEF ServicesSpec

LEMMA SampleKeeps == ASSUME HealthInv, Health!Sample PROVE HealthInv'
<1> USE ServicesAssumption DEF Health!NoCandidate
<1>1. Stable \in Nat /\ UNCHANGED <<h_told, h_unrecorded>>
  BY DEF Health!Sample
<1>2. /\ h_sampled' = h_present
      /\ h_clear' = IF h_present = {} THEN Health!Capped(h_clear + 1, Stable + 1) ELSE 0
  BY DEF Health!Sample
<1>3. CASE h_present = {} /\ h_active = {}
  <2>1. h_event' = "none" /\ h_candidate' = Stable + 1 /\ h_active' = {}
    BY <1>3 DEF Health!Sample
  <2> QED BY <1>1, <1>2, <2>1 DEF HealthInv, Health!Capped, RecoveryIsTrue, Health!RecoveryIsTrue
<1>4. CASE h_present = {} /\ h_active # {}
  <2>1. /\ h_event' = (IF Health!Recovers THEN "recovery" ELSE "none")
        /\ h_candidate' = (IF h_candidate = Stable + 1 THEN 0 ELSE Health!Capped(h_candidate + 1, Stable))
        /\ h_active' = h_active
    BY <1>4 DEF Health!Sample, Health!Age
  <2>2. h_clear' \in 0..Stable + 1 /\ h_candidate' \in 0..Stable /\ h_candidate' < h_clear'
    BY <1>1, <1>2, <1>4, <2>1 DEF HealthInv, Health!Capped
  <2>3. Health!Recovers => h_clear' > Stable
    BY <1>1, <1>2, <1>4 DEF HealthInv, Health!Recovers, Health!Age, Health!Capped
  <2>4. h_told' = "alert" \/ h_unrecorded'
    BY <1>1, <1>4 DEF HealthInv
  <2> QED BY <1>1, <1>2, <1>4, <2>1, <2>2, <2>3, <2>4 DEF HealthInv, RecoveryIsTrue, Health!RecoveryIsTrue
<1>5. CASE h_present # {}
  <2>1. /\ h_event' \in {"none", "alert"} /\ h_candidate' = Stable + 1 /\ h_clear' = 0
        /\ h_active' \subseteq h_active
    BY <1>2, <1>5 DEF Health!Sample
  <2> QED BY <1>1, <2>1 DEF HealthInv, RecoveryIsTrue, Health!RecoveryIsTrue
<1> QED BY <1>3, <1>4, <1>5

\* An announcement is complete: an alert leaves issues in the table at most,
\* a recovery only those that were not written.
LEMMA RecordKeeps == ASSUME HealthInv, Health!Record \/ Health!CutRecord PROVE HealthInv'
<1>1. CASE Health!Record
  BY <1>1, ServicesAssumption DEF HealthInv, Health!Record, Health!NoCandidate, RecoveryIsTrue, Health!RecoveryIsTrue
<1>2. CASE Health!CutRecord
  <2>1. h_event' = "none" /\ h_candidate' = Stable + 1 /\ UNCHANGED h_clear
    BY <1>2 DEF Health!CutRecord, Health!NoCandidate
  <2>2. h_told' = "alert" \/ h_unrecorded'
    BY <1>2, Zenon DEF Health!CutRecord, HealthInv
  <2>3. h_candidate' \in 0..Stable + 1 /\ h_clear' \in 0..Stable + 1
    BY <2>1, ServicesAssumption DEF HealthInv
  <2> QED BY <2>1, <2>2, <2>3 DEF HealthInv, Health!NoCandidate, RecoveryIsTrue, Health!RecoveryIsTrue
<1> QED BY <1>1, <1>2

LEMMA NextHealth == ASSUME HealthInv, [Health!Next]_healthVars PROVE HealthInv'
<1>1. CASE UNCHANGED healthVars \/ Health!Change
  BY <1>1 DEF healthVars, Health!Change, HealthInv, Health!NoCandidate, RecoveryIsTrue, Health!RecoveryIsTrue
<1>2. CASE Health!NotDelivered \/ Health!Restart
  BY <1>2, ServicesAssumption DEF Health!NotDelivered, Health!Restart, Health!Fail, HealthInv,
    Health!NoCandidate, RecoveryIsTrue, Health!RecoveryIsTrue
<1> QED BY <1>1, <1>2, SampleKeeps, RecordKeeps DEF Health!Next

\* vps_health.py: decide and record announce a recovery only when the last thing every user
\* received is an alert and every sample of the stable period found nothing, for any set of
\* issues, cooldown and stable period, through restarts and messages that did not arrive; a
\* recovery is repeated only when a crash kept the one everybody received from being recorded.
THEOREM RecoveriesAreTrue == ServicesSpec => []RecoveryIsTrue
<1>1. ServicesInit => HealthInv
  BY ServicesAssumption DEF ServicesInit, Health!Init, HealthInv, Health!NoCandidate,
    RecoveryIsTrue, Health!RecoveryIsTrue
<1>2. HealthInv /\ [Health!Next \/ UNCHANGED healthVars]_healthVars => HealthInv'
  BY NextHealth
<1>3. HealthInv => RecoveryIsTrue
  BY DEF HealthInv
<1> QED BY <1>1, <1>2, <1>3, HealthSteps, PTL DEF ServicesSpec
------------------------------------------------------------------------------
(* The runner pool: a listener is stopped only when nobody needed it for   *)
(* the grace period (StopsOnlyIdle).  What the run knows, its copy of the  *)
(* file, is never older than the last need, unless a failing ps hid it or  *)
(* a run that timed out did not save it; and what it has decided stays     *)
(* true until it acts.                                                     *)

Times == 0..MaxTime + 1
\* Between two runs the file is what the next one will know.
Known(r) == IF r_pass.step = "off" THEN r_file[r] ELSE r_state[r]

PoolShape ==
  /\ r_now \in 0..MaxTime
  /\ r_file \in [Pool!RunnerSet -> Times] /\ r_state \in [Pool!RunnerSet -> Times]
  /\ r_needed \in [Pool!RunnerSet -> Times]
  /\ r_pass = [step |-> r_pass.step, todo |-> r_pass.todo, jobs |-> r_pass.jobs,
                working |-> r_pass.working, action |-> r_pass.action]
  /\ r_pass.todo \in Seq(Pool!RunnerSet)
  /\ r_pass.step \in {"off", "look", "act"} /\ (r_pass.step = "act" => r_pass.todo # <<>>)

NeedsAreKnown ==
  \A r \in Pool!RunnerSet:
    /\ r_needed[r] \in 0..r_now \cup {Pool!Never}
    /\ r_needed[r] = Pool!Never => r_state[r] = Pool!Never /\ r_file[r] = Pool!Never
    /\ r \notin r_excused => r_needed[r] <= Known(r)

StopIsDue ==
  r_pass.step = "act" /\ r_pass.action = "stop" =>
    /\ r_pass.working = {}
    /\ Pool!Runner \in r_excused \/ r_now - r_needed[Pool!Runner] >= Grace

PoolInv == PoolShape /\ NeedsAreKnown /\ StopIsDue

LEMMA PoolSteps == ServicesSpec => [][Pool!Next \/ UNCHANGED runnersVars]_runnersVars
<1>1. [ServicesNext]_allVars => [Pool!Next \/ UNCHANGED runnersVars]_runnersVars
  BY DEF ServicesNext, allVars, BubblesStep, BridgeStep, PoolStep, RetriesStep, ChoicesStep,
         HealthStep, UpdaterStep, NodesStep
<1> QED BY <1>1, PTL DEF ServicesSpec

LEMMA InitPool == Pool!Init => PoolInv
  BY ServicesAssumption DEF Pool!Init, Pool!Off, Pool!Never, PoolInv, PoolShape, NeedsAreKnown, StopIsDue, Times, Known

LEMMA PoolBegins == ASSUME PoolInv, Pool!Begin PROVE PoolInv'
<1>1. /\ r_pass.step = "off" /\ r_now' = r_now + 1 /\ r_now' <= MaxTime /\ r_state' = r_file
      /\ UNCHANGED <<r_file, r_needed, r_excused>>
  BY ServicesAssumption DEF Pool!Begin, Pool!Off, PoolInv, PoolShape
<1>2. /\ r_pass' = [step |-> r_pass'.step, todo |-> r_pass'.todo, jobs |-> r_pass'.jobs,
                    working |-> r_pass'.working, action |-> r_pass'.action]
      /\ r_pass'.step = "look" /\ r_pass'.todo = Runners
  BY DEF Pool!Begin, Pool!Off
<1>3. PoolShape'
  BY <1>1, <1>2, ServicesAssumption DEF PoolInv, PoolShape
<1>4. NeedsAreKnown'
  BY <1>1, <1>2, ServicesAssumption DEF PoolInv, PoolShape, NeedsAreKnown, Known, Times, Pool!Never
<1> QED BY <1>2, <1>3, <1>4 DEF PoolInv, StopIsDue

LEMMA PoolLooks == ASSUME PoolInv, Pool!Look PROVE PoolInv'
<1> DEFINE r == Pool!Runner
<1>1. PICK ok \in BOOLEAN:
        /\ r_pass.step = "look" /\ r_pass.todo # <<>>
        /\ r_pass' = [r_pass EXCEPT !.step = "act", !.action = Pool!Decision(r, ok).action]
        /\ r_state' = [r_state EXCEPT ![r] = Pool!Decision(r, ok).at]
        /\ r_needed' = [r_needed EXCEPT ![r] =
             IF ~ok \/ r \in r_pass.jobs \cup r_queued \/ @ = Pool!Never THEN r_now ELSE @]
        /\ r_excused' = IF Pool!Decision(r, ok).at >= r_needed'[r] THEN r_excused \ {r}
                        ELSE IF r \in r_pass.jobs \ r_pass.working THEN r_excused \cup {r} ELSE r_excused
        /\ UNCHANGED <<r_now, r_file>>
  BY DEF Pool!Look, Pool!Hidden
<1>2. r \in Pool!RunnerSet
  BY <1>1 DEF PoolInv, PoolShape, Pool!Runner
<1> DEFINE d == Pool!Decision(r, ok)
           last == Pool!LastNeeded(r)
<1>3. /\ last = IF r_state[r] = Pool!Never THEN r_now ELSE r_state[r]
      /\ \/ d.action \in {"keep", "start"} /\ d.at = r_now
         \/ /\ ok /\ r_pass.working = {} /\ r \notin r_queued
            /\ d.at = last /\ (d.action = "stop" => r_now - last >= Grace)
  BY DEF Pool!Decision, Pool!WorkerActive, Pool!LastNeeded
<1> HIDE DEF d, last, r
<1>4. /\ r_pass' = [step |-> r_pass'.step, todo |-> r_pass'.todo, jobs |-> r_pass'.jobs,
                    working |-> r_pass'.working, action |-> r_pass'.action]
      /\ r_pass'.step = "act" /\ r_pass'.todo = r_pass.todo /\ r_pass'.working = r_pass.working
      /\ r_pass'.action = d.action
  BY <1>1 DEF PoolInv, PoolShape, d
<1>5. /\ r_state'[r] = d.at /\ d.at \in Times
      /\ r_needed'[r] \in 0..r_now /\ (r_needed'[r] = r_needed[r] \/ r_needed'[r] = r_now)
      /\ r_needed'[r] <= r_now
      /\ \A q \in Pool!RunnerSet \ {r}: r_state'[q] = r_state[q] /\ r_needed'[q] = r_needed[q]
  <2>1. r_state'[r] = d.at
    BY <1>1, <1>2 DEF PoolInv, PoolShape, d
  <2>2. d.at \in Times
    BY <1>2, <1>3, ServicesAssumption DEF PoolInv, PoolShape, Times, Pool!Never
  <2>3. r_needed'[r] = IF ~ok \/ r \in r_pass.jobs \cup r_queued \/ r_needed[r] = Pool!Never
                       THEN r_now ELSE r_needed[r]
    BY <1>1, <1>2 DEF PoolInv, PoolShape
  <2>4. r_needed'[r] \in 0..r_now /\ (r_needed'[r] = r_needed[r] \/ r_needed'[r] = r_now)
    BY <1>2, <2>3, ServicesAssumption DEF PoolInv, PoolShape, NeedsAreKnown, Pool!Never
  <2>5. \A q \in Pool!RunnerSet \ {r}: r_state'[q] = r_state[q] /\ r_needed'[q] = r_needed[q]
    BY <1>1 DEF PoolInv, PoolShape
  <2> QED BY <2>1, <2>2, <2>4, <2>5, ServicesAssumption DEF PoolInv, PoolShape
<1>6. /\ r_state' \in [Pool!RunnerSet -> Times] /\ r_needed' \in [Pool!RunnerSet -> Times]
      /\ PoolShape'
  <2>1. /\ r_state' = [q \in Pool!RunnerSet |-> r_state'[q]]
        /\ r_needed' = [q \in Pool!RunnerSet |-> r_needed'[q]]
    BY <1>1 DEF PoolInv, PoolShape
  <2>2. \A q \in Pool!RunnerSet: r_state'[q] \in Times /\ r_needed'[q] \in Times
    <3>1. r_state'[r] \in Times /\ r_needed'[r] \in Times
      BY <1>5, ServicesAssumption DEF PoolInv, PoolShape, Times
    <3>2. \A q \in Pool!RunnerSet: r_state[q] \in Times /\ r_needed[q] \in Times
      BY DEF PoolInv, PoolShape
    <3> QED BY <1>5, <3>1, <3>2
  <2>3. r_state' \in [Pool!RunnerSet -> Times] /\ r_needed' \in [Pool!RunnerSet -> Times]
    BY <2>1, <2>2
  <2> QED BY <1>1, <1>4, <2>3 DEF PoolInv, PoolShape
<1>7. ASSUME d.at = last, ok, r_pass.working = {}, r \notin r_queued, r \notin r_pass.jobs, r \notin r_excused
      PROVE  r_needed'[r] <= last
  <2>1. CASE r_state[r] = Pool!Never
    BY <1>3, <1>5, <2>1
  <2>2. CASE r_state[r] # Pool!Never
    <3>1. r_needed[r] # Pool!Never /\ r_needed[r] <= r_state[r]
      BY <1>1, <1>2, <1>7, <2>2 DEF PoolInv, NeedsAreKnown, Known
    <3>2. r_needed'[r] = r_needed[r]
      BY <1>1, <1>2, <1>7, <3>1 DEF PoolInv, PoolShape
    <3> QED BY <1>3, <2>2, <3>1, <3>2
  <2> QED BY <2>1, <2>2
<1>8. /\ r \notin r_excused' => r_needed'[r] <= d.at
      /\ \A q \in Pool!RunnerSet \ {r}: q \in r_excused' <=> q \in r_excused
  <2>1. /\ d.at \in Int /\ r_needed'[r] \in Int
        /\ r_excused' = IF d.at >= r_needed'[r] THEN r_excused \ {r}
                        ELSE IF r \in r_pass.jobs \ r_pass.working THEN r_excused \cup {r} ELSE r_excused
    <3>1. r_excused' = IF d.at >= r_needed'[r] THEN r_excused \ {r}
                       ELSE IF r \in r_pass.jobs \ r_pass.working THEN r_excused \cup {r} ELSE r_excused
      BY <1>1 DEF d
    <3> QED BY <1>5, <3>1, ServicesAssumption DEF PoolInv, PoolShape, Times
  <2>2. CASE d.at >= r_needed'[r]
    BY <2>1, <2>2
  <2>3. CASE ~(d.at >= r_needed'[r]) /\ r \in r_pass.jobs \ r_pass.working
    BY <2>1, <2>3
  <2>4. CASE ~(d.at >= r_needed'[r]) /\ r \notin r_pass.jobs \ r_pass.working
    <3>1. r_excused' = r_excused
      BY <2>1, <2>4
    <3>2. ok /\ r_pass.working = {} /\ r \notin r_queued /\ d.at = last
      BY <1>3, <1>5, <2>4
    <3> QED BY <1>7, <2>4, <3>1, <3>2
  <2> QED BY <2>2, <2>3, <2>4
<1>9. NeedsAreKnown'
  <2> SUFFICES ASSUME NEW q \in Pool!RunnerSet
               PROVE  /\ r_needed'[q] \in 0..r_now' \cup {Pool!Never}
                      /\ r_needed'[q] = Pool!Never => r_state'[q] = Pool!Never /\ r_file'[q] = Pool!Never
                      /\ q \notin r_excused' => r_needed'[q] <= Known(q)'
    BY DEF NeedsAreKnown
  <2>1. CASE q = r
    BY <1>1, <1>4, <1>5, <1>8, <2>1, ServicesAssumption DEF PoolInv, PoolShape, Known, Pool!Never
  <2>2. CASE q # r
    BY <1>1, <1>4, <1>5, <2>2 DEF PoolInv, NeedsAreKnown, Known
  <2> QED BY <2>1, <2>2
<1>10. Pool!Runner' = r
  BY <1>4 DEF Pool!Runner, r
<1>11. StopIsDue'
  <2> SUFFICES ASSUME d.action = "stop" PROVE r_pass.working = {} /\ (r \in r_excused' \/ r_now - r_needed'[r] >= Grace)
    BY <1>1, <1>4, <1>10 DEF StopIsDue
  <2>1. ok /\ r_pass.working = {} /\ r \notin r_queued /\ d.at = last /\ r_now - last >= Grace
    BY <1>3
  <2>2. last \in Int /\ r_now \in Int /\ r_needed'[r] \in Int
    BY <1>2, <1>3, <1>5, ServicesAssumption DEF PoolInv, PoolShape, Times
  <2> QED BY <1>8, <2>1, <2>2, ServicesAssumption
<1> QED BY <1>6, <1>9, <1>11 DEF PoolInv

LEMMA PoolActs == ASSUME PoolInv, Pool!Act PROVE PoolInv'
<1>1. /\ r_pass.step = "act" /\ r_pass.todo # <<>>
      /\ r_pass' = [r_pass EXCEPT !.step = "look", !.todo = Tail(r_pass.todo), !.action = "keep"]
      /\ UNCHANGED <<r_now, r_file, r_state, r_needed, r_excused>>
  BY DEF Pool!Act, PoolInv, PoolShape
<1>2. /\ r_pass' = [step |-> r_pass'.step, todo |-> r_pass'.todo, jobs |-> r_pass'.jobs,
                    working |-> r_pass'.working, action |-> r_pass'.action]
      /\ r_pass'.step = "look" /\ r_pass'.todo = Tail(r_pass.todo)
  BY <1>1 DEF PoolInv, PoolShape
<1>3. r_pass'.todo \in Seq(Pool!RunnerSet)
  BY <1>1, <1>2 DEF PoolInv, PoolShape
<1>4. PoolShape'
  BY <1>1, <1>2, <1>3 DEF PoolInv, PoolShape
<1> QED BY <1>1, <1>2, <1>4 DEF PoolInv, PoolShape, NeedsAreKnown, Known, StopIsDue

LEMMA PoolEnds == ASSUME PoolInv, Pool!Save \/ Pool!TimeOut PROVE PoolInv'
<1>1. r_pass' = Pool!Off /\ r_pass.step # "off" /\ UNCHANGED <<r_now, r_needed, r_state>>
  BY DEF Pool!Save, Pool!TimeOut
<1>2. /\ r_pass' = [step |-> r_pass'.step, todo |-> r_pass'.todo, jobs |-> r_pass'.jobs,
                    working |-> r_pass'.working, action |-> r_pass'.action]
      /\ r_pass'.step = "off" /\ r_pass'.todo = <<>>
  BY <1>1 DEF Pool!Off
<1>3. \/ r_file' = r_state /\ r_excused' = r_excused
      \/ r_file' = r_file /\ r_excused' = r_excused \cup {r \in Pool!RunnerSet: r_state[r] # r_file[r]}
  BY DEF Pool!Save, Pool!TimeOut
<1>4. PoolShape'
  BY <1>1, <1>2, <1>3 DEF PoolInv, PoolShape
<1>5. NeedsAreKnown'
  BY <1>1, <1>2, <1>3, ServicesAssumption DEF PoolInv, PoolShape, NeedsAreKnown, Known, Times
<1> QED BY <1>2, <1>4, <1>5 DEF PoolInv, StopIsDue

LEMMA NextPool == ASSUME PoolInv, [Pool!Next]_runnersVars PROVE PoolInv'
<1>1. CASE UNCHANGED runnersVars
  BY <1>1 DEF runnersVars, PoolInv, PoolShape, NeedsAreKnown, Known, StopIsDue, Pool!Runner
<1>2. CASE Pool!Queue \/ Pool!Start \/ Pool!Finish
  BY <1>2 DEF Pool!Queue, Pool!Start, Pool!Finish, PoolInv, PoolShape, NeedsAreKnown, Known, StopIsDue, Pool!Runner
<1> QED BY <1>1, <1>2, PoolBegins, PoolLooks, PoolActs, PoolEnds DEF Pool!Next

\* The one step that takes a service down.
LEMMA StopStep ==
  ASSUME PoolInv, [Pool!Next]_runnersVars, NEW r \in Pool!RunnerSet, r \in r_active, r \notin r_active'
  PROVE  r_pass.working = {} /\ (r \in r_excused \/ r_now - r_needed[r] >= Grace)
<1>1. Pool!Act
  BY DEF Pool!Next, Pool!Queue, Pool!Start, Pool!Finish, Pool!Begin, Pool!Look, Pool!Save, Pool!TimeOut, runnersVars
<1>2. r_pass.step = "act" /\ r_pass.action = "stop" /\ r = Pool!Runner
  BY <1>1 DEF Pool!Act
<1> QED BY <1>2 DEF PoolInv, StopIsDue

\* runner_pool.py: run_once stops a runner's listener only a grace period after the last need
\* a run met (a queued workflow, the runner's job when the run began, a silent GitHub), unless
\* a ps that failed hid that need or a run that timed out did not save it; and never in a run
\* to which ps showed a worker.  For any number of runners and any grace period.
THEOREM ListenersStopIdle == ServicesSpec => StopsOnlyIdle
<1>1. ServicesInit => PoolInv
  BY InitPool DEF ServicesInit
<1>2. PoolInv /\ [Pool!Next \/ UNCHANGED runnersVars]_runnersVars => PoolInv'
  BY NextPool
<1>3. PoolInv /\ [Pool!Next \/ UNCHANGED runnersVars]_runnersVars =>
        [\A r \in Pool!RunnerSet: r \in r_active /\ r \notin r_active' =>
           /\ r_pass.working = {}
           /\ r \in r_excused \/ r_now - r_needed[r] >= Grace]_runnersVars
  BY StopStep
<1> QED BY <1>1, <1>2, <1>3, PoolSteps, PTL DEF ServicesSpec, StopsOnlyIdle, Pool!StopsOnlyIdle, Pool!vars, runnersVars
------------------------------------------------------------------------------
(* The issue bridge: a dispatch is repeated only when a fault kept it from *)
(* being remembered (RepeatsOnlyAfterFault).  Outside the step between     *)
(* paste and Enter the memory is what was pasted last, and between passes  *)
(* it is what is saved, unless a pass has failed since.                    *)

BridgeShape ==
  /\ i_pass = [step |-> i_pass.step, todo |-> i_pass.todo, version |-> i_pass.version]
  /\ i_pass.todo \in Seq(Bridge!TargetSet)
  /\ i_pass.step \in {"list", "fetch", "paste", "enter"} => i_pass.todo # <<>>
  /\ i_memory = [t \in Bridge!TargetSet |-> i_memory[t]]
  /\ i_file = [t \in Bridge!TargetSet |-> i_file[t]]
  /\ i_pasted = [t \in Bridge!TargetSet |-> i_pasted[t]]

Remembered ==
  \A t \in Bridge!TargetSet:
    t \in i_excused \/ (i_pass.step = "enter" /\ t = Bridge!Target) \/ i_memory[t] = i_pasted[t]

Chosen ==
  /\ i_pass.step = "paste" => i_memory[Bridge!Target] # i_pass.version
  /\ i_pass.step = "enter" => i_pasted[Bridge!Target] = i_pass.version

SavedAtRest == i_pass = Bridge!Resting /\ ~i_dirty => i_memory = i_file

BridgeInv == BridgeShape /\ Remembered /\ Chosen /\ SavedAtRest

LEMMA BridgeSteps == ServicesSpec => [][Bridge!Next \/ UNCHANGED issuesVars]_issuesVars
<1>1. [ServicesNext]_allVars => [Bridge!Next \/ UNCHANGED issuesVars]_issuesVars
  BY DEF ServicesNext, allVars, BubblesStep, BridgeStep, PoolStep, RetriesStep, ChoicesStep,
         HealthStep, UpdaterStep, NodesStep
<1> QED BY <1>1, PTL DEF ServicesSpec

LEMMA RestingShape ==
  /\ Bridge!Resting.step = "rest" /\ Bridge!Resting.todo = <<>>
  /\ Bridge!Resting = [step |-> Bridge!Resting.step, todo |-> Bridge!Resting.todo, version |-> Bridge!Resting.version]
  BY DEF Bridge!Resting

\* What follows a target: the next one, or the save.
LEMMA NextTargetShape ==
  ASSUME BridgeShape, i_pass.step \in {"list", "fetch", "paste", "enter"}
  PROVE  LET p == Bridge!NextTarget IN
         /\ p = [step |-> p.step, todo |-> p.todo, version |-> p.version]
         /\ p.todo \in Seq(Bridge!TargetSet)
         /\ p.step = "save" \/ (p.step = "list" /\ p.todo # <<>>)
<1>1. i_pass.todo \in Seq(Bridge!TargetSet) /\ i_pass.todo # <<>>
  BY DEF BridgeShape
<1>2. CASE Len(i_pass.todo) = 1
  BY <1>2 DEF Bridge!NextTarget, Bridge!Resting
<1>3. CASE Len(i_pass.todo) # 1
  <2>1. Tail(i_pass.todo) \in Seq(Bridge!TargetSet) /\ Tail(i_pass.todo) # <<>>
    <3>1. Len(i_pass.todo) \in Nat /\ Len(i_pass.todo) # 0
      BY <1>1, EmptySeq
    <3>2. Tail(i_pass.todo) \in Seq(Bridge!TargetSet) /\ Len(Tail(i_pass.todo)) = Len(i_pass.todo) - 1
      BY <1>1, HeadTailProperties
    <3>3. Len(Tail(i_pass.todo)) # 0
      BY <1>3, <3>1, <3>2
    <3> QED BY <3>2, <3>3, EmptySeq
  <2>2. Bridge!NextTarget = [step |-> "list", todo |-> Tail(i_pass.todo), version |-> Bridge!NoIssue]
    BY <1>3 DEF Bridge!NextTarget, Bridge!Resting
  <2> QED BY <2>1, <2>2
<1> QED BY <1>2, <1>3

\* A step after which no version is chosen.
LEMMA NothingChosen ==
  ASSUME BridgeInv, UNCHANGED <<i_memory, i_pasted, i_file, i_excused>>, i_pass.step # "enter",
         i_pass' = [step |-> i_pass'.step, todo |-> i_pass'.todo, version |-> i_pass'.version],
         i_pass'.todo \in Seq(Bridge!TargetSet),
         i_pass'.step \in {"list", "fetch"} => i_pass'.todo # <<>>,
         i_pass'.step \in {"list", "fetch", "save"}
  PROVE  BridgeInv'
<1>1. i_pass' # Bridge!Resting
  BY RestingShape
<1> QED BY <1>1 DEF BridgeInv, BridgeShape, Remembered, Chosen, SavedAtRest

LEMMA BridgeChooses == ASSUME BridgeInv, Bridge!Begin \/ Bridge!List \/ Bridge!Fetch \/ Bridge!NoWindow PROVE BridgeInv'
<1> USE DEF BridgeInv
<1>1. CASE Bridge!Begin
  <2>1. /\ i_pass.step = "rest" /\ UNCHANGED <<i_memory, i_pasted, i_file, i_excused>>
        /\ i_pass' = [step |-> "list", todo |-> Targets, version |-> Bridge!NoIssue]
    BY <1>1 DEF Bridge!Begin, Bridge!Resting
  <2> QED BY <2>1, NothingChosen, ServicesAssumption
<1>2. CASE Bridge!List
  <2>1. i_pass.step = "list" /\ UNCHANGED <<i_memory, i_pasted, i_file, i_excused>>
    BY <1>2 DEF Bridge!List
  <2>2. CASE i_pass' = Bridge!NextTarget
    BY <2>1, <2>2, NextTargetShape, NothingChosen
  <2>3. CASE \E version: i_pass' = [i_pass EXCEPT !.step = "fetch", !.version = version]
    BY <2>1, <2>3, NothingChosen DEF BridgeShape
  <2> QED BY <1>2, <2>2, <2>3 DEF Bridge!List
<1>3. CASE Bridge!Fetch
  <2>1. i_pass.step = "fetch" /\ UNCHANGED <<i_memory, i_pasted, i_excused, i_file, i_dirty>>
    BY <1>3 DEF Bridge!Fetch
  <2>2. CASE i_pass' = Bridge!NextTarget
    BY <2>1, <2>2, NextTargetShape, NothingChosen
  <2>3. ASSUME NEW version, i_memory[Bridge!Target] # version,
               i_pass' = [i_pass EXCEPT !.step = "paste", !.version = version]
        PROVE  BridgeInv'
    <3>1. /\ i_pass' = [step |-> "paste", todo |-> i_pass.todo, version |-> version]
          /\ i_pass'.step = "paste" /\ i_pass'.todo = i_pass.todo /\ i_pass'.version = version
      BY <2>3 DEF BridgeShape
    <3>2. Bridge!Target' = Bridge!Target /\ i_pass' # Bridge!Resting
      BY <3>1, RestingShape DEF Bridge!Target
    <3> QED BY <2>1, <2>3, <3>1, <3>2 DEF BridgeShape, Remembered, Chosen, SavedAtRest
  <2> QED BY <1>3, <2>2, <2>3 DEF Bridge!Fetch
<1>4. CASE Bridge!NoWindow
  <2>1. i_pass.step = "paste" /\ UNCHANGED <<i_memory, i_pasted, i_file, i_excused>> /\ i_pass' = Bridge!NextTarget
    BY <1>4 DEF Bridge!NoWindow
  <2> QED BY <2>1, NextTargetShape, NothingChosen
<1> QED BY <1>1, <1>2, <1>3, <1>4

LEMMA BridgePastes == ASSUME BridgeInv, Bridge!Paste PROVE BridgeInv'
<1>1. /\ i_pass.step = "paste" /\ i_pasted' = [i_pasted EXCEPT ![Bridge!Target] = i_pass.version]
      /\ i_excused' = i_excused \ {Bridge!Target} /\ UNCHANGED <<i_memory, i_file, i_dirty>>
      /\ i_pass' = [i_pass EXCEPT !.step = "enter"]
  BY DEF Bridge!Paste
<1>2. /\ i_pass' = [step |-> "enter", todo |-> i_pass.todo, version |-> i_pass.version]
      /\ i_pass'.step = "enter" /\ i_pass'.todo = i_pass.todo /\ i_pass'.version = i_pass.version
      /\ i_pass.todo # <<>> /\ i_pass.todo \in Seq(Bridge!TargetSet)
  BY <1>1 DEF BridgeInv, BridgeShape
<1>3. Bridge!Target' = Bridge!Target /\ Bridge!Target \in Bridge!TargetSet /\ i_pass' # Bridge!Resting
  BY <1>2, RestingShape DEF Bridge!Target
<1>4. /\ i_pasted'[Bridge!Target] = i_pass.version
      /\ \A t \in Bridge!TargetSet \ {Bridge!Target}: i_pasted'[t] = i_pasted[t]
      /\ i_pasted' = [t \in Bridge!TargetSet |-> i_pasted'[t]]
  BY <1>1, <1>3 DEF BridgeInv, BridgeShape
<1> QED BY <1>1, <1>2, <1>3, <1>4 DEF BridgeInv, BridgeShape, Remembered, Chosen, SavedAtRest

LEMMA BridgeEnters == ASSUME BridgeInv, Bridge!Enter PROVE BridgeInv'
<1>1. /\ i_pass.step = "enter" /\ i_memory' = [i_memory EXCEPT ![Bridge!Target] = i_pass.version]
      /\ i_pass' = Bridge!NextTarget /\ UNCHANGED <<i_pasted, i_excused, i_file, i_dirty>>
  BY DEF Bridge!Enter
<1>2. Bridge!Target \in Bridge!TargetSet /\ i_pasted[Bridge!Target] = i_pass.version
  BY <1>1 DEF BridgeInv, BridgeShape, Chosen, Bridge!Target
<1>3. /\ i_memory'[Bridge!Target] = i_pass.version
      /\ \A t \in Bridge!TargetSet \ {Bridge!Target}: i_memory'[t] = i_memory[t]
      /\ i_memory' = [t \in Bridge!TargetSet |-> i_memory'[t]]
  BY <1>1, <1>2 DEF BridgeInv, BridgeShape
<1>4. /\ i_pass' = [step |-> i_pass'.step, todo |-> i_pass'.todo, version |-> i_pass'.version]
      /\ i_pass'.todo \in Seq(Bridge!TargetSet)
      /\ i_pass'.step = "save" \/ (i_pass'.step = "list" /\ i_pass'.todo # <<>>)
  BY <1>1, NextTargetShape DEF BridgeInv
<1>5. i_pass' # Bridge!Resting
  BY <1>4, RestingShape
<1>6. Remembered'
  BY <1>1, <1>2, <1>3 DEF BridgeInv, Remembered
<1> QED BY <1>1, <1>3, <1>4, <1>5, <1>6 DEF BridgeInv, BridgeShape, Chosen, SavedAtRest

\* What ends a pass or the process.
LEMMA BridgeRests == ASSUME BridgeInv, Bridge!Save \/ Bridge!Abort \/ Bridge!Crash \/ Bridge!Restart PROVE BridgeInv'
<1>1. /\ i_pass' = Bridge!Resting /\ UNCHANGED i_pasted /\ (i_memory' = i_memory \/ i_memory' = i_file)
      /\ (i_file' = i_file \/ i_file' = i_memory)
  BY DEF Bridge!Save, Bridge!Saved, Bridge!Abort, Bridge!Crash, Bridge!Restart
<1>2. ~i_dirty' => i_memory' = i_file'
  BY DEF Bridge!Save, Bridge!Saved, Bridge!Abort, Bridge!Crash, Bridge!Restart
<1>3. Remembered'
  <2>1. CASE Bridge!Save
    BY <2>1 DEF Bridge!Save, BridgeInv, Remembered
  <2>2. CASE Bridge!Abort
    BY <2>2 DEF Bridge!Abort, Bridge!Unrecorded, BridgeInv, Remembered
  <2>3. CASE Bridge!Crash \/ (Bridge!Restart /\ i_dirty)
    <3>1. /\ i_memory' = i_file /\ i_pass'.step = "rest" /\ UNCHANGED i_pasted
          /\ i_excused \cup Bridge!Unsaved \subseteq i_excused'
          /\ i_pass.step = "enter" => Bridge!Target \in i_excused'
      BY <2>3, RestingShape DEF Bridge!Crash, Bridge!Restart, Bridge!Unrecorded
    <3>2. \A t \in Bridge!TargetSet: t \in i_excused' \/ i_memory[t] = i_file[t]
      BY <3>1 DEF Bridge!Unsaved
    <3> QED BY <3>1, <3>2 DEF BridgeInv, Remembered
  <2>4. CASE Bridge!Restart /\ ~i_dirty
    BY <2>4, RestingShape DEF Bridge!Restart, BridgeInv, Remembered, SavedAtRest
  <2> QED BY <2>1, <2>2, <2>3, <2>4
<1>4. BridgeShape'
  BY <1>1, RestingShape DEF BridgeInv, BridgeShape
<1> QED BY <1>1, <1>2, <1>3, <1>4, RestingShape DEF BridgeInv, Chosen, SavedAtRest

LEMMA NextBridge == ASSUME BridgeInv, [Bridge!Next]_issuesVars PROVE BridgeInv'
<1>1. CASE UNCHANGED issuesVars \/ Bridge!Edit
  <2>1. UNCHANGED <<i_pass, i_memory, i_file, i_pasted, i_excused, i_dirty>>
    BY <1>1 DEF issuesVars, Bridge!Edit
  <2> QED BY <2>1 DEF BridgeInv, BridgeShape, Remembered, Chosen, SavedAtRest, Bridge!Target
<1> QED BY <1>1, BridgeChooses, BridgePastes, BridgeEnters, BridgeRests DEF Bridge!Next, Bridge!Pass

\* bridge.py: run_once pastes the version of an issue that was the last one pasted into a
\* target's window again only when a failed pass or a crash kept its dispatch from being
\* saved, for any targets and issues: neither orderly restarts nor the skip of a missing
\* window nor another target's work repeats one.
THEOREM DispatchesAreRemembered == ServicesSpec => RepeatsOnlyAfterFault
<1>1. ServicesInit => BridgeInv
  <2> SUFFICES ASSUME Bridge!Init PROVE BridgeInv
    BY DEF ServicesInit
  <2> QED BY RestingShape DEF Bridge!Init, BridgeInv, BridgeShape, Remembered, Chosen, SavedAtRest
<1>2. BridgeInv /\ [Bridge!Next \/ UNCHANGED issuesVars]_issuesVars => BridgeInv'
  BY NextBridge
<1>3. BridgeInv =>
        [\A t \in Bridge!TargetSet:
           i_pass.step = "paste" /\ i_pass'.step = "enter" /\ Bridge!Target = t /\ i_pass.version = i_pasted[t]
             => t \in i_excused]_issuesVars
  BY DEF BridgeInv, Remembered, Chosen
<1> QED BY <1>1, <1>2, <1>3, BridgeSteps, PTL DEF ServicesSpec, RepeatsOnlyAfterFault, Bridge!RepeatsOnlyAfterFault,
    Bridge!vars, issuesVars
------------------------------------------------------------------------------
(* The events of a node: the center handles them in order and once, and a  *)
(* live subscription loses none (NoGap).  What was handled, is being       *)
(* handled and is on its way makes one sequence, which a step extends by   *)
(* what is published, cuts at its end, or leaves.                          *)

\* Ascending, and nothing above the last message published.
UpTo(s, n) ==
  /\ \A i, j \in DOMAIN s: i < j => s[i] < s[j]
  /\ \A i \in DOMAIN s: s[i] <= n
Elements(s) == {s[i]: i \in DOMAIN s}

Current == IF n_event = 0 THEN <<>> ELSE <<n_event>>
Here == (n_handled \o Current) \o n_pipe
Registered == n_conn # 0 /\ n_conn \in n_alive /\ n_since # Nodes!Unregistered

NodesShape ==
  /\ n_published \in 0..MaxMessages
  /\ n_handled \in Seq(Nat) /\ n_pipe \in Seq(Nat \ {0}) /\ n_event \in Nat
  /\ n_event # 0 <=> n_center = "handle"
  /\ n_center \notin {"read", "handle"} => n_conn = 0 /\ n_since = Nodes!Unregistered

NodesInv ==
  /\ NodesShape
  /\ UpTo(Here, n_published)
  /\ Registered => n_conn \in n_subscribers /\ (n_since + 1)..n_published \subseteq Elements(Here)

LEMMA NodesSteps == ServicesSpec => [][Nodes!Next \/ UNCHANGED nodesVars]_nodesVars
<1>1. [ServicesNext]_allVars => [Nodes!Next \/ UNCHANGED nodesVars]_nodesVars
  BY DEF ServicesNext, allVars, BubblesStep, BridgeStep, PoolStep, RetriesStep, ChoicesStep,
         HealthStep, UpdaterStep, NodesStep
<1> QED BY <1>1, PTL DEF ServicesSpec

LEMMA PrefixUpTo ==
  ASSUME NEW s \in Seq(Nat), NEW p \in Seq(Nat), NEW n \in Nat, UpTo(s, n),
         Len(p) <= Len(s), \A i \in 1..Len(p): p[i] = s[i]
  PROVE  UpTo(p, n)
<1>1. /\ DOMAIN p = 1..Len(p) /\ DOMAIN s = 1..Len(s) /\ Len(p) \in Nat /\ Len(s) \in Nat
      /\ DOMAIN p \subseteq DOMAIN s
  <2>1. DOMAIN p = 1..Len(p) /\ DOMAIN s = 1..Len(s) /\ Len(p) \in Nat /\ Len(s) \in Nat
    BY LenProperties
  <2> QED BY <2>1
<1>2. \A i \in DOMAIN p: p[i] = s[i] /\ i \in DOMAIN s
  BY <1>1
<1>3. (\A i, j \in DOMAIN s: i < j => s[i] < s[j]) /\ (\A i \in DOMAIN s: s[i] <= n)
  BY DEF UpTo
<1>4. ASSUME NEW i \in DOMAIN p, NEW j \in DOMAIN p, i < j PROVE p[i] < p[j]
  BY <1>2, <1>3, <1>4
<1>5. ASSUME NEW i \in DOMAIN p PROVE p[i] <= n
  BY <1>2, <1>3
<1> QED BY <1>4, <1>5 DEF UpTo

LEMMA AppendUpTo ==
  ASSUME NEW s \in Seq(Nat), NEW n \in Nat, UpTo(s, n)
  PROVE  UpTo(Append(s, n + 1), n + 1) /\ Elements(Append(s, n + 1)) = Elements(s) \cup {n + 1}
<1> DEFINE t == Append(s, n + 1)
<1>1. /\ t \in Seq(Nat) /\ Len(t) = Len(s) + 1 /\ t[Len(s) + 1] = n + 1
      /\ \A i \in 1..Len(s): t[i] = s[i]
  BY AppendProperties
<1>2. DOMAIN t = 1..Len(s) + 1 /\ DOMAIN s = 1..Len(s) /\ Len(s) \in Nat /\ \A i \in 1..Len(s): s[i] \in Nat
  BY <1>1, LenProperties, ElementOfSeq
<1> HIDE DEF t
<1>3. UpTo(t, n + 1)
  <2>1. (\A i, j \in DOMAIN s: i < j => s[i] < s[j]) /\ (\A i \in DOMAIN s: s[i] <= n)
    BY DEF UpTo
  <2>2. ASSUME NEW i \in DOMAIN t, NEW j \in DOMAIN t, i < j PROVE t[i] < t[j]
    <3>1. i \in DOMAIN s
      BY <1>2, <2>2
    <3>2. CASE j \in DOMAIN s
      BY <1>1, <1>2, <2>1, <2>2, <3>1, <3>2
    <3>3. CASE j = Len(s) + 1
      BY <1>1, <1>2, <2>1, <3>1, <3>3
    <3> QED BY <1>2, <3>2, <3>3
  <2>3. ASSUME NEW i \in DOMAIN t PROVE t[i] <= n + 1
    <3>1. CASE i \in DOMAIN s
      BY <1>1, <1>2, <2>1, <3>1
    <3> QED BY <1>1, <1>2, <3>1
  <2> QED BY <2>2, <2>3 DEF UpTo
<1>4. Elements(t) = Elements(s) \cup {n + 1}
  <2>1. DOMAIN t = DOMAIN s \cup {Len(s) + 1} /\ \A i \in DOMAIN s: t[i] = s[i]
    BY <1>1, <1>2
  <2>2. t[Len(s) + 1] = n + 1
    BY <1>1
  <2> QED BY <2>1, <2>2, Zenon DEF Elements
<1> QED BY <1>3, <1>4 DEF t

LEMMA HereIsSeq ==
  ASSUME NodesShape
  PROVE  /\ n_pipe \in Seq(Nat) /\ Current \in Seq(Nat) /\ n_handled \in Seq(Nat)
         /\ n_handled \o Current \in Seq(Nat) /\ Here \in Seq(Nat)
<1>1. n_pipe \in Seq(Nat) /\ n_handled \in Seq(Nat)
  <2>1. Nat \ {0} \subseteq Nat
    OBVIOUS
  <2>2. n_pipe \in Seq(Nat \ {0}) /\ n_handled \in Seq(Nat)
    BY DEF NodesShape
  <2> QED BY <2>1, <2>2, SeqMonotonic
<1>2. Current \in Seq(Nat)
  BY DEF NodesShape, Current
<1>3. n_handled \o Current \in Seq(Nat)
  BY <1>1, <1>2, ConcatProperties
<1>4. Here \in Seq(Nat)
  BY <1>1, <1>3, ConcatProperties DEF Here
<1> QED BY <1>1, <1>2, <1>3, <1>4

\* The sequence is cut when the connection closes, and at the end of the pipe when it breaks.
LEMMA CutKeeps ==
  ASSUME NodesInv, NodesShape', UNCHANGED <<n_published, n_handled>>, ~Registered',
         \/ n_event' = 0 /\ n_pipe' = <<>>
         \/ UNCHANGED n_event /\ Nodes!Cut
  PROVE  NodesInv'
<1>1. /\ n_published \in Nat /\ n_pipe \in Seq(Nat) /\ n_handled \in Seq(Nat)
      /\ n_handled \o Current \in Seq(Nat) /\ Here \in Seq(Nat) /\ UpTo(Here, n_published)
  BY HereIsSeq, ServicesAssumption DEF NodesInv, NodesShape
<1>3. CASE n_event' = 0 /\ n_pipe' = <<>>
  <2>1. Here' = n_handled
    BY <1>1, <1>3, ConcatEmptySeq DEF Here, Current
  <2>2. /\ Len(n_handled \o Current) = Len(n_handled) + Len(Current)
        /\ \A i \in 1..Len(n_handled): (n_handled \o Current)[i] = n_handled[i]
        /\ Len(Here) = Len(n_handled \o Current) + Len(n_pipe)
        /\ \A i \in 1..Len(n_handled \o Current): Here[i] = (n_handled \o Current)[i]
        /\ {Len(n_handled), Len(Current), Len(n_pipe)} \subseteq Nat
    BY <1>1, HereIsSeq, ConcatProperties, LenProperties DEF Here, NodesInv
  <2>3. Len(n_handled) <= Len(Here) /\ \A i \in 1..Len(n_handled): n_handled[i] = Here[i]
    BY <2>2
  <2> QED BY <1>1, <2>1, <2>3, PrefixUpTo DEF NodesInv
<1>4. CASE UNCHANGED n_event /\ Nodes!Cut
  <2>1. PICK n \in 0..Len(n_pipe): n_pipe' = SubSeq(n_pipe, 1, n)
    BY <1>4 DEF Nodes!Cut
  <2> DEFINE h == n_handled \o Current
  <2>2. h' = h
    BY <1>4 DEF Current
  <2>3. n_pipe' \in Seq(Nat) /\ Len(n_pipe') = n /\ \A i \in 1..n: n_pipe'[i] = n_pipe[i]
    <3>1. Len(n_pipe) \in Nat /\ \A i \in 1..n: n_pipe[i] \in Nat
      BY <1>1, LenProperties, ElementOfSeq
    <3> QED BY <2>1, <3>1, SubSeqProperties
  <2>4. /\ Here = h \o n_pipe /\ Here' = h \o n_pipe' /\ h \in Seq(Nat) /\ n_pipe \in Seq(Nat)
    BY <1>1, <2>2 DEF Here
  <2> HIDE DEF h
  <2>5. /\ Len(Here) = Len(h) + Len(n_pipe) /\ Len(Here') = Len(h) + n
        /\ \A i \in 1..Len(h) + Len(n_pipe): Here[i] = IF i <= Len(h) THEN h[i] ELSE n_pipe[i - Len(h)]
        /\ \A i \in 1..Len(h) + n: Here'[i] = IF i <= Len(h) THEN h[i] ELSE n_pipe'[i - Len(h)]
        /\ {Len(h), Len(n_pipe)} \subseteq Nat
    <3> DEFINE q == n_pipe'
    <3>1. q \in Seq(Nat) /\ Len(q) = n /\ Here' = h \o q
      BY <2>3, <2>4
    <3> HIDE DEF q
    <3>2. /\ Len(h \o q) = Len(h) + n
          /\ \A i \in 1..Len(h) + n: (h \o q)[i] = IF i <= Len(h) THEN h[i] ELSE q[i - Len(h)]
      BY <2>4, <3>1, ConcatProperties
    <3>3. /\ Len(h \o n_pipe) = Len(h) + Len(n_pipe)
          /\ \A i \in 1..Len(h) + Len(n_pipe): (h \o n_pipe)[i] = IF i <= Len(h) THEN h[i] ELSE n_pipe[i - Len(h)]
      BY <2>4, ConcatProperties
    <3>4. Len(h) \in Nat /\ Len(n_pipe) \in Nat
      BY <2>4, LenProperties
    <3> QED BY <2>4, <3>1, <3>2, <3>3, <3>4 DEF q
  <2>6. Here' \in Seq(Nat)
    BY <1>1, <2>3, <2>4, ConcatProperties DEF h
  <2>7. Len(Here') <= Len(Here) /\ \A i \in 1..Len(Here'): Here'[i] = Here[i]
    <3>1. n \in Nat /\ n <= Len(n_pipe)
      BY <2>1, <2>5
    <3>2. ASSUME NEW i \in 1..Len(h) + n PROVE Here'[i] = Here[i]
      <4>1. CASE i <= Len(h)
        BY <2>5, <3>1, <4>1
      <4>2. CASE i > Len(h)
        <5>1. i - Len(h) \in 1..n
          BY <2>5, <3>1, <4>2
        <5>2. Here'[i] = n_pipe'[i - Len(h)] /\ Here[i] = n_pipe[i - Len(h)]
          BY <2>5, <3>1, <4>2
        <5> QED BY <2>3, <5>1, <5>2
      <4> QED BY <2>5, <3>1, <4>1, <4>2
    <3> QED BY <2>5, <3>1, <3>2
  <2> QED BY <1>1, <2>6, <2>7, PrefixUpTo DEF NodesInv
<1> QED BY <1>3, <1>4

\* A line that is read, and a callback that completes, leave the sequence as it is.
LEMMA MoveKeeps ==
  ASSUME NodesInv, Nodes!Read \/ Nodes!Handled
  PROVE  NodesInv'
<1>1. /\ n_pipe \in Seq(Nat) /\ n_pipe \in Seq(Nat \ {0}) /\ n_handled \in Seq(Nat) /\ Current \in Seq(Nat)
      /\ NodesShape
  BY HereIsSeq DEF NodesInv, NodesShape
<1>2. UNCHANGED <<n_published, n_subscribers, n_conn, n_alive, n_since>>
  BY DEF Nodes!Read, Nodes!Handled
<1>3. NodesShape' /\ Here' = Here
  <2>1. CASE Nodes!Read
    <3>1. /\ n_center = "read" /\ n_pipe # <<>> /\ n_center' = "handle" /\ n_handled' = n_handled
          /\ n_event' = Head(n_pipe) /\ n_pipe' = Tail(n_pipe) /\ n_event = 0
      BY <1>1, <2>1 DEF Nodes!Read, NodesShape
    <3>2. n_event' \in Nat \ {0} /\ n_pipe' \in Seq(Nat \ {0}) /\ n_pipe' \in Seq(Nat)
      BY <1>1, <3>1, HeadTailProperties
    <3>3. NodesShape'
      BY <1>1, <1>2, <3>1, <3>2 DEF NodesShape, Nodes!Unregistered
    <3>4. n_pipe = <<n_event'>> \o n_pipe'
      BY <1>1, <3>1, <3>2
    <3>5. Here = n_handled \o n_pipe /\ Here' = (n_handled \o <<n_event'>>) \o n_pipe'
      BY <1>1, <3>1, <3>2, ConcatEmptySeq DEF Here, Current
    <3>6. (n_handled \o <<n_event'>>) \o n_pipe' = n_handled \o (<<n_event'>> \o n_pipe')
      <4>1. <<n_event'>> \in Seq(Nat) /\ n_handled \in Seq(Nat) /\ n_pipe' \in Seq(Nat)
        BY <1>1, <3>2
      <4> QED BY <4>1, ConcatAssociative
    <3> QED BY <3>3, <3>4, <3>5, <3>6
  <2>2. CASE Nodes!Handled
    <3>1. /\ n_center = "handle" /\ n_center' = "read" /\ n_pipe' = n_pipe
          /\ n_handled' = Append(n_handled, n_event) /\ n_event' = 0 /\ n_event # 0 /\ n_event \in Nat
      BY <1>1, <2>2 DEF Nodes!Handled, NodesShape
    <3>2. n_handled' \in Seq(Nat) /\ n_handled' = n_handled \o <<n_event>>
      BY <1>1, <3>1, AppendProperties, AppendIsConcat
    <3>3. NodesShape'
      BY <1>1, <1>2, <3>1, <3>2 DEF NodesShape, Nodes!Unregistered
    <3>4. Here = n_handled' \o n_pipe /\ Here' = (n_handled' \o <<>>) \o n_pipe
      BY <3>1, <3>2 DEF Here, Current
    <3> QED BY <3>2, <3>3, <3>4, ConcatEmptySeq
  <2> QED BY <2>1, <2>2
<1> QED BY <1>2, <1>3 DEF NodesInv, Registered, Nodes!Unregistered

LEMMA PublishKeeps == ASSUME NodesInv, Nodes!Publish PROVE NodesInv'
<1>1. /\ n_published < MaxMessages /\ n_published' = n_published + 1 /\ n_published \in Nat
      /\ n_subscribers' = n_subscribers \cap n_alive
      /\ n_pipe' = IF n_conn # 0 /\ n_conn \in n_subscribers \cap n_alive
                   THEN Append(n_pipe, n_published + 1) ELSE n_pipe
      /\ UNCHANGED <<n_center, n_conn, n_alive, n_since, n_event, n_handled>>
  BY ServicesAssumption DEF Nodes!Publish, Nodes!Written, NodesInv, NodesShape
<1>2. /\ n_pipe \in Seq(Nat) /\ n_pipe \in Seq(Nat \ {0}) /\ n_handled \o Current \in Seq(Nat)
      /\ Here \in Seq(Nat) /\ UpTo(Here, n_published)
  BY HereIsSeq DEF NodesInv, NodesShape
<1>3. n_pipe' \in Seq(Nat \ {0})
  <2>1. n_published + 1 \in Nat \ {0}
    BY <1>1
  <2>2. Append(n_pipe, n_published + 1) \in Seq(Nat \ {0})
    BY <1>2, <2>1, AppendProperties
  <2> QED BY <1>1, <1>2, <2>2
<1>4. NodesShape'
  BY <1>1, <1>3, ServicesAssumption DEF NodesInv, NodesShape, Nodes!Unregistered
<1>5. CASE n_pipe' = n_pipe /\ ~Registered
  <2>1. Here' = Here /\ ~Registered'
    BY <1>1, <1>5 DEF Here, Current, Registered, Nodes!Unregistered
  <2>2. UpTo(Here, n_published + 1)
    <3>1. \A i \in DOMAIN Here: Here[i] \in Nat
      BY <1>2, LenProperties, ElementOfSeq
    <3> QED BY <1>1, <1>2, <3>1 DEF UpTo
  <2> QED BY <1>1, <1>4, <2>1, <2>2 DEF NodesInv
<1>6. CASE n_conn # 0 /\ n_conn \in n_subscribers \cap n_alive
  <2> DEFINE k == n_published + 1
             h == n_handled \o Current
  <2>1. Here = h \o n_pipe /\ Here' = h \o Append(n_pipe, k)
    BY <1>1, <1>6 DEF Here, Current
  <2> HIDE DEF h
  <2>2. <<k>> \in Seq(Nat) /\ k \in Nat /\ h \in Seq(Nat) /\ n_pipe \in Seq(Nat)
    BY <1>1, <1>2 DEF h
  <2>3. Append(n_pipe, k) = n_pipe \o <<k>> /\ Append(Here, k) = Here \o <<k>>
    BY <1>2, <2>2, AppendIsConcat
  <2>4. (h \o n_pipe) \o <<k>> = h \o (n_pipe \o <<k>>)
    <3> HIDE DEF k
    <3> QED BY <2>2, ConcatAssociative
  <2>5. Here' = Append(Here, k)
    BY <2>1, <2>3, <2>4
  <2>6. UpTo(Here', k) /\ Elements(Here') = Elements(Here) \cup {k}
    BY <1>1, <1>2, <2>5, AppendUpTo
  <2>7. ASSUME Registered' PROVE n_conn' \in n_subscribers' /\ (n_since' + 1)..n_published' \subseteq Elements(Here')
    <3>1. Registered
      BY <1>1, <2>7 DEF Registered, Nodes!Unregistered
    <3>2. (n_since + 1)..n_published \subseteq Elements(Here)
      BY <3>1 DEF NodesInv
    <3>3. (n_since + 1)..(n_published + 1) \subseteq (n_since + 1)..n_published \cup {n_published + 1}
      BY <1>1
    <3> QED BY <1>1, <1>6, <2>6, <3>2, <3>3
  <2> QED BY <1>1, <1>4, <2>6, <2>7 DEF NodesInv
<1>7. Registered => n_conn # 0 /\ n_conn \in n_subscribers \cap n_alive
  BY DEF NodesInv, Registered
<1> QED BY <1>1, <1>5, <1>6, <1>7

\* A step that leaves the sequence and registers nothing that was not.
LEMMA NodesStands ==
  ASSUME NodesInv, NodesShape', UNCHANGED <<n_published, n_handled, n_pipe, n_event>>,
         Registered' => /\ n_conn' \in n_subscribers'
                        /\ n_since' = n_published \/ (Registered /\ UNCHANGED n_since)
  PROVE  NodesInv'
<1>1. Here' = Here
  BY DEF Here, Current
<1>2. n_published \in Int
  BY ServicesAssumption DEF NodesInv, NodesShape
<1> QED BY <1>1, <1>2 DEF NodesInv

LEMMA NextNodes == ASSUME NodesInv, [Nodes!Next]_nodesVars PROVE NodesInv'
<1> USE DEF NodesInv, NodesShape, Nodes!Unregistered
<1>1. CASE UNCHANGED nodesVars \/ Nodes!Unsubscribe \/ Nodes!NodeStarts
  <2>1. UNCHANGED <<n_published, n_center, n_conn, n_alive, n_pipe, n_since, n_event, n_handled>>
    BY <1>1 DEF nodesVars, Nodes!Unsubscribe, Nodes!NodeStarts
  <2>2. n_conn \in n_subscribers \cap n_alive => n_conn \in n_subscribers'
    BY <1>1 DEF nodesVars, Nodes!Unsubscribe, Nodes!NodeStarts
  <2> QED BY <2>1, <2>2, NodesStands DEF Registered
<1>2. CASE Nodes!Start \/ Nodes!ConnectRefused \/ Nodes!Retry \/ Nodes!Connect
  <2>1. /\ UNCHANGED <<n_published, n_pipe, n_since, n_event, n_handled>> /\ n_since = MaxMessages + 1
        /\ n_center' # "handle" /\ n_event = 0 /\ (n_center' = "read" \/ (UNCHANGED n_conn /\ n_conn = 0))
    BY <1>2 DEF Nodes!Start, Nodes!ConnectRefused, Nodes!Retry, Nodes!Connect, Nodes!AfterLoss
  <2> QED BY <2>1, NodesStands DEF Registered
<1>3. CASE Nodes!Subscribe
  <2>1. /\ UNCHANGED <<n_published, n_center, n_conn, n_alive, n_pipe, n_event, n_handled>>
        /\ n_conn # 0 /\ n_conn \in n_subscribers' /\ n_since' = n_published
    BY <1>3 DEF Nodes!Subscribe
  <2> QED BY <2>1, NodesStands DEF Registered
<1>4. CASE Nodes!Stop \/ Nodes!CallbackRaises \/ Nodes!Lost
  <2>1. /\ UNCHANGED <<n_published, n_handled>> /\ n_center' \in {"stopped", "delay"}
        /\ n_conn' = 0 /\ n_pipe' = <<>> /\ n_since' = MaxMessages + 1 /\ n_event' = 0
    BY <1>4 DEF Nodes!Stop, Nodes!CallbackRaises, Nodes!Lost, Nodes!Closed, Nodes!AfterLoss
  <2>2. NodesShape' /\ ~Registered'
    BY <2>1 DEF Registered
  <2> QED BY <2>1, <2>2, CutKeeps
<1>5. CASE Nodes!Break \/ Nodes!NodeStops
  <2>1. /\ UNCHANGED <<n_published, n_center, n_conn, n_since, n_event, n_handled>>
        /\ n_conn \notin n_alive' /\ Nodes!Cut
    BY <1>5 DEF Nodes!Break, Nodes!NodeStops
  <2>2. n_pipe' \in Seq(Nat \ {0})
    <3>1. PICK n \in 0..Len(n_pipe): n_pipe' = SubSeq(n_pipe, 1, n)
      BY <2>1 DEF Nodes!Cut
    <3>2. Len(n_pipe) \in Nat /\ \A i \in 1..n: n_pipe[i] \in Nat \ {0}
      BY LenProperties, ElementOfSeq
    <3> QED BY <3>1, <3>2, SubSeqProperties
  <2>3. NodesShape' /\ ~Registered'
    BY <2>1, <2>2 DEF Registered
  <2> QED BY <2>1, <2>3, CutKeeps
<1> QED BY <1>1, <1>2, <1>3, <1>4, <1>5, MoveKeeps, PublishKeeps DEF Nodes!Next, Nodes!Center, Nodes!Node

\* backend.py and agent_node.py: whatever the network and the processes do, the center's
\* callbacks see the node's messages in the order they were published and each at most once,
\* and a registered connection that is alive loses none of those published since, for any
\* number of messages and connections.
THEOREM SubscriptionsHaveNoGap == ServicesSpec => []NoGap
<1>1. ServicesInit => NodesInv
  <2> SUFFICES ASSUME Nodes!Init PROVE NodesInv
    BY DEF ServicesInit
  <2>1. NodesShape
    BY ServicesAssumption DEF Nodes!Init, NodesShape
  <2>2. Here = <<>>
    BY DEF Nodes!Init, Here, Current
  <2>3. UpTo(Here, n_published) /\ ~Registered
    BY <2>2 DEF Nodes!Init, UpTo, Registered
  <2> QED BY <2>1, <2>3 DEF NodesInv
<1>2. NodesInv /\ [Nodes!Next \/ UNCHANGED nodesVars]_nodesVars => NodesInv'
  BY NextNodes
<1>3. NodesInv => NoGap
  BY DEF NodesInv, NoGap, Nodes!NoGap, UpTo, Elements, Here, Current, Registered
<1> QED BY <1>1, <1>2, <1>3, NodesSteps, PTL DEF ServicesSpec
------------------------------------------------------------------------------
(* The status bubble: what the chat shows is tracked, being sent, or was   *)
(* given up (NoStray).  A handler may drop the tracking at any moment, so  *)
(* the worker's request is about the tracked bubble or about none.         *)

\* A send is made when no bubble is tracked; an edit or a delete is about
\* the tracked one as long as there is one.
Aimed ==
  /\ b_worker.at \in {"send", "sent"} => b_info = Bubbles!NoInfo
  /\ b_worker.at \in {"delete", "edit"} => b_info = Bubbles!NoInfo \/ b_info.id = b_worker.msg
WorkerShape ==
  b_worker = [at |-> b_worker.at, type |-> b_worker.type, win |-> b_worker.win,
              text |-> b_worker.text, then |-> b_worker.then, msg |-> b_worker.msg]
ChatShape == IsFiniteSet(b_shown) /\ 0 \notin b_shown

BubblesInv == WorkerShape /\ ChatShape /\ Aimed /\ NoStray

LEMMA BubblesSteps == ServicesSpec => [][Bubbles!Next \/ UNCHANGED bubblesVars]_bubblesVars
<1>1. [ServicesNext]_allVars => [Bubbles!Next \/ UNCHANGED bubblesVars]_bubblesVars
  BY DEF ServicesNext, allVars, BubblesStep, BridgeStep, PoolStep, RetriesStep, ChoicesStep,
         HealthStep, UpdaterStep, NodesStep
<1> QED BY <1>1, PTL DEF ServicesSpec

LEMMA IdleWorker ==
  /\ Bubbles!Idle.at = "idle" /\ Bubbles!NoInfo.id = 0
  /\ Bubbles!Idle = [at |-> Bubbles!Idle.at, type |-> Bubbles!Idle.type, win |-> Bubbles!Idle.win,
                     text |-> Bubbles!Idle.text, then |-> Bubbles!Idle.then, msg |-> Bubbles!Idle.msg]
  BY DEF Bubbles!Idle, Bubbles!NoInfo

LEMMA GotoWorker ==
  ASSUME WorkerShape, NEW at, NEW next, NEW msg, Bubbles!Goto(at, next, msg)
  PROVE  WorkerShape' /\ b_worker'.at = at /\ b_worker'.msg = msg
  BY DEF WorkerShape, Bubbles!Goto

LEMMA StopWorker == ASSUME Bubbles!Stop PROVE WorkerShape' /\ b_worker'.at = "idle"
  BY IdleWorker DEF Bubbles!Stop, WorkerShape

\* Where the worker goes, given the tracking that is left.
Aims == WorkerShape' /\ Aimed' /\ b_worker'.at # "sent"

LEMMA ToSendAims == ASSUME WorkerShape, Bubbles!ToSend(b_info') PROVE Aims
<1>1. CASE Bubbles!Stop
  BY <1>1, StopWorker DEF Aims, Aimed
<1>2. CASE b_info' = Bubbles!NoInfo /\ Bubbles!Goto("send", "", 0)
  <2>1. WorkerShape' /\ b_worker'.at = "send"
    BY <1>2, GotoWorker
  <2> QED BY <1>2, <2>1 DEF Aims, Aimed
<1>3. CASE Bubbles!Goto("delete", "send", b_info'.id)
  BY <1>3, GotoWorker DEF Aims, Aimed
<1> QED BY <1>1, <1>2, <1>3 DEF Bubbles!ToSend

LEMMA AfterDeleteAims == ASSUME WorkerShape, Bubbles!AfterDelete(b_info') PROVE Aims
<1>1. CASE Bubbles!Stop
  BY <1>1, StopWorker DEF Aims, Aimed
<1>2. CASE b_info' = Bubbles!NoInfo /\ Bubbles!Goto("send", "", 0)
  <2>1. WorkerShape' /\ b_worker'.at = "send"
    BY <1>2, GotoWorker
  <2> QED BY <1>2, <2>1 DEF Aims, Aimed
<1>3. CASE Bubbles!Goto("post", "", 0)
  <2>1. WorkerShape' /\ b_worker'.at = "post"
    BY <1>3, GotoWorker
  <2> QED BY <2>1 DEF Aims, Aimed
<1>4. CASE Bubbles!Goto("check", "", 0)
  <2>1. WorkerShape' /\ b_worker'.at = "check"
    BY <1>4, GotoWorker
  <2> QED BY <2>1 DEF Aims, Aimed
<1> QED BY <1>1, <1>2, <1>3, <1>4, ToSendAims DEF Bubbles!AfterDelete

\* A step of the worker that sends, deletes and drops nothing.
LEMMA AimsKeeps ==
  ASSUME BubblesInv, UNCHANGED <<b_shown, b_info, b_excused>>, Aims, b_worker.at # "sent"
  PROVE  BubblesInv'
  BY DEF BubblesInv, ChatShape, Aims, NoStray, Bubbles!NoStray

LEMMA StartAims == ASSUME BubblesInv, Bubbles!StartTask PROVE BubblesInv'
<1>1. UNCHANGED <<b_shown, b_info, b_excused>> /\ b_worker.at = "start" /\ WorkerShape
  BY DEF Bubbles!StartTask, BubblesInv
<1>2. CASE Bubbles!Stop
  BY <1>1, <1>2, StopWorker, AimsKeeps DEF Aims, Aimed
<1>3. CASE Bubbles!ToSend(b_info)
  BY <1>1, <1>3, ToSendAims, AimsKeeps
<1>4. ASSUME NEW at \in {"delete", "edit"}, NEW next, Bubbles!Goto(at, next, b_info.id) PROVE BubblesInv'
  <2>1. WorkerShape' /\ b_worker'.at = at /\ b_worker'.msg = b_info.id
    BY <1>1, <1>4, GotoWorker
  <2> QED BY <1>1, <2>1, AimsKeeps DEF Aims, Aimed
<1>5. CASE Bubbles!Goto("post", "", 0)
  <2>1. WorkerShape' /\ b_worker'.at = "post"
    BY <1>1, <1>5, GotoWorker
  <2> QED BY <1>1, <2>1, AimsKeeps DEF Aims, Aimed
<1> QED BY <1>2, <1>3, <1>4, <1>5 DEF Bubbles!StartTask

LEMMA DeleteKeeps ==
  ASSUME BubblesInv, Bubbles!DeleteDone \/ Bubbles!DeleteFails \/ Bubbles!DeleteRefused
  PROVE  BubblesInv'
<1>1. /\ b_worker.at = "delete" /\ (b_info = Bubbles!NoInfo \/ b_info.id = b_worker.msg) /\ WorkerShape
      /\ ChatShape /\ \A b \in b_shown \ b_excused: b = b_info.id
  BY DEF Bubbles!DeleteDone, Bubbles!DeleteFails, Bubbles!DeleteRefused, BubblesInv, Aimed, NoStray, Bubbles!NoStray
<1>2. Aims
  BY <1>1, AfterDeleteAims DEF Bubbles!DeleteDone, Bubbles!DeleteFails, Bubbles!DeleteRefused, Bubbles!TrackedAfterFailure
<1>3. b_shown' \in {b_shown, b_shown \ {b_worker.msg}}
  BY DEF Bubbles!DeleteDone, Bubbles!DeleteFails, Bubbles!DeleteRefused
<1>4. ChatShape'
  BY <1>1, <1>3, FS_RemoveElement DEF ChatShape
<1>5. \A b \in b_shown \ b_excused: b = b_worker.msg \/ (b_info # Bubbles!NoInfo /\ b = b_info.id)
  BY <1>1, IdleWorker DEF ChatShape
<1>6. \A b \in b_shown' \ b_excused': b = b_info'.id
  <2>1. CASE Bubbles!DeleteFails
    BY <1>1, <1>3, <2>1 DEF Bubbles!DeleteFails, Bubbles!TrackedAfterFailure
  <2>2. CASE Bubbles!DeleteDone \/ Bubbles!DeleteRefused
    BY <1>1, <1>5, <2>2 DEF Bubbles!DeleteDone, Bubbles!DeleteRefused
  <2> QED BY <2>1, <2>2
<1> QED BY <1>2, <1>4, <1>6 DEF BubblesInv, Aims, NoStray, Bubbles!NoStray

LEMMA EditKeeps == ASSUME BubblesInv, Bubbles!EditDone \/ Bubbles!EditFails PROVE BubblesInv'
<1>1. /\ b_worker.at = "edit" /\ (b_info = Bubbles!NoInfo \/ b_info.id = b_worker.msg) /\ WorkerShape
      /\ ChatShape /\ \A b \in b_shown \ b_excused: b = b_info.id
  BY DEF Bubbles!EditDone, Bubbles!EditFails, BubblesInv, Aimed, NoStray, Bubbles!NoStray
<1>2. \A b \in b_shown \ b_excused: b = b_worker.msg
  BY <1>1, IdleWorker DEF ChatShape
<1>3. CASE Bubbles!EditFails
  <2>1. CASE Bubbles!Goto("delete", "content", b_worker.msg)
    <3>1. WorkerShape' /\ b_worker'.at = "delete" /\ b_worker'.msg = b_worker.msg
      BY <1>1, <2>1, GotoWorker
    <3> QED BY <1>1, <1>3, <3>1, AimsKeeps DEF Bubbles!EditFails, Aims, Aimed
  <2>2. CASE Bubbles!ToSend(b_info)
    BY <1>1, <1>3, <2>2, ToSendAims, AimsKeeps DEF Bubbles!EditFails
  <2> QED BY <1>3, <2>1, <2>2 DEF Bubbles!EditFails
<1>4. CASE Bubbles!EditDone /\ b_worker.then = "content"
  <2>1. /\ b_excused' = b_excused \ {b_worker.msg} /\ b_shown' = b_shown \ {b_worker.msg}
        /\ Bubbles!Goto("after", "", 0)
    BY <1>4 DEF Bubbles!EditDone
  <2>2. WorkerShape' /\ b_worker'.at = "after"
    BY <1>1, <2>1, GotoWorker
  <2>3. ChatShape' /\ b_shown' \ b_excused' = {}
    BY <1>1, <1>2, <2>1, FS_RemoveElement DEF ChatShape
  <2> QED BY <2>2, <2>3 DEF BubblesInv, Aimed, NoStray, Bubbles!NoStray
<1>5. CASE Bubbles!EditDone /\ b_worker.then # "content"
  <2>1. /\ b_excused' = b_excused \ {b_worker.msg} /\ UNCHANGED b_shown /\ Bubbles!Stop
        /\ b_info'.id = b_worker.msg
    BY <1>5 DEF Bubbles!EditDone
  <2>2. \A b \in b_shown' \ b_excused': b = b_info'.id
    BY <1>2, <2>1
  <2> QED BY <1>1, <2>1, <2>2, StopWorker DEF BubblesInv, ChatShape, Aimed, NoStray, Bubbles!NoStray
<1> QED BY <1>3, <1>4, <1>5

\* Some number is not the id of a bubble that is shown.
LEMMA NewIdExists == ASSUME ChatShape PROVE Bubbles!NewId \in Nat \ {0}
<1> DEFINE Ids == 1..Cardinality(b_shown) + 1
<1>1. Cardinality(b_shown) \in Nat
  BY FS_CardinalityType DEF ChatShape
<1>2. Cardinality(Ids) = Cardinality(b_shown) + 1
  BY <1>1, FS_Interval
<1>3. Bubbles!NewId = CHOOSE i \in Ids: i \notin b_shown
  <2>1. Bubbles!Cardinality(b_shown) = Cardinality(b_shown)
    BY DEF Bubbles!Cardinality, Cardinality
  <2> QED BY <2>1 DEF Bubbles!NewId
<1>4. Ids \subseteq Nat \ {0}
  OBVIOUS
<1> HIDE DEF Ids
<1>5. ~(Ids \subseteq b_shown)
  <2>1. Ids \subseteq b_shown => Cardinality(Ids) <= Cardinality(b_shown)
    BY FS_Subset DEF ChatShape
  <2> QED BY <1>1, <1>2, <2>1
<1>6. Bubbles!NewId \in Ids
  BY <1>3, <1>5
<1> QED BY <1>4, <1>6

LEMMA SendKeeps ==
  ASSUME BubblesInv, Bubbles!Lands \/ Bubbles!SendDone \/ Bubbles!SendUncertain
  PROVE  BubblesInv'
<1>1. /\ b_worker.at \in {"send", "sent"} /\ b_info = Bubbles!NoInfo /\ WorkerShape /\ ChatShape
      /\ \A b \in b_shown \ b_excused: b_worker.at = "sent" /\ b = b_worker.msg
  BY IdleWorker DEF Bubbles!Lands, Bubbles!SendDone, Bubbles!SendUncertain, BubblesInv, ChatShape, Aimed, NoStray, Bubbles!NoStray
<1>2. CASE Bubbles!Lands
  <2>1. /\ b_worker.at = "send" /\ b_shown' = b_shown \cup {Bubbles!NewId} /\ UNCHANGED <<b_info, b_excused>>
        /\ Bubbles!Goto("sent", "", Bubbles!NewId)
    BY <1>2 DEF Bubbles!Lands
  <2>2. WorkerShape' /\ b_worker'.at = "sent" /\ b_worker'.msg = Bubbles!NewId
    BY <1>1, <2>1, GotoWorker
  <2>3. ChatShape'
    BY <1>1, <2>1, NewIdExists, FS_AddElement DEF ChatShape
  <2> QED BY <1>1, <2>1, <2>2, <2>3 DEF BubblesInv, Aimed, NoStray, Bubbles!NoStray
<1>3. CASE Bubbles!SendDone
  <2>1. Bubbles!Stop /\ b_info'.id = b_worker.msg /\ UNCHANGED <<b_shown, b_excused>>
    BY <1>3 DEF Bubbles!SendDone
  <2> QED BY <1>1, <2>1, StopWorker DEF BubblesInv, ChatShape, Aimed, NoStray, Bubbles!NoStray
<1>4. CASE Bubbles!SendUncertain
  <2>1. /\ Bubbles!Stop /\ UNCHANGED <<b_shown, b_info>>
        /\ b_excused' = IF b_worker.at = "sent" THEN b_excused \cup {b_worker.msg} ELSE b_excused
    BY <1>4 DEF Bubbles!SendUncertain
  <2> QED BY <1>1, <2>1, StopWorker DEF BubblesInv, ChatShape, Aimed, NoStray, Bubbles!NoStray
<1> QED BY <1>2, <1>3, <1>4

\* The other steps of the worker: none of them is waiting for an answer about a bubble.
LEMMA WorkerKeeps ==
  ASSUME BubblesInv,
         Bubbles!Take \/ Bubbles!Post \/ Bubbles!PostFails \/ Bubbles!AfterContent \/ Bubbles!Check \/ Bubbles!Flooded
  PROVE  BubblesInv'
<1>1. /\ UNCHANGED <<b_shown, b_info, b_excused>> /\ b_worker.at # "sent" /\ WorkerShape
      /\ (b_worker = Bubbles!Idle => b_worker.at = "idle")
  BY IdleWorker DEF Bubbles!Take, Bubbles!Post, Bubbles!PostFails, Bubbles!AfterContent, Bubbles!Check, Bubbles!Flooded, BubblesInv
<1>2. CASE Bubbles!Stop
  BY <1>1, <1>2, StopWorker, AimsKeeps DEF Aims, Aimed
<1>3. CASE \E at \in {"after", "check"}: Bubbles!Goto(at, "", 0)
  <2>1. PICK at \in {"after", "check"}: Bubbles!Goto(at, "", 0)
    BY <1>3
  <2>2. WorkerShape' /\ b_worker'.at = at
    BY <1>1, <2>1, GotoWorker
  <2> QED BY <1>1, <2>2, AimsKeeps DEF Aims, Aimed
<1>4. ASSUME NEW next, Bubbles!Goto("delete", next, b_info.id) PROVE BubblesInv'
  <2>1. WorkerShape' /\ b_worker'.at = "delete" /\ b_worker'.msg = b_info.id
    BY <1>1, <1>4, GotoWorker
  <2> QED BY <1>1, <2>1, AimsKeeps DEF Aims, Aimed
<1>5. ASSUME NEW text, b_worker' = [b_worker EXCEPT !.at = IF b_info = Bubbles!NoInfo THEN "send" ELSE "delete",
                                     !.then = "send", !.text = text, !.msg = b_info.id]
      PROVE  BubblesInv'
  <2>1. WorkerShape' /\ b_worker'.at = (IF b_info = Bubbles!NoInfo THEN "send" ELSE "delete") /\ b_worker'.msg = b_info.id
    BY <1>1, <1>5 DEF WorkerShape
  <2> QED BY <1>1, <2>1, AimsKeeps DEF Aims, Aimed
<1>6. CASE Bubbles!Take
  <2>1. b_worker' = Bubbles!Idle \/ \E t, w, x: b_worker' = [Bubbles!Idle EXCEPT !.at = "start", !.type = t, !.win = w, !.text = x]
    BY <1>6 DEF Bubbles!Take
  <2>2. WorkerShape' /\ b_worker'.at \in {"idle", "start"}
    <3>1. CASE b_worker' = Bubbles!Idle
      BY <3>1 DEF WorkerShape, Bubbles!Idle
    <3>2. ASSUME NEW t, NEW w, NEW x,
                 b_worker' = [Bubbles!Idle EXCEPT !.at = "start", !.type = t, !.win = w, !.text = x]
          PROVE  WorkerShape' /\ b_worker'.at = "start"
      BY <3>2 DEF WorkerShape, Bubbles!Idle
    <3> QED BY <2>1, <3>1, <3>2
  <2> QED BY <1>1, <2>2, AimsKeeps DEF Aims, Aimed
<1>7. CASE Bubbles!Post \/ Bubbles!PostFails \/ Bubbles!Flooded
  BY <1>2, <1>3, <1>7 DEF Bubbles!Post, Bubbles!PostFails, Bubbles!Flooded
<1>8. CASE Bubbles!AfterContent
  BY <1>3, <1>4, <1>8 DEF Bubbles!AfterContent
<1>9. CASE Bubbles!Check
  BY <1>2, <1>4, <1>5, <1>9 DEF Bubbles!Check
<1> QED BY <1>6, <1>7, <1>8, <1>9

\* What happens beside the worker.
LEMMA HandlersKeep ==
  ASSUME BubblesInv, UNCHANGED <<b_worker, b_shown>>,
         \/ UNCHANGED <<b_info, b_excused>>
         \/ b_excused' = Bubbles!Untracked /\ b_info' = Bubbles!NoInfo
  PROVE  BubblesInv'
<1>1. CASE UNCHANGED <<b_info, b_excused>>
  BY <1>1 DEF BubblesInv, WorkerShape, ChatShape, Aimed, NoStray, Bubbles!NoStray
<1>2. CASE b_excused' = Bubbles!Untracked /\ b_info' = Bubbles!NoInfo
  BY <1>2 DEF BubblesInv, WorkerShape, ChatShape, Aimed, NoStray, Bubbles!NoStray, Bubbles!Untracked
<1> QED BY <1>1, <1>2

LEMMA CrashedBubbles == ASSUME BubblesInv, Bubbles!Crash PROVE BubblesInv'
<1>1. /\ Bubbles!Stop /\ UNCHANGED <<b_shown, b_info>>
      /\ b_excused' = IF b_worker.at = "sent" THEN b_excused \cup {b_worker.msg} ELSE b_excused
  BY DEF Bubbles!Crash
<1> QED BY <1>1, StopWorker DEF BubblesInv, ChatShape, Aimed, NoStray, Bubbles!NoStray

LEMMA NextBubbles == ASSUME BubblesInv, [Bubbles!Next]_bubblesVars PROVE BubblesInv'
<1>1. CASE UNCHANGED bubblesVars \/ Bubbles!Poll \/ Bubbles!Handlers \/ Bubbles!TimerDue \/ Bubbles!FloodEnds
  BY <1>1, HandlersKeep DEF bubblesVars, Bubbles!Poll, Bubbles!Capture, Bubbles!Report, Bubbles!Handlers,
    Bubbles!Bind, Bubbles!Typed, Bubbles!StartRun, Bubbles!AgentWrites, Bubbles!AgentDone, Bubbles!Unbind,
    Bubbles!TimerDue, Bubbles!FloodEnds
<1> QED BY <1>1, StartAims, DeleteKeeps, EditKeeps, SendKeeps, WorkerKeeps, CrashedBubbles
  DEF Bubbles!Next, Bubbles!Worker, Bubbles!Faults

\* message_queue.py: every bubble in a topic's chat is the tracked one, or its send is being
\* answered, or the bot gave it up, for any number of routes, runs and texts, whatever
\* handlers, failing requests, floods and crashes come between the worker's requests.
THEOREM BubblesAreTracked == ServicesSpec => []NoStray
<1>1. ServicesInit => BubblesInv
  <2> SUFFICES ASSUME Bubbles!Init PROVE BubblesInv
    BY DEF ServicesInit
  <2> QED BY IdleWorker, FS_EmptySet DEF Bubbles!Init, BubblesInv, WorkerShape, ChatShape, Aimed, NoStray, Bubbles!NoStray
<1>2. BubblesInv /\ [Bubbles!Next \/ UNCHANGED bubblesVars]_bubblesVars => BubblesInv'
  BY NextBubbles
<1>3. BubblesInv => NoStray
  BY DEF BubblesInv
<1> QED BY <1>1, <1>2, <1>3, BubblesSteps, PTL DEF ServicesSpec
==============================================================================
