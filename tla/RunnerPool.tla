------------------------------ MODULE RunnerPool ------------------------------
(***************************************************************************)
(* The supervisor of the GitHub Actions runners (runner_pool.py): a timer  *)
(* starts it, it looks at every runner once, starts those with queued work *)
(* and stops those that nobody has needed for a grace period.  When a      *)
(* runner was needed last is kept in a file between the runs.              *)
(***************************************************************************)
EXTENDS Naturals, Sequences, FiniteSets

CONSTANTS
  Runners,    \* the runner roots of the command line, a sequence
  Grace,      \* idle_timeout_seconds in passes of the timer
  MaxTime,    \* bound on the clock
  MaxFaults   \* bound on commands that fail or time out

VARIABLES
  now,
  queued,     \* runners whose repository has queued workflow runs
  job,        \* runners that execute a job
  active,     \* runners whose service is up
  file,       \* last_needed_at_epoch, Never for a service that has none
  pass,       \* the step of the run, what it has read, and the jobs there were when it began
  state,      \* the run's copy of the file
  needed,     \* when a run last met a need of the runner, or first saw it
  excused,    \* runners whose need a failing ps hid or a run that timed out did not save
  faults

vars == <<now, queued, job, active, file, pass, state, needed, excused, faults>>

RunnerSet == {Runners[i]: i \in DOMAIN Runners}
Never == MaxTime + 1
Off == [step |-> "off", todo |-> <<>>, jobs |-> {}, working |-> {}, action |-> "keep"]
Runner == Head(pass.todo)
Fail == faults < MaxFaults /\ faults' = faults + 1

Init ==
  /\ now = 0 /\ queued = {} /\ job = {} /\ active \in SUBSET RunnerSet
  /\ file = [r \in RunnerSet |-> Never] /\ state = file /\ needed = file
  /\ pass = Off /\ excused = {} /\ faults = 0

------------------------------------------------------------------------------
\* GitHub and the runners, at any time.
Queue == \E r \in RunnerSet \ queued:
  queued' = queued \cup {r} /\ UNCHANGED <<now, job, active, file, pass, state, needed, excused, faults>>
Start == \E r \in (queued \cap active) \ job:
  /\ queued' = queued \ {r} /\ job' = job \cup {r}
  /\ UNCHANGED <<now, active, file, pass, state, needed, excused, faults>>
Finish == \E r \in job:
  job' = job \ {r} /\ UNCHANGED <<now, queued, active, file, pass, state, needed, excused, faults>>

------------------------------------------------------------------------------
\* The timer starts a run: it reads the file and, once for all runners, the
\* process list, which a failing ps leaves empty.
Begin ==
  /\ pass = Off /\ now < MaxTime /\ now' = now + 1
  /\ state' = file
  /\ \E listed \in {job, {}}:
       /\ pass' = [Off EXCEPT !.step = "look", !.todo = Runners, !.jobs = job, !.working = listed]
       /\ IF listed = job THEN UNCHANGED faults ELSE Fail
  /\ UNCHANGED <<queued, job, active, file, needed, excused>>

\* runner_worker_active: any worker keeps every runner, because its command
\* line need not say whose it is.
WorkerActive == pass.working # {}

\* A service without an entry is taken as needed now.
\* Fault: it is taken as never needed.
LastNeededOrNever(r) == IF state[r] = Never THEN 0 ELSE state[r]
LastNeeded(r) == IF state[r] = Never THEN now ELSE state[r]

\* decide_runner_action: what to do and when the runner was needed last.
Decision(r, ok) ==
  LET up == r \in active
      kept(action, at) == [action |-> action, at |-> at]
  IN  IF ~ok \/ WorkerActive \/ r \in queued THEN kept(IF up THEN "keep" ELSE "start", now)
      ELSE IF up /\ now - LastNeeded(r) >= Grace THEN kept("stop", LastNeeded(r))
      ELSE kept("keep", LastNeeded(r))

\* A failing ps hid the job the runner had when the run began.
Hidden == Runner \in pass.jobs \ pass.working

\* One runner is looked at; GitHub may not answer, which counts as a need.
\* The need is there whether or not ps showed it; a need that ps hid is
\* excused until the saved time has caught up with it.
Look ==
  /\ pass.step = "look" /\ pass.todo # <<>>
  /\ \E ok \in BOOLEAN:
       LET d == Decision(Runner, ok) IN
       /\ IF ok THEN UNCHANGED faults ELSE Fail
       /\ pass' = [pass EXCEPT !.step = "act", !.action = d.action]
       /\ state' = [state EXCEPT ![Runner] = d.at]
       /\ needed' = [needed EXCEPT ![Runner] =
            IF ~ok \/ Runner \in pass.jobs \cup queued \/ @ = Never THEN now ELSE @]
       /\ excused' = IF d.at >= needed'[Runner] THEN excused \ {Runner}
                     ELSE IF Hidden THEN excused \cup {Runner} ELSE excused
  /\ UNCHANGED <<now, queued, job, active, file>>

\* systemctl; when it fails the runner stays as it is.
Act ==
  /\ pass.step = "act"
  /\ pass' = [pass EXCEPT !.step = "look", !.todo = Tail(pass.todo), !.action = "keep"]
  /\ \/ active' = (CASE pass.action = "start" -> active \cup {Runner}
                     [] pass.action = "stop" -> active \ {Runner}
                     [] OTHER -> active) /\ UNCHANGED faults
     \/ pass.action # "keep" /\ Fail /\ UNCHANGED active
  /\ job' = IF pass.action = "stop" THEN job \cap active' ELSE job
  /\ UNCHANGED <<now, queued, file, state, needed, excused>>

Save ==
  /\ pass.step = "look" /\ pass.todo = <<>>
  /\ file' = state /\ pass' = Off
  /\ UNCHANGED <<now, queued, job, active, state, needed, excused, faults>>

\* A command that runs into its timeout ends the run before it saves.
TimeOut ==
  /\ pass.step # "off" /\ Fail
  /\ pass' = Off /\ excused' = excused \cup {r \in RunnerSet: state[r] # file[r]}
  /\ UNCHANGED <<now, queued, job, active, file, state, needed>>

Next == Queue \/ Start \/ Finish \/ Begin \/ Look \/ Act \/ Save \/ TimeOut
Spec == Init /\ [][Next]_vars

------------------------------------------------------------------------------
\* A listener is stopped only a grace period after the last need that a run met:
\* a queued workflow, its job when the run began, or a silent GitHub.  Only a
\* need that a failing ps hid, or that a run which timed out did not save, may be
\* forgotten.  And no listener is stopped by a run to which ps showed a worker.
\* A job that starts after ps was asked is no need of that run.
StopsOnlyIdle ==
  [][\A r \in RunnerSet: r \in active /\ r \notin active' =>
       /\ pass.working = {}
       /\ r \in excused \/ now - needed[r] >= Grace]_vars

\* What the comment in runner_worker_active promises: a listener stays online
\* rather than have the job stopped that it executed when the run began.
JobsAreKept ==
  [][\A r \in RunnerSet: r \in active /\ r \notin active' => r \notin pass.jobs \cap job]_vars
=============================================================================
