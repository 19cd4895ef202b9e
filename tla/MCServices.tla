----------------------------- MODULE MCServices ------------------------------
(***************************************************************************)
(* The parts of the system that share no state with one another, checked   *)
(* in one run: a behaviour picks one of them and leaves the others at      *)
(* their initial states, so that the states to check are the sum and not   *)
(* the product of theirs.                                                  *)
(***************************************************************************)
EXTENDS InputChoices, AgentRetries, Integers, Sequences

CONSTANTS
  BubbleTexts, Working, MaxRoutes, MaxRuns, MaxContents, BubbleFaults,   \* StatusBubbles
  Targets, OpenIssues, MaxStamp, BridgeFaults,                           \* IssueBridge
  Runners, Grace, MaxTime, RunnerFaults,                                 \* RunnerPool
  HealthIssues, Cooldown, Stable, HealthFaults,                          \* HealthAlerts
  Interval, Deadline, MaxPushes, UpdateFaults,                           \* SelfUpdate
  MaxMessages, NodeFaults                                                \* NodeEvents

VARIABLE service   \* the part the behaviour exercises

VARIABLES
  b_route, b_routes, b_busy, b_timer, b_queue, b_worker, b_poll, b_shown,
  b_info, b_uncertain, b_flood, b_excused, b_used
bubblesVars == <<
  b_route, b_routes, b_busy, b_timer, b_queue, b_worker, b_poll, b_shown,
  b_info, b_uncertain, b_flood, b_excused, b_used>>
Bubbles == INSTANCE StatusBubbles WITH
  Texts <- BubbleTexts, Think <- Working, MaxFaults <- BubbleFaults,
  route <- b_route, routes <- b_routes, busy <- b_busy, timer <- b_timer,
  queue <- b_queue, worker <- b_worker, poll <- b_poll, shown <- b_shown, info
  <- b_info, uncertain <- b_uncertain, flood <- b_flood, excused <- b_excused,
  used <- b_used

VARIABLES
  i_open, i_stamp, i_pass, i_memory, i_file, i_pasted, i_excused, i_dirty,
  i_faults
issuesVars == <<
  i_open, i_stamp, i_pass, i_memory, i_file, i_pasted, i_excused, i_dirty,
  i_faults>>
Bridge == INSTANCE IssueBridge WITH
  Issues <- OpenIssues, MaxFaults <- BridgeFaults,
  open <- i_open, stamp <- i_stamp, pass <- i_pass, memory <- i_memory, file
  <- i_file, pasted <- i_pasted, excused <- i_excused, dirty <- i_dirty,
  faults <- i_faults

VARIABLES
  r_now, r_queued, r_job, r_active, r_file, r_pass, r_state, r_needed,
  r_excused, r_faults
runnersVars == <<
  r_now, r_queued, r_job, r_active, r_file, r_pass, r_state, r_needed,
  r_excused, r_faults>>
Pool == INSTANCE RunnerPool WITH
  MaxFaults <- RunnerFaults,
  now <- r_now, queued <- r_queued, job <- r_job, active <- r_active, file <-
  r_file, pass <- r_pass, state <- r_state, needed <- r_needed, excused <-
  r_excused, faults <- r_faults

VARIABLES
  h_present, h_sampled, h_event, h_active, h_cooling, h_candidate, h_told,
  h_unrecorded, h_clear, h_faults
healthVars == <<
  h_present, h_sampled, h_event, h_active, h_cooling, h_candidate, h_told,
  h_unrecorded, h_clear, h_faults>>
Health == INSTANCE HealthAlerts WITH
  Issues <- HealthIssues, MaxFaults <- HealthFaults,
  present <- h_present, sampled <- h_sampled, event <- h_event, active <-
  h_active, cooling <- h_cooling, candidate <- h_candidate, told <- h_told,
  unrecorded <- h_unrecorded, clear <- h_clear, faults <- h_faults

VARIABLES
  u_remote, u_disk, u_running, u_unstarted, u_dirty, u_busy, u_checked,
  u_deferred, u_delay, u_pc, u_sawIdle, u_cli, u_faults
updateVars == <<
  u_remote, u_disk, u_running, u_unstarted, u_dirty, u_busy, u_checked,
  u_deferred, u_delay, u_pc, u_sawIdle, u_cli, u_faults>>
Updater == INSTANCE SelfUpdate WITH
  MaxFaults <- UpdateFaults,
  remote <- u_remote, disk <- u_disk, running <- u_running, unstarted <-
  u_unstarted, dirty <- u_dirty, busy <- u_busy, checked <- u_checked,
  deferred <- u_deferred, delay <- u_delay, pc <- u_pc, sawIdle <- u_sawIdle,
  cli <- u_cli, faults <- u_faults

VARIABLES
  n_published, n_node, n_subscribers, n_center, n_conn, n_alive, n_pipe,
  n_since, n_event, n_handled, n_faults
nodesVars == <<
  n_published, n_node, n_subscribers, n_center, n_conn, n_alive, n_pipe,
  n_since, n_event, n_handled, n_faults>>
Nodes == INSTANCE NodeEvents WITH
  MaxFaults <- NodeFaults,
  published <- n_published, node <- n_node, subscribers <- n_subscribers,
  center <- n_center, conn <- n_conn, alive <- n_alive, pipe <- n_pipe, since
  <- n_since, event <- n_event, handled <- n_handled, faults <- n_faults

ASSUME ServicesAssumption ==
  /\ Targets \in Seq(Bridge!TargetSet) \ {<<>>} /\ Runners \in Seq(Pool!RunnerSet)
  /\ {Stable, MaxTime, Grace, MaxMessages} \subseteq Nat

\* The instance's values of constants that are sequences.
TwoTargets == <<"a", "b">>
TwoRunners == <<"r1", "r2">>

allVars == <<service, bubblesVars, issuesVars, runnersVars, vars, choicesVars, healthVars, updateVars,
  nodesVars>>
Services == {"bubbles", "issues", "runners", "retries", "choices", "health", "update", "nodes"}

ServicesInit ==
  /\ service \in Services
  /\ Bubbles!Init /\ Bridge!Init /\ Pool!Init /\ Init /\ ChoicesInit /\ Health!Init /\ Updater!Init /\ Nodes!Init
  \* one initial state for the parts that are not exercised
  /\ service = "runners" \/ r_active = {}
  /\ service = "retries" \/ bound = CHOOSE w \in Windows: TRUE
  /\ service = "choices" \/ boundTo = CHOOSE w \in ChoiceWindows: TRUE

BubblesStep ==
  /\ service = "bubbles" /\ Bubbles!Next
  /\ UNCHANGED <<service, issuesVars, runnersVars, vars, choicesVars, healthVars, updateVars, nodesVars>>
BridgeStep ==
  /\ service = "issues" /\ Bridge!Next
  /\ UNCHANGED <<service, bubblesVars, runnersVars, vars, choicesVars, healthVars, updateVars, nodesVars>>
PoolStep ==
  /\ service = "runners" /\ Pool!Next
  /\ UNCHANGED <<service, bubblesVars, issuesVars, vars, choicesVars, healthVars, updateVars, nodesVars>>
RetriesStep ==
  /\ service = "retries" /\ Next
  /\ UNCHANGED <<service, bubblesVars, issuesVars, runnersVars, choicesVars, healthVars, updateVars, nodesVars>>
ChoicesStep ==
  /\ service = "choices" /\ ChoicesNext
  /\ UNCHANGED <<service, bubblesVars, issuesVars, runnersVars, vars, healthVars, updateVars, nodesVars>>
HealthStep ==
  /\ service = "health" /\ Health!Next
  /\ UNCHANGED <<service, bubblesVars, issuesVars, runnersVars, vars, choicesVars, updateVars, nodesVars>>
UpdaterStep ==
  /\ service = "update" /\ Updater!Next
  /\ UNCHANGED <<service, bubblesVars, issuesVars, runnersVars, vars, choicesVars, healthVars, nodesVars>>
NodesStep ==
  /\ service = "nodes" /\ Nodes!Next
  /\ UNCHANGED <<service, bubblesVars, issuesVars, runnersVars, vars, choicesVars, healthVars, updateVars>>
ServicesNext ==
  BubblesStep \/ BridgeStep \/ PoolStep \/ RetriesStep \/ ChoicesStep \/ HealthStep \/ UpdaterStep \/ NodesStep
\* The fairness of the three parts that promise something; it binds only the
\* behaviours that exercise them.
ServicesSpec ==
  /\ ServicesInit /\ [][ServicesNext]_allVars
  /\ WF_bubblesVars(service = "bubbles" /\ Bubbles!Poll)
  /\ WF_bubblesVars(service = "bubbles" /\ Bubbles!Worker)
  /\ WF_bubblesVars(service = "bubbles" /\ Bubbles!TimerDue)
  /\ WF_bubblesVars(service = "bubbles" /\ Bubbles!FloodEnds)
  /\ WF_updateVars(service = "update" /\ Updater!Update)
  /\ WF_updateVars(service = "update" /\ Updater!Tick)
  /\ WF_updateVars(service = "update" /\ Updater!CleanUp)
  /\ WF_nodesVars(service = "nodes" /\ Nodes!Start)
  /\ WF_nodesVars(service = "nodes" /\ Nodes!Center)
  /\ WF_nodesVars(service = "nodes" /\ Nodes!Subscribe)
  /\ WF_nodesVars(service = "nodes" /\ Nodes!NodeStarts)

------------------------------------------------------------------------------
\* Every bubble in a topic's chat is tracked, being sent, or was given up.
NoStray == Bubbles!NoStray
\* A topic whose agent stays idle stops showing that it works.
BubbleEnds == Bubbles!BubbleEnds
\* A dispatch is repeated only when a fault kept the first from being saved.
RepeatsOnlyAfterFault == Bridge!RepeatsOnlyAfterFault
\* A runner's listener is stopped only a grace period after the last need a run met.
StopsOnlyIdle == Pool!StopsOnlyIdle
\* A runner's listener is not stopped with a job it had when the run began (violated
\* when ps fails: RunnerStopped in the README).
JobsAreKept == Pool!JobsAreKept
\* A recovery is announced after an alert and a stable clear period only.
RecoveryIsTrue == Health!RecoveryIsTrue
\* A published revision ends up running.
EventuallyRuns == Updater!EventuallyRuns
\* A live subscription loses and repeats no message.
NoGap == Nodes!NoGap
\* The center is subscribed again after every loss it notices.
Resubscribes == service = "nodes" => Nodes!Resubscribes
==============================================================================
