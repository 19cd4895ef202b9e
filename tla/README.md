# TelegramAgentBot: models, checks and proofs

TelegramAgentBot drives coding agents (Codex, Claude) that run in tmux windows from the
topics of a Telegram forum. One Python process runs one asyncio loop; prompts, bindings and
claims are kept in SQLite and JSON files so that they survive a restart. This directory holds
TLA+ models of the parts of the program where tasks, restarts and timeouts meet, the TLC
instances that check them, and TLAPS proofs of what must hold for any number of topics,
windows and messages.

Paths in this file are relative to `src/src/telegram_agent_bot/` unless they begin with
`docs/` or `plugins/`.

## 1. The system

| Component | State it keeps | Operations | Talks to | Module |
|---|---|---|---|---|
| Telegram ingress (`update_processor.py`) | lock per topic with a user count; table `telegram_updates` | process an update, claim, complete or abandon its id | every handler | `UpdateProcessor` |
| Agent input queue (`bot.py` 2340-3930, `durable_state.py`) | table `agent_input_queue`; a deque per user, topic and window; drain tasks, confirmation tasks, topic locks | enqueue, send directly, send natively, drain, confirm, retire, discard, restore, stop | turn admission, backends, registry | `AgentInputQueue`, `PromptDelivery` |
| Turn admission (`turn_admission.py`) | `reserved`, `occupied`, `pending` windows | `try_acquire`, `mark_submitted`, `release`, `observe`, `forget`, `set_pending` | called by queue and poller | `TurnAdmission` |
| Status polling, hibernation (`handlers/status_polling.py`, `idle_sessions.py`) | when each window was last seen idle | capture panes, report, kill idle windows | turn admission, tmux, outgoing queue | `AgentTurns`, `StatusBubbles` |
| Input choices (`bot.py`, `handlers/input_routing.py`) | table `pending_input_choices` | offer, press steer / queue / interrupt / cancel, expire | agent input queue | `InputChoices` |
| Transient retries (`bot.py`, `durable_state.py`) | table `transient_agent_retries`, timer tasks | schedule, mark, send, complete, reset, restore | agent input queue, monitor | `AgentRetries` |
| Session monitor (`session_monitor.py`, `monitor_state.py`) | offset per transcript, offset per recipient, backoff | read lines, dispatch a group, commit, retry | outgoing queue, registry | `TranscriptDelivery` |
| Outgoing queue (`handlers/message_queue.py`, `message_sender.py`) | queue and worker per topic, flood deadlines, quarantine, ids of status messages | enqueue, merge, send, edit, delete, requeue, drain | Telegram | `TranscriptDelivery`, `StatusBubbles` |
| Registry (`session.py`, `hook.py`, `durable_state.py`) | states of windows, bindings, targets; table `conversation_routes`; `session_map.json` | bind, unbind, launch, register, load the map, resolve stale ids | everybody | `ConversationRegistry` |
| Pickers (`bot.py`, `handlers/directory_browser.py`) | `context.user_data` of the user, shared by the topics | hold a first message, choose folder, agent, session, window; create | registry, queue | `TopicPickers` |
| Self update (`updater.py`) | state file with last check and deferral; the checkout | wait for an idle host, check, pull, sync, restart | git, process | `SelfUpdate` |
| Host health (`vps_health.py`) | table of alert states; the recovery candidate | sample, decide, announce, record | Telegram | `HealthAlerts` |
| Issue bridge (`bridge.py`) | last fingerprint per target, saved to a file | list, fetch, paste, press Enter, save | GitHub, tmux | `IssueBridge` |
| Runner pool (`runner_pool.py`) | `last_needed_at_epoch` per service, in a file | look, start, stop, save | GitHub, systemd | `RunnerPool` |
| Socket plugin (`plugins/socket_backend/`) | the node's set of subscribers; the center's connection | subscribe, publish, read, reconnect | monitor of the node | `NodeEvents` |
| Account manager, backends, tmux, terminal parser, formatting, interactive prompts, maintenance, configuration | section 6 | | | none |

How a prompt travels: the ingress serializes the updates of a topic and lets topics run in
parallel. The first message of an unbound topic waits in `user_data` for the pickers to give the
topic a window. Otherwise the handler holds the topic's lock, and appends the prompt to the
topic's queue or, when nothing of that topic waits, sends it itself. A drain task per topic sends
what is queued when the agent's pane is idle and a turn slot is free. Before the text goes to tmux
the row is marked `submitted` by a compare-and-set; after that the row is only ever deleted, never
sent again: by the transcript's confirmation, or after a deadline with a notice.

How an answer travels: the monitor reads the new lines of the transcript and hands their entries,
one by one, to `handle_new_message`, which queues each for every topic whose window runs the session
and waits for the topic's worker. When all have it, the session's offset moves. A failed group is
read again after a backoff, and the recipients' own offsets keep those that had it from getting it
again.

What is hard about it:

- *Every await is a point where state changes.* Tasks read the pane, a deque, `user_data`, the
  session map, wait, and go on with what they read.
- *Two stores of the same fact.* A waiting prompt is in a deque and in the spool; a delivered line
  is in the session's offset and in the recipient's; a topic's window is in a binding, a target and a
  durable route; a status message is in the chat and in `_status_msg_info`.
- *Tasks that start tasks.* Ending a drain must start the next one; cancelling one must not.
- *Restart at any point*, with rows in any state, and tmux numbering its windows from the start again.
- *Requests without an answer.* A send may time out and arrive; it may be refused for good.
- *The pane is late.* Who works is known from pictures taken earlier.

What makes each component correct:

- Ingress: updates of a topic one at a time and in order; what was handled is skipped, and only that,
  unless the store fails when the bot starts.
- Queue: a prompt reaches an agent at most once and in order; whatever blocks a topic is retired;
  spool and deques agree.
- Turn admission and polling: dispatches stay within the limit, no slot leaks, a working agent is
  never chosen for hibernation.
- Choices and retries: what was chosen or retried is sent once; an announced retry has a timer.
- Monitor and outgoing queue: no output is skipped, order is kept, repeats need a fault, everything
  arrives, and no bubble stays in the chat untracked or for ever.
- Registry: the records of a topic agree, and a topic that was given a session stays recoverable.
- Pickers: a first message is sent once, to its own topic; only its own button binds a topic.
- Updater: what is published ends up running. Health: a recovery is announced only when it is one.
  Bridge: nothing is dispatched twice without a fault. Pool: a runner is stopped only when no
  run has met a need of it for the grace period.
  Socket: a live subscription loses nothing and a lost one is renewed.

## 2. The modules

A step of a task is what the code does from one await to the next, and a `pc` (`at`, `step`) names the
await the task is at. Definitions whose comment begins with `Fault:` are used by no specification:
each is a plausible slip in the definition that follows it (a dropped guard, a forgotten reset), kept
to show that the property it belongs to notices. Bounds are constants named `Max...` and appear in
guards; `Events` names the disturbances an instance allows. An event that an instance leaves out is a
smaller environment, never a different program.

### The queue: `AgentInputQueue`, `PromptDelivery`, `TurnAdmission`, `AgentTurns`

`TurnAdmission` holds the controller's operations as operators on a record
`[reserved, observed, pending]`. It has no variables: the program has one controller, and its
methods are called inside the steps of others.

| Variable of `AgentInputQueue` | In the code |
|---|---|
| `rows`, `nextId` | table `agent_input_queue` and its AUTOINCREMENT key; `state = "gone"` is a deleted row |
| `binding` | `session_manager.get_window_for_thread` |
| `queues` | `_agent_input_queues`; an empty deque and a missing key are the same |
| `drain[r]` | the task of `_agent_input_drain_tasks`: the await it is at, its window, the prompt it sends. `live` says that its deque is the one in the dictionary; otherwise `own` is what that deque holds |
| `sender[r]` | the coroutine that holds `_agent_input_lock` of the topic: a handler or a discard |
| `confirm[p]` | the task of `_agent_input_confirmation_tasks` |
| `adm` | `turn_admission` |
| `phase` | up; stopping (drains are cancelled, the process not yet gone); down |
| `sends` | history: how often the text of a prompt went to tmux |

A drain is at `top` (the head of its loop), `capture`, `lost` or `refused` (a failure notice),
`baseline` or `nbaseline` (the transcript's baseline, for a turn and for native input), `send` or
`nsend`, `refresh` (working status, session map, confirmation) or `tail` (the notice of a delayed
confirmation). A handler's places have the same names. A topic's key (user, thread) is called a route.

`PromptDelivery` is the abstract specification: prompts are accepted, submitted and forgotten.
`AgentInputQueue!DeliversPrompts` is its `Spec` under `status[p] = rows[p].state`, with `sends` as
it is. `AgentTurns` extends the queue with the agents (`alive`, `working`), the hibernator's timers and
the poller; `QueueStep` is a step of the queue whose choices agree with what the panes show.

### The ingress: `UpdateProcessor`

One task per update takes a permit of python-telegram-bot's semaphore, finds or makes its topic's
lock in the registry, waits for it, claims its id, runs its handler, records or releases the claim, and
drops the lock when it is the last user. A lock is named after the update whose task created it, so two
locks of one topic can be told apart, which is the point. Confirming updates by fetching the next, the
fair semaphore and `asyncio.Lock` serving waiters in order are modelled from how the code uses them
and marked external.

| Variable | In the code |
|---|---|
| `task`, `ref`, `owns` | a `do_process_update` call: where it is, its `topic_lock`, whether `claimed_update_id` is set |
| `locks`, `users` | `_topic_locks`, `_topic_users` |
| `holder`, `waiters` | the state of each `asyncio.Lock` |
| `table` | `telegram_updates` |
| `acked`, `fetched` | what Telegram will not deliver again, and what this process got |
| `handled` | history: updates whose handler came to its end |
| `stuck` | history: the claims that the last start could not release |

### What feeds the queue: `InputChoices`, `AgentRetries`, `TopicPickers`

`InputChoices` models one topic's pending choices. `choices` is the table, from a message to the
window it was meant for; `handler` is the callback being handled, with the message it claimed. `Press`
claims the row by deleting it, and only then the code looks whether the window is still the topic's
(`Check`) and sends (`Route`); a failed or crashed handler never puts a row back. Interrupt and queue
differ from steer in what else they send; the model keeps the modes where the handler treats them
differently.

`AgentRetries` models one topic's `transient_agent_retries`: `row` is the table, `attempts` and `task`
are the dictionaries of the process, `turn` what the agent does. The row is marked `waiting` before the
prompt is sent (`Marked`), a restart restores scheduled rows with their attempt (`Restore`), a changed
window moves them (`Retargeted`), and the user's input or a completed answer ends the series (`Reset`).

`TopicPickers` models all topics of one user. `data` is `context.user_data`, the one dictionary they
share; `shown[t]` are the buttons a topic has been shown, which can be pressed again at any time, also
when `user_data` belongs to another topic; `handler[t]` is the topic's update that waits for a listing,
for tmux or for the hook, and what its local variables hold. `CreationTopic` is the topic a creation
binds, read before its first await; `Popped` is the held message leaving `user_data`.

### The answers: `TranscriptDelivery`, `StatusBubbles`

| Variable of `TranscriptDelivery` | In the code |
|---|---|
| `written`, `tracked` | lines of the transcript; `last_byte_offset` of the session |
| `mon` | the monitor: the group it dispatches, the message, the recipients still to do, where it waits and what it heard |
| `uoff` | `user_window_offsets` |
| `queue`, `worker` | `_message_queues`, `_queue_workers`; a task carries its entries, its future and its route generation |
| `flood`, `refused`, `blocked`, `backoff` | `_flood_until`, `_permanent_delivery_failures`, `_permanent_delivery_blocks`, `_dispatch_retry_after` |
| `route`, `stopping` | window and route generation of the topic; the shutdown has begun |
| `shown` | history: what Telegram displayed, in order |

A byte offset is the number of lines before it. `Poll` reads a group; `NextMessage`, `Pass`,
`AwaitQueue`, `Offer`, `Ask`, `Answered`, `MessageDone` and `Settle` are the monitor between its awaits;
`DispatchTimeout` cancels it and leaves its tasks in the queues. A worker is at `flood`, `send`, `after`
(displayed, the task not yet done) or `warn` (the notice of a quarantine). A send may succeed, fail,
fail although it was displayed, hit flood control, or be refused for good.

`StatusBubbles` follows one topic's status message through the same worker: `shown` are the bubbles in
the chat, `info` is what the bot believes, `uncertain` a window whose last send had no answer. Coalescing
of status tasks, conversion of a bubble into content, deletes and edits with their failures, the local
working timer and the poller's report of an earlier capture are steps of their own.

### The registry: `ConversationRegistry`

| Variable | In the code |
|---|---|
| `tmux`, `nextId` | the server's windows with directory and session; its next id, which starts again after a reboot of the host |
| `map` | `session_map.json`, written by the SessionStart hook |
| `mem` | `SessionManager`: states of windows, bindings, explicit targets |
| `routes` | table `conversation_routes` with its generation |
| `load` | a `load_session_map` between its awaits, with the file it has read |
| `flow` | the handler of each topic: creating, recovering, rotating, closing, ... |
| `owner` | history: the session a topic was given and has not given up |

`LoadMap`, `MapRead`, `MapLoaded` are one pass of the monitor; `Create` ... `Discard` and `Rebound` are the
handlers at their awaits; `Restart` loads what was saved and resolves stale ids (`Resolved`); `AutoBind`
is the monitor's guess of which topic a new session belongs to.

### The services: `SelfUpdate`, `HealthAlerts`, `IssueBridge`, `RunnerPool`, `NodeEvents`

`SelfUpdate` separates the revision upstream (`remote`), in the checkout (`disk`) and in the process
(`running`), and counts time in ticks of the busy retry: `checked` and `deferred` are the saved times,
`delay` what is left of the sleep. `HealthAlerts` has the table (`active`, `cooling`), the unsaved
recovery candidate, and a history of what was announced and of how many samples in a row found nothing.
`IssueBridge` has the pass over the targets, the fingerprints in memory and in the file, and a history of what was
pasted. `RunnerPool` has one run of the timer (`pass`) with what `ps` showed it (`working`) and the jobs
there really were when it began (`jobs`), the file, and a history of when a run last met a need of each
runner (`needed`) and of the needs that a failing `ps` hid or a lost save forgot (`excused`). `NodeEvents` has both ends of the subscription, the connections that are
still alive, and the lines on their way.

### Composition and proofs

`MCAgentInputQueue`, `MCAgentTurns`, `MCUpdateProcessor`, `MCTranscript`, `MCRegistry` and `MCPickers`
give TLC its topics, windows and transcripts. `MCTopics` puts the registry and the pickers into one run,
and `MCServices` the eight modules that share no state: a behaviour picks one of them and leaves the
others alone, so the states are the sum and not the product. `MCTopics` extends both its parts, whose
names therefore differ (`PickersSpec`, `PickersNext`); `MCServices` extends `InputChoices` and
`AgentRetries` and takes the other six by INSTANCE, with variables and constants of its own for each
(`b_`, `i_`, `r_`, `h_`, `u_` and `n_` variables). `ServicesAssumption` says what the six need of theirs.
The `*_proofs` modules hold the theorems; `Services_proofs` extends `MCServices`, so that its theorems are
about the definitions the run checks.

### Abstractions

- A prompt is its row id, a message its number. Expiry takes any prefix of a deque, since the ages of
  the prompts are nondecreasing in it.
- What a pane shows is chosen by the environment in `AgentInputQueue`, and follows the agents in
  `AgentTurns`. There the panes read by a drain or a handler are current at the step that acts on
  them; the poller's captures can be old (`slow_capture`): that is where the code acts on a picture
  across an await. An agent works from the moment its window took the prompt.
- The order of a dictionary (which other queue of a topic is drained next) is any order.
- Awaits that change nothing another task can see are merged with their neighbours. A cancelled
  drain's successor runs to its first await before the task that cancelled it goes on, as asyncio's
  FIFO of ready tasks has it.
- `TranscriptDelivery` keeps of a message what `handle_new_message` does with it: queue it, only move
  the offset, ignore it, send a usage-limit notice, or show a question. Truncated transcripts are left out.
- `ConversationRegistry`: names, flags of the command line and read offsets are left out; identifying a
  new session is either answered by the hook or times out; a load reads the file and the panes at
  two awaits.
- `TopicPickers`: the local backend only; a folder, a model or an effort is a press; windows do not die.
- In the services, time passes in samples, ticks or passes of a timer.

## 3. The runs

| Run | Instance | What it shows |
|---|---|---|
| QueueRaces | 1 topic, 2 windows, 3 prompts, queue limit 2, 1 slot; native, discard, rebind, expiry, send errors, failing store | `SubmittedIsWatched`: a submitted row always has somebody who will retire it. `QueuedIsHeld`, `HeldIsStored`: spool and deques agree. `HeldHasDrain`: no queue waits without a task. `PendingCoversQueue`: a window with waiting prompts is protected from hibernation. `InOrder` |
| QueueRestart | the same sizes; native, rebind, crash at any await, orderly stop, lost windows, exceptions after the send | `AtMostOnce`; `ReservationIsUsed`: no slot leaks; `DeliversPrompts`: the refinement |
| QueueLiveness | 1 topic, 2 windows, 2 prompts; native, rebind, discard, expiry, send errors | `SubmittedIsRetired`, `QueuedIsResolved` under fairness |
| AgentTurns | 2 topics, a window each, 1 slot, 2 prompts; slow captures, hibernation, lost windows | `DispatchesWithinLimit`, `HibernatesOnlyIdle`; deadlock is checked |
| UpdateProcessor | 3 updates of 2 topics in every assignment, 2 permits; crashes, failing store, raising handlers | `OneAtATime`, `TopicOrder`: a topic is sequential, in the order of arrival. `RegistryCounts`: no lock is dropped too early or kept. `SkippedWasHandled`, `CompletedIsSkipped`: duplicates are what was handled, and what a start with a failing store left claimed. `DeliveredIsProcessed`: nobody starves |
| Transcript | 1 recipient, 4 lines of four kinds, retry limit 1, refusal limit 2, 2 faults out of failing and slow sends, flood control, refusals, timeouts, rebinds, stop and crash | `NothingLost`: no offset passes what was not displayed. `InOrder`. `AwaitedIsQueued`: a future the monitor waits for is in exactly one task. `OnlyFaultsRepeat`: in a topic no more repeated output than faults. `EveryLineArrives` under fairness |
| Topics | registry: 2 topics, 2 windows, 2 sessions of one directory, 2 disturbances. Pickers: 2 topics, 2 messages, 1 new window, with and without project roots and a window to pick | `RegistryAgrees`: binding, target and durable route of a topic are the same. `KeptForRecovery`: a topic that was given a session keeps what a recovery needs. `FirstPromptOnce`, `BoundByOwnButton` |
| Services | bubbles: 2 windows, 1 turn, 1 message, 1 fault. Retries: 2 windows, 2 delays, 3 faults. Choices: 3 messages, 2 pending, 2 faults. Health: 2 issues, cooldown 3, stable 2. Update: 2 revisions, 2 faults. Bridge: 2 targets, 2 issues, 3 edits, 2 faults. Pool: 2 runners, 5 passes, grace 2. Nodes: 4 messages, 3 faults | `NoStray`, `BubbleEnds`; `RetriedOnce`, `ScheduledHasTask`; `ChosenOnce`; `RecoveryIsTrue`; `EventuallyRuns`; `RepeatsOnlyAfterFault`; `StopsOnlyIdle`; `NoGap`, `Resubscribes` |
| RecoverySource, PromptMixed, LineSkip, TurnLimit | 2 topics, or 1 recipient with 1 line of two messages | expected violations, section 5 |

Why the bounds are enough.

- *Queue.* Two windows are what a rebind needs: an old and a new target; a third is an old target
  again. Three prompts are one that is submitted, one at the head of a queue and one that arrives
  meanwhile, and a queue limit of two is reached with them. Tasks of different topics meet only in the
  controller: that is what `AgentTurns` has two topics for; with one topic, `MaxActiveTurns = 1` is
  still reached, when an old window's slot is held while the new window's drain wants one. The
  liveness run has two prompts (one can wait for the other) and excludes `restart`, `stop` and
  `agent_failure`: a bot restarted for ever or an agent that never comes up delivers nothing.
- *Ingress.* Three updates are a holder of a lock, a waiter, and a newcomer that arrives between the
  release and the waiter's waking; with two permits the newcomer also waits for the semaphore.
- *Transcript.* Four lines of different kinds are the least in which a group ends in the middle,
  two messages merge, and a line that needs no message lies between. Two faults are one and a second
  while the first is being repaired. Retry and refusal limits are small so that they are reached.
- *Registry.* Two topics, windows and sessions are what a stale entry, a shared window and a session
  that moves need. Two events are a window that dies and a reboot or restart on top. Larger instances
  were explored too: three windows (2.3 million states) and, without `guess`, three events (2.0
  million), with the same result.
- *Pickers.* Two topics and two messages: one message held, one that replaces it. A window to pick
  and one to create. With two new windows there are 3.0 million states and the same result.
- *Services.* Each has two of what competes, and enough time to pass every threshold once and to
  begin again. With two faults for the bubbles the run has 0.78 million states,
  and `NoStray` and `BubbleEnds` hold.

No run uses a state constraint. Topics uses symmetry of topics and sessions, and checks safety only.
Behaviours use up their bounds, so deadlock checking is off where nobody is left to type, write or
publish: everywhere but in AgentTurns and UpdateProcessor.

### Fairness

asyncio runs every ready task, and every await of these coroutines comes back (tmux calls, captures
and requests have timeouts): hence weak fairness of each task. No fairness is assumed of new prompts,
buttons, rebinds, discards, faults or crashes.

- `AgentInputQueue`: each task; confirmations end because they have a deadline. Strong fairness of
  `DrainAcquire` is an assumption on the environment, not on the scheduler: a drain looks at the pane
  again and again, and an agent that is asked for ever is found idle with a free slot at some time.
- `UpdateProcessor`: each task; handlers end, and a woken or permitted task runs.
- `TranscriptDelivery`: the monitor, each topic's worker, and the restart of a bot that is stopping.
  A worker that sleeps through a flood wakes by its own timer (`FloodOver`).
- `StatusBubbles`: poller, worker, and the passing of time (the timer becomes due, the flood ends).
- `SelfUpdate`: the loop, its clock, and `CleanUp`: somebody commits or reverts local changes in the
  end, since an update waits for a clean tree by design.
- `NodeEvents`: the center's loop and its first start, the node's handling of a subscription, and the
  restart of a stopped node. A loss that neither end notices is not in the model: the code has no
  keepalive.

In `MCServices` each fairness condition is conjoined with the part it belongs to, so it binds only
the behaviours that exercise that part.

## 4. The theorems

All are for every value of the constants: any set of topics, windows and messages, any bound, any set
of events, except where a theorem names a condition (`ASSUME ... PROVE Spec => []Inv`). A condition on the
events or the transcript is there because TLC has a counterexample without it, to the property or to one
that is proved in the same induction (the bullets name the code that makes it so); the one exception is
`OneByOne`, which only states the scope of its module. The other conditions only type a constant. No proof
rests on an unproved statement.

`AgentInputQueue_proofs`, from `TurnAdmissionAssumption` (finitely many windows, a natural limit) and
`AgentInputQueueAssumption`:

- `TypeCorrect`: `Spec => []TypeOK`. The types carry facts that later proofs need: an accepted
  prompt has its topic and window, a task that submits holds a prompt and knows its window.
- `SentAtMostOnce`: `Spec => []AtMostOnce`. `AtMostOnce` alone is not inductive: a step may send a
  prompt that was sent before, unless what is still queued is known to be unsent, and a new
  prompt may take an id that was used. The inductive invariant is
  `SendInv == TypeOK /\ FreshIds /\ UnsentUntilSubmitted /\ AtMostOnce`. The proof does not go through
  forty actions: `StepKind` shows once that each step *keeps* the state of every row, *forgets* some
  rows, *submits* one by the compare-and-set, or *accepts* a fresh one; the invariant is then proved
  for these four kinds.
- `ImplementsDelivery`: `Spec => DeliversPrompts`. From the same classification: a kept
  state is a stutter of `PromptDelivery`, the other three are its actions.

`QueueCustody_proofs`, which extends these, is about who has a prompt between its acceptance and its end:

- `CustodyCorrect`: `Spec => []CustodyInv`, whatever happens. For each topic it says what its deques hold
  and in which order, what a drain, a handler with the topic's lock and a restore hold, that no prompt
  has two holders, and that together they have all that waits in the spool. It is long because each
  sentence of it is needed for another: that a drain pops the prompt it sent needs to know who may have
  put something in front of it, which needs the holders to be apart, which needs the rows to leave the
  state `queued` only with their holder.
- `WaitingIsHeld`: `Spec => []QueuedIsHeld`, and `SentInOrder`: `Spec => InOrder`, from `CustodyInv`
  alone. Whoever submits a prompt holds the oldest one of its topic and window that waits.
- `ConfirmCorrect`: a confirmation is of an accepted prompt. `SubmittedHasWatcher` and `HeldIsTended`
  (`SubmittedIsWatched`, `HeldHasDrain`) add to it who will retire what was submitted and who works on
  what is held. Both assume that `refresh_error` is not among the events: an exception after the agent
  took the prompt leaves a row nobody watches (RefreshError in section 5).
- `HeldIsInSpool` (`HeldIsStored`), for events without `agent_failure`: then only a discard takes a
  row whose prompt is held, and it takes the deque as well. A lost window together with discards,
  rebinds or native input breaks it (DroppedRow).
- `ReservationsAreUsed` (`ReservationIsUsed`), for events without `discard`, which can cancel a drain that
  holds a reservation.
- `QueuedIsProtected` (`PendingCoversQueue`), for events without `agent_failure`, and if there are
  rebinds for one topic: protection is kept per window, and a drain that was discarded with its topic's
  binding may end after another topic got the window and queued there, and then clears what that topic's
  deque needs (TLC finds it with two topics, rebinds and discards). Without rebinds a window has one
  topic (`OwnInv`). `SpentOwn` is needed for drains whose deque a discard replaced.

`TranscriptDelivery_proofs`, from `TranscriptAssumption` (entries with ascending lines, natural limits,
refusals counted to at least one):

- `TypesCorrect`: `Spec => []TypeOK`, and `AwaitedHasTask`: `Spec => []AwaitedIsQueued`, for any number
  of recipients. `FutureInv` says it without counting: while the monitor waits, either the worker's task
  is live and none in the queue, or one in the queue and not the worker's.
- `NothingIsLost` (`[]NothingLost`) and `ShownInOrder` (`[]InOrder`), for one recipient (`OneRecipient`)
  and transcripts with one message per line (`OneMessagePerLine`; LineSkip and RecipientSkip of section 5
  show why). They are one induction, `OrderInv`: order is kept because a task is only made for an entry
  whose predecessors are displayed; they are, because what lies before the group's end is displayed or
  in the group and the group is taken in order; and that is so because a group is all that the offsets
  leave out, which is `NothingLost`. Tasks that nobody waits for any more, after a timeout, are kept in
  check by the same fact: what they carry may be shown again, never too early.
- `SkippedWasShown` (`[]SkippedWasReceived`), from the same invariant.
- `RepeatsArePaid`: `Spec => []OnlyFaultsRepeat`, for every transcript and any number of recipients. Each
  topic has an account (`Paid`): the copies of entries it has displayed or has on their way, in its queue
  and with its worker, together with the disturbances that will still cost a copy (`Debt`), are no more
  than the faults and the entries that will not be handed on again (`Settled`): those of lines the session's
  offset has passed, and the one in hand. A debt is a quarantine that makes the next group start from
  before (`Owing`), or a message in hand that has failed or is bound to (`Doomed`). Handing an entry on
  for the first time adds a copy and settles it; doing it again takes a debt, which a fault has paid; the
  worker's merges, requeues and retries neither make nor lose copies. `RepeatInv` adds what the steps need:
  where the monitor is (`PlaceOk`), that a task carries at most one entry (`CarryOk`), and that the entries of
  one line go out by one offset, in order (`BatchOk`, `GivenOk`). The bound is per topic because one fault,
  which makes the monitor read a line again, may repeat it to every recipient: of the sum over topics it
  would be false.

`UpdateProcessor_proofs`, from `UpdateProcessorAssumption` (natural bounds, at least one permit):

- `OneHandlerPerTopic`: `Spec => []OneAtATime`, and `RegistryExact`: `Spec => []RegistryCounts`. One
  invariant gives both: the user count of a topic is the number of its tasks, so the lock that the
  registry has is the one all of them refer to (`RefsLock`), and whoever runs holds it
  (`HoldsLock`). Without the count, a lock could be dropped while another task has it; without
  `RefsLock`, holding a lock says nothing about the topic. `Undelivered` keeps a fetch from touching
  a task that is under way.
- `DuplicatesWereHandled` and `CompletedUpdatesAreSkipped`: the action properties `SkippedWasHandled` and
  `CompletedIsSkipped`, from `ClaimsAreReal`: a claim belongs to a task of the living process or is one that
  the last start found and could not release (`stuck`), and a completed row belongs to a handler that
  ended. A start releases all claims or leaves all, and that is what keeps it inductive across a crash.
  `SkippedWasHandled` therefore says less than the code's comments do; StuckClaim in section 5 is
  the difference.
- `ArrivalOrder`: `Spec => TopicOrder`. From `OrderInv`: the waiters of a lock are exactly the tasks that
  wait for it (`WaitersWait`, `WaitsInLine`), in the order of their updates (`WaitersSorted`), because
  whoever still waits for the semaphore came after all that have passed it (`SlotsAreLast`). Hence a
  free lock means an idle topic (`FreeLockIsIdleTopic`), and the head of a line is the first of its
  topic (`HeadIsFirst`): the two ways in which a handler starts.

`AgentTurns_proofs`, which extends `QueueCustody_proofs`:

- `HibernatesNoWorkingAgent`: `TurnSpec => HibernatesOnlyIdle`. The poller's picture may be older than
  the prompt, so "not working in the picture" is not enough. What makes it inductive is
  `OldPictureIsHarmless`: a working agent that such a picture shows idle has no idle timer yet, so
  the report can only start the timer, never find it elapsed. It uses no assumption on the constants
  and holds for any set of events of the queue.
- `DispatchesAreLimited`: `TurnSpec => []DispatchesWithinLimit`, for any limit, windows and topics and
  for events without native input, rebinds and discards (`OneByOne`, the scope of `AgentTurns`). The
  limit counts reservations, so the proof has to show that nobody dispatches without one: `SlotsHeld`, each
  dispatch to a live window is in the set of reservations, which has at most as many members as the limit.
  A release would break it if two tasks of a topic could dispatch to the same window; `Alone` says
  that they cannot: while a handler sends, its topic has no drain and no confirmation that could start one,
  because a handler that finds either queues its prompt behind them. With `OwnInv` of the custody proofs no
  other topic has the window.

`TopicPickers_proofs`, without assumptions on the constants:

- `HeldMessageSentOnce`: `PickersSpec => []FirstPromptOnce`. Inductive with `HeldOnce`: a message is in
  `user_data`, or in one handler that waits for the list of windows, or sent, and never in two of
  these. Most steps are `Mild`: they type and send nothing and at most drop the held message.
- `BindsOwnTopic`: `PickersSpec => BoundByOwnButton`. From `OwnTopic`: what a waiting handler may bind is its
  own topic or none, because the topic is read before the first await.

`ConversationRegistry_proofs`, from `ConversationRegistryAssumption` (finitely many topics, natural
bounds, every session has a directory, `None` is none of them):

- `RegistryTypes` (`[]TypeOK`) and `RecordsAgree` (`[]RegistryAgrees`): one induction, `RegInv`. The three
  records of a topic are written together by every operation of the registry, so the work is in the
  operations that read them at another time: `load_session_map` applies an old copy of the file, a
  restart builds the memory from the table (two topics of a window must have the same session in it),
  and a handler that waits goes on with a window and a session it has remembered (`Flows`). `Sound` is
  proved once for each operation of the registry and carries the fact that a window with a session has
  its directory.
- `SessionsAreKept` (`[]KeptForRecovery`), if `unhealthy` is not among the events: with it the run
  RecoverySource of section 5 loses the session. It adds two invariants. `World` says of the copies of
  `session_map.json`, the one on disk and those that a load or a handler has read, that the session of an
  entry works in the directory of the window, as long as that window lives, and that the server has
  given out the window's id (`FileFits`); the same of what a waiting handler has asked for (`Asked`). A
  window that starts later has a new id, so no old copy makes `load_session_map` drop the session of a
  live window as one of another directory. `KeepInv` says that a topic that owns a session is bound and its window has
  a session (`KeptFor`), and that a recovery works on the window its topic is bound to, unless it was
  unbound meanwhile (`MovesFor`): without this the removal of the old window's state at its end could hit
  another topic's.

`Services_proofs`, from `ServicesAssumption` and what a theorem says itself. The parts share no state,
so each has an inductive invariant of its own, and a step of another part leaves it alone:

- `MessageChosenOnce`: `ChoicesSpec => []ChosenOnce`, for messages that do not include 0, the number of no
  message. Inductive with `Taken` (the message being handled has left the table) and `UnseenUnsent` (only
  messages never seen enter it).
- `AnnouncedRetryHasTask`: `Spec => []ScheduledHasTask`. Each step changes the row and the task of one
  window, or of all in a crash or restore; `OneWindow` proves the first kind once.
- `AttemptsAreRetriedOnce`: `Spec => []RetriedOnce`, for a natural number of delays. That the submitted
  attempts ascend is not inductive: what a restart restores is counted from the table, what comes next
  from memory. `RetryInv` adds that everything there is of a series belongs to one window (`Only`), the
  topic's while the bot runs, and that the row, the count and the task there agree, at an attempt not
  below any submitted one, and above all of them while it is scheduled or about to be sent (`Level`).
  Marking the row before the prompt goes out is what keeps `Level` across a crash.
- `RecoveriesAreTrue`: `ServicesSpec => []RecoveryIsTrue`. `HealthInv`: the recovery candidate is never
  older than the row of clear samples behind it, and an issue in the table means that the last message
  was an alert. The candidate is not saved, and a restart forgets it together with its age.
- `ListenersStopIdle`: `ServicesSpec => StopsOnlyIdle`. A need is a queued workflow, a GitHub that does not
  answer, or a job the runner had when the run began, whether or not `ps` showed it. What a run knows of
  a runner's last need, in its memory or between runs in the file, is not older than the true one, unless
  a failing `ps` hid it or a run that timed out did not save it (`NeedsAreKnown`); and a stop that was
  decided stays due until it is carried out, after the awaits in between (`StopIsDue`). The excuse is
  given per runner and ends when the saved time has caught up. That a job is never stopped is not a
  theorem: RunnerStopped in section 5 refutes it.
- `DispatchesAreRemembered`: `ServicesSpec => RepeatsOnlyAfterFault`. The memory is what was pasted last
  into each target's window, except between the paste and Enter (`Remembered`); what a pass is about to
  paste is not (`Chosen`); and between passes the file is the memory, unless one has failed
  (`SavedAtRest`), which is what a restart needs.
- `SubscriptionsHaveNoGap`: `ServicesSpec => []NoGap`. What was handled, is being handled and waits in the
  pipe is one ascending sequence up to the last message published (`UpTo`), of which steps move, drop or
  add at the ends; and a registered connection that is alive is among the node's subscribers and has
  all that was published since (`Registered`).
- `BubblesAreTracked`: `ServicesSpec => []NoStray`. A send is made when no bubble is tracked, and an edit or
  a delete is about the tracked one (`Aimed`), though other handlers may forget it between the worker's
  request and its answer; only the answer of a send may find a bubble that is not tracked yet.

Only model-checked: liveness, which is outside TLAPS (`SubmittedIsRetired`, `QueuedIsResolved`,
`DeliveredIsProcessed`, `EveryLineArrives`, `BubbleEnds`, `EventuallyRuns`, `Resubscribes`). Every invariant
of a passing run is stated by a theorem, with the hypotheses named above. Inductive
invariants were checked by TLC on instances of the size of the runs before they were proved.

## 5. Where code and documentation disagree

Each of the first four is a run that violates one property; `PROJECT.json` quotes the lines.

- **RecoverySource.** A recovered window may get the id of the missing one, when the host was rebooted
  and tmux counts from the start. `prepare_window_launch` then clears the very state that
  `discard_failed_window` restores when the resumed agent is not healthy; the session is gone from
  memory and disk and the topic cannot be recovered again. Without the event `unhealthy` the property
  holds: it is one of those of the run Topics.
- **PromptMixed.** The text that goes to a new window is read from `user_data` after the awaits of the
  creation. A first message typed meanwhile in another unbound topic has replaced it: it goes to the
  wrong agent, and the first message is lost. The picker of existing windows reads it after its
  own await in the same way (bot.py:7666-7712); TLC's shortest trace takes that path.
- **LineSkip.** All messages parsed from one transcript line carry the same offset. When the first is
  delivered, the recipient's offset is moved to the end of the line, and the second is skipped as
  received.
- **TurnLimit.** The poller reports how a pane looked before its capture returned; a dispatch that
  was marked submitted meanwhile loses its slot, and more turns run than `MAX_ACTIVE_TURNS`.

Disagreements of the same kind that TLC shows when the named property is checked with the named
events; no run keeps them:

- *RefreshError* (`SubmittedIsRetired`, `refresh_error`). An exception after the agent took the prompt
  ends the drain without a confirmation task. The row stays submitted and the topic blocked until a
  restart, although docs/deployment.md says that the uncertain record is retired after five minutes.
- *SilentDrop* (`NoSilentDrop`, `agent_failure`). While the failure notice of a lost window is sent, a
  handler can append a prompt and answer that it is queued; the drain then clears the queue, that
  prompt included.
- *DroppedRow* (`HeldIsStored`, `discard` and `agent_failure`). A drain that a discard cancels starts a
  successor with a deque that is no longer the topic's; when it finds the window missing it deletes the
  rows of prompts that were queued after the discard, which stay in the deque and can never be marked.
  The same happens without a discard when a confirmation of an earlier window or of native input starts
  the drain while a handler sends, and both find the window missing: the handler replaces the deque.
- *StopDrains* (`NothingSentAfterStop`, `stop`). The same successor, after the shutdown cancelled the
  drains: it can still send.
- *TopicStall* (`TopicsConcurrent` of `UpdateProcessor`). docs/configuration.md says that
  `TELEGRAM_AGENT_BOT_MAX_CONCURRENT_UPDATES` is the number of topics processed concurrently. The semaphore
  counts updates, and those that wait for their topic's lock have a permit already: a few quick messages to
  one busy topic stop all others.
- *StuckBlock* (`BlockedIsQuarantined` of `TranscriptDelivery`, `refusal`). When Telegram refuses a topic, the
  session is blocked until a message comes from that topic. A message handled after the refusal and
  before the monitor has recorded the block ends the quarantine and finds no block to lift; the block is
  then set, and later messages do not look at it because the quarantine is over. The session's output
  stops until a restart.
- *StuckClaim* (`InterruptedIsTakenUp` of `UpdateProcessor`, `crash` and `store`; the constants of
  MCUpdateProcessor.cfg). `TopicUpdateProcessor.initialize` catches a store that fails at the start, logs
  "continuing without durable duplicate suppression" (update_processor.py:64), and goes on with the store
  and with the claims of the dead process in it. When the store works again, an update that Telegram
  delivers again because its handler was interrupted is found claimed and skipped. The docstring
  (update_processor.py:59) says "Release interrupted claims while retaining completed update IDs."
  `SkippedWasHandled`, which the run and the theorem have, excepts exactly these claims.
- *RunnerStopped* (`JobsAreKept` of `MCServices`; the constants of MCServices.cfg). When `ps` fails,
  `_process_lines` returns an empty list (runner_pool.py:166), which `runner_worker_active` cannot tell from a
  host without workers. A runner whose known need is a grace period old is then stopped with the job it
  executes, although the comment at runner_pool.py:177-179 says "If ownership cannot be proven, keep
  every managed listener online rather than stopping a job." `StopsOnlyIdle` excuses the need that such
  a run did not see.
- *RecipientSkip* (`NothingLost` of `TranscriptDelivery`, two topics and `send`). A recipient that has no
  offset yet is left out of the minimum (`Recorded`). When a message was delivered to the first recipient
  and its send to the second, new one fails, the group is read again from the first one's offset, and the
  second never gets it, although the docstring (session_monitor.py:494-500) says that one recipient's
  later offset cannot skip another that still needs older bytes.

One more that reading shows and the models leave room for: a status report of a window that was unbound
while it was captured carries no route generation, and the fence lets it pass (`Task(...).fenced` of
`StatusBubbles`; `BubbleEnds` bounds its life).

Behaviour the passing runs leave out on purpose, and why: a discard that cancels a drain while it
waits for the transcript baseline leaves its reservation behind until the next dispatch to that
window, so `ReservationIsUsed` is checked without discards; lost windows together with discards, rebinds or
native input violate `HeldIsStored` (DroppedRow), so QueueRaces has discards and QueueRestart has lost windows; Topics
has no `unhealthy` (RecoverySource); Transcript has one message per line (LineSkip) and one recipient
(RecipientSkip).

## 6. Limits, and what is not modelled

What properties leave out:

- `KeptForRecovery` speaks of topics whose window no other topic shares: the code refuses to use a
  shared window anyway. A recovery in place is looked at when it has ended, and a restart of the bot in
  the middle of one is not covered; neither is a `/clear` that a stale entry of the session map undoes.
- `NothingLost` counts what was displayed, whether or not Telegram's answer came back; messages to a
  quarantined topic are dropped by design, after a notice.
- `EventuallyRuns` excludes a checkout that changed and was not started: a pull whose `uv sync` failed
  is not repeated, since the revision is then up to date.
- `NoStray` excludes bubbles whose send had no answer, whose deletion Telegram refuses, or whose topic was
  unbound: the bot has given them up.
- `RepeatsOnlyAfterFault` is about the last version pasted into a window; an issue that alternates with
  another is dispatched each time, by design.
- `Resubscribes` is about losses that an end notices.
- `StopsOnlyIdle` does not speak of a job that starts after the run asked for the processes: the code
  takes one picture for all runners, and a job that began since is stopped with its listener.
- `RecoveryIsTrue` excepts a recovery repeated because a crash came between its sends and the last write
  of the record (`CutRecord`).
- `BubbleEnds` and `NoStray` are about topics that are not quarantined: those have their status tasks
  dropped (message_queue.py:644-651, 1473).

What the actions leave out of the code they stand for:

- *Queue.* Drains and handlers of native input take `mark_window_working` (bot.py:3730) with the step
  before it; an exception in it is not modelled. A shutdown that cancels a confirmation in the middle of
  its expiry notice may start one more drain, as a discard does (`Woken`); `Stop` starts only those of
  cancelled drains.
- *Transcript.* `Ask` has no exception of `handle_interactive_ui` (bot.py:8190), and no line at offset 0,
  which the code takes for a message without an offset (bot.py:8005-8014).
- *Registry.* The table and `state.json` are written in one step (session.py:333, 360). The list of
  windows that a load compares with is the one at the step that applies it; the code has asked for it
  one await earlier, and the request may fail (session.py:1278-1282). The poller closes a topic only when no
  handler of the topic is under way; in the code nothing serializes the two.
- *Retries.* The store works (bot.py:3317-3323, 3431-3438, 3455), and the topic changes its window only while
  the bot is down.
- *Choices.* A message update that Telegram delivers again after a crash inserts a row of its own; in the
  model that row is another message, so `ChosenOnce` is about the presses on one row.
- *Health.* The writes of the table succeed.
- *Updater.* Exceptions that end the loop's task (updater.py:1049, 1080, 1088) are left out, and
  `EventuallyRuns` is not claimed for them.

What models take as given: a handler that fails with an ordinary
exception is finished by python-telegram-bot; the parts composed in `MCTopics` and `MCServices`
do not act on one another within a behaviour, which the code bears out: what one hands to the next
is an input of the other's model.

Not modelled, and why:

- parsing of panes and transcripts, formatting, screenshots, transcription: conversions whose
  results the models take as choices of the environment;
- tmux, the backends and `agent_io`: I/O whose outcomes are choices in the models of the callers;
- requests of the socket plugin: a connection with one answer each, without state;
- truncated transcripts, pending tools, edits of tool messages, images;
- interactive prompts (`handlers/interactive_ui.py`): a mirror of the pane;
- the account manager, the installer of the hook, configuration, doctor and the maintenance timer:
  sequential tools over files.

Worth doing next, in this order: the two restrictions of the transcript's theorems of order to one
recipient, by an invariant per recipient; `QueuedIsProtected` with rebinds, for a fixed
assignment of windows to topics.
