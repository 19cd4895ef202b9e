----------------------------- MODULE SelfUpdate ------------------------------
(***************************************************************************)
(* updater.py: the loop that keeps the bot at the newest revision of its   *)
(* git checkout.  It waits until the host is idle, but at most the         *)
(* configured deadline, then fetches, pulls, syncs the environment and     *)
(* replaces its own process; the agent's CLI is looked at afterwards.      *)
(*                                                                         *)
(* The checkout is a directory that outlives the process: a revision that  *)
(* is pulled and then not started is not pulled again.  Time is counted in *)
(* ticks of the busy retry.  The mode modelled is the automatic one        *)
(* (enabled, require_idle); git, uv, npm and the panes are the environment.*)
(***************************************************************************)
EXTENDS Integers

CONSTANTS
  Interval,     \* interval_seconds, in ticks
  Deadline,     \* max_busy_deferral_seconds, in ticks, 0 for none
  MaxPushes,    \* bound on the revisions published
  MaxFaults     \* bound on failing commands, crashes, local edits and manual updates

VARIABLES
  remote,       \* the newest revision upstream
  disk,         \* the revision checked out
  running,      \* the revision the process was started from
  unstarted,    \* the checkout changed and no restart followed
  dirty,        \* the working tree has local changes
  busy,         \* some window or the message queue is a blocker
  checked,      \* ticks since last_checked_at, Interval when that is due
  deferred,     \* ticks since deferred.at, -1 when nothing is deferred
  delay,        \* what is left of asyncio.sleep(next_delay)
  pc,           \* where the loop is
  sawIdle,      \* no blockers were found at the last look
  cli,          \* the agent CLI: "latest" or "old"
  faults

vars == <<remote, disk, running, unstarted, dirty, busy, checked, deferred, delay,
          pc, sawIdle, cli, faults>>

checkout == <<disk, running, unstarted>>
clock == <<checked, deferred>>
world == <<remote, dirty, busy, faults>>

NotDeferred == 0 - 1
AtMost(n, bound) == IF n > bound THEN bound ELSE n
Fail == faults < MaxFaults /\ faults' = faults + 1

Init ==
  /\ remote = 1 /\ disk = 1 /\ running = 1 /\ unstarted = FALSE
  /\ dirty = FALSE /\ busy = FALSE /\ cli = "latest" /\ faults = 0
  /\ checked = Interval /\ deferred = NotDeferred
  /\ pc = "sleep" /\ delay = 1 /\ sawIdle = FALSE

------------------------------------------------------------------------------
(* Waiting for the host to be idle.                                        *)

\* Fault: every busy look counts as the first.
DeferredAfresh == 0

\* _write_update_deferred_state keeps the time of the first busy look.
Deferred == IF deferred = NotDeferred THEN 0 ELSE deferred

\* _busy_deferral_expired
Expired(since) == Deadline > 0 /\ since >= Deadline

\* The loop wakes and looks for blockers (get_update_blockers).
WakeBusy ==
  /\ pc = "sleep" /\ delay = 0 /\ busy /\ ~Expired(Deferred)
  /\ deferred' = Deferred
  /\ delay' = 1
  /\ UNCHANGED <<checkout, world, checked, pc, sawIdle, cli>>

WakeForCheck ==
  /\ pc = "sleep" /\ delay = 0 /\ (busy => Expired(Deferred))
  /\ deferred' = NotDeferred
  /\ sawIdle' = ~busy
  /\ pc' = "check"
  /\ UNCHANGED <<checkout, world, checked, delay, cli>>

------------------------------------------------------------------------------
(* check_and_apply_update, in a thread, one command after the other.       *)

\* _write_update_state: the result replaces the whole state, a deferral with it.
Record == checked' = 0 /\ deferred' = NotDeferred
Done == pc' = "cli" /\ UNCHANGED delay

\* _check_due, then _working_tree_clean.
NotDue ==
  /\ pc = "check" /\ checked < Interval /\ Done
  /\ UNCHANGED <<checkout, world, clock, sawIdle, cli>>

DirtyTree ==
  /\ pc = "check" /\ checked >= Interval /\ dirty /\ Record /\ Done
  /\ UNCHANGED <<checkout, world, sawIdle, cli>>

CleanTree ==
  /\ pc = "check" /\ checked >= Interval /\ ~dirty
  /\ pc' = "fetch"
  /\ UNCHANGED <<checkout, world, clock, delay, sawIdle, cli>>

\* _fetch_ref and _commits_behind
UpToDate ==
  /\ pc = "fetch" /\ disk = remote /\ Record /\ Done
  /\ UNCHANGED <<checkout, world, sawIdle, cli>>

Behind ==
  /\ pc = "fetch" /\ disk < remote
  /\ pc' = "pull"
  /\ UNCHANGED <<checkout, world, clock, delay, sawIdle, cli>>

\* git pull --ff-only brings whatever is upstream by then.
Pull ==
  /\ pc = "pull"
  /\ disk' = remote /\ unstarted' = TRUE
  /\ pc' = "sync"
  /\ UNCHANGED <<running, world, clock, delay, sawIdle, cli>>

\* _run_uv_sync
Sync ==
  /\ pc = "sync" /\ Record
  /\ pc' = "restart"
  /\ UNCHANGED <<checkout, world, delay, sawIdle, cli>>

\* A command fails or times out: the error is the recorded result.
CommandFails ==
  /\ pc \in {"check", "fetch", "pull", "sync"} /\ (pc = "check" => checked >= Interval)
  /\ Fail /\ Record /\ Done
  /\ UNCHANGED <<checkout, remote, dirty, busy, sawIdle, cli>>

\* A process starts: the loop sleeps a little first.
Start == running' = disk /\ unstarted' = FALSE /\ pc' = "sleep" /\ delay' = 1 /\ sawIdle' = FALSE

\* restart_current_process, by execvp.
Restart ==
  /\ pc = "restart" /\ Start
  /\ UNCHANGED <<disk, world, clock, cli>>

\* The process dies, at any point; its service starts it again.
Crash ==
  /\ Fail /\ Start
  /\ UNCHANGED <<disk, remote, dirty, busy, clock, cli>>

------------------------------------------------------------------------------
(* check_codex_update, then back to sleep.  The blockers are those of the  *)
(* look before the source check.                                           *)

CheckCli ==
  /\ pc = "cli"
  /\ \/ cli' = IF sawIdle THEN "latest" ELSE cli
     \/ UNCHANGED cli           \* npm fails, or only approval may install
  /\ pc' = "sleep" /\ delay' = Interval
  /\ UNCHANGED <<checkout, world, clock, sawIdle>>

------------------------------------------------------------------------------
(* The environment.                                                        *)

\* The clock runs while the loop sleeps; commands take less than a tick.
Tick ==
  /\ pc = "sleep" /\ delay > 0
  /\ delay' = delay - 1
  /\ checked' = AtMost(checked + 1, Interval)
  /\ deferred' = IF deferred = NotDeferred THEN NotDeferred ELSE AtMost(deferred + 1, Deadline)
  /\ UNCHANGED <<checkout, world, pc, sawIdle, cli>>

Push ==
  /\ remote <= MaxPushes
  /\ remote' = remote + 1
  /\ UNCHANGED <<checkout, dirty, busy, faults, clock, delay, pc, sawIdle, cli>>

Release ==
  /\ cli = "latest" /\ cli' = "old"
  /\ UNCHANGED <<checkout, world, clock, delay, pc, sawIdle>>

Work ==
  /\ busy' = ~busy
  /\ UNCHANGED <<checkout, remote, dirty, faults, clock, delay, pc, sawIdle, cli>>

\* Someone edits the checkout, and cleans it up again.
Edit ==
  /\ ~dirty /\ Fail /\ dirty' = TRUE
  /\ UNCHANGED <<checkout, remote, busy, clock, delay, pc, sawIdle, cli>>

CleanUp ==
  /\ dirty /\ dirty' = FALSE
  /\ UNCHANGED <<checkout, remote, busy, faults, clock, delay, pc, sawIdle, cli>>

\* telegram-agent-bot update (update_main): forced, by hand, and no restart.
ManualUpdate ==
  /\ ~dirty /\ disk < remote /\ Fail
  /\ disk' = remote /\ unstarted' = TRUE
  /\ Record
  /\ UNCHANGED <<running, remote, dirty, busy, delay, pc, sawIdle, cli>>

------------------------------------------------------------------------------

Update ==
  \/ WakeBusy \/ WakeForCheck
  \/ NotDue \/ DirtyTree \/ CleanTree \/ UpToDate \/ Behind \/ Pull \/ Sync
  \/ Restart \/ CheckCli

Next ==
  \/ Update \/ CommandFails \/ Crash
  \/ Tick \/ Push \/ Release \/ Work \/ Edit \/ CleanUp \/ ManualUpdate

Fairness == WF_vars(Update) /\ WF_vars(Tick) /\ WF_vars(CleanUp)

Spec == Init /\ [][Next]_vars /\ Fairness

(* A published revision ends up running, however busy the host is when a    *)
(* deadline is set, unless the checkout was changed without a restart: by   *)
(* hand, or by a pull whose uv sync failed, after which the bot takes       *)
(* itself to be up to date.                                                 *)
EventuallyRuns == <>[](running = remote \/ unstarted)
==============================================================================
