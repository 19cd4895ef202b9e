------------------------------ MODULE AgentTurns ------------------------------
(***************************************************************************)
(* The agents behind the windows, and the status poller that watches them: *)
(* status_poll_loop and update_status_message (status_polling.py) with     *)
(* idle_session_hibernator (idle_sessions.py), composed with the queue     *)
(* whose dispatches start the turns.                                       *)
(*                                                                         *)
(* A window is alive until the poller kills it; its agent works from the   *)
(* moment it takes a prompt as a turn until it finishes.  A pane is read   *)
(* in a worker thread: what the poller acts on is how the pane looked at   *)
(* some time before.  The panes read by a drain or a handler show the      *)
(* agent as it is: without native input, rebinding and discards, a topic   *)
(* has one dispatch at a time, so nobody starts a turn behind its back.    *)
(***************************************************************************)
EXTENDS AgentInputQueue

VARIABLES alive,    \* windows tmux still has
          working,  \* windows whose agent is on a turn
          rest,     \* idle_session_hibernator: since when a window is idle
          poll      \* the status poller: a topic at a time

agents == <<alive, working, rest, poll>>
turnVars == <<vars, agents>>

PollPc == {"start", "report", "kill"}
NoPoll == [pc |-> "start", win |-> None, idle |-> FALSE]

TurnInit ==
    /\ Init
    /\ alive = Windows
    /\ working = {}
    /\ rest = [w \in Windows |-> "none"]
    /\ poll = NoPoll

\* Fault: a dispatch leaves the idle timer running.
RestedNever(S) == rest
\* idle_session_hibernator.forget
Rested(S) == [w \in Windows |-> IF w \in S THEN "none" ELSE rest[w]]

\* The windows whose agent takes a prompt in this step.
Answered ==
    {w \in Windows : \E r \in Routes :
        \/ drain[r].pc = "send" /\ drain'[r].pc = "refresh" /\ drain[r].win = w
        \/ /\ sender[r].pc = "send" /\ sender[r].win = w
           /\ confirm'[sender[r].item] # confirm[sender[r].item]}

\* What a drain and a handler at "capture" may do next, given what the pane shows.
DrainFollowsPane(r) ==
    LET w == drain[r].win
    IN  /\ drain'[r].pc = "baseline" => w \in alive \ working
        /\ drain'[r].pc = "top" => w \in alive
        /\ drain'[r].pc = "lost" => w \notin alive
        /\ drain'[r].pc # "refused"
HandlerFollowsPane(r) ==
    IF sender[r].win \in alive
    THEN sender'[r].pc = "baseline" => sender[r].win \notin working
    ELSE DirectUnavailable(r)

QueueStep ==
    /\ Next
    /\ nextId' # nextId => rows'[nextId].win \in alive
    /\ \A r \in Routes :
          /\ Drains(r, "capture") /\ drain'[r] # drain[r] => DrainFollowsPane(r)
          /\ Holds(r, "capture") /\ sender'[r] # sender[r] => HandlerFollowsPane(r)
    /\ \A w \in adm.observed \ adm'.observed : w \notin working
    /\ Answered \subseteq alive
    /\ working' = working \cup Answered
    /\ rest' = Rested(Answered)
    /\ UNCHANGED <<alive, poll>>

\* The agent ends its turn, whatever anybody knows of it.
Finish(w) ==
    /\ w \in working
    /\ working' = working \ {w}
    /\ UNCHANGED <<vars, alive, rest, poll>>

\* The idle timeout of a window has passed.
TimeoutElapses(w) ==
    /\ rest[w] = "counting"
    /\ rest' = [rest EXCEPT ![w] = "elapsed"]
    /\ UNCHANGED <<vars, alive, working, poll>>

-------------------------------------------------------------------------------
(* The poller.                                                              *)

\* The loop comes to a topic whose window exists, and its pane is read.
PollCapture(r) ==
    /\ phase = "up" /\ poll.pc = "start"
    /\ binding[r] \in alive
    /\ poll' = [pc |-> "report", win |-> binding[r], idle |-> binding[r] \notin working]
    /\ UNCHANGED <<vars, alive, working, rest>>

PollMissing(r) ==
    /\ phase = "up" /\ poll.pc = "start"
    /\ binding[r] \in Windows \ alive
    /\ adm' = Forget(adm, binding[r])
    /\ rest' = Rested({binding[r]})
    /\ UNCHANGED <<rows, nextId, binding, phase, queues, drain, sender, confirm, sends>>
    /\ UNCHANGED <<alive, working, poll>>

\* Unless captures are slow, the picture is as the pane is.
Fresh == "slow_capture" \in Events \/ poll.idle = (poll.win \notin working)

\* idle_session_hibernator.observe: counts while idle and unprotected.
Resting(w, idle) ==
    [rest EXCEPT ![w] = IF ~idle \/ IsProtected(adm, w) THEN "none"
                        ELSE IF @ = "none" THEN "counting" ELSE @]

Observed(idle, w) == IF idle THEN ObserveInactive(adm, w) ELSE ObserveActive(adm, w)

\* The picture is reported to the controller and to the hibernator.  A pane that
\* is neither working nor ready for input, an approval dialog for one, counts as
\* active.
PollReport ==
    /\ poll.pc = "report" /\ Fresh
    /\ \E idle \in {FALSE, poll.idle} :
          LET hibernates == Resting(poll.win, idle)[poll.win] = "elapsed"
                            /\ "hibernate" \in Events
          IN  /\ adm' = Observed(idle, poll.win)
              /\ rest' = IF hibernates THEN Rested({poll.win}) ELSE Resting(poll.win, idle)
              /\ poll' = IF hibernates THEN [poll EXCEPT !.pc = "kill"] ELSE NoPoll
    /\ UNCHANGED <<rows, nextId, binding, phase, queues, drain, sender, confirm, sends>>
    /\ UNCHANGED <<alive, working>>

\* tmux_manager.kill_window came back; without success nothing else happens.
PollKill ==
    /\ poll.pc = "kill"
    /\ poll' = NoPoll
    /\ \/ /\ alive' = alive \ {poll.win}
          /\ working' = working \ {poll.win}
          /\ adm' = Forget(adm, poll.win)
       \/ UNCHANGED <<alive, working, adm>>
    /\ UNCHANGED <<rows, nextId, binding, phase, queues, drain, sender, confirm, sends>>
    /\ UNCHANGED rest

TurnNext ==
    \/ QueueStep
    \/ \E w \in Windows : Finish(w) \/ TimeoutElapses(w)
    \/ \E r \in Routes : PollCapture(r) \/ PollMissing(r)
    \/ PollReport \/ PollKill

TurnSpec == TurnInit /\ [][TurnNext]_turnVars

-------------------------------------------------------------------------------
(* Properties.                                                              *)

TurnTypeOK ==
    /\ TypeOK
    /\ alive \subseteq Windows
    /\ working \subseteq alive
    /\ rest \in [Windows -> {"none", "counting", "elapsed"}]
    /\ poll \in [pc : PollPc, win : Windows \cup {None}, idle : BOOLEAN]

\* The topics together never dispatch to more live windows than the turn limit,
\* whatever the poller reports and kills meanwhile.
DispatchesWithinLimit ==
    MaxActiveTurns # 0 => Cardinality(Dispatching \cap alive) <= MaxActiveTurns

\* The poller never decides to hibernate a window whose agent works, although its
\* picture of the pane may be from before the prompt: the dispatch restarted the
\* idle timer.
HibernatesOnlyIdle ==
    [][poll.pc # "kill" /\ poll'.pc = "kill" => poll.win \notin working]_turnVars

\* docs/configuration.md: MAX_ACTIVE_TURNS are the "local agent turns allowed to
\* work simultaneously".
TurnsWithinLimit ==
    MaxActiveTurns # 0 => Cardinality(working) <= MaxActiveTurns
===============================================================================
