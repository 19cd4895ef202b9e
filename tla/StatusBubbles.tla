---------------------------- MODULE StatusBubbles ----------------------------
(***************************************************************************)
(* The status bubble ("Thinking ...") of one topic: handlers/              *)
(* message_queue.py sends, edits and deletes it from the topic's worker,   *)
(* status_polling.py and the prompt handlers ask for it, working_status.py *)
(* keeps the local timer that says whether it should be there.             *)
(*                                                                         *)
(* What the topic's chat shows is kept apart from what the bot believes it *)
(* shows: requests to Telegram may fail, may succeed without a reply, and  *)
(* other tasks run while the worker waits for the answer.  The n-th window *)
(* the topic is bound to is window n, and its route generation is n too.   *)
(***************************************************************************)
EXTENDS Naturals, Sequences, FiniteSets

CONSTANTS
  Texts,         \* what a status can say: Think is a working status
  Think,
  MaxRoutes,     \* bound on the windows the topic is bound to
  MaxRuns,       \* bound on the turns that are started
  MaxContents,   \* bound on the messages the agent writes
  MaxFaults      \* bound on failed requests, floods and crashes

VARIABLES
  route,      \* the bound window, 0 when the topic is not bound
  routes,     \* the windows the topic has been bound to
  busy,       \* the windows whose agent is working
  timer,      \* _synthetic_working_starts: "off", "new" or "due" per window
  queue,      \* the topic's message queue
  worker,     \* where its worker is
  poll,       \* the capture the poller is about to report
  shown,      \* ids of the bubbles in the chat
  info,       \* _status_msg_info of the topic, saved with every change
  uncertain,  \* _uncertain_status_windows: the window, or 0
  flood,      \* _flood_until lies in the future
  excused,    \* bubbles whose tracking a handler dropped or a fault lost
  used        \* how much of each bound is used up

vars == <<route, routes, busy, timer, queue, worker, poll, shown, info, uncertain, flood, excused, used>>

BoundWindows == 1..MaxRoutes
NoInfo == [id |-> 0, win |-> 0, text |-> ""]
Idle == [at |-> "idle", type |-> "", win |-> 0, text |-> "", then |-> "", msg |-> 0]
NoPoll == [win |-> 0, busy |-> FALSE, skip |-> FALSE]
\* Every task carries the route it was made for (RouteDeliveryIdentity), one
\* made for a window that is not bound carries none.
Task(type, win, text) == [type |-> type, win |-> win, text |-> text, fenced |-> win = route]
Room(bound, n) == used[bound] < n
Use(bound) == used' = [used EXCEPT ![bound] = @ + 1]
Fail == Room("faults", MaxFaults) /\ Use("faults")

Init ==
  /\ route = 0 /\ routes = 0 /\ busy = {} /\ poll = NoPoll
  /\ timer = [w \in BoundWindows |-> "off"]
  /\ queue = <<>> /\ worker = Idle
  /\ shown = {} /\ info = NoInfo /\ uncertain = 0 /\ flood = FALSE /\ excused = {}
  /\ used = [runs |-> 0, contents |-> 0, faults |-> 0]

------------------------------------------------------------------------------
(* enqueue_status_update and _enqueue_coalesced_status_task.               *)

Content == SelectSeq(queue, LAMBDA t: t.type = "content")
\* A clear that waits stays in front of an update that comes after it.
KeptClear(type) ==
  LET clears == SelectSeq(queue, LAMBDA t: t.type = "clear")
  IN  IF type = "update" /\ clears # <<>> THEN <<Head(clears)>> ELSE <<>>
Coalesced(task, first) ==
  IF first THEN KeptClear(task.type) \o <<task>> \o Content
           ELSE KeptClear(task.type) \o Content \o <<task>>

\* What the deduplication drops: the same text, and any text after a send
\* whose outcome is unknown.
Superfluous(win, text) ==
  /\ text # ""
  /\ uncertain = win \/ (info.win = win /\ info.text = text)

\* The queue after enqueue_status_update.  The seconds of a working status
\* change, so that its text is the shown one or not.
Asked(win, text, same, first) ==
  IF flood \/ (text # "" /\ uncertain = win) \/ (same /\ Superfluous(win, text))
  THEN queue
  ELSE Coalesced(Task(IF text = "" THEN "clear" ELSE "update", win, text), first)

------------------------------------------------------------------------------
(* The handlers and the agent.                                             *)

Bind ==
  /\ route = 0 /\ routes < MaxRoutes
  /\ routes' = routes + 1 /\ route' = routes + 1
  /\ UNCHANGED <<busy, timer, queue, worker, poll, shown, info, uncertain, flood, excused, used>>

\* The clear before a prompt is passed on (text_handler).
Typed ==
  /\ route # 0 /\ queue' = Asked(route, "", FALSE, FALSE) /\ queue' # queue
  /\ Room("runs", MaxRuns)
  /\ UNCHANGED <<route, routes, busy, timer, worker, poll, shown, info, uncertain, flood, excused, used>>

\* mark_window_working after the agent took the prompt.  begin_status_run
\* comes before the enqueue, which drops a text that is already shown.
StartRun ==
  /\ route # 0 /\ Room("runs", MaxRuns) /\ Use("runs")
  /\ busy' = busy \cup {route}
  /\ timer' = [timer EXCEPT ![route] = "new"]
  /\ uncertain' = IF uncertain = route THEN 0 ELSE uncertain
  /\ \E same \in BOOLEAN:
       queue' = IF flood \/ (same /\ info.win = route /\ info.text = Think)
                THEN queue ELSE Coalesced(Task("update", route, Think), TRUE)
  /\ UNCHANGED <<route, routes, worker, poll, shown, info, flood, excused>>

\* The timer passes its grace: from now on an idle pane stops it.
TimerDue ==
  \E w \in BoundWindows:
    /\ timer[w] = "new" /\ timer' = [timer EXCEPT ![w] = "due"]
    /\ UNCHANGED <<route, routes, busy, queue, worker, poll, shown, info, uncertain, flood, excused, used>>

AgentWrites ==
  /\ route \in busy /\ Room("contents", MaxContents) /\ Use("contents")
  /\ queue' = Append(queue, Task("content", route, ""))
  /\ UNCHANGED <<route, routes, busy, timer, worker, poll, shown, info, uncertain, flood, excused>>

AgentDone ==
  \E w \in busy:
    /\ busy' = busy \ {w}
    /\ UNCHANGED <<route, routes, timer, queue, worker, poll, shown, info, uncertain, flood, excused, used>>

\* clear_status_msg_info: the bubble stays in the chat, the bot forgets it.
Untracked == IF info = NoInfo THEN excused ELSE excused \cup {info.id}
\* Unbinding, closing or deleting the topic: clear_topic_state.
Unbind ==
  /\ route # 0 /\ route' = 0
  /\ excused' = Untracked /\ info' = NoInfo /\ uncertain' = 0
  /\ timer' = [timer EXCEPT ![route] = "off"]
  /\ UNCHANGED <<routes, busy, queue, worker, poll, shown, flood, used>>

FloodEnds ==
  /\ flood /\ flood' = FALSE
  /\ UNCHANGED <<route, routes, busy, timer, queue, worker, poll, shown, info, uncertain, excused, used>>

------------------------------------------------------------------------------
(* The poller.  It looks at the queue, awaits the capture and reports it.  *)

Capture ==
  /\ poll = NoPoll /\ route # 0
  /\ poll' = [win |-> route, busy |-> route \in busy, skip |-> queue # <<>>]
  /\ UNCHANGED <<route, routes, busy, timer, queue, worker, shown, info, uncertain, flood, excused, used>>

\* status_text_for_pane: the timer holds the bubble until the agent is
\* clearly idle; without it the pane's own status line counts.
StopsTimer(win, working) == ~working /\ timer[win] = "due"
StatusTexts(win, working) ==
  IF timer[win] # "off" /\ ~StopsTimer(win, working) THEN {Think}
  ELSE IF working THEN {Think} ELSE {""} \cup (Texts \ {Think})
TimerAfter(win, working) ==
  IF StopsTimer(win, working) THEN [timer EXCEPT ![win] = "off"] ELSE timer

\* What the report asks for when the pane says text.  While the queue has
\* work only the timer is kept going.
\* Fault: nothing is asked for when there is no status.
WantedIfAny(win, text, skip, same) ==
  IF text = "" \/ (skip /\ text # Think) THEN queue ELSE Asked(win, text, same, FALSE)
Wanted(win, text, skip, same) ==
  IF skip /\ text # Think THEN queue ELSE Asked(win, text, same, FALSE)

Report ==
  /\ poll # NoPoll /\ poll' = NoPoll
  /\ timer' = TimerAfter(poll.win, poll.busy)
  /\ \E text \in StatusTexts(poll.win, poll.busy), same \in BOOLEAN:
       queue' = Wanted(poll.win, text, poll.skip, same \/ text # Think)
  /\ UNCHANGED <<route, routes, busy, worker, shown, info, uncertain, flood, excused, used>>

------------------------------------------------------------------------------
(* The worker.  "at" is the request it waits for, msg the message it is    *)
(* about, read before the wait, and "then" what follows a delete: a send,  *)
(* a send that deletes again first ("resend"), the content it makes room   *)
(* for, the look at the pane after the content ("check"), or nothing.      *)

Stop == worker' = Idle
Goto(at, then, msg) == worker' = [worker EXCEPT !.at = at, !.then = then, !.msg = msg]
\* The beginning of _do_send_status_message, with tracked as the tracking.
ToSend(tracked) ==
  IF uncertain = worker.win THEN Stop
  ELSE IF tracked = NoInfo THEN Goto("send", "", 0) ELSE Goto("delete", "send", tracked.id)

\* _task_matches_current_route, and the drop of status tasks in a flood.
Current(t) == t.fenced => t.win = route
Take ==
  /\ worker = Idle /\ queue # <<>>
  /\ LET t == Head(queue) IN
     /\ t.type = "content" => ~flood
     /\ queue' = Tail(queue)
     /\ worker' = IF flood \/ ~Current(t) THEN Idle
                  ELSE [Idle EXCEPT !.at = "start", !.type = t.type, !.win = t.win, !.text = t.text]
  /\ UNCHANGED <<route, routes, busy, timer, poll, shown, info, uncertain, flood, excused, used>>

\* _process_status_update_task, _do_clear_status_message and the start of
\* _process_content_task.  A working bubble may be due for a repost; a footer
\* becomes the first part of the content, a bubble of another window goes, a
\* working bubble stays until the content is there.
StartTask ==
  /\ worker.at = "start"
  /\ \/ worker.type = "clear" /\ IF info = NoInfo THEN Stop ELSE Goto("delete", "", info.id)
     \/ /\ worker.type = "update"
        /\ \/ info = NoInfo /\ ToSend(info)
           \/ info # NoInfo /\ info.win # worker.win /\ Goto("delete", "resend", info.id)
           \/ info.win = worker.win /\ info.text = worker.text /\ Stop
           \/ info.win = worker.win /\ worker.text = Think /\ Goto("delete", "resend", info.id)
           \/ info.win = worker.win /\ Goto("edit", "", info.id)
     \/ /\ worker.type = "content"
        /\ \/ info = NoInfo /\ Goto("post", "", 0)
           \/ info.win = worker.win /\ info.text = Think /\ Goto("post", "", 0)
           \/ info # NoInfo /\ info.win # worker.win /\ Goto("delete", "content", info.id)
           \/ info.win = worker.win /\ info.text # Think /\ Goto("edit", "content", info.id)
  /\ UNCHANGED <<route, routes, busy, timer, queue, poll, shown, info, uncertain, flood, excused, used>>

AfterDelete(tracked) ==
  CASE worker.then = "send" -> IF tracked = NoInfo THEN Goto("send", "", 0) ELSE Stop
    [] worker.then = "resend" -> ToSend(tracked)
    [] worker.then = "content" -> Goto("post", "", 0)
    [] worker.then = "check" -> Goto("check", "", 0)
    [] OTHER -> Stop

\* The message is gone: deleted now, or by an earlier request whose answer
\* was lost.
DeleteDone ==
  /\ worker.at = "delete"
  /\ shown' = shown \ {worker.msg} /\ excused' = excused \ {worker.msg} /\ info' = NoInfo
  /\ AfterDelete(NoInfo)
  /\ UNCHANGED <<route, routes, busy, timer, queue, poll, uncertain, flood, used>>

\* The tracking after a delete that failed for a reason that may pass.
\* Fault: every failure forgets the bubble.
TrackedAfterFailureNever == NoInfo
TrackedAfterFailure == info

\* The request fails, whether or not it had its effect.
DeleteFails ==
  /\ worker.at = "delete" /\ Fail
  /\ shown' \in {shown, shown \ {worker.msg}} /\ excused' = excused \cap shown'
  /\ info' = TrackedAfterFailure /\ AfterDelete(TrackedAfterFailure)
  /\ UNCHANGED <<route, routes, busy, timer, queue, poll, uncertain, flood>>

\* A message that can no longer be deleted stays and is forgotten.
DeleteRefused ==
  /\ worker.at = "delete" /\ worker.msg \in shown /\ Fail
  /\ excused' = excused \cup {worker.msg} /\ info' = NoInfo /\ AfterDelete(NoInfo)
  /\ UNCHANGED <<route, routes, busy, timer, queue, poll, shown, uncertain, flood>>

\* An update tracks the message it edited, even when a handler dropped the
\* tracking meanwhile; a conversion makes the bubble content.
EditDone ==
  /\ worker.at = "edit" /\ worker.msg \in shown
  /\ excused' = excused \ {worker.msg}
  /\ IF worker.then = "content"
     THEN shown' = shown \ {worker.msg} /\ info' = NoInfo /\ Goto("after", "", 0)
     ELSE /\ info' = [id |-> worker.msg, win |-> worker.win, text |-> worker.text]
          /\ Stop /\ UNCHANGED shown
  /\ UNCHANGED <<route, routes, busy, timer, queue, poll, uncertain, flood, used>>
EditFails ==
  /\ worker.at = "edit"
  /\ IF worker.msg \in shown THEN Fail ELSE UNCHANGED used
  /\ IF worker.then = "content" THEN Goto("delete", "content", worker.msg) ELSE ToSend(info)
  /\ UNCHANGED <<route, routes, busy, timer, queue, poll, shown, info, uncertain, flood, excused>>

\* The send reaches the chat; its answer follows.
NewId == CHOOSE i \in 1..Cardinality(shown) + 1: i \notin shown
Lands ==
  /\ worker.at = "send"
  /\ shown' = shown \cup {NewId} /\ Goto("sent", "", NewId)
  /\ UNCHANGED <<route, routes, busy, timer, queue, poll, info, uncertain, flood, excused, used>>
SendDone ==
  /\ worker.at = "sent" /\ Stop
  /\ info' = [id |-> worker.msg, win |-> worker.win, text |-> worker.text]
  /\ uncertain' = 0
  /\ UNCHANGED <<route, routes, busy, timer, queue, poll, shown, flood, excused, used>>
\* No answer: the bubble may be there, and no other is sent for this window
\* until a new turn begins.
SendUncertain ==
  /\ worker.at \in {"send", "sent"} /\ Fail /\ Stop
  /\ uncertain' = worker.win
  /\ excused' = IF worker.at = "sent" THEN excused \cup {worker.msg} ELSE excused
  /\ UNCHANGED <<route, routes, busy, timer, queue, poll, shown, info, flood>>

\* The content.  Afterwards the working bubble above it goes and, when
\* nothing else waits, a new one is sent below it if the agent is working.
Post ==
  /\ worker.at = "post" /\ Goto("after", "", 0)
  /\ UNCHANGED <<route, routes, busy, timer, queue, poll, shown, info, uncertain, flood, excused, used>>
PostFails ==
  /\ worker.at = "post" /\ Fail /\ Stop
  /\ UNCHANGED <<route, routes, busy, timer, queue, poll, shown, info, uncertain, flood, excused>>
AfterContent ==
  /\ worker.at = "after"
  /\ IF info.win = worker.win /\ info.text = Think THEN Goto("delete", "check", info.id)
     ELSE Goto("check", "", 0)
  /\ UNCHANGED <<route, routes, busy, timer, queue, poll, shown, info, uncertain, flood, excused, used>>
Check ==
  /\ worker.at = "check"
  /\ \/ queue # <<>> /\ Stop /\ UNCHANGED timer
     \/ /\ queue = <<>> /\ timer' = TimerAfter(worker.win, worker.win \in busy)
        /\ \E text \in StatusTexts(worker.win, worker.win \in busy):
             IF text # "" /\ uncertain # worker.win
             THEN worker' = [worker EXCEPT !.at = IF info = NoInfo THEN "send" ELSE "delete",
                               !.then = "send", !.text = text, !.msg = info.id]
             ELSE IF text # "" \/ info = NoInfo THEN Stop ELSE Goto("delete", "", info.id)
  /\ UNCHANGED <<route, routes, busy, queue, poll, shown, info, uncertain, flood, excused, used>>

\* RetryAfter: the task is dropped or, for content, queued again; the queue
\* pauses, for a status only when the wait is long.
Flooded ==
  /\ worker.at \in {"delete", "edit", "send", "post"} /\ Fail /\ Stop
  /\ IF worker.type = "content"
     THEN flood' = TRUE /\ queue' = Append(queue, Task("content", worker.win, ""))
     ELSE flood' \in BOOLEAN /\ UNCHANGED queue
  /\ UNCHANGED <<route, routes, busy, timer, poll, shown, info, uncertain, excused>>

\* The process dies and starts again: the saved tracking of a working bubble
\* brings back the timer of its last save (_load_status_msg_info), which may
\* have been stopped or started since; everything else in memory is gone.
Crash ==
  /\ Fail /\ Stop
  /\ queue' = <<>> /\ poll' = NoPoll /\ uncertain' = 0 /\ flood' = FALSE
  /\ excused' = IF worker.at = "sent" THEN excused \cup {worker.msg} ELSE excused
  /\ \E saved \in {"off", "new", "due"}:
       timer' = [w \in BoundWindows |-> IF info.win = w /\ info.text = Think THEN saved ELSE "off"]
  /\ UNCHANGED <<route, routes, busy, shown, info>>

------------------------------------------------------------------------------
Poll == Capture \/ Report
Worker ==
  \/ Take \/ StartTask \/ DeleteDone \/ EditDone \/ Lands \/ SendDone \/ Post \/ AfterContent \/ Check
  \/ EditFails
Faults == DeleteFails \/ DeleteRefused \/ SendUncertain \/ PostFails \/ Flooded \/ Crash
Handlers == Bind \/ Typed \/ StartRun \/ AgentWrites \/ AgentDone \/ Unbind
Next == Poll \/ Worker \/ Faults \/ Handlers \/ TimerDue \/ FloodEnds
Fairness == WF_vars(Poll) /\ WF_vars(Worker) /\ WF_vars(TimerDue) /\ WF_vars(FloodEnds)
Spec == Init /\ [][Next]_vars /\ Fairness

------------------------------------------------------------------------------
(* Properties.                                                             *)

\* Every bubble the chat shows is the tracked one, one whose send is being
\* answered, or one that the bot gave up: an unbound topic's, one whose send
\* had no answer, one that Telegram refuses to delete.
NoStray ==
  \A b \in shown \ excused: b = info.id \/ (worker.at = "sent" /\ b = worker.msg)

\* Once a topic stays bound to a window whose agent stays idle, it stops
\* showing a working status, through failed requests, floods and crashes.
BubbleEnds ==
  <>[](route # 0 /\ busy = {}) => <>[](info.text # Think)
=============================================================================
