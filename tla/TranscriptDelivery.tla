------------------------- MODULE TranscriptDelivery -------------------------
(***************************************************************************)
(* From an agent's transcript to the topics: the session monitor reads new *)
(* lines, hands their entries one by one to handle_new_message, which      *)
(* queues them for each recipient and waits; a worker per topic sends      *)
(* them.  What was handed on is remembered twice: as the monitor's offset  *)
(* and as an offset per recipient.  One session is modelled, with all its  *)
(* recipients; a step is what a task does between two awaits.              *)
(***************************************************************************)
EXTENDS Naturals, Sequences, FiniteSets

CONSTANTS
  Topics,        \* the topics whose windows run the session
  Transcript,    \* what the agent will write: entries with their line and kind
  RetryLimit,    \* CONTENT_TASK_RETRY_LIMIT
  RefusalLimit,  \* _PERMANENT_DELIVERY_FAILURE_THRESHOLD
  GroupLimit,    \* _DISPATCH_GROUP_MAX_MESSAGES
  MaxFaults,     \* bound: failures, restarts and rebinds of a behaviour
  MaxNotices,    \* bound: interruption notices of a behaviour
  Events         \* which disturbances the instance has

NoTopic == "no topic"

\* What handle_new_message does with an entry: queue it as content; only move
\* the offset (thinking, waits, tools in clean mode); ignore it (tool calls
\* switched off); send a usage-limit notice; show the agent's question.
Kinds == {"content", "quiet", "hidden", "limit", "ask"}

ASSUME TranscriptAssumption ==
  /\ NoTopic \notin Topics
  /\ Transcript \in Seq([line: Nat \ {0}, kind: Kinds])
  /\ \A i, j \in DOMAIN Transcript: i < j => Transcript[i].line <= Transcript[j].line
  /\ {RetryLimit, RefusalLimit, GroupLimit, MaxFaults, MaxNotices} \subseteq Nat
  /\ RefusalLimit > 0

VARIABLES
  written,   \* complete lines in the transcript file
  tracked,   \* MonitorState: the session's last_byte_offset
  mon,       \* the monitor task, with the group it dispatches
  uoff,      \* user_window_offsets of each recipient's present window
  queue,     \* _message_queues
  worker,    \* _queue_workers and _active_queue_tasks
  flood,     \* _flood_until lies in the future
  refused,   \* _permanent_delivery_failures: the count of each topic
  blocked,   \* _permanent_delivery_blocks of the session
  backoff,   \* the session's _dispatch_retry_after lies in the future
  route,     \* window and route generation of each topic
  stopping,  \* _stop_runtime has stopped the monitor and drains the queues
  shown,     \* history: the entries Telegram displayed, in order
  notices,   \* history: interruption notices queued so far
  faults     \* history: disturbances so far

vars == <<written, tracked, mon, uoff, queue, worker, flood, refused, blocked,
          backoff, route, stopping, shown, notices, faults>>
monVars == <<tracked, mon, uoff, blocked, backoff>>
sendVars == <<queue, worker, flood, refused, shown>>

Ids == DOMAIN Transcript
Line(i) == Transcript[i].line
Kind(i) == Transcript[i].kind
LastLine == IF Transcript = <<>> THEN 0 ELSE Line(Len(Transcript))
\* source_offset: a usage-limit notice is found outside the parser and has none.
Offset(i) == IF Kind(i) = "limit" THEN 0 ELSE Line(i)
Lesser(a, b) == IF a < b THEN a ELSE b

\* A MessageTask: what it carries, its delivery_future, its route identity.
Futures == {"none", "live", "dead"}
Task(ids, fut, gen) == [ids |-> ids, fut |-> fut, gen |-> gen, retry |-> 0]
Tasks == [ids: Seq(Ids), fut: Futures, gen: Nat, retry: 0..RetryLimit]

Idle == [pc |-> "sleep", batch |-> {}, done |-> 0, todo |-> {}, failed |-> FALSE,
         to |-> 0, at |-> NoTopic, answer |-> "none", gen |-> 0]
Resting == [pc |-> "idle", task |-> Task(<<>>, "none", 0)]

Init ==
  /\ written = 0 /\ tracked = 0 /\ mon = Idle
  /\ uoff = [t \in Topics |-> 0]
  /\ queue = [t \in Topics |-> <<>>]
  /\ worker = [t \in Topics |-> Resting]
  /\ flood = FALSE
  /\ refused = [t \in Topics |-> 0]
  /\ blocked = NoTopic /\ backoff = FALSE
  /\ route = [t \in Topics |-> 1]
  /\ stopping = FALSE
  /\ shown = [t \in Topics |-> <<>>]
  /\ notices = 0 /\ faults = 0

\* A disturbance the instance allows.
Fault(e) == e \in Events /\ faults < MaxFaults /\ faults' = faults + 1
Quarantined(t) == refused[t] >= RefusalLimit

(***************************************************************************)
(* The monitor: one poll, and the dispatch of the group it found.          *)
(***************************************************************************)

\* The agent completes a line.  A line that is only partly written is not
\* taken by the reader and shows up when it is complete.
Write ==
  /\ written < LastLine
  /\ written' = written + 1
  /\ UNCHANGED <<monVars, sendVars, route, stopping, notices, faults>>

\* Recipients that have no offset yet do not hold the resume offset back.
Recorded == {uoff[t] : t \in Topics} \ {0}
ResumeOffset ==
  IF Recorded = {} THEN 0 ELSE CHOOSE o \in Recorded: \A p \in Recorded: o <= p
FastForwarded == IF ResumeOffset > tracked THEN ResumeOffset ELSE tracked
\* The entries of the lines between two offsets.
Batch(from, to) == {i \in Ids: from < Line(i) /\ Line(i) <= to}

\* One round of the loop up to the dispatch.  Nothing new commits the offset at once.
Poll ==
  /\ mon.pc = "sleep" /\ ~stopping
  /\ ~backoff /\ blocked = NoTopic
  /\ written > FastForwarded
  /\ LET batch == Batch(FastForwarded, written)
     IN  IF batch = {}
         THEN tracked' = written /\ UNCHANGED mon
         ELSE /\ mon' = [Idle EXCEPT !.pc = "next", !.batch = batch, !.to = written]
              /\ UNCHANGED tracked
  /\ UNCHANGED <<written, uoff, blocked, backoff, sendVars, route, stopping, notices, faults>>

\* Usage-limit notices are put in front of the parsed entries of a group.
Before(i, j) ==
  \/ Kind(i) = "limit" /\ Kind(j) # "limit"
  \/ (Kind(i) = "limit") = (Kind(j) = "limit") /\ i <= j
Current == CHOOSE i \in mon.batch: \A j \in mon.batch: Before(i, j)

\* _dispatch_group takes the next message; handle_new_message looks up its recipients.
NextMessage ==
  /\ mon.pc = "next"
  /\ mon' = [mon EXCEPT !.pc = "call", !.todo = Topics]
  /\ UNCHANGED <<written, tracked, uoff, blocked, backoff, sendVars, route, stopping, notices, faults>>

AlreadyDelivered(t, i) == Offset(i) > 0 /\ uoff[t] >= Offset(i)
Marked(t, i) == IF Offset(i) > 0 THEN [uoff EXCEPT ![t] = Offset(i)] ELSE uoff
Done(t) == [mon EXCEPT !.pc = "call", !.todo = @ \ {t}, !.at = NoTopic, !.answer = "none"]
\* An exception leaves the group: its result is looked at when every group has ended.
Failed(at) == [Idle EXCEPT !.pc = "settle", !.failed = TRUE, !.at = at]

\* One recipient, when the entry asks for nothing that has to be waited for.
Pass(t) ==
  /\ mon.pc = "call" /\ t \in mon.todo
  /\ \/ /\ AlreadyDelivered(t, Current) \/ Kind(Current) \in {"hidden", "limit"}
        /\ UNCHANGED uoff
     \/ /\ ~AlreadyDelivered(t, Current) /\ Kind(Current) = "quiet"
        /\ uoff' = Marked(t, Current)
  /\ mon' = Done(t)
  /\ UNCHANGED <<written, tracked, blocked, backoff, sendVars, route, stopping, notices, faults>>

\* A question waits until the topic's queue is empty (queue.join).
AwaitQueue(t) ==
  /\ mon.pc = "call" /\ t \in mon.todo
  /\ ~AlreadyDelivered(t, Current) /\ Kind(Current) = "ask"
  /\ mon' = [mon EXCEPT !.pc = "join", !.at = t, !.gen = route[t]]
  /\ UNCHANGED <<written, tracked, uoff, blocked, backoff, sendVars, route, stopping, notices, faults>>

Enqueue(t) ==
  IF Quarantined(t)
  THEN mon' = Failed(t) /\ UNCHANGED queue
  ELSE /\ queue' = [queue EXCEPT ![t] = Append(@, Task(<<Current>>, "live", route[t]))]
       /\ mon' = [mon EXCEPT !.pc = "wait", !.at = t, !.gen = route[t]]

\* enqueue_content_message with wait_until_sent.
Offer(t) ==
  /\ mon.pc = "call" /\ t \in mon.todo
  /\ ~AlreadyDelivered(t, Current) /\ Kind(Current) = "content"
  /\ Enqueue(t)
  /\ UNCHANGED <<written, tracked, uoff, blocked, backoff, worker, flood, refused, shown,
                 route, stopping, notices, faults>>

\* The offset belongs to the window that was looked up before the await.
MarkedFor(t, i) == IF mon.gen = route[t] THEN Marked(t, i) ELSE uoff

\* The queue is empty: the question is shown with its buttons, or, when the
\* pane does not show it, sent like any other content.
Ask(t) ==
  /\ mon.pc = "join" /\ mon.at = t
  /\ queue[t] = <<>> /\ worker[t].pc = "idle"
  /\ \/ /\ shown' = [shown EXCEPT ![t] = Append(@, Current)]
        /\ uoff' = MarkedFor(t, Current)
        /\ mon' = Done(t)
        /\ UNCHANGED queue
     \/ Enqueue(t) /\ UNCHANGED <<shown, uoff>>
  /\ UNCHANGED <<written, tracked, blocked, backoff, worker, flood, refused, route,
                 stopping, notices, faults>>

\* Fault: an undelivered message moves the offset as well.
AnsweredUnread(t) ==
  /\ mon.pc = "wait" /\ mon.at = t /\ mon.answer # "none"
  /\ IF mon.answer = "refused" THEN mon' = Failed(t) /\ UNCHANGED uoff
     ELSE mon' = Done(t) /\ uoff' = MarkedFor(t, Current)
  /\ UNCHANGED <<written, tracked, blocked, backoff, sendVars, route, stopping, notices, faults>>

\* The delivery_future is resolved.
Answered(t) ==
  /\ mon.pc = "wait" /\ mon.at = t /\ mon.answer # "none"
  /\ CASE mon.answer = "sent"    -> mon' = Done(t) /\ uoff' = MarkedFor(t, Current)
       [] mon.answer = "failed"  -> mon' = [Done(t) EXCEPT !.failed = TRUE] /\ UNCHANGED uoff
       [] mon.answer = "refused" -> mon' = Failed(t) /\ UNCHANGED uoff
  /\ UNCHANGED <<written, tracked, blocked, backoff, sendVars, route, stopping, notices, faults>>

\* commit_delivered_message_offset
CommittedTo(i) == IF Offset(i) > 0 THEN Lesser(Offset(i), mon.to) ELSE tracked

\* Fault: the group goes on after a message that failed.
MessageDoneAnyway ==
  /\ mon.pc = "call" /\ mon.todo = {}
  /\ LET rest == mon.batch \ {Current}
     IN  mon' = IF rest = {} THEN [Idle EXCEPT !.pc = "settle", !.failed = mon.failed]
                ELSE [mon EXCEPT !.pc = "next", !.batch = rest, !.done = @ + 1]
  /\ UNCHANGED <<written, tracked, uoff, blocked, backoff, sendVars, route, stopping, notices, faults>>

\* Every recipient had the message.  The group goes on, or pauses at its limit or
\* because it is slow; the rest is read again by the next poll.
MessageDone ==
  /\ mon.pc = "call" /\ mon.todo = {}
  /\ LET rest == mon.batch \ {Current}
     IN  \/ /\ mon.failed
            /\ mon' = Failed(NoTopic) /\ UNCHANGED <<tracked, faults>>
         \/ /\ ~mon.failed /\ rest = {}
            /\ mon' = [Idle EXCEPT !.pc = "settle", !.to = mon.to]
            /\ tracked' = CommittedTo(Current) /\ UNCHANGED faults
         \/ /\ ~mon.failed /\ rest # {} /\ mon.done + 1 < GroupLimit
            /\ mon' = [mon EXCEPT !.pc = "next", !.batch = rest, !.done = @ + 1]
            /\ tracked' = CommittedTo(Current) /\ UNCHANGED faults
         \/ /\ ~mon.failed /\ rest # {}
            /\ \/ mon.done + 1 = GroupLimit /\ UNCHANGED faults
               \/ mon.done + 1 < GroupLimit /\ Fault("slow")
            /\ mon' = [Idle EXCEPT !.pc = "settle"]
            /\ tracked' = CommittedTo(Current)
  /\ UNCHANGED <<written, uoff, blocked, backoff, sendVars, route, stopping, notices>>

\* All groups of the round have ended: failures back off, a refused topic
\* blocks the session, a complete group commits its deferred offset.
Settle ==
  /\ mon.pc = "settle"
  /\ blocked' = IF mon.failed THEN mon.at ELSE NoTopic
  /\ backoff' = (mon.failed /\ mon.at = NoTopic)
  /\ tracked' = IF mon.to > tracked THEN mon.to ELSE tracked
  /\ mon' = Idle
  /\ UNCHANGED <<written, uoff, sendVars, route, stopping, notices, faults>>

\* Nobody waits for the future any more; the task that has it stays.
Orphaned(task) == IF task.fut = "live" THEN [task EXCEPT !.fut = "dead"] ELSE task
OrphanAll ==
  /\ queue' = [t \in Topics |-> [k \in DOMAIN queue[t] |-> Orphaned(queue[t][k])]]
  /\ worker' = [t \in Topics |-> [worker[t] EXCEPT !.task = Orphaned(@)]]

\* wait_for cancels a group that takes longer than _DISPATCH_GROUP_TIMEOUT_SECONDS.
DispatchTimeout ==
  /\ Fault("timeout")
  /\ mon.pc \in {"join", "wait"}
  /\ mon' = Failed(NoTopic)
  /\ OrphanAll
  /\ UNCHANGED <<written, tracked, uoff, blocked, backoff, flood, refused, shown, route,
                 stopping, notices>>

\* The retry of a failed session is due.
BackoffDue ==
  /\ backoff
  /\ backoff' = FALSE
  /\ UNCHANGED <<written, tracked, mon, uoff, blocked, sendVars, route, stopping, notices, faults>>

(***************************************************************************)
(* The worker of a topic.                                                  *)
(***************************************************************************)

\* Fault: the future of the absorbed task is not looked at.
CanMergeAwaited(base, task) == task.gen = base.gen
\* Content without a future of the same route is merged into the task before it.
\* Only notices have none, and they carry no entry: the merged task carries what
\* its first one did.
CanMerge(base, task) == task.fut = "none" /\ task.gen = base.gen
Mergeable(base, rest) ==
  CHOOSE n \in 0..Len(rest):
    /\ \A k \in 1..n: CanMerge(base, rest[k])
    /\ n = Len(rest) \/ ~CanMerge(base, rest[n + 1])

Resolved(t, task, result) ==
  IF task.fut = "live" THEN [mon EXCEPT !.answer = result] ELSE mon

\* The worker is done with a task and resolves its future.
Finish(t, task, result) ==
  /\ worker' = [worker EXCEPT ![t] = Resting]
  /\ mon' = Resolved(t, task, result)

\* Fault: a task that is not sent any more leaves its future open.
BeginSilently(t, task, rest) ==
  LET n == Mergeable(task, rest)
  IN  /\ queue' = [queue EXCEPT ![t] = SubSeq(rest, n + 1, Len(rest))]
      /\ worker' = [worker EXCEPT ![t] =
           IF task.gen = route[t] THEN [pc |-> "send", task |-> task] ELSE Resting]
      /\ UNCHANGED mon

\* Merge what follows and send it, unless the topic has moved on since.
Begin(t, task, rest) ==
  LET n == Mergeable(task, rest)
  IN  /\ queue' = [queue EXCEPT ![t] = SubSeq(rest, n + 1, Len(rest))]
      /\ IF task.gen = route[t]
         THEN /\ worker' = [worker EXCEPT ![t] = [pc |-> "send", task |-> task]]
              /\ UNCHANGED mon
         ELSE Finish(t, task, "failed")

\* queue.get, then the quarantine, then the flood wait.
Take(t) ==
  /\ worker[t].pc = "idle" /\ queue[t] # <<>>
  /\ LET task == Head(queue[t])
         rest == Tail(queue[t])
     IN  CASE Quarantined(t) -> Finish(t, task, "refused") /\ queue' = [queue EXCEPT ![t] = rest]
           [] ~Quarantined(t) /\ flood ->
                /\ worker' = [worker EXCEPT ![t] = [pc |-> "flood", task |-> task]]
                /\ queue' = [queue EXCEPT ![t] = rest]
                /\ UNCHANGED mon
           [] OTHER -> Begin(t, task, rest)
  /\ UNCHANGED <<written, tracked, uoff, blocked, backoff, flood, refused, shown, route,
                 stopping, notices, faults>>

\* The worker has slept as long as the ban lasted when it took the task.
FloodOver(t) ==
  /\ worker[t].pc = "flood"
  /\ flood' = FALSE
  /\ Begin(t, worker[t].task, queue[t])
  /\ UNCHANGED <<written, tracked, uoff, blocked, backoff, refused, shown, route, stopping,
                 notices, faults>>

\* Telegram displays the content.  When the answer to the formatted message is
\* lost it displays the plain one as well.
Display(t) ==
  /\ worker[t].pc = "send"
  /\ LET ids == worker[t].task.ids
     IN  \/ shown' = [shown EXCEPT ![t] = @ \o ids] /\ UNCHANGED faults
         \/ Fault("send") /\ shown' = [shown EXCEPT ![t] = @ \o ids \o ids]
  /\ worker' = [worker EXCEPT ![t].pc = "after"]
  /\ UNCHANGED <<written, monVars, queue, flood, refused, route, stopping, notices>>

\* The images and the status bubble that follow the content went through.
Succeed(t) ==
  /\ worker[t].pc = "after"
  /\ refused' = [refused EXCEPT ![t] = 0]
  /\ Finish(t, worker[t].task, "sent")
  /\ UNCHANGED <<written, tracked, uoff, blocked, backoff, queue, flood, shown, route, stopping,
                 notices, faults>>

Sending(t) == worker[t].pc \in {"send", "after"}

\* The send, or what follows the content, fails.
SendFails(t) ==
  /\ Sending(t) /\ Fault("send")
  /\ Finish(t, worker[t].task, "failed")
  /\ UNCHANGED <<written, tracked, uoff, blocked, backoff, queue, flood, refused, shown, route,
                 stopping, notices>>

\* Fault: the future of a task that will be tried again is resolved.
SendLimitedResolved(t) ==
  /\ Sending(t) /\ Fault("flood")
  /\ queue' = [queue EXCEPT ![t] = Append(@, [Orphaned(worker[t].task) EXCEPT !.retry = Lesser(@ + 1, RetryLimit)])]
  /\ Finish(t, worker[t].task, "failed")
  /\ flood' = TRUE
  /\ UNCHANGED <<written, tracked, uoff, blocked, backoff, refused, shown, route, stopping, notices>>

\* RetryAfter: the task goes to the end of its queue until its retries are used up.
SendLimited(t) ==
  /\ Sending(t) /\ Fault("flood")
  /\ LET task == worker[t].task
     IN  IF task.retry < RetryLimit
         THEN /\ queue' = [queue EXCEPT ![t] = Append(@, [task EXCEPT !.retry = @ + 1])]
              /\ worker' = [worker EXCEPT ![t] = Resting]
              /\ flood' = TRUE
              /\ UNCHANGED mon
         ELSE /\ Finish(t, task, "failed")
              /\ flood' \in {flood, TRUE}
              /\ UNCHANGED queue
  /\ UNCHANGED <<written, tracked, uoff, blocked, backoff, refused, shown, route, stopping, notices>>

\* Telegram says that the topic is gone.  Reaching the threshold warns the user first.
SendRefused(t) ==
  /\ Sending(t) /\ Fault("refusal")
  /\ refused' = [refused EXCEPT ![t] = @ + 1]
  /\ CASE refused[t] + 1 < RefusalLimit -> Finish(t, worker[t].task, "failed")
       [] refused[t] + 1 = RefusalLimit ->
            worker' = [worker EXCEPT ![t].pc = "warn"] /\ UNCHANGED mon
       [] OTHER -> Finish(t, worker[t].task, "refused")
  /\ UNCHANGED <<written, tracked, uoff, blocked, backoff, queue, flood, shown, route, stopping,
                 notices>>

Warned(t) ==
  /\ worker[t].pc = "warn"
  /\ Finish(t, worker[t].task, "refused")
  /\ UNCHANGED <<written, tracked, uoff, blocked, backoff, queue, flood, refused, shown, route,
                 stopping, notices, faults>>

(***************************************************************************)
(* The rest of the bot.                                                    *)
(***************************************************************************)

FloodEnds ==
  /\ flood
  /\ flood' = FALSE
  /\ UNCHANGED <<written, monVars, queue, worker, refused, shown, route, stopping, notices, faults>>

\* A notice of the status poller: content nobody waits for.
Notice(t) ==
  /\ notices < MaxNotices /\ ~stopping /\ ~Quarantined(t)
  /\ notices' = notices + 1
  /\ queue' = [queue EXCEPT ![t] = Append(@, Task(<<>>, "none", route[t]))]
  /\ UNCHANGED <<written, monVars, worker, flood, refused, shown, route, stopping, faults>>

\* A message from the topic proves its route: inbound_route_health_handler.
InboundProof(t) ==
  /\ refused[t] > 0 /\ ~stopping
  /\ refused' = [refused EXCEPT ![t] = 0]
  /\ IF blocked = t
     THEN blocked' = NoTopic /\ backoff' = FALSE
     ELSE UNCHANGED <<blocked, backoff>>
  /\ UNCHANGED <<written, tracked, mon, uoff, queue, worker, flood, shown, route, stopping,
                 notices, faults>>

\* The topic gets another window, which resumes the same session.
Rebind(t) ==
  /\ Fault("rebind") /\ ~stopping
  /\ route' = [route EXCEPT ![t] = @ + 1]
  /\ uoff' = [uoff EXCEPT ![t] = 0]
  /\ UNCHANGED <<written, tracked, mon, queue, worker, flood, refused, blocked, backoff, shown,
                 stopping, notices>>

\* _stop_runtime ends the monitor, which forgets the offset of its group, and
\* then waits for the queues, for at most MESSAGE_QUEUE_SHUTDOWN_GRACE_SECONDS.
Stop ==
  /\ Fault("stop") /\ ~stopping
  /\ stopping' = TRUE
  /\ mon' = Idle
  /\ OrphanAll
  /\ UNCHANGED <<written, tracked, uoff, blocked, backoff, flood, refused, shown, route, notices>>

\* What is in memory is lost; offsets, routes and refusals are on disk.
Fresh ==
  /\ mon' = Idle
  /\ queue' = [t \in Topics |-> <<>>]
  /\ worker' = [t \in Topics |-> Resting]
  /\ flood' = FALSE /\ blocked' = NoTopic /\ backoff' = FALSE
  /\ stopping' = FALSE

Drained == \A t \in Topics: queue[t] = <<>> /\ worker[t].pc = "idle"

\* The process ends: a crash, or the end of an orderly stop.
Restart ==
  /\ \/ ~stopping /\ Fault("crash")
     \/ stopping /\ (Drained \/ "grace" \in Events) /\ UNCHANGED faults
  /\ Fresh
  /\ UNCHANGED <<written, tracked, uoff, refused, shown, route, notices>>

Monitor ==
  \/ Poll \/ NextMessage \/ MessageDone \/ Settle \/ BackoffDue
  \/ \E t \in Topics: Pass(t) \/ AwaitQueue(t) \/ Offer(t) \/ Ask(t) \/ Answered(t)

Worker(t) == Take(t) \/ FloodOver(t) \/ Display(t) \/ Succeed(t) \/ Warned(t)

Next ==
  \/ Write \/ Monitor \/ FloodEnds \/ DispatchTimeout \/ Stop \/ Restart
  \/ \E t \in Topics: \/ Worker(t) \/ SendFails(t) \/ SendLimited(t) \/ SendRefused(t)
                      \/ Notice(t) \/ InboundProof(t) \/ Rebind(t)

Spec == Init /\ [][Next]_vars

\* The event loop runs every task that can run; the process is restarted.
Fairness ==
  /\ WF_vars(Monitor)
  /\ \A t \in Topics: WF_vars(Worker(t))
  /\ WF_vars(Restart /\ stopping)

LiveSpec == Spec /\ Fairness

(***************************************************************************)
(* Properties                                                              *)
(***************************************************************************)

TypeOK ==
  /\ {written, tracked} \subseteq 0..LastLine
  /\ mon.pc \in {"sleep", "next", "call", "join", "wait", "settle"}
  /\ mon.batch \subseteq Ids /\ mon.todo \subseteq Topics
  /\ mon.at \in Topics \cup {NoTopic}
  /\ mon.answer \in {"none", "sent", "failed", "refused"}
  /\ uoff \in [Topics -> 0..LastLine]
  /\ \A t \in Topics:
        /\ queue[t] \in Seq(Tasks)
        /\ worker[t].pc \in {"idle", "flood", "send", "after", "warn"}
        /\ worker[t].task \in Tasks
        /\ shown[t] \in Seq(Ids)
  /\ refused \in [Topics -> Nat] /\ route \in [Topics -> Nat]
  /\ blocked \in Topics \cup {NoTopic}
  /\ {flood, backoff, stopping} \subseteq BOOLEAN
  /\ notices \in 0..MaxNotices /\ faults \in 0..MaxFaults

Displays(t, i) == {k \in DOMAIN shown[t]: shown[t][k] = i}
Displayed(t, i) == Displays(t, i) # {}
Contents == {i \in Ids: Kind(i) \in {"content", "ask"}}

\* What the session's offset has passed has been displayed in every topic, and what
\* a recipient's offset has passed has been displayed there: neither a failed, a
\* refused or a timed-out send nor a restart makes the bot skip output.
NothingLost ==
  \A t \in Topics, i \in Contents:
    Line(i) <= tracked \/ Line(i) <= uoff[t] => Displayed(t, i)

\* A message is passed over as received only if the topic has displayed it.
SkippedWasReceived ==
  \A t \in mon.todo:
    mon.pc = "call" /\ Kind(Current) \in {"content", "ask"} /\ AlreadyDelivered(t, Current)
      => Displayed(t, Current)

\* Output appears in the order of the transcript, whatever is sent again.
InOrder ==
  \A t \in Topics, i, j \in Contents:
    i < j /\ Displayed(t, j) =>
      \E k \in Displays(t, i): \A l \in Displays(t, j): k < l

\* While the monitor waits for a delivery, exactly one task can still answer it
\* and it is in the topic's queue or with its worker: the future is never lost in
\* a merge, a requeue or a timeout.
LiveIn(t) == {k \in DOMAIN queue[t]: queue[t][k].fut = "live"}
LiveTasks(t) == Cardinality(LiveIn(t)) + IF worker[t].task.fut = "live" THEN 1 ELSE 0
AwaitedIsQueued ==
  \A t \in Topics:
    LiveTasks(t) = IF mon.pc = "wait" /\ mon.at = t /\ mon.answer = "none" THEN 1 ELSE 0

\* Output is repeated only when something went wrong, and in each topic once each time.
RepeatsOf(t) ==
  {k \in DOMAIN shown[t]: \E l \in DOMAIN shown[t]: l < k /\ shown[t][l] = shown[t][k]}
OnlyFaultsRepeat == \A t \in Topics: Cardinality(RepeatsOf(t)) <= faults

\* Every line that is written is displayed in the end, unless Telegram refuses the topic.
EveryLineArrives ==
  \A t \in Topics, i \in Contents:
    written >= Line(i) ~> Displayed(t, i) \/ Quarantined(t) \/ blocked # NoTopic

\* A session is blocked because of a topic that is in quarantine, so that a message
\* from that topic ends both: "Reopen and message that topic to resume."
BlockedIsQuarantined == blocked # NoTopic => Quarantined(blocked)
=============================================================================
