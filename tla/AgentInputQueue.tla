--------------------------- MODULE AgentInputQueue ---------------------------
(***************************************************************************)
(* The path of a prompt from a Telegram topic to the agent (bot.py): the   *)
(* durable spool (table agent_input_queue), the in-memory queues, the      *)
(* drain task of a topic, the handler that holds the topic's lock, and the *)
(* confirmation task of each submitted prompt.                             *)
(*                                                                         *)
(* The program is one asyncio loop: a step of this model is what a task    *)
(* does from one await to the next, and a pc names the await it is at.     *)
(* A prompt is its row id.  The keys of the code are (user, thread, window)*)
(* triples; a route stands for (user, thread).                             *)
(***************************************************************************)
EXTENDS TurnAdmission, Sequences

CONSTANTS Routes,      \* Telegram topics, (user, thread) pairs
          None,        \* no window, no topic
          MaxPrompts,  \* bound: prompts accepted in a behaviour
          QueueLimit,  \* config.agent_input_queue_max_size
          Events       \* disturbances the environment may cause, of EventKinds

EventKinds == {"native", "discard", "rebind", "restart", "stop", "expiry",
               "agent_failure", "send_error", "refresh_error", "store",
               "slow_capture", "hibernate"}

ASSUME AgentInputQueueAssumption ==
    /\ MaxPrompts \in Nat
    /\ QueueLimit \in Nat \ {0}
    /\ None \notin Windows \cup Routes
    /\ Events \subseteq EventKinds

VARIABLES rows,     \* the spool: one row per prompt id
          nextId,   \* next AUTOINCREMENT id
          binding,  \* window each topic is bound to
          phase,    \* "up", "stopping" once the drains are cancelled, "down"
          queues,   \* _agent_input_queues
          drain,    \* the drain task of each topic
          sender,   \* the coroutine that holds the topic's lock
          confirm,  \* the confirmation task of each prompt
          adm,      \* turn_admission
          sends     \* history: times the text was handed to the agent

memory == <<queues, drain, sender, confirm, adm>>
vars == <<rows, nextId, binding, phase, memory, sends>>

Ids == 1..MaxPrompts
NoId == 0
Modes == {"turn", "steer", "queue"}

\* A prompt that was accepted has its target.
Row == {x \in [state : {"new", "queued", "submitted", "gone"},
                route : Routes \cup {None}, win : Windows \cup {None}, mode : Modes] :
            x.state # "new" => x.route \in Routes /\ x.win \in Windows}
NoRow == [state |-> "new", route |-> None, win |-> None, mode |-> "turn"]

DrainPc == {"none", "top", "capture", "lost", "refused", "baseline", "send",
            "refresh", "tail", "nbaseline", "nsend"}
SenderPc == {"idle", "capture", "baseline", "send", "nbaseline", "nsend", "discard"}

\* live: the task's reference is the deque of the dictionary; otherwise that
\* deque was taken out of it and own is what it holds.  told: the prompts of the
\* failure notice being sent.  A task knows its window, and once it has chosen a
\* prompt it holds one.
Drain == {d \in [pc : DrainPc, win : Windows \cup {None}, item : Ids \cup {NoId},
                 live : BOOLEAN, own : Seq(Ids), told : SUBSET Ids] :
            /\ d.pc # "none" => d.win \in Windows
            /\ d.pc \in {"baseline", "nbaseline", "send", "nsend", "refresh"} => d.item \in Ids}
Sender == {s \in [pc : SenderPc, win : Windows \cup {None}, item : Ids \cup {NoId}] :
            s.pc \notin {"idle", "discard"} => s.win \in Windows /\ s.item \in Ids}

NoDrain == [pc |-> "none", win |-> None, item |-> NoId,
            live |-> TRUE, own |-> <<>>, told |-> {}]
NewDrain(w) == [NoDrain EXCEPT !.pc = "top", !.win = w]
NoSender == [pc |-> "idle", win |-> None, item |-> NoId]

Init ==
    /\ rows = [p \in Ids |-> NoRow]
    /\ nextId = 1
    /\ binding \in [Routes -> Windows]
    /\ \A r, s \in Routes : binding[r] = binding[s] => r = s
    /\ phase = "up"
    /\ queues = [r \in Routes |-> [w \in Windows |-> <<>>]]
    /\ drain = [r \in Routes |-> NoDrain]
    /\ sender = [r \in Routes |-> NoSender]
    /\ confirm = [p \in Ids |-> "none"]
    /\ adm = EmptyController
    /\ sends = [p \in Ids |-> 0]

-------------------------------------------------------------------------------
(* The spool (durable_state.py).                                            *)

Stored(p) == rows[p].state \in {"queued", "submitted"}

TargetRows(r, w) == {p \in Ids : Stored(p) /\ rows[p].route = r /\ rows[p].win = w}
\* Fault: only the rows of the bound window are discarded.
RouteRowsOfBinding(r) == TargetRows(r, binding[r])
RouteRows(r) == {p \in Ids : Stored(p) /\ rows[p].route = r}

\* enqueue_agent_input refuses a target that has QueueLimit rows already, and
\* _queue_agent_input a deque of that length.
HasRoom(r, w) ==
    /\ Len(queues[r][w]) < QueueLimit
    /\ Cardinality(TargetRows(r, w)) < QueueLimit

Inserted(r, w, mode) ==
    [rows EXCEPT ![nextId] = [state |-> "queued", route |-> r, win |-> w, mode |-> mode]]

\* Fault: the compare-and-set also takes a submitted row.
MarkableAgain(p) == p \in Ids /\ rows[p].state \in {"queued", "submitted"}
\* mark_agent_input_submitted is a compare-and-set from "queued".
Markable(p) == p \in Ids /\ rows[p].state = "queued"
\* Fault: the text is sent without recording it.
MarkedNever(p) == rows
Marked(p) == [rows EXCEPT ![p].state = "submitted"]

\* Deleting a row that is not there does nothing.
Deleted(S) == [p \in Ids |-> IF p \in S /\ Stored(p)
                             THEN [rows[p] EXCEPT !.state = "gone"] ELSE rows[p]]

\* confirm_agent_input deletes a submitted row only.
Confirmed(p) == Deleted({q \in {p} : rows[q].state = "submitted"})

-------------------------------------------------------------------------------
(* What blocks a topic.  rws and cfm are the values of rows and confirm at  *)
(* the point of the step where the question is asked.                       *)

\* Only the exact target counts while it is the topic's binding; otherwise
\* every target of the topic does.  The native queue mode never blocks.
BlockedBy(p, rws, r, w) ==
    /\ rws[p].route = r
    /\ rws[p].win = w \/ binding[r] # w
    /\ rws[p].mode # "queue"

HasConfirmation(rws, cfm, r, w) ==
    \E p \in Ids : cfm[p] # "none" /\ BlockedBy(p, rws, r, w)
HasPersistedConfirmation(rws, r, w) ==
    \E p \in Ids : rws[p].state = "submitted" /\ BlockedBy(p, rws, r, w)
Blocked(rws, cfm, r, w) ==
    HasConfirmation(rws, cfm, r, w) \/ HasPersistedConfirmation(rws, r, w)

RouteHasQueue(r) == \E w \in Windows : queues[r][w] # <<>>
RouteHasDrain(r) == drain[r].pc # "none"
\* Fault: a prompt overtakes the queue of its topic.
MustQueueIfBlocked(r, w) == Blocked(rows, confirm, r, w)
MustQueue(r, w) == RouteHasQueue(r) \/ RouteHasDrain(r) \/ Blocked(rows, confirm, r, w)

-------------------------------------------------------------------------------
(* Starting tasks and leaving them.                                         *)

\* _ensure_agent_input_drain_task, on the drain record d of the topic.
Ensured(d, rws, cfm, r, w) ==
    IF Blocked(rws, cfm, r, w) \/ d.pc # "none" THEN d ELSE NewDrain(w)

EnsureDrain(rws, cfm, r, w) ==
    drain' = [drain EXCEPT ![r] = Ensured(@, rws, cfm, r, w)]

\* Fault: nobody watches the submitted prompt.
WatchedNever(p) == confirm
\* _ensure_agent_input_confirmation_task
Watched(p) == [confirm EXCEPT ![p] = IF @ = "none" THEN "probe" ELSE @]

\* Fault: the finally block starts no drain for what is still queued.
SuccessorsNever(rws, qs, cfm, r, w) == {NoDrain}

\* The finally block of _drain_agent_input_queue: the drains it can leave
\* behind.  The dictionary is searched in insertion order, which is not kept
\* here: any of its nonempty queues may be the first.
Successors(rws, qs, cfm, r, w) ==
    LET waiting == {v \in Windows : qs[r][v] # <<>>}
    IN  IF waiting = {} \/ HasConfirmation(rws, cfm, r, w) THEN {NoDrain}
        ELSE {Ensured(NoDrain, rws, cfm, r, v) : v \in waiting}
\* Fault: the window of a drain that ends is unprotected, whatever it left.
PendingAfterDrainNever(a, qs, r, w) == ClearPending(a, w)

PendingAfterDrain(a, qs, r, w) == IF qs[r][w] = <<>> THEN ClearPending(a, w) ELSE a

DrainExit(r, rws, qs, cfm, a) ==
    /\ rows' = rws
    /\ queues' = qs
    /\ confirm' = cfm
    /\ adm' = PendingAfterDrain(a, qs, r, drain[r].win)
    /\ \E d \in Successors(rws, qs, cfm, r, drain[r].win) :
          drain' = [drain EXCEPT ![r] = d]

\* The deque the drain works on, and the queues without its head or without
\* any of its prompts.
Deque(r) == IF drain[r].live THEN queues[r][drain[r].win] ELSE drain[r].own
\* Fault: popleft is forgotten.
PoppedNever(r) == queues
Popped(r) == IF drain[r].live THEN [queues EXCEPT ![r][drain[r].win] = Tail(@)]
             ELSE queues
Cleared(r) == IF drain[r].live THEN [queues EXCEPT ![r][drain[r].win] = <<>>]
              ELSE queues

DrainAgain(r) == drain' = [drain EXCEPT ![r] = NewDrain(drain[r].win)]

Drains(r, pc) == drain[r].pc = pc
Settled == UNCHANGED <<nextId, binding, phase, sender>>

-------------------------------------------------------------------------------
(* The drain task: _drain_agent_input_queue.                                *)

\* Top of the loop.  The deque is read from the dictionary again, and the pane
\* of the window the topic is bound to now is captured.
DrainLook(r) ==
    /\ Drains(r, "top") /\ queues[r][drain[r].win] # <<>>
    /\ drain' = [drain EXCEPT ![r].pc = "capture"]
    /\ UNCHANGED <<rows, queues, confirm, adm, sends>> /\ Settled

DrainEmpty(r) ==
    /\ Drains(r, "top") /\ queues[r][drain[r].win] = <<>>
    /\ DrainExit(r, rows, queues, confirm, adm)
    /\ UNCHANGED sends /\ Settled

\* _drop_expired_agent_input: the prompts at the head that waited too long.
DrainExpire(r) ==
    /\ "expiry" \in Events
    /\ Drains(r, "top")
    /\ \E n \in 1..Len(queues[r][drain[r].win]) :
          LET q == queues[r][drain[r].win]
          IN  /\ rows' = Deleted({q[i] : i \in 1..n})
              /\ queues' = [queues EXCEPT ![r][drain[r].win] = SubSeq(q, n + 1, Len(q))]
              /\ adm' = IF n = Len(q) THEN ClearPending(adm, drain[r].win) ELSE adm
    /\ UNCHANGED <<drain, confirm, sends>> /\ Settled

\* The window is missing, or the pane shows an authentication error: a failure
\* notice is sent first, then the queue and the spool of the target are cleared.
DrainLost(r) ==
    /\ "agent_failure" \in Events
    /\ Drains(r, "capture")
    /\ \E pc \in {"lost", "refused"} :
          drain' = [drain EXCEPT ![r].pc = pc,
                                 ![r].told = {Deque(r)[i] : i \in DOMAIN Deque(r)}]
    /\ UNCHANGED <<rows, queues, confirm, adm, sends>> /\ Settled

DrainDrop(r) ==
    LET w == drain[r].win
    IN  /\ drain[r].pc \in {"lost", "refused"}
        /\ DrainExit(r, Deleted(TargetRows(r, w)), Cleared(r), confirm,
                     IF Drains(r, "lost") THEN Forget(adm, w) ELSE ClearPending(adm, w))
        /\ UNCHANGED sends /\ Settled

\* queue[0] of a deque that somebody emptied during the capture: IndexError.
DrainFault(r) ==
    /\ Drains(r, "capture") /\ Deque(r) = <<>>
    /\ DrainExit(r, rows, queues, confirm, adm)
    /\ UNCHANGED sends /\ Settled

DrainHead(r) == IF Drains(r, "capture") /\ Deque(r) # <<>> THEN Head(Deque(r)) ELSE NoId

\* Blank pane, interactive prompt or working agent: look again later.
DrainBusy(r) ==
    /\ DrainHead(r) # NoId
    /\ adm' \in {adm, ObserveActive(adm, drain[r].win)}
    /\ DrainAgain(r)
    /\ UNCHANGED <<rows, queues, confirm, sends>> /\ Settled

\* A native prompt that a restart left unsent goes to the working agent as such.
DrainNative(r) ==
    /\ DrainHead(r) # NoId /\ rows[DrainHead(r)].mode # "turn"
    /\ adm' = ObserveActive(adm, drain[r].win)
    /\ drain' = [drain EXCEPT ![r].pc = "nbaseline", ![r].item = DrainHead(r)]
    /\ UNCHANGED <<rows, queues, confirm, sends>> /\ Settled

\* The agent is idle.  A native prompt becomes a turn first, which fails when it
\* is no longer queued; then the turn needs a slot.
DrainAcquire(r) ==
    LET p == DrainHead(r)
        a == ObserveInactive(adm, drain[r].win)
    IN  /\ p # NoId /\ (rows[p].mode = "turn" \/ Markable(p))
        /\ rows' = [rows EXCEPT ![p].mode = "turn"]
        /\ CanAcquire(a, drain[r].win)
        /\ adm' = Acquire(a, drain[r].win)
        /\ drain' = [drain EXCEPT ![r].pc = "baseline", ![r].item = p]
        /\ UNCHANGED <<queues, confirm, sends>> /\ Settled

DrainNoSlot(r) ==
    LET p == DrainHead(r)
        a == ObserveInactive(adm, drain[r].win)
    IN  /\ p # NoId
        /\ \/ /\ rows[p].mode = "turn" \/ Markable(p)
              /\ ~CanAcquire(a, drain[r].win)
              /\ rows' = [rows EXCEPT ![p].mode = "turn"]
              /\ adm' = a
           \/ /\ rows[p].mode # "turn" /\ ~Markable(p)
              /\ UNCHANGED <<rows, adm>>
        /\ DrainAgain(r)
        /\ UNCHANGED <<queues, confirm, sends>> /\ Settled

\* The transcript baseline is known: mark the row, and in the same step hand the
\* text over.  Whoever loses the race for the row gives the slot back and waits.
DrainSubmit(r) ==
    LET p == drain[r].item
    IN  /\ drain[r].pc \in {"baseline", "nbaseline"} /\ Markable(p)
        /\ rows' = Marked(p)
        /\ sends' = [sends EXCEPT ![p] = @ + 1]
        /\ drain' = [drain EXCEPT ![r].pc = IF @ = "baseline" THEN "send" ELSE "nsend"]
        /\ UNCHANGED <<queues, confirm, adm>> /\ Settled

DrainNotMarked(r) ==
    /\ drain[r].pc \in {"baseline", "nbaseline"}
    /\ ~Markable(drain[r].item) \/ "store" \in Events
    /\ adm' = IF Drains(r, "baseline") THEN Release(adm, drain[r].win) ELSE adm
    /\ DrainAgain(r)
    /\ UNCHANGED <<rows, queues, confirm, sends>> /\ Settled

\* The agent took the text: popleft is unconditional, and what it returns is
\* what the task goes on with.
DrainSent(r) ==
    /\ Drains(r, "send") /\ Deque(r) # <<>>
    /\ queues' = Popped(r)
    /\ LET a == MarkSubmitted(adm, drain[r].win)
       IN adm' = IF Len(Deque(r)) = 1 THEN ClearPending(a, drain[r].win) ELSE a
    /\ drain' = [drain EXCEPT ![r].pc = "refresh", ![r].item = Head(Deque(r))]
    /\ UNCHANGED <<rows, confirm, sends>> /\ Settled

DrainNativeSent(r) ==
    /\ Drains(r, "nsend") /\ Deque(r) # <<>>
    /\ queues' = Popped(r)
    /\ adm' = IF Len(Deque(r)) = 1 THEN ClearPending(adm, drain[r].win) ELSE adm
    /\ confirm' = Watched(Head(Deque(r)))
    /\ DrainAgain(r)
    /\ UNCHANGED <<rows, sends>> /\ Settled

\* The agent refused the text: the head is dropped, with a notice.
DrainSendFailed(r) ==
    /\ drain[r].pc \in {"send", "nsend"} /\ Deque(r) # <<>>
    /\ queues' = Popped(r)
    /\ rows' = Deleted({Head(Deque(r))})
    /\ adm' = IF Drains(r, "send") THEN Release(adm, drain[r].win) ELSE adm
    /\ DrainAgain(r)
    /\ UNCHANGED <<confirm, sends>> /\ Settled

\* The same two outcomes when the deque was emptied during the send: IndexError.
DrainPopFault(r) ==
    /\ drain[r].pc \in {"send", "nsend"} /\ Deque(r) = <<>>
    /\ \E a \in IF Drains(r, "nsend") THEN {adm}
                ELSE {MarkSubmitted(adm, drain[r].win), Release(adm, drain[r].win)} :
          DrainExit(r, rows, queues, confirm, a)
    /\ UNCHANGED sends /\ Settled

\* What an exception or a cancellation in the send leaves: the head is popped if
\* it is still the prompt, which goes to a confirmation task.
SendAborted(r) ==
    [queues  |-> IF Deque(r) # <<>> /\ Head(Deque(r)) = drain[r].item
                 THEN Popped(r) ELSE queues,
     confirm |-> Watched(drain[r].item),
     adm     |-> IF Drains(r, "send") THEN Release(adm, drain[r].win) ELSE adm]

DrainSendError(r) ==
    /\ "send_error" \in Events
    /\ drain[r].pc \in {"send", "nsend"}
    /\ LET x == SendAborted(r) IN DrainExit(r, rows, x.queues, x.confirm, x.adm)
    /\ UNCHANGED sends /\ Settled

\* mark_window_working and _refresh_session_map_after_first_prompt.
DrainConfirmed(r) ==
    /\ Drains(r, "refresh")
    /\ rows' = Confirmed(drain[r].item)
    /\ DrainAgain(r)
    /\ UNCHANGED <<queues, confirm, adm, sends>> /\ Settled

DrainUnconfirmed(r) ==
    /\ Drains(r, "refresh")
    /\ confirm' = Watched(drain[r].item)
    /\ drain' = [drain EXCEPT ![r].pc = "tail"]
    /\ UNCHANGED <<rows, queues, adm, sends>> /\ Settled

\* Either raises: the prompt is left submitted and nobody watches it.
DrainRefreshError(r) ==
    /\ "refresh_error" \in Events
    /\ Drains(r, "refresh")
    /\ DrainExit(r, rows, queues, confirm, adm)
    /\ UNCHANGED sends /\ Settled

\* The notice of a delayed confirmation is sent.
DrainTail(r) ==
    /\ Drains(r, "tail")
    /\ DrainExit(r, rows, queues, confirm, adm)
    /\ UNCHANGED sends /\ Settled

DrainStep(r) ==
    \/ DrainLook(r) \/ DrainEmpty(r) \/ DrainExpire(r)
    \/ DrainLost(r) \/ DrainDrop(r) \/ DrainFault(r)
    \/ DrainBusy(r) \/ DrainNative(r) \/ DrainAcquire(r) \/ DrainNoSlot(r)
    \/ DrainSubmit(r) \/ DrainNotMarked(r)
    \/ DrainSent(r) \/ DrainNativeSent(r) \/ DrainSendFailed(r)
    \/ DrainPopFault(r) \/ DrainSendError(r)
    \/ DrainConfirmed(r) \/ DrainUnconfirmed(r) \/ DrainRefreshError(r) \/ DrainTail(r)

-------------------------------------------------------------------------------
(* The holder of the topic's lock: _send_or_queue_agent_input,              *)
(* _send_native_agent_input and _discard_queued_agent_input.  The handlers  *)
(* of one topic run one after another (TopicUpdateProcessor), so a handler  *)
(* addresses the window its topic is bound to.                              *)

Free(r) == phase = "up" /\ sender[r].pc = "idle"
Holds(r, pc) == sender[r].pc = pc
\* Fault: the prompt in hand is forgotten at the next await.
HoldNothing(r, pc, w, p) ==
    sender' = [sender EXCEPT ![r] = [pc |-> pc, win |-> w, item |-> NoId]]
Hold(r, pc, w, p) ==
    sender' = [sender EXCEPT ![r] = [pc |-> pc, win |-> w, item |-> p]]
Unlock(r) == sender' = [sender EXCEPT ![r] = NoSender]
Elsewhere == UNCHANGED <<binding, phase>>

\* _queue_agent_input
Enqueue(r, w) ==
    /\ nextId <= MaxPrompts /\ HasRoom(r, w)
    /\ rows' = Inserted(r, w, "turn")
    /\ queues' = [queues EXCEPT ![r][w] = Append(@, nextId)]
    /\ adm' = SetPending(adm, w)
    /\ nextId' = nextId + 1

\* The topic already has a queue, a drain or an unconfirmed prompt.
QueueBehind(r) ==
    LET w == binding[r]
    IN  /\ Free(r) /\ w # None /\ MustQueue(r, w)
        /\ Enqueue(r, w)
        /\ EnsureDrain(Inserted(r, w, "turn"), confirm, r, w)
        /\ UNCHANGED <<sender, confirm, sends>> /\ Elsewhere

\* The queue is full; the prompt is refused, but a drain is started.
RefuseFull(r) ==
    LET w == binding[r]
    IN  /\ Free(r) /\ w # None /\ MustQueue(r, w) /\ ~HasRoom(r, w)
        /\ EnsureDrain(rows, confirm, r, w)
        /\ UNCHANGED <<rows, nextId, queues, sender, confirm, adm, sends>> /\ Elsewhere

SendDirect(r) ==
    LET w == binding[r]
    IN  /\ Free(r) /\ w # None /\ ~MustQueue(r, w)
        /\ Enqueue(r, w)
        /\ Hold(r, "capture", w, nextId)
        /\ UNCHANGED <<drain, confirm, sends>> /\ Elsewhere

\* The handler keeps the deque it appended to; its key is taken out of the
\* dictionary when that deque is empty, and a drain that still refers to the
\* deque is left with it; one at the top of its loop will look it up again.
Queue(r) == queues[r][sender[r].win]
Detached(r, q) ==
    IF q = <<>> /\ drain[r].pc \notin {"none", "top"} /\ drain[r].win = sender[r].win
       /\ drain[r].live
    THEN [drain[r] EXCEPT !.live = FALSE, !.own = <<>>]
    ELSE drain[r]

\* Prompt delivered to no agent: drop it if it is still the head.
DirectUnavailable(r) ==
    LET w == sender[r].win
        mine == Queue(r) # <<>> /\ Head(Queue(r)) = sender[r].item
        q == IF mine THEN Tail(Queue(r)) ELSE Queue(r)
    IN  /\ "agent_failure" \in Events
        /\ Holds(r, "capture")
        /\ queues' = [queues EXCEPT ![r][w] = q]
        /\ rows' = IF mine THEN Deleted({sender[r].item}) ELSE rows
        /\ adm' = IF q = <<>> THEN ClearPending(adm, w) ELSE adm
        /\ drain' = [drain EXCEPT ![r] = Detached(r, q)]
        /\ Unlock(r)
        /\ UNCHANGED <<nextId, confirm, sends>> /\ Elsewhere

\* The agent is busy or was interrupted, no slot is free, or the row could not be
\* marked: the prompt stays queued and a drain takes over.
DirectDefer(r) ==
    LET w == sender[r].win
        a == ObserveInactive(adm, w)
    IN  /\ \/ Holds(r, "capture") /\ adm' \in {adm, ObserveActive(adm, w)}
           \/ Holds(r, "capture") /\ ~CanAcquire(a, w) /\ adm' = a
           \/ /\ Holds(r, "baseline")
              /\ ~Markable(sender[r].item) \/ "store" \in Events
              /\ adm' = Release(adm, w)
        /\ EnsureDrain(rows, confirm, r, w)
        /\ Unlock(r)
        /\ UNCHANGED <<rows, nextId, queues, confirm, sends>> /\ Elsewhere

DirectAcquire(r) ==
    LET w == sender[r].win
        a == ObserveInactive(adm, w)
    IN  /\ Holds(r, "capture") /\ CanAcquire(a, w)
        /\ adm' = Acquire(a, w)
        /\ Hold(r, "baseline", w, sender[r].item)
        /\ UNCHANGED <<rows, nextId, queues, drain, confirm, sends>> /\ Elsewhere

DirectSubmit(r) ==
    LET p == sender[r].item
    IN  /\ Holds(r, "baseline") /\ Markable(p)
        /\ rows' = Marked(p)
        /\ sends' = [sends EXCEPT ![p] = @ + 1]
        /\ Hold(r, "send", sender[r].win, p)
        /\ UNCHANGED <<nextId, queues, drain, confirm, adm>> /\ Elsewhere

\* popleft is unconditional after an answer, and raises when a drain cleared the
\* deque meanwhile; after an exception it pops the prompt only if it is the head.
DirectSent(r) ==
    LET w == sender[r].win
        q == Tail(Queue(r))
    IN  /\ Holds(r, "send") /\ Queue(r) # <<>>
        /\ queues' = [queues EXCEPT ![r][w] = q]
        /\ drain' = [drain EXCEPT ![r] = Detached(r, q)]
        /\ adm' = ClearPending(MarkSubmitted(adm, w), w)
        /\ confirm' = Watched(sender[r].item)
        /\ Unlock(r)
        /\ UNCHANGED <<rows, nextId, sends>> /\ Elsewhere

DirectSendFailed(r) ==
    LET w == sender[r].win
        q == Tail(Queue(r))
    IN  /\ Holds(r, "send") /\ Queue(r) # <<>>
        /\ queues' = [queues EXCEPT ![r][w] = q]
        /\ drain' = [drain EXCEPT ![r] = Detached(r, q)]
        /\ rows' = Deleted({sender[r].item})
        /\ adm' = ClearPending(Release(adm, w), w)
        /\ Unlock(r)
        /\ UNCHANGED <<nextId, confirm, sends>> /\ Elsewhere

DirectPopFault(r) ==
    LET w == sender[r].win
    IN  /\ Holds(r, "send") /\ Queue(r) = <<>>
        /\ adm' \in {MarkSubmitted(adm, w), Release(adm, w)}
        /\ Unlock(r)
        /\ UNCHANGED <<rows, nextId, queues, drain, confirm, sends>> /\ Elsewhere

DirectSendError(r) ==
    LET w == sender[r].win
        mine == Queue(r) # <<>> /\ Head(Queue(r)) = sender[r].item
        q == IF mine THEN Tail(Queue(r)) ELSE Queue(r)
    IN  /\ "send_error" \in Events
        /\ Holds(r, "send")
        /\ queues' = [queues EXCEPT ![r][w] = q]
        /\ drain' = [drain EXCEPT ![r] = Detached(r, q)]
        /\ adm' = Release(adm, w)
        /\ confirm' = Watched(sender[r].item)
        /\ Unlock(r)
        /\ UNCHANGED <<rows, nextId, sends>> /\ Elsewhere

DirectStep(r) ==
    \/ DirectUnavailable(r) \/ DirectDefer(r) \/ DirectAcquire(r) \/ DirectSubmit(r)
    \/ DirectSent(r) \/ DirectSendFailed(r) \/ DirectPopFault(r) \/ DirectSendError(r)

\* Native steering or queueing of a working agent: the prompt bypasses the deque.
SendNative(r) ==
    LET w == binding[r]
    IN  /\ "native" \in Events
        /\ Free(r) /\ w # None /\ ~MustQueue(r, w)
        /\ nextId <= MaxPrompts /\ Cardinality(TargetRows(r, w)) < QueueLimit
        /\ \E mode \in {"steer", "queue"} : rows' = Inserted(r, w, mode)
        /\ nextId' = nextId + 1
        /\ Hold(r, "nbaseline", w, nextId)
        /\ UNCHANGED <<queues, drain, confirm, adm, sends>> /\ Elsewhere

NativeSubmit(r) ==
    LET p == sender[r].item
    IN  /\ Holds(r, "nbaseline") /\ Markable(p)
        /\ rows' = Marked(p)
        /\ sends' = [sends EXCEPT ![p] = @ + 1]
        /\ Hold(r, "nsend", sender[r].win, p)
        /\ UNCHANGED <<nextId, queues, drain, confirm, adm>> /\ Elsewhere

NativeFailed(r) ==
    /\ \/ Holds(r, "nsend")
       \/ Holds(r, "nbaseline") /\ (~Markable(sender[r].item) \/ "store" \in Events)
    /\ rows' = Deleted({sender[r].item})
    /\ Unlock(r)
    /\ UNCHANGED <<nextId, queues, drain, confirm, adm, sends>> /\ Elsewhere

\* Sent, or an exception in the send: the prompt goes to a confirmation task.
NativeSent(r) ==
    /\ Holds(r, "nsend")
    /\ confirm' = Watched(sender[r].item)
    /\ Unlock(r)
    /\ UNCHANGED <<rows, nextId, queues, drain, adm, sends>> /\ Elsewhere

NativeStep(r) == NativeSubmit(r) \/ NativeFailed(r) \/ NativeSent(r)

-------------------------------------------------------------------------------
(* Discarding, and the end of the process.                                  *)

\* A cancelled drain runs its except and finally blocks; a drain it starts in
\* turn reaches its first await before the task that cancelled it goes on.
Cancelled(r) ==
    IF drain[r].pc \in {"send", "nsend"} THEN SendAborted(r)
    ELSE [queues |-> queues, confirm |-> confirm, adm |-> adm]
Looking(d) == IF d.pc = "top" THEN [d EXCEPT !.pc = "capture"] ELSE d

\* A drain whose queue was taken out of the dictionary keeps the deque.
Orphaned(d, qs, r) ==
    IF d.pc = "none" THEN d
    ELSE [Looking(d) EXCEPT !.live = FALSE, !.own = qs[r][d.win]]

\* The drains that cancelled confirmations leave behind: one that has retired
\* its row and notifies the user still starts a drain for what it blocked, unless
\* another confirmation is ended after it.
Woken(r, cfm) ==
    LET notifying == \E p \in Ids : confirm[p] = "notify" /\ rows[p].route = r
        ready == {v \in Windows : queues[r][v] # <<>> /\ ~Blocked(rows, cfm, r, v)}
    IN  {drain[r]} \cup {NewDrain(v) : v \in IF notifying /\ ~RouteHasDrain(r) THEN ready ELSE {}}

\* The topic's confirmation tasks are cancelled and waited for.
DiscardStart(r) ==
    LET cfm == [p \in Ids |-> IF rows[p].route = r THEN "none" ELSE confirm[p]]
    IN  /\ "discard" \in Events
        /\ Free(r)
        /\ Hold(r, "discard", binding[r], NoId)
        /\ confirm' = cfm
        /\ \E d \in Woken(r, cfm) : drain' = [drain EXCEPT ![r] = d]
        /\ UNCHANGED <<rows, nextId, queues, adm, sends>> /\ Elsewhere

\* Its drain is cancelled, its queues and its rows go, and /unbind and /kill
\* unbind it as well.
DiscardFinish(r) ==
    LET x == Cancelled(r)
        keys == {w \in Windows : \/ queues[r][w] # <<>> \/ w = binding[r]
                                 \/ RouteHasDrain(r) /\ w = drain[r].win}
    IN  /\ Holds(r, "discard")
        /\ queues' = [queues EXCEPT ![r] = [w \in Windows |-> <<>>]]
        /\ \E d \in IF RouteHasDrain(r)
                    THEN Successors(rows, x.queues, x.confirm, r, drain[r].win)
                    ELSE {NoDrain} :
              drain' = [drain EXCEPT ![r] = Orphaned(d, x.queues, r)]
        /\ confirm' = x.confirm
        /\ rows' = Deleted(RouteRows(r))
        /\ adm' = [x.adm EXCEPT !.pending = @ \ keys]
        /\ Unlock(r)
        /\ \/ UNCHANGED binding
           \/ "rebind" \in Events /\ binding' = [binding EXCEPT ![r] = None]
        /\ UNCHANGED <<nextId, phase, sends>>

\* The topic gets another window: a choice of the user, the recovery of a
\* missing window, or the rotation after a usage limit.  Nothing is discarded.
Rebind(r) ==
    /\ "rebind" \in Events
    /\ Free(r)
    /\ \E w \in Windows \ {binding[s] : s \in Routes} :
          binding' = [binding EXCEPT ![r] = w]
    /\ UNCHANGED <<rows, nextId, phase, memory, sends>>

\* _stop_runtime: confirmations and drains are cancelled, and the dictionaries
\* cleared; a drain that a cancelled one started is not among the cancelled.
Stop ==
    LET x == [r \in Routes |-> Cancelled(r)]
        qs == [r \in Routes |-> x[r].queues[r]]
        cfm == [p \in Ids |->
                  IF \E r \in Routes : drain[r].pc \in {"send", "nsend"} /\ drain[r].item = p
                  THEN "probe" ELSE "none"]
    IN  /\ "stop" \in Events /\ phase = "up"
        /\ \A r \in Routes : Holds(r, "idle")
        /\ phase' = "stopping"
        /\ queues' = [r \in Routes |-> [w \in Windows |-> <<>>]]
        /\ confirm' = cfm
        /\ adm' = EmptyController
        /\ \E d \in [Routes -> {NoDrain} \cup {NewDrain(w) : w \in Windows}] :
              /\ \A r \in Routes :
                    IF RouteHasDrain(r) THEN d[r] \in Successors(rows, qs, cfm, r, drain[r].win)
                    ELSE d[r] = NoDrain
              /\ drain' = [r \in Routes |-> Orphaned(d[r], qs, r)]
        /\ UNCHANGED <<rows, nextId, binding, sender, sends>>

-------------------------------------------------------------------------------
(* Confirmation tasks: _run_agent_input_confirmation.                       *)

\* Fault: the task ends without waking the queue it blocked.
ConfirmationExitSilently(p, rws) ==
    rows' = rws /\ confirm' = [confirm EXCEPT ![p] = "none"] /\ UNCHANGED drain

\* Its finally block: once nothing blocks the topic, one drain is started.
ConfirmationExit(p, rws) ==
    LET r == rows[p].route
        cfm == [confirm EXCEPT ![p] = "none"]
        ready == {v \in Windows : queues[r][v] # <<>> /\ ~Blocked(rws, cfm, r, v)}
    IN  /\ rows' = rws
        /\ confirm' = cfm
        /\ IF HasConfirmation(rws, cfm, r, rows[p].win) \/ RouteHasDrain(r) \/ ready = {}
           THEN UNCHANGED drain
           ELSE \E v \in ready : drain' = [drain EXCEPT ![r] = NewDrain(v)]

\* The transcript has the prompt, or the row is gone already.
ConfirmationSeen(p) ==
    /\ confirm[p] = "probe"
    /\ ConfirmationExit(p, Confirmed(p))
    /\ UNCHANGED <<queues, adm, sends>> /\ Settled

\* The deadline passed or the topic was bound to another window: the row is
\* retired and never sent again; the user is notified before the task ends.
ConfirmationRetire(p) ==
    /\ confirm[p] = "probe" /\ rows[p].state = "submitted"
    /\ rows' = Confirmed(p)
    /\ confirm' = [confirm EXCEPT ![p] = "notify"]
    /\ UNCHANGED <<queues, drain, adm, sends>> /\ Settled

ConfirmationNotified(p) ==
    /\ confirm[p] = "notify"
    /\ ConfirmationExit(p, rows)
    /\ UNCHANGED <<queues, adm, sends>> /\ Settled

ConfirmationStep(p) ==
    ConfirmationSeen(p) \/ ConfirmationRetire(p) \/ ConfirmationNotified(p)

-------------------------------------------------------------------------------
(* Restart.                                                                 *)

\* The process ends at any point; tmux window ids may be resolved anew before
\* the spool is read again.
Crash ==
    /\ phase = "stopping" \/ (phase = "up" /\ "restart" \in Events)
    /\ phase' = "down"
    /\ queues' = [r \in Routes |-> [w \in Windows |-> <<>>]]
    /\ drain' = [r \in Routes |-> NoDrain]
    /\ sender' = [r \in Routes |-> NoSender]
    /\ confirm' = [p \in Ids |-> "none"]
    /\ adm' = EmptyController
    /\ \/ UNCHANGED binding
       \/ /\ "rebind" \in Events
          /\ \E r \in Routes, w \in Windows \ {binding[s] : s \in Routes} :
                binding' = [binding EXCEPT ![r] = w]
    /\ UNCHANGED <<rows, nextId, sends>>

Ascending == {s \in UNION {[1..n -> Ids] : n \in 0..MaxPrompts} :
                \A i, j \in DOMAIN s : i < j => s[i] < s[j]}
IdsOf(q) == {q[i] : i \in DOMAIN q}

\* _restore_agent_input_queues: queued rows follow their topic's binding and are
\* queued in id order; submitted rows are only watched.
Restore ==
    LET target(p) == IF binding[rows[p].route] # None THEN binding[rows[p].route]
                     ELSE rows[p].win
        rws == [p \in Ids |-> IF rows[p].state = "queued"
                              THEN [rows[p] EXCEPT !.win = target(p)] ELSE rows[p]]
        cfm == [p \in Ids |-> IF rows[p].state = "submitted" THEN "probe" ELSE "none"]
        held(r, w) == {p \in Ids : rws[p].state = "queued" /\ rws[p].route = r
                                                           /\ rws[p].win = w}
        started(r) == {v \in Windows : held(r, v) # {} /\ ~Blocked(rws, cfm, r, v)}
    IN  /\ phase = "down" /\ phase' = "up"
        /\ rows' = rws
        /\ confirm' = cfm
        /\ queues' \in {q \in [Routes -> [Windows -> Ascending]] :
                          \A r \in Routes, w \in Windows : IdsOf(q[r][w]) = held(r, w)}
        /\ adm' = [adm EXCEPT !.pending = {w \in Windows : \E r \in Routes : held(r, w) # {}}]
        /\ drain' \in {d \in [Routes -> {NoDrain} \cup {NewDrain(w) : w \in Windows}] :
                         \A r \in Routes : IF started(r) = {} THEN d[r] = NoDrain
                                           ELSE d[r].win \in started(r)}
        /\ UNCHANGED <<nextId, binding, sender, sends>>

-------------------------------------------------------------------------------
HandlerStep(r) ==
    \/ QueueBehind(r) \/ RefuseFull(r) \/ SendDirect(r) \/ SendNative(r)
    \/ DirectStep(r) \/ NativeStep(r)
    \/ DiscardStart(r) \/ DiscardFinish(r)

Next ==
    \/ \E r \in Routes : DrainStep(r) \/ HandlerStep(r) \/ Rebind(r)
    \/ \E p \in Ids : ConfirmationStep(p)
    \/ Stop \/ Crash \/ Restore

Spec == Init /\ [][Next]_vars

\* Scheduling: asyncio runs every ready task, an await comes back, and a pane
\* that is asked again and again is found idle with a free slot at some time.
Fairness ==
    /\ \A r \in Routes :
          /\ WF_vars(DrainStep(r)) /\ SF_vars(DrainAcquire(r))
          /\ WF_vars(DirectStep(r) \/ NativeStep(r) \/ DiscardFinish(r))
    /\ \A p \in Ids : WF_vars(ConfirmationStep(p))

FairSpec == Spec /\ Fairness

-------------------------------------------------------------------------------
(* Properties.                                                              *)

\* Every variable has its type: accepted prompts have a target, drains and handlers
\* that submit hold a prompt and address a window.
TypeOK ==
    /\ rows \in [Ids -> Row]
    /\ nextId \in 1..MaxPrompts + 1
    /\ binding \in [Routes -> Windows \cup {None}]
    /\ phase \in {"up", "stopping", "down"}
    /\ queues \in [Routes -> [Windows -> Seq(Ids)]]
    /\ drain \in [Routes -> Drain]
    /\ sender \in [Routes -> Sender]
    /\ confirm \in [Ids -> {"none", "probe", "notify"}]
    /\ adm \in Controller
    /\ sends \in [Ids -> Nat]

\* No prompt is handed to the agent twice, whatever drains, handlers and restarts
\* compete for it: mark_agent_input_submitted decides.
AtMostOnce == \A p \in Ids : sends[p] <= 1

Watcher(p) ==
    LET r == rows[p].route
    IN  \/ confirm[p] # "none"
        \/ drain[r].pc \in {"send", "nsend", "refresh"} /\ drain[r].item = p
        \/ sender[r].pc \in {"send", "nsend"} /\ sender[r].item = p
        \/ sender[r].pc = "discard"

\* A submitted row blocks its topic, so while the bot runs somebody is always
\* there to retire it: its sender, then a confirmation task.
SubmittedIsWatched ==
    phase = "up" => \A p \in Ids : rows[p].state = "submitted" => Watcher(p)

\* A prompt that waits in the spool is in the deque of its target, so it does not
\* take a restart to send it.
QueuedIsHeld ==
    phase = "up" => \A p \in Ids : rows[p].state = "queued" =>
        \/ p \in IdsOf(queues[rows[p].route][rows[p].win])
        \/ sender[rows[p].route].pc = "nbaseline" /\ sender[rows[p].route].item = p

\* Conversely a deque holds nothing the spool has forgotten: such a prompt can
\* never be marked, and would stop the queue behind it for good.
HeldIsStored ==
    \A r \in Routes, w \in Windows : \A p \in IdsOf(queues[r][w]) : Stored(p)

\* A topic with queued prompts has a task that will come to them: its drain, the
\* holder of its lock, or a confirmation whose end starts a drain.
HeldHasDrain ==
    phase = "up" => \A r \in Routes : RouteHasQueue(r) =>
        \/ RouteHasDrain(r) \/ sender[r].pc # "idle"
        \/ \E p \in Ids : confirm[p] # "none" /\ rows[p].route = r

\* A window with queued prompts is protected from hibernation.
PendingCoversQueue ==
    \A r \in Routes, w \in Windows : queues[r][w] # <<>> => w \in adm.pending

\* Windows a dispatch holds a slot for, from try_acquire to the agent's answer.
Dispatching ==
    {w \in Windows : \E r \in Routes :
        \/ drain[r].pc \in {"baseline", "send"} /\ drain[r].win = w
        \/ sender[r].pc \in {"baseline", "send"} /\ sender[r].win = w}

\* A slot is reserved only while a dispatch is under way (turn_admission.release:
\* "Release a failed or abandoned reservation").
ReservationIsUsed == phase = "up" => adm.reserved \subseteq Dispatching

\* A drain about to clear a queue has told the user of every prompt in it.
NoSilentDrop ==
    \A r \in Routes : drain[r].pc \in {"lost", "refused"} /\ drain[r].live =>
        IdsOf(Deque(r)) \subseteq drain[r].told

\* The prompts of a target reach the agent in the order they were accepted: none
\* is sent while an earlier one of the same target still waits.
InOrder ==
    [][\A p, q \in Ids :
          /\ sends'[q] > sends[q] /\ p < q
          /\ rows[p].route = rows[q].route /\ rows[p].win = rows[q].win
          => rows[p].state # "queued"]_vars

\* Once _cancel_agent_input_drain_tasks has stopped the drains, no prompt is
\* handed to an agent until the next start.
NothingSentAfterStop == [][phase = "stopping" => UNCHANGED sends]_vars

\* A submitted row is retired in the end, by its confirmation or by its deadline.
SubmittedIsRetired ==
    \A p \in Ids : rows[p].state = "submitted" ~> rows[p].state # "submitted"

\* A queued prompt is sent or dropped in the end.
QueuedIsResolved ==
    \A p \in Ids : rows[p].state = "queued" ~> rows[p].state # "queued"

Delivery == INSTANCE PromptDelivery WITH
    Prompts <- Ids, status <- [p \in Ids |-> rows[p].state]

\* Seen through the states of its rows, the queue delivers as PromptDelivery says.
DeliversPrompts == Delivery!Spec
===============================================================================
