------------------------- MODULE AgentTurns_proofs ----------------------------
(***************************************************************************)
(* For any topics, windows, turn limit and events of the queue: the poller *)
(* never decides to hibernate a window whose agent works.  And, for the    *)
(* events that the composition is about, no more windows are given a       *)
(* prompt at a time than the turn limit allows.                            *)
(*                                                                         *)
(* A picture of an idle pane may be older than the prompt that made the    *)
(* agent work.  It does no harm, because the idle timer was off when the   *)
(* prompt was answered: the report starts it, and the next picture, taken  *)
(* afterwards, shows the agent working and stops it again.                 *)
(***************************************************************************)
EXTENDS AgentTurns, QueueCustody_proofs, FiniteSetTheorems

\* A working agent that an old picture shows idle has no idle timer yet.
OldPictureIsHarmless ==
    poll.pc = "report" /\ poll.idle /\ poll.win \in working => rest[poll.win] = "none"

RestInv ==
    /\ rest = [w \in Windows |-> rest[w]]
    /\ alive \subseteq Windows
    /\ poll.pc = "report" => poll.win \in Windows
    /\ OldPictureIsHarmless

LEMMA RestInvInit == TurnInit => RestInv
  BY DEF TurnInit, NoPoll, RestInv, OldPictureIsHarmless

LEMMA RestInvNext == RestInv /\ [TurnNext]_turnVars => RestInv'
<1> SUFFICES ASSUME RestInv, [TurnNext]_turnVars PROVE RestInv'
  OBVIOUS
<1>1. CASE QueueStep
  <2>1. /\ rest' = [w \in Windows |-> IF w \in Answered THEN "none" ELSE rest[w]]
        /\ poll' = poll /\ alive' = alive /\ working' = working \cup Answered
    BY <1>1 DEF QueueStep, Rested
  <2>2. rest' = [w \in Windows |-> rest'[w]]
    BY <2>1
  <2>3. OldPictureIsHarmless'
    BY <2>1 DEF RestInv, OldPictureIsHarmless
  <2> QED BY <2>1, <2>2, <2>3 DEF RestInv
<1>2. ASSUME NEW w \in Windows, Finish(w) PROVE RestInv'
  BY <1>2 DEF Finish, RestInv, OldPictureIsHarmless
<1>3. ASSUME NEW w \in Windows, TimeoutElapses(w) PROVE RestInv'
  BY <1>3 DEF TimeoutElapses, RestInv, OldPictureIsHarmless
<1>4. ASSUME NEW r \in Routes, PollCapture(r) PROVE RestInv'
  \* The picture is taken now: who is working is not seen idle.
  <2>1. /\ poll'.win = binding[r] /\ poll'.idle = (binding[r] \notin working)
        /\ UNCHANGED <<rest, alive, working>>
    BY <1>4 DEF PollCapture
  <2>2. binding[r] \in Windows
    BY <1>4 DEF PollCapture, RestInv
  <2> QED BY <2>1, <2>2 DEF RestInv, OldPictureIsHarmless
<1>5. ASSUME NEW r \in Routes, PollMissing(r) PROVE RestInv'
  BY <1>5 DEF PollMissing, Rested, RestInv, OldPictureIsHarmless
<1>6. CASE PollReport
  <2>1. poll'.pc # "report"
    BY <1>6 DEF PollReport, NoPoll
  <2>2. rest' = [w \in Windows |-> rest'[w]]
    BY <1>6 DEF PollReport, Rested, Resting, RestInv
  <2>3. alive' = alive
    BY <1>6 DEF PollReport
  <2> QED BY <2>1, <2>2, <2>3 DEF RestInv, OldPictureIsHarmless
<1>7. CASE PollKill
  BY <1>7 DEF PollKill, NoPoll, RestInv, OldPictureIsHarmless
<1>8. CASE UNCHANGED turnVars
  BY <1>8 DEF turnVars, agents, RestInv, OldPictureIsHarmless
<1> QED BY <1>1, <1>2, <1>3, <1>4, <1>5, <1>6, <1>7, <1>8 DEF TurnNext

\* The idle timer has elapsed only if the picture before the last one showed
\* the window idle, and a working agent's timer was off then.
LEMMA KillsOnlyIdle ==
  ASSUME RestInv, [TurnNext]_turnVars, poll.pc # "kill", poll'.pc = "kill"
  PROVE  poll.win \notin working
<1>1. PollReport
  <2>1. ~(poll' = poll) /\ ~(poll' = NoPoll)
    BY DEF NoPoll
  <2>2. ~QueueStep
    BY <2>1 DEF QueueStep
  <2>3. ASSUME NEW w \in Windows PROVE ~Finish(w) /\ ~TimeoutElapses(w)
    BY <2>1 DEF Finish, TimeoutElapses
  <2>4. ASSUME NEW r \in Routes PROVE ~PollCapture(r) /\ ~PollMissing(r)
    BY <2>1 DEF PollCapture, PollMissing
  <2>5. ~PollKill /\ ~UNCHANGED turnVars
    BY <2>1 DEF PollKill, turnVars, agents
  <2> QED BY <2>2, <2>3, <2>4, <2>5 DEF TurnNext
<1>2. PICK idle \in {FALSE, poll.idle} :
        poll' = IF Resting(poll.win, idle)[poll.win] = "elapsed" /\ "hibernate" \in Events
                THEN [poll EXCEPT !.pc = "kill"] ELSE NoPoll
  BY <1>1, Zenon DEF PollReport
<1>3. Resting(poll.win, idle)[poll.win] = "elapsed"
  BY <1>2 DEF NoPoll
<1>4. idle /\ rest[poll.win] = "elapsed"
  BY <1>1, <1>3 DEF PollReport, Resting, RestInv
<1> QED BY <1>1, <1>2, <1>4 DEF PollReport, RestInv, OldPictureIsHarmless

\* status_polling.py and idle_sessions.py: no step of the poller chooses a
\* working agent for hibernation.
THEOREM HibernatesNoWorkingAgent == TurnSpec => HibernatesOnlyIdle
<1>1. TurnSpec => []RestInv
  BY RestInvInit, RestInvNext, PTL DEF TurnSpec
<1>2. ASSUME RestInv, [TurnNext]_turnVars
      PROVE  [poll.pc # "kill" /\ poll'.pc = "kill" => poll.win \notin working]_turnVars
  BY <1>2, KillsOnlyIdle
<1> QED BY <1>1, <1>2, PTL DEF TurnSpec, HibernatesOnlyIdle
-------------------------------------------------------------------------------
(* The turn limit.  Without native input, rebinding and discards, which the *)
(* composition leaves out, a topic has one task that may dispatch.          *)

OneByOne == Events \cap {"native", "rebind", "discard"} = {}

TurnsOnly == \A p \in Ids : rows[p].mode = "turn"
Confirming(r) == \E p \in Ids : confirm[p] # "none" /\ rows[p].route = r

\* While a handler sends, its topic has no drain, and nothing that could start one.
Alone(r) ==
    /\ ~Holds(r, "discard")
    /\ ~Holds(r, "idle") => drain[r].pc = "none" /\ ~Confirming(r)

AloneInv == OwnInv /\ ConfirmInv /\ TurnsOnly /\ \A r \in Routes : Alone(r)

LEMMA DeletedModes ==
    ASSUME rows \in [Ids -> Row], NEW S, NEW q \in Ids
    PROVE  Deleted(S)[q].mode = rows[q].mode
BY DEF Deleted, Row

LEMMA DrainKeepsModes ==
    ASSUME TypeOK, TurnsOnly, NEW r \in Routes, DrainStep(r)
    PROVE  TurnsOnly'
<1>1. \/ rows' = rows
      \/ \E S : rows' = Deleted(S)
      \/ \E p : rows' = [rows EXCEPT ![p].mode = "turn"]
      \/ \E p : rows' = Marked(p)
  BY DEF DrainStep, DrainLook, DrainEmpty, DrainExpire, DrainLost, DrainDrop, DrainFault,
     DrainBusy, DrainNative, DrainAcquire, DrainNoSlot, DrainSubmit, DrainNotMarked, DrainSent,
     DrainNativeSent, DrainSendFailed, DrainPopFault, DrainSendError, DrainConfirmed,
     DrainUnconfirmed, DrainRefreshError, DrainTail, DrainExit, Confirmed
<1>2. ASSUME NEW q \in Ids PROVE rows'[q].mode = "turn"
  <2>1. rows[q].mode = "turn" /\ rows[q] \in Row /\ rows \in [Ids -> Row]
    BY <1>2 DEF TypeOK, TurnsOnly
  <2>2. CASE rows' = rows
    BY <2>1, <2>2
  <2>3. CASE \E S : rows' = Deleted(S)
    BY <1>2, <2>1, <2>3, DeletedModes
  <2>4. CASE \E p : rows' = [rows EXCEPT ![p].mode = "turn"]
    BY <1>2, <2>1, <2>4 DEF Row
  <2>5. CASE \E p : rows' = Marked(p)
    BY <1>2, <2>1, <2>5 DEF Marked, Row
  <2>6. QED BY <1>1, <2>2, <2>3, <2>4, <2>5
<1>3. QED BY <1>2 DEF TurnsOnly

LEMMA HandlerKeepsModes ==
    ASSUME OneByOne, TypeOK, TurnsOnly, NEW r \in Routes, HandlerStep(r)
    PROVE  TurnsOnly'
<1>1. \/ rows' = rows
      \/ \E S : rows' = Deleted(S)
      \/ \E w : rows' = Inserted(r, w, "turn")
      \/ \E p : rows' = Marked(p)
  BY DEF OneByOne, HandlerStep, QueueBehind, RefuseFull, SendDirect, SendNative, Enqueue, DirectStep,
     DirectUnavailable, DirectDefer, DirectAcquire, DirectSubmit, DirectSent, DirectSendFailed,
     DirectPopFault, DirectSendError, NativeStep, NativeSubmit, NativeFailed, NativeSent,
     DiscardStart, DiscardFinish
<1>2. ASSUME NEW q \in Ids PROVE rows'[q].mode = "turn"
  <2>1. rows[q].mode = "turn" /\ rows[q] \in Row /\ rows \in [Ids -> Row]
    BY <1>2 DEF TypeOK, TurnsOnly
  <2>2. CASE rows' = rows
    BY <2>1, <2>2
  <2>3. CASE \E S : rows' = Deleted(S)
    BY <1>2, <2>1, <2>3, DeletedModes
  <2>4. CASE \E w : rows' = Inserted(r, w, "turn")
    BY <1>2, <2>1, <2>4 DEF Inserted, Row
  <2>5. CASE \E p : rows' = Marked(p)
    BY <1>2, <2>1, <2>5 DEF Marked, Row
  <2>6. QED BY <1>1, <2>2, <2>3, <2>4, <2>5
<1>3. QED BY <1>2 DEF TurnsOnly

\* A handler starts to send only when nothing blocks its topic, and every unconfirmed
\* prompt of the topic does.
LEMMA StartsAlone ==
    ASSUME OneByOne, AloneInv, NEW r \in Routes, HandlerStep(r)
    PROVE  /\ sender'[r].pc # "discard"
           /\ sender'[r].pc # "idle" => drain'[r].pc = "none" /\ ~Confirming(r)
<1>1. TypeOK /\ OwnWindow(r) /\ Alone(r)
  BY DEF AloneInv, OwnInv, CustodyInv, SendInv
<1>2. CASE SendDirect(r)
  <2>1. drain' = drain /\ ~MustQueue(r, binding[r])
    BY <1>2 DEF SendDirect
  <2>2. drain[r].pc = "none" /\ ~HasConfirmation(rows, confirm, r, binding[r])
    BY <2>1 DEF MustQueue, RouteHasDrain, Blocked
  <2>3. ASSUME NEW p \in Ids, confirm[p] # "none", rows[p].route = r
        PROVE  BlockedBy(p, rows, r, binding[r])
    <3>1. rows[p].state # "new" /\ rows[p].mode = "turn"
      BY <2>3 DEF AloneInv, ConfirmInv, ConfirmOk, TurnsOnly
    <3>2. QED BY <1>1, <2>3, <3>1 DEF OwnWindow, BlockedBy
  <2>4. sender'[r].pc = "capture"
    BY <1>1, <1>2, HoldIs DEF SendDirect
  <2>5. QED BY <2>1, <2>2, <2>3, <2>4 DEF HasConfirmation, Confirming
<1>3. CASE DirectAcquire(r) \/ DirectSubmit(r) \/ NativeSubmit(r)
  <2>1. sender[r].pc # "idle" /\ drain' = drain
    BY <1>3 DEF DirectAcquire, DirectSubmit, NativeSubmit, Holds
  <2>2. sender'[r].pc \in {"baseline", "send", "nsend"}
    BY <1>1, <1>3, HoldIs DEF DirectAcquire, DirectSubmit, NativeSubmit
  <2>3. QED BY <1>1, <2>1, <2>2 DEF Alone, Holds
<1>4. CASE QueueBehind(r) \/ RefuseFull(r)
  BY <1>4 DEF QueueBehind, RefuseFull, Free
<1>5. CASE \/ DirectUnavailable(r) \/ DirectDefer(r) \/ DirectSent(r) \/ DirectSendFailed(r)
           \/ DirectPopFault(r) \/ DirectSendError(r) \/ NativeFailed(r) \/ NativeSent(r)
           \/ DiscardFinish(r)
  <2>1. Unlock(r)
    BY <1>5 DEF DirectUnavailable, DirectDefer, DirectSent, DirectSendFailed, DirectPopFault,
       DirectSendError, NativeFailed, NativeSent, DiscardFinish
  <2>2. QED BY <1>1, <2>1, UnlockIs DEF NoSender
<1>6. ~SendNative(r) /\ ~DiscardStart(r)
  BY DEF OneByOne, SendNative, DiscardStart
<1>7. QED BY <1>2, <1>3, <1>4, <1>5, <1>6 DEF HandlerStep, DirectStep, NativeStep

\* Only the tasks of a topic start confirmations of its prompts.
LEMMA ConfirmsOwn ==
    ASSUME AloneInv, NEW r \in Routes, DrainStep(r) \/ HandlerStep(r), Ages(rows, rows'),
           NEW t \in Routes \ {r}, Confirming(t)'
    PROVE  Confirming(t)
<1>1. PICK p \in Ids : confirm'[p] # "none" /\ rows'[p].route = t
  BY DEF Confirming
<1>2. CustodyInv /\ ConfirmOk(p)
  BY DEF AloneInv, ConfirmInv
<1>3. CASE confirm'[p] = confirm[p]
  BY <1>1, <1>2, <1>3 DEF Ages, ConfirmOk, Confirming
<1>4. CASE confirm'[p] # confirm[p]
  <2>1. Started(p) /\ rows[p].route = r
    BY <1>1, <1>2, <1>4, DrainConfirms, HandlerConfirms
  <2>2. QED BY <1>1, <2>1 DEF Ages, Started
<1>5. QED BY <1>3, <1>4

LEMMA RestoreKeepsModes ==
    ASSUME TypeOK, TurnsOnly, Restore
    PROVE  TurnsOnly'
<1>1. ASSUME NEW q \in Ids PROVE rows'[q].mode = "turn"
  <2> DEFINE u == IF binding[rows[q].route] # None THEN binding[rows[q].route] ELSE rows[q].win
  <2>1. rows[q].mode = "turn" /\ rows[q] \in Row
    BY <1>1 DEF TypeOK, TurnsOnly
  <2>2. rows'[q] = IF rows[q].state = "queued" THEN [rows[q] EXCEPT !.win = u] ELSE rows[q]
    BY <1>1 DEF Restore
  <2>3. QED BY <2>1, <2>2 DEF Row
<1>2. QED BY <1>1 DEF TurnsOnly

LEMMA AloneStep ==
    ASSUME OneByOne, AloneInv, [Next]_vars
    PROVE  AloneInv'
<1>1. /\ TypeOK /\ CustodyInv /\ OwnInv /\ ConfirmInv /\ TurnsOnly
      /\ \A t \in Routes : Alone(t) /\ OwnWindow(t)
  BY DEF AloneInv, OwnInv, CustodyInv, SendInv
<1>2. OwnInv' /\ ConfirmInv' /\ TypeOK'
  <2>1. OwnInv' /\ ConfirmInv'
    BY <1>1, OwnStep, ConfirmStep DEF OneByOne
  <2>2. QED BY <2>1 DEF OwnInv, CustodyInv, SendInv
<1>3. ASSUME NEW r \in Routes, DrainStep(r) \/ HandlerStep(r) PROVE AloneInv'
  <2>1. StepOf(r)
    BY <1>1, <1>2, <1>3, DrainKeepsCustody, HandlerKeepsCustody
  <2>2. TurnsOnly'
    BY <1>1, <1>3, DrainKeepsModes, HandlerKeepsModes
  <2>3. ASSUME NEW t \in Routes \ {r} PROVE Alone(t)'
    <3>1. Confirming(t)' => Confirming(t)
      BY <1>3, <2>1, ConfirmsOwn DEF StepOf
    <3>2. QED BY <1>1, <2>1, <3>1 DEF StepOf, Alone, Holds
  <2>4. Alone(r)'
    <3>1. CASE DrainStep(r)
      <4>1. drain[r].pc # "none" /\ sender' = sender
        BY <3>1, DrainRuns DEF Settled
      <4>2. QED BY <1>1, <4>1 DEF Alone, Holds
    <3>2. CASE HandlerStep(r)
      <4>1. SUFFICES ASSUME sender'[r].pc # "idle"
                     PROVE  drain'[r].pc = "none" /\ ~Confirming(r)'
        BY <3>2, StartsAlone DEF Alone, Holds
      <4>2. drain'[r].pc = "none" /\ ~Confirming(r)
        BY <3>2, <4>1, StartsAlone
      <4>3. ASSUME NEW p \in Ids, confirm'[p] # "none", rows'[p].route = r PROVE FALSE
        <5>1. ConfirmOk(p)
          BY <1>1 DEF ConfirmInv
        <5>2. CASE confirm'[p] = confirm[p]
          BY <2>1, <4>2, <4>3, <5>1, <5>2 DEF StepOf, Ages, ConfirmOk, Confirming
        <5>3. CASE confirm'[p] # confirm[p]
          <6>1. DirectSent(r) \/ DirectSendError(r) \/ NativeSent(r) \/ DiscardStart(r)
                \/ DiscardFinish(r)
            BY <3>2, <5>3 DEF HandlerStep, QueueBehind, RefuseFull, SendDirect, SendNative,
               DirectStep, DirectUnavailable, DirectDefer, DirectAcquire, DirectSubmit,
               DirectSendFailed, DirectPopFault, NativeStep, NativeSubmit, NativeFailed
          <6>2. Unlock(r)
            BY <6>1 DEF OneByOne, DirectSent, DirectSendError, NativeSent, DiscardStart, DiscardFinish
          <6>3. QED BY <1>1, <4>1, <6>2, UnlockIs DEF NoSender
        <5>4. QED BY <5>2, <5>3
      <4>4. QED BY <4>2, <4>3 DEF Confirming
    <3>3. QED BY <1>3, <3>1, <3>2
  <2>5. QED BY <1>2, <2>2, <2>3, <2>4 DEF AloneInv
<1>4. ASSUME NEW q \in Ids, ConfirmationStep(q) PROVE AloneInv'
  <2>1. /\ Ages(rows, rows') /\ sender' = sender
        /\ \A t \in Routes : t # rows[q].route => drain'[t] = drain[t]
    BY <1>1, <1>2, <1>4, ConfirmationKeepsCustody
  <2>2. confirm[q] # "none" /\ \A p \in Ids : confirm'[p] # "none" => confirm[p] # "none"
    BY <1>1, <1>4 DEF ConfirmationStep, ConfirmationSeen, ConfirmationRetire, ConfirmationNotified,
       ConfirmationExit, TypeOK
  <2>3. rows' = rows \/ \E S : rows' = Deleted(S)
    BY <1>4 DEF ConfirmationStep, ConfirmationSeen, ConfirmationRetire, ConfirmationNotified,
           ConfirmationExit, Confirmed
  <2>4. TurnsOnly'
    BY <1>1, <2>3, DeletedModes DEF TurnsOnly, TypeOK
  <2>5. ASSUME NEW t \in Routes PROVE Alone(t)'
    <3>1. Confirming(t)' => Confirming(t)
      BY <1>1, <2>1, <2>2 DEF Confirming, ConfirmInv, ConfirmOk, Ages
    <3>2. ~Confirming(t) => drain'[t] = drain[t]
      BY <2>1, <2>2 DEF Confirming
    <3>3. QED BY <1>1, <2>1, <3>1, <3>2 DEF Alone, Holds
  <2>6. QED BY <1>2, <2>4, <2>5 DEF AloneInv
<1>5. CASE Stop \/ Crash
  <2>1. rows' = rows /\ \A t \in Routes : sender'[t].pc = "idle"
    BY <1>5 DEF Stop, Crash, Holds, NoSender
  <2>2. QED BY <1>1, <1>2, <2>1 DEF AloneInv, Alone, TurnsOnly, Holds
<1>6. CASE Restore
  <2>1. phase = "down" /\ sender' = sender
    BY <1>6 DEF Restore
  <2>2. \A t \in Routes : sender[t].pc = "idle"
    BY <1>1, <2>1 DEF CustodyInv, Custody, TopicOk, SenderOk
  <2>3. TurnsOnly'
    BY <1>1, <1>6, RestoreKeepsModes
  <2>4. QED BY <1>2, <2>1, <2>2, <2>3 DEF AloneInv, Alone, Holds
<1>7. CASE UNCHANGED vars
  BY <1>1, <1>2, <1>7 DEF vars, memory, AloneInv, Alone, Confirming, TurnsOnly, Holds
<1>8. \A r \in Routes : ~Rebind(r)
  BY DEF OneByOne, Rebind
<1>9. QED BY <1>3, <1>4, <1>5, <1>6, <1>7, <1>8 DEF Next

\* A dispatch to a live window has its slot, and no more slots are given out than the
\* turn limit; what the poller observes does not count.
SlotsHeld ==
    /\ \A r \in Routes, w \in alive : DrainUses(r, w) \/ SenderUses(r, w) => w \in adm.reserved
    /\ Cardinality(adm.reserved) <= MaxActiveTurns

SlotsInv == RestInv /\ AloneInv /\ SlotsHeld

\* The ways a drain or a handler of a topic, at window u, changes what is reserved.
Holding(u) == adm'.reserved = adm.reserved
Freeing(u) == adm'.reserved = adm.reserved \ {u}
Taking(u) == /\ CanAcquire(ObserveInactive(adm, u), u)
             /\ adm' = Acquire(ObserveInactive(adm, u), u)

\* A slot that is taken was reserved already, or is one of those left.
LEMMA TakingCounts ==
    ASSUME MaxActiveTurns # 0, adm \in Controller, NEW u \in Windows, Taking(u),
           Cardinality(adm.reserved) <= MaxActiveTurns
    PROVE  /\ adm'.reserved = adm.reserved \cup {u}
           /\ Cardinality(adm'.reserved) <= MaxActiveTurns
<1> DEFINE a == ObserveInactive(adm, u)
<1>1. /\ a \in Controller /\ a.reserved = adm.reserved /\ u \notin a.observed
      /\ IsFiniteSet(Windows) /\ MaxActiveTurns \in Nat
  BY ControllerOps, TurnAdmissionAssumption DEF ObserveInactive, Controller
<1>2. IsFiniteSet(Occupied(a)) /\ IsFiniteSet(a.reserved) /\ a.reserved \subseteq Occupied(a)
  BY <1>1, FS_Subset DEF Occupied, Controller
<1>3. CASE u \in a.reserved
  <2>1. adm' = a
    BY <1>3 DEF Taking, Acquire, Occupied
  <2>2. QED BY <1>1, <1>3, <2>1
<1>4. CASE u \notin a.reserved
  <2>1. u \notin Occupied(a)
    BY <1>1, <1>4 DEF Occupied
  <2>2. Cardinality(Occupied(a)) < MaxActiveTurns /\ adm'.reserved = a.reserved \cup {u}
    BY <1>1, <2>1 DEF Taking, CanAcquire, Acquire, Controller
  <2>3. Cardinality(a.reserved) <= Cardinality(Occupied(a))
    BY <1>2, FS_Subset
  <2>4. /\ Cardinality(a.reserved \cup {u}) = Cardinality(a.reserved) + 1
        /\ Cardinality(a.reserved) \in Nat /\ Cardinality(Occupied(a)) \in Nat
    BY <1>2, <1>4, FS_AddElement, FS_CardinalityType
  <2>5. QED BY <1>1, <2>2, <2>3, <2>4
<1>5. QED BY <1>3, <1>4

LEMMA DrainSlots ==
    ASSUME TypeOK, NEW r \in Routes, DrainStep(r)
    PROVE  LET u == drain[r].win
           IN  \/ Holding(u) /\ \A w : DrainUses(r, w)' => DrainUses(r, w)
               \/ Freeing(u) /\ \A w : ~DrainUses(r, w)'
               \/ Taking(u) /\ \A w : DrainUses(r, w)' => w = u
<1> DEFINE d == drain[r]
           u == drain[r].win
<1>1. d \in Drain /\ d.pc # "none" /\ u \in Windows /\ adm \in Controller
  BY DrainRuns DEF TypeOK, Drain
<1>2. \A a \in Controller :
         /\ MarkSubmitted(a, u).reserved = a.reserved \ {u}
         /\ Release(a, u).reserved = a.reserved \ {u}
         /\ ObserveActive(a, u).reserved = a.reserved
         /\ ObserveInactive(a, u).reserved = a.reserved
         /\ Forget(a, u).reserved = a.reserved \ {u}
         /\ ClearPending(a, u).reserved = a.reserved
         /\ MarkSubmitted(a, u) \in Controller /\ Release(a, u) \in Controller
         /\ ObserveInactive(a, u) \in Controller
         /\ Forget(a, u) \in Controller /\ ClearPending(a, u) \in Controller
  BY <1>1, Reserves, ControllerOps
<1> HIDE DEF u
<1>3. CASE DrainAcquire(r)
  <2>1. Taking(u)
    BY <1>3 DEF DrainAcquire, Taking, u
  <2>2. drain'[r].win = u
    BY <1>1, <1>3 DEF DrainAcquire, TypeOK, Drain, u
  <2>3. QED BY <2>1, <2>2 DEF DrainUses, u
<1>4. CASE DrainSubmit(r)
  <2>1. adm' = adm /\ d.pc \in {"baseline", "nbaseline"} /\ drain'[r].win = u
        /\ drain'[r].pc = IF d.pc = "baseline" THEN "send" ELSE "nsend"
    BY <1>1, <1>4 DEF DrainSubmit, TypeOK, Drain, u
  <2>2. QED BY <2>1 DEF DrainUses, Holding, u
<1>5. CASE \/ DrainBusy(r) \/ DrainNoSlot(r) \/ DrainNotMarked(r) \/ DrainNativeSent(r)
           \/ DrainSendFailed(r) \/ DrainConfirmed(r) \/ DrainSent(r)
  <2>1. drain'[r].pc \in {"top", "refresh"}
    <3>1. CASE DrainSent(r)
      BY <1>1, <3>1 DEF DrainSent, TypeOK, Drain
    <3>2. CASE ~DrainSent(r)
      <4>1. DrainAgain(r)
        BY <1>5, <3>2 DEF DrainBusy, DrainNoSlot, DrainNotMarked, DrainNativeSent, DrainSendFailed,
           DrainConfirmed
      <4>2. QED BY <4>1 DEF DrainAgain, NewDrain, NoDrain, TypeOK
    <3>3. QED BY <3>1, <3>2
  <2>2. Holding(u) \/ Freeing(u)
    BY <1>1, <1>2, <1>5 DEF DrainBusy, DrainNoSlot, DrainNotMarked, DrainNativeSent, DrainSendFailed,
       DrainConfirmed, DrainSent, Holding, Freeing, u
  <2>3. QED BY <2>1, <2>2 DEF DrainUses, u
<1>6. CASE \/ DrainEmpty(r) \/ DrainDrop(r) \/ DrainFault(r) \/ DrainPopFault(r)
           \/ DrainSendError(r) \/ DrainRefreshError(r) \/ DrainTail(r)
  <2> DEFINE As == {adm, MarkSubmitted(adm, u), Release(adm, u), Forget(adm, u),
                    ClearPending(adm, u)}
  <2>1. PICK rws, qs, cfm, a : DrainExit(r, rws, qs, cfm, a) /\ a \in As
    BY <1>6 DEF DrainEmpty, DrainDrop, DrainFault, DrainPopFault, DrainSendError,
       DrainRefreshError, DrainTail, SendAborted, u
  <2>2. a \in Controller /\ (a.reserved = adm.reserved \/ a.reserved = adm.reserved \ {u})
    BY <1>1, <1>2, <2>1
  <2>3. adm'.reserved = a.reserved
    BY <1>1, <2>1, <2>2, ExitReserves
  <2>4. drain'[r].pc \in {"none", "top"}
    <3>1. PICK e \in Successors(rws, qs, cfm, r, d.win) : drain' = [drain EXCEPT ![r] = e]
      BY <2>1 DEF DrainExit
    <3>2. drain'[r] = e
      BY <3>1 DEF TypeOK
    <3>3. QED BY <3>1, <3>2, SuccessorsFresh, FreshPc
  <2>5. QED BY <2>2, <2>3, <2>4 DEF DrainUses, Holding, Freeing, u
<1>7. CASE \/ DrainLook(r) \/ DrainExpire(r) \/ DrainLost(r) \/ DrainNative(r) \/ DrainUnconfirmed(r)
  <2>1. adm'.reserved = adm.reserved
    BY <1>1, <1>2, <1>7 DEF DrainLook, DrainExpire, DrainLost, DrainNative, DrainUnconfirmed, u
  <2>2. drain'[r].pc \notin {"baseline", "send"}
    BY <1>1, <1>7 DEF DrainLook, DrainExpire, DrainLost, DrainNative, DrainUnconfirmed, Drains,
       TypeOK, Drain
  <2>3. QED BY <2>1, <2>2 DEF DrainUses, Holding, u
<1>8. QED BY <1>3, <1>4, <1>5, <1>6, <1>7 DEF DrainStep, u

\* A handler that gives a slot back or takes one is sending.
LEMMA HandlerSlots ==
    ASSUME OneByOne, TypeOK, NEW r \in Routes, Alone(r), HandlerStep(r)
    PROVE  LET u == sender[r].win
           IN  \/ Holding(u) /\ \A w : SenderUses(r, w)' => SenderUses(r, w)
               \/ sender[r].pc # "idle" /\ Freeing(u) /\ \A w : ~SenderUses(r, w)'
               \/ sender[r].pc # "idle" /\ Taking(u) /\ \A w : SenderUses(r, w)' => w = u
<1> DEFINE s == sender[r]
           u == sender[r].win
<1>1. s \in Sender /\ adm \in Controller /\ (s.pc \notin {"idle", "discard"} => u \in Windows)
  BY DEF TypeOK, Sender
<1>2. ASSUME u \in Windows
      PROVE  \A a \in Controller :
         /\ MarkSubmitted(a, u).reserved = a.reserved \ {u}
         /\ Release(a, u).reserved = a.reserved \ {u}
         /\ ObserveActive(a, u).reserved = a.reserved
         /\ ObserveInactive(a, u).reserved = a.reserved
         /\ ClearPending(a, u).reserved = a.reserved
         /\ MarkSubmitted(a, u) \in Controller /\ Release(a, u) \in Controller
  BY <1>2, Reserves, ControllerOps
<1> HIDE DEF u
<1>3. CASE QueueBehind(r) \/ SendDirect(r)
  <2>1. binding[r] \in Windows /\ adm' = SetPending(adm, binding[r])
    BY <1>3 DEF QueueBehind, SendDirect, Enqueue, TypeOK
  <2>2. sender'[r].pc = "capture" \/ sender' = sender
    BY <1>3, HoldIs DEF QueueBehind, SendDirect
  <2>3. QED BY <1>1, <2>1, <2>2, Reserves DEF SenderUses, Holding, u
<1>4. CASE DirectAcquire(r)
  <2>1. s.pc # "idle" /\ Taking(u) /\ sender'[r].win = u
    BY <1>4, HoldIs DEF DirectAcquire, Holds, Taking, u
  <2>2. QED BY <2>1 DEF SenderUses, u
<1>5. CASE DirectSubmit(r)
  <2>1. s.pc = "baseline" /\ sender'[r].pc = "send" /\ sender'[r].win = u /\ adm' = adm
    BY <1>5, HoldIs DEF DirectSubmit, Holds, u
  <2>2. QED BY <2>1 DEF SenderUses, Holding, u
<1>6. CASE \/ DirectDefer(r) \/ DirectUnavailable(r) \/ DirectSent(r) \/ DirectSendFailed(r)
           \/ DirectPopFault(r) \/ DirectSendError(r)
  <2>1. u \in Windows /\ s.pc # "idle" /\ sender'[r] = NoSender
    BY <1>1, <1>6, UnlockIs DEF DirectDefer, DirectUnavailable, DirectSent, DirectSendFailed,
       DirectPopFault, DirectSendError, Holds
  <2>2. \E a \in {adm, MarkSubmitted(adm, u), Release(adm, u), ObserveActive(adm, u),
                  ObserveInactive(adm, u)} : adm' \in {a, ClearPending(a, u)}
    BY <1>6 DEF DirectDefer, DirectUnavailable, DirectSent, DirectSendFailed, DirectPopFault,
       DirectSendError, u
  <2>3. ObserveActive(adm, u) \in Controller /\ ObserveInactive(adm, u) \in Controller
    BY <1>1, <2>1, ControllerOps
  <2>4. Holding(u) \/ Freeing(u)
    BY <1>1, <1>2, <2>1, <2>2, <2>3 DEF Holding, Freeing
  <2>5. QED BY <2>1, <2>4 DEF SenderUses, NoSender, u
<1>7. CASE RefuseFull(r) \/ NativeSubmit(r) \/ NativeFailed(r) \/ NativeSent(r)
  <2>1. adm' = adm /\ (sender' = sender \/ sender'[r].pc \in {"nsend", "idle"})
    BY <1>7, HoldIs, UnlockIs DEF RefuseFull, NativeSubmit, NativeFailed, NativeSent, NoSender
  <2>2. QED BY <2>1 DEF SenderUses, Holding, u
<1>8. ~SendNative(r) /\ ~DiscardStart(r) /\ ~DiscardFinish(r)
  BY DEF OneByOne, SendNative, DiscardStart, DiscardFinish, Alone
<1>9. QED
  BY <1>3, <1>4, <1>5, <1>6, <1>7, <1>8 DEF HandlerStep, DirectStep, NativeStep, u

Uses(r, w) == DrainUses(r, w) \/ SenderUses(r, w)

\* Who dispatches or holds the topic's lock does so at the window the topic is bound to.
LEMMA ActsAtBinding ==
    ASSUME AloneInv, NEW r \in Routes
    PROVE  /\ drain[r].pc # "none" => drain[r].win = binding[r]
           /\ sender[r].pc # "idle" => sender[r].win = binding[r]
           /\ \A w : Uses(r, w) => w = binding[r]
<1>1. /\ OwnWindow(r) /\ SenderOk(r, sender[r], queues[r], rows, phase) /\ sender[r] \in Sender
      /\ Alone(r)
  BY DEF AloneInv, OwnInv, CustodyInv, SendInv, TypeOK, Custody, TopicOk
<1>2. drain[r].pc # "none" => drain[r].win = binding[r]
  BY <1>1 DEF OwnWindow
<1>3. sender[r].pc # "idle" => sender[r].win = binding[r]
  BY <1>1 DEF SenderOk, Belongs, OwnWindow, Sender, Alone, Holds
<1>4. QED BY <1>2, <1>3 DEF Uses, DrainUses, SenderUses

\* How a topic's step changes its dispatches and the slots.
LEMMA TopicSlots ==
    ASSUME OneByOne, AloneInv, NEW r \in Routes, DrainStep(r) \/ HandlerStep(r)
    PROVE  \E u \in Windows :
              \/ Holding(u) /\ \A w : Uses(r, w)' => Uses(r, w)
              \/ u = binding[r] /\ Freeing(u) /\ \A w : ~Uses(r, w)'
              \/ u = binding[r] /\ Taking(u) /\ \A w : Uses(r, w)' => w = u
<1>1. TypeOK /\ Alone(r) /\ binding[r] \in Windows
  BY DEF AloneInv, OwnInv, OwnWindow, CustodyInv, SendInv
<1> DEFINE u == binding[r]
<1>2. CASE DrainStep(r)
  <2>1. drain[r].win = u /\ sender' = sender /\ sender[r].pc = "idle"
    BY <1>1, <1>2, DrainRuns, ActsAtBinding DEF Settled, Alone, Holds
  <2>2. \A w : ~SenderUses(r, w)'
    BY <2>1 DEF SenderUses
  <2>3. \/ Holding(u) /\ \A w : DrainUses(r, w)' => DrainUses(r, w)
        \/ Freeing(u) /\ \A w : ~DrainUses(r, w)'
        \/ Taking(u) /\ \A w : DrainUses(r, w)' => w = u
    BY <1>1, <1>2, <2>1, DrainSlots
  <2>4. QED BY <1>1, <2>2, <2>3 DEF Uses
<1>3. CASE HandlerStep(r)
  <2>1. ~DiscardFinish(r)
    BY <1>1 DEF Alone, DiscardFinish
  <2>2. \A w : DrainUses(r, w)' => DrainUses(r, w)
    BY <1>1, <1>3, <2>1, HandlerLeavesDrain, FreshPc DEF DrainUses
  <2>3. sender[r].pc # "idle" => sender[r].win = u /\ \A w : ~DrainUses(r, w)
    BY <1>1, ActsAtBinding DEF Alone, Holds, DrainUses
  <2>4. \/ Holding(u) /\ \A w : SenderUses(r, w)' => SenderUses(r, w)
        \/ sender[r].pc # "idle" /\ Freeing(u) /\ \A w : ~SenderUses(r, w)'
        \/ sender[r].pc # "idle" /\ Taking(u) /\ \A w : SenderUses(r, w)' => w = u
    BY <1>1, <1>3, <2>3, HandlerSlots DEF Holding
  <2>5. QED BY <1>1, <2>2, <2>3, <2>4 DEF Uses
<1>4. QED BY <1>2, <1>3

LEMMA SlotsKept ==
    ASSUME OneByOne, MaxActiveTurns # 0, AloneInv, AloneInv', SlotsHeld, alive \subseteq Windows,
           alive' = alive, NEW r \in Routes, DrainStep(r) \/ HandlerStep(r)
    PROVE  SlotsHeld'
<1>1. /\ CustodyInv /\ TypeOK' /\ adm \in Controller
      /\ \A t \in Routes : binding[t] = binding[r] => t = r
  BY DEF AloneInv, OwnInv, OwnWindow, CustodyInv, SendInv, TypeOK
<1>2. \A t \in Routes \ {r} : \A w : Uses(t, w)' <=> Uses(t, w)
  <2>1. StepOf(r)
    BY <1>1, DrainKeepsCustody, HandlerKeepsCustody
  <2>2. QED BY <2>1 DEF StepOf, Uses, DrainUses, SenderUses
<1>3. \A t \in Routes, w \in alive : Uses(t, w) => w \in adm.reserved /\ w = binding[t]
  BY ActsAtBinding DEF SlotsHeld, Uses
<1>4. PICK u \in Windows :
              \/ Holding(u) /\ \A w : Uses(r, w)' => Uses(r, w)
              \/ u = binding[r] /\ Freeing(u) /\ \A w : ~Uses(r, w)'
              \/ u = binding[r] /\ Taking(u) /\ \A w : Uses(r, w)' => w = u
  BY TopicSlots
<1>5. CASE Holding(u) /\ \A w : Uses(r, w)' => Uses(r, w)
  BY <1>2, <1>3, <1>5 DEF SlotsHeld, Holding, Uses
<1>6. CASE u = binding[r] /\ Freeing(u) /\ \A w : ~Uses(r, w)'
  <2>1. ASSUME NEW t \in Routes, NEW w \in alive, Uses(t, w)' PROVE w \in adm'.reserved
    BY <1>1, <1>2, <1>3, <1>6, <2>1 DEF Freeing
  <2>2. Cardinality(adm'.reserved) <= MaxActiveTurns
    <3>1. IsFiniteSet(adm.reserved) /\ MaxActiveTurns \in Nat
      BY <1>1, TurnAdmissionAssumption, FS_Subset DEF Controller
    <3>2. adm'.reserved \subseteq adm.reserved
      BY <1>6 DEF Freeing
    <3>3. QED BY <3>1, <3>2, FS_Subset, FS_CardinalityType DEF SlotsHeld
  <2>3. QED BY <2>1, <2>2 DEF SlotsHeld, Uses
<1>7. CASE u = binding[r] /\ Taking(u) /\ \A w : Uses(r, w)' => w = u
  <2>1. adm'.reserved = adm.reserved \cup {u} /\ Cardinality(adm'.reserved) <= MaxActiveTurns
    BY <1>1, <1>7, TakingCounts DEF SlotsHeld
  <2>2. ASSUME NEW t \in Routes, NEW w \in alive, Uses(t, w)' PROVE w \in adm'.reserved
    BY <1>2, <1>3, <1>7, <2>1, <2>2
  <2>3. QED BY <2>1, <2>2 DEF SlotsHeld, Uses
<1>8. QED BY <1>4, <1>5, <1>6, <1>7

\* The other steps of the queue start no dispatch and give no slot out.
LEMMA QueueKeepsSlots ==
    ASSUME OneByOne, MaxActiveTurns # 0, AloneInv, AloneInv', SlotsHeld, alive \subseteq Windows,
           alive' = alive, Next
    PROVE  SlotsHeld'
<1>1. /\ CustodyInv /\ TypeOK /\ TypeOK' /\ adm \in Controller
      /\ \A t \in Routes : Alone(t) /\ Custody(t)
  BY DEF AloneInv, OwnInv, CustodyInv, SendInv, TypeOK
<1>2. ASSUME NEW q \in Ids, ConfirmationStep(q) PROVE SlotsHeld'
  <2>1. /\ UNCHANGED <<sender, adm>>
        /\ \A t \in Routes : drain'[t] = drain[t] \/ drain'[t] \in {NewDrain(v) : v \in Windows}
    BY <1>1, <1>2, ConfirmationKeepsCustody
  <2>2. \A v : NewDrain(v).pc = "top"
    BY DEF NewDrain, NoDrain
  <2>3. \A t \in Routes : \A w : DrainUses(t, w)' \/ SenderUses(t, w)' => DrainUses(t, w) \/ SenderUses(t, w)
    BY <2>1, <2>2 DEF DrainUses, SenderUses
  <2>4. QED BY <2>1, <2>3 DEF SlotsHeld
<1>3. CASE Stop \/ Crash
  <2>1. adm' = EmptyController /\ \A t \in Routes : sender'[t].pc = "idle"
    BY <1>3 DEF Stop, Crash, Holds, NoSender
  <2>2. \A t \in Routes : drain'[t].pc \notin {"baseline", "send"}
    <3>1. CASE Crash
      BY <3>1 DEF Crash, NoDrain
    <3>2. CASE Stop
      <4>1. PICK e \in [Routes -> NewDrains] :
                 \E qs : drain' = [t \in Routes |-> Orphaned(e[t], qs, t)]
        BY <3>2 DEF Stop, NewDrains
      <4>2. QED BY <4>1, OrphanedPc
    <3>3. QED BY <1>3, <3>1, <3>2
  <2>3. Cardinality({}) = 0 /\ MaxActiveTurns \in Nat
    BY FS_EmptySet, TurnAdmissionAssumption
  <2>4. QED BY <2>1, <2>2, <2>3 DEF SlotsHeld, DrainUses, SenderUses, EmptyController
<1>4. CASE Restore
  <2>1. phase = "down" /\ sender' = sender
    BY <1>4 DEF Restore
  <2>2. \A t \in Routes : sender[t].pc = "idle"
    BY <1>1, <2>1 DEF Custody, TopicOk, SenderOk
  <2>3. \E S : adm' = [adm EXCEPT !.pending = S]
    BY <1>4 DEF Restore
  <2>4. adm'.reserved = adm.reserved
    BY <1>1, <2>3 DEF Controller
  <2>5. drain' \in [Routes -> NewDrains]
    BY <1>4 DEF Restore, NewDrains
  <2>6. \A t \in Routes : drain'[t].pc \in {"none", "top"}
    BY <2>5, FreshPc
  <2>7. QED BY <2>1, <2>2, <2>4, <2>6 DEF SlotsHeld, DrainUses, SenderUses
<1>5. \A r \in Routes : ~Rebind(r)
  BY DEF OneByOne, Rebind
<1>6. QED BY <1>2, <1>3, <1>4, <1>5, SlotsKept DEF Next

\* A step that changes only what the controller knows leaves the topics alone.
LEMMA AdmissionOnly ==
    ASSUME AloneInv, adm' \in Controller,
           UNCHANGED <<rows, nextId, binding, phase, queues, drain, sender, confirm, sends>>
    PROVE  AloneInv'
<1>1. SendInv'
  BY DEF AloneInv, OwnInv, CustodyInv, SendInv, TypeOK, FreshIds, UnsentUntilSubmitted, AtMostOnce
<1>2. \A r \in Routes : Custody(r)' /\ OwnWindow(r)' /\ Alone(r)'
  BY DEF AloneInv, OwnInv, CustodyInv, Custody, OwnWindow, Alone, Holds, Confirming
<1>3. \A p \in Ids : ConfirmOk(p)'
  BY DEF AloneInv, ConfirmInv, ConfirmOk, Gone
<1>4. TurnsOnly'
  BY DEF AloneInv, TurnsOnly
<1>5. QED BY <1>1, <1>2, <1>3, <1>4 DEF AloneInv, OwnInv, CustodyInv, ConfirmInv

LEMMA SlotsStep ==
    ASSUME OneByOne, MaxActiveTurns # 0, SlotsInv, [TurnNext]_turnVars
    PROVE  SlotsInv'
<1>1. /\ RestInv /\ RestInv' /\ AloneInv /\ SlotsHeld /\ alive \subseteq Windows
      /\ adm \in Controller /\ \A r \in Routes : binding[r] \in Windows
  BY RestInvNext DEF SlotsInv, RestInv, AloneInv, OwnInv, OwnWindow, CustodyInv, SendInv, TypeOK
<1>2. ASSUME adm' \in Controller, alive' \subseteq alive,
             UNCHANGED <<rows, nextId, binding, phase, queues, drain, sender, confirm, sends>>,
             NEW S \in SUBSET (Windows \ alive'), adm'.reserved = adm.reserved \ S
      PROVE  SlotsInv'
  <2>1. AloneInv'
    BY <1>1, <1>2, AdmissionOnly
  <2>2. Cardinality(adm'.reserved) <= MaxActiveTurns
    <3>1. IsFiniteSet(adm.reserved) /\ MaxActiveTurns \in Nat /\ adm'.reserved \subseteq adm.reserved
      BY <1>1, <1>2, TurnAdmissionAssumption, FS_Subset DEF Controller
    <3>2. QED BY <1>1, <3>1, FS_Subset, FS_CardinalityType DEF SlotsHeld
  <2>3. QED BY <1>1, <1>2, <2>1, <2>2 DEF SlotsInv, SlotsHeld, DrainUses, SenderUses
<1>3. CASE QueueStep
  <2>1. Next /\ alive' = alive
    BY <1>3 DEF QueueStep
  <2>2. AloneInv'
    BY <1>1, <2>1, AloneStep
  <2>3. SlotsHeld'
    BY <1>1, <2>1, <2>2, QueueKeepsSlots
  <2>4. QED BY <1>1, <2>2, <2>3 DEF SlotsInv
<1>4. ASSUME \/ UNCHANGED turnVars
             \/ \E w \in Windows : Finish(w) \/ TimeoutElapses(w)
             \/ \E r \in Routes : PollCapture(r)
      PROVE  SlotsInv'
  <2>1. adm' = adm /\ alive' = alive
        /\ UNCHANGED <<rows, nextId, binding, phase, queues, drain, sender, confirm, sends>>
    BY <1>4 DEF Finish, TimeoutElapses, PollCapture, turnVars, agents, vars, memory
  <2>2. {} \in SUBSET (Windows \ alive') /\ adm'.reserved = adm.reserved \ {}
    BY <2>1
  <2>3. QED BY <1>1, <1>2, <2>1, <2>2
<1>5. ASSUME NEW r \in Routes, PollMissing(r) PROVE SlotsInv'
  <2>1. binding[r] \in Windows \ alive /\ adm' = Forget(adm, binding[r])
    BY <1>5 DEF PollMissing
  <2>2. adm' \in Controller /\ adm'.reserved = adm.reserved \ {binding[r]}
    BY <1>1, <2>1, ControllerOps, Reserves
  <2>3. QED BY <1>2, <1>5, <2>1, <2>2 DEF PollMissing
<1>6. CASE PollReport
  <2>1. poll.win \in Windows /\ \E idle \in {FALSE, poll.idle} : adm' = Observed(idle, poll.win)
    BY <1>1, <1>6 DEF PollReport, RestInv
  <2>2. adm' \in Controller /\ adm'.reserved = adm.reserved
    BY <1>1, <2>1, ControllerOps, Reserves DEF Observed
  <2>3. {} \in SUBSET (Windows \ alive') /\ adm'.reserved = adm.reserved \ {}
    BY <2>2
  <2>4. alive' = alive
        /\ UNCHANGED <<rows, nextId, binding, phase, queues, drain, sender, confirm, sends>>
    BY <1>6 DEF PollReport
  <2>5. QED BY <1>2, <2>2, <2>3, <2>4
<1>7. CASE PollKill /\ adm' # adm
  <2>1. adm' = Forget(adm, poll.win) /\ alive' = alive \ {poll.win}
    BY <1>7 DEF PollKill
  <2>2. adm' \in Controller /\ adm'.reserved = adm.reserved \ ({poll.win} \cap Windows)
    BY <1>1, <2>1 DEF Forget, Controller
  <2>3. {poll.win} \cap Windows \subseteq Windows \ alive'
    BY <2>1
  <2>4. alive' \subseteq alive
        /\ UNCHANGED <<rows, nextId, binding, phase, queues, drain, sender, confirm, sends>>
    BY <1>7, <2>1 DEF PollKill
  <2>5. QED BY <1>2, <2>2, <2>3, <2>4
<1>8. CASE PollKill /\ adm' = adm
  <2>1. {} \in SUBSET (Windows \ alive') /\ adm'.reserved = adm.reserved \ {} /\ adm' \in Controller
    BY <1>1, <1>8
  <2>2. alive' \subseteq alive
        /\ UNCHANGED <<rows, nextId, binding, phase, queues, drain, sender, confirm, sends>>
    BY <1>8 DEF PollKill
  <2>3. QED BY <1>2, <2>1, <2>2
<1>9. QED BY <1>3, <1>4, <1>5, <1>6, <1>7, <1>8 DEF TurnNext

\* turn_admission.py, bot.py and status_polling.py: the live windows that drains and
\* handlers dispatch to are never more than the turn limit, whatever fails, restarts,
\* is reported late or hibernated.
THEOREM DispatchesAreLimited ==
    ASSUME OneByOne
    PROVE  TurnSpec => []DispatchesWithinLimit
<1>1. CASE MaxActiveTurns = 0
  <2>1. TurnSpec => []TRUE
    BY PTL
  <2>2. DispatchesWithinLimit
    BY <1>1 DEF DispatchesWithinLimit
  <2>3. QED BY <2>2, PTL
<1>2. CASE MaxActiveTurns # 0
  <2>1. TurnInit => SlotsInv
    <3> SUFFICES ASSUME TurnInit PROVE SlotsInv
      OBVIOUS
    <3>1. Init /\ RestInv /\ CustodyInv
      BY RestInvInit, CustodyInit DEF TurnInit
    <3>2. /\ \A p \in Ids : rows[p].state = "new" /\ rows[p].mode = "turn" /\ confirm[p] = "none"
          /\ \A r \in Routes : sender[r].pc = "idle" /\ drain[r].pc = "none"
          /\ adm.reserved = {}
      BY <3>1 DEF Init, NoRow, NoSender, NoDrain, EmptyController
    <3>3. \A r \in Routes : OwnWindow(r)
      BY <3>1, <3>2 DEF Init, OwnWindow
    <3>4. AloneInv
      BY <3>1, <3>2, <3>3 DEF AloneInv, OwnInv, ConfirmInv, ConfirmOk, Gone, TurnsOnly, Alone, Holds
    <3>5. SlotsHeld
      BY <3>2, FS_EmptySet, TurnAdmissionAssumption DEF SlotsHeld, DrainUses, SenderUses
    <3>6. QED BY <3>1, <3>4, <3>5 DEF SlotsInv
  <2>2. SlotsInv /\ [TurnNext]_turnVars => SlotsInv'
    BY <1>2, SlotsStep
  <2>3. SlotsInv => DispatchesWithinLimit
    <3> SUFFICES ASSUME SlotsInv PROVE Cardinality(Dispatching \cap alive) <= MaxActiveTurns
      BY DEF DispatchesWithinLimit
    <3>1. Dispatching \cap alive \subseteq adm.reserved
      BY DEF SlotsInv, SlotsHeld, Dispatching, DrainUses, SenderUses
    <3>2. adm.reserved \subseteq Windows /\ MaxActiveTurns \in Nat
      BY TurnAdmissionAssumption
      DEF SlotsInv, AloneInv, OwnInv, CustodyInv, SendInv, TypeOK, Controller
    <3>3. IsFiniteSet(adm.reserved)
      BY <3>2, TurnAdmissionAssumption, FS_Subset
    <3>4. QED
      BY <3>1, <3>2, <3>3, FS_Subset, FS_CardinalityType DEF SlotsInv, SlotsHeld
  <2>4. QED BY <2>1, <2>2, <2>3, PTL DEF TurnSpec
<1>3. QED BY <1>1, <1>2

===============================================================================
