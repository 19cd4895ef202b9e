----------------------- MODULE AgentInputQueue_proofs -----------------------
(***************************************************************************)
(* What holds of the agent input queue for every number of topics, windows *)
(* and prompts: its types, and that no prompt is sent twice.               *)
(***************************************************************************)
EXTENDS AgentInputQueue, SequenceTheorems, TLAPS

Queues == [Routes -> [Windows -> Seq(Ids)]]

-------------------------------------------------------------------------------
(* What the operators of the model return.                                  *)

LEMMA IdsAreNats == Ids \subseteq Nat /\ NoId \notin Ids
BY AgentInputQueueAssumption DEF Ids, NoId

\* The controller's operations.
LEMMA ControllerOps ==
    ASSUME NEW a \in Controller, NEW w \in Windows
    PROVE  /\ Acquire(a, w) \in Controller
           /\ MarkSubmitted(a, w) \in Controller
           /\ Release(a, w) \in Controller
           /\ ObserveActive(a, w) \in Controller
           /\ ObserveInactive(a, w) \in Controller
           /\ Forget(a, w) \in Controller
           /\ SetPending(a, w) \in Controller
           /\ ClearPending(a, w) \in Controller
BY DEF Controller, Acquire, MarkSubmitted, Release, ObserveActive, ObserveInactive,
       Forget, SetPending, ClearPending

\* Deleting rows keeps every row well formed.
LEMMA DeletedType ==
    ASSUME TypeOK, NEW S
    PROVE  Deleted(S) \in [Ids -> Row]
BY DEF TypeOK, Deleted, Row, Stored

LEMMA ConfirmedType ==
    ASSUME TypeOK, NEW p
    PROVE  Confirmed(p) \in [Ids -> Row]
BY DeletedType DEF Confirmed

LEMMA MarkedType ==
    ASSUME TypeOK, NEW p, Markable(p)
    PROVE  Marked(p) \in [Ids -> Row]
BY DEF TypeOK, Markable, Marked, Row

LEMMA WatchedType ==
    ASSUME TypeOK, NEW p
    PROVE  Watched(p) \in [Ids -> {"none", "probe", "notify"}]
BY DEF TypeOK, Watched

\* The drains that start.
LEMMA NewDrainType ==
    /\ NoDrain \in Drain
    /\ \A w \in Windows : NewDrain(w) \in Drain
BY EmptySeq DEF NoDrain, NewDrain, Drain, DrainPc

LEMMA EnsuredType ==
    ASSUME NEW d \in Drain, NEW rws, NEW cfm, NEW r, NEW w \in Windows
    PROVE  Ensured(d, rws, cfm, r, w) \in Drain
BY NewDrainType DEF Ensured

LEMMA SuccessorsType ==
    ASSUME NEW rws, NEW qs, NEW cfm, NEW r, NEW w
    PROVE  Successors(rws, qs, cfm, r, w) \subseteq Drain
BY NewDrainType, EnsuredType DEF Successors

\* A discard that begins leaves the topic's drain, or starts one where none runs.
LEMMA DiscardWakes ==
    ASSUME TypeOK, NEW r \in Routes, DiscardStart(r)
    PROVE  \/ drain' = drain
           \/ \E v \in Windows : /\ drain[r].pc = "none" /\ queues[r][v] # <<>>
                                 /\ drain' = [drain EXCEPT ![r] = NewDrain(v)]
<1> DEFINE cfm == [p \in Ids |-> IF rows[p].route = r THEN "none" ELSE confirm[p]]
<1>1. PICK d \in Woken(r, cfm) : drain' = [drain EXCEPT ![r] = d]
  BY DEF DiscardStart
<1>2. CASE d = drain[r]
  BY <1>1, <1>2 DEF TypeOK
<1>3. CASE d # drain[r]
  <2>1. PICK v \in Windows : d = NewDrain(v) /\ queues[r][v] # <<>> /\ ~RouteHasDrain(r)
    BY <1>1, <1>3 DEF Woken
  <2>2. QED BY <1>1, <2>1 DEF RouteHasDrain
<1>4. QED BY <1>2, <1>3

\* The deque of a drain that runs.
LEMMA DequeType ==
    ASSUME TypeOK, NEW r \in Routes, drain[r].pc # "none"
    PROVE  /\ drain[r].win \in Windows
           /\ Deque(r) \in Seq(Ids)
           /\ Cleared(r) \in Queues
           /\ Deque(r) # <<>> => Head(Deque(r)) \in Ids /\ Popped(r) \in Queues
<1>1. drain[r] \in Drain /\ drain[r].win \in Windows
  BY DEF TypeOK, Drain
<1>2. queues[r][drain[r].win] \in Seq(Ids) /\ drain[r].own \in Seq(Ids)
  BY <1>1 DEF TypeOK, Drain
<1>3. Deque(r) \in Seq(Ids)
  BY <1>2 DEF Deque
<1>4. Cleared(r) \in Queues
  BY <1>1, EmptySeq DEF TypeOK, Queues, Cleared
<1>5. ASSUME Deque(r) # <<>> PROVE Head(Deque(r)) \in Ids /\ Popped(r) \in Queues
  <2>1. Head(Deque(r)) \in Ids /\ Tail(Deque(r)) \in Seq(Ids)
    BY <1>3, <1>5
  <2>2. Popped(r) \in Queues
    BY <1>1, <2>1 DEF TypeOK, Queues, Popped, Deque
  <2>3. QED BY <2>1, <2>2
<1>6. QED BY <1>1, <1>3, <1>4, <1>5

LEMMA PendingAfterDrainType ==
    ASSUME NEW a \in Controller, NEW qs, NEW r, NEW w \in Windows
    PROVE  PendingAfterDrain(a, qs, r, w) \in Controller
BY ControllerOps DEF PendingAfterDrain

-------------------------------------------------------------------------------
(* The steps keep the types.                                                *)

LEMMA DrainExitTypeOK ==
    ASSUME TypeOK, NEW r \in Routes, drain[r].pc # "none",
           NEW rws \in [Ids -> Row], NEW qs \in Queues,
           NEW cfm \in [Ids -> {"none", "probe", "notify"}], NEW a \in Controller,
           DrainExit(r, rws, qs, cfm, a), Settled, UNCHANGED sends
    PROVE  TypeOK'
<1>1. drain[r].win \in Windows
  BY DequeType
<1>2. adm' \in Controller
  BY <1>1, PendingAfterDrainType DEF DrainExit
<1>3. drain' \in [Routes -> Drain]
  <2>1. PICK d \in Successors(rws, qs, cfm, r, drain[r].win) :
             drain' = [drain EXCEPT ![r] = d]
    BY DEF DrainExit
  <2>2. d \in Drain
    BY <2>1, SuccessorsType
  <2>3. QED BY <2>1, <2>2 DEF TypeOK
<1>4. QED
  BY <1>2, <1>3 DEF TypeOK, DrainExit, Settled, Queues

LEMMA DrainAgainType ==
    ASSUME TypeOK, NEW r \in Routes, drain[r].pc # "none", DrainAgain(r)
    PROVE  drain' \in [Routes -> Drain]
<1>1. NewDrain(drain[r].win) \in Drain
  BY DequeType, NewDrainType
<1>2. QED BY <1>1 DEF TypeOK, DrainAgain

LEMMA AbortedType ==
    ASSUME TypeOK, NEW r \in Routes, drain[r].pc # "none"
    PROVE  /\ SendAborted(r).queues \in Queues
           /\ SendAborted(r).confirm \in [Ids -> {"none", "probe", "notify"}]
           /\ SendAborted(r).adm \in Controller
<1>1. drain[r].win \in Windows /\ (Deque(r) # <<>> => Popped(r) \in Queues)
  BY DequeType
<1>2. QED
  BY <1>1, WatchedType, ControllerOps DEF SendAborted, TypeOK, Queues

LEMMA DrainStepTypeOK ==
    ASSUME TypeOK, NEW r \in Routes, DrainStep(r)
    PROVE  TypeOK'
<1> DEFINE w == drain[r].win
<1>1. drain[r] \in Drain /\ drain[r].pc # "none" /\ w \in Windows
  BY DEF TypeOK, Drain, DrainStep, DrainLook, DrainEmpty, DrainExpire, DrainLost, DrainDrop,
         DrainFault, DrainBusy, DrainNative, DrainAcquire, DrainNoSlot, DrainSubmit,
         DrainNotMarked, DrainSent, DrainNativeSent, DrainSendFailed, DrainPopFault,
         DrainSendError, DrainConfirmed, DrainUnconfirmed, DrainRefreshError, DrainTail,
         DrainHead, Drains
<1>2. queues \in Queues /\ rows \in [Ids -> Row] /\ adm \in Controller
      /\ confirm \in [Ids -> {"none", "probe", "notify"}] /\ sends \in [Ids -> Nat]
  BY DEF TypeOK, Queues
<1>3. Deque(r) \in Seq(Ids) /\ Cleared(r) \in Queues
      /\ (Deque(r) # <<>> => Head(Deque(r)) \in Ids /\ Popped(r) \in Queues)
  BY <1>1, DequeType
<1>4. \A a \in Controller :
         /\ ClearPending(a, w) \in Controller /\ Forget(a, w) \in Controller
         /\ ObserveActive(a, w) \in Controller /\ ObserveInactive(a, w) \in Controller
         /\ Acquire(a, w) \in Controller /\ Release(a, w) \in Controller
         /\ MarkSubmitted(a, w) \in Controller
  BY <1>1, ControllerOps
<1> HIDE DEF w
<1>5. CASE DrainLook(r)
  <2>1. [drain[r] EXCEPT !.pc = "capture"] \in Drain
    BY <1>1 DEF Drain, DrainPc, w
  <2>2. drain' = [drain EXCEPT ![r] = [drain[r] EXCEPT !.pc = "capture"]]
    BY <1>5 DEF DrainLook, TypeOK
  <2>3. QED BY <1>5, <2>1, <2>2 DEF DrainLook, TypeOK, Settled
<1>6. CASE DrainEmpty(r)
  BY <1>1, <1>2, <1>6, DrainExitTypeOK DEF DrainEmpty
<1>7. CASE DrainExpire(r)
  <2>1. PICK n \in 1..Len(queues[r][w]) :
           /\ rows' = Deleted({queues[r][w][i] : i \in 1..n})
           /\ queues' = [queues EXCEPT ![r][w] = SubSeq(queues[r][w], n + 1, Len(queues[r][w]))]
           /\ adm' = IF n = Len(queues[r][w]) THEN ClearPending(adm, w) ELSE adm
    BY <1>7 DEF DrainExpire, w
  <2>2. queues[r][w] \in Seq(Ids)
    BY <1>1, <1>2 DEF Queues
  <2>3. SubSeq(queues[r][w], n + 1, Len(queues[r][w])) \in Seq(Ids)
    BY <2>2
  <2>4. queues' \in Queues
    BY <1>1, <1>2, <2>1, <2>3 DEF Queues
  <2>5. rows' \in [Ids -> Row] /\ adm' \in Controller
    BY <1>2, <1>4, <2>1, DeletedType
  <2>6. QED BY <1>7, <2>4, <2>5 DEF DrainExpire, TypeOK, Settled, Queues
<1>8. CASE DrainLost(r)
  <2>1. PICK pc \in {"lost", "refused"} :
           drain' = [drain EXCEPT ![r].pc = pc,
                                  ![r].told = {Deque(r)[i] : i \in DOMAIN Deque(r)}]
    BY <1>8 DEF DrainLost
  <2>2. {Deque(r)[i] : i \in DOMAIN Deque(r)} \in SUBSET Ids
    BY <1>3, ElementOfSeq, LenProperties
  <2>3. [drain[r] EXCEPT !.pc = pc, !.told = {Deque(r)[i] : i \in DOMAIN Deque(r)}] \in Drain
    BY <1>1, <2>2 DEF Drain, DrainPc, w
  <2>4. drain' \in [Routes -> Drain]
    BY <2>1, <2>3 DEF TypeOK
  <2>5. QED BY <1>8, <2>4 DEF DrainLost, TypeOK, Settled
<1>9. CASE DrainDrop(r)
  <2>1. Deleted(TargetRows(r, w)) \in [Ids -> Row]
    BY DeletedType
  <2>2. (IF Drains(r, "lost") THEN Forget(adm, w) ELSE ClearPending(adm, w)) \in Controller
    BY <1>2, <1>4
  <2>3. DrainExit(r, Deleted(TargetRows(r, w)), Cleared(r), confirm,
                  IF Drains(r, "lost") THEN Forget(adm, w) ELSE ClearPending(adm, w))
        /\ Settled /\ UNCHANGED sends
    BY <1>9 DEF DrainDrop, w
  <2>4. QED BY <1>1, <1>2, <1>3, <2>1, <2>2, <2>3, DrainExitTypeOK
<1>10. CASE DrainFault(r)
  BY <1>1, <1>2, <1>10, DrainExitTypeOK DEF DrainFault
<1>11. CASE DrainBusy(r)
  <2>1. drain' \in [Routes -> Drain] /\ adm' \in Controller
    BY <1>1, <1>2, <1>4, <1>11, DrainAgainType DEF DrainBusy, w
  <2>2. QED BY <1>11, <2>1 DEF DrainBusy, TypeOK, Settled
<1>12. CASE DrainNative(r)
  <2>1. DrainHead(r) \in Ids
    BY <1>3, <1>12 DEF DrainNative, DrainHead
  <2>2. [drain[r] EXCEPT !.pc = "nbaseline", !.item = DrainHead(r)] \in Drain
    BY <1>1, <2>1 DEF Drain, DrainPc, w
  <2>3. drain' \in [Routes -> Drain]
    BY <1>12, <2>2 DEF DrainNative, TypeOK
  <2>4. QED BY <1>2, <1>4, <1>12, <2>3 DEF DrainNative, TypeOK, Settled, w
<1>13. CASE DrainAcquire(r)
  <2>1. DrainHead(r) \in Ids
    BY <1>3, <1>13 DEF DrainAcquire, DrainHead
  <2>2. [drain[r] EXCEPT !.pc = "baseline", !.item = DrainHead(r)] \in Drain
    BY <1>1, <2>1 DEF Drain, DrainPc, w
  <2>3. drain' \in [Routes -> Drain]
    BY <1>13, <2>2 DEF DrainAcquire, TypeOK
  <2>4. rows' \in [Ids -> Row]
    BY <1>2, <1>13, <2>1 DEF DrainAcquire, Row, Modes
  <2>5. adm' \in Controller
    BY <1>2, <1>4, <1>13 DEF DrainAcquire, w
  <2>6. QED BY <1>13, <2>3, <2>4, <2>5 DEF DrainAcquire, TypeOK, Settled
<1>14. CASE DrainNoSlot(r)
  <2>1. DrainHead(r) \in Ids
    BY <1>3, <1>14 DEF DrainNoSlot, DrainHead
  <2>2. rows' \in [Ids -> Row]
    BY <1>2, <1>14, <2>1 DEF DrainNoSlot, Row, Modes
  <2>3. adm' \in Controller
    BY <1>2, <1>4, <1>14 DEF DrainNoSlot, w
  <2>4. drain' \in [Routes -> Drain]
    BY <1>1, <1>14, DrainAgainType DEF DrainNoSlot
  <2>5. QED BY <1>14, <2>2, <2>3, <2>4 DEF DrainNoSlot, TypeOK, Settled
<1>15. CASE DrainSubmit(r)
  <2>1. rows' \in [Ids -> Row]
    BY <1>15, MarkedType DEF DrainSubmit
  <2>2. sends' \in [Ids -> Nat]
    BY <1>2, <1>15 DEF DrainSubmit, Markable
  <2>3. [drain[r] EXCEPT !.pc = IF drain[r].pc = "baseline" THEN "send" ELSE "nsend"] \in Drain
    BY <1>1, <1>15 DEF Drain, DrainPc, DrainSubmit, w
  <2>4. drain' \in [Routes -> Drain]
    BY <1>15, <2>3 DEF DrainSubmit, TypeOK
  <2>5. QED BY <1>15, <2>1, <2>2, <2>4 DEF DrainSubmit, TypeOK, Settled
<1>16. CASE DrainNotMarked(r)
  <2>1. drain' \in [Routes -> Drain] /\ adm' \in Controller
    BY <1>1, <1>2, <1>4, <1>16, DrainAgainType DEF DrainNotMarked, w
  <2>2. QED BY <1>16, <2>1 DEF DrainNotMarked, TypeOK, Settled
<1>17. CASE DrainSent(r)
  <2>1. [drain[r] EXCEPT !.pc = "refresh", !.item = Head(Deque(r))] \in Drain
    BY <1>1, <1>3, <1>17 DEF Drain, DrainPc, DrainSent, w
  <2>2. drain' \in [Routes -> Drain]
    BY <1>17, <2>1 DEF DrainSent, TypeOK
  <2>3. adm' \in Controller
    BY <1>2, <1>4, <1>17 DEF DrainSent, w
  <2>4. queues' \in Queues
    BY <1>3, <1>17 DEF DrainSent
  <2>5. QED BY <1>17, <2>2, <2>3, <2>4 DEF DrainSent, TypeOK, Settled, Queues
<1>18. CASE DrainNativeSent(r)
  <2>1. drain' \in [Routes -> Drain]
    BY <1>1, <1>18, DrainAgainType DEF DrainNativeSent
  <2>2. adm' \in Controller /\ queues' \in Queues
    BY <1>2, <1>3, <1>4, <1>18 DEF DrainNativeSent, w
  <2>3. confirm' \in [Ids -> {"none", "probe", "notify"}]
    BY <1>18, WatchedType DEF DrainNativeSent
  <2>4. QED BY <1>18, <2>1, <2>2, <2>3 DEF DrainNativeSent, TypeOK, Settled, Queues
<1>19. CASE DrainSendFailed(r)
  <2>1. drain' \in [Routes -> Drain]
    BY <1>1, <1>19, DrainAgainType DEF DrainSendFailed
  <2>2. adm' \in Controller /\ queues' \in Queues
    BY <1>2, <1>3, <1>4, <1>19 DEF DrainSendFailed, w
  <2>3. rows' \in [Ids -> Row]
    BY <1>19, DeletedType DEF DrainSendFailed
  <2>4. QED BY <1>19, <2>1, <2>2, <2>3 DEF DrainSendFailed, TypeOK, Settled, Queues
<1>20. CASE DrainPopFault(r)
  <2>1. PICK a \in Controller :
           DrainExit(r, rows, queues, confirm, a) /\ Settled /\ UNCHANGED sends
    BY <1>2, <1>4, <1>20 DEF DrainPopFault, w
  <2>2. QED BY <1>1, <1>2, <2>1, DrainExitTypeOK
<1>21. CASE DrainSendError(r)
  <2>1. /\ DrainExit(r, rows, SendAborted(r).queues, SendAborted(r).confirm, SendAborted(r).adm)
        /\ Settled /\ UNCHANGED sends
    BY <1>21 DEF DrainSendError
  <2>2. QED BY <1>1, <1>2, <2>1, AbortedType, DrainExitTypeOK
<1>22. CASE DrainConfirmed(r)
  <2>1. drain' \in [Routes -> Drain]
    BY <1>1, <1>22, DrainAgainType DEF DrainConfirmed
  <2>2. rows' \in [Ids -> Row]
    BY <1>22, ConfirmedType DEF DrainConfirmed
  <2>3. QED BY <1>22, <2>1, <2>2 DEF DrainConfirmed, TypeOK, Settled
<1>23. CASE DrainUnconfirmed(r)
  <2>1. [drain[r] EXCEPT !.pc = "tail"] \in Drain
    BY <1>1 DEF Drain, DrainPc, w
  <2>2. drain' \in [Routes -> Drain]
    BY <1>23, <2>1 DEF DrainUnconfirmed, TypeOK
  <2>3. confirm' \in [Ids -> {"none", "probe", "notify"}]
    BY <1>23, WatchedType DEF DrainUnconfirmed
  <2>4. QED BY <1>23, <2>2, <2>3 DEF DrainUnconfirmed, TypeOK, Settled
<1>24. CASE DrainRefreshError(r)
  BY <1>1, <1>2, <1>24, DrainExitTypeOK DEF DrainRefreshError
<1>25. CASE DrainTail(r)
  BY <1>1, <1>2, <1>25, DrainExitTypeOK DEF DrainTail
<1>26. QED
  BY <1>5, <1>6, <1>7, <1>8, <1>9, <1>10, <1>11, <1>12, <1>13, <1>14, <1>15, <1>16, <1>17,
     <1>18, <1>19, <1>20, <1>21, <1>22, <1>23, <1>24, <1>25 DEF DrainStep

\* The steps of a handler.
LEMMA EnqueueType ==
    ASSUME TypeOK, NEW r \in Routes, NEW w \in Windows, Enqueue(r, w)
    PROVE  /\ nextId \in Ids
           /\ rows' \in [Ids -> Row]
           /\ queues' \in Queues
           /\ adm' \in Controller
           /\ nextId' \in 1..MaxPrompts + 1
<1>1. nextId \in Ids /\ nextId' \in 1..MaxPrompts + 1
  BY AgentInputQueueAssumption DEF Enqueue, TypeOK, Ids
<1>2. rows' \in [Ids -> Row]
  BY <1>1 DEF Enqueue, Inserted, TypeOK, Row, Modes
<1>3. queues[r][w] \in Seq(Ids)
  BY DEF TypeOK
<1>4. Append(queues[r][w], nextId) \in Seq(Ids)
  BY <1>1, <1>3
<1>5. queues' \in Queues
  BY <1>4 DEF Enqueue, TypeOK, Queues
<1>6. adm' \in Controller
  BY ControllerOps DEF Enqueue, TypeOK
<1>7. QED BY <1>1, <1>2, <1>5, <1>6

LEMMA HoldType ==
    ASSUME TypeOK, NEW r \in Routes, NEW pc \in SenderPc, NEW w \in Windows \cup {None},
           NEW p \in Ids \cup {NoId},
           pc \notin {"idle", "discard"} => w \in Windows /\ p \in Ids,
           Hold(r, pc, w, p)
    PROVE  sender' \in [Routes -> Sender]
BY DEF TypeOK, Hold, Sender

LEMMA UnlockType ==
    ASSUME TypeOK, NEW r \in Routes, Unlock(r)
    PROVE  sender' \in [Routes -> Sender]
BY DEF TypeOK, Unlock, NoSender, Sender, SenderPc

LEMMA EnsureDrainType ==
    ASSUME TypeOK, NEW rws, NEW cfm, NEW r \in Routes, NEW w \in Windows,
           EnsureDrain(rws, cfm, r, w)
    PROVE  drain' \in [Routes -> Drain]
BY EnsuredType DEF TypeOK, EnsureDrain

LEMMA DetachedType ==
    ASSUME TypeOK, NEW r \in Routes, NEW q
    PROVE  [drain EXCEPT ![r] = Detached(r, q)] \in [Routes -> Drain]
<1>1. drain[r] \in Drain
  BY DEF TypeOK
<1>2. [drain[r] EXCEPT !.live = FALSE, !.own = <<>>] \in Drain
  BY <1>1, EmptySeq DEF Drain
<1>3. QED BY <1>1, <1>2 DEF Detached, TypeOK

LEMMA DirectStepTypeOK ==
    ASSUME TypeOK, NEW r \in Routes, DirectStep(r)
    PROVE  TypeOK'
<1> DEFINE w == sender[r].win
           p == sender[r].item
<1>1. sender[r] \in Sender /\ sender[r].pc \in {"capture", "baseline", "send"}
  BY DEF TypeOK, DirectStep, DirectUnavailable, DirectDefer, DirectAcquire, DirectSubmit,
         DirectSent, DirectSendFailed, DirectPopFault, DirectSendError, Holds
<1>2. w \in Windows /\ p \in Ids
  BY <1>1 DEF Sender
<1>3. queues \in Queues /\ rows \in [Ids -> Row] /\ adm \in Controller
      /\ confirm \in [Ids -> {"none", "probe", "notify"}] /\ sends \in [Ids -> Nat]
  BY DEF TypeOK, Queues
<1>4. Queue(r) \in Seq(Ids) /\ (Queue(r) # <<>> => Tail(Queue(r)) \in Seq(Ids))
  <2>1. Queue(r) \in Seq(Ids)
    BY <1>2, <1>3 DEF Queues, Queue
  <2>2. QED BY <2>1
<1>5. \A q \in Seq(Ids) : [queues EXCEPT ![r][w] = q] \in Queues
  BY <1>2, <1>3 DEF Queues
<1>6. \A a \in Controller :
         /\ ClearPending(a, w) \in Controller
         /\ ObserveActive(a, w) \in Controller /\ ObserveInactive(a, w) \in Controller
         /\ Acquire(a, w) \in Controller /\ Release(a, w) \in Controller
         /\ MarkSubmitted(a, w) \in Controller
  BY <1>2, ControllerOps
<1> HIDE DEF w, p
<1>7. CASE DirectUnavailable(r)
  <2> DEFINE mine == Queue(r) # <<>> /\ Head(Queue(r)) = p
             q == IF mine THEN Tail(Queue(r)) ELSE Queue(r)
  <2>1. q \in Seq(Ids)
    BY <1>4
  <2>2. queues' \in Queues
    BY <1>5, <1>7, <2>1 DEF DirectUnavailable, w, p
  <2>3. rows' \in [Ids -> Row]
    BY <1>3, <1>7, DeletedType DEF DirectUnavailable
  <2>4. adm' \in Controller
    BY <1>3, <1>6, <1>7 DEF DirectUnavailable, w
  <2>5. drain' \in [Routes -> Drain]
    BY <1>7, DetachedType DEF DirectUnavailable
  <2>6. sender' \in [Routes -> Sender]
    BY <1>7, UnlockType DEF DirectUnavailable
  <2>7. QED
    BY <1>7, <2>2, <2>3, <2>4, <2>5, <2>6 DEF DirectUnavailable, TypeOK, Elsewhere, Queues
<1>8. CASE DirectDefer(r)
  <2>1. adm' \in Controller
    BY <1>3, <1>6, <1>8 DEF DirectDefer, w
  <2>2. drain' \in [Routes -> Drain]
    BY <1>2, <1>8, EnsureDrainType DEF DirectDefer, w
  <2>3. sender' \in [Routes -> Sender]
    BY <1>8, UnlockType DEF DirectDefer
  <2>4. QED BY <1>8, <2>1, <2>2, <2>3 DEF DirectDefer, TypeOK, Elsewhere
<1>9. CASE DirectAcquire(r)
  <2>1. adm' \in Controller
    BY <1>3, <1>6, <1>9 DEF DirectAcquire, w
  <2>2. sender' \in [Routes -> Sender]
    BY <1>2, <1>9, HoldType DEF DirectAcquire, SenderPc, w, p
  <2>3. QED BY <1>9, <2>1, <2>2 DEF DirectAcquire, TypeOK, Elsewhere
<1>10. CASE DirectSubmit(r)
  <2>1. rows' \in [Ids -> Row]
    BY <1>10, MarkedType DEF DirectSubmit
  <2>2. sends' \in [Ids -> Nat]
    BY <1>2, <1>3, <1>10 DEF DirectSubmit, p
  <2>3. sender' \in [Routes -> Sender]
    BY <1>2, <1>10, HoldType DEF DirectSubmit, SenderPc, w, p
  <2>4. QED BY <1>10, <2>1, <2>2, <2>3 DEF DirectSubmit, TypeOK, Elsewhere
<1>11. CASE DirectSent(r)
  <2>1. queues' \in Queues
    BY <1>4, <1>5, <1>11 DEF DirectSent, w
  <2>2. drain' \in [Routes -> Drain]
    BY <1>11, DetachedType DEF DirectSent
  <2>3. adm' \in Controller
    BY <1>3, <1>6, <1>11 DEF DirectSent, w
  <2>4. confirm' \in [Ids -> {"none", "probe", "notify"}] /\ sender' \in [Routes -> Sender]
    BY <1>11, WatchedType, UnlockType DEF DirectSent
  <2>5. QED BY <1>11, <2>1, <2>2, <2>3, <2>4 DEF DirectSent, TypeOK, Elsewhere, Queues
<1>12. CASE DirectSendFailed(r)
  <2>1. queues' \in Queues
    BY <1>4, <1>5, <1>12 DEF DirectSendFailed, w
  <2>2. drain' \in [Routes -> Drain]
    BY <1>12, DetachedType DEF DirectSendFailed
  <2>3. adm' \in Controller
    BY <1>3, <1>6, <1>12 DEF DirectSendFailed, w
  <2>4. rows' \in [Ids -> Row] /\ sender' \in [Routes -> Sender]
    BY <1>12, DeletedType, UnlockType DEF DirectSendFailed
  <2>5. QED BY <1>12, <2>1, <2>2, <2>3, <2>4 DEF DirectSendFailed, TypeOK, Elsewhere, Queues
<1>13. CASE DirectPopFault(r)
  <2>1. adm' \in Controller /\ sender' \in [Routes -> Sender]
    BY <1>3, <1>6, <1>13, UnlockType DEF DirectPopFault, w
  <2>2. QED BY <1>13, <2>1 DEF DirectPopFault, TypeOK, Elsewhere
<1>14. CASE DirectSendError(r)
  <2> DEFINE mine == Queue(r) # <<>> /\ Head(Queue(r)) = p
             q == IF mine THEN Tail(Queue(r)) ELSE Queue(r)
  <2>1. q \in Seq(Ids)
    BY <1>4
  <2>2. queues' \in Queues
    BY <1>5, <1>14, <2>1 DEF DirectSendError, w, p
  <2>3. drain' \in [Routes -> Drain]
    BY <1>14, DetachedType DEF DirectSendError
  <2>4. adm' \in Controller
    BY <1>3, <1>6, <1>14 DEF DirectSendError, w
  <2>5. confirm' \in [Ids -> {"none", "probe", "notify"}] /\ sender' \in [Routes -> Sender]
    BY <1>14, WatchedType, UnlockType DEF DirectSendError
  <2>6. QED BY <1>14, <2>2, <2>3, <2>4, <2>5 DEF DirectSendError, TypeOK, Elsewhere, Queues
<1>15. QED
  BY <1>7, <1>8, <1>9, <1>10, <1>11, <1>12, <1>13, <1>14 DEF DirectStep

LEMMA CancelledType ==
    ASSUME TypeOK, NEW r \in Routes
    PROVE  /\ Cancelled(r).queues \in Queues
           /\ Cancelled(r).confirm \in [Ids -> {"none", "probe", "notify"}]
           /\ Cancelled(r).adm \in Controller
BY AbortedType DEF Cancelled, TypeOK, Queues

LEMMA OrphanedType ==
    ASSUME NEW d \in Drain, NEW qs \in Queues, NEW r \in Routes
    PROVE  Orphaned(d, qs, r) \in Drain
<1>1. CASE d.pc = "none"
  BY <1>1 DEF Orphaned
<1>2. CASE d.pc # "none"
  <2>1. qs[r][d.win] \in Seq(Ids)
    BY <1>2 DEF Drain, Queues
  <2>2. Looking(d) \in Drain
    BY DEF Looking, Drain, DrainPc
  <2>3. [Looking(d) EXCEPT !.live = FALSE, !.own = qs[r][d.win]] \in Drain
    BY <2>1, <2>2 DEF Drain
  <2>4. QED BY <1>2, <2>3 DEF Orphaned
<1>3. QED BY <1>1, <1>2

LEMMA DiscardFinishTypeOK ==
    ASSUME TypeOK, NEW r \in Routes, DiscardFinish(r)
    PROVE  TypeOK'
<1> DEFINE x == Cancelled(r)
           ends == IF RouteHasDrain(r)
                   THEN Successors(rows, x.queues, x.confirm, r, drain[r].win)
                   ELSE {NoDrain}
<1>1. /\ x.queues \in Queues /\ x.adm \in Controller
      /\ x.confirm \in [Ids -> {"none", "probe", "notify"}]
  BY CancelledType
<1>2. PICK d \in ends : drain' = [drain EXCEPT ![r] = Orphaned(d, x.queues, r)]
  BY DEF DiscardFinish
<1>3. d \in Drain
  BY <1>2, SuccessorsType, NewDrainType
<1>4. drain' \in [Routes -> Drain]
  BY <1>1, <1>2, <1>3, OrphanedType DEF TypeOK
<1>5. queues' \in Queues
  BY EmptySeq DEF DiscardFinish, TypeOK, Queues
<1>6. rows' \in [Ids -> Row]
  BY DeletedType DEF DiscardFinish
<1>7. PICK keys : adm' = [x.adm EXCEPT !.pending = @ \ keys]
  BY DEF DiscardFinish
<1>8. adm' \in Controller
  BY <1>1, <1>7 DEF Controller
<1>9. sender' \in [Routes -> Sender]
  BY UnlockType DEF DiscardFinish
<1>10. binding' \in [Routes -> Windows \cup {None}]
  BY DEF DiscardFinish, TypeOK
<1>11. confirm' = x.confirm /\ UNCHANGED <<nextId, phase, sends>>
  BY DEF DiscardFinish
<1>12. QED
  BY <1>1, <1>4, <1>5, <1>6, <1>8, <1>9, <1>10, <1>11 DEF TypeOK, Queues

LEMMA HandlerStepTypeOK ==
    ASSUME TypeOK, NEW r \in Routes, HandlerStep(r)
    PROVE  TypeOK'
<1> DEFINE w == binding[r]
<1>1. w \in Windows \cup {None}
  BY DEF TypeOK
<1>2. CASE QueueBehind(r)
  <2>1. w \in Windows /\ Enqueue(r, w)
    BY <1>1, <1>2 DEF QueueBehind
  <2>2. EnsureDrain(Inserted(r, w, "turn"), confirm, r, w)
    BY <1>2 DEF QueueBehind
  <2>3. drain' \in [Routes -> Drain]
    BY <2>1, <2>2, EnsureDrainType
  <2>4. QED BY <1>2, <2>1, <2>3, EnqueueType DEF QueueBehind, TypeOK, Elsewhere, Queues
<1>3. CASE RefuseFull(r)
  <2>1. w \in Windows /\ EnsureDrain(rows, confirm, r, w)
    BY <1>1, <1>3 DEF RefuseFull
  <2>2. drain' \in [Routes -> Drain]
    BY <2>1, EnsureDrainType
  <2>3. QED BY <1>3, <2>2 DEF RefuseFull, TypeOK, Elsewhere
<1>4. CASE SendDirect(r)
  <2>1. w \in Windows /\ Enqueue(r, w) /\ Hold(r, "capture", w, nextId)
    BY <1>1, <1>4 DEF SendDirect
  <2>2. nextId \in Ids
    BY <2>1, EnqueueType
  <2>3. sender' \in [Routes -> Sender]
    BY <2>1, <2>2, HoldType DEF SenderPc
  <2>4. QED BY <1>4, <2>1, <2>3, EnqueueType DEF SendDirect, TypeOK, Elsewhere, Queues
<1>5. CASE SendNative(r)
  <2>1. w \in Windows /\ nextId \in Ids /\ nextId' \in 1..MaxPrompts + 1
        /\ Hold(r, "nbaseline", w, nextId)
    BY <1>1, <1>5, AgentInputQueueAssumption DEF SendNative, TypeOK, Ids
  <2>2. PICK mode \in {"steer", "queue"} : rows' = Inserted(r, w, mode)
    BY <1>5 DEF SendNative
  <2>3. rows' \in [Ids -> Row]
    BY <2>1, <2>2 DEF Inserted, TypeOK, Row, Modes
  <2>4. sender' \in [Routes -> Sender]
    BY <2>1, HoldType DEF SenderPc
  <2>5. QED BY <1>5, <2>1, <2>3, <2>4 DEF SendNative, TypeOK, Elsewhere
<1>6. CASE DirectStep(r)
  BY <1>6, DirectStepTypeOK
<1>7. CASE NativeSubmit(r)
  <2>1. sender[r].win \in Windows /\ sender[r].item \in Ids
    BY <1>7 DEF NativeSubmit, Holds, TypeOK, Sender
  <2>2. rows' \in [Ids -> Row]
    BY <1>7, MarkedType DEF NativeSubmit
  <2>3. sends' \in [Ids -> Nat]
    BY <1>7, <2>1 DEF NativeSubmit, TypeOK
  <2>4. sender' \in [Routes -> Sender]
    BY <1>7, <2>1, HoldType DEF NativeSubmit, SenderPc
  <2>5. QED BY <1>7, <2>2, <2>3, <2>4 DEF NativeSubmit, TypeOK, Elsewhere
<1>8. CASE NativeFailed(r)
  <2>1. rows' \in [Ids -> Row] /\ sender' \in [Routes -> Sender]
    BY <1>8, DeletedType, UnlockType DEF NativeFailed
  <2>2. QED BY <1>8, <2>1 DEF NativeFailed, TypeOK, Elsewhere
<1>9. CASE NativeSent(r)
  <2>1. /\ confirm' \in [Ids -> {"none", "probe", "notify"}]
        /\ sender' \in [Routes -> Sender]
    BY <1>9, WatchedType, UnlockType DEF NativeSent
  <2>2. QED BY <1>9, <2>1 DEF NativeSent, TypeOK, Elsewhere
<1>10. CASE DiscardStart(r)
  <2>1. Hold(r, "discard", w, NoId)
    BY <1>10 DEF DiscardStart
  <2>2. sender' \in [Routes -> Sender]
    BY <1>1, <2>1, HoldType DEF SenderPc
  <2>3. confirm' \in [Ids -> {"none", "probe", "notify"}]
    BY <1>10 DEF DiscardStart, TypeOK
  <2>4. drain' \in [Routes -> Drain]
    <3>1. drain' = drain \/ \E v \in Windows : drain' = [drain EXCEPT ![r] = NewDrain(v)]
      BY <1>10, DiscardWakes
    <3>2. QED BY <3>1, NewDrainType DEF TypeOK
  <2>5. QED BY <1>10, <2>2, <2>3, <2>4 DEF DiscardStart, TypeOK, Elsewhere
<1>11. CASE DiscardFinish(r)
  BY <1>11, DiscardFinishTypeOK
<1>12. QED
  BY <1>2, <1>3, <1>4, <1>5, <1>6, <1>7, <1>8, <1>9, <1>10, <1>11 DEF HandlerStep, NativeStep

\* The steps of a confirmation task.
LEMMA ConfirmationExitType ==
    ASSUME TypeOK, NEW p \in Ids, NEW rws \in [Ids -> Row], ConfirmationExit(p, rws)
    PROVE  /\ rows' \in [Ids -> Row]
           /\ confirm' \in [Ids -> {"none", "probe", "notify"}]
           /\ drain' \in [Routes -> Drain]
<1>1. rows' \in [Ids -> Row] /\ confirm' \in [Ids -> {"none", "probe", "notify"}]
  BY DEF ConfirmationExit, TypeOK
<1>2. drain' = drain \/ \E v \in Windows : drain' = [drain EXCEPT ![rows[p].route] = NewDrain(v)]
  BY DEF ConfirmationExit
<1>3. drain' \in [Routes -> Drain]
  BY <1>2, NewDrainType DEF TypeOK
<1>4. QED BY <1>1, <1>3

LEMMA ConfirmationStepTypeOK ==
    ASSUME TypeOK, NEW p \in Ids, ConfirmationStep(p)
    PROVE  TypeOK'
<1>1. CASE ConfirmationSeen(p)
  <2>1. ConfirmationExit(p, Confirmed(p)) /\ Confirmed(p) \in [Ids -> Row]
    BY <1>1, ConfirmedType DEF ConfirmationSeen
  <2>2. QED BY <1>1, <2>1, ConfirmationExitType DEF ConfirmationSeen, TypeOK, Settled
<1>2. CASE ConfirmationRetire(p)
  BY <1>2, ConfirmedType DEF ConfirmationRetire, TypeOK, Settled
<1>3. CASE ConfirmationNotified(p)
  <2>1. ConfirmationExit(p, rows) /\ rows \in [Ids -> Row]
    BY <1>3 DEF ConfirmationNotified, TypeOK
  <2>2. QED BY <1>3, <2>1, ConfirmationExitType DEF ConfirmationNotified, TypeOK, Settled
<1>4. QED BY <1>1, <1>2, <1>3 DEF ConfirmationStep

\* The end of the process and its restart.
LEMMA StopTypeOK == ASSUME TypeOK, Stop PROVE TypeOK'
<1>1. queues' \in Queues
  BY EmptySeq DEF Stop, Queues
<1>2. confirm' \in [Ids -> {"none", "probe", "notify"}]
  BY DEF Stop
<1>3. adm' \in Controller
  BY DEF Stop, EmptyController, Controller
<1>4. drain' \in [Routes -> Drain]
  <2> DEFINE qs == [r \in Routes |-> Cancelled(r).queues[r]]
  <2>1. qs \in Queues
    BY CancelledType DEF Queues
  <2>2. PICK d \in [Routes -> {NoDrain} \cup {NewDrain(w) : w \in Windows}] :
           drain' = [r \in Routes |-> Orphaned(d[r], qs, r)]
    BY DEF Stop
  <2>3. \A r \in Routes : d[r] \in Drain
    BY <2>2, NewDrainType
  <2>4. QED BY <2>1, <2>2, <2>3, OrphanedType
<1>5. QED BY <1>1, <1>2, <1>3, <1>4 DEF Stop, TypeOK, Queues

LEMMA CrashTypeOK == ASSUME TypeOK, Crash PROVE TypeOK'
<1>1. queues' \in Queues /\ drain' \in [Routes -> Drain]
  BY EmptySeq, NewDrainType DEF Crash, Queues
<1>2. sender' \in [Routes -> Sender]
  BY DEF Crash, NoSender, Sender, SenderPc
<1>3. confirm' \in [Ids -> {"none", "probe", "notify"}] /\ adm' \in Controller
  BY DEF Crash, EmptyController, Controller
<1>4. binding' \in [Routes -> Windows \cup {None}]
  BY DEF Crash, TypeOK
<1>5. QED BY <1>1, <1>2, <1>3, <1>4 DEF Crash, TypeOK, Queues

LEMMA AscendingType == Ascending \subseteq Seq(Ids)
<1>1. \A n \in 0..MaxPrompts : [1..n -> Ids] \subseteq Seq(Ids)
  BY AgentInputQueueAssumption, SeqDef
<1>2. QED BY <1>1 DEF Ascending

LEMMA RestoreTypeOK == ASSUME TypeOK, Restore PROVE TypeOK'
<1> DEFINE target(p) == IF binding[rows[p].route] # None THEN binding[rows[p].route]
                        ELSE rows[p].win
<1>1. \A p \in Ids : rows[p].state = "queued" => target(p) \in Windows
  BY DEF TypeOK, Row
<1>2. rows' = [p \in Ids |-> IF rows[p].state = "queued"
                             THEN [rows[p] EXCEPT !.win = target(p)] ELSE rows[p]]
  BY DEF Restore
<1>3. rows' \in [Ids -> Row]
  <2> HIDE DEF target
  <2>1. ASSUME NEW p \in Ids, rows[p].state = "queued"
        PROVE  [rows[p] EXCEPT !.win = target(p)] \in Row
    BY <1>1, <2>1 DEF TypeOK, Row
  <2>2. QED BY <1>2, <2>1 DEF TypeOK
<1>4. confirm' \in [Ids -> {"none", "probe", "notify"}]
  BY DEF Restore
<1>5. queues' \in [Routes -> [Windows -> Ascending]]
  BY DEF Restore
<1>6. queues' \in Queues
  BY <1>5, AscendingType DEF Queues
<1>7. drain' \in [Routes -> {NoDrain} \cup {NewDrain(w) : w \in Windows}]
  BY DEF Restore
<1>8. drain' \in [Routes -> Drain]
  BY <1>7, NewDrainType
<1>9. PICK ws \in SUBSET Windows : adm' = [adm EXCEPT !.pending = ws]
  BY DEF Restore
<1>10. adm' \in Controller
  BY <1>9 DEF TypeOK, Controller
<1>11. phase' = "up" /\ UNCHANGED <<nextId, binding, sender, sends>>
  BY DEF Restore
<1>12. QED BY <1>3, <1>4, <1>6, <1>8, <1>10, <1>11 DEF TypeOK, Queues

-------------------------------------------------------------------------------
LEMMA TypeInit == Init => TypeOK
<1> SUFFICES ASSUME Init PROVE TypeOK
  OBVIOUS
<1>1. nextId \in 1..MaxPrompts + 1
  BY AgentInputQueueAssumption DEF Init
<1>2. rows \in [Ids -> Row]
  BY DEF Init, NoRow, Row, Modes
<1>3. sender \in [Routes -> Sender]
  BY DEF Init, NoSender, Sender, SenderPc
<1>4. queues \in [Routes -> [Windows -> Seq(Ids)]] /\ drain \in [Routes -> Drain]
  BY EmptySeq, NewDrainType DEF Init
<1>5. adm \in Controller
  BY DEF Init, EmptyController, Controller
<1>6. QED BY <1>1, <1>2, <1>3, <1>4, <1>5 DEF Init, TypeOK

LEMMA TypeStep == TypeOK /\ [Next]_vars => TypeOK'
<1> SUFFICES ASSUME TypeOK, [Next]_vars PROVE TypeOK'
  OBVIOUS
<1>1. ASSUME NEW r \in Routes, DrainStep(r) PROVE TypeOK'
  BY <1>1, DrainStepTypeOK
<1>2. ASSUME NEW r \in Routes, HandlerStep(r) PROVE TypeOK'
  BY <1>2, HandlerStepTypeOK
<1>3. ASSUME NEW r \in Routes, Rebind(r) PROVE TypeOK'
  BY <1>3 DEF Rebind, TypeOK, memory
<1>4. ASSUME NEW p \in Ids, ConfirmationStep(p) PROVE TypeOK'
  BY <1>4, ConfirmationStepTypeOK
<1>5. CASE Stop
  BY <1>5, StopTypeOK
<1>6. CASE Crash
  BY <1>6, CrashTypeOK
<1>7. CASE Restore
  BY <1>7, RestoreTypeOK
<1>8. CASE UNCHANGED vars
  BY <1>8 DEF TypeOK, vars, memory
<1>9. QED BY <1>1, <1>2, <1>3, <1>4, <1>5, <1>6, <1>7, <1>8 DEF Next

\* Every variable of the queue keeps its type, for all topics, windows and bounds:
\* accepted prompts have a target, tasks that submit hold a prompt and a window.
THEOREM TypeCorrect == Spec => []TypeOK
BY TypeInit, TypeStep, PTL DEF Spec

-------------------------------------------------------------------------------
(* What a step does to the prompts: it keeps their states, forgets some, hands *)
(* one to the agent, or accepts one.                                        *)

Keeps ==
    /\ \A p \in Ids : rows'[p].state = rows[p].state
    /\ UNCHANGED <<nextId, sends>>

Forgets ==
    /\ \E S : rows' = Deleted(S)
    /\ UNCHANGED <<nextId, sends>>

Submits ==
    /\ \E p \in Ids : /\ Markable(p)
                      /\ rows' = Marked(p)
                      /\ sends' = [sends EXCEPT ![p] = @ + 1]
    /\ UNCHANGED nextId

Accepts ==
    /\ nextId \in Ids
    /\ \E r \in Routes, w \in Windows, mode \in Modes : rows' = Inserted(r, w, mode)
    /\ nextId' = nextId + 1
    /\ UNCHANGED sends

LEMMA DrainStepKind ==
    ASSUME TypeOK, NEW r \in Routes, DrainStep(r)
    PROVE  Keeps \/ Forgets \/ Submits
<1> USE DEF Settled
<1>1. CASE DrainLook(r) \/ DrainLost(r) \/ DrainBusy(r) \/ DrainNative(r) \/ DrainNotMarked(r)
           \/ DrainSent(r) \/ DrainNativeSent(r) \/ DrainUnconfirmed(r)
  BY <1>1 DEF Keeps, DrainLook, DrainLost, DrainBusy, DrainNative, DrainNotMarked, DrainSent,
              DrainNativeSent, DrainUnconfirmed
<1>2. CASE DrainEmpty(r) \/ DrainFault(r) \/ DrainPopFault(r) \/ DrainSendError(r)
           \/ DrainRefreshError(r) \/ DrainTail(r)
  BY <1>2 DEF Keeps, DrainEmpty, DrainFault, DrainPopFault, DrainSendError, DrainRefreshError,
              DrainTail, DrainExit
<1>3. CASE DrainExpire(r) \/ DrainSendFailed(r)
  BY <1>3 DEF Forgets, DrainExpire, DrainSendFailed
<1>4. CASE DrainDrop(r)
  BY <1>4 DEF Forgets, DrainDrop, DrainExit
<1>5. CASE DrainConfirmed(r)
  BY <1>5 DEF Forgets, DrainConfirmed, Confirmed
<1>6. CASE DrainAcquire(r) \/ DrainNoSlot(r)
  <2>1. \/ rows' = rows
        \/ rows' = [rows EXCEPT ![DrainHead(r)].mode = "turn"]
    BY <1>6 DEF DrainAcquire, DrainNoSlot
  <2>2. PICK h : \/ rows' = rows
                 \/ rows' = [rows EXCEPT ![h].mode = "turn"]
    BY <2>1
  <2>3. \A p \in Ids : rows'[p].state = rows[p].state
    <3>1. CASE rows' = rows
      BY <3>1
    <3>2. CASE rows' = [rows EXCEPT ![h].mode = "turn"]
      <4>1. \A p \in Ids : rows'[p] = IF p = h THEN [rows[p] EXCEPT !.mode = "turn"]
                                      ELSE rows[p]
        BY <3>2 DEF TypeOK
      <4>2. \A p \in Ids : rows[p] \in Row
        BY DEF TypeOK
      <4>3. \A x \in Row : [x EXCEPT !.mode = "turn"].state = x.state
        BY DEF Row
      <4>4. QED BY <4>1, <4>2, <4>3
    <3>3. QED BY <2>2, <3>1, <3>2
  <2>4. QED BY <1>6, <2>3 DEF Keeps, DrainAcquire, DrainNoSlot
<1>7. CASE DrainSubmit(r)
  BY <1>7 DEF Submits, DrainSubmit, Markable
<1>8. QED
  BY <1>1, <1>2, <1>3, <1>4, <1>5, <1>6, <1>7 DEF DrainStep

LEMMA HandlerStepKind ==
    ASSUME TypeOK, NEW r \in Routes, HandlerStep(r)
    PROVE  Keeps \/ Forgets \/ Submits \/ Accepts
<1>1. CASE QueueBehind(r) \/ SendDirect(r)
  <2>1. binding[r] \in Windows /\ Enqueue(r, binding[r]) /\ UNCHANGED sends
    BY <1>1 DEF QueueBehind, SendDirect, TypeOK
  <2>2. nextId \in Ids
    BY <2>1, EnqueueType
  <2>3. QED BY <2>1, <2>2 DEF Accepts, Enqueue, Modes
<1>2. CASE SendNative(r)
  <2>1. binding[r] \in Windows /\ nextId \in Ids
    BY <1>2, AgentInputQueueAssumption DEF SendNative, TypeOK, Ids
  <2>2. QED BY <1>2, <2>1 DEF SendNative, Accepts, Modes
<1>3. CASE RefuseFull(r) \/ DirectDefer(r) \/ DirectAcquire(r) \/ DirectSent(r)
           \/ DirectPopFault(r) \/ DirectSendError(r) \/ NativeSent(r) \/ DiscardStart(r)
  BY <1>3 DEF Keeps, RefuseFull, DirectDefer, DirectAcquire, DirectSent, DirectPopFault,
              DirectSendError, NativeSent, DiscardStart
<1>4. CASE DirectSendFailed(r) \/ NativeFailed(r) \/ DiscardFinish(r)
  BY <1>4 DEF Forgets, DirectSendFailed, NativeFailed, DiscardFinish
<1>5. CASE DirectUnavailable(r)
  <2>1. (rows' = rows \/ \E S : rows' = Deleted(S)) /\ UNCHANGED <<nextId, sends>>
    BY <1>5 DEF DirectUnavailable
  <2>2. QED BY <2>1 DEF Keeps, Forgets
<1>6. CASE DirectSubmit(r) \/ NativeSubmit(r)
  BY <1>6 DEF Submits, DirectSubmit, NativeSubmit, Markable
<1>7. QED
  BY <1>1, <1>2, <1>3, <1>4, <1>5, <1>6 DEF HandlerStep, DirectStep, NativeStep

LEMMA StepKind ==
    ASSUME TypeOK, [Next]_vars
    PROVE  Keeps \/ Forgets \/ Submits \/ Accepts
<1>1. ASSUME NEW r \in Routes, DrainStep(r) \/ HandlerStep(r)
      PROVE  Keeps \/ Forgets \/ Submits \/ Accepts
  BY <1>1, DrainStepKind, HandlerStepKind
<1>2. ASSUME NEW p \in Ids, ConfirmationStep(p) PROVE Keeps \/ Forgets
  BY <1>2 DEF Keeps, Forgets, ConfirmationStep, ConfirmationSeen, ConfirmationRetire,
              ConfirmationNotified, ConfirmationExit, Confirmed, Settled
<1>3. CASE (\E r \in Routes : Rebind(r)) \/ Stop \/ Crash \/ UNCHANGED vars
  BY <1>3 DEF Keeps, Rebind, Stop, Crash, vars
<1>4. CASE Restore
  <2> DEFINE target(p) == IF binding[rows[p].route] # None THEN binding[rows[p].route]
                          ELSE rows[p].win
  <2>1. rows' = [p \in Ids |-> IF rows[p].state = "queued"
                               THEN [rows[p] EXCEPT !.win = target(p)] ELSE rows[p]]
    BY <1>4 DEF Restore
  <2> HIDE DEF target
  <2>2. \A p \in Ids : rows'[p].state = rows[p].state
    BY <2>1 DEF TypeOK, Row
  <2>3. QED BY <1>4, <2>2 DEF Keeps, Restore
<1>5. QED
  BY <1>1, <1>2, <1>3, <1>4 DEF Next

\* Ids that were not given away yet belong to no prompt.
FreshIds == \A p \in Ids : p >= nextId => rows[p].state = "new"

\* A prompt that was not handed over yet has not been sent.
UnsentUntilSubmitted ==
    \A p \in Ids : rows[p].state \in {"new", "queued"} => sends[p] = 0

SendInv == TypeOK /\ FreshIds /\ UnsentUntilSubmitted /\ AtMostOnce

LEMMA DeletedStates ==
    ASSUME TypeOK, NEW S, NEW p \in Ids
    PROVE  Deleted(S)[p].state = IF p \in S /\ Stored(p) THEN "gone" ELSE rows[p].state
BY DEF TypeOK, Deleted, Row

LEMMA SendInvStep ==
    ASSUME SendInv, [Next]_vars
    PROVE  SendInv'
<1>1. TypeOK /\ TypeOK'
  BY TypeStep DEF SendInv
<1>2. \A p \in Ids : p \in Nat /\ sends[p] \in Nat
  BY <1>1, IdsAreNats DEF TypeOK
<1>3. nextId \in Nat
  BY <1>1, AgentInputQueueAssumption DEF TypeOK
<1>4. CASE Keeps
  BY <1>1, <1>4 DEF Keeps, SendInv, FreshIds, UnsentUntilSubmitted, AtMostOnce
<1>5. CASE Forgets
  <2>1. \A p \in Ids : rows'[p].state \in {rows[p].state, "gone"}
                      /\ (rows[p].state = "new" => rows'[p].state = "new")
    BY <1>1, <1>5, DeletedStates DEF Forgets, Stored
  <2>2. UNCHANGED <<nextId, sends>>
    BY <1>5 DEF Forgets
  <2>3. QED BY <1>1, <2>1, <2>2 DEF SendInv, FreshIds, UnsentUntilSubmitted, AtMostOnce
<1>6. CASE Submits
  <2>1. PICK p \in Ids : Markable(p) /\ rows' = Marked(p)
                        /\ sends' = [sends EXCEPT ![p] = @ + 1] /\ UNCHANGED nextId
    BY <1>6 DEF Submits
  <2>2. rows[p].state = "queued" /\ sends[p] = 0
    BY <2>1 DEF Markable, SendInv, UnsentUntilSubmitted
  <2>3. \A q \in Ids : rows'[q].state = IF q = p THEN "submitted" ELSE rows[q].state
    BY <1>1, <2>1 DEF Marked, TypeOK, Row
  <2>4. \A q \in Ids : sends'[q] = IF q = p THEN 1 ELSE sends[q]
    BY <1>1, <2>1, <2>2 DEF TypeOK
  <2>5. FreshIds'
    BY <2>1, <2>2, <2>3 DEF SendInv, FreshIds
  <2>6. UnsentUntilSubmitted' /\ AtMostOnce'
    BY <2>3, <2>4 DEF SendInv, UnsentUntilSubmitted, AtMostOnce
  <2>7. QED BY <1>1, <2>5, <2>6 DEF SendInv
<1>7. CASE Accepts
  <2>1. rows[nextId].state = "new"
    BY <1>3, <1>7 DEF Accepts, SendInv, FreshIds
  <2>2. \A q \in Ids : rows'[q].state = IF q = nextId THEN "queued" ELSE rows[q].state
    BY <1>1, <1>7 DEF Accepts, Inserted, TypeOK
  <2>3. FreshIds'
    BY <1>2, <1>3, <1>7, <2>2 DEF Accepts, SendInv, FreshIds
  <2>4. UnsentUntilSubmitted' /\ AtMostOnce'
    BY <1>7, <2>1, <2>2 DEF Accepts, SendInv, UnsentUntilSubmitted, AtMostOnce
  <2>5. QED BY <1>1, <2>3, <2>4 DEF SendInv
<1>8. QED BY <1>1, <1>4, <1>5, <1>6, <1>7, StepKind

\* Ids above the row counter are unused, a prompt that was not handed over has not
\* been sent, and no prompt was sent twice: together with the types, inductive.
THEOREM SendInvCorrect == Spec => []SendInv
<1>1. Init => SendInv
  <2> SUFFICES ASSUME Init PROVE SendInv
    OBVIOUS
  <2>1. TypeOK
    BY TypeInit
  <2>2. FreshIds /\ UnsentUntilSubmitted /\ AtMostOnce
    BY DEF Init, NoRow, FreshIds, UnsentUntilSubmitted, AtMostOnce
  <2>3. QED BY <2>1, <2>2 DEF SendInv
<1>2. SendInv /\ [Next]_vars => SendInv'
  BY SendInvStep
<1>3. QED BY <1>1, <1>2, PTL DEF Spec

\* No prompt reaches an agent twice, however many topics, windows, drains,
\* crashes and restarts there are.
THEOREM SentAtMostOnce == Spec => []AtMostOnce
<1>1. SendInv => AtMostOnce
  BY DEF SendInv
<1>2. QED BY <1>1, SendInvCorrect, PTL

-------------------------------------------------------------------------------
LEMMA DeliveryInit == Init => Delivery!Init
BY DEF Init, Delivery!Init, NoRow

LEMMA DeliveryStep ==
    ASSUME SendInv, [Next]_vars
    PROVE  [Delivery!Next]_(Delivery!vars)
<1>1. TypeOK
  BY DEF SendInv
<1>2. CASE Keeps
  BY <1>2 DEF Keeps, Delivery!vars
<1>3. CASE Forgets
  <2>1. PICK S : rows' = Deleted(S) /\ UNCHANGED sends
    BY <1>3 DEF Forgets
  <2>2. PICK T \in SUBSET Ids : T = {p \in Ids : p \in S /\ Stored(p)}
    OBVIOUS
  <2>3. \A p \in Ids : rows'[p].state = IF p \in T THEN "gone" ELSE rows[p].state
    BY <1>1, <2>1, <2>2, DeletedStates
  <2>4. \A p \in T : p \in Ids /\ rows[p].state \in {"queued", "submitted"}
    BY <2>2 DEF Stored
  <2>5. Delivery!Forget(T)
    BY <2>1, <2>3, <2>4 DEF Delivery!Forget
  <2>6. QED BY <2>5 DEF Delivery!Next
<1>4. CASE Submits
  <2>1. PICK p \in Ids : Markable(p) /\ rows' = Marked(p)
                        /\ sends' = [sends EXCEPT ![p] = @ + 1]
    BY <1>4 DEF Submits
  <2>2. \A q \in Ids : rows'[q].state = IF q = p THEN "submitted" ELSE rows[q].state
    BY <1>1, <2>1 DEF Marked, TypeOK, Row
  <2>3. Delivery!Submit(p)
    BY <2>1, <2>2 DEF Delivery!Submit, Markable
  <2>4. QED BY <2>3 DEF Delivery!Next
<1>5. CASE Accepts
  <2>1. PICK i \in Ids : i = nextId
    BY <1>5 DEF Accepts
  <2>2. rows[i].state = "new" /\ UNCHANGED sends
    BY <1>1, <1>5, <2>1, AgentInputQueueAssumption DEF Accepts, SendInv, FreshIds, TypeOK
  <2>3. \A q \in Ids : rows'[q].state = IF q = i THEN "queued" ELSE rows[q].state
    BY <1>1, <1>5, <2>1 DEF Accepts, Inserted, TypeOK
  <2>4. Delivery!Accept(i)
    BY <2>2, <2>3 DEF Delivery!Accept
  <2>5. QED BY <2>4 DEF Delivery!Next
<1>6. QED BY <1>1, <1>2, <1>3, <1>4, <1>5, StepKind

\* The queue implements PromptDelivery: every step of a drain, a handler, a
\* confirmation, a crash or a restart is an accept, a submit or a forget of it, or
\* changes nothing there.
THEOREM ImplementsDelivery == Spec => DeliversPrompts
<1>1. SendInv /\ [Next]_vars => [Delivery!Next]_(Delivery!vars)
  BY DeliveryStep
<1>2. QED BY <1>1, DeliveryInit, SendInvCorrect, PTL DEF Spec, DeliversPrompts, Delivery!Spec
=============================================================================
