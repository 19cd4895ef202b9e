---------------------------- MODULE TurnAdmission ----------------------------
(***************************************************************************)
(* TurnAdmissionController (turn_admission.py): the in-process bookkeeping *)
(* that bounds how many local agent turns run at once.  The controller has *)
(* no task of its own: each operation is one atomic step of its caller, so *)
(* it is given here as functions on its state, a record of three sets of   *)
(* windows.  try_acquire takes an asyncio.Lock but never suspends while it *)
(* holds it, so the lock is always free and the operation is atomic too.   *)
(***************************************************************************)
EXTENDS Integers, FiniteSets

CONSTANTS Windows,         \* tmux window ids
          MaxActiveTurns   \* config.agent_max_active_turns; 0 is unlimited

ASSUME TurnAdmissionAssumption ==
    /\ IsFiniteSet(Windows)
    /\ MaxActiveTurns \in Nat

Controller == [observed : SUBSET Windows,
               reserved : SUBSET Windows,
               pending  : SUBSET Windows]

\* A new controller, and the state after reset().
EmptyController == [observed |-> {}, reserved |-> {}, pending |-> {}]

Occupied(a) == a.observed \cup a.reserved

\* Fault: one slot too many.
CanAcquireOneMore(a, w) ==
    MaxActiveTurns = 0 \/ w \in Occupied(a) \/ Cardinality(Occupied(a)) <= MaxActiveTurns

\* try_acquire returns True exactly when CanAcquire holds ...
CanAcquire(a, w) ==
    \/ MaxActiveTurns = 0
    \/ w \in Occupied(a)
    \/ Cardinality(Occupied(a)) < MaxActiveTurns

\* ... and then leaves this state behind.
Acquire(a, w) ==
    IF MaxActiveTurns = 0 \/ w \in Occupied(a) THEN a
    ELSE [a EXCEPT !.reserved = @ \cup {w}]

MarkSubmitted(a, w) == [a EXCEPT !.reserved = @ \ {w}, !.observed = @ \cup {w}]

\* Fault: the slot of a failed dispatch is kept.
ReleaseNever(a, w) == a
Release(a, w) == [a EXCEPT !.reserved = @ \ {w}]

ObserveActive(a, w) == [a EXCEPT !.observed = @ \cup {w}]

ObserveInactive(a, w) == [a EXCEPT !.observed = @ \ {w}]

Forget(a, w) == [observed |-> a.observed \ {w},
                 reserved |-> a.reserved \ {w},
                 pending  |-> a.pending \ {w}]

SetPending(a, w) == [a EXCEPT !.pending = @ \cup {w}]

ClearPending(a, w) == [a EXCEPT !.pending = @ \ {w}]

\* is_protected: hibernating the window now would lose a dispatch in flight
\* or queued work.
IsProtected(a, w) == w \in a.pending \cup a.reserved
==============================================================================
