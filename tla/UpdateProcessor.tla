--------------------------- MODULE UpdateProcessor ---------------------------
(***************************************************************************)
(* Telegram ingress: TopicUpdateProcessor (update_processor.py) and the    *)
(* table telegram_updates (durable_state.py), with the two parts of        *)
(* python-telegram-bot it lives in: the poller that fetches and thereby    *)
(* confirms updates, and the semaphore around do_process_update.           *)
(*                                                                         *)
(* One task per update.  The registry lock is never held across an await,  *)
(* so a task runs from its semaphore to its handler in one step when the   *)
(* topic's lock is free.  An asyncio.Lock is named after the update whose  *)
(* task created it, and serves its waiters in order.                       *)
(***************************************************************************)
EXTENDS Naturals, Sequences, FiniteSets

CONSTANTS Topics,
          None,           \* no lock, no task
          MaxUpdates,     \* bound: updates of a behaviour
          MaxConcurrent,  \* config.telegram_max_concurrent_updates
          Failures        \* what may go wrong, of FailureKinds

FailureKinds == {"crash", "store", "raise"}

ASSUME UpdateProcessorAssumption ==
    /\ MaxUpdates \in Nat
    /\ MaxConcurrent \in Nat \ {0}
    /\ None \notin Nat
    /\ Failures \subseteq FailureKinds

VARIABLES topic,    \* update_topic_key of each update
          acked,    \* updates Telegram will not deliver again
          fetched,  \* updates delivered to this process
          task,     \* the task of each update
          ref,      \* the lock a task has taken out of the registry
          owns,     \* claimed_update_id is set
          locks,    \* _topic_locks
          users,    \* _topic_users
          holder,   \* of each lock
          waiters,  \* of each lock, in order
          table,    \* telegram_updates
          handled,  \* history: updates whose handler came to its end
          stuck     \* history: claims that the last start could not release

registry == <<ref, locks, users, holder, waiters>>
vars == <<topic, acked, fetched, task, owns, registry, table, handled, stuck>>

Updates == 1..MaxUpdates

\* slot: waits for the semaphore; lock: for its topic; run: in its handler.
TaskPc == {"none", "slot", "lock", "run", "done"}

Init ==
    /\ topic \in [Updates -> Topics]
    /\ acked = 0 /\ fetched = 0
    /\ task = [u \in Updates |-> "none"]
    /\ ref = [u \in Updates |-> None]
    /\ owns = [u \in Updates |-> FALSE]
    /\ locks = [k \in Topics |-> None]
    /\ users = [k \in Topics |-> 0]
    /\ holder = [l \in Updates |-> None]
    /\ waiters = [l \in Updates |-> <<>>]
    /\ table = [u \in Updates |-> "absent"]
    /\ handled = {} /\ stuck = {}

\* getUpdates confirms what was delivered before and brings new updates; the
\* application makes a task of each.
Fetch ==
    /\ \E n \in fetched + 1..MaxUpdates :
          /\ fetched' = n
          /\ task' = [u \in Updates |-> IF u \in fetched + 1..n THEN "slot" ELSE task[u]]
    /\ acked' = fetched
    /\ UNCHANGED <<topic, owns, registry, table, handled, stuck>>

\* Tasks that have a permit of the semaphore.
Processing == {u \in Updates : task[u] \in {"lock", "run"}}

\* The semaphore is fair.
HasPermit(u) ==
    /\ task[u] = "slot"
    /\ Cardinality(Processing) < MaxConcurrent
    /\ \A v \in Updates : task[v] = "slot" => u <= v

\* Fault: the key is the update, not its topic.
LockForUpdate(u) == u
\* The lock the task gets: setdefault on the registry.
LockFor(u) == IF locks[topic[u]] = None THEN u ELSE locks[topic[u]]

Register(u) ==
    /\ locks' = [locks EXCEPT ![topic[u]] = LockFor(u)]
    /\ users' = [users EXCEPT ![topic[u]] = @ + 1]
    /\ ref' = [ref EXCEPT ![u] = LockFor(u)]

IsFree(l) == holder[l] = None /\ waiters[l] = <<>>

\* Fault: the entry is never dropped.
UnregisterNever(u, cnt, reg) ==
    /\ users' = [cnt EXCEPT ![topic[u]] = @ - 1]
    /\ locks' = reg

\* Fault: the last task to leave is not the only one that drops the entry.
UnregisterAlways(u, cnt, reg) ==
    /\ users' = [cnt EXCEPT ![topic[u]] = 0]
    /\ locks' = [reg EXCEPT ![topic[u]] = None]

\* The finally block, on the registry as this step found or made it.
Unregister(u, cnt, reg) ==
    IF cnt[topic[u]] <= 1
    THEN /\ users' = [cnt EXCEPT ![topic[u]] = 0]
         /\ locks' = [reg EXCEPT ![topic[u]] = None]
    ELSE /\ users' = [cnt EXCEPT ![topic[u]] = @ - 1]
         /\ locks' = reg

-------------------------------------------------------------------------------
\* Fault: the insert replaces a completed row.
ClaimableAgain(u) == table[u] # "inflight"
\* claim_telegram_update: INSERT, which fails on an id that is there.
Claimable(u) == table[u] = "absent"

\* The topic's lock is taken and the update claimed; without a working store it
\* is processed unclaimed.
Claim(u) ==
    \/ /\ Claimable(u)
       /\ table' = [table EXCEPT ![u] = "inflight"]
       /\ owns' = [owns EXCEPT ![u] = TRUE]
    \/ "store" \in Failures /\ UNCHANGED <<table, owns>>

\* The semaphore and the topic's lock are free: the handler starts.
Enter(u) ==
    /\ HasPermit(u) /\ IsFree(LockFor(u))
    /\ Claim(u)
    /\ Register(u)
    /\ holder' = [holder EXCEPT ![LockFor(u)] = u]
    /\ task' = [task EXCEPT ![u] = "run"]
    /\ UNCHANGED <<topic, acked, fetched, waiters, handled, stuck>>

\* Somebody holds the lock, or waits for it.
EnterQueue(u) ==
    /\ HasPermit(u) /\ ~IsFree(LockFor(u))
    /\ Register(u)
    /\ waiters' = [waiters EXCEPT ![LockFor(u)] = Append(@, u)]
    /\ task' = [task EXCEPT ![u] = "lock"]
    /\ UNCHANGED <<topic, acked, fetched, owns, holder, table, handled, stuck>>

\* A duplicate: the lock was free, and the task is done within the step.
EnterDuplicate(u) ==
    /\ HasPermit(u) /\ IsFree(LockFor(u))
    /\ ~Claimable(u)
    /\ Unregister(u, [users EXCEPT ![topic[u]] = @ + 1],
                     [locks EXCEPT ![topic[u]] = LockFor(u)])
    /\ task' = [task EXCEPT ![u] = "done"]
    /\ UNCHANGED <<topic, acked, fetched, ref, owns, holder, waiters, table, handled, stuck>>

\* The head of the waiters is woken after a release.
IsNext(u) ==
    /\ task[u] = "lock" /\ holder[ref[u]] = None
    /\ waiters[ref[u]] # <<>> /\ Head(waiters[ref[u]]) = u

Wake(u) ==
    /\ IsNext(u)
    /\ Claim(u)
    /\ waiters' = [waiters EXCEPT ![ref[u]] = Tail(@)]
    /\ holder' = [holder EXCEPT ![ref[u]] = u]
    /\ task' = [task EXCEPT ![u] = "run"]
    /\ UNCHANGED <<topic, acked, fetched, ref, locks, users, handled, stuck>>

\* Fault: skipping a duplicate keeps the lock.
WakeDuplicateHolding(u) ==
    /\ IsNext(u)
    /\ ~Claimable(u)
    /\ waiters' = [waiters EXCEPT ![ref[u]] = Tail(@)]
    /\ Unregister(u, users, locks)
    /\ holder' = [holder EXCEPT ![ref[u]] = u]
    /\ task' = [task EXCEPT ![u] = "done"]
    /\ ref' = [ref EXCEPT ![u] = None]
    /\ UNCHANGED <<topic, acked, fetched, owns, table, handled, stuck>>

WakeDuplicate(u) ==
    /\ IsNext(u)
    /\ ~Claimable(u)
    /\ waiters' = [waiters EXCEPT ![ref[u]] = Tail(@)]
    /\ Unregister(u, users, locks)
    /\ task' = [task EXCEPT ![u] = "done"]
    /\ ref' = [ref EXCEPT ![u] = None]
    /\ UNCHANGED <<topic, acked, fetched, owns, holder, table, handled, stuck>>

-------------------------------------------------------------------------------
\* The lock is released and the registry entry given back.
Leave(u) ==
    /\ holder' = [holder EXCEPT ![ref[u]] = None]
    /\ Unregister(u, users, locks)
    /\ task' = [task EXCEPT ![u] = "done"]
    /\ ref' = [ref EXCEPT ![u] = None]
    /\ owns' = [owns EXCEPT ![u] = FALSE]
    /\ UNCHANGED <<topic, acked, fetched, waiters, stuck>>

\* complete_telegram_update
Completed(u) == [table EXCEPT ![u] = "completed"]

\* The handler is done; recording it may fail.
Finish(u) ==
    /\ task[u] = "run"
    /\ \/ owns[u] /\ table' = Completed(u)
       \/ (~owns[u] \/ "store" \in Failures) /\ UNCHANGED table
    /\ handled' = handled \cup {u}
    /\ Leave(u)

\* The handler raised, or was cancelled: abandon_telegram_update.
Raise(u) ==
    /\ "raise" \in Failures
    /\ task[u] = "run"
    /\ \/ owns[u] /\ table' = [table EXCEPT ![u] = IF @ = "inflight" THEN "absent" ELSE @]
       \/ (~owns[u] \/ "store" \in Failures) /\ UNCHANGED table
    /\ Leave(u)
    /\ UNCHANGED handled

\* Fault: claims of the dead process stay.
ReleasedNever == table
\* initialize(reset_inflight_updates=True)
Released == [u \in Updates |-> IF table[u] = "inflight" THEN "absent" ELSE table[u]]

Inflight == {u \in Updates : table[u] = "inflight"}

\* The process dies and starts again; what Telegram has not been told of comes back.
\* A store that fails at the start is only logged: the claims stay, and they count
\* when it works again later.
Restart ==
    /\ "crash" \in Failures
    /\ fetched' = acked
    /\ task' = [u \in Updates |-> "none"]
    /\ ref' = [u \in Updates |-> None]
    /\ owns' = [u \in Updates |-> FALSE]
    /\ locks' = [k \in Topics |-> None]
    /\ users' = [k \in Topics |-> 0]
    /\ holder' = [l \in Updates |-> None]
    /\ waiters' = [l \in Updates |-> <<>>]
    /\ \/ table' = Released /\ stuck' = {}
       \/ "store" \in Failures /\ UNCHANGED table /\ stuck' = Inflight
    /\ UNCHANGED <<topic, acked, handled>>

Process(u) ==
    \/ Enter(u) \/ EnterQueue(u) \/ EnterDuplicate(u)
    \/ Wake(u) \/ WakeDuplicate(u)
    \/ Finish(u) \/ Raise(u)

Next ==
    \/ Fetch
    \/ \E u \in Updates : Process(u)
    \/ Restart

Spec == Init /\ [][Next]_vars

\* Handlers end, and asyncio runs every task that can go on.
FairSpec == Spec /\ \A u \in Updates : WF_vars(Process(u))
-------------------------------------------------------------------------------
(* Properties.                                                              *)

\* Every variable has its type, and a task that waits or runs refers to a lock.
TypeOK ==
    /\ topic \in [Updates -> Topics]
    /\ acked \in 0..fetched /\ fetched \in 0..MaxUpdates
    /\ task \in [Updates -> TaskPc]
    /\ ref \in [Updates -> Updates \cup {None}]
    /\ owns \in [Updates -> BOOLEAN]
    /\ locks \in [Topics -> Updates \cup {None}]
    /\ users \in [Topics -> Nat]
    /\ holder \in [Updates -> Updates \cup {None}]
    /\ waiters \in [Updates -> Seq(Updates)]
    /\ table \in [Updates -> {"absent", "inflight", "completed"}]
    /\ handled \subseteq Updates /\ stuck \subseteq Updates
    /\ \A u \in Updates : task[u] \in {"lock", "run"} => ref[u] \in Updates

\* "one topic sequentially": two updates of a topic are never in their handlers at
\* the same time, although locks come into and go out of the registry.
OneAtATime ==
    \A u, v \in Updates :
        task[u] = "run" /\ task[v] = "run" /\ topic[u] = topic[v] => u = v

\* The registry counts the tasks of a topic: its lock stays as long as one of them
\* has it, and not longer.
Using(k) == {u \in Processing : topic[u] = k}
RegistryCounts ==
    \A k \in Topics : /\ users[k] = Cardinality(Using(k))
                      /\ locks[k] = None <=> Using(k) = {}

Starts(u) == task[u] # "run" /\ task'[u] = "run"

\* "preserving arrival order within each topic": a handler starts after those of
\* all earlier updates of its topic that were delivered to the process.
TopicOrder ==
    [][\A u, v \in Updates :
          Starts(v) /\ u < v /\ topic[u] = topic[v] => task[u] \notin {"slot", "lock", "run"}]_vars

Skips(u) == task[u] \in {"slot", "lock"} /\ task'[u] = "done"

\* An update is skipped as a duplicate only if its handler once came to its end, or
\* if the last start of the bot could not release the claims and found one of this
\* update, left by a handler that died or by a start before.
SkippedWasHandled ==
    [][\A u \in Updates : Skips(u) => u \in handled \cup stuck]_vars

\* update_processor.py:59, on the start: "Release interrupted claims while retaining
\* completed update IDs"; and when that fails: "continuing without durable duplicate
\* suppression".  Either way an update that was interrupted is not suppressed.
InterruptedIsTakenUp ==
    [][\A u \in Updates : Skips(u) => u \in handled]_vars

\* An update that was recorded as completed is handled again only when the store
\* cannot be asked.
CompletedIsSkipped ==
    [][\A u \in Updates : Starts(u) /\ table[u] = "completed" => ~owns'[u] /\ "store" \in Failures]_vars

\* Every delivered update gets its turn, unless the process dies.
DeliveredIsProcessed ==
    \A u \in Updates : task[u] = "slot" ~> task[u] \in {"done", "none"}

\* docs/configuration.md: TELEGRAM_AGENT_BOT_MAX_CONCURRENT_UPDATES are the
\* "Telegram topics that may be processed concurrently".
TopicsConcurrent ==
    \A u \in Updates :
        task[u] = "slot" /\ Cardinality(Processing) >= MaxConcurrent /\ Using(topic[u]) = {}
        => Cardinality({topic[v] : v \in Processing}) >= MaxConcurrent
===============================================================================
