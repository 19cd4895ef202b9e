----------------------- MODULE UpdateProcessor_proofs -----------------------
(***************************************************************************)
(* What holds of the ingress for every number of topics and updates and    *)
(* every semaphore: its types, that the registry keeps the lock of a topic *)
(* exactly as long as some task has it, and that a topic's updates are     *)
(* handled one at a time.                                                  *)
(***************************************************************************)
EXTENDS UpdateProcessor, FiniteSetTheorems, SequenceTheorems, TLAPS

\* No task exists for an update that was not delivered.
Undelivered == \A u \in Updates : u > fetched => task[u] = "none"

\* All tasks of a topic have the lock that the registry has.
RefsLock == \A u \in Processing : ref[u] = locks[topic[u]]

\* Who runs holds the lock.
HoldsLock == \A u \in Updates : task[u] = "run" => holder[ref[u]] = u

Inv == TypeOK /\ Undelivered /\ RegistryCounts /\ RefsLock /\ HoldsLock

-------------------------------------------------------------------------------
LEMMA UpdatesAreNats == Updates \subseteq Nat /\ IsFiniteSet(Updates) /\ None \notin Updates
BY UpdateProcessorAssumption, FS_Interval DEF Updates

LEMMA UsingIsFinite ==
    ASSUME NEW k
    PROVE  IsFiniteSet(Using(k)) /\ Using(k) \subseteq Updates
<1>1. Using(k) \in SUBSET Updates
  BY DEF Using, Processing
<1>2. QED BY <1>1, UpdatesAreNats, FS_Subset

\* The lock of the topic is an update's, whether found or made.
LEMMA LockForType ==
    ASSUME TypeOK, NEW u \in Updates
    PROVE  LockFor(u) \in Updates
BY DEF TypeOK, LockFor

LEMMA ClaimType ==
    ASSUME TypeOK, NEW u \in Updates, Claim(u)
    PROVE  /\ table' \in [Updates -> {"absent", "inflight", "completed"}]
           /\ owns' \in [Updates -> BOOLEAN]
BY DEF TypeOK, Claim

LEMMA UnregisterType ==
    ASSUME TypeOK, NEW u \in Updates,
           NEW cnt \in [Topics -> Nat], NEW reg \in [Topics -> Updates \cup {None}],
           Unregister(u, cnt, reg)
    PROVE  users' \in [Topics -> Nat] /\ locks' \in [Topics -> Updates \cup {None}]
<1>1. topic[u] \in Topics /\ cnt[topic[u]] \in Nat
  BY DEF TypeOK
<1>2. CASE cnt[topic[u]] <= 1
  BY <1>1, <1>2 DEF Unregister
<1>3. CASE ~(cnt[topic[u]] <= 1)
  <2>1. cnt[topic[u]] - 1 \in Nat
    BY <1>1, <1>3
  <2>2. QED BY <1>3, <2>1 DEF Unregister
<1>4. QED BY <1>2, <1>3

LEMMA RegisterType ==
    ASSUME TypeOK, NEW u \in Updates, Register(u)
    PROVE  /\ users' \in [Topics -> Nat]
           /\ locks' \in [Topics -> Updates \cup {None}]
           /\ ref' \in [Updates -> Updates \cup {None}]
           /\ ref'[u] = LockFor(u)
           /\ \A v \in Updates \ {u} : ref'[v] = ref[v]
<1>1. LockFor(u) \in Updates
  BY LockForType
<1>2. QED BY <1>1 DEF TypeOK, Register

-------------------------------------------------------------------------------
(* Types.                                                                   *)

LEMMA EnterTypeOK ==
    ASSUME TypeOK, NEW u \in Updates, Enter(u) \/ EnterQueue(u) \/ EnterDuplicate(u)
    PROVE  TypeOK'
<1>1. LockFor(u) \in Updates
  BY LockForType
<1>2. CASE Enter(u)
  <2>1. /\ users' \in [Topics -> Nat]
        /\ locks' \in [Topics -> Updates \cup {None}]
        /\ ref' \in [Updates -> Updates \cup {None}]
        /\ ref'[u] \in Updates /\ \A v \in Updates \ {u} : ref'[v] = ref[v]
    BY <1>1, <1>2, RegisterType DEF Enter
  <2>2. /\ table' \in [Updates -> {"absent", "inflight", "completed"}]
        /\ owns' \in [Updates -> BOOLEAN]
    BY <1>2, ClaimType DEF Enter
  <2>3. QED BY <1>1, <1>2, <2>1, <2>2 DEF TypeOK, Enter, TaskPc
<1>3. CASE EnterQueue(u)
  <2>1. /\ users' \in [Topics -> Nat]
        /\ locks' \in [Topics -> Updates \cup {None}]
        /\ ref' \in [Updates -> Updates \cup {None}]
        /\ ref'[u] \in Updates /\ \A v \in Updates \ {u} : ref'[v] = ref[v]
    BY <1>1, <1>3, RegisterType DEF EnterQueue
  <2>2. Append(waiters[LockFor(u)], u) \in Seq(Updates)
    BY <1>1 DEF TypeOK
  <2>3. waiters' \in [Updates -> Seq(Updates)]
    BY <1>3, <2>2 DEF TypeOK, EnterQueue
  <2>4. QED BY <1>3, <2>1, <2>3 DEF TypeOK, EnterQueue, TaskPc
<1>4. CASE EnterDuplicate(u)
  <2>1. [users EXCEPT ![topic[u]] = @ + 1] \in [Topics -> Nat]
    BY DEF TypeOK
  <2>2. [locks EXCEPT ![topic[u]] = LockFor(u)] \in [Topics -> Updates \cup {None}]
    BY <1>1 DEF TypeOK
  <2>3. users' \in [Topics -> Nat] /\ locks' \in [Topics -> Updates \cup {None}]
    BY <1>4, <2>1, <2>2, UnregisterType DEF EnterDuplicate
  <2>4. QED BY <1>4, <2>3 DEF TypeOK, EnterDuplicate, TaskPc
<1>5. QED BY <1>2, <1>3, <1>4

LEMMA TailType ==
    ASSUME TypeOK, NEW l \in Updates, waiters[l] # <<>>
    PROVE  [waiters EXCEPT ![l] = Tail(@)] \in [Updates -> Seq(Updates)]
<1>1. Tail(waiters[l]) \in Seq(Updates)
  BY DEF TypeOK
<1>2. QED BY <1>1 DEF TypeOK

LEMMA WakeTypeOK ==
    ASSUME TypeOK, NEW u \in Updates, Wake(u) \/ WakeDuplicate(u)
    PROVE  TypeOK'
<1>1. ref[u] \in Updates /\ waiters[ref[u]] # <<>>
  BY DEF TypeOK, Wake, WakeDuplicate, IsNext
<1>2. waiters' \in [Updates -> Seq(Updates)]
  BY <1>1, TailType DEF Wake, WakeDuplicate
<1>3. CASE Wake(u)
  <2>1. /\ table' \in [Updates -> {"absent", "inflight", "completed"}]
        /\ owns' \in [Updates -> BOOLEAN]
    BY <1>3, ClaimType DEF Wake
  <2>2. QED BY <1>1, <1>2, <1>3, <2>1 DEF TypeOK, Wake, TaskPc
<1>4. CASE WakeDuplicate(u)
  <2>1. users' \in [Topics -> Nat] /\ locks' \in [Topics -> Updates \cup {None}]
    BY <1>4, UnregisterType DEF TypeOK, WakeDuplicate
  <2>2. QED BY <1>2, <1>4, <2>1 DEF TypeOK, WakeDuplicate, TaskPc
<1>5. QED BY <1>3, <1>4

LEMMA LeaveTypeOK ==
    ASSUME TypeOK, NEW u \in Updates, Finish(u) \/ Raise(u)
    PROVE  TypeOK'
<1>1. Leave(u)
  BY DEF Finish, Raise
<1>2. users' \in [Topics -> Nat] /\ locks' \in [Topics -> Updates \cup {None}]
  BY <1>1, UnregisterType DEF TypeOK, Leave
<1>3. table' \in [Updates -> {"absent", "inflight", "completed"}]
  BY DEF TypeOK, Finish, Raise, Completed
<1>4. handled' \subseteq Updates /\ stuck' \subseteq Updates
  BY <1>1 DEF TypeOK, Finish, Raise, Leave
<1>5. QED BY <1>1, <1>2, <1>3, <1>4 DEF TypeOK, Leave, TaskPc

LEMMA TypeStep == ASSUME TypeOK, [Next]_vars PROVE TypeOK'
<1>1. CASE Fetch
  <2>1. PICK n \in fetched + 1..MaxUpdates :
             /\ fetched' = n
             /\ task' = [u \in Updates |-> IF u \in fetched + 1..n THEN "slot" ELSE task[u]]
    BY <1>1 DEF Fetch
  <2>2. acked' \in 0..fetched' /\ fetched' \in 0..MaxUpdates
    BY <1>1, <2>1, UpdateProcessorAssumption DEF TypeOK, Fetch
  <2>3. task' \in [Updates -> TaskPc]
    BY <2>1 DEF TypeOK, TaskPc
  <2>4. \A u \in Updates : task'[u] \in {"lock", "run"} => ref'[u] \in Updates
    BY <1>1, <2>1 DEF TypeOK, Fetch, registry
  <2>5. QED BY <1>1, <2>2, <2>3, <2>4 DEF TypeOK, Fetch, registry
<1>2. ASSUME NEW u \in Updates, Process(u) PROVE TypeOK'
  BY <1>2, EnterTypeOK, WakeTypeOK, LeaveTypeOK DEF Process
<1>3. CASE Restart
  <2>1. /\ table' \in [Updates -> {"absent", "inflight", "completed"}]
        /\ stuck' \subseteq Updates
    BY <1>3 DEF TypeOK, Restart, Released, Inflight
  <2>2. acked' \in 0..fetched' /\ fetched' \in 0..MaxUpdates
    BY <1>3, UpdateProcessorAssumption DEF TypeOK, Restart
  <2>3. waiters' \in [Updates -> Seq(Updates)]
    BY <1>3 DEF Restart
  <2>4. QED BY <1>3, <2>1, <2>2, <2>3 DEF TypeOK, Restart, TaskPc
<1>4. CASE UNCHANGED vars
  BY <1>4 DEF TypeOK, vars, registry
<1>5. QED BY <1>1, <1>2, <1>3, <1>4 DEF Next

-------------------------------------------------------------------------------
(* The registry.  A step of the processor makes a task join the users of    *)
(* its topic, makes one leave them, or leaves the registry alone.           *)

Joins(u) ==
    /\ Register(u)
    /\ task[u] = "slot"
    /\ \E pc \in {"lock", "run"} : task' = [task EXCEPT ![u] = pc]

Leaves(u) ==
    /\ Unregister(u, users, locks)
    /\ task[u] \in {"lock", "run"}
    /\ task' = [task EXCEPT ![u] = "done"]
    /\ ref' = [ref EXCEPT ![u] = None]

Stays ==
    /\ UNCHANGED <<locks, users, ref>>
    /\ \A v \in Updates : task[v] \in {"lock", "run"} <=> task'[v] \in {"lock", "run"}

\* A duplicate that finds the lock free leaves the registry as it was.
LEMMA DuplicateStays ==
    ASSUME Inv, NEW u \in Updates, EnterDuplicate(u)
    PROVE  UNCHANGED <<locks, users>>
<1> DEFINE k == topic[u]
<1>1. TypeOK /\ k \in Topics /\ users[k] \in Nat
  BY DEF Inv, TypeOK
<1>2. users[k] = Cardinality(Using(k)) /\ (locks[k] = None <=> Using(k) = {})
  BY <1>1 DEF Inv, RegistryCounts
<1>3. users[k] = 0 <=> Using(k) = {}
  BY <1>2, UsingIsFinite, FS_EmptySet
<1>4. Unregister(u, [users EXCEPT ![k] = @ + 1], [locks EXCEPT ![k] = LockFor(u)])
  BY DEF EnterDuplicate
<1> DEFINE cnt == [users EXCEPT ![k] = @ + 1]
           reg == [locks EXCEPT ![k] = LockFor(u)]
<1>5. cnt[k] = users[k] + 1
  BY <1>1 DEF TypeOK
<1>6. CASE users[k] = 0
  <2>1. users' = [cnt EXCEPT ![k] = 0] /\ locks' = [reg EXCEPT ![k] = None]
    BY <1>4, <1>5, <1>6 DEF Unregister
  <2>2. users' = users
    BY <1>1, <1>6, <2>1 DEF TypeOK
  <2>3. locks' = locks
    BY <1>1, <1>2, <1>3, <1>6, <2>1 DEF TypeOK
  <2>4. QED BY <2>2, <2>3
<1>7. CASE users[k] # 0
  <2>1. cnt[k] > 1
    BY <1>1, <1>5, <1>7
  <2>2. users' = [cnt EXCEPT ![k] = @ - 1] /\ locks' = reg
    BY <1>4, <2>1 DEF Unregister
  <2>3. users' = users
    BY <1>1, <2>2 DEF TypeOK
  <2>4. locks' = locks
    BY <1>1, <1>2, <1>3, <1>7, <2>2 DEF TypeOK, LockFor
  <2>5. QED BY <2>3, <2>4
<1>8. QED BY <1>6, <1>7

LEMMA UsingGrows ==
    ASSUME TypeOK, NEW u \in Updates, Joins(u), UNCHANGED topic, NEW k \in Topics
    PROVE  Using(k)' = IF k = topic[u] THEN Using(k) \cup {u} ELSE Using(k)
<1>1. \A v \in Updates : v # u => task'[v] = task[v]
  BY DEF TypeOK, Joins
<1>2. task'[u] \in {"lock", "run"}
  BY DEF TypeOK, Joins
<1>3. \A v : v \in Using(k)' <=> v \in Updates /\ task'[v] \in {"lock", "run"} /\ topic[v] = k
  BY DEF Using, Processing
<1>4. \A v : v \in Using(k) <=> v \in Updates /\ task[v] \in {"lock", "run"} /\ topic[v] = k
  BY DEF Using, Processing
<1>5. QED BY <1>1, <1>2, <1>3, <1>4

LEMMA UsingShrinks ==
    ASSUME TypeOK, NEW u \in Updates, Leaves(u), UNCHANGED topic, NEW k \in Topics
    PROVE  Using(k)' = IF k = topic[u] THEN Using(k) \ {u} ELSE Using(k)
<1>1. \A v \in Updates : v # u => task'[v] = task[v]
  BY DEF TypeOK, Leaves
<1>2. task'[u] = "done"
  BY DEF TypeOK, Leaves
<1>3. \A v : v \in Using(k)' <=> v \in Updates /\ task'[v] \in {"lock", "run"} /\ topic[v] = k
  BY DEF Using, Processing
<1>4. \A v : v \in Using(k) <=> v \in Updates /\ task[v] \in {"lock", "run"} /\ topic[v] = k
  BY DEF Using, Processing
<1>5. QED BY <1>1, <1>2, <1>3, <1>4

LEMMA JoinsRegistry ==
    ASSUME Inv, NEW u \in Updates, Joins(u), UNCHANGED topic
    PROVE  RegistryCounts' /\ RefsLock'
<1> DEFINE t == topic[u]
<1>1. TypeOK /\ t \in Topics /\ u \notin Using(t)
  BY DEF Inv, TypeOK, Joins, Using, Processing
<1>2. LockFor(u) \in Updates /\ LockFor(u) # None
  BY <1>1, LockForType, UpdatesAreNats
<1>3. /\ users' = [users EXCEPT ![t] = @ + 1]
      /\ locks' = [locks EXCEPT ![t] = LockFor(u)]
      /\ ref' = [ref EXCEPT ![u] = LockFor(u)]
  BY DEF Joins, Register
<1>4. ASSUME NEW k \in Topics
      PROVE  users'[k] = Cardinality(Using(k)') /\ (locks'[k] = None <=> Using(k)' = {})
  <2>1. users[k] = Cardinality(Using(k)) /\ (locks[k] = None <=> Using(k) = {})
    BY DEF Inv, RegistryCounts
  <2>2. CASE k = t
    <3>1. Using(k)' = Using(k) \cup {u}
      BY <1>1, <2>2, UsingGrows
    <3>2. Cardinality(Using(k) \cup {u}) = Cardinality(Using(k)) + 1
      BY <1>1, <2>2, UsingIsFinite, FS_AddElement
    <3>3. users'[k] = users[k] + 1 /\ locks'[k] = LockFor(u)
      BY <1>1, <1>3, <2>2 DEF TypeOK
    <3>4. QED BY <1>2, <2>1, <3>1, <3>2, <3>3
  <2>3. CASE k # t
    <3>1. Using(k)' = Using(k)
      BY <1>1, <2>3, UsingGrows
    <3>2. users'[k] = users[k] /\ locks'[k] = locks[k]
      BY <1>1, <1>3, <2>3 DEF TypeOK
    <3>3. QED BY <2>1, <3>1, <3>2
  <2>4. QED BY <2>2, <2>3
<1>5. ASSUME NEW v \in Processing'
      PROVE  ref'[v] = locks'[topic[v]]
  <2>1. v \in Updates /\ (v # u => v \in Processing)
    BY <1>1 DEF Processing, Joins, TypeOK
  <2>2. CASE v = u
    BY <1>1, <1>3, <2>2 DEF TypeOK
  <2>3. CASE v # u
    <3>1. ref'[v] = ref[v] /\ ref[v] = locks[topic[v]] /\ ref[v] \in Updates
      BY <1>1, <1>3, <2>1, <2>3 DEF Inv, RefsLock, TypeOK, Processing
    <3>2. topic[v] = t => locks[t] # None
      BY <3>1, UpdatesAreNats
    <3>3. topic[v] = t => LockFor(u) = locks[t]
      BY <3>2 DEF LockFor
    <3>4. locks'[topic[v]] = locks[topic[v]]
      BY <1>1, <1>3, <2>1, <3>3 DEF TypeOK
    <3>5. QED BY <3>1, <3>4
  <2>4. QED BY <2>2, <2>3
<1>6. RegistryCounts'
  BY <1>4 DEF RegistryCounts
<1>7. RefsLock'
  BY <1>5 DEF RefsLock
<1>8. QED BY <1>6, <1>7

LEMMA LeavesRegistry ==
    ASSUME Inv, NEW u \in Updates, Leaves(u), UNCHANGED topic
    PROVE  RegistryCounts' /\ RefsLock'
<1> DEFINE t == topic[u]
<1>1. TypeOK /\ t \in Topics /\ u \in Using(t)
  BY DEF Inv, TypeOK, Leaves, Using, Processing
<1>2. users[t] = Cardinality(Using(t)) /\ locks[t] # None
  BY <1>1 DEF Inv, RegistryCounts
<1>3. IsFiniteSet(Using(t) \ {u}) /\ Cardinality(Using(t) \ {u}) = users[t] - 1
  BY <1>1, <1>2, UsingIsFinite, FS_RemoveElement
<1>4. users[t] \in Nat /\ users[t] - 1 \in Nat
  BY <1>1, <1>3, FS_CardinalityType DEF TypeOK
<1>5. users[t] <= 1 <=> Using(t) \ {u} = {}
  <2>1. Cardinality(Using(t) \ {u}) = 0 <=> Using(t) \ {u} = {}
    BY <1>3, FS_EmptySet
  <2>2. users[t] <= 1 <=> users[t] - 1 = 0
    BY <1>4
  <2>3. QED BY <1>3, <2>1, <2>2
<1>6. /\ users'[t] = users[t] - 1
      /\ locks'[t] = IF Using(t) \ {u} = {} THEN None ELSE locks[t]
      /\ \A k \in Topics \ {t} : users'[k] = users[k] /\ locks'[k] = locks[k]
  <2>1. CASE users[t] <= 1
    <3>1. users' = [users EXCEPT ![t] = 0] /\ locks' = [locks EXCEPT ![t] = None]
      BY <2>1 DEF Leaves, Unregister
    <3>2. users[t] - 1 = 0
      BY <1>4, <2>1
    <3>3. QED BY <1>1, <1>5, <2>1, <3>1, <3>2 DEF TypeOK
  <2>2. CASE ~(users[t] <= 1)
    <3>1. users' = [users EXCEPT ![t] = @ - 1] /\ locks' = locks
      BY <2>2 DEF Leaves, Unregister
    <3>2. QED BY <1>1, <1>5, <2>2, <3>1 DEF TypeOK
  <2>3. QED BY <2>1, <2>2
<1>7. ASSUME NEW k \in Topics
      PROVE  users'[k] = Cardinality(Using(k)') /\ (locks'[k] = None <=> Using(k)' = {})
  <2>1. CASE k = t
    <3>1. Using(k)' = Using(t) \ {u}
      BY <1>1, <2>1, UsingShrinks
    <3>2. QED BY <1>2, <1>3, <1>6, <2>1, <3>1
  <2>2. CASE k # t
    <3>1. Using(k)' = Using(k)
      BY <1>1, <2>2, UsingShrinks
    <3>2. QED BY <1>6, <2>2, <3>1 DEF Inv, RegistryCounts
  <2>3. QED BY <2>1, <2>2
<1>8. ASSUME NEW v \in Processing'
      PROVE  ref'[v] = locks'[topic[v]]
  <2>1. v \in Updates /\ v # u /\ v \in Processing
    BY <1>1 DEF Processing, Leaves, TypeOK
  <2>2. ref'[v] = ref[v] /\ ref[v] = locks[topic[v]] /\ topic[v] \in Topics
    BY <1>1, <2>1 DEF Inv, RefsLock, TypeOK, Leaves
  <2>3. topic[v] = t => v \in Using(t) \ {u}
    BY <2>1 DEF Using
  <2>4. QED BY <1>6, <2>2, <2>3
<1>9. RegistryCounts'
  BY <1>7 DEF RegistryCounts
<1>10. RefsLock'
  BY <1>8 DEF RefsLock
<1>11. QED BY <1>9, <1>10

LEMMA StaysRegistry ==
    ASSUME Inv, Stays, UNCHANGED topic
    PROVE  RegistryCounts' /\ RefsLock'
<1>1. Processing' = Processing
  BY DEF Stays, Processing
<1>2. ASSUME NEW k PROVE Using(k)' = Using(k)
  BY <1>1 DEF Using
<1>3. RegistryCounts'
  BY <1>2 DEF Inv, RegistryCounts, Stays
<1>4. RefsLock'
  BY <1>1 DEF Inv, RefsLock, Stays
<1>5. QED BY <1>3, <1>4

-------------------------------------------------------------------------------
(* The whole invariant.                                                     *)

LEMMA StepsOnRegistry ==
    ASSUME Inv, NEW u \in Updates, Process(u)
    PROVE  RegistryCounts' /\ RefsLock'
<1>1. UNCHANGED topic
  BY DEF Process, Enter, EnterQueue, EnterDuplicate, Wake, WakeDuplicate, Finish, Raise, Leave
<1>2. TypeOK
  BY DEF Inv
<1>3. CASE Enter(u) \/ EnterQueue(u)
  <2>1. Joins(u)
    BY <1>3 DEF Enter, EnterQueue, Joins, HasPermit
  <2>2. QED BY <1>1, <2>1, JoinsRegistry
<1>4. CASE EnterDuplicate(u)
  <2>1. Stays
    BY <1>2, <1>4, DuplicateStays DEF Stays, EnterDuplicate, HasPermit, TypeOK
  <2>2. QED BY <1>1, <2>1, StaysRegistry
<1>5. CASE Wake(u)
  <2>1. Stays
    BY <1>2, <1>5 DEF Stays, Wake, IsNext, TypeOK
  <2>2. QED BY <1>1, <2>1, StaysRegistry
<1>6. CASE WakeDuplicate(u) \/ Finish(u) \/ Raise(u)
  <2>1. Leaves(u)
    BY <1>6 DEF Leaves, WakeDuplicate, IsNext, Finish, Raise, Leave
  <2>2. QED BY <1>1, <2>1, LeavesRegistry
<1>7. QED BY <1>3, <1>4, <1>5, <1>6 DEF Process

\* Whoever gets the lock finds it free, so nobody else with that lock runs.
LEMMA TakesLock ==
    ASSUME Inv, NEW u \in Updates, NEW l \in Updates,
           holder[l] = None, holder' = [holder EXCEPT ![l] = u],
           task' = [task EXCEPT ![u] = "run"], ref'[u] = l,
           \A v \in Updates \ {u} : ref'[v] = ref[v]
    PROVE  HoldsLock'
<1>1. TypeOK
  BY DEF Inv
<1>2. ASSUME NEW v \in Updates, task'[v] = "run"
      PROVE  holder'[ref'[v]] = v
  <2>1. CASE v = u
    BY <1>1, <2>1 DEF TypeOK
  <2>2. CASE v # u
    <3>1. task[v] = "run" /\ ref'[v] = ref[v]
      BY <1>1, <1>2, <2>2 DEF TypeOK
    <3>2. ref[v] \in Updates /\ holder[ref[v]] = v
      BY <1>1, <3>1 DEF Inv, HoldsLock, TypeOK
    <3>3. ref[v] # l
      BY <3>2, UpdatesAreNats
    <3>4. QED BY <1>1, <3>1, <3>2, <3>3 DEF TypeOK
  <2>3. QED BY <2>1, <2>2
<1>3. QED BY <1>2 DEF HoldsLock

LEMMA StepsOnLocks ==
    ASSUME Inv, NEW u \in Updates, Process(u)
    PROVE  HoldsLock'
<1>1. TypeOK
  BY DEF Inv
<1>2. CASE Enter(u)
  <2>1. LockFor(u) \in Updates /\ holder[LockFor(u)] = None
    BY <1>1, <1>2, LockForType DEF Enter, IsFree
  <2>2. ref'[u] = LockFor(u) /\ \A v \in Updates \ {u} : ref'[v] = ref[v]
    BY <1>1, <1>2, RegisterType DEF Enter
  <2>3. QED BY <1>2, <2>1, <2>2, TakesLock DEF Enter
<1>3. CASE EnterQueue(u)
  <2>1. \A v \in Updates \ {u} : ref'[v] = ref[v] /\ task'[v] = task[v]
    BY <1>1, <1>3, RegisterType DEF EnterQueue, TypeOK
  <2>2. task'[u] # "run" /\ UNCHANGED holder
    BY <1>1, <1>3 DEF EnterQueue, TypeOK
  <2>3. QED BY <2>1, <2>2 DEF Inv, HoldsLock
<1>4. CASE EnterDuplicate(u) \/ WakeDuplicate(u)
  <2>1. /\ UNCHANGED holder /\ task'[u] # "run"
        /\ \A v \in Updates \ {u} : ref'[v] = ref[v] /\ task'[v] = task[v]
    BY <1>1, <1>4 DEF EnterDuplicate, WakeDuplicate, TypeOK
  <2>2. QED BY <2>1 DEF Inv, HoldsLock
<1>5. CASE Wake(u)
  <2>1. ref[u] \in Updates /\ holder[ref[u]] = None
    BY <1>1, <1>5 DEF Wake, IsNext, TypeOK
  <2>2. QED BY <1>5, <2>1, TakesLock DEF Wake
<1>6. CASE Finish(u) \/ Raise(u)
  <2>1. task[u] = "run" /\ Leave(u)
    BY <1>6 DEF Finish, Raise
  <2>2. ref[u] \in Updates /\ holder[ref[u]] = u
    BY <1>1, <2>1 DEF Inv, HoldsLock, TypeOK
  <2>3. ASSUME NEW v \in Updates, task'[v] = "run"
        PROVE  holder'[ref'[v]] = v
    <3>1. v # u /\ task[v] = "run" /\ ref'[v] = ref[v]
      BY <1>1, <2>1, <2>3 DEF Leave, TypeOK
    <3>2. holder[ref[v]] = v /\ ref[v] # ref[u]
      BY <2>2, <3>1 DEF Inv, HoldsLock
    <3>3. QED BY <1>1, <2>1, <3>1, <3>2 DEF Leave, TypeOK
  <2>4. QED BY <2>3 DEF HoldsLock
<1>7. QED BY <1>2, <1>3, <1>4, <1>5, <1>6 DEF Process

LEMMA InvInit == Init => Inv
<1> SUFFICES ASSUME Init PROVE Inv
  OBVIOUS
<1>1. Processing = {}
  BY DEF Init, Processing
<1>2. \A k : Using(k) = {}
  BY <1>1 DEF Using
<1>3. waiters \in [Updates -> Seq(Updates)]
  BY DEF Init
<1>4. TypeOK
  BY <1>3, UpdateProcessorAssumption DEF Init, TypeOK, TaskPc
<1>5. RegistryCounts
  BY <1>2, FS_EmptySet DEF Init, RegistryCounts
<1>6. RefsLock /\ HoldsLock /\ Undelivered
  BY <1>1 DEF Init, RefsLock, HoldsLock, Undelivered
<1>7. QED BY <1>4, <1>5, <1>6 DEF Inv

LEMMA InvStep == ASSUME Inv, [Next]_vars PROVE Inv'
<1>1. TypeOK /\ TypeOK'
  BY TypeStep DEF Inv
<1>2. CASE Fetch
  <2>1. PICK n \in fetched + 1..MaxUpdates :
             /\ fetched' = n
             /\ task' = [u \in Updates |-> IF u \in fetched + 1..n THEN "slot" ELSE task[u]]
    BY <1>2 DEF Fetch
  <2>2. n \in Nat /\ fetched \in Nat /\ n > fetched /\ Updates \subseteq Nat
    BY <1>1, <2>1, UpdatesAreNats, UpdateProcessorAssumption DEF TypeOK
  <2>3. \A u \in Updates : u \in fetched + 1..n => task[u] = "none"
    BY <2>2 DEF Inv, Undelivered
  <2>4. UNCHANGED <<topic, locks, users, ref, holder>>
    BY <1>2 DEF Fetch, registry
  <2>5. Stays
    BY <2>1, <2>3, <2>4 DEF Stays
  <2>6. HoldsLock'
    BY <2>1, <2>4 DEF Inv, HoldsLock
  <2>7. Undelivered'
    BY <2>1, <2>2 DEF Inv, Undelivered
  <2>8. QED BY <1>1, <2>4, <2>5, <2>6, <2>7, StaysRegistry DEF Inv
<1>3. ASSUME NEW u \in Updates, Process(u) PROVE Inv'
  <2>1. task[u] # "none" /\ UNCHANGED fetched
    BY <1>3 DEF Process, Enter, EnterQueue, EnterDuplicate, Wake, WakeDuplicate, Finish, Raise,
                Leave, HasPermit, IsNext
  <2>2. \A v \in Updates : v # u => task'[v] = task[v]
    BY <1>1, <1>3 DEF Process, Enter, EnterQueue, EnterDuplicate, Wake, WakeDuplicate, Finish,
                      Raise, Leave, TypeOK
  <2>3. Undelivered'
    BY <2>1, <2>2 DEF Inv, Undelivered
  <2>4. QED BY <1>1, <1>3, <2>3, StepsOnRegistry, StepsOnLocks DEF Inv
<1>4. CASE Restart
  <2>1. Processing' = {}
    BY <1>4 DEF Restart, Processing
  <2>2. \A k \in Topics : Using(k)' = {}
    BY <2>1 DEF Using
  <2>3. RegistryCounts'
    BY <1>4, <2>2, FS_EmptySet DEF Restart, RegistryCounts
  <2>4. RefsLock' /\ HoldsLock' /\ Undelivered'
    BY <1>4, <2>1 DEF Restart, RefsLock, HoldsLock, Undelivered
  <2>5. QED BY <1>1, <2>3, <2>4 DEF Inv
<1>5. CASE UNCHANGED vars
  <2>1. Stays /\ UNCHANGED topic
    BY <1>5 DEF Stays, vars, registry
  <2>2. HoldsLock' /\ Undelivered'
    BY <1>5 DEF Inv, HoldsLock, Undelivered, vars, registry
  <2>3. QED BY <1>1, <2>1, <2>2, StaysRegistry DEF Inv
<1>6. QED BY <1>2, <1>3, <1>4, <1>5 DEF Next

\* The inductive invariant: the registry counts the users of a topic's lock, all of
\* them have the same lock, and who runs holds it.
THEOREM InvCorrect == Spec => []Inv
BY InvInit, InvStep, PTL DEF Spec

\* For every number of updates, topics and permits, the registry has the lock of a
\* topic exactly while some task of that topic waits for it or has it.
THEOREM RegistryExact == Spec => []RegistryCounts
<1>1. Inv => RegistryCounts
  BY DEF Inv
<1>2. QED BY <1>1, InvCorrect, PTL

\* No two updates of a topic are in their handlers at the same time, whatever comes
\* into and goes out of the registry and however often the process restarts.
THEOREM OneHandlerPerTopic == Spec => []OneAtATime
<1>1. Inv => OneAtATime
  <2> SUFFICES ASSUME Inv, NEW u \in Updates, NEW v \in Updates,
                      task[u] = "run", task[v] = "run", topic[u] = topic[v]
               PROVE  u = v
    BY DEF OneAtATime
  <2>1. ref[u] = ref[v]
    BY DEF Inv, RefsLock, Processing
  <2>2. holder[ref[u]] = u /\ holder[ref[v]] = v
    BY DEF Inv, HoldsLock
  <2>3. QED BY <2>1, <2>2
<1>2. QED BY <1>1, InvCorrect, PTL

-------------------------------------------------------------------------------
(* The table.                                                               *)

\* A claim belongs to a handler of this process that runs or is done, or is one that
\* the start did not release; and what is recorded as completed was handled.
ClaimsAreReal ==
    \A u \in Updates : /\ table[u] = "inflight" => task[u] \in {"run", "done"} \/ u \in stuck
                       /\ table[u] = "completed" => u \in handled
                       /\ owns[u] => task[u] = "run"

LEMMA ClaimsStep ==
    ASSUME Inv, ClaimsAreReal, [Next]_vars
    PROVE  ClaimsAreReal'
<1>1. TypeOK /\ Updates \subseteq Nat
  BY UpdatesAreNats DEF Inv
<1>2. CASE Fetch
  <2>1. PICK n \in fetched + 1..MaxUpdates :
             task' = [u \in Updates |-> IF u \in fetched + 1..n THEN "slot" ELSE task[u]]
    BY <1>2 DEF Fetch
  <2>2. \A u \in Updates : u \in fetched + 1..n => task[u] = "none"
    BY <1>1, <2>1, UpdateProcessorAssumption DEF Inv, Undelivered, TypeOK
  <2>3. UNCHANGED <<table, owns, handled, stuck>>
    BY <1>2 DEF Fetch
  <2>4. QED BY <2>1, <2>2, <2>3 DEF ClaimsAreReal
<1>3. ASSUME NEW u \in Updates, Process(u) PROVE ClaimsAreReal'
  <2>1. \A v \in Updates \ {u} :
            task'[v] = task[v] /\ table'[v] = table[v] /\ owns'[v] = owns[v]
    BY <1>1, <1>3 DEF Process, Enter, EnterQueue, EnterDuplicate, Wake, WakeDuplicate, Finish,
                      Raise, Leave, Claim, Completed, TypeOK
  <2>2. handled \subseteq handled' /\ UNCHANGED stuck
    BY <1>3 DEF Process, Enter, EnterQueue, EnterDuplicate, Wake, WakeDuplicate, Finish, Raise,
                Leave
  <2>3. CASE Enter(u) \/ Wake(u)
    <3>1. task'[u] = "run" /\ UNCHANGED handled
      BY <1>1, <2>3 DEF Enter, Wake, TypeOK
    <3>2. table'[u] \in {table[u], "inflight"}
      BY <1>1, <2>3 DEF Enter, Wake, Claim, TypeOK
    <3>3. QED BY <2>1, <2>2, <3>1, <3>2 DEF ClaimsAreReal
  <2>4. CASE EnterQueue(u) \/ EnterDuplicate(u) \/ WakeDuplicate(u)
    <3>1. /\ UNCHANGED <<table, owns, handled>> /\ task[u] \in {"slot", "lock"}
      BY <2>4 DEF EnterQueue, EnterDuplicate, WakeDuplicate, HasPermit, IsNext
    <3>2. QED BY <2>1, <2>2, <3>1 DEF ClaimsAreReal
  <2>5. CASE Finish(u)
    <3>1. u \in handled' /\ task'[u] = "done" /\ owns'[u] = FALSE
      BY <1>1, <2>5 DEF Finish, Leave, TypeOK
    <3>2. QED BY <2>1, <2>2, <3>1 DEF ClaimsAreReal
  <2>6. CASE Raise(u)
    <3>1. UNCHANGED handled /\ task'[u] = "done" /\ owns'[u] = FALSE
      BY <1>1, <2>6 DEF Raise, Leave, TypeOK
    <3>2. table'[u] \in {table[u], "absent"}
      BY <1>1, <2>6 DEF Raise, TypeOK
    <3>3. QED BY <2>1, <2>2, <3>1, <3>2 DEF ClaimsAreReal
  <2>7. QED BY <1>3, <2>3, <2>4, <2>5, <2>6 DEF Process
<1>4. CASE Restart
  BY <1>1, <1>4 DEF Restart, Released, Inflight, ClaimsAreReal
<1>5. CASE UNCHANGED vars
  BY <1>5 DEF vars, ClaimsAreReal
<1>6. QED BY <1>2, <1>3, <1>4, <1>5 DEF Next

\* The claims of the table are real in every reachable state.
THEOREM ClaimsCorrect == Spec => []ClaimsAreReal
<1>1. Init => ClaimsAreReal
  BY DEF Init, ClaimsAreReal
<1>2. Inv /\ ClaimsAreReal /\ [Next]_vars => ClaimsAreReal'
  BY ClaimsStep
<1>3. QED BY <1>1, <1>2, InvCorrect, PTL DEF Spec

\* An update is skipped as a duplicate only when its handler came to its end before, or
\* when the start could not release its claim: after every other start, one that a
\* crash interrupted is handled again if Telegram delivers it again.
THEOREM DuplicatesWereHandled == Spec => SkippedWasHandled
<1> DEFINE Justified == \A u \in Updates : Skips(u) => u \in handled \cup stuck
<1>1. ASSUME Inv, ClaimsAreReal, [Next]_vars PROVE Justified
  <2> SUFFICES ASSUME NEW u \in Updates, task[u] \in {"slot", "lock"}, task'[u] = "done"
               PROVE  u \in handled \cup stuck
    BY DEF Skips
  <2>1. TypeOK
    BY <1>1 DEF Inv
  <2>2. PICK v \in Updates : Process(v)
    BY <1>1, <2>1 DEF Next, Fetch, Restart, vars, TypeOK
  <2>3. v = u
    BY <2>1, <2>2 DEF Process, Enter, EnterQueue, EnterDuplicate, Wake, WakeDuplicate, Finish,
                      Raise, Leave, TypeOK
  <2>4. EnterDuplicate(u) \/ WakeDuplicate(u)
    BY <2>1, <2>2, <2>3 DEF Process, Enter, EnterQueue, Wake, Finish, Raise, TypeOK
  <2>5. table[u] \in {"inflight", "completed"}
    BY <2>1, <2>4 DEF EnterDuplicate, WakeDuplicate, Claimable, TypeOK
  <2>6. QED BY <1>1, <2>5 DEF ClaimsAreReal
<1>2. Inv /\ ClaimsAreReal /\ [Next]_vars => [Justified]_vars
  BY <1>1
<1>3. QED BY <1>2, InvCorrect, ClaimsCorrect, PTL DEF Spec, SkippedWasHandled

\* What is recorded as completed is handled again only when the store cannot be asked.
THEOREM CompletedUpdatesAreSkipped == Spec => CompletedIsSkipped
<1> DEFINE Skipped == \A u \in Updates : Starts(u) /\ table[u] = "completed"
                                         => ~owns'[u] /\ "store" \in Failures
<1>1. ASSUME Inv, ClaimsAreReal, [Next]_vars PROVE Skipped
  <2> SUFFICES ASSUME NEW u \in Updates, Starts(u), table[u] = "completed"
               PROVE  ~owns'[u] /\ "store" \in Failures
    OBVIOUS
  <2>1. TypeOK
    BY <1>1 DEF Inv
  <2>2. PICK v \in Updates : Process(v)
    BY <1>1, <2>1 DEF Next, Fetch, Restart, vars, TypeOK, Starts
  <2>3. v = u
    BY <2>1, <2>2 DEF Process, Enter, EnterQueue, EnterDuplicate, Wake, WakeDuplicate, Finish,
                      Raise, Leave, TypeOK, Starts
  <2>4. Enter(u) \/ Wake(u)
    BY <2>1, <2>2, <2>3 DEF Process, EnterQueue, EnterDuplicate, WakeDuplicate, Finish, Raise,
                            Leave, TypeOK, Starts
  <2>5. "store" \in Failures /\ UNCHANGED owns
    BY <2>4 DEF Enter, Wake, Claim, Claimable
  <2>6. QED BY <1>1, <2>5 DEF ClaimsAreReal, Starts
<1>2. Inv /\ ClaimsAreReal /\ [Next]_vars => [Skipped]_vars
  BY <1>1
<1>3. QED BY <1>2, InvCorrect, ClaimsCorrect, PTL DEF Spec, CompletedIsSkipped

-------------------------------------------------------------------------------
(* Order.                                                                   *)

\* Whoever waits for the semaphore came after all that have passed it.
SlotsAreLast ==
    \A u, v \in Updates : task[u] = "slot" /\ task[v] \in {"lock", "run"} => v < u

\* A lock's waiters are tasks that wait for it, in the order of their updates.
WaitersWait ==
    \A l \in Updates : \A i \in 1..Len(waiters[l]) :
        task[waiters[l][i]] = "lock" /\ ref[waiters[l][i]] = l
WaitersSorted ==
    \A l \in Updates : \A i, j \in 1..Len(waiters[l]) : i < j => waiters[l][i] < waiters[l][j]

\* Who waits for a lock is among its waiters.
WaitsInLine ==
    \A u \in Updates :
        task[u] = "lock" => \E i \in 1..Len(waiters[ref[u]]) : waiters[ref[u]][i] = u

OrderInv == SlotsAreLast /\ WaitersWait /\ WaitersSorted /\ WaitsInLine

LEMMA WaiterIsUpdate ==
    ASSUME TypeOK, NEW l \in Updates, NEW i \in 1..Len(waiters[l])
    PROVE  waiters[l][i] \in Updates
<1>1. waiters[l] \in Seq(Updates)
  BY DEF TypeOK
<1>2. QED BY <1>1

LEMMA SlotsStep ==
    ASSUME Inv, SlotsAreLast, [Next]_vars
    PROVE  SlotsAreLast'
<1>1. TypeOK /\ Updates \subseteq Nat
  BY UpdatesAreNats DEF Inv
<1>2. CASE Fetch
  <2>1. PICK n \in fetched + 1..MaxUpdates :
             task' = [u \in Updates |-> IF u \in fetched + 1..n THEN "slot" ELSE task[u]]
    BY <1>2 DEF Fetch
  <2>2. fetched \in Nat
    BY <1>1, UpdateProcessorAssumption DEF TypeOK
  <2>3. \A v \in Updates : task[v] # "none" => v <= fetched
    BY <1>1, <2>2 DEF Inv, Undelivered
  <2>4. QED BY <1>1, <2>1, <2>2, <2>3 DEF SlotsAreLast
<1>3. ASSUME NEW u \in Updates, Process(u) PROVE SlotsAreLast'
  <2>1. (\A v \in Updates \ {u} : task'[v] = task[v]) /\ task'[u] # "slot"
    BY <1>1, <1>3 DEF Process, Enter, EnterQueue, EnterDuplicate, Wake, WakeDuplicate, Finish,
                      Raise, Leave, TypeOK
  <2>2. CASE task[u] = "slot"
    <3>1. HasPermit(u)
      BY <1>3, <2>2 DEF Process, Enter, EnterQueue, EnterDuplicate, Wake, WakeDuplicate, IsNext,
                        Finish, Raise
    <3>2. \A v \in Updates \ {u} : task[v] = "slot" => u < v
      BY <1>1, <3>1 DEF HasPermit
    <3>3. QED BY <2>1, <3>2 DEF SlotsAreLast
  <2>3. CASE task[u] # "slot"
    <3>1. task[u] \in {"lock", "run"}
      BY <1>3, <2>3 DEF Process, Enter, EnterQueue, EnterDuplicate, HasPermit, Wake,
                        WakeDuplicate, IsNext, Finish, Raise
    <3>2. QED BY <2>1, <3>1 DEF SlotsAreLast
  <2>4. QED BY <2>2, <2>3
<1>4. CASE Restart
  BY <1>4 DEF Restart, SlotsAreLast
<1>5. CASE UNCHANGED vars
  BY <1>5 DEF vars, SlotsAreLast
<1>6. QED BY <1>2, <1>3, <1>4, <1>5 DEF Next

Lines == WaitersWait /\ WaitersSorted /\ WaitsInLine

\* The lines stay as they are when nobody in them moves.
LEMMA LinesStay ==
    ASSUME Lines, UNCHANGED waiters,
           \A v \in Updates : task[v] = "lock" <=> task'[v] = "lock",
           \A v \in Updates : task[v] = "lock" => ref'[v] = ref[v],
           TypeOK
    PROVE  Lines'
<1>1. ASSUME NEW l \in Updates, NEW i \in 1..Len(waiters[l])
      PROVE  task'[waiters[l][i]] = "lock" /\ ref'[waiters[l][i]] = l
  <2>1. waiters[l][i] \in Updates
    BY WaiterIsUpdate
  <2>2. QED BY <2>1 DEF Lines, WaitersWait
<1>2. WaitersWait'
  BY <1>1 DEF WaitersWait
<1>3. WaitersSorted'
  BY DEF Lines, WaitersSorted
<1>4. WaitsInLine'
  BY DEF Lines, WaitsInLine
<1>5. QED BY <1>2, <1>3, <1>4 DEF Lines

\* A task that queues comes after all that are in the line.
LEMMA LineGrows ==
    ASSUME Inv, OrderInv, NEW u \in Updates, EnterQueue(u)
    PROVE  Lines'
<1> DEFINE l == LockFor(u)
           old == waiters[l]
<1>1. TypeOK /\ l \in Updates /\ task[u] = "slot" /\ Updates \subseteq Nat
  BY LockForType, UpdatesAreNats DEF Inv, EnterQueue, HasPermit
<1>2. old \in Seq(Updates)
  BY <1>1 DEF TypeOK
<1>3. /\ waiters'[l] = Append(old, u)
      /\ \A m \in Updates \ {l} : waiters'[m] = waiters[m]
  BY <1>1 DEF EnterQueue, TypeOK
<1>4. /\ task'[u] = "lock" /\ ref'[u] = l
      /\ \A v \in Updates \ {u} : task'[v] = task[v] /\ ref'[v] = ref[v]
  BY <1>1, RegisterType DEF EnterQueue, TypeOK
<1>5. /\ Len(waiters'[l]) = Len(old) + 1 /\ waiters'[l][Len(old) + 1] = u
      /\ \A i \in 1..Len(old) : waiters'[l][i] = old[i]
      /\ Len(old) \in Nat
  BY <1>2, <1>3
<1>6. ASSUME NEW m \in Updates, NEW i \in 1..Len(waiters[m])
      PROVE  /\ waiters[m][i] \in Updates \ {u}
             /\ task[waiters[m][i]] = "lock" /\ ref[waiters[m][i]] = m
             /\ waiters[m][i] < u
  <2>1. waiters[m][i] \in Updates
    BY <1>1, WaiterIsUpdate
  <2>2. task[waiters[m][i]] = "lock" /\ ref[waiters[m][i]] = m
    BY DEF OrderInv, WaitersWait
  <2>3. QED BY <1>1, <2>1, <2>2 DEF OrderInv, SlotsAreLast
<1>7. ASSUME NEW m \in Updates, NEW i \in 1..Len(waiters'[m])
      PROVE  task'[waiters'[m][i]] = "lock" /\ ref'[waiters'[m][i]] = m
  <2>1. CASE m = l /\ i = Len(old) + 1
    BY <1>4, <1>5, <2>1
  <2>2. CASE m = l /\ i # Len(old) + 1
    <3>1. i \in 1..Len(old)
      BY <1>5, <2>2
    <3>2. /\ waiters'[l][i] = old[i] /\ old[i] \in Updates \ {u}
          /\ task[old[i]] = "lock" /\ ref[old[i]] = l
      BY <1>1, <1>5, <1>6, <3>1
    <3>3. QED BY <1>4, <2>2, <3>2
  <2>3. CASE m # l
    BY <1>3, <1>4, <1>6, <2>3
  <2>4. QED BY <2>1, <2>2, <2>3
<1>8. ASSUME NEW m \in Updates, NEW i \in 1..Len(waiters'[m]), NEW j \in 1..Len(waiters'[m]), i < j
      PROVE  waiters'[m][i] < waiters'[m][j]
  <2>1. CASE m = l /\ j = Len(old) + 1
    <3>1. i \in 1..Len(old)
      BY <1>5, <1>8, <2>1
    <3>2. waiters'[l][i] = old[i] /\ old[i] < u
      BY <1>1, <1>5, <1>6, <3>1
    <3>3. QED BY <1>5, <2>1, <3>2
  <2>2. CASE m = l /\ j # Len(old) + 1
    <3>1. i \in 1..Len(old) /\ j \in 1..Len(old)
      BY <1>5, <1>8, <2>2
    <3>2. old[i] < old[j]
      BY <1>1, <1>8, <3>1 DEF OrderInv, WaitersSorted
    <3>3. QED BY <1>5, <2>2, <3>1, <3>2
  <2>3. CASE m # l
    BY <1>3, <1>8, <2>3 DEF OrderInv, WaitersSorted
  <2>4. QED BY <2>1, <2>2, <2>3
<1>9. ASSUME NEW v \in Updates, task'[v] = "lock"
      PROVE  \E i \in 1..Len(waiters'[ref'[v]]) : waiters'[ref'[v]][i] = v
  <2>1. CASE v = u
    <3>1. Len(old) + 1 \in 1..Len(waiters'[l])
      BY <1>5
    <3>2. QED BY <1>4, <1>5, <2>1, <3>1
  <2>2. CASE v # u
    <3>1. ref'[v] = ref[v] /\ task[v] = "lock" /\ ref[v] \in Updates
      BY <1>1, <1>4, <1>9, <2>2 DEF TypeOK
    <3>2. PICK i \in 1..Len(waiters[ref[v]]) : waiters[ref[v]][i] = v
      BY <3>1 DEF OrderInv, WaitsInLine
    <3>3. i \in 1..Len(waiters'[ref[v]]) /\ waiters'[ref[v]][i] = v
      BY <1>3, <1>5, <3>1, <3>2
    <3>4. QED BY <3>1, <3>3
  <2>3. QED BY <2>1, <2>2
<1>10. WaitersWait' /\ WaitersSorted' /\ WaitsInLine'
  BY <1>7, <1>8, <1>9 DEF WaitersWait, WaitersSorted, WaitsInLine
<1>11. QED BY <1>10 DEF Lines

\* Its head leaves the line.
LEMMA LineShrinks ==
    ASSUME Inv, OrderInv, NEW u \in Updates, Wake(u) \/ WakeDuplicate(u)
    PROVE  Lines'
<1> DEFINE l == ref[u]
           old == waiters[l]
<1>1. TypeOK /\ l \in Updates /\ old # <<>> /\ Head(old) = u /\ task[u] = "lock"
  BY DEF Inv, Wake, WakeDuplicate, IsNext, TypeOK
<1>2. old \in Seq(Updates) /\ Updates \subseteq Nat
  BY <1>1, UpdatesAreNats DEF TypeOK
<1>3. /\ waiters'[l] = Tail(old)
      /\ \A m \in Updates \ {l} : waiters'[m] = waiters[m]
  BY <1>1 DEF Wake, WakeDuplicate, TypeOK
<1>4. /\ task'[u] # "lock"
      /\ \A v \in Updates \ {u} : task'[v] = task[v] /\ ref'[v] = ref[v]
  BY <1>1 DEF Wake, WakeDuplicate, TypeOK
<1>5. /\ Len(old) \in Nat \ {0} /\ Len(waiters'[l]) = Len(old) - 1 /\ old[1] = u
      /\ \A i \in 1..Len(old) - 1 : waiters'[l][i] = old[i + 1]
  BY <1>1, <1>2, <1>3
<1>6. \A i \in 1..Len(old) : i # 1 => old[i] # u
  <2>1. ASSUME NEW i \in 1..Len(old), i # 1 PROVE old[1] < old[i]
    BY <1>1, <1>5, <2>1 DEF OrderInv, WaitersSorted
  <2>2. QED BY <1>2, <1>5, <2>1
<1>7. ASSUME NEW m \in Updates, NEW i \in 1..Len(waiters[m]), waiters[m][i] # u
      PROVE  task'[waiters[m][i]] = "lock" /\ ref'[waiters[m][i]] = m
  <2>1. waiters[m][i] \in Updates \ {u}
    BY <1>1, <1>7, WaiterIsUpdate
  <2>2. QED BY <1>4, <2>1 DEF OrderInv, WaitersWait
<1>8. ASSUME NEW m \in Updates, NEW i \in 1..Len(waiters'[m])
      PROVE  task'[waiters'[m][i]] = "lock" /\ ref'[waiters'[m][i]] = m
  <2>1. CASE m = l
    <3>1. i \in 1..Len(old) - 1 /\ i + 1 \in 1..Len(old) /\ i + 1 # 1
      BY <1>5, <2>1
    <3>2. waiters'[l][i] = old[i + 1] /\ old[i + 1] # u
      BY <1>5, <1>6, <3>1
    <3>3. QED BY <1>1, <1>7, <2>1, <3>1, <3>2
  <2>2. CASE m # l
    <3>1. waiters'[m] = waiters[m]
      BY <1>3, <2>2
    <3>2. ref[waiters[m][i]] = m
      BY <3>1 DEF OrderInv, WaitersWait
    <3>3. QED BY <1>7, <2>2, <3>1, <3>2
  <2>3. QED BY <2>1, <2>2
<1>9. ASSUME NEW m \in Updates, NEW i \in 1..Len(waiters'[m]), NEW j \in 1..Len(waiters'[m]), i < j
      PROVE  waiters'[m][i] < waiters'[m][j]
  <2>1. CASE m = l
    <3>1. /\ i + 1 \in 1..Len(old) /\ j + 1 \in 1..Len(old) /\ i + 1 < j + 1
          /\ waiters'[l][i] = old[i + 1] /\ waiters'[l][j] = old[j + 1]
      BY <1>5, <1>9, <2>1
    <3>2. QED BY <1>1, <2>1, <3>1 DEF OrderInv, WaitersSorted
  <2>2. CASE m # l
    BY <1>3, <1>9, <2>2 DEF OrderInv, WaitersSorted
  <2>3. QED BY <2>1, <2>2
<1>10. ASSUME NEW v \in Updates, task'[v] = "lock"
       PROVE  \E i \in 1..Len(waiters'[ref'[v]]) : waiters'[ref'[v]][i] = v
  <2>1. v # u /\ ref'[v] = ref[v] /\ task[v] = "lock"
    BY <1>4, <1>10
  <2>2. ref[v] \in Updates
    BY <1>1, <2>1 DEF TypeOK
  <2>3. PICK i \in 1..Len(waiters[ref[v]]) : waiters[ref[v]][i] = v
    BY <2>1 DEF OrderInv, WaitsInLine
  <2>4. CASE ref[v] = l
    <3>1. i # 1
      BY <1>5, <2>1, <2>3, <2>4
    <3>2. i - 1 \in 1..Len(old) - 1 /\ (i - 1) + 1 = i
      BY <1>5, <2>3, <2>4, <3>1
    <3>3. waiters'[l][i - 1] = v /\ i - 1 \in 1..Len(waiters'[l])
      BY <1>5, <2>3, <2>4, <3>2
    <3>4. QED BY <2>1, <2>4, <3>3
  <2>5. CASE ref[v] # l
    BY <1>3, <2>1, <2>2, <2>3, <2>5
  <2>6. QED BY <2>4, <2>5
<1>11. WaitersWait' /\ WaitersSorted' /\ WaitsInLine'
  BY <1>8, <1>9, <1>10 DEF WaitersWait, WaitersSorted, WaitsInLine
<1>12. QED BY <1>11 DEF Lines

LEMMA OrderStep ==
    ASSUME Inv, OrderInv, [Next]_vars
    PROVE  OrderInv'
<1>1. TypeOK /\ Lines
  BY DEF Inv, OrderInv, Lines
<1>2. Lines'
  <2>1. CASE Fetch
    <3>1. PICK n \in fetched + 1..MaxUpdates :
               task' = [u \in Updates |-> IF u \in fetched + 1..n THEN "slot" ELSE task[u]]
      BY <2>1 DEF Fetch
    <3>2. \A v \in Updates : v \in fetched + 1..n => task[v] = "none"
      BY <1>1, <3>1, UpdatesAreNats, UpdateProcessorAssumption DEF Inv, Undelivered, TypeOK
    <3>3. \A v \in Updates : task[v] = "lock" <=> task'[v] = "lock"
      BY <3>1, <3>2
    <3>4. UNCHANGED <<waiters, ref>>
      BY <2>1 DEF Fetch, registry
    <3>5. QED BY <1>1, <3>3, <3>4, LinesStay
  <2>2. ASSUME NEW u \in Updates, Process(u) PROVE Lines'
    <3>1. CASE EnterQueue(u)
      BY <3>1, LineGrows
    <3>2. CASE Wake(u) \/ WakeDuplicate(u)
      BY <3>2, LineShrinks
    <3>3. CASE Enter(u) \/ EnterDuplicate(u) \/ Finish(u) \/ Raise(u)
      <4>1. task[u] # "lock" /\ task'[u] # "lock" /\ UNCHANGED waiters
        BY <1>1, <3>3 DEF Enter, EnterDuplicate, HasPermit, Finish, Raise, Leave, TypeOK
      <4>2. \A v \in Updates \ {u} : task'[v] = task[v] /\ ref'[v] = ref[v]
        BY <1>1, <3>3 DEF Enter, EnterDuplicate, Register, Finish, Raise, Leave, TypeOK
      <4>3. QED BY <1>1, <4>1, <4>2, LinesStay
    <3>4. QED BY <2>2, <3>1, <3>2, <3>3 DEF Process
  <2>3. CASE Restart
    <3>1. /\ \A l \in Updates : waiters'[l] = <<>>
          /\ \A u \in Updates : task'[u] = "none"
      BY <2>3 DEF Restart
    <3>2. \A l \in Updates : 1..Len(waiters'[l]) = {}
      BY <3>1
    <3>3. QED BY <3>1, <3>2 DEF Lines, WaitersWait, WaitersSorted, WaitsInLine
  <2>4. CASE UNCHANGED vars
    BY <1>1, <2>4, LinesStay DEF vars, registry
  <2>5. QED BY <2>1, <2>2, <2>3, <2>4 DEF Next
<1>3. SlotsAreLast'
  BY SlotsStep DEF OrderInv
<1>4. QED BY <1>2, <1>3 DEF OrderInv, Lines

\* The semaphore and the locks keep the order of the updates, however the tasks
\* interleave.
THEOREM OrderCorrect == Spec => []OrderInv
<1>1. Init => OrderInv
  <2> SUFFICES ASSUME Init PROVE OrderInv
    OBVIOUS
  <2>1. /\ \A l \in Updates : waiters[l] = <<>>
        /\ \A u \in Updates : task[u] = "none"
    BY DEF Init
  <2>2. \A l \in Updates : 1..Len(waiters[l]) = {}
    BY <2>1
  <2>3. QED BY <2>1, <2>2 DEF OrderInv, SlotsAreLast, WaitersWait, WaitersSorted, WaitsInLine
<1>2. Inv /\ OrderInv /\ [Next]_vars => OrderInv'
  BY OrderStep
<1>3. QED BY <1>1, <1>2, InvCorrect, PTL DEF Spec

\* A free lock of a topic is a topic that nobody waits for or works on.
LEMMA FreeLockIsIdleTopic ==
    ASSUME Inv, OrderInv, NEW v \in Updates, IsFree(LockFor(v)),
           NEW u \in Updates, topic[u] = topic[v]
    PROVE  task[u] \notin {"lock", "run"}
<1> SUFFICES ASSUME task[u] \in {"lock", "run"} PROVE FALSE
  OBVIOUS
<1>1. ref[u] = locks[topic[u]] /\ ref[u] \in Updates
  BY DEF Inv, RefsLock, Processing, TypeOK
<1>2. LockFor(v) = ref[u]
  BY <1>1, UpdatesAreNats DEF LockFor
<1>3. holder[ref[u]] = None /\ Len(waiters[ref[u]]) = 0
  BY <1>2 DEF IsFree
<1>4. CASE task[u] = "run"
  BY <1>3, <1>4, UpdatesAreNats DEF Inv, HoldsLock
<1>5. CASE task[u] = "lock"
  BY <1>3, <1>5 DEF OrderInv, WaitsInLine
<1>6. QED BY <1>4, <1>5

\* The head of a line is the first of its topic's tasks.
LEMMA HeadIsFirst ==
    ASSUME Inv, OrderInv, NEW v \in Updates, IsNext(v),
           NEW u \in Updates, topic[u] = topic[v], u < v
    PROVE  task[u] \notin {"lock", "run"}
<1> SUFFICES ASSUME task[u] \in {"lock", "run"} PROVE FALSE
  OBVIOUS
<1>1. TypeOK /\ Updates \subseteq Nat
  BY UpdatesAreNats DEF Inv
<1>2. ref[u] = ref[v] /\ ref[v] \in Updates
  BY DEF Inv, RefsLock, Processing, TypeOK, IsNext
<1>3. CASE task[u] = "run"
  BY <1>2, <1>3, UpdatesAreNats DEF Inv, HoldsLock, IsNext
<1>4. CASE task[u] = "lock"
  <2> DEFINE line == waiters[ref[v]]
  <2>1. PICK i \in 1..Len(line) : line[i] = u
    BY <1>2, <1>4 DEF OrderInv, WaitsInLine
  <2>2. line \in Seq(Updates) /\ line # <<>> /\ line[1] = v /\ 1 \in 1..Len(line)
    <3>1. line \in Seq(Updates)
      BY <1>1, <1>2 DEF TypeOK
    <3>2. line # <<>> /\ Head(line) = v
      BY DEF IsNext
    <3>3. QED BY <3>1, <3>2
  <2>3. i # 1
    BY <1>1, <2>1, <2>2
  <2>4. line[1] < line[i]
    BY <1>2, <2>1, <2>2, <2>3 DEF OrderInv, WaitersSorted
  <2>5. QED BY <1>1, <2>1, <2>2, <2>4
<1>5. QED BY <1>3, <1>4

\* A handler starts after those of all earlier updates of its topic that were
\* delivered to the process, for every number of topics, updates and permits.
THEOREM ArrivalOrder == Spec => TopicOrder
<1> DEFINE InOrder == \A u, v \in Updates :
             Starts(v) /\ u < v /\ topic[u] = topic[v] => task[u] \notin {"slot", "lock", "run"}
<1>1. ASSUME Inv, OrderInv, [Next]_vars PROVE InOrder
  <2> SUFFICES ASSUME NEW u \in Updates, NEW v \in Updates,
                      Starts(v), u < v, topic[u] = topic[v]
               PROVE  task[u] \notin {"slot", "lock", "run"}
    OBVIOUS
  <2>1. TypeOK /\ Updates \subseteq Nat
    BY <1>1, UpdatesAreNats DEF Inv
  <2>2. PICK w \in Updates : Process(w)
    BY <1>1, <2>1 DEF Next, Fetch, Restart, vars, TypeOK, Starts
  <2>3. w = v
    BY <2>1, <2>2 DEF Process, Enter, EnterQueue, EnterDuplicate, Wake, WakeDuplicate, Finish,
                      Raise, Leave, TypeOK, Starts
  <2>4. Enter(v) \/ Wake(v)
    BY <2>1, <2>2, <2>3 DEF Process, EnterQueue, EnterDuplicate, WakeDuplicate, Finish, Raise,
                            Leave, TypeOK, Starts
  <2>5. CASE Enter(v)
    <3>1. task[u] # "slot"
      BY <2>1, <2>5 DEF Enter, HasPermit
    <3>2. task[u] \notin {"lock", "run"}
      BY <1>1, <2>5, FreeLockIsIdleTopic DEF Enter
    <3>3. QED BY <3>1, <3>2
  <2>6. CASE Wake(v)
    <3>1. IsNext(v) /\ task[v] = "lock"
      BY <2>6 DEF Wake, IsNext
    <3>2. task[u] # "slot"
      BY <1>1, <2>1, <3>1 DEF OrderInv, SlotsAreLast
    <3>3. task[u] \notin {"lock", "run"}
      BY <1>1, <3>1, HeadIsFirst
    <3>4. QED BY <3>2, <3>3
  <2>7. QED BY <2>4, <2>5, <2>6
<1>2. Inv /\ OrderInv /\ [Next]_vars => [InOrder]_vars
  BY <1>1
<1>3. QED BY <1>2, InvCorrect, OrderCorrect, PTL DEF Spec, TopicOrder
===============================================================================
