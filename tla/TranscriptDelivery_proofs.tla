---------------------- MODULE TranscriptDelivery_proofs ----------------------
(***************************************************************************)
(* Proofs about TranscriptDelivery, in three layers.                       *)
(*                                                                         *)
(* FutureInv: the types, and for each topic the delivery_future.  While    *)
(* the monitor waits for the topic, one task that can answer it is in the  *)
(* queue or with the worker; otherwise there is none, and a worker that    *)
(* rests holds none.                                                       *)
(*                                                                         *)
(* OrderInv: NothingLost and InOrder depend on each other and are proved   *)
(* together.  A task carries an entry whose predecessors are displayed     *)
(* (Carried), because the monitor offers one only then; that needs what    *)
(* lies before the group's end to be displayed or in the group             *)
(* (Dispatched), which holds because a group is what the offsets leave     *)
(* out, and they leave out only what is displayed (NothingLost).           *)
(*                                                                         *)
(* RepeatInv: an account of each topic (Paid).  Every copy of an entry it  *)
(* shows or has on its way is a first one that will not be handed on again *)
(* (Settled) or is paid by a fault, and so is every disturbance that will  *)
(* cost a copy later (Debt): a quarantine the present group has not met    *)
(* (Owing), and a message in hand that has failed or will fail (Doomed).   *)
(***************************************************************************)
EXTENDS TranscriptDelivery, FiniteSetTheorems, SequenceTheorems, WellFoundedInduction, TLAPS

-------------------------------------------------------------------------------
(* The transcript, the group and what a worker merges.                      *)

LEMMA Least ==
    ASSUME NEW S \in SUBSET Nat, S # {}
    PROVE  \E n \in S : \A m \in S : n <= m
<1> DEFINE R == {ss \in Nat \X Nat : ss[1] < ss[2]}
<1>1. IsWellFoundedOn(R, Nat)
  BY NatLessThanWellFounded DEF OpToRel
<1>2. \A m, n \in Nat : m < n => <<m, n>> \in R
  OBVIOUS
<1> HIDE DEF R
<1>3. PICK n \in S : \A m \in S : ~(<<m, n>> \in R)
  BY <1>1, WFMin
<1>4. \A m \in S : m \in Nat /\ n \in Nat /\ ~(m < n)
  BY <1>2, <1>3
<1>5. QED BY <1>4

LEMMA Lines ==
    /\ Ids \subseteq Nat /\ LastLine \in Nat
    /\ \A i \in Ids : /\ Line(i) \in 1..LastLine /\ Kind(i) \in Kinds
                      /\ Offset(i) \in 0..LastLine
    /\ \A i, j \in Ids : i < j => Line(i) <= Line(j)
<1>1. Transcript \in Seq([line: Nat \ {0}, kind: Kinds])
  BY TranscriptAssumption
<1>2. Len(Transcript) \in Nat /\ Ids = 1..Len(Transcript)
  BY <1>1 DEF Ids
<1>3. ASSUME NEW i \in Ids PROVE Line(i) \in Nat \ {0} /\ Kind(i) \in Kinds
  <2>1. Transcript[i] \in [line: Nat \ {0}, kind: Kinds]
    BY <1>1, <1>2, ElementOfSeq
  <2>2. QED BY <2>1 DEF Line, Kind
<1>4. \A i, j \in Ids : i < j => Line(i) <= Line(j)
  BY TranscriptAssumption DEF Ids, Line
<1>5. LastLine \in Nat
  BY <1>1, <1>2, <1>3 DEF LastLine
<1>6. ASSUME NEW i \in Ids PROVE Line(i) <= LastLine
  <2>1. Transcript # <<>> /\ Len(Transcript) \in Ids
    BY <1>1, <1>2
  <2>2. i = Len(Transcript) \/ i < Len(Transcript)
    BY <1>2
  <2>3. QED BY <1>3, <1>4, <2>1, <2>2 DEF LastLine
<1>7. QED BY <1>2, <1>3, <1>4, <1>5, <1>6 DEF Offset

\* The group has a first message.
LEMMA CurrentIs ==
    ASSUME mon.batch \in SUBSET Ids, mon.batch # {}
    PROVE  Current \in mon.batch /\ \A j \in mon.batch : Before(Current, j)
<1> DEFINE limits == {i \in mon.batch : Kind(i) = "limit"}
<1>1. \E i \in mon.batch : \A j \in mon.batch : Before(i, j)
  <2>1. CASE limits # {}
    <3>1. PICK i \in limits : \A j \in limits : i <= j
      BY <2>1, Lines, Least
    <3>2. QED BY <3>1 DEF Before
  <2>2. CASE limits = {}
    <3>1. PICK i \in mon.batch : \A j \in mon.batch : i <= j
      BY Lines, Least
    <3>2. QED BY <2>2, <3>1 DEF Before
  <2>3. QED BY <2>1, <2>2
<1>2. QED BY <1>1 DEF Current

LEMMA MergeableIs ==
    ASSUME NEW base, NEW rest \in Seq(Tasks)
    PROVE  /\ Mergeable(base, rest) \in 0..Len(rest)
           /\ \A k \in 1..Mergeable(base, rest) : CanMerge(base, rest[k])
<1> DEFINE Stops == {n \in 0..Len(rest) : n = Len(rest) \/ ~CanMerge(base, rest[n + 1])}
<1>1. Len(rest) \in Nat
  OBVIOUS
<1>2. Len(rest) \in Stops
  BY <1>1
<1>3. PICK n \in Stops : \A m \in Stops : n <= m
  <2>1. Stops \in SUBSET Nat
    BY <1>1
  <2>2. QED BY <1>2, <2>1, Least
<1>4. ASSUME NEW k \in 1..n PROVE CanMerge(base, rest[k])
  <2>1. k - 1 \in 0..Len(rest) /\ k - 1 < n /\ (k - 1) + 1 = k
    BY <1>1
  <2>2. k - 1 \notin Stops
    <3>1. SUFFICES ASSUME k - 1 \in Stops PROVE FALSE
      OBVIOUS
    <3>2. n <= k - 1
      BY <1>3, <3>1
    <3>3. QED BY <1>1, <2>1, <3>2
  <2>3. QED BY <2>1, <2>2
<1>5. \E m \in 0..Len(rest) : /\ \A k \in 1..m : CanMerge(base, rest[k])
                              /\ m = Len(rest) \/ ~CanMerge(base, rest[m + 1])
  BY <1>3, <1>4
<1> HIDE DEF Stops
<1>6. QED BY <1>5 DEF Mergeable

-------------------------------------------------------------------------------
(* Queues of tasks.                                                         *)

IsLive(task) == task.fut = "live"
NoneLive(q) == \A k \in DOMAIN q : ~IsLive(q[k])
OneLive(q) == \E k \in DOMAIN q : IsLive(q[k]) /\ \A l \in DOMAIN q : IsLive(q[l]) => l = k
\* Every task of q2 is one of q.
From(q, q2) == \A k \in DOMAIN q2 : \E l \in DOMAIN q : q2[k] = q[l]

LEMMA TailOf ==
    ASSUME NEW q \in Seq(Tasks), q # <<>>
    PROVE  /\ Tail(q) \in Seq(Tasks) /\ Head(q) \in Tasks
           /\ \E k \in DOMAIN q : Head(q) = q[k]
           /\ From(q, Tail(q))
           /\ NoneLive(q) => ~IsLive(Head(q)) /\ NoneLive(Tail(q))
           /\ OneLive(q) => IF IsLive(Head(q)) THEN NoneLive(Tail(q)) ELSE OneLive(Tail(q))
<1>1. Len(q) \in Nat \ {0} /\ DOMAIN q = 1..Len(q)
  BY EmptySeq, LenProperties
<1>2. /\ Tail(q) \in Seq(Tasks) /\ DOMAIN Tail(q) = 1..Len(q) - 1
      /\ Head(q) = q[1] /\ Head(q) \in Tasks
      /\ \A k \in 1..Len(q) - 1 : k + 1 \in DOMAIN q /\ Tail(q)[k] = q[k + 1]
  BY <1>1
<1>3. \E k \in DOMAIN q : Head(q) = q[k]
  BY <1>1, <1>2
<1>4. From(q, Tail(q))
  BY <1>2 DEF From
<1>5. NoneLive(q) => ~IsLive(Head(q)) /\ NoneLive(Tail(q))
  BY <1>2, <1>3 DEF NoneLive
<1>6. ASSUME OneLive(q) PROVE IF IsLive(Head(q)) THEN NoneLive(Tail(q)) ELSE OneLive(Tail(q))
  <2>1. PICK k \in DOMAIN q : IsLive(q[k]) /\ \A l \in DOMAIN q : IsLive(q[l]) => l = k
    BY <1>6 DEF OneLive
  <2>2. CASE k = 1
    BY <1>1, <1>2, <2>1, <2>2 DEF NoneLive
  <2>3. CASE k # 1
    <3>1. k - 1 \in 1..Len(q) - 1 /\ Tail(q)[k - 1] = q[k] /\ ~IsLive(q[1])
      BY <1>1, <1>2, <2>1, <2>3
    <3>2. \A l \in 1..Len(q) - 1 : IsLive(Tail(q)[l]) => l = k - 1
      BY <1>1, <1>2, <2>1
    <3>3. QED BY <1>2, <2>1, <3>1, <3>2 DEF OneLive
  <2>4. QED BY <2>2, <2>3
<1>7. QED BY <1>2, <1>3, <1>4, <1>5, <1>6

\* What follows the first n tasks.
LEMMA SuffixIs ==
    ASSUME NEW q \in Seq(Tasks), NEW n \in 0..Len(q)
    PROVE  /\ SubSeq(q, n + 1, Len(q)) \in Seq(Tasks)
           /\ DOMAIN SubSeq(q, n + 1, Len(q)) = 1..Len(q) - n
           /\ \A k \in 1..Len(q) - n :
                 k + n \in DOMAIN q /\ SubSeq(q, n + 1, Len(q))[k] = q[k + n]
<1> DEFINE s == SubSeq(q, n + 1, Len(q))
<1> HIDE DEF s
<1>1. Len(q) \in Nat /\ DOMAIN q = 1..Len(q) /\ n \in Nat /\ n <= Len(q)
  BY LenProperties
<1>2. \A l \in Nat : \A k \in Nat : k <= l => (IF k + 1 <= l THEN (l - (k + 1)) + 1 ELSE 0) = l - k
  OBVIOUS
<1>3. /\ s \in Seq(Tasks) /\ DOMAIN s = 1..Len(q) - n
      /\ \A k \in 1..Len(q) - n : k + n \in DOMAIN q /\ s[k] = q[k + n]
  <2>1. n + 1 \in Int /\ Len(q) \in Int /\ (Len(q) - (n + 1)) + 1 = Len(q) - n
        /\ \A i \in 1..Len(q) - n : (n + 1 + i) - 1 = i + n
    BY <1>1
  <2>2. \A i \in (n + 1)..Len(q) : q[i] \in Tasks
    BY <1>1, ElementOfSeq
  <2>3. /\ s \in Seq(Tasks)
        /\ Len(s) = IF n + 1 <= Len(q) THEN (Len(q) - (n + 1)) + 1 ELSE 0
        /\ \A i \in 1..(Len(q) - (n + 1)) + 1 : s[i] = q[(n + 1 + i) - 1]
    BY <2>1, <2>2, SubSeqProperties DEF s
  <2>4. Len(s) = Len(q) - n
    BY <1>1, <1>2, <2>3, Zenon
  <2>5. DOMAIN s = 1..Len(s)
    BY <2>3, LenProperties
  <2>6. \A k \in 1..Len(q) - n : k + n \in DOMAIN q
    BY <1>1
  <2>7. QED BY <2>1, <2>3, <2>4, <2>5, <2>6
<1>4. QED BY <1>3 DEF s

LEMMA RestOf ==
    ASSUME NEW q \in Seq(Tasks), NEW n \in 0..Len(q), \A k \in 1..n : ~IsLive(q[k])
    PROVE  /\ SubSeq(q, n + 1, Len(q)) \in Seq(Tasks)
           /\ From(q, SubSeq(q, n + 1, Len(q)))
           /\ NoneLive(q) => NoneLive(SubSeq(q, n + 1, Len(q)))
           /\ OneLive(q) => OneLive(SubSeq(q, n + 1, Len(q)))
<1> DEFINE s == SubSeq(q, n + 1, Len(q))
<1>1. Len(q) \in Nat /\ DOMAIN q = 1..Len(q) /\ n \in Nat /\ n <= Len(q)
  BY LenProperties
<1>2. /\ s \in Seq(Tasks) /\ DOMAIN s = 1..Len(q) - n
      /\ \A k \in 1..Len(q) - n : k + n \in DOMAIN q /\ s[k] = q[k + n]
  BY SuffixIs
<1> HIDE DEF s
<1>3. From(q, s)
  BY <1>2 DEF From
<1>4. NoneLive(q) => NoneLive(s)
  BY <1>2 DEF NoneLive
<1>5. ASSUME OneLive(q) PROVE OneLive(s)
  <2>1. PICK k \in DOMAIN q : IsLive(q[k]) /\ \A l \in DOMAIN q : IsLive(q[l]) => l = k
    BY <1>5 DEF OneLive
  <2>2. k \notin 1..n
    BY <2>1
  <2>3. k - n \in 1..Len(q) - n /\ s[k - n] = q[k]
    BY <1>1, <1>2, <2>1, <2>2
  <2>4. \A l \in 1..Len(q) - n : IsLive(s[l]) => l = k - n
    BY <1>1, <1>2, <2>1
  <2>5. QED BY <1>2, <2>1, <2>3, <2>4 DEF OneLive
<1>6. QED BY <1>2, <1>3, <1>4, <1>5 DEF s

LEMMA AppendTo ==
    ASSUME NEW q \in Seq(Tasks), NEW task \in Tasks
    PROVE  /\ Append(q, task) \in Seq(Tasks)
           /\ \A k \in DOMAIN Append(q, task) :
                 Append(q, task)[k] = task \/ \E l \in DOMAIN q : Append(q, task)[k] = q[l]
           /\ NoneLive(q) => IF IsLive(task) THEN OneLive(Append(q, task))
                                             ELSE NoneLive(Append(q, task))
           /\ OneLive(q) /\ ~IsLive(task) => OneLive(Append(q, task))
<1> DEFINE s == Append(q, task)
<1>1. /\ Len(q) \in Nat /\ DOMAIN q = 1..Len(q) /\ s \in Seq(Tasks)
      /\ DOMAIN s = 1..Len(q) + 1 /\ s[Len(q) + 1] = task
      /\ \A k \in 1..Len(q) : s[k] = q[k]
  OBVIOUS
<1> HIDE DEF s
<1>2. \A k \in 1..Len(q) + 1 : k = Len(q) + 1 \/ k \in 1..Len(q)
  BY <1>1
<1>3. \A k \in DOMAIN s : s[k] = task \/ \E l \in DOMAIN q : s[k] = q[l]
  BY <1>1, <1>2
<1>4. NoneLive(q) => IF IsLive(task) THEN OneLive(s) ELSE NoneLive(s)
  BY <1>1, <1>2 DEF NoneLive, OneLive
<1>5. OneLive(q) /\ ~IsLive(task) => OneLive(s)
  BY <1>1, <1>2 DEF OneLive
<1>6. QED BY <1>1, <1>3, <1>4, <1>5 DEF s

LEMMA OrphanedIs ==
    ASSUME NEW task \in Tasks
    PROVE  /\ Orphaned(task) \in Tasks /\ Orphaned(task).ids = task.ids
           /\ ~IsLive(Orphaned(task))
BY DEF Orphaned, Tasks, Futures, IsLive

LEMMA OrphanedQueue ==
    ASSUME NEW q \in Seq(Tasks)
    PROVE  /\ [k \in DOMAIN q |-> Orphaned(q[k])] \in Seq(Tasks)
           /\ NoneLive([k \in DOMAIN q |-> Orphaned(q[k])])
<1>1. Len(q) \in Nat /\ DOMAIN q = 1..Len(q) /\ \A k \in DOMAIN q : q[k] \in Tasks
  OBVIOUS
<1>2. \A k \in DOMAIN q : Orphaned(q[k]) \in Tasks /\ ~IsLive(Orphaned(q[k]))
  BY <1>1, OrphanedIs
<1>3. QED BY <1>1, <1>2 DEF NoneLive

-------------------------------------------------------------------------------
(* Types.                                                                   *)

MonPcs == {"sleep", "next", "call", "join", "wait", "settle"}
Answers == {"none", "sent", "failed", "refused"}
Monitors == [pc: MonPcs, batch: SUBSET Ids, done: Nat, todo: SUBSET Topics, failed: BOOLEAN,
             to: 0..LastLine, at: Topics \cup {NoTopic}, answer: Answers, gen: Nat]
Workers == [pc: {"idle", "flood", "send", "after", "warn"}, task: Tasks]

Typed ==
    /\ written \in 0..LastLine /\ tracked \in 0..LastLine
    /\ mon \in Monitors
    /\ uoff \in [Topics -> 0..LastLine]
    /\ queue \in [Topics -> Seq(Tasks)]
    /\ worker \in [Topics -> Workers]
    /\ flood \in BOOLEAN /\ backoff \in BOOLEAN /\ stopping \in BOOLEAN
    /\ refused \in [Topics -> Nat] /\ route \in [Topics -> Nat]
    /\ blocked \in Topics \cup {NoTopic}
    /\ shown \in [Topics -> Seq(Ids)]
    /\ notices \in 0..MaxNotices /\ faults \in 0..MaxFaults
    /\ mon.pc \in {"next", "call", "join", "wait"} => mon.batch # {}
    /\ mon.pc \in {"join", "wait"} => mon.at \in Topics
    /\ mon.answer # "none" => mon.pc = "wait"

\* The monitor waits for the answer to a message it gave to the worker of t.
Awaited(t) == mon.pc = "wait" /\ mon.at = t /\ mon.answer = "none"
\* The task that can answer, if one can, is with the worker or once in the queue.
FuturesOk(q, task, awaited) ==
    IF awaited
    THEN IF IsLive(task) THEN NoneLive(q) ELSE OneLive(q)
    ELSE ~IsLive(task) /\ NoneLive(q)
Futured(t) == /\ FuturesOk(queue[t], worker[t].task, Awaited(t))
              /\ worker[t].pc = "idle" => ~IsLive(worker[t].task)
FutureInv == Typed /\ \A t \in Topics : Futured(t)

LEMMA LiveIsAwaited ==
    ASSUME FutureInv, NEW t \in Topics
    PROVE  /\ IsLive(worker[t].task) => Awaited(t)
           /\ \A k \in DOMAIN queue[t] : IsLive(queue[t][k]) => Awaited(t)
BY DEF FutureInv, Futured, FuturesOk, NoneLive

LEMMA Bounds == /\ RetryLimit \in Nat /\ MaxFaults \in Nat /\ MaxNotices \in Nat
                /\ LastLine \in Nat
BY TranscriptAssumption, Lines

LEMMA FaultTyped ==
    ASSUME Typed, NEW e, Fault(e)
    PROVE  faults' \in 0..MaxFaults
<1>1. faults \in 0..MaxFaults /\ faults < MaxFaults /\ faults' = faults + 1
  BY DEF Typed, Fault
<1>2. QED BY <1>1, Bounds

LEMMA IdleTyped == Idle \in Monitors /\ Resting \in Workers
BY Bounds DEF Idle, Resting, Monitors, Workers, MonPcs, Answers, Task, Tasks, Futures

LEMMA FailedTyped ==
    ASSUME NEW at \in Topics \cup {NoTopic}
    PROVE  /\ Failed(at) \in Monitors /\ Failed(at).pc = "settle" /\ Failed(at).at = at
           /\ Failed(at).answer = "none" /\ Failed(at).to = 0 /\ Failed(at).failed
<1> DEFINE m == Idle
<1>1. m \in Monitors /\ m.answer = "none" /\ m.to = 0
  BY IdleTyped DEF Idle
<1>2. Failed(at) = [m EXCEPT !.pc = "settle", !.failed = TRUE, !.at = at]
  BY DEF Failed
<1> HIDE DEF m
<1>3. QED BY <1>1, <1>2 DEF Monitors, MonPcs

LEMMA SettledTyped ==
    ASSUME NEW to \in 0..LastLine
    PROVE  LET m == [Idle EXCEPT !.pc = "settle", !.to = to]
           IN  m \in Monitors /\ m.pc = "settle" /\ m.answer = "none" /\ m.to = to /\ ~m.failed
<1> DEFINE i == Idle
           m == [i EXCEPT !.pc = "settle", !.to = to]
<1>1. i \in Monitors /\ i.answer = "none" /\ ~i.failed
  BY IdleTyped DEF Idle
<1> HIDE DEF i
<1>2. m \in Monitors /\ m.pc = "settle" /\ m.answer = "none" /\ m.to = to /\ ~m.failed
  BY <1>1 DEF Monitors, MonPcs
<1> USE DEF i
<1>3. QED BY <1>2

LEMMA PausedTyped ==
    LET m == [Idle EXCEPT !.pc = "settle"]
    IN  m \in Monitors /\ m.pc = "settle" /\ m.answer = "none" /\ m.to = 0 /\ ~m.failed
<1> DEFINE i == Idle
           m == [i EXCEPT !.pc = "settle"]
<1>1. i \in Monitors /\ i.answer = "none" /\ ~i.failed /\ i.to = 0
  BY IdleTyped DEF Idle
<1> HIDE DEF i
<1>2. m \in Monitors /\ m.pc = "settle" /\ m.answer = "none" /\ m.to = 0 /\ ~m.failed
  BY <1>1 DEF Monitors, MonPcs
<1> USE DEF i
<1>3. QED BY <1>2

LEMMA NextTyped ==
    ASSUME mon \in Monitors, NEW batch \in SUBSET Ids
    PROVE  LET m == [mon EXCEPT !.pc = "next", !.batch = batch, !.done = mon.done + 1]
           IN  /\ m \in Monitors /\ m.pc = "next" /\ m.answer = mon.answer /\ m.batch = batch
               /\ m.to = mon.to /\ m.failed = mon.failed /\ m.todo = mon.todo
<1> DEFINE n == mon.done + 1
<1>1. n \in Nat
  BY DEF Monitors
<1> HIDE DEF n
<1>2. LET m == [mon EXCEPT !.pc = "next", !.batch = batch, !.done = n]
      IN  /\ m \in Monitors /\ m.pc = "next" /\ m.answer = mon.answer /\ m.batch = batch
          /\ m.to = mon.to /\ m.failed = mon.failed /\ m.todo = mon.todo
  BY <1>1 DEF Monitors, MonPcs
<1> USE DEF n
<1>3. QED BY <1>2

LEMMA DoneTyped ==
    ASSUME NEW t \in Topics, mon \in Monitors
    PROVE  /\ Done(t) \in Monitors /\ Done(t).pc = "call" /\ Done(t).batch = mon.batch
           /\ Done(t).todo = mon.todo \ {t} /\ Done(t).answer = "none" /\ Done(t).to = mon.to
           /\ Done(t).failed = mon.failed
<1> DEFINE todo == mon.todo \ {t}
<1>1. Done(t) = [mon EXCEPT !.pc = "call", !.todo = todo, !.at = NoTopic, !.answer = "none"]
  BY DEF Done
<1>2. todo \in SUBSET Topics
  BY DEF Monitors
<1> HIDE DEF todo
<1>3. /\ Done(t) \in Monitors /\ Done(t).pc = "call" /\ Done(t).batch = mon.batch
      /\ Done(t).todo = todo /\ Done(t).answer = "none" /\ Done(t).to = mon.to
      /\ Done(t).failed = mon.failed
  BY <1>1, <1>2 DEF Monitors, MonPcs, Answers
<1> USE DEF todo
<1>4. QED BY <1>3

LEMMA FailingTyped ==
    ASSUME NEW m \in Monitors
    PROVE  LET f == [m EXCEPT !.failed = TRUE]
           IN  /\ f \in Monitors /\ f.failed /\ f.pc = m.pc /\ f.batch = m.batch
               /\ f.todo = m.todo /\ f.answer = m.answer /\ f.to = m.to
BY DEF Monitors

\* A task of an entry or of a notice.
LEMMA TaskTyped ==
    ASSUME NEW ids \in Seq(Ids), NEW fut \in Futures, NEW gen \in Nat
    PROVE  Task(ids, fut, gen) \in Tasks
BY Bounds DEF Task, Tasks

LEMMA ResolvedIs ==
    ASSUME mon \in Monitors, NEW t, NEW task, NEW r \in Answers
    PROVE  /\ Resolved(t, task, r) \in Monitors
           /\ ~IsLive(task) => Resolved(t, task, r) = mon
           /\ IsLive(task) => Resolved(t, task, r) = [mon EXCEPT !.answer = r]
           /\ Resolved(t, task, r) = [mon EXCEPT !.answer = Resolved(t, task, r).answer]
BY DEF Resolved, Monitors, IsLive

\* What a worker that looks for its next task does: it holds the task or ends it.
Started(t, task, q2) ==
    /\ queue' = [queue EXCEPT ![t] = q2] /\ From(queue[t], q2)
    /\ \/ /\ mon' = mon
          /\ \E pc \in {"flood", "send"} :
                worker' = [worker EXCEPT ![t] = [pc |-> pc, task |-> task]]
       \/ \E r \in {"failed", "refused"} : Finish(t, task, r)

LEMMA BeginIs ==
    ASSUME NEW t \in Topics, NEW task \in Tasks, NEW rest \in Seq(Tasks), Begin(t, task, rest)
    PROVE  \E q2 \in Seq(Tasks) :
              /\ From(rest, q2)
              /\ NoneLive(rest) => NoneLive(q2)
              /\ OneLive(rest) => OneLive(q2)
              /\ queue' = [queue EXCEPT ![t] = q2]
              /\ \/ /\ mon' = mon
                    /\ worker' = [worker EXCEPT ![t] = [pc |-> "send", task |-> task]]
                 \/ Finish(t, task, "failed")
<1> DEFINE n == Mergeable(task, rest)
           q2 == SubSeq(rest, n + 1, Len(rest))
<1>1. n \in 0..Len(rest) /\ \A k \in 1..n : CanMerge(task, rest[k])
  BY MergeableIs
<1>2. \A k \in 1..n : ~IsLive(rest[k])
  BY <1>1 DEF CanMerge, IsLive
<1>3. queue' = [queue EXCEPT ![t] = q2]
      /\ \/ mon' = mon /\ worker' = [worker EXCEPT ![t] = [pc |-> "send", task |-> task]]
         \/ Finish(t, task, "failed")
  BY DEF Begin
<1> HIDE DEF n
<1>4. /\ q2 \in Seq(Tasks) /\ From(rest, q2)
      /\ NoneLive(rest) => NoneLive(q2)
      /\ OneLive(rest) => OneLive(q2)
  BY <1>1, <1>2, RestOf
<1>5. QED BY <1>3, <1>4

LEMMA TakeIs ==
    ASSUME NEW t \in Topics, Typed, Take(t)
    PROVE  \E task \in Tasks, q2 \in Seq(Tasks) :
              /\ Started(t, task, q2) /\ worker[t].pc = "idle"
              /\ \E k \in DOMAIN queue[t] : task = queue[t][k]
              /\ NoneLive(queue[t]) => ~IsLive(task) /\ NoneLive(q2)
              /\ OneLive(queue[t]) => IF IsLive(task) THEN NoneLive(q2) ELSE OneLive(q2)
<1> DEFINE q == queue[t]
           task == Head(q)
           rest == Tail(q)
<1>1. q \in Seq(Tasks) /\ q # <<>> /\ worker[t].pc = "idle"
  BY DEF Typed, Take
<1>2. /\ rest \in Seq(Tasks) /\ task \in Tasks /\ From(q, rest)
      /\ \E k \in DOMAIN q : task = q[k]
      /\ NoneLive(q) => ~IsLive(task) /\ NoneLive(rest)
      /\ OneLive(q) => IF IsLive(task) THEN NoneLive(rest) ELSE OneLive(rest)
  BY <1>1, TailOf
<1>3. \/ Finish(t, task, "refused") /\ queue' = [queue EXCEPT ![t] = rest]
      \/ /\ worker' = [worker EXCEPT ![t] = [pc |-> "flood", task |-> task]]
         /\ queue' = [queue EXCEPT ![t] = rest] /\ mon' = mon
      \/ Begin(t, task, rest)
  BY DEF Take
<1> HIDE DEF task, rest
<1>4. CASE Begin(t, task, rest)
  <2>1. PICK q2 \in Seq(Tasks) :
              /\ From(rest, q2)
              /\ NoneLive(rest) => NoneLive(q2)
              /\ OneLive(rest) => OneLive(q2)
              /\ queue' = [queue EXCEPT ![t] = q2]
              /\ \/ /\ mon' = mon
                    /\ worker' = [worker EXCEPT ![t] = [pc |-> "send", task |-> task]]
                 \/ Finish(t, task, "failed")
    BY <1>2, <1>4, BeginIs
  <2>2. From(q, q2)
    BY <1>2, <2>1 DEF From
  <2>3. Started(t, task, q2)
    BY <2>1, <2>2 DEF Started
  <2>4. QED BY <1>1, <1>2, <2>1, <2>3
<1>5. CASE ~Begin(t, task, rest)
  <2>1. Started(t, task, rest)
    BY <1>2, <1>3, <1>5 DEF Started
  <2>2. QED BY <1>1, <1>2, <2>1
<1>6. QED BY <1>4, <1>5

LEMMA FloodOverIs ==
    ASSUME NEW t \in Topics, Typed, FloodOver(t)
    PROVE  \E q2 \in Seq(Tasks) :
              /\ Started(t, worker[t].task, q2) /\ worker[t].pc = "flood"
              /\ NoneLive(queue[t]) => NoneLive(q2)
              /\ OneLive(queue[t]) => OneLive(q2)
<1>1. queue[t] \in Seq(Tasks) /\ worker[t].task \in Tasks
  BY DEF Typed, Workers
<1>2. Begin(t, worker[t].task, queue[t]) /\ worker[t].pc = "flood"
  BY DEF FloodOver
<1>3. PICK q2 \in Seq(Tasks) :
              /\ From(queue[t], q2)
              /\ NoneLive(queue[t]) => NoneLive(q2)
              /\ OneLive(queue[t]) => OneLive(q2)
              /\ queue' = [queue EXCEPT ![t] = q2]
              /\ \/ /\ mon' = mon
                    /\ worker' = [worker EXCEPT ![t] = [pc |-> "send", task |-> worker[t].task]]
                 \/ Finish(t, worker[t].task, "failed")
  BY <1>1, <1>2, BeginIs
<1>4. Started(t, worker[t].task, q2)
  BY <1>3 DEF Started
<1>5. QED BY <1>2, <1>3, <1>4

LEMMA TypedInit == Init => Typed
<1> SUFFICES ASSUME Init PROVE Typed
  OBVIOUS
<1>1. /\ mon \in Monitors /\ mon.pc = "sleep" /\ mon.answer = "none"
      /\ queue \in [Topics -> Seq(Tasks)] /\ worker \in [Topics -> Workers]
  BY IdleTyped DEF Init, Idle
<1>2. shown \in [Topics -> Seq(Ids)] /\ uoff \in [Topics -> 0..LastLine]
  BY Bounds DEF Init
<1>3. /\ refused \in [Topics -> Nat] /\ route \in [Topics -> Nat]
      /\ written \in 0..LastLine /\ tracked \in 0..LastLine
      /\ notices \in 0..MaxNotices /\ faults \in 0..MaxFaults
  BY Bounds DEF Init
<1>4. /\ flood \in BOOLEAN /\ backoff \in BOOLEAN /\ stopping \in BOOLEAN
      /\ blocked \in Topics \cup {NoTopic}
  BY DEF Init
<1>5. QED BY <1>1, <1>2, <1>3, <1>4 DEF Typed

LEMMA FinishTyped ==
    ASSUME NEW t \in Topics, Typed, NEW task \in Tasks, NEW r \in Answers, Finish(t, task, r)
    PROVE  /\ mon' \in Monitors /\ mon' = [mon EXCEPT !.answer = mon'.answer]
           /\ worker' \in [Topics -> Workers]
           /\ mon'.answer # mon.answer => IsLive(task)
<1>1. worker' = [worker EXCEPT ![t] = Resting] /\ mon' = Resolved(t, task, r)
  BY DEF Finish
<1>2. mon \in Monitors /\ worker \in [Topics -> Workers]
  BY DEF Typed
<1>3. worker' \in [Topics -> Workers]
  BY <1>1, <1>2, IdleTyped
<1>4. QED BY <1>1, <1>2, <1>3, ResolvedIs

LEMMA StartedTyped ==
    ASSUME NEW t \in Topics, Typed, NEW task \in Tasks, NEW q2 \in Seq(Tasks),
           Started(t, task, q2)
    PROVE  /\ mon' \in Monitors /\ mon' = [mon EXCEPT !.answer = mon'.answer]
           /\ queue' \in [Topics -> Seq(Tasks)] /\ worker' \in [Topics -> Workers]
           /\ mon'.answer # mon.answer => IsLive(task)
<1>1. queue' \in [Topics -> Seq(Tasks)]
  BY DEF Started, Typed
<1>2. CASE \E r \in {"failed", "refused"} : Finish(t, task, r)
  BY <1>1, <1>2, FinishTyped DEF Answers
<1>3. ASSUME NEW pc \in {"flood", "send"}, mon' = mon,
             worker' = [worker EXCEPT ![t] = [pc |-> pc, task |-> task]]
      PROVE  worker' \in [Topics -> Workers] /\ mon' = [mon EXCEPT !.answer = mon'.answer]
             /\ mon' \in Monitors
  BY <1>3 DEF Typed, Workers, Monitors
<1>4. QED BY <1>1, <1>2, <1>3 DEF Started

LEMMA OrphanAllIs ==
    ASSUME Typed, OrphanAll
    PROVE  /\ queue' \in [Topics -> Seq(Tasks)] /\ worker' \in [Topics -> Workers]
           /\ \A t \in Topics : /\ NoneLive(queue'[t]) /\ ~IsLive(worker'[t].task)
                                /\ worker'[t].pc = worker[t].pc
                                /\ worker'[t].task.ids = worker[t].task.ids
                                /\ queue'[t] = [k \in DOMAIN queue[t] |-> Orphaned(queue[t][k])]
<1>1. ASSUME NEW t \in Topics
      PROVE  /\ queue'[t] \in Seq(Tasks) /\ NoneLive(queue'[t])
             /\ queue'[t] = [k \in DOMAIN queue[t] |-> Orphaned(queue[t][k])]
             /\ worker'[t] \in Workers /\ ~IsLive(worker'[t].task)
             /\ worker'[t].pc = worker[t].pc /\ worker'[t].task.ids = worker[t].task.ids
  <2>1. queue[t] \in Seq(Tasks) /\ worker[t] \in Workers /\ worker[t].task \in Tasks
    BY DEF Typed, Workers
  <2>2. /\ queue'[t] = [k \in DOMAIN queue[t] |-> Orphaned(queue[t][k])]
        /\ worker'[t] = [worker[t] EXCEPT !.task = Orphaned(worker[t].task)]
    BY DEF OrphanAll
  <2>3. worker'[t] \in Workers /\ worker'[t].task = Orphaned(worker[t].task)
        /\ worker'[t].pc = worker[t].pc
    BY <2>1, <2>2, OrphanedIs DEF Workers
  <2>4. QED BY <2>1, <2>2, <2>3, OrphanedIs, OrphanedQueue
<1>2. /\ queue' = [t \in Topics |-> queue'[t]]
      /\ worker' = [t \in Topics |-> worker'[t]]
  BY DEF OrphanAll
<1>3. QED BY <1>1, <1>2

LEMMA MarkedTyped ==
    ASSUME Typed, NEW t \in Topics, NEW i \in Ids
    PROVE  Marked(t, i) \in [Topics -> 0..LastLine] /\ MarkedFor(t, i) \in [Topics -> 0..LastLine]
BY Lines DEF Marked, MarkedFor, Typed

\* The monitor has a message of its group in hand.
LEMMA InHandIs ==
    ASSUME Typed, mon.pc \in {"next", "call", "join", "wait"}
    PROVE  /\ Current \in mon.batch /\ Current \in Ids /\ mon.batch \subseteq Ids
           /\ \A j \in mon.batch : Before(Current, j)
BY CurrentIs DEF Typed, Monitors

LEMMA EnqueueIs ==
    ASSUME Typed, NEW t \in Topics, mon.pc \in {"call", "join"}, Enqueue(t)
    PROVE  \/ Quarantined(t) /\ mon' = Failed(t) /\ queue' = queue
           \/ \E task \in Tasks :
                 /\ ~Quarantined(t)
                 /\ task.ids = <<Current>> /\ IsLive(task)
                 /\ task.gen = mon'.gen /\ mon'.gen = route[t]
                 /\ queue' = [queue EXCEPT ![t] = Append(queue[t], task)]
                 /\ mon' \in Monitors /\ mon'.pc = "wait" /\ mon'.at = t
                 /\ mon'.batch = mon.batch /\ mon'.to = mon.to /\ mon'.todo = mon.todo
                 /\ mon'.failed = mon.failed /\ mon'.answer = mon.answer
<1>1. CASE Quarantined(t)
  BY <1>1 DEF Enqueue
<1>2. CASE ~Quarantined(t)
  <2> DEFINE task == Task(<<Current>>, "live", route[t])
  <2>1. <<Current>> \in Seq(Ids)
    BY InHandIs
  <2>2. task \in Tasks /\ task.ids = <<Current>> /\ IsLive(task) /\ task.gen = route[t]
    <3>1. task \in Tasks
      BY <2>1, TaskTyped DEF Typed, Futures
    <3>2. QED BY <3>1 DEF Task, IsLive
  <2>3. /\ queue' = [queue EXCEPT ![t] = Append(queue[t], task)]
        /\ mon' = [mon EXCEPT !.pc = "wait", !.at = t, !.gen = route[t]]
    BY <1>2 DEF Enqueue
  <2>4. /\ mon' \in Monitors /\ mon'.pc = "wait" /\ mon'.at = t
        /\ mon'.batch = mon.batch /\ mon'.to = mon.to /\ mon'.todo = mon.todo
        /\ mon'.failed = mon.failed /\ mon'.answer = mon.answer /\ mon'.gen = route[t]
    BY <2>3 DEF Typed, Monitors, MonPcs
  <2> HIDE DEF task
  <2>5. QED BY <1>2, <2>2, <2>3, <2>4
<1>3. QED BY <1>1, <1>2

LEMMA EnqueueTyped ==
    ASSUME Typed, NEW t \in Topics, mon.pc \in {"call", "join"}, Enqueue(t)
    PROVE  /\ queue' \in [Topics -> Seq(Tasks)] /\ mon' \in Monitors
           /\ mon'.pc \in {"settle", "wait"} /\ (mon'.pc = "wait" => mon'.at = t)
           /\ mon'.answer = "none" /\ (mon'.pc = "wait" => mon'.batch = mon.batch)
<1>1. mon.answer = "none" /\ queue[t] \in Seq(Tasks)
  BY DEF Typed
<1>2. CASE mon' = Failed(t) /\ queue' = queue
  BY <1>2, FailedTyped DEF Typed
<1>3. ASSUME NEW task \in Tasks, queue' = [queue EXCEPT ![t] = Append(queue[t], task)]
      PROVE  queue' \in [Topics -> Seq(Tasks)]
  <2>1. Append(queue[t], task) \in Seq(Tasks)
    BY <1>1, AppendTo
  <2>2. QED BY <1>3, <2>1 DEF Typed
<1>4. CASE ~(mon' = Failed(t) /\ queue' = queue)
  BY <1>1, <1>3, <1>4, EnqueueIs
<1>5. QED BY <1>2, <1>4

LEMMA DeliveringTyped ==
    ASSUME Typed, NEW t \in Topics,
           Pass(t) \/ AwaitQueue(t) \/ Offer(t) \/ Ask(t) \/ Answered(t)
    PROVE  Typed'
<1> USE DEF monVars, sendVars
<1>1. Current \in Ids /\ mon \in Monitors
  BY InHandIs DEF Pass, AwaitQueue, Offer, Ask, Answered, Typed
<1>2. /\ Marked(t, Current) \in [Topics -> 0..LastLine]
      /\ MarkedFor(t, Current) \in [Topics -> 0..LastLine]
  BY <1>1, MarkedTyped
<1>3. Done(t) \in Monitors /\ Done(t).pc = "call" /\ Done(t).batch = mon.batch
      /\ Done(t).answer = "none"
  BY <1>1, DoneTyped
<1>4. CASE Pass(t)
  BY <1>2, <1>3, <1>4 DEF Pass, Typed
<1>5. CASE AwaitQueue(t)
  <2>1. mon' = [mon EXCEPT !.pc = "join", !.at = t, !.gen = route[t]]
    BY <1>5 DEF AwaitQueue
  <2>2. mon' \in Monitors /\ mon'.pc = "join" /\ mon'.at = t /\ mon'.batch = mon.batch
        /\ mon'.answer = mon.answer
    BY <1>1, <2>1 DEF Monitors, MonPcs, Typed
  <2>3. QED BY <1>5, <2>2 DEF AwaitQueue, Typed
<1>6. CASE Offer(t)
  <2>1. mon.pc = "call" /\ Enqueue(t)
    BY <1>6 DEF Offer
  <2>2. QED BY <1>6, <2>1, EnqueueTyped DEF Offer, Typed
<1>7. CASE Ask(t)
  <2>1. CASE mon' = Done(t) /\ queue' = queue /\ uoff' = MarkedFor(t, Current)
             /\ shown' = [shown EXCEPT ![t] = Append(shown[t], Current)]
    <3>1. Append(shown[t], Current) \in Seq(Ids)
      BY <1>1 DEF Typed
    <3>2. shown' \in [Topics -> Seq(Ids)]
      BY <2>1, <3>1 DEF Typed
    <3>3. QED BY <1>2, <1>3, <1>7, <2>1, <3>2 DEF Ask, Typed
  <2>2. CASE Enqueue(t) /\ UNCHANGED <<shown, uoff>>
    <3>1. mon.pc = "join"
      BY <1>7 DEF Ask
    <3>2. QED BY <1>7, <2>2, <3>1, EnqueueTyped DEF Ask, Typed
  <2>3. QED BY <1>7, <2>1, <2>2 DEF Ask
<1>8. CASE Answered(t)
  <2>1. /\ mon' \in {Done(t), [Done(t) EXCEPT !.failed = TRUE], Failed(t)}
        /\ uoff' \in {uoff, MarkedFor(t, Current)}
        /\ mon.pc = "wait"
    BY <1>8 DEF Answered, Typed, Monitors, Answers
  <2>2. LET m == [Done(t) EXCEPT !.failed = TRUE]
        IN  m \in Monitors /\ m.pc = "call" /\ m.batch = mon.batch /\ m.answer = "none"
    BY <1>3, FailingTyped
  <2>3. mon' \in Monitors /\ mon'.pc \in {"call", "settle"} /\ mon'.answer = "none"
        /\ (mon'.pc = "call" => mon'.batch = mon.batch)
    <3>1. CASE mon' = Done(t)
      BY <1>3, <3>1
    <3>2. CASE mon' = [Done(t) EXCEPT !.failed = TRUE]
      BY <2>2, <3>2
    <3>3. CASE mon' = Failed(t)
      BY <3>3, FailedTyped
    <3>4. QED BY <2>1, <3>1, <3>2, <3>3
  <2>4. uoff' \in [Topics -> 0..LastLine]
    BY <1>2, <2>1 DEF Typed
  <2>5. QED BY <1>8, <2>1, <2>3, <2>4 DEF Answered, Typed
<1>9. QED BY <1>4, <1>5, <1>6, <1>7, <1>8

LEMMA StartedIs ==
    ASSUME FutureInv, NEW t \in Topics, NEW task \in Tasks, NEW q2 \in Seq(Tasks),
           Started(t, task, q2), IsLive(task) => Awaited(t)
    PROVE  /\ mon' \in Monitors /\ (mon'.answer # "none" => mon'.pc = "wait")
           /\ queue' \in [Topics -> Seq(Tasks)] /\ worker' \in [Topics -> Workers]
           /\ mon'.pc = mon.pc /\ mon'.batch = mon.batch /\ mon'.at = mon.at
<1>1. Typed /\ mon \in Monitors
  BY DEF FutureInv, Typed
<1>2. /\ mon' \in Monitors /\ mon' = [mon EXCEPT !.answer = mon'.answer]
      /\ queue' \in [Topics -> Seq(Tasks)] /\ worker' \in [Topics -> Workers]
      /\ (mon'.answer # mon.answer => IsLive(task))
  BY <1>1, StartedTyped
<1>3. mon'.pc = mon.pc /\ mon'.batch = mon.batch /\ mon'.at = mon.at
  BY <1>1, <1>2 DEF Monitors
<1>4. mon'.answer # "none" => mon'.pc = "wait"
  BY <1>1, <1>2, <1>3 DEF Awaited, Typed
<1>5. QED BY <1>2, <1>3, <1>4

LEMMA FinishIs ==
    ASSUME FutureInv, NEW t \in Topics, NEW r \in Answers, Finish(t, worker[t].task, r)
    PROVE  /\ mon' \in Monitors /\ (mon'.answer # "none" => mon'.pc = "wait")
           /\ worker' \in [Topics -> Workers]
           /\ mon'.pc = mon.pc /\ mon'.batch = mon.batch /\ mon'.at = mon.at
<1>1. Typed /\ mon \in Monitors /\ worker[t].task \in Tasks
  BY DEF FutureInv, Typed, Workers
<1>2. /\ mon' \in Monitors /\ mon' = [mon EXCEPT !.answer = mon'.answer]
      /\ worker' \in [Topics -> Workers]
      /\ (mon'.answer # mon.answer => IsLive(worker[t].task))
  BY <1>1, FinishTyped
<1>3. mon'.pc = mon.pc /\ mon'.batch = mon.batch /\ mon'.at = mon.at
  BY <1>1, <1>2 DEF Monitors
<1>4. mon'.answer # "none" => mon'.pc = "wait"
  BY <1>1, <1>2, <1>3, LiveIsAwaited DEF Awaited, Typed
<1>5. QED BY <1>2, <1>3, <1>4

\* A worker step that is not a start and not an end changes only where the task is.
LEMMA WorkerPcTyped ==
    ASSUME Typed, NEW t \in Topics, NEW pc \in {"after", "warn"}
    PROVE  [worker EXCEPT ![t].pc = pc] \in [Topics -> Workers]
BY DEF Typed, Workers

LEMMA RetriedTyped ==
    ASSUME NEW task \in Tasks, task.retry < RetryLimit
    PROVE  LET again == [task EXCEPT !.retry = task.retry + 1]
           IN  again \in Tasks /\ again.ids = task.ids /\ (IsLive(again) <=> IsLive(task))
BY Bounds DEF Tasks, IsLive

LEMMA WorkingTyped ==
    ASSUME FutureInv, NEW t \in Topics,
           Worker(t) \/ SendFails(t) \/ SendLimited(t) \/ SendRefused(t)
    PROVE  Typed'
<1> USE DEF monVars, sendVars
<1>0. Typed /\ worker[t].task \in Tasks /\ queue[t] \in Seq(Tasks) /\ mon \in Monitors
  BY DEF FutureInv, Typed, Workers
<1>1. CASE Take(t)
  <2>1. PICK task \in Tasks, q2 \in Seq(Tasks) :
             /\ Started(t, task, q2)
             /\ \E k \in DOMAIN queue[t] : task = queue[t][k]
    BY <1>0, <1>1, TakeIs
  <2>2. IsLive(task) => Awaited(t)
    BY <2>1, LiveIsAwaited
  <2>3. /\ mon' \in Monitors /\ (mon'.answer # "none" => mon'.pc = "wait")
        /\ queue' \in [Topics -> Seq(Tasks)] /\ worker' \in [Topics -> Workers]
        /\ mon'.pc = mon.pc /\ mon'.batch = mon.batch /\ mon'.at = mon.at
    BY <2>1, <2>2, StartedIs
  <2>4. QED BY <1>0, <1>1, <2>3 DEF Take, Typed
<1>2. CASE FloodOver(t)
  <2>1. PICK q2 \in Seq(Tasks) : Started(t, worker[t].task, q2)
    BY <1>0, <1>2, FloodOverIs
  <2>2. IsLive(worker[t].task) => Awaited(t)
    BY LiveIsAwaited
  <2>3. /\ mon' \in Monitors /\ (mon'.answer # "none" => mon'.pc = "wait")
        /\ queue' \in [Topics -> Seq(Tasks)] /\ worker' \in [Topics -> Workers]
        /\ mon'.pc = mon.pc /\ mon'.batch = mon.batch /\ mon'.at = mon.at
    BY <1>0, <2>1, <2>2, StartedIs
  <2>4. QED BY <1>0, <1>2, <2>3 DEF FloodOver, Typed
<1>3. CASE Display(t)
  <2>1. worker' \in [Topics -> Workers]
    BY <1>0, <1>3, WorkerPcTyped DEF Display
  <2>2. worker[t].task.ids \in Seq(Ids) /\ shown[t] \in Seq(Ids)
    BY <1>0 DEF Tasks, Typed
  <2> DEFINE ids == worker[t].task.ids
  <2>3. PICK s \in Seq(Ids) : shown' = [shown EXCEPT ![t] = s]
    <3>1. shown[t] \o ids \in Seq(Ids) /\ (shown[t] \o ids) \o ids \in Seq(Ids)
      BY <2>2
    <3>2. \/ shown' = [shown EXCEPT ![t] = shown[t] \o ids]
          \/ shown' = [shown EXCEPT ![t] = (shown[t] \o ids) \o ids]
      BY <1>3 DEF Display
    <3>3. QED BY <3>1, <3>2
  <2>4. shown' \in [Topics -> Seq(Ids)]
    BY <1>0, <2>3 DEF Typed
  <2>5. faults' \in 0..MaxFaults
    BY <1>0, <1>3, FaultTyped DEF Display, Typed
  <2>6. QED BY <1>0, <1>3, <2>1, <2>4, <2>5 DEF Display, Typed
<1>4. CASE Succeed(t)
  <2>1. Finish(t, worker[t].task, "sent")
    BY <1>4 DEF Succeed
  <2>2. /\ mon' \in Monitors /\ (mon'.answer # "none" => mon'.pc = "wait")
        /\ worker' \in [Topics -> Workers]
        /\ mon'.pc = mon.pc /\ mon'.batch = mon.batch /\ mon'.at = mon.at
    BY <2>1, FinishIs DEF Answers
  <2>3. QED BY <1>0, <1>4, <2>2 DEF Succeed, Typed
<1>5. CASE Warned(t)
  <2>1. Finish(t, worker[t].task, "refused")
    BY <1>5 DEF Warned
  <2>2. /\ mon' \in Monitors /\ (mon'.answer # "none" => mon'.pc = "wait")
        /\ worker' \in [Topics -> Workers]
        /\ mon'.pc = mon.pc /\ mon'.batch = mon.batch /\ mon'.at = mon.at
    BY <2>1, FinishIs DEF Answers
  <2>3. QED BY <1>0, <1>5, <2>2 DEF Warned, Typed
<1>6. CASE SendFails(t)
  <2>1. Finish(t, worker[t].task, "failed") /\ faults' \in 0..MaxFaults
    BY <1>0, <1>6, FaultTyped DEF SendFails, Typed
  <2>2. /\ mon' \in Monitors /\ (mon'.answer # "none" => mon'.pc = "wait")
        /\ worker' \in [Topics -> Workers]
        /\ mon'.pc = mon.pc /\ mon'.batch = mon.batch /\ mon'.at = mon.at
    BY <2>1, FinishIs DEF Answers
  <2>3. QED BY <1>0, <1>6, <2>1, <2>2 DEF SendFails, Typed
<1>7. CASE SendLimited(t)
  <2>1. faults' \in 0..MaxFaults /\ flood' \in BOOLEAN
    BY <1>0, <1>7, FaultTyped DEF SendLimited, Typed
  <2>2. CASE Finish(t, worker[t].task, "failed") /\ queue' = queue
    <3>1. /\ mon' \in Monitors /\ (mon'.answer # "none" => mon'.pc = "wait")
          /\ worker' \in [Topics -> Workers]
          /\ mon'.pc = mon.pc /\ mon'.batch = mon.batch /\ mon'.at = mon.at
      BY <2>2, FinishIs DEF Answers
    <3>2. QED BY <1>0, <1>7, <2>1, <2>2, <3>1 DEF SendLimited, Typed
  <2>3. CASE ~(Finish(t, worker[t].task, "failed") /\ queue' = queue)
    <3> DEFINE again == [worker[t].task EXCEPT !.retry = worker[t].task.retry + 1]
    <3>1. /\ worker[t].task.retry < RetryLimit /\ mon' = mon
          /\ queue' = [queue EXCEPT ![t] = Append(queue[t], again)]
          /\ worker' = [worker EXCEPT ![t] = Resting]
      BY <1>7, <2>3 DEF SendLimited
    <3>2. again \in Tasks
      BY <1>0, <3>1, RetriedTyped
    <3> HIDE DEF again
    <3>3. Append(queue[t], again) \in Seq(Tasks)
      BY <1>0, <3>2, AppendTo
    <3>4. queue' \in [Topics -> Seq(Tasks)] /\ worker' \in [Topics -> Workers]
      BY <1>0, <3>1, <3>3, IdleTyped DEF Typed
    <3>5. QED BY <1>0, <1>7, <2>1, <3>1, <3>4 DEF SendLimited, Typed
  <2>4. QED BY <2>2, <2>3
<1>8. CASE SendRefused(t)
  <2>1. faults' \in 0..MaxFaults /\ refused' \in [Topics -> Nat]
    <3>1. Fault("refusal") /\ refused' = [refused EXCEPT ![t] = refused[t] + 1]
      BY <1>8 DEF SendRefused
    <3>2. QED BY <1>0, <3>1, FaultTyped DEF Typed
  <2>2. CASE worker' = [worker EXCEPT ![t].pc = "warn"] /\ mon' = mon
    <3>1. worker' \in [Topics -> Workers]
      BY <1>0, <2>2, WorkerPcTyped
    <3>2. QED BY <1>0, <1>8, <2>1, <2>2, <3>1 DEF SendRefused, Typed
  <2>3. CASE \E r \in {"failed", "refused"} : Finish(t, worker[t].task, r)
    <3>1. /\ mon' \in Monitors /\ (mon'.answer # "none" => mon'.pc = "wait")
          /\ worker' \in [Topics -> Workers]
          /\ mon'.pc = mon.pc /\ mon'.batch = mon.batch /\ mon'.at = mon.at
      BY <2>3, FinishIs DEF Answers
    <3>2. QED BY <1>0, <1>8, <2>1, <3>1 DEF SendRefused, Typed
  <2>4. QED BY <1>8, <2>2, <2>3 DEF SendRefused
<1>9. QED BY <1>1, <1>2, <1>3, <1>4, <1>5, <1>6, <1>7, <1>8 DEF Worker

LEMMA TypedStep ==
    ASSUME FutureInv, [Next]_vars
    PROVE  Typed'
<1> Typed
  BY DEF FutureInv
<1> USE DEF monVars, sendVars
<1>1. CASE Write \/ FloodEnds \/ BackoffDue
  <2>1. CASE Write
    BY <2>1, Bounds DEF Typed, Write
  <2>2. CASE FloodEnds
    BY <2>2 DEF Typed, FloodEnds
  <2>3. CASE BackoffDue
    BY <2>3 DEF Typed, BackoffDue
  <2>4. QED BY <1>1, <2>1, <2>2, <2>3
<1>2. CASE Poll
  <2>1. ASSUME NEW batch \in SUBSET Ids,
               mon' = [Idle EXCEPT !.pc = "next", !.batch = batch, !.to = written]
        PROVE  mon' \in Monitors /\ mon'.pc = "next" /\ mon'.batch = batch /\ mon'.answer = "none"
    <3> DEFINE m == Idle
    <3>1. m \in Monitors /\ m.answer = "none" /\ written \in 0..LastLine
      BY IdleTyped DEF Idle, Typed
    <3>2. mon' = [m EXCEPT !.pc = "next", !.batch = batch, !.to = written]
      BY <2>1
    <3> HIDE DEF m
    <3>3. QED BY <3>1, <3>2 DEF Monitors, MonPcs
  <2>2. CASE mon' = mon
    BY <1>2, <2>2 DEF Poll, Typed
  <2>3. CASE mon' # mon
    <3>1. PICK batch \in SUBSET Ids :
             batch # {} /\ mon' = [Idle EXCEPT !.pc = "next", !.batch = batch, !.to = written]
      BY <1>2, <2>3 DEF Poll, Batch
    <3>2. mon' \in Monitors /\ mon'.pc = "next" /\ mon'.batch = batch /\ mon'.answer = "none"
      BY <2>1, <3>1
    <3>3. QED BY <1>2, <2>3, <3>1, <3>2 DEF Poll, Typed
  <2>4. QED BY <2>2, <2>3
<1>3. CASE NextMessage
  <2>1. mon' \in Monitors /\ mon'.pc = "call" /\ mon'.batch = mon.batch /\ mon'.answer = mon.answer
    BY <1>3 DEF NextMessage, Typed, Monitors, MonPcs
  <2>2. QED BY <1>3, <2>1 DEF NextMessage, Typed
<1>4. CASE MessageDone
  <2> DEFINE rest == mon.batch \ {Current}
  <2>1. Current \in Ids /\ mon \in Monitors
    BY <1>4, CurrentIs DEF MessageDone, Typed, Monitors
  <2>2. tracked' \in {tracked, CommittedTo(Current)}
    BY <1>4 DEF MessageDone
  <2>3. tracked' \in 0..LastLine
    BY <2>1, <2>2, Lines DEF CommittedTo, Lesser, Typed, Monitors
  <2>4. \/ mon' = Failed(NoTopic)
        \/ mon' = [Idle EXCEPT !.pc = "settle", !.to = mon.to]
        \/ mon' = [Idle EXCEPT !.pc = "settle"]
        \/ rest # {} /\ mon' = [mon EXCEPT !.pc = "next", !.batch = rest, !.done = mon.done + 1]
    BY <1>4 DEF MessageDone
  <2>6. mon' \in Monitors /\ (mon'.pc = "next" => mon'.batch # {})
        /\ mon'.pc \in {"settle", "next"} /\ (mon'.answer # "none" => mon.answer # "none")
    <3>1. CASE mon' = Failed(NoTopic)
      BY <3>1, FailedTyped
    <3>2. CASE mon' = [Idle EXCEPT !.pc = "settle", !.to = mon.to]
      BY <2>1, <3>2, SettledTyped DEF Monitors
    <3>3. CASE mon' = [Idle EXCEPT !.pc = "settle"]
      BY <3>3, PausedTyped
    <3>4. CASE rest # {} /\ mon' = [mon EXCEPT !.pc = "next", !.batch = rest,
                                              !.done = mon.done + 1]
      <4>1. rest \in SUBSET Ids
        BY <2>1 DEF Monitors
      <4>2. QED BY <2>1, <3>4, <4>1, NextTyped
    <3>5. QED BY <2>4, <3>1, <3>2, <3>3, <3>4
  <2>7. mon.answer = "none" /\ faults' \in 0..MaxFaults
    BY <1>4, FaultTyped DEF MessageDone, Typed
  <2>8. QED BY <1>4, <2>3, <2>6, <2>7 DEF MessageDone, Typed
<1>5. CASE Settle
  BY <1>5, IdleTyped DEF Settle, Typed, Monitors, Idle
<1>6. CASE DispatchTimeout
  <2>1. OrphanAll /\ mon' = Failed(NoTopic) /\ faults' \in 0..MaxFaults
    BY <1>6, FaultTyped DEF DispatchTimeout
  <2>2. queue' \in [Topics -> Seq(Tasks)] /\ worker' \in [Topics -> Workers]
    BY <2>1, OrphanAllIs
  <2>3. mon' \in Monitors /\ mon'.pc = "settle" /\ mon'.answer = "none"
    BY <2>1, FailedTyped
  <2>4. QED BY <1>6, <2>1, <2>2, <2>3 DEF DispatchTimeout, Typed
<1>7. CASE Stop \/ Restart
  <2>1. CASE Stop
    <3>1. OrphanAll /\ mon' = Idle /\ faults' \in 0..MaxFaults
      BY <2>1, FaultTyped DEF Stop
    <3>2. queue' \in [Topics -> Seq(Tasks)] /\ worker' \in [Topics -> Workers]
      BY <3>1, OrphanAllIs
    <3>3. mon' \in Monitors /\ mon'.pc = "sleep" /\ mon'.answer = "none"
      BY <3>1, IdleTyped DEF Idle
    <3>4. QED BY <2>1, <3>1, <3>2, <3>3 DEF Stop, Typed
  <2>2. CASE Restart
    <3>1. mon' = Idle /\ faults' \in 0..MaxFaults
      BY <2>2, FaultTyped DEF Restart, Fresh, Typed
    <3>2. /\ mon' \in Monitors /\ mon'.pc = "sleep" /\ mon'.answer = "none"
          /\ queue' \in [Topics -> Seq(Tasks)] /\ worker' \in [Topics -> Workers]
      BY <2>2, <3>1, IdleTyped DEF Restart, Fresh, Idle
    <3>3. QED BY <2>2, <3>1, <3>2 DEF Restart, Fresh, Typed
  <2>3. QED BY <1>7, <2>1, <2>2
<1>8. ASSUME NEW t \in Topics, Pass(t) \/ AwaitQueue(t) \/ Offer(t) \/ Ask(t) \/ Answered(t)
      PROVE  Typed'
  BY <1>8, DeliveringTyped
<1>9. ASSUME NEW t \in Topics, Worker(t) \/ SendFails(t) \/ SendLimited(t) \/ SendRefused(t)
      PROVE  Typed'
  BY <1>9, WorkingTyped
<1>10. ASSUME NEW t \in Topics, Notice(t) \/ InboundProof(t) \/ Rebind(t)
       PROVE  Typed'
  <2>1. CASE Notice(t)
    <3>1. Append(queue[t], Task(<<>>, "none", route[t])) \in Seq(Tasks)
      <4>1. Task(<<>>, "none", route[t]) \in Tasks /\ queue[t] \in Seq(Tasks)
        <5>1. <<>> \in Seq(Ids)
          OBVIOUS
        <5>2. route[t] \in Nat /\ "none" \in Futures /\ queue[t] \in Seq(Tasks)
          BY DEF Typed, Futures
        <5>3. QED BY <5>1, <5>2, TaskTyped
      <4>2. QED BY <4>1, AppendTo
    <3>2. notices' \in 0..MaxNotices
      <4>1. notices \in 0..MaxNotices /\ notices < MaxNotices /\ notices' = notices + 1
        BY <2>1 DEF Notice, Typed
      <4>2. QED BY <4>1, Bounds
    <3>3. QED BY <2>1, <3>1, <3>2 DEF Notice, Typed
  <2>2. CASE InboundProof(t)
    BY <2>2 DEF InboundProof, Typed
  <2>3. CASE Rebind(t)
    <3>1. faults' \in 0..MaxFaults
      BY <2>3, FaultTyped DEF Rebind
    <3>2. uoff' \in [Topics -> 0..LastLine] /\ route' \in [Topics -> Nat]
      BY <2>3, Bounds DEF Rebind, Typed
    <3>3. QED BY <2>3, <3>1, <3>2 DEF Rebind, Typed
  <2>4. QED BY <1>10, <2>1, <2>2, <2>3
<1>11. CASE UNCHANGED vars
  BY <1>11 DEF Typed, vars
<1>12. QED
  BY <1>1, <1>2, <1>3, <1>4, <1>5, <1>6, <1>7, <1>8, <1>9, <1>10, <1>11 DEF Next, Monitor

LEMMA FuturesKept ==
    ASSUME FutureInv, queue' = queue, worker' = worker,
           \/ mon' = mon
           \/ (mon.pc # "wait" \/ mon.answer # "none") /\ mon'.pc # "wait"
    PROVE  \A t \in Topics : Futured(t)'
<1> SUFFICES ASSUME NEW t \in Topics PROVE Futured(t)'
  OBVIOUS
<1>1. Awaited(t)' = Awaited(t)
  BY DEF Awaited
<1>2. QED BY <1>1 DEF FutureInv, Futured

\* The monitor waits for nothing, and no task it once waited for is left.
LEMMA FuturesEnd ==
    ASSUME mon'.pc # "wait",
           \A t \in Topics : NoneLive(queue'[t]) /\ ~IsLive(worker'[t].task)
    PROVE  \A t \in Topics : Futured(t)'
BY DEF Futured, FuturesOk, Awaited

LEMMA EnqueueFutured ==
    ASSUME FutureInv, NEW t \in Topics, mon.pc \in {"call", "join"}, Enqueue(t), worker' = worker
    PROVE  \A u \in Topics : Futured(u)'
<1>0. Typed /\ mon.answer = "none"
  BY DEF FutureInv, Typed
<1>1. \A u \in Topics : /\ ~Awaited(u) /\ NoneLive(queue[u]) /\ ~IsLive(worker[u].task)
                        /\ queue[u] \in Seq(Tasks)
  BY <1>0 DEF FutureInv, Futured, FuturesOk, Awaited, Typed
<1>2. CASE mon' = Failed(t) /\ queue' = queue
  <2>1. mon'.pc # "wait"
    BY <1>2, FailedTyped
  <2>2. QED BY <1>1, <1>2, <2>1, FuturesEnd
<1>3. CASE ~(mon' = Failed(t) /\ queue' = queue)
  <2>1. PICK task \in Tasks :
           /\ IsLive(task) /\ queue' = [queue EXCEPT ![t] = Append(queue[t], task)]
           /\ mon'.pc = "wait" /\ mon'.at = t /\ mon'.answer = "none"
    BY <1>0, <1>3, EnqueueIs
  <2>2. OneLive(queue'[t])
    <3>1. OneLive(Append(queue[t], task))
      BY <1>1, <2>1, AppendTo
    <3>2. QED BY <1>0, <2>1, <3>1 DEF Typed
  <2>3. \A u \in Topics \ {t} : queue'[u] = queue[u] /\ ~Awaited(u)'
    BY <1>0, <2>1 DEF Typed, Awaited
  <2>4. Awaited(t)'
    BY <2>1 DEF Awaited
  <2>5. ASSUME NEW u \in Topics PROVE FuturesOk(queue'[u], worker'[u].task, Awaited(u)')
    BY <1>1, <2>2, <2>3, <2>4 DEF FuturesOk
  <2>6. QED BY <1>1, <2>5 DEF Futured
<1>4. QED BY <1>2, <1>3

LEMMA FinishFutured ==
    ASSUME FutureInv, NEW t \in Topics, NEW r \in Answers \ {"none"}, NEW task \in Tasks,
           NEW q2 \in Seq(Tasks),
           Finish(t, task, r), queue' = [queue EXCEPT ![t] = q2],
           IsLive(task) => Awaited(t) /\ NoneLive(q2),
           ~IsLive(task) => FuturesOk(q2, Resting.task, Awaited(t))
    PROVE  \A u \in Topics : Futured(u)'
<1> SUFFICES ASSUME NEW u \in Topics PROVE Futured(u)'
  OBVIOUS
<1>0. Typed /\ mon \in Monitors
  BY DEF FutureInv, Typed
<1>1. /\ worker' = [worker EXCEPT ![t] = Resting] /\ mon' = Resolved(t, task, r)
      /\ ~IsLive(Resting.task)
  BY DEF Finish, Resting, Task, IsLive
<1>2. /\ u # t => queue'[u] = queue[u] /\ worker'[u] = worker[u]
      /\ queue'[t] = q2 /\ worker'[t] = Resting
  BY <1>0, <1>1 DEF Typed
<1>3. CASE ~IsLive(task)
  <2>1. mon' = mon
    BY <1>0, <1>1, <1>3, ResolvedIs
  <2>2. Awaited(u)' = Awaited(u) /\ Awaited(t)' = Awaited(t)
    BY <2>1 DEF Awaited
  <2>3. CASE u = t
    BY <1>1, <1>2, <1>3, <2>2, <2>3 DEF Futured
  <2>4. CASE u # t
    BY <1>2, <2>2, <2>4 DEF Futured, FutureInv
  <2>5. QED BY <2>3, <2>4
<1>4. CASE IsLive(task)
  <2>1. mon' = [mon EXCEPT !.answer = r]
    BY <1>0, <1>1, <1>4, ResolvedIs
  <2>2. ~Awaited(u)' /\ ~Awaited(t)'
    BY <1>0, <2>1 DEF Awaited, Monitors
  <2>3. CASE u = t
    BY <1>1, <1>2, <1>4, <2>2, <2>3 DEF Futured, FuturesOk
  <2>4. CASE u # t
    <3>1. ~Awaited(u)
      BY <1>4, <2>4 DEF Awaited
    <3>2. QED BY <1>2, <2>2, <2>4, <3>1 DEF Futured, FutureInv, FuturesOk
  <2>5. QED BY <2>3, <2>4
<1>5. QED BY <1>3, <1>4

LEMMA HoldsFutured ==
    ASSUME FutureInv, NEW t \in Topics, NEW w \in Workers, NEW q2 \in Seq(Tasks), mon' = mon,
           worker' = [worker EXCEPT ![t] = w], queue' = [queue EXCEPT ![t] = q2],
           FuturesOk(q2, w.task, Awaited(t)), w.pc = "idle" => ~IsLive(w.task)
    PROVE  \A u \in Topics : Futured(u)'
<1> SUFFICES ASSUME NEW u \in Topics PROVE Futured(u)'
  OBVIOUS
<1>1. /\ u # t => queue'[u] = queue[u] /\ worker'[u] = worker[u]
      /\ queue'[t] = q2 /\ worker'[t] = w
  BY DEF Typed, FutureInv
<1>2. Awaited(u)' = Awaited(u)
  BY DEF Awaited
<1>3. QED BY <1>1, <1>2 DEF Futured, FutureInv

LEMMA StartedFutured ==
    ASSUME FutureInv, NEW t \in Topics, NEW task \in Tasks, NEW q2 \in Seq(Tasks),
           Started(t, task, q2), FuturesOk(q2, task, Awaited(t))
    PROVE  \A u \in Topics : Futured(u)'
<1>1. IsLive(task) => Awaited(t) /\ NoneLive(q2)
  BY DEF FuturesOk
<1>2. ~IsLive(task) => FuturesOk(q2, Resting.task, Awaited(t))
  BY DEF FuturesOk, Resting, Task, IsLive
<1>3. CASE \E r \in {"failed", "refused"} : Finish(t, task, r)
  BY <1>1, <1>2, <1>3, FinishFutured DEF Started, Answers
<1>4. ASSUME NEW pc \in {"flood", "send"}, mon' = mon,
             worker' = [worker EXCEPT ![t] = [pc |-> pc, task |-> task]]
      PROVE  \A u \in Topics : Futured(u)'
  <2> DEFINE w == [pc |-> pc, task |-> task]
  <2>1. w \in Workers /\ w.task = task /\ w.pc # "idle"
    BY <1>4 DEF Workers
  <2> HIDE DEF w
  <2>2. QED BY <1>4, <2>1, HoldsFutured DEF Started, w
<1>5. QED BY <1>3, <1>4 DEF Started

LEMMA WorkingFutured ==
    ASSUME FutureInv, NEW t \in Topics,
           Worker(t) \/ SendFails(t) \/ SendLimited(t) \/ SendRefused(t)
    PROVE  \A u \in Topics : Futured(u)'
<1>0. /\ Typed /\ worker[t] \in Workers /\ worker[t].task \in Tasks /\ queue[t] \in Seq(Tasks)
      /\ Futured(t) /\ queue = [queue EXCEPT ![t] = queue[t]]
  BY DEF FutureInv, Typed, Workers
<1>1. CASE Take(t)
  <2>1. PICK task \in Tasks, q2 \in Seq(Tasks) :
             /\ Started(t, task, q2) /\ worker[t].pc = "idle"
             /\ NoneLive(queue[t]) => ~IsLive(task) /\ NoneLive(q2)
             /\ OneLive(queue[t]) => IF IsLive(task) THEN NoneLive(q2) ELSE OneLive(q2)
    BY <1>0, <1>1, TakeIs
  <2>2. FuturesOk(q2, task, Awaited(t))
    BY <1>0, <2>1 DEF Futured, FuturesOk
  <2>3. QED BY <2>1, <2>2, StartedFutured
<1>2. CASE FloodOver(t)
  <2>1. PICK q2 \in Seq(Tasks) :
             /\ Started(t, worker[t].task, q2)
             /\ NoneLive(queue[t]) => NoneLive(q2)
             /\ OneLive(queue[t]) => OneLive(q2)
    BY <1>0, <1>2, FloodOverIs
  <2>2. FuturesOk(q2, worker[t].task, Awaited(t))
    BY <1>0, <2>1 DEF Futured, FuturesOk
  <2>3. QED BY <1>0, <2>1, <2>2, StartedFutured
<1>3. ASSUME NEW r \in Answers \ {"none"}, Finish(t, worker[t].task, r), queue' = queue
      PROVE  \A u \in Topics : Futured(u)'
  <2>1. IsLive(worker[t].task) => Awaited(t) /\ NoneLive(queue[t])
    BY <1>0 DEF Futured, FuturesOk
  <2>2. ~IsLive(worker[t].task) => FuturesOk(queue[t], Resting.task, Awaited(t))
    BY <1>0 DEF Futured, FuturesOk, Resting, Task, IsLive
  <2>3. QED BY <1>0, <1>3, <2>1, <2>2, FinishFutured
<1>4. ASSUME NEW pc \in {"after", "warn"}, worker' = [worker EXCEPT ![t].pc = pc],
             queue' = queue, mon' = mon
      PROVE  \A u \in Topics : Futured(u)'
  <2> DEFINE w == [worker[t] EXCEPT !.pc = pc]
  <2>1. w \in Workers /\ w.pc # "idle" /\ w.task = worker[t].task
    BY <1>0 DEF Workers
  <2>2. worker' = [worker EXCEPT ![t] = w]
    BY <1>0, <1>4
  <2>3. FuturesOk(queue[t], w.task, Awaited(t))
    BY <1>0, <2>1 DEF Futured
  <2> HIDE DEF w
  <2>4. QED BY <1>0, <1>4, <2>1, <2>2, <2>3, HoldsFutured
<1>5. CASE Display(t)
  BY <1>4, <1>5 DEF Display, monVars
<1>6. CASE Succeed(t)
  BY <1>3, <1>6 DEF Succeed, Answers
<1>7. CASE Warned(t)
  BY <1>3, <1>7 DEF Warned, Answers
<1>8. CASE SendFails(t)
  BY <1>3, <1>8 DEF SendFails, Answers
<1>9. CASE SendRefused(t)
  BY <1>3, <1>4, <1>9 DEF SendRefused, Answers
<1>10. CASE SendLimited(t)
  <2>1. CASE Finish(t, worker[t].task, "failed") /\ queue' = queue
    BY <1>3, <2>1 DEF Answers
  <2>2. CASE ~(Finish(t, worker[t].task, "failed") /\ queue' = queue)
    <3> DEFINE again == [worker[t].task EXCEPT !.retry = worker[t].task.retry + 1]
    <3>1. /\ worker[t].task.retry < RetryLimit /\ mon' = mon
          /\ queue' = [queue EXCEPT ![t] = Append(queue[t], again)]
          /\ worker' = [worker EXCEPT ![t] = Resting]
      BY <1>10, <2>2 DEF SendLimited
    <3>2. again \in Tasks /\ (IsLive(again) <=> IsLive(worker[t].task))
      BY <1>0, <3>1, RetriedTyped
    <3> HIDE DEF again
    <3>3. /\ Append(queue[t], again) \in Seq(Tasks)
          /\ NoneLive(queue[t]) => IF IsLive(again) THEN OneLive(Append(queue[t], again))
                                                    ELSE NoneLive(Append(queue[t], again))
          /\ OneLive(queue[t]) /\ ~IsLive(again) => OneLive(Append(queue[t], again))
      BY <1>0, <3>2, AppendTo
    <3>4. ~IsLive(Resting.task) /\ Resting \in Workers
      BY IdleTyped DEF Resting, Task, IsLive
    <3>5. FuturesOk(Append(queue[t], again), Resting.task, Awaited(t))
      BY <1>0, <3>2, <3>3, <3>4 DEF Futured, FuturesOk
    <3>6. QED BY <3>1, <3>3, <3>4, <3>5, HoldsFutured
  <2>3. QED BY <2>1, <2>2
<1>11. QED BY <1>1, <1>2, <1>5, <1>6, <1>7, <1>8, <1>9, <1>10 DEF Worker

LEMMA FutureStep ==
    ASSUME FutureInv, [Next]_vars
    PROVE  FutureInv'
<1> USE DEF monVars, sendVars
<1>0. Typed /\ Typed'
  BY TypedStep DEF FutureInv
<1> SUFFICES \A t \in Topics : Futured(t)'
  BY <1>0 DEF FutureInv
<1>1. CASE Write \/ FloodEnds \/ BackoffDue
  BY <1>1, FuturesKept DEF Write, FloodEnds, BackoffDue
<1>2. CASE Poll
  <2>1. mon' = mon \/ mon'.pc = "next"
    BY <1>2 DEF Poll, Idle
  <2>2. QED BY <1>2, <2>1, FuturesKept DEF Poll
<1>3. CASE NextMessage
  BY <1>0, <1>3, FuturesKept DEF NextMessage, Typed, Monitors
<1>4. CASE MessageDone
  <2>1. mon'.pc \in {"settle", "next"}
    <3>1. \/ mon' = Failed(NoTopic)
          \/ mon' = [Idle EXCEPT !.pc = "settle", !.to = mon.to]
          \/ mon' = [Idle EXCEPT !.pc = "settle"]
          \/ mon' = [mon EXCEPT !.pc = "next", !.batch = mon.batch \ {Current},
                                !.done = mon.done + 1]
      BY <1>4 DEF MessageDone
    <3>2. mon.to \in 0..LastLine /\ mon \in Monitors /\ mon.batch \ {Current} \in SUBSET Ids
      BY <1>0 DEF Typed, Monitors
    <3>3. CASE mon' = Failed(NoTopic)
      BY <3>3, FailedTyped
    <3>4. CASE mon' = [Idle EXCEPT !.pc = "settle", !.to = mon.to]
      BY <3>2, <3>4, SettledTyped
    <3>5. CASE mon' = [Idle EXCEPT !.pc = "settle"]
      BY <3>5, PausedTyped
    <3>6. CASE mon' = [mon EXCEPT !.pc = "next", !.batch = mon.batch \ {Current},
                                 !.done = mon.done + 1]
      BY <3>2, <3>6, NextTyped
    <3>7. QED BY <3>1, <3>3, <3>4, <3>5, <3>6
  <2>2. QED BY <1>4, <2>1, FuturesKept DEF MessageDone
<1>5. CASE Settle
  BY <1>5, FuturesKept DEF Settle, Idle
<1>6. CASE DispatchTimeout
  <2>1. OrphanAll /\ mon'.pc = "settle"
    BY <1>6, FailedTyped DEF DispatchTimeout
  <2>2. QED BY <1>0, <2>1, OrphanAllIs, FuturesEnd
<1>7. CASE Stop \/ Restart
  <2>1. mon'.pc = "sleep"
    BY <1>7 DEF Stop, Restart, Fresh, Idle
  <2>2. CASE Stop
    <3>1. OrphanAll
      BY <2>2 DEF Stop
    <3>2. QED BY <1>0, <2>1, <3>1, OrphanAllIs, FuturesEnd
  <2>3. CASE Restart
    <3>1. \A t \in Topics : NoneLive(queue'[t]) /\ ~IsLive(worker'[t].task)
      BY <2>3 DEF Restart, Fresh, NoneLive, Resting, Task, IsLive
    <3>2. QED BY <2>1, <3>1, FuturesEnd
  <2>4. QED BY <1>7, <2>2, <2>3
<1>8. ASSUME NEW t \in Topics, Pass(t) \/ AwaitQueue(t) \/ Offer(t) \/ Ask(t) \/ Answered(t)
      PROVE  \A u \in Topics : Futured(u)'
  <2>0. /\ mon \in Monitors
        /\ Done(t).pc = "call" /\ [Done(t) EXCEPT !.failed = TRUE].pc = "call"
        /\ Failed(t).pc = "settle"
    BY <1>0, DoneTyped, FailingTyped, FailedTyped DEF Typed
  <2>1. CASE Pass(t)
    BY <2>0, <2>1, FuturesKept DEF Pass
  <2>2. CASE AwaitQueue(t)
    <3>1. mon'.pc = "join"
      BY <2>0, <2>2 DEF AwaitQueue, Monitors
    <3>2. QED BY <2>2, <3>1, FuturesKept DEF AwaitQueue
  <2>3. CASE Offer(t)
    BY <2>3, EnqueueFutured DEF Offer
  <2>4. CASE Ask(t)
    <3>1. CASE Enqueue(t)
      BY <2>4, <3>1, EnqueueFutured DEF Ask
    <3>2. CASE ~Enqueue(t)
      BY <2>0, <2>4, <3>2, FuturesKept DEF Ask
    <3>3. QED BY <3>1, <3>2
  <2>5. CASE Answered(t)
    <3>1. mon' \in {Done(t), [Done(t) EXCEPT !.failed = TRUE], Failed(t)}
      BY <1>0, <2>5 DEF Answered, Typed, Monitors, Answers
    <3>2. QED BY <2>0, <2>5, <3>1, FuturesKept DEF Answered
  <2>6. QED BY <1>8, <2>1, <2>2, <2>3, <2>4, <2>5
<1>9. ASSUME NEW t \in Topics, Worker(t) \/ SendFails(t) \/ SendLimited(t) \/ SendRefused(t)
      PROVE  \A u \in Topics : Futured(u)'
  BY <1>9, WorkingFutured
<1>10. ASSUME NEW t \in Topics, Notice(t) \/ InboundProof(t) \/ Rebind(t)
       PROVE  \A u \in Topics : Futured(u)'
  <2>1. CASE Notice(t)
    <3> DEFINE task == Task(<<>>, "none", route[t])
               q2 == Append(queue[t], task)
    <3>0. worker[t] \in Workers /\ queue[t] \in Seq(Tasks) /\ Futured(t)
          /\ worker = [worker EXCEPT ![t] = worker[t]]
      BY <1>0 DEF Typed, FutureInv
    <3>1. task \in Tasks /\ ~IsLive(task)
      <4>1. <<>> \in Seq(Ids)
        OBVIOUS
      <4>2. route[t] \in Nat /\ "none" \in Futures
        BY <1>0 DEF Typed, Futures
      <4>3. QED BY <4>1, <4>2, TaskTyped DEF Task, IsLive
    <3>2. q2 \in Seq(Tasks) /\ (NoneLive(queue[t]) => NoneLive(q2))
          /\ (OneLive(queue[t]) => OneLive(q2))
      BY <3>0, <3>1, AppendTo
    <3>3. queue' = [queue EXCEPT ![t] = q2] /\ worker' = worker /\ mon' = mon
      BY <2>1 DEF Notice
    <3> HIDE DEF q2
    <3>4. FuturesOk(q2, worker[t].task, Awaited(t))
      BY <3>0, <3>2 DEF Futured, FuturesOk
    <3>5. QED BY <3>0, <3>2, <3>3, <3>4, HoldsFutured DEF Futured
  <2>2. CASE InboundProof(t)
    BY <2>2, FuturesKept DEF InboundProof
  <2>3. CASE Rebind(t)
    BY <2>3, FuturesKept DEF Rebind
  <2>4. QED BY <1>10, <2>1, <2>2, <2>3
<1>11. CASE UNCHANGED vars
  BY <1>11, FuturesKept DEF vars
<1>12. QED
  BY <1>1, <1>2, <1>3, <1>4, <1>5, <1>6, <1>7, <1>8, <1>9, <1>10, <1>11 DEF Next, Monitor

LEMMA FutureInit == Init => FutureInv
BY TypedInit DEF Init, FutureInv, Futured, FuturesOk, Awaited, Idle, NoneLive, Resting, Task, IsLive

\* The types of the session monitor, the queues and their workers.
THEOREM TypesCorrect == Spec => []TypeOK
<1>1. FutureInv => TypeOK
  <2> SUFFICES ASSUME FutureInv PROVE TypeOK
    OBVIOUS
  <2>1. Typed
    BY DEF FutureInv
  <2>2. QED BY <2>1 DEF Typed, TypeOK, Monitors, MonPcs, Answers, Workers
<1>2. QED BY <1>1, FutureInit, FutureStep, PTL DEF Spec

\* While the monitor waits for a delivery, exactly one task can still answer it, and it
\* is in the topic's queue or with its worker: merges, requeues, floods, refusals,
\* timeouts and stops neither lose nor double the delivery_future.
THEOREM AwaitedHasTask == Spec => []AwaitedIsQueued
<1>1. FutureInv => AwaitedIsQueued
  <2> SUFFICES ASSUME FutureInv, NEW t \in Topics
               PROVE  LiveTasks(t) = IF mon.pc = "wait" /\ mon.at = t /\ mon.answer = "none"
                                     THEN 1 ELSE 0
    BY DEF AwaitedIsQueued
  <2>1. Futured(t)
    BY DEF FutureInv
  <2>2. NoneLive(queue[t]) => Cardinality(LiveIn(t)) = 0
    <3>1. NoneLive(queue[t]) => LiveIn(t) = {}
      BY DEF NoneLive, LiveIn, IsLive
    <3>2. QED BY <3>1, FS_EmptySet
  <2>3. OneLive(queue[t]) => Cardinality(LiveIn(t)) = 1
    <3>1. OneLive(queue[t]) => \E k : LiveIn(t) = {k}
      BY DEF OneLive, LiveIn, IsLive
    <3>2. QED BY <3>1, FS_Singleton
  <2>4. QED BY <2>1, <2>2, <2>3 DEF Futured, FuturesOk, LiveTasks, Awaited, IsLive
<1>2. QED BY <1>1, FutureInit, FutureStep, PTL DEF Spec

-------------------------------------------------------------------------------
(* What is displayed, for a session with one recipient.                     *)

\* Without it, a recipient that has no offset is left out of ResumeOffset and skipped.
OneRecipient == \A t, u \in Topics : t = u
\* Without it, the offset of one message of a line passes over the others.
OneMessagePerLine ==
    \A i, j \in Ids : i < j /\ Kind(i) # "limit" /\ Kind(j) # "limit" => Line(i) < Line(j)

\* A task carries nothing, or an entry all of whose predecessors are displayed; who is
\* waited for carries the message the monitor has in hand.  Here sh is what the topic
\* shows, cur that message, q the topic's queue and w its worker.
Has(sh, i) == \E k \in DOMAIN sh : sh[k] = i
Carries(task, sh, cur) ==
    \/ task.ids = <<>> /\ ~IsLive(task)
    \/ \E x \in Contents : /\ task.ids = <<x>>
                           /\ \A i \in Contents : i < x => Has(sh, i)
                           /\ IsLive(task) => x = cur
CarriedBy(q, w, sh, cur) ==
    /\ \A k \in DOMAIN q : Carries(q[k], sh, cur)
    /\ Carries(w.task, sh, cur)
    /\ w.pc = "after" => \A x \in Contents : w.task.ids = <<x>> => Has(sh, x)
Carried(t) == CarriedBy(queue[t], worker[t], shown[t], Current)

InHand == {"call", "join", "wait"}
\* What lies before the group's end is displayed or still in the group.
GroupOk ==
    mon.pc \in InHand \cup {"next"} =>
       /\ \A i \in mon.batch : Line(i) <= mon.to
       /\ \A t \in Topics, i \in Contents :
             Line(i) <= mon.to => i \in mon.batch \/ Displayed(t, i)
\* The message in hand is displayed to whoever is done with it.
MessageOk ==
    /\ mon.pc \in {"join", "wait"} => Current \in Contents
    /\ mon.pc \in InHand /\ ~mon.failed /\ Current \in Contents =>
          \A t \in Topics \ mon.todo : Has(shown[t], Current)
    /\ mon.pc = "wait" /\ mon.answer = "sent" => Has(shown[mon.at], Current)
\* What a finished group will commit is displayed.
SettleOk ==
    mon.pc = "settle" =>
       \A t \in Topics, i \in Contents : Line(i) <= mon.to => Displayed(t, i)
Dispatched == GroupOk /\ MessageOk /\ SettleOk

OrderInv == /\ FutureInv /\ NothingLost /\ InOrder /\ Dispatched
            /\ \A t \in Topics : Carried(t)

\* Sequences of displayed entries.
OrderOf(s) ==
    \A i, j \in Contents : i < j /\ Has(s, j) =>
       \E k \in DOMAIN s : s[k] = i /\ \A l \in DOMAIN s : s[l] = j => k < l

LEMMA DisplayedIs == \A t, i : Displayed(t, i) <=> Has(shown[t], i)
BY DEF Displayed, Displays, Has

LEMMA InOrderIs == InOrder <=> \A t \in Topics : OrderOf(shown[t])
<1>1. ASSUME NEW t \in Topics
      PROVE  OrderOf(shown[t]) <=>
             \A i, j \in Contents :
                i < j /\ Displayed(t, j) => \E k \in Displays(t, i) : \A l \in Displays(t, j) : k < l
  <2>1. ASSUME NEW i \in Contents, NEW j \in Contents
        PROVE  (\E k \in Displays(t, i) : \A l \in Displays(t, j) : k < l) <=>
               (\E k \in DOMAIN shown[t] :
                   shown[t][k] = i /\ \A l \in DOMAIN shown[t] : shown[t][l] = j => k < l)
    BY DEF Displays
  <2>2. QED BY <2>1, DisplayedIs DEF OrderOf
<1>2. QED BY <1>1 DEF InOrder

LEMMA AppendHas ==
    ASSUME NEW s \in Seq(Ids), NEW x \in Ids
    PROVE  \A i : Has(Append(s, x), i) <=> i = x \/ Has(s, i)
<1>1. /\ Len(s) \in Nat /\ DOMAIN s = 1..Len(s) /\ DOMAIN Append(s, x) = 1..Len(s) + 1
      /\ Append(s, x)[Len(s) + 1] = x /\ \A k \in 1..Len(s) : Append(s, x)[k] = s[k]
  OBVIOUS
<1>2. \A k : k \in 1..Len(s) + 1 <=> k = Len(s) + 1 \/ k \in 1..Len(s)
  BY <1>1
<1>3. QED BY <1>1, <1>2 DEF Has

LEMMA AppendOrder ==
    ASSUME NEW s \in Seq(Ids), NEW x \in Contents, OrderOf(s),
           \A i \in Contents : i < x => Has(s, i)
    PROVE  OrderOf(Append(s, x))
<1>0. Contents \subseteq Ids /\ Ids \subseteq Nat
  BY Lines DEF Contents
<1>1. /\ Len(s) \in Nat /\ DOMAIN s = 1..Len(s) /\ DOMAIN Append(s, x) = 1..Len(s) + 1
      /\ Append(s, x)[Len(s) + 1] = x /\ \A k \in 1..Len(s) : Append(s, x)[k] = s[k]
  BY <1>0
<1>2. \A k \in 1..Len(s) + 1 : k = Len(s) + 1 \/ k \in 1..Len(s)
  BY <1>1
<1> DEFINE s2 == Append(s, x)
<1> HIDE DEF s2
<1> SUFFICES ASSUME NEW i \in Contents, NEW j \in Contents, i < j, Has(s2, j)
             PROVE  \E k \in DOMAIN s2 : s2[k] = i /\ \A l \in DOMAIN s2 : s2[l] = j => k < l
  BY DEF OrderOf, s2
<1>3. PICK k \in 1..Len(s) : s[k] = i /\ \A l \in 1..Len(s) : s[l] = j => k < l
  <2>1. CASE Has(s, j)
    BY <1>1, <2>1 DEF OrderOf
  <2>2. CASE ~Has(s, j)
    <3>1. j = x
      BY <1>0, <2>2, AppendHas DEF s2
    <3>2. Has(s, i)
      BY <3>1
    <3>3. \A l \in 1..Len(s) : s[l] # j
      BY <1>1, <2>2 DEF Has
    <3>4. QED BY <1>1, <3>2, <3>3 DEF Has
  <2>3. QED BY <2>1, <2>2
<1>4. k \in DOMAIN s2 /\ s2[k] = i
  BY <1>1, <1>3 DEF s2
<1>5. ASSUME NEW l \in DOMAIN s2, s2[l] = j PROVE k < l
  <2>1. l = Len(s) + 1 \/ l \in 1..Len(s)
    BY <1>1, <1>2 DEF s2
  <2>2. QED BY <1>1, <1>3, <1>5, <2>1 DEF s2
<1>6. QED BY <1>4, <1>5

LEMMA EarlierShown ==
    ASSUME OrderInv, OneMessagePerLine, mon.pc \in InHand, Kind(Current) # "limit",
           NEW t \in Topics, NEW i \in Contents, Line(i) <= Line(Current), i # Current
    PROVE  Displayed(t, i)
<1>1. /\ Current \in mon.batch /\ Current \in Ids /\ i \in Ids /\ Kind(i) # "limit"
      /\ \A j \in mon.batch : Before(Current, j)
  BY InHandIs DEF OrderInv, FutureInv, InHand, Contents
<1>2. /\ Line(Current) <= mon.to
      /\ Line(i) <= mon.to => i \in mon.batch \/ Displayed(t, i)
  BY <1>1 DEF OrderInv, Dispatched, GroupOk
<1>3. Line(i) \in Nat /\ Line(Current) \in Nat /\ mon.to \in Nat /\ i \in Nat /\ Current \in Nat
  <2>1. mon.to \in 0..LastLine
    BY DEF OrderInv, FutureInv, Typed, Monitors
  <2>2. Line(i) \in 1..LastLine /\ Line(Current) \in 1..LastLine /\ LastLine \in Nat
        /\ i \in Nat /\ Current \in Nat
    BY <1>1, Lines
  <2>3. QED BY <2>1, <2>2
<1>4. ASSUME i \in mon.batch PROVE FALSE
  <2>1. Before(Current, i)
    BY <1>1, <1>4
  <2>2. Current <= i
    BY <1>1, <2>1 DEF Before
  <2>3. Current < i
    BY <1>3, <2>2
  <2>4. Line(Current) < Line(i)
    BY <1>1, <2>3 DEF OneMessagePerLine
  <2>5. QED BY <1>3, <2>4
<1>5. QED BY <1>2, <1>3, <1>4

\* What precedes the message in hand is displayed.
LEMMA PrecedingShown ==
    ASSUME OrderInv, OneMessagePerLine, mon.pc \in InHand, Current \in Contents,
           NEW t \in Topics, NEW i \in Contents, i < Current
    PROVE  Displayed(t, i)
<1>1. i \in Ids /\ Current \in Ids /\ Kind(Current) # "limit" /\ i # Current
  BY Lines DEF Contents
<1>2. Line(i) <= Line(Current)
  BY <1>1, Lines
<1>3. QED BY <1>1, <1>2, EarlierShown

\* Displays never vanish, and they keep the order.
Grown(t) == OrderOf(shown'[t]) /\ \A i : Has(shown[t], i) => Has(shown'[t], i)

LEMMA ShownGrows ==
    ASSUME OrderInv, OneMessagePerLine, [Next]_vars
    PROVE  /\ \A t \in Topics : Grown(t)
           /\ \A t \in Topics : Display(t) =>
                 \A x \in Contents : worker[t].task.ids = <<x>> => Has(shown'[t], x)
<1>0. /\ Typed /\ shown \in [Topics -> Seq(Ids)] /\ Contents \subseteq Ids
      /\ \A t \in Topics : OrderOf(shown[t])
  BY InOrderIs DEF OrderInv, FutureInv, Typed, Contents
<1>1. CASE shown' = shown
  <2>1. \A t \in Topics : Grown(t)
    BY <1>0, <1>1 DEF Grown
  <2>2. ASSUME NEW t \in Topics, Display(t), NEW x \in Contents, worker[t].task.ids = <<x>>
        PROVE  Has(shown'[t], x)
    <3>1. \/ shown' = [shown EXCEPT ![t] = shown[t] \o <<x>>]
          \/ shown' = [shown EXCEPT ![t] = (shown[t] \o <<x>>) \o <<x>>]
      BY <2>2 DEF Display
    <3>2. shown[t] \in Seq(Ids) /\ x \in Ids
      BY <1>0
    <3>3. FALSE
      <4>1. Len(shown[t] \o <<x>>) = Len(shown[t]) + 1 /\ Len(shown[t]) \in Nat
            /\ Len((shown[t] \o <<x>>) \o <<x>>) = Len(shown[t]) + 2
        BY <3>2
      <4>2. shown'[t] = shown[t]
        BY <1>1
      <4>3. shown'[t] = shown[t] \o <<x>> \/ shown'[t] = (shown[t] \o <<x>>) \o <<x>>
        BY <1>0, <3>1
      <4>4. QED BY <4>1, <4>2, <4>3
    <3>4. QED BY <3>3
  <2>3. QED BY <2>1, <2>2
<1>2. ASSUME NEW t \in Topics, NEW s \in Seq(Ids), shown' = [shown EXCEPT ![t] = s], OrderOf(s),
             \A i : Has(shown[t], i) => Has(s, i)
      PROVE  \A u \in Topics : Grown(u)
  <2>1. ASSUME NEW u \in Topics PROVE shown'[u] = IF u = t THEN s ELSE shown[u]
    BY <1>0, <1>2
  <2>2. QED BY <1>0, <1>2, <2>1 DEF Grown
<1>3. ASSUME NEW t \in Topics, Display(t)
      PROVE  /\ \A u \in Topics : Grown(u)
             /\ \A x \in Contents : worker[t].task.ids = <<x>> => Has(shown'[t], x)
  <2> DEFINE ids == worker[t].task.ids
             s == shown[t]
  <2>1. s \in Seq(Ids) /\ OrderOf(s)
    BY <1>0
  <2>2. \/ shown' = [shown EXCEPT ![t] = s \o ids]
        \/ shown' = [shown EXCEPT ![t] = (s \o ids) \o ids]
    BY <1>3 DEF Display
  <2>3. CASE ids = <<>>
    <3>1. s \o ids = s
      BY <2>1, <2>3
    <3>2. shown' = [shown EXCEPT ![t] = s]
      BY <2>2, <3>1
    <3>3. \A x : ids # <<x>>
      BY <2>3
    <3> HIDE DEF ids
    <3>4. QED BY <1>2, <2>1, <3>2, <3>3 DEF ids
  <2>4. CASE ids # <<>>
    <3>1. PICK x \in Contents : ids = <<x>> /\ \A i \in Contents : i < x => Has(s, i)
      BY <2>4 DEF OrderInv, Carried, CarriedBy, Carries
    <3>2. x \in Ids
      BY <1>0, <3>1
    <3> DEFINE s1 == Append(s, x)
               s2 == Append(s1, x)
    <3>3. s1 \in Seq(Ids) /\ s2 \in Seq(Ids) /\ s \o ids = s1 /\ s1 \o ids = s2
      <4>1. s1 \in Seq(Ids) /\ s \o <<x>> = s1
        BY <2>1, <3>2
      <4>2. s2 \in Seq(Ids) /\ s1 \o <<x>> = s2
        BY <3>2, <4>1
      <4>3. QED BY <3>1, <4>1, <4>2
    <3>4. OrderOf(s1) /\ \A i : Has(s1, i) <=> i = x \/ Has(s, i)
      BY <2>1, <3>1, <3>2, AppendOrder, AppendHas
    <3> HIDE DEF s1
    <3>5. OrderOf(s2) /\ \A i : Has(s2, i) <=> i = x \/ Has(s1, i)
      BY <3>1, <3>2, <3>3, <3>4, AppendOrder, AppendHas
    <3> HIDE DEF s2
    <3>6. shown' = [shown EXCEPT ![t] = s1] \/ shown' = [shown EXCEPT ![t] = s2]
      BY <2>2, <3>3
    <3>7. \A u \in Topics : Grown(u)
      <4>1. CASE shown' = [shown EXCEPT ![t] = s1]
        BY <1>2, <3>3, <3>4, <4>1
      <4>2. CASE shown' = [shown EXCEPT ![t] = s2]
        BY <1>2, <3>3, <3>4, <3>5, <4>2
      <4>3. QED BY <3>6, <4>1, <4>2
    <3>8. Has(shown'[t], x)
      BY <1>0, <3>4, <3>5, <3>6
    <3>9. \A y : ids = <<y>> => y = x
      BY <3>1
    <3> HIDE DEF ids
    <3>10. QED BY <3>7, <3>8, <3>9 DEF ids
  <2>5. QED BY <2>3, <2>4
<1>4. ASSUME NEW t \in Topics, Ask(t), shown' # shown PROVE \A u \in Topics : Grown(u)
  <2> DEFINE s == Append(shown[t], Current)
  <2>1. shown' = [shown EXCEPT ![t] = s] /\ mon.pc = "join"
    BY <1>4 DEF Ask
  <2>2. Current \in Contents
    BY <2>1 DEF OrderInv, Dispatched, MessageOk
  <2>3. \A i \in Contents : i < Current => Has(shown[t], i)
    BY <2>1, <2>2, PrecedingShown, DisplayedIs DEF InHand
  <2>4. shown[t] \in Seq(Ids) /\ Current \in Ids /\ s \in Seq(Ids)
    BY <1>0, <2>2
  <2>5. OrderOf(s) /\ \A i : Has(shown[t], i) => Has(s, i)
    BY <1>0, <2>2, <2>3, <2>4, AppendOrder, AppendHas
  <2> HIDE DEF s
  <2>6. QED BY <1>2, <2>1, <2>4, <2>5
<1>5. CASE shown' # shown
  <2>1. (\E t \in Topics : Display(t)) \/ (\E t \in Topics : Ask(t))
    BY <1>5 DEF Next, vars, sendVars, Monitor, Worker, Write, FloodEnds, DispatchTimeout, Stop,
       Restart, SendFails, SendLimited, SendRefused, Notice, InboundProof, Rebind, Poll,
       NextMessage, MessageDone, Settle, BackoffDue, Pass, AwaitQueue, Offer, Answered, Take,
       FloodOver, Succeed, Warned
  <2>2. \A u \in Topics : Grown(u)
    BY <1>3, <1>4, <1>5, <2>1
  <2>3. QED BY <1>3, <2>2
<1>6. QED BY <1>1, <1>5

\* What became of a task that someone held: it carries what it did, and who is waited
\* for was so before.
HeldBy(task, q, w) == task = w.task \/ (\E l \in DOMAIN q : task = q[l])
Copies(task2, q, w, same) ==
    \E task : /\ HeldBy(task, q, w) /\ task2.ids = task.ids
              /\ (IsLive(task2) => (IsLive(task) /\ same))

LEMMA CarriesOn ==
    ASSUME NEW q, NEW w, NEW sh, NEW sh2, \A i : Has(sh, i) => Has(sh2, i), NEW cur, NEW cur2,
           NEW task2, CarriedBy(q, w, sh, cur), NEW same \in BOOLEAN, Copies(task2, q, w, same),
           same => cur2 = cur
    PROVE  Carries(task2, sh2, cur2)
<1>1. PICK task : /\ HeldBy(task, q, w) /\ task2.ids = task.ids
                  /\ (IsLive(task2) => (IsLive(task) /\ same))
  BY DEF Copies
<1>2. Carries(task, sh, cur)
  BY <1>1 DEF HeldBy, CarriedBy
<1>3. QED BY <1>1, <1>2 DEF Carries

LEMMA RestingCarries == \A sh, cur : Carries(Resting.task, sh, cur)
BY DEF Resting, Task, Carries, IsLive

LEMMA CarriedOn ==
    ASSUME OrderInv, NEW t \in Topics, Grown(t), NEW same \in BOOLEAN, same => Current' = Current,
           \A k \in DOMAIN queue'[t] :
              \/ Copies(queue'[t][k], queue[t], worker[t], same)
              \/ Carries(queue'[t][k], shown'[t], Current'),
           worker'[t] = Resting \/ Copies(worker'[t].task, queue[t], worker[t], same),
           worker'[t].pc = "after" =>
              \/ worker[t].pc = "after" /\ worker'[t].task.ids = worker[t].task.ids
              \/ \A x \in Contents : worker'[t].task.ids = <<x>> => Has(shown'[t], x)
    PROVE  Carried(t)'
<1>1. CarriedBy(queue[t], worker[t], shown[t], Current)
  BY DEF OrderInv, Carried
<1>2. \A i : Has(shown[t], i) => Has(shown'[t], i)
  BY DEF Grown
<1>3. ASSUME NEW k \in DOMAIN queue'[t] PROVE Carries(queue'[t][k], shown'[t], Current')
  <2>1. CASE Copies(queue'[t][k], queue[t], worker[t], same)
    BY <1>1, <1>2, <2>1, CarriesOn
  <2>2. CASE ~Copies(queue'[t][k], queue[t], worker[t], same)
    BY <2>2
  <2>3. QED BY <2>1, <2>2
<1>4. Carries(worker'[t].task, shown'[t], Current')
  <2>1. CASE worker'[t] = Resting
    BY <2>1, RestingCarries
  <2>2. CASE worker'[t] # Resting
    <3>1. Copies(worker'[t].task, queue[t], worker[t], same)
      BY <2>2
    <3>2. QED BY <1>1, <1>2, <3>1, CarriesOn
  <2>3. QED BY <2>1, <2>2
<1>5. worker'[t].pc = "after" =>
         \A x \in Contents : worker'[t].task.ids = <<x>> => Has(shown'[t], x)
  BY <1>1, <1>2 DEF CarriedBy
<1>6. CarriedBy(queue'[t], worker'[t], shown'[t], Current')
  BY <1>3, <1>4, <1>5 DEF CarriedBy
<1>7. QED BY <1>6 DEF Carried

\* The first message of the group depends on the group alone.
LEMMA CurrentStays == mon'.batch = mon.batch => Current' = Current
BY DEF Current

LEMMA CopiesItself ==
    ASSUME NEW q, NEW w, NEW same \in BOOLEAN
    PROVE  /\ same \/ ~IsLive(w.task) => Copies(w.task, q, w, same)
           /\ \A k \in DOMAIN q : same \/ ~IsLive(q[k]) => Copies(q[k], q, w, same)
BY DEF Copies, HeldBy

\* A topic whose queue and worker stay as they are.
LEMMA CarriedUntouched ==
    ASSUME OrderInv, NEW t \in Topics, Grown(t), queue'[t] = queue[t], worker'[t] = worker[t],
           mon'.batch = mon.batch \/ ~Awaited(t)
    PROVE  Carried(t)'
<1> DEFINE same == mon'.batch = mon.batch
<1>1. same \in BOOLEAN /\ (same => Current' = Current)
  BY CurrentStays
<1>2. /\ same \/ ~IsLive(worker[t].task)
      /\ \A k \in DOMAIN queue[t] : same \/ ~IsLive(queue[t][k])
  BY LiveIsAwaited DEF OrderInv
<1> HIDE DEF same
<1>3. /\ Copies(worker[t].task, queue[t], worker[t], same)
      /\ \A k \in DOMAIN queue[t] : Copies(queue[t][k], queue[t], worker[t], same)
  BY <1>1, <1>2, CopiesItself
<1>4. QED BY <1>1, <1>3, CarriedOn

\* A topic whose queue got one more task, which carries something already.
LEMMA CarriedAppended ==
    ASSUME OrderInv, NEW t \in Topics, Grown(t), NEW task \in Tasks, mon'.batch = mon.batch,
           queue'[t] = Append(queue[t], task), worker'[t] = worker[t],
           Carries(task, shown'[t], Current')
    PROVE  Carried(t)'
<1>1. TRUE \in BOOLEAN /\ Current' = Current /\ queue[t] \in Seq(Tasks)
  BY CurrentStays DEF OrderInv, FutureInv, Typed
<1>2. \A k \in DOMAIN queue'[t] :
         queue'[t][k] = task \/ \E l \in DOMAIN queue[t] : queue'[t][k] = queue[t][l]
  BY <1>1, AppendTo
<1>3. /\ Copies(worker[t].task, queue[t], worker[t], TRUE)
      /\ \A k \in DOMAIN queue[t] : Copies(queue[t][k], queue[t], worker[t], TRUE)
  BY CopiesItself
<1>4. \A k \in DOMAIN queue'[t] :
         \/ Copies(queue'[t][k], queue[t], worker[t], TRUE)
         \/ Carries(queue'[t][k], shown'[t], Current')
  BY <1>2, <1>3
<1>5. QED BY <1>1, <1>3, <1>4, CarriedOn

\* Nobody waits for the tasks any more.
LEMMA CarriedOrphaned ==
    ASSUME OrderInv, NEW t \in Topics, Grown(t), OrphanAll
    PROVE  Carried(t)'
<1>1. /\ Typed /\ queue[t] \in Seq(Tasks)
  BY DEF OrderInv, FutureInv, Typed
<1>2. /\ NoneLive(queue'[t]) /\ ~IsLive(worker'[t].task) /\ worker'[t].pc = worker[t].pc
      /\ worker'[t].task.ids = worker[t].task.ids
      /\ queue'[t] = [k \in DOMAIN queue[t] |-> Orphaned(queue[t][k])]
  BY <1>1, OrphanAllIs
<1>3. ASSUME NEW k \in DOMAIN queue'[t]
      PROVE  Copies(queue'[t][k], queue[t], worker[t], FALSE)
  <2>1. k \in DOMAIN queue[t] /\ queue'[t][k] = Orphaned(queue[t][k]) /\ queue[t][k] \in Tasks
    BY <1>1, <1>2
  <2>2. queue'[t][k].ids = queue[t][k].ids /\ ~IsLive(queue'[t][k])
    BY <2>1, OrphanedIs
  <2>3. QED BY <2>1, <2>2 DEF Copies, HeldBy
<1>4. Copies(worker'[t].task, queue[t], worker[t], FALSE)
  BY <1>2 DEF Copies, HeldBy
<1>5. QED BY <1>2, <1>3, <1>4, CarriedOn

LEMMA CarriedWorking ==
    ASSUME OrderInv, NEW t \in Topics, \A u \in Topics : Grown(u),
           Display(t) => \A x \in Contents : worker[t].task.ids = <<x>> => Has(shown'[t], x),
           Worker(t) \/ SendFails(t) \/ SendLimited(t) \/ SendRefused(t)
    PROVE  \A u \in Topics : Carried(u)'
<1>0. /\ FutureInv /\ Typed /\ worker[t] \in Workers /\ worker[t].task \in Tasks
      /\ queue[t] \in Seq(Tasks) /\ Grown(t) /\ TRUE \in BOOLEAN
      /\ queue \in [Topics -> Seq(Tasks)] /\ worker \in [Topics -> Workers]
  BY DEF OrderInv, FutureInv, Typed, Workers
<1>1. ASSUME NEW q2, NEW w2, queue' = [queue EXCEPT ![t] = q2],
             worker' = [worker EXCEPT ![t] = w2], mon'.batch = mon.batch,
             \A k \in DOMAIN q2 : \/ \E l \in DOMAIN queue[t] : q2[k] = queue[t][l]
                                  \/ Copies(q2[k], queue[t], worker[t], TRUE),
             w2 = Resting \/ Copies(w2.task, queue[t], worker[t], TRUE),
             w2.pc = "after" => Display(t) /\ w2.task = worker[t].task
      PROVE  \A u \in Topics : Carried(u)'
  <2>1. /\ queue'[t] = q2 /\ worker'[t] = w2
        /\ \A u \in Topics \ {t} : queue'[u] = queue[u] /\ worker'[u] = worker[u]
    BY <1>0, <1>1
  <2>2. Current' = Current
    BY <1>1, CurrentStays
  <2>3. \A k \in DOMAIN queue[t] : Copies(queue[t][k], queue[t], worker[t], TRUE)
    BY CopiesItself
  <2>4. \A k \in DOMAIN q2 : Copies(q2[k], queue[t], worker[t], TRUE)
    BY <1>1, <2>3
  <2>5. worker'[t].pc = "after" =>
           \A x \in Contents : worker'[t].task.ids = <<x>> => Has(shown'[t], x)
    BY <1>1, <2>1
  <2>6. Carried(t)'
    BY <1>0, <1>1, <2>1, <2>2, <2>4, <2>5, CarriedOn
  <2>7. ASSUME NEW u \in Topics, u # t PROVE Carried(u)'
    BY <1>1, <2>1, <2>7, CarriedUntouched
  <2>8. QED BY <2>6, <2>7
<1>2. ASSUME NEW task \in Tasks, NEW r \in Answers, Finish(t, task, r)
      PROVE  mon'.batch = mon.batch /\ worker' = [worker EXCEPT ![t] = Resting]
  <2>1. mon' = [mon EXCEPT !.answer = mon'.answer] /\ mon' \in Monitors /\ mon \in Monitors
    BY <1>0, <1>2, FinishTyped DEF Typed
  <2>2. mon'.batch = mon.batch
    BY <2>1 DEF Monitors
  <2>3. QED BY <1>2, <2>2 DEF Finish
<1>3. Resting.pc # "after"
  BY DEF Resting
<1>4. ASSUME NEW task \in Tasks, NEW q2 \in Seq(Tasks), Started(t, task, q2),
             Copies(task, queue[t], worker[t], TRUE)
      PROVE  \A u \in Topics : Carried(u)'
  <2>1. queue' = [queue EXCEPT ![t] = q2] /\ From(queue[t], q2)
    BY <1>4 DEF Started
  <2>2. \A k \in DOMAIN q2 : \E l \in DOMAIN queue[t] : q2[k] = queue[t][l]
    BY <2>1 DEF From
  <2>3. CASE \E r \in {"failed", "refused"} : Finish(t, task, r)
    <3>1. mon'.batch = mon.batch /\ worker' = [worker EXCEPT ![t] = Resting]
      BY <1>2, <2>3 DEF Answers
    <3>2. QED BY <1>1, <1>3, <2>1, <2>2, <3>1
  <2>4. ASSUME NEW pc \in {"flood", "send"}, mon' = mon,
               worker' = [worker EXCEPT ![t] = [pc |-> pc, task |-> task]]
        PROVE  \A u \in Topics : Carried(u)'
    <3> DEFINE w2 == [pc |-> pc, task |-> task]
    <3>1. w2.pc # "after" /\ w2.task = task /\ worker' = [worker EXCEPT ![t] = w2]
      BY <2>4
    <3>2. Copies(w2.task, queue[t], worker[t], TRUE) /\ mon'.batch = mon.batch
      BY <1>4, <2>4, <3>1
    <3> HIDE DEF w2
    <3>3. /\ w2.pc = "after" => Display(t) /\ w2.task = worker[t].task
          /\ w2 = Resting \/ Copies(w2.task, queue[t], worker[t], TRUE)
          /\ \A k \in DOMAIN q2 : \/ \E l \in DOMAIN queue[t] : q2[k] = queue[t][l]
                                \/ Copies(q2[k], queue[t], worker[t], TRUE)
      BY <2>2, <3>1, <3>2
    <3>4. worker' = [worker EXCEPT ![t] = w2] /\ queue' = [queue EXCEPT ![t] = q2]
          /\ mon'.batch = mon.batch
      BY <2>1, <3>1, <3>2
    <3>5. QED BY <1>1, <3>3, <3>4
  <2>5. QED BY <1>4, <2>3, <2>4 DEF Started
<1>5. Copies(worker[t].task, queue[t], worker[t], TRUE)
  BY CopiesItself
<1>6. CASE Take(t)
  <2>1. PICK task \in Tasks, q2 \in Seq(Tasks) :
           Started(t, task, q2) /\ \E k \in DOMAIN queue[t] : task = queue[t][k]
    BY <1>0, <1>6, TakeIs
  <2>2. Copies(task, queue[t], worker[t], TRUE)
    BY <2>1, CopiesItself
  <2>3. QED BY <1>4, <2>1, <2>2
<1>7. CASE FloodOver(t)
  <2>1. PICK q2 \in Seq(Tasks) : Started(t, worker[t].task, q2)
    BY <1>0, <1>7, FloodOverIs
  <2>2. QED BY <1>0, <1>4, <1>5, <2>1
<1>8. queue = [queue EXCEPT ![t] = queue[t]]
  BY <1>0
<1>9. ASSUME NEW r \in Answers, Finish(t, worker[t].task, r), queue' = queue
      PROVE  \A u \in Topics : Carried(u)'
  <2>1. mon'.batch = mon.batch /\ worker' = [worker EXCEPT ![t] = Resting]
    BY <1>0, <1>2, <1>9
  <2>2. QED BY <1>1, <1>3, <1>8, <1>9, <2>1
<1>10. ASSUME NEW pc \in {"after", "warn"}, worker' = [worker EXCEPT ![t].pc = pc],
              queue' = queue, mon' = mon, pc = "after" => Display(t)
       PROVE  \A u \in Topics : Carried(u)'
  <2> DEFINE w2 == [worker[t] EXCEPT !.pc = pc]
  <2>1. w2.pc = pc /\ w2.task = worker[t].task
    BY <1>0 DEF Workers
  <2>2. worker' = [worker EXCEPT ![t] = w2]
    BY <1>0, <1>10
  <2> HIDE DEF w2
  <2>3. QED BY <1>1, <1>5, <1>8, <1>10, <2>1, <2>2
<1>11. CASE Display(t)
  BY <1>10, <1>11 DEF Display, monVars
<1>12. CASE Succeed(t)
  BY <1>9, <1>12 DEF Succeed, Answers
<1>13. CASE Warned(t)
  BY <1>9, <1>13 DEF Warned, Answers
<1>14. CASE SendFails(t)
  BY <1>9, <1>14 DEF SendFails, Answers
<1>15. CASE SendRefused(t)
  BY <1>9, <1>10, <1>15 DEF SendRefused, Answers
<1>16. CASE SendLimited(t)
  <2>1. CASE Finish(t, worker[t].task, "failed") /\ queue' = queue
    BY <1>9, <2>1 DEF Answers
  <2>2. CASE ~(Finish(t, worker[t].task, "failed") /\ queue' = queue)
    <3> DEFINE again == [worker[t].task EXCEPT !.retry = worker[t].task.retry + 1]
               q2 == Append(queue[t], again)
    <3>1. /\ worker[t].task.retry < RetryLimit /\ mon' = mon
          /\ queue' = [queue EXCEPT ![t] = q2]
          /\ worker' = [worker EXCEPT ![t] = Resting]
      BY <1>16, <2>2 DEF SendLimited
    <3>2. again \in Tasks /\ again.ids = worker[t].task.ids
          /\ (IsLive(again) <=> IsLive(worker[t].task))
      BY <1>0, <3>1, RetriedTyped
    <3> HIDE DEF again
    <3>3. Copies(again, queue[t], worker[t], TRUE)
      BY <3>2 DEF Copies, HeldBy
    <3>4. \A k \in DOMAIN q2 : q2[k] = again \/ \E l \in DOMAIN queue[t] : q2[k] = queue[t][l]
      BY <1>0, <3>2, AppendTo
    <3> HIDE DEF q2
    <3>5. QED BY <1>1, <1>3, <3>1, <3>3, <3>4
  <2>3. QED BY <2>1, <2>2
<1>17. QED
  BY <1>6, <1>7, <1>11, <1>12, <1>13, <1>14, <1>15, <1>16 DEF Worker

LEMMA CarriedEnqueued ==
    ASSUME OrderInv, OneMessagePerLine, NEW t \in Topics, \A u \in Topics : Grown(u),
           mon.pc \in {"call", "join"}, Current \in Contents, Enqueue(t), worker' = worker
    PROVE  \A u \in Topics : Carried(u)'
<1>0. Typed /\ queue \in [Topics -> Seq(Tasks)] /\ \A u \in Topics : ~Awaited(u)
  BY DEF OrderInv, FutureInv, Typed, Awaited
<1>1. CASE mon' = Failed(t) /\ queue' = queue
  BY <1>0, <1>1, CarriedUntouched
<1>2. CASE ~(mon' = Failed(t) /\ queue' = queue)
  <2>1. PICK task \in Tasks :
           /\ task.ids = <<Current>> /\ mon'.batch = mon.batch
           /\ queue' = [queue EXCEPT ![t] = Append(queue[t], task)]
    BY <1>0, <1>2, EnqueueIs
  <2>2. Current' = Current
    BY <2>1, CurrentStays
  <2>3. \A i \in Contents : i < Current => Has(shown'[t], i)
    BY PrecedingShown, DisplayedIs DEF InHand, Grown
  <2>4. Carries(task, shown'[t], Current')
    BY <2>1, <2>2, <2>3 DEF Carries
  <2>5. Carried(t)'
    BY <1>0, <2>1, <2>4, CarriedAppended
  <2>6. ASSUME NEW u \in Topics, u # t PROVE Carried(u)'
    BY <1>0, <2>1, <2>6, CarriedUntouched
  <2>7. QED BY <2>5, <2>6
<1>3. QED BY <1>1, <1>2

LEMMA CarriedStep ==
    ASSUME OrderInv, OneMessagePerLine, [Next]_vars
    PROVE  \A t \in Topics : Carried(t)'
<1> USE DEF monVars, sendVars
<1>0. /\ Typed /\ FutureInv /\ mon \in Monitors
      /\ \A t \in Topics : Grown(t)
      /\ \A t \in Topics : Display(t) =>
            \A x \in Contents : worker[t].task.ids = <<x>> => Has(shown'[t], x)
  BY ShownGrows DEF OrderInv, FutureInv, Typed
<1>1. ASSUME queue' = queue, worker' = worker,
             mon' = mon \/ mon.pc # "wait" \/ mon.answer # "none"
      PROVE  \A t \in Topics : Carried(t)'
  <2>1. mon'.batch = mon.batch \/ \A t \in Topics : ~Awaited(t)
    BY <1>1 DEF Awaited
  <2>2. QED BY <1>0, <1>1, <2>1, CarriedUntouched
<1>2. CASE Write \/ FloodEnds \/ BackoffDue
  BY <1>1, <1>2 DEF Write, FloodEnds, BackoffDue
<1>3. CASE Poll \/ NextMessage \/ MessageDone \/ Settle
  BY <1>1, <1>3 DEF Poll, NextMessage, MessageDone, Settle
<1>4. CASE DispatchTimeout \/ Stop
  BY <1>0, <1>4, CarriedOrphaned DEF DispatchTimeout, Stop
<1>5. CASE Restart
  <2>1. ASSUME NEW t \in Topics PROVE Carried(t)'
    <3>1. queue'[t] = <<>> /\ worker'[t] = Resting /\ Resting.pc # "after"
      BY <1>5 DEF Restart, Fresh, Resting
    <3>2. FALSE \in BOOLEAN /\ DOMAIN queue'[t] = {}
      BY <3>1
    <3>3. QED BY <1>0, <3>1, <3>2, CarriedOn
  <2>2. QED BY <2>1
<1>6. ASSUME NEW t \in Topics, Pass(t) \/ AwaitQueue(t) \/ Offer(t) \/ Ask(t) \/ Answered(t)
      PROVE  \A u \in Topics : Carried(u)'
  <2>1. CASE Pass(t) \/ AwaitQueue(t)
    BY <1>1, <2>1 DEF Pass, AwaitQueue
  <2>2. CASE Offer(t)
    <3>1. Current \in Contents
      BY <1>0, <2>2, InHandIs DEF Offer, Contents
    <3>2. QED BY <1>0, <2>2, <3>1, CarriedEnqueued DEF Offer
  <2>3. CASE Ask(t)
    <3>1. CASE Enqueue(t)
      <4>1. Current \in Contents /\ mon.pc = "join" /\ worker' = worker
        BY <2>3 DEF Ask, OrderInv, Dispatched, MessageOk
      <4>2. QED BY <1>0, <3>1, <4>1, CarriedEnqueued
    <3>2. CASE ~Enqueue(t)
      BY <1>1, <2>3, <3>2 DEF Ask
    <3>3. QED BY <3>1, <3>2
  <2>4. CASE Answered(t)
    BY <1>1, <2>4 DEF Answered
  <2>5. QED BY <1>6, <2>1, <2>2, <2>3, <2>4
<1>7. ASSUME NEW t \in Topics, Worker(t) \/ SendFails(t) \/ SendLimited(t) \/ SendRefused(t)
      PROVE  \A u \in Topics : Carried(u)'
  BY <1>0, <1>7, CarriedWorking
<1>8. ASSUME NEW t \in Topics, Notice(t) \/ InboundProof(t) \/ Rebind(t)
      PROVE  \A u \in Topics : Carried(u)'
  <2>1. CASE Notice(t)
    <3> DEFINE task == Task(<<>>, "none", route[t])
    <3>1. /\ queue' = [queue EXCEPT ![t] = Append(queue[t], task)]
          /\ worker' = worker /\ mon' = mon
      BY <2>1 DEF Notice
    <3>2. task \in Tasks /\ task.ids = <<>> /\ ~IsLive(task)
      <4>1. <<>> \in Seq(Ids)
        OBVIOUS
      <4>2. route[t] \in Nat /\ "none" \in Futures
        BY <1>0 DEF Typed, Futures
      <4>3. QED BY <4>1, <4>2, TaskTyped DEF Task, IsLive
    <3> HIDE DEF task
    <3>3. Carries(task, shown'[t], Current')
      BY <3>2 DEF Carries
    <3>4. queue \in [Topics -> Seq(Tasks)]
      BY <1>0 DEF Typed
    <3>5. Carried(t)'
      BY <1>0, <3>1, <3>2, <3>3, <3>4, CarriedAppended
    <3>6. ASSUME NEW u \in Topics, u # t PROVE Carried(u)'
      BY <1>0, <3>1, <3>4, <3>6, CarriedUntouched
    <3>7. QED BY <3>5, <3>6
  <2>2. CASE InboundProof(t) \/ Rebind(t)
    BY <1>1, <2>2 DEF InboundProof, Rebind
  <2>3. QED BY <1>8, <2>1, <2>2
<1>9. CASE UNCHANGED vars
  BY <1>1, <1>9 DEF vars
<1>10. QED
  BY <1>2, <1>3, <1>4, <1>5, <1>6, <1>7, <1>8, <1>9 DEF Next, Monitor

LEMMA DisplayedNext == \A t, i : Displayed(t, i)' <=> Has(shown'[t], i)
BY DEF Displayed, Displays, Has

\* What the offset of the message in hand covers is displayed once that message is.
LEMMA LineShown ==
    ASSUME OrderInv, OneMessagePerLine, mon.pc \in InHand, NEW t \in Topics, Grown(t),
           Current \in Contents => Has(shown'[t], Current),
           NEW i \in Contents, Line(i) <= Offset(Current)
    PROVE  Has(shown'[t], i)
<1>1. Line(i) \in Nat \ {0}
  BY Lines DEF Contents
<1>2. Kind(Current) # "limit" /\ Line(i) <= Line(Current)
  BY <1>1 DEF Offset
<1>3. CASE i = Current
  BY <1>3
<1>4. CASE i # Current
  <2>1. Displayed(t, i)
    BY <1>2, <1>4, EarlierShown
  <2>2. QED BY <2>1, DisplayedIs DEF Grown
<1>5. QED BY <1>3, <1>4

LEMMA MarkedShown ==
    ASSUME OrderInv, OneMessagePerLine, mon.pc \in InHand, NEW t \in Topics,
           \A u \in Topics : Grown(u), Current \in Contents => Has(shown'[t], Current),
           uoff' \in {uoff, Marked(t, Current)}
    PROVE  \A u \in Topics, i \in Contents : Line(i) <= uoff'[u] => Has(shown'[u], i)
<1> SUFFICES ASSUME NEW u \in Topics, NEW i \in Contents, Line(i) <= uoff'[u]
             PROVE  Has(shown'[u], i)
  OBVIOUS
<1>1. uoff \in [Topics -> 0..LastLine]
  BY DEF OrderInv, FutureInv, Typed
<1>2. uoff'[u] = uoff[u] \/ (u = t /\ uoff'[u] = Offset(Current))
  BY <1>1 DEF Marked
<1>3. CASE uoff'[u] = uoff[u]
  <2>1. Displayed(u, i)
    BY <1>3 DEF OrderInv, NothingLost
  <2>2. QED BY <2>1, DisplayedIs DEF Grown
<1>4. CASE u = t /\ uoff'[u] = Offset(Current)
  BY <1>4, LineShown
<1>5. QED BY <1>2, <1>3, <1>4

\* What the offset of a recipient passes is displayed there.
LEMMA OffsetsStep ==
    ASSUME OrderInv, OneMessagePerLine, [Next]_vars
    PROVE  \A t \in Topics, i \in Contents : Line(i) <= uoff'[t] => Has(shown'[t], i)
<1>0. /\ Typed /\ mon \in Monitors
      /\ \A t \in Topics : Grown(t)
  BY ShownGrows DEF OrderInv, FutureInv, Typed
<1>1. CASE uoff' = uoff
  <2>1. ASSUME NEW t \in Topics, NEW i \in Contents, Line(i) <= uoff'[t]
        PROVE  Has(shown'[t], i)
    <3>1. Displayed(t, i)
      BY <1>1, <2>1 DEF OrderInv, NothingLost
    <3>2. QED BY <1>0, <3>1, DisplayedIs DEF Grown
  <2>2. QED BY <2>1
<1>2. ASSUME NEW t \in Topics, Pass(t)
      PROVE  \A u \in Topics, i \in Contents : Line(i) <= uoff'[u] => Has(shown'[u], i)
  <2>1. uoff' = uoff \/ (uoff' = Marked(t, Current) /\ Kind(Current) = "quiet")
    BY <1>2 DEF Pass
  <2>2. CASE uoff' = uoff
    BY <1>1, <2>2
  <2>3. CASE uoff' = Marked(t, Current) /\ Kind(Current) = "quiet"
    <3>1. mon.pc \in InHand /\ Current \notin Contents
      BY <1>2, <2>3 DEF Pass, InHand, Contents
    <3>2. QED BY <1>0, <2>3, <3>1, MarkedShown
  <2>4. QED BY <2>1, <2>2, <2>3
<1>3. ASSUME NEW t \in Topics, Ask(t), uoff' # uoff
      PROVE  \A u \in Topics, i \in Contents : Line(i) <= uoff'[u] => Has(shown'[u], i)
  <2>1. /\ mon.pc \in InHand /\ uoff' \in {uoff, Marked(t, Current)}
        /\ shown' = [shown EXCEPT ![t] = Append(shown[t], Current)]
    BY <1>3 DEF Ask, InHand, MarkedFor
  <2>2. shown[t] \in Seq(Ids) /\ Current \in Ids /\ shown'[t] = Append(shown[t], Current)
    BY <1>0, <2>1, InHandIs DEF Typed, InHand
  <2>3. Has(shown'[t], Current)
    BY <2>2, AppendHas
  <2>4. QED BY <1>0, <2>1, <2>3, MarkedShown
<1>4. ASSUME NEW t \in Topics, Answered(t), uoff' # uoff
      PROVE  \A u \in Topics, i \in Contents : Line(i) <= uoff'[u] => Has(shown'[u], i)
  <2>1. /\ mon.pc = "wait" /\ mon.at = t /\ mon.answer = "sent"
        /\ uoff' \in {uoff, Marked(t, Current)}
    <3>1. mon.answer \in {"sent", "failed", "refused"}
      BY <1>0, <1>4 DEF Answered, Monitors, Answers
    <3>2. QED BY <1>4, <3>1 DEF Answered, MarkedFor
  <2>2. Has(shown[t], Current)
    BY <2>1 DEF OrderInv, Dispatched, MessageOk
  <2>3. Has(shown'[t], Current)
    BY <1>0, <2>2 DEF Grown
  <2>4. QED BY <1>0, <2>1, <2>3, MarkedShown DEF InHand
<1>5. ASSUME NEW t \in Topics, Rebind(t)
      PROVE  \A u \in Topics, i \in Contents : Line(i) <= uoff'[u] => Has(shown'[u], i)
  <2>1. uoff' = [uoff EXCEPT ![t] = 0] /\ uoff \in [Topics -> 0..LastLine]
    BY <1>0, <1>5 DEF Rebind, Typed
  <2>2. ASSUME NEW u \in Topics, NEW i \in Contents, Line(i) <= uoff'[u]
        PROVE  Has(shown'[u], i)
    <3>1. Line(i) \in Nat \ {0}
      BY Lines DEF Contents
    <3>2. uoff'[u] = uoff[u]
      BY <2>1, <2>2, <3>1
    <3>3. Displayed(u, i)
      BY <2>2, <3>2 DEF OrderInv, NothingLost
    <3>4. QED BY <1>0, <3>3, DisplayedIs DEF Grown
  <2>3. QED BY <2>2
<1>6. uoff' # uoff => \E t \in Topics : Pass(t) \/ Ask(t) \/ Answered(t) \/ Rebind(t)
  BY DEF Next, vars, monVars, Monitor, Worker, Write, FloodEnds, DispatchTimeout, Stop, Restart,
     SendFails, SendLimited, SendRefused, Notice, InboundProof, Poll, NextMessage, MessageDone,
     Settle, BackoffDue, AwaitQueue, Offer, Take, FloodOver, Display, Succeed, Warned
<1>7. QED BY <1>1, <1>2, <1>3, <1>4, <1>5, <1>6

\* With one recipient the monitor resumes where that one is or where it was itself.
LEMMA ResumesAt ==
    ASSUME Typed, OneRecipient, NEW t \in Topics
    PROVE  /\ FastForwarded = tracked \/ FastForwarded = uoff[t]
           /\ tracked \in Nat /\ uoff[t] \in Nat
<1>1. uoff \in [Topics -> 0..LastLine] /\ tracked \in 0..LastLine /\ LastLine \in Nat
  BY Lines DEF Typed
<1>2. Recorded \subseteq {uoff[t]}
  BY DEF Recorded, OneRecipient
<1>3. ResumeOffset = 0 \/ ResumeOffset = uoff[t]
  <2>1. CASE Recorded = {}
    BY <2>1 DEF ResumeOffset
  <2>2. CASE Recorded # {}
    <3>0. uoff[t] \in Nat
      BY <1>1
    <3>1. Recorded = {uoff[t]} /\ uoff[t] <= uoff[t]
      BY <1>2, <2>2, <3>0
    <3>2. \E o \in Recorded : \A p \in Recorded : o <= p
      BY <3>1
    <3>3. ResumeOffset \in Recorded
      BY <2>2, <3>2 DEF ResumeOffset
    <3>4. QED BY <3>1, <3>3
  <2>3. QED BY <2>1, <2>2
<1>4. tracked \in Nat /\ uoff[t] \in Nat
  BY <1>1
<1>5. FastForwarded = tracked \/ FastForwarded = uoff[t]
  BY <1>3, <1>4 DEF FastForwarded
<1>6. QED BY <1>4, <1>5

LEMMA PollShown ==
    ASSUME OrderInv, OneRecipient, NEW t \in Topics, NEW i \in Contents,
           Line(i) <= written, i \notin Batch(FastForwarded, written)
    PROVE  Displayed(t, i)
<1>1. Typed /\ i \in Ids
  BY DEF OrderInv, FutureInv, Contents
<1>2. ~(FastForwarded < Line(i))
  BY <1>1 DEF Batch
<1>3. Line(i) \in Nat /\ FastForwarded \in Nat
      /\ (FastForwarded = tracked \/ FastForwarded = uoff[t])
  BY <1>1, ResumesAt, Lines
<1>4. Line(i) <= FastForwarded
  BY <1>2, <1>3
<1>5. QED BY <1>3, <1>4 DEF OrderInv, NothingLost

\* The message in hand is displayed in every topic when nobody is left and none failed.
LEMMA AllShown ==
    ASSUME OrderInv, MessageDone, mon'.pc # "settle" \/ ~mon'.failed, Current \in Contents,
           NEW t \in Topics
    PROVE  Displayed(t, Current)
<1>1. ~mon.failed
  <2>1. Failed(NoTopic).pc = "settle" /\ Failed(NoTopic).failed
    BY FailedTyped
  <2>2. QED BY <2>1 DEF MessageDone
<1>2. mon.pc = "call" /\ mon.todo = {}
  BY DEF MessageDone
<1>3. QED BY <1>1, <1>2, DisplayedIs DEF OrderInv, Dispatched, MessageOk, InHand

\* What the session's offset passes is displayed in every topic.
LEMMA TrackedStep ==
    ASSUME OrderInv, OneRecipient, OneMessagePerLine, [Next]_vars
    PROVE  \A t \in Topics, i \in Contents : Line(i) <= tracked' => Has(shown'[t], i)
<1> SUFFICES ASSUME NEW t \in Topics, NEW i \in Contents, Line(i) <= tracked'
             PROVE  Has(shown'[t], i)
  OBVIOUS
<1>0. /\ Typed /\ Grown(t) /\ mon \in Monitors
      /\ Displayed(t, i) => Has(shown'[t], i)
  BY ShownGrows, DisplayedIs DEF OrderInv, FutureInv, Typed, Grown
<1>1. CASE tracked' = tracked
  BY <1>0, <1>1 DEF OrderInv, NothingLost
<1>2. CASE Poll /\ tracked' # tracked
  <2>1. tracked' = written /\ Batch(FastForwarded, written) = {}
    BY <1>2 DEF Poll
  <2>2. QED BY <1>0, <2>1, PollShown
<1>3. CASE MessageDone /\ tracked' # tracked
  <2>1. ~mon.failed /\ tracked' = CommittedTo(Current) /\ mon.pc = "call" /\ mon.todo = {}
    BY <1>3 DEF MessageDone
  <2>2. Current \in Contents => Has(shown'[t], Current)
    <3>1. Current \in Contents => Has(shown[t], Current)
      BY <2>1 DEF OrderInv, Dispatched, MessageOk, InHand
    <3>2. QED BY <1>0, <3>1 DEF Grown
  <2>3. tracked' = Lesser(Offset(Current), mon.to)
    BY <1>3, <2>1 DEF CommittedTo
  <2>4. Line(i) <= Offset(Current)
    <3>1. Offset(Current) \in Nat /\ mon.to \in Nat /\ Line(i) \in Nat
      <4>1. Current \in Ids /\ i \in Ids /\ mon.to \in 0..LastLine
        BY <1>0, <2>1, InHandIs DEF Monitors, Contents
      <4>2. Offset(Current) \in 0..LastLine /\ Line(i) \in 1..LastLine /\ LastLine \in Nat
        BY <4>1, Lines
      <4>3. QED BY <4>1, <4>2
    <3>2. QED BY <2>3, <3>1 DEF Lesser
  <2>5. QED BY <1>0, <2>1, <2>2, <2>4, LineShown DEF InHand
<1>4. CASE Settle /\ tracked' # tracked
  <2>1. mon.pc = "settle" /\ tracked' = mon.to
    BY <1>4 DEF Settle
  <2>2. QED BY <1>0, <2>1 DEF OrderInv, Dispatched, SettleOk
<1>5. tracked' # tracked => Poll \/ MessageDone \/ Settle
  BY DEF Next, vars, monVars, Monitor, Worker, Write, FloodEnds, DispatchTimeout, Stop, Restart,
     SendFails, SendLimited, SendRefused, Notice, InboundProof, NextMessage, Rebind, Pass, Ask,
     Answered, BackoffDue, AwaitQueue, Offer, Take, FloodOver, Display, Succeed, Warned
<1>6. QED BY <1>1, <1>2, <1>3, <1>4, <1>5

\* A group that is over and commits nothing more, or no group.
LEMMA NothingInHand ==
    ASSUME mon'.pc = "sleep" \/ (mon'.pc = "settle" /\ mon'.to = 0)
    PROVE  Dispatched'
<1>1. \A i \in Contents : ~(Line(i) <= 0)
  BY Lines DEF Contents
<1>2. GroupOk' /\ MessageOk'
  BY DEF GroupOk, MessageOk, InHand
<1>3. SettleOk'
  BY <1>1 DEF SettleOk
<1>4. QED BY <1>2, <1>3 DEF Dispatched

\* The group goes on with the same messages.
LEMMA GroupGoesOn ==
    ASSUME OrderInv, \A t \in Topics : Grown(t), mon.pc \in InHand \cup {"next"},
           mon'.pc \in InHand \cup {"next"}, mon'.batch = mon.batch, mon'.to = mon.to, MessageOk'
    PROVE  Dispatched'
<1>1. GroupOk
  BY DEF OrderInv, Dispatched
<1>2. \A t \in Topics, i \in Contents : Displayed(t, i) => Displayed(t, i)'
  BY DisplayedIs, DisplayedNext DEF Grown
<1>3. GroupOk'
  BY <1>1, <1>2 DEF GroupOk
<1>4. SettleOk'
  BY DEF SettleOk, InHand
<1>5. QED BY <1>3, <1>4 DEF Dispatched

\* The monitor's own variables stay.
LEMMA DispatchedStays ==
    ASSUME OrderInv, \A t \in Topics : Grown(t), mon' = mon
    PROVE  Dispatched'
<1>1. Current' = Current /\ Dispatched
  BY CurrentStays DEF OrderInv
<1>2. \A t \in Topics : \A i : Displayed(t, i) => Displayed(t, i)'
  BY DisplayedIs, DisplayedNext DEF Grown
<1>3. GroupOk' /\ SettleOk'
  BY <1>1, <1>2 DEF Dispatched, GroupOk, SettleOk
<1>4. MessageOk'
  <2>1. mon'.pc \in {"join", "wait"} => Current' \in Contents
    BY <1>1 DEF Dispatched, MessageOk
  <2>2. mon'.pc \in InHand /\ ~mon'.failed /\ Current' \in Contents =>
           \A t \in Topics \ mon'.todo : Has(shown'[t], Current')
    BY <1>1 DEF Dispatched, MessageOk, Grown
  <2>3. mon'.pc = "wait" /\ mon'.answer = "sent" => Has(shown'[mon'.at], Current')
    <3>1. mon.pc = "wait" => mon.at \in Topics
      BY DEF OrderInv, FutureInv, Typed
    <3>2. QED BY <1>1, <3>1 DEF Dispatched, MessageOk, Grown
  <2>4. QED BY <2>1, <2>2, <2>3 DEF MessageOk
<1>5. QED BY <1>3, <1>4 DEF Dispatched

\* One recipient is done with the message in hand.
LEMMA RecipientDone ==
    ASSUME OrderInv, \A t \in Topics : Grown(t), mon.pc \in InHand, NEW t \in Topics,
           mon'.pc = "call", mon'.batch = mon.batch, mon'.to = mon.to,
           mon'.todo = mon.todo \ {t}, ~mon'.failed => ~mon.failed,
           ~mon'.failed /\ Current \in Contents => Has(shown'[t], Current)
    PROVE  Dispatched'
<1>1. Current' = Current
  BY CurrentStays
<1>2. ASSUME ~mon'.failed, Current \in Contents, NEW u \in Topics \ mon'.todo
      PROVE  Has(shown'[u], Current)
  <2>1. CASE u = t
    BY <1>2, <2>1
  <2>2. CASE u # t
    <3>1. Has(shown[u], Current)
      BY <1>2, <2>2 DEF OrderInv, Dispatched, MessageOk
    <3>2. QED BY <3>1 DEF Grown
  <2>3. QED BY <2>1, <2>2
<1>3. MessageOk'
  BY <1>1, <1>2 DEF MessageOk
<1>4. QED BY <1>3, GroupGoesOn DEF InHand

\* Some recipient still has the message in hand to be given to it.
LEMMA RecipientWaits ==
    ASSUME OrderInv, \A t \in Topics : Grown(t), mon.pc \in {"call", "join"},
           Current \in Contents, mon'.pc \in {"join", "wait"}, mon'.batch = mon.batch,
           mon'.to = mon.to, mon'.todo = mon.todo, mon'.failed = mon.failed,
           mon'.answer = "none"
    PROVE  Dispatched'
<1>1. Current' = Current
  BY CurrentStays
<1>2. Dispatched
  BY DEF OrderInv
<1>3. MessageOk'
  BY <1>1, <1>2 DEF Dispatched, MessageOk, InHand, Grown
<1>4. QED BY <1>3, GroupGoesOn DEF InHand

\* A worker answers, or leaves the answer to the next.
LEMMA AnswerGiven ==
    ASSUME OrderInv, \A u \in Topics : Grown(u), NEW t \in Topics, NEW task \in Tasks,
           NEW r \in Answers, Finish(t, task, r),
           r = "sent" /\ IsLive(task) => mon.at = t /\ mon.pc = "wait" /\ Has(shown[t], Current)
    PROVE  Dispatched'
<1>2. mon' = mon \/ (IsLive(task) /\ mon' = [mon EXCEPT !.answer = r])
  BY DEF Finish, Resolved, IsLive
<1>3. CASE mon' = mon
  BY <1>3, DispatchedStays
<1>4. CASE IsLive(task) /\ mon' = [mon EXCEPT !.answer = r]
  <2>0. mon \in Monitors
    BY DEF OrderInv, FutureInv, Typed
  <2>1. /\ mon'.pc = mon.pc /\ mon'.batch = mon.batch /\ mon'.to = mon.to /\ mon'.at = mon.at
        /\ mon'.todo = mon.todo /\ mon'.failed = mon.failed /\ mon'.answer = r
    BY <1>4, <2>0 DEF Monitors
  <2>2. Current' = Current /\ Dispatched
    BY <2>1, CurrentStays DEF OrderInv
  <2>3. MessageOk'
    <3>1. mon'.pc \in {"join", "wait"} => Current' \in Contents
      BY <2>1, <2>2 DEF Dispatched, MessageOk
    <3>2. mon'.pc \in InHand /\ ~mon'.failed /\ Current' \in Contents =>
             \A u \in Topics \ mon'.todo : Has(shown'[u], Current')
      BY <2>1, <2>2 DEF Dispatched, MessageOk, Grown
    <3>3. mon'.pc = "wait" /\ mon'.answer = "sent" => Has(shown'[mon'.at], Current')
      BY <1>4, <2>1, <2>2 DEF Grown
    <3>4. QED BY <3>1, <3>2, <3>3 DEF MessageOk
  <2>4. \A u \in Topics : \A i : Displayed(u, i) => Displayed(u, i)'
    BY DisplayedIs, DisplayedNext DEF Grown
  <2>5. GroupOk' /\ SettleOk'
    BY <2>1, <2>2, <2>4 DEF Dispatched, GroupOk, SettleOk
  <2>6. QED BY <2>3, <2>5 DEF Dispatched
<1>5. QED BY <1>2, <1>3, <1>4

LEMMA WorkingDispatched ==
    ASSUME OrderInv, \A u \in Topics : Grown(u), NEW t \in Topics,
           Worker(t) \/ SendFails(t) \/ SendLimited(t) \/ SendRefused(t)
    PROVE  Dispatched'
<1>0. FutureInv /\ Typed /\ worker[t].task \in Tasks
  BY DEF OrderInv, FutureInv, Typed, Workers
<1>1. ASSUME NEW task \in Tasks, NEW r \in {"failed", "refused"}, Finish(t, task, r)
      PROVE  Dispatched'
  BY <1>1, AnswerGiven DEF Answers
<1>2. ASSUME NEW task \in Tasks, NEW q2 \in Seq(Tasks), Started(t, task, q2) PROVE Dispatched'
  BY <1>1, <1>2, DispatchedStays DEF Started
<1>3. CASE Take(t)
  <2>1. PICK task \in Tasks, q2 \in Seq(Tasks) : Started(t, task, q2)
    BY <1>0, <1>3, TakeIs
  <2>2. QED BY <1>2, <2>1
<1>4. CASE FloodOver(t)
  <2>1. PICK q2 \in Seq(Tasks) : Started(t, worker[t].task, q2)
    BY <1>0, <1>4, FloodOverIs
  <2>2. QED BY <1>0, <1>2, <2>1
<1>5. CASE Display(t)
  BY <1>5, DispatchedStays DEF Display, monVars
<1>6. CASE Succeed(t)
  <2>1. worker[t].pc = "after" /\ Finish(t, worker[t].task, "sent")
    BY <1>6 DEF Succeed
  <2>2. ASSUME IsLive(worker[t].task)
        PROVE  mon.at = t /\ mon.pc = "wait" /\ Has(shown[t], Current)
    <3>1. Awaited(t) /\ CarriedBy(queue[t], worker[t], shown[t], Current)
      BY <1>0, <2>2, LiveIsAwaited DEF OrderInv, Carried
    <3>2. PICK x \in Contents : worker[t].task.ids = <<x>> /\ x = Current
      BY <2>2, <3>1 DEF CarriedBy, Carries
    <3>3. Has(shown[t], x)
      BY <2>1, <3>1, <3>2 DEF CarriedBy
    <3>4. QED BY <3>1, <3>2, <3>3 DEF Awaited
  <2>3. QED BY <1>0, <2>1, <2>2, AnswerGiven DEF Answers
<1>7. CASE Warned(t)
  BY <1>0, <1>1, <1>7 DEF Warned
<1>8. CASE SendFails(t)
  BY <1>0, <1>1, <1>8 DEF SendFails
<1>9. CASE SendRefused(t)
  BY <1>0, <1>1, <1>9, DispatchedStays DEF SendRefused
<1>10. CASE SendLimited(t)
  BY <1>0, <1>1, <1>10, DispatchedStays DEF SendLimited
<1>11. QED BY <1>3, <1>4, <1>5, <1>6, <1>7, <1>8, <1>9, <1>10 DEF Worker

LEMMA EnqueueDispatched ==
    ASSUME OrderInv, \A u \in Topics : Grown(u), NEW t \in Topics, Enqueue(t),
           mon.pc \in {"call", "join"}, Current \in Contents
    PROVE  Dispatched'
<1>0. Typed /\ mon.answer = "none"
  BY DEF OrderInv, FutureInv, Typed
<1>1. CASE mon' = Failed(t)
  <2>1. mon'.pc = "settle" /\ mon'.to = 0
    BY <1>1, FailedTyped
  <2>2. QED BY <2>1, NothingInHand
<1>2. CASE mon' # Failed(t)
  <2>1. /\ mon'.pc = "wait" /\ mon'.batch = mon.batch /\ mon'.to = mon.to
        /\ mon'.todo = mon.todo /\ mon'.failed = mon.failed /\ mon'.answer = "none"
    BY <1>0, <1>2, EnqueueIs
  <2>2. QED BY <2>1, RecipientWaits
<1>3. QED BY <1>1, <1>2

\* What the recipient's offset passes over as delivered is displayed.
LEMMA DeliveredIsShown ==
    ASSUME Typed, NothingLost, Current \in Contents, NEW t \in Topics,
           AlreadyDelivered(t, Current)
    PROVE  Displayed(t, Current)
<1>1. Offset(Current) = Line(Current) /\ uoff[t] >= Offset(Current)
  BY DEF AlreadyDelivered, Offset, Contents
<1>2. Line(Current) \in 1..LastLine /\ uoff[t] \in 0..LastLine /\ LastLine \in Nat
  BY Lines DEF Typed, Contents
<1>3. Line(Current) <= uoff[t]
  BY <1>1, <1>2
<1>4. QED BY <1>3 DEF NothingLost

LEMMA DeliveringDispatched ==
    ASSUME OrderInv, \A u \in Topics : Grown(u), NEW t \in Topics,
           Pass(t) \/ AwaitQueue(t) \/ Offer(t) \/ Ask(t) \/ Answered(t)
    PROVE  Dispatched'
<1>0. /\ Typed /\ mon \in Monitors /\ Current \in Ids /\ mon.pc \in InHand
      /\ (mon.pc \in {"join", "wait"} => Current \in Contents)
      /\ shown \in [Topics -> Seq(Ids)]
  BY InHandIs DEF Pass, AwaitQueue, Offer, Ask, Answered, InHand, OrderInv, FutureInv, Typed,
     Dispatched, MessageOk
<1>1. /\ Done(t).pc = "call" /\ Done(t).batch = mon.batch /\ Done(t).to = mon.to
      /\ Done(t).todo = mon.todo \ {t} /\ Done(t).failed = mon.failed /\ Done(t) \in Monitors
  BY <1>0, DoneTyped
<1>2. CASE Pass(t)
  <2>1. mon' = Done(t) /\ mon.pc = "call"
    BY <1>2 DEF Pass
  <2>2. ASSUME Current \in Contents PROVE Has(shown'[t], Current)
    <3>1. AlreadyDelivered(t, Current)
      BY <1>2, <2>2 DEF Pass, Contents
    <3>2. Displayed(t, Current)
      BY <1>0, <2>2, <3>1, DeliveredIsShown DEF OrderInv
    <3>3. QED BY <3>2, DisplayedIs DEF Grown
  <2>3. QED BY <1>0, <1>1, <2>1, <2>2, RecipientDone
<1>3. CASE AwaitQueue(t)
  <2>1. mon' = [mon EXCEPT !.pc = "join", !.at = t, !.gen = route[t]] /\ mon.pc = "call"
        /\ Current \in Contents
    BY <1>0, <1>3 DEF AwaitQueue, Contents
  <2>2. /\ mon'.pc = "join" /\ mon'.batch = mon.batch /\ mon'.to = mon.to
        /\ mon'.todo = mon.todo /\ mon'.failed = mon.failed /\ mon'.answer = mon.answer
    BY <1>0, <2>1 DEF Monitors
  <2>3. mon.answer = "none"
    BY <1>0, <2>1 DEF Typed
  <2>4. QED BY <2>1, <2>2, <2>3, RecipientWaits
<1>4. CASE Offer(t)
  BY <1>0, <1>4, EnqueueDispatched DEF Offer, Contents
<1>5. CASE Ask(t)
  <2>1. CASE Enqueue(t)
    BY <1>0, <1>5, <2>1, EnqueueDispatched DEF Ask
  <2>2. CASE ~Enqueue(t)
    <3>1. mon' = Done(t) /\ shown' = [shown EXCEPT ![t] = Append(shown[t], Current)]
      BY <1>5, <2>2 DEF Ask
    <3>2. shown[t] \in Seq(Ids) /\ shown'[t] = Append(shown[t], Current)
      BY <1>0, <3>1
    <3>3. Has(shown'[t], Current)
      BY <1>0, <3>2, AppendHas
    <3>4. QED BY <1>0, <1>1, <3>1, <3>3, RecipientDone
  <2>3. QED BY <2>1, <2>2
<1>6. CASE Answered(t)
  <2>1. /\ mon.pc = "wait" /\ mon.at = t
        /\ \/ mon.answer = "sent" /\ mon' = Done(t)
           \/ mon' = [Done(t) EXCEPT !.failed = TRUE]
           \/ mon' = Failed(t)
    <3>1. mon.answer \in {"sent", "failed", "refused"}
      BY <1>0, <1>6 DEF Answered, Monitors, Answers
    <3>2. QED BY <1>6, <3>1 DEF Answered
  <2>2. CASE mon.answer = "sent" /\ mon' = Done(t)
    <3>1. Has(shown'[t], Current)
      BY <2>1, <2>2 DEF OrderInv, Dispatched, MessageOk, Grown
    <3>2. QED BY <1>0, <1>1, <2>2, <3>1, RecipientDone
  <2>3. CASE mon' = [Done(t) EXCEPT !.failed = TRUE]
    <3>1. /\ mon'.pc = "call" /\ mon'.batch = mon.batch /\ mon'.to = mon.to
          /\ mon'.todo = mon.todo \ {t} /\ mon'.failed
      BY <1>1, <2>3, FailingTyped
    <3>2. QED BY <1>0, <3>1, RecipientDone
  <2>4. CASE mon' = Failed(t)
    <3>1. mon'.pc = "settle" /\ mon'.to = 0
      BY <2>4, FailedTyped
    <3>2. QED BY <3>1, NothingInHand
  <2>5. QED BY <2>1, <2>2, <2>3, <2>4
<1>7. QED BY <1>2, <1>3, <1>4, <1>5, <1>6

\* The message in hand is done: the group goes on, pauses or ends.
LEMMA MessageDoneDispatched ==
    ASSUME OrderInv, \A u \in Topics : Grown(u), MessageDone
    PROVE  Dispatched'
<1> DEFINE rest == mon.batch \ {Current}
<1>0. /\ mon \in Monitors /\ mon.to \in 0..LastLine /\ rest \in SUBSET Ids
      /\ mon.pc = "call"
      /\ \A t \in Topics : \A i : Displayed(t, i) => Displayed(t, i)'
  BY DisplayedIs, DisplayedNext DEF OrderInv, FutureInv, Typed, Monitors, MessageDone, Grown
<1>1. \/ mon' = Failed(NoTopic)
      \/ rest = {} /\ ~mon.failed /\ mon' = [Idle EXCEPT !.pc = "settle", !.to = mon.to]
      \/ mon' = [Idle EXCEPT !.pc = "settle"]
      \/ ~mon.failed /\ mon' = [mon EXCEPT !.pc = "next", !.batch = rest, !.done = mon.done + 1]
  BY DEF MessageDone
<1>2. ASSUME ~mon.failed, NEW t \in Topics, Current \in Contents PROVE Displayed(t, Current)
  <2>1. mon.pc = "call" /\ mon.todo = {}
    BY DEF MessageDone
  <2>2. QED BY <1>2, <2>1, DisplayedIs DEF OrderInv, Dispatched, MessageOk, InHand
\* What lies before the group's end is displayed or in the rest.
<1>3. ASSUME ~mon.failed, NEW t \in Topics, NEW i \in Contents, Line(i) <= mon.to
      PROVE  i \in rest \/ Displayed(t, i)'
  <2>1. i \in mon.batch \/ Displayed(t, i)
    BY <1>0, <1>3 DEF OrderInv, Dispatched, GroupOk, InHand
  <2>2. CASE i = Current
    BY <1>0, <1>2, <1>3, <2>2
  <2>3. CASE i # Current
    BY <1>0, <2>1, <2>3
  <2>4. QED BY <2>2, <2>3
<1> HIDE DEF rest
<1>4. CASE mon' = Failed(NoTopic)
  <2>1. mon'.pc = "settle" /\ mon'.to = 0
    BY <1>4, FailedTyped
  <2>2. QED BY <2>1, NothingInHand
<1>5. CASE rest = {} /\ ~mon.failed /\ mon' = [Idle EXCEPT !.pc = "settle", !.to = mon.to]
  <2>1. mon'.pc = "settle" /\ mon'.to = mon.to
    BY <1>0, <1>5, SettledTyped
  <2>2. SettleOk'
    BY <1>3, <1>5, <2>1 DEF SettleOk
  <2>3. QED BY <2>1, <2>2 DEF Dispatched, GroupOk, MessageOk, InHand
<1>6. CASE mon' = [Idle EXCEPT !.pc = "settle"]
  <2>1. mon'.pc = "settle" /\ mon'.to = 0
    BY <1>6, PausedTyped
  <2>2. QED BY <2>1, NothingInHand
<1>7. CASE ~mon.failed /\ mon' = [mon EXCEPT !.pc = "next", !.batch = rest,
                                             !.done = mon.done + 1]
  <2>1. mon'.pc = "next" /\ mon'.batch = rest /\ mon'.to = mon.to
    BY <1>0, <1>7, NextTyped
  <2>2. \A i \in mon.batch : Line(i) <= mon.to
    BY <1>0 DEF OrderInv, Dispatched, GroupOk, InHand
  <2>3. \A i \in rest : Line(i) <= mon.to
    BY <2>2 DEF rest
  <2>4. GroupOk'
    BY <1>3, <1>7, <2>1, <2>3 DEF GroupOk
  <2>5. QED BY <2>1, <2>4 DEF Dispatched, MessageOk, SettleOk, InHand
<1>8. QED BY <1>1, <1>4, <1>5, <1>6, <1>7

\* A new group holds what the offsets leave out.
LEMMA PollDispatched ==
    ASSUME OrderInv, OneRecipient, \A u \in Topics : Grown(u), Poll
    PROVE  Dispatched'
<1> DEFINE batch == Batch(FastForwarded, written)
<1>1. CASE mon' = mon
  BY <1>1, DispatchedStays
<1>2. CASE mon' # mon
  <2>1. mon' = [Idle EXCEPT !.pc = "next", !.batch = batch, !.to = written]
    BY <1>2 DEF Poll
  <2>2. mon'.pc = "next" /\ mon'.batch = batch /\ mon'.to = written
    BY <2>1 DEF Idle
  <2>3. \A i \in batch : Line(i) <= written
    BY DEF Batch
  <2>4. ASSUME NEW t \in Topics, NEW i \in Contents, Line(i) <= written
        PROVE  i \in batch \/ Displayed(t, i)'
    <3>1. i \in batch \/ Displayed(t, i)
      BY <2>4, PollShown
    <3>2. QED BY <3>1, DisplayedIs, DisplayedNext DEF Grown
  <2> HIDE DEF batch
  <2>5. GroupOk'
    BY <2>2, <2>3, <2>4 DEF GroupOk
  <2>6. QED BY <2>2, <2>5 DEF Dispatched, MessageOk, SettleOk, InHand
<1>3. QED BY <1>1, <1>2

LEMMA DispatchedStep ==
    ASSUME OrderInv, OneRecipient, OneMessagePerLine, [Next]_vars
    PROVE  Dispatched'
<1> USE DEF monVars, sendVars
<1>0. Typed /\ mon \in Monitors /\ \A t \in Topics : Grown(t)
  BY ShownGrows DEF OrderInv, FutureInv, Typed
<1>1. CASE mon' = mon
  BY <1>0, <1>1, DispatchedStays
<1>2. CASE Poll
  BY <1>0, <1>2, PollDispatched
<1>3. CASE NextMessage
  <2>1. /\ mon.pc = "next" /\ mon'.pc = "call" /\ mon'.batch = mon.batch /\ mon'.to = mon.to
        /\ mon'.todo = Topics
    BY <1>0, <1>3 DEF NextMessage, Monitors
  <2>2. MessageOk'
    BY <2>1 DEF MessageOk, InHand
  <2>3. QED BY <1>0, <2>1, <2>2, GroupGoesOn DEF InHand
<1>4. CASE MessageDone
  BY <1>0, <1>4, MessageDoneDispatched
<1>5. CASE Settle \/ Stop \/ Restart
  <2>1. mon'.pc = "sleep"
    BY <1>5 DEF Settle, Stop, Restart, Fresh, Idle
  <2>2. QED BY <2>1, NothingInHand
<1>6. CASE DispatchTimeout
  <2>1. mon'.pc = "settle" /\ mon'.to = 0
    BY <1>6, FailedTyped DEF DispatchTimeout
  <2>2. QED BY <2>1, NothingInHand
<1>7. ASSUME NEW t \in Topics, Pass(t) \/ AwaitQueue(t) \/ Offer(t) \/ Ask(t) \/ Answered(t)
      PROVE  Dispatched'
  BY <1>0, <1>7, DeliveringDispatched
<1>8. ASSUME NEW t \in Topics, Worker(t) \/ SendFails(t) \/ SendLimited(t) \/ SendRefused(t)
      PROVE  Dispatched'
  BY <1>0, <1>8, WorkingDispatched
<1>9. CASE Write \/ FloodEnds \/ BackoffDue
  BY <1>1, <1>9 DEF Write, FloodEnds, BackoffDue
<1>10. ASSUME NEW t \in Topics, Notice(t) \/ InboundProof(t) \/ Rebind(t)
       PROVE  Dispatched'
  BY <1>1, <1>10 DEF Notice, InboundProof, Rebind
<1>11. CASE UNCHANGED vars
  BY <1>1, <1>11 DEF vars
<1>12. QED
  BY <1>2, <1>3, <1>4, <1>5, <1>6, <1>7, <1>8, <1>9, <1>10, <1>11 DEF Next, Monitor

LEMMA OrderInit == Init => OrderInv
<1> SUFFICES ASSUME Init PROVE OrderInv
  OBVIOUS
<1>1. \A i \in Contents : ~(Line(i) <= 0)
  BY Lines DEF Contents
<1>2. NothingLost
  BY <1>1 DEF Init, NothingLost
<1>3. \A t \in Topics : \A i : ~Displayed(t, i)
  BY DEF Init, Displayed, Displays
<1>4. InOrder
  BY <1>3 DEF InOrder
<1>5. Dispatched
  BY DEF Init, Idle, Dispatched, GroupOk, MessageOk, SettleOk, InHand
<1>6. ASSUME NEW t \in Topics PROVE Carried(t)
  <2>1. queue[t] = <<>> /\ worker[t] = Resting /\ Resting.pc # "after"
    BY DEF Init, Resting
  <2>2. QED BY <2>1, RestingCarries DEF Carried, CarriedBy
<1>7. QED BY <1>2, <1>4, <1>5, <1>6, FutureInit DEF OrderInv

LEMMA OrderStep ==
    ASSUME OneRecipient, OneMessagePerLine, OrderInv, [Next]_vars
    PROVE  OrderInv'
<1>1. FutureInv'
  BY FutureStep DEF OrderInv
<1>2. NothingLost'
  <2>1. \A t \in Topics, i \in Contents :
           Line(i) <= tracked' \/ Line(i) <= uoff'[t] => Has(shown'[t], i)
    BY OffsetsStep, TrackedStep
  <2>2. QED BY <2>1, DisplayedNext DEF NothingLost
<1>3. InOrder'
  <2>1. \A t \in Topics : OrderOf(shown'[t])
    BY ShownGrows DEF Grown
  <2>2. InOrder' <=> \A t \in Topics : OrderOf(shown'[t])
    <3>1. ASSUME NEW t \in Topics
          PROVE  OrderOf(shown'[t]) <=>
                 \A i, j \in Contents :
                    i < j /\ Displayed(t, j)' =>
                       \E k \in Displays(t, i)' : \A l \in Displays(t, j)' : k < l
      <4>1. ASSUME NEW i \in Contents, NEW j \in Contents
            PROVE  (\E k \in Displays(t, i)' : \A l \in Displays(t, j)' : k < l) <=>
                   (\E k \in DOMAIN shown'[t] :
                       shown'[t][k] = i /\ \A l \in DOMAIN shown'[t] : shown'[t][l] = j => k < l)
        BY DEF Displays
      <4>2. QED BY <4>1, DisplayedNext DEF OrderOf
    <3>2. QED BY <3>1 DEF InOrder
  <2>3. QED BY <2>1, <2>2
<1>4. QED BY <1>1, <1>2, <1>3, CarriedStep, DispatchedStep DEF OrderInv

\* Neither a failed, refused, repeated or timed-out send, nor a stop, a crash or a rebind
\* makes the bot pass over output its recipient has not seen: what the session's offset
\* or the recipient's offset has passed has been displayed.
THEOREM NothingIsLost ==
    ASSUME OneRecipient, OneMessagePerLine
    PROVE  Spec => []NothingLost
<1>1. Init => OrderInv
  BY OrderInit
<1>2. OrderInv /\ [Next]_vars => OrderInv'
  BY OrderStep
<1>3. OrderInv => NothingLost
  BY DEF OrderInv
<1>4. QED BY <1>1, <1>2, <1>3, PTL DEF Spec

\* Whatever is sent again after a failure, a flood ban, a timeout or a restart, an entry
\* is first displayed after everything that precedes it in the transcript.
THEOREM ShownInOrder ==
    ASSUME OneRecipient, OneMessagePerLine
    PROVE  Spec => []InOrder
<1>1. Init => OrderInv
  BY OrderInit
<1>2. OrderInv /\ [Next]_vars => OrderInv'
  BY OrderStep
<1>3. OrderInv => InOrder
  BY DEF OrderInv
<1>4. QED BY <1>1, <1>2, <1>3, PTL DEF Spec

\* A message that handle_new_message passes over as already delivered has been displayed.
\* The run LineSkip shows what happens when two messages share a line.
THEOREM SkippedWasShown ==
    ASSUME OneRecipient, OneMessagePerLine
    PROVE  Spec => []SkippedWasReceived
<1>1. Init => OrderInv
  BY OrderInit
<1>2. OrderInv /\ [Next]_vars => OrderInv'
  BY OrderStep
<1>3. OrderInv => SkippedWasReceived
  <2> SUFFICES ASSUME OrderInv, NEW t \in mon.todo, mon.pc = "call",
                      Kind(Current) \in {"content", "ask"}, AlreadyDelivered(t, Current)
               PROVE  Displayed(t, Current)
    BY DEF SkippedWasReceived
  <2>1. Typed /\ t \in Topics /\ Current \in Ids
    BY InHandIs DEF OrderInv, FutureInv, Typed, Monitors
  <2>2. Current \in Contents /\ NothingLost
    BY <2>1 DEF Contents, OrderInv
  <2>3. QED BY <2>1, <2>2, DeliveredIsShown
<1>4. QED BY <1>1, <1>2, <1>3, PTL DEF Spec

-------------------------------------------------------------------------------
(* Repeats: how often an entry is displayed.                                *)

\* Tasks of a queue that carry an entry, and whether the worker's is still to be displayed.
Pending(q) == {k \in DOMAIN q : q[k].ids # <<>>}
Unsent(w) == w.pc \in {"flood", "send"} /\ w.task.ids # <<>>
One(b) == IF b THEN 1 ELSE 0
\* The copies of entries a topic was given: those it shows and those on their way.
Issued(sh, q, w) == Len(sh) + Cardinality(Pending(q)) + One(Unsent(w))
Given(sh, q, w, i) ==
    \/ Has(sh, i)
    \/ \E k \in DOMAIN q : q[k].ids = <<i>>
    \/ Unsent(w) /\ w.task.ids = <<i>>
\* What is given in s and q2 of what is in q.
KeepsIds(q, q2) ==
    \A k \in DOMAIN q : q[k].ids # <<>> => \E l \in DOMAIN q2 : q2[l].ids = q[k].ids

LEMMA PendingIs ==
    ASSUME NEW q \in Seq(Tasks)
    PROVE  /\ Pending(q) \in SUBSET Nat /\ IsFiniteSet(Pending(q))
           /\ Cardinality(Pending(q)) \in Nat
<1>1. Len(q) \in Nat /\ DOMAIN q = 1..Len(q)
  BY LenProperties
<1>2. IsFiniteSet(1..Len(q)) /\ Pending(q) \in SUBSET (1..Len(q))
  BY <1>1, FS_Interval DEF Pending
<1>3. QED BY <1>2, FS_Subset, FS_CardinalityType

LEMMA PendingAppended ==
    ASSUME NEW q \in Seq(Tasks), NEW task \in Tasks
    PROVE  /\ Cardinality(Pending(Append(q, task))) = Cardinality(Pending(q)) + One(task.ids # <<>>)
           /\ KeepsIds(q, Append(q, task))
           /\ \E l \in DOMAIN Append(q, task) : Append(q, task)[l] = task
<1> DEFINE s == Append(q, task)
<1>1. /\ Len(q) \in Nat /\ DOMAIN q = 1..Len(q) /\ s \in Seq(Tasks)
      /\ DOMAIN s = 1..Len(q) + 1 /\ s[Len(q) + 1] = task
      /\ \A k \in 1..Len(q) : s[k] = q[k]
  OBVIOUS
<1> HIDE DEF s
<1>2. \A k : k \in 1..Len(q) + 1 <=> k = Len(q) + 1 \/ k \in 1..Len(q)
  BY <1>1
<1>3. KeepsIds(q, s) /\ \E l \in DOMAIN s : s[l] = task
  BY <1>1, <1>2 DEF KeepsIds
<1>4. Cardinality(Pending(s)) = Cardinality(Pending(q)) + One(task.ids # <<>>)
  <2>1. CASE task.ids = <<>>
    <3>1. Pending(s) = Pending(q)
      BY <1>1, <1>2, <2>1 DEF Pending
    <3>2. QED BY <2>1, <3>1, PendingIs DEF One
  <2>2. CASE task.ids # <<>>
    <3>1. Pending(s) = Pending(q) \cup {Len(q) + 1}
      BY <1>1, <1>2, <2>2 DEF Pending
    <3>2. Len(q) + 1 \notin Pending(q)
      BY <1>1 DEF Pending
    <3>3. QED BY <2>2, <3>1, <3>2, PendingIs, FS_AddElement DEF One
  <2>3. QED BY <2>1, <2>2
<1>5. QED BY <1>3, <1>4 DEF s

\* The tasks of q2 are those of q that follow the first n.
LEMMA PendingShifted ==
    ASSUME NEW q \in Seq(Tasks), NEW q2 \in Seq(Tasks), NEW n \in Nat,
           \A k \in DOMAIN q2 : k + n \in DOMAIN q /\ q2[k] = q[k + n]
    PROVE  Cardinality(Pending(q2)) <= Cardinality({k \in Pending(q) : k > n})
<1> DEFINE S == Pending(q2)
           T == {k \in Pending(q) : k > n}
           f == [k \in S |-> k + n]
<1>1. S \in SUBSET Nat /\ Pending(q) \in SUBSET Nat /\ IsFiniteSet(Pending(q))
  BY PendingIs
<1>2. IsFiniteSet(T)
  BY <1>1, FS_Subset
<1>3. ASSUME NEW k \in S PROVE k + n \in T
  <2>1. k \in DOMAIN q2 /\ q2[k].ids # <<>> /\ k \in 1..Len(q2)
    BY LenProperties DEF Pending
  <2>2. QED BY <2>1 DEF Pending
<1>4. f \in [S -> T]
  BY <1>3
<1>5. \A k, l \in S : f[k] = f[l] => k = l
  BY <1>1
<1>6. f \in Injection(S, T)
  BY <1>4, <1>5 DEF Injection, IsInjective
<1> HIDE DEF f, S, T
<1>7. Cardinality(S) <= Cardinality(T)
  BY <1>2, <1>6, FS_Injection
<1>8. QED BY <1>7 DEF S, T

LEMMA PendingTail ==
    ASSUME NEW q \in Seq(Tasks), q # <<>>
    PROVE  /\ Cardinality(Pending(Tail(q))) + One(Head(q).ids # <<>>) <= Cardinality(Pending(q))
           /\ \A k \in DOMAIN q : q[k].ids # <<>> =>
                 q[k].ids = Head(q).ids \/ \E l \in DOMAIN Tail(q) : Tail(q)[l].ids = q[k].ids
<1>1. Len(q) \in Nat \ {0} /\ DOMAIN q = 1..Len(q)
  BY EmptySeq, LenProperties
<1>2. /\ Tail(q) \in Seq(Tasks) /\ DOMAIN Tail(q) = 1..Len(q) - 1
      /\ Head(q) = q[1] /\ Head(q) \in Tasks
      /\ \A k \in 1..Len(q) - 1 : k + 1 \in DOMAIN q /\ Tail(q)[k] = q[k + 1]
  BY <1>1
<1>3. ASSUME NEW k \in DOMAIN q, k # 1 PROVE \E l \in DOMAIN Tail(q) : Tail(q)[l] = q[k]
  <2>1. k - 1 \in 1..Len(q) - 1 /\ (k - 1) + 1 = k
    BY <1>1, <1>3
  <2>2. QED BY <1>2, <2>1
<1>4. {k \in Pending(q) : k > 1} = Pending(q) \ {1}
  BY <1>1 DEF Pending
<1>5. Cardinality(Pending(Tail(q))) <= Cardinality(Pending(q) \ {1})
  <2>1. \A k \in DOMAIN Tail(q) : k + 1 \in DOMAIN q /\ Tail(q)[k] = q[k + 1]
    BY <1>2
  <2>2. Cardinality(Pending(Tail(q))) <= Cardinality({k \in Pending(q) : k > 1})
    BY <1>2, <2>1, PendingShifted
  <2>3. QED BY <1>4, <2>2
<1>6. Cardinality(Pending(q) \ {1}) =
         IF 1 \in Pending(q) THEN Cardinality(Pending(q)) - 1 ELSE Cardinality(Pending(q))
  BY PendingIs, FS_RemoveElement
<1>7. 1 \in Pending(q) <=> Head(q).ids # <<>>
  BY <1>1, <1>2 DEF Pending
<1>8. Cardinality(Pending(q)) \in Nat /\ Cardinality(Pending(Tail(q))) \in Nat
  BY <1>2, PendingIs
<1>9. Cardinality(Pending(Tail(q))) + One(Head(q).ids # <<>>) <= Cardinality(Pending(q))
  BY <1>5, <1>6, <1>7, <1>8 DEF One
<1>10. QED BY <1>2, <1>3, <1>9

\* What a worker merges into its task carries nothing.
LEMMA PendingRest ==
    ASSUME NEW q \in Seq(Tasks), NEW n \in 0..Len(q), \A k \in 1..n : q[k].ids = <<>>
    PROVE  /\ Cardinality(Pending(SubSeq(q, n + 1, Len(q)))) <= Cardinality(Pending(q))
           /\ KeepsIds(q, SubSeq(q, n + 1, Len(q)))
<1> DEFINE s == SubSeq(q, n + 1, Len(q))
<1>1. Len(q) \in Nat /\ DOMAIN q = 1..Len(q) /\ n \in Nat /\ n <= Len(q)
  BY LenProperties
<1>2. /\ s \in Seq(Tasks) /\ DOMAIN s = 1..Len(q) - n
      /\ \A k \in 1..Len(q) - n : k + n \in DOMAIN q /\ s[k] = q[k + n]
  BY SuffixIs
<1> HIDE DEF s
<1>3. KeepsIds(q, s)
  <2> SUFFICES ASSUME NEW k \in DOMAIN q, q[k].ids # <<>>
               PROVE  \E l \in DOMAIN s : s[l].ids = q[k].ids
    BY DEF KeepsIds
  <2>1. k \notin 1..n
    OBVIOUS
  <2>2. k - n \in 1..Len(q) - n /\ (k - n) + n = k
    BY <1>1, <2>1
  <2>3. QED BY <1>2, <2>2
<1>4. Cardinality(Pending(s)) <= Cardinality(Pending(q))
  <2> DEFINE T == {k \in Pending(q) : k > n}
  <2>1. Cardinality(Pending(s)) <= Cardinality(T)
    BY <1>1, <1>2, PendingShifted
  <2>2. Cardinality(T) <= Cardinality(Pending(q)) /\ IsFiniteSet(T)
    BY PendingIs, FS_Subset
  <2>3. /\ Cardinality(T) \in Nat /\ Cardinality(Pending(s)) \in Nat
        /\ Cardinality(Pending(q)) \in Nat
    BY <1>2, <2>2, PendingIs, FS_CardinalityType
  <2> HIDE DEF T
  <2>4. QED BY <2>1, <2>2, <2>3
<1>5. QED BY <1>3, <1>4 DEF s

LEMMA PendingOrphaned ==
    ASSUME NEW q \in Seq(Tasks)
    PROVE  /\ Pending([k \in DOMAIN q |-> Orphaned(q[k])]) = Pending(q)
           /\ \A k \in DOMAIN q : [l \in DOMAIN q |-> Orphaned(q[l])][k].ids = q[k].ids
<1>1. \A k \in DOMAIN q : q[k] \in Tasks
  OBVIOUS
<1>2. \A k \in DOMAIN q : Orphaned(q[k]).ids = q[k].ids
  BY <1>1, OrphanedIs
<1>3. QED BY <1>2 DEF Pending

\* A task carries an entry, and then somebody waited for it once, or nothing.
Entries(task) == task.ids = <<>> \/ (task.fut # "none" /\ \E x \in Contents : task.ids = <<x>>)
\* What a topic shows and is given are entries that are content; a task somebody waits for
\* has the generation (gen) that was looked up for it; what was sent is displayed.
CarryOf(sh, q, w, gen) ==
    /\ \A k \in DOMAIN q : Entries(q[k]) /\ (IsLive(q[k]) => q[k].gen = gen)
    /\ Entries(w.task) /\ (IsLive(w.task) => w.task.gen = gen)
    /\ \A k \in DOMAIN sh : sh[k] \in Contents
    /\ w.pc = "after" => \A i : w.task.ids = <<i>> => Has(sh, i)

\* A topic is given no entry it was not given before.
NoNew(sh, q, w, sh2, q2, w2) == \A i : Given(sh2, q2, w2, i) => Given(sh, q, w, i)
\* It keeps all, with at most n copies more.
Keeps(sh, q, w, sh2, q2, w2, n) ==
    /\ \A i : Given(sh, q, w, i) => Given(sh2, q2, w2, i)
    /\ Issued(sh2, q2, w2) <= Issued(sh, q, w) + n
\* It loses a copy.
Loses(sh, q, w, sh2, q2, w2) ==
    /\ \E x : \A i : Given(sh, q, w, i) /\ i # x => Given(sh2, q2, w2, i)
    /\ Issued(sh2, q2, w2) + 1 <= Issued(sh, q, w)

LEMMA IssuedIs ==
    ASSUME NEW sh \in Seq(Ids), NEW q \in Seq(Tasks), NEW w
    PROVE  /\ Issued(sh, q, w) \in Nat /\ Len(sh) \in Nat /\ Cardinality(Pending(q)) \in Nat
           /\ One(Unsent(w)) \in {0, 1}
<1>1. Len(sh) \in Nat
  BY LenProperties
<1>2. Cardinality(Pending(q)) \in Nat
  BY PendingIs
<1>3. One(Unsent(w)) \in {0, 1}
  BY DEF One
<1>4. QED BY <1>1, <1>2, <1>3 DEF Issued

LEMMA RestingIs == /\ ~Unsent(Resting) /\ Resting.task.ids = <<>> /\ Resting.pc = "idle"
                   /\ Resting.task.fut = "none" /\ Entries(Resting.task) /\ ~IsLive(Resting.task)
BY DEF Resting, Task, Unsent, Entries, IsLive

\* A worker that ends its task.
LEMMA EndIssued ==
    ASSUME NEW sh \in Seq(Ids), NEW q \in Seq(Tasks), NEW w, Entries(w.task)
    PROVE  /\ NoNew(sh, q, w, sh, q, Resting)
           /\ Keeps(sh, q, w, sh, q, Resting, 0) \/ Loses(sh, q, w, sh, q, Resting)
<1>1. NoNew(sh, q, w, sh, q, Resting)
  BY RestingIs DEF NoNew, Given
<1>2. Issued(sh, q, Resting) = Len(sh) + Cardinality(Pending(q)) /\ Issued(sh, q, w) \in Nat
      /\ Len(sh) \in Nat /\ Cardinality(Pending(q)) \in Nat
  BY RestingIs, IssuedIs DEF Issued, One
<1>3. CASE ~Unsent(w)
  <2>1. Issued(sh, q, w) = Len(sh) + Cardinality(Pending(q))
    BY <1>2, <1>3 DEF Issued, One
  <2>2. QED BY <1>1, <1>2, <1>3, <2>1 DEF Keeps, Given
<1>4. CASE Unsent(w)
  <2>1. Issued(sh, q, w) = Len(sh) + Cardinality(Pending(q)) + 1
    BY <1>2, <1>4 DEF Issued, One
  <2>2. PICK x : w.task.ids = <<x>>
    BY <1>4 DEF Entries, Unsent
  <2>3. \A i : Given(sh, q, w, i) /\ i # x => Given(sh, q, Resting, i)
    BY <2>2 DEF Given
  <2>4. QED BY <1>1, <1>2, <2>1, <2>3 DEF Loses
<1>5. QED BY <1>1, <1>3, <1>4

\* A worker that takes task out of what it and its queue have, leaving q2.
Takes(sh, q, w, task, q2) ==
    /\ Cardinality(Pending(q2)) + One(task.ids # <<>>) <= Cardinality(Pending(q)) + One(Unsent(w))
    /\ \A i : (\E k \in DOMAIN q2 : q2[k].ids = <<i>>) \/ task.ids = <<i>> => Given(sh, q, w, i)
    /\ \A i : Given(sh, q, w, i) =>
          Has(sh, i) \/ task.ids = <<i>> \/ \E k \in DOMAIN q2 : q2[k].ids = <<i>>

LEMMA TakesIssued ==
    ASSUME NEW sh \in Seq(Ids), NEW q \in Seq(Tasks), NEW w, NEW q2 \in Seq(Tasks),
           NEW task \in Tasks, Entries(task), Takes(sh, q, w, task, q2), NEW w2,
           w2 = Resting \/ (w2.pc \in {"flood", "send"} /\ w2.task = task)
    PROVE  /\ NoNew(sh, q, w, sh, q2, w2)
           /\ Keeps(sh, q, w, sh, q2, w2, 0) \/ Loses(sh, q, w, sh, q2, w2)
<1>1. /\ Issued(sh, q, w) = Len(sh) + Cardinality(Pending(q)) + One(Unsent(w))
      /\ Len(sh) \in Nat /\ Cardinality(Pending(q)) \in Nat /\ One(Unsent(w)) \in {0, 1}
  BY IssuedIs DEF Issued
<1>2. Cardinality(Pending(q2)) \in Nat
  BY PendingIs
<1> DEFINE held == [pc |-> "send", task |-> task]
<1>3. NoNew(sh, q, w, sh, q2, held) /\ Keeps(sh, q, w, sh, q2, held, 0)
  <2>1. \A i : Given(sh, q2, held, i) <=> Given(sh, q, w, i)
    <3>1. \A i : <<i>> # <<>>
      OBVIOUS
    <3>2. held.task = task /\ held.pc = "send"
      OBVIOUS
    <3>3. \A i : Unsent(held) /\ held.task.ids = <<i>> <=> task.ids = <<i>>
      BY <3>1, <3>2 DEF Unsent
    <3>4. \A i : Has(sh, i) => Given(sh, q, w, i)
      BY DEF Given
    <3> HIDE DEF held
    <3>5. QED BY <3>3, <3>4 DEF Takes, Given
  <2>2. Unsent(held) <=> task.ids # <<>>
    BY DEF Unsent
  <2>3. Issued(sh, q2, held) = Len(sh) + Cardinality(Pending(q2)) + One(task.ids # <<>>)
    BY <2>2 DEF Issued, One
  <2>4. One(task.ids # <<>>) \in {0, 1}
    BY DEF One
  <2>5. Issued(sh, q2, held) <= Issued(sh, q, w) + 0
    BY <1>1, <1>2, <2>3, <2>4 DEF Takes
  <2>6. QED BY <2>1, <2>5 DEF NoNew, Keeps
<1>4. CASE w2 # Resting
  <2>1. \A i : Given(sh, q2, w2, i) <=> Given(sh, q2, held, i)
    BY <1>4 DEF Given, Unsent
  <2>2. Issued(sh, q2, w2) = Issued(sh, q2, held)
    BY <1>4 DEF Issued, Unsent
  <2>3. QED BY <1>3, <2>1, <2>2 DEF NoNew, Keeps
<1>5. CASE w2 = Resting
  <2>1. Entries(held.task)
    OBVIOUS
  <2> HIDE DEF held
  <2>2. NoNew(sh, q2, held, sh, q2, w2)
        /\ (Keeps(sh, q2, held, sh, q2, w2, 0) \/ Loses(sh, q2, held, sh, q2, w2))
    BY <1>5, <2>1, EndIssued
  <2>3. Issued(sh, q2, held) \in Nat /\ Issued(sh, q2, w2) \in Nat /\ Issued(sh, q, w) \in Nat
    BY IssuedIs
  <2>4. NoNew(sh, q, w, sh, q2, w2)
    BY <1>3, <2>2 DEF NoNew
  <2>5. CASE Keeps(sh, q2, held, sh, q2, w2, 0)
    BY <1>3, <2>3, <2>4, <2>5 DEF Keeps
  <2>6. CASE Loses(sh, q2, held, sh, q2, w2)
    BY <1>3, <2>3, <2>4, <2>6 DEF Keeps, Loses
  <2>7. QED BY <2>2, <2>4, <2>5, <2>6
<1>6. QED BY <1>4, <1>5

LEMMA BeginTakes ==
    ASSUME NEW t \in Topics, NEW task \in Tasks, NEW rest \in Seq(Tasks), Begin(t, task, rest),
           \A k \in DOMAIN rest : Entries(rest[k])
    PROVE  \E q2 \in Seq(Tasks) :
              /\ From(rest, q2) /\ KeepsIds(rest, q2)
              /\ Cardinality(Pending(q2)) <= Cardinality(Pending(rest))
              /\ queue' = [queue EXCEPT ![t] = q2]
              /\ \/ /\ mon' = mon
                    /\ worker' = [worker EXCEPT ![t] = [pc |-> "send", task |-> task]]
                 \/ Finish(t, task, "failed") /\ task.gen # route[t]
<1> DEFINE n == Mergeable(task, rest)
           q2 == SubSeq(rest, n + 1, Len(rest))
<1>1. n \in 0..Len(rest) /\ \A k \in 1..n : CanMerge(task, rest[k])
  BY MergeableIs
<1>2. \A k \in 1..n : k \in DOMAIN rest /\ ~IsLive(rest[k]) /\ rest[k].ids = <<>>
  <2>1. Len(rest) \in Nat /\ DOMAIN rest = 1..Len(rest)
    BY LenProperties
  <2>2. \A k \in 1..n : k \in DOMAIN rest
    BY <1>1, <2>1
  <2>3. QED BY <1>1, <2>2 DEF CanMerge, IsLive, Entries
<1>3. queue' = [queue EXCEPT ![t] = q2]
      /\ \/ mon' = mon /\ worker' = [worker EXCEPT ![t] = [pc |-> "send", task |-> task]]
         \/ Finish(t, task, "failed") /\ task.gen # route[t]
  BY DEF Begin
<1> HIDE DEF n
<1>4. /\ q2 \in Seq(Tasks) /\ From(rest, q2) /\ KeepsIds(rest, q2)
      /\ Cardinality(Pending(q2)) <= Cardinality(Pending(rest))
  BY <1>1, <1>2, RestOf, PendingRest
<1>5. QED BY <1>3, <1>4

CarryOk == \A t \in Topics : CarryOf(shown[t], queue[t], worker[t], mon.gen)

LEMMA StartTakes ==
    ASSUME Typed, CarryOk, NEW t \in Topics, Take(t) \/ FloodOver(t)
    PROVE  \E task \in Tasks, q2 \in Seq(Tasks) :
              /\ queue' = [queue EXCEPT ![t] = q2] /\ From(queue[t], q2) /\ Entries(task)
              /\ task = worker[t].task \/ \E k \in DOMAIN queue[t] : task = queue[t][k]
              /\ Takes(shown[t], queue[t], worker[t], task, q2)
              /\ \/ /\ mon' = mon
                    /\ \E pc \in {"flood", "send"} :
                          worker' = [worker EXCEPT ![t] = [pc |-> pc, task |-> task]]
                 \/ Finish(t, task, "failed") /\ task.gen # route[t]
                 \/ Finish(t, task, "refused") /\ Quarantined(t)
<1> DEFINE q == queue[t]
           w == worker[t]
<1>1. /\ q \in Seq(Tasks) /\ w \in Workers /\ w.task \in Tasks
      /\ \A k \in DOMAIN q : Entries(q[k])
      /\ Entries(w.task)
  BY DEF Typed, Workers, CarryOk, CarryOf
<1>2. Cardinality(Pending(q)) \in Nat
  BY <1>1, PendingIs
<1>3. CASE Take(t)
  <2> DEFINE task == Head(q)
             rest == Tail(q)
  <2>1. q # <<>> /\ w.pc = "idle"
    BY <1>3 DEF Take
  <2>2. /\ rest \in Seq(Tasks) /\ task \in Tasks /\ From(q, rest)
        /\ \E k \in DOMAIN q : task = q[k]
    BY <1>1, <2>1, TailOf
  <2>3. /\ Cardinality(Pending(rest)) + One(task.ids # <<>>) <= Cardinality(Pending(q))
        /\ \A k \in DOMAIN q : q[k].ids # <<>> =>
              q[k].ids = task.ids \/ \E l \in DOMAIN rest : rest[l].ids = q[k].ids
    BY <1>1, <2>1, PendingTail
  <2>4. /\ Entries(task) /\ \A k \in DOMAIN rest : Entries(rest[k])
        /\ Cardinality(Pending(rest)) \in Nat
    BY <1>1, <2>2, PendingIs DEF From
  <2>5. ~Unsent(w) /\ One(Unsent(w)) = 0
    BY <2>1 DEF Unsent, One
  <2>6. \/ Finish(t, task, "refused") /\ Quarantined(t) /\ queue' = [queue EXCEPT ![t] = rest]
        \/ /\ worker' = [worker EXCEPT ![t] = [pc |-> "flood", task |-> task]]
           /\ queue' = [queue EXCEPT ![t] = rest] /\ mon' = mon
        \/ Begin(t, task, rest)
    BY <1>3 DEF Take
  <2>7. ASSUME NEW q2 \in Seq(Tasks), From(rest, q2), KeepsIds(rest, q2),
               Cardinality(Pending(q2)) <= Cardinality(Pending(rest))
        PROVE  From(q, q2) /\ Takes(shown[t], q, w, task, q2)
    <3>1. From(q, q2)
      BY <2>2, <2>7 DEF From
    <3>2. Cardinality(Pending(q2)) \in Nat /\ One(task.ids # <<>>) \in {0, 1}
      BY PendingIs DEF One
    <3>3. Cardinality(Pending(q2)) + One(task.ids # <<>>) <= Cardinality(Pending(q)) + One(Unsent(w))
      BY <1>2, <2>3, <2>4, <2>5, <2>7, <3>2
    <3>4. \A i : (\E k \in DOMAIN q2 : q2[k].ids = <<i>>) \/ task.ids = <<i>> =>
             \E k \in DOMAIN q : q[k].ids = <<i>>
      BY <2>2, <3>1 DEF From
    <3>5. \A i : <<i>> # <<>>
      OBVIOUS
    <3>6. \A i : (\E k \in DOMAIN q : q[k].ids = <<i>>) =>
             task.ids = <<i>> \/ \E k \in DOMAIN q2 : q2[k].ids = <<i>>
      BY <2>3, <2>7, <3>5 DEF KeepsIds
    <3> HIDE DEF task, rest, q, w
    <3>7. QED BY <2>5, <3>1, <3>3, <3>4, <3>6 DEF Takes, Given
  <2> HIDE DEF task, rest, q, w
  <2>8. CASE Begin(t, task, rest)
    <3>1. PICK q2 \in Seq(Tasks) :
              /\ From(rest, q2) /\ KeepsIds(rest, q2)
              /\ Cardinality(Pending(q2)) <= Cardinality(Pending(rest))
              /\ queue' = [queue EXCEPT ![t] = q2]
              /\ \/ /\ mon' = mon
                    /\ worker' = [worker EXCEPT ![t] = [pc |-> "send", task |-> task]]
                 \/ Finish(t, task, "failed") /\ task.gen # route[t]
      BY <2>2, <2>4, <2>8, BeginTakes
    <3>2. From(q, q2) /\ Takes(shown[t], q, w, task, q2)
      BY <2>7, <3>1
    <3>3. QED BY <2>2, <2>4, <3>1, <3>2 DEF q, w
  <2>9. CASE ~Begin(t, task, rest)
    <3>1. From(rest, rest) /\ KeepsIds(rest, rest)
      BY DEF From, KeepsIds
    <3>2. Takes(shown[t], q, w, task, rest)
      BY <2>2, <2>4, <2>7, <3>1
    <3>3. QED BY <2>2, <2>4, <2>6, <2>9, <3>2 DEF q, w
  <2>10. QED BY <2>8, <2>9
<1>4. CASE FloodOver(t)
  <2>1. Begin(t, w.task, q) /\ w.pc = "flood"
    BY <1>4 DEF FloodOver
  <2> HIDE DEF q, w
  <2>2. PICK q2 \in Seq(Tasks) :
              /\ From(q, q2) /\ KeepsIds(q, q2)
              /\ Cardinality(Pending(q2)) <= Cardinality(Pending(q))
              /\ queue' = [queue EXCEPT ![t] = q2]
              /\ \/ /\ mon' = mon
                    /\ worker' = [worker EXCEPT ![t] = [pc |-> "send", task |-> w.task]]
                 \/ Finish(t, w.task, "failed") /\ w.task.gen # route[t]
    BY <1>1, <2>1, BeginTakes
  <2>3. Unsent(w) <=> w.task.ids # <<>>
    BY <2>1 DEF Unsent
  <2>4. Takes(shown[t], q, w, w.task, q2)
    <3>1. Cardinality(Pending(q2)) \in Nat /\ One(Unsent(w)) = One(w.task.ids # <<>>)
          /\ One(Unsent(w)) \in {0, 1}
      BY <2>3, PendingIs DEF One
    <3>2. Cardinality(Pending(q2)) + One(w.task.ids # <<>>) <= Cardinality(Pending(q)) + One(Unsent(w))
      BY <1>2, <2>2, <3>1
    <3>3. \A i : <<i>> # <<>>
      OBVIOUS
    <3>4. \A i : (\E k \in DOMAIN q2 : q2[k].ids = <<i>>) <=> \E k \in DOMAIN q : q[k].ids = <<i>>
      BY <2>2, <3>3 DEF From, KeepsIds
    <3>5. \A i : Unsent(w) /\ w.task.ids = <<i>> <=> w.task.ids = <<i>>
      BY <2>3, <3>3
    <3>6. QED BY <3>2, <3>4, <3>5 DEF Takes, Given
  <2>5. QED BY <1>1, <2>2, <2>4 DEF q, w
<1>5. QED BY <1>3, <1>4

\* A worker step of t: what it does to the copies of t, and to nothing else.
Moves(t, n) ==
    /\ CarryOf(shown'[t], queue'[t], worker'[t], mon'.gen)
    /\ NoNew(shown[t], queue[t], worker[t], shown'[t], queue'[t], worker'[t])
    /\ \/ Keeps(shown[t], queue[t], worker[t], shown'[t], queue'[t], worker'[t], n)
       \/ Loses(shown[t], queue[t], worker[t], shown'[t], queue'[t], worker'[t])

LEMMA FinishKeeps ==
    ASSUME Typed, NEW t \in Topics, NEW task \in Tasks, NEW r \in Answers, Finish(t, task, r)
    PROVE  /\ worker' \in [Topics -> Workers] /\ worker'[t] = Resting
           /\ mon' = [mon EXCEPT !.answer = mon'.answer] /\ mon'.gen = mon.gen
           /\ \A u \in Topics \ {t} : worker'[u] = worker[u]
<1>1. /\ worker' \in [Topics -> Workers] /\ mon' = [mon EXCEPT !.answer = mon'.answer]
      /\ worker' = [worker EXCEPT ![t] = Resting]
  BY FinishTyped DEF Finish
<1>2. mon'.gen = mon.gen
  BY <1>1 DEF Typed, Monitors
<1>3. QED BY <1>1, <1>2 DEF Typed

LEMMA RestingCarry ==
    ASSUME NEW sh, NEW q, NEW w, NEW gen, CarryOf(sh, q, w, gen)
    PROVE  CarryOf(sh, q, Resting, gen)
BY RestingIs DEF CarryOf

LEMMA TakesCarry ==
    ASSUME NEW sh, NEW q, NEW w, NEW gen, CarryOf(sh, q, w, gen), NEW q2, From(q, q2), NEW task,
           task = w.task \/ (\E k \in DOMAIN q : task = q[k]), NEW w2,
           w2 = Resting \/ (w2.pc \in {"flood", "send"} /\ w2.task = task)
    PROVE  CarryOf(sh, q2, w2, gen)
<1>1. \A k \in DOMAIN q2 : Entries(q2[k]) /\ (IsLive(q2[k]) => q2[k].gen = gen)
  BY DEF CarryOf, From
<1>2. Entries(task) /\ (IsLive(task) => task.gen = gen)
  BY DEF CarryOf
<1>3. QED BY <1>1, <1>2, RestingIs DEF CarryOf

LEMMA EndMoves ==
    ASSUME Typed, CarryOk, NEW t \in Topics, NEW r \in Answers, Finish(t, worker[t].task, r),
           queue' = queue, shown' = shown
    PROVE  /\ Moves(t, 0) /\ mon'.gen = mon.gen
           /\ \A u \in Topics \ {t} : worker'[u] = worker[u]
<1>1. /\ shown[t] \in Seq(Ids) /\ queue[t] \in Seq(Tasks) /\ worker[t].task \in Tasks
      /\ CarryOf(shown[t], queue[t], worker[t], mon.gen) /\ Entries(worker[t].task)
  BY DEF Typed, Workers, CarryOk, CarryOf
<1>2. /\ worker'[t] = Resting /\ mon'.gen = mon.gen
      /\ \A u \in Topics \ {t} : worker'[u] = worker[u]
  BY <1>1, FinishKeeps
<1>3. CarryOf(shown'[t], queue'[t], worker'[t], mon'.gen)
  BY <1>1, <1>2, RestingCarry
<1>4. /\ NoNew(shown[t], queue[t], worker[t], shown[t], queue[t], Resting)
      /\ \/ Keeps(shown[t], queue[t], worker[t], shown[t], queue[t], Resting, 0)
         \/ Loses(shown[t], queue[t], worker[t], shown[t], queue[t], Resting)
  BY <1>1, EndIssued
<1>5. QED BY <1>2, <1>3, <1>4 DEF Moves

LEMMA StartMoves ==
    ASSUME Typed, CarryOk, NEW t \in Topics, Take(t) \/ FloodOver(t)
    PROVE  /\ Moves(t, 0) /\ mon'.gen = mon.gen
           /\ \A u \in Topics \ {t} : worker'[u] = worker[u] /\ queue'[u] = queue[u]
<1>1. PICK task \in Tasks, q2 \in Seq(Tasks) :
              /\ queue' = [queue EXCEPT ![t] = q2] /\ From(queue[t], q2) /\ Entries(task)
              /\ task = worker[t].task \/ \E k \in DOMAIN queue[t] : task = queue[t][k]
              /\ Takes(shown[t], queue[t], worker[t], task, q2)
              /\ \/ /\ mon' = mon
                    /\ \E pc \in {"flood", "send"} :
                          worker' = [worker EXCEPT ![t] = [pc |-> pc, task |-> task]]
                 \/ Finish(t, task, "failed") /\ task.gen # route[t]
                 \/ Finish(t, task, "refused") /\ Quarantined(t)
  BY StartTakes
<1>2. /\ shown[t] \in Seq(Ids) /\ queue[t] \in Seq(Tasks) /\ worker[t] \in Workers
      /\ CarryOf(shown[t], queue[t], worker[t], mon.gen) /\ shown' = shown
  BY DEF Typed, CarryOk, Take, FloodOver
<1>3. /\ mon'.gen = mon.gen /\ \A u \in Topics \ {t} : worker'[u] = worker[u]
      /\ worker'[t] = Resting \/ (worker'[t].pc \in {"flood", "send"} /\ worker'[t].task = task)
  <2>1. CASE \E r \in Answers : Finish(t, task, r)
    BY <2>1, FinishKeeps
  <2>2. ASSUME NEW pc \in {"flood", "send"}, mon' = mon,
               worker' = [worker EXCEPT ![t] = [pc |-> pc, task |-> task]]
        PROVE  /\ mon'.gen = mon.gen /\ \A u \in Topics \ {t} : worker'[u] = worker[u]
               /\ worker'[t].pc \in {"flood", "send"} /\ worker'[t].task = task
    BY <2>2 DEF Typed
  <2>3. QED BY <1>1, <2>1, <2>2 DEF Answers
<1>4. queue'[t] = q2 /\ \A u \in Topics \ {t} : queue'[u] = queue[u]
  BY <1>1 DEF Typed
<1>5. CarryOf(shown[t], q2, worker'[t], mon.gen)
  BY <1>1, <1>2, <1>3, TakesCarry
<1>6. /\ NoNew(shown[t], queue[t], worker[t], shown[t], q2, worker'[t])
      /\ \/ Keeps(shown[t], queue[t], worker[t], shown[t], q2, worker'[t], 0)
         \/ Loses(shown[t], queue[t], worker[t], shown[t], q2, worker'[t])
  BY <1>1, <1>2, <1>3, TakesIssued
<1>7. QED BY <1>2, <1>3, <1>4, <1>5, <1>6 DEF Moves

LEMMA DisplayMoves ==
    ASSUME Typed, CarryOk, NEW t \in Topics, Display(t)
    PROVE  /\ \/ Moves(t, 0) /\ faults' = faults
              \/ Moves(t, 1) /\ faults' = faults + 1
           /\ \A u \in Topics \ {t} : worker'[u] = worker[u] /\ shown'[u] = shown[u]
           /\ worker'[t].pc = "after" /\ worker[t].pc = "send"
<1> DEFINE sh == shown[t]
           q == queue[t]
           w == worker[t]
           ids == w.task.ids
<1>1. /\ sh \in Seq(Ids) /\ q \in Seq(Tasks) /\ w \in Workers
      /\ CarryOf(sh, q, w, mon.gen) /\ Contents \subseteq Ids
  BY DEF Typed, CarryOk, Contents
<1>2. /\ queue' = queue /\ mon' = mon /\ w.pc = "send"
      /\ worker'[t].pc = "after" /\ worker'[t].task = w.task
      /\ \A u \in Topics \ {t} : worker'[u] = worker[u] /\ shown'[u] = shown[u]
  BY <1>1 DEF Display, monVars, Typed, Workers
<1>3. \/ faults' = faults /\ shown'[t] = sh \o ids
      \/ faults' = faults + 1 /\ shown'[t] = (sh \o ids) \o ids
  BY DEF Display, Typed, Fault
<1> DEFINE w2 == worker'[t]
           sh2 == shown'[t]
<1>4. ids = <<>> \/ \E x \in Contents : ids = <<x>>
  BY <1>1 DEF CarryOf, Entries
<1>5. ~Unsent(w2) /\ w2.pc = "after" /\ w2.task = w.task
  BY <1>2 DEF Unsent
<1>6. CASE ids = <<>>
  <2>1. sh2 = sh
    BY <1>1, <1>3, <1>6
  <2>2. ~Unsent(w)
    BY <1>6 DEF Unsent
  <2>3. CarryOf(sh, q, w2, mon.gen)
    BY <1>1, <1>5, <1>6 DEF CarryOf
  <2> HIDE DEF w2, sh2, ids
  <2>4. Issued(sh, q, w2) = Issued(sh, q, w) /\ Issued(sh, q, w) \in Nat
    <3>1. One(Unsent(w2)) = 0 /\ One(Unsent(w)) = 0
      BY <1>5, <2>2 DEF One
    <3>2. QED BY <1>1, <3>1, IssuedIs DEF Issued
  <2>5. NoNew(sh, q, w, sh, q, w2) /\ Keeps(sh, q, w, sh, q, w2, 0) /\ Keeps(sh, q, w, sh, q, w2, 1)
    BY <1>5, <2>2, <2>4 DEF NoNew, Keeps, Given
  <2>6. Moves(t, 0) /\ Moves(t, 1)
    BY <1>2, <2>1, <2>3, <2>5 DEF Moves, w2, sh2
  <2>7. QED BY <1>2, <1>3, <2>6
<1>7. ASSUME NEW x \in Contents, ids = <<x>>
      PROVE  \/ Moves(t, 0) /\ faults' = faults
             \/ Moves(t, 1) /\ faults' = faults + 1
  <2> DEFINE s1 == Append(sh, x)
             s2 == Append(s1, x)
  <2>0. x \in Ids
    BY <1>1
  <2>1. /\ s1 \in Seq(Ids) /\ s2 \in Seq(Ids) /\ sh \o ids = s1 /\ s1 \o ids = s2
        /\ Len(s1) = Len(sh) + 1 /\ Len(s2) = Len(sh) + 2
    <3>1. s1 \in Seq(Ids) /\ sh \o <<x>> = s1 /\ Len(s1) = Len(sh) + 1 /\ Len(sh) \in Nat
      BY <1>1, <2>0
    <3>2. s2 \in Seq(Ids) /\ s1 \o <<x>> = s2 /\ Len(s2) = Len(s1) + 1
      BY <2>0, <3>1
    <3>3. QED BY <1>7, <3>1, <3>2
  <2>2. \A i : Has(s1, i) <=> i = x \/ Has(sh, i)
    BY <1>1, <2>0, AppendHas
  <2> HIDE DEF s1
  <2>3. \A i : Has(s2, i) <=> i = x \/ Has(sh, i)
    BY <2>0, <2>1, <2>2, AppendHas
  <2> HIDE DEF s2
  <2>4. Unsent(w)
    BY <1>2, <1>7 DEF Unsent
  <2>5. ASSUME NEW s \in Seq(Ids), NEW n \in {0, 1}, Len(s) = Len(sh) + 1 + n,
               \A i : Has(s, i) <=> i = x \/ Has(sh, i)
        PROVE  /\ NoNew(sh, q, w, s, q, w2) /\ Keeps(sh, q, w, s, q, w2, n)
               /\ CarryOf(s, q, w2, mon.gen)
    <3>1. \A i : ids = <<i>> <=> i = x
      BY <1>7
    <3> HIDE DEF w2, sh2
    <3>2. \A i : Given(s, q, w2, i) <=> Given(sh, q, w, i)
      BY <1>5, <2>4, <2>5, <3>1 DEF Given
    <3>3. \A k \in DOMAIN s : s[k] \in Contents
      <4>1. \A k \in DOMAIN s : s[k] = x \/ Has(sh, s[k])
        BY <2>5 DEF Has
      <4>2. \A i : Has(sh, i) => i \in Contents
        BY <1>1 DEF CarryOf, Has
      <4>3. QED BY <4>1, <4>2
    <3>4. CarryOf(s, q, w2, mon.gen)
      BY <1>1, <1>5, <2>5, <3>1, <3>3 DEF CarryOf
    <3>5. /\ Issued(s, q, w2) = Len(s) + Cardinality(Pending(q))
          /\ Issued(sh, q, w) = Len(sh) + Cardinality(Pending(q)) + 1
          /\ Len(sh) \in Nat /\ Cardinality(Pending(q)) \in Nat
      <4>1. Len(s) \in Nat /\ Len(sh) \in Nat /\ Cardinality(Pending(q)) \in Nat
        BY <1>1, IssuedIs
      <4>2. QED BY <1>5, <2>4, <4>1 DEF Issued, One
    <3>6. Issued(s, q, w2) <= Issued(sh, q, w) + n
      BY <2>5, <3>5
    <3>7. QED BY <3>2, <3>4, <3>6 DEF NoNew, Keeps
  <2>6. Len(sh) \in Nat
    BY <1>1, LenProperties
  <2>7. CASE faults' = faults /\ sh2 = s1
    <3>1. Moves(t, 0)
      <4>1. Len(s1) = Len(sh) + 1 + 0
        BY <2>1, <2>6
      <4>2. QED BY <1>2, <2>1, <2>2, <2>5, <2>7, <4>1 DEF Moves
    <3>2. QED BY <2>7, <3>1
  <2>8. CASE faults' = faults + 1 /\ sh2 = s2
    <3>1. Moves(t, 1)
      <4>1. Len(s2) = Len(sh) + 1 + 1
        BY <2>1, <2>6
      <4>2. QED BY <1>2, <2>1, <2>3, <2>5, <2>8, <4>1 DEF Moves
    <3>2. QED BY <2>8, <3>1
  <2>9. QED BY <1>3, <2>1, <2>7, <2>8
<1>8. QED BY <1>2, <1>4, <1>6, <1>7

\* A task that goes to the end of its queue.
LEMMA RetryMoves ==
    ASSUME Typed, CarryOk, NEW t \in Topics, NEW again \in Tasks, Sending(t),
           again.ids = worker[t].task.ids, again.fut = worker[t].task.fut,
           again.gen = worker[t].task.gen,
           queue' = [queue EXCEPT ![t] = Append(queue[t], again)],
           worker' = [worker EXCEPT ![t] = Resting], mon' = mon, shown' = shown
    PROVE  /\ Moves(t, 1)
           /\ \A u \in Topics \ {t} : worker'[u] = worker[u] /\ queue'[u] = queue[u]
<1> DEFINE sh == shown[t]
           q == queue[t]
           w == worker[t]
           q2 == Append(q, again)
<1>1. /\ sh \in Seq(Ids) /\ q \in Seq(Tasks) /\ w \in Workers
      /\ CarryOf(sh, q, w, mon.gen) /\ q2 \in Seq(Tasks)
  BY DEF Typed, CarryOk
<1>2. /\ queue'[t] = q2 /\ worker'[t] = Resting
      /\ \A u \in Topics \ {t} : worker'[u] = worker[u] /\ queue'[u] = queue[u]
  BY DEF Typed
<1>3. Cardinality(Pending(q2)) = Cardinality(Pending(q)) + One(again.ids # <<>>)
      /\ KeepsIds(q, q2) /\ \E l \in DOMAIN q2 : q2[l] = again
  BY <1>1, PendingAppended
<1>4. \A k \in DOMAIN q2 : q2[k] = again \/ \E l \in DOMAIN q : q2[k] = q[l]
  BY <1>1, AppendTo
<1>5. Entries(again) /\ (IsLive(again) => again.gen = mon.gen)
  BY <1>1 DEF CarryOf, Entries, IsLive
<1> HIDE DEF q2
<1>6. CarryOf(sh, q2, Resting, mon.gen)
  BY <1>1, <1>4, <1>5, RestingIs DEF CarryOf
<1>7. \A i : again.ids = <<i>> => Given(sh, q, w, i)
  <2>1. \A i : <<i>> # <<>>
    OBVIOUS
  <2>2. w.pc = "send" \/ w.pc = "after"
    BY DEF Sending
  <2>3. \A i : again.ids = <<i>> => Has(sh, i) \/ Unsent(w)
    BY <1>1, <2>1, <2>2 DEF CarryOf, Unsent
  <2>4. QED BY <2>3 DEF Given
<1>8. \A i : Given(sh, q2, Resting, i) <=> Given(sh, q, w, i)
  <2>1. \A i : <<i>> # <<>>
    OBVIOUS
  <2>2. \A i : (\E k \in DOMAIN q2 : q2[k].ids = <<i>>) <=>
               again.ids = <<i>> \/ \E k \in DOMAIN q : q[k].ids = <<i>>
    BY <1>3, <1>4, <2>1 DEF KeepsIds
  <2>3. QED BY <1>7, <2>2, RestingIs DEF Given
<1>9. Issued(sh, q2, Resting) <= Issued(sh, q, w) + 1
  <2>1. /\ Len(sh) \in Nat /\ Cardinality(Pending(q)) \in Nat /\ One(Unsent(w)) \in {0, 1}
        /\ One(again.ids # <<>>) \in {0, 1}
    BY <1>1, IssuedIs DEF One
  <2>2. One(Unsent(Resting)) = 0
    BY RestingIs DEF One
  <2>3. QED BY <1>3, <2>1, <2>2 DEF Issued
<1>10. QED BY <1>2, <1>6, <1>8, <1>9 DEF Moves, NoNew, Keeps

\* A worker that warns the user does not send its task.
LEMMA WarnMoves ==
    ASSUME Typed, CarryOk, NEW t \in Topics, worker' = [worker EXCEPT ![t].pc = "warn"],
           queue' = queue, mon' = mon, shown' = shown
    PROVE  /\ Moves(t, 0) /\ worker'[t] = [worker[t] EXCEPT !.pc = "warn"]
           /\ \A u \in Topics \ {t} : worker'[u] = worker[u]
<1> DEFINE sh == shown[t]
           q == queue[t]
           w == worker[t]
           w2 == worker'[t]
<1>1. /\ sh \in Seq(Ids) /\ q \in Seq(Tasks) /\ w \in Workers
      /\ CarryOf(sh, q, w, mon.gen) /\ Entries(w.task)
  BY DEF Typed, CarryOk, CarryOf
<1>2. /\ w2.pc = "warn" /\ w2.task = w.task /\ w2 = [w EXCEPT !.pc = "warn"]
      /\ \A u \in Topics \ {t} : worker'[u] = worker[u]
  BY <1>1 DEF Typed, Workers
<1> HIDE DEF w2
<1>3. CarryOf(sh, q, w2, mon.gen)
  BY <1>1, <1>2 DEF CarryOf
<1>4. ~Unsent(w2)
  BY <1>2 DEF Unsent
<1>5. \A i : Given(sh, q, w2, i) <=> Given(sh, q, Resting, i)
  BY <1>4, RestingIs DEF Given
<1>6. Issued(sh, q, w2) = Issued(sh, q, Resting)
  <2>1. One(Unsent(w2)) = 0 /\ One(Unsent(Resting)) = 0
    BY <1>4, RestingIs DEF One
  <2>2. QED BY <2>1 DEF Issued
<1>7. /\ NoNew(sh, q, w, sh, q, Resting)
      /\ Keeps(sh, q, w, sh, q, Resting, 0) \/ Loses(sh, q, w, sh, q, Resting)
  BY <1>1, EndIssued
<1>8. /\ NoNew(sh, q, w, sh, q, w2)
      /\ Keeps(sh, q, w, sh, q, w2, 0) \/ Loses(sh, q, w, sh, q, w2)
  BY <1>5, <1>6, <1>7 DEF NoNew, Keeps, Loses
<1>9. QED BY <1>2, <1>3, <1>8 DEF Moves, w2

-------------------------------------------------------------------------------
(* What is owed: disturbances that will cost a repeat.                      *)

Quarantines == {t \in Topics : Quarantined(t)}
\* Topics whose quarantine has ended the present group or blocks the session.
Excused == IF stopping THEN {} ELSE IF mon.pc = "settle" THEN {mon.at} ELSE {blocked}
Owing == Quarantines \ Excused
WarnsLive(t) == worker[t].pc = "warn" /\ IsLive(worker[t].task)
\* The message in hand will be handed on again.
Doomed ==
    /\ mon.pc \in InHand
    /\ \/ mon.failed
       \/ /\ mon.pc = "wait"
          /\ \/ mon.answer = "failed"
             \/ mon.answer = "refused" /\ ~Quarantined(mon.at)
             \/ mon.answer = "none" /\ mon.gen # route[mon.at]
             \/ mon.answer = "none" /\ WarnsLive(mon.at) /\ ~Quarantined(mon.at)
Debt == Cardinality(Owing) + One(Doomed)

\* Where the monitor is.
PlaceOk ==
    /\ mon.pc = "next" => ~mon.failed
    /\ mon.pc # "sleep" => blocked = NoTopic /\ ~stopping
    /\ mon.pc = "settle" /\ ~mon.failed => mon.at = NoTopic
    /\ mon.pc \in {"join", "wait"} => mon.at \in mon.todo /\ Current \in Contents

LEMMA RefusalBound == RefusalLimit \in Nat \ {0} /\ NoTopic \notin Topics
<1>1. RefusalLimit \in {RetryLimit, RefusalLimit, GroupLimit, MaxFaults, MaxNotices}
  OBVIOUS
<1>2. RefusalLimit \in Nat /\ RefusalLimit > 0
  BY <1>1, TranscriptAssumption
<1>3. QED BY <1>2, TranscriptAssumption

LEMMA OwingIs ==
    ASSUME IsFiniteSet(Quarantines)
    PROVE  /\ IsFiniteSet(Owing) /\ Cardinality(Owing) \in Nat
           /\ One(Doomed) \in {0, 1} /\ Debt \in Nat
<1>1. Owing \in SUBSET Quarantines
  BY DEF Owing
<1>2. IsFiniteSet(Owing) /\ Cardinality(Owing) \in Nat
  BY <1>1, FS_Subset, FS_CardinalityType
<1>3. One(Doomed) \in {0, 1}
  BY DEF One
<1>4. QED BY <1>2, <1>3 DEF Debt

LEMMA OwingNext ==
    ASSUME IsFiniteSet(Quarantines')
    PROVE  IsFiniteSet(Owing') /\ Cardinality(Owing') \in Nat
<1>1. Owing' \in SUBSET Quarantines'
  BY DEF Owing
<1>2. QED BY <1>1, FS_Subset, FS_CardinalityType

\* Nobody comes to owe: the debt grows only with Doomed.
LEMMA OwesNoMore ==
    ASSUME IsFiniteSet(Quarantines), Owing' \subseteq Owing
    PROVE  /\ Debt' <= Debt + 1
           /\ (Doomed' => Doomed) => Debt' <= Debt
           /\ Owing' # Owing => Debt' <= Debt
           /\ Doomed /\ ~Doomed' => Debt' + 1 <= Debt
           /\ Owing' # Owing /\ (Doomed' => Doomed) => Debt' + 1 <= Debt
<1>1. /\ IsFiniteSet(Owing) /\ Cardinality(Owing) \in Nat
      /\ One(Doomed) \in {0, 1}
  BY OwingIs
<1>2. /\ Cardinality(Owing') <= Cardinality(Owing) /\ IsFiniteSet(Owing')
      /\ Owing' # Owing => Cardinality(Owing') # Cardinality(Owing)
  BY <1>1, FS_Subset
<1>3. Cardinality(Owing') \in Nat
  BY <1>2, FS_CardinalityType
<1>4. Debt = Cardinality(Owing) + One(Doomed)
  BY DEF Debt
<1>5. Debt' = Cardinality(Owing') + One(Doomed')
  BY DEF Debt, One
<1>6. One(Doomed') \in {0, 1} /\ ((Doomed' => Doomed) => One(Doomed') <= One(Doomed))
      /\ (Doomed /\ ~Doomed' => One(Doomed) = 1 /\ One(Doomed') = 0)
  BY DEF One
<1>7. QED BY <1>1, <1>2, <1>3, <1>4, <1>5, <1>6

\* One topic comes to owe.
LEMMA OwesOneMore ==
    ASSUME IsFiniteSet(Quarantines), NEW t, Owing' \subseteq Owing \cup {t}, Doomed' => Doomed
    PROVE  Debt' <= Debt + 1
<1>1. /\ IsFiniteSet(Owing) /\ Cardinality(Owing) \in Nat
      /\ One(Doomed) \in {0, 1}
  BY OwingIs
<1>2. /\ IsFiniteSet(Owing \cup {t}) /\ Cardinality(Owing \cup {t}) <= Cardinality(Owing) + 1
  <2>1. /\ IsFiniteSet(Owing \cup {t})
        /\ Cardinality(Owing \cup {t}) = IF t \in Owing THEN Cardinality(Owing) ELSE Cardinality(Owing) + 1
    BY <1>1, FS_AddElement
  <2>2. QED BY <1>1, <2>1
<1>3. /\ Cardinality(Owing') <= Cardinality(Owing \cup {t}) /\ IsFiniteSet(Owing')
  BY <1>2, FS_Subset
<1>4. Cardinality(Owing') \in Nat /\ Cardinality(Owing \cup {t}) \in Nat
  BY <1>2, <1>3, FS_CardinalityType
<1>5. Debt = Cardinality(Owing) + One(Doomed)
  BY DEF Debt
<1>6. Debt' = Cardinality(Owing') + One(Doomed')
  BY DEF Debt, One
<1>7. One(Doomed') \in {0, 1} /\ One(Doomed') <= One(Doomed)
  BY DEF One
<1>8. QED BY <1>1, <1>2, <1>3, <1>4, <1>5, <1>6, <1>7

LEMMA DoomedStays ==
    ASSUME Typed, mon' = mon, route' = route,
           \A u \in Topics : WarnsLive(u)' /\ ~Quarantined(u)' => WarnsLive(u),
           \A u \in Topics : Quarantined(u) => Quarantined(u)'
    PROVE  Doomed' => Doomed
<1>1. mon.pc = "wait" => mon.at \in Topics
  BY DEF Typed
<1>2. QED BY <1>1 DEF Doomed

LEMMA RefusedSame ==
    ASSUME refused' = refused, stopping' = stopping, blocked' = blocked,
           mon'.pc = mon.pc, mon'.at = mon.at
    PROVE  Quarantines' = Quarantines /\ Owing' = Owing
BY DEF Quarantines, Quarantined, Owing, Excused

\* What the answer of a worker's task is to the monitor.
LEMMA EndDoomed ==
    ASSUME FutureInv, NEW t \in Topics, NEW task \in Tasks, IsLive(task) => Awaited(t),
           NEW r \in Answers, Finish(t, task, r), route' = route
    PROVE  /\ mon' \in Monitors /\ mon'.pc = mon.pc /\ mon'.at = mon.at /\ mon'.failed = mon.failed
           /\ mon'.gen = mon.gen /\ mon'.todo = mon.todo /\ mon'.batch = mon.batch
           /\ mon'.to = mon.to
           /\ ~IsLive(task) => mon' = mon
           /\ IsLive(task) => mon.pc = "wait" /\ mon.at = t /\ mon.answer = "none" /\ mon'.answer = r
           /\ \A u \in Topics : WarnsLive(u)' => WarnsLive(u) /\ u # t
<1>1. Typed /\ mon \in Monitors
  BY DEF FutureInv, Typed
<1>2. /\ mon' \in Monitors /\ mon' = [mon EXCEPT !.answer = mon'.answer]
      /\ ~IsLive(task) => mon' = mon
      /\ IsLive(task) => mon' = [mon EXCEPT !.answer = r]
  BY <1>1, ResolvedIs DEF Finish
<1>3. /\ worker'[t] = Resting /\ \A u \in Topics \ {t} : worker'[u] = worker[u]
  BY <1>1, FinishKeeps
<1>4. \A u \in Topics : WarnsLive(u)' => WarnsLive(u) /\ u # t
  BY <1>3, RestingIs DEF WarnsLive
<1>5. QED BY <1>1, <1>2, <1>4 DEF Awaited, Monitors

\* A worker step changes the monitor's answer at most, and nothing of other topics.
OnlyAnswers ==
    /\ mon'.pc = mon.pc /\ mon'.at = mon.at /\ mon'.failed = mon.failed
    /\ mon'.gen = mon.gen /\ mon'.todo = mon.todo /\ mon'.batch = mon.batch
    /\ mon'.to = mon.to
OnlyAt(t) == \A u \in Topics \ {t} :
    shown'[u] = shown[u] /\ queue'[u] = queue[u] /\ worker'[u] = worker[u]
\* A copy more, or a disturbance that will cost one, is paid by a fault.
Pays(t) ==
    \/ Moves(t, 0) /\ faults' = faults /\ Debt' <= Debt
    \/ Moves(t, 0) /\ faults' = faults + 1 /\ Debt' <= Debt + 1
    \/ Moves(t, 1) /\ faults' = faults + 1 /\ Debt' <= Debt

LEMMA StartPays ==
    ASSUME FutureInv, CarryOk, PlaceOk, IsFiniteSet(Quarantines), NEW t \in Topics,
           Take(t) \/ FloodOver(t)
    PROVE  Pays(t) /\ OnlyAnswers /\ OnlyAt(t) /\ IsFiniteSet(Quarantines')
<1>0. /\ Typed /\ CarryOf(shown[t], queue[t], worker[t], mon.gen)
      /\ route' = route /\ blocked' = blocked /\ stopping' = stopping
      /\ refused' = refused /\ faults' = faults /\ shown' = shown
  BY DEF FutureInv, CarryOk, Take, FloodOver
<1>1. PICK task \in Tasks :
              /\ task = worker[t].task \/ \E k \in DOMAIN queue[t] : task = queue[t][k]
              /\ \/ /\ mon' = mon
                    /\ \E pc \in {"flood", "send"} :
                          worker' = [worker EXCEPT ![t] = [pc |-> pc, task |-> task]]
                 \/ Finish(t, task, "failed") /\ task.gen # route[t]
                 \/ Finish(t, task, "refused") /\ Quarantined(t)
  BY <1>0, StartTakes
<1>2. IsLive(task) => Awaited(t) /\ task.gen = mon.gen
  BY <1>0, <1>1, LiveIsAwaited DEF CarryOf
<1>3. \A u \in Topics : Quarantined(u) <=> Quarantined(u)'
  BY <1>0 DEF Quarantined
<1>4. (Doomed' => Doomed) /\ OnlyAnswers
  <2>1. ASSUME NEW pc \in {"flood", "send"}, mon' = mon,
               worker' = [worker EXCEPT ![t] = [pc |-> pc, task |-> task]]
        PROVE  (Doomed' => Doomed) /\ OnlyAnswers
    <3>1. \A u \in Topics : WarnsLive(u)' => WarnsLive(u)
      BY <1>0, <2>1 DEF WarnsLive, Typed
    <3>2. QED BY <1>0, <1>3, <2>1, <3>1, DoomedStays DEF OnlyAnswers
  <2>2. ASSUME NEW r \in {"failed", "refused"}, Finish(t, task, r),
               r = "failed" => task.gen # route[t],
               r = "refused" => Quarantined(t)
        PROVE  (Doomed' => Doomed) /\ OnlyAnswers
    <3>1. /\ OnlyAnswers
          /\ ~IsLive(task) => mon' = mon
          /\ IsLive(task) => mon.pc = "wait" /\ mon.at = t /\ mon.answer = "none" /\ mon'.answer = r
          /\ \A u \in Topics : WarnsLive(u)' => WarnsLive(u) /\ u # t
      BY <1>0, <1>2, <2>2, EndDoomed DEF Answers, OnlyAnswers
    <3>2. CASE ~IsLive(task)
      BY <1>0, <1>3, <3>1, <3>2, DoomedStays
    <3>3. CASE IsLive(task)
      <4>1. r = "failed" => Doomed
        BY <1>2, <2>2, <3>1, <3>3 DEF Doomed, InHand
      <4>2. r = "refused" => (Doomed' => Doomed)
        BY <1>3, <2>2, <3>1, <3>3 DEF Doomed, OnlyAnswers
      <4>3. QED BY <2>2, <3>1, <4>1, <4>2
    <3>4. QED BY <3>1, <3>2, <3>3
  <2>3. QED BY <1>1, <2>1, <2>2
<1>5. Quarantines' = Quarantines /\ Owing' = Owing
  BY <1>0, <1>4, RefusedSame DEF OnlyAnswers
<1>6. Debt' <= Debt
  BY <1>4, <1>5, OwesNoMore
<1>7. Moves(t, 0) /\ OnlyAt(t)
  BY <1>0, StartMoves DEF OnlyAt
<1>8. QED BY <1>0, <1>4, <1>5, <1>6, <1>7 DEF Pays

\* A worker that ends its task because of a failure.
LEMMA FailurePays ==
    ASSUME FutureInv, CarryOk, IsFiniteSet(Quarantines), NEW t \in Topics,
           NEW r \in Answers, Finish(t, worker[t].task, r), queue' = queue, shown' = shown,
           route' = route, blocked' = blocked, stopping' = stopping, faults' = faults + 1,
           \A u \in Topics : Quarantined(u)' <=> Quarantined(u)
    PROVE  Pays(t) /\ OnlyAnswers /\ OnlyAt(t) /\ IsFiniteSet(Quarantines')
<1>0. Typed /\ worker[t].task \in Tasks /\ (IsLive(worker[t].task) => Awaited(t))
  BY LiveIsAwaited DEF FutureInv, Typed, Workers
<1>1. OnlyAnswers
  BY <1>0, EndDoomed DEF OnlyAnswers
<1>2. Quarantines' = Quarantines
  BY DEF Quarantines
<1>3. Owing' = Owing
  BY <1>1, <1>2 DEF Owing, Excused, OnlyAnswers
<1>4. Debt' <= Debt + 1
  BY <1>3, OwesNoMore
<1>5. Moves(t, 0) /\ OnlyAt(t)
  BY <1>0, EndMoves DEF OnlyAt
<1>6. QED BY <1>1, <1>2, <1>4, <1>5 DEF Pays

\* An entry that is displayed twice, or goes to the end of its queue.
LEMMA RepeatPays ==
    ASSUME FutureInv, IsFiniteSet(Quarantines), NEW t \in Topics, Sending(t), mon' = mon,
           worker' \in [Topics -> Workers], worker'[t].pc \in {"after", "idle"}, OnlyAt(t),
           route' = route, blocked' = blocked, stopping' = stopping, refused' = refused,
           \/ Moves(t, 0) /\ faults' = faults
           \/ Moves(t, 1) /\ faults' = faults + 1
    PROVE  Pays(t) /\ OnlyAnswers /\ IsFiniteSet(Quarantines')
<1>0. Typed
  BY DEF FutureInv
<1>1. \A u \in Topics : (WarnsLive(u)' => WarnsLive(u)) /\ (Quarantined(u) => Quarantined(u)')
  BY DEF WarnsLive, Quarantined, OnlyAt
<1>2. Doomed' => Doomed
  BY <1>0, <1>1, DoomedStays
<1>3. Quarantines' = Quarantines /\ Owing' = Owing
  BY RefusedSame
<1>4. Debt' <= Debt
  BY <1>2, <1>3, OwesNoMore
<1>5. QED BY <1>3, <1>4 DEF Pays, OnlyAnswers

\* The quarantine of t ends.
LEMMA ReleasePays ==
    ASSUME Typed, PlaceOk, IsFiniteSet(Quarantines), NEW t \in Topics,
           refused' = [refused EXCEPT ![t] = 0], OnlyAnswers, stopping' = stopping,
           blocked' = blocked \/ (blocked = t /\ blocked' = NoTopic),
           ~Quarantined(t) => (Doomed' => Doomed)
    PROVE  Debt' <= Debt /\ IsFiniteSet(Quarantines')
<1>1. refused \in [Topics -> Nat] /\ RefusalLimit \in Nat \ {0} /\ NoTopic \notin Topics
  BY RefusalBound DEF Typed
<1>2. \A u \in Topics : Quarantined(u)' <=> Quarantined(u) /\ u # t
  BY <1>1 DEF Quarantined
<1>3. Quarantines' = Quarantines \ {t} /\ Quarantines \subseteq Topics
  BY <1>2 DEF Quarantines
<1>4. IsFiniteSet(Quarantines')
  BY <1>3, FS_Subset
<1>5. Owing' = Owing \ {t}
  BY <1>1, <1>3 DEF Owing, Excused, OnlyAnswers
<1>6. CASE ~Quarantined(t)
  BY <1>4, <1>5, <1>6, OwesNoMore
<1>7. CASE t \in Owing
  BY <1>4, <1>5, <1>7, OwesNoMore
<1>8. CASE Quarantined(t) /\ t \notin Owing
  <2>1. t \in Excused
    BY <1>8 DEF Owing, Quarantines
  <2>2. ~(mon.pc \in InHand)
    BY <1>1, <2>1 DEF Excused, PlaceOk, InHand
  <2>3. ~Doomed'
    BY <2>2 DEF Doomed, OnlyAnswers
  <2>4. QED BY <1>4, <1>5, <2>3, OwesNoMore
<1>9. QED BY <1>6, <1>7, <1>8

LEMMA SucceedPays ==
    ASSUME FutureInv, CarryOk, PlaceOk, IsFiniteSet(Quarantines), NEW t \in Topics, Succeed(t)
    PROVE  Pays(t) /\ OnlyAnswers /\ OnlyAt(t) /\ IsFiniteSet(Quarantines')
<1>0. /\ Typed /\ worker[t].task \in Tasks /\ (IsLive(worker[t].task) => Awaited(t))
      /\ refused \in [Topics -> Nat] /\ RefusalLimit \in Nat \ {0}
  BY LiveIsAwaited, RefusalBound DEF FutureInv, Typed, Workers
<1>1. /\ Finish(t, worker[t].task, "sent") /\ "sent" \in Answers
      /\ refused' = [refused EXCEPT ![t] = 0] /\ queue' = queue /\ shown' = shown
      /\ route' = route /\ blocked' = blocked /\ stopping' = stopping /\ faults' = faults
  BY DEF Succeed, Answers
<1>2. /\ OnlyAnswers
      /\ ~IsLive(worker[t].task) => mon' = mon
      /\ IsLive(worker[t].task) => mon'.answer = "sent"
      /\ \A u \in Topics : WarnsLive(u)' => WarnsLive(u) /\ u # t
  BY <1>0, <1>1, EndDoomed DEF OnlyAnswers
<1>3. ASSUME ~Quarantined(t) PROVE Doomed' => Doomed
  <2>1. \A u \in Topics : Quarantined(u)  => Quarantined(u)'
    BY <1>0, <1>1, <1>3 DEF Quarantined
  <2>2. CASE mon' = mon
    BY <1>0, <1>1, <1>2, <2>1, <2>2, DoomedStays
  <2>3. CASE mon'.answer = "sent"
    BY <1>2, <2>3 DEF Doomed, OnlyAnswers
  <2>4. QED BY <1>2, <2>2, <2>3
<1>4. Debt' <= Debt /\ IsFiniteSet(Quarantines')
  BY <1>0, <1>1, <1>2, <1>3, ReleasePays
<1>5. Moves(t, 0) /\ OnlyAt(t)
  BY <1>0, <1>1, EndMoves DEF OnlyAt
<1>6. QED BY <1>1, <1>2, <1>4, <1>5 DEF Pays

LEMMA WarnedPays ==
    ASSUME FutureInv, CarryOk, PlaceOk, IsFiniteSet(Quarantines), NEW t \in Topics, Warned(t)
    PROVE  Pays(t) /\ OnlyAnswers /\ OnlyAt(t) /\ IsFiniteSet(Quarantines')
<1>0. Typed /\ worker[t].task \in Tasks /\ (IsLive(worker[t].task) => Awaited(t))
  BY LiveIsAwaited DEF FutureInv, Typed, Workers
<1>1. /\ Finish(t, worker[t].task, "refused") /\ "refused" \in Answers /\ worker[t].pc = "warn"
      /\ refused' = refused /\ queue' = queue /\ shown' = shown
      /\ route' = route /\ blocked' = blocked /\ stopping' = stopping /\ faults' = faults
  BY DEF Warned, Answers
<1>2. /\ OnlyAnswers
      /\ ~IsLive(worker[t].task) => mon' = mon
      /\ IsLive(worker[t].task) =>
            mon.pc = "wait" /\ mon.at = t /\ mon.answer = "none" /\ mon'.answer = "refused"
      /\ \A u \in Topics : WarnsLive(u)' => WarnsLive(u) /\ u # t
  BY <1>0, <1>1, EndDoomed DEF OnlyAnswers
<1>3. \A u \in Topics : Quarantined(u) <=> Quarantined(u)'
  BY <1>1 DEF Quarantined
<1>4. Doomed' => Doomed
  <2>1. CASE ~IsLive(worker[t].task)
    BY <1>0, <1>1, <1>2, <1>3, <2>1, DoomedStays
  <2>2. CASE IsLive(worker[t].task)
    <3>1. WarnsLive(t)
      BY <1>1, <2>2 DEF WarnsLive
    <3>2. QED BY <1>2, <1>3, <2>2, <3>1 DEF Doomed, OnlyAnswers
  <2>3. QED BY <2>1, <2>2
<1>5. Quarantines' = Quarantines /\ Owing' = Owing
  BY <1>1, <1>2, RefusedSame DEF OnlyAnswers
<1>6. Debt' <= Debt
  BY <1>4, <1>5, OwesNoMore
<1>7. Moves(t, 0) /\ OnlyAt(t)
  BY <1>0, <1>1, EndMoves DEF OnlyAt
<1>8. QED BY <1>1, <1>2, <1>5, <1>6, <1>7 DEF Pays

LEMMA RefusalPays ==
    ASSUME FutureInv, CarryOk, PlaceOk, IsFiniteSet(Quarantines), NEW t \in Topics, SendRefused(t)
    PROVE  Pays(t) /\ OnlyAnswers /\ OnlyAt(t) /\ IsFiniteSet(Quarantines')
<1>0. /\ Typed /\ worker[t] \in Workers /\ worker[t].task \in Tasks
      /\ refused \in [Topics -> Nat] /\ RefusalLimit \in Nat \ {0}
  BY RefusalBound DEF FutureInv, Typed, Workers
<1>1. /\ refused' = [refused EXCEPT ![t] = refused[t] + 1] /\ queue' = queue /\ shown' = shown
      /\ route' = route /\ blocked' = blocked /\ stopping' = stopping /\ faults' = faults + 1
  BY DEF SendRefused, Fault
<1>2. /\ refused'[t] = refused[t] + 1 /\ refused[t] \in Nat
      /\ \A u \in Topics \ {t} : refused'[u] = refused[u]
  BY <1>0, <1>1
<1>3. CASE refused[t] + 1 # RefusalLimit
  <2>1. Finish(t, worker[t].task, "failed") \/ Finish(t, worker[t].task, "refused")
    BY <1>3 DEF SendRefused
  <2>2. \A u \in Topics : Quarantined(u)' <=> Quarantined(u)
    BY <1>0, <1>2, <1>3 DEF Quarantined
  <2>3. QED BY <1>1, <2>1, <2>2, FailurePays DEF Answers
<1>4. CASE refused[t] + 1 = RefusalLimit
  <2>1. worker' = [worker EXCEPT ![t].pc = "warn"] /\ mon' = mon
    BY <1>0, <1>2, <1>4 DEF SendRefused
  <2>2. \A u \in Topics : (Quarantined(u)' <=> Quarantined(u) \/ u = t)
    BY <1>0, <1>2, <1>4 DEF Quarantined
  <2>3. Moves(t, 0) /\ OnlyAt(t)
    BY <1>0, <1>1, <2>1, WarnMoves DEF OnlyAt
  <2>4. Doomed' => Doomed
    <3>1. \A u \in Topics : WarnsLive(u)' /\ ~Quarantined(u)' => WarnsLive(u)
      BY <2>2, <2>3 DEF WarnsLive, OnlyAt
    <3>2. QED BY <1>0, <1>1, <2>1, <2>2, <3>1, DoomedStays
  <2>5. Quarantines' = Quarantines \cup {t}
    BY <2>2 DEF Quarantines
  <2>6. Owing' \subseteq Owing \cup {t}
    BY <1>1, <2>1, <2>5 DEF Owing, Excused
  <2>7. Debt' <= Debt + 1
    BY <2>4, <2>6, OwesOneMore
  <2>8. IsFiniteSet(Quarantines')
    BY <2>5, FS_AddElement
  <2>9. QED BY <1>1, <2>1, <2>3, <2>7, <2>8 DEF Pays, OnlyAnswers
<1>5. QED BY <1>3, <1>4

LEMMA LimitPays ==
    ASSUME FutureInv, CarryOk, PlaceOk, IsFiniteSet(Quarantines), NEW t \in Topics, SendLimited(t)
    PROVE  Pays(t) /\ OnlyAnswers /\ OnlyAt(t) /\ IsFiniteSet(Quarantines')
<1>0. /\ Typed /\ worker[t] \in Workers /\ worker[t].task \in Tasks
  BY DEF FutureInv, Typed, Workers
<1>1. /\ refused' = refused /\ shown' = shown /\ Sending(t)
      /\ route' = route /\ blocked' = blocked /\ stopping' = stopping /\ faults' = faults + 1
  BY DEF SendLimited, Fault
<1>2. CASE Finish(t, worker[t].task, "failed") /\ queue' = queue
  <2>1. \A u \in Topics : Quarantined(u)' <=> Quarantined(u)
    BY <1>1 DEF Quarantined
  <2>2. QED BY <1>1, <1>2, <2>1, FailurePays DEF Answers
<1>3. CASE ~(Finish(t, worker[t].task, "failed") /\ queue' = queue)
  <2> DEFINE again == [worker[t].task EXCEPT !.retry = worker[t].task.retry + 1]
  <2>1. /\ worker[t].task.retry < RetryLimit /\ mon' = mon
        /\ queue' = [queue EXCEPT ![t] = Append(queue[t], again)]
        /\ worker' = [worker EXCEPT ![t] = Resting]
    BY <1>3 DEF SendLimited
  <2>2. again \in Tasks /\ again.ids = worker[t].task.ids
    BY <1>0, <2>1, RetriedTyped
  <2>3. again.fut = worker[t].task.fut /\ again.gen = worker[t].task.gen
    BY <1>0 DEF Tasks
  <2> HIDE DEF again
  <2>4. Moves(t, 1) /\ OnlyAt(t)
    BY <1>0, <1>1, <2>1, <2>2, <2>3, RetryMoves DEF OnlyAt
  <2>5. worker' \in [Topics -> Workers] /\ worker'[t].pc = "idle"
    BY <1>0, <2>1, IdleTyped, RestingIs DEF Typed
  <2>6. QED BY <1>1, <2>1, <2>4, <2>5, RepeatPays
<1>4. QED BY <1>2, <1>3

LEMMA WorkingPays ==
    ASSUME FutureInv, CarryOk, PlaceOk, IsFiniteSet(Quarantines), NEW t \in Topics,
           Worker(t) \/ SendFails(t) \/ SendLimited(t) \/ SendRefused(t)
    PROVE  Pays(t) /\ OnlyAnswers /\ OnlyAt(t) /\ IsFiniteSet(Quarantines')
<1>0. Typed
  BY DEF FutureInv
<1>1. CASE Display(t)
  <2>1. worker' \in [Topics -> Workers] /\ mon' = mon /\ queue' = queue /\ Sending(t)
        /\ route' = route /\ blocked' = blocked /\ stopping' = stopping /\ refused' = refused
    BY <1>0, <1>1, WorkerPcTyped DEF Display, monVars, Sending
  <2>2. /\ \/ Moves(t, 0) /\ faults' = faults
           \/ Moves(t, 1) /\ faults' = faults + 1
        /\ OnlyAt(t) /\ worker'[t].pc = "after"
    BY <1>0, <1>1, <2>1, DisplayMoves DEF OnlyAt
  <2>3. QED BY <2>1, <2>2, RepeatPays
<1>2. CASE SendFails(t)
  <2>1. /\ Finish(t, worker[t].task, "failed") /\ refused' = refused /\ faults' = faults + 1
        /\ queue' = queue /\ shown' = shown
        /\ route' = route /\ blocked' = blocked /\ stopping' = stopping
    BY <1>2 DEF SendFails, Fault
  <2>2. \A u \in Topics : Quarantined(u)' <=> Quarantined(u)
    BY <2>1 DEF Quarantined
  <2>3. QED BY <2>1, <2>2, FailurePays DEF Answers
<1>3. QED
  BY <1>1, <1>2, StartPays, SucceedPays, WarnedPays, RefusalPays, LimitPays DEF Worker

-------------------------------------------------------------------------------
(* The account: every copy is a first one or is paid by a fault.            *)

Gives(t, i) == Given(shown[t], queue[t], worker[t], i)
CopiesOf(t) == Issued(shown[t], queue[t], worker[t])
\* The message in hand has been handed on to t.
InProcess(t) == mon.pc \in InHand /\ (t \notin mon.todo \/ (mon.pc = "wait" /\ mon.at = t))
\* Entries given to t that will not be handed on again.
Settled(t) == {i \in Ids : Gives(t, i) /\ (Line(i) <= tracked \/ (InProcess(t) /\ i = Current))}
Paid == \A t \in Topics : CopiesOf(t) + Debt <= faults + Cardinality(Settled(t))

\* Entries of one line are handed on one after the other, by one offset.
Plain(i) == Kind(i) # "limit"
FirstOnLine(j) == \A k \in Ids : k < j /\ Plain(k) /\ Line(k) = Line(j) => Line(k) <= tracked
BatchOf(j) ==
    /\ tracked <= Line(j) /\ Line(j) <= mon.to
    /\ \A k \in Ids \ mon.batch : k < j /\ Plain(k) /\ Line(k) = Line(j) => Line(k) <= tracked
    /\ \A t \in Topics : Gives(t, j) => tracked < Line(j) \/ (j = Current /\ InProcess(t))
BatchOk == mon.pc \in InHand \cup {"next"} => \A j \in mon.batch : Plain(j) => BatchOf(j)
GivenOk == \A t \in Topics, j \in Ids : Gives(t, j) => FirstOnLine(j)

RepeatInv ==
    /\ FutureInv /\ CarryOk /\ PlaceOk /\ BatchOk /\ GivenOk
    /\ IsFiniteSet(Quarantines) /\ Paid

LEMMA IdsFinite == IsFiniteSet(Ids)
<1>1. Transcript \in Seq([line: Nat \ {0}, kind: Kinds])
  BY TranscriptAssumption
<1>2. Len(Transcript) \in Nat /\ Ids = 1..Len(Transcript)
  BY <1>1 DEF Ids
<1>3. QED BY <1>2, FS_Interval

LEMMA SettledIs ==
    ASSUME NEW t
    PROVE  IsFiniteSet(Settled(t)) /\ Cardinality(Settled(t)) \in Nat
<1>1. Settled(t) \in SUBSET Ids
  BY DEF Settled
<1>2. QED BY <1>1, IdsFinite, FS_Subset, FS_CardinalityType

LEMMA SettledNext ==
    ASSUME NEW t
    PROVE  IsFiniteSet(Settled(t)') /\ Cardinality(Settled(t)') \in Nat
<1>1. Settled(t)' \in SUBSET Ids
  BY DEF Settled
<1>2. QED BY <1>1, IdsFinite, FS_Subset, FS_CardinalityType

LEMMA SettledCounts ==
    ASSUME NEW t
    PROVE  /\ Settled(t) \subseteq Settled(t)' => Cardinality(Settled(t)) <= Cardinality(Settled(t)')
           /\ \A x : Settled(t) \ {x} \subseteq Settled(t)' =>
                 Cardinality(Settled(t)) <= Cardinality(Settled(t)') + 1
           /\ \A x : Settled(t) \cup {x} \subseteq Settled(t)' /\ x \notin Settled(t) =>
                 Cardinality(Settled(t)) + 1 <= Cardinality(Settled(t)')
<1> DEFINE S == Settled(t)
           T == Settled(t)'
<1>1. IsFiniteSet(S) /\ Cardinality(S) \in Nat /\ IsFiniteSet(T) /\ Cardinality(T) \in Nat
  BY SettledIs, SettledNext
<1> HIDE DEF S, T
<1>2. S \subseteq T => Cardinality(S) <= Cardinality(T)
  BY <1>1, FS_Subset
<1>3. ASSUME NEW x, S \ {x} \subseteq T PROVE Cardinality(S) <= Cardinality(T) + 1
  <2>1. /\ IsFiniteSet(S \ {x})
        /\ Cardinality(S \ {x}) = IF x \in S THEN Cardinality(S) - 1 ELSE Cardinality(S)
    BY <1>1, FS_RemoveElement
  <2>2. Cardinality(S \ {x}) <= Cardinality(T)
    BY <1>1, <1>3, FS_Subset
  <2>3. QED BY <1>1, <2>1, <2>2
<1>4. ASSUME NEW x, S \cup {x} \subseteq T, x \notin S PROVE Cardinality(S) + 1 <= Cardinality(T)
  <2>1. Cardinality(S \cup {x}) = Cardinality(S) + 1
    BY <1>1, <1>4, FS_AddElement
  <2>2. Cardinality(S \cup {x}) <= Cardinality(T)
    BY <1>1, <1>4, FS_Subset
  <2>3. QED BY <1>1, <2>1, <2>2
<1>5. QED BY <1>2, <1>3, <1>4 DEF S, T

LEMMA CopiesIs ==
    ASSUME Typed, NEW t \in Topics
    PROVE  CopiesOf(t) \in Nat
<1>1. shown[t] \in Seq(Ids) /\ queue[t] \in Seq(Tasks)
  BY DEF Typed
<1>2. QED BY <1>1, IssuedIs DEF CopiesOf

LEMMA CopiesNext ==
    ASSUME Typed', NEW t \in Topics
    PROVE  CopiesOf(t)' \in Nat
<1>1. shown'[t] \in Seq(Ids) /\ queue'[t] \in Seq(Tasks)
  BY DEF Typed
<1>2. QED BY <1>1, IssuedIs DEF CopiesOf

LEMMA DebtNext ==
    ASSUME IsFiniteSet(Quarantines')
    PROVE  Debt' \in Nat
<1>1. Cardinality(Owing') \in Nat
  BY OwingNext
<1>2. One(Doomed') \in {0, 1}
  BY DEF One
<1>3. Debt' = Cardinality(Owing') + One(Doomed')
  BY DEF Debt, One
<1>4. QED BY <1>1, <1>2, <1>3

LEMMA SettledStays ==
    ASSUME Typed, Typed', NEW t \in Topics, tracked <= tracked', NEW x,
           \A i : Gives(t, i) /\ i # x => Gives(t, i)'
    PROVE  /\ Settled(t) \ {x, Current} \subseteq Settled(t)'
           /\ (InProcess(t) => \/ InProcess(t)' /\ Current' = Current
                               \/ Current \in Ids => Line(Current) <= tracked'
                               \/ ~Gives(t, Current))
                 => /\ Settled(t) \ {x} \subseteq Settled(t)'
                    /\ (Gives(t, x) => Gives(t, x)') => Settled(t) \subseteq Settled(t)'
<1>1. tracked \in Nat /\ tracked' \in Nat
  BY Bounds DEF Typed
<1>2. \A i \in Ids : Line(i) \in Nat
  BY Lines
<1>3. \A i \in Ids : Line(i) <= tracked => Line(i) <= tracked'
  BY <1>1, <1>2
<1>4. \A i : i \in Settled(t) <=> i \in Ids /\ Gives(t, i) /\ (Line(i) <= tracked \/ (InProcess(t) /\ i = Current))
  BY DEF Settled
<1>5. \A i : i \in Settled(t)' <=> i \in Ids /\ Gives(t, i)' /\ (Line(i) <= tracked' \/ (InProcess(t)' /\ i = Current'))
  BY DEF Settled
<1>6. QED BY <1>3, <1>4, <1>5

\* The account of one topic after a step.
LEMMA PaidFor ==
    ASSUME Typed, Typed', IsFiniteSet(Quarantines), IsFiniteSet(Quarantines'), NEW t \in Topics,
           CopiesOf(t) + Debt <= faults + Cardinality(Settled(t)),
           \/ /\ Settled(t) \subseteq Settled(t)'
              /\ CopiesOf(t)' + Debt' + faults <= CopiesOf(t) + Debt + faults'
           \/ /\ \E x : Settled(t) \ {x} \subseteq Settled(t)'
              /\ CopiesOf(t)' + Debt' + faults + 1 <= CopiesOf(t) + Debt + faults'
           \/ /\ \E x : Settled(t) \cup {x} \subseteq Settled(t)' /\ x \notin Settled(t)
              /\ CopiesOf(t)' + Debt' + faults <= CopiesOf(t) + Debt + faults' + 1
    PROVE  CopiesOf(t)' + Debt' <= faults' + Cardinality(Settled(t)')
<1>1. /\ CopiesOf(t) \in Nat /\ CopiesOf(t)' \in Nat /\ Debt \in Nat /\ Debt' \in Nat
      /\ Cardinality(Settled(t)) \in Nat /\ Cardinality(Settled(t)') \in Nat
  BY CopiesIs, CopiesNext, OwingIs, DebtNext, SettledIs, SettledNext
<1>2. faults \in Nat /\ faults' \in Nat
  BY Bounds DEF Typed
<1>3. /\ Settled(t) \subseteq Settled(t)' => Cardinality(Settled(t)) <= Cardinality(Settled(t)')
      /\ (\E x : Settled(t) \ {x} \subseteq Settled(t)') =>
            Cardinality(Settled(t)) <= Cardinality(Settled(t)') + 1
      /\ (\E x : Settled(t) \cup {x} \subseteq Settled(t)' /\ x \notin Settled(t)) =>
            Cardinality(Settled(t)) + 1 <= Cardinality(Settled(t)')
  BY SettledCounts
<1>4. QED BY <1>1, <1>2, <1>3

\* Sums of an account.
LEMMA Sums ==
    ASSUME NEW c \in Nat, NEW d \in Nat, NEW f \in Nat, NEW c2 \in Nat, NEW d2 \in Nat, NEW f2 \in Nat
    PROVE  /\ \/ d2 <= d /\ f2 = f
              \/ d2 <= d + 1 /\ f2 = f + 1
              => d2 + f <= d + f2
           /\ d2 <= d /\ f2 = f + 1 => d2 + f <= d + f2
           /\ c2 <= c /\ d2 + f <= d + f2 => c2 + d2 + f <= c + d + f2
           /\ c2 <= c + 1 /\ d2 <= d /\ f2 = f + 1 => c2 + d2 + f <= c + d + f2
           /\ c2 <= c /\ d2 <= d /\ f2 = f + 1 => c2 + d2 + f + 1 <= c + d + f2
           /\ c2 <= c /\ d2 + 1 <= d /\ f2 = f => c2 + d2 + f + 1 <= c + d + f2
           /\ c2 + 1 <= c /\ d2 + f <= d + f2 => c2 + d2 + f + 1 <= c + d + f2
           /\ c2 <= c + 1 /\ d2 <= d /\ f2 = f => c2 + d2 + f <= c + d + f2 + 1
OBVIOUS

LEMMA GivenStays ==
    ASSUME Typed, Typed', GivenOk, tracked <= tracked',
           \A u \in Topics : \A i : Gives(u, i)' => Gives(u, i)
    PROVE  GivenOk'
<1>1. tracked \in Nat /\ tracked' \in Nat
  BY Bounds DEF Typed
<1>2. \A i \in Ids : Line(i) \in Nat
  BY Lines
<1>3. \A i \in Ids : Line(i) <= tracked => Line(i) <= tracked'
  BY <1>1, <1>2
<1>4. \A j \in Ids : FirstOnLine(j) => FirstOnLine(j)'
  BY <1>3 DEF FirstOnLine
<1>5. QED BY <1>4 DEF GivenOk

LEMMA BatchStays ==
    ASSUME BatchOk, mon.pc \in InHand \cup {"next"}, mon'.batch = mon.batch, mon'.to = mon.to,
           tracked' = tracked, \A u \in Topics : \A i : Gives(u, i)' => Gives(u, i),
           \A u \in Topics : InProcess(u) => InProcess(u)'
    PROVE  BatchOk'
<1>1. Current' = Current
  BY CurrentStays
<1>2. \A j : BatchOf(j) => BatchOf(j)'
  BY <1>1 DEF BatchOf
<1>3. QED BY <1>2 DEF BatchOk

LEMMA BatchEnds ==
    ASSUME mon'.pc \notin InHand \cup {"next"}
    PROVE  BatchOk'
BY DEF BatchOk

LEMMA WorkingRepeat ==
    ASSUME RepeatInv, FutureInv', NEW t \in Topics,
           Worker(t) \/ SendFails(t) \/ SendLimited(t) \/ SendRefused(t)
    PROVE  RepeatInv'
<1>0. /\ FutureInv /\ Typed /\ Typed' /\ CarryOk /\ PlaceOk /\ BatchOk /\ GivenOk /\ Paid
      /\ IsFiniteSet(Quarantines)
  BY DEF RepeatInv, FutureInv
<1>1. Pays(t) /\ OnlyAnswers /\ OnlyAt(t) /\ IsFiniteSet(Quarantines')
  BY <1>0, WorkingPays
<1>2. blocked' = blocked /\ stopping' = stopping /\ tracked' = tracked
  BY DEF Worker, Take, FloodOver, Display, Succeed, Warned, SendFails, SendLimited, SendRefused,
     monVars
<1>3. /\ Current' = Current /\ \A u : InProcess(u)' <=> InProcess(u)
  BY <1>1, CurrentStays DEF OnlyAnswers, InProcess
<1>4. CarryOk'
  <2>1. ASSUME NEW u \in Topics PROVE CarryOf(shown'[u], queue'[u], worker'[u], mon'.gen)
    <3>1. CASE u = t
      BY <1>1, <3>1 DEF Pays, Moves
    <3>2. CASE u # t
      BY <1>0, <1>1, <3>2 DEF CarryOk, OnlyAt, OnlyAnswers
    <3>3. QED BY <3>1, <3>2
  <2>2. QED BY <2>1 DEF CarryOk
<1>5. PlaceOk'
  BY <1>0, <1>1, <1>2, <1>3 DEF PlaceOk, OnlyAnswers
<1>6. \A u \in Topics : \A i : Gives(u, i)' => Gives(u, i)
  <2>1. ASSUME NEW u \in Topics, NEW i, Gives(u, i)' PROVE Gives(u, i)
    <3>1. CASE u = t
      BY <1>1, <2>1, <3>1 DEF Pays, Moves, NoNew, Gives
    <3>2. CASE u # t
      BY <1>1, <2>1, <3>2 DEF OnlyAt, Gives
    <3>3. QED BY <3>1, <3>2
  <2>2. QED BY <2>1
<1>7. tracked <= tracked'
  BY <1>0, <1>2, Bounds DEF Typed
<1>8. GivenOk'
  BY <1>0, <1>6, <1>7, GivenStays
<1>9. BatchOk'
  <2>1. CASE mon.pc \in InHand \cup {"next"}
    BY <1>0, <1>1, <1>2, <1>3, <1>6, <2>1, BatchStays DEF OnlyAnswers
  <2>2. CASE mon.pc \notin InHand \cup {"next"}
    BY <1>1, <2>2, BatchEnds DEF OnlyAnswers
  <2>3. QED BY <2>1, <2>2
<1>10. Paid'
  <2> SUFFICES ASSUME NEW u \in Topics
               PROVE  CopiesOf(u)' + Debt' <= faults' + Cardinality(Settled(u)')
    BY DEF Paid
  <2>1. /\ CopiesOf(u) \in Nat /\ CopiesOf(u)' \in Nat /\ Debt \in Nat /\ Debt' \in Nat
        /\ faults \in Nat /\ faults' \in Nat
    <3>1. faults \in Nat /\ faults' \in Nat
      BY <1>0, Bounds DEF Typed
    <3>2. QED BY <1>0, <1>1, <3>1, CopiesIs, CopiesNext, OwingIs, DebtNext
  <2>2. \A x : (\A i : Gives(u, i) /\ i # x => Gives(u, i)') =>
                  /\ Settled(u) \ {x} \subseteq Settled(u)'
                  /\ (Gives(u, x) => Gives(u, x)') => Settled(u) \subseteq Settled(u)'
    BY <1>0, <1>3, <1>7, SettledStays
  <2>3. CopiesOf(u) + Debt <= faults + Cardinality(Settled(u))
    BY <1>0 DEF Paid
  <2>4. /\ \/ Debt' <= Debt /\ faults' = faults
           \/ Debt' <= Debt + 1 /\ faults' = faults + 1
        /\ \A n \in {0, 1} : Moves(t, n) /\ ~Moves(t, 0) => Debt' <= Debt /\ faults' = faults + 1
    <3>1. Debt \in Nat /\ Debt' \in Nat
      BY <2>1
    <3>2. QED BY <1>1, <3>1 DEF Pays
  <2>5. Debt' + faults <= Debt + faults'
    BY <2>1, <2>4, Sums
  <2>6. CASE \/ ~Loses(shown[u], queue[u], worker[u], shown'[u], queue'[u], worker'[u])
             \/ u # t
    <3>1. /\ \A i : Gives(u, i) => Gives(u, i)'
          /\ CopiesOf(u)' + Debt' + faults <= CopiesOf(u) + Debt + faults'
      <4>1. CASE u = t
        <5>1. ASSUME NEW n \in {0, 1}, Moves(t, n)
              PROVE  /\ \A i : Gives(u, i) => Gives(u, i)'
                     /\ CopiesOf(u)' <= CopiesOf(u) + n
          BY <2>6, <4>1, <5>1 DEF Moves, Keeps, Gives, CopiesOf
        <5>2. CASE Moves(t, 0)
          <6>1. CopiesOf(u)' <= CopiesOf(u)
            <7>1. CopiesOf(u)' <= CopiesOf(u) + 0 /\ \A i : Gives(u, i) => Gives(u, i)'
              BY <5>1, <5>2
            <7>2. QED BY <2>1, <7>1
          <6>2. QED BY <2>1, <2>5, <5>1, <5>2, <6>1, Sums
        <5>3. CASE ~Moves(t, 0)
          <6>1. Moves(t, 1)
            BY <1>1, <5>3 DEF Pays
          <6>2. Debt' <= Debt /\ faults' = faults + 1
            BY <2>4, <5>3, <6>1
          <6>3. QED BY <2>1, <5>1, <6>1, <6>2, Sums
        <5>4. QED BY <5>2, <5>3
      <4>2. CASE u # t
        <5>1. /\ \A i : Gives(u, i) => Gives(u, i)'
              /\ CopiesOf(u)' <= CopiesOf(u)
          BY <1>1, <2>1, <4>2 DEF OnlyAt, Gives, CopiesOf
        <5>2. QED BY <2>1, <2>5, <5>1, Sums
      <4>3. QED BY <4>1, <4>2
    <3>2. Settled(u) \subseteq Settled(u)'
      BY <2>2, <3>1
    <3>3. QED BY <1>0, <1>1, <2>3, <3>1, <3>2, PaidFor
  <2>7. CASE u = t /\ Loses(shown[u], queue[u], worker[u], shown'[u], queue'[u], worker'[u])
    <3>1. /\ \E x : \A i : Gives(u, i) /\ i # x => Gives(u, i)'
          /\ CopiesOf(u)' + 1 <= CopiesOf(u)
      BY <2>7 DEF Loses, Gives, CopiesOf
    <3>2. \E x : Settled(u) \ {x} \subseteq Settled(u)'
      BY <2>2, <3>1
    <3>3. CopiesOf(u)' + Debt' + faults + 1 <= CopiesOf(u) + Debt + faults'
      BY <2>1, <2>5, <3>1, Sums
    <3>4. QED BY <1>0, <1>1, <2>3, <3>2, <3>3, PaidFor
  <2>8. QED BY <2>6, <2>7
<1>11. QED BY <1>0, <1>1, <1>4, <1>5, <1>8, <1>9, <1>10 DEF RepeatInv

\* A step after which the account is still settled, if no topic lost or was given an entry.
Unburdened ==
    \/ Debt' + 1 <= Debt /\ faults' = faults
    \/ /\ \/ Debt' <= Debt /\ faults' \in {faults, faults + 1}
          \/ Debt' <= Debt + 1 /\ faults' = faults + 1
       /\ \A t \in Topics : InProcess(t) => \/ InProcess(t)' /\ Current' = Current
                                            \/ Current \in Ids => Line(Current) <= tracked'
                                            \/ ~Gives(t, Current)

LEMMA SamePaid ==
    ASSUME Typed, Typed', Paid, IsFiniteSet(Quarantines), IsFiniteSet(Quarantines'),
           tracked <= tracked',
           \A t \in Topics : /\ \A i : Gives(t, i) => Gives(t, i)'
                             /\ CopiesOf(t)' <= CopiesOf(t),
           Unburdened \/ (Debt' <= Debt /\ faults' = faults + 1)
    PROVE  Paid'
<1> SUFFICES ASSUME NEW t \in Topics
             PROVE  CopiesOf(t)' + Debt' <= faults' + Cardinality(Settled(t)')
  BY DEF Paid
<1>1. /\ CopiesOf(t) \in Nat /\ CopiesOf(t)' \in Nat /\ Debt \in Nat /\ Debt' \in Nat
      /\ faults \in Nat /\ faults' \in Nat
  <2>1. faults \in Nat /\ faults' \in Nat
    BY Bounds DEF Typed
  <2>2. QED BY <2>1, CopiesIs, CopiesNext, OwingIs, DebtNext
<1>2. CopiesOf(t) + Debt <= faults + Cardinality(Settled(t))
  BY DEF Paid
<1>3. /\ Settled(t) \ {Current} \subseteq Settled(t)'
      /\ (InProcess(t) => \/ InProcess(t)' /\ Current' = Current
                          \/ Current \in Ids => Line(Current) <= tracked'
                          \/ ~Gives(t, Current))
            => Settled(t) \subseteq Settled(t)'
  <2>1. \A i : Gives(t, i) /\ i # Current => Gives(t, i)'
    OBVIOUS
  <2>2. QED BY <2>1, SettledStays
<1>4. CASE (Debt' + 1 <= Debt /\ faults' = faults) \/ (Debt' <= Debt /\ faults' = faults + 1)
  <2>1. CopiesOf(t)' + Debt' + faults + 1 <= CopiesOf(t) + Debt + faults'
    BY <1>1, <1>4, Sums
  <2>2. \E x : Settled(t) \ {x} \subseteq Settled(t)'
    BY <1>3
  <2>3. QED BY <1>2, <2>1, <2>2, PaidFor
<1>5. CASE ~((Debt' + 1 <= Debt /\ faults' = faults) \/ (Debt' <= Debt /\ faults' = faults + 1))
  <2>1. Settled(t) \subseteq Settled(t)'
    BY <1>3, <1>5 DEF Unburdened
  <2>2. \/ Debt' <= Debt /\ faults' = faults
        \/ Debt' <= Debt + 1 /\ faults' = faults + 1
    BY <1>5 DEF Unburdened
  <2>3. Debt' + faults <= Debt + faults'
    BY <1>1, <2>2, Sums
  <2>4. CopiesOf(t)' + Debt' + faults <= CopiesOf(t) + Debt + faults'
    BY <1>1, <2>3, Sums
  <2>5. QED BY <1>2, <2>1, <2>4, PaidFor
<1>6. QED BY <1>4, <1>5

\* A step of the monitor that gives no message to a worker.
LEMMA QuietRepeat ==
    ASSUME RepeatInv, FutureInv', queue' = queue, worker' = worker, shown' = shown,
           tracked <= tracked', IsFiniteSet(Quarantines'), PlaceOk', BatchOk',
           mon'.gen = mon.gen \/ \A t \in Topics : ~Awaited(t), Unburdened
    PROVE  RepeatInv'
<1>1. /\ FutureInv /\ Typed /\ Typed' /\ CarryOk /\ GivenOk /\ Paid /\ IsFiniteSet(Quarantines)
  BY DEF RepeatInv, FutureInv
<1>2. \A t \in Topics : (\A i : Gives(t, i)' <=> Gives(t, i)) /\ CopiesOf(t)' = CopiesOf(t)
  BY DEF Gives, CopiesOf
<1>3. CarryOk'
  <2>1. CASE mon'.gen = mon.gen
    BY <1>1, <2>1 DEF CarryOk
  <2>2. CASE \A t \in Topics : ~Awaited(t)
    <3>1. \A t \in Topics : ~IsLive(worker[t].task) /\ \A k \in DOMAIN queue[t] : ~IsLive(queue[t][k])
      BY <1>1, <2>2, LiveIsAwaited
    <3>2. QED BY <1>1, <3>1 DEF CarryOk, CarryOf
  <2>3. QED BY <2>1, <2>2
<1>4. GivenOk'
  BY <1>1, <1>2, GivenStays
<1>5. \A t \in Topics : CopiesOf(t)' <= CopiesOf(t)
  BY <1>1, <1>2, CopiesIs
<1>6. Paid'
  BY <1>1, <1>2, <1>5, SamePaid
<1>7. QED BY <1>3, <1>4, <1>6 DEF RepeatInv

\* The disturbances that are outstanding stay the same.
LEMMA DebtSame ==
    ASSUME IsFiniteSet(Quarantines), refused' = refused, Excused' = Excused
    PROVE  /\ IsFiniteSet(Quarantines') /\ Debt' <= Debt + 1
           /\ (Doomed' => Doomed) => Debt' <= Debt
           /\ Doomed /\ ~Doomed' => Debt' + 1 <= Debt
<1>1. Quarantines' = Quarantines /\ Owing' = Owing
  BY DEF Quarantines, Quarantined, Owing
<1>2. QED BY <1>1, OwesNoMore

\* Steps that change none of it.
LEMMA AsideRepeat ==
    ASSUME RepeatInv, FutureInv', UNCHANGED <<tracked, mon, queue, worker, refused, blocked, route,
                                              stopping, shown, faults>>
    PROVE  RepeatInv'
<1>1. CarryOk /\ PlaceOk /\ BatchOk /\ GivenOk /\ IsFiniteSet(Quarantines) /\ Paid
  BY DEF RepeatInv
<1>2. Current' = Current
  BY CurrentStays
<1>3. CarryOk' /\ PlaceOk'
  BY <1>1, <1>2 DEF CarryOk, PlaceOk
<1>4. /\ \A t, i : Gives(t, i)' <=> Gives(t, i)
      /\ \A t : InProcess(t)' <=> InProcess(t)
  BY DEF Gives, InProcess
<1>5. Excused' = Excused /\ (Doomed' <=> Doomed)
  BY DEF Excused, Doomed, WarnsLive, Quarantined
<1>6. IsFiniteSet(Quarantines') /\ Debt' <= Debt
  BY <1>1, <1>5, DebtSame
<1>7. BatchOk'
  <2>1. CASE mon.pc \in InHand \cup {"next"}
    BY <1>1, <1>4, <2>1, BatchStays
  <2>2. CASE mon.pc \notin InHand \cup {"next"}
    BY <2>2, BatchEnds
  <2>3. QED BY <2>1, <2>2
<1>8. Unburdened
  BY <1>2, <1>4, <1>6 DEF Unburdened
<1>9. tracked <= tracked'
  BY Bounds DEF RepeatInv, FutureInv, Typed
<1>10. QED BY <1>3, <1>6, <1>7, <1>8, <1>9, QuietRepeat

LEMMA FastForwardedIs ==
    ASSUME Typed
    PROVE  FastForwarded \in Nat /\ tracked \in Nat /\ tracked <= FastForwarded
<1>1. uoff \in [Topics -> 0..LastLine] /\ tracked \in 0..LastLine /\ LastLine \in Nat
  BY Lines DEF Typed
<1>2. Recorded \in SUBSET Nat
  BY <1>1 DEF Recorded
<1>3. ResumeOffset \in Nat
  <2>1. CASE Recorded = {}
    BY <2>1 DEF ResumeOffset
  <2>2. CASE Recorded # {}
    <3>1. \E o \in Recorded : \A p \in Recorded : o <= p
      BY <1>2, <2>2, Least
    <3>2. ResumeOffset \in Recorded
      BY <2>2, <3>1 DEF ResumeOffset
    <3>3. QED BY <1>2, <3>2
  <2>3. QED BY <2>1, <2>2
<1>4. tracked \in Nat
  BY <1>1
<1>5. QED BY <1>3, <1>4 DEF FastForwarded

LEMMA PollRepeat ==
    ASSUME RepeatInv, FutureInv', Poll
    PROVE  RepeatInv'
<1>1. /\ Typed /\ CarryOk /\ PlaceOk /\ BatchOk /\ IsFiniteSet(Quarantines)
      /\ mon.pc = "sleep" /\ ~stopping /\ blocked = NoTopic
      /\ queue' = queue /\ worker' = worker /\ shown' = shown /\ refused' = refused
      /\ blocked' = blocked /\ stopping' = stopping /\ faults' = faults
  BY DEF RepeatInv, FutureInv, Poll, sendVars
<1>2. \A t \in Topics : ~Awaited(t) /\ ~InProcess(t)
  BY <1>1 DEF Awaited, InProcess, InHand
<1>3. FastForwarded \in Nat /\ tracked <= FastForwarded /\ tracked \in Nat /\ written \in Nat
      /\ FastForwarded < written
  <2>1. written \in Nat
    BY <1>1, Bounds DEF Typed
  <2>2. FastForwarded < written
    <3>1. FastForwarded \in Nat /\ written > FastForwarded
      BY <1>1, FastForwardedIs DEF Poll
    <3>2. QED BY <2>1, <3>1
  <2>3. QED BY <1>1, <2>1, <2>2, FastForwardedIs
<1>4. CASE Batch(FastForwarded, written) = {}
  <2>1. tracked' = written /\ mon' = mon
    BY <1>4 DEF Poll
  <2>2. PlaceOk' /\ BatchOk'
    BY <1>1, <2>1 DEF PlaceOk, BatchOk, InHand
  <2>3. Excused' = Excused /\ ~Doomed'
    BY <1>1, <2>1 DEF Excused, Doomed, InHand
  <2>4. IsFiniteSet(Quarantines') /\ Debt' <= Debt
    BY <1>1, <2>3, DebtSame
  <2>5. Unburdened
    BY <1>1, <1>2, <2>4 DEF Unburdened
  <2>6. tracked <= tracked'
    BY <1>3, <2>1
  <2>7. QED BY <1>1, <1>2, <2>1, <2>2, <2>4, <2>5, <2>6, QuietRepeat
<1>5. CASE Batch(FastForwarded, written) # {}
  <2>1. /\ tracked' = tracked /\ mon'.pc = "next" /\ ~mon'.failed
        /\ mon'.batch = Batch(FastForwarded, written) /\ mon'.to = written
    BY <1>5 DEF Poll, Idle
  <2>2. PlaceOk'
    BY <1>1, <2>1 DEF PlaceOk
  <2>3. BatchOk'
    <3>1. ASSUME NEW j \in Batch(FastForwarded, written) PROVE BatchOf(j)'
      <4>1. j \in Ids /\ FastForwarded < Line(j) /\ Line(j) <= written /\ Line(j) \in Nat
        BY <3>1, Lines DEF Batch
      <4>2. tracked < Line(j)
        BY <1>3, <4>1
      <4>3. tracked <= Line(j)
        BY <1>3, <4>1
      <4>4. \A k \in Ids : Line(k) = Line(j) => k \in Batch(FastForwarded, written)
        BY <4>1 DEF Batch
      <4>5. QED BY <2>1, <4>1, <4>2, <4>3, <4>4 DEF BatchOf
    <3>2. QED BY <2>1, <3>1 DEF BatchOk
  <2>4. Excused' = Excused /\ ~Doomed'
    BY <1>1, <2>1 DEF Excused, Doomed, InHand
  <2>5. IsFiniteSet(Quarantines') /\ Debt' <= Debt
    BY <1>1, <2>4, DebtSame
  <2>6. Unburdened
    BY <1>1, <1>2, <2>5 DEF Unburdened
  <2>7. tracked <= tracked'
    BY <1>3, <2>1
  <2>8. QED BY <1>1, <1>2, <2>2, <2>3, <2>5, <2>6, <2>7, QuietRepeat
<1>6. QED BY <1>4, <1>5

\* The monitor goes from one await to the next with the message in hand.
LEMMA HandRepeat ==
    ASSUME RepeatInv, FutureInv', mon.pc \in InHand \cup {"next"}, mon'.pc \in InHand,
           mon'.batch = mon.batch, mon'.to = mon.to, \A t \in Topics : ~Awaited(t),
           UNCHANGED <<tracked, queue, worker, refused, blocked, stopping, shown, faults>>,
           PlaceOk', Doomed' => Doomed, \A t \in Topics : InProcess(t) => InProcess(t)'
    PROVE  RepeatInv'
<1>1. /\ Typed /\ BatchOk /\ PlaceOk /\ IsFiniteSet(Quarantines)
  BY DEF RepeatInv, FutureInv
<1>2. BatchOk'
  <2>1. \A u \in Topics : \A i : Gives(u, i)' => Gives(u, i)
    BY DEF Gives
  <2>2. QED BY <1>1, <2>1, BatchStays
<1>3. Excused' = Excused
  BY DEF Excused, InHand
<1>4. IsFiniteSet(Quarantines') /\ Debt' <= Debt
  BY <1>1, <1>3, DebtSame
<1>5. Unburdened
  BY <1>4, CurrentStays DEF Unburdened
<1>6. tracked <= tracked'
  BY <1>1, Bounds DEF Typed
<1>7. QED BY <1>2, <1>4, <1>5, <1>6, QuietRepeat

LEMMA NextMessageRepeat ==
    ASSUME RepeatInv, FutureInv', NextMessage
    PROVE  RepeatInv'
<1>1. Typed /\ PlaceOk /\ mon.pc = "next" /\ mon \in Monitors
  BY DEF RepeatInv, FutureInv, Typed, NextMessage
<1>2. /\ mon'.pc = "call" /\ mon'.batch = mon.batch /\ mon'.to = mon.to /\ mon'.failed = mon.failed
      /\ UNCHANGED <<tracked, queue, worker, refused, blocked, stopping, shown, faults>>
  BY <1>1 DEF NextMessage, Monitors, sendVars
<1>3. /\ PlaceOk' /\ ~Doomed'
      /\ \A t \in Topics : ~Awaited(t) /\ ~InProcess(t)
  BY <1>1, <1>2 DEF PlaceOk, Doomed, Awaited, InProcess, InHand
<1>4. QED BY <1>1, <1>2, <1>3, HandRepeat DEF InHand

\* The message in hand is done for t.
LEMMA DoneRepeat ==
    ASSUME RepeatInv, FutureInv', NEW t \in Topics, mon.pc \in InHand, ~Awaited(t),
           mon.pc = "call" \/ mon.at = t,
           UNCHANGED <<tracked, queue, worker, refused, blocked, stopping, shown, faults>>,
           \/ mon' = Done(t)
           \/ mon' = [Done(t) EXCEPT !.failed = TRUE] /\ Doomed
    PROVE  RepeatInv'
<1>1. Typed /\ PlaceOk /\ mon \in Monitors
  BY DEF RepeatInv, FutureInv, Typed
<1>2. /\ mon'.pc = "call" /\ mon'.batch = mon.batch /\ mon'.to = mon.to
      /\ mon'.todo = mon.todo \ {t} /\ (mon'.failed => mon.failed \/ Doomed)
  <2>1. /\ Done(t) \in Monitors /\ Done(t).pc = "call" /\ Done(t).batch = mon.batch
        /\ Done(t).to = mon.to /\ Done(t).todo = mon.todo \ {t} /\ Done(t).failed = mon.failed
    BY <1>1 DEF Done, Monitors, MonPcs, Answers
  <2>2. QED BY <2>1 DEF Monitors
<1>3. /\ PlaceOk' /\ (Doomed' => Doomed)
  BY <1>1, <1>2 DEF PlaceOk, Doomed, InHand
<1>4. \A u \in Topics : ~Awaited(u)
  BY DEF Awaited
<1>5. \A u \in Topics : InProcess(u) => InProcess(u)'
  BY <1>2 DEF InProcess, InHand
<1>6. QED BY <1>2, <1>3, <1>4, <1>5, HandRepeat DEF InHand

LEMMA AwaitQueueRepeat ==
    ASSUME RepeatInv, FutureInv', NEW t \in Topics, AwaitQueue(t)
    PROVE  RepeatInv'
<1>1. Typed /\ PlaceOk /\ mon.pc = "call" /\ mon \in Monitors /\ t \in mon.todo
  BY DEF RepeatInv, FutureInv, Typed, AwaitQueue
<1>2. /\ mon'.pc = "join" /\ mon'.at = t /\ mon'.batch = mon.batch /\ mon'.to = mon.to
      /\ mon'.todo = mon.todo /\ mon'.failed = mon.failed
      /\ UNCHANGED <<tracked, queue, worker, refused, blocked, stopping, shown, faults>>
  BY <1>1 DEF AwaitQueue, Monitors, sendVars
<1>3. Current' = Current /\ Current \in Contents
  <2>1. Current \in Ids
    BY <1>1, CurrentIs DEF Typed, Monitors
  <2>2. QED BY <1>2, <2>1, CurrentStays DEF AwaitQueue, Contents
<1>4. /\ PlaceOk' /\ (Doomed' => Doomed)
  BY <1>1, <1>2, <1>3 DEF PlaceOk, Doomed, InHand
<1>5. \A u \in Topics : ~Awaited(u) /\ (InProcess(u) => InProcess(u)')
  BY <1>1, <1>2 DEF Awaited, InProcess, InHand
<1>6. QED BY <1>1, <1>2, <1>4, <1>5, HandRepeat DEF InHand

\* The group fails because of the quarantine of t, or with a message that has failed.
LEMMA FailedRepeat ==
    ASSUME RepeatInv, FutureInv', NEW at \in Topics \cup {NoTopic}, mon.pc \in InHand,
           mon' = Failed(at), \A t \in Topics : ~Awaited(t),
           UNCHANGED <<tracked, queue, worker, refused, blocked, stopping, shown, faults>>,
           Doomed \/ (at \in Topics /\ Quarantined(at))
    PROVE  RepeatInv'
<1>1. /\ Typed /\ PlaceOk /\ IsFiniteSet(Quarantines) /\ NoTopic \notin Topics
      /\ blocked = NoTopic /\ ~stopping
  BY RefusalBound DEF RepeatInv, FutureInv, PlaceOk, InHand
<1>2. mon'.pc = "settle" /\ mon'.at = at /\ mon'.failed
  BY FailedTyped
<1>3. PlaceOk' /\ BatchOk' /\ ~Doomed'
  BY <1>1, <1>2 DEF PlaceOk, BatchOk, Doomed, InHand
<1>4. /\ Quarantines' = Quarantines /\ Quarantines \subseteq Topics
      /\ Owing = Quarantines /\ Owing' = Quarantines \ {at}
  <2>1. Quarantines' = Quarantines /\ Quarantines \subseteq Topics
    BY DEF Quarantines, Quarantined
  <2>2. Excused = {NoTopic} /\ Excused' = {at}
    BY <1>1, <1>2 DEF Excused, InHand
  <2>3. QED BY <1>1, <2>1, <2>2 DEF Owing
<1>5. IsFiniteSet(Quarantines') /\ Debt' + 1 <= Debt
  <2>1. CASE Doomed
    BY <1>1, <1>3, <1>4, <2>1, OwesNoMore
  <2>2. CASE at \in Topics /\ Quarantined(at)
    <3>1. at \in Quarantines
      BY <2>2 DEF Quarantines
    <3>2. QED BY <1>1, <1>3, <1>4, <3>1, OwesNoMore
  <2>3. QED BY <2>1, <2>2
<1>6. Unburdened /\ tracked <= tracked'
  BY <1>1, <1>5, Bounds DEF Unburdened, Typed
<1>7. QED BY <1>3, <1>5, <1>6, QuietRepeat

LEMMA AnsweredRepeat ==
    ASSUME RepeatInv, FutureInv', NEW t \in Topics, Answered(t)
    PROVE  RepeatInv'
<1>1. /\ Typed /\ mon.pc = "wait" /\ mon.at = t /\ mon.answer # "none" /\ mon \in Monitors
      /\ UNCHANGED <<tracked, queue, worker, refused, blocked, stopping, shown, faults>>
  BY DEF RepeatInv, FutureInv, Typed, Answered, sendVars
<1>2. \A u \in Topics : ~Awaited(u)
  BY <1>1 DEF Awaited
<1>3. mon.answer \in {"sent", "failed", "refused"}
  BY <1>1 DEF Monitors, Answers
<1>4. mon.answer # "sent" => Doomed \/ Quarantined(t)
  BY <1>1, <1>3 DEF Doomed, InHand
<1>5. CASE mon.answer = "sent"
  BY <1>1, <1>2, <1>5, DoneRepeat DEF Answered, InHand
<1>6. CASE mon.answer = "failed"
  <2>1. Doomed
    BY <1>1, <1>6 DEF Doomed, InHand
  <2>2. mon' = [Done(t) EXCEPT !.failed = TRUE]
    BY <1>6 DEF Answered
  <2>3. QED BY <1>1, <1>2, <2>1, <2>2, DoneRepeat DEF InHand
<1>7. CASE mon.answer = "refused"
  <2>1. mon' = Failed(t)
    BY <1>7 DEF Answered
  <2>2. QED BY <1>1, <1>2, <1>4, <1>7, <2>1, FailedRepeat DEF InHand
<1>8. QED BY <1>3, <1>5, <1>6, <1>7

LEMMA PassRepeat ==
    ASSUME RepeatInv, FutureInv', NEW t \in Topics, Pass(t)
    PROVE  RepeatInv'
<1>1. /\ mon.pc = "call" /\ mon' = Done(t)
      /\ UNCHANGED <<tracked, queue, worker, refused, blocked, stopping, shown, faults>>
  BY DEF Pass, sendVars
<1>2. ~Awaited(t) /\ mon.pc \in InHand
  BY <1>1 DEF Awaited, InHand
<1>3. QED BY <1>1, <1>2, DoneRepeat

LEMMA GivenContents ==
    ASSUME CarryOk, NEW t \in Topics, NEW i, Gives(t, i)
    PROVE  i \in Contents
<1>1. CarryOf(shown[t], queue[t], worker[t], mon.gen)
  BY DEF CarryOk
<1>2. ASSUME NEW task, Entries(task), task.ids = <<i>> PROVE i \in Contents
  BY <1>2 DEF Entries
<1>3. CASE Has(shown[t], i)
  BY <1>1, <1>3 DEF CarryOf, Has
<1>4. CASE \E k \in DOMAIN queue[t] : queue[t][k].ids = <<i>>
  BY <1>1, <1>2, <1>4 DEF CarryOf
<1>5. CASE worker[t].task.ids = <<i>>
  BY <1>1, <1>2, <1>5 DEF CarryOf
<1>6. QED BY <1>3, <1>4, <1>5 DEF Gives, Given

\* What committing the message in hand does to the session's offset.
LEMMA CommitIs ==
    ASSUME RepeatInv, mon.pc = "call", tracked' = CommittedTo(Current)
    PROVE  /\ Current \in mon.batch /\ Current \in Ids /\ tracked <= tracked'
           /\ IF Plain(Current) THEN tracked' = Line(Current) ELSE tracked' = tracked
<1>1. /\ Typed /\ BatchOk /\ mon \in Monitors /\ mon.batch # {} /\ tracked \in Nat /\ mon.to \in Nat
  <2>1. Typed /\ BatchOk
    BY DEF RepeatInv, FutureInv
  <2>2. mon \in Monitors /\ mon.batch # {} /\ tracked \in 0..LastLine
    BY <2>1 DEF Typed
  <2>3. mon.to \in 0..LastLine /\ mon.batch \in SUBSET Ids
    BY <2>2 DEF Monitors
  <2>4. QED BY <2>1, <2>2, <2>3, Bounds
<1>2. Current \in mon.batch /\ Current \in Ids
  BY <1>1, CurrentIs DEF Monitors
<1>3. Line(Current) \in Nat \ {0}
  BY <1>2, Lines
<1>4. CASE Plain(Current)
  <2>1. tracked <= Line(Current) /\ Line(Current) <= mon.to
    BY <1>1, <1>2, <1>4 DEF BatchOk, BatchOf, InHand
  <2>2. tracked' = Line(Current)
    BY <1>1, <1>3, <1>4, <2>1 DEF CommittedTo, Offset, Plain, Lesser
  <2>3. QED BY <1>2, <1>4, <2>1, <2>2
<1>5. CASE ~Plain(Current)
  <2>1. tracked' = tracked
    BY <1>5 DEF CommittedTo, Offset, Plain
  <2>2. QED BY <1>1, <1>2, <1>5, <2>1
<1>6. QED BY <1>4, <1>5

\* The group goes on with its next message.
LEMMA BatchGoesOn ==
    ASSUME RepeatInv, mon.pc = "call", tracked' = CommittedTo(Current),
           mon'.pc = "next", mon'.batch = mon.batch \ {Current}, mon'.to = mon.to,
           UNCHANGED <<queue, worker, shown>>
    PROVE  BatchOk'
<1>1. /\ Typed /\ BatchOk /\ GivenOk /\ mon \in Monitors /\ mon.batch # {} /\ tracked \in Nat
      /\ mon.batch \in SUBSET Ids
  <2>1. Typed /\ BatchOk /\ GivenOk
    BY DEF RepeatInv, FutureInv
  <2>2. mon \in Monitors /\ mon.batch # {} /\ tracked \in 0..LastLine
    BY <2>1 DEF Typed
  <2>3. mon.to \in 0..LastLine /\ mon.batch \in SUBSET Ids
    BY <2>2 DEF Monitors
  <2>4. QED BY <2>1, <2>2, <2>3, Bounds
<1>2. /\ Current \in mon.batch /\ Current \in Ids /\ tracked <= tracked'
      /\ IF Plain(Current) THEN tracked' = Line(Current) ELSE tracked' = tracked
  BY CommitIs
<1>3. /\ \A i \in Ids : Line(i) \in Nat /\ i \in Nat
      /\ \A i, j \in Ids : i < j => Line(i) <= Line(j)
  BY Lines
<1>4. tracked' \in Nat
  BY <1>1, <1>2, <1>3
<1>5. ASSUME NEW j \in mon.batch \ {Current}, Plain(j) PROVE BatchOf(j)'
  <2>1. /\ tracked <= Line(j) /\ Line(j) <= mon.to
        /\ \A k \in Ids \ mon.batch : k < j /\ Plain(k) /\ Line(k) = Line(j) => Line(k) <= tracked
        /\ \A t \in Topics : Gives(t, j) => tracked < Line(j)
    BY <1>1, <1>5 DEF BatchOk, BatchOf, InHand
  <2>2. j \in Ids /\ Line(j) \in Nat /\ j \in Nat /\ Line(Current) \in Nat /\ Current \in Nat
    BY <1>1, <1>2, <1>3
  <2>3. Plain(Current) => Current < j
    <3>1. Before(Current, j) /\ Current # j
      BY <1>1, <1>5, CurrentIs
    <3>2. QED BY <1>5, <2>2, <3>1 DEF Before, Plain
  <2>4. tracked' <= Line(j)
    BY <1>2, <1>3, <2>1, <2>2, <2>3
  <2>5. ASSUME NEW k \in Ids \ mon'.batch, k < j, Plain(k), Line(k) = Line(j)
        PROVE  Line(k) <= tracked'
    <3>1. CASE k = Current
      BY <1>2, <2>2, <2>5, <3>1
    <3>2. CASE k # Current
      <4>1. Line(k) <= tracked /\ Line(k) \in Nat
        BY <1>3, <2>1, <2>5, <3>2
      <4>2. QED BY <1>1, <1>2, <1>4, <4>1
    <3>3. QED BY <3>1, <3>2
  <2>6. ASSUME NEW t \in Topics, Gives(t, j) PROVE tracked' < Line(j)
    <3>1. tracked < Line(j)
      BY <2>1, <2>6
    <3>2. CASE Plain(Current)
      <4>1. Line(Current) = Line(j) => Line(Current) <= tracked
        BY <1>1, <1>2, <2>2, <2>3, <2>6, <3>2 DEF GivenOk, FirstOnLine
      <4>2. Line(Current) <= Line(j)
        BY <1>2, <1>3, <2>2, <2>3, <3>2
      <4>3. QED BY <1>1, <1>2, <2>2, <3>1, <3>2, <4>1, <4>2
    <3>3. CASE ~Plain(Current)
      BY <1>2, <3>1, <3>3
    <3>4. QED BY <3>2, <3>3
  <2>7. \A t \in Topics : Gives(t, j)' => tracked' < Line(j)
    BY <2>6 DEF Gives
  <2>8. QED BY <2>1, <2>4, <2>5, <2>7 DEF BatchOf
<1>6. QED BY <1>5 DEF BatchOk

LEMMA MessageDoneRepeat ==
    ASSUME RepeatInv, FutureInv', MessageDone
    PROVE  RepeatInv'
<1>1. /\ Typed /\ CarryOk /\ PlaceOk /\ IsFiniteSet(Quarantines) /\ mon \in Monitors
      /\ mon.pc = "call" /\ mon.todo = {} /\ blocked = NoTopic /\ ~stopping
      /\ UNCHANGED <<queue, worker, refused, blocked, stopping, shown>>
  BY DEF RepeatInv, FutureInv, Typed, PlaceOk, MessageDone, sendVars
<1>2. \A t \in Topics : ~Awaited(t)
  BY <1>1 DEF Awaited
<1>3. CASE mon.failed
  <2>1. mon' = Failed(NoTopic) /\ tracked' = tracked /\ faults' = faults
    BY <1>3 DEF MessageDone
  <2>2. Doomed /\ mon.pc \in InHand
    BY <1>1, <1>3 DEF Doomed, InHand
  <2>3. QED BY <1>1, <1>2, <2>1, <2>2, FailedRepeat
<1>4. CASE ~mon.failed
  <2>1. /\ tracked' = CommittedTo(Current) /\ faults' \in {faults, faults + 1}
        /\ ~mon'.failed
        /\ \/ mon'.pc = "settle" /\ mon'.at = NoTopic
           \/ mon'.pc = "next" /\ mon'.batch = mon.batch \ {Current} /\ mon'.to = mon.to
    BY <1>1, <1>4 DEF MessageDone, Idle, Fault, Monitors
  <2>2. PlaceOk' /\ ~Doomed'
    BY <1>1, <2>1 DEF PlaceOk, Doomed, InHand
  <2>3. BatchOk'
    BY <1>1, <2>1, BatchGoesOn, BatchEnds DEF InHand
  <2>4. Excused' = Excused
    BY <1>1, <2>1 DEF Excused
  <2>5. IsFiniteSet(Quarantines') /\ Debt' <= Debt
    BY <1>1, <2>2, <2>4, DebtSame
  <2>6. /\ Current \in Ids /\ tracked <= tracked'
        /\ IF Plain(Current) THEN tracked' = Line(Current) ELSE tracked' = tracked
    BY <1>1, <2>1, CommitIs
  <2>7. Plain(Current) \/ \A t \in Topics : ~Gives(t, Current)
    BY <1>1, GivenContents DEF Plain, Contents
  <2>8. Plain(Current) => Line(Current) <= tracked'
    <3>1. Line(Current) \in Nat
      BY <2>6, Lines
    <3>2. QED BY <2>6, <3>1
  <2>9. Unburdened
    BY <2>1, <2>5, <2>7, <2>8 DEF Unburdened
  <2>10. QED BY <1>1, <1>2, <2>2, <2>3, <2>5, <2>6, <2>9, QuietRepeat
<1>5. QED BY <1>3, <1>4

LEMMA SettleRepeat ==
    ASSUME RepeatInv, FutureInv', Settle
    PROVE  RepeatInv'
<1>1. /\ Typed /\ PlaceOk /\ IsFiniteSet(Quarantines) /\ mon \in Monitors
      /\ mon.pc = "settle" /\ ~stopping /\ mon' = Idle
      /\ UNCHANGED <<queue, worker, refused, stopping, shown, faults>>
  BY DEF RepeatInv, FutureInv, Typed, PlaceOk, Settle, sendVars
<1>2. \A t \in Topics : ~Awaited(t) /\ ~InProcess(t)
  BY <1>1 DEF Awaited, InProcess, InHand
<1>3. mon'.pc = "sleep"
  BY <1>1 DEF Idle
<1>4. PlaceOk' /\ BatchOk' /\ ~Doomed'
  BY <1>3 DEF PlaceOk, BatchOk, Doomed, InHand
<1>5. Excused' = Excused
  <2>1. blocked' = mon.at
    BY <1>1 DEF Settle, PlaceOk
  <2>2. QED BY <1>1, <1>3, <2>1 DEF Excused
<1>6. IsFiniteSet(Quarantines') /\ Debt' <= Debt
  BY <1>1, <1>4, <1>5, DebtSame
<1>7. Unburdened
  BY <1>1, <1>2, <1>6 DEF Unburdened
<1>8. tracked <= tracked'
  <2>1. tracked \in Nat /\ mon.to \in Nat
    BY <1>1, Bounds DEF Typed, Monitors
  <2>2. QED BY <2>1 DEF Settle
<1>9. QED BY <1>1, <1>2, <1>4, <1>6, <1>7, <1>8, QuietRepeat

LEMMA InboundProofRepeat ==
    ASSUME RepeatInv, FutureInv', NEW t \in Topics, InboundProof(t)
    PROVE  RepeatInv'
<1>1. /\ Typed /\ PlaceOk /\ BatchOk /\ IsFiniteSet(Quarantines) /\ NoTopic \notin Topics
      /\ refused' = [refused EXCEPT ![t] = 0] /\ refused \in [Topics -> Nat]
      /\ UNCHANGED <<tracked, mon, queue, worker, route, stopping, shown, faults>>
      /\ blocked' = blocked \/ (blocked = t /\ blocked' = NoTopic)
  BY RefusalBound DEF RepeatInv, FutureInv, Typed, InboundProof
<1>2. OnlyAnswers /\ Current' = Current /\ \A u : InProcess(u)' <=> InProcess(u)
  BY <1>1, CurrentStays DEF OnlyAnswers, InProcess
<1>3. PlaceOk'
  BY <1>1, <1>2 DEF PlaceOk
<1>4. BatchOk'
  <2>1. \A u \in Topics : \A i : Gives(u, i)' => Gives(u, i)
    BY <1>1 DEF Gives
  <2>2. CASE mon.pc \in InHand \cup {"next"}
    BY <1>1, <1>2, <2>1, <2>2, BatchStays
  <2>3. CASE mon.pc \notin InHand \cup {"next"}
    BY <1>1, <2>3, BatchEnds
  <2>4. QED BY <2>2, <2>3
<1>5. ASSUME ~Quarantined(t) PROVE Doomed' => Doomed
  <2>1. \A u \in Topics : /\ Quarantined(u) => Quarantined(u)'
                          /\ WarnsLive(u)' => WarnsLive(u)
    BY <1>1, <1>5 DEF Quarantined, WarnsLive
  <2>2. QED BY <1>1, <2>1, DoomedStays
<1>6. Debt' <= Debt /\ IsFiniteSet(Quarantines')
  BY <1>1, <1>2, <1>5, ReleasePays
<1>7. Unburdened /\ tracked <= tracked'
  BY <1>1, <1>2, <1>6, Bounds DEF Unburdened, Typed
<1>8. QED BY <1>1, <1>3, <1>4, <1>6, <1>7, QuietRepeat

LEMMA RebindRepeat ==
    ASSUME RepeatInv, FutureInv', NEW t \in Topics, Rebind(t)
    PROVE  RepeatInv'
<1>1. /\ Typed /\ PlaceOk /\ BatchOk /\ IsFiniteSet(Quarantines) /\ faults' = faults + 1
      /\ UNCHANGED <<tracked, mon, queue, worker, refused, blocked, stopping, shown>>
  BY DEF RepeatInv, FutureInv, Rebind, Fault
<1>2. Current' = Current /\ \A u : InProcess(u)' <=> InProcess(u)
  BY <1>1, CurrentStays DEF InProcess
<1>3. PlaceOk' /\ Excused' = Excused
  BY <1>1, <1>2 DEF PlaceOk, Excused
<1>4. BatchOk'
  <2>1. \A u \in Topics : \A i : Gives(u, i)' => Gives(u, i)
    BY <1>1 DEF Gives
  <2>2. CASE mon.pc \in InHand \cup {"next"}
    BY <1>1, <1>2, <2>1, <2>2, BatchStays
  <2>3. CASE mon.pc \notin InHand \cup {"next"}
    BY <1>1, <2>3, BatchEnds
  <2>4. QED BY <2>2, <2>3
<1>5. Debt' <= Debt + 1 /\ IsFiniteSet(Quarantines')
  BY <1>1, <1>3, DebtSame
<1>6. Unburdened /\ tracked <= tracked'
  BY <1>1, <1>2, <1>5, Bounds DEF Unburdened, Typed
<1>7. QED BY <1>1, <1>3, <1>4, <1>5, <1>6, QuietRepeat

\* The message in hand is given to t, for the first time since the offset of the session.
LEMMA HandedOnRepeat ==
    ASSUME RepeatInv, FutureInv', NEW t \in Topics, mon.pc \in {"call", "join"}, t \in mon.todo,
           Current \in Contents, UNCHANGED <<tracked, refused, blocked, stopping, faults>>,
           mon'.pc \in InHand, mon'.batch = mon.batch, mon'.to = mon.to,
           PlaceOk', CarryOk', Doomed' => Doomed,
           \A u \in Topics : InProcess(u) => InProcess(u)', InProcess(t)',
           \A u \in Topics \ {t} : (\A i : Gives(u, i)' <=> Gives(u, i)) /\ CopiesOf(u)' = CopiesOf(u),
           \A i : Gives(t, i)' <=> Gives(t, i) \/ i = Current, CopiesOf(t)' = CopiesOf(t) + 1
    PROVE  RepeatInv'
<1>1. /\ Typed /\ Typed' /\ PlaceOk /\ BatchOk /\ GivenOk /\ Paid /\ IsFiniteSet(Quarantines)
  BY DEF RepeatInv, FutureInv
<1>2. /\ Current \in mon.batch /\ Current \in Ids /\ Plain(Current) /\ Current' = Current
      /\ \A j \in mon.batch : Before(Current, j)
  <2>1. mon.batch \in SUBSET Ids /\ mon.batch # {}
    BY <1>1 DEF Typed, Monitors
  <2>2. QED BY <2>1, CurrentIs, CurrentStays DEF Contents, Plain
<1>3. BatchOf(Current)
  BY <1>1, <1>2 DEF BatchOk, InHand
<1>4. ~InProcess(t)
  BY DEF InProcess
<1>5. /\ tracked \in Nat /\ \A i \in Ids : Line(i) \in Nat /\ i \in Nat
  BY <1>1, Bounds, Lines DEF Typed
<1>6. BatchOk'
  <2>1. ASSUME NEW j \in mon.batch, Plain(j) PROVE BatchOf(j)'
    <3>1. BatchOf(j)
      BY <1>1, <2>1 DEF BatchOk, InHand
    <3>2. ASSUME NEW u \in Topics, Gives(u, j)'
          PROVE  tracked < Line(j) \/ (j = Current /\ InProcess(u)')
      <4>1. CASE Gives(u, j)
        BY <3>1, <3>2, <4>1 DEF BatchOf
      <4>2. CASE ~Gives(u, j)
        <5>1. u = t /\ j = Current
          BY <3>2, <4>2
        <5>2. QED BY <5>1
      <4>3. QED BY <4>1, <4>2
    <3>3. QED BY <1>2, <3>1, <3>2 DEF BatchOf
  <2>2. QED BY <2>1 DEF BatchOk
<1>7. GivenOk'
  <2>1. FirstOnLine(Current)
    <3>1. ASSUME NEW k \in Ids, k < Current, Plain(k) PROVE k \notin mon.batch
      BY <1>2, <1>5, <3>1 DEF Before, Plain
    <3>2. QED BY <1>3, <3>1 DEF BatchOf, FirstOnLine
  <2>2. ASSUME NEW u \in Topics, NEW j \in Ids, Gives(u, j)' PROVE FirstOnLine(j)
    <3>1. Gives(u, j) \/ j = Current
      BY <2>2
    <3>2. QED BY <1>1, <2>1, <3>1 DEF GivenOk
  <2>3. QED BY <2>2 DEF GivenOk, FirstOnLine
<1>8. Excused' = Excused
  BY DEF Excused, InHand
<1>9. IsFiniteSet(Quarantines') /\ Debt' <= Debt
  BY <1>1, <1>8, DebtSame
<1>10. Paid'
  <2> SUFFICES ASSUME NEW u \in Topics
               PROVE  CopiesOf(u)' + Debt' <= faults' + Cardinality(Settled(u)')
    BY DEF Paid
  <2>1. /\ CopiesOf(u) \in Nat /\ CopiesOf(u)' \in Nat /\ Debt \in Nat /\ Debt' \in Nat
        /\ faults \in Nat /\ faults' \in Nat
    <3>1. faults \in Nat /\ faults' \in Nat
      BY <1>1, Bounds DEF Typed
    <3>2. QED BY <1>1, <1>9, <3>1, CopiesIs, CopiesNext, OwingIs, DebtNext
  <2>2. CopiesOf(u) + Debt <= faults + Cardinality(Settled(u))
    BY <1>1 DEF Paid
  <2>3. Settled(u) \subseteq Settled(u)'
    <3>1. \A i : Gives(u, i) => Gives(u, i)'
      OBVIOUS
    <3>2. tracked <= tracked'
      BY <1>5
    <3>3. QED BY <1>1, <1>2, <3>1, <3>2, SettledStays
  <2>4. Debt' + faults <= Debt + faults'
    BY <1>9, <2>1, Sums
  <2>5. CASE u = t
    <3>1. Current \notin Settled(t)
      <4>1. Gives(t, Current) => tracked < Line(Current)
        BY <1>3, <1>4 DEF BatchOf
      <4>2. QED BY <1>2, <1>4, <1>5, <4>1 DEF Settled
    <3>2. Current \in Settled(t)'
      BY <1>2 DEF Settled
    <3>3. Settled(u) \cup {Current} \subseteq Settled(u)' /\ Current \notin Settled(u)
      BY <2>3, <2>5, <3>1, <3>2
    <3>4. CopiesOf(u)' <= CopiesOf(u) + 1
      BY <2>1, <2>5
    <3>5. CopiesOf(u)' + Debt' + faults <= CopiesOf(u) + Debt + faults' + 1
      BY <1>9, <2>1, <3>4, Sums
    <3>6. QED BY <1>1, <1>9, <2>2, <3>3, <3>5, PaidFor
  <2>6. CASE u # t
    <3>1. CopiesOf(u)' <= CopiesOf(u)
      BY <2>1, <2>6
    <3>2. CopiesOf(u)' + Debt' + faults <= CopiesOf(u) + Debt + faults'
      BY <2>1, <2>4, <3>1, Sums
    <3>3. QED BY <1>1, <1>9, <2>2, <2>3, <3>2, PaidFor
  <2>7. QED BY <2>5, <2>6
<1>11. QED BY <1>6, <1>7, <1>9, <1>10 DEF RepeatInv

LEMMA EnqueueRepeat ==
    ASSUME RepeatInv, FutureInv', NEW t \in Topics, mon.pc \in {"call", "join"}, t \in mon.todo,
           Current \in Contents, Enqueue(t),
           UNCHANGED <<tracked, worker, refused, blocked, route, stopping, shown, faults>>
    PROVE  RepeatInv'
<1>1. /\ FutureInv /\ Typed /\ CarryOk /\ PlaceOk /\ mon \in Monitors /\ mon.answer = "none"
      /\ queue[t] \in Seq(Tasks) /\ shown[t] \in Seq(Ids)
  BY DEF RepeatInv, FutureInv, Typed
<1>2. \A u \in Topics : ~Awaited(u)
  BY DEF Awaited
<1>3. CASE Quarantined(t) /\ mon' = Failed(t) /\ queue' = queue
  BY <1>2, <1>3, FailedRepeat DEF InHand
<1>4. CASE ~(Quarantined(t) /\ mon' = Failed(t) /\ queue' = queue)
  <2>1. PICK task \in Tasks :
           /\ task.ids = <<Current>> /\ IsLive(task)
           /\ task.gen = mon'.gen /\ mon'.gen = route[t]
           /\ queue' = [queue EXCEPT ![t] = Append(queue[t], task)]
           /\ mon' \in Monitors /\ mon'.pc = "wait" /\ mon'.at = t
           /\ mon'.batch = mon.batch /\ mon'.to = mon.to /\ mon'.todo = mon.todo
           /\ mon'.failed = mon.failed /\ mon'.answer = mon.answer
    BY <1>1, <1>4, EnqueueIs
  <2> DEFINE q2 == Append(queue[t], task)
  <2>2. queue'[t] = q2 /\ \A u \in Topics \ {t} : queue'[u] = queue[u]
    BY <1>1, <2>1 DEF Typed
  <2>3. /\ Cardinality(Pending(q2)) = Cardinality(Pending(queue[t])) + 1
        /\ KeepsIds(queue[t], q2) /\ \E l \in DOMAIN q2 : q2[l] = task
        /\ \A k \in DOMAIN q2 : q2[k] = task \/ \E l \in DOMAIN queue[t] : q2[k] = queue[t][l]
    <3>1. One(task.ids # <<>>) = 1
      BY <2>1 DEF One
    <3>2. QED BY <1>1, <3>1, PendingAppended, AppendTo
  <2> HIDE DEF q2
  <2>4. Current' = Current
    BY <2>1, CurrentStays
  <2>5. PlaceOk'
    BY <1>1, <2>1, <2>4 DEF PlaceOk
  <2>6. \A u \in Topics : ~IsLive(worker[u].task) /\ \A k \in DOMAIN queue[u] : ~IsLive(queue[u][k])
    BY <1>1, <1>2, LiveIsAwaited
  <2>7. CarryOk'
    <3>1. ASSUME NEW u \in Topics PROVE CarryOf(shown'[u], queue'[u], worker'[u], mon'.gen)
      <4>1. CarryOf(shown[u], queue[u], worker[u], mon.gen)
        BY <1>1 DEF CarryOk
      <4>2. Entries(task)
        BY <2>1 DEF Entries, IsLive
      <4>3. CASE u = t
        BY <2>1, <2>2, <2>3, <2>6, <4>1, <4>2, <4>3 DEF CarryOf
      <4>4. CASE u # t
        BY <2>2, <2>6, <4>1, <4>4 DEF CarryOf
      <4>5. QED BY <4>3, <4>4
    <3>2. QED BY <3>1 DEF CarryOk
  <2>8. Doomed' => Doomed
    <3>1. ~WarnsLive(t)'
      BY <2>6 DEF WarnsLive
    <3>2. QED BY <1>1, <2>1, <3>1 DEF Doomed, InHand
  <2>9. InProcess(t)' /\ \A u \in Topics : InProcess(u) => InProcess(u)'
    BY <2>1 DEF InProcess, InHand
  <2>10. \A u \in Topics \ {t} : (\A i : Gives(u, i)' <=> Gives(u, i)) /\ CopiesOf(u)' = CopiesOf(u)
    BY <2>2 DEF Gives, CopiesOf
  <2>11. \A i : Gives(t, i)' <=> Gives(t, i) \/ i = Current
    <3>1. \A i : <<i>> # <<>> /\ (task.ids = <<i>> <=> i = Current)
      BY <2>1
    <3>2. \A i : (\E k \in DOMAIN q2 : q2[k].ids = <<i>>) <=>
                 i = Current \/ \E k \in DOMAIN queue[t] : queue[t][k].ids = <<i>>
      BY <2>3, <3>1 DEF KeepsIds
    <3>3. QED BY <2>2, <3>2 DEF Gives, Given
  <2>12. CopiesOf(t)' = CopiesOf(t) + 1
    <3>1. /\ Len(shown[t]) \in Nat /\ Cardinality(Pending(queue[t])) \in Nat
          /\ One(Unsent(worker[t])) \in {0, 1}
      BY <1>1, IssuedIs
    <3>2. /\ CopiesOf(t) = Len(shown[t]) + Cardinality(Pending(queue[t])) + One(Unsent(worker[t]))
          /\ CopiesOf(t)' = Len(shown[t]) + Cardinality(Pending(q2)) + One(Unsent(worker[t]))
      BY <2>2 DEF CopiesOf, Issued
    <3>3. QED BY <2>3, <3>1, <3>2
  <2>13. mon'.pc \in InHand
    BY <2>1 DEF InHand
  <2>14. QED BY <2>1, <2>5, <2>7, <2>8, <2>9, <2>10, <2>11, <2>12, <2>13, HandedOnRepeat
<1>5. QED BY <1>3, <1>4

LEMMA OfferRepeat ==
    ASSUME RepeatInv, FutureInv', NEW t \in Topics, Offer(t)
    PROVE  RepeatInv'
<1>1. /\ Typed /\ mon.pc = "call" /\ t \in mon.todo /\ Enqueue(t) /\ Kind(Current) = "content"
      /\ UNCHANGED <<tracked, worker, refused, blocked, route, stopping, shown, faults>>
  BY DEF RepeatInv, FutureInv, Offer
<1>2. Current \in Contents
  <2>1. Current \in Ids
    BY <1>1, CurrentIs DEF Typed, Monitors
  <2>2. QED BY <1>1, <2>1 DEF Contents
<1>3. QED BY <1>1, <1>2, EnqueueRepeat

LEMMA AskRepeat ==
    ASSUME RepeatInv, FutureInv', NEW t \in Topics, Ask(t)
    PROVE  RepeatInv'
<1>1. /\ Typed /\ CarryOk /\ PlaceOk /\ mon \in Monitors /\ mon.pc = "join" /\ mon.at = t
      /\ queue[t] \in Seq(Tasks) /\ shown[t] \in Seq(Ids) /\ worker[t].pc = "idle"
      /\ UNCHANGED <<tracked, worker, refused, blocked, route, stopping, faults>>
  BY DEF RepeatInv, FutureInv, Typed, Ask
<1>2. t \in mon.todo /\ Current \in Contents /\ Current \in Ids
  BY <1>1 DEF PlaceOk, Contents
<1>3. CASE Enqueue(t) /\ shown' = shown
  BY <1>1, <1>2, <1>3, EnqueueRepeat
<1>4. CASE ~(Enqueue(t) /\ shown' = shown)
  <2>1. mon' = Done(t) /\ queue' = queue /\ shown' = [shown EXCEPT ![t] = Append(shown[t], Current)]
    BY <1>4 DEF Ask
  <2>2. /\ mon'.pc = "call" /\ mon'.batch = mon.batch /\ mon'.to = mon.to /\ mon'.gen = mon.gen
        /\ mon'.todo = mon.todo \ {t} /\ mon'.failed = mon.failed
    BY <1>1, <2>1 DEF Done, Monitors
  <2> DEFINE s2 == Append(shown[t], Current)
  <2>3. shown'[t] = s2 /\ \A u \in Topics \ {t} : shown'[u] = shown[u]
    BY <1>1, <2>1 DEF Typed
  <2>4. /\ Len(s2) = Len(shown[t]) + 1 /\ \A i : Has(s2, i) <=> i = Current \/ Has(shown[t], i)
    BY <1>1, <1>2, AppendHas
  <2> HIDE DEF s2
  <2>5. PlaceOk' /\ (Doomed' => Doomed)
    BY <1>1, <2>2 DEF PlaceOk, Doomed, InHand
  <2>6. CarryOk'
    <3>1. ASSUME NEW u \in Topics PROVE CarryOf(shown'[u], queue'[u], worker'[u], mon'.gen)
      <4>1. CarryOf(shown[u], queue[u], worker[u], mon.gen)
        BY <1>1 DEF CarryOk
      <4>2. CASE u = t
        <5>1. \A k \in DOMAIN s2 : Has(s2, s2[k])
          BY DEF Has
        <5>2. \A i : Has(shown[t], i) => i \in Contents
          BY <4>1, <4>2 DEF CarryOf, Has
        <5>3. \A k \in DOMAIN s2 : s2[k] \in Contents
          BY <1>2, <2>4, <5>1, <5>2
        <5>4. QED BY <1>1, <2>1, <2>2, <2>3, <4>1, <4>2, <5>3 DEF CarryOf
      <4>3. CASE u # t
        BY <1>1, <2>1, <2>2, <2>3, <4>1, <4>3
      <4>4. QED BY <4>2, <4>3
    <3>2. QED BY <3>1 DEF CarryOk
  <2>7. InProcess(t)' /\ \A u \in Topics : InProcess(u) => InProcess(u)'
    BY <1>1, <2>2 DEF InProcess, InHand
  <2>8. \A u \in Topics \ {t} : (\A i : Gives(u, i)' <=> Gives(u, i)) /\ CopiesOf(u)' = CopiesOf(u)
    BY <1>1, <2>1, <2>3 DEF Gives, CopiesOf
  <2>9. \A i : Gives(t, i)' <=> Gives(t, i) \/ i = Current
    BY <1>1, <2>1, <2>3, <2>4 DEF Gives, Given
  <2>10. CopiesOf(t)' = CopiesOf(t) + 1
    <3>1. /\ Len(shown[t]) \in Nat /\ Cardinality(Pending(queue[t])) \in Nat
          /\ One(Unsent(worker[t])) \in {0, 1}
      BY <1>1, IssuedIs
    <3>2. /\ CopiesOf(t) = Len(shown[t]) + Cardinality(Pending(queue[t])) + One(Unsent(worker[t]))
          /\ CopiesOf(t)' = Len(s2) + Cardinality(Pending(queue[t])) + One(Unsent(worker[t]))
      BY <1>1, <2>1, <2>3 DEF CopiesOf, Issued
    <3>3. QED BY <2>4, <3>1, <3>2
  <2>11. mon'.pc \in InHand
    BY <2>2 DEF InHand
  <2>12. QED BY <1>1, <1>2, <2>2, <2>5, <2>6, <2>7, <2>8, <2>9, <2>10, <2>11, HandedOnRepeat
<1>5. QED BY <1>3, <1>4

LEMMA NoticeRepeat ==
    ASSUME RepeatInv, FutureInv', NEW t \in Topics, Notice(t)
    PROVE  RepeatInv'
<1> DEFINE task == Task(<<>>, "none", route[t])
           q2 == Append(queue[t], task)
<1>1. /\ FutureInv /\ Typed /\ Typed' /\ CarryOk /\ PlaceOk /\ BatchOk /\ GivenOk /\ Paid
      /\ IsFiniteSet(Quarantines)
      /\ queue[t] \in Seq(Tasks) /\ shown[t] \in Seq(Ids)
      /\ queue' = [queue EXCEPT ![t] = q2]
      /\ UNCHANGED <<tracked, mon, worker, refused, blocked, route, stopping, shown, faults>>
  <2>1. RepeatInv /\ FutureInv
    BY DEF RepeatInv
  <2>2. QED BY <2>1 DEF RepeatInv, FutureInv, Typed, Notice, monVars
<1>2. task \in Tasks /\ task.ids = <<>> /\ ~IsLive(task) /\ Entries(task)
  <2>1. <<>> \in Seq(Ids) /\ "none" \in Futures /\ route[t] \in Nat
    BY <1>1 DEF Futures, Typed
  <2>2. task \in Tasks
    BY <2>1, TaskTyped
  <2>3. QED BY <2>2 DEF Task, IsLive, Entries
<1> HIDE DEF task
<1>3. /\ Cardinality(Pending(q2)) = Cardinality(Pending(queue[t]))
      /\ KeepsIds(queue[t], q2)
      /\ \A k \in DOMAIN q2 : q2[k] = task \/ \E l \in DOMAIN queue[t] : q2[k] = queue[t][l]
  <2>1. One(task.ids # <<>>) = 0
    BY <1>2 DEF One
  <2>2. Cardinality(Pending(queue[t])) \in Nat
    BY <1>1, PendingIs
  <2>3. Cardinality(Pending(q2)) = Cardinality(Pending(queue[t])) + 0 /\ KeepsIds(queue[t], q2)
    BY <1>1, <1>2, <2>1, PendingAppended
  <2>4. \A k \in DOMAIN q2 : q2[k] = task \/ \E l \in DOMAIN queue[t] : q2[k] = queue[t][l]
    BY <1>1, <1>2, AppendTo
  <2>5. QED BY <2>2, <2>3, <2>4
<1> HIDE DEF q2
<1>4. queue'[t] = q2 /\ \A u \in Topics \ {t} : queue'[u] = queue[u]
  BY <1>1 DEF Typed
<1>5. CarryOk'
  <2>1. ASSUME NEW u \in Topics PROVE CarryOf(shown'[u], queue'[u], worker'[u], mon'.gen)
    <3>1. CarryOf(shown[u], queue[u], worker[u], mon.gen)
      BY <1>1 DEF CarryOk
    <3>2. CASE u = t
      BY <1>1, <1>2, <1>3, <1>4, <3>1, <3>2 DEF CarryOf
    <3>3. CASE u # t
      BY <1>1, <1>4, <3>1, <3>3
    <3>4. QED BY <3>2, <3>3
  <2>2. QED BY <2>1 DEF CarryOk
<1>6. \A u \in Topics : (\A i : Gives(u, i)' <=> Gives(u, i)) /\ CopiesOf(u)' = CopiesOf(u)
  <2>1. \A i : Gives(t, i)' <=> Gives(t, i)
    <3>1. \A i : <<i>> # <<>>
      OBVIOUS
    <3>2. \A i : (\E k \in DOMAIN q2 : q2[k].ids = <<i>>) <=> \E k \in DOMAIN queue[t] : queue[t][k].ids = <<i>>
      BY <1>2, <1>3, <3>1 DEF KeepsIds
    <3>3. QED BY <1>1, <1>4, <3>2 DEF Gives, Given
  <2>2. CopiesOf(t)' = CopiesOf(t)
    BY <1>1, <1>3, <1>4 DEF CopiesOf, Issued
  <2>3. \A u \in Topics \ {t} : (\A i : Gives(u, i)' <=> Gives(u, i)) /\ CopiesOf(u)' = CopiesOf(u)
    BY <1>1, <1>4 DEF Gives, CopiesOf
  <2>4. QED BY <2>1, <2>2, <2>3
<1>7. Current' = Current /\ \A u : InProcess(u)' <=> InProcess(u)
  BY <1>1, CurrentStays DEF InProcess
<1>8. PlaceOk' /\ Excused' = Excused /\ (Doomed' <=> Doomed)
  BY <1>1, <1>7 DEF PlaceOk, Excused, Doomed, WarnsLive, Quarantined
<1>9. BatchOk'
  <2>1. CASE mon.pc \in InHand \cup {"next"}
    BY <1>1, <1>6, <1>7, <2>1, BatchStays
  <2>2. CASE mon.pc \notin InHand \cup {"next"}
    BY <1>1, <2>2, BatchEnds
  <2>3. QED BY <2>1, <2>2
<1>10. IsFiniteSet(Quarantines') /\ Debt' <= Debt
  BY <1>1, <1>8, DebtSame
<1>11. Unburdened /\ tracked <= tracked'
  BY <1>1, <1>7, <1>10, Bounds DEF Unburdened, Typed
<1>12. \A u \in Topics : CopiesOf(u)' <= CopiesOf(u)
  BY <1>1, <1>6, CopiesIs
<1>13. GivenOk' /\ Paid'
  BY <1>1, <1>6, <1>10, <1>11, <1>12, GivenStays, SamePaid
<1>14. QED BY <1>5, <1>8, <1>9, <1>10, <1>13 DEF RepeatInv

\* Nobody waits any more; the topics keep what they were given.
LEMMA OrphanRepeat ==
    ASSUME RepeatInv, FutureInv', OrphanAll, tracked' = tracked, shown' = shown,
           faults' = faults + 1, IsFiniteSet(Quarantines'), PlaceOk', mon'.pc \in {"sleep", "settle"},
           Debt' <= Debt \/ (Debt' <= Debt + 1 /\ \A t \in Topics : ~InProcess(t))
    PROVE  RepeatInv'
<1>1. /\ Typed /\ Typed' /\ CarryOk /\ GivenOk /\ Paid /\ IsFiniteSet(Quarantines)
  BY DEF RepeatInv, FutureInv
<1>2. ASSUME NEW t \in Topics
      PROVE  /\ worker'[t].pc = worker[t].pc /\ worker'[t].task.ids = worker[t].task.ids
             /\ DOMAIN queue'[t] = DOMAIN queue[t] /\ Pending(queue'[t]) = Pending(queue[t])
             /\ \A k \in DOMAIN queue[t] : queue'[t][k].ids = queue[t][k].ids
  <2>1. queue[t] \in Seq(Tasks)
    BY <1>1 DEF Typed
  <2>2. /\ worker'[t].pc = worker[t].pc /\ worker'[t].task.ids = worker[t].task.ids
        /\ queue'[t] = [k \in DOMAIN queue[t] |-> Orphaned(queue[t][k])]
    BY <1>1, OrphanAllIs
  <2>3. QED BY <2>1, <2>2, PendingOrphaned
<1>3. \A t \in Topics : (\A i : Gives(t, i)' <=> Gives(t, i)) /\ CopiesOf(t)' = CopiesOf(t)
  <2>1. ASSUME NEW t \in Topics PROVE (\A i : Gives(t, i)' <=> Gives(t, i)) /\ CopiesOf(t)' = CopiesOf(t)
    <3>1. \A i : Gives(t, i)' <=> Gives(t, i)
      BY <1>2 DEF Gives, Given, Unsent
    <3>2. CopiesOf(t)' = CopiesOf(t)
      BY <1>2 DEF CopiesOf, Issued, Unsent, One
    <3>3. QED BY <3>1, <3>2
  <2>2. QED BY <2>1
<1>4. CarryOk'
  <2>1. ASSUME NEW t \in Topics PROVE CarryOf(shown'[t], queue'[t], worker'[t], mon'.gen)
    <3>1. CarryOf(shown[t], queue[t], worker[t], mon.gen) /\ queue[t] \in Seq(Tasks)
          /\ worker[t] \in Workers
      BY <1>1 DEF CarryOk, Typed
    <3>2. \A task \in Tasks : Entries(task) => Entries(Orphaned(task)) /\ ~IsLive(Orphaned(task))
      <4>1. \A task \in Tasks : /\ Orphaned(task).ids = task.ids /\ ~IsLive(Orphaned(task))
                                /\ (task.fut # "none" => Orphaned(task).fut # "none")
        BY OrphanedIs DEF Orphaned, Tasks
      <4>2. QED BY <4>1 DEF Entries
    <3>3. /\ queue'[t] = [k \in DOMAIN queue[t] |-> Orphaned(queue[t][k])]
          /\ worker'[t] = [worker[t] EXCEPT !.task = Orphaned(worker[t].task)]
      BY DEF OrphanAll
    <3>4. worker'[t].task = Orphaned(worker[t].task) /\ worker[t].task \in Tasks
      BY <3>1, <3>3 DEF Workers
    <3>5. \A k \in DOMAIN queue[t] : queue[t][k] \in Tasks /\ queue'[t][k] = Orphaned(queue[t][k])
      BY <3>1, <3>3
    <3>6. /\ Entries(worker'[t].task) /\ ~IsLive(worker'[t].task)
          /\ \A k \in DOMAIN queue'[t] : Entries(queue'[t][k]) /\ ~IsLive(queue'[t][k])
      BY <1>2, <3>1, <3>2, <3>4, <3>5 DEF CarryOf
    <3>7. QED BY <1>2, <3>1, <3>6 DEF CarryOf
  <2>2. QED BY <2>1 DEF CarryOk
<1>5. BatchOk'
  BY BatchEnds DEF InHand
<1>6. tracked <= tracked'
  BY <1>1, Bounds DEF Typed
<1>7. \A t \in Topics : CopiesOf(t)' <= CopiesOf(t)
  BY <1>1, <1>3, CopiesIs
<1>8. Unburdened \/ (Debt' <= Debt /\ faults' = faults + 1)
  BY DEF Unburdened
<1>9. GivenOk' /\ Paid'
  BY <1>1, <1>3, <1>6, <1>7, <1>8, GivenStays, SamePaid
<1>10. QED BY <1>4, <1>5, <1>9 DEF RepeatInv

LEMMA TimeoutRepeat ==
    ASSUME RepeatInv, FutureInv', DispatchTimeout
    PROVE  RepeatInv'
<1>1. /\ PlaceOk /\ IsFiniteSet(Quarantines) /\ mon.pc \in {"join", "wait"} /\ mon' = Failed(NoTopic)
      /\ faults' = faults + 1 /\ OrphanAll
      /\ UNCHANGED <<tracked, refused, blocked, stopping, shown>>
  BY DEF RepeatInv, DispatchTimeout, Fault
<1>2. mon'.pc = "settle" /\ mon'.at = NoTopic /\ mon'.failed
  BY <1>1, FailedTyped
<1>3. PlaceOk' /\ ~Doomed' /\ Excused' = Excused
  BY <1>1, <1>2 DEF PlaceOk, Doomed, Excused, InHand
<1>4. IsFiniteSet(Quarantines') /\ Debt' <= Debt
  BY <1>1, <1>3, DebtSame
<1>5. QED BY <1>1, <1>2, <1>3, <1>4, OrphanRepeat

\* The monitor ends, and with it what it knew of a quarantine.
LEMMA EndedOwes ==
    ASSUME Typed, PlaceOk, IsFiniteSet(Quarantines), refused' = refused, ~stopping, mon' = Idle,
           stopping' \/ blocked' = NoTopic
    PROVE  /\ IsFiniteSet(Quarantines')
           /\ Debt' <= Debt \/ (Debt' <= Debt + 1 /\ \A t \in Topics : ~InProcess(t))
<1>1. mon'.pc = "sleep" /\ ~Doomed'
  BY DEF Idle, Doomed, InHand
<1>2. Quarantines' = Quarantines /\ Quarantines \subseteq Topics /\ NoTopic \notin Topics
  BY RefusalBound DEF Quarantines, Quarantined
<1>3. Owing' = Quarantines
  BY <1>1, <1>2 DEF Owing, Excused
<1>4. CASE mon.pc \in InHand
  <2>1. Owing = Quarantines
    BY <1>2, <1>4 DEF Owing, Excused, PlaceOk, InHand
  <2>2. QED BY <1>1, <1>2, <1>3, <2>1, OwesNoMore
<1>5. CASE mon.pc \notin InHand
  <2>1. \E x : Excused = {x}
    BY DEF Excused
  <2>2. \E x : Owing' \subseteq Owing \cup {x}
    BY <1>3, <2>1 DEF Owing
  <2>3. Debt' <= Debt + 1
    BY <1>1, <2>2, OwesOneMore
  <2>4. QED BY <1>2, <1>5, <2>3 DEF InProcess
<1>6. QED BY <1>4, <1>5

LEMMA StopRepeat ==
    ASSUME RepeatInv, FutureInv', Stop
    PROVE  RepeatInv'
<1>1. /\ Typed /\ PlaceOk /\ IsFiniteSet(Quarantines) /\ ~stopping /\ stopping' /\ mon' = Idle
      /\ faults' = faults + 1 /\ OrphanAll /\ UNCHANGED <<tracked, refused, shown>>
  BY DEF RepeatInv, FutureInv, Stop, Fault
<1>2. mon'.pc = "sleep"
  BY <1>1 DEF Idle
<1>3. PlaceOk'
  BY <1>2 DEF PlaceOk
<1>4. QED BY <1>1, <1>2, <1>3, EndedOwes, OrphanRepeat

LEMMA NamedBy ==
    ASSUME NEW K, IsFiniteSet(K), NEW f, NEW T, \A x \in T : \E k \in K : f[k] = x
    PROVE  IsFiniteSet(T) /\ Cardinality(T) <= Cardinality(K)
<1> DEFINE L == {k \in K : f[k] \in T}
           g == [k \in L |-> f[k]]
<1>1. IsFiniteSet(L) /\ Cardinality(L) <= Cardinality(K)
  BY FS_Subset
<1>2. g \in Surjection(L, T)
  BY DEF Surjection
<1>3. IsFiniteSet(T) /\ Cardinality(T) <= Cardinality(L)
  <2> HIDE DEF L, g
  <2>1. QED BY <1>1, <1>2, FS_Surjection
<1>4. /\ Cardinality(T) \in Nat /\ Cardinality(L) \in Nat /\ Cardinality(K) \in Nat
  BY <1>1, <1>3, FS_CardinalityType
<1>5. QED BY <1>1, <1>3, <1>4

\* What a topic was given is displayed or on its way.
LEMMA GivenCounts ==
    ASSUME NEW sh, NEW q \in Seq(Tasks), NEW w, NEW S, NEW T, IsFiniteSet(S), IsFiniteSet(T),
           \A i \in S : Given(sh, q, w, i) /\ (Has(sh, i) => i \in T)
    PROVE  Cardinality(S) <= Cardinality(T) + (Cardinality(Pending(q)) + One(Unsent(w)))
<1> DEFINE f == [k \in Pending(q) |-> q[k].ids[1]]
           P == {i \in S : \E k \in Pending(q) : q[k].ids = <<i>>}
           x == w.task.ids[1]
<1>1. \A i : <<i>> # <<>> /\ <<i>>[1] = i
  OBVIOUS
<1>2. IsFiniteSet(P) /\ Cardinality(P) <= Cardinality(Pending(q))
  <2>1. \A i \in P : \E k \in Pending(q) : f[k] = i
    BY <1>1
  <2> HIDE DEF f, P
  <2>2. QED BY <2>1, PendingIs, NamedBy
<1>3. S \subseteq (T \cup P) \cup {x}
  BY <1>1 DEF Given, Pending
<1>4. ~Unsent(w) => S \subseteq T \cup P
  BY <1>1 DEF Given, Pending
<1> HIDE DEF P, x
<1>5. /\ IsFiniteSet(T \cup P) /\ Cardinality(T \cup P) <= Cardinality(T) + Cardinality(P)
      /\ Cardinality(T) \in Nat /\ Cardinality(P) \in Nat /\ Cardinality(T \cup P) \in Nat
  <2>1. /\ IsFiniteSet(T \cup P) /\ IsFiniteSet(T \cap P)
        /\ Cardinality(T \cup P) = Cardinality(T) + Cardinality(P) - Cardinality(T \cap P)
    <3>1. T \cap P \in SUBSET T
      OBVIOUS
    <3>2. QED BY <1>2, <3>1, FS_Union, FS_Subset
  <2>2. /\ Cardinality(T) \in Nat /\ Cardinality(P) \in Nat /\ Cardinality(T \cap P) \in Nat
        /\ Cardinality(T \cup P) \in Nat
    BY <1>2, <2>1, FS_CardinalityType
  <2>3. QED BY <2>1, <2>2
<1>6. /\ Cardinality(S) \in Nat /\ Cardinality(Pending(q)) \in Nat
  BY PendingIs, FS_CardinalityType
<1>7. CASE Unsent(w)
  <2>1. /\ IsFiniteSet((T \cup P) \cup {x})
        /\ Cardinality((T \cup P) \cup {x}) <= Cardinality(T \cup P) + 1
    <3>1. /\ IsFiniteSet((T \cup P) \cup {x})
          /\ Cardinality((T \cup P) \cup {x}) =
                IF x \in T \cup P THEN Cardinality(T \cup P) ELSE Cardinality(T \cup P) + 1
      BY <1>5, FS_AddElement
    <3>2. QED BY <1>5, <3>1
  <2>2. Cardinality(S) <= Cardinality((T \cup P) \cup {x}) /\ Cardinality((T \cup P) \cup {x}) \in Nat
    BY <1>3, <2>1, FS_Subset, FS_CardinalityType
  <2>3. One(Unsent(w)) = 1
    BY <1>7 DEF One
  <2>4. QED BY <1>2, <1>5, <1>6, <2>1, <2>2, <2>3
<1>8. CASE ~Unsent(w)
  <2>1. Cardinality(S) <= Cardinality(T \cup P)
    BY <1>4, <1>5, <1>8, FS_Subset
  <2>2. One(Unsent(w)) = 0
    BY <1>8 DEF One
  <2>3. QED BY <1>2, <1>5, <1>6, <2>1, <2>2
<1>9. QED BY <1>7, <1>8

LEMMA RestartRepeat ==
    ASSUME RepeatInv, FutureInv', Restart
    PROVE  RepeatInv'
<1>1. /\ FutureInv /\ Typed /\ Typed' /\ CarryOk /\ PlaceOk /\ GivenOk /\ Paid
      /\ IsFiniteSet(Quarantines)
      /\ mon' = Idle /\ mon'.pc = "sleep" /\ ~stopping' /\ blocked' = NoTopic
      /\ queue' = [t \in Topics |-> <<>>] /\ worker' = [t \in Topics |-> Resting]
      /\ UNCHANGED <<tracked, refused, shown>>
      /\ (~stopping /\ faults' = faults + 1) \/ (stopping /\ faults' = faults)
  BY DEF RepeatInv, FutureInv, Restart, Fresh, Idle, Fault
<1>2. PlaceOk' /\ BatchOk' /\ ~Doomed'
  BY <1>1 DEF PlaceOk, BatchOk, Doomed, InHand
<1>3. \A t \in Topics : queue'[t] = <<>> /\ worker'[t] = Resting /\ shown'[t] = shown[t]
  BY <1>1
<1>4. CarryOk'
  <2>1. ASSUME NEW t \in Topics PROVE CarryOf(shown'[t], queue'[t], worker'[t], mon'.gen)
    <3>1. CarryOf(shown[t], queue[t], worker[t], mon.gen)
      BY <1>1 DEF CarryOk
    <3>2. QED BY <1>3, <3>1, RestingIs DEF CarryOf
  <2>2. QED BY <2>1 DEF CarryOk
<1>5. \A t \in Topics : \A i : Gives(t, i)' <=> Has(shown[t], i)
  BY <1>3, RestingIs DEF Gives, Given
<1>6. tracked \in Nat /\ tracked' \in Nat /\ faults \in Nat /\ faults' \in Nat
  BY <1>1, Bounds DEF Typed
<1>7. GivenOk'
  <2>1. \A u \in Topics : \A i : Gives(u, i)' => Gives(u, i)
    BY <1>5 DEF Gives, Given
  <2>2. QED BY <1>1, <1>6, <2>1, GivenStays
<1>8. /\ IsFiniteSet(Quarantines')
      /\ \/ Debt' <= Debt /\ faults' = faults + 1
         \/ Debt' <= Debt + 1 /\ faults' = faults + 1 /\ \A t \in Topics : ~InProcess(t)
         \/ Debt' <= Debt /\ faults' = faults /\ \A t \in Topics : ~InProcess(t)
  <2>1. CASE ~stopping
    BY <1>1, <2>1, EndedOwes
  <2>2. CASE stopping
    <3>1. Quarantines' = Quarantines /\ Quarantines \subseteq Topics /\ NoTopic \notin Topics
      BY <1>1, RefusalBound DEF Quarantines, Quarantined
    <3>2. Owing' = Owing
      BY <1>1, <2>2, <3>1 DEF Owing, Excused
    <3>3. Debt' <= Debt
      BY <1>1, <1>2, <3>2, OwesNoMore
    <3>4. \A t \in Topics : ~InProcess(t)
      BY <1>1, <2>2 DEF InProcess, PlaceOk, InHand
    <3>5. QED BY <1>1, <2>2, <3>1, <3>3, <3>4
  <2>3. QED BY <2>1, <2>2
<1>9. Paid'
  <2> SUFFICES ASSUME NEW t \in Topics
               PROVE  CopiesOf(t)' + Debt' <= faults' + Cardinality(Settled(t)')
    BY DEF Paid
  <2> DEFINE lost == Cardinality(Pending(queue[t])) + One(Unsent(worker[t]))
             S == Settled(t)
             S2 == Settled(t)'
             b == One(InProcess(t))
  <2>1. /\ queue[t] \in Seq(Tasks) /\ shown[t] \in Seq(Ids) /\ Len(shown[t]) \in Nat
        /\ Cardinality(Pending(queue[t])) \in Nat /\ One(Unsent(worker[t])) \in {0, 1}
    <3>1. queue[t] \in Seq(Tasks) /\ shown[t] \in Seq(Ids)
      BY <1>1 DEF Typed
    <3>2. QED BY <3>1, IssuedIs
  <2>2. CopiesOf(t) = Len(shown[t]) + lost /\ lost \in Nat
    BY <2>1 DEF CopiesOf, Issued
  <2>3. CopiesOf(t)' = Len(shown[t])
    <3>1. Cardinality(Pending(<<>>)) = 0
      <4>1. Pending(<<>>) = {}
        BY DEF Pending
      <4>2. QED BY <4>1, FS_EmptySet
    <3>2. One(Unsent(Resting)) = 0
      BY RestingIs DEF One
    <3>3. CopiesOf(t)' = Len(shown[t]) + Cardinality(Pending(<<>>)) + One(Unsent(Resting))
      BY <1>3 DEF CopiesOf, Issued
    <3>4. QED BY <2>1, <3>1, <3>2, <3>3
  <2>4. Debt \in Nat /\ Debt' \in Nat /\ IsFiniteSet(S) /\ Cardinality(S) \in Nat
        /\ IsFiniteSet(S2) /\ Cardinality(S2) \in Nat /\ b \in {0, 1}
    BY <1>1, <1>8, OwingIs, DebtNext, SettledIs, SettledNext DEF One
  <2>5. Len(shown[t]) + lost + Debt <= faults + Cardinality(S)
    BY <1>1, <2>2 DEF Paid
  <2>6. \A i \in S \ {Current} : Given(shown[t], queue[t], worker[t], i) /\ (Has(shown[t], i) => i \in S2)
    BY <1>1, <1>5 DEF Settled, Gives
  <2>7. ~InProcess(t) => \A i \in S : Given(shown[t], queue[t], worker[t], i) /\ (Has(shown[t], i) => i \in S2)
    BY <1>1, <1>5 DEF Settled, Gives
  <2> HIDE DEF S, S2, lost, b
  <2>8. Cardinality(S) <= (Cardinality(S2) + lost) + b
    <3>1. CASE InProcess(t)
      <4>1. IsFiniteSet(S \ {Current}) /\ Cardinality(S) <= Cardinality(S \ {Current}) + 1
        <5>1. IsFiniteSet(S \ {Current}) /\ Cardinality(S \ {Current}) =
                 IF Current \in S THEN Cardinality(S) - 1 ELSE Cardinality(S)
          BY <2>4, FS_RemoveElement
        <5>2. QED BY <2>4, <5>1
      <4>2. Cardinality(S \ {Current}) <= Cardinality(S2) + lost
        BY <2>1, <2>4, <2>6, <4>1, GivenCounts DEF lost
      <4>3. b = 1 /\ Cardinality(S \ {Current}) \in Nat
        BY <3>1, <4>1, FS_CardinalityType DEF b, One
      <4>4. QED BY <2>2, <2>4, <4>1, <4>2, <4>3
    <3>2. CASE ~InProcess(t)
      <4>1. Cardinality(S) <= Cardinality(S2) + lost
        BY <2>1, <2>4, <2>7, <3>2, GivenCounts DEF lost
      <4>2. b = 0
        BY <3>2 DEF b, One
      <4>3. QED BY <2>2, <2>4, <4>1, <4>2
    <3>3. QED BY <3>1, <3>2
  <2>9. \/ b = 0 /\ Debt' <= Debt /\ faults' = faults
        \/ b = 0 /\ Debt' <= Debt + 1 /\ faults' = faults + 1
        \/ Debt' <= Debt /\ faults' = faults + 1
    BY <1>8 DEF b, One
  <2>10. Len(shown[t]) + Debt' <= faults' + Cardinality(S2)
    <3> DEFINE c == Len(shown[t])
               d == Debt
               d2 == Debt'
               s == Cardinality(S)
               s2 == Cardinality(S2)
               f == faults
               f2 == faults'
    <3>1. /\ c \in Nat /\ d \in Nat /\ d2 \in Nat /\ s \in Nat /\ s2 \in Nat
          /\ f \in Nat /\ f2 \in Nat /\ lost \in Nat /\ b \in {0, 1}
      BY <1>6, <2>1, <2>2, <2>4
    <3>2. /\ c + lost + d <= f + s /\ s <= (s2 + lost) + b
          /\ \/ b = 0 /\ d2 <= d /\ f2 = f
             \/ b = 0 /\ d2 <= d + 1 /\ f2 = f + 1
             \/ d2 <= d /\ f2 = f + 1
      BY <2>5, <2>8, <2>9
    <3> HIDE DEF c, d, d2, s, s2, f, f2
    <3>3. c + d2 <= f2 + s2
      BY <3>1, <3>2
    <3>4. QED BY <3>3 DEF c, d2, f2, s2
  <2>11. QED BY <2>3, <2>10 DEF S2
<1>10. QED BY <1>2, <1>4, <1>7, <1>8, <1>9 DEF RepeatInv

LEMMA RepeatInit == Init => RepeatInv
<1> SUFFICES ASSUME Init PROVE RepeatInv
  OBVIOUS
<1>1. /\ FutureInv /\ mon.pc = "sleep" /\ faults = 0
      /\ \A t \in Topics : queue[t] = <<>> /\ worker[t] = Resting /\ shown[t] = <<>>
  BY FutureInit DEF Init, Idle
<1>2. PlaceOk /\ BatchOk /\ ~Doomed
  BY <1>1 DEF PlaceOk, BatchOk, Doomed, InHand
<1>3. \A t \in Topics : CarryOf(shown[t], queue[t], worker[t], mon.gen) /\ \A i : ~Gives(t, i)
  BY <1>1, RestingIs DEF CarryOf, Gives, Given, Has
<1>4. CarryOk /\ GivenOk
  BY <1>3 DEF CarryOk, GivenOk
<1>5. Quarantines = {} /\ IsFiniteSet(Quarantines) /\ Cardinality({}) = 0
  <2>1. ~(0 >= RefusalLimit)
    BY RefusalBound
  <2>2. \A t \in Topics : ~Quarantined(t)
    BY <2>1 DEF Init, Quarantined
  <2>3. QED BY <2>2, FS_EmptySet DEF Quarantines
<1>6. Debt = 0
  <2>1. Owing = {} /\ One(Doomed) = 0
    BY <1>2, <1>5 DEF Owing, One
  <2>2. QED BY <1>5, <2>1 DEF Debt
<1>7. Paid
  <2>1. ASSUME NEW t \in Topics PROVE CopiesOf(t) + Debt <= faults + Cardinality(Settled(t))
    <3>1. Cardinality(Pending(<<>>)) = 0
      <4>1. Pending(<<>>) = {}
        BY DEF Pending
      <4>2. QED BY <1>5, <4>1
    <3>2. One(Unsent(Resting)) = 0
      BY RestingIs DEF One
    <3>3. CopiesOf(t) = 0
      <4>1. CopiesOf(t) = Len(<<>>) + Cardinality(Pending(<<>>)) + One(Unsent(Resting))
        BY <1>1 DEF CopiesOf, Issued
      <4>2. QED BY <3>1, <3>2, <4>1
    <3>4. Cardinality(Settled(t)) \in Nat
      BY SettledIs
    <3>5. QED BY <1>1, <1>6, <3>3, <3>4
  <2>2. QED BY <2>1 DEF Paid
<1>8. QED BY <1>1, <1>2, <1>4, <1>5, <1>7 DEF RepeatInv

LEMMA RepeatStep ==
    ASSUME RepeatInv, [Next]_vars
    PROVE  RepeatInv'
<1>1. FutureInv'
  BY FutureStep DEF RepeatInv
<1>2. CASE Write \/ FloodEnds \/ BackoffDue \/ UNCHANGED vars
  <2>1. UNCHANGED <<tracked, mon, queue, worker, refused, blocked, route, stopping, shown, faults>>
    BY <1>2 DEF Write, FloodEnds, BackoffDue, vars, monVars, sendVars
  <2>2. QED BY <1>1, <2>1, AsideRepeat
<1>3. CASE Poll \/ NextMessage \/ MessageDone \/ Settle
  BY <1>1, <1>3, PollRepeat, NextMessageRepeat, MessageDoneRepeat, SettleRepeat
<1>4. CASE DispatchTimeout \/ Stop \/ Restart
  BY <1>1, <1>4, TimeoutRepeat, StopRepeat, RestartRepeat
<1>5. ASSUME NEW t \in Topics,
             Pass(t) \/ AwaitQueue(t) \/ Offer(t) \/ Ask(t) \/ Answered(t)
      PROVE  RepeatInv'
  BY <1>1, <1>5, PassRepeat, AwaitQueueRepeat, OfferRepeat, AskRepeat, AnsweredRepeat
<1>6. ASSUME NEW t \in Topics,
             Worker(t) \/ SendFails(t) \/ SendLimited(t) \/ SendRefused(t)
      PROVE  RepeatInv'
  BY <1>1, <1>6, WorkingRepeat
<1>7. ASSUME NEW t \in Topics, Notice(t) \/ InboundProof(t) \/ Rebind(t)
      PROVE  RepeatInv'
  BY <1>1, <1>7, NoticeRepeat, InboundProofRepeat, RebindRepeat
<1>8. QED BY <1>2, <1>3, <1>4, <1>5, <1>6, <1>7 DEF Next, Monitor

\* What is shown more than once is shown more often than there are entries in it.
LEMMA RepeatsCount ==
    ASSUME NEW t, shown[t] \in Seq(Ids)
    PROVE  LET D == {i \in Ids : Has(shown[t], i)}
           IN  /\ IsFiniteSet(D) /\ Cardinality(D) \in Nat /\ Cardinality(RepeatsOf(t)) \in Nat
               /\ Cardinality(RepeatsOf(t)) + Cardinality(D) <= Len(shown[t])
<1> DEFINE sh == shown[t]
           D == {i \in Ids : Has(sh, i)}
           R == RepeatsOf(t)
           F == DOMAIN sh \ R
<1>1. /\ Len(sh) \in Nat /\ DOMAIN sh = 1..Len(sh) /\ DOMAIN sh \in SUBSET Nat
      /\ IsFiniteSet(DOMAIN sh) /\ Cardinality(DOMAIN sh) = Len(sh)
  <2>1. Len(sh) \in Nat /\ DOMAIN sh = 1..Len(sh)
    BY LenProperties
  <2>2. IsFiniteSet(1..Len(sh)) /\ Cardinality(1..Len(sh)) = Len(sh)
    BY <2>1, FS_Interval
  <2>3. QED BY <2>1, <2>2
<1>2. R \in SUBSET DOMAIN sh
  BY DEF RepeatsOf
<1>3. ASSUME NEW i \in D PROVE \E k \in F : sh[k] = i
  <2> DEFINE K == {k \in DOMAIN sh : sh[k] = i}
  <2>1. K \in SUBSET Nat /\ K # {}
    BY <1>1, <1>3 DEF Has
  <2>2. PICK k \in K : \A l \in K : k <= l
    BY <2>1, Least
  <2>3. ASSUME NEW l \in DOMAIN sh, l < k, sh[l] = sh[k] PROVE FALSE
    <3>1. l \in K /\ l \in Nat /\ k \in Nat
      BY <1>1, <2>2, <2>3
    <3>2. k <= l
      BY <2>2, <3>1
    <3>3. QED BY <2>3, <3>1, <3>2
  <2>4. k \notin R
    BY <2>3 DEF RepeatsOf
  <2>5. QED BY <2>2, <2>4
<1> HIDE DEF sh, D, R
<1>4. /\ IsFiniteSet(R) /\ Cardinality(R) \in Nat
      /\ IsFiniteSet(F) /\ Cardinality(F) = Len(sh) - Cardinality(R)
  <2>1. IsFiniteSet(R) /\ DOMAIN sh \cap R = R
    BY <1>1, <1>2, FS_Subset
  <2>2. IsFiniteSet(F) /\ Cardinality(F) = Cardinality(DOMAIN sh) - Cardinality(DOMAIN sh \cap R)
    BY <1>1, FS_Difference
  <2>3. QED BY <1>1, <2>1, <2>2, FS_CardinalityType
<1>5. IsFiniteSet(D) /\ Cardinality(D) <= Cardinality(F)
  <2> HIDE DEF F
  <2>1. QED BY <1>3, <1>4, NamedBy
<1>6. Cardinality(D) \in Nat
  BY <1>5, FS_CardinalityType
<1>7. QED BY <1>1, <1>4, <1>5, <1>6 DEF sh, D, R

\* Output is repeated only when something went wrong: in each topic no more often than there
\* were failed, limited or refused sends, slow or timed-out groups, rebinds, stops and crashes.
THEOREM RepeatsArePaid == Spec => []OnlyFaultsRepeat
<1>1. Init => RepeatInv
  BY RepeatInit
<1>2. RepeatInv /\ [Next]_vars => RepeatInv'
  BY RepeatStep
<1>3. RepeatInv => OnlyFaultsRepeat
  <2> SUFFICES ASSUME RepeatInv, NEW t \in Topics
               PROVE  Cardinality(RepeatsOf(t)) <= faults
    BY DEF OnlyFaultsRepeat
  <2> DEFINE D == {i \in Ids : Has(shown[t], i)}
             lost == Cardinality(Pending(queue[t])) + One(Unsent(worker[t]))
  <2>1. /\ Typed /\ Paid /\ IsFiniteSet(Quarantines)
        /\ queue[t] \in Seq(Tasks) /\ shown[t] \in Seq(Ids)
    BY DEF RepeatInv, FutureInv, Typed
  <2>2. /\ IsFiniteSet(D) /\ Cardinality(D) \in Nat /\ Cardinality(RepeatsOf(t)) \in Nat
        /\ Cardinality(RepeatsOf(t)) + Cardinality(D) <= Len(shown[t])
    BY <2>1, RepeatsCount
  <2>3. \A i \in Settled(t) : /\ Given(shown[t], queue[t], worker[t], i)
                              /\ Has(shown[t], i) => i \in D
    BY DEF Settled, Gives
  <2>4. /\ Len(shown[t]) \in Nat /\ Cardinality(Pending(queue[t])) \in Nat
        /\ One(Unsent(worker[t])) \in {0, 1}
    BY <2>1, IssuedIs
  <2>5. CopiesOf(t) = Len(shown[t]) + lost /\ lost \in Nat
    BY <2>4 DEF CopiesOf, Issued
  <2> HIDE DEF D
  <2>6. Cardinality(Settled(t)) <= Cardinality(D) + lost
    BY <2>1, <2>2, <2>3, SettledIs, GivenCounts
  <2> HIDE DEF lost
  <2>7. Debt \in Nat /\ Cardinality(Settled(t)) \in Nat /\ faults \in Nat
    <3>1. faults \in Nat
      BY <2>1, Bounds DEF Typed
    <3>2. QED BY <2>1, <3>1, OwingIs, SettledIs
  <2>8. Len(shown[t]) + lost + Debt <= faults + Cardinality(Settled(t))
    BY <2>1, <2>5 DEF Paid
  <2>9. QED BY <2>2, <2>4, <2>5, <2>6, <2>7, <2>8
<1>4. QED BY <1>1, <1>2, <1>3, PTL DEF Spec
=============================================================================
