------------------------- MODULE QueueCustody_proofs -------------------------
(***************************************************************************)
(* Who holds a prompt between its acceptance and its end: proofs about     *)
(* AgentInputQueue.  CustodyInv says, for each topic, which prompts its    *)
(* deques, its drain and the holder of its lock have, and that together    *)
(* they have all that waits in the spool.  It holds whatever happens.  The *)
(* sections after it add, one at a time, who confirms what was sent, who   *)
(* works on what is held, what is reserved and what is protected; those    *)
(* that need it name the events they exclude.                              *)
(***************************************************************************)
EXTENDS AgentInputQueue_proofs

-------------------------------------------------------------------------------
(* Sequences of ids.                                                        *)

Ordered(q) == \A i, j \in DOMAIN q : i < j => q[i] < q[j]

LEMMA EmptyQueue == IdsOf(<<>>) = {} /\ Ordered(<<>>)
BY DEF IdsOf, Ordered

LEMMA OneInQueue == \A p : IdsOf(<<p>>) = {p}
BY DEF IdsOf

LEMMA IdsOfType ==
    ASSUME NEW q \in Seq(Ids)
    PROVE  IdsOf(q) \subseteq Ids
BY ElementOfSeq, LenProperties DEF IdsOf

\* What popleft takes away and what it leaves.
LEMMA TailOfQueue ==
    ASSUME NEW q \in Seq(Ids), q # <<>>
    PROVE  /\ Tail(q) \in Seq(Ids) /\ Head(q) \in IdsOf(q)
           /\ IdsOf(q) = {Head(q)} \cup IdsOf(Tail(q))
           /\ Ordered(q) => Ordered(Tail(q))
           /\ Ordered(q) => \A p \in IdsOf(Tail(q)) : Head(q) < p
<1>1. Len(q) \in Nat \ {0} /\ DOMAIN q = 1..Len(q)
  BY EmptySeq, LenProperties
<1>2. Tail(q) \in Seq(Ids) /\ DOMAIN Tail(q) = 1..Len(q) - 1 /\ Head(q) = q[1]
      /\ \A i \in 1..Len(q) - 1 : Tail(q)[i] = q[i + 1]
  BY <1>1
<1>3. Head(q) \in IdsOf(q)
  BY <1>1, <1>2 DEF IdsOf
<1>4. IdsOf(q) \subseteq {Head(q)} \cup IdsOf(Tail(q))
  <2> SUFFICES ASSUME NEW i \in 1..Len(q) PROVE q[i] \in {Head(q)} \cup IdsOf(Tail(q))
    BY <1>1 DEF IdsOf
  <2>1. CASE i = 1
    BY <1>2, <2>1
  <2>2. CASE i # 1
    <3>1. i - 1 \in 1..Len(q) - 1 /\ q[i] = Tail(q)[i - 1]
      BY <1>1, <1>2, <2>2
    <3>2. QED BY <1>2, <3>1 DEF IdsOf
  <2>3. QED BY <2>1, <2>2
<1>5. IdsOf(Tail(q)) \subseteq IdsOf(q)
  <2> SUFFICES ASSUME NEW i \in 1..Len(q) - 1 PROVE Tail(q)[i] \in IdsOf(q)
    BY <1>2 DEF IdsOf
  <2>1. i + 1 \in 1..Len(q)
    BY <1>1
  <2>2. QED BY <1>1, <1>2, <2>1 DEF IdsOf
<1>6. Ordered(q) => Ordered(Tail(q))
  <2> SUFFICES ASSUME Ordered(q), NEW i \in 1..Len(q) - 1, NEW j \in 1..Len(q) - 1, i < j
               PROVE  Tail(q)[i] < Tail(q)[j]
    BY <1>2 DEF Ordered
  <2>1. i + 1 \in 1..Len(q) /\ j + 1 \in 1..Len(q) /\ i + 1 < j + 1
    BY <1>1
  <2>2. q[i + 1] < q[j + 1]
    BY <1>1, <2>1 DEF Ordered
  <2>3. QED BY <1>2, <2>2
<1>7. Ordered(q) => \A p \in IdsOf(Tail(q)) : Head(q) < p
  <2> SUFFICES ASSUME Ordered(q), NEW i \in 1..Len(q) - 1 PROVE Head(q) < Tail(q)[i]
    BY <1>2 DEF IdsOf
  <2>1. 1 \in 1..Len(q) /\ i + 1 \in 1..Len(q) /\ 1 < i + 1
    BY <1>1
  <2>2. q[1] < q[i + 1]
    BY <1>1, <2>1 DEF Ordered
  <2>3. QED BY <1>2, <2>2
<1>8. QED BY <1>2, <1>3, <1>4, <1>5, <1>6, <1>7

\* A prompt behind all others.
LEMMA AppendToQueue ==
    ASSUME NEW q \in Seq(Ids), NEW n \in Ids
    PROVE  /\ Append(q, n) \in Seq(Ids) /\ Append(q, n) # <<>>
           /\ IdsOf(Append(q, n)) = IdsOf(q) \cup {n}
           /\ q # <<>> => Head(Append(q, n)) = Head(q)
           /\ Ordered(q) /\ (\A p \in IdsOf(q) : p < n) => Ordered(Append(q, n))
<1> DEFINE a == Append(q, n)
<1>1. Len(q) \in Nat /\ DOMAIN q = 1..Len(q)
  BY LenProperties
<1>2. a \in Seq(Ids) /\ Len(a) = Len(q) + 1 /\ DOMAIN a = 1..Len(q) + 1
      /\ a[Len(q) + 1] = n /\ \A i \in 1..Len(q) : a[i] = q[i]
  BY <1>1
<1>3. a # <<>>
  BY <1>1, <1>2, EmptySeq
<1> HIDE DEF a
<1>4. IdsOf(a) = IdsOf(q) \cup {n}
  <2>1. \A i \in 1..Len(q) + 1 : i \in 1..Len(q) \/ i = Len(q) + 1
    BY <1>1
  <2>2. Len(q) + 1 \in 1..Len(q) + 1 /\ 1..Len(q) \subseteq 1..Len(q) + 1
    BY <1>1
  <2>3. QED BY <1>1, <1>2, <2>1, <2>2 DEF IdsOf
<1>5. q # <<>> => Head(a) = Head(q)
  <2> SUFFICES ASSUME q # <<>> PROVE Head(a) = Head(q)
    OBVIOUS
  <2>1. 1 \in 1..Len(q) /\ Head(q) = q[1]
    BY <1>1, EmptySeq
  <2>2. Head(a) = a[1]
    BY <1>2, <1>3
  <2>3. QED BY <1>2, <2>1, <2>2
<1>6. ASSUME Ordered(q), \A p \in IdsOf(q) : p < n PROVE Ordered(a)
  <2> SUFFICES ASSUME NEW i \in 1..Len(q) + 1, NEW j \in 1..Len(q) + 1, i < j PROVE a[i] < a[j]
    BY <1>2 DEF Ordered
  <2>1. i \in 1..Len(q) /\ a[i] = q[i] /\ a[i] \in IdsOf(q)
    BY <1>1, <1>2 DEF IdsOf
  <2>2. CASE j = Len(q) + 1
    BY <1>2, <1>6, <2>1, <2>2
  <2>3. CASE j # Len(q) + 1
    <3>1. j \in 1..Len(q) /\ a[j] = q[j]
      BY <1>1, <1>2, <2>3
    <3>2. QED BY <1>1, <1>6, <2>1, <3>1 DEF Ordered
  <2>4. QED BY <2>2, <2>3
<1>7. QED BY <1>2, <1>3, <1>4, <1>5, <1>6 DEF a

\* The prompts behind the first n.
LEMMA RestOfQueue ==
    ASSUME NEW q \in Seq(Ids), NEW n \in 1..Len(q)
    PROVE  /\ SubSeq(q, n + 1, Len(q)) \in Seq(Ids)
           /\ IdsOf(q) = {q[i] : i \in 1..n} \cup IdsOf(SubSeq(q, n + 1, Len(q)))
           /\ Ordered(q) => /\ Ordered(SubSeq(q, n + 1, Len(q)))
                            /\ IdsOf(SubSeq(q, n + 1, Len(q))) \cap {q[i] : i \in 1..n} = {}
           /\ n = Len(q) => SubSeq(q, n + 1, Len(q)) = <<>>
           /\ n # Len(q) => SubSeq(q, n + 1, Len(q)) # <<>>
<1> DEFINE s == SubSeq(q, n + 1, Len(q))
<1> HIDE DEF s
<1>1. Len(q) \in Nat /\ DOMAIN q = 1..Len(q) /\ n \in Nat /\ n >= 1 /\ n <= Len(q)
  BY LenProperties
<1>0. \A l \in Nat : \A k \in Nat : k <= l => (IF k + 1 <= l THEN (l - (k + 1)) + 1 ELSE 0) = l - k
  OBVIOUS
<1>2. s \in Seq(Ids) /\ Len(s) = Len(q) - n /\ DOMAIN s = 1..Len(q) - n
      /\ \A i \in 1..Len(q) - n : s[i] = q[n + i]
  <2>1. n + 1 \in Int /\ Len(q) \in Int /\ (Len(q) - (n + 1)) + 1 = Len(q) - n
        /\ \A i \in 1..Len(q) - n : (n + 1 + i) - 1 = n + i
    BY <1>1
  <2>2. \A i \in (n + 1)..Len(q) : q[i] \in Ids
    BY <1>1, ElementOfSeq
  <2>3. /\ s \in Seq(Ids)
        /\ Len(s) = IF n + 1 <= Len(q) THEN (Len(q) - (n + 1)) + 1 ELSE 0
        /\ \A i \in 1..(Len(q) - (n + 1)) + 1 : s[i] = q[(n + 1 + i) - 1]
    BY <2>1, <2>2, SubSeqProperties DEF s
  <2>4. Len(s) = Len(q) - n
    BY <1>1, <1>0, <2>3, Zenon
  <2>5. DOMAIN s = 1..Len(s)
    BY <2>3, LenProperties
  <2>6. \A i \in 1..Len(q) - n : s[i] = q[n + i]
    BY <2>1, <2>3
  <2>7. QED BY <2>3, <2>4, <2>5, <2>6
<1>3. IdsOf(q) \subseteq {q[i] : i \in 1..n} \cup IdsOf(s)
  <2> SUFFICES ASSUME NEW i \in 1..Len(q), i \notin 1..n PROVE q[i] \in IdsOf(s)
    BY <1>1 DEF IdsOf
  <2>1. i - n \in 1..Len(q) - n /\ q[i] = s[i - n]
    BY <1>1, <1>2
  <2>2. QED BY <1>2, <2>1 DEF IdsOf
<1>4. {q[i] : i \in 1..n} \cup IdsOf(s) \subseteq IdsOf(q)
  <2>1. \A i \in 1..n : i \in 1..Len(q)
    BY <1>1
  <2>2. \A i \in 1..Len(q) - n : n + i \in 1..Len(q)
    BY <1>1
  <2>3. QED BY <1>1, <1>2, <2>1, <2>2 DEF IdsOf
<1>5. ASSUME Ordered(q) PROVE Ordered(s) /\ IdsOf(s) \cap {q[i] : i \in 1..n} = {}
  <2>1. Ordered(s)
    <3> SUFFICES ASSUME NEW i \in 1..Len(q) - n, NEW j \in 1..Len(q) - n, i < j
                 PROVE  s[i] < s[j]
      BY <1>2 DEF Ordered
    <3>1. n + i \in 1..Len(q) /\ n + j \in 1..Len(q) /\ n + i < n + j
      BY <1>1
    <3>2. QED BY <1>1, <1>2, <1>5, <3>1 DEF Ordered
  <2>2. ASSUME NEW i \in 1..n, NEW j \in 1..Len(q) - n PROVE q[i] # s[j]
    <3>1. i \in 1..Len(q) /\ n + j \in 1..Len(q) /\ i < n + j
      BY <1>1
    <3>2. q[i] < q[n + j] /\ q[i] \in Ids /\ q[n + j] \in Ids
      BY <1>1, <1>5, <3>1, ElementOfSeq DEF Ordered
    <3>3. q[i] \in Nat /\ q[n + j] \in Nat
      BY <3>2, IdsAreNats
    <3>4. QED BY <1>2, <3>2, <3>3
  <2>3. QED BY <1>2, <2>1, <2>2 DEF IdsOf
<1>6. (n = Len(q) => s = <<>>) /\ (n # Len(q) => s # <<>>)
  <2>1. s = <<>> <=> Len(s) = 0
    BY <1>2, EmptySeq
  <2>2. \A l \in Nat : \A k \in Nat : k <= l => (k = l <=> l - k = 0)
    OBVIOUS
  <2>3. Len(s) = Len(q) - n
    BY <1>2
  <2>4. QED BY <1>1, <2>1, <2>2, <2>3, Zenon
<1>7. QED BY <1>2, <1>3, <1>4, <1>5, <1>6 DEF s

-------------------------------------------------------------------------------
(* Who holds what.  The parts of a topic's state are given as arguments: qs *)
(* its deques, d its drain, s the holder of its lock; rws is the spool and  *)
(* ph the phase.                                                            *)

\* Pcs of a drain that has chosen a prompt, and of one that has handed it over.
InHand == {"baseline", "nbaseline", "send", "nsend"}
HandedOver == {"send", "nsend", "refresh"}

Belongs(r, w, rws, p) == rws[p].route = r /\ rws[p].win = w /\ rws[p].state # "new"
Past(rws, p) == rws[p].state \in {"submitted", "gone"}
Gone(rws, p) == rws[p].state = "gone"
Waits(rws, p) == rws[p].state = "queued"

\* A deque lists prompts of its target, oldest first; the process that goes down
\* has dropped them all.
QueuesOk(r, qs, rws, ph) ==
    \A w \in Windows :
       /\ Ordered(qs[w])
       /\ \A p \in IdsOf(qs[w]) : Belongs(r, w, rws, p)
       /\ ph # "up" => qs[w] = <<>>

\* The prompt a drain has chosen is of its target, and is the head of its deque as
\* long as that is in the dictionary.
ItemOk(r, d, qs, rws) ==
    /\ d.pc \in InHand \cup {"refresh"} => Belongs(r, d.win, rws, d.item)
    /\ d.pc \in HandedOver => Past(rws, d.item)
    /\ d.pc = "top" => d.live
    /\ d.live /\ d.pc = "capture" => qs[d.win] # <<>>
    /\ d.live /\ d.pc \in InHand => qs[d.win] # <<>> /\ Head(qs[d.win]) = d.item

\* A deque that was taken from its drain holds only what the discard deleted, while
\* the bot runs; while it stops, it holds all that waits for the target.
OrphanOk(r, d, rws, ph) ==
    ~d.live =>
       /\ Ordered(d.own)
       /\ \A p \in IdsOf(d.own) : Belongs(r, d.win, rws, p)
       /\ ph = "up" =>
             /\ \A p \in IdsOf(d.own) : Gone(rws, p)
             /\ d.pc \in {"baseline", "nbaseline"} => ~Waits(rws, d.item)
             /\ d.pc \in {"send", "nsend"} => Gone(rws, d.item)
       /\ ph = "stopping" =>
             /\ \A p \in Ids : Waits(rws, p) /\ Belongs(r, d.win, rws, p) => p \in IdsOf(d.own)
             /\ d.pc \in InHand => d.own # <<>> /\ d.item = Head(d.own)

DrainOk(r, d, qs, rws, ph) ==
    /\ ItemOk(r, d, qs, rws)
    /\ OrphanOk(r, d, rws, ph)
    /\ ph = "down" => d.pc = "none"

\* The prompt of a handler that sends is alone in the topic's deques, or was taken
\* from them by a drain that dealt with it.
SenderOk(r, s, qs, rws, ph) ==
    /\ s.pc \notin {"idle", "discard"} => Belongs(r, s.win, rws, s.item)
    /\ s.pc \in {"capture", "baseline", "send"} =>
          /\ qs[s.win] \in {<<>>, <<s.item>>}
          /\ \A w \in Windows \ {s.win} : qs[w] = <<>>
    /\ s.pc \in {"nbaseline", "nsend"} => \A w \in Windows : qs[w] = <<>>
    /\ s.pc \in {"send", "nsend"} => Past(rws, s.item)
    /\ s.pc = "send" /\ qs[s.win] = <<>> => Gone(rws, s.item)
    /\ s.pc # "idle" => ph = "up"

\* A drain and a handler never have the same prompt handed over.
ApartOk(d, s, rws) ==
    s.pc \in {"send", "nsend"} /\ d.pc \in HandedOver /\ s.item = d.item => Gone(rws, s.item)

\* What waits in the spool is in the deque of its target.
HeldOk(r, s, qs, rws, ph) ==
    ph = "up" => \A p \in Ids : rws[p].route = r /\ Waits(rws, p) =>
       \/ p \in IdsOf(qs[rws[p].win])
       \/ s.pc = "nbaseline" /\ s.item = p

TopicOk(r, qs, d, s, rws, ph) ==
    /\ QueuesOk(r, qs, rws, ph)
    /\ DrainOk(r, d, qs, rws, ph)
    /\ SenderOk(r, s, qs, rws, ph)
    /\ ApartOk(d, s, rws)
    /\ HeldOk(r, s, qs, rws, ph)

Custody(r) == TopicOk(r, queues[r], drain[r], sender[r], rows, phase)

CustodyInv == SendInv /\ \A r \in Routes : Custody(r)

-------------------------------------------------------------------------------
(* Rows only age.                                                           *)

\* Rows that exist keep their target, and go from queued over submitted to gone.
Ages(rws, rws2) ==
    \A p \in Ids : rws[p].state # "new" =>
       /\ rws2[p].route = rws[p].route /\ rws2[p].win = rws[p].win
       /\ \/ rws2[p].state = rws[p].state
          \/ rws2[p].state = "gone"
          \/ rws[p].state = "queued" /\ rws2[p].state = "submitted"

\* No row of r is new.
NoneNew(r, rws, rws2) ==
    \A p \in Ids : rws[p].state = "new" /\ rws2[p].state # "new" => rws2[p].route # r

\* A topic that a step leaves alone, but for the ages of its rows; only what its
\* deques hold of the spool depends on there being no new row.
LEMMA AgingKeeps ==
    ASSUME NEW r, NEW qs \in [Windows -> Seq(Ids)], NEW d \in Drain, NEW s \in Sender,
           NEW rws \in [Ids -> Row], NEW rws2 \in [Ids -> Row], NEW ph,
           TopicOk(r, qs, d, s, rws, ph), Ages(rws, rws2),
           ph = "up" \/ NoneNew(r, rws, rws2)
    PROVE  /\ QueuesOk(r, qs, rws2, ph)
           /\ DrainOk(r, d, qs, rws2, ph)
           /\ SenderOk(r, s, qs, rws2, ph)
           /\ ApartOk(d, s, rws2)
           /\ NoneNew(r, rws, rws2) => TopicOk(r, qs, d, s, rws2, ph)
<1>1. \A w \in Windows : IdsOf(qs[w]) \subseteq Ids
  BY IdsOfType
<1>2. IdsOf(d.own) \subseteq Ids
  BY IdsOfType DEF Drain
<1>3. d.pc \in InHand \cup {"refresh"} => d.item \in Ids
  BY DEF Drain, InHand
<1>4. s.pc \notin {"idle", "discard"} => s.item \in Ids
  BY DEF Sender
<1>5. \A p \in Ids : /\ \A w : Belongs(r, w, rws, p) => Belongs(r, w, rws2, p)
                     /\ Past(rws, p) => Past(rws2, p)
                     /\ Gone(rws, p) => Gone(rws2, p)
                     /\ rws[p].state # "new" /\ ~Waits(rws, p) => ~Waits(rws2, p)
  BY DEF Belongs, Past, Gone, Waits, Ages, Row
<1>6. ASSUME NoneNew(r, rws, rws2)
      PROVE  \A p \in Ids : Waits(rws2, p) /\ rws2[p].route = r =>
                Waits(rws, p) /\ rws2[p].win = rws[p].win /\ rws[p].route = r
  BY <1>6 DEF Waits, Ages, NoneNew, Row
<1>7. QueuesOk(r, qs, rws2, ph)
  BY <1>1, <1>5 DEF TopicOk, QueuesOk
<1>8. ItemOk(r, d, qs, rws2)
  BY <1>3, <1>5 DEF TopicOk, DrainOk, ItemOk, InHand, HandedOver
<1>9. OrphanOk(r, d, rws2, ph)
  <2> SUFFICES ASSUME ~d.live PROVE OrphanOk(r, d, rws2, ph)
    BY DEF OrphanOk
  <2>1. OrphanOk(r, d, rws, ph) /\ ItemOk(r, d, qs, rws)
    BY DEF TopicOk, DrainOk
  <2>2. d.pc \in {"baseline", "nbaseline"} => d.item \in Ids /\ rws[d.item].state # "new"
    BY <1>3, <2>1 DEF ItemOk, InHand, Belongs
  <2>3. ph = "stopping" => \A p \in Ids : Waits(rws2, p) /\ Belongs(r, d.win, rws2, p) =>
                                             p \in IdsOf(d.own)
    BY <1>5, <1>6, <2>1 DEF OrphanOk, Belongs, Waits
  <2>4. d.pc \in {"send", "nsend"} => d.item \in Ids
    BY <1>3 DEF InHand
  <2>5. QED BY <1>2, <1>5, <2>1, <2>2, <2>3, <2>4 DEF OrphanOk
<1>10. SenderOk(r, s, qs, rws2, ph)
  BY <1>4, <1>5 DEF TopicOk, SenderOk
<1>11. ApartOk(d, s, rws2)
  BY <1>4, <1>5 DEF TopicOk, ApartOk
<1>12. NoneNew(r, rws, rws2) => HeldOk(r, s, qs, rws2, ph)
  BY <1>5, <1>6 DEF TopicOk, HeldOk
<1>13. QED BY <1>7, <1>8, <1>9, <1>10, <1>11, <1>12 DEF TopicOk, DrainOk

\* The ways the rows change.
LEMMA NothingAges ==
    ASSUME NEW rws PROVE Ages(rws, rws) /\ \A r : NoneNew(r, rws, rws)
BY DEF Ages, NoneNew

LEMMA DeletedAges ==
    ASSUME TypeOK, NEW S
    PROVE  /\ Ages(rows, Deleted(S)) /\ \A r : NoneNew(r, rows, Deleted(S))
           /\ \A p \in Ids : p \in S /\ rows[p].state # "new" => Gone(Deleted(S), p)
BY DEF TypeOK, Ages, NoneNew, Deleted, Stored, Row, Gone

LEMMA MarkedAges ==
    ASSUME TypeOK, NEW p, Markable(p)
    PROVE  /\ Ages(rows, Marked(p)) /\ \A r : NoneNew(r, rows, Marked(p))
           /\ Past(Marked(p), p)
BY DEF TypeOK, Ages, NoneNew, Marked, Markable, Row, Past

LEMMA TurnedAges ==
    ASSUME TypeOK, NEW p
    PROVE  LET rws == [rows EXCEPT ![p].mode = "turn"]
           IN  Ages(rows, rws) /\ \A r : NoneNew(r, rows, rws)
BY DEF TypeOK, Ages, NoneNew, Row

LEMMA InsertedAges ==
    ASSUME TypeOK, FreshIds, nextId \in Ids, NEW r \in Routes, NEW w \in Windows, NEW mode \in Modes
    PROVE  LET rws == Inserted(r, w, mode)
           IN  /\ Ages(rows, rws)
               /\ \A t : t # r => NoneNew(t, rows, rws)
               /\ Belongs(r, w, rws, nextId)
               /\ \A p \in Ids : p # nextId => rws[p] = rows[p]
<1>1. rows[nextId].state = "new"
  BY IdsAreNats DEF FreshIds
<1>2. \A p \in Ids : Inserted(r, w, mode)[p] =
                        IF p = nextId THEN [state |-> "queued", route |-> r, win |-> w, mode |-> mode]
                        ELSE rows[p]
  BY DEF Inserted, TypeOK
<1>3. QED BY <1>1, <1>2 DEF Ages, NoneNew, Belongs

-------------------------------------------------------------------------------
(* Deques only lose heads, and drains start anew.                           *)

LEMMA ShortQueue ==
    ASSUME NEW q \in Seq(Ids), NEW x, Ordered(q), IdsOf(q) \subseteq {x}
    PROVE  q \in {<<>>, <<x>>} /\ (IdsOf(q) = {} => q = <<>>)
<1>1. Len(q) \in Nat /\ DOMAIN q = 1..Len(q)
  BY LenProperties
<1>2. \A i \in 1..Len(q) : q[i] = x /\ q[i] \in Nat
  BY <1>1, IdsAreNats, ElementOfSeq DEF IdsOf
<1>3. Len(q) < 2
  <2> SUFFICES ASSUME Len(q) >= 2 PROVE FALSE
    BY <1>1
  <2>1. 1 \in 1..Len(q) /\ 2 \in 1..Len(q)
    BY <1>1
  <2>2. q[1] < q[2] /\ q[1] = x /\ q[2] = x /\ q[1] \in Nat
    BY <1>1, <1>2, <2>1 DEF Ordered
  <2>3. QED BY <2>2
<1>4. CASE Len(q) = 0
  BY <1>4, EmptySeq
<1>5. CASE Len(q) = 1
  <2>1. q = <<x>> /\ IdsOf(q) # {}
    BY <1>1, <1>2, <1>5 DEF IdsOf
  <2>2. QED BY <2>1
<1>6. QED BY <1>1, <1>3, <1>4, <1>5

\* Deques that lost only what no longer waits: what it takes for the holder of the
\* lock and for the spool.
LEMMA ShrinkKeeps ==
    ASSUME NEW r, NEW qs \in [Windows -> Seq(Ids)], NEW qs2 \in [Windows -> Seq(Ids)],
           NEW d, NEW s \in Sender, NEW rws \in [Ids -> Row], NEW ph,
           TopicOk(r, qs, d, s, rws, ph),
           \A w \in Windows :
              /\ Ordered(qs2[w]) /\ IdsOf(qs2[w]) \subseteq IdsOf(qs[w])
              /\ \A p \in IdsOf(qs[w]) \ IdsOf(qs2[w]) :
                    ~Waits(rws, p) /\ (s.pc = "send" /\ s.item = p => Gone(rws, p))
    PROVE  /\ QueuesOk(r, qs2, rws, ph)
           /\ SenderOk(r, s, qs2, rws, ph)
           /\ HeldOk(r, s, qs2, rws, ph)
<1>1. \A w \in Windows : qs[w] = <<>> => qs2[w] = <<>>
  BY ShortQueue, EmptyQueue
<1>2. QueuesOk(r, qs2, rws, ph)
  BY <1>1 DEF TopicOk, QueuesOk
<1>3. SenderOk(r, s, qs2, rws, ph)
  <2>1. SenderOk(r, s, qs, rws, ph)
    BY DEF TopicOk
  <2>2. ASSUME s.pc \in {"capture", "baseline", "send"}
        PROVE  /\ qs2[s.win] \in {<<>>, <<s.item>>}
               /\ s.pc = "send" /\ qs2[s.win] = <<>> => Gone(rws, s.item)
    <3>1. s.win \in Windows /\ qs[s.win] \in {<<>>, <<s.item>>}
      BY <2>1, <2>2 DEF SenderOk, Sender
    <3>2. IdsOf(qs2[s.win]) \subseteq {s.item}
      BY <3>1, EmptyQueue, OneInQueue
    <3>3. qs2[s.win] \in {<<>>, <<s.item>>}
      BY <3>1, <3>2, ShortQueue
    <3>4. CASE qs[s.win] = <<>>
      BY <1>1, <2>1, <3>1, <3>3, <3>4 DEF SenderOk
    <3>5. CASE qs[s.win] = <<s.item>>
      <4>1. s.item \in IdsOf(qs[s.win])
        BY <3>5, OneInQueue
      <4>2. qs2[s.win] = <<>> => s.item \notin IdsOf(qs2[s.win])
        BY EmptyQueue
      <4>3. QED BY <3>1, <3>3, <4>1, <4>2
    <3>6. QED BY <3>1, <3>4, <3>5
  <2>3. QED BY <1>1, <2>1, <2>2 DEF SenderOk
<1>4. HeldOk(r, s, qs2, rws, ph)
  <2> SUFFICES ASSUME ph = "up", NEW p \in Ids, rws[p].route = r, Waits(rws, p),
                      ~(s.pc = "nbaseline" /\ s.item = p)
               PROVE  p \in IdsOf(qs2[rws[p].win])
    BY DEF HeldOk
  <2>1. p \in IdsOf(qs[rws[p].win])
    BY DEF TopicOk, HeldOk
  <2>2. rws[p].win \in Windows
    BY DEF Row, Waits
  <2>3. QED BY <2>1, <2>2
<1>5. QED BY <1>2, <1>3, <1>4

\* A drain that ends, or starts at the top of its loop.
NewDrains == {NoDrain} \cup {NewDrain(w) : w \in Windows}

LEMMA FreshKeeps ==
    ASSUME NEW r, NEW qs, NEW s, NEW rws, NEW ph, NEW e \in NewDrains,
           QueuesOk(r, qs, rws, ph), SenderOk(r, s, qs, rws, ph), HeldOk(r, s, qs, rws, ph),
           ph # "down" \/ e = NoDrain
    PROVE  TopicOk(r, qs, e, s, rws, ph)
<1>1. e.pc \in {"none", "top"} /\ e.live /\ (e = NoDrain => e.pc = "none")
  <2>1. NoDrain.pc = "none" /\ NoDrain.live
    BY DEF NoDrain
  <2>2. \A w : NewDrain(w).pc = "top" /\ NewDrain(w).live
    BY DEF NoDrain, NewDrain
  <2>3. QED BY <2>1, <2>2 DEF NewDrains
<1>2. DrainOk(r, e, qs, rws, ph) /\ ApartOk(e, s, rws)
  BY <1>1 DEF DrainOk, ItemOk, OrphanOk, ApartOk, InHand, HandedOver
<1>3. QED BY <1>2 DEF TopicOk

LEMMA SuccessorsFresh ==
    ASSUME NEW rws, NEW qs, NEW cfm, NEW r, NEW w
    PROVE  Successors(rws, qs, cfm, r, w) \subseteq NewDrains
BY DEF Successors, Ensured, NewDrains

LEMMA EnsuredFresh ==
    ASSUME NEW d, NEW rws, NEW cfm, NEW r, NEW w \in Windows
    PROVE  Ensured(d, rws, cfm, r, w) \in {d} \cup NewDrains
BY DEF Ensured, NewDrains

\* The ends of a drain.
LEMMA ExitKeeps ==
    ASSUME TypeOK, NEW r \in Routes, NEW rws, NEW qs, NEW cfm, NEW a,
           DrainExit(r, rws, qs, cfm, a), Settled, phase # "down",
           QueuesOk(r, qs[r], rws, phase), SenderOk(r, sender[r], qs[r], rws, phase),
           HeldOk(r, sender[r], qs[r], rws, phase)
    PROVE  /\ Custody(r)' /\ rows' = rws /\ queues' = qs /\ drain'[r] \in NewDrains
           /\ \A t \in Routes \ {r} : drain'[t] = drain[t]
<1>1. PICK e \in NewDrains : drain' = [drain EXCEPT ![r] = e]
  BY SuccessorsFresh DEF DrainExit
<1>2. drain'[r] = e /\ \A t \in Routes \ {r} : drain'[t] = drain[t]
  BY <1>1 DEF TypeOK
<1>3. rows' = rws /\ queues' = qs /\ sender' = sender /\ phase' = phase
  BY DEF DrainExit, Settled
<1>4. TopicOk(r, qs[r], e, sender[r], rws, phase)
  BY FreshKeeps
<1>5. QED BY <1>2, <1>3, <1>4 DEF Custody

LEMMA AgainKeeps ==
    ASSUME TypeOK, NEW r \in Routes, DrainAgain(r), drain[r].pc # "none", Settled, phase # "down",
           QueuesOk(r, queues'[r], rows', phase), SenderOk(r, sender[r], queues'[r], rows', phase),
           HeldOk(r, sender[r], queues'[r], rows', phase)
    PROVE  /\ Custody(r)' /\ \A t \in Routes \ {r} : drain'[t] = drain[t]
<1>1. NewDrain(drain[r].win) \in NewDrains
  BY DequeType DEF NewDrains
<1>2. drain'[r] = NewDrain(drain[r].win) /\ \A t \in Routes \ {r} : drain'[t] = drain[t]
  BY DEF TypeOK, DrainAgain
<1>3. sender' = sender /\ phase' = phase
  BY DEF Settled
<1>4. TopicOk(r, queues'[r], NewDrain(drain[r].win), sender[r], rows', phase)
  BY <1>1, FreshKeeps
<1>5. QED BY <1>2, <1>3, <1>4 DEF Custody

\* popleft by the drain that has handed its prompt over.
LEMMA PoppedKeeps ==
    ASSUME TypeOK, NEW r \in Routes, NEW rws \in [Ids -> Row], NEW ph,
           TopicOk(r, queues[r], drain[r], sender[r], rws, ph),
           drain[r].pc \in {"send", "nsend"}, Deque(r) # <<>>
    PROVE  /\ QueuesOk(r, Popped(r)[r], rws, ph)
           /\ SenderOk(r, sender[r], Popped(r)[r], rws, ph)
           /\ HeldOk(r, sender[r], Popped(r)[r], rws, ph)
           /\ \A t \in Routes \ {r} : Popped(r)[t] = queues[t]
<1> DEFINE w == drain[r].win
           qs == queues[r]
           qs2 == Popped(r)[r]
<1>1. w \in Windows /\ Popped(r) \in Queues /\ qs \in [Windows -> Seq(Ids)]
  BY DequeType DEF TypeOK
<1>2. qs2 \in [Windows -> Seq(Ids)] /\ sender[r] \in Sender
  BY <1>1 DEF Queues, TypeOK
<1>3. \A t \in Routes \ {r} : Popped(r)[t] = queues[t]
  BY <1>1 DEF Popped, TypeOK
<1>4. CASE drain[r].live
  <2>1. qs[w] # <<>> /\ Head(qs[w]) = drain[r].item /\ Past(rws, drain[r].item)
    BY <1>4 DEF TopicOk, DrainOk, ItemOk, InHand, HandedOver
  <2>2. qs[w] \in Seq(Ids) /\ qs2[w] = Tail(qs[w]) /\ \A v \in Windows \ {w} : qs2[v] = qs[v]
    BY <1>1, <1>4 DEF Popped, TypeOK
  <2>3. ApartOk(drain[r], sender[r], rws)
    BY DEF TopicOk
  <2>4. sender[r].pc = "send" /\ sender[r].item = drain[r].item => Gone(rws, drain[r].item)
    BY <2>3 DEF ApartOk, HandedOver
  <2>5. ~Waits(rws, drain[r].item)
    BY <2>1 DEF Waits, Past
  <2>6. \A v \in Windows : Ordered(qs[v])
    BY DEF TopicOk, QueuesOk
  <2>7. /\ Ordered(qs2[w]) /\ IdsOf(qs2[w]) \subseteq IdsOf(qs[w])
        /\ \A p \in IdsOf(qs[w]) \ IdsOf(qs2[w]) : p = drain[r].item
    BY <1>1, <2>1, <2>2, <2>6, TailOfQueue
  <2> HIDE DEF w, qs, qs2
  <2>8. \A v \in Windows :
              /\ Ordered(qs2[v]) /\ IdsOf(qs2[v]) \subseteq IdsOf(qs[v])
              /\ \A p \in IdsOf(qs[v]) \ IdsOf(qs2[v]) :
                    ~Waits(rws, p) /\ (sender[r].pc = "send" /\ sender[r].item = p => Gone(rws, p))
    BY <2>2, <2>4, <2>5, <2>6, <2>7
  <2>9. TopicOk(r, qs, drain[r], sender[r], rws, ph)
    BY DEF qs
  <2>10. /\ QueuesOk(r, qs2, rws, ph)
         /\ SenderOk(r, sender[r], qs2, rws, ph)
         /\ HeldOk(r, sender[r], qs2, rws, ph)
    BY <1>1, <1>2, <2>8, <2>9, ShrinkKeeps
  <2>11. QED BY <1>3, <2>10 DEF qs2
<1>5. CASE ~drain[r].live
  BY <1>3, <1>5 DEF Popped, TopicOk
<1>6. QED BY <1>4, <1>5

-------------------------------------------------------------------------------
(* Every step keeps custody: first the steps of one topic.                  *)

\* What a step of r leaves of the other topics.
StepOf(r) ==
    /\ Ages(rows, rows')
    /\ phase' = phase
    /\ \A t \in Routes \ {r} :
          /\ NoneNew(t, rows, rows')
          /\ queues'[t] = queues[t] /\ drain'[t] = drain[t] /\ sender'[t] = sender[t]

LEMMA OthersKeep ==
    ASSUME CustodyInv, TypeOK', NEW r \in Routes, StepOf(r), NEW t \in Routes \ {r}
    PROVE  Custody(t)'
<1>1. /\ queues[t] \in [Windows -> Seq(Ids)] /\ drain[t] \in Drain /\ sender[t] \in Sender
      /\ rows \in [Ids -> Row] /\ rows' \in [Ids -> Row]
  BY DEF CustodyInv, SendInv, TypeOK
<1>2. TopicOk(t, queues[t], drain[t], sender[t], rows, phase)
  BY DEF CustodyInv, Custody
<1>3. TopicOk(t, queues[t], drain[t], sender[t], rows', phase)
  BY <1>1, <1>2, AgingKeeps DEF StepOf
<1>4. QED BY <1>3 DEF Custody, StepOf

\* A drain that takes a step is there, and leaves the topics' bindings and locks alone.
LEMMA DrainRuns ==
    ASSUME NEW r \in Routes, DrainStep(r)
    PROVE  drain[r].pc # "none" /\ Settled
BY DEF DrainStep, DrainLook, DrainEmpty, DrainExpire, DrainLost, DrainDrop,
   DrainFault, DrainBusy, DrainNative, DrainAcquire, DrainNoSlot, DrainSubmit,
   DrainNotMarked, DrainSent, DrainNativeSent, DrainSendFailed, DrainPopFault,
   DrainSendError, DrainConfirmed, DrainUnconfirmed, DrainRefreshError, DrainTail,
   DrainHead, Drains, NoId

LEMMA DrainStepRows ==
    ASSUME TypeOK, NEW r \in Routes, DrainStep(r)
    PROVE  Ages(rows, rows') /\ \A t : NoneNew(t, rows, rows')
<1>1. CASE rows' = rows
  BY <1>1, NothingAges
<1>2. CASE \E S : rows' = Deleted(S)
  BY <1>2, DeletedAges
<1>3. CASE \E p : rows' = [rows EXCEPT ![p].mode = "turn"]
  BY <1>3, TurnedAges
<1>4. CASE \E p : Markable(p) /\ rows' = Marked(p)
  BY <1>4, MarkedAges
<1>5. ASSUME DrainExpire(r) \/ DrainDrop(r) \/ DrainSendFailed(r) \/ DrainConfirmed(r)
      PROVE  \E S : rows' = Deleted(S)
  BY <1>5 DEF DrainExpire, DrainDrop, DrainExit, DrainSendFailed, DrainConfirmed, Confirmed
<1>6. ASSUME DrainAcquire(r) \/ DrainNoSlot(r)
      PROVE  rows' = rows \/ \E p : rows' = [rows EXCEPT ![p].mode = "turn"]
  BY <1>6 DEF DrainAcquire, DrainNoSlot
<1>7. ASSUME DrainSubmit(r) PROVE \E p : Markable(p) /\ rows' = Marked(p)
  BY <1>7 DEF DrainSubmit
<1>8. ASSUME \/ DrainLook(r) \/ DrainEmpty(r) \/ DrainLost(r) \/ DrainFault(r) \/ DrainBusy(r)
             \/ DrainNative(r) \/ DrainNotMarked(r) \/ DrainSent(r) \/ DrainNativeSent(r)
             \/ DrainPopFault(r) \/ DrainSendError(r) \/ DrainUnconfirmed(r)
             \/ DrainRefreshError(r) \/ DrainTail(r)
      PROVE  rows' = rows
  BY <1>8 DEF DrainLook, DrainEmpty, DrainLost, DrainFault, DrainBusy, DrainNative,
         DrainNotMarked, DrainSent, DrainNativeSent, DrainPopFault, DrainSendError,
         DrainUnconfirmed, DrainRefreshError, DrainTail, DrainExit
<1>9. QED BY <1>1, <1>2, <1>3, <1>4, <1>5, <1>6, <1>7, <1>8 DEF DrainStep

\* A drain that only moves on, in the same deque.
LEMMA DrainMoves ==
    ASSUME TypeOK, NEW r \in Routes, NEW e,
           QueuesOk(r, queues[r], rows', phase), SenderOk(r, sender[r], queues[r], rows', phase),
           HeldOk(r, sender[r], queues[r], rows', phase),
           DrainOk(r, e, queues[r], rows', phase), ApartOk(e, sender[r], rows'),
           drain' = [drain EXCEPT ![r] = e], queues' = queues, Settled
    PROVE  /\ Custody(r)' /\ \A t \in Routes \ {r} : drain'[t] = drain[t]
<1>1. drain'[r] = e /\ \A t \in Routes \ {r} : drain'[t] = drain[t]
  BY DEF TypeOK
<1>2. QED BY <1>1 DEF Custody, TopicOk, Settled

LEMMA DrainKeepsCustody ==
    ASSUME CustodyInv, TypeOK', NEW r \in Routes, DrainStep(r)
    PROVE  Custody(r)' /\ StepOf(r)
<1> DEFINE d == drain[r]
           w == drain[r].win
           qs == queues[r]
           s == sender[r]
<1>1. TypeOK /\ TopicOk(r, qs, d, s, rows, phase)
  BY DEF CustodyInv, SendInv, Custody
<1>2. d.pc # "none" /\ Settled
  BY DrainRuns
<1>3. phase # "down" /\ w \in Windows /\ d \in Drain /\ s \in Sender
      /\ qs \in [Windows -> Seq(Ids)] /\ rows \in [Ids -> Row] /\ rows' \in [Ids -> Row]
  BY <1>1, <1>2 DEF TopicOk, DrainOk, TypeOK, Drain
<1>4. Ages(rows, rows') /\ \A t : NoneNew(t, rows, rows')
  BY <1>1, DrainStepRows
<1>5. TopicOk(r, qs, d, s, rows', phase)
  BY <1>1, <1>3, <1>4, AgingKeeps
<1>6. /\ QueuesOk(r, qs, rows', phase) /\ SenderOk(r, s, qs, rows', phase)
      /\ HeldOk(r, s, qs, rows', phase) /\ ItemOk(r, d, qs, rows')
      /\ OrphanOk(r, d, rows', phase) /\ ApartOk(d, s, rows')
  BY <1>5 DEF TopicOk, DrainOk
<1>7. Deque(r) \in Seq(Ids)
  BY <1>1, <1>2, DequeType
<1>8. SUFFICES /\ Custody(r)'
               /\ \A t \in Routes \ {r} : queues'[t] = queues[t] /\ drain'[t] = drain[t]
  BY <1>2, <1>4 DEF StepOf, Settled
<1> HIDE DEF d, w, qs, s
<1>9. CASE DrainLook(r)
  <2> DEFINE e == [d EXCEPT !.pc = "capture"]
  <2>1. drain' = [drain EXCEPT ![r] = e] /\ qs[w] # <<>> /\ d.pc = "top" /\ queues' = queues
    BY <1>1, <1>9 DEF DrainLook, Drains, TypeOK, d, w, qs
  <2>2. e.pc = "capture" /\ e.live = d.live /\ e.own = d.own /\ e.win = d.win
    BY <1>3 DEF Drain
  <2>3. d.live
    BY <1>6, <2>1 DEF ItemOk
  <2> HIDE DEF e
  <2>4. DrainOk(r, e, qs, rows', phase) /\ ApartOk(e, s, rows')
    BY <1>3, <2>1, <2>2, <2>3 DEF DrainOk, ItemOk, OrphanOk, ApartOk, InHand, HandedOver, d, w
  <2>5. QED BY <1>1, <1>2, <1>6, <2>1, <2>4, DrainMoves DEF s, qs
<1>10. CASE DrainLost(r)
  <2>1. PICK pc \in {"lost", "refused"}, told \in SUBSET Ids :
           drain' = [drain EXCEPT ![r] = [d EXCEPT !.pc = pc, !.told = told]]
    <3>1. {Deque(r)[i] : i \in DOMAIN Deque(r)} \in SUBSET Ids
      BY <1>7, IdsOfType DEF IdsOf
    <3>2. QED BY <1>1, <1>10, <3>1 DEF DrainLost, TypeOK, d
  <2> DEFINE e == [d EXCEPT !.pc = pc, !.told = told]
  <2>2. e.pc \in {"lost", "refused"} /\ e.live = d.live /\ e.own = d.own /\ e.win = d.win
    BY <1>3 DEF Drain
  <2> HIDE DEF e
  <2>3. DrainOk(r, e, qs, rows', phase) /\ ApartOk(e, s, rows')
    BY <1>3, <1>6, <2>2 DEF DrainOk, ItemOk, OrphanOk, ApartOk, InHand, HandedOver
  <2>4. queues' = queues /\ drain' = [drain EXCEPT ![r] = e]
    BY <1>10, <2>1 DEF DrainLost, e
  <2>5. QED BY <1>1, <1>2, <1>6, <2>3, <2>4, DrainMoves DEF s, qs
<1>11. CASE DrainEmpty(r) \/ DrainFault(r) \/ DrainRefreshError(r) \/ DrainTail(r)
  <2>1. DrainExit(r, rows, queues, confirm, adm)
    BY <1>11 DEF DrainEmpty, DrainFault, DrainRefreshError, DrainTail
  <2>2. rows' = rows
    BY <2>1 DEF DrainExit
  <2>3. QED BY <1>1, <1>2, <1>3, <1>6, <2>1, <2>2, ExitKeeps DEF s, qs
<1>12. CASE DrainBusy(r) \/ DrainNoSlot(r) \/ DrainNotMarked(r) \/ DrainConfirmed(r)
  <2>1. DrainAgain(r) /\ queues' = queues
    BY <1>12 DEF DrainBusy, DrainNoSlot, DrainNotMarked, DrainConfirmed
  <2>2. QED BY <1>1, <1>2, <1>3, <1>6, <2>1, AgainKeeps DEF s, qs, d
<1>13. CASE DrainUnconfirmed(r)
  <2> DEFINE e == [d EXCEPT !.pc = "tail"]
  <2>1. drain' = [drain EXCEPT ![r] = e] /\ queues' = queues
    BY <1>1, <1>13 DEF DrainUnconfirmed, TypeOK, d
  <2>2. e.pc = "tail" /\ e.live = d.live /\ e.own = d.own /\ e.win = d.win
    BY <1>3 DEF Drain
  <2> HIDE DEF e
  <2>3. DrainOk(r, e, qs, rows', phase) /\ ApartOk(e, s, rows')
    BY <1>3, <1>6, <2>2 DEF DrainOk, ItemOk, OrphanOk, ApartOk, InHand, HandedOver
  <2>4. QED BY <1>1, <1>2, <1>6, <2>1, <2>3, DrainMoves DEF s, qs
<1>14. CASE DrainExpire(r)
  <2>1. PICK n \in 1..Len(qs[w]) :
           /\ rows' = Deleted({qs[w][i] : i \in 1..n})
           /\ queues' = [queues EXCEPT ![r][w] = SubSeq(qs[w], n + 1, Len(qs[w]))]
    BY <1>14 DEF DrainExpire, w, qs
  <2>2. /\ qs[w] \in Seq(Ids) /\ Ordered(qs[w]) /\ IdsOf(qs[w]) \subseteq Ids
        /\ \A p \in IdsOf(qs[w]) : rows[p].state # "new"
    <3>1. qs[w] \in Seq(Ids)
      BY <1>3
    <3>2. QED BY <1>1, <1>3, <3>1, IdsOfType DEF TopicOk, QueuesOk, Belongs
  <2> DEFINE rest == SubSeq(qs[w], n + 1, Len(qs[w]))
             cut == {qs[w][i] : i \in 1..n}
             qs2 == [qs EXCEPT ![w] = rest]
  <2>3. /\ rest \in Seq(Ids) /\ IdsOf(qs[w]) = cut \cup IdsOf(rest) /\ Ordered(rest)
    BY <2>2, RestOfQueue
  <2>4. \A p \in cut : Gone(rows', p)
    <3> HIDE DEF cut
    <3>1. cut \subseteq Ids /\ \A p \in cut : rows[p].state # "new"
      BY <2>2, <2>3
    <3>2. QED BY <1>1, <2>1, <3>1, DeletedAges DEF cut
  <2> HIDE DEF rest, cut
  <2>5. qs2 \in [Windows -> Seq(Ids)] /\ qs2[w] = rest /\ \A v \in Windows \ {w} : qs2[v] = qs[v]
    BY <1>3, <2>3
  <2>6. queues'[r] = qs2 /\ \A t \in Routes \ {r} : queues'[t] = queues[t]
    BY <1>1, <2>1 DEF rest, TypeOK, qs
  <2> HIDE DEF qs2
  <2>7. \A v \in Windows :
              /\ Ordered(qs2[v]) /\ IdsOf(qs2[v]) \subseteq IdsOf(qs[v])
              /\ \A p \in IdsOf(qs[v]) \ IdsOf(qs2[v]) :
                    ~Waits(rows', p) /\ (s.pc = "send" /\ s.item = p => Gone(rows', p))
    BY <1>6, <2>3, <2>4, <2>5 DEF QueuesOk, Gone, Waits
  <2>8. /\ QueuesOk(r, qs2, rows', phase)
        /\ SenderOk(r, s, qs2, rows', phase)
        /\ HeldOk(r, s, qs2, rows', phase)
    BY <1>3, <1>5, <2>5, <2>7, ShrinkKeeps
  <2>9. drain' = drain /\ d.pc = "top"
    BY <1>14 DEF DrainExpire, Drains, d
  <2>10. DrainOk(r, d, qs2, rows', phase)
    BY <1>3, <1>6, <2>9 DEF DrainOk, ItemOk, InHand, HandedOver
  <2>11. QED
    BY <1>2, <1>6, <2>6, <2>8, <2>9, <2>10 DEF Custody, TopicOk, Settled, s, d
<1>15. CASE DrainDrop(r)
  <2>1. PICK a : DrainExit(r, Deleted(TargetRows(r, w)), Cleared(r), confirm, a)
    BY <1>15 DEF DrainDrop, w
  <2>2. rows' = Deleted(TargetRows(r, w)) /\ queues' = Cleared(r)
    BY <2>1 DEF DrainExit
  <2> DEFINE qs2 == Cleared(r)[r]
  <2>3. /\ Cleared(r) \in Queues /\ qs2 \in [Windows -> Seq(Ids)]
        /\ \A t \in Routes \ {r} : Cleared(r)[t] = queues[t]
        /\ \A v \in Windows : qs2[v] = qs[v] \/ (v = w /\ qs2[v] = <<>>)
    <3>1. Cleared(r) \in Queues
      BY <1>1, <1>2, DequeType DEF d
    <3>2. QED BY <1>1, <1>3, <3>1 DEF Cleared, Queues, TypeOK, w, qs
  <2>4. \A p \in IdsOf(qs[w]) : Gone(rows', p)
    <3>1. \A p \in IdsOf(qs[w]) : p \in Ids /\ Belongs(r, w, rows, p)
      BY <1>1, <1>3, IdsOfType DEF TopicOk, QueuesOk
    <3>2. \A p \in IdsOf(qs[w]) : p \in TargetRows(r, w) \/ rows[p].state = "gone"
      BY <1>1, <3>1 DEF TargetRows, Belongs, Stored, TypeOK, Row
    <3>3. \A p \in IdsOf(qs[w]) : rows'[p].state = IF p \in TargetRows(r, w) /\ Stored(p)
                                                  THEN "gone" ELSE rows[p].state
      BY <1>1, <2>2, <3>1, DeletedStates
    <3>4. QED BY <3>2, <3>3 DEF Gone, TargetRows
  <2> HIDE DEF qs2
  <2>5. \A v \in Windows :
              /\ Ordered(qs2[v]) /\ IdsOf(qs2[v]) \subseteq IdsOf(qs[v])
              /\ \A p \in IdsOf(qs[v]) \ IdsOf(qs2[v]) :
                    ~Waits(rows', p) /\ (s.pc = "send" /\ s.item = p => Gone(rows', p))
    BY <1>6, <2>3, <2>4, EmptyQueue DEF QueuesOk, Gone, Waits
  <2>6. /\ QueuesOk(r, qs2, rows', phase)
        /\ SenderOk(r, s, qs2, rows', phase)
        /\ HeldOk(r, s, qs2, rows', phase)
    BY <1>3, <1>5, <2>3, <2>5, ShrinkKeeps
  <2>7. Custody(r)' /\ \A t \in Routes \ {r} : drain'[t] = drain[t]
    BY <1>1, <1>2, <1>3, <2>1, <2>2, <2>6, ExitKeeps DEF s, qs2
  <2>8. QED BY <2>2, <2>3, <2>7
<1>16. CASE DrainNative(r) \/ DrainAcquire(r)
  <2> DEFINE p == Head(Deque(r))
  <2>1. PICK pc \in {"baseline", "nbaseline"} :
           drain' = [drain EXCEPT ![r] = [d EXCEPT !.pc = pc, !.item = DrainHead(r)]]
    BY <1>1, <1>16 DEF DrainNative, DrainAcquire, TypeOK, d
  <2>2. d.pc = "capture" /\ Deque(r) # <<>> /\ DrainHead(r) = p /\ queues' = queues
    BY <1>16 DEF DrainNative, DrainAcquire, DrainHead, Drains, d
  <2> DEFINE e == [d EXCEPT !.pc = pc, !.item = DrainHead(r)]
  <2>3. e.pc = pc /\ e.item = p /\ e.live = d.live /\ e.own = d.own /\ e.win = w
    BY <1>3, <2>2 DEF Drain, w, d
  <2> HIDE DEF e
  <2>4. p \in IdsOf(Deque(r))
    BY <1>7, <2>2, TailOfQueue
  <2> HIDE DEF p
  <2>5. Belongs(r, w, rows', p)
    <3>1. d.live => IdsOf(Deque(r)) = IdsOf(qs[w])
      BY DEF Deque, d, qs, w
    <3>2. ~d.live => IdsOf(Deque(r)) = IdsOf(d.own)
      BY DEF Deque, d
    <3>3. QED BY <1>3, <1>6, <2>4, <3>1, <3>2 DEF QueuesOk, OrphanOk, w, d
  <2>6. ItemOk(r, e, qs, rows')
    <3>1. d.live => qs[w] # <<>> /\ Head(qs[w]) = p
      BY <2>2 DEF Deque, d, qs, w, p
    <3>2. QED BY <2>3, <2>5, <3>1 DEF ItemOk, InHand, HandedOver
  <2>7. OrphanOk(r, e, rows', phase)
    <3> SUFFICES ASSUME ~d.live PROVE OrphanOk(r, e, rows', phase)
      BY <2>3 DEF OrphanOk
    <3>1. Deque(r) = d.own /\ d.own # <<>> /\ p = Head(d.own) /\ p \in IdsOf(d.own)
      BY <2>2, <2>4 DEF Deque, d, p
    <3>2. QED BY <1>6, <2>3, <3>1 DEF OrphanOk, Gone, Waits, w, d
  <2>8. ApartOk(e, s, rows')
    BY <2>3 DEF ApartOk, HandedOver
  <2>9. DrainOk(r, e, qs, rows', phase)
    BY <1>3, <2>6, <2>7 DEF DrainOk
  <2>10. drain' = [drain EXCEPT ![r] = e]
    BY <2>1 DEF e
  <2>11. QED BY <1>1, <1>2, <1>6, <2>2, <2>8, <2>9, <2>10, DrainMoves DEF s, qs
<1>17. CASE DrainSubmit(r)
  <2>1. PICK pc \in {"send", "nsend"} : drain' = [drain EXCEPT ![r] = [d EXCEPT !.pc = pc]]
    BY <1>1, <1>17 DEF DrainSubmit, TypeOK, d
  <2>2. /\ d.pc \in {"baseline", "nbaseline"} /\ Markable(d.item) /\ rows' = Marked(d.item)
        /\ queues' = queues
    BY <1>17 DEF DrainSubmit, d
  <2> DEFINE e == [d EXCEPT !.pc = pc]
  <2>3. e.pc = pc /\ e.item = d.item /\ e.live = d.live /\ e.own = d.own /\ e.win = d.win
    BY <1>3 DEF Drain
  <2> HIDE DEF e
  <2>4. Past(rows', d.item) /\ Waits(rows, d.item)
    BY <1>1, <2>2, MarkedAges DEF Markable, Waits
  <2>5. ~d.live => phase # "up"
    BY <1>1, <2>2, <2>4 DEF TopicOk, DrainOk, OrphanOk
  <2>6. ItemOk(r, e, qs, rows')
    BY <1>6, <2>2, <2>3, <2>4 DEF ItemOk, InHand, HandedOver
  <2>7. OrphanOk(r, e, rows', phase)
    BY <1>6, <2>2, <2>3, <2>5 DEF OrphanOk, InHand
  <2>8. ApartOk(e, s, rows')
    BY <1>1, <2>3, <2>4 DEF ApartOk, TopicOk, SenderOk, Past, Waits
  <2>9. DrainOk(r, e, qs, rows', phase) /\ drain' = [drain EXCEPT ![r] = e]
    BY <1>3, <2>1, <2>6, <2>7 DEF DrainOk, e
  <2>10. QED BY <1>1, <1>2, <1>6, <2>2, <2>8, <2>9, DrainMoves DEF s, qs
<1>18. CASE DrainSent(r)
  <2> DEFINE p == Head(Deque(r))
             e == [d EXCEPT !.pc = "refresh", !.item = p]
  <2>1. /\ d.pc = "send" /\ Deque(r) # <<>> /\ queues' = Popped(r) /\ rows' = rows
        /\ drain' = [drain EXCEPT ![r] = e]
    BY <1>1, <1>18 DEF DrainSent, Drains, TypeOK, d
  <2>2. e.pc = "refresh" /\ e.item = p /\ e.live = d.live /\ e.own = d.own /\ e.win = d.win
    BY <1>3 DEF Drain
  <2>3. p \in IdsOf(Deque(r))
    BY <1>7, <2>1, TailOfQueue
  <2> HIDE DEF p, e
  <2>4. d.live => p = d.item
    BY <1>6, <2>1 DEF Deque, ItemOk, InHand, d, qs, p
  <2>5. ~d.live => /\ Belongs(r, d.win, rows', p)
                   /\ Past(rows', p)
                   /\ s.pc \in {"send", "nsend"} => Gone(rows', p)
    <3> SUFFICES ASSUME ~d.live PROVE /\ Belongs(r, d.win, rows', p)
                                      /\ Past(rows', p)
                                      /\ s.pc \in {"send", "nsend"} => Gone(rows', p)
      OBVIOUS
    <3>1. p \in IdsOf(d.own)
      BY <2>3 DEF Deque, d
    <3>2. CASE phase = "up"
      BY <1>6, <3>1, <3>2 DEF OrphanOk, Gone, Past
    <3>3. CASE phase # "up"
      <4>1. phase = "stopping"
        BY <1>1, <1>3, <3>3 DEF TypeOK
      <4>2. p = d.item /\ s.pc = "idle"
        BY <1>6, <2>1, <3>3, <4>1 DEF OrphanOk, SenderOk, InHand, Deque, d, p
      <4>3. QED BY <1>6, <2>1, <4>2 DEF ItemOk, InHand, HandedOver
    <3>4. QED BY <3>2, <3>3
  <2>6. /\ Belongs(r, d.win, rows', p) /\ Past(rows', p)
    BY <1>6, <2>1, <2>4, <2>5 DEF ItemOk, InHand, HandedOver
  <2>7. ItemOk(r, e, Popped(r)[r], rows')
    BY <2>2, <2>6 DEF ItemOk, InHand, HandedOver
  <2>8. OrphanOk(r, e, rows', phase)
    BY <1>6, <2>2 DEF OrphanOk, InHand
  <2>9. ApartOk(e, s, rows')
    BY <1>6, <2>1, <2>2, <2>4, <2>5 DEF ApartOk, HandedOver
  <2>10. /\ QueuesOk(r, Popped(r)[r], rows', phase)
         /\ SenderOk(r, s, Popped(r)[r], rows', phase)
         /\ HeldOk(r, s, Popped(r)[r], rows', phase)
         /\ \A t \in Routes \ {r} : Popped(r)[t] = queues[t]
    BY <1>1, <1>3, <1>5, <2>1, PoppedKeeps DEF s, qs, d
  <2>11. drain'[r] = e /\ \A t \in Routes \ {r} : drain'[t] = drain[t]
    BY <1>1, <2>1 DEF TypeOK
  <2>12. QED
    BY <1>2, <1>3, <2>1, <2>7, <2>8, <2>9, <2>10, <2>11
    DEF Custody, TopicOk, DrainOk, Settled, s
<1>19. CASE DrainNativeSent(r) \/ DrainSendFailed(r)
  <2>1. /\ d.pc \in {"send", "nsend"} /\ Deque(r) # <<>> /\ queues' = Popped(r) /\ DrainAgain(r)
    BY <1>19 DEF DrainNativeSent, DrainSendFailed, Drains, d
  <2>2. /\ QueuesOk(r, Popped(r)[r], rows', phase)
        /\ SenderOk(r, s, Popped(r)[r], rows', phase)
        /\ HeldOk(r, s, Popped(r)[r], rows', phase)
        /\ \A t \in Routes \ {r} : Popped(r)[t] = queues[t]
    BY <1>1, <1>3, <1>5, <2>1, PoppedKeeps DEF s, qs, d
  <2>3. Custody(r)' /\ \A t \in Routes \ {r} : drain'[t] = drain[t]
    BY <1>1, <1>2, <1>3, <2>1, <2>2, AgainKeeps DEF s, d
  <2>4. QED BY <2>1, <2>2, <2>3
<1>20. CASE DrainPopFault(r)
  <2>1. PICK a : DrainExit(r, rows, queues, confirm, a)
    BY <1>20 DEF DrainPopFault
  <2>2. rows' = rows
    BY <2>1 DEF DrainExit
  <2>3. QED BY <1>1, <1>2, <1>3, <1>6, <2>1, <2>2, ExitKeeps DEF s, qs
<1>21. CASE DrainSendError(r)
  <2> DEFINE x == SendAborted(r)
  <2>1. DrainExit(r, rows, x.queues, x.confirm, x.adm) /\ d.pc \in {"send", "nsend"}
    BY <1>21 DEF DrainSendError, d
  <2>2. x.queues = queues \/ (x.queues = Popped(r) /\ Deque(r) # <<>>)
    BY DEF SendAborted
  <2>3. rows' = rows /\ queues' = x.queues
    BY <2>1 DEF DrainExit
  <2> HIDE DEF x
  <2>4. /\ QueuesOk(r, x.queues[r], rows, phase)
        /\ SenderOk(r, s, x.queues[r], rows, phase)
        /\ HeldOk(r, s, x.queues[r], rows, phase)
        /\ \A t \in Routes \ {r} : x.queues[t] = queues[t]
    <3>1. CASE x.queues = queues
      BY <1>1, <3>1 DEF TopicOk, qs
    <3>2. CASE x.queues = Popped(r) /\ Deque(r) # <<>>
      BY <1>1, <1>3, <2>1, <3>2, PoppedKeeps DEF s, qs, d
    <3>3. QED BY <2>2, <3>1, <3>2
  <2>5. QED BY <1>1, <1>2, <1>3, <2>1, <2>3, <2>4, ExitKeeps DEF s
<1>22. QED
  BY <1>9, <1>10, <1>11, <1>12, <1>13, <1>14, <1>15, <1>16, <1>17, <1>18, <1>19, <1>20, <1>21
  DEF DrainStep

\* Handlers: the lock is given back, a drain is ensured, a prompt is appended, the
\* handler's own deque is emptied.
LEMMA UnlockKeeps ==
    ASSUME NEW r, NEW qs, NEW d, NEW s, NEW rws, NEW ph,
           TopicOk(r, qs, d, s, rws, ph),
           s.pc = "nbaseline" => ~Waits(rws, s.item)
    PROVE  TopicOk(r, qs, d, NoSender, rws, ph)
<1>1. NoSender.pc = "idle"
  BY DEF NoSender
<1>2. SenderOk(r, NoSender, qs, rws, ph) /\ ApartOk(d, NoSender, rws)
  BY <1>1 DEF SenderOk, ApartOk
<1>3. HeldOk(r, NoSender, qs, rws, ph)
  BY DEF TopicOk, HeldOk
<1>4. QED BY <1>2, <1>3 DEF TopicOk

LEMMA EnsureKeeps ==
    ASSUME TypeOK, NEW r \in Routes, NEW w \in Windows, NEW qs, NEW s, NEW rws, NEW ph, NEW cfm,
           NEW rws0, TopicOk(r, qs, drain[r], s, rws, ph), ph # "down",
           EnsureDrain(rws0, cfm, r, w)
    PROVE  /\ TopicOk(r, qs, drain'[r], s, rws, ph)
           /\ \A t \in Routes \ {r} : drain'[t] = drain[t]
<1>1. PICK e \in {drain[r]} \cup NewDrains : drain' = [drain EXCEPT ![r] = e]
  BY EnsuredFresh DEF EnsureDrain
<1>2. drain'[r] = e /\ \A t \in Routes \ {r} : drain'[t] = drain[t]
  BY <1>1 DEF TypeOK
<1>3. CASE e = drain[r]
  BY <1>2, <1>3
<1>4. CASE e \in NewDrains
  <2>1. TopicOk(r, qs, e, s, rws, ph)
    BY <1>4, FreshKeeps DEF TopicOk
  <2>2. QED BY <1>2, <2>1
<1>5. QED BY <1>1, <1>3, <1>4

LEMMA EnqueueKeeps ==
    ASSUME CustodyInv, NEW r \in Routes, NEW w \in Windows, Enqueue(r, w),
           phase = "up", sender[r].pc = "idle"
    PROVE  /\ TopicOk(r, queues'[r], drain[r], sender[r], rows', phase)
           /\ Belongs(r, w, rows', nextId) /\ nextId \in Ids
           /\ queues[r][w] = <<>> => queues'[r][w] = <<nextId>>
           /\ \A v \in Windows \ {w} : queues'[r][v] = queues[r][v]
           /\ \A t \in Routes \ {r} : queues'[t] = queues[t] /\ NoneNew(t, rows, rows')
           /\ Ages(rows, rows')
<1> DEFINE d == drain[r]
           qs == queues[r]
           qs2 == queues'[r]
           s == sender[r]
<1>1. TypeOK /\ FreshIds /\ TopicOk(r, qs, d, s, rows, phase)
  BY DEF CustodyInv, SendInv, Custody
<1>2. nextId \in Ids /\ rows' \in [Ids -> Row] /\ queues' \in Queues
  BY <1>1, EnqueueType
<1>3. rows' = Inserted(r, w, "turn") /\ "turn" \in Modes
  BY DEF Enqueue, Modes
<1>4. /\ Ages(rows, rows') /\ Belongs(r, w, rows', nextId)
      /\ \A t : t # r => NoneNew(t, rows, rows')
      /\ \A p \in Ids : p # nextId => rows'[p] = rows[p]
  BY <1>1, <1>2, <1>3, InsertedAges
<1>5. /\ qs \in [Windows -> Seq(Ids)] /\ qs2 \in [Windows -> Seq(Ids)] /\ d \in Drain
      /\ s \in Sender /\ rows \in [Ids -> Row]
  BY <1>1, <1>2 DEF TypeOK, Queues
<1>6. /\ QueuesOk(r, qs, rows', phase) /\ DrainOk(r, d, qs, rows', phase)
      /\ SenderOk(r, s, qs, rows', phase) /\ ApartOk(d, s, rows')
  BY <1>1, <1>2, <1>4, <1>5, AgingKeeps
<1>7. /\ qs2[w] = Append(qs[w], nextId) /\ \A v \in Windows \ {w} : qs2[v] = qs[v]
      /\ \A t \in Routes \ {r} : queues'[t] = queues[t]
  BY <1>1 DEF Enqueue, TypeOK
<1>8. \A p \in IdsOf(qs[w]) : p < nextId
  <2> SUFFICES ASSUME NEW p \in IdsOf(qs[w]) PROVE p < nextId
    OBVIOUS
  <2>1. p \in Ids /\ rows[p].state # "new"
    BY <1>1, <1>5, IdsOfType DEF TopicOk, QueuesOk, Belongs
  <2>2. p \in Nat /\ nextId \in Nat /\ ~(p >= nextId)
    BY <1>1, <1>2, <2>1, IdsAreNats DEF FreshIds
  <2>3. QED BY <2>2
<1>9. /\ IdsOf(qs2[w]) = IdsOf(qs[w]) \cup {nextId} /\ Ordered(qs2[w]) /\ qs2[w] # <<>>
      /\ qs[w] # <<>> => Head(qs2[w]) = Head(qs[w])
  BY <1>1, <1>2, <1>5, <1>7, <1>8, AppendToQueue DEF TopicOk, QueuesOk
<1>10. qs[w] = <<>> => qs2[w] = <<nextId>>
  BY <1>7
<1> HIDE DEF d, qs, qs2, s
<1>11. QueuesOk(r, qs2, rows', phase)
  BY <1>4, <1>6, <1>7, <1>9 DEF QueuesOk
<1>12. DrainOk(r, d, qs2, rows', phase)
  <2>1. d.pc \in InHand \cup {"capture"} => d.win \in Windows
    BY <1>5 DEF Drain, InHand
  <2>2. ItemOk(r, d, qs2, rows')
    BY <1>6, <1>7, <1>9, <2>1 DEF DrainOk, ItemOk
  <2>3. QED BY <1>6, <2>2 DEF DrainOk
<1>13. HeldOk(r, s, qs2, rows', phase)
  <2> SUFFICES ASSUME NEW p \in Ids, rows'[p].route = r, Waits(rows', p)
               PROVE  p \in IdsOf(qs2[rows'[p].win])
    BY DEF HeldOk
  <2>1. CASE p = nextId
    BY <1>4, <1>9, <2>1 DEF Belongs
  <2>2. CASE p # nextId
    <3>1. rows'[p] = rows[p] /\ rows[p].win \in Windows
      BY <1>4, <1>5, <2>2 DEF Row, Waits
    <3>2. p \in IdsOf(qs[rows[p].win])
      BY <1>1, <3>1 DEF TopicOk, HeldOk, Waits, s
    <3>3. QED BY <1>7, <1>9, <3>1, <3>2
  <2>3. QED BY <2>1, <2>2
<1>14. SenderOk(r, s, qs2, rows', phase)
  BY <1>6 DEF SenderOk, s
<1>15. TopicOk(r, qs2, d, s, rows', phase)
  BY <1>6, <1>11, <1>12, <1>13, <1>14 DEF TopicOk
<1>16. QED
  BY <1>2, <1>4, <1>7, <1>10, <1>15 DEF d, qs, qs2, s

\* The handler takes its prompt out of its deque, which leaves the deque empty and
\* a drain that works on it without one.
LEMMA DetachKeeps ==
    ASSUME TypeOK, NEW r \in Routes, NEW rws \in [Ids -> Row], phase = "up",
           TopicOk(r, queues[r], drain[r], sender[r], rws, phase),
           sender[r].pc \in {"capture", "send"},
           \/ queues[r][sender[r].win] = <<>>
           \/ ~Waits(rws, sender[r].item) /\ (sender[r].pc = "send" \/ Gone(rws, sender[r].item))
    PROVE  TopicOk(r, [queues[r] EXCEPT ![sender[r].win] = <<>>], Detached(r, <<>>),
                   NoSender, rws, phase)
<1> DEFINE d == drain[r]
           qs == queues[r]
           s == sender[r]
           qs2 == [qs EXCEPT ![s.win] = <<>>]
           e == Detached(r, <<>>)
<1>1. /\ s \in Sender /\ s.win \in Windows /\ s.item \in Ids /\ d \in Drain
      /\ qs \in [Windows -> Seq(Ids)]
  BY DEF TypeOK, Sender
<1>2. /\ qs2 \in [Windows -> Seq(Ids)] /\ qs2[s.win] = <<>>
      /\ \A v \in Windows \ {s.win} : qs2[v] = qs[v]
  BY <1>1, EmptySeq
<1>3. NoSender \in Sender /\ NoSender.pc = "idle"
  BY DEF NoSender, Sender, SenderPc
<1>4. TopicOk(r, qs, d, s, rws, phase)
  OBVIOUS
<1>5. TopicOk(r, qs, d, NoSender, rws, phase)
  BY <1>4, UnlockKeeps
<1>6. qs[s.win] \in {<<>>, <<s.item>>}
  BY DEF TopicOk, SenderOk
<1>7. qs[s.win] # <<>> => ~Waits(rws, s.item) /\ (s.pc = "send" \/ Gone(rws, s.item))
  OBVIOUS
<1>8. e = IF d.pc \notin {"none", "top"} /\ d.win = s.win /\ d.live
          THEN [d EXCEPT !.live = FALSE, !.own = <<>>] ELSE d
  BY DEF Detached
<1> HIDE DEF d, qs, s, qs2, e
<1>9. \A v \in Windows :
         /\ Ordered(qs2[v]) /\ IdsOf(qs2[v]) \subseteq IdsOf(qs[v])
         /\ \A p \in IdsOf(qs[v]) \ IdsOf(qs2[v]) : ~Waits(rws, p)
  <2>1. \A v \in Windows : Ordered(qs[v])
    BY <1>4 DEF TopicOk, QueuesOk
  <2>2. \A p \in IdsOf(qs[s.win]) : p = s.item /\ qs[s.win] # <<>>
    BY <1>6, EmptyQueue, OneInQueue
  <2>3. QED BY <1>1, <1>2, <1>7, <2>1, <2>2, EmptyQueue
<1>10. /\ QueuesOk(r, qs2, rws, phase)
       /\ SenderOk(r, NoSender, qs2, rws, phase)
       /\ HeldOk(r, NoSender, qs2, rws, phase)
  BY <1>1, <1>2, <1>3, <1>5, <1>9, ShrinkKeeps
<1>11. DrainOk(r, e, qs2, rws, phase)
  <2>1. ItemOk(r, d, qs, rws) /\ OrphanOk(r, d, rws, phase) /\ ApartOk(d, s, rws)
    BY <1>4 DEF TopicOk, DrainOk
  <2>2. CASE d.pc \notin {"none", "top"} /\ d.win = s.win /\ d.live
    <3>1. ~e.live /\ e.own = <<>> /\ e.pc = d.pc /\ e.win = d.win /\ e.item = d.item
      BY <1>1, <1>8, <2>2 DEF Drain
    <3>2. d.pc \in InHand => qs[s.win] # <<>> /\ Head(qs[s.win]) = d.item
      BY <2>1, <2>2 DEF ItemOk
    <3>3. d.pc \in InHand => d.item = s.item /\ qs[s.win] # <<>>
      BY <1>6, <3>2
    <3>4. d.pc \in {"send", "nsend"} => Gone(rws, d.item)
      BY <1>7, <2>1, <3>3 DEF ApartOk, HandedOver, InHand
    <3>5. ItemOk(r, e, qs2, rws)
      BY <2>1, <2>2, <3>1 DEF ItemOk
    <3>6. OrphanOk(r, e, rws, phase)
      BY <1>7, <3>1, <3>3, <3>4, EmptyQueue DEF OrphanOk, InHand
    <3>7. QED BY <3>5, <3>6 DEF DrainOk
  <2>3. CASE ~(d.pc \notin {"none", "top"} /\ d.win = s.win /\ d.live)
    <3>1. e = d
      BY <1>8, <2>3, Zenon
    <3>2. d.live /\ d.pc \in InHand \cup {"capture"} => d.win \in Windows \ {s.win}
      BY <1>1, <2>3 DEF Drain, InHand
    <3>3. ItemOk(r, d, qs2, rws)
      BY <1>2, <2>1, <3>2 DEF ItemOk
    <3>4. QED BY <2>1, <3>1, <3>3 DEF DrainOk
  <2>4. QED BY <2>2, <2>3
<1>12. ApartOk(e, NoSender, rws)
  BY <1>3 DEF ApartOk
<1>13. TopicOk(r, qs2, e, NoSender, rws, phase)
  BY <1>10, <1>11, <1>12 DEF TopicOk
<1>14. QED BY <1>13 DEF qs2, qs, s, e

LEMMA HandlerStepRows ==
    ASSUME SendInv, NEW r \in Routes, HandlerStep(r)
    PROVE  Ages(rows, rows') /\ \A t \in Routes \ {r} : NoneNew(t, rows, rows')
<1>0. TypeOK /\ FreshIds
  BY DEF SendInv
<1>1. CASE rows' = rows
  BY <1>1, NothingAges
<1>2. CASE \E S : rows' = Deleted(S)
  BY <1>0, <1>2, DeletedAges
<1>3. CASE \E p : Markable(p) /\ rows' = Marked(p)
  BY <1>0, <1>3, MarkedAges
<1>4. CASE \E w \in Windows, mode \in Modes : nextId \in Ids /\ rows' = Inserted(r, w, mode)
  BY <1>0, <1>4, InsertedAges
<1>5. ASSUME QueueBehind(r) \/ SendDirect(r) \/ SendNative(r)
      PROVE  \E w \in Windows, mode \in Modes : nextId \in Ids /\ rows' = Inserted(r, w, mode)
  <2>1. binding[r] \in Windows
    BY <1>0, <1>5 DEF QueueBehind, SendDirect, SendNative, TypeOK
  <2>2. nextId \in Ids
    BY <1>0, <1>5, AgentInputQueueAssumption
    DEF QueueBehind, SendDirect, SendNative, Enqueue, TypeOK, Ids
  <2>3. \E mode \in Modes : rows' = Inserted(r, binding[r], mode)
    BY <1>5 DEF QueueBehind, SendDirect, SendNative, Enqueue, Modes
  <2>4. QED BY <2>1, <2>2, <2>3
<1>6. ASSUME DirectUnavailable(r) PROVE rows' = rows \/ \E S : rows' = Deleted(S)
  BY <1>6 DEF DirectUnavailable
<1>7. ASSUME DirectSendFailed(r) \/ NativeFailed(r) \/ DiscardFinish(r)
      PROVE  \E S : rows' = Deleted(S)
  BY <1>7 DEF DirectSendFailed, NativeFailed, DiscardFinish
<1>8. ASSUME DirectSubmit(r) \/ NativeSubmit(r) PROVE \E p : Markable(p) /\ rows' = Marked(p)
  BY <1>8 DEF DirectSubmit, NativeSubmit
<1>9. ASSUME \/ RefuseFull(r) \/ DirectDefer(r) \/ DirectAcquire(r) \/ DirectSent(r)
             \/ DirectPopFault(r) \/ DirectSendError(r) \/ NativeSent(r) \/ DiscardStart(r)
      PROVE  rows' = rows
  BY <1>9 DEF RefuseFull, DirectDefer, DirectAcquire, DirectSent, DirectPopFault,
              DirectSendError, NativeSent, DiscardStart
<1>10. QED
  BY <1>1, <1>2, <1>3, <1>4, <1>5, <1>6, <1>7, <1>8, <1>9
  DEF HandlerStep, DirectStep, NativeStep

LEMMA HoldIs ==
    ASSUME TypeOK, NEW r \in Routes, NEW pc, NEW w, NEW p, Hold(r, pc, w, p)
    PROVE  /\ sender'[r].pc = pc /\ sender'[r].win = w /\ sender'[r].item = p
           /\ \A t \in Routes \ {r} : sender'[t] = sender[t]
BY DEF TypeOK, Hold

LEMMA UnlockIs ==
    ASSUME TypeOK, NEW r \in Routes, Unlock(r)
    PROVE  sender'[r] = NoSender /\ \A t \in Routes \ {r} : sender'[t] = sender[t]
BY DEF TypeOK, Unlock

\* The handler sends itself, step by step.
LEMMA DirectKeepsCustody ==
    ASSUME CustodyInv, TypeOK', NEW r \in Routes, DirectStep(r)
    PROVE  Custody(r)' /\ StepOf(r)
<1> DEFINE d == drain[r]
           w == sender[r].win
           p == sender[r].item
           qs == queues[r]
           s == sender[r]
<1>1. SendInv /\ TypeOK /\ TopicOk(r, qs, d, s, rows, phase)
  BY DEF CustodyInv, SendInv, Custody
<1>2. s.pc \in {"capture", "baseline", "send"}
  BY DEF DirectStep, DirectUnavailable, DirectDefer, DirectAcquire, DirectSubmit,
         DirectSent, DirectSendFailed, DirectPopFault, DirectSendError, Holds
<1>3. /\ d \in Drain /\ s \in Sender /\ w \in Windows /\ p \in Ids /\ phase = "up"
      /\ qs \in [Windows -> Seq(Ids)] /\ rows \in [Ids -> Row] /\ rows' \in [Ids -> Row]
  BY <1>1, <1>2 DEF TopicOk, SenderOk, TypeOK, Sender
<1>4. HandlerStep(r)
  BY DEF HandlerStep
<1>5. Ages(rows, rows') /\ \A t \in Routes \ {r} : NoneNew(t, rows, rows')
  BY <1>1, <1>4, HandlerStepRows
<1>6. NoneNew(r, rows, rows')
  <2>1. \/ rows' = rows \/ (\E S : rows' = Deleted(S)) \/ (Markable(p) /\ rows' = Marked(p))
    BY DEF DirectStep, DirectUnavailable, DirectDefer, DirectAcquire, DirectSubmit,
         DirectSent, DirectSendFailed, DirectPopFault, DirectSendError
  <2>2. QED BY <1>1, <2>1, NothingAges, DeletedAges, MarkedAges
<1>7. TopicOk(r, qs, d, s, rows', phase)
  BY <1>1, <1>3, <1>5, <1>6, AgingKeeps
<1>8. /\ qs[w] \in {<<>>, <<p>>} /\ Belongs(r, w, rows, p)
      /\ s.pc = "send" => Past(rows, p)
      /\ qs[w] = <<>> => ~Waits(rows, p)
  <2>1. /\ qs[w] \in {<<>>, <<p>>} /\ Belongs(r, w, rows, p)
        /\ s.pc = "send" => Past(rows, p)
    BY <1>1, <1>2 DEF TopicOk, SenderOk
  <2>2. ASSUME Waits(rows, p), qs[w] = <<>> PROVE FALSE
    <3>1. p \in IdsOf(qs[w])
      BY <1>1, <1>2, <1>3, <2>1, <2>2 DEF TopicOk, HeldOk, Belongs
    <3>2. QED BY <2>2, <3>1, EmptyQueue
  <2>3. QED BY <2>1, <2>2
<1>9. /\ qs[w] # <<>> => Head(qs[w]) = p /\ Tail(qs[w]) = <<>>
  <2>1. Head(<<p>>) = p /\ Tail(<<p>>) = <<>>
    OBVIOUS
  <2>2. QED BY <1>8, <2>1
<1>10. Queue(r) = qs[w]
  BY DEF Queue
<1> HIDE DEF d, w, qs, s, p
<1>11. CASE \/ DirectUnavailable(r) \/ DirectSent(r) \/ DirectSendFailed(r) \/ DirectSendError(r)
  <2>1. /\ queues' = [queues EXCEPT ![r][w] = <<>>]
        /\ drain' = [drain EXCEPT ![r] = Detached(r, <<>>)]
    BY <1>9, <1>10, <1>11
    DEF DirectUnavailable, DirectSent, DirectSendFailed, DirectSendError, w, p
  <2>2. Unlock(r) /\ phase' = phase
    BY <1>11 DEF DirectUnavailable, DirectSent, DirectSendFailed, DirectSendError, Elsewhere
  <2>3. /\ queues'[r] = [qs EXCEPT ![w] = <<>>] /\ drain'[r] = Detached(r, <<>>)
        /\ \A t \in Routes \ {r} : queues'[t] = queues[t] /\ drain'[t] = drain[t]
    BY <1>1, <2>1 DEF TypeOK, qs
  <2>4. s.pc \in {"capture", "send"}
    BY <1>11 DEF DirectUnavailable, DirectSent, DirectSendFailed, DirectSendError, Holds, s
  <2>5. \/ qs[w] = <<>>
        \/ ~Waits(rows', p) /\ (s.pc = "send" \/ Gone(rows', p))
    <3>1. CASE DirectUnavailable(r) /\ qs[w] # <<>>
      <4>1. rows' = Deleted({p})
        BY <1>9, <1>10, <3>1 DEF DirectUnavailable, p
      <4>2. Gone(rows', p)
        BY <1>1, <1>3, <1>8, <4>1, DeletedAges DEF Belongs
      <4>3. QED BY <4>2 DEF Gone, Waits
    <3>2. CASE s.pc = "send"
      <4>1. Past(rows', p)
        BY <1>7, <3>2 DEF TopicOk, SenderOk, p, s
      <4>2. QED BY <3>2, <4>1 DEF Past, Waits
    <3>3. QED
      BY <1>11, <3>1, <3>2 DEF DirectSent, DirectSendFailed, DirectSendError, Holds, s
  <2>6. TopicOk(r, [qs EXCEPT ![w] = <<>>], Detached(r, <<>>), NoSender, rows', phase)
    BY <1>1, <1>3, <1>7, <2>4, <2>5, DetachKeeps DEF qs, w, s, d, p
  <2>7. QED BY <1>1, <1>5, <2>2, <2>3, <2>6, UnlockIs DEF Custody, StepOf
<1>12. CASE DirectPopFault(r)
  <2>1. /\ UNCHANGED <<queues, drain, phase>> /\ Unlock(r) /\ s.pc = "send"
    BY <1>12 DEF DirectPopFault, Elsewhere, Holds, s
  <2>2. TopicOk(r, qs, d, NoSender, rows', phase)
    BY <1>7, <2>1, UnlockKeeps
  <2>3. QED BY <1>1, <1>5, <2>1, <2>2, UnlockIs DEF Custody, StepOf, qs, d
<1>13. CASE DirectDefer(r)
  <2>1. /\ UNCHANGED <<rows, queues, phase>> /\ Unlock(r) /\ EnsureDrain(rows, confirm, r, w)
    BY <1>13 DEF DirectDefer, Elsewhere, w
  <2>2. TopicOk(r, qs, d, NoSender, rows, phase)
    BY <1>1, <1>2, UnlockKeeps
  <2>3. /\ TopicOk(r, qs, drain'[r], NoSender, rows, phase)
        /\ \A t \in Routes \ {r} : drain'[t] = drain[t]
    BY <1>1, <1>3, <2>1, <2>2, EnsureKeeps DEF d
  <2>4. QED BY <1>1, <1>5, <2>1, <2>3, UnlockIs DEF Custody, StepOf, qs
<1>14. CASE DirectAcquire(r) \/ DirectSubmit(r)
  <2>1. PICK pc \in {"baseline", "send"} : Hold(r, pc, w, p)
    BY <1>14 DEF DirectAcquire, DirectSubmit, w, p
  <2> DEFINE s2 == sender'[r]
  <2>2. /\ s2.pc = pc /\ s2.win = w /\ s2.item = p
        /\ \A t \in Routes \ {r} : sender'[t] = sender[t]
    BY <1>1, <2>1, HoldIs
  <2>3. UNCHANGED <<queues, drain, phase>>
    BY <1>14 DEF DirectAcquire, DirectSubmit, Elsewhere
  <2>4. pc = "send" => Past(rows', p) /\ Waits(rows, p) /\ qs[w] # <<>>
    <3>1. CASE DirectAcquire(r)
      <4>1. Hold(r, "baseline", w, p)
        BY <3>1 DEF DirectAcquire, w, p
      <4>2. QED BY <1>1, <2>2, <4>1, HoldIs
    <3>2. CASE DirectSubmit(r)
      BY <1>1, <1>8, <3>2, MarkedAges DEF DirectSubmit, Markable, Waits, p
    <3>3. QED BY <1>14, <3>1, <3>2
  <2> HIDE DEF s2
  <2>5. SenderOk(r, s2, qs, rows', phase)
    BY <1>2, <1>3, <1>7, <2>2, <2>4 DEF TopicOk, SenderOk, w, p, s
  <2>6. ApartOk(d, s2, rows')
    BY <1>1, <2>2, <2>4 DEF TopicOk, DrainOk, ItemOk, ApartOk, HandedOver, Past, Waits
  <2>7. HeldOk(r, s2, qs, rows', phase)
    BY <1>2, <1>7 DEF TopicOk, HeldOk
  <2>8. TopicOk(r, qs, d, s2, rows', phase)
    BY <1>7, <2>5, <2>6, <2>7 DEF TopicOk
  <2>9. QED BY <1>5, <2>2, <2>3, <2>8 DEF Custody, StepOf, qs, d, s2
<1>15. QED
  BY <1>11, <1>12, <1>13, <1>14 DEF DirectStep

\* What the cancellation of a drain leaves in the deques.
LEMMA CancelledKeeps ==
    ASSUME TypeOK, NEW r \in Routes, TopicOk(r, queues[r], drain[r], sender[r], rows, phase)
    PROVE  /\ QueuesOk(r, Cancelled(r).queues[r], rows, phase)
           /\ HeldOk(r, sender[r], Cancelled(r).queues[r], rows, phase)
<1> DEFINE x == Cancelled(r)
<1>1. \/ x.queues = queues
      \/ x.queues = Popped(r) /\ Deque(r) # <<>> /\ drain[r].pc \in {"send", "nsend"}
  BY DEF Cancelled, SendAborted
<1> HIDE DEF x
<1>2. rows \in [Ids -> Row]
  BY DEF TypeOK
<1>3. QueuesOk(r, x.queues[r], rows, phase) /\ HeldOk(r, sender[r], x.queues[r], rows, phase)
  BY <1>1, <1>2, PoppedKeeps DEF TopicOk
<1>4. QED BY <1>3 DEF x

\* Native prompts, and discarding.
LEMMA DiscardKeepsCustody ==
    ASSUME CustodyInv, TypeOK', NEW r \in Routes, DiscardFinish(r)
    PROVE  Custody(r)' /\ StepOf(r)
<1> DEFINE d == drain[r]
           qs == queues[r]
           s == sender[r]
           x == Cancelled(r)
<1>1. SendInv /\ TypeOK /\ TopicOk(r, qs, d, s, rows, phase)
  BY DEF CustodyInv, SendInv, Custody
<1>2. /\ s.pc = "discard" /\ phase = "up" /\ rows \in [Ids -> Row] /\ rows' \in [Ids -> Row]
  BY <1>1 DEF DiscardFinish, Holds, TopicOk, SenderOk, TypeOK
<1>3. rows' = Deleted(RouteRows(r)) /\ phase' = phase /\ Unlock(r)
  BY DEF DiscardFinish
<1>4. Ages(rows, rows') /\ \A t : NoneNew(t, rows, rows')
  BY <1>1, <1>3, DeletedAges
<1>5. /\ \A v \in Windows : queues'[r][v] = <<>>
      /\ \A t \in Routes \ {r} : queues'[t] = queues[t]
  BY <1>1 DEF DiscardFinish, TypeOK
<1>6. PICK e \in NewDrains : drain' = [drain EXCEPT ![r] = Orphaned(e, x.queues, r)]
  BY SuccessorsFresh DEF DiscardFinish, NewDrains
<1> DEFINE e2 == Orphaned(e, x.queues, r)
<1>7. drain'[r] = e2 /\ \A t \in Routes \ {r} : drain'[t] = drain[t]
  BY <1>1, <1>6 DEF TypeOK
<1>8. QueuesOk(r, x.queues[r], rows, phase) /\ x.queues \in Queues
  BY <1>1, CancelledKeeps, CancelledType
<1> HIDE DEF x
<1>9. \A p \in Ids : rows[p].route = r /\ rows[p].state # "new" => Gone(rows', p)
  <2> SUFFICES ASSUME NEW p \in Ids, rows[p].route = r, rows[p].state # "new" PROVE Gone(rows', p)
    OBVIOUS
  <2>1. p \in RouteRows(r) \/ rows[p].state = "gone"
    BY <1>2 DEF RouteRows, Stored, Row
  <2>2. rows'[p].state = IF p \in RouteRows(r) /\ Stored(p) THEN "gone" ELSE rows[p].state
    BY <1>1, <1>3, DeletedStates
  <2>3. QED BY <2>1, <2>2 DEF Gone, RouteRows
<1>10. DrainOk(r, e2, queues'[r], rows', phase)
  <2>1. CASE e.pc = "none"
    <3>1. e2 = e /\ e.live
      <4>1. e2 = e
        BY <2>1 DEF Orphaned
      <4>2. \A v : NewDrain(v).pc = "top"
        BY DEF NewDrain, NoDrain
      <4>3. e = NoDrain
        BY <2>1, <4>2 DEF NewDrains
      <4>4. QED BY <4>1, <4>3 DEF NoDrain
    <3>2. QED BY <2>1, <3>1 DEF DrainOk, ItemOk, OrphanOk, InHand, HandedOver
  <2>2. CASE e.pc # "none"
    <3>1. PICK v \in Windows : e = NewDrain(v)
      BY <2>2 DEF NewDrains, NoDrain
    <3>2. /\ e2.pc = "capture" /\ ~e2.live /\ e2.win = v /\ e2.own = x.queues[r][v]
      BY <2>2, <3>1 DEF Orphaned, Looking, NewDrain, NoDrain
    <3>3. /\ Ordered(x.queues[r][v]) /\ x.queues[r][v] \in Seq(Ids)
          /\ \A p \in IdsOf(x.queues[r][v]) : p \in Ids /\ Belongs(r, v, rows, p)
      BY <1>8, IdsOfType DEF QueuesOk, Queues
    <3>4. \A p \in IdsOf(x.queues[r][v]) : Belongs(r, v, rows', p) /\ Gone(rows', p)
      BY <1>4, <1>9, <3>3 DEF Belongs, Ages
    <3> HIDE DEF e2
    <3>5. QED BY <1>2, <3>2, <3>3, <3>4 DEF DrainOk, ItemOk, OrphanOk, InHand, HandedOver
  <2>3. QED BY <2>1, <2>2
<1>11. QueuesOk(r, queues'[r], rows', phase)
  BY <1>2, <1>5, EmptyQueue DEF QueuesOk
<1>12. HeldOk(r, NoSender, queues'[r], rows', phase)
  <2> SUFFICES ASSUME NEW p \in Ids, rows'[p].route = r, Waits(rows', p) PROVE FALSE
    BY DEF HeldOk
  <2>1. rows[p].state # "new" /\ rows[p].route = r
    BY <1>4 DEF Ages, NoneNew, Waits
  <2>2. QED BY <1>9, <2>1 DEF Gone, Waits
<1>13. SenderOk(r, NoSender, queues'[r], rows', phase) /\ ApartOk(e2, NoSender, rows')
  BY DEF SenderOk, ApartOk, NoSender
<1>14. QED
  BY <1>1, <1>3, <1>4, <1>5, <1>7, <1>10, <1>11, <1>12, <1>13, UnlockIs
  DEF Custody, TopicOk, StepOf

LEMMA HandlerKeepsCustody ==
    ASSUME CustodyInv, TypeOK', NEW r \in Routes, HandlerStep(r)
    PROVE  Custody(r)' /\ StepOf(r)
<1> DEFINE d == drain[r]
           w == binding[r]
           p == sender[r].item
           qs == queues[r]
           s == sender[r]
<1>1. SendInv /\ TypeOK /\ TopicOk(r, qs, d, s, rows, phase)
  BY DEF CustodyInv, SendInv, Custody
<1>2. /\ d \in Drain /\ s \in Sender /\ w \in Windows \cup {None}
      /\ qs \in [Windows -> Seq(Ids)] /\ rows \in [Ids -> Row] /\ rows' \in [Ids -> Row]
  BY <1>1 DEF TypeOK
<1>3. Ages(rows, rows') /\ \A t \in Routes \ {r} : NoneNew(t, rows, rows')
  BY <1>1, HandlerStepRows
<1>4. NoneNew(r, rows, rows') => TopicOk(r, qs, d, s, rows', phase)
  BY <1>1, <1>2, <1>3, AgingKeeps
<1> HIDE DEF d, w, qs, s, p
<1>5. CASE QueueBehind(r)
  <2>1. /\ w \in Windows /\ Enqueue(r, w) /\ phase = "up" /\ s.pc = "idle"
        /\ EnsureDrain(Inserted(r, w, "turn"), confirm, r, w)
        /\ sender' = sender /\ phase' = phase
    BY <1>2, <1>5 DEF QueueBehind, Free, Elsewhere, w, s
  <2>2. /\ TopicOk(r, queues'[r], drain[r], sender[r], rows', phase)
        /\ \A t \in Routes \ {r} : queues'[t] = queues[t]
    BY <2>1, EnqueueKeeps DEF s
  <2>3. /\ TopicOk(r, queues'[r], drain'[r], sender[r], rows', phase)
        /\ \A t \in Routes \ {r} : drain'[t] = drain[t]
    BY <1>1, <2>1, <2>2, EnsureKeeps
  <2>4. QED BY <1>3, <2>1, <2>2, <2>3 DEF Custody, StepOf
<1>6. CASE RefuseFull(r)
  <2>1. /\ w \in Windows /\ phase = "up" /\ EnsureDrain(rows, confirm, r, w)
        /\ UNCHANGED <<rows, queues, sender, phase>>
    BY <1>2, <1>6 DEF RefuseFull, Free, Elsewhere, w
  <2>2. /\ TopicOk(r, qs, drain'[r], s, rows, phase)
        /\ \A t \in Routes \ {r} : drain'[t] = drain[t]
    BY <1>1, <2>1, EnsureKeeps DEF d
  <2>3. QED BY <1>3, <2>1, <2>2 DEF Custody, StepOf, qs, s
<1>7. CASE SendDirect(r)
  <2>1. /\ w \in Windows /\ Enqueue(r, w) /\ phase = "up" /\ s.pc = "idle"
        /\ Hold(r, "capture", w, nextId) /\ drain' = drain /\ phase' = phase
        /\ \A v \in Windows : qs[v] = <<>>
    BY <1>2, <1>7 DEF SendDirect, Free, Elsewhere, MustQueue, RouteHasQueue, w, s, qs
  <2>2. /\ TopicOk(r, queues'[r], d, s, rows', phase) /\ Belongs(r, w, rows', nextId)
        /\ queues'[r][w] = <<nextId>> /\ \A v \in Windows \ {w} : queues'[r][v] = <<>>
        /\ \A t \in Routes \ {r} : queues'[t] = queues[t]
    BY <2>1, EnqueueKeeps DEF s, qs, d
  <2> DEFINE s2 == sender'[r]
  <2>3. /\ s2.pc = "capture" /\ s2.win = w /\ s2.item = nextId
        /\ \A t \in Routes \ {r} : sender'[t] = sender[t]
    BY <1>1, <2>1, HoldIs
  <2> HIDE DEF s2
  <2>4. SenderOk(r, s2, queues'[r], rows', phase) /\ ApartOk(d, s2, rows')
    BY <2>1, <2>2, <2>3 DEF SenderOk, ApartOk
  <2>5. HeldOk(r, s2, queues'[r], rows', phase)
    BY <2>1, <2>2 DEF TopicOk, HeldOk
  <2>6. TopicOk(r, queues'[r], d, s2, rows', phase)
    BY <2>2, <2>4, <2>5 DEF TopicOk
  <2>7. QED BY <1>3, <2>1, <2>2, <2>3, <2>6 DEF Custody, StepOf, d, s2
<1>8. CASE SendNative(r)
  <2>1. /\ w \in Windows /\ nextId \in Ids /\ phase = "up" /\ s.pc = "idle"
        /\ Hold(r, "nbaseline", w, nextId) /\ UNCHANGED <<drain, phase, queues>>
        /\ \A v \in Windows : qs[v] = <<>>
    BY <1>1, <1>2, <1>8, AgentInputQueueAssumption
    DEF SendNative, Free, Elsewhere, MustQueue, RouteHasQueue, TypeOK, Ids, w, s, qs
  <2>2. /\ QueuesOk(r, qs, rows', phase) /\ DrainOk(r, d, qs, rows', phase)
    BY <1>1, <1>2, <1>3, <2>1, AgingKeeps
  <2>3. Belongs(r, w, rows', nextId) /\ \A q \in Ids : q # nextId => rows'[q] = rows[q]
    <3>1. PICK mode \in Modes : rows' = Inserted(r, w, mode)
      BY <1>8 DEF SendNative, Modes, w
    <3>2. QED BY <1>1, <2>1, <3>1, InsertedAges DEF SendInv
  <2> DEFINE s2 == sender'[r]
  <2>4. /\ s2.pc = "nbaseline" /\ s2.win = w /\ s2.item = nextId
        /\ \A t \in Routes \ {r} : sender'[t] = sender[t]
    BY <1>1, <2>1, HoldIs
  <2> HIDE DEF s2
  <2>5. SenderOk(r, s2, qs, rows', phase) /\ ApartOk(d, s2, rows')
    BY <2>1, <2>3, <2>4 DEF SenderOk, ApartOk
  <2>6. HeldOk(r, s2, qs, rows', phase)
    BY <1>1, <2>1, <2>3, <2>4 DEF TopicOk, HeldOk, Waits
  <2>7. TopicOk(r, qs, d, s2, rows', phase)
    BY <2>2, <2>5, <2>6 DEF TopicOk
  <2>8. QED BY <1>3, <2>1, <2>4, <2>7 DEF Custody, StepOf, d, s2, qs
<1>9. CASE DirectStep(r)
  BY <1>9, DirectKeepsCustody
<1>10. CASE NativeSubmit(r)
  <2>1. /\ s.pc = "nbaseline" /\ Markable(p) /\ rows' = Marked(p)
        /\ Hold(r, "nsend", s.win, p) /\ UNCHANGED <<queues, drain, phase>>
    BY <1>10 DEF NativeSubmit, Holds, Elsewhere, s, p
  <2>2. TopicOk(r, qs, d, s, rows', phase) /\ Past(rows', p) /\ Waits(rows, p)
    BY <1>1, <1>4, <2>1, MarkedAges DEF Markable, Waits
  <2> DEFINE s2 == sender'[r]
  <2>3. /\ s2.pc = "nsend" /\ s2.win = s.win /\ s2.item = p
        /\ \A t \in Routes \ {r} : sender'[t] = sender[t]
    BY <1>1, <2>1, HoldIs
  <2> HIDE DEF s2
  <2>4. SenderOk(r, s2, qs, rows', phase)
    BY <2>1, <2>2, <2>3 DEF TopicOk, SenderOk, p, s
  <2>5. ApartOk(d, s2, rows')
    BY <1>1, <2>2, <2>3 DEF TopicOk, DrainOk, ItemOk, ApartOk, HandedOver, Past, Waits
  <2>6. HeldOk(r, s2, qs, rows', phase)
    BY <2>1, <2>2 DEF TopicOk, HeldOk, Past, Waits, p, s
  <2>7. TopicOk(r, qs, d, s2, rows', phase)
    BY <2>2, <2>4, <2>5, <2>6 DEF TopicOk
  <2>8. QED BY <1>3, <2>1, <2>3, <2>7 DEF Custody, StepOf, d, s2, qs
<1>11. CASE NativeFailed(r) \/ NativeSent(r)
  <2>1. /\ s.pc \in {"nbaseline", "nsend"} /\ Unlock(r) /\ UNCHANGED <<queues, drain, phase>>
        /\ s.pc = "nbaseline" => rows' = Deleted({p})
        /\ rows' = rows \/ rows' = Deleted({p})
    BY <1>11 DEF NativeFailed, NativeSent, Holds, Elsewhere, s, p
  <2>2. TopicOk(r, qs, d, s, rows', phase)
    BY <1>1, <1>4, <2>1, DeletedAges, NothingAges
  <2>3. s.pc = "nbaseline" => ~Waits(rows', s.item)
    <3>1. s.pc = "nbaseline" => p \in Ids /\ rows[p].state # "new"
      BY <1>1, <1>2 DEF TopicOk, SenderOk, Belongs, Sender, s, p
    <3>2. QED BY <1>1, <2>1, <3>1, DeletedAges DEF Gone, Waits, s, p
  <2>4. TopicOk(r, qs, d, NoSender, rows', phase)
    BY <2>2, <2>3, UnlockKeeps
  <2>5. QED BY <1>1, <1>3, <2>1, <2>4, UnlockIs DEF Custody, StepOf, d, qs
<1>12. CASE DiscardStart(r)
  <2>1. /\ s.pc = "idle" /\ phase = "up" /\ Hold(r, "discard", w, NoId)
        /\ UNCHANGED <<rows, queues, phase>>
    BY <1>12 DEF DiscardStart, Free, Elsewhere, s, w
  <2>7. PICK e \in {drain[r]} \cup NewDrains : drain' = [drain EXCEPT ![r] = e]
    BY <1>1, <1>12, DiscardWakes DEF NewDrains, TypeOK
  <2>8. drain'[r] = e /\ \A t \in Routes \ {r} : drain'[t] = drain[t]
    BY <1>1, <2>7 DEF TypeOK
  <2> DEFINE s2 == sender'[r]
  <2>2. s2.pc = "discard" /\ \A t \in Routes \ {r} : sender'[t] = sender[t]
    BY <1>1, <2>1, HoldIs
  <2> HIDE DEF s2
  <2>3. SenderOk(r, s2, qs, rows, phase) /\ ApartOk(d, s2, rows)
    BY <2>1, <2>2 DEF SenderOk, ApartOk
  <2>4. HeldOk(r, s2, qs, rows, phase)
    BY <1>1, <2>1 DEF TopicOk, HeldOk
  <2>5. TopicOk(r, qs, e, s2, rows, phase)
    <3>1. CASE e = drain[r]
      BY <1>1, <2>3, <2>4, <3>1 DEF TopicOk, d
    <3>2. CASE e \in NewDrains
      BY <1>1, <2>1, <2>3, <2>4, <3>2, FreshKeeps DEF TopicOk
    <3>3. QED BY <3>1, <3>2
  <2>6. QED BY <1>3, <2>1, <2>2, <2>5, <2>8 DEF Custody, StepOf, s2, qs
<1>13. CASE DiscardFinish(r)
  BY <1>13, DiscardKeepsCustody
<1>14. QED
  BY <1>5, <1>6, <1>7, <1>8, <1>9, <1>10, <1>11, <1>12, <1>13 DEF HandlerStep, NativeStep

-------------------------------------------------------------------------------
(* The steps of all topics at once.                                         *)

\* A confirmation only starts a drain for deques that wait.
LEMMA ConfirmationKeepsCustody ==
    ASSUME CustodyInv, TypeOK', NEW p \in Ids, ConfirmationStep(p)
    PROVE  /\ \A t \in Routes : Custody(t)'
           /\ Ages(rows, rows') /\ \A t : NoneNew(t, rows, rows')
           /\ UNCHANGED <<queues, sender, phase, nextId, binding, sends, adm>>
           /\ \A t \in Routes : t # rows[p].route => drain'[t] = drain[t]
           /\ \A t \in Routes : drain'[t] # drain[t] =>
                 /\ drain'[t] \in {NewDrain(v) : v \in Windows}
                 /\ drain[t].pc = "none" /\ queues[t][drain'[t].win] # <<>>
<1> DEFINE r == rows[p].route
<1>1. TypeOK
  BY DEF CustodyInv, SendInv
<1>2. Ages(rows, rows') /\ \A t : NoneNew(t, rows, rows')
  <2>1. rows' = rows \/ \E S : rows' = Deleted(S)
    BY DEF ConfirmationStep, ConfirmationSeen, ConfirmationRetire, ConfirmationNotified,
           ConfirmationExit, Confirmed
  <2>2. QED BY <1>1, <2>1, NothingAges, DeletedAges
<1>3. UNCHANGED <<queues, sender, phase, nextId, binding, sends, adm>>
  BY DEF ConfirmationStep, ConfirmationSeen, ConfirmationRetire, ConfirmationNotified, Settled
<1>4. \/ drain' = drain
      \/ /\ ~RouteHasDrain(r)
         /\ \E v \in Windows : /\ queues[r][v] # <<>>
                               /\ drain' = [drain EXCEPT ![r] = NewDrain(v)]
  BY DEF ConfirmationStep, ConfirmationSeen, ConfirmationRetire, ConfirmationNotified,
         ConfirmationExit
<1> HIDE DEF r
<1>5. ASSUME NEW t \in Routes
      PROVE  /\ t # r => drain'[t] = drain[t]
             /\ drain'[t] # drain[t] => /\ drain'[t] \in {NewDrain(v) : v \in Windows}
                                       /\ drain[t].pc = "none" /\ queues[t][drain'[t].win] # <<>>
  <2>1. CASE drain' = drain
    BY <2>1
  <2>2. CASE ~RouteHasDrain(r) /\ \E v \in Windows : /\ queues[r][v] # <<>>
                                                    /\ drain' = [drain EXCEPT ![r] = NewDrain(v)]
    <3>1. PICK v \in Windows : /\ queues[r][v] # <<>>
                               /\ drain' = [drain EXCEPT ![r] = NewDrain(v)]
      BY <2>2
    <3>2. NewDrain(v).win = v
      BY DEF NewDrain, NoDrain
    <3>3. drain'[t] = IF t = r THEN NewDrain(v) ELSE drain[t]
      BY <1>1, <3>1 DEF TypeOK
    <3>4. QED BY <2>2, <3>1, <3>2, <3>3 DEF RouteHasDrain
  <2>3. QED BY <1>4, <2>1, <2>2
<1>6. ASSUME NEW t \in Routes PROVE Custody(t)'
  <2>1. TopicOk(t, queues[t], drain[t], sender[t], rows', phase)
    <3>1. /\ queues[t] \in [Windows -> Seq(Ids)] /\ drain[t] \in Drain /\ sender[t] \in Sender
          /\ rows \in [Ids -> Row] /\ rows' \in [Ids -> Row]
      BY <1>1 DEF TypeOK
    <3>2. TopicOk(t, queues[t], drain[t], sender[t], rows, phase)
      BY DEF CustodyInv, Custody
    <3>3. QED BY <1>2, <3>1, <3>2, AgingKeeps
  <2>2. CASE drain'[t] = drain[t]
    BY <1>3, <2>1, <2>2 DEF Custody
  <2>3. CASE drain'[t] # drain[t]
    <3>1. PICK v \in Windows : drain'[t] = NewDrain(v)
      BY <1>5, <2>3
    <3>2. drain'[t] \in NewDrains /\ drain'[t].win = v /\ queues[t][v] # <<>>
      BY <1>5, <2>3, <3>1 DEF NewDrains, NewDrain, NoDrain
    <3>3. phase # "down"
      BY <2>1, <3>2 DEF TopicOk, QueuesOk
    <3>4. TopicOk(t, queues[t], drain'[t], sender[t], rows', phase)
      BY <2>1, <3>2, <3>3, FreshKeeps DEF TopicOk
    <3>5. QED BY <1>3, <3>4 DEF Custody
  <2>4. QED BY <2>2, <2>3
<1>7. QED BY <1>2, <1>3, <1>5, <1>6 DEF r

\* The drains that survive the stop of the runtime have all that waits.
LEMMA StopKeepsCustody ==
    ASSUME CustodyInv, Stop, NEW r \in Routes
    PROVE  Custody(r)'
<1> DEFINE x == Cancelled(r)
           s == sender[r]
<1>1. TypeOK /\ TopicOk(r, queues[r], drain[r], s, rows, phase)
  BY DEF CustodyInv, SendInv, Custody
<1>2. /\ phase = "up" /\ phase' = "stopping" /\ s.pc = "idle" /\ sender' = sender
      /\ rows' = rows /\ \A v \in Windows : queues'[r][v] = <<>>
  BY DEF Stop, Holds
<1>3. PICK e \in NewDrains : drain'[r] = Orphaned(e, [t \in Routes |-> Cancelled(t).queues[t]], r)
  BY DEF Stop, NewDrains
<1>4. Orphaned(e, [t \in Routes |-> Cancelled(t).queues[t]], r) = Orphaned(e, x.queues, r)
  BY DEF Orphaned
<1>5. drain'[r] = Orphaned(e, x.queues, r)
  BY <1>3, <1>4
<1>6. /\ QueuesOk(r, x.queues[r], rows, phase) /\ HeldOk(r, s, x.queues[r], rows, phase)
      /\ x.queues \in Queues
  BY <1>1, CancelledKeeps, CancelledType
<1> HIDE DEF x, s
<1>7. DrainOk(r, drain'[r], queues'[r], rows', phase')
  <2>1. CASE e = NoDrain
    <3>1. drain'[r] = NoDrain
      BY <1>5, <2>1 DEF Orphaned, NoDrain
    <3>2. QED BY <3>1 DEF DrainOk, ItemOk, OrphanOk, InHand, HandedOver, NoDrain
  <2>2. CASE e # NoDrain
    <3>1. PICK v \in Windows : e = NewDrain(v)
      BY <2>2 DEF NewDrains
    <3> DEFINE e2 == drain'[r]
    <3>2. /\ e2.pc = "capture" /\ ~e2.live /\ e2.win = v /\ e2.own = x.queues[r][v]
      BY <1>5, <3>1 DEF Orphaned, Looking, NewDrain, NoDrain
    <3>3. /\ Ordered(x.queues[r][v])
          /\ \A p \in IdsOf(x.queues[r][v]) : Belongs(r, v, rows, p)
      BY <1>6 DEF QueuesOk
    <3>4. \A p \in Ids : Waits(rows, p) /\ Belongs(r, v, rows, p) => p \in IdsOf(x.queues[r][v])
      BY <1>2, <1>6 DEF HeldOk, Belongs
    <3> HIDE DEF e2
    <3>5. DrainOk(r, e2, queues'[r], rows', phase')
      BY <1>2, <3>2, <3>3, <3>4 DEF DrainOk, ItemOk, OrphanOk, InHand, HandedOver
    <3>6. QED BY <3>5 DEF e2
  <2>3. QED BY <2>1, <2>2
<1>8. QueuesOk(r, queues'[r], rows', phase')
  BY <1>2, EmptyQueue DEF QueuesOk
<1>9. /\ SenderOk(r, sender'[r], queues'[r], rows', phase')
      /\ ApartOk(drain'[r], sender'[r], rows')
      /\ HeldOk(r, sender'[r], queues'[r], rows', phase')
  BY <1>2 DEF SenderOk, ApartOk, HeldOk, s
<1>10. QED BY <1>7, <1>8, <1>9 DEF Custody, TopicOk

LEMMA CrashKeepsCustody ==
    ASSUME Crash, NEW r \in Routes
    PROVE  Custody(r)'
<1>1. /\ phase' = "down" /\ drain'[r] = NoDrain /\ sender'[r] = NoSender
      /\ \A v \in Windows : queues'[r][v] = <<>>
  BY DEF Crash
<1>2. NoDrain.pc = "none" /\ NoDrain.live /\ NoSender.pc = "idle"
  BY DEF NoDrain, NoSender
<1>3. QueuesOk(r, queues'[r], rows', phase')
  BY <1>1, EmptyQueue DEF QueuesOk
<1>4. DrainOk(r, drain'[r], queues'[r], rows', phase')
  BY <1>1, <1>2 DEF DrainOk, ItemOk, OrphanOk, InHand, HandedOver
<1>5. /\ SenderOk(r, sender'[r], queues'[r], rows', phase')
      /\ ApartOk(drain'[r], sender'[r], rows')
      /\ HeldOk(r, sender'[r], queues'[r], rows', phase')
  BY <1>1, <1>2 DEF SenderOk, ApartOk, HeldOk
<1>6. QED BY <1>3, <1>4, <1>5 DEF Custody, TopicOk

LEMMA RestoreKeepsCustody ==
    ASSUME CustodyInv, TypeOK', Restore, NEW r \in Routes
    PROVE  Custody(r)'
<1>1. TypeOK /\ TopicOk(r, queues[r], drain[r], sender[r], rows, phase)
  BY DEF CustodyInv, SendInv, Custody
<1>2. /\ phase = "down" /\ phase' = "up" /\ sender' = sender
  BY DEF Restore
<1>3. /\ queues' \in [Routes -> [Windows -> Ascending]]
      /\ \A v \in Windows : IdsOf(queues'[r][v]) =
             {p \in Ids : rows'[p].state = "queued" /\ rows'[p].route = r /\ rows'[p].win = v}
  <2> DEFINE target(p) == IF binding[rows[p].route] # None THEN binding[rows[p].route]
                          ELSE rows[p].win
             rws == [p \in Ids |-> IF rows[p].state = "queued"
                                   THEN [rows[p] EXCEPT !.win = target(p)] ELSE rows[p]]
             held(t, w) == {p \in Ids : rws[p].state = "queued" /\ rws[p].route = t
                                                               /\ rws[p].win = w}
  <2>1. rows' = rws
    BY DEF Restore
  <2>2. queues' \in {q \in [Routes -> [Windows -> Ascending]] :
                        \A t \in Routes, w \in Windows : IdsOf(q[t][w]) = held(t, w)}
    BY DEF Restore
  <2> HIDE DEF rws
  <2>3. QED BY <2>1, <2>2
<1>4. drain'[r] \in NewDrains
  BY DEF Restore, NewDrains
<1>5. sender'[r].pc = "idle"
  BY <1>1, <1>2 DEF TopicOk, SenderOk
<1>6. \A v \in Windows : Ordered(queues'[r][v])
  BY <1>3 DEF Ascending, Ordered
<1>7. QueuesOk(r, queues'[r], rows', phase')
  BY <1>2, <1>3, <1>6 DEF QueuesOk, Belongs
<1>8. HeldOk(r, sender'[r], queues'[r], rows', phase')
  <2> SUFFICES ASSUME NEW p \in Ids, rows'[p].route = r, Waits(rows', p)
               PROVE  p \in IdsOf(queues'[r][rows'[p].win])
    BY DEF HeldOk
  <2>1. rows'[p].win \in Windows
    BY DEF TypeOK, Row, Waits
  <2>2. QED BY <1>3, <2>1 DEF Waits
<1>9. SenderOk(r, sender'[r], queues'[r], rows', phase')
  BY <1>5 DEF SenderOk
<1>10. QED BY <1>2, <1>4, <1>7, <1>8, <1>9, FreshKeeps DEF Custody

LEMMA CustodyInit == Init => CustodyInv
<1> SUFFICES ASSUME Init PROVE CustodyInv
  OBVIOUS
<1>1. SendInv
  BY TypeInit DEF Init, NoRow, SendInv, FreshIds, UnsentUntilSubmitted, AtMostOnce
<1>2. ASSUME NEW r \in Routes PROVE Custody(r)
  <2>1. /\ phase = "up" /\ drain[r] = NoDrain /\ sender[r] = NoSender
        /\ \A v \in Windows : queues[r][v] = <<>>
        /\ \A p \in Ids : rows[p].state = "new"
    BY DEF Init, NoRow
  <2>2. NoDrain.pc = "none" /\ NoDrain.live /\ NoSender.pc = "idle"
    BY DEF NoDrain, NoSender
  <2>3. QueuesOk(r, queues[r], rows, phase)
    BY <2>1, EmptyQueue DEF QueuesOk
  <2>4. DrainOk(r, drain[r], queues[r], rows, phase)
    BY <2>1, <2>2 DEF DrainOk, ItemOk, OrphanOk, InHand, HandedOver
  <2>5. /\ SenderOk(r, sender[r], queues[r], rows, phase)
        /\ ApartOk(drain[r], sender[r], rows)
        /\ HeldOk(r, sender[r], queues[r], rows, phase)
    BY <2>1, <2>2 DEF SenderOk, ApartOk, HeldOk, Waits
  <2>6. QED BY <2>3, <2>4, <2>5 DEF Custody, TopicOk
<1>3. QED BY <1>1, <1>2 DEF CustodyInv

LEMMA CustodyStep ==
    ASSUME CustodyInv, [Next]_vars
    PROVE  CustodyInv'
<1>1. SendInv' /\ TypeOK'
  BY SendInvStep DEF CustodyInv, SendInv
<1>2. SUFFICES \A t \in Routes : Custody(t)'
  BY <1>1 DEF CustodyInv
<1>3. ASSUME NEW r \in Routes, DrainStep(r) \/ HandlerStep(r) PROVE \A t \in Routes : Custody(t)'
  <2>1. Custody(r)' /\ StepOf(r)
    BY <1>1, <1>3, DrainKeepsCustody, HandlerKeepsCustody
  <2>2. \A t \in Routes \ {r} : Custody(t)'
    BY <1>1, <2>1, OthersKeep
  <2>3. QED BY <2>1, <2>2
<1>4. CASE (\E r \in Routes : Rebind(r)) \/ UNCHANGED vars
  BY <1>4 DEF CustodyInv, Custody, Rebind, vars, memory
<1>5. ASSUME NEW p \in Ids, ConfirmationStep(p) PROVE \A t \in Routes : Custody(t)'
  BY <1>1, <1>5, ConfirmationKeepsCustody
<1>6. CASE Stop
  BY <1>6, StopKeepsCustody
<1>7. CASE Crash
  BY <1>7, CrashKeepsCustody
<1>8. CASE Restore
  BY <1>1, <1>8, RestoreKeepsCustody
<1>9. QED
  BY <1>3, <1>4, <1>5, <1>6, <1>7, <1>8 DEF Next

\* Each prompt that was accepted is in the custody that its row, the deques, the drains
\* and the handlers agree on, in every interleaving and across stops, crashes and
\* restores (bot.py:_queue_agent_input, _drain_agent_input_queue,
\* _discard_queued_agent_input, _restore_agent_input_queues).
THEOREM CustodyCorrect == Spec => []CustodyInv
<1>1. CustodyInv /\ [Next]_vars => CustodyInv'
  BY CustodyStep
<1>2. QED BY <1>1, CustodyInit, PTL DEF Spec

\* A prompt that waits in the spool is in the deque of its target, or in the hands of
\* the handler that is about to send it: no cleared, replaced or emptied deque, lost
\* race or restart leaves one behind (_queue_agent_input, _drain_agent_input_queue).
THEOREM WaitingIsHeld == Spec => []QueuedIsHeld
<1>1. CustodyInv => QueuedIsHeld
  <2> SUFFICES ASSUME CustodyInv, phase = "up", NEW p \in Ids, rows[p].state = "queued"
               PROVE  \/ p \in IdsOf(queues[rows[p].route][rows[p].win])
                      \/ /\ sender[rows[p].route].pc = "nbaseline"
                         /\ sender[rows[p].route].item = p
    BY DEF QueuedIsHeld
  <2>1. rows[p].route \in Routes
    BY DEF CustodyInv, SendInv, TypeOK, Row
  <2>2. HeldOk(rows[p].route, sender[rows[p].route], queues[rows[p].route], rows, phase)
    BY <2>1 DEF CustodyInv, Custody, TopicOk
  <2>3. QED BY <2>2 DEF HeldOk, Waits
<1>2. QED BY <1>1, CustodyCorrect, PTL

-------------------------------------------------------------------------------
(* The order of the prompts of a target.                                    *)

LEMMA TopicSends ==
    ASSUME NEW r \in Routes, DrainStep(r) \/ HandlerStep(r)
    PROVE  sends' = sends \/ DrainSubmit(r) \/ DirectSubmit(r) \/ NativeSubmit(r)
<1>1. ASSUME DrainStep(r) PROVE sends' = sends \/ DrainSubmit(r)
  BY <1>1 DEF DrainStep, DrainLook, DrainEmpty, DrainExpire, DrainLost, DrainDrop, DrainFault,
         DrainBusy, DrainNative, DrainAcquire, DrainNoSlot, DrainNotMarked, DrainSent,
         DrainNativeSent, DrainSendFailed, DrainPopFault, DrainSendError, DrainConfirmed,
         DrainUnconfirmed, DrainRefreshError, DrainTail
<1>2. ASSUME HandlerStep(r) PROVE sends' = sends \/ DirectSubmit(r) \/ NativeSubmit(r)
  BY <1>2 DEF HandlerStep, QueueBehind, RefuseFull, SendDirect, SendNative, DirectStep,
         DirectUnavailable, DirectDefer, DirectAcquire, DirectSent, DirectSendFailed,
         DirectPopFault, DirectSendError, NativeStep, NativeFailed, NativeSent, DiscardStart,
         DiscardFinish
<1>3. QED BY <1>1, <1>2

LEMMA WhoSends ==
    ASSUME [Next]_vars
    PROVE  \/ sends' = sends
           \/ \E r \in Routes : DrainSubmit(r) \/ DirectSubmit(r) \/ NativeSubmit(r)
<1>1. ASSUME NEW r \in Routes, DrainStep(r) \/ HandlerStep(r)
      PROVE  sends' = sends \/ DrainSubmit(r) \/ DirectSubmit(r) \/ NativeSubmit(r)
  BY <1>1, TopicSends
<1>2. ASSUME NEW p \in Ids, ConfirmationStep(p) PROVE sends' = sends
  BY <1>2 DEF ConfirmationStep, ConfirmationSeen, ConfirmationRetire, ConfirmationNotified
<1>3. CASE (\E r \in Routes : Rebind(r)) \/ Stop \/ Crash \/ Restore \/ UNCHANGED vars
  BY <1>3 DEF Rebind, Stop, Crash, Restore, vars
<1>4. QED BY <1>1, <1>2, <1>3 DEF Next

\* Who submits a prompt has the oldest that waits for its target.
LEMMA SubmitsOldest ==
    ASSUME CustodyInv, NEW r \in Routes, DrainSubmit(r) \/ DirectSubmit(r) \/ NativeSubmit(r),
           NEW p \in Ids, NEW q \in Ids, sends'[q] > sends[q], p < q,
           rows[p].route = rows[q].route, rows[p].win = rows[q].win
    PROVE  ~Waits(rows, p)
<1> SUFFICES ASSUME Waits(rows, p) PROVE FALSE
  OBVIOUS
<1> DEFINE d == drain[r]
           qs == queues[r]
           s == sender[r]
<1>1. TypeOK /\ TopicOk(r, qs, d, s, rows, phase)
  BY DEF CustodyInv, SendInv, Custody
<1>2. /\ qs \in [Windows -> Seq(Ids)] /\ d \in Drain /\ s \in Sender /\ p \in Nat /\ q \in Nat
      /\ sends[q] \in Nat
  BY <1>1, IdsAreNats DEF TypeOK
<1>3. ASSUME NEW x \in Ids, sends' = [sends EXCEPT ![x] = @ + 1] PROVE x = q
  BY <1>1, <1>2, <1>3 DEF TypeOK
<1>4. ASSUME NEW o \in Seq(Ids), o # <<>>, Ordered(o), p \in IdsOf(o), q = Head(o) PROVE FALSE
  <2>1. p = q \/ q < p
    BY <1>4, TailOfQueue
  <2>2. QED BY <1>2, <2>1
<1> HIDE DEF d, qs, s
<1>5. CASE DrainSubmit(r)
  <2>1. /\ d.pc \in {"baseline", "nbaseline"} /\ d.item = q /\ Waits(rows, q)
    BY <1>1, <1>3, <1>5 DEF DrainSubmit, Markable, Waits, d
  <2>2. Belongs(r, d.win, rows, q) /\ d.win \in Windows
    BY <1>1, <1>2, <2>1 DEF TopicOk, DrainOk, ItemOk, InHand, Drain
  <2>3. Belongs(r, d.win, rows, p)
    BY <2>2 DEF Belongs, Waits
  <2>4. CASE d.live
    <3>1. qs[d.win] # <<>> /\ Head(qs[d.win]) = q /\ Ordered(qs[d.win]) /\ phase = "up"
      BY <1>1, <2>1, <2>2, <2>4 DEF TopicOk, QueuesOk, DrainOk, ItemOk, InHand
    <3>2. p \in IdsOf(qs[d.win])
      <4>1. p \in IdsOf(qs[rows[p].win]) \/ s.pc = "nbaseline"
        BY <1>1, <2>3, <3>1 DEF TopicOk, HeldOk, Belongs
      <4>2. s.pc # "nbaseline"
        BY <1>1, <2>2, <3>1 DEF TopicOk, SenderOk
      <4>3. QED BY <2>3, <4>1, <4>2 DEF Belongs
    <3>3. QED BY <1>2, <1>4, <2>2, <3>1, <3>2
  <2>5. CASE ~d.live
    <3>1. phase = "stopping"
      BY <1>1, <2>1, <2>5 DEF TopicOk, DrainOk, OrphanOk, TypeOK
    <3>2. /\ Ordered(d.own) /\ p \in IdsOf(d.own) /\ d.own # <<>> /\ q = Head(d.own)
      BY <1>1, <2>1, <2>3, <2>5, <3>1 DEF TopicOk, DrainOk, OrphanOk, InHand
    <3>3. d.own \in Seq(Ids)
      BY <1>2 DEF Drain
    <3>4. QED BY <1>4, <3>2, <3>3
  <2>6. QED BY <2>4, <2>5
<1>6. CASE DirectSubmit(r) \/ NativeSubmit(r)
  <2>1. s.pc \in {"baseline", "nbaseline"} /\ s.item = q /\ phase = "up"
    <3>1. s.pc \in {"baseline", "nbaseline"} /\ Markable(s.item)
          /\ sends' = [sends EXCEPT ![s.item] = @ + 1]
      BY <1>6 DEF DirectSubmit, NativeSubmit, Holds, s
    <3>2. s.item = q
      BY <1>3, <3>1 DEF Markable
    <3>3. QED BY <1>1, <3>1, <3>2 DEF TopicOk, SenderOk
  <2>2. Belongs(r, s.win, rows, q)
    BY <1>1, <2>1 DEF TopicOk, SenderOk
  <2>3. rows[p].route = r /\ rows[p].win = s.win /\ s.win \in Windows
    BY <1>2, <2>1, <2>2 DEF Belongs, Sender
  <2>4. p \in IdsOf(qs[s.win]) \/ p = q
    BY <1>1, <2>1, <2>3 DEF TopicOk, HeldOk
  <2>5. IdsOf(qs[s.win]) \subseteq {q}
    <3>1. qs[s.win] \in {<<>>, <<q>>}
      BY <1>1, <2>1, <2>3 DEF TopicOk, SenderOk
    <3>2. QED BY <3>1, EmptyQueue, OneInQueue
  <2>6. QED BY <1>2, <2>4, <2>5
<1>7. QED BY <1>5, <1>6

\* The prompts of a target reach the agent in the order of their ids, whoever sends
\* them and however drains, handlers, stops and restarts take turns.
THEOREM SentInOrder == Spec => InOrder
<1> DEFINE A == \A p, q \in Ids :
                   /\ sends'[q] > sends[q] /\ p < q
                   /\ rows[p].route = rows[q].route /\ rows[p].win = rows[q].win
                   => rows[p].state # "queued"
<1>1. CustodyInv /\ [Next]_vars => [A]_vars
  <2> SUFFICES ASSUME CustodyInv, [Next]_vars, NEW p \in Ids, NEW q \in Ids,
                      sends'[q] > sends[q], p < q,
                      rows[p].route = rows[q].route, rows[p].win = rows[q].win
               PROVE  rows[p].state # "queued"
    OBVIOUS
  <2>1. sends[q] \in Nat
    BY DEF CustodyInv, SendInv, TypeOK
  <2>2. sends' # sends
    BY <2>1
  <2>3. QED BY <2>2, WhoSends, SubmitsOldest DEF Waits
<1>2. QED BY <1>1, CustodyCorrect, PTL DEF Spec, InOrder

-------------------------------------------------------------------------------
(* Who watches what was submitted.                                          *)

\* A confirmation is of an accepted prompt, of a retired one once its notice is
\* being sent, and of none in a process that is down.
ConfirmOk(p) ==
    /\ confirm[p] # "none" => rows[p].state # "new" /\ phase # "down"
    /\ confirm[p] = "notify" => Gone(rows, p)

ConfirmInv == CustodyInv /\ \A p \in Ids : ConfirmOk(p)

\* The states of a row.
LEMMA RowsAdvance ==
    ASSUME CustodyInv, [Next]_vars, NEW p \in Ids, rows[p].state # "new"
    PROVE  rows'[p].state = rows[p].state
              \/ rows'[p].state = "gone"
              \/ (rows[p].state = "queued" /\ rows'[p].state = "submitted")
<1>1. TypeOK /\ SendInv /\ p \in Nat
  BY IdsAreNats DEF CustodyInv, SendInv
<1>2. CASE Keeps
  BY <1>2 DEF Keeps
<1>3. CASE Forgets
  BY <1>1, <1>3, DeletedStates DEF Forgets
<1>4. CASE Submits
  BY <1>1, <1>4 DEF Submits, Markable, Marked, TypeOK, Row
<1>5. CASE Accepts
  <2>1. nextId \in Ids /\ rows[nextId].state = "new"
    BY <1>5, <1>1, IdsAreNats DEF Accepts, SendInv, FreshIds
  <2>2. PICK r \in Routes, v \in Windows, m \in Modes : rows' = Inserted(r, v, m)
    BY <1>5 DEF Accepts
  <2>3. QED BY <1>1, <2>1, <2>2 DEF Inserted, TypeOK
<1>6. QED BY <1>1, <1>2, <1>3, <1>4, <1>5, StepKind

\* The tasks of a topic start confirmations for its accepted prompts only.
Started(p) == confirm'[p] = "probe" /\ rows[p].state # "new" /\ phase' # "down"

LEMMA DrainConfirms ==
    ASSUME CustodyInv, NEW r \in Routes, DrainStep(r), NEW p \in Ids, confirm'[p] # confirm[p]
    PROVE  Started(p) /\ rows[p].route = r
<1> DEFINE d == drain[r]
<1>1. TypeOK /\ ItemOk(r, d, queues[r], rows) /\ OrphanOk(r, d, rows, phase)
      /\ DrainOk(r, d, queues[r], rows, phase)
  BY DEF CustodyInv, SendInv, Custody, TopicOk, DrainOk
<1>2. ASSUME NEW q, confirm' = Watched(q), rows[q].state # "new", d.pc # "none", phase' = phase,
             rows[q].route = r
      PROVE  Started(p) /\ rows[p].route = r
  BY <1>1, <1>2 DEF Watched, TypeOK, Started, DrainOk
<1>3. CASE DrainNativeSent(r)
  <2>1. d.pc = "nsend" /\ Deque(r) # <<>> /\ confirm' = Watched(Head(Deque(r))) /\ phase' = phase
    BY <1>3 DEF DrainNativeSent, Drains, Settled
  <2>2. rows[Head(Deque(r))].state # "new" /\ rows[Head(Deque(r))].route = r
    <3>1. Deque(r) \in Seq(Ids)
      BY <1>1, <2>1, DequeType
    <3>2. CASE d.live
      BY <1>1, <2>1, <3>2 DEF ItemOk, InHand, Belongs, Deque
    <3>3. CASE ~d.live
      BY <1>1, <2>1, <3>1, <3>3, TailOfQueue DEF OrphanOk, Belongs, Deque
    <3>4. QED BY <3>2, <3>3
  <2>3. QED BY <1>2, <2>1, <2>2
<1>4. CASE DrainSendError(r) \/ DrainUnconfirmed(r)
  <2>1. d.pc \in HandedOver /\ confirm' = Watched(d.item) /\ phase' = phase
    BY <1>4 DEF DrainSendError, DrainUnconfirmed, SendAborted, DrainExit, Drains, Settled, HandedOver
  <2>2. rows[d.item].state # "new" /\ d.pc # "none" /\ rows[d.item].route = r
    BY <1>1, <2>1 DEF ItemOk, InHand, HandedOver, Belongs
  <2>3. QED BY <1>2, <2>1, <2>2
<1>5. CASE ~(DrainNativeSent(r) \/ DrainSendError(r) \/ DrainUnconfirmed(r))
  BY <1>5 DEF DrainStep, DrainLook, DrainEmpty, DrainExpire, DrainLost, DrainDrop,
         DrainFault, DrainBusy, DrainNative, DrainAcquire, DrainNoSlot, DrainSubmit,
         DrainNotMarked, DrainSent, DrainSendFailed, DrainPopFault,
         DrainConfirmed, DrainRefreshError, DrainTail, DrainExit
<1>6. QED BY <1>3, <1>4, <1>5

LEMMA HandlerConfirms ==
    ASSUME CustodyInv, NEW r \in Routes, HandlerStep(r), NEW p \in Ids, confirm'[p] # confirm[p]
    PROVE  (Started(p) \/ confirm'[p] = "none") /\ rows[p].route = r
<1> DEFINE d == drain[r]
           s == sender[r]
<1>1. TypeOK /\ ItemOk(r, d, queues[r], rows) /\ SenderOk(r, s, queues[r], rows, phase)
  BY DEF CustodyInv, SendInv, Custody, TopicOk, DrainOk
<1>2. ASSUME NEW q, confirm' = Watched(q), rows[q].state # "new", phase' = "up", rows[q].route = r
      PROVE  Started(p) /\ rows[p].route = r
  BY <1>1, <1>2 DEF Watched, TypeOK, Started
<1>3. CASE DirectSent(r) \/ DirectSendError(r) \/ NativeSent(r)
  <2>1. s.pc \in {"send", "nsend"} /\ confirm' = Watched(s.item) /\ phase' = phase
    BY <1>3 DEF DirectSent, DirectSendError, NativeSent, Holds, Elsewhere
  <2>2. QED BY <1>1, <1>2, <2>1 DEF SenderOk, Belongs
<1>4. CASE DiscardStart(r)
  BY <1>4 DEF DiscardStart
<1>5. CASE DiscardFinish(r)
  <2>1. confirm' = Cancelled(r).confirm /\ phase' = phase /\ s.pc = "discard"
    BY <1>5 DEF DiscardFinish, Holds
  <2>2. d.pc \in {"send", "nsend"} /\ confirm' = Watched(d.item)
    BY <2>1 DEF Cancelled, SendAborted
  <2>3. QED BY <1>1, <1>2, <2>1, <2>2 DEF SenderOk, ItemOk, InHand, Belongs
<1>6. CASE ~(DirectSent(r) \/ DirectSendError(r) \/ NativeSent(r) \/ DiscardStart(r)
             \/ DiscardFinish(r))
  BY <1>6 DEF HandlerStep, QueueBehind, RefuseFull, SendDirect, SendNative, DirectStep,
         DirectUnavailable, DirectDefer, DirectAcquire, DirectSubmit, DirectSendFailed,
         DirectPopFault, NativeStep, NativeSubmit, NativeFailed
<1>7. QED BY <1>3, <1>4, <1>5, <1>6

LEMMA ConfirmStep ==
    ASSUME ConfirmInv, [Next]_vars
    PROVE  ConfirmInv'
<1>1. TypeOK /\ CustodyInv /\ CustodyInv'
  BY CustodyStep DEF ConfirmInv, CustodyInv, SendInv
<1>2. SUFFICES ASSUME NEW p \in Ids PROVE ConfirmOk(p)'
  BY <1>1 DEF ConfirmInv
<1>3. ConfirmOk(p)
  BY DEF ConfirmInv
<1>4. /\ rows[p].state # "new" => rows'[p].state # "new"
      /\ Gone(rows, p) => Gone(rows', p)
  BY <1>1, RowsAdvance DEF Gone
<1>5. ASSUME Started(p) PROVE ConfirmOk(p)'
  BY <1>4, <1>5 DEF Started, ConfirmOk
<1>6. ASSUME confirm'[p] = "none" PROVE ConfirmOk(p)'
  BY <1>6 DEF ConfirmOk
<1>7. ASSUME confirm'[p] = confirm[p], phase' = phase PROVE ConfirmOk(p)'
  BY <1>3, <1>4, <1>7 DEF ConfirmOk
<1>8. ASSUME NEW r \in Routes, DrainStep(r) \/ HandlerStep(r) PROVE ConfirmOk(p)'
  <2>1. phase' = phase
    <3>1. StepOf(r)
      BY <1>1, <1>8, DrainKeepsCustody, HandlerKeepsCustody DEF CustodyInv, SendInv
    <3>2. QED BY <3>1 DEF StepOf
  <2>2. CASE confirm'[p] = confirm[p]
    BY <1>7, <2>1, <2>2
  <2>3. CASE confirm'[p] # confirm[p]
    BY <1>1, <1>5, <1>6, <1>8, <2>3, DrainConfirms, HandlerConfirms
  <2>4. QED BY <2>2, <2>3
<1>9. ASSUME NEW q \in Ids, ConfirmationStep(q) PROVE ConfirmOk(p)'
  <2>1. phase' = phase
    BY <1>9 DEF ConfirmationStep, ConfirmationSeen, ConfirmationRetire, ConfirmationNotified, Settled
  <2>2. CASE ConfirmationRetire(q)
    <3>1. confirm' = [confirm EXCEPT ![q] = "notify"] /\ rows' = Confirmed(q) /\ Stored(q)
          /\ rows[q].state = "submitted"
      BY <2>2 DEF ConfirmationRetire, Stored
    <3>2. CASE q = p
      <4>1. Gone(rows', p)
        BY <1>1, <3>1, <3>2, DeletedStates DEF Confirmed, Gone
      <4>2. QED BY <1>3, <2>1, <2>2, <3>2, <4>1 DEF ConfirmOk, Gone, ConfirmationRetire
    <3>3. CASE q # p
      BY <1>1, <1>7, <2>1, <3>1, <3>3 DEF TypeOK
    <3>4. QED BY <3>2, <3>3
  <2>3. CASE ConfirmationSeen(q) \/ ConfirmationNotified(q)
    <3>1. confirm' = [confirm EXCEPT ![q] = "none"]
      BY <2>3 DEF ConfirmationSeen, ConfirmationNotified, ConfirmationExit
    <3>2. QED BY <1>1, <1>6, <1>7, <2>1, <3>1 DEF TypeOK
  <2>4. QED BY <1>9, <2>2, <2>3 DEF ConfirmationStep
<1>10. CASE Stop
  <2>1. phase' = "stopping" /\ confirm'[p] \in {"probe", "none"}
    BY <1>10 DEF Stop
  <2>2. ASSUME confirm'[p] = "probe" PROVE rows[p].state # "new"
    <3>1. PICK r \in Routes : drain[r].pc \in {"send", "nsend"} /\ drain[r].item = p
      BY <1>10, <2>2 DEF Stop
    <3>2. ItemOk(r, drain[r], queues[r], rows)
      BY <1>1 DEF CustodyInv, Custody, TopicOk, DrainOk
    <3>3. QED BY <3>1, <3>2 DEF ItemOk, InHand, Belongs
  <2>3. QED BY <1>4, <2>1, <2>2 DEF ConfirmOk
<1>11. CASE Crash
  BY <1>6, <1>11 DEF Crash
<1>12. CASE Restore
  <2>1. phase' = "up" /\ confirm'[p] = IF rows[p].state = "submitted" THEN "probe" ELSE "none"
    BY <1>12 DEF Restore
  <2>2. QED BY <1>4, <2>1 DEF ConfirmOk
<1>13. CASE (\E r \in Routes : Rebind(r)) \/ UNCHANGED vars
  BY <1>7, <1>13 DEF Rebind, vars, memory
<1>14. QED BY <1>8, <1>9, <1>10, <1>11, <1>12, <1>13 DEF Next

\* Confirmations are of accepted prompts, whatever happens: with custody, inductive.
THEOREM ConfirmCorrect == Spec => []ConfirmInv
<1>1. Init => ConfirmInv
  BY CustodyInit DEF Init, ConfirmInv, ConfirmOk
<1>2. ConfirmInv /\ [Next]_vars => ConfirmInv'
  BY ConfirmStep
<1>3. QED BY <1>1, <1>2, PTL DEF Spec

-------------------------------------------------------------------------------
(* A submitted prompt always has somebody who will retire it.               *)

WatchedInv == ConfirmInv /\ SubmittedIsWatched

\* Who holds r's lock will retire p.
SenderWatches(r, p) ==
    sender[r].pc = "discard" \/ (sender[r].pc \in {"send", "nsend"} /\ sender[r].item = p)

\* A drain whose prompt is still there hands it on to a confirmation, or keeps it.
LEMMA DrainHandsOn ==
    ASSUME ConfirmInv, TypeOK', "refresh_error" \notin Events, NEW r \in Routes, DrainStep(r),
           phase = "up", NEW p \in Ids, rows'[p].state = "submitted", rows[p].route = r,
           rows[p].state = "submitted" => Watcher(p), confirm'[p] = "none", ~SenderWatches(r, p)
    PROVE  drain'[r].pc \in HandedOver /\ drain'[r].item = p
<1> DEFINE d == drain[r]
           q == Deque(r)
<1>1. TypeOK /\ d \in Drain /\ ItemOk(r, d, queues[r], rows) /\ OrphanOk(r, d, rows, phase)
  BY DEF ConfirmInv, CustodyInv, SendInv, Custody, TopicOk, DrainOk, TypeOK
<1>2. rows[p].state = "submitted" => d.pc \in HandedOver /\ d.item = p
  <2>1. confirm[p] = "none"
    <3>1. CASE confirm'[p] = confirm[p]
      BY <3>1
    <3>2. CASE confirm'[p] # confirm[p]
      BY <3>2, DrainConfirms DEF ConfirmInv, Started
    <3>3. QED BY <3>1, <3>2
  <2>2. QED BY <2>1 DEF Watcher, SenderWatches, HandedOver
<1>3. rows[p].state = "submitted" \/ (Markable(p) /\ DrainSubmit(r) /\ d.item = p)
  <2>1. ASSUME ~DrainSubmit(r) PROVE rows'[p].state \in {rows[p].state, "gone"}
    <3>1. CASE rows' = rows
      BY <3>1
    <3>2. CASE \E S : rows' = Deleted(S)
      BY <1>1, <3>2, DeletedStates
    <3>3. CASE \E h : rows' = [rows EXCEPT ![h].mode = "turn"]
      BY <1>1, <3>3 DEF TypeOK, Row
    <3>4. QED
      BY <2>1, <3>1, <3>2, <3>3 DEF DrainStep, DrainExpire, DrainDrop, DrainExit, DrainSendFailed,
         DrainConfirmed, Confirmed, DrainAcquire, DrainNoSlot, DrainLook, DrainEmpty, DrainLost,
         DrainFault, DrainBusy, DrainNative, DrainNotMarked, DrainSent, DrainNativeSent,
         DrainPopFault, DrainSendError, DrainUnconfirmed, DrainRefreshError, DrainTail
  <2>2. CASE DrainSubmit(r)
    BY <1>1, <2>2 DEF DrainSubmit, Marked, Markable, TypeOK
  <2>3. QED BY <2>1, <2>2
<1>4. CASE DrainSubmit(r)
  BY <1>1, <1>2, <1>3, <1>4 DEF DrainSubmit, HandedOver, TypeOK, Drain
<1>5. ASSUME ~DrainSubmit(r) PROVE rows[p].state = "submitted" /\ d.pc \in HandedOver /\ d.item = p
  BY <1>2, <1>3, <1>5
<1>6. ASSUME d.pc \in {"send", "nsend"}, ~DrainSubmit(r) PROVE q # <<>> /\ Head(q) = p
  <2>1. ~Gone(rows, p)
    BY <1>5, <1>6 DEF Gone
  <2>2. d.live
    BY <1>1, <1>5, <1>6, <2>1 DEF OrphanOk
  <2>3. QED BY <1>1, <1>5, <1>6, <2>2 DEF ItemOk, InHand, Deque
<1>7. CASE DrainSent(r)
  BY <1>1, <1>6, <1>7 DEF DrainSent, DrainSubmit, Drains, HandedOver, TypeOK, Drain
<1>8. CASE DrainNativeSent(r)
  BY <1>1, <1>6, <1>8 DEF DrainNativeSent, DrainSubmit, Drains, Watched, TypeOK
<1>9. CASE DrainSendFailed(r) \/ DrainPopFault(r)
  <2>1. q # <<>> /\ Head(q) = p /\ rows[p].state = "submitted"
    BY <1>5, <1>6, <1>9 DEF DrainSendFailed, DrainPopFault, DrainSubmit
  <2>2. rows' = Deleted({p})
    BY <1>9, <2>1 DEF DrainSendFailed, DrainPopFault
  <2>3. QED BY <1>1, <2>1, <2>2, DeletedStates DEF Stored
<1>10. CASE DrainSendError(r) \/ DrainUnconfirmed(r)
  BY <1>1, <1>5, <1>10 DEF DrainSendError, DrainUnconfirmed, SendAborted, DrainExit, DrainSubmit,
         Drains, Watched, TypeOK, HandedOver
<1>11. CASE DrainConfirmed(r)
  <2>1. d.item = p /\ rows[p].state = "submitted"
    BY <1>5, <1>11 DEF DrainConfirmed, DrainSubmit, Drains
  <2>2. rows' = Confirmed(p)
    BY <1>11, <2>1 DEF DrainConfirmed
  <2>3. QED BY <1>1, <2>1, <2>2, DeletedStates DEF Confirmed, Stored
<1>12. CASE ~(DrainSubmit(r) \/ DrainSent(r) \/ DrainNativeSent(r) \/ DrainSendFailed(r)
              \/ DrainPopFault(r) \/ DrainSendError(r) \/ DrainUnconfirmed(r) \/ DrainConfirmed(r))
  <2>1. d.pc \notin HandedOver
    BY <1>1, <1>12 DEF DrainStep, DrainLook, DrainEmpty, DrainExpire, DrainLost, DrainDrop,
         DrainFault, DrainBusy, DrainNative, DrainAcquire, DrainNoSlot,
         DrainNotMarked, DrainRefreshError, DrainTail, DrainHead, Drains, HandedOver
  <2>2. QED BY <1>5, <1>12, <2>1
<1>13. QED BY <1>4, <1>7, <1>8, <1>9, <1>10, <1>11, <1>12

\* So does the holder of the lock.
LEMMA SenderHandsOn ==
    ASSUME ConfirmInv, TypeOK', NEW r \in Routes, HandlerStep(r), NEW p \in Ids,
           rows'[p].state = "submitted", rows'[p].route = r,
           rows[p].state = "submitted" => Watcher(p), confirm'[p] = "none",
           ~(drain[r].pc \in HandedOver /\ drain[r].item = p)
    PROVE  SenderWatches(r, p)'
<1> DEFINE s == sender[r]
           w == sender[r].win
<1>1. TypeOK /\ s \in Sender /\ SenderOk(r, s, queues[r], rows, phase)
  BY DEF ConfirmInv, CustodyInv, SendInv, Custody, TopicOk, TypeOK
<1>2. CASE DirectSubmit(r) \/ NativeSubmit(r)
  <2>1. /\ rows' = Marked(s.item) /\ sender'[r].pc \in {"send", "nsend"} /\ sender'[r].item = s.item
        /\ Markable(s.item) /\ confirm' = confirm
    BY <1>1, <1>2, HoldIs DEF DirectSubmit, NativeSubmit
  <2>2. CASE s.item = p
    BY <2>1, <2>2 DEF SenderWatches
  <2>3. CASE s.item # p
    <3>1. rows'[p] = rows[p]
      BY <1>1, <2>1, <2>3 DEF Marked, TypeOK
    <3>2. s.pc \in {"baseline", "nbaseline"}
      BY <1>2 DEF DirectSubmit, NativeSubmit, Holds
    <3>3. QED BY <2>1, <3>1, <3>2 DEF Watcher, HandedOver
  <2>4. QED BY <2>2, <2>3
<1>3. ASSUME ~(DirectSubmit(r) \/ NativeSubmit(r))
      PROVE  rows[p].state = "submitted" /\ rows[p].route = r /\ Watcher(p)
  <2>1. Keeps \/ Forgets \/ Accepts
    <3>1. sends' = sends
      BY <1>3 DEF HandlerStep, QueueBehind, RefuseFull, SendDirect, SendNative, DirectStep,
         DirectUnavailable, DirectDefer, DirectAcquire, DirectSent, DirectSendFailed,
         DirectPopFault, DirectSendError, NativeStep, NativeFailed, NativeSent, DiscardStart,
         DiscardFinish
    <3>2. ~Submits
      BY <1>1, <3>1 DEF Submits, TypeOK
    <3>3. QED BY <1>1, <3>2, HandlerStepKind
  <2>2. rows'[p].state \in {rows[p].state, "gone", "queued"}
    <3>1. CASE Keeps
      BY <3>1 DEF Keeps
    <3>2. CASE Forgets
      BY <1>1, <3>2, DeletedStates DEF Forgets
    <3>3. CASE Accepts
      BY <1>1, <3>3 DEF Accepts, Inserted, TypeOK
    <3>4. QED BY <2>1, <3>1, <3>2, <3>3
  <2>3. rows[p].state = "submitted"
    BY <2>2
  <2>4. Ages(rows, rows')
    BY HandlerStepRows DEF ConfirmInv, CustodyInv
  <2>5. QED BY <2>3, <2>4 DEF Ages
<1>4. ASSUME ~(DirectSubmit(r) \/ NativeSubmit(r)), confirm'[p] = confirm[p]
      PROVE  SenderWatches(r, p)
  BY <1>3, <1>4 DEF Watcher, SenderWatches, HandedOver
<1>5. CASE DirectSent(r) \/ DirectSendError(r) \/ NativeSent(r)
  <2>1. s.pc \in {"send", "nsend"} /\ confirm' = Watched(s.item)
    BY <1>5 DEF DirectSent, DirectSendError, NativeSent, Holds
  <2>2. ~(DirectSubmit(r) \/ NativeSubmit(r))
    BY <2>1 DEF DirectSubmit, NativeSubmit, Holds
  <2>3. confirm'[p] = confirm[p] /\ p # s.item
    BY <1>1, <2>1 DEF Watched, TypeOK
  <2>4. QED BY <1>4, <2>1, <2>2, <2>3 DEF SenderWatches
<1>6. CASE DirectSendFailed(r) \/ NativeFailed(r)
  <2>1. rows' = Deleted({s.item}) /\ confirm' = confirm
        /\ s.pc \in {"send", "nsend", "nbaseline"}
    BY <1>6 DEF DirectSendFailed, NativeFailed, Holds
  <2>2. p # s.item
    BY <1>1, <2>1, DeletedStates DEF Stored
  <2>3. QED BY <1>4, <1>2, <2>1, <2>2 DEF SenderWatches
<1>7. CASE DirectPopFault(r)
  <2>1. s.pc = "send" /\ queues[r][w] = <<>> /\ confirm' = confirm /\ rows' = rows
    BY <1>7 DEF DirectPopFault, Holds, Queue
  <2>2. Gone(rows, s.item)
    BY <1>1, <2>1 DEF SenderOk
  <2>3. ~(DirectSubmit(r) \/ NativeSubmit(r))
    BY <2>1 DEF DirectSubmit, NativeSubmit, Holds
  <2>4. QED BY <1>4, <2>1, <2>2, <2>3 DEF SenderWatches, Gone
<1>8. CASE DiscardStart(r)
  <2>1. sender'[r].pc = "discard"
    BY <1>1, <1>8, HoldIs DEF DiscardStart
  <2>2. QED BY <2>1 DEF SenderWatches
<1>9. CASE DiscardFinish(r)
  <2>1. rows' = Deleted(RouteRows(r)) /\ s.pc = "discard"
    BY <1>9 DEF DiscardFinish, Holds
  <2>2. rows[p].state = "submitted" /\ rows[p].route = r
    BY <1>3, <2>1 DEF DirectSubmit, NativeSubmit, Holds
  <2>3. QED BY <1>1, <2>1, <2>2, DeletedStates DEF RouteRows, Stored
<1>10. CASE QueueBehind(r) \/ RefuseFull(r) \/ SendDirect(r) \/ SendNative(r)
            \/ DirectUnavailable(r) \/ DirectDefer(r) \/ DirectAcquire(r)
  <2>1. s.pc \in {"idle", "capture", "baseline"} /\ confirm' = confirm
    BY <1>10 DEF QueueBehind, RefuseFull, SendDirect, SendNative, DirectUnavailable,
           DirectDefer, DirectAcquire, Free, Holds
  <2>2. CASE DirectSubmit(r) \/ NativeSubmit(r)
    BY <1>2, <2>2
  <2>3. CASE ~(DirectSubmit(r) \/ NativeSubmit(r))
    BY <1>4, <2>1, <2>3 DEF SenderWatches
  <2>4. QED BY <2>2, <2>3
<1>11. QED BY <1>2, <1>5, <1>6, <1>7, <1>8, <1>9, <1>10 DEF HandlerStep, DirectStep, NativeStep

\* A task submits and forgets for its own topic only.
LEMMA SubmitsOwn ==
    ASSUME CustodyInv, NEW r \in Routes, DrainStep(r) \/ HandlerStep(r), NEW p \in Ids,
           rows[p].state = "queued", rows'[p].state = "submitted"
    PROVE  rows[p].route = r
<1>1. TypeOK /\ SendInv /\ ItemOk(r, drain[r], queues[r], rows)
      /\ SenderOk(r, sender[r], queues[r], rows, phase)
  BY DEF CustodyInv, SendInv, Custody, TopicOk, DrainOk
<1>2. Submits
  <2>1. ~Keeps
    BY DEF Keeps
  <2>2. ~Forgets
    BY <1>1, DeletedStates DEF Forgets
  <2>3. ~Accepts
    <3> SUFFICES ASSUME NEW t, NEW v, NEW m, rows' = Inserted(t, v, m) PROVE FALSE
      BY DEF Accepts
    <3>1. QED BY <1>1 DEF Inserted, TypeOK
  <2>4. QED BY <1>1, <2>1, <2>2, <2>3, DrainStepKind, HandlerStepKind
<1>3. sends' # sends
  BY <1>1, <1>2 DEF Submits, TypeOK
<1>4. DrainSubmit(r) \/ DirectSubmit(r) \/ NativeSubmit(r)
  BY <1>3, TopicSends
<1>5. CASE DrainSubmit(r)
  <2>1. rows' = Marked(drain[r].item) /\ drain[r].pc \in {"baseline", "nbaseline"}
    BY <1>5 DEF DrainSubmit
  <2>2. drain[r].item = p
    BY <1>1, <2>1 DEF Marked, TypeOK
  <2>3. QED BY <1>1, <2>1, <2>2 DEF ItemOk, InHand, Belongs
<1>6. CASE DirectSubmit(r) \/ NativeSubmit(r)
  <2>1. rows' = Marked(sender[r].item) /\ sender[r].pc \in {"baseline", "nbaseline"}
    BY <1>6 DEF DirectSubmit, NativeSubmit, Holds
  <2>2. sender[r].item = p
    BY <1>1, <2>1 DEF Marked, TypeOK
  <2>3. QED BY <1>1, <2>1, <2>2 DEF SenderOk, Belongs
<1>7. QED BY <1>4, <1>5, <1>6

\* A handler that does not discard leaves the topic's drain where it is, or starts one.
LEMMA HandlerLeavesDrain ==
    ASSUME TypeOK, NEW r \in Routes, HandlerStep(r), ~DiscardFinish(r)
    PROVE  \/ /\ drain'[r].pc = drain[r].pc /\ drain'[r].item = drain[r].item
              /\ drain'[r].win = drain[r].win
           \/ drain[r].pc = "none" /\ drain'[r] \in NewDrains
<1>1. drain[r] \in Drain /\ (binding[r] # None => binding[r] \in Windows)
      /\ (sender[r].pc \notin {"idle", "discard"} => sender[r].win \in Windows)
  BY DEF TypeOK, Sender
<1>2. \/ drain' = drain
      \/ \E v \in Windows : \E c, x : drain' = [drain EXCEPT ![r] = Ensured(@, x, c, r, v)]
      \/ \E q : drain' = [drain EXCEPT ![r] = Detached(r, q)]
      \/ \E v \in Windows : drain[r].pc = "none" /\ drain' = [drain EXCEPT ![r] = NewDrain(v)]
  <2>1. CASE QueueBehind(r) \/ RefuseFull(r)
    BY <1>1, <2>1 DEF QueueBehind, RefuseFull, EnsureDrain
  <2>2. CASE DirectDefer(r)
    BY <1>1, <2>2 DEF DirectDefer, EnsureDrain, Holds
  <2>3. CASE DiscardStart(r)
    BY <2>3, DiscardWakes
  <2>4. CASE ~(QueueBehind(r) \/ RefuseFull(r) \/ DirectDefer(r) \/ DiscardStart(r))
    BY <2>4 DEF HandlerStep, SendDirect, SendNative, DirectStep, DirectUnavailable,
       DirectAcquire, DirectSubmit, DirectSent, DirectSendFailed, DirectPopFault,
       DirectSendError, NativeStep, NativeSubmit, NativeFailed, NativeSent
  <2>5. QED BY <2>1, <2>2, <2>3, <2>4
<1>3. \A q : /\ Detached(r, q).pc = drain[r].pc /\ Detached(r, q).item = drain[r].item
             /\ Detached(r, q).win = drain[r].win
  BY <1>1 DEF Detached, Drain
<1>4. \A v \in Windows : \A c, x :
         /\ Ensured(drain[r], x, c, r, v) \in {drain[r]} \cup NewDrains
         /\ drain[r].pc # "none" => Ensured(drain[r], x, c, r, v) = drain[r]
  BY DEF Ensured, NewDrains
<1>5. QED BY <1>2, <1>3, <1>4 DEF TypeOK, NewDrains

LEMMA WatchedStep ==
    ASSUME "refresh_error" \notin Events, WatchedInv, [Next]_vars
    PROVE  WatchedInv'
<1>1. ConfirmInv /\ ConfirmInv' /\ TypeOK /\ TypeOK' /\ CustodyInv
  BY ConfirmStep DEF WatchedInv, ConfirmInv, CustodyInv, SendInv
<1>2. SUFFICES ASSUME phase' = "up", NEW p \in Ids, rows'[p].state = "submitted"
               PROVE  Watcher(p)'
  BY <1>1 DEF WatchedInv, SubmittedIsWatched
<1>3. rows'[p].route \in Routes
  BY <1>1, <1>2 DEF TypeOK, Row
<1>4. phase = "up" /\ rows[p].state = "submitted" => Watcher(p)
  BY DEF WatchedInv, SubmittedIsWatched
<1>5. ASSUME NEW r \in Routes, DrainStep(r) \/ HandlerStep(r) PROVE Watcher(p)'
  <2> SUFFICES ASSUME confirm'[p] = "none" PROVE Watcher(p)'
    BY DEF Watcher
  <2>1. StepOf(r)
    BY <1>1, <1>5, DrainKeepsCustody, HandlerKeepsCustody
  <2>2. phase = "up" /\ Ages(rows, rows') /\ (rows[p].state # "new" => rows'[p].route = rows[p].route)
    BY <1>2, <2>1 DEF StepOf, Ages
  <2>3. CASE rows'[p].route = r /\ DrainStep(r)
    <3>1. NoneNew(r, rows, rows')
      BY <1>1, <2>3, DrainStepRows
    <3>2. rows[p].state # "new" /\ rows[p].route = r
      BY <1>2, <2>2, <2>3, <3>1 DEF NoneNew
    <3>3. sender'[r] = sender[r]
      BY <2>3, DrainRuns DEF Settled
    <3>4. CASE SenderWatches(r, p)
      BY <2>3, <3>3, <3>4 DEF SenderWatches, Watcher
    <3>5. CASE ~SenderWatches(r, p)
      BY <1>1, <1>2, <1>4, <2>2, <2>3, <3>2, <3>5, DrainHandsOn DEF Watcher, HandedOver
    <3>6. QED BY <3>4, <3>5
  <2>4. CASE rows'[p].route = r /\ HandlerStep(r)
    <3>1. CASE SenderWatches(r, p)'
      BY <2>4, <3>1 DEF SenderWatches, Watcher
    <3>2. CASE ~SenderWatches(r, p)'
      <4>1. drain[r].pc \in HandedOver /\ drain[r].item = p
        BY <1>1, <1>2, <1>4, <2>2, <2>4, <3>2, SenderHandsOn
      <4>2. CASE DiscardFinish(r)
        <5>1. rows' = Deleted(RouteRows(r)) /\ rows[p].state # "new" /\ rows[p].route = r
          <6>1. ItemOk(r, drain[r], queues[r], rows)
            BY <1>1 DEF CustodyInv, Custody, TopicOk, DrainOk
          <6>2. QED BY <4>1, <4>2, <6>1 DEF DiscardFinish, ItemOk, InHand, HandedOver, Belongs
        <5>2. QED BY <1>1, <1>2, <5>1, DeletedStates DEF RouteRows, Stored
      <4>3. CASE ~DiscardFinish(r)
        <5>1. drain'[r].pc = drain[r].pc /\ drain'[r].item = drain[r].item
          BY <1>1, <2>4, <4>1, <4>3, HandlerLeavesDrain DEF HandedOver
        <5>2. QED BY <2>4, <4>1, <5>1 DEF Watcher, HandedOver
      <4>4. QED BY <4>2, <4>3
    <3>3. QED BY <3>1, <3>2
  <2>5. CASE rows'[p].route # r
    <3>1. rows[p].state # "new"
      BY <1>2, <1>3, <2>1, <2>5 DEF StepOf, NoneNew
    <3> DEFINE t == rows[p].route
    <3>2. t \in Routes \ {r} /\ rows'[p].route = t
      BY <1>3, <2>2, <2>5, <3>1
    <3>3. drain'[t] = drain[t] /\ sender'[t] = sender[t]
      BY <2>1, <3>2 DEF StepOf
    <3>4. rows[p].state = "submitted"
      <4>1. rows[p].state # "gone"
        BY <1>2, <2>2 DEF Ages
      <4>2. rows[p].state # "queued"
        BY <1>1, <1>2, <1>5, <3>2, SubmitsOwn
      <4>3. QED BY <1>1, <3>1, <4>1, <4>2 DEF TypeOK, Row
    <3>5. confirm[p] = "none"
      BY <1>1, <1>5, <3>2, DrainConfirms, HandlerConfirms DEF WatchedInv, ConfirmInv
    <3>6. QED BY <1>4, <2>2, <3>2, <3>3, <3>4, <3>5 DEF Watcher
  <2>6. QED BY <1>5, <2>3, <2>4, <2>5
<1>6. ASSUME NEW q \in Ids, ConfirmationStep(q) PROVE Watcher(p)'
  <2>1. /\ rows' \in {rows, Confirmed(q)} /\ phase = "up" /\ sender' = sender
        /\ \A t \in Routes : drain'[t] = drain[t] \/ drain[t].pc = "none"
    BY <1>1, <1>2, <1>6, ConfirmationKeepsCustody DEF ConfirmationStep, ConfirmationSeen,
       ConfirmationRetire, ConfirmationNotified, ConfirmationExit
  <2>2. rows[p].state = "submitted" /\ rows'[p].route = rows[p].route
    <3>1. CASE rows' = rows
      BY <1>2, <3>1
    <3>2. CASE rows' = Confirmed(q)
      BY <1>1, <1>2, <3>2 DEF Confirmed, Deleted, TypeOK, Row
    <3>3. QED BY <2>1, <3>1, <3>2
  <2>3. CASE q = p
    <3>1. ~ConfirmationNotified(p)
      BY <2>2 DEF ConfirmationNotified, WatchedInv, ConfirmInv, ConfirmOk, Gone
    <3>2. ~ConfirmationSeen(p)
      BY <1>1, <1>2, <2>2, DeletedStates DEF ConfirmationSeen, ConfirmationExit, Confirmed, Stored
    <3>3. confirm'[p] = "notify"
      BY <1>1, <1>6, <2>3, <3>1, <3>2 DEF ConfirmationStep, ConfirmationRetire, TypeOK
    <3>4. QED BY <3>3 DEF Watcher
  <2>4. CASE q # p
    <3>1. confirm'[p] = confirm[p]
      BY <1>1, <1>6, <2>4 DEF ConfirmationStep, ConfirmationSeen, ConfirmationRetire,
         ConfirmationNotified, ConfirmationExit, TypeOK
    <3>2. QED BY <1>3, <1>4, <2>1, <2>2, <3>1 DEF Watcher
  <2>5. QED BY <2>3, <2>4
<1>7. ASSUME Stop \/ Crash PROVE FALSE
  BY <1>2, <1>7 DEF Stop, Crash
<1>8. CASE Restore
  <2>1. rows[p].state = "submitted"
    <3> DEFINE target(x) == IF binding[rows[x].route] # None THEN binding[rows[x].route]
                            ELSE rows[x].win
    <3>1. rows' = [x \in Ids |-> IF rows[x].state = "queued"
                                 THEN [rows[x] EXCEPT !.win = target(x)] ELSE rows[x]]
      BY <1>8 DEF Restore
    <3> HIDE DEF target
    <3>2. QED BY <1>1, <1>2, <3>1 DEF TypeOK, Row
  <2>2. confirm'[p] = "probe"
    BY <1>8, <2>1 DEF Restore
  <2>3. QED BY <2>2 DEF Watcher
<1>9. CASE (\E r \in Routes : Rebind(r)) \/ UNCHANGED vars
  BY <1>2, <1>4, <1>9 DEF Rebind, vars, memory, Watcher
<1>10. QED BY <1>5, <1>6, <1>7, <1>8, <1>9 DEF Next

\* Unless a refresh after the first prompt fails (refresh_error), a submitted prompt is
\* always watched: by its sender, by a confirmation, or by the handler that discards it
\* (_ensure_agent_input_confirmation_task and every way out of the two senders).
THEOREM SubmittedHasWatcher ==
    ASSUME "refresh_error" \notin Events
    PROVE  Spec => []SubmittedIsWatched
<1>1. Init => WatchedInv
  BY CustodyInit DEF Init, NoRow, WatchedInv, ConfirmInv, ConfirmOk, SubmittedIsWatched
<1>2. WatchedInv /\ [Next]_vars => WatchedInv'
  BY WatchedStep
<1>3. WatchedInv => SubmittedIsWatched
  BY DEF WatchedInv
<1>4. QED BY <1>1, <1>2, <1>3, PTL DEF Spec

-------------------------------------------------------------------------------
(* A queue always has a task that will come to it.                          *)

\* The topic has a drain, a handler, or a confirmation.
HasTask(r) ==
    \/ RouteHasDrain(r) \/ sender[r].pc # "idle"
    \/ \E p \in Ids : confirm[p] # "none" /\ rows[p].route = r

TaskInv == WatchedInv /\ HeldHasDrain

\* A drain is started for a queue unless something blocks the topic.
LEMMA EnsureHasTask ==
    ASSUME TypeOK, SubmittedIsWatched', phase' = "up", NEW r \in Routes, NEW w,
           EnsureDrain(rows', confirm', r, w)
    PROVE  HasTask(r)'
<1>1. CASE Blocked(rows', confirm', r, w)
  <2>1. PICK p \in Ids : rows'[p].route = r /\ (confirm'[p] # "none" \/ rows'[p].state = "submitted")
    BY <1>1 DEF Blocked, HasConfirmation, HasPersistedConfirmation, BlockedBy
  <2>2. Watcher(p)' \/ confirm'[p] # "none"
    BY <2>1 DEF SubmittedIsWatched
  <2>3. QED BY <2>1, <2>2 DEF Watcher, HasTask, RouteHasDrain
<1>2. CASE ~Blocked(rows', confirm', r, w)
  <2>1. drain'[r].pc # "none"
    BY <1>2 DEF EnsureDrain, Ensured, NewDrain, NoDrain, TypeOK
  <2>2. QED BY <2>1 DEF HasTask, RouteHasDrain
<1>3. QED BY <1>1, <1>2

\* The finally block of a drain leaves a task behind for what is still queued.
LEMMA ExitHasTask ==
    ASSUME TypeOK, SubmittedIsWatched', phase' = "up", NEW r \in Routes,
           NEW rws, NEW qs, NEW cfm, NEW a, DrainExit(r, rws, qs, cfm, a), RouteHasQueue(r)'
    PROVE  HasTask(r)'
<1>1. rows' = rws /\ queues' = qs /\ confirm' = cfm
  BY DEF DrainExit
<1>2. PICK v \in Windows : qs[r][v] # <<>>
  BY <1>1 DEF RouteHasQueue
<1>3. CASE HasConfirmation(rws, cfm, r, drain[r].win)
  <2>1. PICK p \in Ids : rows'[p].route = r /\ confirm'[p] # "none"
    BY <1>1, <1>3 DEF HasConfirmation, BlockedBy
  <2>2. QED BY <2>1 DEF HasTask
<1>4. CASE ~HasConfirmation(rws, cfm, r, drain[r].win)
  <2>1. PICK u \in Windows : drain' = [drain EXCEPT ![r] = Ensured(NoDrain, rws, cfm, r, u)]
    BY <1>2, <1>4 DEF DrainExit, Successors
  <2>2. CASE Blocked(rws, cfm, r, u)
    <3>1. PICK p \in Ids : rows'[p].route = r /\ (confirm'[p] # "none" \/ rows'[p].state = "submitted")
      BY <1>1, <2>2 DEF Blocked, HasConfirmation, HasPersistedConfirmation, BlockedBy
    <3>2. Watcher(p)' \/ confirm'[p] # "none"
      BY <3>1 DEF SubmittedIsWatched
    <3>3. QED BY <3>1, <3>2 DEF Watcher, HasTask, RouteHasDrain
  <2>3. CASE ~Blocked(rws, cfm, r, u)
    <3>1. drain'[r].pc # "none"
      BY <2>1, <2>3 DEF Ensured, NewDrain, NoDrain, TypeOK
    <3>2. QED BY <3>1 DEF HasTask, RouteHasDrain
  <2>4. QED BY <2>2, <2>3
<1>5. QED BY <1>3, <1>4

LEMMA DrainKeepsTask ==
    ASSUME TypeOK, SubmittedIsWatched', phase' = "up", NEW r \in Routes, DrainStep(r),
           RouteHasQueue(r)'
    PROVE  HasTask(r)'
<1>1. CASE \/ DrainEmpty(r) \/ DrainDrop(r) \/ DrainFault(r) \/ DrainPopFault(r)
           \/ DrainSendError(r) \/ DrainRefreshError(r) \/ DrainTail(r)
  <2>1. \E rws, qs, cfm, a : DrainExit(r, rws, qs, cfm, a)
    BY <1>1 DEF DrainEmpty, DrainDrop, DrainFault, DrainPopFault, DrainSendError,
       DrainRefreshError, DrainTail
  <2>2. QED BY <2>1, ExitHasTask
<1>2. CASE ~(\/ DrainEmpty(r) \/ DrainDrop(r) \/ DrainFault(r) \/ DrainPopFault(r)
             \/ DrainSendError(r) \/ DrainRefreshError(r) \/ DrainTail(r))
  <2>1. \/ drain' = drain /\ drain[r].pc # "none"
        \/ DrainAgain(r)
        \/ \E e : drain' = [drain EXCEPT ![r] = e] /\ e.pc # "none"
    <3>1. drain[r] \in Drain
      BY DEF TypeOK
    <3>2. CASE DrainExpire(r)
      BY <3>2 DEF DrainExpire, Drains
    <3>3. CASE DrainBusy(r) \/ DrainNoSlot(r) \/ DrainNotMarked(r) \/ DrainNativeSent(r)
               \/ DrainSendFailed(r) \/ DrainConfirmed(r)
      BY <3>3 DEF DrainBusy, DrainNoSlot, DrainNotMarked, DrainNativeSent, DrainSendFailed,
         DrainConfirmed
    <3>4. CASE DrainLook(r) \/ DrainUnconfirmed(r)
      <4>1. \E pc \in {"capture", "tail"} : drain' = [drain EXCEPT ![r] = [drain[r] EXCEPT !.pc = pc]]
        BY <3>4 DEF DrainLook, DrainUnconfirmed, TypeOK
      <4>2. \A pc : [drain[r] EXCEPT !.pc = pc].pc = pc
        BY <3>1 DEF Drain
      <4>3. QED BY <4>1, <4>2
    <3>5. CASE DrainLost(r) \/ DrainNative(r) \/ DrainAcquire(r) \/ DrainSent(r) \/ DrainSubmit(r)
      BY <3>1, <3>5 DEF DrainLost, DrainNative, DrainAcquire, DrainSent, DrainSubmit, TypeOK, Drain
    <3>6. QED BY <1>2, <3>2, <3>3, <3>4, <3>5 DEF DrainStep
  <2>2. drain'[r].pc # "none"
    BY <2>1 DEF DrainAgain, NewDrain, NoDrain, TypeOK
  <2>3. QED BY <2>2 DEF HasTask, RouteHasDrain
<1>3. QED BY <1>1, <1>2

\* A handler that is done with a prompt leaves the deques of its topic empty.
LEMMA DirectEmpties ==
    ASSUME CustodyInv, NEW r \in Routes,
           DirectUnavailable(r) \/ DirectSent(r) \/ DirectSendFailed(r) \/ DirectSendError(r)
    PROVE  \A v \in Windows : queues'[r][v] = <<>>
<1> DEFINE s == sender[r]
           qs == queues[r]
<1>1. TypeOK /\ s \in Sender /\ qs \in [Windows -> Seq(Ids)] /\ SenderOk(r, s, qs, rows, phase)
  BY DEF CustodyInv, SendInv, Custody, TopicOk, TypeOK
<1>2. s.pc \in {"capture", "send"} /\ s.win \in Windows /\ s.item \in Ids
  BY <1>1 DEF DirectUnavailable, DirectSent, DirectSendFailed, DirectSendError, Holds, Sender
<1>3. qs[s.win] \in {<<>>, <<s.item>>} /\ \A u \in Windows \ {s.win} : qs[u] = <<>>
  BY <1>1, <1>2 DEF SenderOk
<1>4. Head(<<s.item>>) = s.item /\ Tail(<<s.item>>) = <<>>
  BY <1>2
<1>5. queues' = [queues EXCEPT ![r][s.win] = <<>>]
  BY <1>3, <1>4 DEF DirectUnavailable, DirectSent, DirectSendFailed, DirectSendError, Queue
<1>6. QED BY <1>1, <1>2, <1>3, <1>5 DEF TypeOK

LEMMA HandlerKeepsTask ==
    ASSUME CustodyInv, SubmittedIsWatched', phase' = "up", NEW r \in Routes, HandlerStep(r),
           RouteHasQueue(r)'
    PROVE  HasTask(r)'
<1> DEFINE s == sender[r]
           qs == queues[r]
<1>1. TypeOK /\ s \in Sender /\ qs \in [Windows -> Seq(Ids)] /\ SenderOk(r, s, qs, rows, phase)
  BY DEF CustodyInv, SendInv, Custody, TopicOk, TypeOK
<1>2. PICK v \in Windows : queues'[r][v] # <<>>
  BY DEF RouteHasQueue
<1>3. CASE QueueBehind(r) \/ RefuseFull(r) \/ DirectDefer(r)
  <2>1. \E w : EnsureDrain(rows', confirm', r, w)
    BY <1>3 DEF QueueBehind, RefuseFull, DirectDefer, Enqueue
  <2>2. QED BY <1>1, <2>1, EnsureHasTask
<1>4. CASE SendDirect(r) \/ SendNative(r) \/ DirectAcquire(r) \/ DirectSubmit(r) \/ NativeSubmit(r)
           \/ DiscardStart(r)
  <2>1. sender'[r].pc # "idle"
    BY <1>1, <1>4, HoldIs DEF SendDirect, SendNative, DirectAcquire, DirectSubmit, NativeSubmit,
       DiscardStart
  <2>2. QED BY <2>1 DEF HasTask
<1>5. CASE DirectUnavailable(r) \/ DirectSent(r) \/ DirectSendFailed(r) \/ DirectSendError(r)
  BY <1>1, <1>2, <1>5, DirectEmpties
<1>6. CASE DirectPopFault(r)
  <2>1. s.pc = "send" /\ qs[s.win] = <<>> /\ queues' = queues
    BY <1>6 DEF DirectPopFault, Holds, Queue
  <2>2. QED BY <1>1, <1>2, <2>1 DEF SenderOk
<1>7. CASE NativeFailed(r) \/ NativeSent(r)
  <2>1. s.pc \in {"nbaseline", "nsend"} /\ queues' = queues
    BY <1>7 DEF NativeFailed, NativeSent, Holds
  <2>2. QED BY <1>1, <1>2, <2>1 DEF SenderOk
<1>8. CASE DiscardFinish(r)
  BY <1>1, <1>2, <1>8 DEF DiscardFinish, TypeOK
<1>9. QED BY <1>3, <1>4, <1>5, <1>6, <1>7, <1>8 DEF HandlerStep, DirectStep, NativeStep

LEMMA TaskStep ==
    ASSUME "refresh_error" \notin Events, TaskInv, [Next]_vars
    PROVE  TaskInv'
<1>1. WatchedInv' /\ SubmittedIsWatched' /\ ConfirmInv /\ CustodyInv /\ TypeOK /\ TypeOK'
  BY WatchedStep DEF TaskInv, WatchedInv, ConfirmInv, CustodyInv, SendInv
<1>2. SUFFICES ASSUME phase' = "up", NEW t \in Routes, RouteHasQueue(t)' PROVE HasTask(t)'
  BY <1>1 DEF TaskInv, HeldHasDrain, HasTask
<1>3. phase = "up" /\ RouteHasQueue(t) => HasTask(t)
  BY DEF TaskInv, HeldHasDrain, HasTask
<1>4. ASSUME NEW r \in Routes, DrainStep(r) \/ HandlerStep(r) PROVE HasTask(t)'
  <2>1. CASE t = r
    BY <1>1, <1>2, <1>4, <2>1, DrainKeepsTask, HandlerKeepsTask
  <2>2. CASE t # r
    <3>1. StepOf(r)
      BY <1>1, <1>4, DrainKeepsCustody, HandlerKeepsCustody
    <3>2. HasTask(t)
      BY <1>2, <1>3, <2>2, <3>1 DEF StepOf, RouteHasQueue
    <3>3. ASSUME NEW p \in Ids, confirm[p] # "none", rows[p].route = t
          PROVE  confirm'[p] # "none" /\ rows'[p].route = t
      <4>1. rows[p].state # "new"
        BY <1>1, <3>3 DEF ConfirmInv, ConfirmOk
      <4>2. QED BY <1>1, <1>4, <2>2, <3>1, <3>3, <4>1, DrainConfirms, HandlerConfirms DEF StepOf, Ages
    <3>4. QED BY <2>2, <3>1, <3>2, <3>3 DEF HasTask, RouteHasDrain, StepOf
  <2>3. QED BY <2>1, <2>2
<1>5. ASSUME NEW q \in Ids, ConfirmationStep(q) PROVE HasTask(t)'
  <2> DEFINE r == rows[q].route
  <2>1. /\ queues' = queues /\ sender' = sender /\ phase' = phase /\ Ages(rows, rows')
        /\ \A u \in Routes : drain'[u] # drain[u] => drain[u].pc = "none" /\ drain'[u].pc # "none"
    <3>1. \A v : NewDrain(v).pc # "none"
      BY DEF NewDrain, NoDrain
    <3>2. QED BY <1>1, <1>5, <3>1, ConfirmationKeepsCustody
  <2>2. HasTask(t)
    BY <1>2, <1>3, <2>1 DEF RouteHasQueue
  <2>3. CASE \E p \in Ids : p # q /\ confirm[p] # "none" /\ rows[p].route = t
    <3>1. PICK p \in Ids : p # q /\ confirm[p] # "none" /\ rows[p].route = t
      BY <2>3
    <3>2. confirm'[p] = confirm[p]
      BY <1>1, <1>5, <3>1 DEF ConfirmationStep, ConfirmationSeen, ConfirmationRetire,
         ConfirmationNotified, ConfirmationExit, TypeOK
    <3>3. rows'[p].route = t
      BY <1>1, <2>1, <3>1 DEF ConfirmInv, ConfirmOk, Ages
    <3>4. QED BY <3>1, <3>2, <3>3 DEF HasTask
  <2>4. CASE RouteHasDrain(t) \/ sender[t].pc # "idle"
    BY <1>2, <2>1, <2>4 DEF HasTask, RouteHasDrain
  <2>5. CASE r = t /\ ~RouteHasDrain(t)
    <3>1. CASE ConfirmationRetire(q)
      <4>1. confirm'[q] # "none" /\ rows'[q].route = t
        <5>1. confirm'[q] = "notify" /\ rows[q].state # "new"
          BY <1>1, <3>1 DEF ConfirmationRetire, TypeOK
        <5>2. QED BY <2>1, <2>5, <5>1 DEF Ages
      <4>2. QED BY <4>1 DEF HasTask
    <3>2. CASE ConfirmationSeen(q) \/ ConfirmationNotified(q)
      <4>1. PICK rws : ConfirmationExit(q, rws)
        BY <3>2 DEF ConfirmationSeen, ConfirmationNotified
      <4> DEFINE cfm == [confirm EXCEPT ![q] = "none"]
                 ready == {v \in Windows : queues[r][v] # <<>> /\ ~Blocked(rws, cfm, r, v)}
      <4>2. rows' = rws /\ confirm' = cfm
        BY <4>1 DEF ConfirmationExit
      <4>3. CASE HasConfirmation(rws, cfm, r, rows[q].win)
        <5>1. PICK p \in Ids : cfm[p] # "none" /\ rws[p].route = r
          BY <4>3 DEF HasConfirmation, BlockedBy
        <5>2. QED BY <2>5, <4>2, <5>1 DEF HasTask
      <4>4. CASE ~HasConfirmation(rws, cfm, r, rows[q].win) /\ ready = {}
        <5>1. PICK v \in Windows : queues[t][v] # <<>>
          BY <1>2, <2>1 DEF RouteHasQueue
        <5>2. Blocked(rws, cfm, r, v)
          BY <2>5, <4>4, <5>1
        <5>3. PICK p \in Ids : /\ rows'[p].route = r
                               /\ (confirm'[p] # "none" \/ rows'[p].state = "submitted")
          BY <4>2, <5>2 DEF Blocked, HasConfirmation, HasPersistedConfirmation, BlockedBy
        <5>4. Watcher(p)' \/ confirm'[p] # "none"
          BY <1>1, <1>2, <5>3 DEF SubmittedIsWatched
        <5>5. QED BY <2>5, <5>3, <5>4 DEF Watcher, HasTask, RouteHasDrain
      <4>5. CASE ~HasConfirmation(rws, cfm, r, rows[q].win) /\ ready # {}
        <5>1. PICK v \in ready : drain' = [drain EXCEPT ![r] = NewDrain(v)]
          BY <2>5, <4>1, <4>5 DEF ConfirmationExit
        <5>2. drain'[t].pc # "none"
          BY <1>1, <2>5, <5>1 DEF NewDrain, NoDrain, TypeOK
        <5>3. QED BY <5>2 DEF HasTask, RouteHasDrain
      <4>6. QED BY <4>3, <4>4, <4>5
    <3>3. QED BY <1>5, <3>1, <3>2 DEF ConfirmationStep
  <2>6. QED BY <2>2, <2>3, <2>4, <2>5 DEF HasTask
<1>6. ASSUME Stop \/ Crash PROVE FALSE
  BY <1>2, <1>6 DEF Stop, Crash
<1>7. CASE Restore
  <2>1. PICK v \in Windows : queues'[t][v] # <<>>
    BY <1>2 DEF RouteHasQueue
  <2> DEFINE target(p) == IF binding[rows[p].route] # None THEN binding[rows[p].route]
                          ELSE rows[p].win
             rws == [p \in Ids |-> IF rows[p].state = "queued"
                                   THEN [rows[p] EXCEPT !.win = target(p)] ELSE rows[p]]
             cfm == [p \in Ids |-> IF rows[p].state = "submitted" THEN "probe" ELSE "none"]
             held(r, w) == {p \in Ids : rws[p].state = "queued" /\ rws[p].route = r
                                                               /\ rws[p].win = w}
             started(r) == {u \in Windows : held(r, u) # {} /\ ~Blocked(rws, cfm, r, u)}
  <2>2. /\ rows' = rws /\ confirm' = cfm
        /\ \A r \in Routes, w \in Windows : IdsOf(queues'[r][w]) = held(r, w)
        /\ drain'[t] \in {NoDrain} \cup {NewDrain(w) : w \in Windows}
        /\ IF started(t) = {} THEN drain'[t] = NoDrain ELSE drain'[t].win \in started(t)
    BY <1>7 DEF Restore
  <2>3. held(t, v) # {}
    <3>1. queues'[t][v] \in Seq(Ids)
      BY <1>1 DEF TypeOK
    <3>2. Head(queues'[t][v]) \in IdsOf(queues'[t][v])
      BY <2>1, <3>1, TailOfQueue
    <3>3. QED BY <2>2, <3>2
  <2> HIDE DEF rws, cfm
  <2>4. CASE Blocked(rws, cfm, t, v)
    <3>1. PICK p \in Ids : /\ rows'[p].route = t
                           /\ (confirm'[p] # "none" \/ rows'[p].state = "submitted")
      BY <2>2, <2>4 DEF Blocked, HasConfirmation, HasPersistedConfirmation, BlockedBy
    <3>2. Watcher(p)' \/ confirm'[p] # "none"
      BY <1>1, <1>2, <3>1 DEF SubmittedIsWatched
    <3>3. QED BY <3>1, <3>2 DEF Watcher, HasTask, RouteHasDrain
  <2>5. CASE ~Blocked(rws, cfm, t, v)
    <3>1. drain'[t].win \in Windows
      BY <2>2, <2>3, <2>5
    <3>2. drain'[t] # NoDrain
      BY <3>1, AgentInputQueueAssumption DEF NoDrain
    <3>3. PICK u \in Windows : drain'[t] = NewDrain(u)
      BY <2>2, <3>2
    <3>4. drain'[t].pc # "none"
      BY <3>3 DEF NoDrain, NewDrain
    <3>5. QED BY <3>4 DEF HasTask, RouteHasDrain
  <2>6. QED BY <2>4, <2>5
<1>8. CASE (\E r \in Routes : Rebind(r)) \/ UNCHANGED vars
  BY <1>2, <1>3, <1>8 DEF Rebind, vars, memory, HasTask, RouteHasDrain, RouteHasQueue
<1>9. QED BY <1>4, <1>5, <1>6, <1>7, <1>8 DEF Next

\* Unless a refresh fails, no queue is left to itself while the bot runs: there is a drain
\* that works on the topic, a handler that will start one, or a confirmation whose end
\* does (the finally blocks of _drain_agent_input_queue and _run_agent_input_confirmation).
THEOREM HeldIsTended ==
    ASSUME "refresh_error" \notin Events
    PROVE  Spec => []HeldHasDrain
<1>1. Init => TaskInv
  BY CustodyInit DEF Init, NoRow, TaskInv, WatchedInv, ConfirmInv, ConfirmOk, SubmittedIsWatched,
     HeldHasDrain, RouteHasQueue
<1>2. TaskInv /\ [Next]_vars => TaskInv'
  BY TaskStep
<1>3. TaskInv => HeldHasDrain
  BY DEF TaskInv
<1>4. QED BY <1>1, <1>2, <1>3, PTL DEF Spec

-------------------------------------------------------------------------------
(* What a deque holds is in the spool.                                      *)

\* A deque has no prompt that somebody may delete without looking at the deque: none
\* that is gone, that a confirmation watches, or that the drain is confirming.  No
\* drain is about to clear a deque.
CleanOk(qs, d, rws, cfm) ==
    /\ d.pc \notin {"lost", "refused"}
    /\ \A w \in Windows : \A p \in IdsOf(qs[w]) :
          /\ rws[p].state \in {"queued", "submitted"}
          /\ cfm[p] = "none"
          /\ ~(d.pc = "refresh" /\ d.item = p)

Clean(r) == CleanOk(queues[r], drain[r], rows, confirm)

CleanInv == ConfirmInv /\ \A r \in Routes : Clean(r)

\* The prompts in deques are ids, each of its target.
LEMMA QueuedBelongs ==
    ASSUME CustodyInv, NEW r \in Routes, NEW w \in Windows, NEW p \in IdsOf(queues[r][w])
    PROVE  p \in Ids /\ Belongs(r, w, rows, p) /\ phase = "up"
<1>1. queues[r][w] \in Seq(Ids) /\ QueuesOk(r, queues[r], rows, phase)
  BY DEF CustodyInv, SendInv, TypeOK, Custody, TopicOk
<1>2. queues[r][w] # <<>>
  BY EmptyQueue
<1>3. QED BY <1>1, <1>2, IdsOfType DEF QueuesOk

\* The head of the deque a drain works on.
LEMMA HeadBelongs ==
    ASSUME CustodyInv, NEW r \in Routes, drain[r].pc \in InHand, Deque(r) # <<>>
    PROVE  Belongs(r, drain[r].win, rows, Head(Deque(r))) /\ Head(Deque(r)) \in Ids
<1>1. TypeOK /\ ItemOk(r, drain[r], queues[r], rows) /\ OrphanOk(r, drain[r], rows, phase)
  BY DEF CustodyInv, SendInv, Custody, TopicOk, DrainOk
<1>2. Deque(r) \in Seq(Ids) /\ Head(Deque(r)) \in Ids
  BY <1>1, DequeType DEF InHand
<1>3. CASE drain[r].live
  BY <1>1, <1>2, <1>3 DEF ItemOk, InHand, Deque
<1>4. CASE ~drain[r].live
  BY <1>1, <1>2, <1>4, TailOfQueue DEF OrphanOk, Deque
<1>5. QED BY <1>2, <1>3, <1>4

\* A task deletes rows of its own topic only.
LEMMA ForgetsOwn ==
    ASSUME CustodyInv, NEW r \in Routes, DrainStep(r) \/ HandlerStep(r), NEW p \in Ids,
           Stored(p), ~(rows'[p].state \in {"queued", "submitted"})
    PROVE  rows[p].route = r
<1> DEFINE d == drain[r]
           s == sender[r]
<1>1. TypeOK /\ ItemOk(r, d, queues[r], rows) /\ OrphanOk(r, d, rows, phase)
      /\ QueuesOk(r, queues[r], rows, phase) /\ SenderOk(r, s, queues[r], rows, phase)
  BY DEF CustodyInv, SendInv, Custody, TopicOk, DrainOk
<1>2. ASSUME NEW S, rows' = Deleted(S) PROVE p \in S
  BY <1>1, <1>2, DeletedStates DEF Stored
<1>3. CASE DrainExpire(r)
  <2>1. d.pc = "top" /\ d.win \in Windows /\ queues[r][d.win] \in Seq(Ids)
    BY <1>1, <1>3 DEF DrainExpire, Drains, TypeOK, Drain
  <2> DEFINE q == queues[r][d.win]
  <2>2. PICK n \in 1..Len(q) : rows' = Deleted({q[i] : i \in 1..n})
    BY <1>3 DEF DrainExpire
  <2>3. p \in IdsOf(q)
    BY <1>2, <2>1, <2>2, RestOfQueue
  <2>4. QED BY <1>1, <2>1, <2>3 DEF QueuesOk, Belongs
<1>4. CASE DrainDrop(r)
  BY <1>2, <1>4 DEF DrainDrop, DrainExit, TargetRows
<1>5. CASE DrainSendFailed(r)
  <2>1. d.pc \in {"send", "nsend"} /\ Deque(r) # <<>> /\ rows' = Deleted({Head(Deque(r))})
    BY <1>5 DEF DrainSendFailed
  <2>2. p = Head(Deque(r))
    BY <1>2, <2>1
  <2>3. QED BY <2>1, <2>2, HeadBelongs DEF Belongs, InHand
<1>6. CASE DrainConfirmed(r)
  <2>1. d.pc = "refresh" /\ p = d.item
    BY <1>2, <1>6 DEF DrainConfirmed, Confirmed, Drains
  <2>2. QED BY <1>1, <2>1 DEF ItemOk, Belongs
<1>7. CASE DirectUnavailable(r) \/ DirectSendFailed(r) \/ NativeFailed(r)
  <2>1. s.pc \in {"capture", "send", "nbaseline", "nsend"}
        /\ (rows' = rows \/ rows' = Deleted({s.item}))
    BY <1>7 DEF DirectUnavailable, DirectSendFailed, NativeFailed, Holds
  <2>2. p = s.item
    BY <1>2, <2>1 DEF Stored
  <2>3. QED BY <1>1, <2>1, <2>2 DEF SenderOk, Belongs
<1>8. CASE DiscardFinish(r)
  BY <1>2, <1>8 DEF DiscardFinish, RouteRows
<1>9. CASE ~(DrainExpire(r) \/ DrainDrop(r) \/ DrainSendFailed(r) \/ DrainConfirmed(r)
             \/ DirectUnavailable(r) \/ DirectSendFailed(r) \/ NativeFailed(r) \/ DiscardFinish(r))
  <2>1. ASSUME rows' = rows \/ (\E h : rows' = [rows EXCEPT ![h].mode = "turn"])
               \/ (\E h : rows' = Marked(h))
               \/ (\E t \in Routes, v \in Windows, m \in Modes : rows' = Inserted(t, v, m))
        PROVE  FALSE
    <3>1. CASE rows' = rows
      BY <3>1 DEF Stored
    <3>2. CASE \E h : rows' = [rows EXCEPT ![h].mode = "turn"]
      BY <1>1, <3>2 DEF Stored, TypeOK, Row
    <3>3. CASE \E h : rows' = Marked(h)
      BY <1>1, <3>3 DEF Stored, Marked, TypeOK, Row
    <3>4. CASE \E t \in Routes, v \in Windows, m \in Modes : rows' = Inserted(t, v, m)
      BY <1>1, <3>4 DEF Stored, Inserted, TypeOK
    <3>5. QED BY <2>1, <3>1, <3>2, <3>3, <3>4
  <2>2. CASE DrainStep(r)
    BY <1>9, <2>1, <2>2 DEF DrainStep, DrainExit, DrainAcquire, DrainNoSlot, DrainLook, DrainEmpty,
       DrainLost, DrainFault, DrainBusy, DrainNative, DrainSubmit, DrainNotMarked, DrainSent,
       DrainNativeSent, DrainPopFault, DrainSendError, DrainUnconfirmed, DrainRefreshError,
       DrainTail
  <2>3. CASE HandlerStep(r)
    <3>1. binding[r] # None => binding[r] \in Windows
      BY <1>1 DEF TypeOK
    <3>2. QED
      BY <1>9, <2>1, <2>3, <3>1 DEF HandlerStep, QueueBehind, RefuseFull, SendDirect, SendNative,
       Enqueue, DirectStep, DirectDefer, DirectAcquire, DirectSubmit, DirectSent, DirectPopFault,
       DirectSendError, NativeStep, NativeSubmit, NativeSent, DiscardStart, Modes
  <2>4. QED BY <2>2, <2>3
<1>10. QED BY <1>3, <1>4, <1>5, <1>6, <1>7, <1>8, <1>9

LEMMA FreshPc == \A e \in NewDrains : e.pc \in {"none", "top"}
<1>1. NoDrain.pc = "none" /\ \A w : NewDrain(w).pc = "top"
  BY DEF NoDrain, NewDrain
<1>2. QED BY <1>1 DEF NewDrains

LEMMA OrphanedPc ==
    ASSUME NEW e \in NewDrains, NEW qs, NEW r
    PROVE  Orphaned(e, qs, r).pc \in {"none", "capture"}
<1>1. Orphaned(NoDrain, qs, r).pc = "none"
  BY DEF Orphaned, NoDrain
<1>2. \A v : Orphaned(NewDrain(v), qs, r).pc = "capture"
  BY DEF Orphaned, Looking, NewDrain, NoDrain
<1>3. QED BY <1>1, <1>2 DEF NewDrains

LEMMA DrainFields ==
    ASSUME NEW d \in Drain, NEW pc, NEW p
    PROVE  /\ [d EXCEPT !.pc = pc].pc = pc
           /\ [d EXCEPT !.pc = pc, !.item = p].pc = pc
           /\ [d EXCEPT !.pc = pc, !.item = p].item = p
BY DEF Drain

\* What popleft leaves has neither the head nor the prompt in hand.
LEMMA PoppedIsClean ==
    ASSUME CleanInv, NEW r \in Routes, drain[r].pc \in {"send", "nsend"}, Deque(r) # <<>>,
           NEW v \in Windows, NEW p \in IdsOf(Popped(r)[r][v])
    PROVE  p \in IdsOf(queues[r][v]) /\ p # Head(Deque(r)) /\ p # drain[r].item
<1> DEFINE d == drain[r]
           w == drain[r].win
<1>1. TypeOK /\ CustodyInv /\ ItemOk(r, d, queues[r], rows) /\ OrphanOk(r, d, rows, phase)
      /\ QueuesOk(r, queues[r], rows, phase) /\ Clean(r)
  BY DEF CleanInv, ConfirmInv, CustodyInv, SendInv, Custody, TopicOk, DrainOk
<1>2. w \in Windows /\ Deque(r) \in Seq(Ids) /\ queues[r] \in [Windows -> Seq(Ids)]
  BY <1>1, DequeType DEF TypeOK
<1>3. CASE d.live
  <2>1. Deque(r) = queues[r][w] /\ Head(Deque(r)) = d.item /\ Ordered(queues[r][w])
    BY <1>1, <1>2, <1>3 DEF ItemOk, InHand, Deque, QueuesOk
  <2>2. Popped(r)[r] = [queues[r] EXCEPT ![w] = Tail(@)]
    BY <1>1, <1>2, <1>3 DEF Popped, TypeOK
  <2>3. CASE v = w
    <3>1. p \in IdsOf(Tail(queues[r][w]))
      BY <1>2, <2>2, <2>3
    <3>2. p \in IdsOf(queues[r][w]) /\ Head(queues[r][w]) < p
      BY <1>2, <2>1, <3>1, TailOfQueue
    <3>3. p \in Nat
      BY <1>1, <3>2, QueuedBelongs, IdsAreNats, <1>2
    <3>4. QED BY <2>1, <2>3, <3>2, <3>3
  <2>4. CASE v # w
    <3>1. p \in IdsOf(queues[r][v])
      BY <1>2, <2>2, <2>4
    <3>2. rows[p].win = v /\ rows[d.item].win = w
      BY <1>1, <2>1, <3>1, QueuedBelongs DEF ItemOk, InHand, Belongs
    <3>3. QED BY <2>1, <2>4, <3>1, <3>2
  <2>5. QED BY <2>3, <2>4
<1>4. CASE ~d.live
  <2>1. p \in IdsOf(queues[r][v])
    BY <1>4 DEF Popped
  <2>2. rows[p].state \in {"queued", "submitted"} /\ phase = "up"
    BY <1>1, <2>1, QueuedBelongs DEF Clean, CleanOk
  <2>3. Gone(rows, Head(Deque(r))) /\ Gone(rows, d.item)
    BY <1>1, <1>2, <1>4, <2>2, TailOfQueue DEF OrphanOk, Deque
  <2>4. QED BY <2>1, <2>2, <2>3 DEF Gone
<1>5. QED BY <1>3, <1>4

LEMMA DrainKeepsClean ==
    ASSUME CleanInv, "agent_failure" \notin Events, NEW r \in Routes, DrainStep(r)
    PROVE  Clean(r)'
<1> DEFINE d == drain[r]
           w == drain[r].win
           qs == queues[r]
<1>1. TypeOK /\ CustodyInv /\ ItemOk(r, d, qs, rows) /\ OrphanOk(r, d, rows, phase)
      /\ QueuesOk(r, qs, rows, phase) /\ Clean(r)
  BY DEF CleanInv, ConfirmInv, CustodyInv, SendInv, Custody, TopicOk, DrainOk
<1>2. /\ d \in Drain /\ qs \in [Windows -> Seq(Ids)]
      /\ d.pc # "none" => w \in Windows
      /\ d.pc \notin {"lost", "refused"}
  BY <1>1 DEF TypeOK, Drain, Clean, CleanOk
<1>3. ASSUME NEW v \in Windows, NEW p \in IdsOf(qs[v])
      PROVE  /\ p \in Ids /\ rows[p].state \in {"queued", "submitted"} /\ confirm[p] = "none"
             /\ Belongs(r, v, rows, p) /\ ~(d.pc = "refresh" /\ d.item = p)
  BY <1>1, <1>3, QueuedBelongs DEF Clean, CleanOk
\* A step that deletes and watches nothing that is still in a deque.
<1>4. ASSUME drain'[r].pc \notin {"lost", "refused"},
             \A v \in Windows : \A p \in IdsOf(queues'[r][v]) :
                /\ p \in IdsOf(qs[v])
                /\ rows'[p].state # "gone"
                /\ confirm'[p] = confirm[p]
                /\ ~(drain'[r].pc = "refresh" /\ drain'[r].item = p)
      PROVE  Clean(r)'
  <2> SUFFICES ASSUME NEW v \in Windows, NEW p \in IdsOf(queues'[r][v])
               PROVE  rows'[p].state \in {"queued", "submitted"} /\ confirm'[p] = "none"
                      /\ ~(drain'[r].pc = "refresh" /\ drain'[r].item = p)
    BY <1>4 DEF Clean, CleanOk
  <2>1. p \in IdsOf(qs[v]) /\ p \in Ids
    BY <1>3, <1>4
  <2>2. Ages(rows, rows') /\ rows[p].state \in {"queued", "submitted"}
    BY <1>1, <1>3, <2>1, DrainStepRows
  <2>3. QED BY <1>3, <1>4, <2>1, <2>2 DEF Ages
<1>5. ASSUME NEW rws, NEW qs2, NEW cfm, NEW a, DrainExit(r, rws, qs2, cfm, a)
      PROVE  drain'[r].pc \in {"none", "top"} /\ rows' = rws /\ queues' = qs2 /\ confirm' = cfm
  <2>1. PICK e \in NewDrains : drain' = [drain EXCEPT ![r] = e]
    BY <1>5, SuccessorsFresh DEF DrainExit
  <2>2. drain'[r] = e
    BY <1>1, <2>1 DEF TypeOK
  <2>3. e.pc \in {"none", "top"}
    BY FreshPc
  <2>4. QED BY <1>5, <2>2, <2>3 DEF DrainExit
<1>6. ASSUME DrainAgain(r) PROVE drain'[r].pc = "top"
  BY <1>1, <1>6 DEF DrainAgain, NewDrain, NoDrain, TypeOK
<1> HIDE DEF d, w, qs
<1>7. CASE DrainExpire(r)
  <2>0. d.pc = "top"
    BY <1>7 DEF DrainExpire, Drains, d
  <2>1. d.pc = "top" /\ w \in Windows /\ qs[w] \in Seq(Ids) /\ Ordered(qs[w])
    BY <1>1, <1>2, <2>0 DEF QueuesOk
  <2>2. PICK n \in 1..Len(qs[w]) :
            /\ rows' = Deleted({qs[w][i] : i \in 1..n})
            /\ queues' = [queues EXCEPT ![r][w] = SubSeq(qs[w], n + 1, Len(qs[w]))]
    BY <1>7 DEF DrainExpire, qs, w
  <2> DEFINE z == SubSeq(qs[w], n + 1, Len(qs[w]))
             gone == {qs[w][i] : i \in 1..n}
  <2>3. /\ IdsOf(qs[w]) = gone \cup IdsOf(z) /\ IdsOf(z) \cap gone = {}
    BY <2>1, RestOfQueue
  <2>4. queues'[r] = [qs EXCEPT ![w] = z] /\ drain' = drain /\ confirm' = confirm
    BY <1>1, <1>7, <2>2 DEF DrainExpire, TypeOK, qs
  <2> HIDE DEF z, gone
  <2>5. ASSUME NEW v \in Windows, NEW p \in IdsOf(queues'[r][v])
        PROVE  p \in IdsOf(qs[v]) /\ rows'[p].state # "gone"
    <3>1. p \in IdsOf(qs[v]) /\ p \notin gone
      <4>1. CASE v = w
        <5>1. p \in IdsOf(z)
          BY <1>2, <2>1, <2>4, <2>5, <4>1
        <5>2. QED BY <2>3, <4>1, <5>1
      <4>2. CASE v # w
        <5>1. p \in IdsOf(qs[v])
          BY <1>2, <2>4, <2>5, <4>2
        <5>2. rows[p].win = v /\ \A x \in gone : rows[x].win = w
          BY <1>3, <2>1, <2>3, <5>1 DEF Belongs
        <5>3. QED BY <4>2, <5>1, <5>2
      <4>3. QED BY <4>1, <4>2
    <3>2. QED BY <1>1, <1>3, <2>2, <3>1, DeletedStates DEF gone
  <2>6. QED BY <1>2, <1>3, <1>4, <2>1, <2>4, <2>5 DEF d
<1>8. CASE DrainSent(r) \/ DrainNativeSent(r) \/ DrainSendFailed(r)
  <2>1. d.pc \in {"send", "nsend"} /\ Deque(r) # <<>> /\ queues' = Popped(r)
    BY <1>8 DEF DrainSent, DrainNativeSent, DrainSendFailed, Drains, d
  <2> DEFINE h == Head(Deque(r))
  <2>2. ASSUME NEW v \in Windows, NEW p \in IdsOf(queues'[r][v]) PROVE p \in IdsOf(qs[v]) /\ p # h
    BY <2>1, <2>2, PoppedIsClean DEF d, qs
  <2>3. \/ rows' = rows /\ confirm' = confirm /\ drain'[r].pc = "refresh" /\ drain'[r].item = h
        \/ rows' = rows /\ confirm' = Watched(h) /\ DrainAgain(r)
        \/ rows' = Deleted({h}) /\ confirm' = confirm /\ DrainAgain(r)
    <3>1. CASE DrainSent(r)
      <4>1. drain'[r] = [d EXCEPT !.pc = "refresh", !.item = h]
        BY <1>1, <3>1 DEF DrainSent, TypeOK, d
      <4>2. drain'[r].pc = "refresh" /\ drain'[r].item = h
        BY <1>2, <4>1, DrainFields
      <4>3. QED BY <3>1, <4>2 DEF DrainSent
    <3>2. CASE DrainNativeSent(r) \/ DrainSendFailed(r)
      BY <3>2 DEF DrainNativeSent, DrainSendFailed
    <3>3. QED BY <1>8, <3>1, <3>2
  <2> HIDE DEF h
  <2>4. ASSUME NEW v \in Windows, NEW p \in IdsOf(queues'[r][v])
        PROVE  /\ p \in IdsOf(qs[v]) /\ rows'[p].state # "gone" /\ confirm'[p] = confirm[p]
               /\ ~(drain'[r].pc = "refresh" /\ drain'[r].item = p)
    <3>1. p \in IdsOf(qs[v]) /\ p # h /\ p \in Ids /\ rows[p].state # "gone"
      BY <1>3, <2>2, <2>4
    <3>2. rows'[p].state # "gone"
      BY <1>1, <2>3, <3>1, DeletedStates
    <3>3. confirm'[p] = confirm[p]
      BY <1>1, <2>3, <3>1 DEF Watched, TypeOK
    <3>4. QED BY <1>6, <2>3, <3>1, <3>2, <3>3
  <2>5. QED BY <1>4, <1>6, <2>3, <2>4
<1>9. CASE DrainSendError(r)
  <2>1. d.pc \in {"send", "nsend"} /\ rows' = rows /\ confirm' = Watched(d.item)
        /\ queues' = SendAborted(r).queues /\ drain'[r].pc \in {"none", "top"}
    BY <1>5, <1>9 DEF DrainSendError, SendAborted, d
  <2>2. ASSUME NEW v \in Windows, NEW p \in IdsOf(queues'[r][v])
        PROVE  p \in IdsOf(qs[v]) /\ p # d.item
    <3>1. CASE Deque(r) # <<>> /\ Head(Deque(r)) = d.item
      BY <2>1, <2>2, <3>1, PoppedIsClean DEF SendAborted, d, qs
    <3>2. CASE ~(Deque(r) # <<>> /\ Head(Deque(r)) = d.item)
      <4>1. queues' = queues
        BY <2>1, <3>2 DEF SendAborted, d
      <4>2. ~d.live
        BY <1>1, <2>1, <3>2 DEF ItemOk, InHand, Deque, d, qs
      <4>3. phase = "up" /\ p \in IdsOf(qs[v])
        BY <1>1, <2>2, <4>1, QueuedBelongs DEF qs
      <4>4. Gone(rows, d.item)
        BY <1>1, <2>1, <4>2, <4>3 DEF OrphanOk
      <4>5. QED BY <1>3, <4>3, <4>4 DEF Gone
    <3>3. QED BY <3>1, <3>2
  <2>3. QED BY <1>1, <1>3, <1>4, <2>1, <2>2 DEF Watched, TypeOK
<1>10. CASE DrainConfirmed(r) \/ DrainUnconfirmed(r)
  <2>1. /\ d.pc = "refresh" /\ queues' = queues /\ drain'[r].pc \in {"top", "tail"}
        /\ \/ rows' = Confirmed(d.item) /\ confirm' = confirm
           \/ rows' = rows /\ confirm' = Watched(d.item)
    <3>1. CASE DrainConfirmed(r)
      BY <1>6, <3>1 DEF DrainConfirmed, Drains, d
    <3>2. CASE DrainUnconfirmed(r)
      <4>1. drain'[r] = [d EXCEPT !.pc = "tail"]
        BY <1>1, <3>2 DEF DrainUnconfirmed, TypeOK, d
      <4>2. drain'[r].pc = "tail"
        BY <1>2, <4>1, DrainFields
      <4>3. QED BY <3>2, <4>2 DEF DrainUnconfirmed, Drains, d
    <3>3. QED BY <1>10, <3>1, <3>2
  <2>2. ASSUME NEW v \in Windows, NEW p \in IdsOf(qs[v])
        PROVE  rows'[p].state # "gone" /\ confirm'[p] = confirm[p]
    <3>1. p # d.item /\ p \in Ids /\ rows[p].state # "gone"
      BY <1>3, <2>1, <2>2
    <3>2. CASE rows' = Confirmed(d.item) /\ confirm' = confirm
      BY <1>1, <3>1, <3>2, DeletedStates DEF Confirmed
    <3>3. CASE rows' = rows /\ confirm' = Watched(d.item)
      BY <1>1, <3>1, <3>3 DEF Watched, TypeOK
    <3>4. QED BY <2>1, <3>2, <3>3
  <2>3. QED BY <1>4, <2>1, <2>2 DEF qs
<1>11. CASE \/ DrainEmpty(r) \/ DrainFault(r) \/ DrainPopFault(r) \/ DrainRefreshError(r)
            \/ DrainTail(r)
  <2>1. \E a : DrainExit(r, rows, queues, confirm, a)
    BY <1>11 DEF DrainEmpty, DrainFault, DrainPopFault, DrainRefreshError, DrainTail
  <2>2. drain'[r].pc \in {"none", "top"} /\ rows' = rows /\ queues' = queues /\ confirm' = confirm
    BY <1>5, <2>1
  <2>3. QED BY <1>3, <1>4, <2>2 DEF qs
<1>12. CASE \/ DrainBusy(r) \/ DrainNoSlot(r) \/ DrainNotMarked(r) \/ DrainLook(r)
            \/ DrainNative(r) \/ DrainAcquire(r) \/ DrainSubmit(r)
  <2>1. queues' = queues /\ confirm' = confirm
    BY <1>12 DEF DrainBusy, DrainNoSlot, DrainNotMarked, DrainLook, DrainNative, DrainAcquire,
       DrainSubmit
  <2>2. drain'[r].pc \notin {"lost", "refused", "refresh"}
    <3>1. CASE DrainBusy(r) \/ DrainNoSlot(r) \/ DrainNotMarked(r)
      BY <1>6, <3>1 DEF DrainBusy, DrainNoSlot, DrainNotMarked
    <3>2. CASE DrainLook(r)
      BY <1>1, <1>2, <3>2 DEF DrainLook, TypeOK, Drain, d
    <3>3. CASE DrainNative(r) \/ DrainAcquire(r)
      BY <1>1, <1>2, <3>3 DEF DrainNative, DrainAcquire, TypeOK, Drain, d
    <3>4. CASE DrainSubmit(r)
      BY <1>1, <1>2, <3>4 DEF DrainSubmit, TypeOK, Drain, d
    <3>5. QED BY <1>12, <3>1, <3>2, <3>3, <3>4
  <2>3. \A p \in Ids : rows[p].state # "gone" => rows'[p].state # "gone"
    <3>1. CASE rows' = rows
      BY <3>1
    <3>2. CASE \E h : rows' = [rows EXCEPT ![h].mode = "turn"]
      BY <1>1, <3>2 DEF TypeOK, Row
    <3>3. CASE \E h : rows' = Marked(h)
      BY <1>1, <3>3 DEF Marked, TypeOK, Row
    <3>4. QED BY <1>12, <3>1, <3>2, <3>3 DEF DrainBusy, DrainNoSlot, DrainNotMarked, DrainLook,
       DrainNative, DrainAcquire, DrainSubmit
  <2>4. QED BY <1>3, <1>4, <2>1, <2>2, <2>3 DEF qs
<1>13. ~DrainLost(r) /\ ~DrainDrop(r)
  BY <1>2 DEF DrainLost, DrainDrop, d
<1>14. QED
  BY <1>7, <1>8, <1>9, <1>10, <1>11, <1>12, <1>13 DEF DrainStep

\* The deques of a topic after its handler's step: empty, or as before, or with the
\* prompt that was just accepted.
LEMMA HandlerQueues ==
    ASSUME CustodyInv, NEW r \in Routes, HandlerStep(r)
    PROVE  \/ \A v \in Windows : queues'[r][v] = <<>>
           \/ queues' = queues
           \/ \E w \in Windows : Enqueue(r, w) /\ confirm' = confirm
<1>1. TypeOK
  BY DEF CustodyInv, SendInv
<1>2. CASE QueueBehind(r) \/ SendDirect(r)
  BY <1>1, <1>2 DEF QueueBehind, SendDirect, TypeOK
<1>3. CASE DirectUnavailable(r) \/ DirectSent(r) \/ DirectSendFailed(r) \/ DirectSendError(r)
  BY <1>3, DirectEmpties
<1>4. CASE DiscardFinish(r)
  BY <1>1, <1>4 DEF DiscardFinish, TypeOK
<1>5. CASE RefuseFull(r) \/ SendNative(r) \/ DirectDefer(r) \/ DirectAcquire(r) \/ DirectSubmit(r)
           \/ DirectPopFault(r) \/ NativeSubmit(r) \/ NativeFailed(r) \/ NativeSent(r)
           \/ DiscardStart(r)
  BY <1>5 DEF RefuseFull, SendNative, DirectDefer, DirectAcquire, DirectSubmit, DirectPopFault,
     NativeSubmit, NativeFailed, NativeSent, DiscardStart
<1>6. QED BY <1>2, <1>3, <1>4, <1>5 DEF HandlerStep, DirectStep, NativeStep

LEMMA HandlerKeepsClean ==
    ASSUME CleanInv, NEW r \in Routes, HandlerStep(r)
    PROVE  Clean(r)'
<1> DEFINE d == drain[r]
           s == sender[r]
           qs == queues[r]
<1>1. TypeOK /\ CustodyInv /\ SenderOk(r, s, qs, rows, phase) /\ Clean(r) /\ SendInv
  BY DEF CleanInv, ConfirmInv, CustodyInv, SendInv, Custody, TopicOk
<1>2. drain'[r].pc \notin {"lost", "refused"}
  <2>1. CASE DiscardFinish(r)
    <3>1. PICK e \in NewDrains : drain' = [drain EXCEPT ![r] = Orphaned(e, Cancelled(r).queues, r)]
      BY <2>1, SuccessorsFresh DEF DiscardFinish, NewDrains
    <3>2. Orphaned(e, Cancelled(r).queues, r).pc \in {"none", "capture"}
      BY OrphanedPc
    <3>3. QED BY <1>1, <3>1, <3>2 DEF TypeOK
  <2>2. CASE ~DiscardFinish(r)
    BY <1>1, <2>2, HandlerLeavesDrain, FreshPc DEF Clean, CleanOk
  <2>3. QED BY <2>1, <2>2
<1>3. CASE \A v \in Windows : queues'[r][v] = <<>>
  BY <1>2, <1>3, EmptyQueue DEF Clean, CleanOk
<1>4. CASE \E v \in Windows : queues'[r][v] # <<>>
  <2>1. queues' = queues \/ (\E w \in Windows : Enqueue(r, w) /\ confirm' = confirm)
    BY <1>1, <1>4, HandlerQueues
  <2>2. ~DiscardFinish(r) /\ ~NativeFailed(r) /\ ~NativeSent(r)
    <3>1. ~DiscardFinish(r)
      BY <1>1, <1>4 DEF DiscardFinish, TypeOK
    <3>2. ~NativeFailed(r) /\ ~NativeSent(r)
      BY <1>1, <1>4 DEF NativeFailed, NativeSent, Holds, SenderOk
    <3>3. QED BY <3>1, <3>2
  <2>3. ~DirectUnavailable(r) /\ ~DirectSent(r) /\ ~DirectSendFailed(r) /\ ~DirectSendError(r)
    BY <1>1, <1>4, DirectEmpties
  <2>4. ASSUME NEW v \in Windows, NEW p \in IdsOf(qs[v])
        PROVE  /\ p \in Ids /\ rows[p].state \in {"queued", "submitted"} /\ confirm[p] = "none"
               /\ ~(d.pc = "refresh" /\ d.item = p)
    BY <1>1, <2>4, QueuedBelongs DEF Clean, CleanOk
  <2>5. ASSUME NEW p \in Ids, rows[p].state \in {"queued", "submitted"}
        PROVE  rows'[p].state \in {"queued", "submitted"}
    <3>1. \/ rows' = rows
          \/ \E h : rows' = Marked(h)
          \/ \E t \in Routes, u \in Windows, m \in Modes : rows' = Inserted(t, u, m)
      <4>1. binding[r] # None => binding[r] \in Windows
        BY <1>1 DEF TypeOK
      <4>2. QED BY <2>2, <2>3, <4>1 DEF HandlerStep, QueueBehind, RefuseFull, SendDirect, SendNative,
         Enqueue, DirectStep, DirectDefer, DirectAcquire, DirectSubmit, DirectPopFault,
         NativeStep, NativeSubmit, DiscardStart, Modes
    <3>2. CASE \E h : rows' = Marked(h)
      BY <1>1, <2>5, <3>2 DEF Marked, TypeOK, Row
    <3>3. CASE \E t \in Routes, u \in Windows, m \in Modes : rows' = Inserted(t, u, m)
      BY <1>1, <2>5, <3>3 DEF Inserted, TypeOK
    <3>4. QED BY <2>5, <3>1, <3>2, <3>3
  <2>6. \A p \in Ids : confirm[p] = "none" => confirm'[p] = "none"
    BY <1>1, <2>2, <2>3 DEF HandlerStep, QueueBehind, RefuseFull, SendDirect, SendNative,
       DirectStep, DirectDefer, DirectAcquire, DirectSubmit, DirectPopFault,
       NativeStep, NativeSubmit, DiscardStart
  <2>7. \A p : ~(d.pc = "refresh" /\ d.item = p) => ~(drain'[r].pc = "refresh" /\ drain'[r].item = p)
    BY <1>1, <2>2, HandlerLeavesDrain, FreshPc
  <2> SUFFICES ASSUME NEW v \in Windows, NEW p \in IdsOf(queues'[r][v])
               PROVE  rows'[p].state \in {"queued", "submitted"} /\ confirm'[p] = "none"
                      /\ ~(drain'[r].pc = "refresh" /\ drain'[r].item = p)
    BY <1>2 DEF Clean, CleanOk
  <2>8. CASE p \in IdsOf(qs[v])
    BY <2>4, <2>5, <2>6, <2>7, <2>8
  <2>9. CASE p \notin IdsOf(qs[v])
    <3>1. PICK w \in Windows : Enqueue(r, w) /\ confirm' = confirm
      BY <2>1, <2>9
    <3>2. p = nextId /\ nextId \in Ids
      <4>1. nextId \in Ids /\ queues'[r] = [qs EXCEPT ![w] = Append(@, nextId)]
            /\ qs \in [Windows -> Seq(Ids)]
        BY <1>1, <3>1, EnqueueType DEF Enqueue, TypeOK
      <4>2. IdsOf(Append(qs[w], nextId)) = IdsOf(qs[w]) \cup {nextId}
        BY <4>1, AppendToQueue
      <4>3. QED BY <2>9, <4>1, <4>2
    <3>3. rows'[p].state = "queued" /\ rows[p].state = "new"
      <4>1. rows' = Inserted(r, w, "turn") /\ p \in Nat
        BY <3>1, <3>2, IdsAreNats DEF Enqueue
      <4>2. QED BY <1>1, <3>2, <4>1 DEF Inserted, TypeOK, SendInv, FreshIds
    <3>4. confirm'[p] = "none"
      <4>1. confirm' = confirm /\ ConfirmOk(p)
        BY <3>1, <3>2 DEF CleanInv, ConfirmInv
      <4>2. QED BY <3>3, <4>1 DEF ConfirmOk
    <3>5. ~(d.pc = "refresh" /\ d.item = p)
      <4>1. ItemOk(r, d, qs, rows)
        BY <1>1 DEF CustodyInv, Custody, TopicOk, DrainOk
      <4>2. QED BY <3>3, <4>1 DEF ItemOk, Belongs
    <3>6. QED BY <2>7, <3>3, <3>4, <3>5
  <2>10. QED BY <2>8, <2>9
<1>5. QED BY <1>3, <1>4

LEMMA CleanStep ==
    ASSUME "agent_failure" \notin Events, CleanInv, [Next]_vars
    PROVE  CleanInv'
<1>1. ConfirmInv /\ ConfirmInv' /\ CustodyInv /\ TypeOK /\ TypeOK'
  BY ConfirmStep DEF CleanInv, ConfirmInv, CustodyInv, SendInv
<1>2. SUFFICES ASSUME NEW t \in Routes PROVE Clean(t)'
  BY <1>1 DEF CleanInv
<1>3. Clean(t)
  BY DEF CleanInv
<1>4. ASSUME NEW v \in Windows, NEW p \in IdsOf(queues[t][v])
      PROVE  /\ p \in Ids /\ Stored(p) /\ confirm[p] = "none" /\ rows[p].route = t
             /\ ~(drain[t].pc = "refresh" /\ drain[t].item = p)
  BY <1>1, <1>3, <1>4, QueuedBelongs DEF Clean, CleanOk, Stored, Belongs
<1>5. ASSUME NEW r \in Routes, DrainStep(r) \/ HandlerStep(r) PROVE Clean(t)'
  <2>1. CASE t = r
    BY <1>5, <2>1, DrainKeepsClean, HandlerKeepsClean
  <2>2. CASE t # r
    <3>1. StepOf(r) /\ queues'[t] = queues[t] /\ drain'[t] = drain[t]
      BY <1>1, <1>5, <2>2, DrainKeepsCustody, HandlerKeepsCustody DEF StepOf
    <3>2. ASSUME NEW v \in Windows, NEW p \in IdsOf(queues[t][v])
          PROVE  rows'[p].state \in {"queued", "submitted"} /\ confirm'[p] = "none"
      <4>1. p \in Ids /\ Stored(p) /\ confirm[p] = "none" /\ rows[p].route # r
        BY <1>4, <2>2, <3>2
      <4>2. QED BY <1>1, <1>5, <4>1, ForgetsOwn, DrainConfirms, HandlerConfirms
    <3>3. QED BY <1>3, <3>1, <3>2 DEF Clean, CleanOk
  <2>3. QED BY <2>1, <2>2
<1>6. ASSUME NEW q \in Ids, ConfirmationStep(q) PROVE Clean(t)'
  <2>1. queues' = queues /\ (drain'[t] = drain[t] \/ drain'[t] \in NewDrains)
    BY <1>1, <1>6, ConfirmationKeepsCustody DEF NewDrains
  <2>2. /\ rows' \in {rows, Confirmed(q)} /\ confirm[q] # "none"
        /\ \A p \in Ids : p # q => confirm'[p] = confirm[p]
    BY <1>1, <1>6 DEF ConfirmationStep, ConfirmationSeen, ConfirmationRetire, ConfirmationNotified,
       ConfirmationExit, TypeOK
  <2>3. ASSUME NEW v \in Windows, NEW p \in IdsOf(queues[t][v])
        PROVE  rows'[p].state \in {"queued", "submitted"} /\ confirm'[p] = "none"
    <3>1. p \in Ids /\ Stored(p) /\ p # q /\ confirm'[p] = "none"
      BY <1>4, <2>2, <2>3
    <3>2. QED BY <1>1, <2>2, <3>1, DeletedStates DEF Confirmed, Stored
  <2>4. QED BY <1>3, <2>1, <2>3, FreshPc DEF Clean, CleanOk
<1>7. CASE Stop \/ Crash
  <2>1. \A v \in Windows : queues'[t][v] = <<>>
    BY <1>7 DEF Stop, Crash
  <2>2. drain'[t].pc \in {"none", "capture"}
    <3>1. CASE Crash
      BY <3>1 DEF Crash, NoDrain
    <3>2. CASE Stop
      <4>1. PICK e, qs : e \in NewDrains /\ drain'[t] = Orphaned(e, qs, t)
        BY <3>2 DEF Stop, NewDrains
      <4>2. QED BY <4>1, OrphanedPc
    <3>3. QED BY <1>7, <3>1, <3>2
  <2>3. QED BY <2>1, <2>2, EmptyQueue DEF Clean, CleanOk
<1>8. CASE Restore
  <2> DEFINE target(p) == IF binding[rows[p].route] # None THEN binding[rows[p].route]
                          ELSE rows[p].win
             rws == [p \in Ids |-> IF rows[p].state = "queued"
                                   THEN [rows[p] EXCEPT !.win = target(p)] ELSE rows[p]]
             held(r, w) == {p \in Ids : rws[p].state = "queued" /\ rws[p].route = r
                                                               /\ rws[p].win = w}
  <2>1. /\ rows' = rws /\ confirm' = [p \in Ids |-> IF rows[p].state = "submitted" THEN "probe"
                                                   ELSE "none"]
        /\ \A r \in Routes, w \in Windows : IdsOf(queues'[r][w]) = held(r, w)
        /\ drain'[t] \in NewDrains
    BY <1>8 DEF Restore, NewDrains
  <2>2. \A p \in Ids : rws[p].state = rows[p].state
    BY <1>1 DEF TypeOK, Row
  <2> HIDE DEF rws
  <2>3. ASSUME NEW v \in Windows, NEW p \in IdsOf(queues'[t][v])
        PROVE  rows'[p].state = "queued" /\ confirm'[p] = "none"
    BY <2>1, <2>2, <2>3
  <2>4. QED BY <2>1, <2>3, FreshPc DEF Clean, CleanOk
<1>9. CASE (\E r \in Routes : Rebind(r)) \/ UNCHANGED vars
  BY <1>3, <1>9 DEF Rebind, vars, memory, Clean
<1>10. QED BY <1>5, <1>6, <1>7, <1>8, <1>9 DEF Next

\* As long as no window is lost (agent_failure), no deque holds a prompt that the spool
\* has forgotten: whoever deletes a row has taken it out of its deque before
\* (_drop_expired_agent_input, _discard_queued_agent_input, confirm_agent_input).
THEOREM HeldIsInSpool ==
    ASSUME "agent_failure" \notin Events
    PROVE  Spec => []HeldIsStored
<1>1. Init => CleanInv
  <2> SUFFICES ASSUME Init PROVE CleanInv
    OBVIOUS
  <2>1. ConfirmInv
    BY CustodyInit DEF Init, ConfirmInv, ConfirmOk
  <2>2. ASSUME NEW r \in Routes PROVE Clean(r)
    <3>1. drain[r].pc = "none" /\ \A v \in Windows : queues[r][v] = <<>>
      BY DEF Init, NoDrain
    <3>2. QED BY <3>1, EmptyQueue DEF Clean, CleanOk
  <2>3. QED BY <2>1, <2>2 DEF CleanInv
<1>2. CleanInv /\ [Next]_vars => CleanInv'
  BY CleanStep
<1>3. CleanInv => HeldIsStored
  BY DEF CleanInv, Clean, CleanOk, HeldIsStored, Stored
<1>4. QED BY <1>1, <1>2, <1>3, PTL DEF Spec

-------------------------------------------------------------------------------
(* Slots are reserved only by dispatches that are under way.                *)

\* The drain, the holder of the lock, of r that dispatches to w.
DrainUses(r, w) == drain[r].pc \in {"baseline", "send"} /\ drain[r].win = w
SenderUses(r, w) == sender[r].pc \in {"baseline", "send"} /\ sender[r].win = w

\* Without discards no drain is cancelled while the bot runs; a process that is down
\* has reserved nothing.
ReservedInv ==
    /\ CustodyInv
    /\ ReservationIsUsed
    /\ \A r \in Routes : ~Holds(r, "discard")
    /\ phase = "down" => adm.reserved = {}

\* What the controller's operations reserve.
LEMMA Reserves ==
    ASSUME NEW a \in Controller, NEW w \in Windows
    PROVE  /\ Acquire(a, w).reserved \subseteq a.reserved \cup {w}
           /\ MarkSubmitted(a, w).reserved = a.reserved \ {w}
           /\ Release(a, w).reserved = a.reserved \ {w}
           /\ ObserveActive(a, w).reserved = a.reserved
           /\ ObserveInactive(a, w).reserved = a.reserved
           /\ Forget(a, w).reserved = a.reserved \ {w}
           /\ SetPending(a, w).reserved = a.reserved
           /\ ClearPending(a, w).reserved = a.reserved
BY DEF Controller, Acquire, MarkSubmitted, Release, ObserveActive, ObserveInactive,
       Forget, SetPending, ClearPending

LEMMA ExitReserves ==
    ASSUME TypeOK, NEW r \in Routes, drain[r].pc # "none", NEW rws, NEW qs, NEW cfm,
           NEW a \in Controller, DrainExit(r, rws, qs, cfm, a)
    PROVE  adm'.reserved = a.reserved
<1>1. drain[r].win \in Windows
  BY DequeType
<1>2. QED BY <1>1, Reserves DEF DrainExit, PendingAfterDrain

\* A drain that leaves a dispatch gives the slot back.
LEMMA DrainReserves ==
    ASSUME TypeOK, NEW r \in Routes, DrainStep(r), NEW w \in adm'.reserved
    PROVE  DrainUses(r, w)' \/ (w \in adm.reserved /\ ~DrainUses(r, w))
<1> DEFINE d == drain[r]
           u == drain[r].win
<1>1. d \in Drain /\ d.pc # "none" /\ u \in Windows /\ adm \in Controller
  BY DrainRuns DEF TypeOK, Drain
<1>2. \A a \in Controller :
         /\ Acquire(a, u).reserved \subseteq a.reserved \cup {u}
         /\ MarkSubmitted(a, u).reserved = a.reserved \ {u}
         /\ Release(a, u).reserved = a.reserved \ {u}
         /\ ObserveActive(a, u).reserved = a.reserved
         /\ ObserveInactive(a, u).reserved = a.reserved
         /\ Forget(a, u).reserved = a.reserved \ {u}
         /\ ClearPending(a, u).reserved = a.reserved
         /\ MarkSubmitted(a, u) \in Controller /\ Release(a, u) \in Controller
         /\ ObserveInactive(a, u) \in Controller
         /\ Forget(a, u) \in Controller /\ ClearPending(a, u) \in Controller
  BY <1>1, Reserves, ControllerOps
<1> HIDE DEF u
<1>3. CASE DrainAcquire(r)
  <2>1. d.pc = "capture" /\ adm' = Acquire(ObserveInactive(adm, u), u)
    BY <1>3, IdsAreNats DEF DrainAcquire, DrainHead, Drains, u
  <2>2. drain'[r].pc = "baseline" /\ drain'[r].win = u
    BY <1>1, <1>3 DEF DrainAcquire, TypeOK, Drain, u
  <2>3. QED BY <1>1, <1>2, <2>1, <2>2 DEF DrainUses
<1>4. CASE DrainSubmit(r)
  BY <1>1, <1>4 DEF DrainSubmit, DrainUses, TypeOK, Drain
<1>5. CASE DrainNotMarked(r)
  BY <1>1, <1>2, <1>5 DEF DrainNotMarked, Drains, DrainUses, u
<1>6. CASE DrainSent(r) \/ DrainSendFailed(r) \/ DrainNativeSent(r)
  BY <1>1, <1>2, <1>6 DEF DrainSent, DrainSendFailed, DrainNativeSent, Drains, DrainUses, u
<1>7. CASE DrainPopFault(r)
  <2>1. PICK a \in IF Drains(r, "nsend") THEN {adm} ELSE {MarkSubmitted(adm, u), Release(adm, u)} :
            DrainExit(r, rows, queues, confirm, a)
    BY <1>7 DEF DrainPopFault, u
  <2>2. adm'.reserved = a.reserved
    BY <1>1, <1>2, <2>1, ExitReserves
  <2>3. QED BY <1>1, <1>2, <1>7, <2>1, <2>2 DEF DrainPopFault, Drains, DrainUses, u
<1>8. CASE DrainSendError(r)
  <2>1. adm'.reserved = SendAborted(r).adm.reserved
    BY <1>1, <1>8, AbortedType, ExitReserves DEF DrainSendError
  <2>2. QED BY <1>1, <1>2, <1>8, <2>1 DEF DrainSendError, SendAborted, Drains, DrainUses, u
<1>9. CASE DrainDrop(r)
  <2> DEFINE a == IF Drains(r, "lost") THEN Forget(adm, u) ELSE ClearPending(adm, u)
  <2>1. a \in Controller /\ a.reserved \subseteq adm.reserved
    BY <1>1, <1>2
  <2>2. adm'.reserved = a.reserved
    BY <1>1, <1>9, <2>1, ExitReserves DEF DrainDrop, u
  <2>3. QED BY <1>9, <2>1, <2>2 DEF DrainDrop, DrainUses
<1>10. CASE DrainEmpty(r) \/ DrainFault(r) \/ DrainRefreshError(r) \/ DrainTail(r)
  <2>1. DrainExit(r, rows, queues, confirm, adm) /\ d.pc \notin {"baseline", "send"}
    BY <1>10 DEF DrainEmpty, DrainFault, DrainRefreshError, DrainTail, Drains
  <2>2. QED BY <1>1, <2>1, ExitReserves DEF DrainUses
<1>11. CASE \/ DrainLook(r) \/ DrainExpire(r) \/ DrainLost(r) \/ DrainBusy(r) \/ DrainNative(r)
            \/ DrainNoSlot(r) \/ DrainConfirmed(r) \/ DrainUnconfirmed(r)
  <2>1. adm'.reserved = adm.reserved /\ d.pc \notin {"baseline", "send"}
    BY <1>1, <1>2, <1>11, IdsAreNats DEF DrainLook, DrainExpire, DrainLost, DrainBusy, DrainNative,
       DrainNoSlot, DrainConfirmed, DrainUnconfirmed, DrainHead, Drains, u
  <2>2. QED BY <2>1 DEF DrainUses
<1>12. QED
  BY <1>3, <1>4, <1>5, <1>6, <1>7, <1>8, <1>9, <1>10, <1>11 DEF DrainStep

\* So does a handler that sends itself.
LEMMA HandlerReserves ==
    ASSUME TypeOK, NEW r \in Routes, HandlerStep(r), ~DiscardFinish(r), NEW w \in adm'.reserved
    PROVE  SenderUses(r, w)' \/ (w \in adm.reserved /\ ~SenderUses(r, w))
<1> DEFINE s == sender[r]
           u == sender[r].win
<1>1. s \in Sender /\ adm \in Controller /\ (s.pc \notin {"idle", "discard"} => u \in Windows)
  BY DEF TypeOK, Sender
<1>2. ASSUME u \in Windows
      PROVE  \A a \in Controller :
         /\ Acquire(a, u).reserved \subseteq a.reserved \cup {u}
         /\ MarkSubmitted(a, u).reserved = a.reserved \ {u}
         /\ Release(a, u).reserved = a.reserved \ {u}
         /\ ObserveActive(a, u).reserved = a.reserved
         /\ ObserveInactive(a, u).reserved = a.reserved
         /\ ClearPending(a, u).reserved = a.reserved
         /\ MarkSubmitted(a, u) \in Controller /\ Release(a, u) \in Controller
         /\ ObserveInactive(a, u) \in Controller
  BY <1>2, Reserves, ControllerOps
<1> HIDE DEF u
<1>3. CASE QueueBehind(r) \/ SendDirect(r)
  <2>1. binding[r] \in Windows /\ s.pc = "idle" /\ adm' = SetPending(adm, binding[r])
    BY <1>3 DEF QueueBehind, SendDirect, Enqueue, Free, TypeOK
  <2>2. QED BY <1>1, <2>1, Reserves DEF SenderUses
<1>4. CASE DirectAcquire(r)
  <2>1. s.pc = "capture" /\ adm' = Acquire(ObserveInactive(adm, u), u)
    BY <1>4 DEF DirectAcquire, Holds, u
  <2>2. sender'[r].pc = "baseline" /\ sender'[r].win = u
    BY <1>4, HoldIs DEF DirectAcquire, u
  <2>3. QED BY <1>1, <1>2, <2>1, <2>2 DEF SenderUses
<1>5. CASE DirectSubmit(r)
  <2>1. sender'[r].pc = "send" /\ sender'[r].win = u /\ adm' = adm
    BY <1>5, HoldIs DEF DirectSubmit, u
  <2>2. QED BY <2>1 DEF SenderUses, u
<1>6. CASE DirectDefer(r) \/ DirectUnavailable(r)
  <2>1. u \in Windows
    BY <1>1, <1>6 DEF DirectDefer, DirectUnavailable, Holds
  <2>2. QED BY <1>1, <1>2, <1>6, <2>1 DEF DirectDefer, DirectUnavailable, Holds, SenderUses, u
<1>7. CASE DirectSent(r) \/ DirectSendFailed(r) \/ DirectPopFault(r) \/ DirectSendError(r)
  <2>1. u \in Windows
    BY <1>1, <1>7 DEF DirectSent, DirectSendFailed, DirectPopFault, DirectSendError, Holds
  <2>2. \E a \in {MarkSubmitted(adm, u), Release(adm, u)} : adm' \in {a, ClearPending(a, u)}
    BY <1>7 DEF DirectSent, DirectSendFailed, DirectPopFault, DirectSendError, u
  <2>3. adm'.reserved = adm.reserved \ {u}
    BY <1>1, <1>2, <2>1, <2>2
  <2>4. QED BY <2>3 DEF SenderUses, u
<1>8. CASE RefuseFull(r) \/ SendNative(r) \/ NativeSubmit(r) \/ NativeFailed(r) \/ NativeSent(r)
           \/ DiscardStart(r)
  <2>1. adm' = adm /\ s.pc \notin {"baseline", "send"}
    BY <1>8 DEF RefuseFull, SendNative, NativeSubmit, NativeFailed, NativeSent, DiscardStart,
       Free, Holds
  <2>2. QED BY <2>1 DEF SenderUses
<1>9. QED
  BY <1>3, <1>4, <1>5, <1>6, <1>7, <1>8 DEF HandlerStep, DirectStep, NativeStep

LEMMA ReservedStep ==
    ASSUME "discard" \notin Events, ReservedInv, [Next]_vars
    PROVE  ReservedInv'
<1>1. TypeOK /\ CustodyInv /\ CustodyInv' /\ TypeOK'
  BY CustodyStep DEF ReservedInv, CustodyInv, SendInv
<1>2. \A t \in Routes, v \in Windows : DrainUses(t, v) \/ SenderUses(t, v) => v \in Dispatching
  BY DEF DrainUses, SenderUses, Dispatching
<1>3. \A v \in Dispatching : \E t \in Routes : DrainUses(t, v) \/ SenderUses(t, v)
  BY DEF DrainUses, SenderUses, Dispatching
<1>4. \A t \in Routes, v \in Windows : DrainUses(t, v)' \/ SenderUses(t, v)' => v \in Dispatching'
  BY DEF DrainUses, SenderUses, Dispatching
<1>5. ASSUME NEW r \in Routes, DrainStep(r) \/ HandlerStep(r) PROVE ReservedInv'
  <2>1. StepOf(r) /\ ~DiscardFinish(r)
    <3>1. StepOf(r)
      BY <1>1, <1>5, DrainKeepsCustody, HandlerKeepsCustody
    <3>2. QED BY <3>1 DEF ReservedInv, DiscardFinish
  <2>2. \A t \in Routes : ~Holds(t, "discard")'
    <3>1. CASE DrainStep(r)
      BY <3>1, DrainRuns DEF Settled, ReservedInv, Holds
    <3>2. CASE HandlerStep(r)
      <4>1. sender'[r].pc # "discard"
        <5>1. CASE QueueBehind(r) \/ RefuseFull(r)
          BY <5>1 DEF QueueBehind, RefuseFull, ReservedInv, Holds
        <5>2. CASE SendDirect(r) \/ SendNative(r) \/ DirectAcquire(r) \/ DirectSubmit(r)
                   \/ NativeSubmit(r)
          BY <1>1, <5>2, HoldIs DEF SendDirect, SendNative, DirectAcquire, DirectSubmit, NativeSubmit
        <5>3. CASE \/ DirectUnavailable(r) \/ DirectDefer(r) \/ DirectSent(r) \/ DirectSendFailed(r)
                   \/ DirectPopFault(r) \/ DirectSendError(r) \/ NativeFailed(r) \/ NativeSent(r)
          <6>1. Unlock(r)
            BY <5>3 DEF DirectUnavailable, DirectDefer, DirectSent, DirectSendFailed,
               DirectPopFault, DirectSendError, NativeFailed, NativeSent
          <6>2. QED BY <1>1, <6>1, UnlockIs DEF NoSender
        <5>4. ~DiscardStart(r)
          BY DEF DiscardStart
        <5>5. QED BY <2>1, <3>2, <5>1, <5>2, <5>3, <5>4 DEF HandlerStep, DirectStep, NativeStep
      <4>2. QED BY <2>1, <4>1 DEF StepOf, ReservedInv, Holds
    <3>3. QED BY <1>5, <3>1, <3>2
  <2>3. phase # "down"
    <3>1. CASE DrainStep(r)
      <4>1. drain[r].pc # "none"
        BY <3>1, DrainRuns
      <4>2. QED BY <1>1, <4>1 DEF CustodyInv, Custody, TopicOk, DrainOk
    <3>2. CASE HandlerStep(r)
      <4>1. phase = "up" \/ sender[r].pc # "idle"
        BY <3>2 DEF HandlerStep, QueueBehind, RefuseFull, SendDirect, SendNative, DirectStep,
           DirectUnavailable, DirectDefer, DirectAcquire, DirectSubmit, DirectSent,
           DirectSendFailed, DirectPopFault, DirectSendError, NativeStep, NativeSubmit,
           NativeFailed, NativeSent, DiscardStart, DiscardFinish, Free, Holds
      <4>2. QED BY <1>1, <4>1 DEF CustodyInv, Custody, TopicOk, SenderOk
    <3>3. QED BY <1>5, <3>1, <3>2
  <2>4. ASSUME phase = "up", NEW w \in adm'.reserved PROVE w \in Dispatching'
    <3>1. w \in Windows
      BY <1>1, <2>4 DEF TypeOK, Controller
    <3>2. CASE DrainStep(r)
      <4>1. CASE DrainUses(r, w)'
        BY <1>4, <3>1, <4>1
      <4>2. CASE w \in adm.reserved /\ ~DrainUses(r, w)
        <5>1. PICK t \in Routes : DrainUses(t, w) \/ SenderUses(t, w)
          BY <1>3, <2>4, <4>2 DEF ReservedInv, ReservationIsUsed
        <5>2. DrainUses(t, w)' \/ SenderUses(t, w)'
          BY <2>1, <3>2, <4>2, <5>1, DrainRuns DEF StepOf, Settled, DrainUses, SenderUses
        <5>3. QED BY <1>4, <3>1, <5>2
      <4>3. QED BY <1>1, <2>4, <3>2, <4>1, <4>2, DrainReserves
    <3>3. CASE HandlerStep(r)
      <4>1. CASE SenderUses(r, w)'
        BY <1>4, <3>1, <4>1
      <4>2. CASE w \in adm.reserved /\ ~SenderUses(r, w)
        <5>1. PICK t \in Routes : DrainUses(t, w) \/ SenderUses(t, w)
          BY <1>3, <2>4, <4>2 DEF ReservedInv, ReservationIsUsed
        <5>2. DrainUses(r, w) => DrainUses(r, w)'
          BY <1>1, <2>1, <3>3, HandlerLeavesDrain DEF DrainUses
        <5>3. DrainUses(t, w)' \/ SenderUses(t, w)'
          BY <2>1, <4>2, <5>1, <5>2 DEF StepOf, DrainUses, SenderUses
        <5>4. QED BY <1>4, <3>1, <5>3
      <4>3. QED BY <1>1, <2>1, <2>4, <3>3, <4>1, <4>2, HandlerReserves
    <3>4. QED BY <1>5, <3>2, <3>3
  <2>5. QED BY <1>1, <2>1, <2>2, <2>3, <2>4 DEF StepOf, ReservedInv, ReservationIsUsed
<1>6. ASSUME NEW q \in Ids, ConfirmationStep(q) PROVE ReservedInv'
  <2>1. /\ UNCHANGED <<sender, phase, adm>>
        /\ \A t \in Routes : drain'[t] # drain[t] => drain[t].pc = "none"
    BY <1>1, <1>6, ConfirmationKeepsCustody
  <2>2. Dispatching \subseteq Dispatching'
    BY <2>1 DEF Dispatching
  <2>3. QED BY <1>1, <2>1, <2>2 DEF ReservedInv, ReservationIsUsed, Holds
<1>7. CASE Stop
  BY <1>1, <1>7 DEF Stop, ReservedInv, ReservationIsUsed, Holds
<1>8. CASE Crash
  BY <1>1, <1>8 DEF Crash, ReservedInv, ReservationIsUsed, Holds, NoSender, EmptyController
<1>9. CASE Restore
  <2>1. phase = "down" /\ phase' = "up" /\ sender' = sender
    BY <1>9 DEF Restore
  <2>2. \E S : adm' = [adm EXCEPT !.pending = S]
    BY <1>9 DEF Restore
  <2>3. adm'.reserved = {}
    BY <1>1, <2>1, <2>2 DEF ReservedInv, TypeOK, Controller
  <2>4. QED BY <1>1, <2>1, <2>3 DEF ReservedInv, ReservationIsUsed, Holds
<1>10. CASE (\E r \in Routes : Rebind(r)) \/ UNCHANGED vars
  BY <1>1, <1>10 DEF Rebind, vars, memory, ReservedInv, ReservationIsUsed, Dispatching, Holds
<1>11. QED BY <1>5, <1>6, <1>7, <1>8, <1>9, <1>10 DEF Next

\* As long as nobody discards a queue, every reserved slot belongs to a dispatch that is
\* under way: every way out of _drain_agent_input_queue and _send_or_queue_agent_input
\* after try_acquire calls mark_submitted or release.
THEOREM ReservationsAreUsed ==
    ASSUME "discard" \notin Events
    PROVE  Spec => []ReservationIsUsed
<1>1. Init => ReservedInv
  BY CustodyInit DEF Init, ReservedInv, ReservationIsUsed, EmptyController, NoSender, Holds
<1>2. ReservedInv /\ [Next]_vars => ReservedInv'
  BY ReservedStep
<1>3. ReservedInv => ReservationIsUsed
  BY DEF ReservedInv
<1>4. QED BY <1>1, <1>2, <1>3, PTL DEF Spec

-------------------------------------------------------------------------------
(* Every topic keeps to its window.                                         *)

\* All that a topic has is of the window it is bound to, which no other topic has.
OwnWindow(r) ==
    /\ binding[r] \in Windows
    /\ \A t \in Routes : binding[t] = binding[r] => t = r
    /\ \A p \in Ids : rows[p].route = r /\ rows[p].state # "new" => rows[p].win = binding[r]
    /\ drain[r].pc # "none" => drain[r].win = binding[r]

OwnInv == CustodyInv /\ \A r \in Routes : OwnWindow(r)

\* A drain's finally block starts a drain for a deque that waits.
LEMMA SuccessorsWait ==
    ASSUME NEW rws, NEW qs, NEW cfm, NEW r, NEW w, NEW e \in Successors(rws, qs, cfm, r, w)
    PROVE  e = NoDrain \/ \E v \in Windows : e = NewDrain(v) /\ qs[r][v] # <<>>
BY DEF Successors, Ensured

LEMMA NewDrainAt ==
    /\ NoDrain.pc = "none"
    /\ \A v : NewDrain(v).win = v
BY DEF NewDrain, NoDrain

LEMMA PoppedWaits ==
    ASSUME TypeOK, NEW r \in Routes, drain[r].pc # "none", Deque(r) # <<>>,
           NEW v \in Windows, Popped(r)[r][v] # <<>>
    PROVE  queues[r][v] # <<>>
<1>1. drain[r].win \in Windows
  BY DequeType
<1>2. QED BY <1>1 DEF Popped, Deque, TypeOK

LEMMA CancelledWaits ==
    ASSUME TypeOK, NEW r \in Routes, NEW v \in Windows, Cancelled(r).queues[r][v] # <<>>
    PROVE  queues[r][v] # <<>>
<1>1. \/ Cancelled(r).queues = queues
      \/ Cancelled(r).queues = Popped(r) /\ Deque(r) # <<>> /\ drain[r].pc # "none"
  BY DEF Cancelled, SendAborted
<1>2. QED BY <1>1, PoppedWaits

\* A topic accepts prompts for the window it is bound to.
LEMMA AcceptsAtBinding ==
    ASSUME CustodyInv, NEW r \in Routes, HandlerStep(r), NEW p \in Ids,
           rows[p].state = "new", rows'[p].state # "new"
    PROVE  rows'[p].route = r /\ rows'[p].win = binding[r]
<1>1. TypeOK /\ SendInv
  BY DEF CustodyInv, SendInv
<1>2. CASE QueueBehind(r) \/ SendDirect(r) \/ SendNative(r)
  <2>1. PICK m : rows' = Inserted(r, binding[r], m)
    BY <1>2 DEF QueueBehind, SendDirect, SendNative, Enqueue
  <2>2. QED BY <1>1, <2>1 DEF Inserted, TypeOK
<1>3. CASE ~(QueueBehind(r) \/ SendDirect(r) \/ SendNative(r))
  <2>1. \/ rows' = rows
        \/ \E S : rows' = Deleted(S)
        \/ \E q : Markable(q) /\ rows' = Marked(q)
    BY <1>3 DEF HandlerStep, RefuseFull, DirectStep, DirectUnavailable, DirectDefer, DirectAcquire,
       DirectSubmit, DirectSent, DirectSendFailed, DirectPopFault, DirectSendError, NativeStep,
       NativeSubmit, NativeFailed, NativeSent, DiscardStart, DiscardFinish
  <2>2. rows'[p].state = "new"
    <3>1. CASE rows' = rows
      BY <3>1
    <3>2. CASE \E S : rows' = Deleted(S)
      BY <1>1, <3>2, DeletedStates DEF Stored
    <3>3. CASE \E q : Markable(q) /\ rows' = Marked(q)
      BY <1>1, <3>3 DEF Markable, Marked, TypeOK
    <3>4. QED BY <2>1, <3>1, <3>2, <3>3
  <2>3. QED BY <2>2
<1>4. QED BY <1>2, <1>3

\* A drain stays at its window until it ends.
LEMMA DrainStays ==
    ASSUME TypeOK, NEW r \in Routes, DrainStep(r), drain'[r].pc # "none"
    PROVE  \/ drain[r].pc # "none" /\ drain'[r].win = drain[r].win
           \/ drain'[r].win \in Windows /\ queues'[r][drain'[r].win] # <<>>
<1> DEFINE d == drain[r]
<1>1. d \in Drain
  BY DEF TypeOK
<1>2. CASE \/ DrainEmpty(r) \/ DrainDrop(r) \/ DrainFault(r) \/ DrainPopFault(r)
           \/ DrainSendError(r) \/ DrainRefreshError(r) \/ DrainTail(r)
  <2>1. PICK rws, qs, cfm, a : DrainExit(r, rws, qs, cfm, a)
    BY <1>2 DEF DrainEmpty, DrainDrop, DrainFault, DrainPopFault, DrainSendError,
       DrainRefreshError, DrainTail
  <2>2. PICK e \in Successors(rws, qs, cfm, r, d.win) : drain' = [drain EXCEPT ![r] = e]
    BY <2>1 DEF DrainExit
  <2>3. drain'[r] = e /\ queues' = qs
    BY <2>1, <2>2 DEF DrainExit, TypeOK
  <2>4. QED BY <2>3, SuccessorsWait, NewDrainAt
<1>3. CASE \/ DrainBusy(r) \/ DrainNoSlot(r) \/ DrainNotMarked(r) \/ DrainNativeSent(r)
           \/ DrainSendFailed(r) \/ DrainConfirmed(r)
  <2>1. DrainAgain(r) /\ d.pc # "none"
    BY <1>3 DEF DrainBusy, DrainNoSlot, DrainNotMarked, DrainNativeSent, DrainSendFailed,
       DrainConfirmed, DrainHead, Drains
  <2>2. QED BY <2>1, NewDrainAt DEF DrainAgain, TypeOK
<1>4. CASE \/ DrainLook(r) \/ DrainExpire(r) \/ DrainLost(r) \/ DrainNative(r) \/ DrainAcquire(r)
           \/ DrainSubmit(r) \/ DrainSent(r) \/ DrainUnconfirmed(r)
  <2>1. d.pc # "none"
    BY <1>4, IdsAreNats DEF DrainLook, DrainExpire, DrainLost, DrainNative, DrainAcquire,
       DrainSubmit, DrainSent, DrainUnconfirmed, DrainHead, Drains
  <2>2. drain'[r].win = d.win
    BY <1>1, <1>4 DEF DrainLook, DrainExpire, DrainLost, DrainNative, DrainAcquire,
       DrainSubmit, DrainSent, DrainUnconfirmed, TypeOK, Drain
  <2>3. QED BY <2>1, <2>2
<1>5. QED BY <1>2, <1>3, <1>4 DEF DrainStep

\* A handler starts a drain for the binding, and a discard for what it found waiting.
LEMMA HandlerStays ==
    ASSUME CustodyInv, NEW r \in Routes, HandlerStep(r), drain'[r].pc # "none"
    PROVE  \/ drain[r].pc # "none" /\ drain'[r].win = drain[r].win
           \/ drain'[r].win = binding[r]
           \/ sender[r].pc \notin {"idle", "discard"} /\ drain'[r].win = sender[r].win
           \/ drain'[r].win \in Windows /\ queues[r][drain'[r].win] # <<>>
<1>1. TypeOK /\ drain[r] \in Drain
  BY DEF CustodyInv, SendInv, TypeOK
<1>2. CASE DiscardFinish(r)
  <2> DEFINE x == Cancelled(r)
  <2>1. PICK e : /\ e = NoDrain \/ e \in Successors(rows, x.queues, x.confirm, r, drain[r].win)
                 /\ drain' = [drain EXCEPT ![r] = Orphaned(e, x.queues, r)]
    BY <1>2 DEF DiscardFinish
  <2>2. drain'[r] = Orphaned(e, x.queues, r)
    BY <1>1, <2>1 DEF TypeOK
  <2>3. e # NoDrain
    BY <2>2, NewDrainAt DEF Orphaned
  <2>4. PICK v \in Windows : e = NewDrain(v) /\ x.queues[r][v] # <<>>
    BY <2>1, <2>3, SuccessorsWait
  <2>5. Orphaned(NewDrain(v), x.queues, r).win = v
    BY DEF Orphaned, Looking, NewDrain, NoDrain
  <2>6. QED BY <1>1, <2>2, <2>4, <2>5, CancelledWaits
<1>3. CASE QueueBehind(r) \/ RefuseFull(r)
  <2>1. drain'[r] \in {drain[r], NewDrain(binding[r])}
    BY <1>1, <1>3 DEF QueueBehind, RefuseFull, EnsureDrain, Ensured, TypeOK
  <2>2. QED BY <2>1, NewDrainAt
<1>4. CASE DirectDefer(r)
  <2>1. drain'[r] \in {drain[r], NewDrain(sender[r].win)} /\ sender[r].pc \notin {"idle", "discard"}
    BY <1>1, <1>4 DEF DirectDefer, EnsureDrain, Ensured, TypeOK, Holds
  <2>2. QED BY <2>1, NewDrainAt
<1>5. CASE DiscardStart(r)
  <2>1. CASE drain' = drain
    BY <1>1, <2>1
  <2>2. ASSUME NEW v \in Windows, queues[r][v] # <<>>, drain' = [drain EXCEPT ![r] = NewDrain(v)]
        PROVE  drain'[r].win = v
    BY <1>1, <2>2, NewDrainAt DEF TypeOK
  <2>3. QED BY <1>1, <1>5, <2>1, <2>2, DiscardWakes
<1>6. CASE ~(DiscardFinish(r) \/ QueueBehind(r) \/ RefuseFull(r) \/ DirectDefer(r) \/ DiscardStart(r))
  <2>1. drain' = drain \/ \E q : drain' = [drain EXCEPT ![r] = Detached(r, q)]
    BY <1>6 DEF HandlerStep, SendDirect, SendNative, DirectStep, DirectUnavailable,
       DirectAcquire, DirectSubmit, DirectSent, DirectSendFailed, DirectPopFault,
       DirectSendError, NativeStep, NativeSubmit, NativeFailed, NativeSent
  <2>2. \A q : Detached(r, q).pc = drain[r].pc /\ Detached(r, q).win = drain[r].win
    BY <1>1 DEF Detached, Drain
  <2>3. QED BY <1>1, <2>1, <2>2 DEF TypeOK
<1>7. QED BY <1>2, <1>3, <1>4, <1>5, <1>6

LEMMA BindingStays ==
    ASSUME "rebind" \notin Events, [Next]_vars
    PROVE  binding' = binding
<1>1. ASSUME NEW r \in Routes, DrainStep(r) PROVE binding' = binding
  BY <1>1, DrainRuns DEF Settled
<1>2. ASSUME NEW r \in Routes, HandlerStep(r) PROVE binding' = binding
  BY <1>2 DEF HandlerStep, QueueBehind, RefuseFull, SendDirect, SendNative, DirectStep,
     DirectUnavailable, DirectDefer, DirectAcquire, DirectSubmit, DirectSent, DirectSendFailed,
     DirectPopFault, DirectSendError, NativeStep, NativeSubmit, NativeFailed, NativeSent,
     DiscardStart, DiscardFinish, Elsewhere
<1>3. ASSUME NEW p \in Ids, ConfirmationStep(p) PROVE binding' = binding
  BY <1>3 DEF ConfirmationStep, ConfirmationSeen, ConfirmationRetire, ConfirmationNotified, Settled
<1>4. QED BY <1>1, <1>2, <1>3 DEF Next, Rebind, Stop, Crash, Restore, vars

LEMMA OwnStep ==
    ASSUME "rebind" \notin Events, OwnInv, [Next]_vars
    PROVE  OwnInv'
<1>1. CustodyInv /\ CustodyInv' /\ TypeOK /\ TypeOK' /\ binding' = binding
  BY CustodyStep, BindingStays DEF OwnInv, CustodyInv, SendInv
<1>2. SUFFICES ASSUME NEW t \in Routes PROVE OwnWindow(t)'
  BY <1>1 DEF OwnInv
<1>3. OwnWindow(t)
  BY DEF OwnInv
\* The deques of the topic, before and after, are of its window.
<1>4. ASSUME NEW v \in Windows, queues[t][v] # <<>> PROVE v = binding[t]
  <2>1. queues[t][v] \in Seq(Ids)
    BY <1>1 DEF TypeOK
  <2>2. Head(queues[t][v]) \in IdsOf(queues[t][v])
    BY <1>4, <2>1, TailOfQueue
  <2>3. QED BY <1>1, <1>3, <2>2, QueuedBelongs DEF Belongs, OwnWindow
<1>5. ASSUME NEW p \in Ids, rows'[p].route = t, rows'[p].state # "new"
      PROVE  rows'[p].win = binding[t]
  <2>1. CASE rows[p].state # "new" /\ Ages(rows, rows')
    BY <1>3, <1>5, <2>1 DEF Ages, OwnWindow
  <2>2. ASSUME NEW r \in Routes, DrainStep(r) \/ HandlerStep(r) PROVE rows'[p].win = binding[t]
    <3>1. Ages(rows, rows')
      BY <1>1, <2>2, DrainKeepsCustody, HandlerKeepsCustody DEF StepOf
    <3>2. CASE rows[p].state = "new" /\ DrainStep(r)
      <4>1. \A u : NoneNew(u, rows, rows')
        BY <1>1, <3>2, DrainStepRows
      <4>2. QED BY <1>5, <3>2, <4>1 DEF NoneNew
    <3>3. CASE rows[p].state = "new" /\ HandlerStep(r)
      BY <1>1, <1>5, <3>3, AcceptsAtBinding
    <3>4. QED BY <2>1, <2>2, <3>1, <3>2, <3>3
  <2>3. ASSUME NEW q \in Ids, ConfirmationStep(q) PROVE rows'[p].win = binding[t]
    BY <1>1, <1>5, <2>1, <2>3, ConfirmationKeepsCustody DEF NoneNew
  <2>4. CASE Restore
    <3> DEFINE target(x) == IF binding[rows[x].route] # None THEN binding[rows[x].route]
                            ELSE rows[x].win
    <3>1. rows' = [x \in Ids |-> IF rows[x].state = "queued"
                                 THEN [rows[x] EXCEPT !.win = target(x)] ELSE rows[x]]
      BY <2>4 DEF Restore
    <3> HIDE DEF target
    <3>2. /\ rows'[p].state = rows[p].state /\ rows'[p].route = rows[p].route
          /\ rows'[p].win \in {target(p), rows[p].win}
      BY <1>1, <3>1 DEF TypeOK, Row
    <3>3. QED BY <1>3, <1>5, <3>2, AgentInputQueueAssumption DEF OwnWindow, target
  <2>5. CASE (\E r \in Routes : Rebind(r)) \/ Stop \/ Crash \/ UNCHANGED vars
    BY <1>3, <1>5, <2>5 DEF Rebind, Stop, Crash, vars, OwnWindow
  <2>6. QED BY <2>2, <2>3, <2>4, <2>5 DEF Next
<1>6. ASSUME NEW v \in Windows, queues'[t][v] # <<>> PROVE v = binding[t]
  <2>1. queues'[t][v] \in Seq(Ids)
    BY <1>1 DEF TypeOK
  <2>2. Head(queues'[t][v]) \in IdsOf(queues'[t][v])
    BY <1>6, <2>1, TailOfQueue
  <2>3. \A p \in IdsOf(queues'[t][v]) : p \in Ids /\ Belongs(t, v, rows', p)
    <3>1. QueuesOk(t, queues'[t], rows', phase')
      BY <1>1 DEF CustodyInv, Custody, TopicOk
    <3>2. QED BY <2>1, <3>1, IdsOfType DEF QueuesOk
  <2>4. QED BY <1>5, <2>2, <2>3 DEF Belongs
<1>7. ASSUME drain'[t].pc # "none" PROVE drain'[t].win = binding[t]
  <2>1. CASE drain'[t] = drain[t]
    BY <1>3, <1>7, <2>1 DEF OwnWindow
  <2>2. ASSUME NEW r \in Routes, DrainStep(r) \/ HandlerStep(r) PROVE drain'[t].win = binding[t]
    <3>1. CASE t # r
      BY <1>1, <2>1, <2>2, <3>1, DrainKeepsCustody, HandlerKeepsCustody DEF StepOf
    <3>2. CASE t = r
      <4>1. sender[t].pc \notin {"idle", "discard"} => sender[t].win = binding[t]
        <5>1. SenderOk(t, sender[t], queues[t], rows, phase) /\ sender[t] \in Sender
          BY <1>1 DEF CustodyInv, Custody, TopicOk, TypeOK
        <5>2. QED BY <1>3, <5>1 DEF SenderOk, Belongs, Sender, OwnWindow
      <4>2. drain[t].pc # "none" => drain[t].win = binding[t]
        BY <1>3 DEF OwnWindow
      <4>3. CASE DrainStep(r)
        BY <1>1, <1>6, <1>7, <3>2, <4>2, <4>3, DrainStays
      <4>4. CASE HandlerStep(r)
        BY <1>1, <1>4, <1>7, <3>2, <4>1, <4>2, <4>4, HandlerStays
      <4>5. QED BY <2>2, <4>3, <4>4
    <3>3. QED BY <3>1, <3>2
  <2>3. ASSUME NEW q \in Ids, ConfirmationStep(q) PROVE drain'[t].win = binding[t]
    <3>1. CASE drain'[t] # drain[t]
      <4>1. drain'[t] \in {NewDrain(v) : v \in Windows} /\ queues[t][drain'[t].win] # <<>>
        BY <1>1, <2>3, <3>1, ConfirmationKeepsCustody
      <4>2. QED BY <1>4, <4>1, NewDrainAt
    <3>2. QED BY <2>1, <3>1
  <2>4. CASE Stop
    <3>1. PICK e, rws, qs, cfm, w :
             /\ e = NoDrain \/ e \in Successors(rws, qs, cfm, t, w)
             /\ drain'[t] = Orphaned(e, qs, t) /\ qs[t] = Cancelled(t).queues[t]
      <4> DEFINE qs == [r \in Routes |-> Cancelled(r).queues[r]]
                 cfm == [p \in Ids |->
                           IF \E r \in Routes : drain[r].pc \in {"send", "nsend"} /\ drain[r].item = p
                           THEN "probe" ELSE "none"]
      <4>1. PICK d : /\ \A r \in Routes : IF RouteHasDrain(r)
                                          THEN d[r] \in Successors(rows, qs, cfm, r, drain[r].win)
                                          ELSE d[r] = NoDrain
                     /\ drain' = [r \in Routes |-> Orphaned(d[r], qs, r)]
        BY <2>4 DEF Stop
      <4>2. qs[t] = Cancelled(t).queues[t]
        OBVIOUS
      <4> HIDE DEF qs, cfm
      <4>3. QED BY <4>1, <4>2
    <3>2. e # NoDrain
      BY <1>7, <3>1, NewDrainAt DEF Orphaned
    <3>3. PICK v \in Windows : e = NewDrain(v) /\ qs[t][v] # <<>>
      BY <3>1, <3>2, SuccessorsWait
    <3>4. Orphaned(NewDrain(v), qs, t).win = v
      BY DEF Orphaned, Looking, NewDrain, NoDrain
    <3>5. QED BY <1>1, <1>4, <3>1, <3>3, <3>4, CancelledWaits
  <2>5. CASE Crash
    BY <1>7, <2>5, NewDrainAt DEF Crash
  <2>6. CASE Restore
    <3>1. PICK S : /\ drain'[t] \in {NoDrain} \cup {NewDrain(w) : w \in Windows}
                   /\ IF S = {} THEN drain'[t] = NoDrain ELSE drain'[t].win \in S
                   /\ \A v \in S : v \in Windows /\ IdsOf(queues'[t][v]) # {}
      <4> DEFINE target(p) == IF binding[rows[p].route] # None THEN binding[rows[p].route]
                              ELSE rows[p].win
                 rws == [p \in Ids |-> IF rows[p].state = "queued"
                                       THEN [rows[p] EXCEPT !.win = target(p)] ELSE rows[p]]
                 cfm == [p \in Ids |-> IF rows[p].state = "submitted" THEN "probe" ELSE "none"]
                 held(r, w) == {p \in Ids : rws[p].state = "queued" /\ rws[p].route = r
                                                                   /\ rws[p].win = w}
                 started(r) == {u \in Windows : held(r, u) # {} /\ ~Blocked(rws, cfm, r, u)}
      <4>1. /\ \A w \in Windows : IdsOf(queues'[t][w]) = held(t, w)
            /\ drain'[t] \in {NoDrain} \cup {NewDrain(w) : w \in Windows}
            /\ IF started(t) = {} THEN drain'[t] = NoDrain ELSE drain'[t].win \in started(t)
        BY <2>6 DEF Restore
      <4> HIDE DEF held, rws, cfm
      <4>2. QED BY <4>1
    <3>2. drain'[t].win \in S
      BY <1>7, <3>1, NewDrainAt
    <3>3. queues'[t][drain'[t].win] # <<>>
      BY <3>1, <3>2, EmptyQueue
    <3>4. QED BY <1>6, <3>1, <3>2, <3>3
  <2>7. CASE (\E r \in Routes : Rebind(r)) \/ UNCHANGED vars
    BY <2>1, <2>7 DEF Rebind, vars, memory
  <2>8. QED BY <2>2, <2>3, <2>4, <2>5, <2>6, <2>7 DEF Next
<1>8. QED BY <1>1, <1>3, <1>5, <1>7 DEF OwnWindow

-------------------------------------------------------------------------------
(* A window with a queue is protected.                                      *)

\* Two topics that never share a window: there is one topic, or no binding changes.
NoSharing == "rebind" \notin Events \/ \A r, t \in Routes : r = t

\* A drain that has handed over a prompt of a deque that was taken from it has nothing
\* left to pop, so it does not take another deque's protection away.
SpentOwn(r) ==
    phase = "up" /\ ~drain[r].live /\ drain[r].pc \in {"send", "nsend"} => drain[r].own = <<>>

PendingInv ==
    /\ CleanInv
    /\ "rebind" \notin Events => OwnInv
    /\ PendingCoversQueue
    /\ \A r \in Routes : SpentOwn(r)

\* What the controller's operations leave protected.
LEMMA Protects ==
    ASSUME NEW a \in Controller, NEW w \in Windows
    PROVE  /\ Acquire(a, w).pending = a.pending
           /\ MarkSubmitted(a, w).pending = a.pending
           /\ Release(a, w).pending = a.pending
           /\ ObserveActive(a, w).pending = a.pending
           /\ ObserveInactive(a, w).pending = a.pending
           /\ SetPending(a, w).pending = a.pending \cup {w}
           /\ ClearPending(a, w).pending = a.pending \ {w}
BY DEF Controller, Acquire, MarkSubmitted, Release, ObserveActive, ObserveInactive,
       SetPending, ClearPending

\* What a topic's drain and the holder of its lock work on is of no other topic's deques.
LEMMA NothingShared ==
    ASSUME NoSharing, PendingInv, NEW r \in Routes, NEW t \in Routes \ {r}, NEW w \in Windows,
           queues[t][w] # <<>>
    PROVE  /\ queues[r][w] = <<>> /\ w # binding[r]
           /\ drain[r].pc # "none" => w # drain[r].win
           /\ sender[r].pc \notin {"idle", "discard"} => w # sender[r].win
<1>1. OwnInv
  BY DEF NoSharing, PendingInv
<1>2. CustodyInv /\ TypeOK /\ OwnWindow(r) /\ OwnWindow(t)
  BY <1>1 DEF OwnInv, CustodyInv, SendInv
<1>3. ASSUME NEW u \in Routes, queues[u][w] # <<>> PROVE w = binding[u]
  <2>1. queues[u][w] \in Seq(Ids)
    BY <1>2 DEF TypeOK
  <2>2. Head(queues[u][w]) \in IdsOf(queues[u][w])
    BY <1>3, <2>1, TailOfQueue
  <2>3. OwnWindow(u) /\ Belongs(u, w, rows, Head(queues[u][w])) /\ Head(queues[u][w]) \in Ids
    BY <1>1, <1>2, <2>2, QueuedBelongs DEF OwnInv
  <2>4. QED BY <2>3 DEF Belongs, OwnWindow
<1>4. w = binding[t] /\ w # binding[r] /\ queues[r][w] = <<>>
  <2>1. w = binding[t] /\ binding[r] # binding[t]
    BY <1>2, <1>3 DEF OwnWindow
  <2>2. QED BY <1>3, <2>1
<1>5. sender[r].pc \notin {"idle", "discard"} => sender[r].win = binding[r]
  <2>1. SenderOk(r, sender[r], queues[r], rows, phase) /\ sender[r] \in Sender
    BY <1>2 DEF CustodyInv, Custody, TopicOk, TypeOK
  <2>2. QED BY <1>2, <2>1 DEF SenderOk, Belongs, Sender, OwnWindow
<1>6. QED BY <1>2, <1>4, <1>5 DEF OwnWindow

LEMMA ExitProtects ==
    ASSUME TypeOK, NEW r \in Routes, drain[r].pc # "none", NEW rws, NEW qs, NEW cfm,
           NEW a \in Controller, a.pending = adm.pending, DrainExit(r, rws, qs, cfm, a)
    PROVE  /\ queues' = qs
           /\ \A v \in adm.pending \ adm'.pending : v = drain[r].win /\ qs[r][v] = <<>>
<1>1. drain[r].win \in Windows
  BY DequeType
<1>2. QED BY <1>1, Protects DEF DrainExit, PendingAfterDrain

\* A drain takes the protection of its window away only with its last prompt, and adds
\* to no deque.
LEMMA DrainProtects ==
    ASSUME PendingInv, phase = "up", NEW r \in Routes, DrainStep(r)
    PROVE  /\ \A v \in adm.pending \ adm'.pending : v = drain[r].win /\ queues'[r][v] = <<>>
           /\ \A v \in Windows : queues'[r][v] # <<>> => queues[r][v] # <<>>
<1> DEFINE d == drain[r]
           u == drain[r].win
           Goal == /\ \A v \in adm.pending \ adm'.pending : v = u /\ queues'[r][v] = <<>>
                   /\ \A v \in Windows : queues'[r][v] # <<>> => queues[r][v] # <<>>
<1>1. TypeOK /\ SpentOwn(r) /\ Clean(r)
  BY DEF PendingInv, CleanInv, ConfirmInv, CustodyInv, SendInv
<1>2. d \in Drain /\ d.pc # "none" /\ u \in Windows /\ adm \in Controller
      /\ d.pc \notin {"lost", "refused"}
  BY <1>1, DrainRuns DEF TypeOK, Drain, Clean, CleanOk
<1>3. \A a \in Controller :
         /\ Acquire(a, u).pending = a.pending /\ MarkSubmitted(a, u).pending = a.pending
         /\ Release(a, u).pending = a.pending /\ ObserveActive(a, u).pending = a.pending
         /\ ObserveInactive(a, u).pending = a.pending
         /\ ClearPending(a, u).pending = a.pending \ {u}
         /\ MarkSubmitted(a, u) \in Controller /\ Release(a, u) \in Controller
         /\ ObserveInactive(a, u) \in Controller
  BY <1>2, Protects, ControllerOps
\* A popleft of the last prompt empties the deque of the window.
<1>4. ASSUME Deque(r) # <<>>, Len(Deque(r)) = 1, d.live PROVE Popped(r)[r][u] = <<>>
  <2>1. Deque(r) \in Seq(Ids) /\ Deque(r) = queues[r][u]
    BY <1>1, <1>2, <1>4, DequeType DEF Deque
  <2>2. Tail(Deque(r)) = <<>>
    <3>1. Tail(Deque(r)) \in Seq(Ids) /\ Len(Tail(Deque(r))) = 0
      BY <1>4, <2>1, HeadTailProperties
    <3>2. QED BY <3>1, EmptySeq
  <2>3. QED BY <1>1, <1>2, <1>4, <2>1, <2>2 DEF Popped, TypeOK
<1>5. ASSUME Deque(r) # <<>> PROVE \A v \in Windows : Popped(r)[r][v] # <<>> => queues[r][v] # <<>>
  BY <1>1, <1>2, <1>5, PoppedWaits
<1> SUFFICES Goal
  OBVIOUS
<1> HIDE DEF d, u
<1>6. CASE DrainExpire(r)
  <2>1. PICK n \in 1..Len(queues[r][u]) :
            /\ queues' = [queues EXCEPT ![r][u] = SubSeq(queues[r][u], n + 1, Len(queues[r][u]))]
            /\ adm' = IF n = Len(queues[r][u]) THEN ClearPending(adm, u) ELSE adm
    BY <1>6 DEF DrainExpire, u
  <2>2. queues[r][u] \in Seq(Ids) /\ queues[r][u] # <<>>
    BY <1>1, <1>2, <2>1 DEF TypeOK
  <2>3. n = Len(queues[r][u]) => SubSeq(queues[r][u], n + 1, Len(queues[r][u])) = <<>>
    BY <2>1, <2>2
  <2>4. /\ \A v \in Windows \ {u} : queues'[r][v] = queues[r][v]
        /\ n = Len(queues[r][u]) => queues'[r][u] = <<>>
    BY <1>1, <1>2, <2>1, <2>3 DEF TypeOK
  <2>5. QED BY <1>2, <1>3, <2>1, <2>2, <2>4
<1>7. CASE DrainSent(r) \/ DrainNativeSent(r)
  <2>1. d.pc \in {"send", "nsend"} /\ Deque(r) # <<>> /\ queues' = Popped(r)
    BY <1>7 DEF DrainSent, DrainNativeSent, Drains, d
  <2>2. d.live
    BY <1>1, <2>1 DEF SpentOwn, Deque, d
  <2>3. \E a \in {adm, MarkSubmitted(adm, u)} :
           adm' = IF Len(Deque(r)) = 1 THEN ClearPending(a, u) ELSE a
    BY <1>7 DEF DrainSent, DrainNativeSent, u
  <2>4. \A v \in adm.pending \ adm'.pending : v = u /\ Len(Deque(r)) = 1
    BY <1>2, <1>3, <2>3
  <2>5. QED BY <1>4, <1>5, <2>1, <2>2, <2>4
<1>8. CASE DrainSendFailed(r)
  <2>1. Deque(r) # <<>> /\ queues' = Popped(r) /\ adm' \in {adm, Release(adm, u)}
    BY <1>8 DEF DrainSendFailed, u
  <2>2. QED BY <1>2, <1>3, <1>5, <2>1
<1>9. CASE DrainSendError(r)
  <2> DEFINE x == SendAborted(r)
  <2>1. DrainExit(r, rows, x.queues, x.confirm, x.adm) /\ x.adm \in {adm, Release(adm, u)}
        /\ (x.queues = queues \/ (x.queues = Popped(r) /\ Deque(r) # <<>>))
    BY <1>9 DEF DrainSendError, SendAborted, u
  <2>2. x.adm \in Controller /\ x.adm.pending = adm.pending
    BY <1>2, <1>3, <2>1
  <2>3. queues' = x.queues
        /\ \A v \in adm.pending \ adm'.pending : v = u /\ queues'[r][v] = <<>>
    BY <1>1, <1>2, <2>1, <2>2, ExitProtects DEF d, u
  <2>4. QED BY <1>5, <2>1, <2>3
<1>10. CASE DrainEmpty(r) \/ DrainFault(r) \/ DrainPopFault(r) \/ DrainRefreshError(r)
            \/ DrainTail(r)
  <2>1. PICK a \in {adm, MarkSubmitted(adm, u), Release(adm, u)} :
            DrainExit(r, rows, queues, confirm, a)
    BY <1>10 DEF DrainEmpty, DrainFault, DrainPopFault, DrainRefreshError, DrainTail, u
  <2>2. a \in Controller /\ a.pending = adm.pending
    BY <1>2, <1>3, <2>1
  <2>3. QED BY <1>1, <1>2, <2>1, <2>2, ExitProtects DEF d, u
<1>11. CASE \/ DrainLook(r) \/ DrainLost(r) \/ DrainBusy(r) \/ DrainNative(r) \/ DrainAcquire(r)
            \/ DrainNoSlot(r) \/ DrainSubmit(r) \/ DrainNotMarked(r) \/ DrainConfirmed(r)
            \/ DrainUnconfirmed(r)
  <2>1. queues' = queues
    BY <1>11 DEF DrainLook, DrainLost, DrainBusy, DrainNative, DrainAcquire, DrainNoSlot,
       DrainSubmit, DrainNotMarked, DrainConfirmed, DrainUnconfirmed
  <2>2. adm' \in {adm, Release(adm, u), ObserveActive(adm, u), ObserveInactive(adm, u),
                  Acquire(ObserveInactive(adm, u), u)}
    BY <1>11 DEF DrainLook, DrainLost, DrainBusy, DrainNative, DrainAcquire, DrainNoSlot,
       DrainSubmit, DrainNotMarked, DrainConfirmed, DrainUnconfirmed, u
  <2>3. adm'.pending = adm.pending
    BY <1>2, <1>3, <2>2
  <2>4. QED BY <2>1, <2>3
<1>12. ~DrainDrop(r)
  BY <1>2 DEF DrainDrop, d
<1>13. QED
  BY <1>6, <1>7, <1>8, <1>9, <1>10, <1>11, <1>12 DEF DrainStep

\* A handler takes the protection away of its topic's windows only, and only when it
\* leaves its topic no queue; it protects the window it queues for.
LEMMA HandlerProtects ==
    ASSUME PendingInv, NEW r \in Routes, HandlerStep(r)
    PROVE  /\ \A v \in adm.pending \ adm'.pending :
                 /\ \A w \in Windows : queues'[r][w] = <<>>
                 /\ \/ queues[r][v] # <<>> \/ v = binding[r]
                    \/ drain[r].pc # "none" /\ v = drain[r].win
                    \/ sender[r].pc \notin {"idle", "discard"} /\ v = sender[r].win
           /\ \A v \in Windows : queues'[r][v] # <<>> => queues[r][v] # <<>> \/ v \in adm'.pending
<1> DEFINE s == sender[r]
           u == sender[r].win
<1>1. TypeOK /\ CustodyInv /\ s \in Sender /\ adm \in Controller
      /\ (s.pc \notin {"idle", "discard"} => u \in Windows)
  BY DEF PendingInv, CleanInv, ConfirmInv, CustodyInv, SendInv, TypeOK, Sender
<1>2. ASSUME u \in Windows
      PROVE  \A a \in Controller :
         /\ Acquire(a, u).pending = a.pending /\ MarkSubmitted(a, u).pending = a.pending
         /\ Release(a, u).pending = a.pending /\ ObserveActive(a, u).pending = a.pending
         /\ ObserveInactive(a, u).pending = a.pending
         /\ ClearPending(a, u).pending = a.pending \ {u}
         /\ MarkSubmitted(a, u) \in Controller /\ Release(a, u) \in Controller
         /\ ObserveInactive(a, u) \in Controller
  BY <1>2, Protects, ControllerOps
<1> HIDE DEF s, u
<1>3. CASE QueueBehind(r) \/ SendDirect(r)
  <2>1. binding[r] \in Windows /\ Enqueue(r, binding[r])
    BY <1>1, <1>3 DEF QueueBehind, SendDirect, TypeOK
  <2>2. adm'.pending = adm.pending \cup {binding[r]}
    BY <1>1, <2>1, Protects DEF Enqueue
  <2>3. \A v \in Windows \ {binding[r]} : queues'[r][v] = queues[r][v]
    BY <1>1, <2>1 DEF Enqueue, TypeOK
  <2>4. QED BY <2>2, <2>3
<1>4. CASE DirectUnavailable(r) \/ DirectSent(r) \/ DirectSendFailed(r) \/ DirectSendError(r)
  <2>1. u \in Windows /\ s.pc \notin {"idle", "discard"}
    BY <1>1, <1>4 DEF DirectUnavailable, DirectSent, DirectSendFailed, DirectSendError, Holds, s
  <2>2. \E a \in {adm, MarkSubmitted(adm, u), Release(adm, u)} : adm' \in {a, ClearPending(a, u)}
    BY <1>4 DEF DirectUnavailable, DirectSent, DirectSendFailed, DirectSendError, u
  <2>3. \A v \in adm.pending \ adm'.pending : v = u
    BY <1>1, <1>2, <2>1, <2>2
  <2>4. QED BY <1>1, <1>4, <2>1, <2>3, DirectEmpties DEF s, u
<1>5. CASE DirectDefer(r) \/ DirectAcquire(r) \/ DirectPopFault(r)
  <2>1. u \in Windows /\ queues' = queues
    BY <1>1, <1>5 DEF DirectDefer, DirectAcquire, DirectPopFault, Holds, s
  <2>2. adm' \in {adm, MarkSubmitted(adm, u), Release(adm, u), ObserveActive(adm, u),
                  ObserveInactive(adm, u), Acquire(ObserveInactive(adm, u), u)}
    BY <1>5 DEF DirectDefer, DirectAcquire, DirectPopFault, u
  <2>3. adm'.pending = adm.pending
    BY <1>1, <1>2, <2>1, <2>2
  <2>4. QED BY <2>1, <2>3
<1>6. CASE DiscardFinish(r)
  <2> DEFINE x == Cancelled(r)
             keys == {w \in Windows : \/ queues[r][w] # <<>> \/ w = binding[r]
                                      \/ RouteHasDrain(r) /\ w = drain[r].win}
  <2>1. queues' = [queues EXCEPT ![r] = [w \in Windows |-> <<>>]]
        /\ adm' = [x.adm EXCEPT !.pending = @ \ keys]
    BY <1>6 DEF DiscardFinish
  <2>2. x.adm \in Controller /\ x.adm.pending = adm.pending
    <3>1. CASE drain[r].pc \in {"send", "nsend"}
      <4>1. drain[r].win \in Windows
        BY <1>1, <3>1, DequeType
      <4>2. x.adm \in {adm, Release(adm, drain[r].win)}
        BY <3>1 DEF Cancelled, SendAborted
      <4>3. Release(adm, drain[r].win) \in Controller
            /\ Release(adm, drain[r].win).pending = adm.pending
        BY <1>1, <4>1, Protects, ControllerOps
      <4>4. QED BY <1>1, <4>2, <4>3
    <3>2. CASE drain[r].pc \notin {"send", "nsend"}
      BY <1>1, <3>2 DEF Cancelled
    <3>3. QED BY <3>1, <3>2
  <2> HIDE DEF x, keys
  <2>3. adm'.pending = adm.pending \ keys
    BY <2>1, <2>2 DEF Controller
  <2>4. \A w \in Windows : queues'[r][w] = <<>>
    BY <1>1, <2>1 DEF TypeOK
  <2>5. QED BY <2>3, <2>4 DEF keys, RouteHasDrain
<1>7. CASE RefuseFull(r) \/ SendNative(r) \/ DirectSubmit(r) \/ NativeSubmit(r) \/ NativeFailed(r)
           \/ NativeSent(r) \/ DiscardStart(r)
  BY <1>7 DEF RefuseFull, SendNative, DirectSubmit, NativeSubmit, NativeFailed, NativeSent,
     DiscardStart
<1>8. QED BY <1>3, <1>4, <1>5, <1>6, <1>7 DEF HandlerStep, DirectStep, NativeStep

\* A drain is at a send of a deque that is no longer its own only if a handler emptied
\* that deque during the send.
LEMMA SpentStep ==
    ASSUME PendingInv, [Next]_vars, NEW t \in Routes
    PROVE  SpentOwn(t)'
<1>1. TypeOK /\ CustodyInv /\ CustodyInv' /\ TypeOK' /\ SpentOwn(t)
  BY CustodyStep DEF PendingInv, CleanInv, ConfirmInv, CustodyInv, SendInv
<1>2. CASE drain'[t] = drain[t] /\ phase' = phase
  BY <1>1, <1>2 DEF SpentOwn
<1>3. CASE drain'[t].live \/ drain'[t].pc \notin {"send", "nsend"} \/ phase' # "up"
  BY <1>3 DEF SpentOwn
<1>4. ASSUME drain'[t] \in NewDrains PROVE SpentOwn(t)'
  BY <1>3, <1>4, FreshPc
<1>5. ASSUME NEW r \in Routes, DrainStep(r) \/ HandlerStep(r), t # r PROVE SpentOwn(t)'
  BY <1>1, <1>2, <1>5, DrainKeepsCustody, HandlerKeepsCustody DEF StepOf
<1>6. CASE DrainStep(t)
  <2> DEFINE d == drain[t]
  <2>1. d \in Drain /\ phase' = phase
    BY <1>1, <1>6, DrainRuns DEF TypeOK, Settled
  <2>2. CASE DrainSubmit(t)
    <3>1. d.live \/ phase # "up"
      <4>1. OrphanOk(t, d, rows, phase)
        BY <1>1 DEF CustodyInv, Custody, TopicOk, DrainOk
      <4>2. d.pc \in {"baseline", "nbaseline"} /\ Waits(rows, d.item)
        BY <2>2 DEF DrainSubmit, Markable, Waits
      <4>3. QED BY <4>1, <4>2 DEF OrphanOk
    <3>2. drain'[t].live = d.live
      BY <1>1, <2>1, <2>2 DEF DrainSubmit, TypeOK, Drain
    <3>3. QED BY <1>3, <2>1, <3>1, <3>2
  <2>3. CASE \/ DrainEmpty(t) \/ DrainDrop(t) \/ DrainFault(t) \/ DrainPopFault(t)
             \/ DrainSendError(t) \/ DrainRefreshError(t) \/ DrainTail(t)
    <3>1. PICK rws, qs, cfm, a : DrainExit(t, rws, qs, cfm, a)
      BY <2>3 DEF DrainEmpty, DrainDrop, DrainFault, DrainPopFault, DrainSendError,
         DrainRefreshError, DrainTail
    <3>2. PICK e \in NewDrains : drain' = [drain EXCEPT ![t] = e]
      BY <3>1, SuccessorsFresh DEF DrainExit
    <3>3. QED BY <1>1, <1>4, <3>2 DEF TypeOK
  <2>4. CASE \/ DrainBusy(t) \/ DrainNoSlot(t) \/ DrainNotMarked(t) \/ DrainNativeSent(t)
             \/ DrainSendFailed(t) \/ DrainConfirmed(t)
    <3>1. DrainAgain(t)
      BY <2>4 DEF DrainBusy, DrainNoSlot, DrainNotMarked, DrainNativeSent, DrainSendFailed,
         DrainConfirmed
    <3>2. drain'[t].pc = "top"
      BY <1>1, <3>1 DEF DrainAgain, NewDrain, NoDrain, TypeOK
    <3>3. QED BY <1>3, <3>2
  <2>5. CASE DrainLook(t) \/ DrainExpire(t) \/ DrainLost(t) \/ DrainNative(t) \/ DrainAcquire(t)
             \/ DrainSent(t) \/ DrainUnconfirmed(t)
    <3>1. drain'[t].pc \notin {"send", "nsend"}
      BY <1>1, <2>1, <2>5 DEF DrainLook, DrainExpire, DrainLost, DrainNative, DrainAcquire,
         DrainSent, DrainUnconfirmed, Drains, TypeOK, Drain
    <3>2. QED BY <1>3, <3>1
  <2>6. QED BY <1>6, <2>2, <2>3, <2>4, <2>5 DEF DrainStep
<1>7. CASE HandlerStep(t)
  <2>1. drain[t] \in Drain /\ phase' = phase
    BY <1>1, <1>7, HandlerKeepsCustody DEF TypeOK, StepOf
  <2>2. CASE DiscardFinish(t)
    <3>1. PICK e, qs : e \in NewDrains /\ drain' = [drain EXCEPT ![t] = Orphaned(e, qs, t)]
      BY <2>2, SuccessorsFresh DEF DiscardFinish, NewDrains
    <3>2. drain'[t].pc \in {"none", "capture"}
      BY <1>1, <3>1, OrphanedPc DEF TypeOK
    <3>3. QED BY <1>3, <3>2
  <2>3. CASE DiscardStart(t)
    <3>1. drain' = drain \/ \E v \in Windows : drain' = [drain EXCEPT ![t] = NewDrain(v)]
      BY <1>1, <2>3, DiscardWakes
    <3>2. drain'[t] = drain[t] \/ drain'[t].pc = "top"
      BY <1>1, <3>1 DEF NewDrain, NoDrain, TypeOK
    <3>3. QED BY <1>2, <1>3, <2>1, <3>2 DEF SpentOwn
  <2>4. CASE ~DiscardFinish(t) /\ ~DiscardStart(t)
    <3>1. \/ drain' = drain
          \/ \E c, x, v : drain' = [drain EXCEPT ![t] = Ensured(@, x, c, t, v)]
          \/ \E q : drain' = [drain EXCEPT ![t] = Detached(t, q)]
      BY <1>7, <2>4 DEF HandlerStep, QueueBehind, RefuseFull, EnsureDrain, SendDirect, SendNative,
         DirectStep, DirectUnavailable, DirectDefer, DirectAcquire, DirectSubmit, DirectSent,
         DirectSendFailed, DirectPopFault, DirectSendError, NativeStep, NativeSubmit, NativeFailed,
         NativeSent
    <3>2. ASSUME NEW q PROVE Detached(t, q) = drain[t] \/ Detached(t, q).own = <<>>
      BY <2>1 DEF Detached, Drain
    <3>3. \A c, x, v : Ensured(drain[t], x, c, t, v) = drain[t]
                       \/ Ensured(drain[t], x, c, t, v).pc = "top"
      BY DEF Ensured, NewDrain, NoDrain
    <3>4. drain'[t] = drain[t] \/ drain'[t].pc = "top" \/ drain'[t].own = <<>>
      BY <1>1, <3>1, <3>2, <3>3 DEF TypeOK
    <3>5. QED BY <1>2, <1>3, <2>1, <3>4 DEF SpentOwn
  <2>5. QED BY <2>2, <2>3, <2>4
<1>8. ASSUME NEW q \in Ids, ConfirmationStep(q) PROVE SpentOwn(t)'
  <2>1. phase' = phase /\ (drain'[t] = drain[t] \/ drain'[t] \in NewDrains)
    BY <1>1, <1>8, ConfirmationKeepsCustody DEF NewDrains
  <2>2. QED BY <1>2, <1>4, <2>1
<1>9. CASE Stop \/ Crash
  BY <1>3, <1>9 DEF Stop, Crash
<1>10. CASE Restore
  BY <1>4, <1>10 DEF Restore, NewDrains
<1>11. CASE (\E r \in Routes : Rebind(r)) \/ UNCHANGED vars
  BY <1>2, <1>11 DEF Rebind, vars, memory
<1>12. QED BY <1>5, <1>6, <1>7, <1>8, <1>9, <1>10, <1>11 DEF Next

LEMMA PendingStep ==
    ASSUME "agent_failure" \notin Events, NoSharing, PendingInv, [Next]_vars
    PROVE  PendingInv'
<1>1. CleanInv /\ CleanInv' /\ CustodyInv /\ CustodyInv' /\ TypeOK /\ TypeOK'
  BY CleanStep DEF PendingInv, CleanInv, ConfirmInv, CustodyInv, SendInv
<1>2. ("rebind" \notin Events => OwnInv') /\ \A t \in Routes : SpentOwn(t)'
  BY OwnStep, SpentStep DEF PendingInv
<1>3. SUFFICES ASSUME NEW t \in Routes, NEW w \in Windows, queues'[t][w] # <<>>
               PROVE  w \in adm'.pending
  BY <1>1, <1>2 DEF PendingInv, PendingCoversQueue
<1>4. queues[t][w] # <<>> => w \in adm.pending
  BY DEF PendingInv, PendingCoversQueue
<1>5. phase' = "up"
  BY <1>1, <1>3 DEF CustodyInv, Custody, TopicOk, QueuesOk
<1>6. ASSUME NEW r \in Routes, DrainStep(r) \/ HandlerStep(r) PROVE w \in adm'.pending
  <2>1. StepOf(r) /\ phase = "up"
    BY <1>1, <1>5, <1>6, DrainKeepsCustody, HandlerKeepsCustody DEF StepOf
  <2>2. CASE t = r
    BY <1>1, <1>3, <1>4, <1>6, <2>1, <2>2, DrainProtects, HandlerProtects
  <2>3. CASE t # r
    <3>1. queues[t][w] # <<>>
      BY <1>3, <2>1, <2>3 DEF StepOf
    <3>2. /\ queues[r][w] = <<>> /\ w # binding[r]
          /\ drain[r].pc # "none" => w # drain[r].win
          /\ sender[r].pc \notin {"idle", "discard"} => w # sender[r].win
      BY <2>3, <3>1, NothingShared
    <3>3. CASE DrainStep(r)
      <4>1. drain[r].pc # "none"
        BY <3>3, DrainRuns
      <4>2. QED BY <1>4, <2>1, <3>1, <3>2, <3>3, <4>1, DrainProtects
    <3>4. CASE HandlerStep(r)
      BY <1>4, <3>1, <3>2, <3>4, HandlerProtects
    <3>5. QED BY <1>6, <3>3, <3>4
  <2>4. QED BY <2>2, <2>3
<1>7. ASSUME NEW q \in Ids, ConfirmationStep(q) PROVE w \in adm'.pending
  BY <1>1, <1>3, <1>4, <1>7, ConfirmationKeepsCustody
<1>8. ASSUME Stop \/ Crash PROVE FALSE
  BY <1>5, <1>8 DEF Stop, Crash
<1>9. CASE Restore
  <2>1. PICK held : /\ \A r \in Routes, v \in Windows : IdsOf(queues'[r][v]) = held[r][v]
                    /\ adm' = [adm EXCEPT !.pending =
                                 {v \in Windows : \E r \in Routes : held[r][v] # {}}]
    <3> DEFINE target(p) == IF binding[rows[p].route] # None THEN binding[rows[p].route]
                            ELSE rows[p].win
               rws == [p \in Ids |-> IF rows[p].state = "queued"
                                     THEN [rows[p] EXCEPT !.win = target(p)] ELSE rows[p]]
               held(r, v) == {p \in Ids : rws[p].state = "queued" /\ rws[p].route = r
                                                                 /\ rws[p].win = v}
               h == [r \in Routes |-> [v \in Windows |-> held(r, v)]]
    <3>1. /\ \A r \in Routes, v \in Windows : IdsOf(queues'[r][v]) = held(r, v)
          /\ adm' = [adm EXCEPT !.pending = {v \in Windows : \E r \in Routes : held(r, v) # {}}]
      BY <1>9 DEF Restore
    <3> HIDE DEF held
    <3>2. \A r \in Routes, v \in Windows : h[r][v] = held(r, v)
      OBVIOUS
    <3> HIDE DEF h
    <3>3. {v \in Windows : \E r \in Routes : held(r, v) # {}}
          = {v \in Windows : \E r \in Routes : h[r][v] # {}}
      BY <3>2
    <3>4. /\ \A r \in Routes, v \in Windows : IdsOf(queues'[r][v]) = h[r][v]
          /\ adm' = [adm EXCEPT !.pending = {v \in Windows : \E r \in Routes : h[r][v] # {}}]
      BY <3>1, <3>2, <3>3
    <3>5. QED BY <3>4
  <2>2. queues'[t][w] \in Seq(Ids)
    BY <1>1 DEF TypeOK
  <2>3. Head(queues'[t][w]) \in IdsOf(queues'[t][w])
    BY <1>3, <2>2, TailOfQueue
  <2>4. held[t][w] # {}
    BY <2>1, <2>3
  <2>5. QED BY <1>1, <2>1, <2>4 DEF TypeOK, Controller
<1>10. CASE (\E r \in Routes : Rebind(r)) \/ UNCHANGED vars
  BY <1>3, <1>4, <1>10 DEF Rebind, vars, memory
<1>11. QED BY <1>6, <1>7, <1>8, <1>9, <1>10 DEF Next

\* As long as no window is lost and no two topics come to share one, a window with queued
\* prompts is protected from hibernation: set_pending comes with each append, and
\* clear_pending only with the last prompt of the deque (bot.py, turn_admission.py).
THEOREM QueuedIsProtected ==
    ASSUME "agent_failure" \notin Events, NoSharing
    PROVE  Spec => []PendingCoversQueue
<1>1. Init => PendingInv
  <2> SUFFICES ASSUME Init PROVE PendingInv
    OBVIOUS
  <2>1. ConfirmInv /\ CustodyInv
    BY CustodyInit DEF Init, ConfirmInv, ConfirmOk
  <2>2. ASSUME NEW r \in Routes
        PROVE  Clean(r) /\ OwnWindow(r) /\ SpentOwn(r) /\ \A v \in Windows : queues[r][v] = <<>>
    <3>1. drain[r].pc = "none" /\ \A v \in Windows : queues[r][v] = <<>>
      BY DEF Init, NoDrain
    <3>2. \A p \in Ids : rows[p].state = "new"
      BY DEF Init, NoRow
    <3>3. binding[r] \in Windows /\ \A t \in Routes : binding[t] = binding[r] => t = r
      BY DEF Init
    <3>4. QED BY <3>1, <3>2, <3>3, EmptyQueue DEF Clean, CleanOk, OwnWindow, SpentOwn
  <2>3. QED BY <2>1, <2>2 DEF PendingInv, CleanInv, OwnInv, PendingCoversQueue
<1>2. PendingInv /\ [Next]_vars => PendingInv'
  BY PendingStep
<1>3. PendingInv => PendingCoversQueue
  BY DEF PendingInv
<1>4. QED BY <1>1, <1>2, <1>3, PTL DEF Spec
===============================================================================
