------------------------ MODULE TopicPickers_proofs --------------------------
(***************************************************************************)
(* For any set of topics, any number of messages and windows: a held       *)
(* message is sent once (FirstPromptOnce), and a topic gets a window only  *)
(* by a button pressed in it (BoundByOwnButton).                           *)
(*                                                                         *)
(* The inductive invariant says where a message can be: in user_data, in   *)
(* one handler that waits for the list of windows, or sent, and never in   *)
(* two of these; and whose topic a waiting handler may bind.               *)
(***************************************************************************)
EXTENDS TopicPickers, TLAPS

\* The fields user_data and a waiting handler have.
IsData(d) == d = [state |-> d.state, pending |-> d.pending, text |-> d.text,
                  rootList |-> d.rootList, windowList |-> d.windowList,
                  sessionList |-> d.sessionList]
IsHandler(h) == h = [at |-> h.at, topic |-> h.topic, window |-> h.window, text |-> h.text]

\* Records and sequences have the shape the actions rely on.
Shape ==
  /\ typed \in Seq(Threads)
  /\ sent \in Seq([text: Nat, topic: Threads \cup {NoTopic}])
  /\ IsData(data) /\ data.text \in Nat
  /\ handler = [t \in Threads |-> handler[t]]
  /\ \A t \in Threads: IsHandler(handler[t]) /\ handler[t].text \in Nat

\* A waiting handler may bind its own topic, or none.
OwnTopic == \A t \in Threads: handler[t].topic \in {t, NoTopic}

IsSent(n) == \E i \in DOMAIN sent: sent[i].text = n
\* Message n is nowhere but in the place that is left out of consideration.
HeldOnce ==
  /\ \A n \in Nat: IsSent(n) => 1 <= n /\ n <= Len(typed)
  /\ data.text <= Len(typed) /\ ~IsSent(data.text)
  /\ \A t \in Threads:
       handler[t].text # 0 =>
         /\ handler[t].at = "list"
         /\ handler[t].text <= Len(typed) /\ ~IsSent(handler[t].text)
         /\ handler[t].text # data.text
         /\ \A u \in Threads \ {t}: handler[u].text # handler[t].text

IInv == Shape /\ OwnTopic /\ HeldOnce /\ FirstPromptOnce

------------------------------------------------------------------------------
LEMMA InitInv == PickersInit => IInv
  BY DEF PickersInit, IInv, Shape, OwnTopic, HeldOnce, FirstPromptOnce, IsSent, IsData, IsHandler,
         NoData, NoUpdate

\* A step that types and sends nothing, and at most drops the held message
\* or puts handlers that hold none in the place of one.
Mild(t) ==
  /\ UNCHANGED <<typed, sent>>
  /\ IsData(data') /\ data'.text \in {0, data.text}
  /\ \/ UNCHANGED handler
     \/ \E h: /\ handler' = [handler EXCEPT ![t] = h]
              /\ IsHandler(h) /\ h.text = 0 /\ h.topic \in {t, NoTopic}

LEMMA MildKeeps ==
  ASSUME IInv, NEW t \in Threads, Mild(t)
  PROVE  IInv'
<1>1. \A n: IsSent(n)' <=> IsSent(n)
  BY DEF Mild, IsSent
<1>2. ~IsSent(0)
  BY DEF IInv, HeldOnce
<1>3. \A u \in Threads: handler'[u] = handler[u] \/
        (u = t /\ IsHandler(handler'[u]) /\ handler'[u].text = 0 /\ handler'[u].topic \in {u, NoTopic})
  BY DEF Mild, IInv, Shape
<1>4. handler' = [u \in Threads |-> handler'[u]]
  BY DEF Mild, IInv, Shape
<1>5. Shape'
  BY <1>3, <1>4 DEF Mild, IInv, Shape, IsHandler
<1>6. OwnTopic'
  BY <1>3 DEF IInv, OwnTopic
<1>7. HeldOnce'
  <2>1. Len(typed) \in Nat /\ typed' = typed
    BY DEF Mild, IInv, Shape
  <2>2. data'.text <= Len(typed') /\ ~IsSent(data.text)'
    BY <1>1, <1>2, <2>1 DEF Mild, IInv, HeldOnce, Shape
  <2>3. ASSUME NEW u \in Threads, handler'[u].text # 0
        PROVE  /\ handler'[u].at = "list"
               /\ handler'[u].text <= Len(typed') /\ ~IsSent(handler[u].text)'
               /\ handler'[u].text # data'.text
               /\ \A v \in Threads \ {u}: handler'[v].text # handler'[u].text
    <3>1. handler'[u] = handler[u]
      BY <1>3, <2>3
    <3>0. handler'[u].at = "list"
      BY <3>1, <2>3 DEF IInv, HeldOnce
    <3>2. handler'[u].text <= Len(typed') /\ ~IsSent(handler[u].text)'
      BY <3>1, <2>3, <1>1, <2>1 DEF IInv, HeldOnce
    <3>3. handler'[u].text # data'.text
      BY <3>1, <2>3 DEF IInv, HeldOnce, Mild
    <3>4. \A v \in Threads \ {u}: handler'[v].text # handler'[u].text
      BY <3>1, <2>3, <1>3 DEF IInv, HeldOnce
    <3> QED BY <3>0, <3>2, <3>3, <3>4
  <2>4. \A n \in Nat: IsSent(n)' => 1 <= n /\ n <= Len(typed')
    BY <1>1, <2>1 DEF IInv, HeldOnce
  <2> QED BY <2>2, <2>3, <2>4 DEF HeldOnce
<1>8. FirstPromptOnce'
  BY DEF Mild, IInv, FirstPromptOnce
<1> QED BY <1>5, <1>6, <1>7, <1>8 DEF IInv

------------------------------------------------------------------------------
LEMMA ClearsShape ==
  ASSUME NEW d, IsData(d)
  PROVE  /\ IsData(ClearBrowse(d)) /\ ClearBrowse(d).text = d.text
         /\ IsData(ClearRoot(d)) /\ ClearRoot(d).text = d.text
         /\ IsData(ClearWindows(d)) /\ ClearWindows(d).text = d.text
         /\ IsData(ClearSessions(d)) /\ ClearSessions(d).text = d.text
         /\ IsData(Popped(d)) /\ Popped(d).text = 0
<1>1. IsData(ClearBrowse(d)) /\ ClearBrowse(d).text = d.text
  <2>1. ClearBrowse(d) = [[d EXCEPT !.state = "none"] EXCEPT !.rootList = FALSE]
    BY Zenon DEF ClearBrowse
  <2>2. IsData([d EXCEPT !.state = "none"]) /\ [d EXCEPT !.state = "none"].text = d.text
    BY DEF IsData
  <2> QED BY <2>1, <2>2 DEF IsData
<1>2. IsData(ClearRoot(d)) /\ ClearRoot(d).text = d.text
  <2>1. ClearRoot(d) = [[d EXCEPT !.state = "none"] EXCEPT !.rootList = FALSE]
    BY Zenon DEF ClearRoot
  <2>2. IsData([d EXCEPT !.state = "none"]) /\ [d EXCEPT !.state = "none"].text = d.text
    BY DEF IsData
  <2> QED BY <2>1, <2>2 DEF IsData
<1>3. IsData(ClearWindows(d)) /\ ClearWindows(d).text = d.text
  <2>1. ClearWindows(d) = [[d EXCEPT !.state = "none"] EXCEPT !.windowList = {}]
    BY Zenon DEF ClearWindows
  <2>2. IsData([d EXCEPT !.state = "none"]) /\ [d EXCEPT !.state = "none"].text = d.text
    BY DEF IsData
  <2> QED BY <2>1, <2>2 DEF IsData
<1>4. IsData(ClearSessions(d)) /\ ClearSessions(d).text = d.text
  <2>1. ClearSessions(d) = [[d EXCEPT !.state = "none"] EXCEPT !.sessionList = FALSE]
    BY Zenon DEF ClearSessions
  <2>2. IsData([d EXCEPT !.state = "none"]) /\ [d EXCEPT !.state = "none"].text = d.text
    BY DEF IsData
  <2> QED BY <2>1, <2>2 DEF IsData
<1>5. IsData(Popped(d)) /\ Popped(d).text = 0
  <2>1. Popped(d) = [[d EXCEPT !.pending = NoTopic] EXCEPT !.text = 0]
    BY Zenon DEF Popped
  <2>2. IsData([d EXCEPT !.pending = NoTopic]) /\ [d EXCEPT !.pending = NoTopic].text = d.text
    BY DEF IsData
  <2> QED BY <2>1, <2>2 DEF IsData
<1> QED BY <1>1, <1>2, <1>3, <1>4, <1>5

LEMMA IdleShape == IsHandler(NoUpdate) /\ NoUpdate.text = 0 /\ NoUpdate.topic = NoTopic
  BY DEF NoUpdate, IsHandler
LEMMA AtShape ==
  ASSUME NEW place, NEW topic, NEW window
  PROVE  /\ IsHandler(At(place, topic, window))
         /\ At(place, topic, window).text = 0 /\ At(place, topic, window).topic = topic
         /\ At(place, topic, window).at = place
<1> DEFINE a == [NoUpdate EXCEPT !.at = place]
           b == [a EXCEPT !.topic = topic]
<1>1. At(place, topic, window) = [b EXCEPT !.window = window]
  BY Zenon DEF At
<1>2. IsHandler(a) /\ a.text = 0
  BY IdleShape DEF IsHandler
<1>3. a.at = place
  BY IdleShape DEF IsHandler
<1> HIDE DEF a
<1>4. b.topic = topic
  BY <1>2 DEF IsHandler
<1>5. IsHandler(b) /\ b.text = 0 /\ b.at = place
  BY <1>2, <1>3 DEF IsHandler
<1> HIDE DEF b
<1> QED BY <1>1, <1>4, <1>5 DEF IsHandler

LEMMA ShowPickerShape ==
  ASSUME NEW t \in Threads, NEW d, IsData(d), ShowPicker(t, d)
  PROVE  IsData(data') /\ data'.text = d.text
<1>1. PICK state, list: data' = [d EXCEPT !.state = state, !.rootList = list]
  BY Zenon DEF ShowPicker
<1>2. data' = [[d EXCEPT !.state = state] EXCEPT !.rootList = list]
  BY <1>1, Zenon
<1>3. IsData([d EXCEPT !.state = state]) /\ [d EXCEPT !.state = state].text = d.text
  BY DEF IsData
<1> QED BY <1>2, <1>3 DEF IsData

\* A handler begins to wait, or is done.
LEMMA WaitsMild ==
  ASSUME NEW t \in Threads, NEW place, NEW topic \in {t, NoTopic}, NEW window,
         UNCHANGED <<typed, sent>>, IsData(data'), data'.text \in {0, data.text},
         Waits(t, At(place, topic, window)) \/ Waits(t, NoUpdate)
  PROVE  Mild(t)
<1>1. PICK h \in {At(place, topic, window), NoUpdate}: Waits(t, h)
  OBVIOUS
<1>2. IsHandler(h) /\ h.text = 0 /\ h.topic \in {t, NoTopic}
  BY <1>1, AtShape, IdleShape
<1> QED BY <1>1, <1>2 DEF Waits, Mild

\* No button types or sends anything by itself.
LEMMA PicksMild ==
  ASSUME IInv, NEW t \in Threads, Picks(t)
  PROVE  Mild(t)
<1> USE DEF Quick, Cancel, Mild, Pressed
<1>0. IsData(data)
  BY DEF IInv, Shape
<1>1. CASE RootSelect(t)
  BY <1>0, <1>1 DEF RootSelect, IsData
<1>2. CASE RootCancel(t)
  BY <1>0, <1>2, ClearsShape DEF RootCancel
<1>3. CASE DirConfirm(t)
  <2>1. CASE Matches(t) /\ data' = ClearBrowse([data EXCEPT !.pending = t])
                /\ Waits(t, At("agents", t, 0))
    <3>1. IsData([data EXCEPT !.pending = t]) /\ [data EXCEPT !.pending = t].text = data.text
      BY <1>0 DEF IsData
    <3> QED BY <1>3, <2>1, <3>1, ClearsShape, WaitsMild DEF DirConfirm
  <2>2. CASE ~Matches(t) /\ data' = Popped(ClearBrowse(data)) /\ UNCHANGED handler
    BY <1>0, <1>3, <2>2, ClearsShape DEF DirConfirm
  <2> QED BY <1>3, <2>1, <2>2 DEF DirConfirm
<1>4. CASE DirCancel(t)
  BY <1>0, <1>4, ClearsShape DEF DirCancel
<1>5. CASE ProfileAgent(t)
  BY <1>0, <1>5, WaitsMild DEF ProfileAgent
<1>6. CASE ProfileModel(t)
  BY <1>0, <1>6 DEF ProfileModel, IsData
<1>7. CASE ProfileConfirm(t)
  BY <1>0, <1>7, WaitsMild DEF ProfileConfirm, Matches
<1>8. CASE ProfileCancel(t)
  BY <1>0, <1>8, ClearsShape DEF ProfileCancel
<1>9. CASE SessionSelect(t)
  <2>1. CASE SessionBound
    BY <1>0, <1>9, <2>1 DEF SessionSelect, IsData
  <2>2. CASE ~SessionBound
    BY <1>0, <1>9, <2>2, ClearsShape, WaitsMild DEF SessionSelect
  <2> QED BY <2>1, <2>2
<1>10. CASE SessionNew(t)
  BY <1>0, <1>10, ClearsShape, WaitsMild DEF SessionNew
<1>11. CASE SessionCancel(t)
  BY <1>0, <1>11, ClearsShape DEF SessionCancel
<1>12. CASE WindowBind(t)
  BY <1>0, <1>12, WaitsMild DEF WindowBind
<1>13. CASE WindowNew(t)
  BY <1>0, <1>13, ClearsShape, ShowPickerShape DEF WindowNew
<1>14. CASE WindowCancel(t)
  BY <1>0, <1>14, ClearsShape DEF WindowCancel
<1> QED BY <1>1, <1>2, <1>3, <1>4, <1>5, <1>6, <1>7, <1>8, <1>9, <1>10, <1>11, <1>12,
           <1>13, <1>14 DEF Picks

\* Nor does what follows, up to the point where the window is bound.
LEMMA ResumesMild ==
  ASSUME IInv, NEW t \in Threads,
         AgentsShown(t) \/ Listed(t) \/ WindowFound(t) \/ WindowCreated(t) \/ Launched(t)
         \/ Hooked(t) \/ CreateFails(t) \/ Unbound(t)
  PROVE  Mild(t)
<1> USE DEF Mild
<1>0. IsData(data) /\ IsHandler(handler[t]) /\ handler[t].topic \in {t, NoTopic}
  BY DEF IInv, Shape, OwnTopic
<1>1. CASE AgentsShown(t)
  BY <1>0, <1>1, WaitsMild DEF AgentsShown, IsData
<1>2. CASE Listed(t)
  <2>1. CASE UNCHANGED data /\ Waits(t, At("create", CreationTopic(t), 0))
    BY <1>0, <1>2, <2>1, WaitsMild DEF Listed, CreationTopic
  <2>2. CASE data' = [data EXCEPT !.state = "session", !.sessionList = TRUE] /\ Waits(t, NoUpdate)
    BY <1>0, <1>2, <2>2, WaitsMild DEF Listed, IsData
  <2> QED BY <1>2, <2>1, <2>2 DEF Listed
<1>3. CASE WindowFound(t)
  <2>1. handler[t].text = 0
    BY <1>3 DEF WindowFound, IInv, HeldOnce
  <2> DEFINE h == [handler[t] EXCEPT !.at = "bound"]
  <2>2. IsHandler(h) /\ h.text = 0 /\ h.topic \in {t, NoTopic}
    BY <1>0, <2>1 DEF IsHandler
  <2> QED BY <1>0, <1>3, <2>2, ClearsShape DEF WindowFound, Waits
<1>4. CASE WindowCreated(t)
  BY <1>0, <1>4, WaitsMild DEF WindowCreated, Bound
<1>5. CASE Launched(t)
  BY <1>0, <1>5, WaitsMild DEF Launched
<1>6. CASE Hooked(t)
  BY <1>0, <1>6, WaitsMild DEF Hooked, Bound
<1>7. CASE CreateFails(t)
  BY <1>0, <1>7, WaitsMild, ClearsShape DEF CreateFails
<1>8. CASE Unbound(t)
  <2>1. CASE data.pending # t
    BY <1>0, <1>8, <2>1, WaitsMild DEF Unbound
  <2>2. CASE data.pending = t
    BY <1>0, <1>8, <2>2, WaitsMild, ClearsShape DEF Unbound
  <2> QED BY <2>1, <2>2
<1> QED BY <1>1, <1>2, <1>3, <1>4, <1>5, <1>6, <1>7, <1>8

LEMMA UnbindMild ==
  ASSUME IInv, NEW t \in Threads, UnbindCommand(t)
  PROVE  Mild(t)
  BY WaitsMild DEF IInv, Shape, UnbindCommand

------------------------------------------------------------------------------
LEMMA HeldShape ==
  ASSUME NEW d, IsData(d), NEW t, NEW n
  PROVE  IsData(Held(d, t, n)) /\ Held(d, t, n).text = n
<1> DEFINE e == [d EXCEPT !.pending = t]
<1>1. Held(d, t, n) = [e EXCEPT !.text = n]
  BY Zenon DEF Held
<1>2. IsData(e)
  BY DEF IsData
<1> HIDE DEF e
<1>3. IsData([e EXCEPT !.text = n]) /\ [e EXCEPT !.text = n].text = n
  BY <1>2 DEF IsData
<1> QED BY <1>1, <1>3

LEMMA DroppedShape ==
  ASSUME IsData(data)
  PROVE  IsData(Dropped) /\ Dropped.text \in {0, data.text}
<1>1. CASE data.state \notin Picking
  BY <1>1 DEF Dropped
<1>2. CASE data.state \in Picking
  <2>1. PICK d \in {ClearWindows(data), ClearRoot(data), ClearBrowse(data), ClearSessions(data)}:
          Dropped = Popped(d)
    BY <1>2 DEF Dropped, Picking
  <2> QED BY <2>1, ClearsShape
<1> QED BY <1>1, <1>2

\* The number of a new message is nowhere yet.
LEMMA NewNumber ==
  ASSUME IInv, NEW t \in Threads, typed' = Append(typed, t)
  PROVE  LET n == Len(typed) + 1 IN
         /\ n \in Nat /\ n # 0 /\ Len(typed') = n /\ typed' \in Seq(Threads)
         /\ \A m \in Nat: m <= Len(typed) => m <= Len(typed') /\ m # n
         /\ ~IsSent(n) /\ data.text # n /\ \A u \in Threads: handler[u].text # n
  BY DEF IInv, Shape, HeldOnce

\* A message that is sent was sent by nobody before.
LEMMA SendKeeps ==
  ASSUME IInv, NEW n \in Nat, n # 0, ~IsSent(n), NEW topic \in Threads \cup {NoTopic},
         sent' = Append(sent, [text |-> n, topic |-> topic])
  PROVE  /\ sent' \in Seq([text: Nat, topic: Threads \cup {NoTopic}])
         /\ FirstPromptOnce'
         /\ \A m: IsSent(m)' <=> IsSent(m) \/ m = n
<1>1. sent \in Seq([text: Nat, topic: Threads \cup {NoTopic}])
  BY DEF IInv, Shape
<1>2. /\ Len(sent') = Len(sent) + 1 /\ DOMAIN sent' = 1..Len(sent) + 1
      /\ DOMAIN sent = 1..Len(sent) /\ Len(sent) \in Nat
      /\ \A i \in 1..Len(sent): sent'[i] = sent[i]
      /\ sent'[Len(sent) + 1].text = n
  BY <1>1
<1>3. sent' \in Seq([text: Nat, topic: Threads \cup {NoTopic}])
  BY <1>1
<1>4. FirstPromptOnce'
  BY <1>2 DEF IInv, FirstPromptOnce, IsSent
<1>5. \A m: IsSent(m)' <=> IsSent(m) \/ m = n
  BY <1>2 DEF IsSent
<1> QED BY <1>3, <1>4, <1>5

LEMMA TextKeeps ==
  ASSUME IInv, NEW t \in Threads, Text(t)
  PROVE  IInv'
<1> DEFINE n == Len(typed) + 1
<1>1. typed' = Append(typed, t) /\ IsData(data) /\ data.text \in Nat
  BY DEF Text, IInv, Shape
<1>2. /\ n \in Nat /\ n # 0 /\ Len(typed') = n /\ typed' \in Seq(Threads)
      /\ \A m \in Nat: m <= Len(typed) => m <= Len(typed') /\ m # n
      /\ ~IsSent(n) /\ data.text # n /\ \A u \in Threads: handler[u].text # n
  BY <1>1, NewNumber
<1>3. IsData(Dropped) /\ Dropped.text \in {0, data.text}
  BY <1>1, DroppedShape
<1>4. ~IsSent(0) /\ Len(typed) \in Nat
  BY DEF IInv, HeldOnce, Shape
<1> HIDE DEF n
<1>5. CASE UNCHANGED <<handler, sent>> /\ IsData(data') /\ data'.text \in {0, data.text, n}
  <2>1. \A m: IsSent(m)' <=> IsSent(m)
    BY <1>5 DEF IsSent
  <2>2. HeldOnce'
    BY <1>2, <1>4, <1>5, <2>1 DEF IInv, Shape, HeldOnce
  <2>3. Shape'
    BY <1>2, <1>5, <1>1 DEF IInv, Shape
  <2> QED BY <1>5, <2>2, <2>3 DEF IInv, OwnTopic, FirstPromptOnce
<1>6. CASE /\ UNCHANGED handler /\ IsData(data') /\ data'.text \in {0, data.text}
           /\ sent' = Append(sent, [text |-> n, topic |-> t])
  <2>1. /\ sent' \in Seq([text: Nat, topic: Threads \cup {NoTopic}])
        /\ FirstPromptOnce' /\ \A m: IsSent(m)' <=> IsSent(m) \/ m = n
    BY <1>2, <1>6, SendKeeps
  <2>2. HeldOnce'
    BY <1>2, <1>4, <1>6, <2>1 DEF IInv, Shape, HeldOnce
  <2>3. Shape'
    BY <1>2, <1>6, <1>1, <2>1 DEF IInv, Shape
  <2> QED BY <1>6, <2>1, <2>2, <2>3 DEF IInv, OwnTopic
<1>7. CASE /\ UNCHANGED sent /\ data' = Dropped
           /\ Waits(t, [At("list", t, 0) EXCEPT !.text = n])
  <2> DEFINE h == [At("list", t, 0) EXCEPT !.text = n]
  <2>1. IsHandler(h) /\ h.text = n /\ h.topic = t /\ h.at = "list"
    BY AtShape DEF IsHandler
  <2> HIDE DEF h
  <2>2. handler' = [handler EXCEPT ![t] = h]
    BY <1>7 DEF Waits, h
  <2>3. handler'[t] = h /\ \A u \in Threads \ {t}: handler'[u] = handler[u]
    BY <2>2 DEF IInv, Shape
  <2>4. \A m: IsSent(m)' <=> IsSent(m)
    BY <1>7 DEF IsSent
  <2>5. HeldOnce'
    <3>1. \A m \in Nat: IsSent(m)' => 1 <= m /\ m <= Len(typed')
      BY <1>2, <1>4, <2>4 DEF IInv, HeldOnce
    <3>0. /\ data'.text \in {0, data.text} /\ data.text \in Nat
          /\ data.text <= Len(typed) /\ ~IsSent(data.text)
      BY <1>1, <1>3, <1>7 DEF IInv, HeldOnce
    <3>2. data'.text <= Len(typed') /\ data'.text # n /\ ~IsSent(data.text)'
      BY <1>2, <1>4, <2>4, <3>0
    <3>3. ASSUME NEW u \in Threads, handler'[u].text # 0, u # t
          PROVE  /\ handler'[u].at = "list"
                 /\ handler'[u].text <= Len(typed') /\ ~IsSent(handler[u].text)'
                 /\ handler'[u].text # data'.text
                 /\ \A v \in Threads \ {u}: handler'[v].text # handler'[u].text
      <4>1. handler'[u] = handler[u] /\ handler[u].text \in Nat
        BY <2>3, <3>3 DEF IInv, Shape
      <4>2. /\ handler'[u].at = "list" /\ handler[u].text <= Len(typed)
            /\ ~IsSent(handler[u].text) /\ handler'[u].text # data.text
            /\ \A v \in Threads \ {u}: handler[v].text # handler[u].text
        BY <3>3, <4>1 DEF IInv, HeldOnce
      <4>3. \A v \in Threads \ {u}: handler'[v].text # handler'[u].text
        BY <1>2, <2>1, <2>3, <4>1, <4>2
      <4> QED BY <1>2, <2>4, <3>0, <3>3, <4>1, <4>2, <4>3
    <3>4. /\ handler'[t].at = "list"
          /\ handler'[t].text <= Len(typed') /\ ~IsSent(handler[t].text)'
          /\ handler'[t].text # data'.text
          /\ \A v \in Threads \ {t}: handler'[v].text # handler'[t].text
      BY <1>2, <2>1, <2>3, <2>4, <3>2
    <3> QED BY <3>1, <3>2, <3>3, <3>4 DEF HeldOnce
  <2>6. Shape'
    BY <1>1, <1>2, <1>3, <1>7, <2>1, <2>2, <2>3 DEF IInv, Shape
  <2>7. OwnTopic'
    BY <2>1, <2>3 DEF IInv, OwnTopic
  <2> QED BY <1>7, <2>5, <2>6, <2>7 DEF IInv, FirstPromptOnce
<1>8. \/ UNCHANGED <<handler, sent>> /\ IsData(data') /\ data'.text \in {0, data.text, n}
      \/ /\ UNCHANGED handler /\ IsData(data') /\ data'.text \in {0, data.text}
         /\ sent' = Append(sent, [text |-> n, topic |-> t])
      \/ /\ UNCHANGED sent /\ data' = Dropped
         /\ Waits(t, [At("list", t, 0) EXCEPT !.text = n])
  <2> DEFINE d == Held(Dropped, t, n)
  <2>1. IsData(d) /\ d.text = n
    BY <1>3, HeldShape
  <2>2. CASE data.state \in Picking /\ data.pending = t /\ UNCHANGED <<data, shown, handler, sent, tracked>>
    BY <1>1, <2>2
  <2>3. CASE bound[t] # 0 /\ data' = Dropped /\ UNCHANGED <<shown, handler>>
             /\ IF SharesWindow(t) THEN UNCHANGED <<sent, tracked>> ELSE Deliver(t, n, bound[t])
    BY <1>3, <2>3 DEF Deliver
  <2>4. CASE ShowPicker(t, d) /\ UNCHANGED <<handler, sent, tracked>>
    BY <2>1, <2>4, ShowPickerShape
  <2>5. CASE data' = Dropped /\ Waits(t, [At("list", t, 0) EXCEPT !.text = n]) /\ UNCHANGED <<shown, sent, tracked>>
    BY <2>5
  <2> QED BY <2>2, <2>3, <2>4, <2>5 DEF Text, n
<1> QED BY <1>5, <1>6, <1>7, <1>8

LEMMA ListedKeeps ==
  ASSUME IInv, NEW t \in Threads, TextListed(t)
  PROVE  IInv'
<1> DEFINE n == handler[t].text
<1>1. IsData(data') /\ data'.text = n
  <2> DEFINE held == Held(data, t, n)
             free == tracked \ {bound[u]: u \in Threads}
  <2>1. IsData(held) /\ held.text = n
    <3>1. IsData(data)
      BY DEF IInv, Shape
    <3> QED BY <3>1, HeldShape
  <2>2. CASE ShowPicker(t, held)
    BY <2>1, <2>2, ShowPickerShape
  <2>3. CASE data' = [held EXCEPT !.state = "window", !.windowList = free]
    <3>1. data' = [[held EXCEPT !.state = "window"] EXCEPT !.windowList = free]
      BY <2>3, Zenon
    <3>2. IsData([held EXCEPT !.state = "window"]) /\ [held EXCEPT !.state = "window"].text = n
      <4> HIDE DEF held
      <4> QED BY <2>1 DEF IsData
    <3> QED BY <3>1, <3>2 DEF IsData
  <2> QED BY <2>2, <2>3 DEF TextListed
<1>2. UNCHANGED <<typed, sent>> /\ handler' = [handler EXCEPT ![t] = NoUpdate]
  BY DEF TextListed, Waits
<1>3. handler'[t] = NoUpdate /\ \A u \in Threads \ {t}: handler'[u] = handler[u]
  BY <1>2 DEF IInv, Shape
<1>4. \A m: IsSent(m)' <=> IsSent(m)
  BY <1>2 DEF IsSent
<1>5. Shape'
  <2>1. n \in Nat /\ \A u \in Threads: IsHandler(handler'[u]) /\ handler'[u].text \in Nat
    BY <1>3, IdleShape DEF IInv, Shape
  <2>2. handler' = [u \in Threads |-> handler'[u]]
    BY <1>2 DEF IInv, Shape
  <2> HIDE DEF n
  <2> QED BY <1>1, <1>2, <2>1, <2>2 DEF IInv, Shape
<1>6. OwnTopic'
  BY <1>3, IdleShape DEF IInv, OwnTopic
<1>7. n <= Len(typed) /\ ~IsSent(n) /\ \A u \in Threads \ {t}: handler[u].text # 0 => handler[u].text # n
  <2>1. CASE n = 0
    BY <2>1 DEF IInv, Shape, HeldOnce
  <2>2. CASE n # 0
    BY <2>2 DEF IInv, Shape, HeldOnce
  <2> QED BY <2>1, <2>2
<1>8. HeldOnce'
  BY <1>1, <1>2, <1>3, <1>4, <1>7, IdleShape DEF IInv, HeldOnce
<1> QED BY <1>2, <1>5, <1>6, <1>8 DEF IInv, FirstPromptOnce

LEMMA ForwardKeeps ==
  ASSUME IInv, NEW t \in Threads, Forward(t)
  PROVE  IInv'
<1> DEFINE n == data.text
<1>1. IsData(data) /\ n \in Nat /\ IsData(data') /\ data'.text = 0
  BY ClearsShape DEF IInv, Shape, Forward
<1>2. UNCHANGED typed /\ handler' = [handler EXCEPT ![t] = NoUpdate]
  BY DEF Forward, Waits
<1>3. CASE n = 0
  BY <1>1, <1>2, <1>3, IdleShape, MildKeeps DEF Forward, Mild
<1>4. CASE n # 0
  <2>1. sent' = Append(sent, [text |-> n, topic |-> handler[t].topic])
    BY <1>4 DEF Forward, Deliver
  <2>2. n <= Len(typed) /\ ~IsSent(n) /\ handler[t].topic \in Threads \cup {NoTopic}
    BY DEF IInv, HeldOnce, OwnTopic
  <2>3. /\ sent' \in Seq([text: Nat, topic: Threads \cup {NoTopic}])
        /\ FirstPromptOnce' /\ \A m: IsSent(m)' <=> IsSent(m) \/ m = n
    BY <1>1, <1>4, <2>1, <2>2, SendKeeps
  <2>4. handler'[t] = NoUpdate /\ \A u \in Threads \ {t}: handler'[u] = handler[u]
    BY <1>2 DEF IInv, Shape
  <2>5. Shape'
    BY <1>1, <1>2, <2>3, <2>4, IdleShape DEF IInv, Shape
  <2>6. OwnTopic'
    BY <2>4, IdleShape DEF IInv, OwnTopic
  <2>7. Len(typed) \in Nat /\ typed' = typed
    BY <1>2 DEF IInv, Shape
  <2>8. HeldOnce'
    BY <1>1, <1>4, <2>2, <2>3, <2>4, <2>7, IdleShape DEF IInv, HeldOnce
  <2> QED BY <2>3, <2>5, <2>6, <2>8 DEF IInv
<1> QED BY <1>3, <1>4

LEMMA NextInv == IInv /\ [PickersNext]_pickersVars => IInv'
<1> SUFFICES ASSUME IInv, [PickersNext]_pickersVars PROVE IInv'
  OBVIOUS
<1>1. CASE UNCHANGED pickersVars
  BY <1>1 DEF pickersVars, IInv, Shape, OwnTopic, HeldOnce, FirstPromptOnce, IsSent
<1>2. CASE PickersNext
  <2>1. PICK t \in Threads: Text(t) \/ UnbindCommand(t) \/ Picks(t) \/ Resumes(t)
    BY <1>2 DEF PickersNext
  <2>2. CASE Text(t)
    BY <2>2, TextKeeps
  <2>3. CASE UnbindCommand(t)
    BY <2>3, UnbindMild, MildKeeps
  <2>4. CASE Picks(t)
    BY <2>4, PicksMild, MildKeeps
  <2>5. CASE Resumes(t)
    BY <2>5, ListedKeeps, ForwardKeeps, ResumesMild, MildKeeps DEF Resumes
  <2> QED BY <2>1, <2>2, <2>3, <2>4, <2>5
<1> QED BY <1>1, <1>2

------------------------------------------------------------------------------
\* The first message of a topic, held in the shared user_data, is sent once.
THEOREM HeldMessageSentOnce == PickersSpec => []FirstPromptOnce
<1>1. IInv => FirstPromptOnce
  BY DEF IInv
<1> QED BY <1>1, InitInv, NextInv, PTL DEF PickersSpec

\* The bindings a step changes, and who may change them.
LEMMA BindStep ==
  ASSUME IInv, PickersNext
  PROVE  \/ UNCHANGED bound
         \/ \E u \in Threads: \E w:
              /\ bound' = [bound EXCEPT ![u] = w]
              /\ w = 0 \/ handler[u].at \in {"find", "create", "hook"}
<1>1. PICK u \in Threads: Text(u) \/ UnbindCommand(u) \/ Picks(u) \/ Resumes(u)
  BY DEF PickersNext
<1>2. CASE WindowCreated(u) \/ Hooked(u)
  <2>1. PICK w: Bound(u, w, handler[u])
    BY <1>2 DEF WindowCreated, Hooked
  <2>2. handler[u].topic \in {u, NoTopic} /\ handler[u].at \in {"create", "hook"}
    BY <1>2 DEF WindowCreated, Hooked, IInv, OwnTopic
  <2>3. UNCHANGED bound \/ bound' = [bound EXCEPT ![u] = w]
    <3>1. CASE handler[u].topic = NoTopic
      BY <2>1, <3>1 DEF Bound
    <3>2. CASE handler[u].topic # NoTopic
      <4>1. handler[u].topic = u
        BY <2>2, <3>2
      <4> QED BY <2>1, <3>2, <4>1 DEF Bound
    <3> QED BY <3>1, <3>2
  <2> QED BY <2>2, <2>3
<1>3. CASE WindowFound(u)
  BY <1>3 DEF WindowFound
<1>4. CASE UnbindCommand(u)
  BY <1>4 DEF UnbindCommand
<1>5. Text(u) \/ Picks(u) => UNCHANGED bound
  BY DEF Text, Picks, RootSelect, RootCancel, DirConfirm, DirCancel, ProfileAgent, ProfileModel,
         ProfileConfirm, ProfileCancel, SessionSelect, SessionNew, SessionCancel,
         WindowBind, WindowNew, WindowCancel, Quick, Cancel
<1>6. Resumes(u) => UNCHANGED bound \/ WindowFound(u) \/ WindowCreated(u) \/ Hooked(u)
  BY DEF Resumes, TextListed, AgentsShown, Listed, Launched, CreateFails, Forward, Unbound
<1> QED BY <1>1, <1>2, <1>3, <1>4, <1>5, <1>6

\* A topic gets a window only by a button pressed in it.
THEOREM BindsOwnTopic == PickersSpec => BoundByOwnButton
<1> DEFINE Bindings == DOMAIN bound = Threads
           Own == \A t \in Threads: bound'[t] \notin {0, bound[t]} =>
                    handler[t].at \in {"find", "create", "hook"}
<1>1. PickersInit => Bindings
  BY DEF PickersInit
<1>2. IInv /\ Bindings /\ [PickersNext]_pickersVars => Bindings'
  BY BindStep DEF pickersVars
<1>3. IInv /\ Bindings /\ [PickersNext]_pickersVars => [Own]_pickersVars
  <2> SUFFICES ASSUME IInv, Bindings, PickersNext PROVE Own
    OBVIOUS
  <2>1. CASE UNCHANGED bound
    BY <2>1
  <2>2. CASE \E u \in Threads: \E w:
               /\ bound' = [bound EXCEPT ![u] = w]
               /\ w = 0 \/ handler[u].at \in {"find", "create", "hook"}
    BY <2>2
  <2> QED BY <2>1, <2>2, BindStep
<1> QED BY <1>1, <1>2, <1>3, InitInv, NextInv, PTL DEF PickersSpec, BoundByOwnButton
==============================================================================
