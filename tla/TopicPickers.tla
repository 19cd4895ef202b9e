---------------------------- MODULE TopicPickers -----------------------------
(***************************************************************************)
(* How a topic gets its first window (bot.py: text_handler, the picker     *)
(* branches of callback_handler, _continue_creation_with_profile and       *)
(* _create_and_bind_window), with the local backend.                       *)
(*                                                                         *)
(* The first message of an unbound topic is held while the user picks a    *)
(* folder, an agent, and a session or window, and is sent to the window    *)
(* the topic gets.  What is picked so far is kept in context.user_data:    *)
(* one dictionary for the user, shared by the handlers of all his topics,  *)
(* which run one at a time for a topic and interleave between topics at    *)
(* every await.  A handler that waits is in its topic's `handler'.         *)
(***************************************************************************)
EXTENDS Naturals, Sequences, FiniteSets

CONSTANTS
  Threads,      \* the topics, by their thread ids
  NoTopic,      \* _pending_thread_id is unset
  MaxTexts,     \* bound on the messages typed
  MaxOpened     \* bound on the windows created

VARIABLES
  roots,     \* project_roots_configured
  typed,     \* typed[n]: the topic of message n
  bound,     \* bound[t]: window of topic t, 0 without one
  windows,   \* windows created so far, numbered from 1
  tracked,   \* windows whose agent session is known
  resumed,   \* windows that run the session of the folder's history
  data,      \* context.user_data
  shown,     \* shown[t]: the kinds of buttons topic t has been shown
  handler,   \* handler[t]: the update of t that waits, and what it holds
  sent       \* messages sent to an agent: [text, topic]

pickersVars == <<roots, typed, bound, windows, tracked, resumed, data, shown, handler, sent>>

NoUpdate == [at |-> "idle", topic |-> NoTopic, window |-> 0, text |-> 0]
At(place, topic, window) == [NoUpdate EXCEPT !.at = place, !.topic = topic, !.window = window]

\* rootList, windowList, sessionList: what an index in a button refers to.
NoData == [state |-> "none", pending |-> NoTopic, text |-> 0,
           rootList |-> FALSE, windowList |-> {}, sessionList |-> FALSE]

PickersInit ==
  /\ roots \in BOOLEAN
  /\ typed = <<>> /\ sent = <<>>
  /\ bound = [t \in Threads |-> 0] /\ resumed = {}
  /\ windows \in {0, 1} /\ tracked = 1..windows
  /\ data = NoData
  /\ shown = [t \in Threads |-> {}] /\ handler = [t \in Threads |-> NoUpdate]

Shown(t, kinds) == shown' = [shown EXCEPT ![t] = @ \cup kinds]
Waits(t, h) == handler' = [handler EXCEPT ![t] = h]
SessionBound == \E t \in Threads: bound[t] \in resumed
SharesWindow(t) == \E u \in Threads \ {t}: bound[u] = bound[t]

\* The clear_*_state helpers and the pops that follow them.
ClearBrowse(d) == [d EXCEPT !.state = "none", !.rootList = FALSE]
ClearRoot(d) == [d EXCEPT !.state = "none", !.rootList = FALSE]
ClearWindows(d) == [d EXCEPT !.state = "none", !.windowList = {}]
ClearSessions(d) == [d EXCEPT !.state = "none", !.sessionList = FALSE]
\* Fault: the message stays.
PoppedTopic(d) == [d EXCEPT !.pending = NoTopic]
Popped(d) == [d EXCEPT !.pending = NoTopic, !.text = 0]
\* Message n of topic t waits for a window.
Held(d, t, n) == [d EXCEPT !.pending = t, !.text = n]

ShowPicker(t, d) ==
  /\ data' = [d EXCEPT !.state = IF roots THEN "root" ELSE "browse",
                       !.rootList = @ \/ roots]
  /\ Shown(t, IF roots THEN {"root"} ELSE {"browse"})

------------------------------------------------------------------------------
(* text_handler                                                            *)

Picking == {"window", "root", "browse", "session"}
\* A picker of another topic is dropped by a message.
Dropped ==
  IF data.state \notin Picking THEN data
  ELSE Popped(CASE data.state = "window" -> ClearWindows(data)
                [] data.state = "root" -> ClearRoot(data)
                [] data.state = "browse" -> ClearBrowse(data)
                [] data.state = "session" -> ClearSessions(data))

Deliver(t, text, w) ==
  /\ sent' = Append(sent, [text |-> text, topic |-> t])
  /\ tracked' = tracked \cup {w}

Text(t) ==
  LET n == Len(typed) + 1 IN
  /\ handler[t] = NoUpdate /\ n <= MaxTexts
  /\ typed' = Append(typed, t)
  /\ UNCHANGED <<roots, bound, windows, resumed>>
  /\ \/ \* "Please use the picker above"
        /\ data.state \in Picking /\ data.pending = t
        /\ UNCHANGED <<data, shown, handler, sent, tracked>>
     \/ /\ ~(data.state \in Picking /\ data.pending = t)
        /\ \/ /\ bound[t] # 0
              /\ data' = Dropped /\ UNCHANGED <<shown, handler>>
              /\ IF SharesWindow(t) THEN UNCHANGED <<sent, tracked>> ELSE Deliver(t, n, bound[t])
           \/ /\ bound[t] = 0 /\ roots
              /\ ShowPicker(t, Held(Dropped, t, n))
              /\ UNCHANGED <<handler, sent, tracked>>
           \/ /\ bound[t] = 0 /\ ~roots
              /\ data' = Dropped
              /\ Waits(t, [At("list", t, 0) EXCEPT !.text = n])
              /\ UNCHANGED <<shown, sent, tracked>>

\* list_windows has returned: the unbound windows are offered, if any.
TextListed(t) ==
  LET free == tracked \ {bound[u]: u \in Threads}
      held == Held(data, t, handler[t].text)
  IN
  /\ handler[t].at = "list" /\ Waits(t, NoUpdate)
  /\ IF free = {} THEN ShowPicker(t, held)
     ELSE /\ data' = [held EXCEPT !.state = "window", !.windowList = free]
          /\ Shown(t, {"window"})
  /\ UNCHANGED <<roots, typed, bound, windows, tracked, resumed, sent>>

------------------------------------------------------------------------------
(* callback_handler                                                        *)

\* The topic check of the buttons; an unset topic passes it.
Matches(t) == data.pending \in {NoTopic, t}
Pressed(t, kind) == handler[t] = NoUpdate /\ kind \in shown[t]

\* A button whose handler has nothing to wait for before it is done.
Quick(t) == UNCHANGED <<roots, typed, bound, windows, tracked, resumed, handler, sent>>
Cancel(t, d) == data' = Popped(d) /\ UNCHANGED shown /\ Quick(t)

RootSelect(t) ==
  /\ Pressed(t, "root") /\ Matches(t) /\ data.rootList
  /\ data' = [data EXCEPT !.state = "browse", !.rootList = FALSE]
  /\ Shown(t, {"browse"}) /\ Quick(t)
RootCancel(t) == Pressed(t, "root") /\ Matches(t) /\ Cancel(t, ClearRoot(data))

DirCancel(t) == Pressed(t, "browse") /\ Matches(t) /\ Cancel(t, ClearBrowse(data))
\* The only button that takes the topic over when none is pending, and that
\* drops a picker of another topic.
DirConfirm(t) ==
  /\ Pressed(t, "browse") /\ UNCHANGED <<roots, typed, bound, windows, tracked, resumed, shown, sent>>
  /\ \/ /\ Matches(t)
        /\ data' = ClearBrowse([data EXCEPT !.pending = t])
        /\ Waits(t, At("agents", t, 0))
     \/ /\ ~Matches(t)
        /\ data' = Popped(ClearBrowse(data)) /\ UNCHANGED handler

\* The agent's models are read while other handlers run.
ProfileAgent(t) ==
  /\ Pressed(t, "agent") /\ Matches(t) /\ Waits(t, At("agents", t, 0))
  /\ UNCHANGED <<roots, typed, bound, windows, tracked, resumed, data, shown, sent>>
AgentsShown(t) ==
  /\ handler[t].at = "agents" /\ Waits(t, NoUpdate)
  /\ data' = [data EXCEPT !.state = "agent"] /\ Shown(t, {"agent"})
  /\ UNCHANGED <<roots, typed, bound, windows, tracked, resumed, sent>>
\* A model, which no topic check guards; effort and speed do as much, checked.
ProfileModel(t) ==
  /\ Pressed(t, "agent")
  /\ data' = [data EXCEPT !.state = "agent"] /\ UNCHANGED shown /\ Quick(t)
ProfileCancel(t) ==
  /\ Pressed(t, "agent") /\ Matches(t)
  /\ Cancel(t, ClearBrowse(ClearSessions(data)))

\* The topic a creation binds: read before the first wait.
ProfileConfirm(t) ==
  /\ Pressed(t, "agent") /\ Matches(t)
  /\ Waits(t, At("sessions", data.pending, 0))
  /\ UNCHANGED <<roots, typed, bound, windows, tracked, resumed, data, shown, sent>>
\* Fault: read after it.
ReadLate(t) == data.pending
CreationTopic(t) == handler[t].topic

\* list_sessions_for_directory has returned.
Listed(t) ==
  /\ handler[t].at = "sessions"
  /\ UNCHANGED <<roots, typed, bound, windows, tracked, resumed, sent>>
  /\ \/ /\ ~SessionBound   \* a session to resume, not filtered out
        /\ data' = [data EXCEPT !.state = "session", !.sessionList = TRUE]
        /\ Shown(t, {"session"}) /\ Waits(t, NoUpdate)
     \/ /\ Waits(t, At("create", CreationTopic(t), 0)) /\ UNCHANGED <<data, shown>>

\* An unset topic is recovered from the update.
SessionSelect(t) ==
  /\ Pressed(t, "session") /\ Matches(t) /\ data.sessionList
  /\ UNCHANGED <<roots, typed, bound, windows, tracked, resumed, shown, sent>>
  /\ IF SessionBound
     THEN data' = [data EXCEPT !.sessionList = FALSE] /\ UNCHANGED handler
     ELSE data' = ClearSessions(data) /\ Waits(t, At("resume", t, 0))
SessionNew(t) ==
  /\ Pressed(t, "session") /\ Matches(t)
  /\ data' = ClearSessions(data) /\ Waits(t, At("create", t, 0))
  /\ UNCHANGED <<roots, typed, bound, windows, tracked, resumed, shown, sent>>
SessionCancel(t) == Pressed(t, "session") /\ Matches(t) /\ Cancel(t, ClearSessions(data))

WindowBind(t) ==
  /\ Pressed(t, "window") /\ Matches(t)
  /\ \E w \in data.windowList: Waits(t, At("find", t, w))
  /\ UNCHANGED <<roots, typed, bound, windows, tracked, resumed, data, shown, sent>>
\* find_window_by_id has returned.  That another topic took the window in the
\* meantime is not noticed.
WindowFound(t) ==
  /\ handler[t].at = "find"
  /\ bound' = [bound EXCEPT ![t] = handler[t].window]
  /\ data' = ClearWindows(data)
  /\ Waits(t, [handler[t] EXCEPT !.at = "bound"])
  /\ UNCHANGED <<roots, typed, windows, tracked, resumed, shown, sent>>
WindowNew(t) ==
  /\ Pressed(t, "window") /\ Matches(t)
  /\ ShowPicker(t, ClearWindows(data)) /\ Quick(t)
WindowCancel(t) == Pressed(t, "window") /\ Matches(t) /\ Cancel(t, ClearWindows(data))

------------------------------------------------------------------------------
(* _create_and_bind_window                                                 *)

Bound(t, w, h) ==
  IF h.topic = NoTopic THEN UNCHANGED bound /\ Waits(t, NoUpdate)
  ELSE bound' = [bound EXCEPT ![h.topic] = w] /\ Waits(t, At("bound", h.topic, w))

WindowCreated(t) ==
  /\ handler[t].at = "create" /\ windows < MaxOpened
  /\ windows' = windows + 1 /\ Bound(t, windows + 1, handler[t])
  /\ UNCHANGED <<roots, typed, tracked, resumed, data, shown, sent>>
\* A resumed session is awaited, or registered, before the window is bound.
Launched(t) ==
  /\ handler[t].at = "resume" /\ windows < MaxOpened
  /\ windows' = windows + 1 /\ Waits(t, At("hook", handler[t].topic, windows + 1))
  /\ UNCHANGED <<roots, typed, bound, tracked, resumed, data, shown, sent>>
Hooked(t) ==
  LET w == handler[t].window IN
  /\ handler[t].at = "hook" /\ Bound(t, w, handler[t])
  /\ tracked' = tracked \cup {w} /\ resumed' = resumed \cup {w}
  /\ UNCHANGED <<roots, typed, windows, data, shown, sent>>
CreateFails(t) ==
  /\ handler[t].at \in {"create", "resume"} /\ Waits(t, NoUpdate)
  /\ data' = IF handler[t].topic = NoTopic THEN data ELSE Popped(data)
  /\ UNCHANGED <<roots, typed, bound, windows, tracked, resumed, shown, sent>>

\* The user has been told; the held message, if any by now, goes to the window.
Forward(t) ==
  /\ handler[t].at = "bound" /\ Waits(t, NoUpdate)
  /\ data' = Popped(data)
  /\ IF data.text = 0 THEN UNCHANGED <<sent, tracked>>
     ELSE Deliver(handler[t].topic, data.text, handler[t].window)
  /\ UNCHANGED <<roots, typed, bound, windows, resumed, shown>>

------------------------------------------------------------------------------
(* unbind_command and clear_topic_state                                    *)

UnbindCommand(t) ==
  /\ handler[t] = NoUpdate /\ bound[t] # 0
  /\ bound' = [bound EXCEPT ![t] = 0] /\ Waits(t, At("unbound", t, 0))
  /\ UNCHANGED <<roots, typed, windows, tracked, resumed, data, shown, sent>>
Unbound(t) ==
  /\ handler[t].at = "unbound" /\ Waits(t, NoUpdate)
  /\ data' = IF data.pending # t THEN data
             ELSE Popped(ClearBrowse(ClearSessions(ClearWindows(data))))
  /\ UNCHANGED <<roots, typed, bound, windows, tracked, resumed, shown, sent>>

------------------------------------------------------------------------------
Picks(t) ==
  \/ RootSelect(t) \/ RootCancel(t)
  \/ DirConfirm(t) \/ DirCancel(t)
  \/ ProfileAgent(t) \/ ProfileModel(t) \/ ProfileConfirm(t) \/ ProfileCancel(t)
  \/ SessionSelect(t) \/ SessionNew(t) \/ SessionCancel(t)
  \/ WindowBind(t) \/ WindowNew(t) \/ WindowCancel(t)
Resumes(t) ==
  \/ TextListed(t) \/ AgentsShown(t) \/ Listed(t) \/ WindowFound(t)
  \/ WindowCreated(t) \/ Launched(t) \/ Hooked(t) \/ CreateFails(t)
  \/ Forward(t) \/ Unbound(t)
PickersNext == \E t \in Threads: Text(t) \/ UnbindCommand(t) \/ Picks(t) \/ Resumes(t)
PickersSpec == PickersInit /\ [][PickersNext]_pickersVars

------------------------------------------------------------------------------
\* However often and in whatever order the buttons of several topics are
\* pressed, a held message is sent once: by the handler that finds it, which
\* takes it out of user_data before it waits again.
FirstPromptOnce ==
  \A i, j \in DOMAIN sent: sent[i].text = sent[j].text => i = j

\* A topic gets a window only by a button pressed in it, whatever topic
\* user_data belongs to by the time the window exists.
BoundByOwnButton ==
  [][\A t \in Threads: bound'[t] \notin {0, bound[t]} =>
       handler[t].at \in {"find", "create", "hook"}]_pickersVars

\* A held message is sent to the window of the topic it was typed in.
PromptReachesItsTopic ==
  \A i \in DOMAIN sent: typed[sent[i].text] = sent[i].topic
==============================================================================
