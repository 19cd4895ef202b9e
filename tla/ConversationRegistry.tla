------------------------ MODULE ConversationRegistry ------------------------
(***************************************************************************)
(* Which topic talks to which tmux window, and which agent session runs in *)
(* it: SessionManager's registry, its durable copy of the routes, and the  *)
(* file session_map.json that the agents' SessionStart hooks write.  The   *)
(* handlers of a topic (create, recover, rotate, close, ...) and the       *)
(* monitor's load_session_map interleave at their awaits, while windows    *)
(* die, the tmux server starts its numbering again and the bot restarts.   *)
(***************************************************************************)
EXTENDS Naturals, FiniteSets

CONSTANTS
  Topics,
  MaxWindows,   \* bound: ids the tmux server hands out
  Sessions,     \* sessions the agents may start
  Dirs, DirOf,  \* directories, and the one each session works in
  None,         \* no window, no session, no directory, no topic
  MaxEvents,    \* bound: disturbances of a behaviour
  Events        \* which disturbances the instance has

Windows == 1..MaxWindows

ASSUME ConversationRegistryAssumption ==
  /\ MaxWindows \in Nat /\ MaxEvents \in Nat
  /\ DirOf \in [Sessions -> Dirs] /\ IsFiniteSet(Topics)
  /\ None \notin Windows \cup Sessions \cup Dirs

VARIABLES
  tmux,    \* the windows of the tmux server: directory, running session, session to resume
  nextId,  \* the next id of the server
  used,    \* sessions that have been started
  map,     \* session_map.json
  mem,     \* the SessionManager: states of windows, bindings, targets
  routes,  \* the table conversation_routes
  load,    \* a load_session_map in flight: the file it has read
  flow,    \* the handler that runs for each topic
  owner,   \* history: the session a topic was given and has not given up
  events   \* history: disturbances so far

vars == <<tmux, nextId, used, map, mem, routes, load, flow, owner, events>>

Down == [dir |-> None, sess |-> None, asked |-> None]
Up(w) == tmux[w].dir # None
\* A window id without a WindowState.
NoState == [sess |-> None, dir |-> None, launch |-> FALSE, known |-> FALSE]
State(s, d, launching) == [sess |-> s, dir |-> d, launch |-> launching, known |-> TRUE]
Target(w, s) == [win |-> w, sess |-> s]
NoTarget == Target(None, None)
\* What a SessionManager holds: states of the windows, bindings and targets.
Registry(states, bind, tgt) == [states |-> states, bind |-> bind, tgt |-> tgt]
NoRoute == [win |-> None, sess |-> None, gen |-> 0]
Quiet == [pc |-> "idle", map |-> [w \in Windows |-> None]]
Done == [pc |-> "idle", win |-> None, old |-> None, sess |-> None, reserved |-> {},
         map |-> [w \in Windows |-> None]]

Init ==
  /\ tmux = [w \in Windows |-> Down] /\ nextId = 1 /\ used = {}
  /\ map = [w \in Windows |-> None]
  /\ mem = Registry([w \in Windows |-> NoState], [t \in Topics |-> None],
                    [t \in Topics |-> NoTarget])
  /\ routes = [t \in Topics |-> NoRoute]
  /\ load = Quiet
  /\ flow = [t \in Topics |-> Done]
  /\ owner = [t \in Topics |-> None]
  /\ events = 0

Event(e) == e \in Events /\ events < MaxEvents /\ events' = events + 1

(***************************************************************************)
(* SessionManager: operations on the registry m.                           *)
(***************************************************************************)

BoundTo(m, w) == {t \in Topics: m.bind[t] = w}
Shared(m, w) == w # None /\ Cardinality(BoundTo(m, w)) > 1
\* get_window_for_thread refuses an ambiguous window.
WindowOf(t) == IF mem.bind[t] # None /\ ~Shared(mem, mem.bind[t]) THEN mem.bind[t] ELSE None

\* The explicit local targets of a window follow its session.
SetTargets(m, w, s) ==
  [t \in Topics |-> IF m.tgt[t].win = w THEN Target(w, s) ELSE m.tgt[t]]

PrepareLaunch(m, w, d) ==
  Registry([m.states EXCEPT ![w] = State(None, d, TRUE)], m.bind, SetTargets(m, w, None))
Register(m, w, s) ==
  Registry([m.states EXCEPT ![w] = State(s, DirOf[s], FALSE)], m.bind, SetTargets(m, w, s))
ClearSession(m, w) ==
  Registry([m.states EXCEPT ![w] = State(None, None, @.launch)], m.bind, SetTargets(m, w, None))
Bind(m, t, w, s) ==
  Registry(m.states, [m.bind EXCEPT ![t] = w], [m.tgt EXCEPT ![t] = Target(w, s)])
BindThread(m, t, w) == Bind(m, t, w, m.states[w].sess)
\* The backend's targets carry no session.
BindTarget(m, t, w) == Bind(m, t, w, None)
BindRemote(m, t, s) == Bind(m, t, None, s)
Unbind(m, t) == Bind(m, t, None, None)
BindingsWithout(m, w) == [t \in Topics |-> IF m.bind[t] = w THEN None ELSE m.bind[t]]
\* Fault: the targets of the window stay.
RemoveStateOnly(m, w) == Registry([m.states EXCEPT ![w] = NoState], BindingsWithout(m, w), m.tgt)
RemoveState(m, w) ==
  Registry([m.states EXCEPT ![w] = NoState], BindingsWithout(m, w),
           [t \in Topics |-> IF m.tgt[t].win = w THEN NoTarget ELSE m.tgt[t]])

\* A route takes its session from the window's state when there is one.
RouteOf(m, t) ==
  LET w == m.tgt[t].win
  IN  Target(w, IF w # None /\ m.states[w].known THEN m.states[w].sess ELSE m.tgt[t].sess)

\* replace_conversation_registry: a changed route gets the next generation.
Persisted(m) ==
  [t \in Topics |->
     LET new == RouteOf(m, t)
         old == routes[t]
     IN  CASE m.tgt[t] = NoTarget -> NoRoute
           [] m.tgt[t] # NoTarget /\ Target(old.win, old.sess) = new /\ old.gen > 0 -> old
           [] OTHER -> [win |-> new.win, sess |-> new.sess, gen |-> old.gen + 1]]

\* _save_state: state.json and the durable registry follow the memory.
Save(m) == mem' = m /\ routes' = Persisted(m)

\* What the topics own after t gets window w: topics that had the window lose it.
Owned(t, w, s) ==
  [u \in Topics |-> IF u = t THEN s ELSE IF mem.bind[u] = w THEN None ELSE owner[u]]

(***************************************************************************)
(* load_session_map: the file is read, then the windows are listed and     *)
(* both are applied to whatever the registry is by then.                   *)
(***************************************************************************)

Readable(file, dirs, w) ==
  file[w] # None /\ (dirs[w] = None \/ dirs[w] = DirOf[file[w]])

\* Fault: a window without an entry goes, though a topic is bound to it.
LoadedBlindly(m, file, dirs, w) ==
  IF file[w] # None /\ Readable(file, dirs, w) THEN State(file[w], DirOf[file[w]], FALSE)
  ELSE IF file[w] = None /\ (\E v \in Windows: file[v] # None) THEN NoState ELSE m.states[w]

Loaded(m, file, dirs, w) ==
  LET s == file[w]
      old == m.states[w]
  IN  CASE s # None /\ Readable(file, dirs, w) -> State(s, DirOf[s], FALSE)
        [] s # None /\ ~Readable(file, dirs, w) ->
             IF old.sess = s /\ old.dir = DirOf[s] THEN State(None, None, old.launch)
             ELSE [old EXCEPT !.known = TRUE]
        [] s = None ->
             IF \/ \A v \in Windows: file[v] = None
                \/ BoundTo(m, w) # {}
                \/ old.launch /\ old.sess = None /\ dirs[w] # None
             THEN old ELSE NoState

LoadMap(m, file, dirs) ==
  Registry([w \in Windows |-> Loaded(m, file, dirs, w)], m.bind, m.tgt)

\* A window that is known to have a session is its topics' from then on.
Learned(m) ==
  [t \in Topics |-> IF m.bind[t] # None /\ m.states[m.bind[t]].sess # None
                    THEN m.states[m.bind[t]].sess ELSE owner[t]]

MapRead ==
  /\ load.pc = "idle"
  /\ load' = [pc |-> "apply", map |-> map]
  /\ UNCHANGED <<tmux, nextId, used, map, mem, routes, flow, owner, events>>

LiveDirs == [w \in Windows |-> tmux[w].dir]

MapLoaded ==
  /\ load.pc = "apply"
  /\ LET m == LoadMap(mem, load.map, LiveDirs)
     IN  Save(m) /\ owner' = Learned(m)
  /\ load' = Quiet
  /\ UNCHANGED <<tmux, nextId, used, map, flow, events>>

(***************************************************************************)
(* tmux and the agents.                                                    *)
(***************************************************************************)

Running == {tmux[w].sess: w \in Windows}

\* A window starts with the next id of the server.
Opened(w, d, s) ==
  /\ tmux' = [tmux EXCEPT ![w] = [dir |-> d, sess |-> None, asked |-> s]]
  /\ nextId' = w + 1

\* SessionStart: the agent goes on with the session it was asked to resume, or starts
\* another one; the hook records it.
SessionStart(w) ==
  /\ Up(w) /\ tmux[w].sess = None
  /\ \E s \in Sessions:
       /\ DirOf[s] = tmux[w].dir /\ s \notin Running
       /\ s = tmux[w].asked \/ s \notin used
       /\ tmux' = [tmux EXCEPT ![w].sess = s]
       /\ used' = used \cup {s}
       /\ map' = [map EXCEPT ![w] = s]
  /\ UNCHANGED <<nextId, mem, routes, load, flow, owner, events>>

\* A window is closed or killed outside the bot, or hibernated by it.
WindowDies(w) ==
  /\ Up(w) /\ Event("die")
  /\ tmux' = [tmux EXCEPT ![w] = Down]
  /\ UNCHANGED <<nextId, used, map, mem, routes, load, flow, owner>>

(***************************************************************************)
(* The handlers of a topic.                                                *)
(***************************************************************************)

Idle(t) == flow[t].pc = "idle"
Goto(t, f) == flow' = [flow EXCEPT ![t] = f]

\* An unbound topic asks for a window, for a new session or to resume a closed one.
Create(t) ==
  /\ Idle(t) /\ mem.tgt[t] = NoTarget
  /\ nextId \in Windows
  /\ \E d \in Dirs, s \in used \cup {None}:
       /\ s # None => DirOf[s] = d /\ s \notin Running
       /\ Opened(nextId, d, s)
       /\ Goto(t, [Done EXCEPT !.pc = "created", !.win = nextId, !.sess = s])
  /\ UNCHANGED <<used, map, mem, routes, load, owner, events>>

\* A new session is bound at once; a resumed one waits for its hook.
Created(t) ==
  /\ flow[t].pc = "created"
  /\ LET w == flow[t].win
         m == PrepareLaunch(mem, w, tmux[w].dir)
     IN  IF flow[t].sess = None
         THEN /\ Save(BindTarget(m, t, w))
              /\ owner' = Owned(t, w, None)
              /\ Goto(t, Done)
         ELSE /\ Save(m)
              /\ owner' = [u \in Topics |-> IF mem.bind[u] = w THEN None ELSE owner[u]]
              /\ Goto(t, [flow[t] EXCEPT !.pc = "hook"])
  /\ UNCHANGED <<tmux, nextId, used, map, load, events>>

\* wait_for_session_map_entry has found an entry and loaded it, or the time is up:
\* then the session that was asked for is registered, and written to the file.
Identify(t, m) ==
  LET w == flow[t].win
      found == LoadMap(mem, map, LiveDirs)
  IN  \/ /\ map[w] # None /\ found.states[w].sess # None
         /\ m = found /\ UNCHANGED map
      \/ /\ m = Register(mem, w, flow[t].sess)
         /\ map' = [map EXCEPT ![w] = flow[t].sess]

\* The registries Identify can lead to.
Identified(t) ==
  {LoadMap(mem, map, LiveDirs), Register(mem, flow[t].win, flow[t].sess)}

Resumed(t) ==
  /\ flow[t].pc = "hook"
  /\ \E m \in Identified(t):
       /\ Identify(t, m)
       /\ Save(BindTarget(m, t, flow[t].win))
       /\ owner' = Owned(t, flow[t].win, m.states[flow[t].win].sess)
  /\ Goto(t, Done)
  /\ UNCHANGED <<tmux, nextId, used, load, events>>

\* A bound topic whose window is gone gets a new one for its session.  The ids of
\* other saved topics are noted before anything is awaited.
Recover(t) ==
  /\ Idle(t) /\ WindowOf(t) # None /\ ~Up(WindowOf(t))
  /\ LET w == WindowOf(t)
         st == mem.states[w]
     IN  /\ st.sess # None /\ st.dir # None
         /\ Goto(t, [Done EXCEPT !.pc = "recover", !.old = w, !.sess = st.sess,
              !.reserved = {v \in Windows: v # w /\ (mem.states[v].known \/ BoundTo(mem, v) # {})}])
  /\ UNCHANGED <<tmux, nextId, used, map, mem, routes, load, owner, events>>

\* A window with a reserved id is stopped and the next one is tried.
Recreated(t) ==
  /\ flow[t].pc = "recover" /\ nextId \in Windows
  /\ IF nextId \in flow[t].reserved
     THEN nextId' = nextId + 1 /\ UNCHANGED <<tmux, flow>>
     ELSE /\ Opened(nextId, DirOf[flow[t].sess], flow[t].sess)
          /\ Goto(t, [flow[t] EXCEPT !.pc = "started", !.win = nextId])
  /\ UNCHANGED <<used, map, mem, routes, load, owner, events>>

\* The new window has a live agent.
Started(t) ==
  /\ flow[t].pc = "started" /\ Up(flow[t].win)
  /\ Save(PrepareLaunch(mem, flow[t].win, DirOf[flow[t].sess]))
  /\ owner' = [u \in Topics |-> IF u # t /\ mem.bind[u] = flow[t].win THEN None ELSE owner[u]]
  /\ Goto(t, [flow[t] EXCEPT !.pc = "rehook"])
  /\ UNCHANGED <<tmux, nextId, used, map, load, events>>

\* discard_failed_window: a window that got the topic's own id gives it back the
\* WindowState it had, the object prepare_window_launch has worked on by then.
Discard(t) ==
  /\ \/ flow[t].pc = "started" /\ Event("dead")
     \/ flow[t].pc = "rehook" /\ Event("unhealthy")
  /\ LET w == flow[t].win
     IN  /\ tmux' = [tmux EXCEPT ![w] = Down]
         /\ IF w = flow[t].old
            THEN /\ Save(Registry([mem.states EXCEPT ![w].known = TRUE], mem.bind, mem.tgt))
                 /\ Goto(t, Done)
            ELSE /\ Goto(t, [Done EXCEPT !.pc = "unmap", !.win = w])
                 /\ UNCHANGED <<mem, routes>>
  /\ UNCHANGED <<nextId, used, map, load, owner>>

\* Nobody waits any more: the topic moves to its new window and the old one's state goes.
Rebound(t) ==
  /\ flow[t].pc = "rehook"
  /\ LET w == flow[t].win
         old == flow[t].old
     IN  /\ \E m \in Identified(t):
              /\ Identify(t, m)
              /\ Save(BindTarget(m, t, w))
              /\ owner' = Owned(t, w, m.states[w].sess)
         /\ Goto(t, IF w = old THEN Done ELSE [Done EXCEPT !.pc = "unmap", !.win = old])
  /\ UNCHANGED <<tmux, nextId, used, load, events>>

\* The usage limit: a bound topic moves to a fresh window of another account.
Rotate(t) ==
  /\ Idle(t) /\ WindowOf(t) # None /\ Up(WindowOf(t))
  /\ nextId \in Windows /\ Event("limit")
  /\ Opened(nextId, tmux[WindowOf(t)].dir, None)
  /\ Goto(t, [Done EXCEPT !.pc = "created", !.win = nextId])
  /\ UNCHANGED <<used, map, mem, routes, load, owner>>

\* The topic is closed, or found deleted by the status poller: its window is killed.
Close(t) ==
  /\ Idle(t) /\ Event("close")
  /\ mem.bind[t] # None
  /\ tmux' = [tmux EXCEPT ![mem.bind[t]] = Down]
  /\ Goto(t, [Done EXCEPT !.pc = "close", !.win = mem.bind[t]])
  /\ UNCHANGED <<nextId, used, map, mem, routes, load, owner>>

Closed(t) ==
  /\ flow[t].pc = "close"
  /\ Save(Unbind(mem, t))
  /\ owner' = [owner EXCEPT ![t] = None]
  /\ Goto(t, [flow[t] EXCEPT !.pc = "unmap"])
  /\ UNCHANGED <<tmux, nextId, used, map, load, events>>

\* remove_session_map_entry reads the file, and writes it back when it has it.
Unmap(t) ==
  /\ flow[t].pc = "unmap"
  /\ Goto(t, [flow[t] EXCEPT !.pc = "write", !.map = map])
  /\ UNCHANGED <<tmux, nextId, used, map, mem, routes, load, owner, events>>

Unmapped(t) ==
  /\ flow[t].pc = "write"
  /\ LET w == flow[t].win
     IN  /\ map' = IF flow[t].map[w] = None THEN map ELSE [flow[t].map EXCEPT ![w] = None]
         /\ Save(RemoveState(mem, w))
         /\ owner' = [u \in Topics |-> IF mem.bind[u] = w THEN None ELSE owner[u]]
  /\ Goto(t, Done)
  /\ UNCHANGED <<tmux, nextId, used, load, events>>

\* /unbind, and a message to a window that is gone and cannot be recovered.
UnbindTopic(t) ==
  /\ Idle(t) /\ mem.tgt[t] # NoTarget
  /\ \/ Event("unbind")
     \/ /\ WindowOf(t) # None /\ ~Up(WindowOf(t)) /\ mem.states[WindowOf(t)].sess = None
        /\ UNCHANGED events
  /\ Save(Unbind(mem, t))
  /\ owner' = [owner EXCEPT ![t] = None]
  /\ UNCHANGED <<tmux, nextId, used, map, load, flow>>

\* /clear: the agent leaves its session.
Clear(t) ==
  /\ Idle(t) /\ WindowOf(t) # None /\ Up(WindowOf(t)) /\ Event("clear")
  /\ LET w == WindowOf(t)
     IN  /\ Save(ClearSession(mem, w))
         /\ tmux' = [tmux EXCEPT ![w] = [dir |-> tmux[w].dir, sess |-> None, asked |-> None]]
  /\ owner' = [owner EXCEPT ![t] = None]
  /\ UNCHANGED <<nextId, used, map, load, flow>>

\* A topic on another node.
GoRemote(t) ==
  /\ Idle(t) /\ mem.tgt[t] = NoTarget /\ Event("remote")
  /\ \E s \in Sessions: s \in used /\ Save(BindRemote(mem, t, s))
  /\ UNCHANGED <<tmux, nextId, used, map, load, flow, owner>>

\* The picker lists windows that no topic has; one of them is chosen later.
Pickable(w) == Up(w) /\ mem.states[w].sess # None
OpenPicker(t) ==
  /\ Idle(t) /\ mem.tgt[t] = NoTarget /\ Event("pick")
  /\ \E w \in Windows:
       /\ Pickable(w) /\ BoundTo(mem, w) = {}
       /\ Goto(t, [Done EXCEPT !.pc = "picker", !.win = w])
  /\ UNCHANGED <<tmux, nextId, used, map, mem, routes, load, owner>>

Pick(t) ==
  /\ flow[t].pc = "picker"
  /\ LET w == flow[t].win
     IN  IF Pickable(w)
         THEN /\ Save(BindThread(mem, t, w))
              /\ owner' = Owned(t, w, mem.states[w].sess)
         ELSE UNCHANGED <<mem, routes, owner>>
  /\ Goto(t, Done)
  /\ UNCHANGED <<tmux, nextId, used, map, load, events>>

(***************************************************************************)
(* The monitor's guess, and the restart of the bot.                        *)
(***************************************************************************)

HasBoundThread(s) == \E t \in Topics: mem.bind[t] # None /\ mem.states[mem.bind[t]].sess = s

\* A transcript nobody is bound to goes to a live window of its directory: to one with
\* a topic and no session, else to one with no session, else to one with a topic and a
\* session of another directory; the highest id wins.
Candidate(s) ==
  LET live == {w \in Windows: Up(w) /\ tmux[w].dir = DirOf[s]}
      vacant == {w \in live: mem.states[w].sess = None}
      bound == {w \in live: BoundTo(mem, w) # {}}
      stale == {w \in bound: mem.states[w].sess # None /\ mem.states[w].dir # DirOf[s]}
  IN  IF bound \cap vacant # {} THEN bound \cap vacant
      ELSE IF vacant # {} THEN vacant ELSE stale

AutoBind(s) ==
  /\ Event("guess")
  /\ s \in used /\ ~HasBoundThread(s)
  /\ \E w \in Candidate(s):
       /\ \A v \in Candidate(s): v <= w
       /\ LET m == Register(mem, w, s)
          IN  Save(m) /\ map' = [map EXCEPT ![w] = s] /\ owner' = Learned(m)
  /\ UNCHANGED <<tmux, nextId, used, load, flow>>

\* resolve_stale_ids: windows that are gone stay only for topics that can be recovered.
Resolved(m, alive) ==
  LET kept == alive \cup {w \in Windows: BoundTo(m, w) # {} /\ m.states[w].sess # None
                                         /\ m.states[w].dir # None}
  IN  Registry([w \in Windows |-> IF w \in kept THEN m.states[w] ELSE NoState],
               [t \in Topics |-> IF m.bind[t] \in kept THEN m.bind[t] ELSE None],
               [t \in Topics |-> IF m.tgt[t].win \in kept \cup {None} THEN m.tgt[t] ELSE NoTarget])

\* activate_durable_registry: the routes come from the table.
RestoredState(w) ==
  LET ts == {t \in Topics: routes[t].win = w}
      old == mem.states[w]
  IN  IF ts = {} \/ ~old.known THEN old
      ELSE [old EXCEPT !.sess = routes[CHOOSE t \in ts: TRUE].sess]
Restored ==
  Registry([w \in Windows |-> RestoredState(w)], [t \in Topics |-> routes[t].win],
           [t \in Topics |-> Target(routes[t].win, routes[t].sess)])

\* A recovery that got the topic's own id has cleared the saved session by then.
InPlace(t) == flow[t].pc = "rehook" /\ flow[t].win = flow[t].old

Activated(alive) ==
  /\ Save(Resolved(Restored, alive))
  /\ map' = [w \in Windows |-> IF w \in alive THEN map[w] ELSE None]
  /\ load' = Quiet
  /\ flow' = [t \in Topics |-> Done]
  /\ owner' = [t \in Topics |-> IF InPlace(t) THEN None ELSE owner[t]]

\* The bot restarts, alone or with its host: then all windows are gone and the tmux
\* server's ids start again.
Restart ==
  /\ Event("restart")
  /\ Activated({w \in Windows: Up(w)})
  /\ UNCHANGED <<tmux, nextId, used>>

Reboot ==
  /\ Event("reboot")
  /\ tmux' = [w \in Windows |-> Down] /\ nextId' = 1
  /\ Activated({})
  /\ UNCHANGED used

Handler(t) ==
  \/ Create(t) \/ Created(t) \/ Resumed(t) \/ Recover(t) \/ Recreated(t) \/ Started(t)
  \/ Discard(t) \/ Rebound(t) \/ Rotate(t) \/ Close(t) \/ Closed(t) \/ Unmap(t)
  \/ Unmapped(t) \/ UnbindTopic(t) \/ Clear(t) \/ GoRemote(t) \/ OpenPicker(t) \/ Pick(t)

LoadMapStep == MapRead \/ MapLoaded

Next ==
  \/ LoadMapStep \/ Restart \/ Reboot
  \/ \E w \in Windows: SessionStart(w) \/ WindowDies(w)
  \/ \E s \in Sessions: AutoBind(s)
  \/ \E t \in Topics: Handler(t)

Spec == Init /\ [][Next]_vars

(***************************************************************************)
(* Properties                                                              *)
(***************************************************************************)

TypeOK ==
  /\ tmux \in [Windows -> [dir: Dirs \cup {None}, sess: Sessions \cup {None}, asked: Sessions \cup {None}]]
  /\ nextId \in 1..MaxWindows + 1 /\ used \subseteq Sessions
  /\ map \in [Windows -> Sessions \cup {None}]
  /\ mem.states \in [Windows -> [sess: Sessions \cup {None}, dir: Dirs \cup {None},
                                 launch: BOOLEAN, known: BOOLEAN]]
  /\ mem.bind \in [Topics -> Windows \cup {None}]
  /\ mem.tgt \in [Topics -> [win: Windows \cup {None}, sess: Sessions \cup {None}]]
  /\ routes \in [Topics -> [win: Windows \cup {None}, sess: Sessions \cup {None}, gen: Nat]]
  /\ \A t \in Topics: routes[t] = NoRoute \/ routes[t].gen > 0
  /\ owner \in [Topics -> Sessions \cup {None}]
  /\ events \in 0..MaxEvents

\* The three records of a topic's window agree: the binding, the explicit target and
\* the durable route, whatever handlers, loads and restarts interleave.
RegistryAgrees ==
  \A t \in Topics:
    /\ mem.tgt[t].win = mem.bind[t] /\ routes[t].win = mem.bind[t]
    /\ mem.bind[t] # None => routes[t].sess = RouteOf(mem, t).sess

\* A topic that was given a session and has not given it up can still be recovered:
\* the dying of windows, the cleaning up after other topics, stale copies of
\* session_map.json and restarts leave it its window, session and directory.
KeptForRecovery ==
  \A t \in Topics:
    owner[t] # None /\ ~Shared(mem, mem.bind[t]) =>
      /\ mem.bind[t] # None
      /\ ~InPlace(t) =>
           mem.states[mem.bind[t]].sess # None /\ mem.states[mem.bind[t]].dir # None
=============================================================================
