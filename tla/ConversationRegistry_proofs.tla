--------------------- MODULE ConversationRegistry_proofs ---------------------
EXTENDS ConversationRegistry, FiniteSetTheorems, TLAPS

USE ConversationRegistryAssumption

SessionOrNone == Sessions \cup {None}
WindowOrNone == Windows \cup {None}
DirOrNone == Dirs \cup {None}
Entries == [Windows -> SessionOrNone]
WindowState == [sess: SessionOrNone, dir: DirOrNone, launch: BOOLEAN, known: BOOLEAN]
Memory == [states: [Windows -> WindowState], bind: [Topics -> WindowOrNone],
           tgt: [Topics -> [win: WindowOrNone, sess: SessionOrNone]]]
Places == {"idle", "created", "hook", "recover", "started", "rehook", "close", "unmap", "write", "picker"}
Flow == [pc: Places, win: WindowOrNone, old: WindowOrNone, sess: SessionOrNone,
         reserved: SUBSET Windows, map: Entries]

\* A registry whose targets are at the bound windows, and whose windows with a session
\* have its directory, too.
Sound(m) ==
  /\ m \in Memory
  /\ \A t \in Topics: m.tgt[t].win = m.bind[t]
  /\ \A w \in Windows: m.states[w].sess # None => m.states[w].dir # None /\ m.states[w].known

Agrees(m, rts) ==
  \A t \in Topics: rts[t].win = RouteOf(m, t).win /\ rts[t].sess = RouteOf(m, t).sess

\* A handler that waits knows the windows and the session it works on.
Steps(f) ==
  /\ f.pc \in {"created", "hook", "started", "rehook", "close", "unmap", "write", "picker"} => f.win \in Windows
  /\ f.pc \in {"hook", "recover", "started", "rehook"} => f.sess \in Sessions
  /\ f.pc \in {"recover", "started", "rehook"} => f.old \in Windows

Machine ==
  /\ tmux \in [Windows -> [dir: DirOrNone, sess: SessionOrNone, asked: SessionOrNone]]
  /\ nextId \in 1..MaxWindows + 1 /\ used \subseteq Sessions
  /\ map \in Entries
  /\ load \in [pc: {"idle", "apply"}, map: Entries]
  /\ owner \in [Topics -> SessionOrNone]
  /\ events \in 0..MaxEvents
Flows == flow \in [Topics -> Flow] /\ \A t \in Topics: Steps(flow[t])
Routes == [Topics -> [win: WindowOrNone, sess: SessionOrNone, gen: Nat]]
Records ==
  /\ Sound(mem) /\ Agrees(mem, routes)
  /\ routes \in Routes
  /\ \A t \in Topics: routes[t] = NoRoute \/ routes[t].gen > 0

RegInv == Machine /\ Flows /\ Records

------------------------------------------------------------------------------
(* What the operations of the SessionManager return.                        *)

LEMMA NoneIs ==
  /\ None \in SessionOrNone /\ None \in WindowOrNone /\ None \in DirOrNone
  /\ \A w \in Windows: w \in WindowOrNone /\ w # None
  /\ \A s \in Sessions: s \in SessionOrNone /\ s # None /\ DirOf[s] \in DirOrNone /\ DirOf[s] # None
BY DEF SessionOrNone, WindowOrNone, DirOrNone

LEMMA StateIs ==
  ASSUME NEW s \in SessionOrNone, NEW d \in DirOrNone, NEW l \in BOOLEAN
  PROVE  /\ State(s, d, l) \in WindowState /\ State(s, d, l).sess = s /\ State(s, d, l).dir = d
         /\ State(s, d, l).launch = l /\ State(s, d, l).known
BY DEF State, WindowState

LEMMA NoStateIs == NoState \in WindowState /\ NoState.sess = None
BY NoneIs DEF NoState, WindowState

LEMMA TargetIs ==
  ASSUME NEW w \in WindowOrNone, NEW s \in SessionOrNone
  PROVE  /\ Target(w, s) \in [win: WindowOrNone, sess: SessionOrNone]
         /\ Target(w, s).win = w /\ Target(w, s).sess = s
BY DEF Target

LEMMA SetTargetsIs ==
  ASSUME NEW m \in Memory, NEW w \in Windows, NEW s \in SessionOrNone
  PROVE  /\ SetTargets(m, w, s) \in [Topics -> [win: WindowOrNone, sess: SessionOrNone]]
         /\ \A t \in Topics: SetTargets(m, w, s)[t].win = m.tgt[t].win
BY DEF SetTargets, Target, Memory, WindowOrNone, SessionOrNone

LEMMA RegistryIs ==
  ASSUME NEW st, NEW b, NEW tg
  PROVE  Registry(st, b, tg).states = st /\ Registry(st, b, tg).bind = b /\ Registry(st, b, tg).tgt = tg
BY DEF Registry

LEMMA RegistrySound ==
  ASSUME NEW st \in [Windows -> WindowState], NEW b \in [Topics -> WindowOrNone],
         NEW tg \in [Topics -> [win: WindowOrNone, sess: SessionOrNone]],
         \A t \in Topics: tg[t].win = b[t],
         \A w \in Windows: st[w].sess # None => st[w].dir # None /\ st[w].known
  PROVE  Sound(Registry(st, b, tg))
BY DEF Sound, Memory, Registry

LEMMA SoundIs ==
  ASSUME NEW m, Sound(m)
  PROVE  /\ m \in Memory /\ m.states \in [Windows -> WindowState] /\ m.bind \in [Topics -> WindowOrNone]
         /\ m.tgt \in [Topics -> [win: WindowOrNone, sess: SessionOrNone]]
         /\ \A t \in Topics: m.tgt[t].win = m.bind[t]
         /\ \A w \in Windows: m.states[w].sess # None => m.states[w].dir # None /\ m.states[w].known
BY DEF Sound, Memory

\* A window gets another state, and its targets the session of it.
LEMMA WindowChangeIs ==
  ASSUME NEW m, Sound(m), NEW w \in Windows, NEW st \in WindowState, NEW s \in SessionOrNone,
         st.sess # None => st.dir # None /\ st.known
  PROVE  Sound(Registry([m.states EXCEPT ![w] = st], m.bind, SetTargets(m, w, s)))
<1>1. /\ m \in Memory /\ m.states \in [Windows -> WindowState] /\ m.bind \in [Topics -> WindowOrNone]
      /\ \A t \in Topics: m.tgt[t].win = m.bind[t]
      /\ \A v \in Windows: m.states[v].sess # None => m.states[v].dir # None /\ m.states[v].known
  BY SoundIs
<1> DEFINE sts == [m.states EXCEPT ![w] = st]
           tg == SetTargets(m, w, s)
<1>2. /\ sts \in [Windows -> WindowState]
      /\ \A v \in Windows: sts[v].sess # None => sts[v].dir # None /\ sts[v].known
  BY <1>1
<1>3. tg \in [Topics -> [win: WindowOrNone, sess: SessionOrNone]] /\ \A t \in Topics: tg[t].win = m.bind[t]
  BY <1>1, SetTargetsIs
<1> HIDE DEF sts, tg
<1>4. Sound(Registry(sts, m.bind, tg))
  BY <1>1, <1>2, <1>3, RegistrySound
<1> QED BY <1>4 DEF sts, tg

LEMMA PrepareLaunchIs ==
  ASSUME NEW m, Sound(m), NEW w \in Windows, NEW d \in DirOrNone
  PROVE  /\ Sound(PrepareLaunch(m, w, d)) /\ PrepareLaunch(m, w, d).bind = m.bind
         /\ \A v \in Windows \ {w}: PrepareLaunch(m, w, d).states[v] = m.states[v]
<1>1. State(None, d, TRUE) \in WindowState /\ State(None, d, TRUE).sess = None
  BY NoneIs, StateIs
<1>2. Sound(PrepareLaunch(m, w, d))
  BY <1>1, NoneIs, WindowChangeIs DEF PrepareLaunch
<1>3. /\ PrepareLaunch(m, w, d).bind = m.bind
      /\ PrepareLaunch(m, w, d).states = [m.states EXCEPT ![w] = State(None, d, TRUE)]
  BY RegistryIs DEF PrepareLaunch
<1> QED BY <1>2, <1>3, SoundIs

LEMMA RegisterIs ==
  ASSUME NEW m, Sound(m), NEW w \in Windows, NEW s \in Sessions
  PROVE  /\ Sound(Register(m, w, s)) /\ Register(m, w, s).bind = m.bind
         /\ Register(m, w, s).states[w].sess = s
         /\ \A v \in Windows \ {w}: Register(m, w, s).states[v] = m.states[v]
<1>0. s \in SessionOrNone /\ DirOf[s] \in DirOrNone /\ DirOf[s] # None
  BY NoneIs
<1>1. /\ State(s, DirOf[s], FALSE) \in WindowState /\ State(s, DirOf[s], FALSE).sess = s
      /\ State(s, DirOf[s], FALSE).dir # None /\ State(s, DirOf[s], FALSE).known
  BY <1>0, StateIs
<1>2. Sound(Register(m, w, s))
  BY <1>0, <1>1, WindowChangeIs DEF Register
<1>3. /\ Register(m, w, s).bind = m.bind
      /\ Register(m, w, s).states = [m.states EXCEPT ![w] = State(s, DirOf[s], FALSE)]
  BY RegistryIs DEF Register
<1>4. m.states \in [Windows -> WindowState] /\ State(s, DirOf[s], FALSE).sess = s
  BY <1>1, SoundIs
<1>5. \A v \in Windows \ {w}: Register(m, w, s).states[v] = m.states[v]
  BY <1>3, <1>4
<1>6. Register(m, w, s).states[w].sess = s
  BY <1>3, <1>4
<1> QED BY <1>2, <1>3, <1>5, <1>6

LEMMA ClearSessionIs ==
  ASSUME NEW m, Sound(m), NEW w \in Windows
  PROVE  /\ Sound(ClearSession(m, w)) /\ ClearSession(m, w).bind = m.bind
         /\ \A v \in Windows \ {w}: ClearSession(m, w).states[v] = m.states[v]
<1> DEFINE st == State(None, None, m.states[w].launch)
<1>1. m.states \in [Windows -> WindowState] /\ m.states[w].launch \in BOOLEAN
  BY SoundIs DEF WindowState
<1>2. st \in WindowState /\ st.sess = None
  BY <1>1, NoneIs, StateIs
<1>3. ClearSession(m, w) = Registry([m.states EXCEPT ![w] = st], m.bind, SetTargets(m, w, None))
  BY <1>1 DEF ClearSession
<1> HIDE DEF st
<1>4. Sound(ClearSession(m, w))
  BY <1>2, <1>3, NoneIs, WindowChangeIs
<1>5. ClearSession(m, w).bind = m.bind /\ ClearSession(m, w).states = [m.states EXCEPT ![w] = st]
  BY <1>3, RegistryIs
<1>6. \A v \in Windows \ {w}: ClearSession(m, w).states[v] = m.states[v]
  BY <1>1, <1>5
<1> QED BY <1>4, <1>5, <1>6

LEMMA RemoveStateIs ==
  ASSUME NEW m, Sound(m), NEW w \in Windows
  PROVE  /\ Sound(RemoveState(m, w))
         /\ \A v \in Windows \ {w}: RemoveState(m, w).states[v] = m.states[v]
         /\ \A t \in Topics: RemoveState(m, w).bind[t] = IF m.bind[t] = w THEN None ELSE m.bind[t]
<1> DEFINE sts == [m.states EXCEPT ![w] = NoState]
           b == BindingsWithout(m, w)
           tg == [t \in Topics |-> IF m.tgt[t].win = w THEN NoTarget ELSE m.tgt[t]]
<1>1. RemoveState(m, w) = Registry(sts, b, tg)
  BY DEF RemoveState
<1>2. /\ sts \in [Windows -> WindowState]
      /\ \A v \in Windows: sts[v].sess # None => sts[v].dir # None /\ sts[v].known
  BY SoundIs, NoStateIs
<1>3. NoTarget \in [win: WindowOrNone, sess: SessionOrNone] /\ NoTarget.win = None
  BY NoneIs, TargetIs DEF NoTarget
<1>4. \A t \in Topics: b[t] = IF m.bind[t] = w THEN None ELSE m.bind[t]
  BY DEF BindingsWithout
<1>5. /\ b \in [Topics -> WindowOrNone] /\ tg \in [Topics -> [win: WindowOrNone, sess: SessionOrNone]]
      /\ \A t \in Topics: tg[t].win = b[t]
  BY <1>3, SoundIs, NoneIs DEF BindingsWithout
<1>6. \A v \in Windows \ {w}: sts[v] = m.states[v]
  BY SoundIs
<1> HIDE DEF sts, b, tg
<1>7. Sound(RemoveState(m, w)) /\ RemoveState(m, w).states = sts /\ RemoveState(m, w).bind = b
  BY <1>1, <1>2, <1>5, RegistryIs, RegistrySound
<1> QED BY <1>4, <1>6, <1>7

\* Binding t elsewhere: to a window, to a remote session, or to nothing.
LEMMA BindIs ==
  ASSUME NEW m, Sound(m), NEW t \in Topics, NEW w \in WindowOrNone, NEW s \in SessionOrNone
  PROVE  /\ Sound(Bind(m, t, w, s)) /\ Bind(m, t, w, s).states = m.states
         /\ Bind(m, t, w, s).bind = [m.bind EXCEPT ![t] = w]
<1> DEFINE b == [m.bind EXCEPT ![t] = w]
           tg == [m.tgt EXCEPT ![t] = Target(w, s)]
<1>1. Bind(m, t, w, s) = Registry(m.states, b, tg)
  BY DEF Bind
<1>2. Target(w, s) \in [win: WindowOrNone, sess: SessionOrNone] /\ Target(w, s).win = w
  BY TargetIs
<1>3. /\ b \in [Topics -> WindowOrNone] /\ tg \in [Topics -> [win: WindowOrNone, sess: SessionOrNone]]
      /\ \A u \in Topics: tg[u].win = b[u]
  BY <1>2, SoundIs
<1>4. /\ m.states \in [Windows -> WindowState]
      /\ \A v \in Windows: m.states[v].sess # None => m.states[v].dir # None /\ m.states[v].known
  BY SoundIs
<1> HIDE DEF b, tg
<1>5. Sound(Bind(m, t, w, s)) /\ Bind(m, t, w, s).states = m.states /\ Bind(m, t, w, s).bind = b
  BY <1>1, <1>3, <1>4, RegistryIs, RegistrySound
<1> QED BY <1>5 DEF b

LEMMA BindThreadIs ==
  ASSUME NEW m, Sound(m), NEW t \in Topics, NEW w \in Windows
  PROVE  /\ Sound(BindThread(m, t, w)) /\ BindThread(m, t, w).states = m.states
         /\ BindThread(m, t, w).bind = [m.bind EXCEPT ![t] = w]
<1>1. m.states[w].sess \in SessionOrNone
  BY SoundIs DEF WindowState
<1> QED BY <1>1, NoneIs, BindIs DEF BindThread

LEMMA BindTargetIs ==
  ASSUME NEW m, Sound(m), NEW t \in Topics, NEW w \in Windows
  PROVE  /\ Sound(BindTarget(m, t, w)) /\ BindTarget(m, t, w).states = m.states
         /\ BindTarget(m, t, w).bind = [m.bind EXCEPT ![t] = w]
BY NoneIs, BindIs DEF BindTarget

LEMMA BindRemoteIs ==
  ASSUME NEW m, Sound(m), NEW t \in Topics, NEW s \in Sessions
  PROVE  /\ Sound(BindRemote(m, t, s)) /\ BindRemote(m, t, s).states = m.states
         /\ BindRemote(m, t, s).bind = [m.bind EXCEPT ![t] = None]
BY NoneIs, BindIs DEF BindRemote

LEMMA UnbindIs ==
  ASSUME NEW m, Sound(m), NEW t \in Topics
  PROVE  /\ Sound(Unbind(m, t)) /\ Unbind(m, t).states = m.states
         /\ Unbind(m, t).bind = [m.bind EXCEPT ![t] = None]
BY NoneIs, BindIs DEF Unbind

\* A file is applied window by window.  A window that keeps a topic loses its session
\* only to an entry it cannot have.
LEMMA LoadedIs ==
  ASSUME NEW m, Sound(m), NEW file \in Entries, NEW dirs, NEW w \in Windows
  PROVE  /\ Loaded(m, file, dirs, w) \in WindowState
         /\ Loaded(m, file, dirs, w).sess # None =>
              Loaded(m, file, dirs, w).dir # None /\ Loaded(m, file, dirs, w).known
         /\ file[w] # None /\ Readable(file, dirs, w) => Loaded(m, file, dirs, w).sess # None
         /\ file[w] = None /\ BoundTo(m, w) # {} => Loaded(m, file, dirs, w) = m.states[w]
<1> SUFFICES ASSUME NEW st, st = Loaded(m, file, dirs, w), NEW s, s = file[w], NEW old, old = m.states[w]
             PROVE  /\ st \in WindowState /\ (st.sess # None => st.dir # None /\ st.known)
                    /\ s # None /\ Readable(file, dirs, w) => st.sess # None
                    /\ s = None /\ BoundTo(m, w) # {} => st = old
  OBVIOUS
<1>1. /\ old \in WindowState /\ (old.sess # None => old.dir # None /\ old.known)
      /\ s \in SessionOrNone
  BY SoundIs DEF Entries
<1>2. CASE s # None /\ Readable(file, dirs, w)
  <2>1. st = State(s, DirOf[s], FALSE)
    BY <1>2 DEF Loaded
  <2>2. s \in Sessions
    BY <1>1, <1>2 DEF SessionOrNone
  <2>3. s \in SessionOrNone /\ DirOf[s] \in DirOrNone /\ DirOf[s] # None
    BY <2>2, NoneIs
  <2>4. st \in WindowState /\ st.sess = s /\ st.dir # None /\ st.known
    BY <2>1, <2>3 DEF State, WindowState
  <2> QED BY <1>2, <2>4
<1>3. CASE s # None /\ ~Readable(file, dirs, w)
  <2>1. st = IF old.sess = s /\ old.dir = DirOf[s] THEN State(None, None, old.launch)
             ELSE [old EXCEPT !.known = TRUE]
    BY <1>3 DEF Loaded
  <2>2. CASE old.sess = s /\ old.dir = DirOf[s]
    <3>1. old.launch \in BOOLEAN
      BY <1>1 DEF WindowState
    <3>2. st \in WindowState /\ st.sess = None
      BY <2>1, <2>2, <3>1, NoneIs, StateIs
    <3> QED BY <1>3, <3>2
  <2>3. CASE ~(old.sess = s /\ old.dir = DirOf[s])
    <3>1. st = [old EXCEPT !.known = TRUE]
      BY <2>1, <2>3
    <3>2. st \in WindowState /\ st.known /\ st.sess = old.sess /\ st.dir = old.dir
      BY <1>1, <3>1 DEF WindowState
    <3> QED BY <1>1, <1>3, <3>2
  <2> QED BY <2>2, <2>3
<1>4. CASE s = None
  <2>1. st = old \/ (st = NoState /\ BoundTo(m, w) = {})
    BY <1>4 DEF Loaded
  <2> QED BY <1>1, <1>4, <2>1, NoStateIs
<1> QED BY <1>2, <1>3, <1>4

LEMMA LoadMapIs ==
  ASSUME NEW m, Sound(m), NEW file \in Entries, NEW dirs
  PROVE  /\ Sound(LoadMap(m, file, dirs)) /\ LoadMap(m, file, dirs).bind = m.bind
         /\ \A w \in Windows: LoadMap(m, file, dirs).states[w] = Loaded(m, file, dirs, w)
<1> DEFINE sts == [w \in Windows |-> Loaded(m, file, dirs, w)]
<1>1. LoadMap(m, file, dirs) = Registry(sts, m.bind, m.tgt)
  BY DEF LoadMap
<1>2. \A w \in Windows: sts[w] = Loaded(m, file, dirs, w)
  OBVIOUS
<1>3. ASSUME NEW w \in Windows
      PROVE  sts[w] \in WindowState /\ (sts[w].sess # None => sts[w].dir # None /\ sts[w].known)
  BY LoadedIs
<1>4. sts \in [Windows -> WindowState]
  BY <1>3
<1>5. /\ m.bind \in [Topics -> WindowOrNone]
      /\ m.tgt \in [Topics -> [win: WindowOrNone, sess: SessionOrNone]]
      /\ \A t \in Topics: m.tgt[t].win = m.bind[t]
  BY SoundIs
<1> HIDE DEF sts
<1>6. Sound(LoadMap(m, file, dirs)) /\ LoadMap(m, file, dirs).states = sts /\ LoadMap(m, file, dirs).bind = m.bind
  BY <1>1, <1>3, <1>4, <1>5, RegistryIs, RegistrySound
<1> QED BY <1>2, <1>6

\* The registry and its durable copy agree after a save.
LEMMA SaveAgrees ==
  ASSUME NEW m, Sound(m), Save(m), routes \in Routes
  PROVE  /\ mem' = m /\ Agrees(m, routes')
         /\ routes' \in Routes
         /\ \A t \in Topics: routes'[t] = NoRoute \/ routes'[t].gen > 0
<1> USE DEF Routes
<1> DEFINE new(t) == RouteOf(m, t)
<1>1. mem' = m /\ routes' = Persisted(m)
  BY DEF Save
<1>2. \A t \in Topics: new(t) = [win |-> new(t).win, sess |-> new(t).sess]
                       /\ new(t).win = m.tgt[t].win
                       /\ new(t).win \in WindowOrNone /\ new(t).sess \in SessionOrNone
  BY DEF RouteOf, Target, Sound, Memory, WindowState, WindowOrNone
<1>3. \A t \in Topics: m.tgt[t] = NoTarget => new(t).win = None /\ new(t).sess = None
  BY DEF RouteOf, Target, NoTarget
<1> HIDE DEF new
<1>4. ASSUME NEW t \in Topics
      PROVE  /\ routes'[t].win = new(t).win /\ routes'[t].sess = new(t).sess
             /\ routes'[t] \in [win: WindowOrNone, sess: SessionOrNone, gen: Nat]
             /\ routes'[t] = NoRoute \/ routes'[t].gen > 0
  <2>1. routes'[t] = CASE m.tgt[t] = NoTarget -> NoRoute
           [] m.tgt[t] # NoTarget /\ Target(routes[t].win, routes[t].sess) = new(t) /\ routes[t].gen > 0 -> routes[t]
           [] OTHER -> [win |-> new(t).win, sess |-> new(t).sess, gen |-> routes[t].gen + 1]
    BY <1>1 DEF Persisted, new
  <2>2. CASE m.tgt[t] = NoTarget
    BY <1>3, <2>1, <2>2 DEF NoRoute, WindowOrNone, SessionOrNone
  <2>3. CASE m.tgt[t] # NoTarget /\ Target(routes[t].win, routes[t].sess) = new(t) /\ routes[t].gen > 0
    <3>1. routes'[t] = routes[t]
      BY <2>1, <2>3
    <3>2. new(t).win = routes[t].win /\ new(t).sess = routes[t].sess
      BY <2>3 DEF Target
    <3> QED BY <2>3, <3>1, <3>2
  <2>4. CASE m.tgt[t] # NoTarget /\ ~(Target(routes[t].win, routes[t].sess) = new(t) /\ routes[t].gen > 0)
    <3>1. routes'[t] = [win |-> new(t).win, sess |-> new(t).sess, gen |-> routes[t].gen + 1]
      BY <2>1, <2>4
    <3>2. routes[t].gen \in Nat
      OBVIOUS
    <3> QED BY <1>2, <3>1, <3>2
  <2> QED BY <2>2, <2>3, <2>4
<1>5. routes' \in Routes
  <2>1. routes' = [t \in Topics |-> routes'[t]]
    BY <1>1 DEF Persisted
  <2> QED BY <1>4, <2>1
<1> QED BY <1>1, <1>4, <1>5 DEF Agrees, new

LEMMA SavedRecords ==
  ASSUME Records, NEW m, Sound(m), Save(m)
  PROVE  Records'
BY SaveAgrees DEF Records

LEMMA RecordsStay == Records /\ UNCHANGED <<mem, routes>> => Records'
BY DEF Records, Sound, Agrees, RouteOf

------------------------------------------------------------------------------
(* Every step keeps the types and the agreement of the records.             *)

LEMMA MapReadTypes == RegInv /\ MapRead => RegInv'
<1> SUFFICES ASSUME RegInv, MapRead PROVE RegInv'
  OBVIOUS
<1> USE DEF RegInv, MapRead
<1>1. Machine'
  BY DEF Machine
<1>2. Flows'
  BY DEF Flows, Steps
<1>3. Records'
  BY RecordsStay
<1> QED BY <1>1, <1>2, <1>3

LEMMA MapLoadedTypes == RegInv /\ MapLoaded => RegInv'
<1> SUFFICES ASSUME RegInv, MapLoaded PROVE RegInv'
  OBVIOUS
<1> DEFINE m == LoadMap(mem, load.map, LiveDirs)
<1>1. /\ Save(m) /\ owner' = Learned(m) /\ load' = Quiet
      /\ UNCHANGED <<tmux, nextId, used, map, flow, events>>
  BY DEF MapLoaded
<1>2. Sound(m)
  BY LoadMapIs DEF RegInv, Records, Machine
<1>3. Learned(m) \in [Topics -> SessionOrNone]
  <2>1. m.states \in [Windows -> WindowState] /\ m.bind \in [Topics -> WindowOrNone]
    BY <1>2, SoundIs
  <2> HIDE DEF m
  <2> QED BY <2>1 DEF Learned, WindowState, WindowOrNone, RegInv, Machine
<1>4. Quiet \in [pc: {"idle", "apply"}, map: Entries]
  BY NoneIs DEF Quiet, Entries
<1>5. Machine'
  BY <1>1, <1>3, <1>4 DEF RegInv, Machine
<1>6. Flows'
  BY <1>1 DEF RegInv, Flows, Steps
<1>7. Records'
  BY <1>1, <1>2, SavedRecords DEF RegInv
<1> QED BY <1>5, <1>6, <1>7 DEF RegInv

LEMMA SessionStartTypes == ASSUME NEW w \in Windows PROVE RegInv /\ SessionStart(w) => RegInv'
<1> SUFFICES ASSUME RegInv, SessionStart(w) PROVE RegInv'
  OBVIOUS
<1>1. Machine'
  BY DEF SessionStart, RegInv, Machine, SessionOrNone, Entries
<1>2. Flows'
  BY DEF SessionStart, RegInv, Flows, Steps
<1>3. Records'
  BY RecordsStay DEF SessionStart, RegInv
<1> QED BY <1>1, <1>2, <1>3 DEF RegInv

LEMMA WindowDiesTypes == ASSUME NEW w \in Windows PROVE RegInv /\ WindowDies(w) => RegInv'
<1> SUFFICES ASSUME RegInv, WindowDies(w) PROVE RegInv'
  OBVIOUS
<1>1. Machine'
  BY NoneIs DEF WindowDies, Event, Down, RegInv, Machine
<1>2. Flows'
  BY DEF WindowDies, RegInv, Flows, Steps
<1>3. Records'
  BY RecordsStay DEF WindowDies, RegInv
<1> QED BY <1>1, <1>2, <1>3 DEF RegInv

LEMMA DoneIs == Done \in Flow /\ Done.pc = "idle" /\ Steps(Done)
  BY NoneIs DEF Done, Flow, Entries, Places, Steps

\* The handler of t moves on.
LEMMA GotoFlows ==
  ASSUME Flows, NEW t \in Topics, NEW f \in Flow, Steps(f), Goto(t, f)
  PROVE  Flows'
BY DEF Flows, Goto, Steps

LEMMA CreateTypes == ASSUME NEW t \in Topics PROVE RegInv /\ Create(t) => RegInv'
<1> SUFFICES ASSUME RegInv, Create(t) PROVE RegInv'
  OBVIOUS
<1>1. PICK d \in Dirs, s \in used \cup {None}:
        /\ Opened(nextId, d, s)
        /\ Goto(t, [Done EXCEPT !.pc = "created", !.win = nextId, !.sess = s])
  BY DEF Create
<1>2. nextId \in Windows /\ UNCHANGED <<used, map, mem, routes, load, owner, events>>
  BY DEF Create
<1>3. Machine'
  BY <1>1, <1>2, NoneIs DEF Opened, RegInv, Machine, Windows, DirOrNone, SessionOrNone
<1>4. Flows'
  <2>1. s \in SessionOrNone /\ nextId \in WindowOrNone
    BY <1>2, NoneIs DEF RegInv, Machine, SessionOrNone
  <2> QED BY <1>1, <1>2, <2>1, DoneIs, GotoFlows DEF Flow, Places, Steps, RegInv
<1>5. Records'
  BY <1>2, RecordsStay DEF RegInv
<1> QED BY <1>3, <1>4, <1>5 DEF RegInv

LEMMA MemoryIs ==
  ASSUME RegInv
  PROVE  /\ Sound(mem) /\ mem.bind \in [Topics -> WindowOrNone] /\ mem.states \in [Windows -> WindowState]
         /\ \A w \in Windows: mem.states[w].sess \in SessionOrNone /\ mem.states[w].dir \in DirOrNone
         /\ owner \in [Topics -> SessionOrNone] /\ map \in Entries
         /\ \A w \in Windows: tmux[w].dir \in DirOrNone
BY SoundIs DEF RegInv, Records, Machine, WindowState

LEMMA FlowIs ==
  ASSUME RegInv, NEW t \in Topics
  PROVE  flow[t] \in Flow /\ Steps(flow[t])
BY DEF RegInv, Flows

LEMMA OwnedIs ==
  ASSUME RegInv, NEW t \in Topics, NEW w, NEW s \in SessionOrNone
  PROVE  Owned(t, w, s) \in [Topics -> SessionOrNone]
BY NoneIs DEF Owned, RegInv, Machine

\* A window is known to have found its session.
LEMMA IdentifiedIs ==
  ASSUME RegInv, NEW t \in Topics, flow[t].win \in Windows, flow[t].sess \in Sessions,
         NEW m \in Identified(t)
  PROVE  Sound(m) /\ m.bind = mem.bind
BY LoadMapIs, RegisterIs, MemoryIs DEF Identified

LEMMA IdentifyMap ==
  ASSUME RegInv, NEW t \in Topics, flow[t].win \in Windows, flow[t].sess \in Sessions,
         NEW m \in Identified(t), Identify(t, m)
  PROVE  map' \in Entries
BY NoneIs, MemoryIs DEF Identify, Entries


LEMMA CreatedTypes == ASSUME NEW t \in Topics PROVE RegInv /\ Created(t) => RegInv'
<1> SUFFICES ASSUME RegInv, Created(t) PROVE RegInv'
  OBVIOUS
<1> DEFINE w == flow[t].win
           m == PrepareLaunch(mem, w, tmux[w].dir)
<1>1. w \in Windows /\ flow[t] \in Flow
  BY FlowIs DEF Created, Steps
<1>2. Sound(m)
  BY <1>1, MemoryIs, PrepareLaunchIs
<1>3. UNCHANGED <<tmux, nextId, used, map, load, events>>
  BY DEF Created
<1>4. CASE flow[t].sess = None
  <2>1. Save(BindTarget(m, t, w)) /\ owner' = Owned(t, w, None) /\ Goto(t, Done)
    BY <1>4 DEF Created
  <2>2. Sound(BindTarget(m, t, w))
    BY <1>1, <1>2, BindTargetIs
  <2>3. Records'
    BY <2>1, <2>2, SavedRecords DEF RegInv
  <2>4. Flows'
    BY <2>1, DoneIs, GotoFlows DEF RegInv
  <2>5. Machine'
    BY <1>3, <2>1, NoneIs, OwnedIs DEF RegInv, Machine
  <2> QED BY <2>3, <2>4, <2>5 DEF RegInv
<1>5. CASE flow[t].sess # None
  <2>1. /\ Save(m) /\ Goto(t, [flow[t] EXCEPT !.pc = "hook"])
        /\ owner' = [u \in Topics |-> IF mem.bind[u] = w THEN None ELSE owner[u]]
    BY <1>5 DEF Created
  <2>2. Records'
    BY <1>2, <2>1, SavedRecords DEF RegInv
  <2>3. flow[t].sess \in Sessions
    BY <1>1, <1>5 DEF Flow, SessionOrNone
  <2>4. Flows'
    BY <1>1, <2>1, <2>3, GotoFlows DEF RegInv, Flow, Places, Steps
  <2>5. Machine'
    BY <1>3, <2>1, NoneIs DEF RegInv, Machine
  <2> QED BY <2>2, <2>4, <2>5 DEF RegInv
<1> QED BY <1>4, <1>5

LEMMA ResumedTypes == ASSUME NEW t \in Topics PROVE RegInv /\ Resumed(t) => RegInv'
<1> SUFFICES ASSUME RegInv, Resumed(t) PROVE RegInv'
  OBVIOUS
<1>1. flow[t].win \in Windows /\ flow[t].sess \in Sessions /\ flow[t] \in Flow
  BY FlowIs DEF Resumed, Steps
<1>2. PICK m \in Identified(t):
        /\ Identify(t, m)
        /\ Save(BindTarget(m, t, flow[t].win))
        /\ owner' = Owned(t, flow[t].win, m.states[flow[t].win].sess)
  BY DEF Resumed
<1>3. UNCHANGED <<tmux, nextId, used, load, events>>
  BY DEF Resumed
<1>4. Sound(m)
  BY <1>1, IdentifiedIs
<1>5. Records'
  BY <1>1, <1>2, <1>4, BindTargetIs, SavedRecords DEF RegInv
<1>6. Flows'
  BY DoneIs, GotoFlows DEF Resumed, RegInv
<1>7. Machine'
  <2>1. map' \in Entries
    BY <1>1, <1>2, IdentifyMap
  <2>2. m.states[flow[t].win].sess \in SessionOrNone
    BY <1>1, <1>4, SoundIs DEF WindowState
  <2> QED BY <1>2, <1>3, <2>1, <2>2, OwnedIs DEF RegInv, Machine
<1> QED BY <1>5, <1>6, <1>7 DEF RegInv

LEMMA ReboundTypes == ASSUME NEW t \in Topics PROVE RegInv /\ Rebound(t) => RegInv'
<1> SUFFICES ASSUME RegInv, Rebound(t) PROVE RegInv'
  OBVIOUS
<1>1. flow[t].win \in Windows /\ flow[t].sess \in Sessions /\ flow[t] \in Flow
      /\ flow[t].old \in Windows
  BY FlowIs DEF Rebound, Steps
<1>2. PICK m \in Identified(t):
        /\ Identify(t, m)
        /\ Save(BindTarget(m, t, flow[t].win))
        /\ owner' = Owned(t, flow[t].win, m.states[flow[t].win].sess)
  BY DEF Rebound
<1>3. UNCHANGED <<tmux, nextId, used, load, events>>
  BY DEF Rebound
<1>4. Sound(m)
  BY <1>1, IdentifiedIs
<1>5. Records'
  BY <1>1, <1>2, <1>4, BindTargetIs, SavedRecords DEF RegInv
<1>6. Flows'
  <2>1. PICK f \in {Done, [Done EXCEPT !.pc = "unmap", !.win = flow[t].old]}: Goto(t, f)
    BY DEF Rebound
  <2>2. f \in Flow /\ Steps(f)
    BY <1>1, <2>1, NoneIs, DoneIs DEF Flow, Places, Steps
  <2> QED BY <2>1, <2>2, GotoFlows DEF RegInv
<1>7. Machine'
  <2>1. map' \in Entries
    BY <1>1, <1>2, IdentifyMap
  <2>2. m.states[flow[t].win].sess \in SessionOrNone
    BY <1>1, <1>4, SoundIs DEF WindowState
  <2> QED BY <1>2, <1>3, <2>1, <2>2, OwnedIs DEF RegInv, Machine
<1> QED BY <1>5, <1>6, <1>7 DEF RegInv

LEMMA RecoverTypes == ASSUME NEW t \in Topics PROVE RegInv /\ Recover(t) => RegInv'
<1> SUFFICES ASSUME RegInv, Recover(t) PROVE RegInv'
  OBVIOUS
<1> DEFINE w == WindowOf(t)
           r == {v \in Windows: v # w /\ (mem.states[v].known \/ BoundTo(mem, v) # {})}
<1>1. /\ Goto(t, [Done EXCEPT !.pc = "recover", !.old = w, !.sess = mem.states[w].sess, !.reserved = r])
      /\ mem.states[w].sess # None /\ w # None
      /\ UNCHANGED <<tmux, nextId, used, map, mem, routes, load, owner, events>>
  BY DEF Recover
<1>2. w \in Windows
  BY <1>1, MemoryIs DEF WindowOf, WindowOrNone
<1>3. mem.states[w].sess \in Sessions /\ r \in SUBSET Windows
  BY <1>1, <1>2, MemoryIs DEF SessionOrNone
<1> HIDE DEF w, r
<1>4. Flows'
  BY <1>1, <1>2, <1>3, NoneIs, DoneIs, GotoFlows DEF RegInv, Flow, Places, Steps
<1>5. Machine'
  BY <1>1 DEF RegInv, Machine
<1>6. Records'
  BY <1>1, RecordsStay DEF RegInv
<1> QED BY <1>4, <1>5, <1>6 DEF RegInv

LEMMA RecreatedTypes == ASSUME NEW t \in Topics PROVE RegInv /\ Recreated(t) => RegInv'
<1> SUFFICES ASSUME RegInv, Recreated(t) PROVE RegInv'
  OBVIOUS
<1>1. /\ flow[t].sess \in Sessions /\ flow[t].old \in Windows /\ flow[t] \in Flow /\ nextId \in Windows
      /\ UNCHANGED <<used, map, mem, routes, load, owner, events>>
  BY FlowIs DEF Recreated, Steps
<1>2. Records'
  BY <1>1, RecordsStay DEF RegInv
<1>3. CASE nextId \in flow[t].reserved
  <2>1. nextId' = nextId + 1 /\ UNCHANGED <<tmux, flow>>
    BY <1>3 DEF Recreated
  <2>2. Machine'
    BY <1>1, <2>1 DEF RegInv, Machine, Windows
  <2>3. Flows'
    BY <2>1 DEF RegInv, Flows, Steps
  <2> QED BY <1>2, <2>2, <2>3 DEF RegInv
<1>4. CASE nextId \notin flow[t].reserved
  <2>1. /\ Opened(nextId, DirOf[flow[t].sess], flow[t].sess)
        /\ Goto(t, [flow[t] EXCEPT !.pc = "started", !.win = nextId])
    BY <1>4 DEF Recreated
  <2>2. DirOf[flow[t].sess] \in DirOrNone /\ flow[t].sess \in SessionOrNone
    BY <1>1, NoneIs
  <2>3. Machine'
    BY <1>1, <2>1, <2>2, NoneIs DEF Opened, RegInv, Machine, Windows
  <2>4. Flows'
    BY <1>1, <2>1, NoneIs, GotoFlows DEF RegInv, Flow, Places, Steps
  <2> QED BY <1>2, <2>3, <2>4 DEF RegInv
<1> QED BY <1>3, <1>4

LEMMA StartedTypes == ASSUME NEW t \in Topics PROVE RegInv /\ Started(t) => RegInv'
<1> SUFFICES ASSUME RegInv, Started(t) PROVE RegInv'
  OBVIOUS
<1>1. /\ flow[t].win \in Windows /\ flow[t].sess \in Sessions /\ flow[t].old \in Windows /\ flow[t] \in Flow
      /\ Save(PrepareLaunch(mem, flow[t].win, DirOf[flow[t].sess]))
      /\ owner' = [u \in Topics |-> IF u # t /\ mem.bind[u] = flow[t].win THEN None ELSE owner[u]]
      /\ Goto(t, [flow[t] EXCEPT !.pc = "rehook"])
      /\ UNCHANGED <<tmux, nextId, used, map, load, events>>
  BY FlowIs DEF Started, Steps
<1>2. Records'
  BY <1>1, NoneIs, MemoryIs, PrepareLaunchIs, SavedRecords DEF RegInv
<1>3. Flows'
  BY <1>1, GotoFlows DEF RegInv, Flow, Places, Steps
<1>4. Machine'
  BY <1>1, NoneIs DEF RegInv, Machine
<1> QED BY <1>2, <1>3, <1>4 DEF RegInv

LEMMA DiscardTypes == ASSUME NEW t \in Topics PROVE RegInv /\ Discard(t) => RegInv'
<1> SUFFICES ASSUME RegInv, Discard(t) PROVE RegInv'
  OBVIOUS
<1> DEFINE w == flow[t].win
           st == [mem.states[w] EXCEPT !.known = TRUE]
<1>1. /\ flow[t] \in Flow /\ w \in Windows
      /\ tmux' = [tmux EXCEPT ![w] = Down] /\ events' = events + 1 /\ events < MaxEvents
      /\ UNCHANGED <<nextId, used, map, load, owner>>
  BY FlowIs DEF Discard, Steps, Event
<1>2. Machine'
  BY <1>1, NoneIs DEF Down, RegInv, Machine
<1>3. CASE w = flow[t].old
  <2>1. Save(Registry([mem.states EXCEPT ![w].known = TRUE], mem.bind, mem.tgt)) /\ Goto(t, Done)
    BY <1>3 DEF Discard
  <2> DEFINE sts == [mem.states EXCEPT ![w] = st]
  <2>2. [mem.states EXCEPT ![w].known = TRUE] = sts
    BY <1>1, MemoryIs
  <2>3. mem.states[w] \in WindowState /\ (mem.states[w].sess # None => mem.states[w].dir # None)
    BY <1>1, MemoryIs, SoundIs
  <2>4. st \in WindowState /\ (st.sess # None => st.dir # None /\ st.known)
    BY <2>3 DEF WindowState
  <2>5. /\ mem.states \in [Windows -> WindowState] /\ mem.bind \in [Topics -> WindowOrNone]
        /\ mem.tgt \in [Topics -> [win: WindowOrNone, sess: SessionOrNone]]
        /\ \A u \in Topics: mem.tgt[u].win = mem.bind[u]
        /\ \A v \in Windows: mem.states[v].sess # None => mem.states[v].dir # None /\ mem.states[v].known
    BY MemoryIs, SoundIs
  <2> HIDE DEF w, st
  <2>6. sts \in [Windows -> WindowState]
        /\ \A v \in Windows: sts[v].sess # None => sts[v].dir # None /\ sts[v].known
    BY <1>1, <2>4, <2>5
  <2> HIDE DEF sts
  <2>7. Sound(Registry(sts, mem.bind, mem.tgt))
    BY <2>5, <2>6, RegistrySound
  <2>8. Records'
    BY <2>1, <2>2, <2>7, SavedRecords DEF RegInv
  <2>9. Flows'
    BY <2>1, DoneIs, GotoFlows DEF RegInv
  <2> QED BY <1>2, <2>8, <2>9 DEF RegInv
<1>4. CASE w # flow[t].old
  <2>1. Goto(t, [Done EXCEPT !.pc = "unmap", !.win = w]) /\ UNCHANGED <<mem, routes>>
    BY <1>4 DEF Discard
  <2>2. Records'
    BY <2>1, RecordsStay DEF RegInv
  <2>3. Flows'
    BY <1>1, <2>1, NoneIs, DoneIs, GotoFlows DEF RegInv, Flow, Places, Steps
  <2> QED BY <1>2, <2>2, <2>3 DEF RegInv
<1> QED BY <1>3, <1>4

LEMMA WindowOfIs ==
  ASSUME RegInv, NEW t \in Topics, WindowOf(t) # None
  PROVE  WindowOf(t) \in Windows /\ WindowOf(t) = mem.bind[t] /\ ~Shared(mem, mem.bind[t])
BY MemoryIs DEF WindowOf, WindowOrNone


LEMMA RotateTypes == ASSUME NEW t \in Topics PROVE RegInv /\ Rotate(t) => RegInv'
<1> SUFFICES ASSUME RegInv, Rotate(t) PROVE RegInv'
  OBVIOUS
<1>1. /\ nextId \in Windows /\ WindowOf(t) \in Windows /\ Opened(nextId, tmux[WindowOf(t)].dir, None)
      /\ events' = events + 1 /\ events < MaxEvents
      /\ Goto(t, [Done EXCEPT !.pc = "created", !.win = nextId])
      /\ UNCHANGED <<used, map, mem, routes, load, owner>>
  BY WindowOfIs DEF Rotate, Event
<1>2. Machine'
  BY <1>1, NoneIs, MemoryIs DEF Opened, RegInv, Machine, Windows
<1>3. Flows'
  BY <1>1, NoneIs, DoneIs, GotoFlows DEF RegInv, Flow, Places, Steps
<1>4. Records'
  BY <1>1, RecordsStay DEF RegInv
<1> QED BY <1>2, <1>3, <1>4 DEF RegInv

LEMMA CloseTypes == ASSUME NEW t \in Topics PROVE RegInv /\ Close(t) => RegInv'
<1> SUFFICES ASSUME RegInv, Close(t) PROVE RegInv'
  OBVIOUS
<1>1. /\ mem.bind[t] \in Windows
      /\ tmux' = [tmux EXCEPT ![mem.bind[t]] = Down]
      /\ Goto(t, [Done EXCEPT !.pc = "close", !.win = mem.bind[t]])
      /\ events' = events + 1 /\ events < MaxEvents
      /\ UNCHANGED <<nextId, used, map, mem, routes, load, owner>>
  BY MemoryIs DEF Close, Event, WindowOrNone
<1>2. Machine'
  BY <1>1, NoneIs DEF Down, RegInv, Machine
<1>3. Flows'
  BY <1>1, NoneIs, DoneIs, GotoFlows DEF RegInv, Flow, Places, Steps
<1>4. Records'
  BY <1>1, RecordsStay DEF RegInv
<1> QED BY <1>2, <1>3, <1>4 DEF RegInv

LEMMA ClosedTypes == ASSUME NEW t \in Topics PROVE RegInv /\ Closed(t) => RegInv'
<1> SUFFICES ASSUME RegInv, Closed(t) PROVE RegInv'
  OBVIOUS
<1>1. /\ flow[t] \in Flow /\ flow[t].win \in Windows
      /\ Save(Unbind(mem, t)) /\ owner' = [owner EXCEPT ![t] = None]
      /\ Goto(t, [flow[t] EXCEPT !.pc = "unmap"])
      /\ UNCHANGED <<tmux, nextId, used, map, load, events>>
  BY FlowIs DEF Closed, Steps
<1>2. Machine'
  BY <1>1, NoneIs DEF RegInv, Machine
<1>3. Flows'
  BY <1>1, GotoFlows DEF RegInv, Flow, Places, Steps
<1>4. Records'
  BY <1>1, MemoryIs, UnbindIs, SavedRecords DEF RegInv
<1> QED BY <1>2, <1>3, <1>4 DEF RegInv

LEMMA UnmapTypes == ASSUME NEW t \in Topics PROVE RegInv /\ Unmap(t) => RegInv'
<1> SUFFICES ASSUME RegInv, Unmap(t) PROVE RegInv'
  OBVIOUS
<1>1. /\ flow[t] \in Flow /\ flow[t].win \in Windows
      /\ Goto(t, [flow[t] EXCEPT !.pc = "write", !.map = map])
      /\ UNCHANGED <<tmux, nextId, used, map, mem, routes, load, owner, events>>
  BY FlowIs DEF Unmap, Steps
<1>2. Machine'
  BY <1>1 DEF RegInv, Machine
<1>3. Flows'
  BY <1>1, MemoryIs, GotoFlows DEF RegInv, Flow, Places, Steps
<1>4. Records'
  BY <1>1, RecordsStay DEF RegInv
<1> QED BY <1>2, <1>3, <1>4 DEF RegInv

LEMMA UnmappedTypes == ASSUME NEW t \in Topics PROVE RegInv /\ Unmapped(t) => RegInv'
<1> SUFFICES ASSUME RegInv, Unmapped(t) PROVE RegInv'
  OBVIOUS
<1> DEFINE w == flow[t].win
<1>1. /\ flow[t] \in Flow /\ w \in Windows
      /\ map' = IF flow[t].map[w] = None THEN map ELSE [flow[t].map EXCEPT ![w] = None]
      /\ Save(RemoveState(mem, w))
      /\ owner' = [u \in Topics |-> IF mem.bind[u] = w THEN None ELSE owner[u]]
      /\ Goto(t, Done)
      /\ UNCHANGED <<tmux, nextId, used, load, events>>
  BY FlowIs DEF Unmapped, Steps
<1>2. Machine'
  <2>1. map' \in Entries
    BY <1>1, NoneIs, MemoryIs DEF Flow, Entries
  <2> QED BY <1>1, <2>1, NoneIs DEF RegInv, Machine
<1>3. Flows'
  BY <1>1, DoneIs, GotoFlows DEF RegInv
<1>4. Records'
  BY <1>1, MemoryIs, RemoveStateIs, SavedRecords DEF RegInv
<1> QED BY <1>2, <1>3, <1>4 DEF RegInv

LEMMA UnbindTopicTypes == ASSUME NEW t \in Topics PROVE RegInv /\ UnbindTopic(t) => RegInv'
<1> SUFFICES ASSUME RegInv, UnbindTopic(t) PROVE RegInv'
  OBVIOUS
<1>1. /\ Save(Unbind(mem, t)) /\ owner' = [owner EXCEPT ![t] = None]
      /\ events' = events \/ (events' = events + 1 /\ events < MaxEvents)
      /\ UNCHANGED <<tmux, nextId, used, map, load, flow>>
  BY DEF UnbindTopic, Event
<1>2. Machine'
  BY <1>1, NoneIs DEF RegInv, Machine
<1>3. Flows'
  BY <1>1 DEF RegInv, Flows, Steps
<1>4. Records'
  BY <1>1, MemoryIs, UnbindIs, SavedRecords DEF RegInv
<1> QED BY <1>2, <1>3, <1>4 DEF RegInv

LEMMA ClearTypes == ASSUME NEW t \in Topics PROVE RegInv /\ Clear(t) => RegInv'
<1> SUFFICES ASSUME RegInv, Clear(t) PROVE RegInv'
  OBVIOUS
<1> DEFINE w == WindowOf(t)
<1>1. /\ w \in Windows /\ Save(ClearSession(mem, w))
      /\ tmux' = [tmux EXCEPT ![w] = [dir |-> tmux[w].dir, sess |-> None, asked |-> None]]
      /\ owner' = [owner EXCEPT ![t] = None]
      /\ events' = events + 1 /\ events < MaxEvents
      /\ UNCHANGED <<nextId, used, map, load, flow>>
  BY WindowOfIs DEF Clear, Event
<1> HIDE DEF w
<1>2. Machine'
  <2> DEFINE left == [dir |-> tmux[w].dir, sess |-> None, asked |-> None]
  <2>1. tmux' = [tmux EXCEPT ![w] = left]
    BY <1>1
  <2>2. left \in [dir: DirOrNone, sess: SessionOrNone, asked: SessionOrNone]
    BY <1>1, NoneIs DEF RegInv, Machine
  <2> HIDE DEF left
  <2>3. tmux' \in [Windows -> [dir: DirOrNone, sess: SessionOrNone, asked: SessionOrNone]]
    BY <2>1, <2>2 DEF RegInv, Machine
  <2> QED BY <1>1, <2>3, NoneIs DEF RegInv, Machine
<1>3. Flows'
  BY <1>1 DEF RegInv, Flows, Steps
<1>4. Records'
  BY <1>1, MemoryIs, ClearSessionIs, SavedRecords DEF RegInv
<1> QED BY <1>2, <1>3, <1>4 DEF RegInv

LEMMA GoRemoteTypes == ASSUME NEW t \in Topics PROVE RegInv /\ GoRemote(t) => RegInv'
<1> SUFFICES ASSUME RegInv, GoRemote(t) PROVE RegInv'
  OBVIOUS
<1>1. PICK s \in Sessions: Save(BindRemote(mem, t, s))
  BY DEF GoRemote
<1>2. /\ events' = events + 1 /\ events < MaxEvents
      /\ UNCHANGED <<tmux, nextId, used, map, load, flow, owner>>
  BY DEF GoRemote, Event
<1>3. Machine'
  BY <1>2 DEF RegInv, Machine
<1>4. Flows'
  BY <1>2 DEF RegInv, Flows, Steps
<1>5. Records'
  BY <1>1, MemoryIs, BindRemoteIs, SavedRecords DEF RegInv
<1> QED BY <1>3, <1>4, <1>5 DEF RegInv

LEMMA OpenPickerTypes == ASSUME NEW t \in Topics PROVE RegInv /\ OpenPicker(t) => RegInv'
<1> SUFFICES ASSUME RegInv, OpenPicker(t) PROVE RegInv'
  OBVIOUS
<1>1. PICK w \in Windows: Goto(t, [Done EXCEPT !.pc = "picker", !.win = w])
  BY DEF OpenPicker
<1>2. /\ events' = events + 1 /\ events < MaxEvents
      /\ UNCHANGED <<tmux, nextId, used, map, mem, routes, load, owner>>
  BY DEF OpenPicker, Event
<1>3. Machine'
  BY <1>2 DEF RegInv, Machine
<1>4. Flows'
  BY <1>1, NoneIs, DoneIs, GotoFlows DEF RegInv, Flow, Places, Steps
<1>5. Records'
  BY <1>2, RecordsStay DEF RegInv
<1> QED BY <1>3, <1>4, <1>5 DEF RegInv

LEMMA PickTypes == ASSUME NEW t \in Topics PROVE RegInv /\ Pick(t) => RegInv'
<1> SUFFICES ASSUME RegInv, Pick(t) PROVE RegInv'
  OBVIOUS
<1> DEFINE w == flow[t].win
<1>1. w \in Windows /\ Goto(t, Done) /\ UNCHANGED <<tmux, nextId, used, map, load, events>>
  BY FlowIs DEF Pick, Steps
<1>2. Flows'
  BY <1>1, DoneIs, GotoFlows DEF RegInv
<1>3. CASE Pickable(w)
  <2>1. Save(BindThread(mem, t, w)) /\ owner' = Owned(t, w, mem.states[w].sess)
    BY <1>3 DEF Pick
  <2>2. Records'
    BY <1>1, <2>1, MemoryIs, BindThreadIs, SavedRecords DEF RegInv
  <2>3. owner' \in [Topics -> SessionOrNone]
    BY <1>1, <2>1, MemoryIs, OwnedIs
  <2>4. Machine'
    BY <1>1, <2>3 DEF RegInv, Machine
  <2> QED BY <1>2, <2>2, <2>4 DEF RegInv
<1>4. CASE ~Pickable(w)
  <2>1. UNCHANGED <<mem, routes, owner>>
    BY <1>4 DEF Pick
  <2>2. Records'
    BY <2>1, RecordsStay DEF RegInv
  <2>3. Machine'
    BY <1>1, <2>1 DEF RegInv, Machine
  <2> QED BY <1>2, <2>2, <2>3 DEF RegInv
<1> QED BY <1>3, <1>4

LEMMA LearnedIs == ASSUME RegInv, NEW m, Sound(m) PROVE Learned(m) \in [Topics -> SessionOrNone]
<1>1. m.states \in [Windows -> WindowState] /\ m.bind \in [Topics -> WindowOrNone]
  BY SoundIs
<1> QED BY <1>1 DEF Learned, WindowState, WindowOrNone, RegInv, Machine

LEMMA AutoBindTypes == ASSUME NEW s \in Sessions PROVE RegInv /\ AutoBind(s) => RegInv'
<1> SUFFICES ASSUME RegInv, AutoBind(s) PROVE RegInv'
  OBVIOUS
<1>1. PICK w \in Candidate(s):
        Save(Register(mem, w, s)) /\ map' = [map EXCEPT ![w] = s] /\ owner' = Learned(Register(mem, w, s))
  BY DEF AutoBind
<1>2. /\ events' = events + 1 /\ events < MaxEvents
      /\ UNCHANGED <<tmux, nextId, used, load, flow>>
  BY DEF AutoBind, Event
<1>3. w \in Windows
  BY <1>1 DEF Candidate
<1>4. Sound(Register(mem, w, s))
  BY <1>3, MemoryIs, RegisterIs
<1>5. Machine'
  <2>1. map' \in Entries
    BY <1>1, <1>3, NoneIs, MemoryIs DEF Entries
  <2>2. owner' \in [Topics -> SessionOrNone]
    BY <1>1, <1>4, LearnedIs
  <2> QED BY <1>2, <2>1, <2>2 DEF RegInv, Machine
<1>6. Flows'
  BY <1>2 DEF RegInv, Flows, Steps
<1>7. Records'
  BY <1>1, <1>4, SavedRecords DEF RegInv
<1> QED BY <1>5, <1>6, <1>7 DEF RegInv

------------------------------------------------------------------------------
(* A restart takes the windows and targets from the durable routes.         *)

LEMMA RestoredIs ==
  ASSUME Records
  PROVE  /\ Sound(Restored) /\ Restored.states = mem.states /\ Restored.bind = mem.bind
<1> DEFINE sts == [w \in Windows |-> RestoredState(w)]
           b == [t \in Topics |-> routes[t].win]
           tg == [t \in Topics |-> Target(routes[t].win, routes[t].sess)]
<1>1. /\ mem.states \in [Windows -> WindowState] /\ mem.bind \in [Topics -> WindowOrNone]
      /\ \A t \in Topics: mem.tgt[t].win = mem.bind[t]
      /\ \A w \in Windows: mem.states[w].sess # None => mem.states[w].dir # None /\ mem.states[w].known
  BY SoundIs DEF Records
<1>2. ASSUME NEW t \in Topics
      PROVE  /\ routes[t].win = mem.bind[t] /\ routes[t].sess \in SessionOrNone
             /\ mem.bind[t] # None /\ mem.states[mem.bind[t]].known =>
                  routes[t].sess = mem.states[mem.bind[t]].sess
  BY <1>1 DEF Records, Agrees, RouteOf, Target, Routes
<1>3. ASSUME NEW w \in Windows
      PROVE  RestoredState(w) = mem.states[w]
  <2> DEFINE ts == {t \in Topics: routes[t].win = w}
             u == CHOOSE t \in ts: TRUE
             old == mem.states[w]
  <2>1. CASE ts = {} \/ ~old.known
    BY <2>1 DEF RestoredState
  <2>2. CASE ts # {} /\ old.known
    <3>1. u \in ts
      BY <2>2
    <3>2. routes[u].sess = old.sess
      BY <1>2, <2>2, <3>1, NoneIs
    <3>3. RestoredState(w) = [old EXCEPT !.sess = routes[u].sess]
      BY <2>2 DEF RestoredState
    <3>4. old \in WindowState
      BY <1>1
    <3> HIDE DEF old, u, ts
    <3>5. RestoredState(w) = old
      BY <3>2, <3>3, <3>4 DEF WindowState
    <3> QED BY <3>5 DEF old
  <2> QED BY <2>1, <2>2
<1>4. sts = mem.states /\ b = mem.bind
  BY <1>1, <1>2, <1>3
<1>5. tg \in [Topics -> [win: WindowOrNone, sess: SessionOrNone]] /\ \A t \in Topics: tg[t].win = b[t]
  BY <1>1, <1>2 DEF Target
<1>6. Restored = Registry(sts, b, tg)
  BY DEF Restored
<1> HIDE DEF sts, b, tg
<1>7. Sound(Restored)
  BY <1>1, <1>4, <1>5, <1>6, RegistrySound
<1> QED BY <1>4, <1>6, <1>7, RegistryIs

LEMMA ResolvedIs ==
  ASSUME NEW m, Sound(m), NEW alive \in SUBSET Windows
  PROVE  /\ Sound(Resolved(m, alive))
         /\ \A t \in Topics: m.bind[t] # None /\ m.states[m.bind[t]].sess # None =>
              /\ Resolved(m, alive).bind[t] = m.bind[t]
              /\ Resolved(m, alive).states[m.bind[t]] = m.states[m.bind[t]]
         /\ \A t \in Topics: m.bind[t] = None => Resolved(m, alive).bind[t] = None
<1> DEFINE kept == alive \cup {w \in Windows: BoundTo(m, w) # {} /\ m.states[w].sess # None
                                               /\ m.states[w].dir # None}
           sts == [w \in Windows |-> IF w \in kept THEN m.states[w] ELSE NoState]
           b == [t \in Topics |-> IF m.bind[t] \in kept THEN m.bind[t] ELSE None]
           tg == [t \in Topics |-> IF m.tgt[t].win \in kept \cup {None} THEN m.tgt[t] ELSE NoTarget]
<1>1. Resolved(m, alive) = Registry(sts, b, tg)
  BY DEF Resolved
<1>2. /\ m.states \in [Windows -> WindowState] /\ m.bind \in [Topics -> WindowOrNone]
      /\ m.tgt \in [Topics -> [win: WindowOrNone, sess: SessionOrNone]]
      /\ \A t \in Topics: m.tgt[t].win = m.bind[t]
      /\ \A w \in Windows: m.states[w].sess # None => m.states[w].dir # None /\ m.states[w].known
  BY SoundIs
<1>3. kept \subseteq Windows /\ None \notin kept
  BY NoneIs
<1>4. ASSUME NEW t \in Topics, m.bind[t] # None, m.states[m.bind[t]].sess # None
      PROVE  m.bind[t] \in kept
  <2>1. m.bind[t] \in Windows
    BY <1>2, <1>4 DEF WindowOrNone
  <2>2. t \in BoundTo(m, m.bind[t])
    BY DEF BoundTo
  <2> QED BY <1>2, <1>4, <2>1, <2>2
<1>5. NoTarget \in [win: WindowOrNone, sess: SessionOrNone] /\ NoTarget.win = None
  BY NoneIs, TargetIs DEF NoTarget
<1> HIDE DEF kept
<1>6. /\ sts \in [Windows -> WindowState]
      /\ \A w \in Windows: sts[w].sess # None => sts[w].dir # None /\ sts[w].known
  BY <1>2, NoStateIs
<1>7. b \in [Topics -> WindowOrNone] /\ tg \in [Topics -> [win: WindowOrNone, sess: SessionOrNone]]
  BY <1>2, <1>5, NoneIs
<1>8. \A t \in Topics: tg[t].win = b[t]
  BY <1>2, <1>3, <1>5
<1>9. \A t \in Topics: m.bind[t] \in kept => b[t] = m.bind[t] /\ sts[m.bind[t]] = m.states[m.bind[t]]
  BY <1>2, <1>3
<1>10. \A t \in Topics: m.bind[t] = None => b[t] = None
  BY <1>3
<1> HIDE DEF sts, b, tg
<1>11. Sound(Resolved(m, alive))
  BY <1>1, <1>6, <1>7, <1>8, RegistrySound
<1> QED BY <1>1, <1>4, <1>9, <1>10, <1>11, RegistryIs

LEMMA ActivatedTypes ==
  ASSUME RegInv, NEW alive \in SUBSET Windows, Activated(alive)
  PROVE  /\ Records' /\ Flows' /\ map' \in Entries /\ load' \in [pc: {"idle", "apply"}, map: Entries]
         /\ owner' \in [Topics -> SessionOrNone]
<1>1. /\ Save(Resolved(Restored, alive))
      /\ map' = [w \in Windows |-> IF w \in alive THEN map[w] ELSE None]
      /\ load' = Quiet /\ flow' = [t \in Topics |-> Done]
      /\ owner' = [t \in Topics |-> IF InPlace(t) THEN None ELSE owner[t]]
  BY DEF Activated
<1>2. Records'
  BY <1>1, RestoredIs, ResolvedIs, SavedRecords DEF RegInv
<1>3. Flows'
  BY <1>1, DoneIs DEF Flows
<1>4. map' \in Entries /\ load' \in [pc: {"idle", "apply"}, map: Entries]
  BY <1>1, NoneIs, MemoryIs DEF Quiet, Entries
<1>5. owner' \in [Topics -> SessionOrNone]
  BY <1>1, NoneIs, MemoryIs
<1> QED BY <1>2, <1>3, <1>4, <1>5

LEMMA RestartTypes == RegInv /\ (Restart \/ Reboot) => RegInv'
<1> SUFFICES ASSUME RegInv, Restart \/ Reboot PROVE RegInv'
  OBVIOUS
<1>1. /\ events' = events + 1 /\ events < MaxEvents /\ used' = used
      /\ \/ UNCHANGED <<tmux, nextId>>
         \/ tmux' = [w \in Windows |-> Down] /\ nextId' = 1
  BY DEF Restart, Reboot, Event
<1>2. PICK alive \in SUBSET Windows: Activated(alive)
  BY DEF Restart, Reboot
<1>3. Machine'
  BY <1>1, <1>2, ActivatedTypes, NoneIs DEF RegInv, Machine, Down
<1> QED BY <1>2, <1>3, ActivatedTypes DEF RegInv

LEMMA InitTypes == Init => RegInv
<1> SUFFICES ASSUME Init PROVE RegInv
  OBVIOUS
<1> DEFINE sts == [w \in Windows |-> NoState]
           b == [t \in Topics |-> None]
           tg == [t \in Topics |-> NoTarget]
<1>1. Machine
  BY NoneIs DEF Init, Machine, Down, Quiet, Entries
<1>2. Flows
  BY DoneIs DEF Init, Flows
<1>3. mem = Registry(sts, b, tg) /\ routes = [t \in Topics |-> NoRoute]
  BY DEF Init
<1>4. NoTarget \in [win: WindowOrNone, sess: SessionOrNone] /\ NoTarget.win = None /\ NoTarget.sess = None
  BY NoneIs, TargetIs DEF NoTarget
<1>5. Sound(mem)
  <2>1. /\ sts \in [Windows -> WindowState] /\ b \in [Topics -> WindowOrNone]
        /\ tg \in [Topics -> [win: WindowOrNone, sess: SessionOrNone]]
        /\ \A t \in Topics: tg[t].win = b[t]
        /\ \A w \in Windows: sts[w].sess # None => sts[w].dir # None /\ sts[w].known
    BY <1>4, NoneIs, NoStateIs
  <2> HIDE DEF sts, b, tg
  <2> QED BY <1>3, <2>1, RegistrySound
<1>6. Agrees(mem, routes)
  <2>1. mem.tgt = tg
    BY <1>3, RegistryIs
  <2> QED BY <1>3, <1>4, <2>1 DEF Agrees, RouteOf, Target, NoRoute
<1>7. routes \in Routes /\ \A t \in Topics: routes[t] = NoRoute
  BY <1>3, NoneIs DEF Routes, NoRoute
<1> QED BY <1>1, <1>2, <1>5, <1>6, <1>7 DEF RegInv, Records

LEMMA NextTypes == RegInv /\ [Next]_vars => RegInv'
<1> SUFFICES ASSUME RegInv, [Next]_vars PROVE RegInv'
  OBVIOUS
<1>1. CASE UNCHANGED vars
  BY <1>1, RecordsStay DEF vars, RegInv, Machine, Flows, Steps
<1>2. CASE LoadMapStep
  BY <1>2, MapReadTypes, MapLoadedTypes DEF LoadMapStep
<1>3. CASE Restart \/ Reboot
  BY <1>3, RestartTypes
<1>4. CASE \E w \in Windows: SessionStart(w) \/ WindowDies(w)
  BY <1>4, SessionStartTypes, WindowDiesTypes
<1>5. CASE \E s \in Sessions: AutoBind(s)
  BY <1>5, AutoBindTypes
<1>6. CASE \E t \in Topics: Handler(t)
  <2>1. PICK t \in Topics: Handler(t)
    BY <1>6
  <2> QED BY <2>1, CreateTypes, CreatedTypes, ResumedTypes, RecoverTypes, RecreatedTypes, StartedTypes,
          DiscardTypes, ReboundTypes, RotateTypes, CloseTypes, ClosedTypes, UnmapTypes, UnmappedTypes,
          UnbindTopicTypes, ClearTypes, GoRemoteTypes, OpenPickerTypes, PickTypes DEF Handler
<1> QED BY <1>1, <1>2, <1>3, <1>4, <1>5, <1>6 DEF Next

LEMMA RegInvIs == RegInv => TypeOK /\ RegistryAgrees
<1> SUFFICES ASSUME RegInv PROVE TypeOK /\ RegistryAgrees
  OBVIOUS
<1>1. /\ mem.states \in [Windows -> WindowState] /\ mem.bind \in [Topics -> WindowOrNone]
      /\ mem.tgt \in [Topics -> [win: WindowOrNone, sess: SessionOrNone]]
      /\ \A t \in Topics: mem.tgt[t].win = mem.bind[t]
  BY SoundIs DEF RegInv, Records
<1>2. TypeOK
  BY <1>1 DEF TypeOK, RegInv, Machine, Records, Routes, Entries, WindowState, SessionOrNone, DirOrNone, WindowOrNone
<1>3. RegistryAgrees
  BY <1>1 DEF RegistryAgrees, RegInv, Records, Agrees, RouteOf, Target
<1> QED BY <1>2, <1>3

LEMMA RegInvAlways == Spec => []RegInv
BY InitTypes, NextTypes, PTL DEF Spec

\* The registry, its durable copy, the session map and the handlers keep their types.
THEOREM RegistryTypes == Spec => []TypeOK
BY RegInvAlways, RegInvIs, PTL

\* However many topics, windows and sessions there are, and whatever handlers, loads,
\* deaths and restarts interleave: binding, target and durable route of a topic agree.
THEOREM RecordsAgree == Spec => []RegistryAgrees
BY RegInvAlways, RegInvIs, PTL

------------------------------------------------------------------------------
(* Within an epoch of the tmux server a window id is used once: what a file *)
(* or a handler says of a window agrees with the directory it lives in.     *)

FileFits(file, tm, next) ==
  \A w \in Windows: file[w] # None => w < next /\ (tm[w].dir # None => tm[w].dir = DirOf[file[w]])
Asked(f, tm, next) ==
  f.pc \in {"created", "hook", "started", "rehook"} =>
    f.win < next /\ (f.sess # None /\ tm[f.win].dir # None => tm[f.win].dir = DirOf[f.sess])
World ==
  /\ \A w \in Windows: tmux[w].dir # None => w < nextId
  /\ FileFits(map, tmux, nextId) /\ FileFits(load.map, tmux, nextId)
  /\ \A t \in Topics: FileFits(flow[t].map, tmux, nextId) /\ Asked(flow[t], tmux, nextId)

NoEntries == [w \in Windows |-> None]
\* Windows keep their directories or go; new ones have new ids.
Onward ==
  /\ nextId' \in Nat /\ nextId' >= nextId
  /\ \A w \in Windows: tmux'[w].dir # None => w < nextId' /\ (w < nextId => tmux'[w].dir = tmux[w].dir)

\* The handler of u stays, or moves on with no other file than those there are.
GoesOn(u) ==
  \/ flow'[u] = flow[u]
  \/ flow'[u].map \in {flow[u].map, map, NoEntries} /\ Asked(flow'[u], tmux', nextId')

LEMMA FitsOn ==
  ASSUME RegInv, Onward, NEW file, FileFits(file, tmux, nextId)
  PROVE  FileFits(file, tmux', nextId')
<1>1. nextId \in Nat /\ nextId' \in Nat /\ nextId' >= nextId
  BY DEF RegInv, Machine, Onward
<1> SUFFICES ASSUME NEW w \in Windows, file[w] # None
             PROVE  w < nextId' /\ (tmux'[w].dir # None => tmux'[w].dir = DirOf[file[w]])
  BY DEF FileFits
<1>2. w < nextId /\ (tmux[w].dir # None => tmux[w].dir = DirOf[file[w]])
  BY DEF FileFits
<1> QED BY <1>1, <1>2 DEF Onward, Windows

LEMMA AskedOn ==
  ASSUME RegInv, Onward, NEW f \in Flow, Steps(f), Asked(f, tmux, nextId)
  PROVE  Asked(f, tmux', nextId')
<1>1. nextId \in Nat /\ nextId' \in Nat /\ nextId' >= nextId
  BY DEF RegInv, Machine, Onward
<1> QED BY <1>1 DEF Asked, Steps, Onward, Windows

\* A step of the world: files are read, written or emptied, and a handler moves on.
LEMMA WorldStep ==
  ASSUME RegInv, World, Onward,
         map' = map \/ FileFits(map', tmux', nextId'),
         load'.map \in {load.map, map, NoEntries},
         \A u \in Topics: GoesOn(u)
  PROVE  World'
<1>1. \A w \in Windows: tmux'[w].dir # None => w < nextId'
  BY DEF Onward
<1>2. FileFits(NoEntries, tmux', nextId')
  BY DEF FileFits, NoEntries
<1>3. FileFits(map, tmux', nextId') /\ FileFits(load.map, tmux', nextId')
  BY FitsOn DEF World
<1>4. ASSUME NEW u \in Topics
      PROVE  FileFits(flow'[u].map, tmux', nextId') /\ Asked(flow'[u], tmux', nextId')
  <2>1. FileFits(flow[u].map, tmux', nextId')
    BY FitsOn DEF World
  <2>2. Asked(flow[u], tmux', nextId')
    BY FlowIs, AskedOn DEF World
  <2> QED BY <1>2, <1>3, <2>1, <2>2 DEF GoesOn
<1> QED BY <1>1, <1>2, <1>3, <1>4 DEF World

LEMMA Still == ASSUME RegInv, World, UNCHANGED <<tmux, nextId>> PROVE Onward
BY DEF Onward, RegInv, Machine, World

LEMMA GoneOn ==
  ASSUME RegInv, World, NEW w \in Windows, tmux' = [tmux EXCEPT ![w] = Down], UNCHANGED nextId
  PROVE  Onward
BY DEF Onward, RegInv, Machine, World, Down

LEMMA OpenedOn ==
  ASSUME RegInv, World, nextId \in Windows, NEW d \in Dirs, NEW s, Opened(nextId, d, s)
  PROVE  Onward /\ tmux'[nextId].dir = d /\ nextId' = nextId + 1
<1>1. nextId' = nextId + 1 /\ tmux' = [tmux EXCEPT ![nextId] = [dir |-> d, sess |-> None, asked |-> s]]
  BY DEF Opened
<1>2. nextId \in Nat
  BY DEF RegInv, Machine
<1> QED BY <1>1, <1>2 DEF Onward, RegInv, Machine, World, Windows

LEMMA DoneAsks == Asked(Done, tmux', nextId') /\ Done.map = NoEntries
BY DEF Asked, Done, NoEntries

\* The handler that moves on carries no other file than those there are.
LEMMA GotoWorld ==
  ASSUME RegInv, NEW t \in Topics, NEW f, Goto(t, f), f.map \in {flow[t].map, map, NoEntries},
         Asked(f, tmux', nextId')
  PROVE  \A u \in Topics: GoesOn(u)
BY DEF Goto, RegInv, Flows, GoesOn

LEMMA FlowStays == UNCHANGED flow => \A u \in Topics: GoesOn(u)
BY DEF GoesOn

LEMMA WrittenFits ==
  ASSUME RegInv, World, UNCHANGED <<tmux, nextId>>, NEW w \in Windows, NEW s \in Sessions,
         w < nextId, tmux[w].dir # None => tmux[w].dir = DirOf[s], map' = [map EXCEPT ![w] = s]
  PROVE  FileFits(map', tmux', nextId')
BY DEF World, FileFits, RegInv, Machine, Entries

LEMMA IdentifyFits ==
  ASSUME RegInv, World, UNCHANGED <<tmux, nextId>>, NEW t \in Topics, flow[t].pc \in {"hook", "rehook"},
         NEW m, Identify(t, m)
  PROVE  map' = map \/ FileFits(map', tmux', nextId')
<1>1. flow[t].win \in Windows /\ flow[t].sess \in Sessions
  BY FlowIs DEF Steps
<1>2. flow[t].win < nextId /\ (tmux[flow[t].win].dir # None => tmux[flow[t].win].dir = DirOf[flow[t].sess])
  BY <1>1, NoneIs DEF World, Asked
<1>3. map' = map \/ map' = [map EXCEPT ![flow[t].win] = flow[t].sess]
  BY DEF Identify
<1> QED BY <1>1, <1>2, <1>3, WrittenFits

LEMMA HandlerWorld == ASSUME NEW t \in Topics PROVE RegInv /\ World /\ Handler(t) => World'
<1> SUFFICES ASSUME RegInv, World, Handler(t) PROVE World'
  OBVIOUS
<1>0. load' = load => load'.map \in {load.map, map, NoEntries}
  OBVIOUS
<1>1. CASE Create(t)
  <2>1. PICK d \in Dirs, s \in used \cup {None}:
          /\ s # None => DirOf[s] = d
          /\ Opened(nextId, d, s)
          /\ Goto(t, [Done EXCEPT !.pc = "created", !.win = nextId, !.sess = s])
    BY <1>1 DEF Create
  <2>2. nextId \in Windows /\ UNCHANGED <<map, load>>
    BY <1>1 DEF Create
  <2>3. Onward /\ tmux'[nextId].dir = d /\ nextId' = nextId + 1 /\ nextId \in Nat
    BY <2>1, <2>2, OpenedOn DEF RegInv, Machine
  <2>4. Asked([Done EXCEPT !.pc = "created", !.win = nextId, !.sess = s], tmux', nextId')
    BY <2>1, <2>3, DoneIs DEF Asked, Flow
  <2>5. [Done EXCEPT !.pc = "created", !.win = nextId, !.sess = s].map = NoEntries
    BY DoneAsks, DoneIs DEF Flow
  <2> QED BY <1>0, <2>1, <2>2, <2>3, <2>4, <2>5, GotoWorld, WorldStep
<1>2. CASE Created(t)
  <2>1. UNCHANGED <<tmux, nextId, map, load>> /\ flow[t].pc = "created"
        /\ \E f \in {Done, [flow[t] EXCEPT !.pc = "hook"]}: Goto(t, f)
    BY <1>2 DEF Created
  <2>2. Asked([flow[t] EXCEPT !.pc = "hook"], tmux', nextId') /\ [flow[t] EXCEPT !.pc = "hook"].map = flow[t].map
    BY <2>1, FlowIs DEF Asked, Flow, World
  <2> QED BY <1>0, <2>1, <2>2, DoneAsks, Still, GotoWorld, WorldStep
<1>3. CASE Resumed(t)
  <2>1. UNCHANGED <<tmux, nextId, load>> /\ flow[t].pc = "hook" /\ Goto(t, Done) /\ \E m \in Identified(t): Identify(t, m)
    BY <1>3 DEF Resumed
  <2>2. map' = map \/ FileFits(map', tmux', nextId')
    BY <2>1, IdentifyFits
  <2> QED BY <1>0, <2>1, <2>2, DoneAsks, Still, GotoWorld, WorldStep
<1>4. CASE Recover(t)
  <2> DEFINE w == WindowOf(t)
             r == {v \in Windows: v # w /\ (mem.states[v].known \/ BoundTo(mem, v) # {})}
             f == [Done EXCEPT !.pc = "recover", !.old = w, !.sess = mem.states[w].sess, !.reserved = r]
  <2>1. UNCHANGED <<tmux, nextId, map, load>> /\ Goto(t, f)
    BY <1>4 DEF Recover
  <2> HIDE DEF w, r
  <2>2. f.pc = "recover" /\ f.map = NoEntries
    BY DoneIs, DoneAsks DEF Flow
  <2>3. Asked(f, tmux', nextId')
    BY <2>2 DEF Asked
  <2> QED BY <1>0, <2>1, <2>2, <2>3, Still, GotoWorld, WorldStep
<1>5. CASE Recreated(t)
  <2>1. flow[t] \in Flow /\ flow[t].sess \in Sessions /\ nextId \in Windows /\ UNCHANGED <<map, load>>
    BY <1>5, FlowIs DEF Recreated, Steps
  <2>2. CASE nextId \in flow[t].reserved
    <3>1. nextId' = nextId + 1 /\ UNCHANGED <<tmux, flow>>
      BY <1>5, <2>2 DEF Recreated
    <3>2. Onward
      BY <3>1 DEF Onward, RegInv, Machine, World, Windows
    <3> QED BY <1>0, <2>1, <3>1, <3>2, FlowStays, WorldStep
  <2>3. CASE nextId \notin flow[t].reserved
    <3> DEFINE f == [flow[t] EXCEPT !.pc = "started", !.win = nextId]
    <3>1. Opened(nextId, DirOf[flow[t].sess], flow[t].sess) /\ Goto(t, f)
      BY <1>5, <2>3 DEF Recreated
    <3>2. Onward /\ tmux'[nextId].dir = DirOf[flow[t].sess] /\ nextId' = nextId + 1 /\ nextId \in Nat
      BY <2>1, <3>1, OpenedOn DEF RegInv, Machine
    <3>3. f.win = nextId /\ f.sess = flow[t].sess /\ f.map = flow[t].map
      BY <2>1 DEF Flow
    <3>4. Asked(f, tmux', nextId')
      BY <3>2, <3>3 DEF Asked
    <3> QED BY <1>0, <2>1, <3>1, <3>2, <3>3, <3>4, GotoWorld, WorldStep
  <2> QED BY <2>2, <2>3
<1>6. CASE Started(t)
  <2>1. UNCHANGED <<tmux, nextId, map, load>> /\ flow[t].pc = "started" /\ Goto(t, [flow[t] EXCEPT !.pc = "rehook"])
    BY <1>6 DEF Started
  <2>2. Asked([flow[t] EXCEPT !.pc = "rehook"], tmux', nextId') /\ [flow[t] EXCEPT !.pc = "rehook"].map = flow[t].map
    BY <2>1, FlowIs DEF Asked, Flow, World
  <2> QED BY <1>0, <2>1, <2>2, Still, GotoWorld, WorldStep
<1>7. CASE Discard(t)
  <2>1. /\ flow[t].win \in Windows /\ tmux' = [tmux EXCEPT ![flow[t].win] = Down] /\ UNCHANGED <<nextId, map, load>>
        /\ \E f \in {Done, [Done EXCEPT !.pc = "unmap", !.win = flow[t].win]}: Goto(t, f)
    BY <1>7, FlowIs DEF Discard, Steps
  <2>2. Asked([Done EXCEPT !.pc = "unmap", !.win = flow[t].win], tmux', nextId')
        /\ [Done EXCEPT !.pc = "unmap", !.win = flow[t].win].map = NoEntries
    BY DoneIs, DoneAsks DEF Asked, Flow
  <2> QED BY <1>0, <2>1, <2>2, DoneAsks, GoneOn, GotoWorld, WorldStep
<1>8. CASE Rebound(t)
  <2>1. /\ UNCHANGED <<tmux, nextId, load>> /\ flow[t].pc = "rehook" /\ \E m \in Identified(t): Identify(t, m)
        /\ \E f \in {Done, [Done EXCEPT !.pc = "unmap", !.win = flow[t].old]}: Goto(t, f)
    BY <1>8 DEF Rebound
  <2>2. map' = map \/ FileFits(map', tmux', nextId')
    BY <2>1, IdentifyFits
  <2>3. Asked([Done EXCEPT !.pc = "unmap", !.win = flow[t].old], tmux', nextId')
        /\ [Done EXCEPT !.pc = "unmap", !.win = flow[t].old].map = NoEntries
    BY DoneIs, DoneAsks DEF Asked, Flow
  <2> QED BY <1>0, <2>1, <2>2, <2>3, DoneAsks, Still, GotoWorld, WorldStep
<1>9. CASE Rotate(t)
  <2> DEFINE f == [Done EXCEPT !.pc = "created", !.win = nextId]
             d == tmux[WindowOf(t)].dir
  <2>1. nextId \in Windows /\ Opened(nextId, d, None) /\ Goto(t, f) /\ UNCHANGED <<map, load>>
    BY <1>9 DEF Rotate
  <2>2. d \in Dirs
    BY <1>9, WindowOfIs, MemoryIs DEF Rotate, Up, DirOrNone
  <2> HIDE DEF d
  <2>3. Onward /\ nextId' = nextId + 1 /\ nextId \in Nat
    BY <2>1, <2>2, OpenedOn DEF RegInv, Machine
  <2>4. f.win = nextId /\ f.sess = None /\ f.map = NoEntries
    BY DoneIs, DoneAsks DEF Flow, Done
  <2>5. Asked(f, tmux', nextId')
    BY <2>3, <2>4 DEF Asked
  <2> QED BY <1>0, <2>1, <2>3, <2>4, <2>5, GotoWorld, WorldStep
<1>10. CASE Close(t)
  <2> DEFINE f == [Done EXCEPT !.pc = "close", !.win = mem.bind[t]]
  <2>1. /\ mem.bind[t] \in Windows /\ tmux' = [tmux EXCEPT ![mem.bind[t]] = Down]
        /\ UNCHANGED <<nextId, map, load>> /\ Goto(t, f)
    BY <1>10, MemoryIs DEF Close, WindowOrNone
  <2>2. Asked(f, tmux', nextId') /\ f.map = NoEntries
    BY DoneIs, DoneAsks DEF Asked, Flow
  <2> QED BY <1>0, <2>1, <2>2, GoneOn, GotoWorld, WorldStep
<1>11. CASE Closed(t)
  <2> DEFINE f == [flow[t] EXCEPT !.pc = "unmap"]
  <2>1. UNCHANGED <<tmux, nextId, map, load>> /\ Goto(t, f)
    BY <1>11 DEF Closed
  <2>2. Asked(f, tmux', nextId') /\ f.map = flow[t].map
    BY FlowIs DEF Asked, Flow
  <2> QED BY <1>0, <2>1, <2>2, Still, GotoWorld, WorldStep
<1>12. CASE Unmap(t)
  <2> DEFINE f == [flow[t] EXCEPT !.pc = "write", !.map = map]
  <2>1. UNCHANGED <<tmux, nextId, map, load>> /\ Goto(t, f)
    BY <1>12 DEF Unmap
  <2>2. Asked(f, tmux', nextId') /\ f.map = map
    BY FlowIs DEF Asked, Flow
  <2> QED BY <1>0, <2>1, <2>2, Still, GotoWorld, WorldStep
<1>13. CASE Unmapped(t)
  <2>1. UNCHANGED <<tmux, nextId, load>> /\ Goto(t, Done)
        /\ map' = IF flow[t].map[flow[t].win] = None THEN map ELSE [flow[t].map EXCEPT ![flow[t].win] = None]
    BY <1>13 DEF Unmapped
  <2>2. FileFits(flow[t].map, tmux, nextId) /\ flow[t].map \in Entries
    BY FlowIs DEF World, Flow
  <2>3. map' = map \/ FileFits(map', tmux', nextId')
    BY <2>1, <2>2 DEF FileFits, Entries
  <2> QED BY <1>0, <2>1, <2>3, DoneAsks, Still, GotoWorld, WorldStep
<1>14. CASE UnbindTopic(t)
  <2>1. UNCHANGED <<tmux, nextId, map, load, flow>>
    BY <1>14 DEF UnbindTopic
  <2> QED BY <1>0, <2>1, FlowStays, Still, WorldStep
<1>15. CASE Clear(t)
  <2>1. UNCHANGED <<nextId, map, load, flow>> /\ WindowOf(t) \in Windows
        /\ tmux' = [tmux EXCEPT ![WindowOf(t)] = [dir |-> tmux[WindowOf(t)].dir, sess |-> None, asked |-> None]]
    BY <1>15, WindowOfIs DEF Clear
  <2>2. Onward
    BY <2>1 DEF Onward, RegInv, Machine, World
  <2> QED BY <1>0, <2>1, <2>2, FlowStays, WorldStep
<1>16. CASE GoRemote(t)
  <2>1. UNCHANGED <<tmux, nextId, map, load, flow>>
    BY <1>16 DEF GoRemote
  <2> QED BY <1>0, <2>1, FlowStays, Still, WorldStep
<1>17. CASE OpenPicker(t)
  <2>1. PICK w \in Windows: Goto(t, [Done EXCEPT !.pc = "picker", !.win = w])
    BY <1>17 DEF OpenPicker
  <2>2. UNCHANGED <<tmux, nextId, map, load>>
    BY <1>17 DEF OpenPicker
  <2>3. Asked([Done EXCEPT !.pc = "picker", !.win = w], tmux', nextId')
        /\ [Done EXCEPT !.pc = "picker", !.win = w].map = NoEntries
    BY DoneIs, DoneAsks DEF Asked, Flow
  <2> QED BY <1>0, <2>1, <2>2, <2>3, Still, GotoWorld, WorldStep
<1>18. CASE Pick(t)
  <2>1. UNCHANGED <<tmux, nextId, map, load>> /\ Goto(t, Done)
    BY <1>18 DEF Pick
  <2> QED BY <1>0, <2>1, DoneAsks, Still, GotoWorld, WorldStep
<1> QED BY <1>1, <1>2, <1>3, <1>4, <1>5, <1>6, <1>7, <1>8, <1>9, <1>10, <1>11, <1>12, <1>13, <1>14,
           <1>15, <1>16, <1>17, <1>18 DEF Handler

LEMMA NextWorld == RegInv /\ World /\ [Next]_vars => World'
<1> SUFFICES ASSUME RegInv, World, [Next]_vars PROVE World'
  OBVIOUS
<1>1. CASE UNCHANGED vars
  BY <1>1 DEF vars, World
<1>2. CASE LoadMapStep
  <2>1. UNCHANGED <<tmux, nextId, map, flow>> /\ load'.map \in {load.map, map, NoEntries}
    BY <1>2 DEF LoadMapStep, MapRead, MapLoaded, Quiet, NoEntries
  <2> QED BY <2>1, FlowStays, Still, WorldStep
<1>3. CASE Restart \/ Reboot
  <2>1. PICK alive \in SUBSET Windows:
          /\ Activated(alive)
          /\ \/ UNCHANGED <<tmux, nextId>>
             \/ tmux' = [w \in Windows |-> Down] /\ alive = {}
    BY <1>3 DEF Restart, Reboot
  <2>2. /\ map' = [w \in Windows |-> IF w \in alive THEN map[w] ELSE None]
        /\ load'.map = NoEntries /\ flow' = [t \in Topics |-> Done]
    BY <2>1 DEF Activated, Quiet, NoEntries
  <2>3. FileFits(NoEntries, tmux', nextId')
    BY DEF FileFits, NoEntries
  <2>4. \A w \in Windows: tmux'[w].dir # None => w < nextId'
    BY <2>1 DEF World, Down
  <2>5. FileFits(map', tmux', nextId')
    BY <2>1, <2>2 DEF World, FileFits
  <2> QED BY <2>2, <2>3, <2>4, <2>5, DoneAsks DEF World
<1>4. CASE \E w \in Windows: SessionStart(w) \/ WindowDies(w)
  <2>1. PICK w \in Windows: SessionStart(w) \/ WindowDies(w)
    BY <1>4
  <2>2. CASE SessionStart(w)
    <3>1. PICK s \in Sessions: DirOf[s] = tmux[w].dir /\ tmux' = [tmux EXCEPT ![w].sess = s]
                               /\ map' = [map EXCEPT ![w] = s]
      BY <2>2 DEF SessionStart
    <3>2. UNCHANGED <<nextId, load, flow>> /\ tmux[w].dir # None /\ w < nextId
      BY <2>2 DEF SessionStart, Up, World
    <3>3. Onward /\ \A v \in Windows: tmux'[v].dir = tmux[v].dir
      BY <3>1, <3>2 DEF Onward, RegInv, Machine, World
    <3>4. FileFits(map', tmux', nextId')
      BY <3>1, <3>2, <3>3 DEF World, FileFits, RegInv, Machine, Entries
    <3> QED BY <3>2, <3>3, <3>4, FlowStays, WorldStep
  <2>3. CASE WindowDies(w)
    <3>1. tmux' = [tmux EXCEPT ![w] = Down] /\ UNCHANGED <<nextId, map, load, flow>>
      BY <2>3 DEF WindowDies
    <3> QED BY <3>1, GoneOn, FlowStays, WorldStep
  <2> QED BY <2>1, <2>2, <2>3
<1>5. CASE \E s \in Sessions: AutoBind(s)
  <2>1. PICK s \in Sessions: AutoBind(s)
    BY <1>5
  <2>2. PICK w \in Candidate(s): map' = [map EXCEPT ![w] = s]
    BY <2>1 DEF AutoBind
  <2>3. w \in Windows /\ tmux[w].dir = DirOf[s] /\ w < nextId
    BY <2>2, NoneIs DEF Candidate, World, Up
  <2>4. UNCHANGED <<tmux, nextId, load, flow>>
    BY <2>1 DEF AutoBind
  <2>5. FileFits(map', tmux', nextId')
    BY <2>2, <2>3, <2>4, WrittenFits
  <2> QED BY <2>4, <2>5, FlowStays, Still, WorldStep
<1>6. CASE \E t \in Topics: Handler(t)
  BY <1>6, HandlerWorld
<1> QED BY <1>1, <1>2, <1>3, <1>4, <1>5, <1>6 DEF Next

LEMMA InitWorld == Init => World
BY DEF Init, World, FileFits, Asked, Done, Quiet, Down

------------------------------------------------------------------------------
(* A topic that owns a session keeps the window and its session.            *)

KeptFor(u) ==
  owner[u] # None => mem.bind[u] # None /\ (InPlace(u) \/ mem.states[mem.bind[u]].sess # None)
\* A recovery works on the window the topic is bound to.
Recovering == {"recover", "started", "rehook"}
MovesFor(u) == flow[u].pc \in Recovering => mem.bind[u] \in {flow[u].old, None}
KeepInv == \A u \in Topics: KeptFor(u) /\ MovesFor(u)

LEMMA KeptWindow ==
  ASSUME RegInv, NEW u \in Topics, KeptFor(u), owner[u] # None, ~InPlace(u)
  PROVE  mem.bind[u] \in Windows /\ mem.states[mem.bind[u]].sess # None /\ BoundTo(mem, mem.bind[u]) # {}
BY MemoryIs DEF KeptFor, WindowOrNone, BoundTo

LEMMA LoadKeeps ==
  ASSUME RegInv, NEW file \in Entries, FileFits(file, tmux, nextId), NEW w \in Windows,
         mem.states[w].sess # None, BoundTo(mem, w) # {}
  PROVE  LoadMap(mem, file, LiveDirs).states[w].sess # None
<1>1. LoadMap(mem, file, LiveDirs).states[w] = Loaded(mem, file, LiveDirs, w)
  BY MemoryIs, LoadMapIs
<1>2. CASE file[w] = None
  BY <1>1, <1>2, MemoryIs, LoadedIs
<1>3. CASE file[w] # None
  <2>1. Readable(file, LiveDirs, w)
    BY <1>3 DEF Readable, LiveDirs, FileFits
  <2> QED BY <1>1, <1>3, <2>1, MemoryIs, LoadedIs
<1> QED BY <1>2, <1>3

LEMMA IdentifiedKeeps ==
  ASSUME RegInv, World, NEW t \in Topics, flow[t].win \in Windows, flow[t].sess \in Sessions,
         NEW m \in Identified(t), NEW w \in Windows, mem.states[w].sess # None, BoundTo(mem, w) # {}
  PROVE  m.states[w].sess # None
<1>1. CASE m = LoadMap(mem, map, LiveDirs)
  BY <1>1, LoadKeeps, MemoryIs DEF World
<1>2. CASE m = Register(mem, flow[t].win, flow[t].sess)
  <2>1. /\ Register(mem, flow[t].win, flow[t].sess).states[flow[t].win].sess = flow[t].sess
        /\ \A v \in Windows \ {flow[t].win}: Register(mem, flow[t].win, flow[t].sess).states[v] = mem.states[v]
    BY MemoryIs, RegisterIs
  <2>2. flow[t].sess # None
    BY NoneIs
  <2>3. CASE w = flow[t].win
    BY <1>2, <2>1, <2>2, <2>3
  <2>4. CASE w # flow[t].win
    BY <1>2, <2>1, <2>4
  <2> QED BY <2>3, <2>4
<1> QED BY <1>1, <1>2 DEF Identified

\* One topic at most has a window that is not shared.
LEMMA AloneIs ==
  ASSUME NEW m, NEW w, w # None, ~Shared(m, w), NEW t \in Topics, NEW u \in Topics, m.bind[t] = w, m.bind[u] = w
  PROVE  t = u
<1> SUFFICES ASSUME t # u PROVE FALSE
  OBVIOUS
<1>1. {t, u} \subseteq BoundTo(m, w) /\ BoundTo(m, w) \subseteq Topics
  BY DEF BoundTo
<1>2. IsFiniteSet(BoundTo(m, w))
  BY <1>1, FS_Subset
<1>3. Cardinality({t, u}) <= Cardinality(BoundTo(m, w)) /\ Cardinality(BoundTo(m, w)) \in Nat
  BY <1>1, <1>2, FS_Subset, FS_CardinalityType
<1>4. Cardinality({t}) = 1 /\ IsFiniteSet({t})
  BY FS_Singleton
<1>5. Cardinality({t} \cup {u}) = 2
  <2>1. u \notin {t}
    OBVIOUS
  <2>2. Cardinality({t} \cup {u}) = Cardinality({t}) + 1
    BY <1>4, <2>1, FS_AddElement
  <2> QED BY <1>4, <2>2
<1>6. {t} \cup {u} = {t, u}
  OBVIOUS
<1> QED BY <1>3, <1>5, <1>6 DEF Shared

LEMMA GotoIs ==
  ASSUME RegInv, NEW t \in Topics, NEW f, Goto(t, f)
  PROVE  flow'[t] = f /\ \A u \in Topics: u # t => flow'[u] = flow[u]
BY DEF Goto, RegInv, Flows

\* A handler that moves on while the registry stays.
LEMMA KeepHolds ==
  ASSUME KeepInv, UNCHANGED <<mem, owner>>,
         \A u \in Topics:
           \/ flow'[u] = flow[u]
           \/ /\ flow[u].pc # "rehook"
              /\ flow'[u].pc \in Recovering => mem.bind[u] \in {flow'[u].old, None}
  PROVE  KeepInv'
BY DEF KeepInv, KeptFor, MovesFor, InPlace, Recovering

\* A topic whose handler is not the one that runs.
LEMMA KeepOther ==
  ASSUME NEW u \in Topics, KeptFor(u), MovesFor(u), flow'[u] = flow[u], mem'.bind[u] \in {mem.bind[u], None},
         owner'[u] # None =>
           /\ owner'[u] = owner[u] /\ mem'.bind[u] = mem.bind[u]
           /\ InPlace(u) \/ mem'.states[mem.bind[u]].sess # None
  PROVE  KeptFor(u)' /\ MovesFor(u)'
BY DEF KeptFor, MovesFor, InPlace, Recovering

\* A topic whose handler is through with its window.
LEMMA KeepMoved ==
  ASSUME NEW u \in Topics, flow'[u].pc \notin Recovering,
         owner'[u] # None => mem'.bind[u] # None /\ mem'.states[mem'.bind[u]].sess # None
  PROVE  KeptFor(u)' /\ MovesFor(u)'
BY DEF KeptFor, MovesFor, Recovering

\* What is said of a bound window is learned: the file, or the monitor's guess.
LEMMA KeepLearned ==
  ASSUME RegInv, KeepInv, NEW m, Sound(m), m.bind = mem.bind,
         \A w \in Windows: mem.states[w].sess # None /\ BoundTo(mem, w) # {} => m.states[w].sess # None,
         mem' = m, owner' = Learned(m), UNCHANGED flow
  PROVE  KeepInv'
<1> SUFFICES ASSUME NEW u \in Topics PROVE KeptFor(u)' /\ MovesFor(u)'
  BY DEF KeepInv
<1>1. KeptFor(u) /\ MovesFor(u)
  BY DEF KeepInv
<1>2. MovesFor(u)'
  BY <1>1 DEF MovesFor
<1>3. owner'[u] = IF m.bind[u] # None /\ m.states[m.bind[u]].sess # None THEN m.states[m.bind[u]].sess ELSE owner[u]
  BY DEF Learned
<1>4. CASE mem.bind[u] # None /\ m.states[mem.bind[u]].sess # None
  BY <1>2, <1>4 DEF KeptFor
<1>5. CASE ~(mem.bind[u] # None /\ m.states[mem.bind[u]].sess # None)
  <2>1. owner'[u] = owner[u]
    BY <1>3, <1>5
  <2>2. owner[u] # None => mem.bind[u] # None /\ InPlace(u)
    BY <1>1, <1>5, KeptWindow DEF KeptFor
  <2>3. InPlace(u)' = InPlace(u)
    BY DEF InPlace
  <2> QED BY <1>2, <2>1, <2>2, <2>3 DEF KeptFor
<1> QED BY <1>2, <1>4, <1>5

LEMMA MapLoadedKeeps == RegInv /\ World /\ KeepInv /\ MapLoaded => KeepInv'
<1> SUFFICES ASSUME RegInv, World, KeepInv, MapLoaded PROVE KeepInv'
  OBVIOUS
<1> DEFINE m == LoadMap(mem, load.map, LiveDirs)
<1>1. mem' = m /\ owner' = Learned(m) /\ UNCHANGED flow
  BY DEF MapLoaded, Save
<1>2. load.map \in Entries /\ FileFits(load.map, tmux, nextId)
  BY DEF RegInv, Machine, World
<1>3. Sound(m) /\ m.bind = mem.bind
  BY <1>2, MemoryIs, LoadMapIs
<1>4. \A w \in Windows: mem.states[w].sess # None /\ BoundTo(mem, w) # {} => m.states[w].sess # None
  BY <1>2, LoadKeeps
<1> HIDE DEF m
<1> QED BY <1>1, <1>3, <1>4, KeepLearned

LEMMA AutoBindKeeps == ASSUME NEW s \in Sessions PROVE RegInv /\ KeepInv /\ AutoBind(s) => KeepInv'
<1> SUFFICES ASSUME RegInv, KeepInv, AutoBind(s) PROVE KeepInv'
  OBVIOUS
<1>1. PICK w \in Candidate(s): mem' = Register(mem, w, s) /\ owner' = Learned(Register(mem, w, s))
  BY DEF AutoBind, Save
<1>2. w \in Windows /\ UNCHANGED flow
  BY <1>1 DEF AutoBind, Candidate
<1> DEFINE m == Register(mem, w, s)
<1>3. /\ Sound(m) /\ m.bind = mem.bind /\ m.states[w].sess = s
      /\ \A v \in Windows \ {w}: m.states[v] = mem.states[v]
  BY <1>2, MemoryIs, RegisterIs
<1>4. mem' = m /\ owner' = Learned(m)
  BY <1>1
<1> HIDE DEF m
<1>5. \A v \in Windows: mem.states[v].sess # None => m.states[v].sess # None
  BY <1>3, NoneIs
<1> QED BY <1>2, <1>3, <1>4, <1>5, KeepLearned

LEMMA CreatedKeeps == ASSUME NEW t \in Topics PROVE RegInv /\ KeepInv /\ Created(t) => KeepInv'
<1> SUFFICES ASSUME RegInv, KeepInv, Created(t), NEW u \in Topics PROVE KeptFor(u)' /\ MovesFor(u)'
  BY DEF KeepInv
<1> DEFINE w == flow[t].win
           m == PrepareLaunch(mem, w, tmux[w].dir)
<1>1. w \in Windows /\ flow[t] \in Flow /\ flow[t].pc = "created"
  BY FlowIs DEF Created, Steps
<1>2. Sound(m) /\ m.bind = mem.bind /\ \A v \in Windows \ {w}: m.states[v] = mem.states[v]
  BY <1>1, MemoryIs, PrepareLaunchIs
<1>3. KeptFor(u) /\ MovesFor(u)
  BY DEF KeepInv
\* The window of a topic that keeps its session is another one.
<1>4. owner[u] # None /\ mem.bind[u] # w /\ ~InPlace(u) => mem.bind[u] # None /\ m.states[mem.bind[u]].sess # None
  BY <1>2, <1>3, KeptWindow
<1>5. CASE flow[t].sess = None
  <2>1. mem' = BindTarget(m, t, w) /\ owner' = Owned(t, w, None) /\ Goto(t, Done)
    BY <1>5 DEF Created, Save
  <2>2. mem'.states = m.states /\ mem'.bind = [mem.bind EXCEPT ![t] = w]
    BY <1>1, <1>2, <2>1, BindTargetIs
  <2> HIDE DEF m, w
  <2>3. CASE u = t
    BY <2>1, <2>3, GotoIs, DoneIs, KeepMoved DEF Owned, Recovering
  <2>4. CASE u # t
    <3>1. flow'[u] = flow[u] /\ mem'.bind[u] = mem.bind[u]
      BY <2>1, <2>2, <2>4, GotoIs, MemoryIs
    <3>2. owner'[u] = IF mem.bind[u] = w THEN None ELSE owner[u]
      BY <2>1, <2>4 DEF Owned
    <3> QED BY <1>3, <1>4, <2>2, <3>1, <3>2, KeepOther
  <2> QED BY <2>3, <2>4
<1>6. CASE flow[t].sess # None
  <2>1. /\ mem' = m /\ Goto(t, [flow[t] EXCEPT !.pc = "hook"])
        /\ owner' = [v \in Topics |-> IF mem.bind[v] = w THEN None ELSE owner[v]]
    BY <1>6 DEF Created, Save
  <2> HIDE DEF m, w
  <2>2. owner'[u] = IF mem.bind[u] = w THEN None ELSE owner[u]
    BY <2>1
  <2>3. CASE u = t
    <3>1. flow'[u].pc \notin Recovering /\ ~InPlace(u)
      BY <1>1, <2>1, <2>3, GotoIs DEF Flow, Recovering, InPlace
    <3> QED BY <1>2, <1>4, <2>1, <2>2, <3>1, KeepMoved
  <2>4. CASE u # t
    <3>1. flow'[u] = flow[u]
      BY <2>1, <2>4, GotoIs
    <3> QED BY <1>2, <1>3, <1>4, <2>1, <2>2, <3>1, KeepOther
  <2> QED BY <2>3, <2>4
<1> QED BY <1>5, <1>6

\* Resumed and Rebound: the topic is bound to the window its session was found in.
LEMMA IdentifiedBinds ==
  ASSUME RegInv, World, KeepInv, NEW t \in Topics, flow[t].win \in Windows, flow[t].sess \in Sessions,
         NEW m \in Identified(t), Identify(t, m), mem' = BindTarget(m, t, flow[t].win),
         owner' = Owned(t, flow[t].win, m.states[flow[t].win].sess),
         NEW f, Goto(t, f), f.pc \notin Recovering
  PROVE  KeepInv'
<1> SUFFICES ASSUME NEW u \in Topics PROVE KeptFor(u)' /\ MovesFor(u)'
  BY DEF KeepInv
<1> DEFINE w == flow[t].win
<1>1. Sound(m) /\ m.bind = mem.bind
  BY IdentifiedIs
<1>2. mem'.states = m.states /\ mem'.bind = [mem.bind EXCEPT ![t] = w]
  BY <1>1, BindTargetIs
<1>3. owner' = Owned(t, w, m.states[w].sess) /\ w # None
  BY NoneIs
<1>4. KeptFor(u) /\ MovesFor(u)
  BY DEF KeepInv
<1>5. owner[u] # None /\ ~InPlace(u) => m.states[mem.bind[u]].sess # None
  BY <1>4, KeptWindow, IdentifiedKeeps
<1> HIDE DEF w
<1>6. CASE u = t
  <2>1. flow'[u] = f /\ mem'.bind[u] = w /\ owner'[u] = m.states[w].sess
    BY <1>2, <1>3, <1>6, GotoIs, MemoryIs DEF Owned
  <2> QED BY <1>2, <1>3, <2>1, KeepMoved
<1>7. CASE u # t
  <2>1. flow'[u] = flow[u] /\ mem'.bind[u] = mem.bind[u]
    BY <1>2, <1>7, GotoIs, MemoryIs
  <2>2. owner'[u] = IF mem.bind[u] = w THEN None ELSE owner[u]
    BY <1>3, <1>7 DEF Owned
  <2> QED BY <1>2, <1>4, <1>5, <2>1, <2>2, KeepOther
<1> QED BY <1>6, <1>7

LEMMA ResumedKeeps == ASSUME NEW t \in Topics PROVE RegInv /\ World /\ KeepInv /\ Resumed(t) => KeepInv'
<1> SUFFICES ASSUME RegInv, World, KeepInv, Resumed(t) PROVE KeepInv'
  OBVIOUS
<1>1. flow[t].win \in Windows /\ flow[t].sess \in Sessions
  BY FlowIs DEF Resumed, Steps
<1>2. PICK m \in Identified(t):
        /\ Identify(t, m) /\ mem' = BindTarget(m, t, flow[t].win)
        /\ owner' = Owned(t, flow[t].win, m.states[flow[t].win].sess)
  BY DEF Resumed, Save
<1>3. Goto(t, Done) /\ Done.pc \notin Recovering
  BY DoneIs DEF Resumed, Recovering
<1> QED BY <1>1, <1>2, <1>3, IdentifiedBinds

LEMMA ReboundKeeps == ASSUME NEW t \in Topics PROVE RegInv /\ World /\ KeepInv /\ Rebound(t) => KeepInv'
<1> SUFFICES ASSUME RegInv, World, KeepInv, Rebound(t) PROVE KeepInv'
  OBVIOUS
<1>1. flow[t].win \in Windows /\ flow[t].sess \in Sessions
  BY FlowIs DEF Rebound, Steps
<1>2. PICK m \in Identified(t):
        /\ Identify(t, m) /\ mem' = BindTarget(m, t, flow[t].win)
        /\ owner' = Owned(t, flow[t].win, m.states[flow[t].win].sess)
  BY DEF Rebound, Save
<1>3. PICK f \in {Done, [Done EXCEPT !.pc = "unmap", !.win = flow[t].old]}: Goto(t, f)
  BY DEF Rebound
<1>4. f.pc \notin Recovering
  BY <1>3, DoneIs DEF Flow, Recovering
<1> QED BY <1>1, <1>2, <1>3, <1>4, IdentifiedBinds

LEMMA StartedKeeps == ASSUME NEW t \in Topics PROVE RegInv /\ KeepInv /\ Started(t) => KeepInv'
<1> SUFFICES ASSUME RegInv, KeepInv, Started(t), NEW u \in Topics PROVE KeptFor(u)' /\ MovesFor(u)'
  BY DEF KeepInv
<1> DEFINE w == flow[t].win
           m == PrepareLaunch(mem, w, DirOf[flow[t].sess])
           f == [flow[t] EXCEPT !.pc = "rehook"]
<1>1. w \in Windows /\ flow[t].sess \in Sessions /\ flow[t] \in Flow /\ flow[t].pc = "started"
  BY FlowIs DEF Started, Steps
<1>2. m.bind = mem.bind /\ \A v \in Windows \ {w}: m.states[v] = mem.states[v]
  BY <1>1, NoneIs, MemoryIs, PrepareLaunchIs
<1>3. /\ mem' = m /\ Goto(t, f)
      /\ owner' = [v \in Topics |-> IF v # t /\ mem.bind[v] = w THEN None ELSE owner[v]]
  BY DEF Started, Save
<1>4. KeptFor(u) /\ MovesFor(u)
  BY DEF KeepInv
<1>5. f.pc = "rehook" /\ f.win = w /\ f.old = flow[t].old
  BY <1>1 DEF Flow
<1>6. owner[u] # None /\ mem.bind[u] # w /\ ~InPlace(u) => mem.bind[u] # None /\ m.states[mem.bind[u]].sess # None
  BY <1>2, <1>4, KeptWindow
<1> HIDE DEF w, m, f
<1>7. CASE u = t
  <2>1. flow'[u] = f /\ owner'[u] = owner[u] /\ mem'.bind[u] = mem.bind[u] /\ mem'.states = m.states
    BY <1>2, <1>3, <1>7, GotoIs
  <2>2. MovesFor(u)'
    BY <1>1, <1>4, <1>5, <1>7, <2>1 DEF MovesFor, Recovering
  <2>3. ~InPlace(u)
    BY <1>1, <1>7 DEF InPlace
  <2>4. ASSUME owner[u] # None
        PROVE  mem.bind[u] # None /\ (InPlace(u)' \/ m.states[mem.bind[u]].sess # None)
    <3>1. mem.bind[u] # None /\ mem.bind[u] = flow[t].old
      BY <1>1, <1>4, <1>7, <2>4 DEF KeptFor, MovesFor, Recovering
    <3>2. CASE w = flow[t].old
      BY <1>5, <2>1, <3>1, <3>2 DEF InPlace
    <3>3. CASE w # flow[t].old
      BY <1>6, <2>3, <2>4, <3>1, <3>3
    <3> QED BY <3>2, <3>3
  <2>5. KeptFor(u)'
    BY <2>1, <2>4 DEF KeptFor
  <2> QED BY <2>2, <2>5
<1>8. CASE u # t
  <2>1. flow'[u] = flow[u] /\ mem'.bind[u] = mem.bind[u]
    BY <1>2, <1>3, <1>8, GotoIs
  <2>2. owner'[u] = IF mem.bind[u] = w THEN None ELSE owner[u]
    BY <1>3, <1>8
  <2> QED BY <1>3, <1>4, <1>6, <2>1, <2>2, KeepOther
<1> QED BY <1>7, <1>8

\* A start that fails before the saved window is prepared takes nothing from the topic.
LEMMA DiscardKeeps ==
  ASSUME "unhealthy" \notin Events, NEW t \in Topics PROVE RegInv /\ KeepInv /\ Discard(t) => KeepInv'
<1> SUFFICES ASSUME RegInv, KeepInv, Discard(t) PROVE KeepInv'
  OBVIOUS
<1> DEFINE w == flow[t].win
           sts == [mem.states EXCEPT ![w].known = TRUE]
<1>1. flow[t].pc = "started" /\ w \in Windows /\ UNCHANGED owner
  BY FlowIs DEF Discard, Event, Steps
<1>2. CASE w = flow[t].old
  <2>1. mem' = Registry(sts, mem.bind, mem.tgt) /\ Goto(t, Done)
    BY <1>2 DEF Discard, Save
  <2>2. mem'.states = sts /\ mem'.bind = mem.bind
    BY <2>1, RegistryIs
  <2>3. ASSUME NEW v \in Windows PROVE sts[v].sess = mem.states[v].sess
    <3>1. mem.states \in [Windows -> WindowState] /\ mem.states[w] \in WindowState
      BY <1>1, MemoryIs
    <3>2. [mem.states[w] EXCEPT !.known = TRUE].sess = mem.states[w].sess
      BY <3>1 DEF WindowState
    <3>3. sts[v] = IF v = w THEN [mem.states[w] EXCEPT !.known = TRUE] ELSE mem.states[v]
      BY <3>1
    <3> QED BY <3>2, <3>3
  <2> HIDE DEF w, sts
  <2>4. ASSUME NEW u \in Topics PROVE KeptFor(u)' /\ MovesFor(u)'
    <3>1. KeptFor(u) /\ MovesFor(u)
      BY DEF KeepInv
    <3>2. owner[u] # None /\ ~InPlace(u) => mem.bind[u] # None /\ sts[mem.bind[u]].sess # None
      BY <2>3, <3>1, KeptWindow
    <3>3. CASE u = t
      <4>1. flow'[u] = Done /\ ~InPlace(u)
        BY <1>1, <2>1, <3>3, GotoIs DEF InPlace
      <4> QED BY <1>1, <2>2, <3>2, <4>1, DoneIs, KeepMoved DEF Recovering
    <3>4. CASE u # t
      <4>1. flow'[u] = flow[u]
        BY <2>1, <3>4, GotoIs
      <4> QED BY <1>1, <2>2, <3>1, <3>2, <4>1, KeepOther
    <3> QED BY <3>3, <3>4
  <2> QED BY <2>4 DEF KeepInv
<1>3. CASE w # flow[t].old
  <2>1. Goto(t, [Done EXCEPT !.pc = "unmap", !.win = w]) /\ UNCHANGED mem
    BY <1>3 DEF Discard
  <2>2. [Done EXCEPT !.pc = "unmap", !.win = w].pc \notin Recovering
    BY DoneIs DEF Flow, Recovering
  <2> QED BY <1>1, <2>1, <2>2, GotoIs, KeepHolds
<1> QED BY <1>2, <1>3

LEMMA RecoverKeeps == ASSUME NEW t \in Topics PROVE RegInv /\ KeepInv /\ Recover(t) => KeepInv'
<1> SUFFICES ASSUME RegInv, KeepInv, Recover(t) PROVE KeepInv'
  OBVIOUS
<1> DEFINE w == WindowOf(t)
           r == {v \in Windows: v # w /\ (mem.states[v].known \/ BoundTo(mem, v) # {})}
           f == [Done EXCEPT !.pc = "recover", !.old = w, !.sess = mem.states[w].sess, !.reserved = r]
<1>1. Goto(t, f) /\ w # None /\ flow[t].pc = "idle" /\ UNCHANGED <<mem, owner>>
  BY DEF Recover, Idle
<1>2. w = mem.bind[t]
  BY <1>1, WindowOfIs
<1> HIDE DEF w, r
<1>3. f.old = w
  BY DoneIs DEF Flow
<1> HIDE DEF f
<1> QED BY <1>1, <1>2, <1>3, GotoIs, KeepHolds

LEMMA RecreatedKeeps == ASSUME NEW t \in Topics PROVE RegInv /\ KeepInv /\ Recreated(t) => KeepInv'
<1> SUFFICES ASSUME RegInv, KeepInv, Recreated(t) PROVE KeepInv'
  OBVIOUS
<1> DEFINE f == [flow[t] EXCEPT !.pc = "started", !.win = nextId]
<1>1. flow[t].pc = "recover" /\ (UNCHANGED flow \/ Goto(t, f)) /\ UNCHANGED <<mem, owner>>
  BY DEF Recreated
<1>2. f.old = flow[t].old
  BY FlowIs DEF Flow
<1>3. mem.bind[t] \in {flow[t].old, None}
  BY <1>1 DEF KeepInv, MovesFor, Recovering
<1> HIDE DEF f
<1> QED BY <1>1, <1>2, <1>3, GotoIs, KeepHolds

LEMMA ClosedKeeps == ASSUME NEW t \in Topics PROVE RegInv /\ KeepInv /\ Closed(t) => KeepInv'
<1> SUFFICES ASSUME RegInv, KeepInv, Closed(t), NEW u \in Topics PROVE KeptFor(u)' /\ MovesFor(u)'
  BY DEF KeepInv
<1> DEFINE f == [flow[t] EXCEPT !.pc = "unmap"]
<1>1. mem' = Unbind(mem, t) /\ owner' = [owner EXCEPT ![t] = None] /\ Goto(t, f)
  BY DEF Closed, Save
<1>2. mem'.states = mem.states /\ mem'.bind = [mem.bind EXCEPT ![t] = None]
  BY <1>1, MemoryIs, UnbindIs
<1>3. KeptFor(u) /\ MovesFor(u)
  BY DEF KeepInv
<1>4. f.pc \notin Recovering
  BY FlowIs DEF Flow, Recovering
<1> HIDE DEF f
<1>5. CASE u = t
  BY <1>1, <1>4, <1>5, GotoIs, MemoryIs, KeepMoved
<1>6. CASE u # t
  <2>1. flow'[u] = flow[u] /\ mem'.bind[u] = mem.bind[u] /\ owner'[u] = owner[u]
    BY <1>1, <1>2, <1>6, GotoIs, MemoryIs
  <2> QED BY <1>2, <1>3, <2>1, KeepOther DEF KeptFor
<1> QED BY <1>5, <1>6

LEMMA UnbindTopicKeeps == ASSUME NEW t \in Topics PROVE RegInv /\ KeepInv /\ UnbindTopic(t) => KeepInv'
<1> SUFFICES ASSUME RegInv, KeepInv, UnbindTopic(t), NEW u \in Topics PROVE KeptFor(u)' /\ MovesFor(u)'
  BY DEF KeepInv
<1>1. mem' = Unbind(mem, t) /\ owner' = [owner EXCEPT ![t] = None] /\ UNCHANGED flow /\ flow[t].pc = "idle"
  BY DEF UnbindTopic, Save, Idle
<1>2. mem'.states = mem.states /\ mem'.bind = [mem.bind EXCEPT ![t] = None]
  BY <1>1, MemoryIs, UnbindIs
<1>3. KeptFor(u) /\ MovesFor(u)
  BY DEF KeepInv
<1>4. CASE u = t
  BY <1>1, <1>4, MemoryIs, KeepMoved DEF Recovering
<1>5. CASE u # t
  <2>1. mem'.bind[u] = mem.bind[u] /\ owner'[u] = owner[u]
    BY <1>1, <1>2, <1>5, MemoryIs
  <2> QED BY <1>1, <1>2, <1>3, <2>1, KeepOther DEF KeptFor
<1> QED BY <1>4, <1>5

LEMMA UnmappedKeeps == ASSUME NEW t \in Topics PROVE RegInv /\ KeepInv /\ Unmapped(t) => KeepInv'
<1> SUFFICES ASSUME RegInv, KeepInv, Unmapped(t), NEW u \in Topics PROVE KeptFor(u)' /\ MovesFor(u)'
  BY DEF KeepInv
<1> DEFINE w == flow[t].win
<1>1. /\ w \in Windows /\ flow[t].pc = "write"
      /\ mem' = RemoveState(mem, w) /\ Goto(t, Done)
      /\ owner' = [v \in Topics |-> IF mem.bind[v] = w THEN None ELSE owner[v]]
  BY FlowIs DEF Unmapped, Steps, Save
<1> HIDE DEF w
<1>2. /\ \A v \in Windows \ {w}: mem'.states[v] = mem.states[v]
      /\ mem'.bind[u] = IF mem.bind[u] = w THEN None ELSE mem.bind[u]
  BY <1>1, MemoryIs, RemoveStateIs
<1>3. KeptFor(u) /\ MovesFor(u)
  BY DEF KeepInv
<1>4. owner'[u] = IF mem.bind[u] = w THEN None ELSE owner[u]
  BY <1>1
<1>5. owner[u] # None /\ mem.bind[u] # w /\ ~InPlace(u) => mem.bind[u] # None /\ mem'.states[mem.bind[u]].sess # None
  BY <1>2, <1>3, KeptWindow
<1>6. CASE u = t
  <2>1. flow'[u] = Done /\ ~InPlace(u)
    BY <1>1, <1>6, GotoIs DEF InPlace
  <2> QED BY <1>2, <1>4, <1>5, <2>1, DoneIs, KeepMoved DEF Recovering
<1>7. CASE u # t
  <2>1. flow'[u] = flow[u]
    BY <1>1, <1>7, GotoIs
  <2> QED BY <1>2, <1>3, <1>4, <1>5, <2>1, KeepOther
<1> QED BY <1>6, <1>7

\* /clear drops the session of one topic only: nobody else has the window.
LEMMA ClearKeeps == ASSUME NEW t \in Topics PROVE RegInv /\ KeepInv /\ Clear(t) => KeepInv'
<1> SUFFICES ASSUME RegInv, KeepInv, Clear(t), NEW u \in Topics PROVE KeptFor(u)' /\ MovesFor(u)'
  BY DEF KeepInv
<1> DEFINE w == WindowOf(t)
<1>1. w # None /\ mem' = ClearSession(mem, w) /\ owner' = [owner EXCEPT ![t] = None]
      /\ UNCHANGED flow /\ flow[t].pc = "idle"
  BY DEF Clear, Save, Idle
<1>2. w \in Windows /\ w = mem.bind[t] /\ ~Shared(mem, w)
  BY <1>1, WindowOfIs
<1> HIDE DEF w
<1>3. mem'.bind = mem.bind /\ \A v \in Windows \ {w}: mem'.states[v] = mem.states[v]
  BY <1>1, <1>2, MemoryIs, ClearSessionIs
<1>4. KeptFor(u) /\ MovesFor(u)
  BY DEF KeepInv
<1>5. CASE u = t
  BY <1>1, <1>5, MemoryIs, KeepMoved DEF Recovering
<1>6. CASE u # t
  <2>1. mem.bind[u] # w
    BY <1>1, <1>2, <1>6, AloneIs
  <2>2. owner'[u] = owner[u]
    BY <1>1, <1>6, MemoryIs
  <2>3. owner[u] # None /\ ~InPlace(u) => mem'.states[mem.bind[u]].sess # None
    BY <1>3, <1>4, <2>1, KeptWindow
  <2> QED BY <1>1, <1>3, <1>4, <2>2, <2>3, KeepOther
<1> QED BY <1>5, <1>6

LEMMA GoRemoteKeeps == ASSUME NEW t \in Topics PROVE RegInv /\ KeepInv /\ GoRemote(t) => KeepInv'
<1> SUFFICES ASSUME RegInv, KeepInv, GoRemote(t), NEW u \in Topics PROVE KeptFor(u)' /\ MovesFor(u)'
  BY DEF KeepInv
<1>1. PICK s \in Sessions: mem' = BindRemote(mem, t, s)
  BY DEF GoRemote, Save
<1>2. UNCHANGED <<flow, owner>> /\ flow[t].pc = "idle" /\ mem.tgt[t] = NoTarget
  BY DEF GoRemote, Idle
<1>3. mem'.states = mem.states /\ mem'.bind = [mem.bind EXCEPT ![t] = None]
  BY <1>1, MemoryIs, BindRemoteIs
<1>4. KeptFor(u) /\ MovesFor(u)
  BY DEF KeepInv
<1>5. CASE u = t
  <2>1. NoTarget.win = None
    BY DEF NoTarget, Target
  <2>2. mem.bind[u] = None
    BY <1>2, <1>5, <2>1, MemoryIs, SoundIs
  <2>3. owner[u] = None
    BY <1>4, <2>2 DEF KeptFor
  <2> QED BY <1>2, <1>5, <2>3, KeepMoved DEF Recovering
<1>6. CASE u # t
  <2>1. mem'.bind[u] = mem.bind[u]
    BY <1>3, <1>6, MemoryIs
  <2> QED BY <1>2, <1>3, <1>4, <2>1, KeepOther DEF KeptFor
<1> QED BY <1>5, <1>6

LEMMA PickKeeps == ASSUME NEW t \in Topics PROVE RegInv /\ KeepInv /\ Pick(t) => KeepInv'
<1> SUFFICES ASSUME RegInv, KeepInv, Pick(t) PROVE KeepInv'
  OBVIOUS
<1> DEFINE w == flow[t].win
<1>1. w \in Windows /\ flow[t].pc = "picker" /\ Goto(t, Done)
  BY FlowIs DEF Pick, Steps
<1>2. CASE Pickable(w)
  <2> SUFFICES ASSUME NEW u \in Topics PROVE KeptFor(u)' /\ MovesFor(u)'
    BY DEF KeepInv
  <2>1. mem' = BindThread(mem, t, w) /\ owner' = Owned(t, w, mem.states[w].sess)
    BY <1>2 DEF Pick, Save
  <2>2. mem'.states = mem.states /\ mem'.bind = [mem.bind EXCEPT ![t] = w]
    BY <1>1, <2>1, MemoryIs, BindThreadIs
  <2>3. mem.states[w].sess # None /\ w # None
    BY <1>1, <1>2, NoneIs DEF Pickable
  <2>4. KeptFor(u) /\ MovesFor(u)
    BY DEF KeepInv
  <2> HIDE DEF w
  <2>5. CASE u = t
    <3>1. flow'[u].pc \notin Recovering /\ mem'.bind[u] = w
      BY <1>1, <2>2, <2>5, GotoIs, DoneIs, MemoryIs DEF Recovering
    <3> QED BY <2>2, <2>3, <3>1, KeepMoved
  <2>6. CASE u # t
    <3>1. flow'[u] = flow[u] /\ mem'.bind[u] = mem.bind[u]
      BY <1>1, <2>2, <2>6, GotoIs, MemoryIs
    <3>2. owner'[u] \in {None, owner[u]}
      BY <2>1, <2>6 DEF Owned
    <3> QED BY <2>2, <2>4, <3>1, <3>2, KeepOther DEF KeptFor
  <2> QED BY <2>5, <2>6
<1>3. CASE ~Pickable(w)
  <2>1. UNCHANGED <<mem, owner>>
    BY <1>3 DEF Pick
  <2>2. flow[t].pc # "rehook" /\ Done.pc \notin Recovering
    BY <1>1, DoneIs DEF Recovering
  <2> QED BY <1>1, <2>1, <2>2, GotoIs, KeepHolds
<1> QED BY <1>2, <1>3

\* Handlers that only open a window, kill one, read a file or offer a list.
LEMMA GoingKeeps ==
  ASSUME RegInv, KeepInv, NEW t \in Topics, flow[t].pc # "rehook", UNCHANGED <<mem, owner>>,
         NEW f, Goto(t, f), f.pc \notin Recovering
  PROVE  KeepInv'
BY GotoIs, KeepHolds

LEMMA HandlerKeeps ==
  ASSUME "unhealthy" \notin Events, NEW t \in Topics PROVE RegInv /\ World /\ KeepInv /\ Handler(t) => KeepInv'
<1> SUFFICES ASSUME RegInv, World, KeepInv, Handler(t) PROVE KeepInv'
  OBVIOUS
<1>1. CASE Create(t)
  <2>1. PICK s \in used \cup {None}: Goto(t, [Done EXCEPT !.pc = "created", !.win = nextId, !.sess = s])
    BY <1>1 DEF Create
  <2>2. UNCHANGED <<mem, owner>> /\ flow[t].pc # "rehook"
    BY <1>1 DEF Create, Idle
  <2>3. [Done EXCEPT !.pc = "created", !.win = nextId, !.sess = s].pc \notin Recovering
    BY DoneIs DEF Flow, Recovering
  <2> QED BY <2>1, <2>2, <2>3, GoingKeeps
<1>2. CASE Rotate(t)
  <2>1. /\ Goto(t, [Done EXCEPT !.pc = "created", !.win = nextId])
        /\ UNCHANGED <<mem, owner>> /\ flow[t].pc # "rehook"
    BY <1>2 DEF Rotate, Idle
  <2>2. [Done EXCEPT !.pc = "created", !.win = nextId].pc \notin Recovering
    BY DoneIs DEF Flow, Recovering
  <2> QED BY <2>1, <2>2, GoingKeeps
<1>3. CASE Close(t)
  <2>1. /\ Goto(t, [Done EXCEPT !.pc = "close", !.win = mem.bind[t]])
        /\ UNCHANGED <<mem, owner>> /\ flow[t].pc # "rehook"
    BY <1>3 DEF Close, Idle
  <2>2. [Done EXCEPT !.pc = "close", !.win = mem.bind[t]].pc \notin Recovering
    BY DoneIs DEF Flow, Recovering
  <2> QED BY <2>1, <2>2, GoingKeeps
<1>4. CASE Unmap(t)
  <2>1. /\ Goto(t, [flow[t] EXCEPT !.pc = "write", !.map = map])
        /\ UNCHANGED <<mem, owner>> /\ flow[t].pc # "rehook"
    BY <1>4 DEF Unmap
  <2>2. [flow[t] EXCEPT !.pc = "write", !.map = map].pc \notin Recovering
    BY FlowIs DEF Flow, Recovering
  <2> QED BY <2>1, <2>2, GoingKeeps
<1>5. CASE OpenPicker(t)
  <2>1. PICK w \in Windows: Goto(t, [Done EXCEPT !.pc = "picker", !.win = w])
    BY <1>5 DEF OpenPicker
  <2>2. UNCHANGED <<mem, owner>> /\ flow[t].pc # "rehook"
    BY <1>5 DEF OpenPicker, Idle
  <2>3. [Done EXCEPT !.pc = "picker", !.win = w].pc \notin Recovering
    BY DoneIs DEF Flow, Recovering
  <2> QED BY <2>1, <2>2, <2>3, GoingKeeps
<1> QED BY <1>1, <1>2, <1>3, <1>4, <1>5, CreatedKeeps, ResumedKeeps, RecoverKeeps, RecreatedKeeps, StartedKeeps,
           DiscardKeeps, ReboundKeeps, ClosedKeeps, UnmappedKeeps, UnbindTopicKeeps, ClearKeeps,
           GoRemoteKeeps, PickKeeps DEF Handler

LEMMA RestartKeeps == RegInv /\ KeepInv /\ (Restart \/ Reboot) => KeepInv'
<1> SUFFICES ASSUME RegInv, KeepInv, Restart \/ Reboot, NEW u \in Topics PROVE KeptFor(u)' /\ MovesFor(u)'
  BY DEF KeepInv
<1>1. PICK alive \in SUBSET Windows: Activated(alive)
  BY DEF Restart, Reboot
<1>2. /\ mem' = Resolved(Restored, alive) /\ flow' = [t \in Topics |-> Done]
      /\ owner' = [t \in Topics |-> IF InPlace(t) THEN None ELSE owner[t]]
  BY <1>1 DEF Activated, Save
<1>3. Sound(Restored) /\ Restored.states = mem.states /\ Restored.bind = mem.bind
  BY RestoredIs DEF RegInv
<1>4. mem.bind[u] # None /\ mem.states[mem.bind[u]].sess # None =>
        mem'.bind[u] = mem.bind[u] /\ mem'.states[mem.bind[u]] = mem.states[mem.bind[u]]
  BY <1>2, <1>3, ResolvedIs
<1>5. owner'[u] # None => mem.bind[u] # None /\ mem.states[mem.bind[u]].sess # None
  BY <1>2 DEF KeepInv, KeptFor
<1>6. flow'[u].pc \notin Recovering
  BY <1>2, DoneIs DEF Recovering
<1> QED BY <1>4, <1>5, <1>6, KeepMoved

LEMMA NextKeeps == ASSUME "unhealthy" \notin Events PROVE RegInv /\ World /\ KeepInv /\ [Next]_vars => KeepInv'
<1> SUFFICES ASSUME RegInv, World, KeepInv, [Next]_vars PROVE KeepInv'
  OBVIOUS
<1>1. CASE UNCHANGED vars
  BY <1>1, KeepHolds DEF vars
<1>2. CASE LoadMapStep
  BY <1>2, MapLoadedKeeps, KeepHolds DEF LoadMapStep, MapRead
<1>3. CASE Restart \/ Reboot
  BY <1>3, RestartKeeps
<1>4. CASE \E w \in Windows: SessionStart(w) \/ WindowDies(w)
  BY <1>4, KeepHolds DEF SessionStart, WindowDies
<1>5. CASE \E s \in Sessions: AutoBind(s)
  BY <1>5, AutoBindKeeps
<1>6. CASE \E t \in Topics: Handler(t)
  BY <1>6, HandlerKeeps
<1> QED BY <1>1, <1>2, <1>3, <1>4, <1>5, <1>6 DEF Next

LEMMA InitKeeps == Init => KeepInv
BY DEF Init, KeepInv, KeptFor, MovesFor, Recovering, Done

LEMMA KeepInvIs == RegInv /\ KeepInv => KeptForRecovery
<1> SUFFICES ASSUME RegInv, KeepInv, NEW t \in Topics, owner[t] # None
             PROVE  /\ mem.bind[t] # None
                    /\ ~InPlace(t) => mem.states[mem.bind[t]].sess # None /\ mem.states[mem.bind[t]].dir # None
  BY DEF KeptForRecovery
<1>1. KeptFor(t)
  BY DEF KeepInv
<1>2. mem.bind[t] # None
  BY <1>1 DEF KeptFor
<1>3. ~InPlace(t) => mem.bind[t] \in Windows /\ mem.states[mem.bind[t]].sess # None
  BY <1>1, KeptWindow
<1>4. \A w \in Windows: mem.states[w].sess # None => mem.states[w].dir # None
  BY MemoryIs, SoundIs
<1> QED BY <1>2, <1>3, <1>4

\* A topic keeps the session it was given, its window and its directory, however many
\* topics, windows and disturbances there are, unless a recovery in the topic's own
\* window id is found unhealthy after the window was prepared: that one loses it.
THEOREM SessionsAreKept == ASSUME "unhealthy" \notin Events PROVE Spec => []KeptForRecovery
<1>1. Init => RegInv /\ World /\ KeepInv
  BY InitTypes, InitWorld, InitKeeps
<1>2. RegInv /\ World /\ KeepInv /\ [Next]_vars => (RegInv /\ World /\ KeepInv)'
  BY NextTypes, NextWorld, NextKeeps
<1>3. RegInv /\ World /\ KeepInv => KeptForRecovery
  BY KeepInvIs
<1> QED BY <1>1, <1>2, <1>3, PTL DEF Spec
==============================================================================
