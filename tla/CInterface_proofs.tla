-------------------------- MODULE CInterface_proofs --------------------------
(***************************************************************************)
(* The properties of the C interface, for any number of threads, configs,  *)
(* users, games, structs and messages.  The start and the session calls do *)
(* not depend on the tracker calls, nor these on anything of the others    *)
(* but the flag the start raised.                                          *)
(***************************************************************************)
EXTENDS CInterface, TLAPS

Places == Initing \cup Windows \cup {"idle", "user", "game"}

\* What the invariants need of the types.
PlacesOK ==
    /\ place \in [Threads -> Places]
    /\ arg \in [Threads -> Configs \cup Users \cup Games \cup {Nothing}]

\* The lock of the users, and what the statistics were or will be told.  Nobody sets
\* a user before the start.
UserInv ==
    /\ \A t \in Threads :
          place[t] = "user" => user_lock = t /\ current_user = arg[t] /\ userSet
    /\ userSet => sdk_inited
    /\ UserAgrees

\* Without two setters at once, the one that is under way sets the current game.
GameInv ==
    /\ ~gameOverlap => \A t, u \in Threads :
          place[t] = "game" /\ place[u] = "game" => t = u
    /\ ~gameOverlap => \A t \in Threads : place[t] = "game" => current_game = arg[t]
    /\ GameAgrees

\* Without two window calls at once, the one that is under way is the last.
WindowInv ==
    /\ ~windowOverlap => \A t, u \in Threads :
          place[t] \in Windows /\ place[u] \in Windows => t = u
    /\ ~windowOverlap => \A t \in Threads :
          place[t] \in Windows => window = (place[t] = "foreground")
    /\ ForegroundAgrees

Session == Windows \cup {"user", "game"}

\* There is a bus for whoever may notify.
BusInv ==
    /\ \A t \in Threads : place[t] \in {"modules", "return"} => event_bus
    /\ sdk_inited => event_bus
    /\ \A t \in Threads : place[t] \in Session => sdk_inited
    /\ end # "null bus"

Started == {"bus", "modules", "return"}

\* Of several calls of tapsdk_init one gets past the start of the timer, and nobody
\* finds the gate open before it returns.
TimerInv ==
    end = "no" =>
        /\ \A t, u \in Threads : place[t] \in Started /\ place[u] \in Started => t = u
        /\ \A t \in Threads : place[t] \in Started => timer /\ ~sdk_inited
        /\ sdk_inited => timer

Starting == {"timer", "bus", "modules", "return"}

\* The one Init under way, as long as there was no second at the same time.
InitInv ==
    ~overlap =>
        /\ end = "no"
        /\ \A t, u \in Threads : place[t] \in Initing /\ place[u] \in Initing => t = u
        /\ \A t \in Threads :
              /\ place[t] \in Initing => device = arg[t]
              /\ place[t] \in Initing \ {"config"} => sdk_config = arg[t]
              /\ place[t] = "mark" => ~inited
              /\ place[t] \in Starting => inited /\ ~sdk_inited /\ ~failed
              /\ place[t] = "timer" => ~timer
        /\ ~inited => ~timer /\ ~sdk_inited /\ ~failed
        /\ started # Nothing => started.config = started.device
        /\ failed => ~sdk_inited

SdkInv == PlacesOK /\ UserInv /\ GameInv /\ WindowInv /\ BusInv /\ TimerInv /\ InitInv

USE SdkAssumption

LEMMA SdkBegins == Init => SdkInv
<1> SUFFICES ASSUME Init PROVE SdkInv
  OBVIOUS
<1>1. /\ place = [t \in Threads |-> "idle"] /\ arg = [t \in Threads |-> Nothing]
      /\ \A t \in Threads : place[t] = "idle"
  BY DEF Init
<1>2. PlacesOK
  BY <1>1 DEF PlacesOK, Places
<1>3. UserInv /\ GameInv /\ WindowInv
  BY <1>1 DEF Init, UserInv, UserAgrees, GameInv, GameAgrees, WindowInv, ForegroundAgrees,
                  Windows
<1>4. BusInv /\ TimerInv /\ InitInv
  BY <1>1 DEF Init, BusInv, TimerInv, InitInv, Initing, Session, Windows, Started, Starting
<1> QED
  BY <1>2, <1>3, <1>4 DEF SdkInv

\* What a step of t leaves alone of the other threads.
LEMMA OneMoves ==
    ASSUME PlacesOK, NEW t \in Threads, NEW p \in Places,
           \/ Go(t, p)
           \/ \E a \in Configs \cup Users \cup Games \cup {Nothing} : Begin(t, p, a)
    PROVE  /\ PlacesOK' /\ place'[t] = p
           /\ \A u \in Threads : u # t => place'[u] = place[u] /\ arg'[u] = arg[u]
           /\ Go(t, p) /\ p # "idle" => arg'[t] = arg[t]
           /\ end = "no"
<1>1. CASE Go(t, p)
  BY <1>1 DEF Go, PlacesOK
<1>2. ASSUME NEW a \in Configs \cup Users \cup Games \cup {Nothing}, Begin(t, p, a)
      PROVE  /\ PlacesOK' /\ place'[t] = p
             /\ \A u \in Threads : u # t => place'[u] = place[u] /\ arg'[u] = arg[u]
             /\ end = "no"
  BY <1>2 DEF Begin, PlacesOK
<1> QED
  BY <1>1, <1>2 DEF Go

\* t moves, the others stay.
Moves(t) ==
    /\ PlacesOK' /\ end = "no"
    /\ \A u \in Threads : u # t => place'[u] = place[u] /\ arg'[u] = arg[u]

\* A step of tapsdk_init does not touch game and window, and the user at most when
\* the modules start ...
LEMMA SessionFrame ==
    ASSUME SdkInv, NEW t \in Threads, Moves(t),
           place[t] \notin Session, place'[t] \notin Session,
           UNCHANGED <<session, dur_game, foreground, sessionHistory>>
    PROVE  /\ GameInv' /\ WindowInv'
           /\ UNCHANGED <<dur_user, saved_user, started>> /\ (sdk_inited => sdk_inited') => UserInv'
<1> USE DEF SdkInv, Moves, Session, Windows, session, sessionHistory
<1>1. ASSUME UNCHANGED <<dur_user, saved_user, started>>, sdk_inited => sdk_inited'
      PROVE  UserInv'
  BY <1>1 DEF UserInv, UserAgrees
<1>2. GameInv'
  BY DEF GameInv, GameAgrees
<1>3. WindowInv'
  BY DEF WindowInv, ForegroundAgrees
<1> QED
  BY <1>1, <1>2, <1>3

\* ... and a session call not the start.
LEMMA InitFrame ==
    ASSUME SdkInv, NEW t \in Threads, Moves(t),
           place[t] \in Session \cup {"idle"}, place'[t] \in Session \cup {"idle"},
           place[t] \in Session \/ sdk_inited,
           UNCHANGED <<globals, runtime, end, overlap, failed>>
    PROVE  BusInv' /\ TimerInv' /\ InitInv'
<1> USE DEF SdkInv, Moves, Session, Windows, globals, runtime
<1>1. BusInv' /\ TimerInv'
  BY DEF BusInv, TimerInv, Started
<1>2. InitInv'
  BY DEF InitInv, Initing, Starting
<1> QED
  BY <1>1, <1>2

LEMMA StartKeeps ==
    ASSUME SdkInv, NEW t \in Threads, NEW c \in Configs, tapsdk_init(t, c)
    PROVE  SdkInv'
<1>1. Moves(t) /\ place'[t] = "config" /\ place[t] = "idle" /\ arg'[t] = c
  BY OneMoves DEF tapsdk_init, Begin, Moves, SdkInv, PlacesOK, Places, Initing
<1>2. UNCHANGED <<sdk_config, runtime, session, told, saved_user, end, failed, sessionHistory>>
      /\ device' = c /\ overlap' = (overlap \/ Others(t, Initing))
  BY DEF tapsdk_init
<1>3. UserInv' /\ GameInv' /\ WindowInv'
  BY <1>1, <1>2, SessionFrame DEF Session, Windows, told, runtime
<1>4. BusInv' /\ TimerInv'
  BY <1>1, <1>2 DEF SdkInv, BusInv, TimerInv, Started, Session, Windows, Moves, runtime
<1>5. InitInv'
  <2>1. SUFFICES ASSUME ~overlap' PROVE InitInv'
    BY DEF InitInv
  <2>2. ~overlap /\ \A u \in Threads : u # t => place[u] \notin Initing
    BY <1>2, <2>1 DEF Others
  <2> QED
    BY <1>1, <1>2, <2>2 DEF SdkInv, InitInv, Moves, runtime, Initing, Starting
<1> QED
  BY <1>1, <1>3, <1>4, <1>5 DEF SdkInv, Moves

LEMMA InitStepKeeps ==
    ASSUME SdkInv, NEW t \in Threads, InitStep(t)
    PROVE  SdkInv'
<1>1. place[t] \in Initing /\ \E p \in Initing \cup {"idle"} : Go(t, p)
  BY DEF InitStep, StoreConfig, CheckInited, MarkInited, StartTimer, CreateBus, StartModules,
         ReturnSuccess, Initing
<1>2. Moves(t) /\ place'[t] \in Initing \cup {"idle"} /\ (place'[t] # "idle" => arg'[t] = arg[t])
  BY <1>1, OneMoves DEF Moves, SdkInv, Places
<1>3. /\ UNCHANGED <<session, dur_game, foreground, saved_user, sessionHistory>>
      /\ sdk_inited => sdk_inited'
  BY DEF InitStep, StoreConfig, CheckInited, MarkInited, StartTimer, CreateBus, StartModules,
         ReturnSuccess, history, told, runtime
<1>4. GameInv' /\ WindowInv'
  BY <1>1, <1>2, <1>3, SessionFrame DEF Session, Windows, Initing
<1>4a. UserInv'
  <2>1. CASE StartModules(t)
    <3>1. ~sdk_inited /\ ~userSet
      BY <1>2, <2>1 DEF StartModules, SdkInv, TimerInv, UserInv, Started, Moves
    <3>2. dur_user' = saved_user \/ (dur_user' = dur_user /\ started' = started)
      BY <2>1 DEF StartModules
    <3> QED
      BY <1>1, <1>2, <1>3, <3>1, <3>2 DEF SdkInv, UserInv, UserAgrees, Moves, session,
                                          sessionHistory, Initing
  <2>2. CASE ~StartModules(t)
    <3>1. UNCHANGED <<dur_user, started>>
      BY <2>2 DEF InitStep, StoreConfig, CheckInited, MarkInited, StartTimer, CreateBus,
                  ReturnSuccess, told, runtime
    <3> QED
      BY <1>1, <1>2, <1>3, <3>1, SessionFrame DEF Session, Windows, Initing
  <2> QED
    BY <2>1, <2>2
<1>5. ASSUME BusInv', TimerInv', InitInv' PROVE SdkInv'
  BY <1>2, <1>4, <1>5, <1>4a DEF SdkInv, Moves
<1> USE DEF SdkInv, BusInv, TimerInv, InitInv, Moves, Initing, Started, Starting, Session, Windows,
            PlacesOK, runtime, globals, history
<1>6. CASE StoreConfig(t)
  <2>1. place'[t] = "check"
    BY <1>6 DEF StoreConfig, Go
  <2> QED
    BY <1>2, <1>5, <1>6, <2>1 DEF StoreConfig
<1>7. CASE CheckInited(t)
  <2>1. place'[t] = IF AlreadyInited THEN "idle" ELSE "mark"
    BY <1>7 DEF CheckInited, Go
  <2> QED
    BY <1>2, <1>5, <1>7, <2>1 DEF CheckInited, AlreadyInited
<1>8. CASE MarkInited(t)
  <2>1. place'[t] = "timer"
    BY <1>8 DEF MarkInited, Go
  <2> QED
    BY <1>2, <1>5, <1>8, <2>1 DEF MarkInited
<1>9. CASE StartTimer(t)
  <2>1. place'[t] = "bus"
    BY <1>9 DEF StartTimer, Go
  <2> QED
    BY <1>2, <1>5, <1>9, <2>1 DEF StartTimer
<1>10. CASE CreateBus(t)
  <2>1. place'[t] = "modules"
    BY <1>10 DEF CreateBus, Go
  <2> QED
    BY <1>2, <1>5, <1>10, <2>1 DEF CreateBus
<1>11. CASE StartModules(t)
  <2>1. \/ place'[t] = "return" /\ UNCHANGED failed
           /\ started' = [config |-> sdk_config, device |-> device]
        \/ place'[t] = "idle" /\ failed' = TRUE /\ UNCHANGED started
    BY <1>11 DEF StartModules, Go
  <2> QED
    BY <1>2, <1>5, <1>11, <2>1 DEF StartModules
<1>12. CASE ReturnSuccess(t)
  <2>1. place'[t] = "idle"
    BY <1>12 DEF ReturnSuccess, Go
  <2> QED
    BY <1>2, <1>5, <1>12, <2>1 DEF ReturnSuccess
<1> QED
  BY <1>6, <1>7, <1>8, <1>9, <1>10, <1>11, <1>12 DEF InitStep

\* A notification finds a bus.
LEMMA NotifyIsSafe ==
    ASSUME SdkInv, NEW t \in Threads, place[t] \in Session, Notify
    PROVE  end' = end
BY DEF SdkInv, BusInv, Session, Notify

LEMMA UserKeeps ==
    ASSUME SdkInv, NEW t \in Threads,
           (\E u \in Users \cup {Nothing} : tapsdk_user_set(t, u)) \/ NotifyUser(t)
    PROVE  SdkInv'
<1> USE DEF SdkInv, Moves, Session, Windows, session, told, history, sessionHistory
<1>1. ASSUME NEW u \in Users \cup {Nothing}, tapsdk_user_set(t, u) PROVE SdkInv'
  <2>1. Moves(t) /\ place'[t] = "user" /\ place[t] = "idle" /\ arg'[t] = u
    BY <1>1, OneMoves DEF tapsdk_user_set, Begin, PlacesOK, Places
  <2>2. BusInv' /\ TimerInv' /\ InitInv'
    BY <1>1, <2>1, InitFrame DEF tapsdk_user_set
  <2>3. UserInv'
    BY <1>1, <2>1 DEF tapsdk_user_set, MayLockUser, runtime, UserInv, UserAgrees
  <2>4. GameInv'
    BY <1>1, <2>1 DEF tapsdk_user_set, GameInv, GameAgrees
  <2>5. WindowInv'
    BY <1>1, <2>1 DEF tapsdk_user_set, WindowInv, ForegroundAgrees
  <2> QED
    BY <2>1, <2>2, <2>3, <2>4, <2>5
<1>2. CASE NotifyUser(t)
  <2>1. Moves(t) /\ place'[t] = "idle" /\ place[t] = "user"
    BY <1>2, OneMoves DEF NotifyUser, Places
  <2>2. BusInv' /\ TimerInv' /\ InitInv'
    BY <1>2, <2>1, InitFrame, NotifyIsSafe DEF NotifyUser
  <2>3. UserInv'
    BY <1>2, <2>1 DEF NotifyUser, runtime, UserInv, UserAgrees
  <2>4. GameInv'
    BY <1>2, <2>1 DEF NotifyUser, GameInv, GameAgrees
  <2>5. WindowInv'
    BY <1>2, <2>1 DEF NotifyUser, WindowInv, ForegroundAgrees
  <2> QED
    BY <2>1, <2>2, <2>3, <2>4, <2>5
<1> QED
  BY <1>1, <1>2

LEMMA GameKeeps ==
    ASSUME SdkInv, NEW t \in Threads,
           (\E g \in Games \cup {Nothing} : tapsdk_game_set(t, g)) \/ NotifyGame(t)
    PROVE  SdkInv'
<1> USE DEF SdkInv, Moves, Session, Windows, session, told, history, sessionHistory
<1>1. ASSUME NEW g \in Games \cup {Nothing}, tapsdk_game_set(t, g) PROVE SdkInv'
  <2>1. Moves(t) /\ place'[t] = "game" /\ place[t] = "idle" /\ arg'[t] = g
    BY <1>1, OneMoves DEF tapsdk_game_set, Begin, PlacesOK, Places
  <2>2. BusInv' /\ TimerInv' /\ InitInv'
    BY <1>1, <2>1, InitFrame DEF tapsdk_game_set
  <2>3. UserInv'
    BY <1>1, <2>1 DEF tapsdk_game_set, runtime, UserInv, UserAgrees
  <2>4. GameInv'
    BY <1>1, <2>1 DEF tapsdk_game_set, Others, GameInv, GameAgrees
  <2>5. WindowInv'
    BY <1>1, <2>1 DEF tapsdk_game_set, WindowInv, ForegroundAgrees
  <2> QED
    BY <2>1, <2>2, <2>3, <2>4, <2>5
<1>2. CASE NotifyGame(t)
  <2>1. Moves(t) /\ place'[t] = "idle" /\ place[t] = "game"
    BY <1>2, OneMoves DEF NotifyGame, Places
  <2>2. BusInv' /\ TimerInv' /\ InitInv'
    BY <1>2, <2>1, InitFrame, NotifyIsSafe DEF NotifyGame
  <2>3. UserInv'
    BY <1>2, <2>1 DEF NotifyGame, runtime, UserInv, UserAgrees
  <2>4. GameInv'
    BY <1>2, <2>1 DEF NotifyGame, GameTold, GameInv, GameAgrees
  <2>5. WindowInv'
    BY <1>2, <2>1 DEF NotifyGame, WindowInv, ForegroundAgrees
  <2> QED
    BY <2>1, <2>2, <2>3, <2>4, <2>5
<1> QED
  BY <1>1, <1>2

LEMMA WindowKeeps ==
    ASSUME SdkInv, NEW t \in Threads, tapsdk_window_on_foreground(t) \/ tapsdk_window_on_background(t) \/ NotifyWindow(t)
    PROVE  SdkInv'
<1> USE DEF SdkInv, Moves, Session, Windows, session, told, history, sessionHistory
<1>1. ASSUME NEW w \in Windows, BeginWindow(t, w) PROVE SdkInv'
  <2>1. Moves(t) /\ place'[t] = w /\ place[t] = "idle"
    BY <1>1, OneMoves DEF BeginWindow, Begin, Places
  <2>2. BusInv' /\ TimerInv' /\ InitInv'
    BY <1>1, <2>1, InitFrame DEF BeginWindow
  <2>3. UserInv' /\ GameInv'
    BY <1>1, <2>1 DEF BeginWindow, runtime, UserInv, UserAgrees, GameInv, GameAgrees
  <2>4. WindowInv'
    BY <1>1, <2>1 DEF BeginWindow, Others, WindowInv, ForegroundAgrees
  <2> QED
    BY <2>1, <2>2, <2>3, <2>4
<1>2. CASE NotifyWindow(t)
  <2>1. Moves(t) /\ place'[t] = "idle" /\ place[t] \in Windows
    BY <1>2, OneMoves DEF NotifyWindow, Places
  <2>2. BusInv' /\ TimerInv' /\ InitInv'
    BY <1>2, <2>1, InitFrame, NotifyIsSafe DEF NotifyWindow
  <2>3. UserInv' /\ GameInv'
    BY <1>2, <2>1 DEF NotifyWindow, runtime, UserInv, UserAgrees, GameInv, GameAgrees
  <2>4. WindowInv'
    BY <1>2, <2>1 DEF NotifyWindow, WindowInv, ForegroundAgrees
  <2> QED
    BY <2>1, <2>2, <2>3, <2>4
<1> QED
  BY <1>1, <1>2 DEF tapsdk_window_on_foreground, tapsdk_window_on_background

LEMMA SdkStays == SdkInv /\ UNCHANGED vars => SdkInv'
<1> SUFFICES ASSUME SdkInv, UNCHANGED vars PROVE SdkInv'
  OBVIOUS
<1> USE DEF SdkInv, vars, globals, runtime, session, told, history, sessionHistory
<1>1. PlacesOK' /\ UserInv'
  BY DEF PlacesOK, UserInv, UserAgrees
<1>2. GameInv'
  BY DEF GameInv, GameAgrees
<1>3. WindowInv' /\ BusInv' /\ TimerInv'
  BY DEF WindowInv, ForegroundAgrees, BusInv, TimerInv
<1>4. InitInv'
  BY DEF InitInv
<1> QED
  BY <1>1, <1>2, <1>3, <1>4

LEMMA SdkInductive == SdkInv /\ Next => SdkInv'
BY StartKeeps, InitStepKeeps, UserKeeps, GameKeeps, WindowKeeps DEF Next

-----------------------------------------------------------------------------

\* The tracker part.  A message that is not flushed is not stored.
ApiInv ==
    /\ hash \in [Structs -> Fields \cup {NoHash}]
    /\ fields \in [Structs -> Fields]
    /\ tracker_configs \in [Fields -> Fields \cup {NoHash}]
    /\ stored \in [Messages -> Nat]
    /\ config \in [Messages -> Fields \cup {NoHash}]
    /\ meant \in [Messages -> Fields \cup {NoHash}]
    /\ state \in [Messages -> {"none", "live", "flushed", "freed", "lost"}]
    /\ \A m \in Messages : state[m] \in {"none", "live"} => stored[m] = 0
    /\ MessagesGoRight

LEMMA ApiBegins == Api!Init => ApiInv
<1> SUFFICES ASSUME Api!Init PROVE ApiInv
  OBVIOUS
<1> QED
  BY DEF Api!Init, Api!Null, ApiInv, MessagesGoRight, Api!CachedUnderItsHash,
         Api!CallersConfig, Api!StoredOnce

LEMMA ApiInductive == ApiInv /\ Api!Next => ApiInv'
<1> SUFFICES ASSUME ApiInv, Api!Next PROVE ApiInv'
  OBVIOUS
<1> USE DEF ApiInv, MessagesGoRight, Api!CachedUnderItsHash, Api!CallersConfig,
            Api!StoredOnce, Api!Null
<1>1. ASSUME NEW k \in Structs, NEW f \in Fields, NEW h \in Fields \cup {NoHash},
             Api!Refill(k, f, h)
      PROVE ApiInv'
  BY <1>1 DEF Api!Refill, Api!message
<1>2. ASSUME NEW k \in Structs, NEW m \in Messages, Api!Create(k, m) PROVE ApiInv'
  BY <1>2 DEF Api!Create, Api!Remember, Api!ConfigOf, Api!Known, Api!Stale
<1>3. ASSUME NEW m \in Messages, NEW pushed \in BOOLEAN, Api!Flush(m, pushed) PROVE ApiInv'
  BY <1>3 DEF Api!Flush, Api!caller
<1> QED
  BY <1>1, <1>2, <1>3 DEF Api!Next

-----------------------------------------------------------------------------

LEMMA Invariant == InterfaceSpec => [](SdkInv /\ ApiInv)
<1>1. InterfaceInit => SdkInv /\ ApiInv
  BY SdkBegins, ApiBegins DEF InterfaceInit
<1>2. SdkInv /\ ApiInv /\ [InterfaceNext]_<<vars, trackerVars>> => (SdkInv /\ ApiInv)'
  <2>1. ApiInv /\ UNCHANGED trackerVars => ApiInv'
    BY DEF ApiInv, trackerVars, MessagesGoRight, Api!CachedUnderItsHash, Api!CallersConfig,
           Api!StoredOnce, Api!Null
  <2> QED
    BY <2>1, SdkStays, SdkInductive, ApiInductive DEF InterfaceNext, TrackerCall
<1> QED
  BY <1>1, <1>2, PTL DEF InterfaceSpec

\* Without two calls of tapsdk_init at once no call ends the process by itself, the
\* modules start from one call, and a failed start is final; and never does a call
\* find the gate open and no bus.
THEOREM Starts == InterfaceSpec => []StartsOnce
<1>1. SdkInv => StartsOnce
  BY DEF SdkInv, BusInv, InitInv, StartsOnce
<1> QED
  BY <1>1, Invariant, PTL

\* The statistics have the user, the game and the window the host last set, with the
\* exceptions the property names, also when they begin with a user of an old session.
THEOREM Agrees == InterfaceSpec => []StatisticsAgree
<1>1. SdkInv => StatisticsAgree
  BY DEF SdkInv, UserInv, GameInv, WindowInv, StatisticsAgree
<1> QED
  BY <1>1, Invariant, PTL

\* Messages go where their fields say, once, whatever hashes the callers pass.
THEOREM GoRight == InterfaceSpec => []MessagesGoRight
<1>1. ApiInv => MessagesGoRight
  BY DEF ApiInv
<1> QED
  BY <1>1, Invariant, PTL

=============================================================================
