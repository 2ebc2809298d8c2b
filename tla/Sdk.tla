--------------------------------- MODULE Sdk ---------------------------------
(***************************************************************************)
(* sdk/tapsdk_api.cpp, sdk/tapsdk.cpp, sdk/platform.cpp, core/runtime.cpp: *)
(* the start of the SDK and the session calls of the C interface, made by  *)
(* several threads of the host, with duration statistics switched on.      *)
(*                                                                         *)
(* place[t] is where thread t stands in tapsdk_init, in a SetCurrent or in *)
(* a window call and arg[t] what that was called with.  started is what    *)
(* the modules were started with; dur_user, dur_game and foreground are    *)
(* what the statistics hold, the user first from saved_user, that of the   *)
(* last session in their database.  end says how the process died.         *)
(*                                                                         *)
(* The rest is history: userSet, a user was set or unset; window, what     *)
(* the last window call said; overlap, two calls of tapsdk_init ran at the *)
(* same time; gameOverlap and windowOverlap, the last tapsdk_game_set or   *)
(* window call ran beside another; failed, an Init failed after its check; *)
(* threw, the last window call ended in an exception.                      *)
(***************************************************************************)
EXTENDS Naturals

CONSTANTS Threads, Configs, Users, Games, Nothing

ASSUME SdkAssumption == Nothing \notin Threads \cup Configs \cup Users \cup Games

VARIABLES
    device, sdk_config,         \* each named by the tapsdk_config it came from
    inited, timer, event_bus, started, sdk_inited,
    current_user, user_lock, current_game,
    dur_user, dur_game, foreground, saved_user,
    place, arg, end,
    userSet, window, overlap, gameOverlap, windowOverlap, failed, threw

globals == <<device, sdk_config>>
runtime == <<inited, timer, event_bus, started, sdk_inited>>
session == <<current_user, user_lock, current_game>>
told == <<dur_user, dur_game, foreground>>
sessionHistory == <<userSet, window, gameOverlap, windowOverlap, threw>>
history == <<overlap, failed, sessionHistory>>
vars == <<globals, runtime, session, told, saved_user, place, arg, end, history>>

Windows == {"foreground", "background"}
Initing == {"config", "check", "mark", "timer", "bus", "modules", "return"}

TypeOK ==
    /\ device \in Configs \cup {Nothing} /\ sdk_config \in Configs \cup {Nothing}
    /\ inited \in BOOLEAN /\ timer \in BOOLEAN /\ event_bus \in BOOLEAN
    /\ started \in [config : Configs, device : Configs] \cup {Nothing}
    /\ sdk_inited \in BOOLEAN
    /\ current_user \in Users \cup {Nothing} /\ user_lock \in Threads \cup {Nothing}
    /\ current_game \in Games \cup {Nothing}
    /\ dur_user \in Users \cup {Nothing} /\ dur_game \in Games \cup {Nothing}
    /\ foreground \in BOOLEAN /\ saved_user \in Users \cup {Nothing}
    /\ place \in [Threads -> Initing \cup Windows \cup {"idle", "user", "game"}]
    /\ arg \in [Threads -> Configs \cup Users \cup Games \cup {Nothing}]
    /\ end \in {"no", "terminate", "null bus"}
    /\ userSet \in BOOLEAN /\ window \in BOOLEAN
    /\ overlap \in BOOLEAN /\ gameOverlap \in BOOLEAN /\ windowOverlap \in BOOLEAN
    /\ failed \in BOOLEAN /\ threw \in BOOLEAN

Init ==
    /\ device = Nothing /\ sdk_config = Nothing
    /\ inited = FALSE /\ timer = FALSE /\ event_bus = FALSE /\ started = Nothing
    /\ sdk_inited = FALSE
    /\ current_user = Nothing /\ user_lock = Nothing /\ current_game = Nothing
    /\ dur_user = Nothing /\ dur_game = Nothing /\ foreground = TRUE
    /\ saved_user \in Users \cup {Nothing}
    /\ place = [t \in Threads |-> "idle"] /\ arg = [t \in Threads |-> Nothing]
    /\ end = "no"
    /\ userSet = FALSE /\ window = TRUE
    /\ overlap = FALSE /\ gameOverlap = FALSE /\ windowOverlap = FALSE
    /\ failed = FALSE /\ threw = FALSE

Go(t, p) == /\ end = "no" /\ place' = [place EXCEPT ![t] = p]
            /\ arg' = [arg EXCEPT ![t] = IF p = "idle" THEN Nothing ELSE @]
Begin(t, p, a) == /\ end = "no" /\ place[t] = "idle"
                  /\ place' = [place EXCEPT ![t] = p] /\ arg' = [arg EXCEPT ![t] = a]
Others(t, places) == \E u \in Threads \ {t} : place[u] \in places

-----------------------------------------------------------------------------
(* tapsdk_init, store by store.                                            *)

\* Device::SetCurrent
tapsdk_init(t, c) ==
    /\ Begin(t, "config", c)
    /\ device' = c
    /\ overlap' = (overlap \/ Others(t, Initing))
    /\ UNCHANGED <<sdk_config, runtime, session, told, saved_user, end, failed,
                   sessionHistory>>

StoreConfig(t) ==
    /\ place[t] = "config" /\ Go(t, "check")
    /\ sdk_config' = arg[t]
    /\ UNCHANGED <<device, runtime, session, told, saved_user, end, history>>

NoCheck == FALSE                                                  \* mutant
AlreadyInited == inited

\* ASSERT_MSG(!inited, ...), whose exception Init turns into false.
CheckInited(t) ==
    /\ place[t] = "check" /\ Go(t, IF AlreadyInited THEN "idle" ELSE "mark")
    /\ UNCHANGED <<globals, runtime, session, told, saved_user, end, history>>

MarkInited(t) ==
    /\ place[t] = "mark" /\ Go(t, "timer")
    /\ inited' = TRUE
    /\ UNCHANGED <<globals, timer, event_bus, started, sdk_inited, session, told, saved_user,
                   end, history>>

\* Runtime::Init: to replace the handle of a running thread ends the process.
StartTimer(t) ==
    /\ place[t] = "timer" /\ Go(t, "bus")
    /\ timer' = TRUE
    /\ end' = IF timer THEN "terminate" ELSE end
    /\ UNCHANGED <<globals, inited, event_bus, started, sdk_inited, session, told, saved_user,
                   history>>

CreateBus(t) ==
    /\ place[t] = "bus" /\ Go(t, "modules")
    /\ event_bus' = TRUE
    /\ UNCHANGED <<globals, inited, timer, started, sdk_inited, session, told, saved_user,
                   end, history>>

\* The modules start, reading the globals, or one of them throws.  The statistics
\* begin with the user of the last session in their database.
StartModules(t) ==
    /\ place[t] = "modules"
    /\ \/ /\ Go(t, "return")
          /\ started' = [config |-> sdk_config, device |-> device]
          /\ dur_user' = saved_user
          /\ UNCHANGED failed
       \/ /\ Go(t, "idle")
          /\ failed' = TRUE
          /\ dur_user' \in {dur_user, saved_user}
          /\ UNCHANGED started
    /\ UNCHANGED <<globals, inited, timer, event_bus, sdk_inited, session, dur_game,
                   foreground, saved_user, end, overlap, sessionHistory>>

ReturnSuccess(t) ==
    /\ place[t] = "return" /\ Go(t, "idle")
    /\ sdk_inited' = TRUE
    /\ UNCHANGED <<globals, inited, timer, event_bus, started, session, told, saved_user, end,
                   history>>

-----------------------------------------------------------------------------
(* The session calls.  Without sdk_inited they return TAPSDK_NO_INIT.      *)

\* notifyNow on the bus; without one the process ends.
Notify == end' = IF event_bus THEN end ELSE "null bus"

Unlocked(t) == TRUE                                               \* mutant
MayLockUser(t) == user_lock = Nothing

tapsdk_user_set(t, u) ==
    /\ sdk_inited /\ MayLockUser(t)
    /\ Begin(t, "user", u)
    /\ user_lock' = t /\ current_user' = u /\ userSet' = TRUE
    /\ UNCHANGED <<globals, runtime, current_game, told, saved_user, end, overlap, failed,
                   window, gameOverlap, windowOverlap, threw>>

NotifyUser(t) ==
    /\ place[t] = "user" /\ Go(t, "idle")
    /\ Notify
    /\ dur_user' = arg[t] /\ user_lock' = Nothing
    /\ UNCHANGED <<globals, runtime, current_user, current_game, dur_game, foreground,
                   saved_user, history>>

tapsdk_game_set(t, g) ==
    /\ sdk_inited
    /\ Begin(t, "game", g)
    /\ current_game' = g
    /\ gameOverlap' = Others(t, {"game"})
    /\ UNCHANGED <<globals, runtime, current_user, user_lock, told, saved_user, end, overlap,
                   failed, userSet, window, windowOverlap, threw>>

\* The listener ignores the end of a game.
GameTold(t) == IF arg[t] = Nothing THEN dur_game ELSE arg[t]
NotifyGame(t) ==
    /\ place[t] = "game" /\ Go(t, "idle")
    /\ Notify
    /\ dur_game' = GameTold(t)
    /\ UNCHANGED <<globals, runtime, session, dur_user, foreground, saved_user, history>>

\* tapsdk_window_on_foreground and tapsdk_window_on_background
BeginWindow(t, call) ==
    /\ sdk_inited
    /\ Begin(t, call, Nothing)
    /\ window' = (call = "foreground")
    /\ windowOverlap' = Others(t, Windows)
    /\ UNCHANGED <<globals, runtime, session, told, saved_user, end, overlap, failed,
                   userSet, gameOverlap, threw>>

tapsdk_window_on_foreground(t) == BeginWindow(t, "foreground")
tapsdk_window_on_background(t) == BeginWindow(t, "background")

\* OnForeground and OnBackground of the listener throw as long as no game is set, and
\* the exception passes the C interface: the process goes on if the host catches it.
NotifyWindow(t) ==
    /\ place[t] \in Windows /\ Go(t, "idle")
    /\ Notify
    /\ threw' = (dur_game = Nothing)
    /\ foreground' = IF threw' THEN foreground ELSE place[t] = "foreground"
    /\ UNCHANGED <<globals, runtime, session, dur_user, dur_game, saved_user, overlap,
                   failed, userSet, window, gameOverlap, windowOverlap>>

-----------------------------------------------------------------------------

InitStep(t) ==
    \/ StoreConfig(t) \/ CheckInited(t) \/ MarkInited(t) \/ StartTimer(t)
    \/ CreateBus(t) \/ StartModules(t) \/ ReturnSuccess(t)

Next == \E t \in Threads :
    \/ (\E c \in Configs : tapsdk_init(t, c)) \/ InitStep(t)
    \/ (\E u \in Users \cup {Nothing} : tapsdk_user_set(t, u)) \/ NotifyUser(t)
    \/ (\E g \in Games \cup {Nothing} : tapsdk_game_set(t, g)) \/ NotifyGame(t)
    \/ tapsdk_window_on_foreground(t) \/ tapsdk_window_on_background(t) \/ NotifyWindow(t)

Spec == Init /\ [][Next]_vars

-----------------------------------------------------------------------------
(* Properties.                                                             *)

\* As long as no two calls of tapsdk_init run at the same time, which may both find
\* inited down, no call ends the process by itself (in particular sdk_inited opens
\* the gate only when there is a bus to notify; what a window call before the first
\* game throws is the host's to catch), the modules start with the config and the
\* device of one call, and an Init that failed after its check is final.
StartsOnce ==
    \/ overlap /\ end # "null bus"
    \/ /\ end = "no"
       /\ started # Nothing => started.config = started.device
       /\ failed => ~sdk_inited

\* The statistics have the current user, whatever the threads that log in and out
\* do: user_lock covers the store and the notification.  Until the host sets or
\* unsets a user the SDK has none and they have that of the last session.
UserAgrees ==
    user_lock = Nothing =>
        IF userSet THEN dur_user = current_user
                   ELSE started # Nothing => dur_user = saved_user

\* They have the current game, unless the last call that set one ran beside another,
\* which no lock orders, or ended the game, which they are not told.
GameAgrees ==
    (\A t \in Threads : place[t] # "game") /\ ~gameOverlap =>
        dur_game = current_game \/ current_game = Nothing

\* They have what the last window call said, unless it ran beside another, which no
\* lock orders either, or came before the first game: then it threw.
ForegroundAgrees ==
    (\A t \in Threads : place[t] \notin Windows) /\ ~windowOverlap /\ ~threw =>
        foreground = window

\* What the statistics hold agrees with what the host set: the three above.
StatisticsAgree == UserAgrees /\ GameAgrees /\ ForegroundAgrees

=============================================================================
