-------------------------------- MODULE Login --------------------------------
(***************************************************************************)
(* login/tap_login.cpp: the coroutine LoginAsync and the future Login      *)
(* returns, with the online clock of base/timer.cpp it measures with.      *)
(*                                                                         *)
(* login is where the coroutine stands; start and expires are its locals   *)
(* check_start_time and expires_in.  The promise and its users are those   *)
(* of Future.  The online clock is the local one until the duration config *)
(* sets it from the timer thread: pending holds the two times that         *)
(* SetOnlineTime is storing, and a reader may see any mixture of old and   *)
(* new meanwhile.  The clocks and began are in milliseconds, start,        *)
(* expires and the server's times in whole seconds; elapsed times are      *)
(* unsigned modulo Wrap.                                                   *)
(*                                                                         *)
(* began and jumped are history: the local time the polling began, and     *)
(* whether the online clock was set since.                                 *)
(***************************************************************************)
EXTENDS Future

CONSTANTS Step,             \* the milliseconds between two readings of a clock
          Expires,          \* what the server may send as expires_in
          OnlineTimes,      \* and as the time, in seconds both
          Wrap,             \* 2^64, where u64 wraps around
          LastSet,          \* bound: the local time the clock is last set and polling begins
          MaxLocal          \* bound: the local clock

ASSUME LoginAssumption ==
    /\ Step \in Nat \ {0}
    /\ Wrap \in Nat \ {0} /\ OnlineTimes \subseteq Nat
    /\ Expires \subseteq Int /\ \A e \in Expires : e < Wrap
    /\ {"token", "error", "timeout", "canceled"} \subseteq Results
    /\ LastSet \in Nat /\ MaxLocal \in Nat

VARIABLES local, online_time, time_ep_since_online, online_time_set, pending,
          login, start, expires, canceled,
          began, jumped

clock == <<local, online_time, time_ep_since_online, online_time_set, pending>>
history == <<began, jumped>>
vars == <<futureVars, clock, login, start, expires, canceled, history>>

TypeOK ==
    /\ FutureTypeOK
    /\ local \in Nat /\ online_time \in Nat /\ time_ep_since_online \in Nat
    /\ online_time_set \in BOOLEAN
    /\ pending \in [online : Nat, epoch : Nat] \cup {Nothing}
    /\ login \in {"start", "qrcode", "test", "poll", "sleep", "ended"}
    /\ start \in Int /\ expires \in Int /\ canceled \in BOOLEAN
    /\ began \in Nat /\ jumped \in BOOLEAN

Init ==
    /\ FutureInit
    /\ local = 0 /\ online_time = 0 /\ time_ep_since_online = 0
    /\ online_time_set = FALSE /\ pending = Nothing
    /\ login = "start" /\ start = 0 /\ expires = 0 /\ canceled = FALSE
    /\ began = 0 /\ jumped = FALSE

-----------------------------------------------------------------------------
(* The clock.                                                              *)

\* Bounded, and more tightly until the polling begins, so that it can end.
Tick ==
    /\ local < IF login \in {"start", "qrcode"} THEN LastSet ELSE MaxLocal
    /\ local' = local + Step
    /\ UNCHANGED <<futureVars, online_time, time_ep_since_online, online_time_set,
                   pending, login, start, expires, canceled, history>>

\* SetOnlineTime begins to store; with OnlineTimeSet all of it is visible.
SetOnlineTime(t) ==
    /\ pending = Nothing /\ local <= LastSet
    /\ pending' = [online |-> t * 1000, epoch |-> local]
    /\ jumped' = TRUE
    /\ UNCHANGED <<futureVars, local, online_time, time_ep_since_online,
                   online_time_set, login, start, expires, canceled, began>>

OnlineTimeSet ==
    /\ pending # Nothing
    /\ online_time' = pending.online
    /\ time_ep_since_online' = pending.epoch
    /\ online_time_set' = TRUE
    /\ pending' = Nothing
    /\ jumped' = TRUE
    /\ UNCHANGED <<futureVars, local, login, start, expires, canceled, began>>

OnlineFrozen == {IF online_time_set THEN online_time ELSE local}   \* mutant

\* What OnlineTimestamp may return, in milliseconds.
OnlineTimestamp ==
    IF ~online_time_set THEN {local}
    ELSE IF pending = Nothing THEN {local - time_ep_since_online + online_time}
    ELSE {local - e + o : e \in {time_ep_since_online, pending.epoch},
                          o \in {online_time, pending.online}}

\* Cut to whole seconds.
TimeSecNow == {t \div 1000 : t \in OnlineTimestamp}

-----------------------------------------------------------------------------
(* The coroutine.                                                          *)

\* co_return, and the callback of start that completes the future.
Finish(r) ==
    /\ login' = "ended"
    /\ \E s \in Setters : Set(s, r)

\* No device or no game, or the request for the code leaves.
Login ==
    /\ login = "start"
    /\ \/ Finish("error")
       \/ login' = "qrcode" /\ UNCHANGED futureVars
    /\ UNCHANGED <<clock, start, expires, canceled, history>>

\* The answer: an error, no window to show it in, or the code is shown.
QrCode ==
    /\ login = "qrcode"
    /\ \/ Finish("error") /\ UNCHANGED <<start, expires, began, jumped>>
       \/ /\ login' = "test"
          /\ start' \in TimeSecNow
          /\ expires' \in Expires
          /\ began' = local /\ jumped' = (pending # Nothing)
          /\ UNCHANGED futureVars
    /\ UNCHANGED <<clock, canceled>>

ForgetsStart(now) == now % Wrap < expires % Wrap                  \* mutant
InTime(now) == (now - start) % Wrap < expires % Wrap

\* while (TimeSecNow() - check_start_time < expires_in)
Test ==
    /\ login = "test"
    /\ \E now \in TimeSecNow :
          \/ InTime(now) /\ login' = "poll" /\ UNCHANGED futureVars
          \/ ~InTime(now) /\ Finish("timeout")
    /\ UNCHANGED <<clock, start, expires, canceled, history>>

\* The answer to the poll: the token, or an error of any kind.
Answer ==
    /\ login = "poll"
    /\ \/ Finish("token")
       \/ login' = "sleep" /\ UNCHANGED futureVars
    /\ UNCHANGED <<clock, start, expires, canceled, history>>

NeverCanceled == FALSE                                            \* mutant
Canceled == canceled

\* The sleep ends, and only then the user's cancel is looked at.
Slept ==
    /\ login = "sleep"
    /\ \/ Canceled /\ Finish("canceled")
       \/ ~Canceled /\ login' = "test" /\ UNCHANGED futureVars
    /\ UNCHANGED <<clock, start, expires, canceled, history>>

\* The user closes the window with the code.
Cancel ==
    /\ login \in {"test", "poll", "sleep"} /\ ~canceled
    /\ canceled' = TRUE
    /\ UNCHANGED <<futureVars, clock, login, start, expires, history>>

-----------------------------------------------------------------------------

Coroutine == QrCode \/ Test \/ Answer \/ Slept

Rest == <<clock, login, start, expires, canceled, history>>
Users == FutureUsers /\ UNCHANGED Rest

Next == Tick \/ (\E t \in OnlineTimes : SetOnlineTime(t)) \/ OnlineTimeSet
        \/ Login \/ Coroutine \/ Cancel \/ Users

Spec == Init /\ [][Next]_vars

\* Time passes, a request is answered or times out, a sleep ends, and a thread
\* that was woken in Get goes on.
FairSpec ==
    /\ Spec
    /\ WF_vars(Tick) /\ WF_vars(OnlineTimeSet) /\ WF_vars(Coroutine)
    /\ \A g \in Getters : WF_vars(place[g] = "woken" /\ Get(g) /\ UNCHANGED Rest)

-----------------------------------------------------------------------------
(* Properties.                                                             *)

\* "Timeout!" comes less than a second early: both times are cut to seconds, so the
\* login ends before the server's expires_in is over when the polling began late
\* in a second, but never by a whole second.  The exception is a config that set
\* the online clock while the login polled: then the unsigned difference may be
\* anything, and a clock set back ends the login at once.
TimeoutIsDue ==
    result = "timeout" /\ ~jumped => local - began > (expires - 1) * 1000

\* A login ends, and its future is completed, although polls fail for ever and
\* whatever the online clock does, unless the server sent a negative expires_in,
\* which the unsigned comparison takes for one that is never over.
LoginEnds == login = "qrcode" ~> retrieved \/ expires < 0

\* A canceled login ends in any case, and whoever waits for it gets a result.
CancelEnds ==
    canceled ~> retrieved /\ \A g \in Getters : place[g] # "waiting"

=============================================================================
