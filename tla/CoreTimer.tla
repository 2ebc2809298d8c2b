------------------------------ MODULE CoreTimer ------------------------------
(***************************************************************************)
(* base/timer.cpp and base/event.h: the timer thread, the messages posted  *)
(* to it and the two HostEvents it sleeps on.                              *)
(*                                                                         *)
(* looper is where the timer thread stands in Looper and Advance.  It      *)
(* holds basic_lock only inside the steps Pop and Idle, so every operation *)
(* of another thread that takes the lock is one step.  A HostEvent is its  *)
(* flag is_set: Set raises it, a wait ends by lowering it.  Threads are    *)
(* the callers of the timer; setting[t] is the HostEvent that t still has  *)
(* to set at the end of PostEvent, Pause or Resume.  A callback is one     *)
(* step, after any delay, and may post.  dtor is where the destructor is.  *)
(*                                                                         *)
(* cancelled is history: the messages RemoveEvent was called for before    *)
(* the thread tested their event, as long as it is not posted again.       *)
(***************************************************************************)
EXTENDS Integers

CONSTANTS
    Events, Threads,
    Delays,         \* durations given to PostEvent
    MaxPosts,       \* bound: messages posted
    MaxClock        \* bound: the clock

ASSUME TimerAssumption ==
    Delays \subseteq Nat /\ MaxPosts \in Nat /\ MaxClock \in Nat

VARIABLES
    clock,                              \* TimeNs()
    msg_queue, event_fifo_id,
    active_, expired,                   \* of the events; expired: no owner is left
    host_event, pause_event,            \* is_set of each
    paused, paused_set, shutting_down,
    looper, msg, until,                 \* until: the due time it sleeps for
    setting, dtor, cancelled

queue == <<msg_queue, event_fifo_id>>
flags == <<paused, paused_set, shutting_down>>
thread == <<looper, msg, until>>
vars == <<clock, queue, active_, expired, host_event, pause_event, flags, thread,
          setting, dtor, cancelled>>

Message == [event: Events, when: Nat, handle: Nat]

Never == -1         \* no time: std::nullopt, or a wait without a time-out

\* Handles are given once, so that RemoveMessage removes one message.
TypeOK ==
    /\ clock \in Nat
    /\ msg_queue \subseteq Message
    /\ event_fifo_id \in Nat
    /\ \A m \in msg_queue : m.handle < event_fifo_id
    /\ \A m, n \in msg_queue : m.handle = n.handle => m = n
    /\ active_ \in [Events -> BOOLEAN]
    /\ expired \subseteq Events
    /\ host_event \in BOOLEAN /\ pause_event \in BOOLEAN
    /\ paused \in BOOLEAN /\ paused_set \in BOOLEAN /\ shutting_down \in BOOLEAN
    /\ looper \in {"none", "outer", "inner", "advance", "popped", "tested",
                   "callback", "sleep", "wait", "waitfor", "pausing", "exited"}
    /\ msg \in Message \cup {<<>>}
    /\ until \in Nat \cup {Never}
    /\ setting \in [Threads -> {"none", "host", "pause"}]
    /\ dtor \in {"no", "shutting", "pausing", "waking", "joining", "joined"}
    /\ cancelled \subseteq Message

Init ==
    /\ clock = 0
    /\ msg_queue = {} /\ event_fifo_id = 0
    /\ active_ = [e \in Events |-> TRUE]
    /\ expired = {}
    /\ host_event = FALSE /\ pause_event = FALSE
    /\ paused = FALSE /\ paused_set = FALSE /\ shutting_down = FALSE
    /\ looper = "none" /\ msg = <<>> /\ until = Never
    /\ setting = [t \in Threads |-> "none"] /\ dtor = "no" /\ cancelled = {}

Tick ==
    /\ clock < MaxClock
    /\ clock' = clock + 1
    /\ UNCHANGED <<queue, active_, expired, host_event, pause_event, flags, thread,
                   setting, dtor, cancelled>>

-----------------------------------------------------------------------------
(* The operations of other threads, before the destructor.                 *)

Start ==
    /\ looper = "none" /\ dtor = "no"
    /\ looper' = "outer"
    /\ UNCHANGED <<clock, queue, active_, expired, host_event, pause_event, flags,
                   msg, until, setting, dtor, cancelled>>

\* PostEvent under basic_lock; active_ is the event's, not the message's.
Enqueue(e, delay) ==
    /\ event_fifo_id < MaxPosts
    /\ clock + delay <= MaxClock
    /\ e \notin expired
    /\ active_' = [active_ EXCEPT ![e] = TRUE]
    /\ msg_queue' = msg_queue \cup
          {[event |-> e, when |-> clock + delay, handle |-> event_fifo_id]}
    /\ event_fifo_id' = event_fifo_id + 1
    /\ cancelled' = {m \in cancelled : m.event # e}

PostEvent(t, e, delay) ==
    /\ dtor = "no" /\ setting[t] = "none"
    /\ Enqueue(e, delay)
    /\ setting' = [setting EXCEPT ![t] = "host"]
    /\ UNCHANGED <<clock, expired, host_event, pause_event, flags, thread, dtor>>

\* host_event.Set() of PostEvent.
SetIfAsleep == host_event \/ looper \in {"wait", "waitfor"}       \* mutant
SetAnyway == TRUE

\* The end of PostEvent, Pause and Resume.
SetEvent(t) ==
    /\ \/ setting[t] = "host" /\ host_event' = SetAnyway /\ UNCHANGED pause_event
       \/ setting[t] = "pause" /\ pause_event' = TRUE /\ UNCHANGED host_event
    /\ setting' = [setting EXCEPT ![t] = "none"]
    /\ UNCHANGED <<clock, queue, active_, expired, flags, thread, dtor, cancelled>>

RemoveMessage(handle) ==
    /\ dtor = "no"
    /\ \E m \in msg_queue : m.handle = handle
    /\ msg_queue' = {m \in msg_queue : m.handle # handle}
    /\ UNCHANGED <<clock, event_fifo_id, active_, expired, host_event, pause_event,
                   flags, thread, setting, dtor, cancelled>>

\* The messages of e whose active_ the thread has not read.
Outstanding(e) == {m \in msg_queue : m.event = e}
                  \cup {m \in {msg} : looper = "popped" /\ m.event = e}

RemoveEvent(e) ==
    /\ dtor = "no"
    /\ e \notin expired
    /\ active_' = [active_ EXCEPT ![e] = FALSE]
    /\ msg_queue' = {m \in msg_queue : m.event # e}
    /\ cancelled' = cancelled \cup Outstanding(e)
    /\ UNCHANGED <<clock, event_fifo_id, expired, host_event, pause_event, flags,
                   thread, setting, dtor>>

\* The last owner of an event lets go; its messages stay, with a weak_ptr.
Release(e) ==
    /\ e \notin expired
    /\ expired' = expired \cup {e}
    /\ UNCHANGED <<clock, queue, active_, host_event, pause_event, flags, thread,
                   setting, dtor, cancelled>>

SetPaused(t, value) ==
    /\ dtor = "no" /\ setting[t] = "none"
    /\ paused' = value
    /\ setting' = [setting EXCEPT ![t] = "pause"]
    /\ UNCHANGED <<clock, queue, active_, expired, host_event, pause_event, paused_set,
                   shutting_down, thread, dtor, cancelled>>

Pause(t) == SetPaused(t, TRUE)
Resume(t) == SetPaused(t, FALSE)

\* ~CoreTimer, store by store, once the callers are done with the timer.
Shut ==
    /\ dtor = "no" /\ \A t \in Threads : setting[t] = "none"
    /\ dtor' = "shutting"
    /\ shutting_down' = TRUE
    /\ UNCHANGED <<clock, queue, active_, expired, host_event, pause_event, paused,
                   paused_set, thread, setting, cancelled>>

ShutPause ==
    /\ dtor = "shutting"
    /\ dtor' = "pausing"
    /\ paused' = TRUE
    /\ UNCHANGED <<clock, queue, active_, expired, host_event, pause_event, paused_set,
                   shutting_down, thread, setting, cancelled>>

ShutSetPause ==
    /\ dtor = "pausing"
    /\ dtor' = "waking"
    /\ pause_event' = TRUE
    /\ UNCHANGED <<clock, queue, active_, expired, host_event, flags, thread, setting,
                   cancelled>>

LeaveAsleep == host_event                                         \* mutant
Wake == TRUE
ShutSetHost ==
    /\ dtor = "waking"
    /\ dtor' = "joining"
    /\ host_event' = Wake
    /\ UNCHANGED <<clock, queue, active_, expired, pause_event, flags, thread, setting,
                   cancelled>>

Join ==
    /\ dtor = "joining" /\ looper \in {"none", "exited"}
    /\ dtor' = "joined"
    /\ UNCHANGED <<clock, queue, active_, expired, host_event, pause_event, flags,
                   thread, setting, cancelled>>

-----------------------------------------------------------------------------
(* The timer thread.                                                       *)

Go(place) ==
    /\ looper' = place
    /\ UNCHANGED <<clock, active_, expired, shutting_down, paused, setting, dtor>>

\* while (!shutting_down)
Outer ==
    /\ looper = "outer"
    /\ Go(IF shutting_down THEN "exited" ELSE "inner")
    /\ UNCHANGED <<queue, host_event, pause_event, paused_set, msg, until, cancelled>>

\* while (!paused)
Inner ==
    /\ looper = "inner"
    /\ Go(IF paused THEN "pausing" ELSE "advance")
    /\ paused_set' = paused
    /\ UNCHANGED <<queue, host_event, pause_event, msg, until, cancelled>>

\* pause_event.Wait()
PauseOver ==
    /\ looper = "pausing" /\ pause_event
    /\ Go("outer")
    /\ pause_event' = FALSE
    /\ UNCHANGED <<queue, host_event, paused_set, msg, until, cancelled>>

Before(m, n) == m.when < n.when \/ (m.when = n.when /\ m.handle <= n.handle)
IsFront(m) == m \in msg_queue /\ \A n \in msg_queue : Before(m, n)

\* Advance finds a due message and drops basic_lock to run it.
Pop ==
    /\ looper = "advance"
    /\ \E m \in msg_queue :
          /\ IsFront(m) /\ m.when <= clock
          /\ msg' = m
          /\ msg_queue' = msg_queue \ {m}
    /\ Go("popped")
    /\ UNCHANGED <<event_fifo_id, host_event, pause_event, paused_set, until, cancelled>>

\* if (active_), and msg.event.lock().
RunsAnyway(e) == e \notin expired                                 \* mutant
Invokes(e) == e \notin expired /\ active_[e]

Invoke ==
    /\ looper = "popped"
    /\ IF Invokes(msg.event) THEN Go("tested") /\ UNCHANGED msg
                             ELSE Go("advance") /\ msg' = <<>>
    /\ UNCHANGED <<queue, host_event, pause_event, paused_set, until, cancelled>>

\* callback_ is entered, some time after active_ was read: no lock is held, and the
\* shared_ptr keeps the event although it may be removed and released meanwhile.
EnterCallback ==
    /\ looper = "tested"
    /\ Go("callback")
    /\ UNCHANGED <<queue, host_event, pause_event, paused_set, msg, until, cancelled>>

\* The callback, which may post an event: only the timer thread lowers
\* host_event, so its own Set may as well come with the message.
Callback ==
    /\ looper = "callback"
    /\ looper' = "advance"
    /\ msg' = <<>>
    /\ \/ UNCHANGED <<queue, active_, cancelled, host_event>>
       \/ \E e \in Events, d \in Delays : Enqueue(e, d) /\ host_event' = TRUE
    /\ UNCHANGED <<clock, expired, pause_event, flags, until, setting, dtor>>

NoTimeOut(m) == Never                                             \* mutant
SleepsUntil(m) == m.when

\* Advance finds nothing due and returns the time to the front, if any.
Idle ==
    /\ looper = "advance"
    /\ \A m \in msg_queue : m.when > clock
    /\ \/ msg_queue = {} /\ until' = Never
       \/ \E m \in msg_queue : IsFront(m) /\ until' = SleepsUntil(m)
    /\ Go("sleep")
    /\ UNCHANGED <<queue, host_event, pause_event, paused_set, msg, cancelled>>

\* host_event.Wait() or host_event.WaitFor(next_time) begins.
Sleep ==
    /\ looper = "sleep"
    /\ Go(IF until = Never THEN "wait" ELSE "waitfor")
    /\ UNCHANGED <<queue, host_event, pause_event, paused_set, msg, until, cancelled>>

Awake ==
    /\ until' = Never
    /\ Go("inner")
    /\ UNCHANGED <<queue, pause_event, paused_set, msg, cancelled>>

Woken ==
    /\ looper \in {"wait", "waitfor"} /\ host_event
    /\ host_event' = FALSE
    /\ Awake

\* next_time was measured in Advance and the wait begins later: it ends at until
\* or after.
TimedOut ==
    /\ looper = "waitfor" /\ ~host_event /\ clock >= until
    /\ UNCHANGED host_event
    /\ Awake

-----------------------------------------------------------------------------

Looper == Outer \/ Inner \/ PauseOver \/ Pop \/ Invoke \/ EnterCallback \/ Callback
          \/ Idle \/ Sleep \/ Woken \/ TimedOut

Destructor == ShutPause \/ ShutSetPause \/ ShutSetHost \/ Join

Next ==
    \/ Tick \/ Start \/ Shut \/ Destructor \/ Looper
    \/ \E t \in Threads :
          \/ \E e \in Events, d \in Delays : PostEvent(t, e, d)
          \/ SetEvent(t) \/ Pause(t) \/ Resume(t)
    \/ \E h \in 0..MaxPosts : RemoveMessage(h)
    \/ \E e \in Events : RemoveEvent(e) \/ Release(e)

Spec == Init /\ [][Next]_vars

\* Time passes, the timer thread runs and callbacks return, a call that has begun
\* ends.  Nobody needs to call anything.
Fairness ==
    /\ WF_vars(Tick) /\ WF_vars(Looper) /\ WF_vars(Destructor)
    /\ \A t \in Threads : WF_vars(SetEvent(t))

FairSpec == Spec /\ Fairness

-----------------------------------------------------------------------------
(* Properties.                                                             *)

\* The timer thread never sleeps past a message: if one is due before the time it
\* went to sleep for, the event that wakes it is set or its poster is about to
\* set it, also when the message came between Advance and the wait.
NoOversleep ==
    looper \in {"sleep", "wait", "waitfor"} =>
        \A m \in msg_queue :
            \/ until # Never /\ until <= m.when
            \/ host_event
            \/ \E t \in Threads : setting[t] = "host"

\* Nor is a Resume lost: the thread waits in a timer that is not paused only while
\* the event that wakes it is set or about to be, whichever way the stores of
\* Pause and Resume of several threads and the thread's own tests interleave.
NoLostResume ==
    looper = "pausing" =>
        paused \/ pause_event \/ \E t \in Threads : setting[t] = "pause"

\* The thread sleeps only while it has nothing to do: the two above.
NoLostWakeUp == NoOversleep /\ NoLostResume

\* RemoveEvent calls off every message the thread has not tested yet, the one it
\* holds outside the lock included: the callback of such a message never begins,
\* unless the event is posted again, which activates that message too.
\* RemoveEvent does not wait: the one callback whose test came before it may
\* still begin, or go on, after it has returned.
RemovedStaysSilent == looper \in {"tested", "callback"} => msg \notin cancelled

\* A timer that is neither paused nor destroyed for good runs or drops every
\* message that is not removed.
MessagesLeave ==
    <>[](~paused /\ dtor = "no" /\ looper # "none") =>
        \A h \in 0..MaxPosts : []<>(\A m \in msg_queue : m.handle # h)

\* The destructor returns, wherever the thread stood when it began.
JoinReturns == dtor # "no" ~> dtor = "joined"

=============================================================================
