--------------------------- MODULE CoreTimer_proofs ---------------------------
(***************************************************************************)
(* The safety properties of the timer, for any number of threads, events,  *)
(* messages and delays.  Every action is looked at once, in one lemma, for *)
(* its effect on three groups of facts: the messages, sleep and wake-up,   *)
(* and what RemoveEvent called off.                                        *)
(***************************************************************************)
EXTENDS CoreTimer, TLAPS

\* What the properties need of the types: messages have times and handles, and a
\* handle is given once.
MessagesOK ==
    /\ clock \in Nat /\ event_fifo_id \in Nat
    /\ msg_queue \subseteq Message
    /\ \A m \in msg_queue : m.handle < event_fifo_id
    /\ setting \in [Threads -> {"none", "host", "pause"}]
    /\ active_ \in [Events -> BOOLEAN]

\* The message in the hands of the thread is no longer queued.
HeldOK ==
    looper \in {"popped", "tested", "callback"} =>
        msg \in Message /\ msg.handle < event_fifo_id /\ msg \notin msg_queue

\* What was called off stays called off: its event is inactive.
CancelledOK ==
    /\ cancelled \subseteq Message
    /\ \A m \in cancelled : active_[m.event] = FALSE

TimerInv == MessagesOK /\ HeldOK /\ CancelledOK /\ NoLostWakeUp /\ RemovedStaysSilent

USE TimerAssumption
USE DEF TimerInv, NoLostWakeUp

LEMMA Begins == Init => TimerInv
<1> SUFFICES ASSUME Init PROVE TimerInv
  OBVIOUS
<1>1. setting \in [Threads -> {"none", "host", "pause"}] /\ active_ \in [Events -> BOOLEAN]
  BY DEF Init
<1> QED
  BY <1>1 DEF Init, MessagesOK, HeldOK, CancelledOK, NoOversleep, NoLostResume, RemovedStaysSilent

\* What posting does, in a thread or in a callback.
LEMMA EnqueueKeeps ==
    ASSUME TimerInv, NEW e \in Events, NEW delay \in Delays, Enqueue(e, delay),
           UNCHANGED clock, setting' \in [Threads -> {"none", "host", "pause"}]
    PROVE  /\ MessagesOK' /\ CancelledOK'
           /\ cancelled' \subseteq cancelled
           /\ event_fifo_id' = event_fifo_id + 1
           /\ \E m \in Message : m.handle = event_fifo_id /\ msg_queue' = msg_queue \cup {m}
<1> DEFINE new == [event |-> e, when |-> clock + delay, handle |-> event_fifo_id]
<1>1. new \in Message /\ new.handle = event_fifo_id /\ msg_queue' = msg_queue \cup {new}
  BY DEF Enqueue, MessagesOK, Message
<1>2. MessagesOK'
  BY <1>1 DEF MessagesOK, Enqueue, Message
<1>3. cancelled' \subseteq cancelled /\ \A m \in cancelled' : m.event # e
  BY DEF Enqueue
<1>4. CancelledOK'
  BY <1>3 DEF CancelledOK, Enqueue, MessagesOK, Message
<1> QED
  BY <1>1, <1>2, <1>3, <1>4 DEF Enqueue

LEMMA PostKeeps ==
    ASSUME TimerInv, NEW t \in Threads, NEW e \in Events, NEW d \in Delays, PostEvent(t, e, d)
    PROVE  TimerInv'
<1>1. /\ Enqueue(e, d) /\ setting' = [setting EXCEPT ![t] = "host"]
      /\ UNCHANGED <<clock, host_event, pause_event, paused, looper, msg, until>>
      /\ setting[t] = "none"
  BY DEF PostEvent, flags, thread
<1>2. setting' \in [Threads -> {"none", "host", "pause"}]
  BY <1>1 DEF MessagesOK
<1>3. PICK m \in Message : m.handle = event_fifo_id /\ msg_queue' = msg_queue \cup {m}
  BY <1>1, <1>2, EnqueueKeeps
<1>4. MessagesOK' /\ CancelledOK' /\ cancelled' \subseteq cancelled
  BY <1>1, <1>2, EnqueueKeeps
<1>5. HeldOK'
  BY <1>1, <1>3 DEF HeldOK, MessagesOK, Enqueue, Message
<1>6. NoOversleep' /\ NoLostResume'
  <2>1. setting'[t] = "host" /\ \A u \in Threads : setting[u] = "pause" => setting'[u] = "pause"
    BY <1>1 DEF MessagesOK
  <2> QED
    BY <1>1, <2>1 DEF NoOversleep, NoLostResume
<1>7. RemovedStaysSilent'
  BY <1>1, <1>4 DEF RemovedStaysSilent
<1> QED
  BY <1>4, <1>5, <1>6, <1>7

LEMMA SetEventKeeps ==
    ASSUME TimerInv, NEW t \in Threads, SetEvent(t)
    PROVE  TimerInv'
<1>1. /\ UNCHANGED <<clock, msg_queue, event_fifo_id, active_, paused, looper, msg, until, cancelled>>
      /\ setting' = [setting EXCEPT ![t] = "none"]
      /\ \A u \in Threads : u # t => setting'[u] = setting[u]
  BY DEF SetEvent, queue, flags, thread, MessagesOK
<1>2. MessagesOK' /\ HeldOK' /\ CancelledOK' /\ RemovedStaysSilent'
  BY <1>1 DEF MessagesOK, HeldOK, CancelledOK, RemovedStaysSilent
<1>3. NoOversleep'
  BY <1>1 DEF NoOversleep, SetEvent, SetAnyway
<1>4. NoLostResume'
  BY <1>1 DEF NoLostResume, SetEvent
<1> QED
  BY <1>2, <1>3, <1>4

LEMMA RemoveKeeps ==
    ASSUME TimerInv,
           \/ \E h \in 0..MaxPosts : RemoveMessage(h)
           \/ \E e \in Events : RemoveEvent(e)
    PROVE  TimerInv'
<1>1. /\ UNCHANGED <<clock, event_fifo_id, host_event, pause_event, paused, looper, msg, until, setting>>
      /\ msg_queue' \subseteq msg_queue
  BY DEF RemoveMessage, RemoveEvent, flags, thread
<1>2. HeldOK' /\ NoOversleep' /\ NoLostResume'
  BY <1>1 DEF HeldOK, NoOversleep, NoLostResume
<1>3. CASE \E h \in 0..MaxPosts : RemoveMessage(h)
  BY <1>1, <1>2, <1>3 DEF RemoveMessage, MessagesOK, CancelledOK, RemovedStaysSilent
<1>4. ASSUME NEW e \in Events, RemoveEvent(e) PROVE TimerInv'
  <2>1. /\ active_' = [active_ EXCEPT ![e] = FALSE]
        /\ cancelled' = cancelled \cup Outstanding(e)
    BY <1>4 DEF RemoveEvent
  <2>2. Outstanding(e) \subseteq Message /\ \A m \in Outstanding(e) : m.event = e
    BY DEF Outstanding, MessagesOK, HeldOK
  <2>3. MessagesOK'
    BY <1>1, <2>1 DEF MessagesOK
  <2>4. CancelledOK'
    BY <2>1, <2>2 DEF CancelledOK, MessagesOK, Message
  <2>5. looper \in {"tested", "callback"} => msg \notin Outstanding(e)
    BY DEF Outstanding, HeldOK
  <2>6. RemovedStaysSilent'
    BY <1>1, <2>1, <2>5 DEF RemovedStaysSilent
  <2> QED
    BY <1>2, <2>3, <2>4, <2>6
<1> QED
  BY <1>3, <1>4

\* Pause, Resume and the destructor's second store.
LEMMA PauseKeeps ==
    ASSUME TimerInv, (\E t \in Threads : Pause(t) \/ Resume(t)) \/ ShutPause
    PROVE  TimerInv'
<1>1. /\ UNCHANGED <<clock, msg_queue, event_fifo_id, active_, host_event, pause_event, looper,
                     msg, until, cancelled>>
  BY DEF Pause, Resume, SetPaused, ShutPause, queue, thread
<1>2. CASE ShutPause
  BY <1>1, <1>2 DEF ShutPause, MessagesOK, HeldOK, CancelledOK, RemovedStaysSilent, NoOversleep,
                    NoLostResume
<1>3. ASSUME NEW t \in Threads, Pause(t) \/ Resume(t) PROVE TimerInv'
  <2>1. setting[t] = "none" /\ setting' = [setting EXCEPT ![t] = "pause"]
    BY <1>3 DEF Pause, Resume, SetPaused
  <2>2. setting'[t] = "pause" /\ \A u \in Threads : u # t => setting'[u] = setting[u]
    BY <2>1 DEF MessagesOK
  <2>3. MessagesOK' /\ HeldOK' /\ CancelledOK' /\ RemovedStaysSilent'
    BY <1>1, <2>1 DEF MessagesOK, HeldOK, CancelledOK, RemovedStaysSilent
  <2>4. NoOversleep' /\ NoLostResume'
    BY <1>1, <2>1, <2>2 DEF NoOversleep, NoLostResume
  <2> QED
    BY <2>3, <2>4
<1> QED
  BY <1>2, <1>3

\* The clock, the start, the end of an event's owner, and the other steps of the
\* destructor, which at most raise an event.
LEMMA OutsideKeeps ==
    ASSUME TimerInv,
           \/ Tick \/ Start \/ Shut \/ ShutSetPause \/ ShutSetHost \/ Join
           \/ \E e \in Events : Release(e)
    PROVE  TimerInv'
<1>1. /\ UNCHANGED <<msg_queue, event_fifo_id, active_, paused, msg, until, setting, cancelled>>
      /\ clock' \in Nat
      /\ looper' = looper \/ looper' = "outer"
      /\ host_event => host_event'
      /\ pause_event => pause_event'
  BY DEF Tick, Start, Shut, ShutSetPause, ShutSetHost, Wake, Join, Release, queue, flags,
         thread, MessagesOK
<1> QED
  BY <1>1 DEF MessagesOK, HeldOK, CancelledOK, RemovedStaysSilent, NoOversleep, NoLostResume

\* The steps of the thread that leave messages and events of the callers alone.
LEMMA LooperKeeps ==
    ASSUME TimerInv, Outer \/ Inner \/ PauseOver \/ Sleep \/ Woken \/ TimedOut
    PROVE  TimerInv'
<1>1. /\ UNCHANGED <<clock, msg_queue, event_fifo_id, active_, paused, msg, setting, cancelled>>
      /\ looper' \notin {"popped", "tested", "callback"}
  BY DEF Outer, Inner, PauseOver, Sleep, Woken, TimedOut, Awake, Go, queue
<1>2. MessagesOK' /\ HeldOK' /\ CancelledOK' /\ RemovedStaysSilent'
  BY <1>1 DEF MessagesOK, HeldOK, CancelledOK, RemovedStaysSilent
<1>3. NoOversleep'
  BY <1>1 DEF NoOversleep, Outer, Inner, PauseOver, Sleep, Woken, TimedOut, Awake, Go
<1>4. NoLostResume'
  BY <1>1 DEF NoLostResume, Outer, Inner, PauseOver, Sleep, Woken, TimedOut, Awake, Go
<1> QED
  BY <1>2, <1>3, <1>4

LEMMA AdvanceKeeps ==
    ASSUME TimerInv, Pop \/ Invoke \/ EnterCallback \/ Callback \/ Idle
    PROVE  TimerInv'
<1>1. CASE Pop
  <2>1. PICK m \in msg_queue : msg' = m /\ msg_queue' = msg_queue \ {m}
    BY <1>1 DEF Pop
  <2>2. UNCHANGED <<clock, event_fifo_id, active_, setting, cancelled>> /\ looper' = "popped"
    BY <1>1 DEF Pop, Go
  <2> QED
    BY <2>1, <2>2 DEF MessagesOK, HeldOK, CancelledOK, RemovedStaysSilent, NoOversleep, NoLostResume
<1>2. CASE Invoke
  <2>1. UNCHANGED <<clock, msg_queue, event_fifo_id, active_, setting, cancelled>>
    BY <1>2 DEF Invoke, Go, queue
  <2>2. looper = "popped"
    BY <1>2 DEF Invoke
  <2>3. CASE Invokes(msg.event) /\ looper' = "tested" /\ msg' = msg
    <3>1. msg \in Message /\ active_[msg.event] # FALSE
      BY <2>2, <2>3 DEF HeldOK, Invokes
    <3>2. msg \notin cancelled
      BY <3>1 DEF CancelledOK
    <3> QED
      BY <2>1, <2>2, <2>3, <3>2 DEF MessagesOK, HeldOK, CancelledOK, RemovedStaysSilent,
                                    NoOversleep, NoLostResume
  <2>4. CASE looper' = "advance"
    BY <2>1, <2>4 DEF MessagesOK, HeldOK, CancelledOK, RemovedStaysSilent, NoOversleep, NoLostResume
  <2> QED
    BY <1>2, <2>3, <2>4 DEF Invoke, Go
<1>3. CASE Callback
  <2>1. looper' = "advance" /\ UNCHANGED <<clock, setting>>
    BY <1>3 DEF Callback
  <2>2. MessagesOK' /\ CancelledOK'
    <3>1. setting' \in [Threads -> {"none", "host", "pause"}]
      BY <2>1 DEF MessagesOK
    <3> QED
      BY <1>3, <2>1, <3>1, EnqueueKeeps DEF Callback, queue, MessagesOK, CancelledOK
  <2> QED
    BY <2>1, <2>2 DEF HeldOK, RemovedStaysSilent, NoOversleep, NoLostResume
<1>4. CASE Idle
  <2>1. UNCHANGED <<clock, msg_queue, event_fifo_id, active_, setting, cancelled>> /\ looper' = "sleep"
    BY <1>4 DEF Idle, Go, queue
  <2>2. \A m \in msg_queue : until' # Never /\ until' <= m.when
    BY <1>4 DEF Idle, IsFront, Before, SleepsUntil, Never, MessagesOK, Message
  <2> QED
    BY <2>1, <2>2 DEF MessagesOK, HeldOK, CancelledOK, RemovedStaysSilent, NoOversleep, NoLostResume
<1>5. CASE EnterCallback
  <2>1. /\ UNCHANGED <<clock, msg_queue, event_fifo_id, active_, setting, cancelled, msg>>
        /\ looper = "tested" /\ looper' = "callback"
    BY <1>5 DEF EnterCallback, Go, queue
  <2> QED
    BY <2>1 DEF MessagesOK, HeldOK, CancelledOK, RemovedStaysSilent, NoOversleep, NoLostResume
<1> QED
  BY <1>1, <1>2, <1>3, <1>4, <1>5

LEMMA Inductive == TimerInv /\ [Next]_vars => TimerInv'
<1> SUFFICES ASSUME TimerInv, [Next]_vars PROVE TimerInv'
  OBVIOUS
<1>1. CASE UNCHANGED vars
  BY <1>1 DEF vars, queue, flags, thread, MessagesOK, HeldOK, CancelledOK, RemovedStaysSilent,
              NoOversleep, NoLostResume
<1>2. CASE Next
  BY <1>2, PostKeeps, SetEventKeeps, RemoveKeeps, PauseKeeps, OutsideKeeps, LooperKeeps,
     AdvanceKeeps DEF Next, Looper, Destructor
<1> QED
  BY <1>1, <1>2

LEMMA Invariant == Spec => []TimerInv
BY Begins, Inductive, PTL DEF Spec

\* The timer thread sleeps only while it has nothing to do, however many threads post,
\* pause and resume between its tests and its waits.
THEOREM WakesUp == Spec => []NoLostWakeUp
<1>1. TimerInv => NoLostWakeUp
  OBVIOUS
<1> QED
  BY <1>1, Invariant, PTL

\* A message RemoveEvent called off before the thread read active_ never starts its
\* callback, also when the thread had already taken it from the queue.
THEOREM Silent == Spec => []RemovedStaysSilent
<1>1. TimerInv => RemovedStaysSilent
  OBVIOUS
<1> QED
  BY <1>1, Invariant, PTL

=============================================================================
