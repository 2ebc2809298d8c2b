---------------------------- MODULE BlockingQueue ----------------------------
(***************************************************************************)
(* base/blocking_queue.h: a bounded queue with two condition variables.    *)
(*                                                                         *)
(* A thread is inside at most one operation, op[t].  What an operation     *)
(* does between taking mtx and releasing it, by returning or by waiting,   *)
(* is one step; full_ and empty_ are the threads that wait.  A thread      *)
(* leaves a wait set when it is notified or, as std::condition_variable    *)
(* permits, for no reason, and its next step is another round of the loop. *)
(*                                                                         *)
(* SetCapacity does not take mtx; a store between two reads of one section *)
(* leaves the queue as a store after that section does.                    *)
(*                                                                         *)
(* The queue is modelled as built with NDEBUG: an assert that fails goes   *)
(* on.  sent, taken and resized are history.                               *)
(***************************************************************************)
EXTENDS Integers, Sequences

CONSTANTS
    Producers, Consumers,
    MAX_CAPACITY,
    Capacities,     \* arguments of the constructor and of SetCapacity
    Sizes,          \* lengths of the vectors given to Put(vector)
    Limits,         \* arguments of Take(limit)
    MaxTasks        \* bound: tasks a thread puts

ASSUME QueueAssumption ==
    /\ Producers \cap Consumers = {}
    /\ MAX_CAPACITY \in Nat \ {0}
    /\ Capacities \subseteq Nat
    /\ Sizes \subseteq Nat \ {0}
    /\ Limits \subseteq Nat \ {0}
    /\ MaxTasks \in Nat

VARIABLES
    queue_, capacity_, stopped,
    full_, empty_,      \* the threads that wait on each condition variable
    op,                 \* the operation each thread is in
    todo,               \* the tasks it still has to push
    sent,               \* how many tasks each thread gave to Put so far
    taken,              \* the tasks handed out, in order
    resized             \* SetCapacity was called

vars == <<queue_, capacity_, stopped, full_, empty_, op, todo, sent, taken, resized>>

Threads == Producers \cup Consumers
Task == [by: Threads, n: Nat]
Operation == [name: {"none", "put", "front", "back"}, limit: {0}]
             \cup [name: {"take"}, limit: Limits]

Call(name) == [name |-> name, limit |-> 0]

TypeOK ==
    /\ queue_ \in Seq(Task)
    /\ capacity_ \in Nat
    /\ stopped \in BOOLEAN
    /\ full_ \subseteq Threads /\ empty_ \subseteq Threads
    /\ op \in [Threads -> Operation]
    /\ todo \in [Threads -> Seq(Task)]
    /\ sent \in [Threads -> Nat]
    /\ taken \in Seq(Task)
    /\ resized \in BOOLEAN

Init ==
    /\ queue_ = <<>>
    /\ capacity_ \in Capacities
    /\ stopped = FALSE
    /\ full_ = {} /\ empty_ = {}
    /\ op = [t \in Threads |-> Call("none")]
    /\ todo = [t \in Threads |-> <<>>]
    /\ sent = [t \in Threads |-> 0]
    /\ taken = <<>>
    /\ resized = FALSE

-----------------------------------------------------------------------------

\* t is about to take mtx: it just called, or it was woken.
Runs(t, name) == op[t].name = name /\ t \notin full_ \cup empty_

Return(t) == op' = [op EXCEPT ![t] = Call("none")]

\* full_.notify_all() at the end of Take.
NotifyOne == IF full_ = {} THEN UNCHANGED full_                   \* mutant
             ELSE \E t \in full_ : full_' = full_ \ {t}
NotifyFull == full_' = {}

\* A producer calls Put; a single task is a vector of one.
CallPut(t) ==
    /\ op[t].name = "none"
    /\ \E n \in Sizes :
          /\ sent[t] + n <= MaxTasks
          /\ todo' = [todo EXCEPT ![t] = [i \in 1..n |-> [by |-> t, n |-> sent[t] + i]]]
          /\ sent' = [sent EXCEPT ![t] = @ + n]
    /\ op' = [op EXCEPT ![t] = Call("put")]
    /\ UNCHANGED <<queue_, capacity_, stopped, full_, empty_, taken, resized>>

\* How many of n tasks one section pushes: while (queue_.size() == capacity_ &&
\* !stopped) stops it only at exactly the capacity.
Room(n) ==
    IF stopped \/ Len(queue_) > capacity_ \/ n <= capacity_ - Len(queue_)
    THEN n ELSE capacity_ - Len(queue_)

\* Both forms of Put, up to a wait or the end.  Testing first whether the whole
\* vector fits saves notifications only.
Put(t) ==
    /\ Runs(t, "put")
    /\ LET n == Room(Len(todo[t])) IN
          /\ queue_' = queue_ \o SubSeq(todo[t], 1, n)
          /\ todo' = [todo EXCEPT ![t] = SubSeq(@, n + 1, Len(@))]
          /\ empty_' = IF n > 0 THEN {} ELSE empty_
          /\ \/ n = Len(todo[t]) /\ Return(t) /\ UNCHANGED full_
             \/ n < Len(todo[t]) /\ full_' = full_ \cup {t} /\ UNCHANGED op
    /\ UNCHANGED <<capacity_, stopped, sent, taken, resized>>

\* A consumer calls Take(limit), where Take() is Take(1), Front or Back.
CallTake(t) ==
    /\ op[t].name = "none"
    /\ \E n \in Limits : op' = [op EXCEPT ![t] = [name |-> "take", limit |-> n]]
    /\ UNCHANGED <<queue_, capacity_, stopped, full_, empty_, todo, sent, taken, resized>>

CallPeek(t) ==
    /\ op[t].name = "none"
    /\ \E name \in {"front", "back"} : op' = [op EXCEPT ![t] = Call(name)]
    /\ UNCHANGED <<queue_, capacity_, stopped, full_, empty_, todo, sent, taken, resized>>

\* Front does not look at stopped.
WakesOnStop(t) == stopped /\ op[t].name # "front"

\* while (queue_.empty() && !stopped) empty_.wait(lock), in Take, Front and Back.
WaitEmpty(t) ==
    /\ \E name \in {"take", "front", "back"} : Runs(t, name)
    /\ queue_ = <<>>
    /\ ~WakesOnStop(t)
    /\ empty_' = empty_ \cup {t}
    /\ UNCHANGED <<queue_, capacity_, stopped, full_, op, todo, sent, taken, resized>>

\* if (stopped) return {}
TakeNothing(t) ==
    /\ \E name \in {"take", "back"} : Runs(t, name)
    /\ stopped
    /\ Return(t)
    /\ UNCHANGED <<queue_, capacity_, stopped, full_, empty_, todo, sent, taken, resized>>

TakeSize(limit) == IF limit < Len(queue_) THEN limit ELSE Len(queue_)

FromTheBack(n) ==                                                 \* mutant
    /\ taken' = taken \o SubSeq(queue_, Len(queue_) - n + 1, Len(queue_))
    /\ queue_' = SubSeq(queue_, 1, Len(queue_) - n)
Pop(n) ==
    /\ taken' = taken \o SubSeq(queue_, 1, n)
    /\ queue_' = SubSeq(queue_, n + 1, Len(queue_))

Take(t) ==
    /\ Runs(t, "take")
    /\ queue_ # <<>> /\ ~stopped
    /\ Pop(TakeSize(op[t].limit))
    /\ NotifyFull
    /\ Return(t)
    /\ UNCHANGED <<capacity_, stopped, empty_, todo, sent, resized>>

\* Front and Back copy an element and leave the queue alone.
Peek(t) ==
    /\ \E name \in {"front", "back"} : Runs(t, name)
    /\ queue_ # <<>> /\ ~WakesOnStop(t)
    /\ Return(t)
    /\ UNCHANGED <<queue_, capacity_, stopped, full_, empty_, todo, sent, taken, resized>>

NewCapacity(capacity) == IF capacity > 0 THEN capacity ELSE MAX_CAPACITY
SetCapacity(capacity) ==
    /\ capacity_' = NewCapacity(capacity)
    /\ resized' = TRUE
    /\ UNCHANGED <<queue_, stopped, full_, empty_, op, todo, sent, taken>>

\* Stop wakes everybody.
StopTakers == stopped' = TRUE /\ empty_' = {} /\ UNCHANGED full_  \* mutant
StopAll == stopped' = TRUE /\ empty_' = {} /\ full_' = {}
Stop ==
    /\ StopAll
    /\ UNCHANGED <<queue_, capacity_, op, todo, sent, taken, resized>>

WakeForNoReason(t) ==
    /\ t \in full_ \cup empty_
    /\ full_' = full_ \ {t}
    /\ empty_' = empty_ \ {t}
    /\ UNCHANGED <<queue_, capacity_, stopped, op, todo, sent, taken, resized>>

Step(t) == Put(t) \/ WaitEmpty(t) \/ TakeNothing(t) \/ Take(t) \/ Peek(t)

Next ==
    \/ \E t \in Producers : CallPut(t)
    \/ \E t \in Consumers : CallTake(t) \/ CallPeek(t)
    \/ \E t \in Threads : Step(t) \/ WakeForNoReason(t)
    \/ \E c \in Capacities : SetCapacity(c)
    \/ Stop

Spec == Init /\ [][Next]_vars

\* Threads run, and a consumer calls Take again and again, as the reporter does.
Fairness ==
    /\ \A t \in Threads : WF_vars(Step(t))
    /\ \A t \in Consumers : SF_vars(CallTake(t))

FairSpec == Spec /\ Fairness

-----------------------------------------------------------------------------
(* Properties.                                                             *)

\* No wake-up is lost: nobody sleeps for an element while there is one, nobody
\* sleeps for room while there is some or after Stop, and of the takers only
\* Front, which does not test stopped, sleeps on after Stop.  SetCapacity
\* notifies nobody, so a producer may sleep on although it made room.
NoLostWakeUp ==
    /\ \A t \in empty_ : queue_ = <<>> /\ (stopped => op[t].name = "front")
    /\ \A t \in full_ : ~stopped /\ (resized \/ Len(queue_) = capacity_)

\* Until Stop or SetCapacity the assert of Put holds: the queue never exceeds its
\* capacity.  (After either it may fail: Put on a full queue then no longer waits.)
\* At any time the tasks of one producer are taken in the order it gave them, none
\* twice and none missing, however its Put(vector) was cut by waits.
BoundedFifo ==
    /\ ~stopped /\ ~resized => Len(queue_) <= capacity_
    /\ \A t \in Producers :
          LET line == taken \o queue_ \o todo[t]
              mine == {i \in DOMAIN line : line[i].by = t}
          IN  /\ \A i, j \in mine : i < j => line[i].n < line[j].n
              /\ {line[i].n : i \in mine} = 1..sent[t]

\* In a queue that was made with room every Put returns as long as somebody takes,
\* also when the queue is stopped.  (In one made with the capacity 0 the first Put
\* waits, on an empty queue, and SetCapacity does not wake it.)
PutReturns ==
    capacity_ > 0 => \A t \in Producers : op[t].name = "put" ~> op[t].name = "none"

=============================================================================
