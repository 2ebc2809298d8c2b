------------------------ MODULE BlockingQueue_proofs ------------------------
(***************************************************************************)
(* For any number of producers and consumers, capacities, vectors and      *)
(* limits: no wake-up is lost (QueueInv), and no task is lost, repeated or  *)
(* overtaken by a later one of its producer (FifoInv).                     *)
(***************************************************************************)
EXTENDS BlockingQueue, SequenceTheorems, TLAPS

\* What the property needs of the types.
QueueTypeOK ==
    /\ queue_ \in Seq(Task)
    /\ capacity_ \in Nat
    /\ op \in [Threads -> Operation]
    /\ todo \in [Threads -> Seq(Task)]
    /\ sent \in [Threads -> Nat]
    /\ full_ \subseteq Threads /\ empty_ \subseteq Threads

\* Who waits where.
WaitersOK ==
    /\ \A t \in full_ : op[t].name = "put"
    /\ \A t \in empty_ : op[t].name \in {"take", "front", "back"}

\* The queue holds its capacity until Stop or SetCapacity.
Bounded == ~stopped /\ ~resized => Len(queue_) <= capacity_

QueueInv == QueueTypeOK /\ WaitersOK /\ Bounded /\ NoLostWakeUp

USE QueueAssumption

LEMMA Calls == Call("none") \in Operation /\ \A o \in Operation : o.limit \in Nat
<1>1. Call("none") \in Operation
  BY DEF Call, Operation
<1>2. \A o \in [name: {"none", "put", "front", "back"}, limit: {0}] : o.limit \in Nat
  OBVIOUS
<1>3. \A o \in [name: {"take"}, limit: Limits] : o.limit \in Nat
  OBVIOUS
<1> QED
  BY <1>1, <1>2, <1>3 DEF Operation

LEMMA Begins == Init => QueueInv
<1> SUFFICES ASSUME Init PROVE QueueInv
  OBVIOUS
<1>1. QueueTypeOK
  <2>1. op \in [Threads -> Operation]
    BY DEF Init, Call, Operation
  <2>2. todo \in [Threads -> Seq(Task)]
    BY DEF Init
  <2>3. sent \in [Threads -> Nat]
    BY DEF Init
  <2> QED
    BY <2>1, <2>2, <2>3 DEF Init, QueueTypeOK
<1>2. WaitersOK /\ NoLostWakeUp
  BY DEF Init, WaitersOK, NoLostWakeUp
<1>3. Bounded
  <2>1. Len(queue_) = 0 /\ capacity_ \in Nat
    BY DEF Init
  <2> QED
    BY <2>1 DEF Bounded
<1> QED
  BY <1>1, <1>2, <1>3 DEF QueueInv

\* A thread that waits is not one that calls, and not one that goes on.
LEMMA CallKeeps ==
    ASSUME QueueInv, NEW t \in Threads, CallPut(t) \/ CallTake(t) \/ CallPeek(t)
    PROVE  QueueInv'
<1>1. t \notin full_ \cup empty_
  BY DEF QueueInv, WaitersOK, CallPut, CallTake, CallPeek
<1>2. PICK o \in Operation : op' = [op EXCEPT ![t] = o]
  BY DEF CallPut, CallTake, CallPeek, Operation, Call
<1>3. UNCHANGED <<queue_, capacity_, stopped, full_, empty_, resized>>
  BY DEF CallPut, CallTake, CallPeek
<1>4. todo' \in [Threads -> Seq(Task)] /\ sent' \in [Threads -> Nat]
  <2>1. CASE CallPut(t)
    <3>1. PICK n \in Sizes :
             /\ todo' = [todo EXCEPT ![t] = [i \in 1..n |-> [by |-> t, n |-> sent[t] + i]]]
             /\ sent' = [sent EXCEPT ![t] = @ + n]
      BY <2>1 DEF CallPut
    <3>2. n \in Nat /\ sent[t] \in Nat
      BY <3>1 DEF QueueInv, QueueTypeOK
    <3>3. \A i \in 1..n : [by |-> t, n |-> sent[t] + i] \in Task
      BY <3>2 DEF Task
    <3>4. [i \in 1..n |-> [by |-> t, n |-> sent[t] + i]] \in Seq(Task)
      BY <3>2, <3>3
    <3> QED
      BY <3>1, <3>2, <3>4 DEF QueueInv, QueueTypeOK
  <2>2. CASE CallTake(t) \/ CallPeek(t)
    BY <2>2 DEF CallTake, CallPeek, QueueInv, QueueTypeOK
  <2> QED
    BY <2>1, <2>2
<1>5. \A u \in full_ \cup empty_ : op'[u] = op[u]
  BY <1>1, <1>2 DEF QueueInv, QueueTypeOK
<1>6. QueueTypeOK'
  BY <1>2, <1>3, <1>4 DEF QueueInv, QueueTypeOK
<1>7. WaitersOK' /\ NoLostWakeUp' /\ Bounded'
  BY <1>3, <1>5 DEF QueueInv, WaitersOK, NoLostWakeUp, Bounded
<1> QED
  BY <1>6, <1>7 DEF QueueInv

\* Put pushes as much as there is room for: with less room than tasks, all of it.
LEMMA RoomFits ==
    ASSUME QueueInv, NEW n \in Nat
    PROVE  /\ Room(n) \in 0..n
           /\ Room(n) < n => ~stopped /\ Len(queue_) + Room(n) = capacity_
           /\ ~stopped /\ Len(queue_) <= capacity_ => Len(queue_) + Room(n) <= capacity_
<1>1. Len(queue_) \in Nat /\ capacity_ \in Nat
  BY DEF QueueInv, QueueTypeOK
<1> QED
  BY <1>1 DEF Room

LEMMA PutKeeps ==
    ASSUME QueueInv, NEW t \in Threads, Put(t)
    PROVE  QueueInv'
<1> DEFINE n == Room(Len(todo[t]))
<1>1. /\ t \notin full_ \cup empty_ /\ op[t].name = "put"
      /\ queue_' = queue_ \o SubSeq(todo[t], 1, n)
      /\ todo' = [todo EXCEPT ![t] = SubSeq(@, n + 1, Len(@))]
      /\ empty_' = IF n > 0 THEN {} ELSE empty_
      /\ \/ n = Len(todo[t]) /\ Return(t) /\ UNCHANGED full_
         \/ n < Len(todo[t]) /\ full_' = full_ \cup {t} /\ UNCHANGED op
      /\ UNCHANGED <<capacity_, stopped, sent, resized>>
  BY DEF Put, Runs
<1>2. todo[t] \in Seq(Task) /\ Len(todo[t]) \in Nat /\ queue_ \in Seq(Task) /\ Len(queue_) \in Nat
      /\ capacity_ \in Nat
  BY DEF QueueInv, QueueTypeOK
<1>3. /\ n \in 0..Len(todo[t])
      /\ n < Len(todo[t]) => ~stopped /\ Len(queue_) + n = capacity_
      /\ ~stopped /\ Len(queue_) <= capacity_ => Len(queue_) + n <= capacity_
  BY <1>2, RoomFits
<1> HIDE DEF n
<1>4. /\ SubSeq(todo[t], 1, n) \in Seq(Task) /\ Len(SubSeq(todo[t], 1, n)) = n
      /\ SubSeq(todo[t], n + 1, Len(todo[t])) \in Seq(Task)
  BY <1>2, <1>3
<1>5. queue_' \in Seq(Task) /\ Len(queue_') = Len(queue_) + n
  BY <1>1, <1>2, <1>4
<1>6. n = 0 => queue_' = queue_
  BY <1>1, <1>2, <1>4, <1>5
<1>7. \A u \in Threads : u # t => op'[u] = op[u]
  BY <1>1 DEF Return, QueueInv, QueueTypeOK
<1>8. QueueTypeOK'
  <2>1. op' \in [Threads -> Operation]
    BY <1>1, Calls DEF Return, QueueInv, QueueTypeOK
  <2>2. todo' \in [Threads -> Seq(Task)]
    BY <1>1, <1>4 DEF QueueInv, QueueTypeOK
  <2> QED
    BY <1>1, <1>2, <1>5, <2>1, <2>2 DEF QueueInv, QueueTypeOK
<1>9. WaitersOK'
  BY <1>1, <1>7 DEF QueueInv, QueueTypeOK, WaitersOK
<1>10. Bounded'
  BY <1>1, <1>3, <1>5 DEF QueueInv, Bounded
<1>11. NoLostWakeUp'
  <2>1. ASSUME NEW u \in empty_' PROVE queue_' = <<>> /\ (stopped' => op'[u].name = "front")
    <3>1. n = 0 /\ u \in empty_ /\ u # t
      BY <1>1, <1>3, <2>1
    <3> QED
      BY <1>1, <1>6, <1>7, <3>1 DEF QueueInv, QueueTypeOK, NoLostWakeUp
  <2>2. ASSUME NEW u \in full_' PROVE ~stopped' /\ (resized' \/ Len(queue_') = capacity_')
    <3>1. CASE u \in full_
      <4>1. ~stopped /\ (resized \/ Len(queue_) = capacity_)
        BY <3>1 DEF QueueInv, NoLostWakeUp
      <4> QED
        BY <1>1, <1>2, <1>3, <1>5, <4>1
    <3>2. CASE u \notin full_
      BY <1>1, <1>3, <1>5, <2>2, <3>2
    <3> QED
      BY <3>1, <3>2
  <2> QED
    BY <2>1, <2>2 DEF NoLostWakeUp
<1> QED
  BY <1>8, <1>9, <1>10, <1>11 DEF QueueInv

LEMMA WaitEmptyKeeps ==
    ASSUME QueueInv, NEW t \in Threads, WaitEmpty(t)
    PROVE  QueueInv'
<1>1. /\ UNCHANGED <<queue_, capacity_, stopped, full_, op, todo, sent, resized>>
      /\ empty_' = empty_ \cup {t} /\ queue_ = <<>>
      /\ op[t].name \in {"take", "front", "back"}
      /\ stopped => op[t].name = "front"
  BY DEF WaitEmpty, Runs, WakesOnStop
<1> QED
  BY <1>1 DEF QueueInv, QueueTypeOK, WaitersOK, Bounded, NoLostWakeUp

\* A taker that does not wait leaves the waiters alone, or wakes the producers.
LEMMA TakerKeeps ==
    ASSUME QueueInv, NEW t \in Threads, TakeNothing(t) \/ Take(t) \/ Peek(t)
    PROVE  QueueInv'
<1>1. t \notin full_ \cup empty_ /\ op' = [op EXCEPT ![t] = Call("none")]
  BY DEF TakeNothing, Take, Peek, Runs, Return
<1>2. op' \in [Threads -> Operation] /\ \A u \in full_ \cup empty_ : op'[u] = op[u]
  BY <1>1 DEF Call, Operation, QueueInv, QueueTypeOK
<1>3. CASE TakeNothing(t) \/ Peek(t)
  <2>1. UNCHANGED <<queue_, capacity_, stopped, full_, empty_, todo, sent, resized>>
    BY <1>3 DEF TakeNothing, Peek
  <2> QED
    BY <1>2, <2>1 DEF QueueInv, QueueTypeOK, WaitersOK, Bounded, NoLostWakeUp
<1>4. CASE Take(t)
  <2> DEFINE k == TakeSize(op[t].limit)
  <2>1. /\ queue_ # <<>> /\ queue_' = SubSeq(queue_, k + 1, Len(queue_)) /\ full_' = {}
        /\ UNCHANGED <<capacity_, stopped, empty_, todo, sent, resized>>
    BY <1>4 DEF Take, Pop, NotifyFull
  <2>2. k \in 0..Len(queue_)
    <3>1. op[t].limit \in Nat /\ Len(queue_) \in Nat
      BY Calls DEF QueueInv, QueueTypeOK
    <3> QED
      BY <3>1 DEF TakeSize
  <2> HIDE DEF k
  <2>3. /\ queue_' \in Seq(Task) /\ Len(queue_') <= Len(queue_)
        /\ Len(queue_') \in Nat /\ Len(queue_) \in Nat
    BY <2>1, <2>2 DEF QueueInv, QueueTypeOK
  <2>4. empty_ = {}
    BY <2>1 DEF QueueInv, NoLostWakeUp
  <2>5. QueueTypeOK' /\ WaitersOK' /\ NoLostWakeUp'
    BY <1>2, <2>1, <2>3, <2>4 DEF QueueInv, QueueTypeOK, WaitersOK, NoLostWakeUp
  <2>6. Bounded'
    BY <2>1, <2>3 DEF QueueInv, QueueTypeOK, Bounded
  <2> QED
    BY <2>5, <2>6 DEF QueueInv
<1> QED
  BY <1>3, <1>4

LEMMA OtherKeeps ==
    ASSUME QueueInv,
           \/ \E c \in Capacities : SetCapacity(c)
           \/ Stop
           \/ \E t \in Threads : WakeForNoReason(t)
    PROVE  QueueInv'
<1>1. /\ full_' \subseteq full_ /\ empty_' \subseteq empty_ /\ capacity_' \in Nat
      /\ UNCHANGED <<queue_, op, todo, sent>>
      /\ stopped' = stopped \/ (stopped' /\ full_' = {} /\ empty_' = {})
      /\ (resized' = resized /\ capacity_' = capacity_) \/ resized'
  BY DEF SetCapacity, NewCapacity, Stop, StopAll, WakeForNoReason, QueueInv, QueueTypeOK
<1> QED
  BY <1>1 DEF QueueInv, QueueTypeOK, WaitersOK, Bounded, NoLostWakeUp

LEMMA Inductive == QueueInv /\ [Next]_vars => QueueInv'
<1> SUFFICES ASSUME QueueInv, [Next]_vars PROVE QueueInv'
  OBVIOUS
<1>1. CASE UNCHANGED vars
  BY <1>1 DEF vars, QueueInv, QueueTypeOK, WaitersOK, Bounded, NoLostWakeUp
<1>2. CASE Next
  BY <1>2, CallKeeps, PutKeeps, WaitEmptyKeeps, TakerKeeps, OtherKeeps
     DEF Next, Step, Threads
<1> QED
  BY <1>1, <1>2

\* Nobody sleeps while what it waits for is there, however producers, takers, Stop,
\* SetCapacity and spurious wake-ups interleave.
THEOREM WakesUp == Spec => []NoLostWakeUp
<1>1. Spec => []QueueInv
  BY Begins, Inductive, PTL DEF Spec
<1>2. QueueInv => NoLostWakeUp
  BY DEF QueueInv
<1> QED
  BY <1>1, <1>2, PTL

-----------------------------------------------------------------------------
(* The order.  What was put and is not in todo any more is in the line of  *)
(* the tasks taken and queued, in order, and todo is the rest.             *)

Line == taken \o queue_

Ordered(line, t) ==
    \A i, j \in DOMAIN line : i < j /\ line[i].by = t /\ line[j].by = t => line[i].n < line[j].n

\* The numbers of the tasks of t in line are those up to n.
Numbered(line, t, n) ==
    /\ \A i \in DOMAIN line : line[i].by = t => line[i].n \in 1..n
    /\ \A k \in 1..n : \E i \in DOMAIN line : line[i].by = t /\ line[i].n = k

\* todo holds the tasks of t from number n + 1 on.
Rest(q, t, n) == \A i \in DOMAIN q : q[i] = [by |-> t, n |-> n + i]

FifoOf(t) ==
    /\ Len(todo[t]) <= sent[t]
    /\ Ordered(Line, t)
    /\ Numbered(Line, t, sent[t] - Len(todo[t]))
    /\ Rest(todo[t], t, sent[t] - Len(todo[t]))
    /\ op[t].name # "put" => todo[t] = <<>>

FifoInv == taken \in Seq(Task) /\ \A t \in Threads : FifoOf(t)

\* What is at a place of two sequences in a row.
LEMMA ConcatOps ==
    ASSUME NEW q \in Seq(Task), NEW p \in Seq(Task)
    PROVE  /\ q \o p \in Seq(Task)
           /\ Len(q \o p) = Len(q) + Len(p) /\ DOMAIN (q \o p) = 1..(Len(q) + Len(p))
           /\ Len(q) \in Nat /\ Len(p) \in Nat /\ DOMAIN q = 1..Len(q) /\ DOMAIN p = 1..Len(p)
           /\ \A i \in DOMAIN q : (q \o p)[i] = q[i]
           /\ \A i \in DOMAIN p : (q \o p)[Len(q) + i] = p[i]
           /\ \A i \in DOMAIN (q \o p) : i \notin DOMAIN q =>
                  i - Len(q) \in DOMAIN p /\ (q \o p)[i] = p[i - Len(q)]
OBVIOUS

LEMMA InARow ==
    ASSUME NEW q \in Seq(Task), NEW p \in Seq(Task), NEW r \in Seq(Task)
    PROVE  (q \o p) \o r = q \o (p \o r)
BY ConcatAssociative

LEMMA FifoBegins == Init => FifoInv
<1> SUFFICES ASSUME Init PROVE FifoInv
  OBVIOUS
<1>1. taken = <<>> /\ queue_ = <<>> /\ DOMAIN Line = {} /\ taken \in Seq(Task)
  BY DEF Init, Line
<1>2. ASSUME NEW t \in Threads PROVE FifoOf(t)
  <2>1. todo[t] = <<>> /\ Len(todo[t]) = 0 /\ DOMAIN todo[t] = {} /\ sent[t] = 0
    BY DEF Init
  <2> QED
    BY <1>1, <2>1 DEF FifoOf, Ordered, Numbered, Rest
<1> QED
  BY <1>1, <1>2 DEF FifoInv

\* The next tasks of t, put at the end of a line that has those before, keep it in order;
\* tasks of another thread keep it so too.
LEMMA Appended ==
    ASSUME NEW line \in Seq(Task), NEW q \in Seq(Task), NEW t \in Threads, NEW u \in Threads,
           NEW n \in Nat, NEW k \in Nat, Ordered(line, t), Numbered(line, t, n), Rest(q, u, k),
           u = t => k = n
    PROVE  /\ Ordered(line \o q, t)
           /\ Numbered(line \o q, t, IF u = t THEN n + Len(q) ELSE n)
<1> DEFINE all == line \o q
<1>1. \A i \in DOMAIN all : i \in DOMAIN line => all[i] = line[i]
  BY ConcatOps
<1>2. \A i \in DOMAIN all : i \notin DOMAIN line =>
          /\ i > Len(line) /\ i - Len(line) \in 1..Len(q)
          /\ all[i].by = u /\ all[i].n = k + (i - Len(line))
  BY ConcatOps DEF Rest
<1>3. /\ DOMAIN all = 1..(Len(line) + Len(q)) /\ Len(line) \in Nat /\ Len(q) \in Nat
      /\ DOMAIN line = 1..Len(line) /\ DOMAIN q = 1..Len(q)
  BY ConcatOps
<1> HIDE DEF all
<1>4. Ordered(all, t)
  <2> SUFFICES ASSUME NEW i \in DOMAIN all, NEW j \in DOMAIN all, i < j,
                      all[i].by = t, all[j].by = t
               PROVE  all[i].n < all[j].n
    BY DEF Ordered
  <2>1. CASE j \in DOMAIN line
    BY <1>1, <1>3, <2>1 DEF Ordered
  <2>2. CASE i \in DOMAIN line /\ j \notin DOMAIN line
    <3>1. all[i].n \in 1..n
      BY <1>1, <2>2 DEF Numbered
    <3> QED
      BY <1>2, <2>2, <3>1
  <2>3. CASE i \notin DOMAIN line /\ j \notin DOMAIN line
    BY <1>2, <1>3, <2>3
  <2> QED
    BY <1>3, <2>1, <2>2, <2>3
<1>5. Numbered(all, t, IF u = t THEN n + Len(q) ELSE n)
  <2>1. ASSUME NEW i \in DOMAIN all, all[i].by = t
        PROVE  all[i].n \in 1..(IF u = t THEN n + Len(q) ELSE n)
    <3>1. CASE i \in DOMAIN line
      <4>1. all[i].n \in 1..n
        BY <1>1, <2>1, <3>1 DEF Numbered
      <4> QED
        BY <1>3, <4>1
    <3>2. CASE i \notin DOMAIN line
      BY <1>2, <1>3, <2>1, <3>2
    <3> QED
      BY <3>1, <3>2
  <2>2. ASSUME NEW x \in 1..(IF u = t THEN n + Len(q) ELSE n)
        PROVE  \E i \in DOMAIN all : all[i].by = t /\ all[i].n = x
    <3>1. CASE x <= n
      <4>1. PICK i \in DOMAIN line : line[i].by = t /\ line[i].n = x
        BY <1>3, <3>1 DEF Numbered
      <4>2. i \in DOMAIN all
        BY <1>3
      <4> QED
        BY <1>1, <4>1, <4>2
    <3>2. CASE x > n
      <4>1. u = t /\ x - n \in 1..Len(q)
        BY <1>3, <3>2
      <4>2. Len(line) + (x - n) \in DOMAIN all /\ Len(line) + (x - n) \notin DOMAIN line
        BY <1>3, <4>1
      <4> QED
        <5>1. all[Len(line) + (x - n)].by = t /\ all[Len(line) + (x - n)].n = k + (x - n)
          BY <1>2, <1>3, <4>1, <4>2
        <5> QED
          BY <4>1, <4>2, <5>1
    <3> QED
      BY <3>1, <3>2
  <2> QED
    BY <2>1, <2>2 DEF Numbered
<1> QED
  BY <1>4, <1>5 DEF all

\* A thread whose tasks stay where they are.
LEMMA FifoSame ==
    ASSUME NEW u \in Threads, FifoOf(u), Line' = Line, todo'[u] = todo[u], sent'[u] = sent[u],
           op[u].name = "put" => op'[u].name = "put"
    PROVE  FifoOf(u)'
<1>1. Ordered(Line, u)'
  BY DEF FifoOf, Ordered
<1>2. Numbered(Line, u, sent[u] - Len(todo[u]))'
  BY DEF FifoOf, Numbered
<1>3. Rest(todo[u], u, sent[u] - Len(todo[u]))'
  BY DEF FifoOf, Rest
<1> QED
  BY <1>1, <1>2, <1>3 DEF FifoOf

\* Put moves the first tasks of todo to the end of the line.
LEMMA PutFifo ==
    ASSUME QueueInv, FifoInv, NEW t \in Threads, Put(t)
    PROVE  FifoInv'
<1> DEFINE n == Room(Len(todo[t]))
           pre == SubSeq(todo[t], 1, n)
           post == SubSeq(todo[t], n + 1, Len(todo[t]))
           k == sent[t] - Len(todo[t])
<1>1. /\ queue_' = queue_ \o pre
      /\ todo' = [todo EXCEPT ![t] = post]
      /\ \/ n = Len(todo[t]) /\ Return(t)
         \/ n < Len(todo[t]) /\ UNCHANGED op
      /\ taken' = taken /\ sent' = sent /\ op[t].name = "put"
  BY DEF Put, Runs
<1>2. /\ todo \in [Threads -> Seq(Task)] /\ Len(todo[t]) \in Nat
      /\ queue_ \in Seq(Task) /\ taken \in Seq(Task) /\ sent \in [Threads -> Nat]
      /\ op \in [Threads -> Operation]
  BY DEF QueueInv, QueueTypeOK, FifoInv
<1>3. n \in 0..Len(todo[t])
  BY <1>2, RoomFits
<1>4. k \in Nat /\ Rest(todo[t], t, k) /\ sent[t] \in Nat
  <2>1. Len(todo[t]) <= sent[t] /\ Rest(todo[t], t, k)
    BY DEF FifoInv, FifoOf
  <2> QED
    BY <1>2, <2>1
<1> HIDE DEF n, k
<1>5. /\ pre \in Seq(Task) /\ Len(pre) = n /\ post \in Seq(Task) /\ Len(post) = Len(todo[t]) - n
      /\ \A i \in DOMAIN pre : i \in DOMAIN todo[t] /\ pre[i] = todo[t][i]
      /\ \A i \in DOMAIN post : i + n \in DOMAIN todo[t] /\ post[i] = todo[t][i + n] /\ i \in Nat
  BY <1>2, <1>3
<1>6. Rest(pre, t, k) /\ Rest(post, t, k + n)
  <2>1. ASSUME NEW i \in DOMAIN post PROVE post[i] = [by |-> t, n |-> (k + n) + i]
    <3>1. post[i] = [by |-> t, n |-> k + (i + n)] /\ i \in Nat
      BY <1>4, <1>5 DEF Rest
    <3>2. k + (i + n) = (k + n) + i
      BY <1>3, <1>4, <3>1
    <3> QED
      BY <3>1, <3>2
  <2> QED
    BY <1>4, <1>5, <2>1 DEF Rest
<1> HIDE DEF pre, post
<1>7. Line \in Seq(Task) /\ Line' = Line \o pre
  <2>1. (taken \o queue_) \o pre = taken \o (queue_ \o pre)
    BY <1>2, <1>5, InARow
  <2> QED
    BY <1>1, <1>2, <2>1 DEF Line
<1>8. ASSUME NEW u \in Threads, u # t PROVE FifoOf(u)'
  <2>1. todo'[u] = todo[u] /\ sent'[u] = sent[u] /\ op'[u] = op[u]
    BY <1>1, <1>2, <1>8 DEF Return
  <2>2. sent[u] - Len(todo[u]) \in Nat /\ Len(todo[u]) <= sent[u]
    BY <1>2 DEF FifoInv, FifoOf
  <2>3. Ordered(Line, u) /\ Numbered(Line, u, sent[u] - Len(todo[u]))
    BY DEF FifoInv, FifoOf
  <2>4. Ordered(Line', u) /\ Numbered(Line', u, sent[u] - Len(todo[u]))
    BY <1>4, <1>5, <1>6, <1>7, <1>8, <2>2, <2>3, Appended
  <2> QED
    BY <2>1, <2>2, <2>4 DEF FifoInv, FifoOf, Ordered, Numbered, Rest
<1>9. FifoOf(t)'
  <2>1. todo'[t] = post /\ sent'[t] = sent[t] /\ sent[t] - Len(post) = k + n /\ Len(post) <= sent[t]
    BY <1>1, <1>2, <1>3, <1>4, <1>5 DEF k
  <2>2. Ordered(Line, t) /\ Numbered(Line, t, k)
    BY DEF FifoInv, FifoOf, k
  <2>3. Ordered(Line', t) /\ Numbered(Line', t, k + n)
    BY <1>4, <1>5, <1>6, <1>7, <2>2, Appended
  <2>4. op'[t].name # "put" => post = <<>>
    <3> SUFFICES ASSUME op'[t].name # "put" PROVE post = <<>>
      OBVIOUS
    <3>1. n = Len(todo[t])
      BY <1>1
    <3>2. Len(post) = 0
      BY <1>2, <1>5, <3>1
    <3> QED
      BY <1>5, <3>2
  <2> QED
    BY <1>6, <2>1, <2>3, <2>4 DEF FifoOf, Ordered, Numbered, Rest
<1>10. taken' \in Seq(Task)
  BY <1>1, <1>2
<1> QED
  BY <1>8, <1>9, <1>10 DEF FifoInv

\* Put(vector) is called with the tasks that follow those given before.
LEMMA CallPutFifo ==
    ASSUME QueueInv, FifoInv, NEW t \in Threads, CallPut(t)
    PROVE  FifoInv'
<1>1. PICK n \in Sizes :
         /\ todo' = [todo EXCEPT ![t] = [i \in 1..n |-> [by |-> t, n |-> sent[t] + i]]]
         /\ sent' = [sent EXCEPT ![t] = @ + n]
  BY DEF CallPut
<1>2. /\ queue_' = queue_ /\ taken' = taken /\ op[t].name = "none"
      /\ op' = [op EXCEPT ![t] = Call("put")]
  BY DEF CallPut
<1>3. /\ todo \in [Threads -> Seq(Task)] /\ sent \in [Threads -> Nat] /\ n \in Nat
      /\ op \in [Threads -> Operation]
  BY DEF QueueInv, QueueTypeOK
<1>4. Line' = Line
  BY <1>2 DEF Line
<1>5. ASSUME NEW u \in Threads, u # t PROVE FifoOf(u)'
  <2>1. todo'[u] = todo[u] /\ sent'[u] = sent[u] /\ op'[u] = op[u]
    BY <1>1, <1>2, <1>3, <1>5
  <2> QED
    BY <1>4, <2>1, FifoSame DEF FifoInv
<1>6. FifoOf(t)'
  <2>1. todo[t] = <<>> /\ Ordered(Line, t) /\ Numbered(Line, t, sent[t] - Len(todo[t]))
    BY <1>2 DEF FifoInv, FifoOf
  <2>2. sent[t] - Len(todo[t]) = sent[t] /\ sent[t] \in Nat
    BY <1>3, <2>1
  <2> DEFINE q == [i \in 1..n |-> [by |-> t, n |-> sent[t] + i]]
  <2>3. todo'[t] = q /\ sent'[t] = sent[t] + n /\ op'[t].name = "put"
    BY <1>1, <1>2, <1>3 DEF Call
  <2>4. q \in Seq(Task) /\ Len(q) = n /\ Rest(q, t, sent[t])
    <3>1. \A i \in 1..n : [by |-> t, n |-> sent[t] + i] \in Task
      BY <2>2, <1>3 DEF Task
    <3> QED
      BY <1>3, <3>1 DEF Rest
  <2> HIDE DEF q
  <2>5. Len(q) <= sent[t] + n /\ (sent[t] + n) - Len(q) = sent[t]
    BY <1>3, <2>2, <2>4
  <2> QED
    BY <1>4, <2>1, <2>2, <2>3, <2>4, <2>5 DEF FifoOf, Ordered, Numbered, Rest
<1> QED
  BY <1>2, <1>5, <1>6 DEF FifoInv

\* Take moves tasks from the front of the queue to the end of those taken.
LEMMA TakeFifo ==
    ASSUME QueueInv, FifoInv, NEW t \in Threads, Take(t)
    PROVE  FifoInv'
<1> DEFINE k == TakeSize(op[t].limit)
<1>1. /\ taken' = taken \o SubSeq(queue_, 1, k)
      /\ queue_' = SubSeq(queue_, k + 1, Len(queue_))
      /\ UNCHANGED <<todo, sent>> /\ op' = [op EXCEPT ![t] = Call("none")]
      /\ op[t].name = "take"
  BY DEF Take, Pop, Return, Runs
<1>2. /\ queue_ \in Seq(Task) /\ taken \in Seq(Task) /\ op \in [Threads -> Operation]
      /\ op[t].limit \in Nat /\ Len(queue_) \in Nat
  BY Calls DEF QueueInv, QueueTypeOK, FifoInv
<1>3. k \in 0..Len(queue_)
  BY <1>2 DEF TakeSize
<1> HIDE DEF k
<1>4. /\ SubSeq(queue_, 1, k) \in Seq(Task) /\ SubSeq(queue_, k + 1, Len(queue_)) \in Seq(Task)
      /\ SubSeq(queue_, 1, k) \o SubSeq(queue_, k + 1, Len(queue_)) = queue_
  <2>1. SubSeq(queue_, 1, k) \in Seq(Task) /\ SubSeq(queue_, k + 1, Len(queue_)) \in Seq(Task)
    BY <1>2, <1>3
  <2>2. 1 \in 1..Len(queue_) + 1 /\ k \in 1 - 1..Len(queue_) /\ Len(queue_) \in k..Len(queue_)
    BY <1>2, <1>3
  <2> QED
    BY <1>2, <2>1, <2>2, ConcatAdjacentSubSeq, SubSeqFull
<1>5. Line' = Line /\ taken' \in Seq(Task)
  <2> DEFINE first == SubSeq(queue_, 1, k)
             rest == SubSeq(queue_, k + 1, Len(queue_))
  <2>1. first \in Seq(Task) /\ rest \in Seq(Task) /\ first \o rest = queue_
        /\ taken' = taken \o first /\ queue_' = rest
    BY <1>1, <1>4
  <2> HIDE DEF first, rest
  <2>2. (taken \o first) \o rest = taken \o (first \o rest)
    BY <1>2, <2>1, InARow
  <2> QED
    BY <1>2, <2>1, <2>2 DEF Line
<1>6. ASSUME NEW u \in Threads PROVE FifoOf(u)'
  <2>1. op'[u].name # "put" => op[u].name # "put"
    BY <1>1, <1>2
  <2> QED
    BY <1>1, <1>5, <2>1, FifoSame DEF FifoInv
<1> QED
  BY <1>5, <1>6 DEF FifoInv

\* Nothing else moves a task.
LEMMA QuietFifo ==
    ASSUME FifoInv, UNCHANGED <<queue_, taken, todo, sent>>,
           \A t \in Threads : op[t].name = "put" => op'[t].name = "put"
    PROVE  FifoInv'
<1>1. Line' = Line
  BY DEF Line
<1>2. ASSUME NEW t \in Threads PROVE FifoOf(t)'
  BY <1>1, FifoSame DEF FifoInv
<1> QED
  BY <1>2 DEF FifoInv

LEMMA FifoNext == QueueInv /\ FifoInv /\ [Next]_vars => FifoInv'
<1> SUFFICES ASSUME QueueInv, FifoInv, [Next]_vars PROVE FifoInv'
  OBVIOUS
<1>1. op \in [Threads -> Operation]
  BY DEF QueueInv, QueueTypeOK
<1>2. ASSUME NEW t \in Consumers, CallTake(t) \/ CallPeek(t) PROVE FifoInv'
  BY <1>1, <1>2, QuietFifo DEF CallTake, CallPeek, Threads
<1>3. ASSUME NEW t \in Threads, WaitEmpty(t) \/ TakeNothing(t) \/ Peek(t) \/ WakeForNoReason(t)
      PROVE  FifoInv'
  BY <1>1, <1>3, QuietFifo DEF WaitEmpty, TakeNothing, Peek, WakeForNoReason, Return, Runs
<1>4. CASE (\E c \in Capacities : SetCapacity(c)) \/ Stop
  BY <1>4, QuietFifo DEF SetCapacity, Stop
<1>5. CASE UNCHANGED vars
  BY <1>5, QuietFifo DEF vars
<1> QED
  BY <1>2, <1>3, <1>4, <1>5, CallPutFifo, PutFifo, TakeFifo DEF Next, Step, Threads

\* The queue never exceeds its capacity until Stop or SetCapacity, and at any time the
\* tasks of a producer, taken, queued and still to push, are all it gave, in its order.
THEOREM KeepsOrder == Spec => []BoundedFifo
<1>1. QueueInv /\ FifoInv => BoundedFifo
  <2> SUFFICES ASSUME QueueInv, FifoInv, NEW t \in Producers
               PROVE  LET line == taken \o queue_ \o todo[t]
                          mine == {i \in DOMAIN line : line[i].by = t}
                      IN  /\ \A i, j \in mine : i < j => line[i].n < line[j].n
                          /\ {line[i].n : i \in mine} = 1..sent[t]
    BY DEF BoundedFifo, QueueInv, Bounded
  <2> DEFINE line == Line \o todo[t]
  <2>1. /\ Line \in Seq(Task) /\ todo[t] \in Seq(Task) /\ Len(todo[t]) \in Nat /\ sent[t] \in Nat
        /\ t \in Threads /\ FifoOf(t)
    BY DEF QueueInv, QueueTypeOK, FifoInv, Line, Threads
  <2>2. sent[t] - Len(todo[t]) \in Nat /\ (sent[t] - Len(todo[t])) + Len(todo[t]) = sent[t]
    BY <2>1 DEF FifoOf
  <2>3. Ordered(line, t) /\ Numbered(line, t, sent[t])
    BY <2>1, <2>2, Appended DEF FifoOf
  <2> HIDE DEF line
  <2>4. LET mine == {i \in DOMAIN line : line[i].by = t}
        IN  /\ \A i, j \in mine : i < j => line[i].n < line[j].n
            /\ {line[i].n : i \in mine} = 1..sent[t]
    BY <2>3 DEF Ordered, Numbered
  <2> QED
    BY <2>4 DEF line, Line
<1> QED
  BY <1>1, Begins, Inductive, FifoBegins, FifoNext, PTL DEF Spec
=============================================================================
