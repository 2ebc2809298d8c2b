----------------------------- MODULE Login_proofs -----------------------------
(***************************************************************************)
(* The future, alone and as the login uses it, and the login's time-out.   *)
(*                                                                         *)
(* The first part is about Future, for any results, setters, waiters and   *)
(* callbacks.  Its TypeOK bounds the calls of a callback by one, so it     *)
(* needs CallInv, which follows the one thread that is about to call.  The *)
(* second part shows that the login completes its future as Future allows, *)
(* the third that it says "Timeout!" less than a second early, for any      *)
(* expires_in and any clock.                                               *)
(***************************************************************************)
EXTENDS Login, TLAPS

-----------------------------------------------------------------------------
(* The future.                                                             *)

\* Who may be about to call which callback, and how often it was called.
Caller ==
    /\ \A x \in Setters \cup Callbacks : place[x] = "calling" => retrieved
    /\ \A s, t \in Setters : place[s] = "calling" /\ place[t] = "calling" => s = t
    /\ \A s \in Setters : place[s] = "calling" => cb # Nothing /\ calls[cb] = 0

Registered ==
    /\ cb # Nothing => place[cb] = "registered"
    /\ \A c \in Callbacks :
          /\ place[c] = "calling" => calls[c] = 0
          /\ ~retrieved \/ place[c] = "idle" => calls[c] = 0
          /\ place[c] = "done" => calls[c] = 1
          /\ calls[c] = 1 => seen[c] = result

\* A callback that is registered when the promise is complete was called, or its
\* setter is about to call it.
Owed ==
    retrieved /\ cb # Nothing /\ calls[cb] = 0 =>
        \E s \in Setters : place[s] = "calling"

CallInv == Caller /\ Registered /\ Owed

LEMMA SetKeeps ==
    ASSUME FutureTypeOK, CallInv, NEW s \in Setters, NEW r \in Results, Set(s, r)
    PROVE  FutureTypeOK' /\ CallInv'
<1> USE FutureAssumption DEF OneOfAKind, FutureTypeOK, CallInv, Caller, Registered, Owed
<1>1. CASE /\ Completes(r)
           /\ place' = [x \in DOMAIN place |->
                 IF x = s THEN IF cb = Nothing THEN "done" ELSE "calling"
                 ELSE IF x \in NotifyAll THEN "woken" ELSE place[x]]
           /\ timeout' = [g \in Waiters |-> timeout[g] /\ g \notin NotifyAll]
           /\ UNCHANGED cb
  <2>0. UNCHANGED observed
    BY DEF Set
  <2>1. FutureTypeOK'
    BY <1>1, <2>0 DEF Completes, observed
  <2>2. \A x \in Setters \cup Callbacks : x # s => place'[x] = place[x]
    BY <1>1 DEF NotifyAll, Waiting
  <2>3. place'[s] = IF cb = Nothing THEN "done" ELSE "calling"
    BY <1>1
  <2>4. Caller' /\ Owed'
    BY <1>1, <2>0, <2>2, <2>3 DEF Completes, observed
  <2>5. Registered'
    <3>1. \A c \in Callbacks : calls'[c] = 0 /\ place'[c] = place[c]
      BY <1>1, <2>0, <2>2 DEF Completes, observed
    <3>2. \A c \in Callbacks : place[c] # "done"
      BY <1>1 DEF Completes
    <3>3. cb' # Nothing => place'[cb'] = "registered"
      BY <1>1, <3>1
    <3> QED
      BY <3>1, <3>2, <3>3
  <2> QED
    BY <2>1, <2>4, <2>5
<1>2. CASE retrieved /\ place' = [place EXCEPT ![s] = "done"] /\ UNCHANGED <<promise, timeout>>
  <2>0. place[s] = "idle" /\ UNCHANGED observed
    BY DEF Set
  <2> QED
    BY <1>2, <2>0 DEF promise, observed
<1> QED
  BY <1>1, <1>2 DEF Set

LEMMA CallKeeps ==
    ASSUME FutureTypeOK, CallInv,
           NEW x \in Setters \cup Callbacks, NEW c \in Callbacks, Call(x, c),
           (x \in Setters /\ c = cb) \/ x = c
    PROVE  FutureTypeOK' /\ CallInv'
<1> USE FutureAssumption DEF OneOfAKind, FutureTypeOK, CallInv, Caller, Registered, Owed
<1>1. calls[c] = 0 /\ retrieved
  BY DEF Call
<1>2. FutureTypeOK'
  BY <1>1 DEF Call, promise
<1>3. CASE x \in Setters /\ c = cb
  BY <1>1, <1>3 DEF Call, promise
<1>4. CASE x = c
  BY <1>1, <1>4 DEF Call, promise
<1> QED
  BY <1>2, <1>3, <1>4

LEMMA AWaitKeeps ==
    ASSUME FutureTypeOK, CallInv, NEW c \in Callbacks, AWait(c)
    PROVE  FutureTypeOK' /\ CallInv'
<1> USE FutureAssumption DEF OneOfAKind, FutureTypeOK, CallInv, Caller, Registered, Owed
<1>1. CASE ~retrieved
  BY <1>1 DEF AWait, Register, observed
<1>2. CASE retrieved
  BY <1>2 DEF AWait, Register, observed
<1> QED
  BY <1>1, <1>2

LEMMA WaiterKeeps ==
    ASSUME FutureTypeOK, CallInv, NEW g \in Waiters,
           Get(g) \/ SpuriousWake(g) \/ TimesOut(g)
    PROVE  FutureTypeOK' /\ CallInv'
<1> USE FutureAssumption DEF OneOfAKind, FutureTypeOK, CallInv, Caller, Registered, Owed
<1>1. \A x \in Setters \cup Callbacks : place'[x] = place[x]
  BY DEF Get, SpuriousWake, TimesOut
<1>2. UNCHANGED <<promise, calls>> /\ \A c \in Callbacks : seen'[c] = seen[c]
  BY DEF Get, SpuriousWake, TimesOut, promise, observed
<1>3. FutureTypeOK'
  <2>1. CASE Get(g)
    BY <1>2, <2>1 DEF Get, promise
  <2>2. CASE SpuriousWake(g) \/ TimesOut(g)
    <3>1. \E b \in BOOLEAN : timeout' = [timeout EXCEPT ![g] = b]
      BY <2>2 DEF SpuriousWake, TimesOut
    <3>2. timeout' \in [Waiters -> BOOLEAN]
      BY <3>1
    <3> QED
      BY <1>2, <2>2, <3>2 DEF SpuriousWake, TimesOut, promise, observed
  <2> QED
    BY <2>1, <2>2
<1> QED
  BY <1>1, <1>2, <1>3 DEF promise

LEMMA CallsInductive ==
    FutureTypeOK /\ CallInv /\ [FutureNext]_futureVars => FutureTypeOK' /\ CallInv'
<1> SUFFICES ASSUME FutureTypeOK, CallInv, [FutureNext]_futureVars PROVE FutureTypeOK' /\ CallInv'
  OBVIOUS
<1>1. ASSUME NEW s \in Setters, NEW r \in Results, Set(s, r) PROVE FutureTypeOK' /\ CallInv'
  BY <1>1, SetKeeps
<1>2. ASSUME NEW s \in Setters, cb # Nothing, Call(s, cb) PROVE FutureTypeOK' /\ CallInv'
  BY <1>2, CallKeeps DEF FutureTypeOK
<1>3. ASSUME NEW c \in Callbacks, AWait(c) \/ Call(c, c) PROVE FutureTypeOK' /\ CallInv'
  BY <1>3, CallKeeps, AWaitKeeps
<1>4. ASSUME NEW g \in Waiters, Get(g) \/ SpuriousWake(g) \/ TimesOut(g)
      PROVE FutureTypeOK' /\ CallInv'
  BY <1>4, WaiterKeeps
<1>5. CASE UNCHANGED futureVars
  BY <1>5 DEF FutureTypeOK, CallInv, Caller, Registered, Owed, futureVars, promise, observed
<1> QED
  BY <1>1, <1>2, <1>3, <1>4, <1>5 DEF FutureNext, FutureUsers, Waiters

LEMMA CallsBegin == FutureInit => FutureTypeOK /\ CallInv
<1> SUFFICES ASSUME FutureInit PROVE FutureTypeOK /\ CallInv
  OBVIOUS
<1>1. timeout \in [Waiters -> BOOLEAN]
  BY DEF FutureInit
<1>2. FutureTypeOK
  <2>1. place \in [Setters \cup Waiters \cup Callbacks ->
                     {"idle", "waiting", "woken", "registered", "calling", "done"}]
    BY DEF FutureInit
  <2>2. seen \in [Waiters \cup Callbacks -> Results \cup {Nothing}]
    BY DEF FutureInit
  <2>3. calls \in [Callbacks -> 0..1]
    BY DEF FutureInit
  <2>4. retrieved \in BOOLEAN /\ result \in Results \cup {Nothing}
        /\ cb \in Callbacks \cup {Nothing}
    BY DEF FutureInit
  <2> QED
    BY <1>1, <2>1, <2>2, <2>3, <2>4 DEF FutureTypeOK
<1>3. CallInv
  BY FutureAssumption DEF OneOfAKind, FutureInit, CallInv, Caller, Registered, Owed
<1> QED
  BY <1>2, <1>3

\* Every callback is called once at most, and everything else is well typed.
THEOREM FutureTypeCorrect == FutureSpec => []FutureTypeOK
<1>1. FutureSpec => [](FutureTypeOK /\ CallInv)
  BY CallsBegin, CallsInductive, PTL DEF FutureSpec
<1> QED
  BY <1>1, PTL

\* A callback given to AWait is called exactly once, before, after or beside Set,
\* unless another AWait replaced it.
THEOREM CallbackCalled == FutureSpec => []CalledUnlessReplaced
<1>1. FutureSpec => [](FutureTypeOK /\ CallInv)
  BY CallsBegin, CallsInductive, PTL DEF FutureSpec
<1>2. FutureTypeOK /\ CallInv => CalledUnlessReplaced
  BY FutureAssumption
     DEF OneOfAKind, FutureTypeOK, CallInv, Caller, Registered, Owed, CalledUnlessReplaced
<1> QED
  BY <1>1, <1>2, PTL

\* Who returned from Get has the result, which nothing changes any more.
OneResult == \A g \in Waiters : place[g] = "done" => retrieved /\ seen[g] = result

\* Every Get that returned, in whatever order it came, has the one result that the
\* callbacks get too, although Set may be called again.
THEOREM SameResult == FutureSpec => []OneResult
<1> DEFINE Inv == FutureTypeOK /\ CallInv /\ OneResult
<1>1. FutureInit => Inv
  BY CallsBegin DEF FutureInit, OneResult
<1>2. Inv /\ [FutureNext]_futureVars => Inv'
  <2> SUFFICES ASSUME Inv, [FutureNext]_futureVars PROVE OneResult'
    BY CallsInductive
  <2> USE FutureAssumption DEF OneOfAKind, OneResult, FutureTypeOK
  <2>1. ASSUME NEW s \in Setters, NEW r \in Results, Set(s, r) PROVE OneResult'
    BY <2>1 DEF Set, Completes, NotifyAll, Waiting, promise, observed
  <2>2. ASSUME NEW x \in Setters \cup Callbacks, NEW c \in Callbacks, Call(x, c)
        PROVE OneResult'
    BY <2>2 DEF Call, promise, CallInv, Caller
  <2>3. ASSUME NEW c \in Callbacks, AWait(c) PROVE OneResult'
    BY <2>3 DEF AWait, Register, observed
  <2>4. ASSUME NEW g \in Waiters, Get(g) PROVE OneResult'
    BY <2>4 DEF Get, Loops, promise
  <2>5. ASSUME NEW g \in Waiters, SpuriousWake(g) \/ TimesOut(g) PROVE OneResult'
    BY <2>5 DEF SpuriousWake, TimesOut, promise, observed
  <2>6. CASE UNCHANGED futureVars
    BY <2>6 DEF futureVars, promise, observed
  <2> QED
    BY <2>1, <2>2, <2>3, <2>4, <2>5, <2>6 DEF FutureNext, FutureUsers, Waiters
<1> QED
  BY <1>1, <1>2, PTL DEF FutureSpec

\* After Set nobody waits but a timed Get whose last wait timed out: no notification
\* is lost between the test of retrieved and the wait.
THEOREM NoLostNotification == FutureSpec => []WaitsOnlyAfterTimeOut
<1> DEFINE Inv == FutureTypeOK /\ CallInv /\ WaitsOnlyAfterTimeOut
<1>1. FutureInit => Inv
  BY CallsBegin DEF FutureInit, WaitsOnlyAfterTimeOut
<1>2. Inv /\ [FutureNext]_futureVars => Inv'
  <2> SUFFICES ASSUME Inv, [FutureNext]_futureVars PROVE WaitsOnlyAfterTimeOut'
    BY CallsInductive
  <2> USE FutureAssumption DEF OneOfAKind, WaitsOnlyAfterTimeOut, FutureTypeOK
  <2>1. ASSUME NEW s \in Setters, NEW r \in Results, Set(s, r) PROVE WaitsOnlyAfterTimeOut'
    BY <2>1 DEF Set, Completes, NotifyAll, Waiting, promise
  <2>2. ASSUME NEW x \in Setters \cup Callbacks, NEW c \in Callbacks, Call(x, c)
        PROVE WaitsOnlyAfterTimeOut'
    BY <2>2 DEF Call, promise
  <2>3. ASSUME NEW c \in Callbacks, AWait(c) PROVE WaitsOnlyAfterTimeOut'
    BY <2>3 DEF AWait, Register
  <2>4. ASSUME NEW g \in Waiters, Get(g) PROVE WaitsOnlyAfterTimeOut'
    BY <2>4 DEF Get, Loops, promise
  <2>5. ASSUME NEW g \in Waiters, SpuriousWake(g) \/ TimesOut(g)
        PROVE  WaitsOnlyAfterTimeOut'
    BY <2>5 DEF SpuriousWake, TimesOut, promise
  <2>6. CASE UNCHANGED futureVars
    BY <2>6 DEF futureVars, promise
  <2> QED
    BY <2>1, <2>2, <2>3, <2>4, <2>5, <2>6 DEF FutureNext, FutureUsers, Waiters
<1> QED
  BY <1>1, <1>2, PTL DEF FutureSpec

-----------------------------------------------------------------------------
(* The login and its future.                                               *)

\* Whatever the login and the users of its future do, to the future it is a step that
\* Future allows: Finish is a Set with one of its results, and nothing else completes it.
THEOREM LoginUsesFuture == Spec => FutureSpec
<1>1. Init => FutureInit
  BY DEF Init
<1>2. [Next]_vars => [FutureNext]_futureVars
  <2> SUFFICES ASSUME [Next]_vars PROVE FutureNext \/ UNCHANGED futureVars
    OBVIOUS
  <2> USE DEF futureVars, promise, observed
  <2>1. ASSUME NEW r \in {"token", "error", "timeout", "canceled"}, Finish(r) PROVE FutureNext
    BY <2>1, LoginAssumption DEF Finish, FutureNext
  <2>2. CASE Login \/ Coroutine
    BY <2>1, <2>2 DEF Login, Coroutine, QrCode, Test, Answer, Slept
  <2>3. CASE Tick \/ (\E t \in OnlineTimes : SetOnlineTime(t)) \/ OnlineTimeSet \/ Cancel
    BY <2>3 DEF Tick, SetOnlineTime, OnlineTimeSet, Cancel
  <2>4. CASE Users
    BY <2>4 DEF Users, FutureNext
  <2>5. CASE UNCHANGED vars
    BY <2>5 DEF vars
  <2> QED
    BY <2>2, <2>3, <2>4, <2>5 DEF Next
<1> QED
  BY <1>1, <1>2, PTL DEF Spec, FutureSpec

\* So whoever registered for the login's result is called once with it, and nobody goes on
\* waiting for a login that has ended, but a timed Get whose last wait timed out.
THEOREM LoginTellsItsUsers == Spec => [](CalledUnlessReplaced /\ WaitsOnlyAfterTimeOut)
BY LoginUsesFuture, CallbackCalled, NoLostNotification, PTL

-----------------------------------------------------------------------------
(* The time-out.                                                           *)

\* The online clock when the local one shows t, while nobody is setting it.
Online(t) == IF online_time_set THEN t - time_ep_since_online + online_time ELSE t

Polling == login \in {"test", "poll", "sleep"}

\* Without a jump the clock is the one the polling began with.
SameClock ==
    Polling /\ ~jumped =>
        /\ pending = Nothing
        /\ local >= began
        /\ expires \in Expires
        /\ start = Online(began) \div 1000

DueInv ==
    /\ local \in Nat /\ began \in Nat /\ online_time \in Nat /\ time_ep_since_online \in Nat
    /\ pending \in [online : Nat, epoch : Nat] \cup {Nothing}
    /\ expires \in Int
    /\ login # "ended" => result = Nothing
    /\ SameClock
    /\ TimeoutIsDue

USE LoginAssumption

LEMMA NotYet == Nothing # "timeout"
BY FutureAssumption DEF OneOfAKind

\* An elapsed time that is not below expires_in as unsigned numbers is not below it.
LEMMA Unsigned ==
    ASSUME NEW d \in Nat, NEW e \in Expires, ~(d % Wrap < e % Wrap)
    PROVE  d >= e
<1>1. d % Wrap <= d
  OBVIOUS
<1>2. CASE e >= 0
  <2>1. e % Wrap = e
    BY <1>2
  <2> QED
    BY <1>1, <2>1
<1>3. CASE e < 0
  BY <1>3
<1> QED
  BY <1>2, <1>3

\* Cutting two times to seconds keeps their order and makes their difference less
\* than a second longer.
LEMMA Seconds ==
    ASSUME NEW a \in Int, NEW b \in Int, a >= b
    PROVE  /\ a \div 1000 \in Int /\ b \div 1000 \in Int
           /\ a \div 1000 >= b \div 1000
           /\ \A e \in Int : a \div 1000 - b \div 1000 >= e => a - b > (e - 1) * 1000
OBVIOUS

LEMMA Begins == Init => DueInv
BY NotYet DEF Init, FutureInit, DueInv, TimeoutIsDue, SameClock, Polling

\* Completing the future gives it the result, or leaves the one it has.
LEMMA FinishSets ==
    ASSUME NEW r, Finish(r)
    PROVE  login' = "ended" /\ (result' = r \/ result' = result)
BY DEF Finish, Set, Completes, promise

LEMMA ClockKeeps ==
    ASSUME DueInv, Tick \/ (\E t \in OnlineTimes : SetOnlineTime(t)) \/ OnlineTimeSet
    PROVE  DueInv'
<1> USE DEF DueInv, TimeoutIsDue, SameClock, Online, Polling, futureVars, promise, observed, history
<1>1. CASE Tick
  BY <1>1 DEF Tick
<1>2. CASE \E t \in OnlineTimes : SetOnlineTime(t)
  <2>1. PICK t \in OnlineTimes : SetOnlineTime(t)
    BY <1>2
  <2>2. pending' = [online |-> t * 1000, epoch |-> local] /\ jumped'
    BY <2>1 DEF SetOnlineTime
  <2>3. pending' \in [online : Nat, epoch : Nat]
    <3>1. t * 1000 \in Nat
      <4>1. t \in Nat
        BY LoginAssumption
      <4> HIDE DEF DueInv, TimeoutIsDue, SameClock, Online
      <4> QED
        BY ONLY <4>1
    <3>2. local \in Nat
      BY DEF DueInv
    <3> QED
      BY ONLY <2>2, <3>1, <3>2
  <2> QED
    BY <2>1, <2>2, <2>3 DEF SetOnlineTime
<1>3. CASE OnlineTimeSet
  BY <1>3 DEF OnlineTimeSet
<1> QED
  BY <1>1, <1>2, <1>3

LEMMA EndKeeps ==
    ASSUME DueInv, NEW r \in {"token", "error", "canceled"}, Finish(r), login # "ended",
           UNCHANGED <<clock, expires, history>>
    PROVE  DueInv'
<1>1. login' = "ended" /\ result' # "timeout"
  BY FinishSets, NotYet DEF DueInv
<1> QED
  BY <1>1 DEF DueInv, TimeoutIsDue, SameClock, Polling, clock, history

LEMMA StepKeeps ==
    ASSUME DueInv, login # "ended", login' # "ended",
           UNCHANGED <<futureVars, clock, start, expires, history>>,
           Polling \/ ~Polling'
    PROVE  DueInv'
BY DEF DueInv, TimeoutIsDue, SameClock, Online, Polling, futureVars, promise, observed, clock,
       history

LEMMA QrCodeKeeps ==
    ASSUME DueInv, QrCode
    PROVE  DueInv'
<1>1. CASE Finish("error") /\ UNCHANGED <<start, expires, began, jumped>>
  BY <1>1, EndKeeps DEF QrCode, history
<1>2. CASE /\ login' = "test"
           /\ start' \in TimeSecNow
           /\ expires' \in Expires
           /\ began' = local /\ jumped' = (pending # Nothing)
           /\ UNCHANGED futureVars
  <2>1. UNCHANGED clock /\ login = "qrcode"
    BY DEF QrCode
  <2>2. pending = Nothing => start' = Online(local) \div 1000
    BY <1>2 DEF TimeSecNow, OnlineTimestamp, Online
  <2>3. ~jumped' => pending = Nothing
    BY <1>2
  <2>4. SameClock'
    BY <1>2, <2>1, <2>2, <2>3 DEF DueInv, SameClock, Online, Polling, clock
  <2>5. result' # "timeout"
    BY <1>2, <2>1, NotYet DEF DueInv, futureVars, promise, observed
  <2> QED
    BY <1>2, <2>1, <2>4, <2>5 DEF DueInv, TimeoutIsDue, clock, futureVars, promise, observed
<1> QED
  BY <1>1, <1>2 DEF QrCode

LEMMA TestKeeps ==
    ASSUME DueInv, Test
    PROVE  DueInv'
<1>1. login = "test" /\ UNCHANGED <<clock, start, expires, canceled, history>>
  BY DEF Test
<1>2. PICK now \in TimeSecNow :
         \/ InTime(now) /\ login' = "poll" /\ UNCHANGED futureVars
         \/ ~InTime(now) /\ Finish("timeout")
  BY DEF Test
<1>3. CASE login' = "poll" /\ UNCHANGED futureVars
  BY <1>1, <1>3, StepKeeps DEF Polling
<1>4. CASE ~InTime(now) /\ Finish("timeout")
  <2>1. login' = "ended"
    BY <1>4, FinishSets
  <2>2. ~jumped => local - began > (expires - 1) * 1000
    <3> SUFFICES ASSUME ~jumped PROVE local - began > (expires - 1) * 1000
      OBVIOUS
    <3>1. /\ pending = Nothing /\ local >= began /\ expires \in Expires
          /\ start = Online(began) \div 1000
      BY <1>1 DEF DueInv, SameClock, Polling
    <3>2. now = Online(local) \div 1000
      BY <1>2, <3>1 DEF TimeSecNow, OnlineTimestamp, Online
    <3>3. /\ Online(local) \in Int /\ Online(began) \in Int /\ expires \in Int
          /\ Online(local) - Online(began) = local - began
          /\ Online(local) >= Online(began)
      BY <3>1 DEF DueInv, Online
    <3>4. now - start \in Nat
      BY <3>1, <3>2, <3>3, Seconds
    <3>5. now - start >= expires
      BY <1>4, <3>1, <3>4, Unsigned DEF InTime
    <3> QED
      BY <3>1, <3>2, <3>3, <3>5, Seconds
  <2> QED
    BY <1>1, <2>1, <2>2 DEF DueInv, TimeoutIsDue, SameClock, Polling, clock, history
<1> QED
  BY <1>2, <1>3, <1>4

LEMMA CoroutineKeeps ==
    ASSUME DueInv, Login \/ Answer \/ Slept \/ Cancel
    PROVE  DueInv'
<1>1. CASE login' = "ended"
  <2>1. \E r \in {"token", "error", "canceled"} : Finish(r)
    BY <1>1 DEF Login, Answer, Slept, Cancel
  <2>2. login # "ended" /\ UNCHANGED <<clock, expires, history>>
    BY DEF Login, Answer, Slept, Cancel
  <2> QED
    BY <2>1, <2>2, EndKeeps
<1>2. CASE login' # "ended"
  <2>1. /\ login # "ended" /\ (Polling \/ ~Polling')
        /\ UNCHANGED <<futureVars, clock, start, expires, history>>
    BY <1>2, FinishSets DEF Login, Answer, Slept, Cancel, Polling
  <2> QED
    BY <1>2, <2>1, StepKeeps
<1> QED
  BY <1>1, <1>2

LEMMA UsersKeep ==
    ASSUME DueInv, Users
    PROVE  DueInv'
<1>1. result' = result
  BY DEF Users, FutureUsers, Call, AWait, Get, SpuriousWake, TimesOut, promise
<1> QED
  BY <1>1 DEF Users, Rest, DueInv, TimeoutIsDue, SameClock, Online, Polling, clock, history

LEMMA Inductive == DueInv /\ [Next]_vars => DueInv'
<1> SUFFICES ASSUME DueInv, [Next]_vars PROVE DueInv'
  OBVIOUS
<1>1. CASE UNCHANGED vars
  BY <1>1 DEF vars, futureVars, promise, observed, clock, history, DueInv, TimeoutIsDue,
              SameClock, Online, Polling
<1> QED
  BY <1>1, ClockKeeps, QrCodeKeeps, TestKeeps, CoroutineKeeps, UsersKeep DEF Next, Coroutine

\* The login says "Timeout!" less than a second before the server's expires_in is over
\* or later, unless the online clock was set meanwhile, although it compares
\* unsigned numbers of whole seconds.
THEOREM TimeoutDue == Spec => []TimeoutIsDue
<1>1. Spec => []DueInv
  BY Begins, Inductive, PTL DEF Spec
<1>2. DueInv => TimeoutIsDue
  BY DEF DueInv
<1> QED
  BY <1>1, <1>2, PTL
=============================================================================
