------------------------------- MODULE Future -------------------------------
(***************************************************************************)
(* sdk/result.h: Promise and Future.  Setters complete the promise,        *)
(* Getters wait in Get(), TimedGetters in Get(timeout_ms), Callbacks are   *)
(* given to AWait.  Each step is one section under the promise's lock, or  *)
(* a call made after the lock is dropped.                                  *)
(*                                                                         *)
(* timeout[g] is the local of the timed Get: its last wait ended by the    *)
(* time-out.  A wait may also end for no reason, as condition variables    *)
(* allow.  seen[x] is the result x was given and calls[c] counts the       *)
(* calls of a callback: what the users of the future observe.              *)
(***************************************************************************)
EXTENDS Integers

CONSTANTS Setters, Getters, TimedGetters, Callbacks, Results,
          Nothing       \* the initial result, and no callback

Waiters == Getters \cup TimedGetters

\* Whoever calls on the future is one of a kind.
OneOfAKind ==
    /\ Setters \cap Waiters = {} /\ Setters \cap Callbacks = {}
    /\ Waiters \cap Callbacks = {}
    /\ Nothing \notin Callbacks /\ Nothing \notin Results

ASSUME FutureAssumption == OneOfAKind

VARIABLES retrieved, result, cb, place, timeout, seen, calls

promise == <<retrieved, result, cb>>
observed == <<seen, calls>>
futureVars == <<promise, place, timeout, observed>>

FutureTypeOK ==
    /\ retrieved \in BOOLEAN
    /\ result \in Results \cup {Nothing}
    /\ cb \in Callbacks \cup {Nothing}
    /\ place \in [Setters \cup Waiters \cup Callbacks ->
                     {"idle", "waiting", "woken", "registered", "calling", "done"}]
    /\ timeout \in [Waiters -> BOOLEAN]
    /\ seen \in [Waiters \cup Callbacks -> Results \cup {Nothing}]
    /\ calls \in [Callbacks -> 0..1]

FutureInit ==
    /\ retrieved = FALSE /\ result = Nothing /\ cb = Nothing
    /\ place = [x \in Setters \cup Waiters \cup Callbacks |-> "idle"]
    /\ timeout = [g \in Waiters |-> FALSE]
    /\ seen = [x \in Waiters \cup Callbacks |-> Nothing]
    /\ calls = [c \in Callbacks |-> 0]

-----------------------------------------------------------------------------

Waiting == {g \in Waiters : place[g] = "waiting"}

\* cond_var.notify_all()
NotifyOne == {CHOOSE g \in Waiting \cup {Nothing} : Waiting # {} => g \in Waiting}  \* mutant
NotifyAll == Waiting

Completes(r) == ~retrieved /\ retrieved' = TRUE /\ result' = r

\* Set, with the lock; the call of the callback follows without it.
Set(s, r) ==
    /\ place[s] = "idle"
    /\ \/ /\ Completes(r)
          /\ place' = [x \in DOMAIN place |->
                 IF x = s THEN IF cb = Nothing THEN "done" ELSE "calling"
                 ELSE IF x \in NotifyAll THEN "woken" ELSE place[x]]
          /\ timeout' = [g \in Waiters |-> timeout[g] /\ g \notin NotifyAll]
          /\ UNCHANGED cb
       \/ /\ retrieved
          /\ place' = [place EXCEPT ![s] = "done"]
          /\ UNCHANGED <<promise, timeout>>
    /\ UNCHANGED observed

\* cb->Callback(result), in the thread x that completed the promise, or that
\* found it complete in AWait.
Call(x, c) ==
    /\ place[x] = "calling"
    /\ place' = [place EXCEPT ![x] = "done"]
    /\ seen' = [seen EXCEPT ![c] = result]
    /\ calls' = [calls EXCEPT ![c] = @ + 1]
    /\ UNCHANGED <<promise, timeout>>

RegisterAnyway(c) == cb' = c /\ place' = [place EXCEPT ![c] = "registered"]   \* mutant
Register(c) ==
    \/ ~retrieved /\ cb' = c /\ place' = [place EXCEPT ![c] = "registered"]
    \/ retrieved /\ place' = [place EXCEPT ![c] = "calling"] /\ UNCHANGED cb

AWait(c) ==
    /\ place[c] = "idle"
    /\ Register(c)
    /\ UNCHANGED <<retrieved, result, timeout, observed>>

\* The condition of the loops of Get() and Get(timeout_ms); Get() has no timeout.
Loops(g) == ~retrieved \/ timeout[g]

Get(g) ==
    /\ place[g] \in {"idle", "woken"}
    /\ \/ /\ Loops(g)
          /\ place' = [place EXCEPT ![g] = "waiting"]
          /\ UNCHANGED seen
       \/ /\ ~Loops(g)
          /\ place' = [place EXCEPT ![g] = "done"]
          /\ seen' = [seen EXCEPT ![g] = result]
    /\ UNCHANGED <<promise, timeout, calls>>

\* A wait ends without a notification.
SpuriousWake(g) ==
    /\ place[g] = "waiting"
    /\ place' = [place EXCEPT ![g] = "woken"]
    /\ timeout' = [timeout EXCEPT ![g] = FALSE]
    /\ UNCHANGED <<promise, observed>>

\* The time is over: in the wait, or before the thread has the lock again.
TimesOut(g) ==
    /\ place[g] \in {"waiting", "woken"}
    /\ place' = [place EXCEPT ![g] = "woken"]
    /\ timeout' = [timeout EXCEPT ![g] = TRUE]
    /\ UNCHANGED <<promise, observed>>

-----------------------------------------------------------------------------

FutureUsers ==
    \/ \E s \in Setters : cb # Nothing /\ Call(s, cb)
    \/ \E c \in Callbacks : AWait(c) \/ Call(c, c)
    \/ \E g \in Waiters : Get(g) \/ SpuriousWake(g)
    \/ \E g \in TimedGetters : TimesOut(g)

FutureNext == FutureUsers \/ \E s \in Setters, r \in Results : Set(s, r)

FutureSpec == FutureInit /\ [][FutureNext]_futureVars

-----------------------------------------------------------------------------
(* Properties.                                                             *)

\* A callback is called once, with the result the promise was completed with, whether
\* AWait comes before, after or beside Set, unless another AWait took its place: the
\* promise keeps one callback only.
CalledUnlessReplaced ==
    retrieved /\ (\A x \in Setters \cup Callbacks : place[x] # "calling") =>
        \A c \in Callbacks : place[c] # "idle" =>
            \/ calls[c] = 1 /\ seen[c] = result
            \/ calls[c] = 0 /\ cb # c

\* Once the promise is complete nobody waits but a Get(timeout_ms) whose last wait
\* timed out, at Set or after: that one waits again although the result is there,
\* and no notification is left to end it.
WaitsOnlyAfterTimeOut ==
    retrieved => \A g \in Waiters : place[g] = "waiting" => timeout[g]

=============================================================================
