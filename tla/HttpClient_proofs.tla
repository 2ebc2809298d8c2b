-------------------------- MODULE HttpClient_proofs --------------------------
(***************************************************************************)
(* For any number of requests and connections and any size of the pool: no *)
(* connection has two users (PoolInv), everything is well typed and the    *)
(* pool holds no more than its size (TypeOK), and a caller is told what    *)
(* the server answered to its own request (ToldInv).                       *)
(***************************************************************************)
EXTENDS HttpClient, SequenceTheorems, TLAPS

\* What OneUserPerClient needs of the types.
PoolTypeOK ==
    /\ client_pool \in Seq(Clients)
    /\ place \in [Requests -> {"idle", "acquired", "sent", "answered", "unwrapped",
                               "recycled", "done"}]
    /\ client \in [Requests -> Clients \cup {Nothing}]
    /\ \A r \in Requests : Using(r) => client[r] \in Clients

PoolInv == PoolTypeOK /\ OneUserPerClient

LEMMA Begins == Init => PoolInv
<1> SUFFICES ASSUME Init PROVE PoolInv
  OBVIOUS
<1>1. client_pool = <<>> /\ \A r \in Requests : place[r] = "idle"
  BY DEF Init
<1>2. PoolTypeOK
  BY <1>1 DEF Init, PoolTypeOK, Using
<1>3. OneUserPerClient
  BY <1>1 DEF OneUserPerClient, Using, InPool
<1> QED
  BY <1>2, <1>3 DEF PoolInv

\* A connection is taken: from the pool, where nobody uses it, or one nobody has.
LEMMA AcquireKeeps ==
    ASSUME PoolInv, NEW r \in Requests, Acquire(r)
    PROVE  PoolInv'
<1> USE DEF PoolInv, PoolTypeOK
<1>1. /\ place[r] = "idle" /\ place' = [place EXCEPT ![r] = "acquired"]
  BY DEF Acquire, Go
<1>2. \A q \in Requests : q # r => (Using(q)' <=> Using(q))
  BY <1>1 DEF Using
<1>3. CASE client_pool = <<>>
  <2>1. PICK c \in Unused : client' = [client EXCEPT ![r] = c] /\ client_pool' = client_pool
    BY <1>3 DEF Acquire
  <2>2. c \in Clients /\ c \notin InPool /\ \A q \in Requests : client[q] # c
    BY <2>1 DEF Unused
  <2>3. InPool' = InPool
    BY <2>1 DEF InPool
  <2>4. PoolTypeOK'
    BY <1>1, <1>2, <2>1, <2>2 DEF Using
  <2>5. OneUserPerClient'
    BY <1>1, <1>2, <2>1, <2>2, <2>3 DEF OneUserPerClient
  <2> QED
    BY <2>4, <2>5
<1>4. CASE client_pool # <<>>
  <2>1. /\ client' = [client EXCEPT ![r] = client_pool[1]] /\ client_pool' = Tail(client_pool)
    BY <1>4 DEF Acquire, PopPool
  <2>2. /\ client_pool' \in Seq(Clients) /\ client_pool[1] \in Clients
        /\ 1 \in DOMAIN client_pool
        /\ \A i \in DOMAIN client_pool' :
              i + 1 \in DOMAIN client_pool /\ i \in Nat /\ i # 0
              /\ client_pool'[i] = client_pool[i + 1]
    BY <1>4, <2>1
  <2>3. PoolTypeOK'
    BY <1>1, <1>2, <2>1, <2>2 DEF Using
  <2>4. InPool' \subseteq InPool /\ client_pool[1] \notin InPool' /\ client_pool[1] \in InPool
    BY <2>2 DEF InPool, OneUserPerClient
  <2>5. \A i, j \in DOMAIN client_pool' : client_pool'[i] = client_pool'[j] => i = j
    BY <2>2 DEF OneUserPerClient
  <2>6. OneUserPerClient'
    BY <1>1, <1>2, <2>1, <2>4, <2>5 DEF OneUserPerClient
  <2> QED
    BY <2>3, <2>6
<1> QED
  BY <1>3, <1>4

\* A connection is given back by its user, who does not use it any more.
LEMMA RecycleKeeps ==
    ASSUME PoolInv, NEW r \in Requests, Using(r), RecycleClient(r),
           NEW p \in {"recycled", "done"}, Go(r, p),
           client' = client \/ client' = [client EXCEPT ![r] = Nothing]
    PROVE  PoolInv'
<1> USE DEF PoolInv, PoolTypeOK
<1>1. ~Using(r)' /\ \A q \in Requests : q # r => (Using(q)' <=> Using(q)) /\ client'[q] = client[q]
  BY DEF Using, Go
<1>2. CASE client_pool' = client_pool
  <2>1. InPool' = InPool
    BY <1>2 DEF InPool
  <2>2. PoolTypeOK'
    BY <1>1, <1>2 DEF Go
  <2>3. OneUserPerClient'
    BY <1>1, <1>2, <2>1 DEF OneUserPerClient
  <2> QED
    BY <2>2, <2>3
<1>3. CASE client_pool' = Append(client_pool, client[r])
  <2>1. client[r] \in Clients /\ client[r] \notin InPool
    BY DEF OneUserPerClient
  <2>2. /\ client_pool' \in Seq(Clients) /\ Len(client_pool) \in Nat
        /\ \A i \in DOMAIN client_pool' :
              \/ i \in DOMAIN client_pool /\ client_pool'[i] = client_pool[i]
              \/ i = Len(client_pool) + 1 /\ client_pool'[i] = client[r]
    BY <1>3, <2>1
  <2>3. InPool' \subseteq InPool \cup {client[r]}
    BY <2>2 DEF InPool
  <2>4. \A i \in DOMAIN client_pool : client_pool[i] # client[r]
    BY <2>1 DEF InPool
  <2>5. \A i, j \in DOMAIN client_pool' : client_pool'[i] = client_pool'[j] => i = j
    BY <2>2, <2>4 DEF OneUserPerClient
  <2>6. PoolTypeOK'
    BY <1>1, <2>2 DEF Go
  <2>7. OneUserPerClient'
    BY <1>1, <2>3, <2>5 DEF OneUserPerClient
  <2> QED
    BY <2>6, <2>7
<1> QED
  BY <1>2, <1>3 DEF RecycleClient

\* Steps that leave the pool alone and make no new user.
LEMMA OtherKeeps ==
    ASSUME PoolInv, NEW r \in Requests, UNCHANGED client_pool,
           \/ Using(r) /\ client' = client /\ \E p \in {"sent", "answered", "unwrapped"} : Go(r, p)
           \/ Ends(r)
    PROVE  PoolInv'
<1> USE DEF PoolInv, PoolTypeOK
<1>1. InPool' = InPool
  BY DEF InPool
<1>2. \A q \in Requests : Using(q)' => Using(q) /\ client'[q] = client[q]
  BY DEF Using, Go, Ends
<1>3. PoolTypeOK'
  BY <1>2 DEF Go, Ends
<1>4. OneUserPerClient'
  BY <1>1, <1>2 DEF OneUserPerClient
<1> QED
  BY <1>3, <1>4

LEMMA Inductive == PoolInv /\ [Next]_vars => PoolInv'
<1> SUFFICES ASSUME PoolInv, [Next]_vars PROVE PoolInv'
  OBVIOUS
<1>1. ASSUME NEW r \in Requests, Acquire(r) PROVE PoolInv'
  BY <1>1, AcquireKeeps
<1>2. ASSUME NEW r \in Requests, Send(r) \/ Answered(r) PROVE PoolInv'
  BY <1>2, OtherKeeps DEF Send, Answered, Using
<1>3. ASSUME NEW r \in Requests, CoroutineRecycle(r) PROVE PoolInv'
  BY <1>3, RecycleKeeps DEF CoroutineRecycle, Using
<1>4. ASSUME NEW r \in Requests, CoroutineUnwrap(r) PROVE PoolInv'
  BY <1>4, OtherKeeps DEF CoroutineUnwrap, Unwrap
<1>5. ASSUME NEW r \in Requests, Callback(r) PROVE PoolInv'
  <2>1. CASE place[r] = "answered" /\ Unwrap(r) /\ Go(r, "unwrapped") /\ UNCHANGED client
    BY <2>1, OtherKeeps DEF Unwrap, Using
  <2>2. CASE place[r] = "unwrapped" /\ RecycleClient(r) /\ Ends(r) /\ UNCHANGED outcome
    BY <2>2, RecycleKeeps DEF Ends, Using
  <2> QED
    BY <1>5, <2>1, <2>2 DEF Callback, UnwrapsFirst
<1>6. CASE UNCHANGED vars
  BY <1>6 DEF vars, PoolInv, PoolTypeOK, OneUserPerClient, Using, InPool
<1> QED
  BY <1>1, <1>2, <1>3, <1>4, <1>5, <1>6 DEF Next

\* A connection that a request uses is neither used by another request nor in the
\* pool, although AcquireClient and RecycleClient run in different threads.
THEOREM OneUser == Spec => []OneUserPerClient
<1>1. Spec => []PoolInv
  BY Begins, Inductive, PTL DEF Spec
<1> QED
  BY <1>1, PTL DEF PoolInv

-----------------------------------------------------------------------------
(* What the caller is told.  A request with callbacks reads the body before *)
(* it gives its client back, and until then nobody else has that client: so *)
(* the chunked body it reads is its own.                                    *)

Answers == [status200 : BOOLEAN, chunked : BOOLEAN, response : Response]

Reading(r) == place[r] = "answered" /\ r \in WithCallback

\* Which place leaves which part of the request set.
Told(r) ==
    /\ place[r] \in {"idle", "acquired", "sent", "answered", "recycled"} => outcome[r] = "none"
    /\ place[r] \in {"answered", "recycled"} => answer[r] \in Answers
    /\ outcome[r] # "none" => answer[r] \in Answers
    /\ Reading(r) => Readable(r)

\* An answer is made of a status, a way of sending and a body.
LEMMA AnsweredWith ==
    ASSUME NEW r \in Requests, Answered(r)
    PROVE  \E a \in Answers :
              /\ answer' = [answer EXCEPT ![r] = a]
              /\ chunk' = [chunk EXCEPT ![client[r]] = IF a.chunked THEN r ELSE @]
<1>1. PICK status200 \in BOOLEAN, chunked \in BOOLEAN, response \in Responses :
         /\ answer' = [answer EXCEPT ![r] =
               [status200 |-> status200, chunked |-> chunked, response |-> response]]
         /\ chunk' = [chunk EXCEPT ![client[r]] = IF chunked THEN r ELSE @]
  BY DEF Answered
<1> DEFINE a == [status200 |-> status200, chunked |-> chunked, response |-> response]
<1>2. a \in Answers /\ a.chunked = chunked
  BY ResponsesAssumption DEF Answers
<1> QED
  BY <1>1, <1>2

\* Nothing is in the pool and no request has begun.
LEMMA TypeInit == Init => TypeOK
<1> SUFFICES ASSUME Init PROVE TypeOK
  OBVIOUS
<1>1. client_pool \in Seq(Clients) /\ Len(client_pool) <= max_pool_size
  BY HttpAssumption DEF Init
<1> QED
  BY <1>1 DEF Init, TypeOK

\* The pool never outgrows max_pool_size, and every field keeps its type.
LEMMA TypeNext == TypeOK /\ PoolInv /\ [Next]_vars => TypeOK'
<1> SUFFICES ASSUME TypeOK, PoolInv, [Next]_vars PROVE TypeOK'
  OBVIOUS
<1>0. ASSUME NEW r \in Requests, Using(r) PROVE client[r] \in Clients
  BY <1>0 DEF PoolInv, PoolTypeOK
<1>1. ASSUME NEW r \in Requests, Acquire(r) PROVE TypeOK'
  <2>1. /\ place' = [place EXCEPT ![r] = "acquired"] /\ UNCHANGED <<chunk, answer, outcome>>
    BY <1>1 DEF Acquire, Go
  <2>2. /\ client_pool' \in Seq(Clients) /\ Len(client_pool') <= max_pool_size
        /\ client' \in [Requests -> Clients \cup {Nothing}]
    <3>1. CASE client_pool = <<>>
      BY <1>1, <3>1 DEF Acquire, Unused, TypeOK
    <3>2. CASE client_pool # <<>>
      <4>1. client_pool \in Seq(Clients) /\ Len(client_pool) \in Nat /\ max_pool_size \in Nat
        BY HttpAssumption DEF TypeOK
      <4>2. /\ Tail(client_pool) \in Seq(Clients) /\ Head(client_pool) \in Clients
            /\ Len(Tail(client_pool)) = Len(client_pool) - 1
        BY <3>2, <4>1
      <4>3. client' = [client EXCEPT ![r] = Head(client_pool)] /\ client_pool' = Tail(client_pool)
        BY <1>1, <3>2 DEF Acquire, PopPool
      <4>4. Len(client_pool') <= max_pool_size
        BY <4>1, <4>2, <4>3 DEF TypeOK
      <4> QED
        BY <4>2, <4>3, <4>4 DEF TypeOK
    <3> QED
      BY <3>1, <3>2
  <2> QED
    BY <2>1, <2>2 DEF TypeOK
<1>2. ASSUME NEW r \in Requests, Send(r) PROVE TypeOK'
  BY <1>2 DEF Send, Go, TypeOK
<1>3. ASSUME NEW r \in Requests, Answered(r) PROVE TypeOK'
  <2>1. PICK a \in Answers :
           /\ answer' = [answer EXCEPT ![r] = a]
           /\ chunk' = [chunk EXCEPT ![client[r]] = IF a.chunked THEN r ELSE @]
    BY <1>3, AnsweredWith
  <2>2. chunk' \in [Clients -> Requests \cup {Nothing}]
    BY <2>1 DEF TypeOK
  <2>3. answer' \in [Requests -> {Nothing} \cup Answers]
    BY <2>1 DEF TypeOK, Answers
  <2> QED
    BY <1>3, <2>2, <2>3 DEF Answered, Go, TypeOK, Answers
<1>4. ASSUME NEW r \in Requests, Using(r), RecycleClient(r)
      PROVE  client_pool' \in Seq(Clients) /\ Len(client_pool') <= max_pool_size
  BY <1>0, <1>4, HttpAssumption DEF RecycleClient, HasRoom, TypeOK
<1>5. ASSUME NEW r \in Requests, CoroutineRecycle(r) PROVE TypeOK'
  <2>1. Using(r) /\ RecycleClient(r)
    BY <1>5 DEF CoroutineRecycle, Using
  <2> QED
    BY <1>4, <1>5, <2>1 DEF CoroutineRecycle, RecycleClient, Go, TypeOK
<1>6. ASSUME NEW r \in Requests, CoroutineUnwrap(r) PROVE TypeOK'
  BY <1>6 DEF CoroutineUnwrap, Unwrap, Outcome, Ends, Go, TypeOK
<1>7. ASSUME NEW r \in Requests, Callback(r) PROVE TypeOK'
  <2>1. CASE place[r] = "answered" /\ Unwrap(r) /\ Go(r, "unwrapped") /\ UNCHANGED client
    BY <2>1 DEF Unwrap, Outcome, Go, TypeOK
  <2>2. CASE place[r] = "unwrapped" /\ RecycleClient(r) /\ Ends(r) /\ UNCHANGED outcome
    <3>1. Using(r)
      BY <2>2 DEF Using
    <3> QED
      BY <1>4, <2>2, <3>1 DEF RecycleClient, Ends, Go, TypeOK
  <2> QED
    BY <1>7, <2>1, <2>2 DEF Callback, UnwrapsFirst
<1>8. CASE UNCHANGED vars
  BY <1>8 DEF vars, TypeOK
<1> QED
  BY <1>1, <1>2, <1>3, <1>5, <1>6, <1>7, <1>8 DEF Next

\* TypeOK holds in every state: in particular the pool stays within max_pool_size.
THEOREM HttpTypeCorrect == Spec => []TypeOK
  BY TypeInit, TypeNext, Begins, Inductive, PTL DEF Spec

ToldInv ==
    /\ \A r \in Requests : Told(r)
    /\ OutcomeIsTheServers

\* No request has been told anything.
LEMMA ToldInit == Init => ToldInv
  BY DEF Init, ToldInv, Told, Reading, OutcomeIsTheServers

\* What unwrap_result makes of an answer, and where it must find the body for that.
LEMMA OutcomeOf ==
    ASSUME NEW r \in Requests, answer[r] \in Answers
    PROVE  /\ Outcome(r) \in {"success", "failed", "threw"}
           /\ Outcome(r) = "success" =>
                 \/ Accepts(answer[r])
                 \/ answer[r].response.success = "false" /\ answer[r].response.code = "zero"
           /\ Outcome(r) = "failed" /\ Accepts(answer[r]) => answer[r].chunked /\ ~Readable(r)
  BY DEF Outcome, UnwrapCode, Accepts, Readable, Answers

\* A step of another request q leaves r alone, and the client of r if r reads.
LEMMA ToldOther ==
    ASSUME TypeOK, PoolInv, ToldInv, NEW q \in Requests, NEW r \in Requests, r # q,
           place'[r] = place[r], client'[r] = client[r], answer'[r] = answer[r],
           outcome'[r] = outcome[r],
           \/ chunk' = chunk
           \/ Using(q) /\ \A c \in Clients : c # client[q] => chunk'[c] = chunk[c]
    PROVE  Told(r)'
<1>1. Told(r)
  BY DEF ToldInv
<1>2. ASSUME Reading(r), chunk' # chunk PROVE chunk'[client[r]] = chunk[client[r]]
  <2>1. Using(r) /\ Using(q) /\ client[r] \in Clients
    BY <1>2 DEF Reading, Using, PoolInv, PoolTypeOK
  <2>2. client[r] # client[q]
    BY <2>1 DEF PoolInv, OneUserPerClient
  <2> QED
    BY <1>2, <2>1, <2>2
<1>3. Reading(r)' => Readable(r)'
  BY <1>1, <1>2 DEF Told, Reading, Readable
<1> QED
  BY <1>1, <1>3 DEF Told

\* Every step keeps to what the server said.
LEMMA ToldNext == TypeOK /\ PoolInv /\ ToldInv /\ [Next]_vars => ToldInv'
<1> SUFFICES ASSUME TypeOK, PoolInv, ToldInv, [Next]_vars PROVE ToldInv'
  OBVIOUS
<1>0. /\ \A r \in Requests : Told(r)
      /\ DOMAIN place = Requests /\ DOMAIN client = Requests /\ DOMAIN answer = Requests
      /\ DOMAIN outcome = Requests /\ DOMAIN chunk = Clients
  BY DEF ToldInv, TypeOK
<1>1. ASSUME NEW q \in Requests, Acquire(q) PROVE ToldInv'
  <2>1. /\ place' = [place EXCEPT ![q] = "acquired"] /\ place[q] = "idle"
        /\ UNCHANGED <<chunk, answer, outcome>>
        /\ \A r \in Requests : r # q => client'[r] = client[r]
    BY <1>0, <1>1 DEF Acquire, Go
  <2>2. \A r \in Requests : Told(r)'
    BY <1>0, <2>1, ToldOther DEF Told, Reading
  <2> QED
    BY <2>1, <2>2 DEF ToldInv, OutcomeIsTheServers
<1>2. ASSUME NEW q \in Requests, Send(q) PROVE ToldInv'
  <2>1. /\ place' = [place EXCEPT ![q] = "sent"] /\ place[q] = "acquired" /\ Using(q)
        /\ UNCHANGED <<client, answer, outcome>>
        /\ \A c \in Clients : c # client[q] => chunk'[c] = chunk[c]
    BY <1>0, <1>2 DEF Send, Go, Using
  <2>2. \A r \in Requests : r # q => Told(r)'
    BY <1>0, <2>1, ToldOther
  <2>3. Told(q)'
    BY <1>0, <2>1 DEF Told, Reading
  <2> QED
    BY <2>1, <2>2, <2>3 DEF ToldInv, OutcomeIsTheServers
<1>3. ASSUME NEW q \in Requests, Answered(q) PROVE ToldInv'
  <2>1. PICK a \in Answers :
           /\ answer' = [answer EXCEPT ![q] = a]
           /\ chunk' = [chunk EXCEPT ![client[q]] = IF a.chunked THEN q ELSE @]
    BY <1>3, AnsweredWith
  <2>2. /\ place' = [place EXCEPT ![q] = "answered"] /\ place[q] = "sent" /\ Using(q)
        /\ UNCHANGED <<client, outcome>> /\ client[q] \in Clients
        /\ \A c \in Clients : c # client[q] => chunk'[c] = chunk[c]
        /\ \A r \in Requests : r # q => answer'[r] = answer[r]
    BY <1>0, <1>3, <2>1 DEF Answered, Go, Using, PoolInv, PoolTypeOK
  <2>3. \A r \in Requests : r # q => Told(r)'
    BY <1>0, <2>2, ToldOther
  <2>4. outcome[q] = "none" /\ answer'[q] = a
    BY <1>0, <2>1, <2>2 DEF Told
  <2>5. Told(q)'
    <3>1. a.chunked => chunk'[client[q]] = q
      BY <1>0, <2>1, <2>2
    <3> QED
      BY <1>0, <2>2, <2>4, <3>1 DEF Told, Readable
  <2>6. OutcomeIsTheServers'
    BY <2>2, <2>4 DEF ToldInv, OutcomeIsTheServers
  <2> QED
    BY <2>3, <2>5, <2>6 DEF ToldInv
<1>4. ASSUME NEW q \in Requests, CoroutineRecycle(q) PROVE ToldInv'
  <2>1. /\ place' = [place EXCEPT ![q] = "recycled"] /\ place[q] = "answered"
        /\ UNCHANGED <<client, chunk, answer, outcome>>
    BY <1>4 DEF CoroutineRecycle, RecycleClient, Go
  <2>2. \A r \in Requests : Told(r)'
    BY <1>0, <2>1, ToldOther DEF Told, Reading
  <2> QED
    BY <2>1, <2>2 DEF ToldInv, OutcomeIsTheServers
<1>5. ASSUME NEW q \in Requests, Unwrap(q), answer[q] \in Answers,
             Reading(q) => Readable(q),
             ~Reading(q) => q \notin WithCallback,
             NEW p \in {"unwrapped", "done"}, Go(q, p),
             \A r \in Requests : r # q => client'[r] = client[r]
      PROVE  ToldInv'
  <2>1. /\ place' = [place EXCEPT ![q] = p] /\ UNCHANGED <<chunk, answer>>
        /\ outcome' = [outcome EXCEPT ![q] = Outcome(q)]
    BY <1>5 DEF Unwrap, Go
  <2>2. \A r \in Requests : r # q => Told(r)'
    BY <1>0, <1>5, <2>1, ToldOther
  <2>3. Told(q)'
    BY <1>0, <1>5, <2>1 DEF Told, Reading
  <2>4. OutcomeIsTheServers'
    BY <1>0, <1>5, <2>1, OutcomeOf DEF ToldInv, OutcomeIsTheServers, Reading
  <2> QED
    BY <2>2, <2>3, <2>4 DEF ToldInv
<1>6. ASSUME NEW q \in Requests, CoroutineUnwrap(q) PROVE ToldInv'
  <2>1. answer[q] \in Answers
    BY <1>0, <1>6 DEF CoroutineUnwrap, Told
  <2> QED
    BY <1>0, <1>5, <1>6, <2>1 DEF CoroutineUnwrap, Ends, Reading
<1>7. ASSUME NEW q \in Requests, Callback(q) PROVE ToldInv'
  <2>1. CASE place[q] = "answered" /\ Unwrap(q) /\ Go(q, "unwrapped") /\ UNCHANGED client
    <3>1. answer[q] \in Answers /\ Reading(q) /\ Readable(q)
      BY <1>0, <1>7, <2>1 DEF Told, Reading, Callback
    <3> QED
      BY <1>5, <2>1, <3>1
  <2>2. CASE place[q] = "unwrapped" /\ RecycleClient(q) /\ Ends(q) /\ UNCHANGED outcome
    <3>1. /\ place' = [place EXCEPT ![q] = "done"] /\ UNCHANGED <<chunk, answer, outcome>>
          /\ \A r \in Requests : r # q => client'[r] = client[r]
      BY <1>0, <2>2 DEF RecycleClient, Ends, Go
    <3>2. \A r \in Requests : r # q => Told(r)'
      BY <1>0, <3>1, ToldOther
    <3>3. Told(q)'
      BY <1>0, <3>1 DEF Told, Reading
    <3> QED
      BY <3>1, <3>2, <3>3 DEF ToldInv, OutcomeIsTheServers
  <2> QED
    BY <1>7, <2>1, <2>2 DEF Callback, UnwrapsFirst
<1>8. CASE UNCHANGED vars
  BY <1>8 DEF vars, ToldInv, Told, Reading, Readable, OutcomeIsTheServers
<1> QED
  BY <1>1, <1>2, <1>3, <1>4, <1>6, <1>7, <1>8 DEF Next

\* The caller hears of a success only if the answer to its own request says so, and of
\* every such success but for a chunked answer to the coroutine.
THEOREM ToldTheAnswer == Spec => []OutcomeIsTheServers
<1>1. ToldInv => OutcomeIsTheServers
  BY DEF ToldInv
<1> QED
  BY <1>1, TypeInit, TypeNext, Begins, Inductive, ToldInit, ToldNext, PTL DEF Spec

=============================================================================
