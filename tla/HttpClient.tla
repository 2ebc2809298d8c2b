----------------------------- MODULE HttpClient -----------------------------
(***************************************************************************)
(* net/coro_httpclient.cpp, net/httpclient.cpp and net/httpclient.h: the   *)
(* requests of one TapHttpClient, which take their connection (a           *)
(* coro_http_client, here "client") from a pool and give it back.          *)
(*                                                                         *)
(* A request of either RequestAsync goes through the places of place[r],   *)
(* its start in the calling thread and what follows the answer in the      *)
(* client's own thread, where one answer is worked off before the next is  *)
(* read.  A chunked answer stays in the client: the body a request reads   *)
(* is a view of it (chunk[c] says whose it is), and the next request on    *)
(* that client empties it when it starts, in its own thread.               *)
(*                                                                         *)
(* answer[r] is what the server said and outcome[r] what the caller was    *)
(* told, or "threw": an exception left the callback and the client's       *)
(* thread, which ends the process.                                         *)
(***************************************************************************)
EXTENDS Naturals, Sequences

CONSTANTS
    Requests, Clients,
    WithCallback,       \* the requests of the RequestAsync that takes callbacks
    Responses,          \* bodies the server may send
    max_pool_size,
    Nothing

ASSUME HttpAssumption == WithCallback \subseteq Requests /\ max_pool_size \in Nat

VARIABLES client_pool, place, client, chunk, answer, outcome

vars == <<client_pool, place, client, chunk, answer, outcome>>

\* success, code and msg as the parser finds them; fits: data makes the result
\* the caller asked for.
Response == [success : {"absent", "true", "false", "other"},
             code : {"absent", "zero", "other"}, msg : BOOLEAN, fits : BOOLEAN]

ASSUME ResponsesAssumption == Responses \subseteq Response

TypeOK ==
    /\ client_pool \in Seq(Clients)
    /\ Len(client_pool) <= max_pool_size
    /\ place \in [Requests -> {"idle", "acquired", "sent", "answered", "unwrapped",
                               "recycled", "done"}]
    /\ client \in [Requests -> Clients \cup {Nothing}]
    /\ chunk \in [Clients -> Requests \cup {Nothing}]
    /\ answer \in [Requests -> {Nothing} \cup
          [status200 : BOOLEAN, chunked : BOOLEAN, response : Response]]
    /\ outcome \in [Requests -> {"none", "success", "failed", "threw"}]

Init ==
    /\ client_pool = <<>>
    /\ place = [r \in Requests |-> "idle"]
    /\ client = [r \in Requests |-> Nothing]
    /\ chunk = [c \in Clients |-> Nothing]
    /\ answer = [r \in Requests |-> Nothing]
    /\ outcome = [r \in Requests |-> "none"]

Go(r, p) == place' = [place EXCEPT ![r] = p]

-----------------------------------------------------------------------------
(* Taking a client and giving it back.                                     *)

InPool == {client_pool[i] : i \in DOMAIN client_pool}

\* Clients that nobody refers to any more, or that were not made yet.
Unused == Clients \ (InPool \cup {client[r] : r \in Requests})

LeaveInPool == client_pool                                        \* mutant
PopPool == Tail(client_pool)

\* AcquireClient
Acquire(r) ==
    /\ place[r] = "idle"
    /\ \/ /\ client_pool = <<>>
          /\ \E c \in Unused : client' = [client EXCEPT ![r] = c]
          /\ UNCHANGED client_pool
       \/ /\ client_pool # <<>>
          /\ client' = [client EXCEPT ![r] = Head(client_pool)]
          /\ client_pool' = PopPool
    /\ Go(r, "acquired")
    /\ UNCHANGED <<chunk, answer, outcome>>

HasRoom == Len(client_pool) < max_pool_size

\* RecycleClient; a client that is not kept ends with the request.
RecycleClient(r) ==
    /\ client_pool' = IF HasRoom THEN Append(client_pool, client[r]) ELSE client_pool
    /\ UNCHANGED <<chunk, answer>>

-----------------------------------------------------------------------------
(* A request.                                                              *)

\* async_request begins: what a chunked answer left behind is dropped.
Send(r) ==
    /\ place[r] = "acquired"
    /\ Go(r, "sent")
    /\ chunk' = [chunk EXCEPT ![client[r]] = Nothing]
    /\ UNCHANGED <<client_pool, client, answer, outcome>>

\* The thread of client c is at work on an answer.
Busy(c) == \E q \in Requests :
    client[q] = c /\ place[q] \in {"answered", "unwrapped", "recycled"}

\* The answer is there, or there is none: the request could not be made, or timed
\* out, whatever the server did with it.  An error has a status other than 200.
Answered(r) ==
    /\ place[r] = "sent" /\ ~Busy(client[r])
    /\ \E status200, chunked \in BOOLEAN, response \in Responses :
          /\ answer' = [answer EXCEPT ![r] =
                [status200 |-> status200, chunked |-> chunked, response |-> response]]
          /\ chunk' = [chunk EXCEPT ![client[r]] = IF chunked THEN r ELSE @]
    /\ Go(r, "answered")
    /\ UNCHANGED <<client_pool, client, outcome>>

\* The code of TapUnwrapResult: 0, or "other" for the server's and for -1.  A field
\* that is missing or of another type throws, and so does a body that is no JSON.
UnwrapCode(b) ==
    IF \/ b.success = "true"
       \/ b.success = "absent" /\ b.code = "zero"
       \/ b.success = "false" /\ b.code = "zero" /\ b.msg
    THEN 0 ELSE 1

\* What the request finds where its body was: a view whose string was emptied
\* begins with a NUL and is no JSON.
Readable(r) == answer[r].chunked => chunk[client[r]] = r

\* unwrap_result, and MakeResult, or the callbacks of the caller: only MakeResult
\* catches what is thrown when the data does not fit.
Outcome(r) ==
    IF ~(answer[r].status200 /\ Readable(r) /\ UnwrapCode(answer[r].response) = 0)
    THEN "failed"
    ELSE IF answer[r].response.fits THEN "success"
    ELSE IF r \in WithCallback THEN "threw" ELSE "failed"

Unwrap(r) ==
    /\ outcome' = [outcome EXCEPT ![r] = Outcome(r)]
    /\ UNCHANGED <<client_pool, chunk, answer>>

Ends(r) == Go(r, "done") /\ client' = [client EXCEPT ![r] = Nothing]

\* The coroutine: RecycleClient, then unwrap_result(value.resp_body).
CoroutineRecycle(r) ==
    /\ r \notin WithCallback /\ place[r] = "answered"
    /\ RecycleClient(r) /\ Go(r, "recycled") /\ UNCHANGED <<client, outcome>>
CoroutineUnwrap(r) ==
    /\ r \notin WithCallback /\ place[r] = "recycled"
    /\ Unwrap(r) /\ Ends(r)

RecyclesFirst(r) ==                                               \* mutant
    \/ place[r] = "answered" /\ RecycleClient(r) /\ Go(r, "recycled")
       /\ UNCHANGED <<client, outcome>>
    \/ place[r] = "recycled" /\ Unwrap(r) /\ Ends(r)

\* The callback: unwrap_result and the caller's success or failed, then RecycleClient.
UnwrapsFirst(r) ==
    \/ place[r] = "answered" /\ Unwrap(r) /\ Go(r, "unwrapped") /\ UNCHANGED client
    \/ place[r] = "unwrapped" /\ RecycleClient(r) /\ Ends(r) /\ UNCHANGED outcome
Callback(r) == r \in WithCallback /\ UnwrapsFirst(r)

-----------------------------------------------------------------------------

Alive == \A r \in Requests : outcome[r] # "threw"

Next ==
    /\ Alive
    /\ \E r \in Requests :
          \/ Acquire(r) \/ Send(r) \/ Answered(r)
          \/ CoroutineRecycle(r) \/ CoroutineUnwrap(r) \/ Callback(r)

Spec == Init /\ [][Next]_vars

-----------------------------------------------------------------------------
(* Properties.                                                             *)

\* The requests that may still use their connection.
Using(r) == place[r] \in {"acquired", "sent", "answered", "unwrapped"}

\* Two requests never share a connection, and none is in the pool while a request
\* uses it, or in it twice.
OneUserPerClient ==
    /\ \A q, r \in Requests :
          Using(q) /\ Using(r) /\ client[q] = client[r] => q = r
    /\ \A r \in Requests : Using(r) => client[r] \notin InPool
    /\ \A i, j \in DOMAIN client_pool : client_pool[i] = client_pool[j] => i = j

Accepts(a) ==
    a.status200 /\ a.response.fits /\
        \/ a.response.success = "true"
        \/ a.response.success = "absent" /\ a.response.code = "zero"

\* A caller is told of a success only if the server said so in the answer to this
\* very request, or said success = false with the code 0; and a success the server
\* reports reaches the caller, but for a chunked answer to the coroutine, which reads
\* it after it gave the client back: another request may have emptied it.
OutcomeIsTheServers ==
    \A r \in Requests :
        /\ outcome[r] = "success" =>
              \/ Accepts(answer[r])
              \/ answer[r].response.success = "false" /\ answer[r].response.code = "zero"
        /\ outcome[r] = "failed" /\ Accepts(answer[r]) =>
              r \notin WithCallback /\ answer[r].chunked

=============================================================================
