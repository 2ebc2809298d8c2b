---------------------------- MODULE MCHttpClient ----------------------------
(* A success, a refusal, the odd refusal with the code 0, and no JSON.        *)
EXTENDS HttpClient, TLC

Body(success, code, msg, fits) ==
    [success |-> success, code |-> code, msg |-> msg, fits |-> fits]

SomeResponses ==
    {Body("true", "absent", FALSE, TRUE), Body("false", "zero", TRUE, TRUE),
     Body("absent", "zero", FALSE, FALSE), Body("absent", "absent", FALSE, TRUE)}

Same == Permutations(Clients) \cup Permutations(Requests \ WithCallback)
        \cup Permutations(WithCallback)
=============================================================================
