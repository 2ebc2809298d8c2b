----------------------------- MODULE MCInterface -----------------------------
(***************************************************************************)
(* Whatever the host names is interchangeable with its kind.  The session  *)
(* calls and the tracker calls share nothing but the two flags the start   *)
(* raises, so the run follows each kind from every start and goes no       *)
(* further once both have been made.                                       *)
(***************************************************************************)
EXTENDS CInterface, TLC

Same == Permutations(Threads) \cup Permutations(Users) \cup Permutations(Games)
        \cup Permutations(Fields) \cup Permutations(Messages)

NoSessionCall ==
    /\ ~userSet /\ current_game = Nothing /\ dur_game = Nothing /\ window /\ ~threw
    /\ \A t \in Threads : place[t] = "idle"
NoTrackerCall ==
    /\ \A k \in Structs : hash[k] = NoHash
    /\ \A m \in Messages : state[m] = "none"

OneKindOfCall == NoSessionCall \/ NoTrackerCall
=============================================================================
