------------------------------- MODULE MCLogin -------------------------------
(* One login, whose result one thread waits for and one callback is given.   *)
EXTENDS Login

SomeExpires == {-1, 0, 2}
=============================================================================
