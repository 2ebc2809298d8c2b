----------------------------- MODULE MCDuration -----------------------------
(* Values for the constants of DurationStatistics that a .cfg cannot write. *)
EXTENDS DurationStatistics

ExactClock == {0}
\* SetOnlineTime cuts the server's time to whole seconds: the clock may go back.
UnevenClock == {-1, 0}

NoCache == {}
\* A config that disables the reporter; the rows of its time are expired.
DisabledBefore == {[enable |-> FALSE, available_start_ts |-> 2]}
=============================================================================
