---------------------------- MODULE CacheContent ----------------------------
(***************************************************************************)
(* What a tracker cache file means to its users, apart from its layout:    *)
(* recs, the messages of the records that record_size covers, and count,   *)
(* the record_count of its header.  The two are stored one after the       *)
(* other, so a process that ends between the stores leaves them apart.     *)
(***************************************************************************)
EXTENDS Naturals, Sequences

EmptyCache == [recs |-> <<>>, count |-> 0]

\* Load: as many records as the count says, or as there are.
Loaded(c) == SubSeq(c.recs, 1, IF c.count < Len(c.recs) THEN c.count ELSE Len(c.recs))

\* The two stores of Push ...
Counted(c) == [c EXCEPT !.count = @ + 1]
Recorded(c, m) == [c EXCEPT !.recs = Append(@, m)]
Pushed(c, m) == Recorded(Counted(c), m)

\* ... and the two of Reset.
ZeroCount(c) == [c EXCEPT !.count = 0]
ZeroSize(c) == [c EXCEPT !.recs = <<>>]
=============================================================================
