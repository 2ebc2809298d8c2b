------------------------------ MODULE RecordLog ------------------------------
(***************************************************************************)
(* What DiskCache promises of its file across ends of the process: Push    *)
(* and Clear are two stores each, in a fixed order; an end of the process  *)
(* keeps what has been stored, and nothing else ever changes the content.  *)
(* In particular no growing, shrinking, reopening or checking of the file  *)
(* loses, repeats or reorders a record.                                    *)
(***************************************************************************)
EXTENDS CacheContent

CONSTANT Messages

VARIABLES cache, step

vars == <<cache, step>>

Init == cache = EmptyCache /\ step = "closed"

Open == step = "closed" /\ step' = "idle" /\ UNCHANGED cache

PushCounts ==
    /\ step = "idle"
    /\ step' = "counted"
    /\ cache' = Counted(cache)

PushRecords ==
    /\ step = "counted"
    /\ step' = "idle"
    /\ \E m \in Messages : cache' = Recorded(cache, m)

ClearCount ==
    /\ step = "idle"
    /\ step' = "zeroed"
    /\ cache' = ZeroCount(cache)

ClearSize ==
    /\ step = "zeroed"
    /\ step' = "idle"
    /\ cache' = ZeroSize(cache)

\* The process ends, whatever the step.
End == step' = "closed" /\ UNCHANGED cache

Next == Open \/ PushCounts \/ PushRecords \/ ClearCount \/ ClearSize \/ End

Spec == Init /\ [][Next]_vars
=============================================================================
