----------------------------- MODULE MCDiskCache -----------------------------
(* Messages of one and two units, one that fills a step of the file and one *)
(* that is larger than a step.                                              *)
EXTENDS DiskCache, TLC

CONSTANTS a, b, c, d

Sizes == (a :> 1) @@ (b :> 2) @@ (c :> 5) @@ (d :> 7)
SmallSizes == (a :> 1) @@ (b :> 2) @@ (c :> 1)
=============================================================================
