--------------------------- MODULE MCMinerScheduler ---------------------------
(* Small instances of MinerScheduler for TLC. *)
EXTENDS MinerScheduler, TLC

CONSTANTS c1, c2, p1, p2

Interchangeable == Permutations({c1, c2}) \cup Permutations({p1, p2})
================================================================================
