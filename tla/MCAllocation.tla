----------------------------- MODULE MCAllocation -----------------------------
(* A small instance of Allocation; the miners are interchangeable. *)
EXTENDS Allocation, TLC

CONSTANTS m1, m2

Symmetric == Permutations({m1, m2})
================================================================================
