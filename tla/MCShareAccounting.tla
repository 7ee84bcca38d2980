--------------------------- MODULE MCShareAccounting ---------------------------
(***************************************************************************)
(* ShareAccounting for TLC: the IDs of jobs and of messages are            *)
(* interchangeable, as are the contents; the two pools are not.            *)
(***************************************************************************)
EXTENDS ShareAccounting, TLC

CONSTANTS d1, d2

Symmetry == Permutations(JobID) \cup Permutations(MsgID) \cup Permutations(Content)

================================================================================
