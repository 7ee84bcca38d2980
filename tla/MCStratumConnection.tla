--------------------------- MODULE MCStratumConnection ---------------------------
(* Small instances of StratumConnection for TLC. *)
EXTENDS StratumConnection

MCKind == <<"unknown", "known">>

\* Reads and writes share only the timers and the end of the connection, so a
\* behaviour uses one of them.
OneDirection ==
    \/ writes = 0
    \/ fetched = <<0, 0>> /\ resetter = "idle" /\ \A r \in Reader : rpc[r] = "idle"
================================================================================
