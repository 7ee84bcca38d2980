-------------------------- MODULE MCLogWatcherPolling --------------------------
(* Small instances of LogWatcherPolling: four logs in three blocks, two of *)
(* them in one block and one of them without an event.                     *)
EXTENDS LogWatcherPolling

MCBlockOf == <<1, 2, 2, 3>>
MCEvents == {1, 2, 4}
================================================================================
