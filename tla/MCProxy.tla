--------------------------------- MODULE MCProxy ---------------------------------
(* Instance of Proxy for TLC. *)
EXTENDS Proxy

CONSTANTS b, c    \* the destinations that are not the primary one

\* The exploration stops where Run loops after a reconnect, where a SetDest has
\* failed, and where Run has ended, once a SetDest under way has returned.  A
\* miner that is connected to another pool than the default, and the last
\* share, are explored without failures.  Of the destinations b and c, which
\* the module does not tell apart, b is the first one that is connected.
Explored ==
    /\ Regular \/ rpc = "loop"
    /\ spc # "error"
    /\ rpc = "ended" => lock = "set"
    /\ failures > 0 => url[1] = Primary /\ share[MaxShares] = "none"
    /\ c \in {url[i] : i \in Conn} => b \in {url[i] : i \in Conn}
================================================================================
