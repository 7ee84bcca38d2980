------------------------------ MODULE LogDelivery ------------------------------
(***************************************************************************)
(* What the consumer of a subscription is promised about the logs of a     *)
(* contract, in terms of the chain, of what was handed over and of how far *)
(* the watcher is: LogWatcherPolling says how it gets there.               *)
(*                                                                         *)
(* Logs are numbered in the order of the chain. The chain only grows; what *)
(* a log says is abstracted to whether an event comes of it.               *)
(***************************************************************************)
EXTENDS Integers, FiniteSets

CONSTANTS MaxBlock,         \* bound: the last block that is mined
          NumLogs,          \* logs of the watched contract up to that block
          BlockOf,          \* BlockOf[l]: the block of log l
          Events,           \* logs that are not removed and can be mapped
          FromBlocks,       \* arguments of Watch, NoBlock for nil
          MaxReconnects     \* configured number of attempts

NoBlock == 0

Logs == 1 .. NumLogs

ASSUME ChainAssumption ==
    /\ MaxBlock \in Nat \ {0} /\ NumLogs \in Nat
    /\ BlockOf \in [Logs -> 1 .. MaxBlock]
    /\ \A k, l \in Logs : k <= l => BlockOf[k] <= BlockOf[l]
    /\ Events \subseteq Logs
ASSUME ConfigAssumption == FromBlocks \subseteq 0 .. MaxBlock /\ MaxReconnects \in Nat

VARIABLES
    pollFrom,   \* pollChanges' nextFromBlock: where the next poll starts
    pending,    \* events of the answer not sent yet
    delivered,  \* history: events the consumer received
    received,   \* history: how often it received one
    start,      \* history: first block of the watch, the one it was given or
                \* the first head it read
    anchor,     \* history: the block it was given or, without one, the first
                \* block of the first answered query; NoBlock before that
    failed      \* history: blocks of the ranges whose query failed

\* What the consumer receives is new and later than all it received before,
\* whatever fails and is retried (TestWatchDoesntReturnEventsTwice).
DeliveredInOrder ==
    [][received' # received =>
         \E l \in delivered' \ delivered : \A k \in delivered : k < l]_<<received, delivered>>

Passed(l) == start # NoBlock /\ start <= BlockOf[l] /\ BlockOf[l] < pollFrom

\* A watch that was given no block forgets where it started when its first
\* query fails, and starts anew from the head the next attempt reads: what is
\* mined in between is never asked for (nextFromBlock of pollReconnect is nil
\* until a poll succeeds).
BeforeAnchor(l) == start \in failed /\ (anchor = NoBlock \/ BlockOf[l] < anchor)

\* Every event between the first block of the watch and the block the next
\* poll starts from was delivered, is about to be, is in a range whose query
\* failed or, in a watch given no block whose first query failed, comes before
\* the first answered query. A watch that was given a block, or that has had an
\* answer, loses nothing between two ranges, whatever is mined during a poll.
LossesFollowFailures ==
    \A l \in Events :
        Passed(l) => \/ l \in delivered \cup pending
                     \/ BlockOf[l] \in failed
                     \/ BeforeAnchor(l)

================================================================================
