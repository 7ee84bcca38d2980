--------------------------- MODULE LogWatcherPolling ---------------------------
(***************************************************************************)
(* The polling log watcher of internal/repositories/contracts/             *)
(* log_watcher_polling.go: the goroutine behind one subscription, which    *)
(* asks the node for the logs of the blocks it has not seen, retries when  *)
(* the node fails and hands the events to a consumer that may unsubscribe. *)
(* What it promises its consumer is stated in LogDelivery.                 *)
(***************************************************************************)
EXTENDS LogDelivery

VARIABLES
    pc,             \* where the producer goroutine is
    attempts,       \* loop counter of pollReconnect
    nextFromBlock,  \* the variable of Watch and pollReconnect: the same object
                    \* as pollFrom unless nil
    currentBlock,   \* header read by pollChanges
    result,         \* what the producer returned
    \* the node, the consumer and the context
    head,           \* the chain's last block
    answers,        \* calls the node answers at present
    stopping        \* closed among the quit channel and the context

pollVars == <<nextFromBlock, pollFrom, currentBlock, pending>>
nodeVars == <<head, answers>>
historyVars == <<delivered, received, start, anchor, failed>>
vars == <<pc, attempts, pollVars, result, nodeVars, stopping, historyVars>>

Calls == {"HeaderByNumber", "FilterLogs"}

IsFirst(l, S) == l \in S /\ \A k \in S : l <= k

--------------------------------------------------------------------------------
Init ==
    /\ pc = "check"
    /\ attempts = 0
    /\ nextFromBlock \in FromBlocks
    /\ pollFrom = nextFromBlock
    /\ currentBlock = 0
    /\ pending = {}
    /\ result = "none"
    /\ head \in 1 .. MaxBlock
    /\ answers = Calls
    /\ stopping = {}
    /\ delivered = {}
    /\ received = 0
    /\ start = nextFromBlock /\ anchor = nextFromBlock
    /\ failed = {}

Return(r) == pc' = "done" /\ result' = r

\* pollReconnect's loop: out of attempts, told to stop, or another poll
Check ==
    /\ pc = "check"
    /\ \/ attempts >= MaxReconnects /\ Return("exhausted")
       \/ attempts < MaxReconnects /\ \E r \in stopping : Return(r)
       \/ attempts < MaxReconnects /\ stopping = {} /\ pc' = "header" /\ UNCHANGED result
    /\ UNCHANGED <<attempts, pollVars, nodeVars, stopping, historyVars>>

\* mutant: the failed attempt is not counted
PollFailsUncounted == pc' = "retry" /\ UNCHANGED <<attempts, result>>

\* pollChanges returned an error, SubClosedError included: the loop's delay
PollFails == pc' = "retry" /\ attempts' = attempts + 1 /\ UNCHANGED result

\* a call may also fail because its context is done
MayFail(call) == call \notin answers \/ "ctx" \in stopping

\* mutant: a block equal to the next one is taken for not there yet
HeaderWaits ==
    /\ pc = "header"
    /\ \/ /\ "HeaderByNumber" \in answers
          /\ currentBlock' = head
          /\ pollFrom' = IF nextFromBlock = NoBlock THEN head ELSE nextFromBlock
          /\ start' = IF start = NoBlock THEN head ELSE start
          /\ pc' = IF head <= pollFrom' THEN "wait" ELSE "query"
          /\ UNCHANGED <<attempts, result>>
       \/ /\ MayFail("HeaderByNumber")
          /\ PollFails
          /\ UNCHANGED <<currentBlock, pollFrom, start>>
    /\ UNCHANGED <<nextFromBlock, pending, nodeVars, stopping, delivered, received, anchor, failed>>

\* HeaderByNumber; without a block to go on from, the poll starts at the head:
\* at each attempt, until one of them succeeds
Header ==
    /\ pc = "header"
    /\ \/ /\ "HeaderByNumber" \in answers
          /\ currentBlock' = head
          /\ pollFrom' = IF nextFromBlock = NoBlock THEN head ELSE nextFromBlock
          /\ start' = IF start = NoBlock THEN head ELSE start
          /\ pc' = IF head < pollFrom' THEN "wait" ELSE "query"
          /\ UNCHANGED <<attempts, result>>
       \/ /\ MayFail("HeaderByNumber")
          /\ PollFails
          /\ UNCHANGED <<currentBlock, pollFrom, start>>
    /\ UNCHANGED <<nextFromBlock, pending, nodeVars, stopping, delivered, received, anchor, failed>>

\* mutant: the last block is queried again
NextFromSame == currentBlock

\* mutant: the head is read again after the query
NextFromHead == head + 1

\* the block after the queried range
NextFrom == currentBlock + 1

InRange(l) == pollFrom <= BlockOf[l] /\ BlockOf[l] <= currentBlock

\* FilterLogs; nextFromBlock.Add writes to the caller's object, before the
\* error is looked at
Query ==
    /\ pc = "query"
    /\ pollFrom' = NextFrom
    /\ nextFromBlock' = IF nextFromBlock = NoBlock THEN NoBlock ELSE NextFrom
    /\ \/ /\ "FilterLogs" \in answers
          /\ pending' = {l \in Events : InRange(l)}
          /\ anchor' = IF anchor = NoBlock THEN pollFrom ELSE anchor
          /\ pc' = "send"
          /\ UNCHANGED <<attempts, result, failed>>
       \/ /\ MayFail("FilterLogs")
          /\ failed' = failed \cup (pollFrom .. currentBlock)
          /\ PollFails
          /\ UNCHANGED <<pending, anchor>>
    /\ UNCHANGED <<currentBlock, nodeVars, stopping, delivered, received, start>>

\* sink <- event, in the order of the answer
Send ==
    /\ pc = "send"
    /\ \E l \in pending :
        /\ IsFirst(l, pending)
        /\ pending' = pending \ {l}
        /\ delivered' = delivered \cup {l}
        /\ received' = received + 1
    /\ UNCHANGED <<pc, attempts, nextFromBlock, pollFrom, currentBlock, result>>
    /\ UNCHANGED <<nodeVars, stopping, start, anchor, failed>>

AllSent ==
    /\ pc = "send" /\ pending = {}
    /\ pc' = "pause"
    /\ UNCHANGED <<attempts, pollVars, result, nodeVars, stopping, historyVars>>

\* the interval after an answer, or before a block that is not there yet:
\* pollReconnect and Watch take over the new block and start counting afresh
PollSucceeds ==
    /\ pc \in {"pause", "wait"}
    /\ nextFromBlock' = pollFrom
    /\ attempts' = 0
    /\ pc' = "check"
    /\ UNCHANGED <<pollFrom, currentBlock, pending, result, nodeVars, stopping, historyVars>>

\* a select of pollChanges sees quit or the context
StopPoll ==
    /\ pc \in {"send", "pause", "wait"}
    /\ pc = "send" => pending # {}
    /\ stopping # {}
    /\ PollFails
    /\ UNCHANGED <<pollVars, nodeVars, stopping, historyVars>>

\* the delay between two attempts
Retry ==
    /\ pc = "retry"
    /\ \/ pc' = "check" /\ UNCHANGED result
       \/ \E r \in stopping : Return(r)
    /\ UNCHANGED <<attempts, pollVars, nodeVars, stopping, historyVars>>

Unaided == Check \/ Header \/ Query \/ AllSent \/ PollSucceeds \/ StopPoll \/ Retry

Producer == Unaided \/ Send

--------------------------------------------------------------------------------
\* The node, the consumer and the context

NewBlock ==
    /\ head < MaxBlock
    /\ head' = head + 1
    /\ UNCHANGED <<pc, attempts, pollVars, result, answers, stopping, historyVars>>

NodeChanges ==
    /\ answers' \in SUBSET Calls
    /\ UNCHANGED <<pc, attempts, pollVars, result, head, stopping, historyVars>>

\* Subscription.Unsubscribe, or the end of the program
Stop ==
    /\ \E r \in {"quit", "ctx"} : stopping' = stopping \cup {r}
    /\ UNCHANGED <<pc, attempts, pollVars, result, nodeVars, historyVars>>

Next == Producer \/ NewBlock \/ NodeChanges \/ Stop

Spec == Init /\ [][Next]_vars

\* The goroutine is scheduled, calls return and timers fire; the consumer may
\* have stopped receiving.
FairSpec == Spec /\ WF_vars(Unaided)

--------------------------------------------------------------------------------
\* Properties

\* Every variable keeps the shape its declaration in the code gives it.
TypeOK ==
    /\ pc \in {"check", "header", "query", "send", "pause", "wait", "retry", "done"}
    /\ attempts \in 0 .. MaxReconnects
    /\ nextFromBlock \in 0 .. MaxBlock + 1
    /\ pollFrom \in 0 .. MaxBlock + 1
    /\ currentBlock \in 0 .. MaxBlock
    /\ pending \subseteq Events
    /\ result \in {"none", "exhausted", "quit", "ctx"}
    /\ head \in 1 .. MaxBlock
    /\ answers \subseteq Calls
    /\ stopping \subseteq {"quit", "ctx"}
    /\ delivered \subseteq Events
    /\ received \in Nat
    /\ start \in 0 .. MaxBlock /\ anchor \in 0 .. MaxBlock
    /\ failed \subseteq 0 .. MaxBlock

\* A subscription that is closed, or whose context is done, returns, although
\* its consumer no longer receives.
StopCompletes == stopping # {} ~> pc = "done"

ConsumerGone == <>[](pc = "send")

\* A node that no longer answers at all ends the subscription with an error.
DeadNodeEndsWatch == <>[](answers = {}) => <>(pc = "done") \/ ConsumerGone

\* A watch ends when it is told to, and when the node is gone for good.
WatchEnds == StopCompletes /\ DeadNodeEndsWatch

\* While the node answers, and the consumer does not stop receiving, the watch
\* catches up with the chain.
FollowsChain ==
    <>[](answers = Calls) => []<>(pollFrom > head \/ pc = "done") \/ ConsumerGone

================================================================================
