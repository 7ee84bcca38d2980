------------------------------ MODULE BuyerWatcher ------------------------------
(***************************************************************************)
(* The contract watcher of the buyer and of the validator,                 *)
(* hr/contract/contract_buyer.go: one goroutine that judges the hashrate   *)
(* of the contract every cycle until the contract is over, its context is  *)
(* cancelled, or a miner reports its destination.  The controllers of      *)
(* BuyerContract and FuturesValidator extend it.                           *)
(*                                                                         *)
(* Hashrate is abstracted to the verdict of a cycle.  A watcher is started *)
(* once in its life.                                                       *)
(***************************************************************************)
EXTENDS Integers, FiniteSets

CONSTANT MaxPurchases       \* bound: purchases of the contract

ASSUME PurchasesAssumption == MaxPurchases \in Nat \ {0}

\* 0 is a contract that is not purchased, or whose start was reset
Purchase == 0 .. MaxPurchases

VARIABLES
    state,          \* "pending" or "running"
    terms,          \* the purchase that the embedded Terms are of
    started,        \* startedCh is closed, cancel is set
    run,            \* place of the goroutine of StartFulfilling
    cancelled,      \* its context is cancelled
    endTimer,       \* the purchase whose end the timer waits for
    doneCh,         \* "open" or "closed"
    runErr,         \* why it ended: its context, or a failure
    judged,         \* history: the purchase that runErr is about
    contractErr,    \* "nil" or "set"
    contractErrCh,  \* "open" or "closed"
    panic,          \* what crashed the program
    expired         \* purchases whose time is over

runVars == <<run, cancelled, endTimer, runErr, judged>>
errVars == <<contractErr, contractErrCh, panic>>
watcherVars == <<state, terms, started, runVars, doneCh, errVars, expired>>

\* BlockchainState: BlockchainStateRunning
InTime(n) == n \notin expired \cup {0}

Alive == run \in {"begin", "check", "select", "close"}

FreshWatcher ==
    /\ state = "pending" /\ started = FALSE
    /\ run = "none" /\ cancelled = FALSE /\ endTimer = 0
    /\ doneCh = "open" /\ runErr = "none" /\ judged = 0
    /\ contractErr = "nil" /\ contractErrCh = "open"

\* NewContractWatcherBuyer with the terms of purchase n
NewWatcher(n) ==
    /\ state' = "pending" /\ started' = FALSE
    /\ run' = "none" /\ cancelled' = FALSE /\ endTimer' = 0
    /\ doneCh' = "open" /\ runErr' = "none" /\ judged' = 0
    /\ contractErrCh' = "open"
    /\ terms' = n

Forgotten ==
    /\ state' = "pending" /\ started' = FALSE
    /\ run' = "none" /\ cancelled' = FALSE /\ endTimer' = 0
    /\ doneCh' = "open" /\ runErr' = "none" /\ judged' = 0
    /\ contractErr' = "nil" /\ contractErrCh' = "open"
    /\ terms' = 0

--------------------------------------------------------------------------------
\* Operations of the controllers

StartFulfilling ==
    IF state = "pending"
      THEN /\ state' = "running"
           /\ started' = TRUE /\ cancelled' = FALSE /\ doneCh' = "open"
           /\ run' = "begin"
           /\ panic' = IF started THEN "close of closed startedCh" ELSE panic
      ELSE UNCHANGED <<state, started, cancelled, doneCh, run, panic>>

\* cancel; the caller then waits for doneCh
Cancelled == cancelled' = (cancelled \/ started)

\* mutant: the error is stored, and the channel closed, each time
SetErrorAgain ==
    /\ contractErr' = "set"
    /\ IF contractErrCh = "open"
         THEN contractErrCh' = "closed" /\ UNCHANGED panic
         ELSE panic' = "close of closed contractErrCh" /\ UNCHANGED contractErrCh
    /\ UNCHANGED <<state, terms, started, runVars, doneCh, expired>>

\* SetError, called when a miner of the contract disconnects
SetError ==
    /\ contractErr = "nil"
    /\ contractErr' = "set"
    /\ IF contractErrCh = "open"
         THEN contractErrCh' = "closed" /\ UNCHANGED panic
         ELSE panic' = "close of closed contractErrCh" /\ UNCHANGED contractErrCh
    /\ UNCHANGED <<state, terms, started, runVars, doneCh, expired>>

--------------------------------------------------------------------------------
\* The goroutine of StartFulfilling

Returns(err) == run' = "close" /\ runErr' = err /\ judged' = terms /\ endTimer' = 0

Begin ==
    /\ run = "begin"
    /\ state' = "running"
    /\ IF InTime(terms) THEN run' = "check" /\ UNCHANGED <<endTimer, runErr, judged>> ELSE Returns("none")
    /\ UNCHANGED <<cancelled, contractErrCh, doneCh>>

\* mutant: a contract that is over is judged like one that is not
CheckNoEnd ==
    /\ run = "check"
    /\ \/ /\ run' = "select" /\ endTimer' = 0 /\ UNCHANGED <<runErr, judged>>
       \/ Returns("failed")
    /\ UNCHANGED <<state, cancelled, contractErrCh, doneCh>>

\* checkIncomingHashrate: no shares, too little hashrate, or a contract that is
\* finished are failures; while the validation has not started there is none
Check ==
    /\ run = "check"
    /\ \/ InTime(terms) /\ run' = "select" /\ endTimer' = terms /\ UNCHANGED <<runErr, judged>>
       \/ Returns("failed")
       \/ ~ InTime(terms) /\ Returns("none")
    /\ UNCHANGED <<state, cancelled, contractErrCh, doneCh>>

\* the select statement: the context, the end of the contract, a destination
\* that failed, or the next cycle
Select ==
    /\ run = "select"
    /\ \/ cancelled /\ Returns("canceled") /\ UNCHANGED contractErrCh
       \/ ~ InTime(endTimer) /\ Returns("none") /\ UNCHANGED contractErrCh
       \/ contractErrCh = "closed" /\ contractErrCh' = "open" /\ Returns("failed")
       \/ run' = "check" /\ endTimer' = 0 /\ UNCHANGED <<contractErrCh, runErr, judged>>
    /\ UNCHANGED <<state, cancelled, doneCh>>

CloseDone ==
    /\ run = "close" /\ run' = "clear"
    /\ doneCh' = "closed"
    /\ UNCHANGED <<state, cancelled, endTimer, contractErrCh, runErr, judged>>

Clear ==
    /\ run = "clear" /\ run' = "none"
    /\ state' = "pending"
    /\ UNCHANGED <<cancelled, endTimer, contractErrCh, doneCh, runErr, judged>>

RunStep ==
    /\ Begin \/ Check \/ Select \/ CloseDone \/ Clear
    /\ UNCHANGED <<terms, started, contractErr, panic, expired>>

\* The watcher's part of the controllers' type invariants.
WatcherTypeOK ==
    /\ state \in {"pending", "running"} /\ terms \in Purchase /\ started \in BOOLEAN
    /\ run \in {"none", "begin", "check", "select", "close", "clear"}
    /\ cancelled \in BOOLEAN /\ endTimer \in Purchase /\ judged \in Purchase
    /\ doneCh \in {"open", "closed"} /\ runErr \in {"none", "failed", "canceled"}
    /\ contractErr \in {"nil", "set"} /\ contractErrCh \in {"open", "closed"}
    /\ panic \in {"none", "close of closed startedCh", "close of closed contractErrCh"}
    /\ expired \subseteq 1 .. MaxPurchases

================================================================================
