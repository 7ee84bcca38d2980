----------------------------- MODULE SellerWatcher -----------------------------
(***************************************************************************)
(* The contract watcher of the seller, hr/contract/contract_seller_v2.go,  *)
(* as its controllers start and stop it: the flag, the two channels that   *)
(* every start makes anew, the terms and the goroutines of run. The        *)
(* controllers of SellerController and FuturesSeller extend it.            *)
(*                                                                         *)
(* Hashrate is abstracted to the full miners that were allocated while the *)
(* contract had certain terms: they serve it until their task ends by      *)
(* itself or is removed. Partial miners leave with the cycle.              *)
(***************************************************************************)
EXTENDS Integers, FiniteSets

CONSTANTS MaxRuns,       \* bound: goroutines of run alive at a time
          MaxPurchases,  \* bound: purchases of the contract
          Dest           \* destinations

\* A nil destination, by its reason: nobody purchased the contract, or the terms
\* were loaded without one; the purchase has no pool data, which is no error; or
\* they cannot be decrypted, which is one.
NoDest == "none"
Empty == "empty"
Garbled == "garbled"

ASSUME WatcherAssumption ==
    /\ MaxRuns \in Nat \ {0} /\ MaxPurchases \in Nat \ {0} /\ Dest # {}
    /\ Dest \cap {NoDest, Empty, Garbled} = {}

Run == 1 .. MaxRuns

\* purchase is 0 for a contract that nobody has purchased
Terms == [purchase : 0 .. MaxPurchases, dest : Dest \cup {NoDest, Empty, Garbled}]

RunPlace == {"none", "begin", "delay", "top", "cycle", "release", "close", "clear", "wedged"}

VARIABLES
    isRunning,
    stopCh, doneCh,  \* the channels the fields hold now: "open" or "closed"
    terms,           \* the embedded Terms
    run,             \* run[r]: where a goroutine of StartFulfilling is
    held,            \* held[r]: the stop channel its select waits on: the
                     \* current one, or one that was replaced open or closed
    serving,         \* terms whose full miners still work for the contract
    recorded,        \* those of them in stats.fullMiners
    panic,           \* what crashed the program
    over,            \* purchases whose time is over
    \* History
    overtaken,       \* the flag was used in the window between the end of a
                     \* run and its last assignment to the flag
    leaked           \* a run returned without removing its miners

channelVars == <<isRunning, stopCh, doneCh>>
minerVars == <<serving, recorded>>
watcherVars == <<channelVars, terms, run, held, minerVars, panic, over, overtaken, leaked>>

Alive == {r \in Run : run[r] \notin {"none", "clear"}}

\* the window between close(doneCh) and isRunning = false
InWindow == \E r \in Run : run[r] = "clear"

\* a run waits for the lock of a miner's list, and never gets it
Wedged == \E r \in Run : run[r] = "wedged"

TermsRunning == terms.purchase # 0 /\ terms.purchase \notin over

InitWatcher ==
    /\ isRunning = FALSE
    /\ stopCh = "open" /\ doneCh = "open"
    /\ run = [r \in Run |-> "none"]
    /\ held = [r \in Run |-> "open"]
    /\ serving = {} /\ recorded = {}
    /\ panic = "none"
    /\ overtaken = FALSE
    /\ leaked = FALSE

--------------------------------------------------------------------------------
\* Operations of the controllers

\* the flag is read, or set for a new run
UsesFlag == overtaken' = (overtaken \/ InWindow)

\* mutant: the stop channel is kept
NewDoneChannel ==
    /\ doneCh' = "open"
    /\ recorded' = {}
    /\ UNCHANGED <<stopCh, held>>

\* new channels and statistics: goroutines of earlier runs keep what they hold
NewChannels ==
    /\ stopCh' = "open" /\ doneCh' = "open"
    /\ held' = [r \in Run |-> IF held[r] = "current" THEN stopCh ELSE held[r]]
    /\ recorded' = {}

Reset == NewChannels /\ isRunning' = FALSE

Spawn ==
    \E r \in Run :
        /\ run[r] = "none" /\ \A q \in 1 .. r - 1 : run[q] # "none"
        /\ run' = [run EXCEPT ![r] = "begin"]

\* mutant: the flag is set before Reset clears it
StartUnflagged ==
    /\ NewChannels
    /\ isRunning' = FALSE
    /\ Spawn
    /\ UNCHANGED <<terms, serving, panic, over, leaked>>

StartFulfilling ==
    /\ NewChannels
    /\ isRunning' = TRUE
    /\ Spawn
    /\ UNCHANGED <<terms, serving, panic, over, leaked>>

StopFulfilling ==
    /\ \/ ~ isRunning /\ UNCHANGED <<stopCh, panic>>
       \/ isRunning /\ stopCh = "open" /\ stopCh' = "closed" /\ UNCHANGED panic
       \/ isRunning /\ stopCh = "closed" /\ panic' = "close of closed stopCh" /\ UNCHANGED stopCh
    /\ UNCHANGED <<isRunning, doneCh, terms, run, held, minerVars, over, leaked>>

--------------------------------------------------------------------------------
\* The goroutine of StartFulfilling

Goes(r, place) == run' = [run EXCEPT ![r] = place]

\* the select statement reads the field stopCh
Listens(r) == held' = [held EXCEPT ![r] = "current"]

StopSeen(r) == held[r] = "closed" \/ (held[r] = "current" /\ stopCh = "closed")

Enter(r) ==
    /\ run[r] = "begin"
    /\ Goes(r, "delay") /\ Listens(r)
    /\ UNCHANGED <<channelVars, terms, minerVars, panic, over, overtaken, leaked>>

\* ten seconds, then new statistics; or stopped before
Delay(r) ==
    /\ run[r] = "delay"
    /\ \/ StopSeen(r) /\ Goes(r, "close") /\ UNCHANGED recorded
       \/ Goes(r, "top") /\ recorded' = {}
    /\ UNCHANGED <<channelVars, terms, held, serving, panic, over, overtaken, leaked>>

\* adjustHashrate: add full miners, remove some, or neither
Adjust ==
    \/ serving' = serving \cup {terms} /\ recorded' = recorded \cup {terms}
    \/ \E t \in recorded : serving' = serving \ {t} /\ recorded' = recorded \ {t}
    \/ UNCHANGED minerVars

\* the head of a cycle: the terms may be over since the last one ended
Top(r) ==
    /\ run[r] = "top"
    /\ \/ /\ ~ TermsRunning
          /\ Goes(r, "close")
          /\ leaked' = (leaked \/ serving # {})
          /\ UNCHANGED <<held, minerVars>>
       \/ TermsRunning /\ Adjust /\ Goes(r, "cycle") /\ Listens(r) /\ UNCHANGED leaked
    /\ UNCHANGED <<channelVars, terms, panic, over, overtaken>>

\* ten seconds passed, a miner disconnected, or the cycle ended
Tick(r) ==
    /\ run[r] = "cycle"
    /\ \/ Adjust /\ Listens(r) /\ UNCHANGED run
       \/ Goes(r, "top") /\ UNCHANGED <<held, minerVars>>
    /\ UNCHANGED <<channelVars, terms, panic, over, overtaken, leaked>>

\* mutant: the run returns without removing its miners
EndOrStopAtOnce(r) ==
    /\ run[r] = "cycle"
    /\ ~ TermsRunning \/ StopSeen(r)
    /\ Goes(r, "close")
    /\ UNCHANGED <<channelVars, terms, held, minerVars, panic, over, overtaken, leaked>>

EndOrStop(r) ==
    /\ run[r] = "cycle"
    /\ ~ TermsRunning \/ StopSeen(r)
    /\ Goes(r, "release")
    /\ UNCHANGED <<channelVars, terms, held, minerVars, panic, over, overtaken, leaked>>

\* removeAllMiners
Release(r) ==
    /\ run[r] = "release"
    /\ serving' = serving \ recorded
    /\ Goes(r, "close")
    /\ UNCHANGED <<channelVars, terms, held, recorded, panic, over, overtaken, leaked>>

\* mutant: a run that is over does not say so
CloseDoneNot(r) ==
    /\ run[r] = "close"
    /\ Goes(r, "clear")
    /\ UNCHANGED <<channelVars, terms, held, minerVars, panic, over, overtaken, leaked>>

CloseDone(r) ==
    /\ run[r] = "close"
    /\ \/ doneCh = "open" /\ doneCh' = "closed" /\ UNCHANGED panic
       \/ doneCh = "closed" /\ panic' = "close of closed doneCh" /\ UNCHANGED doneCh
    /\ Goes(r, "clear")
    /\ UNCHANGED <<isRunning, stopCh, terms, held, minerVars, over, overtaken, leaked>>

Clear(r) ==
    /\ run[r] = "clear"
    /\ isRunning' = FALSE
    /\ Goes(r, "none")
    /\ held' = [held EXCEPT ![r] = "open"]
    /\ UNCHANGED <<stopCh, doneCh, terms, minerVars, panic, over, overtaken, leaked>>

RunStep(r) ==
    Enter(r) \/ Delay(r) \/ Top(r) \/ Tick(r) \/ EndOrStop(r) \/ Release(r) \/ CloseDone(r) \/ Clear(r)

\* adjustHashrate and removeAllMiners wait for the lock of a miner's list while
\* the miner's scheduler, which holds it, waits in the callback of another task of
\* the contract for this run to receive (CircularWait of MinerScheduler)
Wedge(r) ==
    /\ run[r] \in {"top", "cycle", "release"}
    /\ run[r] = "top" => TermsRunning
    /\ Goes(r, "wedged")
    /\ UNCHANGED <<channelVars, terms, held, minerVars, panic, over, overtaken, leaked>>

\* a miner takes its task: SetDest of a nil destination
TakeNilTask ==
    /\ \E t \in serving : t.dest \notin Dest
    /\ panic' = "nil destination"
    /\ UNCHANGED <<channelVars, terms, run, held, minerVars, over, overtaken, leaked>>

\* a full miner's task ends by itself and tells stats.fullMiners
TaskEnds ==
    \E t \in serving :
        /\ serving' = serving \ {t}
        /\ recorded' = recorded \ {t}
        /\ UNCHANGED <<channelVars, terms, run, held, panic, over, overtaken, leaked>>

--------------------------------------------------------------------------------
\* The watcher's part of the controllers' type invariants.
WatcherTypeOK ==
    /\ isRunning \in BOOLEAN
    /\ stopCh \in {"open", "closed"} /\ doneCh \in {"open", "closed"}
    /\ terms \in Terms
    /\ run \in [Run -> RunPlace]
    /\ held \in [Run -> {"current", "open", "closed"}]
    /\ serving \subseteq Terms /\ recorded \subseteq Terms
    /\ panic \in {"none", "close of closed stopCh", "close of closed doneCh", "nil terms",
                  "nil destination", "send on closed sink"}
    /\ over \subseteq 1 .. MaxPurchases
    /\ overtaken \in BOOLEAN /\ leaked \in BOOLEAN

================================================================================
