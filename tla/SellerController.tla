--------------------------- MODULE SellerController ---------------------------
(***************************************************************************)
(* The controller of a sold contract, hr/contract/controller_seller.go:    *)
(* the goroutine that reads the contract's events and starts, stops and    *)
(* restarts the watcher, together with the chain it reads the terms from.  *)
(*                                                                         *)
(* An event carries nothing: its handler asks the node for the terms of    *)
(* the moment, which may have changed again, and the node may fail.        *)
(***************************************************************************)
EXTENDS SellerWatcher, Sequences

CONSTANTS MaxEvents,     \* bound: events not handled yet
          NamedDest,     \* destinations whose user name is the contract's ID
          NodeMayFail    \* whether calls of the node can fail

ASSUME ControllerAssumption ==
    /\ MaxEvents \in Nat \ {0} /\ NamedDest \subseteq Dest /\ NodeMayFail \in BOOLEAN
    /\ "nil pointer" \notin Dest

VARIABLES
    pc,         \* where the controller goroutine is
    op,         \* what it stops for
    loaded,     \* terms it got from the node; NilTerms when the call failed
    \* the chain and the subscription
    chain,      \* the contract's terms
    purchases,  \* how often it was purchased
    events,     \* not handled yet
    synthetic,  \* Run's own goroutine offers a purchase
    ending      \* why Run is to return: "sub" or "ctx"

controllerVars == <<pc, op, loaded, synthetic>>
chainVars == <<chain, purchases, events, ending>>
vars == <<watcherVars, controllerVars, chainVars>>

NilTerms == [purchase |-> 0, dest |-> "nil pointer"]

Event == {"purchased", "closedEarly", "destUpdated"}

\* subscribed; the contract was created from the terms of the moment, without
\* their destination
Init ==
    /\ InitWatcher
    /\ purchases \in {0, 1}
    /\ chain \in Terms /\ chain.purchase \in {0, purchases}
    /\ chain.purchase = 0 <=> chain.dest = NoDest
    /\ over = {}
    /\ terms = [chain EXCEPT !.dest = NoDest]
    /\ events = <<>>
    /\ synthetic = (terms.purchase # 0)
    /\ ending = {}
    /\ pc = "select"
    /\ op = "none"
    /\ loaded = NilTerms

--------------------------------------------------------------------------------
\* The controller

Answers(ok) == ok \/ NodeMayFail \/ "ctx" \in ending

\* mutant: terms are replaced under a running watcher
SetTermsAlways(t) ==
    \/ t # NilTerms /\ terms' = t /\ UNCHANGED panic
    \/ t = NilTerms /\ panic' = "nil terms" /\ UNCHANGED terms

\* SetTerms, ignored while the watcher runs
SetTerms(t) ==
    \/ isRunning /\ UNCHANGED <<terms, panic>>
    \/ ~ isRunning /\ t # NilTerms /\ terms' = t /\ UNCHANGED panic
    \/ ~ isRunning /\ t = NilTerms /\ panic' = "nil terms" /\ UNCHANGED terms

Receives(e) ==
    /\ pc = "select"
    /\ \/ events # <<>> /\ e = Head(events) /\ events' = Tail(events) /\ UNCHANGED synthetic
       \/ synthetic /\ e = "purchased" /\ synthetic' = FALSE /\ UNCHANGED events

\* handleContractPurchased: State, then the terms, then Reset and start; a
\* purchase without pool data is started, with a nil destination
Purchased ==
    /\ Receives("purchased")
    /\ pc' = IF isRunning THEN "select" ELSE "purchase"
    /\ UsesFlag
    /\ UNCHANGED <<channelVars, terms, run, held, minerVars, panic, over, leaked>>
    /\ UNCHANGED <<op, loaded, chain, purchases, ending>>

LoadPurchase ==
    /\ pc = "purchase"
    /\ \/ /\ Answers(FALSE)
          /\ pc' = "select"
          /\ UNCHANGED <<terms, panic, overtaken>>
       \/ /\ SetTerms(chain)
          /\ UsesFlag
          /\ pc' = IF chain.dest = Garbled \/ terms'.purchase \in over \cup {0} THEN "select" ELSE "start"
    /\ UNCHANGED <<channelVars, run, held, minerVars, over, leaked, op, loaded, synthetic, chainVars>>

Start ==
    /\ pc = "start"
    /\ StartFulfilling
    /\ UsesFlag
    /\ pc' = "select"
    /\ UNCHANGED <<op, loaded, synthetic, chainVars>>

\* handleClosedEarly
ClosedEarly ==
    /\ Receives("closedEarly")
    /\ pc' = "check" /\ op' = "close"
    /\ UNCHANGED <<watcherVars, loaded, chain, purchases, ending>>

\* handleDestinationUpdated
DestinationUpdated ==
    /\ Receives("destUpdated")
    /\ pc' = "destination"
    /\ UNCHANGED <<watcherVars, op, loaded, chain, purchases, ending>>

\* Dest names the contract as the user, the new URL need not
SameDest == chain.dest = terms.dest /\ chain.dest \in NamedDest

\* the new URL is a nil pointer if the contract is no longer open, or has no
\* pool data
LoadDestination ==
    /\ pc = "destination"
    /\ \/ /\ Answers(FALSE)
          /\ loaded' = NilTerms /\ op' = "halt" /\ pc' = "check"
          /\ UNCHANGED panic
       \/ /\ chain.dest = Garbled
          /\ loaded' = chain /\ op' = "halt" /\ pc' = "check"
          /\ UNCHANGED panic
       \/ /\ chain.dest \in {NoDest, Empty}
          /\ panic' = "nil destination"
          /\ UNCHANGED <<loaded, op, pc>>
       \/ /\ chain.dest \in Dest
          /\ \/ SameDest /\ pc' = "select" /\ UNCHANGED <<loaded, op>>
             \/ ~ SameDest /\ pc' = "check" /\ op' = "restart" /\ loaded' = chain
          /\ UNCHANGED panic
    /\ UNCHANGED <<channelVars, terms, run, held, minerVars, over, overtaken, leaked, synthetic, chainVars>>

\* where a handler goes on when the watcher is stopped
AfterStop == CASE op = "close" -> "load" [] op = "exit" -> "done" [] OTHER -> "set"

\* IsRunning
Check ==
    /\ pc = "check"
    /\ pc' = IF isRunning THEN "stop" ELSE AfterStop
    /\ UsesFlag
    /\ UNCHANGED <<channelVars, terms, run, held, minerVars, panic, over, leaked>>
    /\ UNCHANGED <<op, loaded, synthetic, chainVars>>

Stop ==
    /\ pc = "stop"
    /\ StopFulfilling
    /\ UsesFlag
    /\ pc' = "wait"
    /\ UNCHANGED <<op, loaded, synthetic, chainVars>>

\* mutant: the handler does not wait for Done
WaitNot ==
    /\ pc = "wait"
    /\ pc' = AfterStop
    /\ UNCHANGED <<watcherVars, op, loaded, synthetic, chainVars>>

\* <-Done()
Wait ==
    /\ pc = "wait"
    /\ doneCh = "closed"
    /\ pc' = AfterStop
    /\ UNCHANGED <<watcherVars, op, loaded, synthetic, chainVars>>

SetLoaded ==
    /\ pc = "set"
    /\ SetTerms(loaded)
    /\ UsesFlag
    /\ pc' = IF op = "restart" THEN "start" ELSE "select"
    /\ op' = "none" /\ loaded' = NilTerms
    /\ UNCHANGED <<channelVars, run, held, minerVars, over, leaked, synthetic, chainVars>>

\* LoadTermsFromBlockchain after a close-out; for a new purchase info or a
\* SyncState it may happen at any time
Load ==
    /\ pc \in {"load", "select"}
    /\ pc' = "select" /\ op' = "none"
    /\ \/ Answers(FALSE) /\ UNCHANGED <<terms, panic, overtaken>>
       \/ SetTerms(chain) /\ UsesFlag
    /\ UNCHANGED <<channelVars, run, held, minerVars, over, leaked, loaded, synthetic, chainVars>>

\* Run's branch for a run that ended by itself, or was stopped
Ended ==
    /\ pc = "select"
    /\ doneCh = "closed"
    /\ Reset
    /\ UNCHANGED <<terms, run, serving, panic, over, overtaken, leaked, controllerVars, chainVars>>

Exit ==
    /\ pc = "select"
    /\ ending # {}
    /\ pc' = "check" /\ op' = "exit"
    /\ UNCHANGED <<watcherVars, loaded, synthetic, chainVars>>

Controller ==
    \/ Purchased \/ LoadPurchase \/ Start \/ ClosedEarly \/ DestinationUpdated \/ LoadDestination
    \/ Check \/ Stop \/ Wait \/ SetLoaded \/ Load \/ Ended \/ Exit

--------------------------------------------------------------------------------
\* The chain, the clock and the subscription

Emits(e) == Len(events) < MaxEvents /\ events' = Append(events, e)

Purchase ==
    /\ chain.purchase \in over \cup {0}
    /\ purchases < MaxPurchases
    /\ purchases' = purchases + 1
    /\ \E d \in Dest \cup {Empty, Garbled} : chain' = [purchase |-> purchases', dest |-> d]
    /\ Emits("purchased")
    /\ UNCHANGED <<watcherVars, controllerVars, ending>>

CloseEarly ==
    /\ chain.purchase \notin over \cup {0}
    /\ chain' = [purchase |-> 0, dest |-> NoDest]
    /\ Emits("closedEarly")
    /\ UNCHANGED <<watcherVars, controllerVars, purchases, ending>>

UpdateDestination ==
    /\ chain.purchase \notin over \cup {0}
    /\ \E d \in Dest \cup {Empty, Garbled} : chain' = [chain EXCEPT !.dest = d]
    /\ Emits("destUpdated")
    /\ UNCHANGED <<watcherVars, controllerVars, purchases, ending>>

TimePasses ==
    /\ chain.purchase \notin over \cup {0}
    /\ over' = over \cup {chain.purchase}
    /\ UNCHANGED <<channelVars, terms, run, held, minerVars, panic, overtaken, leaked, controllerVars, chainVars>>

\* the context ends; the offer of a purchase with it
Cancelled ==
    /\ ending' = ending \cup {"ctx"}
    /\ synthetic' = FALSE
    /\ UNCHANGED <<watcherVars, pc, op, loaded, chain, purchases, events>>

\* the log watcher gave up and closed the channel the purchase is offered to
SubscriptionEnds ==
    /\ ending' = ending \cup {"sub"}
    /\ panic' = IF synthetic THEN "send on closed sink" ELSE panic
    /\ UNCHANGED <<channelVars, terms, run, held, minerVars, over, overtaken, leaked, controllerVars>>
    /\ UNCHANGED <<chain, purchases, events>>

Environment == Purchase \/ CloseEarly \/ UpdateDestination \/ TimePasses \/ Cancelled \/ SubscriptionEnds

WatcherStep == (\E r \in Run : RunStep(r) \/ Wedge(r)) \/ TaskEnds \/ TakeNilTask

Next ==
    /\ panic = "none"
    /\ \/ Controller
       \/ WatcherStep /\ UNCHANGED <<controllerVars, chainVars>>
       \/ Environment

Spec == Init /\ [][Next]_vars

\* Timers fire, calls of the node return, and a select that keeps finding its
\* stop channel closed or its contract over takes that branch in the end. A run
\* that is wedged takes no step. Less than each run's own fairness is enough.
FairSpec ==
    /\ Spec
    /\ WF_vars(Next /\ Controller)
    /\ WF_vars(Next /\ \E r \in Run : RunStep(r))
    /\ SF_vars(Next /\ \E r \in Run : EndOrStop(r))

--------------------------------------------------------------------------------
\* Properties

\* Every variable keeps the shape its declaration in the code gives it.
TypeOK ==
    /\ WatcherTypeOK
    /\ pc \in {"select", "purchase", "start", "destination", "check", "stop", "wait", "set", "load", "done"}
    /\ op \in {"none", "close", "restart", "halt", "exit"}
    /\ loaded \in Terms \cup {NilTerms}
    /\ chain \in Terms /\ purchases \in 0 .. MaxPurchases
    /\ events \in Seq(Event)
    /\ synthetic \in BOOLEAN
    /\ ending \subseteq {"sub", "ctx"}

\* Unless the flag is used in the window, a contract has one run at a time.
OneRun == ~ overtaken => \A q, r \in Alive : q = r

\* Unless the flag is used in the window, it is set while a run is alive, so
\* that a stop reaches it and a purchase does not start another.
FlagIsRight == ~ overtaken => (Alive # {} => isRunning)

\* Unless the flag is used in the window, no channel is closed twice, in
\* whatever order the run ends, is stopped, restarted and reset.
ClosedOnce == ~ overtaken => panic \notin {"close of closed stopCh", "close of closed doneCh"}

\* Unless the flag is used in the window, terms change only between runs.
TermsFixedWhileRunning == [][terms' # terms => Alive = {} \/ overtaken']_vars

\* Unless the flag is used in the window, miners only ever work for a purchased
\* contract, and for the destination of its pool data: never for one that could
\* not be decrypted, or with terms that were loaded without one. A purchase that
\* has no pool data is served with a nil destination (terms.go:83).
ServesThePurchase == ~ overtaken => \A t \in serving : t.purchase # 0 /\ t.dest \in Dest \cup {Empty}

\* A contract has one run at a time, the flag says so, and the run works for a
\* purchase whose destination was loaded with it.
OneRunServes == OneRun /\ FlagIsRight /\ ServesThePurchase

\* Unless the flag is used in the window, or a run left at the head of a cycle,
\* no full miner works for the contract when its run is over.
MinersReleased == ~ overtaken /\ ~ leaked /\ Alive = {} => serving = {}

\* Unless the flag is used in the window, a handler that stops the watcher gets
\* past Done, although the contract's time may be far from over; the only other
\* way to wait for ever is a run that waits for a miner's list for ever.
WaitEnds == pc = "wait" ~> pc # "wait" \/ panic # "none" \/ overtaken \/ Wedged

================================================================================
