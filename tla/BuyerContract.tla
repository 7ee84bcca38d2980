----------------------------- MODULE BuyerContract -----------------------------
(***************************************************************************)
(* A contract that this node bought: the contract manager that creates a   *)
(* controller for it (contractmanager/contract_manager.go), the controller *)
(* (hr/contract/controller_buyer.go) with its watcher, and the chain they  *)
(* read, which the controller writes to with EarlyClose                    *)
(* (repositories/contracts/hashrate_ethereum.go).                          *)
(*                                                                         *)
(* The manager and the controller have subscriptions of their own, so that *)
(* each sees the events in order and neither knows what the other saw.     *)
(* The chain's seller, its clock and the node are free.  When the          *)
(* subscription of the controller fails the model ends.                    *)
(***************************************************************************)
EXTENDS BuyerWatcher, Sequences

CONSTANT MaxEvents      \* bound: events that wait in a subscription

ASSUME EventsAssumption == MaxEvents \in Nat \ {0}

VARIABLES
    \* the controller
    pc,         \* none: no controller is listed
    events,     \* its subscription
    \* the manager
    mpc,
    found,      \* the terms it asked for; 0 when the contract is not ours
    mevents,    \* its subscription
    \* the chain
    chain,      \* the purchase that holds the contract, 0 if none
    purchases,  \* how often it was purchased
    ctxDone,
    \* history
    lost,       \* a purchase got no controller of its own
    cleared,    \* an error was taken back before the watcher heard of it
    orphaned    \* the controller returned without its watcher

controlVars == <<pc, events>>
managerVars == <<mpc, found, mevents>>
chainVars == <<chain, purchases, ctxDone>>
historyVars == <<lost, cleared, orphaned>>
vars == <<watcherVars, controlVars, managerVars, chainVars, historyVars>>

Init ==
    /\ FreshWatcher /\ terms = 0 /\ panic = "none" /\ expired = {}
    /\ pc = "none" /\ events = <<>>
    /\ mpc = "list" /\ found = 0 /\ mevents = <<>>
    /\ purchases \in {0, 1} /\ chain = purchases
    /\ ctxDone = FALSE
    /\ lost = FALSE /\ cleared = FALSE /\ orphaned = FALSE

Listed == pc # "none"

Subscribed == pc \notin {"none", "created", "returned"}

--------------------------------------------------------------------------------
\* The manager

ManagerFrame == <<watcherVars, events, chain, purchases, cleared, orphaned>>

\* the terms of the contract that exists at the start, or that was purchased;
\* without an answer Run returns and the program stops
Fetch ==
    /\ \/ mpc = "list" /\ UNCHANGED mevents
       \/ mpc = "select" /\ mevents # <<>> /\ mevents' = Tail(mevents)
    /\ \/ /\ found' = IF InTime(chain) THEN chain ELSE 0
          /\ mpc' = IF mpc = "list" THEN "addListed" ELSE "addPurchased"
          /\ UNCHANGED ctxDone
       \/ mpc' = "wait" /\ ctxDone' = TRUE /\ UNCHANGED found
    /\ UNCHANGED <<ManagerFrame, pc, lost>>

\* CreateContract for the buyer or the validator: a destination that cannot be
\* decrypted is an error that the watcher keeps, without closing its channel
CreateContract(n) == NewWatcher(n) /\ contractErr' \in {"nil", "set"}

\* mutant: a contract that is listed already is added again
AddContractTwice ==
    IF found = 0 THEN UNCHANGED <<pc, state, terms, started, runVars, doneCh, contractErr, contractErrCh, lost>>
    ELSE CreateContract(found) /\ pc' = "created" /\ UNCHANGED lost

\* AddContract: nothing for a contract that is listed
AddContract ==
    IF found = 0 THEN UNCHANGED <<pc, state, terms, started, runVars, doneCh, contractErr, contractErrCh, lost>>
    ELSE IF Listed
      THEN /\ lost' = TRUE
           /\ UNCHANGED <<pc, state, terms, started, runVars, doneCh, contractErr, contractErrCh>>
      ELSE CreateContract(found) /\ pc' = "created" /\ UNCHANGED lost

Add ==
    /\ mpc \in {"addListed", "addPurchased"}
    /\ AddContract
    /\ mpc' = IF mpc = "addListed" THEN "subscribe" ELSE "select"
    /\ found' = 0
    /\ UNCHANGED <<panic, expired, events, mevents, chainVars, cleared, orphaned>>

\* CreateCloneFactorySubscription, after the contracts were listed
SubscribeFactory ==
    /\ mpc = "subscribe" /\ mpc' = "select"
    /\ UNCHANGED <<ManagerFrame, pc, found, mevents, ctxDone, lost>>

\* Run returns for the context or the end of its subscription, which stops the
\* program, and waits for the contracts
ManagerLeaves ==
    /\ \/ mpc = "select" /\ mpc' = "wait" /\ ctxDone' = TRUE
       \/ mpc = "wait" /\ ~ Listed /\ mpc' = "done" /\ UNCHANGED ctxDone
    /\ UNCHANGED <<ManagerFrame, pc, found, mevents, lost>>

Manager == Fetch \/ Add \/ SubscribeFactory \/ ManagerLeaves

--------------------------------------------------------------------------------
\* The controller

controllerFrame == <<managerVars, lost, orphaned>>

\* Run: the subscription, and the watcher
Subscribe ==
    /\ pc = "created" /\ pc' = "select"
    /\ StartFulfilling
    /\ events' = <<>>
    /\ UNCHANGED <<terms, endTimer, runErr, judged, contractErr, contractErrCh, expired, chainVars, cleared>>

\* contractErr.Store(nil), after every event that was handled well
StoreNil ==
    /\ contractErr' = "nil"
    /\ cleared' = (cleared \/ contractErrCh = "closed")

Receives(e) == pc = "select" /\ events # <<>> /\ e = Head(events) /\ events' = Tail(events)

\* handleContractPurchased asks for the terms
Purchased ==
    /\ Receives("purchased")
    /\ pc' = "load"
    /\ UNCHANGED <<watcherVars, chainVars, cleared>>

\* LoadTermsFromBlockchain; terms whose destination cannot be read are kept
LoadTerms ==
    /\ pc = "load" /\ pc' = "select"
    /\ \/ terms' = (IF InTime(chain) THEN chain ELSE 0) /\ StoreNil
       \/ terms' = (IF InTime(chain) THEN chain ELSE 0) /\ contractErr' = "set" /\ UNCHANGED cleared
       \/ contractErr' = "set" /\ UNCHANGED <<terms, cleared>>
    /\ UNCHANGED <<state, started, runVars, doneCh, contractErrCh, panic, expired, events, chainVars>>

\* mutant: the controller ends with the close-out and does not wait
ClosedEarlyNoWait ==
    /\ Receives("closedEarly")
    /\ terms' = 0
    /\ Cancelled /\ pc' = "returned"
    /\ UNCHANGED <<state, started, run, endTimer, runErr, judged, doneCh, errVars, expired>>
    /\ UNCHANGED <<chainVars, cleared>>

\* handleClosedEarly
ClosedEarly ==
    /\ Receives("closedEarly")
    /\ terms' = 0
    /\ IF state = "running"
         THEN /\ Cancelled /\ pc' = "stopping" /\ UNCHANGED <<contractErr, cleared>>
         ELSE /\ StoreNil /\ pc' = "select" /\ UNCHANGED cancelled
    /\ UNCHANGED <<state, started, run, endTimer, runErr, judged, doneCh, contractErrCh, panic, expired>>
    /\ UNCHANGED chainVars

\* StopFulfilling is done
Stopped ==
    /\ pc = "stopping" /\ doneCh = "closed"
    /\ StoreNil /\ pc' = "select"
    /\ UNCHANGED <<state, terms, started, runVars, doneCh, contractErrCh, panic, expired, events, chainVars>>

\* mutant: whether the contract still runs is not asked
MustCloseAnyhow == runErr \notin {"none", "canceled"}

MustClose == runErr \notin {"none", "canceled"} /\ InTime(terms)

\* <-Done()
WatcherDone ==
    /\ pc = "select" /\ doneCh = "closed"
    /\ pc' = IF MustClose THEN "close" ELSE "returned"
    /\ UNCHANGED <<watcherVars, events, chainVars, cleared>>

Emit(e) == Len(events) < MaxEvents /\ events' = Append(events, e)

\* EarlyClose: the transaction may be mined although the call fails, and one that
\* was reverted, as the contract had ended, counts as mined
EarlyClose ==
    /\ pc = "close"
    /\ \/ /\ InTime(chain)
          /\ chain' = 0
          /\ Emit("closedEarly")
          /\ pc' \in {"returned", "sleep"}
       \/ ~ InTime(chain) /\ pc' = "returned" /\ UNCHANGED <<chain, events>>
       \/ pc' = "sleep" /\ UNCHANGED <<chain, events>>
    /\ UNCHANGED <<watcherVars, purchases, ctxDone, cleared>>

\* mutant: a close that failed is not tried again
GiveUp ==
    /\ pc = "sleep" /\ pc' = "returned"
    /\ UNCHANGED <<watcherVars, events, chainVars, cleared>>

\* ten seconds, and the loop again
Sleep ==
    /\ pc = "sleep"
    /\ pc' = "select" \/ (ctxDone /\ pc' = "returned")
    /\ UNCHANGED <<watcherVars, events, chainVars, cleared>>

\* Run's branch for the context
Leave ==
    /\ pc = "select" /\ ctxDone /\ pc' = "returned"
    /\ UNCHANGED <<watcherVars, events, chainVars, cleared>>

\* the goroutine of AddContract deletes it from the collection; what a watcher
\* that is over leaves behind is garbage
Deleted ==
    /\ pc = "returned" /\ pc' = "none"
    /\ events' = <<>>
    /\ IF Alive \/ run = "clear" THEN UNCHANGED watcherVars
       ELSE Forgotten /\ UNCHANGED <<panic, expired>>
    /\ UNCHANGED <<chainVars, cleared>>

Controller ==
    /\ \/ Subscribe \/ Purchased \/ LoadTerms \/ ClosedEarly \/ Stopped \/ WatcherDone
       \/ EarlyClose \/ Sleep \/ Leave \/ Deleted
    /\ UNCHANGED controllerFrame

\* the subscription ended: Run returns and its watcher runs on
SubscriptionFails ==
    /\ pc = "select" /\ pc' = "returned"
    /\ orphaned' = TRUE
    /\ UNCHANGED <<watcherVars, events, managerVars, chainVars, lost, cleared>>

--------------------------------------------------------------------------------
\* The chain, the clock, the miners and the program

Heard(e) == IF Subscribed THEN Emit(e) ELSE UNCHANGED events

Buy ==
    /\ ~ ctxDone /\ ~ InTime(chain) /\ purchases < MaxPurchases
    /\ purchases' = purchases + 1 /\ chain' = purchases'
    /\ Heard("purchased")
    /\ IF mpc \in {"select", "addPurchased"}
         THEN Len(mevents) < MaxEvents /\ mevents' = Append(mevents, "purchased") /\ UNCHANGED lost
         ELSE lost' = TRUE /\ UNCHANGED mevents
    /\ UNCHANGED <<watcherVars, pc, mpc, found, ctxDone, cleared, orphaned>>

SellerCloses ==
    /\ InTime(chain)
    /\ chain' = 0
    /\ Heard("closedEarly")
    /\ lost' = (lost \/ mpc \in {"addListed", "addPurchased"} \/ pc = "created")
    /\ UNCHANGED <<watcherVars, pc, managerVars, purchases, ctxDone, cleared, orphaned>>

TimePasses ==
    /\ InTime(chain)
    /\ expired' = expired \cup {chain}
    /\ UNCHANGED <<state, terms, started, runVars, doneCh, errVars, controlVars, managerVars, chainVars, historyVars>>

\* purchases that nobody holds any more end as well
TermPasses ==
    /\ InTime(terms) /\ terms # chain
    /\ expired' = expired \cup {terms}
    /\ UNCHANGED <<state, terms, started, runVars, doneCh, errVars, controlVars, managerVars, chainVars, historyVars>>

MinerReports ==
    /\ Listed /\ SetError
    /\ UNCHANGED <<controlVars, managerVars, chainVars, historyVars>>

Shutdown ==
    /\ ~ ctxDone /\ ctxDone' = TRUE
    /\ UNCHANGED <<watcherVars, controlVars, managerVars, chain, purchases, historyVars>>

\* the context of the watcher is a child of the program's
ContextEnds ==
    /\ ctxDone /\ started /\ ~ cancelled /\ cancelled' = TRUE
    /\ UNCHANGED <<state, terms, started, run, endTimer, runErr, judged, doneCh, errVars, expired>>
    /\ UNCHANGED <<controlVars, managerVars, chainVars, historyVars>>

Clock == TimePasses \/ TermPasses

Watcher == RunStep /\ UNCHANGED <<controlVars, managerVars, chainVars, historyVars>>

Next ==
    /\ panic = "none" /\ ~ orphaned
    /\ \/ Manager \/ Controller \/ Watcher \/ ContextEnds \/ SubscriptionFails
       \/ Buy \/ SellerCloses \/ Clock \/ MinerReports \/ Shutdown

Spec == Init /\ [][Next]_vars

\* Goroutines are scheduled, calls of the node return, contracts end in time.
FairSpec ==
    /\ Spec
    /\ WF_vars(Next /\ Manager) /\ WF_vars(Next /\ Controller)
    /\ WF_vars(Next /\ (Watcher \/ ContextEnds)) /\ WF_vars(Next /\ Clock)

--------------------------------------------------------------------------------
\* Every variable keeps the shape its declaration in the code gives it.
TypeOK ==
    /\ WatcherTypeOK
    /\ pc \in {"none", "created", "select", "load", "stopping", "close", "sleep", "returned"}
    /\ mpc \in {"list", "addListed", "subscribe", "select", "addPurchased", "wait", "done"}
    /\ found \in Purchase /\ chain \in Purchase /\ purchases \in Purchase
    /\ events \in Seq({"purchased", "closedEarly"}) /\ mevents \in Seq({"purchased"})
    /\ lost \in BOOLEAN /\ cleared \in BOOLEAN /\ orphaned \in BOOLEAN /\ ctxDone \in BOOLEAN

\* SetError, called by any number of disconnecting miners while the controller
\* handles events, closes the error channel once (hr/contract/contract_buyer.go:300),
\* unless an event took the error back before the watcher read it.
ErrorClosedOnce == ~ cleared => panic = "none"

\* A contract that is no longer listed has no watcher that still judges it, so
\* that the next purchase may get a new one (contractmanager/contract_manager.go:148);
\* unless the subscription failed or the program ends.
ForgottenIsOver == ~ Listed /\ ~ ctxDone => ~ Alive

\* Every watcher is a listed contract's.
WatchersAreKnown == TypeOK /\ ForgottenIsOver

Idle == mpc = "select" /\ mevents = <<>> /\ pc \in {"none", "select"} /\ (pc = "select" => events = <<>>)

\* When everybody has handled all events, a purchase whose time is not over is
\* being watched, or its controller is about to close it; unless it came while
\* the contract was still listed, before the manager had subscribed, or the
\* contract was closed while its controller was being made
\* (contractmanager/contract_manager.go:136).
PurchaseIsWatched ==
    Idle /\ InTime(chain) /\ ~ lost /\ ~ ctxDone /\ ~ orphaned /\ panic = "none"
      => pc = "select" /\ terms = chain /\ (Alive \/ MustClose \/ doneCh = "closed")

\* A controller ends with its contract, although the close it retries may fail
\* every time (hr/contract/controller_buyer.go:94) and a close-out waits for the watcher,
\* so that the manager can wait for it.
ControllerEnds == Listed ~> ~ Listed \/ panic # "none" \/ orphaned

\* hr/contract/controller_buyer.go:71: the buyer closes the contract for
\* "underdelivery or destination unreachable", which is about the purchase that
\* its watcher judged.
ClosesWhatFailed ==
    [][pc = "close" /\ pc' # "close" /\ chain # chain' => chain = judged]_vars

================================================================================
