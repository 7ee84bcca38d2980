--------------------------- MODULE FuturesValidator ---------------------------
(***************************************************************************)
(* A futures contract during one delivery range on the node of the         *)
(* validator: its controller, hr/contract/controller_futures_buyer.go,     *)
(* which judges the delivery with the watcher of the buyer and closes a    *)
(* delivery that failed, and contractmanager/futures_manager_validator.go, *)
(* which waits for the watcher to start, and then stops a contract whose   *)
(* position was closed, by this node or by others.                         *)
(*                                                                         *)
(* A position belongs to one range, so its terms are those of purchase 1.  *)
(***************************************************************************)
EXTENDS BuyerWatcher

VARIABLES
    pc,              \* where the controller's Run is
    mpc,             \* where the manager is
    armed,           \* the timer of the delivery date has not fired
    exitCh,          \* the controller's own stopCh, closed when Run returns
    listed,          \* the contract is in the collection
    positionClosed,  \* "no", "event" while it is not handled, "handled"
    ctxDone          \* the delivery range or the program is over

futuresVars == <<pc, mpc, armed, exitCh, listed, positionClosed, ctxDone>>
vars == <<watcherVars, futuresVars>>

\* CreateFuturesContractBuyer, with the terms of the range
CreateFuturesContractBuyer == FreshWatcher /\ terms = 1

Init ==
    /\ CreateFuturesContractBuyer /\ panic = "none" /\ expired = {}
    /\ pc = "select" /\ mpc = "add"
    /\ armed = TRUE
    /\ exitCh = "open"
    /\ listed = TRUE
    /\ positionClosed = "no"
    /\ ctxDone = FALSE

--------------------------------------------------------------------------------
\* ControllerFuturesBuyer.Run

Deliver ==
    /\ pc = "select"
    /\ armed /\ armed' = FALSE
    /\ StartFulfilling
    /\ UNCHANGED <<terms, endTimer, runErr, judged, contractErr, contractErrCh, expired>>
    /\ UNCHANGED <<pc, mpc, exitCh, listed, positionClosed, ctxDone>>

\* the context is done: the watcher ends by itself
Cancel ==
    /\ pc \in {"select", "sleep"}
    /\ ctxDone
    /\ pc' = "exit"
    /\ UNCHANGED <<watcherVars, mpc, armed, exitCh, listed, positionClosed, ctxDone>>

\* mutant: whether the delivery is still to be closed is not asked
EndedAnyhow ==
    /\ pc = "select"
    /\ doneCh = "closed"
    /\ pc' = IF runErr = "failed" THEN "close" ELSE "exit"
    /\ UNCHANGED <<watcherVars, mpc, armed, exitCh, listed, positionClosed, ctxDone>>

Ended ==
    /\ pc = "select"
    /\ doneCh = "closed"
    /\ pc' = IF runErr = "failed" /\ InTime(terms) THEN "close" ELSE "exit"
    /\ UNCHANGED <<watcherVars, mpc, armed, exitCh, listed, positionClosed, ctxDone>>

\* a transaction that was rejected is nil, and is asked for its nonce; one that
\* was reverted counts as mined; and the wait for one that is mined may fail
CloseDelivery ==
    /\ pc = "close"
    /\ \/ pc' = "sleep" /\ UNCHANGED <<positionClosed, panic>>
       \/ panic' = "nil transaction" /\ UNCHANGED <<pc, positionClosed>>
       \/ /\ positionClosed = "no" /\ positionClosed' = "event"
          /\ pc' \in {"exit", "sleep"}
          /\ UNCHANGED panic
       \/ positionClosed # "no" /\ pc' = "exit" /\ UNCHANGED <<positionClosed, panic>>
    /\ UNCHANGED <<state, terms, started, runVars, doneCh, contractErr, contractErrCh, expired>>
    /\ UNCHANGED <<mpc, armed, exitCh, listed, ctxDone>>

\* ten seconds, and the loop again
Sleep ==
    /\ pc = "sleep"
    /\ pc' = "select"
    /\ UNCHANGED <<watcherVars, mpc, armed, exitCh, listed, positionClosed, ctxDone>>

\* the deferred close, then AddContract's goroutine forgets the contract
Exit ==
    /\ pc = "exit"
    /\ exitCh' = "closed"
    /\ listed' = FALSE
    /\ pc' = "done"
    /\ UNCHANGED <<watcherVars, mpc, armed, positionClosed, ctxDone>>

Controller == Deliver \/ Cancel \/ Ended \/ CloseDelivery \/ Sleep \/ Exit

--------------------------------------------------------------------------------
\* The manager

\* AddContract returns, the goroutine of the events begins
Started ==
    /\ mpc = "add" /\ mpc' = "events"
    /\ started
    /\ UNCHANGED <<watcherVars, pc, armed, exitCh, listed, positionClosed, ctxDone>>

\* handlePositionDeliveryClosed, RemoveContract: Stop cancels the watcher
PositionEvent ==
    /\ mpc = "events"
    /\ positionClosed = "event" /\ positionClosed' = "handled"
    /\ IF listed THEN Cancelled /\ mpc' = "stopping" ELSE UNCHANGED <<cancelled, mpc>>
    /\ UNCHANGED <<state, terms, started, run, endTimer, runErr, judged, doneCh, errVars, expired>>
    /\ UNCHANGED <<pc, armed, exitCh, listed, ctxDone>>

\* mutant: Stop does not wait for the watcher nor for Run
StoppedAtOnce ==
    /\ mpc = "stopping" /\ mpc' = "wait"
    /\ listed' = FALSE
    /\ UNCHANGED <<watcherVars, pc, armed, exitCh, positionClosed, ctxDone>>

Stopped ==
    /\ mpc = "stopping" /\ mpc' = "wait"
    /\ doneCh = "closed"
    /\ UNCHANGED <<watcherVars, pc, armed, exitCh, listed, positionClosed, ctxDone>>

Remove ==
    /\ mpc = "wait" /\ mpc' = "events"
    /\ exitCh = "closed"
    /\ listed' = FALSE
    /\ UNCHANGED <<watcherVars, pc, armed, exitCh, positionClosed, ctxDone>>

LeaveRange ==
    /\ mpc = "events" /\ mpc' = "done"
    /\ ctxDone
    /\ UNCHANGED <<watcherVars, pc, armed, exitCh, listed, positionClosed, ctxDone>>

Manager == Started \/ PositionEvent \/ Stopped \/ Remove \/ LeaveRange

--------------------------------------------------------------------------------
\* the position is closed by its buyer, its seller or another validator
ClosePosition ==
    /\ positionClosed = "no" /\ positionClosed' = "event"
    /\ UNCHANGED <<watcherVars, pc, mpc, armed, exitCh, listed, ctxDone>>

\* the end of the range, once its timer runs, or of the program
RangeEnds ==
    /\ ctxDone' = TRUE
    /\ UNCHANGED <<watcherVars, pc, mpc, armed, exitCh, listed, positionClosed>>

TimePasses ==
    /\ expired' = {1}
    /\ UNCHANGED <<state, terms, started, runVars, doneCh, errVars, futuresVars>>

ContextEnds ==
    /\ ctxDone /\ started /\ ~ cancelled /\ cancelled' = TRUE
    /\ UNCHANGED <<state, terms, started, run, endTimer, runErr, judged, doneCh, errVars, expired>>
    /\ UNCHANGED futuresVars

MinerReports == listed /\ SetError /\ UNCHANGED futuresVars

Watcher == RunStep /\ UNCHANGED futuresVars

Next ==
    /\ panic = "none"
    /\ \/ Controller \/ Manager \/ Watcher \/ ContextEnds
       \/ ClosePosition \/ RangeEnds \/ TimePasses \/ MinerReports

Spec == Init /\ [][Next]_vars

--------------------------------------------------------------------------------
\* A contract that is no longer listed, be it over or removed, has no watcher that
\* still judges it and may close its delivery; unless the range or the program
\* ended, which cancels the watcher (contractmanager/futures_manager_validator.go:185).
ForgottenIsOver == ~ listed /\ ~ ctxDone => ~ Alive /\ pc \notin {"select", "close", "sleep"}

================================================================================
