----------------------------- MODULE FuturesSeller -----------------------------
(***************************************************************************)
(* A sold futures contract during one delivery range: its controller,      *)
(* hr/contract/controller_futures_seller.go, which starts the watcher once *)
(* and returns when it is over, and the goroutine of                       *)
(* contractmanager/futures_manager_seller.go that handles the range's      *)
(* events and stops a contract whose position was closed.                  *)
(***************************************************************************)
EXTENDS SellerWatcher

VARIABLES
    pc,              \* where the controller's Run is
    mpc,             \* where the goroutine of the events is
    armed,           \* the timer of the delivery date has not fired
    exitCh,          \* the controller's own stopCh, closed when Run returns
    listed,          \* the contract is in the collection
    positionClosed,  \* "no", "event" while it is not handled, "handled"
    ctxDone          \* the delivery range or the program is over

futuresVars == <<pc, mpc, armed, exitCh, listed, positionClosed, ctxDone>>
vars == <<watcherVars, futuresVars>>

\* createTerms: a destination that cannot be parsed makes no contract
FuturesTerms == [purchase : {1}, dest : Dest]

CreateFuturesContractSeller == InitWatcher /\ terms \in FuturesTerms

Init ==
    /\ CreateFuturesContractSeller
    /\ over = {}
    /\ pc = "select" /\ mpc = "events"
    /\ armed = TRUE
    /\ exitCh = "open"
    /\ listed = TRUE
    /\ positionClosed = "no"
    /\ ctxDone = FALSE

--------------------------------------------------------------------------------
\* ControllerFuturesSeller.Run

Deliver ==
    /\ pc = "select"
    /\ armed /\ armed' = FALSE
    /\ StartFulfilling
    /\ UsesFlag
    /\ UNCHANGED <<pc, mpc, exitCh, listed, positionClosed, ctxDone>>

\* the context is done: IsRunning
Cancel ==
    /\ pc = "select"
    /\ ctxDone
    /\ pc' = IF isRunning THEN "stop" ELSE "exit"
    /\ UsesFlag
    /\ UNCHANGED <<channelVars, terms, run, held, minerVars, panic, over, leaked>>
    /\ UNCHANGED <<mpc, armed, exitCh, listed, positionClosed, ctxDone>>

StopWatcher ==
    /\ pc = "stop"
    /\ StopFulfilling
    /\ UsesFlag
    /\ pc' = "wait"
    /\ UNCHANGED <<mpc, armed, exitCh, listed, positionClosed, ctxDone>>

\* mutant: Run returns without waiting for the run it stopped
WaitNot ==
    /\ pc = "wait"
    /\ pc' = "exit"
    /\ UNCHANGED <<watcherVars, mpc, armed, exitCh, listed, positionClosed, ctxDone>>

Wait ==
    /\ pc = "wait"
    /\ doneCh = "closed"
    /\ pc' = "exit"
    /\ UNCHANGED <<watcherVars, mpc, armed, exitCh, listed, positionClosed, ctxDone>>

\* the run is over: Reset and return
Ended ==
    /\ pc = "select"
    /\ doneCh = "closed"
    /\ Reset
    /\ pc' = "exit"
    /\ UNCHANGED <<terms, run, serving, panic, over, overtaken, leaked>>
    /\ UNCHANGED <<mpc, armed, exitCh, listed, positionClosed, ctxDone>>

\* the deferred close, then AddContract's goroutine forgets the contract
Exit ==
    /\ pc = "exit"
    /\ exitCh' = "closed"
    /\ listed' = FALSE
    /\ pc' = "done"
    /\ UNCHANGED <<watcherVars, mpc, armed, positionClosed, ctxDone>>

Controller == Deliver \/ Cancel \/ StopWatcher \/ Wait \/ Ended \/ Exit

--------------------------------------------------------------------------------
\* handlePositionDeliveryClosed and RemoveContract; the position may not be
\* read, and a contract that is over is no longer listed

PositionEvent ==
    /\ mpc = "events"
    /\ positionClosed = "event" /\ positionClosed' = "handled"
    /\ \/ mpc' = "events"
       \/ listed /\ mpc' = "stop"
    /\ UNCHANGED <<watcherVars, pc, armed, exitCh, listed, ctxDone>>

\* Stop of the controller
StopContract ==
    /\ mpc = "stop"
    /\ StopFulfilling
    /\ UsesFlag
    /\ mpc' = "wait"
    /\ UNCHANGED <<pc, armed, exitCh, listed, positionClosed, ctxDone>>

\* mutant: the contract is forgotten while it is still running
RemoveAtOnce ==
    /\ mpc = "wait"
    /\ listed' = FALSE
    /\ mpc' = "events"
    /\ UNCHANGED <<watcherVars, pc, armed, exitCh, positionClosed, ctxDone>>

Remove ==
    /\ mpc = "wait"
    /\ exitCh = "closed"
    /\ listed' = FALSE
    /\ mpc' = "events"
    /\ UNCHANGED <<watcherVars, pc, armed, exitCh, positionClosed, ctxDone>>

\* the goroutine of the events sees the end of the range
LeaveRange ==
    /\ mpc = "events"
    /\ ctxDone
    /\ mpc' = "done"
    /\ UNCHANGED <<watcherVars, pc, armed, exitCh, listed, positionClosed, ctxDone>>

Manager == PositionEvent \/ StopContract \/ Remove \/ LeaveRange

--------------------------------------------------------------------------------
ClosePosition ==
    /\ positionClosed = "no" /\ positionClosed' = "event"
    /\ UNCHANGED <<watcherVars, pc, mpc, armed, exitCh, listed, ctxDone>>

RangeEnds ==
    /\ ctxDone' = TRUE
    /\ UNCHANGED <<watcherVars, pc, mpc, armed, exitCh, listed, positionClosed>>

TimePasses ==
    /\ over' = over \cup {terms.purchase}
    /\ UNCHANGED <<channelVars, terms, run, held, minerVars, panic, overtaken, leaked, futuresVars>>

Next ==
    /\ panic = "none"
    /\ \/ Controller \/ Manager \/ ClosePosition \/ RangeEnds \/ TimePasses
       \/ ((\E r \in Run : RunStep(r) \/ Wedge(r)) \/ TaskEnds) /\ UNCHANGED futuresVars

Spec == Init /\ [][Next]_vars

--------------------------------------------------------------------------------
\* Properties

\* A contract that is no longer listed, be it over, cancelled or removed, has no
\* run that still serves it: the next range may list it again.
ForgottenIsOver == ~ listed /\ panic = "none" => Alive = {}

================================================================================
