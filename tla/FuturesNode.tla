------------------------------ MODULE FuturesNode ------------------------------
(***************************************************************************)
(* A node during a delivery range of the futures, as a seller's node or as *)
(* the validator's: the controller and the manager of its role take their  *)
(* steps on the state of FuturesState.                                     *)
(***************************************************************************)
EXTENDS FuturesState

vars == <<rangeVars, watcherVars, validatorVars>>

\* the node of the other role has no contract
Init ==
    \/ /\ role = "seller" /\ Seller!Init
       /\ Validator!FreshWatcher /\ vTerms = 0 /\ vPanic = "none" /\ vExpired = {}
    \/ /\ role = "validator" /\ Validator!Init
       /\ Seller!InitWatcher /\ terms = [purchase |-> 0, dest |-> NoDest] /\ over = {}

AsSeller == role = "seller" /\ Seller!Next /\ UNCHANGED <<role, validatorVars>>

AsValidator == role = "validator" /\ Validator!Next /\ UNCHANGED <<role, watcherVars>>

Next == AsSeller \/ AsValidator

Spec == Init /\ [][Next]_vars

\* Goroutines are scheduled, timers fire, a ready case of a select is taken in
\* the end, calls of the node return, and delivery ranges end.
FairSpec ==
    /\ Spec
    /\ WF_vars(AsSeller /\ (Seller!Controller \/ Seller!RangeEnds)) /\ WF_vars(AsSeller /\ Seller!Manager)
    /\ \A r \in Seller!Run : WF_vars(AsSeller /\ Seller!RunStep(r)) /\ SF_vars(AsSeller /\ Seller!EndOrStop(r))
    /\ WF_vars(AsValidator /\ Validator!Controller) /\ SF_vars(AsValidator /\ Validator!Cancel)
    /\ WF_vars(AsValidator /\ Validator!Manager)
    /\ WF_vars(AsValidator /\ (Validator!Watcher \/ Validator!ContextEnds))
    /\ WF_vars(AsValidator /\ Validator!TimePasses)

--------------------------------------------------------------------------------
\* At the end of the range every goroutine of it returns, also one that is in the
\* middle of removing a contract or waits for it (futures_manager_validator.go:181);
\* unless the program crashed, the seller's run waits for a miner's list for ever,
\* or the validator's watcher never started and nothing can end it.
RangeReturns ==
    /\ ctxDone /\ role = "seller" ~> (cpc = "done" /\ mpc = "done") \/ panic # "none" \/ Wedged
    /\ ctxDone /\ role = "validator" /\ vStarted
          ~> (cpc = "done" /\ mpc = "done") \/ vPanic # "none"

\* On the validator's node a position that was closed, by this node or by others,
\* leaves the collection, although Run may be closing it once more
\* (controller_futures_buyer.go:70); unless the program crashed.
ClosedLeaves == role = "validator" /\ vStarted /\ positionClosed # "no" ~> ~ listed \/ vPanic # "none"

\* The end of the range and the end of a position both get through.
EndsAreReached == RangeReturns /\ ClosedLeaves

================================================================================
