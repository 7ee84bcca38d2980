------------------------------ MODULE FuturesState ------------------------------
(***************************************************************************)
(* What the futures manager of a node keeps of a contract during a         *)
(* delivery range: it is either the validator's or a seller's              *)
(* (cmd/main.go), never both.  The two have the places of Run and of the   *)
(* manager, the collection and the range in common, and a watcher each:    *)
(* the seller's in the variables of SellerWatcher, the validator's in      *)
(* those with a v.  FuturesNode says what the node does with it.           *)
(***************************************************************************)
EXTENDS SellerWatcher

VARIABLES
    role,            \* "seller" or "validator"
    cpc,             \* where the controller's Run is
    mpc,             \* where the manager is
    armed,           \* the timer of the delivery date has not fired
    exitCh,          \* closed when Run returns
    listed,          \* the contract is in the collection
    positionClosed,  \* "no", "event" while it is not handled, "handled"
    ctxDone,         \* the delivery range or the program is over
    vState, vTerms, vStarted, vRun, vCancelled, vEndTimer, vDoneCh, vRunErr, vJudged,
    vContractErr, vContractErrCh, vPanic, vExpired

rangeVars == <<role, cpc, mpc, armed, exitCh, listed, positionClosed, ctxDone>>
validatorVars == <<vState, vTerms, vStarted, vRun, vCancelled, vEndTimer, vDoneCh, vRunErr, vJudged,
                   vContractErr, vContractErrCh, vPanic, vExpired>>

Seller == INSTANCE FuturesSeller WITH pc <- cpc

Validator == INSTANCE FuturesValidator WITH pc <- cpc,
    state <- vState, terms <- vTerms, started <- vStarted, run <- vRun, cancelled <- vCancelled,
    endTimer <- vEndTimer, doneCh <- vDoneCh, runErr <- vRunErr, judged <- vJudged,
    contractErr <- vContractErr, contractErrCh <- vContractErrCh, panic <- vPanic, expired <- vExpired

\* A contract that left the collection has nothing that still serves it, or judges
\* it: the next range may list it again (futures_manager_seller.go:174,
\* futures_manager_validator.go:185).
ForgottenIsOver ==
    /\ role = "seller" => Seller!ForgottenIsOver
    /\ role = "validator" => Validator!ForgottenIsOver

================================================================================
