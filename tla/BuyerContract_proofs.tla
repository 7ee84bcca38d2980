------------------------- MODULE BuyerContract_proofs -------------------------
(***************************************************************************)
(* Proofs, for any number of purchases and of waiting events, that the     *)
(* error channel of a bought contract is closed once, that no watcher      *)
(* outlives the listing of its contract, and that a purchase is watched    *)
(* when all events are handled; and, for every chain and every number of   *)
(* attempts, that the log watcher behind its subscriptions delivers in     *)
(* order, never twice, and loses no event but those of the ranges whose    *)
(* query failed and, when it was given no block and its first query        *)
(* failed, those of the blocks mined before its first answer.              *)
(***************************************************************************)
EXTENDS BuyerContract, LogDelivery, SequenceTheorems, TLAPS

\* A channel that is closed is one whose error is stored, and a controller that
\* was just made has a watcher that never ran.
ErrorIsKept ==
    /\ ~ cleared => panic = "none" /\ (contractErrCh = "closed" => contractErr = "set")
    /\ pc = "created" => ~ started /\ run = "none" /\ state = "pending"

\* The watcher of a controller that listens judges, or has said that it is over;
\* it is over before the controller acts on that, returns or is forgotten.
WatcherIsOver ==
    /\ doneCh = "closed" => ~ Alive
    /\ Subscribed => Alive \/ doneCh = "closed"
    /\ pc \in {"close", "sleep"} => doneCh = "closed"
    /\ orphaned => pc = "returned"
    /\ pc \in {"none", "returned"} /\ ~ ctxDone /\ ~ orphaned => ~ Alive

\* The watcher judges the purchase that holds the contract, and nothing waits in
\* the subscription that could change its terms.
JudgesChain ==
    /\ pc \in {"created", "select", "close", "sleep"}
    /\ terms = chain /\ events = <<>> /\ ~ cancelled
    /\ run = "select" => endTimer = chain
    /\ pc # "created" /\ run \notin {"begin", "check", "select"} => runErr = "failed"

\* Somebody knows of the purchase that holds the contract: the manager, which
\* has yet to ask for it, is about to, or has the terms, or a controller.
PurchaseIsKnown ==
    /\ pc \in {"none", "created"} => events = <<>>
    /\ InTime(chain) /\ ~ lost /\ ~ ctxDone /\ ~ orphaned =>
         \/ mpc = "list" \/ mevents # <<>>
         \/ mpc \in {"addListed", "addPurchased"} /\ found = chain
         \/ JudgesChain

IInv ==
    /\ TypeOK
    /\ ErrorIsKept
    /\ WatcherIsOver
    /\ PurchaseIsKnown

--------------------------------------------------------------------------------
\* The parts of TypeOK: the watcher, its errors, the places, the flags, the
\* purchases and the subscriptions.

RunTypeOK ==
    /\ state \in {"pending", "running"} /\ started \in BOOLEAN /\ cancelled \in BOOLEAN
    /\ run \in {"none", "begin", "check", "select", "close", "clear"}
    /\ doneCh \in {"open", "closed"} /\ runErr \in {"none", "failed", "canceled"}

ErrorTypeOK ==
    /\ contractErr \in {"nil", "set"} /\ contractErrCh \in {"open", "closed"}
    /\ panic \in {"none", "close of closed startedCh", "close of closed contractErrCh"}

PlaceTypeOK ==
    /\ pc \in {"none", "created", "select", "load", "stopping", "close", "sleep", "returned"}
    /\ mpc \in {"list", "addListed", "subscribe", "select", "addPurchased", "wait", "done"}

FlagTypeOK ==
    /\ lost \in BOOLEAN /\ cleared \in BOOLEAN /\ orphaned \in BOOLEAN /\ ctxDone \in BOOLEAN

TermsTypeOK ==
    /\ terms \in Purchase /\ endTimer \in Purchase /\ judged \in Purchase
    /\ found \in Purchase /\ chain \in Purchase /\ purchases \in Purchase
    /\ expired \subseteq 1 .. MaxPurchases

QueueTypeOK ==
    /\ events \in Seq({"purchased", "closedEarly"}) /\ mevents \in Seq({"purchased"})

\* TypeOK in parts, so that a step is shown for those it changes.
LEMMA TypeParts ==
  /\ TypeOK <=> RunTypeOK /\ ErrorTypeOK /\ PlaceTypeOK /\ FlagTypeOK /\ TermsTypeOK /\ QueueTypeOK
  /\ TypeOK' <=> (RunTypeOK /\ ErrorTypeOK /\ PlaceTypeOK /\ FlagTypeOK /\ TermsTypeOK /\ QueueTypeOK)'
BY DEF TypeOK, WatcherTypeOK, RunTypeOK, ErrorTypeOK, PlaceTypeOK, FlagTypeOK, TermsTypeOK, QueueTypeOK

\* A purchase in time is not 0, which stands for none.
LEMMA PurchaseFacts ==
  /\ 0 \in Purchase
  /\ \A n \in Purchase : InTime(n) => n \in 1 .. MaxPurchases
BY PurchasesAssumption DEF Purchase, InTime

\* What the two subscriptions hold stays what they hold.
LEMMA QueueFacts ==
  ASSUME NEW S, NEW q \in Seq(S)
  PROVE  /\ q # <<>> => Tail(q) \in Seq(S)
         /\ \A e \in S : Append(q, e) \in Seq(S) /\ Append(q, e) # <<>>
BY AppendProperties, HeadTailProperties

\* Every step keeps the shapes.
LEMMA TypeStep ==
  ASSUME TypeOK, [Next]_vars
  PROVE  TypeOK'
<1>1. RunTypeOK /\ ErrorTypeOK /\ PlaceTypeOK /\ FlagTypeOK /\ TermsTypeOK /\ QueueTypeOK
  BY TypeParts
<1>2. Buy => chain' \in Purchase /\ purchases' \in Purchase
  BY <1>1, PurchasesAssumption DEF Buy, TermsTypeOK, Purchase
<1>3. \A n \in Purchase : InTime(n) => n \in 1 .. MaxPurchases
  BY PurchaseFacts
<1>4. /\ events # <<>> => Tail(events) \in Seq({"purchased", "closedEarly"})
      /\ \A e \in {"purchased", "closedEarly"} : Append(events, e) \in Seq({"purchased", "closedEarly"})
  BY <1>1, QueueFacts DEF QueueTypeOK
<1>5. /\ mevents # <<>> => Tail(mevents) \in Seq({"purchased"})
      /\ Append(mevents, "purchased") \in Seq({"purchased"})
  BY <1>1, QueueFacts DEF QueueTypeOK
<1>6. <<>> \in Seq({"purchased", "closedEarly"})
  OBVIOUS
<1> USE DEF Next, Manager, Controller, Watcher, Clock, RunStep, vars, watcherVars, runVars, errVars,
      controlVars, managerVars, chainVars, historyVars, ManagerFrame, controllerFrame, Fetch, Add, AddContract,
      CreateContract, NewWatcher, SubscribeFactory, ManagerLeaves, Subscribe, StartFulfilling, Purchased, Receives,
      LoadTerms, StoreNil, ClosedEarly, Cancelled, Stopped, WatcherDone, EarlyClose, Emit, Sleep, Leave, Deleted,
      Forgotten, Begin, Check, Select, CloseDone, Clear, Returns, ContextEnds, SubscriptionFails, Buy, Heard,
      SellerCloses, TimePasses, TermPasses, MinerReports, SetError, Shutdown
<1>7. RunTypeOK'
  BY <1>1 DEF RunTypeOK
<1>8. ErrorTypeOK'
  BY <1>1 DEF ErrorTypeOK
<1>9. PlaceTypeOK'
  BY <1>1 DEF PlaceTypeOK
<1>10. FlagTypeOK'
  BY <1>1 DEF FlagTypeOK
<1>11. TermsTypeOK'
  <2> USE <1>1, PurchaseFacts DEF TermsTypeOK
  <2>1. terms' \in Purchase
    OBVIOUS
  <2>2. endTimer' \in Purchase /\ judged' \in Purchase
    OBVIOUS
  <2>3. found' \in Purchase
    OBVIOUS
  <2>4. chain' \in Purchase /\ purchases' \in Purchase
    BY <1>2
  <2>5. expired' \subseteq 1 .. MaxPurchases
    BY <1>3
  <2> QED
    BY <2>1, <2>2, <2>3, <2>4, <2>5
<1>12. QueueTypeOK'
  <2> USE <1>1 DEF QueueTypeOK
  <2>1. events' \in Seq({"purchased", "closedEarly"})
    BY <1>4, <1>6
  <2>2. mevents' \in Seq({"purchased"})
    BY <1>5
  <2> QED
    BY <2>1, <2>2
<1> QED
  BY <1>7, <1>8, <1>9, <1>10, <1>11, <1>12, TypeParts

\* What each step does to the error of the watcher and to one that never ran.
LEMMA ErrorStep ==
  ASSUME TypeOK, ErrorIsKept, [Next]_vars
  PROVE  ErrorIsKept'
<1> USE DEF ErrorIsKept, Listed,
      vars, watcherVars, runVars, errVars, controlVars, managerVars, chainVars, historyVars, ManagerFrame, controllerFrame
<1>1. CASE Fetch
  BY <1>1 DEF Fetch
<1>2. CASE Add
  BY <1>2 DEF Add, AddContract, CreateContract, NewWatcher
<1>3. CASE SubscribeFactory
  BY <1>3 DEF SubscribeFactory
<1>4. CASE ManagerLeaves
  BY <1>4 DEF ManagerLeaves
<1>5. CASE Subscribe /\ UNCHANGED controllerFrame
  BY <1>5 DEF Subscribe, StartFulfilling
<1>6. CASE Purchased /\ UNCHANGED controllerFrame
  BY <1>6 DEF Purchased, Receives
<1>7. CASE LoadTerms /\ UNCHANGED controllerFrame
  BY <1>7 DEF LoadTerms, StoreNil
<1>8. CASE ClosedEarly /\ UNCHANGED controllerFrame
  BY <1>8 DEF ClosedEarly, Receives, Cancelled, StoreNil
<1>9. CASE Stopped /\ UNCHANGED controllerFrame
  BY <1>9 DEF Stopped, StoreNil
<1>10. CASE WatcherDone /\ UNCHANGED controllerFrame
  BY <1>10 DEF WatcherDone, MustClose
<1>11. CASE EarlyClose /\ UNCHANGED controllerFrame
  BY <1>11 DEF EarlyClose, Emit
<1>12. CASE Sleep /\ UNCHANGED controllerFrame
  BY <1>12 DEF Sleep
<1>13. CASE Leave /\ UNCHANGED controllerFrame
  BY <1>13 DEF Leave
<1>14. CASE Deleted /\ UNCHANGED controllerFrame
  BY <1>14 DEF Deleted, Forgotten
<1>15. CASE Begin /\ UNCHANGED <<terms, started, contractErr, panic, expired>>
            /\ UNCHANGED <<controlVars, managerVars, chainVars, historyVars>>
  BY <1>15 DEF Begin, Returns
<1>16. CASE Check /\ UNCHANGED <<terms, started, contractErr, panic, expired>>
            /\ UNCHANGED <<controlVars, managerVars, chainVars, historyVars>>
  BY <1>16 DEF Check, Returns
<1>17. CASE Select /\ UNCHANGED <<terms, started, contractErr, panic, expired>>
            /\ UNCHANGED <<controlVars, managerVars, chainVars, historyVars>>
  BY <1>17 DEF Select, Returns
<1>18. CASE CloseDone /\ UNCHANGED <<terms, started, contractErr, panic, expired>>
            /\ UNCHANGED <<controlVars, managerVars, chainVars, historyVars>>
  BY <1>18 DEF CloseDone
<1>19. CASE Clear /\ UNCHANGED <<terms, started, contractErr, panic, expired>>
            /\ UNCHANGED <<controlVars, managerVars, chainVars, historyVars>>
  BY <1>19 DEF Clear
<1>20. CASE ContextEnds
  BY <1>20 DEF ContextEnds
<1>21. CASE SubscriptionFails
  BY <1>21 DEF SubscriptionFails
<1>22. CASE Buy
  BY <1>22 DEF Buy, Heard, Emit
<1>23. CASE SellerCloses
  BY <1>23 DEF SellerCloses, Heard, Emit
<1>24. CASE TimePasses
  BY <1>24 DEF TimePasses
<1>25. CASE TermPasses
  BY <1>25 DEF TermPasses
<1>26. CASE MinerReports
  BY <1>26 DEF MinerReports, SetError, TypeOK, WatcherTypeOK
<1>27. CASE Shutdown
  BY <1>27 DEF Shutdown
<1>28. CASE UNCHANGED vars
  BY <1>28
<1> QED
  BY <1>1, <1>2, <1>3, <1>4, <1>5, <1>6, <1>7, <1>8, <1>9, <1>10, <1>11, <1>12, <1>13, <1>14, <1>15, <1>16, <1>17, <1>18, <1>19, <1>20, <1>21, <1>22, <1>23, <1>24, <1>25, <1>26, <1>27, <1>28 DEF Next, Manager, Controller, Watcher, RunStep, Clock

\* What each step does to the agreement of the controller with its watcher.
LEMMA OverStep ==
  ASSUME ErrorIsKept, WatcherIsOver, [Next]_vars
  PROVE  WatcherIsOver'
<1> USE DEF WatcherIsOver, ErrorIsKept, Listed, Subscribed, Alive,
      vars, watcherVars, runVars, errVars, controlVars, managerVars, chainVars, historyVars, ManagerFrame, controllerFrame
<1>1. CASE Fetch
  BY <1>1 DEF Fetch
<1>2. CASE Add
  BY <1>2 DEF Add, AddContract, CreateContract, NewWatcher
<1>3. CASE SubscribeFactory
  BY <1>3 DEF SubscribeFactory
<1>4. CASE ManagerLeaves
  BY <1>4 DEF ManagerLeaves
<1>5. CASE Subscribe /\ UNCHANGED controllerFrame
  BY <1>5 DEF Subscribe, StartFulfilling
<1>6. CASE Purchased /\ UNCHANGED controllerFrame
  BY <1>6 DEF Purchased, Receives
<1>7. CASE LoadTerms /\ UNCHANGED controllerFrame
  BY <1>7 DEF LoadTerms, StoreNil
<1>8. CASE ClosedEarly /\ UNCHANGED controllerFrame
  BY <1>8 DEF ClosedEarly, Receives, Cancelled, StoreNil
<1>9. CASE Stopped /\ UNCHANGED controllerFrame
  BY <1>9 DEF Stopped, StoreNil
<1>10. CASE WatcherDone /\ UNCHANGED controllerFrame
  BY <1>10 DEF WatcherDone, MustClose
<1>11. CASE EarlyClose /\ UNCHANGED controllerFrame
  BY <1>11 DEF EarlyClose, Emit
<1>12. CASE Sleep /\ UNCHANGED controllerFrame
  BY <1>12 DEF Sleep
<1>13. CASE Leave /\ UNCHANGED controllerFrame
  BY <1>13 DEF Leave
<1>14. CASE ~ orphaned /\ Deleted /\ UNCHANGED controllerFrame
  BY <1>14 DEF Deleted, Forgotten
<1>15. CASE Begin /\ UNCHANGED <<terms, started, contractErr, panic, expired>>
            /\ UNCHANGED <<controlVars, managerVars, chainVars, historyVars>>
  BY <1>15 DEF Begin, Returns
<1>16. CASE Check /\ UNCHANGED <<terms, started, contractErr, panic, expired>>
            /\ UNCHANGED <<controlVars, managerVars, chainVars, historyVars>>
  BY <1>16 DEF Check, Returns
<1>17. CASE Select /\ UNCHANGED <<terms, started, contractErr, panic, expired>>
            /\ UNCHANGED <<controlVars, managerVars, chainVars, historyVars>>
  BY <1>17 DEF Select, Returns
<1>18. CASE CloseDone /\ UNCHANGED <<terms, started, contractErr, panic, expired>>
            /\ UNCHANGED <<controlVars, managerVars, chainVars, historyVars>>
  BY <1>18 DEF CloseDone
<1>19. CASE Clear /\ UNCHANGED <<terms, started, contractErr, panic, expired>>
            /\ UNCHANGED <<controlVars, managerVars, chainVars, historyVars>>
  BY <1>19 DEF Clear
<1>20. CASE ContextEnds
  BY <1>20 DEF ContextEnds
<1>21. CASE SubscriptionFails
  BY <1>21 DEF SubscriptionFails
<1>22. CASE Buy
  BY <1>22 DEF Buy, Heard, Emit
<1>23. CASE SellerCloses
  BY <1>23 DEF SellerCloses, Heard, Emit
<1>24. CASE TimePasses
  BY <1>24 DEF TimePasses
<1>25. CASE TermPasses
  BY <1>25 DEF TermPasses
<1>26. CASE MinerReports
  BY <1>26 DEF MinerReports, SetError
<1>27. CASE Shutdown
  BY <1>27 DEF Shutdown
<1>28. CASE UNCHANGED vars
  BY <1>28
<1> QED
  BY <1>1, <1>2, <1>3, <1>4, <1>5, <1>6, <1>7, <1>8, <1>9, <1>10, <1>11, <1>12, <1>13, <1>14, <1>15, <1>16, <1>17, <1>18, <1>19, <1>20, <1>21, <1>22, <1>23, <1>24, <1>25, <1>26, <1>27, <1>28 DEF Next, Manager, Controller, Watcher, RunStep, Clock

\* What each step does to whoever knows of the purchase that holds the contract.
LEMMA KnownStep ==
  ASSUME TypeOK, ErrorIsKept, WatcherIsOver, PurchaseIsKnown, [Next]_vars
  PROVE  PurchaseIsKnown'
<1> USE DEF PurchaseIsKnown, JudgesChain, ErrorIsKept, WatcherIsOver, TypeOK, WatcherTypeOK, Purchase, InTime, Listed, Subscribed, Alive,
      vars, watcherVars, runVars, errVars, controlVars, managerVars, chainVars, historyVars, ManagerFrame, controllerFrame
<1>1. CASE Fetch
  BY <1>1 DEF Fetch
<1>2. CASE Add
  BY <1>2 DEF Add, AddContract, CreateContract, NewWatcher
<1>3. CASE SubscribeFactory
  BY <1>3 DEF SubscribeFactory
<1>4. CASE ManagerLeaves
  BY <1>4 DEF ManagerLeaves
<1>5. CASE Subscribe /\ UNCHANGED controllerFrame
  BY <1>5 DEF Subscribe, StartFulfilling
<1>6. CASE Purchased /\ UNCHANGED controllerFrame
  BY <1>6 DEF Purchased, Receives
<1>7. CASE LoadTerms /\ UNCHANGED controllerFrame
  BY <1>7 DEF LoadTerms, StoreNil
<1>8. CASE ClosedEarly /\ UNCHANGED controllerFrame
  BY <1>8 DEF ClosedEarly, Receives, Cancelled, StoreNil
<1>9. CASE Stopped /\ UNCHANGED controllerFrame
  BY <1>9 DEF Stopped, StoreNil
<1>10. CASE WatcherDone /\ UNCHANGED controllerFrame
  BY <1>10 DEF WatcherDone, MustClose
<1>11. CASE EarlyClose /\ UNCHANGED controllerFrame
  BY <1>11 DEF EarlyClose, Emit
<1>12. CASE Sleep /\ UNCHANGED controllerFrame
  BY <1>12 DEF Sleep
<1>13. CASE Leave /\ UNCHANGED controllerFrame
  BY <1>13 DEF Leave
<1>14. CASE Deleted /\ UNCHANGED controllerFrame
  BY <1>14 DEF Deleted, Forgotten
<1>15. CASE Begin /\ UNCHANGED <<terms, started, contractErr, panic, expired>>
            /\ UNCHANGED <<controlVars, managerVars, chainVars, historyVars>>
  BY <1>15 DEF Begin, Returns
<1>16. CASE Check /\ UNCHANGED <<terms, started, contractErr, panic, expired>>
            /\ UNCHANGED <<controlVars, managerVars, chainVars, historyVars>>
  BY <1>16 DEF Check, Returns
<1>17. CASE Select /\ UNCHANGED <<terms, started, contractErr, panic, expired>>
            /\ UNCHANGED <<controlVars, managerVars, chainVars, historyVars>>
  BY <1>17 DEF Select, Returns
<1>18. CASE CloseDone /\ UNCHANGED <<terms, started, contractErr, panic, expired>>
            /\ UNCHANGED <<controlVars, managerVars, chainVars, historyVars>>
  BY <1>18 DEF CloseDone
<1>19. CASE Clear /\ UNCHANGED <<terms, started, contractErr, panic, expired>>
            /\ UNCHANGED <<controlVars, managerVars, chainVars, historyVars>>
  BY <1>19 DEF Clear
<1>20. CASE ContextEnds
  BY <1>20 DEF ContextEnds
<1>21. CASE SubscriptionFails
  BY <1>21 DEF SubscriptionFails
<1>22. CASE Buy
  <2>1. mevents' # <<>> \/ lost'
    BY <1>22, QueueFacts DEF Buy
  <2> QED
    BY <1>22, <2>1 DEF Buy, Heard, Emit
<1>23. CASE SellerCloses
  BY <1>23 DEF SellerCloses, Heard, Emit
<1>24. CASE TimePasses
  BY <1>24 DEF TimePasses
<1>25. CASE TermPasses
  BY <1>25 DEF TermPasses
<1>26. CASE MinerReports
  BY <1>26 DEF MinerReports, SetError
<1>27. CASE Shutdown
  BY <1>27 DEF Shutdown
<1>28. CASE UNCHANGED vars
  BY <1>28
<1> QED
  BY <1>1, <1>2, <1>3, <1>4, <1>5, <1>6, <1>7, <1>8, <1>9, <1>10, <1>11, <1>12, <1>13, <1>14, <1>15, <1>16, <1>17, <1>18, <1>19, <1>20, <1>21, <1>22, <1>23, <1>24, <1>25, <1>26, <1>27, <1>28 DEF Next, Manager, Controller, Watcher, RunStep, Clock

--------------------------------------------------------------------------------
\* The initial states satisfy the inductive invariant.
THEOREM InitIsInductive == Init => IInv
<1> SUFFICES ASSUME Init PROVE IInv
  OBVIOUS
<1> USE DEF Init, FreshWatcher
<1>1. TypeOK
  <2>1. RunTypeOK /\ ErrorTypeOK /\ PlaceTypeOK /\ FlagTypeOK
    BY DEF RunTypeOK, ErrorTypeOK, PlaceTypeOK, FlagTypeOK
  <2>2. TermsTypeOK
    BY PurchasesAssumption DEF TermsTypeOK, Purchase
  <2>3. QueueTypeOK
    BY DEF QueueTypeOK
  <2> QED
    BY <2>1, <2>2, <2>3, TypeParts
<1>2. ErrorIsKept
  BY DEF ErrorIsKept
<1>3. WatcherIsOver
  BY DEF WatcherIsOver, Alive, Subscribed
<1>4. PurchaseIsKnown
  BY DEF PurchaseIsKnown
<1> QED
  BY <1>1, <1>2, <1>3, <1>4 DEF IInv

\* Every behaviour keeps the inductive invariant: the error is stored before its
\* channel closes (hr/contract/contract_buyer.go:300), the watcher is over before
\* its contract is forgotten, and a purchase is known to the manager or watched.
THEOREM BuyerInvariant == Spec => []IInv
<1>1. IInv /\ [Next]_vars => IInv'
  BY TypeStep, ErrorStep, OverStep, KnownStep DEF IInv
<1> QED
  BY InitIsInductive, <1>1, PTL DEF Spec

\* Every variable keeps its type, however many purchases and events there are.
THEOREM BuyerTypeCorrect == Spec => []TypeOK
BY BuyerInvariant, PTL DEF IInv

\* Miners that disconnect while events are handled close the error channel once
\* (SetError, hr/contract/contract_buyer.go:300), unless an event took the error
\* back before the watcher read it.
THEOREM ErrorChannelClosesOnce == Spec => []ErrorClosedOnce
<1>1. IInv => ErrorClosedOnce
  BY DEF IInv, ErrorIsKept, ErrorClosedOnce
<1> QED
  BY BuyerInvariant, <1>1, PTL

\* When AddContract's goroutine deletes a contract its watcher is over
\* (contractmanager/contract_manager.go:148).
THEOREM NoWatcherOutlivesContract == Spec => []WatchersAreKnown
<1>1. IInv => WatchersAreKnown
  BY DEF IInv, WatcherIsOver, WatchersAreKnown, ForgottenIsOver, Listed, TypeOK
<1> QED
  BY BuyerInvariant, <1>1, PTL

\* When all events are handled, the purchase that holds the contract is watched
\* or its controller is about to close it (contractmanager/contract_manager.go:136).
THEOREM PurchaseGetsWatched == Spec => []PurchaseIsWatched
<1>1. IInv => PurchaseIsWatched
  BY DEF IInv, WatcherIsOver, PurchaseIsKnown, JudgesChain, PurchaseIsWatched, Idle, Subscribed
<1> QED
  BY BuyerInvariant, <1>1, PTL

--------------------------------------------------------------------------------
\* The log watcher behind the subscriptions of the controller and of the manager

VARIABLES producer, attempts, nextFromBlock, currentBlock, result, head, answers, stopping

Log == INSTANCE LogWatcherPolling WITH pc <- producer

\* pollChanges runs only while attempts are left.
AttemptsLeft ==
    producer \in {"header", "query", "send", "pause", "wait"} => attempts < MaxReconnects

\* pollChanges' block is the caller's, once the caller has one.
OneBlock == nextFromBlock \in {NoBlock, pollFrom}

\* A range is queried only if it is not empty.
RangeToQuery == producer = "query" => pollFrom <= currentBlock /\ currentBlock > 0

\* Another query is made only when everything of the last answer was sent.
NothingPending ==
    producer \in {"header", "query", "pause", "wait"}
      \/ (producer \in {"check", "retry"} /\ stopping = {}) => pending = {}

\* A watch that queries, or has a block to go on from, has read a head or was
\* given a block.
Started ==
    /\ producer \in {"query", "send", "pause", "wait"} \/ nextFromBlock # NoBlock => start # NoBlock
    /\ producer \in {"send", "pause", "wait"} => pollFrom # NoBlock

\* A watch that has no block to go on from has delivered nothing, has had no
\* answer, and has lost the block it started from if it has queried it.
NilIsFresh ==
    nextFromBlock = NoBlock
      /\ (producer \in {"header", "query"} \/ (producer \in {"check", "retry"} /\ stopping = {}))
        => /\ delivered = {} /\ anchor = NoBlock
           /\ \/ start = NoBlock
              \/ start \in failed
              \/ producer = "query" /\ start = pollFrom

\* What was received precedes what is pending, and both precede the next poll.
InOrder ==
    /\ \A l \in delivered \cup pending : BlockOf[l] < pollFrom
    /\ \A k \in delivered, l \in pending : k < l

LogInv ==
    /\ Log!TypeOK
    /\ AttemptsLeft
    /\ OneBlock
    /\ RangeToQuery
    /\ NothingPending
    /\ Started
    /\ NilIsFresh
    /\ InOrder
    /\ LossesFollowFailures

\* The logs of later blocks have larger numbers.
LEMMA BlockOrder ==
  ASSUME NEW k \in Events, NEW l \in Events, BlockOf[k] < BlockOf[l]
  PROVE  k < l
<1>1. k \in Logs /\ l \in Logs /\ k \in Int /\ l \in Int
  BY ChainAssumption DEF Logs
<1>2. BlockOf[k] \in Int /\ BlockOf[l] \in Int
  BY <1>1, ChainAssumption
<1>3. l <= k => BlockOf[l] <= BlockOf[k]
  BY <1>1, ChainAssumption
<1> QED
  BY <1>1, <1>2, <1>3

\* An event is in a block of the chain.
LEMMA BlockType == \A l \in Events : BlockOf[l] \in 1 .. MaxBlock /\ l \in Int
BY ChainAssumption DEF Logs

\* LogInv holds when the subscription is made.
LEMMA LogInit == Log!Init => LogInv
BY BlockType, ChainAssumption, ConfigAssumption
   DEF Log!Init, LogInv, Log!TypeOK,
       AttemptsLeft, OneBlock, RangeToQuery, NothingPending, Started, NilIsFresh, InOrder,
       LossesFollowFailures, Passed, BeforeAnchor, Log!Calls, NoBlock, Log!NoBlock

\* Every step of the watcher, the node and the consumer preserves LogInv.
LEMMA LogStep ==
  ASSUME LogInv, [Log!Next]_Log!vars
  PROVE  LogInv'
<1> USE ChainAssumption, ConfigAssumption, BlockType DEF NoBlock, Log!NoBlock
<1>0. /\ Log!TypeOK /\ AttemptsLeft /\ OneBlock /\ RangeToQuery /\ NothingPending
      /\ Started /\ NilIsFresh /\ InOrder /\ LossesFollowFailures
  BY DEF LogInv
<1> USE DEF AttemptsLeft, OneBlock, RangeToQuery, NothingPending, Started, NilIsFresh
<1>1. ASSUME UNCHANGED <<pollFrom, pending, delivered, start, anchor, failed>>
      PROVE  InOrder' /\ LossesFollowFailures'
  BY <1>0, <1>1 DEF InOrder, LossesFollowFailures, Passed, BeforeAnchor
<1>2. CASE Log!Check
  BY <1>0, <1>1, <1>2 DEF Log!Check, Log!Return, Log!pollVars, Log!nodeVars, Log!historyVars,
                          Log!TypeOK, LogInv
<1>3. CASE Log!Header
  <2>1. CASE nextFromBlock # NoBlock \/ producer' = "retry"
    BY <1>0, <1>1, <1>3, <2>1 DEF Log!Header, Log!PollFails, Log!nodeVars, Log!TypeOK, LogInv
  <2>2. CASE nextFromBlock = NoBlock /\ producer' # "retry"
    <3>1. /\ pollFrom' = head /\ currentBlock' = head /\ start' = IF start = NoBlock THEN head ELSE start
          /\ delivered' = {} /\ pending' = {} /\ producer' = "query"
          /\ anchor' = NoBlock /\ failed' = failed
          /\ start' = head \/ start' \in failed
      BY <1>0, <1>3, <2>2 DEF Log!Header, Log!PollFails, Log!TypeOK
    <3>2. InOrder' /\ LossesFollowFailures'
      BY <1>0, <3>1 DEF InOrder, LossesFollowFailures, Passed, BeforeAnchor, Log!TypeOK
    <3> QED
      BY <1>0, <1>3, <2>2, <3>1, <3>2
         DEF Log!Header, Log!PollFails, Log!nodeVars, Log!TypeOK, LogInv
  <2> QED
    BY <2>1, <2>2
<1>4. CASE Log!Query
  <2>1. /\ producer = "query" /\ pollFrom' = currentBlock + 1 /\ pollFrom <= currentBlock
        /\ currentBlock \in 1 .. MaxBlock /\ pollFrom \in 0 .. MaxBlock + 1
        /\ pending = {} /\ delivered' = delivered /\ start' = start
        /\ UNCHANGED <<currentBlock, Log!nodeVars, stopping>>
    BY <1>0, <1>4 DEF Log!Query, Log!NextFrom, Log!TypeOK
  <2>2. nextFromBlock' \in {NoBlock, pollFrom'}
    BY <1>4, <2>1 DEF Log!Query, Log!NextFrom
  <2>3. Log!TypeOK'
    <3>1. /\ pollFrom' \in 0 .. MaxBlock + 1 /\ nextFromBlock' \in 0 .. MaxBlock + 1
          /\ pollFrom .. currentBlock \subseteq 0 .. MaxBlock
      BY <2>1, <2>2
    <3>2. attempts < MaxReconnects
      BY <1>0, <2>1
    <3>3. \/ attempts' = attempts /\ failed' = failed /\ pending' \subseteq Events
          \/ /\ attempts' = attempts + 1 /\ pending' = pending
             /\ failed' = failed \cup (pollFrom .. currentBlock)
      BY <1>4 DEF Log!Query, Log!PollFails
    <3>4. /\ producer' \in {"send", "retry"} /\ result' = result /\ received' = received
          /\ anchor' \in 0 .. MaxBlock
      BY <1>0, <1>4, <2>1 DEF Log!TypeOK, Log!Query, Log!PollFails
    <3>5. /\ attempts' \in 0 .. MaxReconnects /\ failed' \subseteq 0 .. MaxBlock
          /\ pending' \subseteq Events
      <4>1. /\ attempts \in 0 .. MaxReconnects /\ failed \subseteq 0 .. MaxBlock
            /\ pending \subseteq Events
        BY <1>0 DEF Log!TypeOK
      <4>2. attempts + 1 \in 0 .. MaxReconnects
        BY <3>2, <4>1
      <4>4. failed \cup (pollFrom .. currentBlock) \subseteq 0 .. MaxBlock
        BY <3>1, <4>1
      <4>5. CASE attempts' = attempts /\ failed' = failed /\ pending' \subseteq Events
        BY <4>1, <4>5
      <4>6. CASE /\ attempts' = attempts + 1 /\ pending' = pending
                 /\ failed' = failed \cup (pollFrom .. currentBlock)
        BY <4>1, <4>2, <4>4, <4>6, Zenon
      <4> QED
        BY <3>3, <4>5, <4>6, Zenon
    <3> QED
      BY <1>0, <2>1, <3>1, <3>4, <3>5 DEF Log!nodeVars, Log!TypeOK
  <2>4. \A l \in delivered : BlockOf[l] < pollFrom
    BY <1>0 DEF InOrder
  <2>5. CASE producer' = "send"
    <3>1. pending' = {l \in Events : Log!InRange(l)}
      BY <1>4, <2>5 DEF Log!Query, Log!PollFails
    <3>2. InOrder'
      <4>1. \A l \in delivered' \cup pending' : BlockOf[l] < pollFrom'
        BY <1>0, <2>1, <2>4, <3>1 DEF Log!InRange, Log!TypeOK
      <4>2. ASSUME NEW k \in delivered, NEW l \in pending' PROVE k < l
        <5>1. BlockOf[k] < BlockOf[l] /\ k \in Events /\ l \in Events
          BY <1>0, <2>1, <2>4, <3>1 DEF Log!InRange, Log!TypeOK
        <5> QED
          BY <5>1, BlockOrder
      <4> QED
        BY <2>1, <4>1, <4>2 DEF InOrder
    <3>3. LossesFollowFailures'
      BY <1>0, <1>4, <2>1, <3>1 DEF Log!Query, Log!InRange, LossesFollowFailures,
                                    Passed, BeforeAnchor, Log!TypeOK
    <3> QED
      <4>1. attempts' = attempts
        BY <1>4, <2>5 DEF Log!Query, Log!PollFails
      <4> QED
        BY <1>0, <2>1, <2>2, <2>3, <2>5, <3>2, <3>3, <4>1 DEF LogInv
  <2>6. CASE producer' # "send"
    <3>0. anchor' = anchor
      BY <1>4, <2>6 DEF Log!Query, Log!PollFails
    <3>1. pending' = {} /\ producer' = "retry" /\ failed' = failed \cup (pollFrom .. currentBlock)
      BY <1>4, <2>1, <2>6 DEF Log!Query, Log!PollFails
    <3>2. InOrder'
      BY <1>0, <2>1, <2>4, <3>1 DEF InOrder, Log!TypeOK
    <3>3. LossesFollowFailures'
      BY <1>0, <2>1, <3>1, <3>0 DEF LossesFollowFailures, Passed, BeforeAnchor, Log!TypeOK
    <3>4. nextFromBlock' = NoBlock => nextFromBlock = NoBlock
      BY <1>4, <2>1 DEF Log!Query, Log!NextFrom
    <3>5. nextFromBlock = NoBlock => start' \in failed'
      <4>1. start # NoBlock /\ start \in 0 .. MaxBlock /\ pollFrom \in pollFrom .. currentBlock
        BY <1>0, <2>1 DEF Log!TypeOK
      <4> QED
        BY <1>0, <2>1, <3>1, <4>1
    <3>6. Started' /\ NilIsFresh'
      BY <1>0, <2>1, <2>2, <3>0, <3>1, <3>4, <3>5
    <3> QED
      BY <1>0, <2>1, <2>2, <2>3, <3>1, <3>2, <3>3, <3>6 DEF LogInv
  <2> QED
    BY <2>5, <2>6
<1>5. CASE Log!Send
  <2>1. PICK l \in pending : Log!IsFirst(l, pending) /\ pending' = pending \ {l} /\ delivered' = delivered \cup {l}
    BY <1>5 DEF Log!Send
  <2>2. /\ producer = "send" /\ UNCHANGED <<producer, attempts, nextFromBlock, pollFrom, currentBlock, result>>
        /\ UNCHANGED <<Log!nodeVars, stopping, start, anchor, failed>> /\ received' = received + 1
    BY <1>5 DEF Log!Send
  <2>3. Log!TypeOK'
    BY <1>0, <2>1, <2>2 DEF Log!nodeVars, Log!TypeOK
  <2>4. \A k \in pending' : l < k
    BY <1>0, <2>1 DEF Log!IsFirst, Log!TypeOK
  <2>5. InOrder'
    BY <1>0, <2>1, <2>2, <2>4 DEF InOrder
  <2>6. LossesFollowFailures'
    BY <1>0, <2>1, <2>2 DEF LossesFollowFailures, Passed, BeforeAnchor
  <2> QED
    BY <1>0, <2>2, <2>3, <2>5, <2>6 DEF LogInv
<1>6. CASE Log!AllSent
  BY <1>0, <1>1, <1>6 DEF Log!AllSent, Log!pollVars, Log!nodeVars, Log!historyVars, Log!TypeOK,
                          LogInv
<1>7. CASE Log!PollSucceeds
  <2>1. pollFrom # NoBlock
    BY <1>0, <1>7 DEF Log!PollSucceeds
  <2> QED
    BY <1>0, <1>1, <1>7, <2>1 DEF Log!PollSucceeds, Log!nodeVars, Log!historyVars, Log!TypeOK,
                                  LogInv
<1>8. CASE Log!StopPoll
  <2>1. /\ attempts < MaxReconnects /\ attempts' = attempts + 1 /\ producer' = "retry" /\ stopping # {}
        /\ UNCHANGED <<result, Log!pollVars, Log!nodeVars, stopping, Log!historyVars>>
    BY <1>0, <1>8 DEF Log!StopPoll, Log!PollFails
  <2>2. Log!TypeOK'
    BY <1>0, <2>1 DEF Log!pollVars, Log!nodeVars, Log!historyVars, Log!TypeOK
  <2> QED
    BY <1>0, <1>1, <2>1, <2>2 DEF Log!pollVars, Log!historyVars, LogInv
<1>9. CASE Log!Retry
  BY <1>0, <1>1, <1>9 DEF Log!Retry, Log!Return, Log!pollVars, Log!nodeVars, Log!historyVars,
                          Log!TypeOK, LogInv
<1>10. CASE Log!NewBlock
  BY <1>0, <1>1, <1>10 DEF Log!NewBlock, Log!pollVars, Log!historyVars, Log!TypeOK, LogInv
<1>11. CASE Log!NodeChanges
  BY <1>0, <1>1, <1>11 DEF Log!NodeChanges, Log!pollVars, Log!historyVars, Log!TypeOK, LogInv
<1>12. CASE Log!Stop
  BY <1>0, <1>1, <1>12 DEF Log!Stop, Log!pollVars, Log!nodeVars, Log!historyVars, Log!TypeOK,
                           LogInv
<1>13. CASE UNCHANGED Log!vars
  BY <1>0, <1>1, <1>13 DEF Log!vars, Log!pollVars, Log!nodeVars, Log!historyVars, Log!TypeOK,
                           LogInv
<1> QED
  BY <1>2, <1>3, <1>4, <1>5, <1>6, <1>7, <1>8, <1>9, <1>10, <1>11, <1>12, <1>13
     DEF Log!Next, Log!Producer, Log!Unaided

\* LogInv holds in every state of a watch.
THEOREM LogInvariance == Log!Spec => []LogInv
<1>1. LogInv /\ [Log!Next]_Log!vars => LogInv'
  BY LogStep
<1> QED
  BY LogInit, <1>1, PTL DEF Log!Spec

\* The watch keeps its shapes.
THEOREM LogTypeCorrect == Log!Spec => []Log!TypeOK
<1>1. LogInv => Log!TypeOK
  BY DEF LogInv
<1> QED
  BY LogInvariance, <1>1, PTL

\* The only events that are lost are those of failed queries and, in a watch
\* that was given no block and whose first query failed, those of the blocks
\* mined before its first answer.
THEOREM LosesOnlyAfterFailures == Log!Spec => []LossesFollowFailures
<1>1. LogInv => LossesFollowFailures
  BY DEF LogInv
<1> QED
  BY LogInvariance, <1>1, PTL

\* Events reach the consumer once and in the order of the chain.
THEOREM DeliversInOrder == Log!Spec => DeliveredInOrder
<1> DEFINE New == \E l \in delivered' \ delivered : \A k \in delivered : k < l
<1>1. LogInv /\ [Log!Next]_Log!vars => [received' # received => New]_<<received, delivered>>
  <2> SUFFICES ASSUME LogInv, Log!Next PROVE received' # received => New
    BY DEF Log!vars, Log!historyVars
  <2>1. CASE Log!Send
    <3>1. PICK l \in pending : delivered' = delivered \cup {l}
      BY <2>1 DEF Log!Send
    <3>2. l \in Int /\ \A k \in delivered : k < l
      BY BlockType DEF LogInv, InOrder, Log!TypeOK
    <3> QED
      BY <3>1, <3>2
  <2>2. ASSUME ~ Log!Send PROVE received' = received
    BY <2>2 DEF Log!Next, Log!Producer, Log!Unaided, Log!Check, Log!Header, Log!Query,
                Log!AllSent, Log!PollSucceeds, Log!StopPoll, Log!Retry, Log!NewBlock,
                Log!NodeChanges, Log!Stop, Log!historyVars
  <2> QED
    BY <2>1, <2>2
<1> QED
  BY LogInvariance, <1>1, PTL DEF Log!Spec, DeliveredInOrder

================================================================================
