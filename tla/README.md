# A TLA+ model of the Lumerin proxy-router

The proxy-router sits between Bitcoin miners and mining pools. It sells the
hashrate of the miners connected to it to the contracts of a blockchain, by
pointing each miner at the pool of a contract for as long as the contract asks,
and, for a buyer or a validator, it checks that the hashrate that was paid for
arrives. This directory holds TLA+ modules that model its concurrent core, the TLC
configurations that check them on small instances, and proofs checked by TLAPS.

Paths below are relative to `src/`; `hr/` is `internal/resources/hashrate/`.

## 1. The system and its parts

| Part | Where | State | Operations |
|---|---|---|---|
| Task list | `hr/allocator/tasklist.go` | deque of tasks, atomic size, `taskTaken`, per task a `cancelCh` | Add, LockNextTask, UnlockAndRemove, Cancel, Range |
| Scheduler | `hr/allocator/scheduler.go` | `newTaskSignal` (one slot), `isDisconnecting`, `primaryDest` | Run (goroutine), AddTask, RemoveTasksByID, SetPrimaryDest |
| Allocator | `hr/allocator/allocator.go` | collection of schedulers | AllocateFullMinersForHR, AllocatePartialForJob, snapshots |
| Seller contract watcher | `hr/contract/contract_seller_v2.go`, `seller_stats.go` | run flag, start/stop/done channels, terms, full and partial miners, delivery target | StartFulfilling, StopFulfilling, run (goroutine), adjustHashrate, SetTerms |
| Seller controller | `hr/contract/controller_seller.go` | subscription of contract events | Run: purchase, close-out, terms and destination updates |
| Buyer watcher and controller | `hr/contract/contract_buyer.go`, `controller_buyer.go` | validation state, error and its channel, channels of a run | StartFulfilling, SetError, run, EarlyClose with retries |
| Futures controllers | `hr/contract/controller_futures_*.go` | one watcher, exit channel | Run, Stop |
| Contract managers | `internal/contractmanager/` | set of contracts, subscription | contract created, purchased, removed; delivery ranges |
| Proxy and pipe | `hr/proxy/proxy.go`, `pipe.go`, `handler_change_dest.go` | source and destination connections, cache of destinations, callback, two tasks | Run, SetDest, reconnect |
| Handshake | `hr/proxy/handler_first_connect.go`, `pipe_sync.go` | handlers of requests, two goroutines and a loop | Connect |
| Connection | `hr/proxy/conn.go` | socket, incomplete line, idle timers, locks of both directions | Read, Write, Close, ResetIdleCloseTimers |
| Pool connection | `hr/proxy/conn_dest.go` | result handlers, extranonce, background reader | AutoReadStart/Stop, WriteAwaitRes, interceptors |
| Share accounting | `hr/proxy/handler_mining.go`, `stats.go`, `hr/validator/`, `internal/lib/bstackmap.go` | jobs by ID (bounded), shares of a job, statistics of both sides | submit, notify, answer |
| Restartable task | `internal/lib/task.go` | `isRunning`, `stopCh`, `doneCh`, `err` | Start, Stop, Done, Err |
| Log watchers | `internal/repositories/contracts/` | next block, attempts, event channel | Watch, polling |
| Handlers | `internal/handlers/` | collection of miners | a miner connects; change of the default pool |

How they interact. One goroutine per miner runs the scheduler, which drives the
proxy by `SetDest` and waits on the proxy task, the task's cancel channel and its
deadline. One goroutine per contract runs `run`, which calls the allocator, which
calls `AddTask` on schedulers; tasks carry closures that the scheduler (`OnEnd`,
`OnDisconnect`) and the proxy (`OnSubmit`) call back in their own goroutines.
`OnDisconnect` is a blocking send to the contract's goroutine. The controller of a
contract starts and stops it from the goroutine that reads blockchain events, which
a log watcher polls; a manager creates and removes controllers from events of its
own. The proxy runs two tasks per miner, one per direction; a share is judged in
the goroutine that reads the miner, and its answer is awaited in one of its own.

What is hard: callbacks cross goroutines while locks are held; signals are
one-slot channels; the list is cancelled and extended while its front is being
served; pools are swapped under a running pipe, and a pool connection has up to three
candidates to read it; a miner or a pool can vanish at any point; tasks, pipes and
contracts are restarted and reuse channels that were closed; handlers of requests
race with timeouts; calls of the node fail and are retried while the chain moves on.

What makes each part correct:

* task list and scheduler: no panic; the task served is the task removed; the
  lock-free size is exact; a task that was added is served, cancelled or its owner
  told; no wake-up is lost; callback and pool of the proxy belong to one contract.
* allocation: a contract knows every full task of its own, counts no miner that has
  none, and leaves none behind.
* seller watcher: a stop ends the run it was meant for and no other; one run at a
  time; terms change only between runs.
* buyer: a purchase is watched, or about to be closed; a forgotten contract has no
  watcher; the error channel is closed once.
* proxy: a connection has one reader; the miner works for the pool that its shares
  are counted to; a swap returns.
* handshake: success means authorised; what the pool says reaches the miner once.
* connection: lines and messages stay whole across cancelled calls, calls return.
* share accounting: work is credited once, to the pool of its job; a verdict is the
  verdict on that share; every counter is the number of shares the code counts there.
* restartable task: a stop ends the run, a start after a stop runs again, `Done`
  closes when the function is over.
* log watcher: each event is delivered once and in order, despite failures.

## 2. The plan

The modules in the order in which they were planned, the behaviour that matters most
to a contract first; all of the plan that this section does not list as open is written.

| | Module | What it is | Extends, composes | Proofs |
|---|---|---|---|---|
| 1 | `RentalQueue` | what a miner promises to the contracts that rent it (abstract) | | |
| 2 | `MinerScheduler` | one miner's task list and scheduler with the contracts around it | implements `RentalQueue` | `MinerScheduler_proofs` |
| 3 | `LogDelivery`, `LogWatcherPolling` | what a subscription promises about the events of a contract, and the watcher behind it | | in `BuyerContract_proofs` |
| 4 | `SellerWatcher` | flag, channels, terms and goroutine of a seller's contract | | |
| 5 | `SellerController` | the event loop of a contract of the clone factory | `SellerWatcher` | `SellerController_proofs` |
| 6 | `BuyerWatcher` | the watcher of the buyer and of the validator | | |
| 7 | `BuyerContract` | manager, controller and chain of a bought contract | `BuyerWatcher` | `BuyerContract_proofs` |
| 8 | `FuturesSeller`, `FuturesValidator`, `FuturesState`, `FuturesNode` | a futures contract in one delivery range, on either kind of node | the two watchers | in `SellerController_proofs` |
| 9 | `Allocation` | several contracts that take miners, and the schedulers' callbacks | reduces `MinerScheduler` | `Allocation_proofs` |
| 10 | `RestartableTask` | `lib.Task` as functions on records | | |
| 11 | `Proxy` | swaps of the pool under a running pipe | `RestartableTask` | `Proxy_proofs` |
| 12 | `FirstConnect` | the handshake over the synchronised pipe | | `FirstConnect_proofs` |
| 13 | `StratumConnection` | the connection that both are built on | | `StratumConnection_proofs` |
| 14 | `BoundStackMap`, `ShareAccounting` | the bounded map of jobs, and the shares judged by it | | `ShareAccounting_proofs` |

Open: the websocket watcher (`log_watcher_subscription.go`); the loop over delivery
ranges and contracts created through HTTP; a composition of a log watcher with
`SellerController`.

## 3. Modules and the code

All modules have one action per atomic stretch of code: what a goroutine does between
two points where another goroutine can see or change its state (a lock, a channel, a
callback, a call of the node). Program counters (`pc`, `cpc`, `run`, `mpc`, `rpc`, `spc`)
name these points. Comments marked `mutant:` precede altered copies of a definition; they
are substituted for the original to confirm that a property notices the change.

### `MinerScheduler` (`hr/allocator/scheduler.go`, `tasklist.go`)

One miner and any number of contracts. `job`, `queue`, `size`, `taken` and `cancelled`
are the deque, its counter, `taskTaken` and the closed `cancelCh`s; a task is its number
in the order of `Add`, so the deque is the set of listed numbers and its front the least.
`pc` is the scheduler's goroutine through `Run`, `mainLoop`, `taskLoop` and
`onDisconnect`; `cpc[c]` is the goroutine of contract `c` as far as this miner is
concerned. `destURL` and `onSubmit` are the proxy's destination and callback, which
`setDest` leaves alone when the destination stays the same. `Cancel` keeps the loop of
`tasklist.go:142-157`, which steps over the element that slides into a removed place.
`ended`, `withdrawn` and `dropped` are history: OnEnd calls, tasks cancelled before they
were served, tasks met by the Range of `onDisconnect`.

Abstractions: hashrate and jobs are "the job can be exhausted at any time"; deadlines can
pass at any time; connecting to a pool succeeds or fails. The allocator and the registration
of the miner are seen only through what they let a contract do with this miner.

### `Allocation` (`contract_seller_v2.go`, `seller_stats.go`, `allocator.go`)

Contracts that go through their cycles: look at a snapshot (`left`), pick a miner, add a
task, record it in `full` or `partial`, remove miners at the head of a cycle, release all
at the end. Each of these is a step of its own, because the schedulers' `OnEnd` and
`OnDisconnect` change the same sets in between. Every miner has one unit of hashrate and
the delivery target is counted in units. `Other` stands for all contracts that are not looked
at. A scheduler is reduced to its queue, the callbacks, and when it holds the list's lock.
`Cancels` says which places of a queue the loop of `TaskList.Cancel` keeps: all but the
contract's, of these the one in front while it is served, and each that slides into the place
of one that was removed.
`early` and `leaked` are history and name the exceptions of section 4.

### `LogDelivery` and `LogWatcherPolling` (`internal/repositories/contracts/log_watcher_polling.go`)

`Watch`, `pollReconnect` and `pollChanges` as one goroutine. `nextFromBlock` is the
`*big.Int` of the caller and `pollFrom` that of `pollChanges`; they are one object unless
the caller's is nil, which is what makes line 128 visible to the caller even when an error
follows. The callers in the repository pass nil: such a watch starts from the head, and from
the head of the moment again if its first query fails (`start`, `anchor`). The node (`head`,
`answers`) grows and fails at will. The chain is not reorganised, and `maxReconnects = -1`
(for ever) is not modelled; with it there is no exhaustion to check. Logs that are removed
or that the mapper rejects are those outside `Events`.

### `SellerWatcher` and `SellerController` (`contract_seller_v2.go`, `controller_seller.go`)

The watcher as its controllers see it: `isRunning`, `stopCh` and `doneCh` as the fields
hold them, the embedded terms, and `run[r]`, the goroutines of `StartFulfilling`. There
may be several of these because nothing but the flag prevents it. Every start replaces
the channels: `held[r]` says whether the select of a goroutine waits on the current stop
channel or on one that was replaced open or closed. The miners are abstracted to
`serving`, the terms whose full miners still have tasks, and `recorded`, those of them
in `stats.fullMiners`, which is all that `removeAllMiners` can reach. A run that calls
`AddTask` or `RemoveTasksByID` may meet the lock of a miner that waits for it
(`MinerScheduler`'s `CircularWait`): it is then `"wedged"` for good.

The goroutine closes `doneCh` and only then, under the mutex, clears the flag. Between
these two lies *the window* (`InWindow`). `overtaken` is history: the controller read or
set the flag in it. Everything that is promised about a contract is promised until then.

The controller is the select loop of `Run` with its handlers, one action per call of the
node, of the mutex and of `Done`. `chain` is the contract's state on the chain, changed by
purchases, close-outs, new destinations and time; an event carries nothing, the handler
loads what the chain says at that moment. What `Terms.Decrypt` makes of the pool data is a
destination, an error (`Garbled`), or nil without an error when the data is empty (`NoDest`,
`Empty`): a run may start with nil, and the scheduler that is given such a task crashes
(`TakeNilTask`), as does the comparison at line 181. `NamedDest` are the URLs that already
have the contract's ID as user name, the only ones for which the comparison at line 183 can
find that nothing changed. `NilTerms` is the nil pointer that a failed call returns.
External: the chain and its events. `SyncState` and `PurchaseInfoUpdated` are the same load
of the terms and need no event.

### `BuyerWatcher` and `BuyerContract` (`contract_buyer.go`, `controller_buyer.go`, `contract_manager.go`)

The watcher has one goroutine that is started once in its life; `judged` remembers which
purchase its error is about. `SetError` may come from any number of miners at any time.
Manager and controller have subscriptions of their own (`mevents`, `events`), so neither
knows what the other has seen. `chain` is the purchase that holds the contract;
EarlyClose closes whatever holds it, and fails at will. `lost`, `cleared` and `orphaned`
are history: a purchase found the contract still listed; a handled event took an error
back before the watcher read it; the subscription failed.

### `FuturesSeller`, `FuturesValidator`, `FuturesState`, `FuturesNode`

One futures contract during one delivery range: the controller, the goroutine that
handles the range's events and may remove the contract, and the end of the range, which
cancels the context of both. A node is a seller's or the validator's
(`cmd/main.go:309`), so `FuturesState` has a role and one instance of each; `FuturesNode`
says which of them takes steps.

### `RestartableTask` and `Proxy` (`internal/lib/task.go`, `hr/proxy/proxy.go`, `pipe.go`)

A task is a record and `Started`, `StopSent`, `EndedByStop`, `EndedWith`, `Left` map
records to records; "closing" is the time between closing the stop channel and clearing
`isRunning`. `Proxy` uses two of them for the pipe. Connections are numbers; `destMap`
is the cache, `autoread` the background readers, `minerDest` the connection whose job the
miner received last, `onSubmit` the destination for which the callback was set. `spc` is
the goroutine of `SetDest` and `rpc` that of `Run`. A share is in flight until its answer,
a time-out or never (`leaked`: too many invalid shares, line 102 of `handler_mining.go`).
`waiter` is the `WaitGroup`: the last `Done` wakes `SetDest`, and an `Add` before it has
returned makes it panic. The handshake leaves connection 1 under the address it was dialled
with (`HandshakeDest`), while `destURL` is the default.

### `FirstConnect` (`hr/proxy/handler_first_connect.go`, `pipe_sync.go`)

`r1` and `r2` are the goroutines that read the miner and the pool, `main` is the loop of the
synchronised pipe. An answer with a handler is dealt with in `r2`, beside the loop, which is
why it may overtake: one message, the one that the loop is writing. `late` are requests
whose handler timed out. Another miner's subscribe sets the variable of the package
(`minerSubscribeReceived`).

### `StratumConnection` (`hr/proxy/conn.go`)

Text is lines of `Pieces` pieces. `readExpired` and `writeExpired` are deadlines of the
socket that have passed: `Read` and `Write` are unblocked by moving them, from a goroutine
of each call (`rguard`, `wguard`). `readBuffer` is the incomplete line a cancelled call
leaves to the next. The idle timers are a third goroutine, with `readHappened` and
`writeHappened` as its one-slot channels.

### `BoundStackMap` and `ShareAccounting`

The map is a record of its ordered keys and its data, `Push` a function. Per pool `jobs[d]`
is such a map, `announced[d]` numbers its jobs. A share goes through `at[i]`: judged by the
job of its destination or looked for elsewhere, sent (`to[i]`), answered, settled.
`resultHandlers[d][id]` is the share that waits under a message ID, which the miner may use
again. `judgedOn`, `credit` and `answer` are what the properties compare.

## 4. Properties and runs

A run's properties are listed by name; many of them are conjunctions whose parts are named
and explained in the module.

| Run | Checks | Instance and why it is enough |
|---|---|---|
| `scheduler_safety` | `ListIsSound` (types, no panic, served task is the front), `SizeIsLength`, `NoLostWakeup`, `CreditFollowsDest`, `TasksAreSettled`, `ImplementsRentalQueue` | two contracts, one pool, two default pools, two tasks: a task can be added, cancelled or end while the other is served, for the same contract or another. Contracts and default pools are interchangeable, hence the symmetry (all properties of this run are safety properties that name no contract or pool). |
| `scheduler_liveness` | `EveryTaskLeaves`, `EndingsComplete` | one contract, three tasks: the least number for which `Cancel` steps over one |
| `allocation` | `FullTasksAreWithdrawn`, `CountedMinersServe` | one contract with two interchangeable miners, all other contracts as `Other`; queues of two, targets of up to two units: a miner can be replaced by the other while its old task ends and others queue on it (6.5 million states) |
| `logwatcher` | `LossesFollowFailures`, `DeliveredInOrder`, `WatchEnds`, `FollowsChain` | four logs in three blocks, two in one block, one that is not an event; starts at the head (nil, as in production) or at block 2; two attempts |
| `seller` | `OneRunServes`, `ClosedOnce`, `MinersReleased`, `TermsFixedWhileRunning`, `WaitEnds` | two goroutines, two purchases, one destination, or pool data that is empty or cannot be decrypted, two unhandled events: a run can be stopped and another started while events about both are queued |
| `futures` | `ForgottenIsOver`, `EndsAreReached` | one contract and one range on each role: a range starts a contract once |
| `buyer` | `ErrorClosedOnce`, `WatchersAreKnown`, `PurchaseIsWatched`, `ControllerEnds` | two purchases, two events per subscription: a close-out can meet the next purchase |
| `buyer_closes` | `ClosesWhatFailed`, expected to be violated | the same |
| `proxy` | `OneReader`, `MinerMinesForDest`, `SwapsAreSound`, `SetDestReturns` | three pools, three connections and a cache of two, so that one is evicted; two shares, so that one can come while the answer to the other wakes `SetDest`; one failure; a miner of the default pool or of a contract (1.8 million states) |
| `handshake` | `PoolIsRelayed`, `OutcomeIsRight`, `HandshakeEnds` | three messages of the miner in any order, two notifications, one failure or late answer |
| `connection` | `LinesAreWhole`, `MessagesAreWhole`, `ErrorsNameTheirCause`, `CallsReturn` | two readers, two writers, lines of two pieces: a call is cancelled half way and another one continues |
| `shares` | `CacheIsRecent`, `CreditIsRight`, `VerdictIsItsOwn`, `AccountsAreKept` | two pools, two job IDs, capacity two, three jobs, two shares, two message IDs: a job is evicted, announced again, looked for at the other pool (2.3 million states) |

`CHECK_DEADLOCK FALSE` everywhere: all of these programs may really stop (the miner is
gone, the watch or the controller has returned, the program crashed, a bound is reached),
and `allocation` contains the circular wait described below. That nobody is stuck elsewhere
is what the liveness properties say.

Bounds, all named in the modules: `MaxTasks`, `MaxRuns` (goroutines alive at a time),
`MaxPurchases`, `MaxEvents` (events not handled), `MaxBlock`, `NumLogs`, `MaxConns`,
`MaxShares`, `MaxJobs`, `MaxFailures`, `MaxMessages`, `MaxNotifications`, `MaxWrites`,
`Most`. The proofs hold for all their values.

Constraints. `seller` does not explore beyond a use of the flag in the window
(`BeforeOvertaking`); nothing is left out, since `overtaken` never becomes false again
and every property has it as an alternative, the liveness property too. It ends either the
subscription or the program and not one after the other (`OneEnding`): calls of the node
may fail at any time, so the second ending adds nothing.

`proxy` explores with `Explored`, which does cut behaviours:

* what follows after `Run` looped after a reconnect: the loop starts the pipe without the
  lock, and the properties say `Regular`;
* what follows after a `SetDest` returned an error (the module itself has no later `SetDest`
  or second `Run` then);
* what follows after `Run` ended and no `SetDest` is under way; one under way is explored to its
  return, and a new one on a proxy that ended is not;
* failures together with a miner that named a contract, or with the second share: each is
  explored without failures, and failures with one share of a miner of the default pool;
* the two pools besides the primary are named in the order of use.

None of these cuts is in the proofs of the invariants, which hold for all behaviours of the
module; for `SetDestReturns`, which is not proved, they are limits of what is known.

`connection` lets a behaviour read or
write (`OneDirection`): both directions share only the timers and the end of the
connection, which each explores fully.

### Fairness

* `MinerScheduler`: the scheduler's goroutine, and a contract once it waits for the
  list's lock or has a signal to send (Go schedules goroutines and mutexes are not
  starved); deadlines pass. A contract in its select, a proxy, an operator owe nothing.
* `LogWatcherPolling`: the goroutine; calls return, timers fire. The consumer
  owes nothing; `DeadNodeEndsWatch` and `FollowsChain` name a consumer that never
  receives again as their exception. `NodeChanges` and `NewBlock` owe nothing: the
  properties say what follows if the node stays up or down.
* Seller: controller and goroutines of `run`. Strong fairness for the branches of `run`'s
  select that end it: the loop comes back to the select again and again, with the stop
  channel closed or the end timer at zero each time, and Go picks among ready cases at
  random, so that branch is taken in the end; weak fairness would not say so, since
  `continue` disables it in between. Nothing is owed by a run that waits for a miner's list:
  `Wedge` takes it to a place it never leaves, and `WaitEnds` and `EndsAreReached` name that
  (`Wedged`), and a crash, as exceptions. For futures also: delivery ranges end, and the
  same strong fairness for the validator's `Cancel` branch.
* `BuyerContract`: manager, controller, watcher, and the clock of the chain. The chain's
  parties and the success of a transaction owe nothing.
* `Proxy`: only that some goroutine that can go on does, where a share is answered or
  `RESPONSE_TIMEOUT` (30 s) passes. `SetDestReturns` speaks of both waits for answers
  (`proxy.go:230` and 246) and assumes, by `MaxShares`, that finitely many shares come
  meanwhile: an unbroken stream of them could keep the `WaitGroup` above zero for ever. Its
  exceptions are a share that is never counted as answered and the panic of the `WaitGroup`.
  `FirstConnect`: both readers and the loop; the pool answers, late answers included, or
  closes.
* `StratumConnection`: the goroutine of the timers, and the goroutines of the calls under
  way, direction by direction. The peer owes nothing.

### What the code disagrees with

`buyer_closes` / `ClosesWhatFailed` is a run of its own: the close of a failed purchase
names the contract and not the purchase. The transaction may be mined, or repeated ten
seconds later (`controller_buyer.go:94`), when another purchase holds the contract, which no run has
judged; line 71 says that the buyer closes for underdelivery or an unreachable destination.

The other disagreements met while modelling are part of the models, and the properties
name them as exceptions, so that what holds besides them is checked:

* `onDisconnect` ranges over the task list with the read lock held and sends to the
  contract's goroutine; that goroutine waits for the write lock of the same list, in
  `AddTask` or `RemoveTasksByID`. Neither can go on (`CircularWait`, the only exception of the
  scheduler's liveness; in `Allocation` it is a deadlock). On the seller's side it is a run
  that never closes its done channel: the controller at `Done`, and the manager of a
  delivery range, then wait for ever too (`Wedged`).
* `nextFromBlock.Add` overwrites the block before the error of `FilterLogs` is looked at;
  the retry starts behind the failed range. For the same reason the poll after a failed
  one finds nothing to ask, counts as a success, and the attempts start afresh: a node of
  which only `FilterLogs` fails never ends the watch. `DeadNodeEndsWatch` is about a
  node that answers nothing.
* A watch that was given no block (`hashrate_ethereum.go:264, 268`, `futures_ethereum.go:300`)
  and whose first query failed starts from the head that its next attempt reads: what was
  mined in between is never asked for (`BeforeAnchor`).
* Empty pool data decrypts to a nil destination without an error (`terms.go:83-85`,
  `hashrate_ethereum.go:118`). A purchase with it starts a run; its tasks carry nil to
  `SetDest`, which dereferences it (`proxy.go:218`), as a destination update does at
  `controller_seller.go:181` (`panic`). `ServesThePurchase` therefore says that what is
  served was loaded with its purchase, and that nil stands for empty data only.
* A purchase is ignored if its event is handled before the run of the previous, expired
  purchase has returned. A run started in the window has its flag cleared by its
  predecessor: it runs, `State` says pending, and stops do not reach it; `SetTerms`
  ignores terms that were loaded after a close-out (`overtaken`).
* A failed call, or a contract that is no longer open, makes `handleDestinationUpdated`
  dereference a nil pointer (`panic` in `SellerController`).
* A run that finds its time over at the head of a cycle (`contract_seller_v2.go:187-192`)
  returns without `removeAllMiners`, while full miners have tasks for `Duration` from their
  allocation (`leaked`).
* The set of full miners is replaced by what a cycle saw of it (lines 396, 523, 539):
  an `OnEnd` in between is undone, and the miner stays in the set without a task (`early`).
* The end of a delivery range and the removal of a contract each close the same stop
  channel (`panic`). A delivery that could not be closed is logged through the nil
  transaction (`futures_ethereum.go:216`), and the status of its receipt is not looked at.
* The buyer's controller stores a nil error when an event arrives
  (`controller_buyer.go:57`); a `SetError` then closes the closed channel again
  (`cleared`). A subscription that fails leaves the watcher behind (`orphaned`).
* A purchase that arrives while the contract is still listed gets no controller (`lost`).
* A job announced again under an ID that is still ordered is evicted together with the
  older one (`repeated`); a message ID used again in flight shares its handler, and the
  goroutine of the first share deletes it (`reused`).
* A direction of the pipe that is started before its stopped goroutine cleared
  `isRunning` stays stopped (`"ignored"`); a share that is never counted as answered keeps
  `SetDest` waiting (`"leaked"`); a share that arrives late in a swap cancels the miner's
  connection (`"late"`); one that arrives between the last `Done` and the return of `Wait`
  (`handler_mining.go:72`) makes the `WaitGroup` panic (`waiter`).
* A miner that names a contract in `configure` is connected to its pool, while `destURL`
  stays the default (`handler_first_connect.go:188-206`, `proxy.go:71`). Until the first
  swap a `SetDest` to the default is skipped and leaves it there, a reconnect goes to the
  default, and a `SetDest` to its own address finds the connection that is in use in the
  cache and fails at `AutoReadStop`; at the first swap the callback of the old connection is
  to delete the default's entry and not its own. `Coherent` says so: address and destination
  belong together from the first swap on.
* A share that comes after a swap is credited to the pool of its job, but the callback is
  that of the current contract (`handler_mining.go:133-136`). `CreditIsRight` is about
  the statistics of the pools; whose callback counts a late share is not modelled.
* `stats.go:6-7` explains the counters of a pool as "our validator accepted and dest
  accepted" and "... dest rejected"; the goroutine of a share counts every share that was
  valid here as `WeAcceptedTheyAccepted` at the pool, whatever the pool answered
  (`handler_mining.go:168`), and the pool's `WeAcceptedTheyRejected` stays zero. Only the
  miner's side counts the rejection, so the two sides differ by each of them.
  `AccountsAreKept` states what is counted where, zero included.
* `pipe_sync.go:16-18` says that only one message is processed at a time, which makes the
  order of messages deterministic, and `handler_first_connect.go:131-133` that handlers of answers
  read and write in the same goroutine. An answer with a handler is written by the
  goroutine that reads the pool, while the loop may be between taking and writing a notification:
  it overtakes that one. `PoolIsRelayed` states how far the disorder goes: notifications
  never overtake anything, and an answer overtakes one message at most. The case the
  comment warns of, a mask before the result of `configure`, and the order that
  the (empty) test at `proxy_test.go:199-202` names are thereby excluded.
* `ConnectDest` stores its connection without closing the oldest (`proxy.go:174-204`); a
  reconnect beside a `setDest` leaves one more than `config.go:74` calls the "maximum number
  of cached destinations per proxy", which `CacheBounded` therefore says of a `Regular` pipe.
* Timers that have stopped leave `readHappened` full, and a `Read` that wants to tell them
  waits for ever (`Wedged`).

## 5. What is proved

TLAPS checks the proofs for all values of the constants that satisfy the modules' named
assumptions: there are contracts, pools and default pools and no pool of a contract is a
default pool (`ContractAssumption`, `PrimaryAssumption`), logs are numbered in the order of
the chain (`ChainAssumption`), bounds are natural numbers, the three nil destinations and
the nil pointer are no destinations (`WatcherAssumption`, `ControllerAssumption`), a bounded
map holds one key at least (`CapacityAssumption`), the default pool is a pool
(`URLAssumption`), a line has a piece (`PiecesAssumption`), there are purchases and room for
an event (`PurchasesAssumption`, `EventsAssumption`), the contracts that are looked at are
not among the others (`AllocationAssumption`). TLC evaluates all of them in the runs.

* `MinerScheduler_proofs`. The inductive invariant adds to the checked properties the
  lock discipline (at which program points the task is locked) and that the miner is on
  a default pool until the handshake is over. `TakenTaskIsFront` is not inductive alone:
  it needs that `Cancel` spares the front while it is locked and that numbers grow.
  `SizeIsLength` needs the cardinality facts of `FiniteSetTheorems` for the set that
  `Cancel` removes. `TasksAreSettled` needs a second invariant, `FateInv`: a task that is
  listed or withdrawn has been reported only by the `Range` of `onDisconnect`, except the
  one in hand after its service ended; one that was popped was reported before.
  `ImplementsRentalQueue` follows from both, one lemma for each abstract operation:
  `AddTask` submits, locking the front serves it, popping it finishes it, `Cancel`
  withdraws, and every other step leaves the list, the lock and the task in hand alone.
  Proved: `ListIsSound`, `SizeIsLength`, `NoLostWakeup`, `CreditFollowsDest`,
  `TasksAreSettled` and their parts, and `ImplementsRentalQueue`.
* The log watcher, in `BuyerContract_proofs` as the instance `Log` of `LogWatcherPolling`,
  next to the controller whose subscriptions it feeds; the theorems speak of the promises
  in `LogDelivery`. The invariant states that what was delivered precedes what
  is pending and both precede the next block, that nothing is pending when a query is
  made, that the two block variables agree, and that a watch without an anchor has had
  no answer yet; with it: `TypeOK`,
  `LossesFollowFailures`, `DeliveredInOrder` (an action property).
* `SellerController_proofs`. `OneRun` and `ClosedOnce` depend on each other: that only one
  run is alive rests on the flag, the flag on no run having closed `doneCh` early, and that
  on the run being alone. The invariant `Core` joins them: the flag is set exactly for a
  live run or in the window; a live run's done channel is open and its stop channel closed
  only while the controller waits; at the points where the controller loads, sets or starts,
  no run is alive; terms that are served or about to be are of a purchase and were loaded
  with its destination (`Dest` or `Empty`). It is inductive as long as `overtaken` is false,
  which is why it appears as `overtaken \/ Core`. `MinersReleased` adds that the miners of a
  contract are all in the statistics its run goes through when it releases them, and that
  there is such a run as long as one of them serves. Proved: `TypeOK`, `OneRunServes` and
  its parts, `ClosedOnce`, `TermsFixedWhileRunning`, `MinersReleased`.
* The futures, in `SellerController_proofs` as the instance `Futures` of `FuturesNode`, whose
  seller extends the watcher proved there; the theorem is about `ForgottenIsOver` of
  `FuturesState`. A sold future runs once, since the
  timer of its delivery date fires once, and the flag, the done channel and the controller
  that returned each say that the run is over. A judged one leaves the controller's loop
  only after its watcher closed `doneCh`, or after the range. The manager removes a
  contract only after that. Proved: `ForgottenIsOver`, for both roles.
* `Allocation_proofs`. The invariant is stated for each contract and miner. A full task is
  the first of its contract in the queue (`FullFirst`): the snapshot had free miners, and nobody
  else adds tasks of the contract; were it not the first, `Cancel` could step over it. A
  full task that is not winding up is on a miner that the run will still come across
  (`Known`): in `fullMiners` or about to be, and, in the middle of a release, among those left. The
  converse (`Counted`) holds for a miner that is disconnecting, or whose departure came
  before it was recorded (`early`), as exceptions. `CancelFacts` says what
  `Cancels` leaves of a queue of any length. The invariant was model-checked on the
  instance of `allocation` before it was proved. Proved: `TypeOK`,
  `FullTasksAreWithdrawn`, `CountedMinersServe`.
* `ShareAccounting_proofs`. The invariant says of each cache that the number of a job is
  told by its place in the order, counted back from the number of announcements; that
  what is stored with a job only grows, so that a second share with the same content is
  found again for as long as the job is there, and never judged after; and that a
  share in flight under an ID that was not reused is the one its handler waits for.
  `AccountsAreKept` needs a second invariant, `AccountInv`: shares are judged in turn, the
  counter of invalid shares is the length of a run that ends at the latest one, and, while
  nothing failed and no ID was reused, no two shares have the same handler and a share that
  waits will get its answer. The counters are stated as the sizes of sets of shares, pool
  by pool, with the shares settled so far (`settled`) as a history variable.
  Proved: `TypeOK`, `CacheIsRecent`, `CreditIsRight` and their parts, `VerdictIsItsOwn`,
  `AccountsAreKept`.
* `BuyerContract_proofs`. Three parts, each with its exception: the error is stored
  before its channel closes (`cleared`); the watcher is over before the controller acts on
  the end, returns or is forgotten (`orphaned`); and somebody knows of the purchase that
  holds the contract, namely the manager, which has yet to list contracts or has found this
  one purchased, or a controller whose terms are those of the chain (`lost`). The last is
  what `PurchaseIsWatched` needs at the places where nobody watches yet.
  Proved: `TypeOK`, `ErrorClosedOnce`, `WatchersAreKnown`, `PurchaseIsWatched`.
* `Proxy_proofs`. None of the three properties is inductive, as each swap passes through
  states in which connection, pipe, callback and miner belong to different pools. The
  invariant says for every place of `setDest` what holds there: a connection is cached under
  its own address and leaves the cache before it is taken or its reader dies; the
  destination is not read in the background; the pipe follows the destination and rests
  while it is changed; the miner follows it, one step ahead at the store; until the first
  swap there is no callback and connection 1 is in use, and from then on callback and
  address are those of the destination. The reason for a cancellation is the converse: as
  long as nothing failed and no share was late, no direction has ended, no share is
  abandoned and the connections in use are open. The size of the cache rests on
  `FiniteSetTheorems`. All of it holds after a reconnect too, which `proxy` does not
  explore. Proved: `OneReader`, `MinerMinesForDest`, `SwapsAreSound`.
* `FirstConnect_proofs`. A request or its answer is in one place at most: with the pool,
  on its way, read, being written, or with the miner; numbers are in order, and what
  was read lies below what is to come. An answer whose request has a handler reaches
  it, unless the timeout removed the handler. Only the pool's answer to authorize cancels
  the pipe, after which nothing is read; hence one message is lost at most. The order of
  what the miner has, what is being written and what waits at the loop gives that an
  answer overtakes the message being written and no other. Each error of a
  reader or of the loop has a reason. Proved: `PoolIsRelayed`, `OutcomeIsRight`.
* `StratumConnection_proofs`. One call holds the lock of its direction, and only that
  call moves its deadline. What interrupted reads and the one that reads have
  collected is the text between the last line heard and the place `ReadBytes` is at; the
  last pieces sent belong to the message of the call that writes, or to one that failed.
  Proved: `LinesAreWhole`, `MessagesAreWhole`, `ErrorsNameTheirCause`.

Every invariant and every action property of the runs is proved. Only model-checked, on
the instances of section 4: the liveness properties `EveryTaskLeaves`, `EndingsComplete`,
`WatchEnds`, `FollowsChain`, `WaitEnds`, `EndsAreReached`, `ControllerEnds`,
`SetDestReturns`, `HandshakeEnds`, `CallsReturn`, since fairness and ENABLED are
outside the prover. `ClosesWhatFailed` is refuted by its run.

## 6. What is not modelled

* The websocket watcher: what it loses over a reconnect is decided by a library.
* Dialling, JSON encoding, the hashing of block headers, version rolling and the vetting
  of a miner; encryption of destinations.
* Floating-point averages of hashrate: a cycle of a buyer has a verdict, a miner in
  `Allocation` one unit. `removeFullMiners` assigns `removedGHS` where it should add
  (`contract_seller_v2.go:370`); the model's
  `RemoveFull` removes one miner of the snapshot in a cycle, since the loop ends after the
  first for the negative target it is called with (line 297).
* The loop over delivery ranges, contracts created through HTTP, the reward claimed
  after a contract that went well.
* HTTP endpoints that only read, the GraphQL client, batched calls, the peer
  validator, configuration, logging and start-up: no state of their own, or pure I/O.
* Reorganisations of the chain behind a queried block: the watcher never looks again.
* Time is never measured: timers may fire whenever they are set, which includes every
  real timing. Data races on plain fields (`Terms`, `stats`, the channels replaced by
  `Reset` while `run` reads them, the fields of `lib.Task`) are atomic reads and writes
  in any order, not torn values.
