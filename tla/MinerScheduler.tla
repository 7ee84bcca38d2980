----------------------------- MODULE MinerScheduler -----------------------------
(***************************************************************************)
(* One connected miner: the task list of internal/.../allocator/           *)
(* tasklist.go, the scheduler goroutine of scheduler.go that serves it,    *)
(* the proxy it drives (only its destination, its submit callback and the  *)
(* way it exits), and the contract goroutines that add and cancel tasks    *)
(* and are told when the miner goes away.                                  *)
(*                                                                         *)
(* Tasks are numbered in the order in which AddTask appended them, so the  *)
(* deque is the set of the numbers it holds and its front is the smallest. *)
(* The pool connections, hashrates and jobs are abstracted: a SetDest      *)
(* succeeds or fails, a deadline passes, a share exhausts a job or not.    *)
(***************************************************************************)
EXTENDS Integers, Sequences, FiniteSets

CONSTANTS Contract,     \* contracts that rent hashrate from this miner
          Pool,         \* pool addresses a contract may ask for
          Primary,      \* default pools of the seller
          MaxTasks      \* bound: calls of AddTask on this miner

ASSUME ContractAssumption == Contract # {} /\ Pool # {} /\ Primary # {}
ASSUME MaxTasksAssumption == MaxTasks \in Nat
ASSUME PrimaryAssumption == Primary \cap (Contract \X Pool) = {}

VARIABLES
    \* TaskList
    job,                \* job[t]: contract and pool of the t-th task
    queue,              \* the deque: numbers of the tasks it holds
    size,               \* the atomic counter read without the mutex
    taken,              \* taskTaken
    cancelled,          \* tasks whose cancelCh is closed
    \* Scheduler
    pc,                 \* where the scheduler goroutine is
    cur,                \* the local variable task of taskLoop
    newTaskSignal,      \* the one-slot channel is full
    isDisconnecting,
    primaryDest,
    \* Proxy
    destURL,            \* destination shares go to
    onSubmit,           \* task whose closure is installed; 0 if none
    proxyExit,          \* "running", or how the proxyTask ended
    \* Contract goroutines and timers
    cpc,                \* cpc[c]: where the goroutine of contract c is
    expired,            \* tasks whose deadline has passed
    \* History
    ended,              \* ended[t]: number of calls of OnEnd
    dropped,            \* tasks whose OnDisconnect returned
    withdrawn           \* tasks removed by TaskList.Cancel

listVars == <<job, queue, size, taken, cancelled, withdrawn>>
schedVars == <<pc, cur, newTaskSignal, isDisconnecting, primaryDest>>
proxyVars == <<destURL, onSubmit, proxyExit>>
historyVars == <<ended, dropped>>
vars == <<listVars, schedVars, proxyVars, cpc, expired, historyVars>>

--------------------------------------------------------------------------------
Task == 1 .. MaxTasks

\* mutant: every contract's shares are sent under one user name
OneUserDest(c, p) == <<CHOOSE d \in Contract : TRUE, p>>

\* getAdjustedDest: the user name of the URL is the contract's ID
AdjustedDest(c, p) == <<c, p>>

Job == [contract : Contract, dest : Contract \X Pool]

JobDest(t) == job[t].dest

URL == Primary \cup (Contract \X Pool)

\* onDisconnect ranges over the list with the read lock held, across callbacks
ReadLocked == pc = "range"

\* mutant: the last task is served first
IsBack(t) == t \in queue /\ \A u \in queue : u <= t

IsFront(t) == t \in queue /\ \A u \in queue : t <= u

Matches(c) == {t \in queue : job[t].contract = c}

\* mutant: Cancel removes the task being served as well
RemovableAll(c) == Matches(c)

\* Cancel only closes the channel of the task being served
Removable(c) == {t \in Matches(c) : ~ (taken /\ IsFront(t))}

\* the removable tasks of c that stand side by side before t, t included
RunUpTo(c, t) ==
    {u \in Removable(c) :
        u <= t /\ \A v \in queue : u <= v /\ v <= t => v \in Removable(c)}

\* The loop of Cancel steps over the task that slides into a removed place,
\* so of tasks standing side by side it removes the first, the third...
Removed(c) == {t \in Removable(c) : Cardinality(RunUpTo(c, t)) % 2 = 1}

\* mutant: Cancel counts down for the task whose channel it closes too
CancelCountsTaken(c) ==
    /\ ~ ReadLocked
    /\ queue' = queue \ Removed(c)
    /\ size' = size - Cardinality(Removed(c) \cup {t \in Matches(c) : taken /\ IsFront(t)})
    /\ cancelled' = cancelled \cup {t \in Matches(c) : taken /\ IsFront(t)}
    /\ withdrawn' = withdrawn \cup Removed(c)
    /\ UNCHANGED <<job, taken>>

Cancel(c) ==
    /\ ~ ReadLocked
    /\ queue' = queue \ Removed(c)
    /\ size' = size - Cardinality(Removed(c))
    /\ cancelled' = cancelled \cup {t \in Matches(c) : taken /\ IsFront(t)}
    /\ withdrawn' = withdrawn \cup Removed(c)
    /\ UNCHANGED <<job, taken>>

--------------------------------------------------------------------------------
Init ==
    /\ job = <<>>
    /\ queue = {}
    /\ size = 0
    /\ taken = FALSE
    /\ cancelled = {}
    /\ pc = "connect"
    /\ cur = 0
    /\ newTaskSignal = FALSE
    /\ isDisconnecting = FALSE
    /\ primaryDest \in Primary
    /\ destURL = primaryDest
    /\ onSubmit = 0
    /\ proxyExit = "running"
    /\ cpc = [c \in Contract |-> "stopped"]
    /\ expired = {}
    /\ ended = [t \in Task |-> 0]
    /\ dropped = {}
    /\ withdrawn = {}

Goto(l) == pc' = l /\ UNCHANGED <<cur, newTaskSignal, isDisconnecting, primaryDest>>

--------------------------------------------------------------------------------
\* The scheduler goroutine: Run

\* proxy.Connect: the handshake succeeds or Run returns
Connect ==
    /\ pc = "connect"
    /\ \/ /\ pc' = "top"
          /\ primaryDest' = destURL
          /\ UNCHANGED <<cur, newTaskSignal, isDisconnecting>>
       \/ Goto("gone")
    /\ UNCHANGED <<listVars, proxyVars, cpc, expired, historyVars>>

\* Proxy.setDest: nothing happens, the callback included, when the
\* destination is the current one; otherwise both change together
SetDest(url, callback) ==
    /\ IF url = destURL
       THEN UNCHANGED <<destURL, onSubmit>>
       ELSE destURL' = url /\ onSubmit' = callback
    /\ UNCHANGED proxyExit

SetDestFails(url) == url # destURL /\ UNCHANGED proxyVars

\* top of the loop: back on the primary destination, then a new proxyTask
RunTop ==
    /\ pc = "top"
    /\ \/ /\ Goto("check")
          /\ IF destURL = primaryDest
             THEN UNCHANGED <<destURL, onSubmit>>
             ELSE destURL' = primaryDest /\ onSubmit' = 0
          /\ proxyExit' = "running"
       \/ SetDestFails(primaryDest) /\ Goto("disconnect")
    /\ UNCHANGED <<listVars, cpc, expired, historyVars>>

ProxyDone == proxyExit # "running"

\* where mainLoop's error takes Run: back to the primary, or out
AfterError == IF proxyExit = "destError" THEN Goto("destFailed") ELSE Goto("disconnect")

RunCheck ==
    /\ pc = "check"
    /\ IF ProxyDone THEN Goto("disconnect") ELSE Goto("lock")
    /\ UNCHANGED <<listVars, proxyVars, cpc, expired, historyVars>>

\* UnlockAndRemove pops the front, whatever the scheduler was serving
UnlockAndRemove(next) ==
    /\ taken' = FALSE
    /\ IF ~ taken \/ queue = {}
       THEN Goto("panic") /\ UNCHANGED <<queue, size>>
       ELSE /\ \E t \in queue : IsFront(t) /\ queue' = queue \ {t}
            /\ size' = size - 1
            /\ Goto(next)
    /\ UNCHANGED <<job, cancelled, withdrawn>>

\* a destination failed: its task is removed, its contract learns by onDestErr
RunDestFailed ==
    /\ pc = "destFailed"
    /\ IF taken
       THEN UnlockAndRemove("top")
       ELSE Goto("top") /\ UNCHANGED listVars
    /\ UNCHANGED <<proxyVars, cpc, expired, historyVars>>

OnEnd(t) == ended' = [ended EXCEPT ![t] = @ + 1] /\ UNCHANGED dropped

--------------------------------------------------------------------------------
\* The scheduler goroutine: taskLoop and mainLoop

LockNextTask ==
    /\ pc = "lock"
    /\ IF taken
       THEN Goto("panic") /\ UNCHANGED taken
       ELSE IF queue = {}
       THEN Goto("drained") /\ UNCHANGED taken
       ELSE /\ taken' = TRUE
            /\ \E t \in queue : IsFront(t) /\ cur' = t
            /\ pc' = "poll"
            /\ UNCHANGED <<newTaskSignal, isDisconnecting, primaryDest>>
    /\ UNCHANGED <<job, queue, size, cancelled, withdrawn>>
    /\ UNCHANGED <<proxyVars, cpc, expired, historyVars>>

\* mutant: the cancelled branch forgets OnEnd
ServiceEndsSilently ==
    \/ OnEnd(cur) /\ ProxyDone /\ AfterError
    \/ UNCHANGED historyVars /\ cur \in cancelled /\ Goto("unlock")
    \/ OnEnd(cur) /\ cur \in expired /\ Goto("unlock")

\* the three ways the service of a task ends, in both selects of taskLoop
ServiceEnds ==
    /\ OnEnd(cur)
    /\ \/ ProxyDone /\ AfterError
       \/ cur \in cancelled /\ Goto("unlock")
       \/ cur \in expired /\ Goto("unlock")

\* the select with a default, before the destination is changed
PollTask ==
    /\ pc = "poll"
    /\ \/ ServiceEnds
       \/ /\ ~ ProxyDone /\ cur \notin cancelled /\ cur \notin expired
          /\ Goto("setDest")
          /\ UNCHANGED historyVars
    /\ UNCHANGED <<listVars, proxyVars, cpc, expired>>

\* connecting to the task's pool; a pool that cannot be reached is a
\* destination error, a miner that cannot be notified is not
SetTaskDest ==
    /\ pc = "setDest"
    /\ \/ /\ SetDest(JobDest(cur), cur)
          /\ Goto("serve")
          /\ UNCHANGED historyVars
       \/ /\ SetDestFails(JobDest(cur))
          /\ OnEnd(cur)
          /\ Goto("destFailed") \/ Goto("disconnect")
    /\ UNCHANGED <<listVars, cpc, expired>>

\* the blocking select while the miner works for the task
ServeTask ==
    /\ pc = "serve"
    /\ ServiceEnds
    /\ UNCHANGED <<listVars, proxyVars, cpc, expired>>

UnlockTask ==
    /\ pc = "unlock"
    /\ UnlockAndRemove("lock")
    /\ UNCHANGED <<proxyVars, cpc, expired, historyVars>>

TakeSignal(next) ==
    /\ newTaskSignal
    /\ newTaskSignal' = FALSE
    /\ pc' = next
    /\ UNCHANGED <<cur, isDisconnecting, primaryDest>>

\* mainLoop, no task left: a signal that came meanwhile is looked at first
Drained ==
    /\ pc = "drained"
    /\ \/ ProxyDone /\ AfterError
       \/ TakeSignal("lock")
       \/ ~ ProxyDone /\ ~ newTaskSignal /\ Goto("toPrimary")
    /\ UNCHANGED <<listVars, proxyVars, cpc, expired, historyVars>>

ToPrimary ==
    /\ pc = "toPrimary"
    /\ \/ SetDest(primaryDest, 0) /\ Goto("idle")
       \/ SetDestFails(primaryDest) /\ (Goto("destFailed") \/ Goto("disconnect"))
    /\ UNCHANGED <<listVars, cpc, expired, historyVars>>

\* parked until a task is signalled or the proxy exits
Idle ==
    /\ pc = "idle"
    /\ \/ ProxyDone /\ AfterError
       \/ TakeSignal("lock")
    /\ UNCHANGED <<listVars, proxyVars, cpc, expired, historyVars>>

--------------------------------------------------------------------------------
\* The scheduler goroutine: onDisconnect

OnDisconnect ==
    /\ pc = "disconnect"
    /\ isDisconnecting' = TRUE
    /\ pc' = "range"
    /\ UNCHANGED <<cur, newTaskSignal, primaryDest>>
    /\ UNCHANGED <<listVars, proxyVars, cpc, expired, historyVars>>

\* the task the Range is at
NextDropped(t) == t \in queue \ dropped /\ \A u \in queue \ dropped : t <= u

\* mutant: a channel whose reader stopped is not unblocked
RangeNotifyOnly ==
    /\ pc = "range"
    /\ \E t \in queue :
        /\ NextDropped(t)
        /\ cpc[job[t].contract] = "select"
        /\ dropped' = dropped \cup {t}
        /\ ended' = [ended EXCEPT ![t] = @ + 1]
    /\ UNCHANGED <<listVars, schedVars, proxyVars, cpc, expired>>

\* minerDisconnectCh.Send: a rendezvous with the contract's select, or the
\* channel was stopped; OnEnd follows in the same iteration
RangeNotify ==
    /\ pc = "range"
    /\ \E t \in queue :
        /\ NextDropped(t)
        /\ cpc[job[t].contract] \in {"select", "stopped"}
        /\ dropped' = dropped \cup {t}
        /\ ended' = [ended EXCEPT ![t] = @ + 1]
    /\ UNCHANGED <<listVars, schedVars, proxyVars, cpc, expired>>

RangeDone ==
    /\ pc = "range"
    /\ queue \subseteq dropped
    /\ Goto("leave")
    /\ UNCHANGED <<listVars, proxyVars, cpc, expired, historyVars>>

\* after the Range: the task being served is removed, and Run returns
Leave ==
    /\ pc = "leave"
    /\ IF taken
       THEN UnlockAndRemove("gone")
       ELSE Goto("gone") /\ UNCHANGED listVars
    /\ UNCHANGED <<proxyVars, cpc, expired, historyVars>>

SchedulerStep ==
    \/ Connect \/ RunTop \/ RunCheck \/ RunDestFailed
    \/ LockNextTask \/ PollTask \/ SetTaskDest \/ ServeTask \/ UnlockTask
    \/ Drained \/ ToPrimary \/ Idle
    \/ OnDisconnect \/ RangeNotify \/ RangeDone \/ Leave

--------------------------------------------------------------------------------
\* The contracts, each the goroutine of ContractWatcherSellerV2.run

\* from Store to Delete in the allocator's collection
Registered == pc # "gone"

CGoto(c, l) == cpc' = [cpc EXCEPT ![c] = l]

StartRun(c) ==
    /\ cpc[c] = "stopped"
    /\ CGoto(c, "select")
    /\ UNCHANGED <<listVars, schedVars, proxyVars, expired, historyVars>>

\* the allocator picked this miner: loaded, vetted and not disconnecting
ChooseMiner(c) ==
    /\ cpc[c] = "select"
    /\ Registered /\ pc # "connect" /\ ~ isDisconnecting
    /\ Len(job) < MaxTasks
    /\ CGoto(c, "add")
    /\ UNCHANGED <<listVars, schedVars, proxyVars, expired, historyVars>>

\* mutant: the length is read before the task is appended
AddTaskOldLength(c) ==
    /\ cpc[c] = "add"
    /\ ~ ReadLocked
    /\ Len(job) < MaxTasks
    /\ \E p \in Pool : job' = Append(job, [contract |-> c, dest |-> AdjustedDest(c, p)])
    /\ queue' = queue \cup {Len(job')}
    /\ size' = size + 1
    /\ CGoto(c, IF Cardinality(queue) = 1 THEN "signal" ELSE "select")
    /\ UNCHANGED <<taken, cancelled, withdrawn>>
    /\ UNCHANGED <<schedVars, proxyVars, expired, historyVars>>

\* Scheduler.AddTask, tasks.Add: append under the mutex
AddTask(c) ==
    /\ cpc[c] = "add"
    /\ ~ ReadLocked
    /\ Len(job) < MaxTasks
    /\ \E p \in Pool : job' = Append(job, [contract |-> c, dest |-> AdjustedDest(c, p)])
    /\ queue' = queue \cup {Len(job')}
    /\ size' = size + 1
    /\ CGoto(c, IF Cardinality(queue') = 1 THEN "signal" ELSE "select")
    /\ UNCHANGED <<taken, cancelled, withdrawn>>
    /\ UNCHANGED <<schedVars, proxyVars, expired, historyVars>>

\* Scheduler.AddTask: the first task of the list is signalled
SignalNewTask(c) ==
    /\ cpc[c] = "signal"
    /\ newTaskSignal' = TRUE
    /\ CGoto(c, "select")
    /\ UNCHANGED <<pc, cur, isDisconnecting, primaryDest>>
    /\ UNCHANGED <<listVars, proxyVars, expired, historyVars>>

\* removeFullMiners, and removeAllMiners when the contract ends, reach for
\* the list of this miner if they find it among the contract's miners
BeginRemove(c, l) ==
    /\ cpc[c] = "select"
    /\ Registered
    /\ CGoto(c, l)
    /\ UNCHANGED <<listVars, schedVars, proxyVars, expired, historyVars>>

RemoveTasks(c, from, to) ==
    /\ cpc[c] = from
    /\ Cancel(c)
    /\ CGoto(c, to)
    /\ UNCHANGED <<schedVars, proxyVars, expired, historyVars>>

\* the contract ends without a task on this miner to remove
StopElsewhere(c) ==
    /\ cpc[c] = "select"
    /\ CGoto(c, "stopped")
    /\ UNCHANGED <<listVars, schedVars, proxyVars, expired, historyVars>>

ReduceHashrate(c) == BeginRemove(c, "reduce") \/ RemoveTasks(c, "reduce", "select")

StopRun(c) ==
    BeginRemove(c, "stopping") \/ RemoveTasks(c, "stopping", "stopped") \/ StopElsewhere(c)

ContractStep(c) ==
    \/ StartRun(c) \/ ChooseMiner(c) \/ AddTask(c) \/ SignalNewTask(c)
    \/ ReduceHashrate(c) \/ StopRun(c)

--------------------------------------------------------------------------------
\* Everybody else

\* a partial miner's share reached the cycle's target: removeAllPartialMiners
\* runs in the goroutine of the proxy that read the share
TargetReached(c) ==
    /\ Registered
    /\ Cancel(c)
    /\ UNCHANGED <<schedVars, proxyVars, cpc, expired, historyVars>>

\* a share exhausts the job of the task whose callback is installed
JobDone ==
    /\ onSubmit # 0
    /\ ~ ProxyDone
    /\ cancelled' = cancelled \cup {onSubmit}
    /\ UNCHANGED <<job, queue, size, taken, withdrawn>>
    /\ UNCHANGED <<schedVars, proxyVars, cpc, expired, historyVars>>

DeadlinePasses(t) ==
    /\ t \in queue \ expired
    /\ expired' = expired \cup {t}
    /\ UNCHANGED <<listVars, schedVars, proxyVars, cpc, historyVars>>

\* proxy.Run returns: its pool is lost for good, or miner or context is gone
ProxyExits ==
    /\ pc \notin {"connect", "top", "gone"}
    /\ ~ ProxyDone
    /\ proxyExit' \in {"destError", "otherError"}
    /\ UNCHANGED <<listVars, schedVars, destURL, onSubmit, cpc, expired, historyVars>>

\* HTTP ChangeDest: a new default pool for every miner
SetPrimaryDest ==
    /\ Registered
    /\ primaryDest' \in Primary
    /\ newTaskSignal' = TRUE
    /\ UNCHANGED <<pc, cur, isDisconnecting>>
    /\ UNCHANGED <<listVars, proxyVars, cpc, expired, historyVars>>

Environment ==
    \/ JobDone \/ ProxyExits \/ SetPrimaryDest
    \/ \E c \in Contract : TargetReached(c)
    \/ \E t \in Task : DeadlinePasses(t)

Next == SchedulerStep \/ Environment \/ \E c \in Contract : ContractStep(c)

Spec == Init /\ [][Next]_vars

--------------------------------------------------------------------------------
\* Properties

CStates == {"stopped", "select", "add", "signal", "reduce", "stopping"}

PCs == {"connect", "top", "check", "destFailed", "lock", "poll", "setDest", "serve",
        "unlock", "drained", "toPrimary", "idle", "disconnect", "range", "leave",
        "gone", "panic"}

\* Every variable keeps the shape its declaration in the code gives it.
TypeOK ==
    /\ job \in Seq(Job)
    /\ Len(job) <= MaxTasks
    /\ queue \subseteq 1 .. Len(job)
    /\ size \in Nat
    /\ taken \in BOOLEAN
    /\ cancelled \subseteq 1 .. Len(job)
    /\ withdrawn \subseteq 1 .. Len(job)
    /\ pc \in PCs
    /\ cur \in 0 .. Len(job)
    /\ newTaskSignal \in BOOLEAN
    /\ isDisconnecting \in BOOLEAN
    /\ primaryDest \in Primary
    /\ destURL \in URL
    /\ onSubmit \in 0 .. Len(job)
    /\ proxyExit \in {"running", "destError", "otherError"}
    /\ cpc \in [Contract -> CStates]
    /\ expired \subseteq 1 .. Len(job)
    /\ ended \in [Task -> Nat]
    /\ dropped \subseteq 1 .. Len(job)

\* LockNextTask never finds a task taken and UnlockAndRemove never finds the
\* list unlocked or empty, whatever the contracts add and cancel meanwhile.
NoPanic == pc # "panic"

\* The task whose closures the scheduler runs is the one UnlockAndRemove will
\* pop: no Cancel and no AddTask moves it from the front while it is taken.
TakenTaskIsFront == taken => IsFront(cur)

\* The task list is never misused: UnlockAndRemove pops the task that was served,
\* and none of the three panics of tasklist.go:84-112 is reached.
ListIsSound == TypeOK /\ NoPanic /\ TakenTaskIsFront

\* The counter IsFree and IsPartialBusy read without the mutex is the length
\* of the deque: no miner looks free while it holds a task, or busy for ever.
SizeIsLength == size = Cardinality(queue)

\* The scheduler is never parked on a non-empty list without a wake-up that
\* is in the channel or about to be sent: AddTask signals only the first task.
NoLostWakeup ==
    pc \in {"drained", "toPrimary", "idle"} /\ queue # {} =>
        newTaskSignal \/ \E c \in Contract : cpc[c] = "signal"

\* While a task is served, shares go to its pool and are credited to its
\* contract, although SetDest keeps the previous task's callback when the
\* destination does not change.
SharesCreditServedContract ==
    pc = "serve" =>
        /\ destURL = JobDest(cur)
        /\ onSubmit # 0 /\ job[onSubmit].contract = job[cur].contract

\* Shares sent to a default pool of the seller are credited to no contract.
PrimarySharesUncredited == (destURL \in Primary) <=> (onSubmit = 0)

\* The callback that credits shares follows the destination (proxy.go:214-218).
CreditFollowsDest == SharesCreditServedContract /\ PrimarySharesUncredited

\* No task disappears: one that is no longer listed had its OnEnd called or
\* was cancelled by its contract before it was taken, and never both unless
\* the miner disconnected.
NoTaskLost ==
    \A t \in 1 .. Len(job) :
        /\ t \in queue \/ t \in withdrawn \/ ended[t] > 0
        /\ t \in withdrawn => t \notin queue /\ (ended[t] = 0 \/ t \in dropped)

\* OnEnd is called again for a task only by the Range of onDisconnect, and
\* only for the task that was being served when the proxy exited.
SecondOnEndIsDisconnect ==
    \A t \in 1 .. Len(job) :
        ended[t] <= (IF t \in dropped THEN 1 ELSE 0) + (IF t = cur \/ t \notin dropped THEN 1 ELSE 0)

\* The owner of a task learns its end, once, or withdrew it; the task that the
\* proxy's exit interrupted is the only one reported twice (scheduler.go:181, 240).
TasksAreSettled == NoTaskLost /\ SecondOnEndIsDisconnect

\* The scheduler, in the Range with the list's read lock, waits for a contract
\* to receive, and that contract waits for the write lock: both for ever.
CircularWait ==
    /\ pc = "range"
    /\ \E t \in queue : NextDropped(t) /\ cpc[job[t].contract] \in {"add", "reduce", "stopping"}

--------------------------------------------------------------------------------
\* The promise to the contracts

TaskFate(t) ==
    IF t \in queue THEN IF taken /\ t = cur THEN "serving" ELSE "waiting"
    ELSE IF t \in withdrawn THEN "withdrawn" ELSE "finished"

RQ == INSTANCE RentalQueue WITH
        owner <- [t \in 1 .. Len(job) |-> job[t].contract],
        fate <- [t \in 1 .. Len(job) |-> TaskFate(t)]

\* The scheduler implements the abstract queue: tasks are served one at a time
\* and in order, a served task is not withdrawn under the miner's feet, and
\* whatever else the code does is invisible to the contracts.
ImplementsRentalQueue == RQ!Spec

--------------------------------------------------------------------------------
\* Liveness

\* Goroutines are scheduled, SetDest returns, and timers fire. A contract that
\* waits for the list's lock gets it once it is free; nothing makes a contract
\* leave its select, a proxy exit or an operator change the default pool.
Fairness ==
    /\ WF_vars(SchedulerStep)
    /\ \A c \in Contract :
        /\ WF_vars(AddTask(c))
        /\ WF_vars(SignalNewTask(c))
        /\ WF_vars(RemoveTasks(c, "reduce", "select"))
        /\ WF_vars(RemoveTasks(c, "stopping", "stopped"))
    /\ \A t \in Task : WF_vars(DeadlinePasses(t))

FairSpec == Spec /\ Fairness

\* A listed task is served to its end or cancelled, or its miner is gone; the
\* only other way out is the circular wait above.
EveryTaskLeaves ==
    \A t \in Task : t \in queue ~> t \notin queue \/ pc = "gone" \/ CircularWait

\* A contract that is ending gets past the lock of the miner's list.
StopCompletes ==
    \A c \in Contract : cpc[c] = "stopping" ~> cpc[c] = "stopped" \/ CircularWait

\* A miner that disconnects is let go once every owner of its tasks was told.
DisconnectCompletes == pc = "disconnect" ~> pc = "gone" \/ CircularWait

\* Contracts that end and miners that leave get past the list's lock.
EndingsComplete == StopCompletes /\ DisconnectCompletes

================================================================================
