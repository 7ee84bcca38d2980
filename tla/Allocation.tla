------------------------------ MODULE Allocation ------------------------------
(***************************************************************************)
(* Contracts that share miners: the cycles of the sellers' contracts       *)
(* (hr/contract/contract_seller_v2.go), the allocator that picks miners    *)
(* for them from a snapshot (hr/allocator/allocator.go), and the sets of   *)
(* miners that each contract keeps (hr/contract/seller_stats.go), which    *)
(* the callbacks of the schedulers change under it.                        *)
(*                                                                         *)
(* Every miner has one unit of hashrate, and targets are counted in units; *)
(* how much was really delivered in a cycle is free.  The scheduler of     *)
(* MinerScheduler is reduced to what the contracts can tell: its queue,    *)
(* the callbacks, and when it holds the list's lock.  The contracts that    *)
(* are not looked at put tasks on the miners whenever they like.           *)
(***************************************************************************)
EXTENDS Integers, Sequences, FiniteSets

CONSTANTS Contract, Miner,
          Other,        \* stands for every contract that is not in Contract
          NoMiner,
          MaxTasks,     \* bound: tasks in a miner's queue
          Most          \* bound: units of hashrate that a contract lacks

ASSUME AllocationAssumption ==
    NoMiner \notin Miner /\ Other \notin Contract /\ {MaxTasks, Most} \subseteq Nat \ {0}

VARIABLES
    \* the schedulers
    queue,      \* queue[m]: its tasks
    sched,      \* sched[m]: what it does with the one in front
    told,       \* told[m]: how many tasks onDisconnect has gone through
    \* the contracts
    pc,
    target,     \* target[c]: deliveryTargetGHS
    left,       \* left[c]: miners of the snapshot, or of a removal, still to do
    pick,       \* pick[c]: the miner that was looked up
    added,      \* added[c]: miners with a new task, not yet in the sets
    full,       \* full[c]: stats.fullMiners
    partial,    \* partial[c]: stats.partialMiners
    sweep,      \* sweep[c]: partial miners that a share is removing
    \* history
    early,      \* full tasks that left while the set could not be told: before the
                \* miner was in it, while it was replaced, or removed by a share
    leaked      \* contracts whose run returned without removing its miners

schedVars == <<queue, sched, told>>
setVars == <<full, partial>>
historyVars == <<early, leaked>>
runVars == <<pc, target, left, pick, added>>
vars == <<schedVars, runVars, setVars, sweep, historyVars>>

Target == -1 .. Most
Capped(n) == IF n > Most THEN Most ELSE IF n < -1 THEN -1 ELSE n

Task == [contract : Contract \cup {Other}, kind : {"full", "partial"}]

Init ==
    /\ queue = [m \in Miner |-> <<>>]
    /\ sched = [m \in Miner |-> "free"]
    /\ told = [m \in Miner |-> 0]
    /\ pc = [c \in Contract |-> "done"]
    /\ target = [c \in Contract |-> 0]
    /\ left = [c \in Contract |-> {}]
    /\ pick = [c \in Contract |-> NoMiner]
    /\ added = [c \in Contract |-> {}]
    /\ full = [c \in Contract |-> {}]
    /\ partial = [c \in Contract |-> {}]
    /\ sweep = [c \in Contract |-> {}]
    /\ early = {} /\ leaked = {}

Served(m) == sched[m] \in {"serve", "cancel"}
Listed(m) == sched[m] # "gone"
Disconnecting(m) == sched[m] \in {"range", "gone"}

\* the read lock of onDisconnect's Range
Locked(m) == sched[m] = "range"

IsFree(m) == queue[m] = <<>>

\* Send of minerDisconnectCh returns when the run receives or has stopped it
Sends(c) == pc[c] \in {"select", "done"}

Has(c, m, kind) == \E i \in 1 .. Len(queue[m]) : queue[m][i] = [contract |-> c, kind |-> kind]

--------------------------------------------------------------------------------
\* The scheduler

\* the miners of a set that is about to take the place of fullMiners
Pruning(c) == IF pc[c] \in {"remove", "prune", "pruneAll"} THEN left[c] ELSE {}

\* OnEnd of the contract's closures: a partial task leaves both sets
OnEnd(t, m) == IF t.contract = Other THEN UNCHANGED <<setVars, early>> ELSE
    /\ full' = [full EXCEPT ![t.contract] = @ \ {m}]
    /\ partial' = IF t.kind = "partial" THEN [partial EXCEPT ![t.contract] = @ \ {m}] ELSE partial
    /\ early' = IF t.kind = "full" /\ m \in added[t.contract] \cup Pruning(t.contract)
                  THEN early \cup {<<t.contract, m>>} ELSE early

LockNextTask(m) ==
    /\ sched[m] = "free" /\ queue[m] # <<>>
    /\ sched' = [sched EXCEPT ![m] = "serve"]
    /\ UNCHANGED <<queue, told, runVars, setVars, sweep, historyVars>>

\* mutant: the contract is not told of the end
EndUntold(m) ==
    /\ Served(m)
    /\ sched' = [sched EXCEPT ![m] = "free"]
    /\ queue' = [queue EXCEPT ![m] = Tail(@)]
    /\ UNCHANGED <<told, runVars, setVars, sweep, historyVars>>

\* the task in front is done, cancelled, or late, or its pool failed
End(m) ==
    /\ Served(m)
    /\ OnEnd(Head(queue[m]), m)
    /\ sched' = [sched EXCEPT ![m] = "ended"]
    /\ UNCHANGED <<queue, told, runVars, sweep, leaked>>

UnlockAndRemove(m) ==
    /\ sched[m] = "ended"
    /\ queue' = [queue EXCEPT ![m] = Tail(@)]
    /\ sched' = [sched EXCEPT ![m] = "free"]
    /\ UNCHANGED <<told, runVars, setVars, sweep, historyVars>>

\* the proxy exits; a task that was being served ends first
ProxyExits(m) ==
    /\ sched[m] \in {"free", "serve", "cancel"}
    /\ IF Served(m) THEN OnEnd(Head(queue[m]), m) ELSE UNCHANGED <<setVars, early>>
    /\ sched' = [sched EXCEPT ![m] = "range"]
    /\ UNCHANGED <<queue, told, runVars, sweep, leaked>>

\* OnDisconnect of the contract's closures waits until the run receives, or is
\* over; the run adds what it lost and adjusts
OnDisconnect(m) ==
    /\ sched[m] = "range" /\ told[m] < Len(queue[m])
    /\ told' = [told EXCEPT ![m] = @ + 1]
    /\ LET t == queue[m][told'[m]] IN
         /\ t.contract # Other => Sends(t.contract)
         /\ IF t.contract = Other \/ pc[t.contract] = "done"
              THEN UNCHANGED <<target, pc>>
              ELSE /\ target' = [target EXCEPT ![t.contract] = Capped(@ + 1)]
                   /\ pc' = [pc EXCEPT ![t.contract] = "adjust"]
         /\ OnEnd(t, m)
    /\ UNCHANGED <<queue, sched, left, pick, added, sweep, leaked>>

\* onDisconnect is over and the miner leaves the collection
Gone(m) ==
    /\ sched[m] = "range" /\ told[m] = Len(queue[m])
    /\ sched' = [sched EXCEPT ![m] = "gone"]
    /\ queue' = [queue EXCEPT ![m] = <<>>]
    /\ told' = [told EXCEPT ![m] = 0]
    /\ UNCHANGED <<runVars, setVars, sweep, historyVars>>

Scheduler(m) == LockNextTask(m) \/ End(m) \/ UnlockAndRemove(m) \/ ProxyExits(m) \/ OnDisconnect(m) \/ Gone(m)

\* AddTask; the queue of a miner that is gone is nobody's
AddTask(m, c, kind) ==
    /\ ~ Locked(m) /\ Len(queue[m]) < MaxTasks
    /\ queue' = IF Listed(m) THEN [queue EXCEPT ![m] = Append(@, [contract |-> c, kind |-> kind])] ELSE queue

\* TaskList.Cancel of the tasks of c in q, of which those at place are kept: not the
\* one in front while it is busy, and a task that slides into the place of a removed
\* one is stepped over
Cancels(q, busy, c, place) ==
    LET Kept(i) == \E j \in DOMAIN place : place[j] = i
    IN  /\ \A i, j \in DOMAIN place : i < j => place[i] < place[j]
        /\ \A i \in 1 .. Len(q) :
             ~ Kept(i) <=> q[i].contract = c /\ (IF i = 1 THEN ~ busy ELSE Kept(i - 1))

\* the task in front is cancelled when it is being served
RemoveTasksByID(m, c) ==
    /\ ~ Locked(m)
    /\ \E n \in 0 .. Len(queue[m]) : \E place \in [1 .. n -> 1 .. Len(queue[m])] :
         /\ Cancels(queue[m], sched[m] # "free", c, place)
         /\ queue' = [queue EXCEPT ![m] = [j \in 1 .. n |-> queue[m][place[j]]]]
    /\ sched' = IF sched[m] = "serve" /\ Head(queue[m]).contract = c THEN [sched EXCEPT ![m] = "cancel"] ELSE sched
    /\ UNCHANGED told

\* another contract adds a task, or withdraws what it has; bound: one task a miner
OtherContract(m) ==
    /\ \/ ~ Has(Other, m, "full") /\ AddTask(m, Other, "full") /\ UNCHANGED <<sched, told>>
       \/ Has(Other, m, "full") /\ RemoveTasksByID(m, Other)
    /\ UNCHANGED <<runVars, setVars, sweep, historyVars>>

--------------------------------------------------------------------------------
\* The run of a contract

Goes(c, place) == pc' = [pc EXCEPT ![c] = place]

\* run: new sets, and the first cycle; a contract that leaked is left at that
Start(c) ==
    /\ pc[c] = "done" /\ c \notin leaked
    /\ Goes(c, "top")
    /\ target' = [target EXCEPT ![c] = 1]
    /\ full' = [full EXCEPT ![c] = {}]
    /\ partial' = [partial EXCEPT ![c] = {}]
    /\ early' = {p \in early : p[1] # c}
    /\ UNCHANGED <<schedVars, left, pick, added, sweep, leaked>>

\* CONTRACT_CYCLE: the contract may be over, which returns at once
Top(c) ==
    /\ pc[c] = "top"
    /\ \/ Goes(c, "adjust") /\ partial' = [partial EXCEPT ![c] = {}] /\ UNCHANGED leaked
       \/ Goes(c, "done") /\ leaked' = leaked \cup {c} /\ UNCHANGED partial
    /\ UNCHANGED <<schedVars, target, left, pick, added, full, sweep, early>>

\* getFullMinersSorted, getAvailableFullMiners look the miners up; a set without the
\* ones that are gone then takes the place of fullMiners
Available(c) == {m \in full[c] : Listed(m)}
Pruned(c) == IF Cardinality(left[c]) < Cardinality(full[c]) THEN left[c] ELSE full[c]

\* getMinersSnapshot for full miners, and for partial ones, which may be busy
FreeMiners == {m \in Miner : ~ Disconnecting(m) /\ IsFree(m)}
Snapshot == {m \in Miner : ~ Disconnecting(m)}

\* adjustHashrate, and the snapshot of AllocateFullMinersForHR
Adjust(c) ==
    /\ pc[c] = "adjust"
    /\ \/ target[c] = 0 /\ Goes(c, "select") /\ UNCHANGED left
       \/ /\ target[c] > 0 /\ Goes(c, "full")
          /\ left' = [left EXCEPT ![c] = FreeMiners]
       \/ target[c] < 0 /\ Goes(c, "remove") /\ left' = [left EXCEPT ![c] = Available(c)]
    /\ UNCHANGED <<schedVars, target, pick, added, setVars, sweep, historyVars>>

\* removeFullMiners: a negative target ends the loop after its first miner
RemoveFull(c) ==
    /\ pc[c] = "remove"
    /\ \/ \E m \in left[c] :
            /\ RemoveTasksByID(m, c)
            /\ full' = [full EXCEPT ![c] = Pruned(c) \ {m}]
            /\ target' = [target EXCEPT ![c] = IF Listed(m) THEN @ + 1 ELSE @]
       \/ /\ left[c] = {}
          /\ full' = [full EXCEPT ![c] = {}]
          /\ UNCHANGED <<schedVars, target>>
    /\ left' = [left EXCEPT ![c] = {}]
    /\ Goes(c, "select")
    /\ UNCHANGED <<pick, added, partial, sweep, historyVars>>

\* Load and IsDisconnecting of the next miner of the snapshot; a busy one may have
\* no time left for a partial task
LookUp(c) ==
    /\ pc[c] \in {"full", "partial"} /\ pick[c] = NoMiner /\ target[c] > 0
    /\ \E m \in left[c] :
         /\ left' = [left EXCEPT ![c] = @ \ {m}]
         /\ \/ ~ Disconnecting(m) /\ pick' = [pick EXCEPT ![c] = m]
            \/ (Disconnecting(m) \/ pc[c] = "partial") /\ UNCHANGED pick
    /\ UNCHANGED <<schedVars, pc, target, added, setVars, sweep, historyVars>>

Allocate(c) ==
    /\ pick[c] # NoMiner
    /\ AddTask(pick[c], c, pc[c])
    /\ added' = [added EXCEPT ![c] = @ \cup {pick[c]}]
    /\ pick' = [pick EXCEPT ![c] = NoMiner]
    /\ target' = [target EXCEPT ![c] = @ - 1]
    /\ early' = IF pc[c] = "full" THEN early \ {<<c, pick[c]>>} ELSE early
    /\ UNCHANGED <<sched, told, pc, left, setVars, sweep, leaked>>

\* the snapshot is used up or the target is reached
Allocated(c) == pick[c] = NoMiner /\ (left[c] = {} \/ target[c] = 0)

\* mutant: only the first of the miners is put into the set
RecordOne(c) ==
    /\ pc[c] = "full" /\ Allocated(c)
    /\ full' = IF added[c] = {} THEN full ELSE [full EXCEPT ![c] = @ \cup {CHOOSE m \in added[c] : TRUE}]
    /\ added' = [added EXCEPT ![c] = {}]
    /\ left' = [left EXCEPT ![c] = {}]
    /\ Goes(c, "select")
    /\ UNCHANGED <<schedVars, target, pick, partial, sweep, historyVars>>

\* addFullMiners records them; what is lacking is asked of partial miners, which
\* are free or have time left until the end of the cycle
RecordFull(c) ==
    /\ pc[c] = "full" /\ Allocated(c)
    /\ full' = [full EXCEPT ![c] = @ \cup added[c]]
    /\ added' = [added EXCEPT ![c] = {}]
    /\ IF target[c] = 0
         THEN Goes(c, "select") /\ left' = [left EXCEPT ![c] = {}]
         ELSE /\ Goes(c, "partial")
              /\ left' = [left EXCEPT ![c] = Snapshot]
    /\ UNCHANGED <<schedVars, target, pick, partial, sweep, historyVars>>

RecordPartial(c) ==
    /\ pc[c] = "partial" /\ Allocated(c)
    /\ partial' = [partial EXCEPT ![c] = @ \cup added[c]]
    /\ added' = [added EXCEPT ![c] = {}]
    /\ left' = [left EXCEPT ![c] = {}]
    /\ Goes(c, "select")
    /\ UNCHANGED <<schedVars, target, pick, full, sweep, historyVars>>

\* the select statement: too little hashrate, the end of the cycle, or of the
\* contract
Select(c) ==
    /\ pc[c] = "select"
    /\ \/ target[c] > 0 /\ Goes(c, "adjust") /\ UNCHANGED left
       \/ /\ \E next \in {"prune", "pruneAll"} : Goes(c, next)
          /\ left' = [left EXCEPT ![c] = Available(c)]
    /\ UNCHANGED <<schedVars, target, pick, added, setVars, sweep, historyVars>>

\* onCycleEnd sets the target by what was delivered and by what full miners have
CycleEnd(c) ==
    /\ pc[c] = "prune"
    /\ full' = [full EXCEPT ![c] = Pruned(c)]
    /\ \E n \in Target : target' = [target EXCEPT ![c] = n]
    /\ left' = [left EXCEPT ![c] = {}]
    /\ Goes(c, "top")
    /\ UNCHANGED <<schedVars, pick, added, partial, sweep, historyVars>>

ContractEnd(c) ==
    /\ pc[c] = "pruneAll"
    /\ full' = [full EXCEPT ![c] = Pruned(c)]
    /\ left' = [left EXCEPT ![c] = Pruned(c)]
    /\ Goes(c, "release")
    /\ UNCHANGED <<schedVars, target, pick, added, partial, sweep, historyVars>>

\* removeAllMiners, the full ones first
Release(c) ==
    /\ pc[c] \in {"release", "releasePartial"}
    /\ IF left[c] # {}
         THEN /\ \E m \in left[c] : RemoveTasksByID(m, c) /\ left' = [left EXCEPT ![c] = @ \ {m}]
              /\ UNCHANGED <<pc, leaked>>
         ELSE /\ IF pc[c] = "release"
                   THEN Goes(c, "releasePartial") /\ left' = [left EXCEPT ![c] = partial[c]] /\ UNCHANGED leaked
                   ELSE Goes(c, "done") /\ UNCHANGED <<left, leaked>>
              /\ UNCHANGED schedVars
    /\ UNCHANGED <<target, pick, added, setVars, sweep, early>>

Run(c) ==
    \/ Start(c) \/ Top(c) \/ Adjust(c) \/ RemoveFull(c) \/ LookUp(c) \/ Allocate(c)
    \/ RecordFull(c)
    \/ RecordPartial(c) \/ Select(c) \/ CycleEnd(c) \/ ContractEnd(c) \/ Release(c)

\* the share of a partial miner that reaches the target of the cycle: its
\* goroutine removes the partial miners one by one
ReachTarget(c) ==
    /\ sweep[c] = {} /\ partial[c] # {}      \* bound: one share at a time
    /\ \E m \in Miner : Served(m) /\ Head(queue[m]) = [contract |-> c, kind |-> "partial"]
    /\ sweep' = [sweep EXCEPT ![c] = partial[c]]
    /\ UNCHANGED <<schedVars, runVars, setVars, historyVars>>

Sweep(c) ==
    /\ \E m \in sweep[c] :
         /\ RemoveTasksByID(m, c)
         /\ sweep' = [sweep EXCEPT ![c] = @ \ {m}]
         /\ early' = IF Has(c, m, "full") THEN early \cup {<<c, m>>} ELSE early
    /\ UNCHANGED <<runVars, setVars, leaked>>

Next ==
    \/ \E m \in Miner : Scheduler(m) \/ OtherContract(m)
    \/ \E c \in Contract : Run(c) \/ ReachTarget(c) \/ Sweep(c)

Spec == Init /\ [][Next]_vars

--------------------------------------------------------------------------------
\* Every variable keeps the shape its declaration in the code gives it.
TypeOK ==
    /\ queue \in [Miner -> Seq(Task)]
    /\ sched \in [Miner -> {"free", "serve", "cancel", "ended", "range", "gone"}]
    /\ told \in [Miner -> 0 .. MaxTasks]
    /\ pc \in [Contract -> {"done", "top", "adjust", "full", "partial", "remove",
                               "select", "prune", "pruneAll", "release", "releasePartial"}]
    /\ target \in [Contract -> Target]
    /\ left \in [Contract -> SUBSET Miner] /\ added \in [Contract -> SUBSET Miner]
    /\ full \in [Contract -> SUBSET Miner] /\ partial \in [Contract -> SUBSET Miner]
    /\ sweep \in [Contract -> SUBSET Miner]
    /\ pick \in [Contract -> Miner \cup {NoMiner}]
    /\ leaked \subseteq Contract

\* A full task that waits or is served on a miner that is connected is one that
\* its contract knows of, or is just about to: else neither the end of the contract
\* nor too much hashrate would ever withdraw it (contract_seller_v2.go:346).
FullTaskIsKnown ==
    \A c \in Contract \ leaked, m \in Miner :
        Has(c, m, "full") /\ sched[m] \notin {"cancel", "ended", "range"} => m \in full[c] \cup added[c]

\* A run that has returned after removing its miners leaves no full task behind
\* but one that was cancelled and is being wound up.
ReleasedAtEnd ==
    \A c \in Contract \ leaked, m \in Miner :
        pc[c] = "done" /\ Has(c, m, "full") => sched[m] \in {"cancel", "ended", "range"}

\* The full tasks of a contract can be withdrawn while it runs and are when it ends.
FullTasksAreWithdrawn == TypeOK /\ FullTaskIsKnown /\ ReleasedAtEnd

\* A connected miner that a contract counts as full has a task of it, so that its
\* hashrate is not subtracted from the target for nothing (contract_seller_v2.go:260),
\* unless the set could not be told that the task left: lines 350, 396, 523, 539.
CountedMinersServe ==
    \A c \in Contract : pc[c] = "select" =>
        \A m \in full[c] : Disconnecting(m) \/ <<c, m>> \in early \/ Has(c, m, "full")

================================================================================
