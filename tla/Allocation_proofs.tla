--------------------------- MODULE Allocation_proofs ---------------------------
(***************************************************************************)
(* Proofs about the contracts that share miners, for every set of          *)
(* contracts and miners and queues of every length: the full tasks of a    *)
(* contract are withdrawn when it ends, and the miners that it counts as   *)
(* full work for it.  The inductive invariant is stated for a contract and *)
(* a miner at a time: an action changes the queue of one miner and the     *)
(* sets of one contract, and leaves all the other pairs alone.             *)
(***************************************************************************)
EXTENDS Allocation, SequenceTheorems, TLAPS

FullTask(c) == [contract |-> c, kind |-> "full"]

FullAt(c, m, i) == i \in 1 .. Len(queue[m]) /\ queue[m][i] = FullTask(c)

HasTask(c, m) == \E i \in 1 .. Len(queue[m]) : queue[m][i].contract = c

\* The task at place i is over, or its scheduler is.
WindsUp(m, i) == sched[m] = "range" \/ (i = 1 /\ sched[m] \in {"cancel", "ended"})

\* A busy scheduler has a task in front, and a miner that is gone has none.
QueueInv(m) ==
    /\ Len(queue[m]) <= MaxTasks
    /\ sched[m] \in {"serve", "cancel", "ended"} => queue[m] # <<>>
    /\ sched[m] = "gone" => queue[m] = <<>>

\* Miners are picked only while the contract allocates, and each of them once.
RunInv(c) ==
    /\ pick[c] # NoMiner => pc[c] \in {"full", "partial"} /\ target[c] > 0 /\ pick[c] \notin left[c]
    /\ added[c] # {} => pc[c] \in {"full", "partial"}
    /\ pc[c] \in {"full", "partial"} => target[c] >= 0
    /\ pc[c] = "remove" => target[c] < 0

\* A full task is the first one of its contract, so that Cancel does not step over it.
FullFirst(c, m) ==
    \A i \in 1 .. Len(queue[m]) : FullAt(c, m, i) => \A j \in 1 .. i - 1 : queue[m][j].contract # c

\* A miner that may still get a full task has no task of the contract: the
\* snapshot had free miners, and nobody else adds tasks of it.
FreshPick(c, m) == pc[c] = "full" /\ (m \in left[c] \/ m = pick[c]) => ~ HasTask(c, m)

\* Where the run of c will find m when it withdraws its full tasks.
IsKnown(c, m) ==
    /\ pc[c] \notin {"releasePartial", "done"}
    /\ m \in full[c] \/ (pc[c] = "full" /\ m \in added[c])
    /\ pc[c] = "release" => m \in left[c]

Known(c, m) ==
    c \notin leaked => \A i \in 1 .. Len(queue[m]) : FullAt(c, m, i) /\ ~ WindsUp(m, i) => IsKnown(c, m)

\* The set that is about to take the place of fullMiners lacks none that is connected.
Complete(c, m) == pc[c] \in {"remove", "prune", "pruneAll"} /\ m \in full[c] /\ Listed(m) => m \in left[c]

\* m is a full miner of c, or is about to be one.
Counts(c, m) ==
    /\ pc[c] \notin {"release", "releasePartial", "done"}
    /\ m \in full[c] \/ (pc[c] = "full" /\ m \in added[c]) \/ m \in Pruning(c)

Serves(c, m) == \E i \in 1 .. Len(queue[m]) : FullAt(c, m, i) /\ ~ (i = 1 /\ sched[m] = "ended")

Counted(c, m) == Counts(c, m) => Disconnecting(m) \/ <<c, m>> \in early \/ Serves(c, m)

PairInv(c, m) == FullFirst(c, m) /\ FreshPick(c, m) /\ Known(c, m) /\ Complete(c, m) /\ Counted(c, m)

IInv ==
    /\ TypeOK
    /\ \A m \in Miner : QueueInv(m)
    /\ \A c \in Contract : RunInv(c)
    /\ \A c \in Contract, m \in Miner : PairInv(c, m)

\* The state of the pair is as it was: of the miner, and of the contract.
QueueSame(m) == queue'[m] = queue[m] /\ sched'[m] = sched[m]

RunSame(c, m) ==
    /\ pc'[c] = pc[c] /\ pick'[c] = pick[c]
    /\ m \in left'[c] <=> m \in left[c]
    /\ m \in added'[c] <=> m \in added[c]
    /\ m \in full'[c] <=> m \in full[c]
    /\ <<c, m>> \in early' <=> <<c, m>> \in early
    /\ c \in leaked' <=> c \in leaked

--------------------------------------------------------------------------------
\* Queues

\* Append, on the parts of the result that the proofs speak of.
LEMMA AppendFacts ==
  ASSUME NEW S, NEW q \in Seq(S), NEW t \in S
  PROVE  /\ Append(q, t) \in Seq(S) /\ Len(Append(q, t)) = Len(q) + 1 /\ Len(q) \in Nat
         /\ \A i \in 1 .. Len(q) : Append(q, t)[i] = q[i]
         /\ Append(q, t)[Len(q) + 1] = t
BY AppendProperties

\* Tail shifts every place by one, and Head is the first place.
LEMMA TailFacts ==
  ASSUME NEW S, NEW q \in Seq(S), q # <<>>
  PROVE  /\ Tail(q) \in Seq(S) /\ Len(Tail(q)) = Len(q) - 1 /\ Len(q) \in Nat \ {0}
         /\ \A i \in 1 .. Len(q) - 1 : Tail(q)[i] = q[i + 1]
         /\ Head(q) = q[1] /\ q[1] \in S
<1>1. /\ Tail(q) \in Seq(S) /\ Len(Tail(q)) = Len(q) - 1 /\ Head(q) \in S
      /\ \A i \in 1 .. Len(Tail(q)) : Tail(q)[i] = q[i + 1]
  BY HeadTailProperties
<1>2. Len(q) \in Nat \ {0} /\ Head(q) = q[1]
  BY EmptySeq, LenProperties
<1> QED
  BY <1>1, <1>2

\* What Cancel leaves: a part of the queue in its order, with all the tasks of other
\* contracts and a busy front, but without the first task of c.
Remains(q, busy, c, r, place) ==
    /\ r \in Seq(Task) /\ Len(r) \in 0 .. Len(q)
    /\ \A j \in 1 .. Len(r) : r[j] = q[place[j]] /\ place[j] \in 1 .. Len(q)
    /\ \A i, j \in 1 .. Len(r) : i < j => place[i] < place[j]
    /\ \A i \in 1 .. Len(q) : q[i].contract # c => \E j \in 1 .. Len(r) : place[j] = i
    /\ busy /\ Len(q) > 0 => Len(r) > 0 /\ place[1] = 1
    /\ \A j \in 1 .. Len(r) :
         (\A i \in 1 .. place[j] - 1 : q[i].contract # c) /\ q[place[j]].contract = c
           => busy /\ place[j] = 1 /\ j = 1

\* The loop of TaskList.Cancel leaves what Remains says, whatever it steps over.
LEMMA CancelFacts ==
  ASSUME NEW q \in Seq(Task), NEW busy \in BOOLEAN, NEW c, NEW n \in 0 .. Len(q),
         NEW place \in [1 .. n -> 1 .. Len(q)], Cancels(q, busy, c, place)
  PROVE  Remains(q, busy, c, [j \in 1 .. n |-> q[place[j]]], place)
<1> DEFINE r == [j \in 1 .. n |-> q[place[j]]]
           Kept(i) == \E j \in 1 .. n : place[j] = i
<1>1. Len(q) \in Nat /\ n \in Nat /\ \A i \in 1 .. Len(q) : q[i] \in Task
  BY LenProperties, ElementOfSeq
<1>2. r \in Seq(Task) /\ Len(r) = n
  <2>1. r \in [1 .. n -> Task]
    BY <1>1
  <2> QED
    BY <1>1, <2>1, IsASeq
<1>3. /\ \A i, j \in 1 .. n : i < j => place[i] < place[j]
      /\ \A i \in 1 .. Len(q) : ~ Kept(i) <=> q[i].contract = c /\ (IF i = 1 THEN ~ busy ELSE Kept(i - 1))
  BY DEF Cancels
<1>4. ASSUME NEW j \in 1 .. n, place[j] = 1 PROVE j = 1
  BY <1>1, <1>3, <1>4
<1>5. busy /\ Len(q) > 0 => n > 0 /\ place[1] = 1
  <2> SUFFICES ASSUME busy, Len(q) > 0 PROVE n > 0 /\ place[1] = 1
    OBVIOUS
  <2>1. Kept(1)
    BY <1>1, <1>3
  <2>2. PICK j \in 1 .. n : place[j] = 1
    BY <2>1
  <2> QED
    BY <1>1, <1>4, <2>2
<1>6. ASSUME NEW j \in 1 .. n, \A i \in 1 .. place[j] - 1 : q[i].contract # c, q[place[j]].contract = c
      PROVE  busy /\ place[j] = 1 /\ j = 1
  <2>1. place[j] \in 1 .. Len(q) /\ Kept(place[j])
    OBVIOUS
  <2>2. CASE place[j] = 1
    BY <1>3, <1>4, <1>6, <2>1, <2>2
  <2>3. CASE place[j] # 1
    <3>1. place[j] - 1 \in 1 .. Len(q) /\ place[j] - 1 \in 1 .. place[j] - 1
      BY <1>1, <2>1, <2>3
    <3>2. Kept(place[j] - 1)
      BY <1>3, <1>6, <3>1
    <3> QED
      BY <1>3, <1>6, <2>1, <2>3, <3>2
  <2> QED
    BY <2>2, <2>3
<1> HIDE DEF r
<1>7. /\ r \in Seq(Task) /\ Len(r) = n /\ n \in 0 .. Len(q)
      /\ \A j \in 1 .. n : r[j] = q[place[j]] /\ place[j] \in 1 .. Len(q)
  BY <1>1, <1>2 DEF r
<1>8. \A i \in 1 .. Len(q) : q[i].contract # c => \E j \in 1 .. n : place[j] = i
  BY <1>3
<1>9. Remains(q, busy, c, r, place)
  BY <1>3, <1>5, <1>6, <1>7, <1>8 DEF Remains
<1> QED
  BY <1>9 DEF r

\* RemoveTasksByID leaves what Remains says of the one queue, and cancels the task that
\* is being served.
LEMMA RemoveFacts ==
  ASSUME TypeOK, NEW m \in Miner, NEW c, RemoveTasksByID(m, c)
  PROVE  /\ sched[m] # "range" /\ told' = told
         /\ \A k \in Miner \ {m} : QueueSame(k)
         /\ sched' \in [Miner -> {"free", "serve", "cancel", "ended", "range", "gone"}]
         /\ sched'[m] = IF sched[m] = "serve" /\ Head(queue[m]).contract = c THEN "cancel" ELSE sched[m]
         /\ queue' \in [Miner -> Seq(Task)]
         /\ \E place : Remains(queue[m], sched[m] # "free", c, queue'[m], place)
<1>1. /\ queue \in [Miner -> Seq(Task)]
      /\ sched \in [Miner -> {"free", "serve", "cancel", "ended", "range", "gone"}]
  BY DEF TypeOK
<1>2. PICK n \in 0 .. Len(queue[m]) : \E place \in [1 .. n -> 1 .. Len(queue[m])] :
         /\ Cancels(queue[m], sched[m] # "free", c, place)
         /\ queue' = [queue EXCEPT ![m] = [j \in 1 .. n |-> queue[m][place[j]]]]
  BY DEF RemoveTasksByID
<1>3. PICK place \in [1 .. n -> 1 .. Len(queue[m])] :
         /\ Cancels(queue[m], sched[m] # "free", c, place)
         /\ queue' = [queue EXCEPT ![m] = [j \in 1 .. n |-> queue[m][place[j]]]]
  BY <1>2
<1>4. queue[m] \in Seq(Task) /\ (sched[m] # "free") \in BOOLEAN
  BY <1>1
<1>5. Remains(queue[m], sched[m] # "free", c, [j \in 1 .. n |-> queue[m][place[j]]], place)
  BY <1>3, <1>4, CancelFacts
<1>6. queue'[m] = [j \in 1 .. n |-> queue[m][place[j]]] /\ \A k \in Miner \ {m} : queue'[k] = queue[k]
  BY <1>1, <1>3
<1>7. Remains(queue[m], sched[m] # "free", c, queue'[m], place)
  BY <1>5, <1>6, Zenon
<1>8. queue'[m] \in Seq(Task)
  BY <1>7 DEF Remains
<1>9. queue' \in [Miner -> Seq(Task)]
  BY <1>1, <1>3, <1>6, <1>8
<1>10. /\ sched[m] # "range" /\ told' = told
       /\ sched' = IF sched[m] = "serve" /\ Head(queue[m]).contract = c THEN [sched EXCEPT ![m] = "cancel"] ELSE sched
  BY DEF RemoveTasksByID, Locked
<1>11. /\ \A k \in Miner \ {m} : sched'[k] = sched[k]
       /\ sched' \in [Miner -> {"free", "serve", "cancel", "ended", "range", "gone"}]
       /\ sched'[m] = IF sched[m] = "serve" /\ Head(queue[m]).contract = c THEN "cancel" ELSE sched[m]
  BY <1>1, <1>10
<1> QED
  BY <1>6, <1>7, <1>9, <1>10, <1>11, Zenon DEF QueueSame

--------------------------------------------------------------------------------
\* Pairs of a contract and a miner

\* Nothing that concerns the pair changed.
LEMMA PairSame ==
  ASSUME NEW c, NEW m, PairInv(c, m), QueueSame(m), RunSame(c, m)
  PROVE  PairInv(c, m)'
<1> USE DEF QueueSame, RunSame, HasTask, FullAt
<1>1. FullFirst(c, m)' /\ FreshPick(c, m)'
  BY DEF PairInv, FullFirst, FreshPick
<1>2. Known(c, m)'
  BY DEF PairInv, Known, IsKnown, WindsUp
<1>3. Complete(c, m)' /\ Counted(c, m)'
  BY DEF PairInv, Complete, Listed, Counted, Counts, Pruning, Disconnecting, Serves
<1> QED
  BY <1>1, <1>2, <1>3 DEF PairInv

\* Another contract's task was appended to the queue.
LEMMA PairAppended ==
  ASSUME TypeOK, NEW c, NEW m \in Miner, NEW t \in Task, t.contract # c, PairInv(c, m),
         queue'[m] = Append(queue[m], t), sched'[m] = sched[m], RunSame(c, m)
  PROVE  PairInv(c, m)'
<1>1. queue[m] \in Seq(Task)
  BY DEF TypeOK
<1>2. /\ Len(queue'[m]) = Len(queue[m]) + 1 /\ Len(queue[m]) \in Nat
      /\ \A i \in 1 .. Len(queue[m]) : queue'[m][i] = queue[m][i]
      /\ queue'[m][Len(queue[m]) + 1] = t
  BY <1>1, AppendFacts
<1>3. \A i \in 1 .. Len(queue'[m]) : queue'[m][i].contract = c => i \in 1 .. Len(queue[m])
  BY <1>2
<1>4. \A i \in Nat : FullAt(c, m, i)' <=> FullAt(c, m, i)
  BY <1>2, <1>3 DEF FullAt, FullTask
<1>5. HasTask(c, m)' <=> HasTask(c, m)
  BY <1>2, <1>3 DEF HasTask
<1>6. FullFirst(c, m)'
  <2> SUFFICES ASSUME NEW i \in 1 .. Len(queue'[m]), FullAt(c, m, i)', NEW j \in 1 .. i - 1
               PROVE  queue'[m][j].contract # c
    BY DEF FullFirst
  <2>1. FullAt(c, m, i) /\ i \in 1 .. Len(queue[m]) /\ j \in 1 .. Len(queue[m])
    BY <1>2, <1>4 DEF FullAt
  <2> QED
    BY <1>2, <2>1 DEF PairInv, FullFirst
<1>7. FreshPick(c, m)'
  BY <1>5 DEF PairInv, FreshPick, RunSame
<1>8. Known(c, m)'
  <2> SUFFICES ASSUME c \notin leaked', NEW i \in 1 .. Len(queue'[m]), FullAt(c, m, i)', ~ WindsUp(m, i)'
               PROVE  IsKnown(c, m)'
    BY DEF Known
  <2>1. FullAt(c, m, i) /\ i \in 1 .. Len(queue[m]) /\ ~ WindsUp(m, i) /\ c \notin leaked
    BY <1>2, <1>4 DEF FullAt, WindsUp, RunSame
  <2> QED
    BY <2>1 DEF PairInv, Known, IsKnown, RunSame
<1>9. Complete(c, m)' /\ Counted(c, m)'
  <2>1. Complete(c, m)' /\ (Counts(c, m)' => Counts(c, m))
    BY DEF PairInv, Complete, Listed, Counts, Pruning, RunSame
  <2>2. Serves(c, m) => Serves(c, m)'
    BY <1>2, <1>4 DEF Serves, FullAt
  <2> QED
    BY <2>1, <2>2 DEF PairInv, Counted, Disconnecting, RunSame
<1> QED
  BY <1>6, <1>7, <1>8, <1>9 DEF PairInv

\* Tasks of another contract were cancelled.
LEMMA PairRemoved ==
  ASSUME TypeOK, NEW c, NEW m \in Miner, NEW d, d # c, QueueInv(m), PairInv(c, m), RemoveTasksByID(m, d), RunSame(c, m)
  PROVE  PairInv(c, m)'
<1> DEFINE busy == sched[m] # "free"
           r == queue'[m]
<1>1. PICK place : Remains(queue[m], busy, d, r, place)
  BY RemoveFacts
<1>2. /\ sched[m] # "range" /\ Len(queue[m]) \in Nat
      /\ sched'[m] = IF sched[m] = "serve" /\ Head(queue[m]).contract = d THEN "cancel" ELSE sched[m]
  BY RemoveFacts, LenProperties DEF TypeOK
<1> HIDE DEF r
<1>3. ASSUME NEW j \in 1 .. Len(r)
      PROVE  /\ place[j] \in 1 .. Len(queue[m]) /\ r[j] = queue[m][place[j]] /\ Len(r) \in Nat
             /\ FullAt(c, m, j)' <=> FullAt(c, m, place[j])
             /\ \A i \in 1 .. j - 1 : place[i] \in 1 .. place[j] - 1
  <2>1. Len(r) \in Nat /\ \A i \in 1 .. Len(r) : place[i] \in 1 .. Len(queue[m]) /\ r[i] = queue[m][place[i]]
    BY <1>1, <1>2 DEF Remains
  <2>2. ASSUME NEW i \in 1 .. j - 1 PROVE place[i] \in 1 .. place[j] - 1
    <3>1. i \in 1 .. Len(r) /\ i < j /\ place[i] \in 1 .. Len(queue[m]) /\ place[j] \in 1 .. Len(queue[m])
      BY <2>1
    <3>2. place[i] < place[j]
      BY <1>1, <3>1 DEF Remains
    <3> QED
      BY <1>2, <3>1, <3>2
  <2> QED
    BY <2>1, <2>2 DEF FullAt, r
<1>4. ASSUME NEW j \in 1 .. Len(r), busy PROVE place[1] = 1 /\ (j = 1 <=> place[j] = 1)
  <2>1. place[1] = 1 /\ Len(r) \in Nat /\ 1 \in 1 .. Len(r)
    BY <1>1, <1>2, <1>3, <1>4 DEF Remains
  <2>2. 1 < j => place[1] < place[j]
    BY <1>1, <2>1 DEF Remains
  <2> QED
    BY <1>3, <2>1, <2>2
<1>5. FullFirst(c, m)'
  <2> SUFFICES ASSUME NEW j \in 1 .. Len(r), FullAt(c, m, j)', NEW i \in 1 .. j - 1 PROVE r[i].contract # c
    BY DEF FullFirst, r
  <2>1. i \in 1 .. Len(r)
    BY <1>3
  <2>2. r[i] = queue[m][place[i]] /\ place[i] \in 1 .. place[j] - 1
    BY <1>3, <2>1
  <2>3. FullAt(c, m, place[j]) /\ place[j] \in 1 .. Len(queue[m])
    BY <1>3
  <2> QED
    BY <2>2, <2>3 DEF PairInv, FullFirst
<1>6. FreshPick(c, m)'
  <2>1. HasTask(c, m)' => HasTask(c, m)
    BY <1>3 DEF HasTask, r
  <2> QED
    BY <2>1 DEF PairInv, FreshPick, RunSame
<1>7. Known(c, m)'
  <2> SUFFICES ASSUME c \notin leaked', NEW j \in 1 .. Len(r), FullAt(c, m, j)', ~ WindsUp(m, j)'
               PROVE  IsKnown(c, m)'
    BY DEF Known, r
  <2>1. FullAt(c, m, place[j]) /\ place[j] \in 1 .. Len(queue[m])
    BY <1>3
  <2>2. ~ WindsUp(m, place[j])
    BY <1>2, <1>4 DEF WindsUp
  <2> QED
    BY <2>1, <2>2 DEF PairInv, Known, IsKnown, RunSame
<1>8. Complete(c, m)' /\ Counted(c, m)'
  <2>1. Complete(c, m)' /\ (Counts(c, m)' => Counts(c, m)) /\ (Disconnecting(m) => Disconnecting(m)')
    BY <1>2 DEF PairInv, Complete, Listed, Counts, Pruning, Disconnecting, RunSame
  <2>2. ASSUME NEW i \in 1 .. Len(queue[m]), FullAt(c, m, i), ~ (i = 1 /\ sched[m] = "ended") PROVE Serves(c, m)'
    <3>1. PICK j \in 1 .. Len(r) : place[j] = i
      BY <1>1, <2>2 DEF Remains, FullAt, FullTask
    <3>2. FullAt(c, m, j)'
      BY <1>3, <2>2, <3>1
    <3>3. ~ (j = 1 /\ sched'[m] = "ended")
      BY <1>2, <1>4, <2>2, <3>1
    <3> QED
      BY <3>2, <3>3 DEF Serves, r
  <2> QED
    BY <2>1, <2>2 DEF PairInv, Counted, Serves, RunSame
<1> QED
  BY <1>5, <1>6, <1>7, <1>8 DEF PairInv

\* The tasks of the contract itself were cancelled: a full one is left only if it
\* was in front and busy, and then it is wound up.
LEMMA OwnRemoved ==
  ASSUME TypeOK, NEW c, NEW m \in Miner, QueueInv(m), FullFirst(c, m), RemoveTasksByID(m, c)
  PROVE  /\ HasTask(c, m)' => HasTask(c, m)
         /\ FullFirst(c, m)'
         /\ \A i \in 1 .. Len(queue'[m]) : FullAt(c, m, i)' => WindsUp(m, i)' /\ Has(c, m, "full")
         /\ Listed(m)' <=> Listed(m)
         /\ Disconnecting(m)' <=> Disconnecting(m)
<1> DEFINE busy == sched[m] # "free"
           r == queue'[m]
<1>1. PICK place : Remains(queue[m], busy, c, r, place)
  BY RemoveFacts
<1>2. /\ sched[m] # "range" /\ Len(queue[m]) \in Nat
      /\ sched'[m] = IF sched[m] = "serve" /\ Head(queue[m]).contract = c THEN "cancel" ELSE sched[m]
      /\ sched[m] \in {"free", "serve", "cancel", "ended", "range", "gone"}
      /\ queue[m] \in Seq(Task)
  BY RemoveFacts, LenProperties DEF TypeOK
<1> HIDE DEF r
<1>3. ASSUME NEW j \in 1 .. Len(r)
      PROVE  /\ place[j] \in 1 .. Len(queue[m]) /\ r[j] = queue[m][place[j]] /\ Len(r) \in Nat
             /\ FullAt(c, m, j)' <=> FullAt(c, m, place[j])
  BY <1>1, <1>2 DEF Remains, FullAt, r
<1>4. ASSUME NEW j \in 1 .. Len(r), FullAt(c, m, j)'
      PROVE  j = 1 /\ WindsUp(m, j)' /\ Has(c, m, "full")
  <2>1. FullAt(c, m, place[j]) /\ place[j] \in 1 .. Len(queue[m]) /\ queue[m][place[j]].contract = c
    BY <1>3, <1>4 DEF FullAt, FullTask
  <2>2. busy /\ place[j] = 1 /\ j = 1
    BY <1>1, <2>1 DEF Remains, FullFirst
  <2>3. queue[m] # <<>> /\ Head(queue[m]) = queue[m][1]
    BY <1>2, <2>1, EmptySeq, LenProperties
  <2>4. sched'[m] \in {"cancel", "ended"}
    BY <1>2, <2>1, <2>2, <2>3 DEF QueueInv
  <2> QED
    BY <2>1, <2>2, <2>4 DEF WindsUp, Has, FullAt, FullTask
<1>5. FullFirst(c, m)'
  <2> SUFFICES ASSUME NEW j \in 1 .. Len(r), FullAt(c, m, j)', NEW i \in 1 .. j - 1 PROVE FALSE
    BY DEF FullFirst, r
  <2> QED
    BY <1>4
<1>6. HasTask(c, m)' => HasTask(c, m)
  BY <1>3 DEF HasTask, r
<1>7. (Listed(m)' <=> Listed(m)) /\ (Disconnecting(m)' <=> Disconnecting(m))
  BY <1>2 DEF Listed, Disconnecting
<1> QED
  BY <1>4, <1>5, <1>6, <1>7 DEF r

\* RemoveTasksByID keeps a busy scheduler's task in front.
LEMMA QueueRemoved ==
  ASSUME TypeOK, NEW m \in Miner, NEW c, QueueInv(m), RemoveTasksByID(m, c)
  PROVE  QueueInv(m)'
<1>1. PICK place : Remains(queue[m], sched[m] # "free", c, queue'[m], place)
  BY RemoveFacts
<1>2. /\ Len(queue[m]) \in Nat /\ queue[m] \in Seq(Task) /\ queue'[m] \in Seq(Task)
      /\ sched'[m] = IF sched[m] = "serve" /\ Head(queue[m]).contract = c THEN "cancel" ELSE sched[m]
  BY RemoveFacts, LenProperties DEF TypeOK
<1>3. Len(queue'[m]) \in 0 .. Len(queue[m]) /\ (sched[m] # "free" /\ Len(queue[m]) > 0 => Len(queue'[m]) > 0)
  BY <1>1 DEF Remains
<1>4. /\ queue[m] = <<>> <=> Len(queue[m]) = 0
      /\ queue'[m] = <<>> <=> Len(queue'[m]) = 0
  BY <1>2, EmptySeq
<1> QED
  BY <1>2, <1>3, <1>4, AllocationAssumption DEF QueueInv

\* What the callback at the end of a task does.
LEMMA EndFacts ==
  ASSUME TypeOK, NEW m \in Miner, NEW t \in Task, OnEnd(t, m)
  PROVE  /\ full' \in [Contract -> SUBSET Miner] /\ partial' \in [Contract -> SUBSET Miner]
         /\ \A c \in Contract : full'[c] = IF t.contract = c THEN full[c] \ {m} ELSE full[c]
         /\ early \subseteq early'
         /\ \A p \in early' : p \in early \/ p = <<t.contract, m>>
         /\ \A c \in Contract : t = FullTask(c) /\ m \in added[c] \cup Pruning(c) => <<c, m>> \in early'
<1>1. /\ full \in [Contract -> SUBSET Miner] /\ partial \in [Contract -> SUBSET Miner]
      /\ t.contract \in Contract \cup {Other} /\ t.kind \in {"full", "partial"} /\ Other \notin Contract
  BY AllocationAssumption DEF Task, TypeOK
<1>2. CASE t.contract = Other
  BY <1>1, <1>2 DEF OnEnd, setVars, FullTask
<1>3. CASE t.contract # Other
  <2>1. /\ full' = [full EXCEPT ![t.contract] = @ \ {m}]
        /\ partial' = IF t.kind = "partial" THEN [partial EXCEPT ![t.contract] = @ \ {m}] ELSE partial
        /\ early' = IF t.kind = "full" /\ m \in added[t.contract] \cup Pruning(t.contract)
                      THEN early \cup {<<t.contract, m>>} ELSE early
    BY <1>3 DEF OnEnd
  <2>2. full' \in [Contract -> SUBSET Miner] /\ partial' \in [Contract -> SUBSET Miner]
    BY <1>1, <1>3, <2>1
  <2>3. \A c \in Contract : full'[c] = IF t.contract = c THEN full[c] \ {m} ELSE full[c]
    BY <1>1, <1>3, <2>1
  <2>4. /\ early \subseteq early'
        /\ \A p \in early' : p \in early \/ p = <<t.contract, m>>
    BY <2>1
  <2>5. \A c \in Contract : t = FullTask(c) /\ m \in added[c] \cup Pruning(c) => <<c, m>> \in early'
    BY <2>1 DEF FullTask
  <2> QED
    BY <2>2, <2>3, <2>4, <2>5
<1> QED
  BY <1>2, <1>3

\* AddTask puts the task at the end, unless the miner is gone.
LEMMA AddFacts ==
  ASSUME TypeOK, NEW m \in Miner, NEW c \in Contract \cup {Other}, NEW kind \in {"full", "partial"}, AddTask(m, c, kind)
  PROVE  /\ sched[m] # "range" /\ Len(queue[m]) < MaxTasks
         /\ [contract |-> c, kind |-> kind] \in Task
         /\ queue' \in [Miner -> Seq(Task)]
         /\ \A k \in Miner \ {m} : queue'[k] = queue[k]
         /\ queue'[m] = IF Listed(m) THEN Append(queue[m], [contract |-> c, kind |-> kind]) ELSE queue[m]
<1>1. queue \in [Miner -> Seq(Task)] /\ [contract |-> c, kind |-> kind] \in Task
  BY DEF Task, TypeOK
<1>2. Append(queue[m], [contract |-> c, kind |-> kind]) \in Seq(Task)
  BY <1>1, AppendFacts
<1> QED
  BY <1>1, <1>2 DEF AddTask, Locked

\* A busy scheduler's task is the first place of its queue.
LEMMA HeadFacts ==
  ASSUME TypeOK, NEW m \in Miner, QueueInv(m), sched[m] \in {"serve", "cancel", "ended"}
  PROVE  /\ queue[m] \in Seq(Task) /\ queue[m] # <<>> /\ Len(queue[m]) \in Nat \ {0}
         /\ Head(queue[m]) = queue[m][1] /\ queue[m][1] \in Task
         /\ Tail(queue[m]) \in Seq(Task) /\ Len(Tail(queue[m])) = Len(queue[m]) - 1
         /\ \A i \in 1 .. Len(queue[m]) - 1 : Tail(queue[m])[i] = queue[m][i + 1]
BY TailFacts DEF QueueInv, TypeOK

\* Every step keeps the shapes of the variables.
LEMMA StepType ==
  ASSUME IInv, [Next]_vars
  PROVE  TypeOK'
<1>1. /\ TypeOK /\ \A m \in Miner : QueueInv(m)
      /\ \A c \in Contract : RunInv(c)
  BY DEF IInv
<1>2. /\ queue \in [Miner -> Seq(Task)]
      /\ sched \in [Miner -> {"free", "serve", "cancel", "ended", "range", "gone"}]
      /\ told \in [Miner -> 0 .. MaxTasks]
      /\ pc \in [Contract -> {"done", "top", "adjust", "full", "partial", "remove",
                                 "select", "prune", "pruneAll", "release", "releasePartial"}]
      /\ target \in [Contract -> Target]
      /\ left \in [Contract -> SUBSET Miner] /\ added \in [Contract -> SUBSET Miner]
      /\ full \in [Contract -> SUBSET Miner] /\ partial \in [Contract -> SUBSET Miner]
      /\ sweep \in [Contract -> SUBSET Miner]
      /\ pick \in [Contract -> Miner \cup {NoMiner}]
      /\ leaked \subseteq Contract
  BY <1>1 DEF TypeOK
<1>3. MaxTasks \in Nat /\ Most \in Nat \ {0} /\ {0, 1} \subseteq Target
  BY AllocationAssumption DEF Target
<1>4. ASSUME NEW n \in Int PROVE Capped(n) \in Target
  BY <1>3 DEF Capped, Target
<1> SUFFICES ASSUME Next PROVE TypeOK'
  BY <1>2 DEF vars, schedVars, setVars, historyVars, runVars, TypeOK
<1> USE DEF schedVars, setVars, historyVars, runVars
<1>5. ASSUME NEW m \in Miner, Scheduler(m) PROVE TypeOK'
  <2>1. CASE LockNextTask(m)
    BY <1>2, <2>1 DEF LockNextTask, TypeOK
  <2>2. CASE End(m)
    <3>1. sched[m] \in {"serve", "cancel"} /\ OnEnd(Head(queue[m]), m)
      BY <2>2 DEF End, Served
    <3>2. full' \in [Contract -> SUBSET Miner] /\ partial' \in [Contract -> SUBSET Miner]
      BY <1>1, <3>1, HeadFacts, EndFacts
    <3> QED
      BY <1>2, <2>2, <3>2 DEF End, TypeOK
  <2>3. CASE UnlockAndRemove(m)
    <3>1. Tail(queue[m]) \in Seq(Task)
      BY <1>1, <2>3, HeadFacts DEF UnlockAndRemove
    <3> QED
      BY <1>2, <2>3, <3>1 DEF UnlockAndRemove, TypeOK
  <2>4. CASE ProxyExits(m)
    <3>1. full' \in [Contract -> SUBSET Miner] /\ partial' \in [Contract -> SUBSET Miner]
      <4>1. CASE Served(m)
        <5>1. sched[m] \in {"serve", "cancel"} /\ OnEnd(Head(queue[m]), m)
          BY <2>4, <4>1 DEF ProxyExits, Served
        <5> QED
          BY <1>1, <5>1, HeadFacts, EndFacts
      <4>2. CASE ~ Served(m)
        BY <1>2, <2>4, <4>2 DEF ProxyExits
      <4> QED
        BY <4>1, <4>2
    <3> QED
      BY <1>2, <2>4, <3>1 DEF ProxyExits, TypeOK
  <2>5. CASE OnDisconnect(m)
    <3> DEFINE t == queue[m][told'[m]]
    <3>1. /\ told' = [told EXCEPT ![m] = @ + 1] /\ told[m] < Len(queue[m]) /\ OnEnd(t, m)
          /\ IF t.contract = Other \/ pc[t.contract] = "done"
               THEN UNCHANGED <<target, pc>>
               ELSE /\ target' = [target EXCEPT ![t.contract] = Capped(@ + 1)]
                    /\ pc' = [pc EXCEPT ![t.contract] = "adjust"]
          /\ UNCHANGED <<queue, sched, left, pick, added, sweep, leaked>>
      BY <2>5 DEF OnDisconnect
    <3>2. /\ Len(queue[m]) \in Nat /\ Len(queue[m]) <= MaxTasks /\ queue[m] \in Seq(Task)
          /\ told[m] \in 0 .. MaxTasks
      BY <1>1, <1>2, LenProperties DEF QueueInv
    <3>3. told'[m] = told[m] + 1 /\ told'[m] \in 1 .. Len(queue[m]) /\ told' \in [Miner -> 0 .. MaxTasks]
      BY <1>2, <1>3, <3>1, <3>2
    <3>4. t \in Task
      BY <3>2, <3>3, ElementOfSeq
    <3>5. full' \in [Contract -> SUBSET Miner] /\ partial' \in [Contract -> SUBSET Miner]
      BY <1>1, <3>1, <3>4, EndFacts
    <3>6. target' \in [Contract -> Target]
                   /\ pc' \in [Contract -> {"done", "top", "adjust", "full", "partial", "remove",
                                 "select", "prune", "pruneAll", "release", "releasePartial"}]
      <4>1. CASE t.contract = Other \/ pc[t.contract] = "done"
        BY <1>2, <3>1, <4>1
      <4>2. CASE ~ (t.contract = Other \/ pc[t.contract] = "done")
        <5>1. t.contract \in Contract
          BY <3>4, <4>2 DEF Task
        <5>2. target[t.contract] + 1 \in Int
          BY <1>2, <5>1 DEF Target
        <5>3. Capped(target[t.contract] + 1) \in Target
          BY <1>4, <5>2
        <5> QED
          <6>1. /\ target' = [target EXCEPT ![t.contract] = Capped(@ + 1)]
                /\ pc' = [pc EXCEPT ![t.contract] = "adjust"]
            BY <3>1, <4>2
          <6> HIDE DEF t
          <6>2. target' \in [Contract -> Target]
            BY <1>2, <5>1, <5>3, <6>1
          <6> QED
            BY <1>2, <5>1, <6>1, <6>2
      <4> QED
        BY <4>1, <4>2
    <3> QED
      BY <1>2, <3>1, <3>3, <3>5, <3>6 DEF TypeOK
  <2>6. CASE Gone(m)
    <3>1. <<>> \in Seq(Task)
      BY EmptySeq
    <3> QED
      BY <1>2, <1>3, <2>6, <3>1 DEF Gone, TypeOK
  <2> QED
    BY <1>5, <2>1, <2>2, <2>3, <2>4, <2>5, <2>6 DEF Scheduler
<1>6. ASSUME NEW m \in Miner, OtherContract(m) PROVE TypeOK'
  <2>1. CASE AddTask(m, Other, "full") /\ UNCHANGED <<sched, told>>
    <3>1. queue' \in [Miner -> Seq(Task)]
      BY <1>1, <2>1, AddFacts
    <3> QED
      BY <1>2, <1>6, <2>1, <3>1 DEF OtherContract, TypeOK
  <2>2. CASE RemoveTasksByID(m, Other)
    BY <1>1, <1>2, <1>6, <2>2, RemoveFacts DEF OtherContract, TypeOK
  <2> QED
    BY <1>6, <2>1, <2>2 DEF OtherContract
<1>7. ASSUME NEW c \in Contract, Run(c) PROVE TypeOK'
  <2>1. CASE Start(c)
    BY <1>2, <1>3, <2>1 DEF Start, Goes, TypeOK
  <2>2. CASE Top(c)
    BY <1>2, <2>2 DEF Top, Goes, TypeOK
  <2>3. CASE Adjust(c)
    <3>1. PICK place \in {"select", "full", "remove"}, S \in {left[c], FreeMiners, Available(c)} :
            pc' = [pc EXCEPT ![c] = place] /\ left' = [left EXCEPT ![c] = S]
      BY <1>2, <2>3 DEF Adjust, Goes
    <3>2. S \subseteq Miner
      BY <1>2, <3>1 DEF FreeMiners, Available
    <3>3. left' \in [Contract -> SUBSET Miner]
      BY <1>2, <3>1, <3>2
    <3> QED
      BY <1>2, <2>3, <3>1, <3>3 DEF Adjust, TypeOK
  <2>4. CASE RemoveFull(c)
    <3>1. target[c] \in Target /\ target[c] < 0
      BY <1>1, <1>2, <2>4 DEF RunInv, RemoveFull
    <3>2. target[c] + 1 \in Target
      BY <1>3, <3>1 DEF Target
    <3>3. Pruned(c) \subseteq Miner
      BY <1>2 DEF Pruned
    <3>4. full' \in [Contract -> SUBSET Miner] /\ target' \in [Contract -> Target]
      <4>1. CASE \E m \in left[c] : /\ full' = [full EXCEPT ![c] = Pruned(c) \ {m}]
                                    /\ target' = [target EXCEPT ![c] = IF Listed(m) THEN @ + 1 ELSE @]
        <5>1. PICK m \in left[c] : /\ full' = [full EXCEPT ![c] = Pruned(c) \ {m}]
                                   /\ target' = [target EXCEPT ![c] = IF Listed(m) THEN @ + 1 ELSE @]
          BY <4>1
        <5>2. Pruned(c) \ {m} \subseteq Miner /\ (IF Listed(m) THEN target[c] + 1 ELSE target[c]) \in Target
          BY <3>1, <3>2, <3>3
        <5> QED
          BY <1>2, <5>1, <5>2
      <4>2. CASE full' = [full EXCEPT ![c] = {}] /\ target' = target
        BY <1>2, <4>2
      <4> QED
        BY <2>4, <4>1, <4>2 DEF RemoveFull
    <3>5. /\ queue' \in [Miner -> Seq(Task)] /\ told' = told
          /\ sched' \in [Miner -> {"free", "serve", "cancel", "ended", "range", "gone"}]
      <4>1. CASE \E m \in left[c] : RemoveTasksByID(m, c)
        BY <1>1, <1>2, <4>1, RemoveFacts
      <4>2. CASE UNCHANGED <<queue, sched, told>>
        BY <1>2, <4>2
      <4> QED
        BY <2>4, <4>1, <4>2 DEF RemoveFull
    <3> QED
      BY <1>2, <2>4, <3>4, <3>5 DEF RemoveFull, Goes, TypeOK
  <2>5. CASE LookUp(c)
    <3>1. PICK m \in left[c] : /\ left' = [left EXCEPT ![c] = @ \ {m}]
                               /\ pick' = [pick EXCEPT ![c] = m] \/ pick' = pick
      BY <2>5 DEF LookUp
    <3>2. m \in Miner
      BY <1>2, <3>1
    <3>3. left' \in [Contract -> SUBSET Miner] /\ pick' \in [Contract -> Miner \cup {NoMiner}]
      BY <1>2, <3>1, <3>2
    <3> QED
      BY <1>2, <2>5, <3>3 DEF LookUp, TypeOK
  <2>6. CASE Allocate(c)
    <3>1. /\ pick[c] \in Miner /\ pc[c] \in {"full", "partial"} /\ target[c] \in Target /\ target[c] > 0
      BY <1>1, <1>2, <2>6 DEF RunInv, Allocate
    <3>2. target[c] - 1 \in Target
      BY <3>1, <1>3 DEF Target
    <3>3. queue' \in [Miner -> Seq(Task)]
      BY <1>1, <2>6, <3>1, AddFacts DEF Allocate
    <3>4. target' \in [Contract -> Target] /\ added' \in [Contract -> SUBSET Miner] /\ pick' \in [Contract -> Miner \cup {NoMiner}]
      BY <1>2, <2>6, <3>1, <3>2 DEF Allocate
    <3> QED
      BY <1>2, <2>6, <3>3, <3>4 DEF Allocate, TypeOK
  <2>7. CASE RecordFull(c)
    <3>1. /\ full' \in [Contract -> SUBSET Miner] /\ added' \in [Contract -> SUBSET Miner]
          /\ left' \in [Contract -> SUBSET Miner]
      BY <1>2, <2>7 DEF RecordFull, Snapshot
    <3>2. pc' = [pc EXCEPT ![c] = "select"] \/ pc' = [pc EXCEPT ![c] = "partial"]
      BY <2>7 DEF RecordFull, Goes
    <3>3. pc' \in [Contract -> {"done", "top", "adjust", "full", "partial", "remove",
                                 "select", "prune", "pruneAll", "release", "releasePartial"}]
      BY <1>2, <3>2
    <3> QED
      BY <1>2, <2>7, <3>1, <3>3 DEF RecordFull, TypeOK
  <2>8. CASE RecordPartial(c)
    BY <1>2, <2>8 DEF RecordPartial, Goes, TypeOK
  <2>9. CASE Select(c)
    BY <1>2, <2>9 DEF Select, Goes, TypeOK, Available
  <2>10. CASE CycleEnd(c)
    BY <1>2, <2>10 DEF CycleEnd, Goes, TypeOK, Pruned
  <2>11. CASE ContractEnd(c)
    BY <1>2, <2>11 DEF ContractEnd, Goes, TypeOK, Pruned
  <2>12. CASE Release(c)
    <3>1. CASE left[c] # {}
      <4>1. PICK m \in left[c] : RemoveTasksByID(m, c) /\ left' = [left EXCEPT ![c] = @ \ {m}]
        BY <2>12, <3>1 DEF Release
      <4>2. /\ queue' \in [Miner -> Seq(Task)] /\ told' = told
            /\ sched' \in [Miner -> {"free", "serve", "cancel", "ended", "range", "gone"}]
        BY <1>1, <1>2, <4>1, RemoveFacts
      <4> QED
        BY <1>2, <2>12, <3>1, <4>1, <4>2 DEF Release, TypeOK
    <3>2. CASE left[c] = {}
      BY <1>2, <2>12, <3>2 DEF Release, Goes, TypeOK
    <3> QED
      BY <3>1, <3>2
  <2> QED
    BY <1>7, <2>1, <2>2, <2>3, <2>4, <2>5, <2>6, <2>7, <2>8, <2>9, <2>10, <2>11, <2>12 DEF Run
<1>8. ASSUME NEW c \in Contract, ReachTarget(c) PROVE TypeOK'
  BY <1>2, <1>8 DEF ReachTarget, TypeOK
<1>9. ASSUME NEW c \in Contract, Sweep(c) PROVE TypeOK'
  <2>1. PICK m \in sweep[c] : RemoveTasksByID(m, c) /\ sweep' = [sweep EXCEPT ![c] = @ \ {m}]
    BY <1>9 DEF Sweep
  <2>2. /\ queue' \in [Miner -> Seq(Task)] /\ told' = told
        /\ sched' \in [Miner -> {"free", "serve", "cancel", "ended", "range", "gone"}]
    BY <1>1, <1>2, <2>1, RemoveFacts
  <2> QED
    BY <1>2, <1>9, <2>1, <2>2 DEF Sweep, TypeOK
<1> QED
  BY <1>5, <1>6, <1>7, <1>8, <1>9 DEF Next

--------------------------------------------------------------------------------
\* Frames

\* A step of a contract's run leaves the places of the others alone.
LEMMA RunFrame ==
  ASSUME TypeOK, NEW c \in Contract, Run(c), NEW d \in Contract \ {c}
  PROVE  /\ pc'[d] = pc[d] /\ target'[d] = target[d] /\ left'[d] = left[d] /\ pick'[d] = pick[d] /\ added'[d] = added[d]
         /\ full'[d] = full[d] /\ (d \in leaked' <=> d \in leaked)
         /\ \A m : <<d, m>> \in early' <=> <<d, m>> \in early
<1>1. /\ pc \in [Contract -> {"done", "top", "adjust", "full", "partial", "remove",
                                 "select", "prune", "pruneAll", "release", "releasePartial"}]
      /\ target \in [Contract -> Target]
      /\ left \in [Contract -> SUBSET Miner] /\ added \in [Contract -> SUBSET Miner]
      /\ full \in [Contract -> SUBSET Miner] /\ pick \in [Contract -> Miner \cup {NoMiner}]
  BY DEF TypeOK
<1> USE DEF schedVars, setVars, historyVars, runVars, Goes
<1>2. CASE Start(c)
  BY <1>1, <1>2 DEF Start
<1>3. CASE Top(c)
  BY <1>1, <1>3 DEF Top
<1>4. CASE Adjust(c)
  BY <1>1, <1>4 DEF Adjust
<1>5. CASE RemoveFull(c)
  BY <1>1, <1>5 DEF RemoveFull
<1>6. CASE LookUp(c)
  BY <1>1, <1>6 DEF LookUp
<1>7. CASE Allocate(c)
  BY <1>1, <1>7 DEF Allocate
<1>8. CASE RecordFull(c)
  BY <1>1, <1>8 DEF RecordFull
<1>9. CASE RecordPartial(c)
  BY <1>1, <1>9 DEF RecordPartial
<1>10. CASE Select(c)
  BY <1>1, <1>10 DEF Select
<1>11. CASE CycleEnd(c)
  BY <1>1, <1>11 DEF CycleEnd
<1>12. CASE ContractEnd(c)
  BY <1>1, <1>12 DEF ContractEnd
<1>13. CASE Release(c)
  BY <1>1, <1>13 DEF Release
<1> QED
  BY <1>2, <1>3, <1>4, <1>5, <1>6, <1>7, <1>8, <1>9, <1>10, <1>11, <1>12, <1>13 DEF Run

\* A run changes a queue by removing its tasks, or by adding one where it picked.
LEMMA RunQueues ==
  ASSUME TypeOK, NEW c \in Contract, RunInv(c), Run(c), NEW m \in Miner
  PROVE  \/ QueueSame(m)
         \/ RemoveTasksByID(m, c)
         \/ /\ m = pick[c] /\ pc[c] \in {"full", "partial"} /\ AddTask(m, c, pc[c]) /\ sched' = sched
            /\ Allocate(c)
<1> USE DEF QueueSame, schedVars, setVars, historyVars, runVars
<1>1. CASE UNCHANGED <<queue, sched>>
  BY <1>1
<1>2. CASE RemoveFull(c) \/ Release(c)
  <2>1. UNCHANGED <<queue, sched>> \/ \E k \in left[c] : RemoveTasksByID(k, c)
    BY <1>2 DEF RemoveFull, Release
  <2>2. left[c] \subseteq Miner
    BY DEF TypeOK
  <2> QED
    BY <1>1, <2>1, <2>2, RemoveFacts
<1>3. CASE Allocate(c)
  <2>1. pick[c] \in Miner /\ pc[c] \in {"full", "partial"} /\ AddTask(pick[c], c, pc[c]) /\ sched' = sched
    BY <1>3 DEF Allocate, RunInv, TypeOK
  <2> QED
    BY <1>3, <2>1, AddFacts
<1> QED
  BY <1>1, <1>2, <1>3 DEF Run, Start, Top, Adjust, LookUp, RecordFull, RecordPartial, Select, CycleEnd, ContractEnd

\* A queue and a scheduler that nobody touched.
LEMMA QueueKept ==
  ASSUME NEW m, QueueInv(m), QueueSame(m)
  PROVE  QueueInv(m)'
BY DEF QueueInv, QueueSame

\* AddTask leaves the front of the queue where it is.
LEMMA QueueAdded ==
  ASSUME TypeOK, NEW m \in Miner, QueueInv(m), NEW c \in Contract \cup {Other}, NEW kind \in {"full", "partial"},
         AddTask(m, c, kind), sched' = sched
  PROVE  QueueInv(m)'
<1>1. /\ Len(queue[m]) < MaxTasks /\ [contract |-> c, kind |-> kind] \in Task /\ queue[m] \in Seq(Task)
      /\ queue'[m] = IF Listed(m) THEN Append(queue[m], [contract |-> c, kind |-> kind]) ELSE queue[m]
  BY AddFacts DEF TypeOK
<1>2. CASE Listed(m)
  <2>1. Len(queue'[m]) = Len(queue[m]) + 1 /\ Len(queue[m]) \in Nat /\ queue'[m] \in Seq(Task)
    BY <1>1, <1>2, AppendFacts
  <2>2. queue'[m] # <<>>
    BY <2>1, EmptySeq
  <2> QED
    BY <1>1, <1>2, <2>1, <2>2, AllocationAssumption DEF QueueInv, Listed
<1>3. CASE ~ Listed(m)
  BY <1>1, <1>3 DEF QueueInv
<1> QED
  BY <1>2, <1>3

\* Queues stay within their bound, and a busy scheduler keeps its task.
LEMMA StepQueue ==
  ASSUME IInv, Next, NEW m \in Miner
  PROVE  QueueInv(m)'
<1>1. TypeOK /\ \A k \in Miner : QueueInv(k)
  BY DEF IInv
<1>2. queue \in [Miner -> Seq(Task)] /\ sched \in [Miner -> {"free", "serve", "cancel", "ended", "range", "gone"}]
  BY <1>1 DEF TypeOK
<1>3. ASSUME NEW k \in Miner, Scheduler(k) PROVE QueueInv(m)'
  <2>1. m # k => QueueSame(m)
    BY <1>2, <1>3 DEF Scheduler, LockNextTask, End, UnlockAndRemove, ProxyExits, OnDisconnect, Gone, QueueSame
  <2>2. CASE m = k
    <3>1. CASE LockNextTask(m)
      BY <1>1, <1>2, <3>1 DEF LockNextTask, QueueInv
    <3>2. CASE End(m)
      BY <1>1, <1>2, <3>2 DEF End, Served, QueueInv
    <3>3. CASE UnlockAndRemove(m)
      <4>1. queue'[m] = Tail(queue[m]) /\ sched'[m] = "free" /\ sched[m] = "ended"
        BY <1>2, <3>3 DEF UnlockAndRemove
      <4>2. Len(queue'[m]) = Len(queue[m]) - 1 /\ Len(queue[m]) \in Nat
        BY <1>1, <4>1, HeadFacts
      <4> QED
        BY <1>1, <4>1, <4>2, AllocationAssumption DEF QueueInv
    <3>4. CASE ProxyExits(m)
      BY <1>1, <1>2, <3>4 DEF ProxyExits, QueueInv
    <3>5. CASE OnDisconnect(m)
      BY <1>1, <3>5 DEF OnDisconnect, QueueInv
    <3>6. CASE Gone(m)
      <4>1. queue'[m] = <<>> /\ sched'[m] = "gone" /\ Len(<<>>) = 0
        BY <1>2, <3>6, EmptySeq DEF Gone
      <4> QED
        BY <4>1, AllocationAssumption DEF QueueInv
    <3> QED
      BY <1>3, <2>2, <3>1, <3>2, <3>3, <3>4, <3>5, <3>6 DEF Scheduler
  <2> QED
    BY <1>1, <2>1, <2>2, QueueKept
<1>4. ASSUME NEW k \in Miner, OtherContract(k) PROVE QueueInv(m)'
  <2>1. CASE AddTask(k, Other, "full") /\ UNCHANGED <<sched, told>>
    <3>1. m # k => QueueSame(m)
      BY <1>1, <2>1, AddFacts DEF QueueSame
    <3> QED
      BY <1>1, <2>1, <3>1, QueueKept, QueueAdded
  <2>2. CASE RemoveTasksByID(k, Other)
    <3>1. m # k => QueueSame(m)
      BY <1>1, <2>2, RemoveFacts
    <3> QED
      BY <1>1, <2>2, <3>1, QueueKept, QueueRemoved
  <2> QED
    BY <1>4, <2>1, <2>2 DEF OtherContract
<1>5. ASSUME NEW c \in Contract, Run(c) PROVE QueueInv(m)'
  <2>1. RunInv(c)
    BY DEF IInv
  <2>2. CASE QueueSame(m)
    BY <1>1, <2>2, QueueKept
  <2>3. CASE RemoveTasksByID(m, c)
    BY <1>1, <2>3, QueueRemoved
  <2>4. CASE pc[c] \in {"full", "partial"} /\ AddTask(m, c, pc[c]) /\ sched' = sched
    BY <1>1, <2>4, QueueAdded
  <2> QED
    BY <1>1, <1>5, <2>1, <2>2, <2>3, <2>4, RunQueues
<1>6. ASSUME NEW c \in Contract, ReachTarget(c) PROVE QueueInv(m)'
  BY <1>1, <1>6, QueueKept DEF ReachTarget, schedVars, QueueSame
<1>7. ASSUME NEW c \in Contract, Sweep(c) PROVE QueueInv(m)'
  <2>1. PICK k \in sweep[c] : RemoveTasksByID(k, c)
    BY <1>7 DEF Sweep
  <2>2. k \in Miner
    BY <1>1 DEF TypeOK
  <2>3. m # k => QueueSame(m)
    BY <1>1, <2>1, <2>2, RemoveFacts
  <2> QED
    BY <1>1, <2>1, <2>3, QueueKept, QueueRemoved
<1> QED
  BY <1>3, <1>4, <1>5, <1>6, <1>7 DEF Next

\* A run that does not allocate has nothing picked and nothing to record.
LEMMA StepRun ==
  ASSUME IInv, Next, NEW c \in Contract
  PROVE  RunInv(c)'
<1>1. TypeOK /\ \A d \in Contract : RunInv(d)
  BY DEF IInv
<1>2. /\ pc \in [Contract -> {"done", "top", "adjust", "full", "partial", "remove",
                                 "select", "prune", "pruneAll", "release", "releasePartial"}]
      /\ target \in [Contract -> Target]
      /\ left \in [Contract -> SUBSET Miner] /\ added \in [Contract -> SUBSET Miner]
      /\ full \in [Contract -> SUBSET Miner] /\ pick \in [Contract -> Miner \cup {NoMiner}]
      /\ NoMiner \notin Miner
  BY <1>1, AllocationAssumption DEF TypeOK
<1> USE DEF schedVars, setVars, historyVars, runVars, Goes
<1>3. ASSUME UNCHANGED runVars PROVE RunInv(c)'
  BY <1>1, <1>3 DEF RunInv
<1>4. ASSUME NEW m \in Miner, OnDisconnect(m) PROVE RunInv(c)'
  <2> DEFINE t == queue[m][told'[m]]
  <2>1. /\ UNCHANGED <<left, pick, added>>
        /\ t.contract # Other => Sends(t.contract)
        /\ \/ UNCHANGED <<pc, target>>
           \/ /\ t.contract # Other /\ pc[t.contract] # "done"
              /\ target' = [target EXCEPT ![t.contract] = Capped(@ + 1)]
              /\ pc' = [pc EXCEPT ![t.contract] = "adjust"]
    BY <1>4 DEF OnDisconnect
  <2> HIDE DEF t
  <2>2. \/ UNCHANGED <<pc, target>>
        \/ pc'[c] = pc[c] /\ target'[c] = target[c]
        \/ pc[c] = "select" /\ pc'[c] = "adjust"
    BY <1>2, <2>1 DEF Sends
  <2> QED
    BY <1>1, <2>1, <2>2 DEF RunInv
<1>5. ASSUME NEW d \in Contract, Run(d) PROVE RunInv(c)'
  <2>1. CASE c # d
    BY <1>1, <1>5, <2>1, RunFrame DEF RunInv
  <2>2. CASE c = d
    <3>1. CASE Start(c)
      BY <1>1, <1>2, <3>1 DEF Start, RunInv
    <3>2. CASE Top(c)
      BY <1>1, <1>2, <3>2 DEF Top, RunInv
    <3>3. CASE Adjust(c)
      <4>1. /\ UNCHANGED <<pick, added, target>> /\ pc[c] = "adjust" /\ target[c] \in Int
            /\ \/ pc'[c] = "select"
               \/ pc'[c] = "full" /\ target[c] > 0
               \/ pc'[c] = "remove" /\ target[c] < 0
        BY <1>2, <3>3 DEF Adjust, Target
      <4> QED
        BY <1>1, <4>1 DEF RunInv
    <3>4. CASE RemoveFull(c)
      BY <1>1, <1>2, <3>4 DEF RemoveFull, RunInv
    <3>5. CASE LookUp(c)
      <4>1. PICK m \in left[c] : /\ left' = [left EXCEPT ![c] = @ \ {m}]
                                 /\ pick' = [pick EXCEPT ![c] = m] \/ pick' = pick
        BY <3>5 DEF LookUp
      <4>2. /\ pc[c] \in {"full", "partial"} /\ pick[c] = NoMiner /\ target[c] > 0
            /\ UNCHANGED <<pc, target, added>>
        BY <3>5 DEF LookUp
      <4>3. pick'[c] = NoMiner \/ (pick'[c] = m /\ m \notin left'[c])
        BY <1>2, <4>1, <4>2
      <4> QED
        BY <1>1, <4>2, <4>3 DEF RunInv
    <3>6. CASE Allocate(c)
      <4>1. /\ pick'[c] = NoMiner /\ target'[c] = target[c] - 1 /\ pc' = pc
            /\ pc[c] \in {"full", "partial"} /\ target[c] > 0 /\ target[c] \in Int
        BY <1>1, <1>2, <3>6 DEF Allocate, RunInv, Target
      <4> QED
        BY <4>1 DEF RunInv
    <3>7. CASE RecordFull(c)
      <4>1. /\ pick' = pick /\ pick[c] = NoMiner /\ added'[c] = {} /\ target' = target
            /\ pc'[c] \in {"select", "partial"} /\ target[c] >= 0
        BY <1>1, <1>2, <3>7 DEF RecordFull, Allocated, RunInv
      <4> QED
        BY <4>1 DEF RunInv
    <3>8. CASE RecordPartial(c)
      BY <1>1, <1>2, <3>8 DEF RecordPartial, Allocated, RunInv
    <3>9. CASE Select(c)
      BY <1>1, <1>2, <3>9 DEF Select, RunInv
    <3>10. CASE CycleEnd(c)
      BY <1>1, <1>2, <3>10 DEF CycleEnd, RunInv
    <3>11. CASE ContractEnd(c)
      BY <1>1, <1>2, <3>11 DEF ContractEnd, RunInv
    <3>12. CASE Release(c)
      <4>1. /\ pc[c] \in {"release", "releasePartial"} /\ UNCHANGED <<target, pick, added>>
            /\ pc'[c] \in {"release", "releasePartial", "done"}
        BY <1>2, <3>12 DEF Release
      <4> QED
        BY <1>1, <4>1 DEF RunInv
    <3> QED
      BY <1>5, <2>2, <3>1, <3>2, <3>3, <3>4, <3>5, <3>6, <3>7, <3>8, <3>9, <3>10, <3>11, <3>12 DEF Run
  <2> QED
    BY <2>1, <2>2
<1> QED
  BY <1>3, <1>4, <1>5 DEF Next, Scheduler, LockNextTask, End, UnlockAndRemove, ProxyExits, Gone, OtherContract,
                          ReachTarget, Sweep

--------------------------------------------------------------------------------
\* Steps, for a contract and a miner

\* A step of the scheduler of m.
LEMMA SchedulerPair ==
  ASSUME IInv, NEW m \in Miner, Scheduler(m), NEW c \in Contract, NEW k \in Miner
  PROVE  PairInv(c, k)'
<1>1. TypeOK /\ QueueInv(m) /\ QueueInv(k) /\ PairInv(c, k) /\ RunInv(c)
  BY DEF IInv
<1>2. queue \in [Miner -> Seq(Task)] /\ sched \in [Miner -> {"free", "serve", "cancel", "ended", "range", "gone"}]
  BY <1>1 DEF TypeOK
<1>3. FullFirst(c, k) /\ FreshPick(c, k) /\ Known(c, k) /\ Complete(c, k) /\ Counted(c, k)
  BY <1>1 DEF PairInv
<1> USE DEF schedVars, setVars, historyVars, runVars
<1>4. CASE LockNextTask(m)
  <2>1. RunSame(c, k)
    BY <1>4 DEF LockNextTask, RunSame
  <2>2. CASE k # m
    BY <1>1, <1>2, <1>4, <2>1, <2>2, PairSame DEF LockNextTask, QueueSame
  <2>3. CASE k = m
    <3>1. queue' = queue /\ sched[k] = "free" /\ sched'[k] = "serve"
      BY <1>2, <1>4, <2>3 DEF LockNextTask
    <3>2. FullFirst(c, k)' /\ FreshPick(c, k)' /\ Complete(c, k)'
      BY <1>3, <2>1, <3>1 DEF FullFirst, FreshPick, Complete, FullAt, HasTask, Listed, RunSame
    <3>3. Known(c, k)'
      BY <1>3, <2>1, <3>1 DEF Known, IsKnown, WindsUp, FullAt, RunSame
    <3>4. Counted(c, k)'
      BY <1>3, <2>1, <3>1 DEF Counted, Counts, Pruning, Disconnecting, Serves, FullAt, RunSame
    <3> QED
      BY <3>2, <3>3, <3>4 DEF PairInv
  <2> QED
    BY <2>2, <2>3
<1>5. CASE End(m)
  <2> DEFINE t == queue[m][1]
  <2>1. /\ sched[m] \in {"serve", "cancel"} /\ sched' = [sched EXCEPT ![m] = "ended"] /\ queue' = queue
        /\ OnEnd(t, m) /\ t \in Task /\ UNCHANGED <<runVars, leaked>>
    BY <1>1, <1>5, HeadFacts DEF End, Served
  <2>2. /\ full'[c] = IF t.contract = c THEN full[c] \ {m} ELSE full[c]
        /\ early \subseteq early' /\ \A p \in early' : p \in early \/ p = <<t.contract, m>>
        /\ t = FullTask(c) /\ m \in added[c] \cup Pruning(c) => <<c, m>> \in early'
    BY <1>1, <2>1, EndFacts
  <2>3. CASE k # m
    <3>1. QueueSame(k) /\ RunSame(c, k)
      BY <1>2, <2>1, <2>2, <2>3 DEF QueueSame, RunSame
    <3> QED
      BY <1>1, <3>1, PairSame
  <2>4. CASE k = m
    <3>1. sched'[k] = "ended" /\ sched[k] \in {"serve", "cancel"}
      BY <1>2, <2>1, <2>4
    <3>2. FullFirst(c, k)' /\ FreshPick(c, k)' /\ Complete(c, k)'
      BY <1>3, <2>1, <2>2, <3>1 DEF FullFirst, FreshPick, Complete, FullAt, HasTask, Listed
    <3>3. Known(c, k)'
      <4> SUFFICES ASSUME c \notin leaked', NEW i \in 1 .. Len(queue[k]), FullAt(c, k, i)', ~ WindsUp(k, i)'
                   PROVE  IsKnown(c, k)'
        BY <2>1 DEF Known
      <4>1. FullAt(c, k, i) /\ i # 1 /\ ~ WindsUp(k, i) /\ c \notin leaked
        BY <2>1, <3>1 DEF FullAt, WindsUp
      <4>2. IsKnown(c, k)
        BY <1>3, <4>1 DEF Known
      <4>3. Len(queue[k]) \in Nat /\ 1 \in 1 .. i - 1
        BY <1>2, <4>1, LenProperties
      <4>4. t.contract # c
        BY <1>3, <2>4, <4>1, <4>3 DEF FullFirst
      <4> QED
        BY <2>1, <2>2, <4>2, <4>4 DEF IsKnown
    <3>4. Counted(c, k)'
      <4> SUFFICES ASSUME Counts(c, k)', <<c, k>> \notin early' PROVE Serves(c, k)'
        BY DEF Counted
      <4>1. Counts(c, k) /\ <<c, k>> \notin early /\ ~ Disconnecting(k)
        BY <2>1, <2>2, <3>1 DEF Counts, Pruning, Disconnecting
      <4>2. PICK i \in 1 .. Len(queue[k]) : FullAt(c, k, i)
        BY <1>3, <4>1 DEF Counted, Serves
      <4>3. i # 1
        <5> SUFFICES ASSUME i = 1 PROVE FALSE
          OBVIOUS
        <5>1. t = FullTask(c) /\ t.contract = c
          BY <2>4, <4>2 DEF FullAt, FullTask
        <5>2. k \notin full'[c] /\ k \notin added[c] \cup Pruning(c)
          BY <2>2, <2>4, <5>1
        <5> QED
          BY <2>1, <5>2 DEF Counts, Pruning
      <4> QED
        BY <2>1, <4>2, <4>3 DEF Serves, FullAt
    <3> QED
      BY <3>2, <3>3, <3>4 DEF PairInv
  <2> QED
    BY <2>3, <2>4
<1>6. CASE UnlockAndRemove(m)
  <2>1. RunSame(c, k)
    BY <1>6 DEF UnlockAndRemove, RunSame
  <2>2. CASE k # m
    BY <1>1, <1>2, <1>6, <2>1, <2>2, PairSame DEF UnlockAndRemove, QueueSame
  <2>3. CASE k = m
    <3>1. sched[k] = "ended" /\ sched'[k] = "free" /\ queue'[k] = Tail(queue[k])
      BY <1>2, <1>6, <2>3 DEF UnlockAndRemove
    <3>2. /\ Len(queue'[k]) = Len(queue[k]) - 1 /\ Len(queue[k]) \in Nat
          /\ \A i \in 1 .. Len(queue'[k]) : queue'[k][i] = queue[k][i + 1] /\ i + 1 \in 1 .. Len(queue[k])
      BY <1>1, <3>1, HeadFacts
    <3>3. \A i \in 1 .. Len(queue'[k]) : FullAt(c, k, i)' <=> FullAt(c, k, i + 1)
      BY <3>2 DEF FullAt
    <3>4. FullFirst(c, k)'
      <4> SUFFICES ASSUME NEW i \in 1 .. Len(queue'[k]), FullAt(c, k, i)', NEW j \in 1 .. i - 1
                   PROVE  queue'[k][j].contract # c
        BY DEF FullFirst
      <4>1. j \in 1 .. Len(queue'[k]) /\ j + 1 \in 1 .. (i + 1) - 1 /\ i + 1 \in 1 .. Len(queue[k])
        BY <3>2
      <4>2. queue[k][j + 1].contract # c
        BY <1>3, <3>3, <4>1 DEF FullFirst
      <4> QED
        BY <3>2, <4>1, <4>2
    <3>5. HasTask(c, k)' => HasTask(c, k)
      BY <3>2 DEF HasTask
    <3>6. FreshPick(c, k)' /\ Complete(c, k)'
      BY <1>3, <2>1, <3>1, <3>5 DEF FreshPick, Complete, Listed, RunSame
    <3>7. Known(c, k)'
      <4> SUFFICES ASSUME c \notin leaked', NEW i \in 1 .. Len(queue'[k]), FullAt(c, k, i)' PROVE IsKnown(c, k)'
        BY DEF Known
      <4>1. FullAt(c, k, i + 1) /\ i + 1 \in 1 .. Len(queue[k]) /\ i + 1 # 1 /\ ~ WindsUp(k, i + 1) /\ c \notin leaked
        BY <2>1, <3>1, <3>2, <3>3 DEF WindsUp, RunSame
      <4>2. IsKnown(c, k)
        BY <1>3, <4>1 DEF Known
      <4> QED
        BY <2>1, <4>2 DEF IsKnown, RunSame
    <3>8. Counted(c, k)'
      <4> SUFFICES ASSUME Counts(c, k)', <<c, k>> \notin early' PROVE Serves(c, k)'
        BY DEF Counted
      <4>1. Counts(c, k) /\ <<c, k>> \notin early /\ ~ Disconnecting(k)
        BY <2>1, <3>1 DEF Counts, Pruning, Disconnecting, RunSame
      <4>2. PICK i \in 1 .. Len(queue[k]) : FullAt(c, k, i) /\ i # 1
        BY <1>3, <3>1, <4>1 DEF Counted, Serves
      <4>3. i - 1 \in 1 .. Len(queue'[k]) /\ (i - 1) + 1 = i
        BY <3>2, <4>2
      <4>4. FullAt(c, k, i - 1)'
        BY <3>3, <4>2, <4>3
      <4> QED
        BY <3>1, <4>3, <4>4 DEF Serves
    <3> QED
      BY <3>4, <3>6, <3>7, <3>8 DEF PairInv
  <2> QED
    BY <2>2, <2>3
<1>7. CASE ProxyExits(m)
  <2>1. /\ queue' = queue /\ sched' = [sched EXCEPT ![m] = "range"] /\ sched[m] \in {"free", "serve", "cancel"}
        /\ UNCHANGED <<runVars, leaked>>
    BY <1>7 DEF ProxyExits
  <2>2. /\ full'[c] \subseteq full[c] /\ \A n \in full[c] : n # m => n \in full'[c]
        /\ \A n : n # m => (<<c, n>> \in early' <=> <<c, n>> \in early)
    <3>1. CASE Served(m)
      <4>1. sched[m] \in {"serve", "cancel"} /\ OnEnd(queue[m][1], m) /\ queue[m][1] \in Task
        BY <1>1, <1>7, <3>1, HeadFacts DEF ProxyExits, Served
      <4>2. /\ full'[c] = IF queue[m][1].contract = c THEN full[c] \ {m} ELSE full[c]
            /\ early \subseteq early' /\ \A p \in early' : p \in early \/ p = <<queue[m][1].contract, m>>
        BY <1>1, <4>1, EndFacts
      <4> QED
        BY <4>2
    <3>2. CASE ~ Served(m)
      BY <1>7, <3>2 DEF ProxyExits
    <3> QED
      BY <3>1, <3>2
  <2>3. CASE k # m
    <3>1. QueueSame(k) /\ RunSame(c, k)
      BY <1>2, <2>1, <2>2, <2>3 DEF QueueSame, RunSame
    <3> QED
      BY <1>1, <3>1, PairSame
  <2>4. CASE k = m
    <3>1. sched'[k] = "range" /\ Listed(k)
      BY <1>2, <2>1, <2>4 DEF Listed
    <3>2. FullFirst(c, k)' /\ FreshPick(c, k)' /\ Complete(c, k)'
      BY <1>3, <2>1, <2>2, <3>1 DEF FullFirst, FreshPick, Complete, FullAt, HasTask
    <3>3. Known(c, k)' /\ Counted(c, k)'
      BY <3>1 DEF Known, WindsUp, Counted, Disconnecting
    <3> QED
      BY <3>2, <3>3 DEF PairInv
  <2> QED
    BY <2>3, <2>4
<1>8. CASE OnDisconnect(m)
  <2> DEFINE t == queue[m][told'[m]]
  <2>1. /\ sched[m] = "range" /\ UNCHANGED <<queue, sched, left, pick, added, leaked>>
        /\ told' = [told EXCEPT ![m] = @ + 1] /\ told[m] < Len(queue[m]) /\ OnEnd(t, m)
    BY <1>8 DEF OnDisconnect
  <2>2. t \in Task
    <3>1. /\ Len(queue[m]) \in Nat /\ queue[m] \in Seq(Task) /\ told \in [Miner -> 0 .. MaxTasks]
      BY <1>1, LenProperties DEF TypeOK
    <3>2. told[m] \in Nat
      BY <3>1, AllocationAssumption
    <3>3. told'[m] = told[m] + 1 /\ told'[m] \in 1 .. Len(queue[m])
      BY <2>1, <3>1, <3>2
    <3> QED
      BY <3>1, <3>3, ElementOfSeq
  <2>3. /\ full'[c] = IF t.contract = c THEN full[c] \ {m} ELSE full[c]
        /\ early \subseteq early' /\ \A p \in early' : p \in early \/ p = <<t.contract, m>>
    BY <1>1, <2>1, <2>2, EndFacts
  <2>4. pc'[c] = pc[c] \/ (pc[c] = "select" /\ pc'[c] = "adjust")
    <3>1. /\ t.contract # Other => Sends(t.contract)
          /\ pc' = pc \/ (t.contract # Other /\ pc[t.contract] # "done" /\ pc' = [pc EXCEPT ![t.contract] = "adjust"])
      BY <1>8 DEF OnDisconnect
    <3> HIDE DEF t
    <3> QED
      BY <1>1, <3>1 DEF Sends, TypeOK
  <2> HIDE DEF t
  <2>5. FullFirst(c, k)' /\ FreshPick(c, k)'
    BY <1>3, <2>1, <2>4 DEF FullFirst, FreshPick, FullAt, HasTask
  <2>6. Complete(c, k)'
    BY <1>3, <2>1, <2>3, <2>4 DEF Complete, Listed
  <2>7. Known(c, k)'
    <3>1. CASE k = m
      BY <2>1, <3>1 DEF Known, WindsUp
    <3>2. CASE k # m
      <4>1. k \in full'[c] <=> k \in full[c]
        BY <2>3, <3>2
      <4>2. IsKnown(c, k) => IsKnown(c, k)'
        BY <2>1, <2>4, <4>1 DEF IsKnown
      <4> QED
        BY <1>3, <2>1, <4>2 DEF Known, WindsUp, FullAt
    <3> QED
      BY <3>1, <3>2
  <2>8. Counted(c, k)'
    <3>1. CASE k = m
      BY <2>1, <3>1 DEF Counted, Disconnecting
    <3>2. CASE k # m
      <4>1. Counts(c, k)' => Counts(c, k)
        BY <2>1, <2>3, <2>4 DEF Counts, Pruning
      <4> QED
        BY <1>3, <2>1, <2>3, <4>1 DEF Counted, Serves, FullAt, Disconnecting
    <3> QED
      BY <3>1, <3>2
  <2> QED
    BY <2>5, <2>6, <2>7, <2>8 DEF PairInv
<1>9. CASE Gone(m)
  <2>1. RunSame(c, k)
    BY <1>9 DEF Gone, RunSame
  <2>2. CASE k # m
    BY <1>1, <1>2, <1>9, <2>1, <2>2, PairSame DEF Gone, QueueSame
  <2>3. CASE k = m
    <3>1. sched'[k] = "gone" /\ queue'[k] = <<>> /\ Len(<<>>) = 0
      BY <1>2, <1>9, <2>3, EmptySeq DEF Gone
    <3> QED
      BY <3>1 DEF PairInv, FullFirst, FreshPick, HasTask, Known, Complete, Listed, Counted, Disconnecting
  <2> QED
    BY <2>2, <2>3
<1> QED
  BY <1>4, <1>5, <1>6, <1>7, <1>8, <1>9 DEF Scheduler

\* A task of another contract was added to the queue, or removed from it.
LEMMA OtherPair ==
  ASSUME IInv, NEW c \in Contract, NEW k \in Miner, RunSame(c, k), NEW d \in (Contract \cup {Other}) \ {c},
         \/ QueueSame(k)
         \/ RemoveTasksByID(k, d)
         \/ sched' = sched /\ \E kind \in {"full", "partial"} : AddTask(k, d, kind)
  PROVE  PairInv(c, k)'
<1>1. TypeOK /\ QueueInv(k) /\ PairInv(c, k)
  BY DEF IInv
<1>2. CASE QueueSame(k)
  BY <1>1, <1>2, PairSame
<1>3. CASE RemoveTasksByID(k, d)
  BY <1>1, <1>3, PairRemoved
<1>4. ASSUME sched' = sched, NEW kind \in {"full", "partial"}, AddTask(k, d, kind) PROVE PairInv(c, k)'
  <2>1. /\ [contract |-> d, kind |-> kind] \in Task
        /\ queue'[k] = Append(queue[k], [contract |-> d, kind |-> kind]) \/ queue'[k] = queue[k]
    BY <1>1, <1>4, AddFacts
  <2>2. CASE queue'[k] = queue[k]
    BY <1>1, <1>4, <2>2, PairSame DEF QueueSame
  <2>3. CASE queue'[k] = Append(queue[k], [contract |-> d, kind |-> kind])
    BY <1>1, <1>4, <2>1, <2>3, PairAppended
  <2> QED
    BY <2>1, <2>2, <2>3
<1> QED
  BY <1>2, <1>3, <1>4

\* A full task that is not wound up is on a miner that stays in the set.
LEMMA KnownIsKept ==
  ASSUME TypeOK, NEW c \in Contract, NEW k \in Miner, QueueInv(k), PairInv(c, k), c \notin leaked,
         pc[c] \in {"remove", "prune", "pruneAll"}, NEW i \in 1 .. Len(queue[k]), FullAt(c, k, i), ~ WindsUp(k, i)
  PROVE  k \in left[c] /\ k \in full[c] /\ k \in Pruned(c)
<1>1. k \in full[c]
  BY DEF PairInv, Known, IsKnown
<1>2. queue[k] # <<>>
  BY EmptySeq
<1>3. Listed(k)
  BY <1>2 DEF QueueInv, Listed
<1>4. k \in left[c]
  BY <1>1, <1>3 DEF PairInv, Complete
<1> QED
  BY <1>1, <1>4 DEF Pruned

\* A step of the run of c, for the miners whose queues it leaves alone, or where it
\* removes its tasks.
LEMMA OwnPair ==
  ASSUME IInv, NEW c \in Contract, Run(c), ~ Allocate(c), NEW k \in Miner
  PROVE  PairInv(c, k)'
<1>1. /\ TypeOK /\ QueueInv(k) /\ PairInv(c, k) /\ RunInv(c) /\ k # NoMiner
  BY AllocationAssumption DEF IInv
<1>2. /\ pc \in [Contract -> {"done", "top", "adjust", "full", "partial", "remove",
                                 "select", "prune", "pruneAll", "release", "releasePartial"}]
      /\ left \in [Contract -> SUBSET Miner] /\ added \in [Contract -> SUBSET Miner]
      /\ full \in [Contract -> SUBSET Miner] /\ pick \in [Contract -> Miner \cup {NoMiner}]
  BY <1>1 DEF TypeOK
<1>3. FullFirst(c, k) /\ FreshPick(c, k) /\ Known(c, k) /\ Complete(c, k) /\ Counted(c, k)
  BY <1>1 DEF PairInv
<1> USE DEF schedVars, setVars, historyVars, runVars, Goes
<1>4. ASSUME QueueSame(k)
      PROVE  /\ FullFirst(c, k)'
             /\ \A i \in Nat : FullAt(c, k, i)' <=> FullAt(c, k, i)
             /\ \A i \in Nat : WindsUp(k, i)' <=> WindsUp(k, i)
             /\ HasTask(c, k)' <=> HasTask(c, k)
             /\ Serves(c, k)' <=> Serves(c, k)
             /\ Listed(k)' <=> Listed(k)
             /\ Disconnecting(k)' <=> Disconnecting(k)
             /\ 1 .. Len(queue'[k]) = 1 .. Len(queue[k])
  BY <1>3, <1>4 DEF QueueSame, FullFirst, FullAt, WindsUp, HasTask, Serves, Listed, Disconnecting
\* what is left to show when the queue is the same
<1>5. ASSUME QueueSame(k), c \in leaked => c \in leaked',
             FreshPick(c, k)', Complete(c, k)',
             ASSUME NEW i \in 1 .. Len(queue[k]), FullAt(c, k, i), ~ WindsUp(k, i), c \notin leaked', c \notin leaked
             PROVE  IsKnown(c, k)',
             Counts(c, k)' => Counts(c, k) /\ (<<c, k>> \in early => <<c, k>> \in early')
      PROVE  PairInv(c, k)'
  <2>1. Known(c, k)'
    BY <1>4, <1>5 DEF Known
  <2>2. Counted(c, k)'
    BY <1>3, <1>4, <1>5 DEF Counted
  <2> QED
    BY <1>4, <1>5, <2>1, <2>2 DEF PairInv
<1>6. ASSUME NEW i \in 1 .. Len(queue[k]), FullAt(c, k, i), ~ WindsUp(k, i), c \notin leaked
      PROVE  /\ IsKnown(c, k)
             /\ pc[c] \in {"remove", "prune", "pruneAll"} => k \in left[c] /\ k \in full[c] /\ k \in Pruned(c)
  BY <1>1, <1>3, <1>6, KnownIsKept DEF Known
<1>7. CASE Start(c)
  <2>1. /\ pc[c] = "done" /\ pc'[c] = "top" /\ full'[c] = {} /\ left' = left /\ added' = added /\ pick' = pick
        /\ QueueSame(k) /\ leaked' = leaked /\ added[c] = {}
    BY <1>1, <1>2, <1>7 DEF Start, QueueSame, RunInv
  <2>2. FreshPick(c, k)' /\ Complete(c, k)' /\ ~ Counts(c, k)'
    BY <2>1 DEF FreshPick, Complete, Counts, Pruning
  <2> QED
    BY <1>5, <1>6, <2>1, <2>2 DEF IsKnown
<1>8. CASE Top(c)
  <2>1. /\ pc[c] = "top" /\ UNCHANGED <<left, added, pick, full, early>> /\ QueueSame(k)
    BY <1>2, <1>8 DEF Top, QueueSame
  <2>2. (pc'[c] = "adjust" /\ leaked' = leaked) \/ (pc'[c] = "done" /\ c \in leaked')
    <3>1. \/ pc' = [pc EXCEPT ![c] = "adjust"] /\ leaked' = leaked
          \/ pc' = [pc EXCEPT ![c] = "done"] /\ leaked' = leaked \cup {c}
      BY <1>8 DEF Top
    <3> QED
      BY <1>2, <3>1
  <2>3. FreshPick(c, k)' /\ Complete(c, k)' /\ (Counts(c, k)' => Counts(c, k))
    BY <2>1, <2>2 DEF FreshPick, Complete, Counts, Pruning
  <2> QED
    BY <1>5, <1>6, <2>1, <2>2, <2>3 DEF IsKnown
<1>9. CASE Adjust(c)
  <2>1. /\ pc[c] = "adjust" /\ UNCHANGED <<added, pick, full, early, leaked>> /\ QueueSame(k)
        /\ \/ pc'[c] = "select"
           \/ pc'[c] = "full" /\ left'[c] = FreeMiners
           \/ pc'[c] = "remove" /\ left'[c] = Available(c)
        /\ pick[c] = NoMiner /\ added[c] = {}
    BY <1>1, <1>2, <1>9 DEF Adjust, QueueSame, RunInv
  <2>2. FreshPick(c, k)'
    <3> SUFFICES ASSUME pc'[c] = "full", k \in left'[c] PROVE ~ HasTask(c, k)'
      BY <1>1, <2>1 DEF FreshPick
    <3>1. queue[k] = <<>>
      BY <2>1 DEF FreeMiners, IsFree
    <3>2. ~ HasTask(c, k)
      BY <3>1, EmptySeq DEF HasTask
    <3> QED
      BY <1>4, <2>1, <3>2
  <2>3. Complete(c, k)' /\ (Counts(c, k)' => Counts(c, k))
    BY <1>4, <2>1 DEF Complete, Counts, Pruning, Available
  <2> QED
    BY <1>5, <1>6, <2>1, <2>2, <2>3 DEF IsKnown
<1>10. CASE RemoveFull(c)
  <2>1. pc[c] = "remove" /\ pc'[c] = "select" /\ UNCHANGED <<added, pick, early, leaked>>
    BY <1>2, <1>10 DEF RemoveFull
  <2>2. FreshPick(c, k)' /\ Complete(c, k)'
    BY <2>1 DEF FreshPick, Complete
  <2>3. ASSUME NEW m \in left[c], RemoveTasksByID(m, c), full' = [full EXCEPT ![c] = Pruned(c) \ {m}] PROVE PairInv(c, k)'
    <3>1. m \in Miner /\ full'[c] = Pruned(c) \ {m} /\ Pruned(c) \subseteq left[c] \cup full[c]
      BY <1>2, <2>3 DEF Pruned
    <3>2. Counts(c, k)' => Counts(c, k) /\ k # m
      BY <2>1, <3>1 DEF Counts, Pruning
    <3>3. CASE k # m
      <4>1. QueueSame(k)
        BY <1>1, <2>3, <3>1, <3>3, RemoveFacts
      <4> QED
        BY <1>5, <1>6, <2>1, <2>2, <3>1, <3>2, <3>3, <4>1 DEF IsKnown
    <3>4. CASE k = m
      <4>1. /\ FullFirst(c, k)'
            /\ \A i \in 1 .. Len(queue'[k]) : FullAt(c, k, i)' => WindsUp(k, i)'
        BY <1>1, <1>3, <2>3, <3>4, OwnRemoved
      <4>2. Known(c, k)' /\ Counted(c, k)'
        BY <3>2, <3>4, <4>1 DEF Known, Counted
      <4> QED
        BY <2>2, <4>1, <4>2 DEF PairInv
    <3> QED
      BY <3>3, <3>4
  <2>4. CASE left[c] = {} /\ full' = [full EXCEPT ![c] = {}] /\ UNCHANGED <<queue, sched>>
    <3>1. QueueSame(k) /\ full'[c] = {} /\ ~ Counts(c, k)'
      BY <1>2, <2>1, <2>4 DEF QueueSame, Counts, Pruning
    <3> QED
      BY <1>5, <1>6, <2>1, <2>2, <2>4, <3>1
  <2> QED
    BY <1>10, <2>3, <2>4 DEF RemoveFull
<1>11. CASE LookUp(c)
  <2>1. PICK m \in left[c] : /\ left' = [left EXCEPT ![c] = @ \ {m}]
                             /\ pick' = [pick EXCEPT ![c] = m] \/ pick' = pick
    BY <1>11 DEF LookUp
  <2>2. /\ pc[c] \in {"full", "partial"} /\ pick[c] = NoMiner /\ QueueSame(k)
        /\ UNCHANGED <<pc, added, full, early, leaked>>
    BY <1>11 DEF LookUp, QueueSame
  <2>3. (k \in left'[c] => k \in left[c]) /\ (k = pick'[c] => k \in left[c])
    BY <1>1, <1>2, <2>1, <2>2
  <2>4. FreshPick(c, k)'
    BY <1>3, <1>4, <2>2, <2>3 DEF FreshPick
  <2>5. Complete(c, k)' /\ (Counts(c, k)' => Counts(c, k))
    BY <2>2 DEF Complete, Counts, Pruning
  <2> QED
    BY <1>5, <1>6, <2>2, <2>4, <2>5 DEF IsKnown
<1>12. CASE RecordFull(c)
  <2>1. /\ pc[c] = "full" /\ pc'[c] \in {"select", "partial"} /\ full'[c] = full[c] \cup added[c]
        /\ UNCHANGED <<pick, early, leaked>> /\ QueueSame(k)
    BY <1>2, <1>12 DEF RecordFull, QueueSame
  <2>2. FreshPick(c, k)' /\ Complete(c, k)' /\ (Counts(c, k)' => Counts(c, k))
    BY <2>1 DEF FreshPick, Complete, Counts, Pruning
  <2> QED
    BY <1>5, <1>6, <2>1, <2>2 DEF IsKnown
<1>13. CASE RecordPartial(c)
  <2>1. /\ pc[c] = "partial" /\ pc'[c] = "select" /\ UNCHANGED <<pick, full, early, leaked>> /\ QueueSame(k)
    BY <1>2, <1>13 DEF RecordPartial, QueueSame
  <2>2. FreshPick(c, k)' /\ Complete(c, k)' /\ (Counts(c, k)' => Counts(c, k))
    BY <2>1 DEF FreshPick, Complete, Counts, Pruning
  <2> QED
    BY <1>5, <1>6, <2>1, <2>2 DEF IsKnown
<1>14. CASE Select(c)
  <2>1. /\ pc[c] = "select" /\ UNCHANGED <<added, pick, full, early, leaked>> /\ QueueSame(k)
        /\ pc'[c] = "adjust" \/ (pc'[c] \in {"prune", "pruneAll"} /\ left'[c] = Available(c))
    BY <1>2, <1>14 DEF Select, QueueSame
  <2>2. FreshPick(c, k)' /\ Complete(c, k)' /\ (Counts(c, k)' => Counts(c, k))
    BY <1>4, <2>1 DEF FreshPick, Complete, Counts, Pruning, Available
  <2> QED
    BY <1>5, <1>6, <2>1, <2>2 DEF IsKnown
<1>15. CASE CycleEnd(c)
  <2>1. /\ pc[c] = "prune" /\ pc'[c] = "top" /\ UNCHANGED <<added, pick, early, leaked>> /\ QueueSame(k)
        /\ full'[c] = Pruned(c) /\ Pruned(c) \subseteq left[c] \cup full[c]
    BY <1>2, <1>15 DEF CycleEnd, QueueSame, Pruned
  <2>2. FreshPick(c, k)' /\ Complete(c, k)' /\ (Counts(c, k)' => Counts(c, k))
    BY <2>1 DEF FreshPick, Complete, Counts, Pruning
  <2> QED
    BY <1>5, <1>6, <2>1, <2>2 DEF IsKnown
<1>16. CASE ContractEnd(c)
  <2>1. /\ pc[c] = "pruneAll" /\ pc'[c] = "release" /\ UNCHANGED <<added, pick, early, leaked>> /\ QueueSame(k)
        /\ left'[c] = Pruned(c) /\ full'[c] = Pruned(c)
    BY <1>2, <1>16 DEF ContractEnd, QueueSame
  <2>2. FreshPick(c, k)' /\ Complete(c, k)' /\ ~ Counts(c, k)'
    BY <2>1 DEF FreshPick, Complete, Counts
  <2> QED
    BY <1>5, <1>6, <2>1, <2>2 DEF IsKnown
<1>17. CASE Release(c)
  <2>1. /\ pc[c] \in {"release", "releasePartial"} /\ pc'[c] \in {"release", "releasePartial", "done"}
        /\ UNCHANGED <<added, pick, full, early, leaked>>
    BY <1>2, <1>17 DEF Release
  <2>2. FreshPick(c, k)' /\ Complete(c, k)' /\ ~ Counts(c, k)'
    BY <2>1 DEF FreshPick, Complete, Counts
  <2>3. CASE left[c] # {}
    <3>1. PICK m \in left[c] : RemoveTasksByID(m, c) /\ left' = [left EXCEPT ![c] = @ \ {m}]
      BY <1>17, <2>3 DEF Release
    <3>2. pc' = pc /\ m \in Miner /\ left'[c] = left[c] \ {m}
      BY <1>2, <1>17, <2>3, <3>1 DEF Release
    <3>3. CASE k # m
      <4>1. QueueSame(k)
        BY <1>1, <3>1, <3>2, <3>3, RemoveFacts
      <4> QED
        BY <1>5, <1>6, <2>1, <2>2, <3>2, <3>3, <4>1 DEF IsKnown
    <3>4. CASE k = m
      <4>1. /\ FullFirst(c, k)'
            /\ \A i \in 1 .. Len(queue'[k]) : FullAt(c, k, i)' => WindsUp(k, i)'
        BY <1>1, <1>3, <3>1, <3>4, OwnRemoved
      <4>2. Known(c, k)' /\ Counted(c, k)'
        BY <2>2, <4>1 DEF Known, Counted
      <4> QED
        BY <2>2, <4>1, <4>2 DEF PairInv
    <3> QED
      BY <3>3, <3>4
  <2>4. CASE left[c] = {}
    <3>1. QueueSame(k)
      BY <1>17, <2>4 DEF Release, QueueSame
    <3> QED
      BY <1>5, <1>6, <2>1, <2>2, <2>4, <3>1 DEF IsKnown
  <2> QED
    BY <2>3, <2>4
<1> QED
  BY <1>7, <1>8, <1>9, <1>10, <1>11, <1>12, <1>13, <1>14, <1>15, <1>16, <1>17 DEF Run

\* A new task, at the end of the queue that was picked.
LEMMA AllocatePair ==
  ASSUME IInv, NEW c \in Contract, Allocate(c), NEW k \in Miner
  PROVE  PairInv(c, k)'
<1>1. /\ TypeOK /\ QueueInv(k) /\ PairInv(c, k) /\ RunInv(c) /\ k # NoMiner
  BY AllocationAssumption DEF IInv
<1>2. /\ added \in [Contract -> SUBSET Miner] /\ pick \in [Contract -> Miner \cup {NoMiner}]
      /\ queue[k] \in Seq(Task) /\ Len(queue[k]) \in Nat
  BY <1>1, LenProperties DEF TypeOK
<1>3. FullFirst(c, k) /\ FreshPick(c, k) /\ Known(c, k) /\ Complete(c, k) /\ Counted(c, k)
  BY <1>1 DEF PairInv
<1> DEFINE m == pick[c]
           t == [contract |-> c, kind |-> pc[c]]
<1>4. /\ m \in Miner /\ pc[c] \in {"full", "partial"} /\ m \notin left[c] /\ AddTask(m, c, pc[c])
      /\ sched' = sched /\ UNCHANGED <<pc, left, full, leaked>>
      /\ pick'[c] = NoMiner /\ added'[c] = added[c] \cup {m}
      /\ early' = IF pc[c] = "full" THEN early \ {<<c, m>>} ELSE early
  BY <1>1, <1>2 DEF Allocate, RunInv, setVars
<1>5. /\ t \in Task /\ \A n \in Miner \ {m} : queue'[n] = queue[n]
      /\ queue'[m] = IF Listed(m) THEN Append(queue[m], t) ELSE queue[m]
  <2>1. m \in Miner /\ pc[c] \in {"full", "partial"} /\ AddTask(m, c, pc[c])
    BY <1>4
  <2> QED
    BY <1>1, <2>1, AddFacts
<1>6. Complete(c, k)'
  BY <1>4 DEF Complete
<1>7. FreshPick(c, k)' <=> (pc[c] = "full" /\ k \in left[c] => ~ HasTask(c, k)')
  BY <1>1, <1>4 DEF FreshPick
<1>8. CASE k # m
  <2>1. queue'[k] = queue[k] /\ sched'[k] = sched[k]
    BY <1>4, <1>5, <1>8
  <2>2. FullFirst(c, k)' /\ FreshPick(c, k)'
    BY <1>3, <1>7, <2>1 DEF FullFirst, FullAt, FreshPick, HasTask
  <2>3. Known(c, k)'
    BY <1>3, <1>4, <1>8, <2>1 DEF Known, IsKnown, FullAt, WindsUp
  <2>4. Counted(c, k)'
    <3>1. Counts(c, k)' => Counts(c, k)
      BY <1>4, <1>8 DEF Counts, Pruning
    <3>2. <<c, k>> \in early => <<c, k>> \in early'
      BY <1>4, <1>8
    <3> QED
      BY <1>3, <2>1, <3>1, <3>2 DEF Counted, Serves, FullAt, Disconnecting
  <2> QED
    BY <1>6, <2>2, <2>3, <2>4 DEF PairInv
<1>9. CASE k = m /\ ~ Listed(k)
  <2>1. queue'[k] = <<>> /\ sched'[k] = "gone" /\ Len(<<>>) = 0
    BY <1>1, <1>4, <1>5, <1>9, EmptySeq DEF QueueInv, Listed
  <2>2. FullFirst(c, k)' /\ Known(c, k)' /\ Counted(c, k)' /\ FreshPick(c, k)'
    BY <1>4, <1>9, <2>1 DEF FullFirst, Known, Counted, Disconnecting, FreshPick, HasTask
  <2> QED
    BY <1>6, <2>2 DEF PairInv
<1>10. CASE k = m /\ Listed(k)
  <2> DEFINE q == queue[k]
             last == Len(q) + 1
  <2>1. queue'[k] = Append(q, t) /\ sched'[k] = sched[k]
    BY <1>4, <1>5, <1>10
  <2>2. /\ Len(queue'[k]) = last /\ \A i \in 1 .. Len(q) : queue'[k][i] = q[i]
        /\ queue'[k][last] = t
    BY <1>2, <1>5, <2>1, AppendFacts
  <2>3. ASSUME NEW i \in 1 .. Len(queue'[k]), FullAt(c, k, i)'
        PROVE  FullAt(c, k, i) \/ (i = last /\ pc[c] = "full")
    <3>1. CASE i \in 1 .. Len(q)
      BY <2>2, <2>3, <3>1 DEF FullAt
    <3>2. CASE i = last
      BY <2>2, <2>3, <3>2 DEF FullAt, FullTask
    <3> QED
      BY <1>2, <2>2, <3>1, <3>2
  <2>4. FullFirst(c, k)'
    <3> SUFFICES ASSUME NEW i \in 1 .. Len(queue'[k]), FullAt(c, k, i)', NEW j \in 1 .. i - 1
                 PROVE  queue'[k][j].contract # c
      BY DEF FullFirst
    <3>1. j \in 1 .. Len(q)
      BY <1>2, <2>2
    <3>2. CASE FullAt(c, k, i)
      BY <1>3, <2>2, <3>1, <3>2 DEF FullFirst, FullAt
    <3>3. CASE i = last /\ pc[c] = "full"
      <4>1. ~ HasTask(c, k)
        BY <1>3, <1>10, <3>3 DEF FreshPick
      <4> QED
        BY <2>2, <3>1, <4>1 DEF HasTask
    <3> QED
      BY <2>3, <3>2, <3>3
  <2>5. FreshPick(c, k)'
    BY <1>4, <1>7, <1>10
  <2>6. Known(c, k)'
    <3> SUFFICES ASSUME c \notin leaked', NEW i \in 1 .. Len(queue'[k]), FullAt(c, k, i)', ~ WindsUp(k, i)'
                 PROVE  IsKnown(c, k)'
      BY DEF Known
    <3>1. CASE FullAt(c, k, i)
      <4>1. IsKnown(c, k)
        BY <1>3, <1>4, <2>1, <3>1 DEF Known, WindsUp, FullAt
      <4> QED
        BY <1>4, <4>1 DEF IsKnown
    <3>2. CASE pc[c] = "full"
      BY <1>4, <1>10, <3>2 DEF IsKnown
    <3> QED
      BY <2>3, <3>1, <3>2
  <2>7. Counted(c, k)'
    <3>1. CASE pc[c] = "full"
      <4>1. PICK i \in Nat : i = last
        BY <1>2
      <4>2. FullAt(c, k, i)' /\ i \in 1 .. Len(queue'[k])
        BY <1>2, <2>2, <3>1, <4>1 DEF FullAt, FullTask
      <4>3. ~ (i = 1 /\ sched'[k] = "ended")
        <5>1. sched[k] = "ended" => Len(q) \in Nat \ {0}
          BY <1>1, <1>2, EmptySeq DEF QueueInv
        <5> QED
          BY <1>2, <2>1, <4>1, <5>1
      <4> QED
        BY <4>2, <4>3 DEF Counted, Serves
    <3>2. CASE pc[c] = "partial"
      <4>1. (Counts(c, k)' => Counts(c, k)) /\ early' = early
        BY <1>4, <3>2 DEF Counts, Pruning
      <4>2. Serves(c, k) => Serves(c, k)'
        BY <1>2, <2>1, <2>2 DEF Serves, FullAt
      <4> QED
        BY <1>3, <2>1, <4>1, <4>2 DEF Counted, Disconnecting
    <3> QED
      BY <1>4, <3>1, <3>2
  <2> QED
    BY <1>6, <2>4, <2>5, <2>6, <2>7 DEF PairInv
<1> QED
  BY <1>8, <1>9, <1>10

\* A share removes the tasks of c from a miner: a full one among them is early.
LEMMA SweepPair ==
  ASSUME IInv, NEW c \in Contract, Sweep(c), NEW k \in Miner
  PROVE  PairInv(c, k)'
<1>1. TypeOK /\ QueueInv(k) /\ PairInv(c, k)
  BY DEF IInv
<1>2. PICK m \in sweep[c] : /\ RemoveTasksByID(m, c)
                            /\ early' = IF Has(c, m, "full") THEN early \cup {<<c, m>>} ELSE early
  BY DEF Sweep
<1>3. m \in Miner /\ UNCHANGED <<pc, left, pick, added, full, leaked>>
  BY <1>1 DEF Sweep, TypeOK, runVars, setVars
<1>4. CASE k # m
  BY <1>1, <1>2, <1>3, <1>4, RemoveFacts, PairSame DEF RunSame
<1>5. CASE k = m
  <2>1. /\ HasTask(c, k)' => HasTask(c, k)
        /\ FullFirst(c, k)'
        /\ \A i \in 1 .. Len(queue'[k]) : FullAt(c, k, i)' => WindsUp(k, i)'
        /\ Listed(k)' <=> Listed(k)
        /\ Disconnecting(k)' <=> Disconnecting(k)
    BY <1>1, <1>2, <1>5, OwnRemoved DEF PairInv
  <2>2. FreshPick(c, k)' /\ Complete(c, k)' /\ Known(c, k)'
    BY <1>1, <1>3, <2>1 DEF PairInv, FreshPick, Complete, Known
  <2>3. Counted(c, k)'
    <3>1. Serves(c, k) => <<c, k>> \in early'
      BY <1>2, <1>5 DEF Serves, Has, FullAt, FullTask
    <3>2. (Counts(c, k)' => Counts(c, k)) /\ (<<c, k>> \in early => <<c, k>> \in early')
      BY <1>2, <1>3 DEF Counts, Pruning
    <3> QED
      BY <1>1, <2>1, <3>1, <3>2 DEF PairInv, Counted
  <2> QED
    BY <2>1, <2>2, <2>3 DEF PairInv
<1> QED
  BY <1>4, <1>5

\* Every step preserves the invariant of every pair of a contract and a miner.
LEMMA StepPair ==
  ASSUME IInv, Next, NEW c \in Contract, NEW k \in Miner
  PROVE  PairInv(c, k)'
<1>1. TypeOK /\ PairInv(c, k) /\ c # Other
  BY AllocationAssumption DEF IInv
<1> USE DEF schedVars, setVars, historyVars, runVars
<1>2. ASSUME NEW m \in Miner, OtherContract(m) PROVE PairInv(c, k)'
  <2>1. RunSame(c, k)
    BY <1>2 DEF OtherContract, RunSame
  <2>2. CASE AddTask(m, Other, "full") /\ UNCHANGED <<sched, told>>
    <3>1. k # m => QueueSame(k)
      BY <1>1, <2>2, AddFacts DEF QueueSame
    <3> QED
      BY <1>1, <2>1, <2>2, <3>1, OtherPair
  <2>3. CASE RemoveTasksByID(m, Other)
    <3>1. k # m => QueueSame(k)
      BY <1>1, <2>3, RemoveFacts
    <3> QED
      BY <1>1, <2>1, <2>3, <3>1, OtherPair
  <2> QED
    BY <1>2, <2>2, <2>3 DEF OtherContract
<1>3. ASSUME NEW d \in Contract, Run(d) PROVE PairInv(c, k)'
  <2>1. CASE c # d
    <3>1. RunSame(c, k)
      BY <1>1, <1>3, <2>1, RunFrame DEF RunSame
    <3>2. RunInv(d)
      BY DEF IInv
    <3>3. \/ QueueSame(k)
          \/ RemoveTasksByID(k, d)
          \/ sched' = sched /\ \E kind \in {"full", "partial"} : AddTask(k, d, kind)
      BY <1>1, <1>3, <3>2, RunQueues
    <3> QED
      BY <2>1, <3>1, <3>3, OtherPair
  <2>2. CASE c = d
    BY <1>3, <2>2, OwnPair, AllocatePair
  <2> QED
    BY <2>1, <2>2
<1>4. ASSUME NEW d \in Contract, ReachTarget(d) PROVE PairInv(c, k)'
  BY <1>1, <1>4, PairSame DEF ReachTarget, QueueSame, RunSame
<1>5. ASSUME NEW d \in Contract, Sweep(d) PROVE PairInv(c, k)'
  <2>1. CASE c # d
    <3>1. PICK m \in sweep[d] : /\ RemoveTasksByID(m, d)
                                /\ early' = IF Has(d, m, "full") THEN early \cup {<<d, m>>} ELSE early
      BY <1>5 DEF Sweep
    <3>2. RunSame(c, k)
      BY <1>5, <2>1, <3>1 DEF Sweep, RunSame
    <3>3. m \in Miner
      BY <1>1 DEF TypeOK
    <3>4. k # m => QueueSame(k)
      BY <1>1, <3>1, <3>3, RemoveFacts
    <3> QED
      BY <2>1, <3>1, <3>2, <3>4, OtherPair
  <2>2. CASE c = d
    BY <1>5, <2>2, SweepPair
  <2> QED
    BY <2>1, <2>2
<1> QED
  BY <1>2, <1>3, <1>4, <1>5, SchedulerPair DEF Next

--------------------------------------------------------------------------------
\* Nothing is allocated at the start.
LEMMA InitInv == Init => IInv
<1> SUFFICES ASSUME Init PROVE IInv
  OBVIOUS
<1>1. <<>> \in Seq(Task) /\ Len(<<>>) = 0 /\ MaxTasks \in Nat /\ 0 \in Target
  BY EmptySeq, AllocationAssumption DEF Target
<1>2. TypeOK
  BY <1>1 DEF Init, TypeOK
<1>3. \A m \in Miner : QueueInv(m)
  BY <1>1 DEF Init, QueueInv
<1>4. \A c \in Contract : RunInv(c)
  BY DEF Init, RunInv
<1>5. \A c \in Contract, m \in Miner : PairInv(c, m)
  BY <1>1 DEF Init, PairInv, FullFirst, FreshPick, Known, Complete, Counted, Counts, HasTask
<1> QED
  BY <1>2, <1>3, <1>4, <1>5 DEF IInv

\* Every step preserves the parts of IInv.
LEMMA StepInv == IInv /\ [Next]_vars => IInv'
<1> SUFFICES ASSUME IInv, [Next]_vars PROVE IInv'
  OBVIOUS
<1>1. CASE Next
  BY <1>1, StepType, StepQueue, StepRun, StepPair DEF IInv
<1>2. CASE UNCHANGED vars
  <2> USE <1>2 DEF IInv, vars, schedVars, setVars, historyVars, runVars
  <2>1. TypeOK'
    BY StepType
  <2>2. \A m \in Miner : QueueInv(m)'
    BY QueueKept DEF QueueSame
  <2>3. \A c \in Contract : RunInv(c)'
    BY DEF RunInv
  <2>4. \A c \in Contract, m \in Miner : PairInv(c, m)'
    BY PairSame DEF QueueSame, RunSame
  <2> QED
    BY <2>1, <2>2, <2>3, <2>4
<1> QED
  BY <1>1, <1>2

\* IInv holds in every state.
THEOREM Invariance == Spec => []IInv
BY InitInv, StepInv, PTL DEF Spec

\* A full task is one that its contract knows of until it is wound up, and none is
\* left when the contract has removed its miners (contract_seller_v2.go:346).
THEOREM TasksAreWithdrawn == Spec => []FullTasksAreWithdrawn
<1>1. IInv => FullTasksAreWithdrawn
  <2> SUFFICES ASSUME IInv PROVE FullTasksAreWithdrawn
    OBVIOUS
  <2>1. ASSUME NEW c \in Contract \ leaked, NEW m \in Miner, Has(c, m, "full"),
               sched[m] \notin {"cancel", "ended", "range"}
        PROVE  pc[c] # "done" /\ m \in full[c] \cup added[c]
    <3>1. PICK i \in 1 .. Len(queue[m]) : FullAt(c, m, i)
      BY <2>1 DEF Has, FullAt, FullTask
    <3>2. ~ WindsUp(m, i) /\ queue[m] # <<>>
      BY <2>1, EmptySeq DEF WindsUp
    <3>3. IsKnown(c, m)
      BY <3>1, <3>2 DEF IInv, PairInv, Known
    <3> QED
      BY <3>3 DEF IsKnown
  <2> QED
    BY <2>1 DEF IInv, FullTasksAreWithdrawn, FullTaskIsKnown, ReleasedAtEnd
<1> QED
  BY Invariance, <1>1, PTL

\* A connected miner that is counted as full has a task of the contract, unless the
\* set could not be told that it left (contract_seller_v2.go:260).
THEOREM CountedServe == Spec => []CountedMinersServe
<1>1. IInv => CountedMinersServe
  <2> SUFFICES ASSUME IInv, NEW c \in Contract, pc[c] = "select", NEW m \in full[c]
               PROVE  Disconnecting(m) \/ <<c, m>> \in early \/ Has(c, m, "full")
    BY DEF CountedMinersServe
  <2>1. m \in Miner
    BY DEF IInv, TypeOK
  <2>2. Counts(c, m) /\ Counted(c, m)
    BY <2>1 DEF IInv, PairInv, Counts
  <2> QED
    BY <2>2 DEF Counted, Serves, FullAt, FullTask, Has
<1> QED
  BY Invariance, <1>1, PTL

================================================================================
