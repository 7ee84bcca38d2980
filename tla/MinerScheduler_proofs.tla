------------------------- MODULE MinerScheduler_proofs -------------------------
(***************************************************************************)
(* Proofs, for every set of contracts and pools and every number of tasks, *)
(* of the safety properties of MinerScheduler.                             *)
(***************************************************************************)
EXTENDS MinerScheduler, FiniteSetTheorems, SequenceTheorems, TLAPS

\* The task is locked exactly along the path that serves it; on the way out it
\* may or may not be.
LockDiscipline ==
    /\ pc \in {"poll", "setDest", "serve", "unlock"} => taken
    /\ pc \in {"connect", "top", "check", "lock", "drained", "toPrimary", "idle"} => ~ taken

\* Until the handshake is over the miner works for the default pool.
ConnectsToPrimary == pc = "connect" => destURL \in Primary

IInv ==
    /\ TypeOK
    /\ NoPanic
    /\ LockDiscipline
    /\ TakenTaskIsFront
    /\ SizeIsLength
    /\ NoLostWakeup
    /\ ConnectsToPrimary

--------------------------------------------------------------------------------
\* The deque is finite, so its length is a number.
LEMMA QueueFinite == TypeOK => IsFiniteSet(queue) /\ Cardinality(queue) \in Nat
<1> SUFFICES ASSUME TypeOK PROVE IsFiniteSet(queue) /\ Cardinality(queue) \in Nat
  OBVIOUS
<1>1. Len(job) \in Nat
  BY DEF TypeOK
<1>2. IsFiniteSet(1 .. Len(job))
  BY <1>1, FS_Interval
<1>3. IsFiniteSet(queue)
  BY <1>2, FS_Subset DEF TypeOK
<1> QED
  BY <1>3, FS_CardinalityType

\* Cancel takes tasks of the list only, and never the one being served.
LEMMA RemovedFacts ==
  ASSUME NEW c \in Contract
  PROVE  /\ Removed(c) \subseteq queue
         /\ taken /\ IsFront(cur) => cur \notin Removed(c)
BY DEF Removed, Removable, Matches

\* Cancel keeps the counter equal to the length.
LEMMA CancelCounts ==
  ASSUME TypeOK, SizeIsLength, NEW c \in Contract, Cancel(c)
  PROVE  SizeIsLength' /\ size' \in Nat
<1>1. IsFiniteSet(queue) /\ Cardinality(queue) \in Nat
  BY QueueFinite
<1>2. Removed(c) \subseteq queue
  BY RemovedFacts
<1>3. IsFiniteSet(Removed(c))
  BY <1>1, <1>2, FS_Subset
<1>4. Cardinality(queue \ Removed(c)) = Cardinality(queue) - Cardinality(queue \cap Removed(c))
  BY <1>1, FS_Difference
<1>5. queue \cap Removed(c) = Removed(c)
  BY <1>2
<1>6. IsFiniteSet(queue \ Removed(c)) /\ Cardinality(queue \ Removed(c)) \in Nat
  BY <1>1, FS_Difference, FS_CardinalityType
<1> QED
  BY <1>4, <1>5, <1>6 DEF Cancel, SizeIsLength

\* So does popping the front.
LEMMA PopCounts ==
  ASSUME TypeOK, SizeIsLength, NEW t \in queue, queue' = queue \ {t}, size' = size - 1
  PROVE  SizeIsLength' /\ size' \in Nat
<1>1. IsFiniteSet(queue) /\ Cardinality(queue) \in Nat
  BY QueueFinite
<1>2. Cardinality(queue \ {t}) = Cardinality(queue) - 1
  BY <1>1, FS_RemoveElement
<1>3. IsFiniteSet(queue \ {t}) /\ Cardinality(queue \ {t}) \in Nat
  BY <1>1, FS_RemoveElement, FS_CardinalityType
<1> QED
  BY <1>2, <1>3 DEF SizeIsLength

--------------------------------------------------------------------------------
THEOREM InitIInv == Init => IInv
<1> SUFFICES ASSUME Init PROVE IInv
  OBVIOUS
<1>1. Cardinality(queue) = 0
  BY FS_EmptySet DEF Init
<1>2. job \in Seq(Job) /\ Len(job) = 0
  BY DEF Init
<1>3. ended \in [Task -> Nat] /\ cpc \in [Contract -> CStates]
  BY DEF Init, CStates
<1>4. destURL \in URL /\ pc \in PCs /\ onSubmit \in 0 .. Len(job) /\ cur \in 0 .. Len(job)
  BY <1>2 DEF Init, URL, PCs
<1>5. /\ queue = {} /\ cancelled = {} /\ withdrawn = {} /\ expired = {} /\ dropped = {}
      /\ size = 0 /\ taken = FALSE /\ newTaskSignal = FALSE /\ isDisconnecting = FALSE
      /\ primaryDest \in Primary /\ proxyExit = "running"
  BY DEF Init
<1>6. Len(job) <= MaxTasks
  BY <1>2, MaxTasksAssumption
<1>7. TypeOK
  BY <1>2, <1>3, <1>4, <1>5, <1>6 DEF TypeOK
<1> QED
  BY <1>1, <1>7 DEF Init, IInv, ConnectsToPrimary, NoPanic, LockDiscipline, TakenTaskIsFront, SizeIsLength, NoLostWakeup

--------------------------------------------------------------------------------
\* UnlockAndRemove pops the task that was being served.
LEMMA PopsTaken ==
  ASSUME IInv, taken, NEW l, UnlockAndRemove(l)
  PROVE  /\ cur \in queue /\ queue' = queue \ {cur} /\ size' = size - 1
         /\ Goto(l) /\ taken' = FALSE
         /\ UNCHANGED <<job, cancelled, withdrawn>>
<1>1. IsFront(cur) /\ queue \subseteq Int
  BY DEF IInv, TakenTaskIsFront, TypeOK
<1>2. \A t \in queue : IsFront(t) => t = cur
  BY <1>1 DEF IsFront
<1>3. cur \in queue
  BY <1>1 DEF IsFront
<1> QED
  BY <1>1, <1>2, <1>3 DEF UnlockAndRemove

\* Numbers of the tasks, and of one task more.
LEMMA Numbers ==
  ASSUME NEW n \in Nat, NEW S, S \subseteq 1 .. n
  PROVE  S \cup {n + 1} \subseteq 1 .. (n + 1) /\ S \subseteq 0 .. n
OBVIOUS

\* Numbers of listed tasks stay within the bound.
LEMMA QueueInTask == TypeOK => queue \subseteq Task
<1> SUFFICES ASSUME TypeOK PROVE queue \subseteq Task
  OBVIOUS
<1>1. Len(job) \in Nat
  BY DEF TypeOK
<1> QED
  BY <1>1, MaxTasksAssumption DEF TypeOK, Task

\* The task being served has a number.
LEMMA TakenIsTask == IInv /\ taken => cur \in Task
BY QueueInTask DEF IInv, TakenTaskIsFront, IsFront

\* Type correctness of one step, action by action.
LEMMA StepTypeOK == IInv /\ [Next]_vars => TypeOK'
<1> SUFFICES ASSUME IInv, [Next]_vars PROVE TypeOK'
  OBVIOUS
<1> USE MaxTasksAssumption DEF TypeOK
<1>0. TypeOK /\ SizeIsLength
  BY DEF IInv
<1>1. CASE SchedulerStep
  <2>1. CASE Connect
    BY <1>0, <2>1 DEF IInv, ConnectsToPrimary, Connect, Goto, listVars, proxyVars, historyVars, PCs
  <2>2. CASE RunTop
    BY <1>0, <2>2 DEF RunTop, SetDestFails, Goto, listVars, proxyVars, historyVars, PCs, URL
  <2>3. CASE RunCheck
    BY <1>0, <2>3 DEF RunCheck, Goto, listVars, proxyVars, historyVars, PCs
  <2>4. CASE RunDestFailed
    <3>1. CASE taken
      <4>1. UnlockAndRemove("top") /\ UNCHANGED <<proxyVars, cpc, expired, historyVars>>
        BY <2>4, <3>1 DEF RunDestFailed
      <4>2. /\ cur \in queue /\ queue' = queue \ {cur} /\ size' = size - 1
            /\ Goto("top") /\ taken' = FALSE /\ UNCHANGED <<job, cancelled, withdrawn>>
        BY <3>1, <4>1, PopsTaken
      <4>3. size' \in Nat
        BY <1>0, <4>2, PopCounts
      <4> QED
        BY <1>0, <4>1, <4>2, <4>3 DEF Goto, proxyVars, historyVars, PCs
    <3>2. CASE ~ taken
      BY <1>0, <2>4, <3>2 DEF RunDestFailed, Goto, listVars, proxyVars, historyVars, PCs
    <3> QED
      BY <3>1, <3>2
  <2>5. CASE LockNextTask
    <3>1. /\ UNCHANGED <<job, queue, size, cancelled, withdrawn, destURL, onSubmit, proxyExit, cpc, expired>>
          /\ UNCHANGED <<ended, dropped, newTaskSignal, isDisconnecting, primaryDest>>
      BY <2>5 DEF LockNextTask, Goto, proxyVars, historyVars
    <3>2. pc' \in PCs /\ taken' \in BOOLEAN
      BY <1>0, <2>5 DEF LockNextTask, Goto, PCs
    <3>3. cur' = cur \/ cur' \in queue
      BY <2>5 DEF LockNextTask, Goto
    <3>4. cur' \in 0 .. Len(job)
      <4>1. Len(job) \in Nat /\ queue \subseteq 1 .. Len(job) /\ cur \in 0 .. Len(job)
        BY <1>0
      <4> QED
        BY <3>3, <4>1, Numbers
    <3> QED
      BY <1>0, <3>1, <3>2, <3>4
  <2>6. CASE PollTask
    <3>1. cur \in Task
      BY <1>0, <2>6, TakenIsTask DEF PollTask, IInv, LockDiscipline
    <3>2. ended' \in [Task -> Nat] /\ dropped' = dropped
      BY <1>0, <2>6, <3>1 DEF PollTask, ServiceEnds, OnEnd, historyVars
    <3>3. pc' \in PCs /\ UNCHANGED <<cur, newTaskSignal, isDisconnecting, primaryDest>>
      BY <2>6 DEF PollTask, ServiceEnds, AfterError, Goto, PCs
    <3> QED
      BY <1>0, <2>6, <3>2, <3>3 DEF PollTask, listVars, proxyVars
  <2>7. CASE SetTaskDest
    <3>1. taken /\ IsFront(cur)
      BY <2>7 DEF SetTaskDest, IInv, LockDiscipline, TakenTaskIsFront
    <3>2. cur \in 1 .. Len(job) /\ JobDest(cur) \in Contract \X Pool
      <4>1. cur \in 1 .. Len(job) /\ job \in Seq(Job)
        BY <1>0, <3>1 DEF IsFront
      <4>2. job[cur] \in Job
        BY <4>1
      <4> QED
        BY <4>1, <4>2 DEF JobDest, Job
    <3>3. cur \in Task
      BY <1>0, <3>1, TakenIsTask
    <3>4. ended' \in [Task -> Nat] /\ dropped' = dropped
      BY <1>0, <2>7, <3>3 DEF SetTaskDest, OnEnd, historyVars
    <3>5. pc' \in PCs /\ UNCHANGED <<cur, newTaskSignal, isDisconnecting, primaryDest>>
      BY <2>7 DEF SetTaskDest, Goto, PCs
    <3>6. destURL' \in URL /\ onSubmit' \in 0 .. Len(job) /\ proxyExit' = proxyExit
      BY <1>0, <2>7, <3>2 DEF SetTaskDest, SetDest, SetDestFails, proxyVars, URL
    <3> QED
      BY <1>0, <2>7, <3>4, <3>5, <3>6 DEF SetTaskDest, listVars
  <2>8. CASE ServeTask
    <3>1. cur \in Task
      BY <1>0, <2>8, TakenIsTask DEF ServeTask, IInv, LockDiscipline
    <3>2. ended' \in [Task -> Nat] /\ dropped' = dropped
      BY <1>0, <2>8, <3>1 DEF ServeTask, ServiceEnds, OnEnd
    <3>3. pc' \in PCs /\ UNCHANGED <<cur, newTaskSignal, isDisconnecting, primaryDest>>
      BY <2>8 DEF ServeTask, ServiceEnds, AfterError, Goto, PCs
    <3> QED
      BY <1>0, <2>8, <3>2, <3>3 DEF ServeTask, listVars, proxyVars
  <2>9. CASE UnlockTask
    <3>1. UnlockAndRemove("lock") /\ taken /\ UNCHANGED <<proxyVars, cpc, expired, historyVars>>
      BY <2>9 DEF UnlockTask, IInv, LockDiscipline
    <3>2. /\ cur \in queue /\ queue' = queue \ {cur} /\ size' = size - 1
          /\ Goto("lock") /\ taken' = FALSE /\ UNCHANGED <<job, cancelled, withdrawn>>
      BY <3>1, PopsTaken
    <3>3. size' \in Nat
      BY <1>0, <3>2, PopCounts
    <3> QED
      BY <1>0, <3>1, <3>2, <3>3 DEF Goto, proxyVars, historyVars, PCs
  <2>10. CASE Drained
    BY <1>0, <2>10 DEF Drained, TakeSignal, AfterError, Goto, listVars, proxyVars, historyVars, PCs
  <2>11. CASE ToPrimary
    BY <1>0, <2>11 DEF ToPrimary, SetDest, SetDestFails, Goto, listVars, proxyVars, historyVars, PCs, URL
  <2>12. CASE Idle
    BY <1>0, <2>12 DEF Idle, TakeSignal, AfterError, Goto, listVars, proxyVars, historyVars, PCs
  <2>13. CASE OnDisconnect
    BY <1>0, <2>13 DEF OnDisconnect, listVars, proxyVars, historyVars, PCs
  <2>14. CASE RangeNotify
    <3>1. PICK t \in queue : /\ dropped' = dropped \cup {t}
                            /\ ended' = [ended EXCEPT ![t] = @ + 1]
      BY <2>14 DEF RangeNotify
    <3>2. t \in Task
      BY <1>0, QueueInTask
    <3>3. ended' \in [Task -> Nat] /\ dropped' \subseteq 1 .. Len(job)
      BY <1>0, <3>1, <3>2
    <3> QED
      BY <1>0, <2>14, <3>3 DEF RangeNotify, listVars, schedVars, proxyVars
  <2>15. CASE RangeDone
    BY <1>0, <2>15 DEF RangeDone, Goto, listVars, proxyVars, historyVars, PCs
  <2>16. CASE Leave
    <3>1. CASE taken
      <4>1. UnlockAndRemove("gone") /\ UNCHANGED <<proxyVars, cpc, expired, historyVars>>
        BY <2>16, <3>1 DEF Leave
      <4>2. /\ cur \in queue /\ queue' = queue \ {cur} /\ size' = size - 1
            /\ Goto("gone") /\ taken' = FALSE /\ UNCHANGED <<job, cancelled, withdrawn>>
        BY <3>1, <4>1, PopsTaken
      <4>3. size' \in Nat
        BY <1>0, <4>2, PopCounts
      <4> QED
        BY <1>0, <4>1, <4>2, <4>3 DEF Goto, proxyVars, historyVars, PCs
    <3>2. CASE ~ taken
      BY <1>0, <2>16, <3>2 DEF Leave, Goto, listVars, proxyVars, historyVars, PCs
    <3> QED
      BY <3>1, <3>2
  <2> QED
    BY <1>1, <2>1, <2>2, <2>3, <2>4, <2>5, <2>6, <2>7, <2>8, <2>9, <2>10, <2>11, <2>12, <2>13, <2>14, <2>15, <2>16 DEF SchedulerStep
<1>2. ASSUME NEW c \in Contract, ContractStep(c) PROVE TypeOK'
  <2>1. CASE StartRun(c)
    BY <1>0, <2>1 DEF StartRun, CGoto, CStates, listVars, schedVars, proxyVars, historyVars
  <2>2. CASE ChooseMiner(c)
    BY <1>0, <2>2 DEF ChooseMiner, CGoto, CStates, listVars, schedVars, proxyVars, historyVars
  <2>3. CASE AddTask(c)
    <3>1. PICK p \in Pool : job' = Append(job, [contract |-> c, dest |-> AdjustedDest(c, p)])
      BY <2>3 DEF AddTask
    <3>2. [contract |-> c, dest |-> AdjustedDest(c, p)] \in Job
      BY DEF Job, AdjustedDest
    <3>3. job' \in Seq(Job) /\ Len(job') = Len(job) + 1 /\ Len(job) \in Nat
      BY <1>0, <3>1, <3>2
    <3>4. queue' \subseteq 1 .. Len(job') /\ size' \in Nat
      <4>1. queue' = queue \cup {Len(job')} /\ size' = size + 1
        BY <2>3 DEF AddTask
      <4>2. queue \cup {Len(job) + 1} \subseteq 1 .. (Len(job) + 1)
        BY <1>0, <3>3, Numbers
      <4> QED
        BY <1>0, <3>3, <4>1, <4>2
    <3>5. 1 .. Len(job) \subseteq 1 .. Len(job') /\ 0 .. Len(job) \subseteq 0 .. Len(job')
      BY <3>3
    <3>6. Len(job') <= MaxTasks
      BY <2>3, <3>3 DEF AddTask
    <3>7. cpc' \in [Contract -> CStates]
      BY <1>0, <2>3 DEF AddTask, CGoto, CStates
    <3> QED
      BY <1>0, <2>3, <3>3, <3>4, <3>5, <3>6, <3>7 DEF AddTask, schedVars, proxyVars, historyVars
  <2>4. CASE SignalNewTask(c)
    BY <1>0, <2>4 DEF SignalNewTask, CGoto, CStates, listVars, proxyVars, historyVars
  <2>5. ASSUME NEW l \in {"reduce", "stopping"}, BeginRemove(c, l) PROVE TypeOK'
    BY <1>0, <2>5 DEF BeginRemove, CGoto, CStates, listVars, schedVars, proxyVars, historyVars
  <2>6. ASSUME NEW l, NEW m \in {"select", "stopped"}, RemoveTasks(c, l, m) PROVE TypeOK'
    <3>1. Cancel(c)
      BY <2>6 DEF RemoveTasks
    <3>2. size' \in Nat
      BY <1>0, <3>1, CancelCounts
    <3>3. Removed(c) \subseteq queue
      BY RemovedFacts
    <3> QED
      BY <1>0, <2>6, <3>1, <3>2, <3>3 DEF RemoveTasks, Cancel, Matches, CGoto, CStates, schedVars, proxyVars, historyVars
  <2>7. CASE StopElsewhere(c)
    BY <1>0, <2>7 DEF StopElsewhere, CGoto, CStates, listVars, schedVars, proxyVars, historyVars
  <2> QED
    BY <1>2, <2>1, <2>2, <2>3, <2>4, <2>5, <2>6, <2>7 DEF ContractStep, ReduceHashrate, StopRun
<1>3. CASE Environment
  <2>1. CASE JobDone
    BY <1>0, <2>1 DEF JobDone, schedVars, proxyVars, historyVars
  <2>2. CASE ProxyExits
    BY <1>0, <2>2 DEF ProxyExits, listVars, schedVars, historyVars
  <2>3. CASE SetPrimaryDest
    BY <1>0, <2>3 DEF SetPrimaryDest, listVars, proxyVars, historyVars
  <2>4. ASSUME NEW c \in Contract, TargetReached(c) PROVE TypeOK'
    <3>1. Cancel(c)
      BY <2>4 DEF TargetReached
    <3>2. size' \in Nat
      BY <1>0, <3>1, CancelCounts
    <3>3. Removed(c) \subseteq queue
      BY RemovedFacts
    <3> QED
      BY <1>0, <2>4, <3>1, <3>2, <3>3 DEF TargetReached, Cancel, Matches, schedVars, proxyVars, historyVars
  <2>5. ASSUME NEW t \in Task, DeadlinePasses(t) PROVE TypeOK'
    BY <1>0, <2>5 DEF DeadlinePasses, listVars, schedVars, proxyVars, historyVars
  <2> QED
    BY <1>3, <2>1, <2>2, <2>3, <2>4, <2>5 DEF Environment
<1>4. CASE UNCHANGED vars
  BY <1>0, <1>4 DEF vars, listVars, schedVars, proxyVars, historyVars
<1> QED
  BY <1>1, <1>2, <1>3, <1>4 DEF Next

--------------------------------------------------------------------------------
LockInv == NoPanic /\ LockDiscipline /\ TakenTaskIsFront

\* A step of the lock protocol: nobody but the scheduler locks or pops the
\* front, it does so in turn, and Cancel and AddTask leave the front alone.
LEMMA StepLockInv == IInv /\ [Next]_vars => LockInv'
<1> SUFFICES ASSUME IInv, [Next]_vars PROVE LockInv'
  OBVIOUS
<1> USE DEF LockInv, NoPanic, LockDiscipline
<1>0. LockInv /\ TypeOK
  BY DEF IInv
<1>1. CASE SchedulerStep
  <2>1. CASE Connect
    BY <1>0, <2>1 DEF Connect, Goto, listVars, TakenTaskIsFront, IsFront
  <2>2. CASE RunTop
    BY <1>0, <2>2 DEF RunTop, Goto, listVars, TakenTaskIsFront, IsFront
  <2>3. CASE RunCheck
    BY <1>0, <2>3 DEF RunCheck, Goto, listVars, TakenTaskIsFront, IsFront
  <2>4. CASE RunDestFailed
    <3>1. CASE taken
      <4>1. Goto("top") /\ taken' = FALSE
        BY <2>4, <3>1, PopsTaken DEF RunDestFailed
      <4> QED
        BY <4>1 DEF Goto, TakenTaskIsFront
    <3>2. CASE ~ taken
      BY <1>0, <2>4, <3>2 DEF RunDestFailed, Goto, listVars, TakenTaskIsFront
    <3> QED
      BY <3>1, <3>2
  <2>5. CASE LockNextTask
    <3>1. ~ taken
      BY <1>0, <2>5 DEF LockNextTask
    <3>2. CASE queue = {}
      BY <3>1, <3>2, <2>5 DEF LockNextTask, Goto, TakenTaskIsFront
    <3>3. CASE queue # {}
      BY <3>1, <3>3, <2>5 DEF LockNextTask, TakenTaskIsFront, IsFront
    <3> QED
      BY <3>2, <3>3
  <2>6. CASE PollTask
    BY <1>0, <2>6 DEF PollTask, ServiceEnds, AfterError, Goto, listVars, TakenTaskIsFront, IsFront
  <2>7. CASE SetTaskDest
    BY <1>0, <2>7 DEF SetTaskDest, Goto, listVars, TakenTaskIsFront, IsFront
  <2>8. CASE ServeTask
    BY <1>0, <2>8 DEF ServeTask, ServiceEnds, AfterError, Goto, listVars, TakenTaskIsFront, IsFront
  <2>9. CASE UnlockTask
    <3>1. taken
      BY <1>0, <2>9 DEF UnlockTask
    <3>2. Goto("lock") /\ taken' = FALSE
      BY <2>9, <3>1, PopsTaken DEF UnlockTask
    <3> QED
      BY <3>2 DEF Goto, TakenTaskIsFront
  <2>10. CASE Drained
    BY <1>0, <2>10 DEF Drained, TakeSignal, AfterError, Goto, listVars, TakenTaskIsFront, IsFront
  <2>11. CASE ToPrimary
    BY <1>0, <2>11 DEF ToPrimary, Goto, listVars, TakenTaskIsFront, IsFront
  <2>12. CASE Idle
    BY <1>0, <2>12 DEF Idle, TakeSignal, AfterError, Goto, listVars, TakenTaskIsFront, IsFront
  <2>13. CASE OnDisconnect
    BY <1>0, <2>13 DEF OnDisconnect, listVars, TakenTaskIsFront, IsFront
  <2>14. CASE RangeNotify
    BY <1>0, <2>14 DEF RangeNotify, listVars, schedVars, TakenTaskIsFront, IsFront
  <2>15. CASE RangeDone
    BY <1>0, <2>15 DEF RangeDone, Goto, listVars, TakenTaskIsFront, IsFront
  <2>16. CASE Leave
    <3>1. CASE taken
      <4>1. Goto("gone") /\ taken' = FALSE
        BY <2>16, <3>1, PopsTaken DEF Leave
      <4> QED
        BY <4>1 DEF Goto, TakenTaskIsFront
    <3>2. CASE ~ taken
      BY <1>0, <2>16, <3>2 DEF Leave, Goto, listVars, TakenTaskIsFront
    <3> QED
      BY <3>1, <3>2
  <2> QED
    BY <1>1, <2>1, <2>2, <2>3, <2>4, <2>5, <2>6, <2>7, <2>8, <2>9, <2>10, <2>11, <2>12, <2>13, <2>14, <2>15, <2>16 DEF SchedulerStep
<1>2. ASSUME NEW c \in Contract, Cancel(c), UNCHANGED <<pc, cur>> PROVE LockInv'
  <2>1. /\ queue' \subseteq queue /\ taken' = taken
        /\ taken /\ IsFront(cur) => cur \in queue'
    BY <1>2, RemovedFacts DEF Cancel, IsFront
  <2>2. TakenTaskIsFront'
    BY <1>0, <1>2, <2>1 DEF TakenTaskIsFront, IsFront
  <2> QED
    BY <1>0, <1>2, <2>1, <2>2
<1>3. ASSUME NEW c \in Contract, ContractStep(c) PROVE LockInv'
  <2>1. CASE AddTask(c)
    <3>1. /\ queue' = queue \cup {Len(job) + 1} /\ UNCHANGED <<taken, pc, cur>>
      <4>1. \E d \in Job : job' = Append(job, d)
        BY <2>1 DEF AddTask, Job, AdjustedDest
      <4>2. Len(job') = Len(job) + 1
        BY <1>0, <4>1 DEF TypeOK
      <4> QED
        BY <2>1, <4>2 DEF AddTask, schedVars
    <3>2. Len(job) \in Nat /\ queue \subseteq 1 .. Len(job)
      BY <1>0 DEF TypeOK
    <3>3. ASSUME taken PROVE IsFront(cur)'
      <4>1. cur \in queue /\ \A u \in queue : cur <= u
        BY <1>0, <3>3 DEF TakenTaskIsFront, IsFront
      <4>2. cur <= Len(job) + 1
        BY <3>2, <4>1
      <4> QED
        BY <3>1, <4>1, <4>2 DEF IsFront
    <3> QED
      BY <1>0, <3>1, <3>3 DEF TakenTaskIsFront
  <2>2. ASSUME NEW l, NEW m, RemoveTasks(c, l, m) PROVE LockInv'
    BY <1>2, <2>2 DEF RemoveTasks, schedVars
  <2>3. CASE StartRun(c) \/ ChooseMiner(c) \/ SignalNewTask(c) \/ StopElsewhere(c)
              \/ BeginRemove(c, "reduce") \/ BeginRemove(c, "stopping")
    BY <1>0, <2>3 DEF StartRun, ChooseMiner, SignalNewTask, StopElsewhere, BeginRemove, listVars, schedVars, TakenTaskIsFront, IsFront
  <2> QED
    BY <1>3, <2>1, <2>2, <2>3 DEF ContractStep, ReduceHashrate, StopRun
<1>4. CASE Environment
  <2>1. ASSUME NEW c \in Contract, TargetReached(c) PROVE LockInv'
    BY <1>2, <2>1 DEF TargetReached, schedVars
  <2>2. ASSUME JobDone \/ ProxyExits \/ SetPrimaryDest \/ \E t \in Task : DeadlinePasses(t)
        PROVE  LockInv'
    BY <1>0, <2>2 DEF JobDone, ProxyExits, SetPrimaryDest, DeadlinePasses, listVars, schedVars, TakenTaskIsFront, IsFront
  <2> QED
    BY <1>4, <2>1, <2>2 DEF Environment
<1>5. CASE UNCHANGED vars
  BY <1>0, <1>5 DEF vars, listVars, schedVars, TakenTaskIsFront, IsFront
<1> QED
  BY <1>1, <1>3, <1>4, <1>5 DEF Next

--------------------------------------------------------------------------------
\* A step of the counter: it is moved with the deque, under the same lock.
LEMMA StepSizeIsLength == IInv /\ [Next]_vars => SizeIsLength'
<1> SUFFICES ASSUME IInv, [Next]_vars PROVE SizeIsLength'
  OBVIOUS
<1>0. TypeOK /\ SizeIsLength /\ LockDiscipline
  BY DEF IInv
<1>1. ASSUME UNCHANGED <<queue, size>> PROVE SizeIsLength'
  BY <1>0, <1>1 DEF SizeIsLength
<1>2. ASSUME taken, NEW l, UnlockAndRemove(l) PROVE SizeIsLength'
  BY <1>0, <1>2, PopsTaken, PopCounts
<1>3. ASSUME NEW c \in Contract, Cancel(c) PROVE SizeIsLength'
  BY <1>0, <1>3, CancelCounts
<1>4. CASE SchedulerStep
  <2>1. CASE RunDestFailed \/ UnlockTask \/ Leave
    BY <1>0, <1>1, <1>2, <2>1 DEF RunDestFailed, UnlockTask, Leave, LockDiscipline, listVars
  <2>2. CASE LockNextTask
    BY <1>1, <2>2 DEF LockNextTask
  <2>3. CASE Connect \/ RunTop \/ RunCheck \/ PollTask \/ SetTaskDest \/ ServeTask \/ Drained
              \/ ToPrimary \/ Idle \/ OnDisconnect \/ RangeNotify \/ RangeDone
    BY <1>1, <2>3 DEF Connect, RunTop, RunCheck, PollTask, SetTaskDest, ServeTask, Drained,
                      ToPrimary, Idle, OnDisconnect, RangeNotify, RangeDone, listVars
  <2> QED
    BY <1>4, <2>1, <2>2, <2>3 DEF SchedulerStep
<1>5. ASSUME NEW c \in Contract, ContractStep(c) PROVE SizeIsLength'
  <2>1. CASE AddTask(c)
    <3>1. queue' = queue \cup {Len(job) + 1} /\ size' = size + 1
      <4>1. \E d \in Job : job' = Append(job, d)
        BY <2>1 DEF AddTask, Job, AdjustedDest
      <4>2. Len(job') = Len(job) + 1
        BY <1>0, <4>1 DEF TypeOK
      <4> QED
        BY <2>1, <4>2 DEF AddTask
    <3>2. Len(job) + 1 \notin queue
      BY <1>0 DEF TypeOK
    <3>3. IsFiniteSet(queue)
      BY <1>0, QueueFinite
    <3>4. Cardinality(queue') = Cardinality(queue) + 1
      BY <3>1, <3>2, <3>3, FS_AddElement
    <3> QED
      BY <1>0, <3>1, <3>4 DEF SizeIsLength
  <2>2. ASSUME NEW l, NEW m, RemoveTasks(c, l, m) PROVE SizeIsLength'
    BY <1>3, <2>2 DEF RemoveTasks
  <2>3. CASE StartRun(c) \/ ChooseMiner(c) \/ SignalNewTask(c) \/ StopElsewhere(c)
              \/ BeginRemove(c, "reduce") \/ BeginRemove(c, "stopping")
    BY <1>1, <2>3 DEF StartRun, ChooseMiner, SignalNewTask, StopElsewhere, BeginRemove, listVars
  <2> QED
    BY <1>5, <2>1, <2>2, <2>3 DEF ContractStep, ReduceHashrate, StopRun
<1>6. CASE Environment
  <2>1. ASSUME NEW c \in Contract, TargetReached(c) PROVE SizeIsLength'
    BY <1>3, <2>1 DEF TargetReached
  <2>2. ASSUME JobDone \/ ProxyExits \/ SetPrimaryDest \/ \E t \in Task : DeadlinePasses(t)
        PROVE  SizeIsLength'
    BY <1>1, <2>2 DEF JobDone, ProxyExits, SetPrimaryDest, DeadlinePasses, listVars
  <2> QED
    BY <1>6, <2>1, <2>2 DEF Environment
<1>7. CASE UNCHANGED vars
  BY <1>1, <1>7 DEF vars, listVars
<1> QED
  BY <1>4, <1>5, <1>6, <1>7 DEF Next

--------------------------------------------------------------------------------
\* A step of the wake-up protocol. The scheduler parks only on an empty list,
\* and the AddTask that ends the emptiness owes a signal.
LEMMA StepNoLostWakeup == IInv /\ [Next]_vars => NoLostWakeup'
<1> SUFFICES ASSUME IInv, [Next]_vars PROVE NoLostWakeup'
  OBVIOUS
<1> DEFINE Parked == pc \in {"drained", "toPrimary", "idle"}
           Owed == newTaskSignal \/ \E c \in Contract : cpc[c] = "signal"
<1>0. TypeOK /\ NoLostWakeup
  BY DEF IInv
<1>1. ASSUME ~ Parked' PROVE NoLostWakeup'
  BY <1>1 DEF NoLostWakeup
<1>2. ASSUME Parked, queue' \subseteq queue, Owed => Owed' PROVE NoLostWakeup'
  BY <1>0, <1>2 DEF NoLostWakeup
<1>3. CASE SchedulerStep
  <2>1. CASE Connect \/ RunTop \/ RunCheck \/ OnDisconnect \/ RangeDone
    BY <1>1, <2>1 DEF Connect, RunTop, RunCheck, OnDisconnect, RangeDone, Goto
  <2>2. CASE PollTask \/ SetTaskDest \/ ServeTask
    BY <1>1, <2>2 DEF PollTask, SetTaskDest, ServeTask, ServiceEnds, AfterError, Goto
  <2>3. CASE RangeNotify
    BY <1>1, <2>3 DEF RangeNotify, schedVars
  <2>4. CASE RunDestFailed \/ UnlockTask \/ Leave
    BY <1>1, <2>4 DEF RunDestFailed, UnlockTask, Leave, UnlockAndRemove, Goto
  <2>5. CASE LockNextTask
    <3>1. CASE taken
      BY <1>1, <2>5, <3>1 DEF LockNextTask, Goto
    <3>2. CASE ~ taken /\ queue = {}
      BY <2>5, <3>2 DEF LockNextTask, NoLostWakeup
    <3>3. CASE ~ taken /\ queue # {}
      BY <1>1, <2>5, <3>3 DEF LockNextTask
    <3> QED
      BY <3>1, <3>2, <3>3
  <2>6. CASE Drained
    <3>1. CASE pc' = "toPrimary"
      BY <1>2, <2>6, <3>1 DEF Drained, AfterError, TakeSignal, Goto, listVars
    <3>2. CASE pc' # "toPrimary"
      BY <1>1, <2>6, <3>2 DEF Drained, AfterError, TakeSignal, Goto
    <3> QED
      BY <3>1, <3>2
  <2>7. CASE ToPrimary
    <3>1. CASE pc' = "idle"
      BY <1>2, <2>7, <3>1 DEF ToPrimary, Goto, listVars
    <3>2. CASE pc' # "idle"
      BY <1>1, <2>7, <3>2 DEF ToPrimary, Goto
    <3> QED
      BY <3>1, <3>2
  <2>8. CASE Idle
    BY <1>1, <2>8 DEF Idle, AfterError, TakeSignal, Goto
  <2> QED
    BY <1>3, <2>1, <2>2, <2>3, <2>4, <2>5, <2>6, <2>7, <2>8 DEF SchedulerStep
<1>4. ASSUME NEW c \in Contract, Cancel(c), UNCHANGED <<pc, newTaskSignal>>,
             \A d \in Contract : cpc[d] = "signal" => cpc'[d] = "signal"
      PROVE  NoLostWakeup'
  BY <1>1, <1>2, <1>4 DEF Cancel
<1>5. ASSUME NEW c \in Contract, ContractStep(c) PROVE NoLostWakeup'
  <2>1. CASE AddTask(c)
    <3>1. CASE queue = {}
      <4>1. Cardinality(queue') = 1
        BY <2>1, <3>1, FS_Singleton DEF AddTask
      <4>2. cpc'[c] = "signal"
        BY <1>0, <2>1, <4>1 DEF AddTask, CGoto, TypeOK
      <4> QED
        BY <4>2 DEF NoLostWakeup
    <3>2. CASE queue # {}
      <4>1. UNCHANGED <<pc, newTaskSignal>>
        BY <2>1 DEF AddTask, schedVars
      <4>2. \A d \in Contract : cpc[d] = "signal" => cpc'[d] = "signal"
        BY <1>0, <2>1 DEF AddTask, CGoto, TypeOK
      <4> QED
        BY <1>0, <3>2, <4>1, <4>2 DEF NoLostWakeup
    <3> QED
      BY <3>1, <3>2
  <2>2. CASE SignalNewTask(c)
    BY <2>2 DEF SignalNewTask, NoLostWakeup
  <2>3. CASE RemoveTasks(c, "reduce", "select") \/ RemoveTasks(c, "stopping", "stopped")
    <3>1. \A d \in Contract : cpc[d] = "signal" => cpc'[d] = "signal"
      BY <1>0, <2>3 DEF RemoveTasks, CGoto, TypeOK
    <3> QED
      BY <1>4, <2>3, <3>1 DEF RemoveTasks, schedVars
  <2>4. CASE StartRun(c) \/ ChooseMiner(c) \/ StopElsewhere(c)
              \/ BeginRemove(c, "reduce") \/ BeginRemove(c, "stopping")
    <3>1. UNCHANGED <<pc, newTaskSignal, queue>>
      BY <2>4 DEF StartRun, ChooseMiner, StopElsewhere, BeginRemove, listVars, schedVars
    <3>2. \A d \in Contract : cpc[d] = "signal" => cpc'[d] = "signal"
      BY <1>0, <2>4 DEF StartRun, ChooseMiner, StopElsewhere, BeginRemove, CGoto, TypeOK
    <3> QED
      BY <1>1, <1>2, <3>1, <3>2
  <2> QED
    BY <1>5, <2>1, <2>2, <2>3, <2>4 DEF ContractStep, ReduceHashrate, StopRun
<1>6. CASE Environment
  <2>1. ASSUME NEW c \in Contract, TargetReached(c) PROVE NoLostWakeup'
    BY <1>4, <2>1 DEF TargetReached, schedVars
  <2>2. CASE SetPrimaryDest
    BY <2>2 DEF SetPrimaryDest, NoLostWakeup
  <2>3. ASSUME JobDone \/ ProxyExits \/ \E t \in Task : DeadlinePasses(t) PROVE NoLostWakeup'
    BY <1>1, <1>2, <2>3 DEF JobDone, ProxyExits, DeadlinePasses, listVars, schedVars
  <2> QED
    BY <1>6, <2>1, <2>2, <2>3 DEF Environment
<1>7. CASE UNCHANGED vars
  BY <1>1, <1>2, <1>7 DEF vars, listVars, schedVars
<1> QED
  BY <1>3, <1>5, <1>6, <1>7 DEF Next

--------------------------------------------------------------------------------
\* A step of the connection: nothing changes the destination during the
\* handshake, and Run never goes back to it.
LEMMA StepConnectsToPrimary == IInv /\ [Next]_vars => ConnectsToPrimary'
<1> SUFFICES ASSUME IInv, [Next]_vars, pc' = "connect" PROVE destURL' \in Primary
  BY DEF ConnectsToPrimary
<1>0. ConnectsToPrimary
  BY DEF IInv
<1>1. ~ SchedulerStep
  BY DEF SchedulerStep, Connect, RunTop, RunCheck, RunDestFailed, LockNextTask, PollTask, SetTaskDest,
         ServeTask, UnlockTask, Drained, ToPrimary, Idle, OnDisconnect, RangeNotify, RangeDone, Leave,
         ServiceEnds, AfterError, TakeSignal, UnlockAndRemove, Goto, schedVars
<1>2. UNCHANGED <<pc, destURL>>
  <2>1. ASSUME NEW c \in Contract, ContractStep(c) PROVE UNCHANGED <<pc, destURL>>
    BY <2>1 DEF ContractStep, StartRun, ChooseMiner, AddTask, SignalNewTask, ReduceHashrate, StopRun,
                BeginRemove, RemoveTasks, StopElsewhere, schedVars, proxyVars
  <2>2. CASE Environment
    BY <2>2 DEF Environment, JobDone, ProxyExits, SetPrimaryDest, TargetReached, DeadlinePasses, schedVars, proxyVars
  <2>3. CASE UNCHANGED vars
    BY <2>3 DEF vars, schedVars, proxyVars
  <2> QED
    BY <1>1, <2>1, <2>2, <2>3 DEF Next
<1> QED
  BY <1>0, <1>2 DEF ConnectsToPrimary

--------------------------------------------------------------------------------
\* IInv is inductive, and so an invariant.
THEOREM Invariance == Spec => []IInv
<1>1. IInv /\ [Next]_vars => IInv'
  BY StepTypeOK, StepLockInv, StepSizeIsLength, StepNoLostWakeup, StepConnectsToPrimary DEF IInv, LockInv
<1> QED
  BY InitIInv, <1>1, PTL DEF Spec

\* The variables keep their shapes.
THEOREM TypeCorrectness == Spec => []TypeOK
<1>1. IInv => TypeOK
  BY DEF IInv
<1> QED
  BY Invariance, <1>1, PTL

\* The lock protocol of the task list never panics.
THEOREM NeverPanics == Spec => []NoPanic
<1>1. IInv => NoPanic
  BY DEF IInv
<1> QED
  BY Invariance, <1>1, PTL

\* UnlockAndRemove always pops the task the scheduler served.
THEOREM ServesTheFront == Spec => []TakenTaskIsFront
<1>1. IInv => TakenTaskIsFront
  BY DEF IInv
<1> QED
  BY Invariance, <1>1, PTL

\* The lock-free readers of the counter see the length of the list.
THEOREM CounterIsExact == Spec => []SizeIsLength
<1>1. IInv => SizeIsLength
  BY DEF IInv
<1> QED
  BY Invariance, <1>1, PTL

\* A scheduler parked on a list with tasks is always about to be woken.
THEOREM WakeupIsOwed == Spec => []NoLostWakeup
<1>1. IInv => NoLostWakeup
  BY DEF IInv
<1> QED
  BY Invariance, <1>1, PTL

--------------------------------------------------------------------------------
\* The user name of every task's destination is its contract's ID.
DestNamesContract == \A t \in 1 .. Len(job) : job[t].dest[1] = job[t].contract

\* The callback that is installed belongs to a task with this destination.
CallbackFitsDest == onSubmit # 0 => destURL = JobDest(onSubmit)

\* While a task is served, its destination is the current one.
ServesOwnDest == pc = "serve" => destURL = JobDest(cur)

CreditInv ==
    /\ DestNamesContract
    /\ CallbackFitsDest
    /\ ServesOwnDest
    /\ PrimarySharesUncredited

\* The numbering of tasks is touched by AddTask alone.
LEMMA OnlyAddTaskAppends == [Next]_vars => UNCHANGED job \/ \E c \in Contract : AddTask(c)
<1> SUFFICES ASSUME [Next]_vars PROVE UNCHANGED job \/ \E c \in Contract : AddTask(c)
  OBVIOUS
<1>1. CASE SchedulerStep
  BY <1>1 DEF SchedulerStep, Connect, RunTop, RunCheck, RunDestFailed, LockNextTask, PollTask, SetTaskDest,
       ServeTask, UnlockTask, Drained, ToPrimary, Idle, OnDisconnect, RangeNotify, RangeDone, Leave,
       UnlockAndRemove, listVars
<1>2. ASSUME NEW c \in Contract, ContractStep(c), ~ AddTask(c) PROVE UNCHANGED job
  BY <1>2 DEF ContractStep, StartRun, ChooseMiner, SignalNewTask, ReduceHashrate, StopRun,
              BeginRemove, RemoveTasks, StopElsewhere, Cancel, listVars
<1>3. CASE Environment
  BY <1>3 DEF Environment, JobDone, ProxyExits, SetPrimaryDest, TargetReached, Cancel, DeadlinePasses, listVars
<1>4. CASE UNCHANGED vars
  BY <1>4 DEF vars, listVars
<1> QED
  BY <1>1, <1>2, <1>3, <1>4 DEF Next

\* Numbers of tasks keep naming the same tasks.
LEMMA JobsStay ==
  ASSUME IInv, [Next]_vars
  PROVE  /\ Len(job) \in Nat /\ Len(job') \in Nat /\ Len(job) <= Len(job')
         /\ \A t \in 1 .. Len(job) : job'[t] = job[t]
<1> DEFINE Stays == /\ Len(job) \in Nat /\ Len(job') \in Nat /\ Len(job) <= Len(job')
                    /\ \A t \in 1 .. Len(job) : job'[t] = job[t]
<1>0. job \in Seq(Job)
  BY DEF IInv, TypeOK
<1>1. CASE UNCHANGED job
  BY <1>0, <1>1
<1>2. ASSUME NEW c \in Contract, AddTask(c) PROVE Stays
  <2>1. \E d \in Job : job' = Append(job, d)
    BY <1>2 DEF AddTask, Job, AdjustedDest
  <2> QED
    BY <1>0, <2>1
<1>3. UNCHANGED job \/ \E c \in Contract : AddTask(c)
  BY OnlyAddTaskAppends
<1> QED
  BY <1>1, <1>2, <1>3

\* A step of the credit: the destination and the callback change together.
LEMMA StepCreditInv == IInv /\ CreditInv /\ [Next]_vars => CreditInv'
<1> SUFFICES ASSUME IInv, CreditInv, [Next]_vars PROVE CreditInv'
  OBVIOUS
<1> USE DEF CreditInv, CallbackFitsDest, ServesOwnDest, PrimarySharesUncredited, JobDest
<1>0. CreditInv /\ TypeOK
  BY DEF IInv
<1>1. /\ Len(job) \in Nat /\ Len(job') \in Nat /\ Len(job) <= Len(job')
      /\ \A t \in 1 .. Len(job) : job'[t] = job[t]
  BY JobsStay
<1>2. onSubmit # 0 => onSubmit \in 1 .. Len(job) /\ job'[onSubmit] = job[onSubmit]
  BY <1>0, <1>1 DEF TypeOK
<1>3. ASSUME taken PROVE cur \in 1 .. Len(job) /\ job'[cur] = job[cur] /\ JobDest(cur) \notin Primary
  <2>1. cur \in 1 .. Len(job) /\ job \in Seq(Job)
    BY <1>0, <1>3 DEF IInv, TakenTaskIsFront, IsFront, TypeOK
  <2>2. job[cur] \in Job
    BY <2>1
  <2> QED
    BY <1>1, <2>1, <2>2, PrimaryAssumption DEF Job
<1>4. DestNamesContract'
  <2>1. CASE UNCHANGED job
    BY <1>0, <2>1 DEF DestNamesContract
  <2>2. ASSUME NEW c \in Contract, AddTask(c) PROVE DestNamesContract'
    <3>1. PICK p \in Pool : job' = Append(job, [contract |-> c, dest |-> <<c, p>>])
      BY <2>2 DEF AddTask, AdjustedDest
    <3>2. [contract |-> c, dest |-> <<c, p>>] \in Job
      BY DEF Job
    <3>3. /\ Len(job') = Len(job) + 1
          /\ job'[Len(job) + 1] = [contract |-> c, dest |-> <<c, p>>]
      BY <1>0, <3>1, <3>2 DEF TypeOK
    <3> QED
      BY <1>0, <1>1, <3>3 DEF DestNamesContract
  <2>3. UNCHANGED job \/ \E c \in Contract : AddTask(c)
    BY OnlyAddTaskAppends
  <2> QED
    BY <2>1, <2>2, <2>3
<1>5. ASSUME UNCHANGED <<destURL, onSubmit>>, pc' # "serve" PROVE CreditInv'
  BY <1>0, <1>2, <1>4, <1>5
<1>6. ASSUME UNCHANGED <<destURL, onSubmit, pc, cur>> PROVE CreditInv'
  <2>1. pc = "serve" => taken
    BY DEF IInv, LockDiscipline
  <2> QED
    BY <1>0, <1>2, <1>3, <1>4, <1>6, <2>1
<1>7. ASSUME NEW u \in Primary, SetDest(u, 0), pc' # "serve" PROVE CreditInv'
  BY <1>0, <1>2, <1>4, <1>7 DEF SetDest
<1>8. CASE SchedulerStep
  <2>1. CASE RunTop
    BY <1>0, <1>2, <1>4, <2>1 DEF RunTop, SetDestFails, proxyVars, Goto, TypeOK
  <2>2. CASE ToPrimary
    BY <1>0, <1>5, <1>7, <2>2 DEF ToPrimary, SetDestFails, proxyVars, Goto, TypeOK
  <2>3. CASE SetTaskDest
    <3>1. CASE pc' = "serve"
      <4>1. taken /\ cur' = cur /\ SetDest(JobDest(cur), cur)
        BY <2>3, <3>1 DEF SetTaskDest, Goto, IInv, LockDiscipline
      <4>2. cur # 0 /\ job'[cur] = job[cur] /\ JobDest(cur) \notin Primary
        BY <1>3, <4>1
      <4> QED
        BY <1>0, <1>2, <1>4, <4>1, <4>2 DEF SetDest
    <3>2. CASE pc' # "serve"
      BY <1>5, <2>3, <3>2 DEF SetTaskDest, SetDestFails, proxyVars, Goto
    <3> QED
      BY <3>1, <3>2
  <2>4. CASE Connect \/ RunCheck \/ RunDestFailed \/ LockNextTask \/ PollTask \/ ServeTask \/ UnlockTask
              \/ Drained \/ Idle \/ OnDisconnect \/ RangeNotify \/ RangeDone \/ Leave
    <3>1. UNCHANGED <<destURL, onSubmit>>
      BY <2>4 DEF Connect, RunCheck, RunDestFailed, LockNextTask, PollTask, ServeTask, UnlockTask,
                  Drained, Idle, OnDisconnect, RangeNotify, RangeDone, Leave, proxyVars
    <3>2. pc' # "serve"
      BY <2>4 DEF Connect, RunCheck, RunDestFailed, LockNextTask, PollTask, ServeTask, UnlockTask,
                  Drained, Idle, OnDisconnect, RangeNotify, RangeDone, Leave, ServiceEnds,
                  UnlockAndRemove, AfterError, TakeSignal, Goto, schedVars
    <3> QED
      BY <1>5, <3>1, <3>2
  <2> QED
    BY <1>8, <2>1, <2>2, <2>3, <2>4 DEF SchedulerStep
<1>9. ASSUME NEW c \in Contract, ContractStep(c) PROVE CreditInv'
  BY <1>6, <1>9 DEF ContractStep, StartRun, ChooseMiner, AddTask, SignalNewTask, ReduceHashrate, StopRun,
                    BeginRemove, RemoveTasks, StopElsewhere, schedVars, proxyVars
<1>10. CASE Environment
  BY <1>6, <1>10 DEF Environment, JobDone, ProxyExits, SetPrimaryDest, TargetReached, DeadlinePasses, schedVars, proxyVars
<1>11. CASE UNCHANGED vars
  BY <1>6, <1>11 DEF vars, schedVars, proxyVars
<1> QED
  BY <1>8, <1>9, <1>10, <1>11 DEF Next

THEOREM CreditInvariance == Spec => []CreditInv
<1>1. Init => CreditInv
  BY DEF Init, CreditInv, DestNamesContract, CallbackFitsDest, ServesOwnDest, PrimarySharesUncredited
<1> QED
  BY Invariance, StepCreditInv, <1>1, PTL DEF Spec

\* A served task's contract is the one that is paid for the shares.
THEOREM CreditIsRight == Spec => []SharesCreditServedContract
<1>1. IInv /\ CreditInv => SharesCreditServedContract
  <2> SUFFICES ASSUME IInv, CreditInv, pc = "serve"
               PROVE  /\ destURL = JobDest(cur)
                      /\ onSubmit # 0 /\ job[onSubmit].contract = job[cur].contract
    BY DEF SharesCreditServedContract
  <2>1. cur \in 1 .. Len(job) /\ job \in Seq(Job)
    BY DEF IInv, LockDiscipline, TakenTaskIsFront, IsFront, TypeOK
  <2>2. JobDest(cur) \in Contract \X Pool
    <3>1. job[cur] \in Job
      BY <2>1
    <3> QED
      BY <3>1 DEF JobDest, Job
  <2>3. destURL = JobDest(cur) /\ onSubmit # 0
    BY <2>2, PrimaryAssumption DEF CreditInv, ServesOwnDest, PrimarySharesUncredited
  <2>4. onSubmit \in 1 .. Len(job) /\ job[onSubmit].dest = job[cur].dest
    BY <2>3 DEF CreditInv, CallbackFitsDest, JobDest, IInv, TypeOK
  <2> QED
    BY <2>1, <2>3, <2>4 DEF CreditInv, DestNamesContract
<1> QED
  BY Invariance, CreditInvariance, <1>1, PTL

\* Shares for the seller's own pools are nobody's.
THEOREM PrimaryIsUncredited == Spec => []PrimarySharesUncredited
<1>1. CreditInv => PrimarySharesUncredited
  BY DEF CreditInv
<1> QED
  BY CreditInvariance, <1>1, PTL

--------------------------------------------------------------------------------
\* The end of the task in hand was reported, and it is still to be removed.
Reported == taken /\ pc \notin {"poll", "setDest", "serve"}

\* How often the Range of onDisconnect has reported t.
Drops(t) == IF t \in dropped THEN 1 ELSE 0

\* A task that is listed or withdrawn has been reported by the Range only,
\* except for the one in hand.
OpenTask(t) == ended[t] = Drops(t) + (IF Reported /\ t = cur THEN 1 ELSE 0)

\* A task that was popped has been reported before it was.
PoppedTask(t) == ended[t] = 1 + Drops(t) /\ (t \in dropped => t = cur)

FateOK(t) == IF t \in queue \cup withdrawn THEN OpenTask(t) ELSE PoppedTask(t)

FateInv ==
    /\ \A t \in 1 .. Len(job) : FateOK(t)
    /\ \A t \in Task : t > Len(job) => ended[t] = 0
    /\ queue \cap withdrawn = {}
    /\ dropped # {} => pc \in {"range", "leave", "gone"}

\* A step that leaves the list and the reports alone, and does not change
\* whether the end of the task in hand was reported.
LEMMA FateKept ==
  ASSUME FateInv, UNCHANGED <<job, queue \cup withdrawn, ended, dropped, cur>>, Reported' = Reported,
         queue' \cap withdrawn' = {}, dropped # {} => pc' \in {"range", "leave", "gone"}
  PROVE  FateInv'
BY DEF FateInv, FateOK, OpenTask, PoppedTask, Drops

\* OnEnd of the task in hand.
LEMMA FateReported ==
  ASSUME IInv, FateInv, pc \in {"poll", "setDest", "serve"}, OnEnd(cur),
         pc' \in {"unlock", "destFailed", "disconnect"}, UNCHANGED <<listVars, cur>>
  PROVE  FateInv'
<1>0. /\ TypeOK /\ taken /\ cur \in queue /\ cur \in 1 .. Len(job) /\ cur \in Task
      /\ Len(job) \in Nat /\ dropped = {} /\ taken' = taken
  BY TakenIsTask DEF IInv, LockDiscipline, TakenTaskIsFront, IsFront, TypeOK, FateInv, listVars
<1>1. /\ ended' = [ended EXCEPT ![cur] = @ + 1] /\ dropped' = {} /\ UNCHANGED <<job, queue, withdrawn, cur>>
      /\ ended \in [Task -> Nat]
  BY <1>0 DEF OnEnd, listVars, TypeOK
<1>2. ~ Reported /\ Reported'
  BY <1>0 DEF Reported
<1>3. ASSUME NEW t \in 1 .. Len(job) PROVE FateOK(t)'
  <2>1. FateOK(t) /\ t \in Task /\ ended[t] \in Nat
    BY <1>0, <1>1, <1>3, MaxTasksAssumption DEF FateInv, TypeOK, Task
  <2> QED
    BY <1>0, <1>1, <1>2, <2>1 DEF FateOK, OpenTask, PoppedTask, Drops
<1>4. \A t \in Task : t > Len(job) => ended'[t] = 0
  BY <1>0, <1>1 DEF FateInv
<1> QED
  BY <1>0, <1>1, <1>3, <1>4 DEF FateInv

\* The task in hand is popped.
LEMMA FatePopped ==
  ASSUME IInv, FateInv, Reported, NEW l, UnlockAndRemove(l), UNCHANGED historyVars,
         dropped # {} => l \in {"range", "leave", "gone"}
  PROVE  FateInv'
<1>1. /\ cur \in queue /\ queue' = queue \ {cur} /\ pc' = l /\ taken' = FALSE
      /\ UNCHANGED <<job, withdrawn, cur, ended, dropped>>
  BY PopsTaken DEF Reported, Goto, historyVars
<1>2. ~ Reported'
  BY <1>1 DEF Reported
<1>3. ASSUME NEW t \in 1 .. Len(job) PROVE FateOK(t)'
  <2>1. FateOK(t)
    BY DEF FateInv
  <2>2. CASE t = cur
    BY <1>1, <2>1, <2>2 DEF FateOK, OpenTask, PoppedTask, Drops, FateInv
  <2>3. CASE t # cur
    BY <1>1, <1>2, <2>1, <2>3 DEF FateOK, OpenTask, PoppedTask, Drops
  <2> QED
    BY <2>2, <2>3
<1> QED
  BY <1>1, <1>3 DEF FateInv

\* Cancel moves tasks from the list to those withdrawn.
LEMMA FateCancelled ==
  ASSUME IInv, FateInv, NEW c \in Contract, Cancel(c), UNCHANGED <<pc, cur, historyVars>>
  PROVE  FateInv'
<1>1. Removed(c) \subseteq queue
  BY RemovedFacts
<1>2. queue' \cup withdrawn' = queue \cup withdrawn /\ queue' \cap withdrawn' = {}
  BY <1>1 DEF Cancel, FateInv
<1>3. UNCHANGED <<job, ended, dropped, cur, pc, taken>>
  BY DEF Cancel, historyVars
<1>4. Reported' = Reported
  BY <1>3 DEF Reported
<1> QED
  BY <1>2, <1>3, <1>4, FateKept DEF FateInv

\* Every step keeps the account of the reports, action by action.
LEMMA StepFateInv == IInv /\ FateInv /\ [Next]_vars => FateInv'
<1> SUFFICES ASSUME IInv, FateInv, [Next]_vars PROVE FateInv'
  OBVIOUS
<1>0. /\ TypeOK /\ LockDiscipline /\ TakenTaskIsFront /\ queue \cap withdrawn = {}
      /\ dropped # {} => pc \in {"range", "leave", "gone"}
  BY DEF IInv, FateInv
<1>1. CASE SchedulerStep
  <2>1. CASE Connect \/ RunTop \/ RunCheck \/ Drained \/ ToPrimary \/ Idle
    <3>1. UNCHANGED <<job, queue, withdrawn, ended, dropped, cur, taken>>
      BY <2>1 DEF Connect, RunTop, RunCheck, Drained, ToPrimary, Idle, AfterError, TakeSignal, Goto, listVars, historyVars
    <3>2. ~ taken /\ dropped = {}
      BY <1>0, <2>1 DEF Connect, RunTop, RunCheck, Drained, ToPrimary, Idle, LockDiscipline
    <3> QED
      BY <1>0, <3>1, <3>2, FateKept DEF Reported
  <2>2. CASE RunDestFailed
    <3>1. CASE taken
      BY <1>0, <2>2, <3>1, FatePopped DEF RunDestFailed, Reported
    <3>2. CASE ~ taken
      BY <1>0, <2>2, <3>2, FateKept DEF RunDestFailed, Reported, Goto, listVars, historyVars
    <3> QED
      BY <3>1, <3>2
  <2>3. CASE LockNextTask
    <3>1. UNCHANGED <<job, queue, withdrawn, ended, dropped>> /\ dropped = {} /\ ~ taken
      BY <1>0, <2>3 DEF LockNextTask, LockDiscipline, historyVars
    <3>2. ~ Reported /\ ~ Reported'
      BY <2>3, <3>1 DEF LockNextTask, Reported, Goto
    <3> QED
      BY <3>1, <3>2 DEF FateInv, FateOK, OpenTask, PoppedTask, Drops
  <2>4. CASE PollTask
    <3>1. CASE ServiceEnds
      <4>1. pc' \in {"unlock", "destFailed", "disconnect"} /\ OnEnd(cur) /\ UNCHANGED cur
        BY <3>1 DEF ServiceEnds, AfterError, Goto
      <4> QED
        BY <2>4, <4>1, FateReported DEF PollTask
    <3>2. CASE Goto("setDest") /\ UNCHANGED historyVars
      BY <1>0, <2>4, <3>2, FateKept DEF PollTask, Reported, Goto, listVars, historyVars
    <3> QED
      BY <2>4, <3>1, <3>2 DEF PollTask
  <2>5. CASE SetTaskDest
    <3>1. CASE OnEnd(cur) /\ (Goto("destFailed") \/ Goto("disconnect"))
      BY <2>5, <3>1, FateReported DEF SetTaskDest, Goto
    <3>2. CASE Goto("serve") /\ UNCHANGED historyVars
      BY <1>0, <2>5, <3>2, FateKept DEF SetTaskDest, Reported, Goto, listVars, historyVars
    <3> QED
      BY <2>5, <3>1, <3>2 DEF SetTaskDest
  <2>6. CASE ServeTask
    <3>1. pc' \in {"unlock", "destFailed", "disconnect"} /\ OnEnd(cur) /\ UNCHANGED cur
      BY <2>6 DEF ServeTask, ServiceEnds, AfterError, Goto
    <3> QED
      BY <2>6, <3>1, FateReported DEF ServeTask
  <2>7. CASE UnlockTask
    BY <1>0, <2>7, FatePopped DEF UnlockTask, LockDiscipline, Reported
  <2>8. CASE OnDisconnect
    BY <1>0, <2>8, FateKept DEF OnDisconnect, Reported, listVars, historyVars
  <2>9. CASE RangeNotify
    <3>1. PICK t \in queue \ dropped : dropped' = dropped \cup {t} /\ ended' = [ended EXCEPT ![t] = @ + 1]
      BY <2>9 DEF RangeNotify, NextDropped
    <3>2. UNCHANGED <<job, queue, withdrawn, cur, pc, taken>> /\ pc = "range"
      BY <2>9 DEF RangeNotify, listVars, schedVars
    <3>3. t \in 1 .. Len(job) /\ t \in Task /\ ended \in [Task -> Nat] /\ Len(job) \in Nat
      BY <1>0, QueueInTask DEF TypeOK
    <3>4. Reported' = Reported
      BY <3>2 DEF Reported
    <3>5. ASSUME NEW u \in 1 .. Len(job) PROVE FateOK(u)'
      <4>1. FateOK(u) /\ u \in Task
        BY <1>0, <3>3, MaxTasksAssumption DEF FateInv, TypeOK, Task
      <4>2. CASE u = t
        BY <3>1, <3>2, <3>3, <3>4, <4>1, <4>2 DEF FateOK, OpenTask, Drops
      <4>3. CASE u # t
        BY <3>1, <3>2, <3>3, <3>4, <4>1, <4>3 DEF FateOK, OpenTask, PoppedTask, Drops
      <4> QED
        BY <4>2, <4>3
    <3>6. \A u \in Task : u > Len(job) => ended'[u] = 0
      BY <3>1, <3>3 DEF FateInv
    <3> QED
      BY <1>0, <3>2, <3>5, <3>6 DEF FateInv
  <2>10. CASE RangeDone
    BY <1>0, <2>10, FateKept DEF RangeDone, Reported, Goto, listVars, historyVars
  <2>11. CASE Leave
    <3>1. CASE taken
      BY <1>0, <2>11, <3>1, FatePopped DEF Leave, Reported
    <3>2. CASE ~ taken
      BY <1>0, <2>11, <3>2, FateKept DEF Leave, Reported, Goto, listVars, historyVars
    <3> QED
      BY <3>1, <3>2
  <2> QED
    BY <1>1, <2>1, <2>2, <2>3, <2>4, <2>5, <2>6, <2>7, <2>8, <2>9, <2>10, <2>11 DEF SchedulerStep
<1>2. ASSUME NEW c \in Contract, AddTask(c) PROVE FateInv'
  <2>1. PICK d \in Job : job' = Append(job, d)
    BY <1>2 DEF AddTask, Job, AdjustedDest
  <2>2. /\ Len(job) \in Nat /\ Len(job') = Len(job) + 1 /\ Len(job) < MaxTasks
        /\ queue' = queue \cup {Len(job')} /\ UNCHANGED <<withdrawn, ended, dropped, cur, pc, taken>>
    BY <1>0, <1>2, <2>1 DEF AddTask, TypeOK, schedVars, historyVars
  <2>3. queue \subseteq 1 .. Len(job) /\ withdrawn \subseteq 1 .. Len(job) /\ dropped \subseteq 1 .. Len(job)
        /\ cur \in 0 .. Len(job)
    BY <1>0 DEF TypeOK
  <2>4. Len(job') \notin withdrawn \cup dropped /\ cur # Len(job') /\ Len(job') \in Task
    BY <2>2, <2>3, MaxTasksAssumption DEF Task
  <2>5. Reported' = Reported
    BY <2>2 DEF Reported
  <2>6. ASSUME NEW t \in 1 .. Len(job') PROVE FateOK(t)'
    <3>1. CASE t = Len(job')
      BY <2>2, <2>4, <2>5, <3>1 DEF FateInv, FateOK, OpenTask, Drops
    <3>2. CASE t # Len(job')
      <4>1. FateOK(t)
        BY <2>2, <3>2 DEF FateInv
      <4> QED
        BY <2>2, <2>5, <3>2, <4>1 DEF FateOK, OpenTask, PoppedTask, Drops
    <3> QED
      BY <3>1, <3>2
  <2>7. \A t \in Task : t > Len(job') => ended'[t] = 0
    BY <2>2, MaxTasksAssumption DEF FateInv, Task
  <2> QED
    BY <1>0, <2>2, <2>4, <2>6, <2>7 DEF FateInv
<1>3. ASSUME NEW c \in Contract, Cancel(c), UNCHANGED <<pc, cur, historyVars>> PROVE FateInv'
  BY <1>3, FateCancelled
<1>4. ASSUME UNCHANGED <<listVars, pc, cur, historyVars>> PROVE FateInv'
  BY <1>0, <1>4, FateKept DEF listVars, historyVars, Reported
<1>5. ASSUME NEW c \in Contract, ContractStep(c) PROVE FateInv'
  BY <1>2, <1>3, <1>4, <1>5 DEF ContractStep, StartRun, ChooseMiner, SignalNewTask, ReduceHashrate, StopRun,
     BeginRemove, RemoveTasks, StopElsewhere, schedVars
<1>6. CASE Environment
  <2>1. CASE JobDone
    BY <1>0, <2>1, FateKept DEF JobDone, Reported, schedVars, historyVars
  <2>2. ASSUME NEW c \in Contract, TargetReached(c) PROVE FateInv'
    BY <1>3, <2>2 DEF TargetReached, schedVars
  <2>3. CASE ProxyExits \/ SetPrimaryDest \/ \E t \in Task : DeadlinePasses(t)
    BY <1>4, <2>3 DEF ProxyExits, SetPrimaryDest, DeadlinePasses, schedVars
  <2> QED
    BY <1>6, <2>1, <2>2, <2>3 DEF Environment
<1>7. CASE UNCHANGED vars
  BY <1>4, <1>7 DEF vars, schedVars
<1> QED
  BY <1>1, <1>5, <1>6, <1>7 DEF Next

\* FateInv holds with IInv.
THEOREM FateInvariance == Spec => []FateInv
<1>1. Init => FateInv
  BY DEF Init, FateInv
<1> QED
  BY Invariance, StepFateInv, <1>1, PTL DEF Spec

\* The owner of a task learns its end once, unless it withdrew the task, and
\* twice only if the miner left with it in hand (scheduler.go:181, 240).
THEOREM SettlesTasks == Spec => []TasksAreSettled
<1>1. IInv /\ FateInv => TasksAreSettled
  <2> SUFFICES ASSUME IInv, FateInv, NEW t \in 1 .. Len(job)
               PROVE  /\ t \in queue \/ t \in withdrawn \/ ended[t] > 0
                      /\ t \in withdrawn => t \notin queue /\ (ended[t] = 0 \/ t \in dropped)
                      /\ ended[t] <= (IF t \in dropped THEN 1 ELSE 0) + (IF t = cur \/ t \notin dropped THEN 1 ELSE 0)
    BY DEF TasksAreSettled, NoTaskLost, SecondOnEndIsDisconnect
  <2>1. FateOK(t) /\ queue \cap withdrawn = {}
    BY DEF FateInv
  <2>2. Reported => cur \in queue
    BY DEF Reported, IInv, TakenTaskIsFront, IsFront
  <2> QED
    BY <2>1, <2>2 DEF FateOK, OpenTask, PoppedTask, Drops
<1> QED
  BY Invariance, FateInvariance, <1>1, PTL

--------------------------------------------------------------------------------
\* The refinement of RentalQueue

Owner == [t \in 1 .. Len(job) |-> job[t].contract]

FateOf == [t \in 1 .. Len(job) |-> TaskFate(t)]

\* The abstract variables see the list, the lock and the task in hand only.
LEMMA RQUnchanged ==
  ASSUME UNCHANGED <<job, queue, withdrawn, taken, cur>>
  PROVE  UNCHANGED RQ!rqVars
BY DEF RQ!rqVars, TaskFate

\* A function on one number more is the appended sequence.
LEMMA AppendIs ==
  ASSUME NEW S, NEW n \in Nat, NEW s \in [1 .. n -> S], NEW x \in S, NEW f \in [1 .. n + 1 -> S],
         \A i \in 1 .. n : f[i] = s[i], f[n + 1] = x
  PROVE  f = Append(s, x)
<1>1. s \in Seq(S) /\ Len(s) = n
  <2>1. s \in Seq(S)
    BY IsASeq
  <2> QED
    BY <2>1, LenProperties
<1>2. /\ Append(s, x) \in Seq(S) /\ Len(Append(s, x)) = n + 1
      /\ \A i \in 1 .. n : Append(s, x)[i] = s[i]
      /\ Append(s, x)[n + 1] = x
  BY <1>1, AppendProperties
<1>3. f \in Seq(S) /\ Len(f) = n + 1
  <2>1. n + 1 \in Nat
    OBVIOUS
  <2>2. f \in Seq(S)
    BY <2>1, IsASeq
  <2> QED
    BY <2>1, <2>2, LenProperties
<1>4. \A i \in 1 .. n + 1 : f[i] = Append(s, x)[i]
  BY <1>2
<1> QED
  BY <1>2, <1>3, <1>4, SeqEqual

\* Locking the front is the start of its service.
LEMMA LockServes ==
  ASSUME IInv, LockNextTask, taken'
  PROVE  \E t \in RQ!Tasks : RQ!Serve(t)
<1>1. /\ ~ taken /\ cur' \in queue /\ IsFront(cur')
      /\ UNCHANGED <<job, queue, withdrawn>>
  BY DEF LockNextTask, IInv, LockDiscipline, Goto
<1>2. cur' \in 1 .. Len(job) /\ queue \subseteq 1 .. Len(job)
  BY <1>1 DEF IInv, TypeOK
<1>3. FateOf' = [FateOf EXCEPT ![cur'] = "serving"]
  BY <1>1, <1>2 DEF FateOf, TaskFate
<1>4. RQ!Waiting = queue
  BY <1>1, <1>2 DEF RQ!Waiting, RQ!Tasks, TaskFate
<1>5. \A u \in 1 .. Len(job) : TaskFate(u) # "serving"
  BY <1>1 DEF TaskFate
<1> QED
  BY <1>1, <1>2, <1>3, <1>4, <1>5 DEF RQ!Serve, RQ!Tasks, FateOf, IsFront

\* Popping the task in hand finishes it.
LEMMA PopFinishes ==
  ASSUME IInv, FateInv, taken, NEW l, UnlockAndRemove(l)
  PROVE  \E t \in RQ!Tasks : RQ!Finish(t)
<1>1. /\ cur \in queue /\ queue' = queue \ {cur} /\ taken' = FALSE /\ cur' = cur
      /\ UNCHANGED <<job, withdrawn>>
  BY PopsTaken DEF Goto
<1>2. cur \in 1 .. Len(job) /\ cur \notin withdrawn
  BY <1>1 DEF IInv, TypeOK, FateInv
<1>3. FateOf' = [FateOf EXCEPT ![cur] = "finished"]
  BY <1>1, <1>2 DEF FateOf, TaskFate
<1>4. TaskFate(cur) = "serving"
  BY <1>1 DEF TaskFate
<1> QED
  BY <1>1, <1>2, <1>3, <1>4 DEF RQ!Finish, RQ!Tasks, FateOf

\* Cancel withdraws waiting tasks of one contract.
LEMMA CancelWithdraws ==
  ASSUME IInv, NEW c \in Contract, Cancel(c), UNCHANGED cur
  PROVE  \E S \in SUBSET RQ!Waiting : RQ!Withdraw(S)
<1>1. /\ Removed(c) \subseteq queue /\ queue \subseteq 1 .. Len(job)
      /\ taken => cur \notin Removed(c)
  BY RemovedFacts DEF IInv, TypeOK, TakenTaskIsFront
<1>2. /\ queue' = queue \ Removed(c) /\ withdrawn' = withdrawn \cup Removed(c)
      /\ UNCHANGED <<job, taken, cur>>
  BY DEF Cancel
<1>3. Removed(c) \subseteq RQ!Waiting
  BY <1>1 DEF RQ!Waiting, RQ!Tasks, TaskFate
<1>4. \A t, u \in Removed(c) : Owner[t] = Owner[u]
  BY <1>1 DEF Owner, Removed, Removable, Matches
<1>5. FateOf' = [t \in 1 .. Len(job) |-> IF t \in Removed(c) THEN "withdrawn" ELSE FateOf[t]]
  BY <1>1, <1>2 DEF FateOf, TaskFate
<1> QED
  BY <1>2, <1>3, <1>4, <1>5 DEF RQ!Withdraw, RQ!Tasks, FateOf, Owner

\* AddTask submits.
LEMMA AddSubmits ==
  ASSUME IInv, NEW c \in Contract, AddTask(c)
  PROVE  RQ!Submit(c)
<1>1. PICK d \in Job : job' = Append(job, d) /\ d.contract = c
  BY DEF AddTask, Job, AdjustedDest
<1>2. /\ job \in Seq(Job) /\ Len(job) \in Nat /\ Len(job') = Len(job) + 1
      /\ \A t \in 1 .. Len(job) : job'[t] = job[t]
      /\ job'[Len(job) + 1] = d
  BY <1>1 DEF IInv, TypeOK
<1>3. /\ queue' = queue \cup {Len(job) + 1} /\ UNCHANGED <<withdrawn, taken, cur>>
      /\ cur \in 0 .. Len(job) /\ queue \subseteq 1 .. Len(job)
  BY <1>2 DEF AddTask, schedVars, IInv, TypeOK
<1>4. PICK n \in Nat : n = Len(job)
  BY <1>2
<1>5. Owner' = Append(Owner, c)
  <2>1. \A t \in 1 .. n : job[t].contract \in Contract
    <3>1. \A t \in 1 .. n : job[t] \in Job
      BY <1>2, <1>4, ElementOfSeq
    <3> QED
      BY <3>1 DEF Job
  <2>2. Owner \in [1 .. n -> Contract]
    BY <1>4, <2>1 DEF Owner
  <2>3. \A t \in 1 .. n : Owner'[t] = Owner[t]
    BY <1>2, <1>4 DEF Owner
  <2>4. Owner'[n + 1] = c
    BY <1>1, <1>2, <1>4 DEF Owner
  <2>5. Owner' \in [1 .. n + 1 -> Contract]
    <3>1. Owner' = [t \in 1 .. n + 1 |-> Owner'[t]]
      BY <1>2, <1>4 DEF Owner
    <3> QED
      BY <2>2, <2>3, <2>4, <3>1
  <2> QED
    BY <2>2, <2>3, <2>4, <2>5, AppendIs
<1>6. FateOf' = Append(FateOf, "waiting")
  <2>1. FateOf \in [1 .. n -> RQ!Fate]
    BY <1>4 DEF FateOf, TaskFate, RQ!Fate
  <2>2. \A t \in 1 .. n : FateOf'[t] = FateOf[t]
    BY <1>2, <1>3, <1>4 DEF FateOf, TaskFate
  <2>3. FateOf'[n + 1] = "waiting"
    BY <1>2, <1>3, <1>4 DEF FateOf, TaskFate
  <2>4. FateOf' \in [1 .. n + 1 -> RQ!Fate]
    BY <1>2, <1>4 DEF FateOf, TaskFate, RQ!Fate
  <2>5. "waiting" \in RQ!Fate
    BY DEF RQ!Fate
  <2> QED
    BY <2>1, <2>2, <2>3, <2>4, <2>5, AppendIs
<1> QED
  BY <1>5, <1>6 DEF RQ!Submit, Owner, FateOf

\* Every step of the scheduler, the contracts and the rest is a step of the
\* rental queue, or invisible to it.
LEMMA StepRefines == IInv /\ FateInv /\ [Next]_vars => [RQ!Next]_(RQ!rqVars)
<1> SUFFICES ASSUME IInv, FateInv, [Next]_vars PROVE RQ!Next \/ UNCHANGED RQ!rqVars
  OBVIOUS
<1>1. ASSUME UNCHANGED <<job, queue, withdrawn, taken, cur>> PROVE UNCHANGED RQ!rqVars
  BY <1>1, RQUnchanged
<1>2. ASSUME NEW l, taken, UnlockAndRemove(l) PROVE RQ!Next
  BY <1>2, PopFinishes DEF RQ!Next
<1>3. ASSUME NEW c \in Contract, Cancel(c), UNCHANGED cur PROVE RQ!Next
  BY <1>3, CancelWithdraws DEF RQ!Next
<1>4. CASE SchedulerStep
  <2>1. CASE Connect \/ RunTop \/ RunCheck \/ PollTask \/ SetTaskDest \/ ServeTask \/ Drained \/ ToPrimary
             \/ Idle \/ OnDisconnect \/ RangeNotify \/ RangeDone
    <3>1. UNCHANGED <<job, queue, withdrawn, taken, cur>>
      BY <2>1 DEF Connect, RunTop, RunCheck, PollTask, SetTaskDest, ServeTask, Drained, ToPrimary, Idle, OnDisconnect,
         RangeNotify, RangeDone, ServiceEnds, AfterError, TakeSignal, Goto, listVars, schedVars
    <3> QED
      BY <1>1, <3>1
  <2>2. CASE RunDestFailed
    BY <1>1, <1>2, <2>2 DEF RunDestFailed, Goto, listVars
  <2>3. CASE LockNextTask
    <3>1. CASE taken'
      BY <2>3, <3>1, LockServes DEF RQ!Next
    <3>2. CASE ~ taken'
      <4>1. UNCHANGED <<job, queue, withdrawn, taken, cur>>
        BY <2>3, <3>2 DEF LockNextTask, Goto
      <4> QED
        BY <1>1, <4>1
    <3> QED
      BY <3>1, <3>2
  <2>4. CASE UnlockTask
    BY <1>2, <2>4 DEF UnlockTask, IInv, LockDiscipline
  <2>5. CASE Leave
    BY <1>1, <1>2, <2>5 DEF Leave, Goto, listVars
  <2> QED
    BY <1>4, <2>1, <2>2, <2>3, <2>4, <2>5 DEF SchedulerStep
<1>5. ASSUME NEW c \in Contract, ContractStep(c) PROVE RQ!Next \/ UNCHANGED RQ!rqVars
  <2>1. CASE AddTask(c)
    BY <2>1, AddSubmits DEF RQ!Next
  <2>2. ASSUME NEW from, NEW to, RemoveTasks(c, from, to) PROVE RQ!Next
    BY <1>3, <2>2 DEF RemoveTasks, schedVars
  <2>3. CASE StartRun(c) \/ ChooseMiner(c) \/ SignalNewTask(c) \/ StopElsewhere(c) \/ \E l \in CStates : BeginRemove(c, l)
    BY <1>1, <2>3 DEF StartRun, ChooseMiner, SignalNewTask, StopElsewhere, BeginRemove, listVars, schedVars
  <2> QED
    BY <1>5, <2>1, <2>2, <2>3 DEF ContractStep, ReduceHashrate, StopRun, CStates
<1>6. CASE Environment
  <2>1. ASSUME NEW c \in Contract, TargetReached(c) PROVE RQ!Next
    BY <1>3, <2>1 DEF TargetReached, schedVars
  <2>2. CASE JobDone \/ ProxyExits \/ SetPrimaryDest \/ \E t \in Task : DeadlinePasses(t)
    BY <1>1, <2>2 DEF JobDone, ProxyExits, SetPrimaryDest, DeadlinePasses, listVars, schedVars
  <2> QED
    BY <1>6, <2>1, <2>2 DEF Environment
<1>7. CASE UNCHANGED vars
  BY <1>1, <1>7 DEF vars, listVars, schedVars
<1> QED
  BY <1>4, <1>5, <1>6, <1>7 DEF Next

\* One miner keeps what RentalQueue promises to the contracts that rent it,
\* whatever they, the pools and the miner do.
THEOREM Refinement == Spec => ImplementsRentalQueue
<1>1. Init => RQ!Init
  <2> SUFFICES ASSUME Init PROVE RQ!Init
    OBVIOUS
  <2>1. job = <<>> /\ Len(job) = 0
    BY DEF Init
  <2> QED
    BY <2>1 DEF RQ!Init
<1> QED
  BY Invariance, FateInvariance, StepRefines, <1>1, PTL DEF Spec, ImplementsRentalQueue, RQ!Spec

--------------------------------------------------------------------------------
\* The task list is used as its methods demand (tasklist.go:82-114).
THEOREM KeepsTheList == Spec => []ListIsSound
  BY TypeCorrectness, NeverPanics, ServesTheFront, PTL DEF ListIsSound

\* Every share is credited by the destination it is sent to (proxy.go:214-218).
THEOREM CreditsTheServed == Spec => []CreditFollowsDest
  BY CreditIsRight, PrimaryIsUncredited, PTL DEF CreditFollowsDest

================================================================================
