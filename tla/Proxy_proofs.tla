------------------------------ MODULE Proxy_proofs ------------------------------
(***************************************************************************)
(* Proofs, for any number of pools, connections, shares and failures, that *)
(* a connection to a pool has one reader, that the miner mines for the     *)
(* pool to which its shares are counted, and that a swap leaves a pipe     *)
(* that runs with the destination, callback and cache that belong together.*)
(***************************************************************************)
EXTENDS Proxy, FiniteSetTheorems, TLAPS

--------------------------------------------------------------------------------
\* The inductive invariant

\* Places of setDest: from when on newDest is chosen, where it is neither cached
\* nor read in the background, and where the pipe has not been stopped yet.
Chosen == {"waitCached", "wait", "arStop", "stopD2S", "waitD2S", "waitS2D", "old", "resend", "store"}
Private == Chosen \ {"waitCached", "arStop"}
Before == {"idle", "connect", "waitCached", "wait", "arStop", "stopD2S"}

\* The parts of TypeOK
ConnTypeOK ==
    /\ opened \in Conn /\ url \in [Conn -> URL] /\ open \in [Conn -> BOOLEAN]
    /\ autoread \in [Conn -> {"off", "on", "failed", "dead"}] /\ key \in [Conn -> URL]

DestTypeOK ==
    /\ dest \in Conn /\ destURL \in URL /\ onSubmit \in 0 .. MaxConns /\ destMap \in [URL -> 0 .. MaxConns]
    /\ reconnectURL \in URL /\ target \in URL /\ newDest \in Conn

PlaceTypeOK ==
    /\ lock \in {"free", "set", "run"}
    /\ lock = "set" <=> spc \notin {"idle", "error"}
    /\ lock = "run" <=> rpc = "swap"
    /\ rpc \in {"start", "pipe", "cancelS2D", "waitS2D", "waitD2S", "reconnect", "lock", "swap", "loop", "ended"}
    /\ spc \in {"idle", "waitCached", "connect", "wait", "arStop", "stopD2S", "waitD2S", "waitS2D", "old",
                "resend", "store", "error"}

Err == {"none", "source", "dest"}
TaskTypeOK == task \in [Dir -> TaskState(Err)]

PipeTypeOK ==
    /\ TaskTypeOK
    /\ pipeDest \in Conn /\ from \in Conn /\ minerDest \in Conn
    /\ exit \in {"none", "source", "dest", "canceled"}

FailuresTypeOK == failures \in 0 .. MaxFailures

RestTypeOK ==
    /\ sourceOpen \in BOOLEAN /\ cancelled \in BOOLEAN
    /\ share \in [Share -> {"none", "sent", "cut", "done", "leaked"}]
    /\ waiter \in {"none", "asleep", "woken", "panicked"}
    /\ happened \subseteq {"late", "ignored", "reconnect"}

\* Connections that setDest, the pipe and a reconnect use were opened, under the
\* address asked for.
ConnectionsAgree ==
    /\ dest <= opened
    /\ \A k \in Conn : k > opened => autoread[k] = "off"
    /\ spc \in Chosen => newDest <= opened /\ url[newDest] = target
    /\ rpc = "swap" => url[opened] = reconnectURL /\ autoread[opened] = "off"

\* A connection is cached under its address, and the new destination is another
\* one than the old, read by nobody.
CacheIsSound ==
    /\ \A u \in URL : destMap[u] # 0 => destMap[u] <= opened /\ url[destMap[u]] = u
    /\ spc \in Private => autoread[newDest] = "off" /\ newDest # dest

\* A cache of one connection holds the destination, if any.
SmallCache == Regular /\ MaxCachedDests < 2 => \A u \in URL : destMap[u] # 0 => destMap[u] = dest

\* The destination is read in the background only while setDest gives it up, or
\* after it failed to.
DestIsUnread == autoread[dest] = "off" \/ spc \in {"resend", "store", "error"}

\* isRunning covers the goroutine, and a task that is done is never started.
SoundTask(t) ==
    /\ t.phase = "new" => ~ t.isRunning
    /\ t.phase \in {"running", "closing"} => t.isRunning
    /\ t.phase = "idle" /\ t.isRunning => t.isDone
    /\ t.isDone => t.phase = "idle"

TasksAreSound ==
    /\ \A d \in Dir : SoundTask(task[d])
    /\ rpc = "start" => spc = "idle" /\ \A d \in Dir : task[d].phase = "new"

\* The pipe serves the destination, and rests while setDest changes it.
PipeFollowsDest ==
    Regular =>
        /\ rpc # "loop"
        /\ pipeDest = dest
        /\ Running("d2s") => from = dest
        /\ spc \in {"waitS2D", "old", "resend", "store"} => ~ Running("d2s")
        /\ spc \in {"old", "resend", "store"} => ~ Running("s2d")
        /\ spc = "error" /\ autoread[dest] # "off" => ~ Running("d2s")

\* MinerMinesForDest at every place of setDest
MinerFollowsDest == Regular /\ sourceOpen => minerDest = IF spc = "store" THEN newDest ELSE dest

\* Coherent whether the pipe runs or not
CallbackFollowsDest ==
    Regular => IF onSubmit = 0 THEN dest = 1 /\ destURL = Primary
                               ELSE onSubmit = dest /\ destURL = url[dest]

\* Until setDest stops a direction it runs and was not told to stop, unless it
\* has ended by itself.
PipeRuns ==
    Regular /\ rpc = "pipe" /\ "ignored" \notin happened =>
        /\ spc \in Before => \A d \in Dir : task[d].isDone \/ (Running(d) /\ ~ task[d].stopped)
        /\ spc = "waitD2S" => task["s2d"].isDone \/ (Running("s2d") /\ ~ task["s2d"].stopped)

Quiet == failures = 0 /\ "late" \notin happened

\* As long as nothing failed and no share was late, no context of a share and no
\* task has ended, and what the cache, the pipe and setDest use is open.
NothingFailed ==
    Quiet =>
        /\ Regular /\ sourceOpen /\ ~ cancelled /\ rpc \in {"start", "pipe"}
        /\ \A d \in Dir : ~ task[d].isDone
        /\ Running("s2d") /\ task["s2d"].stopped => spc = "waitS2D"
        /\ \A i \in Share : share[i] \notin {"cut", "leaked"} /\ (share[i] = "sent" => ~ WaitOver)
        /\ open[dest]
        /\ spc \in Chosen => open[newDest]
        /\ \A u \in URL : destMap[u] # 0 => open[destMap[u]]

\* CacheBounded, of a cache that is finite
Size == IF MaxCachedDests = 0 THEN 1 ELSE MaxCachedDests
CacheIsBounded == IsFiniteSet(Cached) /\ (Regular => Cardinality(Cached) <= Size)

IInv ==
    /\ TypeOK
    /\ ConnectionsAgree /\ CacheIsSound /\ SmallCache /\ DestIsUnread
    /\ TasksAreSound /\ PipeFollowsDest /\ MinerFollowsDest /\ CallbackFollowsDest
    /\ PipeRuns /\ NothingFailed /\ CacheIsBounded

--------------------------------------------------------------------------------
\* Types

\* The operations of a task keep its type.
LEMMA TaskTypes ==
  ASSUME NEW t \in TaskState(Err), NEW e \in Err
  PROVE  /\ Started(t) \in TaskState(Err) /\ StopSent(t) \in TaskState(Err)
         /\ EndedByStop(t) \in TaskState(Err) /\ EndedWith(t, e) \in TaskState(Err)
         /\ Left(t) \in TaskState(Err)
<1>1. Started(t) \in TaskState(Err)
  BY DEF Started, TaskState, Phase, Err
<1>2. StopSent(t) \in TaskState(Err)
  BY DEF StopSent, TaskState, Phase, Err
<1>3. EndedByStop(t) \in TaskState(Err)
  BY DEF EndedByStop, TaskState, Phase, Err
<1>4. EndedWith(t, e) \in TaskState(Err)
  BY DEF EndedWith, TaskState, Phase, Err
<1>5. Left(t) \in TaskState(Err)
  BY DEF Left, TaskState, Phase, Err
<1> QED
  BY <1>1, <1>2, <1>3, <1>4, <1>5

\* Start leaves a task that runs, marks one that is done, starts any other.
LEMMA StartMoves ==
  ASSUME NEW t \in TaskState(Err)
  PROVE  \/ t.isRunning /\ Started(t) = t
         \/ ~ t.isRunning /\ t.isDone /\ Started(t) = [t EXCEPT !.isRunning = TRUE]
         \/ /\ ~ t.isRunning /\ ~ t.isDone
            /\ Started(t) = [t EXCEPT !.phase = "running", !.isRunning = TRUE, !.stopped = FALSE, !.err = "none"]
  BY DEF Started

\* Start keeps a task sound, and what it starts was not told to stop.
LEMMA StartFacts ==
  ASSUME NEW t \in TaskState(Err)
  PROVE  /\ SoundTask(t) => SoundTask(Started(t))
         /\ Started(t).phase = "running" => (t.phase = "running" \/ ~ Started(t).stopped)
<1>1. CASE t.isRunning /\ Started(t) = t
  BY <1>1
<1>2. CASE t.isDone /\ Started(t) = [t EXCEPT !.isRunning = TRUE]
  <2>1. /\ Started(t).phase = t.phase /\ Started(t).isDone = t.isDone
        /\ Started(t).isRunning /\ Started(t).stopped = t.stopped
    BY <1>2 DEF TaskState
  <2> QED
    BY <1>2, <2>1 DEF SoundTask
<1>3. CASE /\ ~ t.isDone
           /\ Started(t) = [t EXCEPT !.phase = "running", !.isRunning = TRUE, !.stopped = FALSE, !.err = "none"]
  <2>1. Started(t).phase = "running" /\ Started(t).isRunning /\ ~ Started(t).isDone /\ ~ Started(t).stopped
    BY <1>3
  <2> QED
    BY <2>1 DEF SoundTask
<1> QED
  BY <1>1, <1>2, <1>3, StartMoves

\* Starting or stopping the pipe, and opening a connection, keep the types.
LEMMA StartTypes ==
  ASSUME TaskTypeOK, NEW pd, NEW what, StartBoth(pd, what)
  PROVE  TaskTypeOK'
<1>1. "none" \in Err
  BY DEF Err
<1> QED
  BY <1>1, TaskTypes DEF TaskTypeOK, StartBoth

LEMMA StopTypes ==
  ASSUME TaskTypeOK, NEW d \in Dir, StopDir(d)
  PROVE  TaskTypeOK'
<1>1. "none" \in Err
  BY DEF Err
<1> QED
  BY <1>1, TaskTypes DEF TaskTypeOK, StopDir

LEMMA OpenTypes ==
  ASSUME ConnTypeOK, NEW u \in URL, Opens(u)
  PROVE  opened + 1 \in Conn /\ opened' = opened + 1 /\ ConnTypeOK'
  BY BoundsAssumption DEF ConnTypeOK, Opens, Conn

\* Each part of TypeOK is kept by every step.
LEMMA ConnTypeKept ==
  ASSUME ConnTypeOK, DestTypeOK, [Next]_vars
  PROVE  ConnTypeOK'
<1>1. CASE Connections
  <2>0. UNCHANGED <<opened, url, key, dest, destURL, onSubmit, lock, pipeVars, runVars, cancelled, setVars, shareVars>>
    BY <1>1 DEF Connections
  <2>1. CASE SourceCloses
    BY <2>0, <2>1 DEF SourceCloses, ConnTypeOK
  <2>2. CASE \E k \in Conn : PoolCloses(k)
    BY <2>0, <2>2 DEF PoolCloses, ConnTypeOK
  <2>3. CASE \E k \in Conn : AutoReadFails(k)
    BY <2>0, <2>3 DEF AutoReadFails, ConnTypeOK
  <2>4. CASE \E k \in Conn : AutoReadCallback(k)
    BY <2>0, <2>4 DEF AutoReadCallback, ConnTypeOK
  <2> QED
    BY <1>1, <2>1, <2>2, <2>3, <2>4 DEF Connections
<1>2. CASE Shares
  BY <1>2 DEF Shares, connVars, ConnTypeOK
<1>3. CASE Runs
  <2>0. UNCHANGED <<sourceOpen, cancelled, setVars, waiter, failures>>
    BY <1>3 DEF Runs
  <2>1. CASE RunStarts
    BY <2>0, <2>1 DEF RunStarts, connVars, ConnTypeOK
  <2>2. CASE PipeExits
    BY <2>0, <2>2 DEF PipeExits, connVars, ConnTypeOK
  <2>3. CASE PipeStopsNext
    BY <2>0, <2>3 DEF PipeStopsNext, connVars, ConnTypeOK
  <2>4. CASE RunErr
    BY <2>0, <2>4 DEF RunErr, CloseConnections, ConnTypeOK
  <2>5. CASE Reconnect
    BY <2>0, <2>5 DEF Reconnect, CloseConnections, ConnTypeOK
  <2>6. CASE ReconnectConnects
    <3>1. CASE Opens(reconnectURL)
      BY <3>1, OpenTypes DEF DestTypeOK
    <3>2. CASE CloseConnections /\ UNCHANGED <<opened, url, autoread, key, lock>>
      BY <3>2 DEF CloseConnections, ConnTypeOK
    <3> QED
      BY <2>6, <3>1, <3>2 DEF ReconnectConnects
  <2>7. CASE ReconnectSwaps
    BY <2>0, <2>7 DEF ReconnectSwaps, CloseConnections, ConnTypeOK
  <2>8. CASE RunLoops
    BY <2>0, <2>8 DEF RunLoops, connVars, ConnTypeOK
  <2> QED
    BY <1>3, <2>1, <2>2, <2>3, <2>4, <2>5, <2>6, <2>7, <2>8 DEF Runs
<1>4. CASE SetBegin
  BY <1>4 DEF SetBegin, SetDest, ConnTypeOK, connVars
<1>5. CASE SetGoesOn
  <2>0. UNCHANGED <<sourceOpen, exit, reconnectURL, cancelled, failures>>
    BY <1>5 DEF SetGoesOn, SetFrame
  <2>1. CASE SetConnects
    <3>1. CASE Opens(target)
      BY <3>1, OpenTypes DEF DestTypeOK
    <3>2. CASE UNCHANGED connVars
      BY <3>2 DEF connVars, ConnTypeOK
    <3> QED
      BY <2>1, <3>1, <3>2 DEF SetConnects
  <2>2. CASE Wait
    BY <2>0, <2>2 DEF Wait, connVars, ConnTypeOK
  <2>3. CASE SetStopsAutoread
    BY <2>0, <2>3 DEF SetStopsAutoread, ConnTypeOK
  <2>4. CASE SetStopsPipe
    BY <2>0, <2>4 DEF SetStopsPipe, connVars, ConnTypeOK
  <2>5. CASE SetKeepsOld
    BY <2>0, <2>5 DEF SetKeepsOld, ConnTypeOK, DestTypeOK
  <2>6. CASE SetResends
    BY <2>0, <2>6 DEF SetResends, connVars, ConnTypeOK
  <2>7. CASE SetStores
    BY <2>0, <2>7 DEF SetStores, ConnTypeOK
  <2> QED
    BY <1>5, <2>1, <2>2, <2>3, <2>4, <2>5, <2>6, <2>7 DEF SetGoesOn
<1>6. CASE Pipe
  BY <1>6 DEF Pipe, pipeFrame, connVars, ConnTypeOK
<1>7. CASE UNCHANGED vars
  BY <1>7 DEF ConnTypeOK, vars, connVars
<1> QED
  BY <1>1, <1>2, <1>3, <1>4, <1>5, <1>6, <1>7 DEF Next, Set

LEMMA DestTypeKept ==
  ASSUME ConnTypeOK, DestTypeOK, [Next]_vars
  PROVE  DestTypeOK'
<1> USE BoundsAssumption
<1>1. CASE Connections
  <2>0. UNCHANGED <<opened, url, key, dest, destURL, onSubmit, lock, pipeVars, runVars, cancelled, setVars, shareVars>>
    BY <1>1 DEF Connections
  <2>1. CASE SourceCloses
    BY <2>0, <2>1 DEF SourceCloses, runVars, setVars, DestTypeOK
  <2>2. CASE \E k \in Conn : PoolCloses(k)
    BY <2>0, <2>2 DEF PoolCloses, runVars, setVars, DestTypeOK
  <2>3. CASE \E k \in Conn : AutoReadFails(k)
    BY <2>0, <2>3 DEF AutoReadFails, runVars, setVars, DestTypeOK
  <2>4. CASE \E k \in Conn : AutoReadCallback(k)
    BY <2>0, <2>4 DEF AutoReadCallback, runVars, setVars, ConnTypeOK, DestTypeOK
  <2> QED
    BY <1>1, <2>1, <2>2, <2>3, <2>4 DEF Connections
<1>2. CASE Shares
  BY <1>2 DEF Shares, destVars, runVars, setVars, DestTypeOK
<1>3. CASE Runs
  <2>0. UNCHANGED <<sourceOpen, cancelled, setVars, waiter, failures>>
    BY <1>3 DEF Runs
  <2>1. CASE RunStarts
    BY <2>0, <2>1 DEF RunStarts, destVars, setVars, DestTypeOK
  <2>2. CASE PipeExits
    BY <2>0, <2>2 DEF PipeExits, destVars, setVars, DestTypeOK
  <2>3. CASE PipeStopsNext
    BY <2>0, <2>3 DEF PipeStopsNext, destVars, setVars, DestTypeOK
  <2>4. CASE RunErr
    BY <2>0, <2>4 DEF RunErr, CloseConnections, setVars, DestTypeOK
  <2>5. CASE Reconnect
    <3>1. CASE CloseConnections /\ UNCHANGED reconnectURL
      BY <2>0, <2>5, <3>1 DEF Reconnect, CloseConnections, setVars, DestTypeOK
    <3>2. CASE destMap' = [destMap EXCEPT ![url[dest]] = 0] /\ reconnectURL' = destURL
      <4>1. destMap' \in [URL -> 0 .. MaxConns] /\ destURL \in URL
        <5>1. 0 \in 0 .. MaxConns
          OBVIOUS
        <5> QED
          BY <3>2, <5>1, Zenon DEF DestTypeOK
      <4> QED
        BY <2>0, <2>5, <3>2, <4>1 DEF Reconnect, setVars, DestTypeOK
    <3> QED
      BY <2>5, <3>1, <3>2 DEF Reconnect
  <2>6. CASE ReconnectConnects
    BY <2>0, <2>6 DEF ReconnectConnects, CloseConnections, setVars, DestTypeOK
  <2>7. CASE ReconnectSwaps
    <3>1. opened \in 0 .. MaxConns
      BY DEF ConnTypeOK, Conn
    <3>2. destMap' \in [URL -> 0 .. MaxConns]
      BY <2>7, <3>1 DEF ReconnectSwaps, CloseConnections, DestTypeOK
    <3> QED
      BY <2>0, <2>7, <3>2 DEF ReconnectSwaps, CloseConnections, setVars, ConnTypeOK, DestTypeOK
  <2>8. CASE RunLoops
    BY <2>0, <2>8 DEF RunLoops, destVars, setVars, DestTypeOK
  <2> QED
    BY <1>3, <2>1, <2>2, <2>3, <2>4, <2>5, <2>6, <2>7, <2>8 DEF Runs
<1>4. CASE SetBegin
  BY <1>4 DEF SetBegin, SetDest, SetFrame, DestTypeOK, Conn, destVars
<1>5. CASE SetGoesOn
  <2>0. UNCHANGED <<sourceOpen, exit, reconnectURL, cancelled, failures>>
    BY <1>5 DEF SetGoesOn, SetFrame
  <2>1. CASE SetConnects
    BY <2>0, <2>1 DEF SetConnects, Opens, destVars, ConnTypeOK, DestTypeOK, Conn
  <2>2. CASE Wait
    BY <2>0, <2>2 DEF Wait, destVars, DestTypeOK
  <2>3. CASE SetStopsAutoread
    BY <2>0, <2>3 DEF SetStopsAutoread, DestTypeOK
  <2>4. CASE SetStopsPipe
    BY <2>0, <2>4 DEF SetStopsPipe, destVars, DestTypeOK
  <2>5. CASE SetKeepsOld
    <3>1. destMap' \in [URL -> 0 .. MaxConns]
      BY <2>5 DEF SetKeepsOld, DestTypeOK
    <3> QED
      BY <2>0, <2>5, <3>1 DEF SetKeepsOld, DestTypeOK
  <2>6. CASE SetResends
    BY <2>0, <2>6 DEF SetResends, destVars, DestTypeOK
  <2>7. CASE SetStores
    <3>1. destMap' \in [URL -> 0 .. MaxConns]
      <4>1. PICK u : destMap' = [destMap EXCEPT ![u] = 0, ![target] = newDest]
        BY <2>7 DEF SetStores
      <4> QED
        BY <4>1 DEF DestTypeOK, Conn
    <3> QED
      BY <2>0, <2>7, <3>1 DEF SetStores, Store, DestTypeOK
  <2> QED
    BY <1>5, <2>1, <2>2, <2>3, <2>4, <2>5, <2>6, <2>7 DEF SetGoesOn
<1>6. CASE Pipe
  BY <1>6 DEF Pipe, pipeFrame, destVars, runVars, setVars, DestTypeOK
<1>7. CASE UNCHANGED vars
  BY <1>7 DEF DestTypeOK, vars, destVars, runVars, setVars
<1> QED
  BY <1>1, <1>2, <1>3, <1>4, <1>5, <1>6, <1>7 DEF Next, Set

LEMMA PlaceTypeKept ==
  ASSUME PlaceTypeOK, [Next]_vars
  PROVE  PlaceTypeOK'
<1>1. CASE Connections
  BY <1>1 DEF Connections, runVars, setVars, PlaceTypeOK
<1>2. CASE Shares
  BY <1>2 DEF Shares, runVars, setVars, PlaceTypeOK
<1>3. CASE Runs
  <2>0. UNCHANGED <<sourceOpen, cancelled, setVars, waiter, failures>>
    BY <1>3 DEF Runs
  <2>1. CASE RunStarts
    BY <2>0, <2>1 DEF RunStarts, RunGoes, setVars, PlaceTypeOK
  <2>2. CASE PipeExits
    BY <2>0, <2>2 DEF PipeExits, RunGoes, setVars, PlaceTypeOK
  <2>3. CASE PipeStopsNext
    BY <2>0, <2>3 DEF PipeStopsNext, RunGoes, setVars, PlaceTypeOK
  <2>4. CASE RunErr
    BY <2>0, <2>4 DEF RunErr, RunGoes, setVars, PlaceTypeOK
  <2>5. CASE Reconnect
    BY <2>0, <2>5 DEF Reconnect, RunGoes, setVars, PlaceTypeOK
  <2>6. CASE ReconnectConnects
    BY <2>0, <2>6 DEF ReconnectConnects, RunGoes, setVars, PlaceTypeOK
  <2>7. CASE ReconnectSwaps
    BY <2>0, <2>7 DEF ReconnectSwaps, RunGoes, setVars, PlaceTypeOK
  <2>8. CASE RunLoops
    BY <2>0, <2>8 DEF RunLoops, RunGoes, setVars, PlaceTypeOK
  <2> QED
    BY <1>3, <2>1, <2>2, <2>3, <2>4, <2>5, <2>6, <2>7, <2>8 DEF Runs
<1>4. CASE SetBegin
  BY <1>4 DEF SetBegin, SetDest, PlaceTypeOK
<1>5. CASE SetGoesOn
  <2>0. UNCHANGED <<sourceOpen, exit, reconnectURL, cancelled, failures>>
    BY <1>5 DEF SetGoesOn, SetFrame
  <2>1. CASE SetConnects
    BY <2>0, <2>1 DEF SetConnects, PlaceTypeOK
  <2>2. CASE Wait
    BY <2>0, <2>2 DEF Wait, PlaceTypeOK
  <2>3. CASE SetStopsAutoread
    BY <2>0, <2>3 DEF SetStopsAutoread, PlaceTypeOK
  <2>4. CASE SetStopsPipe
    BY <2>0, <2>4 DEF SetStopsPipe, PlaceTypeOK
  <2>5. CASE SetKeepsOld
    BY <2>0, <2>5 DEF SetKeepsOld, PlaceTypeOK
  <2>6. CASE SetResends
    BY <2>0, <2>6 DEF SetResends, PlaceTypeOK
  <2>7. CASE SetStores
    BY <2>0, <2>7 DEF SetStores, PlaceTypeOK
  <2> QED
    BY <1>5, <2>1, <2>2, <2>3, <2>4, <2>5, <2>6, <2>7 DEF SetGoesOn
<1>6. CASE Pipe
  BY <1>6 DEF Pipe, pipeFrame, runVars, setVars, PlaceTypeOK
<1>7. CASE UNCHANGED vars
  BY <1>7 DEF PlaceTypeOK, vars, runVars, setVars
<1> QED
  BY <1>1, <1>2, <1>3, <1>4, <1>5, <1>6, <1>7 DEF Next, Set

LEMMA PipeTypeKept ==
  ASSUME ConnTypeOK, DestTypeOK, PipeTypeOK, [Next]_vars
  PROVE  PipeTypeOK'
<1>1. CASE Connections
  BY <1>1 DEF Connections, pipeVars, runVars, PipeTypeOK, TaskTypeOK
<1>2. CASE Shares
  BY <1>2 DEF Shares, pipeVars, runVars, PipeTypeOK, TaskTypeOK
<1>3. CASE Runs
  <2>0. UNCHANGED <<sourceOpen, cancelled, setVars, waiter, failures>>
    BY <1>3 DEF Runs
  <2>1. CASE RunStarts
    <3>1. TaskTypeOK'
      BY <2>1, StartTypes DEF RunStarts, PipeTypeOK
    <3> QED
      BY <2>0, <2>1, <3>1 DEF RunStarts, StartBoth, PipeTypeOK, DestTypeOK
  <2>2. CASE PipeExits
    <3>1. TaskTypeOK'
      BY <2>2, StopTypes DEF PipeExits, PipeTypeOK, Dir
    <3>2. \A d \in Dir : task[d].err \in Err
      BY DEF PipeTypeOK, TaskTypeOK, TaskState
    <3>3. exit' \in {"none", "source", "dest", "canceled"}
      BY <2>2, <3>2 DEF PipeExits, Dir, Err
    <3> QED
      BY <2>0, <2>2, <3>1, <3>3 DEF PipeExits, PipeTypeOK
  <2>3. CASE PipeStopsNext
    <3>1. TaskTypeOK'
      BY <2>3, StopTypes DEF PipeStopsNext, PipeTypeOK, Dir
    <3> QED
      BY <2>0, <2>3, <3>1 DEF PipeStopsNext, PipeTypeOK
  <2>4. CASE RunErr
    BY <2>0, <2>4 DEF RunErr, pipeVars, PipeTypeOK, TaskTypeOK
  <2>5. CASE Reconnect
    BY <2>0, <2>5 DEF Reconnect, pipeVars, PipeTypeOK, TaskTypeOK
  <2>6. CASE ReconnectConnects
    BY <2>0, <2>6 DEF ReconnectConnects, pipeVars, PipeTypeOK, TaskTypeOK
  <2>7. CASE ReconnectSwaps
    <3>1. CASE sourceOpen
      <4>1. TaskTypeOK'
        BY <2>7, <3>1, StartTypes DEF ReconnectSwaps, PipeTypeOK
      <4> QED
        BY <2>0, <2>7, <3>1, <4>1 DEF ReconnectSwaps, StartBoth, PipeTypeOK, ConnTypeOK
    <3>2. CASE ~ sourceOpen
      BY <2>0, <2>7, <3>2 DEF ReconnectSwaps, pipeVars, PipeTypeOK, TaskTypeOK
    <3> QED
      BY <3>1, <3>2
  <2>8. CASE RunLoops
    <3>1. TaskTypeOK'
      BY <2>8, StartTypes DEF RunLoops, PipeTypeOK
    <3> QED
      BY <2>0, <2>8, <3>1 DEF RunLoops, StartBoth, PipeTypeOK
  <2> QED
    BY <1>3, <2>1, <2>2, <2>3, <2>4, <2>5, <2>6, <2>7, <2>8 DEF Runs
<1>4. CASE SetBegin
  BY <1>4 DEF SetBegin, SetDest, SetFrame, PipeTypeOK, TaskTypeOK, pipeVars
<1>5. CASE SetGoesOn
  <2>0. UNCHANGED <<sourceOpen, exit, reconnectURL, cancelled, failures>>
    BY <1>5 DEF SetGoesOn, SetFrame
  <2>1. CASE SetConnects
    BY <2>0, <2>1 DEF SetConnects, pipeVars, PipeTypeOK, TaskTypeOK
  <2>2. CASE Wait
    BY <2>0, <2>2 DEF Wait, pipeVars, PipeTypeOK, TaskTypeOK
  <2>3. CASE SetStopsAutoread
    BY <2>0, <2>3 DEF SetStopsAutoread, pipeVars, PipeTypeOK, TaskTypeOK
  <2>4. CASE SetStopsPipe
    <3>1. TaskTypeOK'
      BY <2>4, StopTypes DEF SetStopsPipe, PipeTypeOK, TaskTypeOK, Dir
    <3> QED
      BY <2>0, <2>4, <3>1 DEF SetStopsPipe, PipeTypeOK
  <2>5. CASE SetKeepsOld
    BY <2>0, <2>5 DEF SetKeepsOld, pipeVars, PipeTypeOK, TaskTypeOK
  <2>6. CASE SetResends
    BY <2>0, <2>6 DEF SetResends, DestTypeOK, PipeTypeOK, TaskTypeOK
  <2>7. CASE SetStores
    <3>1. TaskTypeOK'
      BY <2>7, StartTypes DEF SetStores, PipeTypeOK
    <3> QED
      BY <2>0, <2>7, <3>1 DEF SetStores, StartBoth, PipeTypeOK, DestTypeOK
  <2> QED
    BY <1>5, <2>1, <2>2, <2>3, <2>4, <2>5, <2>6, <2>7 DEF SetGoesOn
<1>6. CASE Pipe
  <2>0. "none" \in Err /\ "source" \in Err /\ "dest" \in Err
    BY DEF Err
  <2>1. CASE Forward
    BY <1>6, <2>1 DEF Pipe, pipeFrame, runVars, Forward, PipeTypeOK, TaskTypeOK
  <2>2. ASSUME NEW d \in Dir, TaskStops(d) PROVE PipeTypeOK'
    BY <1>6, <2>0, <2>2, TaskTypes DEF Pipe, pipeFrame, runVars, TaskStops, PipeTypeOK, TaskTypeOK
  <2>3. ASSUME NEW d \in Dir, TaskFails(d) PROVE PipeTypeOK'
    BY <1>6, <2>0, <2>3, TaskTypes DEF Pipe, pipeFrame, runVars, TaskFails, PipeTypeOK, TaskTypeOK
  <2>4. ASSUME NEW d \in Dir, TaskLeaves(d) PROVE PipeTypeOK'
    BY <1>6, <2>0, <2>4, TaskTypes DEF Pipe, pipeFrame, runVars, TaskLeaves, PipeTypeOK, TaskTypeOK
  <2> QED
    BY <1>6, <2>1, <2>2, <2>3, <2>4 DEF Pipe
<1>7. CASE UNCHANGED vars
  BY <1>7 DEF PipeTypeOK, TaskTypeOK, vars, pipeVars, runVars
<1> QED
  BY <1>1, <1>2, <1>3, <1>4, <1>5, <1>6, <1>7 DEF Next, Set

LEMMA FailuresTypeKept ==
  ASSUME FailuresTypeOK, [Next]_vars
  PROVE  FailuresTypeOK'
<1> USE BoundsAssumption
<1>1. CASE Connections
  BY <1>1 DEF Connections, SourceCloses, Fails, PoolCloses, AutoReadFails, AutoReadCallback, FailuresTypeOK
<1>2. CASE Shares
  BY <1>2 DEF Shares, ShareAnswered, ShareFails, Fails, Submit, FailuresTypeOK
<1>3. CASE Runs
  BY <1>3 DEF Runs, FailuresTypeOK
<1>4. CASE SetBegin
  BY <1>4 DEF SetBegin, SetFrame, FailuresTypeOK
<1>5. CASE SetGoesOn
  BY <1>5 DEF SetGoesOn, SetFrame, FailuresTypeOK
<1>6. CASE Pipe
  BY <1>6 DEF Pipe, pipeFrame, FailuresTypeOK
<1>7. CASE UNCHANGED vars
  BY <1>7 DEF FailuresTypeOK, vars
<1> QED
  BY <1>1, <1>2, <1>3, <1>4, <1>5, <1>6, <1>7 DEF Next, Set

LEMMA RestTypeKept ==
  ASSUME RestTypeOK, [Next]_vars
  PROVE  RestTypeOK'
<1>1. CASE Connections
  BY <1>1 DEF Connections, SourceCloses, PoolCloses, AutoReadFails, AutoReadCallback, shareVars, RestTypeOK
<1>2. CASE Shares
  BY <1>2 DEF Shares, ShareAnswered, ShareFails, Done, CancelRun, Submit, RestTypeOK
<1>3. CASE Runs
  BY <1>3 DEF Runs, RunStarts, StartBoth, PipeExits, StopDir, PipeStopsNext, RunErr, Reconnect,
     ReconnectConnects, ReconnectSwaps, RunLoops, RestTypeOK
<1>4. CASE SetBegin
  BY <1>4 DEF SetBegin, SetDest, SetFrame, RestTypeOK
<1>5. CASE SetGoesOn
  <2>0. UNCHANGED <<sourceOpen, exit, reconnectURL, cancelled, failures>>
    BY <1>5 DEF SetGoesOn, SetFrame
  <2>1. CASE Wait
    BY <2>0, <2>1 DEF Wait, RestTypeOK
  <2>2. CASE UNCHANGED waiter /\ (SetStopsPipe \/ SetStores)
    BY <2>0, <2>2 DEF SetStopsPipe, StopDir, SetStores, StartBoth, RestTypeOK
  <2>3. CASE UNCHANGED waiter /\ (SetConnects \/ SetStopsAutoread \/ SetKeepsOld \/ SetResends)
    BY <2>0, <2>3 DEF SetConnects, SetStopsAutoread, SetKeepsOld, SetResends, RestTypeOK
  <2> QED
    BY <1>5, <2>1, <2>2, <2>3 DEF SetGoesOn
<1>6. CASE Pipe
  BY <1>6 DEF Pipe, Forward, TaskStops, TaskFails, TaskLeaves, pipeFrame, RestTypeOK
<1>7. CASE UNCHANGED vars
  BY <1>7 DEF RestTypeOK, vars, shareVars
<1> QED
  BY <1>1, <1>2, <1>3, <1>4, <1>5, <1>6, <1>7 DEF Next, Set

--------------------------------------------------------------------------------
\* Connections and the cache

\* Addresses stay those of the connections.
LEMMA ConnKept ==
  ASSUME ConnTypeOK, DestTypeOK, PlaceTypeOK, ConnectionsAgree, CacheIsSound, [Next]_vars
  PROVE  ConnectionsAgree'
<1> USE BoundsAssumption
<1>1. CASE Connections
  <2>0. UNCHANGED <<opened, url, key, dest, destURL, onSubmit, lock, pipeVars, runVars, cancelled, setVars, shareVars>>
    BY <1>1 DEF Connections
  <2>1. CASE SourceCloses
    BY <2>0, <2>1 DEF SourceCloses, runVars, setVars, ConnectionsAgree
  <2>2. CASE \E k \in Conn : PoolCloses(k)
    BY <2>0, <2>2 DEF PoolCloses, runVars, setVars, ConnectionsAgree
  <2>3. CASE \E k \in Conn : AutoReadFails(k)
    BY <2>0, <2>3 DEF AutoReadFails, runVars, setVars, ConnectionsAgree
  <2>4. CASE \E k \in Conn : AutoReadCallback(k)
    BY <2>0, <2>4 DEF AutoReadCallback, runVars, setVars, ConnectionsAgree
  <2> QED
    BY <1>1, <2>1, <2>2, <2>3, <2>4 DEF Connections
<1>2. CASE Shares
  BY <1>2 DEF Shares, connVars, destVars, runVars, setVars, ConnectionsAgree
<1>3. CASE Runs
  <2>0. UNCHANGED <<sourceOpen, cancelled, setVars, waiter, failures>>
    BY <1>3 DEF Runs
  <2>1. CASE RunStarts
    BY <2>0, <2>1 DEF RunStarts, RunGoes, connVars, destVars, setVars, ConnectionsAgree
  <2>2. CASE PipeExits
    BY <2>0, <2>2 DEF PipeExits, RunGoes, connVars, destVars, setVars, ConnectionsAgree
  <2>3. CASE PipeStopsNext
    BY <2>0, <2>3 DEF PipeStopsNext, RunGoes, connVars, destVars, setVars, ConnectionsAgree
  <2>4. CASE RunErr
    BY <2>0, <2>4 DEF RunErr, RunGoes, setVars, ConnectionsAgree
  <2>5. CASE Reconnect
    BY <2>0, <2>5 DEF Reconnect, RunGoes, setVars, ConnectionsAgree
  <2>6. CASE ReconnectConnects
    <3>1. CASE Opens(reconnectURL) /\ RunGoes("swap")
      <4>1. /\ opened' = opened + 1 /\ url' = [url EXCEPT ![opened + 1] = reconnectURL]
            /\ UNCHANGED <<autoread, dest, reconnectURL, spc, target, newDest>>
        BY <2>0, <2>6, <3>1 DEF Opens, ReconnectConnects, setVars
      <4>2. opened + 1 \in Conn /\ opened < opened + 1
        BY <3>1, OpenTypes DEF DestTypeOK, ConnTypeOK, Conn
      <4>3. \A k \in Conn : k <= opened => url'[k] = url[k] /\ k <= opened'
        BY <4>1, <4>2 DEF ConnTypeOK, Conn
      <4>4. url'[opened'] = reconnectURL' /\ autoread'[opened'] = "off"
        BY <4>1, <4>2 DEF ConnTypeOK, ConnectionsAgree
      <4>5. \A k \in Conn : k > opened' => k > opened
        BY <4>1, <4>2 DEF ConnTypeOK, Conn
      <4> QED
        BY <4>1, <4>3, <4>4, <4>5 DEF ConnectionsAgree, DestTypeOK
    <3>2. CASE RunGoes("ended") /\ UNCHANGED <<opened, url, autoread, key, lock>>
      BY <2>0, <2>6, <3>2 DEF ReconnectConnects, RunGoes, setVars, ConnectionsAgree
    <3> QED
      BY <2>6, <3>1, <3>2 DEF ReconnectConnects
  <2>7. CASE ReconnectSwaps
    BY <2>0, <2>7 DEF ReconnectSwaps, setVars, ConnectionsAgree, ConnTypeOK, Conn
  <2>8. CASE RunLoops
    BY <2>0, <2>8 DEF RunLoops, RunGoes, connVars, destVars, setVars, ConnectionsAgree
  <2> QED
    BY <1>3, <2>1, <2>2, <2>3, <2>4, <2>5, <2>6, <2>7, <2>8 DEF Runs
<1>4. CASE SetBegin
  BY <1>4 DEF SetBegin, SetDest, SetFrame, ConnectionsAgree, CacheIsSound, Chosen, connVars, destVars
<1>5. CASE SetGoesOn
  <2>0. UNCHANGED <<sourceOpen, exit, reconnectURL, cancelled, failures>>
    BY <1>5 DEF SetGoesOn, SetFrame
  <2>1. CASE SetConnects
    <3>1. CASE Opens(target) /\ newDest' = opened + 1 /\ spc' = "wait" /\ UNCHANGED lock
      <4>1. opened' = opened + 1 /\ url' = [url EXCEPT ![opened + 1] = target] /\ UNCHANGED autoread
        BY <3>1 DEF Opens
      <4>2. opened + 1 \in Conn /\ ConnTypeOK'
        BY <3>1, OpenTypes DEF DestTypeOK
      <4>3. url'[opened'] = target /\ dest <= opened'
        BY <4>1, <4>2 DEF ConnectionsAgree, ConnTypeOK, DestTypeOK, Conn
      <4>4. rpc # "swap"
        BY <2>1 DEF SetConnects, PlaceTypeOK
      <4>5. \A k \in Conn : k > opened' => k > opened
        BY <4>1, <4>2 DEF ConnTypeOK, Conn
      <4>6. UNCHANGED <<rpc, dest, target>> /\ newDest' = opened'
        BY <2>1, <3>1, <4>1 DEF SetConnects, destVars
      <4> QED
        BY <3>1, <4>1, <4>2, <4>3, <4>4, <4>5, <4>6 DEF ConnectionsAgree, ConnTypeOK, Conn
    <3>2. CASE lock' = "free" /\ UNCHANGED <<connVars, newDest>> /\ spc' = "error"
      BY <2>0, <2>1, <3>2 DEF SetConnects, connVars, destVars, ConnectionsAgree, Chosen
    <3> QED
      BY <2>1, <3>1, <3>2 DEF SetConnects
  <2>2. CASE Wait
    BY <2>0, <2>2 DEF Wait, connVars, destVars, ConnectionsAgree, Chosen
  <2>3. CASE SetStopsAutoread
    BY <2>0, <2>3 DEF SetStopsAutoread, ConnectionsAgree, ConnTypeOK, Chosen
  <2>4. CASE SetStopsPipe
    BY <2>0, <2>4 DEF SetStopsPipe, connVars, destVars, ConnectionsAgree, Chosen
  <2>5. CASE SetKeepsOld
    BY <2>0, <2>5 DEF SetKeepsOld, ConnectionsAgree, ConnTypeOK, PlaceTypeOK, Conn, Chosen
  <2>6. CASE SetResends
    BY <2>0, <2>6 DEF SetResends, connVars, destVars, ConnectionsAgree, Chosen
  <2>7. CASE SetStores
    BY <2>0, <2>7 DEF SetStores, Store, ConnectionsAgree, Chosen
  <2> QED
    BY <1>5, <2>1, <2>2, <2>3, <2>4, <2>5, <2>6, <2>7 DEF SetGoesOn
<1>6. CASE Pipe
  BY <1>6 DEF Pipe, pipeFrame, connVars, destVars, runVars, setVars, ConnectionsAgree
<1>7. CASE UNCHANGED vars
  BY <1>7 DEF ConnectionsAgree, vars, connVars, destVars, runVars, setVars
<1> QED
  BY <1>1, <1>2, <1>3, <1>4, <1>5, <1>6, <1>7 DEF Next, Set

\* The cache stays sound: a connection that dies or is taken leaves it first.
LEMMA CacheKept ==
  ASSUME ConnTypeOK, DestTypeOK, PlaceTypeOK, ConnectionsAgree, CacheIsSound, DestIsUnread, [Next]_vars
  PROVE  CacheIsSound'
<1> USE BoundsAssumption
<1>1. CASE Connections
  <2>0. UNCHANGED <<opened, url, key, dest, destURL, onSubmit, lock, pipeVars, runVars, cancelled, setVars, shareVars>>
    BY <1>1 DEF Connections
  <2>1. CASE SourceCloses
    BY <2>0, <2>1 DEF SourceCloses, setVars, CacheIsSound
  <2>2. CASE \E k \in Conn : PoolCloses(k)
    BY <2>0, <2>2 DEF PoolCloses, setVars, CacheIsSound
  <2>3. CASE \E k \in Conn : AutoReadFails(k)
    BY <2>0, <2>3 DEF AutoReadFails, setVars, CacheIsSound
  <2>4. CASE \E k \in Conn : AutoReadCallback(k)
    BY <2>0, <2>4 DEF AutoReadCallback, setVars, CacheIsSound, DestTypeOK, Conn
  <2> QED
    BY <1>1, <2>1, <2>2, <2>3, <2>4 DEF Connections
<1>2. CASE Shares
  BY <1>2 DEF Shares, connVars, destVars, setVars, CacheIsSound
<1>3. CASE Runs
  <2>0. UNCHANGED <<sourceOpen, cancelled, setVars, waiter, failures>>
    BY <1>3 DEF Runs
  <2>1. CASE RunStarts
    BY <2>0, <2>1 DEF RunStarts, connVars, destVars, setVars, CacheIsSound
  <2>2. CASE PipeExits
    BY <2>0, <2>2 DEF PipeExits, connVars, destVars, setVars, CacheIsSound
  <2>3. CASE PipeStopsNext
    BY <2>0, <2>3 DEF PipeStopsNext, connVars, destVars, setVars, CacheIsSound
  <2>4. CASE RunErr
    BY <2>0, <2>4 DEF RunErr, CloseConnections, setVars, CacheIsSound, DestTypeOK, Conn
  <2>5. CASE Reconnect
    <3>1. \A u \in URL : destMap'[u] = 0 \/ destMap'[u] = destMap[u]
      BY <2>5 DEF Reconnect, CloseConnections, DestTypeOK
    <3> QED
      BY <2>0, <2>5, <3>1 DEF Reconnect, setVars, CacheIsSound, Conn, DestTypeOK
  <2>6. CASE ReconnectConnects
    <3>1. CASE Opens(reconnectURL) /\ lock' = "run" /\ UNCHANGED destMap
      <4>1. opened' = opened + 1 /\ url' = [url EXCEPT ![opened + 1] = reconnectURL] /\ UNCHANGED autoread
        BY <3>1 DEF Opens
      <4>2. \A u \in URL : destMap[u] # 0 => destMap[u] <= opened' /\ url'[destMap[u]] = url[destMap[u]]
        BY <4>1 DEF CacheIsSound, Conn, DestTypeOK, ConnTypeOK
      <4>3. UNCHANGED <<dest, destMap, spc, newDest>>
        BY <2>0, <2>6, <3>1 DEF ReconnectConnects, setVars
      <4> QED
        BY <4>1, <4>2, <4>3 DEF CacheIsSound
    <3>2. CASE CloseConnections /\ UNCHANGED <<opened, url, autoread, key, lock>>
      <4>1. UNCHANGED <<dest, spc, newDest>> /\ \A u \in URL : destMap'[u] = 0
        BY <2>0, <2>6, <3>2 DEF ReconnectConnects, CloseConnections, setVars
      <4> QED
        BY <3>2, <4>1 DEF CacheIsSound
    <3> QED
      BY <2>6, <3>1, <3>2 DEF ReconnectConnects
  <2>7. CASE ReconnectSwaps
    <3>1. spc \notin Private /\ UNCHANGED <<spc, opened, url, autoread>>
      BY <2>0, <2>7 DEF ReconnectSwaps, setVars, PlaceTypeOK, Private, Chosen
    <3>2. \A u \in URL : destMap'[u] = 0 \/ destMap'[u] = destMap[u] \/ (u = reconnectURL /\ destMap'[u] = opened)
      BY <2>7 DEF ReconnectSwaps, CloseConnections, DestTypeOK
    <3>3. url[opened] = reconnectURL /\ opened <= opened
      BY <2>7 DEF ReconnectSwaps, ConnectionsAgree, ConnTypeOK, Conn
    <3> QED
      BY <3>1, <3>2, <3>3 DEF CacheIsSound
  <2>8. CASE RunLoops
    BY <2>0, <2>8 DEF RunLoops, connVars, destVars, setVars, CacheIsSound
  <2> QED
    BY <1>3, <2>1, <2>2, <2>3, <2>4, <2>5, <2>6, <2>7, <2>8 DEF Runs
<1>4. CASE SetBegin
  BY <1>4 DEF SetBegin, SetDest, CacheIsSound, Chosen, Private, connVars, destVars
<1>5. CASE SetGoesOn
  <2>0. UNCHANGED <<sourceOpen, exit, reconnectURL, cancelled, failures>>
    BY <1>5 DEF SetGoesOn, SetFrame
  <2>1. CASE SetConnects
    <3>1. CASE Opens(target) /\ newDest' = opened + 1
      <4>1. opened' = opened + 1 /\ url' = [url EXCEPT ![opened + 1] = target] /\ UNCHANGED <<autoread, destMap>>
        BY <2>1, <3>1 DEF SetConnects, destVars, Opens
      <4>2. opened + 1 \in Conn /\ autoread[opened + 1] = "off"
        BY <3>1, OpenTypes DEF DestTypeOK, ConnectionsAgree, ConnTypeOK, Conn
      <4>3. dest' = dest /\ dest # opened + 1
        BY <2>1 DEF SetConnects, destVars, ConnectionsAgree, ConnTypeOK, DestTypeOK, Conn
      <4>4. \A u \in URL : destMap[u] # 0 => destMap[u] <= opened' /\ url'[destMap[u]] = u
        BY <4>1, <4>2 DEF CacheIsSound, Conn, DestTypeOK, ConnTypeOK
      <4> QED
        BY <3>1, <4>1, <4>2, <4>3, <4>4 DEF CacheIsSound
    <3>2. CASE UNCHANGED <<connVars, newDest>> /\ spc' = "error"
      BY <2>1, <3>2 DEF SetConnects, connVars, destVars, CacheIsSound, Private, Chosen
    <3> QED
      BY <2>1, <3>1, <3>2 DEF SetConnects
  <2>2. CASE Wait
    BY <2>0, <2>2 DEF Wait, connVars, destVars, CacheIsSound, Chosen, Private
  <2>3. CASE SetStopsAutoread
    <3>1. UNCHANGED <<opened, url, newDest, dest>> /\ \A u \in URL : destMap'[u] = 0 \/ destMap'[u] = destMap[u]
      BY <2>3 DEF SetStopsAutoread, DestTypeOK
    <3>2. spc' \in Private => autoread[newDest] # "off" /\ autoread'[newDest] = "off"
      BY <2>3 DEF SetStopsAutoread, Private, Chosen, ConnTypeOK, DestTypeOK
    <3>3. autoread[dest] = "off"
      BY <2>3 DEF SetStopsAutoread, DestIsUnread
    <3> QED
      BY <3>1, <3>2, <3>3 DEF CacheIsSound
  <2>4. CASE SetStopsPipe
    BY <2>0, <2>4 DEF SetStopsPipe, connVars, destVars, CacheIsSound, Chosen, Private
  <2>5. CASE SetKeepsOld
    BY <2>0, <2>5 DEF SetKeepsOld, CacheIsSound, ConnectionsAgree, ConnTypeOK, DestTypeOK, PlaceTypeOK, Conn,
       Chosen, Private
  <2>6. CASE SetResends
    BY <2>0, <2>6 DEF SetResends, connVars, destVars, CacheIsSound, Chosen, Private
  <2>7. CASE SetStores
    BY <2>0, <2>7 DEF SetStores, CacheIsSound, ConnectionsAgree, DestTypeOK, Chosen, Private
  <2> QED
    BY <1>5, <2>1, <2>2, <2>3, <2>4, <2>5, <2>6, <2>7 DEF SetGoesOn
<1>6. CASE Pipe
  BY <1>6 DEF Pipe, pipeFrame, connVars, destVars, setVars, CacheIsSound
<1>7. CASE UNCHANGED vars
  BY <1>7 DEF CacheIsSound, vars, connVars, destVars, setVars
<1> QED
  BY <1>1, <1>2, <1>3, <1>4, <1>5, <1>6, <1>7 DEF Next, Set

\* The destination is not read in the background before setDest gives it up.
LEMMA DestKept ==
  ASSUME ConnTypeOK, DestTypeOK, PlaceTypeOK, ConnectionsAgree, CacheIsSound, DestIsUnread, [Next]_vars
  PROVE  DestIsUnread'
<1> USE BoundsAssumption
<1>1. CASE Connections
  <2>0. UNCHANGED <<opened, url, key, dest, destURL, onSubmit, lock, pipeVars, runVars, cancelled, setVars, shareVars>>
    BY <1>1 DEF Connections
  <2>1. CASE SourceCloses
    BY <2>0, <2>1 DEF SourceCloses, setVars, DestIsUnread
  <2>2. CASE \E k \in Conn : PoolCloses(k)
    BY <2>0, <2>2 DEF PoolCloses, setVars, DestIsUnread
  <2>3. CASE \E k \in Conn : AutoReadFails(k)
    BY <2>0, <2>3 DEF AutoReadFails, setVars, DestIsUnread
  <2>4. CASE \E k \in Conn : AutoReadCallback(k)
    BY <2>0, <2>4 DEF AutoReadCallback, setVars, DestIsUnread
  <2> QED
    BY <1>1, <2>1, <2>2, <2>3, <2>4 DEF Connections
<1>2. CASE Shares
  BY <1>2 DEF Shares, connVars, destVars, setVars, DestIsUnread
<1>3. CASE Runs
  <2>0. UNCHANGED <<sourceOpen, cancelled, setVars, waiter, failures>>
    BY <1>3 DEF Runs
  <2>1. CASE RunStarts
    BY <2>0, <2>1 DEF RunStarts, connVars, destVars, setVars, DestIsUnread
  <2>2. CASE PipeExits
    BY <2>0, <2>2 DEF PipeExits, connVars, destVars, setVars, DestIsUnread
  <2>3. CASE PipeStopsNext
    BY <2>0, <2>3 DEF PipeStopsNext, connVars, destVars, setVars, DestIsUnread
  <2>4. CASE RunErr
    BY <2>0, <2>4 DEF RunErr, setVars, DestIsUnread
  <2>5. CASE Reconnect
    BY <2>0, <2>5 DEF Reconnect, setVars, DestIsUnread
  <2>6. CASE ReconnectConnects
    BY <2>0, <2>6 DEF ReconnectConnects, Opens, setVars, DestIsUnread
  <2>7. CASE ReconnectSwaps
    BY <2>0, <2>7 DEF ReconnectSwaps, setVars, DestIsUnread, ConnectionsAgree
  <2>8. CASE RunLoops
    BY <2>0, <2>8 DEF RunLoops, connVars, destVars, setVars, DestIsUnread
  <2> QED
    BY <1>3, <2>1, <2>2, <2>3, <2>4, <2>5, <2>6, <2>7, <2>8 DEF Runs
<1>4. CASE SetBegin
  BY <1>4 DEF SetBegin, SetDest, DestIsUnread, connVars, destVars
<1>5. CASE SetGoesOn
  <2>0. UNCHANGED <<sourceOpen, exit, reconnectURL, cancelled, failures>>
    BY <1>5 DEF SetGoesOn, SetFrame
  <2>1. CASE SetConnects
    BY <2>0, <2>1 DEF SetConnects, Opens, destVars, DestIsUnread
  <2>2. CASE Wait
    BY <2>0, <2>2 DEF Wait, connVars, destVars, DestIsUnread
  <2>3. CASE SetStopsAutoread
    BY <2>0, <2>3 DEF SetStopsAutoread, ConnTypeOK, DestTypeOK, DestIsUnread
  <2>4. CASE SetStopsPipe
    BY <2>0, <2>4 DEF SetStopsPipe, connVars, destVars, DestIsUnread
  <2>5. CASE SetKeepsOld
    BY <2>0, <2>5 DEF SetKeepsOld, DestIsUnread
  <2>6. CASE SetResends
    BY <2>0, <2>6 DEF SetResends, DestIsUnread
  <2>7. CASE SetStores
    BY <2>0, <2>7 DEF SetStores, Store, DestIsUnread, CacheIsSound, Chosen, Private
  <2> QED
    BY <1>5, <2>1, <2>2, <2>3, <2>4, <2>5, <2>6, <2>7 DEF SetGoesOn
<1>6. CASE Pipe
  BY <1>6 DEF Pipe, pipeFrame, connVars, destVars, setVars, DestIsUnread
<1>7. CASE UNCHANGED vars
  BY <1>7 DEF DestIsUnread, vars, connVars, destVars, setVars
<1> QED
  BY <1>1, <1>2, <1>3, <1>4, <1>5, <1>6, <1>7 DEF Next, Set

--------------------------------------------------------------------------------
\* The pipe, the miner and the callback

\* The tasks stay sound.
LEMMA TaskKept ==
  ASSUME PlaceTypeOK, PipeTypeOK, TasksAreSound, [Next]_vars
  PROVE  TasksAreSound'
<1>1. CASE Connections
  BY <1>1 DEF Connections, pipeVars, runVars, setVars, TasksAreSound
<1>2. CASE Shares
  BY <1>2 DEF Shares, pipeVars, runVars, setVars, TasksAreSound
<1>3. CASE Runs
  <2>0. UNCHANGED <<sourceOpen, cancelled, setVars, waiter, failures>>
    BY <1>3 DEF Runs
  <2>1. CASE RunStarts
    BY <2>0, <2>1 DEF RunStarts, RunGoes, StartBoth, TasksAreSound, SoundTask, PipeTypeOK, TaskTypeOK,
       TaskState, Started
  <2>2. CASE PipeExits
    BY <2>0, <2>2 DEF PipeExits, RunGoes, StopDir, TasksAreSound, SoundTask, PipeTypeOK, TaskTypeOK,
       TaskState, StopSent
  <2>3. CASE PipeStopsNext
    BY <2>0, <2>3 DEF PipeStopsNext, RunGoes, StopDir, TasksAreSound, SoundTask, StopSent
  <2>4. CASE RunErr
    BY <2>0, <2>4 DEF RunErr, RunGoes, pipeVars, TasksAreSound
  <2>5. CASE Reconnect
    BY <2>0, <2>5 DEF Reconnect, RunGoes, pipeVars, TasksAreSound
  <2>6. CASE ReconnectConnects
    BY <2>0, <2>6 DEF ReconnectConnects, RunGoes, pipeVars, TasksAreSound
  <2>7. CASE ReconnectSwaps
    <3>1. CASE sourceOpen
      <4>1. rpc' = "loop" /\ \A d \in Dir : task'[d] = Started(task[d])
        BY <2>7, <3>1 DEF ReconnectSwaps, RunGoes, StartBoth
      <4> QED
        BY <4>1, StartFacts DEF TasksAreSound, PipeTypeOK, TaskTypeOK
    <3>2. CASE ~ sourceOpen
      BY <2>0, <2>7, <3>2 DEF ReconnectSwaps, RunGoes, pipeVars, TasksAreSound
    <3> QED
      BY <3>1, <3>2
  <2>8. CASE RunLoops
    BY <2>0, <2>8 DEF RunLoops, RunGoes, StartBoth, TasksAreSound, SoundTask, PipeTypeOK, TaskTypeOK,
       TaskState, Started
  <2> QED
    BY <1>3, <2>1, <2>2, <2>3, <2>4, <2>5, <2>6, <2>7, <2>8 DEF Runs
<1>4. CASE SetBegin
  BY <1>4 DEF SetBegin, SetDest, TasksAreSound, pipeVars
<1>5. CASE SetGoesOn
  <2>0. UNCHANGED <<sourceOpen, exit, reconnectURL, cancelled, failures>>
    BY <1>5 DEF SetGoesOn, SetFrame
  <2>1. CASE SetConnects
    BY <2>0, <2>1 DEF SetConnects, pipeVars, TasksAreSound
  <2>2. CASE Wait
    BY <2>0, <2>2 DEF Wait, pipeVars, TasksAreSound
  <2>3. CASE SetStopsAutoread
    BY <2>0, <2>3 DEF SetStopsAutoread, pipeVars, TasksAreSound
  <2>4. CASE SetStopsPipe
    BY <2>0, <2>4 DEF SetStopsPipe, StopDir, TasksAreSound, SoundTask, PipeTypeOK, TaskTypeOK, TaskState,
       StopSent
  <2>5. CASE SetKeepsOld
    BY <2>0, <2>5 DEF SetKeepsOld, pipeVars, TasksAreSound
  <2>6. CASE SetResends
    BY <2>0, <2>6 DEF SetResends, TasksAreSound
  <2>7. CASE SetStores
    BY <2>0, <2>7 DEF SetStores, StartBoth, TasksAreSound, SoundTask, Dir, Started
  <2> QED
    BY <1>5, <2>1, <2>2, <2>3, <2>4, <2>5, <2>6, <2>7 DEF SetGoesOn
<1>6. CASE Pipe
  <2>0. UNCHANGED <<rpc, spc>>
    BY <1>6 DEF Pipe, pipeFrame, runVars, setVars
  <2>1. CASE Forward
    BY <2>0, <2>1 DEF Forward, TasksAreSound
  <2>2. ASSUME NEW d \in Dir, TaskStops(d) PROVE TasksAreSound'
    BY <2>0, <2>2 DEF TaskStops, Running, EndedByStop, TasksAreSound, SoundTask
  <2>3. ASSUME NEW d \in Dir, TaskFails(d) PROVE TasksAreSound'
    <3>1. PICK e \in Err : task' = [task EXCEPT ![d] = EndedWith(@, e)]
      BY <2>3 DEF TaskFails, Err
    <3> QED
      BY <2>0, <2>3, <3>1 DEF TaskFails, Running, EndedWith, TasksAreSound, SoundTask
  <2>4. ASSUME NEW d \in Dir, TaskLeaves(d) PROVE TasksAreSound'
    BY <2>0, <2>4 DEF TaskLeaves, Left, TasksAreSound, SoundTask
  <2> QED
    BY <1>6, <2>1, <2>2, <2>3, <2>4 DEF Pipe
<1>7. CASE UNCHANGED vars
  BY <1>7 DEF TasksAreSound, vars, pipeVars, runVars, setVars
<1> QED
  BY <1>1, <1>2, <1>3, <1>4, <1>5, <1>6, <1>7 DEF Next, Set

\* Only setDest changes the destination, and it has stopped the pipe by then.
LEMMA PipeKept ==
  ASSUME ConnTypeOK, DestTypeOK, PlaceTypeOK, PipeTypeOK, ConnectionsAgree, DestIsUnread, TasksAreSound,
         PipeFollowsDest, [Next]_vars
  PROVE  PipeFollowsDest'
<1>1. CASE Connections
  <2>0. UNCHANGED <<opened, url, key, dest, destURL, onSubmit, lock, pipeVars, runVars, cancelled, setVars, shareVars>>
    BY <1>1 DEF Connections
  <2>1. CASE SourceCloses
    BY <2>0, <2>1 DEF SourceCloses, pipeVars, runVars, setVars, PipeFollowsDest, Regular, Running
  <2>2. CASE \E k \in Conn : PoolCloses(k)
    BY <2>0, <2>2 DEF PoolCloses, pipeVars, runVars, setVars, PipeFollowsDest, Regular, Running
  <2>3. CASE \E k \in Conn : AutoReadFails(k)
    BY <2>0, <2>3 DEF AutoReadFails, pipeVars, runVars, setVars, PipeFollowsDest, Regular, Running
  <2>4. CASE \E k \in Conn : AutoReadCallback(k)
    BY <2>0, <2>4 DEF AutoReadCallback, pipeVars, runVars, setVars, PipeFollowsDest, Regular, Running
  <2> QED
    BY <1>1, <2>1, <2>2, <2>3, <2>4 DEF Connections
<1>2. CASE Shares
  BY <1>2 DEF Shares, ShareAnswered, ShareFails, Submit, Running, connVars, destVars, pipeVars, runVars,
     setVars, PipeFollowsDest, Regular
<1>3. CASE Runs
  <2>0. UNCHANGED <<sourceOpen, cancelled, setVars, waiter, failures>>
    BY <1>3 DEF Runs
  <2>1. CASE RunStarts
    BY <2>0, <2>1 DEF RunStarts, RunGoes, StartBoth, destVars, setVars, PipeFollowsDest, Regular,
       TasksAreSound, SoundTask, Dir, Started
  <2>2. CASE PipeExits
    BY <2>0, <2>2 DEF PipeExits, RunGoes, StopDir, connVars, destVars, setVars, PipeFollowsDest, Regular,
       PipeTypeOK, TaskTypeOK, TaskState, Dir, StopSent, Running
  <2>3. CASE PipeStopsNext
    BY <2>0, <2>3 DEF PipeStopsNext, RunGoes, StopDir, connVars, destVars, setVars, PipeFollowsDest, Regular,
       StopSent, Running
  <2>4. CASE RunErr
    BY <2>0, <2>4 DEF RunErr, RunGoes, pipeVars, setVars, PipeFollowsDest, Regular, Running
  <2>5. CASE Reconnect
    BY <2>0, <2>5 DEF Reconnect, RunGoes, pipeVars, setVars, PipeFollowsDest, Regular, Running
  <2>6. CASE ReconnectConnects
    BY <2>0, <2>6 DEF ReconnectConnects, RunGoes, Opens, pipeVars, setVars, PipeFollowsDest, Regular, Running
  <2>7. CASE ReconnectSwaps
    BY <2>0, <2>7 DEF ReconnectSwaps, RunGoes, StartBoth, pipeVars, setVars, PipeFollowsDest, Regular, Running
  <2>8. CASE RunLoops
    BY <2>0, <2>8 DEF RunLoops, StartBoth, PipeFollowsDest, Regular
  <2> QED
    BY <1>3, <2>1, <2>2, <2>3, <2>4, <2>5, <2>6, <2>7, <2>8 DEF Runs
<1>4. CASE SetBegin
  BY <1>4 DEF SetBegin, SetDest, PipeFollowsDest, Regular, Running, destVars, pipeVars
<1>5. CASE SetGoesOn
  <2>0. UNCHANGED <<sourceOpen, exit, reconnectURL, cancelled, failures>>
    BY <1>5 DEF SetGoesOn, SetFrame
  <2>1. CASE SetConnects
    BY <2>0, <2>1 DEF SetConnects, connVars, destVars, pipeVars, PipeFollowsDest, Regular, DestIsUnread,
       Running
  <2>2. CASE Wait
    BY <2>0, <2>2 DEF Wait, destVars, pipeVars, PipeFollowsDest, Regular, Running
  <2>3. CASE SetStopsAutoread
    BY <2>0, <2>3 DEF SetStopsAutoread, pipeVars, PipeFollowsDest, Regular, DestIsUnread, Running
  <2>4. CASE SetStopsPipe
    BY <2>0, <2>4 DEF SetStopsPipe, StopDir, destVars, PipeFollowsDest, Regular, PipeTypeOK, TaskTypeOK,
       TaskState, Dir, StopSent, Running, HasStopped
  <2>5. CASE SetKeepsOld
    BY <2>0, <2>5 DEF SetKeepsOld, pipeVars, PipeFollowsDest, Regular, Running
  <2>6. CASE SetResends
    BY <2>0, <2>6 DEF SetResends, destVars, PipeFollowsDest, Regular, Running
  <2>7. CASE SetStores
    BY <2>0, <2>7 DEF SetStores, Store, StartBoth, PipeFollowsDest, Regular, Dir, Running
  <2> QED
    BY <1>5, <2>1, <2>2, <2>3, <2>4, <2>5, <2>6, <2>7 DEF SetGoesOn
<1>6. CASE Pipe
  <2>0. UNCHANGED pipeFrame
    BY <1>6 DEF Pipe
  <2>1. CASE Forward
    BY <2>0, <2>1 DEF Forward, pipeFrame, connVars, destVars, runVars, setVars, PipeFollowsDest, Regular
  <2>2. CASE \E d \in Dir : TaskStops(d)
    BY <2>0, <2>2 DEF TaskStops, pipeFrame, connVars, destVars, runVars, setVars, PipeFollowsDest, Regular,
       Running
  <2>3. CASE \E d \in Dir : TaskFails(d)
    BY <2>0, <2>3 DEF TaskFails, pipeFrame, connVars, destVars, runVars, setVars, PipeFollowsDest, Regular,
       PipeTypeOK, TaskTypeOK, Dir, Running
  <2>4. CASE \E d \in Dir : TaskLeaves(d)
    BY <2>0, <2>4 DEF TaskLeaves, pipeFrame, connVars, destVars, runVars, setVars, PipeFollowsDest, Regular,
       Left, Running
  <2> QED
    BY <1>6, <2>1, <2>2, <2>3, <2>4 DEF Pipe
<1>7. CASE UNCHANGED vars
  BY <1>7 DEF PipeFollowsDest, Regular, Running, vars, connVars, destVars, pipeVars, runVars, setVars
<1> QED
  BY <1>1, <1>2, <1>3, <1>4, <1>5, <1>6, <1>7 DEF Next, Set

\* The miner is told of the new destination between the stop and the start.
LEMMA MinerKept ==
  ASSUME ConnTypeOK, DestTypeOK, PlaceTypeOK, PipeTypeOK, RestTypeOK, ConnectionsAgree, PipeFollowsDest,
         MinerFollowsDest, [Next]_vars
  PROVE  MinerFollowsDest'
<1>1. CASE Connections
  BY <1>1 DEF Connections, SourceCloses, PoolCloses, AutoReadFails, AutoReadCallback, pipeVars, setVars,
     MinerFollowsDest, Regular
<1>2. CASE Shares
  BY <1>2 DEF Shares, ShareAnswered, ShareFails, Submit, destVars, pipeVars, setVars, MinerFollowsDest,
     Regular
<1>3. CASE Runs
  <2>0. UNCHANGED <<sourceOpen, cancelled, setVars, waiter, failures>>
    BY <1>3 DEF Runs
  <2>1. CASE RunStarts
    BY <2>0, <2>1 DEF RunStarts, StartBoth, destVars, setVars, MinerFollowsDest, Regular
  <2>2. CASE PipeExits
    BY <2>0, <2>2 DEF PipeExits, destVars, setVars, MinerFollowsDest, Regular
  <2>3. CASE PipeStopsNext
    BY <2>0, <2>3 DEF PipeStopsNext, destVars, setVars, MinerFollowsDest, Regular
  <2>4. CASE RunErr
    BY <2>0, <2>4 DEF RunErr, pipeVars, setVars, MinerFollowsDest, Regular
  <2>5. CASE Reconnect
    BY <2>0, <2>5 DEF Reconnect, pipeVars, setVars, MinerFollowsDest, Regular
  <2>6. CASE ReconnectConnects
    BY <2>0, <2>6 DEF ReconnectConnects, pipeVars, setVars, MinerFollowsDest, Regular
  <2>7. CASE ReconnectSwaps
    BY <2>0, <2>7 DEF ReconnectSwaps, StartBoth, MinerFollowsDest, Regular
  <2>8. CASE RunLoops
    BY <2>0, <2>8 DEF RunLoops, StartBoth, destVars, setVars, MinerFollowsDest, Regular
  <2> QED
    BY <1>3, <2>1, <2>2, <2>3, <2>4, <2>5, <2>6, <2>7, <2>8 DEF Runs
<1>4. CASE SetBegin
  BY <1>4 DEF SetBegin, SetDest, SetFrame, MinerFollowsDest, Regular, destVars, pipeVars
<1>5. CASE SetGoesOn
  <2>0. UNCHANGED <<sourceOpen, exit, reconnectURL, cancelled, failures>>
    BY <1>5 DEF SetGoesOn, SetFrame
  <2>1. CASE SetConnects
    BY <2>0, <2>1 DEF SetConnects, destVars, pipeVars, MinerFollowsDest, Regular
  <2>2. CASE Wait
    BY <2>0, <2>2 DEF Wait, destVars, pipeVars, MinerFollowsDest, Regular
  <2>3. CASE SetStopsAutoread
    BY <2>0, <2>3 DEF SetStopsAutoread, pipeVars, MinerFollowsDest, Regular
  <2>4. CASE SetStopsPipe
    BY <2>0, <2>4 DEF SetStopsPipe, destVars, MinerFollowsDest, Regular
  <2>5. CASE SetKeepsOld
    BY <2>0, <2>5 DEF SetKeepsOld, pipeVars, MinerFollowsDest, Regular
  <2>6. CASE SetResends
    BY <2>0, <2>6 DEF SetResends, MinerFollowsDest
  <2>7. CASE SetStores
    BY <2>0, <2>7 DEF SetStores, Store, StartBoth, MinerFollowsDest, Regular
  <2> QED
    BY <1>5, <2>1, <2>2, <2>3, <2>4, <2>5, <2>6, <2>7 DEF SetGoesOn
<1>6. CASE Pipe
  <2>0. UNCHANGED pipeFrame
    BY <1>6 DEF Pipe
  <2>1. CASE Forward
    BY <2>0, <2>1 DEF Forward, pipeFrame, destVars, setVars, MinerFollowsDest, PipeFollowsDest, Regular
  <2>2. CASE \E d \in Dir : TaskStops(d)
    BY <2>0, <2>2 DEF TaskStops, pipeFrame, destVars, setVars, MinerFollowsDest, Regular
  <2>3. CASE \E d \in Dir : TaskFails(d)
    BY <2>0, <2>3 DEF TaskFails, pipeFrame, destVars, setVars, MinerFollowsDest, Regular
  <2>4. CASE \E d \in Dir : TaskLeaves(d)
    BY <2>0, <2>4 DEF TaskLeaves, pipeFrame, destVars, setVars, MinerFollowsDest, Regular
  <2> QED
    BY <1>6, <2>1, <2>2, <2>3, <2>4 DEF Pipe
<1>7. CASE UNCHANGED vars
  BY <1>7 DEF MinerFollowsDest, Regular, vars, destVars, pipeVars, setVars
<1> QED
  BY <1>1, <1>2, <1>3, <1>4, <1>5, <1>6, <1>7 DEF Next, Set

\* The destination, its address and the callback are stored together.
LEMMA CallbackKept ==
  ASSUME ConnTypeOK, DestTypeOK, PlaceTypeOK, ConnectionsAgree, CallbackFollowsDest, [Next]_vars
  PROVE  CallbackFollowsDest'
<1> USE BoundsAssumption
<1>1. CASE Connections
  BY <1>1 DEF Connections, SourceCloses, PoolCloses, AutoReadFails, AutoReadCallback, CallbackFollowsDest,
     Regular
<1>2. CASE Shares
  BY <1>2 DEF Shares, ShareAnswered, ShareFails, Submit, connVars, destVars, CallbackFollowsDest, Regular
<1>3. CASE Runs
  <2>0. UNCHANGED <<sourceOpen, cancelled, setVars, waiter, failures>>
    BY <1>3 DEF Runs
  <2>1. CASE RunStarts
    BY <2>0, <2>1 DEF RunStarts, StartBoth, connVars, destVars, CallbackFollowsDest, Regular
  <2>2. CASE PipeExits
    BY <2>0, <2>2 DEF PipeExits, connVars, destVars, CallbackFollowsDest, Regular
  <2>3. CASE PipeStopsNext
    BY <2>0, <2>3 DEF PipeStopsNext, connVars, destVars, CallbackFollowsDest, Regular
  <2>4. CASE RunErr
    BY <2>0, <2>4 DEF RunErr, CallbackFollowsDest, Regular
  <2>5. CASE Reconnect
    BY <2>0, <2>5 DEF Reconnect, CallbackFollowsDest, Regular
  <2>6. CASE ReconnectConnects
    <3>1. UNCHANGED <<dest, destURL, onSubmit, happened>>
      BY <2>6 DEF ReconnectConnects
    <3>2. url'[dest] = url[dest]
      BY <2>6 DEF ReconnectConnects, Opens, ConnectionsAgree, ConnTypeOK, DestTypeOK, Conn
    <3> QED
      BY <3>1, <3>2 DEF CallbackFollowsDest, Regular
  <2>7. CASE ReconnectSwaps
    BY <2>0, <2>7 DEF ReconnectSwaps, StartBoth, CallbackFollowsDest, Regular
  <2>8. CASE RunLoops
    BY <2>0, <2>8 DEF RunLoops, StartBoth, connVars, destVars, CallbackFollowsDest, Regular
  <2> QED
    BY <1>3, <2>1, <2>2, <2>3, <2>4, <2>5, <2>6, <2>7, <2>8 DEF Runs
<1>4. CASE SetBegin
  BY <1>4 DEF SetBegin, SetDest, CallbackFollowsDest, Regular, connVars, destVars
<1>5. CASE SetGoesOn
  <2>0. UNCHANGED <<sourceOpen, exit, reconnectURL, cancelled, failures>>
    BY <1>5 DEF SetGoesOn, SetFrame
  <2>1. CASE SetConnects
    <3>1. UNCHANGED <<dest, destURL, onSubmit, happened>>
      BY <2>1 DEF SetConnects, destVars
    <3>2. url'[dest] = url[dest]
      BY <2>1 DEF SetConnects, connVars, Opens, ConnectionsAgree, ConnTypeOK, DestTypeOK, Conn
    <3> QED
      BY <3>1, <3>2 DEF CallbackFollowsDest, Regular
  <2>2. CASE Wait
    BY <2>0, <2>2 DEF Wait, connVars, destVars, CallbackFollowsDest, Regular
  <2>3. CASE SetStopsAutoread
    BY <2>0, <2>3 DEF SetStopsAutoread, CallbackFollowsDest, Regular
  <2>4. CASE SetStopsPipe
    BY <2>0, <2>4 DEF SetStopsPipe, connVars, destVars, CallbackFollowsDest, Regular
  <2>5. CASE SetKeepsOld
    BY <2>0, <2>5 DEF SetKeepsOld, CallbackFollowsDest, Regular
  <2>6. CASE SetResends
    BY <2>0, <2>6 DEF SetResends, connVars, destVars, CallbackFollowsDest, Regular
  <2>7. CASE SetStores
    BY <2>0, <2>7 DEF SetStores, Store, CallbackFollowsDest, ConnectionsAgree, Chosen, DestTypeOK, Conn
  <2> QED
    BY <1>5, <2>1, <2>2, <2>3, <2>4, <2>5, <2>6, <2>7 DEF SetGoesOn
<1>6. CASE Pipe
  BY <1>6 DEF Pipe, Forward, TaskStops, TaskFails, TaskLeaves, pipeFrame, connVars, destVars,
     CallbackFollowsDest, Regular
<1>7. CASE UNCHANGED vars
  BY <1>7 DEF CallbackFollowsDest, Regular, vars, connVars, destVars
<1> QED
  BY <1>1, <1>2, <1>3, <1>4, <1>5, <1>6, <1>7 DEF Next, Set

\* Outside of setDest only the end of the pipe stops a direction.
LEMMA RunsKept ==
  ASSUME PlaceTypeOK, PipeTypeOK, RestTypeOK, TasksAreSound, PipeFollowsDest, PipeRuns, [Next]_vars
  PROVE  PipeRuns'
<1>1. CASE Connections
  BY <1>1 DEF Connections, SourceCloses, PoolCloses, AutoReadFails, AutoReadCallback, pipeVars, runVars,
     setVars, PipeRuns, Regular, Running
<1>2. CASE Shares
  BY <1>2 DEF Shares, ShareAnswered, ShareFails, Submit, Running, pipeVars, runVars, setVars, PipeRuns,
     Regular
<1>3. CASE Runs
  <2>0. UNCHANGED <<sourceOpen, cancelled, setVars, waiter, failures>>
    BY <1>3 DEF Runs
  <2>1. CASE RunStarts
    BY <2>0, <2>1 DEF RunStarts, StartBoth, setVars, PipeRuns, TasksAreSound, SoundTask, PipeTypeOK,
       TaskTypeOK, TaskState, Started, Running
  <2>2. CASE PipeExits
    BY <2>0, <2>2 DEF PipeExits, RunGoes, PipeRuns
  <2>3. CASE PipeStopsNext
    BY <2>0, <2>3 DEF PipeStopsNext, RunGoes, PipeRuns
  <2>4. CASE RunErr
    BY <2>0, <2>4 DEF RunErr, RunGoes, PipeRuns
  <2>5. CASE Reconnect
    BY <2>0, <2>5 DEF Reconnect, RunGoes, PipeRuns
  <2>6. CASE ReconnectConnects
    BY <2>0, <2>6 DEF ReconnectConnects, RunGoes, PipeRuns
  <2>7. CASE ReconnectSwaps
    BY <2>0, <2>7 DEF ReconnectSwaps, RunGoes, PipeRuns
  <2>8. CASE RunLoops
    BY <2>0, <2>8 DEF RunLoops, StartBoth, PipeRuns, Regular, PipeFollowsDest
  <2> QED
    BY <1>3, <2>1, <2>2, <2>3, <2>4, <2>5, <2>6, <2>7, <2>8 DEF Runs
<1>4. CASE SetBegin
  BY <1>4 DEF SetBegin, SetDest, PipeRuns, Regular, Before, Running, pipeVars
<1>5. CASE SetGoesOn
  <2>0. UNCHANGED <<sourceOpen, exit, reconnectURL, cancelled, failures>>
    BY <1>5 DEF SetGoesOn, SetFrame
  <2>1. CASE SetConnects
    BY <2>0, <2>1 DEF SetConnects, pipeVars, PipeRuns, Regular, Before, Running
  <2>2. CASE Wait
    BY <2>0, <2>2 DEF Wait, pipeVars, PipeRuns, Regular, Before, Running
  <2>3. CASE SetStopsAutoread
    BY <2>0, <2>3 DEF SetStopsAutoread, pipeVars, PipeRuns, Regular, Before, Running
  <2>4. CASE SetStopsPipe
    BY <2>0, <2>4 DEF SetStopsPipe, StopDir, PipeRuns, Regular, Before, PipeTypeOK, TaskTypeOK, Dir, Running
  <2>5. CASE SetKeepsOld
    BY <2>0, <2>5 DEF SetKeepsOld, PipeRuns, Before
  <2>6. CASE SetResends
    BY <2>0, <2>6 DEF SetResends, PipeRuns, Before
  <2>7. CASE SetStores
    BY <2>0, <2>7 DEF SetStores, StartBoth, PipeRuns, Regular, PipeFollowsDest, TasksAreSound, SoundTask,
       PipeTypeOK, TaskTypeOK, TaskState, Phase, Dir, Started, Running
  <2> QED
    BY <1>5, <2>1, <2>2, <2>3, <2>4, <2>5, <2>6, <2>7 DEF SetGoesOn
<1>6. CASE Pipe
  <2>0. UNCHANGED pipeFrame
    BY <1>6 DEF Pipe
  <2>1. CASE Forward
    BY <2>0, <2>1 DEF Forward, pipeFrame, runVars, setVars, PipeRuns, Regular, Running
  <2>2. CASE \E d \in Dir : TaskStops(d)
    BY <2>0, <2>2 DEF TaskStops, pipeFrame, runVars, setVars, PipeRuns, Regular, TasksAreSound, SoundTask,
       Running
  <2>3. CASE \E d \in Dir : TaskFails(d)
    <3>1. PICK d \in Dir, e \in Err : task' = [task EXCEPT ![d] = EndedWith(@, e)]
      BY <2>3 DEF TaskFails, Err
    <3>2. task'[d].isDone /\ \A k \in Dir : k # d => task'[k] = task[k]
      BY <3>1 DEF EndedWith, PipeTypeOK, TaskTypeOK
    <3>3. UNCHANGED <<rpc, spc, happened>>
      BY <2>0, <2>3 DEF TaskFails, pipeFrame, runVars, setVars
    <3> QED
      BY <3>2, <3>3 DEF PipeRuns, Regular, Running, Dir
  <2>4. CASE \E d \in Dir : TaskLeaves(d)
    BY <2>0, <2>4 DEF TaskLeaves, pipeFrame, runVars, setVars, PipeRuns, Regular, TasksAreSound, SoundTask,
       Running
  <2> QED
    BY <1>6, <2>1, <2>2, <2>3, <2>4 DEF Pipe
<1>7. CASE UNCHANGED vars
  BY <1>7 DEF PipeRuns, Regular, Running, vars, pipeVars, runVars, setVars
<1> QED
  BY <1>1, <1>2, <1>3, <1>4, <1>5, <1>6, <1>7 DEF Next, Set

--------------------------------------------------------------------------------
\* Cancellation and the size of the cache

\* A failure is counted.
LEMMA FailureIsLoud ==
  ASSUME FailuresTypeOK, Fails
  PROVE  ~ Quiet'
  BY BoundsAssumption DEF FailuresTypeOK, Fails, Quiet

\* Nothing ends by itself as long as nothing failed and no share was late.
LEMMA QuietKept ==
  ASSUME ConnTypeOK, DestTypeOK, PlaceTypeOK, FailuresTypeOK, PipeTypeOK, RestTypeOK, ConnectionsAgree,
         CacheIsSound, SmallCache,
         DestIsUnread, TasksAreSound, PipeFollowsDest, NothingFailed, [Next]_vars
  PROVE  NothingFailed'
<1>1. CASE Connections
  <2>0. UNCHANGED <<opened, url, key, dest, destURL, onSubmit, lock, pipeVars, runVars, cancelled, setVars, shareVars>>
    BY <1>1 DEF Connections
  <2>1. CASE SourceCloses
    BY <2>1, FailureIsLoud DEF SourceCloses, NothingFailed
  <2>2. CASE \E k \in Conn : PoolCloses(k)
    BY <2>2, FailureIsLoud DEF PoolCloses, NothingFailed
  <2>3. CASE \E k \in Conn : AutoReadFails(k)
    BY <2>0, <2>3 DEF AutoReadFails, pipeVars, runVars, setVars, shareVars, NothingFailed, Quiet, Regular,
       Running, WaitOver
  <2>4. CASE \E k \in Conn : AutoReadCallback(k)
    BY <2>0, <2>4 DEF AutoReadCallback, pipeVars, runVars, setVars, shareVars, NothingFailed, Quiet, Regular,
       Running, WaitOver
  <2> QED
    BY <1>1, <2>1, <2>2, <2>3, <2>4 DEF Connections
<1>2. CASE Shares
  <2>0. UNCHANGED <<connVars, sourceOpen, destVars, lock, pipeVars, runVars, setVars>>
    BY <1>2 DEF Shares
  <2>1. CASE \E i \in Share : ShareAnswered(i)
    BY <2>0, <2>1 DEF ShareAnswered, Done, connVars, destVars, pipeVars, runVars, setVars, NothingFailed, Quiet,
       Regular, Running, WaitOver
  <2>2. CASE \E i \in Share : ShareFails(i)
    <3>1. PICK i \in Share : ShareFails(i)
      BY <2>2
    <3>2. CASE Fails
      BY <3>2, FailureIsLoud DEF NothingFailed
    <3>3. CASE ~ Fails
      <4>1. share[i] = "cut" \/ (share[i] = "sent" /\ ~ (sourceOpen /\ open[dest]))
        BY <3>1, <3>3 DEF ShareFails
      <4>2. ~ Quiet
        BY <4>1 DEF NothingFailed
      <4>3. failures' = failures /\ happened' = happened
        BY <3>1, <3>3 DEF ShareFails
      <4> QED
        BY <4>2, <4>3 DEF NothingFailed, Quiet
    <3> QED
      BY <3>2, <3>3
  <2>3. CASE \E i \in Share : Submit(i)
    <3>1. PICK i \in Share : Submit(i)
      BY <2>3
    <3>2. CASE Fails
      BY <3>2, FailureIsLoud DEF NothingFailed
    <3>3. CASE ~ Fails
      <4>1. /\ share' = [share EXCEPT ![i] = IF task["s2d"].stopped THEN "cut" ELSE "sent"]
            /\ happened' = happened \cup {"late" : x \in {y \in {spc} : WaitOver}}
            /\ UNCHANGED <<cancelled, failures>> /\ Running("s2d")
        BY <3>1, <3>3 DEF Submit
      <4>2. CASE WaitOver
        <5>1. "late" \in happened'
          BY <4>1, <4>2
        <5> QED
          BY <5>1 DEF NothingFailed, Quiet
      <4>3. CASE ~ WaitOver
        <5>1. happened' = happened
          BY <4>1, <4>3
        <5>2. SUFFICES ASSUME Quiet PROVE NothingFailed'
          BY <4>1, <5>1 DEF NothingFailed, Quiet
        <5>3. ~ task["s2d"].stopped
          BY <4>1, <4>3, <5>2 DEF NothingFailed, WaitOver
        <5>4. \A j \in Share : share'[j] = share[j] \/ share'[j] = "sent"
          BY <4>1, <5>3
        <5>5. UNCHANGED <<task, rpc, dest, open, destMap, spc, newDest>>
          BY <2>0 DEF connVars, destVars, pipeVars, runVars, setVars
        <5> QED
          BY <2>0, <4>1, <4>3, <5>1, <5>2, <5>4, <5>5 DEF NothingFailed, Regular, WaitOver
      <4> QED
        BY <4>2, <4>3
    <3> QED
      BY <3>2, <3>3
  <2> QED
    BY <1>2, <2>1, <2>2, <2>3 DEF Shares
<1>3. CASE Runs
  <2>0. UNCHANGED <<sourceOpen, cancelled, setVars, waiter, failures>>
    BY <1>3 DEF Runs
  <2>1. CASE RunStarts
    BY <2>0, <2>1 DEF RunStarts, RunGoes, StartBoth, connVars, destVars, setVars, NothingFailed, Quiet,
       Regular, WaitOver, TasksAreSound, SoundTask, Dir, Started
  <2>2. CASE PipeExits
    BY <2>0, <2>2 DEF PipeExits, NothingFailed, Quiet, Dir
  <2>3. CASE PipeStopsNext
    BY <2>0, <2>3 DEF PipeStopsNext, NothingFailed, Quiet
  <2>4. CASE RunErr
    BY <2>0, <2>4 DEF RunErr, NothingFailed, Quiet
  <2>5. CASE Reconnect
    BY <2>0, <2>5 DEF Reconnect, NothingFailed, Quiet
  <2>6. CASE ReconnectConnects
    BY <2>0, <2>6 DEF ReconnectConnects, NothingFailed, Quiet
  <2>7. CASE ReconnectSwaps
    BY <2>0, <2>7 DEF ReconnectSwaps, StartBoth, NothingFailed, Quiet
  <2>8. CASE RunLoops
    BY <2>0, <2>8 DEF RunLoops, StartBoth, NothingFailed, Quiet
  <2> QED
    BY <1>3, <2>1, <2>2, <2>3, <2>4, <2>5, <2>6, <2>7, <2>8 DEF Runs
<1>4. CASE SetBegin
  BY <1>4 DEF SetBegin, SetDest, SetFrame, NothingFailed, Quiet, Regular, WaitOver, Chosen, Running, connVars,
     destVars, pipeVars
<1>5. CASE SetGoesOn
  <2>0. UNCHANGED <<sourceOpen, exit, reconnectURL, cancelled, failures>>
    BY <1>5 DEF SetGoesOn, SetFrame
  <2>1. CASE SetConnects
    <3>1. CASE Opens(target) /\ newDest' = opened + 1 /\ spc' = "wait"
      <4>1. opened + 1 \in Conn /\ open' = [open EXCEPT ![opened + 1] = TRUE]
        BY <3>1, OpenTypes DEF Opens, DestTypeOK
      <4>2. /\ UNCHANGED <<failures, happened, sourceOpen, cancelled, rpc, task, share, dest, destMap>>
            /\ ~ WaitOver'
        BY <2>0, <2>1, <3>1 DEF SetConnects, pipeVars, destVars, WaitOver
      <4>3. open'[newDest'] /\ \A k \in Conn : open[k] => open'[k]
        BY <3>1, <4>1 DEF ConnTypeOK
      <4>4. \A u \in URL : destMap[u] # 0 => destMap[u] \in Conn
        BY DEF Conn, DestTypeOK
      <4> QED
        BY <2>1, <3>1, <4>2, <4>3, <4>4 DEF SetConnects, NothingFailed, Quiet, Regular, Running, DestTypeOK
    <3>2. CASE UNCHANGED <<connVars, newDest>> /\ spc' = "error"
      BY <2>0, <2>1, <3>2 DEF SetConnects, connVars, destVars, pipeVars, NothingFailed, Quiet, Regular,
         Running, WaitOver, Chosen
    <3> QED
      BY <2>1, <3>1, <3>2 DEF SetConnects
  <2>2. CASE Wait
    <3>1. spc' = spc \/ \A i \in Share : share[i] # "sent"
      BY <2>2 DEF Wait, Unanswered
    <3>2. UNCHANGED <<failures, happened, sourceOpen, cancelled, rpc, task, share, dest, destMap, newDest, open>>
      BY <2>0, <2>2 DEF Wait, pipeVars, destVars, connVars
    <3>3. spc \in Chosen /\ spc' # "waitS2D" /\ spc # "waitS2D"
      BY <2>2 DEF Wait, Chosen
    <3> QED
      BY <3>1, <3>2, <3>3 DEF NothingFailed, Quiet, Regular, Running, WaitOver
  <2>3. CASE SetStopsAutoread
    BY <2>0, <2>3 DEF SetStopsAutoread, pipeVars, NothingFailed, Quiet, Regular, WaitOver, Chosen, DestTypeOK,
       Running
  <2>4. CASE SetStopsPipe
    BY <2>0, <2>4 DEF SetStopsPipe, StopDir, connVars, destVars, NothingFailed, Quiet, Regular, WaitOver,
       Chosen, PipeTypeOK, TaskTypeOK, TaskState, Dir, StopSent, Running, HasStopped
  <2>5. CASE SetKeepsOld
    BY <2>0, <2>5 DEF SetKeepsOld, pipeVars, NothingFailed, Quiet, Regular, WaitOver, Chosen, DestIsUnread,
       Running
  <2>6. CASE SetResends
    BY <2>0, <2>6 DEF SetResends, connVars, destVars, NothingFailed, Quiet, Regular, WaitOver, Chosen, Running
  <2>7. CASE SetStores
    <3>1. PICK u \in URL :
             /\ open' = [k \in Conn |-> open[k] /\ ~ (Evicted(0) # {} /\ k = destMap[u])]
             /\ destMap' = [destMap EXCEPT ![u] = 0, ![target] = newDest]
             /\ Evicted(0) = {} => u = target
             /\ Evicted(0) # {} => u \in Evicted(0)
      <4>1. target \in URL /\ Evicted(0) \subseteq URL
        BY DEF Evicted, Cached, DestTypeOK
      <4> QED
        BY <2>7, <4>1 DEF SetStores
    <3>2. /\ spc = "store" /\ spc' = "idle" /\ dest' = newDest
          /\ UNCHANGED <<rpc, share, sourceOpen, cancelled, failures>>
          /\ StartBoth(newDest, {})
      BY <2>0, <2>7 DEF SetStores, Store
    <3>3. \A d \in Dir : task'[d] = Started(task[d])
      BY <3>2 DEF StartBoth
    <3>4. ("late" \in happened' <=> "late" \in happened) /\ (Regular' <=> Regular)
      BY <3>2 DEF StartBoth, Regular
    <3>5. SUFFICES ASSUME Quiet PROVE NothingFailed'
      BY <3>2, <3>4 DEF NothingFailed, Quiet
    <3>6. \A d \in Dir : ~ task'[d].isDone
      BY <3>3, <3>5 DEF NothingFailed, Started, PipeTypeOK, TaskTypeOK, TaskState
    <3>7. Running("s2d")' => ~ task'["s2d"].stopped
      <4>1. ~ Running("s2d") /\ "s2d" \in Dir
        BY <3>2, <3>5 DEF PipeFollowsDest, NothingFailed, Dir
      <4> QED
        BY <3>3, <4>1, StartFacts DEF Running, PipeTypeOK, TaskTypeOK
    <3>8. Evicted(0) # {} => destMap[u] # newDest
      <4>1. SUFFICES ASSUME u \in Cached, destMap[u] = newDest, Cached = {u}, Cardinality(Cached) >= MaxCachedDests
                     PROVE  FALSE
        BY <3>1 DEF Evicted
      <4>2. MaxCachedDests < 2 /\ Regular
        BY <3>5, <4>1, FS_Singleton, BoundsAssumption DEF NothingFailed
      <4>3. destMap[u] = dest
        BY <4>1, <4>2 DEF SmallCache, Cached, Conn, DestTypeOK
      <4> QED
        BY <3>2, <4>1, <4>3 DEF CacheIsSound, Private, Chosen
    <3>9. open'[newDest]
      BY <3>1, <3>2, <3>5, <3>8 DEF NothingFailed, Chosen, DestTypeOK
    <3>10. ASSUME NEW v \in URL, destMap'[v] # 0 PROVE open'[destMap'[v]]
      <4>1. CASE v = target
        BY <3>1, <3>9, <4>1 DEF DestTypeOK
      <4>2. CASE v # target
        <5>1. v # u /\ destMap'[v] = destMap[v]
          BY <3>1, <3>10, <4>2 DEF DestTypeOK
        <5>2. destMap[v] # destMap[u] /\ open[destMap[v]] /\ destMap[v] \in Conn
          BY <3>5, <3>10, <5>1 DEF CacheIsSound, NothingFailed, DestTypeOK, Conn
        <5> QED
          BY <3>1, <5>1, <5>2
      <4> QED
        BY <4>1, <4>2
    <3> QED
      BY <3>2, <3>4, <3>5, <3>6, <3>7, <3>9, <3>10 DEF NothingFailed, Regular, WaitOver, Chosen
  <2> QED
    BY <1>5, <2>1, <2>2, <2>3, <2>4, <2>5, <2>6, <2>7 DEF SetGoesOn
<1>6. CASE Pipe
  <2>0. UNCHANGED pipeFrame
    BY <1>6 DEF Pipe
  <2>1. CASE Forward
    BY <2>0, <2>1 DEF Forward, pipeFrame, connVars, destVars, runVars, setVars, NothingFailed, Quiet, Regular,
       Running, WaitOver
  <2>2. CASE \E d \in Dir : TaskStops(d)
    BY <2>0, <2>2 DEF TaskStops, pipeFrame, connVars, destVars, runVars, setVars, NothingFailed, Quiet,
       Regular, WaitOver, EndedByStop, Running
  <2>3. CASE \E d \in Dir : TaskFails(d)
    BY <2>0, <2>3 DEF TaskFails, pipeFrame, NothingFailed, Quiet, PipeFollowsDest
  <2>4. CASE \E d \in Dir : TaskLeaves(d)
    BY <2>0, <2>4 DEF TaskLeaves, pipeFrame, connVars, destVars, runVars, setVars, NothingFailed, Quiet,
       Regular, WaitOver, Left, Running
  <2> QED
    BY <1>6, <2>1, <2>2, <2>3, <2>4 DEF Pipe
<1>7. CASE UNCHANGED vars
  BY <1>7 DEF NothingFailed, Quiet, Regular, Running, WaitOver, vars, connVars, destVars, pipeVars, runVars,
     setVars, shareVars
<1> QED
  BY <1>1, <1>2, <1>3, <1>4, <1>5, <1>6, <1>7 DEF Next, Set

Fewer ==
    /\ \A u \in URL : destMap'[u] = 0 \/ destMap'[u] = destMap[u]
    /\ Regular' => Regular
    /\ dest' = dest

Grows == \E u \in URL : \A v \in URL : v # u => destMap'[v] = 0 \/ destMap'[v] = destMap[v]

\* The cache shrinks, unless a connection is stored.
LEMMA CacheMoves ==
  ASSUME ConnTypeOK, DestTypeOK, [Next]_vars
  PROVE  Fewer \/ (Grows /\ (ReconnectSwaps \/ SetStores))
<1>1. CASE Connections
  <2>0. UNCHANGED <<opened, url, key, dest, destURL, onSubmit, lock, pipeVars, runVars, cancelled, setVars, shareVars>>
    BY <1>1 DEF Connections
  <2>1. CASE SourceCloses
    BY <2>0, <2>1 DEF SourceCloses, Fewer, Regular
  <2>2. CASE \E k \in Conn : PoolCloses(k)
    BY <2>0, <2>2 DEF PoolCloses, Fewer, Regular
  <2>3. CASE \E k \in Conn : AutoReadFails(k)
    BY <2>0, <2>3 DEF AutoReadFails, Fewer, Regular
  <2>4. CASE \E k \in Conn : AutoReadCallback(k)
    BY <2>0, <2>4 DEF AutoReadCallback, Fewer, Regular
  <2> QED
    BY <1>1, <2>1, <2>2, <2>3, <2>4 DEF Connections
<1>2. CASE Shares
  BY <1>2 DEF Shares, ShareAnswered, ShareFails, Submit, destVars, Fewer, Regular
<1>3. CASE Runs
  <2>0. UNCHANGED <<sourceOpen, cancelled, setVars, waiter, failures>>
    BY <1>3 DEF Runs
  <2>1. CASE RunStarts
    BY <2>1 DEF RunStarts, destVars, StartBoth, Fewer, Regular
  <2>2. CASE PipeExits
    BY <2>0, <2>2 DEF PipeExits, destVars, Fewer, Regular
  <2>3. CASE PipeStopsNext
    BY <2>0, <2>3 DEF PipeStopsNext, destVars, Fewer, Regular
  <2>4. CASE RunErr
    BY <2>0, <2>4 DEF RunErr, CloseConnections, Fewer, Regular
  <2>5. CASE Reconnect
    BY <2>0, <2>5 DEF Reconnect, CloseConnections, Fewer, Regular, DestTypeOK
  <2>6. CASE ReconnectConnects
    BY <2>0, <2>6 DEF ReconnectConnects, CloseConnections, Fewer, Regular
  <2>7. CASE ReconnectSwaps
    <3>1. CASE sourceOpen
      BY <2>7, <3>1 DEF ReconnectSwaps, Grows, DestTypeOK
    <3>2. CASE ~ sourceOpen
      BY <2>7, <3>2 DEF ReconnectSwaps, CloseConnections, Fewer, Regular
    <3> QED
      BY <3>1, <3>2
  <2>8. CASE RunLoops
    BY <2>8 DEF RunLoops, destVars, StartBoth, Fewer, Regular
  <2> QED
    BY <1>3, <2>1, <2>2, <2>3, <2>4, <2>5, <2>6, <2>7, <2>8 DEF Runs
<1>4. CASE SetBegin
  BY <1>4 DEF SetBegin, SetDest, Fewer, Regular, destVars
<1>5. CASE SetGoesOn
  <2>0. UNCHANGED <<sourceOpen, exit, reconnectURL, cancelled, failures>>
    BY <1>5 DEF SetGoesOn, SetFrame
  <2>1. CASE SetConnects
    BY <2>0, <2>1 DEF SetConnects, destVars, Fewer, Regular
  <2>2. CASE Wait
    BY <2>0, <2>2 DEF Wait, destVars, Fewer, Regular
  <2>3. CASE SetStopsAutoread
    BY <2>0, <2>3 DEF SetStopsAutoread, Fewer, Regular, DestTypeOK
  <2>4. CASE SetStopsPipe
    BY <2>0, <2>4 DEF SetStopsPipe, destVars, Fewer, Regular
  <2>5. CASE SetKeepsOld
    BY <2>0, <2>5 DEF SetKeepsOld, Fewer, Regular, DestTypeOK
  <2>6. CASE SetResends
    BY <2>0, <2>6 DEF SetResends, destVars, Fewer, Regular
  <2>7. CASE SetStores
    <3>1. PICK u : destMap' = [destMap EXCEPT ![u] = 0, ![target] = newDest]
      BY <2>7 DEF SetStores
    <3> QED
      BY <2>7, <3>1 DEF Grows, DestTypeOK
  <2> QED
    BY <1>5, <2>1, <2>2, <2>3, <2>4, <2>5, <2>6, <2>7 DEF SetGoesOn
<1>6. CASE Pipe
  BY <1>6 DEF Pipe, Forward, TaskStops, TaskFails, TaskLeaves, pipeFrame, destVars, Fewer, Regular
<1>7. CASE UNCHANGED vars
  BY <1>7 DEF Fewer, Regular, vars, destVars
<1> QED
  BY <1>1, <1>2, <1>3, <1>4, <1>5, <1>6, <1>7 DEF Next, Set

\* A connection that is stored evicts one when the cache is full.
LEMMA SizeKept ==
  ASSUME ConnTypeOK, DestTypeOK, ConnectionsAgree, CacheIsSound, CacheIsBounded, [Next]_vars
  PROVE  CacheIsBounded'
<1> USE BoundsAssumption
<1>1. CASE Fewer
  <2>1. Cached' \subseteq Cached
    BY <1>1 DEF Fewer, Cached
  <2>2. IsFiniteSet(Cached') /\ Cardinality(Cached') <= Cardinality(Cached)
    BY <2>1, FS_Subset DEF CacheIsBounded
  <2>3. Cardinality(Cached) \in Nat /\ Cardinality(Cached') \in Nat
    BY <2>2, FS_CardinalityType DEF CacheIsBounded
  <2> QED
    BY <1>1, <2>2, <2>3 DEF Fewer, CacheIsBounded, Size
<1>2. ASSUME Grows PROVE IsFiniteSet(Cached')
  <2>1. PICK u : Cached' \subseteq Cached \cup {u}
    BY <1>2 DEF Grows, Cached
  <2>2. IsFiniteSet(Cached \cup {u})
    BY FS_AddElement DEF CacheIsBounded
  <2> QED
    BY <2>1, <2>2, FS_Subset
<1>3. CASE Grows /\ ReconnectSwaps
  <2>1. CASE sourceOpen
    <3>1. ~ Regular'
      BY <1>3, <2>1 DEF ReconnectSwaps, StartBoth, Regular
    <3> QED
      BY <1>2, <1>3, <3>1 DEF CacheIsBounded
  <2>2. CASE ~ sourceOpen
    <3>1. Fewer
      BY <1>3, <2>2 DEF ReconnectSwaps, CloseConnections, Fewer, Regular
    <3> QED
      BY <1>1, <3>1
  <2> QED
    BY <2>1, <2>2
<1>4. CASE Grows /\ SetStores
  <2> DEFINE n == Cardinality(Cached)
  <2>1. n \in Nat /\ (Regular => n <= Size) /\ IsFiniteSet(Cached)
    BY FS_CardinalityType DEF CacheIsBounded
  <2>2. IsFiniteSet(Cached') /\ Cardinality(Cached') \in Nat
    BY <1>2, <1>4, FS_CardinalityType
  <2>3. Regular' => Regular
    BY <1>4 DEF SetStores, StartBoth, Regular
  <2>4. Evicted(0) \subseteq Cached /\ (Evicted(0) = {} => Cached = {} \/ ~ (n >= MaxCachedDests))
    <3>1. SUFFICES ASSUME Evicted(0) = {}, n >= MaxCachedDests, NEW u \in Cached PROVE FALSE
      BY DEF Evicted
    <3>2. destMap[u] = newDest /\ Cached # {u}
      BY <3>1 DEF Evicted
    <3>3. PICK v \in Cached : v # u
      BY <3>2
    <3>4. destMap[v] = newDest
      BY <3>1, <3>3 DEF Evicted
    <3> QED
      BY <3>2, <3>3, <3>4 DEF CacheIsSound, Cached
  <2>5. PICK u \in IF Evicted(0) = {} THEN {target} ELSE Evicted(0) :
            destMap' = [destMap EXCEPT ![u] = 0, ![target] = newDest]
    BY <1>4 DEF SetStores
  <2>6. Cached' \subseteq (Cached \ {u}) \cup {target}
    BY <2>5 DEF Cached, DestTypeOK
  <2>7. CASE Evicted(0) = {}
    <3>1. n + 1 <= Size
      <4>1. CASE n >= MaxCachedDests
        <5>1. n = 0
          BY <2>4, <2>7, <4>1, FS_EmptySet
        <5> QED
          BY <4>1, <5>1 DEF Size
      <4>2. CASE ~ (n >= MaxCachedDests)
        BY <2>1, <4>2 DEF Size
      <4> QED
        BY <4>1, <4>2
    <3>2. IsFiniteSet(Cached \cup {target}) /\ Cardinality(Cached \cup {target}) <= n + 1
      <4>1. /\ IsFiniteSet(Cached \cup {target})
            /\ Cardinality(Cached \cup {target}) = IF target \in Cached THEN n ELSE n + 1
        BY <2>1, FS_AddElement
      <4> HIDE DEF n
      <4>2. Cardinality(Cached \cup {target}) = n \/ Cardinality(Cached \cup {target}) = n + 1
        BY <4>1
      <4> QED
        BY <2>1, <4>1, <4>2
    <3>3. Cardinality(Cached \cup {target}) \in Nat /\ Size \in Nat
      BY <3>2, FS_CardinalityType DEF Size
    <3>4. Cardinality(Cached') <= Cardinality(Cached \cup {target})
      BY <2>6, <3>2, FS_Subset
    <3>5. Cardinality(Cached') <= Size
      BY <2>1, <2>2, <3>1, <3>2, <3>3, <3>4
    <3> QED
      BY <2>2, <3>5 DEF CacheIsBounded
  <2>8. CASE Evicted(0) # {}
    <3>1. u \in Cached
      BY <2>4, <2>5, <2>8
    <3> DEFINE S == Cached \ {u}
    <3>2. IsFiniteSet(S) /\ Cardinality(S) = n - 1
      BY <2>1, <3>1, FS_RemoveElement
    <3>3. /\ IsFiniteSet(S \cup {target})
          /\ Cardinality(S \cup {target}) = n - 1 \/ Cardinality(S \cup {target}) = n
      <4>1. Cardinality(S \cup {target}) = IF target \in S THEN Cardinality(S) ELSE Cardinality(S) + 1
        BY <3>2, FS_AddElement
      <4> QED
        BY <2>1, <3>2, <4>1, FS_AddElement
    <3>4. Cardinality(Cached') <= Cardinality(S \cup {target})
      BY <2>6, <3>3, FS_Subset
    <3>5. Cardinality(Cached') <= n
      BY <2>1, <2>2, <3>3, <3>4
    <3>6. Size \in Nat
      BY DEF Size
    <3> HIDE DEF n
    <3>7. Regular' => Cardinality(Cached') <= Size
      BY <2>1, <2>2, <2>3, <3>5, <3>6
    <3> QED
      BY <2>2, <3>7 DEF CacheIsBounded
  <2> QED
    BY <2>7, <2>8
<1> QED
  BY <1>1, <1>3, <1>4, CacheMoves

\* A connection that is stored takes the place of the only one.
LEMMA SmallKept ==
  ASSUME ConnTypeOK, DestTypeOK, ConnectionsAgree, CacheIsSound, SmallCache, CacheIsBounded, [Next]_vars
  PROVE  SmallCache'
<1>1. CASE Fewer
  BY <1>1 DEF Fewer, SmallCache
<1>2. CASE ReconnectSwaps
  <2>1. CASE sourceOpen
    BY <1>2, <2>1 DEF ReconnectSwaps, StartBoth, Regular, SmallCache
  <2>2. CASE ~ sourceOpen
    BY <1>1, <1>2, <2>2 DEF ReconnectSwaps, CloseConnections, Fewer, Regular
  <2> QED
    BY <2>1, <2>2
<1>3. CASE SetStores
  <2>1. Regular' => Regular
    BY <1>3 DEF SetStores, StartBoth, Regular
  <2>2. dest' = newDest /\ newDest # dest
    BY <1>3 DEF SetStores, Store, CacheIsSound, Private, Chosen
  <2>3. PICK u \in IF Evicted(0) = {} THEN {target} ELSE Evicted(0) :
            destMap' = [destMap EXCEPT ![u] = 0, ![target] = newDest]
    BY <1>3 DEF SetStores
  <2>4. SUFFICES ASSUME Regular, MaxCachedDests < 2, NEW v \in URL, destMap'[v] # 0, v # target
                 PROVE  FALSE
    BY <2>1, <2>2, <2>3 DEF SmallCache, DestTypeOK
  <2>5. v \in Cached /\ v # u /\ destMap[v] = dest
    BY <2>3, <2>4 DEF SmallCache, Cached, DestTypeOK
  <2>6. CASE Evicted(0) = {}
    <3>1. Cardinality({v}) = 1 /\ Cardinality({v}) <= Cardinality(Cached) /\ Cardinality(Cached) \in Nat
      BY <2>5, FS_Singleton, FS_Subset, FS_CardinalityType DEF CacheIsBounded
    <3>2. Cardinality(Cached) >= MaxCachedDests
      BY <2>4, <3>1, BoundsAssumption
    <3> QED
      BY <2>2, <2>5, <2>6, <3>2 DEF Evicted
  <2>7. CASE Evicted(0) # {}
    BY <2>3, <2>4, <2>5, <2>7 DEF Evicted, Cached, SmallCache, CacheIsSound
  <2> QED
    BY <2>6, <2>7
<1> QED
  BY <1>1, <1>2, <1>3, CacheMoves

--------------------------------------------------------------------------------
\* The invariant and what follows from it

\* A proxy that has just finished the handshake satisfies the invariant
\* (NewProxy, proxy.go:68-89).
THEOREM InitIsInductive == Init => IInv
<1> SUFFICES ASSUME Init PROVE IInv
  OBVIOUS
<1> USE URLAssumption, BoundsAssumption
<1>1. NewTask \in TaskState(Err) /\ SoundTask(NewTask)
  BY DEF NewTask, TaskState, Phase, Err, SoundTask
<1>2. TypeOK
  <2>1. ConnTypeOK
    BY DEF Init, HandshakeDest, ConnTypeOK, Conn
  <2>2. DestTypeOK
    BY DEF Init, HandshakeDest, DestTypeOK, Conn
  <2>3. PlaceTypeOK
    BY DEF Init, PlaceTypeOK
  <2>4. PipeTypeOK
    BY <1>1 DEF Init, PipeTypeOK, TaskTypeOK, Conn
  <2>5. FailuresTypeOK
    BY DEF Init, FailuresTypeOK
  <2>6. RestTypeOK
    BY DEF Init, HandshakeDest, RestTypeOK
  <2> QED
    BY <2>1, <2>2, <2>3, <2>4, <2>5, <2>6 DEF TypeOK, ConnTypeOK, DestTypeOK, PlaceTypeOK, PipeTypeOK,
       TaskTypeOK, Err, FailuresTypeOK, RestTypeOK
<1>3. ConnectionsAgree /\ CacheIsSound /\ SmallCache /\ DestIsUnread
  BY DEF Init, HandshakeDest, ConnectionsAgree, CacheIsSound, SmallCache, DestIsUnread, Chosen, Private, Conn
<1>4. TasksAreSound
  BY <1>1 DEF Init, TasksAreSound, NewTask
<1>5. PipeFollowsDest /\ MinerFollowsDest /\ CallbackFollowsDest /\ PipeRuns
  <2>1. \A d \in Dir : ~ Running(d)
    BY DEF Init, Running, NewTask
  <2>2. "d2s" \in Dir /\ "s2d" \in Dir
    BY DEF Dir
  <2> QED
    BY <2>1, <2>2 DEF Init, HandshakeDest, PipeFollowsDest, MinerFollowsDest, CallbackFollowsDest, PipeRuns
<1>6. NothingFailed
  <2>1. \A d \in Dir : ~ task[d].isDone /\ ~ Running(d)
    BY DEF Init, NewTask, Running
  <2>2. \A u \in URL : destMap[u] # 0 => destMap[u] = 1
    BY DEF Init, HandshakeDest
  <2>3. dest = 1 /\ spc \notin Chosen
    BY DEF Init, Chosen
  <2>4. 1 \in Conn
    BY DEF Conn
  <2>5. open[1]
    BY <2>4 DEF Init
  <2>6. "s2d" \in Dir
    BY DEF Dir
  <2> QED
    BY <2>1, <2>2, <2>3, <2>5, <2>6 DEF Init, NothingFailed, Regular
<1>7. CacheIsBounded
  <2>1. PICK first \in URL : Cached = {first}
    BY DEF Init, HandshakeDest, Cached
  <2>2. IsFiniteSet(Cached) /\ Cardinality(Cached) = 1
    BY <2>1, FS_Singleton
  <2> QED
    BY <2>2 DEF CacheIsBounded, Size
<1> QED
  BY <1>2, <1>3, <1>4, <1>5, <1>6, <1>7 DEF IInv

\* Every step keeps the invariant.
LEMMA NextIsInductive ==
  ASSUME IInv, [Next]_vars
  PROVE  IInv'
<1> USE DEF IInv
<1>1. ConnTypeOK /\ DestTypeOK /\ PlaceTypeOK /\ PipeTypeOK /\ FailuresTypeOK /\ RestTypeOK
  BY DEF TypeOK, ConnTypeOK, DestTypeOK, PlaceTypeOK, PipeTypeOK, TaskTypeOK, Err, FailuresTypeOK, RestTypeOK
<1>2. TypeOK'
  <2>1. ConnTypeOK' /\ DestTypeOK'
    BY <1>1, ConnTypeKept, DestTypeKept
  <2>2. PlaceTypeOK' /\ PipeTypeOK'
    BY <1>1, PlaceTypeKept, PipeTypeKept
  <2>3. FailuresTypeOK' /\ RestTypeOK'
    BY <1>1, FailuresTypeKept, RestTypeKept
  <2> QED
    BY <2>1, <2>2, <2>3 DEF TypeOK, ConnTypeOK, DestTypeOK, PlaceTypeOK, PipeTypeOK, TaskTypeOK, Err,
       FailuresTypeOK, RestTypeOK
<1>3. ConnectionsAgree' /\ CacheIsSound' /\ DestIsUnread'
  BY <1>1, ConnKept, CacheKept, DestKept
<1>4. TasksAreSound' /\ PipeFollowsDest'
  BY <1>1, TaskKept, PipeKept
<1>5. MinerFollowsDest' /\ CallbackFollowsDest' /\ PipeRuns'
  BY <1>1, MinerKept, CallbackKept, RunsKept
<1>6. NothingFailed' /\ CacheIsBounded' /\ SmallCache'
  BY <1>1, QuietKept, SizeKept, SmallKept
<1> QED
  BY <1>2, <1>3, <1>4, <1>5, <1>6

\* The invariant holds in every behaviour of Run, setDest, the pipe, the shares
\* and the pools, reconnects included (proxy.go:106-340, pipe.go, task.go).
THEOREM ProxyInvariant == Spec => []IInv
<1>1. IInv /\ [Next]_vars => IInv'
  BY NextIsInductive
<1> QED
  BY InitIsInductive, <1>1, PTL DEF Spec

\* A connection to a pool is read by the pipe or in the background, never by
\* both (setDest, AutoReadStart, AutoReadStop).
THEOREM PoolsHaveOneReader == Spec => []OneReader
<1>1. IInv => OneReader
  BY DEF IInv, DestIsUnread, PipeFollowsDest, OneReader
<1> QED
  BY ProxyInvariant, <1>1, PTL

\* Between two swaps the job of the miner is one of the pool to which its shares
\* are counted (setDest, ConnectDest, destToSource).
THEOREM MinerWorksForDest == Spec => []MinerMinesForDest
<1>1. IInv => MinerMinesForDest
  <2> SUFFICES ASSUME IInv, Regular, lock = "free", sourceOpen
               PROVE  minerDest = dest
    BY DEF MinerMinesForDest
  <2>1. spc # "store"
    BY DEF IInv, TypeOK
  <2> QED
    BY <2>1 DEF IInv, MinerFollowsDest
<1> QED
  BY ProxyInvariant, <1>1, PTL

\* What a swap leaves behind belongs together: the destination, its address and
\* the callback, a cache within its limit, a pipe that runs; and a miner is
\* dropped for a reason only (setDest, onMiningSubmit).
THEOREM SwapsKeepTheirPromise == Spec => []SwapsAreSound
<1>1. IInv => Coherent
  BY DEF IInv, ConnectionsAgree, PipeFollowsDest, CallbackFollowsDest, Coherent
<1>2. IInv => CacheBounded
  BY DEF IInv, CacheIsBounded, Size, CacheBounded
<1>3. IInv => CancelledForAReason
  BY DEF IInv, TypeOK, NothingFailed, Quiet, CancelledForAReason
<1>4. IInv => PipeRunsOn
  BY DEF IInv, PipeRuns, Before, PipeRunsOn
<1>5. IInv => TypeOK
  BY DEF IInv
<1>6. IInv => SwapsAreSound
  BY <1>1, <1>2, <1>3, <1>4, <1>5 DEF SwapsAreSound
<1> QED
  BY ProxyInvariant, <1>6, PTL
================================================================================
