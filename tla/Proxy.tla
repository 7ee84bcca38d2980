--------------------------------- MODULE Proxy ---------------------------------
(***************************************************************************)
(* Proxy (proxy/proxy.go) after the handshake of a miner: Run and its pipe *)
(* of two tasks (pipe.go), setDest called by the scheduler, the cache of   *)
(* pool connections with their autoread (conn_dest.go), and the goroutines *)
(* that answer shares (handler_mining.go).                                 *)
(*                                                                         *)
(* A connection to a pool is a number; its messages are abstracted to the  *)
(* connection whose job the miner received last.  connectNewDest is one    *)
(* step that succeeds or fails; idle timers are a closing by the pool.     *)
(* A SetDest that fails ends the model: the scheduler then leaves, or      *)
(* starts a second Run beside the first one.  A panic ends the program.    *)
(***************************************************************************)
EXTENDS Integers, FiniteSets, RestartableTask

CONSTANTS URL,              \* destinations the scheduler asks for
          Primary,          \* the default destination
          MaxCachedDests,   \* maxCachedDests of the configuration
          MaxConns,         \* bound: connections opened to pools
          MaxShares,        \* bound: shares submitted
          MaxFailures       \* bound: failures of pools and of the miner

ASSUME URLAssumption == Primary \in URL
ASSUME BoundsAssumption ==
    MaxCachedDests \in Nat /\ MaxShares \in Nat /\ MaxFailures \in Nat
    /\ MaxConns \in Nat \ {0}

Conn == 1 .. MaxConns
Share == 1 .. MaxShares
Dir == {"s2d", "d2s"}

VARIABLES
    \* connections
    opened,         \* connections opened so far
    url,            \* url[c]: address of connection c
    open,           \* open[c]: neither side closed it
    autoread,       \* autoread[c]: off, on, failed (its callback is due) or dead
    key,            \* key[c]: address that the callback of its autoread deletes
    sourceOpen,     \* the miner is connected
    \* Proxy
    dest, destURL, onSubmit,
    destMap,        \* connection stored under an address; 0 if none
    lock,           \* holder of setDestLock
    \* pipes, one per run
    task,           \* task[d]: the task of direction d
    pipeDest,       \* pipe.dest
    from,           \* connection that destToSource reads
    minerDest,      \* connection whose job the miner was sent last
    \* Run
    rpc, exit,      \* place; why the pipe exited
    cancelled,      \* its cancelRun was called
    reconnectURL,   \* destURL as loaded for ConnectDest
    \* setDest
    spc, target, newDest,
    \* shares
    share,          \* share[i]: none, sent, cut (its context ended), done or leaked
    waiter,         \* setDest in unansweredMsg.Wait: none, asleep, woken, panicked
    \* history
    failures,       \* failures so far
    happened        \* a share came after Wait, the last start of a task was
                    \* ignored, Run reconnected

connVars == <<opened, url, open, autoread, key>>
destVars == <<dest, destURL, onSubmit, destMap>>
pipeVars == <<task, pipeDest, from, minerDest>>
runVars == <<rpc, exit, reconnectURL>>
setVars == <<spc, target, newDest>>
shareVars == <<share, waiter>>
vars == <<connVars, sourceOpen, destVars, lock, pipeVars, runVars, cancelled, setVars, shareVars, failures, happened>>

--------------------------------------------------------------------------------
\* The handshake left connection 1, under the address it was dialled with: the
\* default, the pool of the contract that the miner named, or the default with the
\* miner's worker name.
HandshakeDest(first) ==
    /\ url = [c \in Conn |-> IF c = 1 THEN first ELSE Primary]
    /\ destMap = [u \in URL |-> IF u = first THEN 1 ELSE 0]

\* After the handshake of a miner.  destURL is the default, whatever connection 1 is.
Init ==
    /\ opened = 1
    /\ \E first \in URL : HandshakeDest(first)
    /\ destURL = Primary /\ target = Primary /\ reconnectURL = Primary
    /\ key = [c \in Conn |-> Primary]
    /\ open = [c \in Conn |-> c = 1]
    /\ autoread = [c \in Conn |-> "off"]
    /\ sourceOpen = TRUE
    /\ dest = 1 /\ onSubmit = 0
    /\ lock = "free"
    /\ task = [d \in Dir |-> NewTask]
    /\ pipeDest = 1 /\ from = 1 /\ minerDest = 1
    /\ rpc = "start"
    /\ exit = "none"
    /\ cancelled = FALSE
    /\ spc = "idle" /\ newDest = 1
    /\ share = [i \in Share |-> "none"] /\ waiter = "none"
    /\ failures = 0 /\ happened = {}

--------------------------------------------------------------------------------
\* The tasks of a pipe
Running(d) == task[d].phase = "running"

\* both Start calls; destToSource reads pipe.dest from now on
StartBoth(pd, what) ==
    /\ task' = [d \in Dir |-> Started(task[d])]
    /\ from' = IF Started(task["d2s"]).phase = "running" /\ ~ Running("d2s") THEN pd ELSE from
    /\ happened' = (happened \ {"ignored"}) \cup what
                       \cup {"ignored" : d \in {e \in Dir : task[e].phase = "closing"}}

\* the shares a pipe read are answered under its context, which Stop ends
StopDir(d) ==
    /\ task' = [task EXCEPT ![d] = StopSent(@)]
    /\ share' = [i \in Share |-> IF d = "s2d" /\ Running(d) /\ share[i] = "sent"
                                 THEN "cut" ELSE share[i]]

pipeFrame == <<failures, connVars, sourceOpen, destVars, lock, pipeDest, runVars, cancelled, setVars, waiter>>

\* destToSource: a message of the pool reaches the miner
Forward ==
    /\ Running("d2s") /\ open[from] /\ sourceOpen
    /\ minerDest' = from
    /\ from' = pipeDest
    /\ UNCHANGED <<task, share, happened>>

TaskStops(d) ==
    /\ Running(d) /\ task[d].stopped
    /\ task' = [task EXCEPT ![d] = EndedByStop(@)]
    /\ UNCHANGED <<from, minerDest, share, happened>>

\* a closed connection fails reads and writes, also after Stop
TaskFails(d) ==
    /\ Running(d)
    /\ \/ ~ sourceOpen /\ task' = [task EXCEPT ![d] = EndedWith(@, "source")]
       \/ /\ ~ open[IF d = "d2s" THEN from ELSE pipeDest]
          /\ task' = [task EXCEPT ![d] = EndedWith(@, "dest")]
    /\ UNCHANGED <<from, minerDest, share, happened>>

TaskLeaves(d) ==
    /\ task[d].phase = "closing"
    /\ task' = [task EXCEPT ![d] = Left(@)]
    /\ UNCHANGED <<from, minerDest, share, happened>>

Pipe ==
    /\ Forward \/ \E d \in Dir : TaskStops(d) \/ TaskFails(d) \/ TaskLeaves(d)
    /\ UNCHANGED pipeFrame

Fails == failures < MaxFailures /\ failures' = failures + 1

--------------------------------------------------------------------------------
\* Shares (onMiningSubmit and its goroutine)
\* mutant: Done is not called for a share that was answered
UnansweredForever == {i \in Share : share[i] # "none"}

Unanswered == {i \in Share : share[i] \in {"sent", "cut", "leaked"}}

\* setDest has seen no unanswered message
WaitOver == spc \in {"arStop", "stopD2S", "waitD2S", "waitS2D"}

\* cancelRun is that of the latest run
CancelRun == cancelled' = TRUE

Submit(i) ==
    /\ Running("s2d") /\ sourceOpen
    /\ share[i] = "none" /\ \A j \in Share : j < i => share[j] # "none"
    /\ UNCHANGED waiter
    /\ \/ /\ share' = [share EXCEPT ![i] = IF task["s2d"].stopped THEN "cut" ELSE "sent"]
          /\ happened' = happened \cup {"late" : x \in {y \in {spc} : WaitOver}}
          /\ UNCHANGED <<cancelled, failures>>
       \* MAX_CONSEQUENT_INVALID_SHARES: returns without unansweredMsg.Done
       \/ /\ share' = [share EXCEPT ![i] = "leaked"]
          /\ CancelRun /\ Fails
          /\ UNCHANGED happened

\* unansweredMsg.Done: the last one wakes setDest
Done(i) ==
    /\ share' = [share EXCEPT ![i] = "done"]
    /\ waiter' = IF waiter = "asleep" /\ Unanswered = {i} THEN "woken" ELSE waiter

\* the miner and the pool were told, the pool answered
ShareAnswered(i) ==
    /\ share[i] \in {"sent", "cut"}
    /\ Done(i)
    /\ UNCHANGED <<cancelled, failures, happened>>

\* a write fails or no answer comes: the context ended, a connection is
\* closed, or RESPONSE_TIMEOUT passed
ShareFails(i) ==
    /\ \/ share[i] = "cut" /\ UNCHANGED failures
       \/ share[i] = "sent" /\ ~ (sourceOpen /\ open[dest]) /\ UNCHANGED failures
       \/ share[i] = "sent" /\ Fails
    /\ Done(i)
    /\ CancelRun
    /\ UNCHANGED happened

Shares ==
    /\ \E i \in Share : ShareAnswered(i) \/ ShareFails(i) \/ Submit(i)
    /\ UNCHANGED <<connVars, sourceOpen, destVars, lock, pipeVars, runVars, setVars>>

--------------------------------------------------------------------------------
\* Pools, the miner, and the autoread of cached connections
PoolCloses(c) ==
    /\ c <= opened /\ open[c]
    /\ open' = [open EXCEPT ![c] = FALSE]
    /\ Fails
    /\ UNCHANGED <<autoread, sourceOpen, destMap, happened>>

SourceCloses ==
    /\ sourceOpen
    /\ sourceOpen' = FALSE
    /\ Fails
    /\ UNCHANGED <<open, autoread, destMap, happened>>

AutoReadFails(c) ==
    /\ autoread[c] = "on" /\ ~ open[c]
    /\ autoread' = [autoread EXCEPT ![c] = "failed"]
    /\ UNCHANGED <<open, sourceOpen, destMap, failures, happened>>

\* the callback deletes whatever is stored under destURL as it was when the
\* autoread began
AutoReadCallback(c) ==
    /\ autoread[c] = "failed"
    /\ autoread' = [autoread EXCEPT ![c] = "dead"]
    /\ destMap' = [destMap EXCEPT ![key[c]] = 0]
    /\ UNCHANGED <<open, sourceOpen, failures, happened>>

Connections ==
    /\ SourceCloses \/ \E c \in Conn : PoolCloses(c) \/ AutoReadFails(c) \/ AutoReadCallback(c)
    /\ UNCHANGED <<opened, url, key, dest, destURL, onSubmit, lock, pipeVars, runVars, cancelled, setVars, shareVars>>

--------------------------------------------------------------------------------
\* Run
RunGoes(to) == rpc' = to

\* NewPipe, both starts and the assignment of cancelRun.  A later run is begun
\* by the scheduler after a SetDest that could not connect.
RunStarts ==
    /\ rpc = "start"
    /\ pipeDest' = dest
    /\ StartBoth(dest, {})
    /\ RunGoes("pipe")
    /\ UNCHANGED <<connVars, destVars, lock, minerDest, exit, reconnectURL, share>>

\* Pipe.Run: waits for the end of a task or of the context; stops the rest.
\* After a reconnect it is the pipe of the latest run.
PipeExits ==
    /\ rpc = "pipe"
    /\ \/ /\ task["s2d"].isDone
          /\ exit' = task["s2d"].err
          /\ StopDir("d2s") /\ RunGoes("waitD2S")
       \/ /\ task["d2s"].isDone
          /\ exit' = task["d2s"].err
          /\ StopDir("s2d") /\ RunGoes("waitS2D")
       \/ /\ cancelled
          /\ exit' = "canceled"
          /\ StopDir("s2d") /\ RunGoes("cancelS2D")
    /\ UNCHANGED <<connVars, destVars, lock, pipeDest, from, minerDest, reconnectURL, happened>>

PipeStopsNext ==
    /\ rpc = "cancelS2D" /\ HasStopped(task["s2d"])
    /\ StopDir("d2s") /\ RunGoes("waitD2S")
    /\ UNCHANGED <<connVars, destVars, lock, pipeDest, from, minerDest, exit, reconnectURL, happened>>

\* closeConnections, deferred in Run
CloseConnections ==
    /\ open' = [c \in Conn |-> open[c] /\ c # dest /\ \A u \in URL : destMap[u] # c]
    /\ destMap' = [u \in URL |-> 0]

\* the pipe has stopped: a destination error leads to a reconnect
RunErr ==
    /\ \/ rpc = "waitD2S" /\ HasStopped(task["d2s"])
       \/ rpc = "waitS2D" /\ HasStopped(task["s2d"])
    /\ IF exit = "dest"
         THEN /\ open' = [open EXCEPT ![dest] = FALSE]
              /\ RunGoes("reconnect")
              /\ UNCHANGED destMap
         ELSE CloseConnections /\ RunGoes("ended")
    /\ UNCHANGED <<opened, url, autoread, key, dest, destURL, onSubmit, lock, pipeVars, exit, reconnectURL, share, happened>>

\* RECONNECT_TIMEOUT passed, or the run was cancelled meanwhile
Reconnect ==
    /\ rpc = "reconnect"
    /\ \/ /\ cancelled /\ CloseConnections /\ RunGoes("ended")
          /\ UNCHANGED reconnectURL
       \/ /\ destMap' = [destMap EXCEPT ![url[dest]] = 0]
          /\ reconnectURL' = destURL
          /\ RunGoes("lock")
          /\ UNCHANGED open
    /\ UNCHANGED <<opened, url, autoread, key, dest, destURL, onSubmit, lock, pipeVars, exit, share, happened>>

\* connectNewDest: on failure the connection is left to its idle timers
Opens(u) ==
    /\ opened < MaxConns
    /\ opened' = opened + 1
    /\ url' = [url EXCEPT ![opened'] = u]
    /\ open' = [open EXCEPT ![opened'] = TRUE]
    /\ UNCHANGED <<autoread, key>>

\* ConnectDest takes the lock and connects
ReconnectConnects ==
    /\ rpc = "lock" /\ lock = "free"
    /\ \/ Opens(reconnectURL) /\ lock' = "run" /\ RunGoes("swap") /\ UNCHANGED destMap
       \/ CloseConnections /\ RunGoes("ended") /\ UNCHANGED <<opened, url, autoread, key, lock>>
    /\ UNCHANGED <<dest, destURL, onSubmit, pipeVars, exit, reconnectURL, share, happened>>

\* resendRelevantNotifications, the new destination, both starts
ReconnectSwaps ==
    /\ rpc = "swap"
    /\ lock' = "free"
    /\ IF sourceOpen
         THEN /\ dest' = opened /\ destURL' = reconnectURL
              /\ destMap' = [destMap EXCEPT ![reconnectURL] = opened]
              /\ minerDest' = opened
              /\ pipeDest' = opened
              /\ StartBoth(opened, {"reconnect"})
              /\ RunGoes("loop")
              /\ UNCHANGED open
         ELSE CloseConnections /\ RunGoes("ended") /\ UNCHANGED <<dest, destURL, pipeVars, happened>>
    /\ UNCHANGED <<opened, url, autoread, key, onSubmit, exit, reconnectURL, share>>

\* the head of the loop, on p.pipe, which may be that of a later run
RunLoops ==
    /\ rpc = "loop"
    /\ StartBoth(pipeDest, {})
    /\ RunGoes("pipe")
    /\ UNCHANGED <<connVars, destVars, lock, pipeDest, minerDest, exit, reconnectURL, share>>

Runs ==
    /\ \/ RunStarts \/ PipeExits \/ PipeStopsNext \/ RunErr \/ Reconnect
                      \/ ReconnectConnects \/ ReconnectSwaps \/ RunLoops
    /\ UNCHANGED <<sourceOpen, cancelled, setVars, waiter, failures>>

--------------------------------------------------------------------------------
\* setDest
SetDest(u) ==
    /\ spc = "idle" /\ rpc # "start"
    /\ lock = "free" /\ u # destURL
    /\ lock' = "set"
    /\ target' = u
    /\ IF destMap[u] # 0
         THEN newDest' = destMap[u] /\ spc' = "waitCached"
         ELSE UNCHANGED newDest /\ spc' = "connect"
    /\ UNCHANGED <<connVars, destVars, pipeVars, rpc, share, happened>>

SetConnects ==
    /\ spc = "connect"
    /\ \/ /\ Opens(target)
          /\ newDest' = opened + 1 /\ spc' = "wait" /\ UNCHANGED lock
       \/ /\ lock' = "free" /\ UNCHANGED <<connVars, newDest>>
          /\ spc' = "error"
    /\ UNCHANGED <<target, destVars, pipeVars, rpc, share, happened>>

\* unansweredMsg.Wait, which returns when it is not used again in between: a
\* share that comes after the last Done and before the return makes it panic
Wait ==
    /\ spc \in {"waitCached", "wait"} /\ waiter # "asleep"
    /\ \/ /\ Unanswered = {}
          /\ waiter' = "none"
          /\ spc' = IF spc = "wait" THEN "stopD2S" ELSE "arStop"
       \/ /\ Unanswered # {}
          /\ waiter' = IF waiter = "none" THEN "asleep" ELSE "panicked"
          /\ UNCHANGED spc
    /\ UNCHANGED <<connVars, target, newDest, destVars, lock, pipeVars, rpc, share, happened>>

\* AutoReadStop waits for the callback; an autoread that has died is as good
SetStopsAutoread ==
    /\ spc = "arStop"
    /\ \/ /\ autoread[newDest] = "on"
          /\ destMap' = [destMap EXCEPT ![key[newDest]] = 0]
          /\ autoread' = [autoread EXCEPT ![newDest] = "off"]
          /\ spc' = "stopD2S" /\ UNCHANGED lock
       \/ /\ autoread[newDest] = "dead"
          /\ autoread' = [autoread EXCEPT ![newDest] = "off"]
          /\ spc' = "stopD2S" /\ UNCHANGED <<destMap, lock>>
       \/ /\ autoread[newDest] = "off"
          /\ spc' = "error" /\ lock' = "free" /\ UNCHANGED <<destMap, autoread>>
    /\ UNCHANGED <<opened, url, open, key, target, newDest, dest, destURL, onSubmit, pipeVars, rpc, share, happened>>

\* mutant: setDest does not wait for the end of destToSource
SetStopsPipeAtOnce ==
    /\ \/ /\ spc = "stopD2S" /\ StopDir("d2s") /\ spc' = "waitD2S"
       \/ /\ spc = "waitD2S"
          /\ StopDir("s2d") /\ spc' = "waitS2D"
       \/ /\ spc = "waitS2D" /\ HasStopped(task["s2d"])
          /\ spc' = "old" /\ UNCHANGED <<task, share>>
    /\ UNCHANGED <<connVars, target, newDest, destVars, lock, pipeDest, from, minerDest, rpc, happened>>

\* "stop source and old dest"
SetStopsPipe ==
    /\ \/ /\ spc = "stopD2S" /\ StopDir("d2s") /\ spc' = "waitD2S"
       \/ /\ spc = "waitD2S" /\ HasStopped(task["d2s"])
          /\ StopDir("s2d") /\ spc' = "waitS2D"
       \/ /\ spc = "waitS2D" /\ HasStopped(task["s2d"])
          /\ spc' = "old" /\ UNCHANGED <<task, share>>
    /\ UNCHANGED <<connVars, target, newDest, destVars, lock, pipeDest, from, minerDest, rpc, happened>>

\* the old destination is read in the background, or closed
SetKeepsOld ==
    /\ spc = "old"
    /\ \/ /\ autoread[dest] = "off"
          /\ autoread' = [autoread EXCEPT ![dest] = "on"] /\ key' = [key EXCEPT ![dest] = destURL]
          /\ UNCHANGED <<open, destMap>>
       \/ /\ autoread[dest] # "off"
          /\ open' = [open EXCEPT ![dest] = FALSE]
          /\ destMap' = [destMap EXCEPT ![url[dest]] = 0]
          /\ UNCHANGED <<autoread, key>>
    /\ spc' = "resend"
    /\ UNCHANGED <<opened, url, target, newDest, dest, destURL, onSubmit, lock, pipeVars, rpc, share, happened>>

SetResends ==
    /\ spc = "resend"
    /\ IF sourceOpen
         THEN minerDest' = newDest /\ spc' = "store" /\ UNCHANGED lock
         ELSE spc' = "error" /\ lock' = "free" /\ UNCHANGED minerDest
    /\ UNCHANGED <<connVars, target, newDest, destVars, task, pipeDest, from, rpc, share, happened>>

Cached == {u \in URL : destMap[u] # 0}

\* closeOldestConn, when the cache is full: any but the new destination, whose
\* idle timers were reset last
Evicted(m) ==
    IF Cardinality(Cached) >= MaxCachedDests
      THEN {u \in Cached : destMap[u] # newDest \/ Cached = {u}}
      ELSE {}

\* mutant: the callback of the task before stays
StoreKeepingCallback ==
    /\ destURL' = target /\ dest' = newDest
    /\ UNCHANGED onSubmit

Store ==
    /\ destURL' = target /\ dest' = newDest
    /\ onSubmit' = newDest

SetStores ==
    /\ spc = "store"
    /\ \E u \in IF Evicted(0) = {} THEN {target} ELSE Evicted(0) :
          /\ open' = [c \in Conn |-> open[c] /\ ~ (Evicted(0) # {} /\ c = destMap[u])]
          /\ destMap' = [destMap EXCEPT ![u] = 0, ![target] = newDest]
    /\ Store
    /\ pipeDest' = newDest
    /\ StartBoth(newDest, {})
    /\ lock' = "free" /\ spc' = "idle"
    /\ UNCHANGED <<opened, url, autoread, key, target, newDest, minerDest, rpc, share>>

SetFrame == UNCHANGED <<sourceOpen, exit, reconnectURL, cancelled, failures>>

SetBegin == (\E u \in URL : SetDest(u)) /\ SetFrame /\ UNCHANGED waiter

SetGoesOn ==
    /\ \/ Wait
       \/ /\ SetConnects \/ SetStopsAutoread \/ SetStopsPipe \/ SetKeepsOld \/ SetResends \/ SetStores
          /\ UNCHANGED waiter
    /\ SetFrame

Set == SetBegin \/ SetGoesOn

--------------------------------------------------------------------------------
Next == waiter # "panicked" /\ (Connections \/ Shares \/ Runs \/ Set \/ Pipe)

Spec == Init /\ [][Next]_vars

\* Some goroutine that can go on does; a call returns once its context or its
\* connection ended (StratumConnection); a share is answered or
\* RESPONSE_TIMEOUT passes.  Weaker than fairness for each of them.
Progress ==
    \/ SetGoesOn \/ Runs
    \/ (\E d \in Dir : TaskStops(d) \/ TaskFails(d) \/ TaskLeaves(d)) /\ UNCHANGED pipeFrame
    \/ Connections /\ autoread' # autoread
    \/ Shares /\ \E i \in Share : share[i] # "none" /\ share'[i] = "done"

FairSpec == Spec /\ WF_vars(Progress)

--------------------------------------------------------------------------------
\* The state of the proxy, its pipe and its connections is well formed.
TypeOK ==
    /\ opened \in Conn /\ failures \in 0 .. MaxFailures
    /\ url \in [Conn -> URL] /\ open \in [Conn -> BOOLEAN]
    /\ autoread \in [Conn -> {"off", "on", "failed", "dead"}] /\ key \in [Conn -> URL]
    /\ sourceOpen \in BOOLEAN /\ cancelled \in BOOLEAN
    /\ dest \in Conn /\ destURL \in URL /\ onSubmit \in 0 .. MaxConns /\ destMap \in [URL -> 0 .. MaxConns]
    /\ lock \in {"free", "set", "run"}
    /\ lock = "set" <=> spc \notin {"idle", "error"}
    /\ lock = "run" <=> rpc = "swap"
    /\ task \in [Dir -> TaskState({"none", "source", "dest"})]
    /\ pipeDest \in Conn /\ from \in Conn /\ minerDest \in Conn
    /\ rpc \in {"start", "pipe", "cancelS2D", "waitS2D", "waitD2S", "reconnect", "lock", "swap", "loop", "ended"}
    /\ exit \in {"none", "source", "dest", "canceled"}
    /\ reconnectURL \in URL /\ target \in URL /\ newDest \in Conn
    /\ spc \in {"idle", "waitCached", "connect", "wait", "arStop", "stopD2S", "waitD2S", "waitS2D", "old",
                "resend", "store", "error"}
    /\ share \in [Share -> {"none", "sent", "cut", "done", "leaked"}]
    /\ waiter \in {"none", "asleep", "woken", "panicked"}
    /\ happened \subseteq {"late", "ignored", "reconnect"}

\* After a reconnect the head of Run's loop starts the pipe again without the
\* lock, which may be in the middle of a setDest: the properties of the swap
\* are claimed until then.
Regular == "reconnect" \notin happened

\* A pool connection has one reader: while its messages are read in the
\* background the pipe does not read it, so none of them is lost to the miner
\* (proxy.go:250-283, conn_dest.go:76-118).
OneReader == Regular => \A c \in Conn : autoread[c] = "on" => ~ (Running("d2s") /\ from = c)

\* Whenever no swap is under way, the job that the miner was sent last is one
\* of the connection to which its shares are counted (proxy.go:250-308).
MinerMinesForDest == Regular /\ lock = "free" /\ sourceOpen => minerDest = dest

TooManyInvalid == \E i \in Share : share[i] = "leaked"

\* Shares are read only while the destination, its address, the callback and
\* the end of the pipe belong together (proxy.go:294-305).  Before the first
\* swap nobody is credited, and the address is the default whatever pool the
\* miner was connected to (handler_first_connect.go:188-206).
Coherent ==
    Regular /\ Running("s2d") =>
        /\ pipeDest = dest
        /\ IF onSubmit = 0 THEN dest = 1 /\ destURL = Primary
                           ELSE onSubmit = dest /\ destURL = url[dest]

\* The cache holds maxCachedDests connections at most, and the current one if
\* that is zero (proxy.go:290, 311-328).  ConnectDest stores its connection
\* without closing the oldest one: after a reconnect beside a setDest there may
\* be one more.
CacheBounded == Regular => Cardinality(Cached) <= IF MaxCachedDests = 0 THEN 1 ELSE MaxCachedDests

\* The connection of a miner is cancelled only if a pool failed, the miner left
\* or sent too many invalid shares, or a share arrived after setDest had waited
\* for the answers and before it stopped the pipe (handler_mining.go:137-170).
CancelledForAReason == cancelled => failures > 0 \/ "late" \in happened

\* Between two swaps both directions of the pipe run, unless one has ended by
\* itself, or a Start came before the goroutine that had stopped cleared
\* isRunning and was ignored (proxy.go:304, task.go:43-82).
PipeRunsOn ==
    Regular /\ lock = "free" /\ spc = "idle" /\ rpc = "pipe" /\ ~ cancelled /\ "ignored" \notin happened
    /\ (\A d \in Dir : ~ task[d].isDone)
        => \A d \in Dir : Running(d)

\* A swap leaves a pipe that runs, or was cancelled for a reason, with the
\* destination, the callback and the cache that belong together.
SwapsAreSound == TypeOK /\ Coherent /\ CacheBounded /\ CancelledForAReason /\ PipeRunsOn

\* A SetDest that has the lock gives it back, although it waits for answers
\* without a limit (proxy.go:229-230, 246): a pool answers or times out, and the
\* shares that come meanwhile are finitely many.  The exceptions are a share
\* among too many invalid ones, which is never counted as answered
\* (handler_mining.go:102, 128-140), and a share that comes while Wait returns,
\* upon which the program panics (handler_mining.go:72).
SetDestReturns == lock = "set" ~> lock # "set" \/ TooManyInvalid \/ waiter = "panicked"
================================================================================
