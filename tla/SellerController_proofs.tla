------------------------ MODULE SellerController_proofs ------------------------
(***************************************************************************)
(* Proofs, for any number of purchases, events and destinations, that the  *)
(* seller's controller keeps to one run, closes no channel twice, changes  *)
(* no terms under a run and serves only purchases it knows the destination *)
(* of, as long as the flag is not used in the window; and that the futures *)
(* of a node, which have a run or a watcher of the same kind, are over     *)
(* when they leave the collection.                                         *)
(***************************************************************************)
EXTENDS SellerController, FuturesState, TLAPS

\* The flag is set for a live run; with no live run it is set only in the window.
FlagOfRun ==
    /\ Alive # {} => isRunning
    /\ isRunning /\ Alive = {} => InWindow
    /\ InWindow => Alive = {}

OneAlive == \A q, r \in Alive : q = r

\* A live run has not closed its done channel, and its stop channel is closed
\* only while the controller waits for it.
ChannelsOfRun == Alive # {} => doneCh = "open" /\ (stopCh = "closed" => pc = "wait")

\* Where the controller has established that no run is alive.
StoppedBefore == pc \in {"purchase", "set", "load", "start"} => Alive = {}

NoDoubleClose == panic \notin {"close of closed stopCh", "close of closed doneCh"}

Servable(t) == t.purchase # 0 /\ t.dest \in Dest \cup {Empty}

\* Terms that are served, or about to be, were loaded with the destination of a
\* purchase; on the chain only an open contract has none at all.
DestinationKnown ==
    /\ chain.purchase = 0 <=> chain.dest = NoDest
    /\ Alive # {} \/ pc = "start" => Servable(terms)
    /\ op = "restart" /\ pc \in {"check", "stop", "wait", "set"} => Servable(loaded)
    /\ \A t \in serving : Servable(t)

Core ==
    /\ FlagOfRun
    /\ OneAlive
    /\ ChannelsOfRun
    /\ StoppedBefore
    /\ NoDoubleClose
    /\ DestinationKnown

IInv == TypeOK /\ (overtaken \/ Core)

--------------------------------------------------------------------------------
\* Type correctness

\* A step of a run keeps the shapes of the watcher's variables.
LEMMA RunStepType ==
  ASSUME WatcherTypeOK, NEW r \in Run, RunStep(r)
  PROVE  WatcherTypeOK'
<1> USE DEF WatcherTypeOK, RunPlace, Goes, Listens, channelVars, minerVars
<1>1. CASE Enter(r)
  BY <1>1 DEF Enter
<1>2. CASE Delay(r)
  BY <1>2 DEF Delay
<1>3. CASE Top(r)
  BY <1>3 DEF Top, Adjust
<1>4. CASE Tick(r)
  BY <1>4 DEF Tick, Adjust
<1>5. CASE EndOrStop(r)
  BY <1>5 DEF EndOrStop
<1>6. CASE Release(r)
  BY <1>6 DEF Release
<1>7. CASE CloseDone(r)
  BY <1>7 DEF CloseDone
<1>8. CASE Clear(r)
  BY <1>8 DEF Clear
<1> QED
  BY <1>1, <1>2, <1>3, <1>4, <1>5, <1>6, <1>7, <1>8 DEF RunStep

\* So does StartFulfilling,
LEMMA StartType ==
  ASSUME WatcherTypeOK, StartFulfilling, UsesFlag
  PROVE  WatcherTypeOK'
<1>1. run' \in [Run -> RunPlace]
  BY DEF WatcherTypeOK, RunPlace, StartFulfilling, Spawn
<1>2. held' \in [Run -> {"current", "open", "closed"}]
  BY DEF WatcherTypeOK, StartFulfilling, NewChannels
<1> QED
  BY <1>1, <1>2 DEF WatcherTypeOK, StartFulfilling, NewChannels, UsesFlag, InWindow

\* StopFulfilling,
LEMMA StopType ==
  ASSUME WatcherTypeOK, StopFulfilling, UsesFlag
  PROVE  WatcherTypeOK'
BY DEF WatcherTypeOK, StopFulfilling, UsesFlag, InWindow, minerVars

\* SetTerms,
LEMMA SetTermsType ==
  ASSUME WatcherTypeOK, NEW t \in Terms \cup {NilTerms}, SetTerms(t),
         UNCHANGED <<channelVars, run, held, minerVars, over, leaked>>, overtaken' \in BOOLEAN
  PROVE  WatcherTypeOK'
BY DEF WatcherTypeOK, SetTerms, channelVars, minerVars

\* and a step that leaves the watcher alone.
LEMMA SameWatcherType ==
  ASSUME WatcherTypeOK, UNCHANGED <<channelVars, terms, run, held, minerVars, panic, over, leaked>>,
         overtaken' \in BOOLEAN
  PROVE  WatcherTypeOK'
BY DEF WatcherTypeOK, channelVars, minerVars

\* The variables start in shape.
LEMMA InitTypeOK == Init => TypeOK
<1> SUFFICES ASSUME Init PROVE TypeOK
  OBVIOUS
<1>1. purchases \in 0 .. MaxPurchases /\ {0, purchases} \subseteq 0 .. MaxPurchases
  BY WatcherAssumption DEF Init
<1>2. chain \in Terms /\ [chain EXCEPT !.dest = NoDest] \in Terms
  BY <1>1 DEF Init, Terms
<1>3. WatcherTypeOK
  BY <1>2 DEF Init, InitWatcher, WatcherTypeOK, RunPlace
<1> QED
  BY <1>1, <1>2, <1>3 DEF Init, TypeOK

\* Every step keeps the shapes.
LEMMA StepTypeOK == TypeOK /\ [Next]_vars => TypeOK'
<1> SUFFICES ASSUME TypeOK, [Next]_vars PROVE TypeOK'
  OBVIOUS
<1>0a. WatcherTypeOK
  BY DEF TypeOK
<1>0b. UsesFlag => overtaken' \in BOOLEAN
  BY DEF UsesFlag, InWindow
<1>0c. overtaken \in BOOLEAN
  BY <1>0a DEF WatcherTypeOK
<1>1. CASE Purchased
  <2>1. WatcherTypeOK'
    BY <1>0a, <1>0b, <1>1, SameWatcherType DEF Purchased
  <2>2. events' \in Seq(Event)
    BY <1>1 DEF Purchased, Receives, TypeOK
  <2> QED
    BY <1>1, <2>1, <2>2 DEF Purchased, Receives, TypeOK
<1>2. CASE LoadPurchase
  <2>1. WatcherTypeOK'
    <3>1. overtaken' \in BOOLEAN
      BY <1>0b, <1>0c, <1>2 DEF LoadPurchase
    <3>2. SetTerms(chain) \/ UNCHANGED <<terms, panic>>
      BY <1>2 DEF LoadPurchase
    <3> QED
      BY <1>0a, <1>2, <3>1, <3>2, SetTermsType, SameWatcherType DEF LoadPurchase, TypeOK
  <2> QED
    BY <1>2, <2>1 DEF LoadPurchase, chainVars, TypeOK
<1>3. CASE Start
  BY <1>0a, <1>3, StartType DEF Start, chainVars, TypeOK
<1>4. CASE ClosedEarly
  <2>1. events' \in Seq(Event)
    BY <1>4 DEF ClosedEarly, Receives, TypeOK
  <2> QED
    BY <1>0a, <1>0c, <1>4, <2>1, SameWatcherType DEF ClosedEarly, Receives, watcherVars, TypeOK
<1>5. CASE DestinationUpdated
  <2>1. events' \in Seq(Event)
    BY <1>5 DEF DestinationUpdated, Receives, TypeOK
  <2> QED
    BY <1>0a, <1>0c, <1>5, <2>1, SameWatcherType DEF DestinationUpdated, Receives, watcherVars, TypeOK
<1>6. CASE LoadDestination
  <2>1. WatcherTypeOK'
    <3>1. panic' \in {panic, "nil destination"}
      BY <1>6 DEF LoadDestination
    <3> QED
      BY <1>0a, <1>6, <3>1 DEF LoadDestination, channelVars, minerVars, WatcherTypeOK
  <2>2. loaded' \in {loaded, chain, NilTerms}
    BY <1>6 DEF LoadDestination
  <2>3. pc' \in {pc, "check", "select"} /\ op' \in {op, "halt", "none", "restart"}
    BY <1>6 DEF LoadDestination
  <2>4. UNCHANGED <<chain, purchases, events, ending, synthetic>>
    BY <1>6 DEF LoadDestination, chainVars
  <2> QED
    BY <2>1, <2>2, <2>3, <2>4 DEF TypeOK
<1>7. CASE Check
  BY <1>0a, <1>0b, <1>7, SameWatcherType DEF Check, AfterStop, chainVars, TypeOK
<1>8. CASE Stop
  BY <1>0a, <1>8, StopType DEF Stop, chainVars, TypeOK
<1>9. CASE Wait
  BY <1>0a, <1>0c, <1>9, SameWatcherType DEF Wait, AfterStop, watcherVars, chainVars, TypeOK
<1>10. CASE SetLoaded
  <2>1. WatcherTypeOK'
    BY <1>0a, <1>0b, <1>10, SetTermsType DEF SetLoaded, TypeOK
  <2> QED
    BY <1>10, <2>1 DEF SetLoaded, chainVars, TypeOK
<1>11. CASE Load
  <2>1. WatcherTypeOK'
    <3>1. overtaken' \in BOOLEAN
      BY <1>0b, <1>0c, <1>11 DEF Load
    <3>2. SetTerms(chain) \/ UNCHANGED <<terms, panic>>
      BY <1>11 DEF Load
    <3> QED
      BY <1>0a, <1>11, <3>1, <3>2, SetTermsType, SameWatcherType DEF Load, TypeOK
  <2> QED
    BY <1>11, <2>1 DEF Load, chainVars, TypeOK
<1>12. CASE Ended
  BY <1>12 DEF Ended, Reset, NewChannels, controllerVars, chainVars, WatcherTypeOK, TypeOK
<1>13. CASE Exit
  BY <1>0a, <1>0c, <1>13, SameWatcherType DEF Exit, watcherVars, chainVars, TypeOK
<1>14. CASE WatcherStep /\ UNCHANGED <<controllerVars, chainVars>>
  <2>1. WatcherTypeOK'
    <3>1. CASE TaskEnds
      BY <1>0a, <3>1 DEF TaskEnds, channelVars, WatcherTypeOK
    <3>2. CASE TakeNilTask
      BY <1>0a, <3>2 DEF TakeNilTask, channelVars, minerVars, WatcherTypeOK
    <3>3. ASSUME NEW r \in Run, Wedge(r) PROVE WatcherTypeOK'
      BY <1>0a, <3>3 DEF Wedge, Goes, RunPlace, channelVars, minerVars, WatcherTypeOK
    <3> QED
      BY <1>0a, <1>14, <3>1, <3>2, <3>3, RunStepType DEF WatcherStep
  <2> QED
    BY <1>14, <2>1 DEF controllerVars, chainVars, TypeOK
<1>15. CASE Environment
  <2> USE DEF Emits, Event, watcherVars, controllerVars, TypeOK
  <2>1. CASE Purchase
    <3>1. chain' \in Terms /\ purchases' \in 0 .. MaxPurchases
      BY <2>1, WatcherAssumption DEF Purchase, Terms
    <3> QED
      BY <1>0a, <1>0c, <2>1, <3>1, SameWatcherType DEF Purchase
  <2>2. CASE CloseEarly
    <3>1. chain' \in Terms
      BY <2>2, WatcherAssumption DEF CloseEarly, Terms
    <3> QED
      BY <1>0a, <1>0c, <2>2, <3>1, SameWatcherType DEF CloseEarly
  <2>3. CASE UpdateDestination
    <3>1. chain' \in Terms
      BY <2>3 DEF UpdateDestination, Terms
    <3> QED
      BY <1>0a, <1>0c, <2>3, <3>1, SameWatcherType DEF UpdateDestination
  <2>4. CASE TimePasses
    <3>1. over' \subseteq 1 .. MaxPurchases
      <4>1. chain.purchase \in 0 .. MaxPurchases
        BY DEF Terms
      <4>2. chain.purchase \in 1 .. MaxPurchases
        BY <2>4, <4>1, WatcherAssumption DEF TimePasses
      <4> QED
        BY <1>0a, <2>4, <4>2 DEF TimePasses, WatcherTypeOK
    <3>2. WatcherTypeOK'
      BY <1>0a, <2>4, <3>1 DEF TimePasses, channelVars, minerVars, WatcherTypeOK
    <3> QED
      BY <2>4, <3>2 DEF TimePasses, chainVars
  <2>5. CASE Cancelled
    BY <1>0a, <1>0c, <2>5, SameWatcherType DEF Cancelled
  <2>6. CASE SubscriptionEnds
    <3>1. WatcherTypeOK'
      BY <1>0a, <2>6 DEF SubscriptionEnds, channelVars, minerVars, WatcherTypeOK
    <3>2. ending' \subseteq {"sub", "ctx"}
      BY <2>6 DEF SubscriptionEnds
    <3> QED
      BY <2>6, <3>1, <3>2 DEF SubscriptionEnds
  <2> QED
    BY <1>15, <2>1, <2>2, <2>3, <2>4, <2>5, <2>6 DEF Environment
<1>16. CASE UNCHANGED vars
  BY <1>0a, <1>0c, <1>16, SameWatcherType DEF vars, watcherVars, controllerVars, chainVars, TypeOK
<1> QED
  BY <1>1, <1>2, <1>3, <1>4, <1>5, <1>6, <1>7, <1>8, <1>9, <1>10, <1>11, <1>12, <1>13, <1>14, <1>15, <1>16
     DEF Next, Controller

--------------------------------------------------------------------------------
\* Where the runs are

\* While no run moves, the same runs are alive, inside or outside the window.
LEMMA RunsStay ==
  ASSUME UNCHANGED run
  PROVE  Alive' = Alive /\ (InWindow' <=> InWindow)
BY DEF Alive, InWindow

\* One run moves, the others stay.
LEMMA RunMoves ==
  ASSUME run \in [Run -> RunPlace],
         NEW r \in Run, NEW place, Goes(r, place),
         run[r] \notin {"none", "clear"}, place \notin {"none", "clear"}
  PROVE  r \in Alive /\ Alive' = Alive /\ (InWindow' <=> InWindow)
BY DEF Alive, InWindow, Goes

\* Core holds when the controller is made.
LEMMA CoreInit == Init => Core
<1> SUFFICES ASSUME Init PROVE Core
  OBVIOUS
<1>1. Alive = {} /\ ~ InWindow
  BY DEF Init, InitWatcher, Alive, InWindow
<1> QED
  BY <1>1 DEF Init, InitWatcher, Core, FlagOfRun, OneAlive, ChannelsOfRun, StoppedBefore, NoDoubleClose,
              DestinationKnown

\* Every step of the watcher keeps Core: a run that moves on stays the only
\* one, and when it closes its done channel nobody has closed it before.
LEMMA CoreRunStep ==
  ASSUME TypeOK, Core, NEW r \in Run, RunStep(r), UNCHANGED <<controllerVars, chainVars>>
  PROVE  Core'
<1> USE DEF controllerVars, chainVars
<1>0. run \in [Run -> RunPlace]
  BY DEF TypeOK, WatcherTypeOK
<1>1. CASE Enter(r)
  <2>1. Alive' = Alive /\ (InWindow' <=> InWindow)
    BY <1>0, <1>1, RunMoves DEF Enter
  <2> QED
    BY <1>1, <2>1 DEF Enter, channelVars, minerVars, Core, FlagOfRun, OneAlive, ChannelsOfRun, StoppedBefore,
                      NoDoubleClose, DestinationKnown, Servable
<1>2. CASE Delay(r)
  <2>1. Alive' = Alive /\ (InWindow' <=> InWindow)
    BY <1>0, <1>2, RunMoves DEF Delay
  <2> QED
    BY <1>2, <2>1 DEF Delay, channelVars, Core, FlagOfRun, OneAlive, ChannelsOfRun, StoppedBefore,
                      NoDoubleClose, DestinationKnown, Servable
<1>3. CASE Top(r)
  <2>1. r \in Alive /\ Alive' = Alive /\ (InWindow' <=> InWindow)
    BY <1>0, <1>3, RunMoves DEF Top
  <2>2. Servable(terms)
    BY <2>1 DEF Core, DestinationKnown
  <2>3. \A t \in serving' : Servable(t)
    BY <1>3, <2>2 DEF Top, Adjust, minerVars, Core, DestinationKnown
  <2> QED
    BY <1>3, <2>1, <2>3 DEF Top, channelVars, Core, FlagOfRun, OneAlive, ChannelsOfRun, StoppedBefore,
                      NoDoubleClose, DestinationKnown, Servable
<1>4. CASE Tick(r)
  <2>1. r \in Alive /\ Alive' = Alive /\ (InWindow' <=> InWindow)
    <3>1. CASE Goes(r, "top")
      BY <1>0, <1>4, <3>1, RunMoves DEF Tick
    <3>2. CASE UNCHANGED run
      BY <1>4, <3>2, RunsStay DEF Tick, Alive
    <3> QED
      BY <1>4, <3>1, <3>2 DEF Tick
  <2>2. Servable(terms)
    BY <2>1 DEF Core, DestinationKnown
  <2>3. \A t \in serving' : Servable(t)
    BY <1>4, <2>2 DEF Tick, Adjust, minerVars, Core, DestinationKnown
  <2> QED
    BY <1>4, <2>1, <2>3 DEF Tick, channelVars, Core, FlagOfRun, OneAlive, ChannelsOfRun, StoppedBefore,
                      NoDoubleClose, DestinationKnown, Servable
<1>5. CASE EndOrStop(r)
  <2>1. Alive' = Alive /\ (InWindow' <=> InWindow)
    BY <1>0, <1>5, RunMoves DEF EndOrStop
  <2> QED
    BY <1>5, <2>1 DEF EndOrStop, channelVars, minerVars, Core, FlagOfRun, OneAlive, ChannelsOfRun,
                      StoppedBefore, NoDoubleClose, DestinationKnown, Servable
<1>6. CASE Release(r)
  <2>1. Alive' = Alive /\ (InWindow' <=> InWindow)
    BY <1>0, <1>6, RunMoves DEF Release
  <2> QED
    BY <1>6, <2>1 DEF Release, channelVars, Core, FlagOfRun, OneAlive, ChannelsOfRun, StoppedBefore,
                      NoDoubleClose, DestinationKnown, Servable
<1>7. CASE CloseDone(r)
  <2>1. r \in Alive
    BY <1>0, <1>7 DEF CloseDone, Alive
  <2>2. Alive = {r} /\ doneCh = "open"
    BY <2>1 DEF Core, OneAlive, ChannelsOfRun
  <2>3. Alive' = {} /\ InWindow'
    BY <1>0, <1>7, <2>2 DEF CloseDone, Goes, Alive, InWindow
  <2> QED
    BY <1>7, <2>2, <2>3 DEF CloseDone, minerVars, Core, FlagOfRun, OneAlive, ChannelsOfRun, StoppedBefore,
                      NoDoubleClose, DestinationKnown, Servable
<1>8. CASE Clear(r)
  <2>1. Alive = {}
    BY <1>8 DEF Clear, InWindow, Core, FlagOfRun
  <2>2. Alive' = {}
    BY <1>0, <1>8, <2>1 DEF Clear, Goes, Alive
  <2> QED
    BY <1>8, <2>1, <2>2 DEF Clear, minerVars, Core, FlagOfRun, OneAlive, ChannelsOfRun, StoppedBefore,
                      NoDoubleClose, DestinationKnown, Servable
<1> QED
  BY <1>1, <1>2, <1>3, <1>4, <1>5, <1>6, <1>7, <1>8 DEF RunStep

\* Once the flag was used in the window this stays on record.
LEMMA OvertakenStays == Next /\ overtaken => overtaken'
BY DEF Next, Controller, Purchased, LoadPurchase, Start, ClosedEarly, DestinationUpdated, LoadDestination,
       Check, Stop, Wait, SetLoaded, Load, Ended, Exit, WatcherStep, RunStep, Enter, Delay, Top, Tick,
       EndOrStop, Release, CloseDone, Clear, Wedge, TaskEnds, TakeNilTask, Environment, Purchase, CloseEarly,
       UpdateDestination, TimePasses, Cancelled, SubscriptionEnds, UsesFlag, watcherVars

\* With the flag not used in the window, it tells whether a run is alive.
LEMMA FlagRead ==
  ASSUME TypeOK, Core, UsesFlag, ~ overtaken'
  PROVE  ~ InWindow /\ (isRunning <=> Alive # {})
BY DEF UsesFlag, Core, FlagOfRun, TypeOK, WatcherTypeOK

\* SetTerms, when no run is alive, stores what it is given.
LEMMA SetTermsIdle ==
  ASSUME TypeOK, Core, NEW t, SetTerms(t), Alive = {}, UsesFlag, ~ overtaken'
  PROVE  t # NilTerms => terms' = t
BY FlagRead DEF SetTerms

\* The controller starts a run only when none is alive, and changes channels and terms
\* only then.
LEMMA CoreController ==
  ASSUME TypeOK, Core, Controller, ~ overtaken'
  PROVE  Core'
<1> USE DEF Core
<1>0. chain \in Terms /\ chain # NilTerms
  <2>1. chain \in Terms /\ chain.dest \in Dest \cup {NoDest, Empty, Garbled}
    BY DEF TypeOK, Terms
  <2>2. NilTerms.dest = "nil pointer"
    BY DEF NilTerms
  <2> QED
    BY <2>1, <2>2, ControllerAssumption DEF NoDest, Empty, Garbled
<1>1. CASE Purchased
  BY <1>1, FlagRead, RunsStay DEF Purchased, Receives, channelVars, minerVars, FlagOfRun, OneAlive,
     ChannelsOfRun, StoppedBefore, NoDoubleClose, DestinationKnown, Servable
<1>2. CASE LoadPurchase
  <2>1. Alive = {}
    BY <1>2 DEF LoadPurchase, StoppedBefore
  <2>2. Alive' = {} /\ (InWindow' <=> InWindow)
    BY <1>2, <2>1, RunsStay DEF LoadPurchase
  <2>3. pc' = "start" => terms' = chain /\ Servable(chain)
    BY <1>0, <1>2, <2>1, SetTermsIdle DEF LoadPurchase, Servable, DestinationKnown, Terms
  <2> QED
    BY <1>2, <2>1, <2>2, <2>3 DEF LoadPurchase, SetTerms, channelVars, minerVars, chainVars, FlagOfRun,
       OneAlive, ChannelsOfRun, StoppedBefore, NoDoubleClose, DestinationKnown, Servable
<1>3. CASE Start
  <2>1. Alive = {} /\ ~ InWindow
    BY <1>3, FlagRead DEF Start, StoppedBefore
  <2>2. PICK r \in Run : run' = [run EXCEPT ![r] = "begin"]
    BY <1>3 DEF Start, StartFulfilling, Spawn
  <2>3. Alive' = {r} /\ ~ InWindow'
    BY <2>1, <2>2 DEF Alive, InWindow, TypeOK, WatcherTypeOK
  <2> QED
    BY <1>3, <2>3 DEF Start, StartFulfilling, NewChannels, chainVars, FlagOfRun, OneAlive,
       ChannelsOfRun, StoppedBefore, NoDoubleClose, DestinationKnown, Servable
<1>4. CASE ClosedEarly
  BY <1>4, RunsStay DEF ClosedEarly, Receives, watcherVars, channelVars, minerVars, FlagOfRun, OneAlive,
     ChannelsOfRun, StoppedBefore, NoDoubleClose, DestinationKnown, Servable
<1>5. CASE DestinationUpdated
  BY <1>5, RunsStay DEF DestinationUpdated, Receives, watcherVars, channelVars, minerVars, FlagOfRun,
     OneAlive, ChannelsOfRun, StoppedBefore, NoDoubleClose, DestinationKnown, Servable
<1>6. CASE LoadDestination
  <2>1. chain.dest \in Dest => Servable(chain)
    BY WatcherAssumption DEF DestinationKnown, Servable
  <2> QED
    BY <1>6, <2>1, RunsStay DEF LoadDestination, channelVars, minerVars, chainVars, FlagOfRun, OneAlive,
     ChannelsOfRun, StoppedBefore, NoDoubleClose, DestinationKnown, Servable
<1>7. CASE Check
  BY <1>7, FlagRead, RunsStay DEF Check, AfterStop, channelVars, minerVars, chainVars, FlagOfRun, OneAlive,
     ChannelsOfRun, StoppedBefore, NoDoubleClose, DestinationKnown, Servable
<1>8. CASE Stop
  <2>1. isRunning => stopCh = "open"
    BY <1>8, FlagRead DEF Stop, ChannelsOfRun, TypeOK, WatcherTypeOK
  <2> QED
    BY <1>8, <2>1, RunsStay DEF Stop, StopFulfilling, minerVars, chainVars, FlagOfRun, OneAlive,
       ChannelsOfRun, StoppedBefore, NoDoubleClose, DestinationKnown, Servable
<1>9. CASE Wait
  <2>1. Alive = {}
    BY <1>9 DEF Wait, ChannelsOfRun
  <2> QED
    BY <1>9, <2>1, RunsStay DEF Wait, AfterStop, watcherVars, channelVars, minerVars, chainVars, FlagOfRun,
       OneAlive, ChannelsOfRun, StoppedBefore, NoDoubleClose, DestinationKnown, Servable
<1>10. CASE SetLoaded
  <2>1. Alive = {}
    BY <1>10 DEF SetLoaded, StoppedBefore
  <2>2. Alive' = {} /\ (InWindow' <=> InWindow)
    BY <1>10, <2>1, RunsStay DEF SetLoaded
  <2>3. pc' = "start" => terms' = loaded /\ Servable(loaded)
    <3>1. pc' = "start" => Servable(loaded) /\ loaded # NilTerms
      <4>1. pc' = "start" => Servable(loaded)
        BY <1>10 DEF SetLoaded, DestinationKnown
      <4>2. ~ Servable(NilTerms)
        BY DEF Servable, NilTerms
      <4> QED
        BY <4>1, <4>2
    <3> QED
      BY <1>10, <2>1, <3>1, SetTermsIdle DEF SetLoaded
  <2> QED
    BY <1>10, <2>2, <2>3 DEF SetLoaded, SetTerms, channelVars, minerVars, chainVars, FlagOfRun,
       OneAlive, ChannelsOfRun, StoppedBefore, NoDoubleClose, DestinationKnown, Servable
<1>11. CASE Load
  <2>1. Alive' = Alive /\ (InWindow' <=> InWindow)
    BY <1>11, RunsStay DEF Load
  <2>2. Alive # {} => terms' = terms
    BY <1>11, FlagRead DEF Load, SetTerms
  <2> QED
    BY <1>11, <2>1, <2>2 DEF Load, SetTerms, channelVars, minerVars, chainVars, FlagOfRun, OneAlive,
       ChannelsOfRun, StoppedBefore, NoDoubleClose, DestinationKnown, Servable
<1>12. CASE Ended
  <2>1. Alive = {}
    BY <1>12 DEF Ended, ChannelsOfRun
  <2> QED
    BY <1>12, <2>1, RunsStay DEF Ended, Reset, NewChannels, controllerVars, chainVars, FlagOfRun, OneAlive,
       ChannelsOfRun, StoppedBefore, NoDoubleClose, DestinationKnown, Servable
<1>13. CASE Exit
  BY <1>13, RunsStay DEF Exit, watcherVars, channelVars, minerVars, chainVars, FlagOfRun, OneAlive,
     ChannelsOfRun, StoppedBefore, NoDoubleClose, DestinationKnown, Servable
<1> QED
  BY <1>1, <1>2, <1>3, <1>4, <1>5, <1>6, <1>7, <1>8, <1>9, <1>10, <1>11, <1>12, <1>13 DEF Controller

\* Events, time and miners do not touch flag, channels and runs.
LEMMA CoreEnvironment ==
  ASSUME TypeOK, Core, Environment
  PROVE  Core'
<1>0. Purchase => chain'.purchase # 0 /\ chain'.dest # NoDest
  <2> SUFFICES ASSUME Purchase PROVE chain'.purchase # 0 /\ chain'.dest # NoDest
    OBVIOUS
  <2>1. purchases \in Nat /\ purchases' = purchases + 1
    BY WatcherAssumption DEF Purchase, TypeOK
  <2>2. PICK d \in Dest \cup {Empty, Garbled} : chain' = [purchase |-> purchases', dest |-> d]
    BY DEF Purchase
  <2> QED
    BY <2>1, <2>2, WatcherAssumption DEF NoDest, Empty, Garbled
<1> USE DEF Core, watcherVars, channelVars, minerVars, controllerVars, chainVars, FlagOfRun, OneAlive,
            ChannelsOfRun, StoppedBefore, NoDoubleClose, DestinationKnown, Servable
<1>1. Alive' = Alive /\ (InWindow' <=> InWindow)
  BY RunsStay DEF Environment, Purchase, CloseEarly, UpdateDestination, TimePasses, Cancelled, SubscriptionEnds
<1>2. CASE Purchase
  BY <1>0, <1>1, <1>2 DEF Purchase
<1>3. CASE CloseEarly
  BY <1>1, <1>3 DEF CloseEarly
<1>4. CASE UpdateDestination
  <2>1. chain.purchase' = chain.purchase /\ chain.purchase # 0
    BY <1>4 DEF UpdateDestination, TypeOK, Terms
  <2>2. PICK d \in Dest \cup {Empty, Garbled} : chain'.dest = d
    BY <1>4 DEF UpdateDestination, TypeOK, Terms
  <2>3. chain'.dest # NoDest
    BY <2>2, WatcherAssumption DEF NoDest, Empty, Garbled
  <2> QED
    BY <1>1, <1>4, <2>1, <2>3 DEF UpdateDestination
<1>5. CASE TimePasses
  BY <1>1, <1>5 DEF TimePasses
<1>6. CASE Cancelled
  BY <1>1, <1>6 DEF Cancelled
<1>7. CASE SubscriptionEnds
  BY <1>1, <1>7 DEF SubscriptionEnds
<1> QED
  BY <1>2, <1>3, <1>4, <1>5, <1>6, <1>7 DEF Environment

\* Every step that does not use the flag in the window preserves Core.
LEMMA CoreStep ==
  ASSUME TypeOK, Core, [Next]_vars, ~ overtaken'
  PROVE  Core'
<1>1. CASE Controller
  BY <1>1, CoreController
<1>2. CASE WatcherStep /\ UNCHANGED <<controllerVars, chainVars>>
  <2>1. CASE TaskEnds
    <3>1. Alive' = Alive /\ (InWindow' <=> InWindow)
      BY <2>1, RunsStay DEF TaskEnds
    <3>2. serving' \subseteq serving
      BY <2>1 DEF TaskEnds
    <3>3. UNCHANGED <<isRunning, stopCh, doneCh, terms, panic, pc, op, loaded, chain>>
      BY <1>2, <2>1 DEF TaskEnds, channelVars, controllerVars, chainVars
    <3> QED
      BY <3>1, <3>2, <3>3 DEF Core, FlagOfRun, OneAlive, ChannelsOfRun, StoppedBefore, NoDoubleClose,
         DestinationKnown, Servable
  <2>2. CASE TakeNilTask
    <3>1. Alive' = Alive /\ (InWindow' <=> InWindow)
      BY <2>2, RunsStay DEF TakeNilTask
    <3>2. panic' = "nil destination" /\ UNCHANGED <<isRunning, stopCh, doneCh, terms, serving, pc, op, loaded, chain>>
      BY <1>2, <2>2 DEF TakeNilTask, channelVars, minerVars, controllerVars, chainVars
    <3> QED
      BY <3>1, <3>2 DEF Core, FlagOfRun, OneAlive, ChannelsOfRun, StoppedBefore, NoDoubleClose,
         DestinationKnown, Servable
  <2>3. ASSUME NEW r \in Run, Wedge(r) PROVE Core'
    <3>1. Alive' = Alive /\ (InWindow' <=> InWindow)
      BY <2>3, RunMoves DEF Wedge, TypeOK, WatcherTypeOK
    <3>2. UNCHANGED <<isRunning, stopCh, doneCh, terms, panic, serving, pc, op, loaded, chain>>
      BY <1>2, <2>3 DEF Wedge, channelVars, minerVars, controllerVars, chainVars
    <3> QED
      BY <3>1, <3>2 DEF Core, FlagOfRun, OneAlive, ChannelsOfRun, StoppedBefore, NoDoubleClose,
         DestinationKnown, Servable
  <2> QED
    BY <1>2, <2>1, <2>2, <2>3, CoreRunStep DEF WatcherStep
<1>3. CASE Environment
  BY <1>3, CoreEnvironment
<1>4. CASE UNCHANGED vars
  BY <1>4, RunsStay DEF vars, watcherVars, channelVars, minerVars, controllerVars, chainVars, Core,
     FlagOfRun, OneAlive, ChannelsOfRun, StoppedBefore, NoDoubleClose, DestinationKnown, Servable
<1> QED
  BY <1>1, <1>2, <1>3, <1>4 DEF Next

--------------------------------------------------------------------------------
\* The inductive invariant, and what follows from it

\* Types always hold, and Core until the flag is used in the window.
THEOREM Invariance == Spec => []IInv
<1>1. Init => IInv
  BY InitTypeOK, CoreInit DEF IInv
<1>2. IInv /\ [Next]_vars => IInv'
  <2> SUFFICES ASSUME IInv, [Next]_vars PROVE IInv'
    OBVIOUS
  <2>1. TypeOK'
    BY StepTypeOK DEF IInv
  <2>2. overtaken => overtaken'
    BY OvertakenStays DEF vars, watcherVars
  <2> QED
    BY <2>1, <2>2, CoreStep DEF IInv
<1> QED
  BY <1>1, <1>2, PTL DEF Spec

\* The flag, the channels, the terms and the controller's place keep their
\* types, the queue of events holds events only (controller_seller.go:21-29,
\* contract_seller_v2.go:26-55).
THEOREM TypeCorrectness == Spec => []TypeOK
<1>1. IInv => TypeOK
  BY DEF IInv
<1> QED
  BY <1>1, Invariance, PTL

\* Unless the flag is used in the window between close(doneCh) and isRunning =
\* false (contract_seller_v2.go:95-100), the controller never starts a second
\* goroutine beside a live one, through any purchases, close-outs, changes of
\* destination and failed calls.
THEOREM KeepsOneRun == Spec => []OneRun
<1>1. IInv => OneRun
  BY DEF IInv, Core, OneAlive, OneRun
<1> QED
  BY <1>1, Invariance, PTL

\* Under the same condition a live run is always flagged, so that every stop
\* reaches it.
THEOREM FlagsLiveRuns == Spec => []FlagIsRight
<1>1. IInv => FlagIsRight
  BY DEF IInv, Core, FlagOfRun, FlagIsRight
<1> QED
  BY <1>1, Invariance, PTL

\* Under the same condition neither channel of the watcher is closed twice,
\* which would crash the program.
THEOREM ClosesOnce == Spec => []ClosedOnce
<1>1. IInv => ClosedOnce
  BY DEF IInv, Core, NoDoubleClose, ClosedOnce
<1> QED
  BY <1>1, Invariance, PTL

\* Under the same condition miners only work for contracts that are purchased,
\* and for the destination of the purchase's pool data, never for one that could
\* not be decrypted; for nil if the purchase has no pool data (terms.go:83).
THEOREM ServesPurchases == Spec => []ServesThePurchase
<1>1. IInv => ServesThePurchase
  BY DEF IInv, Core, DestinationKnown, Servable, ServesThePurchase
<1> QED
  BY <1>1, Invariance, PTL

\* Under the same condition no step changes the terms while a run works with
\* them (contract_seller_v2.go:630-646).
THEOREM FixesTerms == Spec => TermsFixedWhileRunning
<1>1. IInv /\ [Next]_vars => [terms' # terms => Alive = {} \/ overtaken']_vars
  <2> SUFFICES ASSUME IInv, Next, terms' # terms, ~ overtaken' PROVE Alive = {}
    OBVIOUS
  <2>1. TypeOK /\ Core
    BY OvertakenStays DEF IInv
  <2>2. CASE Controller
    BY <2>1, <2>2, FlagRead DEF Controller, Purchased, LoadPurchase, Start, StartFulfilling, ClosedEarly,
       DestinationUpdated, LoadDestination, Check, Stop, StopFulfilling, Wait, SetLoaded, Load, Ended, Exit,
       SetTerms, watcherVars
  <2>3. CASE WatcherStep
    BY <2>3 DEF WatcherStep, RunStep, Enter, Delay, Top, Tick, EndOrStop, Release, CloseDone, Clear, Wedge, TaskEnds, TakeNilTask
  <2>4. CASE Environment
    BY <2>4 DEF Environment, Purchase, CloseEarly, UpdateDestination, TimePasses, Cancelled,
       SubscriptionEnds, watcherVars
  <2> QED
    BY <2>2, <2>3, <2>4 DEF Next
<1> QED
  BY <1>1, Invariance, PTL DEF Spec, TermsFixedWhileRunning

\* Unless the flag is used in the window, the controller knows of the one run
\* there is, and that run serves a purchase it loaded with its destination.
THEOREM RunsOne == Spec => []OneRunServes
  BY KeepsOneRun, FlagsLiveRuns, ServesPurchases, PTL DEF OneRunServes

--------------------------------------------------------------------------------
\* Miners are released

\* The miners of a contract are all in the statistics that the release of its
\* run goes through, and there is such a run.
MinersInv ==
    /\ serving \subseteq recorded
    /\ serving # {} => \E r \in Alive : run[r] \in {"top", "cycle", "release", "wedged"}

\* Where no run is alive, no miner serves.
LEMMA NobodyServes == MinersInv /\ Alive = {} => serving = {}
BY DEF MinersInv

\* Steps that leave the goroutines and the miners alone.
LEMMA MinersKept == MinersInv /\ UNCHANGED <<run, minerVars>> => MinersInv'
BY DEF MinersInv, minerVars, Alive

\* A run releases what it took before it is over.
LEMMA MinersRunStep ==
  ASSUME TypeOK, Core, MinersInv, NEW r \in Run, RunStep(r), ~ leaked'
  PROVE  MinersInv'
<1>0. run \in [Run -> RunPlace]
  BY DEF TypeOK, WatcherTypeOK
<1>1. ASSUME run[r] \notin {"none", "clear"} PROVE Alive = {r}
  BY <1>1 DEF Alive, Core, OneAlive
<1>2. ASSUME run[r] \in {"begin", "delay", "close"} PROVE serving = {}
  BY <1>1, <1>2 DEF MinersInv
<1>3. ASSUME NEW place \in {"top", "cycle", "release"}, Goes(r, place) PROVE r \in Alive' /\ run'[r] = place
  BY <1>0, <1>3 DEF Goes, Alive
<1>4. CASE Enter(r)
  BY <1>2, <1>4 DEF Enter, minerVars, MinersInv
<1>5. CASE Delay(r)
  BY <1>2, <1>5 DEF Delay, MinersInv
<1>6. CASE Top(r)
  <2>1. CASE Goes(r, "cycle") /\ Adjust
    <3>1. serving' \subseteq recorded'
      BY <2>1 DEF Adjust, minerVars, MinersInv
    <3> QED
      BY <1>3, <2>1, <3>1 DEF MinersInv
  <2>2. CASE Goes(r, "close") /\ leaked' = (leaked \/ serving # {}) /\ UNCHANGED minerVars
    BY <2>2 DEF minerVars, MinersInv
  <2> QED
    BY <1>6, <2>1, <2>2 DEF Top
<1>7. CASE Tick(r)
  <2>1. CASE Adjust /\ UNCHANGED run
    <3>1. serving' \subseteq recorded'
      BY <2>1 DEF Adjust, minerVars, MinersInv
    <3>2. run[r] = "cycle" /\ r \in Alive'
      BY <1>7, <2>1 DEF Tick, Alive
    <3> QED
      BY <2>1, <3>1, <3>2 DEF MinersInv
  <2>2. CASE Goes(r, "top") /\ UNCHANGED minerVars
    BY <1>3, <2>2 DEF minerVars, MinersInv
  <2> QED
    BY <1>7, <2>1, <2>2 DEF Tick
<1>8. CASE EndOrStop(r)
  BY <1>3, <1>8 DEF EndOrStop, minerVars, MinersInv
<1>9. CASE Release(r)
  BY <1>9 DEF Release, MinersInv
<1>10. CASE CloseDone(r)
  BY <1>2, <1>10 DEF CloseDone, minerVars, MinersInv
<1>11. CASE Clear(r)
  <2>1. Alive = {}
    BY <1>11 DEF Clear, InWindow, Core, FlagOfRun
  <2> QED
    BY <1>11, <2>1, NobodyServes DEF Clear, minerVars, MinersInv
<1> QED
  BY <1>4, <1>5, <1>6, <1>7, <1>8, <1>9, <1>10, <1>11 DEF RunStep

\* Every step preserves what is known of the miners that serve.
LEMMA MinersStep ==
  ASSUME TypeOK, Core, MinersInv, [Next]_vars, ~ overtaken', ~ leaked'
  PROVE  MinersInv'
<1>1. CASE Start
  <2>1. serving = {}
    BY <1>1, NobodyServes DEF Start, Core, StoppedBefore
  <2> QED
    BY <1>1, <2>1 DEF Start, StartFulfilling, MinersInv
<1>2. CASE Ended
  <2>1. serving = {}
    BY <1>2, NobodyServes DEF Ended, Core, ChannelsOfRun
  <2> QED
    BY <1>2, <2>1 DEF Ended, MinersInv
<1>3. CASE Purchased \/ LoadPurchase \/ ClosedEarly \/ DestinationUpdated \/ LoadDestination \/ Check \/ Stop
           \/ Wait \/ SetLoaded \/ Load \/ Exit
  BY <1>3, MinersKept DEF Purchased, LoadPurchase, ClosedEarly, DestinationUpdated, LoadDestination, Check, Stop,
     StopFulfilling, Wait, SetLoaded, Load, Exit, watcherVars
<1>4. CASE WatcherStep
  <2>1. CASE TaskEnds
    BY <2>1 DEF TaskEnds, MinersInv, Alive
  <2>2. CASE TakeNilTask
    BY <2>2, MinersKept DEF TakeNilTask
  <2>3. ASSUME NEW r \in Run, Wedge(r) PROVE MinersInv'
    <3>1. run[r] \notin {"none", "clear"} /\ Alive = {r}
      BY <2>3 DEF Wedge, Alive, Core, OneAlive
    <3>2. r \in Alive' /\ run'[r] = "wedged" /\ UNCHANGED minerVars
      BY <2>3 DEF Wedge, Goes, Alive, TypeOK, WatcherTypeOK
    <3> QED
      BY <3>1, <3>2 DEF MinersInv, minerVars
  <2> QED
    BY <1>4, <2>1, <2>2, <2>3, MinersRunStep DEF WatcherStep
<1>5. CASE Environment
  BY <1>5, MinersKept DEF Environment, Purchase, CloseEarly, UpdateDestination, TimePasses, Cancelled,
     SubscriptionEnds, watcherVars
<1>6. CASE UNCHANGED vars
  BY <1>6, MinersKept DEF vars, watcherVars
<1> QED
  BY <1>1, <1>2, <1>3, <1>4, <1>5, <1>6 DEF Next, Controller

\* A run that left its miners behind stays on record.
LEMMA LeakStays == Next /\ leaked => leaked'
BY DEF Next, Controller, Purchased, LoadPurchase, Start, StartFulfilling, ClosedEarly, DestinationUpdated,
       LoadDestination, Check, Stop, StopFulfilling, Wait, SetLoaded, Load, Ended, Exit, WatcherStep, RunStep,
       Enter, Delay, Top, Tick, EndOrStop, Release, CloseDone, Clear, Wedge, TaskEnds, TakeNilTask, Environment, Purchase,
       CloseEarly, UpdateDestination, TimePasses, Cancelled, SubscriptionEnds, watcherVars

\* Unless the flag is used in the window, or a run returned at the head of a
\* cycle (contract_seller_v2.go:187-192), every full miner of the contract is
\* released, or its task has ended, when the contract's run is over.
THEOREM ReleasesMiners == Spec => []MinersReleased
<1> DEFINE Inv == overtaken \/ leaked \/ MinersInv
<1>1. Init => Inv
  BY DEF Init, InitWatcher, MinersInv
<1>2. IInv /\ Inv /\ [Next]_vars => Inv'
  <2> SUFFICES ASSUME IInv, Inv, [Next]_vars PROVE Inv'
    OBVIOUS
  <2>1. (overtaken => overtaken') /\ (leaked => leaked')
    BY OvertakenStays, LeakStays DEF vars, watcherVars
  <2> QED
    BY <2>1, MinersStep DEF IInv
<1>3. Inv => MinersReleased
  BY NobodyServes DEF MinersReleased
<1> QED
  BY Invariance, <1>1, <1>2, <1>3, PTL DEF Spec

--------------------------------------------------------------------------------
\* The futures of a node: FuturesNode with the watcher of the seller above

Futures == INSTANCE FuturesNode

\* A sold contract runs once: the flag, the done channel, and the controller that
\* returns say that the run is over, and only then is the contract forgotten.
SoldIsOver ==
    /\ run \in [Run -> RunPlace]
    /\ armed => \A r \in Run : run[r] = "none"
    /\ \A q, r \in Run : run[q] # "none" /\ run[r] # "none" => q = r
    /\ doneCh = "closed" \/ ~ isRunning \/ cpc \in {"exit", "done"} => Alive = {}
    /\ exitCh = "closed" \/ ~ listed => cpc = "done"

\* A judged contract is delivered once: its controller leaves the loop for a watcher
\* that is over, or when the range ends.
JudgedIsOver ==
    /\ armed => vRun = "none" /\ vDoneCh = "open"
    /\ vDoneCh = "closed" => ~ Futures!Validator!Alive
    /\ cpc \in {"close", "sleep", "exit", "done"} => vDoneCh = "closed" \/ ctxDone
    /\ exitCh = "closed" \/ ~ listed => cpc = "done"

\* Of the two, the one for the node's role.
FuturesInv ==
    /\ role = "seller" => SoldIsOver
    /\ role = "validator" => JudgedIsOver

\* The watcher of a sold future is the seller's watcher.
LEMMA SameRuns == Futures!Seller!Run = Run /\ Futures!Seller!Alive = Alive
BY DEF Run, Alive, Futures!Seller!Run, Futures!Seller!Alive

\* The goroutine of the run goes on, and is over when it says so.
LEMMA SoldRuns ==
  ASSUME SoldIsOver, NEW r \in Run, Futures!Seller!RunStep(r) \/ Futures!Seller!Wedge(r),
         UNCHANGED Futures!Seller!futuresVars
  PROVE  SoldIsOver'
<1>1. /\ run[r] # "none" /\ ~ armed
      /\ \E place \in {"none", "delay", "top", "cycle", "release", "close", "clear", "wedged"} :
           run' = [run EXCEPT ![r] = place] /\ (run[r] = "clear" <=> place = "none") /\ (run[r] = "close" <=> place = "clear")
      /\ doneCh' = doneCh \/ run[r] = "close"
      /\ isRunning' = isRunning \/ run[r] = "clear"
      /\ UNCHANGED <<cpc, armed, exitCh, listed>>
  BY DEF Futures!Seller!RunStep, Futures!Seller!Enter, Futures!Seller!Delay, Futures!Seller!Top, Futures!Seller!Tick,
         Futures!Seller!EndOrStop, Futures!Seller!Release, Futures!Seller!CloseDone, Futures!Seller!Clear, Futures!Seller!Wedge,
         Futures!Seller!Goes, Futures!Seller!channelVars, Futures!Seller!futuresVars, SoldIsOver
<1>2. PICK place \in {"none", "delay", "top", "cycle", "release", "close", "clear", "wedged"} :
        run' = [run EXCEPT ![r] = place] /\ (run[r] = "clear" <=> place = "none") /\ (run[r] = "close" <=> place = "clear")
  BY <1>1
<1>3. /\ run' \in [Run -> RunPlace]
      /\ run'[r] = place /\ \A q \in Run \ {r} : run'[q] = "none" /\ run[q] = "none"
  BY <1>1, <1>2 DEF SoldIsOver, RunPlace
<1>4. Alive = IF run[r] = "clear" THEN {} ELSE {r}
  BY <1>1, <1>3 DEF Alive
<1>5. Alive' = IF place \in {"none", "clear"} THEN {} ELSE {r}
  BY <1>3 DEF Alive
<1> QED
  BY <1>1, <1>2, <1>3, <1>4, <1>5 DEF SoldIsOver

\* The run of a sold contract is armed once, and the contract goes after it.
LEMMA SoldStep ==
  ASSUME SoldIsOver, Futures!Seller!Next
  PROVE  SoldIsOver'
<1> USE SameRuns
<1>2. CASE Futures!Seller!Deliver
  <2>1. PICK r \in Run : run[r] = "none" /\ run' = [run EXCEPT ![r] = "begin"]
    BY <1>2 DEF Futures!Seller!Deliver, Futures!Seller!StartFulfilling, Futures!Seller!Spawn
  <2>2. /\ cpc = "select" /\ armed /\ ~ armed' /\ isRunning' /\ doneCh' = "open" /\ UNCHANGED <<cpc, exitCh, listed>>
    BY <1>2 DEF Futures!Seller!Deliver, Futures!Seller!StartFulfilling, Futures!Seller!NewChannels
  <2> QED
    BY <2>1, <2>2 DEF SoldIsOver, RunPlace
<1>3. CASE Futures!Seller!Cancel
  BY <1>3 DEF Futures!Seller!Cancel, Futures!Seller!channelVars, SoldIsOver, Alive
<1>4. CASE Futures!Seller!StopWatcher
  BY <1>4 DEF Futures!Seller!StopWatcher, Futures!Seller!StopFulfilling, SoldIsOver, Alive
<1>5. CASE Futures!Seller!Wait
  BY <1>5 DEF Futures!Seller!Wait, Futures!Seller!watcherVars, Futures!Seller!channelVars, SoldIsOver, Alive
<1>6. CASE Futures!Seller!Ended
  BY <1>6 DEF Futures!Seller!Ended, Futures!Seller!Reset, Futures!Seller!NewChannels, SoldIsOver, Alive
<1>7. CASE Futures!Seller!Exit
  BY <1>7 DEF Futures!Seller!Exit, Futures!Seller!watcherVars, Futures!Seller!channelVars, SoldIsOver, Alive
<1>8. CASE Futures!Seller!Manager
  <2>1. UNCHANGED <<run, armed, doneCh, isRunning, cpc, exitCh>>
    BY <1>8 DEF Futures!Seller!Manager, Futures!Seller!PositionEvent, Futures!Seller!StopContract,
                Futures!Seller!StopFulfilling, Futures!Seller!Remove, Futures!Seller!LeaveRange,
                Futures!Seller!watcherVars, Futures!Seller!channelVars
  <2>2. UNCHANGED listed \/ exitCh = "closed"
    BY <1>8 DEF Futures!Seller!Manager, Futures!Seller!PositionEvent, Futures!Seller!StopContract,
                Futures!Seller!Remove, Futures!Seller!LeaveRange
  <2> QED
    BY <2>1, <2>2 DEF SoldIsOver, Alive
<1>9. CASE Futures!Seller!ClosePosition \/ Futures!Seller!RangeEnds \/ Futures!Seller!TimePasses
  BY <1>9 DEF Futures!Seller!ClosePosition, Futures!Seller!RangeEnds, Futures!Seller!TimePasses,
              Futures!Seller!watcherVars, Futures!Seller!channelVars, Futures!Seller!futuresVars, SoldIsOver, Alive
<1>10. CASE Futures!Seller!TaskEnds /\ UNCHANGED Futures!Seller!futuresVars
  BY <1>10 DEF Futures!Seller!TaskEnds, Futures!Seller!channelVars, Futures!Seller!futuresVars, SoldIsOver, Alive
<1>11. ASSUME NEW r \in Run, Futures!Seller!RunStep(r) \/ Futures!Seller!Wedge(r),
              UNCHANGED Futures!Seller!futuresVars
       PROVE  SoldIsOver'
  BY <1>11, SoldRuns
<1> QED
  BY <1>2, <1>3, <1>4, <1>5, <1>6, <1>7, <1>8, <1>9, <1>10, <1>11 DEF Futures!Seller!Next, Futures!Seller!Controller

\* The watcher and the manager end a judged contract in order.
LEMMA JudgedStep ==
  ASSUME JudgedIsOver, Futures!Validator!Next
  PROVE  JudgedIsOver'
<1> USE DEF JudgedIsOver, Futures!Validator!Alive, Futures!Validator!watcherVars, Futures!Validator!runVars,
            Futures!Validator!errVars, Futures!Validator!futuresVars
<1>1. CASE Futures!Validator!Deliver
  BY <1>1 DEF Futures!Validator!Deliver, Futures!Validator!StartFulfilling
<1>2. CASE Futures!Validator!Cancel
  BY <1>2 DEF Futures!Validator!Cancel
<1>3. CASE Futures!Validator!Ended
  BY <1>3 DEF Futures!Validator!Ended
<1>4. CASE Futures!Validator!CloseDelivery
  BY <1>4 DEF Futures!Validator!CloseDelivery
<1>5. CASE Futures!Validator!Sleep \/ Futures!Validator!Exit
  BY <1>5 DEF Futures!Validator!Sleep, Futures!Validator!Exit
<1>6. CASE Futures!Validator!Manager
  <2>1. UNCHANGED <<vRun, armed, vDoneCh, cpc, exitCh, ctxDone>>
    BY <1>6 DEF Futures!Validator!Manager, Futures!Validator!Started, Futures!Validator!PositionEvent,
                Futures!Validator!Stopped, Futures!Validator!Remove, Futures!Validator!LeaveRange
  <2>2. UNCHANGED listed \/ exitCh = "closed"
    BY <1>6 DEF Futures!Validator!Manager, Futures!Validator!Started, Futures!Validator!PositionEvent,
                Futures!Validator!Stopped, Futures!Validator!Remove, Futures!Validator!LeaveRange
  <2> QED
    BY <2>1, <2>2
<1>7. CASE Futures!Validator!Watcher
  <2>1. Futures!Validator!RunStep /\ UNCHANGED <<cpc, armed, exitCh, listed, ctxDone>>
    BY <1>7 DEF Futures!Validator!Watcher
  <2>2. CASE Futures!Validator!Begin \/ Futures!Validator!Check \/ Futures!Validator!Select
    BY <2>1, <2>2 DEF Futures!Validator!Begin, Futures!Validator!Check, Futures!Validator!Select, Futures!Validator!Returns
  <2>3. CASE Futures!Validator!CloseDone \/ Futures!Validator!Clear
    BY <2>1, <2>3 DEF Futures!Validator!CloseDone, Futures!Validator!Clear
  <2> QED
    BY <2>1, <2>2, <2>3 DEF Futures!Validator!RunStep
<1>8. CASE Futures!Validator!ContextEnds \/ Futures!Validator!MinerReports
  <2>1. UNCHANGED <<vRun, vDoneCh, armed, cpc, exitCh, listed, ctxDone>>
    BY <1>8 DEF Futures!Validator!ContextEnds, Futures!Validator!MinerReports, Futures!Validator!SetError
  <2> QED
    BY <2>1
<1>9. CASE Futures!Validator!ClosePosition \/ Futures!Validator!TimePasses
  BY <1>9 DEF Futures!Validator!ClosePosition, Futures!Validator!TimePasses
<1>10. CASE Futures!Validator!RangeEnds
  BY <1>10 DEF Futures!Validator!RangeEnds
<1> QED
  BY <1>1, <1>2, <1>3, <1>4, <1>5, <1>6, <1>7, <1>8, <1>9, <1>10 DEF Futures!Validator!Next, Futures!Validator!Controller

\* FuturesInv holds in every state of a node of either role.
THEOREM FuturesInvariance == Futures!Spec => []FuturesInv
<1>1. Futures!Init => FuturesInv
  BY DEF Futures!Init, Futures!Seller!Init, Futures!Seller!CreateFuturesContractSeller, Futures!Seller!InitWatcher,
         Futures!Seller!Run, Futures!Validator!Init, Futures!Validator!CreateFuturesContractBuyer,
         Futures!Validator!FreshWatcher, Futures!Validator!Alive, FuturesInv, SoldIsOver, JudgedIsOver, Run, RunPlace, Alive
<1>2. FuturesInv /\ [Futures!Next]_Futures!vars => FuturesInv'
  <2> SUFFICES ASSUME FuturesInv, [Futures!Next]_Futures!vars PROVE FuturesInv'
    OBVIOUS
  <2>1. CASE Futures!AsSeller
    BY <2>1, SoldStep DEF Futures!AsSeller, FuturesInv
  <2>2. CASE Futures!AsValidator
    BY <2>2, JudgedStep DEF Futures!AsValidator, FuturesInv
  <2>3. CASE UNCHANGED Futures!vars
    BY <2>3 DEF Futures!vars, Futures!rangeVars, Futures!watcherVars, Futures!channelVars, Futures!validatorVars,
                FuturesInv, SoldIsOver, JudgedIsOver, Futures!Validator!Alive, Alive
  <2> QED
    BY <2>1, <2>2, <2>3 DEF Futures!Next
<1> QED
  BY <1>1, <1>2, PTL DEF Futures!Spec

\* A future that is no longer listed has no run that serves it, and no watcher
\* that judges it while the range goes on (futures_manager_seller.go:174,
\* futures_manager_validator.go:185).
THEOREM ForgottenFuturesAreOver == Futures!Spec => []ForgottenIsOver
<1>1. FuturesInv => ForgottenIsOver
  BY DEF FuturesInv, SoldIsOver, JudgedIsOver, ForgottenIsOver, Seller!ForgottenIsOver, Validator!ForgottenIsOver,
         Seller!Alive, Seller!Run, Validator!Alive, Futures!Validator!Alive, Alive, Run
<1> QED
  BY FuturesInvariance, <1>1, PTL

================================================================================
