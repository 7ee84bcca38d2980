------------------------------ MODULE RentalQueue ------------------------------
(***************************************************************************)
(* What one miner promises to the contracts that rent it, with no lock, no *)
(* signal and no pool connection in sight: tasks are accepted in order,    *)
(* one at a time is served, the oldest waiting task is the next one to be  *)
(* served, a task leaves the service only by being finished, and only a    *)
(* waiting task can be withdrawn, only by the contract that owns it.       *)
(* MinerScheduler implements it.                                           *)
(***************************************************************************)
EXTENDS Naturals, Sequences

CONSTANT Contract       \* the contracts that submit tasks

VARIABLES owner,        \* owner[t]: the contract of the t-th task submitted
          fate          \* fate[t]: what became of it

rqVars == <<owner, fate>>

Fate == {"waiting", "serving", "finished", "withdrawn"}

Tasks == DOMAIN owner

Waiting == {t \in Tasks : fate[t] = "waiting"}

Init == owner = <<>> /\ fate = <<>>

Submit(c) ==
    /\ owner' = Append(owner, c)
    /\ fate' = Append(fate, "waiting")

Serve(t) ==
    /\ t \in Waiting
    /\ \A u \in Waiting : t <= u
    /\ \A u \in Tasks : fate[u] # "serving"
    /\ fate' = [fate EXCEPT ![t] = "serving"]
    /\ UNCHANGED owner

Finish(t) ==
    /\ t \in Tasks
    /\ fate[t] = "serving"
    /\ fate' = [fate EXCEPT ![t] = "finished"]
    /\ UNCHANGED owner

Withdraw(S) ==
    /\ S \subseteq Waiting
    /\ \A t, u \in S : owner[t] = owner[u]
    /\ fate' = [t \in Tasks |-> IF t \in S THEN "withdrawn" ELSE fate[t]]
    /\ UNCHANGED owner

Next ==
    \/ \E c \in Contract : Submit(c)
    \/ \E t \in Tasks : Serve(t) \/ Finish(t)
    \/ \E S \in SUBSET Waiting : Withdraw(S)

Spec == Init /\ [][Next]_rqVars
================================================================================
