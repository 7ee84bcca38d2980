---------------------------- MODULE ShareAccounting ----------------------------
(***************************************************************************)
(* What happens to a share of a miner: onMiningSubmit and the goroutine it *)
(* leaves behind (proxy/handler_mining.go), the jobs every pool connection *)
(* caches to judge it (validator/), the pool's answer (WriteAwaitRes and   *)
(* readInterceptor of proxy/conn_dest.go), the hashrate counters it is     *)
(* credited to and the statistics of both sides (proxy/stats.go).          *)
(*                                                                         *)
(* A share is the ID of its message, the ID of its job and a content;      *)
(* whether its hash meets the job's difficulty is chosen when it is        *)
(* computed.  Difficulties are abstracted to the pool whose they are.       *)
(* The pools are swapped only between shares: how setDest waits for them   *)
(* is the subject of module Proxy.                                         *)
(***************************************************************************)
EXTENDS BoundStackMap, FiniteSets

CONSTANTS Dest,             \* pools
          Primary,          \* the first of them
          JobID, Content, MsgID,
          MaxInvalid,       \* MAX_CONSEQUENT_INVALID_SHARES
          MaxShares,        \* bound: shares submitted
          MaxJobs           \* bound: jobs announced

ASSUME DestAssumption == Primary \in Dest
ASSUME BoundsAssumption ==
    MaxInvalid \in Nat /\ MaxShares \in Nat /\ MaxJobs \in Nat

Share == 1 .. MaxShares

\* the sum of a counter over the pools
Total(f) == LET S[D \in SUBSET Dest] ==
                  IF D = {} THEN 0
                  ELSE LET d == CHOOSE x \in D : TRUE IN f[d] + S[D \ {d}]
            IN  S[Dest]

\* stored shares of a job and its expiration; n numbers the announcements
Job == [n : Nat, shares : SUBSET Content, expires : {"never", "later", "past"}]

VARIABLES
    \* pools: connections that the proxy holds
    jobs,           \* jobs[d]: the jobs of the validator
    announced,      \* announced[d]: jobs announced so far
    repeated,       \* repeated[d]: IDs announced again while still ordered
    resultHandlers, \* resultHandlers[d][id]: the share that waits, 0 if none
    inbox,          \* shares that pools received and did not answer
    \* Proxy
    dest,
    destMap,
    invalid,        \* consequentInvalidShareCount
    cancelled,      \* cancelRun was called
    \* shares
    submitted,      \* their number
    at,             \* at[i]: where share i is
    msg,            \* msg[i]: its message
    verdict,        \* verdict[i]: the result the miner is told
    to,             \* to[i]: the pool it goes to
    todo,           \* pools of destMap that the lookup did not visit yet
    judgedOn,       \* judgedOn[i]: the job it was accepted for
    credit,         \* credit[i]: the pool whose difficulty it was credited with
    answer,         \* answer[i]: [of, ok], the pool's answer it was given
    \* statistics
    source, stats,
    \* history
    settled,        \* shares whose answer was counted
    failed,         \* a connection or a pool failed
    reused          \* an ID was used before its last answer and cleanup

poolVars == <<jobs, announced, repeated>>
wireVars == <<resultHandlers, inbox, reused>>
judgeVars == <<invalid, judgedOn, verdict, to, todo>>
shareVars == <<submitted, at, msg, credit, answer>>
proxyVars == <<dest, destMap, cancelled, failed>>
statVars == <<source, stats, settled>>
vars == <<poolVars, wireVars, judgeVars, shareVars, proxyVars, statVars>>

NoMsg == [id |-> 0, job |-> "none", content |-> "none"]
NoJob == [d |-> "none", n |-> 0]
NoAnswer == [of |-> 0, ok |-> FALSE]

Init ==
    /\ jobs = [d \in Dest |-> NewMap]
    /\ announced = [d \in Dest |-> 0]
    /\ repeated = [d \in Dest |-> {}]
    /\ resultHandlers = [d \in Dest |-> [id \in MsgID |-> 0]]
    /\ inbox = {}
    /\ dest = Primary /\ destMap = {Primary}
    /\ invalid = 0 /\ cancelled = FALSE
    /\ submitted = 0
    /\ at = [i \in Share |-> "none"]
    /\ msg = [i \in Share |-> NoMsg]
    /\ verdict = [i \in Share |-> "none"]
    /\ to = [i \in Share |-> Primary]
    /\ todo = {}
    /\ judgedOn = [i \in Share |-> NoJob]
    /\ credit = [i \in Share |-> "none"]
    /\ answer = [i \in Share |-> NoAnswer]
    /\ source = [accepted |-> 0, rejected |-> 0, acceptedRejected |-> 0, rejectedAccepted |-> 0]
    /\ stats = [d \in Dest |-> [acceptedAccepted |-> 0, acceptedRejected |-> 0, rejectedAccepted |-> 0]]
    /\ settled = {} /\ failed = FALSE /\ reused = FALSE

--------------------------------------------------------------------------------
\* A pool speaks: readInterceptor, under the pipe or under autoread

\* ScheduleCleanJobs: every job cached so far expires at the same later time
Scheduled(job) == [job EXCEPT !.expires = "later"]

NewJob(d) == [n |-> announced[d] + 1, shares |-> {}, expires |-> "never"]

\* AddNewJob
Notify(d, j, clean) ==
    /\ Total(announced) < MaxJobs
    /\ announced' = [announced EXCEPT ![d] = @ + 1]
    /\ jobs' = [jobs EXCEPT ![d] = Push(IF clean THEN Updated(@, Scheduled) ELSE @, j, NewJob(d))]
    /\ repeated' = [repeated EXCEPT ![d] =
           IF \E k \in DOMAIN jobs[d].orderedKeys : jobs[d].orderedKeys[k] = j
             THEN @ \cup {j} ELSE @]

\* cleanJobTimeout has passed
Expired(job) == [job EXCEPT !.expires = IF @ = "later" THEN "past" ELSE @]

TimePasses(d) ==
    /\ \E k \in Keys(jobs[d]) : jobs[d].dataMap[k].expires = "later"
    /\ jobs' = [jobs EXCEPT ![d] = Updated(@, Expired)]
    /\ UNCHANGED <<announced, repeated>>

Pool ==
    /\ \E d \in destMap : TimePasses(d) \/ \E j \in JobID, clean \in BOOLEAN : Notify(d, j, clean)
    /\ UNCHANGED <<wireVars, judgeVars, shareVars, proxyVars, statVars>>

\* setDest, between two shares
SetDest(d) ==
    /\ d # dest
    /\ \A i \in Share : at[i] \in {"none", "done", "gone", "over"}
    /\ dest' = d /\ destMap' = destMap \cup {d}
    /\ UNCHANGED <<poolVars, wireVars, judgeVars, shareVars, cancelled, failed, statVars>>

--------------------------------------------------------------------------------
\* ValidateAndAddShare of pool d: the verdicts it may give on message m

Knows(d, m) == m.job \in Keys(jobs[d])

JobOf(d, m) == jobs[d].dataMap[m.job]

\* mutant: a share below the difficulty is not stored, nor is any other
DuplicateNever(d, m) == FALSE

Duplicate(d, m) == m.content \in JobOf(d, m).shares

Verdicts(d, m) ==
    IF ~ Knows(d, m) \/ (Knows(d, m) /\ JobOf(d, m).expires = "past") THEN {"job not found"}
    ELSE IF Duplicate(d, m) THEN {"duplicate"}
    ELSE {"accepted", "low difficulty"}

\* CheckDuplicateAndAddShare comes before the difficulty is checked
Stored(d, m) ==
    IF Verdicts(d, m) \in {{"job not found"}, {"duplicate"}} THEN jobs
    ELSE [jobs EXCEPT ![d].dataMap[m.job].shares = @ \cup {m.content}]

Accepted(d, m) == [d |-> d, n |-> JobOf(d, m).n]

--------------------------------------------------------------------------------
\* onMiningSubmit: the goroutine that reads the miner handles one at a time
Idle == \A i \in Share : at[i] # "elsewhere"

\* whose difficulty the miner, its worker and the contract are credited with
GetDiffOf(i) == to'[i]

TooMany == invalid' > MaxInvalid

\* the verdict is final: the result the miner will be told, the counters of
\* hashrate, and the count of invalid shares
Judge(i) ==
    IF verdict'[i] = "accepted"
      THEN /\ invalid' = 0
           /\ source' = [source EXCEPT !.accepted = @ + 1]
           /\ credit' = [credit EXCEPT ![i] = GetDiffOf(i)]
           /\ at' = [at EXCEPT ![i] = "answer"]
           /\ UNCHANGED cancelled
      ELSE /\ invalid' = invalid + 1
           /\ UNCHANGED credit
           /\ IF TooMany
                THEN cancelled' = TRUE /\ at' = [at EXCEPT ![i] = "over"] /\ UNCHANGED source
                ELSE /\ source' = [source EXCEPT !.rejected = @ + 1]
                     /\ at' = [at EXCEPT ![i] = "answer"]
                     /\ UNCHANGED cancelled

\* the job is looked for at the main destination
Submit(i) ==
    /\ ~ cancelled /\ Idle
    /\ submitted < MaxShares /\ i = submitted + 1
    /\ submitted' = i
    /\ to' = [to EXCEPT ![i] = dest]
    /\ \E id \in MsgID, j \in JobID, c \in Content :
         LET m == [id |-> id, job |-> j, content |-> c] IN
           /\ msg' = [msg EXCEPT ![i] = m]
           /\ jobs' = Stored(dest, m)
           /\ \E v \in Verdicts(dest, m) :
                /\ verdict' = [verdict EXCEPT ![i] = v]
                /\ judgedOn' = IF v = "accepted"
                                 THEN [judgedOn EXCEPT ![i] = Accepted(dest, m)] ELSE judgedOn
                /\ IF v \in {"job not found", "low difficulty"}
                     THEN /\ at' = [at EXCEPT ![i] = "elsewhere"] /\ todo' = destMap
                          /\ UNCHANGED <<invalid, credit, source, cancelled>>
                     ELSE Judge(i) /\ UNCHANGED todo
    /\ UNCHANGED <<answer, stats, settled>>

\* GetDestByJobIDAndValidate: the next connection of the map, in any order; a
\* verdict other than acceptance is forgotten
LookElsewhere(i) ==
    /\ at[i] = "elsewhere"
    /\ \E d \in todo : \E v \in Verdicts(d, msg[i]) :
         /\ jobs' = Stored(d, msg[i])
         /\ IF v = "accepted"
              THEN /\ to' = [to EXCEPT ![i] = d]
                   /\ verdict' = [verdict EXCEPT ![i] = v]
                   /\ judgedOn' = [judgedOn EXCEPT ![i] = Accepted(d, msg[i])]
                   /\ todo' = {}
              ELSE todo' = todo \ {d} /\ UNCHANGED <<to, verdict, judgedOn>>
         /\ IF todo' = {} THEN Judge(i) ELSE UNCHANGED <<invalid, credit, source, at, cancelled>>
    /\ UNCHANGED <<submitted, msg, answer, stats, settled>>

OnMiningSubmit ==
    /\ \E i \in Share : Submit(i) \/ LookElsewhere(i)
    /\ UNCHANGED <<announced, repeated, wireVars, dest, destMap, failed>>

--------------------------------------------------------------------------------
\* The goroutine of a share

CancelRun == cancelled' = TRUE

\* the result cannot be written to the miner, or the share to the pool
WriteFails(i) ==
    /\ at[i] = "answer"
    /\ at' = [at EXCEPT ![i] = "done"]
    /\ failed' = TRUE /\ CancelRun
    /\ UNCHANGED <<resultHandlers, inbox, reused, answer, statVars>>

\* the miner is told, and the share goes to the pool (WriteAwaitRes)
SendShare(i) ==
    /\ at[i] = "answer"
    /\ resultHandlers' = [resultHandlers EXCEPT ![to[i]][msg[i].id] = i]
    /\ inbox' = inbox \cup {i}
    /\ reused' = (reused \/ \E k \in Share : /\ at[k] \in {"await", "done"} \/ k \in inbox
                                             /\ to[k] = to[i] /\ msg[k].id = msg[i].id)
    /\ at' = [at EXCEPT ![i] = "await"]
    /\ UNCHANGED <<answer, statVars, cancelled, failed>>

\* mutant: the answer is given to the handler of any share
AnyHandler(i) ==
    LET waiting == {k \in Share : at[k] = "await" /\ to[k] = to[i]} IN
      IF waiting = {} THEN 0 ELSE CHOOSE k \in waiting : \A l \in waiting : k <= l

HandlerOf(i) == resultHandlers[to[i]][msg[i].id]

\* the pool answers share i and its reader runs LoadAndDelete and the handler;
\* a result without a handler is passed on to the miner
PoolAnswers(i) ==
    /\ i \in inbox
    /\ inbox' = inbox \ {i}
    /\ \E ok \in BOOLEAN :
         IF HandlerOf(i) # 0
           THEN /\ resultHandlers' = [resultHandlers EXCEPT ![to[i]][msg[i].id] = 0]
                /\ answer' = IF at[HandlerOf(i)] = "await"
                               THEN [answer EXCEPT ![HandlerOf(i)] = [of |-> i, ok |-> ok]] ELSE answer
           ELSE UNCHANGED <<resultHandlers, answer>>
    /\ UNCHANGED <<at, reused, statVars, cancelled, failed>>

\* RESPONSE_TIMEOUT, or the context ended
GivesUp(i) ==
    /\ at[i] = "await"
    /\ \/ cancelled /\ UNCHANGED failed
       \/ answer[i] = NoAnswer /\ failed' = (failed \/ i \in inbox)
    /\ at' = [at EXCEPT ![i] = "done"]
    /\ CancelRun
    /\ UNCHANGED <<resultHandlers, inbox, reused, answer, statVars>>

\* mutant: a share that the pool accepted against our verdict is counted twice
CountedTwice(i) ==
    /\ source' = IF verdict[i] # "accepted" /\ answer[i].ok
                   THEN [source EXCEPT !.rejectedAccepted = @ + 1] ELSE source
    /\ stats' = IF verdict[i] = "accepted" \/ answer[i].ok
                  THEN [stats EXCEPT ![to[i]].acceptedAccepted = @ + 1] ELSE stats

\* the pool's acceptedAccepted is counted whatever it answered, its
\* acceptedRejected never
Counted(i) ==
    IF verdict[i] = "accepted"
      THEN /\ source' = IF answer[i].ok THEN source ELSE [source EXCEPT !.acceptedRejected = @ + 1]
           /\ stats' = [stats EXCEPT ![to[i]].acceptedAccepted = @ + 1]
      ELSE IF answer[i].ok
        THEN /\ source' = [source EXCEPT !.rejectedAccepted = @ + 1]
             /\ stats' = [stats EXCEPT ![to[i]].rejectedAccepted = @ + 1]
        ELSE UNCHANGED <<source, stats>>

Settle(i) ==
    /\ at[i] = "await" /\ answer[i] # NoAnswer
    /\ Counted(i) /\ settled' = settled \cup {i}
    /\ at' = [at EXCEPT ![i] = "done"]
    /\ UNCHANGED <<resultHandlers, inbox, reused, answer, cancelled, failed>>

\* the goroutine of WriteAwaitRes deletes whatever handler has the ID by then
Cleanup(i) ==
    /\ at[i] = "done"
    /\ resultHandlers' = [resultHandlers EXCEPT ![to[i]][msg[i].id] = 0]
    /\ at' = [at EXCEPT ![i] = "gone"]
    /\ UNCHANGED <<inbox, reused, answer, statVars, cancelled, failed>>

Leaves(i) == WriteFails(i) \/ SendShare(i) \/ GivesUp(i) \/ Settle(i) \/ Cleanup(i)

Goroutine ==
    /\ \E i \in Share : Leaves(i) \/ PoolAnswers(i)
    /\ UNCHANGED <<poolVars, judgeVars, submitted, msg, credit, dest, destMap>>

Next == Pool \/ OnMiningSubmit \/ Goroutine \/ \E d \in Dest : SetDest(d)

Spec == Init /\ [][Next]_vars

--------------------------------------------------------------------------------
TypeOK ==
    /\ \A d \in Dest : /\ Len(jobs[d].orderedKeys) <= Capacity
                       /\ \A k \in Keys(jobs[d]) : k \in JobID /\ jobs[d].dataMap[k] \in Job
    /\ announced \in [Dest -> Nat] /\ repeated \in [Dest -> SUBSET JobID]
    /\ resultHandlers \in [Dest -> [MsgID -> Share \cup {0}]]
    /\ inbox \subseteq Share /\ settled \subseteq Share /\ dest \in destMap /\ destMap \subseteq Dest
    /\ invalid \in Nat /\ cancelled \in BOOLEAN /\ submitted \in 0 .. MaxShares
    /\ at \in [Share -> {"none", "elsewhere", "answer", "await", "done", "gone", "over"}]
    /\ to \in [Share -> Dest] /\ todo \subseteq Dest
    /\ verdict \in [Share -> {"none", "accepted", "duplicate", "low difficulty", "job not found"}]
    /\ source \in [accepted : Nat, rejected : Nat, acceptedRejected : Nat, rejectedAccepted : Nat]
    /\ stats \in [Dest -> [acceptedAccepted : Nat, acceptedRejected : Nat, rejectedAccepted : Nat]]

\* A pool's cache holds only jobs of its last Capacity announcements, and of an
\* ID announced again only the latest (lib/bstackmap.go:28).
CachedIsRecent ==
    \A d \in Dest : \A k \in Keys(jobs[d]) :
        LET keys == jobs[d].orderedKeys
            first == announced[d] - Len(keys)
            n == jobs[d].dataMap[k].n
        IN  n \in first + 1 .. announced[d] /\ keys[n - first] = k
            /\ \A l \in n - first + 1 .. Len(keys) : keys[l] # k

\* One of the last Capacity jobs is missing only if its ID was announced again
\* while the earlier job was still ordered: the eviction of the earlier one
\* takes the later one with it.  The latest job is never missing, which
\* GetLatestJob relies on (validator/validator.go:91).
LostOnlyIfRepeated ==
    \A d \in Dest :
        LET keys == jobs[d].orderedKeys IN
          \A k \in DOMAIN keys : keys[k] \in Keys(jobs[d]) \/ (keys[k] \in repeated[d] /\ k # Len(keys))

\* The cache of a pool's jobs is its last Capacity jobs, as far as IDs tell them apart.
CacheIsRecent == CachedIsRecent /\ LostOnlyIfRepeated

\* The work of a share is credited once: no two shares are accepted with the
\* same content for the same job of a pool, however the pools were swapped in
\* between (validator/mining_job.go:35).
CreditedOnce ==
    \A i, k \in Share : i # k /\ judgedOn[i] # NoJob /\ judgedOn[k] = judgedOn[i]
                          => msg[i].content # msg[k].content

\* A share is credited with the difficulty of the pool that announced its job
\* and that it is sent to, which after a swap need not be the destination
\* (proxy/handler_mining.go:85).
CreditIsOfItsPool ==
    \A i \in Share : credit[i] # "none" => credit[i] = judgedOn[i].d /\ judgedOn[i].d = to[i]

\* Work is credited once and to the pool it was done for.
CreditIsRight == CreditedOnce /\ CreditIsOfItsPool

Judged == {i \in Share : at[i] \notin {"none", "elsewhere"}}

\* The last MaxInvalid + 1 shares were all invalid.
ManyInvalid ==
    \E i \in Judged : i > MaxInvalid /\ \A k \in i - MaxInvalid .. i : verdict[k] # "accepted"

\* The miner is cut off only for too many invalid shares in a row, for a
\* failure, or when it used an ID again before the earlier share was answered
\* and its handler deleted (proxy/conn_dest.go:266).
CutForAReason == cancelled => ManyInvalid \/ failed \/ reused

\* The verdict that is counted for a share is the pool's verdict on that share,
\* unless the miner reused an ID in flight (proxy/conn_dest.go:271).
VerdictIsItsOwn == \A i \in Share : answer[i] # NoAnswer /\ ~ reused => answer[i].of = i

WeAccepted(i) == verdict[i] = "accepted"

\* Every share is counted once, on either side, but the sides do not say the same
\* of a share that we accept and the pool rejects: the miner's counters have it
\* among the accepted and the rejected by the pool, and the pool's have it among
\* those that the pool accepted (proxy/handler_mining.go:166-168), so that their
\* acceptedRejected stays zero, against stats.go:6-7.  The share with which the
\* miner is cut off is not counted (handler_mining.go:98-103); until then all that
\* were sent are settled.
StatsAreKept ==
    /\ source.accepted = Cardinality({i \in Judged : WeAccepted(i)})
    /\ source.rejected = Cardinality({i \in Judged : ~ WeAccepted(i) /\ at[i] # "over"})
    /\ source.acceptedRejected = Cardinality({i \in settled : WeAccepted(i) /\ ~ answer[i].ok})
    /\ source.rejectedAccepted = Cardinality({i \in settled : ~ WeAccepted(i) /\ answer[i].ok})
    /\ \A d \in Dest :
         LET settledAt == {i \in settled : to[i] = d} IN
           /\ stats[d].acceptedAccepted = Cardinality({i \in settledAt : WeAccepted(i)})
           /\ stats[d].acceptedRejected = 0
           /\ stats[d].rejectedAccepted = Cardinality({i \in settledAt : ~ WeAccepted(i) /\ answer[i].ok})
    /\ ~ cancelled => settled = {i \in Share : at[i] \in {"done", "gone"}}

\* Every counter is the number of shares that the code counts there, and the
\* miner is cut off only for a reason.
AccountsAreKept == StatsAreKept /\ CutForAReason

================================================================================
