------------------------ MODULE ShareAccounting_proofs ------------------------
(***************************************************************************)
(* Proofs, for every capacity of the cache, any number of pools, jobs and  *)
(* shares: the cache of a pool holds its latest jobs, the work of a share  *)
(* is credited once and with the difficulty of its pool, and every counter *)
(* of the miner and of its pools is the number of shares the code counts.  *)
(***************************************************************************)
EXTENDS ShareAccounting, FiniteSetTheorems, TLAPS

--------------------------------------------------------------------------------
\* The map of a pool that has announced a jobs

WellFormed(bs) ==
    /\ DOMAIN bs = {"orderedKeys", "dataMap"}
    /\ bs.orderedKeys \in Seq(JobID)
    /\ Len(bs.orderedKeys) <= Capacity
    /\ bs.dataMap \in [Keys(bs) -> Job]
    /\ Keys(bs) \subseteq JobID

\* A job's place in the order tells its number, and its ID does not come again.
Recent(bs, a) ==
    \A k \in Keys(bs) :
        \E p \in 1 .. Len(bs.orderedKeys) :
            /\ bs.dataMap[k].n = a - Len(bs.orderedKeys) + p
            /\ bs.orderedKeys[p] = k
            /\ \A l \in p + 1 .. Len(bs.orderedKeys) : bs.orderedKeys[l] # k

Present(bs, rep) ==
    LET keys == bs.orderedKeys IN
      \A k \in DOMAIN keys : keys[k] \in Keys(bs) \/ (keys[k] \in rep /\ k # Len(keys))

\* An ID that is ordered twice was repeated.
Doubled(bs, rep) ==
    LET keys == bs.orderedKeys IN
      \A k, l \in DOMAIN keys : k < l /\ keys[k] = keys[l] => keys[l] \in rep

MapOK(bs, a, rep) ==
    /\ WellFormed(bs) /\ a \in Nat /\ Len(bs.orderedKeys) <= a
    /\ Recent(bs, a) /\ Present(bs, rep) /\ Doubled(bs, rep)

\* The same jobs under the same keys.
SameJobs(bs, cs) ==
    /\ WellFormed(cs)
    /\ cs.orderedKeys = bs.orderedKeys /\ Keys(cs) = Keys(bs)
    /\ \A k \in Keys(bs) : cs.dataMap[k].n = bs.dataMap[k].n

LEMMA SameJobsMapOK ==
  ASSUME NEW bs, NEW cs, NEW a, NEW rep, MapOK(bs, a, rep), SameJobs(bs, cs)
  PROVE  MapOK(cs, a, rep)
<1>1. Recent(cs, a)
  <2>1. /\ cs.orderedKeys = bs.orderedKeys /\ Keys(cs) = Keys(bs) /\ Recent(bs, a)
        /\ \A k \in Keys(bs) : cs.dataMap[k].n = bs.dataMap[k].n
    BY DEF MapOK, SameJobs
  <2>2. ASSUME NEW k \in Keys(bs)
        PROVE  \E p \in 1 .. Len(bs.orderedKeys) :
                  /\ cs.dataMap[k].n = a - Len(bs.orderedKeys) + p
                  /\ bs.orderedKeys[p] = k
                  /\ \A l \in p + 1 .. Len(bs.orderedKeys) : bs.orderedKeys[l] # k
    <3>1. PICK p \in 1 .. Len(bs.orderedKeys) :
                  /\ bs.dataMap[k].n = a - Len(bs.orderedKeys) + p
                  /\ bs.orderedKeys[p] = k
                  /\ \A l \in p + 1 .. Len(bs.orderedKeys) : bs.orderedKeys[l] # k
      BY <2>1 DEF Recent
    <3> QED
      BY <2>1, <3>1
  <2> QED
    BY <2>1, <2>2 DEF Recent
<1>2. Present(cs, rep) /\ Doubled(cs, rep)
  BY DEF MapOK, SameJobs, Present, Doubled
<1> QED
  BY <1>1, <1>2 DEF MapOK, SameJobs

Shift(bs) == IF Full(bs) THEN 1 ELSE 0

PushedKeys(bs, key) == Append(Kept(bs), key)

\* What Push leaves in the order.
LEMMA KeptKeys ==
  ASSUME NEW bs, WellFormed(bs), NEW key \in JobID
  PROVE  /\ PushedKeys(bs, key) \in Seq(JobID)
         /\ Len(PushedKeys(bs, key)) = Len(bs.orderedKeys) + 1 - Shift(bs)
         /\ Len(PushedKeys(bs, key)) <= Capacity
         /\ PushedKeys(bs, key)[Len(PushedKeys(bs, key))] = key
         /\ \A l \in 1 .. Len(PushedKeys(bs, key)) - 1 :
                PushedKeys(bs, key)[l] = bs.orderedKeys[l + Shift(bs)]
<1> USE CapacityAssumption DEF WellFormed, PushedKeys, Shift
<1>1. CASE Full(bs)
  <2>1. /\ Kept(bs) = Tail(bs.orderedKeys) /\ bs.orderedKeys # <<>>
        /\ Len(bs.orderedKeys) = Capacity
    BY <1>1 DEF Kept, Full
  <2>2. /\ Kept(bs) \in Seq(JobID) /\ Len(Kept(bs)) = Len(bs.orderedKeys) - 1
        /\ \A l \in 1 .. Len(Kept(bs)) : Kept(bs)[l] = bs.orderedKeys[l + 1]
    BY <2>1
  <2> QED
    BY <1>1, <2>1, <2>2
<1>2. CASE ~ Full(bs)
  BY <1>2 DEF Kept, Full
<1> QED
  BY <1>1, <1>2

LEMMA PushMapOK ==
  ASSUME NEW bs, NEW a, NEW rep, MapOK(bs, a, rep), NEW key \in JobID,
         NEW item \in Job, item.n = a + 1, NEW rep2, rep \subseteq rep2,
         (\E k \in DOMAIN bs.orderedKeys : bs.orderedKeys[k] = key) => key \in rep2
  PROVE  MapOK(Push(bs, key, item), a + 1, rep2)
<1> DEFINE cs == Push(bs, key, item)
           keys == PushedKeys(bs, key)
           shift == Shift(bs)
           old == bs.orderedKeys
<1>0. WellFormed(bs) /\ a \in Nat /\ Len(old) <= a /\ old \in Seq(JobID)
  BY DEF MapOK, WellFormed
<1>1. /\ keys \in Seq(JobID)
      /\ Len(keys) = Len(old) + 1 - shift
      /\ Len(keys) <= Capacity
      /\ keys[Len(keys)] = key
      /\ \A l \in 1 .. Len(keys) - 1 : keys[l] = old[l + shift]
  BY <1>0, KeptKeys
<1>2. shift \in {0, 1} /\ Len(old) \in Nat /\ Len(keys) \in Nat /\ Len(keys) >= 1
  BY <1>0, <1>1, CapacityAssumption DEF Shift, Full
<1>3. /\ cs.orderedKeys = keys /\ Keys(cs) = Left(bs) \cup {key}
      /\ DOMAIN cs = {"orderedKeys", "dataMap"}
      /\ cs.dataMap[key] = item
      /\ \A k \in Left(bs) : k # key => cs.dataMap[k] = bs.dataMap[k]
  BY DEF Push, Keys, PushedKeys
<1>4. Left(bs) \subseteq Keys(bs) /\ (Full(bs) => old[1] \notin Left(bs))
  <2>1. Full(bs) => Head(old) = old[1]
    BY <1>0, CapacityAssumption DEF Full
  <2> QED
    BY <2>1 DEF Left
<1>5. WellFormed(cs)
  <2>1. cs.dataMap \in [Keys(cs) -> Job]
    BY <1>0, <1>3, <1>4 DEF Push, Keys, WellFormed
  <2> QED
    BY <1>0, <1>1, <1>3, <1>4, <2>1 DEF WellFormed
<1> HIDE DEF cs, keys, shift
<1>6. Recent(cs, a + 1)
  <2> SUFFICES ASSUME NEW k \in Keys(cs)
               PROVE  \E p \in 1 .. Len(keys) :
                          /\ cs.dataMap[k].n = (a + 1) - Len(keys) + p
                          /\ keys[p] = k
                          /\ \A l \in p + 1 .. Len(keys) : keys[l] # k
    BY <1>3 DEF Recent
  <2>1. CASE k = key
    <3>1. cs.dataMap[k].n = a + 1 /\ keys[Len(keys)] = k
      BY <1>1, <1>3, <2>1
    <3>2. /\ Len(keys) \in 1 .. Len(keys) /\ (a + 1) - Len(keys) + Len(keys) = a + 1
          /\ Len(keys) + 1 .. Len(keys) = {}
      BY <1>0, <1>2
    <3> QED
      BY <3>1, <3>2
  <2>2. CASE k # key
    <3>1. k \in Left(bs) /\ k \in Keys(bs) /\ cs.dataMap[k] = bs.dataMap[k]
      BY <1>3, <1>4, <2>2
    <3>2. PICK p \in 1 .. Len(old) :
             /\ bs.dataMap[k].n = a - Len(old) + p /\ old[p] = k
             /\ \A l \in p + 1 .. Len(old) : old[l] # k
      BY <3>1 DEF MapOK, Recent
    <3>3. Full(bs) => p # 1
      BY <1>4, <3>1, <3>2
    <3>4. p - shift \in 1 .. Len(keys) - 1 /\ (a + 1) - Len(keys) + (p - shift) = a - Len(old) + p
      BY <1>0, <1>1, <1>2, <3>2, <3>3 DEF Shift, shift
    <3>5. keys[p - shift] = old[p - shift + shift] /\ p - shift + shift = p
      BY <1>1, <1>2, <3>4
    <3>6. ASSUME NEW l \in p - shift + 1 .. Len(keys) PROVE keys[l] # k
      <4>1. CASE l = Len(keys)
        BY <1>1, <2>2, <4>1
      <4>2. CASE l # Len(keys)
        <5>1. l \in 1 .. Len(keys) - 1 /\ l + shift \in p + 1 .. Len(old)
          BY <1>1, <1>2, <3>4, <4>2
        <5> QED
          BY <1>1, <3>2, <5>1
      <4> QED
        BY <4>1, <4>2
    <3>7. p - shift \in 1 .. Len(keys)
      BY <1>2, <3>4
    <3> QED
      BY <3>1, <3>2, <3>4, <3>5, <3>6, <3>7
  <2> QED
    BY <2>1, <2>2
<1>7. Present(cs, rep2)
  <2> SUFFICES ASSUME NEW k \in 1 .. Len(keys)
               PROVE  keys[k] \in Keys(cs) \/ (keys[k] \in rep2 /\ k # Len(keys))
    BY <1>1, <1>3 DEF Present
  <2>1. CASE k = Len(keys)
    BY <1>1, <1>3, <2>1
  <2>2. CASE k # Len(keys)
    <3>1. k \in 1 .. Len(keys) - 1 /\ keys[k] = old[k + shift] /\ k + shift \in 1 .. Len(old)
      BY <1>1, <1>2, <2>2
    <3>2. k + shift \in DOMAIN old /\ 1 \in DOMAIN old
      BY <1>0, <1>2, <3>1
    <3>3. CASE old[k + shift] \in Left(bs)
      BY <1>3, <3>1, <3>3
    <3>4. CASE old[k + shift] \notin Keys(bs)
      BY <2>2, <3>1, <3>2, <3>4 DEF MapOK, Present
    <3>5. CASE Full(bs) /\ old[k + shift] = Head(old)
      <4>1. old[k + shift] = old[1] /\ 1 < k + shift
        BY <1>0, <1>2, <3>1, <3>5, CapacityAssumption DEF Full, Shift, shift
      <4> QED
        BY <2>2, <3>1, <3>2, <4>1 DEF MapOK, Doubled
    <3> QED
      BY <3>3, <3>4, <3>5 DEF Left
  <2> QED
    BY <2>1, <2>2
<1>8. Doubled(cs, rep2)
  <2> SUFFICES ASSUME NEW k \in 1 .. Len(keys), NEW l \in 1 .. Len(keys), k < l, keys[k] = keys[l]
               PROVE  keys[l] \in rep2
    BY <1>1, <1>3 DEF Doubled
  <2>1. k \in 1 .. Len(keys) - 1 /\ keys[k] = old[k + shift] /\ k + shift \in DOMAIN old
    <3>1. k \in 1 .. Len(keys) - 1
      BY <1>2
    <3>2. k + shift \in 1 .. Len(old)
      BY <1>1, <1>2, <3>1
    <3> QED
      BY <1>0, <1>1, <3>1, <3>2
  <2>2. CASE l = Len(keys)
    BY <1>1, <2>1, <2>2
  <2>3. CASE l # Len(keys)
    <3>1. keys[l] = old[l + shift] /\ l + shift \in DOMAIN old /\ k + shift < l + shift
      <4>1. l \in 1 .. Len(keys) - 1
        BY <1>2, <2>3
      <4>2. l + shift \in 1 .. Len(old) /\ k + shift < l + shift
        BY <1>1, <1>2, <4>1
      <4> QED
        BY <1>0, <1>1, <4>1, <4>2
    <3> QED
      BY <2>1, <3>1 DEF MapOK, Doubled
  <2> QED
    BY <2>2, <2>3
<1>9. a + 1 \in Nat /\ Len(cs.orderedKeys) <= a + 1
  BY <1>0, <1>1, <1>2, <1>3
<1> QED
  BY <1>5, <1>6, <1>7, <1>8, <1>9 DEF MapOK, cs

--------------------------------------------------------------------------------
\* The inductive invariant

Message == [id : MsgID, job : JobID, content : Content]

Caches ==
    /\ jobs = [d \in Dest |-> jobs[d]]
    /\ announced \in [Dest -> Nat] /\ repeated \in [Dest -> SUBSET JobID]
    /\ \A d \in Dest : MapOK(jobs[d], announced[d], repeated[d])

\* Content c is stored at job j, wherever it is cached.
Holds(js, ann, j, c) ==
    /\ j.d \in Dest /\ j.n \in 1 .. ann[j.d]
    /\ \A k \in Keys(js[j.d]) : js[j.d].dataMap[k].n = j.n => c \in js[j.d].dataMap[k].shares

\* The types that TypeOK does not state are those of data it does not read.
Types ==
    /\ resultHandlers \in [Dest -> [MsgID -> Share \cup {0}]]
    /\ inbox \subseteq Share /\ settled \subseteq Share /\ dest \in destMap /\ destMap \subseteq Dest
    /\ invalid \in Nat /\ cancelled \in BOOLEAN /\ submitted \in 0 .. MaxShares
    /\ at \in [Share -> {"none", "elsewhere", "answer", "await", "done", "gone", "over"}]
    /\ to \in [Share -> Dest] /\ todo \subseteq Dest
    /\ verdict \in [Share -> {"none", "accepted", "duplicate", "low difficulty", "job not found"}]
    /\ source \in [accepted : Nat, rejected : Nat, acceptedRejected : Nat, rejectedAccepted : Nat]
    /\ stats \in [Dest -> [acceptedAccepted : Nat, acceptedRejected : Nat, rejectedAccepted : Nat]]
    /\ msg \in [Share -> Message \cup {NoMsg}]
    /\ judgedOn \in [Share -> [d : Dest, n : Nat] \cup {NoJob}]
    /\ credit \in [Share -> Dest \cup {"none"}]
    /\ answer \in [Share -> [of : Share, ok : BOOLEAN] \cup {NoAnswer}]

\* A share is judged once, on a job that then stores it.
ShareOK(i) ==
    /\ at[i] # "none" => msg[i] \in Message
    /\ i > submitted => at[i] = "none"
    /\ at[i] \in {"none", "elsewhere"} =>
           judgedOn[i] = NoJob /\ credit[i] = "none" /\ verdict[i] # "accepted"
    /\ judgedOn[i] # NoJob => Holds(jobs, announced, judgedOn[i], msg[i].content)
    /\ credit[i] # "none" => credit[i] = judgedOn[i].d /\ judgedOn[i].d = to[i]
    /\ i \in inbox => at[i] \in {"await", "done", "gone"}

HandlersOwn ==
    ~ reused => \A i \in inbox : resultHandlers[to[i]][msg[i].id] \in {0, i}

IInv ==
    /\ Caches /\ Types
    /\ \A i \in Share : ShareOK(i)
    /\ CreditedOnce /\ HandlersOwn /\ VerdictIsItsOwn

--------------------------------------------------------------------------------
\* The caches

\* The same jobs everywhere, with at least the shares they had.
Grown(js, ks) ==
    /\ ks = [d \in Dest |-> ks[d]]
    /\ \A d \in Dest : /\ SameJobs(js[d], ks[d])
                       /\ \A k \in Keys(js[d]) : js[d].dataMap[k].shares \subseteq ks[d].dataMap[k].shares

LEMMA GrownCaches ==
  ASSUME Caches, Grown(jobs, jobs'), UNCHANGED <<announced, repeated>>
  PROVE  Caches'
<1>1. ASSUME NEW d \in Dest PROVE MapOK(jobs'[d], announced[d], repeated[d])
  <2>1. MapOK(jobs[d], announced[d], repeated[d]) /\ SameJobs(jobs[d], jobs'[d])
    BY DEF Caches, Grown
  <2> QED
    BY <2>1, SameJobsMapOK
<1>2. jobs' = [d \in Dest |-> jobs'[d]]
  BY DEF Grown
<1> QED
  BY <1>1, <1>2 DEF Caches

LEMMA GrownHolds ==
  ASSUME NEW js, NEW ks, NEW ann, Grown(js, ks), NEW j, NEW c, Holds(js, ann, j, c)
  PROVE  Holds(ks, ann, j, c)
<1>1. /\ j.d \in Dest /\ j.n \in 1 .. ann[j.d]
      /\ \A k \in Keys(js[j.d]) : js[j.d].dataMap[k].n = j.n => c \in js[j.d].dataMap[k].shares
  BY DEF Holds
<1>2. /\ Keys(ks[j.d]) = Keys(js[j.d])
      /\ \A k \in Keys(js[j.d]) : /\ ks[j.d].dataMap[k].n = js[j.d].dataMap[k].n
                                  /\ js[j.d].dataMap[k].shares \subseteq ks[j.d].dataMap[k].shares
  BY <1>1 DEF Grown, SameJobs
<1> QED
  BY <1>1, <1>2 DEF Holds

\* A job's number is below the count of the pool, and no other job has it.
LEMMA NumbersDiffer ==
  ASSUME NEW bs, NEW a, NEW rep, MapOK(bs, a, rep), NEW k \in Keys(bs)
  PROVE  /\ bs.dataMap[k].n \in 1 .. a
         /\ \A l \in Keys(bs) : bs.dataMap[l].n = bs.dataMap[k].n => l = k
<1> DEFINE old == bs.orderedKeys
<1>1. /\ Len(old) \in Nat /\ Len(old) <= a /\ a \in Nat /\ Recent(bs, a)
  BY DEF MapOK, WellFormed
<1>2. PICK p \in 1 .. Len(old) : bs.dataMap[k].n = a - Len(old) + p /\ old[p] = k
  BY <1>1 DEF Recent
<1>3. bs.dataMap[k].n \in 1 .. a
  BY <1>1, <1>2
<1>4. ASSUME NEW l \in Keys(bs), bs.dataMap[l].n = bs.dataMap[k].n PROVE l = k
  <2>1. PICK q \in 1 .. Len(old) : bs.dataMap[l].n = a - Len(old) + q /\ old[q] = l
    BY <1>1 DEF Recent
  <2>2. p = q
    <3>1. a - Len(old) + p = a - Len(old) + q
      BY <1>2, <1>4, <2>1
    <3> HIDE DEF old
    <3> QED
      BY <1>1, <3>1
  <2> QED
    BY <1>2, <2>1, <2>2
<1> QED
  BY <1>3, <1>4

\* The jobs of a map after Updated: F is Scheduled or Expired.
LEMMA ScheduledSame ==
  ASSUME NEW bs, WellFormed(bs)
  PROVE  /\ SameJobs(bs, Updated(bs, Scheduled))
         /\ \A k \in Keys(bs) : Updated(bs, Scheduled).dataMap[k].shares = bs.dataMap[k].shares
<1> DEFINE cs == Updated(bs, Scheduled)
<1>1. \A k \in Keys(bs) : bs.dataMap[k] \in Job
  BY DEF WellFormed
<1>2. \A job \in Job : Scheduled(job) \in Job /\ Scheduled(job).n = job.n /\ Scheduled(job).shares = job.shares
  BY DEF Scheduled, Job
<1>3. /\ cs.orderedKeys = bs.orderedKeys /\ DOMAIN cs = DOMAIN bs
      /\ cs.dataMap = [k \in Keys(bs) |-> Scheduled(bs.dataMap[k])]
  BY DEF WellFormed, Updated
<1> QED
  BY <1>1, <1>2, <1>3 DEF SameJobs, WellFormed, Keys

LEMMA ExpiredSame ==
  ASSUME NEW bs, WellFormed(bs)
  PROVE  /\ SameJobs(bs, Updated(bs, Expired))
         /\ \A k \in Keys(bs) : Updated(bs, Expired).dataMap[k].shares = bs.dataMap[k].shares
<1> DEFINE cs == Updated(bs, Expired)
<1>1. \A k \in Keys(bs) : bs.dataMap[k] \in Job
  BY DEF WellFormed
<1>2. \A job \in Job : Expired(job) \in Job /\ Expired(job).n = job.n /\ Expired(job).shares = job.shares
  BY DEF Expired, Job
<1>3. /\ cs.orderedKeys = bs.orderedKeys /\ DOMAIN cs = DOMAIN bs
      /\ cs.dataMap = [k \in Keys(bs) |-> Expired(bs.dataMap[k])]
  BY DEF WellFormed, Updated
<1> QED
  BY <1>1, <1>2, <1>3 DEF SameJobs, WellFormed, Keys

\* Every verdict leaves the jobs and adds at most the share.
LEMMA StoredGrown ==
  ASSUME Caches, NEW d \in Dest, NEW m \in Message
  PROVE  Grown(jobs, Stored(d, m))
<1> DEFINE ks == Stored(d, m)
<1>0. /\ jobs = [e \in Dest |-> jobs[e]]
      /\ \A e \in Dest : WellFormed(jobs[e])
  BY DEF Caches, MapOK
<1>1. CASE ks = jobs
  BY <1>0, <1>1 DEF Grown, SameJobs
<1>2. CASE /\ Knows(d, m)
           /\ ks = [jobs EXCEPT ![d].dataMap[m.job].shares = @ \cup {m.content}]
  <2>1. m.content \in Content /\ m.job \in Keys(jobs[d])
    BY <1>2 DEF Message, Knows
  <2>2. jobs[d].dataMap \in [Keys(jobs[d]) -> Job] /\ DOMAIN jobs[d] = {"orderedKeys", "dataMap"}
    BY <1>0 DEF WellFormed
  <2> DEFINE new == [jobs[d].dataMap[m.job] EXCEPT !.shares = @ \cup {m.content}]
  <2>3. /\ ks = [e \in Dest |-> ks[e]]
        /\ \A e \in Dest : e # d => ks[e] = jobs[e]
    BY <1>0, <1>2
  <2>4. /\ ks[d].orderedKeys = jobs[d].orderedKeys /\ DOMAIN ks[d] = DOMAIN jobs[d]
        /\ ks[d].dataMap = [jobs[d].dataMap EXCEPT ![m.job] = new]
    <3>1. ks[d] = [jobs[d] EXCEPT !.dataMap = [jobs[d].dataMap EXCEPT ![m.job] = new]]
      BY <1>0, <1>2
    <3> HIDE DEF new, ks
    <3> QED
      BY <2>2, <3>1
  <2>5. /\ jobs[d].dataMap[m.job] \in Job /\ new \in Job
        /\ new.n = jobs[d].dataMap[m.job].n /\ jobs[d].dataMap[m.job].shares \subseteq new.shares
    BY <2>1, <2>2 DEF Job
  <2> HIDE DEF new, ks
  <2>6. ks[d].dataMap \in [Keys(jobs[d]) -> Job]
    BY <2>1, <2>2, <2>4, <2>5
  <2>7. \A k \in Keys(jobs[d]) : /\ ks[d].dataMap[k].n = jobs[d].dataMap[k].n
                                 /\ jobs[d].dataMap[k].shares \subseteq ks[d].dataMap[k].shares
    BY <2>1, <2>2, <2>4, <2>5
  <2>8. SameJobs(jobs[d], ks[d])
    <3>1. Keys(ks[d]) = Keys(jobs[d])
      BY <2>6 DEF Keys
    <3>2. WellFormed(ks[d])
      BY <1>0, <2>2, <2>4, <2>6, <3>1 DEF WellFormed
    <3> QED
      BY <2>4, <2>7, <3>1, <3>2 DEF SameJobs
  <2>9. ASSUME NEW e \in Dest, e # d
        PROVE  /\ SameJobs(jobs[e], ks[e])
               /\ \A k \in Keys(jobs[e]) : jobs[e].dataMap[k].shares \subseteq ks[e].dataMap[k].shares
    <3>1. ks[e] = jobs[e] /\ WellFormed(jobs[e])
      BY <1>0, <2>3, <2>9
    <3> QED
      BY <3>1 DEF SameJobs
  <2> QED
    BY <2>3, <2>7, <2>8, <2>9 DEF Grown, ks
<1> QED
  <2>1. Knows(d, m) \/ Verdicts(d, m) = {"job not found"}
    BY DEF Verdicts
  <2> QED
    BY <1>1, <1>2, <2>1 DEF Stored

\* An accepted share was not stored at its job, and is now.
LEMMA AcceptedOnce ==
  ASSUME Caches, NEW d \in Dest, NEW m \in Message, "accepted" \in Verdicts(d, m)
  PROVE  /\ Accepted(d, m) \in [d : Dest, n : Nat] /\ Accepted(d, m).d = d
         /\ Accepted(d, m) # NoJob
         /\ Holds(Stored(d, m), announced, Accepted(d, m), m.content)
         /\ ~ Holds(jobs, announced, Accepted(d, m), m.content)
<1> DEFINE n == JobOf(d, m).n
<1>0. MapOK(jobs[d], announced[d], repeated[d]) /\ announced[d] \in Nat
  BY DEF Caches
<1>1. Knows(d, m) /\ ~ Duplicate(d, m) /\ Verdicts(d, m) = {"accepted", "low difficulty"}
  BY DEF Verdicts
<1>2. /\ n \in 1 .. announced[d]
      /\ \A l \in Keys(jobs[d]) : jobs[d].dataMap[l].n = n => l = m.job
  BY <1>0, <1>1, NumbersDiffer DEF Knows, JobOf
<1>3. ~ (Verdicts(d, m) \in {{"job not found"}, {"duplicate"}})
  BY <1>1
<1>4. Stored(d, m) = [jobs EXCEPT ![d].dataMap[m.job].shares = @ \cup {m.content}]
  BY <1>3 DEF Stored
<1>5. m.content \in Stored(d, m)[d].dataMap[m.job].shares
  <2>1. /\ jobs = [e \in Dest |-> jobs[e]]
        /\ m.job \in DOMAIN jobs[d].dataMap
        /\ jobs[d].dataMap \in [DOMAIN jobs[d].dataMap -> Job]
        /\ DOMAIN jobs[d] = {"orderedKeys", "dataMap"}
    BY <1>0, <1>1 DEF Caches, MapOK, WellFormed, Knows, Keys
  <2> QED
    BY <1>4, <2>1 DEF Job
<1>6. Keys(Stored(d, m)[d]) = Keys(jobs[d])
      /\ \A k \in Keys(jobs[d]) : Stored(d, m)[d].dataMap[k].n = jobs[d].dataMap[k].n
  BY StoredGrown DEF Grown, SameJobs
<1>7. Accepted(d, m).d = d /\ Accepted(d, m).n = n /\ Accepted(d, m) \in [d : Dest, n : Nat]
  BY <1>2 DEF Accepted
<1>8. Accepted(d, m) # NoJob
  BY <1>2, <1>7 DEF NoJob
<1>9. Holds(Stored(d, m), announced, Accepted(d, m), m.content)
  BY <1>2, <1>5, <1>6, <1>7 DEF Holds
<1>10. ~ Holds(jobs, announced, Accepted(d, m), m.content)
  BY <1>1, <1>2, <1>7 DEF Holds, Knows, Duplicate, JobOf
<1> QED
  BY <1>7, <1>8, <1>9, <1>10

--------------------------------------------------------------------------------
\* Facts of the invariant that the steps use

\* A job that stores a content goes on doing so.
HoldsKept ==
    \A j, c : Holds(jobs, announced, j, c) => Holds(jobs', announced', j, c)

Untouched(i) ==
    /\ at'[i] = at[i] /\ msg'[i] = msg[i] /\ to'[i] = to[i] /\ verdict'[i] = verdict[i]
    /\ judgedOn'[i] = judgedOn[i] /\ credit'[i] = credit[i]

LEMMA UntouchedShare ==
  ASSUME IInv, NEW i \in Share, Untouched(i), HoldsKept, submitted' \in Nat, submitted <= submitted',
         i \in inbox' => i \in inbox
  PROVE  ShareOK(i)'
<1>1. ShareOK(i) /\ submitted \in Nat /\ i \in Nat
  <2>1. ShareOK(i) /\ submitted \in 0 .. MaxShares
    BY DEF IInv, Types
  <2> QED
    BY <2>1, BoundsAssumption DEF Share
<1>2. judgedOn[i] # NoJob => Holds(jobs', announced', judgedOn[i], msg[i].content)
  <2>1. judgedOn[i] # NoJob => Holds(jobs, announced, judgedOn[i], msg[i].content)
    BY <1>1 DEF ShareOK
  <2> QED
    BY <2>1, Zenon DEF HoldsKept
<1>3. (judgedOn[i] # NoJob => Holds(jobs, announced, judgedOn[i], msg[i].content))'
  BY <1>2 DEF Untouched
<1>4. i > submitted' => i > submitted
  BY <1>1
<1> QED
  BY <1>1, <1>3, <1>4 DEF ShareOK, Untouched

\* An announcement.
LEMMA NotifyCaches ==
  ASSUME Caches, NEW d \in Dest, NEW j \in JobID, NEW clean \in BOOLEAN, Notify(d, j, clean)
  PROVE  Caches' /\ HoldsKept
<1> DEFINE cs == IF clean THEN Updated(jobs[d], Scheduled) ELSE jobs[d]
           ds == Push(cs, j, NewJob(d))
           a == announced[d]
<1>0. MapOK(jobs[d], a, repeated[d]) /\ a \in Nat /\ WellFormed(jobs[d])
  BY DEF Caches, MapOK
<1>1. /\ SameJobs(jobs[d], cs)
      /\ \A k \in Keys(jobs[d]) : cs.dataMap[k].shares = jobs[d].dataMap[k].shares
  BY <1>0, ScheduledSame DEF SameJobs
<1>2. MapOK(cs, a, repeated[d])
  BY <1>0, <1>1, SameJobsMapOK
<1>3. /\ jobs' = [jobs EXCEPT ![d] = ds] /\ announced' = [announced EXCEPT ![d] = a + 1]
      /\ repeated' = [repeated EXCEPT ![d] = repeated'[d]]
      /\ repeated[d] \subseteq repeated'[d] /\ repeated'[d] \in SUBSET JobID
      /\ (\E k \in DOMAIN jobs[d].orderedKeys : jobs[d].orderedKeys[k] = j) => j \in repeated'[d]
  BY DEF Notify, Caches
<1>4. NewJob(d) \in Job /\ NewJob(d).n = a + 1
  BY <1>0 DEF NewJob, Job
<1>5. cs.orderedKeys = jobs[d].orderedKeys
  BY <1>1 DEF SameJobs
<1> HIDE DEF cs
<1>6. MapOK(ds, a + 1, repeated'[d])
  <2>1. (\E k \in DOMAIN cs.orderedKeys : cs.orderedKeys[k] = j) => j \in repeated'[d]
    BY <1>3, <1>5
  <2> QED
    BY <1>2, <1>3, <1>4, <2>1, PushMapOK
<1>7. /\ Keys(ds) \subseteq Keys(cs) \cup {j} /\ ds.dataMap[j] = NewJob(d)
      /\ \A k \in Keys(ds) : k # j => k \in Keys(cs) /\ ds.dataMap[k] = cs.dataMap[k]
  BY DEF Push, Keys, Left
<1> HIDE DEF ds, a
<1>8. jobs'[d] = ds /\ announced'[d] = a + 1
      /\ \A e \in Dest : e # d => /\ jobs'[e] = jobs[e] /\ announced'[e] = announced[e]
                                  /\ repeated'[e] = repeated[e]
  BY <1>3 DEF Caches
<1>9. Caches'
  <2>1. ASSUME NEW e \in Dest PROVE MapOK(jobs'[e], announced'[e], repeated'[e])
    <3>1. CASE e = d
      BY <1>6, <1>8, <3>1
    <3>2. CASE e # d
      BY <1>8, <3>2 DEF Caches
    <3> QED
      BY <3>1, <3>2
  <2>2. jobs' = [e \in Dest |-> jobs'[e]]
    BY <1>3 DEF Caches
  <2>3. announced' \in [Dest -> Nat] /\ repeated' \in [Dest -> SUBSET JobID]
    <3>1. a + 1 \in Nat
      BY <1>0
    <3> QED
      BY <1>3, <3>1 DEF Caches
  <2> QED
    BY <2>1, <2>2, <2>3 DEF Caches
<1>10. HoldsKept
  <2> SUFFICES ASSUME NEW h, NEW c, Holds(jobs, announced, h, c)
               PROVE  Holds(jobs', announced', h, c)
    BY DEF HoldsKept
  <2>0. /\ h.d \in Dest /\ h.n \in 1 .. announced[h.d]
        /\ \A k \in Keys(jobs[h.d]) :
              jobs[h.d].dataMap[k].n = h.n => c \in jobs[h.d].dataMap[k].shares
    BY DEF Holds
  <2>1. CASE h.d # d
    BY <1>8, <2>0, <2>1 DEF Holds
  <2>2. CASE h.d = d
    <3>1. h.n \in 1 .. a /\ h.n \in 1 .. a + 1 /\ h.n # a + 1
      BY <1>0, <2>0, <2>2 DEF a
    <3>2. ASSUME NEW k \in Keys(ds), ds.dataMap[k].n = h.n PROVE c \in ds.dataMap[k].shares
      <4>1. k # j
        BY <1>4, <1>7, <3>1, <3>2
      <4>2. k \in Keys(cs) /\ ds.dataMap[k] = cs.dataMap[k]
        BY <1>7, <4>1
      <4>3. k \in Keys(jobs[d]) /\ jobs[d].dataMap[k].n = h.n
        BY <1>1, <3>2, <4>2 DEF SameJobs
      <4> QED
        BY <1>1, <2>0, <2>2, <4>2, <4>3
    <3> QED
      BY <1>8, <2>0, <2>2, <3>1, <3>2 DEF Holds
  <2> QED
    BY <2>1, <2>2
<1> QED
  BY <1>9, <1>10

\* Time passes, or a share is judged.
LEMMA GrownKeeps ==
  ASSUME Caches, Grown(jobs, jobs'), UNCHANGED <<announced, repeated>>
  PROVE  Caches' /\ HoldsKept
<1>1. Caches'
  BY GrownCaches
<1>2. ASSUME NEW j, NEW c, Holds(jobs, announced, j, c) PROVE Holds(jobs', announced', j, c)
  BY <1>2, GrownHolds
<1> QED
  BY <1>1, <1>2 DEF HoldsKept

LEMMA TimePassesCaches ==
  ASSUME Caches, NEW d \in Dest, TimePasses(d)
  PROVE  Caches' /\ HoldsKept
<1>1. /\ jobs = [e \in Dest |-> jobs[e]] /\ \A e \in Dest : WellFormed(jobs[e])
  BY DEF Caches, MapOK
<1>2. jobs' = [jobs EXCEPT ![d] = Updated(jobs[d], Expired)] /\ UNCHANGED <<announced, repeated>>
  BY DEF TimePasses
<1>3. ASSUME NEW e \in Dest
      PROVE  /\ SameJobs(jobs[e], jobs'[e])
             /\ \A k \in Keys(jobs[e]) : jobs[e].dataMap[k].shares \subseteq jobs'[e].dataMap[k].shares
  <2>1. CASE e = d
    <3>1. jobs'[e] = Updated(jobs[e], Expired)
      BY <1>1, <1>2, <2>1
    <3>2. WellFormed(jobs[e])
      BY <1>1
    <3> QED
      BY <3>1, <3>2, ExpiredSame
  <2>2. CASE e # d
    <3>1. jobs'[e] = jobs[e] /\ WellFormed(jobs[e])
      BY <1>1, <1>2, <2>2
    <3> QED
      BY <3>1 DEF SameJobs
  <2> QED
    BY <2>1, <2>2
<1>4. Grown(jobs, jobs')
  <2>1. jobs' = [e \in Dest |-> jobs'[e]]
    BY <1>1, <1>2
  <2> QED
    BY <1>3, <2>1 DEF Grown
<1> QED
  BY <1>2, <1>4, GrownKeeps

--------------------------------------------------------------------------------
\* A share is looked for at one pool

\* What Submit and LookElsewhere share: pool d judges message m for share i.
LEMMA JudgedStep ==
  ASSUME IInv, NEW i \in Share, NEW d \in Dest, NEW m \in Message,
         jobs' = Stored(d, m), UNCHANGED <<announced, repeated, resultHandlers, inbox, reused, answer>>,
         submitted' \in Nat, submitted <= submitted', i <= submitted',
         i \notin inbox, judgedOn[i] = NoJob,
         msg'[i] = m,
         \A k \in Share : k # i => Untouched(k),
         \/ judgedOn'[i] = NoJob /\ credit'[i] = "none"
         \/ /\ "accepted" \in Verdicts(d, m) /\ judgedOn'[i] = Accepted(d, m)
            /\ to'[i] = d /\ credit'[i] = to'[i] /\ at'[i] \in {"answer", "over"},
         at'[i] \in {"elsewhere", "answer", "over"},
         at'[i] = "elsewhere" => verdict'[i] # "accepted"
  PROVE  /\ Caches' /\ (\A k \in Share : ShareOK(k)')
         /\ CreditedOnce' /\ HandlersOwn' /\ VerdictIsItsOwn'
<1>1. Caches' /\ HoldsKept
  <2>1. Grown(jobs, jobs')
    BY StoredGrown DEF IInv
  <2> QED
    BY <2>1, GrownKeeps DEF IInv
<1>2. judgedOn'[i] # NoJob =>
         /\ judgedOn'[i].d = d
         /\ Holds(jobs', announced', judgedOn'[i], m.content)
         /\ ~ Holds(jobs, announced, judgedOn'[i], m.content)
  BY AcceptedOnce DEF IInv
<1>3. ASSUME NEW k \in Share PROVE ShareOK(k)'
  <2>1. CASE k = i
    <3>1. (judgedOn[i] # NoJob => Holds(jobs, announced, judgedOn[i], msg[i].content))'
      <4>1. judgedOn'[i] # NoJob => Holds(jobs', announced', judgedOn'[i], msg'[i].content)
        BY <1>2, Zenon
      <4> QED
        BY <4>1
    <3>2. (credit[i] # "none" => credit[i] = judgedOn[i].d /\ judgedOn[i].d = to[i])'
      <4>1. credit'[i] # "none" => judgedOn'[i] # NoJob /\ to'[i] = d /\ credit'[i] = d
        BY AcceptedOnce DEF IInv
      <4>2. credit'[i] # "none" => credit'[i] = judgedOn'[i].d /\ judgedOn'[i].d = to'[i]
        BY <1>2, <4>1
      <4> QED
        BY <4>2
    <3>3. ~ (i > submitted') /\ i \notin inbox'
      BY DEF Share
    <3> QED
      BY <2>1, <3>1, <3>2, <3>3 DEF ShareOK
  <2>2. CASE k # i
    BY <1>1, <2>2, UntouchedShare
  <2> QED
    BY <2>1, <2>2
<1>4. CreditedOnce'
  <2> SUFFICES ASSUME NEW k \in Share, NEW l \in Share, k # l,
                      judgedOn'[k] # NoJob, judgedOn'[l] = judgedOn'[k]
               PROVE  msg'[k].content # msg'[l].content
    BY DEF CreditedOnce
  <2>1. CASE k # i /\ l # i
    BY <2>1 DEF IInv, CreditedOnce, Untouched
  <2>2. ASSUME NEW o \in Share, o # i, judgedOn'[o] = judgedOn'[i], judgedOn'[o] # NoJob
        PROVE  msg'[o].content # m.content
    <3>1. judgedOn[o] = judgedOn'[i] /\ msg'[o] = msg[o]
      BY <2>2 DEF Untouched
    <3>2. Holds(jobs, announced, judgedOn[o], msg[o].content)
      BY <2>2, <3>1 DEF IInv, ShareOK
    <3> QED
      BY <1>2, <2>2, <3>1, <3>2
  <2> QED
    BY <2>1, <2>2
<1>5. HandlersOwn'
  <2> SUFFICES ASSUME ~ reused', NEW k \in inbox'
               PROVE  resultHandlers'[to'[k]][msg'[k].id] \in {0, k}
    BY DEF HandlersOwn
  <2>1. k \in inbox /\ k \in Share /\ k # i
    BY DEF IInv, Types
  <2>2. to'[k] = to[k] /\ msg'[k] = msg[k]
    BY <2>1 DEF Untouched
  <2>3. resultHandlers[to[k]][msg[k].id] \in {0, k}
    BY <2>1 DEF IInv, HandlersOwn
  <2> QED
    BY <2>2, <2>3
<1>6. VerdictIsItsOwn'
  BY DEF IInv, VerdictIsItsOwn
<1> QED
  BY <1>1, <1>3, <1>4, <1>5, <1>6

\* A counter goes up by one.
LEMMA SourceCounts ==
  ASSUME NEW s \in [accepted : Nat, rejected : Nat, acceptedRejected : Nat, rejectedAccepted : Nat]
  PROVE  LET S == [accepted : Nat, rejected : Nat, acceptedRejected : Nat, rejectedAccepted : Nat] IN
           /\ [s EXCEPT !.accepted = @ + 1] \in S /\ [s EXCEPT !.rejected = @ + 1] \in S
           /\ [s EXCEPT !.acceptedRejected = @ + 1] \in S /\ [s EXCEPT !.rejectedAccepted = @ + 1] \in S
<1>1. /\ s.accepted \in Nat /\ s.rejected \in Nat
      /\ s.acceptedRejected \in Nat /\ s.rejectedAccepted \in Nat
  OBVIOUS
<1>2. /\ s.accepted + 1 \in Nat /\ s.rejected + 1 \in Nat
      /\ s.acceptedRejected + 1 \in Nat /\ s.rejectedAccepted + 1 \in Nat
  BY <1>1
<1> QED
  BY <1>1, <1>2

\* The types after the verdict.
LEMMA JudgeTypes ==
  ASSUME Types, NEW i \in Share, Judge(i),
         to' \in [Share -> Dest]
  PROVE  /\ invalid' \in Nat /\ cancelled' \in BOOLEAN
         /\ at' \in [Share -> {"none", "elsewhere", "answer", "await", "done", "gone", "over"}]
         /\ source' \in [accepted : Nat, rejected : Nat, acceptedRejected : Nat, rejectedAccepted : Nat]
         /\ credit' \in [Share -> Dest \cup {"none"}]
         /\ at'[i] \in {"answer", "over"} /\ \A k \in Share : k # i => at'[k] = at[k] /\ credit'[k] = credit[k]
         /\ verdict'[i] = "accepted" => credit'[i] = to'[i]
         /\ verdict'[i] # "accepted" => credit'[i] = credit[i]
<1>1. CASE verdict'[i] = "accepted"
  <2>1. /\ invalid' = 0 /\ source' = [source EXCEPT !.accepted = @ + 1]
        /\ credit' = [credit EXCEPT ![i] = to'[i]] /\ at' = [at EXCEPT ![i] = "answer"]
        /\ cancelled' = cancelled
    BY <1>1 DEF Judge, GetDiffOf
  <2>2. source' \in [accepted : Nat, rejected : Nat, acceptedRejected : Nat, rejectedAccepted : Nat]
    BY <2>1, SourceCounts DEF Types
  <2> QED
    BY <1>1, <2>1, <2>2 DEF Types
<1>2. CASE verdict'[i] # "accepted"
  <2>1. /\ invalid' = invalid + 1 /\ credit' = credit
        /\ \/ cancelled' = TRUE /\ at' = [at EXCEPT ![i] = "over"] /\ source' = source
           \/ /\ source' = [source EXCEPT !.rejected = @ + 1]
              /\ at' = [at EXCEPT ![i] = "answer"] /\ cancelled' = cancelled
    BY <1>2 DEF Judge
  <2>2. source' \in [accepted : Nat, rejected : Nat, acceptedRejected : Nat, rejectedAccepted : Nat]
    BY <2>1, SourceCounts DEF Types
  <2>3. invalid' \in Nat /\ cancelled' \in BOOLEAN /\ credit' \in [Share -> Dest \cup {"none"}]
    <3>1. invalid \in Nat /\ cancelled \in BOOLEAN /\ credit \in [Share -> Dest \cup {"none"}]
      BY DEF Types
    <3>2. invalid' \in Nat
      BY <2>1, <3>1
    <3>3. cancelled' \in BOOLEAN
      BY <2>1, <3>1, Zenon
    <3> QED
      BY <2>1, <3>1, <3>2, <3>3
  <2>4. /\ at' \in [Share -> {"none", "elsewhere", "answer", "await", "done", "gone", "over"}]
        /\ at'[i] \in {"answer", "over"} /\ \A k \in Share : k # i => at'[k] = at[k]
    BY <2>1 DEF Types
  <2> QED
    BY <1>2, <2>1, <2>2, <2>3, <2>4
<1> QED
  BY <1>1, <1>2

--------------------------------------------------------------------------------
\* The steps

LEMMA InitInv == Init => IInv
<1> SUFFICES ASSUME Init PROVE IInv
  OBVIOUS
<1>1. Caches
  <2>1. ASSUME NEW d \in Dest PROVE MapOK(jobs[d], announced[d], repeated[d])
    <3>1. jobs[d] = NewMap /\ announced[d] = 0 /\ repeated[d] = {}
      BY DEF Init
    <3>2. Keys(NewMap) = {} /\ NewMap.orderedKeys = <<>> /\ DOMAIN NewMap = {"orderedKeys", "dataMap"}
          /\ NewMap.dataMap \in [{} -> Job]
      BY DEF NewMap, Keys
    <3>3. WellFormed(NewMap)
      BY <3>2, CapacityAssumption DEF WellFormed
    <3> QED
      BY <3>1, <3>2, <3>3 DEF MapOK, Recent, Present, Doubled
  <2> QED
    BY <2>1 DEF Init, Caches
<1>2. Types
  <2>1. /\ resultHandlers \in [Dest -> [MsgID -> Share \cup {0}]]
        /\ inbox \subseteq Share /\ settled \subseteq Share /\ dest \in destMap /\ destMap \subseteq Dest
        /\ at \in [Share -> {"none", "elsewhere", "answer", "await", "done", "gone", "over"}]
        /\ to \in [Share -> Dest] /\ todo \subseteq Dest
        /\ verdict \in [Share -> {"none", "accepted", "duplicate", "low difficulty", "job not found"}]
        /\ msg \in [Share -> Message \cup {NoMsg}]
        /\ judgedOn \in [Share -> [d : Dest, n : Nat] \cup {NoJob}]
        /\ credit \in [Share -> Dest \cup {"none"}]
        /\ answer \in [Share -> [of : Share, ok : BOOLEAN] \cup {NoAnswer}]
    BY DestAssumption DEF Init
  <2>2. invalid \in Nat /\ cancelled \in BOOLEAN /\ submitted \in 0 .. MaxShares
    <3>1. invalid = 0 /\ cancelled = FALSE /\ submitted = 0
      BY DEF Init
    <3>2. submitted \in 0 .. MaxShares /\ invalid \in Nat
      BY <3>1, BoundsAssumption
    <3> QED
      BY <3>1, <3>2
  <2>3. /\ source \in [accepted : Nat, rejected : Nat, acceptedRejected : Nat, rejectedAccepted : Nat]
        /\ stats \in [Dest -> [acceptedAccepted : Nat, acceptedRejected : Nat, rejectedAccepted : Nat]]
    BY DEF Init
  <2> QED
    BY <2>1, <2>2, <2>3 DEF Types
<1>3. ASSUME NEW i \in Share PROVE ShareOK(i)
  BY DEF Init, ShareOK
<1>4. CreditedOnce /\ HandlersOwn /\ VerdictIsItsOwn
  BY DEF Init, CreditedOnce, HandlersOwn, VerdictIsItsOwn
<1> QED
  BY <1>1, <1>2, <1>3, <1>4 DEF IInv

LEMMA PoolStep ==
  ASSUME IInv, Pool
  PROVE  IInv'
<1>1. Caches' /\ HoldsKept
  <2>1. PICK d \in destMap : TimePasses(d) \/ \E j \in JobID, clean \in BOOLEAN : Notify(d, j, clean)
    BY DEF Pool
  <2>2. d \in Dest /\ Caches
    BY DEF IInv, Types
  <2> QED
    BY <2>1, <2>2, NotifyCaches, TimePassesCaches
<1>2. UNCHANGED <<wireVars, judgeVars, shareVars, proxyVars, statVars>>
  BY DEF Pool
<1>3. Types'
  BY <1>2 DEF IInv, Types, wireVars, judgeVars, shareVars, proxyVars, statVars
<1>4. ASSUME NEW i \in Share PROVE ShareOK(i)'
  <2>1. Untouched(i) /\ UNCHANGED <<submitted, inbox>>
    BY <1>2 DEF Untouched, wireVars, judgeVars, shareVars
  <2>2. submitted \in Nat
    <3>1. submitted \in 0 .. MaxShares
      BY DEF IInv, Types
    <3> QED
      BY <3>1, BoundsAssumption
  <2> QED
    BY <1>1, <2>1, <2>2, UntouchedShare
<1>5. CreditedOnce' /\ HandlersOwn' /\ VerdictIsItsOwn'
  BY <1>2 DEF IInv, CreditedOnce, HandlersOwn, VerdictIsItsOwn, wireVars, judgeVars, shareVars
<1> QED
  BY <1>1, <1>3, <1>4, <1>5 DEF IInv

LEMMA SetDestStep ==
  ASSUME IInv, NEW d \in Dest, SetDest(d)
  PROVE  IInv'
<1>1. UNCHANGED <<poolVars, wireVars, judgeVars, shareVars, cancelled, statVars>>
  BY DEF SetDest
<1>2. Types'
  <2>1. dest' \in destMap' /\ destMap' \subseteq Dest
    BY DEF SetDest, IInv, Types
  <2> QED
    BY <1>1, <2>1 DEF IInv, Types, wireVars, judgeVars, shareVars, statVars
<1>3. Caches'
  BY <1>1 DEF IInv, Caches, poolVars
<1>4. ASSUME NEW i \in Share PROVE ShareOK(i)'
  BY <1>1 DEF IInv, ShareOK, poolVars, wireVars, judgeVars, shareVars
<1>5. CreditedOnce' /\ HandlersOwn' /\ VerdictIsItsOwn'
  BY <1>1 DEF IInv, CreditedOnce, HandlersOwn, VerdictIsItsOwn, wireVars, judgeVars, shareVars
<1> QED
  BY <1>2, <1>3, <1>4, <1>5 DEF IInv

LEMMA SubmitStep ==
  ASSUME IInv, NEW i \in Share, Submit(i),
         UNCHANGED <<announced, repeated, wireVars, dest, destMap, failed>>
  PROVE  IInv'
<1>0. Types /\ ShareOK(i) /\ dest \in Dest
  BY DEF IInv, Types
<1>1. PICK id \in MsgID, j \in JobID, c \in Content :
         LET m == [id |-> id, job |-> j, content |-> c] IN
           /\ msg' = [msg EXCEPT ![i] = m]
           /\ jobs' = Stored(dest, m)
           /\ \E v \in Verdicts(dest, m) :
                /\ verdict' = [verdict EXCEPT ![i] = v]
                /\ judgedOn' = IF v = "accepted"
                                 THEN [judgedOn EXCEPT ![i] = Accepted(dest, m)] ELSE judgedOn
                /\ IF v \in {"job not found", "low difficulty"}
                     THEN /\ at' = [at EXCEPT ![i] = "elsewhere"] /\ todo' = destMap
                          /\ UNCHANGED <<invalid, credit, source, cancelled>>
                     ELSE Judge(i) /\ UNCHANGED todo
  BY DEF Submit
<1> DEFINE m == [id |-> id, job |-> j, content |-> c]
<1>2. m \in Message
  BY DEF Message
<1> HIDE DEF m
<1>3. /\ msg' = [msg EXCEPT ![i] = m] /\ jobs' = Stored(dest, m)
      /\ submitted' = i /\ i = submitted + 1
      /\ to' = [to EXCEPT ![i] = dest] /\ UNCHANGED <<answer, stats, settled>>
  BY <1>1 DEF Submit, m
<1>4. PICK v \in Verdicts(dest, m) :
         /\ verdict' = [verdict EXCEPT ![i] = v]
         /\ judgedOn' = IF v = "accepted" THEN [judgedOn EXCEPT ![i] = Accepted(dest, m)] ELSE judgedOn
         /\ IF v \in {"job not found", "low difficulty"}
              THEN /\ at' = [at EXCEPT ![i] = "elsewhere"] /\ todo' = destMap
                   /\ UNCHANGED <<invalid, credit, source, cancelled>>
              ELSE Judge(i) /\ UNCHANGED todo
  BY <1>1 DEF m
<1>5. /\ submitted \in 0 .. MaxShares /\ submitted \in Nat /\ i \in 1 .. MaxShares
      /\ submitted' \in 0 .. MaxShares /\ submitted' \in Nat /\ submitted <= submitted' /\ i > submitted
  <2>1. submitted \in 0 .. MaxShares /\ i \in 1 .. MaxShares
    BY <1>0 DEF Types, Share
  <2> QED
    BY <1>3, <2>1, BoundsAssumption
<1>6. /\ at[i] = "none" /\ judgedOn[i] = NoJob /\ credit[i] = "none" /\ i \notin inbox
  BY <1>0, <1>5 DEF ShareOK
<1>7. v \in {"accepted", "duplicate", "low difficulty", "job not found"}
  BY DEF Verdicts
<1>8. /\ msg' \in [Share -> Message \cup {NoMsg}] /\ msg'[i] = m
      /\ to' \in [Share -> Dest] /\ to'[i] = dest
      /\ verdict' \in [Share -> {"none", "accepted", "duplicate", "low difficulty", "job not found"}]
      /\ verdict'[i] = v
      /\ \A k \in Share : k # i => /\ msg'[k] = msg[k] /\ to'[k] = to[k]
                                   /\ verdict'[k] = verdict[k] /\ judgedOn'[k] = judgedOn[k]
  BY <1>0, <1>2, <1>3, <1>4, <1>7 DEF Types
<1>9. /\ judgedOn' \in [Share -> [d : Dest, n : Nat] \cup {NoJob}]
      /\ judgedOn'[i] = IF v = "accepted" THEN Accepted(dest, m) ELSE NoJob
  <2>1. v = "accepted" => Accepted(dest, m) \in [d : Dest, n : Nat]
    BY <1>0, <1>2, AcceptedOnce DEF IInv
  <2> QED
    BY <1>0, <1>4, <1>6, <2>1 DEF Types
<1>10. /\ invalid' \in Nat /\ cancelled' \in BOOLEAN
       /\ at' \in [Share -> {"none", "elsewhere", "answer", "await", "done", "gone", "over"}]
       /\ source' \in [accepted : Nat, rejected : Nat, acceptedRejected : Nat, rejectedAccepted : Nat]
       /\ credit' \in [Share -> Dest \cup {"none"}] /\ todo' \subseteq Dest
       /\ \A k \in Share : k # i => at'[k] = at[k] /\ credit'[k] = credit[k]
       /\ v = "accepted" => credit'[i] = to'[i] /\ at'[i] \in {"answer", "over"}
       /\ v # "accepted" => credit'[i] = "none"
       /\ at'[i] \in {"elsewhere", "answer", "over"}
       /\ at'[i] = "elsewhere" => v # "accepted"
  <2>1. CASE v \in {"job not found", "low difficulty"}
    <3>1. /\ at' = [at EXCEPT ![i] = "elsewhere"] /\ todo' = destMap
          /\ UNCHANGED <<invalid, credit, source, cancelled>>
      BY <1>4, <2>1
    <3> QED
      BY <1>0, <1>6, <2>1, <3>1 DEF Types
  <2>2. CASE v \notin {"job not found", "low difficulty"}
    <3>1. Judge(i) /\ todo' = todo
      BY <1>4, <2>2
    <3>2. todo' \subseteq Dest
      BY <1>0, <3>1 DEF Types
    <3> QED
      BY <1>0, <1>6, <1>8, <3>1, <3>2, JudgeTypes
  <2> QED
    BY <2>1, <2>2
<1>11. Types'
  <2>1. /\ resultHandlers' = resultHandlers /\ inbox' = inbox /\ dest' = dest /\ destMap' = destMap
    BY DEF wireVars
  <2> QED
    BY <1>0, <1>3, <1>5, <1>8, <1>9, <1>10, <2>1 DEF Types
<1>12. \A k \in Share : k # i => Untouched(k)
  BY <1>8, <1>10 DEF Untouched
<1>13. \/ judgedOn'[i] = NoJob /\ credit'[i] = "none"
       \/ /\ "accepted" \in Verdicts(dest, m) /\ judgedOn'[i] = Accepted(dest, m)
          /\ to'[i] = dest /\ credit'[i] = to'[i] /\ at'[i] \in {"answer", "over"}
  BY <1>8, <1>9, <1>10
<1>14. /\ UNCHANGED <<announced, repeated, resultHandlers, inbox, reused, answer>>
       /\ i <= submitted'
       /\ at'[i] = "elsewhere" => verdict'[i] # "accepted"
  <2>1. i <= submitted'
    BY <1>3, <1>5
  <2> QED
    BY <1>3, <1>8, <1>10, <2>1 DEF wireVars
<1>15. /\ Caches' /\ (\A k \in Share : ShareOK(k)')
       /\ CreditedOnce' /\ HandlersOwn' /\ VerdictIsItsOwn'
  <2>1. at'[i] \in {"elsewhere", "answer", "over"}
    BY <1>10
  <2> QED
    BY <1>0, <1>2, <1>3, <1>5, <1>6, <1>8, <1>12, <1>13, <1>14, <2>1, JudgedStep
<1> QED
  BY <1>11, <1>15 DEF IInv

LEMMA LookElsewhereStep ==
  ASSUME IInv, NEW i \in Share, LookElsewhere(i),
         UNCHANGED <<announced, repeated, wireVars, dest, destMap, failed>>
  PROVE  IInv'
<1>0. Types /\ ShareOK(i)
  BY DEF IInv
<1>1. at[i] = "elsewhere" /\ UNCHANGED <<submitted, msg, answer, stats, settled>>
  BY DEF LookElsewhere
<1>2. /\ msg[i] \in Message /\ judgedOn[i] = NoJob /\ credit[i] = "none"
      /\ verdict[i] # "accepted" /\ i \notin inbox
  BY <1>0, <1>1 DEF ShareOK
<1>3a. PICK d \in todo : \E v \in Verdicts(d, msg[i]) :
         /\ jobs' = Stored(d, msg[i])
         /\ IF v = "accepted"
              THEN /\ to' = [to EXCEPT ![i] = d]
                   /\ verdict' = [verdict EXCEPT ![i] = v]
                   /\ judgedOn' = [judgedOn EXCEPT ![i] = Accepted(d, msg[i])]
                   /\ todo' = {}
              ELSE todo' = todo \ {d} /\ UNCHANGED <<to, verdict, judgedOn>>
         /\ IF todo' = {} THEN Judge(i) ELSE UNCHANGED <<invalid, credit, source, at, cancelled>>
  BY DEF LookElsewhere
<1>3. PICK v \in Verdicts(d, msg[i]) :
         /\ jobs' = Stored(d, msg[i])
         /\ IF v = "accepted"
              THEN /\ to' = [to EXCEPT ![i] = d]
                   /\ verdict' = [verdict EXCEPT ![i] = v]
                   /\ judgedOn' = [judgedOn EXCEPT ![i] = Accepted(d, msg[i])]
                   /\ todo' = {}
              ELSE todo' = todo \ {d} /\ UNCHANGED <<to, verdict, judgedOn>>
         /\ IF todo' = {} THEN Judge(i) ELSE UNCHANGED <<invalid, credit, source, at, cancelled>>
  BY <1>3a
<1>4. d \in Dest
  BY <1>0 DEF Types
<1>5. /\ submitted \in 0 .. MaxShares /\ submitted \in Nat /\ i \in Nat /\ i <= submitted
  <2>1. submitted \in 0 .. MaxShares /\ ~ (i > submitted) /\ i \in 1 .. MaxShares
    BY <1>0, <1>1 DEF Types, ShareOK, Share
  <2> QED
    BY <2>1, BoundsAssumption
<1>6. /\ to' \in [Share -> Dest] /\ todo' \subseteq Dest
      /\ verdict' \in [Share -> {"none", "accepted", "duplicate", "low difficulty", "job not found"}]
      /\ judgedOn' \in [Share -> [d : Dest, n : Nat] \cup {NoJob}]
      /\ \A k \in Share : k # i => to'[k] = to[k] /\ verdict'[k] = verdict[k] /\ judgedOn'[k] = judgedOn[k]
      /\ v = "accepted" => /\ verdict'[i] = "accepted" /\ judgedOn'[i] = Accepted(d, msg[i])
                           /\ to'[i] = d /\ todo' = {}
      /\ v # "accepted" => verdict'[i] # "accepted" /\ judgedOn'[i] = NoJob
  <2>1. CASE v = "accepted"
    <3>1. Accepted(d, msg[i]) \in [d : Dest, n : Nat]
      BY <1>2, <1>4, <2>1, AcceptedOnce DEF IInv
    <3>2. /\ to' = [to EXCEPT ![i] = d] /\ verdict' = [verdict EXCEPT ![i] = v]
          /\ judgedOn' = [judgedOn EXCEPT ![i] = Accepted(d, msg[i])] /\ todo' = {}
      BY <1>3, <2>1
    <3> QED
      BY <1>0, <1>4, <2>1, <3>1, <3>2 DEF Types
  <2>2. CASE v # "accepted"
    BY <1>0, <1>2, <1>3, <2>2 DEF Types
  <2> QED
    BY <2>1, <2>2
<1>7. /\ invalid' \in Nat /\ cancelled' \in BOOLEAN
      /\ at' \in [Share -> {"none", "elsewhere", "answer", "await", "done", "gone", "over"}]
      /\ source' \in [accepted : Nat, rejected : Nat, acceptedRejected : Nat, rejectedAccepted : Nat]
      /\ credit' \in [Share -> Dest \cup {"none"}]
      /\ \A k \in Share : k # i => at'[k] = at[k] /\ credit'[k] = credit[k]
      /\ v = "accepted" => credit'[i] = to'[i] /\ at'[i] \in {"answer", "over"}
      /\ v # "accepted" => credit'[i] = "none"
      /\ at'[i] \in {"elsewhere", "answer", "over"}
  <2>1. CASE todo' = {}
    <3>1. Judge(i)
      BY <1>3, <2>1
    <3> QED
      BY <1>0, <1>2, <1>6, <3>1, JudgeTypes
  <2>2. CASE todo' # {}
    <3>1. UNCHANGED <<invalid, credit, source, at, cancelled>> /\ v # "accepted"
      BY <1>3, <1>6, <2>2
    <3> QED
      BY <1>0, <1>1, <1>2, <3>1 DEF Types
  <2> QED
    BY <2>1, <2>2
<1>8. Types'
  <2>1. /\ resultHandlers' = resultHandlers /\ inbox' = inbox /\ dest' = dest /\ destMap' = destMap
    BY DEF wireVars
  <2> QED
    BY <1>0, <1>1, <1>6, <1>7, <2>1 DEF Types
<1>9. \A k \in Share : k # i => Untouched(k)
  BY <1>1, <1>6, <1>7 DEF Untouched
<1>10. \/ judgedOn'[i] = NoJob /\ credit'[i] = "none"
       \/ /\ "accepted" \in Verdicts(d, msg[i]) /\ judgedOn'[i] = Accepted(d, msg[i])
          /\ to'[i] = d /\ credit'[i] = to'[i] /\ at'[i] \in {"answer", "over"}
  BY <1>6, <1>7
<1>11. at'[i] = "elsewhere" => verdict'[i] # "accepted"
  BY <1>6, <1>7
<1>12. /\ UNCHANGED <<announced, repeated, resultHandlers, inbox, reused, answer>>
       /\ submitted' \in Nat /\ submitted <= submitted' /\ i <= submitted'
       /\ msg'[i] = msg[i] /\ at'[i] \in {"elsewhere", "answer", "over"}
  <2>1. submitted <= submitted
    BY <1>5
  <2> QED
    BY <1>1, <1>5, <1>7, <2>1 DEF wireVars
<1>13. /\ Caches' /\ (\A k \in Share : ShareOK(k)')
       /\ CreditedOnce' /\ HandlersOwn' /\ VerdictIsItsOwn'
  BY <1>2, <1>3, <1>4, <1>9, <1>10, <1>11, <1>12, JudgedStep
<1> QED
  BY <1>8, <1>13 DEF IInv

\* A step of a share's goroutine, or the pool's answer: nothing is judged.
LEMMA GoroutineStep ==
  ASSUME IInv, Goroutine
  PROVE  IInv'
<1>0. UNCHANGED <<poolVars, judgeVars, submitted, msg, credit, dest, destMap>>
  BY DEF Goroutine
<1>1. PICK i \in Share : Leaves(i) \/ PoolAnswers(i)
  BY DEF Goroutine
<1>2. Types /\ ShareOK(i)
  BY DEF IInv
<1>3. Caches' /\ CreditedOnce'
  BY <1>0 DEF IInv, Caches, CreditedOnce, poolVars, judgeVars
<1>4. at[i] # "none" => to[i] \in Dest /\ msg[i].id \in MsgID
  BY <1>2 DEF Types, ShareOK, Message
<1>5. i \in inbox => to[i] \in Dest /\ msg[i].id \in MsgID /\ at[i] \in {"await", "done", "gone"}
  BY <1>2, <1>4 DEF ShareOK
<1>6. resultHandlers' \in [Dest -> [MsgID -> Share \cup {0}]] /\ inbox' \subseteq Share
  <2>1. \/ UNCHANGED <<resultHandlers, inbox>>
        \/ /\ to[i] \in Dest /\ msg[i].id \in MsgID
           /\ inbox' \subseteq inbox \cup {i}
           /\ \/ resultHandlers' = resultHandlers
              \/ resultHandlers' = [resultHandlers EXCEPT ![to[i]][msg[i].id] = 0]
              \/ resultHandlers' = [resultHandlers EXCEPT ![to[i]][msg[i].id] = i]
    BY <1>1, <1>4, <1>5 DEF Leaves, WriteFails, SendShare, GivesUp, Settle, Cleanup, PoolAnswers
  <2>2. resultHandlers \in [Dest -> [MsgID -> Share \cup {0}]] /\ inbox \subseteq Share
    BY <1>2 DEF Types
  <2>3. inbox' \subseteq Share
    BY <2>1, <2>2
  <2>4. CASE resultHandlers' = resultHandlers
    BY <2>2, <2>3, <2>4
  <2>5. ASSUME NEW h \in Share \cup {0}, to[i] \in Dest, msg[i].id \in MsgID,
               resultHandlers' = [resultHandlers EXCEPT ![to[i]][msg[i].id] = h]
        PROVE  resultHandlers' \in [Dest -> [MsgID -> Share \cup {0}]]
    BY <2>2, <2>5
  <2> QED
    BY <2>1, <2>3, <2>4, <2>5
<1>7. /\ at' \in [Share -> {"none", "elsewhere", "answer", "await", "done", "gone", "over"}]
      /\ \A k \in Share : at'[k] # at[k] => /\ at[k] \in {"answer", "await", "done"}
                                            /\ at'[k] \in {"await", "done", "gone"}
      /\ cancelled' \in BOOLEAN
  BY <1>1, <1>2 DEF Types, Leaves, WriteFails, SendShare, GivesUp, Settle, Cleanup, PoolAnswers, CancelRun
<1>8. \A k \in Share : k \in inbox' /\ k \notin inbox => k = i /\ at'[i] = "await"
  BY <1>1, <1>2 DEF Types, Leaves, WriteFails, SendShare, GivesUp, Settle, Cleanup, PoolAnswers
<1>9. ASSUME NEW k \in Share PROVE ShareOK(k)'
  BY <1>0, <1>7, <1>8 DEF IInv, ShareOK, poolVars, judgeVars
<1>10. /\ source' \in [accepted : Nat, rejected : Nat, acceptedRejected : Nat, rejectedAccepted : Nat]
       /\ stats' \in [Dest -> [acceptedAccepted : Nat, acceptedRejected : Nat, rejectedAccepted : Nat]]
  <2>1. /\ \/ source' = source
           \/ source' = [source EXCEPT !.acceptedRejected = @ + 1]
           \/ source' = [source EXCEPT !.rejectedAccepted = @ + 1]
        /\ \/ stats' = stats
           \/ stats' = [stats EXCEPT ![to[i]].acceptedAccepted = @ + 1]
           \/ stats' = [stats EXCEPT ![to[i]].rejectedAccepted = @ + 1]
    <3>1. CASE Settle(i)
      <4>1. Counted(i)
        BY <3>1 DEF Settle
      <4> QED
        BY <4>1 DEF Counted, statVars
    <3>2. CASE ~ Settle(i)
      BY <1>1, <3>2 DEF Leaves, WriteFails, SendShare, GivesUp, Cleanup, PoolAnswers, statVars
    <3> QED
      BY <3>1, <3>2
  <2>2. source \in [accepted : Nat, rejected : Nat, acceptedRejected : Nat, rejectedAccepted : Nat]
    BY <1>2 DEF Types
  <2>3. stats \in [Dest -> [acceptedAccepted : Nat, acceptedRejected : Nat, rejectedAccepted : Nat]]
    BY <1>2 DEF Types
  <2>4. to[i] \in Dest
    BY <1>2 DEF Types
  <2>5. /\ [stats[to[i]] EXCEPT !.acceptedAccepted = @ + 1]
              \in [acceptedAccepted : Nat, acceptedRejected : Nat, rejectedAccepted : Nat]
        /\ [stats[to[i]] EXCEPT !.rejectedAccepted = @ + 1]
              \in [acceptedAccepted : Nat, acceptedRejected : Nat, rejectedAccepted : Nat]
    BY <2>3, <2>4
  <2>6. source' \in [accepted : Nat, rejected : Nat, acceptedRejected : Nat, rejectedAccepted : Nat]
    BY <2>1, <2>2, SourceCounts
  <2>7. stats' \in [Dest -> [acceptedAccepted : Nat, acceptedRejected : Nat, rejectedAccepted : Nat]]
    <3>1. \/ stats' = stats
          \/ stats' = [stats EXCEPT ![to[i]] = [stats[to[i]] EXCEPT !.acceptedAccepted = @ + 1]]
          \/ stats' = [stats EXCEPT ![to[i]] = [stats[to[i]] EXCEPT !.rejectedAccepted = @ + 1]]
      BY <2>1
    <3> QED
      BY <2>3, <2>4, <2>5, <3>1, Zenon
  <2> QED
    BY <2>6, <2>7
<1>11. HandlersOwn'
  <2> SUFFICES ASSUME ~ reused', NEW k \in inbox'
               PROVE  resultHandlers'[to[k]][msg[k].id] \in {0, k}
    BY <1>0 DEF HandlersOwn, judgeVars
  <2>0. /\ ~ reused /\ k \in Share /\ to[k] \in Dest /\ k # 0
        /\ resultHandlers \in [Dest -> [MsgID -> Share \cup {0}]]
    <3>1. reused => reused'
      BY <1>1 DEF Leaves, WriteFails, SendShare, GivesUp, Settle, Cleanup, PoolAnswers
    <3>2. k \in Share /\ k # 0
      <4>1. k \in 1 .. MaxShares
        BY <1>6 DEF Share
      <4> QED
        BY <4>1, BoundsAssumption DEF Share
    <3> QED
      BY <1>2, <3>1, <3>2 DEF Types
  <2>1. k \in inbox => resultHandlers[to[k]][msg[k].id] \in {0, k}
    BY <2>0 DEF IInv, HandlersOwn
  <2>2. msg[k].id \in MsgID
    <3>1. at'[k] # "none" /\ msg' = msg
      BY <1>0, <1>9, <2>0 DEF ShareOK
    <3>2. msg'[k] \in Message
      BY <1>9, <2>0, <3>1 DEF ShareOK
    <3> QED
      BY <3>1, <3>2 DEF Message
  <2>3. CASE SendShare(i)
    <3>1. /\ resultHandlers' = [resultHandlers EXCEPT ![to[i]][msg[i].id] = i]
          /\ inbox' = inbox \cup {i} /\ at[i] = "answer"
          /\ ~ \E l \in Share : /\ at[l] \in {"await", "done"} \/ l \in inbox
                                /\ to[l] = to[i] /\ msg[l].id = msg[i].id
      BY <2>3 DEF SendShare
    <3>2. CASE k = i
      BY <2>0, <2>2, <3>1, <3>2
    <3>3. CASE k # i
      <4>1. k \in inbox /\ ~ (to[k] = to[i] /\ msg[k].id = msg[i].id)
        BY <2>0, <3>1, <3>3
      <4>2. resultHandlers'[to[k]][msg[k].id] = resultHandlers[to[k]][msg[k].id]
        BY <2>0, <2>2, <3>1, <4>1
      <4> QED
        BY <2>1, <4>1, <4>2
    <3> QED
      BY <3>2, <3>3
  <2>4. CASE ~ SendShare(i)
    <3>1. /\ inbox' \subseteq inbox
          /\ \/ resultHandlers' = resultHandlers
             \/ resultHandlers' = [resultHandlers EXCEPT ![to[i]][msg[i].id] = 0]
      BY <1>1, <2>4 DEF Leaves, WriteFails, GivesUp, Settle, Cleanup, PoolAnswers
    <3>2. resultHandlers'[to[k]][msg[k].id] \in {0, resultHandlers[to[k]][msg[k].id]}
      BY <2>0, <2>2, <3>1
    <3> QED
      BY <2>1, <3>1, <3>2
  <2> QED
    BY <2>3, <2>4
<1>12. /\ answer' \in [Share -> [of : Share, ok : BOOLEAN] \cup {NoAnswer}]
       /\ VerdictIsItsOwn'
  <2>1. CASE answer' = answer
    <3>1. reused => reused'
      BY <1>1 DEF Leaves, WriteFails, SendShare, GivesUp, Settle, Cleanup, PoolAnswers
    <3> QED
      BY <1>2, <2>1, <3>1 DEF IInv, Types, VerdictIsItsOwn
  <2>2. CASE answer' # answer
    <3>1. PoolAnswers(i)
      BY <1>1, <2>2 DEF Leaves, WriteFails, SendShare, GivesUp, Settle, Cleanup
    <3>2. PICK ok \in BOOLEAN :
             HandlerOf(i) # 0 /\ answer' = [answer EXCEPT ![HandlerOf(i)] = [of |-> i, ok |-> ok]]
      BY <2>2, <3>1 DEF PoolAnswers
    <3>3. i \in inbox /\ reused' = reused /\ (~ reused => HandlerOf(i) = i)
      BY <3>1, <3>2 DEF PoolAnswers, HandlerOf, IInv, HandlersOwn
    <3>4. answer' \in [Share -> [of : Share, ok : BOOLEAN] \cup {NoAnswer}]
      BY <1>2, <3>2 DEF Types
    <3>5. ASSUME NEW k \in Share, answer'[k] # NoAnswer, ~ reused' PROVE answer'[k].of = k
      <4>1. CASE k = i
        <5>1. answer'[k] = [of |-> i, ok |-> ok]
          BY <1>2, <3>2, <3>3, <3>5, <4>1 DEF Types
        <5> QED
          BY <4>1, <5>1
      <4>2. CASE k # i
        <5>1. answer'[k] = answer[k]
          BY <1>2, <3>2, <3>3, <3>5, <4>2 DEF Types
        <5> QED
          BY <3>3, <3>5, <5>1 DEF IInv, VerdictIsItsOwn
      <4> QED
        BY <4>1, <4>2
    <3> QED
      BY <3>4, <3>5 DEF VerdictIsItsOwn
  <2> QED
    BY <2>1, <2>2
<1>13. Types'
  <2>1. settled' \subseteq Share
    <3>1. settled' = settled \/ settled' = settled \cup {i}
      BY <1>1 DEF Leaves, WriteFails, SendShare, GivesUp, Settle, Cleanup, PoolAnswers, statVars
    <3> QED
      BY <1>2, <3>1 DEF Types
  <2> QED
    BY <1>0, <1>2, <1>6, <1>7, <1>10, <1>12, <2>1 DEF Types, judgeVars
<1> QED
  BY <1>3, <1>9, <1>11, <1>12, <1>13 DEF IInv

--------------------------------------------------------------------------------
\* The theorems

LEMMA Inductive == Spec => []IInv
<1>1. IInv /\ [Next]_vars => IInv'
  <2> SUFFICES ASSUME IInv, [Next]_vars PROVE IInv'
    OBVIOUS
  <2>1. CASE Pool
    BY <2>1, PoolStep
  <2>2. CASE OnMiningSubmit
    <3>1. PICK i \in Share : Submit(i) \/ LookElsewhere(i)
      BY <2>2 DEF OnMiningSubmit
    <3>2. UNCHANGED <<announced, repeated, wireVars, dest, destMap, failed>>
      BY <2>2 DEF OnMiningSubmit
    <3> QED
      BY <3>1, <3>2, SubmitStep, LookElsewhereStep
  <2>3. CASE Goroutine
    BY <2>3, GoroutineStep
  <2>4. CASE \E d \in Dest : SetDest(d)
    BY <2>4, SetDestStep
  <2>5. CASE UNCHANGED vars
    <3>1. UNCHANGED <<poolVars, wireVars, judgeVars, shareVars, proxyVars, statVars>>
      BY <2>5 DEF vars
    <3>2. Caches' /\ Types'
      BY <3>1 DEF IInv, Caches, Types, poolVars, wireVars, judgeVars, shareVars, proxyVars, statVars
    <3>3. ASSUME NEW i \in Share PROVE ShareOK(i)'
      BY <3>1 DEF IInv, ShareOK, poolVars, wireVars, judgeVars, shareVars
    <3>4. CreditedOnce' /\ HandlersOwn' /\ VerdictIsItsOwn'
      BY <3>1 DEF IInv, CreditedOnce, HandlersOwn, VerdictIsItsOwn, wireVars, judgeVars, shareVars
    <3> QED
      BY <3>2, <3>3, <3>4 DEF IInv
  <2> QED
    BY <2>1, <2>2, <2>3, <2>4, <2>5 DEF Next
<1> QED
  BY InitInv, <1>1, PTL DEF Spec

--------------------------------------------------------------------------------
\* The accounts: a second invariant on top of the first

\* Shares are judged one after the other, and a settled one is over.
InTurn ==
    \A i \in Share : /\ i <= submitted => at[i] # "none"
                     /\ at[i] = "elsewhere" => i = submitted
                     /\ i \in settled => at[i] \in {"done", "gone"}

\* The latest share that was judged
LastJudged == IF Idle THEN submitted ELSE submitted - 1

\* The counter of invalid shares is the length of a run that ends there.
InvalidRun ==
    /\ invalid <= LastJudged
    /\ \A k \in Share : k <= LastJudged /\ k > LastJudged - invalid => ~ WeAccepted(k)

\* A share that its pool or its goroutine may still find a handler for
Uses(i) == at[i] \in {"await", "done"} \/ i \in inbox

SameHandler(i, k) == to[i] = to[k] /\ msg[i].id = msg[k].id

\* As long as no ID is reused and nothing fails, no two shares have the same
\* handler, and a share that waits for its answer will get it.
AnswerComes ==
    ~ reused /\ ~ failed =>
        \A i \in Share :
            /\ \A k \in Share : Uses(i) /\ Uses(k) /\ SameHandler(i, k) => i = k
            /\ at[i] = "await" /\ answer[i] = NoAnswer => i \in inbox /\ HandlerOf(i) = i

AccountInv ==
    /\ InTurn
    /\ InvalidRun
    /\ AnswerComes
    /\ StatsAreKept
    /\ CutForAReason

\* The parts of StatsAreKept: what the miner is credited with, what was settled,
\* and that everything is settled in the end
JudgedAgree ==
    /\ source.accepted = Cardinality({i \in Judged : WeAccepted(i)})
    /\ source.rejected = Cardinality({i \in Judged : ~ WeAccepted(i) /\ at[i] # "over"})

SettledAgree ==
    /\ source.acceptedRejected = Cardinality({i \in settled : WeAccepted(i) /\ ~ answer[i].ok})
    /\ source.rejectedAccepted = Cardinality({i \in settled : ~ WeAccepted(i) /\ answer[i].ok})
    /\ \A d \in Dest :
         LET settledAt == {i \in settled : to[i] = d} IN
           /\ stats[d].acceptedAccepted = Cardinality({i \in settledAt : WeAccepted(i)})
           /\ stats[d].acceptedRejected = 0
           /\ stats[d].rejectedAccepted = Cardinality({i \in settledAt : ~ WeAccepted(i) /\ answer[i].ok})

AllSettled == ~ cancelled => settled = {i \in Share : at[i] \in {"done", "gone"}}

LEMMA StatsParts ==
  /\ StatsAreKept <=> JudgedAgree /\ SettledAgree /\ AllSettled
  /\ StatsAreKept' <=> (JudgedAgree /\ SettledAgree /\ AllSettled)'
BY DEF StatsAreKept, JudgedAgree, SettledAgree, AllSettled

\* One share more, counted once more
LEMMA CountUp ==
  ASSUME NEW S \in SUBSET Share, NEW i \in Share, i \notin S
  PROVE  /\ Cardinality(S) \in Nat
         /\ Cardinality(S \cup {i}) = Cardinality(S) + 1
<1>1. IsFiniteSet(Share)
  BY BoundsAssumption, FS_Interval DEF Share
<1>2. IsFiniteSet(S)
  BY <1>1, FS_Subset
<1> QED
  BY <1>2, FS_CardinalityType, FS_AddElement

\* Nothing that the accounts speak of changes.
LEMMA AccountsUntouched ==
  ASSUME AccountInv, UNCHANGED <<wireVars, judgeVars, shareVars, cancelled, failed, statVars>>
  PROVE  AccountInv'
<1>1. /\ UNCHANGED <<resultHandlers, inbox, reused, invalid, verdict, to, submitted, at, msg, answer>>
      /\ UNCHANGED <<cancelled, failed, source, stats, settled>>
  BY DEF wireVars, judgeVars, shareVars, statVars
<1>2. /\ Judged' = Judged /\ LastJudged' = LastJudged
      /\ \A k : WeAccepted(k)' = WeAccepted(k) /\ Uses(k)' = Uses(k) /\ HandlerOf(k)' = HandlerOf(k)
      /\ \A k, l : SameHandler(k, l)' = SameHandler(k, l)
  BY <1>1 DEF Judged, LastJudged, Idle, WeAccepted, Uses, SameHandler, HandlerOf
<1>3. InTurn' /\ InvalidRun' /\ CutForAReason'
  BY <1>1, <1>2 DEF AccountInv, InTurn, InvalidRun, CutForAReason, ManyInvalid
<1>4. AnswerComes'
  BY <1>1, <1>2 DEF AccountInv, AnswerComes
<1>5. StatsAreKept'
  <2>1. StatsAreKept
    BY DEF AccountInv
  <2>2. JudgedAgree' /\ AllSettled'
    <3>1. /\ {i \in Judged' : WeAccepted(i)'} = {i \in Judged : WeAccepted(i)}
          /\ {i \in Judged' : ~ WeAccepted(i)' /\ at'[i] # "over"} = {i \in Judged : ~ WeAccepted(i) /\ at[i] # "over"}
      BY <1>1, <1>2
    <3>2. JudgedAgree'
      BY <1>1, <2>1, <3>1, StatsParts DEF JudgedAgree
    <3>3. AllSettled'
      BY <1>1, <2>1, StatsParts DEF AllSettled
    <3> QED
      BY <3>2, <3>3
  <2>3. SettledAgree'
    BY <1>1, <2>1, StatsParts, Zenon DEF SettledAgree, WeAccepted
  <2> QED
    BY <2>2, <2>3, StatsParts
<1> QED
  BY <1>3, <1>4, <1>5 DEF AccountInv

--------------------------------------------------------------------------------
\* The accounts when a share is judged

\* What Submit and LookElsewhere share: the verdict on share i is final, or it
\* is looked for elsewhere; the shares before it were judged.
LEMMA JudgeAccounts ==
  ASSUME IInv, AccountInv, NEW i \in Share,
         at[i] \in {"none", "elsewhere"}, LastJudged = i - 1, submitted' = i,
         \A k \in Share : k # i => /\ at'[k] = at[k] /\ msg'[k] = msg[k] /\ to'[k] = to[k] /\ verdict'[k] = verdict[k]
                                   /\ at[k] # "elsewhere" /\ (at[k] # "none" <=> k < i),
         UNCHANGED <<wireVars, answer, stats, settled, failed>>,
         at'[i] \in {"elsewhere", "answer", "over"},
         at'[i] = "elsewhere" => ~ WeAccepted(i)' /\ UNCHANGED <<invalid, source, cancelled>>,
         at'[i] # "elsewhere" => Judge(i)
  PROVE  AccountInv'
<1>1. /\ Types /\ ShareOK(i) /\ InTurn /\ InvalidRun /\ AnswerComes /\ StatsAreKept /\ CutForAReason
      /\ i \in Nat /\ i > 0 /\ \A k \in Share : k \in Nat /\ k > 0
  <2>1. \A k \in Share : k \in Nat /\ k > 0
    BY BoundsAssumption DEF Share
  <2> QED
    BY <2>1 DEF IInv, AccountInv
<1>2. i \notin inbox /\ i \notin settled /\ settled \subseteq Share /\ ~ WeAccepted(i)
  BY <1>1 DEF ShareOK, InTurn, Types, WeAccepted
<1>3. InTurn'
  <2>1. ASSUME NEW k \in Share
        PROVE  /\ k <= i => at'[k] # "none"
               /\ at'[k] = "elsewhere" => k = i
               /\ k \in settled => at'[k] \in {"done", "gone"}
    <3>1. CASE k = i
      BY <1>2, <3>1
    <3>2. CASE k # i
      BY <1>1, <3>2 DEF InTurn
    <3> QED
      BY <3>1, <3>2
  <2> QED
    BY <2>1 DEF InTurn
<1>4. AnswerComes'
  <2> SUFFICES ASSUME ~ reused', ~ failed'
               PROVE  \A j \in Share :
                        /\ \A k \in Share : (Uses(j) /\ Uses(k) /\ SameHandler(j, k))' => j = k
                        /\ at'[j] = "await" /\ answer'[j] = NoAnswer => j \in inbox' /\ HandlerOf(j)' = j
    BY DEF AnswerComes
  <2>1. /\ ~ reused /\ ~ failed /\ inbox' = inbox /\ resultHandlers' = resultHandlers /\ answer' = answer
    BY DEF wireVars
  <2>2. \A j \in Share : Uses(j)' => j # i /\ Uses(j)
    BY <1>2, <2>1 DEF Uses
  <2>3. \A j, k \in Share : j # i /\ k # i /\ SameHandler(j, k)' => SameHandler(j, k)
    BY DEF SameHandler
  <2>4. \A j \in Share : j # i => HandlerOf(j)' = HandlerOf(j)
    BY <2>1 DEF HandlerOf
  <2> QED
    BY <1>1, <2>1, <2>2, <2>3, <2>4 DEF AnswerComes
<1>5. SettledAgree'
  <2>1. /\ \A k \in settled : /\ WeAccepted(k)' = WeAccepted(k) /\ to'[k] = to[k] /\ answer'[k] = answer[k]
        /\ settled' = settled /\ stats' = stats
        /\ source'.acceptedRejected = source.acceptedRejected
        /\ source'.rejectedAccepted = source.rejectedAccepted
    <3>1. \/ source' = source
          \/ source' = [source EXCEPT !.accepted = @ + 1]
          \/ source' = [source EXCEPT !.rejected = @ + 1]
      BY DEF Judge
    <3> QED
      BY <1>1, <1>2, <3>1 DEF Types, WeAccepted
  <2>2. /\ {k \in settled' : WeAccepted(k)' /\ ~ answer'[k].ok} = {k \in settled : WeAccepted(k) /\ ~ answer[k].ok}
        /\ {k \in settled' : ~ WeAccepted(k)' /\ answer'[k].ok} = {k \in settled : ~ WeAccepted(k) /\ answer[k].ok}
    BY <2>1
  <2>3. ASSUME NEW d \in Dest
        PROVE  /\ {k \in {l \in settled' : to'[l] = d} : WeAccepted(k)'}
                     = {k \in {l \in settled : to[l] = d} : WeAccepted(k)}
               /\ {k \in {l \in settled' : to'[l] = d} : ~ WeAccepted(k)' /\ answer'[k].ok}
                     = {k \in {l \in settled : to[l] = d} : ~ WeAccepted(k) /\ answer[k].ok}
    BY <2>1
  <2>4. SettledAgree
    BY <1>1, StatsParts
  <2>5. ASSUME NEW d \in Dest
        PROVE  /\ stats'[d].acceptedAccepted = Cardinality({k \in {l \in settled' : to'[l] = d} : WeAccepted(k)'})
               /\ stats'[d].acceptedRejected = 0
               /\ stats'[d].rejectedAccepted
                     = Cardinality({k \in {l \in settled' : to'[l] = d} : ~ WeAccepted(k)' /\ answer'[k].ok})
    BY <2>1, <2>3, <2>4 DEF SettledAgree
  <2>6. /\ source'.acceptedRejected = Cardinality({k \in settled' : WeAccepted(k)' /\ ~ answer'[k].ok})
        /\ source'.rejectedAccepted = Cardinality({k \in settled' : ~ WeAccepted(k)' /\ answer'[k].ok})
    BY <2>1, <2>2, <2>4 DEF SettledAgree
  <2> QED
    BY <2>5, <2>6 DEF SettledAgree
<1>6. cancelled => cancelled'
  BY DEF Judge
<1>7. AllSettled'
  <2>1. {k \in Share : at'[k] \in {"done", "gone"}} = {k \in Share : at[k] \in {"done", "gone"}}
    OBVIOUS
  <2> QED
    BY <1>1, <1>6, <2>1, StatsParts DEF AllSettled
<1>8. ManyInvalid => ManyInvalid'
  <2> SUFFICES ASSUME NEW j \in Judged, j > MaxInvalid, \A k \in j - MaxInvalid .. j : verdict[k] # "accepted"
               PROVE  ManyInvalid'
    BY DEF ManyInvalid
  <2>1. j \in Share /\ j # i /\ j < i /\ j \in Judged'
    BY DEF Judged
  <2>2. ASSUME NEW k \in j - MaxInvalid .. j PROVE verdict'[k] # "accepted"
    <3>1. k \in Share /\ k # i
      BY <1>1, <2>1, BoundsAssumption DEF Share
    <3> QED
      BY <3>1
  <2> QED
    BY <2>1, <2>2 DEF ManyInvalid
<1>9. CASE at'[i] = "elsewhere"
  <2>1. LastJudged' = i - 1
    BY <1>9 DEF LastJudged, Idle
  <2>2. InvalidRun'
    <3>1. \A k \in Share : k <= i - 1 => k # i
      BY <1>1
    <3> QED
      BY <1>1, <1>9, <2>1, <3>1 DEF InvalidRun, WeAccepted
  <2>3. /\ {k \in Judged' : WeAccepted(k)'} = {k \in Judged : WeAccepted(k)}
        /\ {k \in Judged' : ~ WeAccepted(k)' /\ at'[k] # "over"} = {k \in Judged : ~ WeAccepted(k) /\ at[k] # "over"}
    <3>1. \A k \in Share : /\ k \in Judged' <=> k \in Judged
                           /\ k \in Judged => k # i
      BY <1>2, <1>9 DEF Judged
    <3>2. Judged' \in SUBSET Share /\ Judged \in SUBSET Share
      BY DEF Judged
    <3> QED
      BY <3>1, <3>2 DEF WeAccepted
  <2>4. JudgedAgree'
    BY <1>1, <1>9, <2>3, StatsParts DEF JudgedAgree
  <2>5. CutForAReason'
    BY <1>1, <1>8, <1>9 DEF CutForAReason, wireVars
  <2> QED
    BY <1>3, <1>4, <1>5, <1>7, <2>2, <2>4, <2>5, StatsParts DEF AccountInv
<1>10. CASE at'[i] # "elsewhere"
  <2>1. Judge(i) /\ i \in Judged'
    BY <1>10 DEF Judged
  <2>2. LastJudged' = i
    BY <1>10 DEF LastJudged, Idle
  <2>3. invalid \in Nat /\ invalid <= i - 1 /\ \A k \in Share : k <= i - 1 /\ k > i - 1 - invalid => ~ WeAccepted(k)
    BY <1>1 DEF Types, InvalidRun
  <2>4. CASE WeAccepted(i)'
    <3>1. invalid' = 0 /\ source' = [source EXCEPT !.accepted = @ + 1] /\ cancelled' = cancelled
      BY <2>1, <2>4 DEF Judge, WeAccepted
    <3>2. InvalidRun'
      BY <1>1, <2>2, <3>1 DEF InvalidRun
    <3>3. JudgedAgree'
      <4> DEFINE S == {k \in Judged : WeAccepted(k)}
      <4>1. {k \in Judged' : WeAccepted(k)'} = S \cup {i}
        BY <2>1, <2>4 DEF Judged, WeAccepted
      <4>2. S \in SUBSET Share /\ i \notin S
        BY <1>2 DEF Judged
      <4>3. /\ source'.accepted = source.accepted + 1 /\ source.accepted = Cardinality(S)
            /\ source'.rejected = source.rejected
        BY <1>1, <3>1, StatsParts DEF Types, JudgedAgree
      <4>5. {k \in Judged' : ~ WeAccepted(k)' /\ at'[k] # "over"} = {k \in Judged : ~ WeAccepted(k) /\ at[k] # "over"}
        <5>1. \A k \in Share : k # i => (k \in Judged' <=> k \in Judged) /\ (WeAccepted(k)' <=> WeAccepted(k))
          BY DEF Judged, WeAccepted
        <5>2. i \notin Judged /\ Judged' \in SUBSET Share /\ Judged \in SUBSET Share
          BY DEF Judged
        <5> QED
          BY <2>4, <5>1, <5>2
      <4>6. source'.rejected = Cardinality({k \in Judged' : ~ WeAccepted(k)' /\ at'[k] # "over"})
        BY <1>1, <4>3, <4>5, StatsParts DEF JudgedAgree
      <4> HIDE DEF S
      <4>4. Cardinality(S \cup {i}) = Cardinality(S) + 1
        BY <4>2, CountUp
      <4> QED
        BY <4>1, <4>3, <4>4, <4>6 DEF JudgedAgree
    <3>4. CutForAReason'
      BY <1>1, <1>8, <3>1 DEF CutForAReason, wireVars
    <3> QED
      BY <1>3, <1>4, <1>5, <1>7, <3>2, <3>3, <3>4, StatsParts DEF AccountInv
  <2>5. CASE ~ WeAccepted(i)'
    <3>1. /\ invalid' = invalid + 1
          /\ source'.accepted = source.accepted
          /\ cancelled' = cancelled \/ invalid' > MaxInvalid
      BY <1>1, <2>1, <2>5 DEF Judge, WeAccepted, TooMany, Types
    <3>2. ASSUME NEW k \in Share, k <= i, k > i - invalid' PROVE ~ WeAccepted(k)'
      <4>1. CASE k = i
        BY <2>5, <4>1
      <4>2. CASE k # i
        <5>1. k <= i - 1 /\ k > i - 1 - invalid
          BY <1>1, <2>3, <3>1, <3>2, <4>2
        <5> QED
          BY <2>3, <4>2, <5>1 DEF WeAccepted
      <4> QED
        BY <4>1, <4>2
    <3>3. InvalidRun'
      <4>1. invalid' <= i
        BY <1>1, <2>3, <3>1
      <4> QED
        BY <2>2, <3>2, <4>1 DEF InvalidRun
    <3>4. {k \in Judged' : WeAccepted(k)'} = {k \in Judged : WeAccepted(k)}
      BY <1>2, <2>5 DEF Judged, WeAccepted
    <3>5. JudgedAgree'
      <4> DEFINE S == {k \in Judged : ~ WeAccepted(k) /\ at[k] # "over"}
      <4>1. /\ \A k \in Share : k # i => (k \in Judged' <=> k \in Judged) /\ (WeAccepted(k)' <=> WeAccepted(k)) /\ at'[k] = at[k]
            /\ i \notin Judged /\ i \in Judged' /\ Judged' \in SUBSET Share /\ Judged \in SUBSET Share
        BY <2>1 DEF Judged, WeAccepted
      <4>2. S \in SUBSET Share /\ i \notin S /\ source.rejected = Cardinality(S)
        BY <1>1, <4>1, StatsParts DEF JudgedAgree
      <4>3. CASE TooMany
        <5>1. at'[i] = "over" /\ source' = source
          BY <1>1, <2>1, <2>5, <4>3 DEF Judge, WeAccepted, Types
        <5>2. {k \in Judged' : ~ WeAccepted(k)' /\ at'[k] # "over"} = S
          BY <4>1, <5>1
        <5> QED
          BY <1>1, <3>1, <3>4, <4>2, <5>1, <5>2, StatsParts DEF JudgedAgree
      <4>4. CASE ~ TooMany
        <5>1. at'[i] = "answer" /\ source'.rejected = source.rejected + 1
          BY <1>1, <2>1, <2>5, <4>4 DEF Judge, WeAccepted, Types
        <5>2. {k \in Judged' : ~ WeAccepted(k)' /\ at'[k] # "over"} = S \cup {i}
          BY <2>5, <4>1, <5>1
        <5> HIDE DEF S
        <5>3. Cardinality(S \cup {i}) = Cardinality(S) + 1
          BY <4>2, CountUp
        <5> QED
          BY <1>1, <3>1, <3>4, <4>2, <5>1, <5>2, <5>3, StatsParts DEF JudgedAgree
      <4> QED
        BY <4>3, <4>4
    <3>6. invalid' > MaxInvalid => ManyInvalid'
      <4> SUFFICES ASSUME invalid' > MaxInvalid
                   PROVE  i > MaxInvalid /\ \A k \in i - MaxInvalid .. i : verdict'[k] # "accepted"
        BY <2>1 DEF ManyInvalid
      <4>1. i > MaxInvalid
        BY <1>1, <2>3, <3>1, BoundsAssumption
      <4>2. ASSUME NEW k \in i - MaxInvalid .. i PROVE verdict'[k] # "accepted"
        <5>1. k \in Share
          BY <1>1, <4>1, BoundsAssumption DEF Share
        <5>2. k <= i /\ k > i - invalid'
          BY <1>1, <2>3, <3>1, BoundsAssumption
        <5> QED
          BY <3>2, <5>1, <5>2 DEF WeAccepted
      <4> QED
        BY <4>1, <4>2
    <3>7. CutForAReason'
      BY <1>1, <1>8, <3>1, <3>6 DEF CutForAReason, wireVars
    <3> QED
      BY <1>3, <1>4, <1>5, <1>7, <3>3, <3>5, <3>7, StatsParts DEF AccountInv
  <2> QED
    BY <2>4, <2>5
<1> QED
  BY <1>9, <1>10

LEMMA SubmitAccounts ==
  ASSUME IInv, AccountInv, NEW i \in Share, Submit(i),
         UNCHANGED <<announced, repeated, wireVars, dest, destMap, failed>>
  PROVE  AccountInv'
<1>1. /\ Types /\ ShareOK(i) /\ InTurn /\ submitted \in 0 .. MaxShares
      /\ i = submitted + 1 /\ submitted' = i /\ Idle
      /\ UNCHANGED <<answer, stats, settled>>
  BY DEF IInv, AccountInv, Types, Submit
<1>2. submitted \in Nat /\ \A k \in Share : k \in Nat /\ k > 0
  BY <1>1, BoundsAssumption DEF Share
<1>3. at[i] = "none" /\ LastJudged = i - 1
  BY <1>1, <1>2 DEF ShareOK, LastJudged
<1>4. PICK id \in MsgID, j \in JobID, c \in Content :
         LET m == [id |-> id, job |-> j, content |-> c] IN
           /\ msg' = [msg EXCEPT ![i] = m]
           /\ \E v \in Verdicts(dest, m) :
                /\ verdict' = [verdict EXCEPT ![i] = v]
                /\ IF v \in {"job not found", "low difficulty"}
                     THEN /\ at' = [at EXCEPT ![i] = "elsewhere"] /\ todo' = destMap
                          /\ UNCHANGED <<invalid, credit, source, cancelled>>
                     ELSE Judge(i) /\ UNCHANGED todo
  BY DEF Submit
<1> DEFINE m == [id |-> id, job |-> j, content |-> c]
<1>5. PICK v \in Verdicts(dest, m) :
         /\ verdict' = [verdict EXCEPT ![i] = v]
         /\ IF v \in {"job not found", "low difficulty"}
              THEN /\ at' = [at EXCEPT ![i] = "elsewhere"] /\ todo' = destMap
                   /\ UNCHANGED <<invalid, credit, source, cancelled>>
              ELSE Judge(i) /\ UNCHANGED todo
  BY <1>4
<1>6. /\ to' = [to EXCEPT ![i] = dest] /\ msg' = [msg EXCEPT ![i] = m] /\ to' \in [Share -> Dest]
  BY <1>1, <1>4 DEF Submit, Types
<1> HIDE DEF m
<1>7. ASSUME NEW k \in Share, k # i
      PROVE  /\ msg'[k] = msg[k] /\ to'[k] = to[k] /\ verdict'[k] = verdict[k]
             /\ at[k] # "elsewhere" /\ (at[k] # "none" <=> k < i)
  <2>1. msg'[k] = msg[k] /\ to'[k] = to[k] /\ verdict'[k] = verdict[k] /\ at[k] # "elsewhere"
    BY <1>1, <1>5, <1>6, <1>7 DEF Types, Idle
  <2>2. ShareOK(k)
    BY DEF IInv
  <2>3. at[k] # "none" <=> k < i
    BY <1>1, <1>2, <1>7, <2>2 DEF InTurn, ShareOK
  <2> QED
    BY <2>1, <2>3
<1>8. /\ at'[i] \in {"elsewhere", "answer", "over"} /\ \A k \in Share : k # i => at'[k] = at[k]
      /\ at'[i] = "elsewhere" => ~ WeAccepted(i)' /\ UNCHANGED <<invalid, source, cancelled>>
      /\ at'[i] # "elsewhere" => Judge(i)
  <2>1. CASE v \in {"job not found", "low difficulty"}
    BY <1>1, <1>5, <2>1 DEF Types, WeAccepted
  <2>2. CASE v \notin {"job not found", "low difficulty"}
    BY <1>1, <1>5, <1>6, <2>2, JudgeTypes
  <2> QED
    BY <2>1, <2>2
<1> QED
  BY <1>1, <1>3, <1>7, <1>8, JudgeAccounts

LEMMA LookElsewhereAccounts ==
  ASSUME IInv, AccountInv, NEW i \in Share, LookElsewhere(i),
         UNCHANGED <<announced, repeated, wireVars, dest, destMap, failed>>
  PROVE  AccountInv'
<1>1. /\ Types /\ ShareOK(i) /\ InTurn /\ submitted \in 0 .. MaxShares
      /\ at[i] = "elsewhere" /\ submitted = i
      /\ UNCHANGED <<submitted, msg, answer, stats, settled>>
  BY DEF IInv, AccountInv, Types, InTurn, LookElsewhere
<1>2. submitted \in Nat /\ \A k \in Share : k \in Nat /\ k > 0
  BY <1>1, BoundsAssumption DEF Share
<1>3. LastJudged = i - 1
  BY <1>1 DEF LastJudged, Idle
<1>4. PICK d \in todo : \E v \in Verdicts(d, msg[i]) :
         /\ IF v = "accepted"
              THEN /\ to' = [to EXCEPT ![i] = d]
                   /\ verdict' = [verdict EXCEPT ![i] = v]
                   /\ todo' = {}
              ELSE todo' = todo \ {d} /\ UNCHANGED <<to, verdict>>
         /\ IF todo' = {} THEN Judge(i) ELSE UNCHANGED <<invalid, credit, source, at, cancelled>>
  BY DEF LookElsewhere
<1>5. /\ to' \in [Share -> Dest]
      /\ \A k \in Share : k # i => to'[k] = to[k] /\ verdict'[k] = verdict[k]
      /\ todo' # {} => ~ WeAccepted(i)'
  <2>1. d \in Dest /\ to \in [Share -> Dest] /\ verdict[i] # "accepted"
    BY <1>1 DEF Types, ShareOK
  <2>2. CASE to' = [to EXCEPT ![i] = d] /\ verdict' = [verdict EXCEPT ![i] = "accepted"] /\ todo' = {}
    BY <1>1, <2>1, <2>2 DEF Types
  <2>3. CASE to' = to /\ verdict' = verdict
    BY <2>1, <2>3 DEF WeAccepted
  <2> QED
    BY <1>4, <2>2, <2>3
<1>6. ASSUME NEW k \in Share, k # i
      PROVE  /\ msg'[k] = msg[k] /\ to'[k] = to[k] /\ verdict'[k] = verdict[k]
             /\ at[k] # "elsewhere" /\ (at[k] # "none" <=> k < i)
  <2>1. ShareOK(k)
    BY DEF IInv
  <2>2. at[k] # "none" <=> k < i
    <3>1. (k <= i => at[k] # "none") /\ (k > i => at[k] = "none")
      BY <1>1, <2>1 DEF InTurn, ShareOK
    <3>2. k \in Nat /\ i \in Nat
      BY <1>2
    <3> QED
      BY <1>6, <3>1, <3>2
  <2>3. at[k] # "elsewhere"
    BY <1>1, <1>6 DEF InTurn
  <2> QED
    BY <1>1, <1>5, <1>6, <2>2, <2>3
<1>7. /\ at'[i] \in {"elsewhere", "answer", "over"} /\ \A k \in Share : k # i => at'[k] = at[k]
      /\ at'[i] = "elsewhere" => ~ WeAccepted(i)' /\ UNCHANGED <<invalid, source, cancelled>>
      /\ at'[i] # "elsewhere" => Judge(i)
  <2>1. CASE todo' = {}
    BY <1>1, <1>4, <1>5, <2>1, JudgeTypes
  <2>2. CASE todo' # {}
    BY <1>1, <1>4, <1>5, <2>2
  <2> QED
    BY <2>1, <2>2
<1> QED
  BY <1>1, <1>3, <1>6, <1>7, JudgeAccounts

--------------------------------------------------------------------------------
\* The accounts when a share leaves

\* A share's goroutine goes on, or a pool answers.
LEMMA GoroutineAccounts ==
  ASSUME IInv, AccountInv, Goroutine
  PROVE  AccountInv'
<1>0. /\ UNCHANGED <<invalid, judgedOn, verdict, to, submitted, msg>>
      /\ InTurn /\ InvalidRun /\ AnswerComes /\ StatsAreKept /\ CutForAReason /\ Types
  BY DEF Goroutine, judgeVars, IInv, AccountInv
<1>1. PICK i \in Share : Leaves(i) \/ PoolAnswers(i)
  BY DEF Goroutine
<1>2. /\ \A k \in Share : k # i => at'[k] = at[k]
      /\ \/ at'[i] = at[i]
         \/ at[i] = "answer" /\ at'[i] \in {"await", "done"}
         \/ at[i] = "await" /\ at'[i] = "done"
         \/ at[i] = "done" /\ at'[i] = "gone"
      /\ i > 0
  <2>1. at \in [Share -> {"none", "elsewhere", "answer", "await", "done", "gone", "over"}] /\ i > 0
    <3>1. i > 0
      BY BoundsAssumption DEF Share
    <3> QED
      BY <1>0, <3>1 DEF Types
  <2> QED
    BY <1>1, <2>1 DEF Leaves, WriteFails, SendShare, GivesUp, Settle, Cleanup, PoolAnswers
<1>3. /\ Judged' = Judged /\ LastJudged' = LastJudged
      /\ \A k : WeAccepted(k)' = WeAccepted(k)
  <2>1. \A k \in Share : (at'[k] = "elsewhere" <=> at[k] = "elsewhere") /\ (at'[k] = "none" <=> at[k] = "none")
    BY <1>2
  <2>2. Idle' = Idle
    BY <2>1 DEF Idle
  <2> QED
    BY <1>0, <2>1, <2>2 DEF Judged, LastJudged, WeAccepted
<1>4. InvalidRun'
  BY <1>0, <1>3 DEF InvalidRun
<1>5. (settled' = settled /\ source' = source /\ stats' = stats /\ ~ Settle(i)) \/ Settle(i)
  BY <1>1 DEF Leaves, WriteFails, SendShare, GivesUp, Cleanup, PoolAnswers, statVars
<1>6. Settle(i) => /\ at[i] = "await" /\ at'[i] = "done" /\ settled' = settled \cup {i} /\ answer' = answer
                   /\ cancelled' = cancelled /\ failed' = failed /\ reused' = reused /\ Counted(i)
  BY <1>0 DEF Settle, Types
<1>7. InTurn'
  <2>1. ASSUME NEW k \in Share
        PROVE  /\ k <= submitted => at'[k] # "none"
               /\ at'[k] = "elsewhere" => k = submitted
               /\ k \in settled' => at'[k] \in {"done", "gone"}
    <3>1. (k <= submitted => at[k] # "none") /\ (at[k] = "elsewhere" => k = submitted)
          /\ (k \in settled => at[k] \in {"done", "gone"})
      BY <1>0 DEF InTurn
    <3>2. k \in settled' => at'[k] \in {"done", "gone"}
      BY <1>2, <1>5, <1>6, <3>1
    <3> QED
      BY <1>2, <3>1, <3>2
  <2> QED
    BY <1>0, <2>1 DEF InTurn
<1>8. \A k \in settled : answer'[k] = answer[k]
  <2>1. CASE answer' = answer
    BY <2>1
  <2>2. CASE answer' # answer
    <3>1. PoolAnswers(i)
      BY <1>1, <2>2 DEF Leaves, WriteFails, SendShare, GivesUp, Settle, Cleanup
    <3>2. at[HandlerOf(i)] = "await" /\ \E a : answer' = [answer EXCEPT ![HandlerOf(i)] = a]
      BY <2>2, <3>1 DEF PoolAnswers
    <3> QED
      BY <1>0, <3>2 DEF InTurn, Types
  <2> QED
    BY <2>1, <2>2
<1>9. StatsAreKept'
  <2>1. JudgedAgree'
    <3>1. source'.accepted = source.accepted /\ source'.rejected = source.rejected
      <4>1. \/ source' = source
            \/ source' = [source EXCEPT !.acceptedRejected = @ + 1]
            \/ source' = [source EXCEPT !.rejectedAccepted = @ + 1]
        BY <1>5, <1>6 DEF Counted
      <4> QED
        BY <1>0, <4>1 DEF Types
    <3>2. {k \in Judged' : WeAccepted(k)'} = {k \in Judged : WeAccepted(k)}
      BY <1>3
    <3>3. {k \in Judged' : ~ WeAccepted(k)' /\ at'[k] # "over"} = {k \in Judged : ~ WeAccepted(k) /\ at[k] # "over"}
      BY <1>2, <1>3 DEF Judged
    <3> QED
      BY <1>0, <3>1, <3>2, <3>3, StatsParts DEF JudgedAgree
  <2>2. AllSettled'
    <3> SUFFICES ASSUME ~ cancelled' PROVE settled' = {k \in Share : at'[k] \in {"done", "gone"}}
      BY DEF AllSettled
    <3>1. ~ cancelled
      BY <1>1 DEF Leaves, WriteFails, SendShare, GivesUp, Settle, Cleanup, PoolAnswers, CancelRun
    <3>2. settled = {k \in Share : at[k] \in {"done", "gone"}}
      BY <1>0, <3>1, StatsParts DEF AllSettled
    <3>3. CASE Settle(i)
      BY <1>2, <1>6, <3>2, <3>3
    <3>4. CASE ~ Settle(i)
      <4>1. at'[i] \in {"done", "gone"} <=> at[i] \in {"done", "gone"}
        <5>1. ~ WriteFails(i) /\ ~ GivesUp(i)
          BY DEF WriteFails, GivesUp, CancelRun
        <5> QED
          BY <1>0, <1>1, <1>2, <3>4, <5>1 DEF Leaves, SendShare, Cleanup, PoolAnswers, Types
      <4> QED
        BY <1>2, <1>5, <3>2, <3>4, <4>1
    <3> QED
      BY <3>3, <3>4
  <2>3. SettledAgree'
    <3>0. SettledAgree
      BY <1>0, StatsParts
    <3>1. CASE ~ Settle(i)
      <4>1. settled' = settled /\ source' = source /\ stats' = stats
        BY <1>5, <3>1
      <4>2. /\ {k \in settled' : WeAccepted(k)' /\ ~ answer'[k].ok}
                 = {k \in settled : WeAccepted(k) /\ ~ answer[k].ok}
            /\ {k \in settled' : ~ WeAccepted(k)' /\ answer'[k].ok}
                 = {k \in settled : ~ WeAccepted(k) /\ answer[k].ok}
        BY <1>3, <1>8, <4>1
      <4>3. ASSUME NEW d \in Dest
            PROVE  /\ {k \in {l \in settled' : to'[l] = d} : WeAccepted(k)'}
                         = {k \in {l \in settled : to[l] = d} : WeAccepted(k)}
                   /\ {k \in {l \in settled' : to'[l] = d} : ~ WeAccepted(k)' /\ answer'[k].ok}
                         = {k \in {l \in settled : to[l] = d} : ~ WeAccepted(k) /\ answer[k].ok}
        BY <1>0, <1>3, <1>8, <4>1
      <4>4. ASSUME NEW d \in Dest
            PROVE  /\ stats'[d].acceptedAccepted = Cardinality({k \in {l \in settled' : to'[l] = d} : WeAccepted(k)'})
                   /\ stats'[d].acceptedRejected = 0
                   /\ stats'[d].rejectedAccepted
                         = Cardinality({k \in {l \in settled' : to'[l] = d} : ~ WeAccepted(k)' /\ answer'[k].ok})
        BY <3>0, <4>1, <4>3 DEF SettledAgree
      <4> QED
        BY <3>0, <4>1, <4>2, <4>4 DEF SettledAgree
    <3>2. CASE Settle(i)
      <4>0. i \notin settled /\ settled \in SUBSET Share /\ to[i] \in Dest
        BY <1>0, <1>6, <3>2 DEF InTurn, Types
      <4> DEFINE lost == {k \in settled : WeAccepted(k) /\ ~ answer[k].ok}
                 won == {k \in settled : ~ WeAccepted(k) /\ answer[k].ok}
                 yes(d) == {k \in {l \in settled : to[l] = d} : WeAccepted(k)}
                 won2(d) == {k \in {l \in settled : to[l] = d} : ~ WeAccepted(k) /\ answer[k].ok}
                 With(S, P) == IF P THEN S \cup {i} ELSE S
                 One(P) == IF P THEN 1 ELSE 0
      <4>1. /\ {k \in settled' : WeAccepted(k)' /\ ~ answer'[k].ok} = With(lost, WeAccepted(i) /\ ~ answer[i].ok)
            /\ {k \in settled' : ~ WeAccepted(k)' /\ answer'[k].ok} = With(won, ~ WeAccepted(i) /\ answer[i].ok)
        BY <1>3, <1>6, <3>2
      <4>2. ASSUME NEW d \in Dest
            PROVE  /\ {k \in {l \in settled' : to'[l] = d} : WeAccepted(k)'}
                         = With(yes(d), to[i] = d /\ WeAccepted(i))
                   /\ {k \in {l \in settled' : to'[l] = d} : ~ WeAccepted(k)' /\ answer'[k].ok}
                         = With(won2(d), to[i] = d /\ ~ WeAccepted(i) /\ answer[i].ok)
        BY <1>0, <1>3, <1>6, <3>2
      <4>3. ASSUME NEW S \in SUBSET settled, NEW P \in BOOLEAN
            PROVE  Cardinality(With(S, P)) = Cardinality(S) + One(P)
        <5>1. S \in SUBSET Share /\ i \notin S
          BY <4>0
        <5> QED
          BY <5>1, CountUp
      <4>4. /\ lost \in SUBSET settled /\ won \in SUBSET settled
            /\ \A d \in Dest : yes(d) \in SUBSET settled /\ won2(d) \in SUBSET settled
        OBVIOUS
      <4>5. /\ source.acceptedRejected = Cardinality(lost) /\ source.rejectedAccepted = Cardinality(won)
            /\ \A d \in Dest : /\ stats[d].acceptedAccepted = Cardinality(yes(d))
                               /\ stats[d].acceptedRejected = 0
                               /\ stats[d].rejectedAccepted = Cardinality(won2(d))
        BY <3>0 DEF SettledAgree
      <4> HIDE DEF lost, won, yes, won2, With
      <4>6. /\ source'.acceptedRejected = source.acceptedRejected + One(WeAccepted(i) /\ ~ answer[i].ok)
            /\ source'.rejectedAccepted = source.rejectedAccepted + One(~ WeAccepted(i) /\ answer[i].ok)
        <5>1. source \in [accepted : Nat, rejected : Nat, acceptedRejected : Nat, rejectedAccepted : Nat]
          BY <1>0 DEF Types
        <5>2. CASE WeAccepted(i)
          <6>1. source' = IF answer[i].ok THEN source ELSE [source EXCEPT !.acceptedRejected = @ + 1]
            BY <1>6, <3>2, <5>2 DEF Counted, WeAccepted
          <6> QED
            BY <5>1, <5>2, <6>1
        <5>3. CASE ~ WeAccepted(i)
          <6>1. source' = IF answer[i].ok THEN [source EXCEPT !.rejectedAccepted = @ + 1] ELSE source
            BY <1>6, <3>2, <5>3 DEF Counted, WeAccepted
          <6> QED
            BY <5>1, <5>3, <6>1
        <5> QED
          BY <5>2, <5>3
      <4>7. ASSUME NEW d \in Dest
            PROVE  /\ stats'[d].acceptedAccepted = stats[d].acceptedAccepted + One(to[i] = d /\ WeAccepted(i))
                   /\ stats'[d].acceptedRejected = stats[d].acceptedRejected
                   /\ stats'[d].rejectedAccepted
                        = stats[d].rejectedAccepted + One(to[i] = d /\ ~ WeAccepted(i) /\ answer[i].ok)
        <5>1. stats \in [Dest -> [acceptedAccepted : Nat, acceptedRejected : Nat, rejectedAccepted : Nat]]
          BY <1>0 DEF Types
        <5>2. CASE WeAccepted(i)
          <6>1. stats' = [stats EXCEPT ![to[i]].acceptedAccepted = @ + 1]
            BY <1>6, <3>2, <5>2 DEF Counted, WeAccepted
          <6> QED
            BY <4>0, <5>1, <5>2, <6>1
        <5>3. CASE ~ WeAccepted(i)
          <6>1. stats' = IF answer[i].ok THEN [stats EXCEPT ![to[i]].rejectedAccepted = @ + 1] ELSE stats
            BY <1>6, <3>2, <5>3 DEF Counted, WeAccepted
          <6> QED
            BY <4>0, <5>1, <5>3, <6>1
        <5> QED
          BY <5>2, <5>3
      <4>8. /\ source'.acceptedRejected = Cardinality({k \in settled' : WeAccepted(k)' /\ ~ answer'[k].ok})
            /\ source'.rejectedAccepted = Cardinality({k \in settled' : ~ WeAccepted(k)' /\ answer'[k].ok})
        BY <4>1, <4>3, <4>4, <4>5, <4>6
      <4>9. ASSUME NEW d \in Dest
            PROVE  /\ stats'[d].acceptedAccepted = Cardinality({k \in {l \in settled' : to'[l] = d} : WeAccepted(k)'})
                   /\ stats'[d].acceptedRejected = 0
                   /\ stats'[d].rejectedAccepted
                         = Cardinality({k \in {l \in settled' : to'[l] = d} : ~ WeAccepted(k)' /\ answer'[k].ok})
        <5>1. /\ Cardinality(With(yes(d), to[i] = d /\ WeAccepted(i)))
                   = Cardinality(yes(d)) + One(to[i] = d /\ WeAccepted(i))
              /\ Cardinality(With(won2(d), to[i] = d /\ ~ WeAccepted(i) /\ answer[i].ok))
                   = Cardinality(won2(d)) + One(to[i] = d /\ ~ WeAccepted(i) /\ answer[i].ok)
          BY <4>3, <4>4
        <5> QED
          BY <4>2, <4>5, <4>7, <5>1
      <4> QED
        BY <4>8, <4>9 DEF SettledAgree
    <3> QED
      BY <3>1, <3>2
  <2> QED
    BY <2>1, <2>2, <2>3, StatsParts
<1>10. (reused => reused') /\ (failed => failed')
  <2>1. CASE WriteFails(i)
    BY <2>1, Zenon DEF WriteFails
  <2>2. CASE SendShare(i)
    BY <2>2, Zenon DEF SendShare
  <2>3. CASE GivesUp(i)
    <3>1. reused' = reused /\ (failed' = failed \/ failed' = (failed \/ i \in inbox))
      BY <2>3 DEF GivesUp
    <3>2. failed => failed'
      BY <3>1, Zenon
    <3> QED
      BY <3>1, <3>2
  <2>4. CASE Settle(i) \/ Cleanup(i) \/ PoolAnswers(i)
    BY <2>4 DEF Settle, Cleanup, PoolAnswers
  <2> QED
    BY <1>1, <2>1, <2>2, <2>3, <2>4 DEF Leaves
<1>11. CutForAReason'
  <2> SUFFICES ASSUME cancelled', ~ reused', ~ failed' PROVE ManyInvalid'
    BY DEF CutForAReason
  <2>1. ManyInvalid' = ManyInvalid
    BY <1>0, <1>3 DEF ManyInvalid
  <2>2. cancelled
    <3>1. CASE GivesUp(i) /\ ~ cancelled
      <4>1. at[i] = "await" /\ answer[i] = NoAnswer /\ i \notin inbox
        BY <3>1 DEF GivesUp
      <4> QED
        BY <1>0, <1>10, <4>1 DEF AnswerComes
    <3>2. CASE ~ GivesUp(i) \/ cancelled
      BY <1>1, <3>2 DEF Leaves, WriteFails, SendShare, Settle, Cleanup, PoolAnswers
    <3> QED
      BY <3>1, <3>2
  <2> QED
    BY <1>0, <1>10, <2>1, <2>2 DEF CutForAReason
<1>12. AnswerComes'
  <2> SUFFICES ASSUME ~ reused', ~ failed',
                      NEW j \in Share
               PROVE  /\ \A k \in Share : (Uses(j) /\ Uses(k) /\ SameHandler(j, k))' => j = k
                      /\ at'[j] = "await" /\ answer'[j] = NoAnswer => j \in inbox' /\ HandlerOf(j)' = j
    BY DEF AnswerComes
  <2>0. /\ ~ reused /\ ~ failed
        /\ \A k, l \in Share : SameHandler(k, l)' = SameHandler(k, l)
        /\ \A k, l \in Share : Uses(k) /\ Uses(l) /\ SameHandler(k, l) => k = l
        /\ \A k \in Share : at[k] = "await" /\ answer[k] = NoAnswer => k \in inbox /\ HandlerOf(k) = k
    BY <1>0, <1>10 DEF SameHandler, AnswerComes
  <2>1. CASE SendShare(i)
    <3>1. /\ inbox' = inbox \cup {i} /\ at'[i] = "await" /\ answer' = answer
          /\ resultHandlers' = [resultHandlers EXCEPT ![to[i]][msg[i].id] = i]
          /\ \A k \in Share : Uses(k) => ~ SameHandler(k, i)
      BY <1>0, <2>1 DEF SendShare, Uses, SameHandler, Types
    <3>2. \A k \in Share : k # i => Uses(k)' = Uses(k)
      BY <1>2, <3>1 DEF Uses
    <3>3. \A k \in Share : (Uses(j) /\ Uses(k) /\ SameHandler(j, k))' => j = k
      BY <2>0, <3>1, <3>2 DEF SameHandler
    <3>4. ASSUME at'[j] = "await", answer'[j] = NoAnswer PROVE j \in inbox' /\ HandlerOf(j)' = j
      <4>1. at[j] # "none" \/ j = i
        BY <1>2, <3>4
      <4>2. resultHandlers \in [Dest -> [MsgID -> Share \cup {0}]] /\ to[j] \in Dest /\ msg[j].id \in MsgID
        BY <1>0, <2>1, <4>1 DEF IInv, Types, ShareOK, Message, SendShare
      <4>3. CASE j = i
        BY <1>0, <3>1, <4>2, <4>3 DEF HandlerOf
      <4>4. CASE j # i
        <5>1. at[j] = "await" /\ j \in inbox /\ HandlerOf(j) = j /\ ~ SameHandler(j, i)
          BY <1>2, <2>0, <3>1, <3>4, <4>4 DEF Uses
        <5> QED
          BY <1>0, <3>1, <4>2, <5>1 DEF HandlerOf, SameHandler
      <4> QED
        BY <4>3, <4>4
    <3> QED
      BY <3>3, <3>4
  <2>2. CASE ~ SendShare(i)
    <3>1. \A k \in Share : Uses(k)' => Uses(k)
      BY <1>1, <1>2, <2>2 DEF Leaves, WriteFails, GivesUp, Settle, Cleanup, PoolAnswers, Uses
    <3>2. ASSUME at'[j] = "await", answer'[j] = NoAnswer PROVE j \in inbox' /\ HandlerOf(j)' = j
      <4>1. at[j] = "await" /\ Uses(j)
        BY <1>1, <1>2, <2>2, <3>2 DEF Leaves, WriteFails, GivesUp, Settle, Cleanup, PoolAnswers, Uses
      <4>2. resultHandlers \in [Dest -> [MsgID -> Share \cup {0}]] /\ to[j] \in Dest /\ msg[j].id \in MsgID
            /\ answer \in [Share -> [of : Share, ok : BOOLEAN] \cup {NoAnswer}]
        BY <1>0, <4>1 DEF IInv, Types, ShareOK, Message
      <4>3. CASE PoolAnswers(i)
        <5>1. i \in inbox /\ inbox' = inbox \ {i} /\ Uses(i) /\ at' = at
          BY <4>3 DEF PoolAnswers, Uses
        <5>2. PICK ok \in BOOLEAN :
                 IF HandlerOf(i) # 0
                   THEN /\ resultHandlers' = [resultHandlers EXCEPT ![to[i]][msg[i].id] = 0]
                        /\ answer' = IF at[HandlerOf(i)] = "await"
                                       THEN [answer EXCEPT ![HandlerOf(i)] = [of |-> i, ok |-> ok]] ELSE answer
                   ELSE UNCHANGED <<resultHandlers, answer>>
          BY <4>3 DEF PoolAnswers
        <5>3. [of |-> i, ok |-> ok] # NoAnswer
          BY <1>2 DEF NoAnswer
        <5>4. answer[j] = NoAnswer
          BY <3>2, <4>2, <5>2, <5>3
        <5>5. j \in inbox /\ HandlerOf(j) = j
          BY <2>0, <4>1, <5>4
        <5>6. j # i
          <6> SUFFICES ASSUME j = i PROVE FALSE
            OBVIOUS
          <6>1. answer' = [answer EXCEPT ![j] = [of |-> i, ok |-> ok]]
            BY <1>2, <4>1, <5>2, <5>5
          <6> QED
            BY <3>2, <4>2, <5>3, <6>1
        <5>7. ~ SameHandler(j, i)
          BY <2>0, <4>1, <5>1, <5>6
        <5>8. HandlerOf(j)' = HandlerOf(j)
          BY <1>0, <4>2, <5>2, <5>7 DEF HandlerOf, SameHandler
        <5> QED
          BY <5>1, <5>5, <5>6, <5>8
      <4>4. CASE Cleanup(i)
        <5>1. /\ Uses(i) /\ at'[i] = "gone" /\ inbox' = inbox /\ answer' = answer
              /\ resultHandlers' = [resultHandlers EXCEPT ![to[i]][msg[i].id] = 0]
          BY <1>0, <4>4 DEF Cleanup, Uses, Types
        <5>2. j # i /\ j \in inbox /\ HandlerOf(j) = j
          BY <2>0, <3>2, <4>1, <5>1
        <5>3. ~ SameHandler(j, i)
          BY <2>0, <4>1, <5>1, <5>2
        <5>4. HandlerOf(j)' = HandlerOf(j)
          BY <1>0, <4>2, <5>1, <5>3 DEF HandlerOf, SameHandler
        <5> QED
          BY <5>1, <5>2, <5>4
      <4>5. CASE GivesUp(i) \/ Settle(i)
        <5>1. inbox' = inbox /\ answer' = answer /\ resultHandlers' = resultHandlers
          BY <4>5 DEF GivesUp, Settle
        <5> QED
          BY <1>0, <2>0, <3>2, <4>1, <5>1 DEF HandlerOf
      <4> QED
        BY <1>1, <1>10, <2>2, <4>3, <4>4, <4>5 DEF Leaves, WriteFails
    <3> QED
      BY <2>0, <3>1, <3>2
  <2> QED
    BY <2>1, <2>2
<1> QED
  BY <1>4, <1>7, <1>9, <1>11, <1>12 DEF AccountInv

LEMMA InitAccounts == Init => AccountInv
<1> SUFFICES ASSUME Init PROVE AccountInv
  OBVIOUS
<1>1. /\ submitted = 0 /\ invalid = 0 /\ cancelled = FALSE /\ settled = {}
      /\ \A i \in Share : at[i] = "none" /\ i > 0 /\ i \in Nat
      /\ source.accepted = 0 /\ source.rejected = 0 /\ source.acceptedRejected = 0 /\ source.rejectedAccepted = 0
      /\ \A d \in Dest : stats[d].acceptedAccepted = 0 /\ stats[d].acceptedRejected = 0 /\ stats[d].rejectedAccepted = 0
      /\ inbox = {}
  BY BoundsAssumption DEF Init, Share
<1>2. InTurn /\ InvalidRun /\ CutForAReason
  BY <1>1 DEF InTurn, InvalidRun, LastJudged, Idle, CutForAReason
<1>3. AnswerComes
  BY <1>1 DEF AnswerComes, Uses
<1>4. Cardinality({}) = 0
  BY FS_EmptySet
<1>5. JudgedAgree
  <2>1. Judged = {}
    BY <1>1 DEF Judged
  <2> QED
    BY <1>1, <1>4, <2>1 DEF JudgedAgree
<1>6. SettledAgree
  <2>1. /\ {i \in settled : WeAccepted(i) /\ ~ answer[i].ok} = {}
        /\ {i \in settled : ~ WeAccepted(i) /\ answer[i].ok} = {}
        /\ \A d \in Dest : /\ {k \in {i \in settled : to[i] = d} : WeAccepted(k)} = {}
                           /\ {k \in {i \in settled : to[i] = d} : ~ WeAccepted(k) /\ answer[k].ok} = {}
    BY <1>1
  <2> QED
    BY <1>1, <1>4, <2>1 DEF SettledAgree
<1>7. AllSettled
  BY <1>1 DEF AllSettled
<1> QED
  BY <1>2, <1>3, <1>5, <1>6, <1>7, StatsParts DEF AccountInv

\* The two invariants are kept together.
LEMMA AccountInductive == Spec => []AccountInv
<1>1. IInv /\ AccountInv /\ [Next]_vars => AccountInv'
  <2> SUFFICES ASSUME IInv, AccountInv, [Next]_vars PROVE AccountInv'
    OBVIOUS
  <2>1. CASE Pool
    BY <2>1, AccountsUntouched DEF Pool, proxyVars
  <2>2. CASE OnMiningSubmit
    BY <2>2, SubmitAccounts, LookElsewhereAccounts DEF OnMiningSubmit
  <2>3. CASE Goroutine
    BY <2>3, GoroutineAccounts
  <2>4. CASE \E d \in Dest : SetDest(d)
    BY <2>4, AccountsUntouched DEF SetDest
  <2>5. CASE UNCHANGED vars
    BY <2>5, AccountsUntouched DEF vars, proxyVars
  <2> QED
    BY <2>1, <2>2, <2>3, <2>4, <2>5 DEF Next
<1> QED
  BY Inductive, InitAccounts, <1>1, PTL DEF Spec

--------------------------------------------------------------------------------
\* The theorems

\* Every variable stays in its type, and no cache grows past its capacity
\* (lib/bstackmap.go:28).
THEOREM TypeCorrectness == Spec => []TypeOK
<1>1. IInv => TypeOK
  <2> SUFFICES ASSUME IInv PROVE TypeOK
    OBVIOUS
  <2>1. ASSUME NEW d \in Dest
        PROVE  /\ Len(jobs[d].orderedKeys) <= Capacity
               /\ \A k \in Keys(jobs[d]) : k \in JobID /\ jobs[d].dataMap[k] \in Job
    BY DEF IInv, Caches, MapOK, WellFormed
  <2> QED
    BY <2>1 DEF IInv, Caches, Types, TypeOK
<1> QED
  BY Inductive, <1>1, PTL

\* A pool's cache holds only jobs of its last Capacity announcements, and of an
\* ID announced again only the latest (lib/bstackmap.go:28).
THEOREM CachesTheRecent == Spec => []CachedIsRecent
<1>1. IInv => CachedIsRecent
  <2> SUFFICES ASSUME IInv, NEW d \in Dest, NEW k \in Keys(jobs[d])
               PROVE  LET keys == jobs[d].orderedKeys
                          first == announced[d] - Len(keys)
                          n == jobs[d].dataMap[k].n
                      IN  n \in first + 1 .. announced[d] /\ keys[n - first] = k
                          /\ \A l \in n - first + 1 .. Len(keys) : keys[l] # k
    BY DEF CachedIsRecent
  <2> DEFINE keys == jobs[d].orderedKeys
             n == jobs[d].dataMap[k].n
             a == announced[d]
  <2>1. /\ Len(keys) \in Nat /\ Len(keys) <= a /\ a \in Nat /\ Recent(jobs[d], a)
    BY DEF IInv, Caches, MapOK, WellFormed
  <2>2. PICK p \in 1 .. Len(keys) :
           /\ n = a - Len(keys) + p /\ keys[p] = k
           /\ \A l \in p + 1 .. Len(keys) : keys[l] # k
    BY <2>1 DEF Recent
  <2> HIDE DEF keys, n, a
  <2>3. n - (a - Len(keys)) = p /\ n \in a - Len(keys) + 1 .. a
    BY <2>1, <2>2
  <2> QED
    BY <2>2, <2>3 DEF keys, n, a
<1> QED
  BY Inductive, <1>1, PTL

\* One of the last Capacity jobs is missing only if its ID was announced again
\* while the earlier job was still ordered, and the latest never is
\* (validator/validator.go:91).
THEOREM LosesOnlyRepeated == Spec => []LostOnlyIfRepeated
<1>1. IInv => LostOnlyIfRepeated
  BY DEF IInv, Caches, MapOK, Present, LostOnlyIfRepeated
<1> QED
  BY Inductive, <1>1, PTL

\* No two shares are accepted with the same content for the same job of a pool
\* (validator/mining_job.go:35).
THEOREM CreditsOnce == Spec => []CreditedOnce
<1>1. IInv => CreditedOnce
  BY DEF IInv
<1> QED
  BY Inductive, <1>1, PTL

\* A share is credited with the difficulty of the pool that announced its job
\* and that it is sent to (proxy/handler_mining.go:85).
THEOREM CreditsItsPool == Spec => []CreditIsOfItsPool
<1>1. IInv => CreditIsOfItsPool
  BY DEF IInv, ShareOK, CreditIsOfItsPool
<1> QED
  BY Inductive, <1>1, PTL

\* As long as no ID is used again in flight, the pool's verdict that is counted
\* for a share is the one on that share (proxy/conn_dest.go:271).
THEOREM GivesItsOwnVerdict == Spec => []VerdictIsItsOwn
<1>1. IInv => VerdictIsItsOwn
  BY DEF IInv
<1> QED
  BY Inductive, <1>1, PTL

\* The bounded map is the window of the last announcements (lib/bstackmap.go:28).
THEOREM KeepsTheRecent == Spec => []CacheIsRecent
  BY CachesTheRecent, LosesOnlyRepeated, PTL DEF CacheIsRecent

\* Work is credited once, and to its pool.
THEOREM CreditsRight == Spec => []CreditIsRight
  BY CreditsOnce, CreditsItsPool, PTL DEF CreditIsRight

\* Every counter of the miner and of its pools is the number of the shares that the
\* code counts there, each once, whatever pools answered and in which order; a
\* pool's rejection of a share that we accepted is counted as such for the miner
\* only (proxy/handler_mining.go:164-183).  The miner is cut off only for too many
\* invalid shares, a failure or an ID used again in flight.
THEOREM KeepsTheAccounts == Spec => []AccountsAreKept
<1>1. AccountInv => AccountsAreKept
  BY DEF AccountInv, AccountsAreKept
<1> QED
  BY AccountInductive, <1>1, PTL

================================================================================
