------------------------------ MODULE FirstConnect ------------------------------
(***************************************************************************)
(* The handshake of a miner (proxy/handler_first_connect.go) over the      *)
(* synchronised pipe (pipe_sync.go): one goroutine reads the miner, one    *)
(* the pool, and the loop of the pipe takes a message from either.  The    *)
(* answer to a request whose identifier has a handler (conn_dest.go) is    *)
(* dealt with by the goroutine that reads the pool, beside the loop.       *)
(*                                                                         *)
(* A message of the miner is its method, sent once each; a message of the  *)
(* pool is a record with its number in the order sent.  Whether another    *)
(* miner has subscribed is kept, as the code does, for all of them.        *)
(***************************************************************************)
EXTENDS Naturals, Sequences, FiniteSets

CONSTANTS MaxMessages,        \* bound: messages of the miner
          MaxNotifications,   \* bound: notifications of the pool
          MaxFailures         \* bound: connections that close or are refused, answers that
                              \* refuse, and answers that do not come in RESPONSE_TIMEOUT

ASSUME BoundsAssumption == MaxMessages \in Nat /\ MaxNotifications \in Nat /\ MaxFailures \in Nat

\* configureUnknown names a contract that the node does not know
Configure == {"configure", "configureUnknown"}
MinerMsg == Configure \cup {"subscribe", "authorize", "submit", "other"}
Request == {"configure", "subscribe", "authorize", "other"}
RequestOf(m) == IF m \in Configure THEN "configure" ELSE m

\* "other" is a request too, without a handler; a mask is not sent on
PoolMsg == [kind : {"result", "refusal"}, of : Request, n : Nat] \cup [kind : {"notify", "mask"}, of : {"none"}, n : Nat]

VARIABLES
    \* the miner
    sent,            \* messages it sent, in order
    received,        \* messages it received
    sourceOpen,
    \* the pool
    asked,           \* requests that the pool has not answered
    answers,         \* messages on the way from the pool
    answered,        \* messages the pool sent so far
    notified,        \* those of them that answer no request
    destOpen,
    \* the package and the proxy
    minerSubscribeReceived,
    dest,            \* none, or pool
    stored,          \* the connection is in destMap
    handlers,        \* requests with a handler for the answer
    extraNonce,      \* the connection has its extranonce
    jobs,            \* for every job added: its number, and whether the extranonce was known
    \* the pipe
    cancelled,       \* cancelHandshakePipe was called
    r1, held1, err1, \* goroutine of the miner: its place, its message, its error
    r2, held2, err2, \* goroutine of the pool
    main, current,   \* the loop and the message it writes
    err,             \* the error with which the loop ended
    res,             \* what Connect returned
    crashed,         \* a nil connection was used
    \* history
    accepted,        \* the pool authorized
    late,            \* requests whose handler was removed by the timeout
    lost,            \* messages of the pool that were read and never written
    failures         \* failures so far

minerVars == <<sent, received, sourceOpen>>
poolVars == <<asked, answers, answered, notified, destOpen>>
destVars == <<minerSubscribeReceived, dest, stored, extraNonce, jobs>>
r1Vars == <<r1, held1, err1>>
r2Vars == <<r2, held2, err2>>
mainVars == <<main, current, err, res, crashed>>
historyVars == <<accepted, late, lost, failures>>
vars == <<minerVars, poolVars, destVars, handlers, cancelled, r1Vars, r2Vars, mainVars, historyVars>>

Nothing == [kind |-> "notify", of |-> "none", n |-> 0]

--------------------------------------------------------------------------------
Init ==
    /\ sent = <<>> /\ received = <<>> /\ sourceOpen = TRUE
    /\ asked = <<>> /\ answers = <<>> /\ answered = 0 /\ notified = 0 /\ destOpen = FALSE
    /\ minerSubscribeReceived = FALSE /\ dest = "none" /\ stored = FALSE
    /\ handlers = {} /\ extraNonce = FALSE /\ jobs = {}
    /\ cancelled = FALSE
    /\ r1 = "reading" /\ held1 = 0 /\ err1 = "none"
    /\ r2 = "off" /\ held2 = Nothing /\ err2 = "none"
    /\ main = "select" /\ current = Nothing /\ err = "none" /\ res = "none" /\ crashed = FALSE
    /\ accepted = FALSE /\ late = {} /\ lost = 0 /\ failures = 0

Fails == failures < MaxFailures /\ failures' = failures + 1

\* the context of the two goroutines: Run has left the loop, or was cancelled
StreamsCancelled == cancelled \/ main = "leaving"

Told(k) == [kind |-> "result", of |-> k, n |-> 0]

--------------------------------------------------------------------------------
\* The miner, the pool, and another miner of the node
MinerSends ==
    /\ sourceOpen /\ Len(sent) < MaxMessages
    /\ \E m \in MinerMsg :
          /\ \A i \in DOMAIN sent : RequestOf(sent[i]) # RequestOf(m)
          /\ m = "submit" => /\ \E i \in DOMAIN received : received[i].kind = "notify"
                             /\ \E i \in DOMAIN received : received[i].of = "authorize"
          /\ sent' = Append(sent, m)
    /\ UNCHANGED <<received, sourceOpen, poolVars, minerSubscribeReceived, accepted, failures>>

PoolAnswers ==
    /\ asked # <<>> /\ destOpen
    /\ \E kind \in {"result", "refusal"} :
          /\ answers' = Append(answers, [kind |-> kind, of |-> Head(asked), n |-> answered + 1])
          /\ IF kind = "refusal" THEN Fails ELSE UNCHANGED failures
          /\ accepted' = (accepted \/ (kind = "result" /\ Head(asked) = "authorize"))
    /\ answered' = answered + 1 /\ asked' = Tail(asked)
    /\ UNCHANGED <<minerVars, notified, destOpen, minerSubscribeReceived>>

PoolNotifies ==
    /\ destOpen /\ notified < MaxNotifications
    /\ \E kind \in {"notify", "mask"} :
          answers' = Append(answers, [kind |-> kind, of |-> "none", n |-> answered + 1])
    /\ answered' = answered + 1 /\ notified' = notified + 1
    /\ UNCHANGED <<minerVars, asked, destOpen, minerSubscribeReceived, accepted, failures>>

Closes ==
    /\ Fails
    /\ \/ sourceOpen /\ sourceOpen' = FALSE /\ UNCHANGED destOpen
       \/ destOpen /\ destOpen' = FALSE /\ UNCHANGED sourceOpen
    /\ UNCHANGED <<sent, received, asked, answers, answered, notified, minerSubscribeReceived, accepted>>

OtherMinerSubscribes ==
    /\ ~ minerSubscribeReceived /\ minerSubscribeReceived' = TRUE
    /\ UNCHANGED <<minerVars, poolVars, accepted, failures>>

Outside ==
    /\ res = "none"
    /\ MinerSends \/ PoolAnswers \/ PoolNotifies \/ Closes \/ OtherMinerSubscribes
    /\ UNCHANGED <<dest, stored, extraNonce, jobs, handlers, cancelled, r1Vars, r2Vars, mainVars, late, lost>>

\* RESPONSE_TIMEOUT passed since the request: nobody is told
Timeout(k) ==
    /\ k \in handlers /\ res = "none"
    /\ handlers' = handlers \ {k} /\ late' = late \cup {k}
    /\ Fails
    /\ UNCHANGED <<minerVars, poolVars, destVars, cancelled, r1Vars, r2Vars, mainVars, accepted, lost>>

--------------------------------------------------------------------------------
\* The goroutine that reads the miner.  A message it holds when the context
\* ends may be dropped.
Unread == held1 < Len(sent)

ReadSource ==
    /\ \/ r1 = "reading" /\ sourceOpen /\ Unread
          /\ held1' = held1 + 1 /\ r1' = "holding" /\ UNCHANGED err1
       \/ r1 \in {"reading", "holding"} /\ StreamsCancelled /\ r1' = "ended" /\ err1' = "canceled" /\ UNCHANGED held1
       \/ r1 = "reading" /\ ~ sourceOpen /\ r1' = "ended" /\ err1' = "source" /\ UNCHANGED held1
    /\ UNCHANGED <<minerVars, poolVars, destVars, handlers, cancelled, r2Vars, mainVars, historyVars>>

--------------------------------------------------------------------------------
\* The goroutine that reads the pool (readInterceptor)
Answer == Head(answers)
Forwarded(m) == m.kind # "mask"

Holds == r2' = "holding" /\ held2' = Answer /\ UNCHANGED err2
Ends2(e) == r2' = "ended" /\ err2' = e /\ UNCHANGED held2

\* mutant: a notification is written to the miner beside the loop
ReadNotificationAtOnce ==
    /\ Answer.kind \in {"notify", "mask"}
    /\ jobs' = IF Answer.kind = "notify" THEN jobs \cup {[n |-> Answer.n, known |-> extraNonce]} ELSE jobs
    /\ received' = Append(received, Answer) /\ UNCHANGED r2Vars
    /\ UNCHANGED <<crashed, stored, extraNonce, handlers, cancelled>>

\* a notification is a new job of the validator, with the extranonce of now
ReadNotification ==
    /\ Answer.kind \in {"notify", "mask"}
    /\ jobs' = IF Answer.kind = "notify" THEN jobs \cup {[n |-> Answer.n, known |-> extraNonce]} ELSE jobs
    /\ Holds
    /\ UNCHANGED <<crashed, received, stored, extraNonce, handlers, cancelled>>

\* no handler: the loop writes the answer to the miner
ReadUnexpected ==
    /\ Answer.kind \in {"result", "refusal"} /\ Answer.of \notin handlers
    /\ Holds
    /\ UNCHANGED <<crashed, received, stored, extraNonce, jobs, handlers, cancelled>>

\* a refusal of subscribe has no extranonce to read
ReadRefusal ==
    /\ Answer.kind = "refusal" /\ Answer.of = "subscribe" /\ "subscribe" \in handlers
    /\ crashed' = TRUE
    /\ UNCHANGED <<r2Vars, received, stored, extraNonce, jobs, handlers, cancelled>>

\* the answer to configure or subscribe is written to the miner at once
ReadResult ==
    /\ Answer.kind \in {"result", "refusal"} /\ Answer.of \in handlers \ {"authorize"}
    /\ handlers' = handlers \ {Answer.of}
    /\ extraNonce' = (extraNonce \/ Answer.of = "subscribe")
    /\ Answer.kind = "refusal" => Answer.of # "subscribe"
    /\ \/ sourceOpen /\ received' = Append(received, Answer) /\ UNCHANGED r2Vars
       \/ ~ sourceOpen /\ UNCHANGED received /\ Ends2("source")
       \/ StreamsCancelled /\ UNCHANGED received /\ Ends2("canceled")
    /\ UNCHANGED <<crashed, stored, jobs, cancelled>>

\* mutant: the pipe is not cancelled
ReadAuthorizedStays ==
    /\ Answer.kind \in {"result", "refusal"} /\ Answer.of = "authorize" /\ "authorize" \in handlers
    /\ handlers' = handlers \ {"authorize"}
    /\ IF Answer.kind = "refusal"
         THEN Ends2("dest") /\ UNCHANGED <<stored, cancelled>>
         ELSE stored' = TRUE /\ UNCHANGED cancelled /\ UNCHANGED r2Vars
    /\ UNCHANGED <<crashed, received, extraNonce, jobs>>

\* the pool authorized the miner: the handshake is over
ReadAuthorized ==
    /\ Answer.kind \in {"result", "refusal"} /\ Answer.of = "authorize" /\ "authorize" \in handlers
    /\ handlers' = handlers \ {"authorize"}
    /\ IF Answer.kind = "refusal"
         THEN Ends2("dest") /\ UNCHANGED <<stored, cancelled>>
         ELSE stored' = TRUE /\ cancelled' = TRUE /\ UNCHANGED r2Vars
    /\ UNCHANGED <<crashed, received, extraNonce, jobs>>

ReadDest ==
    /\ r2 = "reading" /\ answers # <<>> /\ destOpen /\ ~ cancelled
    /\ ReadNotification \/ ReadUnexpected \/ ReadRefusal \/ ReadResult \/ ReadAuthorized
    /\ answers' = Tail(answers)
    /\ UNCHANGED <<sent, sourceOpen, asked, answered, notified, destOpen, minerSubscribeReceived, dest, r1Vars, main, current, err, res, historyVars>>

DestEnds ==
    /\ \/ r2 = "holding" /\ StreamsCancelled /\ Ends2("canceled") /\ lost' = lost + 1
       \/ r2 \in {"off", "reading"} /\ StreamsCancelled /\ Ends2("canceled") /\ UNCHANGED lost
       \/ r2 = "reading" /\ ~ destOpen /\ Ends2("dest") /\ UNCHANGED lost
    /\ UNCHANGED <<minerVars, poolVars, destVars, handlers, cancelled, r1Vars, mainVars, accepted, late, failures>>

--------------------------------------------------------------------------------
\* The loop of pipeDuplexSync
Leaves(e) == main' = "leaving" /\ err' = e /\ UNCHANGED current
GoesOn(to) == main' = to /\ UNCHANGED <<err, current>>
Stays == UNCHANGED <<main, current, err>>

\* Write to the pool: fails if the pool closed, or, at any moment of it, the
\* handshake was cancelled
DestWrite(k) == destOpen' /\ asked' = Append(asked, k)
DestWriteFails == ~ destOpen' \/ cancelled

CreatesDest(m) == dest = "none"

\* maybeCreateDestConn: the pool of the contract named, or the default one
MaybeCreate(m) ==
    IF CreatesDest(m)
      THEN /\ m # "configureUnknown"
           /\ dest' = "pool" /\ destOpen' = TRUE /\ r2' = "reading"
      ELSE UNCHANGED <<dest, destOpen, r2>>

CreateFails(m) ==
    /\ CreatesDest(m)
    /\ IF m = "configureUnknown" THEN UNCHANGED failures ELSE Fails
    /\ Leaves("dest")
    /\ UNCHANGED <<asked, destOpen, dest, handlers, r2, received, crashed>>

\* onMiningConfigure, onMiningSubscribe
HandleRequest(m) ==
    /\ m \in Configure \cup {"subscribe"}
    /\ minerSubscribeReceived' = (minerSubscribeReceived \/ m = "subscribe")
    /\ \/ CreateFails(m)
       \/ /\ MaybeCreate(m)
          /\ handlers' = handlers \cup {RequestOf(m)}
          /\ \/ DestWrite(RequestOf(m)) /\ Stays
             \/ DestWriteFails /\ Leaves(IF cancelled THEN "canceled" ELSE "dest") /\ UNCHANGED asked
          /\ UNCHANGED <<received, crashed, failures>>

\* onMiningAuthorize up to the answer to the miner, which does not wait for
\* the pool
HandleAuthorize(m) ==
    /\ m = "authorize"
    /\ \/ /\ minerSubscribeReceived /\ sourceOpen
          /\ received' = Append(received, Told("authorize"))
          /\ GoesOn("authorize")
       \/ /\ ~ minerSubscribeReceived \/ ~ sourceOpen
          /\ Leaves("source") /\ UNCHANGED received
       \/ /\ cancelled /\ Leaves("canceled") /\ UNCHANGED received
    /\ UNCHANGED <<asked, destOpen, dest, handlers, r2, crashed, minerSubscribeReceived, failures>>

HandleOther(m) ==
    /\ m \in {"submit", "other"}
    /\ IF m = "submit" THEN Leaves("source") /\ UNCHANGED <<asked, crashed>>
       ELSE IF dest = "none" THEN crashed' = TRUE /\ UNCHANGED asked /\ Stays
       ELSE /\ \/ destOpen /\ asked' = Append(asked, "other") /\ Stays
               \/ (~ destOpen \/ cancelled) /\ Leaves(IF cancelled THEN "canceled" ELSE "dest") /\ UNCHANGED asked
            /\ UNCHANGED crashed
    /\ UNCHANGED <<destOpen, dest, handlers, r2, received, minerSubscribeReceived, failures>>

TakeSource ==
    /\ main = "select" /\ r1 = "holding"
    /\ HandleRequest(sent[held1]) \/ HandleAuthorize(sent[held1]) \/ HandleOther(sent[held1])
    /\ r1' = "reading"
    /\ UNCHANGED <<sent, sourceOpen, answers, answered, notified, stored, extraNonce, jobs, cancelled, held1, err1, held2, err2, res,
                   accepted, late, lost>>

\* the rest of onMiningAuthorize: the request to the pool
Authorize ==
    /\ main = "authorize"
    /\ IF dest = "none"
         THEN crashed' = TRUE /\ UNCHANGED <<asked, handlers>> /\ Stays
         ELSE /\ handlers' = handlers \cup {"authorize"}
              /\ \/ destOpen /\ asked' = Append(asked, "authorize") /\ GoesOn("select")
                 \/ ~ destOpen /\ Leaves("dest") /\ UNCHANGED asked
              /\ UNCHANGED crashed
    /\ UNCHANGED <<minerVars, answers, answered, notified, destOpen, destVars, cancelled, r1Vars, r2Vars, res, historyVars>>

TakeDest ==
    /\ main = "select" /\ r2 = "holding"
    /\ current' = held2
    /\ main' = "forward" /\ UNCHANGED err /\ r2' = "reading"
    /\ UNCHANGED <<minerVars, poolVars, destVars, handlers, cancelled, r1Vars, held2, err2, res, crashed, historyVars>>

\* handleDest
Forward ==
    /\ main = "forward"
    /\ \/ ~ Forwarded(current) /\ GoesOn("select") /\ UNCHANGED <<received, lost>>
       \/ Forwarded(current) /\ sourceOpen
          /\ received' = Append(received, current) /\ GoesOn("select") /\ UNCHANGED lost
       \/ Forwarded(current) /\ (~ sourceOpen \/ cancelled)
          /\ Leaves(IF cancelled THEN "canceled" ELSE "source") /\ lost' = lost + 1 /\ UNCHANGED received
    /\ UNCHANGED <<sent, sourceOpen, poolVars, destVars, handlers, cancelled, r1Vars, r2Vars, res, crashed, accepted, late, failures>>

\* an error of either goroutine
TakeError ==
    /\ main = "select"
    /\ (r1 = "ended" /\ Leaves(err1)) \/ (r2 = "ended" /\ Leaves(err2))
    /\ UNCHANGED <<minerVars, poolVars, destVars, handlers, cancelled, r1Vars, r2Vars, res, crashed, historyVars>>

\* mutant: the cancellation of the pipe counts as an error
ReturnCanceled ==
    /\ main = "leaving" /\ r1 = "ended" /\ r2 = "ended"
    /\ main' = "returned" /\ UNCHANGED <<err, current>>
    /\ res' = "error"
    /\ destOpen' = (destOpen /\ res' = "ok")
    /\ stored' = (stored /\ res' = "ok")
    /\ UNCHANGED <<minerVars, asked, answers, answered, notified, minerSubscribeReceived, dest, extraNonce, jobs, handlers, cancelled, r1Vars, r2Vars,
                   crashed, historyVars>>

\* both goroutines have ended; the proxy closes its connections on an error
Return ==
    /\ main = "leaving" /\ r1 = "ended" /\ r2 = "ended"
    /\ main' = "returned" /\ UNCHANGED <<err, current>>
    /\ res' = IF err = "canceled" THEN "ok" ELSE "error"
    /\ destOpen' = (destOpen /\ res' = "ok")
    /\ stored' = (stored /\ res' = "ok")
    /\ UNCHANGED <<minerVars, asked, answers, answered, notified, minerSubscribeReceived, dest, extraNonce, jobs, handlers, cancelled, r1Vars, r2Vars,
                   crashed, historyVars>>

Loop == TakeSource \/ Authorize \/ TakeDest \/ Forward \/ TakeError \/ Return

Next ==
    /\ ~ crashed
    /\ Outside \/ (\E k \in Request : Timeout(k)) \/ ReadSource \/ ReadDest \/ DestEnds \/ Loop

Spec == Init /\ [][Next]_vars

\* The goroutines go on, and the pool answers.
FairSpec == Spec /\ WF_vars(~ crashed /\ (ReadSource \/ ReadDest \/ DestEnds \/ Loop)) /\ WF_vars(~ crashed /\ Outside /\ PoolAnswers)
--------------------------------------------------------------------------------
Error == {"none", "canceled", "source", "dest"}

\* The handshake of one miner is well formed; the goroutines have ended when
\* Connect returns.
TypeOK ==
    /\ sent \in Seq(MinerMsg) /\ received \in Seq(PoolMsg) /\ answers \in Seq(PoolMsg)
    /\ asked \in Seq(Request) /\ handlers \subseteq {"configure", "subscribe", "authorize"} /\ late \subseteq Request
    /\ dest \in {"none", "pool"} /\ jobs \subseteq [n : Nat, known : BOOLEAN]
    /\ sourceOpen \in BOOLEAN /\ destOpen \in BOOLEAN /\ stored \in BOOLEAN /\ extraNonce \in BOOLEAN
    /\ cancelled \in BOOLEAN /\ crashed \in BOOLEAN /\ accepted \in BOOLEAN /\ minerSubscribeReceived \in BOOLEAN
    /\ r1 \in {"reading", "holding", "ended"} /\ r2 \in {"off", "reading", "holding", "ended"}
    /\ held1 \in 0 .. Len(sent) /\ held2 \in PoolMsg /\ current \in PoolMsg
    /\ err \in Error /\ err1 \in Error /\ err2 \in Error
    /\ main \in {"select", "authorize", "forward", "leaving", "returned"} /\ res \in {"none", "ok", "error"}
    /\ answered \in Nat /\ notified \in Nat /\ lost \in Nat /\ failures \in Nat
    /\ res # "none" => r1 = "ended" /\ r2 = "ended"

Got(k) == \E i \in DOMAIN received : received[i].of = k

\* Connect succeeds only if the pool authorized the miner, who has been told
\* so, and the connection is in the cache (handler_first_connect.go:292-303).
OkMeansAuthorized == res = "ok" => accepted /\ stored /\ Got("authorize")

\* A job that follows the answer to subscribe is added with the extranonce
\* that came with it: one goroutine handles both, in the order of the pool
\* (conn_dest.go:199-228).
JobsHaveExtranonce ==
    \A j \in jobs : \A i \in DOMAIN received :
        received[i].of = "subscribe" /\ received[i].n < j.n /\ "subscribe" \notin late => j.known

\* A request is answered once, unless its answer came after RESPONSE_TIMEOUT:
\* the handler is gone then, and the loop writes it (conn_dest.go:232-256).
OneResultEach ==
    \A i, j \in DOMAIN received :
        i # j /\ received[i].of = received[j].of => received[i].of = "none" \/ received[i].of \in late

\* A message of the pool is never written before one that the pool sent earlier,
\* unless it is the answer to a request: what the pool notifies after an answer
\* follows that answer, as handler_first_connect.go:133-135 and
\* proxy_test.go:199-202 require of the mask and the extranonce.
OnlyResultsOvertake ==
    \A i, j \in DOMAIN received :
        i < j /\ received[j].n \in 1 .. received[i].n => received[i].kind \in {"result", "refusal"}

\* Answers do overtake: they are written beside the loop, which may be writing an
\* earlier message, so that the order is not the one order that pipe_sync.go:16-18
\* and handler_first_connect.go:131-133 promise.  But an answer overtakes one
\* message at most, the one that the loop is writing.
OvertakesOne ==
    \A i, j, k \in DOMAIN received :
        /\ i < j /\ received[j].n \in 1 .. received[i].n
        /\ i < k /\ received[k].n \in 1 .. received[i].n
        => j = k

\* When the handshake ends well, at most one message of the pool has been read
\* and not been written to the miner.
HandoverLosesOne == res = "ok" => lost <= 1

\* What the miner and the job cache get of the pool's messages: once, in order but
\* for answers that overtake one message each, and at the handover to the pipe all
\* but one.
PoolIsRelayed == JobsHaveExtranonce /\ OneResultEach /\ OnlyResultsOvertake /\ OvertakesOne /\ HandoverLosesOne

\* The miner's first message is neither configure nor subscribe.
OutOfOrder == sent # <<>> /\ sent[1] \in {"authorize", "submit", "other"}

\* The connection to the pool is there when a handler uses it, unless the
\* pool refused to subscribe or the miner began out of order: then an authorize passes the check for a subscribe
\* that any other miner has sent (handler_first_connect.go:78, 252, 278).
NilOnlyOutOfOrder == crashed => OutOfOrder \/ failures > 0

\* A miner that keeps to configure, subscribe and authorize is not refused
\* while nothing fails.
GoodMinerIsServed ==
    res = "error" =>
        \/ failures > 0
        \/ \E i \in DOMAIN sent : sent[i] \in {"configureUnknown", "submit"}
        \/ \E i \in DOMAIN sent : sent[i] = "authorize" /\ \A j \in 1 .. i : sent[j] # "subscribe"

\* The handshake succeeds, fails and crashes only for a reason.
OutcomeIsRight == TypeOK /\ OkMeansAuthorized /\ NilOnlyOutOfOrder /\ GoodMinerIsServed

\* Once the pool was asked to authorize, the handshake ends (or the node does), unless an
\* answer came after RESPONSE_TIMEOUT.
HandshakeEnds == "authorize" \in handlers ~> res # "none" \/ crashed \/ late # {}
================================================================================
