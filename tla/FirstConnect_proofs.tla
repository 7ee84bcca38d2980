-------------------------- MODULE FirstConnect_proofs --------------------------
(***************************************************************************)
(* Proofs, for handshakes of any length, that the pool's messages reach    *)
(* the miner once and in order, that the jobs have the extranonce, that    *)
(* the handover loses one message at most, and that a handshake succeeds,  *)
(* fails and crashes only for a reason.                                    *)
(***************************************************************************)
EXTENDS FirstConnect, SequenceTheorems, TLAPS

--------------------------------------------------------------------------------
\* The inductive invariant

Left == main \in {"leaving", "returned"}

Held == r2 = "holding"
Writing == main = "forward"

\* What was read from the pool has a number below n.
ReadBelow(n) ==
    /\ Held => held2.n < n
    /\ Writing => current.n < n
    /\ \A i \in DOMAIN received : received[i].n < n
    /\ \A j \in jobs : j.n < n

\* Nothing that the pool sent before the message received at i has followed it.
NothingAfter(i) == \A j \in DOMAIN received : i < j => received[j].n \notin 1 .. received[i].n

\* The pool's messages are read in the order of their numbers, one is held at
\* most while one is written, notifications are written in that order, and the
\* message that is being written is the first that an answer overtook.
NumbersInOrder ==
    /\ \A i, j \in DOMAIN answers : i < j => answers[i].n < answers[j].n
    /\ \A i \in DOMAIN answers : answers[i].n \in 1 .. answered /\ ReadBelow(answers[i].n)
    /\ ReadBelow(answered + 1)
    /\ Held => held2.n > 0
    /\ Writing => current.n > 0
    /\ Held /\ Writing => current.n < held2.n
    /\ \A i \in DOMAIN received : /\ Held => received[i].n < held2.n
                                  /\ Writing /\ received[i].kind \in {"notify", "mask"} => received[i].n < current.n
                                  /\ Writing /\ current.n <= received[i].n => NothingAfter(i)

\* The request k is with the pool, or the answer to it is on its way, has been
\* read, is being written, or is with the miner.
InAsked(k) == \E i \in DOMAIN asked : asked[i] = k
Coming(k) == \E i \in DOMAIN answers : answers[i].of = k
HeldOf(k) == Held /\ held2.of = k
WritingOf(k) == Writing /\ current.of = k
Delivered(k) == \E i \in DOMAIN received : received[i].of = k /\ received[i].n > 0

Read(k) == HeldOf(k) \/ WritingOf(k) \/ Delivered(k)
Answered(k) == Read(k) \/ Coming(k)

OnePlace(k) ==
    /\ InAsked(k) => ~ Answered(k)
    /\ Coming(k) => ~ Read(k)
    /\ HeldOf(k) => ~ WritingOf(k) /\ ~ Delivered(k)
    /\ WritingOf(k) => ~ Delivered(k)

\* The messages of the miner that the loop has taken
Taken == IF r1 = "holding" THEN held1 - 1 ELSE held1
WasTaken(k) == \E i \in 1 .. Taken : RequestOf(sent[i]) = k

\* A request is sent, asked and answered once; the loop alone tells the miner
\* that it is authorized, before it asks the pool.
RequestsOnce ==
    /\ \A i, j \in DOMAIN sent : RequestOf(sent[i]) = RequestOf(sent[j]) => i = j
    /\ \A i, j \in DOMAIN asked : asked[i] = asked[j] => i = j
    /\ \A i, j \in DOMAIN answers : answers[i].of # "none" /\ answers[i].of = answers[j].of => i = j
    /\ \A i, j \in DOMAIN received :
         received[i].of # "none" /\ received[i].of = received[j].of /\ (received[i].n = 0 <=> received[j].n = 0) => i = j
    /\ \A i \in DOMAIN received : received[i].n = 0 => received[i] = Told("authorize")
    /\ \A k \in Request : OnePlace(k) /\ (InAsked(k) \/ Answered(k) \/ Got(k) => WasTaken(k))
    /\ main = "authorize" =>
         ~ InAsked("authorize") /\ ~ Answered("authorize") /\ WasTaken("authorize") /\ Got("authorize")

Handler == {"configure", "subscribe", "authorize"}

\* The answer to a request that has a handler is given to it, unless the timeout
\* removed it; the answer to subscribe brings the extranonce.
HandlersAnswer ==
    /\ \A k \in Handler : /\ InAsked(k) \/ Coming(k) => k \in handlers \cup late
                          /\ HeldOf(k) \/ WritingOf(k) => k \in late
    /\ Delivered("authorize") => "authorize" \in late
    /\ Got("subscribe") => extraNonce \/ "subscribe" \in late

\* The message that is dropped is the last one.
LosesOne == lost <= 1 /\ (~ Left => lost = 0)

\* The pipe is cancelled by the pool's answer to authorize, of which the miner
\* has been told; then nothing more is read.
CancelIsForResult ==
    /\ \A i \in DOMAIN answers : answers[i].of = "authorize" /\ answers[i].kind = "result" => accepted
    /\ "authorize" \in handlers \/ InAsked("authorize") \/ Coming("authorize") => Got("authorize")
    /\ cancelled => /\ r2 \in {"reading", "ended"} /\ dest = "pool"
                    /\ accepted /\ Got("authorize") /\ (stored \/ res = "error")
                    /\ LosesOne
    /\ err1 = "canceled" \/ err2 = "canceled" => cancelled \/ Left
    /\ Left /\ err = "canceled" => cancelled
    /\ r2 # "ended" => LosesOne
    /\ res = "ok" => err = "canceled"

\* A goroutine has ended with an error, and the loop has left with one.
PlacesAgree ==
    /\ main = "returned" <=> res # "none"
    /\ r1 = "ended" <=> err1 # "none"
    /\ r2 = "ended" <=> err2 # "none"
    /\ err1 # "dest"
    /\ Left => err # "none"
    /\ dest = "none" => r2 = "off" \/ (r2 = "ended" /\ Left)
    /\ r2 = "off" => dest = "none"
    /\ dest = "none" => handlers = {}
    /\ r1 = "holding" => held1 > 0

\* A reason for a handshake that fails: something failed, or the miner did not
\* keep to the protocol.
Excuse ==
    \/ failures > 0
    \/ \E i \in DOMAIN sent : sent[i] \in {"configureUnknown", "submit"}
    \/ \E i \in DOMAIN sent : sent[i] = "authorize" /\ \A j \in 1 .. i : sent[j] # "subscribe"

\* Every error has a reason, and so has a connection that is missing.
ErrorsHaveReason ==
    /\ ~ sourceOpen => failures > 0
    /\ dest = "pool" /\ ~ destOpen /\ main # "returned" => failures > 0
    /\ \A i \in DOMAIN answers : answers[i].kind = "refusal" => failures > 0
    /\ err1 = "source" \/ err2 \in {"source", "dest"} => failures > 0
    /\ Left /\ err # "canceled" => Excuse
    /\ r1 # "ended" => \A i \in 1 .. Taken : sent[i] = "subscribe" => minerSubscribeReceived
    /\ Taken > 0 /\ sent[1] \in Configure \cup {"subscribe"} /\ ~ Left => dest = "pool"
    /\ main = "authorize" => Taken > 0
    /\ res = "error" => Left /\ err # "canceled"

IInv ==
    /\ TypeOK
    /\ PlacesAgree
    /\ NumbersInOrder /\ OnlyResultsOvertake /\ OvertakesOne
    /\ RequestsOnce
    /\ HandlersAnswer /\ JobsHaveExtranonce
    /\ CancelIsForResult
    /\ ErrorsHaveReason /\ NilOnlyOutOfOrder

--------------------------------------------------------------------------------
\* What the steps do to the messages, and type correctness

MessageTypeOK ==
    /\ sent \in Seq(MinerMsg) /\ received \in Seq(PoolMsg) /\ answers \in Seq(PoolMsg) /\ asked \in Seq(Request)
    /\ held2 \in PoolMsg /\ current \in PoolMsg

SetTypeOK ==
    /\ handlers \subseteq {"configure", "subscribe", "authorize"} /\ late \subseteq Request /\ dest \in {"none", "pool"}

JobTypeOK ==
    /\ jobs \subseteq [n : Nat, known : BOOLEAN]

FlagTypeOK ==
    /\ sourceOpen \in BOOLEAN /\ destOpen \in BOOLEAN /\ stored \in BOOLEAN /\ extraNonce \in BOOLEAN
    /\ cancelled \in BOOLEAN /\ crashed \in BOOLEAN /\ accepted \in BOOLEAN /\ minerSubscribeReceived \in BOOLEAN

PlaceTypeOK ==
    /\ r1 \in {"reading", "holding", "ended"} /\ r2 \in {"off", "reading", "holding", "ended"}
    /\ err \in Error /\ err1 \in Error /\ err2 \in Error
    /\ main \in {"select", "authorize", "forward", "leaving", "returned"} /\ res \in {"none", "ok", "error"}

CountTypeOK ==
    /\ answered \in Nat /\ notified \in Nat /\ lost \in Nat /\ failures \in Nat

HeldTypeOK ==
    /\ held1 \in 0 .. Len(sent)

EndTypeOK ==
    /\ res # "none" => r1 = "ended" /\ r2 = "ended"

\* TypeOK is the conjunction of these parts, before and after a step.
LEMMA TypeParts ==
  /\ TypeOK <=> MessageTypeOK /\ SetTypeOK /\ JobTypeOK /\ FlagTypeOK /\ PlaceTypeOK /\ CountTypeOK /\ HeldTypeOK /\ EndTypeOK
  /\ TypeOK' <=> (MessageTypeOK /\ SetTypeOK /\ JobTypeOK /\ FlagTypeOK /\ PlaceTypeOK /\ CountTypeOK /\ HeldTypeOK /\ EndTypeOK)'
BY DEF TypeOK, MessageTypeOK, SetTypeOK, JobTypeOK, FlagTypeOK, PlaceTypeOK, CountTypeOK, HeldTypeOK, EndTypeOK

\* The elements of a sequence that grows at its end
LEMMA AppendSeq ==
  ASSUME NEW S, NEW q \in Seq(S), NEW e \in S
  PROVE  /\ Append(q, e) \in Seq(S) /\ Len(q) \in Nat /\ DOMAIN q = 1 .. Len(q)
         /\ DOMAIN Append(q, e) = 1 .. Len(q) + 1
         /\ \A i \in DOMAIN q : Append(q, e)[i] = q[i]
         /\ Append(q, e)[Len(q) + 1] = e
BY AppendProperties, LenProperties

\* The elements of a sequence that loses its first
LEMMA TailSeq ==
  ASSUME NEW S, NEW q \in Seq(S), q # <<>>
  PROVE  /\ Head(q) \in S /\ Tail(q) \in Seq(S) /\ Head(q) = q[1] /\ Len(q) \in Nat \ {0} /\ DOMAIN q = 1 .. Len(q)
         /\ DOMAIN Tail(q) = 1 .. Len(q) - 1
         /\ \A i \in DOMAIN Tail(q) : Tail(q)[i] = q[i + 1]
BY HeadTailProperties, LenProperties, EmptySeq

\* The pool is asked for k.
Enters(k) ==
    \/ TakeSource /\ RequestOf(sent[held1]) = k /\ k # "authorize" /\ (k = "other" \/ k \in handlers')
    \/ Authorize /\ k = "authorize" /\ dest # "none"

\* The miner sends a request once.
LEMMA SentMoves ==
  ASSUME [Next]_vars
  PROVE  \/ UNCHANGED sent
         \/ \E m \in MinerMsg : /\ sent' = Append(sent, m)
                                /\ \A i \in DOMAIN sent : RequestOf(sent[i]) # RequestOf(m)
<1>1. CASE Outside
  <2>1. CASE MinerSends
    BY <2>1 DEF MinerSends
  <2> QED
    BY <1>1, <2>1 DEF Outside, PoolAnswers, PoolNotifies, Closes, OtherMinerSubscribes, minerVars
<1>2. CASE UNCHANGED sent
  BY <1>2
<1> QED
  BY <1>1, <1>2 DEF Next, Loop, Timeout, ReadSource, ReadDest, DestEnds, TakeSource, Authorize, TakeDest, Forward,
     TakeError,
     Return, vars, minerVars

\* The pool is asked, or answers the request it was asked first.
LEMMA AskedMoves ==
  ASSUME MessageTypeOK, [Next]_vars
  PROVE  \/ UNCHANGED asked
         \/ Outside /\ asked # <<>> /\ asked' = Tail(asked)
         \/ \E k \in Request : asked' = Append(asked, k) /\ Enters(k)
<1>1. CASE Outside
  BY <1>1 DEF Outside, MinerSends, PoolAnswers, PoolNotifies, Closes, OtherMinerSubscribes, poolVars
<1>2. CASE TakeSource
  <2> DEFINE m == sent[held1]
  <2>1. CASE HandleRequest(m)
    <3>1. RequestOf(m) \in Request /\ RequestOf(m) # "authorize"
      BY <2>1 DEF HandleRequest, RequestOf, Configure, Request
    <3> QED
      BY <1>2, <2>1, <3>1 DEF HandleRequest, CreateFails, DestWrite, Enters
  <2>2. CASE HandleAuthorize(m) \/ HandleOther(m)
    BY <1>2, <2>2 DEF HandleAuthorize, HandleOther, Request, Enters, RequestOf, Configure
  <2> QED
    BY <1>2, <2>1, <2>2 DEF TakeSource
<1>3. CASE Authorize
  BY <1>3 DEF Authorize, Request, Enters
<1>4. CASE UNCHANGED asked
  BY <1>4
<1> QED
  BY <1>1, <1>2, <1>3, <1>4 DEF Next, Loop, Timeout, ReadSource, ReadDest, DestEnds, TakeDest, Forward, TakeError,
     Return, vars, poolVars

\* The pool sends a message with the next number, or the first message is read.
LEMMA AnswersMoves ==
  ASSUME MessageTypeOK, CountTypeOK, [Next]_vars
  PROVE  \/ UNCHANGED <<answers, answered>>
         \/ ReadDest /\ answers # <<>> /\ answers' = Tail(answers) /\ UNCHANGED answered
         \/ /\ Outside /\ UNCHANGED <<received, sent, destOpen, sourceOpen>>
            /\ \E m \in PoolMsg :
                  /\ answers' = Append(answers, m) /\ m.n = answered + 1 /\ answered' = answered + 1
                  /\ \/ m.of = "none" /\ m.kind # "refusal" /\ UNCHANGED asked
                     \/ /\ asked # <<>> /\ m.of = Head(asked) /\ asked' = Tail(asked)
                        /\ m.kind = "refusal" => failures' > 0
                        /\ m.kind = "result" /\ m.of = "authorize" => accepted' 
<1>1. CASE Outside
  <2>1. CASE PoolAnswers
    <3>1. PICK kind \in {"result", "refusal"} :
            /\ answers' = Append(answers, [kind |-> kind, of |-> Head(asked), n |-> answered + 1])
            /\ kind = "refusal" => failures' > 0
            /\ accepted' = (accepted \/ (kind = "result" /\ Head(asked) = "authorize"))
      BY <2>1 DEF PoolAnswers, Fails, CountTypeOK
    <3>2. [kind |-> kind, of |-> Head(asked), n |-> answered + 1] \in PoolMsg
      BY <2>1, TailSeq DEF PoolAnswers, MessageTypeOK, CountTypeOK, PoolMsg
    <3> QED
      BY <1>1, <2>1, <3>1, <3>2 DEF PoolAnswers, minerVars
  <2>2. CASE PoolNotifies
    <3>1. PICK kind \in {"notify", "mask"} : answers' = Append(answers, [kind |-> kind, of |-> "none", n |-> answered + 1])
      BY <2>2 DEF PoolNotifies
    <3>2. [kind |-> kind, of |-> "none", n |-> answered + 1] \in PoolMsg
      BY DEF CountTypeOK, PoolMsg
    <3> QED
      BY <1>1, <2>2, <3>1, <3>2 DEF PoolNotifies, minerVars
  <2> QED
    BY <1>1, <2>1, <2>2 DEF Outside, MinerSends, Closes, OtherMinerSubscribes, poolVars
<1>2. CASE ReadDest
  BY <1>2 DEF ReadDest
<1>3. CASE UNCHANGED <<answers, answered>>
  BY <1>3
<1> QED
  BY <1>1, <1>2, <1>3 DEF Next, Loop, Timeout, ReadSource, DestEnds, TakeSource, Authorize, TakeDest, Forward, TakeError,
     Return, vars, poolVars

\* Three places write to the miner: onMiningAuthorize, the loop, and the handler of an answer.
LEMMA ReceivedMoves ==
  ASSUME MessageTypeOK, [Next]_vars
  PROVE  \/ UNCHANGED received
         \/ \E m \in PoolMsg : /\ received' = Append(received, m)
                               /\ \/ m = Told("authorize") /\ TakeSource /\ sent[held1] = "authorize"
                                  \/ m = current /\ Forward
                                  \/ m = Head(answers) /\ ReadDest /\ ReadResult
<1>1. CASE ReadDest
  <2>1. Head(answers) \in PoolMsg
    BY <1>1, TailSeq DEF ReadDest, MessageTypeOK
  <2> QED
    BY <1>1, <2>1 DEF ReadDest, ReadNotification, ReadUnexpected, ReadRefusal, ReadResult, ReadAuthorized, Answer
<1>2. CASE TakeSource
  <2>1. Told("authorize") \in PoolMsg
    BY DEF Told, PoolMsg, Request
  <2> QED
    BY <1>2, <2>1 DEF TakeSource, HandleRequest, CreateFails, HandleAuthorize, HandleOther
<1>3. CASE Forward
  BY <1>3 DEF Forward, MessageTypeOK
<1>4. CASE UNCHANGED received
  BY <1>4
<1> QED
  BY <1>1, <1>2, <1>3, <1>4 DEF Next, Loop, Outside, MinerSends, PoolAnswers, PoolNotifies, Closes, OtherMinerSubscribes,
     Timeout, ReadSource, DestEnds, Authorize, TakeDest, TakeError, Return, vars, minerVars

\* The messages are messages of their kind.
LEMMA MessageTypeStep ==
  ASSUME MessageTypeOK, CountTypeOK, [Next]_vars
  PROVE  MessageTypeOK'
<1>1. sent' \in Seq(MinerMsg)
  BY SentMoves, AppendProperties DEF MessageTypeOK
<1>2. received' \in Seq(PoolMsg)
  <2>1. \A m \in PoolMsg : Append(received, m) \in Seq(PoolMsg)
    BY AppendProperties DEF MessageTypeOK
  <2> QED
    BY <2>1, ReceivedMoves DEF MessageTypeOK
<1>3. answers' \in Seq(PoolMsg)
  <2>1. \A m \in PoolMsg : Append(answers, m) \in Seq(PoolMsg)
    BY AppendProperties DEF MessageTypeOK
  <2>2. answers # <<>> => Tail(answers) \in Seq(PoolMsg)
    BY HeadTailProperties DEF MessageTypeOK
  <2> QED
    BY <2>1, <2>2, AnswersMoves DEF MessageTypeOK
<1>4. asked' \in Seq(Request)
  <2>1. \A m \in Request : Append(asked, m) \in Seq(Request)
    BY AppendProperties DEF MessageTypeOK
  <2>2. asked # <<>> => Tail(asked) \in Seq(Request)
    BY HeadTailProperties DEF MessageTypeOK
  <2> QED
    BY <2>1, <2>2, AskedMoves DEF MessageTypeOK
<1>5. held2' \in PoolMsg /\ current' \in PoolMsg
  <2>1. ReadDest => held2' \in {held2, Head(answers)} /\ Head(answers) \in PoolMsg
    BY TailSeq DEF ReadDest, ReadNotification, ReadUnexpected, ReadRefusal, ReadResult, ReadAuthorized, Answer, Holds,
       Ends2,
       r2Vars, MessageTypeOK
  <2> QED
    BY <2>1 DEF MessageTypeOK, Next, Loop, Outside, Timeout, ReadSource, ReadDest, DestEnds, Ends2, TakeSource,
       HandleRequest,
       CreateFails, HandleAuthorize, HandleOther, Authorize, TakeDest, Forward, TakeError, Return, Leaves, GoesOn, Stays,
       vars, r1Vars, r2Vars, mainVars
<1> QED
  BY <1>1, <1>2, <1>3, <1>4, <1>5 DEF MessageTypeOK

\* The goroutine of the miner reads no further than the miner sent.
LEMMA HeldTypeStep ==
  ASSUME HeldTypeOK, MessageTypeOK, [Next]_vars
  PROVE  HeldTypeOK'
<1>1. Len(sent) \in Nat /\ Len(sent') \in {Len(sent), Len(sent) + 1}
  BY SentMoves, AppendProperties, LenProperties DEF MessageTypeOK
<1>2. held1' = held1 \/ (held1' = held1 + 1 /\ held1 < Len(sent) /\ UNCHANGED sent)
  BY DEF Next, Loop, Outside, Timeout, ReadSource, Unread, ReadDest, DestEnds, TakeSource, Authorize, TakeDest, Forward,
     TakeError,
     Return, vars, r1Vars, minerVars
<1> QED
  BY <1>1, <1>2 DEF HeldTypeOK

\* The handlers and the timeouts are of requests.
LEMMA SetTypeStep ==
  ASSUME SetTypeOK, [Next]_vars
  PROVE  SetTypeOK'
<1> USE DEF SetTypeOK, RequestOf, Configure, Request
<1>1. CASE Outside
  BY <1>1 DEF Outside, MinerSends, PoolAnswers, PoolNotifies, Closes, OtherMinerSubscribes, Fails, vars, minerVars,
      poolVars, destVars, r1Vars, r2Vars, mainVars, historyVars
<1>2. ASSUME NEW k \in Request, Timeout(k) PROVE SetTypeOK'
  BY <1>2 DEF Timeout, Fails, vars, minerVars, poolVars, destVars, r1Vars, r2Vars, mainVars, historyVars
<1>3. CASE ReadSource
  BY <1>3 DEF ReadSource, Unread, StreamsCancelled, vars, minerVars, poolVars, destVars, r1Vars, r2Vars, mainVars,
      historyVars
<1>4. CASE ReadDest
  BY <1>4 DEF ReadDest, ReadNotification, ReadUnexpected, ReadRefusal, ReadResult, ReadAuthorized, Answer, Holds,
      Ends2, StreamsCancelled, vars, minerVars, poolVars, destVars, r1Vars, r2Vars, mainVars, historyVars
<1>5. CASE DestEnds
  BY <1>5 DEF DestEnds, Ends2, StreamsCancelled, vars, minerVars, poolVars, destVars, r1Vars, r2Vars, mainVars,
      historyVars
<1>6. CASE TakeSource
  BY <1>6 DEF TakeSource, HandleRequest, HandleAuthorize, HandleOther, CreateFails, MaybeCreate, CreatesDest,
      DestWrite, DestWriteFails, Leaves, GoesOn, Stays, Fails, vars, minerVars, poolVars, destVars, r1Vars, r2Vars,
      mainVars, historyVars
<1>7. CASE Authorize
  BY <1>7 DEF Authorize, Leaves, GoesOn, Stays, vars, minerVars, poolVars, destVars, r1Vars, r2Vars, mainVars,
      historyVars
<1>8. CASE TakeDest
  BY <1>8 DEF TakeDest, vars, minerVars, poolVars, destVars, r1Vars, r2Vars, mainVars, historyVars
<1>9. CASE Forward
  BY <1>9 DEF Forward, Forwarded, Leaves, GoesOn, vars, minerVars, poolVars, destVars, r1Vars, r2Vars, mainVars,
      historyVars
<1>10. CASE TakeError
  BY <1>10 DEF TakeError, Leaves, vars, minerVars, poolVars, destVars, r1Vars, r2Vars, mainVars, historyVars
<1>11. CASE Return
  BY <1>11 DEF Return, vars, minerVars, poolVars, destVars, r1Vars, r2Vars, mainVars, historyVars
<1>12. CASE UNCHANGED vars
  BY <1>12 DEF vars, minerVars, poolVars, destVars, r1Vars, r2Vars, mainVars, historyVars
<1> QED
  BY <1>1, <1>2, <1>3, <1>4, <1>5, <1>6, <1>7, <1>8, <1>9, <1>10, <1>11, <1>12 DEF Next, Loop

\* A job has a number and says whether the extranonce was known.
LEMMA JobTypeStep ==
  ASSUME JobTypeOK, MessageTypeOK, FlagTypeOK, [Next]_vars
  PROVE  JobTypeOK'
<1> USE HeadTailProperties DEF JobTypeOK, MessageTypeOK, PoolMsg, FlagTypeOK
<1>1. CASE Outside
  BY <1>1 DEF Outside, MinerSends, PoolAnswers, PoolNotifies, Closes, OtherMinerSubscribes, Fails, vars, minerVars,
      poolVars, destVars, r1Vars, r2Vars, mainVars, historyVars
<1>2. ASSUME NEW k \in Request, Timeout(k) PROVE JobTypeOK'
  BY <1>2 DEF Timeout, Fails, vars, minerVars, poolVars, destVars, r1Vars, r2Vars, mainVars, historyVars
<1>3. CASE ReadSource
  BY <1>3 DEF ReadSource, Unread, StreamsCancelled, vars, minerVars, poolVars, destVars, r1Vars, r2Vars, mainVars,
      historyVars
<1>4. CASE ReadDest
  BY <1>4 DEF ReadDest, ReadNotification, ReadUnexpected, ReadRefusal, ReadResult, ReadAuthorized, Answer, Holds,
      Ends2, StreamsCancelled, vars, minerVars, poolVars, destVars, r1Vars, r2Vars, mainVars, historyVars
<1>5. CASE DestEnds
  BY <1>5 DEF DestEnds, Ends2, StreamsCancelled, vars, minerVars, poolVars, destVars, r1Vars, r2Vars, mainVars,
      historyVars
<1>6. CASE TakeSource
  BY <1>6 DEF TakeSource, HandleRequest, HandleAuthorize, HandleOther, CreateFails, MaybeCreate, CreatesDest,
      DestWrite, DestWriteFails, Leaves, GoesOn, Stays, Fails, vars, minerVars, poolVars, destVars, r1Vars, r2Vars,
      mainVars, historyVars
<1>7. CASE Authorize
  BY <1>7 DEF Authorize, Leaves, GoesOn, Stays, vars, minerVars, poolVars, destVars, r1Vars, r2Vars, mainVars,
      historyVars
<1>8. CASE TakeDest
  BY <1>8 DEF TakeDest, vars, minerVars, poolVars, destVars, r1Vars, r2Vars, mainVars, historyVars
<1>9. CASE Forward
  BY <1>9 DEF Forward, Forwarded, Leaves, GoesOn, vars, minerVars, poolVars, destVars, r1Vars, r2Vars, mainVars,
      historyVars
<1>10. CASE TakeError
  BY <1>10 DEF TakeError, Leaves, vars, minerVars, poolVars, destVars, r1Vars, r2Vars, mainVars, historyVars
<1>11. CASE Return
  BY <1>11 DEF Return, vars, minerVars, poolVars, destVars, r1Vars, r2Vars, mainVars, historyVars
<1>12. CASE UNCHANGED vars
  BY <1>12 DEF vars, minerVars, poolVars, destVars, r1Vars, r2Vars, mainVars, historyVars
<1> QED
  BY <1>1, <1>2, <1>3, <1>4, <1>5, <1>6, <1>7, <1>8, <1>9, <1>10, <1>11, <1>12 DEF Next, Loop

\* The flags are Booleans.
LEMMA FlagTypeStep ==
  ASSUME FlagTypeOK, [Next]_vars
  PROVE  FlagTypeOK'
<1> USE DEF FlagTypeOK
<1>1. CASE Outside
  BY <1>1 DEF Outside, MinerSends, PoolAnswers, PoolNotifies, Closes, OtherMinerSubscribes, Fails, vars, minerVars,
      poolVars, destVars, r1Vars, r2Vars, mainVars, historyVars
<1>2. ASSUME NEW k \in Request, Timeout(k) PROVE FlagTypeOK'
  BY <1>2 DEF Timeout, Fails, vars, minerVars, poolVars, destVars, r1Vars, r2Vars, mainVars, historyVars
<1>3. CASE ReadSource
  BY <1>3 DEF ReadSource, Unread, StreamsCancelled, vars, minerVars, poolVars, destVars, r1Vars, r2Vars, mainVars,
      historyVars
<1>4. CASE ReadDest
  BY <1>4 DEF ReadDest, ReadNotification, ReadUnexpected, ReadRefusal, ReadResult, ReadAuthorized, Answer, Holds,
      Ends2, StreamsCancelled, vars, minerVars, poolVars, destVars, r1Vars, r2Vars, mainVars, historyVars
<1>5. CASE DestEnds
  BY <1>5 DEF DestEnds, Ends2, StreamsCancelled, vars, minerVars, poolVars, destVars, r1Vars, r2Vars, mainVars,
      historyVars
<1>6. CASE TakeSource
  BY <1>6 DEF TakeSource, HandleRequest, HandleAuthorize, HandleOther, CreateFails, MaybeCreate, CreatesDest,
      DestWrite, DestWriteFails, Leaves, GoesOn, Stays, Fails, vars, minerVars, poolVars, destVars, r1Vars, r2Vars,
      mainVars, historyVars
<1>7. CASE Authorize
  BY <1>7 DEF Authorize, Leaves, GoesOn, Stays, vars, minerVars, poolVars, destVars, r1Vars, r2Vars, mainVars,
      historyVars
<1>8. CASE TakeDest
  BY <1>8 DEF TakeDest, vars, minerVars, poolVars, destVars, r1Vars, r2Vars, mainVars, historyVars
<1>9. CASE Forward
  BY <1>9 DEF Forward, Forwarded, Leaves, GoesOn, vars, minerVars, poolVars, destVars, r1Vars, r2Vars, mainVars,
      historyVars
<1>10. CASE TakeError
  BY <1>10 DEF TakeError, Leaves, vars, minerVars, poolVars, destVars, r1Vars, r2Vars, mainVars, historyVars
<1>11. CASE Return
  BY <1>11 DEF Return, vars, minerVars, poolVars, destVars, r1Vars, r2Vars, mainVars, historyVars
<1>12. CASE UNCHANGED vars
  BY <1>12 DEF vars, minerVars, poolVars, destVars, r1Vars, r2Vars, mainVars, historyVars
<1> QED
  BY <1>1, <1>2, <1>3, <1>4, <1>5, <1>6, <1>7, <1>8, <1>9, <1>10, <1>11, <1>12 DEF Next, Loop

\* The goroutines and the loop are at their places.
LEMMA PlaceTypeStep ==
  ASSUME PlaceTypeOK, [Next]_vars
  PROVE  PlaceTypeOK'
<1> USE DEF PlaceTypeOK, Error
<1>1. CASE Outside
  BY <1>1 DEF Outside, MinerSends, PoolAnswers, PoolNotifies, Closes, OtherMinerSubscribes, Fails, vars, minerVars,
      poolVars, destVars, r1Vars, r2Vars, mainVars, historyVars
<1>2. ASSUME NEW k \in Request, Timeout(k) PROVE PlaceTypeOK'
  BY <1>2 DEF Timeout, Fails, vars, minerVars, poolVars, destVars, r1Vars, r2Vars, mainVars, historyVars
<1>3. CASE ReadSource
  BY <1>3 DEF ReadSource, Unread, StreamsCancelled, vars, minerVars, poolVars, destVars, r1Vars, r2Vars, mainVars,
      historyVars
<1>4. CASE ReadDest
  BY <1>4 DEF ReadDest, ReadNotification, ReadUnexpected, ReadRefusal, ReadResult, ReadAuthorized, Answer, Holds,
      Ends2, StreamsCancelled, vars, minerVars, poolVars, destVars, r1Vars, r2Vars, mainVars, historyVars
<1>5. CASE DestEnds
  BY <1>5 DEF DestEnds, Ends2, StreamsCancelled, vars, minerVars, poolVars, destVars, r1Vars, r2Vars, mainVars,
      historyVars
<1>6. CASE TakeSource
  BY <1>6 DEF TakeSource, HandleRequest, HandleAuthorize, HandleOther, CreateFails, MaybeCreate, CreatesDest,
      DestWrite, DestWriteFails, Leaves, GoesOn, Stays, Fails, vars, minerVars, poolVars, destVars, r1Vars, r2Vars,
      mainVars, historyVars
<1>7. CASE Authorize
  BY <1>7 DEF Authorize, Leaves, GoesOn, Stays, vars, minerVars, poolVars, destVars, r1Vars, r2Vars, mainVars,
      historyVars
<1>8. CASE TakeDest
  BY <1>8 DEF TakeDest, vars, minerVars, poolVars, destVars, r1Vars, r2Vars, mainVars, historyVars
<1>9. CASE Forward
  BY <1>9 DEF Forward, Forwarded, Leaves, GoesOn, vars, minerVars, poolVars, destVars, r1Vars, r2Vars, mainVars,
      historyVars
<1>10. CASE TakeError
  BY <1>10 DEF TakeError, Leaves, vars, minerVars, poolVars, destVars, r1Vars, r2Vars, mainVars, historyVars
<1>11. CASE Return
  BY <1>11 DEF Return, vars, minerVars, poolVars, destVars, r1Vars, r2Vars, mainVars, historyVars
<1>12. CASE UNCHANGED vars
  BY <1>12 DEF vars, minerVars, poolVars, destVars, r1Vars, r2Vars, mainVars, historyVars
<1> QED
  BY <1>1, <1>2, <1>3, <1>4, <1>5, <1>6, <1>7, <1>8, <1>9, <1>10, <1>11, <1>12 DEF Next, Loop

\* The counters are natural numbers.
LEMMA CountTypeStep ==
  ASSUME CountTypeOK, [Next]_vars
  PROVE  CountTypeOK'
<1> USE DEF CountTypeOK
<1>1. CASE Outside
  BY <1>1 DEF Outside, MinerSends, PoolAnswers, PoolNotifies, Closes, OtherMinerSubscribes, Fails, vars, minerVars,
      poolVars, destVars, r1Vars, r2Vars, mainVars, historyVars
<1>2. ASSUME NEW k \in Request, Timeout(k) PROVE CountTypeOK'
  BY <1>2 DEF Timeout, Fails, vars, minerVars, poolVars, destVars, r1Vars, r2Vars, mainVars, historyVars
<1>3. CASE ReadSource
  BY <1>3 DEF ReadSource, Unread, StreamsCancelled, vars, minerVars, poolVars, destVars, r1Vars, r2Vars, mainVars,
      historyVars
<1>4. CASE ReadDest
  BY <1>4 DEF ReadDest, ReadNotification, ReadUnexpected, ReadRefusal, ReadResult, ReadAuthorized, Answer, Holds,
      Ends2, StreamsCancelled, vars, minerVars, poolVars, destVars, r1Vars, r2Vars, mainVars, historyVars
<1>5. CASE DestEnds
  BY <1>5 DEF DestEnds, Ends2, StreamsCancelled, vars, minerVars, poolVars, destVars, r1Vars, r2Vars, mainVars,
      historyVars
<1>6. CASE TakeSource
  BY <1>6 DEF TakeSource, HandleRequest, HandleAuthorize, HandleOther, CreateFails, MaybeCreate, CreatesDest,
      DestWrite, DestWriteFails, Leaves, GoesOn, Stays, Fails, vars, minerVars, poolVars, destVars, r1Vars, r2Vars,
      mainVars, historyVars
<1>7. CASE Authorize
  BY <1>7 DEF Authorize, Leaves, GoesOn, Stays, vars, minerVars, poolVars, destVars, r1Vars, r2Vars, mainVars,
      historyVars
<1>8. CASE TakeDest
  BY <1>8 DEF TakeDest, vars, minerVars, poolVars, destVars, r1Vars, r2Vars, mainVars, historyVars
<1>9. CASE Forward
  BY <1>9 DEF Forward, Forwarded, Leaves, GoesOn, vars, minerVars, poolVars, destVars, r1Vars, r2Vars, mainVars,
      historyVars
<1>10. CASE TakeError
  BY <1>10 DEF TakeError, Leaves, vars, minerVars, poolVars, destVars, r1Vars, r2Vars, mainVars, historyVars
<1>11. CASE Return
  BY <1>11 DEF Return, vars, minerVars, poolVars, destVars, r1Vars, r2Vars, mainVars, historyVars
<1>12. CASE UNCHANGED vars
  BY <1>12 DEF vars, minerVars, poolVars, destVars, r1Vars, r2Vars, mainVars, historyVars
<1> QED
  BY <1>1, <1>2, <1>3, <1>4, <1>5, <1>6, <1>7, <1>8, <1>9, <1>10, <1>11, <1>12 DEF Next, Loop

\* The goroutines have ended when Connect returns.
LEMMA EndTypeStep ==
  ASSUME EndTypeOK, [Next]_vars
  PROVE  EndTypeOK'
<1> USE DEF EndTypeOK
<1>1. CASE Outside
  BY <1>1 DEF Outside, MinerSends, PoolAnswers, PoolNotifies, Closes, OtherMinerSubscribes, Fails, vars, minerVars,
      poolVars, destVars, r1Vars, r2Vars, mainVars, historyVars
<1>2. ASSUME NEW k \in Request, Timeout(k) PROVE EndTypeOK'
  BY <1>2 DEF Timeout, Fails, vars, minerVars, poolVars, destVars, r1Vars, r2Vars, mainVars, historyVars
<1>3. CASE ReadSource
  BY <1>3 DEF ReadSource, Unread, StreamsCancelled, vars, minerVars, poolVars, destVars, r1Vars, r2Vars, mainVars,
      historyVars
<1>4. CASE ReadDest
  BY <1>4 DEF ReadDest, ReadNotification, ReadUnexpected, ReadRefusal, ReadResult, ReadAuthorized, Answer, Holds,
      Ends2, StreamsCancelled, vars, minerVars, poolVars, destVars, r1Vars, r2Vars, mainVars, historyVars
<1>5. CASE DestEnds
  BY <1>5 DEF DestEnds, Ends2, StreamsCancelled, vars, minerVars, poolVars, destVars, r1Vars, r2Vars, mainVars,
      historyVars
<1>6. CASE TakeSource
  BY <1>6 DEF TakeSource, HandleRequest, HandleAuthorize, HandleOther, CreateFails, MaybeCreate, CreatesDest,
      DestWrite, DestWriteFails, Leaves, GoesOn, Stays, Fails, vars, minerVars, poolVars, destVars, r1Vars, r2Vars,
      mainVars, historyVars
<1>7. CASE Authorize
  BY <1>7 DEF Authorize, Leaves, GoesOn, Stays, vars, minerVars, poolVars, destVars, r1Vars, r2Vars, mainVars,
      historyVars
<1>8. CASE TakeDest
  BY <1>8 DEF TakeDest, vars, minerVars, poolVars, destVars, r1Vars, r2Vars, mainVars, historyVars
<1>9. CASE Forward
  BY <1>9 DEF Forward, Forwarded, Leaves, GoesOn, vars, minerVars, poolVars, destVars, r1Vars, r2Vars, mainVars,
      historyVars
<1>10. CASE TakeError
  BY <1>10 DEF TakeError, Leaves, vars, minerVars, poolVars, destVars, r1Vars, r2Vars, mainVars, historyVars
<1>11. CASE Return
  BY <1>11 DEF Return, vars, minerVars, poolVars, destVars, r1Vars, r2Vars, mainVars, historyVars
<1>12. CASE UNCHANGED vars
  BY <1>12 DEF vars, minerVars, poolVars, destVars, r1Vars, r2Vars, mainVars, historyVars
<1> QED
  BY <1>1, <1>2, <1>3, <1>4, <1>5, <1>6, <1>7, <1>8, <1>9, <1>10, <1>11, <1>12 DEF Next, Loop

--------------------------------------------------------------------------------
\* The places of the goroutines and of the loop

\* Whatever ended or left has an error, and the pool is read only when it is there.
LEMMA PlacesStep ==
  ASSUME PlaceTypeOK, SetTypeOK, HeldTypeOK, FlagTypeOK, PlacesAgree, CancelIsForResult, [Next]_vars
  PROVE  PlacesAgree'
<1> USE DEF PlacesAgree, Left, PlaceTypeOK, Error
<1>1. CASE Outside
  BY <1>1 DEF Outside, MinerSends, PoolAnswers, PoolNotifies, Closes, OtherMinerSubscribes, Fails, vars, minerVars,
      poolVars, destVars, r1Vars, r2Vars, mainVars, historyVars
<1>2. ASSUME NEW k \in Request, Timeout(k) PROVE PlacesAgree'
  BY <1>2 DEF Timeout, Fails, vars, minerVars, poolVars, destVars, r1Vars, r2Vars, mainVars, historyVars
<1>3. CASE ReadSource
  BY <1>3 DEF ReadSource, Unread, StreamsCancelled, HeldTypeOK, vars, minerVars, poolVars, destVars, r1Vars, r2Vars,
      mainVars, historyVars
<1>4. CASE ReadDest
  BY <1>4 DEF ReadDest, ReadNotification, ReadUnexpected, ReadRefusal, ReadResult, ReadAuthorized, Answer, Holds,
      Ends2, StreamsCancelled, SetTypeOK, vars, minerVars, poolVars, destVars, r1Vars, r2Vars, mainVars, historyVars
<1>5. CASE DestEnds
  BY <1>5 DEF DestEnds, Ends2, StreamsCancelled, CancelIsForResult, vars, minerVars, poolVars, destVars, r1Vars,
      r2Vars, mainVars, historyVars
<1>6. CASE TakeSource
  BY <1>6 DEF TakeSource, HandleRequest, HandleAuthorize, HandleOther, CreateFails, MaybeCreate, CreatesDest,
      DestWrite, DestWriteFails, Leaves, GoesOn, Stays, Fails, CancelIsForResult, vars, minerVars, poolVars, destVars,
      r1Vars, r2Vars, mainVars, historyVars
<1>7. CASE Authorize
  BY <1>7 DEF Authorize, Leaves, GoesOn, Stays, vars, minerVars, poolVars, destVars, r1Vars, r2Vars, mainVars,
      historyVars
<1>8. CASE TakeDest
  BY <1>8 DEF TakeDest, vars, minerVars, poolVars, destVars, r1Vars, r2Vars, mainVars, historyVars
<1>9. CASE Forward
  BY <1>9 DEF Forward, Forwarded, Leaves, GoesOn, vars, minerVars, poolVars, destVars, r1Vars, r2Vars, mainVars,
      historyVars
<1>10. CASE TakeError
  BY <1>10 DEF TakeError, Leaves, vars, minerVars, poolVars, destVars, r1Vars, r2Vars, mainVars, historyVars
<1>11. CASE Return
  BY <1>11 DEF Return, vars, minerVars, poolVars, destVars, r1Vars, r2Vars, mainVars, historyVars
<1>12. CASE UNCHANGED vars
  BY <1>12 DEF vars, minerVars, poolVars, destVars, r1Vars, r2Vars, mainVars, historyVars
<1> QED
  BY <1>1, <1>2, <1>3, <1>4, <1>5, <1>6, <1>7, <1>8, <1>9, <1>10, <1>11, <1>12 DEF Next, Loop

--------------------------------------------------------------------------------
\* The reasons for an error

\* Failures are not forgotten.
LEMMA FailuresStay ==
  ASSUME CountTypeOK, [Next]_vars
  PROVE  failures' >= failures /\ failures' \in Nat
BY DEF CountTypeOK, Next, Loop, Outside, MinerSends, PoolAnswers, PoolNotifies, Closes, OtherMinerSubscribes, Fails,
     Timeout, ReadSource, Unread, StreamsCancelled, ReadDest, ReadNotification, ReadUnexpected, ReadRefusal,
     ReadResult, ReadAuthorized, Answer, Holds, Ends2, DestEnds, TakeSource, HandleRequest, HandleAuthorize,
     HandleOther, CreateFails, MaybeCreate, CreatesDest, DestWrite, DestWriteFails, Leaves, GoesOn, Stays, Authorize,
     TakeDest, Forward, Forwarded, TakeError, Return, vars, minerVars, poolVars, destVars, r1Vars, r2Vars, mainVars,
     historyVars

\* What the miner sent stays as it is.
LEMMA SentStays ==
  ASSUME MessageTypeOK, [Next]_vars
  PROVE  /\ DOMAIN sent \subseteq DOMAIN sent'
         /\ \A i \in DOMAIN sent : sent'[i] = sent[i]
         /\ DOMAIN sent = 1 .. Len(sent) /\ Len(sent) \in Nat
<1>1. ASSUME NEW m \in MinerMsg, sent' = Append(sent, m)
      PROVE  DOMAIN sent \subseteq DOMAIN sent' /\ \A i \in DOMAIN sent : sent'[i] = sent[i]
  BY <1>1, AppendSeq DEF MessageTypeOK
<1> QED
  BY <1>1, SentMoves, LenProperties DEF MessageTypeOK

\* A reason for a failed handshake stays one.
LEMMA ExcuseStays ==
  ASSUME MessageTypeOK, CountTypeOK, Excuse, [Next]_vars
  PROVE  Excuse'
<1>1. CASE failures > 0
  BY <1>1, FailuresStay DEF Excuse, CountTypeOK
<1>2. CASE \E i \in DOMAIN sent : sent[i] \in {"configureUnknown", "submit"}
  BY <1>2, SentStays DEF Excuse
<1>3. CASE \E i \in DOMAIN sent : sent[i] = "authorize" /\ \A j \in 1 .. i : sent[j] # "subscribe"
  <2>1. PICK i \in DOMAIN sent : sent[i] = "authorize" /\ \A j \in 1 .. i : sent[j] # "subscribe"
    BY <1>3
  <2>2. i \in DOMAIN sent' /\ sent'[i] = "authorize" /\ \A j \in 1 .. i : sent'[j] # "subscribe"
    BY <2>1, SentStays
  <2> QED
    BY <2>2 DEF Excuse
<1> QED
  BY <1>1, <1>2, <1>3 DEF Excuse

EndsHaveReason ==
    /\ ~ sourceOpen => failures > 0
    /\ dest = "pool" /\ ~ destOpen /\ main # "returned" => failures > 0
    /\ err1 = "source" \/ err2 \in {"source", "dest"} => failures > 0

RefusalsFail == \A i \in DOMAIN answers : answers[i].kind = "refusal" => failures > 0

LeavesWithReason ==
    /\ Left /\ err # "canceled" => Excuse
    /\ res = "error" => Left /\ err # "canceled"

SubscribedBefore ==
    /\ r1 # "ended" => \A i \in 1 .. Taken : sent[i] = "subscribe" => minerSubscribeReceived

DestIsThere ==
    /\ Taken > 0 /\ sent[1] \in Configure \cup {"subscribe"} /\ ~ Left => dest = "pool"
    /\ main = "authorize" => Taken > 0
\* The parts of ErrorsHaveReason
LEMMA ReasonParts ==
    /\ ErrorsHaveReason <=> EndsHaveReason /\ RefusalsFail /\ LeavesWithReason /\ SubscribedBefore /\ DestIsThere
    /\ ErrorsHaveReason' <=> (EndsHaveReason /\ RefusalsFail /\ LeavesWithReason /\ SubscribedBefore /\ DestIsThere)'
BY DEF ErrorsHaveReason, EndsHaveReason, RefusalsFail, LeavesWithReason, SubscribedBefore, DestIsThere

\* Refusals count as failures.
LEMMA RefusalsStep ==
  ASSUME MessageTypeOK, CountTypeOK, RefusalsFail, [Next]_vars
  PROVE  RefusalsFail'
<1>1. CASE UNCHANGED answers
  BY <1>1, FailuresStay DEF RefusalsFail, CountTypeOK
<1>2. CASE answers # <<>> /\ answers' = Tail(answers)
  BY <1>2, FailuresStay, TailSeq DEF RefusalsFail, CountTypeOK, MessageTypeOK
<1>3. ASSUME NEW m \in PoolMsg, answers' = Append(answers, m), m.kind = "refusal" => failures' > 0
      PROVE  RefusalsFail'
  <2>1. \A i \in DOMAIN answers' : (i \in DOMAIN answers /\ answers'[i] = answers[i]) \/ answers'[i] = m
    BY <1>3, AppendSeq DEF MessageTypeOK
  <2> QED
    BY <1>3, <2>1, FailuresStay DEF RefusalsFail, CountTypeOK
<1> QED
  BY <1>1, <1>2, <1>3, AnswersMoves

\* So does the refusal that is read next.
LEMMA HeadRefusal ==
  ASSUME MessageTypeOK, RefusalsFail, answers # <<>>, Head(answers).kind = "refusal"
  PROVE  failures > 0
<1>1. 1 \in DOMAIN answers /\ Head(answers) = answers[1]
  BY TailSeq DEF MessageTypeOK
<1> QED
  BY <1>1 DEF RefusalsFail

\* A connection that is closed, and an error of a goroutine, come from a failure.
LEMMA EndsStep ==
  ASSUME CountTypeOK, PlaceTypeOK, EndTypeOK, MessageTypeOK, SetTypeOK, PlacesAgree, EndsHaveReason, RefusalsFail,
         [Next]_vars
  PROVE  EndsHaveReason'
<1> USE FailuresStay DEF EndsHaveReason, CountTypeOK
<1>1. CASE Outside
  BY <1>1 DEF Outside, MinerSends, PoolAnswers, PoolNotifies, Closes, OtherMinerSubscribes, Fails, PlacesAgree,
      SetTypeOK, PlaceTypeOK, EndTypeOK, Left, vars, minerVars, poolVars, destVars, r1Vars, r2Vars, mainVars,
      historyVars
<1>2. ASSUME NEW k \in Request, Timeout(k) PROVE EndsHaveReason'
  BY <1>2 DEF Timeout, Fails, PlacesAgree, SetTypeOK, PlaceTypeOK, EndTypeOK, Left, vars, minerVars, poolVars,
      destVars, r1Vars, r2Vars, mainVars, historyVars
<1>3. CASE ReadSource
  BY <1>3 DEF ReadSource, Unread, StreamsCancelled, PlacesAgree, SetTypeOK, PlaceTypeOK, EndTypeOK, Left, vars,
      minerVars, poolVars, destVars, r1Vars, r2Vars, mainVars, historyVars
<1>4. CASE ReadDest
  BY <1>4, HeadRefusal DEF ReadDest, ReadNotification, ReadUnexpected, ReadRefusal, ReadResult, ReadAuthorized,
      Answer, Holds, Ends2, StreamsCancelled, vars, minerVars, poolVars, destVars, r1Vars, r2Vars, mainVars,
      historyVars
<1>5. CASE DestEnds
  BY <1>5 DEF DestEnds, Ends2, StreamsCancelled, PlacesAgree, SetTypeOK, PlaceTypeOK, EndTypeOK, Left, vars,
      minerVars, poolVars, destVars, r1Vars, r2Vars, mainVars, historyVars
<1>6. CASE TakeSource
  BY <1>6 DEF TakeSource, HandleRequest, HandleAuthorize, HandleOther, CreateFails, MaybeCreate, CreatesDest,
      DestWrite, DestWriteFails, Leaves, GoesOn, Stays, Fails, PlacesAgree, SetTypeOK, PlaceTypeOK, EndTypeOK, Left,
      vars, minerVars, poolVars, destVars, r1Vars, r2Vars, mainVars, historyVars
<1>7. CASE Authorize
  BY <1>7 DEF Authorize, Leaves, GoesOn, Stays, PlacesAgree, SetTypeOK, PlaceTypeOK, EndTypeOK, Left, vars, minerVars,
      poolVars, destVars, r1Vars, r2Vars, mainVars, historyVars
<1>8. CASE TakeDest
  BY <1>8 DEF TakeDest, PlacesAgree, SetTypeOK, PlaceTypeOK, EndTypeOK, Left, vars, minerVars, poolVars, destVars,
      r1Vars, r2Vars, mainVars, historyVars
<1>9. CASE Forward
  BY <1>9 DEF Forward, Forwarded, Leaves, GoesOn, PlacesAgree, SetTypeOK, PlaceTypeOK, EndTypeOK, Left, vars,
      minerVars, poolVars, destVars, r1Vars, r2Vars, mainVars, historyVars
<1>10. CASE TakeError
  BY <1>10 DEF TakeError, Leaves, PlacesAgree, SetTypeOK, PlaceTypeOK, EndTypeOK, Left, vars, minerVars, poolVars,
      destVars, r1Vars, r2Vars, mainVars, historyVars
<1>11. CASE Return
  BY <1>11 DEF Return, PlacesAgree, SetTypeOK, PlaceTypeOK, EndTypeOK, Left, vars, minerVars, poolVars, destVars,
      r1Vars, r2Vars, mainVars, historyVars
<1>12. CASE UNCHANGED vars
  BY <1>12 DEF PlacesAgree, SetTypeOK, PlaceTypeOK, EndTypeOK, Left, vars, minerVars, poolVars, destVars, r1Vars,
      r2Vars, mainVars, historyVars
<1> QED
  BY <1>1, <1>2, <1>3, <1>4, <1>5, <1>6, <1>7, <1>8, <1>9, <1>10, <1>11, <1>12 DEF Next, Loop

\* The loop takes one message at a time.
LEMMA TakenMoves ==
  ASSUME HeldTypeOK, PlaceTypeOK, MessageTypeOK, PlacesAgree, [Next]_vars
  PROVE  /\ Taken \in Nat /\ Taken <= Len(sent)
         /\ \/ Taken' = Taken
            \/ TakeSource /\ Taken' = Taken + 1 /\ Taken' = held1
            \/ ReadSource /\ Taken' = Taken + 1 /\ r1' = "ended" /\ StreamsCancelled
<1>1. Taken \in Nat /\ Taken <= Len(sent) /\ held1 \in Nat /\ held1 <= Len(sent)
  BY LenProperties DEF Taken, HeldTypeOK, MessageTypeOK, PlacesAgree
<1>2. CASE ReadSource
  BY <1>1, <1>2 DEF Taken, ReadSource, PlacesAgree
<1>3. CASE TakeSource
  BY <1>1, <1>3 DEF Taken, TakeSource
<1>4. CASE UNCHANGED <<r1, held1>>
  BY <1>1, <1>4 DEF Taken
<1> QED
  BY <1>1, <1>2, <1>3, <1>4 DEF Next, Loop, Outside, Timeout, ReadDest, DestEnds, Authorize, TakeDest, Forward, TakeError,
     Return, vars, r1Vars

\* A subscribe that the loop took has been noted.
LEMMA SubscribedStep ==
  ASSUME HeldTypeOK, PlaceTypeOK, MessageTypeOK, FlagTypeOK, PlacesAgree, SubscribedBefore, [Next]_vars
  PROVE  SubscribedBefore'
<1> SUFFICES ASSUME r1' # "ended", NEW i \in 1 .. Taken', sent'[i] = "subscribe"
             PROVE  minerSubscribeReceived' = TRUE
  BY DEF SubscribedBefore
<1>1. Taken \in Nat /\ Taken <= Len(sent) /\ Len(sent) \in Nat /\ r1 # "ended"
  BY TakenMoves, LenProperties DEF MessageTypeOK, PlaceTypeOK, Next, Loop, Outside, MinerSends, PoolAnswers, PoolNotifies,
     Closes, OtherMinerSubscribes, Fails, Timeout, ReadSource, Unread, StreamsCancelled, ReadDest, ReadNotification,
     ReadUnexpected, ReadRefusal, ReadResult, ReadAuthorized, Answer, Holds, Ends2, DestEnds, TakeSource, HandleRequest,
     HandleAuthorize, HandleOther, CreateFails, MaybeCreate, CreatesDest, DestWrite, DestWriteFails, Leaves, GoesOn, Stays,
     Authorize, TakeDest, Forward, Forwarded, TakeError, Return, vars, minerVars, poolVars, destVars, r1Vars, r2Vars,
     mainVars, historyVars
<1>2. minerSubscribeReceived => minerSubscribeReceived'
  BY DEF FlagTypeOK, Next, Loop, Outside, MinerSends, PoolAnswers, PoolNotifies, Closes, OtherMinerSubscribes, Fails,
     Timeout, ReadSource, Unread, StreamsCancelled, ReadDest, ReadNotification, ReadUnexpected, ReadRefusal,
     ReadResult, ReadAuthorized, Answer, Holds, Ends2, DestEnds, TakeSource, HandleRequest, HandleAuthorize,
     HandleOther, CreateFails, MaybeCreate, CreatesDest, DestWrite, DestWriteFails, Leaves, GoesOn, Stays, Authorize,
     TakeDest, Forward, Forwarded, TakeError, Return, vars, minerVars, poolVars, destVars, r1Vars, r2Vars, mainVars,
     historyVars
<1>3. CASE i \in 1 .. Taken
  BY <1>1, <1>2, <1>3, SentStays DEF SubscribedBefore, FlagTypeOK
<1>4. CASE TakeSource /\ i = held1
  <2>1. sent[held1] = "subscribe"
    BY <1>4 DEF TakeSource
  <2>2. HandleRequest(sent[held1])
    BY <1>4, <2>1 DEF TakeSource, HandleAuthorize, HandleOther
  <2> QED
    BY <2>1, <2>2 DEF HandleRequest
<1>5. CASE Taken' = Taken
  BY <1>3, <1>5
<1>6. CASE TakeSource /\ Taken' = Taken + 1 /\ Taken' = held1
  <2>1. i \in 1 .. Taken \/ i = held1
    BY <1>1, <1>6
  <2> QED
    BY <1>3, <1>4, <1>6, <2>1
<1> QED
  BY <1>5, <1>6, TakenMoves

\* A first message that configures or subscribes creates the connection to the pool.
LEMMA DestStep ==
  ASSUME HeldTypeOK, PlaceTypeOK, MessageTypeOK, SetTypeOK, PlacesAgree, CancelIsForResult, DestIsThere, [Next]_vars
  PROVE  DestIsThere'
<1>1. Taken \in Nat /\ Taken <= Len(sent) /\ Len(sent) \in Nat
  BY TakenMoves, LenProperties DEF MessageTypeOK
<1>2. ASSUME Taken' > 0, sent'[1] \in Configure \cup {"subscribe"}, ~ Left'
      PROVE  dest' = "pool"
  <2>1. (dest = "pool" => dest' = "pool") /\ ~ Left
    BY <1>2 DEF Left, Next, Loop, Outside, MinerSends, PoolAnswers, PoolNotifies, Closes, OtherMinerSubscribes, Fails,
       Timeout, ReadSource, Unread, StreamsCancelled, ReadDest, ReadNotification, ReadUnexpected, ReadRefusal,
       ReadResult, ReadAuthorized, Answer, Holds, Ends2, DestEnds, TakeSource, HandleRequest, HandleAuthorize,
       HandleOther, CreateFails, MaybeCreate, CreatesDest, DestWrite, DestWriteFails, Leaves, GoesOn, Stays,
       Authorize, TakeDest, Forward, Forwarded, TakeError, Return, vars, minerVars, poolVars, destVars, r1Vars,
       r2Vars, mainVars, historyVars
  <2>2. CASE Taken > 0
    <3>1. sent'[1] = sent[1]
      BY <1>1, <2>2, SentStays
    <3> QED
      BY <1>2, <2>1, <2>2, <3>1 DEF DestIsThere
  <2>3. CASE TakeSource /\ held1 = 1
    <3>1. sent[held1] \in Configure \cup {"subscribe"}
      BY <1>2, <2>3 DEF TakeSource
    <3>2. HandleRequest(sent[held1])
      BY <2>3, <3>1 DEF TakeSource, HandleAuthorize, HandleOther, Configure
    <3> QED
      BY <1>2, <3>2 DEF HandleRequest, CreateFails, MaybeCreate, CreatesDest, Leaves, Left, SetTypeOK
  <2>4. CASE StreamsCancelled
    BY <2>1, <2>4 DEF StreamsCancelled, Left, CancelIsForResult
  <2> QED
    BY <1>1, <1>2, <2>2, <2>3, <2>4, TakenMoves
<1>3. ASSUME main' = "authorize" PROVE Taken' > 0
  <2>1. CASE TakeSource
    BY <2>1, <1>1, TakenMoves DEF PlacesAgree, TakeSource, HeldTypeOK, Taken
  <2>2. CASE main = "authorize"
    BY <2>2, <1>1, TakenMoves DEF DestIsThere
  <2> QED
    BY <1>3, <2>1, <2>2 DEF Next, Loop, Outside, Timeout, ReadSource, ReadDest, DestEnds, Authorize, TakeDest, Forward,
       TakeError, Return, Leaves, GoesOn, Stays, vars, mainVars
<1> QED
  BY <1>2, <1>3 DEF DestIsThere

\* The missing connection is used only out of order, or after a failure.
LEMMA NilStep ==
  ASSUME HeldTypeOK, PlaceTypeOK, MessageTypeOK, SetTypeOK, FlagTypeOK, CountTypeOK, PlacesAgree, DestIsThere, RefusalsFail,
         NilOnlyOutOfOrder, [Next]_vars
  PROVE  NilOnlyOutOfOrder'
<1>1. Taken \in Nat /\ Taken <= Len(sent) /\ Len(sent) \in Nat /\ DOMAIN sent = 1 .. Len(sent)
  BY TakenMoves, LenProperties DEF MessageTypeOK
<1>2. failures > 0 => failures' > 0
  BY FailuresStay DEF CountTypeOK
<1>3. ASSUME Len(sent) > 0, sent[1] \notin Configure \cup {"subscribe"} PROVE OutOfOrder'
  <2>1. sent[1] \in MinerMsg /\ sent # <<>> /\ 1 \in DOMAIN sent
    BY <1>1, <1>3 DEF MessageTypeOK
  <2>2. sent' # <<>> /\ sent'[1] = sent[1]
    BY <1>1, <2>1, SentStays
  <2> QED
    BY <1>3, <2>1, <2>2 DEF OutOfOrder, MinerMsg
<1>4. OutOfOrder => OutOfOrder'
  BY <1>1, <1>3, EmptySeq DEF OutOfOrder, Configure, MessageTypeOK
<1>5. CASE ReadDest
  <2>1. ReadRefusal => failures > 0
    BY <1>5, HeadRefusal DEF ReadDest, ReadRefusal, Answer
  <2> QED
    BY <1>2, <1>4, <1>5, <2>1 DEF ReadDest, ReadNotification, ReadUnexpected, ReadResult, ReadAuthorized, NilOnlyOutOfOrder
<1>6. CASE TakeSource
  <2>1. CASE UNCHANGED crashed
    BY <1>2, <1>4, <2>1 DEF NilOnlyOutOfOrder
  <2>2. CASE sent[held1] = "other" /\ dest = "none"
    <3>1. Len(sent) > 0
      BY <1>1, <1>6 DEF TakeSource, PlacesAgree, HeldTypeOK
    <3>2. sent[1] \notin Configure \cup {"subscribe"}
      BY <1>1, <1>6, <2>2 DEF TakeSource, PlacesAgree, HeldTypeOK, Taken, DestIsThere, Left, Configure
    <3> QED
      BY <1>3, <3>1, <3>2 DEF NilOnlyOutOfOrder
  <2> QED
    BY <1>6, <2>1, <2>2 DEF TakeSource, HandleRequest, CreateFails, HandleAuthorize, HandleOther
<1>7. CASE Authorize
  <2>1. CASE UNCHANGED crashed
    BY <1>2, <1>4, <2>1 DEF NilOnlyOutOfOrder
  <2>2. CASE dest = "none"
    BY <1>1, <1>3, <1>7, <2>2 DEF Authorize, DestIsThere, Left, NilOnlyOutOfOrder
  <2> QED
    BY <1>7, <2>1, <2>2 DEF Authorize
<1>8. CASE UNCHANGED crashed
  BY <1>2, <1>4, <1>8 DEF NilOnlyOutOfOrder
<1> QED
  BY <1>5, <1>6, <1>7, <1>8 DEF Next, Loop, Outside, Timeout, ReadSource, DestEnds, TakeDest, Forward, TakeError, Return,
     vars, mainVars

\* The loop leaves with a reason, unless the handshake was cancelled.
LEMMA LeavesStep ==
  ASSUME HeldTypeOK, PlaceTypeOK, MessageTypeOK, SetTypeOK, FlagTypeOK, CountTypeOK, PlacesAgree, CancelIsForResult,
         EndsHaveReason, SubscribedBefore, LeavesWithReason, [Next]_vars
  PROVE  LeavesWithReason'
<1>1. Taken \in Nat /\ Taken <= Len(sent) /\ Len(sent) \in Nat /\ DOMAIN sent = 1 .. Len(sent)
  BY TakenMoves, LenProperties DEF MessageTypeOK
<1>2. failures' > 0 => Excuse'
  BY DEF Excuse
<1>3. failures > 0 => failures' > 0
  BY FailuresStay DEF CountTypeOK
<1>4. CASE Left
  <2>1. Left' /\ err' = err
    BY <1>4 DEF Left, Next, Loop, Outside, MinerSends, PoolAnswers, PoolNotifies, Closes, OtherMinerSubscribes, Fails,
       Timeout, ReadSource, Unread, StreamsCancelled, ReadDest, ReadNotification, ReadUnexpected, ReadRefusal,
       ReadResult, ReadAuthorized, Answer, Holds, Ends2, DestEnds, TakeSource, HandleRequest, HandleAuthorize,
       HandleOther, CreateFails, MaybeCreate, CreatesDest, DestWrite, DestWriteFails, Leaves, GoesOn, Stays,
       Authorize, TakeDest, Forward, Forwarded, TakeError, Return, vars, minerVars, poolVars, destVars, r1Vars,
       r2Vars, mainVars, historyVars
  <2>2. res' = "error" => err # "canceled"
    BY <1>4 DEF Left, LeavesWithReason, Next, Loop, Outside, MinerSends, PoolAnswers, PoolNotifies, Closes,
       OtherMinerSubscribes, Fails, Timeout, ReadSource, Unread, StreamsCancelled, ReadDest, ReadNotification,
       ReadUnexpected, ReadRefusal, ReadResult, ReadAuthorized, Answer, Holds, Ends2, DestEnds, TakeSource,
       HandleRequest, HandleAuthorize, HandleOther, CreateFails, MaybeCreate, CreatesDest, DestWrite, DestWriteFails,
       Leaves, GoesOn, Stays, Authorize, TakeDest, Forward, Forwarded, TakeError, Return, vars, minerVars, poolVars,
       destVars, r1Vars, r2Vars, mainVars, historyVars
  <2> QED
    BY <1>4, <2>1, <2>2, ExcuseStays DEF LeavesWithReason
<1>5. CASE TakeSource
  <2>1. held1 \in DOMAIN sent /\ sent' = sent /\ held1 = Taken + 1 /\ r1 = "holding"
    BY <1>1, <1>5 DEF TakeSource, PlacesAgree, HeldTypeOK, Taken
  <2>2. sent[held1] \in {"configureUnknown", "submit"} => Excuse'
    BY <2>1 DEF Excuse
  <2>3. main' = "leaving" /\ err' # "canceled" => Excuse'
    <3>1. CASE HandleRequest(sent[held1])
      <4>1. main' = "leaving" /\ err' # "canceled" => failures' > 0 \/ sent[held1] = "configureUnknown" \/ ~ destOpen'
        BY <1>5, <3>1 DEF TakeSource, HandleRequest, CreateFails, MaybeCreate, DestWrite, DestWriteFails, Leaves, Stays,
           Fails, CountTypeOK
      <4>2. ~ destOpen' => failures > 0 \/ main' # "leaving" \/ failures' > 0 \/ sent[held1] = "configureUnknown"
        BY <1>5, <3>1 DEF TakeSource, HandleRequest, CreateFails, MaybeCreate, CreatesDest, Fails, CountTypeOK,
           EndsHaveReason, SetTypeOK
      <4> QED
        BY <1>2, <1>3, <2>2, <4>1, <4>2
    <3>2. CASE HandleAuthorize(sent[held1])
      <4>1. CASE ~ minerSubscribeReceived
        <5>1. \A j \in 1 .. held1 : sent[j] # "subscribe"
          BY <1>1, <2>1, <3>2, <4>1 DEF SubscribedBefore, HandleAuthorize
        <5> QED
          BY <2>1, <3>2, <5>1 DEF Excuse, HandleAuthorize
      <4>2. CASE ~ sourceOpen
        BY <1>2, <1>3, <4>2 DEF EndsHaveReason
      <4> QED
        BY <3>2, <4>1, <4>2 DEF HandleAuthorize, Leaves, GoesOn
    <3>3. CASE HandleOther(sent[held1])
      <4>1. main' = "leaving" /\ err' # "canceled" => sent[held1] = "submit" \/ (~ destOpen /\ dest # "none")
        BY <1>5, <3>3 DEF TakeSource, HandleOther, Leaves, Stays
      <4> QED
        BY <1>2, <1>3, <1>5, <2>2, <4>1 DEF EndsHaveReason, SetTypeOK, TakeSource
    <3> QED
      BY <1>5, <3>1, <3>2, <3>3 DEF TakeSource
  <2>4. res' = res /\ main' # "returned"
    BY <1>5 DEF TakeSource, HandleRequest, CreateFails, MaybeCreate, HandleAuthorize, HandleOther, Leaves, GoesOn, Stays
  <2> QED
    BY <1>5, <2>3, <2>4 DEF LeavesWithReason, Left, TakeSource
<1>6. CASE Authorize \/ Forward \/ TakeError
  <2>1. main' = "leaving" /\ err' # "canceled" => failures > 0
    BY <1>6 DEF Authorize, Forward, TakeError, Leaves, GoesOn, Stays, EndsHaveReason, SetTypeOK, PlaceTypeOK, PlacesAgree,
       Error
  <2>2. res' = res /\ main' # "returned" /\ ~ Left
    BY <1>6 DEF Authorize, Forward, TakeError, Leaves, GoesOn, Stays, Left
  <2> QED
    BY <1>2, <1>3, <2>1, <2>2 DEF LeavesWithReason, Left
<1>7. CASE ~ Left' /\ res' = res
  BY <1>4, <1>7 DEF LeavesWithReason
<1> QED
  BY <1>4, <1>5, <1>6, <1>7 DEF Next, Loop, Outside, Timeout, ReadSource, ReadDest, ReadNotification, ReadUnexpected,
     ReadRefusal, ReadResult, ReadAuthorized, DestEnds, TakeDest, Return, Left, vars, mainVars

--------------------------------------------------------------------------------
\* The order of the pool's messages

\* The fields of a message of the pool
LEMMA Fields ==
  ASSUME NEW m \in PoolMsg
  PROVE  /\ m.n \in Nat /\ m.of \in Request \cup {"none"} /\ m.kind \in {"result", "refusal", "notify", "mask"}
         /\ m.of = "none" <=> m.kind \in {"notify", "mask"}
BY DEF PoolMsg, Request

\* What the goroutine of the pool holds was just read, or was held before.
LEMMA HeldMoves ==
  ASSUME MessageTypeOK, PlaceTypeOK, [Next]_vars
  PROVE  /\ Held' => \/ Held /\ held2' = held2 /\ ~ ReadDest /\ ~ TakeDest
                     \/ ReadDest /\ held2' = Head(answers) /\ ~ Held /\ ~ ReadResult /\ UNCHANGED <<handlers, received>>
                        /\ (Head(answers).of # "none" => Head(answers).of \notin handlers)
         /\ ReadDest => ~ Held /\ answers # <<>> /\ answers' = Tail(answers)
<1>1. CASE ReadDest
  <2>1. Head(answers) \in PoolMsg /\ answers # <<>> /\ r2 = "reading"
    BY <1>1, TailSeq DEF ReadDest, MessageTypeOK
  <2>2. Held' => ReadNotification \/ ReadUnexpected
    BY <1>1, <2>1 DEF ReadDest, ReadRefusal, ReadResult, ReadAuthorized, Ends2, Held, r2Vars
  <2>3. ~ (ReadNotification /\ ReadResult) /\ ~ (ReadUnexpected /\ ReadResult)
    BY <2>1 DEF ReadNotification, ReadUnexpected, ReadResult, Answer
  <2> QED
    BY <1>1, <2>1, <2>2, <2>3, Fields DEF ReadDest, ReadNotification, ReadUnexpected, Holds, Held, Answer
<1>2. CASE ~ ReadDest
  BY <1>2 DEF Held, Next, Loop, Outside, MinerSends, PoolAnswers, PoolNotifies, Closes, OtherMinerSubscribes, Fails,
     Timeout, ReadSource, Unread, StreamsCancelled, Ends2, DestEnds, TakeSource, HandleRequest, HandleAuthorize,
     HandleOther, CreateFails, MaybeCreate, CreatesDest, DestWrite, DestWriteFails, Leaves, GoesOn, Stays, Authorize,
     TakeDest, Forward, Forwarded, TakeError, Return, vars, minerVars, poolVars, destVars, r1Vars, r2Vars, mainVars,
     historyVars
<1> QED
  BY <1>1, <1>2

\* What the loop writes was held before.
LEMMA WritingMoves ==
  ASSUME [Next]_vars
  PROVE  /\ Writing' => \/ Writing /\ current' = current /\ ~ Forward /\ ~ TakeDest
                        \/ TakeDest /\ Held /\ ~ Held' /\ ~ Writing /\ current' = held2 /\ ~ ReadDest
         /\ Forward => Writing /\ ~ Writing' /\ ~ ReadDest
BY DEF Held, Writing, Next, Loop, Outside, MinerSends, PoolAnswers, PoolNotifies, Closes, OtherMinerSubscribes, Fails,
   Timeout, ReadSource, Unread, StreamsCancelled, ReadDest, ReadNotification, ReadUnexpected, ReadRefusal, ReadResult,
   ReadAuthorized, Answer, Holds, Ends2, DestEnds, TakeSource, HandleRequest, HandleAuthorize, HandleOther,
   CreateFails, MaybeCreate, CreatesDest, DestWrite, DestWriteFails, Leaves, GoesOn, Stays, Authorize, TakeDest,
   Forward, Forwarded, TakeError, Return, vars, minerVars, poolVars, destVars, r1Vars, r2Vars, mainVars, historyVars

\* A job is added by the goroutine that reads the pool.
LEMMA JobsMoves ==
  ASSUME [Next]_vars
  PROVE  \/ UNCHANGED jobs
         \/ /\ ReadDest /\ UNCHANGED received
            /\ jobs' = jobs \cup {[n |-> Head(answers).n, known |-> extraNonce]}
BY DEF Next, Loop, Outside, MinerSends, PoolAnswers, PoolNotifies, Closes, OtherMinerSubscribes, Fails, Timeout,
   ReadSource, Unread, StreamsCancelled, ReadDest, ReadNotification, ReadUnexpected, ReadRefusal, ReadResult,
   ReadAuthorized, Answer, Holds, Ends2, DestEnds, TakeSource, HandleRequest, HandleAuthorize, HandleOther,
   CreateFails, MaybeCreate, CreatesDest, DestWrite, DestWriteFails, Leaves, GoesOn, Stays, Authorize, TakeDest,
   Forward, Forwarded, TakeError, Return, vars, minerVars, poolVars, destVars, r1Vars, r2Vars, mainVars, historyVars

\* What is read stays below the numbers that are to come.
LEMMA BelowStays ==
  ASSUME MessageTypeOK, JobTypeOK, PlaceTypeOK, NEW n \in Nat, n > 0, ReadBelow(n), ReadDest => Head(answers).n < n,
         [Next]_vars
  PROVE  ReadBelow(n)'
<1>1. Held' => held2'.n < n
  BY HeldMoves DEF ReadBelow
<1>2. Writing' => current'.n < n
  BY WritingMoves DEF ReadBelow
<1>3. \A i \in DOMAIN received' : received'[i].n < n
  <2>1. ASSUME NEW m \in PoolMsg, received' = Append(received, m), m.n < n PROVE \A i \in DOMAIN received' : received'[i].n < n
    <3>1. \A i \in DOMAIN received' : (i \in DOMAIN received /\ received'[i] = received[i]) \/ received'[i] = m
      BY <2>1, AppendSeq DEF MessageTypeOK
    <3> QED
      BY <2>1, <3>1 DEF ReadBelow
  <2>2. Forward => current.n < n
    BY WritingMoves DEF ReadBelow
  <2>3. Told("authorize").n < n
    BY DEF Told
  <2> QED
    BY <2>1, <2>2, <2>3, ReceivedMoves DEF ReadBelow
<1>4. \A j \in jobs' : j.n < n
  BY JobsMoves DEF ReadBelow
<1> QED
  BY <1>1, <1>2, <1>3, <1>4 DEF ReadBelow

AnswersInOrder ==
    /\ \A i, j \in DOMAIN answers : i < j => answers[i].n < answers[j].n
    /\ \A i \in DOMAIN answers : answers[i].n \in 1 .. answered /\ ReadBelow(answers[i].n)
    /\ ReadBelow(answered + 1)

ReadsInOrder ==
    /\ Held => held2.n > 0
    /\ Writing => current.n > 0
    /\ Held /\ Writing => current.n < held2.n
    /\ \A i \in DOMAIN received : /\ Held => received[i].n < held2.n
                                  /\ Writing /\ received[i].kind \in {"notify", "mask"} => received[i].n < current.n
                                  /\ Writing /\ current.n <= received[i].n => NothingAfter(i)

\* The parts of NumbersInOrder
LEMMA OrderParts ==
    /\ NumbersInOrder <=> AnswersInOrder /\ ReadsInOrder
    /\ NumbersInOrder' <=> (AnswersInOrder /\ ReadsInOrder)'
BY DEF NumbersInOrder, AnswersInOrder, ReadsInOrder

\* The pool's messages are on their way in order, after everything that was read.
LEMMA AnswersOrderStep ==
  ASSUME MessageTypeOK, JobTypeOK, FlagTypeOK, PlaceTypeOK, CountTypeOK, AnswersInOrder, [Next]_vars
  PROVE  AnswersInOrder'
<1>0. /\ \A i \in DOMAIN answers : answers[i] \in PoolMsg /\ answers[i].n \in Nat
      /\ DOMAIN answers = 1 .. Len(answers) /\ Len(answers) \in Nat /\ answered \in Nat
  BY Fields, LenProperties DEF MessageTypeOK, CountTypeOK
<1>1. CASE ReadDest
  <2>1. /\ answers' = Tail(answers) /\ answers # <<>> /\ answered' = answered
        /\ Head(answers) = answers[1] /\ 1 \in DOMAIN answers
        /\ \A i \in DOMAIN answers' : i + 1 \in DOMAIN answers /\ answers'[i] = answers[i + 1] /\ i \in Nat /\ i > 0
    BY <1>0, <1>1, TailSeq DEF ReadDest, MessageTypeOK
  <2>2. ASSUME NEW n \in Nat, Head(answers).n < n, ReadBelow(n) PROVE ReadBelow(n)'
    BY <1>0, <1>1, <2>1, <2>2, BelowStays
  <2>3. \A i \in DOMAIN answers' : answers[1].n < answers[i + 1].n
    BY <2>1 DEF AnswersInOrder
  <2>4. ASSUME NEW n \in Nat, NEW i \in DOMAIN answers', n = answers'[i].n PROVE ReadBelow(n)'
    BY <1>0, <2>1, <2>2, <2>3, <2>4 DEF AnswersInOrder
  <2>5. ASSUME NEW n \in Nat, n = answered' + 1 PROVE ReadBelow(n)'
    BY <1>0, <2>1, <2>2, <2>5 DEF AnswersInOrder
  <2>6. \A i, j \in DOMAIN answers' : i < j => answers'[i].n < answers'[j].n
    BY <2>1 DEF AnswersInOrder
  <2>7. \A i \in DOMAIN answers' : answers'[i].n \in 1 .. answered' /\ answers'[i].n \in Nat
    BY <1>0, <2>1 DEF AnswersInOrder
  <2>8. answered' + 1 \in Nat
    BY <1>0, <2>1
  <2> QED
    BY <2>4, <2>5, <2>6, <2>7, <2>8 DEF AnswersInOrder, ReadBelow
<1>2. CASE ~ ReadDest
  <2>1. ASSUME NEW n \in Nat, n > 0, ReadBelow(n) PROVE ReadBelow(n)'
    BY <1>2, <2>1, BelowStays
  <2>2. ASSUME NEW n \in Nat, n = answered + 1 PROVE ReadBelow(n)'
    BY <1>0, <2>1, <2>2 DEF AnswersInOrder
  <2>3. ASSUME NEW n \in Nat, NEW i \in DOMAIN answers, n = answers[i].n PROVE ReadBelow(n)'
    BY <1>0, <2>1, <2>3 DEF AnswersInOrder
  <2>4. CASE UNCHANGED <<answers, answered>>
    <3>1. answered + 1 \in Nat
      BY <1>0
    <3> QED
      BY <1>0, <2>2, <2>3, <2>4, <3>1 DEF AnswersInOrder, ReadBelow
  <2>5. ASSUME NEW m \in PoolMsg, answers' = Append(answers, m), m.n = answered + 1, answered' = answered + 1
        PROVE  AnswersInOrder'
    <3>1. \A i \in DOMAIN answers' : \/ i \in DOMAIN answers /\ answers'[i] = answers[i]
                                     \/ i = Len(answers) + 1 /\ answers'[i] = m
      BY <1>0, <2>5, AppendSeq DEF MessageTypeOK
    <3>2. \A i, j \in DOMAIN answers' : i < j => answers'[i].n < answers'[j].n
      BY <1>0, <2>5, <3>1 DEF AnswersInOrder
    <3>3. \A i \in DOMAIN answers' : answers'[i].n \in 1 .. answered' /\ answers'[i].n \in Nat
      BY <1>0, <2>5, <3>1 DEF AnswersInOrder
    <3>4. ASSUME NEW n \in Nat, NEW i \in DOMAIN answers', n = answers'[i].n PROVE ReadBelow(n)'
      BY <2>2, <2>3, <2>5, <3>1, <3>4
    <3>5. ASSUME NEW n \in Nat, n = answered' + 1 PROVE ReadBelow(n)'
      <4>1. answered + 1 \in Nat /\ answered + 1 < n
        BY <1>0, <2>5, <3>5
      <4>2. PICK p \in Nat : p = answered + 1
        BY <4>1
      <4>3. ReadBelow(p)'
        BY <2>2, <4>2
      <4>4. held2'.n \in Nat /\ current'.n \in Nat /\ (\A i \in DOMAIN received' : received'[i].n \in Nat) /\ (\A j \in jobs' : j.n \in Nat)
        BY MessageTypeStep, JobTypeStep, Fields DEF MessageTypeOK, JobTypeOK
      <4> QED
        BY <4>1, <4>2, <4>3, <4>4 DEF ReadBelow
    <3>6. answered' + 1 \in Nat
      BY <1>0, <2>5
    <3> QED
      BY <3>2, <3>3, <3>4, <3>5, <3>6 DEF AnswersInOrder, ReadBelow
  <2> QED
    BY <1>2, <2>4, <2>5, AnswersMoves DEF ReadDest
<1> QED
  BY <1>1, <1>2

\* Notifications are written in order, and only answers overtake,
\* one message at most.
LEMMA ReadsOrderStep ==
  ASSUME MessageTypeOK, PlaceTypeOK, CountTypeOK, AnswersInOrder, ReadsInOrder, OnlyResultsOvertake, OvertakesOne,
         [Next]_vars
  PROVE  ReadsInOrder' /\ OnlyResultsOvertake' /\ OvertakesOne'
<1>0. /\ held2.n \in Nat /\ current.n \in Nat /\ answered \in Nat
      /\ \A i \in DOMAIN received : received[i].n \in Nat
      /\ DOMAIN received = 1 .. Len(received) /\ Len(received) \in Nat
  BY Fields, LenProperties DEF MessageTypeOK, CountTypeOK
<1>1. ReadDest => Head(answers).n \in Nat /\ Head(answers).n > 0 /\ ReadBelow(Head(answers).n)
  <2>1. ReadDest => 1 \in DOMAIN answers /\ Head(answers) = answers[1]
    BY HeldMoves, TailSeq DEF MessageTypeOK
  <2> QED
    BY <1>0, <2>1 DEF AnswersInOrder
<1>2. (Held' => held2'.n > 0) /\ (Writing' => current'.n > 0)
  BY <1>1, HeldMoves, WritingMoves DEF ReadsInOrder
<1>3. Held' /\ Writing' => current'.n < held2'.n
  BY <1>1, HeldMoves, WritingMoves DEF ReadsInOrder, ReadBelow
<1>4. ASSUME NEW i \in DOMAIN received
      PROVE  /\ Held' => received[i].n < held2'.n
             /\ Writing' /\ received[i].kind \in {"notify", "mask"} => received[i].n < current'.n
             /\ Writing' /\ current'.n <= received[i].n => NothingAfter(i)
  <2>1. Held' => received[i].n < held2'.n
    BY <1>1, HeldMoves DEF ReadsInOrder, ReadBelow
  <2>2. CASE Writing /\ current' = current
    BY <2>1, <2>2 DEF ReadsInOrder
  <2>3. CASE Held /\ current' = held2
    BY <1>0, <2>1, <2>3 DEF ReadsInOrder
  <2> QED
    BY <2>1, <2>2, <2>3, WritingMoves
<1>5. ASSUME NEW m \in PoolMsg, received' = Append(received, m),
             \/ m = Told("authorize")
             \/ m = current /\ Forward
             \/ m = Head(answers) /\ ReadDest /\ ReadResult
      PROVE  ReadsInOrder' /\ OnlyResultsOvertake' /\ OvertakesOne'
  <2>0. /\ \A i \in DOMAIN received' : \/ i \in DOMAIN received /\ received'[i] = received[i]
                                       \/ i = Len(received) + 1 /\ received'[i] = m
        /\ m.n \in Nat
    BY <1>0, <1>5, AppendSeq, Fields DEF MessageTypeOK
  <2>1. m.kind \in {"notify", "mask"} => m = current /\ Forward
    BY <1>5 DEF Told, ReadResult, Answer
  <2>2. /\ Held' => m.n < held2'.n
        /\ m.kind \in {"notify", "mask"} => ~ Writing'
    <3>1. CASE m = Told("authorize")
      BY <1>2, <3>1 DEF Told
    <3>2. CASE m = current /\ Forward
      BY <2>1, <3>2, HeldMoves, WritingMoves DEF ReadsInOrder
    <3>3. CASE m = Head(answers) /\ ReadDest /\ ReadResult
      <4>1. ~ Held'
        BY <3>3, HeldMoves
      <4> QED
        BY <2>1, <3>3, <4>1, WritingMoves
    <3> QED
      BY <1>5, <3>1, <3>2, <3>3
  <2>3. ASSUME NEW i \in DOMAIN received, m.n \in 1 .. received[i].n PROVE received[i].kind \in {"result", "refusal"}
    <3>1. received[i].kind \in {"notify", "mask"} => received[i].n < m.n
      <4>1. CASE m = Told("authorize")
        BY <2>3, <4>1 DEF Told
      <4>2. CASE m = current /\ Forward
        BY <4>2, WritingMoves DEF ReadsInOrder
      <4>3. CASE m = Head(answers) /\ ReadDest
        BY <1>1, <4>3 DEF ReadBelow
      <4> QED
        BY <1>5, <4>1, <4>2, <4>3
    <3>2. received[i] \in PoolMsg
      BY DEF MessageTypeOK
    <3> QED
      BY <1>0, <2>0, <2>3, <3>1, <3>2, Fields
  <2>4. ASSUME NEW i \in DOMAIN received, m.n \in 1 .. received[i].n
        PROVE  NothingAfter(i) /\ ~ Writing'
    <3>1. ~ (m = Told("authorize"))
      BY <2>4 DEF Told
    <3>2. CASE m = current /\ Forward
      <4>1. Writing /\ ~ Writing'
        BY <3>2, WritingMoves
      <4>2. current.n <= received[i].n
        BY <1>0, <2>4, <3>2
      <4> QED
        BY <4>1, <4>2 DEF ReadsInOrder
    <3>3. CASE m = Head(answers) /\ ReadDest
      BY <1>0, <1>1, <2>4, <3>3 DEF ReadBelow
    <3> QED
      BY <1>5, <3>1, <3>2, <3>3
  <2>6. ASSUME NEW i \in DOMAIN received'
        PROVE  /\ Held' => received'[i].n < held2'.n
               /\ Writing' /\ received'[i].kind \in {"notify", "mask"} => received'[i].n < current'.n
               /\ Writing' /\ current'.n <= received'[i].n => NothingAfter(i)'
    <3>1. CASE i \in DOMAIN received /\ received'[i] = received[i]
      <4>1. ASSUME Writing', current'.n <= received[i].n, NEW j \in DOMAIN received', i < j
            PROVE  received'[j].n \notin 1 .. received[i].n
        <5>1. NothingAfter(i) /\ m.n \notin 1 .. received[i].n
          BY <1>4, <2>4, <3>1, <4>1
        <5> QED
          BY <2>0, <3>1, <4>1, <5>1 DEF NothingAfter
      <4> QED
        BY <1>4, <3>1, <4>1 DEF NothingAfter
    <3>2. CASE i = Len(received) + 1 /\ received'[i] = m
      <4>1. \A j \in DOMAIN received' : ~ (i < j)
        BY <1>0, <2>0, <3>2
      <4> QED
        BY <2>2, <3>2, <4>1 DEF NothingAfter
    <3> QED
      BY <2>0, <3>1, <3>2
  <2>5. OnlyResultsOvertake'
    <3> SUFFICES ASSUME NEW i \in DOMAIN received', NEW j \in DOMAIN received', i < j, received'[j].n \in 1 .. received'[i].n
                 PROVE  received'[i].kind \in {"result", "refusal"}
      BY DEF OnlyResultsOvertake
    <3>1. i \in DOMAIN received /\ received'[i] = received[i]
      BY <1>0, <2>0
    <3>2. CASE j \in DOMAIN received /\ received'[j] = received[j]
      BY <3>1, <3>2 DEF OnlyResultsOvertake
    <3>3. CASE received'[j] = m
      BY <2>3, <3>1, <3>3
    <3> QED
      BY <2>0, <3>2, <3>3
  <2>7. OvertakesOne'
    <3> SUFFICES ASSUME NEW i \in DOMAIN received', NEW j \in DOMAIN received', NEW k \in DOMAIN received',
                        i < j, received'[j].n \in 1 .. received'[i].n, i < k, received'[k].n \in 1 .. received'[i].n
                 PROVE  j = k
      BY DEF OvertakesOne
    <3>1. i \in DOMAIN received /\ received'[i] = received[i]
      BY <1>0, <2>0
    <3>2. CASE m.n \in 1 .. received[i].n
      BY <2>0, <2>4, <3>1, <3>2 DEF NothingAfter
    <3>3. CASE m.n \notin 1 .. received[i].n
      BY <2>0, <3>1, <3>3 DEF OvertakesOne
    <3> QED
      BY <3>2, <3>3
  <2> QED
    BY <1>2, <1>3, <2>5, <2>6, <2>7 DEF ReadsInOrder
<1>6. CASE UNCHANGED received
  BY <1>2, <1>3, <1>4, <1>6 DEF ReadsInOrder, OnlyResultsOvertake, OvertakesOne, NothingAfter
<1> QED
  BY <1>5, <1>6, ReceivedMoves

--------------------------------------------------------------------------------
\* The way of a request

Answers(k) == Outside /\ asked # <<>> /\ Head(asked) = k /\ asked' = Tail(asked)
Reads(k) == ReadDest /\ Head(answers).of = k

SentOnce == \A i, j \in DOMAIN sent : RequestOf(sent[i]) = RequestOf(sent[j]) => i = j
AskedOnce == \A i, j \in DOMAIN asked : asked[i] = asked[j] => i = j
AnswersOnce == \A i, j \in DOMAIN answers : answers[i].of # "none" /\ answers[i].of = answers[j].of => i = j
ReceivedOnce ==
    /\ \A i, j \in DOMAIN received :
         received[i].of # "none" /\ received[i].of = received[j].of /\ (received[i].n = 0 <=> received[j].n = 0) => i = j
    /\ \A i \in DOMAIN received : received[i].n = 0 => received[i] = Told("authorize")
PlacesOfRequests == \A k \in Request : OnePlace(k) /\ (InAsked(k) \/ Answered(k) \/ Got(k) => WasTaken(k))
AuthorizeIsFresh ==
    main = "authorize" => ~ InAsked("authorize") /\ ~ Answered("authorize") /\ WasTaken("authorize") /\ Got("authorize")

\* The parts of RequestsOnce
LEMMA OnceParts ==
    /\ RequestsOnce <=> SentOnce /\ AskedOnce /\ AnswersOnce /\ ReceivedOnce /\ PlacesOfRequests /\ AuthorizeIsFresh
    /\ RequestsOnce' <=> (SentOnce /\ AskedOnce /\ AnswersOnce /\ ReceivedOnce /\ PlacesOfRequests /\ AuthorizeIsFresh)'
BY DEF RequestsOnce, SentOnce, AskedOnce, AnswersOnce, ReceivedOnce, PlacesOfRequests, AuthorizeIsFresh

\* A request is sent once.
LEMMA SentOnceStep ==
  ASSUME MessageTypeOK, SentOnce, [Next]_vars
  PROVE  SentOnce'
<1>1. ASSUME NEW m \in MinerMsg, sent' = Append(sent, m), \A i \in DOMAIN sent : RequestOf(sent[i]) # RequestOf(m)
      PROVE  SentOnce'
  <2>1. \A i \in DOMAIN sent' : (i \in DOMAIN sent /\ sent'[i] = sent[i]) \/ (i = Len(sent) + 1 /\ sent'[i] = m)
    BY <1>1, AppendSeq DEF MessageTypeOK
  <2>2. \A i, j \in DOMAIN sent' : RequestOf(sent'[i]) = RequestOf(sent'[j]) => i = j
    BY <1>1, <2>1 DEF SentOnce
  <2> QED
    BY <2>2 DEF SentOnce, RequestOf
<1> QED
  BY <1>1, SentMoves DEF SentOnce, RequestOf

\* What the loop has taken stays taken; a request that is taken is a new one.
LEMMA TakenStays ==
  ASSUME HeldTypeOK, PlaceTypeOK, MessageTypeOK, PlacesAgree, SentOnce, [Next]_vars, NEW k, WasTaken(k)
  PROVE  WasTaken(k)' /\ (TakeSource => RequestOf(sent[held1]) # k)
<1>1. Taken \in Nat /\ Taken <= Len(sent) /\ Taken' \in {Taken, Taken + 1} /\ Len(sent) \in Nat /\ DOMAIN sent = 1 .. Len(sent)
  BY TakenMoves, LenProperties DEF MessageTypeOK
<1>2. PICK i \in 1 .. Taken : RequestOf(sent[i]) = k
  BY DEF WasTaken
<1>3. i \in 1 .. Taken' /\ sent'[i] = sent[i] /\ i \in DOMAIN sent
  BY <1>1, SentStays
<1>4. TakeSource => held1 \in DOMAIN sent /\ held1 # i
  BY <1>1 DEF TakeSource, HeldTypeOK, PlacesAgree, Taken
<1> QED
  BY <1>2, <1>3, <1>4 DEF WasTaken, RequestOf, SentOnce

\* What the loop takes now is taken.
LEMMA TakenNow ==
  ASSUME HeldTypeOK, PlaceTypeOK, MessageTypeOK, PlacesAgree, TakeSource, [Next]_vars,
         NEW k, RequestOf(sent[held1]) = k
  PROVE  WasTaken(k)'
<1>1. sent' = sent /\ held1' = held1 /\ r1' = "reading" /\ held1 \in 1 .. held1
  BY DEF TakeSource, PlacesAgree, HeldTypeOK
<1>2. Taken' = held1
  BY <1>1 DEF Taken
<1> QED
  BY <1>1, <1>2 DEF WasTaken, RequestOf

\* A request is asked once, and leaves when it is answered.
LEMMA AskedStep ==
  ASSUME MessageTypeOK, AskedOnce, [Next]_vars, \A k \in Request : Enters(k) => ~ InAsked(k)
  PROVE  /\ AskedOnce'
         /\ \A k \in Request : InAsked(k)' => (InAsked(k) /\ ~ Answers(k)) \/ Enters(k)
         /\ \A k \in Request : Answers(k) => InAsked(k)
<1>0. asked # <<>> => Head(asked) = asked[1] /\ 1 \in DOMAIN asked
  BY TailSeq DEF MessageTypeOK
<1>1. ASSUME UNCHANGED asked PROVE AskedOnce' /\ \A k \in Request : InAsked(k)' => InAsked(k) /\ ~ Answers(k)
  <2>1. asked # <<>> => asked # Tail(asked)
    BY HeadTailProperties DEF MessageTypeOK
  <2> QED
    BY <1>1, <2>1 DEF AskedOnce, InAsked, Answers
<1>2. ASSUME asked # <<>>, asked' = Tail(asked) PROVE AskedOnce' /\ \A k \in Request : InAsked(k)' => InAsked(k) /\ ~ Answers(k)
  <2>1. \A i \in DOMAIN asked' : i + 1 \in DOMAIN asked /\ asked'[i] = asked[i + 1] /\ i \in Nat /\ i > 0
    BY <1>2, TailSeq DEF MessageTypeOK
  <2>2. AskedOnce'
    BY <2>1 DEF AskedOnce
  <2>3. \A i \in DOMAIN asked' : asked'[i] # asked[1]
    BY <1>0, <1>2, <2>1 DEF AskedOnce
  <2> QED
    BY <1>0, <1>2, <2>1, <2>2, <2>3 DEF InAsked, Answers
<1>3. ASSUME NEW e \in Request, asked' = Append(asked, e), Enters(e)
      PROVE  AskedOnce' /\ \A k \in Request : InAsked(k)' => (InAsked(k) /\ ~ Answers(k)) \/ Enters(k)
  <2>1. \A i \in DOMAIN asked' : (i \in DOMAIN asked /\ asked'[i] = asked[i]) \/ (i = Len(asked) + 1 /\ asked'[i] = e)
    BY <1>3, AppendSeq DEF MessageTypeOK
  <2>2. AskedOnce'
    BY <1>3, <2>1 DEF AskedOnce, InAsked
  <2>3. asked # <<>> => asked' # Tail(asked)
    BY <1>3, HeadTailProperties, AppendProperties DEF MessageTypeOK
  <2> QED
    BY <1>3, <2>1, <2>2, <2>3 DEF InAsked, Answers
<1> QED
  BY <1>0, <1>1, <1>2, <1>3, AskedMoves DEF Answers, InAsked

\* An answer is sent once, and leaves when it is read.
LEMMA AnswersStep ==
  ASSUME MessageTypeOK, CountTypeOK, PlaceTypeOK, AnswersOnce, [Next]_vars, \A k \in Request : Answers(k) => ~ Coming(k)
  PROVE  /\ AnswersOnce'
         /\ \A k \in Request : Coming(k)' => (Coming(k) /\ ~ Reads(k)) \/ Answers(k)
         /\ \A k \in Request : Reads(k) => Coming(k)
<1>0. answers # <<>> => Head(answers) = answers[1] /\ 1 \in DOMAIN answers
  BY TailSeq DEF MessageTypeOK
<1>1. \A k \in Request : Reads(k) => Coming(k)
  BY <1>0, HeldMoves DEF Reads, Coming
<1>2. CASE ReadDest
  <2>1. \A i \in DOMAIN answers' : i + 1 \in DOMAIN answers /\ answers'[i] = answers[i + 1] /\ i \in Nat /\ i > 0
    BY <1>2, HeldMoves, TailSeq DEF MessageTypeOK
  <2>2. AnswersOnce'
    BY <2>1 DEF AnswersOnce
  <2>3. \A i \in DOMAIN answers' : answers'[i].of # "none" => answers'[i].of # answers[1].of
    BY <1>0, <1>2, <2>1, HeldMoves DEF AnswersOnce
  <2>4. "none" \notin Request
    BY DEF Request
  <2> QED
    BY <1>0, <1>1, <1>2, <2>1, <2>2, <2>3, <2>4, HeldMoves DEF Coming, Reads
<1>3. CASE ~ ReadDest
  <2>1. CASE UNCHANGED answers
    BY <1>1, <1>3, <2>1 DEF AnswersOnce, Coming, Reads
  <2>2. ASSUME NEW m \in PoolMsg, answers' = Append(answers, m), m.of = "none" \/ Answers(m.of)
        PROVE  AnswersOnce' /\ \A k \in Request : Coming(k)' => Coming(k) \/ Answers(k)
    <3>1. \A i \in DOMAIN answers' : \/ i \in DOMAIN answers /\ answers'[i] = answers[i]
                                     \/ i = Len(answers) + 1 /\ answers'[i] = m
      BY <2>2, AppendSeq DEF MessageTypeOK
    <3>2. m.of \in Request \cup {"none"} /\ "none" \notin Request
      BY Fields DEF Request
    <3>3. m.of # "none" => \A i \in DOMAIN answers : answers[i].of # m.of
      BY <2>2, <3>2 DEF Coming
    <3>4. AnswersOnce'
      BY <3>1, <3>3 DEF AnswersOnce
    <3> QED
      BY <2>2, <3>1, <3>2, <3>4 DEF Coming
  <2> QED
    BY <1>1, <1>3, <2>1, <2>2, AnswersMoves DEF Reads, Answers
<1> QED
  BY <1>2, <1>3

\* An answer is held when it is read, and written when the loop takes it.
LEMMA PipeStep ==
  ASSUME MessageTypeOK, PlaceTypeOK, NEW k \in Request, [Next]_vars
  PROVE  /\ HeldOf(k)' => (HeldOf(k) /\ ~ TakeDest) \/ (Reads(k) /\ ~ ReadResult /\ k \notin handlers /\ UNCHANGED handlers)
         /\ WritingOf(k)' => (WritingOf(k) /\ ~ Forward) \/ (TakeDest /\ HeldOf(k))
<1>1. k # "none"
  BY DEF Request
<1>2. HeldOf(k)' => (HeldOf(k) /\ ~ TakeDest) \/ (Reads(k) /\ ~ ReadResult /\ k \notin handlers /\ UNCHANGED handlers)
  BY <1>1, HeldMoves DEF HeldOf, Reads, Held
<1>3. WritingOf(k)' => (WritingOf(k) /\ ~ Forward) \/ (TakeDest /\ HeldOf(k))
  BY WritingMoves DEF WritingOf, HeldOf, Writing
<1> QED
  BY <1>2, <1>3

\* What the miner received grows by one message, or stays.
LEMMA ReceivedElements ==
  ASSUME MessageTypeOK, PlaceTypeOK, [Next]_vars
  PROVE  \/ UNCHANGED received
         \/ \E m \in PoolMsg :
              /\ \A i \in DOMAIN received' : \/ i \in DOMAIN received /\ received'[i] = received[i]
                                             \/ i = Len(received) + 1 /\ received'[i] = m
              /\ DOMAIN received \subseteq DOMAIN received'
              /\ \A i \in DOMAIN received : received'[i] = received[i]
              /\ \/ m = Told("authorize") /\ TakeSource /\ sent[held1] = "authorize"
                 \/ m = current /\ Forward
                 \/ m = Head(answers) /\ ReadDest /\ ReadResult
<1>1. ASSUME NEW m \in PoolMsg, received' = Append(received, m)
      PROVE  /\ \A i \in DOMAIN received' : \/ i \in DOMAIN received /\ received'[i] = received[i]
                                            \/ i = Len(received) + 1 /\ received'[i] = m
             /\ DOMAIN received \subseteq DOMAIN received'
             /\ \A i \in DOMAIN received : received'[i] = received[i]
  BY <1>1, AppendSeq DEF MessageTypeOK
<1> QED
  BY <1>1, ReceivedMoves

\* An answer is delivered by the loop or by its handler.
LEMMA DeliveredStep ==
  ASSUME MessageTypeOK, PlaceTypeOK, NEW k \in Request, [Next]_vars
  PROVE  /\ Delivered(k)' => Delivered(k) \/ (Forward /\ WritingOf(k)) \/ (Reads(k) /\ ReadResult)
         /\ Got(k)' => \/ Got(k) \/ (Forward /\ WritingOf(k)) \/ (Reads(k) /\ ReadResult)
                       \/ TakeSource /\ sent[held1] = "authorize" /\ k = "authorize"
         /\ Got(k) => Got(k)'
<1>1. Told("authorize").n = 0 /\ Told("authorize").of = "authorize"
  BY DEF Told
<1>2. CASE UNCHANGED received
  BY <1>2 DEF Delivered, Got
<1>3. CASE ~ UNCHANGED received
  BY <1>1, <1>3, ReceivedElements, WritingMoves DEF Delivered, Got, WritingOf, Reads
<1> QED
  BY <1>2, <1>3

\* The pool is asked only for what is nowhere yet.
LEMMA EntersFresh ==
  ASSUME HeldTypeOK, PlaceTypeOK, MessageTypeOK, PlacesAgree, SentOnce, PlacesOfRequests, AuthorizeIsFresh, [Next]_vars,
         NEW k \in Request, Enters(k)
  PROVE  ~ InAsked(k) /\ ~ Answered(k) /\ WasTaken(k)'
<1>1. CASE TakeSource /\ RequestOf(sent[held1]) = k
  BY <1>1, TakenStays, TakenNow DEF PlacesOfRequests
<1>2. CASE Authorize /\ k = "authorize"
  BY <1>2, TakenStays DEF Authorize, AuthorizeIsFresh
<1> QED
  BY <1>1, <1>2 DEF Enters

\* How a request moves from place to place in one step
LEMMA RequestMoves ==
  ASSUME HeldTypeOK, PlaceTypeOK, MessageTypeOK, CountTypeOK, PlacesAgree, SentOnce, AskedOnce, AnswersOnce,
         PlacesOfRequests,
         AuthorizeIsFresh, [Next]_vars
  PROVE  /\ AskedOnce' /\ AnswersOnce'
         /\ \A k \in Request :
              /\ InAsked(k)' => (InAsked(k) /\ ~ Answers(k)) \/ Enters(k)
              /\ Answers(k) => InAsked(k)
              /\ Coming(k)' => (Coming(k) /\ ~ Reads(k)) \/ Answers(k)
              /\ Reads(k) => Coming(k)
<1>1. \A k \in Request : Enters(k) => ~ InAsked(k)
  BY EntersFresh
<1>2. /\ AskedOnce' /\ \A k \in Request : InAsked(k)' => (InAsked(k) /\ ~ Answers(k)) \/ Enters(k)
      /\ \A k \in Request : Answers(k) => InAsked(k)
  BY <1>1, AskedStep
<1>3. \A k \in Request : Answers(k) => ~ Coming(k)
  BY <1>2 DEF PlacesOfRequests, OnePlace, Answered
<1>4. /\ AnswersOnce' /\ \A k \in Request : Coming(k)' => (Coming(k) /\ ~ Reads(k)) \/ Answers(k)
      /\ \A k \in Request : Reads(k) => Coming(k)
  BY <1>3, AnswersStep
<1> QED
  BY <1>2, <1>4

\* A request and its answer are in one place at most.
LEMMA PlacesOfRequestsStep ==
  ASSUME HeldTypeOK, PlaceTypeOK, MessageTypeOK, CountTypeOK, PlacesAgree, SentOnce, AskedOnce, AnswersOnce,
         PlacesOfRequests,
         AuthorizeIsFresh, [Next]_vars
  PROVE  PlacesOfRequests'
<1> SUFFICES ASSUME NEW k \in Request
             PROVE  OnePlace(k)' /\ (InAsked(k)' \/ Answered(k)' \/ Got(k)' => WasTaken(k)')
  BY DEF PlacesOfRequests
<1>1. /\ InAsked(k)' => (InAsked(k) /\ ~ Answers(k)) \/ Enters(k)
      /\ Answers(k) => InAsked(k)
      /\ Coming(k)' => (Coming(k) /\ ~ Reads(k)) \/ Answers(k)
      /\ Reads(k) => Coming(k)
  BY RequestMoves
<1>2. OnePlace(k) /\ (InAsked(k) \/ Answered(k) \/ Got(k) => WasTaken(k))
  BY DEF PlacesOfRequests
<1>3. Enters(k) => ~ InAsked(k) /\ ~ Answered(k) /\ WasTaken(k)'
  BY EntersFresh
<1>4. /\ HeldOf(k)' => (HeldOf(k) /\ ~ TakeDest) \/ (Reads(k) /\ ~ ReadResult)
      /\ WritingOf(k)' => (WritingOf(k) /\ ~ Forward) \/ (TakeDest /\ HeldOf(k))
  BY PipeStep
<1>5. /\ Delivered(k)' => Delivered(k) \/ (Forward /\ WritingOf(k)) \/ (Reads(k) /\ ReadResult)
      /\ Got(k)' => \/ Got(k) \/ (Forward /\ WritingOf(k)) \/ (Reads(k) /\ ReadResult)
                    \/ TakeSource /\ sent[held1] = "authorize" /\ k = "authorize"
  BY DeliveredStep
<1>6. OnePlace(k)'
  BY <1>1, <1>2, <1>3, <1>4, <1>5 DEF OnePlace, Answered, Read
<1>7. TakeSource /\ sent[held1] = "authorize" /\ k = "authorize" => WasTaken(k)'
  <2>1. sent[held1] = "authorize" => RequestOf(sent[held1]) = "authorize"
    BY DEF RequestOf, Configure
  <2> QED
    BY <2>1, TakenNow
<1>8. WasTaken(k) => WasTaken(k)'
  BY TakenStays
<1>9. InAsked(k)' \/ Answered(k)' \/ Got(k)' => WasTaken(k)'
  BY <1>1, <1>2, <1>3, <1>4, <1>5, <1>7, <1>8 DEF Answered, Read
<1> QED
  BY <1>6, <1>9

\* The miner gets an answer of the pool once, and the loop tells it once that it is authorized.
LEMMA ReceivedOnceStep ==
  ASSUME HeldTypeOK, PlaceTypeOK, MessageTypeOK, CountTypeOK, PlacesAgree, SentOnce, AnswersInOrder, ReadsInOrder,
         PlacesOfRequests,
         ReceivedOnce, [Next]_vars
  PROVE  ReceivedOnce'
<1>1. ASSUME NEW m \in PoolMsg,
             \A i \in DOMAIN received' : \/ i \in DOMAIN received /\ received'[i] = received[i]
                                         \/ i = Len(received) + 1 /\ received'[i] = m,
             \/ m = Told("authorize") /\ TakeSource /\ sent[held1] = "authorize"
             \/ m = current /\ Forward
             \/ m = Head(answers) /\ ReadDest /\ ReadResult
      PROVE  ReceivedOnce'
  <2>1. m.n = 0 => m = Told("authorize") /\ TakeSource /\ sent[held1] = "authorize"
    <3>1. Forward => current.n > 0
      BY WritingMoves DEF ReadsInOrder
    <3>2. ReadDest => Head(answers).n > 0
      BY HeldMoves, TailSeq DEF MessageTypeOK, AnswersInOrder
    <3> QED
      BY <1>1, <3>1, <3>2
  <2>2. m.n = 0 => \A i \in DOMAIN received : received[i].n # 0
    <3>1. TakeSource /\ sent[held1] = "authorize" => ~ WasTaken("authorize")
      BY TakenStays DEF RequestOf, Configure
    <3>2. ~ WasTaken("authorize") => ~ Got("authorize")
      BY DEF PlacesOfRequests, Request
    <3>3. \A i \in DOMAIN received : received[i].n = 0 => received[i].of = "authorize"
      BY DEF ReceivedOnce, Told
    <3> QED
      BY <2>1, <3>1, <3>2, <3>3 DEF Got
  <2>3. m.n # 0 /\ m.of # "none" => ~ Delivered(m.of)
    <3>1. m.of \in Request \cup {"none"}
      BY Fields
    <3>2. CASE m = current /\ Forward
      BY <3>1, <3>2, WritingMoves DEF PlacesOfRequests, OnePlace, WritingOf
    <3>3. CASE m = Head(answers) /\ ReadDest
      <4>1. Coming(m.of)
        BY <3>3, HeldMoves, TailSeq DEF MessageTypeOK, Coming
      <4> QED
        BY <3>1, <4>1 DEF PlacesOfRequests, OnePlace, Read
    <3>4. CASE m = Told("authorize")
      BY <3>4 DEF Told
    <3> QED
      BY <1>1, <3>2, <3>3, <3>4
  <2>4. m.n \in Nat /\ \A i \in DOMAIN received : received[i].n \in Nat
    BY Fields DEF MessageTypeOK
  <2>5. \A i \in DOMAIN received' : received'[i].n = 0 => received'[i] = Told("authorize")
    BY <1>1, <2>1 DEF ReceivedOnce
  <2>6. ASSUME NEW i \in DOMAIN received, m.of # "none", received[i].of = m.of, m.n = 0 <=> received[i].n = 0
        PROVE  FALSE
    BY <2>2, <2>3, <2>4, <2>6 DEF Delivered
  <2>7. \A i, j \in DOMAIN received' :
          received'[i].of # "none" /\ received'[i].of = received'[j].of /\ (received'[i].n = 0 <=> received'[j].n = 0) => i = j
    <3> SUFFICES ASSUME NEW i \in DOMAIN received', NEW j \in DOMAIN received', received'[i].of # "none",
                        received'[i].of = received'[j].of, received'[i].n = 0 <=> received'[j].n = 0
                 PROVE  i = j
      OBVIOUS
    <3>1. CASE i \in DOMAIN received /\ received'[i] = received[i] /\ j \in DOMAIN received /\ received'[j] = received[j]
      BY <3>1 DEF ReceivedOnce
    <3>2. CASE i \in DOMAIN received /\ received'[i] = received[i] /\ received'[j] = m
      BY <2>6, <3>2
    <3>3. CASE j \in DOMAIN received /\ received'[j] = received[j] /\ received'[i] = m
      BY <2>6, <3>3
    <3>4. CASE i = Len(received) + 1 /\ j = Len(received) + 1
      BY <3>4
    <3> QED
      BY <1>1, <3>1, <3>2, <3>3, <3>4
  <2>8. Told("authorize")' = Told("authorize")
    BY DEF Told
  <2> QED
    BY <2>5, <2>7, <2>8 DEF ReceivedOnce, Told
<1>2. CASE UNCHANGED received
  BY <1>2 DEF ReceivedOnce, Told
<1> QED
  BY <1>1, <1>2, ReceivedElements

\* Between the answer to the miner and the request, the pool knows nothing of authorize.
LEMMA AuthorizeStep ==
  ASSUME HeldTypeOK, PlaceTypeOK, MessageTypeOK, CountTypeOK, PlacesAgree, SentOnce, AskedOnce, AnswersOnce,
         PlacesOfRequests,
         AuthorizeIsFresh, [Next]_vars
  PROVE  AuthorizeIsFresh'
<1> DEFINE k == "authorize"
<1>0. k \in Request
  BY DEF Request
<1> HIDE DEF k
<1> SUFFICES ASSUME main' = "authorize"
             PROVE  ~ InAsked(k)' /\ ~ Answered(k)' /\ WasTaken(k)' /\ Got(k)'
  BY DEF AuthorizeIsFresh, k
<1>1. /\ InAsked(k)' => (InAsked(k) /\ ~ Answers(k)) \/ Enters(k)
      /\ Answers(k) => InAsked(k)
      /\ Coming(k)' => (Coming(k) /\ ~ Reads(k)) \/ Answers(k)
      /\ Reads(k) => Coming(k)
  BY <1>0, RequestMoves
<1>2. /\ HeldOf(k)' => (HeldOf(k) /\ ~ TakeDest) \/ (Reads(k) /\ ~ ReadResult)
      /\ WritingOf(k)' => (WritingOf(k) /\ ~ Forward) \/ (TakeDest /\ HeldOf(k))
      /\ Delivered(k)' => Delivered(k) \/ (Forward /\ WritingOf(k)) \/ (Reads(k) /\ ReadResult)
      /\ Got(k) => Got(k)'
  BY <1>0, PipeStep, DeliveredStep
<1>3. ~ Enters(k)
  BY DEF Enters, k, Authorize, GoesOn, Leaves, Stays
<1>4. ~ InAsked(k) /\ ~ Answered(k) => ~ InAsked(k)' /\ ~ Answered(k)'
  BY <1>1, <1>2, <1>3 DEF Answered, Read
<1>5. CASE main = "authorize"
  BY <1>2, <1>4, <1>5, TakenStays DEF AuthorizeIsFresh, k
<1>6. CASE TakeSource
  <2>1. HandleAuthorize(sent[held1]) /\ received' = Append(received, Told(k)) /\ RequestOf(sent[held1]) = k
    BY <1>6 DEF TakeSource, HandleRequest, CreateFails, HandleAuthorize, HandleOther, Leaves, GoesOn, Stays, k, RequestOf,
       Configure
  <2>2. Told(k) \in PoolMsg /\ Told(k).of = k
    BY <1>0 DEF Told, PoolMsg, k
  <2>3. Got(k)'
    <3>1. Len(received) + 1 \in DOMAIN received' /\ received'[Len(received) + 1] = Told(k)
      BY <2>1, <2>2, AppendSeq DEF MessageTypeOK
    <3> QED
      BY <2>2, <3>1 DEF Got
  <2>4. WasTaken(k)' /\ ~ WasTaken(k)
    BY <1>6, <2>1, TakenNow, TakenStays
  <2> QED
    BY <1>0, <1>4, <2>3, <2>4 DEF PlacesOfRequests
<1> QED
  BY <1>5, <1>6 DEF Next, Loop, Outside, Timeout, ReadSource, ReadDest, DestEnds, Authorize, TakeDest, Forward, TakeError,
     Return, Leaves, GoesOn, Stays, vars, mainVars

--------------------------------------------------------------------------------
\* The handlers, the jobs and the handover

\* A handler goes when it is called or its time is over.
LEMMA HandlersMoves ==
  ASSUME SetTypeOK, FlagTypeOK, [Next]_vars, NEW k \in Handler
  PROVE  /\ k \in handlers \cup late => k \in handlers' \cup late' \/ Reads(k)
         /\ k \in late => k \in late'
         /\ Enters(k) => k \in handlers'
         /\ extraNonce => extraNonce'
         /\ ReadDest => UNCHANGED late
         /\ "authorize" \in handlers' => "authorize" \in handlers \/ Enters("authorize")
<1>1. k \in handlers \cup late => k \in handlers' \cup late' \/ Reads(k)
  BY DEF Reads, SetTypeOK, Next, Loop, Outside, MinerSends, PoolAnswers, PoolNotifies, Closes, OtherMinerSubscribes,
      Fails, Timeout, ReadSource, Unread, StreamsCancelled, ReadDest, ReadNotification, ReadUnexpected, ReadRefusal,
      ReadResult, ReadAuthorized, Answer, Holds, Ends2, DestEnds, TakeSource, HandleRequest, HandleAuthorize,
      HandleOther, CreateFails, MaybeCreate, CreatesDest, DestWrite, DestWriteFails, Leaves, GoesOn, Stays, Authorize,
      TakeDest, Forward, Forwarded, TakeError, Return, vars, minerVars, poolVars, destVars, r1Vars, r2Vars, mainVars,
      historyVars
<1>2. k \in late => k \in late'
  BY DEF SetTypeOK, Next, Loop, Outside, MinerSends, PoolAnswers, PoolNotifies, Closes, OtherMinerSubscribes, Fails,
      Timeout, ReadSource, Unread, StreamsCancelled, ReadDest, ReadNotification, ReadUnexpected, ReadRefusal,
      ReadResult, ReadAuthorized, Answer, Holds, Ends2, DestEnds, TakeSource, HandleRequest, HandleAuthorize,
      HandleOther, CreateFails, MaybeCreate, CreatesDest, DestWrite, DestWriteFails, Leaves, GoesOn, Stays, Authorize,
      TakeDest, Forward, Forwarded, TakeError, Return, vars, minerVars, poolVars, destVars, r1Vars, r2Vars, mainVars,
      historyVars
<1>3. Enters(k) => k \in handlers'
  BY DEF Enters, Handler, Authorize
<1>4. (extraNonce => extraNonce') /\ (ReadDest => UNCHANGED late)
  BY DEF FlagTypeOK, Next, Loop, Outside, MinerSends, PoolAnswers, PoolNotifies, Closes, OtherMinerSubscribes, Fails,
      Timeout, ReadSource, Unread, StreamsCancelled, ReadDest, ReadNotification, ReadUnexpected, ReadRefusal,
      ReadResult, ReadAuthorized, Answer, Holds, Ends2, DestEnds, TakeSource, HandleRequest, HandleAuthorize,
      HandleOther, CreateFails, MaybeCreate, CreatesDest, DestWrite, DestWriteFails, Leaves, GoesOn, Stays, Authorize,
      TakeDest, Forward, Forwarded, TakeError, Return, vars, minerVars, poolVars, destVars, r1Vars, r2Vars, mainVars,
      historyVars
<1>5. "authorize" \in handlers' => "authorize" \in handlers \/ Enters("authorize")
  BY DEF Enters, RequestOf, Next, Loop, Outside, MinerSends, PoolAnswers, PoolNotifies, Closes, OtherMinerSubscribes,
      Fails, Timeout, ReadSource, Unread, StreamsCancelled, ReadDest, ReadNotification, ReadUnexpected, ReadRefusal,
      ReadResult, ReadAuthorized, Answer, Holds, Ends2, DestEnds, TakeSource, HandleRequest, HandleAuthorize,
      HandleOther, CreateFails, MaybeCreate, CreatesDest, DestWrite, DestWriteFails, Leaves, GoesOn, Stays, Authorize,
      TakeDest, Forward, Forwarded, TakeError, Return, vars, minerVars, poolVars, destVars, r1Vars, r2Vars, mainVars,
      historyVars
<1> QED
  BY <1>1, <1>2, <1>3, <1>4, <1>5

\* An answer finds its handler, unless it is late.
LEMMA HandlersStep ==
  ASSUME HeldTypeOK, PlaceTypeOK, MessageTypeOK, CountTypeOK, SetTypeOK, FlagTypeOK, PlacesAgree, SentOnce, AskedOnce,
         AnswersOnce, PlacesOfRequests, AuthorizeIsFresh, HandlersAnswer, [Next]_vars
  PROVE  HandlersAnswer'
<1>1. ASSUME NEW k \in Handler
      PROVE  /\ InAsked(k)' \/ Coming(k)' => k \in handlers' \cup late'
             /\ HeldOf(k)' \/ WritingOf(k)' => k \in late'
  <2>0. k \in Request
    BY DEF Handler, Request
  <2>1. /\ InAsked(k)' => (InAsked(k) /\ ~ Answers(k)) \/ Enters(k)
        /\ Answers(k) => InAsked(k)
        /\ Coming(k)' => (Coming(k) /\ ~ Reads(k)) \/ Answers(k)
        /\ Reads(k) => Coming(k)
    BY <2>0, RequestMoves
  <2>2. /\ HeldOf(k)' => (HeldOf(k) /\ ~ TakeDest) \/ (Reads(k) /\ ~ ReadResult /\ k \notin handlers)
        /\ WritingOf(k)' => (WritingOf(k) /\ ~ Forward) \/ (TakeDest /\ HeldOf(k))
    BY <2>0, PipeStep
  <2>3. /\ k \in handlers \cup late => k \in handlers' \cup late' \/ Reads(k)
        /\ k \in late => k \in late'
        /\ Enters(k) => k \in handlers'
    BY HandlersMoves
  <2>4. InAsked(k) => ~ Coming(k)
    BY <2>0 DEF PlacesOfRequests, OnePlace, Answered
  <2>5. /\ InAsked(k) \/ Coming(k) => k \in handlers \cup late
        /\ HeldOf(k) \/ WritingOf(k) => k \in late
    BY DEF HandlersAnswer
  <2>6. InAsked(k)' \/ Coming(k)' => k \in handlers' \cup late'
    BY <2>1, <2>3, <2>4, <2>5
  <2>7. HeldOf(k)' \/ WritingOf(k)' => k \in late'
    BY <2>1, <2>2, <2>3, <2>5
  <2> QED
    BY <2>6, <2>7
<1>2. Delivered("authorize")' => "authorize" \in late'
  <2>1. "authorize" \in Request /\ "authorize" \in Handler
    BY DEF Request, Handler
  <2>2. ReadDest /\ ReadResult => Head(answers).of # "authorize"
    BY DEF ReadResult, Answer
  <2> QED
    BY <2>1, <2>2, DeliveredStep, HandlersMoves DEF HandlersAnswer, Reads
<1>3. Got("subscribe")' => extraNonce' \/ "subscribe" \in late'
  <2>1. "subscribe" \in Request /\ "subscribe" \in Handler
    BY DEF Request, Handler
  <2>2. ReadResult /\ Head(answers).of = "subscribe" => extraNonce'
    BY DEF ReadResult, Answer
  <2> QED
    BY <2>1, <2>2, DeliveredStep, HandlersMoves DEF HandlersAnswer, Reads
<1> QED
  BY <1>1, <1>2, <1>3 DEF HandlersAnswer

\* A job that follows the answer to subscribe has the extranonce.
LEMMA JobsStep ==
  ASSUME PlaceTypeOK, MessageTypeOK, SetTypeOK, FlagTypeOK, JobTypeOK, AnswersInOrder, HandlersAnswer, JobsHaveExtranonce,
         [Next]_vars
  PROVE  JobsHaveExtranonce'
<1>0. "subscribe" \in Handler
  BY DEF Handler
<1>1. CASE UNCHANGED received
  <2>1. CASE UNCHANGED jobs
    BY <1>0, <1>1, <2>1, HandlersMoves DEF JobsHaveExtranonce
  <2>2. CASE ReadDest /\ jobs' = jobs \cup {[n |-> Head(answers).n, known |-> extraNonce]}
    <3>1. UNCHANGED late
      BY <1>0, <2>2, HandlersMoves
    <3>2. Got("subscribe") /\ "subscribe" \notin late => extraNonce
      BY DEF HandlersAnswer
    <3> QED
      BY <1>1, <2>2, <3>1, <3>2 DEF JobsHaveExtranonce, Got
  <2> QED
    BY <2>1, <2>2, JobsMoves
<1>2. ASSUME NEW m \in PoolMsg,
             \A i \in DOMAIN received' : \/ i \in DOMAIN received /\ received'[i] = received[i]
                                         \/ i = Len(received) + 1 /\ received'[i] = m,
             \/ m = Told("authorize") /\ TakeSource /\ sent[held1] = "authorize"
             \/ m = current /\ Forward
             \/ m = Head(answers) /\ ReadDest /\ ReadResult,
             UNCHANGED jobs
      PROVE  JobsHaveExtranonce'
  <2>1. m.of = "subscribe" => "subscribe" \in late \/ \A j \in jobs : ~ (m.n < j.n)
    <3>1. CASE m = current /\ Forward
      BY <1>0, <3>1, WritingMoves DEF HandlersAnswer, WritingOf
    <3>2. CASE m = Head(answers) /\ ReadDest
      <4>1. ReadBelow(m.n)
        BY <3>2, HeldMoves, TailSeq DEF MessageTypeOK, AnswersInOrder
      <4>2. m.n \in Nat /\ \A j \in jobs : j.n \in Nat
        BY Fields DEF JobTypeOK
      <4> QED
        BY <4>1, <4>2 DEF ReadBelow
    <3>3. CASE m = Told("authorize")
      BY <3>3 DEF Told
    <3> QED
      BY <1>2, <3>1, <3>2, <3>3
  <2> QED
    BY <1>0, <1>2, <2>1, HandlersMoves DEF JobsHaveExtranonce
<1>3. UNCHANGED received \/ UNCHANGED jobs
  BY JobsMoves
<1> QED
  BY <1>1, <1>2, <1>3, ReceivedElements

\* The parts of CancelIsForResult

ResultIsAccepted == \A i \in DOMAIN answers : answers[i].of = "authorize" /\ answers[i].kind = "result" => accepted
ToldBefore == "authorize" \in handlers \/ InAsked("authorize") \/ Coming("authorize") => Got("authorize")
CancelledAfter ==
    cancelled => /\ r2 \in {"reading", "ended"} /\ dest = "pool"
                 /\ accepted /\ Got("authorize") /\ (stored \/ res = "error")
                 /\ LosesOne
CanceledOnlyThen ==
    /\ err1 = "canceled" \/ err2 = "canceled" => cancelled \/ Left
    /\ Left /\ err = "canceled" => cancelled
    /\ r2 # "ended" => LosesOne
    /\ res = "ok" => err = "canceled"

\* CancelIsForResult is the conjunction of these parts.
LEMMA CancelParts ==
    /\ CancelIsForResult <=> ResultIsAccepted /\ ToldBefore /\ CancelledAfter /\ CanceledOnlyThen
    /\ CancelIsForResult' <=> (ResultIsAccepted /\ ToldBefore /\ CancelledAfter /\ CanceledOnlyThen)'
BY DEF CancelIsForResult, ResultIsAccepted, ToldBefore, CancelledAfter, CanceledOnlyThen

\* An answer that authorizes comes from a pool that accepted.
LEMMA AcceptedStep ==
  ASSUME MessageTypeOK, CountTypeOK, FlagTypeOK, ResultIsAccepted, [Next]_vars
  PROVE  ResultIsAccepted' /\ (accepted => accepted')
<1>1. accepted => accepted'
  BY DEF FlagTypeOK, Next, Loop, Outside, MinerSends, PoolAnswers, PoolNotifies, Closes, OtherMinerSubscribes, Fails,
      Timeout, ReadSource, Unread, StreamsCancelled, ReadDest, ReadNotification, ReadUnexpected, ReadRefusal,
      ReadResult, ReadAuthorized, Answer, Holds, Ends2, DestEnds, TakeSource, HandleRequest, HandleAuthorize,
      HandleOther, CreateFails, MaybeCreate, CreatesDest, DestWrite, DestWriteFails, Leaves, GoesOn, Stays, Authorize,
      TakeDest, Forward, Forwarded, TakeError, Return, vars, minerVars, poolVars, destVars, r1Vars, r2Vars, mainVars,
      historyVars
<1>2. CASE UNCHANGED answers
  BY <1>1, <1>2 DEF ResultIsAccepted
<1>3. CASE answers # <<>> /\ answers' = Tail(answers)
  BY <1>1, <1>3, TailSeq DEF ResultIsAccepted, MessageTypeOK
<1>4. ASSUME NEW m \in PoolMsg, answers' = Append(answers, m), m.kind = "result" /\ m.of = "authorize" => accepted'
      PROVE  ResultIsAccepted'
  <2>1. \A i \in DOMAIN answers' : (i \in DOMAIN answers /\ answers'[i] = answers[i]) \/ answers'[i] = m
    BY <1>4, AppendSeq DEF MessageTypeOK
  <2> QED
    BY <1>1, <1>4, <2>1 DEF ResultIsAccepted
<1>5. ResultIsAccepted'
  <2>1. "none" # "authorize"
    OBVIOUS
  <2> QED
    BY <1>2, <1>3, <1>4, <2>1, AnswersMoves
<1> QED
  BY <1>1, <1>5

\* The miner has been told before the pool is asked.
LEMMA ToldStep ==
  ASSUME HeldTypeOK, PlaceTypeOK, MessageTypeOK, CountTypeOK, SetTypeOK, FlagTypeOK, PlacesAgree, SentOnce, AskedOnce,
         AnswersOnce, PlacesOfRequests, AuthorizeIsFresh, ToldBefore, [Next]_vars
  PROVE  ToldBefore'
<1> DEFINE k == "authorize"
<1>0. k \in Request /\ k \in Handler
  BY DEF Request, Handler
<1>1. Enters(k) => Got(k)
  BY DEF Enters, Authorize, AuthorizeIsFresh
<1> HIDE DEF k
<1>2. /\ InAsked(k)' => InAsked(k) \/ Enters(k)
      /\ Coming(k)' => Coming(k) \/ InAsked(k)
  BY <1>0, RequestMoves
<1>3. k \in handlers' => k \in handlers \/ Enters(k)
  BY <1>0, HandlersMoves DEF k
<1>4. Got(k) => Got(k)'
  BY <1>0, DeliveredStep
<1> QED
  BY <1>1, <1>2, <1>3, <1>4 DEF ToldBefore, k

\* A message is dropped as the loop leaves, or when its goroutine ends.
LEMMA LostMoves ==
  ASSUME [Next]_vars
  PROVE  /\ \/ lost' = lost
            \/ lost' = lost + 1 /\ Left' /\ ~ Left
            \/ lost' = lost + 1 /\ r2 = "holding" /\ r2' = "ended"
         /\ Left => Left'
<1>1. \/ lost' = lost
      \/ lost' = lost + 1 /\ Left' /\ ~ Left
      \/ lost' = lost + 1 /\ r2 = "holding" /\ r2' = "ended"
  BY DEF Left, Next, Loop, Outside, MinerSends, PoolAnswers, PoolNotifies, Closes, OtherMinerSubscribes, Fails,
      Timeout, ReadSource, Unread, StreamsCancelled, ReadDest, ReadNotification, ReadUnexpected, ReadRefusal,
      ReadResult, ReadAuthorized, Answer, Holds, Ends2, DestEnds, TakeSource, HandleRequest, HandleAuthorize,
      HandleOther, CreateFails, MaybeCreate, CreatesDest, DestWrite, DestWriteFails, Leaves, GoesOn, Stays, Authorize,
      TakeDest, Forward, Forwarded, TakeError, Return, vars, minerVars, poolVars, destVars, r1Vars, r2Vars, mainVars,
      historyVars
<1>2. Left => Left'
  BY DEF Left, Next, Loop, Outside, MinerSends, PoolAnswers, PoolNotifies, Closes, OtherMinerSubscribes, Fails,
      Timeout, ReadSource, Unread, StreamsCancelled, ReadDest, ReadNotification, ReadUnexpected, ReadRefusal,
      ReadResult, ReadAuthorized, Answer, Holds, Ends2, DestEnds, TakeSource, HandleRequest, HandleAuthorize,
      HandleOther, CreateFails, MaybeCreate, CreatesDest, DestWrite, DestWriteFails, Leaves, GoesOn, Stays, Authorize,
      TakeDest, Forward, Forwarded, TakeError, Return, vars, minerVars, poolVars, destVars, r1Vars, r2Vars, mainVars,
      historyVars
<1> QED
  BY <1>1, <1>2

\* The pipe is cancelled when the pool has authorized, and the goroutine of the pool holds nothing then.
LEMMA CancelledStep ==
  ASSUME PlaceTypeOK, MessageTypeOK, CountTypeOK, SetTypeOK, FlagTypeOK, EndTypeOK, PlacesAgree, ResultIsAccepted,
         ToldBefore,
         CancelledAfter, CanceledOnlyThen, [Next]_vars
  PROVE  CancelledAfter'
<1>1. /\ Got("authorize") => Got("authorize")'
      /\ accepted => accepted'
  BY DeliveredStep, AcceptedStep DEF Request
<1>2. CASE cancelled
  <2>1. cancelled' => r2' \in {"reading", "ended"} /\ dest' = "pool"
    BY <1>2 DEF CancelledAfter, Next, Loop, Outside, MinerSends, PoolAnswers, PoolNotifies, Closes,
        OtherMinerSubscribes, Fails, Timeout, ReadSource, Unread, StreamsCancelled, ReadDest, ReadNotification,
        ReadUnexpected, ReadRefusal, ReadResult, ReadAuthorized, Answer, Holds, Ends2, DestEnds, TakeSource,
        HandleRequest, HandleAuthorize, HandleOther, CreateFails, MaybeCreate, CreatesDest, DestWrite, DestWriteFails,
        Leaves, GoesOn, Stays, Authorize, TakeDest, Forward, Forwarded, TakeError, Return, vars, minerVars, poolVars,
        destVars, r1Vars, r2Vars, mainVars, historyVars
  <2>2. stored' \/ res' = "error"
    BY <1>2 DEF CancelledAfter, FlagTypeOK, PlaceTypeOK, PlacesAgree, Next, Loop, Outside, MinerSends, PoolAnswers,
        PoolNotifies, Closes, OtherMinerSubscribes, Fails, Timeout, ReadSource, Unread, StreamsCancelled, ReadDest,
        ReadNotification, ReadUnexpected, ReadRefusal, ReadResult, ReadAuthorized, Answer, Holds, Ends2, DestEnds,
        TakeSource, HandleRequest, HandleAuthorize, HandleOther, CreateFails, MaybeCreate, CreatesDest, DestWrite,
        DestWriteFails, Leaves, GoesOn, Stays, Authorize, TakeDest, Forward, Forwarded, TakeError, Return, vars,
        minerVars, poolVars, destVars, r1Vars, r2Vars, mainVars, historyVars
  <2>3. LosesOne'
    BY <1>2, LostMoves DEF CancelledAfter, CountTypeOK, LosesOne
  <2> QED
    BY <1>1, <1>2, <2>1, <2>2, <2>3 DEF CancelledAfter
<1>3. CASE ~ cancelled /\ cancelled'
  <2>1. ReadDest /\ ReadAuthorized /\ r2' = "reading" /\ stored' /\ lost' = lost /\ main' = main /\ dest' = dest /\ r2 = "reading"
    BY <1>3 DEF FlagTypeOK, Next, Loop, Outside, MinerSends, PoolAnswers, PoolNotifies, Closes, OtherMinerSubscribes,
        Fails, Timeout, ReadSource, Unread, StreamsCancelled, ReadDest, ReadNotification, ReadUnexpected, ReadRefusal,
        ReadResult, ReadAuthorized, Answer, Holds, Ends2, DestEnds, TakeSource, HandleRequest, HandleAuthorize,
        HandleOther, CreateFails, MaybeCreate, CreatesDest, DestWrite, DestWriteFails, Leaves, GoesOn, Stays,
        Authorize, TakeDest, Forward, Forwarded, TakeError, Return, vars, minerVars, poolVars, destVars, r1Vars,
        r2Vars, mainVars, historyVars
  <2>2. dest = "pool"
    BY <2>1 DEF PlacesAgree, SetTypeOK
  <2>3. Got("authorize")
    BY <2>1 DEF ToldBefore, ReadAuthorized
  <2>4. accepted
    <3>1. Head(answers).kind = "result" /\ Head(answers).of = "authorize"
      BY <1>3, <2>1 DEF ReadAuthorized, Answer
    <3> QED
      BY <2>1, <3>1, TailSeq DEF ReadDest, ResultIsAccepted, MessageTypeOK
  <2> QED
    BY <1>1, <2>1, <2>2, <2>3, <2>4 DEF CancelledAfter, CanceledOnlyThen, LosesOne, Left
<1>4. CASE ~ cancelled'
  BY <1>4 DEF CancelledAfter
<1> QED
  BY <1>2, <1>3, <1>4 DEF FlagTypeOK

\* A cancellation is the error of those who saw it.
LEMMA CanceledStep ==
  ASSUME PlaceTypeOK, CountTypeOK, FlagTypeOK, SetTypeOK, EndTypeOK, PlacesAgree, CancelledAfter, CanceledOnlyThen,
         [Next]_vars
  PROVE  CanceledOnlyThen'
<1>0. cancelled => cancelled'
  BY DEF FlagTypeOK, Next, Loop, Outside, MinerSends, PoolAnswers, PoolNotifies, Closes, OtherMinerSubscribes, Fails,
      Timeout, ReadSource, Unread, StreamsCancelled, ReadDest, ReadNotification, ReadUnexpected, ReadRefusal,
      ReadResult, ReadAuthorized, Answer, Holds, Ends2, DestEnds, TakeSource, HandleRequest, HandleAuthorize,
      HandleOther, CreateFails, MaybeCreate, CreatesDest, DestWrite, DestWriteFails, Leaves, GoesOn, Stays, Authorize,
      TakeDest, Forward, Forwarded, TakeError, Return, vars, minerVars, poolVars, destVars, r1Vars, r2Vars, mainVars,
      historyVars
<1>1. err1' = "canceled" \/ err2' = "canceled" => cancelled' \/ Left'
  BY <1>0 DEF CanceledOnlyThen, Left, Next, Loop, Outside, MinerSends, PoolAnswers, PoolNotifies, Closes,
      OtherMinerSubscribes, Fails, Timeout, ReadSource, Unread, StreamsCancelled, ReadDest, ReadNotification,
      ReadUnexpected, ReadRefusal, ReadResult, ReadAuthorized, Answer, Holds, Ends2, DestEnds, TakeSource,
      HandleRequest, HandleAuthorize, HandleOther, CreateFails, MaybeCreate, CreatesDest, DestWrite, DestWriteFails,
      Leaves, GoesOn, Stays, Authorize, TakeDest, Forward, Forwarded, TakeError, Return, vars, minerVars, poolVars,
      destVars, r1Vars, r2Vars, mainVars, historyVars
<1>2. Left' /\ err' = "canceled" => cancelled'
  BY <1>0 DEF CanceledOnlyThen, Left, Next, Loop, Outside, MinerSends, PoolAnswers, PoolNotifies, Closes,
      OtherMinerSubscribes, Fails, Timeout, ReadSource, Unread, StreamsCancelled, ReadDest, ReadNotification,
      ReadUnexpected, ReadRefusal, ReadResult, ReadAuthorized, Answer, Holds, Ends2, DestEnds, TakeSource,
      HandleRequest, HandleAuthorize, HandleOther, CreateFails, MaybeCreate, CreatesDest, DestWrite, DestWriteFails,
      Leaves, GoesOn, Stays, Authorize, TakeDest, Forward, Forwarded, TakeError, Return, vars, minerVars, poolVars,
      destVars, r1Vars, r2Vars, mainVars, historyVars
<1>3. r2' # "ended" => LosesOne'
  <2>1. r2' # "ended" => r2 # "ended"
    BY DEF SetTypeOK, PlacesAgree, Left, Next, Loop, Outside, MinerSends, PoolAnswers, PoolNotifies, Closes,
        OtherMinerSubscribes, Fails, Timeout, ReadSource, Unread, StreamsCancelled, ReadDest, ReadNotification,
        ReadUnexpected, ReadRefusal, ReadResult, ReadAuthorized, Answer, Holds, Ends2, DestEnds, TakeSource,
        HandleRequest, HandleAuthorize, HandleOther, CreateFails, MaybeCreate, CreatesDest, DestWrite, DestWriteFails,
        Leaves, GoesOn, Stays, Authorize, TakeDest, Forward, Forwarded, TakeError, Return, vars, minerVars, poolVars,
        destVars, r1Vars, r2Vars, mainVars, historyVars
  <2> QED
    BY <2>1, LostMoves DEF CanceledOnlyThen, LosesOne, CountTypeOK
<1>4. res' = "ok" => err' = "canceled"
  BY DEF CanceledOnlyThen, PlacesAgree, PlaceTypeOK, Next, Loop, Outside, MinerSends, PoolAnswers, PoolNotifies,
      Closes, OtherMinerSubscribes, Fails, Timeout, ReadSource, Unread, StreamsCancelled, ReadDest, ReadNotification,
      ReadUnexpected, ReadRefusal, ReadResult, ReadAuthorized, Answer, Holds, Ends2, DestEnds, TakeSource,
      HandleRequest, HandleAuthorize, HandleOther, CreateFails, MaybeCreate, CreatesDest, DestWrite, DestWriteFails,
      Leaves, GoesOn, Stays, Authorize, TakeDest, Forward, Forwarded, TakeError, Return, vars, minerVars, poolVars,
      destVars, r1Vars, r2Vars, mainVars, historyVars
<1> QED
  BY <1>1, <1>2, <1>3, <1>4 DEF CanceledOnlyThen

--------------------------------------------------------------------------------
\* The theorems

\* The initial states satisfy the inductive invariant.
THEOREM InitIsInductive == Init => IInv
<1> SUFFICES ASSUME Init PROVE IInv
  OBVIOUS
<1>0. /\ sent = <<>> /\ received = <<>> /\ asked = <<>> /\ answers = <<>> /\ jobs = {} /\ handlers = {}
      /\ main = "select" /\ r1 = "reading" /\ r2 = "off" /\ err1 = "none" /\ err2 = "none" /\ res = "none" /\ err = "none"
      /\ dest = "none" /\ held1 = 0 /\ lost = 0 /\ failures = 0 /\ sourceOpen = TRUE /\ cancelled = FALSE /\ crashed = FALSE
      /\ answered = 0
  BY DEF Init
<1>1. TypeOK
  <2>1. MessageTypeOK
    BY EmptySeq DEF Init, MessageTypeOK, Nothing, PoolMsg
  <2>2. SetTypeOK /\ JobTypeOK /\ FlagTypeOK /\ PlaceTypeOK /\ CountTypeOK /\ EndTypeOK
    BY DEF Init, SetTypeOK, JobTypeOK, FlagTypeOK, PlaceTypeOK, CountTypeOK, EndTypeOK, Error
  <2>3. HeldTypeOK
    BY <1>0, EmptySeq DEF HeldTypeOK
  <2> QED
    BY <2>1, <2>2, <2>3, TypeParts
<1>2. PlacesAgree
  BY <1>0 DEF PlacesAgree, Left
<1>3. NumbersInOrder /\ OnlyResultsOvertake /\ OvertakesOne
  BY <1>0 DEF NumbersInOrder, ReadBelow, Held, Writing, OnlyResultsOvertake, OvertakesOne
<1>4. RequestsOnce
  BY <1>0 DEF RequestsOnce, OnePlace, Answered, Read, InAsked, Coming, HeldOf, WritingOf, Delivered, Got, Held, Writing
<1>5. HandlersAnswer /\ JobsHaveExtranonce
  BY <1>0 DEF HandlersAnswer, InAsked, Coming, HeldOf, WritingOf, Delivered, Got, Held, Writing, JobsHaveExtranonce
<1>6. CancelIsForResult
  BY <1>0 DEF CancelIsForResult, InAsked, Coming, LosesOne, Left
<1>7. ErrorsHaveReason /\ NilOnlyOutOfOrder
  BY <1>0 DEF ErrorsHaveReason, Taken, Left, NilOnlyOutOfOrder
<1> QED
  BY <1>1, <1>2, <1>3, <1>4, <1>5, <1>6, <1>7 DEF IInv

\* Every behaviour keeps the inductive invariant: the goroutine that reads the
\* pool, the loop of the pipe and the timeouts leave every request in one place
\* and every message in its order (pipe_sync.go, conn_dest.go,
\* handler_first_connect.go).
THEOREM HandshakeInvariant == Spec => []IInv
<1>1. IInv /\ [Next]_vars => IInv'
  <2> SUFFICES ASSUME IInv, [Next]_vars PROVE IInv'
    OBVIOUS
  <2>0. /\ MessageTypeOK /\ SetTypeOK /\ JobTypeOK /\ FlagTypeOK /\ PlaceTypeOK /\ CountTypeOK /\ HeldTypeOK /\ EndTypeOK
        /\ PlacesAgree /\ AnswersInOrder /\ ReadsInOrder /\ OnlyResultsOvertake /\ OvertakesOne
        /\ SentOnce /\ AskedOnce /\ AnswersOnce /\ ReceivedOnce /\ PlacesOfRequests /\ AuthorizeIsFresh
        /\ HandlersAnswer /\ JobsHaveExtranonce /\ CancelIsForResult
        /\ ResultIsAccepted /\ ToldBefore /\ CancelledAfter /\ CanceledOnlyThen
        /\ EndsHaveReason /\ RefusalsFail /\ LeavesWithReason /\ SubscribedBefore /\ DestIsThere /\ NilOnlyOutOfOrder
    BY TypeParts, OrderParts, OnceParts, CancelParts, ReasonParts DEF IInv
  <2>1. TypeOK'
    BY <2>0, TypeParts, MessageTypeStep, SetTypeStep, JobTypeStep, FlagTypeStep, PlaceTypeStep, CountTypeStep, HeldTypeStep,
       EndTypeStep
  <2>2. PlacesAgree'
    BY <2>0, PlacesStep
  <2>3. NumbersInOrder' /\ OnlyResultsOvertake' /\ OvertakesOne'
    BY <2>0, OrderParts, AnswersOrderStep, ReadsOrderStep
  <2>4. RequestsOnce'
    <3>1. SentOnce' /\ AskedOnce' /\ AnswersOnce'
      BY <2>0, SentOnceStep, RequestMoves
    <3>2. ReceivedOnce' /\ PlacesOfRequests' /\ AuthorizeIsFresh'
      BY <2>0, ReceivedOnceStep, PlacesOfRequestsStep, AuthorizeStep
    <3> QED
      BY <3>1, <3>2, OnceParts
  <2>5. HandlersAnswer' /\ JobsHaveExtranonce'
    BY <2>0, HandlersStep, JobsStep
  <2>6. CancelIsForResult'
    BY <2>0, CancelParts, AcceptedStep, ToldStep, CancelledStep, CanceledStep
  <2>7. ErrorsHaveReason' /\ NilOnlyOutOfOrder'
    BY <2>0, ReasonParts, EndsStep, RefusalsStep, LeavesStep, SubscribedStep, DestStep, NilStep
  <2> QED
    BY <2>1, <2>2, <2>3, <2>4, <2>5, <2>6, <2>7 DEF IInv
<1> QED
  BY InitIsInductive, <1>1, PTL DEF Spec

\* The pool's messages reach the miner once and in order, but for the answers that
\* are written beside the loop and overtake one message at most; a job has the extranonce of the answer before it;
\* and one message at most is lost when the pipe takes over (readInterceptor and
\* onceResult of conn_dest.go, pipe_sync.go).
THEOREM PoolMessagesAreRelayed == Spec => []PoolIsRelayed
<1>1. IInv => PoolIsRelayed
  <2> SUFFICES ASSUME IInv PROVE PoolIsRelayed
    OBVIOUS
  <2>1. OneResultEach
    <3> SUFFICES ASSUME NEW i \in DOMAIN received, NEW j \in DOMAIN received, i # j, received[i].of = received[j].of,
                        received[i].of # "none"
                 PROVE  received[i].of \in late
      BY DEF OneResultEach
    <3>1. received[i].n \in Nat /\ received[j].n \in Nat
      BY Fields, TypeParts DEF IInv, MessageTypeOK
    <3>2. \/ received[i].n = 0 /\ received[j].n > 0
          \/ received[j].n = 0 /\ received[i].n > 0
      BY <3>1 DEF IInv, RequestsOnce
    <3>3. received[i].of = "authorize" /\ Delivered("authorize")
      BY <3>2 DEF IInv, RequestsOnce, Told, Delivered
    <3> QED
      BY <3>3 DEF IInv, HandlersAnswer
  <2>2. HandoverLosesOne
    BY DEF IInv, HandoverLosesOne, CancelIsForResult, PlacesAgree, Left, LosesOne
  <2> QED
    BY <2>1, <2>2 DEF IInv, PoolIsRelayed
<1> QED
  BY HandshakeInvariant, <1>1, PTL

\* Connect succeeds only for a miner that the pool authorized and that was told so,
\* it refuses a miner only if something failed or the miner broke the protocol,
\* and the missing connection is used only then (handler_first_connect.go).
THEOREM OutcomeHasReason == Spec => []OutcomeIsRight
<1>1. IInv => OutcomeIsRight
  <2> SUFFICES ASSUME IInv PROVE OutcomeIsRight
    OBVIOUS
  <2>1. OkMeansAuthorized
    BY DEF IInv, OkMeansAuthorized, CancelIsForResult, PlacesAgree, Left
  <2>2. GoodMinerIsServed
    BY DEF IInv, GoodMinerIsServed, ErrorsHaveReason, Excuse
  <2> QED
    BY <2>1, <2>2 DEF IInv, OutcomeIsRight
<1> QED
  BY HandshakeInvariant, <1>1, PTL

================================================================================
