--------------------------- MODULE StratumConnection ---------------------------
(***************************************************************************)
(* One StratumConnection (proxy/conn.go): the socket, Read and Write with  *)
(* their cancellation goroutines, and the goroutine of the idle timers.    *)
(*                                                                         *)
(* The peer's text is a sequence of lines of Pieces pieces; the last piece *)
(* of a line holds its newline, and a piece is <<line, piece>>.  A place   *)
(* in the text is <<i, j>>: i whole lines and j pieces of the next.        *)
(* Read unblocks a cancelled call by moving the socket's deadline, so a    *)
(* line may be taken from the socket by one call and completed by another. *)
(* Close of the socket and close of closedCh are one step.                 *)
(***************************************************************************)
EXTENDS Integers, Sequences, FiniteSets

CONSTANTS Reader,       \* goroutines that call Read, each with contexts of its own
          Writer,       \* goroutines that call Write
          Kind,         \* Kind[i]: what ParseStratumMessage says of the i-th line
          Pieces,       \* pieces of a line, in both directions
          MaxWrites     \* bound: calls of Write

ASSUME PiecesAssumption == Pieces \in Nat \ {0}
ASSUME KindAssumption == Kind \in Seq({"known", "unknown", "invalid"})
ASSUME MaxWritesAssumption == MaxWrites \in Nat

VARIABLES
    \* socket
    sent,               \* place up to which the peer has sent
    eof,                \* the peer closed its side
    closed,             \* Close was called: the socket and closedCh
    closedBy,           \* history: who closed it first
    lastError,          \* history: how the socket failed last, other than for
                        \* the caller's context, the peer's end or an invalid line
    \* Read
    readExpired,        \* the read deadline of the socket has passed
    fetched,            \* place up to which bufio has read the socket
    taken,              \* place up to which ReadBytes has returned bytes
    readBuffer,         \* pieces of an incomplete line
    rpc, rctx, rguard,  \* per reader: place, context ended, cancellation goroutine
    line,               \* per reader: what ReadBytes has collected
    heard,              \* history: lines given to ParseStratumMessage
    \* Write
    writeExpired,       \* the write deadline of the socket has passed
    out,                \* pieces <<message, piece>> sent to the peer
    wpc, wctx, wguard,  \* per writer, as for a reader
    msg,                \* per writer: number of its message
    cut,                \* history: messages whose Write returned an error
    writes,             \* calls of Write so far
    \* idle timers
    timer,              \* goroutine of runTimeoutTimers
    timeoutErr,         \* an error is stored
    readHappened, writeHappened,    \* the one-slot channels are full
    resetter            \* the one call of ResetIdleCloseTimers

peerVars == <<sent, eof>>
closeVars == <<closed, closedBy>>
readVars == <<readExpired, fetched, taken, readBuffer, rpc, rctx, rguard, line, heard>>
writeVars == <<writeExpired, out, wpc, wctx, wguard, msg, cut, writes>>
timerVars == <<timer, timeoutErr, readHappened, writeHappened, resetter>>
vars == <<peerVars, closeVars, lastError, readVars, writeVars, timerVars>>

--------------------------------------------------------------------------------
Lines == Len(Kind)

\* the place after the next piece, and that piece
Advance(p) == IF p[2] + 1 = Pieces THEN <<p[1] + 1, 0>> ELSE <<p[1], p[2] + 1>>
PieceAt(p) == <<p[1] + 1, p[2] + 1>>

\* the first j pieces of the i-th line; the line itself
Part(i, j) == [k \in 1 .. j |-> <<i, k>>]
Line(i) == Part(i, Pieces)

Init ==
    /\ sent = <<0, 0>> /\ eof = FALSE
    /\ closed = FALSE /\ closedBy = "none" /\ lastError = "none"
    /\ readExpired = FALSE
    /\ fetched = <<0, 0>> /\ taken = <<0, 0>> /\ readBuffer = <<>>
    /\ rpc = [r \in Reader |-> "idle"]
    /\ rctx = [r \in Reader |-> FALSE]
    /\ rguard = [r \in Reader |-> "gone"]
    /\ line = [r \in Reader |-> <<>>]
    /\ heard = <<>>
    /\ writeExpired = FALSE /\ out = <<>>
    /\ wpc = [w \in Writer |-> "idle"]
    /\ wctx = [w \in Writer |-> FALSE]
    /\ wguard = [w \in Writer |-> "gone"]
    /\ msg = [w \in Writer |-> 0]
    /\ cut = {} /\ writes = 0
    /\ timer = "running" /\ timeoutErr = FALSE
    /\ readHappened = FALSE /\ writeHappened = FALSE /\ resetter = "idle"

--------------------------------------------------------------------------------
\* The peer and the owner of the connection
PeerSends ==
    /\ ~ eof /\ sent[1] < Lines
    /\ sent' = Advance(sent)
    /\ UNCHANGED eof

PeerCloses == ~ eof /\ eof' = TRUE /\ UNCHANGED sent

CloseConn(who) ==
    /\ closed' = TRUE
    /\ closedBy' = IF closed THEN closedBy ELSE who

Close ==
    /\ ~ closed
    /\ CloseConn("owner")
    /\ UNCHANGED <<peerVars, lastError, readVars, writeVars, timerVars>>

--------------------------------------------------------------------------------
\* readSync is held from the start of a call to its very end
HoldsReadSync(r) == rpc[r] # "idle"

\* Read.  Waiting for readSync is not seen; the context may end meanwhile.
ReadLock(r) ==
    /\ \A q \in Reader : ~ HoldsReadSync(q)
    /\ rpc' = [rpc EXCEPT ![r] = "reset"]
    /\ \E ended \in BOOLEAN : rctx' = [rctx EXCEPT ![r] = ended]
    /\ rguard' = [rguard EXCEPT ![r] = "waiting"]
    /\ UNCHANGED <<lastError, readExpired, fetched, taken, readBuffer, line, heard, readHappened>>

ReadContextEnds(r) ==
    /\ HoldsReadSync(r) /\ ~ rctx[r]
    /\ rctx' = [rctx EXCEPT ![r] = TRUE]
    /\ UNCHANGED <<lastError, readExpired, fetched, taken, readBuffer, rpc, rguard, line, heard, readHappened>>

\* doneCh of the call is open
InRead(r) == rpc[r] \in {"reset", "check", "reading", "line"}

\* the goroutine of the call: moves the deadline when the context ends
ReadGuard(r) ==
    /\ rguard[r] = "waiting"
    /\ \/ rctx[r] /\ readExpired' = (readExpired \/ ~ closed)
       \/ (~ InRead(r) \/ closed) /\ UNCHANGED readExpired
    /\ rguard' = [rguard EXCEPT ![r] = "gone"]
    /\ UNCHANGED <<lastError, fetched, taken, readBuffer, rpc, rctx, line, heard, readHappened>>

\* maybeTimeoutError
ClosedError == IF timeoutErr THEN "timeout" ELSE "closed"

Returns(r) == rpc' = [rpc EXCEPT ![r] = "return"]

ReadFails(r, err) ==
    /\ Returns(r)
    /\ lastError' = err

ReadReset(r) ==
    /\ rpc[r] = "reset"
    /\ IF closed
         THEN ReadFails(r, ClosedError) /\ UNCHANGED readExpired
         ELSE /\ rpc' = [rpc EXCEPT ![r] = "check"]
              /\ readExpired' = FALSE
              /\ UNCHANGED lastError
    /\ UNCHANGED <<fetched, taken, readBuffer, rctx, rguard, line, heard, readHappened>>

\* mutant: the context is not looked at before the socket is read
ReadCheckNot(r) ==
    /\ rpc[r] = "check"
    /\ rpc' = [rpc EXCEPT ![r] = "reading"]
    /\ UNCHANGED <<lastError, readExpired, fetched, taken, readBuffer, rctx, rguard, line, heard, readHappened>>

ReadCheck(r) ==
    /\ rpc[r] = "check"
    /\ IF rctx[r]
         THEN (Returns(r) /\ UNCHANGED lastError)
         ELSE rpc' = [rpc EXCEPT ![r] = "reading"] /\ UNCHANGED lastError
    /\ UNCHANGED <<readExpired, fetched, taken, readBuffer, rctx, rguard, line, heard, readHappened>>

\* bufio reads all that has arrived, when it has nothing left
Fetch(r) ==
    /\ rpc[r] = "reading"
    /\ taken = fetched /\ fetched # sent
    /\ ~ closed /\ ~ readExpired
    /\ fetched' = sent
    /\ UNCHANGED <<lastError, readExpired, taken, readBuffer, rpc, rctx, rguard, line, heard, readHappened>>

\* ReadBytes collects pieces up to a newline
Take(r) ==
    /\ rpc[r] = "reading"
    /\ taken # fetched
    /\ line' = [line EXCEPT ![r] = Append(@, PieceAt(taken))]
    /\ taken' = Advance(taken)
    /\ rpc' = IF taken[2] + 1 = Pieces THEN [rpc EXCEPT ![r] = "line"] ELSE rpc
    /\ UNCHANGED <<lastError, readExpired, fetched, readBuffer, rctx, rguard, heard, readHappened>>

\* the socket fails under ReadBytes
ReadBroken(r) ==
    /\ rpc[r] = "reading"
    /\ taken = fetched
    /\ \/ readExpired /\ IF rctx[r] THEN Returns(r) /\ UNCHANGED lastError ELSE ReadFails(r, "expired")
       \/ closed /\ ReadFails(r, ClosedError)
       \/ eof /\ sent = fetched /\ Returns(r) /\ UNCHANGED lastError

\* mutant: what an interrupted read had collected is dropped
DropPartial(r) ==
    /\ ReadBroken(r)
    /\ line' = [line EXCEPT ![r] = <<>>]
    /\ UNCHANGED <<readExpired, fetched, taken, readBuffer, rctx, rguard, heard, readHappened>>

\* what an interrupted read had collected is kept for the next call
KeepPartial(r) ==
    /\ ReadBroken(r)
    /\ readBuffer' = readBuffer \o line[r]
    /\ line' = [line EXCEPT ![r] = <<>>]
    /\ UNCHANGED <<readExpired, fetched, taken, rctx, rguard, heard, readHappened>>

\* a whole line: the timer is told, which blocks while the channel is full;
\* unknown messages are skipped
ReadLine(r) ==
    /\ rpc[r] = "line" /\ ~ readHappened
    /\ readHappened' = TRUE
    /\ heard' = Append(heard, readBuffer \o line[r])
    /\ readBuffer' = <<>>
    /\ line' = [line EXCEPT ![r] = <<>>]
    /\ IF Kind[Len(heard')] = "unknown" THEN rpc' = [rpc EXCEPT ![r] = "check"] ELSE Returns(r)
    /\ UNCHANGED <<lastError, readExpired, fetched, taken, rctx, rguard>>

\* mutant: Read returns before its goroutine has ended
ReadReturnAtOnce(r) ==
    /\ rpc[r] = "return"
    /\ rpc' = [rpc EXCEPT ![r] = "idle"]
    /\ UNCHANGED <<lastError, readExpired, fetched, taken, readBuffer, rctx, rguard, line, heard, readHappened>>

ReadReturn(r) ==
    /\ rpc[r] = "return" /\ rguard[r] = "gone"
    /\ rpc' = [rpc EXCEPT ![r] = "idle"]
    /\ rctx' = [rctx EXCEPT ![r] = FALSE]
    /\ UNCHANGED <<lastError, readExpired, fetched, taken, readBuffer, rguard, line, heard, readHappened>>

Read(r) ==
    \/ ReadReset(r) \/ ReadCheck(r) \/ Fetch(r) \/ Take(r)
    \/ KeepPartial(r) \/ ReadLine(r) \/ ReadReturn(r)

readFrame == <<peerVars, closeVars, writeVars, timer, timeoutErr, writeHappened, resetter>>

--------------------------------------------------------------------------------
HoldsWriteSync(w) == wpc[w] # "idle"

\* A Write that has its turn
WriteStarts(w) ==
    /\ wpc[w] = "idle" /\ writes < MaxWrites
    /\ writes' = writes + 1
    /\ msg' = [msg EXCEPT ![w] = writes + 1]
    /\ wpc' = [wpc EXCEPT ![w] = "reset"]
    /\ \E ended \in BOOLEAN : wctx' = [wctx EXCEPT ![w] = ended]
    /\ UNCHANGED <<lastError, writeExpired, out, wguard, cut, writeHappened>>

\* mutant: a write does not wait for the one before
WriteLockNot(w) == WriteStarts(w)

WriteLock(w) ==
    /\ \A v \in Writer : ~ HoldsWriteSync(v)
    /\ WriteStarts(w)

\* The context of a Write also ends WRITE_TIMEOUT after it took writeSync.
WriteContextEnds(w) ==
    /\ HoldsWriteSync(w) /\ ~ wctx[w]
    /\ wctx' = [wctx EXCEPT ![w] = TRUE]
    /\ UNCHANGED <<lastError, writeExpired, out, wpc, wguard, msg, cut, writes, writeHappened>>

WriteFails(w, err) ==
    /\ wpc' = [wpc EXCEPT ![w] = "return"]
    /\ lastError' = err
    /\ cut' = cut \cup {msg[w]}

\* the deadline of an earlier call is cleared before the goroutine of this one starts
WriteReset(w) ==
    /\ wpc[w] = "reset"
    /\ IF closed
         THEN WriteFails(w, ClosedError) /\ UNCHANGED <<wguard, writeExpired>>
         ELSE /\ wpc' = [wpc EXCEPT ![w] = "writing"]
              /\ wguard' = [wguard EXCEPT ![w] = "waiting"]
              /\ writeExpired' = FALSE
              /\ UNCHANGED <<lastError, cut>>
    /\ UNCHANGED <<out, wctx, msg, writes, writeHappened>>

WriteGuard(w) ==
    /\ wguard[w] = "waiting"
    /\ \/ wctx[w] /\ writeExpired' = (writeExpired \/ ~ closed)
       \/ (wpc[w] # "writing" \/ closed) /\ UNCHANGED writeExpired
    /\ wguard' = [wguard EXCEPT ![w] = "gone"]
    /\ UNCHANGED <<lastError, out, wpc, wctx, msg, cut, writes, writeHappened>>

\* pieces of message m that the peer was sent
Written(m) == Cardinality({k \in 1 .. Len(out) : out[k][1] = m})

WritePiece(w) ==
    /\ wpc[w] = "writing" /\ ~ closed /\ ~ writeExpired
    /\ Written(msg[w]) < Pieces
    /\ out' = Append(out, <<msg[w], Written(msg[w]) + 1>>)
    /\ UNCHANGED <<lastError, writeExpired, wpc, wctx, wguard, msg, cut, writes, writeHappened>>

\* the socket fails under conn.Write
WriteBroken(w) ==
    /\ wpc[w] = "writing"
    /\ Written(msg[w]) < Pieces
    /\ \/ writeExpired /\ WriteFails(w, IF wctx[w] THEN lastError ELSE "expired")
       \/ closed /\ WriteFails(w, ClosedError)
    /\ UNCHANGED <<writeExpired, out, wctx, wguard, msg, writes, writeHappened>>

WriteDone(w) ==
    /\ wpc[w] = "writing" /\ ~ writeHappened
    /\ Written(msg[w]) = Pieces
    /\ writeHappened' = TRUE
    /\ wpc' = [wpc EXCEPT ![w] = "return"]
    /\ UNCHANGED <<lastError, writeExpired, out, wctx, wguard, msg, cut, writes>>

WriteReturn(w) ==
    /\ wpc[w] = "return" /\ wguard[w] = "gone"
    /\ wpc' = [wpc EXCEPT ![w] = "idle"]
    /\ wctx' = [wctx EXCEPT ![w] = FALSE]
    /\ UNCHANGED <<lastError, writeExpired, out, wguard, msg, cut, writes, writeHappened>>

Write(w) ==
    \/ WriteReset(w) \/ WriteBroken(w) \/ WriteDone(w) \/ WriteReturn(w)

writeFrame == <<peerVars, closeVars, readVars, timer, timeoutErr, readHappened, resetter>>

--------------------------------------------------------------------------------

\* One of the idle timers, at any time: clocks are not modelled.
IdleFires ==
    /\ timer = "running"
    /\ timeoutErr' = TRUE
    /\ timer' = "close"
    /\ UNCHANGED <<closeVars, readHappened, writeHappened>>

IdleCloses ==
    /\ timer = "close"
    /\ CloseConn("timer")
    /\ timer' = "gone"
    /\ UNCHANGED <<timeoutErr, readHappened, writeHappened>>

IdleResets ==
    /\ timer = "running"
    /\ \/ readHappened /\ readHappened' = FALSE /\ UNCHANGED writeHappened
       \/ writeHappened /\ writeHappened' = FALSE /\ UNCHANGED readHappened
    /\ UNCHANGED <<closeVars, timer, timeoutErr>>

IdleStops ==
    /\ timer = "running" /\ closed
    /\ timer' = "gone"
    /\ UNCHANGED <<closeVars, timeoutErr, readHappened, writeHappened>>

Served == IdleCloses \/ IdleResets \/ IdleStops

Timers == (IdleFires \/ Served) /\ UNCHANGED <<peerVars, lastError, readVars, writeVars, resetter>>

\* ResetIdleCloseTimers, which setDest calls for a cached connection
ResetIdle ==
    /\ \/ resetter = "idle" /\ resetter' = "read" /\ UNCHANGED <<readHappened, writeHappened>>
       \/ resetter = "read" /\ ~ readHappened /\ readHappened' = TRUE /\ resetter' = "write" /\ UNCHANGED writeHappened
       \/ resetter = "write" /\ ~ writeHappened /\ writeHappened' = TRUE /\ resetter' = "done" /\ UNCHANGED readHappened
    /\ UNCHANGED <<peerVars, closeVars, lastError, readVars, writeVars, timer, timeoutErr>>

--------------------------------------------------------------------------------
Peer == (PeerSends \/ PeerCloses) /\ UNCHANGED <<closeVars, lastError, readVars, writeVars, timerVars>>

ReadStep(r) == (ReadLock(r) \/ ReadContextEnds(r) \/ ReadGuard(r) \/ Read(r)) /\ UNCHANGED readFrame

WriteStep(w) ==
    /\ WriteLock(w) \/ WriteContextEnds(w) \/ WriteGuard(w) \/ WritePiece(w) \/ Write(w)
    /\ UNCHANGED writeFrame

Next ==
    \/ Peer \/ Close \/ Timers \/ ResetIdle
    \/ \E r \in Reader : ReadStep(r)
    \/ \E w \in Writer : WriteStep(w)

Spec == Init /\ [][Next]_vars

\* The goroutines in Read go on, those in Write do, and the timers are served;
\* WRITE_TIMEOUT passes.  Callers, contexts of a Read, Close, and a peer that
\* sends, closes or takes what is written may never come.
Fairness ==
    /\ WF_vars(Timers /\ Served)
    /\ WF_vars(\E r \in Reader : ReadStep(r) /\ (ReadGuard(r) \/ Read(r)))
    /\ WF_vars(\E w \in Writer : WriteStep(w) /\ (WriteGuard(w) \/ WriteContextEnds(w) \/ Write(w)))

FairSpec == Spec /\ Fairness

--------------------------------------------------------------------------------
Place == (0 .. Lines) \X (0 .. Pieces - 1)
Piece == (1 .. Lines) \X (1 .. Pieces)

\* Every variable keeps its type.
TypeOK ==
    /\ sent \in Place /\ fetched \in Place /\ taken \in Place
    /\ eof \in BOOLEAN /\ closed \in BOOLEAN /\ readExpired \in BOOLEAN /\ writeExpired \in BOOLEAN
    /\ timeoutErr \in BOOLEAN /\ readHappened \in BOOLEAN /\ writeHappened \in BOOLEAN
    /\ closedBy \in {"none", "owner", "timer"}
    /\ lastError \in {"none", "expired", "closed", "timeout"}
    /\ readBuffer \in Seq(Piece) /\ heard \in Seq(Seq(Piece))
    /\ out \in Seq((1 .. MaxWrites) \X (1 .. Pieces))
    /\ rpc \in [Reader -> {"idle", "reset", "check", "reading", "line", "return"}]
    /\ rctx \in [Reader -> BOOLEAN] /\ rguard \in [Reader -> {"waiting", "gone"}]
    /\ line \in [Reader -> Seq(Piece)]
    /\ wpc \in [Writer -> {"idle", "reset", "writing", "return"}]
    /\ wctx \in [Writer -> BOOLEAN] /\ wguard \in [Writer -> {"waiting", "gone"}]
    /\ writes \in 0 .. MaxWrites /\ msg \in [Writer -> 0 .. writes] /\ cut \subseteq 1 .. writes
    /\ timer \in {"running", "close", "gone"} /\ resetter \in {"idle", "read", "write", "done"}

\* The parser is given the peer's lines, each whole, once and in order, however
\* many calls of Read were cancelled half way through a line and whoever calls
\* next: "buffer for incomplete read lines" of conn.go.
LinesAreWhole == heard = [k \in 1 .. Len(heard) |-> Line(k)]

\* A call fails with an expired deadline only when its own context ended: the
\* deadline that cancels one call never reaches the next one.
OnlyOwnDeadline == lastError # "expired"

\* A call on a connection that the idle timer closed first reports the timeout
\* and not a closed socket.
IdleCloseIsNamed == closedBy = "timer" => lastError # "closed"

\* A call that fails names what made it fail.
ErrorsNameTheirCause == TypeOK /\ OnlyOwnDeadline /\ IdleCloseIsNamed

\* What the peer gets is whole messages, one after the other, except that a
\* message whose Write returned an error, or has not returned, may lack its
\* end: then the next message follows on the same line.
MessagesAreWhole ==
    \A k \in 1 .. Len(out) :
        IF out[k][2] > 1
          THEN k > 1 /\ out[k - 1] = <<out[k][1], out[k][2] - 1>>
          ELSE k > 1 => out[k - 1][2] = Pieces \/ out[k - 1][1] \in cut

\* After the timers have stopped nobody empties readHappened and writeHappened.
Wedged(full) == timer = "gone" /\ full

\* Cancelling its context or closing the connection ends a Read that holds
\* readSync, unless it is telling timers that have stopped.
CancelledReadReturns ==
    \A r \in Reader :
        HoldsReadSync(r) /\ (rctx[r] \/ closed) ~> rpc[r] = "idle" \/ (Wedged(readHappened) /\ rpc[r] = "line")

\* A Write that holds writeSync returns even when the peer stops reading, with
\* the same exception.
WriteReturns ==
    \A w \in Writer :
        HoldsWriteSync(w) ~> wpc[w] = "idle" \/ (Wedged(writeHappened) /\ Written(msg[w]) = Pieces)

\* Nobody holds the lock of one direction for ever.
CallsReturn == CancelledReadReturns /\ WriteReturns
================================================================================
