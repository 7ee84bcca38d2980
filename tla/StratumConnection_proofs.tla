------------------------ MODULE StratumConnection_proofs ------------------------
(***************************************************************************)
(* Proofs, for any text of the peer, any number of readers and writers and *)
(* any length of a line, that the parser gets whole lines in order, that   *)
(* the peer gets whole messages except where a Write failed, that a        *)
(* deadline reaches no other call than the one it cancels, and that a      *)
(* connection closed by its idle timer is reported as such.                *)
(***************************************************************************)
EXTENDS StratumConnection, SequenceTheorems, FiniteSetTheorems, TLAPS

--------------------------------------------------------------------------------
\* The inductive invariant

\* Place p does not come after place q.
UpTo(p, q) == p[1] < q[1] \/ (p[1] = q[1] /\ p[2] <= q[2])

\* ReadBytes has not passed bufio, nor bufio the peer, nor the peer its last line.
PlacesInOrder ==
    /\ UpTo(taken, fetched) /\ UpTo(fetched, sent)
    /\ sent[1] = Lines => sent[2] = 0

\* readSync and writeSync have one holder, and a cancellation goroutine only
\* lives while its call does.
OneHolder ==
    /\ \A q, r \in Reader : HoldsReadSync(q) /\ HoldsReadSync(r) => q = r
    /\ \A r \in Reader : rguard[r] = "waiting" => HoldsReadSync(r)
    /\ \A v, w \in Writer : HoldsWriteSync(v) /\ HoldsWriteSync(w) => v = w
    /\ \A w \in Writer : wguard[w] = "waiting" => HoldsWriteSync(w)

\* A call that has cleared the deadline finds it passed only for its own context.
DeadlineOfOwn ==
    /\ \A r \in Reader : rpc[r] \in {"check", "reading", "line"} /\ readExpired => rctx[r]
    /\ \A w \in Writer : wpc[w] = "writing" /\ writeExpired => wctx[w]

Collects(r) == rpc[r] \in {"reading", "line"}

\* What the interrupted calls and the one that reads have collected is the
\* text between the lines that were heard and the place ReadBytes is at.
TextIsKept ==
    /\ \A r \in Reader : ~ Collects(r) => line[r] = <<>>
    /\ (\A r \in Reader : ~ Collects(r)) =>
         readBuffer = Part(taken[1] + 1, taken[2]) /\ Len(heard) = taken[1]
    /\ \A r \in Reader : rpc[r] = "reading" =>
         readBuffer \o line[r] = Part(taken[1] + 1, taken[2]) /\ Len(heard) = taken[1]
    /\ \A r \in Reader : rpc[r] = "line" =>
         /\ readBuffer \o line[r] = Line(taken[1])
         /\ taken[2] = 0 /\ Len(heard) + 1 = taken[1]

\* Nothing was sent, or a whole message, or one whose Write failed.
MayFollow == out # <<>> => out[Len(out)][2] = Pieces \/ out[Len(out)][1] \in cut

\* The message of the call that writes is the latest one, and what was sent of
\* it are the last pieces of what was sent.
WriteInOrder ==
    /\ \A k \in 1 .. Len(out) : out[k][1] <= writes
    /\ \A w \in Writer : HoldsWriteSync(w) => msg[w] = writes /\ writes > 0
    /\ \A w \in Writer : wpc[w] = "reset" => Written(msg[w]) = 0
    /\ (\A w \in Writer : wpc[w] # "writing") => MayFollow
    /\ \A w \in Writer : wpc[w] = "writing" =>
         IF Written(msg[w]) = 0 THEN MayFollow
         ELSE out # <<>> /\ out[Len(out)] = <<msg[w], Written(msg[w])>>

\* The idle timer stores its error before it closes, and a closed socket is
\* reported only of one that is closed.
CloseHasCause ==
    /\ closed <=> closedBy # "none"
    /\ timer = "close" \/ closedBy = "timer" => timeoutErr
    /\ lastError = "closed" => closed

IInv ==
    /\ TypeOK
    /\ PlacesInOrder
    /\ OneHolder
    /\ DeadlineOfOwn /\ OnlyOwnDeadline
    /\ TextIsKept /\ LinesAreWhole
    /\ WriteInOrder /\ MessagesAreWhole
    /\ CloseHasCause /\ IdleCloseIsNamed

--------------------------------------------------------------------------------
\* Places, pieces and lines

LEMMA LinesNat == Lines \in Nat
BY KindAssumption DEF Lines

LEMMA PartGrows ==
  ASSUME NEW i, NEW j \in Nat
  PROVE  Part(i, j + 1) = Append(Part(i, j), <<i, j + 1>>)
BY DEF Part

LEMMA PartEmpty == \A i : Part(i, 0) = <<>>
BY DEF Part

LEMMA PartType ==
  ASSUME NEW i \in 1 .. Lines, NEW j \in 0 .. Pieces
  PROVE  Part(i, j) \in Seq(Piece)
BY PiecesAssumption DEF Part, Piece

LEMMA LinesGrow ==
  ASSUME NEW n \in Nat
  PROVE  Append([k \in 1 .. n |-> Line(k)], Line(n + 1)) = [k \in 1 .. n + 1 |-> Line(k)]
OBVIOUS

LEMMA ConcatAppend ==
  ASSUME NEW S, NEW s \in Seq(S), NEW t \in Seq(S), NEW e \in S
  PROVE  s \o Append(t, e) = Append(s \o t, e)
<1>1. /\ Append(t, e) = t \o <<e>> /\ Append(s \o t, e) = (s \o t) \o <<e>>
      /\ <<e>> \in Seq(S) /\ s \o t \in Seq(S)
  BY AppendIsConcat, ConcatProperties
<1> QED
  BY <1>1, ConcatAssociative

\* A piece that ReadBytes takes is one of the text, and the place after it does
\* not pass what bufio has.
LEMMA NextPiece ==
  ASSUME sent \in Place, fetched \in Place, taken \in Place, PlacesInOrder, taken # fetched
  PROVE  PieceAt(taken) \in Piece /\ Advance(taken) \in Place /\ UpTo(Advance(taken), fetched)
BY LinesNat, PiecesAssumption DEF Place, Piece, PieceAt, Advance, PlacesInOrder, UpTo

LEMMA NextSent ==
  ASSUME sent \in Place, fetched \in Place, taken \in Place, PlacesInOrder, sent[1] < Lines
  PROVE  /\ Advance(sent) \in Place /\ UpTo(fetched, Advance(sent))
         /\ Advance(sent)[1] = Lines => Advance(sent)[2] = 0
BY LinesNat, PiecesAssumption DEF Place, Advance, PlacesInOrder, UpTo

--------------------------------------------------------------------------------
\* What the steps of a call touch

LEMMA ReadTouches ==
  ASSUME NEW r \in Reader, ReadStep(r)
  PROVE  \/ Fetch(r) \/ Take(r) \/ KeepPartial(r) \/ ReadLine(r)
         \/ UNCHANGED <<fetched, taken, readBuffer, heard, line>>
BY DEF ReadStep, Read, ReadLock, ReadContextEnds, ReadGuard, ReadReset, ReadCheck, ReadReturn

LEMMA WriteTouches ==
  ASSUME NEW w \in Writer, WriteStep(w)
  PROVE  \/ WriteLock(w) \/ WritePiece(w) \/ WriteReset(w) \/ WriteBroken(w) \/ WriteDone(w)
         \/ UNCHANGED <<out, writes, msg, cut>>
BY DEF WriteStep, Write, WriteContextEnds, WriteGuard, WriteReturn

\* Written counts one piece more.
LEMMA WrittenGrows ==
  ASSUME NEW S, out \in Seq(S), NEW m, NEW c, <<m, c>> \in S, out' = Append(out, <<m, c>>)
  PROVE  Written(m)' = Written(m) + 1
<1> DEFINE Of(q) == {k \in 1 .. Len(q) : q[k][1] = m}
<1>0. Len(out) \in Nat /\ Len(out') = Len(out) + 1
  BY LenProperties, AppendProperties
<1>1. Of(out') = Of(out) \cup {Len(out) + 1} /\ Len(out) + 1 \notin Of(out)
  <2>1. \A k \in 1 .. Len(out) : out'[k] = out[k]
    BY AppendProperties
  <2>2. out'[Len(out) + 1] = <<m, c>>
    BY AppendProperties
  <2> QED
    BY <1>0, <2>1, <2>2
<1>2. IsFiniteSet(Of(out))
  <2>1. IsFiniteSet(1 .. Len(out))
    BY <1>0, FS_Interval
  <2> QED
    BY <2>1, FS_Subset
<1> QED
  BY <1>1, <1>2, FS_AddElement DEF Written

LEMMA WrittenNat ==
  ASSUME NEW S, out \in Seq(S), NEW m
  PROVE  Written(m) \in Nat
<1>1. IsFiniteSet(1 .. Len(out))
  BY LenProperties, FS_Interval
<1>2. IsFiniteSet({k \in 1 .. Len(out) : out[k][1] = m})
  BY <1>1, FS_Subset
<1> QED
  BY <1>2, FS_CardinalityType DEF Written

--------------------------------------------------------------------------------
\* Type correctness

SocketTypeOK ==
    /\ sent \in Place /\ fetched \in Place /\ taken \in Place
    /\ closedBy \in {"none", "owner", "timer"}
    /\ lastError \in {"none", "expired", "closed", "timeout"}
    /\ timer \in {"running", "close", "gone"} /\ resetter \in {"idle", "read", "write", "done"}

FlagTypeOK ==
    /\ eof \in BOOLEAN /\ closed \in BOOLEAN /\ readExpired \in BOOLEAN /\ writeExpired \in BOOLEAN
    /\ timeoutErr \in BOOLEAN /\ readHappened \in BOOLEAN /\ writeHappened \in BOOLEAN

ReaderTypeOK ==
    /\ rpc \in [Reader -> {"idle", "reset", "check", "reading", "line", "return"}]
    /\ rctx \in [Reader -> BOOLEAN] /\ rguard \in [Reader -> {"waiting", "gone"}]

TextTypeOK ==
    /\ readBuffer \in Seq(Piece) /\ heard \in Seq(Seq(Piece))
    /\ line \in [Reader -> Seq(Piece)]

WriterTypeOK ==
    /\ wpc \in [Writer -> {"idle", "reset", "writing", "return"}]
    /\ wctx \in [Writer -> BOOLEAN] /\ wguard \in [Writer -> {"waiting", "gone"}]

MessageTypeOK ==
    /\ out \in Seq((1 .. MaxWrites) \X (1 .. Pieces))
    /\ writes \in 0 .. MaxWrites /\ msg \in [Writer -> 0 .. writes] /\ cut \subseteq 1 .. writes

LEMMA TypeParts ==
  /\ TypeOK <=> SocketTypeOK /\ FlagTypeOK /\ ReaderTypeOK /\ TextTypeOK /\ WriterTypeOK /\ MessageTypeOK
  /\ TypeOK' <=> (SocketTypeOK /\ FlagTypeOK /\ ReaderTypeOK /\ TextTypeOK /\ WriterTypeOK /\ MessageTypeOK)'
BY DEF TypeOK, SocketTypeOK, FlagTypeOK, ReaderTypeOK, TextTypeOK, WriterTypeOK, MessageTypeOK

LEMMA SocketTypeStep ==
  ASSUME SocketTypeOK, PlacesInOrder, [Next]_vars
  PROVE  SocketTypeOK'
<1> USE NextSent, NextPiece DEF SocketTypeOK, ClosedError
<1>1. CASE Peer
  BY <1>1 DEF Peer, PeerSends, PeerCloses, closeVars, readVars, writeVars, timerVars
<1>2. CASE Close
  BY <1>2 DEF Close, CloseConn, peerVars, readVars, writeVars, timerVars
<1>3. CASE Timers
  BY <1>3 DEF Timers, Served, IdleFires, IdleCloses, IdleResets, IdleStops, CloseConn, closeVars,
      peerVars, readVars, writeVars
<1>4. CASE ResetIdle
  BY <1>4 DEF ResetIdle, peerVars, closeVars, readVars, writeVars
<1>5. ASSUME NEW r \in Reader, ReadStep(r) PROVE SocketTypeOK'
  BY <1>5 DEF ReadStep, Read, ReadLock, ReadContextEnds, ReadGuard, ReadReset, ReadFails, Returns, ReadCheck, Fetch, Take,
      KeepPartial, ReadBroken, ReadLine, ReadReturn, readFrame, peerVars, closeVars, writeVars
<1>6. ASSUME NEW w \in Writer, WriteStep(w) PROVE SocketTypeOK'
  BY <1>6 DEF WriteStep, Write, WriteLock, WriteStarts, WriteContextEnds, WriteGuard, WriteReset, WriteFails, WritePiece,
      WriteBroken, WriteDone, WriteReturn, writeFrame, peerVars, closeVars, readVars
<1>7. CASE UNCHANGED vars
  BY <1>7 DEF vars, peerVars, closeVars, readVars, writeVars, timerVars
<1> QED
  BY <1>1, <1>2, <1>3, <1>4, <1>5, <1>6, <1>7 DEF Next

LEMMA FlagTypeStep ==
  ASSUME FlagTypeOK, [Next]_vars
  PROVE  FlagTypeOK'
<1> USE DEF FlagTypeOK
<1>1. CASE Peer
  BY <1>1 DEF Peer, PeerSends, PeerCloses, closeVars, readVars, writeVars, timerVars
<1>2. CASE Close
  BY <1>2 DEF Close, CloseConn, peerVars, readVars, writeVars, timerVars
<1>3. CASE Timers
  BY <1>3 DEF Timers, Served, IdleFires, IdleCloses, IdleResets, IdleStops, CloseConn, closeVars,
      peerVars, readVars, writeVars
<1>4. CASE ResetIdle
  BY <1>4 DEF ResetIdle, peerVars, closeVars, readVars, writeVars
<1>5. ASSUME NEW r \in Reader, ReadStep(r) PROVE FlagTypeOK'
  BY <1>5 DEF ReadStep, Read, ReadLock, ReadContextEnds, ReadGuard, ReadReset, ReadFails, Returns, ReadCheck, Fetch, Take,
      KeepPartial, ReadBroken, ReadLine, ReadReturn, readFrame, peerVars, closeVars, writeVars
<1>6. ASSUME NEW w \in Writer, WriteStep(w) PROVE FlagTypeOK'
  BY <1>6 DEF WriteStep, Write, WriteLock, WriteStarts, WriteContextEnds, WriteGuard, WriteReset, WriteFails, WritePiece,
      WriteBroken, WriteDone, WriteReturn, writeFrame, peerVars, closeVars, readVars
<1>7. CASE UNCHANGED vars
  BY <1>7 DEF vars, peerVars, closeVars, readVars, writeVars, timerVars
<1> QED
  BY <1>1, <1>2, <1>3, <1>4, <1>5, <1>6, <1>7 DEF Next

LEMMA ReaderTypeStep ==
  ASSUME ReaderTypeOK, [Next]_vars
  PROVE  ReaderTypeOK'
<1> USE DEF ReaderTypeOK
<1>1. CASE Peer
  BY <1>1 DEF Peer, PeerSends, PeerCloses, closeVars, readVars, writeVars, timerVars
<1>2. CASE Close
  BY <1>2 DEF Close, CloseConn, peerVars, readVars, writeVars, timerVars
<1>3. CASE Timers
  BY <1>3 DEF Timers, Served, IdleFires, IdleCloses, IdleResets, IdleStops, CloseConn, closeVars,
      peerVars, readVars, writeVars
<1>4. CASE ResetIdle
  BY <1>4 DEF ResetIdle, peerVars, closeVars, readVars, writeVars
<1>5. ASSUME NEW r \in Reader, ReadStep(r) PROVE ReaderTypeOK'
  BY <1>5 DEF ReadStep, Read, ReadLock, ReadContextEnds, ReadGuard, ReadReset, ReadFails, Returns, ReadCheck, Fetch, Take,
      KeepPartial, ReadBroken, ReadLine, ReadReturn, readFrame, peerVars, closeVars, writeVars
<1>6. ASSUME NEW w \in Writer, WriteStep(w) PROVE ReaderTypeOK'
  BY <1>6 DEF WriteStep, Write, WriteLock, WriteStarts, WriteContextEnds, WriteGuard, WriteReset, WriteFails, WritePiece,
      WriteBroken, WriteDone, WriteReturn, writeFrame, peerVars, closeVars, readVars
<1>7. CASE UNCHANGED vars
  BY <1>7 DEF vars, peerVars, closeVars, readVars, writeVars, timerVars
<1> QED
  BY <1>1, <1>2, <1>3, <1>4, <1>5, <1>6, <1>7 DEF Next

LEMMA TextTypeStep ==
  ASSUME SocketTypeOK, TextTypeOK, PlacesInOrder, [Next]_vars
  PROVE  TextTypeOK'
<1> USE NextPiece DEF TextTypeOK, SocketTypeOK
<1>1. CASE Peer
  BY <1>1 DEF Peer, PeerSends, PeerCloses, closeVars, readVars, writeVars, timerVars
<1>2. CASE Close
  BY <1>2 DEF Close, CloseConn, peerVars, readVars, writeVars, timerVars
<1>3. CASE Timers
  BY <1>3 DEF Timers, Served, IdleFires, IdleCloses, IdleResets, IdleStops, CloseConn, closeVars,
      peerVars, readVars, writeVars
<1>4. CASE ResetIdle
  BY <1>4 DEF ResetIdle, peerVars, closeVars, readVars, writeVars
<1>5. ASSUME NEW r \in Reader, ReadStep(r) PROVE TextTypeOK'
  <2>1. CASE Take(r)
    BY <2>1, AppendProperties DEF Take
  <2>2. CASE KeepPartial(r)
    BY <2>2, ConcatProperties DEF KeepPartial
  <2>3. CASE ReadLine(r)
    <3>1. readBuffer \o line[r] \in Seq(Piece)
      BY ConcatProperties
    <3> QED
      BY <2>3, <3>1, AppendProperties DEF ReadLine
  <2>4. CASE Fetch(r) \/ UNCHANGED <<fetched, taken, readBuffer, heard, line>>
    BY <2>4 DEF Fetch
  <2> QED
    BY <1>5, <2>1, <2>2, <2>3, <2>4, ReadTouches
<1>6. ASSUME NEW w \in Writer, WriteStep(w) PROVE TextTypeOK'
  BY <1>6 DEF WriteStep, Write, WriteLock, WriteStarts, WriteContextEnds, WriteGuard, WriteReset, WriteFails, WritePiece,
      WriteBroken, WriteDone, WriteReturn, writeFrame, peerVars, closeVars, readVars
<1>7. CASE UNCHANGED vars
  BY <1>7 DEF vars, peerVars, closeVars, readVars, writeVars, timerVars
<1> QED
  BY <1>1, <1>2, <1>3, <1>4, <1>5, <1>6, <1>7 DEF Next

LEMMA WriterTypeStep ==
  ASSUME WriterTypeOK, [Next]_vars
  PROVE  WriterTypeOK'
<1> USE DEF WriterTypeOK
<1>1. CASE Peer
  BY <1>1 DEF Peer, PeerSends, PeerCloses, closeVars, readVars, writeVars, timerVars
<1>2. CASE Close
  BY <1>2 DEF Close, CloseConn, peerVars, readVars, writeVars, timerVars
<1>3. CASE Timers
  BY <1>3 DEF Timers, Served, IdleFires, IdleCloses, IdleResets, IdleStops, CloseConn, closeVars,
      peerVars, readVars, writeVars
<1>4. CASE ResetIdle
  BY <1>4 DEF ResetIdle, peerVars, closeVars, readVars, writeVars
<1>5. ASSUME NEW r \in Reader, ReadStep(r) PROVE WriterTypeOK'
  BY <1>5 DEF ReadStep, Read, ReadLock, ReadContextEnds, ReadGuard, ReadReset, ReadFails, Returns, ReadCheck, Fetch, Take,
      KeepPartial, ReadBroken, ReadLine, ReadReturn, readFrame, peerVars, closeVars, writeVars
<1>6. ASSUME NEW w \in Writer, WriteStep(w) PROVE WriterTypeOK'
  BY <1>6 DEF WriteStep, Write, WriteLock, WriteStarts, WriteContextEnds, WriteGuard, WriteReset, WriteFails, WritePiece,
      WriteBroken, WriteDone, WriteReturn, writeFrame, peerVars, closeVars, readVars
<1>7. CASE UNCHANGED vars
  BY <1>7 DEF vars, peerVars, closeVars, readVars, writeVars, timerVars
<1> QED
  BY <1>1, <1>2, <1>3, <1>4, <1>5, <1>6, <1>7 DEF Next

LEMMA MessageTypeStep ==
  ASSUME WriterTypeOK, MessageTypeOK, WriteInOrder, [Next]_vars
  PROVE  MessageTypeOK'
<1> USE MaxWritesAssumption, PiecesAssumption DEF MessageTypeOK, WriterTypeOK
<1>1. CASE Peer
  BY <1>1 DEF Peer, PeerSends, PeerCloses, closeVars, readVars, writeVars, timerVars
<1>2. CASE Close
  BY <1>2 DEF Close, CloseConn, peerVars, readVars, writeVars, timerVars
<1>3. CASE Timers
  BY <1>3 DEF Timers, Served, IdleFires, IdleCloses, IdleResets, IdleStops, CloseConn, closeVars,
      peerVars, readVars, writeVars
<1>4. CASE ResetIdle
  BY <1>4 DEF ResetIdle, peerVars, closeVars, readVars, writeVars
<1>5. ASSUME NEW r \in Reader, ReadStep(r) PROVE MessageTypeOK'
  BY <1>5 DEF ReadStep, Read, ReadLock, ReadContextEnds, ReadGuard, ReadReset, ReadFails, Returns, ReadCheck, Fetch, Take,
      KeepPartial, ReadBroken, ReadLine, ReadReturn, readFrame, peerVars, closeVars, writeVars
<1>6. ASSUME NEW w \in Writer, WriteStep(w) PROVE MessageTypeOK'
  <2>1. CASE WriteLock(w)
    BY <2>1 DEF WriteLock, WriteStarts
  <2>2. CASE WritePiece(w)
    <3>1. Written(msg[w]) \in Nat
      BY WrittenNat
    <3>2. <<msg[w], Written(msg[w]) + 1>> \in (1 .. MaxWrites) \X (1 .. Pieces)
      <4>1. msg[w] \in 1 .. writes /\ Written(msg[w]) < Pieces
        BY <2>2 DEF WritePiece, WriteInOrder, HoldsWriteSync
      <4> QED
        BY <3>1, <4>1
    <3> QED
      BY <2>2, <3>2, AppendProperties DEF WritePiece
  <2>3. CASE WriteReset(w) \/ WriteBroken(w)
    <3>1. msg[w] \in 1 .. writes
      BY <2>3 DEF WriteReset, WriteBroken, WriteInOrder, HoldsWriteSync
    <3>2. UNCHANGED <<out, writes, msg>> /\ cut' \in {cut, cut \cup {msg[w]}}
      BY <2>3 DEF WriteReset, WriteBroken, WriteFails
    <3> QED
      BY <3>1, <3>2
  <2>4. CASE WriteDone(w) \/ UNCHANGED <<out, writes, msg, cut>>
    BY <2>4 DEF WriteDone
  <2> QED
    BY <1>6, <2>1, <2>2, <2>3, <2>4, WriteTouches
<1>7. CASE UNCHANGED vars
  BY <1>7 DEF vars, peerVars, closeVars, readVars, writeVars, timerVars
<1> QED
  BY <1>1, <1>2, <1>3, <1>4, <1>5, <1>6, <1>7 DEF Next

--------------------------------------------------------------------------------
\* Order, locks, deadlines and the end

\* ReadBytes, bufio and the peer move on one after the other.
LEMMA OrderStep ==
  ASSUME SocketTypeOK, PlacesInOrder, [Next]_vars
  PROVE  PlacesInOrder'
<1> USE NextSent, NextPiece DEF PlacesInOrder, SocketTypeOK
<1>1. CASE Peer
  BY <1>1 DEF Peer, PeerSends, PeerCloses, closeVars, readVars, writeVars, timerVars
<1>2. CASE Close
  BY <1>2 DEF Close, CloseConn, peerVars, readVars, writeVars, timerVars
<1>3. CASE Timers
  BY <1>3 DEF Timers, Served, IdleFires, IdleCloses, IdleResets, IdleStops, CloseConn, closeVars,
      peerVars, readVars, writeVars
<1>4. CASE ResetIdle
  BY <1>4 DEF ResetIdle, peerVars, closeVars, readVars, writeVars
<1>5. ASSUME NEW r \in Reader, ReadStep(r) PROVE PlacesInOrder'
  <2>1. CASE Take(r)
    BY <1>5, <2>1 DEF Take, ReadStep, readFrame, peerVars
  <2>2. CASE Fetch(r)
    BY <1>5, <2>2, LinesNat, PiecesAssumption DEF Fetch, ReadStep, readFrame, peerVars, UpTo, Place
  <2>3. CASE UNCHANGED <<fetched, taken>>
    BY <1>5, <2>3 DEF ReadStep, readFrame, peerVars
  <2> QED
    BY <1>5, <2>1, <2>2, <2>3, ReadTouches DEF KeepPartial, ReadLine
<1>6. ASSUME NEW w \in Writer, WriteStep(w) PROVE PlacesInOrder'
  BY <1>6 DEF WriteStep, Write, WriteLock, WriteStarts, WriteContextEnds, WriteGuard, WriteReset, WriteFails, WritePiece,
      WriteBroken, WriteDone, WriteReturn, writeFrame, peerVars, closeVars, readVars
<1>7. CASE UNCHANGED vars
  BY <1>7 DEF vars, peerVars, closeVars, readVars, writeVars, timerVars
<1> QED
  BY <1>1, <1>2, <1>3, <1>4, <1>5, <1>6, <1>7 DEF Next

\* A lock is taken when nobody holds it, and kept until the goroutine is gone.
LEMMA HolderStep ==
  ASSUME ReaderTypeOK, WriterTypeOK, OneHolder, [Next]_vars
  PROVE  OneHolder'
<1> USE DEF OneHolder, HoldsReadSync, HoldsWriteSync, ReaderTypeOK, WriterTypeOK
<1>1. CASE Peer
  BY <1>1 DEF Peer, PeerSends, PeerCloses, closeVars, readVars, writeVars, timerVars
<1>2. CASE Close
  BY <1>2 DEF Close, CloseConn, peerVars, readVars, writeVars, timerVars
<1>3. CASE Timers
  BY <1>3 DEF Timers, Served, IdleFires, IdleCloses, IdleResets, IdleStops, CloseConn, closeVars,
      peerVars, readVars, writeVars
<1>4. CASE ResetIdle
  BY <1>4 DEF ResetIdle, peerVars, closeVars, readVars, writeVars
<1>5. ASSUME NEW r \in Reader, ReadStep(r) PROVE OneHolder'
  BY <1>5 DEF ReadStep, Read, ReadLock, ReadContextEnds, ReadGuard, ReadReset, ReadFails, Returns, ReadCheck, Fetch, Take,
      KeepPartial, ReadBroken, ReadLine, ReadReturn, readFrame, peerVars, closeVars, writeVars
<1>6. ASSUME NEW w \in Writer, WriteStep(w) PROVE OneHolder'
  BY <1>6 DEF WriteStep, Write, WriteLock, WriteStarts, WriteContextEnds, WriteGuard, WriteReset, WriteFails, WritePiece,
      WriteBroken, WriteDone, WriteReturn, writeFrame, peerVars, closeVars, readVars
<1>7. CASE UNCHANGED vars
  BY <1>7 DEF vars, peerVars, closeVars, readVars, writeVars, timerVars
<1> QED
  BY <1>1, <1>2, <1>3, <1>4, <1>5, <1>6, <1>7 DEF Next

\* Only the goroutine of the call that holds the lock moves the deadline.
LEMMA DeadlineStep ==
  ASSUME TypeOK, OneHolder, DeadlineOfOwn, [Next]_vars
  PROVE  DeadlineOfOwn'
<1> USE TypeParts DEF DeadlineOfOwn, OneHolder, HoldsReadSync, HoldsWriteSync, ReaderTypeOK, WriterTypeOK
<1>1. CASE Peer
  BY <1>1 DEF Peer, PeerSends, PeerCloses, closeVars, readVars, writeVars, timerVars
<1>2. CASE Close
  BY <1>2 DEF Close, CloseConn, peerVars, readVars, writeVars, timerVars
<1>3. CASE Timers
  BY <1>3 DEF Timers, Served, IdleFires, IdleCloses, IdleResets, IdleStops, CloseConn, closeVars,
      peerVars, readVars, writeVars
<1>4. CASE ResetIdle
  BY <1>4 DEF ResetIdle, peerVars, closeVars, readVars, writeVars
<1>5. ASSUME NEW r \in Reader, ReadStep(r) PROVE DeadlineOfOwn'
  BY <1>5 DEF ReadStep, Read, ReadLock, ReadContextEnds, ReadGuard, ReadReset, ReadFails, Returns, ReadCheck, Fetch, Take,
      KeepPartial, ReadBroken, ReadLine, ReadReturn, readFrame, peerVars, closeVars, writeVars
<1>6. ASSUME NEW w \in Writer, WriteStep(w) PROVE DeadlineOfOwn'
  BY <1>6 DEF WriteStep, Write, WriteLock, WriteStarts, WriteContextEnds, WriteGuard, WriteReset, WriteFails, WritePiece,
      WriteBroken, WriteDone, WriteReturn, writeFrame, peerVars, closeVars, readVars
<1>7. CASE UNCHANGED vars
  BY <1>7 DEF vars, peerVars, closeVars, readVars, writeVars, timerVars
<1> QED
  BY <1>1, <1>2, <1>3, <1>4, <1>5, <1>6, <1>7 DEF Next

\* The error of a deadline that passed for the caller's own context is not named.
LEMMA ErrorStep ==
  ASSUME DeadlineOfOwn, OnlyOwnDeadline, [Next]_vars
  PROVE  OnlyOwnDeadline'
<1> USE DEF DeadlineOfOwn, OnlyOwnDeadline, ClosedError
<1>1. CASE Peer
  BY <1>1 DEF Peer, PeerSends, PeerCloses, closeVars, readVars, writeVars, timerVars
<1>2. CASE Close
  BY <1>2 DEF Close, CloseConn, peerVars, readVars, writeVars, timerVars
<1>3. CASE Timers
  BY <1>3 DEF Timers, Served, IdleFires, IdleCloses, IdleResets, IdleStops, CloseConn, closeVars,
      peerVars, readVars, writeVars
<1>4. CASE ResetIdle
  BY <1>4 DEF ResetIdle, peerVars, closeVars, readVars, writeVars
<1>5. ASSUME NEW r \in Reader, ReadStep(r) PROVE OnlyOwnDeadline'
  BY <1>5 DEF ReadStep, Read, ReadLock, ReadContextEnds, ReadGuard, ReadReset, ReadFails, Returns, ReadCheck, Fetch, Take,
      KeepPartial, ReadBroken, ReadLine, ReadReturn, readFrame, peerVars, closeVars, writeVars
<1>6. ASSUME NEW w \in Writer, WriteStep(w) PROVE OnlyOwnDeadline'
  BY <1>6 DEF WriteStep, Write, WriteLock, WriteStarts, WriteContextEnds, WriteGuard, WriteReset, WriteFails, WritePiece,
      WriteBroken, WriteDone, WriteReturn, writeFrame, peerVars, closeVars, readVars
<1>7. CASE UNCHANGED vars
  BY <1>7 DEF vars, peerVars, closeVars, readVars, writeVars, timerVars
<1> QED
  BY <1>1, <1>2, <1>3, <1>4, <1>5, <1>6, <1>7 DEF Next

\* The timer stores its error first, and maybeTimeoutError looks for it.
LEMMA CloseStep ==
  ASSUME FlagTypeOK, SocketTypeOK, CloseHasCause, IdleCloseIsNamed, [Next]_vars
  PROVE  (CloseHasCause /\ IdleCloseIsNamed)'
<1> USE DEF CloseHasCause, IdleCloseIsNamed, ClosedError, FlagTypeOK, SocketTypeOK
<1>1. CASE Peer
  BY <1>1 DEF Peer, PeerSends, PeerCloses, closeVars, readVars, writeVars, timerVars
<1>2. CASE Close
  BY <1>2 DEF Close, CloseConn, peerVars, readVars, writeVars, timerVars
<1>3. CASE Timers
  BY <1>3 DEF Timers, Served, IdleFires, IdleCloses, IdleResets, IdleStops, CloseConn, closeVars,
      peerVars, readVars, writeVars
<1>4. CASE ResetIdle
  BY <1>4 DEF ResetIdle, peerVars, closeVars, readVars, writeVars
<1>5. ASSUME NEW r \in Reader, ReadStep(r) PROVE (CloseHasCause /\ IdleCloseIsNamed)'
  BY <1>5 DEF ReadStep, Read, ReadLock, ReadContextEnds, ReadGuard, ReadReset, ReadFails, Returns, ReadCheck, Fetch, Take,
      KeepPartial, ReadBroken, ReadLine, ReadReturn, readFrame, peerVars, closeVars, writeVars
<1>6. ASSUME NEW w \in Writer, WriteStep(w) PROVE (CloseHasCause /\ IdleCloseIsNamed)'
  BY <1>6 DEF WriteStep, Write, WriteLock, WriteStarts, WriteContextEnds, WriteGuard, WriteReset, WriteFails, WritePiece,
      WriteBroken, WriteDone, WriteReturn, writeFrame, peerVars, closeVars, readVars
<1>7. CASE UNCHANGED vars
  BY <1>7 DEF vars, peerVars, closeVars, readVars, writeVars, timerVars
<1> QED
  BY <1>1, <1>2, <1>3, <1>4, <1>5, <1>6, <1>7 DEF Next

--------------------------------------------------------------------------------
\* The text

\* Whoever reads next goes on where the call before it was interrupted.
LEMMA TextStep ==
  ASSUME TypeOK, PlacesInOrder, OneHolder, TextIsKept, LinesAreWhole, [Next]_vars
  PROVE  (TextIsKept /\ LinesAreWhole)'
<1>1. CASE Peer
  BY <1>1 DEF TextIsKept, LinesAreWhole, Collects, Peer, PeerSends, PeerCloses, closeVars, readVars, writeVars, timerVars
<1>2. CASE Close
  BY <1>2 DEF TextIsKept, LinesAreWhole, Collects, Close, CloseConn, peerVars, readVars, writeVars, timerVars
<1>3. CASE Timers
  BY <1>3 DEF TextIsKept, LinesAreWhole, Collects, Timers, Served, IdleFires, IdleCloses, IdleResets, IdleStops, CloseConn, closeVars,
      peerVars, readVars, writeVars
<1>4. CASE ResetIdle
  BY <1>4 DEF TextIsKept, LinesAreWhole, Collects, ResetIdle, peerVars, closeVars, readVars, writeVars
<1>5. ASSUME NEW r \in Reader, ReadStep(r) PROVE (TextIsKept /\ LinesAreWhole)'
  <2>1. SocketTypeOK /\ ReaderTypeOK /\ TextTypeOK
    BY TypeParts
  <2>2. \A q \in Reader : q # r /\ HoldsReadSync(r) => ~ Collects(q) /\ rpc[q] = "idle"
    BY DEF OneHolder, HoldsReadSync, Collects
  <2>3. taken[1] \in Nat /\ taken[2] \in Nat /\ taken = <<taken[1], taken[2]>> /\ Pieces \in Nat
    BY <2>1, LinesNat, PiecesAssumption DEF SocketTypeOK, Place
  <2>4. readBuffer \o line[r] \in Seq(Piece) /\ readBuffer \o <<>> = readBuffer
    BY <2>1, ConcatProperties, ConcatEmptySeq DEF TextTypeOK
  <2>5. CASE Take(r)
    <3>1. rpc[r] = "reading" /\ HoldsReadSync(r)
      BY <2>5 DEF Take, HoldsReadSync
    <3>0. \A q \in Reader : q # r => line'[q] = line[q]
      BY <2>1, <2>5 DEF Take, TextTypeOK
    <3>2. readBuffer \o line[r] = Part(taken[1] + 1, taken[2]) /\ Len(heard) = taken[1]
      BY <3>1 DEF TextIsKept
    <3>3. readBuffer' = readBuffer /\ heard' = heard /\ line'[r] = Append(line[r], PieceAt(taken))
      BY <2>1, <2>5 DEF Take, TextTypeOK
    <3>4. readBuffer \o Append(line[r], PieceAt(taken)) = Append(readBuffer \o line[r], PieceAt(taken))
      <4>1. PieceAt(taken) \in Piece
        BY <1>5, <2>1, <2>5, NextPiece DEF Take, SocketTypeOK
      <4> QED
        BY <2>1, <4>1, ConcatAppend DEF TextTypeOK
    <3>5. readBuffer' \o line'[r] = Part(taken[1] + 1, taken[2] + 1)
      BY <2>3, <3>2, <3>3, <3>4, PartGrows DEF PieceAt
    <3>6. CASE taken[2] + 1 = Pieces
      <4>1. taken' = <<taken[1] + 1, 0>> /\ rpc' = [rpc EXCEPT ![r] = "line"]
        BY <2>5, <3>6 DEF Take, Advance
      <4> QED
        <5>1. rpc'[r] = "line" /\ \A q \in Reader : q # r => rpc'[q] = "idle" /\ line'[q] = <<>>
          BY <2>1, <2>2, <3>0, <3>1, <4>1 DEF ReaderTypeOK, TextIsKept
        <5>2. readBuffer' \o line'[r] = Line(taken'[1]) /\ taken'[2] = 0 /\ Len(heard') + 1 = taken'[1]
          BY <2>3, <3>2, <3>3, <3>5, <3>6, <4>1 DEF Line
        <5> QED
          BY <3>3, <5>1, <5>2 DEF TextIsKept, LinesAreWhole, Collects
    <3>7. CASE taken[2] + 1 # Pieces
      <4>1. taken' = <<taken[1], taken[2] + 1>> /\ rpc' = rpc
        BY <2>5, <3>7 DEF Take, Advance
      <4> QED
        <5>1. rpc'[r] = "reading" /\ \A q \in Reader : q # r => rpc'[q] = "idle" /\ line'[q] = <<>>
          BY <2>2, <3>0, <3>1, <4>1 DEF TextIsKept
        <5>2. readBuffer' \o line'[r] = Part(taken'[1] + 1, taken'[2]) /\ Len(heard') = taken'[1]
          BY <2>3, <3>2, <3>3, <3>5, <4>1
        <5> QED
          BY <3>3, <5>1, <5>2 DEF TextIsKept, LinesAreWhole, Collects
    <3> QED
      BY <3>6, <3>7
  <2>6. CASE KeepPartial(r)
    <3>1. rpc[r] = "reading" /\ HoldsReadSync(r) /\ rpc' = [rpc EXCEPT ![r] = "return"]
      BY <2>6 DEF KeepPartial, ReadBroken, ReadFails, Returns, HoldsReadSync
    <3>2. UNCHANGED <<taken, heard>> /\ readBuffer' = readBuffer \o line[r] /\ line' = [line EXCEPT ![r] = <<>>]
      BY <2>6 DEF KeepPartial
    <3>3. readBuffer' = Part(taken[1] + 1, taken[2]) /\ Len(heard) = taken[1]
      BY <3>1, <3>2 DEF TextIsKept
    <3> QED
      BY <2>1, <2>2, <3>1, <3>2, <3>3 DEF TextIsKept, LinesAreWhole, Collects, ReaderTypeOK, TextTypeOK
  <2>7. CASE ReadLine(r)
    <3>1. rpc[r] = "line" /\ HoldsReadSync(r)
      BY <2>7 DEF ReadLine, HoldsReadSync
    <3>2. \A q \in Reader : rpc'[q] \notin {"reading", "line"}
      BY <2>1, <2>2, <2>7, <3>1 DEF ReadLine, Returns, ReaderTypeOK, Collects
    <3>3. /\ readBuffer' = <<>> /\ line' = [line EXCEPT ![r] = <<>>]
          /\ taken' = taken /\ heard' = Append(heard, readBuffer \o line[r])
      BY <2>7 DEF ReadLine
    <3>4. readBuffer \o line[r] = Line(taken[1]) /\ taken[2] = 0 /\ Len(heard) + 1 = taken[1]
      BY <3>1 DEF TextIsKept
    <3>5. Len(heard') = taken[1] /\ Len(heard) \in Nat
      BY <2>1, <2>4, <3>3, <3>4, AppendProperties, LenProperties DEF TextTypeOK
    <3>6. heard' = [k \in 1 .. Len(heard') |-> Line(k)]
      BY <3>3, <3>4, <3>5, LinesGrow DEF LinesAreWhole
    <3>7. readBuffer' = Part(taken'[1] + 1, taken'[2])
      BY <3>3, <3>4, PartEmpty
    <3> QED
      BY <2>1, <2>2, <3>1, <3>2, <3>3, <3>5, <3>6, <3>7 DEF TextIsKept, LinesAreWhole, Collects, TextTypeOK
  <2>8. CASE ReadCheck(r)
    <3>1. rpc[r] = "check" /\ HoldsReadSync(r) /\ line[r] = <<>> /\ ~ Collects(r)
      BY <2>8 DEF ReadCheck, HoldsReadSync, TextIsKept, Collects
    <3>2. readBuffer = Part(taken[1] + 1, taken[2]) /\ Len(heard) = taken[1]
      BY <2>2, <3>1 DEF TextIsKept
    <3>3. UNCHANGED <<taken, readBuffer, heard, line>>
      BY <2>8 DEF ReadCheck
    <3>4. \A q \in Reader : rpc'[q] # "line" /\ (q # r => rpc'[q] = "idle")
      BY <2>1, <2>2, <2>8, <3>1 DEF ReadCheck, Returns, ReaderTypeOK
    <3>5. \A q \in Reader : line'[q] = <<>>
      BY <2>2, <3>1, <3>3 DEF TextIsKept
    <3>6. \A q \in Reader : readBuffer' \o line'[q] = readBuffer
      BY <2>4, <3>3, <3>5
    <3> QED
      BY <3>2, <3>3, <3>4, <3>5, <3>6 DEF TextIsKept, LinesAreWhole, Collects
  <2>9. CASE ReadLock(r) \/ ReadContextEnds(r) \/ ReadGuard(r) \/ ReadReset(r) \/ Fetch(r) \/ ReadReturn(r)
    <3>1. UNCHANGED <<taken, readBuffer, heard, line>>
      BY <2>9 DEF ReadLock, ReadContextEnds, ReadGuard, ReadReset, Fetch, ReadReturn
    <3>2. \A q \in Reader : rpc'[q] = rpc[q] \/ (~ Collects(q) /\ rpc'[q] \notin {"reading", "line"})
      BY <2>1, <2>9 DEF ReadLock, ReadContextEnds, ReadGuard, ReadReset, ReadFails, Returns, Fetch, ReadReturn,
         ReaderTypeOK, HoldsReadSync, Collects
    <3> QED
      BY <3>1, <3>2 DEF TextIsKept, LinesAreWhole, Collects
  <2> QED
    BY <1>5, <2>5, <2>6, <2>7, <2>8, <2>9 DEF ReadStep, Read
<1>6. ASSUME NEW w \in Writer, WriteStep(w) PROVE (TextIsKept /\ LinesAreWhole)'
  BY <1>6 DEF TextIsKept, LinesAreWhole, Collects, WriteStep, Write, WriteLock, WriteStarts, WriteContextEnds, WriteGuard, WriteReset, WriteFails, WritePiece,
      WriteBroken, WriteDone, WriteReturn, writeFrame, peerVars, closeVars, readVars
<1>7. CASE UNCHANGED vars
  BY <1>7 DEF TextIsKept, LinesAreWhole, Collects, vars, peerVars, closeVars, readVars, writeVars, timerVars
<1> QED
  BY <1>1, <1>2, <1>3, <1>4, <1>5, <1>6, <1>7 DEF Next

--------------------------------------------------------------------------------
\* The messages

\* A message follows one that was sent whole or whose Write failed.
LEMMA MessageStep ==
  ASSUME TypeOK, OneHolder, WriteInOrder, MessagesAreWhole, [Next]_vars
  PROVE  (WriteInOrder /\ MessagesAreWhole)'
<1>1. CASE Peer
  BY <1>1 DEF WriteInOrder, MayFollow, MessagesAreWhole, HoldsWriteSync, Written, Peer, PeerSends, PeerCloses, closeVars, readVars, writeVars, timerVars
<1>2. CASE Close
  BY <1>2 DEF WriteInOrder, MayFollow, MessagesAreWhole, HoldsWriteSync, Written, Close, CloseConn, peerVars, readVars, writeVars, timerVars
<1>3. CASE Timers
  BY <1>3 DEF WriteInOrder, MayFollow, MessagesAreWhole, HoldsWriteSync, Written, Timers, Served, IdleFires, IdleCloses, IdleResets, IdleStops, CloseConn, closeVars,
      peerVars, readVars, writeVars
<1>4. CASE ResetIdle
  BY <1>4 DEF WriteInOrder, MayFollow, MessagesAreWhole, HoldsWriteSync, Written, ResetIdle, peerVars, closeVars, readVars, writeVars
<1>5. ASSUME NEW r \in Reader, ReadStep(r) PROVE (WriteInOrder /\ MessagesAreWhole)'
  BY <1>5 DEF WriteInOrder, MayFollow, MessagesAreWhole, HoldsWriteSync, Written, ReadStep, Read, ReadLock, ReadContextEnds, ReadGuard, ReadReset, ReadFails, Returns, ReadCheck, Fetch, Take,
      KeepPartial, ReadBroken, ReadLine, ReadReturn, readFrame, peerVars, closeVars, writeVars
<1>6. ASSUME NEW w \in Writer, WriteStep(w) PROVE (WriteInOrder /\ MessagesAreWhole)'
  <2>1. WriterTypeOK /\ MessageTypeOK
    BY TypeParts
  <2>2. \A v \in Writer : v # w /\ HoldsWriteSync(w) => wpc[v] = "idle"
    BY DEF OneHolder, HoldsWriteSync
  <2>3. writes \in Nat /\ Len(out) \in Nat
    BY <2>1, LenProperties, MaxWritesAssumption DEF MessageTypeOK
  <2>4. CASE WriteLock(w)
    <3>1. \A v \in Writer : wpc[v] = "idle"
      BY <2>4 DEF WriteLock, HoldsWriteSync
    <3>2. /\ UNCHANGED <<out, cut>> /\ writes' = writes + 1
          /\ msg' = [msg EXCEPT ![w] = writes + 1] /\ wpc' = [wpc EXCEPT ![w] = "reset"]
      BY <2>4 DEF WriteLock, WriteStarts
    <3>3. \A v \in Writer : v # w => wpc'[v] = "idle"
      BY <2>1, <3>1, <3>2
    <3>4. Written(writes + 1) = 0
      <4>1. {k \in 1 .. Len(out) : out[k][1] = writes + 1} = {}
        BY <2>1, <2>3 DEF WriteInOrder, MessageTypeOK
      <4> QED
        BY <4>1, FS_EmptySet DEF Written
    <3>5. Written(msg[w])' = 0
      BY <2>1, <3>2, <3>4 DEF Written, MessageTypeOK
    <3>6. MayFollow'
      BY <3>1, <3>2 DEF WriteInOrder, MayFollow
    <3>7. msg'[w] = writes' /\ writes' > 0 /\ wpc'[w] = "reset"
      BY <2>1, <2>3, <3>2 DEF MessageTypeOK, WriterTypeOK
    <3>8. \A k \in 1 .. Len(out') : out'[k][1] <= writes'
      BY <2>1, <2>3, <3>2 DEF WriteInOrder, MessageTypeOK
    <3> QED
      BY <3>2, <3>3, <3>5, <3>6, <3>7, <3>8 DEF WriteInOrder, MessagesAreWhole, HoldsWriteSync
  <2>5. CASE WriteReset(w)
    <3>1. wpc[w] = "reset" /\ HoldsWriteSync(w) /\ Written(msg[w]) = 0
      BY <2>5 DEF WriteReset, HoldsWriteSync, WriteInOrder
    <3>2. UNCHANGED <<out, writes, msg>> /\ cut \subseteq cut'
      BY <2>5 DEF WriteReset, WriteFails
    <3>3. wpc'[w] \in {"writing", "return"} /\ \A v \in Writer : v # w => wpc'[v] = "idle"
      BY <2>1, <2>2, <2>5, <3>1 DEF WriteReset, WriteFails, WriterTypeOK
    <3>4. MayFollow'
      BY <2>2, <3>1, <3>2 DEF WriteInOrder, MayFollow
    <3>5. Written(msg[w])' = 0
      BY <3>1, <3>2 DEF Written
    <3> QED
      BY <3>1, <3>2, <3>3, <3>4, <3>5 DEF WriteInOrder, MessagesAreWhole, HoldsWriteSync
  <2>6. CASE WritePiece(w)
    <3>1. PICK m \in 1 .. writes : m = msg[w]
      BY <2>3, <2>6 DEF WritePiece, WriteInOrder, HoldsWriteSync
    <3>2. PICK c \in 0 .. Pieces - 1 : c = Written(m)
      <4>1. Written(m) \in Nat
        BY <2>1, WrittenNat DEF MessageTypeOK
      <4> QED
        BY <2>6, <3>1, <4>1, PiecesAssumption DEF WritePiece
    <3>3. /\ wpc[w] = "writing" /\ HoldsWriteSync(w) /\ m = writes
          /\ UNCHANGED <<wpc, writes, msg, cut>> /\ out' = Append(out, <<m, c + 1>>)
      BY <2>6, <3>1, <3>2 DEF WritePiece, HoldsWriteSync, WriteInOrder
    <3>4. <<m, c + 1>> \in (1 .. MaxWrites) \X (1 .. Pieces)
      BY <2>1, <2>3, <3>1, <3>2, MaxWritesAssumption, PiecesAssumption DEF MessageTypeOK
    <3>5. /\ Len(out') = Len(out) + 1 /\ out'[Len(out) + 1] = <<m, c + 1>>
          /\ \A k \in 1 .. Len(out) : out'[k] = out[k]
      BY <2>1, <3>3, <3>4, AppendProperties DEF MessageTypeOK
    <3>6. Written(m)' = c + 1
      BY <2>1, <3>2, <3>3, <3>4, WrittenGrows DEF MessageTypeOK
    <3>7. IF c = 0 THEN MayFollow ELSE Len(out) > 0 /\ out[Len(out)] = <<m, c>>
      BY <2>1, <2>3, <3>1, <3>2, <3>3 DEF WriteInOrder, MessageTypeOK
    <3>8. WriteInOrder'
      <4>1. \A k \in 1 .. Len(out') : out'[k][1] <= writes'
        BY <2>3, <3>1, <3>3, <3>5 DEF WriteInOrder
      <4>2. Written(msg[w])' = c + 1 /\ c + 1 # 0 /\ out' # <<>> /\ out'[Len(out')] = <<msg[w], c + 1>>
        <5>1. Written(msg[w])' = c + 1
          BY <3>1, <3>3, <3>6 DEF Written
        <5>2. out' # <<>>
          BY <2>1, <3>3, <3>4, AppendProperties DEF MessageTypeOK
        <5> QED
          BY <3>1, <3>2, <3>5, <5>1, <5>2
      <4> QED
        BY <2>2, <3>3, <4>1, <4>2 DEF WriteInOrder, HoldsWriteSync
    <3>9. MessagesAreWhole'
      <4> SUFFICES ASSUME NEW k \in 1 .. Len(out')
                   PROVE  IF out'[k][2] > 1 THEN k > 1 /\ out'[k - 1] = <<out'[k][1], out'[k][2] - 1>>
                          ELSE k > 1 => out'[k - 1][2] = Pieces \/ out'[k - 1][1] \in cut'
        BY DEF MessagesAreWhole
      <4>1. CASE k \in 1 .. Len(out)
        BY <2>3, <3>3, <3>5, <4>1 DEF MessagesAreWhole
      <4>2. CASE k = Len(out) + 1
        <5>1. out'[k] = <<m, c + 1>> /\ (k > 1 => Len(out) > 0 /\ out'[k - 1] = out[Len(out)])
          BY <2>3, <3>5, <4>2
        <5>2. CASE c = 0
          <6>1. k > 1 => out[Len(out)][2] = Pieces \/ out[Len(out)][1] \in cut
            BY <2>1, <2>3, <3>7, <4>2, <5>2 DEF MayFollow, MessageTypeOK
          <6> QED
            BY <3>3, <5>1, <5>2, <6>1
        <5>3. CASE c # 0
          BY <2>3, <3>2, <3>7, <4>2, <5>1, <5>3
        <5> QED
          BY <5>2, <5>3
      <4> QED
        BY <2>3, <3>5, <4>1, <4>2
    <3> QED
      BY <3>8, <3>9
  <2>7. CASE WriteBroken(w)
    <3>1. wpc[w] = "writing" /\ HoldsWriteSync(w)
      BY <2>7 DEF WriteBroken, HoldsWriteSync
    <3>2. UNCHANGED <<out, writes, msg>> /\ cut' = cut \cup {msg[w]}
      BY <2>7 DEF WriteBroken, WriteFails
    <3>3. wpc'[w] = "return" /\ \A v \in Writer : v # w => wpc'[v] = "idle"
      BY <2>1, <2>2, <2>7, <3>1 DEF WriteBroken, WriteFails, WriterTypeOK
    <3>4. MayFollow'
      BY <3>1, <3>2 DEF WriteInOrder, MayFollow
    <3> QED
      BY <3>1, <3>2, <3>3, <3>4 DEF WriteInOrder, MessagesAreWhole, HoldsWriteSync
  <2>8. CASE WriteDone(w)
    <3>1. wpc[w] = "writing" /\ HoldsWriteSync(w) /\ Written(msg[w]) = Pieces /\ Pieces # 0
      BY <2>8, PiecesAssumption DEF WriteDone, HoldsWriteSync
    <3>2. UNCHANGED <<out, writes, msg, cut>>
      BY <2>8 DEF WriteDone
    <3>3. wpc'[w] = "return" /\ \A v \in Writer : v # w => wpc'[v] = "idle"
      BY <2>1, <2>2, <2>8, <3>1 DEF WriteDone, WriterTypeOK
    <3>4. MayFollow'
      BY <3>1, <3>2 DEF WriteInOrder, MayFollow
    <3> QED
      BY <3>1, <3>2, <3>3, <3>4 DEF WriteInOrder, MessagesAreWhole, HoldsWriteSync
  <2>9. CASE WriteContextEnds(w) \/ WriteGuard(w) \/ WriteReturn(w)
    <3>1. UNCHANGED <<out, writes, msg, cut>>
      BY <2>9 DEF WriteContextEnds, WriteGuard, WriteReturn
    <3>2. \A v \in Writer : wpc'[v] = wpc[v] \/ (wpc'[v] = "idle" /\ wpc[v] = "return")
      BY <2>1, <2>9 DEF WriteContextEnds, WriteGuard, WriteReturn, WriterTypeOK
    <3> QED
      BY <3>1, <3>2 DEF WriteInOrder, MayFollow, MessagesAreWhole, HoldsWriteSync, Written
  <2> QED
    BY <1>6, <2>4, <2>5, <2>6, <2>7, <2>8, <2>9 DEF WriteStep, Write
<1>7. CASE UNCHANGED vars
  BY <1>7 DEF WriteInOrder, MayFollow, MessagesAreWhole, HoldsWriteSync, Written, vars, peerVars, closeVars, readVars, writeVars, timerVars
<1> QED
  BY <1>1, <1>2, <1>3, <1>4, <1>5, <1>6, <1>7 DEF Next

--------------------------------------------------------------------------------
\* Theorems

\* The initial states satisfy the inductive invariant.
THEOREM InitIsInductive == Init => IInv
<1> SUFFICES ASSUME Init PROVE IInv
  OBVIOUS
<1> USE LinesNat, PiecesAssumption, MaxWritesAssumption DEF Init
<1>1. TypeOK
  <2>1. SocketTypeOK /\ FlagTypeOK
    <3>1. <<0, 0>> \in Place
      BY DEF Place
    <3> QED
      BY <3>1 DEF SocketTypeOK, FlagTypeOK
  <2>2. ReaderTypeOK /\ TextTypeOK
    BY DEF ReaderTypeOK, TextTypeOK
  <2>3. WriterTypeOK /\ MessageTypeOK
    BY DEF WriterTypeOK, MessageTypeOK
  <2> QED
    BY <2>1, <2>2, <2>3, TypeParts
<1>2. PlacesInOrder
  BY DEF PlacesInOrder, UpTo
<1>3. OneHolder /\ DeadlineOfOwn /\ OnlyOwnDeadline
  BY DEF OneHolder, HoldsReadSync, HoldsWriteSync, DeadlineOfOwn, OnlyOwnDeadline
<1>4. TextIsKept /\ LinesAreWhole
  BY PartEmpty DEF TextIsKept, Collects, LinesAreWhole
<1>5. WriteInOrder /\ MessagesAreWhole
  BY DEF WriteInOrder, MayFollow, HoldsWriteSync, MessagesAreWhole
<1>6. CloseHasCause /\ IdleCloseIsNamed
  BY DEF CloseHasCause, IdleCloseIsNamed
<1> QED
  BY <1>1, <1>2, <1>3, <1>4, <1>5, <1>6 DEF IInv

\* Every behaviour keeps the inductive invariant: one call holds the lock of a
\* direction, moves its deadline and goes on with the text where the call before
\* it stopped (proxy/conn.go).
THEOREM ConnectionInvariant == Spec => []IInv
<1>1. IInv /\ [Next]_vars => IInv'
  <2> SUFFICES ASSUME IInv, [Next]_vars PROVE IInv'
    OBVIOUS
  <2>1. TypeOK'
    BY TypeParts, SocketTypeStep, FlagTypeStep, ReaderTypeStep, TextTypeStep, WriterTypeStep, MessageTypeStep DEF IInv
  <2>2. PlacesInOrder' /\ OneHolder' /\ DeadlineOfOwn' /\ OnlyOwnDeadline'
    BY TypeParts, OrderStep, HolderStep, DeadlineStep, ErrorStep DEF IInv
  <2>3. TextIsKept' /\ LinesAreWhole' /\ WriteInOrder' /\ MessagesAreWhole'
    BY TextStep, MessageStep DEF IInv
  <2>4. CloseHasCause' /\ IdleCloseIsNamed'
    BY TypeParts, CloseStep DEF IInv
  <2> QED
    BY <2>1, <2>2, <2>3, <2>4 DEF IInv
<1> QED
  BY InitIsInductive, <1>1, PTL DEF Spec

\* The parser gets the peer's lines whole, once and in order, whoever reads and
\* however many reads are cancelled in the middle of a line (Read, proxy/conn.go).
THEOREM ParserHearsWholeLines == Spec => []LinesAreWhole
<1>1. IInv => LinesAreWhole
  BY DEF IInv
<1> QED
  BY ConnectionInvariant, <1>1, PTL

\* The peer gets whole messages, and only one whose Write failed lacks its end
\* (Write, proxy/conn.go).
THEOREM PeerGetsWholeMessages == Spec => []MessagesAreWhole
<1>1. IInv => MessagesAreWhole
  BY DEF IInv
<1> QED
  BY ConnectionInvariant, <1>1, PTL

\* A deadline fails no call but the one whose context ended, and a call on a
\* connection that its idle timer closed names the timeout (maybeTimeoutError,
\* proxy/conn.go).
THEOREM FailuresNameTheirCause == Spec => []ErrorsNameTheirCause
<1>1. IInv => ErrorsNameTheirCause
  BY DEF IInv, ErrorsNameTheirCause
<1> QED
  BY ConnectionInvariant, <1>1, PTL

================================================================================
