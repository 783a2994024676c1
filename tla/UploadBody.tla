----------------------------- MODULE UploadBody -----------------------------
(***************************************************************************)
(* One request body of a Push (upload_body.go): a pump goroutine copies    *)
(* the caller's source into staging buffers through exactSizeReader, the   *)
(* transport's Read consumes them, Close may come from anywhere, and Push  *)
(* touches the source again only after "released".  A step is one critical *)
(* section of stateMu, one channel operation or one call to the source.    *)
(*                                                                         *)
(* The source yields the bytes 0 .. src.len-1.  The transport is net/http's *)
(* HTTP/1 writer: it copies Expected bytes, asks once more for EOF, closes *)
(* the body; it may give up and close at any moment.  Every body the       *)
(* client builds is longer than zero, so pump's branch for an empty one is *)
(* left out.                                                               *)
(***************************************************************************)
EXTENDS Integers, Sequences, FiniteSets

CONSTANTS
  Expected,       \* exact.expected
  Sources,        \* the caller's sources, records of:
                  \*   len          how long the source really is
                  \*   demand       it yields a byte only when all before it
                  \*                were sent
                  \*   eofWithData  it reports io.EOF together with its last byte
                  \*   faults       it may fail or make no progress
  RequireEOF,     \* exact.requireEOF: the body is the last one of the blob
  BufferSize,     \* uploadBodyBufferSize (256 KiB in the code)
  BufferCount,    \* uploadBodyBufferCount (4 in the code)
  MaxEmptyReads   \* maxConsecutiveEmptyReads (100 in the code)

ASSUME SizesAssumption ==
  /\ Expected \in Nat \ {0}
  /\ BufferSize \in Nat \ {0} /\ BufferCount \in Nat \ {0}
  /\ MaxEmptyReads \in Nat \ {0}
ASSUME SourceAssumption ==
  /\ RequireEOF \in BOOLEAN
  /\ Sources \subseteq
       [len : Nat, demand : BOOLEAN, eofWithData : BOOLEAN, faults : BOOLEAN]

VARIABLES
  src, srcPos,                        \* the caller's source
  remaining, sizeErr, eofOK, emptyReads, \* exactSizeReader
  available, chunks, mem,                \* the two channels, buffer contents
  closeCalled, pumpStarted, pumpDone, readActive, released, once,
  ppc, pbuf, pout,                       \* pump: control, buffer, chunk to send
  rpc, cur, curOff, curErr, rret,        \* Read: control, current batch, result
  sent,                                  \* bytes the transport consumed
  wired,                                 \* how many of them wire progress reported
  tpc,                                   \* transport: copy, probe, done
  cpc                                    \* Close: control

source == <<src, srcPos>>
exact == <<remaining, sizeErr, eofOK, emptyReads>>
queues == <<available, chunks, mem>>
owner == <<closeCalled, pumpStarted, pumpDone, readActive, released, once>>
pump == <<ppc, pbuf, pout>>
read == <<rpc, cur, curOff, curErr, rret>>
vars == <<source, exact, queues, owner, pump, read, sent, wired, tpc, cpc>>

Smaller(a, b) == IF a < b THEN a ELSE b
Size == Smaller(BufferSize, Expected)
Count == Smaller(BufferCount, 1 + (Expected - 1) \div Size)
Buffer == 1 .. Count
NoBuf == 0
Nothing == [buf |-> NoBuf, err |-> "nil"]

Init ==
  /\ src \in Sources /\ srcPos = 0
  /\ remaining = Expected /\ sizeErr = FALSE /\ eofOK = FALSE /\ emptyReads = 0
  /\ available = <<>> /\ chunks = <<>> /\ mem = [b \in Buffer |-> <<>>]
  /\ closeCalled = FALSE /\ pumpStarted = FALSE /\ pumpDone = FALSE
  /\ readActive = FALSE /\ released = FALSE /\ once = FALSE
  /\ ppc = "off" /\ pbuf = NoBuf /\ pout = Nothing
  /\ rpc = "idle" /\ cur = NoBuf /\ curOff = 0 /\ curErr = "nil" /\ rret = "nil"
  /\ sent = <<>> /\ wired = 0 /\ tpc = "copy" /\ cpc = "open"

\* Mutant: the body is released while its pump may still read the source.
IdleWithoutPump(called, done, active) == released \/ (called /\ ~active)

\* Mutant: the body is released while a Read is between copy and callback.
IdleWithoutRead(called, done, active) == released \/ (called /\ (~pumpStarted \/ done))

\* releaseIfIdleLocked, with the values the flags have at the end of the step.
Idle(called, done, active) ==
  released \/ (called /\ (~pumpStarted \/ done) /\ ~active)

-----------------------------------------------------------------------------
(* The pump.                                                               *)

PumpAllocates ==
  /\ ppc = "start"
  /\ available' = [i \in 1 .. Count |-> i]
  /\ ppc' = "buffer"
  /\ UNCHANGED <<source, exact, chunks, mem, owner, pbuf, pout, read, sent, wired, tpc,
                 cpc>>

PumpTakesBuffer ==
  /\ ppc = "buffer" /\ available # <<>>
  /\ pbuf' = Head(available) /\ available' = Tail(available)
  /\ ppc' = "fill"
  /\ UNCHANGED <<source, exact, chunks, mem, owner, pout, read, sent, wired, tpc, cpc>>

\* fillBuffer looks at closed before every call to the source.
PumpEntersSource ==
  /\ ppc = "fill" /\ ~closeCalled
  /\ ppc' = "reading"
  /\ UNCHANGED <<source, exact, queues, owner, pbuf, pout, read, sent, wired, tpc, cpc>>

\* What the source may answer: a byte count and an error.
SourceRead ==
  {r \in (0 .. Smaller(Size, remaining)) \X {"nil", "eof", "fail"} :
     LET n == r[1]  e == r[2]
     IN  /\ srcPos + n <= src.len
         /\ src.demand /\ n > 0 => n = 1 /\ srcPos = Len(sent)
         /\ e = "eof" => srcPos + n = src.len /\ (n = 0 \/ src.eofWithData)
         /\ n > 0 /\ src.eofWithData /\ srcPos + n = src.len => e = "eof"
         /\ e = "fail" \/ (n = 0 /\ e = "nil") => src.faults}

\* Mutant: the byte after the last declared one is never asked for.
ProbeNothing(n, e) ==
  /\ eofOK' = TRUE
  /\ sizeErr' = FALSE

\* The last declared byte also proves that the source ends there (probeEOF).
Probe(n, e) ==
  \/ e = "eof" /\ eofOK' = TRUE /\ sizeErr' = FALSE
  \/ e = "nil" /\ srcPos + n = src.len /\ eofOK' = TRUE /\ sizeErr' = FALSE
  \/ /\ e = "nil" /\ (srcPos + n < src.len \/ src.faults)
     /\ eofOK' = FALSE /\ sizeErr' = TRUE

\* exactSizeReader.Read: n bytes into pbuf, and the error Read returns.
Staged(n, err) ==
  /\ mem' = [mem EXCEPT ![pbuf] = [i \in 1 .. n |-> srcPos + i - 1]]
  /\ pout' = [buf |-> IF n = 0 THEN NoBuf ELSE pbuf, err |-> err]
  /\ srcPos' = srcPos + n /\ remaining' = remaining - n
  /\ emptyReads' = 0 /\ ppc' = "send"

PumpReadsEnd ==
  /\ ppc = "reading" /\ remaining = 0
  /\ pout' = [buf |-> NoBuf, err |-> "eof"] /\ ppc' = "send"
  /\ UNCHANGED <<source, exact, queues, owner, pbuf, read, sent, wired, tpc, cpc>>

PumpReadsNothing ==
  /\ ppc = "reading" /\ remaining > 0 /\ <<0, "nil">> \in SourceRead
  /\ emptyReads' = emptyReads + 1
  /\ IF emptyReads' >= MaxEmptyReads
       THEN sizeErr' = TRUE /\ pout' = [buf |-> NoBuf, err |-> "fail"] /\ ppc' = "send"
       ELSE ppc' = "fill" /\ UNCHANGED <<sizeErr, pout>>
  /\ UNCHANGED <<source, remaining, eofOK, queues, owner, pbuf, read, sent, wired, tpc,
                 cpc>>

\* Mutant: the pump publishes a batch only when its buffer is full.
PumpFillsBuffer ==
  /\ ppc = "reading" /\ remaining > 0
  /\ <<Smaller(Size, remaining), "nil">> \in SourceRead
  /\ Staged(Smaller(Size, remaining), "nil")
  /\ UNCHANGED <<src, sizeErr, eofOK, available, chunks, owner, pbuf, read,
                 sent, wired, tpc, cpc>>

PumpReads ==
  /\ ppc = "reading" /\ remaining > 0
  /\ \E r \in SourceRead \ {<<0, "nil">>} :
       LET n == r[1]  e == r[2]
           short == e = "fail" \/ (e = "eof" /\ n < remaining)
       IN  /\ IF ~short /\ n = remaining /\ RequireEOF
                THEN Probe(n, e)
                ELSE sizeErr' = (sizeErr \/ short) /\ UNCHANGED eofOK
           /\ Staged(n, IF sizeErr' THEN "fail" ELSE e)
  /\ UNCHANGED <<src, available, chunks, owner, pbuf, read, sent, wired, tpc, cpc>>

\* After a chunk with an error, or with no data, the pump exits.
PumpSends ==
  /\ ppc = "send" /\ Len(chunks) < BufferCount
  /\ chunks' = Append(chunks, pout) /\ pout' = Nothing /\ pbuf' = NoBuf
  /\ ppc' = IF pout.buf = NoBuf \/ pout.err # "nil" THEN "exit" ELSE "buffer"
  /\ UNCHANGED <<source, exact, available, mem, owner, read, sent, wired, tpc, cpc>>

PumpStops ==
  /\ ppc \in {"buffer", "fill", "send"} /\ closeCalled
  /\ ppc' = "exit" /\ pbuf' = NoBuf /\ pout' = Nothing
  /\ UNCHANGED <<source, exact, queues, owner, read, sent, wired, tpc, cpc>>

PumpExits ==
  /\ ppc = "exit" /\ ppc' = "done"
  /\ pumpDone' = TRUE /\ released' = Idle(closeCalled, TRUE, readActive)
  /\ UNCHANGED <<source, exact, queues, closeCalled, pumpStarted, readActive, once,
                 pbuf, pout, read, sent, wired, tpc, cpc>>

PumpStep ==
  \/ PumpAllocates \/ PumpTakesBuffer \/ PumpEntersSource \/ PumpReadsEnd
  \/ PumpReadsNothing \/ PumpReads \/ PumpSends \/ PumpStops \/ PumpExits

-----------------------------------------------------------------------------
(* The transport's Read.                                                   *)

\* Mutant: the batch goes back to the pump but stays the current one.
RecycleTwice ==
  /\ available' = IF cur = NoBuf THEN available ELSE Append(available, cur)
  /\ UNCHANGED <<cur, curOff, curErr>>

\* recycleCurrent: after Close the buffer may also be abandoned.
Recycle ==
  /\ available' = IF cur = NoBuf THEN available ELSE Append(available, cur)
  /\ cur' = NoBuf /\ curOff' = 0 /\ curErr' = "nil"

\* The transport reads on until it has what it wants: Expected bytes, then
\* one EOF.
ReadBegins ==
  /\ rpc = "idle" /\ tpc # "done"
  /\ IF closeCalled
       THEN Recycle /\ rret' = "closed" /\ tpc' = "done"
            /\ UNCHANGED <<rpc, readActive>>
       ELSE rpc' = "start" /\ readActive' = TRUE
            /\ UNCHANGED <<available, cur, curOff, curErr, rret, tpc>>
  /\ UNCHANGED <<source, exact, chunks, mem, closeCalled, pumpStarted, pumpDone,
                 released, once, pump, sent, wired, cpc>>

\* start.Do(startPump)
StartPump ==
  /\ rpc = "start" /\ rpc' = "loop"
  /\ once' = TRUE
  /\ IF ~once /\ ~closeCalled THEN pumpStarted' = TRUE /\ ppc' = "start"
                              ELSE UNCHANGED <<pumpStarted, ppc>>
  /\ UNCHANGED <<source, exact, queues, closeCalled, pumpDone, readActive, released,
                 pbuf, pout, cur, curOff, curErr, rret, sent, wired, tpc, cpc>>

Finish(e) == rpc' = "finish" /\ rret' = e

\* Copying happens under stateMu.
CopyOut ==
  /\ rpc = "loop" /\ cur # NoBuf /\ ~closeCalled
  /\ \E n \in 1 .. Len(mem[cur]) - curOff :
       /\ tpc = "copy" => Len(sent) + n <= Expected
       /\ sent' = sent \o SubSeq(mem[cur], curOff + 1, curOff + n)
       /\ curOff' = curOff + n
  /\ rpc' = "report"
  /\ UNCHANGED <<source, exact, queues, owner, pump, cur, curErr, rret, wired, tpc, cpc>>

\* wireProgressTracker.add, the caller's callback, outside stateMu.  The last
\* byte of a batch carries the error of the batch.
ReportWire ==
  /\ rpc = "report" /\ wired' = Len(sent)
  /\ IF curOff = Len(mem[cur]) THEN rpc' = "recycle" /\ rret' = curErr
                               ELSE Finish("nil")
  /\ UNCHANGED <<source, exact, queues, owner, pump, cur, curOff, curErr, sent, tpc, cpc>>

RecycleBatch ==
  /\ rpc = "recycle" /\ rpc' = "finish"
  /\ Recycle
  /\ UNCHANGED <<source, exact, chunks, mem, owner, pump, rret, sent, wired, tpc, cpc>>

\* Mutant: the buffer goes back to the pump when its batch is received.
ReceiveRecycles ==
  /\ rpc = "loop" /\ cur = NoBuf /\ chunks # <<>>
  /\ chunks' = Tail(chunks)
  /\ LET chunk == Head(chunks)
     IN  IF closeCalled \/ chunk.buf = NoBuf
           THEN Finish(chunk.err) /\ UNCHANGED <<cur, curOff, curErr, available>>
         ELSE /\ cur' = chunk.buf /\ curOff' = 0 /\ curErr' = chunk.err
              /\ available' = Append(available, chunk.buf)
              /\ UNCHANGED <<rpc, rret>>
  /\ UNCHANGED <<source, exact, mem, owner, pump, sent, wired, tpc, cpc>>

ReceiveChunk ==
  /\ rpc = "loop" /\ cur = NoBuf /\ chunks # <<>>
  /\ chunks' = Tail(chunks)
  /\ LET chunk == Head(chunks)
     IN  IF closeCalled THEN Finish("closed") /\ UNCHANGED <<cur, curOff, curErr>>
         ELSE IF chunk.buf = NoBuf
           THEN Finish(chunk.err) /\ UNCHANGED <<cur, curOff, curErr>>
         ELSE /\ cur' = chunk.buf /\ curOff' = 0 /\ curErr' = chunk.err
              /\ UNCHANGED <<rpc, rret>>
  /\ UNCHANGED <<source, exact, available, mem, owner, pump, sent, wired, tpc, cpc>>

\* The select on closed, or closeCalled seen under stateMu before a copy.
ReadSeesClose ==
  /\ rpc = "loop" /\ closeCalled
  /\ Finish("closed")
  /\ UNCHANGED <<source, exact, queues, owner, pump, cur, curOff, curErr, sent, wired, tpc,
                 cpc>>

\* Mutant: the last Read to finish does not look whether it was the last owner.
ReadEndsSilently ==
  /\ rpc = "finish" /\ rpc' = "idle"
  /\ IF closeCalled THEN Recycle ELSE UNCHANGED <<available, cur, curOff, curErr>>
  /\ readActive' = FALSE
  /\ tpc' = IF rret = "nil" THEN tpc ELSE "done"
  /\ UNCHANGED <<source, exact, chunks, mem, closeCalled, pumpStarted, pumpDone,
                 released, once, pump, rret, sent, wired, cpc>>

\* finishRead, and what the transport does with the result.
ReadEnds ==
  /\ rpc = "finish" /\ rpc' = "idle"
  /\ IF closeCalled THEN Recycle ELSE UNCHANGED <<available, cur, curOff, curErr>>
  /\ readActive' = FALSE /\ released' = Idle(closeCalled, pumpDone, FALSE)
  /\ tpc' = IF tpc = "copy" /\ (rret = "eof" \/ (rret = "nil" /\ Len(sent) = Expected))
              THEN "probe"
            ELSE IF rret = "nil" THEN tpc ELSE "done"
  /\ UNCHANGED <<source, exact, chunks, mem, closeCalled, pumpStarted, pumpDone,
                 once, pump, rret, sent, wired, cpc>>

ReadStep ==
  \/ ReadBegins \/ StartPump \/ CopyOut \/ ReportWire \/ RecycleBatch \/ ReceiveChunk
  \/ ReadSeesClose \/ ReadEnds

-----------------------------------------------------------------------------
(* Close: by the transport when it is done or gives up, or by Push.        *)

CloseLocks ==
  /\ cpc = "open" /\ cpc' = "tidy"
  /\ closeCalled' = TRUE /\ released' = Idle(TRUE, pumpDone, readActive)
  /\ UNCHANGED <<source, exact, queues, pumpStarted, pumpDone, readActive, once,
                 pump, read, sent, wired, tpc>>

\* readMu.TryLock: a Read under way recycles its batch itself.
CloseTidies ==
  /\ cpc = "tidy" /\ cpc' = "done"
  /\ IF rpc = "idle" THEN Recycle ELSE UNCHANGED <<available, cur, curOff, curErr>>
  /\ UNCHANGED <<source, exact, chunks, mem, owner, pump, rpc, rret, sent, wired, tpc>>

Next == PumpStep \/ ReadStep \/ CloseLocks \/ CloseTidies

Spec == Init /\ [][Next]_vars

\* The source answers every call, goroutines run, and the transport closes a
\* body once it has seen the end of it or an error.
FairSpec ==
  /\ Spec
  /\ WF_vars(PumpStep) /\ WF_vars(ReadStep)
  /\ WF_vars(tpc = "done" /\ CloseLocks)

-----------------------------------------------------------------------------
TypeOK ==
  /\ src \in Sources /\ srcPos \in 0 .. src.len
  /\ remaining \in 0 .. Expected /\ emptyReads \in 0 .. MaxEmptyReads
  /\ {sizeErr, eofOK, closeCalled, pumpStarted, pumpDone, readActive, released, once}
       \subseteq BOOLEAN
  /\ available \in Seq(Buffer) /\ Len(available) <= BufferCount
  /\ chunks \in Seq([buf : 0 .. Count, err : {"nil", "eof", "fail"}])
  /\ Len(chunks) <= BufferCount
  /\ mem \in [Buffer -> Seq(Nat)]
  /\ ppc \in {"off", "start", "buffer", "fill", "reading", "send", "exit", "done"}
  /\ pbuf \in 0 .. Count /\ cur \in 0 .. Count /\ curOff \in 0 .. Size
  /\ pout \in [buf : 0 .. Count, err : {"nil", "eof", "fail"}]
  /\ rpc \in {"idle", "start", "loop", "report", "recycle", "finish"}
  /\ curErr \in {"nil", "eof", "fail"} /\ rret \in {"nil", "eof", "fail", "closed"}
  /\ sent \in Seq(Nat) /\ wired \in 0 .. Len(sent) /\ tpc \in {"copy", "probe", "done"}
  /\ cpc \in {"open", "tidy", "done"}

\* What the transport consumed is the source's own bytes in order: a staging
\* buffer is never refilled under it (upload_body.go:95-145).
SentInOrder == \A i \in 1 .. Len(sent) : sent[i] = i - 1

\* Every staging buffer is in one place: the free list, the pump, the queue or
\* the batch being consumed (upload_body.go:178-237, 303-316).
Queued == {i \in DOMAIN chunks : chunks[i].buf # NoBuf}
BuffersHaveOneHolder ==
  /\ \A i, j \in DOMAIN available : available[i] = available[j] => i = j
  /\ \A i, j \in Queued : chunks[i].buf = chunks[j].buf => i = j
  /\ LET free == {available[i] : i \in DOMAIN available}
         queued == {chunks[i].buf : i \in Queued}
         mine == {pbuf} \ {NoBuf}
         theirs == {cur} \ {NoBuf}
     IN  \A P, Q \in {<<1, free>>, <<2, queued>>, <<3, mine>>, <<4, theirs>>} :
           P[1] # Q[1] => P[2] \cap Q[2] = {}

\* Once Push sees the body released, neither the pump nor a transport Read
\* touches the caller's source or a staging buffer again, so Push may seek the
\* source, return it, or pool the buffers (upload_body.go:318-342).
ReleasedMeansQuiet == released => ppc \in {"off", "done"} /\ rpc = "idle"

\* Every callback of wire progress for this body has returned, with all bytes
\* the transport took, when Push sees the body released and may return: none
\* runs later, when wire.stop has been called (push.go:74, progress.go:88-105).
WireIsSettled == released => wired = Len(sent)

\* A released body that validates carried exactly the declared bytes, and the
\* final body of a blob proves that the source ended there
\* (upload_body.go:361-373, 448-499).
Valid ==
  ~sizeErr /\ Len(sent) = Expected /\ remaining = 0 /\ (RequireEOF => eofOK)
ValidMeansExact ==
  released /\ Valid =>
    srcPos = Expected /\ (RequireEOF => src.len = Expected)

\* Push's wait after Close ends, whatever Read and the pump were doing, as
\* long as the source answers (upload_body.go:339-349).  A producer that waits
\* for its last byte to be sent does not: the caller has to unblock it.
CloseReleases == closeCalled /\ ~src.demand ~> released

\* A producer that yields a byte only after the previous one was sent is not
\* left waiting for a batch to fill up (upload_body.go:239-253).
DemandIsServed ==
  src.demand /\ src.len = Expected ~> Len(sent) = Expected \/ closeCalled \/ sizeErr

\* "Push waits for every in-flight r.Read call to finish" (push.go:32-36):
\* with all bytes read and sent, the wait ends.
WriteEndsInRelease == (Len(sent) = Expected /\ ~sizeErr) ~> released
=============================================================================
