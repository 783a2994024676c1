-------------------------- MODULE UploadBodyProofs ---------------------------
(***************************************************************************)
(* Proofs about UploadBody for every source, size and number of buffers.   *)
(***************************************************************************)
EXTENDS UploadBody, SequenceTheorems, TLAPS

-----------------------------------------------------------------------------
(* Release.                                                                *)

PumpPCs == {"off", "start", "buffer", "fill", "reading", "send", "exit", "done"}

\* The flags of stateMu agree with the goroutines.  The pump starts once, from
\* a Read under way, which keeps the body from being released meanwhile.
QuietInv ==
  /\ {closeCalled, pumpStarted, pumpDone, readActive, released, once} \subseteq BOOLEAN
  /\ ppc \in PumpPCs
  /\ ppc = "off" <=> ~pumpStarted
  /\ pumpDone <=> ppc = "done"
  /\ readActive <=> rpc # "idle"
  /\ pumpStarted => once
  /\ rpc = "start" /\ ppc # "off" => once
  /\ released => closeCalled /\ (~pumpStarted \/ pumpDone) /\ ~readActive

\* A new body has neither a pump nor a Read.
LEMMA QuietInit == Init => QuietInv
  BY DEF Init, QuietInv, PumpPCs

\* Every step keeps the flags in agreement with the goroutines.
LEMMA QuietNext == ASSUME QuietInv, [Next]_vars PROVE QuietInv'
<1>1. CASE UNCHANGED <<owner, ppc, rpc>>
  BY <1>1 DEF QuietInv, owner
<1>2. CASE PumpStep
  <2>1. CASE PumpExits
    BY <2>1 DEF PumpExits, QuietInv, PumpPCs, Idle, read
  <2>2. CASE PumpStep /\ ~PumpExits
    <3>1. /\ ppc' \in PumpPCs \ {"off", "done"} /\ ppc \notin {"off", "done"}
          /\ UNCHANGED <<owner, rpc>>
      BY <2>2 DEF PumpStep, PumpAllocates, PumpTakesBuffer, PumpEntersSource, PumpReadsEnd,
           PumpReadsNothing, PumpReads, Staged, PumpSends, PumpStops, PumpPCs, read
    <3> QED BY <3>1 DEF QuietInv, owner
  <2> QED BY <1>2, <2>1, <2>2
<1>3. CASE ReadBegins
  BY <1>3 DEF ReadBegins, QuietInv, pump
<1>4. CASE StartPump
  BY <1>4 DEF StartPump, QuietInv, PumpPCs
<1>5. CASE CopyOut \/ ReportWire \/ RecycleBatch \/ ReceiveChunk \/ ReadSeesClose
  BY <1>5 DEF CopyOut, ReportWire, RecycleBatch, ReceiveChunk, ReadSeesClose, Finish, QuietInv, owner, pump
<1>6. CASE ReadEnds
  BY <1>6 DEF ReadEnds, Idle, QuietInv, pump
<1>7. CASE CloseLocks
  BY <1>7 DEF CloseLocks, Idle, QuietInv, pump, read
<1>8. CASE CloseTidies
  BY <1>1, <1>8 DEF CloseTidies, pump
<1>9. CASE UNCHANGED vars
  BY <1>1, <1>9 DEF vars, pump, read
<1> QED BY <1>1, <1>2, <1>3, <1>4, <1>5, <1>6, <1>7, <1>8, <1>9 DEF Next, ReadStep

\* A released body has no pump that may still call the source, and no Read.
THEOREM UploadReleasedIsQuiet == Spec => []ReleasedMeansQuiet
<1>1. QuietInv => ReleasedMeansQuiet
  BY DEF QuietInv, ReleasedMeansQuiet
<1> QED BY <1>1, QuietInit, QuietNext, PTL DEF Spec

-----------------------------------------------------------------------------
(* Wire progress.                                                          *)

\* Only a Read between its copy and its callback has bytes to report.
WireInv == rpc = "report" \/ wired = Len(sent)

\* Every step keeps that, since Read copies once before it reports.
LEMMA WireNext == ASSUME WireInv, [Next]_vars PROVE WireInv'
<1>1. CASE PumpStep
  BY <1>1 DEF PumpStep, PumpAllocates, PumpTakesBuffer, PumpEntersSource, PumpReadsEnd,
       PumpReadsNothing, PumpReads, PumpSends, PumpStops, PumpExits, WireInv, read
<1>2. CASE ReadBegins \/ StartPump \/ RecycleBatch \/ ReceiveChunk \/ ReadSeesClose \/ ReadEnds
  BY <1>2 DEF ReadBegins, StartPump, RecycleBatch, ReceiveChunk, ReadSeesClose, ReadEnds, Finish,
       WireInv
<1>3. CASE CopyOut \/ ReportWire
  BY <1>3 DEF CopyOut, ReportWire, WireInv
<1>4. CASE CloseLocks \/ CloseTidies \/ UNCHANGED vars
  BY <1>4 DEF CloseLocks, CloseTidies, vars, read, WireInv
<1> QED BY <1>1, <1>2, <1>3, <1>4 DEF Next, ReadStep

\* A released body has no callback under way and reported all it sent.
THEOREM UploadWireIsSettled == Spec => []WireIsSettled
<1>1. Init => WireInv
  BY DEF Init, WireInv
<1>2. QuietInv /\ WireInv => WireIsSettled
  BY DEF QuietInv, WireInv, WireIsSettled
<1> QED BY <1>1, <1>2, QuietInit, QuietNext, WireNext, PTL DEF Spec

-----------------------------------------------------------------------------
(* Counting the source.                                                    *)

\* exactSizeReader: what is left and what was taken make the declared size,
\* and eofOK is set by the read that takes the last byte.
ExactInv ==
  /\ src \in Sources /\ srcPos \in Nat /\ remaining \in Nat
  /\ srcPos + remaining = Expected
  /\ eofOK => remaining = 0 /\ srcPos = src.len

\* Nothing of the source is taken yet.
LEMMA ExactInit == Init => ExactInv
  BY SizesAssumption DEF Init, ExactInv

\* A read of the source moves bytes from remaining to srcPos, and sets
\* eofOK only with the last of them.
LEMMA PumpReadsExact == ASSUME ExactInv, PumpReads PROVE ExactInv'
<1>1. PICK r \in SourceRead :
        /\ srcPos' = srcPos + r[1] /\ remaining' = remaining - r[1]
        /\ \/ UNCHANGED eofOK
           \/ r[1] = remaining /\ Probe(r[1], r[2])
  BY DEF PumpReads, Staged
<1>2. /\ r[1] \in Nat /\ r[1] <= remaining
      /\ r[2] = "eof" => srcPos + r[1] = src.len
  <2>1. /\ r[1] \in 0 .. Smaller(Size, remaining)
        /\ r[2] = "eof" => srcPos + r[1] = src.len
    BY DEF SourceRead
  <2> QED BY <2>1, SizesAssumption DEF ExactInv, Smaller, Size
<1>3. eofOK' => eofOK \/ (remaining' = 0 /\ srcPos' = src.len)
  <2>1. CASE UNCHANGED eofOK
    BY <2>1
  <2>2. CASE r[1] = remaining /\ Probe(r[1], r[2])
    <3>1. eofOK' => srcPos + r[1] = src.len
      BY <1>2, <2>2 DEF Probe
    <3> QED BY <1>1, <2>2, <3>1 DEF ExactInv
  <2> QED BY <1>1, <2>1, <2>2
<1>4. remaining > 0 /\ UNCHANGED src
  BY DEF PumpReads
<1>5. srcPos' \in Nat /\ remaining' \in Nat /\ srcPos' + remaining' = Expected
  BY <1>1, <1>2 DEF ExactInv
<1> QED BY <1>3, <1>4, <1>5 DEF ExactInv

\* No other step touches the source or its counters.
LEMMA ExactNext == ASSUME ExactInv, [Next]_vars PROVE ExactInv'
<1>1. CASE UNCHANGED <<source, remaining, eofOK>>
  BY <1>1 DEF ExactInv, source
<1>2. CASE PumpReads
  BY <1>2, PumpReadsExact
<1>3. CASE PumpStep /\ ~PumpReads
  BY <1>1, <1>3 DEF PumpStep, PumpAllocates, PumpTakesBuffer, PumpEntersSource, PumpReadsEnd,
       PumpReadsNothing, PumpSends, PumpStops, PumpExits, exact
<1>4. CASE ReadStep
  BY <1>1, <1>4 DEF ReadStep, ReadBegins, StartPump, CopyOut, ReportWire, RecycleBatch, ReceiveChunk,
       ReadSeesClose, ReadEnds, exact
<1>5. CASE CloseLocks \/ CloseTidies \/ UNCHANGED vars
  BY <1>1, <1>5 DEF CloseLocks, CloseTidies, vars, exact
<1> QED BY <1>2, <1>3, <1>4, <1>5 DEF Next

\* A body that validates took exactly the declared bytes from the source, and
\* the final body of a blob found the source at its end.
THEOREM UploadValidIsExact == Spec => []ValidMeansExact
<1>1. ExactInv => ValidMeansExact
  BY DEF ExactInv, ValidMeansExact, Valid
<1> QED BY <1>1, ExactInit, ExactNext, PTL DEF Spec

-----------------------------------------------------------------------------
(* Who holds a staging buffer.                                             *)

Batch == [buf : 0 .. Count, err : {"nil", "eof", "fail"}]

HolderTypes ==
  /\ available \in Seq(Buffer) /\ chunks \in Seq(Batch)
  /\ pbuf \in 0 .. Count /\ cur \in 0 .. Count /\ pout \in Batch

\* BuffersHaveOneHolder, holder by holder.
HeldOnce ==
  /\ \A i, j \in 1 .. Len(available) : available[i] = available[j] => i = j
  /\ \A i, j \in 1 .. Len(chunks) :
       chunks[i].buf # NoBuf /\ chunks[i].buf = chunks[j].buf => i = j
  /\ \A i \in 1 .. Len(available), j \in 1 .. Len(chunks) : available[i] # chunks[j].buf
  /\ \A i \in 1 .. Len(available) : available[i] # pbuf /\ available[i] # cur
  /\ \A j \in 1 .. Len(chunks) :
       chunks[j].buf # NoBuf => chunks[j].buf # pbuf /\ chunks[j].buf # cur
  /\ pbuf = cur => pbuf = NoBuf

\* The pump: no buffer exists before it allocates them, it fills the one it
\* took, and the batch it is about to send is in that one.
PumpHolds ==
  /\ ppc \in {"off", "start"} => available = <<>> /\ chunks = <<>> /\ cur = NoBuf
  /\ ppc \in {"fill", "reading"} => pbuf # NoBuf
  /\ ppc \notin {"fill", "reading", "send"} => pbuf = NoBuf
  /\ pout.buf # NoBuf => ppc = "send" /\ pout.buf = pbuf

HolderInv == HolderTypes /\ HeldOnce /\ PumpHolds

\* There is at least one buffer, and it holds at least one byte.
LEMMA CountFacts == Size \in Nat \ {0} /\ Count \in Nat \ {0}
<1>1. Size \in Nat \ {0} /\ Expected - 1 \in Nat
  BY SizesAssumption DEF Size, Smaller
<1>2. (Expected - 1) \div Size \in Nat
  BY <1>1
<1> QED BY <1>1, <1>2, SizesAssumption DEF Count, Smaller

\* Appending to the free list or to the queue keeps what was there.
LEMMA Appended ==
  ASSUME NEW S, NEW s \in Seq(S), NEW e \in S
  PROVE  /\ Append(s, e) \in Seq(S) /\ Len(Append(s, e)) = Len(s) + 1
         /\ Append(s, e)[Len(s) + 1] = e
         /\ \A i \in 1 .. Len(s) : Append(s, e)[i] = s[i]
         /\ Len(s) \in Nat /\ \A i \in 1 .. Len(s) : s[i] \in S
  OBVIOUS

\* Taking the head shifts what is left.
LEMMA HeadTaken ==
  ASSUME NEW S, NEW s \in Seq(S), s # <<>>
  PROVE  /\ Head(s) = s[1] /\ s[1] \in S /\ Tail(s) \in Seq(S)
         /\ Len(s) \in Nat \ {0} /\ Len(Tail(s)) = Len(s) - 1
         /\ \A i \in 1 .. Len(Tail(s)) : Tail(s)[i] = s[i + 1] /\ i + 1 \in 2 .. Len(s)
  OBVIOUS

\* The free list holds buffers, never the absence of one.
LEMMA FreeIsReal ==
  ASSUME HolderInv
  PROVE  \A i \in 1 .. Len(available) : available[i] \in Buffer /\ available[i] # NoBuf
<1>1. \A i \in 1 .. Len(available) : available[i] \in Buffer
  BY DEF HolderInv, HolderTypes
<1> QED BY <1>1, CountFacts DEF Buffer, NoBuf

\* Before the pump starts there are no buffers.
LEMMA HolderInit == Init => HolderInv
  BY CountFacts DEF Init, HolderInv, HolderTypes, HeldOnce, PumpHolds, Batch, Nothing, NoBuf, Buffer

\* The pump's own steps.
LEMMA PumpHolder == ASSUME HolderInv, ExactInv, PumpStep PROVE HolderInv'
<1> USE CountFacts
<1>1. CASE PumpAllocates
  BY <1>1 DEF PumpAllocates, HolderInv, HolderTypes, HeldOnce, PumpHolds, NoBuf, Buffer, read
<1>2. CASE PumpTakesBuffer
  <2>1. /\ available # <<>> /\ available \in Seq(Buffer)
        /\ pbuf' = available[1] /\ available' = Tail(available) /\ ppc' = "fill"
        /\ UNCHANGED <<chunks, cur, pout>> /\ pbuf = NoBuf /\ pout.buf = NoBuf
    BY <1>2, HeadTaken DEF PumpTakesBuffer, HolderInv, HolderTypes, PumpHolds, read
  <2>2. HolderTypes' /\ PumpHolds'
    BY <2>1, HeadTaken DEF HolderInv, HolderTypes, PumpHolds, Buffer, NoBuf
  <2>3. /\ \A i \in 1 .. Len(available') :
             /\ available'[i] = available[i + 1]
             /\ i + 1 \in 1 .. Len(available) /\ i + 1 # 1
        /\ 1 \in 1 .. Len(available) /\ pbuf' \in Buffer
    BY <2>1, HeadTaken
  <2>4. \A i, j \in 1 .. Len(available') : i + 1 = j + 1 => i = j
    OBVIOUS
  <2>5. pbuf' # NoBuf
    BY <2>3 DEF Buffer, NoBuf
  <2>6. HeldOnce
    BY DEF HolderInv
  <2>7. /\ \A i, j \in 1 .. Len(available') : available'[i] = available'[j] => i = j
        /\ \A i \in 1 .. Len(available') : available'[i] # pbuf' /\ available'[i] # cur
        /\ pbuf' # cur
    BY <2>1, <2>3, <2>4, <2>6 DEF HeldOnce
  <2>8. /\ \A i \in 1 .. Len(available'), j \in 1 .. Len(chunks) : available'[i] # chunks[j].buf
        /\ \A j \in 1 .. Len(chunks) : chunks[j].buf # pbuf'
    BY <2>1, <2>3, <2>6 DEF HeldOnce
  <2>9. HeldOnce'
    BY <2>1, <2>5, <2>6, <2>7, <2>8 DEF HeldOnce
  <2> QED BY <2>2, <2>9 DEF HolderInv
<1>3. CASE PumpEntersSource \/ PumpReadsEnd \/ PumpReadsNothing
  <2>1. /\ ppc' \in {"fill", "reading", "send"} /\ ppc \in {"fill", "reading"}
        /\ pout' = pout \/ pout' \in {[buf |-> NoBuf, err |-> "eof"], [buf |-> NoBuf, err |-> "fail"]}
        /\ UNCHANGED <<available, chunks, pbuf, cur>>
    BY <1>3 DEF PumpEntersSource, PumpReadsEnd, PumpReadsNothing, queues, read
  <2>2. pout' \in Batch /\ (pout'.buf # NoBuf => pout' = pout)
    BY <2>1 DEF HolderInv, HolderTypes, Batch, NoBuf
  <2>3. ppc' \notin {"off", "start"} /\ pout.buf = NoBuf /\ pbuf # NoBuf
    BY <2>1 DEF HolderInv, PumpHolds
  <2>4. HolderTypes' /\ PumpHolds'
    BY <2>1, <2>2, <2>3 DEF HolderInv, HolderTypes, PumpHolds
  <2>5. HeldOnce'
    BY <2>1 DEF HolderInv, HeldOnce
  <2> QED BY <2>4, <2>5 DEF HolderInv
<1>4. CASE PumpReads
  <2>1. PICK r \in SourceRead :
          /\ pout' = [buf |-> IF r[1] = 0 THEN NoBuf ELSE pbuf,
                      err |-> IF sizeErr' THEN "fail" ELSE r[2]]
          /\ ppc' = "send" /\ ppc = "reading"
          /\ UNCHANGED <<available, chunks, pbuf, cur>>
    BY <1>4 DEF PumpReads, Staged, read
  <2>2. r[2] \in {"nil", "eof", "fail"}
    BY DEF SourceRead
  <2> QED BY <2>1, <2>2 DEF HolderInv, HolderTypes, HeldOnce, PumpHolds, Batch, NoBuf
<1>5. CASE PumpSends
  <2>1. /\ chunks' = Append(chunks, pout) /\ pout' = Nothing /\ pbuf' = NoBuf
        /\ ppc = "send" /\ ppc' \in {"exit", "buffer"} /\ UNCHANGED <<available, cur>>
    BY <1>5 DEF PumpSends, read
  <2>2. /\ chunks' \in Seq(Batch) /\ Len(chunks') = Len(chunks) + 1 /\ Len(chunks) \in Nat
        /\ chunks'[Len(chunks) + 1] = pout
        /\ \A i \in 1 .. Len(chunks) : chunks'[i] = chunks[i]
    BY <2>1, Appended DEF HolderInv, HolderTypes
  <2>3. HolderTypes' /\ PumpHolds'
    BY <2>1, <2>2 DEF HolderInv, HolderTypes, PumpHolds, Nothing, Batch, NoBuf
  <2>4. /\ \A j \in 1 .. Len(chunks') : j \in 1 .. Len(chunks) \/ j = Len(chunks) + 1
        /\ Len(chunks) + 1 \notin 1 .. Len(chunks)
    BY <2>2
  <2>5. HeldOnce /\ (pout.buf # NoBuf => pout.buf = pbuf)
    BY DEF HolderInv, PumpHolds
  <2>6. \A j \in 1 .. Len(chunks') : chunks'[j].buf # NoBuf =>
           \/ j \in 1 .. Len(chunks) /\ chunks'[j] = chunks[j] /\ chunks[j].buf # pbuf
           \/ j = Len(chunks) + 1 /\ chunks'[j].buf = pbuf
    BY <2>2, <2>4, <2>5 DEF HeldOnce
  <2>7. \A i, j \in 1 .. Len(chunks') :
           chunks'[i].buf # NoBuf /\ chunks'[i].buf = chunks'[j].buf => i = j
    BY <2>5, <2>6 DEF HeldOnce
  <2>8. /\ \A i \in 1 .. Len(available), j \in 1 .. Len(chunks') : available[i] # chunks'[j].buf
        /\ \A j \in 1 .. Len(chunks') : chunks'[j].buf # NoBuf => chunks'[j].buf # cur
    BY <2>5, <2>6, FreeIsReal DEF HeldOnce
  <2>9. HeldOnce'
    BY <2>1, <2>5, <2>7, <2>8, FreeIsReal DEF HeldOnce
  <2> QED BY <2>3, <2>9 DEF HolderInv
<1>6. CASE PumpStops
  <2>1. /\ ppc' = "exit" /\ pbuf' = NoBuf /\ pout' = Nothing /\ ppc \notin {"off", "start"}
        /\ UNCHANGED <<available, chunks, cur>>
    BY <1>6 DEF PumpStops, queues, read
  <2>2. HolderTypes' /\ PumpHolds'
    BY <2>1 DEF HolderInv, HolderTypes, PumpHolds, Nothing, Batch, NoBuf
  <2>3. HeldOnce'
    BY <2>1, FreeIsReal DEF HolderInv, HeldOnce
  <2> QED BY <2>2, <2>3 DEF HolderInv
<1>7. CASE PumpExits
  BY <1>7 DEF PumpExits, HolderInv, HolderTypes, HeldOnce, PumpHolds, queues, read
<1> QED BY <1>1, <1>2, <1>3, <1>4, <1>5, <1>6, <1>7 DEF PumpStep

\* A batch that is given back moves from Read to the free list.
LEMMA RecycleHolder ==
  ASSUME HolderInv, Recycle, UNCHANGED <<chunks, pbuf, pout, ppc>>
  PROVE  HolderInv'
<1>1. CASE cur = NoBuf
  BY <1>1 DEF Recycle, HolderInv, HolderTypes, HeldOnce, PumpHolds
<1>2. CASE cur # NoBuf
  <2>1. /\ available' = Append(available, cur) /\ cur' = NoBuf
        /\ cur \in Buffer /\ ppc \notin {"off", "start"}
    BY <1>2, CountFacts DEF Recycle, HolderInv, HolderTypes, PumpHolds, Buffer, NoBuf
  <2>2. /\ available' \in Seq(Buffer) /\ Len(available') = Len(available) + 1
        /\ Len(available) \in Nat /\ available'[Len(available) + 1] = cur
        /\ \A i \in 1 .. Len(available) : available'[i] = available[i]
    BY <2>1, Appended DEF HolderInv, HolderTypes
  <2>3. HolderTypes' /\ PumpHolds'
    BY <2>1, <2>2, CountFacts DEF HolderInv, HolderTypes, PumpHolds, NoBuf
  <2>4. HeldOnce'
    BY <1>2, <2>1, <2>2, FreeIsReal DEF HolderInv, HeldOnce
  <2> QED BY <2>3, <2>4 DEF HolderInv
<1> QED BY <1>1, <1>2

\* Steps that move no buffer.
LEMMA SameHolders ==
  ASSUME HolderInv, UNCHANGED <<available, chunks, pbuf, pout, cur, ppc>>
  PROVE  HolderInv'
  BY DEF HolderInv, HolderTypes, HeldOnce, PumpHolds

\* Read takes a batch from the queue and gives it back when it is consumed.
LEMMA ReadHolder == ASSUME HolderInv, QuietInv, ReadStep PROVE HolderInv'
<1>1. CASE ReadBegins \/ RecycleBatch \/ ReadEnds
  BY <1>1, RecycleHolder, SameHolders DEF ReadBegins, RecycleBatch, ReadEnds, pump
<1>2. CASE StartPump
  <2>1. ppc' = ppc \/ (ppc = "off" /\ ppc' = "start")
    BY <1>2 DEF StartPump, QuietInv
  <2> QED BY <1>2, <2>1 DEF StartPump, HolderInv, HolderTypes, HeldOnce, PumpHolds, queues
<1>3. CASE CopyOut \/ ReportWire \/ ReadSeesClose
  BY <1>3, SameHolders DEF CopyOut, ReportWire, ReadSeesClose, queues, pump
<1>4. CASE ReceiveChunk
  <2>1. /\ chunks # <<>> /\ chunks \in Seq(Batch) /\ chunks' = Tail(chunks) /\ cur = NoBuf
        /\ cur' \in {NoBuf, chunks[1].buf} /\ UNCHANGED <<available, pbuf, pout, ppc>>
    BY <1>4, HeadTaken DEF ReceiveChunk, HolderInv, HolderTypes, pump
  <2>2. /\ chunks[1] \in Batch /\ chunks' \in Seq(Batch) /\ Len(chunks) \in Nat \ {0}
        /\ Len(chunks') = Len(chunks) - 1
        /\ \A i \in 1 .. Len(chunks') : chunks'[i] = chunks[i + 1] /\ i + 1 \in 2 .. Len(chunks)
    BY <2>1, HeadTaken
  <2>3. chunks[1].buf \in 0 .. Count /\ cur' \in 0 .. Count
    BY <2>1, <2>2, CountFacts DEF Batch, NoBuf
  <2>4. HolderTypes' /\ PumpHolds'
    BY <2>1, <2>2, <2>3 DEF HolderInv, HolderTypes, PumpHolds
  <2>5. HeldOnce'
    BY <2>1, <2>2, FreeIsReal DEF HolderInv, HeldOnce
  <2> QED BY <2>4, <2>5 DEF HolderInv
<1> QED BY <1>1, <1>2, <1>3, <1>4 DEF ReadStep

\* Free list, pump, queue and Read never share a buffer.
LEMMA HolderNext == ASSUME HolderInv, QuietInv, ExactInv, [Next]_vars PROVE HolderInv'
<1>1. CASE CloseLocks \/ UNCHANGED vars
  BY <1>1, SameHolders DEF CloseLocks, vars, queues, pump, read
<1>2. CASE CloseTidies
  BY <1>2, SameHolders, RecycleHolder DEF CloseTidies, pump
<1> QED BY <1>1, <1>2, PumpHolder, ReadHolder DEF Next

\* Every staging buffer is in one place at a time.
THEOREM UploadBuffersHaveOneHolder == Spec => []BuffersHaveOneHolder
<1>1. HolderInv => BuffersHaveOneHolder
  <2> SUFFICES ASSUME HolderInv PROVE BuffersHaveOneHolder
    OBVIOUS
  <2> DEFINE free == {available[i] : i \in DOMAIN available}
             queued == {chunks[i].buf : i \in Queued}
             mine == {pbuf} \ {NoBuf}
             theirs == {cur} \ {NoBuf}
  <2>1. DOMAIN available = 1 .. Len(available) /\ DOMAIN chunks = 1 .. Len(chunks)
    BY DEF HolderInv, HolderTypes
  <2>2. /\ \A i, j \in DOMAIN available : available[i] = available[j] => i = j
        /\ \A i, j \in Queued : chunks[i].buf = chunks[j].buf => i = j
    BY <2>1 DEF HolderInv, HeldOnce, Queued
  <2>3. /\ free \cap queued = {} /\ free \cap mine = {} /\ free \cap theirs = {}
        /\ queued \cap mine = {} /\ queued \cap theirs = {} /\ mine \cap theirs = {}
    BY <2>1 DEF HolderInv, HeldOnce, Queued
  <2> HIDE DEF free, queued, mine, theirs
  <2>4. \A P, Q \in {<<1, free>>, <<2, queued>>, <<3, mine>>, <<4, theirs>>} :
          P[1] # Q[1] => P[2] \cap Q[2] = {}
    BY <2>3
  <2> QED BY <2>2, <2>4 DEF BuffersHaveOneHolder, free, queued, mine, theirs
<1> QED BY <1>1, HolderInit, HolderNext, QuietInit, QuietNext, ExactInit, ExactNext, PTL DEF Spec

-----------------------------------------------------------------------------
(* Order.  Until Close, the bytes sent, the rest of the batch being         *)
(* consumed, the queued batches and the one about to be queued follow one   *)
(* another up to the position of the source.                                *)

FirstByte(s) == s[1]
AfterLast(s) == s[1] + Len(s)

\* A batch is a run of consecutive bytes, at least one.
Run(s) == Len(s) > 0 /\ \A i \in 1 .. Len(s) : s[i] = s[1] + i - 1

ReadUpTo == IF cur = NoBuf THEN Len(sent) ELSE AfterLast(mem[cur])
QueuedUpTo == IF chunks = <<>> THEN ReadUpTo ELSE AfterLast(mem[chunks[Len(chunks)].buf])

\* Read stands in a batch right after what was sent.
CurrentFollows ==
  /\ cur # NoBuf =>
       /\ Run(mem[cur]) /\ curOff \in 0 .. Len(mem[cur])
       /\ FirstByte(mem[cur]) + curOff = Len(sent)
  /\ rpc = "recycle" /\ cur # NoBuf => curOff = Len(mem[cur])

\* Each queued batch follows the one before it; one without data is the last.
Follows(i) ==
  IF chunks[i].buf = NoBuf
    THEN i = Len(chunks) /\ ppc \in {"exit", "done"}
    ELSE /\ Run(mem[chunks[i].buf])
         /\ FirstByte(mem[chunks[i].buf])
              = IF i = 1 THEN ReadUpTo ELSE AfterLast(mem[chunks[i - 1].buf])
QueueFollows == \A i \in 1 .. Len(chunks) : Follows(i)

\* The pump continues where the queue ends.
PumpFollows ==
  ppc \notin {"exit", "done"} =>
    IF pout.buf = NoBuf
      THEN QueuedUpTo = srcPos
      ELSE /\ Run(mem[pout.buf])
           /\ FirstByte(mem[pout.buf]) = QueuedUpTo /\ AfterLast(mem[pout.buf]) = srcPos

Sequential == CurrentFollows /\ QueueFollows /\ PumpFollows

OrderTypes ==
  /\ mem \in [Buffer -> Seq(Nat)] /\ sent \in Seq(Nat)
  /\ cpc # "open" => closeCalled

OrderInv == OrderTypes /\ SentInOrder /\ (~closeCalled => Sequential)

\* Nothing is read, queued or sent yet.
LEMMA OrderInit == Init => OrderInv
  BY DEF Init, OrderInv, OrderTypes, SentInOrder, Sequential, CurrentFollows, QueueFollows, Follows,
       PumpFollows, QueuedUpTo, ReadUpTo, Nothing

\* The pump fills a buffer nobody else holds with the next bytes.
LEMMA PumpReadsOrder ==
  ASSUME OrderInv, HolderInv, ExactInv, PumpReads
  PROVE  OrderInv'
<1>1. PICK r \in SourceRead :
        /\ mem' = [mem EXCEPT ![pbuf] = [i \in 1 .. r[1] |-> srcPos + i - 1]]
        /\ pout' = [buf |-> IF r[1] = 0 THEN NoBuf ELSE pbuf,
                    err |-> IF sizeErr' THEN "fail" ELSE r[2]]
        /\ srcPos' = srcPos + r[1]
  BY DEF PumpReads, Staged
<1>0. /\ ppc = "reading" /\ ppc' = "send"
      /\ UNCHANGED <<chunks, cur, curOff, rpc, sent, closeCalled, cpc>>
  BY DEF PumpReads, Staged, owner, read
<1>2. r[1] \in Nat
  <2>1. r[1] \in 0 .. Smaller(Size, remaining)
    BY DEF SourceRead
  <2> QED BY <2>1
<1>3. pbuf \in Buffer /\ pout.buf = NoBuf /\ pbuf # cur
      /\ \A i \in 1 .. Len(chunks) : chunks[i].buf \in 0 .. Count /\ chunks[i].buf # pbuf
  <2>1. \A i \in 1 .. Len(chunks) : chunks[i] \in Batch
    BY DEF HolderInv, HolderTypes
  <2> QED BY <1>0, <2>1, CountFacts
       DEF HolderInv, HolderTypes, HeldOnce, PumpHolds, Buffer, NoBuf, Batch
<1>4. [i \in 1 .. r[1] |-> srcPos + i - 1] \in Seq(Nat)
  BY <1>2 DEF ExactInv
<1>5. OrderTypes' /\ SentInOrder'
  BY <1>0, <1>1, <1>4 DEF OrderInv, OrderTypes, SentInOrder
<1>6. \A b \in Buffer \ {pbuf} : mem'[b] = mem[b]
  BY <1>1 DEF OrderInv, OrderTypes
<1>7. ASSUME ~closeCalled PROVE Sequential'
  <2>1. Sequential /\ cur \in 0 .. Count /\ chunks \in Seq(Batch) /\ Len(chunks) \in Nat
    BY <1>7 DEF OrderInv, HolderInv, HolderTypes
  <2>2. cur # NoBuf => mem'[cur] = mem[cur]
    BY <1>3, <1>6, <2>1, CountFacts DEF Buffer, NoBuf
  <2>3. \A i \in 1 .. Len(chunks) : chunks[i].buf # NoBuf => mem'[chunks[i].buf] = mem[chunks[i].buf]
    BY <1>3, <1>6, CountFacts DEF Buffer, NoBuf
  <2>4. CurrentFollows' /\ ReadUpTo' = ReadUpTo
    BY <1>0, <2>1, <2>2 DEF Sequential, CurrentFollows, ReadUpTo
  <2>5. \A i \in 1 .. Len(chunks) : chunks[i].buf # NoBuf
    BY <1>0, <2>1 DEF Sequential, QueueFollows, Follows
  <2>6. QueueFollows'
    <3> SUFFICES ASSUME NEW i \in 1 .. Len(chunks) PROVE Follows(i)'
      BY <1>0 DEF QueueFollows
    <3>1. Follows(i) /\ chunks[i].buf # NoBuf /\ mem'[chunks[i].buf] = mem[chunks[i].buf]
      BY <2>1, <2>3, <2>5 DEF Sequential, QueueFollows
    <3>2. i # 1 => mem'[chunks[i - 1].buf] = mem[chunks[i - 1].buf]
      BY <2>1, <2>3, <2>5
    <3> QED BY <1>0, <2>4, <3>1, <3>2 DEF Follows
  <2>7. QueuedUpTo' = QueuedUpTo
    <3>1. chunks # <<>> => Len(chunks) \in 1 .. Len(chunks)
      BY <2>1
    <3> QED BY <1>0, <2>3, <2>4, <2>5, <3>1 DEF QueuedUpTo
  <2>8. QueuedUpTo = srcPos
    BY <1>0, <1>3, <2>1 DEF Sequential, PumpFollows
  <2>9. PumpFollows'
    <3>1. CASE r[1] = 0
      BY <1>0, <1>1, <2>7, <2>8, <3>1 DEF PumpFollows, ExactInv
    <3>2. CASE r[1] # 0
      <4>1. mem'[pbuf] = [i \in 1 .. r[1] |-> srcPos + i - 1] /\ pout'.buf = pbuf
        BY <1>1, <1>3, <3>2 DEF OrderInv, OrderTypes
      <4>2. /\ Len(mem'[pbuf]) = r[1] /\ mem'[pbuf][1] = srcPos
            /\ \A i \in 1 .. r[1] : mem'[pbuf][i] = srcPos + i - 1
        BY <1>2, <1>4, <3>2, <4>1 DEF ExactInv
      <4>3. pout'.buf # NoBuf /\ r[1] > 0
        BY <1>2, <1>3, <3>2, <4>1 DEF Buffer, NoBuf
      <4>4. Run(mem'[pbuf]) /\ FirstByte(mem'[pbuf]) = srcPos
        BY <4>2, <4>3 DEF Run, FirstByte
      <4>5. AfterLast(mem'[pbuf]) = srcPos'
        BY <1>1, <4>2 DEF AfterLast
      <4> QED BY <2>7, <2>8, <4>1, <4>3, <4>4, <4>5 DEF PumpFollows
    <3> QED BY <3>1, <3>2
  <2> QED BY <2>4, <2>6, <2>9 DEF Sequential
<1> QED BY <1>0, <1>5, <1>7 DEF OrderInv

\* Read copies from where it stands.
LEMMA CopyOutOrder ==
  ASSUME OrderInv, HolderInv, CopyOut
  PROVE  OrderInv'
<1>1. PICK n \in 1 .. Len(mem[cur]) - curOff :
        /\ sent' = sent \o SubSeq(mem[cur], curOff + 1, curOff + n)
        /\ curOff' = curOff + n
  BY DEF CopyOut
<1>2. /\ cur # NoBuf /\ ~closeCalled /\ rpc' = "report"
      /\ UNCHANGED <<mem, chunks, cur, pout, ppc, srcPos, closeCalled, cpc>>
  BY DEF CopyOut, queues, owner, pump, source
<1>3. /\ Sequential /\ Run(mem[cur]) /\ FirstByte(mem[cur]) + curOff = Len(sent)
      /\ curOff \in 0 .. Len(mem[cur])
  BY <1>2 DEF OrderInv, Sequential, CurrentFollows
<1>4. cur \in Buffer /\ mem[cur] \in Seq(Nat) /\ Len(mem[cur]) \in Nat /\ sent \in Seq(Nat)
      /\ Len(sent) \in Nat
  BY <1>2, CountFacts DEF OrderInv, OrderTypes, HolderInv, HolderTypes, Buffer, NoBuf
<1>5. n \in Nat /\ curOff + n <= Len(mem[cur]) /\ curOff \in Nat
  BY <1>1, <1>3, <1>4
<1>6. /\ SubSeq(mem[cur], curOff + 1, curOff + n) \in Seq(Nat)
      /\ Len(SubSeq(mem[cur], curOff + 1, curOff + n)) = n
      /\ \A i \in 1 .. n : SubSeq(mem[cur], curOff + 1, curOff + n)[i] = mem[cur][curOff + i]
  <2>1. /\ curOff + 1 \in Int /\ curOff + n \in Int /\ curOff + n - (curOff + 1) + 1 = n
        /\ curOff + 1 <= curOff + n
        /\ \A i \in curOff + 1 .. curOff + n : mem[cur][i] \in Nat
        /\ \A i \in 1 .. n : curOff + 1 + i - 1 = curOff + i
    BY <1>4, <1>5, ElementOfSeq
  <2> DEFINE first == curOff + 1
             last == curOff + n
             buffer == mem[cur]
  <2>2. /\ first \in Int /\ last \in Int /\ last - first + 1 = n /\ first <= last
        /\ \A i \in first .. last : buffer[i] \in Nat
        /\ \A i \in 1 .. n : first + i - 1 = curOff + i
    BY <2>1
  <2> HIDE DEF first, last, buffer
  <2>3. /\ SubSeq(buffer, first, last) \in Seq(Nat)
        /\ Len(SubSeq(buffer, first, last)) = IF first <= last THEN last - first + 1 ELSE 0
        /\ \A i \in 1 .. last - first + 1 : SubSeq(buffer, first, last)[i] = buffer[first + i - 1]
    BY ONLY <2>2, SubSeqProperties
  <2> DEFINE piece == SubSeq(buffer, first, last)
  <2> HIDE DEF piece
  <2>4. piece \in Seq(Nat) /\ Len(piece) = n /\ \A i \in 1 .. n : piece[i] = buffer[curOff + i]
    BY ONLY <2>2, <2>3 DEF piece
  <2> QED BY <2>4 DEF piece, first, last, buffer
<1>7. /\ sent' \in Seq(Nat) /\ Len(sent') = Len(sent) + n
      /\ \A i \in 1 .. Len(sent) : sent'[i] = sent[i]
      /\ \A i \in 1 .. n : sent'[Len(sent) + i] = mem[cur][curOff + i]
  <2> DEFINE piece == SubSeq(mem[cur], curOff + 1, curOff + n)
  <2>1. piece \in Seq(Nat) /\ Len(piece) = n
        /\ \A i \in 1 .. n : piece[i] = mem[cur][curOff + i]
    BY <1>6
  <2>2. sent' = sent \o piece
    BY <1>1
  <2> HIDE DEF piece
  <2>3. /\ sent' \in Seq(Nat) /\ Len(sent') = Len(sent) + n
        /\ \A i \in 1 .. Len(sent) + n :
             sent'[i] = IF i <= Len(sent) THEN sent[i] ELSE piece[i - Len(sent)]
    BY <1>4, <2>1, <2>2, ConcatProperties
  <2>4. ASSUME NEW i \in 1 .. n PROVE sent'[Len(sent) + i] = piece[i]
    <3>1. Len(sent) + i \in 1 .. Len(sent) + n /\ ~(Len(sent) + i <= Len(sent))
          /\ (Len(sent) + i) - Len(sent) = i
      BY <1>4, <1>5
    <3> QED BY <2>3, <3>1
  <2>5. ASSUME NEW i \in 1 .. Len(sent) PROVE sent'[i] = sent[i]
    <3>1. i \in 1 .. Len(sent) + n /\ i <= Len(sent)
      BY <1>4, <1>5
    <3> QED BY <2>3, <3>1
  <2> QED BY <2>1, <2>3, <2>4, <2>5
<1>8. \A i \in 1 .. n : mem[cur][curOff + i] = Len(sent) + i - 1
  <2>1. mem[cur][1] \in Nat
    BY <1>3, <1>4 DEF Run
  <2>2. \A i \in 1 .. n : curOff + i \in 1 .. Len(mem[cur])
    BY <1>4, <1>5
  <2>3. \A j \in 1 .. Len(mem[cur]) : mem[cur][j] = mem[cur][1] + j - 1
    BY <1>3 DEF Run
  <2>4. \A i \in 1 .. n : mem[cur][curOff + i] = mem[cur][1] + (curOff + i) - 1
    BY <2>2, <2>3
  <2>5. mem[cur][1] + curOff = Len(sent)
    BY <1>3 DEF FirstByte
  <2>6. ASSUME NEW i \in 1 .. n PROVE mem[cur][1] + (curOff + i) - 1 = (mem[cur][1] + curOff) + i - 1
    BY <1>5, <2>1
  <2> QED BY <2>4, <2>5, <2>6
<1>9. SentInOrder'
  <2> SUFFICES ASSUME NEW i \in 1 .. Len(sent') PROVE sent'[i] = i - 1
    BY DEF SentInOrder
  <2>1. CASE i <= Len(sent)
    BY <1>4, <1>7, <2>1 DEF OrderInv, SentInOrder
  <2>2. CASE i > Len(sent)
    <3>1. i - Len(sent) \in 1 .. n /\ i = Len(sent) + (i - Len(sent))
      BY <1>4, <1>5, <1>7, <2>2
    <3>2. sent'[i] = Len(sent) + (i - Len(sent)) - 1
      BY <1>7, <1>8, <3>1
    <3> QED BY <1>4, <3>2
  <2> QED BY <1>4, <2>1, <2>2
<1>10. CurrentFollows' /\ ReadUpTo' = ReadUpTo
  <2>1. curOff' \in 0 .. Len(mem[cur])
    BY <1>1, <1>4, <1>5
  <2>2. FirstByte(mem[cur]) + curOff' = Len(sent')
    <3>1. FirstByte(mem[cur]) \in Nat
      <4>1. 1 \in 1 .. Len(mem[cur])
        BY <1>3, <1>4 DEF Run
      <4> QED BY <1>4, <4>1, ElementOfSeq DEF FirstByte
    <3> QED BY <1>1, <1>3, <1>4, <1>5, <1>7, <3>1
  <2> QED BY <1>2, <1>3, <2>1, <2>2 DEF CurrentFollows, ReadUpTo
<1>11. QueueFollows' /\ PumpFollows'
  BY <1>2, <1>3, <1>10 DEF Sequential, QueueFollows, Follows, PumpFollows, QueuedUpTo
<1> QED BY <1>2, <1>7, <1>9, <1>10, <1>11 DEF OrderInv, OrderTypes, Sequential

\* Steps that leave batches and positions alone, apart from the control of
\* Read and pump.
LEMMA SameOrder ==
  ASSUME OrderInv, UNCHANGED <<mem, sent, srcPos, chunks, cur, curOff>>,
         pout'.buf = pout.buf, cpc' # "open" => closeCalled',
         closeCalled => closeCalled',
         ppc \in {"exit", "done"} <=> ppc' \in {"exit", "done"},
         rpc' = "recycle" /\ cur # NoBuf /\ ~closeCalled => curOff = Len(mem[cur])
  PROVE  OrderInv'
  BY DEF OrderInv, OrderTypes, SentInOrder, Sequential, CurrentFollows, QueueFollows, Follows, PumpFollows,
       QueuedUpTo, ReadUpTo, FirstByte, AfterLast

\* After Close nothing is sent, so the order of what is left does not matter.
LEMMA ClosedOrder ==
  ASSUME OrderInv, closeCalled', UNCHANGED <<mem, sent>>
  PROVE  OrderInv'
  BY DEF OrderInv, OrderTypes, SentInOrder

\* The batch that is queued follows the one queued before it.
LEMMA PumpSendsOrder ==
  ASSUME OrderInv, HolderInv, PumpSends, ~closeCalled
  PROVE  OrderInv'
<1>1. /\ chunks' = Append(chunks, pout) /\ pout' = Nothing /\ ppc = "send"
      /\ ppc' = IF pout.buf = NoBuf \/ pout.err # "nil" THEN "exit" ELSE "buffer"
      /\ UNCHANGED <<mem, sent, srcPos, cur, curOff, rpc, closeCalled, cpc>>
  BY DEF PumpSends, read, owner, source
<1>2. /\ chunks' \in Seq(Batch) /\ Len(chunks') = Len(chunks) + 1 /\ Len(chunks) \in Nat
      /\ chunks' # <<>> /\ chunks'[Len(chunks) + 1] = pout
      /\ \A i \in 1 .. Len(chunks) : chunks'[i] = chunks[i]
      /\ chunks = <<>> <=> Len(chunks) = 0
  BY <1>1, Appended DEF HolderInv, HolderTypes
<1>3. Sequential /\ pout'.buf = NoBuf
  BY <1>1 DEF OrderInv, Nothing
<1>4. CurrentFollows' /\ ReadUpTo' = ReadUpTo
  BY <1>1, <1>3 DEF Sequential, CurrentFollows, ReadUpTo, FirstByte, AfterLast
<1>5. \A i \in 1 .. Len(chunks) : chunks[i].buf # NoBuf
  BY <1>1, <1>3 DEF Sequential, QueueFollows, Follows
<1>6. pout.buf # NoBuf =>
        /\ Run(mem[pout.buf]) /\ AfterLast(mem[pout.buf]) = srcPos
        /\ FirstByte(mem[pout.buf]) = IF chunks = <<>> THEN ReadUpTo
                                                  ELSE AfterLast(mem[chunks[Len(chunks)].buf])
  BY <1>1, <1>3 DEF Sequential, PumpFollows, QueuedUpTo
<1>7. QueueFollows'
  <2> SUFFICES ASSUME NEW i \in 1 .. Len(chunks') PROVE Follows(i)'
    BY DEF QueueFollows
  <2>1. CASE i <= Len(chunks)
    <3>1. /\ chunks'[i] = chunks[i] /\ i \in 1 .. Len(chunks)
          /\ i # 1 => chunks'[i - 1] = chunks[i - 1]
      BY <1>2, <2>1
    <3> QED BY <1>1, <1>3, <1>4, <1>5, <3>1 DEF Sequential, QueueFollows, Follows, FirstByte, AfterLast
  <2>2. CASE i = Len(chunks) + 1
    <3>1. /\ chunks'[i] = pout /\ i = Len(chunks') /\ (i = 1 <=> chunks = <<>>)
          /\ i # 1 => chunks'[i - 1] = chunks[Len(chunks)]
      BY <1>2, <2>2
    <3>2. pout.buf = NoBuf => ppc' \in {"exit", "done"}
      BY <1>1
    <3>3. pout.buf # NoBuf =>
            /\ Run(mem'[pout.buf])
            /\ FirstByte(mem'[pout.buf])
                 = IF i = 1 THEN ReadUpTo' ELSE AfterLast(mem'[chunks'[i - 1].buf])
      BY <1>1, <1>4, <1>6, <3>1
    <3> QED BY <3>1, <3>2, <3>3 DEF Follows
  <2> QED BY <1>2, <2>1, <2>2
<1>8. PumpFollows'
  BY <1>1, <1>2, <1>3, <1>6 DEF PumpFollows, QueuedUpTo, AfterLast
<1> QED BY <1>1, <1>4, <1>7, <1>8 DEF OrderInv, OrderTypes, SentInOrder, Sequential

\* The batch that is received is the one that follows what was sent.
LEMMA ReceiveChunkOrder ==
  ASSUME OrderInv, HolderInv, ReceiveChunk, ~closeCalled
  PROVE  OrderInv'
<1>1. /\ chunks # <<>> /\ chunks' = Tail(chunks) /\ cur = NoBuf
      /\ rpc' # "recycle" /\ cur' = chunks[1].buf
      /\ cur' # NoBuf => curOff' = 0
      /\ UNCHANGED <<mem, sent, srcPos, pout, ppc, closeCalled, cpc>>
  BY HeadTaken DEF ReceiveChunk, Finish, HolderInv, HolderTypes, pump, owner, source
<1>2. /\ Len(chunks) \in Nat \ {0} /\ chunks' \in Seq(Batch) /\ Len(chunks') = Len(chunks) - 1
      /\ \A i \in 1 .. Len(chunks') : chunks'[i] = chunks[i + 1] /\ i + 1 \in 2 .. Len(chunks)
      /\ chunks' = <<>> <=> Len(chunks') = 0
      /\ chunks[1] \in Batch
  BY <1>1, HeadTaken DEF HolderInv, HolderTypes
<1>3. Sequential /\ ReadUpTo = Len(sent)
  BY <1>1 DEF OrderInv, ReadUpTo
<1>4. CASE chunks[1].buf = NoBuf
  <2>1. Len(chunks) = 1 /\ ppc \in {"exit", "done"} /\ cur' = NoBuf
    <3>1. 1 \in 1 .. Len(chunks)
      BY <1>2
    <3>2. Follows(1)
      BY <1>3, <3>1 DEF Sequential, QueueFollows
    <3> QED BY <1>1, <1>4, <3>2 DEF Follows
  <2>2. Len(chunks') = 0
    BY <1>2, <2>1
  <2>3. Sequential'
    <3>1. CurrentFollows' /\ PumpFollows'
      BY <1>1, <2>1 DEF CurrentFollows, PumpFollows
    <3>2. QueueFollows'
      BY <2>2 DEF QueueFollows
    <3> QED BY <3>1, <3>2 DEF Sequential
  <2> QED BY <1>1, <2>3 DEF OrderInv, OrderTypes, SentInOrder
<1>5. CASE chunks[1].buf # NoBuf
  <2>1. Run(mem[chunks[1].buf]) /\ FirstByte(mem[chunks[1].buf]) = Len(sent)
    BY <1>2, <1>3, <1>5 DEF Sequential, QueueFollows, Follows
  <2>2. cur' # NoBuf /\ curOff' = 0 /\ cur' \in Buffer
    BY <1>1, <1>2, <1>5, CountFacts DEF Batch, Buffer, NoBuf
  <2>3. Len(mem[cur']) \in Nat /\ mem[cur'] \in Seq(Nat) /\ Len(sent) \in Nat
    BY <2>2 DEF OrderInv, OrderTypes
  <2>4. CurrentFollows'
    <3>1. Run(mem[cur']) /\ FirstByte(mem[cur']) + 0 = Len(sent) /\ 0 \in 0 .. Len(mem[cur'])
      BY <1>1, <2>1, <2>3
    <3> QED BY <1>1, <2>2, <3>1 DEF CurrentFollows
  <2>5. ReadUpTo' = AfterLast(mem[chunks[1].buf])
    BY <1>1, <2>2 DEF ReadUpTo, AfterLast
  <2>6. QueueFollows'
    <3> SUFFICES ASSUME NEW i \in 1 .. Len(chunks') PROVE Follows(i)'
      BY DEF QueueFollows
    <3>1. /\ chunks'[i] = chunks[i + 1] /\ i + 1 \in 2 .. Len(chunks) /\ i + 1 # 1
          /\ (i + 1) - 1 = i /\ i \in Nat
          /\ i # 1 => i - 1 \in 1 .. Len(chunks') /\ chunks'[i - 1] = chunks[i]
          /\ i + 1 = Len(chunks) => i = Len(chunks')
      <4>1. i # 1 => i - 1 \in 1 .. Len(chunks') /\ (i - 1) + 1 = i
        BY <1>2
      <4> QED BY <1>2, <4>1
    <3>2. IF chunks[i + 1].buf = NoBuf
            THEN i + 1 = Len(chunks) /\ ppc \in {"exit", "done"}
            ELSE /\ Run(mem[chunks[i + 1].buf])
                 /\ FirstByte(mem[chunks[i + 1].buf]) = AfterLast(mem[chunks[i].buf])
      <4>1. i + 1 \in 1 .. Len(chunks)
        BY <1>2, <3>1
      <4> QED BY <1>3, <3>1, <4>1 DEF Sequential, QueueFollows, Follows
    <3> QED BY <1>1, <2>5, <3>1, <3>2 DEF Follows
  <2>7. QueuedUpTo' = QueuedUpTo
    <3>1. CASE Len(chunks) = 1
      BY <1>1, <1>2, <2>5, <3>1 DEF QueuedUpTo
    <3>2. CASE Len(chunks) # 1
      <4>1. chunks' # <<>> /\ chunks'[Len(chunks')] = chunks[Len(chunks)]
        BY <1>2, <3>2
      <4> QED BY <1>1, <4>1 DEF QueuedUpTo, AfterLast
    <3> QED BY <3>1, <3>2
  <2>8. PumpFollows'
    BY <1>1, <1>3, <2>7 DEF Sequential, PumpFollows, FirstByte, AfterLast
  <2> QED BY <1>1, <2>4, <2>6, <2>8 DEF OrderInv, OrderTypes, SentInOrder, Sequential
<1> QED BY <1>4, <1>5

\* A batch is given back once all of it was sent.
LEMMA RecycleBatchOrder ==
  ASSUME OrderInv, HolderInv, RecycleBatch, ~closeCalled
  PROVE  OrderInv'
<1>1. /\ rpc = "recycle" /\ rpc' = "finish" /\ cur' = NoBuf
      /\ UNCHANGED <<mem, sent, srcPos, chunks, pout, ppc, closeCalled, cpc>>
  BY DEF RecycleBatch, Recycle, pump, owner, source
<1>2. Sequential /\ cur \in 0 .. Count
  BY DEF OrderInv, HolderInv, HolderTypes
<1>3. ReadUpTo' = ReadUpTo
  BY <1>1, <1>2 DEF Sequential, CurrentFollows, ReadUpTo, FirstByte, AfterLast
<1>4. CurrentFollows' /\ QueueFollows' /\ PumpFollows'
  BY <1>1, <1>2, <1>3 DEF Sequential, CurrentFollows, QueueFollows, Follows, PumpFollows, QueuedUpTo, FirstByte, AfterLast
<1> QED BY <1>1, <1>4 DEF OrderInv, OrderTypes, SentInOrder, Sequential

\* Pump, Read and Close keep the order.
LEMMA OrderNext ==
  ASSUME OrderInv, HolderInv, QuietInv, ExactInv, [Next]_vars
  PROVE  OrderInv'
<1>1. CASE PumpStep
  <2>1. CASE PumpReads
    BY <2>1, PumpReadsOrder
  <2>2. CASE PumpSends
    <3>1. CASE closeCalled
      BY <2>2, <3>1, ClosedOrder DEF PumpSends, owner
    <3> QED BY <2>2, <3>1, PumpSendsOrder
  <2>3. CASE PumpStops
    BY <2>3, ClosedOrder DEF PumpStops, owner, queues
  <2>4. CASE \/ PumpAllocates \/ PumpTakesBuffer \/ PumpEntersSource \/ PumpReadsEnd
             \/ PumpReadsNothing \/ PumpExits
    <3>1. /\ UNCHANGED <<mem, sent, srcPos, chunks, cur, curOff, rpc, closeCalled, cpc>>
          /\ ppc \in {"exit", "done"} <=> ppc' \in {"exit", "done"}
      BY <2>4 DEF PumpAllocates, PumpTakesBuffer, PumpEntersSource, PumpReadsEnd, PumpReadsNothing,
           PumpExits, source, queues, owner, read
    <3>2. pout' = pout \/ (ppc = "reading" /\ pout'.buf = NoBuf)
      <4>1. CASE PumpReadsEnd
        BY <4>1 DEF PumpReadsEnd
      <4>2. CASE PumpReadsNothing
        BY <4>2 DEF PumpReadsNothing
      <4> QED BY <2>4, <4>1, <4>2 DEF PumpAllocates, PumpTakesBuffer, PumpEntersSource, PumpExits
    <3>3. pout'.buf = pout.buf
      BY <3>2 DEF HolderInv, PumpHolds
    <3> QED BY <3>1, <3>3, SameOrder DEF OrderInv, OrderTypes, Sequential, CurrentFollows
  <2> QED BY <1>1, <2>1, <2>2, <2>3, <2>4 DEF PumpStep
<1>2. CASE ReadStep
  <2>1. CASE CopyOut
    BY <2>1, CopyOutOrder
  <2>2. CASE closeCalled /\ ~CopyOut
    <3>1. UNCHANGED <<mem, sent, closeCalled>>
      BY <1>2, <2>2 DEF ReadStep, ReadBegins, StartPump, ReportWire, RecycleBatch, ReceiveChunk,
           ReadSeesClose, ReadEnds, queues, owner
    <3> QED BY <2>2, <3>1, ClosedOrder
  <2>3. CASE ~closeCalled /\ RecycleBatch
    BY <2>3, RecycleBatchOrder
  <2>4. CASE ~closeCalled /\ ReceiveChunk
    BY <2>4, ReceiveChunkOrder
  <2>5. CASE ~closeCalled /\ (ReadBegins \/ StartPump \/ ReportWire \/ ReadSeesClose \/ ReadEnds)
    <3>1. /\ UNCHANGED <<mem, sent, srcPos, chunks, cur, curOff, pout, closeCalled, cpc>>
          /\ ppc' = ppc \/ (ppc = "off" /\ ppc' = "start")
          /\ rpc' = "recycle" => curOff = Len(mem[cur])
      BY <2>5 DEF ReadBegins, StartPump, ReportWire, ReadSeesClose, ReadEnds, Finish, QuietInv,
           source, queues, owner, pump
    <3> QED BY <3>1, SameOrder DEF OrderInv, OrderTypes
  <2> QED BY <1>2, <2>1, <2>2, <2>3, <2>4, <2>5 DEF ReadStep
<1>3. CASE CloseLocks
  BY <1>3, ClosedOrder DEF CloseLocks, queues
<1>4. CASE CloseTidies
  BY <1>4, ClosedOrder DEF CloseTidies, owner, OrderInv, OrderTypes
<1>5. CASE UNCHANGED vars
  BY <1>5, SameOrder DEF vars, source, queues, owner, pump, read, OrderInv, OrderTypes, Sequential,
       CurrentFollows
<1> QED BY <1>1, <1>2, <1>3, <1>4, <1>5 DEF Next

\* What the transport consumed is the source's own bytes in order, however
\* pump, Read and Close interleave: no staging buffer is refilled under it.
THEOREM UploadSendsInOrder == Spec => []SentInOrder
<1>1. OrderInv => SentInOrder
  BY DEF OrderInv
<1> QED BY <1>1, OrderInit, OrderNext, HolderInit, HolderNext, QuietInit, QuietNext, ExactInit,
         ExactNext, PTL DEF Spec
=============================================================================
