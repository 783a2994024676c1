----------------------- MODULE ParallelPullStreamProofs -----------------------
(***************************************************************************)
(* Proofs about what the parallel puller delivers: for every blob length,  *)
(* chunk size, probe length and number of workers, Read is an ordered blob *)
(* stream (BlobStream), and the chunk it waits for is on its way.          *)
(***************************************************************************)
EXTENDS ParallelPullBufferProofs, SequenceTheorems

-----------------------------------------------------------------------------
(* How the blob is cut into chunks.                                        *)

LEMMA DivBounds ==
  ASSUME NEW a \in Nat, NEW p \in Nat \ {0}
  PROVE  a \div p \in Nat /\ (a \div p) * p <= a /\ a < (a \div p) * p + p
  OBVIOUS

LEMMA MulMono ==
  ASSUME NEW k \in Nat, NEW m \in Nat, NEW p \in Nat, k <= m
  PROVE  k * p \in Nat /\ m * p \in Nat /\ k * p <= m * p
  OBVIOUS

LEMMA MulSucc ==
  ASSUME NEW k \in Int, NEW p \in Nat
  PROVE  (k + 1) * p = k * p + p
  OBVIOUS

\* Where chunk c begins, and the end of the blob after the last one.
Upto(c) == IF c = NChunks THEN Total ELSE First(c)

\* The rounded-up division of the rest of the blob leaves a last chunk that
\* is neither empty nor longer than the others.
LEMMA LastChunk ==
  LET last == NChunks - 1 IN
  /\ last \in Nat /\ last * PullChunk \in Nat
  /\ last * PullChunk < Total - ProbeLen + PullChunk
  /\ Total - ProbeLen <= last * PullChunk
<1> DEFINE a == Total - ProbeLen + PullChunk - 1
           k == a \div PullChunk
<1>1. /\ a \in Nat /\ PullChunk \in Nat \ {0} /\ ProbeLen \in Nat /\ Total \in Nat
      /\ a = Total - ProbeLen + PullChunk - 1
  BY SizesAssumption
<1> HIDE DEF a
<1>2. k \in Nat /\ k * PullChunk <= a /\ a < k * PullChunk + PullChunk
  BY <1>1, DivBounds
<1> HIDE DEF k
<1>3. k * PullChunk \in Nat
  BY <1>1, <1>2, MulMono
<1>4. k * PullChunk < Total - ProbeLen + PullChunk /\ Total - ProbeLen <= k * PullChunk
  BY <1>1, <1>2, <1>3
<1>5. NChunks - 1 = k
  <2>1. NChunks = 1 + k
    BY DEF NChunks, k, a
  <2> QED BY <1>2, <2>1
<1> QED BY <1>2, <1>3, <1>4, <1>5

\* The chunks follow one another without a gap and fill the blob.
LEMMA ChunkSizes ==
  ASSUME NEW c \in Chunk
  PROVE  /\ First(c) \in Nat /\ Want(c) \in Nat \ {0}
         /\ First(c) + Want(c) = Upto(c + 1) /\ First(c) + Want(c) <= Total
<1>1. /\ PullChunk \in Nat \ {0} /\ ProbeLen \in Nat \ {0} /\ Total \in Nat
      /\ ProbeLen <= PullChunk /\ ProbeLen <= Total
  BY SizesAssumption
<1> DEFINE last == NChunks - 1
           L == last * PullChunk
<1>2. /\ last \in Nat /\ L \in Nat /\ L < Total - ProbeLen + PullChunk
      /\ Total - ProbeLen <= L
  BY LastChunk
<1>3. c \in Nat /\ c <= last /\ NChunks = last + 1 /\ NChunks \in Nat
  BY ChunkCount DEF Chunk
<1>4. last = 0 => L = 0
  BY <1>1
<1>5. CASE c = 0
  <2>1. First(c) = 0 /\ Want(c) = ProbeLen
    BY <1>5 DEF First, Want
  <2>2. First(1) = ProbeLen
    <3>1. 0 * PullChunk = 0 /\ 1 - 1 = 0
      BY <1>1
    <3>2. First(1) = ProbeLen + (1 - 1) * PullChunk
      BY DEF First
    <3> QED BY <1>1, <3>1, <3>2
  <2>3. NChunks = 1 => Total = ProbeLen
    BY <1>1, <1>2, <1>3, <1>4
  <2> QED BY <1>1, <1>5, <2>1, <2>2, <2>3 DEF Upto
<1>6. CASE c # 0
  <2> DEFINE C == (c - 1) * PullChunk
  <2>1. c - 1 \in Nat /\ C \in Nat /\ First(c) = ProbeLen + C /\ c * PullChunk = C + PullChunk
    <3>1. c - 1 \in Nat /\ (c - 1) + 1 = c
      BY <1>3, <1>6
    <3>2. C \in Nat
      BY <1>1, <3>1, MulMono
    <3>3. c * PullChunk = C + PullChunk
      BY <1>1, <3>1, MulSucc
    <3>4. First(c) = ProbeLen + C
      BY <1>6 DEF First
    <3> QED BY <3>1, <3>2, <3>3, <3>4
  <2>2. Want(c) = Smaller(PullChunk, Total - First(c))
    BY <1>6 DEF Want
  <2>3. c * PullChunk \in Nat /\ c * PullChunk <= L
    BY <1>1, <1>2, <1>3, MulMono
  <2>4. First(c + 1) = ProbeLen + c * PullChunk
    <3>1. c + 1 # 0 /\ (c + 1) - 1 = c
      BY <1>3
    <3> QED BY <3>1 DEF First
  <2> HIDE DEF C, L
  <2>5. CASE c = last
    <3>1. C + PullChunk = L
      BY <2>1, <2>5 DEF L
    <3>2. Total - First(c) <= PullChunk /\ Total - First(c) >= 1
      BY <1>1, <1>2, <2>1, <3>1
    <3>3. Want(c) = Total - First(c)
      BY <1>1, <2>1, <2>2, <3>2 DEF Smaller
    <3>4. c + 1 = NChunks
      BY <1>3, <2>5
    <3> QED BY <1>1, <2>1, <3>2, <3>3, <3>4 DEF Upto
  <2>6. CASE c # last
    <3>1. c + 1 \in Nat /\ c + 1 <= last /\ c + 1 # NChunks
      BY <1>2, <1>3, <2>6
    <3>2. (c + 1) * PullChunk = c * PullChunk + PullChunk
      BY <1>1, <1>3, MulSucc
    <3>3. (c + 1) * PullChunk <= L
      BY <1>1, <1>2, <3>1, MulMono DEF L
    <3>4. C + PullChunk + PullChunk <= L
      BY <2>1, <3>2, <3>3
    <3>5. Total - First(c) >= PullChunk
      BY <1>1, <1>2, <2>1, <3>4
    <3>6. Want(c) = PullChunk
      BY <1>1, <2>1, <2>2, <3>5 DEF Smaller
    <3> QED BY <1>1, <2>1, <2>4, <3>1, <3>5, <3>6 DEF Upto
  <2> QED BY <2>5, <2>6
<1> QED BY <1>5, <1>6

-----------------------------------------------------------------------------
(* What a buffer contains.                                                 *)

\* The bytes of a chunk from the cursor on.
LEMMA BytesFacts ==
  ASSUME NEW c \in Chunk, NEW k \in Nat, NEW n \in Nat
  PROVE  /\ Bytes(c, k, n) \in Seq(Nat) /\ Len(Bytes(c, k, n)) = n
         /\ \A i \in 1 .. n : Bytes(c, k, n)[i] = First(c) + k + i - 1
<1>1. First(c) \in Nat
  BY ChunkSizes
<1>2. \A i \in 1 .. n : First(c) + k + i - 1 \in Nat
  BY <1>1
<1> QED BY <1>2 DEF Bytes

\* No bytes are no bytes.
LEMMA NoBytes == ASSUME NEW c \in Chunk PROVE Bytes(c, 0, 0) = <<>>
<1>1. Bytes(c, 0, 0) \in Seq(Nat) /\ Len(Bytes(c, 0, 0)) = 0
  BY BytesFacts
<1> QED BY <1>1

\* The next bytes of a chunk continue the ones read so far.
LEMMA BytesAppend ==
  ASSUME NEW c \in Chunk, NEW k \in Nat, NEW n \in Nat
  PROVE  Bytes(c, 0, k) \o Bytes(c, k, n) = Bytes(c, 0, k + n)
<1> DEFINE a == Bytes(c, 0, k)
           b == Bytes(c, k, n)
           t == Bytes(c, 0, k + n)
<1>1. First(c) \in Nat /\ k + n \in Nat
  BY ChunkSizes
<1>2. a \in Seq(Nat) /\ Len(a) = k /\ \A i \in 1 .. k : a[i] = First(c) + 0 + i - 1
  BY BytesFacts
<1>3. b \in Seq(Nat) /\ Len(b) = n /\ \A i \in 1 .. n : b[i] = First(c) + k + i - 1
  BY BytesFacts
<1>4. t \in Seq(Nat) /\ Len(t) = k + n /\ \A i \in 1 .. k + n : t[i] = First(c) + 0 + i - 1
  BY <1>1, BytesFacts
<1> HIDE DEF a, b, t
<1>5. /\ a \o b \in Seq(Nat) /\ Len(a \o b) = k + n
      /\ \A i \in 1 .. k + n : (a \o b)[i] = IF i <= k THEN a[i] ELSE b[i - k]
  BY <1>2, <1>3, ConcatProperties
<1>6. \A i \in 1 .. k + n : (a \o b)[i] = t[i]
  <2> SUFFICES ASSUME NEW i \in 1 .. k + n PROVE (a \o b)[i] = t[i]
    OBVIOUS
  <2>1. CASE i <= k
    <3>1. (a \o b)[i] = a[i]
      BY <1>5, <2>1
    <3> QED BY <1>1, <1>2, <1>4, <2>1, <3>1
  <2>2. CASE i > k
    <3>1. i - k \in 1 .. n /\ ~(i <= k)
      BY <1>1, <2>2
    <3>2. (a \o b)[i] = b[i - k]
      BY <1>5, <3>1
    <3> QED BY <1>1, <1>3, <1>4, <2>2, <3>1, <3>2
  <2>3. i <= k \/ i > k
    BY <1>1
  <2> QED BY <2>1, <2>2, <2>3
<1>7. a \o b = t
  BY <1>4, <1>5, <1>6, SeqEqual
<1> QED BY <1>7 DEF a, b, t

-----------------------------------------------------------------------------
(* The inductive invariant on contents: a fetch in progress has the chunk's *)
(* bytes up to its cursor, a finished one all of them or none.             *)

ContentTypes ==
  /\ mem \in [Buffer -> Seq(Nat)] /\ fetch \in [Worker -> FetchState]
  /\ outcome \in [Chunk -> Outcomes]

Fetched(w) ==
  /\ fetch[w].cursor \in 0 .. Want(task[w]) - 1
  /\ mem[data[task[w]]] = Bytes(task[w], 0, fetch[w].cursor)
  /\ wpc[w] = "probe" => fetch[w].cursor = 0

\* An error of a fetch that is neither the network's nor the server's says
\* what stopped it.
Done(c) ==
  /\ outcome[c] \in {"ok", "fetch", "ctx", "closed"}
  /\ IF outcome[c] = "ok" THEN data[c] # NoBuf /\ mem[data[c]] = Bytes(c, 0, Want(c))
                          ELSE data[c] = NoBuf
  /\ outcome[c] = "ctx" => ctxDone
  /\ outcome[c] = "closed" => closed

Finished == {"results", "held", "pending", "current", "closing"}

Fetches(w) == Working(w) => Fetched(w)
Sends(w) == wpc[w] = "send" => Done(task[w])
Keeps(c) == place[c] \in Finished => Done(c)

ContentInv ==
  /\ ContentTypes
  /\ \A w \in Worker : Fetches(w) /\ Sends(w)
  /\ \A c \in Chunk : Keeps(c)
  /\ cur # NoChunk => outcome[cur] = "ok"

\* A new puller has fetched nothing.
LEMMA ContentInit == Init => ContentInv
<1> SUFFICES ASSUME Init PROVE ContentInv
  OBVIOUS
<1>1. Idle \in FetchState
  BY DEF Idle, FetchState
<1>2. <<>> \in Seq(Nat)
  OBVIOUS
<1> QED BY <1>1, <1>2 DEF Init, ContentInv, ContentTypes, Outcomes, Working, Finished, Fetches, Sends, Keeps

\* The buffer, the contents and the outcome of chunk c stay what they are.
Untouched(c) ==
  /\ data'[c] = data[c] /\ outcome'[c] = outcome[c]
  /\ data[c] # NoBuf => mem'[data[c]] = mem[data[c]]

\* What the steps of each goroutine leave alone.
LEMMA WorkerFrame ==
  ASSUME NEW w \in Worker, WorkerStep(w) PROVE UNCHANGED <<ctl, disp, call, strm, cpc>>
<1>1. CASE \/ TakeTask(w) \/ WorkerExits(w) \/ ProbeRead(w) \/ ProbeReadFails(w)
           \/ RequestFails(w) \/ RequestAnswered(w)
  BY <1>1 DEF TakeTask, WorkerExits, ProbeRead, ProbeReadFails, RequestFails, RequestAnswered,
       clos
<1>2. CASE \/ ResponseFails(w) \/ PartRead(w) \/ BackoffEnds(w) \/ BackoffCanceled(w)
           \/ SendResult(w) \/ DropResult(w)
  BY <1>2 DEF ResponseFails, PartRead, BackoffEnds, BackoffCanceled, SendResult, DropResult,
       clos
<1> QED BY <1>1, <1>2 DEF WorkerStep

LEMMA DispatchFrame ==
  ASSUME DispatchStep PROVE UNCHANGED <<ctl, work, results, call, strm, cpc>>
  BY DEF DispatchStep, EnqueueProbe, AbandonProbe, ReserveSlot, StopReserving, EnqueueChunk,
     AbandonChunk, JoinWorkers, clos

LEMMA ReadFrame ==
  ASSUME ReadStep PROVE UNCHANGED <<ctxDone, closed, disp, work, body, clos>>
  BY DEF ReadStep, ReadSticky, ReadCanceled, ReadBytes, ReadExhausted, TakePending, Receive,
     ReceiveClosed, SelectCanceled, CheckContext, Order, RejectResult, AdoptResult,
     TerminalError, ctl

LEMMA CloseFrame ==
  ASSUME CloseStep PROVE UNCHANGED <<disp, work, results, call, next, out>>
  BY DEF CloseStep, CloseLocks, CloseCancels, CloseBodies, CloseReleases, strm

LEMMA DrainFrame ==
  ASSUME Drain PROVE UNCHANGED <<ctl, disp, work, body, call, strm, clos>>
  BY DEF Drain

\* The caller's context and the client's other pulls.
Outside == CallerCancels \/ OtherTakes \/ OtherPuts \/ UNCHANGED vars

LEMMA OutsideFrame ==
  ASSUME Outside
  PROVE  UNCHANGED <<closed, err, data, outcome, hold, disp, work, results, body, call, strm, clos>>
  BY DEF Outside, CallerCancels, OtherTakes, OtherPuts, vars, ctl, bufs

LEMMA Steps ==
  [Next]_vars <=> \/ DispatchStep \/ \E w \in Worker : WorkerStep(w)
                  \/ ReadStep \/ CloseStep \/ Drain \/ Outside
  BY DEF Next, Outside

\* The context does not come back and Close is not undone.
Monotonic == (ctxDone => ctxDone') /\ (closed => closed')

LEMMA ClosedStays == ASSUME [Next]_vars PROVE Monotonic
<1>1. CASE DispatchStep \/ (\E w \in Worker : WorkerStep(w)) \/ ReadStep \/ Drain
  BY <1>1, DispatchFrame, WorkerFrame, ReadFrame, DrainFrame DEF ctl, Monotonic
<1>2. CASE CloseStep
  BY <1>2 DEF CloseStep, CloseLocks, CloseCancels, CloseBodies, CloseReleases, ctl, Monotonic
<1>3. CASE Outside
  BY <1>3 DEF Outside, CallerCancels, OtherTakes, OtherPuts, ctl, vars, Monotonic
<1> QED BY <1>1, <1>2, <1>3, Steps

\* A finished fetch stays what it is as long as nobody touches its buffer.
LEMMA DoneStays ==
  ASSUME NEW c \in Chunk, Done(c), Untouched(c), Monotonic
  PROVE  Done(c)'
  BY DEF Done, Untouched, Monotonic

\* put clears the buffer it is given, and no other.
LEMMA PutClears ==
  ASSUME ContentTypes, NEW b \in Buffer \cup {NoBuf}, Put(b)
  PROVE  /\ mem' \in [Buffer -> Seq(Nat)]
         /\ \A a \in Buffer : a # b => mem'[a] = mem[a]
<1>1. <<>> \in Seq(Nat)
  OBVIOUS
<1> QED BY <1>1 DEF Put, ContentTypes

\* take hands out a buffer with the given contents, and touches no other.
LEMMA TakeWrites ==
  ASSUME ContentTypes, NEW b \in Buffer, NEW content \in Seq(Nat), Take(b, content)
  PROVE  /\ mem' \in [Buffer -> Seq(Nat)] /\ mem'[b] = content
         /\ \A a \in Buffer : a # b => mem'[a] = mem[a]
  BY DEF Take, ContentTypes

\* Giving the buffer of chunk c back leaves the other chunks theirs.
LEMMA ReturnTouchesOne ==
  ASSUME OwnerInv, ContentTypes, NEW c \in Chunk, Put(data[c]),
         data' = [data EXCEPT ![c] = NoBuf], \A d \in Chunk \ {c} : outcome'[d] = outcome[d]
  PROVE  /\ mem' \in [Buffer -> Seq(Nat)] /\ data'[c] = NoBuf
         /\ \A d \in Chunk \ {c} : Untouched(d)
<1>1. data \in [Chunk -> Buffer \cup {NoBuf}]
  BY DEF OwnerInv, BufferInv, BufferTypes
<1>2. \A d \in Chunk \ {c} : data[d] # NoBuf => data[d] # data[c]
  BY OwnersDef DEF OwnerInv, BufferInv
<1>3. /\ mem' \in [Buffer -> Seq(Nat)]
      /\ \A a \in Buffer : a # data[c] => mem'[a] = mem[a]
  BY <1>1, PutClears
<1> QED BY <1>1, <1>2, <1>3 DEF Untouched

\* So does a release.
LEMMA ReleaseTouchesOne ==
  ASSUME OwnerInv, ContentTypes, NEW c \in Chunk, Release(c)
  PROVE  /\ mem' \in [Buffer -> Seq(Nat)] /\ outcome' \in [Chunk -> Outcomes]
         /\ \A d \in Chunk \ {c} : Untouched(d)
         /\ place'[c] = "released" /\ \A d \in Chunk \ {c} : place'[d] = place[d]
<1>1. /\ Put(data[c]) /\ data' = [data EXCEPT ![c] = NoBuf]
      /\ place' = [place EXCEPT ![c] = "released"] /\ place \in [Chunk -> Places]
  BY DEF Release, OwnerInv, HoldInv, HoldTypes
<1>2. outcome' \in [Chunk -> Outcomes] /\ \A d \in Chunk \ {c} : outcome'[d] = outcome[d]
  BY DEF Release, ContentTypes, Outcomes
<1> QED BY <1>1, <1>2, ReturnTouchesOne

\* Goroutines that are not workers: contents follow the chunk.
LEMMA ContentFollows ==
  ASSUME OwnerInv, OwnerInv', ContentInv, Monotonic,
         UNCHANGED <<wpc, task, fetch>>, mem' \in [Buffer -> Seq(Nat)],
         outcome' \in [Chunk -> Outcomes],
         \A c \in Chunk : place'[c] \in Filled => Untouched(c),
         \A c \in Chunk : place'[c] \in Finished => place[c] \in Finished,
         cur' # NoChunk => outcome'[cur'] = "ok"
  PROVE  ContentInv'
<1>1. \A w \in Worker : Busy(w) => task[w] \in Chunk /\ Untouched(task[w])
  <2>1. \A w \in Worker : Busy(w) => task[w] \in Chunk /\ place'[task[w]] = "worker"
    BY DEF OwnerInv, HoldInv, WorkersOwn, Busy
  <2> QED BY <2>1 DEF Filled
<1>2. \A w \in Worker : Working(w) => Busy(w) /\ data[task[w]] # NoBuf
  BY DEF OwnerInv, WorkersHaveBuffers, Working, Busy
<1>3. \A w \in Worker : Fetches(w)'
  BY <1>1, <1>2 DEF ContentInv, Fetches, Fetched, Untouched, Working
<1>4. \A w \in Worker : Sends(w)'
  <2> SUFFICES ASSUME NEW w \in Worker, wpc[w] = "send" PROVE Done(task[w])'
    BY DEF Sends
  <2>1. task[w] \in Chunk /\ Untouched(task[w]) /\ Done(task[w])
    BY <1>1 DEF ContentInv, Sends, Busy
  <2>2. task' = task
    OBVIOUS
  <2> QED BY <2>1, <2>2, DoneStays DEF Done
<1>5. \A c \in Chunk : Keeps(c)'
  BY DoneStays DEF ContentInv, Keeps, Finished, Filled
<1>6. ContentTypes'
  BY DEF ContentInv, ContentTypes
<1> QED BY <1>3, <1>4, <1>5, <1>6 DEF ContentInv

\* A chunk that changes hands, outside a worker, keeps its contents.
LEMMA MovedContent ==
  ASSUME OwnerInv, OwnerInv', ContentInv, Monotonic, UNCHANGED <<wpc, task, fetch, bufs>>,
         UNCHANGED place \/ \E c \in Chunk, p \in Places :
            Move(c, p) /\ (p \in Finished => place[c] \in Finished),
         cur' # NoChunk => outcome[cur'] = "ok"
  PROVE  ContentInv'
<1>1. \A c \in Chunk : place'[c] \in Finished => place[c] \in Finished
  BY DEF Move, OwnerInv, HoldInv, HoldTypes
<1>2. /\ mem' \in [Buffer -> Seq(Nat)] /\ outcome' = outcome
      /\ outcome \in [Chunk -> Outcomes] /\ \A c \in Chunk : Untouched(c)
  BY DEF ContentInv, ContentTypes, Untouched, bufs
<1> QED BY <1>1, <1>2, ContentFollows

\* A release, outside a worker, leaves the contents of the other chunks.
LEMMA ReleasedContent ==
  ASSUME OwnerInv, OwnerInv', ContentInv, Monotonic, UNCHANGED <<wpc, task, fetch>>,
         NEW c \in Chunk, Release(c),
         cur' \in {cur, NoChunk}
  PROVE  ContentInv'
<1>1. /\ mem' \in [Buffer -> Seq(Nat)] /\ outcome' \in [Chunk -> Outcomes]
      /\ \A d \in Chunk \ {c} : Untouched(d)
      /\ place'[c] = "released" /\ \A d \in Chunk \ {c} : place'[d] = place[d]
  BY ReleaseTouchesOne DEF ContentInv
<1>2. \A d \in Chunk : place'[d] \in Filled => Untouched(d)
  BY <1>1 DEF Filled
<1>3. \A d \in Chunk : place'[d] \in Finished => place[d] \in Finished
  BY <1>1 DEF Finished
<1>4. cur' # NoChunk => cur' = cur /\ cur \in Chunk \ {c}
  BY <1>1 DEF OwnerInv, HoldInv, HoldTypes, ReaderOwns
<1>5. cur' # NoChunk => outcome'[cur'] = "ok"
  BY <1>1, <1>4 DEF ContentInv, Untouched
<1> QED BY <1>1, <1>2, <1>3, <1>5, ContentFollows

\* The dispatcher moves chunks nobody fetched yet.
LEMMA DispatchContent ==
  ASSUME OwnerInv, OwnerInv', ContentInv, Monotonic, DispatchStep PROVE ContentInv'
<1>1. UNCHANGED <<wpc, task, fetch, cur>> /\ 0 \in Chunk /\ DispatchOwns /\ HoldTypes
  BY DispatchFrame, ChunkFacts DEF work, strm, OwnerInv, HoldInv
<1>2. CASE AbandonProbe \/ AbandonChunk
  BY <1>1, <1>2, ReleasedContent DEF AbandonProbe, AbandonChunk, DispatchOwns
<1>3. CASE EnqueueProbe \/ ReserveSlot \/ StopReserving \/ EnqueueChunk \/ JoinWorkers
  <2>1. UNCHANGED bufs
    BY <1>3 DEF EnqueueProbe, ReserveSlot, StopReserving, EnqueueChunk, JoinWorkers
  <2>2. UNCHANGED place \/ \E c \in Chunk, p \in {"queued", "reserved"} : Move(c, p)
    BY <1>1, <1>3 DEF EnqueueProbe, ReserveSlot, StopReserving, EnqueueChunk, JoinWorkers, hold,
         DispatchOwns
  <2> QED BY <1>1, <2>1, <2>2, MovedContent DEF ContentInv, Places, Finished
<1> QED BY <1>2, <1>3 DEF DispatchStep

\* Read moves and releases finished chunks; the one it adopts is complete.
LEMMA ReadContent ==
  ASSUME OwnerInv, OwnerInv', ContentInv, Monotonic, ReadStep PROVE ContentInv'
<1>1. UNCHANGED <<wpc, task, fetch>> /\ ReaderOwns /\ ResultsOwn /\ HoldTypes
  BY ReadFrame DEF work, OwnerInv, HoldInv
<1>2. CASE \/ ReadSticky \/ ReadCanceled \/ ReadBytes \/ ReceiveClosed \/ SelectCanceled
           \/ TerminalError
  <2>1. UNCHANGED <<bufs, place, cur>>
    BY <1>2 DEF ReadSticky, ReadCanceled, ReadBytes, ReceiveClosed, SelectCanceled,
         TerminalError, hold, strm
  <2> QED BY <1>1, <2>1, MovedContent DEF ContentInv
<1>3. CASE ReadExhausted
  <2>1. cur' = NoChunk
    BY <1>3 DEF ReadExhausted, ReleaseCurrent
  <2>2. (cur \in Chunk /\ Release(cur)) \/ UNCHANGED <<bufs, place>>
    BY <1>1, <1>3 DEF ReadExhausted, ReleaseCurrent, HoldTypes, hold
  <2> QED BY <1>1, <2>1, <2>2, MovedContent, ReleasedContent
<1>4. CASE TakePending
  <2>1. UNCHANGED <<bufs, cur>>
    BY <1>4 DEF TakePending, strm
  <2>2. UNCHANGED place \/ \E c \in Chunk : Move(c, "held") /\ place[c] = "pending"
    BY <1>4 DEF TakePending, PendingReady, In
  <2> QED BY <1>1, <2>1, <2>2, MovedContent DEF ContentInv, Places, Finished
<1>5. CASE Receive
  <2>1. Head(results) \in Chunk /\ place[Head(results)] = "results"
    BY <1>1, <1>5 DEF Receive, HoldTypes, ResultsOwn
  <2>2. UNCHANGED <<bufs, cur>> /\ Move(Head(results), "held")
    BY <1>5 DEF Receive, strm
  <2> QED BY <1>1, <2>1, <2>2, MovedContent DEF ContentInv, Places, Finished
<1>6. CASE CheckContext \/ Order \/ RejectResult
  <2>1. got # NoChunk => got \in Chunk /\ place[got] = "held"
    BY <1>1 DEF HoldTypes, ReaderOwns
  <2>2. cur' = cur
    BY <1>6 DEF CheckContext, Order, RejectResult, strm
  <2>3. \/ UNCHANGED <<bufs, place>>
        \/ got # NoChunk /\ Release(got)
        \/ got # NoChunk /\ Move(got, "pending") /\ UNCHANGED bufs
    BY <1>1, <1>6 DEF CheckContext, Order, RejectResult, ReaderOwns, hold
  <2>4. CASE got # NoChunk /\ Release(got)
    BY <1>1, <2>1, <2>2, <2>4, ReleasedContent
  <2>5. CASE ~(got # NoChunk /\ Release(got))
    BY <1>1, <2>1, <2>2, <2>3, <2>5, MovedContent DEF ContentInv, Places, Finished
  <2> QED BY <2>4, <2>5
<1>7. CASE AdoptResult
  <2>1. UNCHANGED bufs /\ cur' = got /\ (got # NoChunk => outcome[got] = "ok")
    BY <1>7 DEF AdoptResult, GotError
  <2>2. UNCHANGED place \/ (got \in Chunk /\ Move(got, "current") /\ place[got] = "held")
    BY <1>1, <1>7 DEF AdoptResult, HoldTypes, ReaderOwns
  <2> QED BY <1>1, <2>1, <2>2, MovedContent DEF Places, Finished
<1> QED BY <1>2, <1>3, <1>4, <1>5, <1>6, <1>7 DEF ReadStep

\* Close gives back the current chunk and keeps the pending ones for later.
LEMMA CloseContent ==
  ASSUME OwnerInv, OwnerInv', ContentInv, Monotonic, CloseStep PROVE ContentInv'
<1>1. /\ UNCHANGED <<wpc, task, fetch>> /\ HoldTypes /\ BufferTypes
  BY CloseFrame DEF work, OwnerInv, HoldInv, BufferInv
<1>2. CASE CloseLocks
  <2>1. cur' = NoChunk
    BY <1>2 DEF CloseLocks
  <2>0. \A c \in Chunk : place'[c] = IF c = cur THEN "released"
                                    ELSE IF place[c] = "pending" THEN "closing" ELSE place[c]
    BY <1>2, ChunkFacts DEF CloseLocks
  <2>2. \A c \in Chunk : place'[c] \in Finished => c # cur /\ place[c] \in Finished
    BY <2>0 DEF Finished
  <2>3. \A c \in Chunk : place'[c] \in Filled => c # cur
    BY <2>0 DEF Filled
  <2>4. CASE cur = NoChunk
    <3>1. /\ mem' \in [Buffer -> Seq(Nat)] /\ outcome' \in [Chunk -> Outcomes]
          /\ \A c \in Chunk : Untouched(c)
      BY <1>1, <1>2, <2>4 DEF CloseLocks, ContentInv, ContentTypes, Untouched
    <3> QED BY <1>1, <2>1, <2>2, <3>1, ContentFollows
  <2>5. CASE cur # NoChunk
    <3>1. cur \in Chunk /\ Put(data[cur]) /\ data' = [data EXCEPT ![cur] = NoBuf]
      BY <1>1, <1>2, <2>5 DEF CloseLocks, HoldTypes
    <3>2. /\ outcome' \in [Chunk -> Outcomes]
          /\ \A d \in Chunk \ {cur} : outcome'[d] = outcome[d]
      BY <1>2, <2>5, <3>1 DEF CloseLocks, ContentInv, ContentTypes, Outcomes
    <3>3. mem' \in [Buffer -> Seq(Nat)] /\ \A d \in Chunk \ {cur} : Untouched(d)
      BY <1>1, <3>1, <3>2, ReturnTouchesOne DEF ContentInv
    <3> QED BY <1>1, <2>1, <2>2, <2>3, <3>2, <3>3, ContentFollows
  <2> QED BY <2>4, <2>5
<1>3. CASE CloseCancels \/ CloseBodies
  <2>1. UNCHANGED <<bufs, place, cur>>
    BY <1>3 DEF CloseCancels, CloseBodies, hold, strm
  <2> QED BY <1>1, <2>1, MovedContent DEF ContentInv
<1>4. CASE CloseReleases
  <2>1. cur' = cur
    BY <1>4 DEF CloseReleases, strm
  <2>2. UNCHANGED <<bufs, place>> \/ \E c \in Chunk : Release(c)
    BY <1>4 DEF CloseReleases, In, hold
  <2> QED BY <1>1, <2>1, <2>2, MovedContent, ReleasedContent DEF ContentInv
<1> QED BY <1>2, <1>3, <1>4 DEF CloseStep

\* The drainer releases finished chunks, and another pull writes only into
\* buffers that no chunk has.
LEMMA OtherContent ==
  ASSUME OwnerInv, OwnerInv', ContentInv, Monotonic, Drain \/ Outside PROVE ContentInv'
<1>1. UNCHANGED <<wpc, task, fetch, cur>> /\ HoldTypes /\ BufferTypes
  BY DrainFrame, OutsideFrame DEF work, strm, OwnerInv, HoldInv, BufferInv
<1>2. CASE Drain
  <2>1. Head(results) \in Chunk /\ Release(Head(results))
    BY <1>1, <1>2 DEF Drain, HoldTypes
  <2> QED BY <1>1, <2>1, ReleasedContent
<1>3. CASE Outside
  <2>1. UNCHANGED <<data, outcome, place>> /\ outcome \in [Chunk -> Outcomes]
    BY <1>3, OutsideFrame DEF hold, ContentInv, ContentTypes
  <2>2. mem' \in [Buffer -> Seq(Nat)] /\ \A c \in Chunk : Untouched(c)
    <3>1. CASE OtherTakes
      <4>1. PICK b \in Buffer : Take(b, <<Foreign>>)
        BY <3>1 DEF OtherTakes
      <4>2. <<Foreign>> \in Seq(Nat)
        BY SizesAssumption DEF Foreign
      <4>3. mem' \in [Buffer -> Seq(Nat)] /\ \A a \in Buffer : a # b => mem'[a] = mem[a]
        BY <4>1, <4>2, TakeWrites DEF ContentInv
      <4>4. \A c \in Chunk : data[c] # b
        BY <4>1, TakenBuffer DEF OwnerInv
      <4> QED BY <1>1, <2>1, <4>3, <4>4 DEF Untouched, BufferTypes
    <3>2. CASE OtherPuts
      <4>1. PICK b \in lent : Put(b)
        BY <3>2 DEF OtherPuts
      <4>2. b \in Buffer /\ \A c \in Chunk : data[c] # b
        BY OwnersDef DEF OwnerInv, BufferInv, BufferTypes
      <4>3. mem' \in [Buffer -> Seq(Nat)] /\ \A a \in Buffer : a # b => mem'[a] = mem[a]
        BY <4>1, <4>2, PutClears DEF ContentInv
      <4> QED BY <1>1, <2>1, <4>2, <4>3 DEF Untouched, BufferTypes
    <3>3. CASE CallerCancels \/ UNCHANGED vars
      BY <1>1, <3>3 DEF CallerCancels, vars, bufs, ContentInv, ContentTypes, Untouched
    <3> QED BY <1>3, <3>1, <3>2, <3>3 DEF Outside
  <2> QED BY <1>1, <2>1, <2>2, ContentFollows DEF ContentInv
<1> QED BY <1>2, <1>3

\* A worker's step keeps the contents of the chunks it does not work on; the
\* rest is what it leaves of its own.
LEMMA WorkerFollows ==
  ASSUME OwnerInv, OwnerInv', ContentInv, Monotonic, NEW w \in Worker, ContentTypes',
         UNCHANGED cur,
         \A v \in Worker \ {w} : wpc'[v] = wpc[v] /\ task'[v] = task[v] /\ fetch'[v] = fetch[v],
         NEW t \in Chunk, place[t] \notin Finished, \A v \in Worker \ {w} : Busy(v) => task[v] # t,
         \A c \in Chunk \ {t} : Untouched(c) /\ place'[c] = place[c],
         Fetches(w)', Sends(w)', Keeps(t)'
  PROVE  ContentInv'
<1>1. ASSUME NEW v \in Worker \ {w} PROVE Fetches(v)' /\ Sends(v)'
  <2>1. wpc'[v] = wpc[v] /\ task'[v] = task[v] /\ fetch'[v] = fetch[v]
    OBVIOUS
  <2>2. Busy(v) => task[v] \in Chunk /\ Untouched(task[v])
    BY DEF OwnerInv, HoldInv, WorkersOwn
  <2>3. Working(v) => Busy(v) /\ data[task[v]] # NoBuf
    BY DEF OwnerInv, WorkersHaveBuffers, Working, Busy
  <2>4. Fetches(v)'
    BY <2>1, <2>2, <2>3 DEF ContentInv, Fetches, Fetched, Untouched, Working
  <2>5. Sends(v)'
    <3>1. CASE wpc[v] = "send"
      <4>1. task[v] \in Chunk /\ Untouched(task[v]) /\ Done(task[v])
        BY <2>2, <3>1 DEF ContentInv, Sends, Busy
      <4> QED BY <2>1, <4>1, DoneStays DEF Done, Sends
    <3>2. CASE wpc[v] # "send"
      BY <2>1, <3>2 DEF Sends
    <3> QED BY <3>1, <3>2
  <2> QED BY <2>4, <2>5
<1>2. ASSUME NEW c \in Chunk \ {t} PROVE Keeps(c)'
  <2>1. Untouched(c) /\ place'[c] = place[c] /\ Keeps(c)
    BY DEF ContentInv
  <2> QED BY <2>1, DoneStays DEF Keeps
<1>3. cur' # NoChunk => outcome'[cur'] = "ok"
  <2> SUFFICES ASSUME cur # NoChunk PROVE outcome'[cur] = "ok"
    OBVIOUS
  <2>1. cur \in Chunk /\ place[cur] = "current" /\ outcome[cur] = "ok"
    BY DEF ContentInv, OwnerInv, HoldInv, HoldTypes, ReaderOwns
  <2>2. cur # t
    BY <2>1 DEF Finished
  <2> QED BY <2>1, <2>2 DEF Untouched
<1>4. \A v \in Worker : Fetches(v)' /\ Sends(v)'
  BY <1>1
<1>5. \A c \in Chunk : Keeps(c)'
  BY <1>2
<1> QED BY <1>3, <1>4, <1>5 DEF ContentInv

\* A failed fetch leaves no buffer behind.
LEMMA FailedContent ==
  ASSUME OwnerInv, OwnerInv', ContentInv, Monotonic, NEW w \in Worker, Working(w),
         NEW e \in {"fetch", "ctx", "closed"}, FetchFails(w, e),
         e = "ctx" => ctxDone, e = "closed" => closed,
         fetch' \in [Worker -> FetchState], UNCHANGED <<place, task, cur>>,
         \A v \in Worker \ {w} : fetch'[v] = fetch[v]
  PROVE  ContentInv'
<1> DEFINE t == task[w]
<1>1. /\ t \in Chunk /\ place[t] = "worker" /\ Busy(w)
      /\ \A v \in Worker \ {w} : Busy(v) => task[v] # t
  BY DEF OwnerInv, HoldInv, WorkersOwn, Busy, Working
<1>2. /\ outcome' = [outcome EXCEPT ![t] = e] /\ Put(data[t])
      /\ data' = [data EXCEPT ![t] = NoBuf] /\ Goto(w, "send")
  BY DEF FetchFails
<1>3. /\ mem' \in [Buffer -> Seq(Nat)] /\ data'[t] = NoBuf
      /\ \A d \in Chunk \ {t} : Untouched(d)
  <2>1. \A d \in Chunk \ {t} : outcome'[d] = outcome[d]
    BY <1>2
  <2> QED BY <1>1, <1>2, <2>1, ReturnTouchesOne DEF ContentInv
<1>4. wpc'[w] = "send" /\ \A v \in Worker \ {w} : wpc'[v] = wpc[v]
  BY <1>2 DEF Goto, OwnerInv, HoldInv, HoldTypes
<1>5. ContentTypes' /\ outcome'[t] = e
  BY <1>1, <1>2, <1>3 DEF ContentInv, ContentTypes, Outcomes
<1>6. Fetches(w)' /\ Keeps(t)'
  BY <1>1, <1>4 DEF Fetches, Working, Keeps, Finished
<1>7. Done(t)'
  BY <1>3, <1>5 DEF Done, Monotonic
<1>8. Sends(w)'
  BY <1>7 DEF Sends, Done
<1>9. place[t] \notin Finished
  BY <1>1 DEF Finished
<1> QED BY <1>1, <1>3, <1>4, <1>5, <1>6, <1>8, <1>9, WorkerFollows

\* appendExactly continues the worker's own buffer where it stopped.
LEMMA AppendedBytes ==
  ASSUME OwnerInv, ContentInv, NEW w \in Worker, Working(w), NEW n \in Nat, AppendBytes(w, n),
         UNCHANGED data, \A c \in Chunk \ {task[w]} : outcome'[c] = outcome[c]
  PROVE  /\ mem' \in [Buffer -> Seq(Nat)]
         /\ mem'[data[task[w]]] = Bytes(task[w], 0, fetch[w].cursor + n)
         /\ \A c \in Chunk \ {task[w]} : Untouched(c)
<1> DEFINE t == task[w]
           k == fetch[w].cursor
           b == data[t]
<1>1. t \in Chunk /\ b \in Buffer /\ b # NoBuf /\ data \in [Chunk -> Buffer \cup {NoBuf}]
  BY DEF OwnerInv, HoldInv, WorkersOwn, Busy, Working, WorkersHaveBuffers, BufferInv, BufferTypes
<1>2. k \in Nat /\ mem[b] = Bytes(t, 0, k) /\ mem \in [Buffer -> Seq(Nat)]
  <2>1. Fetched(w) /\ mem \in [Buffer -> Seq(Nat)]
    BY DEF ContentInv, Fetches, ContentTypes
  <2>2. Want(t) \in Nat
    BY <1>1, ChunkSizes
  <2> QED BY <2>1, <2>2 DEF Fetched
<1>3. mem' = [mem EXCEPT ![b] = mem[b] \o Bytes(t, k, n)]
  BY DEF AppendBytes
<1> HIDE DEF t, k, b
<1>4. mem[b] \o Bytes(t, k, n) = Bytes(t, 0, k + n) /\ Bytes(t, 0, k + n) \in Seq(Nat)
  <2>1. Bytes(t, 0, k) \o Bytes(t, k, n) = Bytes(t, 0, k + n)
    BY <1>1, <1>2, BytesAppend
  <2>2. Bytes(t, 0, k + n) \in Seq(Nat)
    <3>1. k + n \in Nat
      BY <1>2
    <3> QED BY <1>1, <3>1, BytesFacts
  <2> QED BY <1>2, <2>1, <2>2
<1>5. /\ mem' \in [Buffer -> Seq(Nat)] /\ mem'[b] = Bytes(t, 0, k + n)
      /\ \A a \in Buffer : a # b => mem'[a] = mem[a]
  BY <1>1, <1>2, <1>3, <1>4
<1>6. \A c \in Chunk \ {t} : data[c] # b
  BY <1>1, OwnersDef DEF OwnerInv, BufferInv, b
<1>7. \A c \in Chunk \ {t} : Untouched(c)
  <2>1. \A c \in Chunk \ {t} : outcome'[c] = outcome[c]
    BY DEF t
  <2> QED BY <1>1, <1>5, <1>6, <2>1 DEF Untouched
<1> QED BY <1>5, <1>7 DEF t, k, b

\* What a fetching worker knows of itself.
LEMMA WorkerFacts ==
  ASSUME OwnerInv, ContentInv, NEW w \in Worker, Working(w)
  PROVE  /\ task[w] \in Chunk /\ place[task[w]] = "worker" /\ place[task[w]] \notin Finished
         /\ data[task[w]] \in Buffer \ {NoBuf}
         /\ \A v \in Worker \ {w} : Busy(v) => task[v] # task[w]
         /\ fetch[w].cursor \in Nat /\ fetch[w].cursor < Want(task[w])
         /\ Want(task[w]) \in Nat \ {0} /\ Fetched(w)
         /\ data \in [Chunk -> Buffer \cup {NoBuf}] /\ wpc \in [Worker -> WorkerPCs] /\ ContentTypes
<1>1. /\ task[w] \in Chunk /\ place[task[w]] = "worker"
      /\ \A v \in Worker \ {w} : Busy(v) => task[v] # task[w]
  BY DEF OwnerInv, HoldInv, WorkersOwn, Busy, Working
<1>2. /\ data[task[w]] \in Buffer \ {NoBuf} /\ data \in [Chunk -> Buffer \cup {NoBuf}]
      /\ wpc \in [Worker -> WorkerPCs]
  BY <1>1 DEF OwnerInv, HoldInv, HoldTypes, WorkersHaveBuffers, BufferInv, BufferTypes
<1>3. Fetched(w) /\ ContentTypes
  BY DEF ContentInv, Fetches
<1>4. Want(task[w]) \in Nat \ {0}
  BY <1>1, ChunkSizes
<1>5. fetch[w].cursor \in Nat /\ fetch[w].cursor < Want(task[w])
  BY <1>3, <1>4 DEF Fetched
<1> QED BY <1>1, <1>2, <1>3, <1>4, <1>5 DEF Finished

\* A fetch that changes its control only keeps what it has.
LEMMA FetchGoesOn ==
  ASSUME OwnerInv, OwnerInv', ContentInv, Monotonic, NEW w \in Worker, Working(w),
         NEW p \in {"request", "body", "sleep"}, Goto(w, p), fetch' \in [Worker -> FetchState],
         \A v \in Worker \ {w} : fetch'[v] = fetch[v], fetch'[w].cursor = fetch[w].cursor,
         UNCHANGED <<data, mem, outcome, place, task, cur>>
  PROVE  ContentInv'
<1>1. wpc'[w] = p /\ \A v \in Worker \ {w} : wpc'[v] = wpc[v]
  BY WorkerFacts DEF Goto
<1>2. Fetches(w)'
  BY <1>1, WorkerFacts DEF Fetches, Fetched
<1>3. Sends(w)'
  BY <1>1 DEF Sends
<1>4. Keeps(task[w])'
  BY WorkerFacts DEF Keeps
<1>5. ContentTypes'
  BY WorkerFacts DEF ContentTypes
<1>6. \A c \in Chunk : Untouched(c)
  BY DEF Untouched
<1> QED BY <1>1, <1>2, <1>3, <1>4, <1>5, <1>6, WorkerFacts, WorkerFollows

\* A fetch that got the last byte has the whole chunk.
LEMMA FetchCompletes ==
  ASSUME OwnerInv, OwnerInv', ContentInv, Monotonic, NEW w \in Worker, Working(w),
         NEW n \in Nat, AppendBytes(w, n), FetchDone(w), fetch[w].cursor + n = Want(task[w]),
         fetch' \in [Worker -> FetchState], \A v \in Worker \ {w} : fetch'[v] = fetch[v],
         UNCHANGED <<place, task, cur>>
  PROVE  ContentInv'
<1> DEFINE t == task[w]
<1>1. /\ outcome' = [outcome EXCEPT ![t] = "ok"] /\ UNCHANGED data
      /\ wpc'[w] = "send" /\ \A v \in Worker \ {w} : wpc'[v] = wpc[v]
  BY WorkerFacts DEF FetchDone, Goto
<1>2. /\ outcome' \in [Chunk -> Outcomes] /\ outcome'[t] = "ok"
      /\ \A c \in Chunk \ {t} : outcome'[c] = outcome[c]
  BY <1>1, WorkerFacts DEF ContentTypes, Outcomes
<1>3. /\ mem' \in [Buffer -> Seq(Nat)] /\ mem'[data[t]] = Bytes(t, 0, Want(t))
      /\ \A c \in Chunk \ {t} : Untouched(c)
  BY <1>1, <1>2, AppendedBytes
<1>4. Done(t)'
  BY <1>1, <1>2, <1>3, WorkerFacts DEF Done
<1>5. Sends(w)' /\ Fetches(w)'
  BY <1>1, <1>4 DEF Sends, Done, Fetches, Working
<1>6. Keeps(t)'
  BY WorkerFacts DEF Keeps
<1>7. ContentTypes'
  BY <1>2, <1>3 DEF ContentTypes
<1> QED BY <1>1, <1>3, <1>5, <1>6, <1>7, WorkerFacts, WorkerFollows

\* A worker starts with an empty buffer.
LEMMA TakeTaskContent ==
  ASSUME OwnerInv, OwnerInv', ContentInv, Monotonic, NEW w \in Worker, TakeTask(w)
  PROVE  ContentInv'
<1>1. PICK c \in In("queued"), b \in Buffer :
        /\ Take(b, <<>>) /\ data' = [data EXCEPT ![c] = b] /\ Move(c, "worker")
        /\ task' = [task EXCEPT ![w] = c]
        /\ fetch' = [fetch EXCEPT ![w] = Start(MaxAttempts)]
        /\ Goto(w, IF c = 0 THEN "probe" ELSE "request")
  BY DEF TakeTask
<1>2. c \in Chunk /\ place[c] = "queued" /\ place[c] \notin Finished
  BY DEF In, Finished
<1>3. /\ \A v \in Worker : Busy(v) => task[v] # c
      /\ data \in [Chunk -> Buffer \cup {NoBuf}] /\ place \in [Chunk -> Places]
      /\ wpc \in [Worker -> WorkerPCs] /\ task \in [Worker -> Chunk \cup {NoChunk}]
      /\ ContentTypes
  BY <1>2 DEF OwnerInv, HoldInv, HoldTypes, WorkersOwn, BufferInv, BufferTypes, ContentInv
<1>4. /\ mem' \in [Buffer -> Seq(Nat)] /\ mem'[b] = <<>>
      /\ \A a \in Buffer : a # b => mem'[a] = mem[a]
  <2>1. <<>> \in Seq(Nat)
    OBVIOUS
  <2> QED BY <1>1, <1>3, <2>1, TakeWrites
<1>5. \A d \in Chunk : data[d] # b
  BY <1>1, TakenBuffer DEF OwnerInv
<1>6. /\ task'[w] = c /\ data'[c] = b /\ place'[c] = "worker" /\ fetch'[w].cursor = 0
      /\ wpc'[w] \in {"probe", "request"} /\ fetch' \in [Worker -> FetchState]
  <2>1. Start(MaxAttempts) \in FetchState /\ Start(MaxAttempts).cursor = 0
    BY BudgetAssumption DEF Start, FetchState
  <2> QED BY <1>1, <1>2, <1>3, <2>1 DEF ContentTypes, Goto, Move
<1>7. UNCHANGED <<outcome, cur>> /\ ContentTypes'
  BY <1>3, <1>4, <1>6 DEF TakeTask, strm, ContentTypes
<1>8. \A d \in Chunk \ {c} : Untouched(d) /\ place'[d] = place[d]
  BY <1>1, <1>2, <1>3, <1>4, <1>5, <1>7 DEF Untouched, Move
<1>9. \A v \in Worker \ {w} : wpc'[v] = wpc[v] /\ task'[v] = task[v] /\ fetch'[v] = fetch[v]
  BY <1>1, <1>3 DEF Goto, ContentTypes
<1>10. Fetches(w)'
  <2>1. Want(c) \in Nat \ {0} /\ Bytes(c, 0, 0) = <<>>
    BY <1>2, ChunkSizes, NoBytes
  <2>2. 0 \in 0 .. Want(c) - 1
    BY <2>1
  <2> QED BY <1>4, <1>6, <2>1, <2>2 DEF Fetches, Fetched
<1>11. Sends(w)' /\ Keeps(c)'
  BY <1>6 DEF Sends, Keeps, Finished
<1> QED BY <1>2, <1>3, <1>7, <1>8, <1>9, <1>10, <1>11, WorkerFollows

\* The probe's interval is fetched again from its first byte.
LEMMA ProbeReadFailsContent ==
  ASSUME OwnerInv, OwnerInv', ContentInv, Monotonic, NEW w \in Worker, ProbeReadFails(w)
  PROVE  ContentInv'
<1>1. /\ Working(w) /\ task[w] = 0 /\ 0 \in Chunk /\ UNCHANGED <<place, task, cur>>
  BY ChunkFacts DEF ProbeReadFails, Working, OwnerInv, WorkersHaveBuffers, hold, strm
<1>2. CASE UNCHANGED fetch /\ \/ FetchFails(w, "ctx") /\ ctxDone
                              \/ FetchFails(w, "fetch")
  BY <1>1, <1>2, FailedContent DEF ContentInv, ContentTypes
<1>3. CASE LET held == Recycled(data[0])
               remaining == MaxAttempts - ProbeAttempts
           IN  /\ remaining > 0
               /\ data' = [data EXCEPT ![0] = Head(held)]
               /\ pool' = Tail(held)
               /\ mem' = [mem EXCEPT ![data[0]] = <<>>, ![Head(held)] = <<>>]
               /\ fetch' = [fetch EXCEPT ![w] = Start(remaining)]
               /\ Goto(w, "request") /\ UNCHANGED outcome
  <2> DEFINE held == Recycled(data[0])
             remaining == MaxAttempts - ProbeAttempts
             b == Head(held)
  <2>1. /\ data' = [data EXCEPT ![0] = b] /\ mem' = [mem EXCEPT ![data[0]] = <<>>, ![b] = <<>>]
        /\ fetch' = [fetch EXCEPT ![w] = Start(remaining)] /\ Goto(w, "request")
        /\ UNCHANGED outcome
    BY <1>3
  <2>2. /\ data[0] \in Buffer \ {NoBuf} /\ data[0] \notin Elems(pool)
        /\ data \in [Chunk -> Buffer \cup {NoBuf}] /\ wpc \in [Worker -> WorkerPCs]
        /\ \A d \in Chunk \ {0} : data[d] # NoBuf => data[d] # data[0] /\ data[d] \notin Elems(pool)
    BY <1>1, WorkerFacts, OwnersDef DEF OwnerInv, BufferInv
  <2>3. b \in Buffer /\ b \in Elems(pool) \cup {data[0]}
    <3>1. held \in Seq(Buffer) /\ held # <<>> /\ Elems(held) \subseteq Elems(pool) \cup {data[0]}
      BY <2>2, RecycledPool DEF OwnerInv
    <3> QED BY <3>1, TakenElems
  <2>4. Start(remaining) \in FetchState /\ Start(remaining).cursor = 0
    <3>1. remaining \in Nat
      BY <1>3, BudgetAssumption
    <3> QED BY <3>1 DEF Start, FetchState
  <2> HIDE DEF held, remaining, b
  <2>5. ContentTypes /\ \A v \in Worker \ {w} : Busy(v) => task[v] # 0
    BY <1>1, WorkerFacts
  <2>6. mem' \in [Buffer -> Seq(Nat)] /\ mem'[b] = <<>>
        /\ \A a \in Buffer : a # b /\ a # data[0] => mem'[a] = mem[a]
    <3>1. <<>> \in Seq(Nat)
      OBVIOUS
    <3> QED BY <2>1, <2>2, <2>3, <2>5, <3>1 DEF ContentTypes
  <2>7. data'[0] = b /\ \A d \in Chunk \ {0} : Untouched(d) /\ place'[d] = place[d]
    BY <1>1, <2>1, <2>2, <2>3, <2>6 DEF Untouched
  <2>8. ContentTypes' /\ fetch'[w].cursor = 0 /\ wpc'[w] = "request"
        /\ \A v \in Worker \ {w} : wpc'[v] = wpc[v] /\ fetch'[v] = fetch[v]
    BY <2>1, <2>2, <2>4, <2>5, <2>6 DEF ContentTypes, Goto
  <2>9. Fetches(w)'
    <3>1. Want(0) \in Nat \ {0} /\ Bytes(0, 0, 0) = <<>>
      BY <1>1, ChunkSizes, NoBytes
    <3>2. 0 \in 0 .. Want(0) - 1
      BY <3>1
    <3> QED BY <1>1, <2>6, <2>7, <2>8, <3>1, <3>2 DEF Fetches, Fetched
  <2>10. Sends(w)' /\ Keeps(0)' /\ place[0] \notin Finished
    BY <1>1, <2>8, WorkerFacts DEF Sends, Keeps
  <2> QED BY <1>1, <2>5, <2>7, <2>8, <2>9, <2>10, WorkerFollows
<1> QED BY <1>2, <1>3 DEF ProbeReadFails

\* Every step of a worker keeps the bytes it has where they belong.
LEMMA WorkerContent ==
  ASSUME OwnerInv, OwnerInv', ContentInv, Monotonic, NEW w \in Worker, WorkerStep(w)
  PROVE  ContentInv'
<1>0. UNCHANGED cur /\ ContentTypes
  BY WorkerFrame DEF strm, ContentInv
<1>1. CASE TakeTask(w)
  BY <1>1, TakeTaskContent
<1>2. CASE ProbeReadFails(w)
  BY <1>2, ProbeReadFailsContent
<1>3. CASE WorkerExits(w)
  <2>1. /\ UNCHANGED <<task, fetch, outcome, bufs, place>>
        /\ wpc'[w] = "exited" /\ \A v \in Worker \ {w} : wpc'[v] = wpc[v]
    BY <1>3 DEF WorkerExits, Goto, OwnerInv, HoldInv, HoldTypes, hold, bufs
  <2>2. \A c \in Chunk : Keeps(c)'
    BY <2>1, DoneStays DEF ContentInv, Keeps, Untouched, bufs
  <2>3. ASSUME NEW v \in Worker PROVE Fetches(v)' /\ Sends(v)'
    <3>1. CASE v = w
      BY <2>1, <3>1 DEF Fetches, Sends, Working
    <3>2. CASE v # w
      <4>1. wpc'[v] = wpc[v] /\ Fetches(v) /\ Sends(v)
        BY <2>1, <3>2 DEF ContentInv
      <4>2. Fetches(v)'
        BY <2>1, <4>1 DEF Fetches, Fetched, Working, bufs
      <4>3. Sends(v)'
        BY <2>1, <4>1 DEF Sends, Done, Monotonic, bufs
      <4> QED BY <4>2, <4>3
    <3> QED BY <3>1, <3>2
  <2>4. \A v \in Worker : Fetches(v)' /\ Sends(v)'
    BY <2>3
  <2>5. ContentTypes' /\ (cur' # NoChunk => outcome'[cur'] = "ok")
    BY <1>0, <2>1 DEF ContentInv, ContentTypes, bufs
  <2> QED BY <2>2, <2>4, <2>5 DEF ContentInv
<1>4. CASE ProbeRead(w)
  <2>1. /\ Working(w) /\ task[w] = 0 /\ fetch[w].cursor = 0 /\ UNCHANGED <<place, task, fetch>>
        /\ AppendBytes(w, Want(0)) /\ FetchDone(w)
    <3>1. Working(w) /\ wpc[w] = "probe"
      BY <1>4 DEF ProbeRead, Working
    <3>2. task[w] = 0 /\ fetch[w].cursor = 0
      BY <3>1 DEF ContentInv, Fetches, Fetched, OwnerInv, WorkersHaveBuffers
    <3> QED BY <1>4, <3>1, <3>2 DEF ProbeRead, hold
  <2>2. Want(0) \in Nat /\ fetch[w].cursor + Want(0) = Want(task[w])
    BY <2>1, ChunkFacts, ChunkSizes
  <2> QED BY <1>0, <2>1, <2>2, FetchCompletes DEF ContentTypes
<1>5. CASE RequestFails(w) \/ RequestAnswered(w) \/ ResponseFails(w) \/ BackoffCanceled(w)
  <2>1. Working(w) /\ UNCHANGED <<place, task, fetch>>
    BY <1>5 DEF RequestFails, RequestAnswered, ResponseFails, BackoffCanceled, Working, hold
  <2>2. \/ FetchFails(w, "ctx") /\ ctxDone
        \/ FetchFails(w, "fetch")
        \/ FetchFails(w, "closed") /\ closed
        \/ (Goto(w, "sleep") \/ Goto(w, "body")) /\ UNCHANGED <<data, mem, outcome>>
    BY <1>5 DEF RequestFails, RequestAnswered, ResponseFails, BackoffCanceled, AttemptFails
  <2>3. CASE \E e \in {"ctx", "fetch", "closed"} : FetchFails(w, e) /\ (e = "ctx" => ctxDone)
                                                   /\ (e = "closed" => closed)
    BY <1>0, <2>1, <2>3, FailedContent DEF ContentTypes
  <2>4. CASE (Goto(w, "sleep") \/ Goto(w, "body")) /\ UNCHANGED <<data, mem, outcome>>
    BY <1>0, <2>1, <2>4, FetchGoesOn DEF ContentTypes
  <2> QED BY <2>2, <2>3, <2>4
<1>6. CASE PartRead(w)
  <2>1. Working(w) /\ UNCHANGED <<place, task>>
    BY <1>6 DEF PartRead, Working, hold
  <2>2. PICK n \in 1 .. Want(task[w]) - fetch[w].cursor :
          /\ fetch' = [fetch EXCEPT ![w].cursor = fetch[w].cursor + n,
                                    ![w].parts = fetch[w].parts + 1, ![w].attempt = 1]
          /\ \/ /\ fetch[w].cursor + n = Want(task[w])
                /\ AppendBytes(w, n) /\ FetchDone(w)
             \/ FetchFails(w, "fetch")
             \/ /\ fetch[w].cursor + n # Want(task[w])
                /\ AppendBytes(w, n) /\ Goto(w, "request")
                /\ UNCHANGED <<data, pool, outcome>>
    BY <1>6 DEF PartRead
  <2>3. /\ fetch[w].cursor \in Nat /\ Want(task[w]) \in Nat /\ n \in Nat
        /\ fetch[w].cursor + n \in 0 .. Want(task[w])
    BY <2>1, WorkerFacts
  <2>4. /\ fetch' \in [Worker -> FetchState] /\ fetch'[w].cursor = fetch[w].cursor + n
        /\ \A v \in Worker \ {w} : fetch'[v] = fetch[v]
    <3> DEFINE k == fetch[w].cursor + n
               m == fetch[w].parts + 1
    <3>1. fetch \in [Worker -> FetchState] /\ k \in Nat /\ m \in Nat
      BY <1>0, <2>3 DEF ContentTypes, FetchState
    <3>2. fetch' = [fetch EXCEPT ![w].cursor = k, ![w].parts = m, ![w].attempt = 1]
      BY <2>2
    <3> HIDE DEF k, m
    <3>3. fetch' \in [Worker -> FetchState] /\ fetch'[w].cursor = k
          /\ \A v \in Worker \ {w} : fetch'[v] = fetch[v]
      BY <3>1, <3>2 DEF FetchState
    <3> QED BY <3>3 DEF k
  <2>5. CASE FetchFails(w, "fetch")
    BY <1>0, <2>1, <2>4, <2>5, FailedContent
  <2>6. CASE /\ fetch[w].cursor + n = Want(task[w]) /\ AppendBytes(w, n) /\ FetchDone(w)
    BY <1>0, <2>1, <2>3, <2>4, <2>6, FetchCompletes
  <2>7. CASE /\ fetch[w].cursor + n # Want(task[w]) /\ AppendBytes(w, n) /\ Goto(w, "request")
             /\ UNCHANGED <<data, pool, outcome>>
    <3> DEFINE t == task[w]
    <3>1. /\ mem' \in [Buffer -> Seq(Nat)]
          /\ mem'[data[t]] = Bytes(t, 0, fetch[w].cursor + n)
          /\ \A c \in Chunk \ {t} : Untouched(c)
      BY <2>1, <2>3, <2>7, AppendedBytes
    <3>2. wpc'[w] = "request" /\ \A v \in Worker \ {w} : wpc'[v] = wpc[v]
      BY <2>1, <2>7, WorkerFacts DEF Goto
    <3>3. fetch'[w].cursor \in 0 .. Want(t) - 1
      BY <2>3, <2>4, <2>7
    <3>4. Fetches(w)'
      BY <2>1, <2>4, <2>7, <3>1, <3>2, <3>3 DEF Fetches, Fetched
    <3>5. Sends(w)' /\ Keeps(t)'
      BY <2>1, <3>2, WorkerFacts DEF Sends, Keeps
    <3>6. ContentTypes'
      BY <1>0, <2>4, <2>7, <3>1 DEF ContentTypes
    <3> QED BY <1>0, <2>1, <2>4, <3>1, <3>2, <3>4, <3>5, <3>6, WorkerFacts, WorkerFollows
  <2> QED BY <2>2, <2>5, <2>6, <2>7
<1>7. CASE BackoffEnds(w)
  <2>1. /\ Working(w) /\ UNCHANGED <<place, task, data, mem, outcome>> /\ Goto(w, "request")
        /\ fetch' = [fetch EXCEPT ![w].attempt = @ + 1, ![w].retries = @ + 1]
    BY <1>7 DEF BackoffEnds, Working, hold, bufs
  <2>2. /\ fetch' \in [Worker -> FetchState] /\ fetch'[w].cursor = fetch[w].cursor
        /\ \A v \in Worker \ {w} : fetch'[v] = fetch[v]
    BY <1>0, <2>1 DEF ContentTypes, FetchState
  <2> QED BY <1>0, <2>1, <2>2, FetchGoesOn
<1>8. CASE SendResult(w) \/ DropResult(w)
  <2>0. PICK t \in Chunk : t = task[w]
    BY <1>8 DEF SendResult, DropResult, OwnerInv, HoldInv, WorkersOwn, Busy
  <2>1. /\ t = task[w] /\ place[t] \notin Finished /\ Busy(w) /\ Done(t)
        /\ \A v \in Worker \ {w} : Busy(v) => task[v] # t
    BY <1>8, <2>0 DEF SendResult, DropResult, OwnerInv, HoldInv, WorkersOwn, Busy, ContentInv, Sends,
         Finished
  <2>2. /\ wpc'[w] = "idle" /\ fetch' \in [Worker -> FetchState]
        /\ \A v \in Worker \ {w} : wpc'[v] = wpc[v] /\ task'[v] = task[v] /\ fetch'[v] = fetch[v]
    <3>1. Idle \in FetchState
      BY DEF Idle, FetchState
    <3> QED BY <1>0, <1>8, <3>1 DEF SendResult, DropResult, WorkerIdle, Goto, OwnerInv, HoldInv,
         HoldTypes, ContentTypes
  <2>3. CASE Release(t)
    <3>1. /\ mem' \in [Buffer -> Seq(Nat)] /\ outcome' \in [Chunk -> Outcomes]
          /\ \A d \in Chunk \ {t} : Untouched(d)
          /\ place'[t] = "released" /\ \A d \in Chunk \ {t} : place'[d] = place[d]
      BY <1>0, <2>1, <2>3, ReleaseTouchesOne
    <3>2. Fetches(w)' /\ Sends(w)' /\ Keeps(t)'
      <4>1. Fetches(w)' /\ Sends(w)'
        BY <2>2 DEF Fetches, Sends, Working
      <4>2. Keeps(t)'
        BY <3>1 DEF Finished, Keeps
      <4> QED BY <4>1, <4>2
    <3>3. ContentTypes'
      BY <1>0, <2>1, <2>2, <3>1 DEF ContentTypes
    <3> QED BY <1>0, <2>1, <2>2, <3>1, <3>2, <3>3, WorkerFollows
  <2>4. CASE Move(t, "results") /\ UNCHANGED bufs
    <3>1. \A d \in Chunk : Untouched(d)
      BY <2>1, <2>4 DEF Untouched, bufs
    <3>2. place'[t] = "results" /\ \A d \in Chunk \ {t} : place'[d] = place[d]
      BY <2>1, <2>4 DEF Move, OwnerInv, HoldInv, HoldTypes
    <3>3. Done(t)'
      BY <2>1, <3>1, DoneStays
    <3>4. Fetches(w)' /\ Sends(w)'
      BY <2>2 DEF Fetches, Sends, Working
    <3>5. ContentTypes'
      BY <1>0, <2>1, <2>2, <2>4 DEF ContentTypes, bufs
    <3> QED BY <1>0, <2>1, <2>2, <3>1, <3>2, <3>3, <3>4, <3>5, WorkerFollows DEF Keeps
  <2> QED BY <1>8, <2>0, <2>3, <2>4 DEF SendResult, DropResult
<1> QED BY <1>1, <1>2, <1>3, <1>4, <1>5, <1>6, <1>7, <1>8 DEF WorkerStep

\* What is in a buffer, from the first byte of its chunk's fetch to the
\* release of its result.
LEMMA ContentInvariant == Spec => []ContentInv
<1>1. ASSUME ContentInv, OwnerInv, OwnerInv', [Next]_vars PROVE ContentInv'
  BY <1>1, ClosedStays, Steps, DispatchContent, WorkerContent, ReadContent, CloseContent,
     OtherContent
<1> QED BY <1>1, ContentInit, OwnerInvariant, PTL DEF Spec

-----------------------------------------------------------------------------
(* The converse of Owns: a chunk is where place says only while the        *)
(* goroutine there has it, so no chunk is lost on its way to Read.         *)

Whereabouts(c) ==
  /\ place[c] = "reserved" => dpc \in {"probe", "send"} /\ c = index
  /\ place[c] = "worker" => \E w \in Worker : Busy(w) /\ task[w] = c
  /\ place[c] = "results" => c \in Elems(results)
  /\ place[c] = "held" => got = c
  /\ place[c] = "current" => cur = c
  /\ place[c] = "closing" => closed
  /\ c < index => place[c] # "unscheduled"

\* Read has no result in hand while it looks for one, and no current chunk
\* while it waits for the next.
HandsFree ==
  /\ rpc \in {"idle", "loop", "pending", "select", "fail"} => got = NoChunk
  /\ rpc \notin {"idle", "loop"} => cur = NoChunk

\* The dispatcher stops early only on an ended context, a worker only when
\* nothing is queued, and p.results is closed after the last worker.
EndsInOrder ==
  /\ dpc \in {"join", "done"} /\ ~ctxDone => index = NChunks
  /\ \A w \in Worker : wpc[w] = "exited" => TasksClosed /\ In("queued") = {}
  /\ dpc = "done" => \A w \in Worker : wpc[w] = "exited"

PlaceInv == (\A c \in Chunk : Whereabouts(c)) /\ HandsFree /\ EndsInOrder

LEMMA PlaceInit == Init => PlaceInv
<1> SUFFICES ASSUME Init PROVE PlaceInv
  OBVIOUS
<1>1. \A c \in Chunk : Whereabouts(c)
  BY ChunkFacts DEF Init, Whereabouts
<1> QED BY <1>1 DEF Init, PlaceInv, HandsFree, EndsInOrder

\* Which way a chunk goes in a step of each goroutine.
LEMMA ReadPlaces ==
  ASSUME HoldInv, ReadStep
  PROVE  \/ UNCHANGED place
         \/ \E c \in Chunk, p \in {"held", "pending", "current", "released"} :
              place[c] \in {"held", "results", "pending", "current"} /\ Move(c, p)
<1>0. HoldTypes /\ ReaderOwns /\ ResultsOwn
  BY DEF HoldInv
<1>1. CASE Receive
  <2>1. Head(results) \in Chunk /\ place[Head(results)] = "results"
    BY <1>0, <1>1 DEF Receive, HoldTypes, ResultsOwn
  <2> QED BY <1>1, <2>1 DEF Receive
<1>2. CASE TakePending
  BY <1>2 DEF TakePending, PendingReady, In
<1>3. CASE ReadExhausted
  BY <1>0, <1>3 DEF ReadExhausted, ReleaseCurrent, Release, Move, ReaderOwns, HoldTypes, hold
<1>4. CASE CheckContext \/ Order \/ RejectResult \/ AdoptResult
  <2>1. got # NoChunk => got \in Chunk /\ place[got] = "held"
    BY <1>0 DEF HoldTypes, ReaderOwns
  <2>2. UNCHANGED place \/ (got # NoChunk
          /\ \E p \in {"pending", "current", "released"} : Move(got, p))
    BY <1>0, <1>4 DEF CheckContext, Order, RejectResult, AdoptResult, Release, Move, ReaderOwns, hold
  <2> QED BY <2>1, <2>2
<1> QED BY <1>1, <1>2, <1>3, <1>4 DEF ReadStep, ReadSticky, ReadCanceled, ReadBytes,
       ReceiveClosed, SelectCanceled, TerminalError, hold

\* The dispatcher's chunk is the one at its index.
LEMMA DispatchPlaces ==
  ASSUME HoldInv, PlaceInv, DispatchStep PROVE PlaceInv'
<1>0. /\ HoldTypes /\ DispatchOwns /\ 0 \in Chunk /\ Chunk \subseteq Nat /\ NChunks \in Nat \ {0}
      /\ UNCHANGED <<wpc, task, results, rpc, got, cur, closed, ctxDone>>
  BY DispatchFrame, ChunkFacts, ChunkCount DEF HoldInv, work, call, strm, ctl
<1>1. HandsFree'
  BY <1>0 DEF PlaceInv, HandsFree
<1>2. CASE EnqueueProbe \/ EnqueueChunk
  <2>1. /\ index \in Chunk /\ place[index] = "reserved" /\ place' = [place EXCEPT ![index] = "queued"]
        /\ index' = index + 1 /\ dpc' = AfterSend /\ dpc \in {"probe", "send"}
    BY <1>0, <1>2 DEF EnqueueProbe, EnqueueChunk, Move, DispatchOwns
  <2>2. \A c \in Chunk : Whereabouts(c)'
    BY <1>0, <2>1 DEF PlaceInv, Whereabouts, HoldTypes, Busy
  <2>3. \A w \in Worker : wpc[w] # "exited"
    BY <2>1 DEF PlaceInv, EndsInOrder, TasksClosed
  <2>4. dpc' \in {"join", "done"} => index' = NChunks
    BY <1>0, <2>1 DEF AfterSend, Chunk
  <2>5. dpc' # "done"
    BY <2>1 DEF AfterSend
  <2> QED BY <1>0, <1>1, <2>2, <2>3, <2>4, <2>5 DEF PlaceInv, EndsInOrder
<1>3. CASE AbandonProbe \/ AbandonChunk
  <2>1. /\ index \in Chunk /\ place[index] = "reserved" /\ place' = [place EXCEPT ![index] = "released"]
        /\ UNCHANGED index /\ dpc' = "join" /\ dpc \in {"probe", "send"} /\ ctxDone
    BY <1>0, <1>3 DEF AbandonProbe, AbandonChunk, Release, DispatchOwns
  <2>2. \A c \in Chunk : Whereabouts(c)'
    BY <1>0, <2>1 DEF PlaceInv, Whereabouts, HoldTypes, Busy
  <2>3. \A w \in Worker : wpc[w] # "exited"
    BY <2>1 DEF PlaceInv, EndsInOrder, TasksClosed
  <2> QED BY <1>0, <1>1, <2>1, <2>2, <2>3 DEF PlaceInv, EndsInOrder
<1>4. CASE ReserveSlot
  <2>1. /\ index \in Chunk /\ place' = [place EXCEPT ![index] = "reserved"]
        /\ UNCHANGED index /\ dpc' = "send" /\ dpc = "reserve"
    BY <1>0, <1>4 DEF ReserveSlot, Move, DispatchOwns
  <2>2. \A c \in Chunk : Whereabouts(c)'
    BY <1>0, <2>1 DEF PlaceInv, Whereabouts, HoldTypes, Busy
  <2>3. \A w \in Worker : wpc[w] # "exited"
    BY <2>1 DEF PlaceInv, EndsInOrder, TasksClosed
  <2> QED BY <1>0, <1>1, <2>1, <2>2, <2>3 DEF PlaceInv, EndsInOrder
<1>5. CASE StopReserving \/ JoinWorkers
  <2>1. /\ UNCHANGED <<place, index>> /\ dpc \in {"reserve", "join"} /\ dpc' \in {"join", "done"}
        /\ dpc = "reserve" => ctxDone
        /\ dpc' = "done" => \A w \in Worker : wpc[w] = "exited"
    BY <1>5 DEF StopReserving, JoinWorkers, hold
  <2>2. \A c \in Chunk : Whereabouts(c)'
    BY <1>0, <2>1 DEF PlaceInv, Whereabouts, Busy
  <2>3. EndsInOrder'
    BY <1>0, <2>1 DEF PlaceInv, EndsInOrder, TasksClosed, In
  <2> QED BY <1>1, <2>2, <2>3 DEF PlaceInv
<1> QED BY <1>2, <1>3, <1>4, <1>5 DEF DispatchStep

\* A worker passes its chunk to p.results or gives it up.
LEMMA WorkerPlaces ==
  ASSUME HoldInv, PlaceInv, NEW w \in Worker, WorkerStep(w) PROVE PlaceInv'
<1>0. HoldTypes /\ UNCHANGED <<dpc, index, rpc, got, cur, closed, ctxDone>>
  BY WorkerFrame DEF HoldInv, disp, call, strm, ctl
<1>1. HandsFree'
  BY <1>0 DEF PlaceInv, HandsFree
<1>2. CASE TakeTask(w)
  <2>1. PICK c \in Chunk : /\ place[c] = "queued" /\ place' = [place EXCEPT ![c] = "worker"]
                           /\ task' = [task EXCEPT ![w] = c]
                           /\ Goto(w, IF c = 0 THEN "probe" ELSE "request")
    BY <1>2 DEF TakeTask, Move, In
  <2>2. /\ wpc[w] = "idle" /\ Busy(w)' /\ task'[w] = c /\ UNCHANGED results
        /\ \A v \in Worker \ {w} : wpc'[v] = wpc[v] /\ task'[v] = task[v]
    BY <1>0, <1>2, <2>1 DEF TakeTask, Goto, Busy, HoldTypes
  <2>3. \A d \in Chunk : Whereabouts(d)'
    BY <1>0, <2>1, <2>2 DEF PlaceInv, Whereabouts, HoldTypes, Busy
  <2>4. EndsInOrder'
    BY <1>0, <2>1, <2>2 DEF PlaceInv, EndsInOrder, TasksClosed, In, HoldTypes, Busy
  <2> QED BY <1>1, <2>3, <2>4 DEF PlaceInv
<1>3. CASE WorkerExits(w)
  <2>1. /\ wpc[w] = "idle" /\ wpc'[w] = "exited" /\ In("queued") = {} /\ TasksClosed
        /\ UNCHANGED <<place, task, results>> /\ \A v \in Worker \ {w} : wpc'[v] = wpc[v]
    BY <1>0, <1>3 DEF WorkerExits, Goto, HoldTypes, hold
  <2>2. \A d \in Chunk : Whereabouts(d)'
    BY <1>0, <2>1 DEF PlaceInv, Whereabouts, Busy
  <2>3. EndsInOrder'
    BY <1>0, <2>1 DEF PlaceInv, EndsInOrder, TasksClosed, In
  <2> QED BY <1>1, <2>2, <2>3 DEF PlaceInv
<1>4. CASE \/ ProbeRead(w) \/ ProbeReadFails(w) \/ RequestFails(w) \/ RequestAnswered(w)
           \/ ResponseFails(w) \/ PartRead(w) \/ BackoffEnds(w) \/ BackoffCanceled(w)
  <2>1. UNCHANGED <<place, task, results>>
    BY <1>4 DEF ProbeRead, ProbeReadFails, RequestFails, RequestAnswered, ResponseFails, PartRead,
         BackoffEnds, BackoffCanceled, hold
  <2>2. Busy(w) /\ \E p \in {"request", "body", "sleep", "send"} : Goto(w, p)
    BY <1>4 DEF ProbeRead, ProbeReadFails, RequestFails, RequestAnswered, ResponseFails, PartRead,
         BackoffEnds, BackoffCanceled, FetchDone, FetchFails, AttemptFails, Busy
  <2>3. /\ \A v \in Worker \ {w} : wpc'[v] = wpc[v]
        /\ wpc'[w] \in {"request", "body", "sleep", "send"} /\ Busy(w)
    BY <1>0, <2>2 DEF Goto, HoldTypes
  <2>4. \A d \in Chunk : Whereabouts(d)'
    BY <1>0, <2>1, <2>3 DEF PlaceInv, Whereabouts, Busy
  <2>5. EndsInOrder'
    BY <1>0, <2>1, <2>3 DEF PlaceInv, EndsInOrder, TasksClosed, In, Busy
  <2> QED BY <1>1, <2>4, <2>5 DEF PlaceInv
<1>5. CASE SendResult(w) \/ DropResult(w)
  <2>1. /\ task[w] \in Chunk /\ wpc[w] = "send" /\ wpc'[w] = "idle"
        /\ \A v \in Worker \ {w} : wpc'[v] = wpc[v] /\ task'[v] = task[v]
    BY <1>0, <1>5 DEF SendResult, DropResult, WorkerIdle, Goto, HoldInv, HoldTypes, WorkersOwn, Busy
  <2>2. PICK c \in Chunk : c = task[w]
    BY <2>1
  <2>3. \/ place' = [place EXCEPT ![c] = "results"] /\ results' = Append(results, c)
        \/ place' = [place EXCEPT ![c] = "released"] /\ UNCHANGED results
    BY <1>5, <2>2 DEF SendResult, DropResult, Release, Move
  <2>4. Elems(results) \subseteq Elems(results') /\ (place'[c] = "results" => c \in Elems(results'))
    <3>1. Elems(Append(results, c)) = Elems(results) \cup {c}
      BY <1>0, AppendedElems DEF HoldTypes
    <3> QED BY <1>0, <2>3, <3>1 DEF HoldTypes
  <2>5. \A d \in Chunk \ {c} : place'[d] = place[d]
    BY <1>0, <2>3 DEF HoldTypes
  <2>6. place'[c] \in {"results", "released"}
    BY <1>0, <2>3 DEF HoldTypes
  <2>7. \A d \in Chunk : Whereabouts(d)'
    BY <1>0, <2>1, <2>2, <2>4, <2>5, <2>6 DEF PlaceInv, Whereabouts, Busy
  <2>8. EndsInOrder'
    BY <1>0, <2>1, <2>5, <2>6 DEF PlaceInv, EndsInOrder, TasksClosed, In
  <2> QED BY <1>1, <2>7, <2>8 DEF PlaceInv
<1> QED BY <1>2, <1>3, <1>4, <1>5 DEF WorkerStep

\* Read has in hand what it took, and no more.
LEMMA ReaderPlaces ==
  ASSUME HoldInv, PlaceInv, ReadStep PROVE PlaceInv'
<1>0. /\ HoldTypes /\ ReaderOwns /\ ResultsOwn /\ NoChunk \notin Chunk /\ HandsFree
      /\ UNCHANGED <<dpc, index, wpc, task, closed, ctxDone>>
  BY ReadFrame, ChunkFacts DEF HoldInv, PlaceInv, disp, work
<1>1. EndsInOrder'
  <2>1. In("queued")' = In("queued")
    BY <1>0, ReadPlaces DEF In, Move, HoldTypes
  <2> QED BY <1>0, <2>1 DEF PlaceInv, EndsInOrder, TasksClosed
<1>2. CASE ReadSticky \/ ReadCanceled \/ ReadBytes \/ ReceiveClosed \/ SelectCanceled \/ TerminalError
  <2>1. /\ UNCHANGED <<place, results, cur>> /\ got = NoChunk /\ got' = NoChunk
        /\ rpc' \in {"idle", "fail"} /\ (rpc' = "fail" => cur = NoChunk)
    BY <1>0, <1>2 DEF ReadSticky, ReadCanceled, ReadBytes, ReceiveClosed, SelectCanceled,
         TerminalError, Returns, GivesUp, Answer, HandsFree, hold, strm
  <2>2. \A c \in Chunk : Whereabouts(c)'
    BY <1>0, <2>1 DEF PlaceInv, Whereabouts, Busy
  <2>3. HandsFree'
    BY <2>1 DEF HandsFree
  <2> QED BY <1>1, <2>2, <2>3 DEF PlaceInv
<1>3. CASE ReadExhausted
  <2>1. cur' = NoChunk /\ UNCHANGED <<got, results>> /\ rpc' = "pending" /\ got = NoChunk
    BY <1>0, <1>3 DEF ReadExhausted, ReleaseCurrent, Answer, HandsFree
  <2>2. \/ cur = NoChunk /\ UNCHANGED place
        \/ cur \in Chunk /\ place' = [place EXCEPT ![cur] = "released"]
    BY <1>0, <1>3 DEF ReadExhausted, ReleaseCurrent, Release, HoldTypes, hold
  <2>3. \A c \in Chunk : Whereabouts(c)'
    BY <1>0, <2>1, <2>2 DEF PlaceInv, Whereabouts, HoldTypes, Busy
  <2>4. HandsFree'
    BY <2>1 DEF HandsFree
  <2> QED BY <1>1, <2>3, <2>4 DEF PlaceInv
<1>4. CASE TakePending
  <2>1. got = NoChunk /\ cur = NoChunk /\ UNCHANGED <<results, cur>>
    BY <1>0, <1>4 DEF TakePending, HandsFree, strm
  <2>2. \/ UNCHANGED <<place, got>> /\ rpc' = "select"
        \/ /\ next \in Chunk /\ place[next] = "pending" /\ place' = [place EXCEPT ![next] = "held"]
           /\ got' = next /\ rpc' = "taken"
    BY <1>4 DEF TakePending, PendingReady, In, Move, Answer
  <2>3. \A c \in Chunk : Whereabouts(c)'
    BY <1>0, <2>1, <2>2 DEF PlaceInv, Whereabouts, HoldTypes, Busy
  <2>4. HandsFree'
    BY <2>1, <2>2 DEF HandsFree
  <2> QED BY <1>1, <2>3, <2>4 DEF PlaceInv
<1>5. CASE Receive
  <2>1. got = NoChunk /\ cur = NoChunk /\ UNCHANGED cur
    BY <1>0, <1>5 DEF Receive, HandsFree, strm
  <2>2. PICK h \in Chunk : /\ h = Head(results) /\ results' = Tail(results)
                           /\ Elems(results) = Elems(results') \cup {h}
    <3>1. results \in Seq(Chunk) /\ results # <<>> /\ results' = Tail(results)
      BY <1>0, <1>5 DEF Receive, HoldTypes
    <3> QED BY <3>1, TakenElems
  <2>3. place' = [place EXCEPT ![h] = "held"] /\ got' = h /\ rpc' = "received"
    BY <1>5, <2>2 DEF Receive, Move, Answer
  <2>4. \A c \in Chunk : Whereabouts(c)'
    BY <1>0, <2>1, <2>2, <2>3 DEF PlaceInv, Whereabouts, HoldTypes, Busy
  <2>5. HandsFree'
    BY <2>1, <2>3 DEF HandsFree
  <2> QED BY <1>1, <2>4, <2>5 DEF PlaceInv
<1>6. CASE CheckContext \/ Order \/ RejectResult
  <2>1. UNCHANGED <<results, cur>> /\ cur = NoChunk
    BY <1>0, <1>6 DEF CheckContext, Order, RejectResult, HandsFree, strm
  <2>2. \/ UNCHANGED <<place, got>> /\ rpc' \in {"adopt", "order"}
        \/ /\ got \in Chunk /\ got' = NoChunk /\ rpc' \in ReaderPCs
           /\ \E p \in {"released", "pending"} : place' = [place EXCEPT ![got] = p]
        \/ UNCHANGED place /\ got = NoChunk /\ got' = NoChunk /\ rpc' = "fail"
    BY <1>0, <1>6 DEF CheckContext, Order, RejectResult, GivesUp, Answer, Release, Move,
         ReaderOwns, HoldTypes, ReaderPCs, hold
  <2>3. \A c \in Chunk : Whereabouts(c)'
    BY <1>0, <2>1, <2>2 DEF PlaceInv, Whereabouts, HoldTypes, Busy
  <2>4. HandsFree'
    BY <2>1, <2>2 DEF HandsFree
  <2> QED BY <1>1, <2>3, <2>4 DEF PlaceInv
<1>7. CASE AdoptResult
  <2>1. /\ UNCHANGED results /\ cur = NoChunk /\ cur' = got /\ got' = NoChunk /\ rpc' = "loop"
    BY <1>0, <1>7 DEF AdoptResult, HandsFree, Answer
  <2>2. \/ got = NoChunk /\ UNCHANGED place
        \/ got \in Chunk /\ place' = [place EXCEPT ![got] = "current"]
    BY <1>0, <1>7 DEF AdoptResult, Move, HoldTypes
  <2>3. \A c \in Chunk : Whereabouts(c)'
    BY <1>0, <2>1, <2>2 DEF PlaceInv, Whereabouts, HoldTypes, Busy
  <2>4. HandsFree'
    BY <2>1 DEF HandsFree
  <2> QED BY <1>1, <2>3, <2>4 DEF PlaceInv
<1> QED BY <1>2, <1>3, <1>4, <1>5, <1>6, <1>7 DEF ReadStep

\* Close marks or releases what Read left, and the drainer what nobody reads.
LEMMA ClosePlaces ==
  ASSUME HoldInv, PlaceInv, CloseStep \/ Drain \/ Outside PROVE PlaceInv'
<1>0. /\ HoldTypes /\ ReaderOwns /\ ResultsOwn /\ NoChunk \notin Chunk /\ HandsFree
      /\ UNCHANGED <<dpc, index, wpc, task, rpc, got>> /\ (ctxDone => ctxDone')
      /\ (closed => closed')
  BY CloseFrame, DrainFrame, OutsideFrame, ClosedStays, Steps, ChunkFacts
     DEF HoldInv, PlaceInv, disp, work, call, Monotonic
<1>1. ASSUME In("queued")' = In("queued"), \A c \in Chunk : Whereabouts(c)',
             cur' \in {cur, NoChunk}
      PROVE  PlaceInv'
  <2>1. HandsFree'
    BY <1>0, <1>1 DEF HandsFree
  <2>2. EndsInOrder'
    BY <1>0, <1>1 DEF PlaceInv, EndsInOrder, TasksClosed
  <2> QED BY <1>1, <2>1, <2>2 DEF PlaceInv
<1>2. CASE CloseLocks
  <2>1. /\ \A c \in Chunk : place'[c] = IF c = cur THEN "released"
                                    ELSE IF place[c] = "pending" THEN "closing" ELSE place[c]
        /\ cur' = NoChunk /\ closed' = TRUE /\ UNCHANGED results
    BY <1>0, <1>2 DEF CloseLocks
  <2>2. In("queued")' = In("queued")
    BY <1>0, <2>1 DEF In, ReaderOwns
  <2>3. \A c \in Chunk : Whereabouts(c)'
    BY <1>0, <2>1 DEF PlaceInv, Whereabouts, Busy
  <2> QED BY <1>1, <2>1, <2>2, <2>3
<1>3. CASE CloseReleases \/ Drain
  <2>1. UNCHANGED cur
    BY <1>3 DEF CloseReleases, Drain, strm
  <2>2. \/ UNCHANGED <<place, results>>
        \/ \E c \in Chunk : /\ place[c] \in {"closing", "results"}
                            /\ place' = [place EXCEPT ![c] = "released"]
                            /\ Elems(results) \subseteq Elems(results') \cup {c}
    <3>1. CASE CloseReleases
      BY <3>1 DEF CloseReleases, In, Release, hold
    <3>2. CASE Drain
      <4>1. results \in Seq(Chunk) /\ results # <<>> /\ results' = Tail(results)
        BY <1>0, <3>2 DEF Drain, HoldTypes
      <4>2. Head(results) \in Chunk /\ Elems(results) = Elems(results') \cup {Head(results)}
        BY <4>1, TakenElems
      <4>3. place[Head(results)] = "results"
        BY <1>0, <4>1 DEF ResultsOwn
      <4> QED BY <3>2, <4>2, <4>3 DEF Drain, Release
    <3> QED BY <1>3, <3>1, <3>2
  <2>3. In("queued")' = In("queued")
    BY <1>0, <2>2 DEF In, HoldTypes
  <2>4. \A c \in Chunk : Whereabouts(c)'
    BY <1>0, <2>1, <2>2 DEF PlaceInv, Whereabouts, HoldTypes, Busy
  <2> QED BY <1>1, <2>1, <2>3, <2>4
<1>4. CASE CloseCancels \/ CloseBodies \/ Outside
  <2>1. UNCHANGED <<place, results, cur>>
    BY <1>4, OutsideFrame DEF CloseCancels, CloseBodies, hold, strm
  <2>2. In("queued")' = In("queued")
    BY <2>1 DEF In
  <2>3. \A c \in Chunk : Whereabouts(c)'
    BY <1>0, <2>1 DEF PlaceInv, Whereabouts, Busy
  <2> QED BY <1>1, <2>1, <2>2, <2>3
<1> QED BY <1>2, <1>3, <1>4 DEF CloseStep

\* No chunk is ever lost between two goroutines.
LEMMA PlaceInvariant == Spec => []PlaceInv
<1>1. ASSUME PlaceInv, HoldInv, [Next]_vars PROVE PlaceInv'
  BY <1>1, Steps, DispatchPlaces, WorkerPlaces, ReaderPlaces, ClosePlaces
<1> QED BY <1>1, PlaceInit, HoldingInvariant, PTL DEF Spec

-----------------------------------------------------------------------------
(* A call of Read, from the current chunk to the next.                     *)

\* What Read knows at each point of nextResult and adoptResult, whatever
\* Close and the context did in between.
CallInv ==
  /\ cpc # "open" => closed
  /\ err # "nil" /\ ~closed => rpc = "idle"
  /\ rpc \in {"taken", "adopt"} /\ got # NoChunk => got = next
  /\ rpc = "adopt" /\ got = NoChunk => closed
  /\ rpc = "select" => next \notin In("pending")
  /\ rpc = "fail" => /\ ferr \in {"eof", "fetch", "ctx", "closed"}
                     /\ ferr = "ctx" => ctxDone
                     /\ ferr = "closed" => closed

\* Only Read stores a result in p.pending.
LEMMA PendingStays ==
  ASSUME HoldInv,
         DispatchStep \/ (\E w \in Worker : WorkerStep(w)) \/ CloseStep \/ Drain \/ Outside
  PROVE  \A c \in Chunk : place'[c] = "pending" => place[c] = "pending"
<1>0. HoldTypes /\ ResultsOwn
  BY DEF HoldInv
<1>1. CASE DispatchStep
  BY <1>0, <1>1 DEF DispatchStep, EnqueueProbe, AbandonProbe, ReserveSlot, StopReserving,
       EnqueueChunk, AbandonChunk, JoinWorkers, Move, Release, HoldTypes, hold
<1>2. ASSUME NEW w \in Worker, WorkerStep(w)
      PROVE  \A c \in Chunk : place'[c] = "pending" => place[c] = "pending"
  <2>1. \/ UNCHANGED place
        \/ \E c \in Chunk, p \in {"worker", "results", "released"} : Move(c, p)
    <3>1. CASE TakeTask(w)
      BY <3>1 DEF TakeTask, In
    <3>2. CASE SendResult(w) \/ DropResult(w)
      <4>1. task[w] \in Chunk
        BY <3>2 DEF SendResult, DropResult, HoldInv, WorkersOwn, Busy
      <4> QED BY <3>2, <4>1 DEF SendResult, DropResult, Release, Move
    <3>3. CASE \/ WorkerExits(w) \/ ProbeRead(w) \/ ProbeReadFails(w) \/ RequestFails(w)
               \/ RequestAnswered(w) \/ ResponseFails(w) \/ PartRead(w) \/ BackoffEnds(w)
               \/ BackoffCanceled(w)
      BY <3>3 DEF WorkerExits, ProbeRead, ProbeReadFails, RequestFails, RequestAnswered,
           ResponseFails, PartRead, BackoffEnds, BackoffCanceled, hold
    <3> QED BY <1>2, <3>1, <3>2, <3>3 DEF WorkerStep
  <2> QED BY <1>0, <2>1 DEF Move, HoldTypes
<1>3. CASE CloseLocks
  BY <1>0, <1>3 DEF CloseLocks
<1>4. CASE CloseStep /\ ~CloseLocks
  BY <1>0, <1>4 DEF CloseStep, CloseCancels, CloseBodies, CloseReleases, Release, HoldTypes, hold
<1>5. CASE Drain
  BY <1>0, <1>5 DEF Drain, Release, HoldTypes
<1>6. CASE Outside
  BY <1>6, OutsideFrame DEF hold
<1> QED BY <1>1, <1>2, <1>3, <1>4, <1>5, <1>6

\* Read decides on the spot; what it decided stays true until it acts.
LEMMA CallNext ==
  ASSUME CallInv, OwnerInv, ContentInv, PlaceInv, ClosedHasError, [Next]_vars
  PROVE  CallInv'
<1>0. /\ HoldInv /\ HoldTypes /\ ReaderOwns /\ HandsFree /\ Monotonic
  BY ClosedStays DEF OwnerInv, HoldInv, PlaceInv
<1>1. CASE DispatchStep \/ (\E w \in Worker : WorkerStep(w)) \/ CloseStep \/ Drain \/ Outside
  <2>1. UNCHANGED <<rpc, got, ferr, next>>
    BY <1>1, DispatchFrame, WorkerFrame, CloseFrame, DrainFrame, OutsideFrame DEF call, strm
  <2>2. \/ UNCHANGED <<cpc, err, closed>>
        \/ closed /\ closed'
        \/ closed'
    <3>1. CASE DispatchStep \/ (\E w \in Worker : WorkerStep(w)) \/ Drain \/ Outside
      BY <3>1, DispatchFrame, WorkerFrame, DrainFrame, OutsideFrame DEF ctl, clos
    <3>2. CASE CloseStep
      BY <3>2 DEF CloseStep, CloseLocks, CloseCancels, CloseBodies, CloseReleases, CallInv, ctl
    <3> QED BY <1>1, <3>1, <3>2
  <2>3. next \notin In("pending") => next' \notin In("pending")'
    BY <1>0, <1>1, <2>1, PendingStays DEF In
  <2> QED BY <1>0, <2>1, <2>2, <2>3 DEF CallInv, Monotonic
<1>2. CASE ReadStep
  <2>0. UNCHANGED <<ctxDone, closed, cpc>> /\ (closed => err # "nil")
    BY <1>2, ReadFrame DEF clos, ClosedHasError
  <2>1. CASE ReadSticky \/ ReadCanceled \/ ReadBytes \/ TerminalError
    <3>1. rpc' = "idle"
      BY <2>1 DEF ReadSticky, ReadCanceled, ReadBytes, TerminalError, Returns, Answer
    <3> QED BY <2>0, <3>1 DEF CallInv
  <2>2. CASE ReadExhausted
    BY <2>0, <2>2 DEF ReadExhausted, Answer, CallInv, ctl
  <2>3. CASE TakePending
    <3>1. UNCHANGED <<err, next>> /\ got = NoChunk
      BY <1>0, <2>3 DEF TakePending, HandsFree, ctl, strm
    <3>2. \/ rpc' = "taken" /\ got' = next
          \/ rpc' = "select" /\ next \notin In("pending") /\ UNCHANGED place
      BY <2>3 DEF TakePending, PendingReady, Answer
    <3>3. In("pending")' = In("pending") \/ rpc' # "select"
      BY <3>2 DEF In
    <3> QED BY <2>0, <2>3, <3>1, <3>2, <3>3 DEF CallInv, TakePending
  <2>4. CASE Receive
    BY <2>0, <2>4 DEF Receive, Answer, CallInv, ctl
  <2>5. CASE ReceiveClosed \/ SelectCanceled
    <3>1. /\ UNCHANGED err /\ rpc' = "fail" /\ rpc = "select"
          /\ ferr' = "eof" \/ (ferr' = "ctx" /\ ctxDone)
      BY <2>5 DEF ReceiveClosed, SelectCanceled, GivesUp, Answer, ctl
    <3> QED BY <2>0, <3>1 DEF CallInv
  <2>6. CASE CheckContext
    <3>1. /\ UNCHANGED <<err, next>> /\ rpc \in {"taken", "received"}
          /\ \/ ctxDone /\ rpc' = "fail" /\ ferr' = "ctx"
             \/ UNCHANGED got /\ rpc' = (IF rpc = "taken" THEN "adopt" ELSE "order")
      BY <2>6 DEF CheckContext, GivesUp, Answer, ctl, strm
    <3>2. rpc = "taken" => got # NoChunk
      BY <1>0 DEF ReaderOwns
    <3> QED BY <2>0, <3>1, <3>2 DEF CallInv
  <2>7. CASE Order
    <3>1. /\ UNCHANGED <<err, next>> /\ rpc = "order" /\ got # NoChunk
          /\ \/ got = next /\ UNCHANGED got /\ rpc' = "adopt"
             \/ rpc' = "pending"
             \/ ctxDone /\ rpc' = "fail" /\ ferr' = "ctx"
             \/ closed /\ got' = NoChunk /\ rpc' = "adopt"
      BY <1>0, <2>7 DEF Order, ResultIsNext, GivesUp, Answer, ReaderOwns, ctl, strm
    <3> QED BY <2>0, <3>1 DEF CallInv
  <2>8. CASE RejectResult
    <3>1. /\ UNCHANGED err /\ rpc = "adopt" /\ rpc' = "fail" /\ ferr' = Refusal
          /\ GotError \/ closed \/ ctxDone
      BY <2>8 DEF RejectResult, Refused, GivesUp, Answer, ctl
    <3>2. ASSUME GotError PROVE Done(got) /\ outcome[got] # "ok"
      BY <1>0, <3>2 DEF GotError, HoldTypes, ReaderOwns, ContentInv, Keeps, Finished
    <3>3. /\ Refusal \in {"fetch", "ctx", "closed"}
          /\ Refusal = "ctx" => ctxDone
          /\ Refusal = "closed" => closed
      BY <3>1, <3>2 DEF Refusal, Done
    <3> QED BY <2>0, <3>1, <3>3 DEF CallInv
  <2>9. CASE AdoptResult
    BY <2>0, <2>9 DEF AdoptResult, Answer, CallInv, ctl
  <2> QED BY <1>2, <2>1, <2>2, <2>3, <2>4, <2>5, <2>6, <2>7, <2>8, <2>9 DEF ReadStep
<1> QED BY <1>1, <1>2, Steps

LEMMA CallInvariant == Spec => []CallInv
<1>1. Init => CallInv
  BY DEF Init, CallInv
<1> QED BY <1>1, CallNext, OwnerInvariant, ContentInvariant, PlaceInvariant,
     ClosedHasErrorInvariant, PTL DEF Spec

-----------------------------------------------------------------------------
(* Where Read is in the blob.                                              *)

\* The bytes returned so far end where the current chunk was left, or where
\* the chunk Read waits for begins.
Position ==
  IF cur = NoChunk
    THEN Len(out) = Upto(next)
    ELSE cur = next - 1 /\ pos <= Want(cur) /\ Len(out) = First(cur) + pos

PosInv ==
  /\ next \in 0 .. NChunks /\ pos \in Nat /\ out \in Seq(Nat)
  /\ ~closed => Position

\* A chunk without its fetch's error is there from its first byte to its last.
LEMMA CurrentBytes ==
  ASSUME HoldInv, ContentInv
  PROVE  cur # NoChunk => cur \in Chunk /\ Current = Bytes(cur, 0, Want(cur))
<1> SUFFICES ASSUME cur # NoChunk PROVE cur \in Chunk /\ Current = Bytes(cur, 0, Want(cur))
  OBVIOUS
<1>1. cur \in Chunk /\ place[cur] = "current"
  BY DEF HoldInv, HoldTypes, ReaderOwns
<1>2. Done(cur) /\ outcome[cur] = "ok"
  BY <1>1 DEF ContentInv, Keeps, Finished
<1> QED BY <1>1, <1>2 DEF Done, Current

\* Read returns the bytes of the blob that follow the ones it returned.
LEMMA ReadContinues ==
  ASSUME HoldInv, ContentInv, PosInv, ClosedHasError, ReadBytes
  PROVE  /\ ~closed /\ cur # NoChunk
         /\ \E n \in 1 .. Total - Len(out) :
              /\ out' = out \o [i \in 1 .. n |-> Len(out) + i - 1]
              /\ out' \in Seq(Nat) /\ Len(out') = Len(out) + n
              /\ pos' = pos + n /\ pos + n <= Want(cur)
<1>0. pos \in Nat /\ out \in Seq(Nat) /\ Total \in Nat
  BY SizesAssumption DEF PosInv
<1>1. ~closed /\ Position
  BY DEF ReadBytes, ClosedHasError, PosInv
<1>2. cur # NoChunk
  <2> SUFFICES ASSUME cur = NoChunk PROVE FALSE
    OBVIOUS
  <2>1. Current = <<>>
    BY DEF Current
  <2>2. Len(Current) = 0
    BY <2>1
  <2> QED BY <1>0, <2>2 DEF ReadBytes
<1>3. cur \in Chunk /\ Current = Bytes(cur, 0, Want(cur))
  BY <1>2, CurrentBytes
<1>4. Want(cur) \in Nat /\ First(cur) \in Nat /\ First(cur) + Want(cur) <= Total
  BY <1>3, ChunkSizes
<1>5. /\ Len(Current) = Want(cur)
      /\ \A i \in 1 .. Want(cur) : Current[i] = First(cur) + 0 + i - 1
  BY <1>3, <1>4, BytesFacts
<1>6. PICK n \in 1 .. Want(cur) - pos :
        out' = out \o SubSeq(Current, pos + 1, pos + n) /\ pos' = pos + n
  BY <1>5 DEF ReadBytes
<1>7. Len(out) = First(cur) + pos /\ pos <= Want(cur)
  BY <1>1, <1>2 DEF Position
<1>8. n \in Nat \ {0} /\ pos + n <= Want(cur) /\ n \in 1 .. Total - Len(out)
  BY <1>0, <1>4, <1>6, <1>7
<1> DEFINE s == SubSeq(Current, pos + 1, pos + n)
           t == [i \in 1 .. n |-> Len(out) + i - 1]
<1>9. s \in Seq(Nat) /\ Len(s) = n /\ \A i \in 1 .. n : s[i] = Current[pos + 1 + i - 1]
  <2>1. \A i \in pos + 1 .. pos + n : Current[i] \in Nat
    BY <1>0, <1>4, <1>5, <1>8
  <2>2. pos + 1 \in Int /\ pos + n \in Int /\ pos + 1 <= pos + n /\ (pos + n) - (pos + 1) + 1 = n
    BY <1>0, <1>8
  <2>3. /\ s \in Seq(Nat)
        /\ Len(s) = IF pos + 1 <= pos + n THEN (pos + n) - (pos + 1) + 1 ELSE 0
        /\ \A i \in 1 .. (pos + n) - (pos + 1) + 1 : s[i] = Current[(pos + 1) + i - 1]
    BY <2>1, <2>2, SubSeqProperties
  <2> QED BY <2>2, <2>3
<1>10. t \in Seq(Nat) /\ Len(t) = n /\ \A i \in 1 .. n : t[i] = Len(out) + i - 1
  <2>1. \A i \in 1 .. n : Len(out) + i - 1 \in Nat
    BY <1>0, <1>8
  <2> QED BY <1>8, <2>1
<1>11. \A i \in 1 .. n : s[i] = t[i]
  <2> SUFFICES ASSUME NEW i \in 1 .. n PROVE s[i] = t[i]
    OBVIOUS
  <2>1. s[i] = Current[pos + 1 + i - 1] /\ t[i] = Len(out) + i - 1
    BY <1>9, <1>10
  <2>2. pos + 1 + i - 1 = pos + i /\ pos + i \in 1 .. Want(cur)
    BY <1>0, <1>4, <1>8
  <2>3. Current[pos + i] = First(cur) + 0 + (pos + i) - 1
    BY <1>5, <2>2
  <2> QED BY <1>0, <1>4, <1>7, <2>1, <2>2, <2>3
<1> HIDE DEF s, t
<1>12. s = t
  BY <1>9, <1>10, <1>11, SeqEqual
<1>13. out' = out \o t
  BY <1>6, <1>12 DEF s
<1>14. out \o t \in Seq(Nat) /\ Len(out \o t) = Len(out) + n
  BY <1>0, <1>10, ConcatProperties
<1>15. out' = out \o [i \in 1 .. n |-> Len(out) + i - 1]
  BY <1>13 DEF t
<1> QED BY <1>1, <1>2, <1>6, <1>8, <1>13, <1>14, <1>15

LEMMA PosInit == Init => PosInv
<1> SUFFICES ASSUME Init PROVE PosInv
  OBVIOUS
<1>1. next = 0 /\ cur = NoChunk /\ pos = 0 /\ out = <<>>
  BY DEF Init
<1>2. Upto(0) = 0 /\ NChunks \in Nat \ {0}
  BY ChunkCount DEF Upto, First
<1>3. Len(out) = 0 /\ out \in Seq(Nat)
  BY <1>1
<1> QED BY <1>1, <1>2, <1>3 DEF PosInv, Position

\* Chunks are adopted in order, and left at their end only.
LEMMA PosNext ==
  ASSUME PosInv, HoldInv, ContentInv, PlaceInv, CallInv, ClosedHasError, [Next]_vars
  PROVE  PosInv'
<1>0. /\ next \in 0 .. NChunks /\ pos \in Nat /\ out \in Seq(Nat) /\ NChunks \in Nat
      /\ (~closed => Position) /\ (closed => closed')
      /\ HoldTypes /\ HandsFree
  BY ClosedStays, ChunkCount DEF PosInv, HoldInv, PlaceInv, Monotonic
<1>1. CASE UNCHANGED strm
  BY <1>0, <1>1 DEF strm, PosInv, Position
<1>2. CASE ReadBytes
  <2>1. UNCHANGED <<next, cur>>
    BY <1>2 DEF ReadBytes
  <2>2. cur # NoChunk /\ cur \in Chunk /\ Position /\ ~closed
    BY <1>0, <1>2, ReadContinues, CurrentBytes
  <2>3. PICK n \in 1 .. Total - Len(out) :
          /\ out' \in Seq(Nat) /\ Len(out') = Len(out) + n
          /\ pos' = pos + n /\ pos + n <= Want(cur)
    BY <1>2, ReadContinues
  <2>4. First(cur) \in Nat /\ Want(cur) \in Nat /\ n \in Nat
    BY <2>2, ChunkSizes, SizesAssumption
  <2>5. Len(out) = First(cur) + pos /\ cur = next - 1
    BY <2>2 DEF Position
  <2>6. Len(out') = First(cur) + pos'
    BY <1>0, <2>3, <2>4, <2>5
  <2>7. Position' /\ pos' \in Nat
    BY <1>0, <2>1, <2>2, <2>3, <2>4, <2>5, <2>6 DEF Position
  <2> QED BY <1>0, <2>1, <2>3, <2>7 DEF PosInv
<1>3. CASE ReadExhausted
  <2>1. cur' = NoChunk /\ pos' = 0 /\ UNCHANGED <<next, out>> /\ ~closed
    BY <1>3 DEF ReadExhausted, ReleaseCurrent, ClosedHasError
  <2>2. Len(out) = Upto(next)
    <3>1. CASE cur = NoChunk
      BY <1>0, <2>1, <3>1 DEF Position
    <3>2. CASE cur # NoChunk
      <4>1. cur \in Chunk /\ Current = Bytes(cur, 0, Want(cur))
        BY <3>2, CurrentBytes
      <4>2. /\ Want(cur) \in Nat /\ First(cur) \in Nat
            /\ First(cur) + Want(cur) = Upto(cur + 1)
        BY <4>1, ChunkSizes
      <4>3. Len(Current) = Want(cur)
        BY <4>1, <4>2, BytesFacts
      <4>4. pos >= Want(cur) /\ pos <= Want(cur) /\ Len(out) = First(cur) + pos /\ cur = next - 1
        BY <1>0, <1>3, <2>1, <3>2, <4>3 DEF ReadExhausted, Position
      <4>5. pos = Want(cur) /\ cur + 1 = next
        BY <1>0, <4>2, <4>4
      <4> QED BY <4>2, <4>4, <4>5
    <3> QED BY <3>1, <3>2
  <2> QED BY <1>0, <2>1, <2>2 DEF PosInv, Position, Upto
<1>4. CASE AdoptResult
  <2>1. /\ cur' = got /\ pos' = 0 /\ next' = next + 1 /\ UNCHANGED out /\ ~closed /\ rpc = "adopt"
    BY <1>4 DEF AdoptResult, Refused
  <2>2. got # NoChunk /\ got = next /\ cur = NoChunk /\ got \in Chunk
    BY <1>0, <2>1 DEF CallInv, HandsFree, HoldTypes
  <2>3. next \in 0 .. NChunks - 1 /\ next # NChunks
    BY <1>0, <2>2 DEF Chunk
  <2>4. Len(out) = First(next)
    BY <1>0, <2>1, <2>2, <2>3 DEF Position, Upto
  <2>5. First(next) \in Nat /\ Want(next) \in Nat
    BY <2>2, ChunkSizes
  <2>6. Position'
    <3>1. cur' # NoChunk /\ cur' = next' - 1 /\ pos' <= Want(cur')
      BY <1>0, <2>1, <2>2, <2>5
    <3>2. Len(out') = First(cur') + pos'
      BY <2>1, <2>2, <2>4, <2>5
    <3> QED BY <3>1, <3>2 DEF Position
  <2> QED BY <1>0, <2>1, <2>3, <2>6 DEF PosInv
<1>5. CASE CloseLocks
  <2>1. closed' = TRUE /\ pos' = 0 /\ UNCHANGED <<next, out>>
    BY <1>5 DEF CloseLocks
  <2> QED BY <1>0, <2>1 DEF PosInv
<1>6. \/ UNCHANGED strm \/ ReadBytes \/ ReadExhausted \/ AdoptResult \/ CloseLocks
  <2>1. CASE DispatchStep \/ (\E w \in Worker : WorkerStep(w)) \/ Drain \/ Outside
    BY <2>1, DispatchFrame, WorkerFrame, DrainFrame, OutsideFrame
  <2>2. CASE ReadStep
    BY <2>2 DEF ReadStep, ReadSticky, ReadCanceled, TakePending, Receive, ReceiveClosed,
         SelectCanceled, CheckContext, Order, RejectResult, TerminalError
  <2>3. CASE CloseStep
    BY <2>3 DEF CloseStep, CloseCancels, CloseBodies, CloseReleases
  <2> QED BY <2>1, <2>2, <2>3, Steps
<1> QED BY <1>1, <1>2, <1>3, <1>4, <1>5, <1>6

LEMMA PosInvariant == Spec => []PosInv
  BY PosInit, PosNext, HoldingInvariant, ContentInvariant, PlaceInvariant, CallInvariant,
     ClosedHasErrorInvariant, PTL DEF Spec

-----------------------------------------------------------------------------
(* While nothing has failed, chunks are given up in order.                 *)

Alive == ~closed /\ ~ctxDone /\ err = "nil" /\ rpc # "fail"

\* The chunks before the one Read waits for were released, the others not.
InTurn(c) ==
  /\ c < next /\ c # cur => place[c] = "released"
  /\ c >= next => place[c] \notin {"released", "current", "closing"}

AliveInv == Alive => \A c \in Chunk : InTurn(c)

\* Nothing ends well again after it failed.
LEMMA AliveBefore ==
  ASSUME CallInv, ClosedHasError, [Next]_vars, Alive'
  PROVE  Alive /\ cpc = "open"
<1>1. ~closed /\ ~ctxDone /\ ~closed' /\ ~ctxDone' /\ err' = "nil" /\ rpc' # "fail"
  BY ClosedStays DEF Alive, Monotonic
<1>2. err = "nil"
  <2>1. CASE UNCHANGED vars
    BY <1>1, <2>1 DEF vars, ctl
  <2>2. CASE Next
    BY <1>1, <2>2, ErrorWriters DEF ErrAfter
  <2> QED BY <2>1, <2>2
<1>3. rpc # "fail"
  <2> SUFFICES ASSUME rpc = "fail" PROVE FALSE
    OBVIOUS
  <2>1. ferr # "nil"
    BY DEF CallInv
  <2>2. CASE TerminalError
    BY <1>1, <1>2, <2>1, <2>2 DEF TerminalError, ErrAfter
  <2>3. CASE DispatchStep \/ (\E w \in Worker : WorkerStep(w)) \/ CloseStep \/ Drain \/ Outside
    BY <1>1, <2>3, DispatchFrame, WorkerFrame, CloseFrame, DrainFrame, OutsideFrame DEF call
  <2>4. CASE ReadStep /\ ~TerminalError
    BY <2>4 DEF ReadStep, ReadSticky, ReadCanceled, ReadBytes, ReadExhausted, TakePending,
         Receive, ReceiveClosed, SelectCanceled, CheckContext, Order, RejectResult, AdoptResult
  <2> QED BY <2>2, <2>3, <2>4, Steps
<1> QED BY <1>1, <1>2, <1>3 DEF Alive, CallInv

\* A chunk on its way to Read stays in turn wherever it goes next.
LEMMA OnTheWay ==
  ASSUME HoldInv, \A c \in Chunk : InTurn(c), UNCHANGED <<next, cur>>,
         \/ UNCHANGED place
         \/ \E c \in Chunk, p \in {"reserved", "queued", "worker", "results", "held", "pending"} :
              place[c] \notin {"released", "current", "closing"} /\ Move(c, p)
  PROVE  \A c \in Chunk : InTurn(c)'
<1>0. HoldTypes /\ ReaderOwns /\ NoChunk \notin Chunk
  BY ChunkFacts DEF HoldInv
<1>1. CASE UNCHANGED place
  BY <1>1 DEF InTurn
<1>2. ASSUME NEW c \in Chunk,
             NEW p \in {"reserved", "queued", "worker", "results", "held", "pending"},
             place[c] \notin {"released", "current", "closing"}, Move(c, p)
      PROVE  \A d \in Chunk : InTurn(d)'
  <2>1. \A d \in Chunk : place'[d] = IF d = c THEN p ELSE place[d]
    BY <1>0, <1>2 DEF Move, HoldTypes
  <2>2. ~(c < next)
    BY <1>0, <1>2 DEF InTurn, ReaderOwns
  <2>3. SUFFICES ASSUME NEW d \in Chunk PROVE InTurn(d)'
    OBVIOUS
  <2>4. InTurn(d) /\ next' = next /\ cur' = cur /\ p \notin {"released", "current", "closing"}
    BY <1>2
  <2> QED BY <2>1, <2>2, <2>4 DEF InTurn
<1> QED BY <1>1, <1>2

\* Read, while nothing fails.
LEMMA ReadInTurn ==
  ASSUME HoldInv, PosInv, PlaceInv, CallInv, ReadStep, Alive, Alive', \A c \in Chunk : InTurn(c)
  PROVE  \A c \in Chunk : InTurn(c)'
<1>0. /\ HoldTypes /\ ReaderOwns /\ ResultsOwn /\ HandsFree /\ NoChunk \notin Chunk
      /\ ~closed /\ ~ctxDone /\ err = "nil" /\ rpc # "fail" /\ rpc' # "fail" /\ Position
      /\ next \in Nat /\ Chunk \subseteq Nat
  BY ChunkFacts, ChunkCount DEF HoldInv, PlaceInv, PosInv, Alive
<1>1. CASE ReadExhausted
  <2>1. cur' = NoChunk /\ UNCHANGED next
    BY <1>1 DEF ReadExhausted, ReleaseCurrent
  <2>2. \A c \in Chunk : place'[c] = IF c = cur THEN "released" ELSE place[c]
    BY <1>0, <1>1 DEF ReadExhausted, ReleaseCurrent, Release, HoldTypes, hold
  <2>3. cur # NoChunk => cur = next - 1
    BY <1>0 DEF Position
  <2>4. SUFFICES ASSUME NEW c \in Chunk PROVE InTurn(c)'
    OBVIOUS
  <2>5. InTurn(c) /\ c # NoChunk /\ c \in Nat
    BY <1>0
  <2> QED BY <1>0, <2>1, <2>2, <2>3, <2>5 DEF InTurn
<1>2. CASE AdoptResult
  <2>1. cur' = got /\ next' = next + 1 /\ rpc = "adopt" /\ ~closed
    BY <1>2 DEF AdoptResult, Refused
  <2>2. got # NoChunk /\ got = next /\ cur = NoChunk /\ got \in Chunk
    BY <1>0, <2>1 DEF CallInv, HandsFree, HoldTypes
  <2>3. \A c \in Chunk : place'[c] = IF c = next THEN "current" ELSE place[c]
    BY <1>0, <1>2, <2>2 DEF AdoptResult, Move, HoldTypes
  <2> QED BY <1>0, <2>1, <2>2, <2>3 DEF InTurn
<1>3. CASE \/ ReadSticky \/ ReadCanceled \/ ReadBytes \/ ReceiveClosed \/ SelectCanceled
           \/ TerminalError
  <2>1. UNCHANGED <<place, next, cur>>
    BY <1>3 DEF ReadSticky, ReadCanceled, ReadBytes, ReceiveClosed, SelectCanceled, TerminalError,
         hold, strm
  <2> QED BY <2>1, OnTheWay
<1>4. CASE TakePending \/ Receive
  <2>1. UNCHANGED <<next, cur>>
    BY <1>4 DEF TakePending, Receive, strm
  <2>2. results # <<>> => Head(results) \in Chunk /\ place[Head(results)] = "results"
    BY <1>0 DEF HoldTypes, ResultsOwn
  <2>3. \/ UNCHANGED place
        \/ \E c \in Chunk : place[c] \in {"pending", "results"} /\ Move(c, "held")
    BY <1>4, <2>2 DEF TakePending, PendingReady, In, Receive
  <2> QED BY <2>1, <2>3, OnTheWay
<1>5. CASE CheckContext \/ Order
  <2>1. UNCHANGED <<next, cur>>
    BY <1>5 DEF CheckContext, Order, strm
  <2>2. got \in Chunk /\ place[got] = "held"
    BY <1>0, <1>5 DEF CheckContext, Order, ReaderOwns, HoldTypes
  <2>3. UNCHANGED place \/ Move(got, "pending")
    BY <1>0, <1>5 DEF CheckContext, Order, hold
  <2> QED BY <2>1, <2>2, <2>3, OnTheWay
<1>6. CASE RejectResult
  BY <1>0, <1>6 DEF RejectResult, GivesUp, Answer
<1> QED BY <1>1, <1>2, <1>3, <1>4, <1>5, <1>6 DEF ReadStep

LEMMA AliveNext ==
  ASSUME AliveInv, HoldInv, PosInv, PlaceInv, CallInv, ClosedHasError, [Next]_vars
  PROVE  AliveInv'
<1> SUFFICES ASSUME Alive' PROVE \A c \in Chunk : InTurn(c)'
  BY DEF AliveInv
<1>0. /\ Alive /\ cpc = "open" /\ ~ctxDone /\ ~closed' /\ ~ctxDone'
      /\ \A c \in Chunk : InTurn(c)
      /\ HoldTypes /\ DispatchOwns
  BY AliveBefore DEF Alive, AliveInv, HoldInv
<1>1. CASE DispatchStep
  <2>1. UNCHANGED <<next, cur>>
    BY <1>1, DispatchFrame DEF strm
  <2>2. \/ UNCHANGED place
        \/ /\ index \in Chunk /\ place[index] \in {"reserved", "unscheduled"}
           /\ \E p \in {"reserved", "queued"} : Move(index, p)
    BY <1>0, <1>1 DEF DispatchStep, EnqueueProbe, AbandonProbe, ReserveSlot, StopReserving,
         EnqueueChunk, AbandonChunk, JoinWorkers, DispatchOwns, hold
  <2> QED BY <1>0, <2>1, <2>2, OnTheWay
<1>2. ASSUME NEW w \in Worker, WorkerStep(w) PROVE \A c \in Chunk : InTurn(c)'
  <2>1. UNCHANGED <<next, cur>>
    BY <1>2, WorkerFrame DEF strm
  <2>2. \/ UNCHANGED place
        \/ \E c \in Chunk, p \in {"worker", "results"} :
             place[c] \in {"queued", "worker"} /\ Move(c, p)
    <3>1. CASE TakeTask(w)
      BY <3>1 DEF TakeTask, In
    <3>2. CASE SendResult(w)
      <4>1. task[w] \in Chunk /\ place[task[w]] = "worker"
        BY <3>2 DEF SendResult, HoldInv, WorkersOwn, Busy
      <4> QED BY <3>2, <4>1 DEF SendResult
    <3>3. CASE \/ WorkerExits(w) \/ ProbeRead(w) \/ ProbeReadFails(w) \/ RequestFails(w)
               \/ RequestAnswered(w) \/ ResponseFails(w) \/ PartRead(w) \/ BackoffEnds(w)
               \/ BackoffCanceled(w)
      BY <3>3 DEF WorkerExits, ProbeRead, ProbeReadFails, RequestFails, RequestAnswered,
           ResponseFails, PartRead, BackoffEnds, BackoffCanceled, hold
    <3>4. CASE DropResult(w)
      BY <1>0, <3>4 DEF DropResult
    <3> QED BY <1>2, <3>1, <3>2, <3>3, <3>4 DEF WorkerStep
  <2> QED BY <1>0, <2>1, <2>2, OnTheWay
<1>3. CASE ReadStep
  BY <1>0, <1>3, ReadInTurn
<1>4. CASE CloseStep
  BY <1>0, <1>4 DEF CloseStep, CloseLocks, CloseCancels, CloseBodies, CloseReleases
<1>5. CASE Drain
  BY <1>0, <1>5 DEF Drain
<1>6. CASE Outside
  <2>1. UNCHANGED <<place, next, cur>>
    BY <1>6, OutsideFrame DEF hold, strm
  <2> QED BY <1>0, <2>1, OnTheWay
<1> QED BY <1>1, <1>2, <1>3, <1>4, <1>5, <1>6, Steps

LEMMA AliveInvariant == Spec => []AliveInv
<1>1. Init => AliveInv
  <2> SUFFICES ASSUME Init, NEW c \in Chunk PROVE InTurn(c)
    BY DEF AliveInv
  <2>1. c \in Nat
    BY ChunkFacts
  <2> QED BY <2>1 DEF Init, InTurn
<1> QED BY <1>1, AliveNext, HoldingInvariant, PosInvariant, PlaceInvariant, CallInvariant,
     ClosedHasErrorInvariant, PTL DEF Spec

\* At the select nothing has failed unless the puller was stopped, and Read
\* has neither the chunk it waits for nor any other.
LEMMA AtSelect ==
  ASSUME HoldInv, PlaceInv, CallInv, AliveInv, rpc = "select", ~ctxDone, ~closed,
         next \in Chunk
  PROVE  /\ \A c \in Chunk : c < next => place[c] = "released"
         /\ place[next] \in {"unscheduled", "reserved", "queued", "worker", "results"}
<1>1. Alive
  BY DEF CallInv, Alive
<1>2. cur = NoChunk /\ got = NoChunk /\ NoChunk \notin Chunk /\ Chunk \subseteq Nat
  BY ChunkFacts DEF PlaceInv, HandsFree
<1>3. InTurn(next) /\ place[next] # "pending" /\ place[next] # "held"
  BY <1>1, <1>2 DEF AliveInv, CallInv, In, PlaceInv, Whereabouts
<1>4. place[next] \in Places
  BY DEF HoldInv, HoldTypes
<1>5. \A c \in Chunk : c < next => place[c] = "released"
  BY <1>1, <1>2 DEF AliveInv, InTurn
<1>6. place[next] \notin {"released", "current", "closing"}
  BY <1>2, <1>3 DEF InTurn
<1> QED BY <1>3, <1>4, <1>5, <1>6 DEF Places

\* The chunk Read waits for is on its way to p.results, or nothing is and no
\* slot is taken: the dispatcher reserves slots in the order Read needs them.
THEOREM AwaitedChunkComes == Spec => []AwaitedChunkIsComing
<1>1. ASSUME HoldInv, PlaceInv, CallInv, AliveInv PROVE AwaitedChunkIsComing
  <2> SUFFICES ASSUME rpc = "select", ~ctxDone, ~closed, next \in Chunk,
                      place[next] = "unscheduled"
               PROVE  slots = 0
    BY <1>1, AtSelect DEF AwaitedChunkIsComing
  <2>1. HoldTypes /\ DispatchOwns /\ SlotAccounting /\ Chunk \subseteq Nat /\ NChunks \in Nat
    BY <1>1, ChunkFacts, ChunkCount DEF HoldInv
  <2>2. index \in 0 .. NChunks /\ ~(next < index)
    BY <1>1, <2>1 DEF PlaceInv, Whereabouts, HoldTypes
  <2>3. next < NChunks /\ next \in Nat
    BY <2>1 DEF Chunk
  <2>4. dpc \in {"probe", "reserve", "send"}
    <3>1. index # NChunks
      BY <2>1, <2>2, <2>3
    <3> QED BY <1>1, <2>1, <3>1 DEF PlaceInv, EndsInOrder, HoldTypes
  <2>5. ASSUME NEW c \in Chunk PROVE place[c] \in {"unscheduled", "released"}
    <3>1. CASE c < next
      BY <1>1, <3>1, AtSelect
    <3>2. CASE c = next
      BY <3>2
    <3>3. CASE c > next
      <4>1. c > index
        BY <2>1, <2>2, <2>3, <3>3
      <4> QED BY <2>1, <2>4, <4>1 DEF DispatchOwns
    <3>4. c < next \/ c = next \/ c > next
      BY <2>1, <2>3
    <3> QED BY <3>1, <3>2, <3>3, <3>4
  <2>6. Holding = {}
    BY <2>5 DEF Holding, HoldingIn
  <2> QED BY <2>1, <2>6, FS_EmptySet DEF SlotAccounting
<1> QED BY <1>1, HoldingInvariant, PlaceInvariant, CallInvariant, AliveInvariant, PTL

-----------------------------------------------------------------------------
(* The end of the blob.                                                    *)

\* p.results is closed and empty before the end only if the puller stopped.
EndInv == rpc = "fail" /\ ferr = "eof" => Len(out) = Total \/ ctxDone \/ closed

LEMMA ResultsEndAtTotal ==
  ASSUME HoldInv, PosInv, PlaceInv, CallInv, AliveInv, ReceiveClosed
  PROVE  Len(out) = Total \/ ctxDone \/ closed
<1> SUFFICES ASSUME ~ctxDone, ~closed PROVE Len(out) = Total
  OBVIOUS
<1>1. rpc = "select" /\ results = <<>> /\ dpc = "done"
  BY DEF ReceiveClosed, ResultsClosed
<1>2. cur = NoChunk /\ Len(out) = Upto(next) /\ next \in 0 .. NChunks /\ NChunks \in Nat
  BY <1>1, ChunkCount DEF PlaceInv, HandsFree, PosInv, Position
<1>3. next \notin Chunk
  <2> SUFFICES ASSUME next \in Chunk PROVE FALSE
    OBVIOUS
  <2>1. place[next] \in {"unscheduled", "reserved", "queued", "worker", "results"}
    BY <1>1, AtSelect
  <2>2. Whereabouts(next) /\ EndsInOrder
    BY DEF PlaceInv
  <2>3. \A w \in Worker : wpc[w] = "exited" /\ In("queued") = {}
    BY <1>1, <2>2 DEF EndsInOrder
  <2>4. PICK w \in Worker : TRUE
    <3>1. Cardinality(Worker) # 0
      BY WorkersAssumption, WorkerCountPositive
    <3> QED BY <3>1, FS_EmptySet
  <2>5. place[next] # "queued"
    BY <2>3, <2>4 DEF In
  <2>6. place[next] # "worker"
    BY <2>2, <2>3 DEF Whereabouts, Busy
  <2>7. place[next] # "results"
    BY <1>1, <2>2 DEF Whereabouts, Elems
  <2>8. place[next] # "reserved"
    BY <1>1, <2>2 DEF Whereabouts
  <2>9. place[next] # "unscheduled"
    <3>1. index = NChunks /\ next < index
      BY <1>1, <2>2, <1>2 DEF EndsInOrder, Chunk
    <3> QED BY <2>2, <3>1 DEF Whereabouts
  <2> QED BY <2>1, <2>5, <2>6, <2>7, <2>8, <2>9
<1>4. next = NChunks
  BY <1>2, <1>3 DEF Chunk
<1> QED BY <1>2, <1>4 DEF Upto

LEMMA EndNext ==
  ASSUME EndInv, HoldInv, ContentInv, PosInv, PlaceInv, CallInv, AliveInv, [Next]_vars
  PROVE  EndInv'
<1>0. Monotonic
  BY ClosedStays
<1>1. CASE DispatchStep \/ (\E w \in Worker : WorkerStep(w)) \/ CloseStep \/ Drain \/ Outside
  <2>1. UNCHANGED <<rpc, ferr, out>>
    BY <1>1, DispatchFrame, WorkerFrame, CloseFrame, DrainFrame, OutsideFrame DEF call, strm
  <2> QED BY <1>0, <2>1 DEF EndInv, Monotonic
<1>2. CASE ReadStep
  <2>1. CASE ReceiveClosed
    <3>1. UNCHANGED out
      BY <2>1 DEF ReceiveClosed, strm
    <3> QED BY <1>0, <2>1, <3>1, ResultsEndAtTotal DEF EndInv, Monotonic
  <2>2. CASE RejectResult
    <3>1. GotError => outcome[got] \in Outcomes
      BY DEF GotError, HoldInv, HoldTypes, ContentInv, ContentTypes
    <3>2. ferr' # "eof"
      BY <2>2, <3>1 DEF RejectResult, GivesUp, Refusal, Outcomes
    <3> QED BY <3>2 DEF EndInv
  <2>3. CASE ReadStep /\ ~ReceiveClosed /\ ~RejectResult
    <3>1. rpc' # "fail" \/ ferr' = "ctx"
      BY <2>3 DEF ReadStep, ReadSticky, ReadCanceled, ReadBytes, ReadExhausted, TakePending,
           Receive, SelectCanceled, CheckContext, Order, AdoptResult, TerminalError,
           Returns, GivesUp, Answer
    <3> QED BY <3>1 DEF EndInv
  <2> QED BY <1>2, <2>1, <2>2, <2>3
<1> QED BY <1>1, <1>2, Steps

LEMMA EndInvariant == Spec => []EndInv
<1>1. Init => EndInv
  BY DEF Init, EndInv
<1> QED BY <1>1, EndNext, HoldingInvariant, ContentInvariant, PosInvariant, PlaceInvariant,
     CallInvariant, AliveInvariant, PTL DEF Spec

-----------------------------------------------------------------------------
(* The refinement of BlobStream.                                           *)

\* Read's steps are the stream's: bytes in order, the end, or an error.
LEMMA ReadRefines ==
  ASSUME HoldInv, ContentInv, PosInv, CallInv, EndInv, ClosedHasError, ReadStep
  PROVE  [Stream!Next]_(Stream!vars)
<1>0. UNCHANGED <<ctxDone, closed>>
  BY ReadFrame
<1>1. CASE ReadBytes
  <2>1. ~closed /\ \E n \in 1 .. Total - Len(out) :
          out' = out \o [i \in 1 .. n |-> Len(out) + i - 1]
    BY <1>1, ReadContinues
  <2>2. err = "nil" /\ ~ctxDone /\ UNCHANGED err
    BY <1>1 DEF ReadBytes, ctl
  <2>3. Stream!Deliver
    BY <1>0, <2>1, <2>2 DEF Stream!Deliver
  <2> QED BY <2>3 DEF Stream!Next
<1>2. CASE ReadCanceled
  <2>1. Stream!Canceled
    BY <1>0, <1>2 DEF ReadCanceled, strm, Stream!Canceled
  <2> QED BY <2>1 DEF Stream!Next
<1>3. CASE TerminalError
  <2>1. UNCHANGED out /\ rpc = "fail" /\ err' = ErrAfter(ferr)
    BY <1>3 DEF TerminalError, strm
  <2>2. CASE err # "nil"
    BY <1>0, <2>1, <2>2 DEF ErrAfter, Stream!vars
  <2>3. CASE err = "nil"
    <3>1. ~closed /\ err' = ferr
      BY <2>1, <2>3 DEF ClosedHasError, ErrAfter
    <3>2. ferr \in {"eof", "fetch", "ctx"} /\ (ferr = "ctx" => ctxDone)
      BY <2>1, <3>1 DEF CallInv
    <3>3. ferr = "eof" => Len(out) = Total \/ ctxDone
      BY <2>1, <3>1 DEF EndInv
    <3>4. Stream!End \/ Stream!Fail \/ Stream!Canceled
      BY <1>0, <2>1, <2>3, <3>1, <3>2, <3>3 DEF Stream!End, Stream!Fail, Stream!Canceled
    <3> QED BY <3>4 DEF Stream!Next
  <2> QED BY <2>2, <2>3
<1>4. CASE \/ ReadSticky \/ ReadExhausted \/ TakePending \/ Receive \/ ReceiveClosed
           \/ SelectCanceled \/ CheckContext \/ Order \/ RejectResult \/ AdoptResult
  <2>1. UNCHANGED <<err, out>>
    BY <1>4 DEF ReadSticky, ReadExhausted, ReleaseCurrent, TakePending, Receive, ReceiveClosed,
         SelectCanceled, CheckContext, Order, RejectResult, AdoptResult, ctl, strm
  <2> QED BY <1>0, <2>1 DEF Stream!vars
<1> QED BY <1>1, <1>2, <1>3, <1>4 DEF ReadStep

\* The other goroutines change nothing a caller of Read can see, but for
\* Close and the context.
LEMMA StepRefines ==
  ASSUME HoldInv, ContentInv, PosInv, CallInv, EndInv, ClosedHasError, [Next]_vars
  PROVE  [Stream!Next]_(Stream!vars)
<1>1. CASE DispatchStep \/ (\E w \in Worker : WorkerStep(w)) \/ Drain
  <2>1. UNCHANGED <<out, err, ctxDone, closed>>
    BY <1>1, DispatchFrame, WorkerFrame, DrainFrame DEF ctl, strm
  <2> QED BY <2>1 DEF Stream!vars
<1>2. CASE ReadStep
  BY <1>2, ReadRefines
<1>3. CASE CloseStep
  <2>0. UNCHANGED out
    BY <1>3, CloseFrame
  <2>1. CASE CloseLocks
    <3>1. Stream!Close
      BY <2>0, <2>1 DEF CloseLocks, ErrAfter, Stream!Close
    <3> QED BY <3>1 DEF Stream!Next
  <2>2. CASE CloseCancels
    <3>1. Stream!ContextEnds
      BY <2>0, <2>2 DEF CloseCancels, Stream!ContextEnds
    <3> QED BY <3>1 DEF Stream!Next
  <2>3. CASE CloseBodies \/ CloseReleases
    BY <2>0, <2>3 DEF CloseBodies, CloseReleases, ctl, Stream!vars
  <2> QED BY <1>3, <2>1, <2>2, <2>3 DEF CloseStep
<1>4. CASE Outside
  <2>1. UNCHANGED <<out, err, closed>>
    BY <1>4, OutsideFrame DEF strm
  <2>2. CASE ctxDone' = TRUE
    <3>1. Stream!ContextEnds
      BY <2>1, <2>2 DEF Stream!ContextEnds
    <3> QED BY <3>1 DEF Stream!Next
  <2>3. CASE UNCHANGED ctxDone
    BY <2>1, <2>3 DEF Stream!vars
  <2>4. ctxDone' = TRUE \/ UNCHANGED ctxDone
    BY <1>4 DEF Outside, CallerCancels, OtherTakes, OtherPuts, ctl, vars
  <2> QED BY <2>2, <2>3, <2>4
<1> QED BY <1>1, <1>2, <1>3, <1>4, Steps

\* The parallel puller is an ordered blob stream: every byte once and in
\* order whatever order the chunks arrive in, one terminal error, and
\* nothing once Close or the context stopped it.
THEOREM PullerIsAStream == Spec => ImplementsStream
<1>1. Init => Stream!Init
  BY DEF Init, Stream!Init
<1> QED BY <1>1, StepRefines, HoldingInvariant, ContentInvariant, PosInvariant, CallInvariant,
     EndInvariant, ClosedHasErrorInvariant, PTL DEF Spec, ImplementsStream, Stream!Spec
=============================================================================
