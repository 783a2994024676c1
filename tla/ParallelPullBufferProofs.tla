---------------------- MODULE ParallelPullBufferProofs ----------------------
(***************************************************************************)
(* Proofs about the buffers and the response bodies of ParallelPull, for   *)
(* every blob, worker count and number of buffers, and whatever the other  *)
(* pulls of the client do with the pool they share.                        *)
(***************************************************************************)
EXTENDS ParallelPullProofs

-----------------------------------------------------------------------------
(* Free lists as sequences without repetition.                             *)

Distinct(s) == \A i, j \in DOMAIN s : s[i] = s[j] => i = j

\* A buffer appended to a free list is the only newcomer.
LEMMA AppendedElems ==
  ASSUME NEW S, NEW s \in Seq(S), NEW e \in S
  PROVE  /\ Append(s, e) \in Seq(S) /\ Append(s, e) # <<>>
         /\ Elems(Append(s, e)) = Elems(s) \cup {e}
         /\ Distinct(s) /\ e \notin Elems(s) => Distinct(Append(s, e))
<1> DEFINE t == Append(s, e)
<1>1. /\ t \in Seq(S) /\ Len(t) = Len(s) + 1 /\ Len(s) \in Nat
      /\ t[Len(s) + 1] = e /\ \A i \in 1 .. Len(s) : t[i] = s[i]
      /\ DOMAIN t = 1 .. Len(t) /\ DOMAIN s = 1 .. Len(s) /\ t # <<>>
  OBVIOUS
<1> HIDE DEF t
<1>2. \A i \in DOMAIN t : i \in DOMAIN s \/ i = Len(s) + 1
  BY <1>1
<1>3. Elems(t) = Elems(s) \cup {e}
  BY <1>1, <1>2 DEF Elems
<1>4. Distinct(s) /\ e \notin Elems(s) => Distinct(t)
  BY <1>1, <1>2 DEF Elems, Distinct
<1> QED BY <1>1, <1>3, <1>4 DEF t

\* The head of a free list is no longer in it once it is taken.
LEMMA TakenElems ==
  ASSUME NEW S, NEW s \in Seq(S), s # <<>>
  PROVE  /\ Head(s) \in S /\ Tail(s) \in Seq(S)
         /\ Elems(s) = Elems(Tail(s)) \cup {Head(s)}
         /\ Distinct(s) => Distinct(Tail(s)) /\ Head(s) \notin Elems(Tail(s))
<1> DEFINE t == Tail(s)
<1>1. /\ t \in Seq(S) /\ Len(t) = Len(s) - 1 /\ Len(s) \in Nat \ {0}
      /\ \A i \in 1 .. Len(t) : t[i] = s[i + 1]
      /\ DOMAIN t = 1 .. Len(t) /\ DOMAIN s = 1 .. Len(s) /\ Head(s) = s[1] /\ s[1] \in S
  OBVIOUS
<1> HIDE DEF t
<1>2. /\ \A i \in DOMAIN t : i + 1 \in DOMAIN s /\ i + 1 # 1
      /\ \A i \in DOMAIN s : i = 1 \/ (i - 1 \in DOMAIN t /\ (i - 1) + 1 = i)
      /\ 1 \in DOMAIN s
  BY <1>1
<1>3. Elems(s) \subseteq Elems(t) \cup {s[1]}
  <2> SUFFICES ASSUME NEW i \in DOMAIN s, i # 1 PROVE s[i] \in Elems(t)
    BY DEF Elems
  <2>1. i - 1 \in DOMAIN t /\ t[i - 1] = s[i]
    BY <1>1, <1>2
  <2> QED BY <2>1 DEF Elems
<1>4. Elems(t) \cup {s[1]} \subseteq Elems(s)
  BY <1>1, <1>2 DEF Elems
<1>5. Distinct(s) => Distinct(t) /\ s[1] \notin Elems(t)
  <2> SUFFICES ASSUME Distinct(s) PROVE Distinct(t) /\ s[1] \notin Elems(t)
    OBVIOUS
  <2>1. ASSUME NEW i \in DOMAIN t, NEW j \in DOMAIN t, t[i] = t[j] PROVE i = j
    <3>1. s[i + 1] = s[j + 1] /\ i + 1 \in DOMAIN s /\ j + 1 \in DOMAIN s
      BY <1>1, <1>2, <2>1
    <3>2. i + 1 = j + 1
      BY <3>1 DEF Distinct
    <3> QED BY <1>1, <3>2
  <2>2. \A i \in DOMAIN t : t[i] # s[1]
    BY <1>1, <1>2 DEF Distinct
  <2> QED BY <2>1, <2>2 DEF Distinct, Elems
<1> QED BY <1>1, <1>3, <1>4, <1>5 DEF t

-----------------------------------------------------------------------------
(* Who owns a buffer.                                                      *)

\* The places of a chunk that may have a buffer.
Filled == {"worker", "results", "held", "pending", "current", "closing"}

BufferTypes ==
  /\ data \in [Chunk -> Buffer \cup {NoBuf}]
  /\ pool \in Seq(Buffer) /\ lent \subseteq Buffer

\* A chunk has a buffer only between its task and its release.
DataHeld == \A c \in Chunk : data[c] # NoBuf => place[c] \in Filled

BufferInv == BufferTypes /\ BuffersHaveOneOwner /\ DataHeld

\* The absence of a buffer is not one.
LEMMA NoBufIsNone == NoBuf \notin Buffer
  BY BufferAssumption DEF NoBuf

\* BuffersHaveOneOwner, with the free list as a set.
LEMMA OwnersDef ==
  BuffersHaveOneOwner <=>
    /\ \A c, d \in Chunk : data[c] # NoBuf /\ data[c] = data[d] => c = d
    /\ Distinct(pool)
    /\ \A c \in Chunk : data[c] \notin Elems(pool) /\ data[c] \notin lent
    /\ Elems(pool) \cap lent = {}
  BY DEF BuffersHaveOneOwner, Distinct

\* A puller starts with no buffer.
LEMMA BufferInit == Init => BufferInv
<1> SUFFICES ASSUME Init PROVE BufferInv
  OBVIOUS
<1>1. Elems(pool) = {} /\ Distinct(pool)
  BY DEF Init, Elems, Distinct
<1>2. BuffersHaveOneOwner
  BY <1>1, OwnersDef DEF Init
<1> QED BY <1>2 DEF Init, BufferInv, BufferTypes, DataHeld

\* A chunk changes hands with its buffer.
LEMMA MovedBuffer ==
  ASSUME BufferInv, HoldTypes, NEW c \in Chunk, NEW p, Move(c, p),
         p \in Filled \/ place[c] \notin Filled, UNCHANGED bufs
  PROVE  BufferInv'
<1>1. BufferTypes' /\ BuffersHaveOneOwner'
  BY DEF BufferInv, BufferTypes, BuffersHaveOneOwner, bufs
<1>2. DataHeld'
  BY DEF BufferInv, DataHeld, Move, HoldTypes, bufs
<1> QED BY <1>1, <1>2 DEF BufferInv

\* Nothing happens to buffers or holders.
LEMMA SameBuffers ==
  ASSUME BufferInv, UNCHANGED <<data, pool, lent, place>>
  PROVE  BufferInv'
  BY DEF BufferInv, BufferTypes, BuffersHaveOneOwner, DataHeld

\* What put leaves in the free list.
LEMMA RecycledPool ==
  ASSUME BufferInv, NEW b \in Buffer \cup {NoBuf}, b \notin Elems(pool)
  PROVE  /\ Recycled(b) \in Seq(Buffer) /\ Distinct(Recycled(b))
         /\ Elems(Recycled(b)) \subseteq Elems(pool) \cup ({b} \ {NoBuf})
         /\ b # NoBuf => Recycled(b) # <<>>
<1>1. pool \in Seq(Buffer) /\ Distinct(pool)
  BY OwnersDef DEF BufferInv, BufferTypes
<1>2. CASE b # NoBuf /\ Len(pool) < PullWorkers
  BY <1>1, <1>2, AppendedElems DEF Recycled
<1>3. CASE b = NoBuf
  BY <1>1, <1>3 DEF Recycled
<1>4. CASE ~(Len(pool) < PullWorkers)
  <2>1. pool # <<>>
    BY <1>4, WorkersAssumption
  <2> QED BY <1>1, <1>4, <2>1 DEF Recycled
<1> QED BY <1>2, <1>3, <1>4

\* A chunk gives its buffer back; the pool keeps it or drops it.
LEMMA ReturnedBuffer ==
  ASSUME BufferInv, NEW c \in Chunk,
         pool' = Recycled(data[c]), data' = [data EXCEPT ![c] = NoBuf], UNCHANGED lent,
         \A d \in Chunk \ {c} : place[d] \in Filled => place'[d] \in Filled
  PROVE  BufferInv'
<1>1. data[c] \in Buffer \cup {NoBuf} /\ data[c] \notin Elems(pool) /\ data[c] \notin lent
  BY OwnersDef DEF BufferInv, BufferTypes
<1>2. /\ pool' \in Seq(Buffer) /\ Distinct(pool')
      /\ Elems(pool') \subseteq Elems(pool) \cup ({data[c]} \ {NoBuf})
  BY <1>1, RecycledPool
<1>3. /\ data' \in [Chunk -> Buffer \cup {NoBuf}] /\ data'[c] = NoBuf
      /\ \A d \in Chunk \ {c} : data'[d] = data[d]
  BY DEF BufferInv, BufferTypes
<1>4. BufferTypes'
  BY <1>2, <1>3 DEF BufferInv, BufferTypes
<1>5. NoBuf \notin Elems(pool') /\ NoBuf \notin lent
  <2>1. NoBuf \notin Elems(pool)
    BY NoBufIsNone DEF BufferInv, BufferTypes, Elems
  <2> QED BY <1>2, <2>1, NoBufIsNone DEF BufferInv, BufferTypes
<1>6. \A d \in Chunk : data'[d] \notin Elems(pool') /\ data'[d] \notin lent
  <2> SUFFICES ASSUME NEW d \in Chunk PROVE data'[d] \notin Elems(pool') /\ data'[d] \notin lent
    OBVIOUS
  <2>1. CASE d = c
    BY <1>3, <1>5, <2>1
  <2>2. CASE d # c
    <3>1. data'[d] = data[d] /\ data[d] \notin Elems(pool) /\ data[d] \notin lent
          /\ (data[c] # NoBuf => data[d] # data[c])
      BY <1>3, <2>2, OwnersDef DEF BufferInv
    <3> QED BY <1>2, <3>1
  <2> QED BY <2>1, <2>2
<1>7. \A d, e \in Chunk : data'[d] # NoBuf /\ data'[d] = data'[e] => d = e
  BY <1>3, OwnersDef DEF BufferInv
<1>8. Elems(pool') \cap lent = {}
  BY <1>1, <1>2, OwnersDef DEF BufferInv
<1>9. BuffersHaveOneOwner'
  <2>1. /\ \A d, e \in Chunk : data'[d] # NoBuf /\ data'[d] = data'[e] => d = e
        /\ \A i, j \in DOMAIN pool' : pool'[i] = pool'[j] => i = j
        /\ \A d \in Chunk : data'[d] \notin Elems(pool') \cup lent'
        /\ Elems(pool') \cap lent' = {}
    BY <1>2, <1>6, <1>7, <1>8 DEF Distinct
  <2> QED BY <2>1 DEF BuffersHaveOneOwner
<1>10. DataHeld'
  BY <1>3 DEF BufferInv, DataHeld
<1> QED BY <1>4, <1>9, <1>10 DEF BufferInv

\* take hands out a buffer nobody owns, and leaves the others in the pool.
LEMMA TakenBuffer ==
  ASSUME BufferInv, NEW b \in Buffer, NEW content, Take(b, content)
  PROVE  /\ pool' \in Seq(Buffer) /\ Distinct(pool') /\ Elems(pool') \subseteq Elems(pool) \ {b}
         /\ b \notin lent /\ \A c \in Chunk : data[c] # b
<1>1. CASE pool # <<>>
  <2>1. b = Head(pool) /\ pool' = Tail(pool) /\ pool \in Seq(Buffer) /\ Distinct(pool)
    BY <1>1, OwnersDef DEF Take, BufferInv, BufferTypes
  <2>2. /\ Tail(pool) \in Seq(Buffer) /\ Distinct(Tail(pool))
        /\ Elems(pool) = Elems(Tail(pool)) \cup {b} /\ b \notin Elems(Tail(pool))
    BY <1>1, <2>1, TakenElems
  <2> QED BY <2>1, <2>2, OwnersDef DEF BufferInv
<1>2. CASE pool = <<>>
  <2>1. b \notin InUse /\ pool' = pool
    BY <1>2 DEF Take, Fresh
  <2>2. pool' \in Seq(Buffer) /\ Distinct(pool')
    BY <2>1, OwnersDef DEF BufferInv, BufferTypes
  <2> QED BY <2>1, <2>2 DEF InUse
<1> QED BY <1>1, <1>2

\* Release gives the buffer of a chunk back.
LEMMA ReleasedBuffer ==
  ASSUME BufferInv, HoldTypes, NEW c \in Chunk, Release(c)
  PROVE  BufferInv'
<1>1. /\ pool' = Recycled(data[c]) /\ data' = [data EXCEPT ![c] = NoBuf] /\ UNCHANGED lent
      /\ place' = [place EXCEPT ![c] = "released"]
  BY DEF Release, Put
<1>2. \A d \in Chunk \ {c} : place'[d] = place[d]
  BY <1>1 DEF HoldTypes
<1> QED BY <1>1, <1>2, ReturnedBuffer

\* A fetch that fails gives its buffer back.
LEMMA FailedBuffer ==
  ASSUME BufferInv, HoldInv, NEW w \in Worker, NEW e, Busy(w), FetchFails(w, e),
         UNCHANGED <<lent, place>>
  PROVE  BufferInv'
<1>1. task[w] \in Chunk
  BY DEF HoldInv, WorkersOwn
<1> QED BY <1>1, ReturnedBuffer DEF FetchFails, Put

\* The dispatcher schedules chunks that have no buffer yet.
LEMMA DispatchBuffers == ASSUME BufferInv, HoldInv, DispatchStep PROVE BufferInv'
<1>1. HoldTypes /\ DispatchOwns /\ 0 \in Chunk
  BY ChunkFacts DEF HoldInv
<1>2. CASE EnqueueProbe
  BY <1>1, <1>2, MovedBuffer DEF EnqueueProbe, DispatchOwns, Filled
<1>3. CASE ReserveSlot \/ EnqueueChunk
  BY <1>1, <1>3, MovedBuffer DEF ReserveSlot, EnqueueChunk, DispatchOwns, Filled
<1>4. CASE AbandonProbe \/ AbandonChunk
  BY <1>1, <1>4, ReleasedBuffer DEF AbandonProbe, AbandonChunk, DispatchOwns
<1>5. CASE StopReserving \/ JoinWorkers
  BY <1>5, SameBuffers DEF StopReserving, JoinWorkers, bufs, hold
<1> QED BY <1>2, <1>3, <1>4, <1>5 DEF DispatchStep

\* A worker takes a buffer for the chunk it starts on.
LEMMA TakeTaskBuffers ==
  ASSUME BufferInv, HoldInv, NEW w \in Worker, TakeTask(w)
  PROVE  BufferInv'
<1>1. PICK c \in In("queued"), b \in Buffer :
        Take(b, <<>>) /\ data' = [data EXCEPT ![c] = b] /\ Move(c, "worker")
  BY DEF TakeTask
<1>2. c \in Chunk /\ UNCHANGED lent
  BY DEF In, TakeTask
<1>3. /\ pool' \in Seq(Buffer) /\ Distinct(pool') /\ Elems(pool') \subseteq Elems(pool) \ {b}
      /\ b \notin lent /\ \A d \in Chunk : data[d] # b
  BY <1>1, TakenBuffer
<1>4. /\ data' \in [Chunk -> Buffer \cup {NoBuf}] /\ data'[c] = b
      /\ \A d \in Chunk \ {c} : data'[d] = data[d]
  BY <1>1, <1>2 DEF BufferInv, BufferTypes
<1>5. BufferTypes'
  BY <1>2, <1>3, <1>4 DEF BufferInv, BufferTypes
<1>6. BuffersHaveOneOwner'
  <2>1. \A d, e \in Chunk : data'[d] # NoBuf /\ data'[d] = data'[e] => d = e
    BY <1>3, <1>4, OwnersDef DEF BufferInv
  <2>2. \A d \in Chunk : data'[d] \notin Elems(pool') \cup lent'
    BY <1>2, <1>3, <1>4, OwnersDef DEF BufferInv
  <2>3. Elems(pool') \cap lent' = {}
    BY <1>2, <1>3, OwnersDef DEF BufferInv
  <2> QED BY <1>3, <2>1, <2>2, <2>3 DEF BuffersHaveOneOwner, Distinct
<1>7. DataHeld'
  BY <1>1, <1>2, <1>4 DEF BufferInv, DataHeld, Move, HoldInv, HoldTypes, Filled
<1> QED BY <1>5, <1>6, <1>7 DEF BufferInv

\* A worker that is fetching has a buffer; only the probe chunk is read from
\* the probe's body.
Working(w) == wpc[w] \in {"probe", "request", "body", "sleep"}
WorkersHaveBuffers ==
  \A w \in Worker : Working(w) =>
    data[task[w]] # NoBuf /\ (wpc[w] = "probe" => task[w] = 0)

\* After a broken probe body the buffer goes through the pool, and the next
\* one taken from it may be another.
LEMMA ProbeReadFailsBuffers ==
  ASSUME BufferInv, HoldInv, WorkersHaveBuffers, NEW w \in Worker, ProbeReadFails(w)
  PROVE  BufferInv'
<1>1. task[w] = 0 /\ 0 \in Chunk /\ place[0] = "worker" /\ Busy(w) /\ UNCHANGED <<lent, place>>
  BY ChunkFacts DEF ProbeReadFails, WorkersHaveBuffers, Working, HoldInv, WorkersOwn, Busy, hold
<1>2. CASE FetchFails(w, "ctx") \/ FetchFails(w, "fetch")
  BY <1>1, <1>2, FailedBuffer
<1>3. CASE /\ data' = [data EXCEPT ![0] = Head(Recycled(data[0]))]
           /\ pool' = Tail(Recycled(data[0])) /\ data[0] # NoBuf
  <2> DEFINE held == Recycled(data[0])
  <2>1. data[0] \in Buffer \cup {NoBuf} /\ data[0] \notin Elems(pool) /\ data[0] \notin lent
    BY <1>1, OwnersDef DEF BufferInv, BufferTypes
  <2>2. held \in Seq(Buffer) /\ held # <<>> /\ Distinct(held)
        /\ Elems(held) \subseteq Elems(pool) \cup {data[0]}
    BY <1>3, <2>1, RecycledPool
  <2>3. data' = [data EXCEPT ![0] = Head(held)] /\ pool' = Tail(held)
    BY <1>3
  <2> HIDE DEF held
  <2>4. /\ Head(held) \in Buffer /\ pool' \in Seq(Buffer) /\ Distinct(pool')
        /\ Elems(held) = Elems(pool') \cup {Head(held)} /\ Head(held) \notin Elems(pool')
    BY <2>2, <2>3, TakenElems
  <2>5. /\ data' \in [Chunk -> Buffer \cup {NoBuf}] /\ data'[0] = Head(held)
        /\ \A d \in Chunk \ {0} : data'[d] = data[d] /\ data[d] \notin Elems(pool)
                                  /\ data[d] \notin lent /\ data[d] # data[0]
    BY <1>1, <1>3, <2>3, <2>4, OwnersDef DEF BufferInv, BufferTypes
  <2>6. Elems(held) \cap lent = {}
    BY <2>1, <2>2, OwnersDef DEF BufferInv
  <2>7. BufferTypes'
    BY <1>1, <2>4, <2>5 DEF BufferInv, BufferTypes
  <2>8. BuffersHaveOneOwner'
    <3>1. \A d \in Chunk \ {0} : data'[d] \notin Elems(held)
      BY <2>2, <2>5
    <3>2. \A d, e \in Chunk : data'[d] # NoBuf /\ data'[d] = data'[e] => d = e
      <4>1. \A d, e \in Chunk \ {0} : data'[d] # NoBuf /\ data'[d] = data'[e] => d = e
        BY <2>5, OwnersDef DEF BufferInv
      <4>2. \A d \in Chunk \ {0} : data'[d] # data'[0]
        BY <2>4, <2>5, <3>1
      <4> QED BY <4>1, <4>2
    <3>3. \A d \in Chunk : data'[d] \notin Elems(pool') \cup lent'
      BY <1>1, <2>4, <2>5, <2>6, <3>1
    <3>4. Elems(pool') \cap lent' = {}
      BY <1>1, <2>4, <2>6
    <3> QED BY <2>4, <3>2, <3>3, <3>4 DEF BuffersHaveOneOwner, Distinct
  <2>9. DataHeld'
    BY <1>1, <2>5 DEF BufferInv, DataHeld, Filled
  <2> QED BY <2>7, <2>8, <2>9 DEF BufferInv
<1>4. data[0] # NoBuf
  BY <1>1 DEF WorkersHaveBuffers, Working, ProbeReadFails
<1> QED BY <1>2, <1>3, <1>4 DEF ProbeReadFails

\* The other steps of a fetch return its buffer or leave every buffer alone.
LEMMA WorkerBuffers ==
  ASSUME BufferInv, HoldInv, WorkersHaveBuffers, NEW w \in Worker, WorkerStep(w)
  PROVE  BufferInv'
<1>1. CASE TakeTask(w)
  BY <1>1, TakeTaskBuffers
<1>2. CASE ProbeReadFails(w)
  BY <1>2, ProbeReadFailsBuffers
<1>3. CASE RequestFails(w) \/ RequestAnswered(w) \/ ResponseFails(w) \/ BackoffCanceled(w)
  <2>1. Busy(w) /\ UNCHANGED <<lent, place>>
    BY <1>3 DEF RequestFails, RequestAnswered, ResponseFails, BackoffCanceled, Busy, hold
  <2>2. UNCHANGED <<data, mem, pool, outcome>> \/ \E e \in {"ctx", "fetch", "closed"} : FetchFails(w, e)
    BY <1>3 DEF RequestFails, RequestAnswered, ResponseFails, BackoffCanceled, AttemptFails
  <2> QED BY <2>1, <2>2, SameBuffers, FailedBuffer
<1>4. CASE PartRead(w)
  <2>1. Busy(w) /\ UNCHANGED <<lent, place>>
    BY <1>4 DEF PartRead, Busy, hold
  <2>2. UNCHANGED <<data, pool>> \/ FetchFails(w, "fetch")
    BY <1>4 DEF PartRead, FetchDone
  <2> QED BY <2>1, <2>2, SameBuffers, FailedBuffer
<1>5. CASE ProbeRead(w) \/ BackoffEnds(w) \/ WorkerExits(w)
  BY <1>5, SameBuffers DEF ProbeRead, FetchDone, BackoffEnds, WorkerExits, bufs, hold
<1>6. CASE SendResult(w) \/ DropResult(w)
  <2>1. task[w] \in Chunk /\ HoldTypes
    BY <1>6 DEF SendResult, DropResult, HoldInv, WorkersOwn, Busy
  <2> QED BY <1>6, <2>1, MovedBuffer, ReleasedBuffer DEF SendResult, DropResult, Filled
<1> QED BY <1>1, <1>2, <1>3, <1>4, <1>5, <1>6 DEF WorkerStep

\* Read passes buffers on, or gives them back.
LEMMA ReadBuffers == ASSUME BufferInv, HoldInv, ReadStep PROVE BufferInv'
<1>1. HoldTypes /\ ReaderOwns /\ ResultsOwn
  BY DEF HoldInv
<1>2. CASE \/ ReadSticky \/ ReadCanceled \/ ReadBytes \/ ReceiveClosed \/ SelectCanceled
           \/ TerminalError
  BY <1>2, SameBuffers DEF ReadSticky, ReadCanceled, ReadBytes, ReceiveClosed, SelectCanceled,
       TerminalError, bufs, hold
<1>3. CASE ReadExhausted
  BY <1>1, <1>3, SameBuffers, ReleasedBuffer DEF ReadExhausted, ReleaseCurrent, HoldTypes, bufs, hold
<1>4. CASE TakePending
  BY <1>1, <1>4, SameBuffers, MovedBuffer DEF TakePending, PendingReady, In, Filled, bufs
<1>5. CASE Receive
  <2>1. Head(results) \in Chunk
    BY <1>1, <1>5 DEF Receive, HoldTypes
  <2> QED BY <1>1, <1>5, <2>1, MovedBuffer DEF Receive, Filled
<1>6. CASE CheckContext \/ Order
  <2>1. got \in Chunk
    BY <1>1, <1>6 DEF CheckContext, Order, HoldTypes, ReaderOwns
  <2>2. UNCHANGED <<bufs, hold>> \/ Release(got) \/ (Move(got, "pending") /\ UNCHANGED bufs)
    BY <1>6 DEF CheckContext, Order
  <2> QED BY <1>1, <2>1, <2>2, SameBuffers, MovedBuffer, ReleasedBuffer DEF Filled, bufs, hold
<1>7. CASE RejectResult
  BY <1>1, <1>7, SameBuffers, ReleasedBuffer DEF RejectResult, HoldTypes, bufs, hold
<1>8. CASE AdoptResult
  BY <1>1, <1>8, SameBuffers, MovedBuffer DEF AdoptResult, HoldTypes, Filled, bufs
<1> QED BY <1>2, <1>3, <1>4, <1>5, <1>6, <1>7, <1>8 DEF ReadStep

\* Close gives back the current chunk's buffer and marks the pending ones.
LEMMA CloseBuffers == ASSUME BufferInv, HoldInv, CloseStep PROVE BufferInv'
<1>1. HoldTypes
  BY DEF HoldInv
<1>2. CASE CloseLocks
  <2>1. /\ \A c \in Chunk \ {cur} : place[c] \in Filled => place'[c] \in Filled
        /\ UNCHANGED lent
    BY <1>1, <1>2 DEF CloseLocks, HoldTypes, Filled
  <2>2. CASE cur # NoChunk
    <3>1. /\ cur \in Chunk /\ pool' = Recycled(data[cur])
          /\ data' = [data EXCEPT ![cur] = NoBuf]
      BY <1>1, <1>2, <2>2 DEF CloseLocks, HoldTypes, Put
    <3> QED BY <2>1, <3>1, ReturnedBuffer
  <2>3. CASE cur = NoChunk
    <3>1. UNCHANGED <<data, pool, lent>> /\ \A c \in Chunk : place[c] \in Filled => place'[c] \in Filled
      BY <1>2, <2>1, <2>3, ChunkFacts DEF CloseLocks
    <3> QED BY <3>1 DEF BufferInv, BufferTypes, BuffersHaveOneOwner, DataHeld
  <2> QED BY <2>2, <2>3
<1>3. CASE CloseCancels \/ CloseBodies
  BY <1>3, SameBuffers DEF CloseCancels, CloseBodies, bufs, hold
<1>4. CASE CloseReleases
  BY <1>1, <1>4, SameBuffers, ReleasedBuffer DEF CloseReleases, In, bufs, hold
<1> QED BY <1>2, <1>3, <1>4 DEF CloseStep

\* The client's other pulls take buffers nobody owns, and return their own.
LEMMA OthersBuffers == ASSUME BufferInv, OtherTakes \/ OtherPuts PROVE BufferInv'
<1>0. UNCHANGED <<data, place>>
  BY DEF OtherTakes, OtherPuts, hold
<1>1. CASE OtherTakes
  <2>1. PICK b \in Buffer : Take(b, <<Foreign>>) /\ lent' = lent \cup {b}
    BY <1>1 DEF OtherTakes
  <2>2. /\ pool' \in Seq(Buffer) /\ Distinct(pool') /\ Elems(pool') \subseteq Elems(pool) \ {b}
        /\ b \notin lent /\ \A c \in Chunk : data[c] # b
    BY <2>1, TakenBuffer
  <2>3. BufferTypes' /\ DataHeld'
    BY <1>0, <2>1, <2>2 DEF BufferInv, BufferTypes, DataHeld
  <2>4. /\ \A c \in Chunk : data'[c] \notin Elems(pool') \cup lent'
        /\ Elems(pool') \cap lent' = {}
        /\ \A c, d \in Chunk : data'[c] # NoBuf /\ data'[c] = data'[d] => c = d
    BY <1>0, <2>1, <2>2, OwnersDef DEF BufferInv
  <2> QED BY <2>2, <2>3, <2>4 DEF BufferInv, BuffersHaveOneOwner, Distinct
<1>2. CASE OtherPuts
  <2>1. PICK b \in lent : pool' = Recycled(b) /\ lent' = lent \ {b}
    BY <1>2 DEF OtherPuts, Put
  <2>2. b \in Buffer /\ b \notin Elems(pool) /\ \A c \in Chunk : data[c] # b
    BY <2>1, OwnersDef DEF BufferInv, BufferTypes
  <2>3. /\ pool' \in Seq(Buffer) /\ Distinct(pool') /\ Elems(pool') \subseteq Elems(pool) \cup {b}
    BY <2>1, <2>2, RecycledPool
  <2>4. BufferTypes' /\ DataHeld'
    BY <1>0, <2>1, <2>3 DEF BufferInv, BufferTypes, DataHeld
  <2>5. /\ \A c \in Chunk : data'[c] \notin Elems(pool') \cup lent'
        /\ Elems(pool') \cap lent' = {}
        /\ \A c, d \in Chunk : data'[c] # NoBuf /\ data'[c] = data'[d] => c = d
    BY <1>0, <2>1, <2>2, <2>3, OwnersDef DEF BufferInv
  <2> QED BY <2>3, <2>4, <2>5 DEF BufferInv, BuffersHaveOneOwner, Distinct
<1> QED BY <1>1, <1>2

\* Every step keeps one owner per buffer.
LEMMA NextBuffers ==
  ASSUME BufferInv, HoldInv, WorkersHaveBuffers, [Next]_vars
  PROVE  BufferInv'
<1>1. CASE DispatchStep \/ ReadStep \/ CloseStep
  BY <1>1, DispatchBuffers, ReadBuffers, CloseBuffers
<1>2. CASE \E w \in Worker : WorkerStep(w)
  BY <1>2, WorkerBuffers
<1>3. CASE Drain
  <2>1. Head(results) \in Chunk /\ HoldTypes
    BY <1>3 DEF Drain, HoldInv, HoldTypes
  <2> QED BY <1>3, <2>1, ReleasedBuffer DEF Drain
<1>4. CASE CallerCancels
  BY <1>4, SameBuffers DEF CallerCancels, bufs, hold
<1>5. CASE OtherTakes \/ OtherPuts
  BY <1>5, OthersBuffers
<1>6. CASE UNCHANGED vars
  BY <1>6, SameBuffers DEF vars, bufs, hold
<1> QED BY <1>1, <1>2, <1>3, <1>4, <1>5, <1>6 DEF Next

\* Whoever else gives a buffer back, it is not the one a worker fills.
LEMMA WorkersKeepBuffers ==
  ASSUME WorkersHaveBuffers, HoldInv, UNCHANGED <<wpc, task>>,
         \A c \in Chunk : place[c] = "worker" => data'[c] = data[c]
  PROVE  WorkersHaveBuffers'
<1>1. \A w \in Worker : Working(w) => data'[task[w]] = data[task[w]]
  BY DEF HoldInv, WorkersOwn, Working, Busy
<1> QED BY <1>1 DEF WorkersHaveBuffers, Working

\* A worker's step leaves the buffers of the others alone.
LEMMA OneWorkerMoves ==
  ASSUME WorkersHaveBuffers, HoldInv, NEW w \in Worker, NEW p, Goto(w, p),
         task' = task \/ task' = [task EXCEPT ![w] = NoChunk],
         Busy(w), \A c \in Chunk \ {task[w]} : data'[c] = data[c],
         p \in {"idle", "send"} \/ (p # "probe" /\ task' = task /\ data'[task[w]] # NoBuf)
  PROVE  WorkersHaveBuffers'
<1>1. ASSUME NEW v \in Worker, v # w, Working(v)'
      PROVE  data'[task'[v]] # NoBuf /\ (wpc'[v] = "probe" => task'[v] = 0)
  <2>1. wpc'[v] = wpc[v] /\ task'[v] = task[v] /\ Working(v)
    BY <1>1 DEF Goto, HoldInv, HoldTypes, Working
  <2>2. task[v] \in Chunk \ {task[w]}
    BY <1>1, <2>1 DEF HoldInv, WorkersOwn, Busy, Working
  <2> QED BY <2>1, <2>2 DEF WorkersHaveBuffers
<1>2. Working(w)' => data'[task'[w]] # NoBuf /\ wpc'[w] # "probe"
  BY DEF Goto, HoldInv, HoldTypes, Working
<1> QED BY <1>1, <1>2 DEF WorkersHaveBuffers

\* A fetch keeps its buffer until it ends.
LEMMA WorkerFills ==
  ASSUME BufferInv, HoldInv, WorkersHaveBuffers, NEW w \in Worker, WorkerStep(w)
  PROVE  WorkersHaveBuffers'
<1>1. CASE TakeTask(w)
  <2>1. PICK c \in In("queued"), b \in Buffer :
          /\ data' = [data EXCEPT ![c] = b] /\ task' = [task EXCEPT ![w] = c]
          /\ Goto(w, IF c = 0 THEN "probe" ELSE "request")
    BY <1>1 DEF TakeTask
  <2>2. c \in Chunk /\ place[c] = "queued" /\ data'[c] # NoBuf
    BY <2>1, NoBufIsNone DEF In, BufferInv, BufferTypes
  <2>3. ASSUME NEW v \in Worker, v # w, Working(v)'
        PROVE  data'[task'[v]] # NoBuf /\ (wpc'[v] = "probe" => task'[v] = 0)
    <3>1. wpc'[v] = wpc[v] /\ task'[v] = task[v] /\ Working(v)
      BY <2>1, <2>3 DEF Goto, HoldInv, HoldTypes, Working
    <3>2. task[v] \in Chunk \ {c}
      BY <2>2, <3>1 DEF HoldInv, WorkersOwn, Busy, Working
    <3> QED BY <2>1, <3>1, <3>2 DEF WorkersHaveBuffers, BufferInv, BufferTypes
  <2>4. task'[w] = c /\ (wpc'[w] = "probe" => c = 0)
    BY <2>1 DEF Goto, HoldInv, HoldTypes
  <2> QED BY <2>2, <2>3, <2>4 DEF WorkersHaveBuffers
<1>2. CASE WorkerExits(w)
  BY <1>2 DEF WorkerExits, bufs, Goto, HoldInv, HoldTypes, WorkersHaveBuffers, Working
<1>3. ASSUME Working(w) \/ wpc[w] = "send"
      PROVE  task[w] \in Chunk /\ Busy(w)
  BY <1>3 DEF HoldInv, WorkersOwn, Busy, Working
<1>4. CASE ProbeRead(w)
  BY <1>3, <1>4, OneWorkerMoves DEF ProbeRead, FetchDone, Working
<1>5. CASE ProbeReadFails(w)
  <2>1. task[w] = 0 /\ Working(w) /\ 0 \in Chunk /\ task' = task
    BY <1>5, ChunkFacts DEF ProbeReadFails, WorkersHaveBuffers, Working
  <2>2. data[0] \in Buffer /\ data[0] \notin Elems(pool)
    BY <2>1, OwnersDef DEF WorkersHaveBuffers, BufferInv, BufferTypes
  <2>3. Head(Recycled(data[0])) \in Buffer
    <3>1. Recycled(data[0]) \in Seq(Buffer) /\ Recycled(data[0]) # <<>>
      BY <2>2, RecycledPool, NoBufIsNone
    <3> QED BY <3>1, TakenElems
  <2>4. /\ \A c \in Chunk \ {0} : data'[c] = data[c]
        /\ Goto(w, "send") \/ (Goto(w, "request") /\ data'[0] = Head(Recycled(data[0])))
    BY <1>5, <2>1 DEF ProbeReadFails, FetchFails, BufferInv, BufferTypes
  <2> QED BY <1>3, <2>1, <2>3, <2>4, NoBufIsNone, OneWorkerMoves
<1>6. CASE RequestFails(w) \/ RequestAnswered(w) \/ ResponseFails(w) \/ BackoffCanceled(w)
  <2>1. Working(w) /\ task' = task /\ data[task[w]] # NoBuf
    BY <1>6 DEF RequestFails, RequestAnswered, ResponseFails, BackoffCanceled, Working,
         WorkersHaveBuffers
  <2>2. CASE \E e \in {"ctx", "fetch", "closed"} : FetchFails(w, e)
    <3>1. Goto(w, "send") /\ \A c \in Chunk \ {task[w]} : data'[c] = data[c]
      BY <2>2 DEF FetchFails, BufferInv, BufferTypes
    <3> QED BY <1>3, <2>1, <3>1, OneWorkerMoves
  <2>3. CASE UNCHANGED data /\ (Goto(w, "sleep") \/ Goto(w, "body"))
    BY <1>3, <2>1, <2>3, OneWorkerMoves
  <2> QED BY <1>6, <2>2, <2>3
       DEF RequestFails, RequestAnswered, ResponseFails, BackoffCanceled, AttemptFails
<1>7. CASE PartRead(w)
  <2>1. Working(w) /\ task' = task /\ data[task[w]] # NoBuf
    BY <1>7 DEF PartRead, Working, WorkersHaveBuffers
  <2>2. CASE FetchFails(w, "fetch")
    <3>1. Goto(w, "send") /\ \A c \in Chunk \ {task[w]} : data'[c] = data[c]
      BY <2>2 DEF FetchFails, BufferInv, BufferTypes
    <3> QED BY <1>3, <2>1, <3>1, OneWorkerMoves
  <2>3. CASE UNCHANGED data /\ (Goto(w, "send") \/ Goto(w, "request"))
    BY <1>3, <2>1, <2>3, OneWorkerMoves
  <2> QED BY <1>7, <2>2, <2>3 DEF PartRead, FetchDone
<1>8. CASE BackoffEnds(w)
  <2>1. Working(w) /\ task' = task /\ data[task[w]] # NoBuf /\ UNCHANGED data /\ Goto(w, "request")
    BY <1>8 DEF BackoffEnds, Working, WorkersHaveBuffers, bufs
  <2> QED BY <1>3, <2>1, OneWorkerMoves
<1>9. CASE SendResult(w) \/ DropResult(w)
  <2>1. /\ \A c \in Chunk \ {task[w]} : data'[c] = data[c]
        /\ Goto(w, "idle") /\ task' = [task EXCEPT ![w] = NoChunk] /\ wpc[w] = "send"
    BY <1>9 DEF SendResult, DropResult, Release, WorkerIdle, BufferInv, BufferTypes, bufs
  <2> QED BY <1>3, <2>1, OneWorkerMoves
<1> QED BY <1>1, <1>2, <1>4, <1>5, <1>6, <1>7, <1>8, <1>9 DEF WorkerStep

\* Release takes the buffer of the chunk it releases only.
LEMMA ReleaseKeepsOthers ==
  ASSUME BufferInv, NEW c \in Chunk, Release(c), place[c] # "worker"
  PROVE  \A d \in Chunk : place[d] = "worker" => data'[d] = data[d]
  BY DEF Release, BufferInv, BufferTypes

\* Outside the workers' steps, no buffer of a worker is given back.
LEMMA OthersRelease ==
  ASSUME BufferInv, HoldInv, Next, UNCHANGED <<wpc, task>>
  PROVE  \A c \in Chunk : place[c] = "worker" => data'[c] = data[c]
<1> SUFFICES ASSUME ~UNCHANGED data
             PROVE  \A c \in Chunk : place[c] = "worker" => data'[c] = data[c]
  OBVIOUS
<1>0. HoldTypes /\ DispatchOwns /\ ReaderOwns /\ ResultsOwn /\ 0 \in Chunk
  BY ChunkFacts DEF HoldInv
<1>1. CASE DispatchStep
  <2>1. CASE AbandonProbe
    BY <1>0, <2>1, ReleaseKeepsOthers DEF AbandonProbe, DispatchOwns
  <2>2. CASE AbandonChunk
    BY <1>0, <2>2, ReleaseKeepsOthers DEF AbandonChunk, DispatchOwns
  <2> QED BY <1>1, <2>1, <2>2
       DEF DispatchStep, EnqueueProbe, ReserveSlot, StopReserving, EnqueueChunk, JoinWorkers, bufs
<1>2. CASE \E w \in Worker : WorkerStep(w)
  <2>1. PICK w \in Worker : WorkerStep(w)
    BY <1>2
  <2>2. ASSUME NEW p \in WorkerPCs, p # wpc[w], Goto(w, p) PROVE FALSE
    BY <2>2, <1>0 DEF Goto, HoldTypes
  <2> QED BY <2>1, <2>2
       DEF WorkerStep, TakeTask, WorkerExits, ProbeRead, ProbeReadFails, RequestFails,
           RequestAnswered, ResponseFails, PartRead, BackoffEnds, BackoffCanceled, SendResult,
           DropResult, AttemptFails, FetchFails, FetchDone, WorkerIdle, WorkerPCs, bufs
<1>3. CASE ReadStep
  <2>1. \/ cur # NoChunk /\ Release(cur)
        \/ got # NoChunk /\ Release(got)
    BY <1>0, <1>3 DEF ReadStep, ReadSticky, ReadCanceled, ReadBytes, ReadExhausted, ReleaseCurrent,
         TakePending, Receive, ReceiveClosed, SelectCanceled, CheckContext, Order, RejectResult,
         AdoptResult, TerminalError, ReaderOwns, bufs
  <2> QED BY <1>0, <2>1, ReleaseKeepsOthers DEF HoldTypes, ReaderOwns
<1>4. CASE CloseLocks
  BY <1>0, <1>4 DEF CloseLocks, BufferInv, BufferTypes, ReaderOwns, HoldTypes
<1>5. CASE CloseReleases
  <2>1. PICK c \in Chunk : place[c] = "closing" /\ Release(c)
    BY <1>5 DEF CloseReleases, In, bufs
  <2> QED BY <2>1, ReleaseKeepsOthers
<1>6. CASE Drain
  <2>1. Head(results) \in Chunk /\ place[Head(results)] = "results"
    BY <1>0, <1>6 DEF Drain, HoldTypes, ResultsOwn
  <2> QED BY <1>6, <2>1, ReleaseKeepsOthers DEF Drain
<1> QED BY <1>1, <1>2, <1>3, <1>4, <1>5, <1>6
     DEF Next, CloseStep, CloseCancels, CloseBodies, CallerCancels, OtherTakes, OtherPuts, bufs

\* Chunks, buffers and workers, together an inductive invariant.
OwnerInv == HoldInv /\ BufferInv /\ WorkersHaveBuffers

LEMMA NextFills == ASSUME OwnerInv, [Next]_vars PROVE WorkersHaveBuffers'
<1>1. CASE \E w \in Worker : WorkerStep(w)
  BY <1>1, WorkerFills DEF OwnerInv
<1>2. CASE UNCHANGED vars
  BY <1>2 DEF OwnerInv, vars, work, bufs, WorkersHaveBuffers, Working
<1>3. CASE Next /\ ~(\E w \in Worker : WorkerStep(w))
  <2>1. UNCHANGED <<wpc, task>>
    BY <1>3 DEF Next, DispatchStep, EnqueueProbe, AbandonProbe, ReserveSlot, StopReserving,
         EnqueueChunk, AbandonChunk, JoinWorkers, ReadStep, ReadSticky, ReadCanceled, ReadBytes,
         ReadExhausted, TakePending, Receive, ReceiveClosed, SelectCanceled, CheckContext, Order,
         RejectResult, AdoptResult, TerminalError, CloseStep, CloseLocks, CloseCancels,
         CloseBodies, CloseReleases, Drain, CallerCancels, OtherTakes, OtherPuts, work
  <2> QED BY <1>3, <2>1, OthersRelease, WorkersKeepBuffers DEF OwnerInv
<1> QED BY <1>1, <1>2, <1>3

\* Every buffer has one owner, and a worker keeps the one it fills.
LEMMA OwnerInvariant == Spec => []OwnerInv
<1>1. Init => WorkersHaveBuffers
  BY DEF Init, WorkersHaveBuffers, Working
<1>2. ASSUME OwnerInv, [Next]_vars, HoldInv' PROVE OwnerInv'
  BY <1>2, NextBuffers, NextFills DEF OwnerInv
<1> QED BY <1>1, <1>2, BufferInit, HoldInit, HoldingInvariant, PTL DEF Spec, OwnerInv

\* A backing array belongs to one chunk, to one place in the pool, or to one
\* of the client's other pulls: a result is never overwritten by another
\* fetch, whatever the order of failures, cancellation and Close.
THEOREM OneOwnerPerBuffer == Spec => []BuffersHaveOneOwner
<1>1. OwnerInv => BuffersHaveOneOwner
  BY DEF OwnerInv, BufferInv
<1> QED BY <1>1, OwnerInvariant, PTL

-----------------------------------------------------------------------------
(* Who has a response body open.                                           *)

\* While the probe's body is open nobody has finished, or fetches anew, the
\* chunk it carries.
ProbeAhead ==
  /\ place[0] \in {"reserved", "queued", "worker"}
  /\ \A w \in Worker : Busy(w) /\ task[w] = 0 => wpc[w] = "probe"

BodiesOwn ==
  /\ open \subseteq Worker \cup {Probe}
  /\ \A w \in Worker : w \in open => wpc[w] = "body"
  /\ Probe \in open => ProbeAhead
  /\ dpc \in {"reserve", "send"} => index # 0

\* The workers do not move, and nobody but the dispatcher gives up the probe.
LEMMA OthersBodies ==
  ASSUME BodiesOwn, UNCHANGED <<wpc, task>>, open' \subseteq open,
         Probe \in open' => place'[0] \in {"reserved", "queued", "worker"},
         UNCHANGED <<dpc, index>> \/ index' # 0 \/ dpc' \in {"join", "done"}
  PROVE  BodiesOwn'
<1>1. Probe \in open' => ProbeAhead'
  BY DEF BodiesOwn, ProbeAhead, Busy
<1> QED BY <1>1 DEF BodiesOwn

\* The dispatcher closes the probe's body when it gives its chunk up.
LEMMA DispatchBodies == ASSUME BodiesOwn, OwnerInv, DispatchStep PROVE BodiesOwn'
<1>0. HoldTypes /\ DispatchOwns /\ Chunk \subseteq Nat /\ UNCHANGED <<wpc, task>>
  BY ChunkFacts DEF OwnerInv, HoldInv, DispatchStep, EnqueueProbe, AbandonProbe, ReserveSlot,
       StopReserving, EnqueueChunk, AbandonChunk, JoinWorkers, work
<1>1. CASE EnqueueProbe
  BY <1>0, <1>1, OthersBodies DEF EnqueueProbe, Move, HoldTypes, body, BodiesOwn, ProbeAhead
<1>2. CASE AbandonProbe
  BY <1>0, <1>2, OthersBodies DEF AbandonProbe, Untrack
<1>3. CASE ReserveSlot
  <2>1. index \in Nat \ {0} /\ UNCHANGED <<open, index>>
    BY <1>0, <1>3 DEF ReserveSlot, DispatchOwns, BodiesOwn, body
  <2>2. place'[0] = place[0]
    BY <1>0, <1>3, <2>1, ChunkFacts DEF ReserveSlot, Move, HoldTypes
  <2> QED BY <1>0, <2>1, <2>2, OthersBodies DEF BodiesOwn, ProbeAhead
<1>4. CASE EnqueueChunk
  <2>0. index \in Chunk /\ index' = index + 1 /\ UNCHANGED open
    BY <1>0, <1>4 DEF EnqueueChunk, DispatchOwns, body
  <2>1. index \in Nat /\ index' # 0 /\ UNCHANGED open
    BY <1>0, <2>0
  <2>2. place'[0] \in {place[0], "queued"}
    BY <1>0, <1>4, ChunkFacts DEF EnqueueChunk, Move, HoldTypes
  <2> QED BY <1>0, <2>1, <2>2, OthersBodies DEF BodiesOwn, ProbeAhead
<1>5. CASE AbandonChunk
  <2>1. index # 0 /\ UNCHANGED open /\ dpc' = "join"
    BY <1>5 DEF AbandonChunk, BodiesOwn, body
  <2>2. place'[0] = place[0]
    BY <1>0, <1>5, <2>1, ChunkFacts DEF AbandonChunk, Release, HoldTypes
  <2> QED BY <1>0, <2>1, <2>2, OthersBodies DEF BodiesOwn, ProbeAhead
<1>6. CASE StopReserving \/ JoinWorkers
  BY <1>0, <1>6, OthersBodies DEF StopReserving, JoinWorkers, hold, body, BodiesOwn, ProbeAhead
<1> QED BY <1>1, <1>2, <1>3, <1>4, <1>5, <1>6 DEF DispatchStep

\* A worker opens the body it reads, and closes it before it goes on.
LEMMA WorkerBodies ==
  ASSUME BodiesOwn, OwnerInv, NEW w \in Worker, WorkerStep(w)
  PROVE  BodiesOwn'
<1>0. /\ HoldTypes /\ UNCHANGED <<dpc, index>> /\ w # Probe
      /\ \A v \in Worker \ {w} : wpc'[v] = wpc[v] /\ task'[v] = task[v]
  BY BodiesAssumption
     DEF OwnerInv, HoldInv, HoldTypes, WorkerStep, TakeTask, WorkerExits, ProbeRead,
         ProbeReadFails, RequestFails, RequestAnswered, ResponseFails, PartRead, BackoffEnds,
         BackoffCanceled, SendResult, DropResult, FetchDone, FetchFails, AttemptFails,
         WorkerIdle, Goto, disp
<1>1. CASE TakeTask(w) \/ WorkerExits(w)
  <2>1. UNCHANGED open /\ wpc[w] = "idle"
    BY <1>1 DEF TakeTask, WorkerExits, body
  <2>2. /\ place'[0] \in {place[0], "worker"}
        /\ wpc'[w] = "exited" \/ (task'[w] = 0 => wpc'[w] = "probe")
    BY <1>0, <1>1, ChunkFacts DEF TakeTask, WorkerExits, Move, Goto, HoldTypes, hold
  <2>3. Probe \in open' => ProbeAhead'
    BY <1>0, <2>1, <2>2 DEF BodiesOwn, ProbeAhead, Busy
  <2> QED BY <1>0, <2>1, <2>3 DEF BodiesOwn
<1>2. CASE ProbeRead(w) \/ ProbeReadFails(w)
  <2>1. open' = open \ {Probe} /\ wpc[w] = "probe"
    BY <1>2 DEF ProbeRead, ProbeReadFails, Untrack
  <2> QED BY <1>0, <2>1 DEF BodiesOwn
<1>3. CASE \/ RequestFails(w) \/ RequestAnswered(w) \/ ResponseFails(w) \/ PartRead(w)
           \/ BackoffEnds(w) \/ BackoffCanceled(w)
  <2>1. UNCHANGED <<place, task>> /\ Busy(w) /\ wpc[w] # "probe"
    BY <1>3 DEF RequestFails, RequestAnswered, ResponseFails, PartRead, BackoffEnds,
         BackoffCanceled, Busy, hold
  <2>2. Probe \in open => task[w] # 0
    BY <2>1 DEF BodiesOwn, ProbeAhead
  <2>3. \/ open' \subseteq open \ {w}
        \/ UNCHANGED open /\ wpc[w] # "body"
        \/ open' = open \cup {w} /\ wpc'[w] = "body"
    BY <1>0, <1>3 DEF RequestFails, RequestAnswered, ResponseFails, PartRead, BackoffEnds,
         BackoffCanceled, Untrack, Goto, HoldTypes, body
  <2>4. Probe \in open' => Probe \in open
    BY <1>0, <2>3
  <2>5. Probe \in open' => ProbeAhead'
    BY <1>0, <2>1, <2>2, <2>4 DEF BodiesOwn, ProbeAhead, Busy
  <2>6. \A v \in Worker : v \in open' => wpc'[v] = "body"
    BY <1>0, <2>3 DEF BodiesOwn
  <2>7. open' \subseteq Worker \cup {Probe}
    BY <2>3 DEF BodiesOwn
  <2> QED BY <1>0, <2>5, <2>6, <2>7 DEF BodiesOwn
<1>4. CASE SendResult(w) \/ DropResult(w)
  <2>1. /\ UNCHANGED open /\ wpc[w] = "send" /\ wpc'[w] = "idle"
        /\ task[w] \in Chunk /\ Busy(w)
    BY <1>0, <1>4 DEF SendResult, DropResult, WorkerIdle, Goto, OwnerInv, HoldInv, HoldTypes,
         WorkersOwn, Busy, body
  <2>2. Probe \in open => task[w] # 0
    BY <2>1 DEF BodiesOwn, ProbeAhead
  <2>3. Probe \in open => place'[0] = place[0]
    BY <1>0, <1>4, <2>1, <2>2, ChunkFacts DEF SendResult, DropResult, Release, Move, HoldTypes
  <2>4. Probe \in open' => ProbeAhead'
    BY <1>0, <2>1, <2>3 DEF BodiesOwn, ProbeAhead, Busy
  <2> QED BY <1>0, <2>1, <2>4 DEF BodiesOwn
<1> QED BY <1>1, <1>2, <1>3, <1>4 DEF WorkerStep

\* Read, Close and the drainer open no body, and have no chunk whose fetch
\* is not over.
LEMMA ReaderBodies ==
  ASSUME BodiesOwn, OwnerInv, ReadStep \/ CloseStep \/ Drain
  PROVE  BodiesOwn'
<1>0. HoldTypes /\ ReaderOwns /\ ResultsOwn
  BY DEF OwnerInv, HoldInv
<1>1. UNCHANGED <<wpc, task, dpc, index>> /\ open' \subseteq open
  BY DEF ReadStep, ReadSticky, ReadCanceled, ReadBytes, ReadExhausted, TakePending, Receive,
       ReceiveClosed, SelectCanceled, CheckContext, Order, RejectResult, AdoptResult,
       TerminalError, CloseStep, CloseLocks, CloseCancels, CloseBodies, CloseReleases, Drain,
       work, disp, body
<1>2. \A c \in Chunk : place[c] \in {"reserved", "queued", "worker"} => place'[c] = place[c]
  <2>1. CASE ReadStep
    <3>1. ASSUME NEW c \in Chunk, NEW p, place[c] \in {"held", "results", "pending", "current"},
                 place' = [place EXCEPT ![c] = p]
          PROVE  \A d \in Chunk : place[d] \in {"reserved", "queued", "worker"} => place'[d] = place[d]
      BY <3>1, <1>0 DEF HoldTypes
    <3>2. \/ UNCHANGED place
          \/ \E c \in Chunk, p \in {"held", "pending", "current", "released"} :
               /\ place[c] \in {"held", "results", "pending", "current"}
               /\ place' = [place EXCEPT ![c] = p]
      <4>1. CASE Receive
        <5>1. Head(results) \in Chunk /\ place[Head(results)] = "results"
          BY <1>0, <4>1 DEF Receive, HoldTypes, ResultsOwn
        <5> QED BY <4>1, <5>1 DEF Receive, Move
      <4>2. CASE TakePending
        BY <4>2 DEF TakePending, PendingReady, In, Move
      <4>3. CASE ReadExhausted
        BY <1>0, <4>3 DEF ReadExhausted, ReleaseCurrent, Release, ReaderOwns, HoldTypes, hold
      <4>4. CASE CheckContext \/ Order \/ RejectResult \/ AdoptResult
        <5>1. got # NoChunk => got \in Chunk /\ place[got] = "held"
          BY <1>0 DEF HoldTypes, ReaderOwns
        <5>2. UNCHANGED place \/ (got # NoChunk
                /\ \E p \in {"pending", "current", "released"} : place' = [place EXCEPT ![got] = p])
          BY <1>0, <4>4 DEF CheckContext, Order, RejectResult, AdoptResult, Release, Move,
               ReaderOwns, hold
        <5> QED BY <5>1, <5>2
      <4> QED BY <2>1, <4>1, <4>2, <4>3, <4>4 DEF ReadStep, ReadSticky, ReadCanceled, ReadBytes,
             ReceiveClosed, SelectCanceled, TerminalError, hold
    <3> QED BY <3>1, <3>2
  <2>2. CASE CloseLocks
    BY <1>0, <2>2 DEF CloseLocks, HoldTypes, ReaderOwns
  <2>3. CASE CloseReleases
    BY <1>0, <2>3 DEF CloseReleases, In, Release, HoldTypes, hold
  <2>4. CASE Drain
    <3>1. Head(results) \in Chunk /\ place[Head(results)] = "results"
      BY <1>0, <2>4 DEF Drain, HoldTypes, ResultsOwn
    <3> QED BY <1>0, <2>4, <3>1 DEF Drain, Release, HoldTypes
  <2> QED BY <2>1, <2>2, <2>3, <2>4 DEF CloseStep, CloseCancels, CloseBodies, hold
<1> QED BY <1>1, <1>2, ChunkFacts, OthersBodies DEF BodiesOwn, ProbeAhead

\* Every body is open for a chunk nobody has finished yet.
LEMMA BodiesInvariant == Spec => []BodiesOwn
<1>1. Init => BodiesOwn
  BY ChunkFacts, BodiesAssumption DEF Init, BodiesOwn, ProbeAhead, Busy
<1>2. ASSUME BodiesOwn, OwnerInv, [Next]_vars PROVE BodiesOwn'
  <2>1. CASE DispatchStep
    BY <1>2, <2>1, DispatchBodies
  <2>2. CASE \E w \in Worker : WorkerStep(w)
    BY <1>2, <2>2, WorkerBodies
  <2>3. CASE ReadStep \/ CloseStep \/ Drain
    BY <1>2, <2>3, ReaderBodies
  <2>4. CASE CallerCancels \/ OtherTakes \/ OtherPuts \/ UNCHANGED vars
    BY <1>2, <2>4, OthersBodies DEF CallerCancels, OtherTakes, OtherPuts, vars, work, disp, body,
         hold, BodiesOwn, ProbeAhead
  <2> QED BY <1>2, <2>1, <2>2, <2>3, <2>4 DEF Next
<1> QED BY <1>1, <1>2, OwnerInvariant, PTL DEF Spec

\* A slot bounds what its chunk costs: at any time it stands for one open
\* body, or for one buffer a worker completed, never for both.
LEMMA SlotPerBodyOrBuffer ==
  ASSUME BodiesOwn, OwnerInv
  PROVE  BodiesAndBuffersBounded
<1> DEFINE ChunkOf == [h \in open |-> IF h = Probe THEN 0 ELSE task[h]]
<1>1. ASSUME NEW h \in open
      PROVE  /\ ChunkOf[h] \in Chunk /\ place[ChunkOf[h]] \in {"reserved", "queued", "worker"}
             /\ h # Probe => h \in Worker /\ Busy(h) /\ ChunkOf[h] = task[h] /\ wpc[h] = "body"
  BY <1>1, ChunkFacts DEF BodiesOwn, ProbeAhead, OwnerInv, HoldInv, WorkersOwn, Busy
<1>2. \A g, h \in open : ChunkOf[g] = ChunkOf[h] => g = h
  <2>1. \A h \in open : h # Probe /\ Probe \in open => ChunkOf[h] # 0
    BY <1>1 DEF BodiesOwn, ProbeAhead
  <2>2. \A g, h \in open : g # Probe /\ h # Probe /\ ChunkOf[g] = ChunkOf[h] => g = h
    BY <1>1 DEF OwnerInv, HoldInv, WorkersOwn
  <2>3. Probe \in open => ChunkOf[Probe] = 0
    OBVIOUS
  <2> QED BY <2>1, <2>2, <2>3
<1>3. Buffered \subseteq Holding
  BY DEF Buffered, Holding, HoldingIn, OwnerInv, BufferInv, DataHeld, Filled
<1>4. ChunkOf \in Injection(open, Holding \ Buffered)
  <2>1. \A h \in open : ChunkOf[h] \in Holding \ Buffered
    BY <1>1 DEF Buffered, Holding, HoldingIn, OwnerInv, BufferInv, DataHeld, Filled
  <2>2. ChunkOf \in [open -> Holding \ Buffered]
    BY <2>1
  <2> HIDE DEF ChunkOf
  <2> QED BY <1>2, <2>2 DEF Injection, IsInjective
<1>5. /\ IsFiniteSet(Holding) /\ IsFiniteSet(Buffered) /\ IsFiniteSet(Holding \ Buffered)
      /\ Cardinality(Holding \ Buffered) = Cardinality(Holding) - Cardinality(Buffered)
  <2>1. IsFiniteSet(Holding)
    BY HoldingFinite DEF Holding
  <2>2. IsFiniteSet(Buffered)
    BY <1>3, <2>1, FS_Subset
  <2>3. Holding \cap Buffered = Buffered
    BY <1>3
  <2> QED BY <2>1, <2>2, <2>3, FS_Difference
<1>6. IsFiniteSet(open) /\ Cardinality(open) <= Cardinality(Holding \ Buffered)
  BY <1>4, <1>5, FS_Injection
<1>7. /\ Cardinality(open) \in Nat /\ Cardinality(Buffered) \in Nat
      /\ Cardinality(Holding) \in Nat /\ Cardinality(Holding) <= WorkerCount
  BY <1>5, <1>6, FS_CardinalityType DEF OwnerInv, HoldInv, SlotAccounting
<1> QED BY <1>5, <1>6, <1>7, WorkerCountPositive DEF BodiesAndBuffersBounded

\* Response bodies and completed buffers together never exceed the number
\* of workers, as the comment on dispatch says (parallel.go:334).
THEOREM BodiesAndBuffersFit == Spec => []BodiesAndBuffersBounded
<1>1. BodiesOwn /\ OwnerInv => BodiesAndBuffersBounded
  BY SlotPerBodyOrBuffer
<1> QED BY <1>1, BodiesInvariant, OwnerInvariant, PTL
=============================================================================
