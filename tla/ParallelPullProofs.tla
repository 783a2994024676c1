------------------------- MODULE ParallelPullProofs -------------------------
(***************************************************************************)
(* Proofs about ParallelPull for every blob size, chunk size, worker count *)
(* and retry budget.                                                       *)
(***************************************************************************)
EXTENDS ParallelPull, FiniteSetTheorems, TLAPS

-----------------------------------------------------------------------------
(* Chunks are finitely many; the token count follows who holds them.       *)

LEMMA DivNat == ASSUME NEW a \in Nat, NEW b \in Nat \ {0} PROVE a \div b \in Nat
  OBVIOUS

\* A blob has at least one chunk, the probe.
LEMMA ChunkCount == NChunks \in Nat \ {0}
<1>1. Total - ProbeLen + PullChunk - 1 \in Nat /\ PullChunk \in Nat \ {0}
  BY SizesAssumption
<1>2. (Total - ProbeLen + PullChunk - 1) \div PullChunk \in Nat
  BY <1>1, DivNat
<1> QED BY <1>2 DEF NChunks

\* Chunks are numbered from 0, and the sentinel is none of them.
LEMMA ChunkFacts == 0 \in Chunk /\ NoChunk \notin Chunk /\ Chunk \subseteq Nat
  BY ChunkCount DEF Chunk, NoChunk

\* At least one worker runs.
LEMMA WorkerCountPositive == WorkerCount \in Nat \ {0}
  BY ChunkCount, WorkersAssumption DEF WorkerCount, Smaller

\* The chunks that hold a token can be counted.
LEMMA HoldingFinite ==
  ASSUME NEW f
  PROVE  IsFiniteSet(HoldingIn(f)) /\ Cardinality(HoldingIn(f)) \in Nat
<1>1. IsFiniteSet(Chunk)
  BY FS_Interval, ChunkCount DEF Chunk
<1>2. HoldingIn(f) \subseteq Chunk
  BY DEF HoldingIn
<1> QED BY <1>1, <1>2, FS_Subset, FS_CardinalityType

Taken(p) == p \notin {"unscheduled", "released"}

\* A chunk that passes from one holder to the next keeps its token.
LEMMA MoveKeepsHolding ==
  ASSUME NEW f \in [Chunk -> Places], NEW c \in Chunk, NEW p \in Places,
         Taken(f[c]), Taken(p)
  PROVE  HoldingIn([f EXCEPT ![c] = p]) = HoldingIn(f)
  BY DEF HoldingIn, Taken

\* Reserving a chunk nobody holds takes one token.
LEMMA ReserveAddsHolding ==
  ASSUME NEW f \in [Chunk -> Places], NEW c \in Chunk, ~Taken(f[c])
  PROVE  Cardinality(HoldingIn([f EXCEPT ![c] = "reserved"]))
           = Cardinality(HoldingIn(f)) + 1
<1>1. HoldingIn([f EXCEPT ![c] = "reserved"]) = HoldingIn(f) \cup {c}
  BY DEF HoldingIn, Taken
<1>2. c \notin HoldingIn(f)
  BY DEF HoldingIn, Taken
<1> QED BY <1>1, <1>2, HoldingFinite, FS_AddElement

\* Releasing a chunk somebody holds gives one token back.
LEMMA ReleaseRemovesHolding ==
  ASSUME NEW f \in [Chunk -> Places], NEW c \in Chunk, Taken(f[c])
  PROVE  Cardinality(HoldingIn([f EXCEPT ![c] = "released"]))
           = Cardinality(HoldingIn(f)) - 1
<1>1. HoldingIn([f EXCEPT ![c] = "released"]) = HoldingIn(f) \ {c}
  BY DEF HoldingIn, Taken
<1>2. c \in HoldingIn(f)
  BY DEF HoldingIn, Taken
<1> QED BY <1>1, <1>2, HoldingFinite, FS_RemoveElement

-----------------------------------------------------------------------------
(* The inductive invariant: each goroutine's view of the chunk it works on *)
(* agrees with place, so that a release always gives back a taken slot.    *)

HoldTypes ==
  /\ place \in [Chunk -> Places] /\ slots \in Nat
  /\ dpc \in {"probe", "reserve", "send", "join", "done"} /\ index \in 0 .. NChunks
  /\ wpc \in [Worker -> WorkerPCs] /\ task \in [Worker -> Chunk \cup {NoChunk}]
  /\ results \in Seq(Chunk)
  /\ rpc \in ReaderPCs /\ got \in Chunk \cup {NoChunk}
  /\ cur \in Chunk \cup {NoChunk}

\* The dispatcher: later chunks are untouched.
DispatchOwns ==
  /\ dpc \in {"probe", "reserve", "send"} =>
       index \in Chunk /\ \A c \in Chunk : c > index => place[c] = "unscheduled"
  /\ dpc = "probe" => index = 0
  /\ dpc \in {"probe", "send"} => place[index] = "reserved"
  /\ dpc = "reserve" => place[index] = "unscheduled"

Busy(w) == wpc[w] \notin {"idle", "exited"}

\* Workers: one chunk each, no chunk twice.
WorkersOwn ==
  /\ \A w \in Worker : Busy(w) => task[w] \in Chunk /\ place[task[w]] = "worker"
  /\ \A v, w \in Worker : Busy(v) /\ Busy(w) /\ task[v] = task[w] => v = w

\* p.results: no chunk twice.
ResultsOwn ==
  /\ \A i \in 1 .. Len(results) : place[results[i]] = "results"
  /\ \A i, j \in 1 .. Len(results) : results[i] = results[j] => i = j

\* Read: the result in hand and the current chunk.
ReaderOwns ==
  /\ got # NoChunk => place[got] = "held"
  /\ rpc \in {"taken", "received", "order"} => got # NoChunk
  /\ cur # NoChunk => place[cur] = "current"

HoldInv ==
  HoldTypes /\ DispatchOwns /\ WorkersOwn /\ ResultsOwn /\ ReaderOwns /\ SlotAccounting

\* The parts of HoldInv about who holds what.
Owns == DispatchOwns /\ WorkersOwn /\ ResultsOwn /\ ReaderOwns

-----------------------------------------------------------------------------
(* What the three kinds of step do to the token count.                     *)

LEMMA SameTokens ==
  ASSUME SlotAccounting, UNCHANGED hold
  PROVE  SlotAccounting'
  BY DEF SlotAccounting, Holding, HoldingIn, hold

\* A chunk changes hands: no token is taken or given back.
LEMMA MovedToken ==
  ASSUME HoldTypes, SlotAccounting, NEW c \in Chunk, NEW p \in Places,
         Taken(place[c]), Taken(p), Move(c, p), UNCHANGED slots
  PROVE  SlotAccounting' /\ place' \in [Chunk -> Places]
  BY MoveKeepsHolding DEF SlotAccounting, Holding, Move, HoldTypes

\* Release receives one token from p.slots, which is not empty.
LEMMA ReleasedToken ==
  ASSUME HoldTypes, SlotAccounting, NEW c \in Chunk, Taken(place[c]), Release(c)
  PROVE  /\ SlotAccounting' /\ slots' \in Nat
         /\ place' = [place EXCEPT ![c] = "released"]
         /\ place' \in [Chunk -> Places]
<1>1. Cardinality(HoldingIn(place')) = Cardinality(HoldingIn(place)) - 1
  BY ReleaseRemovesHolding DEF Release, HoldTypes
<1>2. Cardinality(HoldingIn(place')) \in Nat
  BY HoldingFinite
<1>3. place' = [place EXCEPT ![c] = "released"] /\ slots' = slots - 1
  BY DEF Release
<1> QED BY <1>1, <1>2, <1>3, WorkerCountPositive DEF SlotAccounting, Holding, HoldTypes, Places

-----------------------------------------------------------------------------
\* A new puller holds the probe chunk and one token.
LEMMA HoldInit == Init => HoldInv
<1> SUFFICES ASSUME Init PROVE HoldInv
  OBVIOUS
<1>1. HoldTypes
  BY ChunkFacts, ChunkCount DEF Init, HoldTypes, Places, WorkerPCs, ReaderPCs
<1>2. Owns
  BY ChunkFacts DEF Init, Owns, DispatchOwns, WorkersOwn, ResultsOwn, ReaderOwns, Busy
<1>3. SlotAccounting
  <2>1. HoldingIn(place) = {0}
    BY ChunkFacts DEF Init, HoldingIn
  <2>2. Cardinality({0}) = 1
    BY FS_Singleton
  <2>3. slots = 1 /\ 1 <= WorkerCount
    BY WorkerCountPositive DEF Init
  <2> QED BY <2>1, <2>2, <2>3 DEF SlotAccounting, Holding
<1> QED BY <1>1, <1>2, <1>3 DEF HoldInv, Owns

\* The dispatcher reserves chunks in order, each once.
LEMMA DispatchHold == ASSUME HoldInv, DispatchStep PROVE HoldInv'
<1> USE ChunkFacts, ChunkCount DEF HoldInv
<1>1. CASE EnqueueProbe
  <2>0. index = 0 /\ place[0] = "reserved" /\ \A c \in Chunk : c > 0 => place[c] = "unscheduled"
    BY <1>1 DEF EnqueueProbe, DispatchOwns
  <2>1. /\ dpc' \in {"reserve", "join"} /\ index' = 1 /\ index' \in 0 .. NChunks
        /\ dpc' = "reserve" => 1 \in Chunk
    BY <1>1, <2>0 DEF EnqueueProbe, AfterSend, Chunk
  <2>2. Move(0, "queued") /\ UNCHANGED <<slots, work, results, call, strm>>
    BY <1>1 DEF EnqueueProbe
  <2>3. SlotAccounting' /\ HoldTypes'
    <3>1. SlotAccounting' /\ place' \in [Chunk -> Places]
      BY <2>0, <2>2, MovedToken DEF Taken, Places
    <3> QED BY <2>1, <2>2, <3>1 DEF HoldTypes, work, call, strm
  <2>4. DispatchOwns'
    BY <2>0, <2>1, <2>2 DEF DispatchOwns, Move, HoldTypes, Chunk
  <2>5. WorkersOwn' /\ ResultsOwn' /\ ReaderOwns'
    BY <2>0, <2>2 DEF HoldTypes, WorkersOwn, ResultsOwn, ReaderOwns, Busy, work, call, strm, Move
  <2> QED BY <2>3, <2>4, <2>5
<1>2. CASE AbandonProbe
  <2>0. place[0] = "reserved" /\ Taken(place[0])
    BY <1>2 DEF AbandonProbe, DispatchOwns, Taken
  <2>1. SlotAccounting' /\ HoldTypes'
    BY <1>2, <2>0, ReleasedToken DEF AbandonProbe, HoldTypes, work, call, strm
  <2>2. Owns'
    BY <1>2, <2>0 DEF AbandonProbe, Release, HoldTypes, Owns, DispatchOwns, WorkersOwn, ResultsOwn,
         ReaderOwns, Busy, work, call, strm
  <2> QED BY <2>1, <2>2 DEF Owns
<1>3. CASE ReserveSlot
  <2>0. index \in Chunk /\ place[index] = "unscheduled" /\ ~Taken(place[index])
    BY <1>3 DEF ReserveSlot, DispatchOwns, Taken
  <2>1. Cardinality(HoldingIn(place')) = Cardinality(HoldingIn(place)) + 1
    BY <1>3, <2>0, ReserveAddsHolding DEF ReserveSlot, Move, HoldTypes
  <2>2. SlotAccounting'
    BY <1>3, <2>1, WorkerCountPositive DEF ReserveSlot, SlotFree, SlotAccounting, Holding, HoldTypes
  <2>3. HoldTypes'
    BY <1>3, <2>0 DEF ReserveSlot, Move, HoldTypes, Places, work, call, strm
  <2>4. Owns'
    BY <1>3, <2>0 DEF ReserveSlot, Move, HoldTypes, Owns, DispatchOwns, WorkersOwn, ResultsOwn,
         ReaderOwns, Busy, work, call, strm
  <2> QED BY <2>2, <2>3, <2>4 DEF Owns
<1>4. CASE StopReserving
  <2>1. SlotAccounting' /\ HoldTypes'
    BY <1>4, SameTokens DEF StopReserving, HoldTypes, hold, work, call, strm
  <2>2. Owns'
    BY <1>4 DEF StopReserving, Owns, DispatchOwns, WorkersOwn, ResultsOwn, ReaderOwns, Busy,
         hold, work, call, strm
  <2> QED BY <2>1, <2>2 DEF Owns
<1>5. CASE EnqueueChunk
  <2>0. index \in Chunk /\ place[index] = "reserved"
    BY <1>5 DEF EnqueueChunk, DispatchOwns
  <2>1. /\ dpc' \in {"reserve", "join"} /\ index' = index + 1 /\ index' \in 0 .. NChunks
        /\ dpc' = "reserve" => index + 1 \in Chunk
    BY <1>5, <2>0 DEF EnqueueChunk, AfterSend, Chunk
  <2>2. Move(index, "queued") /\ UNCHANGED <<slots, work, results, call, strm>>
    BY <1>5 DEF EnqueueChunk
  <2>3. SlotAccounting' /\ HoldTypes'
    <3>1. SlotAccounting' /\ place' \in [Chunk -> Places]
      BY <2>0, <2>2, MovedToken DEF Taken, Places
    <3> QED BY <2>1, <2>2, <3>1 DEF HoldTypes, work, call, strm
  <2>4. DispatchOwns'
    BY <1>5, <2>0, <2>1, <2>2 DEF EnqueueChunk, DispatchOwns, Move, HoldTypes, Chunk
  <2>5. WorkersOwn' /\ ResultsOwn' /\ ReaderOwns'
    BY <2>0, <2>2 DEF HoldTypes, WorkersOwn, ResultsOwn, ReaderOwns, Busy, work, call, strm, Move
  <2> QED BY <2>3, <2>4, <2>5
<1>6. CASE AbandonChunk
  <2>0. index \in Chunk /\ place[index] = "reserved" /\ Taken(place[index])
    BY <1>6 DEF AbandonChunk, DispatchOwns, Taken
  <2>1. SlotAccounting' /\ HoldTypes'
    BY <1>6, <2>0, ReleasedToken DEF AbandonChunk, HoldTypes, work, call, strm
  <2>2. Owns'
    BY <1>6, <2>0 DEF AbandonChunk, Release, HoldTypes, Owns, DispatchOwns, WorkersOwn, ResultsOwn,
         ReaderOwns, Busy, work, call, strm
  <2> QED BY <2>1, <2>2 DEF Owns
<1>7. CASE JoinWorkers
  <2>1. SlotAccounting' /\ HoldTypes'
    BY <1>7, SameTokens DEF JoinWorkers, HoldTypes, hold, work, call, strm
  <2>2. Owns'
    BY <1>7 DEF JoinWorkers, Owns, DispatchOwns, WorkersOwn, ResultsOwn, ReaderOwns, Busy,
         hold, work, call, strm
  <2> QED BY <2>1, <2>2 DEF Owns
<1> QED BY <1>1, <1>2, <1>3, <1>4, <1>5, <1>6, <1>7 DEF DispatchStep

\* A worker that moves between two busy states keeps its chunk.
LEMMA WorkerStaysBusy ==
  ASSUME HoldInv, NEW w \in Worker, NEW p \in WorkerPCs, Busy(w), p \notin {"idle", "exited"},
         Goto(w, p), UNCHANGED <<hold, disp, task, results, call, strm>>
  PROVE  HoldInv'
<1>1. SlotAccounting' /\ HoldTypes'
  BY SameTokens DEF HoldInv, HoldTypes, hold, disp, call, strm, Goto
<1>2. Owns'
  BY DEF HoldInv, HoldTypes, Owns, DispatchOwns, WorkersOwn, ResultsOwn, ReaderOwns, Busy,
       hold, disp, call, strm, Goto
<1> QED BY <1>1, <1>2 DEF HoldInv, Owns

\* A worker takes, fetches and hands over its own chunk.
LEMMA WorkerHold == ASSUME HoldInv, NEW w \in Worker, WorkerStep(w) PROVE HoldInv'
<1> USE ChunkFacts
<1>1. CASE TakeTask(w)
  <2>1. PICK c \in In("queued") :
          /\ Move(c, "worker")
          /\ task' = [task EXCEPT ![w] = c]
          /\ Goto(w, IF c = 0 THEN "probe" ELSE "request")
    BY <1>1 DEF TakeTask
  <2>2. c \in Chunk /\ place[c] = "queued" /\ wpc[w] = "idle"
    BY <1>1, <2>1 DEF TakeTask, In
  <2>3. UNCHANGED <<slots, disp, results, call, strm>>
    BY <1>1 DEF TakeTask
  <2>4. SlotAccounting' /\ HoldTypes'
    BY <2>1, <2>2, <2>3, MovedToken
       DEF HoldInv, HoldTypes, Taken, Places, WorkerPCs, Goto, disp, call, strm
  <2>5. Owns'
    BY <2>1, <2>2, <2>3
       DEF HoldInv, HoldTypes, Owns, DispatchOwns, WorkersOwn, ResultsOwn, ReaderOwns, Busy,
           Move, Goto, disp, call, strm, WorkerPCs
  <2> QED BY <2>4, <2>5 DEF HoldInv, Owns
<1>2. CASE WorkerExits(w)
  <2>1. SlotAccounting' /\ HoldTypes'
    BY <1>2, SameTokens DEF WorkerExits, HoldInv, HoldTypes, WorkerPCs, hold, disp, call, strm, Goto
  <2>2. Owns'
    BY <1>2 DEF WorkerExits, HoldInv, HoldTypes, Owns, DispatchOwns, WorkersOwn, ResultsOwn,
         ReaderOwns, Busy, hold, disp, call, strm, Goto
  <2> QED BY <2>1, <2>2 DEF HoldInv, Owns
<1>3. CASE \/ ProbeRead(w) \/ ProbeReadFails(w) \/ RequestFails(w) \/ RequestAnswered(w)
           \/ ResponseFails(w) \/ PartRead(w) \/ BackoffEnds(w) \/ BackoffCanceled(w)
  <2>1. UNCHANGED <<hold, disp, task, results, call, strm>>
    BY <1>3 DEF ProbeRead, ProbeReadFails, RequestFails, RequestAnswered, ResponseFails, PartRead,
         BackoffEnds, BackoffCanceled
  <2>2. Busy(w)
    BY <1>3 DEF ProbeRead, ProbeReadFails, RequestFails, RequestAnswered, ResponseFails, PartRead,
         BackoffEnds, BackoffCanceled, Busy
  <2>3. \E p \in {"request", "body", "sleep", "send"} : Goto(w, p)
    BY <1>3 DEF ProbeRead, ProbeReadFails, RequestFails, RequestAnswered, ResponseFails, PartRead,
         BackoffEnds, BackoffCanceled, FetchDone, FetchFails, AttemptFails
  <2> QED BY <2>1, <2>2, <2>3, WorkerStaysBusy DEF WorkerPCs
<1>4. CASE SendResult(w)
  <2>1. task[w] \in Chunk /\ place[task[w]] = "worker" /\ Busy(w)
    BY <1>4 DEF SendResult, HoldInv, WorkersOwn, Busy
  <2>2. SlotAccounting' /\ HoldTypes'
    <3>1. results' \in Seq(Chunk)
      BY <1>4, <2>1 DEF SendResult, HoldInv, HoldTypes
    <3>2. SlotAccounting' /\ place' \in [Chunk -> Places]
      BY <1>4, <2>1, MovedToken DEF SendResult, HoldInv, Taken, Places
    <3> QED BY <1>4, <3>1, <3>2
         DEF SendResult, HoldInv, HoldTypes, WorkerPCs, WorkerIdle, Goto, disp, call, strm
  <2>3. DispatchOwns' /\ WorkersOwn' /\ ReaderOwns'
    BY <1>4, <2>1
       DEF SendResult, WorkerIdle, HoldInv, HoldTypes, DispatchOwns, WorkersOwn, ReaderOwns, Busy,
           Move, Goto, disp, call, strm, WorkerPCs
  <2>4. ResultsOwn'
    BY <1>4, <2>1 DEF SendResult, HoldInv, HoldTypes, ResultsOwn, Move
  <2> QED BY <2>2, <2>3, <2>4 DEF HoldInv
<1>5. CASE DropResult(w)
  <2>1. task[w] \in Chunk /\ place[task[w]] = "worker" /\ Busy(w) /\ Taken(place[task[w]])
    BY <1>5 DEF DropResult, HoldInv, WorkersOwn, Busy, Taken
  <2>2. place' = [place EXCEPT ![task[w]] = "released"]
    BY <1>5 DEF DropResult, Release
  <2>3. SlotAccounting' /\ HoldTypes'
    BY <1>5, <2>1, ReleasedToken
       DEF DropResult, HoldInv, HoldTypes, WorkerPCs, WorkerIdle, Goto, disp, call, strm
  <2>4. Owns'
    BY <1>5, <2>1, <2>2
       DEF DropResult, WorkerIdle, HoldInv, HoldTypes, Owns, DispatchOwns, WorkersOwn, ResultsOwn,
           ReaderOwns, Busy, Goto, disp, call, strm, WorkerPCs
  <2> QED BY <2>3, <2>4 DEF HoldInv, Owns
<1> QED BY <1>1, <1>2, <1>3, <1>4, <1>5 DEF WorkerStep

-----------------------------------------------------------------------------
\* A step of Read that only moves its control, with no result in hand.
LEMMA ReaderMoves ==
  ASSUME HoldInv, UNCHANGED <<hold, disp, work, results, cur>>,
         rpc' \in ReaderPCs, got' \in {got, NoChunk},
         rpc' \in {"taken", "received", "order"} => got' # NoChunk
  PROVE  HoldInv'
<1>1. SlotAccounting' /\ HoldTypes'
  BY SameTokens DEF HoldInv, HoldTypes, hold, disp, work
<1>2. Owns'
  BY DEF HoldInv, HoldTypes, Owns, DispatchOwns, WorkersOwn, ResultsOwn, ReaderOwns, Busy,
       hold, disp, work
<1> QED BY <1>1, <1>2 DEF HoldInv, Owns

\* Read gives back the chunk c it holds, and keeps none.
LEMMA ReaderReleases ==
  ASSUME HoldInv, NEW c \in Chunk, place[c] \in {"held", "current"}, Release(c),
         UNCHANGED <<disp, work, results>>,
         rpc' \in ReaderPCs, rpc' \notin {"taken", "received", "order"},
         got' \in {got, NoChunk}, got' # c, cur' \in {cur, NoChunk}, cur' # c
  PROVE  HoldInv'
<1>1. place' = [place EXCEPT ![c] = "released"] /\ Taken(place[c])
  BY DEF Release, Taken
<1>2. SlotAccounting' /\ HoldTypes'
  BY <1>1, ReleasedToken DEF HoldInv, HoldTypes, disp, work
<1>3. Owns'
  BY <1>1 DEF HoldInv, HoldTypes, Owns, DispatchOwns, WorkersOwn, ResultsOwn, ReaderOwns, Busy,
       disp, work
<1> QED BY <1>2, <1>3 DEF HoldInv, Owns

\* Read takes, stores or adopts chunk c.
LEMMA ReaderMovesChunk ==
  ASSUME HoldInv, NEW c \in Chunk, NEW p \in Places, Move(c, p), p \in {"held", "pending", "current"},
         place[c] \in {"held", "pending"}, UNCHANGED <<slots, disp, work, results>>,
         rpc' \in ReaderPCs, rpc' \in {"taken", "received", "order"} => got' # NoChunk,
         got' = IF p = "held" THEN c ELSE NoChunk,
         cur' = IF p = "current" THEN c ELSE cur
  PROVE  HoldInv'
<1>1. SlotAccounting' /\ HoldTypes'
  BY MovedToken DEF HoldInv, HoldTypes, Taken, disp, work
<1>2. Owns'
  BY ChunkFacts DEF HoldInv, HoldTypes, Owns, DispatchOwns, WorkersOwn, ResultsOwn, ReaderOwns, Busy,
       Move, disp, work
<1> QED BY <1>1, <1>2 DEF HoldInv, Owns

\* Taking the head of p.results leaves the others in p.results.
LEMMA DroppedHead ==
  ASSUME HoldTypes, ResultsOwn, results # <<>>, results' = Tail(results), NEW p,
         place' = [place EXCEPT ![results[1]] = p]
  PROVE  ResultsOwn'
<1>1. \A i \in 1 .. Len(results') :
        i + 1 \in 1 .. Len(results) /\ results'[i] = results[i + 1] /\ results[i + 1] \in Chunk
  BY DEF HoldTypes
<1>2. \A i \in 1 .. Len(results') : results[i + 1] # results[1]
  <2> SUFFICES ASSUME NEW i \in 1 .. Len(results') PROVE results[i + 1] # results[1]
    OBVIOUS
  <2>1. i + 1 \in 1 .. Len(results) /\ 1 \in 1 .. Len(results) /\ i + 1 # 1
    BY <1>1 DEF HoldTypes
  <2> QED BY <2>1 DEF ResultsOwn
<1>3. \A i \in 1 .. Len(results') : place'[results'[i]] = "results"
  BY <1>1, <1>2 DEF HoldTypes, ResultsOwn
<1>4. \A i, j \in 1 .. Len(results') : results'[i] = results'[j] => i = j
  <2> SUFFICES ASSUME NEW i \in 1 .. Len(results'), NEW j \in 1 .. Len(results'),
                      results'[i] = results'[j]
               PROVE  i = j
    OBVIOUS
  <2>1. /\ results[i + 1] = results[j + 1]
        /\ i + 1 \in 1 .. Len(results) /\ j + 1 \in 1 .. Len(results)
    BY <1>1
  <2>2. i + 1 = j + 1
    BY <2>1 DEF ResultsOwn
  <2> QED BY <2>2
<1> QED BY <1>3, <1>4 DEF ResultsOwn

\* Read receives, stores, adopts and releases results it holds.
LEMMA ReadHold == ASSUME HoldInv, ReadStep PROVE HoldInv'
<1> USE ChunkFacts
<1>1. CASE \/ ReadSticky \/ ReadCanceled \/ ReadBytes \/ ReceiveClosed \/ SelectCanceled
           \/ TerminalError
  BY <1>1, ReaderMoves
     DEF ReadSticky, ReadCanceled, ReadBytes, ReceiveClosed, SelectCanceled, TerminalError,
         Returns, GivesUp, Answer, ReaderPCs, strm, HoldInv, HoldTypes
<1>2. CASE ReadExhausted
  <2>1. CASE cur = NoChunk
    BY <1>2, <2>1, ReaderMoves DEF ReadExhausted, ReleaseCurrent, Answer, ReaderPCs, bufs, hold
  <2>2. CASE cur # NoChunk
    BY <1>2, <2>2, ReaderReleases
       DEF ReadExhausted, ReleaseCurrent, Answer, ReaderPCs, HoldInv, HoldTypes, ReaderOwns
  <2> QED BY <2>1, <2>2
<1>3. CASE TakePending
  <2>1. CASE PendingReady
    <3>1. next \in Chunk /\ place[next] = "pending"
      BY <2>1 DEF PendingReady, In
    <3> QED BY <1>3, <2>1, <3>1, ReaderMovesChunk
         DEF TakePending, Answer, ReaderPCs, Places, strm
  <2>2. CASE ~PendingReady
    BY <1>3, <2>2, ReaderMoves DEF TakePending, Answer, ReaderPCs, strm, hold
  <2> QED BY <2>1, <2>2
<1>4. CASE Receive
  <2>1. /\ results \in Seq(Chunk) /\ results # <<>>
        /\ Head(results) \in Chunk /\ Tail(results) \in Seq(Chunk)
        /\ Len(Tail(results)) = Len(results) - 1 /\ Len(results) \in Nat \ {0}
        /\ Head(results) = results[1]
        /\ \A i \in 1 .. Len(Tail(results)) : Tail(results)[i] = results[i + 1]
    BY <1>4 DEF Receive, HoldInv, HoldTypes
  <2>2. place[Head(results)] = "results"
    BY <2>1 DEF HoldInv, ResultsOwn
  <2>3. SlotAccounting' /\ HoldTypes'
    <3>1. SlotAccounting' /\ place' \in [Chunk -> Places]
      BY <1>4, <2>1, <2>2, MovedToken DEF Receive, HoldInv, Taken, Places
    <3> QED BY <1>4, <2>1, <3>1
         DEF Receive, Answer, HoldInv, HoldTypes, ReaderPCs, disp, work, strm
  <2>4. DispatchOwns' /\ WorkersOwn' /\ ReaderOwns'
    BY <1>4, <2>1, <2>2
       DEF Receive, Answer, HoldInv, HoldTypes, DispatchOwns, WorkersOwn, ReaderOwns, Busy, Move,
           disp, work, strm
  <2>5. ResultsOwn'
    BY <1>4, <2>1, <2>2, DroppedHead DEF Receive, Move, HoldInv, HoldTypes, Places
  <2> QED BY <2>3, <2>4, <2>5 DEF HoldInv
<1>5. CASE CheckContext
  <2>1. got \in Chunk /\ place[got] = "held"
    BY <1>5 DEF CheckContext, HoldInv, HoldTypes, ReaderOwns
  <2>2. CASE ctxDone
    <3>1. cur # got
      BY <2>1 DEF HoldInv, ReaderOwns
    <3> QED BY <1>5, <2>1, <2>2, <3>1, ReaderReleases
         DEF CheckContext, GivesUp, Answer, ReaderPCs, strm
  <2>3. CASE ~ctxDone
    BY <1>5, <2>1, <2>3, ReaderMoves DEF CheckContext, Answer, ReaderPCs, strm
  <2> QED BY <2>2, <2>3
<1>6. CASE Order
  <2>1. got \in Chunk /\ place[got] = "held" /\ cur # got
    BY <1>6 DEF Order, HoldInv, HoldTypes, ReaderOwns
  <2>2. CASE ResultIsNext
    BY <1>6, <2>1, <2>2, ReaderMoves DEF Order, Answer, ReaderPCs, strm
  <2>3. CASE ~ResultIsNext /\ ~closed
    BY <1>6, <2>1, <2>3, ReaderMovesChunk DEF Order, Answer, ReaderPCs, Places, strm
  <2>4. CASE ~ResultIsNext /\ closed
    <3>1. Release(got) /\ got' = NoChunk /\ rpc' \in {"fail", "adopt"}
          /\ UNCHANGED <<disp, work, results, cur>>
      BY <1>6, <2>4 DEF Order, GivesUp, Answer, strm
    <3> QED BY <2>1, <3>1, ReaderReleases DEF ReaderPCs
  <2> QED BY <2>2, <2>3, <2>4
<1>7. CASE RejectResult
  <2>1. got' = NoChunk /\ rpc' = "fail" /\ UNCHANGED <<disp, work, results, cur>>
    BY <1>7 DEF RejectResult, GivesUp, Answer, strm
  <2>2. CASE got = NoChunk
    BY <1>7, <2>1, <2>2, ReaderMoves DEF RejectResult, ReaderPCs
  <2>3. CASE got # NoChunk
    <3>1. got \in Chunk /\ place[got] = "held" /\ cur # got
      BY <2>3 DEF HoldInv, HoldTypes, ReaderOwns
    <3> QED BY <1>7, <2>1, <2>3, <3>1, ReaderReleases DEF RejectResult, ReaderPCs
  <2> QED BY <2>2, <2>3
<1>8. CASE AdoptResult
  <2>1. got' = NoChunk /\ rpc' = "loop" /\ cur' = got /\ UNCHANGED <<slots, disp, work, results>>
    BY <1>8 DEF AdoptResult, Answer
  <2>2. CASE got = NoChunk
    <3>1. SlotAccounting' /\ HoldTypes'
      BY <1>8, <2>1, <2>2, SameTokens DEF AdoptResult, HoldInv, HoldTypes, ReaderPCs, hold, disp, work
    <3>2. Owns'
      BY <1>8, <2>1, <2>2 DEF AdoptResult, HoldInv, HoldTypes, Owns, DispatchOwns, WorkersOwn,
           ResultsOwn, ReaderOwns, Busy, disp, work
    <3> QED BY <3>1, <3>2 DEF HoldInv, Owns
  <2>3. CASE got # NoChunk
    <3>1. got \in Chunk /\ place[got] = "held"
      BY <2>3 DEF HoldInv, HoldTypes, ReaderOwns
    <3> QED BY <1>8, <2>1, <2>3, <3>1, ReaderMovesChunk DEF AdoptResult, ReaderPCs, Places
  <2> QED BY <2>2, <2>3
<1> QED BY <1>1, <1>2, <1>3, <1>4, <1>5, <1>6, <1>7, <1>8 DEF ReadStep

-----------------------------------------------------------------------------
\* Close releases the current chunk and those in p.pending.
LEMMA CloseLocksHold == ASSUME HoldInv, CloseLocks PROVE HoldInv'
<1> DEFINE freed == IF cur = NoChunk THEN {} ELSE {cur}
<1>1. /\ place' = [c \in Chunk |-> IF c \in freed THEN "released"
                                   ELSE IF place[c] = "pending" THEN "closing"
                                   ELSE place[c]]
      /\ slots' = slots - Cardinality(freed)
      /\ cur' = NoChunk
      /\ UNCHANGED <<disp, work, results, call>>
  BY DEF CloseLocks
<1>2. place' \in [Chunk -> Places] /\ freed \subseteq HoldingIn(place)
  BY <1>1 DEF HoldInv, HoldTypes, ReaderOwns, Places, HoldingIn
<1>3. HoldingIn(place') = HoldingIn(place) \ freed
  BY <1>1, <1>2 DEF HoldInv, HoldTypes, Places, HoldingIn
<1>4. Cardinality(HoldingIn(place')) = Cardinality(HoldingIn(place)) - Cardinality(freed)
  <2>1. CASE cur = NoChunk
    <3>1. HoldingIn(place) \ freed = HoldingIn(place) /\ freed = {}
      BY <2>1
    <3>2. Cardinality(freed) = 0
      BY <3>1, FS_EmptySet
    <3>3. Cardinality(HoldingIn(place)) \in Nat
      BY HoldingFinite
    <3>4. HoldingIn(place') = HoldingIn(place)
      BY <1>3, <3>1
    <3> HIDE DEF freed
    <3> QED BY <3>2, <3>3, <3>4
  <2>2. CASE cur # NoChunk
    <3>1. freed = {cur} /\ cur \in HoldingIn(place)
      BY <1>2, <2>2
    <3>2. Cardinality(freed) = 1
      BY <3>1, FS_Singleton
    <3>3. Cardinality(HoldingIn(place) \ {cur}) = Cardinality(HoldingIn(place)) - 1
      BY <3>1, HoldingFinite, FS_RemoveElement
    <3> QED BY <1>3, <3>1, <3>2, <3>3
  <2> QED BY <2>1, <2>2
<1>5. Cardinality(HoldingIn(place')) \in Nat /\ Cardinality(HoldingIn(place)) \in Nat
      /\ Cardinality(freed) \in Nat
  <2>1. IsFiniteSet(freed)
    BY FS_EmptySet, FS_Singleton
  <2> QED BY <2>1, HoldingFinite, FS_CardinalityType
<1>6. slots' = Cardinality(HoldingIn(place')) /\ slots' <= WorkerCount
  BY <1>1, <1>4, <1>5, WorkerCountPositive DEF HoldInv, SlotAccounting, Holding
<1>7. SlotAccounting' /\ HoldTypes'
  BY <1>1, <1>2, <1>5, <1>6
     DEF HoldInv, HoldTypes, SlotAccounting, Holding, disp, work, call
<1>8. Owns'
  BY <1>1, ChunkFacts
     DEF HoldInv, HoldTypes, Owns, DispatchOwns, WorkersOwn, ResultsOwn, ReaderOwns, Busy,
         disp, work, call
<1> QED BY <1>7, <1>8 DEF HoldInv, Owns

\* Steps that leave every holder alone.
LEMMA OthersMove ==
  ASSUME HoldInv, UNCHANGED <<hold, disp, work, results, rpc, got, cur>>
  PROVE  HoldInv'
<1>1. SlotAccounting' /\ HoldTypes'
  BY SameTokens DEF HoldInv, HoldTypes, hold, disp, work
<1>2. Owns'
  BY DEF HoldInv, HoldTypes, Owns, DispatchOwns, WorkersOwn, ResultsOwn, ReaderOwns, Busy,
       hold, disp, work
<1> QED BY <1>1, <1>2 DEF HoldInv, Owns

\* The other steps of Close release what it took under the lock.
LEMMA CloseHold == ASSUME HoldInv, CloseStep PROVE HoldInv'
<1>1. CASE CloseLocks
  BY <1>1, CloseLocksHold
<1>2. CASE CloseCancels \/ CloseBodies
  BY <1>2, OthersMove DEF CloseCancels, CloseBodies, call, strm
<1>3. CASE CloseReleases
  <2>1. UNCHANGED <<disp, work, results, rpc, got, cur>>
    BY <1>3 DEF CloseReleases, call, strm
  <2>2. CASE UNCHANGED <<bufs, hold>>
    BY <2>1, <2>2, OthersMove
  <2>3. CASE \E c \in In("closing") : Release(c)
    <3>1. PICK c \in Chunk : place[c] = "closing" /\ Release(c)
      BY <2>3 DEF In
    <3>2. place' = [place EXCEPT ![c] = "released"] /\ Taken(place[c])
      BY <3>1 DEF Release, Taken
    <3>3. SlotAccounting' /\ HoldTypes'
      BY <2>1, <3>1, <3>2, ReleasedToken DEF HoldInv, HoldTypes, disp, work
    <3>4. Owns'
      BY <2>1, <3>1, <3>2 DEF HoldInv, HoldTypes, Owns, DispatchOwns, WorkersOwn, ResultsOwn,
           ReaderOwns, Busy, disp, work
    <3> QED BY <3>3, <3>4 DEF HoldInv, Owns
  <2> QED BY <1>3, <2>2, <2>3 DEF CloseReleases
<1> QED BY <1>1, <1>2, <1>3 DEF CloseStep

\* The drainer releases what is left in p.results.
LEMMA DrainHold == ASSUME HoldInv, Drain PROVE HoldInv'
<1>1. /\ results' = Tail(results) /\ Release(results[1]) /\ results # <<>>
      /\ UNCHANGED <<disp, work, rpc, got, cur>>
  BY DEF Drain, call, strm, HoldInv, HoldTypes
<1>2. /\ results \in Seq(Chunk) /\ Len(results) \in Nat \ {0} /\ Tail(results) \in Seq(Chunk)
      /\ Len(Tail(results)) = Len(results) - 1
      /\ \A i \in 1 .. Len(Tail(results)) : Tail(results)[i] = results[i + 1]
  BY <1>1 DEF HoldInv, HoldTypes
<1>3. results[1] \in Chunk /\ place[results[1]] = "results" /\ Taken(place[results[1]])
  BY <1>2 DEF HoldInv, ResultsOwn, Taken
<1>4. place' = [place EXCEPT ![results[1]] = "released"]
  BY <1>1 DEF Release
<1>5. SlotAccounting' /\ HoldTypes'
  BY <1>1, <1>2, <1>3, ReleasedToken DEF HoldInv, HoldTypes, disp, work
<1>6. DispatchOwns' /\ WorkersOwn' /\ ReaderOwns'
  BY <1>1, <1>3, <1>4 DEF HoldInv, HoldTypes, DispatchOwns, WorkersOwn, ReaderOwns, Busy, disp, work
<1>7. ResultsOwn'
  BY <1>1, <1>2, <1>3, <1>4, DroppedHead DEF HoldInv, HoldTypes
<1> QED BY <1>5, <1>6, <1>7 DEF HoldInv

\* Dispatcher, workers, p.results and Read agree with place on who holds
\* which chunk, through Close, cancellation and every failure.
THEOREM HoldingInvariant == Spec => []HoldInv
<1>1. ASSUME HoldInv, [Next]_vars PROVE HoldInv'
  <2>1. CASE DispatchStep
    BY <1>1, <2>1, DispatchHold
  <2>2. CASE \E w \in Worker : WorkerStep(w)
    BY <1>1, <2>2, WorkerHold
  <2>3. CASE ReadStep
    BY <1>1, <2>3, ReadHold
  <2>4. CASE CloseStep
    BY <1>1, <2>4, CloseHold
  <2>5. CASE Drain
    BY <1>1, <2>5, DrainHold
  <2>6. CASE CallerCancels \/ OtherTakes \/ OtherPuts
    BY <1>1, <2>6, OthersMove DEF CallerCancels, OtherTakes, OtherPuts, call, strm
  <2>7. CASE UNCHANGED vars
    BY <1>1, <2>7, OthersMove DEF vars, call, strm
  <2> QED BY <1>1, <2>1, <2>2, <2>3, <2>4, <2>5, <2>6, <2>7 DEF Next
<1> QED BY <1>1, HoldInit, PTL DEF Spec

\* p.slots holds one token per chunk between its reservation and the release
\* of its result, never more than there are workers, and a receive from it
\* never finds it empty.
THEOREM SlotsAccounted == Spec => []SlotAccounting
<1>1. HoldInv => SlotAccounting
  BY DEF HoldInv
<1> QED BY <1>1, HoldingInvariant, PTL

-----------------------------------------------------------------------------
(* The terminal error.                                                     *)

\* Only readCurrent on an ended context, terminalError and Close write p.err.
LEMMA ErrorWriters ==
  ASSUME Next
  PROVE  \/ UNCHANGED <<err, closed>>
         \/ err = "nil" /\ err' = "ctx" /\ UNCHANGED closed
         \/ err' = ErrAfter(ferr) /\ UNCHANGED closed
         \/ err' = ErrAfter("closed")
<1>1. CASE DispatchStep
  BY <1>1 DEF DispatchStep, EnqueueProbe, AbandonProbe, ReserveSlot, StopReserving, EnqueueChunk,
       AbandonChunk, JoinWorkers, ctl
<1>2. CASE \E w \in Worker : WorkerStep(w)
  <2>1. UNCHANGED ctl
    BY <1>2, Zenon DEF WorkerStep, TakeTask, WorkerExits, ProbeRead, ProbeReadFails, RequestFails,
         RequestAnswered, ResponseFails, PartRead, BackoffEnds, BackoffCanceled, SendResult,
         DropResult
  <2> QED BY <2>1 DEF ctl
<1>3. CASE ReadStep
  BY <1>3 DEF ReadStep, ReadSticky, ReadCanceled, ReadBytes, ReadExhausted, TakePending, Receive,
       ReceiveClosed, SelectCanceled, CheckContext, Order, RejectResult, AdoptResult,
       TerminalError, ctl
<1>4. CASE CloseStep \/ Drain \/ CallerCancels \/ OtherTakes \/ OtherPuts
  BY <1>4 DEF CloseStep, CloseLocks, CloseCancels, CloseBodies, CloseReleases, Drain,
       CallerCancels, OtherTakes, OtherPuts, ctl
<1> QED BY <1>1, <1>2, <1>3, <1>4 DEF Next

\* The first terminal error recorded by Read or Close is the only one.
THEOREM ErrorIsSticky == Spec => FirstErrorWins
<1>1. ASSUME [Next]_vars PROVE [err # "nil" => UNCHANGED err]_vars
  BY <1>1, ErrorWriters DEF vars, ctl, ErrAfter
<1> QED BY <1>1, PTL DEF Spec, FirstErrorWins

ClosedHasError == closed \in BOOLEAN /\ (closed => err # "nil")

\* Close records an error in the same critical section as closed.
LEMMA ClosedHasErrorInvariant == Spec => []ClosedHasError
<1>1. Init => ClosedHasError
  BY DEF Init, ClosedHasError
<1>2. ASSUME ClosedHasError, [Next]_vars PROVE ClosedHasError'
  <2>1. CASE UNCHANGED vars
    BY <1>2, <2>1 DEF ClosedHasError, vars, ctl
  <2>2. CASE CloseLocks
    BY <1>2, <2>2 DEF CloseLocks, ClosedHasError, ErrAfter
  <2>3. CASE Next /\ ~CloseLocks
    <3>1. UNCHANGED closed
      BY <2>3 DEF Next, DispatchStep, EnqueueProbe, AbandonProbe, ReserveSlot, StopReserving,
           EnqueueChunk, AbandonChunk, JoinWorkers, WorkerStep, TakeTask, WorkerExits, ProbeRead,
           ProbeReadFails, RequestFails, RequestAnswered, ResponseFails, PartRead, BackoffEnds,
           BackoffCanceled, SendResult, DropResult, ReadStep, ReadSticky, ReadCanceled, ReadBytes,
           ReadExhausted, TakePending, Receive, ReceiveClosed, SelectCanceled, CheckContext, Order,
           RejectResult, AdoptResult, TerminalError, CloseStep, CloseCancels, CloseBodies,
           CloseReleases, Drain, CallerCancels, OtherTakes, OtherPuts, ctl
    <3>2. err # "nil" => err' = err
      BY <2>3, ErrorWriters DEF ErrAfter
    <3> QED BY <1>2, <3>1, <3>2 DEF ClosedHasError
  <2> QED BY <1>2, <2>1, <2>2, <2>3
<1> QED BY <1>1, <1>2, PTL DEF Spec

\* Once Close has marked the puller closed Read returns no byte: readCurrent
\* is the only writer of out and it needs p.err to be nil.
THEOREM CloseStopsDelivery == Spec => NoDeliveryAfterClose
<1>1. ASSUME ClosedHasError, [Next]_vars PROVE [closed => UNCHANGED out]_vars
  <2>1. CASE ReadBytes
    BY <1>1, <2>1 DEF ReadBytes, ClosedHasError
  <2>2. CASE UNCHANGED vars
    BY <2>2 DEF vars, strm
  <2>3. CASE Next /\ ~ReadBytes
    BY <2>3 DEF Next, DispatchStep, EnqueueProbe, AbandonProbe, ReserveSlot, StopReserving,
         EnqueueChunk, AbandonChunk, JoinWorkers, WorkerStep, TakeTask, WorkerExits, ProbeRead,
         ProbeReadFails, RequestFails, RequestAnswered, ResponseFails, PartRead, BackoffEnds,
         BackoffCanceled, SendResult, DropResult, ReadStep, ReadSticky, ReadCanceled,
         ReadExhausted, ReleaseCurrent, TakePending, Receive, ReceiveClosed, SelectCanceled,
         CheckContext, Order, RejectResult, AdoptResult, TerminalError, CloseStep, CloseLocks,
         CloseCancels, CloseBodies, CloseReleases, Drain, CallerCancels, OtherTakes, OtherPuts, strm
  <2> QED BY <1>1, <2>1, <2>2, <2>3
<1> QED BY <1>1, ClosedHasErrorInvariant, PTL DEF Spec, NoDeliveryAfterClose

=============================================================================
