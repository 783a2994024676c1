---------------------------- MODULE ParallelPull ----------------------------
(***************************************************************************)
(* The parallel download of one blob (parallel.go), from the moment the    *)
(* probe request was answered 206 and the puller was built.  The           *)
(* dispatcher, the fixed set of workers, the caller's Read, the caller's   *)
(* Close, the drainer Close spawns, and the other pulls that share the     *)
(* client's buffer pool all interleave.  A step is what one goroutine does *)
(* between two points where another one can be observed: a channel         *)
(* operation, a critical section of p.mu, a check of the context, a call   *)
(* to the transport.                                                       *)
(*                                                                         *)
(* Data: the blob is the sequence of bytes 0, 1, ..., Total-1 and a buffer *)
(* holds a sequence of them, so that a gap, a repetition, a leftover of a  *)
(* failed attempt or a buffer with two owners shows in what Read returns.  *)
(***************************************************************************)
EXTENDS Integers, Sequences, FiniteSets

CONSTANTS
  Total,          \* length of the blob, from the probe's Content-Range
  ProbeLen,       \* length of the interval the probe was answered with
  PullChunk,      \* Client.pullChunk
  PullWorkers,    \* Client.pullWorkers, also the capacity of the shared pool
  Worker,         \* the goroutines dispatch starts
  MaxAttempts,    \* RetryPolicy.attempts()
  ProbeAttempts,  \* requests the probe itself cost
  MaxRangeParts,  \* maxRangeParts (16 in the code)
  Buffer,         \* identities for backing arrays
  Shared          \* bound: buffers the client's other pulls hold at a time

Smaller(a, b) == IF a < b THEN a ELSE b

NChunks == 1 + (Total - ProbeLen + PullChunk - 1) \div PullChunk
Chunk == 0 .. NChunks - 1
WorkerCount == Smaller(PullWorkers, NChunks)

ASSUME SizesAssumption ==
  /\ PullChunk \in Nat \ {0}
  /\ ProbeLen \in 1 .. PullChunk
  /\ Total \in Nat /\ ProbeLen <= Total
ASSUME WorkersAssumption ==
  /\ PullWorkers \in Nat \ {0}
  /\ IsFiniteSet(Worker) /\ Cardinality(Worker) = WorkerCount
ASSUME BudgetAssumption ==
  /\ MaxAttempts \in Nat \ {0}
  /\ ProbeAttempts \in 1 .. MaxAttempts
  /\ MaxRangeParts \in Nat \ {0}
ASSUME BufferAssumption ==
  /\ Buffer \subseteq Nat \ {0}
  /\ Shared \in Nat

First(c) == IF c = 0 THEN 0 ELSE ProbeLen + (c - 1) * PullChunk
Want(c)  == IF c = 0 THEN ProbeLen ELSE Smaller(PullChunk, Total - First(c))

NoChunk == -1
NoBuf   == 0
Foreign == Total          \* what another pull writes into a buffer
Probe   == "probe"        \* the probe's body; a worker names its own body

ASSUME BodiesAssumption == Probe \notin Worker

VARIABLES
  ctxDone,   \* p.ctx is done: the caller's context or p.cancel
  closed,    \* p.closed
  err,       \* p.err, sticky
  slots,     \* tokens in p.slots
  place,     \* who holds chunk c's task, buffer and slot
  data,      \* the buffer of chunk c
  mem,       \* contents of each buffer
  pool,      \* p.pool.buffers, first in first out
  lent,      \* buffers the client's other pulls hold
  outcome,   \* how fetching chunk c ended, while somebody holds its result
  dpc, index,          \* dispatcher: control, next chunk to schedule
  wpc, task, fetch,    \* workers: control, chunk, progress of its fetch
  results,             \* p.results
  active, open,        \* p.active; response bodies not closed yet
  rpc, got, ferr,      \* Read: control, result in hand, error to record
  next, cur, pos, out, \* p.next, p.current, p.pos; bytes Read returned
  cpc, csnap           \* Close: control, snapshot of the active bodies

ctl  == <<ctxDone, closed, err>>
bufs == <<data, outcome, mem, pool, lent>>
hold == <<slots, place>>
disp == <<dpc, index>>
work == <<wpc, task, fetch>>
body == <<active, open>>
call == <<rpc, got, ferr>>
strm == <<next, cur, pos, out>>
clos == <<cpc, csnap>>
vars == <<ctl, bufs, hold, disp, work, results, body, call, strm, clos>>

In(p) == {c \in Chunk : place[c] = p}
Elems(s) == {s[i] : i \in DOMAIN s}

Idle == [cursor |-> 0, parts |-> 0, attempt |-> 0, budget |-> 0, retries |-> 0]

Init ==
  /\ ctxDone = FALSE /\ closed = FALSE /\ err = "nil"
  /\ slots = 1
  /\ place = [c \in Chunk |-> IF c = 0 THEN "reserved" ELSE "unscheduled"]
  /\ data = [c \in Chunk |-> NoBuf]
  /\ mem = [b \in Buffer |-> <<>>]
  /\ pool = <<>> /\ lent = {}
  /\ outcome = [c \in Chunk |-> "none"]
  /\ dpc = "probe" /\ index = 0
  /\ wpc = [w \in Worker |-> "idle"]
  /\ task = [w \in Worker |-> NoChunk]
  /\ fetch = [w \in Worker |-> Idle]
  /\ results = <<>>
  /\ active = {Probe} /\ open = {Probe}
  /\ rpc = "idle" /\ got = NoChunk /\ ferr = "nil"
  /\ next = 0 /\ cur = NoChunk /\ pos = 0 /\ out = <<>>
  /\ cpc = "open" /\ csnap = {}

-----------------------------------------------------------------------------
(* The buffer pool.                                                        *)

\* put drops the buffer when the channel is full.
Recycled(b) ==
  IF b # NoBuf /\ Len(pool) < PullWorkers THEN Append(pool, b) ELSE pool

Put(b) ==
  /\ pool' = Recycled(b)
  /\ mem' = IF b = NoBuf THEN mem ELSE [mem EXCEPT ![b] = <<>>]

\* take prefers a retained buffer; nil makes the first read allocate one.
InUse == Elems(pool) \cup {data[c] : c \in Chunk} \cup lent
Fresh == {b \in Buffer \ InUse : \A a \in Buffer \ InUse : b <= a}

Take(b, content) ==
  /\ IF pool # <<>> THEN b = Head(pool) /\ pool' = Tail(pool)
                    ELSE b \in Fresh /\ pool' = pool
  /\ mem' = [mem EXCEPT ![b] = content]

\* releaseResult and releaseCurrentLocked: buffer to the pool, slot back.
Release(c) ==
  /\ Put(data[c])
  /\ data' = [data EXCEPT ![c] = NoBuf]
  /\ outcome' = [outcome EXCEPT ![c] = "none"]
  /\ place' = [place EXCEPT ![c] = "released"]
  /\ slots' = slots - 1
  /\ UNCHANGED lent

Move(c, p) == place' = [place EXCEPT ![c] = p]

\* untrackAndClose; closing a body again does nothing (trackedBody.once), so
\* the close of h is off the list of those Close still has to make.
Untrack(h) ==
  /\ active' = active \ {h} /\ open' = open \ {h}
  /\ csnap' = csnap \ {h}

-----------------------------------------------------------------------------
(* The dispatcher.  tasks is closed once it reaches "join", results once   *)
(* it reaches "done"; chunks are queued in order, so the head of tasks is  *)
(* the smallest queued chunk.                                              *)

TasksClosed   == dpc \in {"join", "done"}
ResultsClosed == dpc = "done"
TasksRoom     == Cardinality(In("queued")) < WorkerCount

AfterSend == IF index + 1 < NChunks THEN "reserve" ELSE "join"

\* enqueueProbe: the probe's slot was taken when the puller was built.
EnqueueProbe ==
  /\ dpc = "probe" /\ TasksRoom
  /\ Move(0, "queued")
  /\ dpc' = AfterSend /\ index' = 1
  /\ UNCHANGED <<ctl, bufs, slots, work, results, body, call, strm, clos>>

\* Mutant: the probe's slot is forgotten.
AbandonProbeLeaks ==
  /\ dpc = "probe" /\ ctxDone
  /\ Untrack(Probe)
  /\ Move(0, "released")
  /\ dpc' = "join" /\ UNCHANGED <<index, slots, bufs>>
  /\ UNCHANGED <<ctl, work, results, call, strm, cpc>>

AbandonProbe ==
  /\ dpc = "probe" /\ ctxDone
  /\ Untrack(Probe)
  /\ Release(0)
  /\ dpc' = "join" /\ UNCHANGED index
  /\ UNCHANGED <<ctl, work, results, call, strm, cpc>>

\* Mutant: the slot channel has room for one token too many.
OneSlotTooMany == slots <= WorkerCount
SlotFree == slots < WorkerCount

\* enqueueChunk, first select: one slot per body or completed buffer.
ReserveSlot ==
  /\ dpc = "reserve" /\ SlotFree
  /\ slots' = slots + 1
  /\ Move(index, "reserved")
  /\ dpc' = "send"
  /\ UNCHANGED <<ctl, bufs, index, work, results, body, call, strm, clos>>

\* Mutant: the wait for a slot ignores the context.
StopReservingNever == FALSE /\ UNCHANGED vars

StopReserving ==
  /\ dpc = "reserve" /\ ctxDone
  /\ dpc' = "join"
  /\ UNCHANGED <<ctl, bufs, hold, index, work, results, body, call, strm, clos>>

\* enqueueChunk, second select.
EnqueueChunk ==
  /\ dpc = "send" /\ TasksRoom
  /\ Move(index, "queued")
  /\ dpc' = AfterSend /\ index' = index + 1
  /\ UNCHANGED <<ctl, bufs, slots, work, results, body, call, strm, clos>>

AbandonChunk ==
  /\ dpc = "send" /\ ctxDone
  /\ Release(index)
  /\ dpc' = "join"
  /\ UNCHANGED <<ctl, index, work, results, body, call, strm, clos>>

\* The deferred close(tasks); workers.Wait(); close(p.results).
JoinWorkers ==
  /\ dpc = "join" /\ \A w \in Worker : wpc[w] = "exited"
  /\ dpc' = "done"
  /\ UNCHANGED <<ctl, bufs, hold, index, work, results, body, call, strm, clos>>

-----------------------------------------------------------------------------
(* The workers.                                                            *)

Goto(w, p) == wpc' = [wpc EXCEPT ![w] = p]
\* budget is attempts of fetchChunk; retries counts the backoffs, a history.
Start(budget) ==
  [cursor |-> 0, parts |-> 0, attempt |-> 1, budget |-> budget, retries |-> 0]

\* range tasks, then the pool.take that opens readChunkInto or fetchChunk.
TakeTask(w) ==
  /\ wpc[w] = "idle"
  /\ \E c \in In("queued"), b \in Buffer :
       /\ \A d \in In("queued") : c <= d
       /\ Take(b, <<>>)
       /\ data' = [data EXCEPT ![c] = b]
       /\ Move(c, "worker")
       /\ task' = [task EXCEPT ![w] = c]
       /\ fetch' = [fetch EXCEPT ![w] = Start(MaxAttempts)]
       /\ Goto(w, IF c = 0 THEN "probe" ELSE "request")
  /\ UNCHANGED <<ctl, lent, slots, disp, outcome, results, body, call, strm, clos>>

WorkerExits(w) ==
  /\ wpc[w] = "idle" /\ In("queued") = {} /\ TasksClosed
  /\ Goto(w, "exited")
  /\ UNCHANGED <<ctl, bufs, hold, disp, task, fetch, results, body, call, strm, clos>>

\* The result is complete; chunkResult{data: data}.
FetchDone(w) ==
  /\ outcome' = [outcome EXCEPT ![task[w]] = "ok"]
  /\ Goto(w, "send")
  /\ UNCHANGED <<data, pool>>

\* Mutant: the result keeps the buffer it returned to the pool.
FetchFailsKeepsBuffer(w, e) ==
  /\ outcome' = [outcome EXCEPT ![task[w]] = e]
  /\ Put(data[task[w]])
  /\ Goto(w, "send") /\ UNCHANGED data

\* chunkResult{err: e}, after the buffer went back to the pool.
FetchFails(w, e) ==
  /\ outcome' = [outcome EXCEPT ![task[w]] = e]
  /\ Put(data[task[w]])
  /\ data' = [data EXCEPT ![task[w]] = NoBuf]
  /\ Goto(w, "send")

\* appendExactly: n more bytes of chunk c, from the cursor on.
Bytes(c, cursor, n) == [i \in 1 .. n |-> First(c) + cursor + i - 1]
AppendBytes(w, n) ==
  LET b == data[task[w]] IN
  mem' = [mem EXCEPT ![b] = @ \o Bytes(task[w], fetch[w].cursor, n)]

\* fetchTask with a probe body: readChunkInto the whole interval.
ProbeRead(w) ==
  /\ wpc[w] = "probe" /\ Probe \in open
  /\ AppendBytes(w, Want(0))
  /\ FetchDone(w)
  /\ Untrack(Probe)
  /\ UNCHANGED <<ctl, lent, hold, disp, task, fetch, results, call, strm, cpc>>

\* The probe body broke: its buffer is returned, and what is left of the
\* budget goes to a ranged request, which takes a buffer of its own.
ProbeReadFails(w) ==
  /\ wpc[w] = "probe"
  /\ Untrack(Probe)
  /\ LET remaining == MaxAttempts - ProbeAttempts IN
     \/ /\ ctxDone
        /\ FetchFails(w, "ctx") /\ UNCHANGED fetch
     \/ /\ ~ctxDone /\ remaining <= 0
        /\ FetchFails(w, "fetch") /\ UNCHANGED fetch
     \/ /\ ~ctxDone /\ remaining > 0
        /\ LET held == Recycled(data[0]) IN
           /\ data' = [data EXCEPT ![0] = Head(held)]
           /\ pool' = Tail(held)
           /\ mem' = [mem EXCEPT ![data[0]] = <<>>, ![Head(held)] = <<>>]
        /\ fetch' = [fetch EXCEPT ![w] = Start(remaining)]
        /\ Goto(w, "request") /\ UNCHANGED outcome
  /\ UNCHANGED <<ctl, lent, hold, disp, task, results, call, strm, cpc>>

\* fetchRangePart after a failed attempt: the context first, then the
\* budget, then the backoff.
AttemptFails(w, e, retryable) ==
  \/ /\ ctxDone
     /\ FetchFails(w, "ctx")
  \/ /\ ~ctxDone /\ (~retryable \/ fetch[w].attempt = fetch[w].budget)
     /\ FetchFails(w, e)
  \/ /\ ~ctxDone /\ retryable /\ fetch[w].attempt # fetch[w].budget
     /\ Goto(w, "sleep") /\ UNCHANGED <<data, mem, pool, outcome>>

\* rangeRequest returns an error.
RequestFails(w) ==
  /\ wpc[w] = "request"
  /\ \E retryable \in BOOLEAN : AttemptFails(w, "fetch", retryable)
  /\ UNCHANGED <<ctl, lent, hold, disp, task, fetch, results, body, call, strm, clos>>

\* rangeRequest returns a response: trackBody closes it if Close came first.
RequestAnswered(w) ==
  /\ wpc[w] = "request"
  /\ \/ /\ closed
        /\ AttemptFails(w, "closed", FALSE)
        /\ UNCHANGED body
     \/ /\ ~closed
        /\ active' = active \cup {w} /\ open' = open \cup {w}
        /\ Goto(w, "body")
        /\ UNCHANGED <<data, mem, pool, outcome>>
  /\ UNCHANGED <<ctl, lent, hold, disp, task, fetch, results, call, strm, clos>>

\* A status other than 206 or a wrong Content-Range (retryable by its
\* status only), or a body that breaks off, whose bytes data[:before] drops.
ResponseFails(w) ==
  /\ wpc[w] = "body"
  /\ \E retryable \in BOOLEAN : AttemptFails(w, "fetch", retryable)
  /\ Untrack(w)
  /\ UNCHANGED <<ctl, lent, hold, disp, task, fetch, results, call, strm, cpc>>

\* A 206 with n of the missing bytes; the chunk ends, is cut into too many
\* parts, or goes on with a request for the rest under a fresh budget.
PartRead(w) ==
  /\ wpc[w] = "body" /\ w \in open
  /\ Untrack(w)
  /\ \E n \in 1 .. Want(task[w]) - fetch[w].cursor :
       LET cursor == fetch[w].cursor + n
           parts  == fetch[w].parts + 1
       IN
       /\ fetch' = [fetch EXCEPT ![w].cursor = cursor, ![w].parts = parts, ![w].attempt = 1]
       /\ \/ /\ cursor = Want(task[w])
             /\ AppendBytes(w, n)
             /\ FetchDone(w)
          \/ /\ cursor # Want(task[w]) /\ parts = MaxRangeParts
             /\ FetchFails(w, "fetch")
          \/ /\ cursor # Want(task[w]) /\ parts # MaxRangeParts
             /\ AppendBytes(w, n)
             /\ Goto(w, "request")
             /\ UNCHANGED <<data, pool, outcome>>
  /\ UNCHANGED <<ctl, lent, hold, disp, task, results, call, strm, cpc>>

\* sleepContext: the timer fires, or the context ends the wait.
BackoffEnds(w) ==
  /\ wpc[w] = "sleep"
  /\ fetch' = [fetch EXCEPT ![w].attempt = @ + 1, ![w].retries = @ + 1]
  /\ Goto(w, "request")
  /\ UNCHANGED <<ctl, bufs, hold, disp, task, results, body, call, strm, clos>>

BackoffCanceled(w) ==
  /\ wpc[w] = "sleep" /\ ctxDone
  /\ FetchFails(w, "ctx")
  /\ UNCHANGED <<ctl, lent, hold, disp, task, fetch, results, body, call, strm, clos>>

WorkerIdle(w) ==
  /\ Goto(w, "idle")
  /\ task' = [task EXCEPT ![w] = NoChunk]
  /\ fetch' = [fetch EXCEPT ![w] = Idle]

\* work: the select between p.results and the context.
SendResult(w) ==
  /\ wpc[w] = "send" /\ Len(results) < WorkerCount
  /\ results' = Append(results, task[w])
  /\ Move(task[w], "results")
  /\ WorkerIdle(w)
  /\ UNCHANGED <<ctl, bufs, slots, disp, body, call, strm, clos>>

DropResult(w) ==
  /\ wpc[w] = "send" /\ ctxDone
  /\ Release(task[w])
  /\ WorkerIdle(w)
  /\ UNCHANGED <<ctl, disp, results, body, call, strm, clos>>

WorkerStep(w) ==
  \/ TakeTask(w) \/ WorkerExits(w)
  \/ ProbeRead(w) \/ ProbeReadFails(w)
  \/ RequestFails(w) \/ RequestAnswered(w) \/ ResponseFails(w) \/ PartRead(w)
  \/ BackoffEnds(w) \/ BackoffCanceled(w)
  \/ SendResult(w) \/ DropResult(w)

-----------------------------------------------------------------------------
(* Read.  One goroutine reads; between two calls rpc is "idle", and "loop" *)
(* is the head of Read's loop after a chunk was adopted.                   *)

Answer(p) == rpc' = p

\* An error already recorded wins.
ErrAfter(e) == IF err = "nil" THEN e ELSE err

Returns   == Answer("idle") /\ got' = NoChunk /\ ferr' = "nil"
GivesUp(e) == Answer("fail") /\ ferr' = e /\ got' = NoChunk

\* readCurrent, one critical section: sticky error, context, bytes of the
\* current chunk, or its release when it is exhausted.
ReadSticky ==
  /\ rpc \in {"idle", "loop"} /\ err # "nil"
  /\ Returns
  /\ UNCHANGED <<ctl, bufs, hold, disp, work, results, body, strm, clos>>

ReadCanceled ==
  /\ rpc \in {"idle", "loop"} /\ err = "nil" /\ ctxDone
  /\ err' = "ctx" /\ UNCHANGED <<ctxDone, closed>>
  /\ Returns
  /\ UNCHANGED <<bufs, hold, disp, work, results, body, strm, clos>>

Current == IF cur = NoChunk THEN <<>> ELSE mem[data[cur]]

ReadBytes ==
  /\ rpc \in {"idle", "loop"} /\ err = "nil" /\ ~ctxDone
  /\ \E n \in 1 .. Len(Current) - pos :
       /\ out' = out \o SubSeq(Current, pos + 1, pos + n)
       /\ pos' = pos + n
  /\ Returns
  /\ UNCHANGED <<ctl, bufs, hold, disp, work, results, body, next, cur, clos>>

\* Mutant: the exhausted chunk is dropped, its slot is not.
ReleaseCurrentKeepsSlot ==
  /\ cur' = NoChunk /\ pos' = 0
  /\ UNCHANGED <<bufs, hold, next, out>>

ReleaseCurrent ==
  /\ IF cur = NoChunk THEN UNCHANGED <<bufs, hold>> ELSE Release(cur)
  /\ cur' = NoChunk /\ pos' = 0
  /\ UNCHANGED <<next, out>>

ReadExhausted ==
  /\ rpc \in {"idle", "loop"} /\ err = "nil" /\ ~ctxDone
  /\ pos >= Len(Current)
  /\ ReleaseCurrent
  /\ Answer("pending") /\ UNCHANGED <<got, ferr>>
  /\ UNCHANGED <<ctl, disp, work, results, body, clos>>

\* Mutant: a result stored out of order is not looked up again.
PendingNever == FALSE
PendingReady == next \in In("pending")

\* takePending
TakePending ==
  /\ rpc = "pending"
  /\ IF PendingReady
       THEN Move(next, "held") /\ got' = next /\ Answer("taken")
       ELSE Answer("select") /\ UNCHANGED <<place, got>>
  /\ UNCHANGED <<ctl, bufs, slots, disp, work, results, body, ferr, strm, clos>>

\* The select of nextResult.
Receive ==
  /\ rpc = "select" /\ results # <<>>
  /\ got' = Head(results) /\ results' = Tail(results)
  /\ Move(Head(results), "held")
  /\ Answer("received")
  /\ UNCHANGED <<ctl, bufs, slots, disp, work, body, ferr, strm, clos>>

ReceiveClosed ==
  /\ rpc = "select" /\ results = <<>> /\ ResultsClosed
  /\ GivesUp("eof")
  /\ UNCHANGED <<ctl, bufs, hold, disp, work, results, body, strm, clos>>

SelectCanceled ==
  /\ rpc = "select" /\ ctxDone
  /\ GivesUp("ctx")
  /\ UNCHANGED <<ctl, bufs, hold, disp, work, results, body, strm, clos>>

\* The context check that follows taking a result.
CheckContext ==
  /\ rpc \in {"taken", "received"}
  /\ \/ /\ ctxDone
        /\ Release(got) /\ GivesUp("ctx")
     \/ /\ ~ctxDone
        /\ Answer(IF rpc = "taken" THEN "adopt" ELSE "order")
        /\ UNCHANGED <<bufs, hold, got, ferr>>
  /\ UNCHANGED <<ctl, disp, work, results, body, strm, clos>>

\* Mutant: results are delivered in the order they arrive.
ResultAlwaysNext == TRUE
ResultIsNext == got = next

\* resultIsNext and storePending.  A refused result whose context is not
\* done yet leaves nextResult with the zero result and a nil error.
Order ==
  /\ rpc = "order"
  /\ \/ /\ ResultIsNext
        /\ Answer("adopt") /\ UNCHANGED <<bufs, hold, got, ferr>>
     \/ /\ ~ResultIsNext /\ ~closed
        /\ Move(got, "pending") /\ got' = NoChunk /\ Answer("pending")
        /\ UNCHANGED <<bufs, slots, ferr>>
     \/ /\ ~ResultIsNext /\ closed
        /\ Release(got)
        /\ IF ctxDone THEN GivesUp("ctx")
                      ELSE Answer("adopt") /\ got' = NoChunk /\ UNCHANGED ferr
  /\ UNCHANGED <<ctl, disp, work, results, body, strm, clos>>

\* Read with a result: its error, adoptResult's refusals, or the new chunk.
GotError == got # NoChunk /\ outcome[got] # "ok"
Refusal  == IF GotError THEN outcome[got]
            ELSE IF closed THEN "closed" ELSE "ctx"

\* adoptResult refuses once Close or the context came first.
Refused == closed \/ ctxDone

RejectResult ==
  /\ rpc = "adopt" /\ (GotError \/ Refused)
  /\ IF got = NoChunk THEN UNCHANGED <<bufs, hold>> ELSE Release(got)
  /\ GivesUp(Refusal)
  /\ UNCHANGED <<ctl, disp, work, results, body, strm, clos>>

AdoptResult ==
  /\ rpc = "adopt" /\ ~GotError /\ ~Refused
  /\ cur' = got /\ pos' = 0 /\ next' = next + 1 /\ UNCHANGED out
  /\ IF got = NoChunk THEN UNCHANGED place ELSE Move(got, "current")
  /\ got' = NoChunk /\ Answer("loop")
  /\ UNCHANGED <<ctl, bufs, slots, disp, work, results, body, ferr, clos>>

\* terminalError: an error already recorded wins.
TerminalError ==
  /\ rpc = "fail"
  /\ err' = ErrAfter(ferr) /\ UNCHANGED <<ctxDone, closed>>
  /\ Returns
  /\ UNCHANGED <<bufs, hold, disp, work, results, body, strm, clos>>

ReadStep ==
  \/ ReadSticky \/ ReadCanceled \/ ReadBytes \/ ReadExhausted
  \/ TakePending \/ Receive \/ ReceiveClosed \/ SelectCanceled
  \/ CheckContext \/ Order \/ RejectResult \/ AdoptResult \/ TerminalError

-----------------------------------------------------------------------------
(* Close, the drainer it starts, and the environment.                      *)

CloseLocks ==
  /\ cpc = "open"
  /\ closed' = TRUE /\ err' = ErrAfter("closed")
  /\ UNCHANGED ctxDone
  /\ csnap' = active
  /\ LET freed == IF cur = NoChunk THEN {} ELSE {cur} IN
     /\ place' = [c \in Chunk |-> IF c \in freed THEN "released"
                                  ELSE IF place[c] = "pending" THEN "closing"
                                  ELSE place[c]]
     /\ slots' = slots - Cardinality(freed)
     /\ IF cur = NoChunk THEN UNCHANGED <<data, outcome, mem, pool>>
        ELSE /\ Put(data[cur])
             /\ data' = [data EXCEPT ![cur] = NoBuf]
             /\ outcome' = [outcome EXCEPT ![cur] = "none"]
  /\ cur' = NoChunk /\ pos' = 0
  /\ cpc' = "cancel"
  /\ UNCHANGED <<lent, disp, work, results, body, call, next, out>>

CloseCancels ==
  /\ cpc = "cancel"
  /\ ctxDone' = TRUE
  /\ cpc' = "bodies"
  /\ UNCHANGED <<closed, err, bufs, hold, disp, work, results, body, call, strm, csnap>>

CloseBodies ==
  /\ cpc = "bodies"
  /\ open' = open \ csnap
  /\ csnap' = {} /\ cpc' = "release"
  /\ UNCHANGED <<ctl, bufs, hold, disp, work, results, active, call, strm>>

\* Mutant: the chunks that wait for their turn are forgotten.
CloseForgetsPending ==
  /\ cpc = "release"
  /\ cpc' = "closed"
  /\ UNCHANGED <<ctl, bufs, hold, disp, work, results, body, call, strm, csnap>>

CloseReleases ==
  /\ cpc = "release"
  /\ \/ /\ \E c \in In("closing") : Release(c)
        /\ UNCHANGED cpc
     \/ /\ In("closing") = {}
        /\ cpc' = "closed" /\ UNCHANGED <<bufs, hold>>
  /\ UNCHANGED <<ctl, disp, work, results, body, call, strm, csnap>>

CloseStep == CloseLocks \/ CloseCancels \/ CloseBodies \/ CloseReleases

\* drainResults ends when results is closed and empty.
Drain ==
  /\ cpc = "closed" /\ results # <<>>
  /\ Release(Head(results)) /\ results' = Tail(results)
  /\ UNCHANGED <<ctl, disp, work, body, call, strm, clos>>

CallerCancels ==
  /\ ~ctxDone
  /\ ctxDone' = TRUE
  /\ UNCHANGED <<closed, err, bufs, hold, disp, work, results, body, call, strm, clos>>

\* Another pull of the same client takes a buffer and writes into it, or
\* returns one.
OtherTakes ==
  /\ Cardinality(lent) < Shared
  /\ \E b \in Buffer : Take(b, <<Foreign>>) /\ lent' = lent \cup {b}
  /\ UNCHANGED <<ctl, data, outcome, hold, disp, work, results, body, call, strm, clos>>

OtherPuts ==
  /\ \E b \in lent : Put(b) /\ lent' = lent \ {b}
  /\ UNCHANGED <<ctl, data, outcome, hold, disp, work, results, body, call, strm, clos>>

DispatchStep ==
  \/ EnqueueProbe \/ AbandonProbe \/ ReserveSlot \/ StopReserving
  \/ EnqueueChunk \/ AbandonChunk \/ JoinWorkers

Next ==
  \/ DispatchStep
  \/ \E w \in Worker : WorkerStep(w)
  \/ ReadStep \/ CloseStep \/ Drain
  \/ CallerCancels \/ OtherTakes \/ OtherPuts

Spec == Init /\ [][Next]_vars

(* Every goroutine that can run does; a request is answered or fails, and  *)
(* a Read or Close that was called runs to its end.  Reading a body may    *)
(* block for good while the body is open: trackedBody is there because a   *)
(* custom RoundTripper may ignore the end of the context.  Nothing makes   *)
(* the caller call Read or Close, cancel, or start another pull.           *)
BodyOf(w)    == IF wpc[w] = "probe" THEN Probe ELSE w
Unblocked(w) == BodyOf(w) \notin open

Fairness ==
  /\ WF_vars(DispatchStep)
  /\ \A w \in Worker : WF_vars(Unblocked(w) /\ WorkerStep(w))
  /\ WF_vars(rpc # "idle" /\ ReadStep)
  /\ WF_vars(cpc # "open" /\ (CloseStep \/ Drain))

\* What the transport may promise besides: no read of a body goes on for good
\* once the context is done, as in net/http; or none does at all.
ContextEndsReads == \A w \in Worker : []<>(ctxDone => Unblocked(w))
ReadsEnd         == \A w \in Worker : []<>Unblocked(w)

FairSpec == Spec /\ Fairness

-----------------------------------------------------------------------------
Places == {"unscheduled", "reserved", "queued", "worker", "results", "held",
           "pending", "current", "closing", "released"}
Outcomes == {"ok", "none", "fetch", "ctx", "closed"}
Errors == {"nil", "eof", "fetch", "ctx", "closed"}
WorkerPCs == {"idle", "probe", "request", "body", "sleep", "send", "exited"}
ReaderPCs == {"idle", "loop", "pending", "taken", "select", "received", "order",
              "adopt", "fail"}

FetchState == [cursor : Nat, parts : Nat, attempt : Nat, budget : Nat, retries : Nat]

\* Every variable stays in its type: the token count is a natural number
\* (a receive from an empty p.slots would block Close or Read for ever).
TypeOK ==
  /\ ctxDone \in BOOLEAN /\ closed \in BOOLEAN /\ err \in Errors
  /\ slots \in Nat /\ place \in [Chunk -> Places]
  /\ data \in [Chunk -> Buffer \cup {NoBuf}]
  /\ mem \in [Buffer -> Seq(0 .. Total)]
  /\ pool \in Seq(Buffer) /\ lent \subseteq Buffer
  /\ outcome \in [Chunk -> Outcomes]
  /\ dpc \in {"probe", "reserve", "send", "join", "done"} /\ index \in 0 .. NChunks
  /\ wpc \in [Worker -> WorkerPCs] /\ task \in [Worker -> Chunk \cup {NoChunk}]
  /\ fetch \in [Worker -> FetchState]
  /\ results \in Seq(Chunk)
  /\ active \subseteq Worker \cup {Probe} /\ open \subseteq Worker \cup {Probe}
  /\ rpc \in ReaderPCs /\ got \in Chunk \cup {NoChunk} /\ ferr \in Errors
  /\ next \in Nat /\ cur \in Chunk \cup {NoChunk} /\ pos \in Nat /\ out \in Seq(0 .. Total)
  /\ cpc \in {"open", "cancel", "bodies", "release", "closed"}
  /\ csnap \subseteq Worker \cup {Probe}

HoldingIn(f) == {c \in Chunk : f[c] \notin {"unscheduled", "released"}}
Holding == HoldingIn(place)

\* "slots bounds response bodies plus completed buffers together"
\* (parallel.go:130): p.slots holds exactly one token per chunk between its
\* reservation and the release of its result, whoever holds the chunk.
SlotAccounting == slots = Cardinality(Holding) /\ slots <= WorkerCount

\* dispatch keeps "response bodies plus completed buffers within
\* workerCount" (parallel.go:334): bodies not yet closed, and buffers that
\* left the worker that filled them.
Buffered == {c \in Chunk : data[c] # NoBuf /\ place[c] # "worker"}
BodiesAndBuffersBounded == Cardinality(open) + Cardinality(Buffered) <= WorkerCount

\* A backing array has one owner at a time: one chunk, one place in the
\* pool, or one of the client's other pulls.
BuffersHaveOneOwner ==
  /\ \A c, d \in Chunk : data[c] # NoBuf /\ data[c] = data[d] => c = d
  /\ \A i, j \in DOMAIN pool : pool[i] = pool[j] => i = j
  /\ \A c \in Chunk : data[c] \notin Elems(pool) \cup lent
  /\ Elems(pool) \cap lent = {}

\* The chunk Read waits for is on its way to p.results, or nothing is and no
\* slot is taken: chunks fetched ahead never keep the slots it needs.
AwaitedChunkIsComing ==
  rpc = "select" /\ ~ctxDone /\ ~closed /\ next \in Chunk =>
    \/ place[next] \in {"reserved", "queued", "worker", "results"}
    \/ place[next] = "unscheduled" /\ slots = 0

\* "The caller's context [...] remains inspectable through errors.Is on the
\* returned error" (design.md:197): io.EOF is never what a Read returns
\* because the context ended.  The code does not keep this.
EOFOnlyAtEnd == err = "eof" => Len(out) = Total

\* "MaxAttempts bounds the complete request, including parallel chunk body
\* retries; nested retry loops do not multiply it" (design.md:195): the
\* retries of one chunk fit in its budget.  The code grants every part of
\* the chunk a budget of its own.
RetriesWithinBudget ==
  \A w \in Worker : wpc[w] = "request" => fetch[w].retries < fetch[w].budget

\* Nothing is delivered once Close has marked the puller closed, although
\* workers go on finishing chunks and Read may hold one.
NoDeliveryAfterClose == [][closed => UNCHANGED out]_vars

\* The first terminal error recorded by Read or Close is the only one.
FirstErrorWins == [][err # "nil" => UNCHANGED err]_vars

\* The puller is an ordered blob stream, with the lapse EOFOnlyAtEnd shows.
Stream == INSTANCE BlobStream WITH LaxEOF <- TRUE
ImplementsStream == Stream!Spec

Quiescent ==
  /\ dpc = "done" /\ cpc = "closed" /\ rpc = "idle"
  /\ results = <<>> /\ open = {} /\ slots = 0
  /\ \A c \in Chunk : data[c] = NoBuf

\* After Close every goroutine ends, every body is closed, every slot and
\* every buffer is given back, also those of the chunks that wait for their
\* turn and of a worker whose read only the close of its body can end.
CloseReleasesEverything == []<>(cpc # "open" => Quiescent)

\* A canceled context alone ends the dispatcher and every worker wherever
\* they wait, if it ends the reads of bodies, and even if the caller never
\* calls Read or Close again.
CancelStopsWorkers == ContextEndsReads => []<>(ctxDone => dpc = "done")

\* The blob is finite, so a caller that calls Read until it fails is, again
\* and again, inside a Read that has no byte at hand.
CallsGoOn == []<>(rpc # "idle" \/ err # "nil")

\* A caller that keeps calling Read, as io.Copy does, reaches a terminal
\* error (io.EOF included) if reads of bodies end: chunks that finish out of
\* order never keep the slots the awaited one needs.
ReaderFinishes == CallsGoOn /\ ReadsEnd => []<>(err # "nil")
=============================================================================
