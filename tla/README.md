# Verification of go-oci-blob

TLA+ models of this library (package `blob`): the parallel and single-stream
downloads, the ranged read, the upload with its request body, and the calls
that ask the registry before bytes move (exists, mount, the opening of a pull)
with their retries, redirects and errors. All are checked with TLC on small
instances; every safety property of a passing run, and the refinements of the abstract
streams, are also proved with TLAPS for all parameter values. Line numbers refer to the files under `src/`.

## 1. Inventory

| Part (file) | State | Operations | Talks to |
|---|---|---|---|
| parallel puller (`parallel.go`) | `p.results`, `p.slots`, `pending`, `current`, `next`, sticky `err`, tracked bodies, buffer pool | dispatcher, N workers, `Read`, `Close`, drainer goroutine | transport, client's buffer pool |
| range reader (`pull.go:244-484`) | body, reader, `remaining`, `next`, `total`, `parts`, `closed` | `Read` (advance, readCurrent), `Close` | transport through `get` |
| resuming reader (`resume.go`) | body, `offset`, `attempts`, `bodyEnd`, `total`, `closed` | `Read` (reestablish), `Close` | transport |
| pull entry points (`pull.go:44-204`, `parallel.go:156-277`) | attempts spent, the probe's context | `Pull`, `PullRange`, the probe of a parallel pull and its 200 and 416 fallbacks, `getAfterAttempts` | build the readers |
| verifying reader (`verify.go`) | running hash | `Read`, `Close` | wraps a reader |
| upload body (`upload_body.go`) | staging buffers, two channels, ownership flags, exact-size reader | pump goroutine, transport `Read`, `Close`, wait for release | caller's reader, transport, process buffer pool |
| push (`push.go`) | attempt, session, reader replay | `openSession`, `commitUpload`, `getBody`, `cancelUploadSession`, rewind, retry loop | upload body, registry |
| chunked upload (`chunked.go`) | offset, session URL, minimum chunk | `patchChunk`, `commitUpload` with no body | upload body, registry |
| retry (`retry.go`) | attempt number, last error | `doRetry`, `backoffDelay`, `sleepContext` | transport |
| progress (`progress.go`, `transfer.go`) | cumulative count, stop flag | `add`, `set`, `stop` | caller's callbacks |
| mount, exists (`mount.go`, `exists.go`) | none | one retried request, a cleanup DELETE | registry |
| error classes (`retryable.go`, `errors.go`, `wire.go:69-92,157-189`) | an error chain | markers, `Retryable`, `Unwrap` | every caller |
| redirect policy and scoping (`transport.go`) | hops of a chain | `checkRedirect`, `RoundTrip` | net/http |
| wire parsing (`wire.go`), targets (`repo.go`), options (`client.go`) | none or fixed | pure functions | - |

Separate programs and test code (`test/`, `internal/`, `mocks/`) are not part
of the system.

How the parts interact: `Pull` returns verifying reader -> progress ->
parallel puller, or verifying reader -> progress -> resuming reader;
`PullRange` returns progress -> range reader, deliberately unverified. `Push`
runs attempts; each opens a session and gives the transport an upload body,
whose pump is the only reader of the caller's source until `released` is
closed. Everything a caller can do at the same time as a `Read` is `Close` and
ending its context.

`Exists`, `Mount` and the opening of every pull are one logical request each,
sent through one retry loop and the redirects net/http follows; a parallel
pull may fall back to a second one, and a single stream keeps asking for
replacements of a broken body: all of these draw on one budget.

What is hard here: channels and mutexes with several parties (puller, upload
body); `Close` and cancellation between any two critical sections of a `Read`;
registries that answer with less than was asked, ignore `Range`, drop chunks,
answer early or not at all; retries that must neither repeat nor lose bytes;
and bounded resources (slots, buffers, parts, attempts) that every error path
has to give back. `PROJECT.json` lists these hazards line by line.

What makes each part correct:

* every reader: bytes in order, no gap, no repetition; `io.EOF` only at the
  end; every response body closed; `Read` and `Close` return;
* parallel puller, in addition: one token per chunk in flight, bodies plus
  buffers bounded, no buffer with two owners, no deadlock by prefetching;
* upload body: the transport gets the source's bytes, exactly as many as
  declared; nobody touches the source after release; release comes;
* requests: no more of them than the budget, over all fallbacks and resumes;
  a write is never turned into a read by a redirect; waits follow the policy;
  every response body and derived context has one owner; an error tells its
  caller what may be concluded from it;
* exists, mount: the answer was true at some time of the call; a declined mount
  leaves no session behind;
* push: success means stored and exact; sessions never mix bytes; the reader
  is moved only between bodies; abandoned sessions are deleted; a proven
  source error is final.

## 2. Modules

| Module | Models | Composition |
|---|---|---|
| `ParallelPull` | the parallel download after a 206 probe | implements `BlobStream` |
| `BlobStream` | abstract: what the parallel puller promises, an ordered stream with a sticky terminal error | - |
| `RangeReader` | the reader of `PullRange` | implements `BlobReader` |
| `ResumeReader` | the single-stream reader | implements `BlobReader` |
| `BlobReader` | abstract: what one `Read` of a single stream promises while Close and cancellation may come at any point of it | - |
| `UploadBody` | one request body: pump, transport read, close, release, exactness | - |
| `Push` | attempts, sessions, chunks, redirects, cleanup, rewind | uses what `UploadBody` promises |
| `Errors` | error chains and what `errors.Is`, `errors.As` and `Retryable` find in them | - |
| `Requests` | one logical request: retry loops, waits, redirect policy | extends `Errors` |
| `Calls` | exists, mount, the opening of every pull with its fallbacks, and the verified reading of what was opened | extends `Requests`; its readers are what `ParallelPull` and `ResumeReader` look like from above |
| `ParallelPullProofs`, `ParallelPullBufferProofs`, `ParallelPullStreamProofs` | theorems about `ParallelPull`: chunks and slots; buffers and bodies; what is delivered | a chain, each extends the one before |
| `RangeReaderProofs`, `ResumeReaderProofs`, `UploadBodyProofs`, `PushProofs`, `CallsProofs` | theorems about these five | each extends the module it names |

`MC*` modules only define constants for TLC; `Calls` needs none. Definitions commented `Mutant:`
are deliberately wrong variants of the definition that follows; no
specification uses them. They document which defect each property detects.

**Granularity.** A step is what a goroutine does between two points where
another can see it: one critical section, one channel operation, one check of
the context, one call to the transport or to the caller's reader. Control
variables (`rpc`, `dpc`, `wpc`, `ppc`, `cpc`, `pc`) hold the position of each
goroutine in the function named at the action. `Read` is serialized by its
mutex in the code, so there is one reader.

**Data.** A blob is the sequence of bytes `0 .. N-1`, each byte its own
position, so that a gap, a repetition, or a leftover of another buffer is
visible in what was delivered. Requests with their answers are one step that
picks any answer the code distinguishes. Errors are classes: `eof`, `closed`,
`ctx` and so on.

**`ParallelPull`.** `place[c]` says who holds chunk `c` (task queue, worker,
`p.results`, Read's local variable, `pending`, `current`, Close's list) and
replaces `p.pending` and the channel of tasks; `slots` is the number of tokens
in `p.slots`; `data`, `mem`, `pool`, `lent` are backing arrays with identity.
`Next` is the dispatcher, each worker, Read, Close, the drainer, the caller's
cancellation, and other pulls that take from and put into the same pool.

**`RangeReader`, `ResumeReader`.** One action per critical section of
`Read`; `held` is the body a step keeps in a local variable between two of
them, `open` the bodies not closed yet. A body never returns (0, nil), which
`io.Reader` discourages and net/http's bodies do not do. The range reader's follow-up GET
with its internal retries is one step; the resuming reader's own retry loop is
modelled in full, because its budget is a property.

**`BlobReader`.** The single-stream readers promise less than `BlobStream`:
their errors are not sticky (a failed resume may be tried again by the next
`Read`), and a `Read` that had begun may still deliver after `Close`. What
remains is stated about the phase of one `Read`: nothing delivered yet, or
delivered and not returned. In both readers `Phase` computes it from `rpc` and
what the `Read` has in hand. `io.EOF` is allowed only with the whole window or
blob, an error of Close or of the context only after it, and a `Read` without
an error has delivered.

**`UploadBody`.** `chunks` and `available` are the two channels, `mem` the
contents of the staging buffers. The caller's source is external: it yields
any number of bytes per call, may be short, exact or long, may fail or make no
progress, may attach `io.EOF` to its last bytes, or may hand out a byte only
after the previous one was sent. The transport is external too and follows
net/http's HTTP/1 body writer: copy the declared length, ask once more for
EOF, close; it may close at any time. `wired` is what the wire-progress
callback was told: `Read` reports the bytes after it has copied them and while
it still counts as active, so that the release Push waits for comes after the
callback.

**`Push`.** A body is `active` until its release, and a released body leaves
the source anywhere between the last byte sent and the last byte declared,
which is exactly what `UploadBody` allows (`ReleasedMeansQuiet`,
`ValidMeansExact`). `supply` is how many of the declared bytes the source has, so
that it may end or fail in any chunk; the three seeks (a chunk's position,
the replay, the rewind) may fail as well. The registry keeps the bytes of each
session and may drop a chunk, answer early, answer anything, or lose the
answer. It is trusted in two respects: a 201 after the complete body, or after
the final empty PUT, means the blob is stored; and the `Range` of an accepted
chunk (`resp.ack`) is what the session really holds.

**`Errors`, `Requests`.** A chain is the sequence of its nodes in the order
`errors.Is` visits them, so wrapping and joining are concatenation, and which
of two statuses `errors.As` finds is visible. A request is `idle`, in its
`loop`, on the `wire`, in its `sleep` or `done`; `loop` tells `doRetry`, the
loop of `parallelProbe` and a request sent once apart, whose failures are
classified differently. A hop has a method and an origin; `Redirected` is
net/http's choice of the next method followed by `checkRedirect`. Delays are
integers of `Width` bits, `Shifted` is Go's `<<` on them, and `wait` is the
ceiling of the jittered delay. `last` records what really ended the last try;
the properties compare what the caller is told with it.

**`Calls`.** `pc` is where the operation stands: its first request, the plain
GET a refused probe falls back to, Mount's cleanup, returned, or an open
reader that is read, resumes, is over or closed. `attempts` is the count an
opened stream has spent (`resumeReader.attempts`), `reader` the body it holds
and `pullCtx` the derived context that the probe's body carries with it. The
hash of the verifying reader is the number of the blob's bytes it took in, or
`Broken`. Beneath it a reader may return any bytes, with or without an error, and
a connection may end with an error that wraps `io.EOF`. Bytes that come with
the break of a stream enter the hash at the break, although `Read` returns
them only after the resumption: nobody looks at the hash in between. The registry has the
blob or not (`held`), and other clients change that at any time; `seen` is
what was so since the call began. It is trusted in these respects: a HEAD is
answered 200 or, by the registry itself, 404, only if that is so when it answers; a
201 to the mount POST means that the blob is there; a 204 or 404 to a DELETE
that the session is gone. A lost answer may have been preceded by its effect.
A session opened by a POST whose answer was lost is known to nobody, and no
property speaks of it.

## 3. Runs

| Run | Bounds | Shows |
|---|---|---|
| `parallel_order` | probe chunk of 1 byte, chunks of 2 and 1, 2 workers, 2 attempts, 2 parts, 1 buffer lent to another pull | `SlotAccounting`, `BodiesAndBuffersBounded`, `BuffersHaveOneOwner`, `AwaitedChunkIsComing`, `ImplementsStream` |
| `parallel_live` | 3 chunks of 1 byte, 2 workers and slots, 2 attempts, of which the probe took 1; no other pull | `CloseReleasesEverything`, `CancelStopsWorkers`, `ReaderFinishes` |
| `parallel_eof` | 3 chunks of 1 byte, no retry | violates `EOFOnlyAtEnd` |
| `parallel_budget` | one chunk in 2 parts, 3 attempts | violates `RetriesWithinBudget` |
| `range_window` | window 4, blob 2, 4 or 5, at most 3 parts | `TypeOK`, `EOFMeansWindow`, `ImplementsReads`, `ReadReturns`, `CloseReleasesBodies` |
| `range_close` | window 2 | violates `NeverNilReader` |
| `resume` | blob 3, budget 3, of which the opening took 1 or 2 | `EOFMeansComplete`, `OneBudget`, `ImplementsReads`, `ReadReturns`, `CloseReleasesBodies` |
| `upload_source` | 3 bytes, 2 buffers of 2, every kind of source | `SentInOrder`, `BuffersHaveOneHolder`, `ReleasedMeansQuiet`, `WireIsSettled`, `ValidMeansExact`, `CloseReleases`, `DemandIsServed` |
| `upload_eof` | a source with EOF on its last byte | violates `WriteEndsInRelease` |
| `push` | blob of 0 or 3 bytes, one PUT, or chunks of 2, or of 3 by the registry's minimum; 2 attempts, 1 redirect per request | `SessionsHoldPrefixes`, `OKMeansStored`, `ProgressIsBacked`, `NoSessionForgotten`, `ReaderGivenBack`, `SourceErrorIsTrueAndFinal`, `SeekNeedsOwnership`, `PushReturns` |
| `calls` | every operation, 2 bytes, 4 attempts, 2 requests in a chain, delays 2 and 3 in 4 bits, `Retry-After` absent or 5 | `OneBudget`, `BackoffIsExponential`, `EOFMeansVerified`, `BodiesAccounted`, `AnswersAreTrue`, `ErrorsTellWhatHappened`, `CallReturns` |
| `calls_mismatch` | a pull of 2 bytes, 2 attempts | violates `MismatchMeansMismatch` |

`ImplementsStream` covers delivery order, honest and sticky ends and silence
after Close in one refinement, so `parallel_order` does not list them again.
`ImplementsReads` likewise contains the order of delivery, which
`WindowInOrder` and `DeliveredInOrder` state by themselves for the proofs.

**Why the bounds are enough.** Three chunks with two workers give an
out-of-order completion, a chunk waiting for a slot, and a pending chunk when
Close comes; the probe chunk and later ones take different paths and both
occur. Two parts of a two-byte chunk reach continuation, the cap on parts, and
a retry in the middle. Two slots for three chunks make the dispatcher wait for
Read, and with two workers the later chunk may take the last slot and finish
first, so that it is pending when Close or cancellation comes; safety and
liveness are both checked with it. A window
of four bytes in up to three parts has a first, a middle and a last part, a
part that ends early, and the cap (a fourth part is refused). Three source
bytes in buffers of two give a full and a partial batch and reuse of both
buffers. Two attempts give a restart after every kind of failure, and a blob
of three bytes in chunks of two a full and a short last chunk; the empty blob
takes the paths without a body. `MaxRangeParts` (16 in the code),
`BufferCount` (4), `MaxEmptyReads` (100) and `MaxHops` (10, net/http) are
parameters whose small values reach the same branches. `Shared` bounds the
buffers other pulls hold.

In `calls`, four attempts make the third wait the first one whose shift
overflows (2 << 2 in four bits), and leave a fallback after a probe of up to
three tries and a resume after either. `BackoffIsExponential` carries the
premise `InitialDelay * MaxDelay < 2^(Width - 1)`, under which every overflow
of the shift is seen by the code's guard; the default policy satisfies it
(250 ms and 30 s are 2.5e8 and 3e10 in a 64-bit duration). `SentBound` caps the
history of requests sent two above the budget, more than any property allows.

**Symmetry.** Workers are permuted in `parallel_order`; the code does not tell
them apart. No liveness run uses symmetry.

**Deadlock** is checked for `ParallelPull` and `ResumeReader`. It is off where
the system ends: `Push` returns, an upload body stays released, a call
returns or its reader is closed, and the range reader can reach the panic
described below.

**Fairness.** Goroutines keep running (Go's scheduler), and the transport
answers or fails every request and every read: weak fairness of the
dispatcher, each worker, the drainer, a `Read` or `Close` that was called, the
pump, the steps of `Push`, and in `Calls` the retry loop, the network and the
resumption of a broken stream (`WF_vars(Step)`). Nothing obliges the caller to call `Read` or
`Close`, to cancel, or other pulls to run. `CloseReleases` excludes a
source that blocks until it is served: `push.go:32-36` leaves unblocking it to
the caller.

`ParallelPull` asks less of the transport: a worker that reads a body may block
for good as long as the body is open, so its weak fairness is that of
`Unblocked(w) /\ WorkerStep(w)`. Then `CloseReleasesEverything` holds because
Close closes the bodies, whatever the end of the context does to a read.
`CancelStopsWorkers` has the premise `ContextEndsReads`, no read goes on for
good after the context ended, which net/http keeps; `ReaderFinishes` has
`ReadsEnd`, every read ends, and `CallsGoOn`, the caller keeps reading. Their
conclusions are written `[]<>(condition => state)`: condition and state last once they
hold, so this says that the one leads to the other.

`PushReturns` takes a request body to be released once its request is over. That is
`CloseReleases` of `UploadBody`; the transport's wait of finding 4 is outside it.

## 4. Findings

1. `parallel.go:737`: when the context ends, the workers exit and close
   `p.results`; a `Read` waiting in its select may take the closed channel and
   report `io.EOF` for a truncated blob, which the verifying reader reports as a
   digest mismatch (`parallel_eof`). `BlobStream` has the parameter `LaxEOF`
   for this; with `LaxEOF <- TRUE` the refinement holds.
2. `parallel.go:474`: the retry budget is granted to every part of a chunk,
   against `docs/docs/explanation/design.md:195` (`parallel_budget`).
3. `pull.go:341`: `readCurrent` reads from a nil reader when `Close` comes
   between `advance` and `readCurrent`, against `pull.go:366-367`
   (`range_close`).
4. `upload_body.go:128`: if the source returns `io.EOF` together with its last
   byte, the pump exits and the next `Read` of the transport waits until the
   context ends, although no call to the source is in flight
   (`upload_eof`). That next read is net/http's, for HTTP/1 requests with a
   Content-Length; it is modelled from that library's behaviour and not from
   code under `src/`.
5. `verify.go:40`: every error that wraps `io.EOF` is reported as
   `ErrDigestMismatch`. A server that drops the connection before it answers
   makes a request fail with `io.EOF`; a resume that spends the budget on it
   reports a network failure as a corrupt blob and loses its cause
   (`calls_mismatch`), against `errors.go:22-24` and `resume.go:125-126`.

Observations that no run stands for, met while reading the error paths:

* `docs/docs/reference/embedding.md:27-31` describes `Retryable` as the way to
  decide whether to try again; transport errors of `parallelProbe`, of chunk
  fetches, of `PullRange`'s discard and of an exhausted resume are never marked
  retryable. `ErrorsTellWhatHappened` therefore claims the mark only for
  `doRetry`.
* `resume.go` (`validateResumeResponse`) puts the cause of the break before the
  status that ended the resume; `errors.As` finds the earlier 503 first, so a
  terminal 4xx is reported as retryable.
* `retry.go:75`: a zero `InitialDelay` selects `MaxDelay`, and with
  `InitialDelay * MaxDelay >= 2^63` a shift may overflow to a small positive
  wait that the guard does not see.
* `exists.go:49` reports false for a 404 of a storage origin, which elsewhere
  is not `ErrNotFound`; `AnswersAreTrue` is stated for the registry's own 404.
* A declined mount whose `Location` is invalid returns an error and leaves the
  session; the cleanup's own time limit surfaces as a context error of a
  context that did not end.

## 5. Proofs

Each `*Proofs` module extends the module it is about and proves its theorems
for all values of the constants that the named assumptions of that module
allow. The plan of every proof is the same: an inductive invariant, a lemma
for `Init`, a lemma or a case per action, and a short temporal step.

**`ParallelPullProofs`** proves, for every blob length, chunk size, number of
workers and retry budget:

* `HoldingInvariant`: the inductive invariant `HoldInv`;
* `SlotsAccounted`: `SlotAccounting`, one token per chunk in flight and never
  more than the worker count;
* `ErrorIsSticky` and `CloseStopsDelivery`: `FirstErrorWins` and
  `NoDeliveryAfterClose`.

`SlotAccounting` alone is not inductive: that a release gives back exactly one
token needs that the chunk released is really held, and that nobody else will
release it. `HoldInv` says so for each party: the chunk the dispatcher
reserved is `reserved` and all later ones are untouched (`DispatchOwns`), a
busy worker's chunk is in place `worker` and no two workers have the same
(`WorkersOwn`), `p.results` holds no chunk twice (`ResultsOwn`), and Read's
local result and current chunk are where they should be (`ReaderOwns`). The
proof has one lemma per goroutine with one case per action; three lemmas say
what moving, releasing and reserving do to the cardinality. That the count
stays within `WorkerCount` then follows from the guard of `SlotFree`.
`FirstErrorWins` follows from the list of steps that write `p.err`
(`ErrorWriters`); `NoDeliveryAfterClose` additionally needs that a closed
puller has an error (`ClosedHasError`), because Read looks at the error and
not at `closed`.

**`ParallelPullBufferProofs`** adds, whatever other pulls of the client do with
the pool they share:

* `OneOwnerPerBuffer`: `BuffersHaveOneOwner`;
* `BodiesAndBuffersFit`: `BodiesAndBuffersBounded`.

Ownership is not inductive by itself: a buffer that comes back to the pool
must not be there already, so `DataHeld` says that a chunk has a buffer only
between its task and its release, and `WorkersHaveBuffers` that a worker that
fetches has one, also after a broken probe, whose buffer went through the pool
and may have been exchanged for another. The bound is an injection
(`SlotPerBodyOrBuffer`): every open body belongs to a chunk that holds a slot and
is not completed, no two bodies to the same (`BodiesOwn`), and the completed
buffers to other chunks that hold one. The probe's body belongs to the first
chunk, which nobody has finished or fetches anew while that body is open
(`ProbeAhead`).

**`ParallelPullStreamProofs`** is about what Read delivers:

* `PullerIsAStream`: `ImplementsStream`, the refinement of `BlobStream` (with
  `LaxEOF`, see finding 1), and with it the bytes in order for every blob,
  chunk size and completion order;
* `AwaitedChunkComes`: `AwaitedChunkIsComing`, the safety half of the
  deadlock argument: as long as nothing failed, the chunk Read waits for is on
  its way, or the dispatcher has not reserved it and no slot is taken.

The proof first shows that the chunks cut the blob without gap or overlap
(`ChunkSizes`, from the rounded-up division), then that a finished chunk's
buffer is exactly its interval (`ContentInv`): ownership is what makes this
stable, since a worker or another pull writes only into a buffer it owns.
`PlaceInv` follows a chunk through its places and says why the dispatcher and
the workers stopped; `CallInv` carries what one call of Read knows across the
points where the mutex is free and Close may come; `Position` ties the bytes
returned to the current chunk, or to the chunk waited for. `AliveInv` says that, while
nothing failed, exactly the chunks before the one waited for are released, and
`EndInv` draws from both that an empty closed `p.results` means the end of the
blob, unless the context ended or Close came.

**`RangeReaderProofs`**: `RangeTypes` (`TypeOK`, with it the cap on parts),
`RangeInOrder` (`WindowInOrder`), `RangeEOFIsHonest` (`EOFMeansWindow`) and
`RangeImplementsReads` (the refinement of `BlobReader`), for every window, blob
and cap. `EOFMeansWindow` compares what was delivered with
the end of the window, while the code decides on `remaining`, `next` and
`total`. `Position` ties these together: a partial response ends where the
next request starts (`next = at + remaining`), a 200 with the window.
`FollowUp` carries what `advance` saw under the lock over the request made
without it. The refinement needs in addition that what is checked after a
response was read are bytes or an error (`Filled`).

**`ResumeReaderProofs`**: `ResumeInOrder` (`DeliveredInOrder`),
`ResumeEOFIsHonest` (`EOFMeansComplete`), `ResumeWithinBudget` (`OneBudget`)
and `ResumeImplementsReads` (the refinement of `BlobReader`).
Read consumes the body outside the mutex and records the bytes later:
`Position` says that the body is ahead of `offset` by exactly those bytes, and
`Replacement` that a new body starts at the offset. `Framing` says that only
a body ending with the blob can end without a known size. `Paid` is the
budget: an attempt is counted before its request is sent.

**`UploadBodyProofs`**: `UploadReleasedIsQuiet` (`ReleasedMeansQuiet`),
`UploadValidIsExact` (`ValidMeansExact`), `UploadWireIsSettled`
(`WireIsSettled`), `UploadBuffersHaveOneHolder` (`BuffersHaveOneHolder`) and
`UploadSendsInOrder` (`SentInOrder`). The first needs `QuietInv`: the
flags under `stateMu` agree with where pump and Read are, and a pump starts
only inside a Read, whose `readActive` keeps the body unreleased until the
pump is recorded. The second needs `ExactInv`: bytes taken and bytes remaining
always make the declared size, and `eofOK` comes only with the last byte. The
third needs `WireInv`, only a Read about to report has bytes sent and not yet
reported, and from `QuietInv` that such a Read is active. `HolderInv` names the holders of
a staging buffer one by one (`HeldOnce`) and says when the pump has one
(`PumpHolds`). On it rests the order: until Close is called, Read's batch, the
queue and the pump's batch are consecutive runs of the source, from what was
sent to where the source stands (`Sequential`). Close drains the queue, so
afterwards only what was sent is spoken of; a Read that began before Close may
still find a batch, and then it is the next one.

**`PushProofs`**: every property the `push` run checks except `PushReturns`,
for every size, chunk size, and bound on attempts and redirects. The invariant
`PushInv` says who moves the reader (`Ownership`), when a source error is
pending (`Blame`), which session belongs to which attempt (`Sessions`), that
the reader, the offset and the length of the session agree between bodies
(`Position`, `Contents`), and what an answer of the registry is worth
(`Answered`). An exact source is never blamed because no chunk reaches past the end of the
blob (`ReleaseIsFair`). `Contents` is what makes a retry safe: a session not opened yet
is empty and the current one holds exactly `offset` bytes, so a body sent from
the rewound reader continues it. `OKMeansStored` needs `Answered`, since the
answer is judged only after the body was released and its length validated.

**`CallsProofs`**: `CallsOneBudget` (`OneBudget`), `CallsEOFVerified`
(`EOFMeansVerified`), `CallsBodiesAccounted` (`BodiesAccounted`),
`CallsAnswersTrue` (`AnswersAreTrue`), `CallsErrorsTell`
(`ErrorsTellWhatHappened`) and `CallsBackoffExponential`
(`BackoffIsExponential`), for every policy, redirect limit and content size. The invariant `CallInv` says which request each phase has under
way (`Phases`, `Methods`), that the tries sent are covered by the attempts
recorded and the current one (`Budget`), that the hash took in what was
delivered (`Hashes`), and what an answer in hand is worth before the operation
looks at it (`Truths`). `Budget` is what makes a fallback safe: the attempts
spent before the request under way and its own budget make `MaxAttempts`.
`Truths` needs `Methods`, that a redirect never changes the method of a HEAD,
a POST or a DELETE. Three lemmas carry the proof: what a step of the request
may do (`RequestKeeps`), what it may say about the registry
(`RequestTruths`), and what steps of an open reader have in common
(`ReaderKeeps`).

`CallsErrorsTell` follows an error from the try that caused it to the caller
(`TellInv`): a request that is over has either the last response or an error
that already tells (`ResultTold`), and every operation passes it on with
wrapping that neither adds nor hides a class (`FailureTold`). A broken stream keeps
the network's error as the cause of its resumes (`CauseTold`).
`CallsBackoffExponential` needs that a wait belongs to the attempt that failed
(`WaitTold`) and arithmetic: `InitialDelay * 2^k` reduced to `Width` bits is 0
or at least `2^k`. If `2^k` exceeds `MaxDelay` the guard of the code catches the
shifted value whatever it is; if not, the premise of the property excludes an
overflow. The facts about powers of two
that this needs are usually shown by induction on the exponent, which the
installed provers cannot do; they are derived instead from `2^n` as the number
of subsets of a set of `n` elements, and `CeilingIsExponential` from them.

**Assumptions.** The proofs rest on the ASSUMEs of the modules: sizes and
budgets are natural numbers, positive where the code rejects or replaces
non-positive options; there are as many workers as `newParallelPuller` starts; the
probe's response body is not one that a worker opened (`BodiesAssumption`,
which only names the two kinds of body apart); and on the models of the
registry and the transport described in section 2.

**Only model-checked.** Liveness under fairness (`CloseReleasesEverything`,
`CancelStopsWorkers`, `ReaderFinishes`, `ReadReturns`, `CloseReleasesBodies`,
`CloseReleases`, `DemandIsServed`, `PushReturns`, `CallReturns`), which is
outside the prover's reach, and the absence of deadlock, which needs ENABLED. The
properties of section 4 are false and have counterexamples instead. Every
other property of a run is a theorem.

## 6. Not modelled

* `transport.go` `RoundTrip`: which headers go to which origin, and the
  comparison of origins. Requests have two origins and an invalid one.
* `wire.go` and `retry.go:94-113`: the text of `Location`, `Range`,
  `Content-Range` and `Retry-After` headers. The models take the verdict: an
  interval, an unsatisfied total, a usable location or wait, or a rejection.
* `progress.go` `progressReader`: it counts what the readers deliver. The
  upload's callbacks are in `Push` and `UploadBody`; the flag that stops the
  wire callbacks when Push returns is not, `WireIsSettled` shows instead that
  the release Push waits for comes after the last of them.
* A response body that returns (0, nil), in the single-stream readers.
* The delay inside `Retryable`'s error; `ErrUnauthorized` and `ErrTooLarge`,
  which follow the pattern of `ErrNotFound` for other codes.
* `repo.go` and `client.go`: validation and options, without state; option
  values are the constants of the modules.
* An empty source in `UploadBody`: the client gives an empty blob no upload
  body (`push.go:79-83` proves the source empty first, which `Push` models).
* The test campaign, mocks, performance and integration tests.

Bytes beyond an announced interval appear as `Junk` in `ResumeReader`; HTTP
framing, TLS and connection reuse do not appear.

## 7. Plan

Done, in this order: the parallel puller and the proofs about its slots; the
range reader; the resuming reader; the upload body; push with chunks; the first
proofs about these four; wire progress; errors, requests and the calls built on
them, with their proofs; the empty blob in `Push`; `BlobReader` and its
refinement by the single-stream readers; buffer ownership, the bound on
bodies and buffers and the refinement of `BlobStream` by the parallel puller;
order and ownership in the upload body; what errors tell, and the waits.

Next:

1. The contract `Push` assumes of a request body (how far a released body may
   have moved the reader, when its length counts as validated) as an abstract
   module, refined by `UploadBody` and used by `Push`.
2. The safety halves of the liveness properties: a closed puller whose
   goroutines are gone has given back every slot, buffer and body.
3. `parseRangeAck` and the comparison of origins as pure operators against
   reference definitions.
