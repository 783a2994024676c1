----------------------------- MODULE RangeReader -----------------------------
(***************************************************************************)
(* PullRange's stream (pull.go, rangeReader): one requested window served  *)
(* from one or several partial responses, or carved out of a 200 that      *)
(* ignored Range.  Read is serialized by readMu; Close and the caller's    *)
(* context may come between any two of its critical sections.              *)
(*                                                                         *)
(* Positions are counted from the requested offset: the window is the      *)
(* bytes 0 .. Window-1 and the blob ends after byte blob-1.  A follow-up   *)
(* request with its retries is one step of the transport (RetryLoop).      *)
(* Bodies keep to what io.Reader asks of them: they do not return (0, nil).*)
(***************************************************************************)
EXTENDS Integers, Sequences, FiniteSets

CONSTANTS
  Window,         \* requested length
  BlobSizes,      \* how far the blob may reach past the requested offset
  MaxRangeParts   \* maxRangeParts (16 in the code)

ASSUME WindowAssumption == Window \in Nat \ {0}
ASSUME BlobAssumption == BlobSizes \subseteq Nat \ {0}
ASSUME PartsAssumption == MaxRangeParts \in Nat \ {0}

VARIABLES
  blob,       \* size of the blob, chosen once
  ctxDone,    \* r.ctx is done
  closed,     \* r.closed
  body,       \* r.body: the number of its response, or NoBody
  reader,     \* r.reader, likewise
  remaining, next, total, parts,   \* the fields of those names
  at,         \* next byte the current response delivers
  open,       \* response bodies not closed yet
  rpc,        \* Read: control
  held,       \* body or response a step of Read holds in a local variable
  partEnd,    \* final byte the response in hand announced
  got, rerr,  \* what the body's Read answered
  ret, out,   \* error of the last Read; bytes delivered so far
  cpc, cbody  \* Close: control, the body it took

held_vars == <<held, partEnd, got, rerr>>
stream == <<remaining, next, total, parts, at>>
call == <<ret, out>>
clos == <<cpc, cbody>>
vars == <<blob, ctxDone, closed, body, reader, stream, open, rpc, held_vars,
          call, clos>>

NoBody == 0
Unknown == -1          \* total of a response that ignored Range
End == Window - 1
Smaller(a, b) == IF a < b THEN a ELSE b

Init ==
  /\ blob \in BlobSizes
  /\ ctxDone = FALSE /\ closed = FALSE
  /\ body = 1 /\ reader = 1 /\ open = {1} /\ at = 0
  /\ \/ \E e \in 0 .. Smaller(End, blob - 1) :    \* 206 for bytes 0 .. e
          /\ remaining = e + 1 /\ next = e + 1
          /\ total = blob /\ parts = 1
     \/ /\ remaining = Window /\ next = 0         \* 200: the whole blob
        /\ total = Unknown /\ parts = 0
  /\ rpc = "idle" /\ held = NoBody /\ partEnd = Unknown
  /\ got = 0 /\ rerr = "nil" /\ ret = "nil" /\ out = <<>>
  /\ cpc = "open" /\ cbody = NoBody

-----------------------------------------------------------------------------
(* Read.                                                                   *)

StateError == IF closed THEN "closed" ELSE IF ctxDone THEN "ctx" ELSE "nil"

Return(e) == rpc' = "idle" /\ ret' = e

ReadCalled ==
  /\ rpc = "idle"
  /\ rpc' = "advance"
  /\ UNCHANGED <<blob, ctxDone, closed, body, reader, stream, open, held_vars,
                 call, clos>>

\* A Read into an empty buffer only reports the state of the stream.
ReadNothing ==
  /\ rpc = "idle"
  /\ Return(StateError)
  /\ UNCHANGED <<blob, ctxDone, closed, body, reader, stream, open, held_vars,
                 out, clos>>

\* advance, first critical section: refuse, keep the response, or detach it.
AdvanceRefuses ==
  /\ rpc = "advance" /\ StateError # "nil"
  /\ Return(StateError)
  /\ UNCHANGED <<blob, ctxDone, closed, body, reader, stream, open, held_vars,
                 out, clos>>

\* Mutant: a response in use is kept without a look at the state.
AdvanceKeepsAnyway ==
  /\ rpc = "advance" /\ remaining > 0
  /\ rpc' = "capture"
  /\ UNCHANGED <<blob, ctxDone, closed, body, reader, stream, open, held_vars,
                 call, clos>>

AdvanceKeeps ==
  /\ rpc = "advance" /\ StateError = "nil" /\ remaining > 0
  /\ rpc' = "capture"
  /\ UNCHANGED <<blob, ctxDone, closed, body, reader, stream, open, held_vars,
                 call, clos>>

AdvanceDetaches ==
  /\ rpc = "advance" /\ StateError = "nil" /\ remaining = 0
  /\ held' = body /\ body' = NoBody /\ reader' = NoBody
  /\ rpc' = "drop"
  /\ UNCHANGED <<blob, ctxDone, closed, stream, open, partEnd, got, rerr, call,
                 clos>>

\* Mutant: follow-up requests are not counted against maxRangeParts.
DropUnbounded ==
  /\ rpc = "drop"
  /\ open' = open \ {held} /\ held' = NoBody
  /\ \/ (total = Unknown \/ next > End) /\ Return("eof")
     \/ total # Unknown /\ next <= End /\ next >= total /\ Return("short")
     \/ total # Unknown /\ next <= End /\ next < total /\ rpc' = "fetch" /\ UNCHANGED ret
  /\ UNCHANGED <<blob, ctxDone, closed, body, reader, stream, partEnd, got, rerr,
                 out, clos>>

\* Outside the lock: close the consumed response, then decide how to go on.
Drop ==
  /\ rpc = "drop"
  /\ open' = open \ {held} /\ held' = NoBody
  /\ \/ (total = Unknown \/ next > End) /\ Return("eof")
     \/ total # Unknown /\ next <= End /\ next >= total /\ Return("short")
     \/ /\ total # Unknown /\ next <= End /\ next < total
        /\ parts = MaxRangeParts /\ Return("split")
     \/ /\ total # Unknown /\ next <= End /\ next < total
        /\ parts # MaxRangeParts
        /\ rpc' = "fetch" /\ UNCHANGED ret
  /\ UNCHANGED <<blob, ctxDone, closed, body, reader, stream, partEnd, got, rerr,
                 out, clos>>

FetchFails ==
  /\ rpc = "fetch"
  /\ Return(IF StateError # "nil" THEN StateError ELSE "fetch")
  /\ UNCHANGED <<blob, ctxDone, closed, body, reader, stream, open, held_vars,
                 out, clos>>

\* The registry answers, ignoring Range, with another interval or with
\* another size: its body is closed at once.
FetchUnusable ==
  /\ rpc = "fetch" /\ ~ctxDone
  /\ Return("fetch")
  /\ UNCHANGED <<blob, ctxDone, closed, body, reader, stream, open, held_vars,
                 out, clos>>

\* A valid 206: it starts at the requested byte and may end early.
FetchAnswered ==
  /\ rpc = "fetch" /\ ~ctxDone
  /\ held' = parts + 1 /\ open' = open \cup {parts + 1}
  /\ partEnd' \in next .. Smaller(End, blob - 1)
  /\ at' = next
  /\ rpc' = "install"
  /\ UNCHANGED <<blob, ctxDone, closed, body, reader, remaining, next, total,
                 parts, got, rerr, call, clos>>

\* Mutant: the response that arrives after Close is dropped, not closed.
InstallLeaks ==
  /\ rpc = "install" /\ closed
  /\ held' = NoBody
  /\ Return("closed")
  /\ UNCHANGED <<blob, ctxDone, closed, body, reader, stream, open, partEnd, got,
                 rerr, out, clos>>

InstallRefused ==
  /\ rpc = "install" /\ closed
  /\ open' = open \ {held} /\ held' = NoBody
  /\ Return("closed")
  /\ UNCHANGED <<blob, ctxDone, closed, body, reader, stream, partEnd, got, rerr,
                 out, clos>>

Install ==
  /\ rpc = "install" /\ ~closed
  /\ body' = held /\ reader' = held /\ held' = NoBody
  /\ remaining' = partEnd - next + 1 /\ next' = partEnd + 1
  /\ parts' = parts + 1
  /\ rpc' = "capture"
  /\ UNCHANGED <<blob, ctxDone, closed, total, at, open, partEnd, got, rerr,
                 call, clos>>

\* readCurrent copies r.reader under the lock without looking at r.closed.
Capture ==
  /\ rpc = "capture"
  /\ held' = reader /\ rpc' = "read"
  /\ UNCHANGED <<blob, ctxDone, closed, body, reader, stream, open, partEnd, got,
                 rerr, call, clos>>

\* reader.Read on a nil io.Reader.
ReadPanics ==
  /\ rpc = "read" /\ held = NoBody
  /\ rpc' = "panicked"
  /\ UNCHANGED <<blob, ctxDone, closed, body, reader, stream, open, held_vars,
                 call, clos>>

\* A response may break off or end early at any byte.  Once its body is
\* closed only the buffered reader of a 200 can still hand out bytes.
BodyRead ==
  /\ rpc = "read" /\ held # NoBody
  /\ \E n \in 0 .. Smaller(remaining, blob - at), e \in {"nil", "eof", "read"} :
       /\ n > 0 => held \in open \/ total = Unknown
       /\ n = 0 => e # "nil"
       /\ got' = n /\ rerr' = e
       /\ out' = out \o [i \in 1 .. n |-> at + i - 1]
       /\ at' = at + n /\ remaining' = remaining - n
  /\ rpc' = "check"
  /\ UNCHANGED <<blob, ctxDone, closed, body, reader, next, total, parts, open,
                 held, partEnd, ret, clos>>

\* Mutant: an early io.EOF of a response passes for the end of the window.
CheckTrustsEOF ==
  /\ rpc = "check"
  /\ Return(IF StateError # "nil" THEN StateError ELSE rerr)
  /\ held' = NoBody
  /\ UNCHANGED <<blob, ctxDone, closed, body, reader, stream, open, partEnd, got,
                 rerr, out, clos>>

\* Mutant: the loop asks the same response again instead of reporting
\* that it ended early.
CheckRetries ==
  /\ rpc = "check"
  /\ IF StateError = "nil" /\ rerr = "eof" /\ remaining > 0
       THEN rpc' = "advance" /\ UNCHANGED ret
       ELSE Return(IF StateError # "nil" THEN StateError
                   ELSE IF rerr = "read" THEN rerr ELSE "nil")
  /\ held' = NoBody
  /\ UNCHANGED <<blob, ctxDone, closed, body, reader, stream, open, partEnd, got,
                 rerr, out, clos>>

Check ==
  /\ rpc = "check"
  /\ held' = NoBody
  /\ IF StateError # "nil" THEN Return(StateError)
     ELSE IF rerr = "read" THEN Return("read")
     ELSE IF rerr = "eof" /\ remaining > 0 THEN Return("short")
     ELSE IF got = 0 /\ remaining = 0 THEN rpc' = "advance" /\ UNCHANGED ret
     ELSE Return("nil")
  /\ UNCHANGED <<blob, ctxDone, closed, body, reader, stream, open, partEnd, got,
                 rerr, out, clos>>

ReadStep ==
  \/ AdvanceRefuses \/ AdvanceKeeps \/ AdvanceDetaches \/ Drop
  \/ FetchFails \/ FetchUnusable \/ FetchAnswered
  \/ InstallRefused \/ Install
  \/ Capture \/ ReadPanics \/ BodyRead \/ Check

-----------------------------------------------------------------------------
(* Close, and the caller's context.                                        *)

CloseLocks ==
  /\ cpc = "open"
  /\ closed' = TRUE /\ cpc' = "finish"
  /\ cbody' = body /\ body' = NoBody /\ reader' = NoBody
  /\ UNCHANGED <<blob, ctxDone, stream, open, rpc, held_vars, call>>

CloseFinishes ==
  /\ cpc = "finish"
  /\ ctxDone' = TRUE /\ open' = open \ {cbody} /\ cpc' = "done"
  /\ UNCHANGED <<blob, closed, body, reader, stream, rpc, held_vars, call, cbody>>

CallerCancels ==
  /\ ~ctxDone
  /\ ctxDone' = TRUE
  /\ UNCHANGED <<blob, closed, body, reader, stream, open, rpc, held_vars, call,
                 clos>>

Next ==
  \/ ReadCalled \/ ReadNothing \/ ReadStep
  \/ CloseLocks \/ CloseFinishes \/ CallerCancels

Spec == Init /\ [][Next]_vars

\* The transport answers or fails every request and every body read, and a
\* goroutine inside Read or Close keeps running.
FairSpec == Spec /\ WF_vars(ReadStep) /\ WF_vars(CloseFinishes)

-----------------------------------------------------------------------------
TypeOK ==
  /\ blob \in BlobSizes
  /\ ctxDone \in BOOLEAN /\ closed \in BOOLEAN
  /\ body \in 0 .. MaxRangeParts /\ reader = body
  /\ remaining \in 0 .. Window /\ next \in 0 .. Window
  /\ total \in {Unknown, blob} /\ parts \in 0 .. MaxRangeParts
  /\ at \in 0 .. blob /\ open \subseteq 1 .. MaxRangeParts
  /\ rpc \in {"idle", "advance", "drop", "fetch", "install", "capture", "read",
              "check", "panicked"}
  /\ held \in 0 .. MaxRangeParts /\ partEnd \in Unknown .. End
  /\ got \in 0 .. Window /\ rerr \in {"nil", "eof", "read"}
  /\ ret \in {"nil", "eof", "short", "split", "fetch", "read", "closed", "ctx"}
  /\ out \in Seq(0 .. End)
  /\ cpc \in {"open", "finish", "done"} /\ cbody \in 0 .. MaxRangeParts

\* What Read has handed over, across responses, early ends, follow-ups and
\* Close, is a gapless prefix of the window (pull.go:331-364, 457-473).
WindowInOrder ==
  Len(out) <= Window /\ \A i \in 1 .. Len(out) : out[i] = i - 1

\* A caller that sees io.EOF has the whole window (pull.go:347-363, 405-424):
\* a response or a blob that ends early is an error instead.
EOFMeansWindow == ret = "eof" => Len(out) = Window

\* Read returns whatever the registry, Close and the context do; a Read that
\* panicked has ended too (see NeverNilReader).
ReadReturns == rpc # "idle" ~> rpc \in {"idle", "panicked"}

\* Once Close is called every response body ends up closed (pull.go:368-385).
CloseReleasesBodies == closed ~> open = {}

\* Close "is safe to call concurrently with Read" (pull.go:366-367): Read never
\* reads from the nil reader Close leaves behind.
NeverNilReader == rpc # "panicked"

\* What a Read under way has done so far: nothing before advance looked at the
\* state, and delivered what the response read for it.
Phase ==
  IF rpc \in {"idle", "advance"} THEN "idle"
  ELSE IF rpc = "check" /\ got > 0 THEN "delivered" ELSE "reading"

\* However the window is split, a Read is one Read of one window: none begins
\* on a closed or ended stream, it delivers one batch, never returns nothing
\* without an error, and reports Close, the context and the end only when they
\* came (pull.go:309-364, 389-424).
Reads == INSTANCE BlobReader WITH
  Total <- Window, Faults <- {"short", "split", "fetch", "read"}, phase <- Phase
ImplementsReads == Reads!Spec
=============================================================================
