---------------------------- MODULE ResumeReader ----------------------------
(***************************************************************************)
(* The single-stream download (resume.go): a body that breaks is replaced  *)
(* by a ranged request from the last delivered byte, by a replayed 200, or *)
(* by a 416 that proves the blob complete, all within one request budget.  *)
(* Read is serialized by readMu; Close and the caller's context may come   *)
(* between any two of its critical sections.                               *)
(*                                                                         *)
(* The blob is the bytes 0 .. Blob-1.  What a 206 carries past the         *)
(* interval it announced is Junk.  Bodies keep to what io.Reader asks of   *)
(* them: they do not return (0, nil).                                      *)
(***************************************************************************)
EXTENDS Integers, Sequences, FiniteSets

CONSTANTS
  Blob,            \* length of the blob
  MaxAttempts,     \* RetryPolicy.attempts()
  FirstAttempts    \* requests the opening GET may have cost (requestAttempts)

ASSUME BlobAssumption == Blob \in Nat
ASSUME BudgetAssumption ==
  /\ MaxAttempts \in Nat \ {0}
  /\ FirstAttempts \subseteq 1 .. MaxAttempts /\ FirstAttempts # {}

VARIABLES
  ctxDone, closed,      \* r.ctx is done; r.closed
  body,                 \* r.body: the number of its request, or NoBody
  offset, attempts, bodyEnd, total,   \* the fields of those names
  at,                   \* position of the current body in the blob
  open,                 \* response bodies not closed yet
  rpc,                  \* Read: control
  held,                 \* body a step of Read holds in a local variable
  got, rerr,            \* what body.Read answered
  repl,                 \* resumeResponse: bounds and position of a replacement
  ret, out,             \* error of the last Read; bytes delivered
  sent,                 \* requests that reached the transport
  cpc, cbody            \* Close: control, the body it took

fields == <<offset, attempts, bodyEnd, total>>
read == <<got, rerr>>
call == <<ret, out>>
clos == <<cpc, cbody>>
vars == <<ctxDone, closed, body, fields, at, open, rpc, held, read, repl, call,
          sent, clos>>

NoBody == 0
Unknown == -1
Junk == Blob
Empty == [end |-> Unknown, total |-> Unknown, at |-> 0]

\* newResumeReader
Init ==
  /\ attempts \in FirstAttempts /\ sent = attempts
  /\ ctxDone = FALSE /\ closed = FALSE
  /\ body = attempts /\ open = {attempts} /\ held = NoBody
  /\ offset = 0 /\ bodyEnd = Unknown /\ total = Unknown /\ at = 0
  /\ rpc = "idle" /\ got = <<>> /\ rerr = "nil" /\ repl = Empty
  /\ ret = "nil" /\ out = <<>> /\ cpc = "open" /\ cbody = NoBody

StateError == IF closed THEN "closed" ELSE IF ctxDone THEN "ctx" ELSE "nil"
Return(e) == rpc' = "idle" /\ ret' = e

-----------------------------------------------------------------------------
(* Read.                                                                   *)

ReadCalled ==
  /\ rpc = "idle" /\ rpc' = "loop"
  /\ UNCHANGED <<ctxDone, closed, body, fields, at, open, held, read, repl, call,
                 sent, clos>>

\* A Read into an empty buffer only reports the state of the stream.
ReadNothing ==
  /\ rpc = "idle" /\ Return(StateError)
  /\ UNCHANGED <<ctxDone, closed, body, fields, at, open, held, read, repl, out,
                 sent, clos>>

ReadableBody ==
  /\ rpc = "loop"
  /\ IF StateError # "nil" THEN Return(StateError) /\ UNCHANGED held
     ELSE rpc' = "read" /\ held' = body /\ UNCHANGED ret
  /\ UNCHANGED <<ctxDone, closed, body, fields, at, open, read, repl, out, sent,
                 clos>>

\* boundedReadCloser: where the current body stops being readable.
Cap == IF bodyEnd = Unknown THEN Blob ELSE bodyEnd

Byte(p) == IF bodyEnd # Unknown /\ p >= bodyEnd THEN Junk ELSE p

\* A body may break anywhere.  It may end anywhere too, except that the
\* framing of a body with no announced interval is trusted.
BodyRead ==
  /\ rpc = "read"
  /\ \E n \in 0 .. Cap - at, e \in {"nil", "eof", "broken"} :
       /\ n > 0 => held \in open
       /\ n = 0 => e # "nil"
       /\ e = "eof" /\ bodyEnd = Unknown => at + n = Blob
       /\ e = "broken" => n > 0 \/ at < Cap \/ bodyEnd = Unknown
       /\ got' = [i \in 1 .. n |-> Byte(at + i - 1)] /\ rerr' = e /\ at' = at + n
  /\ rpc' = "record"
  /\ UNCHANGED <<ctxDone, closed, body, fields, open, held, repl, call, sent,
                 clos>>

\* Mutant: any io.EOF is taken for the end of the blob.
ClassifyTrustsEOF(here) ==
  IF StateError # "nil" THEN Return(StateError)
  ELSE IF rerr \in {"nil", "eof"} THEN Return(rerr)
  ELSE rpc' = "reserve" /\ UNCHANGED ret

\* Mutant: a broken body is read again instead of being replaced.
ClassifyRereads(here) ==
  IF StateError # "nil" THEN Return(StateError)
  ELSE IF rerr = "nil" THEN Return("nil")
  ELSE IF total # Unknown /\ here >= total THEN Return("eof")
  ELSE IF rerr = "eof" /\ total = Unknown THEN Return("eof")
  ELSE rpc' = "loop" /\ UNCHANGED ret

\* recordRead and classifyResumeReadError.
Classify(here) ==
  IF StateError # "nil" THEN Return(StateError)
  ELSE IF rerr = "nil" THEN Return("nil")
  ELSE IF total # Unknown /\ here >= total THEN Return("eof")
  ELSE IF rerr = "eof" /\ total = Unknown THEN Return("eof")
  ELSE rpc' = "reserve" /\ UNCHANGED ret

Record ==
  /\ rpc = "record"
  /\ offset' = offset + Len(got) /\ out' = out \o got /\ held' = NoBody
  /\ Classify(offset')
  /\ UNCHANGED <<ctxDone, closed, body, attempts, bodyEnd, total, at, open, read,
                 repl, sent, clos>>

-----------------------------------------------------------------------------
(* reestablish.                                                            *)

\* Mutant: the budget allows one request too many.
ReserveOneMore ==
  /\ rpc = "reserve"
  /\ IF StateError # "nil" THEN Return(StateError) /\ UNCHANGED attempts
     ELSE IF attempts > MaxAttempts THEN Return("exhausted") /\ UNCHANGED attempts
     ELSE rpc' = "sleep" /\ attempts' = attempts + 1 /\ UNCHANGED ret
  /\ UNCHANGED <<ctxDone, closed, body, offset, bodyEnd, total, at, open, held,
                 read, repl, out, sent, clos>>

Reserve ==
  /\ rpc = "reserve"
  /\ IF StateError # "nil" THEN Return(StateError) /\ UNCHANGED attempts
     ELSE IF attempts >= MaxAttempts THEN Return("exhausted") /\ UNCHANGED attempts
     ELSE rpc' = "sleep" /\ attempts' = attempts + 1 /\ UNCHANGED ret
  /\ UNCHANGED <<ctxDone, closed, body, offset, bodyEnd, total, at, open, held,
                 read, repl, out, sent, clos>>

SleepCanceled ==
  /\ rpc = "sleep" /\ ctxDone
  /\ Return(StateError)
  /\ UNCHANGED <<ctxDone, closed, body, fields, at, open, held, read, repl, out,
                 sent, clos>>

SleepEnds ==
  /\ rpc = "sleep" /\ rpc' = "request"
  /\ sent' = sent + 1
  /\ UNCHANGED <<ctxDone, closed, body, fields, at, open, held, read, repl, call,
                 clos>>

\* A transport error or a retryable status: another attempt, unless the
\* stream was closed or cancelled meanwhile.
RequestFails ==
  /\ rpc = "request"
  /\ \/ StateError = "nil" /\ rpc' = "reserve" /\ UNCHANGED ret
     \/ StateError # "nil" /\ Return(StateError)
  /\ UNCHANGED <<ctxDone, closed, body, fields, at, open, held, read, repl, out,
                 sent, clos>>

RetryableStatus ==
  /\ rpc = "request" /\ ~ctxDone
  /\ rpc' = "reserve"
  /\ UNCHANGED <<ctxDone, closed, body, fields, at, open, held, read, repl, call,
                 sent, clos>>

\* A permanent failure, another status, an interval that does not start at
\* the offset, another size, or a 416 that does not match: the body of the
\* response is closed.
RequestRejected ==
  /\ rpc = "request" /\ ~ctxDone
  /\ Return("fetch")
  /\ UNCHANGED <<ctxDone, closed, body, fields, at, open, held, read, repl, out,
                 sent, clos>>

Received(r, pc) ==
  /\ held' = attempts /\ open' = open \cup {attempts} /\ repl' = r /\ rpc' = pc

PartialContent ==
  /\ rpc = "request" /\ ~ctxDone
  /\ \E e \in offset .. Blob - 1 :
       Received([end |-> e + 1, total |-> Blob, at |-> offset], "replace")
  /\ UNCHANGED <<ctxDone, closed, body, fields, at, read, call, sent, clos>>

\* 416 with the delivered length as the total: http.NoBody takes over.
RangeNotSatisfiable ==
  /\ rpc = "request" /\ ~ctxDone /\ offset = Blob
  /\ held' = NoBody /\ rpc' = "replace"
  /\ repl' = [end |-> Blob, total |-> Blob, at |-> Blob]
  /\ UNCHANGED <<ctxDone, closed, body, fields, at, open, read, call, sent, clos>>

\* 200: the registry ignored Range and replays the whole blob.
Replayed ==
  /\ rpc = "request" /\ ~ctxDone
  /\ Received([end |-> total, total |-> total, at |-> 0], "discard")
  /\ UNCHANGED <<ctxDone, closed, body, fields, at, read, call, sent, clos>>

\* Mutant: the replayed prefix is not skipped.
DiscardNothing ==
  /\ rpc = "discard" /\ StateError = "nil"
  /\ rpc' = "replace" /\ UNCHANGED repl
  /\ UNCHANGED <<ctxDone, closed, body, fields, at, open, held, read, call, sent,
                 clos>>

DiscardPrefix ==
  /\ rpc = "discard" /\ StateError = "nil"
  /\ rpc' = "replace" /\ repl' = [repl EXCEPT !.at = offset]
  /\ UNCHANGED <<ctxDone, closed, body, fields, at, open, held, read, call, sent,
                 clos>>

\* The replay breaks inside the prefix, or Close or the context came first.
DiscardFails ==
  /\ rpc = "discard"
  /\ open' = open \ {held} /\ held' = NoBody
  /\ Return(IF StateError # "nil" THEN StateError ELSE "fetch")
  /\ UNCHANGED <<ctxDone, closed, body, fields, at, read, repl, out, sent, clos>>

\* Mutant: a replacement that lost the race with Close is dropped, not closed.
ReplaceLeaks ==
  /\ rpc = "replace" /\ StateError # "nil"
  /\ held' = NoBody /\ Return(StateError)
  /\ UNCHANGED <<ctxDone, closed, body, fields, at, open, read, repl, out, sent,
                 clos>>

ReplaceRefused ==
  /\ rpc = "replace" /\ StateError # "nil"
  /\ open' = open \ {held} /\ held' = NoBody /\ Return(StateError)
  /\ UNCHANGED <<ctxDone, closed, body, fields, at, read, repl, out, sent, clos>>

Replace ==
  /\ rpc = "replace" /\ StateError = "nil"
  /\ body' = held /\ held' = body
  /\ bodyEnd' = repl.end /\ at' = repl.at
  /\ total' = IF repl.total # Unknown THEN repl.total ELSE total
  /\ rpc' = "retire"
  /\ UNCHANGED <<ctxDone, closed, offset, attempts, open, read, repl, call, sent,
                 clos>>

\* oldBody.Close, after the lock; bytes read before the break return now.
Retire ==
  /\ rpc = "retire"
  /\ open' = open \ {held} /\ held' = NoBody
  /\ IF got # <<>> THEN Return("nil") ELSE rpc' = "loop" /\ UNCHANGED ret
  /\ UNCHANGED <<ctxDone, closed, body, fields, at, read, repl, out, sent, clos>>

ReadStep ==
  \/ ReadableBody \/ BodyRead \/ Record \/ Reserve \/ SleepCanceled \/ SleepEnds
  \/ RequestFails \/ RetryableStatus \/ RequestRejected \/ PartialContent
  \/ RangeNotSatisfiable \/ Replayed \/ DiscardPrefix \/ DiscardFails
  \/ ReplaceRefused \/ Replace \/ Retire

-----------------------------------------------------------------------------
(* Close, and the caller's context.                                        *)

CloseLocks ==
  /\ cpc = "open"
  /\ closed' = TRUE /\ cpc' = "finish" /\ cbody' = body /\ body' = NoBody
  /\ UNCHANGED <<ctxDone, fields, at, open, rpc, held, read, repl, call, sent>>

CloseFinishes ==
  /\ cpc = "finish"
  /\ ctxDone' = TRUE /\ open' = open \ {cbody} /\ cpc' = "done"
  /\ UNCHANGED <<closed, body, fields, at, rpc, held, read, repl, call, sent,
                 cbody>>

CallerCancels ==
  /\ ~ctxDone /\ ctxDone' = TRUE
  /\ UNCHANGED <<closed, body, fields, at, open, rpc, held, read, repl, call,
                 sent, clos>>

Next ==
  \/ ReadCalled \/ ReadNothing \/ ReadStep
  \/ CloseLocks \/ CloseFinishes \/ CallerCancels

Spec == Init /\ [][Next]_vars

\* The transport answers or fails every request and every body read, timers
\* fire, and a goroutine inside Read or Close keeps running.
FairSpec == Spec /\ WF_vars(ReadStep) /\ WF_vars(CloseFinishes)

-----------------------------------------------------------------------------
TypeOK ==
  /\ ctxDone \in BOOLEAN /\ closed \in BOOLEAN
  /\ body \in 0 .. MaxAttempts /\ held \in 0 .. MaxAttempts
  /\ open \subseteq 1 .. MaxAttempts /\ attempts \in 1 .. MaxAttempts
  /\ offset \in 0 .. Blob /\ at \in 0 .. Blob
  /\ bodyEnd \in Unknown .. Blob /\ total \in {Unknown, Blob}
  /\ rpc \in {"idle", "loop", "read", "record", "reserve", "sleep", "request",
              "discard", "replace", "retire"}
  /\ got \in Seq(0 .. Blob) /\ rerr \in {"nil", "eof", "broken"}
  /\ repl \in [end : Unknown .. Blob, total : {Unknown, Blob}, at : 0 .. Blob]
  /\ ret \in {"nil", "eof", "exhausted", "fetch", "closed", "ctx"}
  /\ out \in Seq(0 .. Blob) /\ sent \in 1 .. MaxAttempts
  /\ cpc \in {"open", "finish", "done"} /\ cbody \in 0 .. MaxAttempts

\* The verifying reader above never sees a gap, a repeated byte or a byte from
\* beyond an announced interval, whatever breaks and however the registry
\* answers the resumes (resume.go:82-85, 356-407).
DeliveredInOrder ==
  Len(out) <= Blob /\ \A i \in 1 .. Len(out) : out[i] = i - 1

\* io.EOF means the whole blob was delivered: from a size an earlier response
\* announced, from an exact 416, or from the framing of an unbounded body
\* (resume.go:165-186, 421-445).
EOFMeansComplete == ret = "eof" => Len(out) = Blob

\* The first request and every resume draw on one budget for the life of the
\* stream, whatever progress is made in between (resume.go:95-96, 316-331).
OneBudget == sent <= attempts /\ attempts <= MaxAttempts

\* Read returns within its budget whatever the registry, Close and the context
\* do (resume.go:239-262).
ReadReturns == rpc # "idle" ~> rpc = "idle"

\* Once Close is called every response body ends up closed, replacements in
\* flight included (resume.go:216-232, 457-469).
CloseReleasesBodies == closed ~> open = {}

\* What a Read under way has done so far: nothing before it looked at the
\* state, and delivered what it recorded before it went on to resume.
Phase ==
  IF rpc \in {"idle", "loop"} THEN "idle"
  ELSE IF rpc \in {"read", "record"} \/ got = <<>> THEN "reading"
  ELSE "delivered"

\* Whatever breaks and is resumed beneath it, a Read is one Read of one blob:
\* none begins on a closed or ended stream, it delivers one batch, never
\* returns nothing without an error, and reports Close, the context and the
\* end only when they came (resume.go:127-212, 234-262).
Reads == INSTANCE BlobReader WITH
  Total <- Blob, Faults <- {"fetch", "exhausted"}, phase <- Phase
ImplementsReads == Reads!Spec
=============================================================================
