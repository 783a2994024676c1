-------------------------------- MODULE Push --------------------------------
(***************************************************************************)
(* One Push (push.go, chunked.go): upload attempts, each with a session of *)
(* its own, one PUT of the whole blob or one PATCH per chunk and an empty  *)
(* PUT, the replay of a body after a redirect, the DELETE of an abandoned  *)
(* session, and the rewind of the caller's reader between attempts.        *)
(*                                                                         *)
(* The registry is external: it keeps the bytes of each session, may drop  *)
(* a chunk, answer before it has read the body, answer with any status or  *)
(* lose the answer, and stores a blob only when the committed bytes match  *)
(* the digest.  A request body is summarised by what UploadBody promises:  *)
(* Push sees it active until it is released, with the source somewhere     *)
(* between the last byte sent and the last byte declared, and knows then   *)
(* whether the source proved to be at fault.  Session n is attempt n's.    *)
(***************************************************************************)
EXTENDS Integers, Sequences, FiniteSets

CONSTANTS
  Sizes,         \* sizes a caller may declare
  ChunkSizes,    \* Client.chunkSize; 0 selects the monolithic upload
  MinChunks,     \* OCI-Chunk-Min-Length values a registry may state
  MaxAttempts,   \* RetryPolicy.attempts()
  MaxHops        \* bound: redirects of one request (net/http stops at 10)

ASSUME SizesAssumption ==
  /\ Sizes \subseteq Nat /\ ChunkSizes \subseteq Nat /\ MinChunks \subseteq Nat
  /\ MaxAttempts \in Nat \ {0} /\ MaxHops \in Nat

VARIABLES
  size, chunkSize,
  seekable,          \* the reader is an io.Seeker
  length,            \* its length against size: short, exact or long; of an
                     \* empty blob, short is a reader that fails
  supply,            \* bytes it yields, of those declared, before it ends or fails
  ctxDone,
  pc, attempt,       \* pushWithRetry
  session,           \* the session this attempt knows of, or NoSession
  minChunk, offset,  \* session.minChunk; chunkedOnce's offset
  pos,               \* position of the caller's reader
  start,             \* position a redirect replays the current body from
  hops,
  body,              \* current request body: none, active or released
  srcErr,            \* the released body proved a source error
  resp,              \* the outcome of the request in flight
  retryable, cause,  \* why the attempt failed
  data, status,      \* registry: bytes of each session; its state
  stored,            \* registry: the blob
  known, deleted,    \* sessions the client learnt of; sent a DELETE for
  progress, result

Session == 1 .. MaxAttempts
NoSession == 0
NoResp == [kind |-> "none", sent |-> 0, ack |-> -1]

given == <<size, chunkSize, seekable, length, supply>>
src == <<pos, start, hops, body, srcErr>>
upload == <<session, minChunk, offset>>
failure == <<retryable, cause>>
registry == <<data, status, stored>>
sessions == <<known, deleted>>
vars == <<given, ctxDone, pc, attempt, upload, src, resp, failure, registry,
          sessions, progress, result>>

Smaller(a, b) == IF a < b THEN a ELSE b
Larger(a, b) == IF a > b THEN a ELSE b

Init ==
  /\ size \in Sizes /\ chunkSize \in ChunkSizes /\ seekable \in BOOLEAN
  /\ length \in {"short", "exact", "long"} /\ ctxDone = FALSE
  /\ supply \in 0 .. size /\ (supply < size <=> length = "short" /\ size > 0)
  /\ pc = (IF size = 0 THEN "probe" ELSE "open") /\ attempt = 1
  /\ session = NoSession /\ minChunk = 0 /\ offset = 0
  /\ pos = 0 /\ start = 0 /\ hops = 0 /\ body = "none" /\ srcErr = FALSE
  /\ resp = NoResp /\ retryable = FALSE /\ cause = "nil"
  /\ data = [s \in Session |-> <<>>] /\ status = [s \in Session |-> "none"]
  /\ stored = FALSE /\ known = {} /\ deleted = {} /\ progress = 0 /\ result = "none"

Return(r) == result' = r /\ pc' = "done"

\* validateReaderEOF: a reader of nothing has to be at its end.
ProveEmpty ==
  /\ pc = "probe"
  /\ IF length = "exact" THEN pc' = "open" /\ UNCHANGED result ELSE Return("source")
  /\ UNCHANGED <<given, ctxDone, attempt, upload, src, resp, failure, registry, sessions,
                 progress>>

\* An attempt ends in an error: the deferred cleanup comes first.
Fail(again, why) ==
  /\ retryable' = again /\ cause' = why /\ pc' = "cleanup"

-----------------------------------------------------------------------------
(* openSession                                                             *)

Opened == status' = [status EXCEPT ![attempt] = "open"]

SessionOpens ==
  /\ pc = "open" /\ ~ctxDone
  /\ Opened /\ session' = attempt /\ offset' = 0 /\ minChunk' \in MinChunks
  /\ known' = known \cup {attempt}
  /\ pc' = IF chunkSize > 0 THEN "chunk" ELSE "commit"
  /\ UNCHANGED <<given, ctxDone, attempt, src, resp, failure, data, stored,
                 deleted, progress, result>>

\* The POST fails, or the answer is lost or carries an unusable Location: no
\* session the client knows of.
SessionFails ==
  /\ pc = "open"
  /\ session' = NoSession
  /\ UNCHANGED status \/ Opened
  /\ \E again \in BOOLEAN : Fail(again, "open")
  /\ UNCHANGED <<given, ctxDone, attempt, minChunk, offset, src, resp, data,
                 stored, sessions, progress, result>>

-----------------------------------------------------------------------------
(* Requests with a body: one chunk, or the whole blob.                     *)

\* Mutant: the last chunk is not cut to what is left of the blob.
ChunkUnclipped == IF chunkSize = 0 THEN size ELSE Larger(chunkSize, minChunk)

Chunk == IF chunkSize = 0 THEN size
         ELSE Smaller(Larger(chunkSize, minChunk), size - offset)
IsLast == offset + Chunk = size

\* Bytes the source really has for the current body, which began at start.
Available == Smaller(Chunk, Larger(0, supply - start))

\* newPatchRequest asks a seekable reader for its position first.
PositionFails ==
  /\ pc = "chunk" /\ offset < size /\ seekable
  /\ Fail(FALSE, "seek")
  /\ UNCHANGED <<given, ctxDone, attempt, upload, src, resp, registry, sessions,
                 progress, result>>

\* newCommitRequest, newPatchRequest: the body owns the reader from here on.
SendBody ==
  /\ \/ pc = "commit" /\ size > 0
     \/ pc = "chunk" /\ offset < size
  /\ body' = "active" /\ start' = pos /\ hops' = 0
  /\ pc' = "request"
  /\ UNCHANGED <<given, ctxDone, attempt, upload, pos, srcErr, resp, failure,
                 registry, sessions, progress, result>>

\* Where the pump left the source when the body is released, and what it
\* proved: reading the last declared byte of a long source also finds the
\* next one, and a short source ends or fails in whichever body reads that far.
Released(sent) ==
  /\ body' = "released"
  /\ pos' \in start + sent .. start + Available
  /\ IF pos' = start + Available /\ (Available < Chunk \/ (IsLast /\ length = "long"))
       THEN srcErr' = TRUE \/ (length = "short" /\ srcErr' = FALSE)
       ELSE srcErr' = FALSE

\* Mutant: getBody does not wait for the body of the previous hop.
RedirectKeepsBody ==
  /\ pc = "request" /\ seekable /\ ~ctxDone /\ hops < MaxHops
  /\ pos' \in start .. start + Available
  /\ pc' = "hop"
  /\ UNCHANGED <<given, ctxDone, attempt, upload, start, hops, body, srcErr, resp,
                 failure, registry, sessions, progress, result>>

\* A 307 or 308 the transport follows: it closes the body, and getBody waits
\* until it is released.
Redirected ==
  /\ pc = "request" /\ seekable /\ ~ctxDone /\ hops < MaxHops
  /\ Released(0) /\ pc' = "hop"
  /\ UNCHANGED <<given, ctxDone, attempt, upload, start, hops, resp, failure,
                 registry, sessions, progress, result>>

\* Mutant: the hook seeks to the start of the blob whatever chunk is replayed.
ReplayFromStart ==
  /\ pc = "hop" /\ ~srcErr
  /\ pos' = 0 /\ body' = "active" /\ hops' = hops + 1 /\ pc' = "request"
  /\ UNCHANGED <<given, ctxDone, attempt, upload, start, srcErr, resp, failure,
                 registry, sessions, progress, result>>

\* getBody seeks to where the replayed body began and builds a new one.
Replay ==
  /\ pc = "hop" /\ ~srcErr
  /\ pos' = start /\ body' = "active" /\ hops' = hops + 1 /\ pc' = "request"
  /\ UNCHANGED <<given, ctxDone, attempt, upload, start, srcErr, resp, failure,
                 registry, sessions, progress, result>>

\* getBody reports the error the previous body proved: the request fails.
ReplayRefused ==
  /\ pc = "hop" /\ srcErr
  /\ resp' = [NoResp EXCEPT !.kind = "fatal"] /\ pc' = "settle"
  /\ UNCHANGED <<given, ctxDone, attempt, upload, src, failure, registry, sessions,
                 progress, result>>

\* The seek itself fails: an error of the transport like any other.
ReplayFails ==
  /\ pc = "hop" /\ ~srcErr
  /\ resp' = [NoResp EXCEPT !.kind = "lost"] /\ pc' = "settle"
  /\ UNCHANGED <<given, ctxDone, attempt, upload, src, failure, registry, sessions,
                 progress, result>>

SourceBytes(n) == [i \in 1 .. n |-> pos + i - 1]
Whole(d) == d = [i \in 1 .. size |-> i - 1]

\* What the registry makes of a request it received in full: a PATCH is kept
\* or dropped, a PUT commits the blob if the digest matches.
Received(n) ==
  LET d == data[session] \o SourceBytes(n)
  IN  \/ UNCHANGED registry
      \/ /\ n = Chunk /\ data' = [data EXCEPT ![session] = d]
         /\ \/ chunkSize > 0 /\ UNCHANGED <<status, stored>>
            \/ /\ chunkSize = 0 /\ Whole(d)
               /\ status' = [status EXCEPT ![session] = "stored"]
               /\ stored' = TRUE

\* The request ends: an answer, perhaps before the whole body was read, or a
\* transport error.  "accepted" is 202 for a chunk, with the end of what the
\* session holds, and 201 for a commit: a registry that read the whole body
\* says so only of a blob it stored.
RequestEnds ==
  /\ pc = "request"
  /\ \E n \in 0 .. Available,
        k \in {"accepted", "retry", "reject", "redirect", "lost", "fatal"} :
       /\ ctxDone => k = "fatal"
       /\ Received(n)
       /\ k = "accepted" /\ chunkSize = 0 /\ n = Chunk => stored'
       /\ resp' = [kind |-> k, sent |-> n, ack |-> Len(data'[session]) - 1]
  /\ pc' = "release"
  /\ UNCHANGED <<given, ctxDone, attempt, upload, src, failure, sessions, progress,
                 result>>

\* Mutant: a transport error is reported without waiting for the body.
ReleaseSkipped ==
  /\ pc = "release" /\ pc' = "settle"
  /\ IF resp.kind \in {"lost", "fatal"} THEN UNCHANGED <<pos, body, srcErr>>
                                       ELSE Released(resp.sent)
  /\ UNCHANGED <<given, ctxDone, attempt, upload, start, hops, resp, failure,
                 registry, sessions, progress, result>>

\* closeAndWait after a transport error, waitReleased after an answer.
BodyReleased ==
  /\ pc = "release" /\ pc' = "settle"
  /\ Released(resp.sent)
  /\ UNCHANGED <<given, ctxDone, attempt, upload, start, hops, resp, failure,
                 registry, sessions, progress, result>>

\* Mutant: a body that was not read to its end passes for a complete one.
ValidatesAnyway == ~srcErr

\* validate: no source error, every declared byte consumed.
Validates == ~srcErr /\ resp.sent = Chunk

\* Mutant: a retryable status hides the source error the body proved.
SettleStatusFirst ==
  /\ pc = "settle" /\ resp.kind # "accepted"
  /\ IF srcErr /\ resp.kind # "retry" THEN Fail(FALSE, "source")
     ELSE Fail(resp.kind \in {"retry", "lost"}, resp.kind)
  /\ UNCHANGED <<given, ctxDone, attempt, upload, src, resp, registry, sessions,
                 progress, result>>

SettleFailure ==
  /\ pc = "settle" /\ resp.kind # "accepted"
  /\ IF srcErr THEN Fail(FALSE, "source")
     ELSE Fail(resp.kind \in {"retry", "lost"}, resp.kind)
  /\ UNCHANGED <<given, ctxDone, attempt, upload, src, resp, registry, sessions,
                 progress, result>>

SettleInvalid ==
  /\ pc = "settle" /\ resp.kind = "accepted" /\ ~Validates
  /\ Fail(FALSE, "source")
  /\ UNCHANGED <<given, ctxDone, attempt, upload, src, resp, registry, sessions,
                 progress, result>>

\* progressTracker.set
Advanced(p) == Larger(progress, p)

SettleCommit ==
  /\ pc = "settle" /\ resp.kind = "accepted" /\ Validates /\ chunkSize = 0
  /\ progress' = Advanced(size) /\ result' = "ok" /\ pc' = "done"
  /\ UNCHANGED <<given, ctxDone, attempt, upload, src, resp, failure, registry,
                 sessions>>

\* Mutant: progress is reported before the acknowledgement is looked at.
DroppedAfterProgress ==
  /\ pc = "settle" /\ resp.kind = "accepted" /\ Validates /\ chunkSize > 0
  /\ resp.ack # offset + Chunk - 1
  /\ progress' = Advanced(offset + Chunk) /\ Fail(FALSE, "dropped")
  /\ UNCHANGED <<given, ctxDone, attempt, upload, src, resp, registry, sessions,
                 result>>

\* Mutant: a dropped chunk is sent again and costs no attempt.
DroppedSentAgain ==
  /\ pc = "settle" /\ resp.kind = "accepted" /\ Validates /\ chunkSize > 0
  /\ resp.ack # offset + Chunk - 1
  /\ pos' = start /\ pc' = "chunk"
  /\ UNCHANGED <<given, ctxDone, attempt, upload, start, hops, body, srcErr, resp,
                 failure, registry, sessions, progress, result>>

\* The acknowledgement must name exactly the last byte of the chunk.
SettleDropped ==
  /\ pc = "settle" /\ resp.kind = "accepted" /\ Validates /\ chunkSize > 0
  /\ resp.ack # offset + Chunk - 1
  /\ Fail(FALSE, "dropped")
  /\ UNCHANGED <<given, ctxDone, attempt, upload, src, resp, registry, sessions,
                 progress, result>>

SettleChunk ==
  /\ pc = "settle" /\ resp.kind = "accepted" /\ Validates /\ chunkSize > 0
  /\ resp.ack = offset + Chunk - 1
  /\ \/ /\ offset' = offset + Chunk
        /\ progress' = Advanced(offset + Chunk)
        /\ pc' = "chunk" /\ UNCHANGED failure
     \/ Fail(FALSE, "location") /\ UNCHANGED <<offset, progress>>
  /\ UNCHANGED <<given, ctxDone, attempt, session, minChunk, src, resp, registry,
                 sessions, result>>

-----------------------------------------------------------------------------
(* The PUT without a body that commits a chunked upload or an empty blob.  *)

CommitNoBody ==
  /\ \/ pc = "chunk" /\ offset = size
     \/ pc = "commit" /\ size = 0
  /\ \/ UNCHANGED <<status, stored>>
     \/ /\ Whole(data[session]) /\ stored' = TRUE
        /\ status' = [status EXCEPT ![session] = "stored"]
  /\ \/ ~ctxDone /\ stored' /\ result' = "ok" /\ pc' = "done" /\ UNCHANGED failure
     \/ /\ \E again \in BOOLEAN : Fail(again, "commit")
        /\ UNCHANGED result
  /\ UNCHANGED <<given, ctxDone, attempt, upload, src, resp, data, sessions,
                 progress>>

-----------------------------------------------------------------------------
(* cancelUploadSession, and the next attempt.                              *)

\* Mutant: only a restartable failure cleans its session up.
CleanupWhenRetrying ==
  /\ pc = "cleanup" /\ session # NoSession /\ ~ctxDone
  /\ deleted' = IF retryable THEN deleted \cup {session} ELSE deleted
  /\ UNCHANGED known
  /\ session' = NoSession /\ pc' = "decide"
  /\ UNCHANGED <<given, ctxDone, attempt, minChunk, offset, src, resp, failure,
                 registry, progress, result>>

\* Best effort: the registry may never see the DELETE.
Cleanup ==
  /\ pc = "cleanup" /\ session # NoSession /\ ~ctxDone
  /\ deleted' = deleted \cup {session} /\ UNCHANGED known
  /\ status' \in {status} \cup
       (IF status[session] = "open" THEN {[status EXCEPT ![session] = "gone"]} ELSE {})
  /\ session' = NoSession /\ pc' = "decide"
  /\ UNCHANGED <<given, ctxDone, attempt, minChunk, offset, src, resp, failure,
                 data, stored, progress, result>>

NoCleanup ==
  /\ pc = "cleanup" /\ (session = NoSession \/ ctxDone)
  /\ session' = NoSession /\ pc' = "decide"
  /\ UNCHANGED <<given, ctxDone, attempt, minChunk, offset, src, resp, failure,
                 registry, sessions, progress, result>>

GiveUp ==
  /\ pc = "decide"
  /\ \/ ctxDone /\ Return("ctx")
     \/ ~ctxDone /\ (~retryable \/ attempt = MaxAttempts) /\ Return(cause)
     \/ ~ctxDone /\ retryable /\ attempt # MaxAttempts /\ size > 0 /\ ~seekable
          /\ Return("noseek")
  /\ UNCHANGED <<given, ctxDone, attempt, upload, src, resp, failure, registry,
                 sessions, progress>>

\* rewind waits for the body first: it cannot be active any more here.  Of an
\* empty blob nothing was read and nothing is rewound.
Rewind ==
  /\ pc = "decide" /\ ~ctxDone /\ retryable /\ attempt # MaxAttempts
  /\ size > 0 => seekable
  /\ pos' = 0 /\ pc' = "sleep"
  /\ UNCHANGED <<given, ctxDone, attempt, upload, start, hops, body, srcErr, resp,
                 failure, registry, sessions, progress, result>>

RewindFails ==
  /\ pc = "decide" /\ ~ctxDone /\ retryable /\ attempt # MaxAttempts
  /\ size > 0 /\ seekable
  /\ Return("seek")
  /\ UNCHANGED <<given, ctxDone, attempt, upload, src, resp, failure, registry,
                 sessions, progress>>

SleepEnds ==
  /\ pc = "sleep"
  /\ attempt' = attempt + 1 /\ pc' = "open"
  /\ UNCHANGED <<given, ctxDone, upload, src, resp, failure, registry, sessions,
                 progress, result>>

SleepCanceled ==
  /\ pc = "sleep" /\ ctxDone
  /\ Return("ctx")
  /\ UNCHANGED <<given, ctxDone, attempt, upload, src, resp, failure, registry,
                 sessions, progress>>

CallerCancels ==
  /\ ~ctxDone /\ ctxDone' = TRUE
  /\ UNCHANGED <<given, pc, attempt, upload, src, resp, failure, registry, sessions,
                 progress, result>>

Step ==
  \/ ProveEmpty \/ SessionOpens \/ SessionFails \/ PositionFails \/ SendBody
  \/ Redirected \/ Replay \/ ReplayRefused \/ ReplayFails \/ RequestEnds
  \/ BodyReleased \/ SettleFailure \/ SettleInvalid \/ SettleCommit
  \/ SettleDropped \/ SettleChunk \/ CommitNoBody
  \/ Cleanup \/ NoCleanup \/ GiveUp \/ Rewind \/ RewindFails \/ SleepEnds \/ SleepCanceled

Next == Step \/ CallerCancels

Spec == Init /\ [][Next]_vars

\* The transport ends every request, bodies are released (UploadBody's
\* CloseReleases), timers fire.
FairSpec == Spec /\ WF_vars(Step)

-----------------------------------------------------------------------------
TypeOK ==
  /\ size \in Sizes /\ chunkSize \in ChunkSizes /\ seekable \in BOOLEAN
  /\ length \in {"short", "exact", "long"} /\ ctxDone \in BOOLEAN
  /\ supply \in 0 .. size
  /\ pc \in {"probe", "open", "chunk", "commit", "request", "hop", "release", "settle",
             "cleanup", "decide", "sleep", "done"}
  /\ attempt \in Session /\ session \in {NoSession, attempt}
  /\ minChunk \in MinChunks \cup {0} /\ offset \in 0 .. size
  /\ pos \in 0 .. size /\ start \in 0 .. size /\ hops \in 0 .. MaxHops
  /\ body \in {"none", "active", "released"} /\ srcErr \in BOOLEAN
  /\ resp.kind \in {"none", "accepted", "retry", "reject", "redirect", "lost", "fatal"}
  /\ resp.sent \in 0 .. size /\ resp.ack \in -1 .. size - 1
  /\ retryable \in BOOLEAN
  /\ data \in [Session -> Seq(0 .. size - 1)]
  /\ status \in [Session -> {"none", "open", "stored", "gone"}]
  /\ stored \in BOOLEAN /\ known \subseteq Session /\ deleted \subseteq known
  /\ progress \in 0 .. size

\* Whatever was replayed, rewound, read ahead or dropped before, a session only
\* ever holds a prefix of the blob: every body starts at the byte its request
\* announces (push.go:389-398, 446-463, chunked.go:142-180).
SessionsHoldPrefixes ==
  \A s \in Session : \A i \in 1 .. Len(data[s]) : data[s][i] = i - 1

\* A Push that succeeds has sent an exact source, and the registry has it,
\* also when the registry answered before it read the body
\* (push.go:263-275, chunked.go:111-131).
OKMeansStored == result = "ok" => stored /\ length = "exact"

\* Progress counts bytes some session acknowledged, never bytes in flight or
\* dropped (chunked.go:44-54, push.go:159-162).
ProgressIsBacked == \E s \in Session : progress <= Len(data[s])

\* While the caller's context lasts, every session the client learnt of is the
\* current one or was sent a DELETE, through every failure and retry
\* (push.go:148-153, 518-543).
NoSessionForgotten ==
  ~ctxDone => known \ deleted \subseteq (IF session = NoSession THEN {} ELSE {session})

\* Push gives the reader back only when no body can read it any more
\* (push.go:32-36, 305-318).
ReaderGivenBack == result # "none" => body # "active"

\* A body never proves an error of a source that has exactly the declared
\* bytes, in whatever chunks and replays it is read (chunked.go:41-47,
\* push.go:446-463); and a proved one is the outcome: no status, redirect or
\* lost answer turns it into a retry (push.go:305-353, 422-434).
SourceErrorIsTrueAndFinal ==
  /\ srcErr => length # "exact"
  /\ srcErr /\ result # "none" => result \in {"source", "ctx"}
  /\ srcErr => pc # "open"

\* The reader is moved back only between bodies, never under the pump of one
\* (push.go:389-434, 446-463).
SeekNeedsOwnership == [][pos' < pos => body # "active"]_vars

\* Push returns, within its attempts, whatever the registry does.
PushReturns == <>(result # "none")
=============================================================================
