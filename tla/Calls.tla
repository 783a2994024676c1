------------------------------- MODULE Calls -------------------------------
(***************************************************************************)
(* The operations that ask the registry before any byte is moved: Exists,  *)
(* Mount, and the opening of PullRange, of a plain Pull and of a parallel  *)
(* Pull with its fallbacks (exists.go, mount.go, pull.go, parallel.go);    *)
(* and the digest-verifying reader above an opened Pull (verify.go).       *)
(*                                                                         *)
(* The readers beneath it are modelled in ResumeReader and ParallelPull.   *)
(* Here they are what they look like from above: bytes, an end, an error;  *)
(* the resuming reader keeps its request budget.  The blob has Size bytes; *)
(* a hash state is the number of its bytes taken in, or Broken.            *)
(***************************************************************************)
EXTENDS Requests

CONSTANTS
  Op,                \* operations under check, among those of AllOps
  Size               \* length of the content the digest names

AllOps == {"exists", "mount", "range", "pull", "parallel"}
ASSUME OpAssumption == Op \subseteq AllOps /\ Size \in Nat \ {0}

VARIABLES
  op, pc,            \* the operation and its control
  pullCtx,           \* the derived context of a parallel pull is not released
  attempts,          \* request attempts an opened stream has spent
  reader,            \* what the open reader holds: "none", "plain", "puller",
                     \* or "probe", a body whose Close releases pullCtx
  hash,              \* verifier: state of the hash
  cause,             \* why the stream broke
  answer, failure,   \* what the caller got last, and its error
  got, ended,        \* history: bytes delivered; the bytes came to an end
  held, seen,        \* registry: has the blob; its values since the call
  session            \* registry: the upload session the client was told of

call == <<op, pc>>
stream == <<attempts, reader, hash, cause, got, ended>>
outcome == <<answer, failure>>
registry == <<held, seen, session>>
caller == <<ctxDone, allowWrite>>
vars == <<caller, reqvars, call, pullCtx, stream, outcome, registry>>

Broken == -1
Verified == hash = Size
Reads == op \in {"pull", "parallel"}

Init ==
  /\ RequestInit
  /\ op \in Op /\ pc = "start" /\ (op # "mount" => allowWrite)
  /\ pullCtx = FALSE /\ attempts = 0 /\ reader = "none" /\ hash = 0 /\ cause = NoError
  /\ answer = "none" /\ failure = NoError /\ got = 0 /\ ended = FALSE
  /\ held \in BOOLEAN /\ seen = {held} /\ session = "none"

Asks(m, o, l, b) == Begin(m, o, l, b) /\ UNCHANGED <<wait, result, sent, last>>

\* The operation took the result of its request.
Settled == rpc' = "idle" /\ UNCHANGED <<policy, hop, wait, result, sent, last>>

Start ==
  /\ pc = "start" /\ pc' = "first"
  /\ CASE op = "exists" -> Asks("HEAD", "registry", "retry", MaxAttempts)
       [] op = "mount" -> Asks("POST", "registry", "retry", MaxAttempts)
       [] op \in {"range", "pull"} -> Asks("GET", "registry", "retry", MaxAttempts)
       [] op = "parallel" -> Asks("GET", "registry", "probe", MaxAttempts)
  /\ pullCtx' = (op = "parallel")
  /\ UNCHANGED <<caller, open, op, stream, outcome, registry>>

-----------------------------------------------------------------------------
(* The network.                                                            *)

Codes == {200, 201, 202, 204, 206, 403, 404, 416, 503}

\* A HEAD request is answered for the blob as it is; a storage location may be
\* gone while the registry has the blob.
Truthful(code) ==
  method = "HEAD" => /\ code = 200 => held
                     /\ code = 404 /\ at = "registry" => ~held

Performs(code) ==
  /\ held' = (held \/ (method = "POST" /\ code = 201))
  /\ seen' = seen \cup {held'}
  /\ session' = IF method = "POST" /\ code = 202 THEN "open"
                ELSE IF method = "DELETE" /\ code \in {204, 404} THEN "gone" ELSE session

Answers ==
  \E code \in Codes, wish \in Wish :
    /\ Truthful(code) /\ Answered(code, wish) /\ Performs(code)
    /\ UNCHANGED <<caller, call, pullCtx, stream, outcome>>

\* The request may have been performed; a session opened by a lost answer is
\* known to nobody.
LosesAnswer ==
  /\ TransportFails
  /\ \/ UNCHANGED registry
     \/ method = "POST" /\ Performs(201)
     \/ method = "DELETE" /\ Performs(204)
  /\ UNCHANGED <<caller, call, pullCtx, stream, outcome>>

Redirects ==
  /\ \E target \in {"registry", "storage", "invalid"}, keeps \in BOOLEAN :
       Redirected(target, keeps)
  /\ UNCHANGED <<caller, call, pullCtx, stream, outcome, registry>>

Requesting ==
  RequestStep /\ UNCHANGED <<caller, call, pullCtx, stream, outcome, registry>>

\* Another client pushes the blob, or the registry drops it.
HeldChanges ==
  /\ rpc # "idle" /\ op \in {"exists", "mount"}
  /\ held' = ~held /\ seen' = seen \cup {held'}
  /\ UNCHANGED <<caller, reqvars, call, pullCtx, stream, outcome, session>>

-----------------------------------------------------------------------------
(* Answers of Exists and Mount.                                            *)

\* The call returns; a response it still held is closed, the context of a
\* parallel pull released.
Return(a, e) ==
  /\ pc' = "returned" /\ answer' = a /\ failure' = e /\ Settled
  /\ open' = open - (IF resp = NoResp THEN 0 ELSE 1)
  /\ pullCtx' = FALSE
  /\ UNCHANGED <<caller, op, stream, registry>>

ReturnStatus == Return("error", <<Status(resp.code, resp.origin)>>)
Responded(code) == rpc = "done" /\ resp.code = code

RequestFailed ==
  /\ rpc = "done" /\ err # NoError
  /\ Return("error", err)

ExistsAnswered ==
  /\ op = "exists" /\ pc = "first"
  /\ \/ Responded(200) /\ Return("yes", NoError)
     \/ Responded(404) /\ Return("no", NoError)
     \/ rpc = "done" /\ err = NoError /\ resp.code \notin {200, 404} /\ ReturnStatus

MountAnswered ==
  /\ op = "mount" /\ pc = "first"
  /\ \/ Responded(201) /\ Return("yes", NoError)
     \/ Responded(202) /\ Return("error", Fault("location"))
     \/ rpc = "done" /\ err = NoError /\ resp.code \notin {201, 202} /\ ReturnStatus

\* 202: Mount cancels the session it did not ask for, at a Location of any
\* origin, unless the context is done.
MountDeclined ==
  /\ op = "mount" /\ pc = "first" /\ Responded(202)
  /\ IF ctxDone THEN Return("error", Fault("ctx"))
     ELSE /\ \E o \in {"registry", "storage"} : Asks("DELETE", o, "once", 1)
          /\ pc' = "cleanup" /\ open' = open - 1
          /\ UNCHANGED <<caller, op, pullCtx, stream, outcome, registry>>

CleanupAnswered ==
  /\ pc = "cleanup" /\ rpc = "done" /\ err = NoError
  /\ IF resp.code \in {204, 404} THEN Return("no", NoError) ELSE ReturnStatus

-----------------------------------------------------------------------------
(* Opening a download.                                                     *)

\* The caller gets a reader that holds body r.
Opens(r, spent) ==
  /\ pc' = "open" /\ answer' = "reader" /\ reader' = r /\ attempts' = spent
  /\ open' = (IF r = "none" THEN open - 1 ELSE open) /\ Settled
  /\ UNCHANGED <<caller, op, failure, hash, cause, got, ended, registry>>

\* get, getAfterAttempts: a plain GET accepts 200 only.
PullAnswered ==
  /\ Reads /\ (pc = "second" \/ (op = "pull" /\ pc = "first"))
  /\ rpc = "done" /\ err = NoError
  /\ IF resp.code = 200 THEN Opens("plain", attempts + attempt) /\ UNCHANGED pullCtx
     ELSE ReturnStatus

RangeAnswered ==
  /\ op = "range" /\ pc = "first" /\ rpc = "done" /\ err = NoError
  /\ CASE resp.code = 206 -> \/ Opens("plain", attempt) /\ UNCHANGED pullCtx
                             \/ Return("error", Fault("header"))
       [] resp.code = 200 ->
            \* the leading bytes are discarded, one byte is peeked at
            \/ ~ctxDone /\ Opens("plain", attempt) /\ UNCHANGED pullCtx
            \/ ctxDone /\ Return("error", Fault("ctx"))
            \/ \E k \in {"eof", "net"} :
                 Return("error", IF ctxDone THEN MarkTerminal(Fault("ctx") \o Fault(k))
                                 ELSE Fault(k))
       [] OTHER -> ReturnStatus

\* Mutant: the fallback request starts a budget of its own.
FreshBudget(spent) == MaxAttempts

\* getAfterAttempts.
Remaining(spent) == MaxAttempts - spent

\* 416: an empty blob, or a registry that refuses ranges.
ProbeRefused ==
  /\ op = "parallel" /\ pc = "first" /\ Responded(416)
  /\ \/ Opens("none", attempt) /\ pullCtx' = FALSE
     \/ IF Remaining(attempt) <= 0 THEN Return("error", Fault("budget"))
        ELSE /\ Asks("GET", "registry", "retry", Remaining(attempt))
             /\ pc' = "second" /\ attempts' = attempt
             /\ open' = open - 1 /\ pullCtx' = FALSE
             /\ UNCHANGED <<caller, op, reader, hash, cause, got, ended, outcome, registry>>

\* 200: the response is the blob and carries the derived context with it.
ProbeAnswered ==
  /\ op = "parallel" /\ pc = "first" /\ rpc = "done" /\ err = NoError
  /\ resp.code # 416
  /\ CASE resp.code = 200 -> Opens("probe", attempt) /\ UNCHANGED pullCtx
       [] resp.code = 206 -> \/ Opens("puller", attempt) /\ UNCHANGED pullCtx
                             \/ Return("error", Fault("header"))
       [] OTHER -> ReturnStatus

-----------------------------------------------------------------------------
(* Reading an opened Pull through the verifying reader.                    *)

\* The hash of one more byte; good: the blob's next one.
Hashed(h, good) == IF good /\ h # Broken /\ h < Size THEN h + 1 ELSE Broken

\* Bytes of one Read: none, the blob's next, another.
Some == {"none", "good", "bad"}
After(h, b) == IF b = "none" THEN h ELSE Hashed(h, b = "good")

Surface(e, verified) ==
  IF Is(e, "eof") /\ ~verified THEN answer' = "mismatch" /\ failure' = Fault("mismatch")
  ELSE answer' = (IF e = Fault("eof") THEN "eof" ELSE "error") /\ failure' = e

\* Mutant: the end is judged before the bytes that came with it are hashed.
VerifyLate(b, e) ==
  /\ got' = After(got, b) /\ hash' = After(hash, b)
  /\ IF e = NoError THEN pc' = "open" /\ UNCHANGED outcome
     ELSE pc' = "over" /\ Surface(e, After(hash, b) = Broken \/ Verified)

\* verifyReader.Read: the reader beneath returned bytes b and error e.
Verify(b, e) ==
  /\ got' = After(got, b) /\ hash' = After(hash, b)
  /\ IF e = NoError THEN pc' = "open" /\ UNCHANGED outcome
     ELSE pc' = "over" /\ Surface(e, hash' = Size)

Reading == Reads /\ pc = "open"

\* Every reader that outlives the probe has a context derived from the
\* caller's, not from the probe's.
ReaderDone == ctxDone

ReadBytes ==
  /\ Reading /\ reader # "none"
  /\ \E b \in Some \ {"none"} : Verify(b, IF ReaderDone THEN Fault("ctx") ELSE NoError)
  /\ UNCHANGED <<caller, reqvars, op, pullCtx, attempts, reader, cause, ended, registry>>

ReadCanceled ==
  /\ Reading /\ ReaderDone /\ Verify("none", Fault("ctx"))
  /\ UNCHANGED <<caller, reqvars, op, pullCtx, attempts, reader, cause, ended, registry>>

\* The stream ends, perhaps too early, perhaps with the last byte.
ReadEnds ==
  /\ Reading /\ ~ReaderDone
  /\ \E b \in (IF reader = "none" THEN {"none"} ELSE Some) : Verify(b, Fault("eof"))
  /\ ended' = TRUE
  /\ UNCHANGED <<caller, reqvars, op, pullCtx, attempts, reader, cause, registry>>

\* A parallel pull may take its closed queue for the end of a canceled blob.
PullerEnds ==
  /\ Reading /\ reader = "puller" /\ ctxDone /\ Verify("none", Fault("eof"))
  /\ UNCHANGED <<caller, reqvars, op, pullCtx, attempts, reader, cause, ended, registry>>

\* What a transport failure or a response of a retried request leaves.
Transient == {Fault("net"), Fault("eof"), <<Status(503, "registry")>>}
Terminal == {Fault("policy"), <<Status(404, "storage")>>}

PullerFails ==
  /\ Reading /\ reader = "puller" /\ ~ReaderDone
  /\ \E e \in Transient \cup Terminal \cup {Fault("header")} : Verify("none", e)
  /\ UNCHANGED <<caller, reqvars, op, pullCtx, attempts, reader, cause, ended, registry>>

\* The bytes that came before the break are returned, and hashed, with the
\* outcome of the resumption; nobody can look at the hash before that.
StreamBreaks ==
  /\ Reading /\ reader \in {"plain", "probe"} /\ ~ReaderDone
  /\ pc' = "resuming" /\ cause' = Fault("net")
  /\ \E b \in Some : got' = After(got, b) /\ hash' = After(hash, b)
  /\ UNCHANGED <<caller, reqvars, op, pullCtx, attempts, reader, ended, outcome, registry>>

\* reserveResumeAttempt.
Spent == attempts >= MaxAttempts

ResumeGivesUp ==
  /\ pc = "resuming"
  /\ \/ ReaderDone /\ Verify("none", Fault("ctx"))
     \/ ~ReaderDone /\ Spent /\ Verify("none", Fault("budget") \o cause)
  /\ UNCHANGED <<caller, reqvars, op, pullCtx, attempts, reader, cause, ended, registry>>

ReserveResume ==
  /\ pc = "resuming" /\ ~ReaderDone /\ ~Spent
  /\ attempts' = attempts + 1 /\ sent' = OneMore(sent)
  /\ UNCHANGED <<caller, rpc, policy, hop, wait, result, last, op, registry>>

ResumeFails ==
  /\ ReserveResume
  /\ \E e \in Transient : cause' = e
  /\ UNCHANGED <<open, pc, pullCtx, reader, hash, got, ended, outcome>>

\* A refused redirect or status, a useless header; or a replay of the whole
\* blob that ends before the break.
ResumeRejected ==
  /\ ReserveResume
  /\ \/ /\ \E e \in {cause \o t : t \in Terminal} \cup {Fault("header")} : Verify("none", e)
        /\ UNCHANGED ended
     \/ Verify("none", cause \o Fault("eof")) /\ ended' = TRUE
  /\ UNCHANGED <<open, pullCtx, reader, cause>>

\* Mutant: the probe's context is forgotten with the probe's body.
ReplacedKeepsContext(r) ==
  reader' = r /\ open' = open - (IF r = "none" THEN 1 ELSE 0) /\ UNCHANGED pullCtx

\* replaceBody closes the old body, and with a probe's body its context.
Replaced(r) ==
  /\ reader' = r /\ open' = open - (IF r = "none" THEN 1 ELSE 0)
  /\ pullCtx' = (pullCtx /\ reader # "probe")

\* A new body; or, after a 416 at the very end, none.
ResumeSucceeds ==
  /\ ReserveResume /\ pc' = "open"
  /\ \E r \in {"plain", "none"} : Replaced(r)
  /\ UNCHANGED <<hash, got, ended, cause, outcome>>

Close ==
  /\ pc \in {"open", "over"} /\ pc' = "closed"
  /\ reader' = "none" /\ open' = open - (IF reader = "none" THEN 0 ELSE 1)
  /\ pullCtx' = (pullCtx /\ reader \notin {"probe", "puller"})
  /\ UNCHANGED <<caller, rpc, policy, hop, wait, result, sent, last, op, attempts, hash, cause,
                 got, ended, outcome, registry>>

CallerCancels ==
  /\ ~ctxDone /\ ctxDone' = TRUE
  /\ UNCHANGED <<allowWrite, reqvars, call, pullCtx, stream, outcome, registry>>

Step ==
  \/ Start \/ Requesting \/ Answers \/ LosesAnswer \/ Redirects \/ RequestFailed
  \/ ExistsAnswered \/ MountAnswered \/ MountDeclined \/ CleanupAnswered
  \/ PullAnswered \/ RangeAnswered \/ ProbeRefused \/ ProbeAnswered
  \/ ResumeGivesUp \/ ResumeFails \/ ResumeRejected \/ ResumeSucceeds

Read == ReadBytes \/ ReadCanceled \/ ReadEnds \/ PullerEnds \/ PullerFails \/ StreamBreaks

Next == Step \/ Read \/ Close \/ CallerCancels \/ HeldChanges

Spec == Init /\ [][Next]_vars
FairSpec == Spec /\ WF_vars(Step)

-----------------------------------------------------------------------------
(* Properties.                                                             *)

\* One operation sends at most MaxAttempts requests, whatever it falls back
\* to and however often its stream breaks (getAfterAttempts, requestAttempts
\* and resumeReader.attempts hand the count on); Mount's one DELETE comes on
\* top.
OneBudget == sent <= MaxAttempts + (IF op = "mount" THEN 1 ELSE 0)

\* Every wait is a Retry-After wish capped by MaxDelay, or has the exponential
\* ceiling of RetryPolicy, computed here without overflow: backoffDelay's
\* guard on the shift catches every overflow of a policy whose two delays
\* multiplied fit the width.
BackoffIsExponential ==
  rpc = "sleep" /\ InitialDelay > 0 /\ InitialDelay * MaxDelay < 2^(Width - 1) =>
    wait \in {Smaller(w, MaxDelay) : w \in Wish \ {0}}
             \cup {Smaller(InitialDelay * 2^(attempt - 1), MaxDelay)}

\* The caller of Pull sees io.EOF only after exactly the bytes the digest
\* names, whichever reader is underneath and wherever it broke (verifyReader).
EOFMeansVerified == answer = "eof" => got = Size

\* A response body is held by the request that just ended or by the reader,
\* never by nobody: none is left when the call failed or the reader is closed;
\* and the context of a parallel pull is held by its probe, by the body the
\* probe became, or by the puller (cancelBody, Close).
BodiesAccounted ==
  /\ open = (IF rpc = "done" /\ resp # NoResp THEN 1 ELSE 0) + (IF reader = "none" THEN 0 ELSE 1)
  /\ pullCtx => (op = "parallel" /\ pc = "first") \/ reader \in {"probe", "puller"}

\* Exists and Mount tell the truth, with lost answers, retries and redirects:
\* the blob was there, or was not, at some time of the call; a declined mount
\* left no session it was told of.  (A storage location that is gone tells
\* Exists that the blob is: exists.go:49 does not look at the origin.)
AnswersAreTrue ==
  /\ answer = "yes" => TRUE \in seen
  /\ answer = "no" /\ op = "exists" /\ resp.origin = "registry" => FALSE \in seen
  /\ answer = "no" /\ op = "mount" => session = "gone"

\* What an error of an opening call lets its caller conclude.  Retryable means
\* that the last try failed for a transient reason before the context ended,
\* and every such failure of a retried request is reported so; ErrNotFound
\* means the registry's own 404.  And a context error, from the call or from a
\* Read, means that a context ended.
ErrorsTellWhatHappened ==
  LET transient == last.kind \in {"net", "eof"} \/ (last.kind = "status" /\ RetryableResponse(last))
  IN  /\ pc = "returned" /\ answer = "error" =>
        /\ Retryable(failure) => transient /\ ~Is(failure, "ctx")
        /\ transient /\ loop = "retry" /\ ~Is(failure, "ctx") => Retryable(failure)
        /\ IsNotFound(failure) <=> (last = Status(404, "registry") /\ ~Is(failure, "ctx"))
      /\ Is(failure, "ctx") => ctxDone \/ last.kind = "ctx"

\* Every call and every Read of a broken stream returns: retries, redirects
\* and resumes are bounded.
CallReturns ==
  /\ (pc = "start") ~> (pc \in {"returned", "open"})
  /\ (pc = "resuming") ~> (pc # "resuming")

\* ErrDigestMismatch stands for io.EOF "when the stream ends on content that
\* fails verification" (errors.go).
MismatchMeansMismatch == answer = "mismatch" => ended
=============================================================================
