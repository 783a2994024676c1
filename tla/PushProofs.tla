----------------------------- MODULE PushProofs -----------------------------
(***************************************************************************)
(* Proofs about Push for every size, chunk size, registry minimum, number  *)
(* of attempts and of redirects.                                           *)
(***************************************************************************)
EXTENDS Push, SequenceTheorems, TLAPS

-----------------------------------------------------------------------------
(* The inductive invariant.                                                *)

InRequest == {"request", "hop", "release", "settle"}

\* Who moves the reader.  A body replays from where it found the reader.
Ownership ==
  /\ body = "active" => pc \in {"request", "release"}
  /\ pc \in {"request", "release"} => pos = start
  /\ result # "none" => pc = "done"

\* A proved source error waits for the attempt to end and is its cause.
Blame ==
  /\ cause # "ok"
  /\ srcErr => pc \in {"hop", "settle", "cleanup", "decide", "done"}
  /\ srcErr /\ pc \in {"cleanup", "decide"} => ~retryable /\ cause = "source"
  /\ srcErr /\ pc = "done" => result \in {"source", "ctx"}

\* Sessions and attempts.
Sessions ==
  /\ pc \in {"probe", "open", "decide", "sleep"} => session = NoSession
  /\ pc \in InRequest \cup {"chunk", "commit"} => session = attempt
  /\ session # NoSession => session \in known
  /\ pc = "sleep" => attempt < MaxAttempts
  /\ pc = "hop" => hops < MaxHops
  /\ NoSessionForgotten

\* Where the reader and the upload stand.
Position ==
  /\ pc \in {"probe", "open", "sleep"} => pos = 0
  /\ pc \in {"chunk", "commit"} => pos = offset
  /\ pc \in InRequest => start = offset /\ offset < size
  /\ chunkSize = 0 => offset = 0
  /\ pc = "chunk" => chunkSize > 0
  /\ pc = "commit" => chunkSize = 0
  /\ size = 0 /\ pc \notin {"probe", "done"} => length = "exact"
  /\ supply < size <=> length = "short" /\ size > 0
  /\ srcErr => length # "exact"

\* What the sessions of the registry hold.
Contents ==
  /\ SessionsHoldPrefixes
  /\ \A s \in Session : Len(data[s]) <= size
  /\ \A s \in Session : s > attempt \/ (s = attempt /\ pc \in {"probe", "open"}) => data[s] = <<>>
  /\ pc \in {"chunk", "commit", "request", "hop"} => Len(data[session]) = offset
  /\ stored => \E s \in Session : Len(data[s]) = size

\* What an answer is worth.
Answered ==
  /\ pc \in {"release", "settle"} /\ resp.kind = "accepted" =>
       /\ resp.sent <= Available /\ resp.ack = Len(data[session]) - 1
       /\ chunkSize = 0 /\ resp.sent = Chunk => stored
  /\ pc = "release" => resp.sent <= Available
  /\ pc = "settle" /\ resp.kind = "accepted" /\ resp.sent = Chunk =>
       /\ pos = offset + Chunk
       /\ IsLast /\ ~srcErr => length = "exact"
  /\ pc = "chunk" /\ offset = size => length = "exact"

PushInv ==
  /\ TypeOK /\ Ownership /\ Blame /\ Sessions /\ Position /\ Contents /\ Answered
  /\ OKMeansStored /\ ProgressIsBacked

-----------------------------------------------------------------------------
\* What bounds an upload are numbers.
LEMMA SizeNat ==
  /\ PushInv => size \in Nat
  /\ MaxAttempts \in Nat \ {0} /\ MaxHops \in Nat
<1>1. PushInv => size \in Sizes
  BY DEF PushInv, TypeOK
<1> QED BY <1>1, SizesAssumption

\* A session that holds nothing.
LEMMA EmptyIsShort == ASSUME NEW S PROVE <<>> \in Seq(S) /\ Len(<<>>) = 0
  OBVIOUS

\* A Push that was just called.
LEMMA InitInv == Init => PushInv
<1> SUFFICES ASSUME Init PROVE PushInv
  OBVIOUS
<1>0. size \in Sizes /\ size \in Nat
  BY SizesAssumption DEF Init
<1> USE SizeNat, <1>0
<1>1. data = [s \in Session |-> <<>>] /\ 1 \in Session /\ \A s \in Session : data[s] = <<>>
  BY DEF Init, Session
<1>2. TypeOK
  <2>1. /\ chunkSize \in ChunkSizes /\ seekable \in BOOLEAN
        /\ length \in {"short", "exact", "long"} /\ ctxDone \in BOOLEAN
        /\ supply \in 0 .. size
        /\ pc \in {"probe", "open"} /\ body = "none" /\ srcErr \in BOOLEAN
        /\ retryable \in BOOLEAN /\ stored \in BOOLEAN
        /\ known \subseteq Session /\ deleted \subseteq known
    BY DEF Init
  <2>2. /\ attempt \in Session /\ session \in {NoSession, attempt}
        /\ minChunk \in MinChunks \cup {0} /\ offset \in 0 .. size
        /\ pos \in 0 .. size /\ start \in 0 .. size /\ hops \in 0 .. MaxHops
        /\ progress \in 0 .. size
    BY DEF Init, Session
  <2>3. resp.kind = "none" /\ resp.sent \in 0 .. size /\ resp.ack \in -1 .. size - 1
    BY DEF Init, NoResp
  <2>4. data \in [Session -> Seq(0 .. size - 1)]
    BY <1>1
  <2>5. status \in [Session -> {"none", "open", "stored", "gone"}]
    BY DEF Init
  <2> QED BY <2>1, <2>2, <2>3, <2>4, <2>5 DEF TypeOK
<1>3. Ownership /\ Blame /\ Sessions /\ Position
  BY DEF Init, Ownership, Blame, Sessions, NoSessionForgotten, Position, InRequest
<1>4. Contents
  <2>1. \A s \in Session : Len(data[s]) = 0
    BY <1>1, EmptyIsShort
  <2> QED BY <1>1, <2>1 DEF Init, Contents, SessionsHoldPrefixes
<1>5. Answered /\ OKMeansStored
  BY DEF Init, Answered, OKMeansStored
<1>6. ProgressIsBacked
  BY <1>1, EmptyIsShort DEF Init, ProgressIsBacked
<1> QED BY <1>2, <1>3, <1>4, <1>5, <1>6 DEF PushInv

-----------------------------------------------------------------------------
(* Sizes.                                                                  *)

LEMMA ChunkBounds ==
  ASSUME PushInv
  PROVE  /\ chunkSize \in Nat /\ minChunk \in Nat
         /\ offset < size => Chunk \in 0 .. size - offset
         /\ offset < size => Available \in 0 .. Chunk
<1> USE SizeNat
<1>1. /\ chunkSize \in Nat /\ minChunk \in Nat /\ offset \in 0 .. size
      /\ start \in 0 .. size /\ supply \in 0 .. size
  BY SizesAssumption DEF PushInv, TypeOK
<1>2. chunkSize = 0 => offset = 0
  BY DEF PushInv, Position
<1>3. offset < size => Chunk \in 0 .. size - offset
  BY <1>1, <1>2 DEF Chunk, Smaller, Larger
<1>4. offset < size => Available \in 0 .. Chunk
  BY <1>1, <1>3 DEF Available, Smaller, Larger
<1> QED BY <1>1, <1>3, <1>4

\* A short source never yields its last chunk in full.
LEMMA ShortIsShort ==
  ASSUME PushInv, pc \in InRequest, length = "short", IsLast
  PROVE  Available < Chunk
<1> USE SizeNat
<1>1. offset < size /\ start = offset /\ offset \in 0 .. size
  BY DEF PushInv, Position, TypeOK
<1>2. Chunk = size - offset
  BY <1>1, ChunkBounds DEF IsLast
<1>3. supply \in 0 .. size /\ supply < size
  BY <1>1 DEF PushInv, TypeOK, Position
<1> QED BY <1>1, <1>2, <1>3 DEF Available, Smaller, Larger

\* A body proves no error of a source that has exactly the declared bytes: no
\* chunk reaches past the end of the blob.
LEMMA ReleaseIsFair ==
  ASSUME PushInv, pc \in InRequest, NEW n, Released(n), length = "exact"
  PROVE  ~srcErr'
<1> USE SizeNat
<1>1. offset < size /\ start = offset /\ offset \in 0 .. size
  BY DEF PushInv, Position, TypeOK
<1>2. supply = size
  BY <1>1 DEF PushInv, TypeOK, Position
<1>3. Available = Chunk
  BY <1>1, <1>2, ChunkBounds DEF Available, Smaller, Larger
<1>4. Chunk \in Nat /\ ~(Available < Chunk)
  BY <1>1, <1>3, ChunkBounds
<1> QED BY <1>4 DEF Released

\* A prefix of the blob that grows by the bytes that follow stays one.
LEMMA Appended ==
  ASSUME size \in Nat, NEW d \in Seq(0 .. size - 1), \A i \in 1 .. Len(d) : d[i] = i - 1,
         Len(d) = pos, NEW n \in Nat, pos \in Nat, pos + n <= size
  PROVE  LET t == d \o SourceBytes(n) IN
         /\ t \in Seq(0 .. size - 1) /\ Len(t) = pos + n
         /\ \A i \in 1 .. Len(t) : t[i] = i - 1
<1> USE SizeNat
<1> DEFINE u == SourceBytes(n)
<1>1. u \in Seq(0 .. size - 1) /\ Len(u) = n /\ \A i \in 1 .. n : u[i] = pos + i - 1
  <2>1. \A i \in 1 .. n : pos + i - 1 \in 0 .. size - 1
    OBVIOUS
  <2> QED BY <2>1 DEF SourceBytes
<1> HIDE DEF u
<1>2. /\ d \o u \in Seq(0 .. size - 1) /\ Len(d \o u) = pos + n
      /\ \A i \in 1 .. pos + n : (d \o u)[i] = IF i <= pos THEN d[i] ELSE u[i - pos]
  BY <1>1, ConcatProperties
<1>3. ASSUME NEW i \in 1 .. pos + n PROVE (d \o u)[i] = i - 1
  BY <1>1, <1>2
<1> QED BY <1>2, <1>3 DEF u
-----------------------------------------------------------------------------
\* An empty blob is pushed from a reader at its end.
LEMMA ProveEmptyInv == ASSUME PushInv, ProveEmpty PROVE PushInv'
<1> USE SizeNat
<1>1. TypeOK'
  BY DEF ProveEmpty, Return, PushInv, TypeOK, given, upload, src, failure, registry, sessions
<1>2. Ownership' /\ Blame'
  BY DEF ProveEmpty, Return, PushInv, Ownership, Blame, src, failure
<1>3. Sessions'
  BY DEF ProveEmpty, Return, PushInv, Sessions, NoSessionForgotten, InRequest, NoSession,
       upload, src, sessions
<1>4. Position'
  BY DEF ProveEmpty, Return, PushInv, Position, InRequest, given, upload, src
<1>5. Contents'
  BY DEF ProveEmpty, Return, PushInv, Contents, SessionsHoldPrefixes, NoSession, Sessions,
       InRequest, upload, src, registry, sessions, given
<1>6. Answered'
  BY DEF ProveEmpty, Return, PushInv, Answered, Available, Chunk, IsLast, given, upload,
       src, registry
<1>7. OKMeansStored' /\ ProgressIsBacked'
  BY DEF ProveEmpty, Return, PushInv, OKMeansStored, ProgressIsBacked, given, registry
<1> QED BY <1>1, <1>2, <1>3, <1>4, <1>5, <1>6, <1>7 DEF PushInv

\* A new session is empty, known and the current one.
LEMMA SessionOpensInv == ASSUME PushInv, SessionOpens PROVE PushInv'
<1> USE SizeNat
<1>1. TypeOK'
  BY DEF SessionOpens, Opened, PushInv, TypeOK, given, src, failure
<1>2. Ownership' /\ Blame'
  BY DEF SessionOpens, Opened, PushInv, Ownership, Blame, src, failure
<1>3. Sessions'
  <2>1. attempt \in Session /\ session' = attempt /\ attempt # NoSession /\ session = NoSession
    BY DEF SessionOpens, PushInv, TypeOK, Sessions, Session, NoSession
  <2>2. NoSessionForgotten'
    BY <2>1 DEF SessionOpens, PushInv, Sessions, NoSessionForgotten, NoSession
  <2> QED BY <2>1, <2>2 DEF SessionOpens, Sessions, InRequest
<1>4. Position'
  BY ChunkBounds DEF SessionOpens, PushInv, Position, InRequest, given, src
<1>5. Contents'
  BY DEF SessionOpens, Opened, PushInv, TypeOK, Contents, SessionsHoldPrefixes,
       NoSession, Sessions, InRequest, src, given
<1>6. Answered'
  <2>1. pc' = "chunk" /\ offset' = size' => length' = "exact"
    BY ChunkBounds DEF SessionOpens, PushInv, Position, given
  <2> QED BY <2>1 DEF SessionOpens, Answered
<1>7. OKMeansStored' /\ ProgressIsBacked'
  BY DEF SessionOpens, Opened, PushInv, OKMeansStored, ProgressIsBacked, given
<1> QED BY <1>1, <1>2, <1>3, <1>4, <1>5, <1>6, <1>7 DEF PushInv

\* A failed POST leaves no session the client knows of.
LEMMA SessionFailsInv == ASSUME PushInv, SessionFails PROVE PushInv'
<1> USE SizeNat
<1>1. TypeOK'
  <2>1. status' \in [Session -> {"none", "open", "stored", "gone"}]
    BY DEF SessionFails, Opened, PushInv, TypeOK
  <2> QED BY <2>1 DEF SessionFails, Fail, PushInv, TypeOK, given, src, sessions
<1>2. Ownership' /\ Blame'
  BY DEF SessionFails, Opened, Fail, PushInv, Ownership, Blame, src
<1>3. Sessions'
  BY DEF SessionFails, Opened, Fail, PushInv, Sessions, NoSessionForgotten, InRequest,
       NoSession, src, sessions
<1>4. Position'
  BY DEF SessionFails, Opened, Fail, PushInv, Position, InRequest, given, src
<1>5. Contents'
  BY DEF SessionFails, Opened, Fail, PushInv, Contents, SessionsHoldPrefixes, NoSession,
       Sessions, InRequest, src, sessions, given
<1>6. Answered'
  BY DEF SessionFails, Opened, Fail, PushInv, Answered, Available, Chunk, IsLast, given,
       src
<1>7. OKMeansStored' /\ ProgressIsBacked'
  BY DEF SessionFails, Opened, Fail, PushInv, OKMeansStored, ProgressIsBacked, given
<1> QED BY <1>1, <1>2, <1>3, <1>4, <1>5, <1>6, <1>7 DEF PushInv

\* A reader that cannot tell its position ends the attempt.
LEMMA PositionFailsInv == ASSUME PushInv, PositionFails PROVE PushInv'
<1> USE SizeNat
<1>1. TypeOK'
  <2>1. retryable' \in BOOLEAN /\ pc' = "cleanup"
    BY DEF PositionFails, Fail
  <2>2. UNCHANGED <<size, chunkSize, seekable, length, supply, ctxDone, attempt, session,
                    minChunk, offset, pos, start, hops, body, srcErr, resp, data, status,
                    stored, known, deleted, progress>>
    BY DEF PositionFails, given, upload, src, registry, sessions
  <2>3. TypeOK
    BY DEF PushInv
  <2> QED BY <2>1, <2>2, <2>3 DEF TypeOK
<1>2. Ownership' /\ Blame'
  <2>1. Ownership'
    BY DEF PositionFails, Fail, PushInv, Ownership, src
  <2>2. Blame'
    BY DEF PositionFails, Fail, PushInv, Blame, src
  <2> QED BY <2>1, <2>2
<1>3. Sessions'
  BY DEF PositionFails, Fail, PushInv, Sessions, NoSessionForgotten, InRequest,
       NoSession, upload, src, sessions
<1>4. Position'
  BY DEF PositionFails, Fail, PushInv, Position, InRequest, given, upload, src
<1>5. Contents'
  BY DEF PositionFails, Fail, PushInv, Contents, SessionsHoldPrefixes, NoSession,
       Sessions, InRequest, upload, src, registry, sessions, given
<1>6. Answered'
  BY DEF PositionFails, Fail, PushInv, Answered, Available, Chunk, IsLast, given,
       upload, src, registry
<1>7. OKMeansStored' /\ ProgressIsBacked'
  BY DEF PositionFails, Fail, PushInv, OKMeansStored, ProgressIsBacked, given, registry
<1> QED BY <1>1, <1>2, <1>3, <1>4, <1>5, <1>6, <1>7 DEF PushInv

\* A new body starts where the reader is.
LEMMA SendBodyInv == ASSUME PushInv, SendBody PROVE PushInv'
<1> USE SizeNat
<1>1. TypeOK'
  BY DEF SendBody, PushInv, TypeOK, given, upload, failure, registry, sessions
<1>2. Ownership' /\ Blame'
  BY DEF SendBody, PushInv, Ownership, Blame, failure
<1>3. Sessions'
  BY DEF SendBody, PushInv, Sessions, NoSessionForgotten, InRequest, NoSession, upload,
       sessions
<1>4. Position'
  BY DEF SendBody, PushInv, Position, InRequest, given, upload
<1>5. Contents'
  BY DEF SendBody, PushInv, Contents, SessionsHoldPrefixes, NoSession, Sessions,
       InRequest, upload, registry, sessions, given
<1>6. Answered'
  BY DEF SendBody, PushInv, Answered, Available, Chunk, IsLast, given, upload, registry
<1>7. OKMeansStored' /\ ProgressIsBacked'
  BY DEF SendBody, PushInv, OKMeansStored, ProgressIsBacked, given, registry
<1> QED BY <1>1, <1>2, <1>3, <1>4, <1>5, <1>6, <1>7 DEF PushInv

\* getBody waits for the body of the previous hop before it goes on.
LEMMA RedirectedInv == ASSUME PushInv, Redirected PROVE PushInv'
<1> USE SizeNat
<1>1. TypeOK'
  <2>1. pos' \in start + 0 .. start + Available /\ srcErr' \in BOOLEAN /\ body' = "released"
    BY DEF Redirected, Released
  <2>2. start = offset /\ offset < size /\ offset \in 0 .. size /\ 0 \in 0 .. size
    BY SizeNat DEF Redirected, PushInv, TypeOK, Position, InRequest
  <2>3. pos' \in 0 .. size
    BY <2>1, <2>2, ChunkBounds
  <2> QED BY <2>1, <2>3 DEF Redirected, PushInv, TypeOK, given, upload, failure, registry, sessions
<1>2. Ownership' /\ Blame'
  BY DEF Redirected, Released, PushInv, Ownership, Blame, failure
<1>3. Sessions'
  BY DEF Redirected, Released, PushInv, Sessions, NoSessionForgotten, InRequest,
       NoSession, upload, sessions
<1>4. Position'
  <2>1. srcErr' => length # "exact"
    BY ReleaseIsFair DEF Redirected, InRequest
  <2> QED BY <2>1 DEF Redirected, Released, PushInv, Position, InRequest, given, upload
<1>5. Contents'
  BY DEF Redirected, Released, PushInv, Contents, SessionsHoldPrefixes, NoSession,
       Sessions, InRequest, upload, registry, sessions, given
<1>6. Answered'
  BY DEF Redirected, Released, PushInv, Answered, Available, Chunk, IsLast, given,
       upload, registry
<1>7. OKMeansStored' /\ ProgressIsBacked'
  BY DEF Redirected, Released, PushInv, OKMeansStored, ProgressIsBacked, given, registry
<1> QED BY <1>1, <1>2, <1>3, <1>4, <1>5, <1>6, <1>7 DEF PushInv

\* The replay starts where the first body did.
LEMMA ReplayInv == ASSUME PushInv, Replay PROVE PushInv'
<1> USE SizeNat
<1>1. TypeOK'
  <2>1. hops' \in 0 .. MaxHops
    BY DEF Replay, PushInv, TypeOK, Sessions
  <2> QED BY <2>1 DEF Replay, PushInv, TypeOK, given, upload, failure, registry, sessions
<1>2. Ownership' /\ Blame'
  BY DEF Replay, PushInv, Ownership, Blame, failure
<1>3. Sessions'
  BY DEF Replay, PushInv, Sessions, NoSessionForgotten, InRequest, NoSession, upload,
       sessions
<1>4. Position'
  BY DEF Replay, PushInv, Position, InRequest, given, upload
<1>5. Contents'
  BY DEF Replay, PushInv, Contents, SessionsHoldPrefixes, NoSession, Sessions,
       InRequest, upload, registry, sessions, given
<1>6. Answered'
  BY DEF Replay, PushInv, Answered, Available, Chunk, IsLast, given, upload, registry
<1>7. OKMeansStored' /\ ProgressIsBacked'
  BY DEF Replay, PushInv, OKMeansStored, ProgressIsBacked, given, registry
<1> QED BY <1>1, <1>2, <1>3, <1>4, <1>5, <1>6, <1>7 DEF PushInv

\* A proved source error ends the request without an answer.
LEMMA ReplayRefusedInv == ASSUME PushInv, ReplayRefused PROVE PushInv'
<1> USE SizeNat
<1>1. TypeOK'
  BY DEF ReplayRefused, NoResp, PushInv, TypeOK, given, upload, src, failure, registry,
       sessions
<1>2. Ownership' /\ Blame'
  BY DEF ReplayRefused, NoResp, PushInv, Ownership, Blame, src, failure
<1>3. Sessions'
  BY DEF ReplayRefused, NoResp, PushInv, Sessions, NoSessionForgotten, InRequest,
       NoSession, upload, src, sessions
<1>4. Position'
  BY DEF ReplayRefused, NoResp, PushInv, Position, InRequest, given, upload, src
<1>5. Contents'
  BY DEF ReplayRefused, NoResp, PushInv, Contents, SessionsHoldPrefixes, NoSession,
       Sessions, InRequest, upload, src, registry, sessions, given
<1>6. Answered'
  BY DEF ReplayRefused, NoResp, PushInv, Answered, Available, Chunk, IsLast, given,
       upload, src, registry
<1>7. OKMeansStored' /\ ProgressIsBacked'
  BY DEF ReplayRefused, NoResp, PushInv, OKMeansStored, ProgressIsBacked, given,
       registry
<1> QED BY <1>1, <1>2, <1>3, <1>4, <1>5, <1>6, <1>7 DEF PushInv

\* A seek that fails ends the request without an answer too.
LEMMA ReplayFailsInv == ASSUME PushInv, ReplayFails PROVE PushInv'
<1> USE SizeNat
<1>1. TypeOK'
  BY DEF ReplayFails, NoResp, PushInv, TypeOK, given, upload, src, failure, registry,
       sessions
<1>2. Ownership' /\ Blame'
  BY DEF ReplayFails, NoResp, PushInv, Ownership, Blame, src, failure
<1>3. Sessions'
  BY DEF ReplayFails, NoResp, PushInv, Sessions, NoSessionForgotten, InRequest,
       NoSession, upload, src, sessions
<1>4. Position'
  BY DEF ReplayFails, NoResp, PushInv, Position, InRequest, given, upload, src
<1>5. Contents'
  BY DEF ReplayFails, NoResp, PushInv, Contents, SessionsHoldPrefixes, NoSession,
       Sessions, InRequest, upload, src, registry, sessions, given
<1>6. Answered'
  BY DEF ReplayFails, NoResp, PushInv, Answered, Available, Chunk, IsLast, given,
       upload, src, registry
<1>7. OKMeansStored' /\ ProgressIsBacked'
  BY DEF ReplayFails, NoResp, PushInv, OKMeansStored, ProgressIsBacked, given,
       registry
<1> QED BY <1>1, <1>2, <1>3, <1>4, <1>5, <1>6, <1>7 DEF PushInv

\* Whatever the registry kept extends its prefix of the blob.
LEMMA RequestEndsInv == ASSUME PushInv, RequestEnds PROVE PushInv'
<1> USE SizeNat
<1> DEFINE Kinds == {"accepted", "retry", "reject", "redirect", "lost", "fatal"}
<1>a. PICK n \in 0 .. Available, k \in Kinds :
        /\ Received(n)
        /\ k = "accepted" /\ chunkSize = 0 /\ n = Chunk => stored'
        /\ resp' = [kind |-> k, sent |-> n, ack |-> Len(data'[session]) - 1]
  BY DEF RequestEnds
<1>b. /\ session \in Session /\ session = attempt /\ pos = start /\ start = offset
      /\ offset < size /\ offset \in 0 .. size
      /\ data \in [Session -> Seq(0 .. size - 1)] /\ Len(data[session]) = pos
      /\ \A s \in Session : \A i \in 1 .. Len(data[s]) : data[s][i] = i - 1
      /\ \A s \in Session : Len(data[s]) <= size
  BY DEF RequestEnds, PushInv, TypeOK, Ownership, Sessions, Position, Contents,
       SessionsHoldPrefixes, InRequest
<1>c. n \in Nat /\ n <= Available /\ n <= Chunk /\ pos + n <= size /\ pos + n \in Nat
  BY <1>a, <1>b, ChunkBounds
<1>d. /\ data' \in [Session -> Seq(0 .. size - 1)] /\ Len(data'[session]) \in 0 .. size
      /\ \A s \in Session : s # session => data'[s] = data[s]
      /\ Len(data[session]) <= Len(data'[session])
      /\ \A i \in 1 .. Len(data'[session]) : data'[session][i] = i - 1
      /\ status' \in [Session -> {"none", "open", "stored", "gone"}] /\ stored' \in BOOLEAN
      /\ stored => stored'
      /\ stored' => stored \/ Len(data'[session]) = size
  <2>1. CASE UNCHANGED registry
    BY <1>b, <2>1 DEF registry, PushInv, TypeOK
  <2>2. CASE ~UNCHANGED registry
    <3> DEFINE d == data[session] \o SourceBytes(n)
    <3>1. /\ data' = [data EXCEPT ![session] = d]
          /\ \/ UNCHANGED <<status, stored>>
             \/ Whole(d) /\ status' = [status EXCEPT ![session] = "stored"] /\ stored' = TRUE
      BY <1>a, <2>2 DEF Received
    <3>2. /\ d \in Seq(0 .. size - 1) /\ Len(d) = pos + n
          /\ \A i \in 1 .. Len(d) : d[i] = i - 1
      BY <1>b, <1>c, Appended
    <3>3. Whole(d) => Len(d) = size
      BY DEF Whole
    <3>4. data'[session] = d
      BY <1>b, <3>1
    <3>5. status' \in [Session -> {"none", "open", "stored", "gone"}] /\ stored' \in BOOLEAN
      BY <3>1 DEF PushInv, TypeOK
    <3> HIDE DEF d
    <3>6. /\ data' \in [Session -> Seq(0 .. size - 1)]
          /\ \A s \in Session : s # session => data'[s] = data[s]
      BY <1>b, <3>1, <3>2
    <3>7. Len(data'[session]) \in 0 .. size /\ Len(data[session]) <= Len(data'[session])
      BY <1>b, <1>c, <3>2, <3>4
    <3> QED BY <3>1, <3>2, <3>3, <3>4, <3>5, <3>6, <3>7
  <2> QED BY <2>1, <2>2
<1>1. TypeOK'
  <2>1. resp'.kind \in Kinds /\ resp'.sent \in 0 .. size /\ resp'.ack \in -1 .. size - 1
    BY <1>a, <1>b, <1>c, <1>d
  <2>2. size' = size /\ data' \in [Session -> Seq(0 .. size' - 1)]
    BY <1>d DEF RequestEnds, given
  <2>3. /\ size' \in Sizes /\ chunkSize' \in ChunkSizes /\ seekable' \in BOOLEAN
        /\ length' \in {"short", "exact", "long"} /\ ctxDone' \in BOOLEAN
        /\ supply' \in 0 .. size'
        /\ attempt' \in Session /\ session' \in {NoSession, attempt'}
        /\ minChunk' \in MinChunks \cup {0} /\ offset' \in 0 .. size'
        /\ pos' \in 0 .. size' /\ start' \in 0 .. size' /\ hops' \in 0 .. MaxHops
        /\ body' \in {"none", "active", "released"} /\ srcErr' \in BOOLEAN
        /\ retryable' \in BOOLEAN /\ known' \subseteq Session /\ deleted' \subseteq known'
        /\ progress' \in 0 .. size' /\ pc' = "release"
    BY DEF RequestEnds, PushInv, TypeOK, given, upload, src, failure, sessions
  <2> QED BY <1>d, <2>1, <2>2, <2>3 DEF TypeOK
<1>2. Ownership' /\ Blame'
  BY DEF RequestEnds, Received, PushInv, Ownership, Blame, src, failure
<1>3. Sessions'
  BY DEF RequestEnds, Received, PushInv, Sessions, NoSessionForgotten, InRequest,
       NoSession, upload, src, sessions
<1>4. Position'
  BY DEF RequestEnds, Received, PushInv, Position, InRequest, given, upload, src
<1>5. Contents'
  <2>1. SessionsHoldPrefixes' /\ \A s \in Session : Len(data'[s]) <= size
    <3>1. ASSUME NEW s \in Session
          PROVE  Len(data'[s]) <= size /\ \A i \in 1 .. Len(data'[s]) : data'[s][i] = i - 1
      <4>1. CASE s = session
        BY <1>d, <4>1
      <4>2. CASE s # session
        BY <1>b, <1>d, <4>2
      <4> QED BY <4>1, <4>2
    <3> QED BY <3>1 DEF SessionsHoldPrefixes
  <2>2. \A s \in Session : s > attempt' \/ (s = attempt' /\ pc' \in {"probe", "open"})
               => data'[s] = <<>>
    BY <1>b, <1>d DEF RequestEnds, PushInv, TypeOK, Contents, Session
  <2>3. stored' => \E s \in Session : Len(data'[s]) = size
    <3>1. CASE Len(data'[session]) = size
      BY <1>b, <3>1
    <3>2. CASE Len(data'[session]) # size /\ stored'
      <4>1. PICK s \in Session : Len(data[s]) = size
        BY <1>d, <3>2 DEF PushInv, Contents
      <4>2. s # session
        BY <1>b, <1>d, <3>2, <4>1
      <4> QED BY <1>d, <4>1, <4>2
    <3> QED BY <3>1, <3>2
  <2> QED BY <2>1, <2>2, <2>3 DEF RequestEnds, Contents, given
<1>6. Answered'
  <2>1. Available' = Available /\ Chunk' = Chunk
    BY DEF RequestEnds, Available, Chunk, given, upload, src
  <2>2. resp'.kind = k /\ resp'.sent = n /\ resp'.ack = Len(data'[session]) - 1
    BY <1>a
  <2> QED BY <1>a, <1>c, <2>1, <2>2 DEF RequestEnds, Answered, given, upload
<1>7. OKMeansStored' /\ ProgressIsBacked'
  <2>1. PICK s \in Session : progress <= Len(data[s])
    BY DEF PushInv, ProgressIsBacked
  <2>2. progress' <= Len(data'[s])
    <3>1. progress' = progress /\ progress \in Nat
      BY SizeNat DEF RequestEnds, PushInv, TypeOK
    <3>2. CASE s = session
      BY <1>b, <1>d, <2>1, <3>1, <3>2
    <3>3. CASE s # session
      BY <1>d, <2>1, <3>1, <3>3
    <3> QED BY <3>2, <3>3
  <2> QED BY <1>d, <2>2 DEF RequestEnds, PushInv, OKMeansStored, ProgressIsBacked, given
<1> QED BY <1>1, <1>2, <1>3, <1>4, <1>5, <1>6, <1>7 DEF PushInv

\* A complete body left the source at the end of the chunk.
LEMMA BodyReleasedInv == ASSUME PushInv, BodyReleased PROVE PushInv'
<1> USE SizeNat
<1>1. TypeOK'
  <2>1. pos' \in start + resp.sent .. start + Available /\ srcErr' \in BOOLEAN /\ body' = "released"
    BY DEF BodyReleased, Released
  <2>2. start = offset /\ offset < size /\ offset \in 0 .. size /\ resp.sent \in 0 .. size
    BY SizeNat DEF BodyReleased, PushInv, TypeOK, Position, InRequest
  <2>3. pos' \in 0 .. size
    BY <2>1, <2>2, ChunkBounds
  <2> QED BY <2>1, <2>3 DEF BodyReleased, PushInv, TypeOK, given, upload, failure, registry, sessions
<1>2. Ownership' /\ Blame'
  BY DEF BodyReleased, Released, PushInv, Ownership, Blame, failure
<1>3. Sessions'
  BY DEF BodyReleased, Released, PushInv, Sessions, NoSessionForgotten, InRequest,
       NoSession, upload, sessions
<1>4. Position'
  <2>1. srcErr' => length # "exact"
    BY ReleaseIsFair DEF BodyReleased, InRequest
  <2> QED BY <2>1 DEF BodyReleased, Released, PushInv, Position, InRequest, given, upload
<1>5. Contents'
  BY DEF BodyReleased, Released, PushInv, Contents, SessionsHoldPrefixes, NoSession,
       Sessions, InRequest, upload, registry, sessions, given
<1>6. Answered'
  <2>1. Available' = Available /\ Chunk' = Chunk /\ IsLast' = IsLast
    BY DEF BodyReleased, Available, Chunk, IsLast, given, upload
  <2>2. /\ start = offset /\ offset < size /\ offset \in 0 .. size
        /\ resp.sent \in 0 .. size /\ resp.sent <= Available
    BY DEF BodyReleased, PushInv, TypeOK, Position, InRequest, Answered
  <2>3. /\ pos' \in start + resp.sent .. start + Available
        /\ IsLast /\ pos' = start + Available /\ length = "long" => srcErr'
    BY DEF BodyReleased, Released
  <2>4. resp.sent = Chunk => Available = Chunk /\ pos' = offset + Chunk
    BY <2>2, <2>3, ChunkBounds
  <2>5. resp.sent = Chunk /\ IsLast /\ ~srcErr' => length = "exact"
    <3>1. resp.sent = Chunk /\ IsLast => length # "short"
      BY <2>2, ChunkBounds, ShortIsShort DEF BodyReleased, InRequest
    <3> QED BY <2>2, <2>3, <2>4, <3>1 DEF PushInv, TypeOK
  <2> QED BY <2>1, <2>4, <2>5
         DEF BodyReleased, PushInv, Answered, given, upload, registry
<1>7. OKMeansStored' /\ ProgressIsBacked'
  BY DEF BodyReleased, Released, PushInv, OKMeansStored, ProgressIsBacked, given,
       registry
<1> QED BY <1>1, <1>2, <1>3, <1>4, <1>5, <1>6, <1>7 DEF PushInv

\* A request that failed is blamed on the source if the body proved it.
LEMMA SettleFailureInv == ASSUME PushInv, SettleFailure PROVE PushInv'
<1> USE SizeNat
<1>1. TypeOK'
  <2>1. retryable' \in BOOLEAN /\ pc' = "cleanup"
    <3>1. CASE srcErr
      BY <3>1 DEF SettleFailure, Fail
    <3>2. CASE ~srcErr
      <4>1. retryable' = (resp.kind \in {"retry", "lost"}) /\ pc' = "cleanup"
        BY <3>2 DEF SettleFailure, Fail
      <4> QED BY <4>1
    <3> QED BY <3>1, <3>2
  <2> QED BY <2>1 DEF SettleFailure, PushInv, TypeOK, given, upload, src, registry, sessions
<1>2. Ownership' /\ Blame'
  BY DEF SettleFailure, Fail, PushInv, TypeOK, Ownership, Blame, src
<1>3. Sessions'
  BY DEF SettleFailure, Fail, PushInv, Sessions, NoSessionForgotten, InRequest,
       NoSession, upload, src, sessions
<1>4. Position'
  BY DEF SettleFailure, Fail, PushInv, Position, InRequest, given, upload, src
<1>5. Contents'
  BY DEF SettleFailure, Fail, PushInv, Contents, SessionsHoldPrefixes, NoSession,
       Sessions, InRequest, upload, src, registry, sessions, given
<1>6. Answered'
  BY DEF SettleFailure, Fail, PushInv, Answered, Available, Chunk, IsLast, given,
       upload, src, registry
<1>7. OKMeansStored' /\ ProgressIsBacked'
  BY DEF SettleFailure, Fail, PushInv, OKMeansStored, ProgressIsBacked, given, registry
<1> QED BY <1>1, <1>2, <1>3, <1>4, <1>5, <1>6, <1>7 DEF PushInv

\* An accepted body that does not validate fails the attempt.
LEMMA SettleInvalidInv == ASSUME PushInv, SettleInvalid PROVE PushInv'
<1> USE SizeNat
<1>1. TypeOK'
  BY DEF SettleInvalid, Fail, Validates, PushInv, TypeOK, given, upload, src, registry,
       sessions
<1>2. Ownership' /\ Blame'
  BY DEF SettleInvalid, Fail, Validates, PushInv, Ownership, Blame, src
<1>3. Sessions'
  BY DEF SettleInvalid, Fail, Validates, PushInv, Sessions, NoSessionForgotten,
       InRequest, NoSession, upload, src, sessions
<1>4. Position'
  BY DEF SettleInvalid, Fail, Validates, PushInv, Position, InRequest, given, upload,
       src
<1>5. Contents'
  BY DEF SettleInvalid, Fail, Validates, PushInv, Contents, SessionsHoldPrefixes,
       NoSession, Sessions, InRequest, upload, src, registry, sessions, given
<1>6. Answered'
  BY DEF SettleInvalid, Fail, Validates, PushInv, Answered, Available, Chunk, IsLast,
       given, upload, src, registry
<1>7. OKMeansStored' /\ ProgressIsBacked'
  BY DEF SettleInvalid, Fail, Validates, PushInv, OKMeansStored, ProgressIsBacked,
       given, registry
<1> QED BY <1>1, <1>2, <1>3, <1>4, <1>5, <1>6, <1>7 DEF PushInv

\* A validated 201 means an exact source and a stored blob.
LEMMA SettleCommitInv == ASSUME PushInv, SettleCommit PROVE PushInv'
<1> USE SizeNat
<1>a. resp.sent = Chunk /\ offset < size /\ offset \in 0 .. size /\ progress \in 0 .. size
  BY DEF SettleCommit, Validates, PushInv, TypeOK, Position, InRequest
<1>b. Chunk \in 0 .. size - offset /\ chunkSize \in Nat
  BY <1>a, ChunkBounds

<1>c. offset = 0 /\ Chunk = size /\ IsLast
  BY SizeNat DEF SettleCommit, PushInv, Position, Chunk, IsLast
<1>d. stored /\ length = "exact" /\ \E s \in Session : Len(data[s]) = size
  BY <1>a, <1>c DEF SettleCommit, Validates, PushInv, Answered, Contents
<1>1. TypeOK'
  <2>1. progress' \in 0 .. size
    BY <1>a DEF SettleCommit, Advanced, Larger
  <2> QED BY <2>1 DEF SettleCommit, PushInv, TypeOK, given, upload, src, failure, registry, sessions
<1>2. Ownership' /\ Blame'
  BY DEF SettleCommit, Validates, Advanced, PushInv, Ownership, Blame, src, failure
<1>3. Sessions'
  BY DEF SettleCommit, Validates, Advanced, PushInv, Sessions, NoSessionForgotten,
       InRequest, NoSession, upload, src, sessions
<1>4. Position'
  BY DEF SettleCommit, Validates, Advanced, PushInv, Position, InRequest, given, upload,
       src
<1>5. Contents'
  BY DEF SettleCommit, Validates, Advanced, PushInv, Contents, SessionsHoldPrefixes,
       NoSession, Sessions, InRequest, upload, src, registry, sessions, given
<1>6. Answered'
  BY DEF SettleCommit, Validates, Advanced, PushInv, Answered, Available, Chunk, IsLast,
       given, upload, src, registry
<1>7. OKMeansStored' /\ ProgressIsBacked'
  <2>1. progress' <= size
    BY <1>a DEF SettleCommit, Advanced, Larger
  <2> QED BY <1>d, <2>1 DEF SettleCommit, OKMeansStored, ProgressIsBacked, given, registry
<1> QED BY <1>1, <1>2, <1>3, <1>4, <1>5, <1>6, <1>7 DEF PushInv

\* A chunk the registry dropped fails the attempt.
LEMMA SettleDroppedInv == ASSUME PushInv, SettleDropped PROVE PushInv'
<1> USE SizeNat
<1>1. TypeOK'
  BY DEF SettleDropped, Fail, Validates, PushInv, TypeOK, given, upload, src, registry,
       sessions
<1>2. Ownership' /\ Blame'
  BY DEF SettleDropped, Fail, Validates, PushInv, Ownership, Blame, src
<1>3. Sessions'
  BY DEF SettleDropped, Fail, Validates, PushInv, Sessions, NoSessionForgotten,
       InRequest, NoSession, upload, src, sessions
<1>4. Position'
  BY DEF SettleDropped, Fail, Validates, PushInv, Position, InRequest, given, upload,
       src
<1>5. Contents'
  BY DEF SettleDropped, Fail, Validates, PushInv, Contents, SessionsHoldPrefixes,
       NoSession, Sessions, InRequest, upload, src, registry, sessions, given
<1>6. Answered'
  BY DEF SettleDropped, Fail, Validates, PushInv, Answered, Available, Chunk, IsLast,
       given, upload, src, registry
<1>7. OKMeansStored' /\ ProgressIsBacked'
  BY DEF SettleDropped, Fail, Validates, PushInv, OKMeansStored, ProgressIsBacked,
       given, registry
<1> QED BY <1>1, <1>2, <1>3, <1>4, <1>5, <1>6, <1>7 DEF PushInv

\* An acknowledged chunk is in the session, and the reader is behind it.
LEMMA SettleChunkInv == ASSUME PushInv, SettleChunk PROVE PushInv'
<1> USE SizeNat
<1>a. resp.sent = Chunk /\ offset < size /\ offset \in 0 .. size /\ progress \in 0 .. size
  BY DEF SettleChunk, Validates, PushInv, TypeOK, Position, InRequest
<1>b. Chunk \in 0 .. size - offset /\ chunkSize \in Nat
  BY <1>a, ChunkBounds

<1>c. /\ attempt \in Session /\ session = attempt
      /\ Len(data[session]) = offset + Chunk /\ pos = offset + Chunk
  <2>1. resp.ack = offset + Chunk - 1 /\ resp.ack = Len(data[session]) - 1
    BY DEF SettleChunk, PushInv, Answered
  <2>2. session = attempt /\ attempt \in Session /\ Len(data[session]) \in Nat
    BY DEF SettleChunk, PushInv, TypeOK, Sessions, InRequest
  <2>3. pos = offset + Chunk
    BY <1>a DEF SettleChunk, PushInv, Answered
  <2> QED BY <1>a, <1>b, <2>1, <2>2, <2>3
<1>d. offset' \in {offset, offset + Chunk} /\ (pc' = "chunk" => offset' = offset + Chunk)
  BY DEF SettleChunk, Fail
<1>e. progress' \in {progress, Larger(progress, offset + Chunk)} /\ pc' \in {"chunk", "cleanup"}
  BY DEF SettleChunk, Fail, Advanced
<1>1. TypeOK'
  <2>1. offset' \in 0 .. size /\ progress' \in 0 .. size
    BY <1>a, <1>b, <1>d, <1>e DEF Larger
  <2>2. retryable' \in BOOLEAN
    BY DEF SettleChunk, Fail, PushInv, TypeOK, failure
  <2> QED BY <1>e, <2>1, <2>2 DEF SettleChunk, PushInv, TypeOK, given, src, registry, sessions
<1>2. Ownership' /\ Blame'
  BY DEF SettleChunk, Fail, Validates, Advanced, PushInv, Ownership, Blame, src, failure
<1>3. Sessions'
  BY DEF SettleChunk, Fail, Validates, Advanced, PushInv, Sessions, NoSessionForgotten,
       InRequest, NoSession, src, sessions
<1>4. Position'
  BY <1>c, <1>d, <1>e DEF SettleChunk, PushInv, Position, InRequest, given, src
<1>5. Contents'
  BY <1>c, <1>d, <1>e DEF SettleChunk, PushInv, Contents, SessionsHoldPrefixes, registry,
       given
<1>6. Answered'
  BY DEF SettleChunk, Fail, Validates, Advanced, PushInv, Answered, Available, Chunk,
       IsLast, given, src, registry
<1>7. OKMeansStored' /\ ProgressIsBacked'
  <2>1. progress' <= progress \/ progress' = offset + Chunk
    BY <1>a, <1>b, <1>e DEF Larger
  <2>2. PICK s \in Session : progress <= Len(data[s])
    BY DEF PushInv, ProgressIsBacked
  <2>3. Len(data[s]) \in Nat
    BY DEF PushInv, TypeOK
  <2>4. progress' <= Len(data[s]) \/ progress' <= Len(data[session])
    BY <1>a, <1>b, <1>c, <1>e, <2>1, <2>2, <2>3 DEF Larger
  <2> QED BY <1>c, <2>4 DEF SettleChunk, PushInv, OKMeansStored, ProgressIsBacked, given, registry
<1> QED BY <1>1, <1>2, <1>3, <1>4, <1>5, <1>6, <1>7 DEF PushInv

\* Once all chunks are acknowledged the source proved exact.
LEMMA CommitNoBodyInv == ASSUME PushInv, CommitNoBody PROVE PushInv'
<1> USE SizeNat
<1>1. TypeOK'
  <2>1. /\ status' \in [Session -> {"none", "open", "stored", "gone"}]
        /\ stored' \in BOOLEAN
    BY DEF CommitNoBody, PushInv, TypeOK
  <2>2. pc' \in {"done", "cleanup"} /\ retryable' \in BOOLEAN
    BY DEF CommitNoBody, Fail, PushInv, TypeOK, failure
  <2> QED BY <2>1, <2>2 DEF CommitNoBody, PushInv, TypeOK, given, upload, src, sessions
<1>2. Ownership' /\ Blame'
  BY DEF CommitNoBody, Fail, Whole, PushInv, Ownership, Blame, src, failure
<1>3. Sessions'
  BY DEF CommitNoBody, Fail, Whole, PushInv, Sessions, NoSessionForgotten, InRequest,
       NoSession, upload, src, sessions
<1>4. Position'
  BY DEF CommitNoBody, Fail, Whole, PushInv, Position, InRequest, given, upload, src
<1>5. Contents'
  <2>1. Whole(data[session]) => Len(data[session]) = size
    BY DEF Whole
  <2>2. stored' => stored \/ Whole(data[session])
    BY DEF CommitNoBody
  <2>3. session \in Session
    BY DEF CommitNoBody, PushInv, TypeOK, Sessions
  <2>4. stored' => \E s \in Session : Len(data[s]) = size
    BY <2>1, <2>2, <2>3 DEF PushInv, Contents
  <2>5. pc' \in {"done", "cleanup"} /\ UNCHANGED <<data, attempt, size>>
    BY DEF CommitNoBody, Fail, given
  <2>6. \A s \in Session : s > attempt => data[s] = <<>>
    BY DEF PushInv, Contents
  <2> QED BY <2>4, <2>5, <2>6 DEF PushInv, Contents, SessionsHoldPrefixes
<1>6. Answered'
  BY DEF CommitNoBody, Fail, Whole, PushInv, Answered, Available, Chunk, IsLast, given,
       upload, src
<1>7. OKMeansStored' /\ ProgressIsBacked'
  <2>1. length = "exact" /\ (stored => stored') /\ (result' = "ok" => result = "ok" \/ stored')
    BY DEF CommitNoBody, PushInv, Answered, Position
  <2> QED BY <2>1 DEF CommitNoBody, PushInv, OKMeansStored, ProgressIsBacked, given
<1> QED BY <1>1, <1>2, <1>3, <1>4, <1>5, <1>6, <1>7 DEF PushInv

\* The current session is sent its DELETE.
LEMMA CleanupInv == ASSUME PushInv, Cleanup PROVE PushInv'
<1> USE SizeNat
<1>1. TypeOK'
  <2>1. status' \in [Session -> {"none", "open", "stored", "gone"}]
    BY DEF Cleanup, PushInv, TypeOK
  <2>2. deleted' \subseteq known' /\ known' \subseteq Session /\ session' \in {NoSession, attempt}
    BY DEF Cleanup, PushInv, TypeOK, Sessions
  <2> QED BY <2>1, <2>2 DEF Cleanup, PushInv, TypeOK, given, src, failure
<1>2. Ownership' /\ Blame'
  BY DEF Cleanup, PushInv, Ownership, Blame, src, failure
<1>3. Sessions'
  BY DEF Cleanup, PushInv, Sessions, NoSessionForgotten, InRequest, NoSession, src
<1>4. Position'
  BY DEF Cleanup, PushInv, Position, InRequest, given, src
<1>5. Contents'
  BY DEF Cleanup, PushInv, Contents, SessionsHoldPrefixes, NoSession, Sessions,
       InRequest, src, given
<1>6. Answered'
  BY DEF Cleanup, PushInv, Answered, Available, Chunk, IsLast, given, src
<1>7. OKMeansStored' /\ ProgressIsBacked'
  BY DEF Cleanup, PushInv, OKMeansStored, ProgressIsBacked, given
<1> QED BY <1>1, <1>2, <1>3, <1>4, <1>5, <1>6, <1>7 DEF PushInv

\* No DELETE: there is no session, or the context is done.
LEMMA NoCleanupInv == ASSUME PushInv, NoCleanup PROVE PushInv'
<1> USE SizeNat
<1>1. TypeOK'
  BY DEF NoCleanup, PushInv, TypeOK, given, src, failure, registry, sessions
<1>2. Ownership' /\ Blame'
  BY DEF NoCleanup, PushInv, Ownership, Blame, src, failure
<1>3. Sessions'
  BY DEF NoCleanup, PushInv, Sessions, NoSessionForgotten, InRequest, NoSession, src,
       sessions
<1>4. Position'
  BY DEF NoCleanup, PushInv, Position, InRequest, given, src
<1>5. Contents'
  BY DEF NoCleanup, PushInv, Contents, SessionsHoldPrefixes, NoSession, Sessions,
       InRequest, src, registry, sessions, given
<1>6. Answered'
  BY DEF NoCleanup, PushInv, Answered, Available, Chunk, IsLast, given, src, registry
<1>7. OKMeansStored' /\ ProgressIsBacked'
  BY DEF NoCleanup, PushInv, OKMeansStored, ProgressIsBacked, given, registry
<1> QED BY <1>1, <1>2, <1>3, <1>4, <1>5, <1>6, <1>7 DEF PushInv

\* The attempt was the last one.
LEMMA GiveUpInv == ASSUME PushInv, GiveUp PROVE PushInv'
<1> USE SizeNat
<1>1. TypeOK'
  BY DEF GiveUp, Return, PushInv, TypeOK, given, upload, src, failure, registry,
       sessions
<1>2. Ownership' /\ Blame'
  BY DEF GiveUp, Return, PushInv, Ownership, Blame, src, failure
<1>3. Sessions'
  BY DEF GiveUp, Return, PushInv, Sessions, NoSessionForgotten, InRequest, NoSession,
       upload, src, sessions
<1>4. Position'
  BY DEF GiveUp, Return, PushInv, Position, InRequest, given, upload, src
<1>5. Contents'
  BY DEF GiveUp, Return, PushInv, Contents, SessionsHoldPrefixes, NoSession, Sessions,
       InRequest, upload, src, registry, sessions, given
<1>6. Answered'
  BY DEF GiveUp, Return, PushInv, Answered, Available, Chunk, IsLast, given, upload,
       src, registry
<1>7. OKMeansStored' /\ ProgressIsBacked'
  BY DEF GiveUp, Return, PushInv, Blame, OKMeansStored, ProgressIsBacked, given, registry
<1> QED BY <1>1, <1>2, <1>3, <1>4, <1>5, <1>6, <1>7 DEF PushInv

\* The reader goes back to its beginning, between bodies.
LEMMA RewindInv == ASSUME PushInv, Rewind PROVE PushInv'
<1> USE SizeNat
<1>1. TypeOK'
  BY DEF Rewind, PushInv, TypeOK, given, upload, failure, registry, sessions
<1>2. Ownership' /\ Blame'
  BY DEF Rewind, PushInv, Ownership, Blame, failure
<1>3. Sessions'
  <2>1. attempt < MaxAttempts
    BY DEF Rewind, PushInv, TypeOK, Session
  <2>2. NoSessionForgotten'
    BY DEF Rewind, PushInv, Sessions, NoSessionForgotten, upload, sessions
  <2> QED BY <2>1, <2>2 DEF Rewind, PushInv, Sessions, InRequest, upload, sessions
<1>4. Position'
  BY DEF Rewind, PushInv, Position, InRequest, given, upload
<1>5. Contents'
  BY DEF Rewind, PushInv, Contents, SessionsHoldPrefixes, NoSession, Sessions,
       InRequest, upload, registry, sessions, given
<1>6. Answered'
  BY DEF Rewind, PushInv, Answered, Available, Chunk, IsLast, given, upload, registry
<1>7. OKMeansStored' /\ ProgressIsBacked'
  BY DEF Rewind, PushInv, OKMeansStored, ProgressIsBacked, given, registry
<1> QED BY <1>1, <1>2, <1>3, <1>4, <1>5, <1>6, <1>7 DEF PushInv

\* A rewind that fails ends the Push.
LEMMA RewindFailsInv == ASSUME PushInv, RewindFails PROVE PushInv'
<1> USE SizeNat
<1>1. TypeOK'
  BY DEF RewindFails, Return, PushInv, TypeOK, given, upload, src, failure, registry,
       sessions
<1>2. Ownership' /\ Blame'
  BY DEF RewindFails, Return, PushInv, Ownership, Blame, src, failure
<1>3. Sessions'
  BY DEF RewindFails, Return, PushInv, Sessions, NoSessionForgotten, InRequest,
       NoSession, upload, src, sessions
<1>4. Position'
  BY DEF RewindFails, Return, PushInv, Position, InRequest, given, upload, src
<1>5. Contents'
  BY DEF RewindFails, Return, PushInv, Contents, SessionsHoldPrefixes, NoSession,
       Sessions, InRequest, upload, src, registry, sessions, given
<1>6. Answered'
  BY DEF RewindFails, Return, PushInv, Answered, Available, Chunk, IsLast, given,
       upload, src, registry
<1>7. OKMeansStored' /\ ProgressIsBacked'
  BY DEF RewindFails, Return, PushInv, OKMeansStored, ProgressIsBacked, given,
       registry
<1> QED BY <1>1, <1>2, <1>3, <1>4, <1>5, <1>6, <1>7 DEF PushInv

\* The next attempt has a session of its own, still empty.
LEMMA SleepEndsInv == ASSUME PushInv, SleepEnds PROVE PushInv'
<1> USE SizeNat
<1>1. TypeOK'
  <2>1. attempt' \in Session /\ session' = NoSession
    BY DEF SleepEnds, PushInv, TypeOK, Sessions, Session, upload
  <2>2. /\ pc' \in {"probe", "open", "chunk", "commit", "request", "hop", "release", "settle",
                   "cleanup", "decide", "sleep", "done"}
        /\ attempt' \in Session /\ session' \in {NoSession, attempt'}
    BY <2>1 DEF SleepEnds
  <2>3. /\ UNCHANGED <<size, chunkSize, seekable, length, supply, ctxDone, minChunk, offset, pos, start,
                       hops, body, srcErr, resp, retryable, data, status, stored, known, deleted,
                       progress>>
    BY DEF SleepEnds, given, upload, src, failure, registry, sessions
  <2>4. TypeOK
    BY DEF PushInv
  <2> QED BY <2>2, <2>3, <2>4 DEF TypeOK
<1>2. Ownership' /\ Blame'
  BY DEF SleepEnds, PushInv, Ownership, Blame, src, failure
<1>3. Sessions'
  BY DEF SleepEnds, PushInv, Sessions, NoSessionForgotten, InRequest, NoSession, upload,
       src, sessions
<1>4. Position'
  BY DEF SleepEnds, PushInv, Position, InRequest, given, upload, src
<1>5. Contents'
  <2>1. \A s \in Session : s >= attempt' => s > attempt
    BY DEF SleepEnds, PushInv, TypeOK, Session
  <2>2. \A s \in Session : s > attempt' \/ (s = attempt' /\ pc' \in {"probe", "open"})
               => data'[s] = <<>>
    BY <2>1 DEF SleepEnds, PushInv, TypeOK, Contents, Session, registry
  <2> QED BY <2>2 DEF SleepEnds, PushInv, Contents, SessionsHoldPrefixes, registry, given
<1>6. Answered'
  BY DEF SleepEnds, PushInv, Answered, Available, Chunk, IsLast, given, upload, src,
       registry
<1>7. OKMeansStored' /\ ProgressIsBacked'
  BY DEF SleepEnds, PushInv, OKMeansStored, ProgressIsBacked, given, registry
<1> QED BY <1>1, <1>2, <1>3, <1>4, <1>5, <1>6, <1>7 DEF PushInv

\* The context ends the backoff.
LEMMA SleepCanceledInv == ASSUME PushInv, SleepCanceled PROVE PushInv'
<1> USE SizeNat
<1>1. TypeOK'
  BY DEF SleepCanceled, Return, PushInv, TypeOK, given, upload, src, failure, registry,
       sessions
<1>2. Ownership' /\ Blame'
  BY DEF SleepCanceled, Return, PushInv, Ownership, Blame, src, failure
<1>3. Sessions'
  BY DEF SleepCanceled, Return, PushInv, Sessions, NoSessionForgotten, InRequest,
       NoSession, upload, src, sessions
<1>4. Position'
  BY DEF SleepCanceled, Return, PushInv, Position, InRequest, given, upload, src
<1>5. Contents'
  BY DEF SleepCanceled, Return, PushInv, Contents, SessionsHoldPrefixes, NoSession,
       Sessions, InRequest, upload, src, registry, sessions, given
<1>6. Answered'
  BY DEF SleepCanceled, Return, PushInv, Answered, Available, Chunk, IsLast, given,
       upload, src, registry
<1>7. OKMeansStored' /\ ProgressIsBacked'
  BY DEF SleepCanceled, Return, PushInv, OKMeansStored, ProgressIsBacked, given,
       registry
<1> QED BY <1>1, <1>2, <1>3, <1>4, <1>5, <1>6, <1>7 DEF PushInv

\* The caller may cancel at any time.
LEMMA CallerCancelsInv == ASSUME PushInv, CallerCancels PROVE PushInv'
<1> USE SizeNat
<1>1. TypeOK'
  BY DEF CallerCancels, PushInv, TypeOK, given, upload, src, failure, registry, sessions
<1>2. Ownership' /\ Blame'
  BY DEF CallerCancels, PushInv, Ownership, Blame, src, failure
<1>3. Sessions'
  BY DEF CallerCancels, PushInv, Sessions, NoSessionForgotten, InRequest, NoSession,
       upload, src, sessions
<1>4. Position'
  BY DEF CallerCancels, PushInv, Position, InRequest, given, upload, src
<1>5. Contents'
  BY DEF CallerCancels, PushInv, Contents, SessionsHoldPrefixes, NoSession, Sessions,
       InRequest, upload, src, registry, sessions, given
<1>6. Answered'
  BY DEF CallerCancels, PushInv, Answered, Available, Chunk, IsLast, given, upload, src,
       registry
<1>7. OKMeansStored' /\ ProgressIsBacked'
  BY DEF CallerCancels, PushInv, OKMeansStored, ProgressIsBacked, given, registry
<1> QED BY <1>1, <1>2, <1>3, <1>4, <1>5, <1>6, <1>7 DEF PushInv

-----------------------------------------------------------------------------
\* Every step preserves the invariant.
LEMMA NextInv == ASSUME PushInv, [Next]_vars PROVE PushInv'
<1>1. CASE ProveEmpty \/ SessionOpens \/ SessionFails \/ PositionFails
  BY <1>1, ProveEmptyInv, SessionOpensInv, SessionFailsInv, PositionFailsInv
<1>2. CASE \/ SendBody \/ Redirected \/ Replay \/ ReplayRefused \/ ReplayFails
           \/ RequestEnds \/ BodyReleased
  BY <1>2, SendBodyInv, RedirectedInv, ReplayInv, ReplayRefusedInv, ReplayFailsInv,
     RequestEndsInv, BodyReleasedInv
<1>3. CASE SettleFailure \/ SettleInvalid \/ SettleCommit \/ SettleDropped \/ SettleChunk
  BY <1>3, SettleFailureInv, SettleInvalidInv, SettleCommitInv, SettleDroppedInv,
     SettleChunkInv
<1>4. CASE CommitNoBody \/ Cleanup \/ NoCleanup
  BY <1>4, CommitNoBodyInv, CleanupInv, NoCleanupInv
<1>5. CASE GiveUp \/ Rewind \/ RewindFails \/ SleepEnds \/ SleepCanceled \/ CallerCancels
  BY <1>5, GiveUpInv, RewindInv, RewindFailsInv, SleepEndsInv, SleepCanceledInv, CallerCancelsInv
<1>6. CASE UNCHANGED vars
  <2>1. TypeOK' /\ Ownership' /\ Blame' /\ Sessions' /\ Position'
    BY <1>6 DEF vars, given, upload, src, failure, registry, sessions, PushInv, TypeOK,
         Ownership, Blame, Sessions, NoSessionForgotten, Position
  <2>2. Contents' /\ Answered' /\ OKMeansStored' /\ ProgressIsBacked'
    BY <1>6 DEF vars, given, upload, src, registry, PushInv, Contents, SessionsHoldPrefixes,
         Answered, Available, Chunk, IsLast, OKMeansStored, ProgressIsBacked
  <2> QED BY <2>1, <2>2 DEF PushInv
<1> QED BY <1>1, <1>2, <1>3, <1>4, <1>5, <1>6 DEF Next, Step

\* PushInv is an invariant of the specification.
LEMMA PushInvariant == Spec => []PushInv
  BY InitInv, NextInv, PTL DEF Spec

-----------------------------------------------------------------------------
\* The types, among them: no more attempts than the policy allows, no more
\* progress than the size.
THEOREM PushTypes == Spec => []TypeOK
<1>1. PushInv => TypeOK
  BY DEF PushInv
<1> QED BY <1>1, PushInvariant, PTL

\* Every session of the registry holds a prefix of the blob, after any number
\* of redirects, retries and chunks the registry dropped.
THEOREM PushSendsPrefixes == Spec => []SessionsHoldPrefixes
<1>1. PushInv => SessionsHoldPrefixes
  BY DEF PushInv, Contents
<1> QED BY <1>1, PushInvariant, PTL

\* Push reports success only for an exact source whose blob is stored.
THEOREM PushSuccessIsReal == Spec => []OKMeansStored
<1>1. PushInv => OKMeansStored
  BY DEF PushInv
<1> QED BY <1>1, PushInvariant, PTL

\* The progress Push reported is backed by bytes a session holds.
THEOREM PushProgressIsReal == Spec => []ProgressIsBacked
<1>1. PushInv => ProgressIsBacked
  BY DEF PushInv
<1> QED BY <1>1, PushInvariant, PTL

\* An abandoned session is sent a DELETE while the context lasts.
THEOREM PushCleansUp == Spec => []NoSessionForgotten
<1>1. PushInv => NoSessionForgotten
  BY DEF PushInv, Sessions
<1> QED BY <1>1, PushInvariant, PTL

\* When Push returns no request body can read the caller's reader any more.
THEOREM PushGivesReaderBack == Spec => []ReaderGivenBack
<1>1. PushInv => ReaderGivenBack
  BY DEF PushInv, Ownership, ReaderGivenBack
<1> QED BY <1>1, PushInvariant, PTL

\* A source error a body proved is the source's, ends the Push, and is what it
\* reports.
THEOREM PushBlamesSource == Spec => []SourceErrorIsTrueAndFinal
<1>1. PushInv => SourceErrorIsTrueAndFinal
  BY DEF PushInv, Ownership, Blame, Position, SourceErrorIsTrueAndFinal
<1> QED BY <1>1, PushInvariant, PTL

\* Rewinds and replays move the reader back between bodies only: a body starts
\* where it found the reader, and reads forward.
THEOREM PushSeeksAlone == Spec => SeekNeedsOwnership
<1>1. ASSUME PushInv, [Next]_vars PROVE [pos' < pos => body # "active"]_vars
  <2>1. CASE Redirected \/ BodyReleased
    <3>1. resp.sent \in Nat /\ start \in Nat
      BY <1>1, SizeNat DEF PushInv, TypeOK
    <3>2. pos = start /\ Available \in Nat
      BY <1>1, <2>1, ChunkBounds DEF Redirected, BodyReleased, PushInv, Ownership, Position,
         InRequest
    <3>3. \/ pos' \in start + 0 .. start + Available
          \/ pos' \in start + resp.sent .. start + Available
      BY <2>1 DEF Redirected, BodyReleased, Released
    <3> QED BY <3>1, <3>2, <3>3
  <2>2. CASE Rewind \/ Replay
    BY <1>1, <2>2 DEF Rewind, Replay, PushInv, Ownership
  <2>3. CASE [Next]_vars /\ ~(Redirected \/ BodyReleased \/ Rewind \/ Replay)
    <3>1. UNCHANGED pos
      BY <2>3 DEF Next, Step, vars, src, ProveEmpty, SessionOpens, SessionFails, PositionFails,
           SendBody, ReplayRefused, ReplayFails, RewindFails, Fail, Return, RequestEnds, SettleFailure, SettleInvalid, SettleCommit, SettleDropped, SettleChunk,
           CommitNoBody, Cleanup, NoCleanup, GiveUp, SleepEnds, SleepCanceled, CallerCancels
    <3>2. pos \in Nat
      BY <1>1, SizeNat DEF PushInv, TypeOK
    <3> QED BY <3>1, <3>2
  <2> QED BY <1>1, <2>1, <2>2, <2>3
<1> QED BY <1>1, PushInvariant, PTL DEF Spec, SeekNeedsOwnership
=============================================================================
