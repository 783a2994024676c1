----------------------------- MODULE CallsProofs -----------------------------
(***************************************************************************)
(* Proofs about Calls for every retry budget, redirect limit, delay and    *)
(* size of the content.                                                    *)
(***************************************************************************)
EXTENDS Calls, FiniteSetTheorems, SequenceTheorems, TLAPS

-----------------------------------------------------------------------------
(* The inductive invariant.                                                *)

Asking == pc \in {"first", "second", "cleanup"}

\* Where the operation is, what it asks with, and what it holds there.
Phases ==
  /\ pc \in {"start", "first", "second", "cleanup", "returned", "open", "resuming", "over", "closed"}
  /\ rpc \in {"idle", "loop", "wire", "sleep", "done"}
  /\ loop \in {"retry", "probe", "once"}
  /\ rpc # "idle" <=> Asking
  /\ Asking => (loop = "once" <=> pc = "cleanup")
  /\ pc = "second" => op = "parallel"
  /\ pc = "cleanup" => op = "mount"
  /\ reader \in {"none", "plain", "probe", "puller"}
  /\ pc \notin {"open", "resuming", "over"} => reader = "none"
  /\ pc = "resuming" => reader \in {"plain", "probe"}

\* The request under way repeats the method it began with.
Methods ==
  /\ pc = "first" /\ op = "exists" => method = "HEAD"
  /\ pc = "first" /\ op = "mount" => method = "POST"
  /\ pc = "cleanup" => method = "DELETE"

\* Attempts spent before the request under way.
Before == IF pc = "cleanup" THEN MaxAttempts ELSE attempts
Limit == MaxAttempts + (IF op = "mount" THEN 1 ELSE 0)

\* Every try sent belongs to an attempt of the request under way, or to those
\* the operation has recorded.
Budget ==
  /\ {attempt, budget, attempts, sent} \subseteq Nat
  /\ pc \in {"start", "first", "cleanup"} => attempts = 0
  /\ Asking =>
       /\ attempt \in 1 .. budget
       /\ rpc = "sleep" => attempt < budget
       /\ Before + budget = MaxAttempts + (IF pc = "cleanup" THEN 1 ELSE 0)
       /\ sent <= Before + attempt - (IF rpc = "loop" THEN 1 ELSE 0)
  /\ ~Asking /\ pc # "returned" => sent <= attempts /\ attempts <= MaxAttempts
  /\ sent <= Limit

\* The hash has taken in what was delivered.
Hashes ==
  /\ hash = got
  /\ answer = "eof" => pc \in {"over", "closed"}

\* What an answer of the registry is worth to Exists and Mount.
Answered200 == pc = "first" /\ rpc = "done"
Truths ==
  /\ held \in BOOLEAN
  /\ answer \in {"yes", "no"} => pc = "returned"
  /\ Answered200 /\ op = "exists" /\ resp.code = 200 => TRUE \in seen
  /\ Answered200 /\ op = "exists" /\ resp.code = 404 /\ resp.origin = "registry" => FALSE \in seen
  /\ Answered200 /\ op = "mount" /\ resp.code = 201 => TRUE \in seen
  /\ pc = "cleanup" /\ rpc = "done" /\ resp.code \in {204, 404} => session = "gone"

Bodies == open \in Int /\ pullCtx \in BOOLEAN /\ BodiesAccounted

CallInv ==
  /\ op \in AllOps
  /\ Phases /\ Methods /\ Budget /\ Bodies
  /\ Hashes /\ EOFMeansVerified
  /\ Truths /\ AnswersAreTrue

\* A policy allows at least one attempt (RetryPolicy.attempts).
LEMMA Attempts == MaxAttempts \in Nat \ {0}
  BY AttemptsAssumption

\* A call that has not begun has sent nothing and holds nothing.
LEMMA CallInit == Init => CallInv
<1> SUFFICES ASSUME Init PROVE CallInv
  OBVIOUS
<1> USE Attempts, OpAssumption
<1>1. op \in AllOps /\ Phases /\ Methods
  BY DEF Init, RequestInit, Phases, Methods, Asking
<1>2. Budget
  BY DEF Init, RequestInit, Budget, Asking, Limit
<1>3. Bodies
  <2>1. open = 0 /\ rpc = "idle" /\ reader = "none"
    BY DEF Init, RequestInit
  <2>2. pullCtx = FALSE
    BY DEF Init
  <2>3. open \in Int /\ open = (IF rpc = "done" /\ resp # NoResp THEN 1 ELSE 0)
                             + (IF reader = "none" THEN 0 ELSE 1)
    BY <2>1
  <2>4. pullCtx \in BOOLEAN /\ ~pullCtx
    BY <2>2
  <2> QED BY <2>3, <2>4 DEF Bodies, BodiesAccounted
<1>4. Hashes /\ EOFMeansVerified /\ Truths /\ AnswersAreTrue
  BY DEF Init, RequestInit, Hashes, EOFMeansVerified, Truths, Answered200, AnswersAreTrue
<1> QED BY <1>1, <1>2, <1>3, <1>4 DEF CallInv

-----------------------------------------------------------------------------
(* The request under way.                                                  *)

\* A failed try ends the request or waits, and waits only with budget left.
LEMMA FailsShape ==
  ASSUME NEW e, loop \in {"retry", "probe", "once"}, Fails(e)
  PROVE  /\ rpc' = "done" \/ (rpc' = "sleep" /\ ~Last)
         /\ resp' = NoResp
         /\ UNCHANGED <<policy, hop, open, sent>>
<1>1. UNCHANGED <<policy, hop, open, sent>>
  BY DEF Fails
<1>2. CASE loop = "retry"
  BY <1>1, <1>2 DEF Fails, FailUnderRetry, Finish, SleepOn
<1>3. CASE loop = "probe"
  BY <1>1, <1>3 DEF Fails, FailUnderProbe, Finish, SleepOn
<1>4. CASE loop = "once"
  BY <1>1, <1>4 DEF Fails, Finish
<1> QED BY <1>2, <1>3, <1>4

\* A redirect that is followed keeps the method of the request.
LEMMA RedirectShape ==
  ASSUME NEW target, NEW keeps \in BOOLEAN, loop \in {"retry", "probe", "once"},
         Redirected(target, keeps)
  PROVE  /\ \/ UNCHANGED <<rpc, resp>>
            \/ (rpc' = "done" \/ (rpc' = "sleep" /\ ~Last)) /\ resp' = NoResp
         /\ UNCHANGED <<policy, method, open, sent>>
<1> DEFINE next == IF keeps \/ method \in {"GET", "HEAD"} THEN method ELSE "GET"
<1>1. CASE RefusesRedirect(target, next)
  <2>1. Fails(Fault("policy"))
    BY <1>1 DEF Redirected
  <2> QED BY <2>1, FailsShape DEF hop
<1>2. CASE ~RefusesRedirect(target, next)
  <2>1. method' = next /\ UNCHANGED <<rpc, policy, result, open, sent>>
    BY <1>2 DEF Redirected
  <2>2. next = method
    BY <1>2 DEF RefusesRedirect
  <2> QED BY <2>1, <2>2 DEF result
<1> QED BY <1>1, <1>2

\* What one step of the request does to its control: the loop sends, the wire
\* fails, redirects or answers, the wait ends.
Wired ==
  \/ rpc' = "done" /\ resp' = NoResp /\ UNCHANGED open
  \/ rpc' = "sleep" /\ resp' = NoResp /\ ~Last /\ UNCHANGED open
  \/ rpc' = "wire" /\ UNCHANGED <<resp, open>>
  \/ rpc' = "done" /\ resp' # NoResp /\ open' = open + 1
RequestMoves ==
  /\ rpc # "idle" /\ rpc # "done"
  /\ UNCHANGED <<loop, budget, method>>
  /\ \/ /\ rpc = "loop" /\ rpc' = "done" /\ resp' = NoResp
        /\ UNCHANGED <<attempt, open, sent>>
     \/ rpc = "loop" /\ rpc' = "wire" /\ UNCHANGED <<attempt, resp, open>> /\ sent' = OneMore(sent)
     \/ rpc = "wire" /\ Wired /\ UNCHANGED <<attempt, sent>>
     \/ rpc = "sleep" /\ rpc' = "loop" /\ attempt' = attempt + 1 /\ UNCHANGED <<resp, open, sent>>
     \/ rpc = "sleep" /\ rpc' = "done" /\ resp' = NoResp /\ UNCHANGED <<attempt, open, sent>>

\* A step of the request counts its tries and holds at most its own response.
LEMMA RequestKeeps ==
  ASSUME CallInv, RequestMoves, UNCHANGED <<call, pullCtx, stream>>
  PROVE  Phases' /\ Methods' /\ Budget' /\ Bodies'
<1> USE Attempts DEF CallInv
<1>1. UNCHANGED <<op, pc, pullCtx, attempts, reader>>
  BY DEF call, stream
<1>2. Asking /\ Asking' /\ Before' = Before /\ Limit' = Limit
  BY <1>1 DEF Phases, Asking, RequestMoves, Before, Limit
<1>3. rpc' \in {"loop", "wire", "sleep", "done"}
  BY DEF RequestMoves, Wired
<1>4. Phases' /\ Methods'
  BY <1>1, <1>2, <1>3 DEF Phases, Methods, RequestMoves, Asking
<1>5. Bodies'
  BY <1>1 DEF Bodies, BodiesAccounted, RequestMoves, Wired
<1>6. /\ {attempt, budget, attempts, sent, Before} \subseteq Nat /\ attempt \in 1 .. budget
      /\ rpc = "sleep" => attempt < budget
      /\ sent <= Before + attempt - (IF rpc = "loop" THEN 1 ELSE 0)
      /\ Before + budget <= Limit
  BY <1>2 DEF Budget, Limit, Before, Phases
<1>7. /\ budget' = budget /\ {attempt', sent'} \subseteq Nat /\ attempt' \in 1 .. budget
      /\ rpc' = "sleep" => attempt' < budget
      /\ sent' <= Before + attempt' - (IF rpc' = "loop" THEN 1 ELSE 0)
  <2>1. CASE rpc = "loop"
    BY <1>6, <2>1 DEF RequestMoves, OneMore, SentBound
  <2>2. CASE rpc = "wire"
    BY <1>6, <2>2 DEF RequestMoves, Wired, Last
  <2>3. CASE rpc = "sleep"
    BY <1>6, <2>3 DEF RequestMoves
  <2> QED BY <2>1, <2>2, <2>3 DEF RequestMoves, Phases
<1>8. sent' <= Limit
  BY <1>6, <1>7, Z3 DEF Limit
<1>9. Budget'
  BY <1>1, <1>2, <1>7, <1>8 DEF Budget
<1> QED BY <1>4, <1>5, <1>9

\* The registry performs a request as it answers it, or loses the answer.
LEMMA RequestTruths ==
  ASSUME CallInv, RequestMoves, UNCHANGED <<call, stream, outcome>>, held' \in BOOLEAN,
         rpc' = "done" /\ resp' # NoResp =>
            /\ method = "HEAD" /\ resp'.code = 200 => TRUE \in seen'
            /\ method = "HEAD" /\ resp'.code = 404 /\ resp'.origin = "registry" => FALSE \in seen'
            /\ method = "POST" /\ resp'.code = 201 => TRUE \in seen'
            /\ method = "DELETE" /\ resp'.code \in {204, 404} => session' = "gone"
  PROVE  Hashes' /\ EOFMeansVerified' /\ Truths' /\ AnswersAreTrue'
<1> USE DEF CallInv
<1>1. UNCHANGED <<op, pc, hash, got, answer>> /\ Asking
  BY DEF call, stream, outcome, RequestMoves, Phases
<1>2. Hashes' /\ EOFMeansVerified'
  BY <1>1 DEF Hashes, EOFMeansVerified
<1>3. answer \notin {"yes", "no"}
  BY <1>1 DEF Truths, Asking
<1>4. AnswersAreTrue'
  BY <1>1, <1>3 DEF AnswersAreTrue
<1>5. NoResp.code = 0
  BY DEF NoResp
<1>6. Truths'
  <2>1. rpc' = "done" => resp' # NoResp \/ resp'.code = 0
    BY <1>5
  <2>2. rpc' = "done" /\ resp'.code \in {200, 201, 204, 404} => resp' # NoResp
    BY <2>1
  <2>3. pc' = "first" /\ op' = "exists" => method = "HEAD"
    BY <1>1 DEF Methods
  <2>4. pc' = "first" /\ op' = "mount" => method = "POST"
    BY <1>1 DEF Methods
  <2>5. pc' = "cleanup" => method = "DELETE"
    BY <1>1 DEF Methods
  <2>6. answer' \notin {"yes", "no"}
    BY <1>1, <1>3
  <2>7. Answered200' /\ op' = "exists" /\ resp'.code = 200 => TRUE \in seen'
    BY <2>2, <2>3 DEF Answered200
  <2>8. Answered200' /\ op' = "exists" /\ resp'.code = 404 /\ resp'.origin = "registry"
          => FALSE \in seen'
    BY <2>2, <2>3 DEF Answered200
  <2>9. Answered200' /\ op' = "mount" /\ resp'.code = 201 => TRUE \in seen'
    BY <2>2, <2>4 DEF Answered200
  <2>10. pc' = "cleanup" /\ rpc' = "done" /\ resp'.code \in {204, 404} => session' = "gone"
    BY <2>2, <2>5
  <2> QED BY <2>6, <2>7, <2>8, <2>9, <2>10 DEF Truths
<1> QED BY <1>2, <1>4, <1>6

\* The loop, the waits, the wire, redirects and answers keep the invariant.
LEMMA NetworkKeeps ==
  ASSUME CallInv, Requesting \/ Answers \/ LosesAnswer \/ Redirects
  PROVE  CallInv'
<1>1. UNCHANGED <<call, pullCtx, stream, outcome>>
  BY DEF Requesting, Answers, LosesAnswer, Redirects
<1>2. loop \in {"retry", "probe", "once"} /\ held \in BOOLEAN
  BY DEF CallInv, Phases, Truths
<1>3. CASE Requesting
  <2>1. RequestMoves /\ ~(rpc' = "done" /\ resp' # NoResp)
    BY <1>3 DEF Requesting, RequestStep, LoopCanceled, Send, SleepEnds, SleepCanceled, Finish,
         RequestMoves, policy, hop, result
  <2>2. UNCHANGED registry
    BY <1>3 DEF Requesting
  <2>3. Phases' /\ Methods' /\ Budget' /\ Bodies'
    BY <1>1, <2>1, RequestKeeps
  <2>4. Hashes' /\ EOFMeansVerified' /\ Truths' /\ AnswersAreTrue'
    BY <1>1, <1>2, <2>1, <2>2, RequestTruths DEF registry
  <2> QED BY <1>1, <2>3, <2>4 DEF CallInv, call
<1>4. CASE Redirects
  <2>1. PICK target \in {"registry", "storage", "invalid"}, keeps \in BOOLEAN :
          Redirected(target, keeps)
    BY <1>4 DEF Redirects
  <2>2. rpc = "wire"
    BY <2>1 DEF Redirected
  <2>3. RequestMoves /\ ~(rpc' = "done" /\ resp' # NoResp)
    BY <1>2, <2>1, <2>2, RedirectShape DEF RequestMoves, Wired, policy
  <2>4. UNCHANGED registry
    BY <1>4 DEF Redirects
  <2>5. Phases' /\ Methods' /\ Budget' /\ Bodies'
    BY <1>1, <2>3, RequestKeeps
  <2>6. Hashes' /\ EOFMeansVerified' /\ Truths' /\ AnswersAreTrue'
    BY <1>1, <1>2, <2>3, <2>4, RequestTruths DEF registry
  <2> QED BY <1>1, <2>5, <2>6 DEF CallInv, call
<1>5. CASE LosesAnswer
  <2>1. PICK k : Fails(Fault(k))
    BY <1>5 DEF LosesAnswer, TransportFails
  <2>2. rpc = "wire"
    BY <1>5 DEF LosesAnswer, TransportFails
  <2>3. RequestMoves /\ ~(rpc' = "done" /\ resp' # NoResp)
    BY <1>2, <2>1, <2>2, FailsShape DEF RequestMoves, Wired, policy, hop
  <2>4. held' \in BOOLEAN
    BY <1>2, <1>5 DEF LosesAnswer, Performs, registry
  <2>5. Phases' /\ Methods' /\ Budget' /\ Bodies'
    BY <1>1, <2>3, RequestKeeps
  <2>6. Hashes' /\ EOFMeansVerified' /\ Truths' /\ AnswersAreTrue'
    BY <1>1, <2>3, <2>4, RequestTruths
  <2> QED BY <1>1, <2>5, <2>6 DEF CallInv, call
<1>6. CASE Answers
  <2>1. PICK code \in Codes, wish \in Wish :
          Truthful(code) /\ Answered(code, wish) /\ Performs(code)
    BY <1>6 DEF Answers
  <2>2. rpc = "wire" /\ UNCHANGED <<policy, hop, sent>>
    BY <2>1 DEF Answered
  <2>3. code # 0
    BY <2>1 DEF Codes
  <2>4. CASE RetryableStatus(code) /\ ~Last
    <3>1. rpc' = "sleep" /\ resp' = NoResp /\ UNCHANGED open
      BY <2>1, <2>4 DEF Answered, SleepOn
    <3>2. RequestMoves
      BY <2>2, <2>4, <3>1 DEF RequestMoves, Wired, policy, hop
    <3>4. held' \in BOOLEAN
      BY <1>2, <2>1 DEF Performs
    <3>5. Phases' /\ Methods' /\ Budget' /\ Bodies'
      BY <1>1, <3>2, RequestKeeps
    <3>6. Hashes' /\ EOFMeansVerified' /\ Truths' /\ AnswersAreTrue'
      BY <1>1, <3>1, <3>2, <3>4, RequestTruths
    <3> QED BY <1>1, <3>5, <3>6 DEF CallInv, call
  <2>5. CASE ~(RetryableStatus(code) /\ ~Last)
    <3>1. rpc' = "done" /\ open' = open + 1 /\ resp' = [code |-> code, origin |-> at]
      BY <2>1, <2>5 DEF Answered
    <3>2. resp' # NoResp /\ resp'.code = code /\ resp'.origin = at
      BY <2>3, <3>1 DEF NoResp
    <3>3. RequestMoves
      BY <2>2, <3>1, <3>2 DEF RequestMoves, Wired, policy, hop
    <3>4. held' \in BOOLEAN /\ seen' = seen \cup {held'}
      BY <1>2, <2>1 DEF Performs
    <3>5. method = "HEAD" => /\ code = 200 => held' = TRUE
                             /\ code = 404 /\ at = "registry" => held' = FALSE
      BY <1>2, <2>1 DEF Truthful, Performs
    <3>6. method = "POST" /\ code = 201 => held' = TRUE
      BY <1>2, <2>1 DEF Performs
    <3>7. method = "DELETE" /\ code \in {204, 404} => session' = "gone"
      BY <2>1 DEF Performs
    <3>8. Phases' /\ Methods' /\ Budget' /\ Bodies'
      BY <1>1, <3>3, RequestKeeps
    <3>9. Hashes' /\ EOFMeansVerified' /\ Truths' /\ AnswersAreTrue'
      <4>1. /\ method = "HEAD" /\ resp'.code = 200 => TRUE \in seen'
            /\ method = "HEAD" /\ resp'.code = 404 /\ resp'.origin = "registry" => FALSE \in seen'
            /\ method = "POST" /\ resp'.code = 201 => TRUE \in seen'
            /\ method = "DELETE" /\ resp'.code \in {204, 404} => session' = "gone"
        BY ONLY <3>2, <3>4, <3>5, <3>6, <3>7
      <4>2. CallInv /\ UNCHANGED <<call, stream, outcome>>
        BY <1>1
      <4>3. held' \in BOOLEAN
        BY <3>4
      <4> QED BY ONLY <3>3, <4>1, <4>2, <4>3, RequestTruths
    <3> QED BY <1>1, <3>8, <3>9 DEF CallInv, call
  <2> QED BY <2>4, <2>5
<1> QED BY <1>3, <1>4, <1>5, <1>6

-----------------------------------------------------------------------------
(* Starting, returning and opening.                                        *)

\* The first request of an operation.
LEMMA StartKeeps == ASSUME CallInv, Start PROVE CallInv'
<1> USE Attempts DEF CallInv
<1>1. /\ pc = "start" /\ pc' = "first" /\ rpc' = "loop" /\ attempt' = 1 /\ budget' = MaxAttempts
      /\ op \in {"exists", "mount", "range", "pull", "parallel"}
      /\ UNCHANGED <<op, attempts, reader, hash, got, answer, sent, resp, open, held, seen, session>>
      /\ loop' \in {"retry", "probe"}
      /\ op = "exists" => method' = "HEAD"
      /\ op = "mount" => method' = "POST"
  BY DEF Start, Asks, Begin, AllOps, stream, outcome, registry, result
<1>2. pullCtx' = (op = "parallel")
  BY DEF Start
<1>3. Phases' /\ Methods'
  BY <1>1 DEF Phases, Methods, Asking
<1>4. Budget'
  BY <1>1 DEF Budget, Asking, Before, Limit, Phases
<1>5. Bodies'
  <2>1. rpc = "idle" /\ reader = "none"
    BY <1>1 DEF Phases, Asking
  <2>2. open' \in Int /\ pullCtx' \in BOOLEAN
    BY <1>1, <1>2 DEF Bodies
  <2> QED BY <1>1, <1>2, <2>1, <2>2 DEF Bodies, BodiesAccounted
<1>6. Hashes' /\ EOFMeansVerified' /\ Truths' /\ AnswersAreTrue'
  BY <1>1 DEF Hashes, EOFMeansVerified, Truths, Answered200, AnswersAreTrue
<1> QED BY <1>1, <1>3, <1>4, <1>5, <1>6

\* A call returns what its request was worth, and holds nothing any more.
LEMMA ReturnKeeps ==
  ASSUME CallInv, rpc = "done", NEW a \in {"yes", "no", "error"}, NEW e, Return(a, e),
         a = "yes" => TRUE \in seen,
         a = "no" /\ op = "exists" /\ resp.origin = "registry" => FALSE \in seen,
         a = "no" /\ op = "mount" => session = "gone"
  PROVE  CallInv'
<1> USE DEF CallInv
<1>1. /\ Asking /\ pc' = "returned" /\ rpc' = "idle" /\ answer' = a
      /\ UNCHANGED <<op, loop, attempt, budget, method, sent, resp, attempts, reader, hash, got,
                     held, seen, session>>
  BY DEF Return, Settled, policy, hop, result, stream, registry, Phases
<1>2. open' = open - (IF resp = NoResp THEN 0 ELSE 1) /\ pullCtx' = FALSE
  BY DEF Return
<1>3. Phases' /\ Methods'
  BY <1>1 DEF Phases, Methods, Asking
<1>4. Budget'
  BY <1>1 DEF Budget, Asking, Limit
<1>5. Bodies'
  <2>1. pullCtx' \in BOOLEAN /\ ~pullCtx'
    BY <1>2
  <2> QED BY <1>1, <1>2, <2>1 DEF Bodies, BodiesAccounted
<1>6. Hashes' /\ EOFMeansVerified' /\ Truths' /\ AnswersAreTrue'
  BY <1>1 DEF Hashes, EOFMeansVerified, Truths, Answered200, AnswersAreTrue
<1> QED BY <1>1, <1>3, <1>4, <1>5, <1>6

\* A download opens with the attempts it took on record.
LEMMA OpensKeeps ==
  ASSUME CallInv, rpc = "done", resp # NoResp, pc \in {"first", "second"},
         op \notin {"exists", "mount"},
         NEW r \in {"none", "plain", "probe", "puller"}, Opens(r, attempts + attempt),
         pullCtx' \in BOOLEAN, pullCtx' => r \in {"probe", "puller"}
  PROVE  CallInv'
<1> USE Attempts DEF CallInv
<1>1. /\ Asking /\ pc' = "open" /\ rpc' = "idle" /\ answer' = "reader" /\ reader' = r
      /\ attempts' = attempts + attempt
      /\ UNCHANGED <<op, loop, attempt, budget, method, sent, resp, hash, got, held, seen, session>>
  BY DEF Opens, Settled, policy, hop, result, registry, Asking
<1>2. open' = (IF r = "none" THEN open - 1 ELSE open)
  BY DEF Opens
<1>3. Phases' /\ Methods'
  BY <1>1 DEF Phases, Methods, Asking
<1>4. Budget'
  <2>1. {attempt, attempts, sent, budget} \subseteq Nat /\ attempt <= budget
        /\ attempts + budget = MaxAttempts /\ sent <= attempts + attempt
    BY <1>1 DEF Budget, Before
  <2>2. pc' \notin {"start", "first", "cleanup"} /\ ~Asking'
    BY <1>1 DEF Asking
  <2> QED BY <1>1, <2>1, <2>2 DEF Budget, Limit
<1>5. Bodies'
  <2>1. open = 1
    BY <1>1 DEF Bodies, BodiesAccounted, Phases
  <2> QED BY <1>1, <1>2, <2>1 DEF Bodies, BodiesAccounted
<1>6. Hashes' /\ EOFMeansVerified' /\ Truths' /\ AnswersAreTrue'
  BY <1>1 DEF Hashes, EOFMeansVerified, Truths, Answered200, AnswersAreTrue
<1> QED BY <1>1, <1>3, <1>4, <1>5, <1>6

\* A request that failed, and the answers of Exists and Mount.
LEMMA AnswersKeep ==
  ASSUME CallInv,
         RequestFailed \/ ExistsAnswered \/ MountAnswered \/ MountDeclined \/ CleanupAnswered
  PROVE  CallInv'
<1>1. CASE RequestFailed
  BY <1>1, ReturnKeeps DEF RequestFailed
<1>2. CASE ExistsAnswered
  <2>1. rpc = "done" /\ op = "exists" /\ pc = "first"
    BY <1>2 DEF ExistsAnswered, Responded
  <2>2. CASE Responded(200) /\ Return("yes", NoError)
    BY <2>1, <2>2, ReturnKeeps DEF Responded, CallInv, Truths, Answered200
  <2>3. CASE Responded(404) /\ Return("no", NoError)
    <3>1. resp.origin = "registry" => FALSE \in seen
      BY <2>1, <2>3 DEF Responded, CallInv, Truths, Answered200
    <3> QED BY <2>1, <2>3, <3>1, ReturnKeeps
  <2>4. CASE ReturnStatus
    BY <2>1, <2>4, ReturnKeeps DEF ReturnStatus
  <2> QED BY <1>2, <2>2, <2>3, <2>4 DEF ExistsAnswered
<1>3. CASE MountAnswered
  <2>1. rpc = "done" /\ op = "mount" /\ pc = "first"
    BY <1>3 DEF MountAnswered, Responded
  <2>2. CASE Responded(201) /\ Return("yes", NoError)
    BY <2>1, <2>2, ReturnKeeps DEF Responded, CallInv, Truths, Answered200
  <2>3. CASE \E e : Return("error", e)
    BY <2>1, <2>3, ReturnKeeps
  <2> QED BY <1>3, <2>2, <2>3 DEF MountAnswered, ReturnStatus
<1>4. CASE MountDeclined
  <2>1. /\ op = "mount" /\ pc = "first" /\ rpc = "done" /\ resp.code = 202 /\ resp # NoResp
    BY <1>4 DEF MountDeclined, Responded, NoResp
  <2>2. CASE ctxDone
    BY <1>4, <2>1, <2>2, ReturnKeeps DEF MountDeclined
  <2>3. CASE ~ctxDone
    <3> USE Attempts DEF CallInv
    <3>1. /\ pc' = "cleanup" /\ rpc' = "loop" /\ loop' = "once" /\ method' = "DELETE"
          /\ attempt' = 1 /\ budget' = 1 /\ open' = open - 1
          /\ UNCHANGED <<op, sent, resp, pullCtx, attempts, reader, hash, got, answer,
                         held, seen, session>>
      BY <1>4, <2>3 DEF MountDeclined, Asks, Begin, result, stream, outcome, registry
    <3>2. Phases' /\ Methods'
      BY <2>1, <3>1 DEF Phases, Methods, Asking
    <3>3. Budget'
      <4>1. {attempt, budget, sent, attempts} \subseteq Nat /\ sent <= MaxAttempts /\ attempts = 0
        BY <2>1 DEF Budget, Asking, Before
      <4> QED BY <2>1, <3>1, <4>1 DEF Budget, Asking, Before, Limit
    <3>4. Bodies'
      BY <2>1, <3>1 DEF Bodies, BodiesAccounted, Phases, Asking
    <3>5. Hashes' /\ EOFMeansVerified' /\ Truths' /\ AnswersAreTrue'
      BY <2>1, <3>1 DEF Hashes, EOFMeansVerified, Truths, Answered200, AnswersAreTrue
    <3> QED BY <3>1, <3>2, <3>3, <3>4, <3>5
  <2> QED BY <2>2, <2>3
<1>5. CASE CleanupAnswered
  <2>1. pc = "cleanup" /\ rpc = "done" /\ op = "mount"
    BY <1>5 DEF CleanupAnswered, CallInv, Phases
  <2>2. CASE resp.code \in {204, 404} /\ Return("no", NoError)
    BY <2>1, <2>2, ReturnKeeps DEF CallInv, Truths
  <2>3. CASE ReturnStatus
    BY <2>1, <2>3, ReturnKeeps DEF ReturnStatus
  <2> QED BY <1>5, <2>2, <2>3 DEF CleanupAnswered
<1> QED BY <1>1, <1>2, <1>3, <1>4, <1>5

\* The answers of a download that is being opened.
LEMMA OpeningKeeps ==
  ASSUME CallInv, PullAnswered \/ RangeAnswered \/ ProbeRefused \/ ProbeAnswered
  PROVE  CallInv'
<1>1. NoResp.code = 0
  BY DEF NoResp
<1>2. pc = "first" => attempts = 0
  BY DEF CallInv, Budget
<1>3. {attempts, attempt} \subseteq Nat
  BY DEF CallInv, Budget
<1>4. ASSUME rpc = "done", NEW e, Return("error", e) PROVE CallInv'
  BY <1>4, ReturnKeeps
<1>5. pullCtx \in BOOLEAN /\ (pullCtx /\ pc \in {"first", "second"} => op = "parallel" /\ pc = "first")
  BY DEF CallInv, Bodies, BodiesAccounted, Phases
<1>6. CASE PullAnswered
  <2>1. /\ rpc = "done" /\ pc \in {"first", "second"} /\ op \notin {"exists", "mount"}
        /\ ~(op = "parallel" /\ pc = "first")
    BY <1>6 DEF PullAnswered, Reads
  <2>2. CASE resp.code = 200
    BY <1>1, <1>5, <1>6, <2>1, <2>2, OpensKeeps DEF PullAnswered
  <2>3. CASE resp.code # 200
    BY <1>4, <1>6, <2>1, <2>3 DEF PullAnswered, ReturnStatus
  <2> QED BY <2>2, <2>3
<1>7. CASE RangeAnswered
  <2>1. rpc = "done" /\ pc = "first" /\ op = "range" /\ attempts + attempt = attempt
    BY <1>2, <1>3, <1>7 DEF RangeAnswered
  <2>2. CASE resp.code \in {200, 206} /\ Opens("plain", attempt) /\ UNCHANGED pullCtx
    BY <1>1, <1>5, <2>1, <2>2, OpensKeeps
  <2>3. CASE \E e : Return("error", e)
    BY <1>4, <2>1, <2>3
  <2> QED BY <1>7, <2>2, <2>3 DEF RangeAnswered, ReturnStatus
<1>8. CASE ProbeRefused
  <2>1. /\ rpc = "done" /\ pc = "first" /\ op = "parallel" /\ resp.code = 416 /\ resp # NoResp
        /\ attempts + attempt = attempt
    BY <1>1, <1>2, <1>3, <1>8 DEF ProbeRefused, Responded
  <2>2. CASE Opens("none", attempt) /\ pullCtx' = FALSE
    <3>1. pullCtx' \in BOOLEAN /\ ~pullCtx'
      BY <2>2
    <3> QED BY <2>1, <2>2, <3>1, OpensKeeps
  <2>3. CASE Return("error", Fault("budget"))
    BY <1>4, <2>1, <2>3
  <2>4. CASE Remaining(attempt) > 0 /\ pc' = "second"
    <3> USE Attempts DEF CallInv
    <3>1. /\ rpc' = "loop" /\ loop' = "retry" /\ attempt' = 1 /\ budget' = MaxAttempts - attempt
          /\ attempts' = attempt /\ open' = open - 1
          /\ UNCHANGED <<op, sent, resp, reader, hash, got, answer, held, seen, session>>
      BY <1>8, <2>1, <2>4 DEF ProbeRefused, Opens, Return, Remaining, Asks, Begin, result, outcome,
           registry
    <3>2. pullCtx' \in BOOLEAN /\ ~pullCtx'
      BY <1>8, <2>4 DEF ProbeRefused, Opens, Return
    <3>3. Phases' /\ Methods'
      BY <2>1, <2>4, <3>1 DEF Phases, Methods, Asking
    <3>4. Budget'
      <4>1. {attempt, sent} \subseteq Nat /\ sent <= attempt /\ MaxAttempts - attempt > 0
        BY <2>1, <2>4 DEF Budget, Asking, Before, Remaining
      <4> QED BY <2>1, <2>4, <3>1, <4>1 DEF Budget, Asking, Before, Limit
    <3>5. Bodies'
      BY <2>1, <3>1, <3>2 DEF Bodies, BodiesAccounted, Phases, Asking
    <3>6. Hashes' /\ EOFMeansVerified' /\ Truths' /\ AnswersAreTrue'
      BY <2>1, <2>4, <3>1 DEF Hashes, EOFMeansVerified, Truths, Answered200, AnswersAreTrue
    <3> QED BY <3>1, <3>3, <3>4, <3>5, <3>6
  <2>5. Remaining(attempt) > 0 \/ Remaining(attempt) <= 0
    BY <1>3, Attempts DEF Remaining
  <2>6. CASE Remaining(attempt) <= 0
    BY <1>8, <2>2, <2>3, <2>6 DEF ProbeRefused
  <2>7. CASE Remaining(attempt) > 0
    <3>1. ~(Remaining(attempt) <= 0)
      BY <1>3, <2>7, Attempts DEF Remaining
    <3> QED BY <1>8, <2>2, <2>4, <2>7, <3>1 DEF ProbeRefused
  <2> QED BY <2>5, <2>6, <2>7
<1>9. CASE ProbeAnswered
  <2>1. /\ rpc = "done" /\ pc = "first" /\ op = "parallel" /\ attempts + attempt = attempt
    BY <1>2, <1>3, <1>9 DEF ProbeAnswered
  <2>2. CASE /\ resp.code \in {200, 206} /\ UNCHANGED pullCtx
             /\ \E r \in {"probe", "puller"} : Opens(r, attempt)
    BY <1>1, <1>5, <2>1, <2>2, OpensKeeps
  <2>3. CASE \E e : Return("error", e)
    BY <1>4, <2>1, <2>3
  <2> QED BY <1>9, <2>2, <2>3 DEF ProbeAnswered, ReturnStatus
<1> QED BY <1>6, <1>7, <1>8, <1>9

-----------------------------------------------------------------------------
(* Reading an opened download.                                             *)

\* A step of the reader spends nothing, or reserves one attempt and sends it.
Spends ==
  \/ UNCHANGED <<attempts, sent>>
  \/ attempts < MaxAttempts /\ attempts' = attempts + 1 /\ sent' = OneMore(sent)

\* What the steps of an open reader have in common.
LEMMA ReaderKeeps ==
  ASSUME CallInv, pc \in {"open", "resuming", "over"}, Spends,
         UNCHANGED <<op, rpc, policy, hop, result, registry>>,
         pc' \in {"open", "resuming", "over", "closed"},
         reader' \in {"none", "plain", "probe", "puller"},
         pc' = "resuming" => reader' \in {"plain", "probe"},
         pc' = "closed" => reader' = "none",
         open' = (IF reader' = "none" THEN 0 ELSE 1),
         pullCtx' \in BOOLEAN, pullCtx' => reader' \in {"probe", "puller"},
         hash' = got', answer' \notin {"yes", "no"},
         answer' = "eof" => got' = Size /\ pc' \in {"over", "closed"}
  PROVE  CallInv'
<1> USE Attempts DEF CallInv
<1>1. /\ rpc = "idle" /\ rpc' = "idle" /\ ~Asking /\ ~Asking'
      /\ UNCHANGED <<op, loop, attempt, budget, method, resp, held, seen, session>>
  BY DEF Phases, Asking, policy, hop, result, registry
<1>2. Phases' /\ Methods'
  BY <1>1 DEF Phases, Methods, Asking
<1>3. Budget'
  <2>1. {attempt, budget, attempts, sent} \subseteq Nat /\ sent <= attempts /\ attempts <= MaxAttempts
    BY <1>1 DEF Budget
  <2>2. {attempts', sent'} \subseteq Nat /\ sent' <= attempts' /\ attempts' <= MaxAttempts
    BY <2>1 DEF Spends, OneMore, SentBound
  <2> QED BY <1>1, <2>1, <2>2 DEF Budget, Limit
<1>4. Bodies'
  BY <1>1 DEF Bodies, BodiesAccounted
<1>5. Hashes' /\ EOFMeansVerified' /\ Truths' /\ AnswersAreTrue'
  BY <1>1 DEF Hashes, EOFMeansVerified, Truths, Answered200, AnswersAreTrue
<1> QED BY <1>1, <1>2, <1>3, <1>4, <1>5

\* What holds of a reader before each of its steps.
LEMMA ReaderHolds ==
  ASSUME CallInv, pc \in {"open", "resuming", "over"}
  PROVE  /\ open = (IF reader = "none" THEN 0 ELSE 1)
         /\ reader \in {"none", "plain", "probe", "puller"}
         /\ pullCtx \in BOOLEAN /\ (pullCtx => reader \in {"probe", "puller"})
         /\ hash = got /\ answer \notin {"yes", "no"}
         /\ answer = "eof" => got = Size /\ pc = "over"
<1> USE DEF CallInv
<1>1. rpc = "idle" /\ pc # "first" /\ reader \in {"none", "plain", "probe", "puller"}
  BY DEF Phases, Asking
<1>2. open = (IF reader = "none" THEN 0 ELSE 1)
  BY <1>1 DEF Bodies, BodiesAccounted
<1>3. pullCtx \in BOOLEAN /\ (pullCtx => reader \in {"probe", "puller"})
  BY <1>1 DEF Bodies, BodiesAccounted
<1>4. hash = got /\ answer \notin {"yes", "no"} /\ (answer = "eof" => got = Size /\ pc = "over")
  BY DEF Hashes, EOFMeansVerified, Truths
<1> QED BY <1>1, <1>2, <1>3, <1>4

\* The verifying reader passes the end on only over a hash that is complete.
LEMMA VerifyKeeps ==
  ASSUME CallInv, pc \in {"open", "resuming"}, NEW b, NEW e, Verify(b, e), Spends,
         UNCHANGED <<op, rpc, policy, hop, result, registry, open, pullCtx, reader>>
  PROVE  CallInv'
<1>1. hash' = got'
  BY ReaderHolds DEF Verify
<1>2. CASE e = NoError
  <2>1. pc' = "open" /\ answer' = answer /\ answer \notin {"yes", "no", "eof"}
    BY <1>2, ReaderHolds DEF Verify, outcome
  <2> QED BY <1>1, <2>1, ReaderHolds, ReaderKeeps
<1>3. CASE e # NoError
  <2>1. pc' = "over" /\ Surface(e, hash' = Size)
    BY <1>3 DEF Verify
  <2>2. answer' \in {"mismatch", "eof", "error"}
    BY <2>1 DEF Surface
  <2>3. Is(Fault("eof"), "eof")
    BY DEF Is, Fault, Node
  <2>4. answer' = "eof" => hash' = Size
    BY <2>1, <2>3 DEF Surface
  <2> QED BY <1>1, <2>1, <2>2, <2>4, ReaderHolds, ReaderKeeps
<1> QED BY <1>2, <1>3

\* The caller reads and closes.
LEMMA ReadsKeep == ASSUME CallInv, Read \/ Close PROVE CallInv'
<1>1. CASE ReadBytes \/ ReadCanceled \/ ReadEnds \/ PullerEnds \/ PullerFails
  <2>1. PICK b, e : Verify(b, e)
    BY <1>1 DEF ReadBytes, ReadCanceled, ReadEnds, PullerEnds, PullerFails
  <2>2. pc = "open" /\ UNCHANGED <<op, reqvars, registry, pullCtx, attempts, reader>>
    BY <1>1 DEF ReadBytes, ReadCanceled, ReadEnds, PullerEnds, PullerFails, Reading
  <2>3. UNCHANGED <<rpc, policy, hop, result, open, sent>>
    BY <2>2 DEF reqvars
  <2> QED BY <2>1, <2>2, <2>3, VerifyKeeps DEF Spends
<1>2. CASE StreamBreaks
  <2>1. /\ pc = "open" /\ reader \in {"plain", "probe"} /\ pc' = "resuming"
        /\ UNCHANGED <<op, reqvars, registry, pullCtx, attempts, reader, outcome>>
    BY <1>2 DEF StreamBreaks, Reading
  <2>2. UNCHANGED <<rpc, policy, hop, result, open, sent, answer>>
    BY <2>1 DEF reqvars, outcome
  <2>3. hash' = got'
    BY <1>2 DEF StreamBreaks, CallInv, Hashes
  <2>4. answer' # "eof"
    BY <2>1, <2>2 DEF CallInv, Hashes
  <2> QED BY <2>1, <2>2, <2>3, <2>4, ReaderHolds, ReaderKeeps DEF Spends
<1>3. CASE Close
  <2>1. /\ pc \in {"open", "over"} /\ pc' = "closed" /\ reader' = "none"
        /\ open' = open - (IF reader = "none" THEN 0 ELSE 1)
        /\ UNCHANGED <<op, rpc, policy, hop, result, sent, attempts, hash, got, answer, registry>>
    BY <1>3 DEF Close, outcome
  <2>2. pullCtx' = (pullCtx /\ reader \notin {"probe", "puller"})
    BY <1>3 DEF Close
  <2>3. pullCtx' \in BOOLEAN /\ ~pullCtx'
    BY <2>1, <2>2, ReaderHolds
  <2>4. open' = 0
    BY <2>1, ReaderHolds
  <2> QED BY <2>1, <2>3, <2>4, ReaderHolds, ReaderKeeps DEF Spends
<1> QED BY <1>1, <1>2, <1>3 DEF Read

\* A broken stream resumes within what the operation has left, or gives up.
LEMMA ResumeKeeps ==
  ASSUME CallInv, ResumeGivesUp \/ ResumeFails \/ ResumeRejected \/ ResumeSucceeds
  PROVE  CallInv'
<1>1. pc = "resuming" /\ UNCHANGED <<op, rpc, policy, hop, result, registry>>
  BY DEF ResumeGivesUp, ResumeFails, ResumeRejected, ResumeSucceeds, ReserveResume, reqvars
<1>2. attempts \in Nat
  BY DEF CallInv, Budget
<1>3. ASSUME ReserveResume PROVE Spends
  BY <1>2, <1>3, Attempts DEF ReserveResume, Spends, Spent
<1>4. CASE ResumeGivesUp
  <2>1. (\E b, e : Verify(b, e)) /\ UNCHANGED <<attempts, sent, open, pullCtx, reader>>
    BY <1>4 DEF ResumeGivesUp, reqvars
  <2> QED BY <1>1, <2>1, VerifyKeeps DEF Spends
<1>5. CASE ResumeFails
  <2>1. Spends /\ pc' = pc /\ UNCHANGED <<open, pullCtx, reader, hash, got, answer>>
    BY <1>3, <1>5 DEF ResumeFails, outcome
  <2>2. reader \in {"plain", "probe"}
    BY <1>1 DEF CallInv, Phases
  <2> QED BY <1>1, <2>1, <2>2, ReaderHolds, ReaderKeeps
<1>6. CASE ResumeRejected
  <2>1. Spends /\ (\E b, e : Verify(b, e)) /\ UNCHANGED <<open, pullCtx, reader>>
    BY <1>3, <1>6 DEF ResumeRejected
  <2> QED BY <1>1, <2>1, VerifyKeeps
<1>7. CASE ResumeSucceeds
  <2>1. Spends /\ pc' = "open" /\ UNCHANGED <<hash, got, answer>>
    BY <1>3, <1>7 DEF ResumeSucceeds, outcome
  <2>2. PICK r \in {"plain", "none"} : Replaced(r)
    BY <1>7 DEF ResumeSucceeds
  <2>3. reader' = r /\ open' = open - (IF r = "none" THEN 1 ELSE 0)
    BY <2>2 DEF Replaced
  <2>4. reader \in {"plain", "probe"} /\ open = 1
    BY <1>1, ReaderHolds DEF CallInv, Phases
  <2>5. open' = (IF reader' = "none" THEN 0 ELSE 1)
    BY <2>3, <2>4
  <2>6. pullCtx' \in BOOLEAN /\ ~pullCtx'
    BY <1>1, <2>2, <2>4, ReaderHolds DEF Replaced
  <2> QED BY <1>1, <2>1, <2>2, <2>3, <2>5, <2>6, ReaderHolds, ReaderKeeps
<1> QED BY <1>4, <1>5, <1>6, <1>7

\* The context, and the registry between two answers, touch nothing else.
LEMMA OutsideKeeps ==
  ASSUME CallInv, CallerCancels \/ HeldChanges \/ UNCHANGED vars
  PROVE  CallInv'
<1>1. UNCHANGED <<reqvars, call, pullCtx, stream, outcome, session>>
  BY DEF CallerCancels, HeldChanges, vars, registry
<1>2. UNCHANGED <<rpc, loop, attempt, budget, method, resp, open, sent, op, pc, pullCtx, attempts,
                  reader, hash, got, answer, session>>
  BY <1>1 DEF reqvars, policy, hop, result, call, stream, outcome
<1>3. held \in BOOLEAN
  BY DEF CallInv, Truths
<1>4. held' \in BOOLEAN /\ (TRUE \in seen => TRUE \in seen') /\ (FALSE \in seen => FALSE \in seen')
  BY <1>3 DEF CallerCancels, HeldChanges, vars, registry
<1>5. Phases' /\ Methods'
  BY <1>2 DEF CallInv, Phases, Methods, Asking
<1>6. Budget'
  BY <1>2 DEF CallInv, Budget, Asking, Before, Limit
<1>7. Bodies' /\ Hashes' /\ EOFMeansVerified'
  BY <1>2 DEF CallInv, Bodies, BodiesAccounted, Hashes, EOFMeansVerified
<1>8. Truths'
  <2>1. /\ answer \in {"yes", "no"} => pc = "returned"
        /\ Answered200 /\ op = "exists" /\ resp.code = 200 => TRUE \in seen
        /\ Answered200 /\ op = "exists" /\ resp.code = 404 /\ resp.origin = "registry"
             => FALSE \in seen
        /\ Answered200 /\ op = "mount" /\ resp.code = 201 => TRUE \in seen
        /\ pc = "cleanup" /\ rpc = "done" /\ resp.code \in {204, 404} => session = "gone"
    BY DEF CallInv, Truths
  <2>2. Answered200' = Answered200
    BY <1>2 DEF Answered200
  <2>3. (TRUE \in seen => TRUE \in seen') /\ (FALSE \in seen => FALSE \in seen')
    BY <1>4
  <2>4. held' \in BOOLEAN
    BY <1>4
  <2>5. answer' \in {"yes", "no"} => pc' = "returned"
    BY <1>2, <2>1
  <2>6. Answered200' /\ op' = "exists" /\ resp'.code = 200 => TRUE \in seen'
    BY <1>2, <2>1, <2>2, <2>3
  <2>7. Answered200' /\ op' = "exists" /\ resp'.code = 404 /\ resp'.origin = "registry"
          => FALSE \in seen'
    BY <1>2, <2>1, <2>2, <2>3
  <2>8. Answered200' /\ op' = "mount" /\ resp'.code = 201 => TRUE \in seen'
    BY <1>2, <2>1, <2>2, <2>3
  <2>9. pc' = "cleanup" /\ rpc' = "done" /\ resp'.code \in {204, 404} => session' = "gone"
    BY <1>2, <2>1
  <2> QED BY <2>4, <2>5, <2>6, <2>7, <2>8, <2>9 DEF Truths
<1>9. AnswersAreTrue'
  BY <1>2, <1>4 DEF CallInv, AnswersAreTrue
<1> QED BY <1>2, <1>5, <1>6, <1>7, <1>8, <1>9 DEF CallInv

-----------------------------------------------------------------------------
(* The theorems.                                                           *)

\* Every step keeps the invariant.
LEMMA CallNext == CallInv /\ [Next]_vars => CallInv'
<1> SUFFICES ASSUME CallInv, [Next]_vars PROVE CallInv'
  OBVIOUS
<1>1. CASE Requesting \/ Answers \/ LosesAnswer \/ Redirects
  BY <1>1, NetworkKeeps
<1>2. CASE Start
  BY <1>2, StartKeeps
<1>3. CASE RequestFailed \/ ExistsAnswered \/ MountAnswered \/ MountDeclined \/ CleanupAnswered
  BY <1>3, AnswersKeep
<1>4. CASE PullAnswered \/ RangeAnswered \/ ProbeRefused \/ ProbeAnswered
  BY <1>4, OpeningKeeps
<1>5. CASE ResumeGivesUp \/ ResumeFails \/ ResumeRejected \/ ResumeSucceeds
  BY <1>5, ResumeKeeps
<1>6. CASE Read \/ Close
  BY <1>6, ReadsKeep
<1>7. CASE CallerCancels \/ HeldChanges \/ UNCHANGED vars
  BY <1>7, OutsideKeeps
<1> QED BY <1>1, <1>2, <1>3, <1>4, <1>5, <1>6, <1>7 DEF Next, Step

\* The strengthening under which the properties below are inductive.
LEMMA CallAlways == Spec => []CallInv
<1> QED BY CallInit, CallNext, PTL DEF Spec

\* An operation sends at most MaxAttempts requests over its first request, its
\* fallback and every resume of its stream, and Mount one DELETE on top
\* (getAfterAttempts, reserveResumeAttempt).
THEOREM CallsOneBudget == Spec => []OneBudget
<1>1. CallInv => OneBudget
  BY DEF CallInv, Budget, Limit, OneBudget
<1> QED BY <1>1, CallAlways, PTL

\* The caller of Pull sees io.EOF only after exactly the bytes the digest
\* names, over a plain, a resumed, a fallen-back and a parallel stream
\* (verifyReader.Read).
THEOREM CallsEOFVerified == Spec => []EOFMeansVerified
<1>1. CallInv => EOFMeansVerified
  BY DEF CallInv
<1> QED BY <1>1, CallAlways, PTL

\* A response body belongs to the request that ended or to the reader, and the
\* context of a parallel pull to its probe, to the probe's body or to the
\* puller: a failed call and a closed reader hold neither (cancelBody, Close).
THEOREM CallsBodiesAccounted == Spec => []BodiesAccounted
<1>1. CallInv => BodiesAccounted
  BY DEF CallInv, Bodies
<1> QED BY <1>1, CallAlways, PTL

\* Exists and Mount report what was so at some time of the call, through lost
\* answers, retries and redirects that keep the method (checkRedirect), and a
\* declined mount leaves no session it was told of.
THEOREM CallsAnswersTrue == Spec => []AnswersAreTrue
<1>1. CallInv => AnswersAreTrue
  BY DEF CallInv
<1> QED BY <1>1, CallAlways, PTL

-----------------------------------------------------------------------------
(* Powers of two, by counting subsets: the shift of the backoff.           *)

LEMMA SubsetsOf ==
  ASSUME NEW S, IsFiniteSet(S), NEW n \in Nat, Cardinality(S) = n
  PROVE  2^n \in Nat \ {0} /\ Cardinality(SUBSET S) = 2^n /\ IsFiniteSet(SUBSET S)
<1>1. IsFiniteSet(SUBSET S) /\ Cardinality(SUBSET S) = 2^n
  BY FS_SUBSET
<1>2. Cardinality(SUBSET S) \in Nat
  BY <1>1, FS_CardinalityType
<1>3. SUBSET S # {}
  OBVIOUS
<1>4. Cardinality(SUBSET S) # 0
  BY <1>1, <1>3, FS_EmptySet
<1> QED BY <1>1, <1>2, <1>4

\* A subset of 1 .. a + b is one of 1 .. a and one of a + 1 .. a + b.
LEMMA PowerSum ==
  ASSUME NEW a \in Nat, NEW b \in Nat
  PROVE  2^a \in Nat \ {0} /\ 2^b \in Nat \ {0} /\ 2^(a + b) = 2^a * 2^b
<1> DEFINE S == 1 .. a
           T == a + 1 .. a + b
           U == 1 .. a + b
           f == [p \in (SUBSET S) \X (SUBSET T) |-> p[1] \cup p[2]]
<1>1. IsFiniteSet(S) /\ Cardinality(S) = a
  BY FS_Interval
<1>2. IsFiniteSet(T) /\ Cardinality(T) = b
  <2>1. a + 1 \in Int /\ a + b \in Int
    OBVIOUS
  <2>2. /\ IsFiniteSet(T)
        /\ Cardinality(T) = IF a + 1 > a + b THEN 0 ELSE (a + b) - (a + 1) + 1
    BY <2>1, FS_Interval
  <2> QED BY <2>2
<1>3. IsFiniteSet(U) /\ Cardinality(U) = a + b
  <2>1. 1 \in Int /\ a + b \in Int
    OBVIOUS
  <2>2. IsFiniteSet(U) /\ Cardinality(U) = IF 1 > a + b THEN 0 ELSE (a + b) - 1 + 1
    BY <2>1, FS_Interval
  <2> QED BY <2>2
<1>4. S \cup T = U /\ S \cap T = {}
  OBVIOUS
<1>5. 2^a \in Nat \ {0} /\ Cardinality(SUBSET S) = 2^a /\ IsFiniteSet(SUBSET S)
  BY <1>1, SubsetsOf
<1>6. 2^b \in Nat \ {0} /\ Cardinality(SUBSET T) = 2^b /\ IsFiniteSet(SUBSET T)
  BY <1>2, SubsetsOf
<1>7. Cardinality(SUBSET U) = 2^(a + b) /\ IsFiniteSet(SUBSET U)
  <2>1. a + b \in Nat
    OBVIOUS
  <2> QED BY <1>3, <2>1, SubsetsOf
<1>8. IsFiniteSet((SUBSET S) \X (SUBSET T)) /\ Cardinality((SUBSET S) \X (SUBSET T)) = 2^a * 2^b
  BY <1>5, <1>6, FS_Product
<1> HIDE DEF S, T, U
<1>9. f \in Bijection((SUBSET S) \X (SUBSET T), SUBSET U)
  <2>1. f \in [(SUBSET S) \X (SUBSET T) -> SUBSET U]
    BY <1>4
  <2>2. ASSUME NEW p \in (SUBSET S) \X (SUBSET T), NEW q \in (SUBSET S) \X (SUBSET T), f[p] = f[q]
        PROVE  p = q
    <3>1. p[1] \subseteq S /\ p[2] \subseteq T /\ q[1] \subseteq S /\ q[2] \subseteq T
      OBVIOUS
    <3>2. p[1] \cup p[2] = q[1] \cup q[2]
      BY <2>2
    <3>3. p[1] = q[1]
      BY <1>4, <3>1, <3>2
    <3>4. p[2] = q[2]
      BY <1>4, <3>1, <3>2
    <3>5. p = <<p[1], p[2]>> /\ q = <<q[1], q[2]>>
      OBVIOUS
    <3> QED BY <3>3, <3>4, <3>5
  <2>3. ASSUME NEW x \in SUBSET U PROVE \E p \in (SUBSET S) \X (SUBSET T) : f[p] = x
    <3>1. <<x \cap S, x \cap T>> \in (SUBSET S) \X (SUBSET T)
      OBVIOUS
    <3>2. f[<<x \cap S, x \cap T>>] = (x \cap S) \cup (x \cap T)
      BY <3>1
    <3>3. (x \cap S) \cup (x \cap T) = x
      BY <1>4
    <3> QED BY <3>1, <3>2, <3>3
  <2> HIDE DEF f
  <2>4. f \in Injection((SUBSET S) \X (SUBSET T), SUBSET U)
    BY <2>1, <2>2 DEF Injection, IsInjective
  <2>5. f \in Surjection((SUBSET S) \X (SUBSET T), SUBSET U)
    BY <2>1, <2>3 DEF Surjection
  <2> QED BY <2>4, <2>5 DEF Bijection
<1>10. ExistsBijection((SUBSET S) \X (SUBSET T), SUBSET U)
  BY <1>9 DEF ExistsBijection
<1>11. Cardinality(SUBSET U) = Cardinality((SUBSET S) \X (SUBSET T))
  BY <1>8, <1>10, FS_Bijection
<1> QED BY <1>5, <1>6, <1>7, <1>8, <1>11

LEMMA ModFacts ==
  ASSUME NEW x \in Nat, NEW m \in Nat \ {0}
  PROVE  /\ x % m \in 0 .. m - 1 /\ x \div m \in Nat
         /\ x % m = x - m * (x \div m)
<1>1. x % m \in 0 .. m - 1
  OBVIOUS
<1>2. x \div m \in Nat
  OBVIOUS
<1>3. x % m = x - m * (x \div m)
  OBVIOUS
<1> QED BY <1>1, <1>2, <1>3

LEMMA SmallMod ==
  ASSUME NEW x \in Nat, NEW m \in Nat \ {0}, x < m PROVE x % m = x
  OBVIOUS

LEMMA MultipleMod ==
  ASSUME NEW q \in Nat, NEW m \in Nat \ {0} PROVE (q * m) % m = 0
  OBVIOUS

LEMMA Products ==
  ASSUME NEW a \in Nat, NEW b \in Nat, NEW c \in Int
  PROVE  /\ a * b \in Nat /\ a * b = b * a /\ (a * b) * c = a * (b * c)
         /\ a * (b - c) = a * b - a * c
  OBVIOUS

LEMMA Factor ==
  ASSUME NEW a \in Nat \ {0}, NEW b \in Int, a * b > 0 PROVE a * b >= a
  OBVIOUS

LEMMA Cancel ==
  ASSUME NEW a \in Nat \ {0}, NEW b \in Nat, NEW c \in Nat, a * b < a * c PROVE b < c
  OBVIOUS

\* What an overflow leaves of d * 2^k is zero, negative or at least 2^k: the
\* bits below the shifted ones are zero.
LEMMA Overflows ==
  ASSUME NEW d \in Nat, NEW k \in Nat
  PROVE  LET m == (d * 2^k) % 2^Width IN m = 0 \/ m >= 2^k
<1> DEFINE P == 2^k
           N == 2^Width
           m == (d * P) % N
<1>1. Width \in Nat /\ P \in Nat \ {0} /\ N \in Nat \ {0}
  BY DelayAssumption, PowerSum
<1>2. CASE k >= Width
  <2>1. k - Width \in Nat /\ k = Width + (k - Width)
    BY <1>1, <1>2
  <2> DEFINE Q == 2^(k - Width)
  <2>2. P = N * Q /\ Q \in Nat
    BY <1>1, <2>1, PowerSum
  <2> HIDE DEF P, N, Q
  <2>3. d * P = (d * Q) * N /\ d * Q \in Nat
    BY <1>1, <2>2, Products
  <2>4. m = 0
    BY <1>1, <2>3, MultipleMod
  <2> QED BY <2>4 DEF P, N
<1>3. CASE k < Width
  <2>1. Width - k \in Nat /\ Width = k + (Width - k)
    BY <1>1, <1>3
  <2> DEFINE Q == 2^(Width - k)
  <2>2. N = P * Q /\ Q \in Nat
    BY <1>1, <2>1, PowerSum
  <2> HIDE DEF P, N, Q
  <2> DEFINE x == d * P
             e == x \div N
  <2>3. x \in Nat /\ x = P * d
    BY <1>1, Products
  <2>4. m \in 0 .. N - 1 /\ e \in Nat /\ m = x - N * e
    BY <1>1, <2>3, ModFacts
  <2> HIDE DEF x, e, m
  <2>5. N * e = P * (Q * e) /\ Q * e \in Nat
    BY <1>1, <2>2, <2>4, Products
  <2>6. P * (d - Q * e) = P * d - P * (Q * e)
    BY <1>1, <2>5, Products
  <2>7. m = P * (d - Q * e)
    BY <1>1, <2>3, <2>4, <2>5, <2>6
  <2>8. m > 0 => m >= P
    BY <1>1, <2>5, <2>7, Factor
  <2>9. m = 0 \/ m >= P
    BY <1>1, <2>4, <2>8
  <2> QED BY <2>9 DEF P, N, m, x
<1>4. k >= Width \/ k < Width
  BY <1>1
<1> QED BY <1>2, <1>3, <1>4

\* The guard on the shift (retry.go) catches every overflow of a policy whose
\* delays multiplied fit the width: what wraps around is above MaxDelay or
\* not positive.
LEMMA CeilingIsExponential ==
  ASSUME InitialDelay > 0, InitialDelay * MaxDelay < 2^(Width - 1), NEW n \in Nat \ {0}
  PROVE  BackoffDelay(n, 0) = Smaller(InitialDelay * 2^(n - 1), MaxDelay)
<1> DEFINE P == 2^(n - 1)
           H == 2^(Width - 1)
           N == 2^Width
           x == InitialDelay * P
           m == x % N
           c == Shifted(InitialDelay, n - 1)
<1>1. /\ n - 1 \in Nat /\ Width - 1 \in Nat /\ (Width - 1) + 1 = Width
      /\ InitialDelay \in Nat \ {0} /\ MaxDelay \in Nat /\ MaxDelay < H
  <2>1. Width \in Nat \ {0} /\ InitialDelay \in 0 .. H - 1 /\ MaxDelay \in 0 .. H - 1
    BY DelayAssumption
  <2>2. Width - 1 \in Nat
    BY <2>1
  <2>3. H \in Nat
    BY <2>2, PowerSum
  <2> HIDE DEF H
  <2> QED BY <2>1, <2>2, <2>3
<1>2. P \in Nat \ {0} /\ H \in Nat \ {0} /\ N = H * 2 /\ N \in Nat \ {0}
  <2>1. N = H * 2^1 /\ H \in Nat \ {0} /\ P \in Nat \ {0}
    BY <1>1, PowerSum
  <2>2. 2^1 = 2
    OBVIOUS
  <2> HIDE DEF P, H, N
  <2> QED BY <2>1, <2>2
<1>3. m = 0 \/ m >= P
  BY <1>1, Overflows
<1>4. c = IF m >= H THEN m - N ELSE m
  BY DEF Shifted
<1>5. BackoffDelay(n, 0) = IF c > MaxDelay \/ c <= 0 THEN MaxDelay ELSE c
  BY DEF BackoffDelay
<1>6. InitialDelay * MaxDelay < H
  OBVIOUS
<1> HIDE DEF P, H, N, c
<1>7. x \in Nat \ {0}
  BY <1>1, <1>2, Products
<1>8. m \in 0 .. N - 1 /\ (x < N => m = x)
  BY <1>2, <1>7, ModFacts, SmallMod
<1>9. CASE x < H
  <2>1. m = x /\ c = x
    BY <1>2, <1>4, <1>7, <1>8, <1>9
  <2> QED BY <1>1, <1>5, <1>7, <2>1 DEF Smaller, P
<1>10. CASE x >= H
  <2>1. InitialDelay * MaxDelay < InitialDelay * P
    <3>1. InitialDelay * MaxDelay \in Nat
      BY <1>1, Products
    <3> QED BY <1>2, <1>6, <1>7, <1>10, <3>1
  <2>2. MaxDelay < P
    BY <1>1, <1>2, <2>1, Cancel
  <2>3. x >= MaxDelay
    BY <1>1, <1>2, <1>7, <1>10
  <2> HIDE DEF m
  <2>4. c > MaxDelay \/ c <= 0
    BY <1>1, <1>2, <1>3, <1>4, <1>8, <2>2
  <2>5. Smaller(x, MaxDelay) = MaxDelay
    BY <1>1, <1>7, <2>3 DEF Smaller
  <2> QED BY <1>5, <2>4, <2>5 DEF x, P
<1>11. x < H \/ x >= H
  BY <1>2, <1>7
<1> QED BY <1>9, <1>10, <1>11

-----------------------------------------------------------------------------
(* Error chains.                                                           *)

Kinds == {"net", "eof", "ctx", "policy", "header", "location", "budget", "mismatch", "status",
          "retryable", "terminal"}
Nodes == [kind : Kinds, code : Nat, origin : {"none", "registry", "storage"}]

\* A chain of one node made by the client says nothing but its kind.
LEMMA FaultSays ==
  ASSUME NEW k \in Kinds
  PROVE  /\ Fault(k) \in Seq(Nodes) /\ Fault(k) # NoError /\ Head(Fault(k)) = Node(k)
         /\ \A j : Is(Fault(k), j) <=> j = k
         /\ ~IsNotFound(Fault(k))
         /\ k \notin {"status", "retryable"} => ~Retryable(Fault(k))
<1>1. Fault(k) = <<Node(k)>> /\ Node(k) = [kind |-> k, code |-> 0, origin |-> "none"]
  BY DEF Fault, Node
<1>2. Node(k) \in Nodes /\ Node(k).kind = k /\ Node(k).code = 0
  BY <1>1 DEF Nodes
<1>3. /\ Fault(k) \in Seq(Nodes) /\ Fault(k) # NoError /\ Head(Fault(k)) = Node(k)
      /\ DOMAIN Fault(k) = {1} /\ Fault(k)[1] = Node(k)
  BY <1>1, <1>2 DEF NoError
<1>4. \A j : Is(Fault(k), j) <=> j = k
  BY <1>2, <1>3 DEF Is
<1>5. ~IsNotFound(Fault(k))
  <2>1. Status(404, "registry").code = 404
    BY DEF Status
  <2> QED BY <1>2, <1>3, <2>1 DEF IsNotFound
<1>6. k \notin {"status", "retryable"} => ~Retryable(Fault(k))
  BY <1>4 DEF Retryable
<1> QED BY <1>3, <1>4, <1>5, <1>6

\* A registryError is retryable as its response is.
LEMMA StatusSays ==
  ASSUME NEW code, NEW origin
  PROVE  /\ ~Is(<<Status(code, origin)>>, "ctx")
         /\ Status(code, origin).kind = "status"
         /\ Retryable(<<Status(code, origin)>>) <=> RetryableResponse(Status(code, origin))
         /\ IsNotFound(<<Status(code, origin)>>) <=> Status(code, origin) = Status(404, "registry")
<1> DEFINE n == Status(code, origin)
           e == <<n>>
<1>1. n.kind = "status"
  BY DEF Status
<1>2. DOMAIN e = {1} /\ e[1] = n
  OBVIOUS
<1> HIDE DEF n, e
<1>3. \A j : Is(e, j) <=> j = "status"
  BY <1>1, <1>2 DEF Is
<1>4. FirstStatus(e) = n
  <2>1. \A i \in DOMAIN e : /\ e[i].kind = "status"
                            /\ \A j \in 1 .. i - 1 : e[j].kind # "status"
    BY <1>1, <1>2
  <2>2. \A i : i \in DOMAIN e <=> i = 1
    BY <1>2
  <2>3. (CHOOSE i \in DOMAIN e : e[i].kind = "status" /\ \A j \in 1 .. i - 1 : e[j].kind # "status")
          \in DOMAIN e
    BY <2>1, <2>2
  <2> QED BY <1>2, <2>2, <2>3 DEF FirstStatus
<1>5. Retryable(e) <=> RetryableResponse(n)
  BY <1>3, <1>4 DEF Retryable
<1>6. IsNotFound(e) <=> n = Status(404, "registry")
  BY <1>2 DEF IsNotFound
<1> QED BY <1>1, <1>3, <1>5, <1>6 DEF n, e

\* errors.Is on a wrapper or on joined errors looks at all of them.
LEMMA JoinSays ==
  ASSUME NEW a \in Seq(Nodes), NEW b \in Seq(Nodes)
  PROVE  /\ a \o b \in Seq(Nodes)
         /\ a # NoError => a \o b # NoError
         /\ \A k : Is(a \o b, k) <=> Is(a, k) \/ Is(b, k)
         /\ IsNotFound(a \o b) <=> IsNotFound(a) \/ IsNotFound(b)
<1> DEFINE t == a \o b
<1>1. /\ t \in Seq(Nodes) /\ Len(t) = Len(a) + Len(b) /\ Len(a) \in Nat /\ Len(b) \in Nat
      /\ \A i \in 1 .. Len(a) + Len(b) : t[i] = IF i <= Len(a) THEN a[i] ELSE b[i - Len(a)]
  BY ConcatProperties
<1>2. DOMAIN t = 1 .. Len(t) /\ DOMAIN a = 1 .. Len(a) /\ DOMAIN b = 1 .. Len(b)
  BY <1>1
<1> HIDE DEF t
<1>3. \A i \in DOMAIN t : (\E j \in DOMAIN a : t[i] = a[j]) \/ (\E j \in DOMAIN b : t[i] = b[j])
  <2> SUFFICES ASSUME NEW i \in DOMAIN t
               PROVE  (\E j \in DOMAIN a : t[i] = a[j]) \/ (\E j \in DOMAIN b : t[i] = b[j])
    OBVIOUS
  <2>1. CASE i <= Len(a)
    BY <1>1, <1>2, <2>1
  <2>2. CASE ~(i <= Len(a))
    <3>1. i - Len(a) \in DOMAIN b /\ t[i] = b[i - Len(a)]
      BY <1>1, <1>2, <2>2
    <3> QED BY <3>1
  <2> QED BY <2>1, <2>2
<1>4. \A j \in DOMAIN a : j \in DOMAIN t /\ t[j] = a[j]
  BY <1>1, <1>2
<1>5. \A j \in DOMAIN b : \E i \in DOMAIN t : t[i] = b[j]
  <2> SUFFICES ASSUME NEW j \in DOMAIN b PROVE \E i \in DOMAIN t : t[i] = b[j]
    OBVIOUS
  <2>1. /\ Len(a) + j \in DOMAIN t /\ ~(Len(a) + j <= Len(a)) /\ (Len(a) + j) - Len(a) = j
    BY <1>1, <1>2
  <2>2. t[Len(a) + j] = b[j]
    BY <1>1, <1>2, <2>1
  <2> QED BY <2>1, <2>2
<1>6. \A k : Is(t, k) <=> Is(a, k) \/ Is(b, k)
  BY <1>3, <1>4, <1>5 DEF Is
<1>7. IsNotFound(t) <=> IsNotFound(a) \/ IsNotFound(b)
  BY <1>3, <1>4, <1>5 DEF IsNotFound
<1>8. a # NoError => t # NoError
  BY <1>1, <1>2, <1>4 DEF NoError
<1> QED BY <1>1, <1>6, <1>7, <1>8 DEF t

\* The markers: a terminal error is never retryable, a marked one is.
LEMMA MarkersSay ==
  ASSUME NEW e \in Seq(Nodes)
  PROVE  /\ MarkTerminal(e) # NoError /\ MarkRetryable(e) # NoError
         /\ ~Retryable(MarkTerminal(e))
         /\ ~Is(e, "terminal") => Retryable(MarkRetryable(e))
         /\ \A k : Is(MarkTerminal(e), k) <=> k = "terminal" \/ Is(e, k)
         /\ \A k : Is(MarkRetryable(e), k) <=> k = "retryable" \/ Is(e, k)
         /\ IsNotFound(MarkTerminal(e)) <=> IsNotFound(e)
         /\ IsNotFound(MarkRetryable(e)) <=> IsNotFound(e)
<1>1. "terminal" \in Kinds /\ "retryable" \in Kinds
  BY DEF Kinds
<1>2. /\ MarkTerminal(e) # NoError
      /\ \A k : Is(MarkTerminal(e), k) <=> k = "terminal" \/ Is(e, k)
      /\ IsNotFound(MarkTerminal(e)) <=> IsNotFound(e)
  BY <1>1, FaultSays, JoinSays DEF MarkTerminal
<1>3. /\ MarkRetryable(e) # NoError
      /\ \A k : Is(MarkRetryable(e), k) <=> k = "retryable" \/ Is(e, k)
      /\ IsNotFound(MarkRetryable(e)) <=> IsNotFound(e)
  BY <1>1, FaultSays, JoinSays DEF MarkRetryable
<1>4. ~Retryable(MarkTerminal(e))
  BY <1>2 DEF Retryable
<1>5. ~Is(e, "terminal") => Retryable(MarkRetryable(e))
  BY <1>3 DEF Retryable
<1> QED BY <1>2, <1>3, <1>4, <1>5

\* The error of an ended context, joined to what the last try met.
LEMMA ContextSays ==
  ASSUME NEW e \in Seq(Nodes), ~IsNotFound(e)
  PROVE  LET c == MarkTerminal(Fault("ctx") \o e) IN
         /\ c # NoError /\ Is(c, "ctx") /\ ~Retryable(c) /\ ~IsNotFound(c)
<1>1. "ctx" \in Kinds
  BY DEF Kinds
<1>2. /\ Fault("ctx") \o e \in Seq(Nodes) /\ Is(Fault("ctx") \o e, "ctx")
      /\ ~IsNotFound(Fault("ctx") \o e)
  BY <1>1, FaultSays, JoinSays
<1> QED BY <1>2, MarkersSay

-----------------------------------------------------------------------------
(* What errors and waits say.                                              *)

LastTransient ==
  last.kind \in {"net", "eof"} \/ (last.kind = "status" /\ RetryableResponse(last))

\* What an error e of a request lets one conclude about its last try.
Tells(e) ==
  /\ Retryable(e) => LastTransient /\ ~Is(e, "ctx")
  /\ LastTransient /\ loop = "retry" /\ ~Is(e, "ctx") => Retryable(e)
  /\ IsNotFound(e) <=> (last = Status(404, "registry") /\ ~Is(e, "ctx"))
  /\ Is(e, "ctx") => ctxDone \/ last.kind = "ctx"

\* A request that is over has an error that tells, or the last response.
ResultTold ==
  rpc = "done" => IF resp = NoResp THEN err # NoError /\ Tells(err)
                                   ELSE err = NoError /\ last = Status(resp.code, resp.origin)

\* A request waits after a response or a failed transport, for as long as
\* the attempt that failed and its Retry-After ask.
WaitTold ==
  rpc = "sleep" => /\ err \in {NoError, Fault("net"), Fault("eof")}
                   /\ \E w \in Wish \cup {0} : wait = BackoffDelay(attempt, w)

\* An operation has failed only where it ended; a broken stream was broken by
\* the network.
FailureTold ==
  /\ pc \notin {"returned", "over", "closed"} => failure = NoError
  /\ Is(failure, "ctx") => ctxDone \/ last.kind = "ctx"
  /\ pc = "returned" /\ answer = "error" => Tells(failure)
CauseTold == cause \in {NoError} \cup Transient

TellInv == ResultTold /\ WaitTold /\ FailureTold /\ CauseTold

LEMMA TellInit == Init => TellInv
<1> SUFFICES ASSUME Init PROVE TellInv
  OBVIOUS
<1>1. \A k : ~Is(NoError, k)
  BY DEF Is, NoError
<1> QED BY <1>1 DEF Init, RequestInit, TellInv, ResultTold, WaitTold, FailureTold, CauseTold

\* Which error a failed try leaves: a context that ended comes first, then a
\* refused redirect, then the budget.
LEMMA FailsWith ==
  ASSUME NEW k \in {"net", "eof", "ctx", "policy"}, k = "ctx" => loop = "once",
         loop \in {"retry", "probe", "once"}, Fails(Fault(k))
  PROVE  /\ last' = (IF ctxDone THEN Node("ctx") ELSE Node(k))
         /\ resp' = NoResp /\ UNCHANGED <<loop, attempt>>
         /\ \/ /\ rpc' = "sleep" /\ err' = Fault(k) /\ k \in {"net", "eof"}
               /\ wait' = BackoffDelay(attempt, 0)
            \/ /\ rpc' = "done"
               /\ \/ ctxDone /\ loop = "retry" /\ err' = MarkTerminal(Fault("ctx") \o Fault(k))
                  \/ ctxDone /\ err' = Fault("ctx")
                  \/ ~ctxDone /\ k \in {"net", "eof"} /\ err' = MarkRetryable(Fault(k))
                  \/ (loop # "retry" \/ k = "policy") /\ err' = Fault(k)
<1>1. k \in Kinds /\ Head(Fault(k)) = Node(k)
  BY FaultSays DEF Kinds
<1>2. last' = (IF ctxDone THEN Node("ctx") ELSE Node(k)) /\ UNCHANGED <<loop, attempt>>
  BY <1>1 DEF Fails, policy
<1>3. RetryableRequestError(Fault(k)) <=> k # "policy"
  BY <1>1, FaultSays DEF RetryableRequestError
<1>4. CASE loop = "retry"
  <2>1. FailUnderRetry(Fault(k))
    BY <1>4 DEF Fails
  <2> QED BY <1>2, <1>3, <1>4, <2>1 DEF FailUnderRetry, Finish, SleepOn
<1>5. CASE loop = "probe"
  <2>1. FailUnderProbe(Fault(k))
    BY <1>5 DEF Fails
  <2> QED BY <1>2, <1>3, <1>5, <2>1 DEF FailUnderProbe, Finish, SleepOn
<1>6. CASE loop = "once"
  <2>1. Finish(Fault(k))
    BY <1>6 DEF Fails
  <2> QED BY <1>2, <1>6, <2>1 DEF Finish
<1> QED BY <1>4, <1>5, <1>6

\* A failed try tells what happened.
LEMMA FailsTell ==
  ASSUME NEW k \in {"net", "eof", "ctx", "policy"}, k = "ctx" => loop = "once",
         loop \in {"retry", "probe", "once"}, Fails(Fault(k)), UNCHANGED ctxDone
  PROVE  ResultTold' /\ WaitTold'
<1>0. {k, "ctx", "net", "eof"} \subseteq Kinds
  BY DEF Kinds
<1>1. /\ last' = (IF ctxDone THEN Node("ctx") ELSE Node(k))
      /\ resp' = NoResp /\ UNCHANGED <<loop, attempt>>
  BY FailsWith
<1>2. /\ last'.kind = (IF ctxDone THEN "ctx" ELSE k) /\ last' # Status(404, "registry")
      /\ LastTransient' <=> (~ctxDone /\ k \in {"net", "eof"})
  BY <1>1 DEF Node, Status, LastTransient
<1>3. CASE /\ rpc' = "sleep" /\ err' = Fault(k) /\ k \in {"net", "eof"}
           /\ wait' = BackoffDelay(attempt, 0)
  BY <1>1, <1>3 DEF ResultTold, WaitTold
<1>4. ASSUME rpc' = "done", err' # NoError, Tells(err)'
      PROVE  ResultTold' /\ WaitTold'
  BY <1>1, <1>4 DEF ResultTold, WaitTold
<1>5. CASE rpc' = "done" /\ ctxDone /\ loop = "retry" /\ err' = MarkTerminal(Fault("ctx") \o Fault(k))
  <2>1. err' # NoError /\ Is(err', "ctx") /\ ~Retryable(err') /\ ~IsNotFound(err')
    BY <1>0, <1>5, FaultSays, ContextSays
  <2>2. Tells(err)'
    BY <1>1, <1>2, <1>5, <2>1 DEF Tells
  <2> QED BY <1>4, <1>5, <2>1, <2>2
<1>6. CASE rpc' = "done" /\ ctxDone /\ err' = Fault("ctx")
  <2>1. err' # NoError /\ Is(err', "ctx") /\ ~Retryable(err') /\ ~IsNotFound(err')
    BY <1>0, <1>6, FaultSays
  <2>2. Tells(err)'
    BY <1>1, <1>2, <1>6, <2>1 DEF Tells
  <2> QED BY <1>4, <1>6, <2>1, <2>2
<1>7. CASE rpc' = "done" /\ ~ctxDone /\ k \in {"net", "eof"} /\ err' = MarkRetryable(Fault(k))
  <2>1. err' # NoError /\ ~Is(err', "ctx") /\ Retryable(err') /\ ~IsNotFound(err')
    BY <1>0, <1>7, FaultSays, MarkersSay
  <2>2. Tells(err)'
    BY <1>1, <1>2, <1>7, <2>1 DEF Tells
  <2> QED BY <1>4, <1>7, <2>1, <2>2
<1>8. CASE rpc' = "done" /\ (loop # "retry" \/ k = "policy") /\ err' = Fault(k)
  <2>1. err' # NoError /\ (Is(err', "ctx") <=> k = "ctx") /\ ~Retryable(err') /\ ~IsNotFound(err')
    BY <1>0, <1>8, FaultSays
  <2>2. Tells(err)'
    BY <1>1, <1>2, <1>8, <2>1 DEF Tells
  <2> QED BY <1>4, <1>8, <2>1, <2>2
<1> QED BY <1>3, <1>5, <1>6, <1>7, <1>8, FailsWith

\* While a request is under way the operation has not failed.
LEMMA AskingTells ==
  ASSUME CallInv, TellInv, rpc # "idle", UNCHANGED <<call, stream, outcome>>
  PROVE  FailureTold' /\ CauseTold'
<1>1. pc \in {"first", "second", "cleanup"} /\ failure = NoError
  BY DEF CallInv, Phases, Asking, TellInv, FailureTold
<1>2. ~Is(NoError, "ctx")
  BY DEF Is, NoError
<1>3. pc' = pc /\ failure' = NoError /\ cause' = cause
  BY <1>1 DEF call, stream, outcome
<1>4. FailureTold'
  BY <1>1, <1>2, <1>3 DEF FailureTold
<1> QED BY <1>3, <1>4 DEF TellInv, CauseTold

\* Whatever the network does with a request.
LEMMA NetworkTells ==
  ASSUME CallInv, TellInv, Requesting \/ Answers \/ LosesAnswer \/ Redirects
  PROVE  TellInv'
<1>1. UNCHANGED <<ctxDone, call, stream, outcome>> /\ rpc # "idle"
  BY DEF Requesting, RequestStep, LoopCanceled, Send, SleepEnds, SleepCanceled, Answers, Answered,
     LosesAnswer, TransportFails, Redirects, Redirected, caller
<1>2. FailureTold' /\ CauseTold'
  BY <1>1, AskingTells
<1>3. loop \in {"retry", "probe", "once"}
  BY DEF CallInv, Phases
<1>4. CASE LosesAnswer
  <2>1. PICK k \in {"net", "eof"} \cup (IF loop = "once" THEN {"ctx"} ELSE {}) : Fails(Fault(k))
    BY <1>4 DEF LosesAnswer, TransportFails
  <2>2. k \in {"net", "eof", "ctx", "policy"} /\ (k = "ctx" => loop = "once")
    BY <2>1
  <2> QED BY <1>1, <1>2, <1>3, <2>1, <2>2, FailsTell DEF TellInv
<1>5. CASE Redirects
  <2>1. Fails(Fault("policy")) \/ (rpc = "wire" /\ UNCHANGED rpc)
    BY <1>5 DEF Redirects, Redirected
  <2>2. CASE Fails(Fault("policy"))
    BY <1>1, <1>2, <1>3, <2>2, FailsTell DEF TellInv
  <2>3. CASE rpc = "wire" /\ UNCHANGED rpc
    BY <1>2, <2>3 DEF TellInv, ResultTold, WaitTold
  <2> QED BY <2>1, <2>2, <2>3
<1>6. CASE Answers
  <2>1. PICK code \in Codes, wish \in Wish : Answered(code, wish)
    BY <1>6 DEF Answers
  <2>2. code # 0
    BY <2>1 DEF Codes
  <2>3. CASE RetryableStatus(code) /\ ~Last
    <3>1. rpc' = "sleep" /\ err' = NoError /\ wait' = BackoffDelay(attempt, wish) /\ UNCHANGED attempt
      BY <2>1, <2>3 DEF Answered, SleepOn, policy
    <3>2. WaitTold' /\ ResultTold'
      BY <3>1 DEF WaitTold, ResultTold
    <3> QED BY <1>2, <3>2 DEF TellInv
  <2>4. CASE ~(RetryableStatus(code) /\ ~Last)
    <3>1. /\ rpc' = "done" /\ err' = NoError /\ last' = Status(code, at)
          /\ resp' = [code |-> code, origin |-> at]
      BY <2>1, <2>4 DEF Answered
    <3>2. resp' # NoResp /\ resp'.code = code /\ resp'.origin = at
      BY <2>2, <3>1 DEF NoResp
    <3>3. WaitTold' /\ ResultTold'
      BY <3>1, <3>2 DEF WaitTold, ResultTold
    <3> QED BY <1>2, <3>3 DEF TellInv
  <2> QED BY <2>3, <2>4
<1>7. CASE Requesting
  <2>0. "ctx" \in Kinds /\ {"net", "eof"} \subseteq Kinds
    BY DEF Kinds
  <2>1. CASE Send \/ SleepEnds
    <3>1. rpc' \in {"wire", "loop"}
      BY <2>1 DEF Send, SleepEnds
    <3> QED BY <1>2, <3>1 DEF TellInv, ResultTold, WaitTold
  <2>2. ASSUME rpc' = "done", resp' = NoResp, ctxDone, err' # NoError, Is(err', "ctx"),
               ~Retryable(err'), ~IsNotFound(err')
        PROVE  TellInv'
    <3>1. Tells(err)'
      BY <1>1, <2>2 DEF Tells
    <3> QED BY <1>2, <2>2, <3>1 DEF TellInv, ResultTold, WaitTold
  <2>3. ASSUME rpc' = "done", resp' = NoResp, ctxDone, err' = Fault("ctx")
        PROVE  TellInv'
    BY <2>0, <2>2, <2>3, FaultSays
  <2>4. CASE LoopCanceled
    BY <2>3, <2>4 DEF LoopCanceled, Finish
  <2>5. CASE SleepCanceled /\ loop # "retry"
    BY <2>3, <2>5 DEF SleepCanceled, Finish
  <2>6. CASE SleepCanceled /\ loop = "retry"
    <3>1. /\ rpc = "sleep" /\ ctxDone /\ rpc' = "done" /\ resp' = NoResp
          /\ err' = MarkTerminal(Fault("ctx") \o err)
      BY <2>6 DEF SleepCanceled, Finish
    <3>2. err \in {NoError, Fault("net"), Fault("eof")}
      BY <3>1 DEF TellInv, WaitTold
    <3>3. NoError \in Seq(Nodes) /\ ~IsNotFound(NoError)
      BY DEF NoError, IsNotFound
    <3>4. err \in Seq(Nodes) /\ ~IsNotFound(err)
      BY <2>0, <3>2, <3>3, FaultSays
    <3>5. err' # NoError /\ Is(err', "ctx") /\ ~Retryable(err') /\ ~IsNotFound(err')
      BY <3>1, <3>4, ContextSays
    <3> QED BY <2>2, <3>1, <3>5
  <2> QED BY <1>7, <2>1, <2>4, <2>5, <2>6 DEF Requesting, RequestStep
<1> QED BY <1>4, <1>5, <1>6, <1>7

\* A call returns with an error that tells.
LEMMA ReturnTells ==
  ASSUME TellInv, rpc = "done", NEW a, NEW e, Return(a, e),
         a = "error" => Tells(e), Is(e, "ctx") => ctxDone \/ last.kind = "ctx"
  PROVE  TellInv'
<1>1. /\ pc' = "returned" /\ answer' = a /\ failure' = e /\ rpc' = "idle"
      /\ UNCHANGED <<ctxDone, loop, last, cause>>
  BY DEF Return, Settled, policy, caller, stream
<1>2. a = "error" => Tells(failure)'
  BY <1>1 DEF Tells, LastTransient
<1>3. FailureTold'
  BY <1>1, <1>2 DEF FailureTold
<1> QED BY <1>1, <1>3 DEF TellInv, ResultTold, WaitTold, CauseTold

\* An answer that is no refusal of a retried request: the client's own error
\* about it is neither retryable nor a missing blob.
LEMMA OwnErrorTells ==
  ASSUME NEW code \in {200, 202, 206, 416}, NEW origin, last = Status(code, origin),
         NEW e, ~Retryable(e), ~IsNotFound(e), Is(e, "ctx") => ctxDone
  PROVE  Tells(e)
<1>1. last.code = code /\ last.kind = "status" /\ Status(404, "registry").code = 404
  BY DEF Status
<1>2. ~LastTransient
  BY <1>1 DEF LastTransient, RetryableResponse, RetryableStatus
<1>3. last # Status(404, "registry")
  BY <1>1
<1> QED BY <1>2, <1>3 DEF Tells

\* The errors an opening call makes itself.
LEMMA OwnErrors ==
  /\ \A k \in {"location", "ctx", "header", "budget", "eof", "net"} :
       /\ ~Retryable(Fault(k)) /\ ~IsNotFound(Fault(k)) /\ (Is(Fault(k), "ctx") <=> k = "ctx")
       /\ LET c == MarkTerminal(Fault("ctx") \o Fault(k)) IN ~Retryable(c) /\ ~IsNotFound(c)
<1> SUFFICES ASSUME NEW k \in {"location", "ctx", "header", "budget", "eof", "net"}
             PROVE  /\ ~Retryable(Fault(k)) /\ ~IsNotFound(Fault(k))
                    /\ Is(Fault(k), "ctx") <=> k = "ctx"
                    /\ ~Retryable(MarkTerminal(Fault("ctx") \o Fault(k)))
                    /\ ~IsNotFound(MarkTerminal(Fault("ctx") \o Fault(k)))
  OBVIOUS
<1>1. k \in Kinds /\ k \notin {"status", "retryable"}
  BY DEF Kinds
<1> QED BY <1>1, FaultSays, ContextSays

\* ReturnStatus hands on the registry's own status.
LEMMA StatusTells ==
  ASSUME TellInv, rpc = "done", err = NoError, ReturnStatus
  PROVE  TellInv'
<1>1. last = Status(resp.code, resp.origin)
  BY DEF TellInv, ResultTold
<1>2. Tells(<<last>>)
  BY <1>1, StatusSays DEF Tells, LastTransient
<1>3. ~Is(<<last>>, "ctx")
  BY <1>1, StatusSays
<1>4. Return("error", <<last>>)
  BY <1>1 DEF ReturnStatus
<1> QED BY <1>2, <1>3, <1>4, ReturnTells

\* The client's own error about a response.
LEMMA OwnReturnTells ==
  ASSUME TellInv, rpc = "done", resp.code \in {200, 202, 206, 416}, NEW e, Return("error", e),
         ~Retryable(e), ~IsNotFound(e), Is(e, "ctx") => ctxDone
  PROVE  TellInv'
<1>1. resp # NoResp
  BY DEF NoResp
<1>2. last = Status(resp.code, resp.origin)
  BY <1>1 DEF TellInv, ResultTold
<1>3. Tells(e)
  BY <1>2, OwnErrorTells
<1> QED BY <1>3, ReturnTells

\* A step after which the operation goes on without an error.
LEMMA GoesOnTells ==
  ASSUME TellInv, pc \notin {"returned", "over", "closed"}, rpc' \in {"loop", "idle"},
         pc' \in {"first", "second", "cleanup", "open"}, UNCHANGED <<failure, cause>>
  PROVE  TellInv'
<1>1. failure' = NoError /\ ~Is(NoError, "ctx")
  BY DEF TellInv, FailureTold, Is, NoError
<1> QED BY <1>1 DEF TellInv, ResultTold, WaitTold, FailureTold, CauseTold

\* The first request, and the answers of Exists and Mount.
LEMMA AnswersTell ==
  ASSUME CallInv, TellInv,
         \/ Start \/ RequestFailed
         \/ ExistsAnswered \/ MountAnswered \/ MountDeclined \/ CleanupAnswered
  PROVE  TellInv'
<1>0. NoResp.code = 0 /\ ~Is(NoError, "ctx")
  BY DEF NoResp, Is, NoError
<1>1. ASSUME rpc = "done", NEW a \in {"yes", "no"}, Return(a, NoError) PROVE TellInv'
  BY <1>0, <1>1, ReturnTells
<1>2. CASE Start
  <2>1. pc = "start" /\ pc' = "first" /\ rpc' = "loop" /\ UNCHANGED <<failure, cause>>
    BY <1>2 DEF Start, Asks, Begin, CallInv, AllOps, stream, outcome
  <2> QED BY <2>1, GoesOnTells
<1>3. CASE RequestFailed
  <2>1. rpc = "done" /\ err # NoError /\ Return("error", err)
    BY <1>3 DEF RequestFailed
  <2>2. Tells(err)
    BY <2>1 DEF TellInv, ResultTold
  <2> QED BY <2>1, <2>2, ReturnTells DEF Tells
<1>4. CASE ExistsAnswered
  BY <1>1, <1>4, StatusTells DEF ExistsAnswered, Responded
<1>5. CASE MountAnswered
  <2>1. CASE Responded(202) /\ Return("error", Fault("location"))
    BY <2>1, OwnErrors, OwnReturnTells DEF Responded
  <2> QED BY <1>1, <1>5, <2>1, StatusTells DEF MountAnswered, Responded
<1>6. CASE MountDeclined
  <2>1. pc = "first" /\ rpc = "done" /\ resp.code = 202
    BY <1>6 DEF MountDeclined, Responded
  <2>2. CASE ctxDone
    <3>1. Return("error", Fault("ctx"))
      BY <1>6, <2>2 DEF MountDeclined
    <3> QED BY <2>1, <2>2, <3>1, OwnErrors, OwnReturnTells
  <2>3. CASE ~ctxDone
    <3>1. pc' = "cleanup" /\ rpc' = "loop" /\ UNCHANGED <<failure, cause>>
      BY <1>6, <2>3 DEF MountDeclined, Asks, Begin, stream, outcome
    <3> QED BY <2>1, <3>1, GoesOnTells
  <2> QED BY <2>2, <2>3
<1>7. CASE CleanupAnswered
  BY <1>1, <1>7, StatusTells DEF CleanupAnswered
<1> QED BY <1>2, <1>3, <1>4, <1>5, <1>6, <1>7

\* The answers of a download that is being opened.
LEMMA OpeningTells ==
  ASSUME CallInv, TellInv, PullAnswered \/ RangeAnswered \/ ProbeRefused \/ ProbeAnswered
  PROVE  TellInv'
<1>0. rpc = "done" /\ pc \in {"first", "second"}
  BY DEF PullAnswered, RangeAnswered, ProbeRefused, ProbeAnswered, Responded
<1>1. ASSUME NEW r, NEW spent, Opens(r, spent) PROVE TellInv'
  <2>1. pc' = "open" /\ rpc' = "idle" /\ UNCHANGED <<failure, cause>>
    BY <1>1 DEF Opens, Settled
  <2> QED BY <1>0, <2>1, GoesOnTells
<1>2. CASE PullAnswered
  BY <1>0, <1>1, <1>2, StatusTells DEF PullAnswered
<1>3. CASE RangeAnswered
  <2>0. rpc = "done" /\ err = NoError
    BY <1>3 DEF RangeAnswered
  <2>1. CASE resp.code = 206 /\ Return("error", Fault("header"))
    BY <1>0, <2>1, OwnErrors, OwnReturnTells
  <2>2. CASE resp.code = 200 /\ ctxDone /\ Return("error", Fault("ctx"))
    BY <1>0, <2>2, OwnErrors, OwnReturnTells
  <2>3. CASE resp.code = 200 /\ \E k \in {"eof", "net"} :
               Return("error", IF ctxDone THEN MarkTerminal(Fault("ctx") \o Fault(k)) ELSE Fault(k))
    <3>1. PICK k \in {"eof", "net"} :
            Return("error", IF ctxDone THEN MarkTerminal(Fault("ctx") \o Fault(k)) ELSE Fault(k))
      BY <2>3
    <3>2. CASE ctxDone
      <4>1. Return("error", MarkTerminal(Fault("ctx") \o Fault(k)))
        BY <3>1, <3>2
      <4>2. k \in {"location", "ctx", "header", "budget", "eof", "net"}
        BY <3>1
      <4>3. /\ ~Retryable(MarkTerminal(Fault("ctx") \o Fault(k)))
            /\ ~IsNotFound(MarkTerminal(Fault("ctx") \o Fault(k)))
        BY <4>2, OwnErrors
      <4> QED BY <1>0, <2>3, <3>2, <4>1, <4>3, OwnReturnTells
    <3>3. CASE ~ctxDone
      <4>1. Return("error", Fault(k))
        BY <3>1, <3>3
      <4>2. ~Retryable(Fault(k)) /\ ~IsNotFound(Fault(k)) /\ ~Is(Fault(k), "ctx")
        BY <3>1, OwnErrors
      <4> QED BY <1>0, <2>3, <4>1, <4>2, OwnReturnTells
    <3> QED BY <3>2, <3>3
  <2>4. CASE ReturnStatus
    BY <2>0, <2>4, StatusTells
  <2>5. CASE \E r \in {"plain"} : Opens(r, attempt)
    BY <1>1, <2>5
  <2> QED BY <1>3, <2>1, <2>2, <2>3, <2>4, <2>5 DEF RangeAnswered
<1>4. CASE ProbeRefused
  <2>1. resp.code = 416
    BY <1>4 DEF ProbeRefused, Responded
  <2>2. CASE Opens("none", attempt)
    BY <1>1, <2>2
  <2>3. CASE Return("error", Fault("budget"))
    BY <1>0, <2>1, <2>3, OwnErrors, OwnReturnTells
  <2>4. CASE ~Opens("none", attempt) /\ ~Return("error", Fault("budget"))
    <3>1. pc' = "second" /\ rpc' = "loop" /\ UNCHANGED <<failure, cause>>
      BY <1>4, <2>4 DEF ProbeRefused, Asks, Begin, outcome
    <3> QED BY <1>0, <3>1, GoesOnTells
  <2> QED BY <2>2, <2>3, <2>4
<1>5. CASE ProbeAnswered
  <2>1. CASE resp.code = 206 /\ Return("error", Fault("header"))
    BY <1>0, <2>1, OwnErrors, OwnReturnTells
  <2>2. CASE ReturnStatus
    BY <1>5, <2>2, StatusTells DEF ProbeAnswered
  <2>3. CASE \E r \in {"probe", "puller"} : Opens(r, attempt)
    BY <1>1, <2>3
  <2> QED BY <1>5, <2>1, <2>2, <2>3 DEF ProbeAnswered
<1> QED BY <1>2, <1>3, <1>4, <1>5

\* A step of an opened download that hands on error e, if any.
LEMMA VerifyTells ==
  ASSUME CallInv, TellInv, pc \in {"open", "resuming"}, NEW b, NEW e, Verify(b, e),
         Is(e, "ctx") => ctxDone, CauseTold', UNCHANGED <<ctxDone, rpc, last>>
  PROVE  TellInv'
<1>1. rpc' = "idle" /\ failure = NoError
  BY DEF CallInv, Phases, Asking, TellInv, FailureTold
<1>2. ~Is(NoError, "ctx") /\ ~Is(Fault("mismatch"), "ctx")
  <2>1. {"ctx", "mismatch"} \subseteq Kinds /\ ~Is(NoError, "ctx")
    BY DEF Kinds, Is, NoError
  <2> QED BY <2>1, FaultSays
<1>3. /\ e = NoError => pc' = "open" /\ failure' = NoError
      /\ e # NoError => pc' = "over" /\ failure' \in {Fault("mismatch"), e}
  BY <1>1 DEF Verify, Surface, outcome
<1>4. FailureTold'
  BY <1>2, <1>3 DEF FailureTold
<1> QED BY <1>1, <1>4 DEF TellInv, ResultTold, WaitTold

\* The reasons for which a stream breaks or is not resumed.
LEMMA StreamErrors ==
  /\ \A e \in Transient \cup Terminal \cup {Fault("header"), Fault("eof"), NoError} :
       e \in Seq(Nodes) /\ ~Is(e, "ctx")
  /\ Fault("budget") \in Seq(Nodes) /\ ~Is(Fault("budget"), "ctx")
<1>1. {"net", "eof", "policy", "header", "budget", "ctx", "status"} \subseteq Kinds
  BY DEF Kinds
<1>2. \A k \in {"net", "eof", "policy", "header", "budget"} :
        Fault(k) \in Seq(Nodes) /\ ~Is(Fault(k), "ctx")
  BY <1>1, FaultSays
<1>3. \A c \in {503, 404}, o \in {"registry", "storage"} :
        <<Status(c, o)>> \in Seq(Nodes) /\ ~Is(<<Status(c, o)>>, "ctx")
  <2> SUFFICES ASSUME NEW c \in {503, 404}, NEW o \in {"registry", "storage"}
               PROVE  <<Status(c, o)>> \in Seq(Nodes) /\ ~Is(<<Status(c, o)>>, "ctx")
    OBVIOUS
  <2>1. Status(c, o) \in Nodes
    BY <1>1 DEF Status, Nodes
  <2> QED BY <2>1, StatusSays
<1>4. NoError \in Seq(Nodes) /\ ~Is(NoError, "ctx")
  BY DEF NoError, Is
<1> QED BY <1>2, <1>3, <1>4 DEF Transient, Terminal

\* The caller reads and closes.
LEMMA ReadsTell == ASSUME CallInv, TellInv, Read \/ Close PROVE TellInv'
<1>1. UNCHANGED <<ctxDone, rpc, last>>
  BY DEF Read, ReadBytes, ReadCanceled, ReadEnds, PullerEnds, PullerFails, StreamBreaks, Close,
     caller, reqvars
<1>2. ASSUME pc = "open", NEW b, NEW e, Verify(b, e), Is(e, "ctx") => ctxDone, UNCHANGED cause
      PROVE  TellInv'
  <2>1. CauseTold'
    BY <1>2 DEF TellInv, CauseTold, Transient
  <2> QED BY <1>1, <1>2, <2>1, VerifyTells
<1>3. CASE ReadBytes
  <2>1. PICK b : Verify(b, IF ReaderDone THEN Fault("ctx") ELSE NoError)
    BY <1>3 DEF ReadBytes
  <2>2. Is(IF ReaderDone THEN Fault("ctx") ELSE NoError, "ctx") => ctxDone
    BY StreamErrors DEF ReaderDone
  <2> QED BY <1>2, <1>3, <2>1, <2>2 DEF ReadBytes, Reading
<1>4. CASE ReadCanceled
  BY <1>2, <1>4 DEF ReadCanceled, Reading, ReaderDone
<1>5. CASE ReadEnds \/ PullerEnds
  <2>1. PICK b : Verify(b, Fault("eof"))
    BY <1>5 DEF ReadEnds, PullerEnds
  <2> QED BY <1>2, <1>5, <2>1, StreamErrors DEF ReadEnds, PullerEnds, Reading
<1>6. CASE PullerFails
  <2>1. PICK e \in Transient \cup Terminal \cup {Fault("header")} : Verify("none", e)
    BY <1>6 DEF PullerFails
  <2> QED BY <1>2, <1>6, <2>1, StreamErrors DEF PullerFails, Reading
<1>7. CASE StreamBreaks
  <2>1. /\ pc = "open" /\ pc' = "resuming" /\ cause' = Fault("net") /\ failure' = failure
    BY <1>7 DEF StreamBreaks, Reading, outcome
  <2>2. rpc = "idle" /\ failure = NoError
    BY <2>1 DEF CallInv, Phases, Asking, TellInv, FailureTold
  <2>3. ~Is(NoError, "ctx")
    BY StreamErrors
  <2>4. FailureTold'
    BY <2>1, <2>2, <2>3 DEF FailureTold
  <2>5. CauseTold'
    BY <2>1 DEF CauseTold, Transient
  <2> QED BY <1>1, <2>2, <2>4, <2>5 DEF TellInv, ResultTold, WaitTold
<1>8. CASE Close
  <2>1. pc \in {"open", "over"} /\ pc' = "closed" /\ UNCHANGED <<failure, cause>>
    BY <1>8 DEF Close, outcome
  <2>2. rpc = "idle"
    BY <2>1 DEF CallInv, Phases, Asking
  <2>3. FailureTold' /\ CauseTold'
    BY <1>1, <2>1 DEF TellInv, FailureTold, CauseTold, Transient
  <2> QED BY <1>1, <2>2, <2>3 DEF TellInv, ResultTold, WaitTold
<1> QED BY <1>3, <1>4, <1>5, <1>6, <1>7, <1>8 DEF Read

\* A broken stream: every error joins the cause, and no cause is a context's.
LEMMA ResumeTells ==
  ASSUME CallInv, TellInv, ResumeGivesUp \/ ResumeFails \/ ResumeRejected \/ ResumeSucceeds
  PROVE  TellInv'
<1>1. pc = "resuming" /\ UNCHANGED <<ctxDone, rpc, last>>
  BY DEF ResumeGivesUp, ResumeFails, ResumeRejected, ResumeSucceeds, ReserveResume, caller, reqvars
<1>2. rpc = "idle" /\ failure = NoError /\ CauseTold
  BY <1>1 DEF CallInv, Phases, Asking, TellInv, FailureTold
<1>3. cause \in Seq(Nodes) /\ ~Is(cause, "ctx")
  BY <1>2, StreamErrors DEF CauseTold
<1>4. ASSUME NEW e, Verify("none", e), Is(e, "ctx") => ctxDone, UNCHANGED cause PROVE TellInv'
  <2>1. CauseTold'
    BY <1>2, <1>4 DEF CauseTold, Transient
  <2> QED BY <1>1, <1>4, <2>1, VerifyTells
<1>5. CASE ResumeGivesUp
  <2>1. ~Is(Fault("budget") \o cause, "ctx")
    BY <1>3, StreamErrors, JoinSays
  <2> QED BY <1>4, <1>5, <2>1 DEF ResumeGivesUp, ReaderDone
<1>6. CASE ResumeFails
  <2>1. pc' = "resuming" /\ failure' = NoError /\ cause' \in Transient
    BY <1>1, <1>2, <1>6 DEF ResumeFails, outcome
  <2>2. FailureTold'
    BY <2>1, StreamErrors DEF FailureTold
  <2>3. CauseTold'
    BY <2>1 DEF CauseTold, Transient
  <2> QED BY <1>1, <1>2, <2>2, <2>3 DEF TellInv, ResultTold, WaitTold
<1>7. CASE ResumeRejected
  <2>1. UNCHANGED cause
    BY <1>7 DEF ResumeRejected
  <2>2. ASSUME NEW t \in Terminal \cup {Fault("eof")} PROVE ~Is(cause \o t, "ctx")
    <3>1. t \in Seq(Nodes) /\ ~Is(t, "ctx")
      BY StreamErrors
    <3> QED BY <1>3, <3>1, JoinSays
  <2>3. PICK e \in {cause \o t : t \in Terminal} \cup {Fault("header"), cause \o Fault("eof")} :
          Verify("none", e)
    BY <1>7 DEF ResumeRejected
  <2>4. ~Is(e, "ctx")
    BY <2>2, StreamErrors
  <2> QED BY <1>4, <2>1, <2>3, <2>4
<1>8. CASE ResumeSucceeds
  <2>1. pc' = "open" /\ failure' = NoError /\ cause' = cause
    BY <1>2, <1>8 DEF ResumeSucceeds, outcome
  <2>2. FailureTold'
    BY <2>1, StreamErrors DEF FailureTold
  <2>3. CauseTold'
    BY <1>2, <2>1 DEF CauseTold, Transient
  <2> QED BY <1>1, <1>2, <2>2, <2>3 DEF TellInv, ResultTold, WaitTold
<1> QED BY <1>5, <1>6, <1>7, <1>8

\* A context that ends later makes no error untrue.
LEMMA OutsideTells ==
  ASSUME TellInv, CallerCancels \/ HeldChanges \/ UNCHANGED vars
  PROVE  TellInv'
<1>1. /\ UNCHANGED <<rpc, loop, attempt, wait, err, resp, last, pc, answer, failure, cause>>
      /\ ctxDone => ctxDone'
  BY DEF CallerCancels, HeldChanges, vars, caller, reqvars, policy, hop, result, call, stream,
     outcome
<1>2. LastTransient' <=> LastTransient
  BY <1>1 DEF LastTransient
<1>3. ASSUME NEW e, Tells(e) PROVE Tells(e)'
  BY <1>1, <1>2, <1>3 DEF Tells
<1>4. ResultTold'
  BY <1>1, <1>3 DEF TellInv, ResultTold
<1>5. FailureTold'
  BY <1>1, <1>3 DEF TellInv, FailureTold
<1> QED BY <1>1, <1>4, <1>5 DEF TellInv, WaitTold, CauseTold, Transient

LEMMA TellNext == CallInv /\ TellInv /\ [Next]_vars => TellInv'
<1> SUFFICES ASSUME CallInv, TellInv, [Next]_vars PROVE TellInv'
  OBVIOUS
<1>1. CASE Requesting \/ Answers \/ LosesAnswer \/ Redirects
  BY <1>1, NetworkTells
<1>2. CASE \/ Start \/ RequestFailed
           \/ ExistsAnswered \/ MountAnswered \/ MountDeclined \/ CleanupAnswered
  BY <1>2, AnswersTell
<1>3. CASE PullAnswered \/ RangeAnswered \/ ProbeRefused \/ ProbeAnswered
  BY <1>3, OpeningTells
<1>4. CASE ResumeGivesUp \/ ResumeFails \/ ResumeRejected \/ ResumeSucceeds
  BY <1>4, ResumeTells
<1>5. CASE Read \/ Close
  BY <1>5, ReadsTell
<1>6. CASE CallerCancels \/ HeldChanges \/ UNCHANGED vars
  BY <1>6, OutsideTells
<1> QED BY <1>1, <1>2, <1>3, <1>4, <1>5, <1>6 DEF Next, Step

LEMMA TellAlways == Spec => []TellInv
<1> QED BY TellInit, TellNext, CallAlways, PTL DEF Spec

\* Over every retry budget, redirect limit and course of the network, the
\* error of an opening call is retryable exactly when its last try failed for a
\* transient reason before the context ended, is ErrNotFound exactly on the
\* registry's own 404, and is a context error only when a context ended
\* (doRetryAttempt, parallelProbe, registryError, resumeReader).
THEOREM CallsErrorsTell == Spec => []ErrorsTellWhatHappened
<1>1. TellInv => ErrorsTellWhatHappened
  BY DEF TellInv, FailureTold, Tells, LastTransient, ErrorsTellWhatHappened
<1> QED BY <1>1, TellAlways, PTL

\* For every policy whose two delays multiplied fit a duration, every wait is
\* the exponential ceiling capped by MaxDelay, or a Retry-After wish capped by
\* it: the guard on the shift catches every overflow (backoffDelay).
THEOREM CallsBackoffExponential == Spec => []BackoffIsExponential
<1>1. ASSUME CallInv, TellInv, rpc = "sleep", InitialDelay > 0,
             InitialDelay * MaxDelay < 2^(Width - 1)
      PROVE  wait \in {Smaller(w, MaxDelay) : w \in Wish \ {0}}
                      \cup {Smaller(InitialDelay * 2^(attempt - 1), MaxDelay)}
  <2>1. PICK w \in Wish \cup {0} : wait = BackoffDelay(attempt, w)
    BY <1>1 DEF TellInv, WaitTold
  <2>2. w \in Nat
    BY DelayAssumption
  <2>3. CASE w > 0
    BY <2>1, <2>2, <2>3 DEF BackoffDelay
  <2>4. CASE w = 0
    <3>1. attempt \in Nat \ {0}
      BY <1>1 DEF CallInv, Phases, Asking, Budget
    <3>2. wait = Smaller(InitialDelay * 2^(attempt - 1), MaxDelay)
      BY <1>1, <2>1, <2>4, <3>1, CeilingIsExponential
    <3> QED BY <3>2
  <2> QED BY <2>2, <2>3, <2>4
<1>2. CallInv /\ TellInv => BackoffIsExponential
  BY <1>1 DEF BackoffIsExponential
<1> QED BY <1>2, CallAlways, TellAlways, PTL
=============================================================================
