------------------------------ MODULE Requests ------------------------------
(***************************************************************************)
(* One logical request of the client: doRetry (retry.go), the loop of      *)
(* parallelProbe (parallel.go), or a single try, each with the redirects   *)
(* net/http follows under checkRedirect (transport.go).                    *)
(*                                                                         *)
(* The network is external: a round trip fails, redirects, or answers; the *)
(* operation that extends this module says which answers and what they     *)
(* change at the registry.                                                 *)
(***************************************************************************)
EXTENDS Errors

CONSTANTS
  MaxAttempts,       \* RetryPolicy.attempts()
  MaxRedirects,      \* maxRedirects: requests in one chain
  InitialDelay, MaxDelay,   \* RetryPolicy, in some unit of time
  Width,             \* bits of a time.Duration
  Wish               \* waits a Retry-After header may ask for, 0: no header

ASSUME AttemptsAssumption == MaxAttempts \in Nat \ {0}
ASSUME RedirectAssumption == MaxRedirects \in Nat \ {0}
ASSUME DelayAssumption ==
  /\ Width \in Nat \ {0} /\ Wish \subseteq Nat
  /\ {InitialDelay, MaxDelay} \subseteq 0 .. 2^(Width - 1) - 1

VARIABLES
  ctxDone,           \* the caller's context is done
  allowWrite,        \* WithWriteRedirects
  rpc,               \* the request: control
  loop,              \* "retry": doRetry, "probe": parallelProbe, "once": no loop
  attempt, budget,   \* this try and the number of tries
  method, at, hops,  \* method, origin of its URL, requests in this chain
  wait,              \* ceiling of the wait before the next try
  err, resp,         \* result of the last try
  open,              \* response bodies the client has not closed
  sent,              \* history: tries over all requests, up to SentBound
  last               \* history: what ended the last try

policy == <<loop, attempt, budget>>
hop == <<method, at, hops>>
result == <<err, resp>>
reqvars == <<rpc, policy, hop, wait, result, open, sent, last>>

NoResp == [code |-> 0, origin |-> "none"]
Last == loop = "once" \/ attempt = budget
SentBound == MaxAttempts + 2
OneMore(n) == IF n < SentBound THEN n + 1 ELSE n

RequestInit ==
  /\ ctxDone = FALSE /\ allowWrite \in BOOLEAN
  /\ rpc = "idle" /\ loop = "once" /\ attempt = 0 /\ budget = 0
  /\ method = "GET" /\ at = "registry" /\ hops = 0
  /\ wait = 0 /\ err = NoError /\ resp = NoResp
  /\ open = 0 /\ sent = 0 /\ last = Node("none")

\* Begin a request to a URL at origin o.  (Conjoined by the operations.)
Begin(m, o, l, b) ==
  /\ rpc' = "loop" /\ loop' = l /\ attempt' = 1 /\ budget' = b
  /\ method' = m /\ at' = o /\ hops' = 0

Finish(e) == rpc' = "done" /\ err' = e /\ resp' = NoResp

-----------------------------------------------------------------------------
(* The wait before another try.                                            *)

Smaller(a, b) == IF a < b THEN a ELSE b

\* d << k in a signed integer of Width bits.
Shifted(d, k) ==
  LET m == (d * 2^k) % 2^Width
  IN  IF m >= 2^(Width - 1) THEN m - 2^Width ELSE m

\* Mutant: the overflow of the shift is not looked at.
UncheckedBackoff(n, wish) ==
  IF wish > 0 THEN Smaller(wish, MaxDelay)
  ELSE LET ceiling == Shifted(InitialDelay, n - 1)
       IN  IF ceiling > MaxDelay THEN MaxDelay ELSE IF ceiling <= 0 THEN 0 ELSE ceiling

\* backoffDelay: the jitter stays below the ceiling; a wish is taken as it is.
BackoffDelay(n, wish) ==
  IF wish > 0 THEN Smaller(wish, MaxDelay)
  ELSE LET ceiling == Shifted(InitialDelay, n - 1)
       IN  IF ceiling > MaxDelay \/ ceiling <= 0 THEN MaxDelay ELSE ceiling

-----------------------------------------------------------------------------
(* One try.                                                                *)

LoopCanceled ==
  /\ rpc = "loop" /\ loop = "retry" /\ ctxDone
  /\ Finish(Fault("ctx"))
  /\ UNCHANGED <<policy, hop, wait, open, sent, last>>

Send ==
  /\ rpc = "loop" /\ (loop = "retry" => ~ctxDone)
  /\ rpc' = "wire" /\ hops' = 1 /\ sent' = OneMore(sent)
  /\ UNCHANGED <<policy, method, at, wait, result, open, last>>

SleepOn(e, wish) ==
  /\ rpc' = "sleep" /\ err' = e /\ resp' = NoResp
  /\ wait' = BackoffDelay(attempt, wish)

\* Mutant: doRetryAttempt marks the error before it looks at the context.
FailUnderRetryMarksFirst(e) ==
  IF ~RetryableRequestError(e) THEN Finish(e) /\ UNCHANGED wait
  ELSE IF Last THEN Finish(MarkRetryable(e)) /\ UNCHANGED wait
  ELSE SleepOn(e, 0)

\* doRetryAttempt: the caller's context first, then the redirect policy, then
\* the budget.
FailUnderRetry(e) ==
  IF ctxDone THEN Finish(MarkTerminal(Fault("ctx") \o e)) /\ UNCHANGED wait
  ELSE IF ~RetryableRequestError(e) THEN Finish(e) /\ UNCHANGED wait
  ELSE IF Last THEN Finish(MarkRetryable(e)) /\ UNCHANGED wait
  ELSE SleepOn(e, 0)

\* parallelProbe and rangeRequest.
FailUnderProbe(e) ==
  IF ctxDone THEN Finish(Fault("ctx")) /\ UNCHANGED wait
  ELSE IF ~RetryableRequestError(e) \/ Last THEN Finish(e) /\ UNCHANGED wait
  ELSE SleepOn(e, 0)

Fails(e) ==
  /\ CASE loop = "retry" -> FailUnderRetry(e)
       [] loop = "probe" -> FailUnderProbe(e)
       [] loop = "once" -> Finish(e) /\ UNCHANGED wait
  /\ last' = IF ctxDone THEN Node("ctx") ELSE Head(e)
  /\ UNCHANGED <<policy, hop, open, sent>>

\* A request that is sent once also has a time limit of its own.
TransportFails ==
  /\ rpc = "wire"
  /\ \E k \in {"net", "eof"} \cup (IF loop = "once" THEN {"ctx"} ELSE {}) : Fails(Fault(k))

IsWriteMethod(m) == m \in {"POST", "DELETE"}

\* Mutant: the method of the redirected request is not compared.
RefusesAnyMethod(target, next) ==
  \/ hops >= MaxRedirects \/ target = "invalid"
  \/ IsWriteMethod(method) /\ ~allowWrite

\* checkRedirect; a Location net/http cannot parse is refused before it.
RefusesRedirect(target, next) ==
  \/ hops >= MaxRedirects \/ target = "invalid"
  \/ IsWriteMethod(method) /\ ~allowWrite
  \/ method \notin {"GET", "HEAD"} /\ next # method

\* 307 and 308 keep the method; 301, 302 and 303 turn a write into a GET.
Redirected(target, keeps) ==
  LET next == IF keeps \/ method \in {"GET", "HEAD"} THEN method ELSE "GET"
  IN  /\ rpc = "wire"
      /\ IF RefusesRedirect(target, next) THEN Fails(Fault("policy"))
         ELSE /\ method' = next /\ at' = target /\ hops' = hops + 1
              /\ UNCHANGED <<rpc, policy, wait, result, open, sent, last>>

\* A response: drained for another try, or left to the operation.
Answered(code, wish) ==
  /\ rpc = "wire" /\ last' = Status(code, at)
  /\ IF RetryableStatus(code) /\ ~Last
     THEN SleepOn(NoError, wish) /\ UNCHANGED open
     ELSE /\ rpc' = "done" /\ err' = NoError /\ open' = open + 1
          /\ resp' = [code |-> code, origin |-> at] /\ UNCHANGED wait
  /\ UNCHANGED <<policy, hop, sent>>

-----------------------------------------------------------------------------
(* Between tries.                                                          *)

\* Mutant: a retry does not count.
SleepEndsUncounted ==
  /\ rpc = "sleep" /\ (wait > 0 \/ ~ctxDone)
  /\ rpc' = "loop" /\ at' = "registry"
  /\ UNCHANGED <<policy, method, hops, wait, result, open, sent, last>>

\* The first hop goes to the registry again.  A timer may win against a
\* context that is done; a wait of zero only looks at the context.
SleepEnds ==
  /\ rpc = "sleep" /\ (wait > 0 \/ ~ctxDone)
  /\ rpc' = "loop" /\ attempt' = attempt + 1 /\ at' = "registry"
  /\ UNCHANGED <<loop, budget, method, hops, wait, result, open, sent, last>>

SleepCanceled ==
  /\ rpc = "sleep" /\ ctxDone
  /\ Finish(IF loop = "retry" THEN MarkTerminal(Fault("ctx") \o err) ELSE Fault("ctx"))
  /\ UNCHANGED <<policy, hop, wait, open, sent, last>>

RequestStep == LoopCanceled \/ Send \/ SleepEnds \/ SleepCanceled
=============================================================================
