------------------------------- MODULE Errors -------------------------------
(***************************************************************************)
(* Error chains and what callers can ask of them (retryable.go, errors.go, *)
(* wire.go).  A chain is the sequence of its nodes in the order in which   *)
(* errors.Is and errors.As visit them: a wrapper before what it wraps, the *)
(* operands of several %w from left to right, so that wrapping and joining *)
(* are concatenation.                                                      *)
(*                                                                         *)
(* Kinds: "net" and "eof" are transport failures, "eof" those that wrap    *)
(* io.EOF; "ctx" is the error of a context; "policy" a refused redirect;   *)
(* "status" a registryError; "retryable" and "terminal" are the markers;   *)
(* the others are made by the operation they are named after.              *)
(***************************************************************************)
EXTENDS Integers, Sequences

Node(kind) == [kind |-> kind, code |-> 0, origin |-> "none"]
Status(code, origin) == [kind |-> "status", code |-> code, origin |-> origin]
Fault(kind) == <<Node(kind)>>
NoError == <<>>

MarkRetryable(e) == Fault("retryable") \o e
MarkTerminal(e) == Fault("terminal") \o e

Is(e, kind) == \E i \in DOMAIN e : e[i].kind = kind

\* The node errors.As finds for a *registryError.
FirstStatus(e) ==
  e[CHOOSE i \in DOMAIN e :
      e[i].kind = "status" /\ \A j \in 1 .. i - 1 : e[j].kind # "status"]

RetryableStatus(code) == code = 429 \/ code \in 500 .. 599

\* An expired or moved storage location may be replaced by a fresh one.
RetryableResponse(node) ==
  \/ RetryableStatus(node.code)
  \/ node.origin = "storage" /\ node.code \in {401, 403, 404, 410}

Retryable(e) ==
  /\ ~Is(e, "terminal")
  /\ Is(e, "retryable") \/ (Is(e, "status") /\ RetryableResponse(FirstStatus(e)))

\* errors.Is(err, ErrNotFound): what registryError.Unwrap exposes.
IsNotFound(e) ==
  \E i \in DOMAIN e : e[i] = Status(404, "registry")

\* retryableRequestError: redirect policy failures are deterministic.
RetryableRequestError(e) == ~Is(e, "policy")
=============================================================================
