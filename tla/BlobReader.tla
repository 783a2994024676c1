----------------------------- MODULE BlobReader -----------------------------
(***************************************************************************)
(* What a Read of the single-stream readers promises (resume.go, and the   *)
(* rangeReader of pull.go) while Close and the end of the context may come *)
(* at any point of it.  Unlike BlobStream an error need not be the last    *)
(* word, and a Read that had begun may still deliver; but                  *)
(*                                                                         *)
(*   - a Read begins only on a stream that is neither closed nor done;     *)
(*   - it delivers at most one batch, the next bytes in order;             *)
(*   - without an error it returns at least one byte;                      *)
(*   - io.EOF comes only when everything was delivered, the error of Close *)
(*     or of the context only after it.                                    *)
(***************************************************************************)
EXTENDS Integers, Sequences

CONSTANTS
  Total,    \* number of bytes to deliver
  Faults    \* errors of requests and bodies

VARIABLES
  out, ret,           \* bytes delivered; error of the last Read
  phase,              \* no Read has begun: "idle"; a batch was not delivered
                      \* yet: "reading"; it was: "delivered"
  ctxDone, closed
vars == <<out, ret, phase, ctxDone, closed>>

Init ==
  /\ out = <<>> /\ ret = "nil" /\ phase = "idle"
  /\ ctxDone = FALSE /\ closed = FALSE

State == IF closed THEN "closed" ELSE IF ctxDone THEN "ctx" ELSE "nil"

\* A Read that is refused, or has an empty buffer.
Report ==
  /\ phase = "idle" /\ ret' = State
  /\ UNCHANGED <<out, phase, ctxDone, closed>>

Begin ==
  /\ phase = "idle" /\ State = "nil" /\ phase' = "reading"
  /\ UNCHANGED <<out, ret, ctxDone, closed>>

\* The body in use had nothing left: the Read looks at the state again.
BeginAgain ==
  /\ phase = "reading" /\ phase' = "idle"
  /\ UNCHANGED <<out, ret, ctxDone, closed>>

NextBytes ==
  \E n \in 1 .. Total - Len(out) :
    out' = out \o [i \in 1 .. n |-> Len(out) + i - 1]

\* The Read returns over what was delivered in the end.
Returns(e) ==
  /\ phase' = "idle" /\ ret' = e
  /\ e = "eof" => Len(out') = Total
  /\ e = "closed" => closed
  /\ e = "ctx" => ctxDone

Results == Faults \cup {"nil", "eof", "closed", "ctx"}

Deliver ==
  /\ phase = "reading" /\ NextBytes
  /\ \/ phase' = "delivered" /\ UNCHANGED ret
     \/ \E e \in Results : Returns(e)
  /\ UNCHANGED <<ctxDone, closed>>

Return ==
  /\ phase \in {"reading", "delivered"} /\ UNCHANGED out
  /\ \E e \in Results : Returns(e) /\ (e = "nil" => phase = "delivered")
  /\ UNCHANGED <<ctxDone, closed>>

ContextEnds == ctxDone' = TRUE /\ UNCHANGED <<out, ret, phase, closed>>

Close == closed' = TRUE /\ UNCHANGED <<out, ret, phase, ctxDone>>

Next ==
  Report \/ Begin \/ BeginAgain \/ Deliver \/ Return \/ ContextEnds \/ Close

Spec == Init /\ [][Next]_vars
=============================================================================
