----------------------------- MODULE BlobStream -----------------------------
(***************************************************************************)
(* What the parallel puller promises (parallel.go): the bytes             *)
(* 0 .. Total-1 of one blob in order, then one terminal error that later   *)
(* Reads repeat.  Close and the end of the context stop the delivery at    *)
(* once.                                                                   *)
(***************************************************************************)
EXTENDS Integers, Sequences

CONSTANTS
  Total,    \* length of the content
  LaxEOF    \* io.EOF may stand in for the error of an ended context

VARIABLES out, err, ctxDone, closed
vars == <<out, err, ctxDone, closed>>

Init == out = <<>> /\ err = "nil" /\ ctxDone = FALSE /\ closed = FALSE

\* One Read returns the next n bytes.
Deliver ==
  /\ err = "nil" /\ ~ctxDone /\ ~closed
  /\ \E n \in 1 .. Total - Len(out) :
       out' = out \o [i \in 1 .. n |-> Len(out) + i - 1]
  /\ UNCHANGED <<err, ctxDone, closed>>

End ==
  /\ err = "nil"
  /\ Len(out) = Total \/ (LaxEOF /\ ctxDone)
  /\ err' = "eof"
  /\ UNCHANGED <<out, ctxDone, closed>>

Fail ==
  /\ err = "nil"
  /\ err' = "fetch"
  /\ UNCHANGED <<out, ctxDone, closed>>

Canceled ==
  /\ err = "nil" /\ ctxDone
  /\ err' = "ctx"
  /\ UNCHANGED <<out, ctxDone, closed>>

ContextEnds == ctxDone' = TRUE /\ UNCHANGED <<out, err, closed>>

Close ==
  /\ closed' = TRUE /\ err' = (IF err = "nil" THEN "closed" ELSE err)
  /\ UNCHANGED <<out, ctxDone>>

Next == Deliver \/ End \/ Fail \/ Canceled \/ ContextEnds \/ Close

Spec == Init /\ [][Next]_vars
=============================================================================
