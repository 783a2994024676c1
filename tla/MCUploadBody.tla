---------------------------- MODULE MCUploadBody ----------------------------
(* Small instances of UploadBody: three declared bytes, staging buffers of *)
(* two, two of them.                                                       *)
EXTENDS UploadBody, TLC

Source(l, d, w, f) == [len |-> l, demand |-> d, eofWithData |-> w, faults |-> f]

\* Short, exact and long sources that may fail or stall, with both ways to
\* report the end, and a producer that waits for every byte to be sent.
AllSources ==
  {Source(l, FALSE, w, TRUE) : l \in 2 .. 4, w \in BOOLEAN}
    \cup {Source(3, TRUE, FALSE, FALSE)}

EOFWithLastByte == {Source(3, FALSE, TRUE, FALSE)}
=============================================================================
