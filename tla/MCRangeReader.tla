---------------------------- MODULE MCRangeReader ----------------------------
(* Small instances of RangeReader: a window of four bytes, a blob that    *)
(* ends inside, at and after it, at most three partial responses.          *)
EXTENDS RangeReader, TLC

=============================================================================
