--------------------------- MODULE MCResumeReader ---------------------------
(* Small instances of ResumeReader.                                        *)
EXTENDS ResumeReader, TLC
=============================================================================
