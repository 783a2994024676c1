--------------------------- MODULE MCParallelPull ---------------------------
(* Small instances of ParallelPull.  The workers are model values, so that *)
(* permuting the workers, which the code does not tell apart, is sound for *)
(* safety.                                                                 *)
EXTENDS ParallelPull, TLC

WorkerSymmetry == Permutations(Worker)
=============================================================================
