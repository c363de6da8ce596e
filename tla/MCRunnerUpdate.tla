--------------------------- MODULE MCRunnerUpdate ---------------------------
(* Release 4 writes a newer state schema that the others cannot read.      *)
EXTENDS RunnerUpdate
MCWrites == <<1, 1, 1, 2>>
MCReads == <<{1}, {1}, {1, 2}, {1, 2}>>
=============================================================================
