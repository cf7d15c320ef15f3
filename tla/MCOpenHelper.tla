---------------------------- MODULE MCOpenHelper ----------------------------
(* A program of two threads, with both variables, one or none set. *)
EXTENDS OpenHelper, TLC

MCEnvs == [command : BOOLEAN, pattern : BOOLEAN]
Symmetry == Permutations(Threads)
=============================================================================
