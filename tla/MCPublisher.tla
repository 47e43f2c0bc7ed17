---------------------------- MODULE MCPublisher ----------------------------
(* Publisher with interchangeable callback threads. *)
EXTENDS Publisher

ThreadSymmetry == Permutations(Threads)
=============================================================================
