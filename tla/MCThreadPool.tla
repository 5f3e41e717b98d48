---------------------------- MODULE MCThreadPool ----------------------------
(* ThreadPool with few threads and descriptors around the interrupt pipe's. *)
EXTENDS ThreadPool, TLC

CONSTANTS t1, t2, t3

ThreadSymmetry == Permutations(Threads)
=============================================================================
