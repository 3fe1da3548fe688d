------------------------------- MODULE MCPool -------------------------------
(* A small pool.  Goroutines differ in nothing but their names.            *)
EXTENDS WorkerPool, TLC

GoroutineSymmetry == Permutations(Goroutines)
=============================================================================
