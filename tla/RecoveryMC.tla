----------------------------- MODULE RecoveryMC -----------------------------
(***************************************************************************)
(* An instance of Recovery for TLC: two tasks that are created, watched    *)
(* and deleted before, between and after restarts.                         *)
(***************************************************************************)
EXTENDS Recovery, TLC

CONSTANTS t1, t2, p1, p2, p3

\* A task of two pods, which a crash can meet half deleted, beside a task of one.
TwoPods == t1 :> 2 @@ t2 :> 1

\* The first task is created again, with what the first time left behind.
FirstTwice == t1 :> 2 @@ t2 :> 1

\* Goroutines are interchangeable.
GoroutineSymmetry == Permutations(Procs)
=============================================================================
