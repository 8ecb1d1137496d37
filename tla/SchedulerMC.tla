---------------------------- MODULE SchedulerMC ----------------------------
(***************************************************************************)
(* Instances of Scheduler for TLC: two or three tasks that compete for     *)
(* goroutines, queue positions and addresses.                              *)
(***************************************************************************)
EXTENDS Scheduler, TLC

CONSTANTS t1, t2, t3, p1, p2, p3, p4

\* A task of two pods beside a task of one.
TwoTasks == t1 :> 2 @@ t2 :> 1

\* Three tasks of one pod: a task can wait behind another waiting one.
ThreeTasks == t1 :> 1 @@ t2 :> 1 @@ t3 :> 1

\* How often the tasks are created.
Once == [t \in Tasks |-> 1]
Twice == [t \in Tasks |-> 2]
FirstTwice == [t \in Tasks |-> IF t = t1 THEN 2 ELSE 1]

\* Goroutines are interchangeable.
GoroutineSymmetry == Permutations(Procs)
=============================================================================
