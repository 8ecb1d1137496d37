--------------------------- MODULE CreationQueue ---------------------------
(***************************************************************************)
(* What the queue of training tasks promises, whatever data structure it   *)
(* is kept in: tasks are created one at a time, in the order in which they *)
(* joined, and every task that joined is created and finishes its          *)
(* creation.                                                               *)
(***************************************************************************)
EXTENDS Sequences

CONSTANT Tasks

VARIABLES
  waiting,    \* the tasks that joined and are not being created yet
  active      \* the task being created, if any

cqvars == <<waiting, active>>

CQTypeOK == /\ waiting \in Seq(Tasks)
            /\ active \in SUBSET Tasks

CQInit == waiting = << >> /\ active = {}

Join(t) ==
  /\ t \notin active
  /\ \A i \in DOMAIN waiting : waiting[i] # t
  /\ waiting' = Append(waiting, t)
  /\ UNCHANGED active

Begin ==
  /\ active = {}
  /\ waiting # << >>
  /\ active' = {Head(waiting)}
  /\ waiting' = Tail(waiting)

End ==
  /\ active # {}
  /\ active' = {}
  /\ UNCHANGED waiting

CQNext == (\E t \in Tasks : Join(t)) \/ Begin \/ End

CQSafety == CQInit /\ [][CQNext]_cqvars

CQSpec == CQSafety /\ WF_cqvars(Begin) /\ WF_cqvars(End)
=============================================================================
