-------------------------- MODULE SchedulerProofs --------------------------
(***************************************************************************)
(* What holds of Scheduler for every set of tasks, goroutines, addresses   *)
(* and for every bound.                                                    *)
(***************************************************************************)
EXTENDS Scheduler, TLAPS

\* The process starts with every variable in its type.
LEMMA TypeInit == Init => TypeOK
<1> SUFFICES ASSUME Init PROVE TypeOK
  OBVIOUS
<1>1. queue \in Seq(Tasks)
  BY DEF Init
<1>2. \A p \in Procs : pc[p] = "idle"
  BY DEF Init
<1> QED
  BY <1>1, <1>2 DEF Init, TypeOK, Schedules, Commands, Labels, Immediate

\* No statement of a goroutine, no message and no change of a pod takes a
\* variable out of its type.
LEMMA TypeStep == TypeOK /\ [Next]_vars => TypeOK'
<1> SUFFICES ASSUME TypeOK, [Next]_vars PROVE TypeOK'
  OBVIOUS
<1> USE DEF TypeOK, Labels, Immediate, Schedules, GoTo, Exit, headVars, localVars
<1>1. CASE UNCHANGED vars
  BY <1>1 DEF vars
<1>2. ASSUME NEW p \in Procs, NEW t \in Tasks, NEW c \in Commands, Receive(p, t, c)
      PROVE TypeOK'
  BY <1>2 DEF Receive, Accept
<1>3. ASSUME NEW p \in Procs, Start(p) PROVE TypeOK'
  BY <1>3 DEF Start
<1>4. ASSUME NEW p \in Procs, Stop(p) PROVE TypeOK'
  BY <1>4 DEF Stop
<1>5. ASSUME NEW p \in Procs, StopTask(p) PROVE TypeOK'
  BY <1>5 DEF StopTask
<1>6. ASSUME NEW p \in Procs, Restart(p) PROVE TypeOK'
  BY <1>6 DEF Restart
<1>7. ASSUME NEW p \in Procs, Reset(p) PROVE TypeOK'
  BY <1>7 DEF Reset
<1>8. ASSUME NEW p \in Procs, Poll(p) PROVE TypeOK'
  BY <1>8 DEF Poll
<1>9. ASSUME NEW p \in Procs, PopOwn(p) PROVE TypeOK'
  BY <1>9 DEF PopOwn
<1>10. ASSUME NEW p \in Procs, PopDone(p) PROVE TypeOK'
  <2>1. queue' \in Seq(Tasks) /\ owner[p] \in Tasks
    BY <1>10 DEF PopDone
  <2> QED
    BY <1>10, <2>1 DEF PopDone
<1>11. ASSUME NEW p \in Procs, IndexPanic(p) PROVE TypeOK'
  BY <1>11 DEF IndexPanic
<1>12. ASSUME NEW p \in Procs, Claim(p) PROVE TypeOK'
  BY <1>12 DEF Claim
<1>13. ASSUME NEW p \in Procs, AssignIp(p) PROVE TypeOK'
  <2>1. CASE Exit(p)
    BY <1>13, <2>1 DEF AssignIp
  <2>2. ASSUME NEW a \in Addresses, ip' = [ip EXCEPT ![p] = a], GoTo(p, "create"),
               UNCHANGED <<owner, name, idx>>
        PROVE TypeOK'
    BY <1>13, <2>2 DEF AssignIp
  <2> QED
    BY <1>13, <2>1, <2>2 DEF AssignIp
<1>14. ASSUME NEW p \in Procs, CreatePod(p) PROVE TypeOK'
  <2>1. owner[p] \in Tasks /\ ip[p] \in Addresses
    BY <1>14 DEF CreatePod
  <2>2. pods' \in SUBSET Pods
    BY <1>14, <2>1 DEF CreatePod, Pods, Phases
  <2>3. ips' \in [Tasks -> SUBSET Addresses] /\ pool' \in SUBSET Addresses
    BY <1>14, <2>1 DEF CreatePod
  <2> QED
    BY <1>14, <2>2, <2>3 DEF CreatePod
<1>15. ASSUME NEW p \in Procs, PodStatus(p) PROVE TypeOK'
  <2> DEFINE Rest == UNCHANGED <<queue, scheduleMap, ips, randomName, drawn, command, pool,
                                 pods, crashed, disputed>>
  <2>1. owner[p] \in Tasks /\ Rest
    BY <1>15 DEF PodStatus
  <2>2. CASE Exit(p) /\ UNCHANGED insufficient
    BY <2>1, <2>2
  <2>3. ASSUME NEW phase,
               insufficient' = [insufficient EXCEPT ![owner[p]] = @ \/ phase = "Unschedulable"],
               GoTo(p, "podCheck"), UNCHANGED localVars
        PROVE TypeOK'
    <3>1. insufficient' \in [Tasks -> BOOLEAN]
      BY <2>1, <2>3
    <3> QED
      BY <2>1, <2>3, <3>1
  <2>4. ASSUME NEW label \in {"assign", "complete"},
               idx' = [idx EXCEPT ![p] = @ + 1], GoTo(p, label),
               UNCHANGED <<insufficient, owner, name, ip>>
        PROVE TypeOK'
    BY <2>1, <2>4
  <2> QED
    BY <1>15, <2>2, <2>3, <2>4, Zenon DEF PodStatus
<1>16. ASSUME NEW p \in Procs, PodCheck(p) PROVE TypeOK'
  <2>1. UNCHANGED <<queue, headVars, pool, pods, crashed, disputed>> /\ owner[p] \in Tasks
    BY <1>16 DEF PodCheck
  <2>2. CASE Exit(p)
    BY <2>1, <2>2
  <2>3. CASE GoTo(p, "podStatus") /\ UNCHANGED localVars
    BY <2>1, <2>3
  <2> QED
    BY <1>16, <2>2, <2>3, Zenon DEF PodCheck
<1>17. ASSUME NEW p \in Procs, Complete(p) PROVE TypeOK'
  BY <1>17 DEF Complete
<1>18. ASSUME NEW p \in Procs, Pop(p) PROVE TypeOK'
  <2>1. queue' \in Seq(Tasks) /\ owner[p] \in Tasks
    BY <1>18 DEF Pop
  <2>2. name' \in [Procs -> Nat] /\ pc' \in [Procs -> Labels]
    BY <1>18, <2>1 DEF Pop
  <2> QED
    BY <1>18, <2>1, <2>2 DEF Pop
<1>19. ASSUME NEW p \in Procs, TrainingEnds(p) PROVE TypeOK'
  <2>1. disputed' \in SUBSET Addresses
    BY <1>19 DEF TrainingEnds
  <2> QED
    BY <1>19, <2>1 DEF TrainingEnds
<1>20. ASSUME NEW p \in Procs, MonitorStops(p) PROVE TypeOK'
  BY <1>20 DEF MonitorStops
<1>21. ASSUME NEW p \in Procs, DeletePod(p) PROVE TypeOK'
  <2>1. owner[p] \in Tasks
    BY <1>21 DEF DeletePod
  <2>2. disputed' \in SUBSET Addresses /\ pods' \in SUBSET Pods
    BY <1>21, <2>1 DEF DeletePod, Delete_pod, Pods
  <2> QED
    BY <1>21, <2>2 DEF DeletePod
<1>22. ASSUME NEW p \in Procs, Release(p) PROVE TypeOK'
  <2>1. owner[p] \in Tasks /\ Exit(p)
        /\ UNCHANGED <<queue, scheduleMap, ips, randomName, drawn, command, pods, crashed,
                       disputed>>
    BY <1>22 DEF Release
  <2>2. pool' \in SUBSET Addresses
    BY <1>22 DEF Release, Released
  <2>3. insufficient' \in [Tasks -> BOOLEAN]
    BY <1>22, <2>1 DEF Release
  <2> QED
    BY <2>1, <2>2, <2>3
<1>23. ASSUME NEW d \in pods, PodRuns(d) \/ PodUnschedulable(d) \/ PodFails(d)
       PROVE TypeOK'
  <2>1. PICK phase \in Phases : SetPhase(d, phase)
    BY <1>23 DEF PodRuns, PodUnschedulable, PodFails, Phases
  <2>2. d \in Pods
    OBVIOUS
  <2>3. [d EXCEPT !.phase = phase] \in Pods
    BY <2>2 DEF Pods
  <2>4. pods' \in SUBSET Pods
    BY <2>1, <2>3 DEF SetPhase
  <2> QED
    BY <2>1, <2>4 DEF SetPhase
<1> QED
  BY <1>1, <1>2, <1>3, <1>4, <1>5, <1>6, <1>7, <1>8, <1>9, <1>10, <1>11, <1>12,
     <1>13, <1>14, <1>15, <1>16, <1>17, <1>18, <1>19, <1>20, <1>21, <1>22, <1>23
  DEF Next, Work, Outside, Cluster

\* Every variable keeps its type, an address that was not found is never
\* handed to a pod, and a goroutine that runs belongs to a task (Scheduler's
\* TypeOK, for the headNode fields, QUEUELIST and IP_POOL).
THEOREM TypeCorrect == Spec => []TypeOK
  BY TypeInit, TypeStep, PTL DEF Spec

-----------------------------------------------------------------------------
(* One creation at a time *)

InSeq(seq, x) == \E i \in 1..Len(seq) : seq[i] = x

\* Popping the head of a queue loses no task but the one at the head
\* (QUEUELIST = QUEUELIST[1:], client.go:81,93).
LEMMA TailFacts ==
  ASSUME NEW S, NEW seq \in Seq(S), NEW y, InSeq(seq, y), y # Head(seq)
  PROVE  InSeq(Tail(seq), y)
<1>1. PICK i \in 1..Len(seq) : seq[i] = y
  BY DEF InSeq
<1>2. i # 1 /\ Len(seq) \in Nat
  BY <1>1
<1>3. i - 1 \in 1..Len(Tail(seq)) /\ Tail(seq)[i - 1] = y
  BY <1>1, <1>2
<1> QED
  BY <1>3 DEF InSeq

\* The users wait for their training before they ask for it again, and
\* goroutines switch where one of them may block.
Orderly == Behaviours \cap {"cancel", "repeat", "preempt"} = {}

\* A goroutine that may still change ScheduleMap or QUEUELIST.
InControl(p) == pc[p] \notin {"idle", "monitor", "delete"}

AtHead(p) == queue # << >> /\ Head(queue) = owner[p]

OneImmediate == \A p, q \in Procs : pc[p] \in Immediate /\ pc[q] \in Immediate => p = q

\* Of the goroutines of a task, one at most is in control.
OneInControl ==
  \A p, q \in Procs : InControl(p) /\ InControl(q) /\ owner[p] = owner[q] => p = q

StartFits ==
  \A p \in Procs : pc[p] = "dispatch" /\ command[owner[p]] = "START"
                     => scheduleMap[owner[p]] = "BEFORECREATE"

WaiterFits ==
  \A p \in Procs : pc[p] \in {"poll", "claim", "popDone"}
                     => InSeq(queue, owner[p]) /\ scheduleMap[owner[p]] = "BEFORECREATE"

ClaimFits == \A p \in Procs : pc[p] = "claim" => AtHead(p)

\* Whoever creates a task finds it at the head of the queue, marked CREATING,
\* which is what keeps everybody else waiting.
CreatorFits ==
  \A p \in Procs : Creating(p) => AtHead(p) /\ scheduleMap[owner[p]] = "CREATING"

PopFits ==
  \A p \in Procs : pc[p] = "pop" => AtHead(p) /\ scheduleMap[owner[p]] = "POSTCREATE"

PopDoneFits ==
  \A p \in Procs : pc[p] = "popDone" =>
                     queue # << >> /\ scheduleMap[Head(queue)] = "POSTCREATE"

NeverPopsOwn == \A p \in Procs : pc[p] # "popOwn"

Ordered ==
  /\ OneImmediate /\ OneInControl /\ StartFits /\ WaiterFits /\ ClaimFits
  /\ CreatorFits /\ PopFits /\ PopDoneFits /\ NeverPopsOwn
  /\ ~crashed

QueueInv == TypeOK /\ Ordered

\* Nobody is in control and nothing is queued when the process starts.
LEMMA QueueInit == Init => QueueInv
<1> SUFFICES ASSUME Init PROVE Ordered
  BY TypeInit DEF QueueInv
<1>1. \A p \in Procs : pc[p] = "idle"
  BY DEF Init
<1> QED
  BY <1>1 DEF Init, Ordered, OneImmediate, OneInControl, StartFits, WaiterFits, ClaimFits,
     CreatorFits, PopFits, PopDoneFits, NeverPopsOwn, InControl, Creating, Immediate

\* Every step keeps the queue in order: a pop removes the entry of the task that
\* was created, and nobody else is in control of that task.
LEMMA QueueStep == Orderly /\ QueueInv /\ [Next]_vars => QueueInv'
<1> SUFFICES ASSUME Orderly, QueueInv, [Next]_vars PROVE Ordered'
  BY TypeStep DEF QueueInv
<1> USE DEF Ordered, OneImmediate, OneInControl, StartFits, WaiterFits, ClaimFits,
        CreatorFits, PopFits, PopDoneFits, NeverPopsOwn, AtHead, InControl, Creating,
        Immediate, GoTo, Exit, headVars, localVars
<1>0. /\ queue \in Seq(Tasks) /\ scheduleMap \in [Tasks -> Schedules]
      /\ command \in [Tasks -> Commands] /\ pc \in [Procs -> Labels]
      /\ owner \in [Procs -> Tasks \cup {NoTask}]
      /\ \A p \in Procs : pc[p] # "idle" => owner[p] \in Tasks
      /\ Ordered
  BY DEF QueueInv, TypeOK
<1>1. CASE UNCHANGED vars
  BY <1>0, <1>1 DEF vars, InSeq
<1>2. ASSUME NEW p \in Procs, CanRun(p)
      PROVE \A q \in Procs \ {p} : pc[q] \notin Immediate
  BY <1>2 DEF CanRun, Orderly
<1>3. ASSUME NEW p \in Procs, NEW t \in Tasks, NEW c \in Commands, Receive(p, t, c), CanRun(p)
      PROVE Ordered'
  BY <1>0, <1>2, <1>3 DEF Receive, Accept, MaySend, Settled, Orderly, InSeq
<1>4. ASSUME NEW p \in Procs, Start(p), CanRun(p) PROVE Ordered'
  BY <1>0, <1>2, <1>4 DEF Start, InSeq
<1>5. ASSUME NEW p \in Procs, Stop(p), CanRun(p) PROVE Ordered'
  BY <1>0, <1>2, <1>5 DEF Stop, InSeq
<1>6. ASSUME NEW p \in Procs, StopTask(p), CanRun(p) PROVE Ordered'
  BY <1>0, <1>2, <1>6 DEF StopTask, InSeq
<1>7. ASSUME NEW p \in Procs, Restart(p), CanRun(p) PROVE Ordered'
  BY <1>0, <1>2, <1>7 DEF Restart, InSeq
<1>8. ASSUME NEW p \in Procs, Reset(p), CanRun(p) PROVE Ordered'
  BY <1>0, <1>2, <1>8 DEF Reset, InSeq
<1>9. ASSUME NEW p \in Procs, Poll(p), CanRun(p) PROVE Ordered'
  BY <1>0, <1>2, <1>9 DEF Poll, InSeq
<1>10. ASSUME NEW p \in Procs, PopOwn(p), CanRun(p) PROVE Ordered'
  BY <1>0, <1>2, <1>10 DEF PopOwn, InSeq
<1>11. ASSUME NEW p \in Procs, PopDone(p), CanRun(p) PROVE Ordered'
  <2>1. /\ pc[p] = "popDone" /\ queue # << >> /\ queue' = Tail(queue)
        /\ pc' = [pc EXCEPT ![p] = "poll"]
        /\ UNCHANGED <<scheduleMap, command, owner, crashed>>
    BY <1>11 DEF PopDone
  <2>2. \A q \in Procs : pc[q] \in {"poll", "claim", "popDone"} => InSeq(queue', owner[q])
    BY <1>0, <2>1, TailFacts
  <2>3. \A q \in Procs : Creating(q) \/ pc[q] = "pop" => FALSE
    BY <1>0, <1>2, <1>11, <2>1
  <2> QED
    BY <1>0, <1>2, <1>11, <2>1, <2>2, <2>3
<1>12. ASSUME NEW p \in Procs, IndexPanic(p), CanRun(p) PROVE Ordered'
  BY <1>0, <1>2, <1>12 DEF IndexPanic, InSeq
<1>13. ASSUME NEW p \in Procs, Claim(p), CanRun(p) PROVE Ordered'
  <2> DEFINE t == owner[p]
  <2>1. /\ pc[p] = "claim" /\ pc' = [pc EXCEPT ![p] = "assign"]
        /\ scheduleMap' = [scheduleMap EXCEPT ![t] = "CREATING"]
        /\ UNCHANGED <<queue, command, owner, crashed>>
    BY <1>13 DEF Claim
  <2>2. t \in Tasks /\ AtHead(p)
    BY <1>0, <2>1
  <2> HIDE DEF t
  <2>3. \A q \in Procs \ {p} : InControl(q) => owner[q] # t
    BY <1>0, <2>1 DEF t
  <2> QED
    BY <1>0, <1>2, <1>13, <2>1, <2>2, <2>3 DEF t
<1>14. ASSUME NEW p \in Procs, AssignIp(p), CanRun(p) PROVE Ordered'
  <2>1. /\ pc[p] = "assign" /\ UNCHANGED <<queue, scheduleMap, command, crashed>>
        /\ \/ Exit(p)
           \/ GoTo(p, "create") /\ UNCHANGED owner
    BY <1>14 DEF AssignIp
  <2>2. CASE Exit(p)
    BY <1>0, <1>2, <1>14, <2>1, <2>2 DEF InSeq
  <2>3. CASE GoTo(p, "create") /\ UNCHANGED owner
    BY <1>0, <1>2, <1>14, <2>1, <2>3 DEF InSeq
  <2> QED
    BY <2>1, <2>2, <2>3
<1>15. ASSUME NEW p \in Procs, CreatePod(p), CanRun(p) PROVE Ordered'
  BY <1>0, <1>2, <1>15 DEF CreatePod, InSeq
<1>16. ASSUME NEW p \in Procs, PodStatus(p), CanRun(p) PROVE Ordered'
  <2>1. /\ pc[p] = "podStatus" /\ UNCHANGED <<queue, scheduleMap, command, crashed>>
        /\ \/ Exit(p)
           \/ GoTo(p, "assign") /\ UNCHANGED owner
           \/ GoTo(p, "complete") /\ UNCHANGED owner
           \/ GoTo(p, "podCheck") /\ UNCHANGED owner
    BY <1>0, <1>16 DEF PodStatus
  <2>2. CASE Exit(p)
    BY <1>0, <1>2, <1>16, <2>1, <2>2 DEF InSeq
  <2>3. CASE GoTo(p, "assign") /\ UNCHANGED owner
    BY <1>0, <1>2, <1>16, <2>1, <2>3 DEF InSeq
  <2>4. CASE GoTo(p, "complete") /\ UNCHANGED owner
    BY <1>0, <1>2, <1>16, <2>1, <2>4 DEF InSeq
  <2>5. CASE GoTo(p, "podCheck") /\ UNCHANGED owner
    BY <1>0, <1>2, <1>16, <2>1, <2>5 DEF InSeq
  <2> QED
    BY <2>1, <2>2, <2>3, <2>4, <2>5
<1>17. ASSUME NEW p \in Procs, PodCheck(p), CanRun(p) PROVE Ordered'
  <2>1. UNCHANGED <<queue, headVars, pool, pods, crashed>> /\ pc[p] = "podCheck"
    BY <1>17 DEF PodCheck
  <2>2. CASE Exit(p)
    BY <1>0, <1>2, <1>17, <2>1, <2>2 DEF InSeq
  <2>3. CASE GoTo(p, "podStatus") /\ UNCHANGED localVars
    BY <1>0, <1>2, <1>17, <2>1, <2>3 DEF InSeq
  <2> QED
    BY <1>17, <2>2, <2>3, Zenon DEF PodCheck
<1>18. ASSUME NEW p \in Procs, Complete(p), CanRun(p) PROVE Ordered'
  BY <1>0, <1>2, <1>18 DEF Complete, InSeq
<1>19. ASSUME NEW p \in Procs, Pop(p), CanRun(p) PROVE Ordered'
  <2>1. /\ pc[p] = "pop" /\ queue # << >> /\ queue' = Tail(queue)
        /\ pc' = [pc EXCEPT ![p] = "monitor"]
        /\ UNCHANGED <<scheduleMap, command, owner, crashed>>
    BY <1>19 DEF Pop
  <2>2. \A q \in Procs : pc[q] \in {"poll", "claim", "popDone"} => InSeq(queue', owner[q])
    BY <1>0, <2>1, TailFacts
  <2>3. \A q \in Procs : Creating(q) => FALSE
    BY <1>0, <2>1
  <2> QED
    BY <1>0, <1>2, <1>19, <2>1, <2>2, <2>3
<1>20. ASSUME NEW p \in Procs, MonitorStops(p), CanRun(p) PROVE Ordered'
  BY <1>0, <1>2, <1>20 DEF MonitorStops, InSeq
<1>21. ASSUME NEW p \in Procs, DeletePod(p), CanRun(p) PROVE Ordered'
  BY <1>0, <1>2, <1>21 DEF DeletePod, InSeq
<1>22. ASSUME NEW p \in Procs, Release(p), CanRun(p) PROVE Ordered'
  BY <1>0, <1>2, <1>22 DEF Release, InSeq
<1>23. ASSUME NEW p \in Procs, TrainingEnds(p), CanRun(p) PROVE Ordered'
  BY <1>0, <1>2, <1>23 DEF TrainingEnds, InSeq
<1>24. ASSUME NEW d \in pods, PodRuns(d) \/ PodUnschedulable(d) \/ PodFails(d)
      PROVE Ordered'
  BY <1>0, <1>24 DEF PodRuns, PodUnschedulable, PodFails, SetPhase, InSeq
<1> QED
  BY <1>1, <1>3, <1>4, <1>5, <1>6, <1>7, <1>8, <1>9, <1>10, <1>11, <1>12, <1>13, <1>14, <1>15, <1>16, <1>17, <1>18, <1>19, <1>20, <1>21, <1>22, <1>23, <1>24
  DEF Next, Work, Outside, Cluster

\* The invariant is reached from Init and kept for ever.
LEMMA QueueCorrect == ASSUME Orderly PROVE Spec => []QueueInv
  BY QueueInit, QueueStep, PTL DEF Spec

\* Tasks are created one at a time: two creators would both be at the head of
\* QUEUELIST, hence of one task, hence one goroutine (client.go:60-97 against
\* cluster-operator.go:138-141).
THEOREM CreationsAreSingle == ASSUME Orderly PROVE Spec => []SingleCreation
<1>1. QueueInv => SingleCreation
  BY DEF QueueInv, Ordered, CreatorFits, OneInControl, InControl, Creating, AtHead,
     SingleCreation
<1> QED
  BY <1>1, QueueCorrect, PTL

\* No goroutine indexes an empty QUEUELIST (client.go:61,81,86,93,
\* cluster-operator.go:141).
THEOREM QueueNeverEmptyAtIndex == ASSUME Orderly PROVE Spec => []NoCrash
<1>1. QueueInv => NoCrash
  BY DEF QueueInv, Ordered, NoCrash
<1> QED
  BY <1>1, QueueCorrect, PTL

\* Nobody pops the entry of a goroutine that still waits for it
\* (client.go:92-94).
THEOREM WaitersKeepTheirEntry == ASSUME Orderly PROVE Spec => []WaiterIsQueued
<1>1. QueueInv => WaiterIsQueued
  <2> SUFFICES ASSUME QueueInv, NEW p \in Procs, pc[p] = "poll"
               PROVE \E i \in DOMAIN queue : queue[i] = owner[p]
    BY DEF WaiterIsQueued
  <2>1. DOMAIN queue = 1..Len(queue)
    BY DEF QueueInv, TypeOK
  <2> QED
    BY <2>1 DEF QueueInv, Ordered, WaiterFits, InSeq
<1> QED
  BY <1>1, QueueCorrect, PTL
=============================================================================
