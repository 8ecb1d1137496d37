----------------------------- MODULE LeakProofs -----------------------------
(***************************************************************************)
(* Why no accelerator address is lost, for every set of tasks, goroutines, *)
(* addresses and for every bound, as long as no command overtakes another  *)
(* one of its task and RESTART is sent to a task without pods.  Trainings  *)
(* may end while a command runs, and the cluster may fail at any time, to  *)
(* delete a pod too.                                                       *)
(***************************************************************************)
EXTENDS SchedulerProofs

\* Users wait for their training before they ask for it again.
Patient == Orderly /\ "rerun" \notin Behaviours

Completing(t) == \E p \in Procs : owner[p] = t /\ pc[p] = "complete"
Deleting(t) == \E p \in Procs : owner[p] = t /\ pc[p] \in {"stop", "delete"}
Forgetting(t) ==
  \E p \in Procs : owner[p] = t /\ pc[p] = "dispatch" /\ command[t] = "RESTART"

\* What a task has recorded will still be freed: by a delete that runs, by the one
\* that STOP or the end of the training starts, or by the STOP of a creation that
\* was given up.  Nothing is left to be freed when RESTART forgets it.
Kept(t) ==
  /\ \/ scheduleMap[t] = "CREATING" /\ ~Completing(t)
     \/ HasPods(t)
     \/ Deleting(t)
  /\ ~Forgetting(t)

MarkedKept == \A a \in pool : \E t \in Tasks : a \in ips[t] /\ Kept(t)

LeakInv == QueueInv /\ MarkedKept

\* Nothing is marked when the process starts.
LEMMA LeakInit == Init => LeakInv
  BY QueueInit DEF Init, LeakInv, MarkedKept

\* An address stays with the task that has recorded it and will free it.
LEMMA KeptIsEnough ==
  ASSUME MarkedKept,
         \A a \in pool' : a \in pool /\ \A t \in Tasks :
           a \in ips[t] /\ Kept(t) => a \in ips'[t] /\ Kept(t)'
  PROVE  MarkedKept'
  BY DEF MarkedKept

\* What is marked stays recorded until a delete frees it.
LEMMA MarkedStep ==
  ASSUME Patient, QueueInv, MarkedKept, [Next]_vars PROVE MarkedKept'
<1> USE DEF Kept, Completing, Deleting, Forgetting, HasPods, CreatorFits, OneInControl,
        InControl, Creating, GoTo, Exit, headVars, localVars
<1>0. /\ scheduleMap \in [Tasks -> Schedules] /\ ips \in [Tasks -> SUBSET Addresses]
      /\ randomName \in [Tasks -> Nat] /\ drawn \in [Tasks -> Nat]
      /\ command \in [Tasks -> Commands] /\ pool \in SUBSET Addresses
      /\ pods \in SUBSET Pods
      /\ pc \in [Procs -> Labels] /\ owner \in [Procs -> Tasks \cup {NoTask}]
      /\ \A p \in Procs : pc[p] # "idle" => owner[p] \in Tasks
      /\ NoTask \notin Tasks
      /\ OneInControl /\ CreatorFits
      /\ \A p \in Procs : pc[p] = "claim" => scheduleMap[owner[p]] = "BEFORECREATE"
  BY SchedulerAssumption DEF QueueInv, TypeOK, Ordered, WaiterFits
<1>1. CASE UNCHANGED vars
  <2>1. \A t \in Tasks : Kept(t) => Kept(t)'
    BY <1>1 DEF vars
  <2> QED
    BY <1>1, <2>1, KeptIsEnough DEF vars
<1>3. ASSUME NEW p \in Procs, NEW t \in Tasks, NEW c \in Commands, Receive(p, t, c)
      PROVE MarkedKept'
  <2>1. /\ pc[p] = "idle" /\ pc' = [pc EXCEPT ![p] = "dispatch"]
        /\ owner' = [owner EXCEPT ![p] = t] /\ command' = [command EXCEPT ![t] = c]
        /\ UNCHANGED <<scheduleMap, ips, randomName, pool, pods>>
    BY <1>3 DEF Receive, Accept
  <2>2. ASSUME NEW u \in Tasks, Kept(u) PROVE Kept(u)'
    <3>1. CASE u # t
      BY <1>0, <2>1, <2>2, <3>1
    <3>2. CASE u = t
      <4>1. c # "RESTART"
        BY <1>3, <2>2, <3>2 DEF Receive, MaySend, Settled, Patient, Orderly
      <4> QED
        BY <1>0, <2>1, <2>2, <3>2, <4>1
    <3> QED
      BY <3>1, <3>2
  <2> QED
    BY <2>1, <2>2, KeptIsEnough
<1>4. ASSUME NEW p \in Procs, Start(p) PROVE MarkedKept'
  <2>1. UNCHANGED <<ips, pool>>
    BY <1>4 DEF Start
  <2>2. \A t \in Tasks : Kept(t) => Kept(t)'
    BY <1>0, <1>4 DEF Start
  <2> QED
    BY <2>1, <2>2, KeptIsEnough
<1>5. ASSUME NEW p \in Procs, Stop(p) PROVE MarkedKept'
  <2>1. UNCHANGED <<ips, pool>>
    BY <1>5 DEF Stop
  <2>2. \A t \in Tasks : Kept(t) => Kept(t)'
    BY <1>0, <1>5 DEF Stop
  <2> QED
    BY <2>1, <2>2, KeptIsEnough
<1>6. ASSUME NEW p \in Procs, StopTask(p) PROVE MarkedKept'
  <2>1. UNCHANGED <<ips, pool>>
    BY <1>6 DEF StopTask
  <2>2. \A t \in Tasks : Kept(t) => Kept(t)'
    BY <1>0, <1>6 DEF StopTask
  <2> QED
    BY <2>1, <2>2, KeptIsEnough
<1>7. ASSUME NEW p \in Procs, Restart(p) PROVE MarkedKept'
  <2>0. PICK t \in Tasks : t = owner[p]
    BY <1>0, <1>7 DEF Restart
  <2>1. /\ pc[p] = "dispatch" /\ command[t] = "RESTART"
        /\ pc' = [pc EXCEPT ![p] = "delete"] /\ ips' = [ips EXCEPT ![t] = {}]
        /\ scheduleMap' = [scheduleMap EXCEPT ![t] = "BEFORECREATE"]
        /\ UNCHANGED <<owner, command, randomName, pool, pods>>
    BY <1>7, <2>0 DEF Restart
  <2>2. ~Kept(t)
    BY <2>0, <2>1
  <2>3. \A u \in Tasks \ {t} : ips'[u] = ips[u] /\ (Kept(u) => Kept(u)')
    BY <1>0, <2>0, <2>1
  <2> QED
    BY <2>1, <2>2, <2>3, KeptIsEnough
<1>8. ASSUME NEW p \in Procs, Reset(p) PROVE MarkedKept'
  <2>1. UNCHANGED <<ips, pool>>
    BY <1>8 DEF Reset
  <2>2. \A t \in Tasks : Kept(t) => Kept(t)'
    BY <1>0, <1>8 DEF Reset
  <2> QED
    BY <2>1, <2>2, KeptIsEnough
<1>9. ASSUME NEW p \in Procs, Poll(p) PROVE MarkedKept'
  <2>1. UNCHANGED <<ips, pool>>
    BY <1>9 DEF Poll
  <2>2. \A t \in Tasks : Kept(t) => Kept(t)'
    BY <1>0, <1>9 DEF Poll
  <2> QED
    BY <2>1, <2>2, KeptIsEnough
<1>10. ASSUME NEW p \in Procs, PopOwn(p) PROVE MarkedKept'
  <2>1. UNCHANGED <<ips, pool>>
    BY <1>10 DEF PopOwn
  <2>2. \A t \in Tasks : Kept(t) => Kept(t)'
    BY <1>0, <1>10 DEF PopOwn
  <2> QED
    BY <2>1, <2>2, KeptIsEnough
<1>11. ASSUME NEW p \in Procs, PopDone(p) PROVE MarkedKept'
  <2>1. UNCHANGED <<ips, pool>>
    BY <1>11 DEF PopDone
  <2>2. \A t \in Tasks : Kept(t) => Kept(t)'
    BY <1>0, <1>11 DEF PopDone
  <2> QED
    BY <2>1, <2>2, KeptIsEnough
<1>12. ASSUME NEW p \in Procs, IndexPanic(p) PROVE MarkedKept'
  <2>1. UNCHANGED <<ips, pool>>
    BY <1>12 DEF IndexPanic
  <2>2. \A t \in Tasks : Kept(t) => Kept(t)'
    BY <1>0, <1>12 DEF IndexPanic
  <2> QED
    BY <2>1, <2>2, KeptIsEnough
<1>13. ASSUME NEW p \in Procs, Claim(p) PROVE MarkedKept'
  <2>0. PICK t \in Tasks : t = owner[p]
    BY <1>0, <1>13 DEF Claim
  <2>1. /\ pc[p] = "claim" /\ pc' = [pc EXCEPT ![p] = "assign"]
        /\ scheduleMap' = [scheduleMap EXCEPT ![t] = "CREATING"]
        /\ \A u \in Tasks \ {t} : randomName'[u] = randomName[u]
        /\ UNCHANGED <<owner, command, ips, pool, pods>>
    BY <1>0, <1>13, <2>0 DEF Claim
  <2>2. ~Completing(t) /\ ~Completing(t)'
    BY <1>0, <2>0, <2>1
  <2>3. \A u \in Tasks : Kept(u) => Kept(u)'
    <3>1. Kept(t) => Kept(t)'
      BY <1>0, <2>1, <2>2
    <3>2. \A u \in Tasks \ {t} : Kept(u) => Kept(u)'
      BY <1>0, <2>0, <2>1
    <3> QED
      BY <3>1, <3>2
  <2> QED
    BY <2>1, <2>3, KeptIsEnough
<1>14. ASSUME NEW p \in Procs, AssignIp(p) PROVE MarkedKept'
  <2>1. /\ pc[p] = "assign"
        /\ Exit(p) \/ (GoTo(p, "create") /\ UNCHANGED owner)
        /\ UNCHANGED <<scheduleMap, command, randomName, ips, pool, pods>>
    BY <1>14 DEF AssignIp
  <2>2. \A u \in Tasks : Kept(u) => Kept(u)'
    <3>1. CASE Exit(p)
      BY <1>0, <2>1, <3>1
    <3>2. CASE GoTo(p, "create") /\ UNCHANGED owner
      BY <1>0, <2>1, <3>2
    <3> QED
      BY <2>1, <3>1, <3>2
  <2> QED
    BY <2>1, <2>2, KeptIsEnough
<1>15. ASSUME NEW p \in Procs, CreatePod(p) PROVE MarkedKept'
  <2>0. PICK t \in Tasks : t = owner[p]
    BY <1>0, <1>15 DEF CreatePod
  <2>1. /\ pc[p] = "create" /\ pc' = [pc EXCEPT ![p] = "podStatus"]
        /\ pool' = pool \cup {ip[p]} /\ ips' = [ips EXCEPT ![t] = @ \cup {ip[p]}]
        /\ pods \subseteq pods'
        /\ UNCHANGED <<scheduleMap, owner, command, randomName>>
    BY <1>15, <2>0 DEF CreatePod
  <2>2. \A u \in Tasks : Kept(u) => Kept(u)'
    BY <1>0, <2>1
  <2>3. ip[p] \in ips'[t] /\ \A u \in Tasks : ips[u] \subseteq ips'[u]
    BY <1>0, <2>1
  <2>4. Kept(t)'
    <3>1. scheduleMap[t] = "CREATING"
      BY <1>0, <2>0, <2>1
    <3>2. \A q \in Procs \ {p} : owner[q] = t => ~InControl(q)
      BY <1>0, <2>0, <2>1
    <3> QED
      BY <1>0, <2>0, <2>1, <3>1, <3>2
  <2> QED
    BY <2>1, <2>2, <2>3, <2>4 DEF MarkedKept
<1>16. ASSUME NEW p \in Procs, PodStatus(p) PROVE MarkedKept'
  <2>0. PICK t \in Tasks : t = owner[p]
    BY <1>0, <1>16 DEF PodStatus
  <2>1. /\ pc[p] = "podStatus" /\ HasPods(t)
        /\ UNCHANGED <<scheduleMap, command, randomName, ips, pool, pods>>
        /\ \/ Exit(p)
           \/ /\ \E label \in {"assign", "complete", "podCheck"} : GoTo(p, label)
              /\ UNCHANGED owner
    BY <1>16, <2>0 DEF PodStatus
  <2>2. \A u \in Tasks : Kept(u) => Kept(u)'
    <3>1. CASE Exit(p)
      BY <1>0, <2>1, <3>1
    <3>2. ASSUME NEW label \in {"assign", "complete", "podCheck"}, GoTo(p, label), UNCHANGED owner
          PROVE  \A u \in Tasks : Kept(u) => Kept(u)'
      BY <1>0, <2>0, <2>1, <3>2
    <3> QED
      BY <2>1, <3>1, <3>2
  <2> QED
    BY <2>1, <2>2, KeptIsEnough
<1>17. ASSUME NEW p \in Procs, PodCheck(p) PROVE MarkedKept'
  <2>1. /\ pc[p] = "podCheck"
        /\ Exit(p) \/ (GoTo(p, "podStatus") /\ UNCHANGED owner)
        /\ UNCHANGED <<scheduleMap, command, randomName, ips, pool, pods>>
    BY <1>17 DEF PodCheck
  <2>2. \A u \in Tasks : Kept(u) => Kept(u)'
    <3>1. CASE Exit(p)
      BY <1>0, <2>1, <3>1
    <3>2. CASE GoTo(p, "podStatus") /\ UNCHANGED owner
      BY <1>0, <2>1, <3>2
    <3> QED
      BY <2>1, <3>1, <3>2
  <2> QED
    BY <2>1, <2>2, KeptIsEnough
<1>18. ASSUME NEW p \in Procs, Complete(p) PROVE MarkedKept'
  <2>0. PICK t \in Tasks : t = owner[p]
    BY <1>0, <1>18 DEF Complete
  <2>1. /\ pc[p] = "complete" /\ pc' = [pc EXCEPT ![p] = "pop"]
        /\ scheduleMap' = [scheduleMap EXCEPT ![t] = "POSTCREATE"]
        /\ UNCHANGED <<owner, command, randomName, ips, pool, pods>>
    BY <1>18, <2>0 DEF Complete
  <2>2. Kept(t) => Kept(t)'
    BY <1>0, <2>0, <2>1
  <2>3. \A u \in Tasks \ {t} : Kept(u) => Kept(u)'
    BY <1>0, <2>0, <2>1
  <2> QED
    BY <2>1, <2>2, <2>3, KeptIsEnough
<1>19. ASSUME NEW p \in Procs, Pop(p) PROVE MarkedKept'
  <2>1. UNCHANGED <<ips, pool>>
    BY <1>19 DEF Pop
  <2>2. \A t \in Tasks : Kept(t) => Kept(t)'
    BY <1>0, <1>19 DEF Pop
  <2> QED
    BY <2>1, <2>2, KeptIsEnough
<1>20. ASSUME NEW p \in Procs, MonitorStops(p) PROVE MarkedKept'
  <2>1. UNCHANGED <<ips, pool>>
    BY <1>20 DEF MonitorStops
  <2>2. \A t \in Tasks : Kept(t) => Kept(t)'
    BY <1>0, <1>20 DEF MonitorStops
  <2> QED
    BY <2>1, <2>2, KeptIsEnough
<1>21. ASSUME NEW p \in Procs, DeletePod(p) PROVE MarkedKept'
  <2>0. PICK t \in Tasks : t = owner[p]
    BY <1>0, <1>21 DEF DeletePod
  <2>1. /\ pc[p] = "delete"
        /\ UNCHANGED <<scheduleMap, command, randomName, ips, pool, pc, owner>>
        /\ pods' \subseteq pods /\ \A d \in pods : d.task # t => d \in pods'
    BY <1>21, <2>0 DEF DeletePod, Delete_pod
  <2>2. \A u \in Tasks : Kept(u) => Kept(u)'
    BY <2>0, <2>1
  <2> QED
    BY <2>1, <2>2, KeptIsEnough
<1>22. ASSUME NEW p \in Procs, Release(p) PROVE MarkedKept'
  <2>0. PICK t \in Tasks : t = owner[p]
    BY <1>0, <1>22 DEF Release
  <2>1. /\ pc[p] = "delete" /\ pc' = [pc EXCEPT ![p] = "idle"]
        /\ owner' = [owner EXCEPT ![p] = NoTask] /\ pool' = pool \ ips[t]
        /\ UNCHANGED <<scheduleMap, command, randomName, ips, pods>>
    BY <1>22, <2>0 DEF Release, Released
  <2>2. \A u \in Tasks \ {t} : Kept(u) => Kept(u)'
    BY <1>0, <2>0, <2>1
  <2> QED
    BY <2>1, <2>2, KeptIsEnough
<1>23. ASSUME NEW p \in Procs, TrainingEnds(p) PROVE MarkedKept'
  <2>1. UNCHANGED <<ips, pool>>
    BY <1>23 DEF TrainingEnds
  <2>2. \A t \in Tasks : Kept(t) => Kept(t)'
    BY <1>0, <1>23 DEF TrainingEnds
  <2> QED
    BY <2>1, <2>2, KeptIsEnough
<1>24. ASSUME NEW d \in pods, PodRuns(d) \/ PodUnschedulable(d) \/ PodFails(d)
      PROVE MarkedKept'
  <2>1. PICK phase : SetPhase(d, phase)
    BY <1>24 DEF PodRuns, PodUnschedulable, PodFails
  <2> DEFINE changed == [d EXCEPT !.phase = phase]
  <2>2. pods' = (pods \ {d}) \cup {changed} /\ changed.task = d.task /\ changed.name = d.name
    BY <1>0, <2>1 DEF SetPhase, Pods
  <2> HIDE DEF changed
  <2>3. \A f \in pods : \E e \in pods' : e.task = f.task /\ e.name = f.name
    BY <1>24, <2>2
  <2>4. \A t \in Tasks : Kept(t) => Kept(t)'
    BY <2>1, <2>3 DEF SetPhase
  <2> QED
    BY <2>1, <2>4, KeptIsEnough DEF SetPhase
<1> HIDE DEF Kept, Completing, Deleting, Forgetting, HasPods, CreatorFits, OneInControl,
        InControl, Creating, GoTo, Exit, headVars, localVars
<1> QED
  BY <1>1, <1>3, <1>4, <1>5, <1>6, <1>7, <1>8, <1>9, <1>10, <1>11, <1>12, <1>13, <1>14,
     <1>15, <1>16, <1>17, <1>18, <1>19, <1>20, <1>21, <1>22, <1>23, <1>24
  DEF Next, Work, Outside, Cluster

\* The invariant is reached from Init and kept for ever.
LEMMA LeakCorrect == ASSUME Patient PROVE Spec => []LeakInv
<1>1. LeakInv /\ [Next]_vars => LeakInv'
  BY QueueStep, MarkedStep DEF LeakInv, Patient
<1> QED
  BY <1>1, LeakInit, PTL DEF Spec

\* Every address that is marked as used is recorded in the ips of a task, which
\* is all that writeIppool can ever free: RESTART, which forgets what is recorded,
\* finds the task released (client.go:101-104, cluster-operator.go:103,181).
THEOREM AddressesAreNeverLost == ASSUME Patient PROVE Spec => []NoLeak
<1>1. LeakInv => NoLeak
  BY DEF LeakInv, MarkedKept, NoLeak
<1> QED
  BY <1>1, LeakCorrect, PTL
=============================================================================
