--------------------------- MODULE AddressProofs ---------------------------
(***************************************************************************)
(* Why two pods never have the same accelerator address, for every set of  *)
(* tasks, goroutines, addresses and for every bound, as long as nobody     *)
(* cancels a waiting task and no training ends under a command in progress.*)
(* Deletes may fail: that spoils the books of the addresses in disputed,   *)
(* which nobody can help, and of no other, which is what is proved here.   *)
(***************************************************************************)
EXTENDS SchedulerProofs

\* Users wait for STOP, RESTART and RESET to be done and may ask for what they
\* already have; goroutines switch where they block.  The cluster may refuse
\* creations and deletes and fail pods.
Undisturbed == Behaviours \cap {"cancel", "race", "preempt"} = {}

\* A command that changes what its task has got.
Exclusive(p) ==
  \/ pc[p] \in {"stop", "delete"}
  \/ pc[p] = "dispatch" /\ command[owner[p]] # "START"

\* From the claim of the head of the queue to the pop.
Creates(p) == pc[p] \in {"claim", "pop"} \/ Creating(p)

\* Such a command is alone with log monitors, commands are dispatched one by
\* one, and of the goroutines that were started for a task one creates it.
OneActs ==
  \A p, q \in Procs : owner[p] = owner[q] /\ p # q =>
    /\ Exclusive(p) => pc[q] \in {"idle", "monitor"}
    /\ ~(pc[p] = "dispatch" /\ pc[q] = "dispatch")
    /\ ~(Creates(p) /\ Creates(q))

\* What a creation has left in ScheduleMap is there when it looks again.
ScheduleFits ==
  \A p \in Procs :
    /\ pc[p] = "claim" => scheduleMap[owner[p]] = "BEFORECREATE"
    /\ Creating(p) => scheduleMap[owner[p]] = "CREATING"
    /\ pc[p] = "pop" => scheduleMap[owner[p]] = "POSTCREATE"

\* A creation is at a pod the task has, under the name it drew.
CreatorReady ==
  \A p \in Procs : Creating(p) =>
    /\ name[p] = randomName[owner[p]]
    /\ pc[p] # "complete" => idx[p] < NodeNum[owner[p]]

\* Whoever watches the pods of the present name watches a creation that is done.
MonitorFits ==
  /\ \A t \in Tasks : randomName[t] <= drawn[t]
  /\ \A p \in Procs : pc[p] = "monitor" =>
       /\ name[p] <= drawn[owner[p]]
       /\ name[p] = randomName[owner[p]] => scheduleMap[owner[p]] # "CREATING"

\* The address found is still free when it is marked.
FoundIsFree == \A p \in Procs : pc[p] = "create" => ip[p] \notin pool

\* A task that is not created yet has no addresses.
NoneBefore == \A t \in Tasks : scheduleMap[t] = "BEFORECREATE" => ips[t] = {}

\* A delete starts with pod 0.  A pod it has left behind is in dispute, with all
\* that it is about to free, and so is what is freed before a creation was done.
DeleteReady ==
  \A p \in Procs :
    /\ pc[p] \in {"idle", "dispatch", "stop"} => idx[p] = 0
    /\ pc[p] = "delete" =>
         /\ \A d \in pods :
              d.task = owner[p] /\ d.name = randomName[owner[p]] /\ d.idx < idx[p] =>
                d.ip \in disputed /\ ips[owner[p]] \subseteq disputed
         /\ scheduleMap[owner[p]] = "POSTCREATE" \/ ips[owner[p]] \subseteq disputed

\* A pod has the name and the number its task looks it up by, and a task that may
\* be created has none left but those in dispute or that a RESTART is deleting.
PodsFit ==
  /\ NoOrphans
  /\ \A d \in pods : d.idx < NodeNum[d.task]
  /\ \A d \in pods : d.ip \notin disputed /\ scheduleMap[d.task] = "BEFORECREATE" =>
       \E p \in Procs : pc[p] = "delete" /\ owner[p] = d.task

\* The addresses a task has recorded were freed by a delete, and nothing the task
\* can do before they are cleared by a RESTART frees them again, but for the log of
\* a pod that was left over.
Stale(t) ==
  /\ scheduleMap[t] = "POSTCREATE" /\ ~HasPods(t)
  /\ \A p \in Procs : owner[p] = t =>
       pc[p] \in {"idle", "monitor", "poll", "popOwn", "popDone"}
         \cup (IF command[t] = "STOP" THEN {} ELSE {"dispatch"})

\* Addresses that may still be freed are marked and nobody else's.
RecordedHeld ==
  \A t \in Tasks : ~Stale(t) =>
    /\ ips[t] \subseteq pool \cup disputed
    /\ \A d \in pods : d.ip \in ips[t] \ disputed => d.task = t

\* Two tasks that may both free addresses have recorded different ones.
RecordedDisjoint ==
  \A t, u \in Tasks :
    ~Stale(t) /\ ~Stale(u) /\ t # u => ips[t] \cap ips[u] \subseteq disputed

\* Who may act for a task.
Controlled == OneImmediate /\ OneActs /\ ScheduleFits

\* Under which name, and at which pod.
Named == CreatorReady /\ MonitorFits /\ NoneBefore /\ DeleteReady /\ PodsFit

\* And which addresses that marks and frees.
Addressed ==
  /\ FoundIsFree /\ RecordedHeld /\ RecordedDisjoint
  /\ AddressesExclusive /\ PodAddressesHeld

AddressInv == TypeOK /\ Controlled /\ Named /\ Addressed

\* Nothing is recorded, marked or running when the process starts.
LEMMA AddressInit == Init => AddressInv
<1> SUFFICES ASSUME Init PROVE Controlled /\ Named /\ Addressed
  BY TypeInit DEF AddressInv
<1>1. \A p \in Procs : pc[p] = "idle" /\ idx[p] = 0
  BY DEF Init
<1> QED
  BY <1>1 DEF Init, Controlled, Named, Addressed, OneImmediate, OneActs, ScheduleFits,
     CreatorReady, MonitorFits, FoundIsFree, NoneBefore, DeleteReady, PodsFit, RecordedHeld,
     RecordedDisjoint, AddressesExclusive, PodAddressesHeld, NoOrphans, Exclusive, Creates,
     Creating, Immediate

\* A task has one goroutine at a time that is not watching its log, because
\* nothing is asked for until the last command is dealt with.
LEMMA ControlStep == Undisturbed /\ TypeOK /\ Controlled /\ [Next]_vars => Controlled'
<1> SUFFICES ASSUME Undisturbed, TypeOK, Controlled, [Next]_vars PROVE Controlled'
  OBVIOUS
<1> USE DEF Controlled, OneImmediate, OneActs, ScheduleFits, Exclusive, Creates, Creating,
        Immediate,
        GoTo, Exit, headVars, localVars
<1>0. /\ scheduleMap \in [Tasks -> Schedules] /\ command \in [Tasks -> Commands]
      /\ pc \in [Procs -> Labels] /\ owner \in [Procs -> Tasks \cup {NoTask}]
      /\ \A p \in Procs : pc[p] # "idle" => owner[p] \in Tasks
  BY DEF TypeOK
<1>1. CASE UNCHANGED vars
  BY <1>0, <1>1 DEF vars
<1>2. ASSUME NEW p \in Procs, CanRun(p)
      PROVE \A q \in Procs \ {p} : pc[q] \notin Immediate
  BY <1>2 DEF CanRun, Undisturbed
<1>3. ASSUME NEW p \in Procs, NEW t \in Tasks, NEW c \in Commands, Receive(p, t, c), CanRun(p)
      PROVE Controlled'
  BY <1>0, <1>2, <1>3 DEF Receive, Accept, MaySend, Settled, Requested, Undisturbed
<1>4. ASSUME NEW p \in Procs, Start(p), CanRun(p) PROVE Controlled'
  BY <1>0, <1>2, <1>4 DEF Start
<1>5. ASSUME NEW p \in Procs, Stop(p), CanRun(p) PROVE Controlled'
  BY <1>0, <1>2, <1>5 DEF Stop
<1>6. ASSUME NEW p \in Procs, StopTask(p), CanRun(p) PROVE Controlled'
  BY <1>0, <1>2, <1>6 DEF StopTask
<1>7. ASSUME NEW p \in Procs, Restart(p), CanRun(p) PROVE Controlled'
  BY <1>0, <1>2, <1>7 DEF Restart
<1>8. ASSUME NEW p \in Procs, Reset(p), CanRun(p) PROVE Controlled'
  BY <1>0, <1>2, <1>8 DEF Reset
<1>9. ASSUME NEW p \in Procs, Poll(p), CanRun(p) PROVE Controlled'
  BY <1>0, <1>2, <1>9 DEF Poll
<1>10. ASSUME NEW p \in Procs, PopOwn(p), CanRun(p) PROVE Controlled'
  BY <1>0, <1>2, <1>10 DEF PopOwn
<1>11. ASSUME NEW p \in Procs, PopDone(p), CanRun(p) PROVE Controlled'
  BY <1>0, <1>2, <1>11 DEF PopDone
<1>12. ASSUME NEW p \in Procs, IndexPanic(p), CanRun(p) PROVE Controlled'
  BY <1>0, <1>2, <1>12 DEF IndexPanic
<1>13. ASSUME NEW p \in Procs, Claim(p), CanRun(p) PROVE Controlled'
  BY <1>0, <1>2, <1>13 DEF Claim
<1>14. ASSUME NEW p \in Procs, AssignIp(p), CanRun(p) PROVE Controlled'
  BY <1>0, <1>2, <1>14 DEF AssignIp
<1>15. ASSUME NEW p \in Procs, CreatePod(p), CanRun(p) PROVE Controlled'
  BY <1>0, <1>2, <1>15 DEF CreatePod
<1>16. ASSUME NEW p \in Procs, PodStatus(p), CanRun(p) PROVE Controlled'
  BY <1>0, <1>2, <1>16 DEF PodStatus
<1>17. ASSUME NEW p \in Procs, PodCheck(p), CanRun(p) PROVE Controlled'
  BY <1>0, <1>2, <1>17 DEF PodCheck
<1>18. ASSUME NEW p \in Procs, Complete(p), CanRun(p) PROVE Controlled'
  BY <1>0, <1>2, <1>18 DEF Complete
<1>19. ASSUME NEW p \in Procs, Pop(p), CanRun(p) PROVE Controlled'
  BY <1>0, <1>2, <1>19 DEF Pop
<1>20. ASSUME NEW p \in Procs, MonitorStops(p), CanRun(p) PROVE Controlled'
  BY <1>0, <1>2, <1>20 DEF MonitorStops
<1>21. ASSUME NEW p \in Procs, DeletePod(p), CanRun(p) PROVE Controlled'
  BY <1>0, <1>2, <1>21 DEF DeletePod
<1>22. ASSUME NEW p \in Procs, Release(p), CanRun(p) PROVE Controlled'
  BY <1>0, <1>2, <1>22 DEF Release
<1>23. ASSUME NEW p \in Procs, TrainingEnds(p), CanRun(p) PROVE Controlled'
  BY <1>0, <1>2, <1>23 DEF TrainingEnds, Settled, Undisturbed
<1>24. ASSUME NEW d \in pods, PodRuns(d) \/ PodUnschedulable(d) \/ PodFails(d)
      PROVE Controlled'
  BY <1>0, <1>24 DEF PodRuns, PodUnschedulable, PodFails, SetPhase
<1> QED
  BY <1>1, <1>3, <1>4, <1>5, <1>6, <1>7, <1>8, <1>9, <1>10, <1>11, <1>12, <1>13, <1>14, <1>15, <1>16, <1>17, <1>18, <1>19, <1>20, <1>21, <1>22, <1>23, <1>24
  DEF Next, Work, Outside, Cluster

\* A creation keeps the name it drew and a delete meets every pod of its task.
LEMMA NameStep == Undisturbed /\ TypeOK /\ Controlled /\ Named /\ [Next]_vars => Named'
<1> SUFFICES ASSUME Undisturbed, TypeOK, Controlled, Named, [Next]_vars PROVE Named'
  OBVIOUS
<1> USE DEF Named, Controlled, OneActs, ScheduleFits, Exclusive, Creates, Creating,
        CreatorReady, MonitorFits, NoneBefore, DeleteReady, PodsFit, NoOrphans,
        GoTo, Exit, headVars, localVars
<1>0. /\ scheduleMap \in [Tasks -> Schedules] /\ ips \in [Tasks -> SUBSET Addresses]
      /\ randomName \in [Tasks -> Nat] /\ drawn \in [Tasks -> Nat]
      /\ NodeNum \in [Tasks -> Nat \ {0}]
      /\ pods \in SUBSET Pods /\ disputed \in SUBSET Addresses
      /\ \A d \in pods : d.task \in Tasks /\ d.name \in Nat /\ d.idx \in Nat
      /\ pc \in [Procs -> Labels] /\ owner \in [Procs -> Tasks \cup {NoTask}]
      /\ \A p \in Procs : pc[p] # "idle" => owner[p] \in Tasks
      /\ name \in [Procs -> Nat] /\ idx \in [Procs -> Nat]
  BY SchedulerAssumption DEF TypeOK, Pods
<1>1. CASE UNCHANGED vars
  BY <1>0, <1>1 DEF vars
<1>2. ASSUME NEW p \in Procs, CanRun(p)
      PROVE \A q \in Procs \ {p} : pc[q] \notin Immediate
  BY <1>2 DEF CanRun, Undisturbed
<1>3. ASSUME NEW p \in Procs, NEW t \in Tasks, NEW c \in Commands, Receive(p, t, c)
      PROVE Named'
  BY <1>0, <1>3 DEF Receive, Accept, MaySend, Settled, Requested, Undisturbed
<1>4. ASSUME NEW p \in Procs, Start(p), CanRun(p) PROVE Named'
  BY <1>0, <1>2, <1>4 DEF Start
<1>5. ASSUME NEW p \in Procs, Stop(p), CanRun(p) PROVE Named'
  BY <1>0, <1>2, <1>5 DEF Stop
<1>6. ASSUME NEW p \in Procs, StopTask(p), CanRun(p) PROVE Named'
  <2>1. CreatorReady' /\ MonitorFits' /\ NoneBefore'
    BY <1>0, <1>2, <1>6 DEF StopTask
  <2>2. DeleteReady'
    BY <1>0, <1>2, <1>6 DEF StopTask
  <2>3. PodsFit'
    BY <1>0, <1>2, <1>6 DEF StopTask
  <2> QED
    BY <2>1, <2>2, <2>3
<1>7. ASSUME NEW p \in Procs, Restart(p), CanRun(p) PROVE Named'
  <2>1. CreatorReady' /\ MonitorFits' /\ NoneBefore'
    BY <1>0, <1>2, <1>7 DEF Restart
  <2>2. DeleteReady'
    BY <1>0, <1>2, <1>7 DEF Restart
  <2>3. PodsFit'
    BY <1>0, <1>2, <1>7 DEF Restart
  <2> QED
    BY <2>1, <2>2, <2>3
<1>8. ASSUME NEW p \in Procs, Reset(p), CanRun(p) PROVE Named'
  BY <1>0, <1>2, <1>8 DEF Reset
<1>9. ASSUME NEW p \in Procs, Poll(p), CanRun(p) PROVE Named'
  <2>1. CreatorReady' /\ MonitorFits' /\ NoneBefore'
    BY <1>0, <1>2, <1>9 DEF Poll
  <2>2. DeleteReady'
    BY <1>0, <1>2, <1>9 DEF Poll
  <2>3. PodsFit'
    BY <1>0, <1>2, <1>9 DEF Poll
  <2> QED
    BY <2>1, <2>2, <2>3
<1>10. ASSUME NEW p \in Procs, PopOwn(p), CanRun(p) PROVE Named'
  <2>1. CreatorReady' /\ MonitorFits' /\ NoneBefore'
    BY <1>0, <1>2, <1>10 DEF PopOwn
  <2>2. DeleteReady'
    BY <1>0, <1>2, <1>10 DEF PopOwn
  <2>3. PodsFit'
    BY <1>0, <1>2, <1>10 DEF PopOwn
  <2> QED
    BY <2>1, <2>2, <2>3
<1>11. ASSUME NEW p \in Procs, PopDone(p), CanRun(p) PROVE Named'
  BY <1>0, <1>2, <1>11 DEF PopDone
<1>12. ASSUME NEW p \in Procs, IndexPanic(p), CanRun(p) PROVE Named'
  BY <1>0, <1>2, <1>12 DEF IndexPanic
<1>13. ASSUME NEW p \in Procs, Claim(p), CanRun(p) PROVE Named'
  BY <1>0, <1>2, <1>13 DEF Claim
<1>14. ASSUME NEW p \in Procs, AssignIp(p), CanRun(p) PROVE Named'
  <2>1. CASE Exit(p)
    BY <1>0, <1>14, <2>1 DEF AssignIp
  <2>2. ASSUME GoTo(p, "create"), UNCHANGED <<owner, name, idx>>
        PROVE Named'
    BY <1>0, <1>14, <2>2 DEF AssignIp
  <2> QED
    BY <1>14, <2>1, <2>2 DEF AssignIp
<1>15. ASSUME NEW p \in Procs, CreatePod(p), CanRun(p) PROVE Named'
  <2>1. CreatorReady' /\ MonitorFits' /\ NoneBefore'
    BY <1>0, <1>2, <1>15 DEF CreatePod
  <2>2. DeleteReady'
    BY <1>0, <1>2, <1>15 DEF CreatePod
  <2>3. PodsFit'
    BY <1>0, <1>2, <1>15 DEF CreatePod
  <2> QED
    BY <2>1, <2>2, <2>3
<1>16. ASSUME NEW p \in Procs, PodStatus(p), CanRun(p) PROVE Named'
  <2>1. /\ pc[p] = "podStatus"
        /\ UNCHANGED <<scheduleMap, ips, randomName, drawn, pods, disputed>>
        /\ \/ Exit(p)
           \/ /\ GoTo(p, IF idx[p] + 1 < NodeNum[owner[p]] THEN "assign" ELSE "complete")
              /\ idx' = [idx EXCEPT ![p] = @ + 1]
              /\ UNCHANGED <<owner, name>>
           \/ GoTo(p, "podCheck") /\ UNCHANGED <<owner, name, idx>>
    BY <1>16 DEF PodStatus
  <2>2. CASE Exit(p)
    BY <1>0, <2>1, <2>2
  <2>3. CASE /\ GoTo(p, IF idx[p] + 1 < NodeNum[owner[p]] THEN "assign" ELSE "complete")
             /\ idx' = [idx EXCEPT ![p] = @ + 1]
             /\ UNCHANGED <<owner, name>>
    BY <1>0, <2>1, <2>3
  <2>4. CASE GoTo(p, "podCheck") /\ UNCHANGED <<owner, name, idx>>
    BY <1>0, <2>1, <2>4
  <2> QED
    BY <2>1, <2>2, <2>3, <2>4
<1>17. ASSUME NEW p \in Procs, PodCheck(p), CanRun(p) PROVE Named'
  <2>1. /\ pc[p] = "podCheck"
        /\ UNCHANGED <<scheduleMap, ips, randomName, drawn, pods, disputed>>
        /\ Exit(p) \/ (GoTo(p, "podStatus") /\ UNCHANGED <<owner, name, idx>>)
    BY <1>17 DEF PodCheck
  <2>2. CASE Exit(p)
    BY <1>0, <2>1, <2>2
  <2>3. CASE GoTo(p, "podStatus") /\ UNCHANGED <<owner, name, idx>>
    BY <1>0, <2>1, <2>3
  <2> QED
    BY <2>1, <2>2, <2>3
<1>18. ASSUME NEW p \in Procs, Complete(p), CanRun(p) PROVE Named'
  <2>1. CreatorReady' /\ MonitorFits' /\ NoneBefore'
    BY <1>0, <1>2, <1>18 DEF Complete
  <2>2. DeleteReady'
    BY <1>0, <1>2, <1>18 DEF Complete
  <2>3. PodsFit'
    BY <1>0, <1>2, <1>18 DEF Complete
  <2> QED
    BY <2>1, <2>2, <2>3
<1>19. ASSUME NEW p \in Procs, Pop(p), CanRun(p) PROVE Named'
  <2>1. CreatorReady' /\ MonitorFits' /\ NoneBefore'
    BY <1>0, <1>2, <1>19 DEF Pop
  <2>2. DeleteReady'
    BY <1>0, <1>2, <1>19 DEF Pop
  <2>3. PodsFit'
    BY <1>0, <1>2, <1>19 DEF Pop
  <2> QED
    BY <2>1, <2>2, <2>3
<1>20. ASSUME NEW p \in Procs, MonitorStops(p), CanRun(p) PROVE Named'
  <2>1. CreatorReady' /\ MonitorFits' /\ NoneBefore'
    BY <1>0, <1>2, <1>20 DEF MonitorStops
  <2>2. DeleteReady'
    BY <1>0, <1>2, <1>20 DEF MonitorStops
  <2>3. PodsFit'
    BY <1>0, <1>2, <1>20 DEF MonitorStops
  <2> QED
    BY <2>1, <2>2, <2>3
<1>21. ASSUME NEW p \in Procs, DeletePod(p), CanRun(p) PROVE Named'
  <2>0. PICK t \in Tasks : t = owner[p]
    BY <1>0, <1>21 DEF DeletePod
  <2> DEFINE Found == {d \in pods : d.task = t /\ d.name = randomName[t] /\ d.idx = idx[p]}
  <2>1. /\ pc[p] = "delete" /\ pc' = pc /\ idx[p] < NodeNum[t]
        /\ idx' = [idx EXCEPT ![p] = @ + 1]
        /\ UNCHANGED <<scheduleMap, ips, randomName, drawn, owner, name>>
        /\ pods' \subseteq pods /\ disputed \subseteq disputed'
    BY <1>0, <1>21, <2>0 DEF DeletePod, Delete_pod
  <2>2. \/ pods' = pods \ Found
        \/ ips[t] \subseteq disputed' /\ \A d \in Found : d.ip \in disputed'
    BY <1>21, <2>0 DEF DeletePod, Delete_pod
  <2> HIDE DEF Found
  <2>3. CreatorReady' /\ MonitorFits' /\ NoneBefore'
    BY <1>0, <2>1
  <2>4. DeleteReady'
    <3>1. ASSUME NEW d \in pods', d.task = t, d.name = randomName[t], d.idx < idx[p] + 1
          PROVE  d.ip \in disputed' /\ ips[t] \subseteq disputed'
      <4>1. CASE d.idx < idx[p]
        BY <1>0, <2>0, <2>1, <3>1, <4>1
      <4>2. CASE d \in Found
        BY <2>2, <3>1, <4>2
      <4>3. d \in pods /\ d.idx \in Nat /\ idx[p] \in Nat
        BY <1>0, <2>1, <3>1
      <4>4. d.idx < idx[p] \/ d.idx = idx[p]
        BY <3>1, <4>3
      <4> QED
        BY <3>1, <4>1, <4>2, <4>3, <4>4 DEF Found
    <3>2. ASSUME NEW q \in Procs, pc[q] = "delete", q # p PROVE owner[q] # t
      BY <2>0, <2>1, <3>2
    <3> QED
      BY <1>0, <2>0, <2>1, <3>1, <3>2
  <2>5. PodsFit'
    BY <1>0, <2>1
  <2> QED
    BY <2>3, <2>4, <2>5
<1>22. ASSUME NEW p \in Procs, Release(p), CanRun(p) PROVE Named'
  <2> DEFINE t == owner[p]
  <2>1. /\ pc[p] = "delete" /\ t \in Tasks /\ idx[p] >= NodeNum[t]
        /\ pc' = [pc EXCEPT ![p] = "idle"] /\ owner' = [owner EXCEPT ![p] = NoTask]
        /\ idx' = [idx EXCEPT ![p] = 0] /\ name' = [name EXCEPT ![p] = 0]
        /\ UNCHANGED <<scheduleMap, ips, randomName, drawn, pods, disputed>>
    BY <1>0, <1>22 DEF Release
  <2>2. \A d \in pods : d.ip \notin disputed => d.task # t
    BY <1>0, <2>1
  <2>3. CreatorReady' /\ MonitorFits' /\ NoneBefore'
    BY <1>0, <2>1
  <2>4. DeleteReady'
    BY <1>0, <2>1
  <2>5. PodsFit'
    BY <1>0, <2>1, <2>2
  <2> QED
    BY <2>3, <2>4, <2>5
<1>23. ASSUME NEW p \in Procs, TrainingEnds(p), CanRun(p) PROVE Named'
  <2>0. PICK t \in Tasks : t = owner[p]
    BY <1>0, <1>23 DEF TrainingEnds
  <2>1. /\ pc[p] = "monitor"
        /\ \A q \in Procs : owner[q] = t => pc[q] = "monitor"
        /\ pc' = [pc EXCEPT ![p] = "delete"] /\ idx' = [idx EXCEPT ![p] = 0]
        /\ UNCHANGED <<scheduleMap, ips, randomName, drawn, pods, owner, name>>
        /\ disputed \subseteq disputed'
    BY <1>0, <1>23, <2>0 DEF TrainingEnds, Settled, Undisturbed
  <2>2. scheduleMap[t] = "POSTCREATE" \/ ips[t] \subseteq disputed'
    <3>1. CASE name[p] = randomName[t]
      <4>1. scheduleMap[t] # "CREATING"
        BY <2>0, <2>1, <3>1
      <4> QED
        BY <1>0, <4>1 DEF Schedules
    <3>2. CASE name[p] # randomName[t]
      BY <1>23, <2>0, <3>2 DEF TrainingEnds
    <3> QED
      BY <3>1, <3>2
  <2>3. CreatorReady' /\ MonitorFits' /\ NoneBefore'
    BY <1>0, <2>1
  <2>4. DeleteReady'
    <3>1. \A q \in Procs : pc'[q] = "delete" /\ q # p => pc[q] = "delete" /\ owner[q] # t
      BY <1>0, <2>1
    <3> QED
      BY <1>0, <2>0, <2>1, <2>2, <3>1
  <2>5. PodsFit'
    BY <1>0, <2>1
  <2> QED
    BY <2>3, <2>4, <2>5
<1>24. ASSUME NEW d \in pods, PodRuns(d) \/ PodUnschedulable(d) \/ PodFails(d)
      PROVE Named'
  <2>1. PICK phase : SetPhase(d, phase)
    BY <1>24 DEF PodRuns, PodUnschedulable, PodFails
  <2>2. \A e \in pods' : \E f \in pods :
          e.task = f.task /\ e.name = f.name /\ e.idx = f.idx /\ e.ip = f.ip
    BY <1>0, <2>1 DEF SetPhase, Pods
  <2>3. CreatorReady' /\ MonitorFits' /\ NoneBefore'
    BY <2>1 DEF SetPhase
  <2>4. DeleteReady'
    BY <2>1, <2>2 DEF SetPhase
  <2>5. PodsFit'
    BY <2>1, <2>2 DEF SetPhase
  <2> QED
    BY <2>3, <2>4, <2>5
<1> HIDE DEF Named, Controlled, OneActs, ScheduleFits, Exclusive, Creates, Creating,
        CreatorReady, MonitorFits, NoneBefore, DeleteReady, PodsFit, NoOrphans,
        GoTo, Exit, headVars, localVars
<1> QED
  BY <1>1, <1>3, <1>4, <1>5, <1>6, <1>7, <1>8, <1>9, <1>10, <1>11, <1>12, <1>13, <1>14, <1>15, <1>16, <1>17, <1>18, <1>19, <1>20, <1>21, <1>22, <1>23, <1>24
  DEF Next, Work, Outside, Cluster

\* The books stay right while nothing is marked or freed, no pod appears and no
\* task comes to free again what it has freed.
LEMMA BooksKept ==
  ASSUME Addressed, UNCHANGED pool, pods' \subseteq pods, disputed \subseteq disputed',
         \A t \in Tasks :
           ips'[t] \subseteq ips[t] /\ (Stale(t) => Stale(t)' \/ ips'[t] \subseteq disputed'),
         \A p \in Procs : pc'[p] = "create" => ip'[p] \notin pool
  PROVE  Addressed'
<1> USE DEF Addressed
<1>1. FoundIsFree'
  BY DEF FoundIsFree
<1>2. AddressesExclusive' /\ PodAddressesHeld'
  BY DEF AddressesExclusive, PodAddressesHeld
<1>3. RecordedHeld'
  BY DEF RecordedHeld
<1>4. RecordedDisjoint'
  <2> SUFFICES ASSUME NEW t \in Tasks, NEW u \in Tasks, ~Stale(t)', ~Stale(u)', t # u
               PROVE  ips'[t] \cap ips'[u] \subseteq disputed'
    BY DEF RecordedDisjoint
  <2>1. CASE ips'[t] \subseteq disputed' \/ ips'[u] \subseteq disputed'
    BY <2>1
  <2>2. CASE ~Stale(t) /\ ~Stale(u)
    BY <2>2 DEF RecordedDisjoint
  <2> QED
    BY <2>1, <2>2
<1> QED
  BY <1>1, <1>2, <1>3, <1>4

\* No address is freed that a pod still has.
LEMMA HeldStep == Undisturbed /\ TypeOK /\ Controlled /\ Named /\ Addressed /\ [Next]_vars => Addressed'
<1> SUFFICES ASSUME Undisturbed, TypeOK, Controlled, Named, Addressed, [Next]_vars PROVE Addressed'
  OBVIOUS
<1> USE DEF Addressed, Controlled, OneActs, Exclusive, Creates, FoundIsFree, RecordedHeld,
        RecordedDisjoint, AddressesExclusive, PodAddressesHeld, Stale, HasPods, Immediate,
        GoTo, Exit, headVars, localVars
<1>0. /\ scheduleMap \in [Tasks -> Schedules] /\ ips \in [Tasks -> SUBSET Addresses]
      /\ randomName \in [Tasks -> Nat] /\ command \in [Tasks -> Commands]
      /\ pool \in SUBSET Addresses /\ disputed \in SUBSET Addresses
      /\ pods \in SUBSET Pods
      /\ \A d \in pods : d.task \in Tasks /\ d.name \in Nat /\ d.idx \in Nat
      /\ pc \in [Procs -> Labels] /\ owner \in [Procs -> Tasks \cup {NoTask}]
      /\ \A p \in Procs : pc[p] # "idle" => owner[p] \in Tasks
      /\ ip \in [Procs -> Addresses \cup {NoIp}]
      /\ \A p \in Procs : pc[p] = "create" => ip[p] \in Addresses
  BY DEF TypeOK, Pods
<1>1. CASE UNCHANGED vars
  <2>1. \A t \in Tasks : Stale(t) => Stale(t)'
    BY <1>1 DEF vars
  <2> QED
    BY <1>1, <2>1, BooksKept DEF vars
<1>2. ASSUME NEW p \in Procs, CanRun(p)
      PROVE \A q \in Procs \ {p} : pc[q] \notin Immediate
  BY <1>2 DEF CanRun, Undisturbed
<1>3. ASSUME NEW p \in Procs, NEW t \in Tasks, NEW c \in Commands, Receive(p, t, c)
      PROVE Addressed'
  <2>1. UNCHANGED <<pool, ips, pods, disputed>>
    BY <1>3 DEF Receive, Accept
  <2>2. \A u \in Tasks : Stale(u) => Stale(u)'
    BY <1>0, <1>3 DEF Receive, Accept, MaySend, Settled, Requested, Undisturbed
  <2>3. \A q \in Procs : pc'[q] = "create" => ip'[q] \notin pool
    BY <1>0, <1>3 DEF Receive, Accept
  <2> QED
    BY <2>1, <2>2, <2>3, BooksKept
<1>4. ASSUME NEW p \in Procs, Start(p), CanRun(p) PROVE Addressed'
  <2>1. UNCHANGED <<pool, ips, pods, disputed>>
    BY <1>4 DEF Start
  <2>2. \A t \in Tasks : Stale(t) => Stale(t)'
    BY <1>0, <1>2, <1>4 DEF Start
  <2>3. \A q \in Procs : pc'[q] = "create" => ip'[q] \notin pool
    BY <1>0, <1>2, <1>4 DEF Start
  <2> QED
    BY <2>1, <2>2, <2>3, BooksKept
<1>5. ASSUME NEW p \in Procs, Stop(p), CanRun(p) PROVE Addressed'
  <2>1. UNCHANGED <<pool, ips, pods, disputed>>
    BY <1>5 DEF Stop
  <2>2. \A t \in Tasks : Stale(t) => Stale(t)'
    BY <1>0, <1>2, <1>5 DEF Stop
  <2>3. \A q \in Procs : pc'[q] = "create" => ip'[q] \notin pool
    BY <1>0, <1>2, <1>5 DEF Stop
  <2> QED
    BY <2>1, <2>2, <2>3, BooksKept
<1>6. ASSUME NEW p \in Procs, StopTask(p), CanRun(p) PROVE Addressed'
  <2>1. UNCHANGED <<pool, ips, pods, disputed>>
    BY <1>6 DEF StopTask
  <2>2. \A t \in Tasks : Stale(t) => Stale(t)'
    BY <1>0, <1>2, <1>6 DEF StopTask
  <2>3. \A q \in Procs : pc'[q] = "create" => ip'[q] \notin pool
    BY <1>0, <1>2, <1>6 DEF StopTask
  <2> QED
    BY <2>1, <2>2, <2>3, BooksKept
<1>7. ASSUME NEW p \in Procs, Restart(p), CanRun(p) PROVE Addressed'
  <2>0. PICK t \in Tasks : t = owner[p]
    BY <1>0, <1>7 DEF Restart
  <2>1. /\ UNCHANGED <<pool, pods, disputed>> /\ ips' = [ips EXCEPT ![t] = {}]
        /\ scheduleMap' = [scheduleMap EXCEPT ![t] = "BEFORECREATE"]
        /\ pc' = [pc EXCEPT ![p] = "delete"]
        /\ UNCHANGED <<owner, ip, command, randomName>>
    BY <1>0, <1>7, <2>0 DEF Restart
  <2>2. \A u \in Tasks : ips'[u] \subseteq ips[u] /\ (Stale(u) => Stale(u)' \/ ips'[u] = {})
    <3>1. \A u \in Tasks \ {t} : ips'[u] = ips[u] /\ (Stale(u) => Stale(u)')
      BY <1>0, <2>0, <2>1
    <3> QED
      BY <1>0, <2>1, <3>1
  <2>3. \A q \in Procs : pc'[q] = "create" => ip'[q] \notin pool
    BY <1>0, <2>1
  <2> QED
    BY <2>1, <2>2, <2>3, BooksKept
<1>8. ASSUME NEW p \in Procs, Reset(p), CanRun(p) PROVE Addressed'
  <2>1. UNCHANGED <<pool, ips, pods, disputed>>
    BY <1>8 DEF Reset
  <2>2. \A t \in Tasks : Stale(t) => Stale(t)'
    BY <1>0, <1>2, <1>8 DEF Reset
  <2>3. \A q \in Procs : pc'[q] = "create" => ip'[q] \notin pool
    BY <1>0, <1>2, <1>8 DEF Reset
  <2> QED
    BY <2>1, <2>2, <2>3, BooksKept
<1>9. ASSUME NEW p \in Procs, Poll(p), CanRun(p) PROVE Addressed'
  <2>1. UNCHANGED <<pool, ips, pods, disputed>>
    BY <1>9 DEF Poll
  <2>2. \A t \in Tasks : Stale(t) => Stale(t)'
    BY <1>0, <1>2, <1>9 DEF Poll
  <2>3. \A q \in Procs : pc'[q] = "create" => ip'[q] \notin pool
    BY <1>0, <1>2, <1>9 DEF Poll
  <2> QED
    BY <2>1, <2>2, <2>3, BooksKept
<1>10. ASSUME NEW p \in Procs, PopOwn(p), CanRun(p) PROVE Addressed'
  <2>1. UNCHANGED <<pool, ips, pods, disputed>>
    BY <1>10 DEF PopOwn
  <2>2. \A t \in Tasks : Stale(t) => Stale(t)'
    BY <1>0, <1>2, <1>10 DEF PopOwn
  <2>3. \A q \in Procs : pc'[q] = "create" => ip'[q] \notin pool
    BY <1>0, <1>2, <1>10 DEF PopOwn
  <2> QED
    BY <2>1, <2>2, <2>3, BooksKept
<1>11. ASSUME NEW p \in Procs, PopDone(p), CanRun(p) PROVE Addressed'
  <2>1. UNCHANGED <<pool, ips, pods, disputed>>
    BY <1>11 DEF PopDone
  <2>2. \A t \in Tasks : Stale(t) => Stale(t)'
    BY <1>0, <1>2, <1>11 DEF PopDone
  <2>3. \A q \in Procs : pc'[q] = "create" => ip'[q] \notin pool
    BY <1>0, <1>2, <1>11 DEF PopDone
  <2> QED
    BY <2>1, <2>2, <2>3, BooksKept
<1>12. ASSUME NEW p \in Procs, IndexPanic(p), CanRun(p) PROVE Addressed'
  <2>1. UNCHANGED <<pool, ips, pods, disputed>>
    BY <1>12 DEF IndexPanic
  <2>2. \A t \in Tasks : Stale(t) => Stale(t)'
    BY <1>0, <1>2, <1>12 DEF IndexPanic
  <2>3. \A q \in Procs : pc'[q] = "create" => ip'[q] \notin pool
    BY <1>0, <1>2, <1>12 DEF IndexPanic
  <2> QED
    BY <2>1, <2>2, <2>3, BooksKept
<1>13. ASSUME NEW p \in Procs, Claim(p), CanRun(p) PROVE Addressed'
  <2>0. PICK t \in Tasks : t = owner[p]
    BY <1>0, <1>13 DEF Claim
  <2>1. /\ pc[p] = "claim" /\ scheduleMap[t] = "BEFORECREATE"
        /\ scheduleMap' = [scheduleMap EXCEPT ![t] = "CREATING"]
        /\ pc' = [pc EXCEPT ![p] = "assign"]
        /\ \A u \in Tasks \ {t} : randomName'[u] = randomName[u]
        /\ UNCHANGED <<ips, command, pool, pods, disputed, owner, ip>>
    BY <1>0, <1>13, <2>0 DEF Claim, ScheduleFits
  <2>2. \A u \in Tasks : Stale(u) => Stale(u)'
    <3>1. ~Stale(t)
      BY <2>1
    <3>2. \A u \in Tasks \ {t} : Stale(u) => Stale(u)'
      BY <1>0, <2>0, <2>1
    <3> QED
      BY <3>1, <3>2
  <2>3. \A q \in Procs : pc'[q] = "create" => ip'[q] \notin pool
    BY <1>0, <2>1
  <2> QED
    BY <2>1, <2>2, <2>3, BooksKept
<1>14. ASSUME NEW p \in Procs, AssignIp(p), CanRun(p) PROVE Addressed'
  <2>1. UNCHANGED <<pool, ips, pods, disputed, scheduleMap, randomName, command>>
    BY <1>14 DEF AssignIp
  <2>2. CASE Exit(p)
    <3>1. \A t \in Tasks : Stale(t) => Stale(t)'
      BY <1>0, <1>14, <2>1, <2>2 DEF AssignIp
    <3> QED
      BY <1>0, <2>1, <2>2, <3>1, BooksKept
  <2>3. ASSUME NEW a \in Addresses, a \notin pool, ip' = [ip EXCEPT ![p] = a],
               GoTo(p, "create"), UNCHANGED <<owner, name, idx>>
        PROVE Addressed'
    <3>1. \A t \in Tasks : Stale(t) => Stale(t)'
      BY <1>0, <1>14, <2>1, <2>3 DEF AssignIp
    <3> QED
      BY <1>0, <2>1, <2>3, <3>1, BooksKept
  <2> QED
    BY <1>14, <2>2, <2>3 DEF AssignIp, Assigns, Free
<1>15. ASSUME NEW p \in Procs, CreatePod(p), CanRun(p) PROVE Addressed'
  <2>0. PICK t \in Tasks, a \in Addresses : t = owner[p] /\ a = ip[p]
    BY <1>0, <1>15 DEF CreatePod
  <2>1. /\ pc[p] = "create" /\ scheduleMap[t] = "CREATING" /\ a \notin pool
        /\ pool' = pool \cup {a} /\ ips' = [ips EXCEPT ![t] = @ \cup {a}]
        /\ pc' = [pc EXCEPT ![p] = "podStatus"]
        /\ UNCHANGED <<scheduleMap, randomName, command, disputed, owner, ip>>
    BY <1>0, <1>15, <2>0 DEF CreatePod, ScheduleFits, Creating
  <2> DEFINE new == [task |-> t, name |-> name[p], idx |-> idx[p], ip |-> a,
                     phase |-> "Pending"]
  <2>2. new.task = t /\ new.ip = a /\ (pods' = pods \cup {new} \/ pods' = pods)
    BY <1>15, <2>0 DEF CreatePod
  <2> HIDE DEF new
  <2>3. \A d \in pods : d.ip \notin disputed => d.ip # a
    BY <2>1
  <2>4. AddressesExclusive' /\ PodAddressesHeld'
    BY <2>1, <2>2, <2>3
  <2>5. FoundIsFree'
    <3>1. \A q \in Procs : pc'[q] # "create"
      BY <1>0, <1>2, <1>15, <2>1
    <3> QED
      BY <3>1
  <2>6. ~Stale(t) /\ \A u \in Tasks \ {t} : Stale(u) => Stale(u)'
    BY <1>0, <2>0, <2>1, <2>2
  <2>7. \A u \in Tasks \ {t} : ips'[u] = ips[u] /\ (~Stale(u) => a \notin ips[u] \ disputed)
    BY <1>0, <2>1
  <2>8. ips'[t] = ips[t] \cup {a}
    BY <1>0, <2>1
  <2>9. RecordedHeld' /\ RecordedDisjoint'
    <3> HIDE DEF Stale
    <3>1. RecordedHeld'
      BY <2>1, <2>2, <2>3, <2>6, <2>7, <2>8
    <3>2. RecordedDisjoint'
      BY <2>1, <2>6, <2>7, <2>8
    <3> QED
      BY <3>1, <3>2
  <2> QED
    BY <2>4, <2>5, <2>9
<1>16. ASSUME NEW p \in Procs, PodStatus(p), CanRun(p) PROVE Addressed'
  <2>1. UNCHANGED <<pool, ips, pods, disputed>>
    BY <1>16 DEF PodStatus
  <2>2. \A t \in Tasks : Stale(t) => Stale(t)'
    BY <1>0, <1>2, <1>16 DEF PodStatus
  <2>3. \A q \in Procs : pc'[q] = "create" => ip'[q] \notin pool
    BY <1>0, <1>2, <1>16 DEF PodStatus
  <2> QED
    BY <2>1, <2>2, <2>3, BooksKept
<1>17. ASSUME NEW p \in Procs, PodCheck(p), CanRun(p) PROVE Addressed'
  <2>1. UNCHANGED <<pool, ips, pods, disputed>>
    BY <1>17 DEF PodCheck
  <2>2. \A t \in Tasks : Stale(t) => Stale(t)'
    BY <1>0, <1>2, <1>17 DEF PodCheck
  <2>3. \A q \in Procs : pc'[q] = "create" => ip'[q] \notin pool
    BY <1>0, <1>2, <1>17 DEF PodCheck
  <2> QED
    BY <2>1, <2>2, <2>3, BooksKept
<1>18. ASSUME NEW p \in Procs, Complete(p), CanRun(p) PROVE Addressed'
  <2>1. UNCHANGED <<pool, ips, pods, disputed>>
    BY <1>18 DEF Complete
  <2>2. \A t \in Tasks : Stale(t) => Stale(t)'
    BY <1>0, <1>2, <1>18 DEF Complete
  <2>3. \A q \in Procs : pc'[q] = "create" => ip'[q] \notin pool
    BY <1>0, <1>2, <1>18 DEF Complete
  <2> QED
    BY <2>1, <2>2, <2>3, BooksKept
<1>19. ASSUME NEW p \in Procs, Pop(p), CanRun(p) PROVE Addressed'
  <2>1. UNCHANGED <<pool, ips, pods, disputed>>
    BY <1>19 DEF Pop
  <2>2. \A t \in Tasks : Stale(t) => Stale(t)'
    BY <1>0, <1>2, <1>19 DEF Pop
  <2>3. \A q \in Procs : pc'[q] = "create" => ip'[q] \notin pool
    BY <1>0, <1>2, <1>19 DEF Pop
  <2> QED
    BY <2>1, <2>2, <2>3, BooksKept
<1>20. ASSUME NEW p \in Procs, MonitorStops(p), CanRun(p) PROVE Addressed'
  <2>1. UNCHANGED <<pool, ips, pods, disputed>>
    BY <1>20 DEF MonitorStops
  <2>2. \A t \in Tasks : Stale(t) => Stale(t)'
    BY <1>0, <1>2, <1>20 DEF MonitorStops
  <2>3. \A q \in Procs : pc'[q] = "create" => ip'[q] \notin pool
    BY <1>0, <1>2, <1>20 DEF MonitorStops
  <2> QED
    BY <2>1, <2>2, <2>3, BooksKept
<1>21. ASSUME NEW p \in Procs, DeletePod(p), CanRun(p) PROVE Addressed'
  <2>1. /\ UNCHANGED <<scheduleMap, randomName, command, pool, ips, pc, owner, ip>>
        /\ pods' \subseteq pods /\ disputed \subseteq disputed'
    BY <1>21 DEF DeletePod, Delete_pod
  <2>2. \A t \in Tasks : Stale(t) => Stale(t)'
    BY <2>1
  <2>3. \A q \in Procs : pc'[q] = "create" => ip'[q] \notin pool
    BY <2>1
  <2> QED
    BY <2>1, <2>2, <2>3, BooksKept
<1>22. ASSUME NEW p \in Procs, Release(p), CanRun(p) PROVE Addressed'
  <2>0. PICK t \in Tasks : t = owner[p]
    BY <1>0, <1>22 DEF Release
  <2>1. /\ pc[p] = "delete" /\ idx[p] >= NodeNum[t]
        /\ pool' = pool \ ips[t] /\ pc' = [pc EXCEPT ![p] = "idle"]
        /\ owner' = [owner EXCEPT ![p] = NoTask] /\ ip' = [ip EXCEPT ![p] = NoIp]
        /\ UNCHANGED <<scheduleMap, randomName, ips, command, pods, disputed>>
    BY <1>0, <1>22, <2>0 DEF Release, Released
  <2>2. ~Stale(t)
    BY <2>0, <2>1
  <2>3. \A d \in pods : d.task = t /\ d.name = randomName[t] =>
          d.ip \in disputed /\ ips[t] \subseteq disputed
    <3>1. NodeNum[t] \in Nat /\ idx[p] \in Nat /\ \A d \in pods : d.idx \in Nat
      BY <1>0, SchedulerAssumption DEF TypeOK
    <3>2. \A d \in pods : d.task = t => d.idx < idx[p]
      BY <2>1, <3>1 DEF Named, PodsFit
    <3> QED
      BY <2>0, <2>1, <3>2 DEF Named, DeleteReady
  <2>4. \A d \in pods : d.ip \in ips[t] => d.ip \in disputed
    <3>1. \A d \in pods : d.ip \in ips[t] /\ d.ip \notin disputed => d.task = t
      BY <2>2
    <3> QED
      BY <2>3, <3>1 DEF Named, PodsFit, NoOrphans
  <2>5. Stale(t)' \/ ips[t] \subseteq disputed
    <3>1. CASE scheduleMap[t] = "POSTCREATE" /\ ~HasPods(t)
      BY <1>0, <2>0, <2>1, <3>1
    <3> QED
      BY <2>0, <2>1, <2>3, <3>1 DEF Named, DeleteReady
  <2>6. \A u \in Tasks \ {t} : Stale(u) => Stale(u)'
    BY <1>0, <2>0, <2>1
  <2>7. RecordedHeld' /\ RecordedDisjoint'
    <3> HIDE DEF Stale
    <3>1. \A u \in Tasks \ {t} : ~Stale(u) => ips[u] \cap ips[t] \subseteq disputed
      BY <2>2
    <3>2. RecordedHeld'
      BY <2>1, <2>2, <2>5, <2>6, <3>1
    <3>3. RecordedDisjoint'
      <4> SUFFICES ASSUME NEW u \in Tasks, NEW v \in Tasks, ~Stale(u)', ~Stale(v)', u # v
                   PROVE  ips[u] \cap ips[v] \subseteq disputed
        BY <2>1
      <4> QED
        BY <2>2, <2>5, <2>6
    <3> QED
      BY <3>2, <3>3
  <2>8. FoundIsFree' /\ AddressesExclusive' /\ PodAddressesHeld'
    BY <1>0, <2>1, <2>4
  <2> QED
    BY <2>7, <2>8
<1>23. ASSUME NEW p \in Procs, TrainingEnds(p), CanRun(p) PROVE Addressed'
  <2>0. PICK t \in Tasks : t = owner[p]
    BY <1>0, <1>23 DEF TrainingEnds
  <2>1. /\ UNCHANGED <<scheduleMap, randomName, command, pool, ips, pods, owner, ip>>
        /\ pc' = [pc EXCEPT ![p] = "delete"] /\ disputed \subseteq disputed'
        /\ name[p] # randomName[t] => ips[t] \subseteq disputed'
        /\ \E d \in pods : d.task = t /\ d.name = name[p]
    BY <1>23, <2>0 DEF TrainingEnds, Watched
  <2>2. \A u \in Tasks : Stale(u) => Stale(u)' \/ ips'[u] \subseteq disputed'
    <3>1. Stale(t) => ips[t] \subseteq disputed'
      BY <2>1
    <3>2. \A u \in Tasks \ {t} : Stale(u) => Stale(u)'
      BY <1>0, <2>0, <2>1
    <3> QED
      BY <2>1, <3>1, <3>2
  <2>3. \A q \in Procs : pc'[q] = "create" => ip'[q] \notin pool
    BY <1>0, <2>1
  <2> QED
    BY <2>1, <2>2, <2>3, BooksKept
<1>24. ASSUME NEW d \in pods, PodRuns(d) \/ PodUnschedulable(d) \/ PodFails(d)
      PROVE Addressed'
  <2> DEFINE Same(e, f) == e.task = f.task /\ e.name = f.name /\ e.ip = f.ip
  <2>1. PICK phase : SetPhase(d, phase)
    BY <1>24 DEF PodRuns, PodUnschedulable, PodFails
  <2> DEFINE changed == [d EXCEPT !.phase = phase]
  <2>2. pods' = (pods \ {d}) \cup {changed} /\ Same(changed, d)
    BY <1>0, <2>1 DEF SetPhase, Pods
  <2> HIDE DEF changed
  <2>3. AddressesExclusive'
    <3>1. \A e \in pods' : e = changed \/ e \in pods \ {d}
      BY <2>2
    <3>2. disputed' = disputed /\ \A e \in pods \ {d} : d.ip \notin disputed => e.ip # d.ip
      BY <1>24, <2>1 DEF SetPhase
    <3> QED
      BY <2>2, <3>1, <3>2
  <2>4. \A t \in Tasks : Stale(t)' <=> Stale(t)
    BY <1>0, <1>24, <2>1, <2>2 DEF SetPhase
  <2>5. FoundIsFree' /\ RecordedHeld' /\ RecordedDisjoint' /\ PodAddressesHeld'
    <3> HIDE DEF Stale
    <3> QED
      BY <1>0, <1>24, <2>1, <2>2, <2>4 DEF SetPhase
  <2> QED
    BY <2>3, <2>5
<1> HIDE DEF Addressed, Controlled, OneActs, Exclusive, Creates, FoundIsFree, RecordedHeld,
        RecordedDisjoint, AddressesExclusive, PodAddressesHeld, Stale, HasPods, Immediate,
        GoTo, Exit, headVars, localVars
<1> QED
  BY <1>1, <1>3, <1>4, <1>5, <1>6, <1>7, <1>8, <1>9, <1>10, <1>11, <1>12, <1>13, <1>14, <1>15, <1>16, <1>17, <1>18, <1>19, <1>20, <1>21, <1>22, <1>23, <1>24
  DEF Next, Work, Outside, Cluster

\* The invariant is reached from Init and kept for ever.
LEMMA AddressCorrect == ASSUME Undisturbed PROVE Spec => []AddressInv
<1>1. Undisturbed /\ AddressInv /\ [Next]_vars => AddressInv'
  BY TypeStep, ControlStep, NameStep, HeldStep DEF AddressInv
<1> QED
  BY <1>1, AddressInit, PTL DEF Spec

\* Two pods in the cluster never have the same accelerator address: one that is
\* in use is marked, and getIpFromIppool passes over what is marked
\* (pod-handler.go:701-721).  Where a delete failed (pod-handler.go:478-483) the
\* addresses its task had recorded are excepted, and those of no other task.
THEOREM AddressesStayExclusive == ASSUME Undisturbed PROVE Spec => []AddressesExclusive
<1>1. AddressInv => AddressesExclusive
  BY DEF AddressInv, Addressed
<1> QED
  BY <1>1, AddressCorrect, PTL

\* The address of a pod stays marked as used for as long as the pod exists:
\* writeIppool is called with it only after the pod was deleted
\* (cluster-operator.go:174-181), but for deletes that failed.
THEOREM PodAddressesStayHeld == ASSUME Undisturbed PROVE Spec => []PodAddressesHeld
<1>1. AddressInv => PodAddressesHeld
  BY DEF AddressInv, Addressed
<1> QED
  BY <1>1, AddressCorrect, PTL

\* Every pod carries the name in its task's rm.RandomName, under which a later
\* delete looks it up (cluster-operator.go:174-177); a pod loses that name to the
\* next creation only when a delete of it was tried and failed.
THEOREM DeletesReachEveryPod == ASSUME Undisturbed PROVE Spec => []NoOrphans
<1>1. AddressInv => NoOrphans
  BY DEF AddressInv, Named, PodsFit
<1> QED
  BY <1>1, AddressCorrect, PTL
=============================================================================
