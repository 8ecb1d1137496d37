---------------------------- MODULE EntryProofs ----------------------------
(***************************************************************************)
(* What UPDATEMAP and .update say of a task, and what the task knows, for  *)
(* every set of tasks, goroutines and addresses and for every number of    *)
(* restarts, also with a data server that is out of reach.                 *)
(***************************************************************************)
EXTENDS RecoveryProofs

\* Users wait for what they asked for, and a training ends only beside no command;
\* the cluster may do what it likes, and refuse what it likes to delete.
Calm == Behaviours \subseteq {"ends", "cluster", "undeleted"}

\* A task that may be asked for, as far as this process knows.
Fresh(t) == scheduleMap[t] = "BEFORECREATE" /\ t \notin recovered

Dispatches(p, c) == pc[p] = "dispatch" /\ command[owner[p]] = c

\* A delete of the task has failed: no address it has recorded is relied on.
Spoiled(t) == ips[t] \subseteq disputed

-----------------------------------------------------------------------------
(* Who acts for a task *)

IdleFree == \A p \in Procs : pc[p] = "idle" => owner[p] = NoTask

\* A task has one goroutine at a time that does not watch its log.
Solo ==
  \A p, q \in Procs :
    p # q /\ owner[p] = owner[q] /\ pc[p] \notin {"idle", "monitor"}
      => pc[q] \in {"idle", "monitor"}

\* What the page asked for still fits when a goroutine does it.
RequestFits ==
  \A p \in Procs :
    /\ Dispatches(p, "START") \/ pc[p] \in {"poll", "claim", "popOwn", "popDone"}
         => Fresh(owner[p])
    /\ Creating(p) => scheduleMap[owner[p]] = "CREATING"
    /\ pc[p] = "pop" => scheduleMap[owner[p]] = "POSTCREATE"
    /\ Dispatches(p, "RESTART") =>
         scheduleMap[owner[p]] # "CREATING" /\ owner[p] \notin recovered

RecoveredFits == \A t \in recovered : scheduleMap[t] # "CREATING"

\* Before its page connects a task is as the restart has left it.
Unconnected ==
  \A t \in Tasks \ connected :
    /\ scheduleMap[t] = "BEFORECREATE" /\ ips[t] = {} /\ randomName[t] = 0
    /\ t \notin recovered \cup removing
    /\ \A p \in Procs : owner[p] # t

\* UPDATEMAP and .update have the same entries once a page has connected.
MemoryFits ==
  \/ DOMAIN update = {} /\ connected = {}
  \/ DOMAIN update = DOMAIN updateFile /\ \A t \in DOMAIN update : update[t] = updateFile[t]

Acting == IdleFree /\ Solo /\ RequestFits /\ RecoveredFits /\ Unconnected

Steady == Acting /\ MemoryFits
-----------------------------------------------------------------------------
(* The steps, by what they change *)

\* The statements that change nothing but the goroutine that executes them and
\* sm.Type: it ends, or goes on.
Quiet(p) ==
  \/ Reset(p) \/ Poll(p) \/ PopOwn(p) \/ PopDone(p) \/ IndexPanic(p)
  \/ AssignIp(p) \/ PodStatus(p) \/ PodCheck(p) \/ MonitorStops(p)

Ends(p) ==
  /\ pc[p] \in {"popOwn", "assign", "podStatus", "podCheck", "monitor"} \/ Dispatches(p, "RESET")
  /\ Exit(p)

GoesOn(p) ==
  /\ UNCHANGED <<owner, name>>
  /\ \E label \in Labels, number \in Nat, address \in Addresses \cup {NoIp} :
       /\ GoTo(p, label)
       /\ idx' = [idx EXCEPT ![p] = number]
       /\ ip' = [ip EXCEPT ![p] = address]
       /\ \/ pc[p] = "poll" /\ label \in {"claim", "popOwn", "popDone"}
          \/ pc[p] = "popDone" /\ label = "poll"
          \/ pc[p] \in {"poll", "popOwn", "popDone", "pop"} /\ label = pc[p]
          \/ pc[p] = "assign" /\ label = "create" /\ number = idx[p] /\ address \in Free(pool)
          \/ pc[p] = "podStatus" /\ label = "podCheck" /\ number = idx[p]
          \/ pc[p] = "podCheck" /\ label = "podStatus" /\ number = idx[p]
          \/ pc[p] = "podStatus" /\ label = "assign" /\ number < NodeNum[owner[p]]
          \/ pc[p] = "podStatus" /\ label = "complete"

\* Each of them is of one of these two forms.
LEMMA QuietFacts ==
  ASSUME TypeOK, NEW p \in Procs, Quiet(p)
  PROVE  /\ UNCHANGED <<scheduleMap, ips, randomName, drawn, command, pool, pods, disputed>>
         /\ Ends(p) \/ GoesOn(p)
<1>0. /\ pc \in [Procs -> Labels] /\ idx \in [Procs -> Nat] /\ idx[p] \in Nat
      /\ ip \in [Procs -> Addresses \cup {NoIp}] /\ ip[p] \in Addresses \cup {NoIp}
      /\ idx[p] + 1 \in Nat /\ idx = [idx EXCEPT ![p] = idx[p]]
      /\ ip = [ip EXCEPT ![p] = ip[p]] /\ pc = [pc EXCEPT ![p] = pc[p]]
      /\ Immediate \subseteq Labels
      /\ {"claim", "popOwn", "popDone", "create", "pop"} \subseteq Labels
      /\ {"poll", "assign", "podStatus", "podCheck", "complete"} \subseteq Labels
  BY DEF TypeOK, Labels, Immediate
<1> USE DEF headVars, localVars
<1> HIDE DEF Labels, TypeOK, Exit
<1>1. CASE Reset(p)
  BY <1>1 DEF Reset, Ends, Dispatches
<1>2. CASE Poll(p)
  <2>1. UNCHANGED <<scheduleMap, ips, randomName, drawn, command, pool, pods, disputed, localVars>>
    BY <1>2 DEF Poll
  <2>2. PICK label \in {"claim", "popOwn", "popDone"} : pc[p] = "poll" /\ GoTo(p, label)
    BY <1>2 DEF Poll
  <2> QED
    BY <1>0, <2>1, <2>2 DEF GoesOn
<1>3. CASE PopOwn(p)
  BY <1>3 DEF PopOwn, Ends
<1>4. CASE PopDone(p)
  BY <1>0, <1>4 DEF PopDone, GoesOn
<1>5. CASE IndexPanic(p)
  <2>1. GoTo(p, pc[p])
    BY <1>0, <1>5 DEF IndexPanic, GoTo
  <2> QED
    BY <1>0, <1>5, <2>1 DEF IndexPanic, GoesOn
<1>6. CASE AssignIp(p)
  <2>1. UNCHANGED <<scheduleMap, ips, randomName, drawn, command, pool, pods, disputed>>
    BY <1>6 DEF AssignIp
  <2>2. ASSUME NEW a \in Addresses, Assigns(pool, a), ip' = [ip EXCEPT ![p] = a],
               GoTo(p, "create"), UNCHANGED <<owner, name, idx>>, pc[p] = "assign"
        PROVE  GoesOn(p)
    BY <1>0, <2>2 DEF GoesOn, Assigns
  <2> QED
    BY <1>6, <2>1, <2>2 DEF AssignIp, Ends
<1>7. CASE PodStatus(p)
  <2>1. /\ UNCHANGED <<scheduleMap, ips, randomName, drawn, command, pool, pods, disputed>>
        /\ pc[p] = "podStatus"
    BY <1>7 DEF PodStatus
  <2>2. \/ Exit(p)
        \/ GoTo(p, "podCheck") /\ UNCHANGED localVars
        \/ /\ UNCHANGED <<owner, name, ip>> /\ idx' = [idx EXCEPT ![p] = idx[p] + 1]
           /\ \/ GoTo(p, "assign") /\ idx[p] + 1 < NodeNum[owner[p]]
              \/ GoTo(p, "complete")
    BY <1>7 DEF PodStatus
  <2> QED
    BY <1>0, <2>1, <2>2 DEF Ends, GoesOn
<1>8. CASE PodCheck(p)
  <2>1. /\ UNCHANGED <<scheduleMap, ips, randomName, drawn, command, pool, pods, disputed>>
        /\ pc[p] = "podCheck"
        /\ Exit(p) \/ (GoTo(p, "podStatus") /\ UNCHANGED localVars)
    BY <1>8 DEF PodCheck
  <2> QED
    BY <1>0, <2>1 DEF Ends, GoesOn
<1>9. CASE MonitorStops(p)
  BY <1>9 DEF MonitorStops, Ends
<1> QED
  BY <1>1, <1>2, <1>3, <1>4, <1>5, <1>6, <1>7, <1>8, <1>9 DEF Quiet

\* The entry of t as a status message leaves it.
Written(t, complete) ==
  /\ DOMAIN updateFile' = DOMAIN updateFile \cup {t}
  /\ updateFile'[t].name = randomName'[t]
  /\ updateFile'[t].ips = ips'[t]
  /\ updateFile'[t].complete = complete
  /\ \A u \in DOMAIN updateFile : u # t => updateFile'[u] = updateFile[u]
  /\ UNCHANGED missed

Unreached(t) == missed' = missed \cup {t} /\ UNCHANGED updateFile

\* A status message changes the entry of its task, or nothing.
LEMMA RecordFacts ==
  ASSUME MemoryFits, NEW t \in Tasks, t \in connected, NEW complete, Record(t, complete)
  PROVE  /\ Written(t, complete) \/ Unreached(t)
         /\ connected' = connected => MemoryFits'
<1>1. DOMAIN update = DOMAIN updateFile /\ \A u \in DOMAIN update : update[u] = updateFile[u]
  BY DEF MemoryFits
<1>2. CASE /\ update' = Replaced([u \in {t} |-> EntryOf(t, complete)], update)
           /\ updateFile' = update' /\ UNCHANGED missed
  <2>1. /\ DOMAIN update' = {t} \cup DOMAIN update
        /\ update'[t] = EntryOf(t, complete)
        /\ \A u \in DOMAIN update : u # t => update'[u] = update[u]
    BY <1>2 DEF Replaced
  <2>2. /\ EntryOf(t, complete).name = randomName'[t] /\ EntryOf(t, complete).ips = ips'[t]
        /\ EntryOf(t, complete).complete = complete
    BY DEF EntryOf
  <2> HIDE DEF EntryOf
  <2>3. Written(t, complete)
    BY <1>1, <1>2, <2>1, <2>2 DEF Written
  <2>4. MemoryFits'
    BY <1>2 DEF MemoryFits
  <2> QED
    BY <2>3, <2>4
<1>3. CASE missed' = missed \cup {t} /\ UNCHANGED <<update, updateFile>>
  BY <1>1, <1>3 DEF Unreached, MemoryFits
<1> QED
  BY <1>2, <1>3 DEF Record

\* The remover takes the entry of its task away, and nothing else.
LEMMA RemoveFacts ==
  ASSUME MemoryFits, NEW t \in Tasks, t \in connected, RemoveEntry(t)
  PROVE  /\ DOMAIN updateFile' = DOMAIN updateFile \ {t}
         /\ \A u \in DOMAIN updateFile : u # t => updateFile'[u] = updateFile[u]
         /\ MemoryFits'
<1>1. DOMAIN update = DOMAIN updateFile /\ \A u \in DOMAIN update : update[u] = updateFile[u]
  BY DEF MemoryFits
<1>2. /\ update' = Restrict(update, DOMAIN update \ {t}) /\ updateFile' = update'
  BY DEF RemoveEntry
<1>3. /\ DOMAIN update' = DOMAIN update \ {t}
      /\ \A u \in DOMAIN update : u # t => update'[u] = update[u]
  BY <1>2 DEF Restrict
<1> QED
  BY <1>1, <1>2, <1>3 DEF MemoryFits

\* The page of t finds no entry, one of a task that waited, or one of a training.
Joins(t) ==
  \/ t \notin DOMAIN updateFile /\ UNCHANGED <<randomName, ips, recovered, pc, owner, name>>
  \/ /\ t \in DOMAIN updateFile
     /\ randomName' = [randomName EXCEPT ![t] = updateFile[t].name]
     /\ ips' = [ips EXCEPT ![t] = updateFile[t].ips]
     /\ \/ ~updateFile[t].complete /\ UNCHANGED <<recovered, pc, owner, name>>
        \/ /\ updateFile[t].complete /\ recovered' = recovered \cup {t}
           /\ \E p \in Procs :
                /\ pc[p] = "idle" /\ GoTo(p, "monitor")
                /\ owner' = [owner EXCEPT ![p] = t]
                /\ name' = [name EXCEPT ![p] = updateFile[t].name]

\* The reload of a page reads its entry from the file.
LEMMA ConnectFacts ==
  ASSUME MemoryFits, NEW t \in Tasks, Connect(t)
  PROVE  Joins(t) /\ MemoryFits'
<1>1. DOMAIN update \subseteq DOMAIN updateFile
  BY DEF MemoryFits
<1>2. /\ update' = Replaced(updateFile, update) /\ UNCHANGED updateFile
  BY DEF Connect
<1>3. /\ DOMAIN update' = DOMAIN updateFile
      /\ \A u \in DOMAIN updateFile : update'[u] = updateFile[u]
  BY <1>1, <1>2 DEF Replaced
<1>4. t \in DOMAIN updateFile => Entry(t) = updateFile[t]
  BY <1>2, <1>3 DEF Entry
<1>5. MemoryFits'
  BY <1>2, <1>3 DEF MemoryFits
<1>6. CASE t \notin DOMAIN updateFile
  <2>1. t \notin DOMAIN update'
    BY <1>3, <1>6
  <2>2. UNCHANGED <<randomName, ips, recovered, pc, owner, name>>
    BY <2>1 DEF Connect
  <2> QED
    BY <1>5, <1>6, <2>2 DEF Joins
<1>7. CASE t \in DOMAIN updateFile
  <2>1. t \in DOMAIN update'
    BY <1>3, <1>7
  <2>2. /\ randomName' = [randomName EXCEPT ![t] = updateFile[t].name]
        /\ ips' = [ips EXCEPT ![t] = updateFile[t].ips]
        /\ IF updateFile[t].complete
           THEN Watch(t) /\ recovered' = recovered \cup {t}
           ELSE UNCHANGED <<recovered, pc, owner, name>>
    BY <1>4, <1>7, <2>1 DEF Connect
  <2>3. Watch(t) => \E p \in Procs :
                      /\ pc[p] = "idle" /\ GoTo(p, "monitor")
                      /\ owner' = [owner EXCEPT ![p] = t]
                      /\ name' = [name EXCEPT ![p] = updateFile[t].name]
    BY <1>4, <1>7 DEF Watch
  <2> HIDE DEF Watch
  <2> QED
    BY <1>5, <1>7, <2>2, <2>3 DEF Joins
<1> QED
  BY <1>6, <1>7

\* What a page sends under Calm, as far as it depends on the state.
Asks(p, t, c) ==
  /\ pc[p] = "idle" /\ t \in connected /\ t \notin removing /\ Settled(t)
  /\ c = "START" => Fresh(t)
  /\ c = "STOP" => HasPods(t) \/ scheduleMap[t] = "CREATING"
  /\ c = "RESTART" => ~HasPods(t) /\ (scheduleMap[t] = "POSTCREATE" \/ t \in recovered)

LEMMA ReceiveFacts ==
  ASSUME Calm, NEW p \in Procs, NEW t \in Tasks, NEW c \in Commands, RReceive(p, t, c)
  PROVE  /\ Asks(p, t, c)
         /\ command' = [command EXCEPT ![t] = c] /\ owner' = [owner EXCEPT ![p] = t]
         /\ GoTo(p, "dispatch")
         /\ recovered' = IF c = "RESTART" THEN recovered \ {t} ELSE recovered
         /\ UNCHANGED <<scheduleMap, ips, randomName, drawn, pool, pods, disputed, name, idx, ip>>
         /\ UNCHANGED <<fileVars, connected, historyVars>>
<1>1. /\ "repeat" \notin Behaviours /\ "cancel" \notin Behaviours
      /\ "rerun" \notin Behaviours
  BY DEF Calm
<1>2. \/ MaySend(t, c) /\ ~(c = "START" /\ t \in recovered)
      \/ c = "RESTART" /\ t \in recovered /\ Settled(t) /\ ~HasPods(t)
  BY DEF RReceive
<1>3. pc[p] = "idle" /\ t \in connected /\ t \notin removing
  BY DEF RReceive, Accept
<1>4. Asks(p, t, c)
  BY <1>1, <1>2, <1>3 DEF MaySend, Asks, Fresh
<1> QED
  BY <1>4 DEF RReceive, Accept

\* A LogMonitor that reads its log has a pod that carries the name it was called with.
LEMMA WatchFacts ==
  ASSUME Calm, NEW p \in Procs, LogStarts(p) \/ RTrainingEnds(p)
  PROVE  /\ pc[p] = "monitor"
         /\ \E d \in pods : d.task = owner[p] /\ d.name = name[p]
         /\ RTrainingEnds(p) => Settled(owner[p])
         /\ disputed \subseteq disputed'
  BY DEF Calm, LogStarts, RTrainingEnds, TrainingEnds, Watched

\* A delete takes one pod of the task away, or has its addresses disputed.
LEMMA DeleteFacts ==
  ASSUME TypeOK, NEW p \in Procs, RDeletePod(p)
  PROVE  /\ owner[p] \in Tasks /\ pc[p] = "delete" /\ idx[p] < NodeNum[owner[p]]
         /\ idx[p] \in Nat /\ NodeNum[owner[p]] \in Nat
         /\ idx' = [idx EXCEPT ![p] = idx[p] + 1]
         /\ removing' = IF idx[p] + 1 = NodeNum[owner[p]] THEN removing \cup {owner[p]} ELSE removing
         /\ UNCHANGED <<scheduleMap, ips, randomName, drawn, command, pool, pc, owner, name, ip>>
         /\ UNCHANGED <<poolFile, update, updateFile, processVars, historyVars>>
         /\ \/ /\ pods' = {d \in pods : ~(d.task = owner[p] /\ d.name = randomName[owner[p]]
                                         /\ d.idx = idx[p])}
               /\ UNCHANGED disputed
            \/ /\ UNCHANGED pods
               /\ disputed \cup ips[owner[p]] \subseteq disputed'
<1>1. DeletePod(p) /\ owner[p] \in Tasks /\ idx \in [Procs -> Nat]
  BY DEF RDeletePod, DeletePod, TypeOK
<1>2. \/ /\ pods' = {d \in pods : ~(d.task = owner[p] /\ d.name = randomName[owner[p]]
                                    /\ d.idx = idx[p])}
         /\ UNCHANGED disputed
      \/ /\ UNCHANGED pods
         /\ disputed \cup ips[owner[p]] \subseteq disputed'
  BY <1>1 DEF DeletePod, Delete_pod
<1> QED
  BY <1>1, <1>2, SchedulerAssumption DEF RDeletePod, DeletePod, headVars

\* No goroutine is overtaken between a test and the statement that depends on it.
LEMMA RunFacts ==
  ASSUME Calm, NEW p \in Procs, CanRun(p)
  PROVE  \A q \in Procs \ {p} : pc[q] # "create"
  BY DEF Calm, CanRun, Immediate

\* The cluster changes how far one pod has come, and nothing else of it.
SamePod(e, d) == e.task = d.task /\ e.name = d.name /\ e.idx = d.idx /\ e.ip = d.ip

LEMMA ClusterFacts ==
  ASSUME TypeOK, RCluster
  PROVE  /\ UNCHANGED <<scheduleMap, ips, randomName, drawn, command, pool, disputed, pc, localVars>>
         /\ UNCHANGED <<fileVars, processVars, historyVars>>
         /\ \A e \in pods' : \E d \in pods : SamePod(e, d)
         /\ \A d \in pods : \E e \in pods' : SamePod(e, d)
         /\ \A e, f \in pods' : e # f =>
              \E d, g \in pods : d # g /\ SamePod(e, d) /\ SamePod(f, g)
<1>1. PICK d \in pods : \E phase : SetPhase(d, phase)
  BY DEF RCluster, Cluster, PodRuns, PodUnschedulable, PodFails
<1>2. PICK phase : SetPhase(d, phase)
  BY <1>1
<1> DEFINE changed == [d EXCEPT !.phase = phase]
<1>3. pods' = (pods \ {d}) \cup {changed} /\ SamePod(changed, d)
  BY <1>2 DEF SetPhase, TypeOK, Pods, SamePod
<1>4. \A e \in pods : SamePod(e, e)
  BY DEF SamePod
<1> HIDE DEF changed
<1>5. /\ UNCHANGED <<scheduleMap, ips, randomName, drawn, command, pool, disputed, pc, localVars>>
      /\ UNCHANGED <<fileVars, processVars, historyVars>>
  BY <1>2 DEF SetPhase, RCluster, headVars
<1>6. \A e \in pods' : e = changed \/ (e \in pods /\ e # d)
  BY <1>3
<1>7. ASSUME NEW e \in pods', NEW f \in pods', e # f
      PROVE  \E b, g \in pods : b # g /\ SamePod(e, b) /\ SamePod(f, g)
  <2>1. CASE e = changed
    BY <1>3, <1>4, <1>6, <1>7, <2>1
  <2>2. CASE f = changed
    BY <1>3, <1>4, <1>6, <1>7, <2>2
  <2>3. CASE e \in pods /\ f \in pods
    BY <1>4, <1>7, <2>3
  <2> QED
    BY <1>6, <2>1, <2>2, <2>3
<1>8. /\ \A e \in pods' : \E b \in pods : SamePod(e, b)
      /\ \A b \in pods : \E e \in pods' : SamePod(e, b)
  BY <1>3, <1>4
<1> QED
  BY <1>5, <1>7, <1>8

-----------------------------------------------------------------------------
(* The invariant, layer by layer *)

\* UPDATEMAP is what .update says, except before the first page has connected
\* (reloadUpdateInfo, common.go:602-623).
LEMMA MemoryStep ==
  ASSUME Calm, RTypeOK, Steady, [RNext]_rvars
  PROVE  MemoryFits'
<1>0. /\ MemoryFits /\ Unconnected /\ connected \subseteq Tasks /\ removing \subseteq Tasks
      /\ \A p \in Procs : pc[p] # "idle" => owner[p] \in Tasks
  BY DEF Steady, Acting, RTypeOK, TypeOK
<1>1. CASE UNCHANGED <<update, updateFile, connected>>
  BY <1>0, <1>1 DEF MemoryFits
<1>2. ASSUME NEW p \in Procs, NEW complete, Record(owner[p], complete), pc[p] # "idle",
             UNCHANGED connected
      PROVE  MemoryFits'
  <2>1. owner[p] \in Tasks /\ owner[p] \in connected
    BY <1>0, <1>2 DEF Unconnected
  <2> QED
    BY <1>0, <1>2, <2>1, RecordFacts
<1>3. ASSUME NEW p \in Procs, RStart(p) \/ RStop(p) \/ RComplete(p) \/ LogStarts(p) \/ RTrainingEnds(p)
      PROVE  MemoryFits'
  <2> USE DEF processVars
  <2>1. CASE RStart(p)
    BY <1>2, <2>1 DEF RStart, Start
  <2>2. CASE RStop(p)
    BY <1>2, <2>2 DEF RStop, Stop
  <2>3. CASE RComplete(p)
    BY <1>2, <2>3 DEF RComplete, Complete
  <2>4. CASE LogStarts(p)
    BY <1>2, <2>4 DEF LogStarts
  <2>5. CASE RTrainingEnds(p)
    BY <1>2, <2>5 DEF RTrainingEnds, TrainingEnds
  <2> QED
    BY <1>3, <2>1, <2>2, <2>3, <2>4, <2>5
<1>4. ASSUME NEW p \in Procs,
             \/ RPop(p) \/ RDeletePod(p) \/ RRelease(p) \/ WithoutFiles(p)
             \/ \E t \in Tasks, c \in Commands : RReceive(p, t, c)
      PROVE  MemoryFits'
  BY <1>1, <1>4 DEF RPop, RDeletePod, RRelease, WithoutFiles, RReceive, fileVars, processVars
<1>5. ASSUME NEW t \in Tasks, RemoveEntry(t) PROVE MemoryFits'
  <2>1. t \in connected
    BY <1>0, <1>5 DEF RemoveEntry, Unconnected
  <2> QED
    BY <1>0, <1>5, <2>1, RemoveFacts
<1>6. ASSUME NEW t \in Tasks, Connect(t) PROVE MemoryFits'
  BY <1>0, <1>6, ConnectFacts
<1>7. CASE Reboot
  BY <1>7 DEF Reboot, MemoryFits
<1>8. CASE RCluster \/ UNCHANGED rvars
  BY <1>1, <1>8 DEF RCluster, rvars, fileVars, processVars
<1> QED
  BY <1>3, <1>4, <1>5, <1>6, <1>7, <1>8 DEF RNext, RWork

\* No step gives a task a second goroutine, or one that its state does not allow.
LEMMA SteadyStep ==
  ASSUME Calm, RTypeOK, Steady, [RNext]_rvars
  PROVE  Acting'
<1>0. /\ scheduleMap \in [Tasks -> Schedules] /\ ips \in [Tasks -> SUBSET Addresses]
      /\ randomName \in [Tasks -> Nat] /\ command \in [Tasks -> Commands]
      /\ pc \in [Procs -> Labels] /\ owner \in [Procs -> Tasks \cup {NoTask}]
      /\ \A p \in Procs : pc[p] # "idle" => owner[p] \in Tasks
      /\ connected \in SUBSET Tasks /\ removing \in SUBSET Tasks /\ recovered \in SUBSET Tasks
      /\ NoTask \notin Tasks /\ TypeOK /\ MemoryFits /\ Acting
  BY SchedulerAssumption DEF RTypeOK, TypeOK, Steady
<1> USE DEF Acting, IdleFree, Solo, RequestFits, RecoveredFits, Unconnected, Fresh,
   Dispatches, Creating, GoTo, Exit, headVars, localVars, fileVars, processVars, historyVars
<1>1. CASE UNCHANGED rvars
  BY <1>0, <1>1 DEF rvars, vars
<1>2. ASSUME NEW p \in Procs, NEW t \in Tasks, NEW c \in Commands, RReceive(p, t, c)
      PROVE  Acting'
  <2>1. /\ Asks(p, t, c) /\ GoTo(p, "dispatch")
        /\ owner' = [owner EXCEPT ![p] = t] /\ command' = [command EXCEPT ![t] = c]
        /\ recovered' \subseteq recovered /\ recovered \ {t} \subseteq recovered'
        /\ IF c = "RESTART" THEN t \notin recovered' ELSE recovered' = recovered
        /\ UNCHANGED <<scheduleMap, ips, randomName, drawn, pool, pods, disputed, name, idx, ip>>
        /\ UNCHANGED <<fileVars, connected, historyVars>>
    BY <1>2, ReceiveFacts
  <2>2. /\ \A q \in Procs : q # p => pc'[q] = pc[q] /\ owner'[q] = owner[q]
        /\ \A q \in Procs : q # p /\ pc[q] = "dispatch" =>
             command'[owner[q]] = command[owner[q]] /\ owner[q] # t
        /\ pc'[p] = "dispatch" /\ owner'[p] = t /\ command'[t] = c
        /\ \A q \in Procs : owner[q] = t => pc[q] = "monitor"
    BY <1>0, <2>1 DEF Asks, Settled
  <2>3. IdleFree' /\ Solo' /\ RequestFits' /\ RecoveredFits' /\ Unconnected'
    BY <1>0, <2>1, <2>2 DEF Asks
  <2> QED
    BY <2>3 DEF Acting
<1>3. ASSUME NEW p \in Procs, CanRun(p), RStart(p) PROVE Acting'
  BY <1>0, <1>3 DEF RStart, Start
<1>4. ASSUME NEW p \in Procs, CanRun(p), RStop(p) PROVE Acting'
  BY <1>0, <1>4 DEF RStop, Stop
<1>5. ASSUME NEW p \in Procs, CanRun(p), RComplete(p) PROVE Acting'
  BY <1>0, <1>5 DEF RComplete, Complete
<1>6. ASSUME NEW p \in Procs, CanRun(p), RPop(p) PROVE Acting'
  BY <1>0, <1>6 DEF RPop, Pop
<1>7. ASSUME NEW p \in Procs, CanRun(p), LogStarts(p) PROVE Acting'
  BY <1>0, <1>7, WatchFacts DEF LogStarts
<1>8. ASSUME NEW p \in Procs, CanRun(p), RTrainingEnds(p) PROVE Acting'
  <2>1. IdleFree' /\ RequestFits' /\ RecoveredFits' /\ Unconnected'
    BY <1>0, <1>8, WatchFacts DEF RTrainingEnds, TrainingEnds, Settled
  <2>2. Solo'
    <3>1. \A q \in Procs : owner[q] = owner[p] => pc[q] = "monitor"
      BY <1>8, WatchFacts DEF Settled
    <3>2. pc' = [pc EXCEPT ![p] = "delete"] /\ owner' = owner
      BY <1>8 DEF RTrainingEnds, TrainingEnds
    <3> QED
      BY <1>0, <3>1, <3>2
  <2> QED
    BY <2>1, <2>2 DEF Acting
<1>9. ASSUME NEW p \in Procs, CanRun(p), RDeletePod(p) PROVE Acting'
  BY <1>0, <1>9, DeleteFacts
<1>10. ASSUME NEW p \in Procs, CanRun(p), RRelease(p) PROVE Acting'
  BY <1>0, <1>10 DEF RRelease, Release
<1>11. ASSUME NEW p \in Procs, CanRun(p), StopTask(p),
             UNCHANGED <<fileVars, processVars, historyVars>>
      PROVE  Acting'
  BY <1>0, <1>11 DEF StopTask
<1>12. ASSUME NEW p \in Procs, CanRun(p), Restart(p),
             UNCHANGED <<fileVars, processVars, historyVars>>
      PROVE  Acting'
  BY <1>0, <1>12 DEF Restart
<1>13. ASSUME NEW p \in Procs, CanRun(p), Claim(p),
             UNCHANGED <<fileVars, processVars, historyVars>>
      PROVE  Acting'
  BY <1>0, <1>13 DEF Claim
<1>14. ASSUME NEW p \in Procs, CanRun(p), CreatePod(p),
             UNCHANGED <<fileVars, processVars, historyVars>>
      PROVE  Acting'
  BY <1>0, <1>14, RunFacts DEF CreatePod
<1>15. ASSUME NEW p \in Procs, Ends(p),
             UNCHANGED <<scheduleMap, ips, randomName, drawn, command, pool, pods, disputed>>,
             UNCHANGED <<fileVars, processVars, historyVars>>
      PROVE  Acting'
  BY <1>0, <1>15 DEF Ends
<1>16. ASSUME NEW p \in Procs, GoesOn(p),
             UNCHANGED <<scheduleMap, ips, randomName, drawn, command, pool, pods, disputed>>,
             UNCHANGED <<fileVars, processVars, historyVars>>
      PROVE  Acting'
  BY <1>0, <1>16 DEF GoesOn
<1>17. CASE RCluster
  <2>1. /\ UNCHANGED <<scheduleMap, ips, randomName, drawn, command, pool, disputed, pc, localVars>>
        /\ \A e \in pods' : \E d \in pods : SamePod(e, d)
        /\ \A d \in pods : \E e \in pods' : SamePod(e, d)
        /\ UNCHANGED <<fileVars, processVars, historyVars>>
    BY <1>0, <1>17, ClusterFacts
  <2> QED
    BY <1>0, <1>17, <2>1 DEF SamePod
<1>18. ASSUME NEW t \in Tasks, RemoveEntry(t) PROVE Acting'
  BY <1>0, <1>18 DEF RemoveEntry, vars
<1>19. ASSUME NEW t \in Tasks, Connect(t) PROVE Acting'
  <2>1. Joins(t)
    BY <1>0, <1>19, ConnectFacts
  <2> QED
    BY <1>0, <1>19, <2>1 DEF Connect, Joins
<1>20. CASE Reboot
  BY <1>0, <1>20 DEF Reboot
<1>21. ASSUME NEW p \in Procs, Quiet(p), UNCHANGED <<fileVars, processVars, historyVars>>
      PROVE  Acting'
  BY <1>0, <1>15, <1>16, <1>21, QuietFacts
<1> HIDE DEF Acting, IdleFree, Solo, RequestFits, RecoveredFits, Unconnected, Fresh,
   Dispatches, Creating, GoTo, Exit, headVars, localVars, fileVars, processVars, historyVars
<1> QED
  BY <1>1, <1>2, <1>3, <1>4, <1>5, <1>6, <1>7, <1>8, <1>9, <1>10, <1>11, <1>12, <1>13,
     <1>14, <1>17, <1>18, <1>19, <1>20, <1>21
  DEF RNext, RWork, WithoutFiles, Quiet
-----------------------------------------------------------------------------
(* Under which names *)

\* No name is drawn twice, through any restart.
NamesDrawn ==
  /\ \A t \in Tasks : randomName[t] <= drawn[t] /\ created[t] <= drawn[t]
  /\ \A d \in pods : d.name > 0 /\ d.name <= drawn[d.task] /\ d.idx < NodeNum[d.task]
  /\ \A t \in DOMAIN updateFile : updateFile[t].name <= drawn[t]

CreatorNamed ==
  \A p \in Procs : Creating(p) =>
    /\ name[p] = randomName[owner[p]]
    /\ name[p] > 0 /\ name[p] # created[owner[p]]
    /\ pc[p] # "complete" => idx[p] < NodeNum[owner[p]]

\* The creation that is about to be written to .ippool is the last one.
PopNamed == \A p \in Procs : pc[p] = "pop" => created[owner[p]] = randomName[owner[p]]

\* Who watches a log knows a name that was drawn; its pods are those that the task
\* knows, and none of a creation that runs.
MonitorNamed ==
  \A p \in Procs : pc[p] = "monitor" =>
    /\ name[p] <= drawn[owner[p]]
    /\ \A d \in pods : d.task = owner[p] /\ d.name = name[p] => d.name = randomName[d.task]
    /\ scheduleMap[owner[p]] = "CREATING" => name[p] # randomName[owner[p]]

\* A task that may be created, or forgets its addresses, has no pods it knows.
KnowsNone ==
  /\ \A t \in Tasks : Fresh(t) => ~HasPods(t)
  /\ \A p \in Procs : Dispatches(p, "RESTART") => ~HasPods(owner[p])
  /\ \A p \in Procs : Dispatches(p, "STOP") \/ pc[p] = "stop" => ~Fresh(owner[p])

\* A delete leaves no pod behind that its task knows, unless it fails.
DeleteReaches ==
  \A p \in Procs :
    /\ pc[p] \in {"idle", "dispatch", "stop"} => idx[p] = 0
    /\ pc[p] = "delete" =>
         /\ scheduleMap[owner[p]] # "CREATING"
         /\ \/ Spoiled(owner[p])
            \/ \A d \in pods : d.task = owner[p] /\ d.name = randomName[d.task]
                               => d.idx >= idx[p]

\* A remover runs for a task whose pods are gone, unless a delete has failed, and a
\* delete that has counted all the pods has started it; only a pod that is left
\* over can have the entry written again.
RemoverFits ==
  /\ \A t \in removing : \A p \in Procs : owner[p] = t => pc[p] \in {"monitor", "delete"}
  /\ \A t \in removing :
       \/ Spoiled(t)
       \/ /\ ~HasPods(t)
          /\ \A p \in Procs : owner[p] = t /\ pc[p] = "delete" => idx[p] >= NodeNum[t]
  /\ \A p \in Procs : pc[p] = "delete" /\ idx[p] >= NodeNum[owner[p]] =>
       owner[p] \in removing \/ owner[p] \notin DOMAIN updateFile \/ HasPods(owner[p])

\* An entry that is not complete names no pods, now or later.
IncompleteNameless ==
  \A t \in DOMAIN updateFile : ~updateFile[t].complete =>
    /\ \A d \in pods : d.task = t => d.name # updateFile[t].name
    /\ updateFile[t].name = randomName[t] => scheduleMap[t] # "CREATING"

Naming ==
  /\ NamesDrawn /\ CreatorNamed /\ PopNamed /\ MonitorNamed /\ KnowsNone
  /\ DeleteReaches /\ RemoverFits /\ IncompleteNameless

\* No step makes a name known to a task that its pods, its entry and its goroutines do not share.
LEMMA NamingStep ==
  ASSUME Calm, RTypeOK, Steady, Naming, [RNext]_rvars
  PROVE  Naming'
<1>0. /\ scheduleMap \in [Tasks -> Schedules] /\ randomName \in [Tasks -> Nat]
      /\ drawn \in [Tasks -> Nat] /\ created \in [Tasks -> Nat]
      /\ command \in [Tasks -> Commands] /\ pods \in SUBSET Pods
      /\ \A d \in pods : /\ d.task \in Tasks /\ d.name \in Nat /\ d.idx \in Nat
                         /\ NodeNum[d.task] \in Nat
      /\ pc \in [Procs -> Labels] /\ owner \in [Procs -> Tasks \cup {NoTask}]
      /\ \A p \in Procs : pc[p] # "idle" => owner[p] \in Tasks
      /\ name \in [Procs -> Nat] /\ idx \in [Procs -> Nat]
      /\ NodeNum \in [Tasks -> Nat \ {0}]
      /\ connected \in SUBSET Tasks /\ removing \in SUBSET Tasks /\ recovered \in SUBSET Tasks
      /\ DOMAIN updateFile \subseteq Tasks
      /\ \A t \in DOMAIN updateFile : updateFile[t].name \in Nat /\ updateFile[t].complete \in BOOLEAN
      /\ NoTask \notin Tasks /\ TypeOK /\ MemoryFits /\ Acting /\ Naming
  BY SchedulerAssumption DEF RTypeOK, TypeOK, Pods, IsUpdateMap, Entries, Steady
<1> USE DEF Naming, NamesDrawn, CreatorNamed, PopNamed, MonitorNamed, KnowsNone,
   DeleteReaches, RemoverFits, IncompleteNameless, HasPods, Spoiled, Acting, IdleFree, Solo, RequestFits,
   RecoveredFits, Unconnected, Fresh, Dispatches, Creating, GoTo, Exit, headVars, localVars,
   fileVars, processVars, historyVars
<1>1. CASE UNCHANGED rvars
  BY <1>0, <1>1 DEF rvars, vars
<1>2. ASSUME NEW p \in Procs, NEW t \in Tasks, NEW c \in Commands, RReceive(p, t, c)
      PROVE  Naming'
  <2>1. /\ Asks(p, t, c) /\ GoTo(p, "dispatch")
        /\ owner' = [owner EXCEPT ![p] = t] /\ command' = [command EXCEPT ![t] = c]
        /\ recovered' \subseteq recovered /\ recovered \ {t} \subseteq recovered'
        /\ IF c = "RESTART" THEN t \notin recovered' ELSE recovered' = recovered
        /\ UNCHANGED <<scheduleMap, ips, randomName, drawn, pool, pods, disputed, name, idx, ip>>
        /\ UNCHANGED <<fileVars, connected, historyVars>>
    BY <1>2, ReceiveFacts
  <2>2. /\ \A q \in Procs : q # p => pc'[q] = pc[q] /\ owner'[q] = owner[q]
        /\ \A q \in Procs : q # p /\ pc[q] = "dispatch" =>
             command'[owner[q]] = command[owner[q]] /\ owner[q] # t
        /\ pc'[p] = "dispatch" /\ owner'[p] = t /\ command'[t] = c
        /\ \A q \in Procs : owner[q] = t => pc[q] = "monitor"
    BY <1>0, <2>1 DEF Asks, Settled
  <2>3. /\ NamesDrawn' /\ CreatorNamed' /\ PopNamed' /\ MonitorNamed' /\ KnowsNone' /\ DeleteReaches'
        /\ RemoverFits' /\ IncompleteNameless'
    BY <1>0, <2>1, <2>2 DEF Asks
  <2> QED
    BY <2>3 DEF Naming
<1>3. ASSUME NEW p \in Procs, CanRun(p), RStart(p) PROVE Naming'
  <2>1. owner[p] \in Tasks /\ owner[p] \in connected
    BY <1>0, <1>3 DEF Unconnected, RStart, Start
  <2>2. Written(owner[p], FALSE) \/ Unreached(owner[p])
    BY <1>0, <1>3, <2>1, RecordFacts DEF RStart
  <2>3. NamesDrawn' /\ CreatorNamed' /\ PopNamed' /\ MonitorNamed' /\ KnowsNone'
    BY <1>0, <1>3, <2>1, <2>2 DEF RStart, Start, Written, Unreached
  <2>6. DeleteReaches'
    <3>1. UNCHANGED <<scheduleMap, ips, disputed, pods, randomName, owner, idx>> /\ GoTo(p, "poll")
      BY <1>3 DEF RStart, Start
    <3> QED
      BY <1>0, <3>1
  <2>4. RemoverFits'
    <3>1. owner[p] \notin removing
      BY <1>0, <1>3 DEF RStart, Start
    <3>2. \A q \in Procs : q # p /\ owner[q] = owner[p] => pc[q] \in {"idle", "monitor"}
      BY <1>0, <1>3 DEF RStart, Start
    <3>3. DOMAIN updateFile' \subseteq DOMAIN updateFile \cup {owner[p]}
      BY <2>2 DEF Written, Unreached
    <3>4. UNCHANGED <<removing, ips, disputed, pods, randomName, owner, idx>> /\ GoTo(p, "poll")
      BY <1>3 DEF RStart, Start
    <3> QED
      BY <1>0, <3>1, <3>2, <3>3, <3>4
  <2>5. IncompleteNameless'
    <3>1. UNCHANGED <<scheduleMap, pods, randomName>> /\ Fresh(owner[p])
      BY <1>0, <1>3 DEF RStart, Start
    <3>2. \A d \in pods : d.task = owner[p] => d.name # randomName[owner[p]]
      BY <1>0, <3>1, <2>1
    <3>3. CASE Unreached(owner[p])
      BY <1>0, <3>1, <3>3 DEF Unreached
    <3>4. CASE Written(owner[p], FALSE)
      BY <1>0, <2>1, <3>1, <3>2, <3>4 DEF Written
    <3> QED
      BY <3>3, <3>4, <2>2
  <2> QED
    BY <2>3, <2>4, <2>5, <2>6 DEF Naming
<1>4. ASSUME NEW p \in Procs, CanRun(p), RStop(p) PROVE Naming'
  <2>1. owner[p] \in Tasks /\ owner[p] \in connected
    BY <1>0, <1>4 DEF Unconnected, RStop, Stop
  <2>2. Written(owner[p], TRUE) \/ Unreached(owner[p])
    BY <1>0, <1>4, <2>1, RecordFacts DEF RStop
  <2>3. /\ UNCHANGED <<scheduleMap, ips, disputed, pods, randomName, drawn, created, command>>
        /\ UNCHANGED <<recovered, removing, owner, name, idx>>
        /\ GoTo(p, "stop") /\ Dispatches(p, "STOP")
    BY <1>4 DEF RStop, Stop
  <2>4. CreatorNamed' /\ PopNamed' /\ MonitorNamed'
    BY <1>0, <2>1, <2>3
  <2>8. NamesDrawn'
    <3>1. \A t \in DOMAIN updateFile' : updateFile'[t].name <= drawn[t]
      BY <1>0, <2>1, <2>2, <2>3 DEF Written, Unreached
    <3> QED
      BY <1>0, <2>3, <3>1
  <2>5. KnowsNone' /\ DeleteReaches'
    BY <1>0, <2>1, <2>3
  <2>6. RemoverFits'
    <3>1. owner[p] \notin removing
      BY <1>0, <2>1, <2>3
    <3>2. \A q \in Procs : q # p /\ owner[q] = owner[p] => pc[q] \in {"idle", "monitor"}
      BY <1>0, <2>3
    <3>3. DOMAIN updateFile' \subseteq DOMAIN updateFile \cup {owner[p]}
      BY <2>2 DEF Written, Unreached
    <3> QED
      BY <1>0, <2>3, <3>1, <3>2, <3>3
  <2>7. IncompleteNameless'
    <3>1. \A t \in DOMAIN updateFile' : ~updateFile'[t].complete =>
            t \in DOMAIN updateFile /\ updateFile'[t] = updateFile[t]
      BY <2>2 DEF Written, Unreached
    <3> QED
      BY <1>0, <2>3, <3>1
  <2> QED
    BY <2>4, <2>5, <2>6, <2>7, <2>8 DEF Naming
<1>5. ASSUME NEW p \in Procs, CanRun(p), RComplete(p) PROVE Naming'
  <2>1. owner[p] \in Tasks /\ owner[p] \in connected
    BY <1>0, <1>5 DEF Unconnected, RComplete, Complete
  <2>2. Written(owner[p], TRUE) \/ Unreached(owner[p])
    BY <1>0, <1>5, <2>1, RecordFacts DEF RComplete
  <2> QED
    BY <1>0, <1>5, <2>1, <2>2 DEF RComplete, Complete, Written, Unreached
<1>6. ASSUME NEW p \in Procs, CanRun(p), RPop(p) PROVE Naming'
  <2>1. /\ UNCHANGED <<scheduleMap, ips, disputed, pods, randomName, drawn, created, command>>
        /\ UNCHANGED <<updateFile, recovered, removing, owner, idx>>
        /\ GoTo(p, "monitor") /\ pc[p] = "pop"
        /\ name' = [name EXCEPT ![p] = randomName[owner[p]]]
    BY <1>6 DEF RPop, Pop
  <2>2. NamesDrawn' /\ CreatorNamed' /\ PopNamed' /\ MonitorNamed'
    BY <1>0, <2>1
  <2>3. KnowsNone' /\ DeleteReaches' /\ RemoverFits' /\ IncompleteNameless'
    BY <1>0, <2>1
  <2> QED
    BY <2>2, <2>3 DEF Naming
<1>7. ASSUME NEW p \in Procs, CanRun(p), LogStarts(p) PROVE Naming'
  <2>1. owner[p] \in Tasks /\ owner[p] \in connected
    BY <1>0, <1>7, WatchFacts DEF Unconnected, LogStarts
  <2>2. Written(owner[p], TRUE) \/ Unreached(owner[p])
    BY <1>0, <1>7, <2>1, RecordFacts DEF LogStarts
  <2>3. /\ NamesDrawn' /\ CreatorNamed' /\ PopNamed' /\ MonitorNamed' /\ KnowsNone' /\ DeleteReaches'
        /\ IncompleteNameless'
    BY <1>0, <1>7, WatchFacts, <2>1, <2>2 DEF LogStarts, Written, Unreached
  <2>4. RemoverFits'
    <3>1. PICK d \in pods : d.task = owner[p] /\ d.name = randomName[owner[p]]
      BY <1>0, <1>7, WatchFacts
    <3>2. HasPods(owner[p])
      BY <2>1, <3>1
    <3>3. DOMAIN updateFile' \subseteq DOMAIN updateFile \cup {owner[p]}
      BY <2>2 DEF Written, Unreached
    <3>4. UNCHANGED <<removing, ips, disputed, pods, randomName, owner, idx, pc>>
      BY <1>7 DEF LogStarts
    <3>5. \A t \in Tasks : (HasPods(t)' <=> HasPods(t)) /\ (Spoiled(t)' <=> Spoiled(t))
      BY <3>4
    <3> HIDE DEF HasPods, Spoiled
    <3> QED
      BY <1>0, <2>1, <3>2, <3>3, <3>4, <3>5
  <2> QED
    BY <2>3, <2>4 DEF Naming
<1>8. ASSUME NEW p \in Procs, CanRun(p), RTrainingEnds(p) PROVE Naming'
  <2>1. owner[p] \in Tasks /\ owner[p] \in connected
    BY <1>0, <1>8, WatchFacts DEF Unconnected, RTrainingEnds, TrainingEnds, Settled
  <2>2. Written(owner[p], TRUE) \/ Unreached(owner[p])
    BY <1>0, <1>8, <2>1, RecordFacts DEF RTrainingEnds
  <2>3. NamesDrawn' /\ PopNamed'
    BY <1>0, <1>8, WatchFacts, <2>1, <2>2 DEF RTrainingEnds, TrainingEnds, Settled, Written,
       Unreached
  <2>4. CreatorNamed'
    BY <1>0, <1>8, WatchFacts, <2>1, <2>2 DEF RTrainingEnds, TrainingEnds, Settled, Written,
       Unreached
  <2>5. MonitorNamed'
    BY <1>0, <1>8, WatchFacts, <2>1, <2>2 DEF RTrainingEnds, TrainingEnds, Settled, Written,
       Unreached
  <2>6. KnowsNone'
    BY <1>0, <1>8, WatchFacts, <2>1, <2>2 DEF RTrainingEnds, TrainingEnds, Settled, Written,
       Unreached
  <2>7. IncompleteNameless'
    BY <1>0, <1>8, WatchFacts, <2>1, <2>2 DEF RTrainingEnds, TrainingEnds, Settled, Written,
       Unreached
  <2>8. DeleteReaches'
    <3>1. scheduleMap[owner[p]] # "CREATING"
      BY <1>0, <1>8, WatchFacts
    <3>2. /\ UNCHANGED <<scheduleMap, ips, pods, randomName, owner>>
          /\ GoTo(p, "delete") /\ idx' = [idx EXCEPT ![p] = 0]
          /\ disputed \subseteq disputed'
      BY <1>8, WatchFacts DEF RTrainingEnds, TrainingEnds
    <3> QED
      BY <1>0, <3>1, <3>2
  <2>9. RemoverFits'
    <3>1. PICK d \in pods : d.task = owner[p] /\ d.name = randomName[owner[p]]
      BY <1>0, <1>8, WatchFacts
    <3>2. HasPods(owner[p])
      BY <2>1, <3>1
    <3>3. DOMAIN updateFile' \subseteq DOMAIN updateFile \cup {owner[p]}
      BY <2>2 DEF Written, Unreached
    <3>4. /\ UNCHANGED <<removing, ips, pods, randomName, owner>>
          /\ GoTo(p, "delete") /\ idx' = [idx EXCEPT ![p] = 0]
          /\ disputed \subseteq disputed'
      BY <1>8, WatchFacts DEF RTrainingEnds, TrainingEnds
    <3>5. \A t \in Tasks : (HasPods(t)' <=> HasPods(t)) /\ (Spoiled(t) => Spoiled(t)')
      BY <3>4
    <3>6. NodeNum[owner[p]] \in Nat \ {0}
      BY <1>0, <2>1
    <3> HIDE DEF HasPods, Spoiled
    <3> QED
      BY <1>0, <2>1, <3>2, <3>3, <3>4, <3>5, <3>6
  <2> QED
    BY <2>3, <2>4, <2>5, <2>6, <2>7, <2>8, <2>9 DEF Naming
<1>9. ASSUME NEW p \in Procs, CanRun(p), RDeletePod(p) PROVE Naming'
  <2>0. PICK t \in Tasks : t = owner[p]
    BY <1>0, <1>9, DeleteFacts
  <2>1. /\ pc[p] = "delete" /\ idx[p] < NodeNum[t]
        /\ idx[p] \in Nat /\ NodeNum[t] \in Nat
        /\ idx' = [idx EXCEPT ![p] = idx[p] + 1]
        /\ removing' = IF idx[p] + 1 = NodeNum[t] THEN removing \cup {t} ELSE removing
        /\ UNCHANGED <<scheduleMap, ips, randomName, drawn, command, pc, owner, name>>
        /\ UNCHANGED <<updateFile, processVars, historyVars>>
    BY <1>0, <1>9, <2>0, DeleteFacts
  <2>2. \/ /\ pods' = {d \in pods : ~(d.task = t /\ d.name = randomName[t] /\ d.idx = idx[p])}
           /\ UNCHANGED disputed
        \/ /\ UNCHANGED pods
           /\ disputed \subseteq disputed' /\ Spoiled(t)'
    BY <1>0, <1>9, <2>0, DeleteFacts
  <2>3. /\ pods' \subseteq pods /\ disputed \subseteq disputed'
        /\ \A q \in Procs : q # p /\ owner[q] = t => pc[q] \in {"idle", "monitor"}
        /\ \A u \in Tasks : u # t => (HasPods(u)' <=> HasPods(u))
    BY <1>0, <2>0, <2>1, <2>2
  <2>4. NamesDrawn' /\ CreatorNamed' /\ PopNamed'
    BY <1>0, <2>0, <2>1, <2>3
  <2>5. MonitorNamed' /\ KnowsNone' /\ IncompleteNameless'
    BY <1>0, <2>0, <2>1, <2>3
  <2>6. Spoiled(t) => Spoiled(t)'
    BY <2>1, <2>3
  <2>7. \/ Spoiled(t)'
        \/ \A d \in pods' : d.task = t /\ d.name = randomName[d.task] => d.idx >= idx[p] + 1
    <3> SUFFICES ASSUME ~Spoiled(t)', NEW d \in pods', d.task = t, d.name = randomName[d.task]
                 PROVE  d.idx >= idx[p] + 1
      OBVIOUS
    <3>1. d \in pods /\ d.idx # idx[p] /\ d.idx >= idx[p] /\ d.idx \in Nat
      BY <1>0, <2>0, <2>1, <2>2, <2>6
    <3> QED
      BY <2>1, <3>1
  <2>8. DeleteReaches'
    BY <1>0, <2>0, <2>1, <2>3, <2>7
  <2>9. RemoverFits'
    <3>1. CASE idx[p] + 1 = NodeNum[t]
      <4>1. Spoiled(t)' \/ ~HasPods(t)'
        <5> SUFFICES ASSUME ~Spoiled(t)', NEW d \in pods', d.task = t, d.name = randomName'[t]
                     PROVE  FALSE
          BY DEF HasPods
        <5>1. d.idx >= NodeNum[t] /\ d \in pods /\ randomName' = randomName
          BY <2>1, <2>3, <2>7, <3>1
        <5>2. d.idx < NodeNum[t] /\ d.idx \in Nat
          BY <1>0, <5>1
        <5> QED
          BY <2>1, <5>1, <5>2
      <4>2. idx'[p] >= NodeNum[t] /\ t \in removing' /\ removing \subseteq removing'
        BY <1>0, <2>1, <3>1
      <4>3. \A u \in Tasks : Spoiled(u) => Spoiled(u)'
        BY <2>1, <2>3
      <4> HIDE DEF HasPods, Spoiled
      <4> QED
        BY <1>0, <2>0, <2>1, <2>3, <3>1, <4>1, <4>2, <4>3
    <3>2. CASE idx[p] + 1 < NodeNum[t]
      BY <1>0, <2>0, <2>1, <2>3, <2>6, <3>2
    <3> QED
      BY <2>1, <3>1, <3>2
  <2> QED
    BY <2>4, <2>5, <2>8, <2>9 DEF Naming
<1>10. ASSUME NEW p \in Procs, CanRun(p), RRelease(p) PROVE Naming'
  <2>1. /\ UNCHANGED <<scheduleMap, ips, randomName, drawn, command, pods, disputed, created>>
        /\ UNCHANGED <<updateFile, recovered, removing>> /\ pc[p] = "delete" /\ Exit(p)
    BY <1>10 DEF RRelease, Release
  <2>2. NamesDrawn' /\ CreatorNamed' /\ PopNamed'
    BY <1>0, <2>1
  <2>3. MonitorNamed' /\ KnowsNone'
    BY <1>0, <2>1
  <2>4. DeleteReaches'
    BY <1>0, <2>1
  <2>5. RemoverFits'
    <3>1. \A u \in Tasks : (HasPods(u)' <=> HasPods(u)) /\ (Spoiled(u)' <=> Spoiled(u))
      BY <2>1
    <3>2. \A q \in Procs : pc'[q] = "idle" \/ (pc'[q] = pc[q] /\ owner'[q] = owner[q] /\ idx'[q] = idx[q])
      BY <1>0, <2>1
    <3>3. \A q \in Procs : pc'[q] = "idle" => owner'[q] = NoTask
      BY <1>0, <2>1
    <3> HIDE DEF HasPods, Spoiled
    <3> QED
      BY <1>0, <2>1, <3>1, <3>2, <3>3
  <2>6. IncompleteNameless'
    BY <1>0, <2>1
  <2> QED
    BY <2>2, <2>3, <2>4, <2>5, <2>6 DEF Naming
<1>11. ASSUME NEW p \in Procs, CanRun(p), StopTask(p),
             UNCHANGED <<fileVars, processVars, historyVars>>
      PROVE  Naming'
  BY <1>0, <1>11 DEF StopTask
<1>12. ASSUME NEW p \in Procs, CanRun(p), Restart(p),
             UNCHANGED <<fileVars, processVars, historyVars>>
      PROVE  Naming'
  <2>0. PICK t \in Tasks : t = owner[p]
    BY <1>0, <1>12 DEF Restart
  <2>1. /\ Dispatches(p, "RESTART") /\ GoTo(p, "delete")
        /\ scheduleMap' = [scheduleMap EXCEPT ![t] = "BEFORECREATE"]
        /\ ips' = [ips EXCEPT ![t] = {}]
        /\ UNCHANGED <<randomName, drawn, command, pods, disputed, owner, name, idx>>
        /\ UNCHANGED <<fileVars, processVars, historyVars>>
    BY <2>0, <1>12 DEF Restart
  <2>2. /\ \A q \in Procs : q # p /\ owner[q] = t => pc[q] \in {"idle", "monitor"}
        /\ ~HasPods(t) /\ t \notin removing /\ idx[p] = 0
    BY <1>0, <2>0, <2>1
  <2>3. NamesDrawn' /\ CreatorNamed' /\ PopNamed'
    BY <1>0, <2>0, <2>1, <2>2
  <2>4. MonitorNamed' /\ KnowsNone'
    BY <1>0, <2>0, <2>1, <2>2
  <2>5. DeleteReaches'
    BY <1>0, <2>0, <2>1, <2>2
  <2>6. RemoverFits'
    <3>1. \A u \in Tasks : u # t => (Spoiled(u)' <=> Spoiled(u))
      BY <1>0, <2>1
    <3>2. \A u \in Tasks : HasPods(u)' <=> HasPods(u)
      BY <2>1
    <3>3. NodeNum[t] \in Nat \ {0}
      BY <1>0
    <3> HIDE DEF HasPods, Spoiled
    <3> QED
      BY <1>0, <2>0, <2>1, <2>2, <3>1, <3>2, <3>3
  <2>7. IncompleteNameless'
    BY <1>0, <2>1
  <2> QED
    BY <2>3, <2>4, <2>5, <2>6, <2>7 DEF Naming
<1>13. ASSUME NEW p \in Procs, CanRun(p), Claim(p),
             UNCHANGED <<fileVars, processVars, historyVars>>
      PROVE  Naming'
  <2>0. PICK t \in Tasks : t = owner[p]
    BY <1>0, <1>13 DEF Claim
  <2>1. /\ pc[p] = "claim" /\ GoTo(p, "assign") /\ drawn[t] \in Nat /\ NodeNum[t] > 0
        /\ scheduleMap' = [scheduleMap EXCEPT ![t] = "CREATING"]
        /\ drawn' = [drawn EXCEPT ![t] = drawn[t] + 1]
        /\ randomName' = [randomName EXCEPT ![t] = drawn[t] + 1]
        /\ name' = [name EXCEPT ![p] = drawn[t] + 1] /\ idx' = [idx EXCEPT ![p] = 0]
        /\ UNCHANGED <<ips, disputed, command, pods, owner>>
        /\ UNCHANGED <<fileVars, processVars, historyVars>>
    BY <1>0, <2>0, <1>13 DEF Claim
  <2>2. /\ t \notin removing /\ Fresh(t)
        /\ \A q \in Procs : q # p /\ owner[q] = t => pc[q] \in {"idle", "monitor"}
        /\ \A d \in pods : d.task = t => d.name # drawn[t] + 1
    BY <1>0, <2>0, <2>1
  <2>3. NamesDrawn' /\ CreatorNamed' /\ PopNamed'
    BY <1>0, <2>0, <2>1, <2>2
  <2>4. MonitorNamed' /\ KnowsNone'
    BY <1>0, <2>0, <2>1, <2>2
  <2>5. DeleteReaches' /\ RemoverFits'
    BY <1>0, <2>0, <2>1, <2>2
  <2>6. IncompleteNameless'
    BY <1>0, <2>0, <2>1, <2>2
  <2> QED
    BY <2>3, <2>4, <2>5, <2>6 DEF Naming
<1>14. ASSUME NEW p \in Procs, CanRun(p), CreatePod(p),
             UNCHANGED <<fileVars, processVars, historyVars>>
      PROVE  Naming'
  BY <1>0, <1>14, RunFacts DEF CreatePod
<1>15. ASSUME NEW p \in Procs, Ends(p),
             UNCHANGED <<scheduleMap, ips, randomName, drawn, command, pool, pods, disputed>>,
             UNCHANGED <<fileVars, processVars, historyVars>>
      PROVE  Naming'
  BY <1>0, <1>15 DEF Ends
<1>16. ASSUME NEW p \in Procs, GoesOn(p),
             UNCHANGED <<scheduleMap, ips, randomName, drawn, command, pool, pods, disputed>>,
             UNCHANGED <<fileVars, processVars, historyVars>>
      PROVE  Naming'
  <2>1. NamesDrawn' /\ PopNamed'
    BY <1>0, <1>16 DEF GoesOn
  <2>2. CreatorNamed'
    BY <1>0, <1>16 DEF GoesOn
  <2>3. MonitorNamed'
    BY <1>0, <1>16 DEF GoesOn
  <2>4. KnowsNone'
    BY <1>0, <1>16 DEF GoesOn
  <2>5. DeleteReaches'
    BY <1>0, <1>16 DEF GoesOn
  <2>6. RemoverFits'
    BY <1>0, <1>16 DEF GoesOn
  <2>7. IncompleteNameless'
    BY <1>0, <1>16 DEF GoesOn
  <2> QED
    BY <2>1, <2>2, <2>3, <2>4, <2>5, <2>6, <2>7 DEF Naming
<1>17. CASE RCluster
  <2>1. /\ UNCHANGED <<scheduleMap, ips, randomName, drawn, command, pool, disputed, pc, localVars>>
        /\ \A e \in pods' : \E d \in pods : SamePod(e, d)
        /\ \A d \in pods : \E e \in pods' : SamePod(e, d)
        /\ UNCHANGED <<fileVars, processVars, historyVars>>
    BY <1>0, <1>17, ClusterFacts
  <2>2. NamesDrawn' /\ PopNamed'
    BY <1>0, <1>17, <2>1 DEF SamePod
  <2>3. CreatorNamed'
    BY <1>0, <1>17, <2>1 DEF SamePod
  <2>4. MonitorNamed'
    BY <1>0, <1>17, <2>1 DEF SamePod
  <2>5. KnowsNone'
    BY <1>0, <1>17, <2>1 DEF SamePod
  <2>6. DeleteReaches'
    BY <1>0, <1>17, <2>1 DEF SamePod
  <2>7. RemoverFits'
    BY <1>0, <1>17, <2>1 DEF SamePod
  <2>8. IncompleteNameless'
    BY <1>0, <1>17, <2>1 DEF SamePod
  <2> QED
    BY <2>2, <2>3, <2>4, <2>5, <2>6, <2>7, <2>8 DEF Naming
<1>18. ASSUME NEW t \in Tasks, RemoveEntry(t) PROVE Naming'
  <2>1. t \in connected /\ RemoveEntry(t) /\ MemoryFits
    BY <1>0, <1>18 DEF RemoveEntry, Unconnected
  <2>2. /\ DOMAIN updateFile' = DOMAIN updateFile \ {t}
        /\ \A u \in DOMAIN updateFile : u # t => updateFile'[u] = updateFile[u]
    BY <2>1, RemoveFacts
  <2>3. NamesDrawn' /\ PopNamed'
    <3>1. UNCHANGED <<randomName, drawn, created, pods, pc, owner>>
      BY <1>18 DEF RemoveEntry, vars
    <3> QED
      BY <1>0, <2>2, <3>1
  <2>4. CreatorNamed'
    BY <1>0, <1>18, <2>1, <2>2 DEF RemoveEntry, vars
  <2>5. MonitorNamed'
    BY <1>0, <1>18, <2>1, <2>2 DEF RemoveEntry, vars
  <2>6. KnowsNone'
    BY <1>0, <1>18, <2>1, <2>2 DEF RemoveEntry, vars
  <2>10. UNCHANGED <<scheduleMap, ips, disputed, pods, randomName, owner, idx, pc>>
         /\ removing' = removing \ {t}
    BY <1>18 DEF RemoveEntry, vars
  <2>7. DeleteReaches'
    BY <1>0, <2>10
  <2>8. RemoverFits'
    <3>1. \A u \in Tasks : (HasPods(u)' <=> HasPods(u)) /\ (Spoiled(u)' <=> Spoiled(u))
      BY <2>10
    <3> HIDE DEF HasPods, Spoiled
    <3> QED
      BY <1>0, <2>2, <2>10, <3>1
  <2>9. IncompleteNameless'
    <3>1. UNCHANGED <<scheduleMap, pods, randomName>>
      BY <1>18 DEF RemoveEntry, vars
    <3> QED
      BY <1>0, <2>2, <3>1
  <2> QED
    BY <2>3, <2>4, <2>5, <2>6, <2>7, <2>8, <2>9 DEF Naming
<1>19. ASSUME NEW t \in Tasks, Connect(t) PROVE Naming'
  <2>1. Joins(t)
    BY <1>0, <1>19, ConnectFacts
  <2>2. NamesDrawn' /\ PopNamed'
    BY <1>0, <1>19, <2>1 DEF Connect, Joins
  <2>3. CreatorNamed'
    BY <1>0, <1>19, <2>1 DEF Connect, Joins
  <2>4. MonitorNamed'
    BY <1>0, <1>19, <2>1 DEF Connect, Joins
  <2>5. KnowsNone'
    BY <1>0, <1>19, <2>1 DEF Connect, Joins
  <2>6. /\ t \in Tasks \ connected
        /\ UNCHANGED <<scheduleMap, disputed, removing, pods, idx, updateFile>>
        /\ \A u \in Tasks : u # t => randomName'[u] = randomName[u] /\ ips'[u] = ips[u]
    <3>1. /\ t \in Tasks \ connected
          /\ UNCHANGED <<scheduleMap, disputed, removing, pods, idx, updateFile>>
      BY <1>19 DEF Connect
    <3>2. randomName \in [Tasks -> Nat] /\ ips \in [Tasks -> SUBSET Addresses]
      BY DEF RTypeOK, TypeOK
    <3>3. \A u \in Tasks : u # t => randomName'[u] = randomName[u] /\ ips'[u] = ips[u]
      BY <2>1, <3>2 DEF Joins
    <3> QED
      BY <3>1, <3>3
  <2>7. \A q \in Procs : \/ pc'[q] = pc[q] /\ owner'[q] = owner[q]
                         \/ pc'[q] = "monitor" /\ owner'[q] = t
    BY <1>0, <2>1 DEF Joins
  <2>8. DeleteReaches'
    BY <1>0, <2>6, <2>7
  <2>9. IncompleteNameless'
    <3>1. \/ UNCHANGED randomName
          \/ t \in DOMAIN updateFile /\ randomName' = [randomName EXCEPT ![t] = updateFile[t].name]
      BY <2>1 DEF Joins
    <3>2. scheduleMap[t] # "CREATING"
      BY <1>0, <2>6
    <3> QED
      BY <1>0, <2>6, <3>1, <3>2
  <2>10. RemoverFits'
    <3>1. /\ \A u \in Tasks : u # t => (HasPods(u)' <=> HasPods(u)) /\ (Spoiled(u)' <=> Spoiled(u))
          /\ t \notin removing /\ \A q \in Procs : owner[q] # t
      BY <1>0, <2>6
    <3> HIDE DEF HasPods, Spoiled
    <3> QED
      BY <1>0, <2>6, <2>7, <3>1
  <2> QED
    BY <2>2, <2>3, <2>4, <2>5, <2>8, <2>9, <2>10 DEF Naming
<1>20. CASE Reboot
  BY <1>0, <1>20 DEF Reboot
<1>21. ASSUME NEW p \in Procs, Quiet(p), UNCHANGED <<fileVars, processVars, historyVars>>
      PROVE  Naming'
  BY <1>0, <1>15, <1>16, <1>21, QuietFacts
<1> HIDE DEF Naming, NamesDrawn, CreatorNamed, PopNamed, MonitorNamed, KnowsNone,
   DeleteReaches, RemoverFits, IncompleteNameless, HasPods, Spoiled, Acting, IdleFree, Solo, RequestFits,
   RecoveredFits, Unconnected, Fresh, Dispatches, Creating, GoTo, Exit, headVars, localVars,
   fileVars, processVars, historyVars
<1> QED
  BY <1>1, <1>2, <1>3, <1>4, <1>5, <1>6, <1>7, <1>8, <1>9, <1>10, <1>11, <1>12, <1>13,
     <1>14, <1>17, <1>18, <1>19, <1>20, <1>21
  DEF RNext, RWork, WithoutFiles, Quiet
-----------------------------------------------------------------------------
(* What is recorded of a task *)

\* The pods a task knows have addresses it has recorded.
CurrentRecorded == \A d \in pods : d.name = randomName[d.task] => d.ip \in ips[d.task]

\* A task that may be created has no addresses yet, or is about to lose them.
FreshEmpty ==
  \A t \in Tasks : Fresh(t) =>
    ips[t] = {} \/ \E p \in Procs : owner[p] = t /\ Dispatches(p, "RESTART")

IncompleteEmpty ==
  \A t \in DOMAIN updateFile : ~updateFile[t].complete => updateFile[t].ips = {}

\* A complete entry has the addresses of the pods it names, and says what its task
\* knows until that forgets its addresses.
CompleteRecorded ==
  \A t \in DOMAIN updateFile : updateFile[t].complete =>
    /\ \A d \in pods : d.task = t /\ d.name = updateFile[t].name => d.ip \in updateFile[t].ips
    /\ t \in connected => /\ updateFile[t].name = randomName[t]
                          /\ Fresh(t) \/ updateFile[t].ips = ips[t]

\* While a RESTART has its task deleted, and until the remover has run, the entry of the
\* last creation may be there; a new one starts without it.
Restarting(t) ==
  \/ t \in removing
  \/ \E p \in Procs : owner[p] = t /\ (Dispatches(p, "RESTART") \/ pc[p] = "delete")

EntryFresh ==
  /\ \A t \in connected \cap DOMAIN updateFile :
       Fresh(t) /\ updateFile[t].complete => Restarting(t)
  /\ \A p \in Procs : Creating(p) /\ owner[p] \in DOMAIN updateFile
       => ~updateFile[owner[p]].complete

Recorded ==
  /\ CurrentRecorded /\ FreshEmpty /\ IncompleteEmpty /\ CompleteRecorded
  /\ EntryFresh

\* A status of a task whose pods were created records what the task knows.
LEMMA WrittenComplete ==
  ASSUME CurrentRecorded, IncompleteEmpty, CompleteRecorded,
         NEW t \in Tasks, Written(t, TRUE) \/ Unreached(t),
         UNCHANGED <<randomName, ips, pods, connected>>,
         DOMAIN updateFile \subseteq Tasks, \A u \in Tasks : Fresh(u) => Fresh(u)'
  PROVE  IncompleteEmpty' /\ CompleteRecorded'
<1> HIDE DEF Fresh
<1>1. CASE Unreached(t)
  BY <1>1 DEF Unreached, IncompleteEmpty, CompleteRecorded
<1>2. CASE Written(t, TRUE)
  <2>1. IncompleteEmpty'
    BY <1>2 DEF Written, IncompleteEmpty
  <2>2. CompleteRecorded'
    BY <1>2 DEF Written, CompleteRecorded, CurrentRecorded
  <2> QED
    BY <2>1, <2>2
<1> QED
  BY <1>1, <1>2

\* No step leaves an entry that says less than its task has, or more.
LEMMA RecordedStep ==
  ASSUME Calm, RTypeOK, Steady, Naming, Recorded, [RNext]_rvars
  PROVE  Recorded'
<1>0. /\ scheduleMap \in [Tasks -> Schedules] /\ randomName \in [Tasks -> Nat]
      /\ drawn \in [Tasks -> Nat] /\ created \in [Tasks -> Nat]
      /\ ips \in [Tasks -> SUBSET Addresses]
      /\ command \in [Tasks -> Commands] /\ pods \in SUBSET Pods
      /\ \A d \in pods : d.task \in Tasks /\ d.name \in Nat
      /\ pc \in [Procs -> Labels] /\ owner \in [Procs -> Tasks \cup {NoTask}]
      /\ \A p \in Procs : pc[p] # "idle" => owner[p] \in Tasks
      /\ name \in [Procs -> Nat] /\ idx \in [Procs -> Nat] /\ ip \in [Procs -> Addresses \cup {NoIp}]
      /\ connected \in SUBSET Tasks /\ removing \in SUBSET Tasks /\ recovered \in SUBSET Tasks
      /\ DOMAIN updateFile \subseteq Tasks
      /\ \A t \in DOMAIN updateFile : /\ updateFile[t].name \in Nat
                                      /\ updateFile[t].complete \in BOOLEAN
                                      /\ updateFile[t].ips \in SUBSET Addresses
      /\ NoTask \notin Tasks /\ TypeOK /\ MemoryFits /\ Acting /\ Naming /\ Recorded
  BY SchedulerAssumption DEF RTypeOK, TypeOK, Pods, IsUpdateMap, Entries, Steady
<1> USE DEF Recorded, CurrentRecorded, FreshEmpty, IncompleteEmpty, CompleteRecorded,
   Restarting, EntryFresh, Naming, NamesDrawn, CreatorNamed, MonitorNamed,
   KnowsNone, RemoverFits, IncompleteNameless, HasPods, Acting, IdleFree, Solo, RequestFits,
   RecoveredFits, Unconnected, Fresh, Dispatches, Creating, GoTo, Exit, headVars, localVars,
   fileVars, processVars, historyVars
<1>1. CASE UNCHANGED rvars
  BY <1>0, <1>1 DEF rvars, vars
<1>2. ASSUME NEW p \in Procs, NEW t \in Tasks, NEW c \in Commands, RReceive(p, t, c)
      PROVE  Recorded'
  <2>1. /\ Asks(p, t, c) /\ GoTo(p, "dispatch")
        /\ owner' = [owner EXCEPT ![p] = t] /\ command' = [command EXCEPT ![t] = c]
        /\ recovered' \subseteq recovered /\ recovered \ {t} \subseteq recovered'
        /\ IF c = "RESTART" THEN t \notin recovered' ELSE recovered' = recovered
        /\ UNCHANGED <<scheduleMap, ips, randomName, drawn, pool, pods, disputed, name, idx, ip>>
        /\ UNCHANGED <<fileVars, connected, historyVars>>
    BY <1>2, ReceiveFacts
  <2>2. /\ \A q \in Procs : q # p => pc'[q] = pc[q] /\ owner'[q] = owner[q]
        /\ \A q \in Procs : q # p /\ pc[q] = "dispatch" =>
             command'[owner[q]] = command[owner[q]] /\ owner[q] # t
        /\ pc'[p] = "dispatch" /\ owner'[p] = t /\ command'[t] = c
        /\ \A q \in Procs : owner[q] = t => pc[q] = "monitor"
    BY <1>0, <2>1 DEF Asks, Settled
  <2>3. CurrentRecorded'
    BY <1>0, <2>1, <2>2 DEF Asks
  <2>4. FreshEmpty'
    BY <1>0, <2>1, <2>2 DEF Asks
  <2>5. IncompleteEmpty'
    BY <1>0, <2>1, <2>2 DEF Asks
  <2>6. CompleteRecorded'
    BY <1>0, <2>1, <2>2 DEF Asks
  <2>7. EntryFresh'
    BY <1>0, <2>1, <2>2 DEF Asks
  <2> QED
    BY <2>3, <2>4, <2>5, <2>6, <2>7 DEF Recorded
<1>3. ASSUME NEW p \in Procs, CanRun(p), RStart(p) PROVE Recorded'
  <2>1. owner[p] \in Tasks /\ owner[p] \in connected
    BY <1>0, <1>3 DEF Unconnected, RStart, Start
  <2>2. Written(owner[p], FALSE) \/ Unreached(owner[p])
    BY <1>0, <1>3, <2>1, RecordFacts DEF RStart
  <2>3. /\ owner[p] \in Tasks /\ owner[p] \notin removing
        /\ \A q \in Procs : q # p /\ owner[q] = owner[p] => pc[q] \in {"idle", "monitor"}
    <3>1. pc[p] \in Labels \ {"idle", "monitor", "delete"}
      BY <1>0, <1>3 DEF RStart, Start
    <3>2. owner[p] \in Tasks /\ owner[p] \notin removing
      BY <1>0, <3>1
    <3>3. \A q \in Procs : q # p /\ owner[q] = owner[p] => pc[q] \in {"idle", "monitor"}
      BY <1>0, <3>1
    <3> QED
      BY <3>2, <3>3
  <2>4. CurrentRecorded'
    BY <1>0, <1>3, <2>1, <2>2, <2>3 DEF RStart, Start, Written, Unreached
  <2>5. FreshEmpty'
    <3>1. \A q \in Procs : Dispatches(q, "RESTART") => q # p /\ Dispatches(q, "RESTART")'
      BY <1>0, <1>3 DEF RStart, Start
    <3>2. UNCHANGED <<scheduleMap, recovered, ips, owner>>
      BY <1>3 DEF RStart, Start
    <3> QED
      BY <1>0, <3>1, <3>2
  <2>6. IncompleteEmpty'
    <3>1. ips' = ips /\ Fresh(owner[p]) /\ ~Dispatches(p, "RESTART") /\ pc[p] = "dispatch"
      BY <1>0, <1>3 DEF RStart, Start
    <3>2. ips[owner[p]] = {}
      BY <1>0, <2>1, <2>3, <3>1
    <3>3. \A t \in DOMAIN updateFile' :
            updateFile'[t].ips = {} \/ (t \in DOMAIN updateFile /\ updateFile'[t] = updateFile[t])
      BY <2>1, <2>2, <3>1, <3>2 DEF Written, Unreached
    <3> QED
      BY <1>0, <3>3
  <2>7. CompleteRecorded'
    <3>1. UNCHANGED <<randomName, ips, pods, connected>>
      BY <1>3 DEF RStart, Start
    <3>2. \A t \in DOMAIN updateFile' : updateFile'[t].complete =>
            t \in DOMAIN updateFile /\ updateFile'[t] = updateFile[t]
      BY <2>2 DEF Written, Unreached
    <3>3. \A t \in Tasks : Fresh(t) => Fresh(t)'
      BY <1>3 DEF RStart, Start
    <3> HIDE DEF Fresh
    <3> QED
      BY <1>0, <3>1, <3>2, <3>3
  <2>8. EntryFresh'
    <3>1. /\ UNCHANGED <<connected, scheduleMap, recovered, removing, owner, command>>
          /\ GoTo(p, "poll") /\ pc[p] = "dispatch" /\ command[owner[p]] = "START"
      BY <1>3 DEF RStart, Start
    <3>2. \A t \in DOMAIN updateFile' : updateFile'[t].complete =>
            t \in DOMAIN updateFile /\ updateFile'[t] = updateFile[t]
      BY <2>2 DEF Written, Unreached
    <3>3. \A t \in Tasks : Restarting(t) => Restarting(t)'
      BY <1>0, <3>1
    <3>4. \A q \in Procs : Creating(q)' => Creating(q)
      BY <1>0, <3>1
    <3> HIDE DEF Restarting, Creating
    <3> QED
      BY <1>0, <3>1, <3>2, <3>3, <3>4
  <2> QED
    BY <2>4, <2>5, <2>6, <2>7, <2>8 DEF Recorded
<1>4. ASSUME NEW p \in Procs, CanRun(p), RStop(p) PROVE Recorded'
  <2>1. owner[p] \in Tasks /\ owner[p] \in connected
    BY <1>0, <1>4 DEF Unconnected, RStop, Stop
  <2>2. Written(owner[p], TRUE) \/ Unreached(owner[p])
    BY <1>0, <1>4, <2>1, RecordFacts DEF RStop
  <2>3. CurrentRecorded'
    BY <1>0, <1>4, <2>1, <2>2 DEF RStop, Stop, Written, Unreached
  <2>4. FreshEmpty'
    BY <1>0, <1>4, <2>1, <2>2 DEF RStop, Stop, Written, Unreached
  <2>5. EntryFresh'
    <3>1. /\ UNCHANGED <<connected, scheduleMap, recovered, removing, owner, command>>
          /\ GoTo(p, "stop") /\ Dispatches(p, "STOP")
      BY <1>4 DEF RStop, Stop
    <3>2. /\ \A t \in DOMAIN updateFile' : t # owner[p] =>
               t \in DOMAIN updateFile /\ updateFile'[t] = updateFile[t]
          /\ \A t \in Tasks : Fresh(t)' <=> Fresh(t)
      BY <1>0, <2>1, <2>2, <3>1 DEF Written, Unreached
    <3>3. ~Fresh(owner[p])
      BY <1>0, <3>1
    <3>4. \A t \in Tasks : Restarting(t) => Restarting(t)'
      BY <1>0, <3>1
    <3>5. \A q \in Procs : Creating(q)' => Creating(q) /\ owner[q] # owner[p]
      BY <1>0, <2>1, <3>1
    <3> HIDE DEF Restarting, Creating, Fresh
    <3> QED
      BY <1>0, <3>1, <3>2, <3>3, <3>4, <3>5
  <2>7. IncompleteEmpty' /\ CompleteRecorded'
    <3>1. UNCHANGED <<randomName, ips, pods, connected>>
      BY <1>4 DEF RStop, Stop
    <3>2. /\ CurrentRecorded /\ IncompleteEmpty /\ CompleteRecorded
          /\ DOMAIN updateFile \subseteq Tasks
      BY <1>0
    <3>3. \A u \in Tasks : Fresh(u) => Fresh(u)'
      BY <1>0, <1>4 DEF RStop, Stop
    <3> HIDE DEF CurrentRecorded, IncompleteEmpty, CompleteRecorded, Fresh
    <3> QED
      BY <2>1, <2>2, <3>1, <3>2, <3>3, WrittenComplete
  <2> QED
    BY <2>3, <2>4, <2>5, <2>7 DEF Recorded
<1>5. ASSUME NEW p \in Procs, CanRun(p), RComplete(p) PROVE Recorded'
  <2>1. owner[p] \in Tasks /\ owner[p] \in connected
    BY <1>0, <1>5 DEF Unconnected, RComplete, Complete
  <2>2. Written(owner[p], TRUE) \/ Unreached(owner[p])
    BY <1>0, <1>5, <2>1, RecordFacts DEF RComplete
  <2>3. /\ owner[p] \in Tasks /\ owner[p] \notin removing
        /\ \A q \in Procs : q # p /\ owner[q] = owner[p] => pc[q] \in {"idle", "monitor"}
    <3>1. pc[p] \in Labels \ {"idle", "monitor", "delete"}
      BY <1>0, <1>5 DEF RComplete, Complete
    <3>2. owner[p] \in Tasks /\ owner[p] \notin removing
      BY <1>0, <3>1
    <3>3. \A q \in Procs : q # p /\ owner[q] = owner[p] => pc[q] \in {"idle", "monitor"}
      BY <1>0, <3>1
    <3> QED
      BY <3>2, <3>3
  <2>4. CurrentRecorded'
    BY <1>0, <1>5, <2>1, <2>2, <2>3 DEF RComplete, Complete, Written, Unreached
  <2>5. FreshEmpty'
    BY <1>0, <1>5, <2>1, <2>2, <2>3 DEF RComplete, Complete, Written, Unreached
  <2>7. IncompleteEmpty' /\ CompleteRecorded'
    <3>1. UNCHANGED <<randomName, ips, pods, connected>>
      BY <1>5 DEF RComplete, Complete
    <3>2. /\ CurrentRecorded /\ IncompleteEmpty /\ CompleteRecorded
          /\ DOMAIN updateFile \subseteq Tasks
      BY <1>0
    <3>3. \A u \in Tasks : Fresh(u) => Fresh(u)'
      BY <1>0, <1>5 DEF RComplete, Complete
    <3> HIDE DEF CurrentRecorded, IncompleteEmpty, CompleteRecorded, Fresh
    <3> QED
      BY <2>1, <2>2, <3>1, <3>2, <3>3, WrittenComplete
  <2>9. EntryFresh'
    <3>1. /\ UNCHANGED <<connected, recovered, removing, owner, command>>
          /\ scheduleMap' = [scheduleMap EXCEPT ![owner[p]] = "POSTCREATE"]
          /\ GoTo(p, "pop") /\ pc[p] = "complete"
      BY <1>5 DEF RComplete, Complete
    <3>2. /\ \A t \in DOMAIN updateFile' : t # owner[p] =>
               t \in DOMAIN updateFile /\ updateFile'[t] = updateFile[t]
          /\ ~Fresh(owner[p])'
          /\ \A t \in Tasks : t # owner[p] => (Fresh(t)' <=> Fresh(t))
      BY <1>0, <2>1, <2>2, <3>1 DEF Written, Unreached
    <3>3. \A t \in Tasks : Restarting(t) => Restarting(t)'
      BY <1>0, <3>1
    <3>4. \A q \in Procs : Creating(q)' => Creating(q) /\ owner[q] # owner[p]
      BY <1>0, <2>3, <3>1
    <3> HIDE DEF Restarting, Creating, Fresh
    <3> QED
      BY <1>0, <3>1, <3>2, <3>3, <3>4
  <2> QED
    BY <2>4, <2>5, <2>7, <2>9 DEF Recorded
<1>6. ASSUME NEW p \in Procs, CanRun(p), RPop(p) PROVE Recorded'
  <2>1. CurrentRecorded' /\ IncompleteEmpty' /\ CompleteRecorded'
    BY <1>0, <1>6 DEF RPop, Pop
  <2>2. FreshEmpty'
    <3>1. UNCHANGED <<scheduleMap, recovered, ips, owner, command>> /\ GoTo(p, "monitor")
      BY <1>6 DEF RPop, Pop
    <3>2. \A q \in Procs : Dispatches(q, "RESTART") => Dispatches(q, "RESTART")'
      BY <1>0, <1>6, <3>1 DEF RPop, Pop
    <3> QED
      BY <1>0, <3>1, <3>2
  <2>3. EntryFresh'
    <3>1. /\ UNCHANGED <<scheduleMap, recovered, removing, connected, updateFile, owner, command>>
          /\ GoTo(p, "monitor") /\ pc[p] = "pop"
      BY <1>6 DEF RPop, Pop
    <3>2. \A t \in Tasks : Restarting(t) => Restarting(t)'
      BY <1>0, <3>1
    <3>3. \A q \in Procs : Creating(q)' => Creating(q)
      BY <1>0, <3>1
    <3> HIDE DEF Restarting, Creating
    <3> QED
      BY <1>0, <3>1, <3>2, <3>3
  <2> QED
    BY <2>1, <2>2, <2>3 DEF Recorded
<1>7. ASSUME NEW p \in Procs, CanRun(p), LogStarts(p) PROVE Recorded'
  <2>1. owner[p] \in Tasks /\ owner[p] \in connected
    BY <1>0, <1>7, WatchFacts DEF Unconnected, LogStarts
  <2>2. Written(owner[p], TRUE) \/ Unreached(owner[p])
    BY <1>0, <1>7, <2>1, RecordFacts DEF LogStarts
  <2>3. CurrentRecorded'
    BY <1>0, <1>7, WatchFacts, <2>1, <2>2 DEF LogStarts, Written, Unreached
  <2>4. FreshEmpty'
    BY <1>0, <1>7, WatchFacts, <2>1, <2>2 DEF LogStarts, Written, Unreached
  <2>5. IncompleteEmpty' /\ CompleteRecorded'
    <3>1. UNCHANGED <<randomName, ips, pods, connected>>
      BY <1>7 DEF LogStarts
    <3>2. /\ CurrentRecorded /\ IncompleteEmpty /\ CompleteRecorded
          /\ DOMAIN updateFile \subseteq Tasks
      BY <1>0
    <3>3. \A u \in Tasks : Fresh(u) => Fresh(u)'
      BY <1>7 DEF LogStarts
    <3> HIDE DEF CurrentRecorded, IncompleteEmpty, CompleteRecorded, Fresh
    <3> QED
      BY <2>1, <2>2, <3>1, <3>2, <3>3, WrittenComplete
  <2>8. EntryFresh'
    <3>1. /\ UNCHANGED <<connected, scheduleMap, recovered, removing, owner, command>>
          /\ UNCHANGED pc
      BY <1>7 DEF LogStarts
    <3>2. /\ \A t \in DOMAIN updateFile' : t # owner[p] =>
               t \in DOMAIN updateFile /\ updateFile'[t] = updateFile[t]
          /\ \A t \in Tasks : Fresh(t)' <=> Fresh(t)
      BY <1>0, <2>1, <2>2, <3>1 DEF Written, Unreached
    <3>3. ~Fresh(owner[p]) /\ scheduleMap[owner[p]] # "CREATING"
      BY <1>0, <2>1, <1>7, WatchFacts
    <3>4. \A t \in Tasks : Restarting(t) => Restarting(t)'
      BY <1>0, <3>1, <1>7, WatchFacts
    <3>5. \A q \in Procs : Creating(q)' => Creating(q) /\ owner[q] # owner[p]
      BY <1>0, <3>1, <3>3
    <3> HIDE DEF Restarting, Creating, Fresh
    <3> QED
      BY <1>0, <3>1, <3>2, <3>3, <3>4, <3>5
  <2> QED
    BY <2>3, <2>4, <2>5, <2>8 DEF Recorded
<1>8. ASSUME NEW p \in Procs, CanRun(p), RTrainingEnds(p) PROVE Recorded'
  <2>1. owner[p] \in Tasks /\ owner[p] \in connected
    BY <1>0, <1>8, WatchFacts DEF Unconnected, RTrainingEnds, TrainingEnds, Settled
  <2>2. Written(owner[p], TRUE) \/ Unreached(owner[p])
    BY <1>0, <1>8, <2>1, RecordFacts DEF RTrainingEnds
  <2>3. CurrentRecorded' /\ FreshEmpty'
    BY <1>0, <1>8, WatchFacts, <2>1, <2>2 DEF RTrainingEnds, TrainingEnds, Settled, Written,
       Unreached
  <2>4. IncompleteEmpty' /\ CompleteRecorded'
    <3>1. UNCHANGED <<randomName, ips, pods, connected>>
      BY <1>8 DEF RTrainingEnds, TrainingEnds, Settled
    <3>2. /\ CurrentRecorded /\ IncompleteEmpty /\ CompleteRecorded
          /\ DOMAIN updateFile \subseteq Tasks
      BY <1>0
    <3>3. \A u \in Tasks : Fresh(u) => Fresh(u)'
      BY <1>0, <1>8 DEF RTrainingEnds, TrainingEnds, Settled
    <3> HIDE DEF CurrentRecorded, IncompleteEmpty, CompleteRecorded, Fresh
    <3> QED
      BY <2>1, <2>2, <3>1, <3>2, <3>3, WrittenComplete
  <2>6. EntryFresh'
    <3>1. /\ UNCHANGED <<connected, scheduleMap, recovered, removing, owner, command>>
          /\ GoTo(p, "delete") /\ pc[p] = "monitor"
      BY <1>8 DEF RTrainingEnds, TrainingEnds
    <3>2. /\ \A t \in DOMAIN updateFile' : t # owner[p] =>
               t \in DOMAIN updateFile /\ updateFile'[t] = updateFile[t]
          /\ \A t \in Tasks : Fresh(t)' <=> Fresh(t)
      BY <1>0, <2>1, <2>2, <3>1 DEF Written, Unreached
    <3>3. ~Fresh(owner[p]) /\ scheduleMap[owner[p]] # "CREATING"
      BY <1>0, <2>1, <1>8, WatchFacts
    <3>4. \A t \in Tasks : Restarting(t) => Restarting(t)'
      BY <1>0, <3>1, <1>8, WatchFacts
    <3>5. \A q \in Procs : Creating(q)' => Creating(q) /\ owner[q] # owner[p]
      BY <1>0, <3>1, <3>3
    <3> HIDE DEF Restarting, Creating, Fresh
    <3> QED
      BY <1>0, <3>1, <3>2, <3>3, <3>4, <3>5
  <2> QED
    BY <2>3, <2>4, <2>6 DEF Recorded
<1>9. ASSUME NEW p \in Procs, CanRun(p), RDeletePod(p) PROVE Recorded'
  <2>1. /\ UNCHANGED <<scheduleMap, recovered, connected, ips, randomName, command, pc, owner,
                        updateFile>>
        /\ pods' \subseteq pods /\ removing \subseteq removing'
    BY <1>0, <1>9, DeleteFacts
  <2>2. CurrentRecorded' /\ FreshEmpty' /\ IncompleteEmpty' /\ CompleteRecorded'
    BY <1>0, <2>1
  <2>3. EntryFresh'
    BY <1>0, <2>1
  <2> QED
    BY <2>2, <2>3 DEF Recorded
<1>10. ASSUME NEW p \in Procs, CanRun(p), RRelease(p) PROVE Recorded'
  <2>1. CurrentRecorded'
    BY <1>0, <1>10 DEF RRelease, Release
  <2>2. FreshEmpty'
    BY <1>0, <1>10 DEF RRelease, Release
  <2>3. IncompleteEmpty'
    BY <1>0, <1>10 DEF RRelease, Release
  <2>4. CompleteRecorded'
    BY <1>0, <1>10 DEF RRelease, Release
  <2>5. EntryFresh'
    BY <1>0, <1>10 DEF RRelease, Release
  <2> QED
    BY <2>1, <2>2, <2>3, <2>4, <2>5 DEF Recorded
<1>11. ASSUME NEW p \in Procs, CanRun(p), StopTask(p),
             UNCHANGED <<fileVars, processVars, historyVars>>
      PROVE  Recorded'
  BY <1>0, <1>11 DEF StopTask
<1>12. ASSUME NEW p \in Procs, CanRun(p), Restart(p),
             UNCHANGED <<fileVars, processVars, historyVars>>
      PROVE  Recorded'
  <2>0. PICK t \in Tasks : t = owner[p]
    BY <1>0, <1>12 DEF Restart
  <2>1. /\ Dispatches(p, "RESTART") /\ GoTo(p, "delete")
        /\ scheduleMap' = [scheduleMap EXCEPT ![t] = "BEFORECREATE"]
        /\ ips' = [ips EXCEPT ![t] = {}]
        /\ UNCHANGED <<randomName, command, pods, owner>>
        /\ UNCHANGED <<fileVars, processVars, historyVars>>
    BY <2>0, <1>12 DEF Restart
  <2>2. /\ \A q \in Procs : q # p /\ owner[q] = t => pc[q] \in {"idle", "monitor"}
        /\ ~HasPods(t)
    BY <1>0, <2>0, <2>1
  <2>3. CurrentRecorded' /\ IncompleteEmpty'
    BY <1>0, <2>0, <2>1, <2>2
  <2>4. FreshEmpty'
    <3>1. \A u \in Tasks : u # t => (Fresh(u)' <=> Fresh(u)) /\ ips'[u] = ips[u]
      BY <1>0, <2>1
    <3>2. ips'[t] = {}
      BY <1>0, <2>1
    <3>3. \A q \in Procs : owner[q] # t /\ Dispatches(q, "RESTART") => Dispatches(q, "RESTART")'
      BY <1>0, <2>0, <2>1
    <3> HIDE DEF Fresh, Dispatches
    <3> QED
      BY <1>0, <2>1, <3>1, <3>2, <3>3
  <2>5. CompleteRecorded'
    <3>1. \A u \in Tasks : u # t => (Fresh(u)' <=> Fresh(u)) /\ ips'[u] = ips[u]
      BY <1>0, <2>1
    <3>2. t \in DOMAIN updateFile => Fresh(t)'
      BY <1>0, <2>0, <2>1
    <3>3. UNCHANGED <<updateFile, connected, pods, randomName>>
      BY <2>1
    <3> HIDE DEF Fresh
    <3> QED
      BY <1>0, <3>1, <3>2, <3>3
  <2>6. EntryFresh'
    <3>1. \A u \in Tasks : u # t => (Fresh(u)' <=> Fresh(u))
      BY <1>0, <2>1
    <3>2. /\ \A u \in Tasks : u # t /\ Restarting(u) => Restarting(u)'
          /\ Restarting(t)'
      BY <1>0, <2>0, <2>1
    <3>3. \A q \in Procs : Creating(q)' => Creating(q)
      BY <1>0, <2>1
    <3>4. UNCHANGED <<updateFile, connected, owner>>
      BY <2>1
    <3> HIDE DEF Fresh, Restarting, Creating
    <3> QED
      BY <1>0, <3>1, <3>2, <3>3, <3>4
  <2> QED
    BY <2>3, <2>4, <2>5, <2>6 DEF Recorded
<1>13. ASSUME NEW p \in Procs, CanRun(p), Claim(p),
             UNCHANGED <<fileVars, processVars, historyVars>>
      PROVE  Recorded'
  <2>1. /\ owner[p] \in Tasks /\ owner[p] \notin removing
        /\ \A q \in Procs : q # p /\ owner[q] = owner[p] => pc[q] \in {"idle", "monitor"}
    <3>1. pc[p] \in Labels \ {"idle", "monitor", "delete"}
      BY <1>0, <1>13 DEF Claim
    <3>2. owner[p] \in Tasks /\ owner[p] \notin removing
      BY <1>0, <3>1
    <3>3. \A q \in Procs : q # p /\ owner[q] = owner[p] => pc[q] \in {"idle", "monitor"}
      BY <1>0, <3>1
    <3> QED
      BY <3>2, <3>3
  <2>2. owner[p] \in DOMAIN updateFile => ~updateFile[owner[p]].complete
    <3>1. pc[p] = "claim" /\ Fresh(owner[p]) /\ owner[p] \in connected
      BY <1>0, <1>13 DEF Claim
    <3>2. ~Restarting(owner[p])
      BY <1>0, <2>1, <3>1
    <3> QED
      BY <1>0, <2>1, <3>1, <3>2
  <2>3. CurrentRecorded' /\ FreshEmpty' /\ IncompleteEmpty'
    BY <1>0, <1>13, <2>1, <2>2 DEF Claim
  <2>4. CompleteRecorded'
    <3>1. /\ UNCHANGED <<pods, updateFile, connected>>
          /\ \A t \in Tasks : t # owner[p] =>
               randomName'[t] = randomName[t] /\ ips'[t] = ips[t] /\ (Fresh(t) => Fresh(t)')
      BY <1>0, <1>13 DEF Claim
    <3> HIDE DEF Fresh
    <3> QED
      BY <1>0, <2>2, <3>1
  <2>5. EntryFresh'
    <3>1. /\ UNCHANGED <<updateFile, connected, recovered, removing, command, owner>>
          /\ scheduleMap' = [scheduleMap EXCEPT ![owner[p]] = "CREATING"]
          /\ GoTo(p, "assign") /\ pc[p] = "claim"
      BY <1>13 DEF Claim
    <3>2. \A t \in Tasks : Fresh(t)' => Fresh(t)
      BY <1>0, <2>1, <3>1
    <3>3. \A t \in Tasks : Restarting(t) => Restarting(t)'
      BY <1>0, <3>1
    <3>4. \A q \in Procs : Creating(q)' => Creating(q) \/ q = p
      BY <1>0, <3>1
    <3> HIDE DEF Restarting, Creating, Fresh
    <3> QED
      BY <1>0, <2>2, <3>1, <3>2, <3>3, <3>4
  <2> QED
    BY <2>3, <2>4, <2>5 DEF Recorded
<1>14. ASSUME NEW p \in Procs, CanRun(p), CreatePod(p),
             UNCHANGED <<fileVars, processVars, historyVars>>
      PROVE  Recorded'
  <2>1. /\ CurrentRecorded' /\ FreshEmpty' /\ IncompleteEmpty' /\ CompleteRecorded'
        /\ EntryFresh'
    BY <1>0, <1>14, RunFacts DEF CreatePod
  <2> QED
    BY <2>1 DEF Recorded
<1>15. ASSUME NEW p \in Procs, Ends(p),
             UNCHANGED <<scheduleMap, ips, randomName, drawn, command, pool, pods, disputed>>,
             UNCHANGED <<fileVars, processVars, historyVars>>
      PROVE  Recorded'
  <2>1. CurrentRecorded'
    BY <1>0, <1>15 DEF Ends
  <2>2. FreshEmpty'
    BY <1>0, <1>15 DEF Ends
  <2>3. IncompleteEmpty'
    BY <1>0, <1>15 DEF Ends
  <2>4. CompleteRecorded'
    BY <1>0, <1>15 DEF Ends
  <2>5. EntryFresh'
    BY <1>0, <1>15 DEF Ends
  <2> QED
    BY <2>1, <2>2, <2>3, <2>4, <2>5 DEF Recorded
<1>16. ASSUME NEW p \in Procs, GoesOn(p),
             UNCHANGED <<scheduleMap, ips, randomName, drawn, command, pool, pods, disputed>>,
             UNCHANGED <<fileVars, processVars, historyVars>>
      PROVE  Recorded'
  BY <1>0, <1>16 DEF GoesOn
<1>17. CASE RCluster
  <2>1. /\ UNCHANGED <<scheduleMap, ips, randomName, drawn, command, pool, disputed, pc, localVars>>
        /\ \A e \in pods' : \E d \in pods : SamePod(e, d)
        /\ \A d \in pods : \E e \in pods' : SamePod(e, d)
        /\ UNCHANGED <<fileVars, processVars, historyVars>>
    BY <1>0, <1>17, ClusterFacts
  <2>2. CurrentRecorded'
    BY <1>0, <1>17, <2>1 DEF SamePod
  <2>3. FreshEmpty'
    BY <1>0, <1>17, <2>1 DEF SamePod
  <2>4. IncompleteEmpty'
    BY <1>0, <1>17, <2>1 DEF SamePod
  <2>5. CompleteRecorded'
    BY <1>0, <1>17, <2>1 DEF SamePod
  <2>6. EntryFresh'
    BY <1>0, <1>17, <2>1 DEF SamePod
  <2> QED
    BY <2>2, <2>3, <2>4, <2>5, <2>6 DEF Recorded
<1>18. ASSUME NEW t \in Tasks, RemoveEntry(t) PROVE Recorded'
  <2>1. t \in connected /\ RemoveEntry(t) /\ MemoryFits
    BY <1>0, <1>18 DEF RemoveEntry, Unconnected
  <2>2. /\ DOMAIN updateFile' = DOMAIN updateFile \ {t}
        /\ \A u \in DOMAIN updateFile : u # t => updateFile'[u] = updateFile[u]
    BY <2>1, RemoveFacts
  <2>3. CurrentRecorded' /\ FreshEmpty'
    BY <1>0, <1>18, <2>1, <2>2 DEF RemoveEntry, vars
  <2>4. IncompleteEmpty'
    <3>1. UNCHANGED <<vars, processVars, historyVars>> /\ removing' = removing \ {t}
      BY <1>18 DEF RemoveEntry
    <3> QED
      BY <1>0, <2>2, <3>1 DEF vars
  <2>5. CompleteRecorded'
    <3>1. UNCHANGED <<vars, processVars, historyVars>> /\ removing' = removing \ {t}
      BY <1>18 DEF RemoveEntry
    <3> QED
      BY <1>0, <2>2, <3>1 DEF vars
  <2>6. EntryFresh'
    <3>1. UNCHANGED <<vars, processVars, historyVars>> /\ removing' = removing \ {t}
      BY <1>18 DEF RemoveEntry
    <3>2. \A u \in Tasks : u # t /\ Restarting(u) => Restarting(u)'
      BY <3>1 DEF vars
    <3>3. \A u \in DOMAIN updateFile' : u # t /\ u \in DOMAIN updateFile /\ updateFile'[u] = updateFile[u]
      BY <2>2
    <3>4. /\ UNCHANGED <<connected, owner>>
          /\ \A u \in Tasks : Fresh(u)' = Fresh(u)
          /\ \A q \in Procs : Creating(q)' = Creating(q)
      BY <3>1 DEF vars
    <3> HIDE DEF Restarting, Fresh, Creating
    <3> QED
      BY <1>0, <3>2, <3>3, <3>4
  <2> QED
    BY <2>3, <2>4, <2>5, <2>6 DEF Recorded
<1>19. ASSUME NEW t \in Tasks, Connect(t) PROVE Recorded'
  <2>1. Joins(t)
    BY <1>0, <1>19, ConnectFacts
  <2>2. CurrentRecorded'
    BY <1>0, <1>19, <2>1 DEF Connect, Joins
  <2>3. FreshEmpty'
    <3>1. /\ UNCHANGED <<scheduleMap, updateFile, command>>
          /\ t \in Tasks \ connected /\ recovered \subseteq recovered'
      BY <1>0, <1>19, <2>1 DEF Connect, Joins
    <3>2. \A q \in Procs : pc[q] = "idle" \/ (pc'[q] = pc[q] /\ owner'[q] = owner[q])
      BY <1>0, <2>1 DEF Joins
    <3>3. \A u \in Tasks : u # t => ips'[u] = ips[u]
      BY <1>0, <2>1 DEF Joins
    <3>4. ips'[t] = {} \/ ~Fresh(t)'
      BY <1>0, <2>1, <3>1 DEF Joins
    <3>5. \A q \in Procs : Dispatches(q, "RESTART") => owner'[q] = owner[q] /\ Dispatches(q, "RESTART")'
      BY <1>0, <3>1, <3>2
    <3>6. \A u \in Tasks : Fresh(u)' => Fresh(u)
      BY <3>1
    <3> HIDE DEF Fresh, Dispatches
    <3>7. ASSUME NEW u \in Tasks, Fresh(u)', ips'[u] # {}
          PROVE  \E q \in Procs : owner'[q] = u /\ Dispatches(q, "RESTART")'
      <4>1. u # t /\ Fresh(u) /\ ips[u] # {}
        BY <3>3, <3>4, <3>6, <3>7
      <4>2. PICK q \in Procs : owner[q] = u /\ Dispatches(q, "RESTART")
        BY <1>0, <4>1
      <4> QED
        BY <3>5, <4>2
    <3> QED
      BY <3>7
  <2>4. IncompleteEmpty'
    BY <1>0, <1>19, <2>1 DEF Connect, Joins
  <2>5. CompleteRecorded'
    BY <1>0, <1>19, <2>1 DEF Connect, Joins
  <2>7. EntryFresh'
    <3>1. UNCHANGED <<scheduleMap, removing, updateFile, command>> /\ connected' = connected \cup {t}
      BY <1>19 DEF Connect
    <3>2. /\ \A u \in Tasks : Fresh(u)' => Fresh(u)
          /\ t \in DOMAIN updateFile => ~updateFile[t].complete \/ ~Fresh(t)'
      BY <1>0, <2>1, <3>1 DEF Joins
    <3>3. \A q \in Procs : pc[q] = "idle" \/ (pc'[q] = pc[q] /\ owner'[q] = owner[q])
      BY <1>0, <2>1 DEF Joins
    <3>4. \A u \in Tasks : Restarting(u) => Restarting(u)'
      BY <1>0, <3>1, <3>3
    <3>5. \A q \in Procs : Creating(q)' => Creating(q) /\ owner'[q] = owner[q]
      BY <1>0, <2>1 DEF Joins
    <3> HIDE DEF Restarting, Creating, Fresh
    <3> QED
      BY <1>0, <3>1, <3>2, <3>4, <3>5
  <2> QED
    BY <2>2, <2>3, <2>4, <2>5, <2>7 DEF Recorded
<1>20. CASE Reboot
  BY <1>0, <1>20 DEF Reboot
<1>21. ASSUME NEW p \in Procs, Quiet(p), UNCHANGED <<fileVars, processVars, historyVars>>
      PROVE  Recorded'
  BY <1>0, <1>15, <1>16, <1>21, QuietFacts
<1> HIDE DEF Recorded, CurrentRecorded, FreshEmpty, IncompleteEmpty, CompleteRecorded,
   Restarting, EntryFresh, Naming, NamesDrawn, CreatorNamed, MonitorNamed,
   KnowsNone, RemoverFits, IncompleteNameless, HasPods, Acting, IdleFree, Solo, RequestFits,
   RecoveredFits, Unconnected, Fresh, Dispatches, Creating, GoTo, Exit, headVars, localVars,
   fileVars, processVars, historyVars
<1> QED
  BY <1>1, <1>2, <1>3, <1>4, <1>5, <1>6, <1>7, <1>8, <1>9, <1>10, <1>11, <1>12, <1>13,
     <1>14, <1>17, <1>18, <1>19, <1>20, <1>21
  DEF RNext, RWork, WithoutFiles, Quiet

=============================================================================
