----------------------------- MODULE Scheduler -----------------------------
(***************************************************************************)
(* How training tasks are queued, created, watched and released.           *)
(*                                                                         *)
(* A task is a (uid, tid) pair and stands for its headNode.  Every command *)
(* that arrives for a task starts a goroutine (client.go, readPump); the   *)
(* goroutines of all the tasks share QUEUELIST, the fields of the head     *)
(* nodes and IP_POOL, and none of these accesses takes a lock that another *)
(* one takes.  One goroutine is one member of Procs; its program counter   *)
(* names the statement it is about to execute.                             *)
(***************************************************************************)
EXTENDS IpPool, Sequences

CONSTANTS
  Tasks,       \* the (uid, tid) pairs
  Procs,       \* the goroutines that may exist at a time
  NodeNum,     \* len(SelectedNodes) of each task: the pods it asks for
  MaxRuns,     \* bound: how often each task is created
  NoTask,      \* the owner of a goroutine that is not running
  Behaviours   \* what may happen besides orderly use (see MaySend)

ASSUME SchedulerAssumption ==
  /\ NoTask \notin Tasks
  /\ NodeNum \in [Tasks -> Nat \ {0}]
  /\ MaxRuns \in [Tasks -> Nat]
  /\ Behaviours \subseteq
       {"cancel", "repeat", "rerun", "ends", "race", "cluster", "undeleted", "preempt"}

VARIABLES
  queue,          \* QUEUELIST
  \* the fields of each head node
  scheduleMap,    \* ScheduleMap
  ips,            \* ips, the addresses handed to the task, as a set
  randomName,     \* rm.RandomName, the number of the creation it was drawn for
  command,        \* rm.Content.Command, written by whoever receives a message
  insufficient,   \* sm.Type = INSUFFICIENTPENDING
  drawn,          \* how many names GetRandomString has drawn for the task
  \* shared by all the tasks
  pool,           \* IP_POOL, the addresses marked as used
  pods,           \* the pods in the cluster
  crashed,        \* an index out of range has ended the process
  disputed,       \* for the properties only: the addresses whose books a delete that
                  \* failed has spoiled (see Delete_pod)
  \* of each goroutine
  pc, owner,
  name,           \* tmpString, and later the name LogMonitor is called with
  idx,            \* i, the pod a loop has reached
  ip              \* the address a loop has found

headVars == <<scheduleMap, ips, randomName, drawn, command, insufficient>>
localVars == <<owner, name, idx, ip>>
vars == <<queue, headVars, pool, pods, crashed, disputed, pc, localVars>>

Commands == {"START", "STOP", "RESTART", "RESET"}
Schedules == {"BEFORECREATE", "CREATING", "POSTCREATE"}

\* Pending with the condition that no node has room is "Unschedulable";
\* "Running" stands for Succeeded and "Failed" for Unknown as well.
Phases == {"Pending", "Unschedulable", "Running", "Failed"}

\* Mutated form of Immediate: a call that blocks between ScheduleMap and the pop.
ImmediateWithoutPop == {"claim", "popOwn", "popDone", "create"}

\* Statements that directly follow the test they depend on, with nothing
\* between the two that sleeps, talks to the network or uses a channel.
Immediate == {"claim", "popOwn", "popDone", "pop", "create"}
Labels == Immediate \cup
  {"idle", "dispatch", "poll", "assign", "podStatus", "podCheck", "complete",
   "monitor", "stop", "delete"}

Pods == [task : Tasks, name : Nat, idx : Nat, ip : Addresses, phase : Phases]

TypeOK ==
  /\ queue \in Seq(Tasks)
  /\ scheduleMap \in [Tasks -> Schedules]
  /\ ips \in [Tasks -> SUBSET Addresses]
  /\ randomName \in [Tasks -> Nat]
  /\ drawn \in [Tasks -> Nat]
  /\ command \in [Tasks -> Commands]
  /\ insufficient \in [Tasks -> BOOLEAN]
  /\ pool \in SUBSET Addresses
  /\ pods \in SUBSET Pods
  /\ crashed \in BOOLEAN
  /\ disputed \in SUBSET Addresses
  /\ pc \in [Procs -> Labels]
  /\ owner \in [Procs -> Tasks \cup {NoTask}]
  /\ \A p \in Procs : pc[p] # "idle" => owner[p] \in Tasks
  /\ name \in [Procs -> Nat]
  /\ idx \in [Procs -> Nat]
  /\ ip \in [Procs -> Addresses \cup {NoIp}]
  /\ \A p \in Procs : pc[p] = "create" => ip[p] \in Addresses

Init ==
  /\ queue = << >>
  /\ scheduleMap = [t \in Tasks |-> "BEFORECREATE"]
  /\ ips = [t \in Tasks |-> {}]
  /\ randomName = [t \in Tasks |-> 0]
  /\ drawn = [t \in Tasks |-> 0]
  /\ command = [t \in Tasks |-> "RESET"]
  /\ insufficient = [t \in Tasks |-> FALSE]
  /\ pool = {}
  /\ pods = {}
  /\ crashed = FALSE
  /\ disputed = {}
  /\ pc = [p \in Procs |-> "idle"]
  /\ owner = [p \in Procs |-> NoTask]
  /\ name = [p \in Procs |-> 0]
  /\ idx = [p \in Procs |-> 0]
  /\ ip = [p \in Procs |-> NoIp]

-----------------------------------------------------------------------------
(* Control flow of a goroutine *)

GoTo(p, label) == pc' = [pc EXCEPT ![p] = label]

\* The goroutine returns; what it had in its local variables is gone.
Exit(p) ==
  /\ GoTo(p, "idle")
  /\ owner' = [owner EXCEPT ![p] = NoTask]
  /\ name' = [name EXCEPT ![p] = 0]
  /\ idx' = [idx EXCEPT ![p] = 0]
  /\ ip' = [ip EXCEPT ![p] = NoIp]

\* Unless "preempt" lets a goroutine be overtaken between any two statements,
\* goroutines switch only where one of them sleeps or may block.
CanRun(p) ==
  \/ "preempt" \in Behaviours
  \/ \A q \in Procs \ {p} : pc[q] \notin Immediate

-----------------------------------------------------------------------------
(* Commands *)

Settled(t) == \A p \in Procs : owner[p] = t => pc[p] = "monitor"

\* The pods that the task knows, those a delete would find, also again after it
\* has failed.
HasPods(t) == \E d \in pods : d.task = t /\ d.name = randomName[t]

\* The last START waits, is served or was served, and no other command runs.
Requested(t) ==
  /\ (scheduleMap[t] # "BEFORECREATE") \/ \E p \in Procs : owner[p] = t /\ pc[p] = "poll"
  /\ \A p \in Procs : owner[p] = t => pc[p] \notin {"dispatch", "stop", "delete"}

\* The commands the page of a task offers in its state.  START asks for a
\* creation, RESTART prepares another one, STOP ends what was created (also a
\* creation that was given up), RESET clears a creation that was given up.
\* "cancel" adds STOP while the task waits in the queue, "repeat" a further START
\* for a task that was asked for already, "rerun" RESTART while it still has pods.
MaySend(t, c) ==
  \/ /\ c = "START" /\ drawn[t] < MaxRuns[t]
     /\ \/ Settled(t) /\ scheduleMap[t] = "BEFORECREATE"
        \/ "repeat" \in Behaviours /\ Requested(t)
  \/ /\ c = "STOP"
     /\ \/ Settled(t) /\ (HasPods(t) \/ scheduleMap[t] = "CREATING")
        \/ "cancel" \in Behaviours /\ \E p \in Procs : owner[p] = t /\ pc[p] = "poll"
  \/ /\ c = "RESTART" /\ Settled(t)
     /\ \/ scheduleMap[t] = "POSTCREATE" /\ ~HasPods(t)
        \/ "rerun" \in Behaviours /\ HasPods(t)
  \/ c = "RESET" /\ Settled(t) /\ insufficient[t]

\* readPump decodes the message into the shared rm and starts a goroutine.
Accept(p, t, c) ==
  /\ pc[p] = "idle"
  /\ command' = [command EXCEPT ![t] = c]
  /\ owner' = [owner EXCEPT ![p] = t]
  /\ GoTo(p, "dispatch")
  /\ UNCHANGED <<queue, scheduleMap, ips, randomName, drawn, insufficient, pool, pods,
                 crashed, disputed, name, idx, ip>>

Receive(p, t, c) == MaySend(t, c) /\ Accept(p, t, c)

\* Mutated form of Start: the task jumps the queue.
StartAtFront(p) ==
  /\ pc[p] = "dispatch" /\ command[owner[p]] = "START"
  /\ queue' = <<owner[p]>> \o queue
  /\ GoTo(p, "poll")
  /\ UNCHANGED <<headVars, pool, pods, crashed, disputed, localVars>>

Start(p) ==
  /\ pc[p] = "dispatch" /\ command[owner[p]] = "START"
  /\ queue' = Append(queue, owner[p])
  /\ GoTo(p, "poll")
  /\ UNCHANGED <<headVars, pool, pods, crashed, disputed, localVars>>

\* The status message to the data server goes out before anything changes.
Stop(p) ==
  /\ pc[p] = "dispatch" /\ command[owner[p]] = "STOP"
  /\ GoTo(p, "stop")
  /\ UNCHANGED <<queue, headVars, pool, pods, crashed, disputed, localVars>>

\* Mutated form of StopTask: it also pops the head of the queue.
StopTaskPops(p) ==
  /\ pc[p] = "stop"
  /\ scheduleMap' = [scheduleMap EXCEPT ![owner[p]] = "POSTCREATE"]
  /\ queue' = IF queue = << >> THEN queue ELSE Tail(queue)
  /\ GoTo(p, "delete")
  /\ UNCHANGED <<ips, randomName, drawn, command, insufficient, pool, pods,
                 crashed, disputed, localVars>>

\* Mutated form of StopTask: it forgets the addresses before they are freed.
StopTaskForgets(p) ==
  /\ pc[p] = "stop"
  /\ scheduleMap' = [scheduleMap EXCEPT ![owner[p]] = "POSTCREATE"]
  /\ ips' = [ips EXCEPT ![owner[p]] = {}]
  /\ GoTo(p, "delete")
  /\ UNCHANGED <<queue, randomName, drawn, command, insufficient, pool, pods,
                 crashed, disputed, localVars>>

StopTask(p) ==
  /\ pc[p] = "stop"
  /\ scheduleMap' = [scheduleMap EXCEPT ![owner[p]] = "POSTCREATE"]
  /\ GoTo(p, "delete")
  /\ UNCHANGED <<queue, ips, randomName, drawn, command, insufficient, pool, pods,
                 crashed, disputed, localVars>>

\* Mutated form of Restart: the addresses of the last creation stay recorded.
RestartKeepsIps(p) ==
  /\ pc[p] = "dispatch" /\ command[owner[p]] = "RESTART"
  /\ scheduleMap' = [scheduleMap EXCEPT ![owner[p]] = "BEFORECREATE"]
  /\ GoTo(p, "delete")
  /\ UNCHANGED <<queue, ips, randomName, drawn, command, insufficient, pool, pods,
                 crashed, disputed, localVars>>

Restart(p) ==
  /\ pc[p] = "dispatch" /\ command[owner[p]] = "RESTART"
  /\ scheduleMap' = [scheduleMap EXCEPT ![owner[p]] = "BEFORECREATE"]
  /\ ips' = [ips EXCEPT ![owner[p]] = {}]
  /\ GoTo(p, "delete")
  /\ UNCHANGED <<queue, randomName, drawn, command, insufficient, pool, pods,
                 crashed, disputed, localVars>>

Reset(p) ==
  /\ pc[p] = "dispatch" /\ command[owner[p]] = "RESET"
  /\ insufficient' = [insufficient EXCEPT ![owner[p]] = FALSE]
  /\ Exit(p)
  /\ UNCHANGED <<queue, scheduleMap, ips, randomName, drawn, command, pool, pods,
                 crashed, disputed>>

-----------------------------------------------------------------------------
(* Waiting for one's turn: the loop on QUEUELIST[0] *)

\* Mutated form of Poll: a task that is being created counts as done.
PollSkipsCreating(p) ==
  /\ pc[p] = "poll" /\ queue # << >>
  /\ \/ /\ Head(queue) = owner[p] /\ scheduleMap[owner[p]] = "BEFORECREATE"
        /\ GoTo(p, "claim")
     \/ /\ Head(queue) = owner[p] /\ scheduleMap[owner[p]] # "BEFORECREATE"
        /\ GoTo(p, "popOwn")
     \/ /\ Head(queue) # owner[p] /\ scheduleMap[Head(queue)] # "BEFORECREATE"
        /\ GoTo(p, "popDone")
  /\ UNCHANGED <<queue, headVars, pool, pods, crashed, disputed, localVars>>

\* Another task at the head that is not done yet makes the loop sleep.
Poll(p) ==
  /\ pc[p] = "poll" /\ queue # << >>
  /\ \/ /\ Head(queue) = owner[p] /\ scheduleMap[owner[p]] = "BEFORECREATE"
        /\ GoTo(p, "claim")
     \/ /\ Head(queue) = owner[p] /\ scheduleMap[owner[p]] # "BEFORECREATE"
        /\ GoTo(p, "popOwn")
     \/ /\ Head(queue) # owner[p] /\ scheduleMap[Head(queue)] = "POSTCREATE"
        /\ GoTo(p, "popDone")
  /\ UNCHANGED <<queue, headVars, pool, pods, crashed, disputed, localVars>>

PopOwn(p) ==
  /\ pc[p] = "popOwn" /\ queue # << >>
  /\ queue' = Tail(queue)
  /\ Exit(p)
  /\ UNCHANGED <<headVars, pool, pods, crashed, disputed>>

PopDone(p) ==
  /\ pc[p] = "popDone" /\ queue # << >>
  /\ queue' = Tail(queue)
  /\ GoTo(p, "poll")
  /\ UNCHANGED <<headVars, pool, pods, crashed, disputed, localVars>>

\* QUEUELIST[0] and QUEUELIST[1:] of an empty slice end the process.
IndexPanic(p) ==
  /\ pc[p] \in {"poll", "popOwn", "popDone", "pop"} /\ queue = << >>
  /\ crashed' = TRUE
  /\ UNCHANGED <<queue, headVars, pool, pods, disputed, pc, localVars>>

-----------------------------------------------------------------------------
(* Creation: resourceOperator with "create" *)

\* CREATING is set, a name is drawn, sm.Type becomes RECVSTART.
Claim(p) ==
  LET t == owner[p] IN
  /\ pc[p] = "claim" /\ drawn[t] < MaxRuns[t]
  /\ scheduleMap' = [scheduleMap EXCEPT ![t] = "CREATING"]
  /\ drawn' = [drawn EXCEPT ![t] = @ + 1]
  /\ randomName' = [randomName EXCEPT ![t] = drawn[t] + 1]
  /\ name' = [name EXCEPT ![p] = drawn[t] + 1]
  /\ insufficient' = [insufficient EXCEPT ![t] = FALSE]
  /\ idx' = [idx EXCEPT ![p] = 0]
  /\ GoTo(p, "assign")
  /\ UNCHANGED <<queue, ips, command, pool, pods, crashed, disputed, owner, ip>>

\* Mutated form of AssignIp: the check for an empty address is gone.
AssignIpUnchecked(p) ==
  /\ pc[p] = "assign"
  /\ \E a \in Addresses \cup {NoIp} :
       /\ IF Exhausted(pool) THEN a = NoIp ELSE Assigns(pool, a)
       /\ ip' = [ip EXCEPT ![p] = a]
  /\ GoTo(p, "create")
  /\ UNCHANGED <<queue, headVars, pool, pods, crashed, disputed, owner, name, idx>>

\* The search of getIpFromIppool; with nothing free the creation is given up
\* as it stands, CREATING and at the head of the queue.
AssignIp(p) ==
  /\ pc[p] = "assign"
  /\ \/ Exhausted(pool) /\ Exit(p)
     \/ \E a \in Addresses :
          /\ Assigns(pool, a)
          /\ ip' = [ip EXCEPT ![p] = a]
          /\ GoTo(p, "create")
          /\ UNCHANGED <<owner, name, idx>>
  /\ UNCHANGED <<queue, headVars, pool, pods, crashed, disputed>>

\* The address is marked and recorded, and the pod is requested under the name
\* in tmpString.  A request that the cluster refuses is only logged.
CreatePod(p) ==
  LET t == owner[p] IN
  /\ pc[p] = "create"
  /\ pool' = pool \cup {ip[p]}
  /\ ips' = [ips EXCEPT ![t] = @ \cup {ip[p]}]
  /\ \/ pods' = pods \cup {[task |-> t, name |-> name[p], idx |-> idx[p],
                            ip |-> ip[p], phase |-> "Pending"]}
     \/ "cluster" \in Behaviours /\ UNCHANGED pods
  /\ GoTo(p, "podStatus")
  /\ UNCHANGED <<queue, scheduleMap, randomName, drawn, command, insufficient,
                 crashed, disputed, localVars>>

\* Get_pod_status looks the pod up under the name in rm.RandomName.  A pod
\* that does not exist has no phase, and the loop asks again for ever.
PodStatus(p) ==
  LET t == owner[p]
      Polled == {d \in pods : d.task = t /\ d.name = randomName[t] /\ d.idx = idx[p]}
  IN
  /\ pc[p] = "podStatus"
  /\ \E d \in Polled :
       \/ /\ d.phase = "Running"
          /\ idx' = [idx EXCEPT ![p] = @ + 1]
          /\ GoTo(p, IF idx[p] + 1 < NodeNum[t] THEN "assign" ELSE "complete")
          /\ UNCHANGED <<insufficient, owner, name, ip>>
       \/ /\ d.phase \in {"Pending", "Unschedulable"}
          /\ insufficient' = [insufficient EXCEPT ![t] = @ \/ d.phase = "Unschedulable"]
          /\ GoTo(p, "podCheck")
          /\ UNCHANGED localVars
       \/ d.phase = "Failed" /\ Exit(p) /\ UNCHANGED insufficient
  /\ UNCHANGED <<queue, scheduleMap, ips, randomName, drawn, command, pool, pods,
                 crashed, disputed>>

\* After the status was broadcast, sm.Type decides whether to give up.
PodCheck(p) ==
  /\ pc[p] = "podCheck"
  /\ IF insufficient[owner[p]]
     THEN Exit(p)
     ELSE GoTo(p, "podStatus") /\ UNCHANGED localVars
  /\ UNCHANGED <<queue, headVars, pool, pods, crashed, disputed>>

\* Mutated form of Complete: the task is not marked as done.
CompleteUnmarked(p) ==
  /\ pc[p] = "complete"
  /\ GoTo(p, "pop")
  /\ UNCHANGED <<queue, headVars, pool, pods, crashed, disputed, localVars>>

Complete(p) ==
  /\ pc[p] = "complete"
  /\ scheduleMap' = [scheduleMap EXCEPT ![owner[p]] = "POSTCREATE"]
  /\ GoTo(p, "pop")
  /\ UNCHANGED <<queue, ips, randomName, drawn, command, insufficient, pool, pods,
                 crashed, disputed, localVars>>

\* The entry is dropped and the goroutine goes on as LogMonitor.
Pop(p) ==
  /\ pc[p] = "pop" /\ queue # << >>
  /\ queue' = Tail(queue)
  /\ name' = [name EXCEPT ![p] = randomName[owner[p]]]
  /\ GoTo(p, "monitor")
  /\ UNCHANGED <<headVars, pool, pods, crashed, disputed, owner, idx, ip>>

-----------------------------------------------------------------------------
(* The end of a training *)

Watched(p) ==
  {d \in pods : /\ d.task = owner[p] /\ d.name = name[p]
                /\ d.idx + 1 = NodeNum[owner[p]]}

\* The log shows 111Done111 or 111Err111; with "race" also while a command of
\* the task runs.  The log of a pod that a delete has left over ends whatever
\* creation its task has by then.
TrainingEnds(p) ==
  /\ \/ "ends" \in Behaviours /\ Settled(owner[p])
     \/ "race" \in Behaviours
  /\ pc[p] = "monitor" /\ \E d \in Watched(p) : d.phase = "Running"
  /\ insufficient' = [insufficient EXCEPT ![owner[p]] = FALSE]
  /\ idx' = [idx EXCEPT ![p] = 0]
  /\ disputed' = IF name[p] = randomName[owner[p]] THEN disputed
                 ELSE disputed \cup ips[owner[p]]
  /\ GoTo(p, "delete")
  /\ UNCHANGED <<queue, scheduleMap, ips, randomName, drawn, command, pool, pods,
                 crashed, owner, name, ip>>

\* Without its pod the log stream cannot be opened again; a read error other
\* than those LogMonitor retries makes it return while the pod runs.
MonitorStops(p) ==
  /\ pc[p] = "monitor"
  /\ Watched(p) = {} \/ "cluster" \in Behaviours
  /\ Exit(p)
  /\ UNCHANGED <<queue, headVars, pool, pods, crashed, disputed>>

\* Delete_pod for pod i, looked up under the name that is in rm.RandomName at
\* that moment.  A delete that the cluster refuses is only logged: the pod keeps
\* its address, which is freed with those of its task all the same.
Delete_pod(p, i) ==
  LET t == owner[p]
      Found == {d \in pods : d.task = t /\ d.name = randomName[t] /\ d.idx = i}
  IN
  \/ pods' = pods \ Found /\ UNCHANGED disputed
  \/ /\ "undeleted" \in Behaviours /\ Found # {}
     /\ disputed' = disputed \cup ips[t] \cup {d.ip : d \in Found}
     /\ UNCHANGED pods

\* Mutated form of DeletePod: the pods are counted from one.
DeletePodFromOne(p) ==
  /\ pc[p] = "delete" /\ idx[p] < NodeNum[owner[p]]
  /\ Delete_pod(p, idx[p] + 1)
  /\ idx' = [idx EXCEPT ![p] = @ + 1]
  /\ UNCHANGED <<queue, headVars, pool, crashed, pc, owner, name, ip>>

\* Mutated form of DeletePod: the addresses are freed before the pods are gone.
DeletePodReleases(p) ==
  /\ pc[p] = "delete" /\ idx[p] < NodeNum[owner[p]]
  /\ Delete_pod(p, idx[p])
  /\ pool' = Released(pool, ips[owner[p]])
  /\ idx' = [idx EXCEPT ![p] = @ + 1]
  /\ UNCHANGED <<queue, headVars, crashed, pc, owner, name, ip>>

\* resourceOperator with "delete": the pods one by one, then, whatever became of
\* them, the addresses in Head.ips, which stays as it is.
DeletePod(p) ==
  /\ pc[p] = "delete" /\ idx[p] < NodeNum[owner[p]]
  /\ Delete_pod(p, idx[p])
  /\ idx' = [idx EXCEPT ![p] = @ + 1]
  /\ UNCHANGED <<queue, headVars, pool, crashed, pc, owner, name, ip>>

\* A STOP that was watched by a second page also overwrites sm.Type.
Release(p) ==
  LET t == owner[p] IN
  /\ pc[p] = "delete" /\ idx[p] >= NodeNum[t]
  /\ pool' = Released(pool, ips[t])
  /\ \/ UNCHANGED insufficient
     \/ command[t] = "STOP" /\ insufficient' = [insufficient EXCEPT ![t] = FALSE]
  /\ Exit(p)
  /\ UNCHANGED <<queue, scheduleMap, ips, randomName, drawn, command, pods, crashed, disputed>>

-----------------------------------------------------------------------------
(* The cluster *)

SetPhase(d, phase) ==
  /\ pods' = (pods \ {d}) \cup {[d EXCEPT !.phase = phase]}
  /\ UNCHANGED <<queue, headVars, pool, crashed, disputed, pc, localVars>>

PodRuns(d) == d.phase \in {"Pending", "Unschedulable"} /\ SetPhase(d, "Running")

PodUnschedulable(d) ==
  "cluster" \in Behaviours /\ d.phase = "Pending" /\ SetPhase(d, "Unschedulable")

PodFails(d) ==
  /\ "cluster" \in Behaviours
  /\ d.phase \in {"Pending", "Running"} /\ SetPhase(d, "Failed")

-----------------------------------------------------------------------------
Work(p) ==
  /\ CanRun(p)
  /\ \/ Start(p) \/ Stop(p) \/ StopTask(p) \/ Restart(p) \/ Reset(p)
     \/ Poll(p) \/ PopOwn(p) \/ PopDone(p) \/ IndexPanic(p)
     \/ Claim(p) \/ AssignIp(p) \/ CreatePod(p) \/ PodStatus(p) \/ PodCheck(p)
     \/ Complete(p) \/ Pop(p)
     \/ MonitorStops(p) \/ DeletePod(p) \/ Release(p)

Outside(p) ==
  /\ CanRun(p)
  /\ \/ \E t \in Tasks, c \in Commands : Receive(p, t, c)
     \/ TrainingEnds(p)

Cluster == \E d \in pods : PodRuns(d) \/ PodUnschedulable(d) \/ PodFails(d)

Next ==
  /\ ~crashed
  /\ (\E p \in Procs : Work(p) \/ Outside(p)) \/ Cluster

Spec == Init /\ [][Next]_vars

\* Every goroutine goes on as long as it can, and a pod that may run does so
\* in the end.  Users owe the system nothing, and a training may last for ever.
Fairness ==
  /\ \A p \in Procs : WF_vars(~crashed /\ Work(p))
  /\ \A t \in Tasks :
       WF_vars(~crashed /\ \E d \in pods : d.task = t /\ PodRuns(d))

FairSpec == Spec /\ Fairness
-----------------------------------------------------------------------------
(* Safety *)

Creating(p) == pc[p] \in {"assign", "create", "podStatus", "podCheck", "complete"}

\* Tasks are created one at a time, however many goroutines wait for the queue
\* and however a creation ended (the loop of client.go:60-97 against the
\* pops of cluster-operator.go:141).
SingleCreation == \A p, q \in Procs : Creating(p) /\ Creating(q) => p = q

\* No goroutine indexes an empty QUEUELIST (client.go:61,81,86,93,
\* cluster-operator.go:141): whoever still needs an entry finds one.
NoCrash == ~crashed

\* A goroutine that waits for its turn has its task in QUEUELIST, so nobody
\* popped its entry on another one's behalf (client.go:92-94).
WaiterIsQueued ==
  \A p \in Procs : pc[p] = "poll" => \E i \in DOMAIN queue : queue[i] = owner[p]

\* Every pod carries the name its task knows now: a later delete, which looks
\* pods up by rm.RandomName (cluster-operator.go:174-177), can still reach it.
\* A delete that failed leaves pods for which this does not hold.
NoOrphans == \A d \in pods : d.ip \notin disputed => d.name = randomName[d.task]

\* Two pods in the cluster never have the same accelerator address
\* (pod-handler.go:701-721 against writeIppool, 736-745), unless a delete of a
\* task that had recorded the address has failed.
AddressesExclusive == \A d, e \in pods : d.ip \notin disputed /\ d.ip = e.ip => d = e

\* The address of a pod stays marked as used for as long as the pod exists, with
\* the same exception: a delete that fails does not reach the addresses of others.
PodAddressesHeld == \A d \in pods : d.ip \notin disputed => d.ip \in pool

\* Every address that is marked as used is recorded in the ips of a task, which
\* is all that writeIppool can ever free (cluster-operator.go:103,181).
NoLeak == \A a \in pool : \E t \in Tasks : a \in ips[t]

-----------------------------------------------------------------------------
(* Liveness and the abstract queue *)

\* Every goroutine that queued its task sees the task created in the end.
EveryStartServed ==
  \A t \in Tasks :
    (\E p \in Procs : owner[p] = t /\ pc[p] = "poll") ~> scheduleMap[t] = "POSTCREATE"

\* The head of QUEUELIST stays in place while its creation runs.
Busy == \E p \in Procs : Creating(p) \/ pc[p] = "pop"

CQ == INSTANCE CreationQueue WITH
  waiting <- IF Busy /\ queue # << >> THEN Tail(queue) ELSE queue,
  active <- {owner[p] : p \in {q \in Procs : Creating(q) \/ pc[q] = "pop"}}

\* QUEUELIST, ScheduleMap and the polling goroutines together implement a
\* queue that creates the tasks in the order of their START commands.
QueueRefines == CQ!CQSpec
=============================================================================
