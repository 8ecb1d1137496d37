------------------------------ MODULE Recovery ------------------------------
(***************************************************************************)
(* What survives a restart of the service.                                 *)
(*                                                                         *)
(* The process keeps two files: .ippool, a copy of IP_POOL, and .update, a *)
(* copy of UPDATEMAP with one entry per task.  A step of Scheduler that    *)
(* writes one of them is conjoined with that write.  The process may end   *)
(* between any two steps; its operator then starts it again in the mode    *)
(* "update", in which it reads .ippool when it starts and the entry of a   *)
(* task when the task's page connects.  The cluster goes on meanwhile.     *)
(***************************************************************************)
EXTENDS Scheduler, Functions

CONSTANTS
  MaxRestarts,  \* bound: how often the process is restarted
  Unreliable    \* the tasks for which the data server may be out of reach

ASSUME RecoveryAssumption == MaxRestarts \in Nat /\ Unreliable \subseteq Tasks

VARIABLES
  poolFile,     \* .ippool, as the set of addresses that are true in it
  update,       \* UPDATEMAP
  updateFile,   \* .update
  removing,     \* the tasks for which a removeToUpdate goroutine is to run
  connected,    \* the tasks whose page has connected to this process
  recovered,    \* the tasks whose page shows a training of an earlier process
  restarts,     \* how often the process was restarted
  \* for the properties only
  created,      \* the name of the last creation that a task has completed
  missed        \* the tasks of which a status did not reach the data server

fileVars == <<poolFile, update, updateFile, removing>>
processVars == <<connected, recovered, restarts>>
historyVars == <<created, missed>>
rvars == <<vars, fileVars, processVars, historyVars>>

\* An entry of UPDATEMAP: RandomName, ips, whether sm.Type is
\* INSUFFICIENTPENDING, and whether the status is RESOURCECOMPLETE or later.
Entries == [name : Nat, ips : SUBSET Addresses, insufficient : BOOLEAN,
            complete : BOOLEAN]
IsUpdateMap(m) ==
  /\ DOMAIN m \subseteq Tasks
  /\ \A t \in DOMAIN m : m[t] \in Entries

\* An assignment to entries of a map: those in new replace those in old.
Replaced(new, old) ==
  [t \in DOMAIN new \cup DOMAIN old |-> IF t \in DOMAIN new THEN new[t] ELSE old[t]]

RTypeOK ==
  /\ TypeOK
  /\ poolFile \in SUBSET Addresses
  /\ IsUpdateMap(update)
  /\ IsUpdateMap(updateFile)
  /\ removing \in SUBSET Tasks
  /\ connected \in SUBSET Tasks
  /\ recovered \in SUBSET Tasks
  /\ restarts \in 0..MaxRestarts
  /\ created \in [Tasks -> Nat]
  /\ missed \in SUBSET Tasks

\* The first start: no file is read, and every page has connected.
RInit ==
  /\ Init
  /\ poolFile = {}
  /\ update = << >>
  /\ updateFile = << >>
  /\ removing = {}
  /\ connected = Tasks
  /\ recovered = {}
  /\ restarts = 0
  /\ created = [t \in Tasks |-> 0]
  /\ missed = {}

-----------------------------------------------------------------------------
(* The entry of a task *)

\* Mutated form of EntryOf: the addresses are not recorded.
EntryWithoutIps(t, complete) ==
  [name |-> randomName'[t], ips |-> {}, insufficient |-> insufficient'[t],
   complete |-> complete]

\* The head node as the step that sends the status leaves it.
EntryOf(t, complete) ==
  [name |-> randomName'[t], ips |-> ips'[t], insufficient |-> insufficient'[t],
   complete |-> complete]

\* clientSocket with recordToUpdate: the entry of the task is replaced and the
\* whole map written.  Without a connection to the data server neither happens.
Record(t, complete) ==
  \/ /\ update' = Replaced([u \in {t} |-> EntryOf(t, complete)], update)
     /\ updateFile' = update'
     /\ UNCHANGED missed
  \/ /\ t \in Unreliable
     /\ missed' = missed \cup {t}
     /\ UNCHANGED <<update, updateFile>>

\* Mutated form of RemoveEntry: the entry is removed in memory only.
RemoveEntryUnwritten(t) ==
  /\ t \in removing
  /\ update' = Restrict(update, DOMAIN update \ {t})
  /\ removing' = removing \ {t}
  /\ UNCHANGED <<vars, poolFile, updateFile, processVars, historyVars>>

\* removeToUpdate, a goroutine that resourceOperator starts after the pods.
RemoveEntry(t) ==
  /\ t \in removing
  /\ update' = Restrict(update, DOMAIN update \ {t})
  /\ updateFile' = update'
  /\ removing' = removing \ {t}
  /\ UNCHANGED <<vars, poolFile, processVars, historyVars>>

-----------------------------------------------------------------------------
(* The steps of the goroutines with the files they write *)

\* The page has connected, so that the reload of its entry is done, and what the
\* last command started has ended.  A page that shows a training of an earlier
\* process asks for another one as any page does, by RESTART and then START.
RReceive(p, t, c) ==
  /\ t \in connected \ removing
  /\ \/ MaySend(t, c) /\ ~(c = "START" /\ t \in recovered)
     \/ c = "RESTART" /\ t \in recovered /\ Settled(t) /\ ~HasPods(t)
  /\ Accept(p, t, c)
  /\ recovered' = IF c = "RESTART" THEN recovered \ {t} ELSE recovered
  /\ UNCHANGED <<fileVars, connected, restarts, historyVars>>

RStart(p) ==
  /\ Start(p)
  /\ Record(owner[p], FALSE)
  /\ UNCHANGED <<poolFile, removing, processVars, created>>

RStop(p) ==
  /\ Stop(p)
  /\ Record(owner[p], TRUE)
  /\ UNCHANGED <<poolFile, removing, processVars, created>>

\* Mutated form of RComplete: the task is recorded as one that still waits.
RCompleteAsWaiting(p) ==
  /\ Complete(p)
  /\ Record(owner[p], FALSE)
  /\ created' = [created EXCEPT ![owner[p]] = randomName[owner[p]]]
  /\ UNCHANGED <<poolFile, removing, processVars>>

RComplete(p) ==
  /\ Complete(p)
  /\ Record(owner[p], TRUE)
  /\ created' = [created EXCEPT ![owner[p]] = randomName[owner[p]]]
  /\ UNCHANGED <<poolFile, removing, processVars>>

\* Mutated form of RPop: .ippool is written by deletes only.
RPopUnwritten(p) ==
  /\ Pop(p)
  /\ UNCHANGED <<fileVars, processVars, historyVars>>

RPop(p) ==
  /\ Pop(p)
  /\ poolFile' = pool
  /\ UNCHANGED <<update, updateFile, removing, processVars, historyVars>>

\* The log shows 111Start111.
LogStarts(p) ==
  /\ pc[p] = "monitor" /\ \E d \in Watched(p) : d.phase = "Running"
  /\ insufficient' = [insufficient EXCEPT ![owner[p]] = FALSE]
  /\ UNCHANGED <<queue, scheduleMap, ips, randomName, drawn, command, pool, pods,
                 crashed, disputed, pc, localVars>>
  /\ Record(owner[p], TRUE)
  /\ UNCHANGED <<poolFile, removing, processVars, created>>

RTrainingEnds(p) ==
  /\ TrainingEnds(p)
  /\ Record(owner[p], TRUE)
  /\ UNCHANGED <<poolFile, removing, processVars, created>>

\* After the last pod the remover is started.
RDeletePod(p) ==
  /\ DeletePod(p)
  /\ removing' = IF idx'[p] = NodeNum[owner[p]] THEN removing \cup {owner[p]} ELSE removing
  /\ UNCHANGED <<poolFile, update, updateFile, processVars, historyVars>>

\* Mutated form of RRelease: .ippool is written by creations only.
RReleaseUnwritten(p) ==
  /\ Release(p)
  /\ UNCHANGED <<fileVars, processVars, historyVars>>

RRelease(p) ==
  /\ Release(p)
  /\ poolFile' = pool'
  /\ UNCHANGED <<update, updateFile, removing, processVars, historyVars>>

\* The steps that leave both files alone.
WithoutFiles(p) ==
  /\ \/ StopTask(p) \/ Restart(p) \/ Reset(p)
     \/ Poll(p) \/ PopOwn(p) \/ PopDone(p) \/ IndexPanic(p)
     \/ Claim(p) \/ AssignIp(p) \/ CreatePod(p) \/ PodStatus(p) \/ PodCheck(p)
     \/ MonitorStops(p)
  /\ UNCHANGED <<fileVars, processVars, historyVars>>

-----------------------------------------------------------------------------
(* The restart *)

\* A creation is complete that .ippool does not know of yet.
Writing(t) == \E p \in Procs : owner[p] = t /\ pc[p] = "pop"

\* The pods of t are deleted, and its addresses freed, but its entry is still there.
Lingering(t) == t \in removing /\ \A p \in Procs : owner[p] = t => pc[p] # "delete"

\* The addresses over which the two files disagree.
Torn ==
  (UNION {ips[t] \ poolFile : t \in {u \in Tasks : Writing(u)}})
  \cup (UNION {updateFile[t].ips \ poolFile : t \in DOMAIN updateFile})
  \cup (UNION {updateFile[t].ips : t \in {u \in DOMAIN updateFile : Lingering(u)}})

\* Mutated form of Reloaded: the process starts without the mode "update".
ReloadedAfresh == {}

\* The addresses that listen_main finds in .ippool.
Reloaded == poolFile

\* The process ends, also by a crash, and is started in the mode "update".  The
\* head nodes are built anew when the pages connect.
Reboot ==
  /\ restarts < MaxRestarts
  /\ queue' = << >>
  /\ scheduleMap' = [t \in Tasks |-> "BEFORECREATE"]
  /\ ips' = [t \in Tasks |-> {}]
  /\ randomName' = [t \in Tasks |-> 0]
  /\ command' = [t \in Tasks |-> "RESET"]
  /\ insufficient' = [t \in Tasks |-> FALSE]
  /\ pool' = Reloaded
  /\ crashed' = FALSE
  /\ disputed' = disputed \cup Torn
  /\ pc' = [p \in Procs |-> "idle"]
  /\ owner' = [p \in Procs |-> NoTask]
  /\ name' = [p \in Procs |-> 0]
  /\ idx' = [p \in Procs |-> 0]
  /\ ip' = [p \in Procs |-> NoIp]
  /\ update' = << >>
  /\ removing' = {}
  /\ connected' = {}
  /\ recovered' = {}
  /\ restarts' = restarts + 1
  /\ UNCHANGED <<drawn, pods, poolFile, updateFile, historyVars>>

\* The entry of t after the reload: those in the file replace those in memory.
Entry(t) == Replaced(updateFile, update)[t]

\* log_back_to_frontend in the goroutine that serves the connection.
Watch(t) ==
  \E p \in Procs :
    /\ pc[p] = "idle"
    /\ GoTo(p, "monitor")
    /\ owner' = [owner EXCEPT ![p] = t]
    /\ name' = [name EXCEPT ![p] = Entry(t).name]

\* The page of a task connects for the first time after a restart: serveWs,
\* and reloadUpdateInfo with the flag that the operator has set in each entry.
Connect(t) ==
  /\ t \notin connected
  /\ connected' = connected \cup {t}
  /\ update' = Replaced(updateFile, update)
  /\ IF t \in DOMAIN update'
     THEN /\ randomName' = [randomName EXCEPT ![t] = Entry(t).name]
          /\ ips' = [ips EXCEPT ![t] = Entry(t).ips]
          /\ insufficient' = [insufficient EXCEPT ![t] = Entry(t).insufficient]
          /\ IF Entry(t).complete
             THEN Watch(t) /\ recovered' = recovered \cup {t}
             ELSE UNCHANGED <<recovered, pc, owner, name>>
     ELSE UNCHANGED <<randomName, ips, insufficient, recovered, pc, owner, name>>
  /\ UNCHANGED <<queue, scheduleMap, drawn, command, pool, pods, crashed, disputed, idx, ip,
                 poolFile, updateFile, removing, restarts, historyVars>>

-----------------------------------------------------------------------------
RWork(p) ==
  /\ CanRun(p)
  /\ \/ RStart(p) \/ RStop(p) \/ RComplete(p) \/ RPop(p) \/ LogStarts(p)
     \/ RTrainingEnds(p) \/ RDeletePod(p) \/ RRelease(p) \/ WithoutFiles(p)
     \/ \E t \in Tasks, c \in Commands : RReceive(p, t, c)

RCluster == Cluster /\ UNCHANGED <<fileVars, processVars, historyVars>>

RNext ==
  \/ /\ ~crashed
     /\ \/ \E p \in Procs : RWork(p)
        \/ RCluster
        \/ \E t \in Tasks : RemoveEntry(t) \/ Connect(t)
  \/ Reboot

RSpec == RInit /\ [][RNext]_rvars

-----------------------------------------------------------------------------
(* Safety *)

\* What a restart would load lags behind IP_POOL only by addresses of creations
\* that are not complete or about to be written, and never marks an address that
\* is free (cluster-operator.go:156,181 against pod-handler.go:701-745).
PoolFileCurrent ==
  /\ poolFile \subseteq pool
  /\ \A a \in pool \ poolFile : \E t \in Tasks :
       a \in ips[t] /\ (randomName[t] # created[t] \/ Writing(t))

\* A pod of a creation that was completed, so that a restart has to keep it.
Completed(d) == d.name = created[d.task]

\* Two of these never have the same address: what the mode "update" is for
\* ("update mode start up, recovery IP-POOL...", listen-main.go:63).
CompletedExclusive ==
  \A d, e \in pods : Completed(d) /\ Completed(e) /\ d.ip = e.ip => d = e

\* Such a pod, but for those whose address a restart between the writes of the
\* two files, or a delete that failed, has brought into dispute.
Durable(d) == Completed(d) /\ d.ip \notin disputed

\* The address of a durable pod stays marked in memory and on disk, whoever creates
\* and deletes meanwhile and wherever else the process ends (listen-main.go:62-76);
\* the file may wait for the write that completes the creation.
DurableHeld ==
  \A d \in pods :
    Durable(d) => d.ip \in pool /\ (d.ip \in poolFile \/ Writing(d.task))

\* Nobody is given the address of a durable pod a second time: what is in dispute
\* does no harm to any other address.
DurableExclusive ==
  \A d, e \in pods : Durable(d) /\ Durable(e) /\ d.ip = e.ip => d = e

\* The task of a durable pod, once its page is back, knows the pod's name and
\* address, and so can delete the one and free the other (common.go:623-627);
\* only a data server that was out of reach excuses it.
DurableKnown ==
  \A d \in pods :
    Durable(d) /\ d.task \in connected \ missed =>
      d.name = randomName[d.task] /\ d.ip \in ips[d.task]

\* No entry that a restart would load claims the address of a durable pod of another
\* task, which a delete of its own task would then free (common.go:573-588, 627).
EntriesExclusive ==
  \A d \in pods, t \in DOMAIN updateFile :
    Durable(d) /\ d.ip \in updateFile[t].ips => t = d.task \/ t \in removing

\* A training whose last pod runs is watched by a LogMonitor, is about to be, or is
\* being deleted, also after a restart (common.go:642-648).
DurableWatched ==
  \A d \in pods :
    /\ Durable(d) /\ d.phase = "Running" /\ d.idx + 1 = NodeNum[d.task]
    /\ d.task \in connected \ missed
    => \E p \in Procs :
         /\ owner[p] = d.task
         /\ pc[p] \in {"pop", "stop", "delete"} \/ (pc[p] = "monitor" /\ name[p] = d.name)
=============================================================================
