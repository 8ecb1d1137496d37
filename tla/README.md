# A TLA+ model of k8sMLer-client-go

k8sMLer-client-go is the service behind a web page for machine-learning training. A page opens a
websocket for one task, a (uid, tid) pair; the commands it sends make the service create Kubernetes
pods, give each pod an address of an accelerator network, follow the log of the last pod, tell the page
what happens, and delete the pods in the end. Everything runs in one Go process: one goroutine per
received command, two per page, one for the hub, and one `linklistRun` per registration. Almost all the
state they share (`QUEUELIST`, `IP_POOL`, the fields of a `headNode`) is used without a lock.

File names below are those of the repository; `module.tla` names are those of this directory.

## Inventory

| component | state | operations | talks to |
|---|---|---|---|
| task queue and creation (`client.go` readPump, `cluster-operator.go`) | `QUEUELIST`, `Head.ScheduleMap`, `rm.RandomName`, `rm.Content.Command` | START, STOP, RESTART, RESET; wait for `QUEUELIST[0]`; create; delete | pool, pods, hub, data server |
| address pool (`pod-handler.go` 701-745) | `IP_POOL`, `Head.ips` | search, mark, free, write to `.ippool` | files |
| pods (`pod-handler.go`) | in the cluster | create, status, delete | Kubernetes |
| page list (`linkListOperation.go`) | chain behind `Head`, `listCount` | Append, Remove, PrintList, linklistRun | hub, page pumps |
| hub (`hub.go`) | map of tasks | register, broadcast | page list, page pumps |
| page pumps (`client.go`) | `send`, `sendLog`, the connection | readPump, writePump, serveWs | hub, log monitor |
| log monitor (`common.go` 51-157) | `sm.Type`, `sm.Content.Log`, `logchan` | read a line, hand it over, end the training | linklistRun, queue (delete) |
| persistence (`common.go` 534-650, `listen-main.go` 58-101) | `.update`, `.ippool` | record, remove, reload | start-up |
| data server messages, node information, FTP upload, volumes, services | none | input and output | outside |

How they meet: readPump decodes a message into `Head.rm` and starts a goroutine, which reads `Head.rm`
later. A START appends the task to `QUEUELIST` and polls until the task is at the head; the goroutine
then creates the pods one after the other, waits for each to run, pops the entry and becomes the
`LogMonitor` of the task. `LogMonitor` hands lines over `logchan` to a `linklistRun`, which hands
them over `client.sendLog` to the page's writePump; a writePump that sees a marker sends itself to
`hub.broadcast`, and the hub sends the status to `client.send`, whose receiver is a writePump again.

What makes each component correct, and what is hard about it:

* Queue: one creation at a time, in the order of the STARTs; nobody loses an entry; everyone is served.
  Waiters pop entries of tasks that are done, the creator pops its own, STOP changes `ScheduleMap`
  from a third goroutine, and a creation can be given up at four places.
* Pool: an address in use is marked, and has one user; a marked address can be freed by somebody.
  `Head.ips` outlives the release, RESTART forgets it, releases come from several goroutines.
* Pods: a delete reaches every pod of its task. Pods are created under one name (`tmpString`) and looked
  up under another (`rm.RandomName`).
* Page list: at most one page of each role, the counter agrees with the chain, a listed page has open
  channels. Append runs in the hub, Remove in the readPump of the page that leaves.
* Hub, pumps, monitor: nobody waits for ever, nobody sends on a closed channel, the outcome of a
  training reaches the page. All channels are unbuffered and all messages point to one shared `sm`.
* Persistence: what was written last must fit the cluster after a restart: the address of a pod that
  runs is marked, its task finds it again, and no entry claims what belongs to somebody else. The two files
  are written by different goroutines at different moments, and the process may end at any of them.

`PROJECT.json` lists the hazards line by line, with the properties that cover each.

## Modules

| module | what it is |
|---|---|
| `IpPool` | the search of `getIpFromIppool` and the release of `writeIppool` on a set of marked addresses |
| `Scheduler` | goroutines of all tasks over the queue, the head nodes, the pool and the pods |
| `CreationQueue` | abstract: a first-in first-out queue with one active creation, and its liveness |
| `SchedulerMC` | instances of two and three tasks |
| `SchedulerProofs` | the inductive invariant of the queue, and theorems |
| `AddressProofs` | the inductive invariant of the addresses, and theorems |
| `LeakProofs` | that no address is lost |
| `QueueProofs` | that `Scheduler` implements the safety of `CreationQueue` |
| `Recovery` | `Scheduler` with the files `.ippool` and `.update`, the loss of the process, its start in the mode "update" and the reload |
| `RecoveryMC` | an instance of two tasks |
| `RecoveryProofs` | what the map operators return, and the types of `Recovery` |
| `EntryProofs` | the invariant's first layers: who acts for a task, which names are known, what the entries say |
| `DurableProofs` | its last layers: whose the addresses are, what a page finds, who watches; the theorems |
| `SocketList` | the list operations as operators on a chain and a counter |
| `LogRelay` | hub, pages, `linklistRun` goroutines and `LogMonitor` of one task |
| `LogRelayProofs` | the inductive invariant of the page list beside the hub, and theorems |
| `LogRelayMC` | the instance with the user's page, the page after a refresh, and an administrator's |

### Scheduler

A member of `Procs` is a goroutine started by readPump; `pc` names the statement it is about to execute and
`owner` its task. `queue` is `QUEUELIST`, `scheduleMap`, `ips`, `randomName`, `command` and `insufficient` are
the fields of each head node, `drawn` counts the names a task has drawn, `pool` is the set of addresses whose
entry in `IP_POOL` is true, `pods` the cluster, `disputed` a history variable for the properties (see below). A
name drawn by `GetRandomString` is the number of the creation it was drawn for, since names only have to differ.
`ips` is a set: the order of a comma-separated list is never used.

| code | actions |
|---|---|
| readPump receives and dispatches | `Receive` (`MaySend` for the page, `Accept` for readPump), `Start`, `Stop`, `StopTask`, `Restart`, `Reset` |
| the loop on `QUEUELIST[0]` | `Poll`, `PopOwn`, `PopDone`, `IndexPanic` |
| resourceOperator "create" | `Claim`, `AssignIp`, `CreatePod`, `PodStatus`, `PodCheck`, `Complete`, `Pop` |
| LogMonitor | `TrainingEnds`, `MonitorStops` |
| resourceOperator "delete" | `DeletePod` (with `Delete_pod`) once per pod, `Release` |
| the cluster (external) | `PodRuns`, `PodUnschedulable`, `PodFails` |

*Scheduling.* A statement that directly follows the test it depends on, with nothing between them that
sleeps, sends or calls the network, has its label in `Immediate`; a goroutine with such a label is not
overtaken. Go does not promise this: the runtime may preempt a goroutine anywhere, and several run in
parallel. The behaviour `"preempt"` drops the restriction, and the run `preempt` shows what follows. The
passing runs therefore say what holds when switches happen at blocking calls, the failing one that the
missing lock matters.

*Behaviours* select what may happen beside orderly use, so that each run states what it depends on:

| behaviour | what it adds |
|---|---|
| `"cancel"` | STOP for a task that waits |
| `"repeat"` | START for a task that was asked for already: while it waits, is created, was given up or was created |
| `"rerun"` | RESTART while pods of the task exist |
| `"ends"` | the training ends on its own, while no command of its task runs |
| `"race"` | the same, beside a command |
| `"cluster"` | the cluster refuses, cannot place or fails a pod, and a log stream breaks |
| `"undeleted"` | the cluster refuses to delete a pod, which `Delete_pod` only logs |
| `"preempt"` | see above |

Otherwise a page sends its next command once the goroutines of the last one are done or watch the log
(`Settled`).

*Deletes that fail.* `Delete_pod` (`pod-handler.go` 474-483) logs an error and goes on: the entry of the task is
removed and its addresses are freed (`cluster-operator.go` 179-181), though the pod runs and uses one. That
address may be handed out again, and a START after RESTART changes the name under which the pod could be found.
TLC finds `NoOrphans`, `AddressesExclusive` and `PodAddressesHeld` violated if they are to hold for such a pod.
`disputed` collects the addresses concerned: those that the task of a failed delete had recorded, of the pod
that stayed, and later those that the task has when the log of a pod left over comes to its end and makes a
LogMonitor delete by the name of another creation. The three properties leave these addresses out and say that
no other address suffers. `NoLeak` needs no exception.

### Recovery

`Recovery` extends `Scheduler`: an action that writes a file is the action of `Scheduler` conjoined with
the write (`RStart`, `RStop`, `RComplete`, `RPop`, `RTrainingEnds`, `RDeletePod`, `RRelease`), `LogStarts` is the line
111Start111, which only `.update` notices, `RemoveEntry` is the goroutine that a delete starts, and
`WithoutFiles` are the rest. `poolFile` is `.ippool` as the set of addresses that are true in it, `update` is
`UPDATEMAP`, `updateFile` is `.update`. Of an entry the model keeps the name, the addresses, whether
`sm.Type` is INSUFFICIENTPENDING, and whether the status is at least RESOURCECOMPLETE, which is all that
`reloadUpdateInfo` asks.

`Reboot` ends the process between any two steps, also in the middle of a creation or a delete, and starts it in
the mode "update": goroutines, `QUEUELIST`, `UPDATEMAP` and head nodes are gone, `IP_POOL` is what `.ippool`
says, pods and files stay. `Connect` is the first connection of a page after that, with the reload. `created`
and `missed` are history: the name of the last creation that a task completed, set where RESOURCECOMPLETE is
recorded, and the tasks of which a status did not reach the data server, in which case nothing is recorded.

The two files are written one after the other, and a restart in between loads two that disagree. There are three
such windows: between the record of a completed creation and the write of `.ippool` (`cluster-operator.go` 138,
156), between the write of `.ippool` and the remover in a delete (181, 179), and from the STOP of a creation
that was given up until its delete is done (`client.go` 102-116). What a restart does there is a defect of the
program, shown by the run `crash`: two completed pods share an address. The passing properties say how far the
harm goes. `Torn` is the set of addresses over which the files disagree when the process ends: those recorded
that `.ippool` lacks, those of a completed creation whose write is outstanding, those of a delete whose entry is
still there. `Reboot` adds them to `disputed`, a pod whose address is in dispute does not count as `Durable`,
and for all others the properties hold wherever the process ends.

The model makes three assumptions about the pages.

* A page that shows a training of an earlier process sends RESTART before START. `ScheduleMap` is not
  recorded, so that the service itself would take START at once, with the old addresses in `Head.ips`. TLC finds
  `DurableKnown`, `DurableHeld`, `DurableExclusive` and `EntriesExclusive` violated without this assumption.
* A page sends its first command after its reload, and its next one after the remover of the last delete.
* A page connects once per process. A second connection would reload again, with the flag still set in the
  file, and start a second `LogMonitor`.

### LogRelay

One task and its pages. A blocked send is a state: `hub` is the client the hub is blocked on, `holding` the
`linklistRun` goroutines that are blocked on a page, `writer[c]` says whether a writePump is in its select or
blocked on `hub.broadcast`. A receive happens together with the send it ends. Messages carry a type only; what
is written is read from `sm` at delivery, as in the code. When the stream ends or breaks, LogMonitor opens it
again from its beginning with its flag still set: after START, `ReadLine` may read START and old lines again. A
panic (`nil`, or a send on a closed channel, which also hits a sender that is already blocked) ends the run.
`Append`, `Remove` and `PrintList` are one step each.

## Runs

Addresses are the numbers the loop counts from 20; `MaxRuns` bounds how often a task is created, `MaxLines` the
log lines besides the first START and the end marker, `MaxNotices` the broadcasts of command goroutines.
`CHECK_DEADLOCK FALSE` everywhere: users may stop, the bounds end every run, and the process may crash.

| run | instance | result |
|---|---|---|
| `orderly` | 2 tasks (2 pods and 1 pod), 3 goroutines, 2 addresses, the first task created twice; ends, race, cluster, undeleted | `SingleCreation`, `NoCrash`, `WaiterIsQueued`, `NoLeak` hold |
| `rerun` | the same instance; rerun, repeat, ends, undeleted | `NoOrphans`, `AddressesExclusive`, `PodAddressesHeld` hold |
| `fair` | 3 tasks of 1 pod, 3 addresses, 1 creation; no behaviours; fairness | `QueueRefines` (refinement of `CreationQueue`, liveness included) and `EveryStartServed` hold |
| `cancel` | 2 tasks, cancel | `NoCrash` fails |
| `blocked` | cluster, fairness | `EveryStartServed` fails |
| `preempt` | 3 tasks, preempt | `SingleCreation` fails |
| `recovery` | 2 tasks (2 pods and 1 pod), 3 goroutines, 3 addresses, 2 restarts, the first task created twice, the second one's statuses may be lost; ends | `PoolFileCurrent`, `DurableHeld`, `DurableExclusive`, `DurableKnown`, `EntriesExclusive`, `DurableWatched` hold |
| `crash` | the same with 1 restart and a reliable data server | `CompletedExclusive` fails |
| `pages` | user, refreshed page, administrator; DONE and ERR; the user's page may close | `OnePagePerRole`, `ClosedNotListed`, `PagesListed` hold up to a panic |
| `two_pages` | the same list operations | `NoNilPointer` fails |
| `refresh` | user and refreshed page | `NoClosedSend` fails |
| `hub` | one page, one training, fairness | `HubServes` fails |

Why the bounds are enough: a wrong pop needs a task at the head, one that waits and one that pops for it; three
goroutines give that, three tasks let one wait behind a waiting one. Two addresses for three pods make the pool
run out inside a creation, and an address that is freed by mistake is the next to be handed out. Two creations
of a task give its pods a name that can be stale; the second task needs none for that. `orderly` has 2.4 million
states, `rerun` 4.3 million, `recovery` 1.5 million. Larger instances were explored outside the suite: `rerun`
with "cluster" (over 30 million states without a violation, not exhausted), `recovery` with "undeleted" on three
smaller instances (3.7 to 4.6 million states each, exhausted, all properties hold). Two restarts let one meet
what the other has left: an entry reloaded and not written since, addresses of pods that nobody knows. A page
list never holds more than two pages, and three connections are enough to replace each of them.

The failing runs are described in `PROJECT.json` under `findings`. In short: stopping waiting tasks can index an
empty slice; a creation that is given up blocks the queue until its user reacts; two pops can meet one entry
when a goroutine is preempted; a process that ends between two writes forgets addresses in use; refreshing the
first of two listed pages loses the second and leads to a nil pointer; a refresh while a line is being handed
over closes the channel under the sender; hub and writePump can block each other.

Two more defects have no run of their own. A STOP beside the end of a training frees the addresses of the task
twice, the second time perhaps under another task's pod: with "race" TLC finds `AddressesExclusive` violated, so
that `rerun` excludes it. A delete that fails frees the address of a pod that runs (see above).

### Fairness

`Scheduler!FairSpec`: every goroutine that can take a step of its own takes one in the end (weak fairness:
Go schedules runnable goroutines, and sleeps end), and a pod that may run does so in the end (the cluster of
the `fair` run has room). Commands, the end of a training and failures are never forced.
It also takes for granted that a broadcast to the hub returns; `hub` shows that it may not.

`LogRelay!FairSpec`: weak fairness for steps that stay enabled, strong fairness for a receiver that chooses
among ready channels, since Go's select picks at random. Pages and the training owe nothing.

## Proofs

TLAPS proves the theorems for every set of tasks, goroutines, pages and addresses, every number of pods per
task and every bound, from the assumptions on the constants only (`SchedulerAssumption`: each task asks
for at least one pod; `AddressesAssumption`: addresses are positive numbers; `RecoveryAssumption`: the bound on
restarts is a number, and `Unreliable` is a set of tasks) and, where a theorem says so, an assumption on `Behaviours`. Every safety invariant
of a passing run is stated by a theorem.

| theorem | module | assumes | says |
|---|---|---|---|
| `TypeCorrect` | `SchedulerProofs` | nothing | `[]TypeOK` |
| `CreationsAreSingle`, `QueueNeverEmptyAtIndex`, `WaitersKeepTheirEntry` | `SchedulerProofs` | `Orderly` | `[]SingleCreation`, `[]NoCrash`, `[]WaiterIsQueued` |
| `AddressesStayExclusive`, `PodAddressesStayHeld`, `DeletesReachEveryPod` | `AddressProofs` | `Undisturbed` | `[]AddressesExclusive`, `[]PodAddressesHeld`, `[]NoOrphans` |
| `AddressesAreNeverLost` | `LeakProofs` | `Patient` | `[]NoLeak` |
| `QueueKeepsItsPromise` | `QueueProofs` | `Granting` | `Spec /\ []FindsAddress => CQ!CQSafety` |
| `RTypeCorrect` | `RecoveryProofs` | nothing | `[]RTypeOK` |
| `PoolFileIsCurrent`, `DurableAddressesStayHeld`, `DurableAddressesStayExclusive`, `DurablePodsStayKnown`, `EntriesStayExclusive` | `DurableProofs` | `Calm` | `[]PoolFileCurrent`, `[]DurableHeld`, `[]DurableExclusive`, `[]DurableKnown`, `[]EntriesExclusive` |
| `DurableTrainingsStayWatched` | `DurableProofs` | `Calm`, no cluster | `[]DurableWatched` |
| `RelayTypeCorrect`, `RolesStayApart`, `ClosedPagesAreUnlisted`, `OpenPagesAreListed` | `LogRelayProofs` | nothing | `[]TypeOK`, `[]OnePagePerRole`, `[]ClosedNotListed`, `[]PagesListed` |

The assumptions name what may not happen: `Orderly` no cancel, repeat, preempt; `Undisturbed` no cancel, race,
preempt; `Patient` is `Orderly` without rerun; `Granting` is `Orderly` without cluster; `Calm` allows ends,
cluster and undeleted only. All of them allow deletes that fail, and all but `Granting` a cluster that refuses
or fails pods. The failing runs show why: a property that is proved without "cancel", "race" or "preempt" is one
that they violate, or whose proof rests on one that they violate.

*The queue* (`Orderly`). None of the three theorems is inductive: that a pop removes the right entry depends on
who is at the head and in which state. The invariant `QueueInv` says that a creator has its task at
the head, marked CREATING (`CreatorFits`), that a waiter's task is in the queue and not created
(`WaiterFits`), that of the goroutines of a task one at most is between receiving a command and
watching the log (`OneInControl`), and that what a goroutine is about to pop is still what it tested
(`PopFits`, `PopDoneFits`). A pop by another goroutine then removes an entry that is POSTCREATE, which
no waiter's and no creator's is.

*The abstract queue* (`Granting`). A creation that is given up keeps its entry at the head, so that the mapped queue
would have an entry twice: the refinement holds only if every creation finds an address (`FindsAddress`, in the
theorem as an assumption on the behaviour, since it depends on how many addresses there are) and every
pod is placed. Then every entry is awaited by a goroutine (`EntriesAwaited`), no task is queued twice
(`EntriesDiffer`), and what polling goroutines could drop for others does not exist (`NoPopDone`). Each action maps to
one of the abstract queue or to a stutter: `Start` to `Join`, `Claim` to `Begin`, `Pop` to `End`.

*The addresses* (`Undisturbed`), for trainings that end, for RESTART with live pods, for START repeated at any
time and for deletes that fail. With a repeated START the queue is no longer sound, so the proof cannot use
`QueueInv`: two creations may run at once, of different tasks. What remains is proved in three layers, each on
top of the ones before: of the goroutines of a task one at most deletes or creates, and none creates beside a
delete (`Controlled`); a creation keeps its name, and a delete has removed every pod it has counted, or what it
is about to free is in dispute (`Named`); the addresses a task has recorded are marked and nobody else's, unless
they are stale or in dispute (`Addressed`). `Stale` is the heart: `Head.ips` keeps freed addresses after a
delete, which does no harm as long as the task can free them only after RESTART has cleared them. With "race"
this breaks: a second delete frees them. The theorems except disputed addresses; what they add to that is that
the harm does not spread to others.

*No leak* (`Patient`). RESTART forgets `Head.ips` before it deletes, so that `NoLeak` needs to know that nothing
is marked at that moment. `LeakInv` says for each marked address more than `NoLeak` does: the task that has
recorded it still has pods, creates, or is being deleted, and no RESTART is about to forget it (`MarkedKept`).
That a page may send RESTART only when the task knows of no pods gives the step of `Restart`. A delete that
fails leaves the pods with their task until another STOP; a training that ends beside a command frees addresses
twice but loses none.

*Restarts* (`Calm`). `DurableInv` has six layers; each is preserved given the ones before.

1. `RTypeOK`.
2. `Steady`: a task has one goroutine at a time that does not watch its log, what it asked for still fits when it is
   done, a task whose page is not back is as the restart left it, and `UPDATEMAP` is `.update`.
3. `Naming`: names are drawn once; a creation, a LogMonitor and an entry refer to the pods they were
   meant for; a remover runs when the pods are gone, or the task's addresses are in dispute (`Spoiled`); an incomplete
   entry names no pod.
4. `Recorded`: `Head.ips` and a complete entry have the addresses of the pods they name, an incomplete entry has none,
   and a creation starts without a complete entry.
5. `Addressed`: a task *claims* the recorded addresses it may still free (`Claimed`), and those that a restart
   would make it free (`Loaded`); an entry whose remover is late claims nothing. Up to disputed addresses,
   claims are marked and those of two tasks are disjoint; the address of a durable pod is claimed by its own
   task only and under its own name, and an address is missing in `.ippool` only for a creation that is not
   complete or about to be written (`Open`). The step of `Reboot` is where `Torn` is needed: what the two files
   disagree about is what the claims say nothing of afterwards. This layer has `DurableHeld` and
   `DurableExclusive` as parts, because a claim alone cannot exclude the pods whose task does not know them (a
   status that was lost, or a crash in a creation). Most actions claim nothing new (`KeptAddressed`); the others
   are proved one by one.
6. `Recoverable`: the task of a durable pod has a complete entry with the pod's name, unless a status was lost.

`Watching` is a seventh layer for `DurableWatched`. It needs a cluster that breaks no log stream: LogMonitor returns
on a read error it does not retry, and nobody starts another one before the next restart.

The three assumptions about the pages (see Recovery) are in the actions `RReceive` and `Connect`, so that the
theorems rest on them too. The moment of a restart is not restricted.

*The page list* (no assumption). `ListFits` says that a list has two pages at most, of different roles, and that the
counter agrees until a panic; `Append` and `Remove` preserve it whatever page they are called for. `OnlyRegistered` (a
listed page has registered) makes the page that arrives a new one, so that `ClosedNotListed` and `PagesListed` follow.

TLC confirmed the inductive invariants before they were proved: `QueueInv` with rerun, ends and cluster, `LeakInv`
on the `orderly` instance with one creation of each task (441,087 states), `RefinementInv` on the `fair` one,
`RelayInv` on `pages`. `AddressInv` with failing deletes was exhausted on an instance of 786,369 states and explored
to 11.6 million states on one with "cluster" too; `DurableInv` with `Watching` was exhausted on one of 790,989 states
with restarts at any moment and failing deletes, and explored to 7.0 million states with "cluster".

Only model-checked: liveness, which is outside the prover's reach together with ENABLED: `EveryStartServed`, and
the fairness that `QueueRefines` promises beside the steps that `QueueKeepsItsPromise` covers. Also, how many
addresses suffice for `FindsAddress`, which is a sum over the tasks and needs induction.

## Not modelled

* Of the files: a write that is torn by a crash or by a second writer, and the 4096-byte buffer of the two
  reads. All 181 addresses marked take 4084 bytes, every one that is free again one more, so that from 13
  free ones on `.ippool` is cut and a restart begins with an empty pool; an instance of three addresses with a
  smaller buffer would only show that the buffer was chosen to fit.
* Two messages of a page that are decoded into `Head.rm` before the first goroutine reads it. A page
  whose second message changes the number of selected nodes is excluded for the same reason: `NodeNum`
  is fixed per task. RESTART and START sent at once break `NoOrphans`, `AddressesExclusive` and `NoLeak`: the
  delete of the RESTART looks for pods under the name that the START has drawn.
* Interleavings inside `Append` and `Remove`, and map accesses of the hub while other goroutines read.
* More than one training of a page in `LogRelay`: `mideng`, which is never reset, hides the second failure.
* The coupling of the two models: in `Scheduler` broadcasts return, in `LogRelay` commands are notices.
* Node information, FTP upload, volumes and services: input and output only. Of the messages to the data
  server only their effect on `.update`. `stackOperator.go` is not used. Scripts run inside the pods.

## Plan

1. done: queue, creation, pool, pods, abstract queue; page list, hub, log relay; files and restart.
2. done: proofs of the safety invariants of all passing runs, and of the safety half of `QueueRefines`.
3. next: that `Recovery` between two restarts implements `Scheduler`; what of the three failing hazards of the
   relay (`two_pages`, `refresh`, `hub`) is left when only one page connects; theorems with weaker assumptions
   than `Calm` where TLC agrees.
