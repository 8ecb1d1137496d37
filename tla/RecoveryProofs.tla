--------------------------- MODULE RecoveryProofs ---------------------------
(***************************************************************************)
(* Types of Recovery, and why .ippool is never ahead of IP_POOL, for every *)
(* set of tasks, goroutines and addresses and for every bound.             *)
(***************************************************************************)
EXTENDS Recovery, SchedulerProofs

-----------------------------------------------------------------------------
(* Entries *)

\* Writing the entry of one task leaves UPDATEMAP a map of entries
\* (recordToUpdate, common.go:534-572).
LEMMA ReplacedFacts ==
  ASSUME NEW new, NEW old
  PROVE  /\ DOMAIN Replaced(new, old) = DOMAIN new \cup DOMAIN old
         /\ \A t \in DOMAIN new : Replaced(new, old)[t] = new[t]
         /\ \A t \in DOMAIN old \ DOMAIN new : Replaced(new, old)[t] = old[t]
  BY DEF Replaced

\* So does loading the file over what is in memory.
LEMMA ReplacedIsMap ==
  ASSUME NEW new, NEW old, IsUpdateMap(new), IsUpdateMap(old)
  PROVE  IsUpdateMap(Replaced(new, old))
<1>1. DOMAIN Replaced(new, old) \subseteq Tasks
  BY ReplacedFacts DEF IsUpdateMap
<1>2. ASSUME NEW t \in DOMAIN Replaced(new, old) PROVE Replaced(new, old)[t] \in Entries
  <2>1. CASE t \in DOMAIN new
    <3>1. Replaced(new, old)[t] = new[t]
      BY <2>1, ReplacedFacts
    <3> QED
      BY <2>1, <3>1 DEF IsUpdateMap
  <2>2. CASE t \in DOMAIN old \ DOMAIN new
    <3>1. Replaced(new, old)[t] = old[t]
      BY <2>2 DEF Replaced
    <3> QED
      BY <2>2, <3>1 DEF IsUpdateMap
  <2> QED
    BY <2>1, <2>2, ReplacedFacts
<1> QED
  BY <1>1, <1>2 DEF IsUpdateMap

\* And removing the entry of a task (removeToUpdate, common.go:573-588).
LEMMA RestrictedIsMap ==
  ASSUME NEW m, IsUpdateMap(m), NEW S
  PROVE  IsUpdateMap(Restrict(m, DOMAIN m \ S))
  BY DEF IsUpdateMap, Restrict

-----------------------------------------------------------------------------
(* Types *)

\* The variables of Recovery that Scheduler does not have.
FileTypes ==
  /\ poolFile \in SUBSET Addresses
  /\ IsUpdateMap(update)
  /\ IsUpdateMap(updateFile)
  /\ removing \in SUBSET Tasks
  /\ connected \in SUBSET Tasks
  /\ recovered \in SUBSET Tasks
  /\ restarts \in 0..MaxRestarts
  /\ created \in [Tasks -> Nat]
  /\ missed \in SUBSET Tasks

\* The first start finds neither pods nor entries.
LEMMA RTypeInit == RInit => RTypeOK
<1> SUFFICES ASSUME RInit PROVE RTypeOK
  OBVIOUS
<1>1. TypeOK
  BY TypeInit DEF RInit
<1>2. IsUpdateMap(<< >>)
  BY DEF IsUpdateMap
<1>3. restarts \in 0..MaxRestarts
  BY RecoveryAssumption DEF RInit
<1> QED
  BY <1>1, <1>2, <1>3 DEF RInit, RTypeOK

\* What is recorded of a task is an entry.
LEMMA RecordTypes ==
  ASSUME TypeOK', FileTypes, NEW t \in Tasks, NEW complete \in BOOLEAN, Record(t, complete)
  PROVE  IsUpdateMap(update') /\ IsUpdateMap(updateFile') /\ missed' \in SUBSET Tasks
<1>1. EntryOf(t, complete) \in Entries
  BY DEF EntryOf, Entries, TypeOK
<1>2. IsUpdateMap([u \in {t} |-> EntryOf(t, complete)])
  BY <1>1 DEF IsUpdateMap
<1>3. CASE /\ update' = Replaced([u \in {t} |-> EntryOf(t, complete)], update)
           /\ updateFile' = update' /\ UNCHANGED missed
  <2> HIDE DEF IsUpdateMap, Record, EntryOf
  <2> QED
    BY <1>2, <1>3, ReplacedIsMap DEF FileTypes
<1>4. CASE missed' = missed \cup {t} /\ UNCHANGED <<update, updateFile>>
  BY <1>4 DEF FileTypes
<1> QED
  BY <1>3, <1>4 DEF Record

\* A step of a goroutine is one that Scheduler knows, or that of a LogMonitor which
\* has seen the training start, or a RESTART after a restart of the process.
LEMMA WorkIsNext ==
  ASSUME NEW p \in Procs, ~crashed, CanRun(p),
         \/ RStart(p) \/ RStop(p) \/ RComplete(p) \/ RPop(p) \/ RTrainingEnds(p)
         \/ RDeletePod(p) \/ RRelease(p) \/ WithoutFiles(p)
  PROVE  Next
  BY DEF RStart, RStop, RComplete, RPop, RTrainingEnds, RDeletePod, RRelease, WithoutFiles,
     Next, Work, Outside

\* No step of a goroutine, no write of a file, no restart and no reload takes a
\* variable out of its type.
LEMMA RTypeStep == RTypeOK /\ [RNext]_rvars => RTypeOK'
<1> SUFFICES ASSUME RTypeOK, [RNext]_rvars PROVE RTypeOK'
  OBVIOUS
<1>0. TypeOK /\ FileTypes
  BY DEF RTypeOK, FileTypes
<1>1. TypeOK' /\ FileTypes' => RTypeOK'
  BY DEF RTypeOK, FileTypes
<1>2. CASE UNCHANGED rvars
  <2>1. TypeOK'
    BY <1>0, <1>2, TypeStep DEF rvars
  <2> QED
    BY <1>0, <1>1, <1>2, <2>1 DEF FileTypes, rvars, fileVars, processVars, historyVars
<1>3. ASSUME NEW p \in Procs, ~crashed, CanRun(p),
             \/ RStart(p) \/ RStop(p) \/ RComplete(p) \/ RPop(p) \/ RTrainingEnds(p)
             \/ RDeletePod(p) \/ RRelease(p) \/ WithoutFiles(p)
      PROVE  RTypeOK'
  <2>1. TypeOK'
    BY <1>0, <1>3, WorkIsNext, TypeStep
  <2>2. pc[p] # "idle" => owner[p] \in Tasks
    BY <1>0 DEF TypeOK
  <2> USE DEF processVars, historyVars, fileVars
  <2>3. CASE RStart(p)
    <3>1. owner[p] \in Tasks
      BY <2>2, <2>3 DEF RStart, Start
    <3>2. IsUpdateMap(update') /\ IsUpdateMap(updateFile') /\ missed' \in SUBSET Tasks
      BY <1>0, <2>1, <2>3, <3>1, RecordTypes DEF RStart
    <3> QED
      BY <1>0, <1>1, <2>1, <2>3, <3>2 DEF RStart, FileTypes
  <2>4. CASE RStop(p)
    <3>1. owner[p] \in Tasks
      BY <2>2, <2>4 DEF RStop, Stop
    <3>2. IsUpdateMap(update') /\ IsUpdateMap(updateFile') /\ missed' \in SUBSET Tasks
      BY <1>0, <2>1, <2>4, <3>1, RecordTypes DEF RStop
    <3> QED
      BY <1>0, <1>1, <2>1, <2>4, <3>2 DEF RStop, FileTypes
  <2>5. CASE RComplete(p)
    <3>1. owner[p] \in Tasks
      BY <2>2, <2>5 DEF RComplete, Complete
    <3>2. IsUpdateMap(update') /\ IsUpdateMap(updateFile') /\ missed' \in SUBSET Tasks
      BY <1>0, <2>1, <2>5, <3>1, RecordTypes DEF RComplete
    <3>3. created' \in [Tasks -> Nat]
      BY <1>0, <2>5, <3>1 DEF RComplete, FileTypes, TypeOK
    <3> QED
      BY <1>0, <1>1, <2>1, <2>5, <3>2, <3>3 DEF RComplete, FileTypes
  <2>6. CASE RPop(p)
    <3>1. owner[p] \in Tasks
      BY <2>2, <2>6 DEF RPop, Pop
    <3>2. created' \in [Tasks -> Nat] /\ poolFile' \in SUBSET Addresses
      BY <1>0, <2>6, <3>1 DEF RPop, FileTypes, TypeOK
    <3> QED
      BY <1>0, <1>1, <2>1, <2>6, <3>2 DEF RPop, FileTypes
  <2>7. CASE RTrainingEnds(p)
    <3>1. owner[p] \in Tasks
      BY <2>2, <2>7 DEF RTrainingEnds, TrainingEnds
    <3>2. IsUpdateMap(update') /\ IsUpdateMap(updateFile') /\ missed' \in SUBSET Tasks
      BY <1>0, <2>1, <2>7, <3>1, RecordTypes DEF RTrainingEnds
    <3> QED
      BY <1>0, <1>1, <2>1, <2>7, <3>2 DEF RTrainingEnds, FileTypes
  <2>8. CASE RDeletePod(p)
    <3>1. owner[p] \in Tasks
      BY <2>2, <2>8 DEF RDeletePod, DeletePod
    <3>2. removing' \in SUBSET Tasks
      BY <1>0, <2>8, <3>1 DEF RDeletePod, FileTypes
    <3> QED
      BY <1>0, <1>1, <2>1, <2>8, <3>2 DEF RDeletePod, FileTypes
  <2>9. CASE RRelease(p)
    <3>1. poolFile' \in SUBSET Addresses
      BY <2>1, <2>9 DEF RRelease, TypeOK
    <3> QED
      BY <1>0, <1>1, <2>1, <2>9, <3>1 DEF RRelease, FileTypes
  <2>10. CASE WithoutFiles(p)
    BY <1>0, <1>1, <2>1, <2>10 DEF WithoutFiles, FileTypes
  <2> QED
    BY <1>3, <2>3, <2>4, <2>5, <2>6, <2>7, <2>8, <2>9, <2>10
<1>4. ASSUME NEW p \in Procs, LogStarts(p) PROVE RTypeOK'
  <2>1. pc[p] = "monitor" /\ owner[p] \in Tasks
    BY <1>0, <1>4 DEF LogStarts, TypeOK
  <2>2. TypeOK'
    BY <1>0, <1>4, <2>1 DEF LogStarts, TypeOK, localVars
  <2>3. IsUpdateMap(update') /\ IsUpdateMap(updateFile') /\ missed' \in SUBSET Tasks
    BY <1>0, <1>4, <2>1, <2>2, RecordTypes DEF LogStarts
  <2> QED
    BY <1>0, <1>1, <1>4, <2>2, <2>3 DEF LogStarts, FileTypes, processVars
<1>5. ASSUME NEW p \in Procs, NEW t \in Tasks, NEW c \in Commands, RReceive(p, t, c)
      PROVE  RTypeOK'
  <2>1. TypeOK'
    BY <1>0, <1>5 DEF RReceive, Accept, GoTo, TypeOK, Labels, Immediate
  <2>2. recovered' \in SUBSET Tasks
    BY <1>0, <1>5 DEF RReceive, FileTypes
  <2> QED
    BY <1>0, <1>1, <1>5, <2>1, <2>2 DEF RReceive, FileTypes, fileVars, historyVars
<1>6. CASE ~crashed /\ RCluster
  <2>1. TypeOK'
    BY <1>0, <1>6, TypeStep DEF RCluster, Next
  <2> QED
    BY <1>0, <1>1, <1>6, <2>1 DEF RCluster, FileTypes, fileVars, processVars, historyVars
<1>7. ASSUME NEW t \in Tasks, RemoveEntry(t) PROVE RTypeOK'
  <2>1. TypeOK'
    BY <1>0, <1>7, TypeStep DEF RemoveEntry
  <2>2. IsUpdateMap(update') /\ IsUpdateMap(updateFile')
    BY <1>0, <1>7, RestrictedIsMap DEF RemoveEntry, FileTypes
  <2>3. removing' \in SUBSET Tasks
    BY <1>0, <1>7 DEF RemoveEntry, FileTypes
  <2> QED
    BY <1>0, <1>1, <1>7, <2>1, <2>2, <2>3 DEF RemoveEntry, FileTypes, processVars, historyVars
<1>8. ASSUME NEW t \in Tasks, Connect(t) PROVE RTypeOK'
  <2>1. IsUpdateMap(Replaced(updateFile, update)) /\ update' = Replaced(updateFile, update)
    BY <1>0, <1>8, ReplacedIsMap DEF Connect, FileTypes
  <2>2. t \in DOMAIN update' => Entry(t) \in Entries
    BY <2>1 DEF Entry, IsUpdateMap
  <2>3. /\ randomName' \in [Tasks -> Nat] /\ ips' \in [Tasks -> SUBSET Addresses]
        /\ insufficient' \in [Tasks -> BOOLEAN] /\ recovered' \in SUBSET Tasks
    <3>1. CASE t \in DOMAIN update'
      <4>1. /\ Entry(t).name \in Nat /\ Entry(t).ips \in SUBSET Addresses
            /\ Entry(t).insufficient \in BOOLEAN
        BY <2>2, <3>1 DEF Entries
      <4>2. /\ randomName' = [randomName EXCEPT ![t] = Entry(t).name]
            /\ ips' = [ips EXCEPT ![t] = Entry(t).ips]
            /\ insufficient' = [insufficient EXCEPT ![t] = Entry(t).insufficient]
            /\ recovered' = recovered \cup {t} \/ recovered' = recovered
        BY <1>8, <3>1 DEF Connect
      <4> QED
        BY <1>0, <4>1, <4>2 DEF FileTypes, TypeOK
    <3>2. CASE t \notin DOMAIN update'
      BY <1>0, <1>8, <3>2 DEF Connect, FileTypes, TypeOK
    <3> QED
      BY <3>1, <3>2
  <2>4. /\ pc' \in [Procs -> Labels] /\ owner' \in [Procs -> Tasks \cup {NoTask}]
        /\ name' \in [Procs -> Nat]
        /\ \A p \in Procs : pc'[p] # "idle" => owner'[p] \in Tasks
        /\ \A p \in Procs : pc'[p] = "create" => pc[p] = "create"
    <3>1. CASE UNCHANGED <<pc, owner, name>>
      BY <1>0, <3>1 DEF TypeOK
    <3>2. CASE t \in DOMAIN update' /\ Watch(t)
      BY <1>0, <2>2, <3>2 DEF Watch, GoTo, TypeOK, Labels, Immediate, Entries
    <3> QED
      BY <1>8, <3>1, <3>2 DEF Connect
  <2>5. TypeOK'
    BY <1>0, <1>8, <2>3, <2>4 DEF Connect, TypeOK
  <2> QED
    BY <1>0, <1>1, <1>8, <2>1, <2>3, <2>5 DEF Connect, FileTypes, historyVars
<1>9. CASE Reboot
  <2>1. TypeOK'
    <3>1. queue' \in Seq(Tasks)
      BY <1>9 DEF Reboot
    <3>2. \A p \in Procs : pc'[p] = "idle"
      BY <1>9 DEF Reboot
    <3>3. /\ pc' \in [Procs -> Labels] /\ scheduleMap' \in [Tasks -> Schedules]
          /\ command' \in [Tasks -> Commands]
      BY <1>9 DEF Reboot, Labels, Immediate, Schedules, Commands
    <3>4. Torn \subseteq Addresses
      <4>1. \A t \in Tasks : ips[t] \subseteq Addresses
        BY <1>0 DEF TypeOK
      <4>2. \A t \in DOMAIN updateFile : updateFile[t].ips \subseteq Addresses
        BY <1>0 DEF IsUpdateMap, Entries, FileTypes
      <4>3. \A a \in Torn :
              (\E t \in Tasks : a \in ips[t]) \/ \E t \in DOMAIN updateFile : a \in updateFile[t].ips
        BY DEF Torn
      <4> QED
        BY <4>1, <4>2, <4>3
    <3>5. disputed' \in SUBSET Addresses
      BY <1>0, <1>9, <3>4 DEF Reboot, TypeOK
    <3> QED
      BY <1>0, <1>9, <3>1, <3>2, <3>3, <3>5 DEF Reboot, Reloaded, FileTypes, TypeOK
  <2>2. IsUpdateMap(<< >>)
    BY DEF IsUpdateMap
  <2>3. restarts' \in 0..MaxRestarts
    BY <1>0, <1>9, RecoveryAssumption DEF Reboot, FileTypes
  <2> QED
    BY <1>0, <1>1, <1>9, <2>1, <2>2, <2>3 DEF Reboot, FileTypes, historyVars
<1> QED
  BY <1>2, <1>3, <1>4, <1>5, <1>6, <1>7, <1>8, <1>9 DEF RNext, RWork

\* Every variable keeps its type through any number of restarts: what is written to
\* .update and .ippool is what a restart expects to load (Recovery's RTypeOK,
\* common.go:534-650, listen-main.go:58-101).
THEOREM RTypeCorrect == RSpec => []RTypeOK
  BY RTypeInit, RTypeStep, PTL DEF RSpec

=============================================================================
