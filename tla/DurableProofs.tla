--------------------------- MODULE DurableProofs ---------------------------
(***************************************************************************)
(* Why the addresses of finished creations survive every restart, but for  *)
(* those in dispute, and why their tasks can still free them, for every    *)
(* set of tasks, goroutines and addresses and for every bound.             *)
(***************************************************************************)
EXTENDS EntryProofs

-----------------------------------------------------------------------------
(* Whose the addresses are *)

\* A task whose recorded addresses may still be freed.
MayFree(t) ==
  \/ HasPods(t)
  \/ scheduleMap[t] = "CREATING"
  \/ \E p \in Procs : owner[p] = t /\
       (pc[p] \in {"pop", "stop", "delete"} \/ Dispatches(p, "STOP"))

Claimed(t) == IF MayFree(t) THEN ips[t] ELSE {}

\* An entry that a restart may rely on: one that is there although the addresses
\* are free is not.
Loadable(t) == t \in DOMAIN updateFile /\ ~Lingering(t)

Loaded(t) == IF Loadable(t) THEN updateFile[t].ips ELSE {}

Claims(t) == Claimed(t) \cup Loaded(t)

FoundIsFree == \A p \in Procs : pc[p] = "create" => ip[p] \notin pool

ClaimsHeld == \A t \in Tasks : Claims(t) \subseteq pool \cup disputed

ClaimsDisjoint == \A t, u \in Tasks : t # u => Claims(t) \cap Claims(u) \subseteq disputed

\* The address of a pod that has to survive is claimed by nobody but its task, as
\* the address of that pod.
DurableOwned ==
  \A d \in pods, t \in Tasks : Durable(d) =>
    /\ d.ip \in Claimed(t) => d.task = t /\ d.name = randomName[t]
    /\ d.ip \in Loaded(t) => d.task = t /\ d.name = updateFile[t].name

PodsDiffer ==
  \A d, e \in pods :
    d.ip \notin disputed /\ d.task = e.task /\ d.name = e.name /\ d.ip = e.ip => d = e

\* A creation runs, was given up, or is about to be written.
Open(t) == randomName[t] # created[t] \/ Writing(t)

\* An address is in IP_POOL and not in .ippool only for such a creation.
Unwritten ==
  /\ poolFile \subseteq pool
  /\ \A a \in pool \ poolFile : \E t \in Tasks : a \in Claimed(t) /\ Open(t)

Addressed ==
  /\ FoundIsFree /\ ClaimsHeld /\ ClaimsDisjoint /\ DurableOwned
  /\ PodsDiffer /\ DurableHeld /\ DurableExclusive /\ Unwritten

-----------------------------------------------------------------------------
(* Steps that claim nothing new *)

\* The pods of a step are those there were, or fewer, and the pools are as before.
KeepsPods ==
  /\ UNCHANGED <<pool, poolFile, created>> /\ disputed \subseteq disputed'
  /\ \A t \in Tasks : Writing(t) => Writing(t)'
  /\ \A e \in pods' : \E d \in pods : SamePod(e, d)
  /\ \A e, f \in pods' : e # f => \E d, g \in pods : d # g /\ SamePod(e, d) /\ SamePod(f, g)
  /\ \A q \in Procs : pc'[q] = "create" => ip'[q] \notin pool

\* What a task claims after a step it has claimed before, as the address of the
\* same pods; and what is not in .ippool yet is claimed as before.
KeepsIps(t) ==
  /\ Claimed(t)' \subseteq Claimed(t)
  /\ randomName'[t] = randomName[t] \/ Claimed(t)' = {}
  /\ \/ Loaded(t)' = {}
     \/ Loaded(t)' \subseteq Loaded(t) /\ updateFile'[t].name = updateFile[t].name
     \/ Loaded(t)' \subseteq Claimed(t) /\ updateFile'[t].name = randomName[t]
  /\ Claimed(t) = {} \/ ~Open(t) \/ (Claimed(t) \subseteq Claimed(t)' /\ Open(t)')

\* Such a step keeps every address where it is.
LEMMA KeptAddressed ==
  ASSUME RTypeOK, Addressed, KeepsPods, \A t \in Tasks : KeepsIps(t)
  PROVE  Addressed'
<1>0. pods \in SUBSET Pods /\ \A d \in pods : d.task \in Tasks
  BY DEF RTypeOK, TypeOK, Pods
<1>1. \A t \in Tasks : Claims(t)' \subseteq Claims(t)
  BY DEF KeepsIps, Claims
<1>2. ClaimsHeld' /\ ClaimsDisjoint'
  BY <1>1 DEF Addressed, ClaimsHeld, ClaimsDisjoint, KeepsPods
<1>3. FoundIsFree'
  BY DEF KeepsPods, FoundIsFree
<1>4. \A e \in pods', d \in pods : SamePod(e, d) /\ Durable(e)' => Durable(d)
  BY DEF SamePod, Durable, Completed, KeepsPods
<1>5. DurableHeld'
  <2> SUFFICES ASSUME NEW e \in pods', Durable(e)'
               PROVE  e.ip \in pool' /\ (e.ip \in poolFile' \/ Writing(e.task)')
    BY DEF DurableHeld
  <2>1. PICK d \in pods : SamePod(e, d)
    BY DEF KeepsPods
  <2>2. /\ d.ip \in pool /\ (d.ip \in poolFile \/ Writing(d.task))
        /\ d.task \in Tasks /\ e.task = d.task /\ e.ip = d.ip
    BY <1>0, <1>4, <2>1 DEF Addressed, DurableHeld, SamePod
  <2>3. Writing(d.task) => Writing(d.task)'
    BY <2>2 DEF KeepsPods
  <2>4. UNCHANGED <<pool, poolFile>>
    BY DEF KeepsPods
  <2>5. (Writing(e.task)' <=> Writing(d.task)')
    BY <2>2
  <2> HIDE DEF Writing
  <2> QED
    BY <2>2, <2>3, <2>4, <2>5
<1>6. DurableExclusive'
  <2> SUFFICES ASSUME NEW e \in pods', NEW f \in pods', Durable(e)', Durable(f)', e.ip = f.ip, e # f
               PROVE  FALSE
    BY DEF DurableExclusive
  <2>1. PICK d \in pods, g \in pods : d # g /\ SamePod(e, d) /\ SamePod(f, g)
    BY DEF KeepsPods
  <2> QED
    BY <1>4, <2>1 DEF Addressed, DurableExclusive, SamePod
<1>7. PodsDiffer'
  <2> SUFFICES ASSUME NEW e \in pods', NEW f \in pods', e.ip \notin disputed',
                      e.task = f.task, e.name = f.name, e.ip = f.ip, e # f
               PROVE  FALSE
    BY DEF PodsDiffer
  <2>1. PICK d \in pods, g \in pods : d # g /\ SamePod(e, d) /\ SamePod(f, g)
    BY DEF KeepsPods
  <2>2. d.task = g.task /\ d.name = g.name /\ d.ip = g.ip /\ d.ip \notin disputed'
    BY <2>1 DEF SamePod
  <2>3. disputed \subseteq disputed'
    BY DEF KeepsPods
  <2> QED
    BY <2>1, <2>2, <2>3 DEF Addressed, PodsDiffer
<1>8. DurableOwned'
  <2> SUFFICES ASSUME NEW e \in pods', NEW t \in Tasks, Durable(e)'
               PROVE  /\ e.ip \in Claimed(t)' => e.task = t /\ e.name = randomName'[t]
                      /\ e.ip \in Loaded(t)' => e.task = t /\ e.name = updateFile'[t].name
    BY DEF DurableOwned
  <2>1. PICK d \in pods : SamePod(e, d)
    BY DEF KeepsPods
  <2>2. /\ d.ip \in Claimed(t) => d.task = t /\ d.name = randomName[t]
        /\ d.ip \in Loaded(t) => d.task = t /\ d.name = updateFile[t].name
    BY <1>4, <2>1 DEF Addressed, DurableOwned
  <2>3. e.task = d.task /\ e.name = d.name /\ e.ip = d.ip
    BY <2>1 DEF SamePod
  <2> QED
    BY <2>2, <2>3 DEF KeepsIps
<1>9. Unwritten'
  <2>1. poolFile' \subseteq pool' /\ pool' = pool /\ poolFile' = poolFile /\ created' = created
    BY DEF KeepsPods, Addressed, Unwritten
  <2>2. ASSUME NEW a \in pool \ poolFile
        PROVE  \E t \in Tasks : a \in Claimed(t)' /\ Open(t)'
    <3>1. PICK t \in Tasks : a \in Claimed(t) /\ Open(t)
      BY <2>2 DEF Addressed, Unwritten
    <3> QED
      BY <3>1 DEF KeepsIps
  <2> QED
    BY <2>1, <2>2 DEF Unwritten
<1> QED
  BY <1>2, <1>3, <1>5, <1>6, <1>7, <1>8, <1>9 DEF Addressed

\* A task for which nothing changes that it or its entry claims.
LEMMA SameClaims ==
  ASSUME KeepsPods, NEW t \in Tasks, MayFree(t)' <=> MayFree(t), Loadable(t)' => Loadable(t),
         UNCHANGED <<ips, randomName>>, t \in DOMAIN updateFile => updateFile'[t] = updateFile[t]
  PROVE  KeepsIps(t)
<1>1. Claimed(t)' = Claimed(t)
  BY DEF Claimed
<1>2. Loaded(t)' = {} \/ (Loaded(t)' = Loaded(t) /\ updateFile'[t] = updateFile[t])
  BY DEF Loaded, Loadable, Lingering
<1>3. Open(t) => Open(t)'
  BY DEF Open, KeepsPods
<1> QED
  BY <1>1, <1>2, <1>3 DEF KeepsIps

\* A task whose status was recorded with the addresses it claims, or without any.
LEMMA RecordedClaims ==
  ASSUME KeepsPods, NEW t \in Tasks, MayFree(t)' <=> MayFree(t), UNCHANGED <<ips, randomName>>,
         NEW complete, Written(t, complete), MayFree(t) \/ ips[t] = {}
  PROVE  KeepsIps(t)
<1>1. Claimed(t)' = Claimed(t) /\ ips[t] = Claimed(t)
  BY DEF Claimed
<1>2. Loaded(t)' \subseteq ips[t] /\ updateFile'[t].name = randomName[t]
  BY DEF Loaded, Written
<1>3. Open(t) => Open(t)'
  BY DEF Open, KeepsPods
<1> QED
  BY <1>1, <1>2, <1>3 DEF KeepsIps

\* No step gives an address away that a pod which has to survive has, or forgets one.
LEMMA AddressedStep ==
  ASSUME Calm, RTypeOK, Steady, Naming, Recorded, Addressed, [RNext]_rvars
  PROVE  Addressed'
<1>0. /\ scheduleMap \in [Tasks -> Schedules] /\ randomName \in [Tasks -> Nat]
      /\ drawn \in [Tasks -> Nat] /\ created \in [Tasks -> Nat]
      /\ ips \in [Tasks -> SUBSET Addresses] /\ pool \in SUBSET Addresses
      /\ poolFile \in SUBSET Addresses
      /\ command \in [Tasks -> Commands] /\ pods \in SUBSET Pods
      /\ \A d \in pods : d.task \in Tasks /\ d.name \in Nat
      /\ pc \in [Procs -> Labels] /\ owner \in [Procs -> Tasks \cup {NoTask}]
      /\ \A p \in Procs : pc[p] # "idle" => owner[p] \in Tasks
      /\ name \in [Procs -> Nat] /\ idx \in [Procs -> Nat]
      /\ ip \in [Procs -> Addresses \cup {NoIp}]
      /\ connected \in SUBSET Tasks /\ removing \in SUBSET Tasks /\ recovered \in SUBSET Tasks
      /\ DOMAIN updateFile \subseteq Tasks
      /\ NoTask \notin Tasks /\ RTypeOK /\ TypeOK /\ MemoryFits /\ Acting
      /\ Naming /\ Recorded /\ Addressed
  BY SchedulerAssumption DEF RTypeOK, TypeOK, Pods, IsUpdateMap, Steady
<1> USE DEF Naming, CreatorNamed, MonitorNamed, KnowsNone, RemoverFits, HasPods, Acting,
   IdleFree, Solo, RequestFits, RecoveredFits, Unconnected, Fresh, Dispatches, Creating,
   GoTo, Exit, headVars, localVars, fileVars, processVars, historyVars
<1>1. CASE UNCHANGED rvars
  <2> USE DEF rvars, vars
  <2>1. KeepsPods
    BY <1>0, <1>1 DEF KeepsPods, Writing, SamePod, FoundIsFree, Addressed
  <2>2. \A u \in Tasks : (MayFree(u)' <=> MayFree(u)) /\ (Loadable(u)' => Loadable(u))
    BY <1>1 DEF MayFree, Loadable, Lingering
  <2> QED
    BY <1>0, <1>1, <2>1, <2>2, SameClaims, KeptAddressed
<1>2. ASSUME NEW p \in Procs, NEW t \in Tasks, NEW c \in Commands, RReceive(p, t, c)
      PROVE  Addressed'
  <2>1. /\ Asks(p, t, c) /\ GoTo(p, "dispatch")
        /\ owner' = [owner EXCEPT ![p] = t] /\ command' = [command EXCEPT ![t] = c]
        /\ recovered' \subseteq recovered /\ recovered \ {t} \subseteq recovered'
        /\ c # "RESTART" => recovered' = recovered
        /\ UNCHANGED <<scheduleMap, ips, randomName, drawn, pool, pods, disputed, name, idx, ip>>
        /\ UNCHANGED <<fileVars, connected, historyVars>>
    BY <1>2, ReceiveFacts
  <2>2. /\ \A q \in Procs : q # p => pc'[q] = pc[q] /\ owner'[q] = owner[q]
        /\ \A q \in Procs : q # p /\ pc[q] = "dispatch" =>
             command'[owner[q]] = command[owner[q]] /\ owner[q] # t
        /\ pc'[p] = "dispatch" /\ owner'[p] = t /\ command'[t] = c
        /\ \A q \in Procs : owner[q] = t => pc[q] = "monitor"
    BY <1>0, <2>1 DEF Asks, Settled
  <2>3. KeepsPods
    BY <1>0, <2>1, <2>2 DEF Asks, KeepsPods, Writing, SamePod, FoundIsFree, Addressed
  <2>4. \A u \in Tasks : MayFree(u)' <=> MayFree(u)
    BY <1>0, <2>1, <2>2 DEF Asks, MayFree
  <2>5. \A u \in Tasks : Loadable(u)' => Loadable(u)
    BY <1>0, <2>1, <2>2 DEF Asks, Loadable, Lingering
  <2>6. UNCHANGED <<ips, randomName, updateFile>>
    BY <1>0, <2>1, <2>2 DEF Asks
  <2> QED
    BY <1>0, <2>3, <2>4, <2>5, <2>6, SameClaims, KeptAddressed
<1>3. ASSUME NEW p \in Procs, CanRun(p), RStart(p) PROVE Addressed'
  <2>1. owner[p] \in Tasks /\ owner[p] \in connected
    BY <1>0, <1>3 DEF Unconnected, RStart, Start
  <2>2. Written(owner[p], FALSE) \/ Unreached(owner[p])
    BY <1>0, <1>3, <2>1, RecordFacts DEF RStart
  <2>3. KeepsPods
    BY <1>0, <1>3 DEF RStart, Start, KeepsPods, Writing, SamePod, FoundIsFree, Addressed
  <2>4. \A u \in Tasks : MayFree(u)' <=> MayFree(u)
    BY <1>0, <1>3 DEF RStart, Start, MayFree
  <2>5. \A u \in Tasks : u # owner[p] /\ Loadable(u)' => Loadable(u)
    BY <1>0, <1>3, <2>1, <2>2 DEF RStart, Start, Loadable, Lingering, Written, Unreached
  <2>6. UNCHANGED <<ips, randomName>>
    BY <1>0, <1>3 DEF RStart, Start
  <2>7. \A u \in DOMAIN updateFile : u # owner[p] => updateFile'[u] = updateFile[u]
    BY <2>2 DEF Written, Unreached
  <2>8. ips[owner[p]] = {}
    <3>1. pc[p] = "dispatch" /\ command[owner[p]] = "START"
      BY <1>3 DEF RStart, Start
    <3>2. Fresh(owner[p]) /\ ~Dispatches(p, "RESTART")
      BY <1>0, <3>1
    <3>3. \A q \in Procs : q # p /\ owner[q] = owner[p] => pc[q] \in {"idle", "monitor"}
      BY <1>0, <3>1
    <3>4. \A q \in Procs : owner[q] = owner[p] => ~Dispatches(q, "RESTART")
      BY <3>2, <3>3
    <3> HIDE DEF Fresh, Dispatches
    <3> QED
      BY <1>0, <2>1, <3>2, <3>4 DEF FreshEmpty, Recorded
  <2>9. CASE Unreached(owner[p])
    <3>1. \A u \in Tasks : Loadable(u)' => Loadable(u)
      BY <1>0, <1>3, <2>9 DEF RStart, Start, Loadable, Lingering, Unreached
    <3> QED
      BY <1>0, <2>3, <2>4, <2>6, <2>9, <3>1, SameClaims, KeptAddressed DEF Unreached
  <2>10. CASE Written(owner[p], FALSE)
    <3>1. KeepsIps(owner[p])
      BY <2>3, <2>1, <2>4, <2>6, <2>8, <2>10, RecordedClaims
    <3>2. \A u \in Tasks : u # owner[p] => KeepsIps(u)
      BY <2>3, <2>4, <2>5, <2>6, <2>7, SameClaims
    <3> QED
      BY <1>0, <2>3, <3>1, <3>2, KeptAddressed
  <2> QED
    BY <2>2, <2>9, <2>10
<1>4. ASSUME NEW p \in Procs, CanRun(p), RStop(p) PROVE Addressed'
  <2>1. owner[p] \in Tasks /\ owner[p] \in connected
    BY <1>0, <1>4 DEF Unconnected, RStop, Stop
  <2>2. Written(owner[p], TRUE) \/ Unreached(owner[p])
    BY <1>0, <1>4, <2>1, RecordFacts DEF RStop
  <2>3. KeepsPods
    BY <1>0, <1>4 DEF RStop, Stop, KeepsPods, Writing, SamePod, FoundIsFree, Addressed
  <2>4. \A u \in Tasks : MayFree(u)' <=> MayFree(u)
    BY <1>0, <1>4 DEF RStop, Stop, MayFree
  <2>5. \A u \in Tasks : u # owner[p] /\ Loadable(u)' => Loadable(u)
    BY <1>0, <1>4, <2>1, <2>2 DEF RStop, Stop, Loadable, Lingering, Written, Unreached
  <2>6. UNCHANGED <<ips, randomName>>
    BY <1>0, <1>4 DEF RStop, Stop
  <2>7. \A u \in DOMAIN updateFile : u # owner[p] => updateFile'[u] = updateFile[u]
    BY <2>2 DEF Written, Unreached
  <2>8. MayFree(owner[p])
    BY <1>0, <1>4, <2>1 DEF RStop, Stop, MayFree
  <2>9. CASE Unreached(owner[p])
    <3>1. \A u \in Tasks : Loadable(u)' => Loadable(u)
      BY <1>0, <1>4, <2>9 DEF RStop, Stop, Loadable, Lingering, Unreached
    <3> QED
      BY <1>0, <2>3, <2>4, <2>6, <2>9, <3>1, SameClaims, KeptAddressed DEF Unreached
  <2>10. CASE Written(owner[p], TRUE)
    <3>1. KeepsIps(owner[p])
      BY <2>3, <2>1, <2>4, <2>6, <2>8, <2>10, RecordedClaims
    <3>2. \A u \in Tasks : u # owner[p] => KeepsIps(u)
      BY <2>3, <2>4, <2>5, <2>6, <2>7, SameClaims
    <3> QED
      BY <1>0, <2>3, <3>1, <3>2, KeptAddressed
  <2> QED
    BY <2>2, <2>9, <2>10
<1>5. ASSUME NEW p \in Procs, CanRun(p), RComplete(p) PROVE Addressed'
  <2>0. PICK t \in Tasks : t = owner[p]
    BY <1>0, <1>5 DEF RComplete, Complete
  <2>1. /\ pc[p] = "complete" /\ GoTo(p, "pop") /\ t \in connected
        /\ scheduleMap' = [scheduleMap EXCEPT ![t] = "POSTCREATE"]
        /\ created' = [created EXCEPT ![t] = randomName[t]]
        /\ UNCHANGED <<ips, randomName, command, pool, pods, disputed, owner, ip>>
        /\ UNCHANGED <<poolFile, removing, processVars>>
    BY <1>0, <2>0, <1>5 DEF Unconnected, RComplete, Complete
  <2>2. Written(t, TRUE) \/ Unreached(t)
    BY <1>0, <1>5, <2>0, <2>1, RecordFacts DEF RComplete
  <2>3. /\ MayFree(t) /\ MayFree(t)' /\ Claimed(t) = ips[t] /\ Writing(t)'
        /\ \A u \in Tasks : u # t => (MayFree(u)' <=> MayFree(u))
    <3>1. MayFree(t) /\ MayFree(t)' /\ Writing(t)'
      BY <1>0, <2>0, <2>1 DEF MayFree, Writing
    <3>2. \A u \in Tasks : HasPods(u)' <=> HasPods(u)
      BY <2>1
    <3> HIDE DEF HasPods
    <3>3. \A u \in Tasks : u # t => (MayFree(u)' <=> MayFree(u))
      BY <1>0, <2>0, <2>1, <3>2 DEF MayFree
    <3> QED
      BY <3>1, <3>3 DEF Claimed
  <2>4. \A u \in Tasks : Claimed(u)' = Claimed(u)
    BY <2>1, <2>3 DEF Claimed
  <2>5. /\ \A u \in Tasks : u # t =>
             Loaded(u)' \subseteq Loaded(u) /\ (Loaded(u)' # {} => updateFile'[u] = updateFile[u])
        /\ Loaded(t)' \subseteq Claimed(t)
        /\ Loaded(t)' # {} => updateFile'[t].name = randomName[t]
    <3>1. \A u \in Tasks : Lingering(u)' <=> Lingering(u)
      BY <1>0, <2>1 DEF Lingering
    <3>2. CASE Written(t, TRUE)
      BY <2>1, <2>3, <3>1, <3>2 DEF Written, Loaded, Loadable
    <3>3. CASE Unreached(t)
      <4>1. Loaded(t) = {}
        BY <1>0, <2>0, <2>1 DEF Recorded, EntryFresh, IncompleteEmpty, Loaded, Loadable
      <4>2. \A u \in Tasks : Loaded(u)' = Loaded(u)
        BY <2>1, <3>1, <3>3 DEF Unreached, Loaded, Loadable
      <4> QED
        BY <3>3, <4>1, <4>2 DEF Unreached
    <3> QED
      BY <2>2, <3>2, <3>3
  <2>6. ASSUME NEW d \in pods, Durable(d)', ~Durable(d)
        PROVE  d.task = t /\ d.name = randomName[t] /\ d.ip \in Claimed(t) /\ d.ip \notin disputed
    <3>1. d.task = t /\ d.name = randomName[t] /\ d.ip \notin disputed
      BY <1>0, <2>1, <2>6 DEF Durable, Completed
    <3> QED
      BY <1>0, <2>3, <3>1 DEF Recorded, CurrentRecorded
  <2>7. FoundIsFree' /\ PodsDiffer'
    BY <1>0, <2>1 DEF Addressed, FoundIsFree, PodsDiffer
  <2>8. ClaimsHeld' /\ ClaimsDisjoint'
    <3>1. \A u \in Tasks : Claims(u)' \subseteq Claims(u)
      BY <2>4, <2>5 DEF Claims
    <3> QED
      BY <1>0, <2>1, <3>1 DEF Addressed, ClaimsHeld, ClaimsDisjoint
  <2>9. DurableHeld'
    <3>1. ASSUME NEW d \in pods, Durable(d)', Durable(d)
          PROVE  d.ip \in pool /\ (d.ip \in poolFile \/ Writing(d.task)')
      <4>1. d.ip \in pool /\ (d.ip \in poolFile \/ Writing(d.task)) /\ d.task \in Tasks
        BY <1>0, <3>1 DEF Addressed, DurableHeld
      <4>2. Writing(d.task) => Writing(d.task)'
        BY <1>0, <2>1 DEF Writing
      <4> QED
        BY <4>1, <4>2
    <3>2. ASSUME NEW d \in pods, Durable(d)', ~Durable(d)
          PROVE  d.ip \in pool /\ Writing(d.task)'
      <4>1. d.ip \in pool /\ d.task = t
        BY <1>0, <2>6, <3>2 DEF Addressed, ClaimsHeld, Claims
      <4> QED
        BY <2>3, <4>1
    <3> HIDE DEF Writing
    <3> QED
      BY <2>1, <3>1, <3>2 DEF DurableHeld
  <2>10. DurableOwned'
    <3> SUFFICES ASSUME NEW d \in pods, NEW u \in Tasks, Durable(d)'
                 PROVE  /\ d.ip \in Claimed(u)' => d.task = u /\ d.name = randomName[u]
                        /\ d.ip \in Loaded(u)' => d.task = u /\ d.name = updateFile'[u].name
      BY <2>1 DEF DurableOwned
    <3>1. CASE Durable(d)
      <4>1. \A w \in Tasks : /\ d.ip \in Claimed(w) => d.task = w /\ d.name = randomName[w]
                             /\ d.ip \in Loaded(w) => d.task = w /\ d.name = updateFile[w].name
        BY <1>0, <3>1 DEF Addressed, DurableOwned
      <4> QED
        BY <2>4, <2>5, <4>1
    <3>2. CASE ~Durable(d)
      <4>1. d.task = t /\ d.name = randomName[t] /\ d.ip \in Claimed(t) /\ d.ip \notin disputed
        BY <2>6, <3>2
      <4>2. d.ip \in Claims(u) => u = t
        BY <1>0, <4>1 DEF Addressed, ClaimsDisjoint, Claims
      <4> QED
        BY <2>4, <2>5, <4>1, <4>2 DEF Claims
    <3> QED
      BY <3>1, <3>2
  <2>11. DurableExclusive'
    <3>1. ASSUME NEW d \in pods, NEW e \in pods, Durable(d)', Durable(e)', d.ip = e.ip, ~Durable(d)
          PROVE  d = e
      <4>1. d.task = t /\ d.name = randomName[t] /\ d.ip \in Claimed(t) /\ d.ip \notin disputed
        BY <2>6, <3>1
      <4>2. e.task = t /\ e.name = randomName[t]
        <5>1. CASE Durable(e)
          BY <1>0, <3>1, <4>1, <5>1 DEF Addressed, DurableOwned
        <5>2. CASE ~Durable(e)
          BY <2>6, <3>1, <5>2
        <5> QED
          BY <5>1, <5>2
      <4> QED
        BY <1>0, <3>1, <4>1, <4>2 DEF Addressed, PodsDiffer
    <3>2. \A d, e \in pods : Durable(d) /\ Durable(e) /\ d.ip = e.ip => d = e
      BY <1>0 DEF Addressed, DurableExclusive
    <3> QED
      BY <2>1, <3>1, <3>2 DEF DurableExclusive
  <2>12. Unwritten'
    <3>1. \A u \in Tasks : Open(u) => Open(u)'
      BY <1>0, <2>1, <2>3 DEF Open, Writing
    <3>2. ASSUME NEW a \in pool \ poolFile PROVE \E u \in Tasks : a \in Claimed(u)' /\ Open(u)'
      <4>1. PICK u \in Tasks : a \in Claimed(u) /\ Open(u)
        BY <1>0 DEF Addressed, Unwritten
      <4> QED
        BY <2>4, <3>1, <4>1
    <3> QED
      BY <1>0, <2>1, <3>2 DEF Addressed, Unwritten
  <2> QED
    BY <2>7, <2>8, <2>9, <2>10, <2>11, <2>12 DEF Addressed
<1>6. ASSUME NEW p \in Procs, CanRun(p), RPop(p) PROVE Addressed'
  <2>1. /\ owner[p] \in Tasks /\ pc[p] = "pop" /\ GoTo(p, "monitor") /\ poolFile' = pool
        /\ UNCHANGED <<scheduleMap, ips, randomName, command, pool, pods, disputed, owner, ip>>
        /\ UNCHANGED <<updateFile, removing, processVars, created>>
    BY <1>0, <1>6 DEF RPop, Pop
  <2>2. \A u \in Tasks : (MayFree(u)' => MayFree(u)) /\ (Loadable(u)' => Loadable(u))
    <3>1. \A u \in Tasks : HasPods(u)' <=> HasPods(u)
      BY <2>1
    <3> HIDE DEF HasPods
    <3> QED
      BY <1>0, <2>1, <3>1 DEF MayFree, Loadable, Lingering
  <2>3. \A u \in Tasks : Claimed(u)' \subseteq Claimed(u) /\ Loaded(u)' \subseteq Loaded(u)
    BY <2>1, <2>2 DEF Claimed, Loaded
  <2>4. \A d \in pods : Durable(d)' <=> Durable(d)
    BY <2>1 DEF Durable, Completed
  <2>5. FoundIsFree' /\ PodsDiffer' /\ Unwritten'
    BY <1>0, <2>1 DEF Addressed, FoundIsFree, PodsDiffer, Unwritten
  <2>6. ClaimsHeld' /\ ClaimsDisjoint'
    BY <1>0, <2>1, <2>3 DEF Addressed, Claims, ClaimsHeld, ClaimsDisjoint
  <2>7. DurableHeld'
    BY <1>0, <2>1, <2>4 DEF Addressed, DurableHeld
  <2>8. DurableExclusive'
    BY <1>0, <2>1, <2>4 DEF Addressed, DurableExclusive
  <2>9. DurableOwned'
    BY <1>0, <2>1, <2>3, <2>4 DEF Addressed, DurableOwned
  <2> QED
    BY <2>5, <2>6, <2>7, <2>8, <2>9 DEF Addressed
<1>7. ASSUME NEW p \in Procs, CanRun(p), LogStarts(p) PROVE Addressed'
  <2>1. owner[p] \in Tasks /\ owner[p] \in connected
    BY <1>0, <1>7, WatchFacts DEF Unconnected, LogStarts
  <2>2. Written(owner[p], TRUE) \/ Unreached(owner[p])
    BY <1>0, <1>7, <2>1, RecordFacts DEF LogStarts
  <2>3. KeepsPods
    BY <1>0, <1>7, WatchFacts DEF LogStarts, KeepsPods, Writing, SamePod, FoundIsFree, Addressed
  <2>4. \A u \in Tasks : MayFree(u)' <=> MayFree(u)
    BY <1>0, <1>7, WatchFacts DEF LogStarts, MayFree
  <2>5. \A u \in Tasks : u # owner[p] /\ Loadable(u)' => Loadable(u)
    BY <1>0, <1>7, WatchFacts, <2>1, <2>2 DEF LogStarts, Loadable, Lingering, Written, Unreached
  <2>6. UNCHANGED <<ips, randomName>>
    BY <1>0, <1>7, WatchFacts DEF LogStarts
  <2>7. \A u \in DOMAIN updateFile : u # owner[p] => updateFile'[u] = updateFile[u]
    BY <2>2 DEF Written, Unreached
  <2>8. MayFree(owner[p])
    <3>1. PICK d \in pods : d.task = owner[p] /\ d.name = name[p]
      BY <1>7, WatchFacts
    <3> QED
      BY <1>0, <1>7, <3>1, <2>1, WatchFacts DEF MayFree
  <2>9. CASE Unreached(owner[p])
    <3>1. \A u \in Tasks : Loadable(u)' => Loadable(u)
      BY <1>0, <1>7, WatchFacts, <2>9 DEF LogStarts, Loadable, Lingering, Unreached
    <3> QED
      BY <1>0, <2>3, <2>4, <2>6, <2>9, <3>1, SameClaims, KeptAddressed DEF Unreached
  <2>10. CASE Written(owner[p], TRUE)
    <3>1. KeepsIps(owner[p])
      BY <2>3, <2>1, <2>4, <2>6, <2>8, <2>10, RecordedClaims
    <3>2. \A u \in Tasks : u # owner[p] => KeepsIps(u)
      BY <2>3, <2>4, <2>5, <2>6, <2>7, SameClaims
    <3> QED
      BY <1>0, <2>3, <3>1, <3>2, KeptAddressed
  <2> QED
    BY <2>2, <2>9, <2>10
<1>8. ASSUME NEW p \in Procs, CanRun(p), RTrainingEnds(p) PROVE Addressed'
  <2>0. PICK t \in Tasks : t = owner[p]
    BY <1>0, <1>8, WatchFacts
  <2>1. /\ pc[p] = "monitor" /\ GoTo(p, "delete") /\ t \in connected /\ disputed \subseteq disputed'
        /\ UNCHANGED <<scheduleMap, ips, randomName, command, pool, pods, owner, ip>>
        /\ UNCHANGED <<poolFile, removing, processVars, created>>
    BY <1>0, <1>8, <2>0, WatchFacts DEF RTrainingEnds, TrainingEnds
  <2>2. Written(t, TRUE) \/ Unreached(t)
    <3>1. Record(t, TRUE) /\ MemoryFits
      BY <1>0, <1>8, <2>0 DEF RTrainingEnds
    <3> QED
      BY <2>1, <3>1, RecordFacts
  <2>3. HasPods(t)
    <3>1. PICK d \in pods : d.task = t /\ d.name = name[p]
      BY <1>8, <2>0, WatchFacts
    <3> QED
      BY <1>0, <2>0, <2>1, <3>1
  <2>4. KeepsPods
    BY <1>0, <2>1 DEF KeepsPods, Writing, SamePod, FoundIsFree, Addressed
  <2>5. /\ MayFree(t) /\ Claimed(t) = ips[t]
        /\ \A u \in Tasks : MayFree(u)' <=> MayFree(u)
    <3>1. \A u \in Tasks : HasPods(u)' <=> HasPods(u)
      BY <2>1
    <3> HIDE DEF HasPods
    <3>2. MayFree(t) /\ MayFree(t)'
      BY <2>3, <3>1 DEF MayFree
    <3>3. \A u \in Tasks : u # t => (MayFree(u)' <=> MayFree(u))
      BY <1>0, <2>0, <2>1, <3>1 DEF MayFree
    <3> QED
      BY <3>2, <3>3 DEF Claimed
  <2>6. ASSUME NEW u \in Tasks, u # t PROVE KeepsIps(u)
    <3>1. u \in DOMAIN updateFile' => u \in DOMAIN updateFile
      BY <2>2, <2>6 DEF Written, Unreached
    <3>2. Loadable(u)' => Loadable(u)
      BY <1>0, <2>0, <2>1, <2>6, <3>1 DEF Loadable, Lingering
    <3>3. u \in DOMAIN updateFile => updateFile'[u] = updateFile[u]
      BY <2>2, <2>6 DEF Written, Unreached
    <3> QED
      BY <2>1, <2>4, <2>5, <3>2, <3>3, SameClaims
  <2>7. KeepsIps(t)
    <3>1. CASE Written(t, TRUE)
      BY <2>1, <2>4, <2>5, <3>1, RecordedClaims
    <3>2. CASE Unreached(t)
      <4>1. ~Fresh(t)
        BY <1>0, <2>3
      <4>2. t \in DOMAIN updateFile =>
              \/ updateFile[t].ips = {}
              \/ updateFile[t].ips = ips[t] /\ updateFile[t].name = randomName[t]
        <5> HIDE DEF Fresh
        <5> QED
          BY <1>0, <2>1, <4>1 DEF Recorded, CompleteRecorded, IncompleteEmpty
      <4>3. Loaded(t)' = {} \/ (Loaded(t)' \subseteq Claimed(t) /\ updateFile'[t].name = randomName[t])
        BY <2>5, <3>2, <4>2 DEF Unreached, Loaded, Loadable
      <4>4. Claimed(t)' = Claimed(t) /\ randomName'[t] = randomName[t]
        BY <2>1, <2>5 DEF Claimed
      <4>5. Open(t) => Open(t)'
        BY <2>1, <2>4 DEF Open, KeepsPods
      <4> QED
        BY <4>3, <4>4, <4>5 DEF KeepsIps
    <3> QED
      BY <2>2, <3>1, <3>2
  <2> QED
    BY <1>0, <2>4, <2>6, <2>7, KeptAddressed
<1>9. ASSUME NEW p \in Procs, CanRun(p), RDeletePod(p) PROVE Addressed'
  <2>0. PICK t \in Tasks : t = owner[p]
    BY <1>0, <1>9, DeleteFacts
  <2>1. /\ pc[p] = "delete" /\ pods' \subseteq pods /\ removing \subseteq removing'
        /\ disputed \subseteq disputed'
        /\ UNCHANGED <<scheduleMap, ips, randomName, command, pool, pc, owner, ip>>
        /\ UNCHANGED <<poolFile, updateFile, created>>
        /\ \A u \in Tasks : u # t => (HasPods(u)' <=> HasPods(u))
    BY <1>0, <1>9, <2>0, DeleteFacts
  <2>2. KeepsPods
    BY <1>0, <2>1 DEF KeepsPods, Writing, SamePod, FoundIsFree, Addressed
  <2>3. \A u \in Tasks : MayFree(u)' <=> MayFree(u)
    <3>1. MayFree(t) /\ MayFree(t)'
      BY <1>0, <2>0, <2>1 DEF MayFree
    <3> HIDE DEF HasPods
    <3>2. \A u \in Tasks : u # t => (MayFree(u)' <=> MayFree(u))
      BY <1>0, <2>1 DEF MayFree
    <3> QED
      BY <3>1, <3>2
  <2>4. \A u \in Tasks : Loadable(u)' => Loadable(u)
    BY <1>0, <2>1 DEF Loadable, Lingering
  <2> QED
    BY <1>0, <2>1, <2>2, <2>3, <2>4, SameClaims, KeptAddressed
<1>10. ASSUME NEW p \in Procs, CanRun(p), RRelease(p) PROVE Addressed'
  <2>0. PICK t \in Tasks : t = owner[p]
    BY <1>0, <1>10 DEF RRelease, Release
  <2>1. /\ pc[p] = "delete" /\ idx[p] >= NodeNum[t] /\ Exit(p)
        /\ pool' = pool \ ips[t] /\ poolFile' = pool'
        /\ UNCHANGED <<scheduleMap, ips, randomName, command, pods, disputed>>
        /\ UNCHANGED <<updateFile, removing, processVars, historyVars>>
    BY <1>0, <2>0, <1>10 DEF RRelease, Release, Released
  <2>2. /\ scheduleMap[t] # "CREATING" /\ t \in connected
        /\ \A q \in Procs : q # p /\ owner[q] = t => pc[q] \in {"idle", "monitor"}
    BY <1>0, <2>0, <2>1 DEF DeleteReaches
  <2>3. Spoiled(t) \/ ~HasPods(t)
    <3> SUFFICES ASSUME ~Spoiled(t), NEW d \in pods, d.task = t, d.name = randomName[d.task]
                 PROVE  FALSE
      BY <1>0
    <3>1. d.idx >= idx[p] /\ d.idx < NodeNum[t]
      BY <1>0, <2>0, <2>1 DEF DeleteReaches, NamesDrawn
    <3>2. d.idx \in Nat /\ idx[p] \in Nat /\ NodeNum[t] \in Nat
      BY <1>0, <2>1, SchedulerAssumption DEF Pods
    <3> QED
      BY <2>1, <3>1, <3>2
  <2>4. Claimed(t) = ips[t] /\ Claimed(t)' \subseteq Claimed(t) /\ Claimed(t)' \subseteq disputed
    <3>1. MayFree(t)
      BY <1>0, <2>0, <2>1 DEF MayFree
    <3>2. (HasPods(t)' <=> HasPods(t)) /\ scheduleMap'[t] # "CREATING"
      BY <2>1, <2>2
    <3>3. \A q \in Procs : owner'[q] = t => pc'[q] \in {"idle", "monitor"}
      BY <1>0, <2>1, <2>2
    <3> HIDE DEF HasPods
    <3>4. MayFree(t)' => Spoiled(t)
      BY <2>3, <3>2, <3>3 DEF MayFree
    <3> QED
      BY <2>1, <3>1, <3>4 DEF Claimed, Spoiled
  <2>5. Loaded(t)' \subseteq Loaded(t) /\ Loaded(t)' \subseteq disputed
    <3>1. ~Lingering(t)
      BY <2>0, <2>1 DEF Lingering
    <3>2. Loaded(t) = IF t \in DOMAIN updateFile THEN updateFile[t].ips ELSE {}
      BY <3>1 DEF Loaded, Loadable
    <3>3. Lingering(t)' <=> t \in removing
      BY <1>0, <2>1, <2>2 DEF Lingering
    <3>4. Loaded(t)' = IF t \in DOMAIN updateFile /\ t \notin removing THEN updateFile[t].ips ELSE {}
      BY <2>1, <3>3 DEF Loaded, Loadable
    <3>5. ASSUME t \in DOMAIN updateFile, t \notin removing
          PROVE  updateFile[t].ips \subseteq disputed
      <4>1. HasPods(t) /\ Spoiled(t)
        BY <1>0, <2>0, <2>1, <2>3, <3>5
      <4>2. ~Fresh(t)
        BY <1>0, <4>1
      <4> HIDE DEF HasPods, Fresh
      <4>3. updateFile[t].ips = {} \/ updateFile[t].ips = ips[t]
        BY <1>0, <2>2, <3>5, <4>2 DEF Recorded, CompleteRecorded, IncompleteEmpty
      <4> QED
        BY <4>1, <4>3 DEF Spoiled
    <3> QED
      BY <3>2, <3>4, <3>5
  <2>6. \A u \in Tasks : u # t => Claimed(u)' = Claimed(u) /\ Loaded(u)' = Loaded(u)
    <3>1. \A u \in Tasks : HasPods(u)' <=> HasPods(u)
      BY <2>1
    <3> HIDE DEF HasPods
    <3>2. \A u \in Tasks : u # t => (MayFree(u)' <=> MayFree(u)) /\ (Loadable(u)' <=> Loadable(u))
      BY <1>0, <2>0, <2>1, <3>1 DEF MayFree, Loadable, Lingering
    <3> QED
      BY <2>1, <3>2 DEF Claimed, Loaded
  <2>7. FoundIsFree' /\ PodsDiffer' /\ Unwritten'
    BY <1>0, <2>1 DEF Addressed, FoundIsFree, PodsDiffer, Unwritten
  <2>8. ClaimsHeld'
    <3>1. \A u \in Tasks : u # t => Claims(u) \subseteq pool \cup disputed
                                    /\ Claims(u) \cap ips[t] \subseteq disputed
      BY <1>0, <2>1, <2>4 DEF Addressed, ClaimsHeld, ClaimsDisjoint, Claims
    <3>2. \A u \in Tasks : u # t => Claims(u)' = Claims(u)
      BY <2>6 DEF Claims
    <3>3. Claims(t)' \subseteq disputed
      BY <2>4, <2>5 DEF Claims
    <3> HIDE DEF Claims
    <3>4. ASSUME NEW u \in Tasks PROVE Claims(u)' \subseteq pool' \cup disputed'
      BY <2>1, <3>1, <3>2, <3>3
    <3> QED
      BY <3>4 DEF ClaimsHeld
  <2>9. ClaimsDisjoint'
    <3>1. \A u \in Tasks : Claims(u)' \subseteq Claims(u)
      BY <2>4, <2>5, <2>6 DEF Claims
    <3> QED
      BY <1>0, <2>1, <3>1 DEF Addressed, ClaimsDisjoint
  <2>10. DurableOwned'
    BY <1>0, <2>1, <2>4, <2>5, <2>6 DEF Addressed, DurableOwned, Durable, Completed
  <2>11. DurableExclusive'
    BY <1>0, <2>1 DEF Addressed, DurableExclusive, Durable, Completed
  <2>12. DurableHeld'
    <3>1. ASSUME NEW d \in pods, Durable(d) PROVE d.ip \in pool /\ d.ip \notin ips[t]
      <4>1. d.ip \in pool /\ d.ip \notin disputed
        BY <1>0, <3>1 DEF Addressed, DurableHeld, Durable
      <4>2. d.ip \in ips[t] => d.task = t /\ d.name = randomName[t]
        BY <1>0, <2>4, <3>1 DEF Addressed, DurableOwned
      <4>3. d.ip \in ips[t] => HasPods(t)
        BY <4>2
      <4> QED
        BY <2>3, <4>1, <4>3 DEF Spoiled
    <3> QED
      BY <2>1, <3>1 DEF DurableHeld, Durable, Completed
  <2> QED
    BY <2>7, <2>8, <2>9, <2>10, <2>11, <2>12 DEF Addressed
<1>11. ASSUME NEW p \in Procs, CanRun(p), StopTask(p),
             UNCHANGED <<fileVars, processVars, historyVars>>
      PROVE  Addressed'
  <2>1. KeepsPods
    BY <1>0, <1>11 DEF StopTask, KeepsPods, Writing, SamePod, FoundIsFree, Addressed
  <2>2. \A u \in Tasks : MayFree(u)' <=> MayFree(u)
    BY <1>0, <1>11 DEF StopTask, MayFree
  <2>3. \A u \in Tasks : Loadable(u)' => Loadable(u)
    BY <1>0, <1>11 DEF StopTask, Loadable, Lingering
  <2>4. UNCHANGED <<ips, randomName, updateFile>>
    BY <1>0, <1>11 DEF StopTask
  <2> QED
    BY <1>0, <2>1, <2>2, <2>3, <2>4, SameClaims, KeptAddressed
<1>12. ASSUME NEW p \in Procs, CanRun(p), Restart(p),
             UNCHANGED <<fileVars, processVars, historyVars>>
      PROVE  Addressed'
  <2>1. /\ owner[p] \in Tasks /\ owner[p] \notin removing /\ owner[p] \in connected
        /\ \A q \in Procs : q # p /\ owner[q] = owner[p] => pc[q] \in {"idle", "monitor"}
    <3>1. pc[p] \in Labels \ {"idle", "monitor", "delete"}
      BY <1>0, <1>12 DEF Restart
    <3>2. owner[p] \in Tasks /\ owner[p] \notin removing /\ owner[p] \in connected
      BY <1>0, <3>1
    <3>3. \A q \in Procs : q # p /\ owner[q] = owner[p] => pc[q] \in {"idle", "monitor"}
      BY <1>0, <3>1
    <3> QED
      BY <3>2, <3>3
  <2>2. /\ Dispatches(p, "RESTART") /\ GoTo(p, "delete")
        /\ scheduleMap' = [scheduleMap EXCEPT ![owner[p]] = "BEFORECREATE"]
        /\ ips' = [ips EXCEPT ![owner[p]] = {}]
        /\ UNCHANGED <<randomName, command, pool, pods, disputed, owner, ip>>
        /\ UNCHANGED <<fileVars, processVars, historyVars>>
    BY <1>12 DEF Restart
  <2>3. KeepsPods
    BY <1>0, <2>2 DEF KeepsPods, Writing, SamePod, FoundIsFree, Addressed
  <2>4. \A u \in Tasks : u # owner[p] => (MayFree(u)' <=> MayFree(u)) /\ (Loadable(u)' => Loadable(u))
    BY <1>0, <2>1, <2>2 DEF MayFree, Loadable, Lingering
  <2>5. \A u \in Tasks : u # owner[p] => KeepsIps(u)
    <3>1. ASSUME NEW u \in Tasks, u # owner[p]
          PROVE  KeepsIps(u)
      <4>1. Claimed(u)' = Claimed(u) /\ Loaded(u)' \subseteq Loaded(u)
        BY <1>0, <2>2, <2>4, <3>1 DEF Claimed, Loaded
      <4>2. Open(u) => Open(u)'
        BY <2>2, <2>3 DEF Open, KeepsPods
      <4> QED
        BY <2>2, <4>1, <4>2 DEF KeepsIps
    <3> QED
      BY <3>1
  <2>6. KeepsIps(owner[p])
    <3>1. ~MayFree(owner[p])
      BY <1>0, <2>1, <2>2 DEF MayFree
    <3>2. Claimed(owner[p]) = {} /\ Claimed(owner[p])' = {}
      BY <1>0, <2>1, <2>2, <3>1 DEF Claimed
    <3>3. Loadable(owner[p])' => Loadable(owner[p])
      BY <2>1, <2>2 DEF Loadable, Lingering
    <3>4. Loaded(owner[p])' \subseteq Loaded(owner[p])
      BY <2>2, <3>3 DEF Loaded
    <3> QED
      BY <2>2, <3>2, <3>4 DEF KeepsIps
  <2> QED
    BY <1>0, <2>3, <2>5, <2>6, KeptAddressed
<1>13. ASSUME NEW p \in Procs, CanRun(p), Claim(p),
             UNCHANGED <<fileVars, processVars, historyVars>>
      PROVE  Addressed'
  <2>1. /\ owner[p] \in Tasks /\ owner[p] \notin removing /\ owner[p] \in connected
        /\ \A q \in Procs : q # p /\ owner[q] = owner[p] => pc[q] \in {"idle", "monitor"}
    <3>1. pc[p] \in Labels \ {"idle", "monitor", "delete"}
      BY <1>0, <1>13 DEF Claim
    <3>2. owner[p] \in Tasks /\ owner[p] \notin removing /\ owner[p] \in connected
      BY <1>0, <3>1
    <3>3. \A q \in Procs : q # p /\ owner[q] = owner[p] => pc[q] \in {"idle", "monitor"}
      BY <1>0, <3>1
    <3> QED
      BY <3>2, <3>3
  <2>2. /\ pc[p] = "claim" /\ GoTo(p, "assign")
        /\ scheduleMap' = [scheduleMap EXCEPT ![owner[p]] = "CREATING"]
        /\ \A u \in Tasks : u # owner[p] => randomName'[u] = randomName[u]
        /\ UNCHANGED <<ips, command, pool, pods, disputed, owner, ip>>
        /\ UNCHANGED <<fileVars, processVars, historyVars>>
    BY <1>0, <1>13 DEF Claim
  <2>3. KeepsPods
    BY <1>0, <2>2 DEF KeepsPods, Writing, SamePod, FoundIsFree, Addressed
  <2>4. \A u \in Tasks : u # owner[p] => (MayFree(u)' <=> MayFree(u)) /\ (Loadable(u)' => Loadable(u))
    BY <1>0, <2>1, <2>2 DEF MayFree, Loadable, Lingering
  <2>5. \A u \in Tasks : u # owner[p] => KeepsIps(u)
    <3>1. ASSUME NEW u \in Tasks, u # owner[p]
          PROVE  KeepsIps(u)
      <4>1. Claimed(u)' = Claimed(u) /\ Loaded(u)' \subseteq Loaded(u)
        BY <1>0, <2>2, <2>4, <3>1 DEF Claimed, Loaded
      <4>2. Open(u) => Open(u)'
        BY <2>2, <2>3, <3>1 DEF Open, KeepsPods
      <4> QED
        BY <2>2, <3>1, <4>1, <4>2 DEF KeepsIps
    <3> QED
      BY <3>1
  <2>6. KeepsIps(owner[p])
    <3>1. ips[owner[p]] = {}
      BY <1>0, <2>1, <2>2 DEF Recorded, FreshEmpty
    <3>2. Claimed(owner[p]) = {} /\ Claimed(owner[p])' = {}
      BY <2>2, <3>1 DEF Claimed
    <3>3. Loadable(owner[p])' => Loadable(owner[p])
      BY <2>1, <2>2 DEF Loadable, Lingering
    <3>4. Loaded(owner[p])' \subseteq Loaded(owner[p])
      BY <2>2, <3>3 DEF Loaded
    <3> QED
      BY <2>2, <3>2, <3>4 DEF KeepsIps
  <2> QED
    BY <1>0, <2>3, <2>5, <2>6, KeptAddressed
<1>14. ASSUME NEW p \in Procs, CanRun(p), CreatePod(p),
             UNCHANGED <<fileVars, processVars, historyVars>>
      PROVE  Addressed'
  <2>0. PICK t \in Tasks : t = owner[p]
    BY <1>0, <1>14 DEF CreatePod
  <2>1. /\ owner[p] = t /\ pc[p] = "create" /\ GoTo(p, "podStatus")
        /\ pool' = pool \cup {ip[p]} /\ ips' = [ips EXCEPT ![t] = @ \cup {ip[p]}]
        /\ UNCHANGED <<scheduleMap, randomName, command, disputed, owner, ip>>
        /\ UNCHANGED <<fileVars, processVars, historyVars>>
    BY <1>0, <2>0, <1>14 DEF CreatePod
  <2>2. /\ ip[p] \notin pool /\ scheduleMap[t] = "CREATING"
        /\ randomName[t] # created[t]
        /\ \A q \in Procs \ {p} : pc[q] # "create"
    BY <1>0, <2>1, <1>14, RunFacts DEF Addressed, FoundIsFree
  <2>3. ASSUME NEW d \in pods', d \notin pods
        PROVE  /\ d.task = t /\ d.name = randomName[t] /\ d.ip = ip[p]
               /\ ~Durable(d)' /\ \A e \in pods' : e \notin pods => e = d
    <3>1. name[p] = randomName[t]
      BY <1>0, <2>1
    <3> QED
      BY <2>1, <2>2, <2>3, <3>1, <1>14 DEF CreatePod, Durable, Completed
  <2>4. \A d \in pods : Durable(d)' <=> Durable(d)
    BY <2>1 DEF Durable, Completed
  <2>5. MayFree(t) /\ MayFree(t)'
    BY <2>1, <2>2 DEF MayFree
  <2>6. \A u \in Tasks : u # t => (MayFree(u)' <=> MayFree(u))
    <3>1. \A u \in Tasks : u # t => (HasPods(u)' <=> HasPods(u))
      BY <1>0, <2>1, <1>14 DEF CreatePod
    <3> HIDE DEF HasPods
    <3> QED
      BY <1>0, <2>1, <3>1 DEF MayFree
  <2>7. \A u \in Tasks : Loaded(u)' = Loaded(u)
    <3>1. \A u \in Tasks : Loadable(u)' <=> Loadable(u)
      BY <1>0, <2>1 DEF Loadable, Lingering
    <3> QED
      BY <2>1, <3>1 DEF Loaded
  <2>8. /\ Claimed(t)' = Claimed(t) \cup {ip[p]}
        /\ \A u \in Tasks : u # t => Claimed(u)' = Claimed(u)
    BY <1>0, <2>1, <2>5, <2>6 DEF Claimed
  <2>9. FoundIsFree'
    BY <1>0, <2>1, <2>2 DEF FoundIsFree
  <2>10. ClaimsHeld'
    BY <1>0, <2>1, <2>7, <2>8 DEF Addressed, ClaimsHeld, Claims
  <2>11. ClaimsDisjoint'
    <3>1. \A u \in Tasks : ip[p] \in Claims(u) => ip[p] \in disputed
      BY <1>0, <2>2 DEF Addressed, ClaimsHeld
    <3>2. /\ Claims(t)' = Claims(t) \cup {ip[p]}
          /\ \A u \in Tasks : u # t => Claims(u)' = Claims(u)
      BY <2>1, <2>7, <2>8 DEF Claims
    <3>3. \A u, w \in Tasks : u # w => Claims(u) \cap Claims(w) \subseteq disputed
      BY <1>0 DEF Addressed, ClaimsDisjoint
    <3> HIDE DEF Claims
    <3>4. ASSUME NEW u \in Tasks, NEW w \in Tasks, u # w
          PROVE  Claims(u)' \cap Claims(w)' \subseteq disputed
      <4>1. CASE u = t
        BY <3>1, <3>2, <3>3, <3>4, <4>1
      <4>2. CASE w = t
        BY <3>1, <3>2, <3>3, <3>4, <4>2
      <4>3. CASE u # t /\ w # t
        BY <3>2, <3>3, <3>4, <4>3
      <4> QED
        BY <4>1, <4>2, <4>3
    <3> QED
      BY <2>1, <3>4 DEF ClaimsDisjoint
  <2>12. DurableOwned'
    <3> SUFFICES ASSUME NEW d \in pods', NEW u \in Tasks, Durable(d)'
                 PROVE  /\ d.ip \in Claimed(u)' => d.task = u /\ d.name = randomName[u]
                        /\ d.ip \in Loaded(u)' => d.task = u /\ d.name = updateFile[u].name
      BY <2>1 DEF DurableOwned
    <3>1. d \in pods /\ Durable(d) /\ d.ip # ip[p]
      BY <1>0, <2>2, <2>3, <2>4 DEF Addressed, DurableHeld
    <3>2. (d.ip \in Claimed(u)' => d.ip \in Claimed(u)) /\ (d.ip \in Loaded(u)' => d.ip \in Loaded(u))
      BY <2>7, <2>8, <3>1
    <3> QED
      BY <1>0, <3>1, <3>2 DEF Addressed, DurableOwned
  <2>13. PodsDiffer'
    <3>1. ASSUME NEW d \in pods', NEW e \in pods, d \notin pods, d.task = e.task, d.name = e.name,
                 d.ip \notin disputed
          PROVE  d.ip # e.ip
      <4>1. e.ip \in Claimed(t)
        BY <1>0, <2>3, <2>5, <3>1 DEF Recorded, CurrentRecorded, Claimed
      <4> QED
        BY <1>0, <2>1, <2>2, <2>3, <3>1, <4>1 DEF Addressed, ClaimsHeld, Claims
    <3> QED
      BY <1>0, <2>1, <2>3, <3>1 DEF Addressed, PodsDiffer
  <2>14. DurableHeld' /\ DurableExclusive'
    <3>1. \A u \in Tasks : Writing(u) => Writing(u)'
      BY <1>0, <2>1 DEF Writing
    <3>2. \A d \in pods' : Durable(d)' => d \in pods /\ Durable(d) /\ d.task \in Tasks
      BY <1>0, <2>3, <2>4
    <3> HIDE DEF Writing, Durable
    <3> QED
      BY <1>0, <2>1, <3>1, <3>2 DEF Addressed, DurableHeld, DurableExclusive
  <2>15. Unwritten'
    <3>1. ASSUME NEW a \in pool \ poolFile
          PROVE  \E u \in Tasks : a \in Claimed(u)' /\ Open(u)'
      <4>1. PICK u \in Tasks : a \in Claimed(u) /\ Open(u)
        BY <1>0 DEF Addressed, Unwritten
      <4>2. a \in Claimed(u)'
        BY <2>8, <4>1
      <4>3. Open(u)'
        BY <1>0, <2>1, <4>1 DEF Open, Writing
      <4> QED
        BY <4>2, <4>3
    <3>2. ip[p] \in Claimed(t)' /\ Open(t)'
      BY <2>1, <2>2, <2>8 DEF Open
    <3> QED
      BY <1>0, <2>1, <3>1, <3>2 DEF Addressed, Unwritten
  <2> QED
    BY <2>9, <2>10, <2>11, <2>12, <2>13, <2>14, <2>15 DEF Addressed
<1>15. ASSUME NEW p \in Procs, Ends(p),
             UNCHANGED <<scheduleMap, ips, randomName, drawn, command, pool, pods, disputed>>,
             UNCHANGED <<fileVars, processVars, historyVars>>
      PROVE  Addressed'
  <2>1. KeepsPods
    BY <1>0, <1>15 DEF Ends, KeepsPods, Writing, SamePod, FoundIsFree, Addressed
  <2>2. \A u \in Tasks : MayFree(u)' <=> MayFree(u)
    BY <1>0, <1>15 DEF Ends, MayFree
  <2>3. \A u \in Tasks : Loadable(u)' => Loadable(u)
    BY <1>0, <1>15 DEF Ends, Loadable, Lingering
  <2>4. UNCHANGED <<ips, randomName, updateFile>>
    BY <1>0, <1>15 DEF Ends
  <2> QED
    BY <1>0, <2>1, <2>2, <2>3, <2>4, SameClaims, KeptAddressed
<1>16. ASSUME NEW p \in Procs, GoesOn(p),
             UNCHANGED <<scheduleMap, ips, randomName, drawn, command, pool, pods, disputed>>,
             UNCHANGED <<fileVars, processVars, historyVars>>
      PROVE  Addressed'
  <2>1. KeepsPods
    BY <1>0, <1>16 DEF GoesOn, Free, KeepsPods, Writing, SamePod, FoundIsFree, Addressed
  <2>2. \A u \in Tasks : MayFree(u)' <=> MayFree(u)
    BY <1>0, <1>16 DEF GoesOn, Free, MayFree
  <2>3. \A u \in Tasks : Loadable(u)' => Loadable(u)
    BY <1>0, <1>16 DEF GoesOn, Free, Loadable, Lingering
  <2>4. UNCHANGED <<ips, randomName, updateFile>>
    BY <1>0, <1>16 DEF GoesOn, Free
  <2> QED
    BY <1>0, <2>1, <2>2, <2>3, <2>4, SameClaims, KeptAddressed
<1>17. CASE RCluster
  <2>1. /\ UNCHANGED <<scheduleMap, ips, randomName, drawn, command, pool, disputed, pc, localVars>>
        /\ \A e \in pods' : \E d \in pods : SamePod(e, d)
        /\ \A d \in pods : \E e \in pods' : SamePod(e, d)
        /\ UNCHANGED <<fileVars, processVars, historyVars>>
    BY <1>0, <1>17, ClusterFacts
  <2>2. KeepsPods
    <3>1. \A e, f \in pods' : e # f => \E d, g \in pods : d # g /\ SamePod(e, d) /\ SamePod(f, g)
      BY <1>0, <1>17, ClusterFacts
    <3> QED
      BY <1>0, <2>1, <3>1 DEF KeepsPods, Writing, FoundIsFree, Addressed
  <2>3. \A u \in Tasks : MayFree(u)' <=> MayFree(u)
    <3>1. \A u \in Tasks : HasPods(u)' <=> HasPods(u)
      BY <2>1 DEF SamePod
    <3> HIDE DEF HasPods
    <3> QED
      BY <2>1, <3>1 DEF MayFree
  <2>4. \A u \in Tasks : Loadable(u)' => Loadable(u)
    BY <1>0, <2>1 DEF SamePod, Loadable, Lingering
  <2>5. UNCHANGED <<ips, randomName, updateFile>>
    BY <1>0, <2>1 DEF SamePod
  <2> QED
    BY <1>0, <2>2, <2>3, <2>4, <2>5, SameClaims, KeptAddressed
<1>18. ASSUME NEW t \in Tasks, RemoveEntry(t) PROVE Addressed'
  <2>1. t \in connected /\ RemoveEntry(t) /\ MemoryFits
    BY <1>0, <1>18 DEF RemoveEntry, Unconnected
  <2>2. /\ DOMAIN updateFile' = DOMAIN updateFile \ {t}
        /\ \A u \in DOMAIN updateFile : u # t => updateFile'[u] = updateFile[u]
    BY <2>1, RemoveFacts
  <2>3. UNCHANGED <<vars, poolFile, processVars, historyVars>> /\ removing' = removing \ {t}
    BY <1>18 DEF RemoveEntry
  <2>4. KeepsPods
    BY <1>0, <2>3 DEF vars, KeepsPods, Writing, SamePod, FoundIsFree, Addressed
  <2>5. \A u \in Tasks : MayFree(u)' <=> MayFree(u)
    BY <2>3 DEF vars, MayFree
  <2>6. \A u \in Tasks : u # t => (Loadable(u)' => Loadable(u))
    BY <2>2, <2>3 DEF vars, Loadable, Lingering
  <2>7. ~Loadable(t)'
    BY <2>2 DEF Loadable, Lingering
  <2>8. ASSUME NEW u \in Tasks PROVE KeepsIps(u)
    <3>1. Claimed(u)' = Claimed(u)
      BY <2>3, <2>5 DEF vars, Claimed
    <3>2. Loaded(u)' = {} \/ (Loaded(u)' = Loaded(u) /\ updateFile'[u] = updateFile[u])
      BY <2>2, <2>6, <2>7 DEF Loaded, Loadable, Lingering
    <3>3. Open(u)' <=> Open(u)
      BY <2>3 DEF vars, Open, Writing
    <3> QED
      BY <2>3, <3>1, <3>2, <3>3 DEF KeepsIps, vars
  <2> QED
    BY <1>0, <2>4, <2>8, KeptAddressed
<1>19. ASSUME NEW t \in Tasks, Connect(t) PROVE Addressed'
  <2>1. Joins(t)
    BY <1>0, <1>19, ConnectFacts
  <2>2. /\ t \notin connected /\ t \notin removing /\ ips[t] = {} /\ \A q \in Procs : owner[q] # t
        /\ UNCHANGED <<scheduleMap, command, pool, pods, disputed, ip, poolFile, updateFile,
                        removing, created>>
    BY <1>0, <1>19 DEF Connect
  <2>3. /\ \A u \in Tasks : u # t => randomName'[u] = randomName[u] /\ ips'[u] = ips[u]
        /\ t \in DOMAIN updateFile => randomName'[t] = updateFile[t].name /\ ips'[t] = updateFile[t].ips
        /\ t \notin DOMAIN updateFile => ips'[t] = {}
    BY <1>0, <2>1, <2>2 DEF Joins
  <2>4. \A q \in Procs : \/ pc'[q] = pc[q] /\ owner'[q] = owner[q]
                         \/ /\ pc[q] = "idle" /\ owner[q] = NoTask
                            /\ pc'[q] = "monitor" /\ owner'[q] = t
    BY <1>0, <2>1 DEF Joins
  <2>5. \A u \in Tasks : u # t => (MayFree(u)' <=> MayFree(u))
    BY <1>0, <2>2, <2>3, <2>4 DEF MayFree
  <2>6. \A u \in Tasks : Loadable(u)' <=> Loadable(u)
    BY <1>0, <2>2, <2>4 DEF Loadable, Lingering
  <2>7. /\ \A u \in Tasks : u # t => Claimed(u)' = Claimed(u)
        /\ \A u \in Tasks : Loaded(u)' = Loaded(u)
        /\ Claimed(t) = {} /\ Claimed(t)' \subseteq Loaded(t)
    <3>1. Loaded(t) = IF t \in DOMAIN updateFile THEN updateFile[t].ips ELSE {}
      BY <2>2 DEF Loaded, Loadable, Lingering
    <3> QED
      BY <2>2, <2>3, <2>5, <2>6, <3>1 DEF Claimed, Loaded
  <2>8. FoundIsFree' /\ PodsDiffer' /\ DurableHeld' /\ DurableExclusive'
    <3>1. \A q \in Procs : pc'[q] = "create" => pc[q] = "create"
      BY <2>4
    <3>2. \A d \in pods : (Durable(d)' <=> Durable(d)) /\ (Writing(d.task) => Writing(d.task)')
      BY <1>0, <2>2, <2>4 DEF Durable, Completed, Writing
    <3>3. DurableHeld' /\ DurableExclusive'
      <4> HIDE DEF Durable, Writing
      <4> QED
        BY <1>0, <2>2, <3>2 DEF Addressed, DurableHeld, DurableExclusive
    <3> QED
      BY <1>0, <2>2, <3>1, <3>3 DEF Addressed, FoundIsFree, PodsDiffer
  <2>9. \A u \in Tasks : Claims(u)' \subseteq Claims(u)
    BY <2>7 DEF Claims
  <2>10. ClaimsHeld' /\ ClaimsDisjoint'
    BY <1>0, <2>2, <2>9 DEF Addressed, ClaimsHeld, ClaimsDisjoint
  <2>11. DurableOwned'
    <3> SUFFICES ASSUME NEW d \in pods, NEW u \in Tasks, Durable(d)
                 PROVE  /\ d.ip \in Claimed(u)' => d.task = u /\ d.name = randomName'[u]
                        /\ d.ip \in Loaded(u)' => d.task = u /\ d.name = updateFile[u].name
      BY <2>2 DEF DurableOwned, Durable, Completed
    <3>1. /\ d.ip \in Claimed(u) => d.task = u /\ d.name = randomName[u]
          /\ d.ip \in Loaded(u) => d.task = u /\ d.name = updateFile[u].name
      BY <1>0 DEF Addressed, DurableOwned
    <3>2. Loaded(t) # {} => randomName'[t] = updateFile[t].name
      BY <2>3 DEF Loaded, Loadable, Lingering
    <3> QED
      BY <2>3, <2>7, <3>1, <3>2
  <2>12. Unwritten'
    <3>1. ASSUME NEW a \in pool \ poolFile
          PROVE  \E u \in Tasks : a \in Claimed(u)' /\ Open(u)'
      <4>1. PICK u \in Tasks : a \in Claimed(u) /\ Open(u)
        BY <1>0 DEF Addressed, Unwritten
      <4>2. u # t
        BY <2>7, <4>1
      <4>3. Open(u)'
        BY <2>2, <2>3, <2>4, <4>1, <4>2 DEF Open, Writing
      <4> QED
        BY <2>7, <4>1, <4>2, <4>3
    <3> QED
      BY <1>0, <2>2, <3>1 DEF Addressed, Unwritten
  <2> QED
    BY <2>8, <2>10, <2>11, <2>12 DEF Addressed
<1>20. CASE Reboot
  <2>1. /\ pool' = poolFile /\ poolFile' = poolFile /\ removing' = {} /\ disputed' = disputed \cup Torn
        /\ ips' = [u \in Tasks |-> {}] /\ pc' = [q \in Procs |-> "idle"]
        /\ UNCHANGED <<pods, updateFile, created>>
    BY <1>20 DEF Reboot, Reloaded
  <2>2. \A u \in Tasks : Claimed(u)' = {}
    BY <2>1 DEF Claimed
  <2>3. \A u \in Tasks :
          Loaded(u)' \subseteq Loaded(u) \cup disputed' /\ Loaded(u)' \subseteq poolFile \cup disputed'
    <3>1. ASSUME NEW u \in DOMAIN updateFile
          PROVE  /\ updateFile[u].ips \subseteq poolFile \cup disputed'
                 /\ Lingering(u) => updateFile[u].ips \subseteq disputed'
      BY <2>1, <3>1 DEF Torn
    <3> HIDE DEF Lingering
    <3>2. \A u \in Tasks : Loaded(u)' = IF u \in DOMAIN updateFile THEN updateFile[u].ips ELSE {}
      <4>1. \A u \in Tasks : Loadable(u)' <=> u \in DOMAIN updateFile
        BY <2>1 DEF Loadable, Lingering
      <4> QED
        BY <2>1, <4>1 DEF Loaded
    <3> QED
      BY <3>1, <3>2 DEF Loaded, Loadable
  <2>4. \A d \in pods : Durable(d)' => Durable(d) /\ d.ip \notin disputed'
    BY <2>1 DEF Durable, Completed
  <2>5. FoundIsFree' /\ PodsDiffer' /\ Unwritten'
    BY <1>0, <2>1 DEF Addressed, FoundIsFree, PodsDiffer, Unwritten
  <2>6. DurableHeld'
    <3> SUFFICES ASSUME NEW d \in pods, Durable(d)' PROVE d.ip \in poolFile
      BY <2>1 DEF DurableHeld
    <3>1. Durable(d) /\ d.ip \notin disputed' /\ d.task \in Tasks
      BY <1>0, <2>4
    <3>2. d.ip \in poolFile \/ Writing(d.task)
      BY <1>0, <3>1 DEF Addressed, DurableHeld
    <3>3. ASSUME Writing(d.task) PROVE d.ip \in ips[d.task]
      <4>1. created[d.task] = randomName[d.task]
        BY <1>0, <3>3 DEF Writing, PopNamed
      <4> QED
        BY <1>0, <3>1, <4>1 DEF Durable, Completed, Recorded, CurrentRecorded
    <3>4. ASSUME Writing(d.task), d.ip \notin poolFile PROVE d.ip \in disputed'
      BY <2>1, <3>1, <3>3, <3>4 DEF Torn
    <3> QED
      BY <3>1, <3>2, <3>4
  <2>7. DurableExclusive'
    BY <1>0, <2>1, <2>4 DEF Addressed, DurableExclusive
  <2>8. ClaimsHeld' /\ ClaimsDisjoint'
    BY <1>0, <2>1, <2>2, <2>3 DEF Addressed, ClaimsHeld, ClaimsDisjoint, Claims
  <2>9. DurableOwned'
    BY <1>0, <2>1, <2>2, <2>3, <2>4 DEF Addressed, DurableOwned
  <2> QED
    BY <2>5, <2>6, <2>7, <2>8, <2>9 DEF Addressed
<1>21. ASSUME NEW p \in Procs, Quiet(p), UNCHANGED <<fileVars, processVars, historyVars>>
      PROVE  Addressed'
  BY <1>0, <1>15, <1>16, <1>21, QuietFacts
<1> HIDE DEF Naming, CreatorNamed, MonitorNamed, KnowsNone, RemoverFits, HasPods, Acting,
   IdleFree, Solo, RequestFits, RecoveredFits, Unconnected, Fresh, Dispatches, Creating,
   GoTo, Exit, headVars, localVars, fileVars, processVars, historyVars
<1> QED
  BY <1>1, <1>2, <1>3, <1>4, <1>5, <1>6, <1>7, <1>8, <1>9, <1>10, <1>11, <1>12, <1>13,
     <1>14, <1>17, <1>18, <1>19, <1>20, <1>21
  DEF RNext, RWork, WithoutFiles, Quiet

-----------------------------------------------------------------------------
(* What the page of a task finds *)

\* The task of a pod that has to survive has a complete entry with the pod's name,
\* and knows that name once its page has connected.
Recoverable ==
  \A d \in pods : Durable(d) /\ d.task \notin missed =>
    /\ d.task \in DOMAIN updateFile
    /\ updateFile[d.task].complete /\ updateFile[d.task].name = d.name
    /\ d.task \in connected => d.name = randomName[d.task]

\* No step makes a task forget the name of a pod that has to survive.
LEMMA RecoverableStep ==
  ASSUME Calm, RTypeOK, Steady, Naming, Recorded, Recoverable, [RNext]_rvars
  PROVE  Recoverable'
<1>0. /\ scheduleMap \in [Tasks -> Schedules] /\ randomName \in [Tasks -> Nat]
      /\ drawn \in [Tasks -> Nat] /\ created \in [Tasks -> Nat]
      /\ ips \in [Tasks -> SUBSET Addresses] /\ pool \in SUBSET Addresses
      /\ poolFile \in SUBSET Addresses
      /\ command \in [Tasks -> Commands] /\ pods \in SUBSET Pods
      /\ \A d \in pods : d.task \in Tasks /\ d.name \in Nat
      /\ pc \in [Procs -> Labels] /\ owner \in [Procs -> Tasks \cup {NoTask}]
      /\ \A p \in Procs : pc[p] # "idle" => owner[p] \in Tasks
      /\ name \in [Procs -> Nat] /\ idx \in [Procs -> Nat]
      /\ ip \in [Procs -> Addresses \cup {NoIp}]
      /\ connected \in SUBSET Tasks /\ removing \in SUBSET Tasks /\ recovered \in SUBSET Tasks
      /\ DOMAIN updateFile \subseteq Tasks
      /\ NoTask \notin Tasks /\ RTypeOK /\ TypeOK /\ MemoryFits /\ Acting
      /\ Naming /\ Recorded /\ Recoverable
  BY SchedulerAssumption DEF RTypeOK, TypeOK, Pods, IsUpdateMap, Steady
<1> USE DEF Naming, CreatorNamed, MonitorNamed, KnowsNone, RemoverFits, HasPods, Acting,
   IdleFree, Solo, RequestFits, RecoveredFits, Unconnected, Fresh, Dispatches, Creating,
   GoTo, Exit, headVars, localVars, fileVars, processVars, historyVars
<1>1. CASE UNCHANGED rvars
  <2>1. UNCHANGED <<pods, updateFile, randomName, connected, created, missed, disputed>>
    BY <1>0, <1>1 DEF rvars, vars
  <2> QED
    BY <1>0, <2>1 DEF Recoverable, Durable, Completed

<1>2. ASSUME NEW p \in Procs, NEW t \in Tasks, NEW c \in Commands, RReceive(p, t, c)
      PROVE  Recoverable'
  <2>1. /\ Asks(p, t, c) /\ GoTo(p, "dispatch")
        /\ owner' = [owner EXCEPT ![p] = t] /\ command' = [command EXCEPT ![t] = c]
        /\ recovered' \subseteq recovered /\ recovered \ {t} \subseteq recovered'
        /\ c # "RESTART" => recovered' = recovered
        /\ UNCHANGED <<scheduleMap, ips, randomName, drawn, pool, pods, disputed, name, idx, ip>>
        /\ UNCHANGED <<fileVars, connected, historyVars>>
    BY <1>2, ReceiveFacts
  <2>2. /\ \A q \in Procs : q # p => pc'[q] = pc[q] /\ owner'[q] = owner[q]
        /\ \A q \in Procs : q # p /\ pc[q] = "dispatch" =>
             command'[owner[q]] = command[owner[q]] /\ owner[q] # t
        /\ pc'[p] = "dispatch" /\ owner'[p] = t /\ command'[t] = c
        /\ \A q \in Procs : owner[q] = t => pc[q] = "monitor"
    BY <1>0, <2>1 DEF Asks, Settled
  <2>3. UNCHANGED <<pods, updateFile, randomName, connected, created, missed, disputed>>
    BY <2>1 DEF Asks
  <2> QED
    BY <1>0, <2>3 DEF Recoverable, Durable, Completed
<1>3. ASSUME NEW p \in Procs, CanRun(p), RStart(p) PROVE Recoverable'
  <2>1. owner[p] \in Tasks /\ owner[p] \in connected
    BY <1>0, <1>3 DEF Unconnected, RStart, Start
  <2>2. Written(owner[p], FALSE) \/ Unreached(owner[p])
    BY <1>0, <1>3, <2>1, RecordFacts DEF RStart
  <2>3. UNCHANGED <<pods, randomName, connected, created, disputed>>
    BY <1>0, <1>3 DEF RStart, Start
  <2>4. ASSUME NEW b \in pods, Durable(b), b.task \notin missed
        PROVE  /\ b.task \in DOMAIN updateFile /\ updateFile[b.task].complete
               /\ updateFile[b.task].name = b.name
               /\ b.task \in connected => b.name = randomName[b.task]
    BY <1>0, <2>4 DEF Recoverable
  <2>5. ASSUME NEW b \in pods, Durable(b), b.task \notin missed'
        PROVE  /\ b.task \in DOMAIN updateFile' /\ updateFile'[b.task].complete
               /\ updateFile'[b.task].name = b.name
    <3>1. CASE Unreached(owner[p])
      BY <2>4, <2>5, <3>1 DEF Unreached
    <3>2. CASE Written(owner[p], FALSE)
      <4>1. ~HasPods(owner[p])
        BY <1>0, <1>3, <2>1 DEF RStart, Start
      <4>2. b.task # owner[p]
        BY <1>0, <2>1, <2>4, <2>5, <3>2, <4>1 DEF Written
      <4> QED
        BY <2>4, <2>5, <3>2, <4>2 DEF Written
    <3> QED
      BY <2>2, <3>1, <3>2
  <2>6. missed \subseteq missed'
    BY <2>2 DEF Written, Unreached
  <2> QED
    BY <2>3, <2>4, <2>5, <2>6 DEF Recoverable, Durable, Completed
<1>4. ASSUME NEW p \in Procs, CanRun(p), RStop(p) PROVE Recoverable'
  <2>1. owner[p] \in Tasks /\ owner[p] \in connected
    BY <1>0, <1>4 DEF Unconnected, RStop, Stop
  <2>2. Written(owner[p], TRUE) \/ Unreached(owner[p])
    BY <1>0, <1>4, <2>1, RecordFacts DEF RStop
  <2>3. UNCHANGED <<pods, randomName, connected, created, disputed>>
    BY <1>0, <1>4 DEF RStop, Stop
  <2>4. ASSUME NEW b \in pods, Durable(b), b.task \notin missed
        PROVE  /\ b.task \in DOMAIN updateFile /\ updateFile[b.task].complete
               /\ updateFile[b.task].name = b.name
               /\ b.task \in connected => b.name = randomName[b.task]
    BY <1>0, <2>4 DEF Recoverable
  <2>5. ASSUME NEW b \in pods, Durable(b), b.task \notin missed'
        PROVE  /\ b.task \in DOMAIN updateFile' /\ updateFile'[b.task].complete
               /\ updateFile'[b.task].name = b.name
    <3>1. CASE Unreached(owner[p])
      BY <2>4, <2>5, <3>1 DEF Unreached
    <3>2. CASE Written(owner[p], TRUE)
      BY <2>1, <2>3, <2>4, <2>5, <3>2 DEF Written
    <3> QED
      BY <2>2, <3>1, <3>2
  <2>6. missed \subseteq missed'
    BY <2>2 DEF Written, Unreached
  <2> QED
    BY <2>3, <2>4, <2>5, <2>6 DEF Recoverable, Durable, Completed
<1>5. ASSUME NEW p \in Procs, CanRun(p), RComplete(p) PROVE Recoverable'
  <2>0. PICK t \in Tasks : t = owner[p]
    BY <1>0, <1>5 DEF RComplete, Complete
  <2>1. /\ t \in connected /\ created' = [created EXCEPT ![t] = randomName[t]]
        /\ UNCHANGED <<pods, randomName, connected, disputed>>
    BY <1>0, <1>5, <2>0 DEF Unconnected, RComplete, Complete
  <2>2. Written(t, TRUE) \/ Unreached(t)
    <3>1. Record(t, TRUE) /\ MemoryFits
      BY <1>0, <1>5, <2>0 DEF RComplete
    <3> QED
      BY <2>1, <3>1, RecordFacts
  <2>3. ASSUME NEW b \in pods, Durable(b)', b.task \notin missed'
        PROVE  /\ b.task \in DOMAIN updateFile' /\ updateFile'[b.task].complete
               /\ updateFile'[b.task].name = b.name
               /\ b.task \in connected => b.name = randomName[b.task]
    <3>1. CASE b.task = t
      BY <1>0, <2>1, <2>2, <2>3, <3>1 DEF Durable, Completed, Written, Unreached
    <3>2. CASE b.task # t
      <4>1. Durable(b) /\ b.task \notin missed
        BY <1>0, <2>1, <2>2, <2>3, <3>2 DEF Durable, Completed, Written, Unreached
      <4> QED
        BY <1>0, <2>2, <3>2, <4>1 DEF Recoverable, Written, Unreached
    <3> QED
      BY <3>1, <3>2
  <2> QED
    BY <2>1, <2>3 DEF Recoverable
<1>6. ASSUME NEW p \in Procs, CanRun(p), RPop(p) PROVE Recoverable'
  <2>1. UNCHANGED <<pods, updateFile, randomName, connected, created, missed, disputed>>
    BY <1>0, <1>6 DEF RPop, Pop
  <2> QED
    BY <1>0, <2>1 DEF Recoverable, Durable, Completed
<1>7. ASSUME NEW p \in Procs, CanRun(p), LogStarts(p) PROVE Recoverable'
  <2>1. owner[p] \in Tasks /\ owner[p] \in connected
    BY <1>0, <1>7, WatchFacts DEF Unconnected, LogStarts
  <2>2. Written(owner[p], TRUE) \/ Unreached(owner[p])
    BY <1>0, <1>7, <2>1, RecordFacts DEF LogStarts
  <2>3. UNCHANGED <<pods, randomName, connected, created, disputed>>
    BY <1>0, <1>7 DEF LogStarts
  <2>4. ASSUME NEW b \in pods, Durable(b), b.task \notin missed
        PROVE  /\ b.task \in DOMAIN updateFile /\ updateFile[b.task].complete
               /\ updateFile[b.task].name = b.name
               /\ b.task \in connected => b.name = randomName[b.task]
    BY <1>0, <2>4 DEF Recoverable
  <2>5. ASSUME NEW b \in pods, Durable(b), b.task \notin missed'
        PROVE  /\ b.task \in DOMAIN updateFile' /\ updateFile'[b.task].complete
               /\ updateFile'[b.task].name = b.name
    <3>1. CASE Unreached(owner[p])
      BY <2>4, <2>5, <3>1 DEF Unreached
    <3>2. CASE Written(owner[p], TRUE)
      BY <2>1, <2>3, <2>4, <2>5, <3>2 DEF Written
    <3> QED
      BY <2>2, <3>1, <3>2
  <2>6. missed \subseteq missed'
    BY <2>2 DEF Written, Unreached
  <2> QED
    BY <2>3, <2>4, <2>5, <2>6 DEF Recoverable, Durable, Completed
<1>8. ASSUME NEW p \in Procs, CanRun(p), RTrainingEnds(p) PROVE Recoverable'
  <2>1. owner[p] \in Tasks /\ owner[p] \in connected
    BY <1>0, <1>8, WatchFacts DEF Unconnected, RTrainingEnds, TrainingEnds, Settled
  <2>2. Written(owner[p], TRUE) \/ Unreached(owner[p])
    BY <1>0, <1>8, <2>1, RecordFacts DEF RTrainingEnds
  <2>3. UNCHANGED <<pods, randomName, connected, created>> /\ disputed \subseteq disputed'
    BY <1>0, <1>8, WatchFacts DEF RTrainingEnds, TrainingEnds
  <2>4. ASSUME NEW b \in pods, Durable(b), b.task \notin missed
        PROVE  /\ b.task \in DOMAIN updateFile /\ updateFile[b.task].complete
               /\ updateFile[b.task].name = b.name
               /\ b.task \in connected => b.name = randomName[b.task]
    BY <1>0, <2>4 DEF Recoverable
  <2>5. ASSUME NEW b \in pods, Durable(b), b.task \notin missed'
        PROVE  /\ b.task \in DOMAIN updateFile' /\ updateFile'[b.task].complete
               /\ updateFile'[b.task].name = b.name
    <3>1. CASE Unreached(owner[p])
      BY <2>4, <2>5, <3>1 DEF Unreached
    <3>2. CASE Written(owner[p], TRUE)
      BY <2>1, <2>3, <2>4, <2>5, <3>2 DEF Written
    <3> QED
      BY <2>2, <3>1, <3>2
  <2>6. missed \subseteq missed'
    BY <2>2 DEF Written, Unreached
  <2>7. \A b \in pods : Durable(b)' => Durable(b)
    BY <2>3 DEF Durable, Completed
  <2> QED
    BY <2>3, <2>4, <2>5, <2>6, <2>7 DEF Recoverable
<1>9. ASSUME NEW p \in Procs, CanRun(p), RDeletePod(p) PROVE Recoverable'
  <2>1. /\ pods' \subseteq pods /\ disputed \subseteq disputed'
        /\ UNCHANGED <<updateFile, randomName, connected, created, missed>>
    BY <1>0, <1>9, DeleteFacts
  <2> QED
    BY <1>0, <2>1 DEF Recoverable, Durable, Completed
<1>10. ASSUME NEW p \in Procs, CanRun(p), RRelease(p) PROVE Recoverable'
  <2>1. UNCHANGED <<pods, updateFile, randomName, connected, created, missed, disputed>>
    BY <1>0, <1>10 DEF RRelease, Release
  <2> QED
    BY <1>0, <2>1 DEF Recoverable, Durable, Completed
<1>11. ASSUME NEW p \in Procs, CanRun(p), StopTask(p),
             UNCHANGED <<fileVars, processVars, historyVars>>
      PROVE  Recoverable'
  <2>1. UNCHANGED <<pods, updateFile, randomName, connected, created, missed, disputed>>
    BY <1>0, <1>11 DEF StopTask
  <2> QED
    BY <1>0, <2>1 DEF Recoverable, Durable, Completed
<1>12. ASSUME NEW p \in Procs, CanRun(p), Restart(p),
             UNCHANGED <<fileVars, processVars, historyVars>>
      PROVE  Recoverable'
  <2>1. UNCHANGED <<pods, updateFile, randomName, connected, created, missed, disputed>>
    BY <1>0, <1>12 DEF Restart
  <2> QED
    BY <1>0, <2>1 DEF Recoverable, Durable, Completed
<1>13. ASSUME NEW p \in Procs, CanRun(p), Claim(p),
             UNCHANGED <<fileVars, processVars, historyVars>>
      PROVE  Recoverable'
  <2>1. /\ pc[p] = "claim" /\ owner[p] \in Tasks /\ owner[p] \in connected
        /\ \A u \in Tasks : u # owner[p] => randomName'[u] = randomName[u]
        /\ UNCHANGED <<pods, updateFile, connected, created, missed, disputed>>
    BY <1>0, <1>13 DEF Claim
  <2>2. ~HasPods(owner[p])
    BY <1>0, <2>1
  <2> QED
    BY <1>0, <2>1, <2>2 DEF Recoverable, Durable, Completed
<1>14. ASSUME NEW p \in Procs, CanRun(p), CreatePod(p),
             UNCHANGED <<fileVars, processVars, historyVars>>
      PROVE  Recoverable'
  <2>1. UNCHANGED <<updateFile, randomName, connected, created, missed, disputed>>
    BY <1>0, <1>14 DEF CreatePod
  <2>2. name[p] # created[owner[p]]
    BY <1>0, <1>14 DEF CreatePod
  <2>3. \A d \in pods' : Durable(d)' => d \in pods
    BY <1>0, <2>1, <2>2, <1>14 DEF CreatePod, Durable, Completed
  <2> QED
    BY <1>0, <2>1, <2>3 DEF Recoverable, Durable, Completed
<1>15. ASSUME NEW p \in Procs, Ends(p),
             UNCHANGED <<scheduleMap, ips, randomName, drawn, command, pool, pods, disputed>>,
             UNCHANGED <<fileVars, processVars, historyVars>>
      PROVE  Recoverable'
  <2>1. UNCHANGED <<pods, updateFile, randomName, connected, created, missed, disputed>>
    BY <1>0, <1>15 DEF Ends
  <2> QED
    BY <1>0, <2>1 DEF Recoverable, Durable, Completed
<1>16. ASSUME NEW p \in Procs, GoesOn(p),
             UNCHANGED <<scheduleMap, ips, randomName, drawn, command, pool, pods, disputed>>,
             UNCHANGED <<fileVars, processVars, historyVars>>
      PROVE  Recoverable'
  <2>1. UNCHANGED <<pods, updateFile, randomName, connected, created, missed, disputed>>
    BY <1>0, <1>16 DEF GoesOn
  <2> QED
    BY <1>0, <2>1 DEF Recoverable, Durable, Completed
<1>17. CASE RCluster
  <2>1. /\ UNCHANGED <<scheduleMap, ips, randomName, drawn, command, pool, disputed, pc, localVars>>
        /\ \A e \in pods' : \E d \in pods : SamePod(e, d)
        /\ \A d \in pods : \E e \in pods' : SamePod(e, d)
        /\ UNCHANGED <<fileVars, processVars, historyVars>>
    BY <1>0, <1>17, ClusterFacts
  <2> QED
    BY <1>0, <2>1 DEF Recoverable, Durable, Completed, SamePod
<1>18. ASSUME NEW t \in Tasks, RemoveEntry(t) PROVE Recoverable'
  <2>1. t \in connected /\ RemoveEntry(t) /\ MemoryFits
    BY <1>0, <1>18 DEF RemoveEntry, Unconnected
  <2>2. /\ DOMAIN updateFile' = DOMAIN updateFile \ {t}
        /\ \A u \in DOMAIN updateFile : u # t => updateFile'[u] = updateFile[u]
    BY <2>1, RemoveFacts
  <2>3. UNCHANGED <<pods, randomName, connected, created, missed, disputed>> /\ t \in removing
    BY <1>18 DEF RemoveEntry, vars
  <2>4. Spoiled(t) \/ ~HasPods(t)
    BY <1>0, <2>3
  <2>5. ASSUME NEW d \in pods, Durable(d), d.task \notin missed PROVE d.task # t
    <3>1. d.task = t => HasPods(t) /\ d.ip \in ips[t]
      BY <1>0, <2>1, <2>5 DEF Recoverable, Recorded, CurrentRecorded
    <3> QED
      BY <2>4, <2>5, <3>1 DEF Spoiled, Durable
  <2>6. \A d \in pods : Durable(d)' <=> Durable(d)
    BY <2>3 DEF Durable, Completed
  <2> HIDE DEF Durable
  <2> QED
    BY <1>0, <2>2, <2>3, <2>5, <2>6 DEF Recoverable
<1>19. ASSUME NEW t \in Tasks, Connect(t) PROVE Recoverable'
  <2>1. Joins(t)
    BY <1>0, <1>19, ConnectFacts
  <2>2. UNCHANGED <<pods, updateFile, created, missed, disputed>> /\ connected' = connected \cup {t}
    BY <1>19 DEF Connect
  <2>3. /\ t \in DOMAIN updateFile => randomName'[t] = updateFile[t].name
        /\ \A u \in Tasks : u # t => randomName'[u] = randomName[u]
    BY <1>0, <2>1 DEF Joins
  <2> QED
    BY <1>0, <2>2, <2>3 DEF Recoverable, Durable, Completed
<1>20. CASE Reboot
  <2>1. /\ UNCHANGED <<pods, updateFile, created, missed>> /\ connected' = {}
        /\ disputed \subseteq disputed'
    BY <1>20 DEF Reboot
  <2> QED
    BY <1>0, <2>1 DEF Recoverable, Durable, Completed
<1>21. ASSUME NEW p \in Procs, Quiet(p), UNCHANGED <<fileVars, processVars, historyVars>>
      PROVE  Recoverable'
  BY <1>0, <1>15, <1>16, <1>21, QuietFacts
<1> HIDE DEF Naming, CreatorNamed, MonitorNamed, KnowsNone, RemoverFits, HasPods, Acting,
   IdleFree, Solo, RequestFits, RecoveredFits, Unconnected, Fresh, Dispatches, Creating,
   GoTo, Exit, headVars, localVars, fileVars, processVars, historyVars
<1> QED
  BY <1>1, <1>2, <1>3, <1>4, <1>5, <1>6, <1>7, <1>8, <1>9, <1>10, <1>11, <1>12, <1>13,
     <1>14, <1>17, <1>18, <1>19, <1>20, <1>21
  DEF RNext, RWork, WithoutFiles, Quiet
-----------------------------------------------------------------------------
(* Who ends what a restart has met *)

\* The last pod of a training that has to survive is watched or being deleted.
Watching ==
  \A d \in pods :
    Durable(d) /\ d.idx + 1 = NodeNum[d.task] /\ d.task \in connected \ missed
    => \E p \in Procs :
         /\ owner[p] = d.task
         /\ pc[p] \in {"pop", "stop", "delete"} \/ (pc[p] = "monitor" /\ name[p] = d.name)

\* No further pod has to be watched, and who watches or deletes goes on to do so.
KeepsWatch(p) ==
  /\ \A e \in pods' : \E d \in pods : SamePod(e, d)
  /\ UNCHANGED <<created, connected>> /\ missed \subseteq missed' /\ disputed \subseteq disputed'
  /\ \A q \in Procs : q # p => pc'[q] = pc[q] /\ owner'[q] = owner[q] /\ name'[q] = name[q]
  /\ \/ pc[p] \notin {"pop", "stop", "delete", "monitor"}
     \/ owner'[p] = owner[p] /\ pc'[p] \in {"stop", "delete"}
     \/ owner'[p] = owner[p] /\ pc'[p] = pc[p] /\ name'[p] = name[p]

LEMMA KeptWatch ==
  ASSUME Watching, NEW p \in Procs, KeepsWatch(p)
  PROVE  Watching'
<1> SUFFICES ASSUME NEW e \in pods', Durable(e)', e.idx + 1 = NodeNum[e.task],
                    e.task \in connected' \ missed'
             PROVE  \E q \in Procs :
                      /\ owner'[q] = e.task
                      /\ pc'[q] \in {"pop", "stop", "delete"} \/ (pc'[q] = "monitor" /\ name'[q] = e.name)
  BY DEF Watching
<1>1. PICK d \in pods : SamePod(e, d)
  BY DEF KeepsWatch
<1>2. /\ e.task = d.task /\ e.name = d.name /\ e.idx = d.idx
      /\ Durable(d) /\ d.task \in connected \ missed
  BY <1>1 DEF SamePod, Durable, Completed, KeepsWatch
<1>3. PICK q \in Procs :
        /\ owner[q] = d.task
        /\ pc[q] \in {"pop", "stop", "delete"} \/ (pc[q] = "monitor" /\ name[q] = d.name)
  BY <1>2 DEF Watching
<1> QED
  BY <1>2, <1>3 DEF KeepsWatch

\* A LogMonitor stays until its pods are deleted, and a page that is back starts one.
LEMMA WatchingStep ==
  ASSUME Calm, "cluster" \notin Behaviours,
         RTypeOK, Steady, Naming, Recorded, Recoverable, Watching, [RNext]_rvars
  PROVE  Watching'
<1>0. /\ scheduleMap \in [Tasks -> Schedules] /\ randomName \in [Tasks -> Nat]
      /\ drawn \in [Tasks -> Nat] /\ created \in [Tasks -> Nat]
      /\ ips \in [Tasks -> SUBSET Addresses] /\ pool \in SUBSET Addresses
      /\ poolFile \in SUBSET Addresses
      /\ command \in [Tasks -> Commands] /\ pods \in SUBSET Pods
      /\ \A d \in pods : d.task \in Tasks /\ d.name \in Nat
      /\ pc \in [Procs -> Labels] /\ owner \in [Procs -> Tasks \cup {NoTask}]
      /\ \A p \in Procs : pc[p] # "idle" => owner[p] \in Tasks
      /\ name \in [Procs -> Nat] /\ idx \in [Procs -> Nat]
      /\ ip \in [Procs -> Addresses \cup {NoIp}]
      /\ connected \in SUBSET Tasks /\ removing \in SUBSET Tasks /\ recovered \in SUBSET Tasks
      /\ DOMAIN updateFile \subseteq Tasks
      /\ NoTask \notin Tasks /\ RTypeOK /\ TypeOK /\ MemoryFits /\ Acting
      /\ Naming /\ Recorded /\ Recoverable /\ Watching
  BY SchedulerAssumption DEF RTypeOK, TypeOK, Pods, IsUpdateMap, Steady
<1> USE DEF Naming, CreatorNamed, MonitorNamed, KnowsNone, RemoverFits, HasPods, Acting,
   IdleFree, Solo, RequestFits, RecoveredFits, Unconnected, Fresh, Dispatches, Creating,
   GoTo, Exit, headVars, localVars, fileVars, processVars, historyVars
<1>1. CASE UNCHANGED rvars
  BY <1>0, <1>1 DEF rvars, vars, Watching, Durable, Completed
<1>2. ASSUME NEW p \in Procs, NEW t \in Tasks, NEW c \in Commands, RReceive(p, t, c)
      PROVE  Watching'
  <2>1. /\ Asks(p, t, c) /\ GoTo(p, "dispatch")
        /\ owner' = [owner EXCEPT ![p] = t] /\ command' = [command EXCEPT ![t] = c]
        /\ recovered' \subseteq recovered /\ recovered \ {t} \subseteq recovered'
        /\ c # "RESTART" => recovered' = recovered
        /\ UNCHANGED <<scheduleMap, ips, randomName, drawn, pool, pods, disputed, name, idx, ip>>
        /\ UNCHANGED <<fileVars, connected, historyVars>>
    BY <1>2, ReceiveFacts
  <2>2. /\ \A q \in Procs : q # p => pc'[q] = pc[q] /\ owner'[q] = owner[q]
        /\ \A q \in Procs : q # p /\ pc[q] = "dispatch" =>
             command'[owner[q]] = command[owner[q]] /\ owner[q] # t
        /\ pc'[p] = "dispatch" /\ owner'[p] = t /\ command'[t] = c
        /\ \A q \in Procs : owner[q] = t => pc[q] = "monitor"
    BY <1>0, <2>1 DEF Asks, Settled
  <2>3. KeepsWatch(p)
    BY <1>0, <2>1, <2>2 DEF Asks, KeepsWatch, SamePod
  <2> QED
    BY <1>0, <2>3, KeptWatch
<1>3. ASSUME NEW p \in Procs, CanRun(p), RStart(p) PROVE Watching'
  <2>1. owner[p] \in Tasks /\ owner[p] \in connected
    BY <1>0, <1>3 DEF Unconnected, RStart, Start
  <2>2. Written(owner[p], FALSE) \/ Unreached(owner[p])
    BY <1>0, <1>3, <2>1, RecordFacts DEF RStart
  <2>3. KeepsWatch(p)
    BY <1>0, <2>2, <1>3 DEF RStart, Start, KeepsWatch, SamePod, Written, Unreached
  <2> QED
    BY <1>0, <2>3, KeptWatch
<1>4. ASSUME NEW p \in Procs, CanRun(p), RStop(p) PROVE Watching'
  <2>1. owner[p] \in Tasks /\ owner[p] \in connected
    BY <1>0, <1>4 DEF Unconnected, RStop, Stop
  <2>2. Written(owner[p], TRUE) \/ Unreached(owner[p])
    BY <1>0, <1>4, <2>1, RecordFacts DEF RStop
  <2>3. KeepsWatch(p)
    BY <1>0, <2>2, <1>4 DEF RStop, Stop, KeepsWatch, SamePod, Written, Unreached
  <2> QED
    BY <1>0, <2>3, KeptWatch
<1>5. ASSUME NEW p \in Procs, CanRun(p), RComplete(p) PROVE Watching'
  <2>0. PICK t \in Tasks : t = owner[p]
    BY <1>0, <1>5 DEF RComplete, Complete
  <2>1. /\ t \in connected /\ created' = [created EXCEPT ![t] = randomName[t]]
        /\ UNCHANGED <<pods, connected, disputed, owner, name>>
        /\ pc[p] = "complete" /\ pc' = [pc EXCEPT ![p] = "pop"]
    BY <1>0, <1>5, <2>0 DEF Unconnected, RComplete, Complete
  <2>2. missed \subseteq missed'
    BY <1>5 DEF RComplete, Record
  <2>3. ASSUME NEW d \in pods, Durable(d)', d.idx + 1 = NodeNum[d.task], d.task \in connected \ missed
        PROVE  \E q \in Procs :
                 /\ owner[q] = d.task
                 /\ pc'[q] \in {"pop", "stop", "delete"} \/ (pc'[q] = "monitor" /\ name[q] = d.name)
    <3>1. CASE d.task = t
      BY <1>0, <2>0, <2>1, <3>1
    <3>2. CASE d.task # t
      <4>1. Durable(d)
        BY <1>0, <2>1, <2>3, <3>2 DEF Durable, Completed
      <4>2. PICK q \in Procs :
              /\ owner[q] = d.task
              /\ pc[q] \in {"pop", "stop", "delete"} \/ (pc[q] = "monitor" /\ name[q] = d.name)
        BY <1>0, <2>3, <4>1 DEF Watching
      <4> QED
        BY <2>1, <4>2
    <3> QED
      BY <3>1, <3>2
  <2> QED
    BY <2>1, <2>2, <2>3 DEF Watching
<1>6. ASSUME NEW p \in Procs, CanRun(p), RPop(p) PROVE Watching'
  <2>0. PICK t \in Tasks : t = owner[p]
    BY <1>0, <1>6 DEF RPop, Pop
  <2>1. /\ pc[p] = "pop" /\ pc' = [pc EXCEPT ![p] = "monitor"]
        /\ name' = [name EXCEPT ![p] = randomName[t]]
        /\ UNCHANGED <<pods, created, connected, missed, disputed, owner>>
    BY <1>0, <1>6, <2>0 DEF RPop, Pop
  <2>2. created[t] = randomName[t]
    BY <1>0, <2>0, <2>1 DEF PopNamed
  <2>3. ASSUME NEW d \in pods, Durable(d), d.idx + 1 = NodeNum[d.task], d.task \in connected \ missed
        PROVE  \E q \in Procs :
                 /\ owner[q] = d.task
                 /\ pc'[q] \in {"pop", "stop", "delete"} \/ (pc'[q] = "monitor" /\ name'[q] = d.name)
    <3>1. PICK q \in Procs :
            /\ owner[q] = d.task
            /\ pc[q] \in {"pop", "stop", "delete"} \/ (pc[q] = "monitor" /\ name[q] = d.name)
      BY <1>0, <2>3 DEF Watching
    <3>2. CASE q = p
      BY <1>0, <2>0, <2>1, <2>2, <2>3, <3>1, <3>2 DEF Durable, Completed
    <3>3. CASE q # p
      BY <2>1, <3>1, <3>3
    <3> QED
      BY <3>2, <3>3
  <2>4. \A d \in pods : Durable(d)' <=> Durable(d)
    BY <2>1 DEF Durable, Completed
  <2> HIDE DEF Durable
  <2> QED
    BY <2>1, <2>3, <2>4 DEF Watching
<1>7. ASSUME NEW p \in Procs, CanRun(p), LogStarts(p) PROVE Watching'
  <2>1. owner[p] \in Tasks /\ owner[p] \in connected
    BY <1>0, <1>7, WatchFacts DEF Unconnected, LogStarts
  <2>2. Written(owner[p], TRUE) \/ Unreached(owner[p])
    BY <1>0, <1>7, <2>1, RecordFacts DEF LogStarts
  <2>3. KeepsWatch(p)
    BY <1>0, <2>2, <1>7 DEF LogStarts, KeepsWatch, SamePod, Written, Unreached
  <2> QED
    BY <1>0, <2>3, KeptWatch
<1>8. ASSUME NEW p \in Procs, CanRun(p), RTrainingEnds(p) PROVE Watching'
  <2>1. owner[p] \in Tasks /\ owner[p] \in connected
    BY <1>0, <1>8, WatchFacts DEF Unconnected, RTrainingEnds, TrainingEnds, Settled
  <2>2. Written(owner[p], TRUE) \/ Unreached(owner[p])
    BY <1>0, <1>8, <2>1, RecordFacts DEF RTrainingEnds
  <2>3. KeepsWatch(p)
    BY <1>0, <2>2, <1>8, WatchFacts DEF RTrainingEnds, TrainingEnds, KeepsWatch, SamePod, Written,
       Unreached
  <2> QED
    BY <1>0, <2>3, KeptWatch
<1>9. ASSUME NEW p \in Procs, CanRun(p), RDeletePod(p) PROVE Watching'
  <2>1. /\ pods' \subseteq pods /\ disputed \subseteq disputed' /\ UNCHANGED <<pc, owner, name>>
        /\ UNCHANGED <<created, connected, missed>>
    BY <1>0, <1>9, DeleteFacts
  <2>2. KeepsWatch(p)
    BY <1>0, <2>1 DEF KeepsWatch, SamePod
  <2> QED
    BY <1>0, <2>2, KeptWatch
<1>10. ASSUME NEW p \in Procs, CanRun(p), RRelease(p) PROVE Watching'
  <2>0. PICK t \in Tasks : t = owner[p]
    BY <1>0, <1>10 DEF RRelease, Release
  <2>1. /\ pc[p] = "delete" /\ idx[p] >= NodeNum[t]
        /\ UNCHANGED <<pods, created, connected, missed, disputed>>
        /\ \A q \in Procs : q # p => pc'[q] = pc[q] /\ owner'[q] = owner[q] /\ name'[q] = name[q]
    BY <1>0, <2>0, <1>10 DEF RRelease, Release
  <2>2. ASSUME NEW d \in pods, Durable(d), d.task \in connected \ missed
        PROVE  d.task # t
    <3>1. SUFFICES ASSUME d.task = t PROVE FALSE
      OBVIOUS
    <3>2. d.name = randomName[d.task] /\ d.ip \in ips[t] /\ d.ip \notin disputed
      BY <1>0, <2>2, <3>1 DEF Recoverable, Recorded, CurrentRecorded, Durable
    <3>3. ~Spoiled(t)
      BY <3>2 DEF Spoiled
    <3>4. d.idx >= idx[p] /\ d.idx < NodeNum[t]
      BY <1>0, <2>0, <2>1, <3>1, <3>2, <3>3 DEF DeleteReaches, NamesDrawn
    <3>5. d.idx \in Nat /\ idx[p] \in Nat /\ NodeNum[t] \in Nat
      BY <1>0, <2>1, SchedulerAssumption DEF Pods
    <3> QED
      BY <2>1, <3>4, <3>5
  <2>3. \A d \in pods : Durable(d)' <=> Durable(d)
    BY <2>1 DEF Durable, Completed
  <2> HIDE DEF Durable
  <2> QED
    BY <1>0, <2>0, <2>1, <2>2, <2>3 DEF Watching
<1>11. ASSUME NEW p \in Procs, CanRun(p), StopTask(p),
             UNCHANGED <<fileVars, processVars, historyVars>>
      PROVE  Watching'
  <2>1. KeepsWatch(p)
    BY <1>0, <1>11 DEF StopTask, KeepsWatch, SamePod
  <2> QED
    BY <1>0, <2>1, KeptWatch
<1>12. ASSUME NEW p \in Procs, CanRun(p), Restart(p),
             UNCHANGED <<fileVars, processVars, historyVars>>
      PROVE  Watching'
  <2>1. KeepsWatch(p)
    BY <1>0, <1>12 DEF Restart, KeepsWatch, SamePod
  <2> QED
    BY <1>0, <2>1, KeptWatch
<1>13. ASSUME NEW p \in Procs, CanRun(p), Claim(p),
             UNCHANGED <<fileVars, processVars, historyVars>>
      PROVE  Watching'
  <2>1. KeepsWatch(p)
    BY <1>0, <1>13 DEF Claim, KeepsWatch, SamePod
  <2> QED
    BY <1>0, <2>1, KeptWatch
<1>14. ASSUME NEW p \in Procs, CanRun(p), CreatePod(p),
             UNCHANGED <<fileVars, processVars, historyVars>>
      PROVE  Watching'
  <2>1. /\ UNCHANGED <<created, connected, missed, disputed, owner, name>> /\ pc[p] = "create"
        /\ \A q \in Procs : q # p => pc'[q] = pc[q]
    BY <1>0, <1>14 DEF CreatePod
  <2>2. name[p] # created[owner[p]]
    BY <1>0, <2>1
  <2>3. \A d \in pods' : Durable(d)' => d \in pods /\ Durable(d)
    BY <1>0, <2>1, <2>2, <1>14 DEF CreatePod, Durable, Completed
  <2>4. \A q \in Procs : pc[q] \in {"pop", "stop", "delete", "monitor"} => pc'[q] = pc[q]
    BY <2>1
  <2> HIDE DEF Durable
  <2> QED
    BY <1>0, <2>1, <2>3, <2>4 DEF Watching
<1>15. ASSUME NEW p \in Procs, Ends(p), pc[p] = "monitor" => Watched(p) = {},
             UNCHANGED <<scheduleMap, ips, randomName, drawn, command, pool, pods, disputed>>,
             UNCHANGED <<fileVars, processVars, historyVars>>
      PROVE  Watching'
  <2>1. /\ UNCHANGED <<pods, created, connected, missed, disputed>>
        /\ pc[p] \notin {"pop", "stop", "delete"}
        /\ \A q \in Procs : q # p => pc'[q] = pc[q] /\ owner'[q] = owner[q] /\ name'[q] = name[q]
    BY <1>0, <1>15 DEF Ends
  <2>2. ASSUME NEW d \in pods, Durable(d), d.idx + 1 = NodeNum[d.task], d.task \in connected \ missed
        PROVE  \E q \in Procs :
                 /\ q # p /\ owner[q] = d.task
                 /\ pc[q] \in {"pop", "stop", "delete"} \/ (pc[q] = "monitor" /\ name[q] = d.name)
    <3>1. PICK q \in Procs :
            /\ owner[q] = d.task
            /\ pc[q] \in {"pop", "stop", "delete"} \/ (pc[q] = "monitor" /\ name[q] = d.name)
      BY <1>0, <2>2 DEF Watching
    <3>2. q # p
      BY <2>1, <2>2, <3>1, <1>15 DEF Watched
    <3> QED
      BY <3>1, <3>2
  <2> QED
    BY <2>1, <2>2 DEF Watching, Durable, Completed
<1>16. ASSUME NEW p \in Procs, GoesOn(p),
             UNCHANGED <<scheduleMap, ips, randomName, drawn, command, pool, pods, disputed>>,
             UNCHANGED <<fileVars, processVars, historyVars>>
      PROVE  Watching'
  <2>1. KeepsWatch(p)
    BY <1>0, <1>16 DEF GoesOn, KeepsWatch, SamePod
  <2> QED
    BY <1>0, <2>1, KeptWatch
<1>17. CASE RCluster
  <2>1. /\ UNCHANGED <<scheduleMap, ips, randomName, drawn, command, pool, disputed, pc, localVars>>
        /\ \A e \in pods' : \E d \in pods : SamePod(e, d)
        /\ \A d \in pods : \E e \in pods' : SamePod(e, d)
        /\ UNCHANGED <<fileVars, processVars, historyVars>>
    BY <1>0, <1>17, ClusterFacts
  <2>2. ASSUME NEW e \in pods', Durable(e)', e.idx + 1 = NodeNum[e.task], e.task \in connected \ missed
        PROVE  \E q \in Procs :
                 /\ owner[q] = e.task
                 /\ pc[q] \in {"pop", "stop", "delete"} \/ (pc[q] = "monitor" /\ name[q] = e.name)
    <3>1. PICK d \in pods : SamePod(e, d)
      BY <2>1
    <3>2. e.task = d.task /\ e.name = d.name /\ e.idx = d.idx /\ Durable(d)
      BY <2>1, <2>2, <3>1 DEF SamePod, Durable, Completed
    <3> QED
      BY <1>0, <2>2, <3>2 DEF Watching
  <2> QED
    BY <2>1, <2>2 DEF Watching
<1>18. ASSUME NEW t \in Tasks, RemoveEntry(t) PROVE Watching'
  <2>1. t \in connected /\ RemoveEntry(t) /\ MemoryFits
    BY <1>0, <1>18 DEF RemoveEntry, Unconnected
  <2>2. /\ DOMAIN updateFile' = DOMAIN updateFile \ {t}
        /\ \A u \in DOMAIN updateFile : u # t => updateFile'[u] = updateFile[u]
    BY <2>1, RemoveFacts
  <2>3. UNCHANGED <<pods, pc, owner, name, connected, created, missed, disputed>>
    BY <1>18 DEF RemoveEntry, vars
  <2> QED
    BY <1>0, <2>3 DEF Watching, Durable, Completed
<1>19. ASSUME NEW t \in Tasks, Connect(t) PROVE Watching'
  <2>1. Joins(t)
    BY <1>0, <1>19, ConnectFacts
  <2>2. UNCHANGED <<pods, created, missed, disputed>> /\ connected' = connected \cup {t}
    BY <1>19 DEF Connect
  <2>3. \A q \in Procs : pc[q] # "idle" => pc'[q] = pc[q] /\ owner'[q] = owner[q] /\ name'[q] = name[q]
    BY <1>0, <2>1 DEF Joins
  <2>4. ASSUME NEW d \in pods, Durable(d), d.idx + 1 = NodeNum[d.task], d.task \in connected' \ missed
        PROVE  \E q \in Procs :
                 /\ owner'[q] = d.task
                 /\ pc'[q] \in {"pop", "stop", "delete"} \/ (pc'[q] = "monitor" /\ name'[q] = d.name)
    <3>1. CASE d.task \in connected
      <4>1. PICK q \in Procs :
              /\ owner[q] = d.task
              /\ pc[q] \in {"pop", "stop", "delete"} \/ (pc[q] = "monitor" /\ name[q] = d.name)
        BY <1>0, <2>4, <3>1 DEF Watching
      <4> QED
        BY <2>3, <4>1
    <3>2. CASE d.task = t
      <4>1. t \in DOMAIN updateFile /\ updateFile[t].complete /\ updateFile[t].name = d.name
        BY <1>0, <2>4, <3>2 DEF Recoverable
      <4>2. PICK q \in Procs :
              /\ GoTo(q, "monitor") /\ owner' = [owner EXCEPT ![q] = t]
              /\ name' = [name EXCEPT ![q] = updateFile[t].name]
        BY <2>1, <4>1 DEF Joins
      <4> QED
        BY <1>0, <3>2, <4>1, <4>2
    <3> QED
      BY <2>2, <2>4, <3>1, <3>2
  <2> QED
    BY <2>2, <2>4 DEF Watching, Durable, Completed
<1>20. CASE Reboot
  BY <1>20 DEF Reboot, Watching
<1>21. ASSUME NEW p \in Procs, Quiet(p), UNCHANGED <<fileVars, processVars, historyVars>>
      PROVE  Watching'
  <2>1. pc[p] = "monitor" => Watched(p) = {}
    BY <1>21 DEF Quiet, Reset, Poll, PopOwn, PopDone, IndexPanic, AssignIp, PodStatus, PodCheck,
       MonitorStops
  <2> QED
    BY <1>0, <1>15, <1>16, <1>21, QuietFacts, <2>1
<1> HIDE DEF Naming, CreatorNamed, MonitorNamed, KnowsNone, RemoverFits, HasPods, Acting,
   IdleFree, Solo, RequestFits, RecoveredFits, Unconnected, Fresh, Dispatches, Creating,
   GoTo, Exit, headVars, localVars, fileVars, processVars, historyVars
<1> QED
  BY <1>1, <1>2, <1>3, <1>4, <1>5, <1>6, <1>7, <1>8, <1>9, <1>10, <1>11, <1>12, <1>13,
     <1>14, <1>17, <1>18, <1>19, <1>20, <1>21
  DEF RNext, RWork, WithoutFiles, Quiet
-----------------------------------------------------------------------------
(* The theorems *)

DurableInv ==
  RTypeOK /\ Steady /\ Naming /\ Recorded /\ Addressed /\ Recoverable

LEMMA DurableInit ==
  ASSUME RInit
  PROVE  DurableInv /\ Watching
<1>1. RTypeOK
  BY RTypeInit
<1> USE SchedulerAssumption DEF RInit, Init, HasPods, Fresh, Dispatches, Creating, Writing
<1>2. Steady
  BY DEF Steady, Acting, IdleFree, Solo, RequestFits, RecoveredFits, Unconnected, MemoryFits
<1>3. Naming
  BY DEF Naming, NamesDrawn, CreatorNamed, PopNamed, MonitorNamed, KnowsNone, DeleteReaches,
         RemoverFits, IncompleteNameless
<1>4. Recorded
  BY DEF Recorded, CurrentRecorded, FreshEmpty, IncompleteEmpty, CompleteRecorded, EntryFresh
<1>5. Addressed
  <2>1. \A t \in Tasks : ~Loadable(t)
    BY DEF Loadable, Lingering
  <2>2. \A t \in Tasks : ~MayFree(t)
    BY DEF MayFree
  <2>3. \A t \in Tasks : Claims(t) = {}
    BY <2>1, <2>2 DEF Claims, Claimed, Loaded
  <2> QED
    BY <2>3 DEF Addressed, FoundIsFree, ClaimsHeld, ClaimsDisjoint, DurableOwned, PodsDiffer,
                DurableHeld, DurableExclusive, Unwritten
<1>6. Recoverable /\ Watching
  BY DEF Recoverable, Watching
<1> QED
  BY <1>1, <1>2, <1>3, <1>4, <1>5, <1>6 DEF DurableInv

\* One step, from the layers above.
LEMMA DurableStep ==
  ASSUME Calm, DurableInv, [RNext]_rvars
  PROVE  DurableInv'
<1>1. RTypeOK'
  BY RTypeStep DEF DurableInv
<1>2. Steady'
  BY MemoryStep, SteadyStep DEF DurableInv, Steady
<1>3. Naming'
  BY NamingStep DEF DurableInv
<1>4. Recorded'
  BY RecordedStep DEF DurableInv
<1>5. Addressed' /\ Recoverable'
  BY AddressedStep, RecoverableStep DEF DurableInv
<1> QED
  BY <1>1, <1>2, <1>3, <1>4, <1>5 DEF DurableInv

THEOREM Durability == ASSUME Calm PROVE RSpec => []DurableInv
<1>1. RInit => DurableInv
  BY DurableInit
<1>2. DurableInv /\ [RNext]_rvars => DurableInv'
  BY DurableStep
<1> QED
  BY <1>1, <1>2, PTL DEF RSpec

\* What a restart loads as marked is marked, and it misses only the addresses of
\* creations that are not complete or about to be written (pod-handler.go:701-745),
\* at whatever moment the process ends.
THEOREM PoolFileIsCurrent == ASSUME Calm PROVE RSpec => []PoolFileCurrent
<1>1. DurableInv => PoolFileCurrent
  <2> SUFFICES ASSUME DurableInv, NEW a \in pool \ poolFile
               PROVE  /\ poolFile \subseteq pool
                      /\ \E t \in Tasks : a \in ips[t] /\ Open(t)
    BY DEF PoolFileCurrent, Open, DurableInv, Addressed, Unwritten
  <2>1. PICK t \in Tasks : a \in Claimed(t) /\ Open(t)
    BY DEF DurableInv, Addressed, Unwritten
  <2> QED
    BY <2>1 DEF Claimed, DurableInv, Addressed, Unwritten
<1> QED
  BY <1>1, Durability, PTL

\* The address of a durable pod is never marked as free, in memory or in .ippool,
\* through any number of restarts at any moment.  A durable pod is one whose address
\* no restart between the writes of the two files, and no failed delete, has brought
\* into dispute (see Torn and Delete_pod).
THEOREM DurableAddressesStayHeld == ASSUME Calm PROVE RSpec => []DurableHeld
<1>1. DurableInv => DurableHeld
  BY DEF DurableInv, Addressed
<1> QED
  BY <1>1, Durability, PTL

\* And no other durable pod is ever given it.
THEOREM DurableAddressesStayExclusive == ASSUME Calm PROVE RSpec => []DurableExclusive
<1>1. DurableInv => DurableExclusive
  BY DEF DurableInv, Addressed
<1> QED
  BY <1>1, Durability, PTL

\* A task whose page is back knows the name and the address of each of its durable
\* pods, unless a status of it did not reach the data server (common.go:623-627).
THEOREM DurablePodsStayKnown == ASSUME Calm PROVE RSpec => []DurableKnown
<1>1. DurableInv => DurableKnown
  BY DEF DurableInv, Recoverable, Recorded, CurrentRecorded, DurableKnown
<1> QED
  BY <1>1, Durability, PTL

\* What an entry of .update claims cannot be freed under a durable pod of another task.
THEOREM EntriesStayExclusive == ASSUME Calm PROVE RSpec => []EntriesExclusive
<1>1. DurableInv => EntriesExclusive
  <2> SUFFICES ASSUME DurableInv, NEW d \in pods, NEW t \in DOMAIN updateFile, Durable(d),
                      d.ip \in updateFile[t].ips, t \notin removing
               PROVE  t = d.task
    BY DEF EntriesExclusive
  <2>1. t \in Tasks
    BY DEF DurableInv, RTypeOK, IsUpdateMap
  <2>2. d.ip \in Loaded(t)
    BY DEF Loaded, Loadable, Lingering
  <2> QED
    BY <2>1, <2>2 DEF DurableInv, Addressed, DurableOwned
<1> QED
  BY <1>1, Durability, PTL

\* A durable training that a restart has met is watched again, or being deleted, as
\* soon as its page is back, so that its end is seen (common.go:642-648).  A log stream
\* that breaks ends its LogMonitor, so this takes a cluster that does not break it.
THEOREM DurableTrainingsStayWatched ==
  ASSUME Calm, "cluster" \notin Behaviours
  PROVE  RSpec => []DurableWatched
<1>1. RInit => DurableInv /\ Watching
  BY DurableInit
<1>2. DurableInv /\ Watching /\ [RNext]_rvars => DurableInv' /\ Watching'
  <2> SUFFICES ASSUME DurableInv, Watching, [RNext]_rvars
               PROVE  DurableInv' /\ Watching'
    OBVIOUS
  <2>1. DurableInv'
    BY DurableStep
  <2>2. Watching'
    BY WatchingStep DEF DurableInv
  <2> QED
    BY <2>1, <2>2
<1>3. Watching => DurableWatched
  BY DEF Watching, DurableWatched
<1> QED
  BY <1>1, <1>2, <1>3, PTL DEF RSpec

=============================================================================
