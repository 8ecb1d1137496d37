---------------------------- MODULE QueueProofs ----------------------------
(***************************************************************************)
(* That QUEUELIST with its polling goroutines implements CreationQueue,    *)
(* for every set of tasks, goroutines and addresses: the steps of          *)
(* Scheduler are steps of the abstract queue, as long as no creation is    *)
(* given up.  That the queue also goes on is left to TLC (QueueRefines).   *)
(***************************************************************************)
EXTENDS SchedulerProofs, SequenceTheorems

\* Users wait for their training, and the cluster grants every pod.
Granting == Orderly /\ "cluster" \notin Behaviours

\* A creation that needs an address finds one.
FindsAddress == \A p \in Procs : pc[p] = "assign" => ~Exhausted(pool)

\* A goroutine that still needs its entry in QUEUELIST.
Entitled(p) == pc[p] \in {"poll", "claim", "popDone", "pop"} \/ Creating(p)

\* Nobody has left an entry behind.
EntriesAwaited ==
  \A i \in 1..Len(queue) : \E p \in Procs : owner[p] = queue[i] /\ Entitled(p)

EntriesDiffer ==
  \A i, j \in 1..Len(queue) : queue[i] = queue[j] => i = j

\* No pod gives a creation a reason to stop.
PodsGranted ==
  /\ \A d \in pods : d.phase \in {"Pending", "Running"}
  /\ \A t \in Tasks : ~insufficient[t]

Lined == EntriesAwaited /\ EntriesDiffer /\ PodsGranted

RefinementInv == QueueInv /\ Lined

\* Nothing is queued when the process starts.
LEMMA RefinementInit == Init => RefinementInv
  BY QueueInit DEF Init, RefinementInv, Lined, EntriesAwaited, EntriesDiffer, PodsGranted

\* An entry that a waiter would drop for a task that is done does not exist: such
\* an entry is awaited by the goroutine that is about to pop it, which nobody
\* overtakes (client.go:85-95).
LEMMA NoPopDone ==
  ASSUME QueueInv, EntriesAwaited, NEW p \in Procs PROVE pc[p] # "popDone"
<1> SUFFICES ASSUME pc[p] = "popDone" PROVE FALSE
  OBVIOUS
<1>1. /\ queue \in Seq(Tasks) /\ queue # << >> /\ scheduleMap[Head(queue)] = "POSTCREATE"
      /\ OneImmediate /\ WaiterFits /\ CreatorFits
  BY DEF QueueInv, TypeOK, Ordered, PopDoneFits
<1>2. 1 \in 1..Len(queue) /\ queue[1] = Head(queue)
  BY <1>1
<1>3. PICK q \in Procs : owner[q] = Head(queue) /\ Entitled(q)
  BY <1>2 DEF EntriesAwaited
<1>4. pc[q] = "pop"
  BY <1>1, <1>3 DEF Entitled, WaiterFits, CreatorFits
<1> QED
  BY <1>1, <1>4 DEF OneImmediate, Immediate

\* The creator, and the goroutine that is about to begin or to end a creation,
\* is the only one of its kind.
LEMMA OneAtHead ==
  ASSUME QueueInv, NEW p \in Procs, NEW q \in Procs,
         Creating(p) \/ pc[p] \in {"claim", "pop"}, Creating(q) \/ pc[q] \in {"claim", "pop"}
  PROVE  p = q /\ AtHead(p)
  BY DEF QueueInv, Ordered, OneInControl, InControl, ClaimFits, CreatorFits, PopFits, AtHead,
     Creating

\* A new entry is the last one, and differs from those before.
LEMMA JoinFacts ==
  ASSUME NEW S, NEW seq \in Seq(S), NEW x \in S, NEW new, new = Append(seq, x)
  PROVE  /\ Len(new) = Len(seq) + 1 /\ Len(seq) \in Nat
         /\ \A i \in 1..Len(new) :
              \/ i \in 1..Len(seq) /\ new[i] = seq[i]
              \/ i = Len(seq) + 1 /\ new[i] = x
<1>1. \A n \in Nat : \A i \in 1..(n + 1) : i \in 1..n \/ i = n + 1
  OBVIOUS
<1>2. Len(seq) \in Nat
  OBVIOUS
<1>3. Len(new) = Len(seq) + 1
  BY AppendProperties
<1>4. \A i \in 1..Len(seq) : new[i] = seq[i]
  BY AppendProperties
<1>5. new[Len(seq) + 1] = x
  BY AppendProperties
<1>6. \A i \in 1..Len(new) : i \in 1..Len(seq) \/ i = Len(seq) + 1
  BY <1>1, <1>2, <1>3
<1> QED
  <2> SUFFICES ASSUME NEW i \in 1..Len(new)
               PROVE  \/ i \in 1..Len(seq) /\ new[i] = seq[i]
                      \/ i = Len(seq) + 1 /\ new[i] = x
    BY <1>2, <1>3
  <2> QED
    BY <1>4, <1>5, <1>6

\* What is left after a pop stood one place further back.
LEMMA PopFacts ==
  ASSUME NEW S, NEW seq \in Seq(S), seq # << >>, NEW rest, rest = Tail(seq)
  PROVE  /\ 1 \in 1..Len(seq) /\ seq[1] = Head(seq)
         /\ \A i \in 1..Len(rest) : i + 1 \in 1..Len(seq) /\ i + 1 # 1 /\ rest[i] = seq[i + 1]
         /\ \A i, j \in 1..Len(rest) : i + 1 = j + 1 => i = j
<1>1. \A n \in Nat \ {0} : /\ 1 \in 1..n
                           /\ \A i \in 1..(n - 1) : i + 1 \in 1..n /\ i + 1 # 1
  OBVIOUS
<1>2. Len(seq) \in Nat \ {0} /\ Len(rest) = Len(seq) - 1
  BY HeadTailProperties
<1>3. \A i \in 1..Len(rest) : rest[i] = seq[i + 1]
  BY HeadTailProperties
<1>4. \A i, j \in 1..Len(rest) : i + 1 = j + 1 => i = j
  OBVIOUS
<1> QED
  BY <1>1, <1>2, <1>3, <1>4

\* Every entry stays awaited, and its task has no other: a START that is dispatched
\* finds no goroutine of its task in the queue, and a pop leaves with its entry.
LEMMA RefinementStep ==
  ASSUME Granting, RefinementInv, FindsAddress, [Next]_vars PROVE RefinementInv'
<1> SUFFICES Lined'
  BY QueueStep DEF RefinementInv, Granting
<1> USE DEF Lined, EntriesAwaited, EntriesDiffer, PodsGranted, Entitled, Creating,
        GoTo, Exit, headVars, localVars
<1>0. /\ queue \in Seq(Tasks) /\ insufficient \in [Tasks -> BOOLEAN]
      /\ pods \in SUBSET Pods /\ pc \in [Procs -> Labels]
      /\ owner \in [Procs -> Tasks \cup {NoTask}]
      /\ \A p \in Procs : pc[p] # "idle" => owner[p] \in Tasks
      /\ EntriesAwaited /\ EntriesDiffer /\ PodsGranted
      /\ \A p \in Procs : pc[p] \notin {"popOwn", "popDone"}
  BY NoPopDone DEF RefinementInv, QueueInv, TypeOK, Ordered, NeverPopsOwn
<1>1. CASE UNCHANGED vars
  BY <1>0, <1>1 DEF vars
<1>2. ASSUME NEW p \in Procs, NEW t \in Tasks, NEW c \in Commands, Receive(p, t, c) PROVE Lined'
  BY <1>0, <1>2 DEF Receive, Accept
<1>3. ASSUME NEW p \in Procs, Start(p) PROVE Lined'
  <2>1. /\ pc[p] = "dispatch" /\ owner[p] \in Tasks /\ queue' = Append(queue, owner[p])
        /\ pc' = [pc EXCEPT ![p] = "poll"] /\ UNCHANGED <<owner, pods, insufficient>>
    BY <1>0, <1>3 DEF Start
  <2>2. \A i \in 1..Len(queue) : queue[i] # owner[p]
    <3>1. \A q \in Procs : Entitled(q) => InControl(q) /\ q # p
      BY <2>1 DEF InControl
    <3>2. InControl(p)
      BY <2>1 DEF InControl
    <3>3. \A q \in Procs : Entitled(q) => owner[q] # owner[p]
      <4> HIDE DEF Entitled
      <4> QED
        BY <3>1, <3>2 DEF RefinementInv, QueueInv, Ordered, OneInControl
    <3> QED
      BY <1>0, <3>3
  <2>3. \A i \in 1..Len(queue') :
          \/ i \in 1..Len(queue) /\ queue'[i] = queue[i]
          \/ i = Len(queue) + 1 /\ queue'[i] = owner[p]
    BY <1>0, <2>1, JoinFacts
  <2>4. EntriesAwaited'
    BY <1>0, <2>1, <2>3
  <2>5. EntriesDiffer'
    BY <1>0, <2>2, <2>3
  <2> QED
    BY <1>0, <2>1, <2>4, <2>5
<1>4. ASSUME NEW p \in Procs, Stop(p) PROVE Lined'
  <2>1. /\ pc[p] = "dispatch" /\ pc' = [pc EXCEPT ![p] = "stop"]
        /\ UNCHANGED <<queue, owner, pods, insufficient>>
    BY <1>4 DEF Stop
  <2>2. \A q \in Procs : Entitled(q) => q # p
    BY <2>1
  <2> QED
    BY <1>0, <2>1, <2>2
<1>5. ASSUME NEW p \in Procs, StopTask(p) PROVE Lined'
  BY <1>0, <1>5 DEF StopTask
<1>6. ASSUME NEW p \in Procs, Restart(p) PROVE Lined'
  BY <1>0, <1>6 DEF Restart
<1>7. ASSUME NEW p \in Procs, Reset(p) PROVE Lined'
  <2>1. /\ pc[p] = "dispatch" /\ pc' = [pc EXCEPT ![p] = "idle"]
        /\ owner' = [owner EXCEPT ![p] = NoTask] /\ UNCHANGED <<queue, pods>>
        /\ insufficient' = [insufficient EXCEPT ![owner[p]] = FALSE]
    BY <1>7 DEF Reset
  <2> QED
    BY <1>0, <2>1
<1>8. ASSUME NEW p \in Procs, Poll(p) PROVE Lined'
  <2>1. /\ pc[p] = "poll" /\ UNCHANGED <<queue, owner, pods, insufficient>>
        /\ \E label \in {"claim", "popOwn", "popDone"} : pc' = [pc EXCEPT ![p] = label]
    BY <1>8 DEF Poll
  <2>2. pc'[p] # "popOwn"
    BY <1>0, <1>8, QueueStep DEF RefinementInv, QueueInv, Ordered, NeverPopsOwn, Granting
  <2> QED
    BY <1>0, <2>1, <2>2
<1>9. ASSUME NEW p \in Procs, PopOwn(p) PROVE Lined'
  BY <1>0, <1>9 DEF PopOwn
<1>10. ASSUME NEW p \in Procs, PopDone(p) PROVE Lined'
  BY <1>0, <1>10 DEF PopDone
<1>11. ASSUME NEW p \in Procs, IndexPanic(p) PROVE Lined'
  BY <1>0, <1>11 DEF IndexPanic
<1>12. ASSUME NEW p \in Procs, Claim(p) PROVE Lined'
  <2>1. /\ pc[p] = "claim" /\ pc' = [pc EXCEPT ![p] = "assign"]
        /\ UNCHANGED <<queue, owner, pods>>
        /\ insufficient' = [insufficient EXCEPT ![owner[p]] = FALSE]
    BY <1>12 DEF Claim
  <2> QED
    BY <1>0, <2>1
<1>13. ASSUME NEW p \in Procs, AssignIp(p) PROVE Lined'
  <2>1. /\ pc[p] = "assign" /\ pc' = [pc EXCEPT ![p] = "create"]
        /\ UNCHANGED <<queue, owner, pods, insufficient>>
    BY <1>13 DEF AssignIp, FindsAddress
  <2> QED
    BY <1>0, <2>1
<1>14. ASSUME NEW p \in Procs, CreatePod(p) PROVE Lined'
  <2>1. \A d \in pods' : d \in pods \/ d.phase = "Pending"
    BY <1>14 DEF CreatePod
  <2>2. /\ pc[p] = "create" /\ pc' = [pc EXCEPT ![p] = "podStatus"]
        /\ UNCHANGED <<queue, owner, insufficient>>
    BY <1>14 DEF CreatePod
  <2> QED
    BY <1>0, <2>1, <2>2
<1>15. ASSUME NEW p \in Procs, PodStatus(p) PROVE Lined'
  <2>1. /\ pc[p] = "podStatus" /\ UNCHANGED <<queue, pods>>
        /\ \/ /\ \E label \in {"assign", "complete"} : GoTo(p, label)
              /\ UNCHANGED <<owner, insufficient>>
           \/ /\ insufficient' = [insufficient EXCEPT ![owner[p]] = @ \/ FALSE]
              /\ GoTo(p, "podCheck") /\ UNCHANGED owner
    BY <1>0, <1>15 DEF PodStatus
  <2>2. UNCHANGED <<owner, queue, pods>> /\ \A t \in Tasks : ~insufficient'[t]
    BY <1>0, <2>1
  <2>3. \E label \in {"assign", "complete", "podCheck"} : pc' = [pc EXCEPT ![p] = label]
    BY <2>1
  <2> QED
    BY <1>0, <2>1, <2>2, <2>3
<1>16. ASSUME NEW p \in Procs, PodCheck(p) PROVE Lined'
  <2>1. GoTo(p, "podStatus") /\ UNCHANGED localVars
    BY <1>0, <1>16 DEF PodCheck
  <2> QED
    BY <1>0, <1>16, <2>1 DEF PodCheck
<1>17. ASSUME NEW p \in Procs, Complete(p) PROVE Lined'
  BY <1>0, <1>17 DEF Complete
<1>18. ASSUME NEW p \in Procs, Pop(p) PROVE Lined'
  <2>1. /\ pc[p] = "pop" /\ queue # << >> /\ queue' = Tail(queue) /\ Head(queue) = owner[p]
        /\ pc' = [pc EXCEPT ![p] = "monitor"] /\ UNCHANGED <<owner, pods, insufficient>>
    BY <1>18, OneAtHead DEF Pop, RefinementInv, AtHead
  <2>2. /\ 1 \in 1..Len(queue) /\ queue[1] = owner[p]
        /\ \A i \in 1..Len(queue') :
             i + 1 \in 1..Len(queue) /\ i + 1 # 1 /\ queue'[i] = queue[i + 1]
        /\ \A i, j \in 1..Len(queue') : i + 1 = j + 1 => i = j
    BY <1>0, <2>1, PopFacts
  <2>3. \A i \in 1..Len(queue') : queue'[i] # owner[p]
    BY <1>0, <2>2
  <2>4. EntriesAwaited'
    BY <1>0, <2>1, <2>2, <2>3
  <2>5. EntriesDiffer'
    BY <1>0, <2>2
  <2> QED
    BY <1>0, <2>1, <2>4, <2>5
<1>19. ASSUME NEW p \in Procs, MonitorStops(p) PROVE Lined'
  BY <1>0, <1>19 DEF MonitorStops
<1>20. ASSUME NEW p \in Procs, DeletePod(p) PROVE Lined'
  <2>1. pods' \subseteq pods /\ UNCHANGED <<queue, owner, pc, insufficient>>
    BY <1>20 DEF DeletePod, Delete_pod
  <2> QED
    BY <1>0, <2>1
<1>21. ASSUME NEW p \in Procs, Release(p) PROVE Lined'
  <2>1. \A t \in Tasks : ~insufficient'[t]
    BY <1>0, <1>21 DEF Release
  <2> QED
    BY <1>0, <1>21, <2>1 DEF Release
<1>22. ASSUME NEW p \in Procs, TrainingEnds(p) PROVE Lined'
  BY <1>0, <1>22 DEF TrainingEnds
<1>23. ASSUME NEW d \in pods, PodRuns(d) \/ PodUnschedulable(d) \/ PodFails(d) PROVE Lined'
  <2>1. SetPhase(d, "Running")
    BY <1>23 DEF PodRuns, PodUnschedulable, PodFails, Granting
  <2>2. d \in Pods
    BY <1>0
  <2>3. [d EXCEPT !.phase = "Running"].phase = "Running"
    BY <2>2 DEF Pods
  <2>4. /\ UNCHANGED <<queue, pc, owner, insufficient>>
        /\ \A e \in pods' : e \in pods \/ e.phase = "Running"
    BY <2>1, <2>3 DEF SetPhase
  <2> QED
    BY <1>0, <2>4
<1> HIDE DEF Lined, EntriesAwaited, EntriesDiffer, PodsGranted, Entitled, Creating,
        GoTo, Exit, headVars, localVars
<1> QED
  BY <1>1, <1>2, <1>3, <1>4, <1>5, <1>6, <1>7, <1>8, <1>9, <1>10, <1>11, <1>12, <1>13,
     <1>14, <1>15, <1>16, <1>17, <1>18, <1>19, <1>20, <1>21, <1>22, <1>23
  DEF Next, Work, Outside, Cluster

-----------------------------------------------------------------------------
(* The refinement *)

\* The waiting tasks and the active one, as QueueRefines maps them.
Waiting == IF Busy /\ queue # << >> THEN Tail(queue) ELSE queue
Active == {owner[p] : p \in {q \in Procs : Creating(q) \/ pc[q] = "pop"}}

\* While a task is created the head of QUEUELIST is its entry; otherwise nothing is
\* active.
LEMMA MappingFacts ==
  ASSUME QueueInv
  PROVE  /\ Busy => queue # << >> /\ Active = {Head(queue)} /\ Waiting = Tail(queue)
         /\ ~Busy => Active = {} /\ Waiting = queue
<1>1. CASE Busy
  <2>1. PICK p \in Procs : Creating(p) \/ pc[p] = "pop"
    BY <1>1 DEF Busy
  <2>2. \A q \in Procs : Creating(q) \/ pc[q] = "pop" => q = p /\ AtHead(p)
    BY <2>1, OneAtHead
  <2> QED
    BY <1>1, <2>1, <2>2 DEF Active, Waiting, AtHead
<1>2. CASE ~Busy
  BY <1>2 DEF Active, Waiting, Busy
<1> QED
  BY <1>1, <1>2

\* START joins the queue behind the others.
LEMMA StartJoins ==
  ASSUME RefinementInv, QueueInv', NEW p \in Procs, Start(p)
  PROVE  CQ!Join(owner[p]) /\ owner[p] \in Tasks
<1> DEFINE t == owner[p]
<1>1. /\ pc[p] = "dispatch" /\ t \in Tasks /\ queue' = Append(queue, t)
      /\ pc' = [pc EXCEPT ![p] = "poll"] /\ owner' = owner
      /\ queue \in Seq(Tasks) /\ pc \in [Procs -> Labels]
  BY DEF Start, RefinementInv, QueueInv, TypeOK, GoTo, localVars
<1> HIDE DEF t
<1>2. \A q \in Procs : Entitled(q) => owner[q] # t
  BY <1>1 DEF RefinementInv, QueueInv, Ordered, OneInControl, InControl, Entitled, Creating, t
<1>3. \A i \in 1..Len(queue) : queue[i] # t
  BY <1>2 DEF RefinementInv, Lined, EntriesAwaited
<1>4. \A q \in Procs : (Creating(q) \/ pc[q] = "pop") <=> (Creating(q) \/ pc[q] = "pop")'
  BY <1>1 DEF Creating
<1>5. Active' = Active /\ (Busy' <=> Busy)
  BY <1>1, <1>4 DEF Active, Busy
<1>6. t \notin Active
  BY <1>2 DEF Active, Entitled
<1>7. CASE Busy
  <2>1. /\ queue # << >> /\ Waiting = Tail(queue) /\ Waiting' = Tail(queue')
    BY <1>5, <1>7, MappingFacts DEF RefinementInv, Waiting
  <2>2. Waiting' = Append(Waiting, t)
    BY <1>1, <2>1, HeadTailAppend
  <2>3. DOMAIN Waiting = 1..Len(Waiting)
    BY <1>1, <2>1, HeadTailProperties
  <2>4. \A i \in DOMAIN Waiting : Waiting[i] # t
    BY <1>1, <1>3, <2>1, <2>3, PopFacts
  <2> QED
    BY <1>1, <1>5, <1>6, <2>2, <2>4 DEF CQ!Join, Waiting, Active, t
<1>8. CASE ~Busy
  <2>1. Waiting = queue /\ Waiting' = queue'
    BY <1>5, <1>8 DEF Waiting
  <2>2. \A i \in DOMAIN Waiting : Waiting[i] # t
    BY <1>1, <1>3, <2>1
  <2> QED
    BY <1>1, <1>5, <1>6, <2>1, <2>2 DEF CQ!Join, Waiting, Active, t
<1> QED
  BY <1>7, <1>8

\* Claiming the head of QUEUELIST begins its creation.
LEMMA ClaimBegins ==
  ASSUME QueueInv, QueueInv', NEW p \in Procs, Claim(p) PROVE CQ!Begin
<1>1. /\ pc[p] = "claim" /\ pc' = [pc EXCEPT ![p] = "assign"]
      /\ UNCHANGED <<queue, owner>> /\ pc \in [Procs -> Labels]
  BY DEF Claim, GoTo, QueueInv, TypeOK
<1>2. ~Busy
  BY <1>1, OneAtHead DEF Busy, Creating
<1>3. Busy'
  BY <1>1 DEF Busy, Creating
<1>4. Active = {} /\ Waiting = queue
  BY <1>2, MappingFacts
<1>5. Active' = {Head(queue)} /\ Waiting' = Tail(queue) /\ queue # << >>
  <2>1. (Busy => queue # << >> /\ Active = {Head(queue)} /\ Waiting = Tail(queue))'
    BY MappingFacts, PTL
  <2> QED
    BY <1>1, <1>3, <2>1
<1> QED
  BY <1>4, <1>5 DEF CQ!Begin, Waiting, Active

\* Popping the entry of a created task ends its creation.
LEMMA PopEnds ==
  ASSUME QueueInv, NEW p \in Procs, Pop(p) PROVE CQ!End
<1>1. /\ pc[p] = "pop" /\ pc' = [pc EXCEPT ![p] = "monitor"]
      /\ queue' = Tail(queue) /\ owner' = owner /\ pc \in [Procs -> Labels]
  BY DEF Pop, GoTo, QueueInv, TypeOK
<1>2. Busy
  BY <1>1 DEF Busy
<1>3. Active = {Head(queue)} /\ Waiting = Tail(queue)
  BY <1>2, MappingFacts
<1>4. \A q \in Procs : ~(Creating(q) \/ pc[q] = "pop")'
  BY <1>1, OneAtHead DEF Creating
<1>5. Active' = {} /\ Waiting' = queue'
  BY <1>4 DEF Active, Waiting, Busy
<1> QED
  BY <1>1, <1>3, <1>5 DEF CQ!End, Waiting, Active

\* A step that leaves QUEUELIST and the creating goroutines alone is not visible.
LEMMA Stutters ==
  ASSUME queue' = queue, owner \in [Procs -> Tasks \cup {NoTask}],
         \/ owner' = owner
         \/ \E p \in Procs : /\ ~(Creating(p) \/ pc[p] = "pop")
                             /\ \E x : owner' = [owner EXCEPT ![p] = x],
         \A q \in Procs : (Creating(q) \/ pc[q] = "pop")' <=> (Creating(q) \/ pc[q] = "pop")
  PROVE  UNCHANGED CQ!cqvars
<1>1. Active' = Active
  BY DEF Active
<1>2. Busy' <=> Busy
  BY DEF Busy
<1>3. Waiting' = Waiting
  BY <1>2 DEF Waiting
<1> QED
  BY <1>1, <1>3 DEF CQ!cqvars, Waiting, Active

\* Every step of the goroutines is a step of the abstract queue or invisible.
LEMMA QueueSimulates ==
  ASSUME Granting, RefinementInv, FindsAddress, [Next]_vars
  PROVE  [CQ!CQNext]_(CQ!cqvars)
<1> USE DEF Creating, GoTo, Exit, headVars, localVars
<1>0. /\ pc \in [Procs -> Labels] /\ owner \in [Procs -> Tasks \cup {NoTask}]
      /\ \A p \in Procs : pc[p] # "idle" => owner[p] \in Tasks
      /\ \A p \in Procs : pc[p] \notin {"popOwn", "popDone"}
      /\ QueueInv /\ QueueInv' /\ Lined /\ PodsGranted
  BY NoPopDone, QueueStep
  DEF RefinementInv, Lined, QueueInv, TypeOK, Ordered, NeverPopsOwn, Granting
<1>1. UNCHANGED vars => UNCHANGED CQ!cqvars
  BY <1>0, Stutters DEF vars
<1>2. ASSUME NEW p \in Procs, NEW t \in Tasks, NEW c \in Commands, Receive(p, t, c)
      PROVE  UNCHANGED CQ!cqvars
  <2>1. /\ pc[p] = "idle" /\ queue' = queue /\ owner' = [owner EXCEPT ![p] = t]
        /\ pc' = [pc EXCEPT ![p] = "dispatch"]
    BY <1>2 DEF Receive, Accept
  <2> QED
    BY <1>0, <2>1, Stutters
<1>3. ASSUME NEW p \in Procs, Start(p) PROVE \E t \in Tasks : CQ!Join(t)
  BY <1>3, <1>0, StartJoins DEF CQ!CQNext, RefinementInv
<1>4. ASSUME NEW p \in Procs, Stop(p) PROVE UNCHANGED CQ!cqvars
  <2>1. /\ queue' = queue /\ pc[p] = "dispatch" /\ pc' = [pc EXCEPT ![p] = "stop"]
        /\ owner' = owner
    BY <1>0, <1>4 DEF Stop
  <2> QED
    BY <1>0, <2>1, Stutters
<1>5. ASSUME NEW p \in Procs, StopTask(p) PROVE UNCHANGED CQ!cqvars
  <2>1. /\ queue' = queue /\ pc[p] = "stop" /\ pc' = [pc EXCEPT ![p] = "delete"]
        /\ owner' = owner
    BY <1>0, <1>5 DEF StopTask
  <2> QED
    BY <1>0, <2>1, Stutters
<1>6. ASSUME NEW p \in Procs, Restart(p) PROVE UNCHANGED CQ!cqvars
  <2>1. /\ queue' = queue /\ pc[p] = "dispatch" /\ pc' = [pc EXCEPT ![p] = "delete"]
        /\ owner' = owner
    BY <1>0, <1>6 DEF Restart
  <2> QED
    BY <1>0, <2>1, Stutters
<1>7. ASSUME NEW p \in Procs, Reset(p) PROVE UNCHANGED CQ!cqvars
  <2>1. /\ queue' = queue /\ pc[p] = "dispatch" /\ pc' = [pc EXCEPT ![p] = "idle"]
        /\ owner' = [owner EXCEPT ![p] = NoTask]
    BY <1>0, <1>7 DEF Reset
  <2> QED
    BY <1>0, <2>1, Stutters
<1>8. ASSUME NEW p \in Procs, Poll(p) PROVE UNCHANGED CQ!cqvars
  <2>1. /\ UNCHANGED <<queue, owner>> /\ pc[p] = "poll"
        /\ \E label \in {"claim", "popOwn", "popDone"} : pc' = [pc EXCEPT ![p] = label]
    BY <1>8 DEF Poll
  <2> QED
    BY <1>0, <2>1, Stutters
<1>9. ASSUME NEW p \in Procs, PopOwn(p) PROVE UNCHANGED CQ!cqvars
  BY <1>0, <1>9 DEF PopOwn
<1>10. ASSUME NEW p \in Procs, PopDone(p) PROVE UNCHANGED CQ!cqvars
  BY <1>0, <1>10 DEF PopDone
<1>11. ASSUME NEW p \in Procs, IndexPanic(p) PROVE UNCHANGED CQ!cqvars
  <2>1. UNCHANGED <<queue, pc, owner>>
    BY <1>11 DEF IndexPanic
  <2> QED
    BY <1>0, <2>1, Stutters
<1>12. ASSUME NEW p \in Procs, Claim(p) PROVE CQ!Begin
  BY <1>12, <1>0, ClaimBegins DEF CQ!CQNext
<1>13. ASSUME NEW p \in Procs, AssignIp(p) PROVE UNCHANGED CQ!cqvars
  <2>1. /\ UNCHANGED <<queue, owner>> /\ pc[p] = "assign"
        /\ pc' = [pc EXCEPT ![p] = "create"]
    BY <1>13 DEF AssignIp, FindsAddress
  <2> QED
    BY <1>0, <2>1, Stutters
<1>14. ASSUME NEW p \in Procs, CreatePod(p) PROVE UNCHANGED CQ!cqvars
  <2>1. /\ queue' = queue /\ pc[p] = "create" /\ pc' = [pc EXCEPT ![p] = "podStatus"]
        /\ owner' = owner
    BY <1>0, <1>14 DEF CreatePod
  <2> QED
    BY <1>0, <2>1, Stutters
<1>15. ASSUME NEW p \in Procs, PodStatus(p) PROVE UNCHANGED CQ!cqvars
  <2>1. /\ UNCHANGED <<queue, owner>> /\ pc[p] = "podStatus"
        /\ \E label \in {"assign", "complete", "podCheck"} : pc' = [pc EXCEPT ![p] = label]
    BY <1>0, <1>15 DEF PodStatus, PodsGranted
  <2> QED
    BY <1>0, <2>1, Stutters
<1>16. ASSUME NEW p \in Procs, PodCheck(p) PROVE UNCHANGED CQ!cqvars
  <2>1. /\ UNCHANGED <<queue, owner>> /\ pc[p] = "podCheck"
        /\ pc' = [pc EXCEPT ![p] = "podStatus"]
    BY <1>0, <1>16 DEF PodCheck, PodsGranted
  <2> QED
    BY <1>0, <2>1, Stutters
<1>17. ASSUME NEW p \in Procs, Complete(p) PROVE UNCHANGED CQ!cqvars
  <2>1. /\ queue' = queue /\ pc[p] = "complete" /\ pc' = [pc EXCEPT ![p] = "pop"]
        /\ owner' = owner
    BY <1>0, <1>17 DEF Complete
  <2> QED
    BY <1>0, <2>1, Stutters
<1>18. ASSUME NEW p \in Procs, Pop(p) PROVE CQ!End
  BY <1>18, <1>0, PopEnds DEF CQ!CQNext
<1>19. ASSUME NEW p \in Procs, MonitorStops(p) PROVE UNCHANGED CQ!cqvars
  <2>1. /\ queue' = queue /\ pc[p] = "monitor" /\ pc' = [pc EXCEPT ![p] = "idle"]
        /\ owner' = [owner EXCEPT ![p] = NoTask]
    BY <1>0, <1>19 DEF MonitorStops
  <2> QED
    BY <1>0, <2>1, Stutters
<1>20. ASSUME NEW p \in Procs, DeletePod(p) PROVE UNCHANGED CQ!cqvars
  <2>1. UNCHANGED <<queue, pc, owner>>
    BY <1>20 DEF DeletePod
  <2> QED
    BY <1>0, <2>1, Stutters
<1>21. ASSUME NEW p \in Procs, Release(p) PROVE UNCHANGED CQ!cqvars
  <2>1. /\ queue' = queue /\ pc[p] = "delete" /\ pc' = [pc EXCEPT ![p] = "idle"]
        /\ owner' = [owner EXCEPT ![p] = NoTask]
    BY <1>0, <1>21 DEF Release
  <2> QED
    BY <1>0, <2>1, Stutters
<1>22. ASSUME NEW p \in Procs, TrainingEnds(p) PROVE UNCHANGED CQ!cqvars
  <2>1. /\ queue' = queue /\ pc[p] = "monitor" /\ pc' = [pc EXCEPT ![p] = "delete"]
        /\ owner' = owner
    BY <1>0, <1>22 DEF TrainingEnds
  <2> QED
    BY <1>0, <2>1, Stutters
<1>23. ASSUME NEW d \in pods, PodRuns(d) \/ PodUnschedulable(d) \/ PodFails(d)
      PROVE UNCHANGED CQ!cqvars
  <2>1. UNCHANGED <<queue, pc, owner>>
    BY <1>23 DEF PodRuns, PodUnschedulable, PodFails, SetPhase
  <2> QED
    BY <1>0, <2>1, Stutters
<1> HIDE DEF Creating, GoTo, Exit, headVars, localVars
<1> QED
  BY <1>1, <1>2, <1>3, <1>4, <1>5, <1>6, <1>7, <1>8, <1>9, <1>10, <1>11, <1>12, <1>13,
     <1>14, <1>15, <1>16, <1>17, <1>18, <1>19, <1>20, <1>21, <1>22, <1>23
  DEF Next, Work, Outside, Cluster, CQ!CQNext

\* While no creation looks for an address in vain and the cluster grants every pod,
\* the shared slice and its polling goroutines create the tasks one at a time in the
\* order of their START commands (client.go:60-97 with cluster-operator.go:138-141 implement
\* CreationQueue; what QueueRefines says beside its fairness).
THEOREM QueueKeepsItsPromise ==
  ASSUME Granting PROVE Spec /\ []FindsAddress => CQ!CQSafety
<1>1. Init => CQ!CQInit
  BY DEF Init, CQ!CQInit, Creating
<1>2. RefinementInv /\ FindsAddress /\ [Next]_vars
        => RefinementInv' /\ [CQ!CQNext]_(CQ!cqvars)
  BY RefinementStep, QueueSimulates
<1> QED
  BY <1>1, <1>2, RefinementInit, PTL DEF Spec, CQ!CQSafety
=============================================================================
