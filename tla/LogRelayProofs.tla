--------------------------- MODULE LogRelayProofs ---------------------------
(***************************************************************************)
(* What holds of the pages of a task, for every set of pages and           *)
(* administrators, every training and every number of lines and notices.   *)
(***************************************************************************)
EXTENDS LogRelay, TLAPS

\* A chain of at most two nodes, of which one at most is an administrator's and
\* one at most is not.
RolesDiffer(l) == Len(l.nodes) <= 2 /\ (Len(l.nodes) = 2 => ~SameRole(l.nodes[1], l.nodes[2]))

\* The counter says how long the chain is.
Counted(l) == l.count = Len(l.nodes)

\* The nodes of a short chain, one by one.
LEMMA ChainFacts ==
  ASSUME NEW l \in Lists
  PROVE  /\ Len(l.nodes) = 0 => Listed(l) = {}
         /\ Len(l.nodes) = 1 => Listed(l) = {l.nodes[1]}
         /\ Len(l.nodes) = 2 => Listed(l) = {l.nodes[1], l.nodes[2]}
<1>1. DOMAIN l.nodes = 1..Len(l.nodes)
  BY DEF Lists
<1> QED
  BY <1>1 DEF Listed

\* The pages that are listed, and the one that is sent to, are pages.
LEMMA ListedFacts ==
  ASSUME NEW l \in Lists
  PROVE  Listed(l) \subseteq Clients /\ Receivers(l) \subseteq Listed(l)
<1>1. l.nodes \in Seq(Clients)
  BY DEF Lists
<1>2. \A i \in DOMAIN l.nodes : l.nodes[i] \in Clients
  BY <1>1
<1> QED
  BY <1>2 DEF Listed, Receivers

\* A chain that was just built from one node, and one from two.
LEMMA BuiltChains ==
  ASSUME NEW m, NEW a \in Clients, NEW n \in 0..2
  PROVE  /\ m = [nodes |-> <<a>>, count |-> n] =>
              m \in Lists /\ Listed(m) = {a} /\ Len(m.nodes) = 1 /\ m.count = n
         /\ \A b \in Clients : m = [nodes |-> <<a, b>>, count |-> n] =>
              /\ m \in Lists /\ Listed(m) = {a, b} /\ Len(m.nodes) = 2 /\ m.count = n
              /\ m.nodes[1] = a /\ m.nodes[2] = b
<1>1. ASSUME m = [nodes |-> <<a>>, count |-> n]
      PROVE  m \in Lists /\ Len(m.nodes) = 1 /\ m.nodes[1] = a /\ m.count = n
  BY <1>1 DEF Lists
<1>2. ASSUME NEW b \in Clients, m = [nodes |-> <<a, b>>, count |-> n]
      PROVE  /\ m \in Lists /\ Len(m.nodes) = 2 /\ m.count = n
             /\ m.nodes[1] = a /\ m.nodes[2] = b
  BY <1>2 DEF Lists
<1> QED
  BY <1>1, <1>2, ChainFacts

\* Append puts the page into the list, keeps the roles apart, closes only what
\* it takes out, and either keeps the counter right or leaves a chain that is
\* too short for it (linkListOperation.go:57-91).
LEMMA AppendFacts ==
  ASSUME NEW l \in Lists, RolesDiffer(l), Counted(l), NEW c \in Clients
  PROVE  /\ Appended(l, c) \in Lists /\ RolesDiffer(Appended(l, c))
         /\ ~FollowsNil(Appended(l, c)) =>
              /\ Counted(Appended(l, c))
              /\ Listed(l) \subseteq Listed(Appended(l, c)) \cup Replaced(l, c)
         /\ c \in Listed(Appended(l, c))
         /\ Listed(Appended(l, c)) \subseteq Listed(l) \cup {c}
         /\ Replaced(l, c) \subseteq Listed(l)
         /\ c \notin Listed(l) => Replaced(l, c) \cap Listed(Appended(l, c)) = {}
<1> DEFINE m == Appended(l, c)
<1>0. l.nodes \in Seq(Clients) /\ l.count = Len(l.nodes) /\ l.count \in 0..2
  BY DEF Lists, Counted
<1>1. CASE l.nodes = << >>
  <2>1. m = [nodes |-> <<c>>, count |-> 1] /\ Replaced(l, c) = {}
    BY <1>0, <1>1 DEF Appended, Replaced, Matches
  <2>2. m \in Lists /\ Listed(m) = {c} /\ Len(m.nodes) = 1 /\ m.count = 1
    BY <2>1, BuiltChains
  <2>3. Listed(l) = {}
    BY <1>1, ChainFacts
  <2> QED
    BY <2>1, <2>2, <2>3 DEF RolesDiffer, Counted
<1>2. CASE l.nodes # << >> /\ SameRole(l.nodes[1], c)
  <2>1. 1 \in Matches(l, c)
    BY <1>0, <1>2 DEF Matches, SameRole
  <2>2. m = [nodes |-> <<c>>, count |-> l.count] /\ Replaced(l, c) = {l.nodes[1]}
    BY <1>2, <2>1 DEF Appended, Replaced, Lists
  <2>3. l.nodes[1] \in Listed(l)
    BY <1>0, <1>2 DEF Listed
  <2>4. m \in Lists /\ RolesDiffer(m) /\ Listed(m) = {c}
    BY <1>0, <2>2, BuiltChains DEF RolesDiffer
  <2>5. ~FollowsNil(m) => Counted(m) /\ Len(l.nodes) = 1
    BY <1>0, <1>2, <2>2 DEF FollowsNil, Counted
  <2> QED
    BY <2>2, <2>3, <2>4, <2>5, ChainFacts
<1>3. CASE l.nodes # << >> /\ ~SameRole(l.nodes[1], c)
  <2>1. 1 \notin Matches(l, c) /\ Matches(l, c) \subseteq 1..2
    BY <1>0, <1>3 DEF Matches, SameRole
  <2>2. m = [nodes |-> <<l.nodes[1], c>>, count |-> 2] /\ l.nodes[1] \in Clients
    BY <1>0, <1>3, <2>1 DEF Appended, Lists
  <2>3. m \in Lists /\ RolesDiffer(m) /\ Counted(m) /\ Listed(m) = {l.nodes[1], c}
    BY <1>3, <2>2, BuiltChains DEF RolesDiffer, Counted, SameRole
  <2>4. CASE Len(l.nodes) = 1
    <3>1. Matches(l, c) = {}
      BY <1>0, <2>1, <2>4 DEF Matches
    <3>2. Replaced(l, c) = {} /\ Listed(l) = {l.nodes[1]}
      BY <2>1, <2>4, <3>1, ChainFacts DEF Replaced
    <3> QED
      BY <2>3, <3>2
  <2>5. CASE Len(l.nodes) = 2
    <3>1. 2 \in Matches(l, c)
      BY <1>0, <1>3, <2>5 DEF Matches, RolesDiffer, SameRole
    <3>2. Matches(l, c) = {2}
      BY <2>1, <3>1
    <3>3. Replaced(l, c) = {l.nodes[2]}
      BY <2>1, <3>2 DEF Replaced
    <3>4. l.nodes[1] # l.nodes[2]
      BY <2>5 DEF RolesDiffer, SameRole
    <3> QED
      BY <2>3, <2>5, <3>3, <3>4, ChainFacts
  <2> QED
    BY <1>0, <1>3, <2>4, <2>5
<1> QED
  BY <1>1, <1>2, <1>3

\* Remove takes out the page that leaves and nobody else, and counts it
\* (linkListOperation.go:94-135).
LEMMA RemoveFacts ==
  ASSUME NEW l \in Lists, RolesDiffer(l), Counted(l), NEW c \in Clients
  PROVE  /\ Removed(l, c) \in Lists /\ RolesDiffer(Removed(l, c)) /\ Counted(Removed(l, c))
         /\ Listed(Removed(l, c)) = Listed(l) \ {c}
<1> DEFINE m == Removed(l, c)
<1>0. l.nodes \in Seq(Clients) /\ l.count = Len(l.nodes) /\ l.count \in 0..2
  BY DEF Lists, Counted
<1>1. CASE c \notin Listed(l)
  BY <1>1 DEF Removed
<1>2. CASE c \in Listed(l) /\ Len(l.nodes) = 1
  <2>1. l.nodes[1] = c
    BY <1>2, ChainFacts
  <2>2. m = [nodes |-> << >>, count |-> 0]
    BY <1>0, <1>2, <2>1 DEF Removed
  <2> QED
    <3>1. m \in Lists /\ Len(m.nodes) = 0 /\ m.count = 0
      BY <2>2 DEF Lists
    <3>2. Listed(m) = {}
      BY <3>1, ChainFacts
    <3> QED
      BY <1>2, <2>1, <3>1, <3>2, ChainFacts DEF RolesDiffer, Counted
<1>3. CASE c \in Listed(l) /\ Len(l.nodes) = 2
  <2>1. l.nodes[1] # l.nodes[2]
    BY <1>3 DEF RolesDiffer, SameRole
  <2>2. l.nodes[1] \in Clients /\ l.nodes[2] \in Clients
    BY <1>0, <1>3
  <2>3. CASE l.nodes[1] = c
    <3>1. m = [nodes |-> <<l.nodes[2]>>, count |-> 1]
      BY <1>0, <1>3, <2>3 DEF Removed
    <3> QED
      BY <1>3, <2>1, <2>2, <2>3, <3>1, ChainFacts, BuiltChains DEF RolesDiffer, Counted
  <2>4. CASE l.nodes[2] = c
    <3>1. m = [nodes |-> <<l.nodes[1]>>, count |-> 1]
      BY <1>0, <1>3, <2>1, <2>4 DEF Removed
    <3> QED
      BY <1>3, <2>1, <2>2, <2>4, <3>1, ChainFacts, BuiltChains DEF RolesDiffer, Counted
  <2> QED
    BY <1>3, <2>3, <2>4, ChainFacts
<1> QED
  BY <1>0, <1>1, <1>2, <1>3, ChainFacts
-----------------------------------------------------------------------------
(* Types *)

\* The counter is right for as long as nobody has followed a nil pointer.
ListFits == RolesDiffer(list) /\ (panicked = "no" => Counted(list))

\* A broadcast that waits for the hub is within the bound.
NoticeFits == notifying => notices < MaxNotices

\* The bounds of the model are numbers.
LEMMA Bounds == MaxLines \in Nat /\ MaxNotices \in Nat /\ NoClient \notin Clients
  BY LogRelayAssumption

\* Nothing is connected and nothing was read when the head node is built.
LEMMA RelayTypeInit == Init => TypeOK
<1> SUFFICES ASSUME Init PROVE TypeOK
  OBVIOUS
<1>1. << >> \in Seq(Clients)
  OBVIOUS
<1>2. list \in Lists
  BY <1>1 DEF Init, NewList, Lists
<1>3. 0 \in 0..MaxLines /\ 0 \in 0..MaxNotices
  BY Bounds
<1> QED
  BY <1>2, <1>3 DEF Init, TypeOK, Statuses

\* The chain and its counter stay within the bounds of the code as long as the
\* process lives, and so does everything the goroutines hand to each other.
LEMMA RelayTypeStep == TypeOK /\ ListFits /\ NoticeFits /\ [Next]_vars => TypeOK'
<1> SUFFICES ASSUME TypeOK, ListFits, NoticeFits, [Next]_vars PROVE TypeOK'
  OBVIOUS
<1> USE DEF TypeOK, chanVars, monitorVars, noticeVars, smVars, Statuses
<1>1. CASE UNCHANGED vars
  BY <1>1 DEF vars
<1>2. ASSUME NEW c \in Clients, Connect(c) PROVE TypeOK'
  BY <1>2 DEF Connect
<1>3. ASSUME NEW c \in Clients, Register(c), panicked = "no" PROVE TypeOK'
  <2>1. list' \in Lists /\ closed' \in SUBSET Clients
    <3>1. Appended(list, c) \in Lists /\ Replaced(list, c) \subseteq Listed(list)
      BY <1>3, AppendFacts DEF ListFits
    <3>2. Listed(list) \subseteq Clients
      BY ListedFacts
    <3> QED
      BY <1>3, <3>1, <3>2 DEF Register
  <2>2. running' \in SUBSET Clients /\ holding' = holding /\ running \subseteq running'
    BY <1>3 DEF Register
  <2>3. conn' \in [Clients -> {"none", "register", "starting", "open", "leaving", "gone"}]
        /\ panicked' \in {"no", "nilPointer", "closedSend"}
        /\ UNCHANGED <<writer, hub, monitorVars, noticeVars, smVars>>
    BY <1>3 DEF Register
  <2> QED
    BY <2>1, <2>2, <2>3
<1>4. ASSUME NEW c \in Clients, StartPumps(c) PROVE TypeOK'
  BY <1>4 DEF StartPumps
<1>5. ASSUME NEW c \in Clients, Leave(c) PROVE TypeOK'
  BY <1>5 DEF Leave
<1>6. ASSUME NEW c \in Clients, Remove(c), panicked = "no" PROVE TypeOK'
  <2>1. list' \in Lists
    BY <1>6, RemoveFacts DEF Remove, ListFits
  <2> QED
    BY <1>6, <2>1 DEF Remove
<1>7. ASSUME NEW c \in Clients, WriterReturns(c) PROVE TypeOK'
  BY <1>7 DEF WriterReturns
<1>8. Receivers(list) \subseteq Clients
  BY ListedFacts
<1>9. ASSUME NEW c \in Clients, BroadcastMarker(c) PROVE TypeOK'
  BY <1>8, <1>9 DEF BroadcastMarker, HubTakes
<1>10. ASSUME NEW c \in Clients, Deliver(c) PROVE TypeOK'
  BY <1>10 DEF Deliver
<1>11. ASSUME NEW h \in holding, WriteLine(h) PROVE TypeOK'
  <2>1. h.to \in Clients
    BY DEF Handed
  <2>2. writer' \in [Clients -> {"none", "select", "broadcast", "broadcastErr", "done"}]
        /\ smType' \in Statuses
    BY <1>11, <2>1 DEF WriteLine
  <2> QED
    BY <1>11, <2>2 DEF WriteLine
<1>12. ASSUME NoticeTaken PROVE TypeOK'
  <2>1. notices' \in 0..MaxNotices
    <3>1. notices \in 0..MaxNotices /\ notices' = notices + 1
      BY <1>12 DEF NoticeTaken
    <3>2. notices < MaxNotices
      BY <1>12 DEF NoticeTaken, NoticeFits
    <3> QED
      BY <3>1, <3>2, Bounds
  <2>2. hub' \in Clients \cup {NoClient}
    BY <1>8, <1>12 DEF NoticeTaken, HubTakes
  <2> QED
    BY <1>12, <2>1, <2>2 DEF NoticeTaken
<1>13. ASSUME HandOver PROVE TypeOK'
  <2>1. (CHOOSE r \in Waiting : TRUE) \in running
    BY <1>13 DEF HandOver, Waiting
  <2> DEFINE r == CHOOSE r \in Waiting : TRUE
  <2>2. holding' = holding \cup {[run |-> r, to |-> c, type |-> smType] : c \in Receivers(list)}
    BY <1>13 DEF HandOver
  <2> HIDE DEF r
  <2>3. holding' \in SUBSET Handed /\ \A h \in holding' : h.run \in running
    <3>1. r \in running /\ r \in Clients /\ smType \in Statuses
      BY <2>1 DEF r
    <3>2. \A c \in Receivers(list) : [run |-> r, to |-> c, type |-> smType] \in Handed
      BY <1>8, <3>1 DEF Handed
    <3> QED
      BY <2>2, <3>1, <3>2
  <2> QED
    BY <1>13, <2>3 DEF HandOver
<1>14. ASSUME HandAgain PROVE TypeOK'
  BY <1>14 DEF HandAgain
<1>15. ASSUME NEW line \in {"timeout", "START", "line", "DONE", "ERR"}, ReadLine(line)
       PROVE  TypeOK'
  <2>1. lines' \in 0..MaxLines
    BY <1>15, Bounds DEF ReadLine
  <2>2. smType' \in Statuses /\ smLog' \in {"none", "START", "line"} \cup Markers
    BY <1>15 DEF ReadLine
  <2> QED
    BY <1>15, <2>1, <2>2 DEF ReadLine
<1>16. ASSUME Notify PROVE TypeOK'
  BY <1>16 DEF Notify
<1> HIDE DEF TypeOK, chanVars, monitorVars, noticeVars, smVars, Statuses
<1> QED
  BY <1>1, <1>2, <1>3, <1>4, <1>5, <1>6, <1>7, <1>9, <1>10, <1>11, <1>12, <1>13, <1>14, <1>15,
     <1>16 DEF Next, Pumps, Outside

-----------------------------------------------------------------------------
(* The list and the pages that are in it *)

\* Only a page that the hub has registered is listed or was closed.
OnlyRegistered ==
  \A c \in Listed(list) \cup closed : conn[c] \notin {"none", "register"}

RelayInv ==
  TypeOK /\ NoticeFits /\ ListFits /\ OnlyRegistered /\ ClosedNotListed /\ PagesListed

\* No page is connected when the head node is built.
LEMMA RelayInit == Init => RelayInv
<1> SUFFICES ASSUME Init PROVE RelayInv
  OBVIOUS
<1>1. list \in Lists /\ Len(list.nodes) = 0 /\ list.count = 0
  BY RelayTypeInit DEF Init, NewList, TypeOK
<1>2. Listed(list) = {}
  BY <1>1, ChainFacts
<1> QED
  BY <1>1, <1>2, RelayTypeInit
  DEF Init, RelayInv, NoticeFits, ListFits, RolesDiffer, Counted, OnlyRegistered,
      ClosedNotListed, PagesListed

\* The goroutine that broadcasts was let in below the bound, and is the only one.
LEMMA NoticeStep == NoticeFits /\ [Next]_vars => NoticeFits'
<1> SUFFICES ASSUME NoticeFits, [Next]_vars PROVE NoticeFits'
  OBVIOUS
<1> USE DEF NoticeFits, noticeVars
<1>1. CASE UNCHANGED vars
  BY <1>1 DEF vars
<1>2. CASE Notify \/ NoticeTaken
  BY <1>2 DEF Notify, NoticeTaken
<1>3. ASSUME UNCHANGED noticeVars PROVE NoticeFits'
  BY <1>3
<1> HIDE DEF NoticeFits, noticeVars
<1>4. ASSUME NEW c \in Clients,
             \/ Connect(c) \/ Register(c) \/ StartPumps(c) \/ Leave(c) \/ Remove(c)
             \/ WriterReturns(c) \/ BroadcastMarker(c) \/ Deliver(c)
      PROVE  UNCHANGED noticeVars
  BY <1>4 DEF Connect, Register, StartPumps, Leave, Remove, WriterReturns, BroadcastMarker,
              Deliver
<1>5. ASSUME NEW h \in holding, WriteLine(h) PROVE UNCHANGED noticeVars
  BY <1>5 DEF WriteLine
<1>6. ASSUME \/ HandOver \/ HandAgain
             \/ \E line \in {"timeout", "START", "line", "DONE", "ERR"} : ReadLine(line)
      PROVE  UNCHANGED noticeVars
  BY <1>6 DEF HandOver, HandAgain, ReadLine
<1> QED
  BY <1>1, <1>2, <1>3, <1>4, <1>5, <1>6 DEF Next, Pumps, Outside

\* A page enters the list when it is registered, and leaves it when Append
\* closes its channels or when it is gone.
LEMMA RelayStep == RelayInv /\ [Next]_vars => RelayInv'
<1> SUFFICES ASSUME RelayInv, [Next]_vars
             PROVE  ListFits' /\ OnlyRegistered' /\ ClosedNotListed' /\ PagesListed'
  BY RelayTypeStep, NoticeStep DEF RelayInv
<1>0. /\ list \in Lists /\ closed \in SUBSET Clients /\ Listed(list) \subseteq Clients
      /\ conn \in [Clients -> {"none", "register", "starting", "open", "leaving", "gone"}]
  BY ListedFacts DEF RelayInv, TypeOK
<1> USE DEF RelayInv, ListFits, OnlyRegistered, ClosedNotListed, PagesListed
<1>1. ASSUME UNCHANGED <<list, closed>>, panicked' = panicked \/ panicked' # "no",
             \A c \in Clients : \/ conn'[c] = conn[c]
                                \/ conn[c] = "none" /\ conn'[c] = "register"
                                \/ conn[c] = "starting" /\ conn'[c] = "open"
                                \/ conn[c] = "open" /\ conn'[c] = "leaving"
      PROVE  ListFits' /\ OnlyRegistered' /\ ClosedNotListed' /\ PagesListed'
  BY <1>0, <1>1
<1>2. ASSUME NEW c \in Clients, Register(c), panicked = "no"
      PROVE  ListFits' /\ OnlyRegistered' /\ ClosedNotListed' /\ PagesListed'
  <2> DEFINE l == Appended(list, c)
  <2>1. /\ conn[c] = "register" /\ conn' = [conn EXCEPT ![c] = "starting"]
        /\ list' = l /\ closed' = closed \cup Replaced(list, c)
        /\ panicked' = "no" => ~FollowsNil(l)
    BY <1>2 DEF Register
  <2>2. c \notin Listed(list) /\ c \notin closed
    BY <2>1
  <2>3. /\ RolesDiffer(l) /\ c \in Listed(l) /\ Listed(l) \subseteq Listed(list) \cup {c}
        /\ Replaced(list, c) \subseteq Listed(list) /\ Replaced(list, c) \cap Listed(l) = {}
        /\ ~FollowsNil(l) => /\ Counted(l)
                             /\ Listed(list) \subseteq Listed(l) \cup Replaced(list, c)
    BY <1>0, <1>2, <2>2, AppendFacts
  <2> HIDE DEF l
  <2>4. ListFits'
    BY <2>1, <2>3
  <2>5. OnlyRegistered'
    BY <1>0, <2>1, <2>3
  <2>6. ClosedNotListed'
    BY <2>1, <2>2, <2>3
  <2>7. PagesListed'
    BY <1>0, <1>2, <2>1, <2>3
  <2> QED
    BY <2>4, <2>5, <2>6, <2>7
<1>3. ASSUME NEW c \in Clients, Remove(c), panicked = "no"
      PROVE  ListFits' /\ OnlyRegistered' /\ ClosedNotListed' /\ PagesListed'
  <2> DEFINE l == Removed(list, c)
  <2>1. conn' = [conn EXCEPT ![c] = "gone"] /\ list' = l /\ UNCHANGED closed
    BY <1>3 DEF Remove
  <2>2. RolesDiffer(l) /\ Counted(l) /\ Listed(l) = Listed(list) \ {c}
    BY <1>0, <1>3, RemoveFacts
  <2> HIDE DEF l
  <2> QED
    BY <1>0, <1>3, <2>1, <2>2
<1>4. CASE UNCHANGED vars
  BY <1>0, <1>1, <1>4 DEF vars
<1>5. ASSUME NEW c \in Clients, Connect(c) \/ StartPumps(c) \/ Leave(c)
      PROVE  ListFits' /\ OnlyRegistered' /\ ClosedNotListed' /\ PagesListed'
  BY <1>0, <1>1, <1>5 DEF Connect, StartPumps, Leave
<1>6. ASSUME NEW c \in Clients, WriterReturns(c) \/ BroadcastMarker(c) \/ Deliver(c)
      PROVE  ListFits' /\ OnlyRegistered' /\ ClosedNotListed' /\ PagesListed'
  BY <1>0, <1>1, <1>6 DEF WriterReturns, BroadcastMarker, Deliver
<1>7. ASSUME NEW h \in holding, WriteLine(h)
      PROVE  ListFits' /\ OnlyRegistered' /\ ClosedNotListed' /\ PagesListed'
  BY <1>0, <1>1, <1>7 DEF WriteLine
<1>8. ASSUME NEW line \in {"timeout", "START", "line", "DONE", "ERR"}, ReadLine(line)
      PROVE  ListFits' /\ OnlyRegistered' /\ ClosedNotListed' /\ PagesListed'
  BY <1>0, <1>1, <1>8 DEF ReadLine
<1>9. ASSUME NoticeTaken \/ HandAgain \/ Notify
      PROVE  ListFits' /\ OnlyRegistered' /\ ClosedNotListed' /\ PagesListed'
  BY <1>0, <1>1, <1>9 DEF NoticeTaken, HandAgain, Notify
<1>10. ASSUME HandOver
      PROVE  ListFits' /\ OnlyRegistered' /\ ClosedNotListed' /\ PagesListed'
  BY <1>0, <1>1, <1>10 DEF HandOver
<1> HIDE DEF RelayInv, ListFits, OnlyRegistered, ClosedNotListed, PagesListed
<1> QED
  BY <1>2, <1>3, <1>4, <1>5, <1>6, <1>7, <1>8, <1>9, <1>10 DEF Next, Pumps, Outside

\* The invariant is reached from Init and kept for ever.
LEMMA RelayCorrect == Spec => []RelayInv
  BY RelayInit, RelayStep, PTL DEF Spec

\* The types of the relay hold in every run: the counter stays between 0 and 2,
\* and a line is held only by a linklistRun that a registration has started
\* (hub.go:21-33, linkListOperation.go:161-178).
THEOREM RelayTypeCorrect == Spec => []TypeOK
<1>1. RelayInv => TypeOK
  BY DEF RelayInv
<1> QED
  BY <1>1, RelayCorrect, PTL

\* "one head only allow one node at the same time, except admin": two listed
\* pages never have the same role (linkListOperation.go:57-91).
THEOREM RolesStayApart == Spec => []OnePagePerRole
<1>1. RelayInv => OnePagePerRole
  <2> SUFFICES ASSUME RelayInv PROVE OnePagePerRole
    OBVIOUS
  <2>0. list \in Lists
    BY DEF RelayInv, TypeOK
  <2>1. Len(list.nodes) \in 0..2
    <3>1. Len(list.nodes) \in Nat
      BY <2>0 DEF Lists
    <3>2. Len(list.nodes) <= 2
      BY DEF RelayInv, ListFits, RolesDiffer
    <3>3. \A n \in Nat : n <= 2 => n \in 0..2
      OBVIOUS
    <3> QED
      BY <3>1, <3>2, <3>3
  <2> QED
    BY <2>0, <2>1, ChainFacts DEF RelayInv, ListFits, RolesDiffer, OnePagePerRole, SameRole
<1> QED
  BY <1>1, RelayCorrect, PTL

\* A goroutine that picks a page from the list finds its channels open: what
\* Append closes it takes out, and nothing brings it back
\* (linkListOperation.go:66-88).
THEOREM ClosedPagesAreUnlisted == Spec => []ClosedNotListed
<1>1. RelayInv => ClosedNotListed
  BY DEF RelayInv
<1> QED
  BY <1>1, RelayCorrect, PTL

\* Until the process crashes, a page whose pumps run and whose channels are open
\* is in the list, where codes and lines find it (hub.go:21-33 with
\* linkListOperation.go:94-135).
THEOREM OpenPagesAreListed == Spec => []PagesListed
<1>1. RelayInv => PagesListed
  BY DEF RelayInv
<1> QED
  BY <1>1, RelayCorrect, PTL
=============================================================================
