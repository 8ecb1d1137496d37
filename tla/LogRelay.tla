------------------------------ MODULE LogRelay ------------------------------
(***************************************************************************)
(* How the pages of one task are told what happens to it.                  *)
(*                                                                         *)
(* The hub goroutine registers pages and hands status codes to a page's    *)
(* writePump over client.send; LogMonitor hands log lines to a linklistRun *)
(* goroutine over logchan, which hands them to the writePump over          *)
(* client.sendLog; a writePump that recognises a marker asks the hub for a *)
(* broadcast.  All these channels are unbuffered: a sender stays blocked   *)
(* until its receiver is ready.  A message carries only a type; what it    *)
(* says is read from the head node's sm when it is delivered.              *)
(***************************************************************************)
EXTENDS SocketList

CONSTANTS
  Markers,     \* which of "DONE" and "ERR" the training may end with
  Closing,     \* the pages that are closed at some time
  MaxLines,    \* bound: log lines besides the first START and the end marker
  MaxNotices,  \* bound: status codes that command goroutines broadcast
  NoClient     \* the hub is in its select

ASSUME LogRelayAssumption ==
  /\ Markers \subseteq {"DONE", "ERR"}
  /\ Closing \subseteq Clients
  /\ MaxLines \in Nat /\ MaxNotices \in Nat
  /\ NoClient \notin Clients

VARIABLES
  list,        \* the nodes behind the head
  conn,        \* where each websocket connection is in its life
  writer,      \* the writePump of each client
  closed,      \* the clients whose send and sendLog were closed
  hub,         \* the client whose send the hub is blocked on
  running,     \* the clients whose registration started a linklistRun
  holding,     \* what linklistRuns are blocked with: run, to, type
  monitor,     \* LogMonitor
  lines,       \* the lines it has read besides the first START and the end marker
  notices,     \* the broadcasts of command goroutines
  notifying,   \* one of them is blocked on the hub
  smType, smLog,   \* sm.Type and sm.Content.Log, which is "none" while it is empty
  mideng,      \* a failure was broadcast
  panicked     \* "no", or what ended the process

chanVars == <<hub, running, holding>>
monitorVars == <<monitor, lines>>
noticeVars == <<notices, notifying>>
smVars == <<smType, smLog, mideng>>
vars == <<list, conn, writer, closed, chanVars, monitorVars, noticeVars, smVars,
          panicked>>

\* LOGRESPOND, RSRESPOND, RECVSTART, TRAININGSTART, TRAININGSTOPSUCCESS and
\* TRAININGSTOPFAILED.
Statuses == {"log", "retry", "received", "start", "success", "failed"}

\* What a linklistRun can be blocked with.
Handed == [run : Clients, to : Clients, type : Statuses]

TypeOK ==
  /\ list \in Lists
  /\ conn \in [Clients -> {"none", "register", "starting", "open", "leaving", "gone"}]
  /\ writer \in [Clients -> {"none", "select", "broadcast", "broadcastErr", "done"}]
  /\ closed \in SUBSET Clients
  /\ hub \in Clients \cup {NoClient}
  /\ running \in SUBSET Clients
  /\ holding \in SUBSET Handed
  /\ \A h \in holding : h.run \in running
  /\ monitor \in {"read", "hand", "status", "handAgain", "end"}
  /\ lines \in 0..MaxLines
  /\ notices \in 0..MaxNotices
  /\ notifying \in BOOLEAN
  /\ smType \in Statuses
  /\ smLog \in {"none", "START", "line"} \cup Markers
  /\ mideng \in BOOLEAN
  /\ panicked \in {"no", "nilPointer", "closedSend"}

Init ==
  /\ list = NewList
  /\ conn = [c \in Clients |-> "none"]
  /\ writer = [c \in Clients |-> "none"]
  /\ closed = {}
  /\ hub = NoClient
  /\ running = {} /\ holding = {}
  /\ monitor = "read" /\ lines = 0
  /\ notices = 0 /\ notifying = FALSE
  /\ smType = "received" /\ smLog = "none" /\ mideng = FALSE
  /\ panicked = "no"

-----------------------------------------------------------------------------
(* A page comes and goes *)

\* serveWs has read the first message and waits for the hub to take it.
Connect(c) ==
  /\ conn[c] = "none"
  /\ conn' = [conn EXCEPT ![c] = "register"]
  /\ UNCHANGED <<list, writer, closed, chanVars, monitorVars, noticeVars, smVars,
                 panicked>>

\* The hub appends the client, starts one more linklistRun and prints the
\* list.  Closing a channel panics in whoever is blocked sending to it.
Register(c) ==
  /\ hub = NoClient /\ conn[c] = "register"
  /\ list' = Appended(list, c)
  /\ closed' = closed \cup Replaced(list, c)
  /\ conn' = [conn EXCEPT ![c] = "starting"]
  /\ running' = running \cup {c}
  /\ panicked' = IF \E h \in holding : h.to \in Replaced(list, c)
                 THEN "closedSend"
                 ELSE IF FollowsNil(Appended(list, c)) THEN "nilPointer" ELSE panicked
  /\ UNCHANGED <<writer, hub, holding, monitorVars, noticeVars, smVars>>

\* The node information is written before the two pumps start.
StartPumps(c) ==
  /\ conn[c] = "starting"
  /\ conn' = [conn EXCEPT ![c] = "open"]
  /\ writer' = [writer EXCEPT ![c] = "select"]
  /\ UNCHANGED <<list, closed, chanVars, monitorVars, noticeVars, smVars, panicked>>

\* ReadMessage fails: the page was closed, or its writePump closed it.
Leave(c) ==
  /\ conn[c] = "open"
  /\ c \in Closing \/ writer[c] = "done"
  /\ conn' = [conn EXCEPT ![c] = "leaving"]
  /\ UNCHANGED <<list, writer, closed, chanVars, monitorVars, noticeVars, smVars,
                 panicked>>

Remove(c) ==
  /\ conn[c] = "leaving"
  /\ conn' = [conn EXCEPT ![c] = "gone"]
  /\ list' = Removed(list, c)
  /\ panicked' = IF FollowsNil(Removed(list, c)) THEN "nilPointer" ELSE panicked
  /\ UNCHANGED <<writer, closed, chanVars, monitorVars, noticeVars, smVars>>

\* A writePump returns when its channels are closed or when it cannot write to
\* the connection any more (a ping at the latest).
WriterReturns(c) ==
  /\ writer[c] = "select"
  /\ c \in closed \/ conn[c] \in {"leaving", "gone"}
  /\ writer' = [writer EXCEPT ![c] = "done"]
  /\ UNCHANGED <<list, conn, closed, chanVars, monitorVars, noticeVars, smVars,
                 panicked>>

-----------------------------------------------------------------------------
(* Status codes: through the hub *)

\* The hub takes a message from broadcast, picks the page that is not an
\* administrator's, and blocks on it.
HubTakes ==
  /\ hub = NoClient
  /\ \/ Receivers(list) = {} /\ UNCHANGED hub
     \/ hub' \in Receivers(list)

\* The broadcast of a writePump is taken; after a failure it sets mideng.
BroadcastMarker(c) ==
  /\ writer[c] \in {"broadcast", "broadcastErr"}
  /\ HubTakes
  /\ writer' = [writer EXCEPT ![c] = "select"]
  /\ mideng' = (mideng \/ writer[c] = "broadcastErr")
  /\ UNCHANGED <<list, conn, closed, running, holding, monitorVars, noticeVars,
                 smType, smLog, panicked>>

\* A command goroutine broadcasts: a creation before there is a log, a STOP
\* when two pages are connected.
Notify ==
  /\ ~notifying /\ notices < MaxNotices
  /\ \/ smLog = "none" /\ smType' = "received"
     \/ list.count > 1 /\ smType' = "failed"
  /\ notifying' = TRUE
  /\ UNCHANGED <<list, conn, writer, closed, chanVars, monitorVars, notices, smLog,
                 mideng, panicked>>

NoticeTaken ==
  /\ notifying
  /\ HubTakes
  /\ notifying' = FALSE
  /\ notices' = notices + 1
  /\ UNCHANGED <<list, conn, writer, closed, running, holding, monitorVars, smVars,
                 panicked>>

\* The writePump takes the message of the hub and writes what sm says now.
Deliver(c) ==
  /\ hub = c /\ writer[c] = "select"
  /\ hub' = NoClient
  /\ IF conn[c] = "open"
     THEN UNCHANGED writer
     ELSE writer' = [writer EXCEPT ![c] = "done"]
  /\ UNCHANGED <<list, conn, closed, running, holding, monitorVars, noticeVars,
                 smVars, panicked>>

-----------------------------------------------------------------------------
(* Log lines: through logchan and sendLog *)

\* LogMonitor passes nothing on before START but reports of a timeout, which
\* leave sm.Content.Log alone; after START it passes on every line.  When the stream
\* ends or breaks it is opened again from its beginning, with flag still set: START
\* and old lines are then read and passed on again.
ReadLine(line) ==
  /\ monitor = "read"
  /\ line \in IF smLog = "none" THEN {"timeout", "START"} ELSE {"START", "line"} \cup Markers
  /\ IF line \in Markers \/ (line = "START" /\ smLog = "none")
     THEN UNCHANGED lines
     ELSE lines < MaxLines /\ lines' = lines + 1
  /\ IF line = "timeout"
     THEN smType' = "retry" /\ UNCHANGED smLog
     ELSE smType' = "log" /\ smLog' = line
  /\ monitor' = "hand"
  /\ UNCHANGED <<list, conn, writer, closed, chanVars, noticeVars, mideng, panicked>>

\* The linklistRuns that wait on logchan; which of them gets a line does not
\* matter, since they all do the same.
Waiting == running \ {h.run : h \in holding}

\* A linklistRun takes sm, looks at its type and blocks on the page, if there
\* is one.  An end marker is reported to the data server and handed over again.
HandOver ==
  /\ monitor \in {"hand", "handAgain"}
  /\ monitor' = IF monitor = "handAgain" THEN "end"
                ELSE IF smLog \in Markers THEN "status" ELSE "read"
  /\ Waiting # {}
  /\ holding' = holding \cup {[run |-> CHOOSE r \in Waiting : TRUE, to |-> c, type |-> smType] :
                               c \in Receivers(list)}
  /\ panicked' = IF Receivers(list) \cap closed # {} THEN "closedSend"
                 ELSE panicked
  /\ UNCHANGED <<list, conn, writer, closed, hub, running, lines, noticeVars, smVars>>

HandAgain ==
  /\ monitor = "status"
  /\ smType' = "log"
  /\ monitor' = "handAgain"
  /\ UNCHANGED <<list, conn, writer, closed, chanVars, lines, noticeVars, smLog, mideng,
                 panicked>>

\* The writePump takes a message from sendLog and looks for a marker in what
\* sm holds now.  A connection it finds broken makes it return.
WriteLine(h) ==
  LET c == h.to IN
  /\ writer[c] = "select"
  /\ holding' = holding \ {h}
  /\ \/ /\ conn[c] # "open"
        /\ writer' = [writer EXCEPT ![c] = "done"] /\ UNCHANGED smType
     \/ /\ h.type = "retry"
        /\ writer' = [writer EXCEPT ![c] = "broadcast"] /\ smType' = "retry"
     \/ /\ h.type = "log" /\ smLog \in {"START", "DONE"}
        /\ writer' = [writer EXCEPT ![c] = "broadcast"]
        /\ smType' = IF smLog = "START" THEN "start" ELSE "success"
     \/ /\ h.type = "log" /\ smLog = "ERR" /\ ~mideng
        /\ writer' = [writer EXCEPT ![c] = "broadcastErr"] /\ smType' = "failed"
     \/ /\ h.type \notin {"log", "retry"} \/ smLog = "line" \/ (smLog = "ERR" /\ mideng)
        /\ UNCHANGED <<writer, smType>>
  /\ UNCHANGED <<list, conn, closed, hub, running, monitorVars, noticeVars, smLog, mideng,
                 panicked>>

-----------------------------------------------------------------------------
Pumps ==
  \/ \E c \in Clients : \/ Register(c) \/ StartPumps(c) \/ Remove(c) \/ WriterReturns(c)
                        \/ BroadcastMarker(c) \/ Deliver(c)
  \/ \E h \in holding : WriteLine(h)
  \/ NoticeTaken \/ HandOver \/ HandAgain

Outside ==
  \/ \E c \in Clients : Connect(c) \/ Leave(c)
  \/ \E line \in {"timeout", "START", "line", "DONE", "ERR"} : ReadLine(line)
  \/ Notify

Next == panicked = "no" /\ (Pumps \/ Outside)

Spec == Init /\ [][Next]_vars

\* Goroutines run, and a writePump that finds two channels ready again and
\* again picks each of them in the end.  Pages and trainings owe nothing.
Fairness ==
  /\ \A c \in Clients :
       /\ WF_vars(panicked = "no" /\ (Register(c) \/ StartPumps(c) \/ Remove(c)))
       /\ SF_vars(panicked = "no" /\ BroadcastMarker(c))
       /\ SF_vars(panicked = "no" /\ Deliver(c))
       /\ SF_vars(panicked = "no" /\ \E h \in holding : h.to = c /\ WriteLine(h))
       /\ WF_vars(panicked = "no" /\ WriterReturns(c))
       /\ WF_vars(panicked = "no" /\ writer[c] = "done" /\ Leave(c))
  /\ WF_vars(panicked = "no" /\ (HandOver \/ HandAgain))
  /\ SF_vars(panicked = "no" /\ NoticeTaken)

FairSpec == Spec /\ Fairness

-----------------------------------------------------------------------------
(* Properties *)

\* "one head only allow one node at the same time, except admin": the pages
\* that are listed differ in their role (linkListOperation.go:57-91).
OnePagePerRole == \A c, d \in Listed(list) : SameRole(c, d) => c = d

\* Whoever sends to a listed page finds its channels open: Append takes a page
\* out of the list when it closes them, and Remove never brings it back.
ClosedNotListed == Listed(list) \cap closed = {}

\* A page with running pumps whose channels are open is listed, so that status
\* codes and lines reach it, unless its connection has broken.
PagesListed ==
  panicked = "no" =>
    \A c \in Clients : conn[c] \in {"starting", "open"} /\ c \notin closed
                         => c \in Listed(list)

\* No operation on the list follows a pointer that the counter promises and
\* the chain does not have (linkListOperation.go:75-86,137-159).
NoNilPointer == panicked # "nilPointer"

\* No goroutine sends on a channel that Append closed, also not one that was
\* blocked on it before (linkListOperation.go:66-70,161-178).
NoClosedSend == panicked # "closedSend"

\* The hub, which serves every task, comes back to its select (hub.go:39-50).
HubServes == hub # NoClient ~> hub = NoClient
=============================================================================
