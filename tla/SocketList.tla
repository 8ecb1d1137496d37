----------------------------- MODULE SocketList -----------------------------
(***************************************************************************)
(* The pages that are connected to one task: a linked list behind the head *)
(* node, with a counter beside it.  The operations are those of            *)
(* linkListOperation.go; the counter decides which pointers they follow,   *)
(* so a counter that disagrees with the chain makes them follow nil.       *)
(***************************************************************************)
EXTENDS Naturals, Sequences

CONSTANTS
  Clients,    \* the websocket connections
  Admins      \* those that were opened with admin = true

ASSUME SocketListAssumption == Admins \subseteq Clients

\* nodes is the chain that starts at Head.next, count is listCount.
Lists == [nodes : Seq(Clients), count : 0..2]

NewList == [nodes |-> << >>, count |-> 0]

SameRole(c, d) == c \in Admins <=> d \in Admins

Listed(list) == {list.nodes[i] : i \in DOMAIN list.nodes}

\* The positions whose client has the role of c, among those the counter
\* lets Append look at.
Matches(list, c) ==
  {i \in DOMAIN list.nodes \cap 1..list.count : SameRole(list.nodes[i], c)}

\* Mutated form of Appended: the counter grows when a node is replaced.
AppendedCountsTwice(list, c) ==
  IF list.nodes = << >> THEN [nodes |-> <<c>>, count |-> list.count + 1]
  ELSE IF 1 \in Matches(list, c) THEN [nodes |-> <<c>>, count |-> list.count + 1]
  ELSE [nodes |-> <<list.nodes[1], c>>, count |-> list.count + 1]

\* Mutated form of Appended: a second page is added whatever its role.
AppendedAnyRole(list, c) ==
  IF Len(list.nodes) < 2 THEN [nodes |-> Append(list.nodes, c), count |-> list.count + 1]
  ELSE [list EXCEPT !.nodes = <<c>>]

\* Append replaces the node of the same role, and a replaced first node takes
\* the rest of the chain with it, while the counter keeps its value.
Appended(list, c) ==
  IF list.nodes = << >> THEN [nodes |-> <<c>>, count |-> list.count + 1]
  ELSE IF 1 \in Matches(list, c) THEN [list EXCEPT !.nodes = <<c>>]
  ELSE [nodes |-> <<list.nodes[1], c>>, count |-> 2]

\* Mutated form of Replaced: the first client is closed, whichever is replaced.
ReplacedFirst(list, c) ==
  IF Matches(list, c) # {} THEN {list.nodes[1]} ELSE {}

\* The clients whose two channels Append closes.
Replaced(list, c) ==
  IF 1 \in Matches(list, c) THEN {list.nodes[1]}
  ELSE {list.nodes[i] : i \in Matches(list, c)}

\* Mutated form of Removed: a client is looked up by its role.
RemovedByRole(list, c) ==
  IF Matches(list, c) = {} THEN list
  ELSE [nodes |-> SelectSeq(list.nodes, LAMBDA d : ~SameRole(c, d)),
        count |-> list.count - 1]

\* Remove drops the node of a client that leaves; one that was replaced
\* before is not found, and nothing changes.
Removed(list, c) ==
  IF c \notin Listed(list) THEN list
  ELSE [nodes |-> IF list.nodes[1] = c THEN Tail(list.nodes) ELSE <<list.nodes[1]>>,
        count |-> list.count - 1]

\* PrintList follows the chain as often as the counter says, and stops at
\* once only when the chain is empty.
FollowsNil(list) == list.nodes # << >> /\ Len(list.nodes) < list.count

\* The page that log lines and status codes go to: the first that is not an
\* administrator's.
Receivers(list) ==
  {list.nodes[i] : i \in {j \in DOMAIN list.nodes \cap 1..list.count :
                            /\ list.nodes[j] \notin Admins
                            /\ \A k \in 1..(j - 1) : list.nodes[k] \in Admins}}
=============================================================================
