----------------------------- MODULE NetManager -----------------------------
(***************************************************************************)
(* How the list of bridges becomes nets (NetManager.cpp), and what hangs   *)
(* on the numbers the nets get: the names given by the user (States.cpp)   *)
(* and the net of each GPIO pin.                                           *)
(*                                                                         *)
(* A refresh throws the nets away, keeps one net per rail, and takes the   *)
(* bridges one by one: it adds to a net, merges two nets, or makes a new   *)
(* one.  Net numbers are places in an array, and a merge shifts the nets   *)
(* behind the one it deletes.  Core 1 is held off while this runs (see     *)
(* CrossCore), so a refresh is not interleaved with edits; it is one step  *)
(* per bridge because the questions are about the steps in between.        *)
(*                                                                         *)
(* Net number i is nets[i]; the rails' nets are the first ones.  A net     *)
(* holds its nodes and bridges as sets, and the node at place 0 as         *)
(* "first": which nodes a full net leaves out depends on the order of the  *)
(* array and is left open.                                                 *)
(*                                                                         *)
(* Nothing in the code watches the ends of the arrays.  A net that is full *)
(* is written past, a net that finds no place is written to place 0x7f,    *)
(* and a merge does not shift the net under the last number.  "dropped"    *)
(* says that one of these happened; from there to the next refresh the     *)
(* model goes on without what was written past an array, and the           *)
(* properties promise nothing.                                             *)
(***************************************************************************)
EXTENDS Integers, Sequences, FiniteSets

CONSTANTS
    Rails,              \* the nodes of nets 1, 2, ...: GND, the rails, the DACs
    Pins,               \* the GPIO and UART nodes gpioNet has an entry for
    Rows,               \* the other nodes
    Connectable,        \* the bridges, as pairs, that a user asks for
    NeverJoined,        \* globalDoNotIntersects, as a set of pairs
    KeptOut,            \* doNotIntersectNodes of each rail's net
    MaxNodes,           \* MAX_NODES, the length of a net's array of nodes
    MaxNetBridges,      \* the length of a net's array of bridges, MAX_NODES too
    MaxBridges,         \* MAX_BRIDGES
    MaxNets,            \* MAX_NETS, place 0 of the array included
    MaxNames,           \* the length of the array of custom names
    MaxEdits            \* bound: edits between two refreshes

Specials == {Rails[i] : i \in 1..Len(Rails)}
Node == Specials \cup Pins \cup Rows
Bridge == Node \X Node

\* Nodes are numbers: rows share theirs with nets, the rest lie above both.
ASSUME NodesAssumption ==
    /\ Rails \in Seq(Nat \ {0})
    /\ \A i, j \in 1..Len(Rails) : Rails[i] = Rails[j] => i = j
    /\ Pins \subseteq Nat \ {0}
    /\ Rows \subseteq Nat \ {0}
    /\ Specials \cap (Pins \cup Rows) = {}
ASSUME RulesAssumption ==
    /\ Connectable \subseteq Bridge
    /\ NeverJoined \subseteq Bridge
    /\ KeptOut \in [1..Len(Rails) -> SUBSET Specials]
ASSUME BoundsAssumption ==
    /\ MaxNodes \in Nat \ {0}
    /\ {MaxNetBridges, MaxBridges, MaxNames, MaxEdits} \subseteq Nat
    /\ MaxNets \in Nat
    /\ MaxNets >= Len(Rails) + 3

VARIABLES
    bridges,    \* globalState.connections.bridges
    nets,       \* globalState.connections.nets, from number 1 to the first hole
    behind,     \* the net left under the last number behind a hole, if any
    next,       \* newBridgeIndex + 1 while a refresh runs, 0 otherwise
    names,      \* display.customNames: the net's number and its first node
    gpioNet,    \* the net each pin is shown on, 0 for none
    paths,      \* what sortPathsByNet hands to the router: <<net, bridge>>
    edits,      \* edits since the last refresh
    dropped     \* whether the last refresh met the end of an array

vars == <<bridges, nets, behind, next, names, gpioNet, paths, edits, dropped>>

Net == [first : Node, nodes : SUBSET Node, bridges : SUBSET Bridge]
Name == [net : Nat \ {0}, first : Node]

Ends(b) == {b[1], b[2]}
Flipped(b) == <<b[2], b[1]>>

\* specialFunctionNetsInit
RailNet(i) == [first |-> Rails[i], nodes |-> {Rails[i]}, bridges |-> {}]
RailNets == [i \in 1..Len(Rails) |-> RailNet(i)]

IsRailNet(i) == i <= Len(Rails)

LastNumber == MaxNets - 1

\* What findFirstUnusedNetIndex answers when every net is in use, 0x7f
NoPlace == 127

\* The numbers of the nets in use; only searchExistingNets stops at a hole.
NetNumbers == 1..Len(nets) \cup {LastNumber : i \in 1..Len(behind)}
NetAt(i) == IF i <= Len(nets) THEN nets[i] ELSE behind[1]

-----------------------------------------------------------------------------
(* The user's edits *)

Init ==
    /\ bridges = <<>>
    /\ nets = RailNets
    /\ behind = <<>>
    /\ next = 0
    /\ names = <<>>
    /\ gpioNet = [p \in Pins |-> 0]
    /\ paths = {}
    /\ edits = 0
    /\ dropped = FALSE

connectionAllowed(b) == b \notin NeverJoined /\ Flipped(b) \notin NeverJoined

HasConnection(b) ==
    \E i \in 1..Len(bridges) : bridges[i] \in {b, Flipped(b)}

CanEdit == next = 0 /\ edits < MaxEdits

\* JumperlessState::addConnection; a bridge that is there only gets another
\* duplicate, which is the router's concern.
addConnection(b) ==
    /\ CanEdit
    /\ b[1] /= b[2]
    /\ connectionAllowed(b)
    /\ ~HasConnection(b)
    /\ Len(bridges) < MaxBridges
    /\ bridges' = Append(bridges, b)
    /\ edits' = edits + 1
    /\ UNCHANGED <<nets, behind, next, names, gpioNet, paths, dropped>>

Without(s, i) ==
    [k \in 1..(Len(s) - 1) |-> IF k < i THEN s[k] ELSE s[k + 1]]

removeConnection(i) ==
    /\ CanEdit
    /\ bridges' = Without(bridges, i)
    /\ edits' = edits + 1
    /\ UNCHANGED <<nets, behind, next, names, gpioNet, paths, dropped>>

\* DisplayState::setNetName: the name is kept with the net's first node
setNetName(n) ==
    LET given == [net |-> n, first |-> NetAt(n).first]
        there == {i \in 1..Len(names) : names[i].net = n}
    IN  /\ next = 0
        /\ \/ /\ there /= {}
              /\ LET i == CHOOSE k \in there : \A l \in there : k <= l
                 IN  names' = [names EXCEPT ![i] = given]
           \/ /\ there = {}
              /\ Len(names) < MaxNames
              /\ names' = Append(names, given)
        /\ UNCHANGED <<bridges, nets, behind, next, gpioNet, paths, edits, dropped>>

removeNetName(n) ==
    /\ next = 0
    /\ \E i \in 1..Len(names) :
        /\ names[i].net = n
        /\ \A k \in 1..(i - 1) : names[k].net /= n
        /\ names' = Without(names, i)
    /\ UNCHANGED <<bridges, nets, behind, next, gpioNet, paths, edits, dropped>>

-----------------------------------------------------------------------------
(* A refresh: the nets are built from the bridges *)

\* Mutant of StartRefresh: the nets of the last refresh are not thrown away.
StartRefreshOver ==
    /\ next = 0
    /\ gpioNet' = [p \in Pins |-> 0]
    /\ paths' = {}
    /\ next' = 1
    /\ edits' = 0
    /\ dropped' = FALSE
    /\ UNCHANGED <<bridges, nets, behind, names>>

\* clearAllNTCC, initNets and loadBridgesFromState
StartRefresh ==
    /\ next = 0
    /\ nets' = RailNets
    /\ behind' = <<>>
    /\ gpioNet' = [p \in Pins |-> 0]
    /\ paths' = {}
    /\ next' = 1
    /\ edits' = 0
    /\ dropped' = FALSE
    /\ UNCHANGED <<bridges, names>>

\* The search goes on after a match, so the last net with the node counts.
NetsOf(n) == {i \in 1..Len(nets) : n \in nets[i].nodes}
FoundNet(n) ==
    IF NetsOf(n) = {} THEN 0
    ELSE CHOOSE i \in NetsOf(n) : \A j \in NetsOf(n) : j <= i

\* Adding to an array of the given length: what is beyond its end is written
\* over the fields that follow, and counts as lost here.
Added(held, more, length) ==
    IF Cardinality(held \cup more) <= length THEN {held \cup more}
    ELSE {held \cup kept : kept \in
            {k \in SUBSET (more \ held) :
                \/ Cardinality(held \cup k) = length
                \/ k = {} /\ Cardinality(held) > length}}

\* addNodeToNet for the ends of the bridge in hand and then for the nodes a
\* merged net brings along; addBridgeToNet likewise
NodesHeld(net, b, nodes) ==
    UNION {Added(m, nodes, MaxNodes) : m \in Added(net.nodes, Ends(b), MaxNodes)}
BridgesHeld(net, b, more) ==
    UNION {Added(m, more, MaxNetBridges) : m \in Added(net.bridges, {b}, MaxNetBridges)}

Extended(net, b, nodes, more) ==
    {[first |-> net.first, nodes |-> n, bridges |-> s] :
        n \in NodesHeld(net, b, nodes), s \in BridgesHeld(net, b, more)}

FitsIn(net, old, b, nodes, more) ==
    /\ net.nodes = old.nodes \cup Ends(b) \cup nodes
    /\ net.bridges = old.bridges \cup {b} \cup more

\* populateSpecialFunctions
Shown(n, nodes) == [p \in Pins |-> IF p \in nodes THEN n ELSE gpioNet[p]]

\* The bridge goes to net n, and with it the ends that are added
Grow(n, b, ends) ==
    \E net \in Extended(nets[n], b, {}, {}) :
        /\ nets' = [nets EXCEPT ![n] = net]
        /\ gpioNet' = Shown(n, ends)
        /\ dropped' = (dropped \/ ~FitsIn(net, nets[n], b, {}, {}))
        /\ UNCHANGED behind

\* The nets once the first hole is filled; the one behind comes into sight
\* again when it was the last hole.
InSight(s) == IF Len(s) = LastNumber - 1 THEN s \o behind ELSE s

\* findFirstUnusedNetIndex finds the first hole, or no place in the array
createNewNet(b) ==
    \/ /\ Len(nets) < LastNumber
       /\ LET new == [first |-> b[1], nodes |-> Ends(b), bridges |-> {b}]
          IN  nets' = InSight(Append(nets, new))
       /\ behind' = IF Len(nets) = LastNumber - 2 THEN <<>> ELSE behind
       /\ gpioNet' = Shown(Len(nets) + 1, Ends(b))
       /\ UNCHANGED dropped
    \/ /\ Len(nets) = LastNumber
       /\ gpioNet' = Shown(NoPlace, Ends(b))
       /\ dropped' = TRUE
       /\ UNCHANGED <<nets, behind>>

\* checkDoNotIntersectsByNode: the lists of the rails' nets; others are empty
checkDoNotIntersectsByNode(i, n) == IsRailNet(i) => n \notin KeptOut[i]

\* checkDoNotIntersectsByNet
checkDoNotIntersectsByNet(i, j) ==
    /\ \A n \in nets[j].nodes : checkDoNotIntersectsByNode(i, n)
    /\ \A n \in nets[i].nodes : checkDoNotIntersectsByNode(j, n)

\* Mutant of Merge: the net that was merged away stays in the array.
MergeUnshifted(stays, goes, b) ==
    \E net \in Extended(nets[stays], b, nets[goes].nodes, nets[goes].bridges) :
        /\ nets' = [nets EXCEPT ![stays] = net]
        /\ gpioNet' = Shown(stays, Ends(b) \cup nets[goes].nodes)
        /\ UNCHANGED <<behind, dropped>>

\* Mutant of Merge: only the nodes move, and the bridges go with their net.
MergeNodes(stays, goes, b) ==
    \E net \in Extended(nets[stays], b, nets[goes].nodes, {}) :
        /\ nets' = Without([nets EXCEPT ![stays] = net], goes)
        /\ gpioNet' = Shown(stays, Ends(b) \cup nets[goes].nodes)
        /\ UNCHANGED <<behind, dropped>>

\* shiftNets: the nets behind the one that goes move up.  The last net is
\* looked for below LastNumber: a net under that number stays where it is, and
\* when it is the one that goes, the net before it is cleared in its place.
Shifted(s, goes) ==
    /\ nets' = IF Len(s) < LastNumber THEN Without(s, goes)
               ELSE Without(SubSeq(s, 1, LastNumber - 1),
                            IF goes < LastNumber THEN goes ELSE LastNumber - 1)
    /\ behind' = IF Len(s) < LastNumber THEN behind ELSE <<s[LastNumber]>>

\* combineNets and shiftNets: the other net's nodes and bridges move to the
\* one that stays, a rail's if there is one, and the nets behind it move up.
\* Pins of the nets that move up keep the number they were shown on.
Merge(stays, goes, b) ==
    \E net \in Extended(nets[stays], b, nets[goes].nodes, nets[goes].bridges) :
        /\ Shifted([nets EXCEPT ![stays] = net], goes)
        /\ gpioNet' = Shown(stays, Ends(b) \cup nets[goes].nodes)
        /\ dropped' = \/ dropped
                      \/ ~FitsIn(net, nets[stays], b, nets[goes].nodes, nets[goes].bridges)
                      \/ Len(nets) = LastNumber

LeaveOut == UNCHANGED <<nets, behind, gpioNet, dropped>>

\* Mutant of combineNets: no swap when the second net is a rail's.
combineNetsUnswapped(i, j, b) == Merge(i, j, b)

combineNets(i, j, b) ==
    IF ~checkDoNotIntersectsByNet(i, j) THEN LeaveOut
    ELSE \/ ~IsRailNet(j) /\ Merge(i, j, b)
         \/ IsRailNet(j) /\ Merge(j, i, b)

\* One end is in net i and the other in none
JoinNet(i, outside, b) ==
    IF checkDoNotIntersectsByNode(i, outside) THEN Grow(i, b, {outside})
    ELSE createNewNet(b)

Taken == bridges[next]
First == FoundNet(Taken[1])
Second == FoundNet(Taken[2])

\* The rest of getNodesToConnect's loop
TakeBridge ==
    /\ next \in 1..Len(bridges)
    /\ next' = next + 1
    /\ UNCHANGED <<bridges, names, paths, edits>>

\* searchExistingNets, by where the two ends are found
SameNet == TakeBridge /\ First > 0 /\ First = Second /\ Grow(First, Taken, Ends(Taken))

TwoNets ==
    /\ TakeBridge
    /\ First > 0 /\ Second > 0 /\ First /= Second
    /\ ~(IsRailNet(First) /\ IsRailNet(Second))
    /\ combineNets(First, Second, Taken)

\* Two rails' nets are not combined, and nothing is said
TwoRails ==
    /\ TakeBridge
    /\ First > 0 /\ Second > 0 /\ First /= Second
    /\ IsRailNet(First) /\ IsRailNet(Second)
    /\ LeaveOut

OneNet ==
    /\ TakeBridge
    /\ \/ First > 0 /\ Second = 0 /\ JoinNet(First, Taken[2], Taken)
       \/ First = 0 /\ Second > 0 /\ JoinNet(Second, Taken[1], Taken)

NoNet == TakeBridge /\ First = 0 /\ Second = 0 /\ createNewNet(Taken)

NumbersOf(n) == {i \in NetNumbers : n \in NetAt(i).nodes}

\* Mutant of findNodeInNet: the numbers in gpioNet are looked at first.
findNodeByPin(n) ==
    IF \E p \in Pins : gpioNet[p] = n THEN n
    ELSE IF NumbersOf(n) /= {} THEN CHOOSE i \in NumbersOf(n) : \A j \in NumbersOf(n) : i <= j
    ELSE 0

\* findNodeInNet: by the nets, and then by comparing the node's number with
\* the net numbers in gpioNet
findNodeInNet(n) ==
    IF NumbersOf(n) /= {} THEN CHOOSE i \in NumbersOf(n) : \A j \in NumbersOf(n) : i <= j
    ELSE IF \E p \in Pins : gpioNet[p] = n THEN n
    ELSE 0

Reconciled(e) == [e EXCEPT !.net = findNodeInNet(e.first)]

\* Mutant of reconcileAfterRebuild: the numbers are updated and nothing removed.
reconcileAllAfterRebuild == names' = [k \in 1..Len(names) |-> Reconciled(names[k])]

\* reconcileAfterRebuild: names whose node is in no net are removed, and the
\* others stay in their order
reconcileAfterRebuild ==
    LET kept == {i \in 1..Len(names) : findNodeInNet(names[i].first) > 0}
    IN  \E place \in [1..Cardinality(kept) -> kept] :
            /\ \A j, k \in 1..Cardinality(kept) : j < k => place[j] < place[k]
            /\ names' = [k \in 1..Cardinality(kept) |-> Reconciled(names[place[k]])]

\* Mutant of sortPathsByNet: the count of nets is one short.
sortPathsOfCounted ==
    paths' = UNION {{i} \X nets[i].bridges : i \in 1..(Len(nets) - 1)}

\* sortPathsByNet copies the bridges back from the nets, the one under the
\* last number excepted: numberOfNets does not count it.
sortPathsByNet ==
    paths' = UNION {{i} \X nets[i].bridges : i \in 1..Len(nets) \ {LastNumber}}

FinishRefresh ==
    /\ next = Len(bridges) + 1
    /\ reconcileAfterRebuild
    /\ sortPathsByNet
    /\ next' = 0
    /\ UNCHANGED <<bridges, nets, behind, gpioNet, edits, dropped>>

Next ==
    \/ \E b \in Connectable : addConnection(b)
    \/ \E i \in 1..Len(bridges) : removeConnection(i)
    \/ \E n \in NetNumbers : setNetName(n) \/ removeNetName(n)
    \/ StartRefresh
    \/ SameNet \/ TwoNets \/ TwoRails \/ OneNet \/ NoNet
    \/ FinishRefresh

Spec == Init /\ [][Next]_vars

-----------------------------------------------------------------------------
(* Properties *)

TypeOK ==
    /\ bridges \in Seq(Bridge)
    /\ nets \in Seq(Net)
    /\ Len(nets) <= LastNumber
    /\ behind \in Seq(Net)
    /\ behind /= <<>> => Len(behind) = 1 /\ Len(nets) < LastNumber - 1 /\ dropped
    /\ next \in 0..(Len(bridges) + 1)
    /\ names \in Seq(Name)
    /\ gpioNet \in [Pins -> Nat]
    /\ paths \subseteq Nat \X Bridge
    /\ edits \in Nat
    /\ dropped \in BOOLEAN

\* No node is in two nets, at any point of a rebuild, whatever is merged and
\* shifted, until the end of an array is met: two nets with a common node are
\* a short the board knows nothing of.
NodesApart ==
    ~dropped =>
        \A i, j \in 1..Len(nets) : i /= j => nets[i].nodes \cap nets[j].nodes = {}

\* Each rail stays in its own net under its own number, until the end of an
\* array is met: merges never join two rails, however many rows lie between
\* them, and never delete a rail's net.
RailsApart ==
    ~dropped =>
        /\ Len(nets) >= Len(Rails)
        /\ \A i \in 1..Len(Rails), j \in 1..Len(nets) : Rails[i] \in nets[j].nodes <=> i = j

\* The nodes that can be reached from n over the bridges in B
Reached(n, B) ==
    LET Step(S) == S \cup UNION {Ends(b) : b \in {c \in B : Ends(c) \cap S /= {}}}
        reach[k \in 0..Cardinality(B)] == IF k = 0 THEN {n} ELSE Step(reach[k - 1])
    IN  reach[Cardinality(B)]

BridgesTaken == {bridges[i] : i \in 1..(IF next = 0 THEN Len(bridges) ELSE next - 1)}

\* When the end of no array was met, the nets are the connected components: each holds
\* exactly what its bridges reach from its first node, and a bridge taken so
\* far is in a net unless its ends are in the nets of two rails.
NetsAreComponents ==
    edits = 0 /\ ~dropped =>
        /\ \A i \in 1..Len(nets) : nets[i].nodes = Reached(nets[i].first, nets[i].bridges)
        /\ \A b \in BridgesTaken :
            \/ \E i \in 1..Len(nets) : b \in nets[i].bridges
            \/ \E i, j \in 1..Len(Rails) :
                i /= j /\ b[1] \in nets[i].nodes /\ b[2] \in nets[j].nodes

\* After a refresh that met the end of no array, a name is on the net that
\* holds the node it was kept with, unless that node is in no net any more.
NamesAnchored ==
    next = 0 /\ edits = 0 /\ ~dropped =>
        \A i \in 1..Len(names) :
            NetsOf(names[i].first) \subseteq {names[i].net}

\* What the router gets is what the user asked for: a path for each bridge of
\* the list under the number of the net of its two ends, and no others.  The
\* net under the last number is not handed over.
PathsAreBridges ==
    next = 0 /\ edits = 0 /\ ~dropped =>
        /\ \A p \in paths : p[2] \in BridgesTaken /\ Ends(p[2]) \subseteq nets[p[1]].nodes
        /\ \A b \in BridgesTaken :
            FoundNet(b[1]) = FoundNet(b[2]) /\ FoundNet(b[1]) < LastNumber =>
                <<FoundNet(b[1]), b>> \in paths

\* The bridges that fit whatever their order: one net may take them all and
\* one node more than bridges, and with a net for each there is still a
\* number to spare.
Fits(count) ==
    /\ count <= MaxNetBridges
    /\ count < MaxNodes
    /\ Len(Rails) + count < LastNumber

\* The code never asks whether there is room, and for a list this short it need
\* not: no rebuild of it meets the end of an array or uses the last number,
\* although rebuild follows rebuild and each leaves its nets in the array.
ShortListsFit ==
    edits = 0 /\ Fits(Len(bridges)) => ~dropped /\ Len(nets) < LastNumber

-----------------------------------------------------------------------------
(* What a comment says and the code does not do *)

\* NetManager.h:68: "make sure none of the nodes on the net violate
\* doNotIntersect rules": two nodes that must not be joined share no net.
RulesKept ==
    \A b \in NeverJoined, i \in 1..Len(nets) : ~(Ends(b) \subseteq nets[i].nodes)
=============================================================================
