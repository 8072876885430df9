------------------------- MODULE NetManager_proofs -------------------------
(***************************************************************************)
(* Proofs about NetManager for every list of rails, every set of pins and  *)
(* rows, every list of bridges and every length of the arrays: its types,  *)
(* and, until the end of an array is met, that no node is ever in two      *)
(* nets, that the rails are never joined, that the names stay with their   *)
(* nodes, that the nets are the connected components of the bridges taken, *)
(* and that the router gets the bridges; and that a short list never meets *)
(* the end of an array.                                                    *)
(*                                                                         *)
(* The types hold whatever happens.  The next two are inductive together   *)
(* as long as nothing is dropped: a node is in at most one net, so the two *)
(* ends of a bridge are found in at most two, and the net that is deleted  *)
(* is never a rail's.                                                      *)
(*                                                                         *)
(* What NetsAreComponents says of a net is the result of a search, which   *)
(* no step of the code makes.  Inductive is that a net cannot be cut in    *)
(* two without cutting one of its bridges (Joined); that the search then   *)
(* finds all of the net is an induction over its steps, by the least step  *)
(* at which it would fail.                                                 *)
(*                                                                         *)
(* That a short list fits rests on all of this: a net has at most one node *)
(* more than bridges (Sized), which a merge keeps because the two nets     *)
(* have neither nodes nor bridges in common.                               *)
(***************************************************************************)
EXTENDS NetManager, FiniteSetTheorems, SequenceTheorems, WellFoundedInduction, TLAPS

ApartIn(N) == \A i, j \in 1..Len(N) : i /= j => N[i].nodes \cap N[j].nodes = {}

RailsIn(N) ==
    /\ Len(N) >= Len(Rails)
    /\ \A i \in 1..Len(Rails), j \in 1..Len(N) : Rails[i] \in N[j].nodes <=> i = j

SafeNets(N) == N \in Seq(Net) /\ ApartIn(N) /\ RailsIn(N)

\* What holds of the nets as long as nothing is dropped
NetsInv == TypeOK /\ SafeNets(nets) /\ behind = <<>>

-----------------------------------------------------------------------------
(* Sequences *)

\* Deleting a place of a sequence leaves a sequence, one shorter.
LEMMA WithoutType ==
    ASSUME NEW S, NEW s \in Seq(S), NEW i \in 1..Len(s)
    PROVE  Without(s, i) \in Seq(S)
<1>. DEFINE n == Len(s) - 1
<1>1. n \in Nat
    OBVIOUS
<1>2. Without(s, i) \in [1..n -> S]
    BY DEF Without
<1>. QED
    BY <1>1, <1>2

LEMMA WithoutLen ==
    ASSUME NEW S, NEW s \in Seq(S), NEW i \in 1..Len(s)
    PROVE  Len(Without(s, i)) = Len(s) - 1
<1>. DEFINE n == Len(s) - 1
<1>1. n \in Nat
    OBVIOUS
<1>2. Without(s, i) \in [1..n -> S]
    BY DEF Without
<1>. QED
    BY <1>1, <1>2

LEMMA WithoutAt ==
    ASSUME NEW S, NEW s \in Seq(S), NEW i \in 1..Len(s), NEW k \in 1..(Len(s) - 1)
    PROVE  Without(s, i)[k] = IF k < i THEN s[k] ELSE s[k + 1]
BY DEF Without

\* Writing to a place keeps a sequence and its length.
LEMMA PutType ==
    ASSUME NEW S, NEW s \in Seq(S), NEW i, NEW x \in S
    PROVE  /\ [s EXCEPT ![i] = x] \in Seq(S)
           /\ Len([s EXCEPT ![i] = x]) = Len(s)
<1>1. Len(s) \in Nat /\ s \in [1..Len(s) -> S]
    OBVIOUS
<1>2. [s EXCEPT ![i] = x] \in [1..Len(s) -> S]
    BY <1>1
<1>. QED
    BY <1>1, <1>2

-----------------------------------------------------------------------------
(* Least counterexamples *)

LEMMA LessWellFounded ==
    \E R : /\ IsWellFoundedOn(R, Nat)
           /\ \A m, n \in Nat : m < n => <<m, n>> \in R
<1>. DEFINE R == OpToRel(<, Nat)
<1>1. IsWellFoundedOn(R, Nat)
    BY NatLessThanWellFounded
<1>2. \A m, n \in Nat : m < n => <<m, n>> \in R
    BY DEF OpToRel
<1>. QED
    BY <1>1, <1>2

\* A non-empty set of numbers has a least one: induction, without an operator
\* for what is shown.
LEMMA Least ==
    ASSUME NEW S \in SUBSET Nat, S /= {}
    PROVE  \E n \in S : \A m \in S : n <= m
<1>1. PICK R : IsWellFoundedOn(R, Nat) /\ \A m, n \in Nat : m < n => <<m, n>> \in R
    BY LessWellFounded
<1>2. S \subseteq Nat
    OBVIOUS
<1>3. IsWellFoundedOn(R, Nat)
    BY <1>1
<1>4. \E n \in S : \A m \in S : ~(<<m, n>> \in R)
    BY <1>2, <1>3, WFMin, Zenon
<1>5. PICK n \in S : \A m \in S : ~(<<m, n>> \in R)
    BY <1>4
<1>6. \A m \in S : ~(m < n)
    BY <1>1, <1>2, <1>5
<1>. QED
    BY <1>2, <1>6

\* A set of numbers that goes on from each number to the next has all of them.
LEMMA AllNumbers ==
    ASSUME NEW S, 0 \in S, \A k \in Nat : k \in S => k + 1 \in S
    PROVE  Nat \subseteq S
<1>1. SUFFICES ASSUME Nat \ S /= {} PROVE FALSE
    OBVIOUS
<1>2. PICK n \in Nat \ S : \A m \in Nat \ S : n <= m
    BY <1>1, Least
<1>3. n - 1 \in Nat /\ n - 1 \in S
    BY <1>2
<1>4. n \in S
    BY <1>3
<1>. QED
    BY <1>2, <1>4

\* A non-empty set of numbers up to n has a greatest one.
LEMMA Greatest ==
    ASSUME NEW n \in Nat, NEW S \in SUBSET (1..n), S /= {}
    PROVE  \E k \in S : \A m \in S : m <= k
<1>. DEFINE T == {n - k : k \in S}
<1>1. T \in SUBSET Nat /\ T /= {}
    <2>1. \A k \in S : n - k \in Nat
        OBVIOUS
    <2>2. PICK k \in S : TRUE
        OBVIOUS
    <2>3. n - k \in T
        BY <2>2
    <2>. QED
        BY <2>1, <2>3
<1>2. PICK t \in T : \A u \in T : t <= u
    BY <1>1, Least
<1>3. PICK k \in S : t = n - k
    BY <1>2
<1>4. \A m \in S : n - m \in T
    OBVIOUS
<1>5. \A m \in S : n - k <= n - m
    BY <1>2, <1>3, <1>4
<1>. QED
    BY <1>3, <1>5

-----------------------------------------------------------------------------
(* Nodes and bridges *)

\* Nodes are numbers above 0, so a node can be taken for a net's number.
LEMMA NodeNumbers == Node \subseteq Nat \ {0}
<1>1. \A i \in 1..Len(Rails) : Rails[i] \in Nat \ {0}
    BY NodesAssumption
<1>2. Specials \subseteq Nat \ {0}
    BY <1>1 DEF Specials
<1>3. Pins \subseteq Nat \ {0} /\ Rows \subseteq Nat \ {0}
    BY NodesAssumption
<1>. QED
    BY <1>2, <1>3 DEF Node

\* Adding keeps what is held and adds nothing that was not asked for.
LEMMA AddedBounds ==
    ASSUME NEW held, NEW more, NEW length, NEW x \in Added(held, more, length)
    PROVE  held \subseteq x /\ x \subseteq held \cup more
<1>. DEFINE Short == {k \in SUBSET (more \ held) :
                        \/ Cardinality(held \cup k) = length
                        \/ k = {} /\ Cardinality(held) > length}
<1>1. Added(held, more, length) = IF Cardinality(held \cup more) <= length
        THEN {held \cup more} ELSE {held \cup kept : kept \in Short}
    BY DEF Added
<1>2. Short \subseteq SUBSET more
    OBVIOUS
<1>. HIDE DEF Short
<1>3. CASE Cardinality(held \cup more) <= length
    BY <1>1, <1>3
<1>4. CASE ~(Cardinality(held \cup more) <= length)
    <2>1. PICK kept \in Short : x = held \cup kept
        BY <1>1, <1>4
    <2>. QED
        BY <2>1, <1>2
<1>. QED
    BY <1>3, <1>4

LEMMA ExtendedBounds ==
    ASSUME NEW net \in Net, NEW b \in Bridge, NEW nodes \in SUBSET Node,
           NEW more \in SUBSET Bridge, NEW m \in Extended(net, b, nodes, more)
    PROVE  /\ m \in Net
           /\ net.nodes \subseteq m.nodes
           /\ m.nodes \subseteq net.nodes \cup Ends(b) \cup nodes
<1>1. PICK n \in NodesHeld(net, b, nodes), s \in BridgesHeld(net, b, more) :
        m = [first |-> net.first, nodes |-> n, bridges |-> s]
    BY DEF Extended
<1>2. PICK k \in Added(net.nodes, Ends(b), MaxNodes) : n \in Added(k, nodes, MaxNodes)
    BY <1>1 DEF NodesHeld
<1>3. PICK l \in Added(net.bridges, {b}, MaxNetBridges) : s \in Added(l, more, MaxNetBridges)
    BY <1>1 DEF BridgesHeld
<1>4. net.nodes \subseteq n /\ n \subseteq net.nodes \cup Ends(b) \cup nodes
    BY <1>2, AddedBounds
<1>5. s \subseteq net.bridges \cup {b} \cup more
    BY <1>3, AddedBounds
<1>6. Ends(b) \subseteq Node
    BY DEF Ends, Bridge
<1>7. n \in SUBSET Node /\ s \in SUBSET Bridge
    BY <1>4, <1>5, <1>6 DEF Net
<1>. QED
    BY <1>1, <1>4, <1>7 DEF Net

-----------------------------------------------------------------------------
(* Types *)

\* There is a number for each rail and at least two more.
LEMMA Numbers ==
    /\ Len(Rails) \in Nat
    /\ LastNumber \in Nat \ {0}
    /\ Len(Rails) + 2 <= LastNumber
BY NodesAssumption, BoundsAssumption DEF LastNumber

LEMMA NetsTyped ==
    ASSUME TypeOK
    PROVE  /\ nets \in Seq(Net) /\ Len(nets) \in Nat
           /\ \A i \in 1..Len(nets) :
                /\ nets[i] \in Net
                /\ nets[i].first \in Node
                /\ nets[i].nodes \in SUBSET Node
                /\ nets[i].bridges \in SUBSET Bridge
<1>1. nets \in Seq(Net)
    BY DEF TypeOK
<1>2. \A i \in 1..Len(nets) : nets[i] \in Net
    BY <1>1
<1>. QED
    BY <1>1, <1>2 DEF Net

\* The numbers in use are numbers of nets.
LEMMA NumbersTyped ==
    ASSUME TypeOK, NEW n \in NetNumbers
    PROVE  n \in Nat \ {0} /\ NetAt(n) \in Net
<1>1. CASE n \in 1..Len(nets)
    BY <1>1, NetsTyped DEF NetAt
<1>2. CASE n \notin 1..Len(nets)
    <2>1. n = LastNumber /\ behind /= <<>>
        BY <1>2 DEF NetNumbers
    <2>2. behind \in Seq(Net) /\ Len(behind) = 1 /\ Len(nets) < LastNumber - 1
        BY <2>1 DEF TypeOK
    <2>3. behind[1] \in Net /\ ~(n <= Len(nets))
        BY <2>1, <2>2, Numbers, NetsTyped
    <2>. QED
        BY <2>1, <2>3, Numbers DEF NetAt
<1>. QED
    BY <1>1, <1>2

\* A node is found in a net up to the first hole, or in none.
LEMMA FoundRange ==
    ASSUME TypeOK, NEW n
    PROVE  FoundNet(n) \in 0..Len(nets)
<1>0. Len(nets) \in Nat
    BY NetsTyped
<1>1. CASE NetsOf(n) = {}
    BY <1>0, <1>1 DEF FoundNet
<1>2. CASE NetsOf(n) /= {}
    <2>1. NetsOf(n) \in SUBSET (1..Len(nets))
        BY DEF NetsOf
    <2>2. \E k \in NetsOf(n) : \A j \in NetsOf(n) : j <= k
        BY <1>0, <1>2, <2>1, Greatest
    <2>3. FoundNet(n) \in NetsOf(n)
        BY <1>2, <2>2 DEF FoundNet
    <2>. QED
        BY <1>0, <2>1, <2>3
<1>. QED
    BY <1>1, <1>2

\* A node of the board is found at a net's number, or at its own, or nowhere.
LEMMA FindType ==
    ASSUME TypeOK, NEW n \in Node
    PROVE  findNodeInNet(n) \in Nat
<1>1. CASE NumbersOf(n) = {}
    BY <1>1, NodeNumbers DEF findNodeInNet
<1>2. CASE NumbersOf(n) /= {}
    <2>1. NumbersOf(n) \in SUBSET Nat
        BY NumbersTyped DEF NumbersOf
    <2>2. \E k \in NumbersOf(n) : \A j \in NumbersOf(n) : k <= j
        BY <1>2, <2>1, Least
    <2>3. findNodeInNet(n) \in NumbersOf(n)
        BY <1>2, <2>2 DEF findNodeInNet
    <2>. QED
        BY <2>1, <2>3
<1>. QED
    BY <1>1, <1>2

LEMMA ReconcileType ==
    ASSUME TypeOK, reconcileAfterRebuild
    PROVE  names' \in Seq(Name)
<1>. DEFINE kept == {i \in 1..Len(names) : findNodeInNet(names[i].first) > 0}
            n == Cardinality(kept)
<1>1. Len(names) \in Nat /\ \A i \in 1..Len(names) : names[i] \in Name
    BY DEF TypeOK
<1>2. IsFiniteSet(1..Len(names))
    BY <1>1, FS_Interval
<1>3. IsFiniteSet(kept)
    BY <1>2, FS_Subset
<1>4. n \in Nat
    BY <1>3, FS_CardinalityType
<1>5. PICK place \in [1..n -> kept] : names' = [k \in 1..n |-> Reconciled(names[place[k]])]
    BY DEF reconcileAfterRebuild
<1>6. \A i \in kept : Reconciled(names[i]) \in Name
    <2>1. SUFFICES ASSUME NEW i \in kept PROVE Reconciled(names[i]) \in Name
        OBVIOUS
    <2>2. names[i] \in Name /\ findNodeInNet(names[i].first) > 0
        BY <1>1
    <2>3. names[i].first \in Node
        BY <2>2 DEF Name
    <2>4. findNodeInNet(names[i].first) \in Nat \ {0}
        BY <2>2, <2>3, FindType
    <2>. QED
        BY <2>2, <2>4 DEF Reconciled, Name
<1>. HIDE DEF n, kept
<1>7. \A k \in 1..n : Reconciled(names[place[k]]) \in Name
    BY <1>5, <1>6
<1>8. names' \in [1..n -> Name]
    BY <1>5, <1>7
<1>. QED
    BY <1>4, <1>8

LEMMA SortType ==
    ASSUME TypeOK, sortPathsByNet
    PROVE  paths' \subseteq Nat \X Bridge
<1>1. \A i \in 1..Len(nets) : i \in Nat /\ nets[i].bridges \subseteq Bridge
    BY NetsTyped
<1>. QED
    BY <1>1 DEF sortPathsByNet

\* A pin is shown on a net's number.
LEMMA ShownType ==
    ASSUME TypeOK, NEW n \in Nat, NEW nodes
    PROVE  Shown(n, nodes) \in [Pins -> Nat]
BY DEF TypeOK, Shown

\* What taking a bridge changes
NetTypes ==
    /\ nets \in Seq(Net)
    /\ Len(nets) <= LastNumber
    /\ behind \in Seq(Net)
    /\ behind /= <<>> => Len(behind) = 1 /\ Len(nets) < LastNumber - 1 /\ dropped
    /\ gpioNet \in [Pins -> Nat]
    /\ dropped \in BOOLEAN

LEMMA GrowTypes ==
    ASSUME TypeOK, NEW n \in 1..Len(nets), NEW b \in Bridge, NEW ends, Grow(n, b, ends)
    PROVE  NetTypes'
<1>1. PICK m \in Extended(nets[n], b, {}, {}) :
        /\ nets' = [nets EXCEPT ![n] = m]
        /\ dropped' = (dropped \/ ~FitsIn(m, nets[n], b, {}, {}))
    BY DEF Grow
<1>2. nets \in Seq(Net) /\ nets[n] \in Net /\ n \in Nat
    BY NetsTyped
<1>3. m \in Net
    BY <1>1, <1>2, ExtendedBounds
<1>4. nets' \in Seq(Net) /\ Len(nets') = Len(nets)
    BY <1>1, <1>2, <1>3, PutType
<1>5. behind' = behind /\ gpioNet' \in [Pins -> Nat]
    BY <1>2, ShownType DEF Grow
<1>6. dropped' \in BOOLEAN /\ (dropped => dropped')
    BY <1>1
<1>. QED
    BY <1>4, <1>5, <1>6 DEF TypeOK, NetTypes

LEMMA CreateTypes ==
    ASSUME TypeOK, NEW b \in Bridge, createNewNet(b)
    PROVE  NetTypes'
<1>. DEFINE m == [first |-> b[1], nodes |-> Ends(b), bridges |-> {b}]
            s == Append(nets, m)
<1>1. nets \in Seq(Net) /\ Len(nets) \in Nat /\ Len(nets) + 1 \in Nat
    BY NetsTyped
<1>2. m \in Net
    BY DEF Net, Bridge, Ends
<1>3. CASE Len(nets) < LastNumber
    <2>1. /\ nets' = InSight(s)
          /\ behind' = IF Len(nets) = LastNumber - 2 THEN <<>> ELSE behind
          /\ gpioNet' = Shown(Len(nets) + 1, Ends(b))
          /\ dropped' = dropped
        BY <1>3 DEF createNewNet
    <2>2. gpioNet' \in [Pins -> Nat]
        BY <1>1, <2>1, ShownType
    <2>. HIDE DEF m
    <2>3. s \in Seq(Net) /\ Len(s) = Len(nets) + 1
        BY <1>1, <1>2
    <2>. HIDE DEF s
    <2>4. behind \in Seq(Net) /\ dropped \in BOOLEAN
        BY DEF TypeOK
    <2>5. CASE Len(nets) = LastNumber - 2
        <3>1. nets' = s \o behind /\ behind' = <<>>
            BY <1>1, <2>1, <2>3, <2>5, Numbers DEF InSight
        <3>2. Len(behind) = 0 \/ Len(behind) = 1
            BY DEF TypeOK
        <3>3. s \o behind \in Seq(Net) /\ Len(s \o behind) = Len(s) + Len(behind)
            BY <2>3, <2>4
        <3>4. Len(nets') <= LastNumber
            <4>1. Len(s) = LastNumber - 1 /\ LastNumber \in Nat
                BY <1>1, <2>3, <2>5, Numbers
            <4>. DEFINE before == Len(s)
                        more == Len(behind)
                        after == Len(s \o behind)
            <4>2. before = LastNumber - 1 /\ LastNumber \in Nat /\ more \in {0, 1} /\ after = before + more
                BY <3>2, <3>3, <4>1
            <4>. HIDE DEF before, more, after
            <4>3. after <= LastNumber
                BY <4>2
            <4>. QED
                BY <3>1, <4>3 DEF after
        <3>5. nets' \in Seq(Net) /\ behind' \in Seq(Net) /\ behind' = <<>>
            BY <3>1, <3>3
        <3>. QED
            BY <2>1, <2>2, <2>4, <3>4, <3>5 DEF NetTypes
    <2>6. CASE Len(nets) /= LastNumber - 2
        <3>1. nets' = s /\ behind' = behind
            BY <1>1, <2>1, <2>3, <2>6, Numbers DEF InSight
        <3>2. behind /= <<>> => Len(behind) = 1 /\ Len(s) < LastNumber - 1 /\ dropped
            BY <1>1, <2>3, <2>6, Numbers DEF TypeOK
        <3>3. Len(s) <= LastNumber
            BY <1>1, <1>3, <2>3, Numbers
        <3>. QED
            BY <2>1, <2>2, <2>3, <2>4, <3>1, <3>2, <3>3 DEF NetTypes
    <2>. QED
        BY <2>5, <2>6
<1>4. CASE ~(Len(nets) < LastNumber)
    <2>1. gpioNet' = Shown(NoPlace, Ends(b)) /\ dropped' = TRUE /\ UNCHANGED <<nets, behind>>
        BY <1>4 DEF createNewNet
    <2>2. NoPlace \in Nat
        BY DEF NoPlace
    <2>3. gpioNet' \in [Pins -> Nat]
        BY <2>1, <2>2, ShownType
    <2>. QED
        BY <2>1, <2>3 DEF TypeOK, NetTypes
<1>. QED
    BY <1>3, <1>4

LEMMA MergeTypes ==
    ASSUME TypeOK, NEW stays \in 1..Len(nets), NEW goes \in 1..Len(nets),
           NEW b \in Bridge, Merge(stays, goes, b)
    PROVE  NetTypes'
<1>1. /\ nets \in Seq(Net) /\ Len(nets) \in Nat /\ stays \in Nat /\ nets[stays] \in Net
      /\ nets[goes].nodes \in SUBSET Node /\ nets[goes].bridges \in SUBSET Bridge
    BY NetsTyped
<1>2. PICK m \in Extended(nets[stays], b, nets[goes].nodes, nets[goes].bridges) :
        /\ Shifted([nets EXCEPT ![stays] = m], goes)
        /\ dropped' = \/ dropped
                      \/ ~FitsIn(m, nets[stays], b, nets[goes].nodes, nets[goes].bridges)
                      \/ Len(nets) = LastNumber
    BY DEF Merge
<1>3. m \in Net
    BY <1>1, <1>2, ExtendedBounds
<1>. DEFINE P == [nets EXCEPT ![stays] = m]
<1>4. P \in Seq(Net) /\ Len(P) = Len(nets)
    BY <1>1, <1>3, PutType
<1>5. Shifted(P, goes)
    BY <1>2
<1>. HIDE DEF P
<1>6. gpioNet' \in [Pins -> Nat]
    BY <1>1, ShownType DEF Merge
<1>7. dropped' \in BOOLEAN /\ (dropped => dropped')
    BY <1>2
<1>8. /\ behind \in Seq(Net) /\ Len(nets) <= LastNumber
      /\ behind /= <<>> => Len(behind) = 1 /\ Len(nets) < LastNumber - 1 /\ dropped
    BY DEF TypeOK
<1>9. CASE Len(nets) < LastNumber
    <2>1. nets' = Without(P, goes) /\ behind' = behind
        BY <1>4, <1>5, <1>9 DEF Shifted
    <2>2. nets' \in Seq(Net) /\ Len(nets') = Len(nets) - 1
        BY <1>4, <2>1, WithoutType, WithoutLen
    <2>3. Len(nets') <= LastNumber /\ (Len(nets) < LastNumber - 1 => Len(nets') < LastNumber - 1)
        BY <1>1, <1>9, <2>2, Numbers
    <2>. QED
        BY <1>6, <1>7, <1>8, <2>1, <2>2, <2>3 DEF NetTypes
<1>10. CASE ~(Len(nets) < LastNumber)
    <2>. DEFINE Q == SubSeq(P, 1, LastNumber - 1)
                out == IF goes < LastNumber THEN goes ELSE LastNumber - 1
    <2>1. Len(nets) = LastNumber
        BY <1>1, <1>8, <1>10, Numbers
    <2>2. nets' = Without(Q, out) /\ behind' = <<P[LastNumber]>>
        BY <1>4, <1>5, <1>10 DEF Shifted
    <2>3. Q \in Seq(Net) /\ Len(Q) = LastNumber - 1
        BY <1>4, <2>1, Numbers
    <2>4. out \in 1..Len(Q)
        BY <2>1, <2>3, Numbers
    <2>. HIDE DEF Q, out
    <2>5. nets' \in Seq(Net) /\ Len(nets') = LastNumber - 2
        <3>1. nets' \in Seq(Net)
            BY <2>2, <2>3, <2>4, WithoutType
        <3>2. Len(nets') = Len(Q) - 1
            BY <2>2, <2>3, <2>4, WithoutLen
        <3>. QED
            BY <2>3, <3>1, <3>2, Numbers
    <2>6. behind' \in Seq(Net) /\ Len(behind') = 1
        BY <1>4, <2>1, <2>2, Numbers
    <2>7. dropped'
        BY <1>2, <2>1
    <2>. QED
        BY <1>6, <1>7, <2>5, <2>6, <2>7, Numbers DEF NetTypes
<1>. QED
    BY <1>9, <1>10

\* The bridge in hand
LEMMA TakenBridge ==
    ASSUME TypeOK, TakeBridge
    PROVE  Taken \in Bridge
BY DEF TypeOK, TakeBridge, Taken

\* Taking a bridge stays within the list.
LEMMA TakeTypes ==
    ASSUME TypeOK, TakeBridge, NetTypes'
    PROVE  TypeOK'
BY DEF TypeOK, TakeBridge, NetTypes

LEMMA NetTypesSame ==
    ASSUME TypeOK, LeaveOut
    PROVE  NetTypes'
BY DEF TypeOK, LeaveOut, NetTypes

LEMMA RailsTyped == RailNets \in Seq(Net) /\ Len(RailNets) = Len(Rails)
<1>1. Len(Rails) \in Nat /\ Rails \in [1..Len(Rails) -> Specials]
    BY NodesAssumption DEF Specials
<1>2. \A i \in 1..Len(Rails) : RailNet(i) \in Net
    BY <1>1 DEF RailNet, Net, Node
<1>3. RailNets \in [1..Len(Rails) -> Net]
    BY <1>2 DEF RailNets
<1>. QED
    BY <1>1, <1>3

\* A refresh starts with types that hold.
LEMMA FreshTypes ==
    /\ RailNets \in Seq(Net) /\ Len(RailNets) <= LastNumber
    /\ [p \in Pins |-> 0] \in [Pins -> Nat]
    /\ <<>> \in Seq(Net)
<1>1. RailNets \in Seq(Net) /\ Len(RailNets) <= LastNumber
    BY RailsTyped, Numbers
<1>2. [p \in Pins |-> 0] \in [Pins -> Nat]
    OBVIOUS
<1>3. <<>> \in Seq(Net)
    OBVIOUS
<1>. QED
    BY <1>1, <1>2, <1>3

LEMMA TypeInit == Init => TypeOK
<1>1. Init => NetTypes
    BY FreshTypes DEF Init, NetTypes
<1>2. Init => /\ bridges \in Seq(Bridge) /\ names \in Seq(Name)
              /\ next \in 0..(Len(bridges) + 1)
    BY DEF Init
<1>3. Init => paths \subseteq Nat \X Bridge /\ edits \in Nat
    BY DEF Init
<1>. QED
    BY <1>1, <1>2, <1>3 DEF NetTypes, TypeOK

LEMMA TypeNext ==
    ASSUME TypeOK, [Next]_vars
    PROVE  TypeOK'
<1>0. /\ FoundNet(Taken[1]) > 0 => FoundNet(Taken[1]) \in 1..Len(nets)
      /\ FoundNet(Taken[2]) > 0 => FoundNet(Taken[2]) \in 1..Len(nets)
    BY FoundRange, NetsTyped
<1>1. ASSUME NEW b \in Connectable, addConnection(b) PROVE TypeOK'
    <2>1. b \in Bridge
        BY RulesAssumption
    <2>2. /\ bridges' = Append(bridges, b) /\ next' = next /\ next = 0 /\ edits' = edits + 1
          /\ UNCHANGED <<nets, behind, names, gpioNet, paths, dropped>>
        BY <1>1 DEF addConnection, CanEdit
    <2>3. bridges' \in Seq(Bridge) /\ Len(bridges') \in Nat
        BY <2>1, <2>2 DEF TypeOK
    <2>. QED
        BY <2>2, <2>3 DEF TypeOK
<1>2. ASSUME NEW i \in 1..Len(bridges), removeConnection(i) PROVE TypeOK'
    <2>1. /\ bridges' = Without(bridges, i) /\ next' = next /\ next = 0 /\ edits' = edits + 1
          /\ UNCHANGED <<nets, behind, names, gpioNet, paths, dropped>>
        BY <1>2 DEF removeConnection, CanEdit
    <2>2. bridges' \in Seq(Bridge)
        BY <2>1, WithoutType DEF TypeOK
    <2>3. Len(bridges') \in Nat
        BY <2>2
    <2>. QED
        BY <2>1, <2>2, <2>3 DEF TypeOK
<1>3. ASSUME NEW n \in NetNumbers, setNetName(n) PROVE TypeOK'
    <2>. DEFINE given == [net |-> n, first |-> NetAt(n).first]
                there == {i \in 1..Len(names) : names[i].net = n}
                i == CHOOSE k \in there : \A l \in there : k <= l
    <2>1. given \in Name
        BY NumbersTyped DEF Net, Name
    <2>2. \/ names' = Append(names, given)
          \/ names' = [names EXCEPT ![i] = given]
        BY <1>3 DEF setNetName
    <2>. HIDE DEF given, i
    <2>3. names \in Seq(Name)
        BY DEF TypeOK
    <2>4. names' \in Seq(Name)
        <3>1. CASE names' = Append(names, given)
            BY <2>1, <2>3, <3>1
        <3>2. CASE names' = [names EXCEPT ![i] = given]
            BY <2>1, <2>3, <3>2, PutType
        <3>. QED
            BY <2>2, <3>1, <3>2
    <2>5. UNCHANGED <<bridges, nets, behind, next, gpioNet, paths, edits, dropped>>
        BY <1>3 DEF setNetName
    <2>. QED
        BY <2>4, <2>5 DEF TypeOK
<1>4. ASSUME NEW n \in NetNumbers, removeNetName(n) PROVE TypeOK'
    <2>1. names \in Seq(Name)
        BY DEF TypeOK
    <2>2. PICK i \in 1..Len(names) : names' = Without(names, i)
        BY <1>4 DEF removeNetName
    <2>3. names' \in Seq(Name)
        BY <2>1, <2>2, WithoutType
    <2>. QED
        BY <1>4, <2>3 DEF TypeOK, removeNetName
<1>5. CASE StartRefresh
    <2>1. NetTypes'
        <3>1. /\ nets' = RailNets /\ behind' = <<>> /\ dropped' = FALSE
              /\ gpioNet' = [p \in Pins |-> 0]
            BY <1>5 DEF StartRefresh
        <3>. QED
            BY <3>1, FreshTypes DEF NetTypes
    <2>2. /\ bridges' = bridges /\ names' = names
          /\ next' = 1 /\ paths' = {} /\ edits' = 0
        BY <1>5 DEF StartRefresh
    <2>3. next' \in 0..(Len(bridges') + 1)
        BY <2>2 DEF TypeOK
    <2>. QED
        BY <2>1, <2>2, <2>3 DEF TypeOK, NetTypes
<1>6. CASE SameNet
    <2>1. NetTypes'
        BY <1>0, <1>6, TakenBridge, GrowTypes DEF SameNet, First
    <2>. QED
        BY <1>6, <2>1, TakeTypes DEF SameNet
<1>7. CASE TwoNets
    <2>1. NetTypes'
        BY <1>0, <1>7, TakenBridge, MergeTypes, NetTypesSame
        DEF TwoNets, First, Second, combineNets
    <2>. QED
        BY <1>7, <2>1, TakeTypes DEF TwoNets
<1>8. CASE TwoRails
    BY <1>8, NetTypesSame, TakeTypes DEF TwoRails
<1>9. CASE OneNet
    <2>1. NetTypes'
        BY <1>0, <1>9, TakenBridge, GrowTypes, CreateTypes DEF OneNet, First, Second, JoinNet
    <2>. QED
        BY <1>9, <2>1, TakeTypes DEF OneNet
<1>10. CASE NoNet
    BY <1>10, TakenBridge, CreateTypes, TakeTypes DEF NoNet
<1>11. CASE FinishRefresh
    BY <1>11, ReconcileType, SortType DEF FinishRefresh, TypeOK
<1>12. CASE UNCHANGED vars
    BY <1>12 DEF TypeOK, vars
<1>. QED
    BY <1>1, <1>2, <1>3, <1>4, <1>5, <1>6, <1>7, <1>8, <1>9, <1>10, <1>11, <1>12 DEF Next

\* The model's types, for every value of the constants, and also when the end
\* of an array is met.
THEOREM TypeInvariant == Spec => []TypeOK
<1>1. Init => TypeOK
    BY TypeInit
<1>2. TypeOK /\ [Next]_vars => TypeOK'
    BY TypeNext
<1>. QED
    BY <1>1, <1>2, PTL DEF Spec

-----------------------------------------------------------------------------
(* The three ways the nets change *)

\* A net that grows by nodes no other net holds leaves the nets apart.
LEMMA GrowSafe ==
    ASSUME NEW N, SafeNets(N), NEW n \in 1..Len(N), NEW m \in Net, NEW X,
           N[n].nodes \subseteq m.nodes,
           m.nodes \subseteq N[n].nodes \cup X,
           \A j \in 1..Len(N) : j /= n => X \cap N[j].nodes = {}
    PROVE  SafeNets([N EXCEPT ![n] = m])
<1>. DEFINE M == [N EXCEPT ![n] = m]
<1>1. N \in Seq(Net)
    BY DEF SafeNets
<1>2. M \in Seq(Net) /\ Len(M) = Len(N)
    BY <1>1, PutType
<1>3. \A j \in 1..Len(N) : M[j] = IF j = n THEN m ELSE N[j]
    BY <1>1
<1>4. ApartIn(M)
    BY <1>2, <1>3 DEF SafeNets, ApartIn
<1>5. RailsIn(M)
    <2>1. Len(M) >= Len(Rails)
        BY <1>2 DEF SafeNets, RailsIn
    <2>2. ASSUME NEW i \in 1..Len(Rails), NEW j \in 1..Len(M)
          PROVE  Rails[i] \in M[j].nodes <=> i = j
        <3>1. j \in 1..Len(N) /\ i \in 1..Len(N)
            BY <1>2, <1>1, NodesAssumption DEF SafeNets, RailsIn
        <3>2. Rails[i] \in N[i].nodes
            BY <3>1 DEF SafeNets, RailsIn
        <3>3. Rails[i] \in N[j].nodes <=> i = j
            BY <3>1 DEF SafeNets, RailsIn
        <3>4. CASE j /= n
            BY <3>1, <3>3, <3>4, <1>3
        <3>5. CASE j = n
            <4>1. M[j] = m
                BY <3>1, <3>5, <1>3
            <4>2. i /= n => Rails[i] \notin X
                BY <3>1, <3>2
            <4>. QED
                BY <4>1, <4>2, <3>3, <3>5
        <3>. QED
            BY <3>4, <3>5
    <2>. QED
        BY <2>1, <2>2 DEF RailsIn
<1>. QED
    BY <1>2, <1>4, <1>5 DEF SafeNets

\* A new net of nodes that are in no net leaves the nets apart.
LEMMA AppendSafe ==
    ASSUME NEW N, SafeNets(N), NEW m \in Net,
           \A j \in 1..Len(N) : m.nodes \cap N[j].nodes = {}
    PROVE  SafeNets(Append(N, m))
<1>. DEFINE M == Append(N, m)
<1>1. N \in Seq(Net)
    BY DEF SafeNets
<1>2. M \in Seq(Net) /\ Len(M) = Len(N) + 1 /\ Len(N) \in Nat
    BY <1>1
<1>3. \A j \in 1..Len(M) : M[j] = IF j = Len(N) + 1 THEN m ELSE N[j]
    BY <1>1
<1>4. \A j \in 1..Len(M) : j = Len(N) + 1 \/ j \in 1..Len(N)
    BY <1>2
<1>5. ApartIn(M)
    BY <1>2, <1>3, <1>4 DEF SafeNets, ApartIn
<1>6. RailsIn(M)
    <2>1. Len(M) >= Len(Rails)
        BY <1>2, NodesAssumption DEF SafeNets, RailsIn
    <2>2. ASSUME NEW i \in 1..Len(Rails), NEW j \in 1..Len(M)
          PROVE  Rails[i] \in M[j].nodes <=> i = j
        <3>1. i \in 1..Len(N)
            BY <1>2, NodesAssumption DEF SafeNets, RailsIn
        <3>2. Rails[i] \in N[i].nodes
            BY <3>1 DEF SafeNets, RailsIn
        <3>3. CASE j = Len(N) + 1
            <4>1. M[j] = m /\ i /= j
                BY <3>1, <3>3, <1>2, <1>3
            <4>2. Rails[i] \notin m.nodes
                BY <3>1, <3>2
            <4>. QED
                BY <4>1, <4>2
        <3>4. CASE j \in 1..Len(N)
            <4>1. M[j] = N[j]
                BY <3>4, <1>2, <1>3
            <4>. QED
                BY <4>1, <3>4 DEF SafeNets, RailsIn
        <3>. QED
            BY <3>3, <3>4, <1>4
    <2>. QED
        BY <2>1, <2>2 DEF RailsIn
<1>. QED
    BY <1>2, <1>5, <1>6 DEF SafeNets

\* Merging a net that is not a rail's into another one, and moving up what
\* is behind it, leaves the nets apart and the rails at their numbers.
LEMMA MergeSafe ==
    ASSUME NEW N, SafeNets(N), NEW stays \in 1..Len(N), NEW goes \in 1..Len(N),
           stays /= goes, goes > Len(Rails), NEW m \in Net,
           N[stays].nodes \subseteq m.nodes,
           m.nodes \subseteq N[stays].nodes \cup N[goes].nodes
    PROVE  SafeNets(Without([N EXCEPT ![stays] = m], goes))
<1>. DEFINE P == [N EXCEPT ![stays] = m]
            M == Without(P, goes)
            Old(k) == IF k < goes THEN k ELSE k + 1
<1>1. N \in Seq(Net) /\ Len(N) \in Nat
    BY DEF SafeNets
<1>2. P \in Seq(Net) /\ Len(P) = Len(N)
    BY <1>1, PutType
<1>3. M \in Seq(Net) /\ Len(M) = Len(N) - 1
    BY <1>2, WithoutType, WithoutLen
<1>4. \A k \in 1..Len(M) :
        /\ Old(k) \in 1..Len(N)
        /\ Old(k) /= goes
        /\ M[k] = IF Old(k) = stays THEN m ELSE N[Old(k)]
    <2>1. SUFFICES ASSUME NEW k \in 1..Len(M)
                   PROVE  /\ Old(k) \in 1..Len(N)
                          /\ Old(k) /= goes
                          /\ M[k] = IF Old(k) = stays THEN m ELSE N[Old(k)]
        OBVIOUS
    <2>2. Old(k) \in 1..Len(N) /\ Old(k) /= goes
        BY <1>1, <1>3
    <2>3. k \in 1..(Len(P) - 1) /\ goes \in 1..Len(P)
        BY <1>1, <1>2, <1>3
    <2>4. M[k] = P[Old(k)]
        BY <2>3, <1>2, WithoutAt
    <2>5. P[Old(k)] = IF Old(k) = stays THEN m ELSE N[Old(k)]
        BY <2>2, <1>1
    <2>. QED
        BY <2>2, <2>4, <2>5
<1>5. \A k, l \in 1..Len(M) : k /= l => Old(k) /= Old(l)
    BY <1>1, <1>3
<1>. HIDE DEF M, Old
<1>6. ApartIn(M)
    <2>1. SUFFICES ASSUME NEW k \in 1..Len(M), NEW l \in 1..Len(M), k /= l
                   PROVE  M[k].nodes \cap M[l].nodes = {}
        BY DEF ApartIn
    <2>. DEFINE x == Old(k)
                y == Old(l)
    <2>2. /\ x \in 1..Len(N) /\ x /= goes /\ M[k] = IF x = stays THEN m ELSE N[x]
          /\ y \in 1..Len(N) /\ y /= goes /\ M[l] = IF y = stays THEN m ELSE N[y]
        BY <1>4
    <2>3. x /= y
        BY <1>5, <2>1
    <2>4. /\ N[x].nodes \cap N[y].nodes = {}
          /\ N[x].nodes \cap N[goes].nodes = {}
          /\ N[y].nodes \cap N[goes].nodes = {}
        BY <2>2, <2>3 DEF SafeNets, ApartIn
    <2>. HIDE DEF x, y
    <2>5. CASE x = stays
        BY <2>2, <2>3, <2>4, <2>5
    <2>6. CASE x /= stays
        BY <2>2, <2>3, <2>4, <2>6
    <2>. QED
        BY <2>5, <2>6
<1>7. RailsIn(M)
    <2>0. Len(Rails) \in Nat
        BY NodesAssumption
    <2>1. Len(M) >= Len(Rails)
        BY <1>1, <1>3, <2>0 DEF SafeNets, RailsIn
    <2>2. ASSUME NEW i \in 1..Len(Rails), NEW j \in 1..Len(M)
          PROVE  Rails[i] \in M[j].nodes <=> i = j
        <3>1. i \in 1..Len(N) /\ i < goes
            BY <1>1, <2>0 DEF SafeNets, RailsIn
        <3>. DEFINE x == Old(j)
        <3>2. x \in 1..Len(N) /\ x /= goes /\ M[j] = IF x = stays THEN m ELSE N[x]
            BY <1>4
        <3>3. x = i <=> j = i
            BY <3>1, <1>1, <1>3 DEF Old
        <3>4. (Rails[i] \in N[x].nodes <=> i = x) /\ Rails[i] \notin N[goes].nodes
            BY <3>1, <3>2 DEF SafeNets, RailsIn
        <3>. HIDE DEF x
        <3>5. CASE x = stays
            BY <3>2, <3>3, <3>4, <3>5
        <3>6. CASE x /= stays
            BY <3>2, <3>3, <3>4, <3>6
        <3>. QED
            BY <3>5, <3>6
    <2>. QED
        BY <2>1, <2>2 DEF RailsIn
<1>. QED
    BY <1>3, <1>6, <1>7 DEF SafeNets, M

-----------------------------------------------------------------------------
(* The operators of the search *)

\* With the nets apart, a node is found in the one net that holds it.
LEMMA FoundIn ==
    ASSUME NetsInv, NEW n, FoundNet(n) > 0
    PROVE  FoundNet(n) \in 1..Len(nets) /\ n \in nets[FoundNet(n)].nodes
<1>1. NetsOf(n) /= {}
    BY DEF FoundNet
<1>2. PICK i \in NetsOf(n) : TRUE
    BY <1>1
<1>3. \A j \in NetsOf(n) : j = i
    BY <1>2 DEF NetsOf, NetsInv, SafeNets, ApartIn
<1>4. i \in 1..Len(nets) /\ n \in nets[i].nodes
    BY <1>2 DEF NetsOf
<1>5. \E k \in NetsOf(n) : \A j \in NetsOf(n) : j <= k
    BY <1>2, <1>3, <1>4, NetsTyped DEF NetsInv
<1>6. FoundNet(n) \in NetsOf(n)
    BY <1>1, <1>5 DEF FoundNet
<1>. QED
    BY <1>6 DEF NetsOf

\* A node that is not found is in no net.
LEMMA NotFound ==
    ASSUME NetsInv, NEW n, FoundNet(n) = 0
    PROVE  \A j \in 1..Len(nets) : n \notin nets[j].nodes
<1>1. SUFFICES ASSUME NEW j \in 1..Len(nets), n \in nets[j].nodes PROVE FALSE
    OBVIOUS
<1>2. j \in NetsOf(n)
    BY <1>1 DEF NetsOf
<1>3. \A k \in NetsOf(n) : k = j
    BY <1>1, <1>2 DEF NetsOf, NetsInv, SafeNets, ApartIn
<1>4. \E k \in NetsOf(n) : \A l \in NetsOf(n) : l <= k
    BY <1>2, <1>3, <1>1, NetsTyped DEF NetsInv
<1>5. FoundNet(n) \in NetsOf(n)
    BY <1>2, <1>4 DEF FoundNet
<1>. QED
    BY <1>3, <1>5, <1>1

-----------------------------------------------------------------------------
(* As long as nothing is dropped *)

\* There is no net behind a hole, and the nets are the numbers in use.
LEMMA CleanNumbers ==
    ASSUME NetsInv
    PROVE  /\ NetNumbers = 1..Len(nets)
           /\ \A i \in 1..Len(nets) : NetAt(i) = nets[i]
           /\ \A n : NumbersOf(n) = NetsOf(n)
<1>1. behind = <<>> /\ Len(nets) \in Nat
    BY NetsTyped DEF NetsInv
<1>2. NetNumbers = 1..Len(nets)
    BY <1>1 DEF NetNumbers
<1>3. \A i \in 1..Len(nets) : NetAt(i) = nets[i]
    BY <1>1 DEF NetAt
<1>. QED
    BY <1>2, <1>3 DEF NumbersOf, NetsOf

\* A new net gets the first free number.
LEMMA CreateClean ==
    ASSUME NetsInv, NEW b \in Bridge, createNewNet(b), ~dropped'
    PROVE  /\ nets' = Append(nets, [first |-> b[1], nodes |-> Ends(b), bridges |-> {b}])
           /\ behind' = <<>>
           /\ ~dropped
<1>. DEFINE s == Append(nets, [first |-> b[1], nodes |-> Ends(b), bridges |-> {b}])
<1>1. [first |-> b[1], nodes |-> Ends(b), bridges |-> {b}] \in Net
    BY DEF Net, Bridge, Ends
<1>2. s \in Seq(Net)
    BY <1>1, NetsTyped DEF NetsInv
<1>3. /\ nets' = InSight(s)
      /\ behind' = IF Len(nets) = LastNumber - 2 THEN <<>> ELSE behind
      /\ ~dropped
    BY DEF createNewNet
<1>. HIDE DEF s
<1>4. behind = <<>> /\ s \o <<>> = s
    BY <1>2 DEF NetsInv
<1>5. nets' = s /\ behind' = <<>>
    BY <1>3, <1>4 DEF InSight
<1>. QED
    BY <1>3, <1>5 DEF s

\* x and y become one net by bridge b
Combined(m, x, b, y) ==
    /\ m \in Net
    /\ m.first = x.first
    /\ m.nodes = x.nodes \cup Ends(b) \cup y.nodes
    /\ m.bridges = x.bridges \cup {b} \cup y.bridges

\* A merge finds room for everything, and shifts all that is behind.
LEMMA MergeClean ==
    ASSUME NetsInv, NEW stays \in 1..Len(nets), NEW goes \in 1..Len(nets),
           NEW b \in Bridge, Merge(stays, goes, b), ~dropped'
    PROVE  /\ \E m : /\ nets' = Without([nets EXCEPT ![stays] = m], goes)
                     /\ Combined(m, nets[stays], b, nets[goes])
           /\ behind' = <<>>
           /\ ~dropped
<1>1. PICK m \in Extended(nets[stays], b, nets[goes].nodes, nets[goes].bridges) :
        /\ Shifted([nets EXCEPT ![stays] = m], goes)
        /\ dropped' = \/ dropped
                      \/ ~FitsIn(m, nets[stays], b, nets[goes].nodes, nets[goes].bridges)
                      \/ Len(nets) = LastNumber
    BY DEF Merge
<1>2. /\ ~dropped
      /\ FitsIn(m, nets[stays], b, nets[goes].nodes, nets[goes].bridges)
      /\ Len(nets) /= LastNumber
    BY <1>1
<1>3. Len(nets) < LastNumber /\ behind = <<>>
    BY <1>2, NetsTyped, Numbers DEF NetsInv, TypeOK
<1>4. /\ nets \in Seq(Net) /\ nets[stays] \in Net
      /\ nets[goes].nodes \in SUBSET Node /\ nets[goes].bridges \in SUBSET Bridge
    BY NetsTyped DEF NetsInv
<1>5. m \in Net
    BY <1>1, <1>4, ExtendedBounds
<1>6. Len([nets EXCEPT ![stays] = m]) = Len(nets)
    BY <1>4, <1>5, PutType
<1>7. nets' = Without([nets EXCEPT ![stays] = m], goes) /\ behind' = behind
    BY <1>1, <1>3, <1>6 DEF Shifted
<1>8. m.first = nets[stays].first
    BY <1>1 DEF Extended
<1>. QED
    BY <1>2, <1>3, <1>5, <1>7, <1>8 DEF FitsIn, Combined

\* What is dropped stays dropped until the next refresh.
LEMMA DroppedBefore ==
    ASSUME [Next]_vars, ~StartRefresh, ~dropped'
    PROVE  ~dropped
BY DEF Next, vars, addConnection, removeConnection, setNetName, removeNetName,
       SameNet, TwoNets, TwoRails, OneNet, NoNet, FinishRefresh,
       LeaveOut, combineNets, JoinNet, Grow, Merge, createNewNet

-----------------------------------------------------------------------------
(* The steps keep the nets apart *)

LEMMA GrowKeeps ==
    ASSUME NetsInv, NEW n \in 1..Len(nets), NEW b \in Bridge, NEW ends,
           Grow(n, b, ends),
           \A j \in 1..Len(nets) : j /= n => Ends(b) \cap nets[j].nodes = {}
    PROVE  SafeNets(nets') /\ behind' = <<>>
<1>1. PICK m \in Extended(nets[n], b, {}, {}) : nets' = [nets EXCEPT ![n] = m]
    BY DEF Grow
<1>2. nets[n] \in Net /\ SafeNets(nets)
    BY DEF NetsInv, SafeNets
<1>3. /\ m \in Net
      /\ nets[n].nodes \subseteq m.nodes
      /\ m.nodes \subseteq nets[n].nodes \cup Ends(b)
    BY <1>1, <1>2, ExtendedBounds
<1>4. behind' = <<>>
    BY DEF Grow, NetsInv
<1>. QED
    BY <1>1, <1>2, <1>3, <1>4, GrowSafe

LEMMA CreateKeeps ==
    ASSUME NetsInv, NEW b \in Bridge, createNewNet(b), ~dropped',
           \A j \in 1..Len(nets) : Ends(b) \cap nets[j].nodes = {}
    PROVE  SafeNets(nets') /\ behind' = <<>>
<1>. DEFINE m == [first |-> b[1], nodes |-> Ends(b), bridges |-> {b}]
<1>1. m \in Net
    BY DEF Net, Bridge, Ends
<1>2. m.nodes = Ends(b) /\ SafeNets(nets)
    BY DEF NetsInv
<1>3. nets' = Append(nets, m)
    BY CreateClean
<1>4. behind' = <<>>
    BY CreateClean
<1>. HIDE DEF m
<1>. QED
    BY <1>1, <1>2, <1>3, <1>4, AppendSafe

LEMMA MergeKeeps ==
    ASSUME NetsInv, NEW stays \in 1..Len(nets), NEW goes \in 1..Len(nets),
           stays /= goes, goes > Len(Rails), NEW b \in Bridge,
           Ends(b) \subseteq nets[stays].nodes \cup nets[goes].nodes,
           Merge(stays, goes, b), ~dropped'
    PROVE  SafeNets(nets') /\ behind' = <<>>
<1>0. /\ nets[stays] \in Net /\ nets[goes] \in Net /\ SafeNets(nets)
    BY DEF NetsInv, SafeNets
<1>1. /\ nets[stays] \in Net /\ SafeNets(nets)
      /\ nets[goes].nodes \in SUBSET Node /\ nets[goes].bridges \in SUBSET Bridge
    BY <1>0 DEF Net
<1>2. PICK m : /\ nets' = Without([nets EXCEPT ![stays] = m], goes)
               /\ Combined(m, nets[stays], b, nets[goes])
    BY MergeClean
<1>3. m \in Net /\ nets[stays].nodes \subseteq m.nodes
    BY <1>2 DEF Combined
<1>4. m.nodes \subseteq nets[stays].nodes \cup nets[goes].nodes
    BY <1>2 DEF Combined
<1>5. behind' = <<>>
    BY MergeClean
<1>. QED
    BY <1>1, <1>2, <1>3, <1>4, <1>5, MergeSafe

\* The rails' nets never refuse the node of a bridge: it would be a rail, and
\* all rails are in nets.
LEMMA NeverRefused ==
    ASSUME NetsInv, NEW i \in 1..Len(nets), NEW n, FoundNet(n) = 0
    PROVE  checkDoNotIntersectsByNode(i, n)
<1>1. SUFFICES ASSUME IsRailNet(i), n \in KeptOut[i] PROVE FALSE
    BY DEF checkDoNotIntersectsByNode
<1>2. Len(Rails) \in Nat
    BY NodesAssumption
<1>3. i \in 1..Len(Rails)
    BY <1>1, <1>2 DEF IsRailNet
<1>4. n \in Specials
    BY <1>1, <1>3, RulesAssumption
<1>5. PICK k \in 1..Len(Rails) : n = Rails[k]
    BY <1>4 DEF Specials
<1>6. Len(nets) \in Nat /\ Len(nets) >= Len(Rails)
    BY DEF NetsInv, SafeNets, RailsIn
<1>7. k \in 1..Len(nets)
    BY <1>2, <1>5, <1>6
<1>8. n \in nets[k].nodes
    BY <1>5, <1>7 DEF NetsInv, SafeNets, RailsIn
<1>. QED
    BY <1>7, <1>8, NotFound

LEMMA InitSafe == SafeNets(RailNets)
<1>0. Len(Rails) \in Nat /\ Rails \in [1..Len(Rails) -> Specials]
    BY NodesAssumption DEF Specials
<1>1. \A i \in 1..Len(Rails) : RailNet(i) \in Net /\ RailNet(i).nodes = {Rails[i]}
    BY <1>0 DEF RailNet, Net, Node
<1>2. RailNets \in [1..Len(Rails) -> Net]
    BY <1>1 DEF RailNets
<1>3. RailNets \in Seq(Net) /\ Len(RailNets) = Len(Rails)
    BY <1>0, <1>2
<1>4. \A i \in 1..Len(Rails) : RailNets[i].nodes = {Rails[i]}
    BY <1>1 DEF RailNets
<1>5. ApartIn(RailNets)
    BY <1>3, <1>4, NodesAssumption DEF ApartIn
<1>6. RailsIn(RailNets)
    BY <1>0, <1>3, <1>4, NodesAssumption DEF RailsIn
<1>. QED
    BY <1>3, <1>5, <1>6 DEF SafeNets

-----------------------------------------------------------------------------
(* The nets *)

LEMMA NetsInvInit == Init => NetsInv
BY TypeInit, InitSafe DEF Init, NetsInv

LEMMA SameNetKeeps ==
    ASSUME NetsInv, SameNet, ~dropped'
    PROVE  SafeNets(nets') /\ behind' = <<>>
<1>. DEFINE n == FoundNet(Taken[1])
<1>1. Taken \in Bridge
    BY TakenBridge DEF SameNet, NetsInv
<1>2. n > 0 /\ n = FoundNet(Taken[2]) /\ Grow(n, Taken, Ends(Taken))
    BY DEF SameNet, First, Second
<1>3. n \in 1..Len(nets) /\ Taken[1] \in nets[n].nodes
    BY <1>2, FoundIn
<1>4. Taken[2] \in nets[n].nodes
    BY <1>2, FoundIn
<1>5. \A j \in 1..Len(nets) : j /= n => Ends(Taken) \cap nets[j].nodes = {}
    BY <1>3, <1>4 DEF NetsInv, SafeNets, ApartIn, Ends
<1>. HIDE DEF n
<1>. QED
    BY <1>1, <1>2, <1>3, <1>5, GrowKeeps

LEMMA TwoNetsKeeps ==
    ASSUME NetsInv, TwoNets, ~dropped'
    PROVE  SafeNets(nets') /\ behind' = <<>>
<1>. DEFINE i == FoundNet(Taken[1])
            j == FoundNet(Taken[2])
<1>1. Taken \in Bridge
    BY TakenBridge DEF TwoNets, NetsInv
<1>2. /\ i > 0 /\ j > 0 /\ i /= j
      /\ ~(IsRailNet(i) /\ IsRailNet(j))
      /\ combineNets(i, j, Taken)
    BY DEF TwoNets, First, Second
<1>3. i \in 1..Len(nets) /\ Taken[1] \in nets[i].nodes
    BY <1>2, FoundIn
<1>4. j \in 1..Len(nets) /\ Taken[2] \in nets[j].nodes
    BY <1>2, FoundIn
<1>5. Ends(Taken) \subseteq nets[i].nodes \cup nets[j].nodes
    BY <1>3, <1>4 DEF Ends
<1>6. SafeNets(nets) /\ Len(Rails) \in Nat
    BY NodesAssumption DEF NetsInv
<1>. HIDE DEF i, j
<1>7. CASE LeaveOut
    BY <1>6, <1>7 DEF LeaveOut, NetsInv
<1>8. CASE ~IsRailNet(j) /\ Merge(i, j, Taken)
    <2>1. j > Len(Rails)
        BY <1>4, <1>6, <1>8 DEF IsRailNet
    <2>. QED
        BY <2>1, <1>1, <1>2, <1>3, <1>4, <1>5, <1>8, MergeKeeps
<1>9. CASE IsRailNet(j) /\ Merge(j, i, Taken)
    <2>1. i > Len(Rails)
        BY <1>2, <1>3, <1>6, <1>9 DEF IsRailNet
    <2>2. Ends(Taken) \subseteq nets[j].nodes \cup nets[i].nodes
        BY <1>5
    <2>. QED
        BY <2>1, <2>2, <1>1, <1>2, <1>3, <1>4, <1>9, MergeKeeps
<1>. QED
    BY <1>2, <1>7, <1>8, <1>9 DEF combineNets

\* One end in net i, the other in none: the net takes the bridge.
LEMMA JoinKeeps ==
    ASSUME NetsInv, NEW b \in Bridge, NEW i \in 1..Len(nets), NEW inside, NEW outside,
           Ends(b) = {inside, outside}, inside \in nets[i].nodes,
           FoundNet(outside) = 0, JoinNet(i, outside, b)
    PROVE  SafeNets(nets') /\ behind' = <<>>
<1>1. Grow(i, b, {outside})
    BY NeverRefused DEF JoinNet
<1>2. \A j \in 1..Len(nets) : outside \notin nets[j].nodes
    BY NotFound
<1>3. \A j \in 1..Len(nets) : j /= i => inside \notin nets[j].nodes
    BY DEF NetsInv, SafeNets, ApartIn
<1>4. \A j \in 1..Len(nets) : j /= i => Ends(b) \cap nets[j].nodes = {}
    BY <1>2, <1>3
<1>. QED
    BY <1>1, <1>4, GrowKeeps

LEMMA OneNetKeeps ==
    ASSUME NetsInv, OneNet, ~dropped'
    PROVE  SafeNets(nets') /\ behind' = <<>>
<1>. DEFINE i == FoundNet(Taken[1])
            j == FoundNet(Taken[2])
<1>1. Taken \in Bridge
    BY TakenBridge DEF OneNet, NetsInv
<1>2. Ends(Taken) = {Taken[1], Taken[2]} /\ Ends(Taken) = {Taken[2], Taken[1]}
    BY DEF Ends
<1>3. \/ i > 0 /\ j = 0 /\ JoinNet(i, Taken[2], Taken)
      \/ i = 0 /\ j > 0 /\ JoinNet(j, Taken[1], Taken)
    BY DEF OneNet, First, Second
<1>4. CASE i > 0 /\ j = 0 /\ JoinNet(i, Taken[2], Taken)
    <2>1. i \in 1..Len(nets) /\ Taken[1] \in nets[i].nodes
        BY <1>4, FoundIn
    <2>. QED
        BY <2>1, <1>1, <1>2, <1>4, JoinKeeps
<1>5. CASE i = 0 /\ j > 0 /\ JoinNet(j, Taken[1], Taken)
    <2>1. j \in 1..Len(nets) /\ Taken[2] \in nets[j].nodes
        BY <1>5, FoundIn
    <2>. QED
        BY <2>1, <1>1, <1>2, <1>5, JoinKeeps
<1>. QED
    BY <1>3, <1>4, <1>5

LEMMA NoNetKeeps ==
    ASSUME NetsInv, NoNet, ~dropped'
    PROVE  SafeNets(nets') /\ behind' = <<>>
<1>1. Taken \in Bridge
    BY TakenBridge DEF NoNet, NetsInv
<1>2. FoundNet(Taken[1]) = 0 /\ FoundNet(Taken[2]) = 0 /\ createNewNet(Taken)
    BY DEF NoNet, First, Second
<1>3. \A j \in 1..Len(nets) : Taken[1] \notin nets[j].nodes
    BY <1>2, NotFound
<1>4. \A j \in 1..Len(nets) : Taken[2] \notin nets[j].nodes
    BY <1>2, NotFound
<1>5. \A j \in 1..Len(nets) : Ends(Taken) \cap nets[j].nodes = {}
    BY <1>3, <1>4 DEF Ends
<1>. QED
    BY <1>1, <1>2, <1>5, CreateKeeps

LEMMA NetsInvStart ==
    ASSUME TypeOK, StartRefresh
    PROVE  NetsInv'
<1>1. TypeOK'
    BY TypeNext DEF Next
<1>2. nets' = RailNets /\ behind' = <<>>
    BY DEF StartRefresh
<1>. QED
    BY <1>1, <1>2, InitSafe DEF NetsInv

LEMMA NetsInvNext ==
    ASSUME NetsInv, [Next]_vars, ~dropped'
    PROVE  NetsInv'
<1>1. TypeOK'
    BY TypeNext DEF NetsInv
<1>2. ASSUME UNCHANGED <<nets, behind>> PROVE NetsInv'
    BY <1>1, <1>2 DEF NetsInv
<1>3. ASSUME SafeNets(nets') /\ behind' = <<>> PROVE NetsInv'
    BY <1>1, <1>3 DEF NetsInv
<1>4. CASE StartRefresh
    BY <1>4, NetsInvStart DEF NetsInv
<1>5. CASE SameNet
    BY <1>3, <1>5, SameNetKeeps
<1>6. CASE TwoNets
    BY <1>3, <1>6, TwoNetsKeeps
<1>7. CASE OneNet
    BY <1>3, <1>7, OneNetKeeps
<1>8. CASE NoNet
    BY <1>3, <1>8, NoNetKeeps
<1>. QED
    BY <1>2, <1>4, <1>5, <1>6, <1>7, <1>8
    DEF Next, vars, addConnection, removeConnection, setNetName, removeNetName,
        TwoRails, LeaveOut, FinishRefresh

\* The types always, and the rest as long as nothing is dropped; a refresh
\* starts from the rails' nets whatever was dropped before.
Tidy == TypeOK /\ (~dropped => NetsInv)

LEMMA TidyNext ==
    ASSUME Tidy, [Next]_vars
    PROVE  Tidy'
<1>1. TypeOK'
    BY TypeNext DEF Tidy
<1>2. ASSUME ~dropped' PROVE NetsInv'
    <2>1. CASE StartRefresh
        BY <2>1, NetsInvStart DEF Tidy
    <2>2. CASE ~StartRefresh
        BY <1>2, <2>2, DroppedBefore, NetsInvNext DEF Tidy
    <2>. QED
        BY <2>1, <2>2
<1>. QED
    BY <1>1, <1>2 DEF Tidy

LEMMA TidyInit == Init => Tidy
BY TypeInit, NetsInvInit DEF Tidy

LEMMA NetsAlwaysTidy == Spec => []Tidy
<1>1. Init => Tidy
    BY TidyInit
<1>2. Tidy /\ [Next]_vars => Tidy'
    BY TidyNext
<1>. QED
    BY <1>1, <1>2, PTL DEF Spec

\* Whatever is connected and in whatever order, at no point of a rebuild does
\* a node stand in two nets (searchExistingNets, combineNets, shiftNets),
\* unless the rebuild has met the end of an array.
THEOREM NodesNeverShared == Spec => []NodesApart
<1>1. Tidy => NodesApart
    BY DEF Tidy, NetsInv, SafeNets, ApartIn, NodesApart
<1>. QED
    BY <1>1, NetsAlwaysTidy, PTL

\* For every list of rails each rail keeps its net and its number, and no
\* sequence of bridges brings two rails into one net, unless the rebuild has
\* met the end of an array.
THEOREM RailsNeverJoined == Spec => []RailsApart
<1>1. Tidy => RailsApart
    BY DEF Tidy, NetsInv, SafeNets, RailsIn, RailsApart
<1>. QED
    BY <1>1, NetsAlwaysTidy, PTL

-----------------------------------------------------------------------------
(* Names *)

FirstsIn(N) == \A j \in 1..Len(N) : N[j].first \in N[j].nodes

Anchored == \A i \in 1..Len(names) : NetsOf(names[i].first) \subseteq {names[i].net}

\* A net that is extended keeps its first node, and with it its place 0.
LEMMA ExtendedFirst ==
    ASSUME NEW net \in Net, NEW b \in Bridge, NEW nodes \in SUBSET Node,
           NEW more \in SUBSET Bridge, NEW m \in Extended(net, b, nodes, more),
           net.first \in net.nodes
    PROVE  m.first \in m.nodes
<1>1. net.nodes \subseteq m.nodes
    BY ExtendedBounds
<1>2. m.first = net.first
    BY DEF Extended
<1>. QED
    BY <1>1, <1>2

LEMMA GrowFirst ==
    ASSUME NetsInv, FirstsIn(nets), NEW n \in 1..Len(nets), NEW b \in Bridge,
           NEW ends, Grow(n, b, ends)
    PROVE  FirstsIn(nets')
<1>1. PICK m \in Extended(nets[n], b, {}, {}) : nets' = [nets EXCEPT ![n] = m]
    BY DEF Grow
<1>2. nets \in Seq(Net) /\ nets[n] \in Net
    BY DEF NetsInv, SafeNets
<1>3. m.first \in m.nodes
    BY <1>1, <1>2, ExtendedFirst DEF FirstsIn
<1>4. Len(nets') = Len(nets)
    BY <1>1, <1>2
<1>5. \A j \in 1..Len(nets) : nets'[j] = IF j = n THEN m ELSE nets[j]
    BY <1>1, <1>2
<1>. QED
    BY <1>3, <1>4, <1>5 DEF FirstsIn

LEMMA CreateFirst ==
    ASSUME NetsInv, FirstsIn(nets), NEW b \in Bridge, createNewNet(b), ~dropped'
    PROVE  FirstsIn(nets')
<1>. DEFINE m == [first |-> b[1], nodes |-> Ends(b), bridges |-> {b}]
<1>1. nets' = Append(nets, m) /\ m.first \in m.nodes
    BY CreateClean DEF Ends
<1>2. nets \in Seq(Net)
    BY DEF NetsInv, SafeNets
<1>. HIDE DEF m
<1>3. Len(nets') = Len(nets) + 1 /\ Len(nets) \in Nat
    BY <1>1, <1>2
<1>4. \A j \in 1..Len(nets') : nets'[j] = IF j = Len(nets) + 1 THEN m ELSE nets[j]
    BY <1>1, <1>2
<1>. QED
    BY <1>1, <1>3, <1>4 DEF FirstsIn

LEMMA MergeFirst ==
    ASSUME NetsInv, FirstsIn(nets), NEW stays \in 1..Len(nets), NEW goes \in 1..Len(nets),
           NEW b \in Bridge, Merge(stays, goes, b), ~dropped'
    PROVE  FirstsIn(nets')
<1>1. nets \in Seq(Net) /\ nets[stays] \in Net /\ nets[goes] \in Net /\ Len(nets) \in Nat
    BY DEF NetsInv, SafeNets
<1>3. PICK m : /\ nets' = Without([nets EXCEPT ![stays] = m], goes)
               /\ Combined(m, nets[stays], b, nets[goes])
    BY MergeClean
<1>4. m \in Net /\ m.first \in m.nodes
    BY <1>3 DEF FirstsIn, Combined
<1>. DEFINE P == [nets EXCEPT ![stays] = m]
<1>5. P \in Seq(Net) /\ Len(P) = Len(nets)
    BY <1>1, <1>4, PutType
<1>6. \A j \in 1..Len(nets) : P[j].first \in P[j].nodes
    BY <1>1, <1>4 DEF FirstsIn
<1>7. nets' = Without(P, goes)
    BY <1>3
<1>. HIDE DEF P
<1>8. Len(nets') = Len(P) - 1
    BY <1>5, <1>7, WithoutLen
<1>9. \A k \in 1..(Len(P) - 1) : nets'[k] = IF k < goes THEN P[k] ELSE P[k + 1]
    BY <1>5, <1>7, WithoutAt
<1>10. ASSUME NEW k \in 1..Len(nets') PROVE nets'[k].first \in nets'[k].nodes
    <2>1. k \in 1..(Len(P) - 1) /\ k \in 1..Len(nets) /\ k + 1 \in 1..Len(nets)
        BY <1>1, <1>5, <1>8
    <2>. QED
        BY <2>1, <1>6, <1>9
<1>. QED
    BY <1>10 DEF FirstsIn

LEMMA RailsFirst == FirstsIn(RailNets)
<1>1. Len(RailNets) = Len(Rails)
    BY NodesAssumption DEF RailNets
<1>. QED
    BY <1>1 DEF FirstsIn, RailNets, RailNet

LEMMA FirstsNext ==
    ASSUME NetsInv, FirstsIn(nets), [Next]_vars, ~dropped'
    PROVE  FirstsIn(nets')
<1>0. \A n : FoundNet(n) > 0 => FoundNet(n) \in 1..Len(nets)
    BY FoundIn
<1>1. ASSUME nets' = nets PROVE FirstsIn(nets')
    BY <1>1
<1>2. CASE StartRefresh
    BY <1>2, RailsFirst DEF StartRefresh
<1>3. CASE SameNet
    BY <1>0, <1>3, TakenBridge, GrowFirst DEF SameNet, First, NetsInv
<1>4. CASE TwoNets
    BY <1>0, <1>1, <1>4, TakenBridge, MergeFirst DEF TwoNets, First, Second, combineNets, LeaveOut, NetsInv
<1>5. CASE OneNet
    BY <1>0, <1>5, TakenBridge, GrowFirst, CreateFirst DEF OneNet, First, Second, JoinNet, NetsInv
<1>6. CASE NoNet
    BY <1>6, TakenBridge, CreateFirst DEF NoNet, NetsInv
<1>. QED
    BY <1>1, <1>2, <1>3, <1>4, <1>5, <1>6
    DEF Next, vars, addConnection, removeConnection, setNetName, removeNetName,
        TwoRails, LeaveOut, FinishRefresh

\* At the end of a refresh each name that is left is on the net of its node.
LEMMA FinishAnchors ==
    ASSUME NetsInv, FinishRefresh
    PROVE  Anchored'
<1>. DEFINE kept == {i \in 1..Len(names) : findNodeInNet(names[i].first) > 0}
            n == Cardinality(kept)
<1>1. PICK place \in [1..n -> kept] : names' = [k \in 1..n |-> Reconciled(names[place[k]])]
    BY DEF FinishRefresh, reconcileAfterRebuild
<1>2. Len(names) \in Nat /\ \A i \in 1..Len(names) : names[i] \in Name
    BY DEF NetsInv, TypeOK
<1>3. IsFiniteSet(1..Len(names))
    BY <1>2, FS_Interval
<1>4. IsFiniteSet(kept)
    BY <1>3, FS_Subset
<1>5. n \in Nat
    BY <1>4, FS_CardinalityType
<1>6. kept \subseteq 1..Len(names)
    OBVIOUS
<1>. HIDE DEF n, kept
<1>7. Len(names') = n
    BY <1>1, <1>5
<1>8. nets' = nets
    BY DEF FinishRefresh
<1>9. ASSUME NEW k \in 1..n PROVE NetsOf(names'[k].first) \subseteq {names'[k].net}
    <2>. DEFINE e == names[place[k]]
    <2>1. e \in Name
        BY <1>1, <1>2, <1>6
    <2>2. names'[k] = Reconciled(e)
        BY <1>1
    <2>. HIDE DEF e
    <2>3. names'[k].first = e.first /\ names'[k].net = findNodeInNet(e.first)
        BY <2>1, <2>2 DEF Reconciled, Name
    <2>4. ASSUME NEW i \in NetsOf(e.first) PROVE i = findNodeInNet(e.first)
        <3>1. \A j \in NetsOf(e.first) : j = i
            BY <2>4 DEF NetsOf, NetsInv, SafeNets, ApartIn
        <3>2. i \in 1..Len(nets)
            BY <2>4 DEF NetsOf
        <3>3. \E l \in NetsOf(e.first) : \A j \in NetsOf(e.first) : l <= j
            BY <3>1, <3>2, <2>4
        <3>4. findNodeInNet(e.first) \in NetsOf(e.first)
            BY <2>4, <3>3, CleanNumbers DEF findNodeInNet
        <3>. QED
            BY <3>1, <3>4
    <2>. QED
        BY <2>3, <2>4
<1>10. \A m : NetsOf(m)' = NetsOf(m)
    BY <1>8 DEF NetsOf
<1>. QED
    BY <1>7, <1>9, <1>10 DEF Anchored

LEMMA AnchorsNext ==
    ASSUME NetsInv, FirstsIn(nets), next = 0 => Anchored, [Next]_vars
    PROVE  next' = 0 => Anchored'
<1>0. names \in Seq(Name) /\ nets \in Seq(Net)
    BY DEF TypeOK, NetsInv
<1>1. ASSUME next = 0, UNCHANGED <<nets, names>> PROVE Anchored'
    BY <1>1 DEF Anchored, NetsOf
<1>2. ASSUME NEW n \in NetNumbers, setNetName(n) PROVE Anchored'
    <2>. DEFINE given == [net |-> n, first |-> NetAt(n).first]
                there == {i \in 1..Len(names) : names[i].net = n}
                i == CHOOSE k \in there : \A l \in there : k <= l
    <2>0. n \in 1..Len(nets) /\ NetAt(n) = nets[n]
        BY CleanNumbers
    <2>1. \/ names' = Append(names, given)
          \/ names' = [names EXCEPT ![i] = given]
        BY <1>2 DEF setNetName
    <2>2. nets' = nets /\ Anchored
        BY <1>2 DEF setNetName
    <2>3. given.net = n /\ given.first \in nets[n].nodes
        BY <2>0 DEF FirstsIn
    <2>4. \A j \in NetsOf(given.first) : j = n
        BY <2>0, <2>3 DEF NetsOf, NetsInv, SafeNets, ApartIn
    <2>. HIDE DEF given, i
    <2>5. \A k \in 1..Len(names') : names'[k] = given \/ (k \in 1..Len(names) /\ names'[k] = names[k])
        <3>1. CASE names' = Append(names, given)
            BY <1>0, <3>1
        <3>2. CASE names' = [names EXCEPT ![i] = given]
            BY <1>0, <3>2
        <3>. QED
            BY <2>1, <3>1, <3>2
    <2>. QED
        BY <2>2, <2>3, <2>4, <2>5 DEF Anchored, NetsOf
<1>3. ASSUME NEW n \in NetNumbers, removeNetName(n) PROVE Anchored'
    <2>1. PICK i \in 1..Len(names) : names' = Without(names, i)
        BY <1>3 DEF removeNetName
    <2>2. nets' = nets /\ Anchored
        BY <1>3 DEF removeNetName
    <2>3. Len(names') = Len(names) - 1 /\ Len(names) \in Nat
        BY <1>0, <2>1, WithoutLen
    <2>4. \A k \in 1..(Len(names) - 1) : names'[k] = IF k < i THEN names[k] ELSE names[k + 1]
        BY <1>0, <2>1, WithoutAt
    <2>5. ASSUME NEW k \in 1..Len(names') PROVE \E l \in 1..Len(names) : names'[k] = names[l]
        <3>1. k \in 1..(Len(names) - 1) /\ k \in 1..Len(names) /\ k + 1 \in 1..Len(names)
            BY <2>3
        <3>. QED
            BY <2>4, <3>1
    <2>. QED
        BY <2>2, <2>5 DEF Anchored, NetsOf
<1>4. CASE StartRefresh
    BY <1>4 DEF StartRefresh
<1>5. ASSUME TakeBridge PROVE next' /= 0
    BY <1>5 DEF TakeBridge, NetsInv, TypeOK
<1>6. CASE FinishRefresh
    BY <1>6, FinishAnchors
<1>7. CASE UNCHANGED vars
    BY <1>1, <1>7 DEF vars
<1>8. ASSUME NEW b \in Connectable, addConnection(b) PROVE Anchored'
    BY <1>1, <1>8 DEF addConnection, CanEdit
<1>9. ASSUME NEW k \in 1..Len(bridges), removeConnection(k) PROVE Anchored'
    BY <1>1, <1>9 DEF removeConnection, CanEdit
<1>. QED
    BY <1>2, <1>3, <1>4, <1>5, <1>6, <1>7, <1>8, <1>9
    DEF Next, SameNet, TwoNets, TwoRails, OneNet, NoNet

LEMMA NamesNext ==
    ASSUME Tidy, ~dropped => FirstsIn(nets) /\ (next = 0 => Anchored), [Next]_vars, ~dropped'
    PROVE  FirstsIn(nets') /\ (next' = 0 => Anchored')
<1>1. CASE StartRefresh
    BY <1>1, RailsFirst DEF StartRefresh
<1>2. CASE ~StartRefresh
    <2>1. ~dropped
        BY <1>2, DroppedBefore
    <2>. QED
        BY <2>1, FirstsNext, AnchorsNext DEF Tidy
<1>. QED
    BY <1>1, <1>2

\* After every refresh that met the end of no array a custom name is on the
\* net that holds the node it was kept with, if any net does (setNetName,
\* reconcileAfterRebuild).
THEOREM NamesStayAnchored == Spec => []NamesAnchored
<1>. DEFINE Named == ~dropped => FirstsIn(nets) /\ (next = 0 => Anchored)
<1>1. Init => Tidy /\ Named
    BY TidyInit, RailsFirst DEF Init, Anchored
<1>2. Tidy /\ Named /\ [Next]_vars => (Tidy /\ Named)'
    <2>1. ASSUME Tidy, Named, [Next]_vars, ~dropped'
          PROVE  FirstsIn(nets)' /\ (next' = 0 => Anchored')
        BY <2>1, NamesNext DEF FirstsIn
    <2>. QED
        BY <2>1, TidyNext
<1>3. Tidy /\ Named => NamesAnchored
    BY DEF Anchored, NamesAnchored
<1>. QED
    BY <1>1, <1>2, <1>3, PTL DEF Spec

-----------------------------------------------------------------------------
(* What is reached *)

\* One step further from the nodes in S
Further(B, S) == S \cup UNION {Ends(b) : b \in {c \in B : Ends(c) \cap S /= {}}}

\* f holds, for each number of steps up to c, what is reached from n
Reaches(f, n, B, c) ==
    f = [k \in 0..c |-> IF k = 0 THEN {n} ELSE Further(B, f[k - 1])]

LEMMA ReachesMore ==
    ASSUME NEW n, NEW B, NEW c \in Nat, NEW f, Reaches(f, n, B, c)
    PROVE  \E g : Reaches(g, n, B, c + 1)
<1>. DEFINE at(k) == IF k = c + 1 THEN Further(B, f[c]) ELSE f[k]
            g == [k \in 0..(c + 1) |-> at(k)]
<1>1. \A k \in 0..c : f[k] = IF k = 0 THEN {n} ELSE Further(B, f[k - 1])
    BY DEF Reaches
<1>2. \A k \in 0..(c + 1) : at(k) = IF k = 0 THEN {n} ELSE Further(B, g[k - 1])
    <2>1. SUFFICES ASSUME NEW k \in 0..(c + 1)
                   PROVE  at(k) = IF k = 0 THEN {n} ELSE Further(B, g[k - 1])
        OBVIOUS
    <2>2. CASE k = 0
        BY <1>1, <2>2
    <2>3. CASE k \in 1..(c + 1)
        <3>1. k - 1 \in 0..c /\ k /= 0 /\ k - 1 \in 0..(c + 1) /\ k - 1 /= c + 1
            BY <2>3
        <3>2. g[k - 1] = f[k - 1]
            BY <3>1
        <3>3. at(k) = Further(B, f[k - 1])
            <4>1. CASE k = c + 1
                BY <4>1
            <4>2. CASE k \in 1..c
                BY <1>1, <4>2, <3>1
            <4>. QED
                BY <2>3, <4>1, <4>2
        <3>. QED
            BY <3>1, <3>2, <3>3
    <2>. QED
        BY <2>1, <2>2, <2>3
<1>. HIDE DEF at
<1>3. g = [k \in 0..(c + 1) |-> IF k = 0 THEN {n} ELSE Further(B, g[k - 1])]
    BY <1>2
<1>4. Reaches(g, n, B, c + 1)
    BY <1>3 DEF Reaches
<1>. QED
    BY <1>4

\* The recursion that Reached is written with defines a function.
LEMMA ReachesAll ==
    ASSUME NEW n, NEW B, NEW c \in Nat
    PROVE  \E f : Reaches(f, n, B, c)
<1>. DEFINE S == {k \in Nat : \E f : Reaches(f, n, B, k)}
<1>1. 0 \in S
    <2>. DEFINE g == [k \in 0..0 |-> {n}]
    <2>1. g = [k \in 0..0 |-> IF k = 0 THEN {n} ELSE Further(B, g[k - 1])]
        OBVIOUS
    <2>2. Reaches(g, n, B, 0)
        BY <2>1 DEF Reaches
    <2>. QED
        BY <2>2
<1>2. \A k \in Nat : k \in S => k + 1 \in S
    BY ReachesMore
<1>. HIDE DEF S
<1>3. c \in S
    BY <1>1, <1>2, AllNumbers
<1>. QED
    BY <1>3 DEF S

LEMMA ReachedIs ==
    ASSUME NEW n, NEW B, Cardinality(B) \in Nat
    PROVE  \E f : Reaches(f, n, B, Cardinality(B)) /\ Reached(n, B) = f[Cardinality(B)]
<1>. DEFINE f == CHOOSE g : Reaches(g, n, B, Cardinality(B))
<1>1. Reaches(f, n, B, Cardinality(B))
    BY ReachesAll
<1>2. Reached(n, B) = f[Cardinality(B)]
    BY DEF Reached, Reaches, Further
<1>. QED
    BY <1>1, <1>2

-----------------------------------------------------------------------------
(* Nets that are connected components *)

\* Whatever set of the net's nodes one takes, short of all or none, a bridge
\* of the net leads out of it.
Joined(net) ==
    \A S \in SUBSET net.nodes :
        S /= {} /\ S /= net.nodes =>
            \E b \in net.bridges : Ends(b) \cap S /= {} /\ ~(Ends(b) \subseteq S)

Whole(net) ==
    /\ net.first \in net.nodes
    /\ IsFiniteSet(net.bridges)
    /\ \A b \in net.bridges : Ends(b) \subseteq net.nodes
    /\ Joined(net)

\* In as many steps as there are bridges, all of a joined net is reached from
\* its first node, and nothing else: each step that is not the last one brings
\* a bridge inside that was not.
LEMMA WholeReached ==
    ASSUME NEW net, Whole(net)
    PROVE  net.nodes = Reached(net.first, net.bridges)
<1>. DEFINE n == net.first
            B == net.bridges
            V == net.nodes
            c == Cardinality(B)
            Inside(X) == {b \in B : Ends(b) \subseteq X}
<1>1. /\ n \in V /\ IsFiniteSet(B) /\ \A b \in B : Ends(b) \subseteq V
      /\ \A X \in SUBSET V : X /= {} /\ X /= V =>
            \E b \in B : Ends(b) \cap X /= {} /\ ~(Ends(b) \subseteq X)
    BY DEF Whole, Joined
<1>2. c \in Nat
    BY <1>1, FS_CardinalityType
<1>. HIDE DEF n, B, V
<1>3. \A X : IsFiniteSet(Inside(X)) /\ Cardinality(Inside(X)) \in Nat
    <2>1. SUFFICES ASSUME NEW X
                   PROVE  IsFiniteSet(Inside(X)) /\ Cardinality(Inside(X)) \in Nat
        OBVIOUS
    <2>2. Inside(X) \in SUBSET B
        OBVIOUS
    <2>3. IsFiniteSet(Inside(X))
        BY <1>1, <2>2, FS_Subset
    <2>. QED
        BY <2>3, FS_CardinalityType
<1>4. PICK f : Reaches(f, n, B, c) /\ Reached(n, B) = f[c]
    BY <1>2, ReachedIs
<1>5. \A k \in 0..c : f[k] = IF k = 0 THEN {n} ELSE Further(B, f[k - 1])
    BY <1>4 DEF Reaches
<1>. DEFINE Far(k) == /\ n \in f[k] /\ f[k] \subseteq V
                      /\ f[k] = V \/ Cardinality(Inside(f[k])) >= k
            S == {k \in Nat : k <= c => Far(k)}
<1>6. 0 \in S
    <2>. HIDE DEF Inside
    <2>1. f[0] = {n}
        BY <1>2, <1>5
    <2>2. Cardinality(Inside(f[0])) >= 0
        BY <1>3
    <2>3. Far(0)
        BY <1>1, <2>1, <2>2
    <2>. QED
        BY <2>3
<1>7. ASSUME NEW k \in Nat, k \in S PROVE k + 1 \in S
    <2>1. SUFFICES ASSUME k + 1 <= c PROVE Far(k + 1)
        OBVIOUS
    <2>2. k \in 0..c /\ k + 1 \in 0..c /\ k + 1 /= 0 /\ (k + 1) - 1 = k
        BY <1>2, <2>1
    <2>3. Far(k)
        BY <1>7, <2>2
    <2>4. f[k + 1] = Further(B, f[k])
        BY <1>5, <2>2
    <2>. DEFINE X == f[k]
                Y == f[k + 1]
    <2>5. n \in X /\ X \subseteq V /\ (X = V \/ Cardinality(Inside(X)) >= k)
        BY <2>3
    <2>6. Y = X \cup UNION {Ends(b) : b \in {d \in B : Ends(d) \cap X /= {}}}
        BY <2>4 DEF Further
    <2>. HIDE DEF X, Y
    <2>7. n \in Y /\ Y \subseteq V
        BY <1>1, <2>5, <2>6
    <2>8. CASE X = V
        BY <2>6, <2>7, <2>8 DEF Y
    <2>9. CASE X /= V
        <3>1. PICK b \in B : Ends(b) \cap X /= {} /\ ~(Ends(b) \subseteq X)
            BY <1>1, <2>5, <2>9
        <3>2. b \in Inside(Y) /\ b \notin Inside(X)
            BY <2>6, <3>1
        <3>3. Inside(X) \subseteq Inside(Y)
            BY <2>6
        <3>. HIDE DEF Inside
        <3>4. Cardinality(Inside(X) \cup {b}) = Cardinality(Inside(X)) + 1
            BY <1>3, <3>2, FS_AddElement
        <3>5. Inside(X) \cup {b} \in SUBSET Inside(Y)
            BY <3>2, <3>3
        <3>6. Cardinality(Inside(X) \cup {b}) <= Cardinality(Inside(Y))
            BY <1>3, <3>5, FS_Subset
        <3>7. Cardinality(Inside(X)) \in Nat /\ Cardinality(Inside(Y)) \in Nat
            BY <1>3
        <3>8. Cardinality(Inside(Y)) >= k + 1
            BY <2>5, <2>9, <3>4, <3>6, <3>7
        <3>. QED
            BY <2>7, <3>8 DEF Y
    <2>. QED
        BY <2>8, <2>9
<1>8. Far(c)
    <2>. HIDE DEF Far
    <2>1. Nat \subseteq S
        BY <1>6, <1>7, AllNumbers
    <2>. QED
        BY <1>2, <2>1
<1>9. f[c] = V
    <2>1. CASE f[c] = V
        BY <2>1
    <2>2. CASE Cardinality(Inside(f[c])) >= c
        <3>1. Inside(f[c]) \in SUBSET B
            OBVIOUS
        <3>2. Cardinality(Inside(f[c])) <= c /\ (c = Cardinality(Inside(f[c])) => B = Inside(f[c]))
            BY <1>1, <3>1, FS_Subset
        <3>3. Cardinality(Inside(f[c])) \in Nat
            BY <1>3
        <3>4. B = Inside(f[c])
            BY <1>2, <2>2, <3>2, <3>3
        <3>5. \A b \in B : Ends(b) \subseteq f[c]
            BY <3>4
        <3>. QED
            BY <1>1, <1>8, <3>5
    <2>. QED
        BY <1>8, <2>1, <2>2
<1>. QED
    BY <1>4, <1>9 DEF n, B, V

\* A rail's net before any bridge
LEMMA RailWhole == \A i \in 1..Len(Rails) : Whole(RailNet(i))
BY FS_EmptySet DEF RailNet, Whole, Joined

\* A net made of one bridge
LEMMA NewWhole ==
    ASSUME NEW b
    PROVE  Whole([first |-> b[1], nodes |-> Ends(b), bridges |-> {b}])
<1>. DEFINE m == [first |-> b[1], nodes |-> Ends(b), bridges |-> {b}]
<1>1. m.first \in m.nodes /\ m.nodes = {b[1], b[2]}
    BY DEF Ends
<1>2. m.bridges = {b} /\ m.nodes = Ends(b)
    OBVIOUS
<1>. HIDE DEF m
<1>3. IsFiniteSet(m.bridges)
    BY <1>2, FS_Singleton
<1>4. Joined(m)
    BY <1>1, <1>2 DEF Joined
<1>. QED
    BY <1>1, <1>2, <1>3, <1>4 DEF Whole, m

\* A net that takes a bridge of which it has an end
LEMMA GrownWhole ==
    ASSUME NEW net, NEW m, NEW b, Whole(net), Ends(b) \cap net.nodes /= {},
           m.first = net.first, m.nodes = net.nodes \cup Ends(b),
           m.bridges = net.bridges \cup {b}
    PROVE  Whole(m)
<1>1. IsFiniteSet(m.bridges)
    BY FS_AddElement DEF Whole
<1>2. ASSUME NEW S \in SUBSET m.nodes, S /= {}, S /= m.nodes
      PROVE  \E d \in m.bridges : Ends(d) \cap S /= {} /\ ~(Ends(d) \subseteq S)
    <2>. DEFINE T == S \cap net.nodes
    <2>1. CASE T = {}
        BY <1>2, <2>1
    <2>2. CASE T = net.nodes
        BY <1>2, <2>2
    <2>3. CASE T /= {} /\ T /= net.nodes
        <3>1. PICK d \in net.bridges : Ends(d) \cap T /= {} /\ ~(Ends(d) \subseteq T)
            BY <2>3 DEF Whole, Joined
        <3>2. Ends(d) \subseteq net.nodes
            BY <3>1 DEF Whole
        <3>. QED
            BY <3>1, <3>2
    <2>. QED
        BY <2>1, <2>2, <2>3
<1>3. \A d \in m.bridges : Ends(d) \subseteq m.nodes
    BY DEF Whole
<1>4. m.first \in m.nodes
    BY DEF Whole
<1>. QED
    BY <1>1, <1>2, <1>3, <1>4 DEF Whole, Joined

\* Two nets joined by a bridge between them
LEMMA MergedWhole ==
    ASSUME NEW x, NEW y, NEW m, NEW b, Whole(x), Whole(y),
           Ends(b) \cap x.nodes /= {}, Ends(b) \cap y.nodes /= {},
           Ends(b) \subseteq x.nodes \cup y.nodes,
           m.first = x.first, m.nodes = x.nodes \cup Ends(b) \cup y.nodes,
           m.bridges = x.bridges \cup {b} \cup y.bridges
    PROVE  Whole(m)
<1>1. IsFiniteSet(m.bridges)
    <2>1. IsFiniteSet(x.bridges \cup {b}) /\ IsFiniteSet(y.bridges)
        BY FS_AddElement DEF Whole
    <2>2. IsFiniteSet((x.bridges \cup {b}) \cup y.bridges)
        BY <2>1, FS_Union
    <2>. QED
        BY <2>2
<1>2. ASSUME NEW S \in SUBSET m.nodes, S /= {}, S /= m.nodes
      PROVE  \E d \in m.bridges : Ends(d) \cap S /= {} /\ ~(Ends(d) \subseteq S)
    <2>1. ASSUME NEW z, Whole(z), z.bridges \subseteq m.bridges,
                 S \cap z.nodes /= {}, S \cap z.nodes /= z.nodes
          PROVE  \E d \in m.bridges : Ends(d) \cap S /= {} /\ ~(Ends(d) \subseteq S)
        <3>1. PICK d \in z.bridges : /\ Ends(d) \cap (S \cap z.nodes) /= {}
                                     /\ ~(Ends(d) \subseteq (S \cap z.nodes))
            BY <2>1 DEF Whole, Joined
        <3>2. Ends(d) \subseteq z.nodes
            BY <2>1, <3>1 DEF Whole
        <3>. QED
            BY <2>1, <3>1, <3>2
    <2>2. x.bridges \subseteq m.bridges /\ y.bridges \subseteq m.bridges /\ b \in m.bridges
        OBVIOUS
    <2>3. CASE S \cap x.nodes /= {} /\ S \cap x.nodes /= x.nodes
        BY <2>1, <2>2, <2>3
    <2>4. CASE S \cap y.nodes /= {} /\ S \cap y.nodes /= y.nodes
        BY <2>1, <2>2, <2>4
    <2>5. CASE /\ S \cap x.nodes = {} \/ S \cap x.nodes = x.nodes
               /\ S \cap y.nodes = {} \/ S \cap y.nodes = y.nodes
        <3>1. Ends(b) \cap S /= {} /\ ~(Ends(b) \subseteq S)
            <4>1. ~(S \cap x.nodes = {} /\ S \cap y.nodes = {})
                BY <1>2
            <4>2. ~(S \cap x.nodes = x.nodes /\ S \cap y.nodes = y.nodes)
                BY <1>2
            <4>. QED
                BY <2>5, <4>1, <4>2
        <3>. QED
            BY <2>2, <3>1
    <2>. QED
        BY <2>3, <2>4, <2>5
<1>3. \A d \in m.bridges : Ends(d) \subseteq m.nodes
    BY DEF Whole
<1>4. m.first \in m.nodes
    BY DEF Whole
<1>. QED
    BY <1>1, <1>2, <1>3, <1>4 DEF Whole, Joined

-----------------------------------------------------------------------------
(* The steps of a refresh keep each net whole and place each bridge *)

\* The bridge lies between two rails, whose nets are not combined.
Between(N, b) ==
    \E i, j \in 1..Len(Rails) : i /= j /\ b[1] \in N[i].nodes /\ b[2] \in N[j].nodes

InNet(N, b) == \E i \in 1..Len(N) : b \in N[i].bridges

PlacedIn(N, B) ==
    /\ \A i \in 1..Len(N) : Whole(N[i]) /\ N[i].bridges \subseteq B
    /\ \A b \in B : InNet(N, b) \/ Between(N, b)

Placed == edits = 0 /\ ~dropped => PlacedIn(nets, BridgesTaken)

PathsCopied ==
    next = 0 /\ edits = 0 =>
        paths = UNION {{i} \X nets[i].bridges : i \in 1..Len(nets) \ {LastNumber}}

\* What is asked of nets in M that come of those in N by taking bridge b
LEMMA PlacedNext ==
    ASSUME NEW N, NEW M, NEW B, NEW b, PlacedIn(N, B),
           \A i \in 1..Len(M) : Whole(M[i]) /\ M[i].bridges \subseteq B \cup {b},
           \A d \in B : InNet(N, d) => InNet(M, d),
           \A i \in 1..Len(Rails) : N[i].nodes \subseteq M[i].nodes,
           InNet(M, b) \/ Between(M, b)
    PROVE  PlacedIn(M, B \cup {b})
<1>1. ASSUME NEW d \in B PROVE InNet(M, d) \/ Between(M, d)
    <2>1. CASE InNet(N, d)
        BY <2>1
    <2>2. CASE Between(N, d)
        BY <2>2 DEF Between
    <2>. QED
        BY <2>1, <2>2 DEF PlacedIn
<1>. QED
    BY <1>1 DEF PlacedIn

LEMMA GrowPlaced ==
    ASSUME NEW N \in Seq(Net), Len(N) >= Len(Rails), NEW B, PlacedIn(N, B),
           NEW n \in 1..Len(N), NEW b, NEW m \in Net, Ends(b) \cap N[n].nodes /= {},
           m.first = N[n].first, m.nodes = N[n].nodes \cup Ends(b),
           m.bridges = N[n].bridges \cup {b}
    PROVE  PlacedIn([N EXCEPT ![n] = m], B \cup {b})
<1>. DEFINE M == [N EXCEPT ![n] = m]
<1>1. Len(M) = Len(N) /\ Len(N) \in Nat /\ Len(Rails) \in Nat
    BY PutType, NodesAssumption
<1>2. \A i \in 1..Len(N) : M[i] = IF i = n THEN m ELSE N[i]
    OBVIOUS
<1>3. \A i \in 1..Len(N) : Whole(N[i]) /\ N[i].bridges \subseteq B
    BY DEF PlacedIn
<1>. HIDE DEF M
<1>4. Whole(m)
    BY <1>3, GrownWhole
<1>5. ASSUME NEW i \in 1..Len(M) PROVE Whole(M[i]) /\ M[i].bridges \subseteq B \cup {b}
    BY <1>1, <1>2, <1>3, <1>4, <1>5
<1>6. \A i \in 1..Len(N) : N[i].bridges \subseteq M[i].bridges
    BY <1>2
<1>7. \A d \in B : InNet(N, d) => InNet(M, d)
    BY <1>1, <1>6 DEF InNet
<1>8. \A i \in 1..Len(Rails) : N[i].nodes \subseteq M[i].nodes
    <2>1. \A i \in 1..Len(Rails) : i \in 1..Len(N)
        BY <1>1
    <2>. QED
        BY <2>1, <1>2
<1>9. InNet(M, b)
    BY <1>1, <1>2 DEF InNet
<1>10. PlacedIn(M, B \cup {b})
    BY <1>5, <1>7, <1>8, <1>9, PlacedNext
<1>. QED
    BY <1>10 DEF M

LEMMA AppendPlaced ==
    ASSUME NEW N \in Seq(Net), Len(N) >= Len(Rails), NEW B, PlacedIn(N, B),
           NEW m \in Net, NEW b, Whole(m), m.bridges = {b}
    PROVE  PlacedIn(Append(N, m), B \cup {b})
<1>. DEFINE M == Append(N, m)
<1>1. Len(M) = Len(N) + 1 /\ Len(N) \in Nat /\ Len(Rails) \in Nat
    BY NodesAssumption
<1>2. M[Len(N) + 1] = m /\ \A i \in 1..Len(N) : M[i] = N[i]
    OBVIOUS
<1>3. \A i \in 1..Len(N) : Whole(N[i]) /\ N[i].bridges \subseteq B
    BY DEF PlacedIn
<1>. HIDE DEF M
<1>4. \A i \in 1..Len(M) : i = Len(N) + 1 \/ i \in 1..Len(N)
    BY <1>1
<1>5. ASSUME NEW i \in 1..Len(M) PROVE Whole(M[i]) /\ M[i].bridges \subseteq B \cup {b}
    BY <1>2, <1>3, <1>4, <1>5
<1>6. \A i \in 1..Len(N) : i \in 1..Len(M)
    BY <1>1
<1>7. \A d \in B : InNet(N, d) => InNet(M, d)
    BY <1>2, <1>6 DEF InNet
<1>8. \A i \in 1..Len(Rails) : N[i].nodes \subseteq M[i].nodes
    <2>1. \A i \in 1..Len(Rails) : i \in 1..Len(N)
        BY <1>1
    <2>. QED
        BY <2>1, <1>2
<1>9. Len(N) + 1 \in 1..Len(M) /\ b \in M[Len(N) + 1].bridges
    BY <1>1, <1>2
<1>10. InNet(M, b)
    BY <1>9 DEF InNet
<1>11. PlacedIn(M, B \cup {b})
    BY <1>5, <1>7, <1>8, <1>10, PlacedNext
<1>. QED
    BY <1>11 DEF M

LEMMA MergePlaced ==
    ASSUME NEW N \in Seq(Net), Len(N) >= Len(Rails), NEW B, PlacedIn(N, B),
           NEW stays \in 1..Len(N), NEW goes \in 1..Len(N), stays /= goes,
           goes > Len(Rails), NEW b, NEW m \in Net,
           Ends(b) \cap N[stays].nodes /= {}, Ends(b) \cap N[goes].nodes /= {},
           Ends(b) \subseteq N[stays].nodes \cup N[goes].nodes,
           m.first = N[stays].first,
           m.nodes = N[stays].nodes \cup Ends(b) \cup N[goes].nodes,
           m.bridges = N[stays].bridges \cup {b} \cup N[goes].bridges
    PROVE  PlacedIn(Without([N EXCEPT ![stays] = m], goes), B \cup {b})
<1>. DEFINE P == [N EXCEPT ![stays] = m]
            M == Without(P, goes)
            Old(k) == IF k < goes THEN k ELSE k + 1
            New(k) == IF k < goes THEN k ELSE k - 1
<1>1. /\ P \in Seq(Net) /\ Len(P) = Len(N) /\ Len(N) \in Nat /\ Len(Rails) \in Nat
      /\ \A i \in 1..Len(N) : P[i] = IF i = stays THEN m ELSE N[i]
    BY PutType, NodesAssumption
<1>. HIDE DEF P
<1>2. Len(M) = Len(N) - 1
    BY <1>1, WithoutLen
<1>3. \A k \in 1..(Len(N) - 1) : M[k] = P[Old(k)]
    BY <1>1, WithoutAt
<1>. HIDE DEF M
<1>4. \A k \in 1..(Len(N) - 1) : Old(k) \in 1..Len(N) /\ Old(k) /= goes
    BY <1>1
<1>5. \A i \in 1..Len(N) : i /= goes => New(i) \in 1..(Len(N) - 1) /\ Old(New(i)) = i
    BY <1>1
<1>6. \A i \in 1..Len(Rails) : i \in 1..Len(N) /\ i /= goes /\ New(i) = i
    BY <1>1
<1>. HIDE DEF Old, New
<1>7. \A i \in 1..Len(N) : i /= goes => New(i) \in 1..Len(M) /\ M[New(i)] = P[i]
    BY <1>2, <1>3, <1>5
<1>8. \A i \in 1..Len(N) : Whole(N[i]) /\ N[i].bridges \subseteq B
    BY DEF PlacedIn
<1>9. Whole(m)
    BY <1>8, MergedWhole
<1>10. ASSUME NEW k \in 1..Len(M) PROVE Whole(M[k]) /\ M[k].bridges \subseteq B \cup {b}
    <2>1. k \in 1..(Len(N) - 1) /\ Old(k) \in 1..Len(N) /\ M[k] = P[Old(k)]
        BY <1>2, <1>3, <1>4
    <2>2. CASE Old(k) = stays
        BY <1>1, <1>8, <1>9, <2>1, <2>2
    <2>3. CASE Old(k) /= stays
        BY <1>1, <1>8, <2>1, <2>3
    <2>. QED
        BY <2>2, <2>3
<1>11. InNet(M, b)
    BY <1>1, <1>7 DEF InNet
<1>12. ASSUME NEW d \in B, InNet(N, d) PROVE InNet(M, d)
    <2>1. PICK i \in 1..Len(N) : d \in N[i].bridges
        BY <1>12 DEF InNet
    <2>2. CASE i = goes \/ i = stays
        <3>1. d \in P[stays].bridges
            BY <1>1, <2>1, <2>2
        <3>. QED
            BY <1>7, <3>1 DEF InNet
    <2>3. CASE i /= goes /\ i /= stays
        <3>1. d \in P[i].bridges
            BY <1>1, <2>1, <2>3
        <3>. QED
            BY <1>7, <2>3, <3>1 DEF InNet
    <2>. QED
        BY <2>2, <2>3
<1>13. ASSUME NEW i \in 1..Len(Rails) PROVE N[i].nodes \subseteq M[i].nodes
    <2>1. i \in 1..Len(N) /\ M[i] = P[i]
        BY <1>6, <1>7
    <2>. QED
        BY <1>1, <2>1
<1>14. PlacedIn(M, B \cup {b})
    BY <1>10, <1>11, <1>12, <1>13, PlacedNext
<1>. QED
    BY <1>14 DEF M, P

-----------------------------------------------------------------------------
(* What each action does to the nets when nothing is left out *)

\* A node of a net is found there.
LEMMA FoundAt ==
    ASSUME NetsInv, NEW i \in 1..Len(nets), NEW n \in nets[i].nodes
    PROVE  FoundNet(n) = i
<1>1. i \in NetsOf(n)
    BY DEF NetsOf
<1>2. \A j \in NetsOf(n) : j = i
    BY DEF NetsOf, NetsInv, SafeNets, ApartIn
<1>3. \E k \in NetsOf(n) : \A j \in NetsOf(n) : j <= k
    BY <1>1, <1>2
<1>4. FoundNet(n) \in NetsOf(n)
    BY <1>1, <1>3 DEF FoundNet
<1>. QED
    BY <1>2, <1>4

\* The nets of two bridges' ends are never kept apart by the rails' lists
\* unless both are rails' nets: only those hold rails.
LEMMA NetsNeverRefused ==
    ASSUME NetsInv, NEW i \in 1..Len(nets), NEW j \in 1..Len(nets),
           ~(IsRailNet(i) /\ IsRailNet(j)), i /= j
    PROVE  checkDoNotIntersectsByNet(i, j)
<1>1. Len(Rails) \in Nat /\ Len(nets) \in Nat /\ RailsIn(nets)
    BY NodesAssumption DEF NetsInv, SafeNets
<1>2. ASSUME NEW k \in 1..Len(nets), NEW l \in 1..Len(nets), k /= l,
             ~(IsRailNet(k) /\ IsRailNet(l)), NEW n \in nets[l].nodes
      PROVE  checkDoNotIntersectsByNode(k, n)
    <2>1. SUFFICES ASSUME IsRailNet(k), n \in KeptOut[k] PROVE FALSE
        BY DEF checkDoNotIntersectsByNode
    <2>2. k \in 1..Len(Rails) /\ l \notin 1..Len(Rails)
        BY <1>1, <1>2, <2>1 DEF IsRailNet
    <2>3. n \in Specials
        BY <2>1, <2>2, RulesAssumption
    <2>4. PICK r \in 1..Len(Rails) : n = Rails[r]
        BY <2>3 DEF Specials
    <2>5. r = l
        BY <1>1, <2>4 DEF RailsIn
    <2>. QED
        BY <2>2, <2>5
<1>. QED
    BY <1>2 DEF checkDoNotIntersectsByNet

LEMMA TakenNext ==
    ASSUME TypeOK, TakeBridge
    PROVE  BridgesTaken' = BridgesTaken \cup {Taken} /\ edits' = edits /\ next' /= 0
<1>1. next \in 1..Len(bridges) /\ next' = next + 1 /\ bridges' = bridges /\ edits' = edits
    BY DEF TakeBridge
<1>2. next' /= 0 /\ next /= 0 /\ next' - 1 = next
    BY <1>1
<1>3. BridgesTaken' = {bridges[i] : i \in 1..next}
    BY <1>1, <1>2 DEF BridgesTaken
<1>4. BridgesTaken = {bridges[i] : i \in 1..(next - 1)}
    BY <1>2 DEF BridgesTaken
<1>5. 1..next = (1..(next - 1)) \cup {next}
    BY <1>1
<1>. QED
    BY <1>1, <1>2, <1>3, <1>4, <1>5 DEF Taken

LEMMA GrowTakes ==
    ASSUME NetsInv, NEW B, PlacedIn(nets, B), NEW n \in 1..Len(nets), NEW b \in Bridge,
           NEW ends, Grow(n, b, ends), ~dropped', Ends(b) \cap nets[n].nodes /= {}
    PROVE  ~dropped /\ PlacedIn(nets', B \cup {b})
<1>1. PICK m \in Extended(nets[n], b, {}, {}) :
        /\ nets' = [nets EXCEPT ![n] = m]
        /\ dropped' = (dropped \/ ~FitsIn(m, nets[n], b, {}, {}))
    BY DEF Grow
<1>2. ~dropped /\ FitsIn(m, nets[n], b, {}, {})
    BY <1>1
<1>3. nets \in Seq(Net) /\ Len(nets) >= Len(Rails) /\ nets[n] \in Net
    BY DEF NetsInv, SafeNets, RailsIn
<1>4. m \in Net
    BY <1>1, <1>3, ExtendedBounds
<1>5. m.first = nets[n].first
    BY <1>1 DEF Extended
<1>6. m.nodes = nets[n].nodes \cup Ends(b) /\ m.bridges = nets[n].bridges \cup {b}
    BY <1>2 DEF FitsIn
<1>. QED
    BY <1>1, <1>2, <1>3, <1>4, <1>5, <1>6, GrowPlaced

LEMMA CreateTakes ==
    ASSUME NetsInv, NEW B, PlacedIn(nets, B), NEW b \in Bridge, createNewNet(b), ~dropped'
    PROVE  ~dropped /\ PlacedIn(nets', B \cup {b})
<1>. DEFINE m == [first |-> b[1], nodes |-> Ends(b), bridges |-> {b}]
<1>1. nets' = Append(nets, m) /\ ~dropped
    BY CreateClean
<1>2. m \in Net /\ m.bridges = {b}
    BY DEF Net, Bridge, Ends
<1>3. nets \in Seq(Net) /\ Len(nets) >= Len(Rails)
    BY DEF NetsInv, SafeNets, RailsIn
<1>4. Whole(m)
    BY NewWhole
<1>. HIDE DEF m
<1>. QED
    BY <1>1, <1>2, <1>3, <1>4, AppendPlaced

LEMMA MergeTakes ==
    ASSUME NetsInv, NEW B, PlacedIn(nets, B), NEW stays \in 1..Len(nets),
           NEW goes \in 1..Len(nets), stays /= goes, goes > Len(Rails), NEW b \in Bridge,
           Merge(stays, goes, b), ~dropped',
           Ends(b) \cap nets[stays].nodes /= {}, Ends(b) \cap nets[goes].nodes /= {},
           Ends(b) \subseteq nets[stays].nodes \cup nets[goes].nodes
    PROVE  ~dropped /\ PlacedIn(nets', B \cup {b})
<1>1. PICK m : /\ nets' = Without([nets EXCEPT ![stays] = m], goes)
               /\ Combined(m, nets[stays], b, nets[goes])
    BY MergeClean
<1>2. ~dropped
    BY MergeClean
<1>3. nets \in Seq(Net) /\ Len(nets) >= Len(Rails)
    BY DEF NetsInv, SafeNets, RailsIn
<1>. QED
    BY <1>1, <1>2, <1>3, MergePlaced DEF Combined

-----------------------------------------------------------------------------
(* The actions *)

LEMMA SameNetPlaces ==
    ASSUME NetsInv, NEW B, PlacedIn(nets, B), SameNet, ~dropped'
    PROVE  ~dropped /\ PlacedIn(nets', B \cup {Taken})
<1>. DEFINE n == FoundNet(Taken[1])
<1>1. Taken \in Bridge
    BY TakenBridge DEF SameNet, NetsInv
<1>2. n > 0 /\ Grow(n, Taken, Ends(Taken))
    BY DEF SameNet, First
<1>3. n \in 1..Len(nets) /\ Taken[1] \in nets[n].nodes
    BY <1>2, FoundIn
<1>4. Ends(Taken) \cap nets[n].nodes /= {}
    BY <1>3 DEF Ends
<1>. HIDE DEF n
<1>. QED
    BY <1>1, <1>2, <1>3, <1>4, GrowTakes

LEMMA TwoNetsPlaces ==
    ASSUME NetsInv, NEW B, PlacedIn(nets, B), TwoNets, ~dropped'
    PROVE  ~dropped /\ PlacedIn(nets', B \cup {Taken})
<1>. DEFINE i == FoundNet(Taken[1])
            j == FoundNet(Taken[2])
<1>1. Taken \in Bridge
    BY TakenBridge DEF TwoNets, NetsInv
<1>2. /\ i > 0 /\ j > 0 /\ i /= j
      /\ ~(IsRailNet(i) /\ IsRailNet(j))
      /\ combineNets(i, j, Taken)
    BY DEF TwoNets, First, Second
<1>3. i \in 1..Len(nets) /\ Taken[1] \in nets[i].nodes
    BY <1>2, FoundIn
<1>4. j \in 1..Len(nets) /\ Taken[2] \in nets[j].nodes
    BY <1>2, FoundIn
<1>. HIDE DEF i, j
<1>5. /\ Ends(Taken) \cap nets[i].nodes /= {} /\ Ends(Taken) \cap nets[j].nodes /= {}
      /\ Ends(Taken) \subseteq nets[i].nodes \cup nets[j].nodes
      /\ Ends(Taken) \subseteq nets[j].nodes \cup nets[i].nodes
    BY <1>3, <1>4 DEF Ends
<1>6. Len(Rails) \in Nat
    BY NodesAssumption
<1>7. checkDoNotIntersectsByNet(i, j)
    BY <1>2, <1>3, <1>4, NetsNeverRefused
<1>8. CASE ~IsRailNet(j) /\ Merge(i, j, Taken)
    <2>1. j > Len(Rails)
        BY <1>4, <1>6, <1>8 DEF IsRailNet
    <2>. QED
        BY <2>1, <1>1, <1>2, <1>3, <1>4, <1>5, <1>8, MergeTakes
<1>9. CASE IsRailNet(j) /\ Merge(j, i, Taken)
    <2>1. i > Len(Rails)
        BY <1>2, <1>3, <1>6, <1>9 DEF IsRailNet
    <2>. QED
        BY <2>1, <1>1, <1>2, <1>3, <1>4, <1>5, <1>9, MergeTakes
<1>. QED
    BY <1>2, <1>7, <1>8, <1>9 DEF combineNets

LEMMA TwoRailsPlaces ==
    ASSUME NetsInv, NEW B, PlacedIn(nets, B), TwoRails, ~dropped'
    PROVE  ~dropped /\ PlacedIn(nets', B \cup {Taken})
<1>. DEFINE i == FoundNet(Taken[1])
            j == FoundNet(Taken[2])
<1>1. nets' = nets /\ ~dropped
    BY DEF TwoRails, LeaveOut
<1>2. i > 0 /\ j > 0 /\ i /= j /\ IsRailNet(i) /\ IsRailNet(j)
    BY DEF TwoRails, First, Second
<1>3. /\ i \in 1..Len(nets) /\ Taken[1] \in nets[i].nodes
      /\ j \in 1..Len(nets) /\ Taken[2] \in nets[j].nodes
    BY <1>2, FoundIn
<1>. HIDE DEF i, j
<1>4. i \in 1..Len(Rails) /\ j \in 1..Len(Rails)
    BY <1>2, <1>3, NodesAssumption DEF IsRailNet
<1>5. Between(nets, Taken)
    BY <1>2, <1>3, <1>4 DEF Between
<1>. QED
    BY <1>1, <1>5 DEF PlacedIn

LEMMA OneNetPlaces ==
    ASSUME NetsInv, NEW B, PlacedIn(nets, B), OneNet, ~dropped'
    PROVE  ~dropped /\ PlacedIn(nets', B \cup {Taken})
<1>. DEFINE i == FoundNet(Taken[1])
            j == FoundNet(Taken[2])
<1>1. Taken \in Bridge
    BY TakenBridge DEF OneNet, NetsInv
<1>2. \/ i > 0 /\ j = 0 /\ JoinNet(i, Taken[2], Taken)
      \/ i = 0 /\ j > 0 /\ JoinNet(j, Taken[1], Taken)
    BY DEF OneNet, First, Second
<1>3. CASE i > 0 /\ j = 0 /\ JoinNet(i, Taken[2], Taken)
    <2>1. i \in 1..Len(nets) /\ Taken[1] \in nets[i].nodes
        BY <1>3, FoundIn
    <2>2. Grow(i, Taken, {Taken[2]})
        BY <1>3, <2>1, NeverRefused DEF JoinNet
    <2>3. Ends(Taken) \cap nets[i].nodes /= {}
        BY <2>1 DEF Ends
    <2>. QED
        BY <1>1, <2>1, <2>2, <2>3, GrowTakes
<1>4. CASE i = 0 /\ j > 0 /\ JoinNet(j, Taken[1], Taken)
    <2>1. j \in 1..Len(nets) /\ Taken[2] \in nets[j].nodes
        BY <1>4, FoundIn
    <2>2. Grow(j, Taken, {Taken[1]})
        BY <1>4, <2>1, NeverRefused DEF JoinNet
    <2>3. Ends(Taken) \cap nets[j].nodes /= {}
        BY <2>1 DEF Ends
    <2>. QED
        BY <1>1, <2>1, <2>2, <2>3, GrowTakes
<1>. QED
    BY <1>2, <1>3, <1>4

LEMMA NoNetPlaces ==
    ASSUME NetsInv, NEW B, PlacedIn(nets, B), NoNet, ~dropped'
    PROVE  ~dropped /\ PlacedIn(nets', B \cup {Taken})
BY TakenBridge, CreateTakes DEF NoNet, NetsInv

LEMMA TakePlaces ==
    ASSUME Tidy, Placed, [Next]_vars,
           SameNet \/ TwoNets \/ TwoRails \/ OneNet \/ NoNet
    PROVE  Placed'
<1>1. SUFFICES ASSUME edits' = 0, ~dropped' PROVE PlacedIn(nets', BridgesTaken')
    BY DEF Placed, PlacedIn, Between, InNet
<1>2. TakeBridge
    BY DEF SameNet, TwoNets, TwoRails, OneNet, NoNet
<1>3. BridgesTaken' = BridgesTaken \cup {Taken} /\ edits = 0
    BY <1>1, <1>2, TakenNext DEF Tidy
<1>4. ~StartRefresh
    BY <1>2 DEF TakeBridge, StartRefresh
<1>5. ~dropped /\ NetsInv
    BY <1>1, <1>4, DroppedBefore DEF Tidy
<1>6. PlacedIn(nets, BridgesTaken)
    BY <1>3, <1>5 DEF Placed
<1>7. PlacedIn(nets', BridgesTaken \cup {Taken})
    BY <1>1, <1>5, <1>6, SameNetPlaces, TwoNetsPlaces, TwoRailsPlaces, OneNetPlaces, NoNetPlaces
<1>. QED
    BY <1>3, <1>7

LEMMA RailsPlaced == PlacedIn(RailNets, {})
<1>1. Len(RailNets) = Len(Rails)
    BY NodesAssumption DEF RailNets
<1>2. \A i \in 1..Len(Rails) : RailNets[i] = RailNet(i) /\ RailNet(i).bridges = {}
    BY DEF RailNets, RailNet
<1>. QED
    BY <1>1, <1>2, RailWhole DEF PlacedIn

LEMMA StartPlaces ==
    ASSUME StartRefresh
    PROVE  Placed'
<1>1. nets' = RailNets /\ next' = 1
    BY DEF StartRefresh
<1>2. BridgesTaken' = {}
    BY <1>1 DEF BridgesTaken
<1>. QED
    BY <1>1, <1>2, RailsPlaced DEF Placed, PlacedIn, Between, InNet

LEMMA FinishPlaces ==
    ASSUME TypeOK, Placed, FinishRefresh
    PROVE  Placed' /\ PathsCopied'
<1>1. /\ next = Len(bridges) + 1 /\ next' = 0 /\ Len(bridges) \in Nat
      /\ UNCHANGED <<bridges, nets, edits, dropped>>
    BY DEF FinishRefresh, TypeOK
<1>2. BridgesTaken' = BridgesTaken
    BY <1>1 DEF BridgesTaken
<1>3. Placed'
    BY <1>1, <1>2 DEF Placed, PlacedIn, Between, InNet
<1>4. PathsCopied'
    BY <1>1 DEF PathsCopied, FinishRefresh, sortPathsByNet
<1>. QED
    BY <1>3, <1>4

LEMMA PlacedStep ==
    ASSUME Tidy, Placed, PathsCopied, [Next]_vars
    PROVE  Placed' /\ PathsCopied'
<1>1. ASSUME edits' /= 0 PROVE Placed' /\ PathsCopied'
    BY <1>1 DEF Placed, PathsCopied
<1>2. ASSUME UNCHANGED <<bridges, nets, next, paths, edits, dropped>>
      PROVE  Placed' /\ PathsCopied'
    BY <1>2 DEF Placed, PathsCopied, PlacedIn, Between, InNet, BridgesTaken
<1>3. ASSUME edits' = edits + 1 PROVE Placed' /\ PathsCopied'
    BY <1>1, <1>3 DEF Tidy, TypeOK
<1>4. CASE StartRefresh
    <2>1. next' = 1
        BY <1>4 DEF StartRefresh
    <2>. QED
        BY <1>4, <2>1, StartPlaces DEF PathsCopied
<1>5. CASE SameNet \/ TwoNets \/ TwoRails \/ OneNet \/ NoNet
    <2>1. next' /= 0
        BY <1>5, TakenNext DEF SameNet, TwoNets, TwoRails, OneNet, NoNet, Tidy
    <2>. QED
        BY <1>5, <2>1, TakePlaces DEF PathsCopied
<1>6. CASE FinishRefresh
    BY <1>6, FinishPlaces DEF Tidy
<1>7. CASE UNCHANGED vars
    BY <1>2, <1>7 DEF vars
<1>8. ASSUME NEW b \in Connectable, addConnection(b) PROVE Placed' /\ PathsCopied'
    BY <1>3, <1>8 DEF addConnection
<1>9. ASSUME NEW i \in 1..Len(bridges), removeConnection(i) PROVE Placed' /\ PathsCopied'
    BY <1>3, <1>9 DEF removeConnection
<1>10. ASSUME NEW n \in NetNumbers, setNetName(n) \/ removeNetName(n)
       PROVE  Placed' /\ PathsCopied'
    BY <1>2, <1>10 DEF setNetName, removeNetName
<1>. QED
    BY <1>4, <1>5, <1>6, <1>7, <1>8, <1>9, <1>10 DEF Next

LEMMA PlacedInit == Init => Placed /\ PathsCopied
<1>1. SUFFICES ASSUME Init PROVE Placed /\ PathsCopied
    OBVIOUS
<1>2. nets = RailNets /\ bridges = <<>> /\ next = 0 /\ paths = {}
    BY <1>1 DEF Init
<1>3. BridgesTaken = {}
    BY <1>2 DEF BridgesTaken
<1>4. Placed
    BY <1>2, <1>3, RailsPlaced DEF Placed
<1>5. PathsCopied
    <2>1. \A i \in 1..Len(RailNets) : RailNets[i].bridges = {}
        BY RailsPlaced DEF PlacedIn
    <2>. QED
        BY <1>2, <2>1 DEF PathsCopied
<1>. QED
    BY <1>4, <1>5

LEMMA AlwaysPlaced == Spec => [](Tidy /\ Placed /\ PathsCopied)
<1>. DEFINE Inv == Tidy /\ Placed /\ PathsCopied
<1>1. Init => Inv
    BY TidyInit, PlacedInit
<1>2. Inv /\ [Next]_vars => Inv'
    BY TidyNext, PlacedStep
<1>. QED
    BY <1>1, <1>2, PTL DEF Spec

\* Every net is, at every point of a rebuild, the connected component of its
\* first node over its bridges, and every bridge taken is in a net or lies
\* between two rails, unless the end of an array was met (searchExistingNets,
\* combineNets): what is reached in as many steps as there are bridges is all
\* of the net, for nets of any size.
THEOREM NetsStayComponents == Spec => []NetsAreComponents
<1>1. Placed => NetsAreComponents
    BY WholeReached DEF Placed, PlacedIn, InNet, Between, NetsAreComponents
<1>. QED
    BY <1>1, AlwaysPlaced, PTL

\* After a refresh that met the end of no array the router is handed each
\* bridge of the list that has its ends in one net but the one under the last
\* number, under that net's number, and nothing else.
THEOREM PathsStayBridges == Spec => []PathsAreBridges
<1>1. ASSUME Tidy, Placed, PathsCopied PROVE PathsAreBridges
    <2>1. SUFFICES ASSUME next = 0, edits = 0, ~dropped
                   PROVE  /\ \A p \in paths : /\ p[2] \in BridgesTaken
                                              /\ Ends(p[2]) \subseteq nets[p[1]].nodes
                          /\ \A b \in BridgesTaken :
                                FoundNet(b[1]) = FoundNet(b[2])
                                /\ FoundNet(b[1]) < LastNumber
                                => <<FoundNet(b[1]), b>> \in paths
        BY DEF PathsAreBridges
    <2>2. paths = UNION {{i} \X nets[i].bridges : i \in 1..Len(nets) \ {LastNumber}}
        BY <1>1, <2>1 DEF PathsCopied
    <2>3. PlacedIn(nets, BridgesTaken) /\ NetsInv
        BY <1>1, <2>1 DEF Placed, Tidy
    <2>4. \A i \in 1..Len(nets) : \A b \in nets[i].bridges :
            b \in BridgesTaken /\ Ends(b) \subseteq nets[i].nodes
        BY <2>3 DEF PlacedIn, Whole
    <2>5. ASSUME NEW p \in paths
          PROVE  p[2] \in BridgesTaken /\ Ends(p[2]) \subseteq nets[p[1]].nodes
        BY <2>2, <2>4
    <2>6. ASSUME NEW b \in BridgesTaken, FoundNet(b[1]) = FoundNet(b[2]),
                 FoundNet(b[1]) < LastNumber
          PROVE  <<FoundNet(b[1]), b>> \in paths
        <3>1. CASE InNet(nets, b)
            <4>1. PICK i \in 1..Len(nets) : b \in nets[i].bridges
                BY <3>1 DEF InNet
            <4>2. b[1] \in nets[i].nodes
                BY <2>4, <4>1 DEF Ends
            <4>3. FoundNet(b[1]) = i
                BY <2>3, <4>2, FoundAt
            <4>4. i /= LastNumber
                BY <2>6, <4>3, Numbers
            <4>. QED
                BY <2>2, <4>1, <4>3, <4>4
        <3>2. CASE Between(nets, b)
            <4>1. PICK i, j \in 1..Len(Rails) :
                    i /= j /\ b[1] \in nets[i].nodes /\ b[2] \in nets[j].nodes
                BY <3>2 DEF Between
            <4>2. i \in 1..Len(nets) /\ j \in 1..Len(nets)
                BY <2>3, NetsTyped, NodesAssumption DEF NetsInv, SafeNets, RailsIn
            <4>3. FoundNet(b[1]) = i /\ FoundNet(b[2]) = j
                BY <2>3, <4>1, <4>2, FoundAt
            <4>. QED
                BY <2>6, <4>1, <4>3
        <3>. QED
            BY <2>3, <3>1, <3>2 DEF PlacedIn
    <2>. QED
        BY <2>5, <2>6
<1>2. Tidy /\ Placed /\ PathsCopied => PathsAreBridges
    BY <1>1
<1>. QED
    BY <1>2, AlwaysPlaced, PTL

-----------------------------------------------------------------------------
(* Short lists *)

\* A net has at most one node more than bridges.
Sized(net) ==
    /\ IsFiniteSet(net.nodes)
    /\ IsFiniteSet(net.bridges)
    /\ Cardinality(net.nodes) <= Cardinality(net.bridges) + 1

\* How many bridges the nets were built from
CountTaken == IF next = 0 THEN Len(bridges) ELSE next - 1

SizedIn(N, count) ==
    /\ \A i \in 1..Len(N) : Sized(N[i])
    /\ Len(N) <= Len(Rails) + count

Short == edits = 0 /\ Fits(Len(bridges)) => ~dropped /\ SizedIn(nets, CountTaken)

\* A net that takes a bridge of which it has an end
LEMMA GrownSized ==
    ASSUME NEW net, Sized(net), NEW b, Ends(b) \cap net.nodes /= {},
           \A d \in net.bridges : Ends(d) \subseteq net.nodes
    PROVE  /\ IsFiniteSet(net.nodes \cup Ends(b))
           /\ IsFiniteSet(net.bridges \cup {b})
           /\ Cardinality(net.nodes \cup Ends(b)) <= Cardinality(net.bridges \cup {b}) + 1
<1>. DEFINE V == net.nodes
            B == net.bridges
            c == Cardinality(V)
            d == Cardinality(B)
<1>1. IsFiniteSet(V) /\ IsFiniteSet(B) /\ c \in Nat /\ d \in Nat /\ c <= d + 1
    BY FS_CardinalityType DEF Sized
<1>2. PICK x : Ends(b) \ V \subseteq {x} /\ x \in Ends(b)
    BY DEF Ends
<1>3. IsFiniteSet(B \cup {b}) /\ Cardinality(B \cup {b}) = (IF b \in B THEN d ELSE d + 1)
    BY <1>1, FS_AddElement
<1>4. CASE Ends(b) \subseteq V
    <2>1. V \cup Ends(b) = V
        BY <1>4
    <2>2. IsFiniteSet(V \cup Ends(b)) /\ Cardinality(V \cup Ends(b)) = c
        BY <1>1, <2>1
    <2>3. d <= Cardinality(B \cup {b})
        BY <1>1, <1>3
    <2>4. c <= Cardinality(B \cup {b}) + 1
        <3>1. Cardinality(B \cup {b}) \in Nat
            BY <1>3, FS_CardinalityType
        <3>. HIDE DEF c, d
        <3>. QED
            BY <1>1, <2>3, <3>1
    <2>. QED
        BY <1>3, <2>2, <2>4
<1>5. CASE ~(Ends(b) \subseteq V)
    <2>1. V \cup Ends(b) = V \cup {x} /\ x \notin V
        BY <1>2, <1>5
    <2>2. b \notin B
        BY <1>5
    <2>3. IsFiniteSet(V \cup {x}) /\ Cardinality(V \cup {x}) = c + 1
        BY <1>1, <2>1, FS_AddElement
    <2>. QED
        BY <1>1, <1>3, <2>1, <2>2, <2>3
<1>. QED
    BY <1>4, <1>5

\* Two nets without a common node, joined by a bridge between them
LEMMA MergedSized ==
    ASSUME NEW x, NEW y, Sized(x), Sized(y), x.nodes \cap y.nodes = {}, NEW b,
           Ends(b) \cap x.nodes /= {}, Ends(b) \cap y.nodes /= {},
           Ends(b) \subseteq x.nodes \cup y.nodes,
           \A d \in x.bridges : Ends(d) \subseteq x.nodes,
           \A d \in y.bridges : Ends(d) \subseteq y.nodes
    PROVE  /\ IsFiniteSet(x.nodes \cup Ends(b) \cup y.nodes)
           /\ IsFiniteSet(x.bridges \cup {b} \cup y.bridges)
           /\ Cardinality(x.nodes \cup Ends(b) \cup y.nodes)
                <= Cardinality(x.bridges \cup {b} \cup y.bridges) + 1
<1>. DEFINE V == x.nodes
            W == y.nodes
            B == x.bridges
            C == y.bridges
<1>1. /\ IsFiniteSet(V) /\ IsFiniteSet(W) /\ IsFiniteSet(B) /\ IsFiniteSet(C)
      /\ Cardinality(V) \in Nat /\ Cardinality(W) \in Nat
      /\ Cardinality(B) \in Nat /\ Cardinality(C) \in Nat
      /\ Cardinality(V) <= Cardinality(B) + 1 /\ Cardinality(W) <= Cardinality(C) + 1
    BY FS_CardinalityType DEF Sized
<1>2. b \notin B /\ b \notin C
    OBVIOUS
<1>3. B \cap C = {}
    <2>1. SUFFICES ASSUME NEW d \in B, d \in C PROVE FALSE
        OBVIOUS
    <2>2. Ends(d) \subseteq V /\ Ends(d) \subseteq W /\ d[1] \in Ends(d)
        BY <2>1 DEF Ends
    <2>. QED
        BY <2>2
<1>4. V \cup Ends(b) \cup W = V \cup W
    OBVIOUS
<1>5. IsFiniteSet(V \cup W) /\ Cardinality(V \cup W) = Cardinality(V) + Cardinality(W)
    <2>1. /\ IsFiniteSet(V \cup W)
          /\ Cardinality(V \cup W)
                = Cardinality(V) + Cardinality(W) - Cardinality(V \cap W)
        BY <1>1, FS_Union
    <2>2. Cardinality(V \cap W) = 0
        BY FS_EmptySet
    <2>. QED
        BY <1>1, <2>1, <2>2
<1>6. IsFiniteSet(B \cup {b}) /\ Cardinality(B \cup {b}) = Cardinality(B) + 1
    BY <1>1, <1>2, FS_AddElement
<1>7. /\ IsFiniteSet((B \cup {b}) \cup C)
      /\ Cardinality((B \cup {b}) \cup C) = Cardinality(B) + 1 + Cardinality(C)
    <2>1. /\ IsFiniteSet((B \cup {b}) \cup C)
          /\ Cardinality((B \cup {b}) \cup C)
                = Cardinality(B \cup {b}) + Cardinality(C) - Cardinality((B \cup {b}) \cap C)
        BY <1>1, <1>6, FS_Union
    <2>2. (B \cup {b}) \cap C = {}
        BY <1>2, <1>3
    <2>3. Cardinality((B \cup {b}) \cap C) = 0
        BY <2>2, FS_EmptySet
    <2>. QED
        BY <1>1, <1>6, <2>1, <2>3
<1>8. IsFiniteSet(V \cup Ends(b) \cup W) /\ IsFiniteSet((B \cup {b}) \cup C)
    BY <1>4, <1>5, <1>7
<1>9. Cardinality(V \cup Ends(b) \cup W) = Cardinality(V) + Cardinality(W)
    BY <1>4, <1>5
<1>10. Cardinality(V \cup Ends(b) \cup W) <= Cardinality((B \cup {b}) \cup C) + 1
    <2>. DEFINE v == Cardinality(V)
                w == Cardinality(W)
                m == Cardinality(B)
                n == Cardinality(C)
                all == Cardinality(V \cup Ends(b) \cup W)
                taken == Cardinality((B \cup {b}) \cup C)
    <2>1. /\ v \in Nat /\ w \in Nat /\ m \in Nat /\ n \in Nat
          /\ v <= m + 1 /\ w <= n + 1 /\ all = v + w /\ taken = m + 1 + n
        BY <1>1, <1>7, <1>9
    <2>. HIDE DEF v, w, m, n, all, taken
    <2>2. all <= taken + 1
        BY <2>1
    <2>. QED
        BY <2>2 DEF all, taken
<1>. QED
    BY <1>8, <1>10

\* The bridges taken are no more than were taken.
LEMMA FewTaken ==
    ASSUME TypeOK
    PROVE  /\ CountTaken \in Nat /\ CountTaken <= Len(bridges)
           /\ IsFiniteSet(BridgesTaken)
           /\ Cardinality(BridgesTaken) <= CountTaken
<1>1. CountTaken \in Nat /\ CountTaken <= Len(bridges)
    BY DEF TypeOK, CountTaken
<1>2. BridgesTaken = {bridges[i] : i \in 1..CountTaken}
    BY DEF BridgesTaken, CountTaken
<1>3. IsFiniteSet(1..CountTaken) /\ Cardinality(1..CountTaken) = CountTaken
    BY <1>1, FS_Interval
<1>4. /\ IsFiniteSet({bridges[i] : i \in 1..CountTaken})
      /\ Cardinality({bridges[i] : i \in 1..CountTaken}) <= Cardinality(1..CountTaken)
    <2>. DEFINE f == [i \in 1..CountTaken |-> bridges[i]]
    <2>1. f \in Surjection(1..CountTaken, BridgesTaken)
        BY <1>2 DEF Surjection
    <2>2. IsFiniteSet(BridgesTaken) /\ Cardinality(BridgesTaken) <= Cardinality(1..CountTaken)
        BY <1>3, <2>1, FS_Surjection
    <2>. QED
        BY <1>2, <2>2
<1>. QED
    BY <1>1, <1>2, <1>3, <1>4

\* Where there is room, all that is added is there.
LEMMA AllAdded ==
    ASSUME NEW S, IsFiniteSet(S), NEW held, NEW more, NEW length \in Nat,
           held \cup more \subseteq S, Cardinality(S) <= length
    PROVE  Added(held, more, length) = {held \cup more}
<1>1. /\ Cardinality(held \cup more) <= Cardinality(S)
      /\ Cardinality(held \cup more) \in Nat /\ Cardinality(S) \in Nat
    BY FS_Subset, FS_CardinalityType
<1>2. Cardinality(held \cup more) <= length
    BY <1>1
<1>. QED
    BY <1>2 DEF Added

LEMMA AllHeld ==
    ASSUME NEW net, NEW b, NEW nodes, NEW more,
           IsFiniteSet(net.nodes \cup Ends(b) \cup nodes),
           Cardinality(net.nodes \cup Ends(b) \cup nodes) <= MaxNodes,
           IsFiniteSet(net.bridges \cup {b} \cup more),
           Cardinality(net.bridges \cup {b} \cup more) <= MaxNetBridges,
           NEW m \in Extended(net, b, nodes, more)
    PROVE  FitsIn(m, net, b, nodes, more)
<1>1. MaxNodes \in Nat /\ MaxNetBridges \in Nat
    BY BoundsAssumption
<1>2. PICK n \in NodesHeld(net, b, nodes), s \in BridgesHeld(net, b, more) :
        m = [first |-> net.first, nodes |-> n, bridges |-> s]
    BY DEF Extended
<1>3. Added(net.nodes, Ends(b), MaxNodes) = {net.nodes \cup Ends(b)}
    BY <1>1, AllAdded
<1>4. Added(net.nodes \cup Ends(b), nodes, MaxNodes) = {net.nodes \cup Ends(b) \cup nodes}
    BY <1>1, AllAdded
<1>5. n = net.nodes \cup Ends(b) \cup nodes
    BY <1>2, <1>3, <1>4 DEF NodesHeld
<1>6. Added(net.bridges, {b}, MaxNetBridges) = {net.bridges \cup {b}}
    BY <1>1, AllAdded
<1>7. Added(net.bridges \cup {b}, more, MaxNetBridges) = {net.bridges \cup {b} \cup more}
    BY <1>1, AllAdded
<1>8. s = net.bridges \cup {b} \cup more
    BY <1>2, <1>6, <1>7 DEF BridgesHeld
<1>. QED
    BY <1>2, <1>5, <1>8 DEF FitsIn

\* How much room count bridges leave
LEMMA Room ==
    ASSUME NEW count \in Nat, NEW length \in Nat, Fits(length), count <= length,
           NEW S, NEW T, IsFiniteSet(S), IsFiniteSet(T),
           Cardinality(T) <= count, Cardinality(S) <= Cardinality(T) + 1
    PROVE  Cardinality(T) <= MaxNetBridges /\ Cardinality(S) <= MaxNodes
<1>1. Cardinality(S) \in Nat /\ Cardinality(T) \in Nat
    BY FS_CardinalityType
<1>2. MaxNodes \in Nat /\ MaxNetBridges \in Nat
    BY BoundsAssumption
<1>. QED
    BY <1>1, <1>2 DEF Fits

LEMMA GrowShort ==
    ASSUME NetsInv, NEW B, PlacedIn(nets, B), NEW c \in Nat, SizedIn(nets, c),
           NEW length \in Nat, Fits(length), c + 1 <= length,
           NEW b \in Bridge, IsFiniteSet(B \cup {b}), Cardinality(B \cup {b}) <= c + 1,
           NEW n \in 1..Len(nets), NEW ends, Grow(n, b, ends), ~dropped,
           Ends(b) \cap nets[n].nodes /= {}
    PROVE  ~dropped' /\ SizedIn(nets', c + 1)
<1>. DEFINE x == nets[n]
            V == x.nodes \cup Ends(b)
            E == x.bridges \cup {b}
<1>1. PICK m \in Extended(x, b, {}, {}) :
        /\ nets' = [nets EXCEPT ![n] = m]
        /\ dropped' = (dropped \/ ~FitsIn(m, x, b, {}, {}))
    BY DEF Grow
<1>2. Sized(x) /\ Whole(x) /\ x.bridges \subseteq B
    BY DEF SizedIn, PlacedIn
<1>3. IsFiniteSet(V) /\ IsFiniteSet(E) /\ Cardinality(V) <= Cardinality(E) + 1
    BY <1>2, GrownSized DEF Whole
<1>4. Cardinality(E) <= c + 1
    <2>1. E \subseteq B \cup {b}
        BY <1>2
    <2>2. /\ Cardinality(E) <= Cardinality(B \cup {b})
          /\ Cardinality(E) \in Nat /\ Cardinality(B \cup {b}) \in Nat
        BY <1>3, <2>1, FS_Subset, FS_CardinalityType
    <2>. QED
        BY <2>2
<1>5. Cardinality(E) <= MaxNetBridges /\ Cardinality(V) <= MaxNodes
    BY <1>3, <1>4, Room
<1>6. FitsIn(m, x, b, {}, {})
    <2>1. x.nodes \cup Ends(b) \cup {} = V /\ x.bridges \cup {b} \cup {} = E
        OBVIOUS
    <2>2. /\ IsFiniteSet(x.nodes \cup Ends(b) \cup {})
          /\ Cardinality(x.nodes \cup Ends(b) \cup {}) <= MaxNodes
          /\ IsFiniteSet(x.bridges \cup {b} \cup {})
          /\ Cardinality(x.bridges \cup {b} \cup {}) <= MaxNetBridges
        BY <1>3, <1>5, <2>1
    <2>. QED
        BY <1>1, <2>2, AllHeld
<1>7. m.nodes = V /\ m.bridges = E
    BY <1>6 DEF FitsIn
<1>8. Sized(m)
    BY <1>3, <1>7 DEF Sized
<1>9. nets \in Seq(Net) /\ Len(nets) \in Nat /\ Len(Rails) \in Nat
    BY NetsTyped, NodesAssumption DEF NetsInv
<1>10. Len(nets') = Len(nets) /\ \A i \in 1..Len(nets) : nets'[i] = IF i = n THEN m ELSE nets[i]
    BY <1>1, <1>9
<1>11. Len(nets') <= Len(Rails) + (c + 1)
    BY <1>9, <1>10 DEF SizedIn
<1>12. \A i \in 1..Len(nets') : Sized(nets'[i])
    BY <1>8, <1>10 DEF SizedIn
<1>. QED
    BY <1>1, <1>6, <1>11, <1>12 DEF SizedIn

LEMMA CreateShort ==
    ASSUME NetsInv, NEW c \in Nat, SizedIn(nets, c),
           NEW length \in Nat, Fits(length), c + 1 <= length,
           NEW b \in Bridge, createNewNet(b), ~dropped
    PROVE  ~dropped' /\ SizedIn(nets', c + 1)
<1>. DEFINE m == [first |-> b[1], nodes |-> Ends(b), bridges |-> {b}]
<1>1. nets \in Seq(Net) /\ Len(nets) \in Nat /\ Len(Rails) \in Nat
    BY NetsTyped, NodesAssumption DEF NetsInv
<1>2. Len(nets) < LastNumber
    BY <1>1, Numbers DEF SizedIn, Fits
<1>3. ~dropped'
    BY <1>1, <1>2, Numbers DEF createNewNet
<1>4. nets' = Append(nets, m)
    BY <1>3, CreateClean
<1>5. Sized(m)
    <2>1. m.nodes = {b[1]} \cup {b[2]} /\ m.bridges = {b}
        BY DEF Ends
    <2>2. IsFiniteSet({b[1]}) /\ Cardinality({b[1]}) = 1
        BY FS_Singleton
    <2>3. IsFiniteSet({b[1]} \cup {b[2]}) /\ Cardinality({b[1]} \cup {b[2]}) <= 2
        BY <2>2, FS_AddElement
    <2>4. IsFiniteSet({b}) /\ Cardinality({b}) = 1
        BY FS_Singleton
    <2>. HIDE DEF m
    <2>. QED
        BY <2>1, <2>3, <2>4 DEF Sized
<1>. HIDE DEF m
<1>6. /\ Len(nets') = Len(nets) + 1
      /\ \A i \in 1..Len(nets') : IF i = Len(nets) + 1 THEN nets'[i] = m
                                  ELSE i \in 1..Len(nets) /\ nets'[i] = nets[i]
    BY <1>1, <1>4
<1>7. Len(nets') <= Len(Rails) + (c + 1)
    BY <1>1, <1>6 DEF SizedIn
<1>8. \A i \in 1..Len(nets') : Sized(nets'[i])
    BY <1>5, <1>6 DEF SizedIn
<1>. QED
    BY <1>3, <1>7, <1>8 DEF SizedIn

LEMMA MergeShort ==
    ASSUME NetsInv, NEW B, PlacedIn(nets, B), NEW c \in Nat, SizedIn(nets, c),
           NEW length \in Nat, Fits(length), c + 1 <= length,
           NEW b \in Bridge, IsFiniteSet(B \cup {b}), Cardinality(B \cup {b}) <= c + 1,
           NEW stays \in 1..Len(nets), NEW goes \in 1..Len(nets), stays /= goes,
           Merge(stays, goes, b), ~dropped,
           Ends(b) \cap nets[stays].nodes /= {}, Ends(b) \cap nets[goes].nodes /= {},
           Ends(b) \subseteq nets[stays].nodes \cup nets[goes].nodes
    PROVE  ~dropped' /\ SizedIn(nets', c + 1)
<1>. DEFINE x == nets[stays]
            y == nets[goes]
            V == x.nodes \cup Ends(b) \cup y.nodes
            E == x.bridges \cup {b} \cup y.bridges
<1>1. nets \in Seq(Net) /\ Len(nets) \in Nat /\ Len(Rails) \in Nat
    BY NetsTyped, NodesAssumption DEF NetsInv
<1>2. /\ Sized(x) /\ Whole(x) /\ x.bridges \subseteq B
      /\ Sized(y) /\ Whole(y) /\ y.bridges \subseteq B
    BY DEF SizedIn, PlacedIn
<1>3. x.nodes \cap y.nodes = {}
    BY DEF NetsInv, SafeNets, ApartIn
<1>4. IsFiniteSet(V) /\ IsFiniteSet(E) /\ Cardinality(V) <= Cardinality(E) + 1
    BY <1>2, <1>3, MergedSized DEF Whole
<1>5. Cardinality(E) <= c + 1
    <2>1. E \subseteq B \cup {b}
        BY <1>2
    <2>2. /\ Cardinality(E) <= Cardinality(B \cup {b})
          /\ Cardinality(E) \in Nat /\ Cardinality(B \cup {b}) \in Nat
        BY <1>4, <2>1, FS_Subset, FS_CardinalityType
    <2>. QED
        BY <2>2
<1>6. Cardinality(E) <= MaxNetBridges /\ Cardinality(V) <= MaxNodes
    BY <1>4, <1>5, Room
<1>7. Len(nets) /= LastNumber
    BY <1>1, Numbers DEF SizedIn, Fits
<1>8. PICK m \in Extended(x, b, y.nodes, y.bridges) :
        dropped' = \/ dropped
                   \/ ~FitsIn(m, x, b, y.nodes, y.bridges)
                   \/ Len(nets) = LastNumber
    BY DEF Merge
<1>9. FitsIn(m, x, b, y.nodes, y.bridges)
    BY <1>4, <1>6, <1>8, AllHeld
<1>10. ~dropped'
    BY <1>7, <1>8, <1>9
<1>11. PICK z : nets' = Without([nets EXCEPT ![stays] = z], goes) /\ Combined(z, x, b, y)
    BY <1>10, MergeClean
<1>12. z \in Net /\ Sized(z)
    BY <1>4, <1>11 DEF Sized, Combined
<1>. DEFINE P == [nets EXCEPT ![stays] = z]
<1>13. P \in Seq(Net) /\ Len(P) = Len(nets)
    BY <1>1, <1>12, PutType
<1>14. \A i \in 1..Len(nets) : Sized(P[i])
    BY <1>1, <1>12 DEF SizedIn
<1>15. nets' = Without(P, goes)
    BY <1>11
<1>. HIDE DEF P, x, y, V, E
<1>16. Len(nets') = Len(nets) - 1
    BY <1>13, <1>15, WithoutLen
<1>17. \A k \in 1..(Len(nets) - 1) : nets'[k] = IF k < goes THEN P[k] ELSE P[k + 1]
    BY <1>13, <1>15, WithoutAt
<1>18. ASSUME NEW k \in 1..Len(nets') PROVE Sized(nets'[k])
    <2>1. k \in 1..(Len(nets) - 1) /\ k \in 1..Len(nets) /\ k + 1 \in 1..Len(nets)
        BY <1>1, <1>16
    <2>. QED
        BY <1>14, <1>17, <2>1
<1>19. Len(nets') <= Len(Rails) + (c + 1)
    BY <1>1, <1>16 DEF SizedIn
<1>. QED
    BY <1>10, <1>18, <1>19 DEF SizedIn

LEMMA TakeShort ==
    ASSUME Tidy, Placed, Short, SameNet \/ TwoNets \/ TwoRails \/ OneNet \/ NoNet
    PROVE  Short'
<1>. DEFINE c == CountTaken
            B == BridgesTaken
            b == Taken
            i == FoundNet(Taken[1])
            j == FoundNet(Taken[2])
<1>1. TakeBridge /\ TypeOK
    BY DEF SameNet, TwoNets, TwoRails, OneNet, NoNet, Tidy
<1>2. next \in 1..Len(bridges) /\ next' = next + 1 /\ bridges' = bridges /\ edits' = edits
    BY <1>1 DEF TakeBridge
<1>3. SUFFICES ASSUME edits = 0, Fits(Len(bridges)) PROVE ~dropped' /\ SizedIn(nets', c + 1)
    <2>1. CountTaken' = c + 1
        BY <1>2 DEF CountTaken
    <2>. QED
        BY <1>2, <2>1 DEF Short, SizedIn, Sized
<1>4. ~dropped /\ SizedIn(nets, c) /\ NetsInv /\ PlacedIn(nets, B)
    BY <1>3 DEF Short, Tidy, Placed
<1>5. c \in Nat /\ c + 1 <= Len(bridges) /\ Len(bridges) \in Nat
    BY <1>1, <1>2 DEF CountTaken, TypeOK
<1>6. b \in Bridge
    BY <1>1, TakenBridge
<1>7. IsFiniteSet(B \cup {b}) /\ Cardinality(B \cup {b}) <= c + 1
    <2>1. IsFiniteSet(B) /\ Cardinality(B) <= c /\ Cardinality(B) \in Nat
        BY <1>1, FewTaken, FS_CardinalityType
    <2>2. /\ IsFiniteSet(B \cup {b})
          /\ Cardinality(B \cup {b}) = IF b \in B THEN Cardinality(B) ELSE Cardinality(B) + 1
        <3>. HIDE DEF B, b
        <3>. QED
            BY <2>1, FS_AddElement
    <2>3. Cardinality(B \cup {b}) <= c + 1
        <3>. DEFINE n == Cardinality(B)
                    m == Cardinality(B \cup {b})
        <3>1. n \in Nat /\ n <= c /\ c \in Nat /\ (m = n \/ m = n + 1)
            BY <1>5, <2>1, <2>2
        <3>. HIDE DEF n, m, c
        <3>2. m <= c + 1
            BY <3>1
        <3>. QED
            BY <3>2 DEF m
    <2>. QED
        BY <2>2, <2>3
<1>8. /\ i > 0 => i \in 1..Len(nets) /\ b[1] \in nets[i].nodes
      /\ j > 0 => j \in 1..Len(nets) /\ b[2] \in nets[j].nodes
    BY <1>4, FoundIn
<1>9. Ends(b) = {b[1], b[2]}
    BY DEF Ends
<1>. HIDE DEF c, B, b, i, j
<1>10. ASSUME NEW n \in {i, j}, n > 0, NEW ends, Grow(n, b, ends)
       PROVE  ~dropped' /\ SizedIn(nets', c + 1)
    <2>1. n \in 1..Len(nets) /\ Ends(b) \cap nets[n].nodes /= {}
        BY <1>8, <1>9, <1>10
    <2>. QED
        BY <1>3, <1>4, <1>5, <1>6, <1>7, <1>10, <2>1, GrowShort
<1>11. ASSUME createNewNet(b) PROVE ~dropped' /\ SizedIn(nets', c + 1)
    BY <1>3, <1>4, <1>5, <1>6, <1>11, CreateShort
<1>12. ASSUME i > 0, j > 0, i /= j, Merge(i, j, b) \/ Merge(j, i, b)
       PROVE  ~dropped' /\ SizedIn(nets', c + 1)
    <2>1. /\ i \in 1..Len(nets) /\ j \in 1..Len(nets)
          /\ Ends(b) \cap nets[i].nodes /= {} /\ Ends(b) \cap nets[j].nodes /= {}
          /\ Ends(b) \subseteq nets[i].nodes \cup nets[j].nodes
          /\ Ends(b) \subseteq nets[j].nodes \cup nets[i].nodes
        BY <1>8, <1>9, <1>12
    <2>2. CASE Merge(i, j, b)
        BY <1>3, <1>4, <1>5, <1>6, <1>7, <1>12, <2>1, <2>2, MergeShort
    <2>3. CASE Merge(j, i, b)
        BY <1>3, <1>4, <1>5, <1>6, <1>7, <1>12, <2>1, <2>3, MergeShort
    <2>. QED
        BY <1>12, <2>2, <2>3
<1>13. ASSUME LeaveOut PROVE ~dropped' /\ SizedIn(nets', c + 1)
    <2>1. nets' = nets /\ dropped' = dropped
        BY <1>13 DEF LeaveOut
    <2>2. Len(nets) <= Len(Rails) + (c + 1)
        BY <1>1, <1>4, <1>5, NetsTyped, NodesAssumption DEF SizedIn
    <2>. QED
        BY <1>4, <2>1, <2>2 DEF SizedIn
<1>14. CASE SameNet
    BY <1>10, <1>14 DEF SameNet, First, i, b
<1>15. CASE TwoNets
    BY <1>12, <1>13, <1>15 DEF TwoNets, First, Second, combineNets, i, j, b
<1>16. CASE TwoRails
    BY <1>13, <1>16 DEF TwoRails
<1>17. CASE OneNet
    BY <1>10, <1>11, <1>17 DEF OneNet, First, Second, JoinNet, i, j, b
<1>18. CASE NoNet
    BY <1>11, <1>18 DEF NoNet, b
<1>. QED
    BY <1>14, <1>15, <1>16, <1>17, <1>18

LEMMA RailsSized == SizedIn(RailNets, 0)
<1>1. \A k \in 1..Len(Rails) : RailNets[k].nodes = {Rails[k]} /\ RailNets[k].bridges = {}
    BY DEF RailNets, RailNet
<1>2. \A k \in 1..Len(Rails) : IsFiniteSet({Rails[k]}) /\ Cardinality({Rails[k]}) = 1
    BY FS_Singleton
<1>3. IsFiniteSet({}) /\ Cardinality({}) = 0
    BY FS_EmptySet
<1>4. ASSUME NEW k \in 1..Len(Rails) PROVE Sized(RailNets[k])
    <2>1. IsFiniteSet(RailNets[k].nodes) /\ Cardinality(RailNets[k].nodes) = 1
        BY <1>1, <1>2
    <2>2. IsFiniteSet(RailNets[k].bridges) /\ Cardinality(RailNets[k].bridges) = 0
        BY <1>1, <1>3
    <2>. QED
        BY <2>1, <2>2 DEF Sized
<1>. QED
    BY <1>4, RailsTyped, NodesAssumption DEF SizedIn

LEMMA ShortNext ==
    ASSUME Tidy, Placed, Short, [Next]_vars
    PROVE  Short'
<1>1. ASSUME edits' = edits + 1 PROVE Short'
    BY <1>1 DEF Tidy, TypeOK, Short
<1>2. ASSUME UNCHANGED <<bridges, nets, next, edits, dropped>> PROVE Short'
    BY <1>2 DEF Short, SizedIn, Sized, CountTaken
<1>3. CASE StartRefresh
    <2>1. nets' = RailNets /\ dropped' = FALSE /\ next' = 1
        BY <1>3 DEF StartRefresh
    <2>2. CountTaken' = 0
        BY <2>1 DEF CountTaken
    <2>. QED
        BY <2>1, <2>2, RailsSized DEF Short, SizedIn, Sized
<1>4. CASE FinishRefresh
    <2>1. /\ next = Len(bridges) + 1 /\ next' = 0 /\ Len(bridges) \in Nat
          /\ UNCHANGED <<bridges, nets, edits, dropped>>
        BY <1>4 DEF FinishRefresh, Tidy, TypeOK
    <2>2. CountTaken' = CountTaken
        BY <2>1 DEF CountTaken
    <2>. QED
        BY <2>1, <2>2 DEF Short, SizedIn, Sized
<1>5. CASE SameNet \/ TwoNets \/ TwoRails \/ OneNet \/ NoNet
    BY <1>5, TakeShort
<1>. QED
    BY <1>1, <1>2, <1>3, <1>4, <1>5
    DEF Next, vars, addConnection, removeConnection, setNetName, removeNetName

\* A list that is short enough for any order of its bridges never meets the
\* end of an array, whatever was refreshed before, and leaves the last number
\* free: that the code does not look at the ends of its arrays cannot show
\* before 40 bridges (findFirstUnusedNodeIndex, findFirstUnusedBridgeIndex,
\* findFirstUnusedNetIndex, shiftNets).
THEOREM ShortListsAlwaysFit == Spec => []ShortListsFit
<1>. DEFINE Inv == Tidy /\ Placed /\ PathsCopied /\ Short
<1>1. Init => Inv
    <2>1. Init => Short
        <3>1. Init => nets = RailNets /\ dropped = FALSE /\ CountTaken = 0
            BY DEF Init, CountTaken
        <3>. QED
            BY <3>1, RailsSized DEF Short
    <2>. QED
        BY <2>1, TidyInit, PlacedInit
<1>2. Inv /\ [Next]_vars => Inv'
    BY TidyNext, PlacedStep, ShortNext
<1>3. Inv => ShortListsFit
    <2>1. SUFFICES ASSUME Tidy, Short, edits = 0, Fits(Len(bridges))
                   PROVE  ~dropped /\ Len(nets) < LastNumber
        BY DEF ShortListsFit
    <2>2. ~dropped /\ Len(nets) <= Len(Rails) + CountTaken
        BY <2>1 DEF Short, SizedIn
    <2>3. CountTaken \in Nat /\ CountTaken <= Len(bridges) /\ Len(bridges) \in Nat
        BY <2>1, FewTaken DEF Tidy, TypeOK
    <2>4. Len(nets) \in Nat
        BY <2>1, NetsTyped DEF Tidy
    <2>. QED
        BY <2>1, <2>2, <2>3, <2>4, Numbers DEF Fits
<1>. QED
    BY <1>1, <1>2, <1>3, PTL DEF Spec
=============================================================================
