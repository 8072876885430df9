---------------------------- MODULE UndoRing_proofs --------------------------
(***************************************************************************)
(* Proofs about UndoRing: the cursors stay in the ring of transactions, no *)
(* transaction in it loses an operation, everything has its type, and a    *)
(* slot whose history is whole stands where its history says.              *)
(***************************************************************************)
EXTENDS UndoRing, RingIndex, FiniteSetTheorems

(* The age of place x in a ring of n places whose oldest is t.             *)
Age(n, t, x) == (x + n - t) % n

(* The age of a place, without the remainder.                              *)
LEMMA AgeIs ==
  ASSUME NEW n \in Nat \ {0}, NEW t \in 0..n-1, NEW x \in 0..n-1
  PROVE  /\ Age(n, t, x) = IF t <= x THEN x - t ELSE x + n - t
         /\ Age(n, t, x) \in 0..n-1
<1> DEFINE y == x + n - t
<1>1. y \in Int /\ (t <= x => y \in n..2*n-1) /\ (~(t <= x) => y \in 0..n-1)
  OBVIOUS
<1> HIDE DEF y
<1>2. t <= x => y % n = y - n
  BY <1>1, Around
<1>3. ~(t <= x) => y % n = y
  BY <1>1, Around
<1>4. y % n = IF t <= x THEN y - n ELSE y
  BY <1>2, <1>3
<1> QED
  BY <1>4 DEF y, Age

(* The place after x is one younger, unless it is the oldest.              *)
LEMMA AgeNext ==
  ASSUME NEW n \in Nat \ {0}, NEW t \in 0..n-1, NEW x \in 0..n-1
  PROVE  /\ (x + 1) % n \in 0..n-1
         /\ (x + 1) % n # t => Age(n, t, (x + 1) % n) = Age(n, t, x) + 1
         /\ (x + 1) % n = t => Age(n, t, x) = n - 1
<1> DEFINE y == (x + 1) % n
<1>1. y = IF x + 1 < n THEN x + 1 ELSE x + 1 - n
  <2>1. 1 \in 0..n
    OBVIOUS
  <2> QED
    BY <2>1, Forward
<1>2. y \in 0..n-1
  BY <1>1
<1> HIDE DEF y
<1>3. Age(n, t, y) = IF t <= y THEN y - t ELSE y + n - t
  BY <1>2, AgeIs
<1>4. Age(n, t, x) = IF t <= x THEN x - t ELSE x + n - t
  BY AgeIs
<1>5. /\ y # t => Age(n, t, y) = Age(n, t, x) + 1
      /\ y = t => Age(n, t, x) = n - 1
  BY <1>1, <1>2, <1>3, <1>4
<1> QED
  BY <1>2, <1>5 DEF y

(* The place k after x is k younger, if there are so many.                 *)
LEMMA AgePlus ==
  ASSUME NEW n \in Nat \ {0}, NEW t \in 0..n-1, NEW x \in 0..n-1,
         NEW k \in Nat, Age(n, t, x) + k < n
  PROVE  /\ (x + k) % n \in 0..n-1
         /\ Age(n, t, (x + k) % n) = Age(n, t, x) + k
<1> DEFINE y == (x + k) % n
<1>0. Age(n, t, x) = IF t <= x THEN x - t ELSE x + n - t
  BY AgeIs
<1>1. y = IF x + k < n THEN x + k ELSE x + k - n
  <2>1. k \in 0..n
    BY <1>0
  <2> QED
    BY <2>1, Forward
<1>2. y \in 0..n-1
  BY <1>0, <1>1
<1> HIDE DEF y
<1>3. Age(n, t, y) = IF t <= y THEN y - t ELSE y + n - t
  BY <1>2, AgeIs
<1>4. Age(n, t, y) = Age(n, t, x) + k
  BY <1>0, <1>1, <1>2, <1>3
<1> QED
  BY <1>2, <1>4 DEF y

(* Different places have different ages; the oldest is of age 0.           *)
LEMMA AgeApart ==
  ASSUME NEW n \in Nat \ {0}, NEW t \in 0..n-1,
         NEW x \in 0..n-1, NEW y \in 0..n-1
  PROVE  /\ Age(n, t, x) = Age(n, t, y) => x = y
         /\ Age(n, t, t) = 0
<1>1. Age(n, t, x) = IF t <= x THEN x - t ELSE x + n - t
  BY AgeIs
<1>2. Age(n, t, y) = IF t <= y THEN y - t ELSE y + n - t
  BY AgeIs
<1>3. Age(n, t, t) = 0
  BY AgeIs
<1> QED
  BY <1>1, <1>2, <1>3

(* When u becomes the oldest, what was not older is younger by u's age.    *)
LEMMA AgeFrom ==
  ASSUME NEW n \in Nat \ {0}, NEW t \in 0..n-1, NEW u \in 0..n-1,
         NEW x \in 0..n-1, Age(n, t, u) <= Age(n, t, x)
  PROVE  Age(n, u, x) = Age(n, t, x) - Age(n, t, u)
<1>1. Age(n, t, x) = IF t <= x THEN x - t ELSE x + n - t
  BY AgeIs
<1>2. Age(n, t, u) = IF t <= u THEN u - t ELSE u + n - t
  BY AgeIs
<1>3. Age(n, u, x) = IF u <= x THEN x - u ELSE x + n - u
  BY AgeIs
<1> QED
  BY <1>1, <1>2, <1>3

(* When the oldest place is given up, every other one is younger by one.   *)
LEMMA AgeMoved ==
  ASSUME NEW n \in Nat \ {0}, n > 1, NEW t \in 0..n-1,
         NEW u, u = (t + 1) % n
  PROVE  /\ u \in 0..n-1 /\ u # t
         /\ Age(n, t, u) = 1 /\ Age(n, u, t) = n - 1
         /\ \A x \in 0..n-1 : x # t => /\ Age(n, t, x) >= 1
                                       /\ Age(n, u, x) = Age(n, t, x) - 1
<1>1. Age(n, t, t) = 0
  BY AgeApart
<1>2. u \in 0..n-1 /\ u # t
  BY <1>1, AgeNext
<1>3. Age(n, t, u) = 1
  BY <1>1, <1>2, AgeNext
<1>4. Age(n, u, t) = n - 1
  BY <1>2, AgeNext
<1>5. ASSUME NEW x \in 0..n-1, x # t
      PROVE  Age(n, t, x) >= 1 /\ Age(n, u, x) = Age(n, t, x) - 1
  <2>1. Age(n, t, x) # 0
    BY <1>1, <1>5, AgeApart
  <2>2. Age(n, t, x) \in 0..n-1
    BY AgeIs
  <2>3. Age(n, t, x) >= 1
    BY <2>1, <2>2
  <2>4. Age(n, u, x) = Age(n, t, x) - Age(n, t, u)
    BY <1>2, <1>3, <2>3, AgeFrom
  <2> QED
    BY <1>3, <2>3, <2>4
<1> QED
  BY <1>2, <1>3, <1>4, <1>5

(* A set of places has an oldest one, and below, a youngest one.           *)
LEMMA Oldest ==
  ASSUME NEW n \in Nat \ {0}, NEW t \in 0..n-1,
         NEW S \in SUBSET (0..n-1), S # {}
  PROVE  \E x \in S : \A y \in S : Age(n, t, x) <= Age(n, t, y)
<1> DEFINE Older(x) == {y \in S : Age(n, t, y) < Age(n, t, x)}
           T == {Older(x) : x \in S}
           W == 0..n-1
           R == StrictSubsetOrdering(W)
<1>1. \A x \in W : Age(n, t, x) \in Int
  BY AgeIs
<1>2. T \subseteq SUBSET W /\ T # {}
  OBVIOUS
<1>3. IsWellFoundedOn(R, SUBSET W)
  <2>1. IsFiniteSet(W)
    BY FS_Interval
  <2> HIDE DEF W
  <2>2. FiniteSubsetsOf(W) = SUBSET W
    BY <2>1, FS_FiniteSubsetsOfFinite
  <2>3. IsWellFoundedOn(StrictSubsetOrdering(W), FiniteSubsetsOf(W))
    BY FS_StrictSubsetOrderingWellFounded
  <2> QED
    BY <2>2, <2>3
<1> HIDE DEF T, R, W
<1>4. PICK m \in T : \A k \in T : ~(<<k, m>> \in R)
  BY <1>2, <1>3, WFMin
<1>5. PICK x \in S : m = Older(x)
  BY <1>4 DEF T
<1>6. ASSUME NEW y \in S, ~(Age(n, t, x) <= Age(n, t, y))
      PROVE  FALSE
  <2>1. y \in W /\ x \in W /\ S \subseteq W
    BY DEF W
  <2>2. Age(n, t, y) < Age(n, t, x)
    BY <1>1, <1>6, <2>1
  <2>3. Older(y) \subseteq Older(x)
    BY <1>1, <2>1, <2>2
  <2>4. y \in Older(x) /\ y \notin Older(y)
    BY <1>1, <2>1, <2>2
  <2>5. /\ Older(y) \in T /\ Older(y) \in SUBSET W /\ Older(x) \in SUBSET W
    BY <2>1 DEF T
  <2>6. <<Older(y), Older(x)>> \in R
    BY <2>3, <2>4, <2>5 DEF R, StrictSubsetOrdering
  <2> QED
    BY <1>4, <1>5, <2>5, <2>6
<1> QED
  BY <1>6

(* Likewise a youngest one.                                                *)
LEMMA Youngest ==
  ASSUME NEW n \in Nat \ {0}, NEW t \in 0..n-1,
         NEW S \in SUBSET (0..n-1), S # {}
  PROVE  \E x \in S : \A y \in S : Age(n, t, y) <= Age(n, t, x)
<1> DEFINE Younger(x) == {y \in S : Age(n, t, x) < Age(n, t, y)}
           T == {Younger(x) : x \in S}
           W == 0..n-1
           R == StrictSubsetOrdering(W)
<1>1. \A x \in W : Age(n, t, x) \in Int
  BY AgeIs
<1>2. T \subseteq SUBSET W /\ T # {}
  OBVIOUS
<1>3. IsWellFoundedOn(R, SUBSET W)
  <2>1. IsFiniteSet(W)
    BY FS_Interval
  <2> HIDE DEF W
  <2>2. FiniteSubsetsOf(W) = SUBSET W
    BY <2>1, FS_FiniteSubsetsOfFinite
  <2>3. IsWellFoundedOn(StrictSubsetOrdering(W), FiniteSubsetsOf(W))
    BY FS_StrictSubsetOrderingWellFounded
  <2> QED
    BY <2>2, <2>3
<1> HIDE DEF T, R, W
<1>4. PICK m \in T : \A k \in T : ~(<<k, m>> \in R)
  BY <1>2, <1>3, WFMin
<1>5. PICK x \in S : m = Younger(x)
  BY <1>4 DEF T
<1>6. ASSUME NEW y \in S, ~(Age(n, t, y) <= Age(n, t, x))
      PROVE  FALSE
  <2>1. y \in W /\ x \in W /\ S \subseteq W
    BY DEF W
  <2>2. Age(n, t, x) < Age(n, t, y)
    BY <1>1, <1>6, <2>1
  <2>3. Younger(y) \subseteq Younger(x)
    BY <1>1, <2>1, <2>2
  <2>4. y \in Younger(x) /\ y \notin Younger(y)
    BY <1>1, <2>1, <2>2
  <2>5. /\ Younger(y) \in T
        /\ Younger(y) \in SUBSET W /\ Younger(x) \in SUBSET W
    BY <2>1 DEF T
  <2>6. <<Younger(y), Younger(x)>> \in R
    BY <2>3, <2>4, <2>5 DEF R, StrictSubsetOrdering
  <2> QED
    BY <1>4, <1>5, <2>5, <2>6
<1> QED
  BY <1>6

-----------------------------------------------------------------------------
(* The log as far as the proofs need it: what the boards and operations    *)
(* are does not matter to them.                                            *)
IsTxn(t) ==
  /\ t = [firstOp |-> t.firstOp, opCount |-> t.opCount, slot |-> t.slot,
          state |-> t.state, change |-> t.change]
  /\ t.firstOp \in OpIndex
  /\ t.opCount \in 0..OpCap-1

(* The shape of an entry of the log of operations.                         *)
IsEntry(e) == e = [txn |-> e.txn, op |-> e.op]

(* The shape of the log: its fields, and the ring each index is in.        *)
IsLog(h) ==
  /\ h = [ops |-> h.ops, opHead |-> h.opHead, opTail |-> h.opTail,
          txns |-> h.txns, txnHead |-> h.txnHead, txnTail |-> h.txnTail,
          slotCursor |-> h.slotCursor, active |-> h.active, open |-> h.open,
          opStart |-> h.opStart, opened |-> h.opened, torn |-> h.torn]
  /\ h.opHead \in OpIndex /\ h.opTail \in OpIndex /\ h.opStart \in OpIndex
  /\ h.txnHead \in TxnIndex /\ h.txnTail \in TxnIndex
  /\ h.slotCursor \in [Slots -> TxnIndex]
  /\ h.active \in Slots /\ h.open \in Slots \union {None}
  /\ h.ops = [i \in OpIndex |-> h.ops[i]]
  /\ \A i \in OpIndex : IsEntry(h.ops[i])
  /\ h.txns = [i \in TxnIndex |-> h.txns[i]]
  /\ \A i \in TxnIndex : IsTxn(h.txns[i])

(* The rings have at least two places.                                     *)
LEMMA Caps ==
  /\ OpCap \in Nat \ {0} /\ OpCap > 1
  /\ TxnCap \in Nat \ {0} /\ TxnCap > 1
  /\ MaxBundle \in Nat /\ MaxBundle < OpCap
  BY UndoRingAssumption

(* The indices stay in their rings.                                        *)
LEMMA TxnNext ==
  ASSUME NEW i \in TxnIndex
  PROVE  txnRingNext(i) \in TxnIndex
<1>1. (i + 1) % TxnCap \in 0..TxnCap-1
  BY Caps, Around DEF TxnIndex
<1> QED
  BY <1>1 DEF txnRingNext, TxnIndex

(* A sum of places of the log of operations is a place of it.              *)
LEMMA OpPlus ==
  ASSUME NEW j \in OpIndex, NEW k \in Nat
  PROVE  (j + k) % OpCap \in OpIndex
<1>1. (j + k) % OpCap \in 0..OpCap-1
  BY Caps, Around DEF OpIndex
<1> QED
  BY <1>1 DEF OpIndex

(* The next place of the log of operations is a place of it.               *)
LEMMA OpNext ==
  ASSUME NEW j \in OpIndex
  PROVE  opRingNext(j) \in OpIndex
  BY OpPlus DEF opRingNext

(* The parts of a log.                                                     *)
LEMMA LogFields ==
  ASSUME NEW h, IsLog(h)
  PROVE  /\ h.opHead \in OpIndex /\ h.opTail \in OpIndex
         /\ h.opStart \in OpIndex
         /\ h.txnHead \in TxnIndex /\ h.txnTail \in TxnIndex
         /\ h.slotCursor \in [Slots -> TxnIndex]
         /\ h.active \in Slots /\ h.open \in Slots \union {None}
  BY DEF IsLog

(* Membership in the ring, by age.                                         *)
LEMMA RingIs ==
  ASSUME NEW h, NEW i
  PROVE  i \in InRing(h) <=>
           /\ i \in TxnIndex
           /\ Age(TxnCap, h.txnTail, i) < Age(TxnCap, h.txnTail, h.txnHead)
  BY DEF InRing, TxnAge, Age

(* The parts of a transaction in the log.                                  *)
LEMMA TxnIn ==
  ASSUME NEW h, IsLog(h), NEW i \in TxnIndex
  PROVE  /\ h.txns[i].firstOp \in OpIndex
         /\ h.txns[i].opCount \in 0..OpCap-1
         /\ h.txns[i].opCount \in Nat
         /\ opEndOfTxn(h.txns[i]) \in OpIndex
<1> DEFINE t == h.txns[i]
<1>1. IsTxn(t)
  BY DEF IsLog
<1> HIDE DEF t
<1>2. t.firstOp \in OpIndex /\ t.opCount \in 0..OpCap-1
  BY <1>1 DEF IsTxn
<1>3. t.opCount \in Nat
  BY <1>2, Caps
<1>4. opEndOfTxn(t) \in OpIndex
  BY <1>2, <1>3, OpPlus DEF opEndOfTxn
<1> QED
  BY <1>2, <1>3, <1>4 DEF t

(* The cursors are not older than the ring, and the youngest is its head.  *)
CursorsIn(h) ==
  \A s \in Slots :
    Age(TxnCap, h.txnTail, h.slotCursor[s]) <= Age(TxnCap, h.txnTail, h.txnHead)

(* An open transaction is the active slot's, and there is room for it.     *)
OpenInv(h) ==
  h.open # None => /\ h.open = h.active
                   /\ txnRingNext(h.txnHead) # h.txnTail

(* The place where the operations of the transactions in the ring end.     *)
EndOfTxns(h) == IF h.open # None THEN h.opStart ELSE h.opHead

(* In the ring of operations the transactions stand in the order of their  *)
(* age and do not overlap; the open one comes behind them.                 *)
Ordered(h) ==
  /\ \A i \in InRing(h) :
       /\ h.txns[i].opCount > 0
       /\ Age(OpCap, h.opTail, h.txns[i].firstOp) + h.txns[i].opCount
            <= Age(OpCap, h.opTail, EndOfTxns(h))
  /\ \A i, j \in InRing(h) :
       Age(TxnCap, h.txnTail, i) < Age(TxnCap, h.txnTail, j) =>
         Age(OpCap, h.opTail, h.txns[i].firstOp) + h.txns[i].opCount
           <= Age(OpCap, h.opTail, h.txns[j].firstOp)
  /\ Age(OpCap, h.opTail, EndOfTxns(h)) <= Age(OpCap, h.opTail, h.opHead)

(* Every operation of a transaction points back to it.                     *)
Kept(h) ==
  /\ \A i \in InRing(h) : \A k \in 0..h.txns[i].opCount - 1 :
       h.ops[(h.txns[i].firstOp + k) % OpCap].txn = i
  /\ h.open # None =>
       \A k \in 0..BundleLength(h) - 1 :
         h.ops[(h.opStart + k) % OpCap].txn = h.txnHead

(* Everything that is kept of the indexes of the log.                      *)
LogInv(h) == IsLog(h) /\ CursorsIn(h) /\ OpenInv(h) /\ Ordered(h) /\ Kept(h)

-----------------------------------------------------------------------------
(* EvictOldest                                                             *)

(* What EvictOldest leaves alone, and what it sets.                        *)
LEMMA EvictShape ==
  ASSUME NEW h, IsLog(h), NEW e, e = EvictOldest(h)
  PROVE  /\ IsLog(e)
         /\ e.opTail = opEndOfTxn(h.txns[h.txnTail])
         /\ e.txnTail = txnRingNext(h.txnTail)
         /\ \A s \in Slots : e.slotCursor[s] =
              IF h.slotCursor[s] = h.txnTail THEN e.txnTail
              ELSE h.slotCursor[s]
         /\ e.ops = h.ops /\ e.opHead = h.opHead /\ e.txns = h.txns
         /\ e.txnHead = h.txnHead /\ e.active = h.active /\ e.open = h.open
         /\ e.opStart = h.opStart /\ e.opened = h.opened
         /\ e.torn = h.torn \union {s \in Slots : h.txnTail \in Undone(h, s)}
<1> DEFINE next == txnRingNext(h.txnTail)
           end == opEndOfTxn(h.txns[h.txnTail])
           cursor == [s \in Slots |->
                        IF h.slotCursor[s] = h.txnTail THEN next
                        ELSE h.slotCursor[s]]
           torn == h.torn \union {s \in Slots : h.txnTail \in Undone(h, s)}
<1>1. next \in TxnIndex
  BY TxnNext DEF IsLog
<1>2. end \in OpIndex
  BY TxnIn DEF IsLog
<1>3. cursor \in [Slots -> TxnIndex]
  BY <1>1 DEF IsLog
<1>4. e = [h EXCEPT !.opTail = end, !.txnTail = next, !.slotCursor = cursor,
                    !.torn = torn]
  BY DEF EvictOldest
<1> HIDE DEF next, end, cursor, torn
<1>5. e = [ops |-> h.ops, opHead |-> h.opHead, opTail |-> end,
          txns |-> h.txns, txnHead |-> h.txnHead, txnTail |-> next,
          slotCursor |-> cursor, active |-> h.active, open |-> h.open,
          opStart |-> h.opStart, opened |-> h.opened, torn |-> torn]
  BY <1>4 DEF IsLog
<1>6. IsLog(e)
  BY <1>1, <1>2, <1>3, <1>5 DEF IsLog
<1> QED
  BY <1>5, <1>6 DEF next, end, cursor, torn

(* The oldest transaction leaves both rings, with all its operations.      *)
LEMMA EvictInv ==
  ASSUME NEW h, LogInv(h), h.txnHead # h.txnTail,
         NEW e, e = EvictOldest(h)
  PROVE  /\ LogInv(e)
         /\ txnRingNext(e.txnHead) # e.txnTail
         /\ opRingNext(e.opHead) = h.opTail => opRingNext(e.opHead) # e.opTail
         /\ e.ops = h.ops /\ e.opHead = h.opHead /\ e.txnHead = h.txnHead
         /\ e.active = h.active /\ e.open = h.open /\ e.opStart = h.opStart
<1> DEFINE t == h.txnTail
           u == e.txnTail
           o == h.opTail
           p == e.opTail
           TA(x) == Age(TxnCap, t, x)
           OA(x) == Age(OpCap, o, x)
           first(i) == h.txns[i].firstOp
           count(i) == h.txns[i].opCount
           d == OA(first(t)) + count(t)
<1>1. IsLog(h) /\ CursorsIn(h) /\ OpenInv(h) /\ Ordered(h) /\ Kept(h)
  BY DEF LogInv
<1>2. /\ IsLog(e)
      /\ p = opEndOfTxn(h.txns[t]) /\ u = txnRingNext(t)
      /\ \A s \in Slots : e.slotCursor[s] =
           IF h.slotCursor[s] = t THEN u ELSE h.slotCursor[s]
      /\ e.ops = h.ops /\ e.opHead = h.opHead /\ e.txns = h.txns
      /\ e.txnHead = h.txnHead /\ e.active = h.active /\ e.open = h.open
      /\ e.opStart = h.opStart
  BY <1>1, EvictShape
<1>3. /\ t \in TxnIndex /\ h.txnHead \in TxnIndex /\ o \in OpIndex
      /\ h.opHead \in OpIndex /\ h.opStart \in OpIndex
      /\ h.slotCursor \in [Slots -> TxnIndex]
  BY <1>1, LogFields
<1>4. EndOfTxns(e) = EndOfTxns(h) /\ EndOfTxns(h) \in OpIndex
  BY <1>2, <1>3 DEF EndOfTxns
<1>5. /\ u \in TxnIndex /\ u # t /\ TA(u) = 1 /\ Age(TxnCap, u, t) = TxnCap - 1
      /\ \A x \in TxnIndex : x # t => /\ TA(x) >= 1
                                      /\ Age(TxnCap, u, x) = TA(x) - 1
  <2>1. t \in 0..TxnCap-1 /\ u = (t + 1) % TxnCap
    BY <1>2, <1>3 DEF txnRingNext, TxnIndex
  <2> HIDE DEF t, u
  <2>2. /\ u \in 0..TxnCap-1 /\ u # t
        /\ TA(u) = 1 /\ Age(TxnCap, u, t) = TxnCap - 1
        /\ \A x \in 0..TxnCap-1 : x # t => /\ TA(x) >= 1
                                          /\ Age(TxnCap, u, x) = TA(x) - 1
    BY <2>1, Caps, AgeMoved
  <2> QED
    BY <2>2 DEF TxnIndex
<1>6. TA(t) = 0 /\ \A x \in TxnIndex : TA(x) \in 0..TxnCap-1
  BY <1>3, Caps, AgeIs, AgeApart DEF TxnIndex
<1>7. Age(TxnCap, u, u) = 0
  BY <1>5, Caps, AgeApart DEF TxnIndex
<1>8. CursorsIn(e)
  <2> SUFFICES ASSUME NEW s \in Slots
               PROVE  Age(TxnCap, u, e.slotCursor[s])
                        <= Age(TxnCap, u, h.txnHead)
    BY <1>2 DEF CursorsIn
  <2>1. h.slotCursor[s] \in TxnIndex /\ TA(h.slotCursor[s]) <= TA(h.txnHead)
    BY <1>1, <1>3 DEF CursorsIn
  <2>2. Age(TxnCap, u, h.txnHead) = TA(h.txnHead) - 1 /\ TA(h.txnHead) >= 1
    BY <1>3, <1>5
  <2>3. CASE h.slotCursor[s] = t
    BY <1>2, <1>6, <1>7, <1>3, <2>2, <2>3
  <2>4. CASE h.slotCursor[s] # t
    <3>1. e.slotCursor[s] = h.slotCursor[s]
      BY <1>2, <2>4
    <3>2. Age(TxnCap, u, h.slotCursor[s]) = TA(h.slotCursor[s]) - 1
      BY <1>5, <2>1, <2>4
    <3> QED
      BY <1>6, <1>3, <2>1, <2>2, <3>1, <3>2
  <2> QED
    BY <2>3, <2>4
<1>9. txnRingNext(e.txnHead) # u
  <2>1. TA(h.txnHead) >= 1
    BY <1>3, <1>5
  <2>2. txnRingNext(h.txnHead) # t
          => TA(txnRingNext(h.txnHead)) = TA(h.txnHead) + 1
    BY <1>3, Caps, AgeNext DEF txnRingNext, TxnIndex
  <2> QED
    BY <1>2, <1>3, <1>5, <1>6, <2>1, <2>2
<1>10. OpenInv(e)
  BY <1>1, <1>2, <1>9 DEF OpenInv
<1>11. ASSUME NEW i \in InRing(e)
       PROVE  i \in InRing(h) /\ i # t /\ TA(i) >= 1
  <2>1. i \in TxnIndex /\ Age(TxnCap, u, i) < Age(TxnCap, u, h.txnHead)
    BY <1>2, <1>11, RingIs
  <2>2. /\ Age(TxnCap, u, h.txnHead) = TA(h.txnHead) - 1
        /\ TA(h.txnHead) \in 0..TxnCap-1
    BY <1>3, <1>5, <1>6
  <2>3. i # t
    BY <1>5, <2>1, <2>2, Caps
  <2>4. Age(TxnCap, u, i) = TA(i) - 1 /\ TA(i) >= 1 /\ TA(i) \in 0..TxnCap-1
    BY <1>5, <1>6, <2>1, <2>3
  <2>5. TA(i) < TA(h.txnHead)
    BY <2>1, <2>2, <2>4, Caps
  <2> QED
    BY <2>1, <2>3, <2>4, <2>5, RingIs
(* The oldest transaction is in the ring, and its operations end at d.     *)
<1>12. t \in InRing(h)
  <2>1. TA(h.txnHead) >= 1
    BY <1>3, <1>5
  <2> QED
    BY <1>3, <1>6, <2>1, RingIs
<1>13. /\ first(t) \in OpIndex /\ count(t) \in Nat /\ count(t) > 0
       /\ OA(first(t)) + count(t) <= OA(EndOfTxns(h))
  BY <1>1, <1>3, <1>12, TxnIn DEF Ordered
<1>14. \A x \in OpIndex : OA(x) \in 0..OpCap-1
  BY <1>3, Caps, AgeIs DEF OpIndex
<1>15. d \in 1..OpCap-1
  BY <1>4, <1>13, <1>14, Caps
<1>16. p \in OpIndex /\ OA(p) = d
  <2> DEFINE f == first(t)
             c == count(t)
  <2>1. /\ OA(f) + c < OpCap /\ p = (f + c) % OpCap
        /\ f \in 0..OpCap-1 /\ o \in 0..OpCap-1 /\ c \in Nat
    BY <1>2, <1>3, <1>13, <1>15, Caps DEF opEndOfTxn, OpIndex
  <2> HIDE DEF f, c
  <2>2. (f + c) % OpCap \in 0..OpCap-1 /\ OA((f + c) % OpCap) = OA(f) + c
    BY <2>1, Caps, AgePlus
  <2> QED
    BY <2>1, <2>2 DEF f, c, OpIndex
<1>17. \A x \in OpIndex : d <= OA(x) => Age(OpCap, p, x) = OA(x) - d
  BY <1>3, <1>16, Caps, AgeFrom DEF OpIndex
<1>18. /\ d <= OA(EndOfTxns(h)) /\ d <= OA(h.opHead)
       /\ OA(EndOfTxns(h)) <= OA(h.opHead)
  BY <1>1, <1>3, <1>4, <1>13, <1>14, <1>15 DEF Ordered
<1>19. ASSUME NEW i \in InRing(e)
       PROVE  /\ first(i) \in OpIndex /\ count(i) \in Nat /\ count(i) > 0
              /\ d <= OA(first(i))
              /\ OA(first(i)) + count(i) <= OA(EndOfTxns(h))
  <2>1. i \in InRing(h) /\ TA(t) < TA(i) /\ i \in TxnIndex
    <3>1. i \in InRing(h) /\ TA(i) >= 1
      BY <1>11
    <3>2. i \in TxnIndex
      BY <3>1, RingIs
    <3> QED
      BY <1>6, <3>1, <3>2
  <2> QED
    BY <1>1, <1>12, <2>1, TxnIn DEF Ordered
<1>20. Ordered(e)
  <2>1. ASSUME NEW i \in InRing(e)
        PROVE  /\ count(i) > 0
               /\ Age(OpCap, p, first(i)) + count(i)
                    <= Age(OpCap, p, EndOfTxns(h))
    <3>1. Age(OpCap, p, first(i)) = OA(first(i)) - d
      BY <1>17, <1>19
    <3>2. Age(OpCap, p, EndOfTxns(h)) = OA(EndOfTxns(h)) - d
      BY <1>4, <1>17, <1>18
    <3>3. OA(first(i)) \in Int /\ OA(EndOfTxns(h)) \in Int
      BY <1>4, <1>14, <1>19
    <3> QED
      BY <1>15, <1>19, <3>1, <3>2, <3>3
  <2>2. ASSUME NEW i \in InRing(e), NEW j \in InRing(e),
               Age(TxnCap, u, i) < Age(TxnCap, u, j)
        PROVE  Age(OpCap, p, first(i)) + count(i) <= Age(OpCap, p, first(j))
    <3>1. /\ i \in InRing(h) /\ j \in InRing(h) /\ i # t /\ j # t
          /\ i \in TxnIndex /\ j \in TxnIndex
      BY <1>11, RingIs
    <3>2. TA(i) < TA(j)
      <4>1. Age(TxnCap, u, i) = TA(i) - 1 /\ Age(TxnCap, u, j) = TA(j) - 1
        BY <1>5, <3>1
      <4>2. TA(i) \in Int /\ TA(j) \in Int
        BY <1>6, <3>1
      <4> QED
        BY <2>2, <4>1, <4>2
    <3>3. OA(first(i)) + count(i) <= OA(first(j))
      BY <1>1, <3>1, <3>2 DEF Ordered
    <3>4. /\ Age(OpCap, p, first(i)) = OA(first(i)) - d
          /\ Age(OpCap, p, first(j)) = OA(first(j)) - d
      BY <1>17, <1>19
    <3>5. OA(first(i)) \in Int /\ OA(first(j)) \in Int /\ count(i) \in Int
      BY <1>14, <1>19
    <3> QED
      BY <1>15, <3>3, <3>4, <3>5
  <2>3. Age(OpCap, p, EndOfTxns(h)) <= Age(OpCap, p, h.opHead)
    <3>1. /\ Age(OpCap, p, EndOfTxns(h)) = OA(EndOfTxns(h)) - d
          /\ Age(OpCap, p, h.opHead) = OA(h.opHead) - d
      BY <1>3, <1>4, <1>17, <1>18
    <3>2. OA(EndOfTxns(h)) \in Int /\ OA(h.opHead) \in Int
      BY <1>3, <1>4, <1>14
    <3> QED
      BY <1>15, <1>18, <3>1, <3>2
  <2> HIDE DEF p, u
  <2> QED
    BY <1>2, <1>4, <2>1, <2>2, <2>3 DEF Ordered, p, u
<1>21. Kept(e)
  <2>1. BundleLength(e) = BundleLength(h)
    BY <1>2 DEF BundleLength
  <2> QED
    BY <1>1, <1>2, <1>11, <2>1 DEF Kept
<1>22. opRingNext(e.opHead) = o => opRingNext(e.opHead) # p
  BY <1>3, <1>15, <1>16, Caps, AgeApart DEF OpIndex
<1> QED
  BY <1>2, <1>8, <1>9, <1>10, <1>20, <1>21, <1>22 DEF LogInv

-----------------------------------------------------------------------------
(* undoEndTxn and undoBeginTxn                                             *)

(* What a step does to states, contents and cursors alone is no matter of  *)
(* where the transactions stand.                                           *)
LEMMA SamePlaces ==
  ASSUME NEW h, IsLog(h), NEW e, IsLog(e),
         e.opHead = h.opHead, e.opTail = h.opTail, e.opStart = h.opStart,
         e.txnHead = h.txnHead, e.txnTail = h.txnTail, e.open = h.open,
         \A i \in TxnIndex : /\ e.txns[i].firstOp = h.txns[i].firstOp
                             /\ e.txns[i].opCount = h.txns[i].opCount,
         \A j \in OpIndex : e.ops[j].txn = h.ops[j].txn
  PROVE  /\ Ordered(h) => Ordered(e)
         /\ Kept(h) => Kept(e)
<1>1. \A i : i \in InRing(e) <=> i \in InRing(h)
  BY RingIs
<1>2. \A i \in InRing(h) : i \in TxnIndex
  BY RingIs
<1>3. EndOfTxns(e) = EndOfTxns(h) /\ BundleLength(e) = BundleLength(h)
  BY DEF EndOfTxns, BundleLength
<1>4. Ordered(h) => Ordered(e)
  BY <1>1, <1>2, <1>3 DEF Ordered
<1>5. ASSUME Kept(h), NEW i \in InRing(e), NEW k \in 0..e.txns[i].opCount - 1
      PROVE  e.ops[(e.txns[i].firstOp + k) % OpCap].txn = i
  <2>1. i \in InRing(h) /\ i \in TxnIndex
    BY <1>1, <1>2
  <2>2. h.txns[i].firstOp \in OpIndex /\ k \in Nat
    BY <2>1, TxnIn
  <2>3. (h.txns[i].firstOp + k) % OpCap \in OpIndex
    BY <2>2, OpPlus
  <2> QED
    BY <1>5, <2>1, <2>3 DEF Kept
<1>6. ASSUME Kept(h), e.open # None, NEW k \in 0..BundleLength(e) - 1
      PROVE  e.ops[(e.opStart + k) % OpCap].txn = e.txnHead
  <2>1. h.opStart \in OpIndex /\ k \in Nat
    BY LogFields
  <2>2. (h.opStart + k) % OpCap \in OpIndex
    BY <2>1, OpPlus
  <2> QED
    BY <1>3, <1>6, <2>2 DEF Kept
<1> QED
  BY <1>4, <1>5, <1>6 DEF Kept

(* An open transaction has the operations from its start to the head.      *)
LEMMA BundleIs ==
  ASSUME NEW h, IsLog(h), Ordered(h), h.open # None
  PROVE  /\ BundleLength(h) \in 0..OpCap-1
         /\ Age(OpCap, h.opTail, h.opStart) + BundleLength(h)
              = Age(OpCap, h.opTail, h.opHead)
         /\ Age(OpCap, h.opTail, h.opStart) \in 0..OpCap-1
         /\ Age(OpCap, h.opTail, h.opHead) \in 0..OpCap-1
<1>1. h.opHead \in OpIndex /\ h.opTail \in OpIndex /\ h.opStart \in OpIndex
  BY LogFields
<1>2. Age(OpCap, h.opTail, h.opStart) <= Age(OpCap, h.opTail, h.opHead)
  BY DEF Ordered, EndOfTxns
<1>3. /\ Age(OpCap, h.opTail, h.opStart) \in 0..OpCap-1
      /\ Age(OpCap, h.opTail, h.opHead) \in 0..OpCap-1
      /\ Age(OpCap, h.opStart, h.opHead) \in 0..OpCap-1
  BY <1>1, Caps, AgeIs DEF OpIndex
<1>4. Age(OpCap, h.opStart, h.opHead)
        = Age(OpCap, h.opTail, h.opHead) - Age(OpCap, h.opTail, h.opStart)
  BY <1>1, <1>2, Caps, AgeFrom DEF OpIndex
<1>5. BundleLength(h) = Age(OpCap, h.opStart, h.opHead)
  BY DEF BundleLength, Age
<1> QED
  BY <1>3, <1>4, <1>5

(* The transaction that undoEndTxn makes of the open one.                  *)
EndedTxn(h, bs) ==
  [firstOp |-> h.opStart, opCount |-> BundleLength(h), slot |-> h.open,
   state |-> "committed",
   change |-> [before |-> h.opened, after |-> bs[h.open]]]

(* What undoEndTxn makes of the log when a transaction is open.            *)
LEMMA EndIs ==
  ASSUME NEW h, LogInv(h), h.open # None, NEW bs,
         NEW e, e = undoEndTxn(h, bs)
  PROVE  e = [ops |-> h.ops, opHead |-> h.opHead, opTail |-> h.opTail,
              txns |-> [h.txns EXCEPT ![h.txnHead] = EndedTxn(h, bs)],
              txnHead |-> IF BundleLength(h) = 0 THEN h.txnHead
                          ELSE txnRingNext(h.txnHead),
              txnTail |-> h.txnTail,
              slotCursor |->
                IF BundleLength(h) = 0 THEN h.slotCursor
                ELSE [h.slotCursor EXCEPT ![h.open] = txnRingNext(h.txnHead)],
              active |-> h.active, open |-> None, opStart |-> h.opStart,
              opened |-> h.opened, torn |-> h.torn]
<1> DEFINE n == BundleLength(h)
           t == EndedTxn(h, bs)
           txns == [h.txns EXCEPT ![h.txnHead] = t]
           head == IF n = 0 THEN h.txnHead ELSE txnRingNext(h.txnHead)
           cursor == IF n = 0 THEN h.slotCursor
                     ELSE [h.slotCursor EXCEPT ![h.open] = txnRingNext(h.txnHead)]
<1>1. IsLog(h) /\ n \in 0..OpCap-1
  BY BundleIs DEF LogInv
<1>2. e = IF n = 0 THEN [[h EXCEPT !.txns[h.txnHead] = t] EXCEPT !.open = None]
          ELSE [[[[h EXCEPT !.txns[h.txnHead] = t] EXCEPT !.open = None]
                   EXCEPT !.txnHead = txnRingNext(h.txnHead)]
                   EXCEPT !.slotCursor[h.open] = txnRingNext(h.txnHead)]
  BY <1>1 DEF undoEndTxn, BundleLength, IsLog, EndedTxn
<1> HIDE DEF n, t, txns, head, cursor
<1>3. e = [ops |-> h.ops, opHead |-> h.opHead, opTail |-> h.opTail,
           txns |-> txns, txnHead |-> head, txnTail |-> h.txnTail,
           slotCursor |-> cursor, active |-> h.active, open |-> None,
           opStart |-> h.opStart, opened |-> h.opened, torn |-> h.torn]
  <2>1. CASE n = 0
    BY <1>1, <1>2, <2>1 DEF IsLog, txns, head, cursor
  <2>2. CASE n # 0
    BY <1>1, <1>2, <2>2 DEF IsLog, txns, head, cursor
  <2> QED
    BY <2>1, <2>2
<1> QED
  BY <1>3 DEF n, t, txns, head, cursor

(* The parts of it that the invariant needs.                               *)
LEMMA EndShape ==
  ASSUME NEW h, LogInv(h), h.open # None, NEW bs,
         NEW e, e = undoEndTxn(h, bs)
  PROVE  /\ IsLog(e)
         /\ e.open = None /\ e.active = h.active /\ e.opStart = h.opStart
         /\ e.ops = h.ops /\ e.opHead = h.opHead /\ e.opTail = h.opTail
         /\ e.txnTail = h.txnTail
         /\ \A i \in TxnIndex : i # h.txnHead => e.txns[i] = h.txns[i]
         /\ e.txns[h.txnHead].firstOp = h.opStart
         /\ e.txns[h.txnHead].opCount = BundleLength(h)
         /\ BundleLength(h) = 0 => /\ e.txnHead = h.txnHead
                                   /\ e.slotCursor = h.slotCursor
         /\ BundleLength(h) # 0 =>
              /\ e.txnHead = txnRingNext(h.txnHead)
              /\ \A s \in Slots : \/ e.slotCursor[s] = e.txnHead
                                  \/ e.slotCursor[s] = h.slotCursor[s]
<1> DEFINE n == BundleLength(h)
           next == txnRingNext(h.txnHead)
           t == EndedTxn(h, bs)
           txns == [h.txns EXCEPT ![h.txnHead] = t]
           head == IF n = 0 THEN h.txnHead ELSE next
           cursor == IF n = 0 THEN h.slotCursor
                     ELSE [h.slotCursor EXCEPT ![h.open] = next]
<1>1. IsLog(h) /\ n \in 0..OpCap-1
  BY BundleIs DEF LogInv
<1>2. /\ h.txnHead \in TxnIndex /\ next \in TxnIndex /\ h.opStart \in OpIndex
      /\ h.slotCursor \in [Slots -> TxnIndex]
  BY <1>1, LogFields, TxnNext
<1>3. IsTxn(t)
  BY <1>1, <1>2 DEF IsTxn, EndedTxn
<1>4. t.firstOp = h.opStart /\ t.opCount = n
  BY DEF EndedTxn
<1>5. e = [ops |-> h.ops, opHead |-> h.opHead, opTail |-> h.opTail,
           txns |-> txns, txnHead |-> head, txnTail |-> h.txnTail,
           slotCursor |-> cursor, active |-> h.active, open |-> None,
           opStart |-> h.opStart, opened |-> h.opened, torn |-> h.torn]
  BY EndIs
<1> HIDE DEF n, next, t, txns, head, cursor
<1>6. /\ txns = [i \in TxnIndex |-> txns[i]]
      /\ \A i \in TxnIndex : IsTxn(txns[i])
      /\ txns[h.txnHead] = t
      /\ \A i \in TxnIndex : i # h.txnHead => txns[i] = h.txns[i]
  <2>1. /\ h.txns = [i \in TxnIndex |-> h.txns[i]]
        /\ \A i \in TxnIndex : IsTxn(h.txns[i])
    BY <1>1 DEF IsLog
  <2> DEFINE f == h.txns
  <2> HIDE DEF f
  <2>2. /\ txns = [i \in TxnIndex |-> IF i = h.txnHead THEN t ELSE f[i]]
        /\ \A i \in TxnIndex : IsTxn(f[i])
    BY <2>1 DEF txns, f
  <2> QED
    BY <1>2, <1>3, <2>2 DEF f
<1>7. /\ cursor \in [Slots -> TxnIndex] /\ head \in TxnIndex
      /\ n # 0 => \A s \in Slots : \/ cursor[s] = next
                                   \/ cursor[s] = h.slotCursor[s]
  BY <1>2 DEF cursor, head
<1>8. IsLog(e)
  BY <1>1, <1>5, <1>6, <1>7 DEF IsLog
<1>9. n = 0 => head = h.txnHead /\ cursor = h.slotCursor
  BY DEF head, cursor
<1>10. n # 0 => head = next
  BY DEF head
<1> QED
  BY <1>4, <1>5, <1>6, <1>7, <1>8, <1>9, <1>10 DEF n, next

(* The others.                                                             *)
LEMMA EndSets ==
  ASSUME NEW h, LogInv(h), h.open # None, NEW bs,
         NEW e, e = undoEndTxn(h, bs)
  PROVE  /\ e.txns[h.txnHead] = EndedTxn(h, bs)
         /\ e.opened = h.opened /\ e.torn = h.torn
         /\ \A s \in Slots : e.slotCursor[s] =
              IF BundleLength(h) # 0 /\ s = h.open THEN txnRingNext(h.txnHead)
              ELSE h.slotCursor[s]
<1> DEFINE t == EndedTxn(h, bs)
           txns == [h.txns EXCEPT ![h.txnHead] = t]
           cursor == IF BundleLength(h) = 0 THEN h.slotCursor
                     ELSE [h.slotCursor EXCEPT ![h.open] = txnRingNext(h.txnHead)]
<1>1. e.txns = txns /\ e.slotCursor = cursor /\ e.opened = h.opened
      /\ e.torn = h.torn
  BY EndIs
<1>2. /\ IsLog(h) /\ h.open \in Slots /\ h.txnHead \in TxnIndex
      /\ h.slotCursor \in [Slots -> TxnIndex]
  BY LogFields DEF LogInv
<1>3. txns[h.txnHead] = t
  <2>1. h.txns = [i \in TxnIndex |-> h.txns[i]]
    BY <1>2 DEF IsLog
  <2> HIDE DEF t
  <2> QED
    BY <1>2, <2>1
<1>4. \A s \in Slots : cursor[s] =
        IF BundleLength(h) # 0 /\ s = h.open THEN txnRingNext(h.txnHead)
        ELSE h.slotCursor[s]
  BY <1>2
<1> HIDE DEF t, txns, cursor
<1> QED
  BY <1>1, <1>3, <1>4 DEF t

(* The transaction that ends joins the ring behind all others, if it has   *)
(* an operation.                                                           *)
LEMMA EndInv ==
  ASSUME NEW h, LogInv(h), NEW bs, NEW e, e = undoEndTxn(h, bs)
  PROVE  /\ LogInv(e) /\ e.open = None /\ e.active = h.active
         /\ e.opHead = h.opHead
<1>1. /\ IsLog(h) /\ CursorsIn(h) /\ OpenInv(h) /\ Ordered(h) /\ Kept(h)
  BY DEF LogInv
<1>2. CASE h.open = None
  BY <1>2 DEF undoEndTxn
<1>3. CASE h.open # None
  <2> DEFINE t == h.txnTail
             hd == h.txnHead
             TA(x) == Age(TxnCap, t, x)
             OA(x) == Age(OpCap, h.opTail, x)
             n == BundleLength(h)
  <2>1. /\ IsLog(e)
        /\ e.open = None /\ e.active = h.active /\ e.opStart = h.opStart
        /\ e.ops = h.ops /\ e.opHead = h.opHead /\ e.opTail = h.opTail
        /\ e.txnTail = t
        /\ \A i \in TxnIndex : i # hd => e.txns[i] = h.txns[i]
        /\ e.txns[hd].firstOp = h.opStart
        /\ e.txns[hd].opCount = n
        /\ n = 0 => e.txnHead = hd /\ e.slotCursor = h.slotCursor
        /\ n # 0 => /\ e.txnHead = txnRingNext(hd)
                    /\ \A s \in Slots : \/ e.slotCursor[s] = e.txnHead
                                        \/ e.slotCursor[s] = h.slotCursor[s]
    BY <1>3, EndShape
  <2>2. /\ t \in TxnIndex /\ hd \in TxnIndex /\ txnRingNext(hd) \in TxnIndex
        /\ h.slotCursor \in [Slots -> TxnIndex]
        /\ h.opHead \in OpIndex /\ h.opStart \in OpIndex /\ h.opTail \in OpIndex
    BY <1>1, LogFields, TxnNext
  <2>3. /\ n \in 0..OpCap-1 /\ OA(h.opStart) + n = OA(h.opHead)
        /\ OA(h.opStart) \in 0..OpCap-1 /\ OA(h.opHead) \in 0..OpCap-1
    BY <1>1, <1>3, BundleIs
  <2>4. EndOfTxns(h) = h.opStart /\ EndOfTxns(e) = h.opHead
    BY <1>3, <2>1 DEF EndOfTxns
  <2>5. TA(txnRingNext(hd)) = TA(hd) + 1
    BY <1>1, <1>3, <2>2, Caps, AgeNext DEF OpenInv, txnRingNext, TxnIndex
  <2>6. \A x \in TxnIndex : TA(x) \in 0..TxnCap-1
    BY <2>2, Caps, AgeIs DEF TxnIndex
  <2>7. OpenInv(e)
    BY <2>1 DEF OpenInv
  <2>8. \A i \in InRing(h) : i \in TxnIndex /\ TA(i) < TA(hd) /\ i # hd
    <3>1. \A i \in InRing(h) : i \in TxnIndex /\ TA(i) < TA(hd)
      BY RingIs
    <3> QED
      BY <2>2, <2>6, <3>1
  <2>9. CursorsIn(e)
    <3>1. CASE n = 0
      BY <1>1, <2>1, <3>1 DEF CursorsIn
    <3>2. CASE n # 0
      <4> SUFFICES ASSUME NEW s \in Slots
                   PROVE  TA(e.slotCursor[s]) <= TA(txnRingNext(hd))
        BY <2>1, <3>2 DEF CursorsIn
      <4>1. TA(h.slotCursor[s]) <= TA(hd) /\ h.slotCursor[s] \in TxnIndex
        BY <1>1, <2>2 DEF CursorsIn
      <4>2. \/ e.slotCursor[s] = txnRingNext(hd)
            \/ e.slotCursor[s] = h.slotCursor[s]
        BY <2>1, <3>2
      <4>3. TA(h.slotCursor[s]) <= TA(txnRingNext(hd))
        BY <2>2, <2>5, <2>6, <4>1
      <4>4. TA(txnRingNext(hd)) <= TA(txnRingNext(hd))
        BY <2>2, <2>6
      <4> QED
        BY <4>2, <4>3, <4>4
    <3> QED
      BY <3>1, <3>2
  <2>10. ASSUME NEW i \in InRing(e)
         PROVE  \/ i \in InRing(h) /\ i # hd /\ e.txns[i] = h.txns[i]
                \/ n # 0 /\ i = hd
    <3>1. i \in TxnIndex /\ TA(i) < Age(TxnCap, t, e.txnHead)
      BY <2>1, <2>10, RingIs
    <3>2. CASE n = 0
      BY <2>1, <2>8, <3>1, <3>2, RingIs
    <3>3. CASE n # 0 /\ i # hd
      <4>1. TA(i) # TA(hd)
        BY <2>2, <3>1, <3>3, Caps, AgeApart DEF TxnIndex
      <4>2. TA(i) < TA(hd)
        BY <2>1, <2>2, <2>5, <2>6, <3>1, <3>3, <4>1
      <4> QED
        BY <2>1, <3>1, <3>3, <4>2, RingIs
    <3> QED
      BY <3>2, <3>3
  <2>11. ASSUME NEW i \in InRing(h)
         PROVE  /\ h.txns[i].opCount > 0
                /\ OA(h.txns[i].firstOp) + h.txns[i].opCount <= OA(h.opStart)
                /\ OA(h.txns[i].firstOp) \in Int /\ h.txns[i].opCount \in Int
    <3>1. i \in TxnIndex
      BY RingIs
    <3>2. /\ h.txns[i].firstOp \in OpIndex /\ h.txns[i].opCount \in Nat
      BY <1>1, <3>1, TxnIn
    <3>3. \A x \in OpIndex : OA(x) \in 0..OpCap-1
      BY <2>2, Caps, AgeIs DEF OpIndex
    <3>4. OA(h.txns[i].firstOp) \in Int
      BY <3>2, <3>3, Caps
    <3> QED
      BY <1>1, <2>4, <3>2, <3>4 DEF Ordered
  <2>12. Ordered(e)
    <3>1. ASSUME NEW i \in InRing(e)
          PROVE  /\ e.txns[i].opCount > 0
                 /\ OA(e.txns[i].firstOp) + e.txns[i].opCount <= OA(h.opHead)
      <4>1. CASE i \in InRing(h) /\ i # hd /\ e.txns[i] = h.txns[i]
        BY <2>3, <2>11, <4>1
      <4>2. CASE n # 0 /\ i = hd
        BY <2>1, <2>3, <4>2
      <4> QED
        BY <2>10, <4>1, <4>2
    <3>2. ASSUME NEW i \in InRing(e), NEW j \in InRing(e), TA(i) < TA(j)
          PROVE  OA(e.txns[i].firstOp) + e.txns[i].opCount
                   <= OA(e.txns[j].firstOp)
      <4>1. i \in InRing(h) /\ e.txns[i] = h.txns[i]
        <5>1. CASE i = hd
          <6>1. TA(j) <= TA(hd)
            <7>1. j \in TxnIndex
              BY RingIs
            <7> QED
              BY <2>2, <2>6, <2>8, <2>10, <7>1
          <6> QED
            BY <2>2, <2>6, <2>8, <2>10, <3>2, <5>1, <6>1
        <5> QED
          BY <2>10, <5>1
      <4>2. CASE j \in InRing(h) /\ j # hd /\ e.txns[j] = h.txns[j]
        BY <1>1, <3>2, <4>1, <4>2 DEF Ordered
      <4>3. CASE n # 0 /\ j = hd
        BY <2>1, <2>11, <4>1, <4>3
      <4> QED
        BY <2>10, <4>2, <4>3
    <3>3. OA(h.opHead) <= OA(h.opHead)
      BY <2>3
    <3> QED
      BY <2>1, <2>4, <3>1, <3>2, <3>3 DEF Ordered
  <2>13. Kept(e)
    <3> SUFFICES ASSUME NEW i \in InRing(e), NEW k \in 0..e.txns[i].opCount - 1
                 PROVE  h.ops[(e.txns[i].firstOp + k) % OpCap].txn = i
      BY <2>1 DEF Kept
    <3>1. CASE i \in InRing(h) /\ e.txns[i] = h.txns[i]
      BY <1>1, <3>1 DEF Kept
    <3>2. CASE i = hd
      BY <1>1, <1>3, <2>1, <3>2 DEF Kept
    <3> QED
      BY <2>10, <3>1, <3>2
  <2> QED
    BY <2>1, <2>7, <2>9, <2>12, <2>13 DEF LogInv
<1> QED
  BY <1>2, <1>3
(* A cursor may go to any place that is not behind the head.               *)
WithCursor(h, s, x, y) == [h EXCEPT !.slotCursor[s] = x, !.torn = y]

(* Moving one cursor within the ring keeps the invariant.                  *)
LEMMA CursorInv ==
  ASSUME NEW h, LogInv(h), NEW s \in Slots, NEW x \in TxnIndex, NEW y,
         Age(TxnCap, h.txnTail, x) <= Age(TxnCap, h.txnTail, h.txnHead),
         NEW e, e = WithCursor(h, s, x, y)
  PROVE  /\ LogInv(e)
         /\ e.open = h.open /\ e.active = h.active /\ e.opHead = h.opHead
         /\ e.opStart = h.opStart
<1> DEFINE cursor == [h.slotCursor EXCEPT ![s] = x]
<1>1. IsLog(h) /\ CursorsIn(h) /\ OpenInv(h) /\ Ordered(h) /\ Kept(h)
  BY DEF LogInv
<1>2. e = [ops |-> h.ops, opHead |-> h.opHead, opTail |-> h.opTail,
           txns |-> h.txns, txnHead |-> h.txnHead, txnTail |-> h.txnTail,
           slotCursor |-> cursor, active |-> h.active, open |-> h.open,
           opStart |-> h.opStart, opened |-> h.opened, torn |-> y]
  BY <1>1 DEF IsLog, WithCursor
<1>3. /\ cursor \in [Slots -> TxnIndex]
      /\ \A r \in Slots : cursor[r] = IF r = s THEN x ELSE h.slotCursor[r]
  BY <1>1 DEF IsLog
<1> HIDE DEF cursor
<1>4. IsLog(e)
  BY <1>1, <1>2, <1>3 DEF IsLog
<1>5. CursorsIn(e)
  BY <1>1, <1>2, <1>3 DEF CursorsIn
<1>6. OpenInv(e)
  BY <1>1, <1>2 DEF OpenInv
<1>7. Ordered(e) /\ Kept(e)
  BY <1>1, <1>2, <1>4, SamePlaces
<1> QED
  BY <1>2, <1>4, <1>5, <1>6, <1>7 DEF LogInv

(* What a guest records tears a history, and leaves the rings as they are. *)
LEMMA MisplacedInv ==
  ASSUME NEW h, LogInv(h)
  PROVE  LogInv(Misplaced(h))
<1> DEFINE s == h.active
           x == h.slotCursor[s]
           y == h.torn \union {s}
           e == WithCursor(h, s, x, y)
<1>1. CASE netSlot \in Slots
  BY <1>1 DEF Misplaced
<1>2. CASE netSlot \notin Slots
  <2>1. IsLog(h) /\ s \in Slots /\ x \in TxnIndex
    BY LogFields DEF LogInv
  <2>2. Age(TxnCap, h.txnTail, x) <= Age(TxnCap, h.txnTail, h.txnHead)
    BY <2>1 DEF LogInv, CursorsIn
  <2>3. LogInv(e)
    <3> HIDE DEF x, s, y
    <3> QED
      BY <2>1, <2>2, CursorInv
  <2>4. Misplaced(h) = [h EXCEPT !.torn = y]
    BY <1>2 DEF Misplaced
  <2>5. [h.slotCursor EXCEPT ![s] = x] = h.slotCursor
    BY <2>1 DEF IsLog
  <2> HIDE DEF y
  <2>6. e = [h EXCEPT !.torn = y]
    BY <2>1, <2>5 DEF IsLog, WithCursor
  <2> QED
    BY <2>3, <2>4, <2>6
<1> QED
  BY <1>1, <1>2

(* clampSlotCursor moves a cursor to a place in the ring.                  *)
LEMMA ClampInv ==
  ASSUME NEW h, LogInv(h), NEW e, e = clampSlotCursor(h)
  PROVE  /\ LogInv(e)
         /\ e.open = h.open /\ e.active = h.active /\ e.opHead = h.opHead
         /\ e.opStart = h.opStart
<1> DEFINE c == h.slotCursor[h.active]
           x == IF h.txnHead = h.txnTail THEN h.txnHead
                ELSE IF TxnAge(h, c) > TxnAge(h, h.txnHead) THEN h.txnTail
                ELSE c
<1>1. IsLog(h) /\ CursorsIn(h)
  BY DEF LogInv
<1>2. /\ h.txnHead \in TxnIndex /\ h.txnTail \in TxnIndex /\ c \in TxnIndex
      /\ h.active \in Slots
  BY <1>1, LogFields
<1>3. Age(TxnCap, h.txnTail, h.txnTail) = 0
  BY <1>2, Caps, AgeApart DEF TxnIndex
<1>4. Age(TxnCap, h.txnTail, h.txnHead) \in 0..TxnCap-1
  BY <1>2, Caps, AgeIs DEF TxnIndex
<1>5. Age(TxnCap, h.txnTail, c) <= Age(TxnCap, h.txnTail, h.txnHead)
  BY <1>1, <1>2 DEF CursorsIn
<1>6. /\ x \in TxnIndex
      /\ Age(TxnCap, h.txnTail, x) <= Age(TxnCap, h.txnTail, h.txnHead)
  BY <1>2, <1>3, <1>4, <1>5
<1>7. e = WithCursor(h, h.active, x, h.torn)
  <2>1. e = [h EXCEPT !.slotCursor[h.active] = x]
    BY DEF clampSlotCursor
  <2> HIDE DEF x
  <2> QED
    BY <1>1, <2>1 DEF IsLog, WithCursor
<1> HIDE DEF x, c
<1> QED
  BY <1>2, <1>6, <1>7, CursorInv

(* Changing slots ends the open transaction.                               *)
LEMMA SwapInv ==
  ASSUME NEW h, LogInv(h), NEW bs, NEW s \in Slots,
         NEW e, e = slotSwap(h, s, bs)
  PROVE  /\ LogInv(e) /\ e.active = s
         /\ s # h.active => e.open = None
         /\ s = h.active => e = h
<1>1. CASE s = h.active
  BY <1>1 DEF slotSwap
<1>2. CASE s # h.active
  <2> DEFINE a == undoEndTxn(h, bs)
  <2>1. LogInv(a) /\ a.open = None
    BY EndInv
  <2>2. IsLog(a)
    BY <2>1 DEF LogInv
  <2>3. e = [a EXCEPT !.active = s]
    BY <1>2 DEF slotSwap
  <2> HIDE DEF a
  <2>4. e = [ops |-> a.ops, opHead |-> a.opHead, opTail |-> a.opTail,
             txns |-> a.txns, txnHead |-> a.txnHead, txnTail |-> a.txnTail,
             slotCursor |-> a.slotCursor, active |-> s, open |-> a.open,
             opStart |-> a.opStart, opened |-> a.opened, torn |-> a.torn]
    BY <2>2, <2>3 DEF IsLog
  <2>5. IsLog(e)
    BY <2>2, <2>4 DEF IsLog
  <2>6. CursorsIn(e) /\ OpenInv(e)
    BY <2>1, <2>4 DEF LogInv, CursorsIn, OpenInv
  <2>7. Ordered(e) /\ Kept(e)
    BY <2>1, <2>2, <2>4, <2>5, SamePlaces DEF LogInv
  <2> QED
    BY <1>2, <2>1, <2>4, <2>5, <2>6, <2>7 DEF LogInv
<1> QED
  BY <1>1, <1>2

(* Catching up with netSlot is a change of slots, or nothing.              *)
LEMMA SwapIfNeededInv ==
  ASSUME NEW h, LogInv(h), NEW bs, NEW e, e = slotSwapIfNeeded(h, bs)
  PROVE  LogInv(e)
  BY SwapInv DEF slotSwapIfNeeded

(* What was undone becomes obsolete where it is.                           *)
LEMMA DropRedoInv ==
  ASSUME NEW h, LogInv(h), NEW e, e = DropRedo(h)
  PROVE  /\ LogInv(e)
         /\ e.open = h.open /\ e.active = h.active /\ e.opHead = h.opHead
<1> DEFINE redo == Undone(h, h.active)
           dropped(t) == [t EXCEPT !.state = "obsolete"]
           txns == [i \in TxnIndex |->
                      IF i \in redo THEN dropped(h.txns[i]) ELSE h.txns[i]]
<1>1. IsLog(h) /\ CursorsIn(h) /\ OpenInv(h) /\ Ordered(h) /\ Kept(h)
  BY DEF LogInv
<1>2. ASSUME NEW t, IsTxn(t)
      PROVE  /\ IsTxn(dropped(t)) /\ dropped(t).firstOp = t.firstOp
             /\ dropped(t).opCount = t.opCount
  <2>1. dropped(t) = [firstOp |-> t.firstOp, opCount |-> t.opCount,
                      slot |-> t.slot, state |-> "obsolete",
                      change |-> t.change]
    BY <1>2 DEF IsTxn
  <2> HIDE DEF dropped
  <2> QED
    BY <1>2, <2>1 DEF IsTxn
<1>3. e = [h EXCEPT !.txns = txns]
  BY DEF DropRedo
<1> HIDE DEF dropped, redo
<1>4. \A i \in TxnIndex : /\ IsTxn(txns[i])
                          /\ txns[i].firstOp = h.txns[i].firstOp
                          /\ txns[i].opCount = h.txns[i].opCount
  <2> SUFFICES ASSUME NEW i \in TxnIndex
               PROVE  /\ IsTxn(txns[i])
                      /\ txns[i].firstOp = h.txns[i].firstOp
                      /\ txns[i].opCount = h.txns[i].opCount
    OBVIOUS
  <2>1. IsTxn(h.txns[i])
    BY <1>1 DEF IsLog
  <2>2. txns[i] = IF i \in redo THEN dropped(h.txns[i]) ELSE h.txns[i]
    OBVIOUS
  <2> QED
    BY <1>2, <2>1, <2>2
<1>5. txns = [i \in TxnIndex |-> txns[i]]
  OBVIOUS
<1> HIDE DEF txns
<1>6. e = [ops |-> h.ops, opHead |-> h.opHead, opTail |-> h.opTail,
           txns |-> txns, txnHead |-> h.txnHead, txnTail |-> h.txnTail,
           slotCursor |-> h.slotCursor, active |-> h.active, open |-> h.open,
           opStart |-> h.opStart, opened |-> h.opened, torn |-> h.torn]
  BY <1>1, <1>3 DEF IsLog
<1>7. IsLog(e)
  <2>1. \A i \in TxnIndex : IsTxn(txns[i])
    BY <1>4
  <2> QED
    BY <1>1, <1>5, <1>6, <2>1 DEF IsLog
<1>8. CursorsIn(e) /\ OpenInv(e)
  BY <1>1, <1>6 DEF CursorsIn, OpenInv
<1>9. Ordered(e) /\ Kept(e)
  BY <1>1, <1>4, <1>6, <1>7, SamePlaces
<1> QED
  BY <1>6, <1>7, <1>8, <1>9 DEF LogInv

(* A new transaction begins where the operations end, with room for it in  *)
(* the ring of transactions.                                               *)
LEMMA BeginInv ==
  ASSUME NEW h, LogInv(h), NEW bs, NEW e, e = undoBeginTxn(h, bs)
  PROVE  LogInv(e) /\ e.open # None /\ BundleLength(e) = 0
<1> DEFINE a == slotSwapIfNeeded(h, bs)
           b == undoEndTxn(a, bs)
           c == clampSlotCursor(b)
           d == DropRedo(c)
           f == IF txnRingNext(d.txnHead) = d.txnTail THEN EvictOldest(d)
                ELSE d
           opened == bs[f.active]
<1>1. LogInv(a)
  BY SwapIfNeededInv
<1>2. LogInv(b) /\ b.open = None
  BY <1>1, EndInv
<1>3. LogInv(c) /\ c.open = None
  BY <1>2, ClampInv
<1>4. LogInv(d) /\ d.open = None
  BY <1>3, DropRedoInv
<1>5. e = [f EXCEPT !.open = f.active, !.opStart = f.opHead, !.opened = opened]
  BY DEF undoBeginTxn
<1> HIDE DEF a, b, c, d
<1>6. LogInv(f) /\ f.open = None /\ txnRingNext(f.txnHead) # f.txnTail
  <2>1. CASE txnRingNext(d.txnHead) = d.txnTail
    <3>1. d.txnHead \in TxnIndex
      BY <1>4, LogFields DEF LogInv
    <3>2. txnRingNext(d.txnHead) # d.txnHead
      BY <3>1, Caps, AgeMoved DEF txnRingNext, TxnIndex
    <3>3. d.txnHead # d.txnTail
      BY <2>1, <3>2
    <3> QED
      BY <1>4, <2>1, <3>3, EvictInv
  <2>2. CASE txnRingNext(d.txnHead) # d.txnTail
    BY <1>4, <2>2
  <2> QED
    BY <2>1, <2>2
<1>7. IsLog(f) /\ CursorsIn(f) /\ Ordered(f) /\ Kept(f)
  BY <1>6 DEF LogInv
<1>8. f.active \in Slots /\ f.opHead \in OpIndex /\ f.active # None
  BY <1>7, LogFields, UndoRingAssumption
<1> HIDE DEF f, opened
<1>9. e = [ops |-> f.ops, opHead |-> f.opHead, opTail |-> f.opTail,
           txns |-> f.txns, txnHead |-> f.txnHead, txnTail |-> f.txnTail,
           slotCursor |-> f.slotCursor, active |-> f.active, open |-> f.active,
           opStart |-> f.opHead, opened |-> opened, torn |-> f.torn]
  BY <1>5, <1>7 DEF IsLog
<1>10. IsLog(e)
  BY <1>7, <1>8, <1>9 DEF IsLog
<1>11. CursorsIn(e) /\ OpenInv(e)
  BY <1>6, <1>7, <1>8, <1>9 DEF CursorsIn, OpenInv
<1>12. EndOfTxns(e) = EndOfTxns(f)
  BY <1>6, <1>8, <1>9 DEF EndOfTxns
<1>13. \A i : i \in InRing(e) <=> i \in InRing(f)
  BY <1>9, RingIs
<1>14. Ordered(e)
  BY <1>7, <1>9, <1>12, <1>13 DEF Ordered
<1>15. BundleLength(e) = 0
  <2>1. BundleLength(e) = Age(OpCap, f.opHead, f.opHead)
    BY <1>9 DEF BundleLength, Age
  <2> QED
    BY <1>8, <2>1, Caps, AgeApart DEF OpIndex
<1>16. Kept(e)
  BY <1>7, <1>9, <1>13, <1>15 DEF Kept
<1> QED
  BY <1>8, <1>9, <1>10, <1>11, <1>14, <1>15, <1>16 DEF LogInv

-----------------------------------------------------------------------------
(* appendOp and recordOneAction                                            *)

MadeRoom(h) ==
  IF opRingNext(h.opHead) # h.opTail THEN h
  ELSE IF h.txnHead # h.txnTail THEN EvictOldest(h)
  ELSE [h EXCEPT !.opTail = opRingNext(@)]

(* A full ring makes room.  When the open transaction is the only one left *)
(* it does not fill the ring, so its own operations are not given up.      *)
LEMMA RoomInv ==
  ASSUME NEW h, LogInv(h), h.open # None, BundleLength(h) < OpCap - 1,
         NEW e, e = MadeRoom(h)
  PROVE  /\ LogInv(e) /\ opRingNext(e.opHead) # e.opTail
         /\ e.open = h.open /\ BundleLength(e) = BundleLength(h)
<1>1. IsLog(h) /\ CursorsIn(h) /\ OpenInv(h) /\ Ordered(h) /\ Kept(h)
  BY DEF LogInv
<1>2. CASE opRingNext(h.opHead) # h.opTail
  BY <1>2 DEF MadeRoom
<1>3. CASE opRingNext(h.opHead) = h.opTail /\ h.txnHead # h.txnTail
  <2>1. e = EvictOldest(h)
    BY <1>3 DEF MadeRoom
  <2>2. /\ LogInv(e) /\ e.opHead = h.opHead /\ e.open = h.open
        /\ e.opStart = h.opStart /\ opRingNext(e.opHead) # e.opTail
    BY <1>3, <2>1, EvictInv
  <2> QED
    BY <2>2 DEF BundleLength
<1>4. CASE opRingNext(h.opHead) = h.opTail /\ h.txnHead = h.txnTail
  <2> DEFINE o == h.opTail
             u == opRingNext(h.opTail)
             OA(x) == Age(OpCap, o, x)
  <2>1. e = [ops |-> h.ops, opHead |-> h.opHead, opTail |-> u,
             txns |-> h.txns, txnHead |-> h.txnHead, txnTail |-> h.txnTail,
             slotCursor |-> h.slotCursor, active |-> h.active,
             open |-> h.open, opStart |-> h.opStart, opened |-> h.opened,
             torn |-> h.torn]
    BY <1>1, <1>4 DEF MadeRoom, IsLog
  <2>2. /\ o \in OpIndex /\ u \in OpIndex
        /\ h.opHead \in OpIndex /\ h.opStart \in OpIndex
    BY <1>1, LogFields, OpNext
  <2>3. IsLog(e)
    BY <1>1, <2>1, <2>2 DEF IsLog
  <2>4. CursorsIn(e) /\ OpenInv(e)
    BY <1>1, <2>1 DEF CursorsIn, OpenInv
  <2>5. \A i : i \notin InRing(e)
    <3>1. h.txnTail \in TxnIndex
      BY <1>1, LogFields
    <3>2. /\ Age(TxnCap, h.txnTail, h.txnTail) = 0
          /\ \A x \in TxnIndex : Age(TxnCap, h.txnTail, x) \in 0..TxnCap-1
      BY <3>1, Caps, AgeApart, AgeIs DEF TxnIndex
    <3>3. \A x \in TxnIndex : ~(Age(TxnCap, h.txnTail, x) < 0)
      BY <3>2, Caps
    <3> QED
      BY <1>4, <2>1, <3>2, <3>3, RingIs
  <2>6. OA(h.opHead) = OpCap - 1
    BY <1>4, <2>2, Caps, AgeNext DEF opRingNext, OpIndex
  <2>7. /\ BundleLength(h) \in 0..OpCap-1 /\ OA(h.opStart) \in 0..OpCap-1
        /\ OA(h.opStart) + BundleLength(h) = OA(h.opHead)
    BY <1>1, BundleIs
  <2>8. h.opStart # o /\ h.opHead # o
    <3>1. OA(o) = 0
      BY <2>2, Caps, AgeApart DEF OpIndex
    <3>2. OA(h.opStart) # 0 /\ OA(h.opHead) # 0
      BY <2>6, <2>7, Caps
    <3> QED
      BY <3>1, <3>2
  <2>9. /\ Age(OpCap, u, h.opStart) = OA(h.opStart) - 1
        /\ Age(OpCap, u, h.opHead) = OA(h.opHead) - 1 /\ u # o
    <3>1. u = (o + 1) % OpCap
      BY DEF opRingNext
    <3>2. /\ o \in 0..OpCap-1 /\ h.opStart \in 0..OpCap-1
          /\ h.opHead \in 0..OpCap-1
      BY <2>2 DEF OpIndex
    <3> HIDE DEF u
    <3>3. /\ u # o
          /\ \A x \in 0..OpCap-1 : x # o => Age(OpCap, u, x) = OA(x) - 1
      BY <3>1, <3>2, Caps, AgeMoved
    <3> QED
      BY <2>8, <3>2, <3>3
  <2>10. EndOfTxns(e) = h.opStart
    BY <2>1 DEF EndOfTxns
  <2>11. Age(OpCap, u, h.opStart) <= Age(OpCap, u, h.opHead)
    BY <2>6, <2>7, <2>9, Caps
  <2>12. Ordered(e)
    BY <2>1, <2>5, <2>10, <2>11 DEF Ordered
  <2>13. BundleLength(e) = BundleLength(h)
    BY <2>1 DEF BundleLength
  <2>14. Kept(e)
    BY <1>1, <2>1, <2>5, <2>13 DEF Kept
  <2> QED
    BY <1>4, <2>1, <2>3, <2>4, <2>9, <2>12, <2>13, <2>14 DEF LogInv
<1> QED
  BY <1>2, <1>3, <1>4

(* The operation goes behind all others, to the open transaction.          *)
LEMMA AppendInv ==
  ASSUME NEW h, LogInv(h), h.open # None, BundleLength(h) < OpCap - 1,
         NEW op, NEW e, e = appendOp(h, op)
  PROVE  LogInv(e)
<1> DEFINE a == MadeRoom(h)
           o == a.opTail
           next == opRingNext(a.opHead)
           entry == [txn |-> a.txnHead, op |-> op]
           ops == [a.ops EXCEPT ![a.opHead] = entry]
           OA(x) == Age(OpCap, o, x)
           n == BundleLength(a)
<1>1. LogInv(a) /\ next # o /\ a.open # None
  BY RoomInv
<1>2. e = [a EXCEPT !.ops[a.opHead] = entry, !.opHead = opRingNext(@)]
  BY DEF appendOp, MadeRoom
<1> HIDE DEF a
<1>3. IsLog(a) /\ CursorsIn(a) /\ OpenInv(a) /\ Ordered(a) /\ Kept(a)
  BY <1>1 DEF LogInv
<1>4. /\ o \in OpIndex /\ a.opHead \in OpIndex /\ a.opStart \in OpIndex
      /\ next \in OpIndex
  BY <1>3, LogFields, OpNext
<1>5. IsEntry(entry) /\ entry.txn = a.txnHead
  BY DEF IsEntry
<1> HIDE DEF entry
<1>6. e = [ops |-> ops, opHead |-> next, opTail |-> o,
           txns |-> a.txns, txnHead |-> a.txnHead, txnTail |-> a.txnTail,
           slotCursor |-> a.slotCursor, active |-> a.active,
           open |-> a.open, opStart |-> a.opStart, opened |-> a.opened,
           torn |-> a.torn]
  BY <1>2, <1>3 DEF IsLog
<1>7. /\ ops = [j \in OpIndex |-> ops[j]]
      /\ \A j \in OpIndex : IsEntry(ops[j])
      /\ ops[a.opHead].txn = a.txnHead
      /\ \A j \in OpIndex : j # a.opHead => ops[j] = a.ops[j]
  <2>1. /\ a.ops = [j \in OpIndex |-> a.ops[j]]
        /\ \A j \in OpIndex : IsEntry(a.ops[j])
    BY <1>3 DEF IsLog
  <2> DEFINE f == a.ops
  <2> HIDE DEF f
  <2>2. /\ ops = [j \in OpIndex |-> IF j = a.opHead THEN entry ELSE f[j]]
        /\ \A j \in OpIndex : IsEntry(f[j])
    BY <2>1 DEF f
  <2> QED
    BY <1>4, <1>5, <2>2 DEF f
<1> HIDE DEF ops
<1>8. IsLog(e)
  BY <1>3, <1>4, <1>6, <1>7 DEF IsLog
<1>9. CursorsIn(e) /\ OpenInv(e)
  BY <1>3, <1>6 DEF CursorsIn, OpenInv
<1>10. OA(next) = OA(a.opHead) + 1
  BY <1>1, <1>4, Caps, AgeNext DEF opRingNext, OpIndex
<1>11. \A x \in OpIndex : OA(x) \in 0..OpCap-1
  BY <1>4, Caps, AgeIs DEF OpIndex
<1>12. \A i : i \in InRing(e) <=> i \in InRing(a)
  BY <1>6, RingIs
<1>13. EndOfTxns(a) = a.opStart /\ EndOfTxns(e) = a.opStart
  BY <1>1, <1>6 DEF EndOfTxns
<1>14. OA(a.opStart) <= OA(a.opHead)
  BY <1>3, <1>13 DEF Ordered
<1>15. Ordered(e)
  <2>1. OA(a.opStart) <= OA(next)
    BY <1>4, <1>10, <1>11, <1>14
  <2> QED
    BY <1>3, <1>6, <1>12, <1>13, <2>1 DEF Ordered
<1>16. /\ n \in 0..OpCap-1 /\ OA(a.opStart) + n = OA(a.opHead)
       /\ BundleLength(e) = n + 1
  <2>1. n \in 0..OpCap-1 /\ OA(a.opStart) + n = OA(a.opHead)
    BY <1>1, <1>3, BundleIs
  <2>2. /\ BundleLength(e) \in 0..OpCap-1
        /\ OA(a.opStart) + BundleLength(e) = OA(next)
    BY <1>1, <1>6, <1>8, <1>15, BundleIs
  <2>3. BundleLength(e) = n + 1
    BY <1>4, <1>10, <1>11, <2>1, <2>2, Caps
  <2> QED
    BY <2>1, <2>3
(* A place that is older than the head keeps its operation.                *)
<1>17. ASSUME NEW x \in OpIndex, NEW k \in Nat, OA(x) + k < OA(a.opHead)
       PROVE  ops[(x + k) % OpCap] = a.ops[(x + k) % OpCap]
  <2>1. OA(x) + k < OpCap
    BY <1>4, <1>11, <1>17, Caps
  <2>2. /\ (x + k) % OpCap \in OpIndex
        /\ OA((x + k) % OpCap) = OA(x) + k
    BY <1>4, <2>1, Caps, AgePlus DEF OpIndex
  <2>3. (x + k) % OpCap # a.opHead
    BY <1>4, <1>11, <1>17, <2>2
  <2> QED
    BY <1>7, <2>2, <2>3
<1>18. ASSUME NEW i \in InRing(e), NEW k \in 0..e.txns[i].opCount - 1
       PROVE  e.ops[(e.txns[i].firstOp + k) % OpCap].txn = i
  <2> DEFINE x == a.txns[i].firstOp
             c == a.txns[i].opCount
  <2>1. i \in InRing(a) /\ i \in TxnIndex /\ k \in 0..c-1
    BY <1>6, <1>12, RingIs
  <2>2. x \in OpIndex /\ c \in Nat /\ OA(x) + c <= OA(a.opStart)
    BY <1>3, <1>13, <2>1, TxnIn DEF Ordered
  <2>3. a.ops[(x + k) % OpCap].txn = i
    BY <1>3, <2>1 DEF Kept
  <2> HIDE DEF x, c
  <2>4. OA(x) + k < OA(a.opHead)
    BY <1>4, <1>11, <1>14, <2>1, <2>2
  <2>5. ops[(x + k) % OpCap] = a.ops[(x + k) % OpCap]
    BY <1>17, <2>1, <2>2, <2>4
  <2> QED
    BY <1>6, <2>3, <2>5 DEF x
<1>19. ASSUME NEW k \in 0..BundleLength(e) - 1
       PROVE  e.ops[(e.opStart + k) % OpCap].txn = e.txnHead
  <2>1. k \in 0..n
    BY <1>16, <1>19
  <2>2. CASE k < n
    <3>1. OA(a.opStart) + k < OA(a.opHead)
      BY <1>4, <1>11, <1>16, <2>1, <2>2
    <3>2. ops[(a.opStart + k) % OpCap] = a.ops[(a.opStart + k) % OpCap]
      BY <1>4, <1>17, <2>1, <3>1
    <3>3. a.ops[(a.opStart + k) % OpCap].txn = a.txnHead
      BY <1>1, <1>3, <1>16, <2>1, <2>2 DEF Kept
    <3> QED
      BY <1>6, <3>2, <3>3
  <2>3. CASE k = n
    <3>1. OA(a.opStart) + n < OpCap
      BY <1>4, <1>11, <1>16, Caps
    <3>2. /\ (a.opStart + n) % OpCap \in OpIndex
          /\ OA((a.opStart + n) % OpCap) = OA(a.opHead)
      <4> DEFINE x == a.opStart
      <4>1. n \in Nat /\ x \in 0..OpCap-1 /\ o \in 0..OpCap-1 /\ OA(x) + n < OpCap
        BY <1>4, <1>16, <3>1, Caps DEF OpIndex
      <4> HIDE DEF n, x
      <4>2. /\ (x + n) % OpCap \in 0..OpCap-1
            /\ OA((x + n) % OpCap) = OA(x) + n
        BY <4>1, Caps, AgePlus
      <4> QED
        BY <1>16, <4>2 DEF OpIndex, x
    <3>3. (a.opStart + n) % OpCap = a.opHead
      BY <1>4, <3>2, Caps, AgeApart DEF OpIndex
    <3> QED
      BY <1>6, <1>7, <2>3, <3>3
  <2> QED
    BY <1>16, <2>1, <2>2, <2>3
<1>20. Kept(e)
  BY <1>18, <1>19 DEF Kept
<1> QED
  BY <1>8, <1>9, <1>15, <1>20 DEF LogInv

(* Recording one change, in a bundle or by itself.                         *)
LEMMA RecordOneInv ==
  ASSUME NEW h, LogInv(h), NEW op, NEW bs, NEW cs,
         slotSwapIfNeeded(h, bs).open = None
           \/ BundleLength(slotSwapIfNeeded(h, bs)) < MaxBundle,
         NEW e, e = recordOneAction(h, op, bs, cs)
  PROVE  LogInv(e)
<1> DEFINE a == slotSwapIfNeeded(h, bs)
<1>1. LogInv(a)
  BY SwapIfNeededInv
<1>2. CASE a.open # None
  <2>1. BundleLength(a) \in 0..OpCap-1
    BY <1>1, <1>2, BundleIs DEF LogInv
  <2>2. BundleLength(a) < OpCap - 1
    BY <1>2, <2>1, Caps
  <2>3. e = appendOp(a, op)
    BY <1>2 DEF recordOneAction
  <2> HIDE DEF a
  <2> QED
    BY <1>1, <1>2, <2>2, <2>3, AppendInv
<1>3. CASE a.open = None
  <2> DEFINE b == undoBeginTxn(a, bs)
             c == appendOp(b, op)
  <2>1. e = undoEndTxn(c, cs)
    BY <1>3 DEF recordOneAction
  <2> HIDE DEF a
  <2>2. LogInv(b) /\ b.open # None /\ BundleLength(b) = 0
    BY <1>1, BeginInv
  <2>3. BundleLength(b) < OpCap - 1
    BY <2>2, Caps
  <2> HIDE DEF b
  <2>4. LogInv(c)
    BY <2>2, <2>3, AppendInv
  <2> HIDE DEF c
  <2> QED
    BY <2>1, <2>4, EndInv
<1> QED
  BY <1>2, <1>3

(* The newest transaction's index is in the ring's range.                  *)
LEMMA TxnPrev ==
  ASSUME NEW i \in TxnIndex
  PROVE  txnRingPrev(i) \in TxnIndex
<1>1. i + TxnCap - 1 \in Int
  BY Caps DEF TxnIndex
<1>2. (i + TxnCap - 1) % TxnCap \in 0..TxnCap-1
  BY <1>1, Caps, Around
<1> QED
  BY <1>2 DEF txnRingPrev, TxnIndex

(* A slide changes what an operation carries, and no place.                *)
LEMMA RetargetInv ==
  ASSUME NEW h, LogInv(h), NEW volts, NEW bs, NEW e, e = Retarget(h, volts, bs)
  PROVE  LogInv(e)
<1> DEFINE i == txnRingPrev(h.txnHead)
           f == h.txns[i].firstOp
           after == bs[h.active]
           entry == [h.ops[f] EXCEPT !.op.next = volts]
           t == [h.txns[i] EXCEPT !.change.after = after]
           ops == [h.ops EXCEPT ![f] = entry]
           txns == [h.txns EXCEPT ![i] = t]
<1>1. IsLog(h) /\ CursorsIn(h) /\ OpenInv(h) /\ Ordered(h) /\ Kept(h)
  BY DEF LogInv
<1>2. h.txnHead \in TxnIndex /\ i \in TxnIndex
  BY <1>1, LogFields, TxnPrev
<1>3. f \in OpIndex
  BY <1>1, <1>2, TxnIn
<1>4. e = [[h EXCEPT !.ops[f].op.next = volts]
             EXCEPT !.txns[i].change.after = after]
  BY DEF Retarget
<1> HIDE DEF after, i
<1>5. e = [h EXCEPT !.ops = ops, !.txns = txns]
  BY <1>1, <1>2, <1>3, <1>4 DEF IsLog
<1>6. IsEntry(entry) /\ entry.txn = h.ops[f].txn
  <2>1. IsEntry(h.ops[f])
    BY <1>1, <1>3 DEF IsLog
  <2> DEFINE x == h.ops[f]
  <2> HIDE DEF x
  <2>2. x = [txn |-> x.txn, op |-> x.op]
    BY <2>1 DEF IsEntry, x
  <2>3. entry = [x EXCEPT !.op.next = volts]
    BY DEF x
  <2> HIDE DEF entry
  <2>4. entry = [txn |-> x.txn, op |-> [x.op EXCEPT !.next = volts]]
    BY <2>2, <2>3
  <2>5. IsEntry(entry) /\ entry.txn = x.txn
    BY <2>4 DEF IsEntry
  <2> QED
    BY <2>5 DEF x
<1>7. IsTxn(t) /\ t.firstOp = h.txns[i].firstOp /\ t.opCount = h.txns[i].opCount
  <2>1. IsTxn(h.txns[i])
    BY <1>1, <1>2 DEF IsLog
  <2> DEFINE x == h.txns[i]
  <2> HIDE DEF x
  <2>2. IsTxn(x) /\ t = [x EXCEPT !.change.after = after]
    BY <2>1 DEF x
  <2>3. t = [firstOp |-> x.firstOp, opCount |-> x.opCount, slot |-> x.slot,
             state |-> x.state, change |-> [x.change EXCEPT !.after = after]]
    BY <2>2 DEF IsTxn
  <2> HIDE DEF t
  <2> QED
    BY <2>2, <2>3 DEF IsTxn, x
<1> HIDE DEF entry, t
<1>8. /\ ops = [j \in OpIndex |-> ops[j]]
      /\ \A j \in OpIndex : IsEntry(ops[j]) /\ ops[j].txn = h.ops[j].txn
  <2>1. /\ h.ops = [j \in OpIndex |-> h.ops[j]]
        /\ \A j \in OpIndex : IsEntry(h.ops[j])
    BY <1>1 DEF IsLog
  <2> DEFINE g == h.ops
  <2> HIDE DEF g
  <2>2. /\ ops = [j \in OpIndex |-> IF j = f THEN entry ELSE g[j]]
        /\ \A j \in OpIndex : IsEntry(g[j])
        /\ entry.txn = g[f].txn
    BY <1>6, <2>1 DEF g
  <2> HIDE DEF f, ops
  <2> QED
    BY <1>6, <2>2 DEF g
<1>9. /\ txns = [j \in TxnIndex |-> txns[j]]
      /\ \A j \in TxnIndex : /\ IsTxn(txns[j])
                             /\ txns[j].firstOp = h.txns[j].firstOp
                             /\ txns[j].opCount = h.txns[j].opCount
  <2>1. /\ h.txns = [j \in TxnIndex |-> h.txns[j]]
        /\ \A j \in TxnIndex : IsTxn(h.txns[j])
    BY <1>1 DEF IsLog
  <2> DEFINE g == h.txns
  <2> HIDE DEF g
  <2>2. /\ txns = [j \in TxnIndex |-> IF j = i THEN t ELSE g[j]]
        /\ \A j \in TxnIndex : IsTxn(g[j])
        /\ t.firstOp = g[i].firstOp /\ t.opCount = g[i].opCount
    BY <1>7, <2>1 DEF g
  <2> HIDE DEF txns
  <2> QED
    BY <1>7, <2>2 DEF g
<1> HIDE DEF ops, txns
<1>10. e = [ops |-> ops, opHead |-> h.opHead, opTail |-> h.opTail,
            txns |-> txns, txnHead |-> h.txnHead, txnTail |-> h.txnTail,
            slotCursor |-> h.slotCursor, active |-> h.active,
            open |-> h.open, opStart |-> h.opStart, opened |-> h.opened,
            torn |-> h.torn]
  BY <1>1, <1>5 DEF IsLog
<1>11. IsLog(e)
  BY <1>1, <1>8, <1>9, <1>10 DEF IsLog
<1>12. CursorsIn(e) /\ OpenInv(e)
  BY <1>1, <1>10 DEF CursorsIn, OpenInv
<1>13. Ordered(e) /\ Kept(e)
  BY <1>1, <1>8, <1>9, <1>10, <1>11, SamePlaces
<1> QED
  BY <1>11, <1>12, <1>13 DEF LogInv

-----------------------------------------------------------------------------
(* The steps                                                               *)

(* A query catches up, may end a quiet bundle, and clamps.                 *)
LEMMA LookedInv ==
  ASSUME LogInv(log), NEW stale \in BOOLEAN
  PROVE  LogInv(Looked(stale))
<1> DEFINE a == slotSwapIfNeeded(log, board)
           b == IF stale THEN undoEndTxn(a, board) ELSE a
<1>1. LogInv(a)
  BY SwapIfNeededInv
<1>2. LogInv(b)
  BY <1>1, EndInv
<1>3. Looked(stale) = clampSlotCursor(b)
  BY DEF Looked
<1> HIDE DEF b
<1> QED
  BY <1>2, <1>3, ClampInv

(* What can be undone can still be undone when the open transaction ends.  *)
LEMMA EndKeepsDone ==
  ASSUME NEW h, LogInv(h), NEW s \in Slots, Done(h, s) # {}, NEW bs,
         NEW e, e = undoEndTxn(h, bs)
  PROVE  Done(e, s) # {}
<1>1. CASE h.open = None
  BY <1>1 DEF undoEndTxn
<1>2. CASE h.open # None
  <2> DEFINE hd == h.txnHead
             TA(x) == Age(TxnCap, h.txnTail, x)
  <2>1. IsLog(h) /\ OpenInv(h)
    BY DEF LogInv
  <2>2. /\ e.txnTail = h.txnTail
        /\ \A i \in TxnIndex : i # hd => e.txns[i] = h.txns[i]
        /\ BundleLength(h) = 0 => e.txnHead = hd /\ e.slotCursor = h.slotCursor
        /\ BundleLength(h) # 0 =>
             /\ e.txnHead = txnRingNext(hd)
             /\ \A r \in Slots : \/ e.slotCursor[r] = e.txnHead
                                 \/ e.slotCursor[r] = h.slotCursor[r]
    BY <1>2, EndShape
  <2>3. h.txnTail \in TxnIndex /\ hd \in TxnIndex
    BY <2>1, LogFields
  <2>4. TA(txnRingNext(hd)) = TA(hd) + 1
    BY <1>2, <2>1, <2>3, Caps, AgeNext DEF OpenInv, txnRingNext, TxnIndex
  <2>5. \A x \in TxnIndex : TA(x) \in 0..TxnCap-1
    BY <2>3, Caps, AgeIs DEF TxnIndex
  <2>6. PICK j \in TxnIndex : /\ TA(j) < TA(hd)
                              /\ txnBelongsToSlot(h.txns[j], s)
                              /\ TA(j) < TA(h.slotCursor[s])
    BY DEF Done, Reachable, InRing, TxnAge, Age
  <2>7. TA(j) \in Int /\ TA(hd) \in Int
    BY <2>3, <2>5
  <2>8. e.txns[j] = h.txns[j]
    BY <2>2, <2>6, <2>7
  <2>9. TA(j) < TA(e.txnHead)
    BY <2>2, <2>4, <2>6, <2>7
  <2>10. TA(j) < TA(e.slotCursor[s])
    BY <2>2, <2>6, <2>9
  <2>11. j \in InRing(e)
    BY <2>2, <2>9, RingIs
  <2>12. j \in Done(e, s)
    BY <2>2, <2>6, <2>8, <2>10, <2>11 DEF Done, Reachable, TxnAge, Age
  <2> QED
    BY <2>12
<1> QED
  BY <1>1, <1>2

(* undoUndo puts the cursor on a transaction of the ring.                  *)
LEMMA UndoInv ==
  ASSUME LogInv(log), NEW stale \in BOOLEAN, undoUndo(stale)
  PROVE  LogInv(log')
<1> DEFINE a == Looked(stale)
           e == undoEndTxn(a, board)
           i == findPrevSlotTxn(e, e.active)
           torn == IF Breaks(e, e.txns[i]) THEN e.torn \union {e.active}
                   ELSE e.torn
<1>1. LogInv(a) /\ Done(a, a.active) # {}
  BY LookedInv DEF undoUndo
<1> DEFINE moved == [e EXCEPT !.slotCursor[e.active] = i, !.torn = torn]
<1>2. log' = Misplaced(moved)
  BY DEF undoUndo
<1> HIDE DEF moved
<1> HIDE DEF a
<1>3. LogInv(e) /\ e.active = a.active
  BY <1>1, EndInv
<1>4. a.active \in Slots
  BY <1>1, LogFields DEF LogInv
<1>5. Done(e, e.active) # {}
  BY <1>1, <1>3, <1>4, EndKeepsDone
<1> HIDE DEF e, torn
<1>6. i \in InRing(e)
  <2> DEFINE S == Done(e, e.active)
  <2>1. S \in SUBSET (0..TxnCap-1)
    BY DEF Done, Reachable, InRing, TxnIndex
  <2>2. e.txnTail \in 0..TxnCap-1
    BY <1>3, LogFields DEF LogInv, TxnIndex
  <2>3. \E x \in S : \A y \in S :
          Age(TxnCap, e.txnTail, y) <= Age(TxnCap, e.txnTail, x)
    <3> HIDE DEF S
    <3> QED
      BY <1>5, <2>1, <2>2, Caps, Youngest DEF S
  <2>4. \E x \in S : \A y \in S : TxnAge(e, y) <= TxnAge(e, x)
    BY <2>3 DEF Age, TxnAge
  <2>5. i \in S
    BY <2>4 DEF findPrevSlotTxn
  <2> QED
    BY <2>5 DEF Done, Reachable
<1> HIDE DEF i
<1>7. /\ i \in TxnIndex
      /\ Age(TxnCap, e.txnTail, i) < Age(TxnCap, e.txnTail, e.txnHead)
  BY <1>6, RingIs
<1>8. /\ Age(TxnCap, e.txnTail, i) <= Age(TxnCap, e.txnTail, e.txnHead)
      /\ e.active \in Slots
  <2>1. e.txnTail \in TxnIndex /\ e.txnHead \in TxnIndex
    BY <1>3, LogFields DEF LogInv
  <2>2. /\ Age(TxnCap, e.txnTail, i) \in 0..TxnCap-1
        /\ Age(TxnCap, e.txnTail, e.txnHead) \in 0..TxnCap-1
    BY <1>7, <2>1, Caps, AgeIs DEF TxnIndex
  <2> QED
    BY <1>3, <1>4, <1>7, <2>2
<1>9. moved = WithCursor(e, e.active, i, torn)
  BY DEF moved, WithCursor
<1>10. LogInv(moved)
  BY <1>3, <1>7, <1>8, <1>9, CursorInv
<1> QED
  BY <1>2, <1>10, MisplacedInv

(* undoRedo puts the cursor behind a transaction of the ring.              *)
LEMMA RedoInv ==
  ASSUME LogInv(log), NEW stale \in BOOLEAN, undoRedo(stale)
  PROVE  LogInv(log')
<1> DEFINE a == Looked(stale)
           i == findNextSlotTxn(a, a.active)
           next == txnRingNext(i)
           TA(x) == Age(TxnCap, a.txnTail, x)
<1>1. LogInv(a) /\ Undone(a, a.active) # {}
  BY LookedInv DEF undoRedo
<1> DEFINE moved == [a EXCEPT !.slotCursor[a.active] = next]
<1>2. log' = Misplaced(moved)
  BY DEF undoRedo
<1> HIDE DEF moved
<1> HIDE DEF a
<1>3. a.active \in Slots /\ a.txnTail \in TxnIndex /\ a.txnHead \in TxnIndex
  BY <1>1, LogFields DEF LogInv
<1>4. i \in InRing(a)
  <2> DEFINE S == Undone(a, a.active)
  <2>1. S \in SUBSET (0..TxnCap-1)
    BY DEF Undone, Reachable, InRing, TxnIndex
  <2>2. \E x \in S : \A y \in S : TA(x) <= TA(y)
    <3>1. a.txnTail \in 0..TxnCap-1
      BY <1>3 DEF TxnIndex
    <3> HIDE DEF S
    <3> QED
      BY <1>1, <2>1, <3>1, Caps, Oldest DEF S
  <2>3. \E x \in S : \A y \in S : TxnAge(a, x) <= TxnAge(a, y)
    BY <2>2 DEF Age, TxnAge
  <2>4. i \in S
    BY <2>3 DEF findNextSlotTxn
  <2> QED
    BY <2>4 DEF Undone, Reachable
<1> HIDE DEF i
<1>5. i \in TxnIndex /\ TA(i) < TA(a.txnHead)
  BY <1>4, RingIs
<1>6. TA(i) \in 0..TxnCap-1 /\ TA(a.txnHead) \in 0..TxnCap-1
  BY <1>3, <1>5, Caps, AgeIs DEF TxnIndex
<1>7. next \in TxnIndex
  BY <1>5, TxnNext
<1>8. TA(next) <= TA(a.txnHead)
  <2>1. next # a.txnTail => TA(next) = TA(i) + 1
    BY <1>3, <1>5, Caps, AgeNext DEF txnRingNext, TxnIndex
  <2>2. next # a.txnTail
    <3>1. next = a.txnTail => TA(i) = TxnCap - 1
      BY <1>3, <1>5, Caps, AgeNext DEF txnRingNext, TxnIndex
    <3> QED
      BY <1>5, <1>6, <3>1, Caps
  <2> HIDE DEF next
  <2> QED
    BY <1>5, <1>6, <2>1, <2>2
<1>9. moved = WithCursor(a, a.active, next, a.torn)
  <2>1. IsLog(a)
    BY <1>1 DEF LogInv
  <2> HIDE DEF next
  <2> QED
    BY <2>1 DEF WithCursor, IsLog, moved
<1> HIDE DEF next
<1>10. LogInv(moved)
  BY <1>1, <1>3, <1>7, <1>8, <1>9, CursorInv
<1> QED
  BY <1>2, <1>10, MisplacedInv

(* A log with nothing in it.                                               *)
LEMMA EmptyInv ==
  ASSUME NEW h, IsLog(h), h.open = None, h.opHead = 0, h.opTail = 0,
         h.txnHead = 0, h.txnTail = 0, \A s \in Slots : h.slotCursor[s] = 0
  PROVE  LogInv(h)
<1>1. 0 \in TxnIndex /\ 0 \in OpIndex
  BY Caps DEF TxnIndex, OpIndex
<1>2. Age(TxnCap, 0, 0) = 0 /\ Age(OpCap, 0, 0) = 0
  BY <1>1, Caps, AgeApart DEF TxnIndex, OpIndex
<1>3. \A i : i \notin InRing(h)
  <2>1. \A x \in TxnIndex : Age(TxnCap, 0, x) \in 0..TxnCap-1
    BY <1>1, Caps, AgeIs DEF TxnIndex
  <2>2. \A x \in TxnIndex : ~(Age(TxnCap, 0, x) < 0)
    BY <2>1, Caps
  <2> QED
    BY <1>2, <2>2, RingIs
<1>4. CursorsIn(h) /\ OpenInv(h)
  BY <1>2 DEF CursorsIn, OpenInv
<1>5. Ordered(h) /\ Kept(h)
  BY <1>2, <1>3 DEF Ordered, Kept, EndOfTxns
<1> QED
  BY <1>4, <1>5 DEF LogInv

(* The log starts empty.                                                   *)
LEMMA InitInv == Init => LogInv(log)
<1> SUFFICES ASSUME Init PROVE LogInv(log)
  OBVIOUS
<1> DEFINE none == [kind |-> "none"]
           same == [before |-> NewBoard, after |-> NewBoard]
           entry == [txn |-> 0, op |-> none]
           txn == [firstOp |-> 0, opCount |-> 0, slot |-> netSlot,
                   state |-> "committed", change |-> same]
           ops == [i \in OpIndex |-> entry]
           txns == [i \in TxnIndex |-> txn]
           cursor == [s \in Slots |-> 0]
           fresh == NewBoard
<1>1. 0 \in OpIndex /\ 0 \in TxnIndex /\ 0 \in 0..OpCap-1
  BY Caps DEF OpIndex, TxnIndex
<1>2. netSlot \in Slots
  BY DEF Init
<1>3. log = [ops |-> ops, opHead |-> 0, opTail |-> 0, txns |-> txns,
             txnHead |-> 0, txnTail |-> 0, slotCursor |-> cursor,
             active |-> netSlot, open |-> None, opStart |-> 0,
             opened |-> fresh, torn |-> {}]
  BY DEF Init
<1> HIDE DEF none, same, fresh
<1>4. IsEntry(entry) /\ IsTxn(txn)
  BY <1>1 DEF IsEntry, IsTxn
<1> HIDE DEF entry, txn
<1>5. /\ ops = [i \in OpIndex |-> ops[i]]
      /\ txns = [i \in TxnIndex |-> txns[i]]
      /\ \A i \in OpIndex : IsEntry(ops[i])
      /\ \A i \in TxnIndex : IsTxn(txns[i])
      /\ cursor \in [Slots -> TxnIndex]
      /\ \A s \in Slots : cursor[s] = 0
  BY <1>1, <1>4
<1> HIDE DEF ops, txns, cursor
<1>6. IsLog(log)
  BY <1>1, <1>2, <1>3, <1>5 DEF IsLog
<1> QED
  BY <1>3, <1>5, <1>6, EmptyInv

(* Wiping empties both rings and returns every cursor.                     *)
LEMMA WipeInv ==
  ASSUME LogInv(log), undoWipeHistory
  PROVE  LogInv(log')
<1> DEFINE cursor == [s \in Slots |-> 0]
<1>1. 0 \in OpIndex /\ 0 \in TxnIndex
  BY Caps DEF OpIndex, TxnIndex
<1>2. cursor \in [Slots -> TxnIndex] /\ \A s \in Slots : cursor[s] = 0
  BY <1>1
<1>3. IsLog(log)
  BY DEF LogInv
<1>4. log' = [log EXCEPT !.open = None, !.torn = {}, !.opHead = 0, !.opTail = 0,
                         !.txnHead = 0, !.txnTail = 0, !.slotCursor = cursor]
  BY DEF undoWipeHistory
<1> HIDE DEF cursor
<1>5. log' = [ops |-> log.ops, opHead |-> 0, opTail |-> 0,
              txns |-> log.txns, txnHead |-> 0, txnTail |-> 0,
              slotCursor |-> cursor, active |-> log.active, open |-> None,
              opStart |-> log.opStart, opened |-> log.opened, torn |-> {}]
  BY <1>3, <1>4 DEF IsLog
<1>6. IsLog(log')
  BY <1>1, <1>2, <1>3, <1>5 DEF IsLog
<1> QED
  BY <1>2, <1>5, <1>6, EmptyInv

(* The hooks' changes.                                                     *)
LEMMA RecordInv ==
  ASSUME LogInv(log), NEW op, NEW b, Record(op, b)
  PROVE  LogInv(log')
<1> DEFINE e == recordOneAction(log, op, board, board')
<1>1. log' = Misplaced(e)
  BY DEF Record
<1>2. \/ slotSwapIfNeeded(log, board).open = None
      \/ BundleLength(slotSwapIfNeeded(log, board)) < MaxBundle
  BY DEF Record, MayRecord
<1>3. LogInv(e)
  BY <1>2, RecordOneInv
<1> HIDE DEF e
<1> QED
  BY <1>1, <1>3, MisplacedInv

(* The hooks.                                                              *)
LEMMA EditInv ==
  ASSUME LogInv(log), Edit
  PROVE  LogInv(log')
<1>1. ASSUME NEW b \in Bridges, addConnection(b)
      PROVE  LogInv(log')
  BY <1>1, RecordInv DEF addConnection
<1>2. ASSUME NEW b \in Bridges, removeConnection(b)
      PROVE  LogInv(log')
  BY <1>2, RecordInv DEF removeConnection
<1>3. ASSUME clearAllConnections
      PROVE  LogInv(log')
  BY <1>3, RecordInv DEF clearAllConnections
<1>4. ASSUME NEW c \in Channels, NEW v \in Volts, NEW soon \in BOOLEAN,
             setVoltage(c, v, soon)
      PROVE  LogInv(log')
  <2> DEFINE a == slotSwapIfNeeded(log, board)
             b == board[netSlot]
             op == [kind |-> "dac", channel |-> c, prev |-> b.volts[c],
                    next |-> v]
  <2>1. \/ log' = Misplaced(Retarget(a, v, board'))
        \/ Record(op, applyOp(op, b))
    BY <1>4 DEF setVoltage
  <2>2. CASE log' = Misplaced(Retarget(a, v, board'))
    <3>1. LogInv(a)
      BY SwapIfNeededInv
    <3> DEFINE r == Retarget(a, v, board')
    <3> HIDE DEF a
    <3>2. LogInv(r)
      BY <3>1, RetargetInv
    <3> HIDE DEF r
    <3> QED
      BY <2>2, <3>2, MisplacedInv DEF r
  <2>3. CASE Record(op, applyOp(op, b))
    BY <2>3, RecordInv
  <2> QED
    BY <2>1, <2>2, <2>3
<1> QED
  BY <1>1, <1>2, <1>3, <1>4 DEF Edit

(* Every step keeps the invariant.                                         *)
LEMMA NextInv ==
  LogInv(log) /\ [Next]_vars => LogInv(log')
<1> SUFFICES ASSUME LogInv(log), [Next]_vars PROVE LogInv(log')
  OBVIOUS
<1>1. CASE Edit
  BY <1>1, EditInv
<1>2. CASE BeginBundle
  BY <1>2, BeginInv DEF BeginBundle
<1>3. CASE EndBundle
  BY <1>3, EndInv DEF EndBundle
<1>4. ASSUME NEW stale \in BOOLEAN, Look(stale)
      PROVE  LogInv(log')
  BY <1>4, LookedInv DEF Look
<1>5. ASSUME NEW stale \in BOOLEAN, undoUndo(stale)
      PROVE  LogInv(log')
  BY <1>5, UndoInv
<1>6. ASSUME NEW stale \in BOOLEAN, undoRedo(stale)
      PROVE  LogInv(log')
  BY <1>6, RedoInv
<1>7. CASE undoWipeHistory
  BY <1>7, WipeInv
<1>8. ASSUME NEW s \in Slots \union Guests, NEW told \in BOOLEAN,
             SwitchSlot(s, told)
      PROVE  LogInv(log')
  BY <1>8, SwapInv DEF SwitchSlot
<1>9. CASE UNCHANGED vars
  BY <1>9 DEF vars
<1> QED
  BY <1>1, <1>2, <1>3, <1>4, <1>5, <1>6, <1>7, <1>8, <1>9 DEF Next

(* LogInv is what the invariants below need, and is inductive.             *)
THEOREM LogAlways == Spec => []LogInv(log)
<1>1. Init => LogInv(log)
  BY InitInv
<1>2. LogInv(log) /\ [Next]_vars => LogInv(log)'
  BY NextInv
<1> QED
  BY <1>1, <1>2, PTL DEF Spec

(* undoUndo, undoRedo and the clamp compare a slot's cursor with the head  *)
(* by its distance from the tail, which says nothing of a cursor outside   *)
(* the ring.  EvictOldest moves every slot's cursor with the tail, and so  *)
(* no cursor ever is.                                                      *)
THEOREM CursorsInRingCorrect == Spec => []CursorsInRing
<1>1. LogInv(log) => CursorsInRing
  BY DEF LogInv, CursorsIn, CursorsInRing, TxnAge, Age
<1> QED
  BY <1>1, LogAlways, PTL

(* appendOp writes over the oldest operations only after EvictOldest has   *)
(* taken their transaction out of the ring: for every capacity of the two  *)
(* rings and any bundles shorter than the ring of operations.              *)
THEOREM OpsKeptCorrect == Spec => []OpsKept
<1>1. LogInv(log) => OpsKept
  BY DEF LogInv, Kept, OpsKept
<1> QED
  BY <1>1, LogAlways, PTL

-----------------------------------------------------------------------------
(* Least counterexamples                                                   *)

(* The order of the numbers has no endless descent.                        *)
LEMMA LessWellFounded ==
  \E R : /\ IsWellFoundedOn(R, Nat)
         /\ \A m, n \in Nat : m < n => <<m, n>> \in R
<1> DEFINE R == OpToRel(<, Nat)
<1>1. IsWellFoundedOn(R, Nat)
  BY NatLessThanWellFounded
<1>2. \A m, n \in Nat : m < n => <<m, n>> \in R
  BY DEF OpToRel
<1> QED
  BY <1>1, <1>2

(* A non-empty set of numbers has a least one: induction, without an       *)
(* operator for what is shown.                                             *)
LEMMA Least ==
  ASSUME NEW S \in SUBSET Nat, S # {}
  PROVE  \E n \in S : \A m \in S : n <= m
<1>1. PICK R : IsWellFoundedOn(R, Nat)
      /\ \A m, n \in Nat : m < n => <<m, n>> \in R
  BY LessWellFounded
<1>2. S \subseteq Nat
  OBVIOUS
<1>3. IsWellFoundedOn(R, Nat)
  BY <1>1
<1>4. \E n \in S : \A m \in S : ~(<<m, n>> \in R)
  BY <1>2, <1>3, WFMin, Zenon
<1>5. PICK n \in S : \A m \in S : ~(<<m, n>> \in R)
  BY <1>4
<1>6. \A m \in S : ~(m < n)
  BY <1>1, <1>2, <1>5
<1> QED
  BY <1>2, <1>6

(* A set of numbers that goes on from each number to the next has all.     *)
LEMMA AllNumbers ==
  ASSUME NEW S, 0 \in S, \A k \in Nat : k \in S => k + 1 \in S
  PROVE  Nat \subseteq S
<1>1. SUFFICES ASSUME Nat \ S # {} PROVE FALSE
  OBVIOUS
<1>2. PICK n \in Nat \ S : \A m \in Nat \ S : n <= m
  BY <1>1, Least
<1>3. n - 1 \in Nat /\ n - 1 \in S
  BY <1>2
<1>4. n \in S
  BY <1>3
<1> QED
  BY <1>2, <1>4

(* f starts at b and goes on by the functions of F.                        *)
Iterates(f, F, b, n) ==
  f = [k \in 0..n |-> IF k = 0 THEN b ELSE F[k][f[k - 1]]]

(* Functions from S to S do not lead out of S.                             *)
LEMMA IteratesType ==
  ASSUME NEW S, NEW m \in Nat, NEW F \in [1..m -> [S -> S]], NEW b \in S,
         NEW n \in 0..m, NEW f, Iterates(f, F, b, n)
  PROVE  f \in [0..n -> S]
<1> DEFINE T == {k \in Nat : k <= n => f[k] \in S}
<1>1. \A k \in 0..n : f[k] = IF k = 0 THEN b ELSE F[k][f[k - 1]]
  BY DEF Iterates
<1>2. 0 \in T
  BY <1>1
<1>3. ASSUME NEW k \in Nat, k \in T PROVE k + 1 \in T
  <2> SUFFICES ASSUME k + 1 <= n PROVE f[k + 1] \in S
    OBVIOUS
  <2>1. f[k] \in S /\ k + 1 \in 1..m /\ k + 1 \in 0..n /\ (k + 1) - 1 = k
    BY <1>3
  <2>2. f[k + 1] = F[k + 1][f[k]]
    BY <1>1, <2>1
  <2> QED
    BY <2>1, <2>2
<1> HIDE DEF T
<1>4. \A k \in Nat : k \in T
  BY <1>2, <1>3, AllNumbers
<1>5. \A k \in 0..n : f[k] \in S
  BY <1>4 DEF T
<1>6. f = [k \in 0..n |-> f[k]]
  BY <1>1 DEF Iterates
<1> QED
  BY <1>5, <1>6

(* One more step can be taken.                                             *)
LEMMA IteratesMore ==
  ASSUME NEW F, NEW b, NEW n \in Nat, NEW f, Iterates(f, F, b, n)
  PROVE  \E g : Iterates(g, F, b, n + 1)
<1> DEFINE at(k) == IF k = n + 1 THEN F[n + 1][f[n]] ELSE f[k]
           g == [k \in 0..(n + 1) |-> at(k)]
<1>1. \A k \in 0..n : f[k] = IF k = 0 THEN b ELSE F[k][f[k - 1]]
  BY DEF Iterates
<1>2. \A k \in 0..(n + 1) : at(k) = IF k = 0 THEN b ELSE F[k][g[k - 1]]
  <2> SUFFICES ASSUME NEW k \in 0..(n + 1)
               PROVE  at(k) = IF k = 0 THEN b ELSE F[k][g[k - 1]]
    OBVIOUS
  <2>1. CASE k = 0
    BY <1>1, <2>1
  <2>2. CASE k \in 1..(n + 1)
    <3>1. k - 1 \in 0..n /\ k # 0 /\ k - 1 \in 0..(n + 1) /\ k - 1 # n + 1
      BY <2>2
    <3>2. g[k - 1] = f[k - 1]
      BY <3>1
    <3>3. at(k) = F[k][f[k - 1]]
      <4>1. CASE k = n + 1
        BY <4>1
      <4>2. CASE k \in 1..n
        BY <1>1, <4>2, <3>1
      <4> QED
        BY <2>2, <4>1, <4>2
    <3> QED
      BY <3>1, <3>2, <3>3
  <2> QED
    BY <2>1, <2>2
<1> HIDE DEF at
<1>3. g = [k \in 0..(n + 1) |-> IF k = 0 THEN b ELSE F[k][g[k - 1]]]
  BY <1>2
<1>4. Iterates(g, F, b, n + 1)
  BY <1>3 DEF Iterates
<1> QED
  BY <1>4

(* There are as many steps as one likes.                                   *)
LEMMA IteratesAll ==
  ASSUME NEW F, NEW b, NEW n \in Nat
  PROVE  \E f : Iterates(f, F, b, n)
<1> DEFINE S == {k \in Nat : \E f : Iterates(f, F, b, k)}
<1>1. 0 \in S
  <2> DEFINE g == [k \in 0..0 |-> b]
  <2>1. g = [k \in 0..0 |-> IF k = 0 THEN b ELSE F[k][g[k - 1]]]
    OBVIOUS
  <2>2. Iterates(g, F, b, 0)
    BY <2>1 DEF Iterates
  <2> QED
    BY <2>2
<1>2. \A k \in Nat : k \in S => k + 1 \in S
  BY IteratesMore
<1> HIDE DEF S
<1>3. n \in S
  BY <1>1, <1>2, AllNumbers
<1> QED
  BY <1>3 DEF S

-----------------------------------------------------------------------------
(* Boards, and the operations on them                                      *)

(* What an operation of each kind carries.                                 *)
LEMMA OperationIs ==
  ASSUME NEW op \in Operation
  PROVE  /\ op.kind \in {"none", "connect", "disconnect", "dac", "clear"}
         /\ op.kind \in {"connect", "disconnect"} => op.bridge \in Bridges
         /\ op.kind = "dac" =>
              op.channel \in Channels /\ op.prev \in Volts /\ op.next \in Volts
         /\ op.kind = "clear" => op.at \in 0..ArenaCap /\ op.captured \in Board
  BY DEF Operation

(* A board with other bridges, or another voltage, is a board.             *)
LEMMA BoardWith ==
  ASSUME NEW b \in Board
  PROVE  /\ \A x \in SUBSET Bridges : [b EXCEPT !.bridges = x] \in Board
         /\ \A c \in Channels, v \in Volts : [b EXCEPT !.volts[c] = v] \in Board
         /\ b.bridges \subseteq Bridges
         /\ \A c \in Channels : b.volts[c] \in Volts
  BY DEF Board

(* The arena holds captured boards.                                        *)
ArenaType ==
  arena \in [blobs : SUBSET [at : 0..ArenaCap, board : Board],
             used : 0..ArenaCap]

(* applyOp makes a board of a board.                                       *)
LEMMA ApplyType ==
  ASSUME NEW op \in Operation, NEW b \in Board
  PROVE  applyOp(op, b) \in Board
<1> USE OperationIs, BoardWith
<1>1. CASE op.kind = "connect"
  <2>1. b.bridges \union {op.bridge} \in SUBSET Bridges
    BY <1>1
  <2> QED
    BY <1>1, <2>1 DEF applyOp
<1>2. CASE op.kind = "disconnect"
  <2>1. b.bridges \ {op.bridge} \in SUBSET Bridges
    BY <1>2
  <2> QED
    BY <1>2, <2>1 DEF applyOp
<1>3. CASE op.kind = "dac"
  <2>1. op.channel \in Channels /\ op.next \in Volts
    BY <1>3
  <2> QED
    BY <1>3, <2>1 DEF applyOp
<1>4. CASE op.kind = "clear"
  BY <1>4 DEF applyOp
<1>5. CASE op.kind = "none"
  BY <1>5 DEF applyOp
<1> QED
  BY <1>1, <1>2, <1>3, <1>4, <1>5

(* What blobRestoreState brings back is a board.                           *)
LEMMA RestoreType ==
  ASSUME ArenaType, NEW at, NEW b \in Board
  PROVE  blobRestoreState(at, b) \in Board
<1>1. CASE Captured(at) = {}
  BY <1>1 DEF blobRestoreState
<1>2. CASE Captured(at) # {}
  <2> DEFINE x == CHOOSE y \in Captured(at) : TRUE
  <2>1. x \in Captured(at)
    BY <1>2
  <2>2. x.board \in Board
    BY <2>1 DEF Captured, ArenaType
  <2> QED
    BY <1>2, <2>2 DEF blobRestoreState
<1> QED
  BY <1>1, <1>2

(* revertOp makes a board of a board, captured or not.                     *)
LEMMA RevertType ==
  ASSUME ArenaType, NEW op \in Operation, NEW b \in Board
  PROVE  revertOp(op, b) \in Board
<1> USE OperationIs, BoardWith
<1>1. CASE op.kind = "connect"
  <2>1. b.bridges \ {op.bridge} \in SUBSET Bridges
    BY <1>1
  <2> QED
    BY <1>1, <2>1 DEF revertOp
<1>2. CASE op.kind = "disconnect"
  <2>1. b.bridges \union {op.bridge} \in SUBSET Bridges
    BY <1>2
  <2> QED
    BY <1>2, <2>1 DEF revertOp
<1>3. CASE op.kind = "dac"
  <2>1. op.channel \in Channels /\ op.prev \in Volts
    BY <1>3
  <2> QED
    BY <1>3, <2>1 DEF revertOp
<1>4. CASE op.kind = "clear"
  BY <1>4, RestoreType DEF revertOp
<1>5. CASE op.kind = "none"
  BY <1>5 DEF revertOp
<1> QED
  BY <1>1, <1>2, <1>3, <1>4, <1>5

(* The boards on the way through a transaction's operations.               *)
Applies(f, h, t, b) ==
  f = [k \in 0..t.opCount |->
         IF k = 0 THEN b ELSE applyOp(OpOf(h, t, k - 1), f[k - 1])]

(* The same on the way back.                                               *)
Reverts(f, h, t, b) ==
  f = [k \in 0..t.opCount |->
         IF k = 0 THEN b ELSE revertOp(OpOf(h, t, t.opCount - k), f[k - 1])]

(* Redoing a transaction goes through its operations one by one.           *)
LEMMA AppliedIs ==
  ASSUME NEW h, NEW t, t.opCount \in Nat, NEW b \in Board,
         \A k \in 0..t.opCount - 1 : OpOf(h, t, k) \in Operation
  PROVE  \E f \in [0..t.opCount -> Board] :
           Applies(f, h, t, b) /\ Applied(h, t, b) = f[t.opCount]
<1> DEFINE n == t.opCount
           F == [k \in 1..n |-> [x \in Board |-> applyOp(OpOf(h, t, k - 1), x)]]
<1>1. F \in [1..n -> [Board -> Board]]
  <2>1. \A k \in 1..n : OpOf(h, t, k - 1) \in Operation
    OBVIOUS
  <2> QED
    BY <2>1, ApplyType
<1>2. ASSUME NEW g, Iterates(g, F, b, n)
      PROVE g \in [0..n -> Board] /\ Applies(g, h, t, b)
  <2>1. g \in [0..n -> Board]
    <3>1. n \in Nat /\ n \in 0..n
      OBVIOUS
    <3> HIDE DEF F, n
    <3> QED
      BY <1>1, <1>2, <3>1, IteratesType
  <2>2. \A k \in 0..n :
          k # 0 => F[k][g[k - 1]] = applyOp(OpOf(h, t, k - 1), g[k - 1])
    <3> SUFFICES ASSUME NEW k \in 0..n, k # 0
                 PROVE  F[k][g[k - 1]] = applyOp(OpOf(h, t, k - 1), g[k - 1])
      OBVIOUS
    <3>1. g[k - 1] \in Board /\ k \in 1..n
      BY <2>1
    <3> QED
      BY <3>1
  <2> HIDE DEF F
  <2> QED
    BY <1>2, <2>1, <2>2 DEF Iterates, Applies
<1>3. \E g : Applies(g, h, t, b)
  <2> HIDE DEF F
  <2> QED
    BY <1>2, IteratesAll
<1> DEFINE f == CHOOSE g : Applies(g, h, t, b)
<1>4. Applies(f, h, t, b)
  BY <1>3
<1>5. Applied(h, t, b) = f[n]
  BY DEF Applied, Applies
<1> HIDE DEF f
<1>6. f \in [0..n -> Board]
  <2> DEFINE T == {k \in Nat : k <= n => f[k] \in Board}
  <2>1. \A k \in 0..n :
          f[k] = IF k = 0 THEN b ELSE applyOp(OpOf(h, t, k - 1), f[k - 1])
    BY <1>4 DEF Applies
  <2>2. 0 \in T
    BY <2>1
  <2>3. ASSUME NEW k \in Nat, k \in T PROVE k + 1 \in T
    <3> SUFFICES ASSUME k + 1 <= n PROVE f[k + 1] \in Board
      OBVIOUS
    <3>1. f[k] \in Board /\ k \in 0..n-1 /\ k + 1 \in 0..n /\ (k + 1) - 1 = k
      BY <2>3
    <3>2. f[k + 1] = applyOp(OpOf(h, t, k), f[k])
      BY <2>1, <3>1
    <3> QED
      BY <3>1, <3>2, ApplyType
  <2> HIDE DEF T
  <2>4. \A k \in Nat : k \in T
    BY <2>2, <2>3, AllNumbers
  <2>5. f = [k \in 0..n |-> f[k]]
    BY <1>4, <2>1 DEF Applies
  <2> QED
    BY <2>4, <2>5 DEF T
<1> QED
  BY <1>4, <1>5, <1>6

(* Undoing one goes through them from the last to the first.               *)
LEMMA RevertedIs ==
  ASSUME ArenaType, NEW h, NEW t, t.opCount \in Nat, NEW b \in Board,
         \A k \in 0..t.opCount - 1 : OpOf(h, t, k) \in Operation
  PROVE  \E f \in [0..t.opCount -> Board] :
           Reverts(f, h, t, b) /\ Reverted(h, t, b) = f[t.opCount]
<1> DEFINE n == t.opCount
           F == [k \in 1..n |-> [x \in Board |-> revertOp(OpOf(h, t, n - k), x)]]
<1>1. F \in [1..n -> [Board -> Board]]
  <2>1. \A k \in 1..n : OpOf(h, t, n - k) \in Operation
    OBVIOUS
  <2> QED
    BY <2>1, RevertType
<1>2. ASSUME NEW g, Iterates(g, F, b, n)
      PROVE g \in [0..n -> Board] /\ Reverts(g, h, t, b)
  <2>1. g \in [0..n -> Board]
    <3>1. n \in Nat /\ n \in 0..n
      OBVIOUS
    <3> HIDE DEF F, n
    <3> QED
      BY <1>1, <1>2, <3>1, IteratesType
  <2>2. \A k \in 0..n :
          k # 0 => F[k][g[k - 1]] = revertOp(OpOf(h, t, n - k), g[k - 1])
    <3> SUFFICES ASSUME NEW k \in 0..n, k # 0
                 PROVE  F[k][g[k - 1]] = revertOp(OpOf(h, t, n - k), g[k - 1])
      OBVIOUS
    <3>1. g[k - 1] \in Board /\ k \in 1..n
      BY <2>1
    <3> QED
      BY <3>1
  <2> HIDE DEF F
  <2> QED
    BY <1>2, <2>1, <2>2 DEF Iterates, Reverts
<1>3. \E g : Reverts(g, h, t, b)
  <2> HIDE DEF F
  <2> QED
    BY <1>2, IteratesAll
<1> DEFINE f == CHOOSE g : Reverts(g, h, t, b)
<1>4. Reverts(f, h, t, b)
  BY <1>3
<1>5. Reverted(h, t, b) = f[n]
  BY DEF Reverted, Reverts
<1> HIDE DEF f
<1>6. f \in [0..n -> Board]
  <2> DEFINE T == {k \in Nat : k <= n => f[k] \in Board}
  <2>1. \A k \in 0..n :
          f[k] = IF k = 0 THEN b ELSE revertOp(OpOf(h, t, n - k), f[k - 1])
    BY <1>4 DEF Reverts
  <2>2. 0 \in T
    BY <2>1
  <2>3. ASSUME NEW k \in Nat, k \in T PROVE k + 1 \in T
    <3> SUFFICES ASSUME k + 1 <= n PROVE f[k + 1] \in Board
      OBVIOUS
    <3>1. f[k] \in Board /\ n - (k + 1) \in 0..n-1 /\ k + 1 \in 0..n
          /\ (k + 1) - 1 = k
      BY <2>3
    <3>2. f[k + 1] = revertOp(OpOf(h, t, n - (k + 1)), f[k])
      BY <2>1, <3>1
    <3> QED
      BY <3>1, <3>2, RevertType
  <2> HIDE DEF T
  <2>4. \A k \in Nat : k \in T
    BY <2>2, <2>3, AllNumbers
  <2>5. f = [k \in 0..n |-> f[k]]
    BY <1>4, <2>1 DEF Reverts
  <2> QED
    BY <2>4, <2>5 DEF T
<1> QED
  BY <1>4, <1>5, <1>6

(* A capture fits the arena, and lies where its room begins.               *)
LEMMA SizeIs ==
  ASSUME NEW b \in Board
  PROVE  /\ SizeOf(b) \in Nat \ {0} /\ SizeOf(b) <= ArenaCap
<1>1. b.bridges \subseteq Bridges /\ IsFiniteSet(Bridges)
  BY UndoRingAssumption DEF Board
<1>2. IsFiniteSet(b.bridges) /\ Cardinality(b.bridges) <= Cardinality(Bridges)
  BY <1>1, FS_Subset
<1>3. Cardinality(b.bridges) \in Nat /\ Cardinality(Bridges) \in Nat
  BY <1>1, <1>2, FS_CardinalityType
<1> QED
  BY <1>2, <1>3, UndoRingAssumption DEF SizeOf

(* A capture fits in the arena, evicting others or not.                    *)
LEMMA CaptureType ==
  ASSUME ArenaType, NEW b \in Board
  PROVE  /\ blobAt(b) \in 0..ArenaCap
         /\ blobAppendCurrentState(b) \in
              [blobs : SUBSET [at : 0..ArenaCap, board : Board], used : 0..ArenaCap]
         /\ (\A x, y \in arena.blobs : x.at = y.at => x = y) =>
              \A x, y \in blobAppendCurrentState(b).blobs : x.at = y.at => x = y
<1> DEFINE at == blobAt(b)
           n == SizeOf(b)
           blobs == {x \in arena.blobs : x.at + SizeOf(x.board) <= at \/ x.at >= at + n}
           Blob == [at : 0..ArenaCap, board : Board]
<1>1. n \in Nat \ {0} /\ n <= ArenaCap /\ ArenaCap \in Nat
  BY SizeIs, UndoRingAssumption
<1>2. arena.used \in 0..ArenaCap /\ arena.blobs \subseteq Blob
  BY DEF ArenaType
<1>3. at \in 0..ArenaCap /\ at + n \in 0..ArenaCap
  <2> HIDE DEF n
  <2> QED
    BY <1>1, <1>2 DEF blobAt, n
<1>4. blobAppendCurrentState(b)
        = [blobs |-> blobs \union {[at |-> at, board |-> b]}, used |-> at + n]
  BY DEF blobAppendCurrentState
<1>5. \A x \in blobs : x \in arena.blobs /\ x.at # at
  <2> SUFFICES ASSUME NEW x \in blobs PROVE x.at # at
    OBVIOUS
  <2>1. x.at \in 0..ArenaCap /\ x.board \in Board
    BY <1>2
  <2>2. SizeOf(x.board) \in Nat \ {0}
    BY <2>1, SizeIs
  <2> HIDE DEF at, n
  <2> QED
    BY <1>1, <1>3, <2>1, <2>2
<1> HIDE DEF at, n, blobs
<1> QED
  BY <1>2, <1>3, <1>4, <1>5 DEF at

-----------------------------------------------------------------------------
(* What the operators make of the log, in full                             *)

(* WithCursor sets one cursor and the torn slots, and nothing else.        *)
LEMMA CursorSets ==
  ASSUME NEW h, IsLog(h), NEW s \in Slots, NEW x \in TxnIndex, NEW y,
         NEW e, e = WithCursor(h, s, x, y)
  PROVE  /\ e.ops = h.ops /\ e.opHead = h.opHead /\ e.opTail = h.opTail
         /\ e.txns = h.txns /\ e.txnHead = h.txnHead /\ e.txnTail = h.txnTail
         /\ e.active = h.active /\ e.open = h.open /\ e.opStart = h.opStart
         /\ e.opened = h.opened /\ e.torn = y
         /\ \A r \in Slots :
              e.slotCursor[r] = IF r = s THEN x ELSE h.slotCursor[r]
<1> DEFINE cursor == [h.slotCursor EXCEPT ![s] = x]
<1>1. e = [ops |-> h.ops, opHead |-> h.opHead, opTail |-> h.opTail,
           txns |-> h.txns, txnHead |-> h.txnHead, txnTail |-> h.txnTail,
           slotCursor |-> cursor, active |-> h.active, open |-> h.open,
           opStart |-> h.opStart, opened |-> h.opened, torn |-> y]
  BY DEF IsLog, WithCursor
<1>2. \A r \in Slots : cursor[r] = IF r = s THEN x ELSE h.slotCursor[r]
  BY LogFields
<1> HIDE DEF cursor
<1> QED
  BY <1>1, <1>2

(* Cursors are always in the ring, so there is nothing to clamp.           *)
LEMMA ClampSame ==
  ASSUME NEW h, LogInv(h)
  PROVE  clampSlotCursor(h) = h
<1> DEFINE c == h.slotCursor[h.active]
           TA(x) == Age(TxnCap, h.txnTail, x)
<1>1. /\ IsLog(h) /\ h.txnHead \in TxnIndex /\ h.txnTail \in TxnIndex
      /\ h.active \in Slots /\ c \in TxnIndex
  BY LogFields DEF LogInv
<1>2. TA(c) <= TA(h.txnHead)
  BY <1>1 DEF LogInv, CursorsIn
<1>3. TA(h.txnTail) = 0 /\ TA(c) \in 0..TxnCap-1
      /\ TA(h.txnHead) \in 0..TxnCap-1
  BY <1>1, Caps, AgeIs, AgeApart DEF TxnIndex
<1>4. h.txnHead = h.txnTail => c = h.txnHead
  <2> SUFFICES ASSUME h.txnHead = h.txnTail PROVE c = h.txnHead
    OBVIOUS
  <2>1. TA(c) = TA(h.txnTail)
    BY <1>2, <1>3, Caps
  <2> QED
    BY <1>1, <2>1, Caps, AgeApart DEF TxnIndex
<1>5. ~(TxnAge(h, c) > TxnAge(h, h.txnHead))
  <2>1. ~(TA(c) > TA(h.txnHead))
    BY <1>2, <1>3, Caps
  <2> QED
    BY <2>1 DEF TxnAge, Age
<1>6. clampSlotCursor(h) = [h EXCEPT !.slotCursor[h.active] = c]
  BY <1>4, <1>5 DEF clampSlotCursor
<1>7. [h.slotCursor EXCEPT ![h.active] = c] = h.slotCursor
  BY <1>1, LogFields
<1> QED
  BY <1>1, <1>6, <1>7 DEF IsLog

(* A change of slots is the end of a transaction, but for the slot.        *)
LEMMA SwapSets ==
  ASSUME NEW h, LogInv(h), NEW bs, NEW s \in Slots, s # h.active,
         NEW e, e = slotSwap(h, s, bs),
         NEW a, a = undoEndTxn(h, bs)
  PROVE  /\ LogInv(a) /\ a.open = None
         /\ e.ops = a.ops /\ e.opHead = a.opHead /\ e.opTail = a.opTail
         /\ e.txns = a.txns /\ e.txnHead = a.txnHead /\ e.txnTail = a.txnTail
         /\ e.slotCursor = a.slotCursor /\ e.active = s /\ e.open = a.open
         /\ e.opStart = a.opStart /\ e.opened = a.opened /\ e.torn = a.torn
<1>1. LogInv(a) /\ a.open = None /\ IsLog(a)
  BY EndInv DEF LogInv
<1>2. e = [a EXCEPT !.active = s]
  BY DEF slotSwap
<1>3. e = [ops |-> a.ops, opHead |-> a.opHead, opTail |-> a.opTail,
           txns |-> a.txns, txnHead |-> a.txnHead, txnTail |-> a.txnTail,
           slotCursor |-> a.slotCursor, active |-> s, open |-> a.open,
           opStart |-> a.opStart, opened |-> a.opened, torn |-> a.torn]
  BY <1>1, <1>2 DEF IsLog
<1> QED
  BY <1>1, <1>3

(* DropRedo makes the active slot's undone transactions obsolete.          *)
LEMMA DropRedoSets ==
  ASSUME NEW h, LogInv(h), NEW e, e = DropRedo(h)
  PROVE  /\ e.ops = h.ops /\ e.opHead = h.opHead /\ e.opTail = h.opTail
         /\ e.txnHead = h.txnHead /\ e.txnTail = h.txnTail
         /\ e.slotCursor = h.slotCursor /\ e.active = h.active
         /\ e.open = h.open /\ e.opStart = h.opStart /\ e.opened = h.opened
         /\ e.torn = h.torn
         /\ \A i \in TxnIndex :
              IF i \in Undone(h, h.active)
              THEN /\ e.txns[i].state = "obsolete"
                   /\ e.txns[i].slot = h.txns[i].slot
                   /\ e.txns[i].change = h.txns[i].change
              ELSE e.txns[i] = h.txns[i]
<1> DEFINE redo == Undone(h, h.active)
           dropped(t) == [t EXCEPT !.state = "obsolete"]
           txns == [i \in TxnIndex |->
                      IF i \in redo THEN dropped(h.txns[i]) ELSE h.txns[i]]
<1>1. IsLog(h)
  BY DEF LogInv
<1>2. ASSUME NEW t, IsTxn(t)
      PROVE  /\ dropped(t).state = "obsolete" /\ dropped(t).slot = t.slot
             /\ dropped(t).change = t.change
  <2>1. dropped(t) = [firstOp |-> t.firstOp, opCount |-> t.opCount,
                      slot |-> t.slot, state |-> "obsolete",
                      change |-> t.change]
    BY <1>2 DEF IsTxn
  <2> HIDE DEF dropped
  <2> QED
    BY <2>1
<1>3. e = [h EXCEPT !.txns = txns]
  BY DEF DropRedo
<1> HIDE DEF dropped
<1>4. \A i \in TxnIndex :
        IF i \in redo
        THEN /\ txns[i].state = "obsolete"
             /\ txns[i].slot = h.txns[i].slot
             /\ txns[i].change = h.txns[i].change
        ELSE txns[i] = h.txns[i]
  <2> HIDE DEF redo
  <2> SUFFICES ASSUME NEW i \in TxnIndex
               PROVE  IF i \in redo
                      THEN /\ txns[i].state = "obsolete"
                           /\ txns[i].slot = h.txns[i].slot
                           /\ txns[i].change = h.txns[i].change
                      ELSE txns[i] = h.txns[i]
    OBVIOUS
  <2>1. IsTxn(h.txns[i])
    BY <1>1 DEF IsLog
  <2>2. txns[i] = IF i \in redo THEN dropped(h.txns[i]) ELSE h.txns[i]
    OBVIOUS
  <2> QED
    BY <1>2, <2>1, <2>2
<1> HIDE DEF txns
<1>5. e = [ops |-> h.ops, opHead |-> h.opHead, opTail |-> h.opTail,
           txns |-> txns, txnHead |-> h.txnHead, txnTail |-> h.txnTail,
           slotCursor |-> h.slotCursor, active |-> h.active, open |-> h.open,
           opStart |-> h.opStart, opened |-> h.opened, torn |-> h.torn]
  BY <1>1, <1>3 DEF IsLog
<1> QED
  BY <1>4, <1>5

(* undoBeginTxn evicts when the ring of transactions is full.              *)
MadeTxnRoom(h) ==
  IF txnRingNext(h.txnHead) = h.txnTail THEN EvictOldest(h) ELSE h

(* The transaction undoBeginTxn opens.                                     *)
Opened(h, b) ==
  [h EXCEPT !.open = h.active, !.opStart = h.opHead, !.opened = b]

(* The start of a transaction.                                             *)
LEMMA OpenedIs ==
  ASSUME NEW f, IsLog(f), NEW x,
         NEW e, e = Opened(f, x)
  PROVE  /\ e.ops = f.ops /\ e.opHead = f.opHead /\ e.opTail = f.opTail
         /\ e.txns = f.txns /\ e.txnHead = f.txnHead /\ e.txnTail = f.txnTail
         /\ e.slotCursor = f.slotCursor /\ e.active = f.active
         /\ e.open = f.active /\ e.opStart = f.opHead
         /\ e.opened = x /\ e.torn = f.torn
<1>1. e = [ops |-> f.ops, opHead |-> f.opHead, opTail |-> f.opTail,
           txns |-> f.txns, txnHead |-> f.txnHead, txnTail |-> f.txnTail,
           slotCursor |-> f.slotCursor, active |-> f.active, open |-> f.active,
           opStart |-> f.opHead, opened |-> x, torn |-> f.torn]
  BY DEF IsLog, Opened
<1> QED
  BY <1>1

(* The log in which a transaction begins: the old one ended, no redo, and  *)
(* room made.                                                              *)
LEMMA BeginSets ==
  ASSUME NEW h, LogInv(h), NEW bs, NEW e, e = undoBeginTxn(h, bs),
         NEW b, b = undoEndTxn(slotSwapIfNeeded(h, bs), bs),
         NEW d, d = DropRedo(b),
         NEW f, f = MadeTxnRoom(d)
  PROVE  /\ LogInv(b) /\ b.open = None
         /\ LogInv(d) /\ d.open = None /\ d.active = b.active
         /\ txnRingNext(d.txnHead) = d.txnTail => d.txnHead # d.txnTail
         /\ LogInv(f) /\ f.open = None /\ f.active = d.active
         /\ e.ops = f.ops /\ e.opHead = f.opHead /\ e.opTail = f.opTail
         /\ e.txns = f.txns /\ e.txnHead = f.txnHead /\ e.txnTail = f.txnTail
         /\ e.slotCursor = f.slotCursor /\ e.active = f.active
         /\ e.open = f.active /\ e.opStart = f.opHead
         /\ e.opened = bs[f.active] /\ e.torn = f.torn
<1> DEFINE a == slotSwapIfNeeded(h, bs)
           opened == bs[f.active]
<1>1. LogInv(a)
  BY SwapIfNeededInv
<1>2. b = undoEndTxn(a, bs)
  OBVIOUS
<1>3. e = Opened(f, opened)
  <2>1. clampSlotCursor(b) = b
    <3> HIDE DEF a
    <3>1. LogInv(b)
      BY <1>1, <1>2, EndInv
    <3> QED
      BY <3>1, ClampSame
  <2> QED
    BY <2>1 DEF undoBeginTxn, MadeTxnRoom, Opened
<1> HIDE DEF a
<1>4. LogInv(b) /\ b.open = None
  BY <1>1, <1>2, EndInv
<1>5. LogInv(d) /\ d.open = None /\ d.active = b.active
  BY <1>4, DropRedoInv
<1>6. txnRingNext(d.txnHead) = d.txnTail => d.txnHead # d.txnTail
  <2>1. d.txnHead \in TxnIndex
    BY <1>5, LogFields DEF LogInv
  <2>2. txnRingNext(d.txnHead) # d.txnHead
    BY <2>1, Caps, AgeMoved DEF txnRingNext, TxnIndex
  <2> QED
    BY <2>2
<1>7. LogInv(f) /\ f.open = None /\ f.active = d.active
  <2>1. CASE txnRingNext(d.txnHead) = d.txnTail
    BY <1>5, <1>6, <2>1, EvictInv DEF MadeTxnRoom
  <2>2. CASE txnRingNext(d.txnHead) # d.txnTail
    BY <1>5, <2>2 DEF MadeTxnRoom
  <2> QED
    BY <2>1, <2>2
<1>8. IsLog(f)
  BY <1>7 DEF LogInv
<1> HIDE DEF opened
<1>9. /\ e.ops = f.ops /\ e.opHead = f.opHead /\ e.opTail = f.opTail
      /\ e.txns = f.txns /\ e.txnHead = f.txnHead /\ e.txnTail = f.txnTail
      /\ e.slotCursor = f.slotCursor /\ e.active = f.active
      /\ e.open = f.active /\ e.opStart = f.opHead
      /\ e.opened = opened /\ e.torn = f.torn
  BY <1>3, <1>8, OpenedIs
<1> QED
  BY <1>4, <1>5, <1>6, <1>7, <1>9 DEF opened

(* Room in the ring of operations.                                         *)
LEMMA RoomSets ==
  ASSUME NEW h, LogInv(h), NEW e, e = MadeRoom(h)
  PROVE  \/ e = h
         \/ h.txnHead # h.txnTail /\ e = EvictOldest(h)
         \/ /\ e.ops = h.ops /\ e.opHead = h.opHead
            /\ e.txns = h.txns /\ e.txnHead = h.txnHead
            /\ e.txnTail = h.txnTail /\ e.slotCursor = h.slotCursor
            /\ e.active = h.active /\ e.open = h.open
            /\ e.opStart = h.opStart /\ e.opened = h.opened /\ e.torn = h.torn
<1>1. IsLog(h)
  BY DEF LogInv
<1>2. CASE opRingNext(h.opHead) # h.opTail
  BY <1>2 DEF MadeRoom
<1>3. CASE opRingNext(h.opHead) = h.opTail /\ h.txnHead # h.txnTail
  BY <1>3 DEF MadeRoom
<1>4. CASE opRingNext(h.opHead) = h.opTail /\ h.txnHead = h.txnTail
  <2> DEFINE u == opRingNext(h.opTail)
  <2>1. e = [h EXCEPT !.opTail = u]
    BY <1>4 DEF MadeRoom
  <2> HIDE DEF u
  <2> QED
    BY <1>1, <2>1 DEF IsLog
<1> QED
  BY <1>2, <1>3, <1>4

(* appendOp makes room and adds one entry at the head.                     *)
LEMMA AppendSets ==
  ASSUME NEW h, LogInv(h), h.open # None, BundleLength(h) < OpCap - 1,
         NEW op, NEW e, e = appendOp(h, op),
         NEW a, a = MadeRoom(h)
  PROVE  /\ LogInv(a) /\ a.open = h.open /\ BundleLength(a) = BundleLength(h)
         /\ e.opHead = opRingNext(a.opHead) /\ e.opTail = a.opTail
         /\ e.txns = a.txns /\ e.txnHead = a.txnHead /\ e.txnTail = a.txnTail
         /\ e.slotCursor = a.slotCursor /\ e.active = a.active
         /\ e.open = a.open /\ e.opStart = a.opStart /\ e.opened = a.opened
         /\ e.torn = a.torn
         /\ \A j \in OpIndex : e.ops[j] =
              IF j = a.opHead THEN [txn |-> a.txnHead, op |-> op] ELSE a.ops[j]
<1> DEFINE entry == [txn |-> a.txnHead, op |-> op]
           ops == [a.ops EXCEPT ![a.opHead] = entry]
           next == opRingNext(a.opHead)
<1>1. /\ LogInv(a) /\ a.open = h.open /\ BundleLength(a) = BundleLength(h)
      /\ IsLog(a)
  BY RoomInv DEF LogInv
<1>2. e = [a EXCEPT !.ops[a.opHead] = entry, !.opHead = next]
  BY DEF appendOp, MadeRoom
<1>3. \A j \in OpIndex : ops[j] = IF j = a.opHead THEN entry ELSE a.ops[j]
  <2>1. a.ops = [j \in OpIndex |-> a.ops[j]]
    BY <1>1 DEF IsLog
  <2> HIDE DEF entry
  <2> QED
    BY <2>1
<1> HIDE DEF entry, next
<1>4. e = [ops |-> ops, opHead |-> next, opTail |-> a.opTail,
           txns |-> a.txns, txnHead |-> a.txnHead, txnTail |-> a.txnTail,
           slotCursor |-> a.slotCursor, active |-> a.active,
           open |-> a.open, opStart |-> a.opStart, opened |-> a.opened,
           torn |-> a.torn]
  BY <1>1, <1>2 DEF IsLog
<1> HIDE DEF ops
<1> QED
  BY <1>1, <1>3, <1>4 DEF entry, next

(* The entry and the transaction that a slide leaves.                      *)
SlidEntry(h, f, volts) ==
  [txn |-> h.ops[f].txn, op |-> [h.ops[f].op EXCEPT !.next = volts]]

(* The same for the transaction: its change ends elsewhere.                *)
SlidTxn(h, i, after) ==
  [firstOp |-> h.txns[i].firstOp, opCount |-> h.txns[i].opCount,
   slot |-> h.txns[i].slot, state |-> h.txns[i].state,
   change |-> [h.txns[i].change EXCEPT !.after = after]]

(* Retarget rewrites one entry and one transaction.                        *)
LEMMA RetargetSets ==
  ASSUME NEW h, LogInv(h), NEW volts, NEW bs, NEW e, e = Retarget(h, volts, bs),
         NEW i, i = txnRingPrev(h.txnHead), NEW f, f = h.txns[i].firstOp
  PROVE  /\ i \in TxnIndex /\ f \in OpIndex
         /\ e.opHead = h.opHead /\ e.opTail = h.opTail
         /\ e.txnHead = h.txnHead /\ e.txnTail = h.txnTail
         /\ e.slotCursor = h.slotCursor /\ e.active = h.active
         /\ e.open = h.open /\ e.opStart = h.opStart /\ e.opened = h.opened
         /\ e.torn = h.torn
         /\ \A j \in OpIndex : e.ops[j] =
              IF j = f THEN SlidEntry(h, f, volts) ELSE h.ops[j]
         /\ \A j \in TxnIndex : e.txns[j] =
              IF j = i THEN SlidTxn(h, i, bs[h.active]) ELSE h.txns[j]
<1> DEFINE after == bs[h.active]
           entry == [h.ops[f] EXCEPT !.op.next = volts]
           t == [h.txns[i] EXCEPT !.change.after = after]
           ops == [h.ops EXCEPT ![f] = entry]
           txns == [h.txns EXCEPT ![i] = t]
<1>1. IsLog(h)
  BY DEF LogInv
<1>2. h.txnHead \in TxnIndex /\ i \in TxnIndex
  BY <1>1, LogFields, TxnPrev
<1>3. f \in OpIndex
  BY <1>1, <1>2, TxnIn
<1>4. e = [[h EXCEPT !.ops[f].op.next = volts]
             EXCEPT !.txns[i].change.after = after]
  BY DEF Retarget
<1>5. entry = [txn |-> h.ops[f].txn, op |-> [h.ops[f].op EXCEPT !.next = volts]]
  <2>1. IsEntry(h.ops[f])
    BY <1>1, <1>3 DEF IsLog
  <2> DEFINE x == h.ops[f]
             o == [x.op EXCEPT !.next = volts]
  <2>2. entry = [x EXCEPT !.op = o]
    OBVIOUS
  <2>3. x = [txn |-> x.txn, op |-> x.op]
    BY <2>1 DEF IsEntry
  <2> HIDE DEF x, o, entry
  <2>4. entry = [txn |-> x.txn, op |-> o]
    BY <2>2, <2>3
  <2> QED
    BY <2>4 DEF x, o
<1> HIDE DEF after
<1>6. t = [firstOp |-> f, opCount |-> h.txns[i].opCount,
           slot |-> h.txns[i].slot, state |-> h.txns[i].state,
           change |-> [h.txns[i].change EXCEPT !.after = after]]
  <2>1. IsTxn(h.txns[i])
    BY <1>1, <1>2 DEF IsLog
  <2> DEFINE x == h.txns[i]
  <2> HIDE DEF x
  <2>2. IsTxn(x) /\ t = [x EXCEPT !.change.after = after] /\ f = x.firstOp
    BY <2>1 DEF x
  <2> HIDE DEF t
  <2>3. t = [firstOp |-> x.firstOp, opCount |-> x.opCount, slot |-> x.slot,
             state |-> x.state, change |-> [x.change EXCEPT !.after = after]]
    BY <2>2 DEF IsTxn
  <2> QED
    BY <2>2, <2>3 DEF x
<1>7. e = [h EXCEPT !.ops = ops, !.txns = txns]
  BY <1>1, <1>2, <1>3, <1>4 DEF IsLog
<1> HIDE DEF entry, t
<1>8. \A j \in OpIndex : ops[j] = IF j = f THEN entry ELSE h.ops[j]
  <2>1. h.ops = [j \in OpIndex |-> h.ops[j]]
    BY <1>1 DEF IsLog
  <2> QED
    BY <2>1
<1>9. \A j \in TxnIndex : txns[j] = IF j = i THEN t ELSE h.txns[j]
  <2>1. h.txns = [j \in TxnIndex |-> h.txns[j]]
    BY <1>1 DEF IsLog
  <2> QED
    BY <2>1
<1> HIDE DEF ops, txns
<1>10. e = [ops |-> ops, opHead |-> h.opHead, opTail |-> h.opTail,
            txns |-> txns, txnHead |-> h.txnHead, txnTail |-> h.txnTail,
            slotCursor |-> h.slotCursor, active |-> h.active,
            open |-> h.open, opStart |-> h.opStart, opened |-> h.opened,
            torn |-> h.torn]
  BY <1>1, <1>7 DEF IsLog
<1>11. \A j \in OpIndex : e.ops[j] =
         IF j = f THEN SlidEntry(h, f, volts) ELSE h.ops[j]
  <2>1. entry = SlidEntry(h, f, volts)
    BY <1>5 DEF SlidEntry
  <2> QED
    BY <1>8, <1>10, <2>1
<1>12. \A j \in TxnIndex : e.txns[j] =
         IF j = i THEN SlidTxn(h, i, bs[h.active]) ELSE h.txns[j]
  <2>1. t = SlidTxn(h, i, after)
    BY <1>6 DEF SlidTxn
  <2> QED
    BY <1>9, <1>10, <2>1 DEF after
<1>13. /\ e.opHead = h.opHead /\ e.opTail = h.opTail
       /\ e.txnHead = h.txnHead /\ e.txnTail = h.txnTail
       /\ e.slotCursor = h.slotCursor /\ e.active = h.active
       /\ e.open = h.open /\ e.opStart = h.opStart /\ e.opened = h.opened
       /\ e.torn = h.torn
  BY <1>10
<1> QED
  BY <1>2, <1>3, <1>11, <1>12, <1>13

-----------------------------------------------------------------------------
(* Types                                                                   *)

IsBoards(bs) == \A s \in Slots : bs[s] \in Board

(* What the log's entries and transactions carry.                          *)
IsTyped(h) ==
  /\ \A j \in OpIndex : h.ops[j].txn \in TxnIndex /\ h.ops[j].op \in Operation
  /\ \A i \in TxnIndex : /\ h.txns[i].slot \in Slots
                         /\ h.txns[i].state \in {"committed", "obsolete"}
                         /\ h.txns[i].change \in Change
  /\ h.opened \in Board
  /\ h.torn \subseteq Slots

(* The type of the log.                                                    *)
Logs == [ops : [OpIndex -> Entry], opHead : OpIndex, opTail : OpIndex,
         txns : [TxnIndex -> Txn],
         txnHead : TxnIndex, txnTail : TxnIndex,
         slotCursor : [Slots -> TxnIndex], active : Slots,
         open : Slots \union {None}, opStart : OpIndex, opened : Board,
         torn : SUBSET Slots]

(* The shape of the log and the types of what it holds are its type.       *)
LEMMA TypedIs ==
  ASSUME NEW h, IsLog(h), IsTyped(h)
  PROVE  h \in Logs
<1>1. h.ops \in [OpIndex -> Entry]
  <2>1. ASSUME NEW j \in OpIndex PROVE h.ops[j] \in Entry
    <3> DEFINE x == h.ops[j]
    <3>1. x = [txn |-> x.txn, op |-> x.op] /\ x.txn \in TxnIndex
          /\ x.op \in Operation
      BY DEF IsLog, IsEntry, IsTyped
    <3> HIDE DEF x
    <3>2. x \in Entry
      BY <3>1 DEF Entry
    <3> QED
      BY <3>2 DEF x
  <2>2. h.ops = [j \in OpIndex |-> h.ops[j]]
    BY DEF IsLog
  <2> QED
    BY <2>1, <2>2
<1>2. h.txns \in [TxnIndex -> Txn]
  <2>1. ASSUME NEW i \in TxnIndex PROVE h.txns[i] \in Txn
    <3> DEFINE x == h.txns[i]
    <3>1. IsTxn(x) /\ x.slot \in Slots /\ x.state \in {"committed", "obsolete"}
          /\ x.change \in Change
      BY DEF IsLog, IsTyped
    <3> HIDE DEF x
    <3>2. x \in Txn
      BY <3>1 DEF IsTxn, Txn
    <3> QED
      BY <3>2 DEF x
  <2>2. h.txns = [i \in TxnIndex |-> h.txns[i]]
    BY DEF IsLog
  <2> QED
    BY <2>1, <2>2
<1>3. h.opened \in Board /\ h.torn \in SUBSET Slots
  BY DEF IsTyped
<1> QED
  BY <1>1, <1>2, <1>3 DEF IsLog, Logs

(* EvictOldest keeps the types.                                            *)
LEMMA TypedEvict ==
  ASSUME NEW h, LogInv(h), IsTyped(h), NEW e, e = EvictOldest(h)
  PROVE  IsTyped(e)
<1>1. /\ e.ops = h.ops /\ e.txns = h.txns /\ e.opened = h.opened
      /\ e.torn = h.torn \union {s \in Slots : h.txnTail \in Undone(h, s)}
  BY EvictShape DEF LogInv
<1>2. e.torn \subseteq Slots
  BY <1>1 DEF IsTyped
<1> QED
  BY <1>1, <1>2 DEF IsTyped

(* undoEndTxn keeps the types.                                             *)
LEMMA TypedEnd ==
  ASSUME NEW h, LogInv(h), IsTyped(h), NEW bs, IsBoards(bs),
         NEW e, e = undoEndTxn(h, bs)
  PROVE  IsTyped(e)
<1>1. CASE h.open = None
  BY <1>1 DEF undoEndTxn
<1>2. CASE h.open # None
  <2>1. /\ e.ops = h.ops
        /\ \A i \in TxnIndex : i # h.txnHead => e.txns[i] = h.txns[i]
    BY <1>2, EndShape
  <2>2. /\ e.txns[h.txnHead] = EndedTxn(h, bs)
        /\ e.opened = h.opened /\ e.torn = h.torn
    BY <1>2, EndSets
  <2>3. h.open \in Slots
    BY <1>2, LogFields DEF LogInv
  <2>4. /\ EndedTxn(h, bs).slot \in Slots
        /\ EndedTxn(h, bs).state \in {"committed", "obsolete"}
        /\ EndedTxn(h, bs).change \in Change
    BY <2>3 DEF EndedTxn, Change, IsTyped, IsBoards
  <2> QED
    BY <2>1, <2>2, <2>4 DEF IsTyped
<1> QED
  BY <1>1, <1>2

(* slotSwap keeps the types.                                               *)
LEMMA TypedSwap ==
  ASSUME NEW h, LogInv(h), IsTyped(h), NEW bs, IsBoards(bs), NEW s \in Slots,
         NEW e, e = slotSwap(h, s, bs)
  PROVE  IsTyped(e)
<1>1. CASE s = h.active
  BY <1>1 DEF slotSwap
<1>2. CASE s # h.active
  <2> DEFINE a == undoEndTxn(h, bs)
  <2>1. IsTyped(a)
    BY TypedEnd
  <2>2. /\ e.ops = a.ops /\ e.txns = a.txns /\ e.opened = a.opened
        /\ e.torn = a.torn
    <3> HIDE DEF a
    <3>1. a = undoEndTxn(h, bs)
      BY DEF a
    <3> QED
      BY <1>2, <3>1, SwapSets
  <2> HIDE DEF a
  <2> QED
    BY <2>1, <2>2 DEF IsTyped
<1> QED
  BY <1>1, <1>2

(* slotSwapIfNeeded keeps the types.                                       *)
LEMMA TypedSwapIfNeeded ==
  ASSUME NEW h, LogInv(h), IsTyped(h), NEW bs, IsBoards(bs),
         NEW e, e = slotSwapIfNeeded(h, bs)
  PROVE  IsTyped(e)
  BY TypedSwap DEF slotSwapIfNeeded

(* DropRedo keeps the types.                                               *)
LEMMA TypedDropRedo ==
  ASSUME NEW h, LogInv(h), IsTyped(h), NEW e, e = DropRedo(h)
  PROVE  IsTyped(e)
<1>1. /\ e.ops = h.ops /\ e.opened = h.opened /\ e.torn = h.torn
      /\ \A i \in TxnIndex :
           IF i \in Undone(h, h.active)
           THEN /\ e.txns[i].state = "obsolete"
                /\ e.txns[i].slot = h.txns[i].slot
                /\ e.txns[i].change = h.txns[i].change
           ELSE e.txns[i] = h.txns[i]
  BY DropRedoSets
<1> QED
  BY <1>1 DEF IsTyped

(* undoBeginTxn keeps the types.                                           *)
LEMMA TypedBegin ==
  ASSUME NEW h, LogInv(h), IsTyped(h), NEW bs, IsBoards(bs),
         NEW e, e = undoBeginTxn(h, bs)
  PROVE  IsTyped(e)
<1> DEFINE a == slotSwapIfNeeded(h, bs)
           b == undoEndTxn(a, bs)
           d == DropRedo(b)
           f == MadeTxnRoom(d)
<1>1. /\ LogInv(b) /\ LogInv(d) /\ LogInv(f)
      /\ e.ops = f.ops /\ e.txns = f.txns /\ e.opened = bs[f.active]
      /\ e.torn = f.torn
  <2>1. b = undoEndTxn(slotSwapIfNeeded(h, bs), bs) /\ d = DropRedo(b)
        /\ f = MadeTxnRoom(d)
    OBVIOUS
  <2> HIDE DEF b, d, f
  <2> QED
    BY <2>1, BeginSets
<1>2. LogInv(a) /\ IsTyped(a)
  BY SwapIfNeededInv, TypedSwapIfNeeded
<1> HIDE DEF a
<1>3. IsTyped(b)
  BY <1>2, TypedEnd
<1> HIDE DEF b
<1>4. IsTyped(d)
  BY <1>1, <1>3, TypedDropRedo
<1> HIDE DEF d
<1>5. IsTyped(f)
  BY <1>1, <1>4, TypedEvict DEF MadeTxnRoom
<1> HIDE DEF f
<1>6. f.active \in Slots
  BY <1>1, LogFields DEF LogInv
<1>7. bs[f.active] \in Board
  BY <1>6 DEF IsBoards
<1> QED
  BY <1>1, <1>5, <1>7 DEF IsTyped

(* MadeRoom keeps the types.                                               *)
LEMMA TypedRoom ==
  ASSUME NEW h, LogInv(h), IsTyped(h), NEW e, e = MadeRoom(h)
  PROVE  IsTyped(e)
<1>1. CASE e = h
  BY <1>1
<1>2. CASE e = EvictOldest(h)
  BY <1>2, TypedEvict
<1>3. CASE /\ e.ops = h.ops /\ e.txns = h.txns /\ e.opened = h.opened
           /\ e.torn = h.torn
  BY <1>3 DEF IsTyped
<1> QED
  BY <1>1, <1>2, <1>3, RoomSets

(* appendOp keeps the types.                                               *)
LEMMA TypedAppend ==
  ASSUME NEW h, LogInv(h), IsTyped(h), h.open # None,
         BundleLength(h) < OpCap - 1,
         NEW op \in Operation, NEW e, e = appendOp(h, op)
  PROVE  IsTyped(e)
<1> DEFINE a == MadeRoom(h)
<1>1. IsTyped(a)
  BY TypedRoom
<1>2. /\ LogInv(a)
      /\ e.txns = a.txns /\ e.opened = a.opened /\ e.torn = a.torn
      /\ \A j \in OpIndex : e.ops[j] =
           IF j = a.opHead THEN [txn |-> a.txnHead, op |-> op] ELSE a.ops[j]
  <2>1. a = MadeRoom(h)
    OBVIOUS
  <2> HIDE DEF a
  <2> QED
    BY <2>1, AppendSets
<1> HIDE DEF a
<1>3. a.txnHead \in TxnIndex
  BY <1>2, LogFields DEF LogInv
<1>4. \A j \in OpIndex : e.ops[j].txn \in TxnIndex /\ e.ops[j].op \in Operation
  BY <1>1, <1>2, <1>3 DEF IsTyped
<1> QED
  BY <1>1, <1>2, <1>4 DEF IsTyped

(* recordOneAction keeps the types.                                        *)
LEMMA TypedRecordOne ==
  ASSUME NEW h, LogInv(h), IsTyped(h), NEW op \in Operation,
         NEW bs, IsBoards(bs), NEW cs, IsBoards(cs),
         slotSwapIfNeeded(h, bs).open = None
           \/ BundleLength(slotSwapIfNeeded(h, bs)) < MaxBundle,
         NEW e, e = recordOneAction(h, op, bs, cs)
  PROVE  IsTyped(e)
<1> DEFINE a == slotSwapIfNeeded(h, bs)
<1>1. LogInv(a) /\ IsTyped(a)
  BY SwapIfNeededInv, TypedSwapIfNeeded
<1>2. CASE a.open # None
  <2>1. BundleLength(a) \in 0..OpCap-1
    BY <1>1, <1>2, BundleIs DEF LogInv
  <2>2. BundleLength(a) < OpCap - 1
    BY <1>2, <2>1, Caps
  <2>3. e = appendOp(a, op)
    BY <1>2 DEF recordOneAction
  <2> HIDE DEF a
  <2> QED
    BY <1>1, <1>2, <2>2, <2>3, TypedAppend
<1>3. CASE a.open = None
  <2> DEFINE b == undoBeginTxn(a, bs)
             c == appendOp(b, op)
  <2>1. e = undoEndTxn(c, cs)
    BY <1>3 DEF recordOneAction
  <2> HIDE DEF a
  <2>2. LogInv(b) /\ b.open # None /\ BundleLength(b) = 0 /\ IsTyped(b)
    BY <1>1, BeginInv, TypedBegin
  <2>3. BundleLength(b) < OpCap - 1
    BY <2>2, Caps
  <2> HIDE DEF b
  <2>4. LogInv(c) /\ IsTyped(c)
    BY <2>2, <2>3, AppendInv, TypedAppend
  <2> HIDE DEF c
  <2> QED
    BY <2>1, <2>4, TypedEnd
<1> QED
  BY <1>2, <1>3

(* A slide sets the voltage of the newest transaction's only change.       *)
LEMMA NextIs ==
  ASSUME NEW op \in Operation, op.kind = "dac", NEW v \in Volts
  PROVE  /\ [op EXCEPT !.next = v] \in Operation
         /\ [op EXCEPT !.next = v].kind = "dac"
         /\ [op EXCEPT !.next = v].channel = op.channel
         /\ [op EXCEPT !.next = v].prev = op.prev
         /\ [op EXCEPT !.next = v].next = v
<1>1. op \in [kind : {"dac"}, channel : Channels, prev : Volts, next : Volts]
  BY DEF Operation
<1>2. [op EXCEPT !.next = v] \in
        [kind : {"dac"}, channel : Channels, prev : Volts, next : Volts]
  BY <1>1
<1>3. [op EXCEPT !.next = v] \in Operation
  BY <1>2 DEF Operation
<1> QED
  BY <1>1, <1>3

(* A slide of a voltage keeps the types.                                   *)
LEMMA TypedRetarget ==
  ASSUME NEW h, LogInv(h), IsTyped(h), NEW c, SlideGoesOn(h, c),
         NEW v \in Volts, NEW bs, IsBoards(bs), NEW e, e = Retarget(h, v, bs)
  PROVE  IsTyped(e)
<1> DEFINE i == txnRingPrev(h.txnHead)
           f == h.txns[i].firstOp
           op == h.ops[f].op
           change == h.txns[i].change
           op2 == [op EXCEPT !.next = v]
           change2 == [change EXCEPT !.after = bs[h.active]]
           entry == SlidEntry(h, f, v)
           txn == SlidTxn(h, i, bs[h.active])
<1>1. /\ i \in TxnIndex /\ f \in OpIndex
      /\ e.opened = h.opened /\ e.torn = h.torn
      /\ \A j \in OpIndex : e.ops[j] = IF j = f THEN entry ELSE h.ops[j]
      /\ \A j \in TxnIndex : e.txns[j] = IF j = i THEN txn ELSE h.txns[j]
  <2>1. i = txnRingPrev(h.txnHead) /\ f = h.txns[i].firstOp
    OBVIOUS
  <2> HIDE DEF i, f
  <2> QED
    BY <2>1, RetargetSets
<1>2. h.active \in Slots
  BY LogFields DEF LogInv
<1>3. op.kind = "dac"
  BY DEF SlideGoesOn
<1>4. op \in Operation /\ change \in Change /\ bs[h.active] \in Board
  BY <1>1, <1>2 DEF IsTyped, IsBoards
<1>5. op2 \in Operation
  <2> HIDE DEF op
  <2> QED
    BY <1>3, <1>4, NextIs
<1>6. change2 \in Change
  BY <1>4 DEF Change
<1>7. entry.txn = h.ops[f].txn /\ entry.op = op2
  BY DEF SlidEntry
<1>8. txn.slot = h.txns[i].slot /\ txn.state = h.txns[i].state
      /\ txn.change = change2
  BY DEF SlidTxn
<1> HIDE DEF op2, change2, entry, txn, i, f
<1>9. \A j \in OpIndex : e.ops[j].txn \in TxnIndex /\ e.ops[j].op \in Operation
  BY <1>1, <1>5, <1>7 DEF IsTyped
<1>10. \A j \in TxnIndex : /\ e.txns[j].slot \in Slots
                           /\ e.txns[j].state \in {"committed", "obsolete"}
                           /\ e.txns[j].change \in Change
  BY <1>1, <1>6, <1>8 DEF IsTyped
<1> QED
  BY <1>1, <1>9, <1>10 DEF IsTyped

(* A move of a cursor keeps the types.                                     *)
LEMMA TypedCursor ==
  ASSUME NEW h, IsLog(h), IsTyped(h), NEW s \in Slots, NEW x \in TxnIndex,
         NEW y \in SUBSET Slots, NEW e, e = WithCursor(h, s, x, y)
  PROVE  IsTyped(e)
<1>1. e.ops = h.ops /\ e.txns = h.txns /\ e.opened = h.opened /\ e.torn = y
  BY CursorSets
<1> QED
  BY <1>1 DEF IsTyped

(* Misplaced changes which slots are torn, and nothing else.               *)
LEMMA MisplacedSets ==
  ASSUME NEW h, IsLog(h), NEW e, e = Misplaced(h)
  PROVE  /\ e.ops = h.ops /\ e.opHead = h.opHead /\ e.opTail = h.opTail
         /\ e.txns = h.txns /\ e.txnHead = h.txnHead /\ e.txnTail = h.txnTail
         /\ e.slotCursor = h.slotCursor /\ e.active = h.active
         /\ e.open = h.open /\ e.opStart = h.opStart /\ e.opened = h.opened
         /\ e.torn = IF netSlot \in Slots THEN h.torn ELSE h.torn \union {h.active}
<1>1. CASE netSlot \in Slots
  BY <1>1 DEF Misplaced
<1>2. CASE netSlot \notin Slots
  <2> DEFINE y == h.torn \union {h.active}
  <2>1. e = [h EXCEPT !.torn = y]
    BY <1>2 DEF Misplaced
  <2> HIDE DEF y
  <2> QED
    BY <1>2, <2>1 DEF IsLog, y
<1> QED
  BY <1>1, <1>2

(* Misplaced keeps the types.                                              *)
LEMMA TypedMisplaced ==
  ASSUME NEW h, IsLog(h), IsTyped(h)
  PROVE  IsTyped(Misplaced(h))
<1> DEFINE e == Misplaced(h)
<1>1. /\ e.ops = h.ops /\ e.txns = h.txns /\ e.opened = h.opened
      /\ e.torn = IF netSlot \in Slots THEN h.torn ELSE h.torn \union {h.active}
  BY MisplacedSets
<1>2. h.active \in Slots
  BY LogFields
<1> HIDE DEF e
<1>3. IsTyped(e)
  BY <1>1, <1>2 DEF IsTyped
<1> QED
  BY <1>3 DEF e

(* The look before undo and redo keeps the types.                          *)
LEMMA TypedLooked ==
  ASSUME LogInv(log), IsTyped(log), IsBoards(board), NEW stale \in BOOLEAN
  PROVE  IsTyped(Looked(stale))
<1> DEFINE a == slotSwapIfNeeded(log, board)
           b == IF stale THEN undoEndTxn(a, board) ELSE a
<1>1. LogInv(a) /\ IsTyped(a)
  BY SwapIfNeededInv, TypedSwapIfNeeded
<1>2. LogInv(b) /\ IsTyped(b)
  <2> HIDE DEF a
  <2> QED
    BY <1>1, EndInv, TypedEnd
<1>3. Looked(stale) = clampSlotCursor(b)
  BY DEF Looked
<1> HIDE DEF b
<1>4. clampSlotCursor(b) = b
  BY <1>2, ClampSame
<1> QED
  BY <1>2, <1>3, <1>4

-----------------------------------------------------------------------------
(* The steps keep the types.                                               *)

RestTyped ==
  /\ netSlot \in Slots \union Guests
  /\ board \in [Slots \union Guests -> Board]
  /\ records \in 0..MaxRecords

(* The inductive invariant of the types.                                   *)
TypeInv == LogInv(log) /\ IsTyped(log) /\ ArenaType /\ RestTyped

(* Every slot has a board.                                                 *)
LEMMA BoardsTyped ==
  ASSUME NEW bs \in [Slots \union Guests -> Board]
  PROVE  IsBoards(bs)
  BY DEF IsBoards

(* A new board is a board.                                                 *)
LEMMA NewBoardType == NewBoard \in Board
<1>1. (CHOOSE v \in Volts : TRUE) \in Volts
  BY UndoRingAssumption
<1>2. [c \in Channels |-> CHOOSE v \in Volts : TRUE] \in [Channels -> Volts]
  BY <1>1
<1> QED
  BY <1>2 DEF NewBoard, Board

(* A recorded change keeps the types.                                      *)
LEMMA RecordTyped ==
  ASSUME TypeInv, NEW op \in Operation, NEW b \in Board, Record(op, b)
  PROVE  IsTyped(log') /\ RestTyped'
<1> DEFINE e == recordOneAction(log, op, board, board')
<1>1. /\ log' = Misplaced(e) /\ board' = [board EXCEPT ![netSlot] = b]
      /\ netSlot' = netSlot /\ records < MaxRecords /\ records' = records + 1
      /\ \/ slotSwapIfNeeded(log, board).open = None
         \/ BundleLength(slotSwapIfNeeded(log, board)) < MaxBundle
  BY DEF Record, MayRecord
<1>2. /\ board' \in [Slots \union Guests -> Board]
      /\ board \in [Slots \union Guests -> Board]
  BY <1>1 DEF TypeInv, RestTyped
<1>3. IsBoards(board) /\ IsBoards(board')
  BY <1>2, BoardsTyped
<1>4. LogInv(log) /\ IsTyped(log)
  BY DEF TypeInv
<1>5. LogInv(e) /\ IsTyped(e)
  BY <1>1, <1>3, <1>4, RecordOneInv, TypedRecordOne
<1>6. IsTyped(log')
  <2> HIDE DEF e
  <2> QED
    BY <1>1, <1>5, TypedMisplaced DEF LogInv
<1>7. records' \in 0..MaxRecords
  BY <1>1, UndoRingAssumption DEF TypeInv, RestTyped
<1> QED
  BY <1>1, <1>2, <1>6, <1>7 DEF TypeInv, RestTyped

(* Every edit keeps the types.                                             *)
LEMMA EditTyped ==
  ASSUME TypeInv, Edit
  PROVE  IsTyped(log') /\ ArenaType' /\ RestTyped'
<1>0. /\ netSlot \in Slots \union Guests /\ board[netSlot] \in Board
      /\ board \in [Slots \union Guests -> Board] /\ ArenaType
  BY DEF TypeInv, RestTyped
<1>1. ASSUME NEW b \in Bridges, addConnection(b)
      PROVE  IsTyped(log') /\ ArenaType' /\ RestTyped'
  <2> DEFINE op == [kind |-> "connect", bridge |-> b]
  <2>1. op \in Operation
    BY DEF Operation
  <2>2. Record(op, applyOp(op, board[netSlot])) /\ arena' = arena
    BY <1>1 DEF addConnection
  <2> HIDE DEF op
  <2> QED
    BY <1>0, <2>1, <2>2, ApplyType, RecordTyped DEF ArenaType
<1>2. ASSUME NEW b \in Bridges, removeConnection(b)
      PROVE  IsTyped(log') /\ ArenaType' /\ RestTyped'
  <2> DEFINE op == [kind |-> "disconnect", bridge |-> b]
  <2>1. op \in Operation
    BY DEF Operation
  <2>2. Record(op, applyOp(op, board[netSlot])) /\ arena' = arena
    BY <1>2 DEF removeConnection
  <2> HIDE DEF op
  <2> QED
    BY <1>0, <2>1, <2>2, ApplyType, RecordTyped DEF ArenaType
<1>3. ASSUME clearAllConnections
      PROVE  IsTyped(log') /\ ArenaType' /\ RestTyped'
  <2> DEFINE op == [kind |-> "clear", at |-> blobAt(board[netSlot]),
                    captured |-> board[netSlot]]
  <2>1. op \in Operation
    BY <1>0, CaptureType DEF Operation
  <2>2. /\ Record(op, applyOp(op, board[netSlot]))
        /\ arena' = blobAppendCurrentState(board[netSlot])
    BY <1>3 DEF clearAllConnections
  <2> HIDE DEF op
  <2>3. ArenaType'
    BY <1>0, <2>2, CaptureType DEF ArenaType
  <2> QED
    BY <1>0, <2>1, <2>2, <2>3, ApplyType, RecordTyped
<1>4. ASSUME NEW c \in Channels, NEW v \in Volts, NEW soon \in BOOLEAN,
             setVoltage(c, v, soon)
      PROVE  IsTyped(log') /\ ArenaType' /\ RestTyped'
  <2> DEFINE a == slotSwapIfNeeded(log, board)
             b == board[netSlot]
             op == [kind |-> "dac", channel |-> c, prev |-> b.volts[c],
                    next |-> v]
  <2>1. op \in Operation
    BY <1>0, BoardWith DEF Operation
  <2>2. arena' = arena
    BY <1>4 DEF setVoltage
  <2>3. CASE Record(op, applyOp(op, b))
    <3> HIDE DEF op
    <3> QED
      BY <1>0, <2>1, <2>2, <2>3, ApplyType, RecordTyped DEF ArenaType
  <2>4. CASE ~(soon /\ SlideGoesOn(a, c))
    <3>1. Record(op, applyOp(op, b))
      BY <1>4, <2>4 DEF setVoltage
    <3> QED
      BY <2>3, <3>1
  <2>5. CASE soon /\ SlideGoesOn(a, c)
    <3>1. /\ records < MaxRecords /\ records' = records + 1
          /\ board' = [board EXCEPT ![netSlot].volts[c] = v]
          /\ log' = Misplaced(Retarget(a, v, board')) /\ netSlot' = netSlot
      BY <1>4, <2>5 DEF setVoltage
    <3>2. board' \in [Slots \union Guests -> Board]
      <4> DEFINE x == [b EXCEPT !.volts[c] = v]
      <4>1. x \in Board
        BY <1>0, BoardWith
      <4>2. board' = [board EXCEPT ![netSlot] = x]
        BY <3>1
      <4> HIDE DEF x
      <4> QED
        BY <1>0, <4>1, <4>2
    <3>3. IsBoards(board) /\ IsBoards(board')
      BY <1>0, <3>2, BoardsTyped
    <3>4. LogInv(a) /\ IsTyped(a) /\ SlideGoesOn(a, c)
      BY <2>5, <3>3, SwapIfNeededInv, TypedSwapIfNeeded DEF TypeInv
    <3> DEFINE r == Retarget(a, v, board')
    <3> HIDE DEF a
    <3>5. LogInv(r) /\ IsTyped(r)
      BY <3>3, <3>4, RetargetInv, TypedRetarget
    <3>6. log' = Misplaced(r)
      BY <3>1
    <3> HIDE DEF r
    <3>7. IsTyped(log')
      BY <3>5, <3>6, TypedMisplaced DEF LogInv
    <3>8. records' \in 0..MaxRecords
      BY <3>1, UndoRingAssumption DEF TypeInv, RestTyped
    <3> QED
      BY <1>0, <2>2, <3>1, <3>2, <3>7, <3>8 DEF RestTyped, ArenaType
  <2> QED
    BY <2>4, <2>5
<1> QED
  BY <1>1, <1>2, <1>3, <1>4 DEF Edit

(* A transaction of a typed log has operations.                            *)
LEMMA OpsOf ==
  ASSUME NEW h, IsLog(h), IsTyped(h), NEW i \in TxnIndex
  PROVE  /\ h.txns[i].opCount \in Nat
         /\ \A k \in 0..h.txns[i].opCount - 1 :
              OpOf(h, h.txns[i], k) \in Operation
<1>1. h.txns[i].firstOp \in OpIndex /\ h.txns[i].opCount \in Nat
  BY TxnIn
<1>2. ASSUME NEW k \in 0..h.txns[i].opCount - 1
      PROVE  OpOf(h, h.txns[i], k) \in Operation
  <2>1. (h.txns[i].firstOp + k) % OpCap \in OpIndex
    BY <1>1, OpPlus
  <2> QED
    BY <2>1 DEF OpOf, IsTyped
<1> QED
  BY <1>1, <1>2

(* The transactions that undo and redo find.                               *)
LEMMA PrevIs ==
  ASSUME NEW h, LogInv(h), NEW s, Done(h, s) # {}
  PROVE  /\ findPrevSlotTxn(h, s) \in Done(h, s)
         /\ \A j \in Done(h, s) : TxnAge(h, j) <= TxnAge(h, findPrevSlotTxn(h, s))
<1> DEFINE S == Done(h, s)
<1>1. S \in SUBSET (0..TxnCap-1)
  BY DEF Done, Reachable, InRing, TxnIndex
<1>2. h.txnTail \in 0..TxnCap-1
  BY LogFields DEF LogInv, TxnIndex
<1>3. \E x \in S : \A y \in S :
        Age(TxnCap, h.txnTail, y) <= Age(TxnCap, h.txnTail, x)
  <2> HIDE DEF S
  <2> QED
    BY <1>1, <1>2, Caps, Youngest DEF S
<1>4. \E x \in S : \A y \in S : TxnAge(h, y) <= TxnAge(h, x)
  BY <1>3 DEF Age, TxnAge
<1> QED
  BY <1>4 DEF findPrevSlotTxn

(* findNextSlotTxn gives the oldest undone transaction of the slot.        *)
LEMMA NextTxnIs ==
  ASSUME NEW h, LogInv(h), NEW s, Undone(h, s) # {}
  PROVE  /\ findNextSlotTxn(h, s) \in Undone(h, s)
         /\ \A j \in Undone(h, s) : TxnAge(h, findNextSlotTxn(h, s)) <= TxnAge(h, j)
<1> DEFINE S == Undone(h, s)
<1>1. S \in SUBSET (0..TxnCap-1)
  BY DEF Undone, Reachable, InRing, TxnIndex
<1>2. h.txnTail \in 0..TxnCap-1
  BY LogFields DEF LogInv, TxnIndex
<1>3. \E x \in S : \A y \in S :
        Age(TxnCap, h.txnTail, x) <= Age(TxnCap, h.txnTail, y)
  <2> HIDE DEF S
  <2> QED
    BY <1>1, <1>2, Caps, Oldest DEF S
<1>4. \E x \in S : \A y \in S : TxnAge(h, x) <= TxnAge(h, y)
  BY <1>3 DEF Age, TxnAge
<1> QED
  BY <1>4 DEF findNextSlotTxn

(* undoUndo, in parts: the log that it looks at, and what it makes of it.  *)
LEMMA UndoIs ==
  ASSUME TypeInv, NEW stale \in BOOLEAN, undoUndo(stale),
         NEW e, e = undoEndTxn(Looked(stale), board),
         NEW i, i = findPrevSlotTxn(e, e.active)
  PROVE  /\ LogInv(Looked(stale)) /\ IsTyped(Looked(stale))
         /\ LogInv(e) /\ IsTyped(e) /\ e.active \in Slots
         /\ Done(e, e.active) # {} /\ i \in Done(e, e.active) /\ i \in TxnIndex
         /\ board' = [board EXCEPT ![netSlot] = Reverted(e, e.txns[i], @)]
         /\ log' = Misplaced(WithCursor(e, e.active, i,
              IF Breaks(e, e.txns[i]) THEN e.torn \union {e.active} ELSE e.torn))
         /\ netSlot' = netSlot /\ arena' = arena /\ records' = records
<1> DEFINE a == Looked(stale)
           y == IF Breaks(e, e.txns[i]) THEN e.torn \union {e.active} ELSE e.torn
<1>0. LogInv(log) /\ IsTyped(log) /\ IsBoards(board)
  BY BoardsTyped DEF TypeInv, RestTyped
<1>1. LogInv(a) /\ IsTyped(a)
  BY <1>0, LookedInv, TypedLooked
<1>2. Done(a, a.active) # {}
  BY DEF undoUndo
<1>3. board' = [board EXCEPT ![netSlot] = Reverted(e, e.txns[i], @)]
  BY DEF undoUndo
<1>4. log' = Misplaced([e EXCEPT !.slotCursor[e.active] = i, !.torn = y])
  BY DEF undoUndo
<1>5. netSlot' = netSlot /\ arena' = arena /\ records' = records
  BY DEF undoUndo
<1>6. e = undoEndTxn(a, board)
  OBVIOUS
<1> HIDE DEF a
<1>7. LogInv(e) /\ e.active = a.active /\ IsTyped(e)
  BY <1>0, <1>1, <1>6, EndInv, TypedEnd
<1>8. a.active \in Slots
  BY <1>1, LogFields DEF LogInv
<1>9. Done(e, e.active) # {}
  BY <1>1, <1>2, <1>6, <1>7, <1>8, EndKeepsDone
<1>10. i \in Done(e, e.active)
  BY <1>7, <1>9, PrevIs
<1>11. i \in TxnIndex
  BY <1>10 DEF Done, Reachable, InRing
<1>12. log' = Misplaced(WithCursor(e, e.active, i, y))
  BY <1>4 DEF WithCursor
<1> QED
  BY <1>1, <1>3, <1>5, <1>7, <1>8, <1>9, <1>10, <1>11, <1>12 DEF a

(* undoUndo keeps the types.                                               *)
LEMMA UndoTyped ==
  ASSUME TypeInv, NEW stale \in BOOLEAN, undoUndo(stale)
  PROVE  IsTyped(log') /\ ArenaType' /\ RestTyped'
<1> DEFINE e == undoEndTxn(Looked(stale), board)
           i == findPrevSlotTxn(e, e.active)
           t == e.txns[i]
           y == IF Breaks(e, t) THEN e.torn \union {e.active} ELSE e.torn
           w == WithCursor(e, e.active, i, y)
<1>1. /\ LogInv(e) /\ IsTyped(e) /\ e.active \in Slots /\ i \in TxnIndex
      /\ board' = [board EXCEPT ![netSlot] = Reverted(e, t, @)]
      /\ log' = Misplaced(w)
      /\ netSlot' = netSlot /\ arena' = arena /\ records' = records
  <2>1. e = undoEndTxn(Looked(stale), board) /\ i = findPrevSlotTxn(e, e.active)
    OBVIOUS
  <2> HIDE DEF e, i
  <2> QED
    BY <2>1, UndoIs
<1> HIDE DEF e, i
<1>2. /\ netSlot \in Slots \union Guests /\ board[netSlot] \in Board
      /\ board \in [Slots \union Guests -> Board] /\ ArenaType
  BY DEF TypeInv, RestTyped
<1>3. Reverted(e, t, board[netSlot]) \in Board
  <2>1. t.opCount \in Nat
        /\ \A k \in 0..t.opCount - 1 : OpOf(e, t, k) \in Operation
    BY <1>1, OpsOf DEF LogInv
  <2> HIDE DEF t
  <2>2. PICK f \in [0..t.opCount -> Board] :
          Reverts(f, e, t, board[netSlot])
            /\ Reverted(e, t, board[netSlot]) = f[t.opCount]
    BY <1>2, <2>1, RevertedIs
  <2> QED
    BY <2>1, <2>2
<1>4. y \in SUBSET Slots /\ IsLog(e)
  BY <1>1 DEF IsTyped, LogInv
<1> HIDE DEF y
<1>5. IsTyped(w)
  BY <1>1, <1>4, TypedCursor
<1>6. IsLog(w)
  <2>1. Age(TxnCap, e.txnTail, i) <= Age(TxnCap, e.txnTail, e.txnHead)
    <3>1. i \in InRing(e)
      <4>1. e = undoEndTxn(Looked(stale), board)
            /\ i = findPrevSlotTxn(e, e.active)
        BY DEF e, i
      <4>2. i \in Done(e, e.active)
        BY <4>1, UndoIs
      <4> QED
        BY <4>2 DEF Done, Reachable
    <3>2. e.txnTail \in TxnIndex /\ e.txnHead \in TxnIndex
      BY <1>4, LogFields
    <3>3. /\ Age(TxnCap, e.txnTail, i) \in 0..TxnCap-1
          /\ Age(TxnCap, e.txnTail, e.txnHead) \in 0..TxnCap-1
      BY <1>1, <3>2, Caps, AgeIs DEF TxnIndex
    <3> QED
      BY <3>1, <3>3, RingIs
  <2>2. LogInv(w)
    BY <1>1, <2>1, CursorInv
  <2> QED
    BY <2>2 DEF LogInv
<1>7. IsTyped(log')
  <2> HIDE DEF w
  <2> QED
    BY <1>1, <1>5, <1>6, TypedMisplaced
<1>8. board' \in [Slots \union Guests -> Board]
  BY <1>1, <1>2, <1>3
<1> QED
  BY <1>1, <1>2, <1>7, <1>8 DEF TypeInv, RestTyped, ArenaType

(* Where undoRedo starts from, and what it redoes.                         *)
LEMMA RedoIs ==
  ASSUME TypeInv, NEW stale \in BOOLEAN, undoRedo(stale),
         NEW a, a = Looked(stale), NEW i, i = findNextSlotTxn(a, a.active)
  PROVE  /\ LogInv(a) /\ IsTyped(a) /\ a.active \in Slots
         /\ i \in Undone(a, a.active) /\ i \in InRing(a) /\ i \in TxnIndex
         /\ txnRingNext(i) \in TxnIndex
         /\ TxnAge(a, txnRingNext(i)) = TxnAge(a, i) + 1
         /\ TxnAge(a, txnRingNext(i)) <= TxnAge(a, a.txnHead)
         /\ board' = [board EXCEPT ![netSlot] = Applied(a, a.txns[i], @)]
         /\ log' = Misplaced(WithCursor(a, a.active, txnRingNext(i), a.torn))
         /\ LogInv(WithCursor(a, a.active, txnRingNext(i), a.torn))
         /\ netSlot' = netSlot /\ arena' = arena /\ records' = records
<1> DEFINE next == txnRingNext(i)
           TA(x) == Age(TxnCap, a.txnTail, x)
<1>0. LogInv(log) /\ IsTyped(log) /\ IsBoards(board)
  BY BoardsTyped DEF TypeInv, RestTyped
<1>1. LogInv(a) /\ IsTyped(a)
  BY <1>0, LookedInv, TypedLooked
<1>2. Undone(a, a.active) # {}
  BY DEF undoRedo
<1>3. board' = [board EXCEPT ![netSlot] = Applied(a, a.txns[i], @)]
  BY DEF undoRedo
<1>4. log' = Misplaced([a EXCEPT !.slotCursor[a.active] = next])
  BY DEF undoRedo
<1>5. netSlot' = netSlot /\ arena' = arena /\ records' = records
  BY DEF undoRedo
<1>6. i \in Undone(a, a.active)
  BY <1>1, <1>2, NextTxnIs
<1>7. i \in InRing(a) /\ i \in TxnIndex /\ TA(i) < TA(a.txnHead)
  <2>1. i \in InRing(a)
    BY <1>6 DEF Undone, Reachable
  <2> QED
    BY <2>1, RingIs
<1>8. a.active \in Slots /\ a.txnTail \in TxnIndex /\ a.txnHead \in TxnIndex
  BY <1>1, LogFields DEF LogInv
<1>9. TA(i) \in 0..TxnCap-1 /\ TA(a.txnHead) \in 0..TxnCap-1
  BY <1>7, <1>8, Caps, AgeIs DEF TxnIndex
<1>10. next \in TxnIndex
  BY <1>7, TxnNext
<1>11. TA(next) = TA(i) + 1
  <2>1. next # a.txnTail => TA(next) = TA(i) + 1
    BY <1>7, <1>8, Caps, AgeNext DEF txnRingNext, TxnIndex
  <2>2. next = a.txnTail => TA(i) = TxnCap - 1
    BY <1>7, <1>8, Caps, AgeNext DEF txnRingNext, TxnIndex
  <2>3. next # a.txnTail
    BY <1>7, <1>9, <2>2, Caps
  <2> QED
    BY <2>1, <2>3
<1>12. TA(next) <= TA(a.txnHead)
  BY <1>7, <1>9, <1>11
<1>13. log' = Misplaced(WithCursor(a, a.active, next, a.torn))
  <2>1. IsLog(a)
    BY <1>1 DEF LogInv
  <2> HIDE DEF next
  <2>2. [a EXCEPT !.slotCursor[a.active] = next]
          = WithCursor(a, a.active, next, a.torn)
    BY <2>1 DEF WithCursor, IsLog
  <2> QED
    BY <1>4, <2>2
<1>14. LogInv(WithCursor(a, a.active, next, a.torn))
  <2> HIDE DEF next
  <2> QED
    BY <1>1, <1>8, <1>10, <1>12, CursorInv
<1>15. TxnAge(a, next) = TxnAge(a, i) + 1
       /\ TxnAge(a, next) <= TxnAge(a, a.txnHead)
  BY <1>11, <1>12 DEF TxnAge, Age
<1> QED
  BY <1>1, <1>3, <1>5, <1>6, <1>7, <1>8, <1>10, <1>13, <1>14, <1>15

(* undoRedo keeps the types.                                               *)
LEMMA RedoTyped ==
  ASSUME TypeInv, NEW stale \in BOOLEAN, undoRedo(stale)
  PROVE  IsTyped(log') /\ ArenaType' /\ RestTyped'
<1> DEFINE a == Looked(stale)
           i == findNextSlotTxn(a, a.active)
           t == a.txns[i]
           next == txnRingNext(i)
           w == WithCursor(a, a.active, next, a.torn)
<1>1. /\ LogInv(a) /\ IsTyped(a) /\ a.active \in Slots /\ i \in TxnIndex
      /\ next \in TxnIndex /\ LogInv(w)
      /\ board' = [board EXCEPT ![netSlot] = Applied(a, t, @)]
      /\ log' = Misplaced(w)
      /\ netSlot' = netSlot /\ arena' = arena /\ records' = records
  <2>1. a = Looked(stale) /\ i = findNextSlotTxn(a, a.active)
    OBVIOUS
  <2> HIDE DEF a, i
  <2> QED
    BY <2>1, RedoIs
<1> HIDE DEF a, i
<1>2. /\ netSlot \in Slots \union Guests /\ board[netSlot] \in Board
      /\ board \in [Slots \union Guests -> Board] /\ ArenaType
  BY DEF TypeInv, RestTyped
<1>3. Applied(a, t, board[netSlot]) \in Board
  <2>1. t.opCount \in Nat
        /\ \A k \in 0..t.opCount - 1 : OpOf(a, t, k) \in Operation
    BY <1>1, OpsOf DEF LogInv
  <2> HIDE DEF t
  <2>2. PICK f \in [0..t.opCount -> Board] :
          Applies(f, a, t, board[netSlot])
            /\ Applied(a, t, board[netSlot]) = f[t.opCount]
    BY <1>2, <2>1, AppliedIs
  <2> QED
    BY <2>1, <2>2
<1>4. IsTyped(w)
  <2>1. a.torn \in SUBSET Slots /\ IsLog(a)
    BY <1>1 DEF IsTyped, LogInv
  <2> HIDE DEF next
  <2> QED
    BY <1>1, <2>1, TypedCursor
<1>5. IsTyped(log')
  <2> HIDE DEF w
  <2> QED
    BY <1>1, <1>4, TypedMisplaced DEF LogInv
<1>6. board' \in [Slots \union Guests -> Board]
  BY <1>1, <1>2, <1>3
<1> QED
  BY <1>1, <1>2, <1>5, <1>6 DEF TypeInv, RestTyped, ArenaType

(* undoWipeHistory empties the rings and puts every cursor at 0.           *)
LEMMA WipeSets ==
  ASSUME IsLog(log), undoWipeHistory
  PROVE  /\ log'.ops = log.ops /\ log'.txns = log.txns
         /\ log'.opHead = 0 /\ log'.opTail = 0
         /\ log'.txnHead = 0 /\ log'.txnTail = 0
         /\ log'.slotCursor = [s \in Slots |-> 0]
         /\ log'.active = log.active /\ log'.open = None
         /\ log'.opened = log.opened /\ log'.torn = {}
<1> DEFINE cursor == [s \in Slots |-> 0]
<1>1. log' = [log EXCEPT !.open = None, !.torn = {}, !.opHead = 0, !.opTail = 0,
                         !.txnHead = 0, !.txnTail = 0, !.slotCursor = cursor]
  BY DEF undoWipeHistory
<1> HIDE DEF cursor
<1>2. log' = [ops |-> log.ops, opHead |-> 0, opTail |-> 0,
              txns |-> log.txns, txnHead |-> 0, txnTail |-> 0,
              slotCursor |-> cursor, active |-> log.active, open |-> None,
              opStart |-> log.opStart, opened |-> log.opened, torn |-> {}]
  BY <1>1 DEF IsLog
<1> QED
  BY <1>2 DEF cursor

(* The types hold at first, ...                                            *)
LEMMA InitTyped == Init => TypeInv
<1> SUFFICES ASSUME Init PROVE TypeInv
  OBVIOUS
<1> DEFINE none == [kind |-> "none"]
           same == [before |-> NewBoard, after |-> NewBoard]
           entry == [txn |-> 0, op |-> none]
           txn == [firstOp |-> 0, opCount |-> 0, slot |-> netSlot,
                   state |-> "committed", change |-> same]
<1>1. 0 \in TxnIndex /\ netSlot \in Slots
  BY Caps DEF TxnIndex, Init
<1>2. none \in Operation /\ same \in Change
  BY NewBoardType DEF Operation, Change
<1>3. /\ \A j \in OpIndex : log.ops[j] = entry
      /\ \A i \in TxnIndex : log.txns[i] = txn
      /\ log.opened = NewBoard /\ log.torn = {}
  BY DEF Init
<1> HIDE DEF none, same
<1>4. /\ entry.txn = 0 /\ entry.op = none
      /\ txn.slot = netSlot /\ txn.state = "committed" /\ txn.change = same
  OBVIOUS
<1> HIDE DEF entry, txn
<1>5. IsTyped(log)
  BY <1>1, <1>2, <1>3, <1>4, NewBoardType DEF IsTyped
<1>6. ArenaType
  <2>1. arena = [blobs |-> {}, used |-> 0] /\ 0 \in 0..ArenaCap
    BY UndoRingAssumption DEF Init
  <2> QED
    BY <2>1 DEF ArenaType
<1>7. RestTyped
  <2>1. board = [s \in Slots \union Guests |-> NewBoard] /\ records = 0
    BY DEF Init
  <2> QED
    BY <1>1, <2>1, NewBoardType, UndoRingAssumption DEF RestTyped
<1> QED
  BY <1>5, <1>6, <1>7, InitInv DEF TypeInv

(* ... every step keeps them, ...                                          *)
LEMMA NextTyped == TypeInv /\ [Next]_vars => TypeInv'
<1> SUFFICES ASSUME TypeInv, [Next]_vars PROVE TypeInv'
  OBVIOUS
<1>0. /\ LogInv(log) /\ IsTyped(log) /\ ArenaType /\ RestTyped
      /\ board \in [Slots \union Guests -> Board] /\ IsBoards(board)
  BY BoardsTyped DEF TypeInv, RestTyped
<1>1. LogInv(log')
  BY <1>0, NextInv
<1>2. CASE Edit
  BY <1>1, <1>2, EditTyped DEF TypeInv
<1>3. CASE BeginBundle
  BY <1>0, <1>1, <1>3, TypedBegin DEF BeginBundle, TypeInv, RestTyped, ArenaType
<1>4. CASE EndBundle
  BY <1>0, <1>1, <1>4, TypedEnd DEF EndBundle, TypeInv, RestTyped, ArenaType
<1>5. ASSUME NEW stale \in BOOLEAN, Look(stale) PROVE TypeInv'
  BY <1>0, <1>1, <1>5, TypedLooked DEF Look, TypeInv, RestTyped, ArenaType
<1>6. ASSUME NEW stale \in BOOLEAN, undoUndo(stale) PROVE TypeInv'
  BY <1>1, <1>6, UndoTyped DEF TypeInv
<1>7. ASSUME NEW stale \in BOOLEAN, undoRedo(stale) PROVE TypeInv'
  BY <1>1, <1>7, RedoTyped DEF TypeInv
<1>8. CASE undoWipeHistory
  <2>1. IsLog(log)
    BY <1>0 DEF LogInv
  <2>2. /\ log'.ops = log.ops /\ log'.txns = log.txns
        /\ log'.opened = log.opened /\ log'.torn = {}
    BY <1>8, <2>1, WipeSets
  <2>3. IsTyped(log')
    BY <1>0, <2>2 DEF IsTyped
  <2>4. ArenaType'
    <3>1. arena' = [arena EXCEPT !.used = 0]
      BY <1>8 DEF undoWipeHistory
    <3>2. 0 \in 0..ArenaCap
      BY UndoRingAssumption
    <3> QED
      BY <1>0, <3>1, <3>2 DEF ArenaType
  <2>5. RestTyped'
    BY <1>0, <1>8 DEF undoWipeHistory, RestTyped
  <2> QED
    BY <1>1, <2>3, <2>4, <2>5 DEF TypeInv
<1>9. ASSUME NEW s \in Slots \union Guests, NEW told \in BOOLEAN,
             SwitchSlot(s, told)
      PROVE  TypeInv'
  <2>1. /\ netSlot' = s /\ arena' = arena /\ records' = records
        /\ \/ board' = board
           \/ s \in Guests /\ board' = [board EXCEPT ![s] = NewBoard]
        /\ log' = IF told /\ s \in Slots THEN slotSwap(log, s, board) ELSE log
    BY <1>9 DEF SwitchSlot
  <2>2. IsTyped(log')
    BY <1>0, <2>1, TypedSwap
  <2>3. board' \in [Slots \union Guests -> Board]
    BY <1>0, <2>1, NewBoardType
  <2> QED
    BY <1>0, <1>1, <1>9, <2>1, <2>2, <2>3 DEF TypeInv, RestTyped, ArenaType
<1>10. CASE UNCHANGED vars
  BY <1>0, <1>1, <1>10 DEF vars, TypeInv, RestTyped, ArenaType
<1> QED
  BY <1>2, <1>3, <1>4, <1>5, <1>6, <1>7, <1>8, <1>9, <1>10 DEF Next

(* ... and so they always hold.                                            *)
LEMMA TypeAlways == Spec => []TypeInv
<1> QED
  BY InitTyped, NextTyped, PTL DEF Spec

(* Every index of the log stays in its ring, every transaction and         *)
(* operation has its type, and so has every board that undoing and redoing *)
(* bring back, whatever is left of the captures.                           *)
THEOREM TypeCorrect == Spec => []TypeOK
<1>1. TypeInv => TypeOK
  <2> SUFFICES ASSUME TypeInv PROVE TypeOK
    OBVIOUS
  <2>1. log \in Logs
    BY TypedIs DEF TypeInv, LogInv
  <2> QED
    BY <2>1 DEF TypeInv, TypeOK, Logs, ArenaType, RestTyped
<1> QED
  BY <1>1, TypeAlways, PTL

-----------------------------------------------------------------------------
(* The past of a slot                                                      *)

OpAt(h, j, k) == h.ops[(j + k) % OpCap].op

(* The operation is one that makes b into c, and knows what b was.         *)
Turns(op, b, c) ==
  /\ c = applyOp(op, b)
  /\ \/ op.kind = "connect" /\ op.bridge \notin b.bridges
     \/ op.kind = "disconnect" /\ op.bridge \in b.bridges
     \/ op.kind = "dac" /\ op.prev = b.volts[op.channel]
     \/ op.kind = "clear" /\ op.captured = b

(* The boards on the way from b to c by the n operations from place j on.  *)
Way(h, j, n, b, c, u) ==
  /\ u \in [0..n -> Board]
  /\ u[0] = b /\ u[n] = c
  /\ \A k \in 0..n-1 : Turns(OpAt(h, j, k), u[k], u[k + 1])

(* There is such a way.                                                    *)
Does(h, j, n, b, c) == \E u : Way(h, j, n, b, c, u)

(* The head and the cursors as ages, and whose a transaction is.           *)
HeadAge(h) == TxnAge(h, h.txnHead)
CursorAge(h, s) == TxnAge(h, h.slotCursor[s])
Own(h, i, s) == txnBelongsToSlot(h.txns[i], s)

(* w[a] is the slot's board before the transaction of age a, and w[a + 1]  *)
(* the one after it.                                                       *)
Passes(h, s, w, i) ==
  LET a == TxnAge(h, i)
      t == h.txns[i]
  IN  IF Own(h, i, s)
      THEN /\ w[a] = t.change.before /\ w[a + 1] = t.change.after
           /\ Does(h, t.firstOp, t.opCount, w[a], w[a + 1])
      ELSE w[a + 1] = w[a]

(* A timeline of the slot, through every transaction of the ring.          *)
IsPast(h, s, w) ==
  /\ w \in [0..HeadAge(h) -> Board]
  /\ \A i \in InRing(h) : Passes(h, s, w, i)

(* The timeline is at b where the slot's cursor is.                        *)
AtCursor(h, s, w, b) == w[CursorAge(h, s)] = b

(* Nothing is undone.                                                      *)
AtHead(h, s, w, b) ==
  AtCursor(h, s, w, b) /\ w[HeadAge(h)] = b /\ Undone(h, s) = {}

(* The slot's board is b where its cursor is, or what the open transaction *)
(* has made of the board there.                                            *)
Leads(h, s, w, b) ==
  IF h.open = s
  THEN /\ AtHead(h, s, w, h.opened)
       /\ Does(h, h.opStart, BundleLength(h), h.opened, b)
  ELSE AtCursor(h, s, w, b)

(* The slot has a past which leads to the board b.                         *)
HasPast(h, s, b) == \E w : IsPast(h, s, w) /\ Leads(h, s, w, b)

(* The ages of the places of the ring, of its head and of its cursors.     *)
LEMMA Ages ==
  ASSUME NEW h, LogInv(h)
  PROVE  /\ \A x \in TxnIndex : TxnAge(h, x) \in 0..TxnCap-1
         /\ \A x \in TxnIndex : TxnAge(h, x) \in Nat
         /\ TxnAge(h, h.txnTail) = 0
         /\ h.txnTail \in TxnIndex /\ h.txnHead \in TxnIndex
         /\ HeadAge(h) \in Nat /\ HeadAge(h) \in 0..TxnCap-1
         /\ \A i \in InRing(h) : /\ i \in TxnIndex
                                 /\ TxnAge(h, i) < HeadAge(h)
                                 /\ i # h.txnHead
         /\ \A i \in TxnIndex : TxnAge(h, i) < HeadAge(h) => i \in InRing(h)
         /\ \A s \in Slots : /\ h.slotCursor[s] \in TxnIndex
                             /\ CursorAge(h, s) \in Nat
                             /\ CursorAge(h, s) <= HeadAge(h)
<1>1. /\ IsLog(h) /\ h.txnTail \in TxnIndex /\ h.txnHead \in TxnIndex
      /\ h.slotCursor \in [Slots -> TxnIndex]
  BY LogFields DEF LogInv
<1>2. \A x \in TxnIndex : TxnAge(h, x) \in 0..TxnCap-1
  BY <1>1, Caps, AgeIs DEF TxnIndex, TxnAge, Age
<1>3. TxnAge(h, h.txnTail) = 0
  BY <1>1, Caps, AgeApart DEF TxnIndex, TxnAge, Age
<1>4. \A x \in TxnIndex : TxnAge(h, x) \in Nat
  BY <1>2, Caps
<1>5. HeadAge(h) \in Nat /\ HeadAge(h) \in 0..TxnCap-1
  BY <1>1, <1>2, <1>4 DEF HeadAge
<1>6. \A i \in InRing(h) : i \in TxnIndex /\ TxnAge(h, i) < HeadAge(h)
  BY DEF InRing, HeadAge
<1>7. \A i \in InRing(h) : i # h.txnHead
  BY <1>5, <1>6 DEF HeadAge
<1>8. \A i \in TxnIndex : TxnAge(h, i) < HeadAge(h) => i \in InRing(h)
  BY DEF InRing, HeadAge
<1>9. \A s \in Slots : h.slotCursor[s] \in TxnIndex
  BY <1>1
<1>10. \A s \in Slots : CursorAge(h, s) \in Nat /\ CursorAge(h, s) <= HeadAge(h)
  <2>1. \A s \in Slots : CursorAge(h, s) <= HeadAge(h)
    BY DEF LogInv, CursorsIn, CursorAge, HeadAge, TxnAge, Age
  <2> QED
    BY <1>4, <1>9, <2>1 DEF CursorAge
<1> QED
  BY <1>1, <1>2, <1>3, <1>4, <1>5, <1>6, <1>7, <1>8, <1>9, <1>10

(* Every age up to the head's is some transaction's.                       *)
LEMMA AgedPlace ==
  ASSUME NEW h, LogInv(h), NEW a \in Nat, a < HeadAge(h)
  PROVE  \E i \in InRing(h) : TxnAge(h, i) = a
<1> DEFINE t == h.txnTail
           i == (t + a) % TxnCap
<1>1. t \in 0..TxnCap-1 /\ HeadAge(h) \in 0..TxnCap-1
  BY Ages DEF TxnIndex
<1>2. Age(TxnCap, t, t) = 0
  BY <1>1, Caps, AgeApart
<1>3. i \in 0..TxnCap-1 /\ Age(TxnCap, t, i) = a
  <2> HIDE DEF t
  <2>1. Age(TxnCap, t, t) + a < TxnCap
    BY <1>1, <1>2, Caps
  <2>2. /\ (t + a) % TxnCap \in 0..TxnCap-1
        /\ Age(TxnCap, t, (t + a) % TxnCap) = Age(TxnCap, t, t) + a
    BY <1>1, <2>1, Caps, AgePlus
  <2> QED
    BY <1>2, <2>2
<1> HIDE DEF i
<1>4. i \in TxnIndex /\ TxnAge(h, i) = a
  BY <1>3 DEF TxnIndex, TxnAge, Age
<1> QED
  BY <1>4, Ages

(* The board does not change where the slot has no transaction.            *)
LEMMA Constant ==
  ASSUME NEW h, LogInv(h), NEW s, NEW w, IsPast(h, s, w),
         NEW p \in Nat, NEW q \in Nat, p <= q, q <= HeadAge(h),
         \A i \in InRing(h) : p <= TxnAge(h, i) /\ TxnAge(h, i) < q => ~Own(h, i, s)
  PROVE  w[p] = w[q]
<1> DEFINE T == {k \in Nat : p + k <= q => w[p + k] = w[p]}
<1>1. 0 \in T
  OBVIOUS
<1>2. ASSUME NEW k \in Nat, k \in T PROVE k + 1 \in T
  <2> SUFFICES ASSUME p + (k + 1) <= q PROVE w[p + (k + 1)] = w[p]
    OBVIOUS
  <2> DEFINE a == p + k
  <2>1. w[a] = w[p] /\ a \in Nat /\ a < q /\ p <= a /\ a + 1 = p + (k + 1)
    BY <1>2
  <2> HIDE DEF a
  <2>2. a < HeadAge(h)
    BY <2>1, Ages
  <2>3. PICK i \in InRing(h) : TxnAge(h, i) = a
    BY <2>1, <2>2, AgedPlace
  <2>4. ~Own(h, i, s)
    BY <2>1, <2>3
  <2>5. w[a + 1] = w[a]
    BY <2>3, <2>4 DEF IsPast, Passes
  <2> QED
    BY <2>1, <2>5
<1> HIDE DEF T
<1>3. \A k \in Nat : k \in T
  BY <1>1, <1>2, AllNumbers
<1>4. q - p \in Nat /\ p + (q - p) = q
  OBVIOUS
<1> QED
  BY <1>3, <1>4 DEF T

(* No operations change nothing, ...                                       *)
LEMMA DoesNone ==
  ASSUME NEW h, NEW j, NEW b, NEW c
  PROVE  /\ Does(h, j, 0, b, c) => b = c
         /\ b \in Board => Does(h, j, 0, b, b)
<1>1. Does(h, j, 0, b, c) => b = c
  BY DEF Does, Way
<1>2. ASSUME b \in Board PROVE Does(h, j, 0, b, b)
  <2> DEFINE u == [k \in 0..0 |-> b]
  <2>1. u \in [0..0 -> Board] /\ u[0] = b
    BY <1>2
  <2> HIDE DEF u
  <2>2. Way(h, j, 0, b, b, u)
    BY <2>1 DEF Way
  <2> QED
    BY <2>2 DEF Does
<1> QED
  BY <1>1, <1>2

(* ... and one more goes on from where the others led.                     *)
LEMMA DoesMore ==
  ASSUME NEW h, NEW j, NEW n \in Nat, NEW b, NEW c, Does(h, j, n, b, c),
         NEW d \in Board, Turns(OpAt(h, j, n), c, d)
  PROVE  Does(h, j, n + 1, b, d)
<1>1. PICK u : Way(h, j, n, b, c, u)
  BY DEF Does
<1> DEFINE v == [k \in 0..(n + 1) |-> IF k = n + 1 THEN d ELSE u[k]]
<1>2. /\ v \in [0..(n + 1) -> Board] /\ v[n + 1] = d
      /\ \A k \in 0..n : v[k] = u[k]
  BY <1>1 DEF Way
<1> HIDE DEF v
<1>3. v[0] = b /\ v[n] = c
  BY <1>1, <1>2 DEF Way
<1>4. ASSUME NEW k \in 0..n PROVE Turns(OpAt(h, j, k), v[k], v[k + 1])
  <2>1. CASE k = n
    BY <1>2, <1>3, <2>1
  <2>2. CASE k # n
    <3>1. k \in 0..n-1 /\ k + 1 \in 0..n
      BY <2>2
    <3> QED
      BY <1>1, <1>2, <3>1 DEF Way
  <2> QED
    BY <2>1, <2>2
<1>5. Way(h, j, n + 1, b, d, v)
  <2>1. 0..(n + 1) - 1 = 0..n
    OBVIOUS
  <2> QED
    BY <1>2, <1>3, <1>4, <2>1 DEF Way
<1> QED
  BY <1>5 DEF Does

(* Only the operations matter to what a transaction does.                  *)
LEMMA DoesSame ==
  ASSUME NEW h, NEW e, NEW j, NEW n, NEW b, NEW c, Does(h, j, n, b, c),
         \A k \in 0..n-1 : OpAt(e, j, k) = OpAt(h, j, k)
  PROVE  Does(e, j, n, b, c)
<1>1. PICK u : Way(h, j, n, b, c, u)
  BY DEF Does
<1>2. Way(e, j, n, b, c, u)
  BY <1>1 DEF Way
<1> QED
  BY <1>2 DEF Does

(* Logs with the same transactions in the ring have the same pasts.        *)
LEMMA PastSame ==
  ASSUME NEW h, NEW e, NEW s, NEW w, IsPast(h, s, w),
         e.ops = h.ops, e.txns = h.txns,
         e.txnHead = h.txnHead, e.txnTail = h.txnTail
  PROVE  IsPast(e, s, w)
<1>1. \A x : TxnAge(e, x) = TxnAge(h, x)
  BY DEF TxnAge
<1>2. InRing(e) = InRing(h) /\ HeadAge(e) = HeadAge(h)
  BY <1>1 DEF InRing, HeadAge
<1>3. ASSUME NEW i \in InRing(h) PROVE Passes(e, s, w, i)
  <2>1. Passes(h, s, w, i)
    BY DEF IsPast
  <2>2. Own(e, i, s) <=> Own(h, i, s)
    BY DEF Own
  <2>3. \A j, n, b, c : Does(h, j, n, b, c) => Does(e, j, n, b, c)
    BY DoesSame DEF OpAt
  <2> QED
    BY <1>1, <2>1, <2>2, <2>3 DEF Passes
<1> QED
  BY <1>2, <1>3 DEF IsPast

-----------------------------------------------------------------------------
(* What the operators make of a past                                       *)

(* The ages when the oldest transaction goes.                              *)
LEMMA EvictAges ==
  ASSUME NEW h, LogInv(h), h.txnHead # h.txnTail, NEW e, e = EvictOldest(h)
  PROVE  /\ \A x \in TxnIndex : x # h.txnTail =>
              TxnAge(h, x) >= 1 /\ TxnAge(e, x) = TxnAge(h, x) - 1
         /\ HeadAge(h) >= 1 /\ HeadAge(e) = HeadAge(h) - 1
         /\ h.txnTail \in InRing(h)
         /\ \A i \in InRing(e) : i \in InRing(h) /\ i # h.txnTail
         /\ e.txnTail \in TxnIndex /\ TxnAge(e, e.txnTail) = 0
<1> DEFINE t == h.txnTail
           u == e.txnTail
<1>1. IsLog(h) /\ t \in TxnIndex /\ h.txnHead \in TxnIndex
  BY LogFields DEF LogInv
<1>2. u = txnRingNext(t) /\ e.txnHead = h.txnHead
  BY <1>1, EvictShape
<1>3. /\ u \in TxnIndex
      /\ \A x \in TxnIndex : x # t =>
           TxnAge(h, x) >= 1 /\ TxnAge(e, x) = TxnAge(h, x) - 1
      /\ TxnAge(e, t) = TxnCap - 1
  <2>1. t \in 0..TxnCap-1 /\ u = (t + 1) % TxnCap
    BY <1>1, <1>2 DEF txnRingNext, TxnIndex
  <2> DEFINE tt == t
             uu == u
  <2> HIDE DEF tt, uu
  <2>2. /\ uu \in 0..TxnCap-1 /\ Age(TxnCap, uu, tt) = TxnCap - 1
        /\ \A x \in 0..TxnCap-1 : x # tt => /\ Age(TxnCap, tt, x) >= 1
                                           /\ Age(TxnCap, uu, x) = Age(TxnCap, tt, x) - 1
    <3>1. tt \in 0..TxnCap-1 /\ uu = (tt + 1) % TxnCap
      BY <2>1 DEF tt, uu
    <3> QED
      BY <3>1, Caps, AgeMoved
  <2> QED
    BY <2>2 DEF tt, uu, TxnIndex, TxnAge, Age
<1> HIDE DEF u
<1>4. HeadAge(h) >= 1 /\ HeadAge(e) = HeadAge(h) - 1
  BY <1>1, <1>2, <1>3 DEF HeadAge
<1>5. t \in InRing(h)
  BY <1>4, Ages
<1>6. TxnAge(e, u) = 0
  BY <1>3, Caps, AgeApart DEF TxnIndex, TxnAge, Age, u
<1>7. ASSUME NEW i \in InRing(e) PROVE i \in InRing(h) /\ i # t
  <2>1. i \in TxnIndex /\ TxnAge(e, i) < HeadAge(e)
    BY <1>7 DEF InRing, HeadAge
  <2>2. HeadAge(h) \in 0..TxnCap-1
    BY Ages
  <2>3. i # t
    BY <1>3, <1>4, <2>1, <2>2, Caps
  <2>4. TxnAge(h, i) \in Nat /\ TxnAge(e, i) = TxnAge(h, i) - 1
    BY <1>3, <2>1, <2>3, Ages
  <2>5. TxnAge(h, i) < HeadAge(h)
    BY <1>4, <2>1, <2>2, <2>4
  <2> QED
    BY <2>1, <2>3, <2>5, Ages
<1> QED
  BY <1>3, <1>4, <1>5, <1>6, <1>7 DEF u

(* The past begins one transaction later.                                  *)
LEMMA EvictPast ==
  ASSUME NEW h, LogInv(h), h.txnHead # h.txnTail, NEW e, e = EvictOldest(h),
         NEW s \in Slots, s \notin e.torn, NEW w, IsPast(h, s, w)
  PROVE  \E v : /\ IsPast(e, s, v)
                /\ v[CursorAge(e, s)] = w[CursorAge(h, s)]
                /\ v[HeadAge(e)] = w[HeadAge(h)]
                /\ Undone(h, s) = {} => Undone(e, s) = {}
<1> DEFINE t == h.txnTail
           v == [a \in 0..HeadAge(e) |-> w[a + 1]]
<1>1. /\ \A r \in Slots : e.slotCursor[r] =
           IF h.slotCursor[r] = t THEN e.txnTail ELSE h.slotCursor[r]
      /\ e.ops = h.ops /\ e.txns = h.txns
      /\ e.torn = h.torn \union {r \in Slots : t \in Undone(h, r)}
  BY EvictShape DEF LogInv
<1>2. /\ \A x \in TxnIndex : x # t =>
           TxnAge(h, x) >= 1 /\ TxnAge(e, x) = TxnAge(h, x) - 1
      /\ HeadAge(h) >= 1 /\ HeadAge(e) = HeadAge(h) - 1
      /\ t \in InRing(h)
      /\ \A i \in InRing(e) : i \in InRing(h) /\ i # t
      /\ e.txnTail \in TxnIndex /\ TxnAge(e, e.txnTail) = 0
  BY EvictAges
<1>3. /\ \A x \in TxnIndex : TxnAge(h, x) \in Nat
      /\ TxnAge(h, t) = 0 /\ HeadAge(h) \in Nat
      /\ \A i \in InRing(h) : i \in TxnIndex /\ TxnAge(h, i) < HeadAge(h)
      /\ h.slotCursor[s] \in TxnIndex /\ CursorAge(h, s) \in Nat
      /\ CursorAge(h, s) <= HeadAge(h)
  BY Ages
<1>4. /\ w \in [0..HeadAge(h) -> Board]
      /\ \A i \in InRing(h) : Passes(h, s, w, i)
  BY DEF IsPast
<1>5. v \in [0..HeadAge(e) -> Board] /\ \A a \in 0..HeadAge(e) : v[a] = w[a + 1]
  BY <1>2, <1>3, <1>4
<1> HIDE DEF v
<1>6. ASSUME NEW i \in InRing(e) PROVE Passes(e, s, v, i)
  <2> DEFINE a == TxnAge(e, i)
             b == TxnAge(h, i)
  <2>1. /\ i \in InRing(h) /\ i # t /\ i \in TxnIndex
        /\ b >= 1 /\ a = b - 1 /\ b \in Nat /\ b < HeadAge(h)
    BY <1>2, <1>3
  <2>2. v[a] = w[b] /\ v[a + 1] = w[b + 1]
    <3>1. a \in 0..HeadAge(e) /\ a + 1 \in 0..HeadAge(e) /\ a + 1 = b
      BY <1>2, <1>3, <2>1
    <3> HIDE DEF a, b
    <3> QED
      BY <1>5, <3>1
  <2>3. Passes(h, s, w, i)
    BY <1>4, <2>1
  <2>4. Own(e, i, s) <=> Own(h, i, s)
    BY <1>1 DEF Own
  <2>5. \A j, n, c, d : Does(h, j, n, c, d) => Does(e, j, n, c, d)
    BY <1>1, DoesSame DEF OpAt
  <2> QED
    BY <1>1, <2>2, <2>3, <2>4, <2>5 DEF Passes
<1>7. IsPast(e, s, v)
  BY <1>5, <1>6 DEF IsPast
<1>8. v[CursorAge(e, s)] = w[CursorAge(h, s)]
  <2>1. CASE h.slotCursor[s] = t
    <3>1. CursorAge(e, s) = 0 /\ CursorAge(h, s) = 0
      BY <1>1, <1>2, <1>3, <2>1 DEF CursorAge
    <3>2. v[0] = w[1]
      BY <1>2, <1>3, <1>5
    <3>3. ~Own(h, t, s)
      <4>1. SUFFICES ASSUME Own(h, t, s) PROVE FALSE
        OBVIOUS
      <4>2. t \in Reachable(h, s)
        BY <1>2, <4>1 DEF Reachable, Own
      <4>3. t \notin Done(h, s)
        BY <1>3, <2>1 DEF Done
      <4> QED
        BY <1>1, <4>2, <4>3 DEF Undone
    <3>4. w[1] = w[0]
      <4>1. Passes(h, s, w, t)
        BY <1>2, <1>4
      <4> QED
        BY <1>3, <3>3, <4>1 DEF Passes
    <3> QED
      BY <3>1, <3>2, <3>4
  <2>2. CASE h.slotCursor[s] # t
    <3> DEFINE a == CursorAge(e, s)
               b == CursorAge(h, s)
    <3>1. b >= 1 /\ a = b - 1
      BY <1>1, <1>2, <1>3, <2>2 DEF CursorAge
    <3> HIDE DEF a, b
    <3>2. a \in 0..HeadAge(e) /\ a + 1 = b
      BY <1>2, <1>3, <3>1 DEF b
    <3> QED
      BY <1>5, <3>2 DEF a, b
  <2> QED
    BY <2>1, <2>2
<1>9. v[HeadAge(e)] = w[HeadAge(h)]
  <2>1. HeadAge(e) \in 0..HeadAge(e) /\ HeadAge(e) + 1 = HeadAge(h)
    BY <1>2, <1>3
  <2> QED
    BY <1>5, <2>1
<1>10. ASSUME Undone(h, s) = {} PROVE Undone(e, s) = {}
  <2> SUFFICES ASSUME NEW i \in Reachable(e, s) PROVE i \in Done(e, s)
    BY DEF Undone
  <2>1. i \in InRing(e) /\ Own(e, i, s)
    BY DEF Reachable, Own
  <2>2. i \in InRing(h) /\ i # t /\ Own(h, i, s) /\ i \in TxnIndex
    BY <1>1, <1>2, <1>3, <2>1 DEF Own
  <2>3. i \in Done(h, s)
    BY <1>10, <2>2 DEF Undone, Reachable, Own
  <2>4. TxnAge(h, i) < CursorAge(h, s)
    BY <2>3 DEF Done, CursorAge
  <2>5. h.slotCursor[s] # t
    BY <1>2, <1>3, <2>2, <2>4 DEF CursorAge
  <2>6. CursorAge(e, s) = CursorAge(h, s) - 1
    BY <1>1, <1>2, <1>3, <2>5 DEF CursorAge
  <2>7. TxnAge(e, i) < CursorAge(e, s)
    BY <1>2, <1>3, <2>2, <2>4, <2>6
  <2> QED
    BY <2>7 DEF Done, CursorAge
<1> QED
  BY <1>7, <1>8, <1>9, <1>10

(* A past survives an eviction that does not tear it.                      *)
LEMMA EvictHasPast ==
  ASSUME NEW h, LogInv(h), h.txnHead # h.txnTail, NEW e, e = EvictOldest(h),
         NEW s \in Slots, s \notin e.torn, NEW b, HasPast(h, s, b)
  PROVE  HasPast(e, s, b)
<1>1. PICK w : IsPast(h, s, w) /\ Leads(h, s, w, b)
  BY DEF HasPast
<1>2. PICK v : /\ IsPast(e, s, v)
               /\ v[CursorAge(e, s)] = w[CursorAge(h, s)]
               /\ v[HeadAge(e)] = w[HeadAge(h)]
               /\ Undone(h, s) = {} => Undone(e, s) = {}
  BY <1>1, EvictPast
<1>3. /\ e.ops = h.ops /\ e.opHead = h.opHead /\ e.open = h.open
      /\ e.opStart = h.opStart /\ e.opened = h.opened
  BY EvictShape DEF LogInv
<1>4. \A j, n, c, d : Does(h, j, n, c, d) => Does(e, j, n, c, d)
  BY <1>3, DoesSame DEF OpAt
<1>5. BundleLength(e) = BundleLength(h)
  BY <1>3 DEF BundleLength
<1>6. Leads(e, s, v, b)
  BY <1>1, <1>2, <1>3, <1>4, <1>5 DEF Leads, AtHead, AtCursor
<1> QED
  BY <1>2, <1>6 DEF HasPast

(* The end of a transaction makes it the past's last.                      *)
LEMMA EndPast ==
  ASSUME NEW h, LogInv(h), NEW bs, IsBoards(bs), NEW e, e = undoEndTxn(h, bs),
         NEW s \in Slots, HasPast(h, s, bs[s])
  PROVE  HasPast(e, s, bs[s])
<1>1. CASE h.open = None
  BY <1>1 DEF undoEndTxn
<1>2. CASE h.open # None
  <2> DEFINE n == BundleLength(h)
             hd == h.txnHead
             HA == HeadAge(h)
             t == EndedTxn(h, bs)
  <2>1. PICK w : IsPast(h, s, w) /\ Leads(h, s, w, bs[s])
    BY DEF HasPast
  <2>2. /\ IsLog(e) /\ e.open = None /\ e.ops = h.ops /\ e.txnTail = h.txnTail
        /\ \A i \in TxnIndex : i # hd => e.txns[i] = h.txns[i]
        /\ n = 0 => e.txnHead = hd
        /\ n # 0 => e.txnHead = txnRingNext(hd)
    BY <1>2, EndShape
  <2>3. /\ e.txns[hd] = t
        /\ \A r \in Slots : e.slotCursor[r] =
             IF n # 0 /\ r = h.open THEN txnRingNext(hd) ELSE h.slotCursor[r]
    BY <1>2, EndSets
  <2>4. /\ \A x \in TxnIndex : TxnAge(h, x) \in Nat
        /\ HA \in Nat /\ hd \in TxnIndex /\ h.txnTail \in TxnIndex
        /\ \A i \in InRing(h) : i \in TxnIndex /\ TxnAge(h, i) < HA /\ i # hd
        /\ CursorAge(h, s) \in Nat /\ CursorAge(h, s) <= HA
    BY Ages
  <2>5. \A x : TxnAge(e, x) = TxnAge(h, x)
    BY <2>2 DEF TxnAge
  <2>6. /\ w \in [0..HA -> Board]
        /\ \A i \in InRing(h) : Passes(h, s, w, i)
    BY <2>1 DEF IsPast
  <2>7. \A j, k, c, d : Does(h, j, k, c, d) => Does(e, j, k, c, d)
    BY <2>2, DoesSame DEF OpAt
  <2>8. e.open # s
    BY <2>2, UndoRingAssumption
  <2>9. CASE n = 0
    <3>1. e.txnHead = hd /\ \A r \in Slots : e.slotCursor[r] = h.slotCursor[r]
      BY <2>2, <2>3, <2>9
    <3>2. InRing(e) = InRing(h) /\ HeadAge(e) = HA
      BY <2>5, <3>1 DEF InRing, HeadAge
    <3>3. ASSUME NEW i \in InRing(h) PROVE Passes(e, s, w, i)
      <4>1. e.txns[i] = h.txns[i] /\ Passes(h, s, w, i)
        BY <2>2, <2>4, <2>6
      <4> QED
        BY <2>5, <2>7, <4>1 DEF Passes, Own
    <3>4. IsPast(e, s, w)
      BY <2>6, <3>2, <3>3 DEF IsPast
    <3>5. AtCursor(h, s, w, bs[s])
      <4>1. CASE h.open = s
        <5>1. AtCursor(h, s, w, h.opened)
              /\ Does(h, h.opStart, 0, h.opened, bs[s])
          BY <2>1, <2>9, <4>1 DEF Leads, AtHead
        <5>2. h.opened = bs[s]
          BY <5>1, DoesNone
        <5> QED
          BY <5>1, <5>2
      <4>2. CASE h.open # s
        BY <2>1, <4>2 DEF Leads
      <4> QED
        BY <4>1, <4>2
    <3>6. AtCursor(e, s, w, bs[s])
      BY <2>5, <3>1, <3>5 DEF AtCursor, CursorAge
    <3> QED
      BY <2>8, <3>4, <3>6 DEF HasPast, Leads
  <2>10. CASE n # 0
    <3> DEFINE x == IF s = h.open THEN bs[s] ELSE w[HA]
               v == [a \in 0..HA + 1 |-> IF a = HA + 1 THEN x ELSE w[a]]
    <3>1. HeadAge(e) = HA + 1 /\ TxnAge(h, txnRingNext(hd)) = HA + 1
      <4>1. txnRingNext(hd) # h.txnTail
        BY <1>2 DEF LogInv, OpenInv
      <4>2. TxnAge(h, txnRingNext(hd)) = HA + 1
        BY <2>4, <4>1, Caps, AgeNext DEF txnRingNext, TxnIndex, TxnAge, Age, HeadAge
      <4> QED
        BY <2>2, <2>5, <2>10, <4>2 DEF HeadAge
    <3>2. bs[s] \in Board /\ x \in Board
      BY <2>4, <2>6 DEF IsBoards
    <3>3. /\ v \in [0..HA + 1 -> Board] /\ v[HA + 1] = x
          /\ \A a \in 0..HA : v[a] = w[a]
      <4> HIDE DEF x, HA
      <4> QED
        BY <2>4, <2>6, <3>2
    <3> HIDE DEF v
    <3>4. ASSUME NEW i \in InRing(h) PROVE Passes(e, s, v, i)
      <4>1. e.txns[i] = h.txns[i] /\ Passes(h, s, w, i)
        BY <2>2, <2>4, <2>6
      <4> DEFINE a == TxnAge(h, i)
      <4>2. a \in 0..HA /\ a + 1 \in 0..HA
        BY <2>4
      <4>3. v[a] = w[a] /\ v[a + 1] = w[a + 1]
        <5> HIDE DEF a, HA
        <5> QED
          BY <3>3, <4>2
      <4> QED
        BY <2>5, <2>7, <4>1, <4>3 DEF Passes, Own
    <3>5. Passes(e, s, v, hd)
      <4>1. n \in Nat /\ n > 0
        <5>1. n \in 0..OpCap-1
          BY <1>2, BundleIs DEF LogInv
        <5> QED
          BY <2>10, <5>1, Caps
      <4>2. Own(e, hd, s) <=> s = h.open
        BY <2>3, <4>1 DEF Own, txnBelongsToSlot, EndedTxn
      <4>3. TxnAge(e, hd) = HA
        BY <2>5 DEF HeadAge
      <4>4. v[HA] = w[HA] /\ v[HA + 1] = x
        BY <2>4, <3>3
      <4>5. CASE s = h.open
        <5>1. w[HA] = h.opened /\ Does(h, h.opStart, n, h.opened, bs[s])
          BY <2>1, <4>5 DEF Leads, AtHead
        <5>2. /\ t.change.before = h.opened /\ t.change.after = bs[s]
              /\ t.firstOp = h.opStart /\ t.opCount = n
          BY <4>5 DEF EndedTxn
        <5>3. v[HA] = h.opened /\ v[HA + 1] = bs[s]
          BY <4>4, <4>5, <5>1
        <5> HIDE DEF t, HA, n
        <5> QED
          BY <2>3, <2>7, <4>2, <4>3, <4>5, <5>1, <5>2, <5>3 DEF Passes
      <4>6. CASE s # h.open
        BY <4>2, <4>3, <4>4, <4>6 DEF Passes
      <4> QED
        BY <4>5, <4>6
    <3>6. \A i \in InRing(e) : i \in InRing(h) \/ i = hd
      <4> SUFFICES ASSUME NEW i \in InRing(e), i # hd PROVE i \in InRing(h)
        OBVIOUS
      <4>1. i \in TxnIndex /\ TxnAge(h, i) < HA + 1
        BY <2>5, <3>1 DEF InRing, HeadAge
      <4>2. TxnAge(h, i) # HA
        BY <2>4, <4>1, Caps, AgeApart DEF TxnIndex, TxnAge, Age, HeadAge
      <4>3. TxnAge(h, i) < HA
        BY <2>4, <4>1, <4>2
      <4> QED
        BY <4>1, <4>3 DEF InRing, HeadAge
    <3>7. IsPast(e, s, v)
      BY <3>1, <3>3, <3>4, <3>5, <3>6 DEF IsPast
    <3>8. AtCursor(e, s, v, bs[s])
      <4>1. CASE s = h.open
        BY <2>3, <2>5, <2>10, <3>1, <3>3, <4>1 DEF AtCursor, CursorAge
      <4>2. CASE s # h.open
        <5>1. CursorAge(e, s) = CursorAge(h, s)
          BY <2>3, <2>5, <4>2 DEF CursorAge
        <5>2. w[CursorAge(h, s)] = bs[s]
          BY <2>1, <4>2 DEF Leads, AtCursor
        <5>3. CursorAge(h, s) \in 0..HA
          BY <2>4
        <5> QED
          BY <3>3, <5>1, <5>2, <5>3 DEF AtCursor
      <4> QED
        BY <4>1, <4>2
    <3> QED
      BY <2>8, <3>7, <3>8 DEF HasPast, Leads
  <2> QED
    BY <2>9, <2>10
<1> QED
  BY <1>1, <1>2

(* A swap of slots keeps every past.                                       *)
LEMMA SwapPast ==
  ASSUME NEW h, LogInv(h), NEW bs, IsBoards(bs), NEW r \in Slots,
         NEW e, e = slotSwap(h, r, bs),
         NEW s \in Slots, HasPast(h, s, bs[s])
  PROVE  HasPast(e, s, bs[s])
<1>1. CASE r = h.active
  BY <1>1 DEF slotSwap
<1>2. CASE r # h.active
  <2> DEFINE a == undoEndTxn(h, bs)
  <2>1. HasPast(a, s, bs[s])
    BY EndPast
  <2>2. /\ a.open = None
        /\ e.ops = a.ops /\ e.txns = a.txns
        /\ e.txnHead = a.txnHead /\ e.txnTail = a.txnTail
        /\ e.slotCursor = a.slotCursor /\ e.open = a.open
    <3>1. a = undoEndTxn(h, bs)
      OBVIOUS
    <3> HIDE DEF a
    <3> QED
      BY <1>2, <3>1, SwapSets
  <2> HIDE DEF a
  <2>3. a.open # s /\ e.open # s
    BY <2>2, UndoRingAssumption
  <2>4. PICK w : IsPast(a, s, w) /\ AtCursor(a, s, w, bs[s])
    BY <2>1, <2>3 DEF HasPast, Leads
  <2>5. IsPast(e, s, w)
    BY <2>2, <2>4, PastSame
  <2>6. AtCursor(e, s, w, bs[s])
    BY <2>2, <2>4 DEF AtCursor, CursorAge, TxnAge
  <2> QED
    BY <2>3, <2>5, <2>6 DEF HasPast, Leads
<1> QED
  BY <1>1, <1>2

(* So does slotSwapIfNeeded.                                               *)
LEMMA SwapIfNeededPast ==
  ASSUME NEW h, LogInv(h), NEW bs, IsBoards(bs),
         NEW e, e = slotSwapIfNeeded(h, bs),
         NEW s \in Slots, HasPast(h, s, bs[s])
  PROVE  HasPast(e, s, bs[s])
  BY SwapPast DEF slotSwapIfNeeded

(* What other slots have undone is no part of a slot's past, ...           *)
LEMMA DropOthersPast ==
  ASSUME NEW h, LogInv(h), NEW e, e = DropRedo(h),
         NEW s \in Slots, s # h.active, NEW w, IsPast(h, s, w)
  PROVE  IsPast(e, s, w) /\ CursorAge(e, s) = CursorAge(h, s)
<1>1. /\ e.ops = h.ops /\ e.txnHead = h.txnHead /\ e.txnTail = h.txnTail
      /\ e.slotCursor = h.slotCursor
      /\ \A i \in TxnIndex :
           IF i \in Undone(h, h.active)
           THEN /\ e.txns[i].state = "obsolete"
                /\ e.txns[i].slot = h.txns[i].slot
                /\ e.txns[i].change = h.txns[i].change
           ELSE e.txns[i] = h.txns[i]
  BY DropRedoSets
<1>2. \A x : TxnAge(e, x) = TxnAge(h, x)
  BY <1>1 DEF TxnAge
<1>3. InRing(e) = InRing(h) /\ HeadAge(e) = HeadAge(h)
  BY <1>1, <1>2 DEF InRing, HeadAge
<1>4. \A j, k, c, d : Does(h, j, k, c, d) => Does(e, j, k, c, d)
  BY <1>1, DoesSame DEF OpAt
<1>5. ASSUME NEW i \in InRing(h) PROVE Passes(e, s, w, i)
  <2>1. Passes(h, s, w, i) /\ i \in TxnIndex
    BY Ages DEF IsPast
  <2>2. CASE i \in Undone(h, h.active)
    <3>1. ~Own(h, i, s) /\ ~Own(e, i, s)
      BY <1>1, <2>1, <2>2 DEF Undone, Reachable, Own, txnBelongsToSlot
    <3> QED
      BY <1>2, <2>1, <3>1 DEF Passes
  <2>3. CASE i \notin Undone(h, h.active)
    <3>1. e.txns[i] = h.txns[i]
      BY <1>1, <2>1, <2>3
    <3> QED
      BY <1>2, <1>4, <2>1, <3>1 DEF Passes, Own
  <2> QED
    BY <2>2, <2>3
<1> QED
  BY <1>1, <1>2, <1>3, <1>5 DEF IsPast, CursorAge

(* ... and its own past ends where its cursor is.                          *)
LEMMA DropOwnPast ==
  ASSUME NEW h, LogInv(h), NEW e, e = DropRedo(h),
         NEW s, s = h.active, NEW w, IsPast(h, s, w),
         NEW b, AtCursor(h, s, w, b)
  PROVE  \E v : IsPast(e, s, v) /\ AtHead(e, s, v, b)
<1> DEFINE c == CursorAge(h, s)
           HA == HeadAge(h)
           v == [a \in 0..HA |-> IF a <= c THEN w[a] ELSE w[c]]
<1>1. /\ e.ops = h.ops /\ e.txnHead = h.txnHead /\ e.txnTail = h.txnTail
      /\ e.slotCursor = h.slotCursor
      /\ \A i \in TxnIndex :
           IF i \in Undone(h, h.active)
           THEN /\ e.txns[i].state = "obsolete"
                /\ e.txns[i].slot = h.txns[i].slot
                /\ e.txns[i].change = h.txns[i].change
           ELSE e.txns[i] = h.txns[i]
  BY DropRedoSets
<1>2. \A x : TxnAge(e, x) = TxnAge(h, x)
  BY <1>1 DEF TxnAge
<1>3. InRing(e) = InRing(h) /\ HeadAge(e) = HA /\ CursorAge(e, s) = c
  BY <1>1, <1>2 DEF InRing, HeadAge, CursorAge
<1>4. \A j, k, x, y : Does(h, j, k, x, y) => Does(e, j, k, x, y)
  BY <1>1, DoesSame DEF OpAt
<1>5. h.active \in Slots
  BY LogFields DEF LogInv
<1>6. /\ HA \in Nat /\ c \in Nat /\ c <= HA
      /\ \A i \in InRing(h) : /\ i \in TxnIndex /\ TxnAge(h, i) \in Nat
                              /\ TxnAge(h, i) < HA
  BY <1>5, Ages
<1>7. w \in [0..HA -> Board] /\ \A i \in InRing(h) : Passes(h, s, w, i)
  BY DEF IsPast
<1>8. w[c] = b
  BY DEF AtCursor
<1> HIDE DEF c, HA
<1>9. /\ v \in [0..HA -> Board]
      /\ \A a \in 0..HA : v[a] = IF a <= c THEN w[a] ELSE w[c]
  BY <1>6, <1>7
<1> HIDE DEF v
<1>10. ASSUME NEW i \in InRing(h)
       PROVE  /\ TxnAge(h, i) < c => (Own(e, i, s) <=> Own(h, i, s))
              /\ TxnAge(h, i) < c => e.txns[i] = h.txns[i]
              /\ ~(TxnAge(h, i) < c) => ~Own(e, i, s)
  <2>1. i \in TxnIndex
    BY <1>6
  <2>2. CASE TxnAge(h, i) < c
    <3>1. i \notin Undone(h, s)
      BY <1>10, <2>2 DEF Undone, Done, c, CursorAge
    <3>2. e.txns[i] = h.txns[i]
      BY <1>1, <2>1, <3>1
    <3> QED
      BY <2>2, <3>2 DEF Own
  <2>3. CASE ~(TxnAge(h, i) < c)
    <3>1. CASE Own(h, i, s)
      <4>1. i \in Undone(h, s)
        BY <1>10, <2>3, <3>1 DEF Undone, Done, Reachable, Own, c, CursorAge
      <4> QED
        BY <1>1, <2>1, <2>3, <4>1 DEF Own, txnBelongsToSlot
    <3>2. CASE ~Own(h, i, s)
      <4>1. i \notin Undone(h, s)
        BY <3>2 DEF Undone, Reachable, Own
      <4>2. e.txns[i] = h.txns[i]
        BY <1>1, <2>1, <4>1
      <4> QED
        BY <2>3, <3>2, <4>2 DEF Own
    <3> QED
      BY <3>1, <3>2
  <2> QED
    BY <2>2, <2>3
<1>11. ASSUME NEW i \in InRing(h) PROVE Passes(e, s, v, i)
  <2> DEFINE a == TxnAge(h, i)
  <2>1. a \in Nat /\ a \in 0..HA /\ a + 1 \in 0..HA
    BY <1>6
  <2>2. CASE a < c
    <3>1. v[a] = w[a] /\ v[a + 1] = w[a + 1]
      <4>1. a <= c /\ a + 1 <= c
        BY <1>6, <2>1, <2>2
      <4> HIDE DEF a
      <4> QED
        BY <1>9, <2>1, <4>1
    <3>2. e.txns[i] = h.txns[i] /\ Passes(h, s, w, i)
      BY <1>7, <1>10, <2>2
    <3> QED
      BY <1>2, <1>4, <3>1, <3>2 DEF Passes, Own
  <2>3. CASE ~(a < c)
    <3>1. v[a] = w[c] /\ v[a + 1] = w[c]
      <4>1. ~(a + 1 <= c) /\ (a = c \/ ~(a <= c))
        BY <1>6, <2>1, <2>3
      <4> HIDE DEF a
      <4> QED
        BY <1>9, <2>1, <4>1
    <3>2. ~Own(e, i, s)
      BY <1>10, <2>3
    <3> QED
      BY <1>2, <3>1, <3>2 DEF Passes
  <2> QED
    BY <2>2, <2>3
<1>12. IsPast(e, s, v)
  BY <1>3, <1>9, <1>11 DEF IsPast
<1>13. v[c] = b /\ v[HA] = b
  <2>1. c \in 0..HA /\ HA \in 0..HA /\ (HA <= c => HA = c) /\ c <= c
    BY <1>6
  <2> QED
    BY <1>8, <1>9, <2>1
<1>14. Undone(e, s) = {}
  <2> SUFFICES ASSUME NEW i \in Reachable(e, s) PROVE i \in Done(e, s)
    BY DEF Undone
  <2>1. i \in InRing(h) /\ Own(e, i, s)
    BY <1>3 DEF Reachable, Own
  <2>2. TxnAge(h, i) < c
    BY <1>10, <2>1
  <2> QED
    BY <1>2, <1>3, <2>2 DEF Done, CursorAge
<1> QED
  BY <1>3, <1>12, <1>13, <1>14 DEF AtHead, AtCursor
(* Nothing in a past depends on the rest of the log.                       *)
LEMMA HasPastSame ==
  ASSUME NEW h, NEW e, NEW s, NEW b, HasPast(h, s, b),
         e.ops = h.ops, e.opHead = h.opHead, e.txns = h.txns,
         e.txnHead = h.txnHead, e.txnTail = h.txnTail,
         e.slotCursor[s] = h.slotCursor[s], e.open = h.open,
         e.opStart = h.opStart, e.opened = h.opened
  PROVE  HasPast(e, s, b)
<1>1. PICK w : IsPast(h, s, w) /\ Leads(h, s, w, b)
  BY DEF HasPast
<1>2. IsPast(e, s, w)
  BY <1>1, PastSame
<1>3. \A x : TxnAge(e, x) = TxnAge(h, x)
  BY DEF TxnAge
<1>4. HeadAge(e) = HeadAge(h) /\ CursorAge(e, s) = CursorAge(h, s)
  BY <1>3 DEF HeadAge, CursorAge
<1>5. Undone(e, s) = Undone(h, s)
  BY <1>3 DEF Undone, Done, Reachable, InRing
<1>6. BundleLength(e) = BundleLength(h)
  BY DEF BundleLength
<1>7. \A j, k, c, d : Does(h, j, k, c, d) => Does(e, j, k, c, d)
  BY DoesSame DEF OpAt
<1>8. Leads(e, s, w, b)
  BY <1>1, <1>4, <1>5, <1>6, <1>7 DEF Leads, AtHead, AtCursor
<1> QED
  BY <1>2, <1>8 DEF HasPast

(* A transaction begins at the past's end.                                 *)
LEMMA BeginPast ==
  ASSUME NEW h, LogInv(h), NEW bs, IsBoards(bs), NEW e, e = undoBeginTxn(h, bs),
         NEW s \in Slots, s \notin e.torn, HasPast(h, s, bs[s])
  PROVE  HasPast(e, s, bs[s])
<1> DEFINE a == slotSwapIfNeeded(h, bs)
           b == undoEndTxn(a, bs)
           d == DropRedo(b)
           f == MadeTxnRoom(d)
<1>1. /\ LogInv(b) /\ b.open = None
      /\ LogInv(d) /\ d.open = None /\ d.active = b.active
      /\ txnRingNext(d.txnHead) = d.txnTail => d.txnHead # d.txnTail
      /\ LogInv(f) /\ f.open = None /\ f.active = d.active
      /\ e.ops = f.ops /\ e.txns = f.txns
      /\ e.txnHead = f.txnHead /\ e.txnTail = f.txnTail
      /\ e.slotCursor = f.slotCursor /\ e.open = f.active
      /\ e.opened = bs[f.active] /\ e.torn = f.torn
  <2>1. b = undoEndTxn(slotSwapIfNeeded(h, bs), bs) /\ d = DropRedo(b)
        /\ f = MadeTxnRoom(d)
    OBVIOUS
  <2> HIDE DEF b, d, f
  <2> QED
    BY <2>1, BeginSets
<1>2. LogInv(a) /\ HasPast(a, s, bs[s])
  BY SwapIfNeededInv, SwapIfNeededPast
<1> HIDE DEF a
<1>3. HasPast(b, s, bs[s])
  BY <1>2, EndPast
<1> HIDE DEF b
<1>4. PICK w0 : IsPast(b, s, w0) /\ AtCursor(b, s, w0, bs[s])
  BY <1>1, <1>3, UndoRingAssumption DEF HasPast, Leads
<1>5. \E w : /\ IsPast(d, s, w) /\ AtCursor(d, s, w, bs[s])
             /\ s = d.active => AtHead(d, s, w, bs[s])
  <2>1. CASE s = b.active
    <3>1. \E v : IsPast(d, s, v) /\ AtHead(d, s, v, bs[s])
      BY <1>1, <1>4, <2>1, DropOwnPast
    <3> QED
      BY <3>1 DEF AtHead
  <2>2. CASE s # b.active
    <3>1. IsPast(d, s, w0) /\ CursorAge(d, s) = CursorAge(b, s)
      BY <1>1, <1>4, <2>2, DropOthersPast
    <3> QED
      BY <1>1, <1>4, <2>2, <3>1 DEF AtCursor
  <2> QED
    BY <2>1, <2>2
<1> HIDE DEF d
<1>6. PICK w : /\ IsPast(d, s, w) /\ AtCursor(d, s, w, bs[s])
               /\ s = d.active => AtHead(d, s, w, bs[s])
  BY <1>5
<1>7. \E v : /\ IsPast(f, s, v) /\ AtCursor(f, s, v, bs[s])
             /\ s = f.active => AtHead(f, s, v, bs[s])
  <2>1. CASE txnRingNext(d.txnHead) = d.txnTail
    <3>1. f = EvictOldest(d) /\ s \notin f.torn /\ d.txnHead # d.txnTail
      BY <1>1, <2>1 DEF MadeTxnRoom
    <3> HIDE DEF f
    <3>2. PICK v : /\ IsPast(f, s, v)
                   /\ v[CursorAge(f, s)] = w[CursorAge(d, s)]
                   /\ v[HeadAge(f)] = w[HeadAge(d)]
                   /\ Undone(d, s) = {} => Undone(f, s) = {}
      BY <1>1, <1>6, <3>1, EvictPast
    <3> QED
      BY <1>1, <1>6, <3>2 DEF AtHead, AtCursor
  <2>2. CASE txnRingNext(d.txnHead) # d.txnTail
    <3>1. f = d
      BY <2>2 DEF MadeTxnRoom
    <3> QED
      BY <1>6, <3>1
  <2> QED
    BY <2>1, <2>2
<1> HIDE DEF f
<1>8. PICK v : /\ IsPast(f, s, v) /\ AtCursor(f, s, v, bs[s])
               /\ s = f.active => AtHead(f, s, v, bs[s])
  BY <1>7
<1>9. IsPast(e, s, v)
  BY <1>1, <1>8, PastSame
<1>10. \A x : TxnAge(e, x) = TxnAge(f, x)
  BY <1>1 DEF TxnAge
<1>11. /\ HeadAge(e) = HeadAge(f) /\ CursorAge(e, s) = CursorAge(f, s)
       /\ Undone(e, s) = Undone(f, s)
  BY <1>1, <1>10 DEF HeadAge, CursorAge, Undone, Done, Reachable, InRing
<1>12. CASE s = f.active
  <2>1. AtHead(e, s, v, e.opened)
    BY <1>1, <1>8, <1>11, <1>12 DEF AtHead, AtCursor
  <2>2. BundleLength(e) = 0
    BY BeginInv
  <2>3. Does(e, e.opStart, BundleLength(e), e.opened, bs[s])
    <3>1. bs[s] \in Board /\ e.opened = bs[s]
      BY <1>1, <1>12 DEF IsBoards
    <3> QED
      BY <2>2, <3>1, DoesNone
  <2> QED
    BY <1>1, <1>9, <1>12, <2>1, <2>3 DEF HasPast, Leads
<1>13. CASE s # f.active
  <2>1. AtCursor(e, s, v, bs[s])
    BY <1>8, <1>11 DEF AtCursor
  <2> QED
    BY <1>1, <1>9, <1>13, <2>1 DEF HasPast, Leads
<1> QED
  BY <1>12, <1>13

(* Room for an operation is made at the expense of torn slots only.        *)
LEMMA RoomPast ==
  ASSUME NEW h, LogInv(h), NEW e, e = MadeRoom(h),
         NEW s \in Slots, s \notin e.torn, NEW b, HasPast(h, s, b)
  PROVE  HasPast(e, s, b)
<1>1. CASE e = h
  BY <1>1
<1>2. CASE h.txnHead # h.txnTail /\ e = EvictOldest(h)
  BY <1>2, EvictHasPast
<1>3. CASE /\ e.ops = h.ops /\ e.opHead = h.opHead
           /\ e.txns = h.txns /\ e.txnHead = h.txnHead
           /\ e.txnTail = h.txnTail /\ e.slotCursor = h.slotCursor
           /\ e.active = h.active /\ e.open = h.open
           /\ e.opStart = h.opStart /\ e.opened = h.opened /\ e.torn = h.torn
  BY <1>3, HasPastSame
<1> QED
  BY <1>1, <1>2, <1>3, RoomSets

(* The operation that is appended is the open transaction's next one, and  *)
(* takes no place of another.                                              *)
LEMMA AppendOps ==
  ASSUME NEW h, LogInv(h), h.open # None, BundleLength(h) < OpCap - 1,
         NEW op, NEW e, e = appendOp(h, op), NEW a, a = MadeRoom(h)
  PROVE  /\ \A i \in InRing(a) : \A k \in 0..a.txns[i].opCount - 1 :
              OpAt(e, a.txns[i].firstOp, k) = OpAt(a, a.txns[i].firstOp, k)
         /\ \A k \in 0..BundleLength(a) - 1 :
              OpAt(e, a.opStart, k) = OpAt(a, a.opStart, k)
         /\ OpAt(e, a.opStart, BundleLength(a)) = op
         /\ BundleLength(a) \in Nat
         /\ BundleLength(e) = BundleLength(a) + 1
<1> DEFINE n == BundleLength(a)
           o == a.opTail
           OA(x) == Age(OpCap, o, x)
<1>1. /\ LogInv(a) /\ a.open # None
      /\ e.opHead = opRingNext(a.opHead) /\ e.opTail = o
      /\ e.txns = a.txns /\ e.txnHead = a.txnHead /\ e.txnTail = a.txnTail
      /\ e.open = a.open /\ e.opStart = a.opStart
      /\ \A j \in OpIndex : e.ops[j] =
           IF j = a.opHead THEN [txn |-> a.txnHead, op |-> op] ELSE a.ops[j]
  BY AppendSets
<1>2. LogInv(e) /\ opRingNext(a.opHead) # o
  BY AppendInv, RoomInv
<1>3. /\ o \in OpIndex /\ a.opHead \in OpIndex /\ a.opStart \in OpIndex
      /\ IsLog(a) /\ IsLog(e)
  BY <1>1, <1>2, LogFields DEF LogInv
<1>4. /\ n \in 0..OpCap-1 /\ OA(a.opStart) + n = OA(a.opHead)
      /\ OA(a.opHead) \in 0..OpCap-1 /\ OA(a.opStart) \in 0..OpCap-1
  BY <1>1, BundleIs DEF LogInv
<1>5. BundleLength(e) = n + 1
  <2>1. /\ BundleLength(e) \in 0..OpCap-1
        /\ OA(a.opStart) + BundleLength(e) = OA(opRingNext(a.opHead))
    <3>1. /\ BundleLength(e) \in 0..OpCap-1
          /\ Age(OpCap, e.opTail, e.opStart) + BundleLength(e)
               = Age(OpCap, e.opTail, e.opHead)
      BY <1>1, <1>2, BundleIs DEF LogInv
    <3> QED
      BY <1>1, <3>1
  <2>2. OA(opRingNext(a.opHead)) = OA(a.opHead) + 1
    BY <1>2, <1>3, Caps, AgeNext DEF opRingNext, OpIndex
  <2> HIDE DEF n, OA
  <2> QED
    BY <1>4, <2>1, <2>2, Caps
<1>6. (a.opStart + n) % OpCap = a.opHead
  <2> DEFINE x == a.opStart
  <2>1. n \in Nat /\ x \in 0..OpCap-1 /\ o \in 0..OpCap-1 /\ OA(x) + n < OpCap
    BY <1>3, <1>4, Caps DEF OpIndex
  <2> HIDE DEF n, x
  <2>2. /\ (x + n) % OpCap \in 0..OpCap-1
        /\ OA((x + n) % OpCap) = OA(x) + n
    BY <2>1, Caps, AgePlus
  <2>3. OA((x + n) % OpCap) = OA(a.opHead)
    BY <1>4, <2>2 DEF x
  <2>4. (x + n) % OpCap = a.opHead
    BY <1>3, <2>1, <2>2, <2>3, Caps, AgeApart DEF OpIndex
  <2> QED
    BY <2>4 DEF x
<1>7. ASSUME NEW i \in InRing(a), NEW k \in 0..a.txns[i].opCount - 1
      PROVE  OpAt(e, a.txns[i].firstOp, k) = OpAt(a, a.txns[i].firstOp, k)
  <2> DEFINE p == (a.txns[i].firstOp + k) % OpCap
  <2>1. i \in InRing(e) /\ i \in TxnIndex /\ i # a.txnHead
    <3>1. InRing(e) = InRing(a)
      BY <1>1 DEF InRing, TxnAge
    <3> QED
      BY <1>1, <3>1, Ages
  <2>2. p \in OpIndex
    <3>1. a.txns[i].firstOp \in OpIndex /\ k \in Nat
      BY <1>3, <2>1, TxnIn
    <3> QED
      BY <3>1, OpPlus
  <2>3. e.ops[p].txn = i
    <3>1. Kept(e)
      BY <1>2 DEF LogInv
    <3>2. k \in 0..e.txns[i].opCount - 1
          /\ p = (e.txns[i].firstOp + k) % OpCap
      BY <1>1
    <3> HIDE DEF p
    <3> QED
      BY <2>1, <3>1, <3>2 DEF Kept
  <2> HIDE DEF p
  <2>4. p # a.opHead
    BY <1>1, <2>1, <2>2, <2>3
  <2>5. e.ops[p] = a.ops[p]
    BY <1>1, <2>2, <2>4
  <2> QED
    BY <2>5 DEF p, OpAt
<1>8. ASSUME NEW k \in 0..n - 1
      PROVE  OpAt(e, a.opStart, k) = OpAt(a, a.opStart, k)
  <2> DEFINE p == (a.opStart + k) % OpCap
  <2>1. k \in Nat /\ k \in 0..OpCap /\ n \in 0..OpCap /\ k < n /\ n - k < OpCap
    BY <1>4, Caps
  <2>2. p \in OpIndex
    BY <1>3, <2>1, OpPlus
  <2>3. p # (a.opStart + n) % OpCap
    <3>1. a.opStart \in 0..OpCap-1
      BY <1>3 DEF OpIndex
    <3> HIDE DEF n
    <3> QED
      BY <2>1, <3>1, Caps, Apart
  <2> HIDE DEF p, n
  <2>4. e.ops[p] = a.ops[p]
    BY <1>1, <1>6, <2>2, <2>3
  <2> QED
    BY <2>4 DEF p, OpAt
<1>9. OpAt(e, a.opStart, n) = op
  BY <1>1, <1>3, <1>6 DEF OpAt
<1>10. n \in Nat
  BY <1>4, Caps
<1> QED
  BY <1>5, <1>7, <1>8, <1>9, <1>10

(* All but the operations is as the making of room left it.                *)
LEMMA AppendKeeps ==
  ASSUME NEW h, LogInv(h), h.open # None, BundleLength(h) < OpCap - 1,
         NEW op, NEW e, e = appendOp(h, op)
  PROVE  /\ LogInv(MadeRoom(h)) /\ MadeRoom(h).open = h.open
         /\ e.opTail = MadeRoom(h).opTail /\ e.txns = MadeRoom(h).txns
         /\ e.txnHead = MadeRoom(h).txnHead /\ e.txnTail = MadeRoom(h).txnTail
         /\ e.slotCursor = MadeRoom(h).slotCursor
         /\ e.open = MadeRoom(h).open /\ e.opStart = MadeRoom(h).opStart
         /\ e.opened = MadeRoom(h).opened /\ e.torn = MadeRoom(h).torn
<1>1. ASSUME NEW a, a = MadeRoom(h)
      PROVE  /\ LogInv(a) /\ a.open = h.open
      /\ BundleLength(a) = BundleLength(h)
             /\ e.opHead = opRingNext(a.opHead) /\ e.opTail = a.opTail
             /\ e.txns = a.txns /\ e.txnHead = a.txnHead
             /\ e.txnTail = a.txnTail
             /\ e.slotCursor = a.slotCursor /\ e.active = a.active
             /\ e.open = a.open /\ e.opStart = a.opStart
             /\ e.opened = a.opened /\ e.torn = a.torn
             /\ \A j \in OpIndex : e.ops[j] =
                  IF j = a.opHead THEN [txn |-> a.txnHead, op |-> op]
                  ELSE a.ops[j]
  BY <1>1, AppendSets
<1> QED
  BY <1>1

(* "b" is the slot's board before the operation, "c" the one after it.     *)
LEMMA AppendPast ==
  ASSUME NEW h, LogInv(h), h.open # None, BundleLength(h) < OpCap - 1,
         NEW op, NEW e, e = appendOp(h, op),
         NEW s \in Slots, s \notin e.torn,
         NEW b, NEW c \in Board, HasPast(h, s, b),
         s = h.open => Turns(op, b, c), s # h.open => c = b
  PROVE  HasPast(e, s, c)
<1> DEFINE a == MadeRoom(h)
<1>1. /\ LogInv(a) /\ a.open = h.open
      /\ e.opTail = a.opTail
      /\ e.txns = a.txns /\ e.txnHead = a.txnHead /\ e.txnTail = a.txnTail
      /\ e.slotCursor = a.slotCursor
      /\ e.open = a.open /\ e.opStart = a.opStart /\ e.opened = a.opened
      /\ e.torn = a.torn
  BY AppendKeeps
<1>2. /\ \A i \in InRing(a) : \A k \in 0..a.txns[i].opCount - 1 :
           OpAt(e, a.txns[i].firstOp, k) = OpAt(a, a.txns[i].firstOp, k)
      /\ \A k \in 0..BundleLength(a) - 1 :
           OpAt(e, a.opStart, k) = OpAt(a, a.opStart, k)
      /\ OpAt(e, a.opStart, BundleLength(a)) = op
      /\ BundleLength(a) \in Nat
      /\ BundleLength(e) = BundleLength(a) + 1
  <2>1. a = MadeRoom(h)
    OBVIOUS
  <2> HIDE DEF a
  <2> QED
    BY <2>1, AppendOps
<1>3. HasPast(a, s, b)
  BY <1>1, RoomPast
<1> HIDE DEF a
<1>4. PICK w : IsPast(a, s, w) /\ Leads(a, s, w, b)
  BY <1>3 DEF HasPast
<1>5. \A x : TxnAge(e, x) = TxnAge(a, x)
  BY <1>1 DEF TxnAge
<1>6. /\ InRing(e) = InRing(a) /\ HeadAge(e) = HeadAge(a)
      /\ CursorAge(e, s) = CursorAge(a, s) /\ Undone(e, s) = Undone(a, s)
  BY <1>1, <1>5 DEF InRing, HeadAge, CursorAge, Undone, Done, Reachable
<1>7. ASSUME NEW i \in InRing(a) PROVE Passes(e, s, w, i)
  <2> DEFINE t == a.txns[i]
  <2>1. Passes(a, s, w, i)
    BY <1>4 DEF IsPast
  <2>2. \A x, y : Does(a, t.firstOp, t.opCount, x, y)
                    => Does(e, t.firstOp, t.opCount, x, y)
    BY <1>2, <1>7, DoesSame
  <2> QED
    BY <1>1, <1>5, <2>1, <2>2 DEF Passes, Own
<1>8. IsPast(e, s, w)
  BY <1>4, <1>6, <1>7 DEF IsPast
<1>9. CASE s = h.open
  <2>1. AtHead(e, s, w, e.opened)
    BY <1>1, <1>4, <1>6, <1>9 DEF Leads, AtHead, AtCursor
  <2>2. Does(a, a.opStart, BundleLength(a), a.opened, b)
    BY <1>1, <1>4, <1>9 DEF Leads
  <2>3. Does(e, a.opStart, BundleLength(a), a.opened, b)
    BY <1>2, <2>2, DoesSame
  <2>4. Does(e, a.opStart, BundleLength(a) + 1, a.opened, c)
    BY <1>2, <1>9, <2>3, DoesMore
  <2>5. Does(e, e.opStart, BundleLength(e), e.opened, c)
    BY <1>1, <1>2, <2>4
  <2> QED
    BY <1>1, <1>8, <1>9, <2>1, <2>5 DEF HasPast, Leads
<1>10. CASE s # h.open
  BY <1>1, <1>4, <1>6, <1>8, <1>10 DEF HasPast, Leads, AtCursor
<1> QED
  BY <1>9, <1>10

(* No slot is mended.                                                      *)
LEMMA EndTorn ==
  ASSUME NEW h, LogInv(h), NEW bs, NEW e, e = undoEndTxn(h, bs)
  PROVE  e.torn = h.torn
<1>1. CASE h.open = None
  BY <1>1 DEF undoEndTxn
<1>2. CASE h.open # None
  BY <1>2, EndSets
<1> QED
  BY <1>1, <1>2

(* A swap tears nothing.                                                   *)
LEMMA SwapTorn ==
  ASSUME NEW h, LogInv(h), NEW bs, NEW s \in Slots, NEW e, e = slotSwap(h, s, bs)
  PROVE  e.torn = h.torn
<1>1. CASE s = h.active
  BY <1>1 DEF slotSwap
<1>2. CASE s # h.active
  <2> DEFINE a == undoEndTxn(h, bs)
  <2>1. a = undoEndTxn(h, bs) /\ a.torn = h.torn
    BY EndTorn
  <2> HIDE DEF a
  <2> QED
    BY <1>2, <2>1, SwapSets
<1> QED
  BY <1>1, <1>2

(* After catching up the log is with the slot in use, if it has a history. *)
LEMMA CaughtUp ==
  ASSUME NEW h, LogInv(h), NEW bs, NEW a, a = slotSwapIfNeeded(h, bs)
  PROVE  /\ a.torn = h.torn
         /\ netSlot \in Slots => a.active = netSlot
         /\ slotSwapIfNeeded(a, bs) = a
<1>1. CASE netSlot \notin Slots
  BY <1>1 DEF slotSwapIfNeeded
<1>2. CASE netSlot \in Slots
  <2>1. a = slotSwap(h, netSlot, bs)
    BY <1>2 DEF slotSwapIfNeeded
  <2>2. a.active = netSlot /\ a.torn = h.torn
    BY <1>2, <2>1, SwapInv, SwapTorn
  <2>3. slotSwapIfNeeded(a, bs) = a
    BY <1>2, <2>2 DEF slotSwapIfNeeded, slotSwap
  <2> QED
    BY <2>2, <2>3
<1> QED
  BY <1>1, <1>2

(* A begin mends nothing, and opens for the slot that was looked for.      *)
LEMMA BeginTorn ==
  ASSUME NEW h, LogInv(h), NEW bs, NEW e, e = undoBeginTxn(h, bs)
  PROVE  /\ h.torn \subseteq e.torn
         /\ e.open = slotSwapIfNeeded(h, bs).active
<1> DEFINE a == slotSwapIfNeeded(h, bs)
           b == undoEndTxn(a, bs)
           d == DropRedo(b)
           f == MadeTxnRoom(d)
<1>1. /\ LogInv(b) /\ LogInv(d) /\ d.active = b.active /\ f.active = d.active
      /\ e.open = f.active /\ e.torn = f.torn
  <2>1. b = undoEndTxn(slotSwapIfNeeded(h, bs), bs) /\ d = DropRedo(b)
        /\ f = MadeTxnRoom(d)
    OBVIOUS
  <2> HIDE DEF b, d, f
  <2> QED
    BY <2>1, BeginSets
<1>2. LogInv(a) /\ a.torn = h.torn
  BY SwapIfNeededInv, CaughtUp
<1> HIDE DEF a
<1>3. b.torn = a.torn /\ b.active = a.active
  BY <1>2, EndTorn, EndInv
<1> HIDE DEF b
<1>4. d.torn = b.torn
  BY <1>1, DropRedoSets
<1> HIDE DEF d
<1>5. d.torn \subseteq f.torn
  BY <1>1, EvictShape DEF MadeTxnRoom, LogInv
<1> QED
  BY <1>1, <1>2, <1>3, <1>4, <1>5 DEF a

(* appendOp mends nothing.                                                 *)
LEMMA AppendTorn ==
  ASSUME NEW h, LogInv(h), h.open # None, BundleLength(h) < OpCap - 1,
         NEW op, NEW e, e = appendOp(h, op)
  PROVE  h.torn \subseteq e.torn /\ e.open = h.open
<1> DEFINE a == MadeRoom(h)
<1>1. e.torn = a.torn /\ e.open = a.open /\ a.open = h.open
  BY AppendKeeps
<1>2. h.torn \subseteq a.torn
  BY RoomSets, EvictShape DEF LogInv
<1> QED
  BY <1>1, <1>2

(* A change is recorded where the log is.                                  *)
LEMMA RecordOnePast ==
  ASSUME NEW h, LogInv(h), NEW op, NEW bs, IsBoards(bs), NEW cs, IsBoards(cs),
         NEW a, a = slotSwapIfNeeded(h, bs),
         a.open = None \/ BundleLength(a) < MaxBundle,
         NEW e, e = recordOneAction(h, op, bs, cs),
         NEW s \in Slots, s \notin e.torn, HasPast(h, s, bs[s]),
         s = a.active => Turns(op, bs[s], cs[s]),
         s # a.active => cs[s] = bs[s]
  PROVE  HasPast(e, s, cs[s])
<1>1. LogInv(a) /\ HasPast(a, s, bs[s])
  BY SwapIfNeededInv, SwapIfNeededPast
<1>2. bs[s] \in Board /\ cs[s] \in Board
  BY DEF IsBoards
<1>3. CASE a.open # None
  <2>1. BundleLength(a) \in 0..OpCap-1
    BY <1>1, <1>3, BundleIs DEF LogInv
  <2>2. BundleLength(a) < OpCap - 1
    BY <1>3, <2>1, Caps
  <2>3. e = appendOp(a, op)
    BY <1>3 DEF recordOneAction
  <2>4. a.open = a.active
    BY <1>1, <1>3 DEF LogInv, OpenInv
  <2> QED
    BY <1>1, <1>2, <1>3, <2>2, <2>3, <2>4, AppendPast
<1>4. CASE a.open = None
  <2> DEFINE b == undoBeginTxn(a, bs)
             c == appendOp(b, op)
  <2>1. e = undoEndTxn(c, cs)
    BY <1>4 DEF recordOneAction
  <2>2. LogInv(b) /\ b.open # None /\ BundleLength(b) = 0
    BY <1>1, BeginInv
  <2>3. BundleLength(b) < OpCap - 1
    BY <2>2, Caps
  <2>4. b.open = a.active
    <3>1. slotSwapIfNeeded(a, bs) = a
      BY CaughtUp
    <3> QED
      BY <1>1, <3>1, BeginTorn
  <2>5. s \notin b.torn => HasPast(b, s, bs[s])
    BY <1>1, BeginPast
  <2> HIDE DEF b
  <2>6. LogInv(c) /\ b.torn \subseteq c.torn
    BY <2>2, <2>3, AppendInv, AppendTorn
  <2>7. s \notin c.torn => HasPast(c, s, cs[s])
    BY <1>2, <2>2, <2>3, <2>4, <2>5, <2>6, AppendPast
  <2> HIDE DEF c
  <2>8. e.torn = c.torn
    BY <2>1, <2>6, EndTorn
  <2> QED
    BY <2>1, <2>6, <2>7, <2>8, EndPast
<1> QED
  BY <1>3, <1>4

(* recordOneAction mends nothing, and records for the active slot.         *)
LEMMA RecordOneTorn ==
  ASSUME NEW h, LogInv(h), NEW op, NEW bs, NEW cs,
         NEW a, a = slotSwapIfNeeded(h, bs),
         a.open = None \/ BundleLength(a) < MaxBundle,
         NEW e, e = recordOneAction(h, op, bs, cs)
  PROVE  h.torn \subseteq e.torn /\ e.active = a.active
<1>1. LogInv(a) /\ a.torn = h.torn
  BY SwapIfNeededInv, CaughtUp
<1>2. ASSUME NEW b, LogInv(b), b.open # None, BundleLength(b) < OpCap - 1,
             NEW c, c = appendOp(b, op)
      PROVE  LogInv(c) /\ b.torn \subseteq c.torn /\ c.active = b.open
  <2>1. LogInv(c) /\ b.torn \subseteq c.torn /\ c.open = b.open
    BY <1>2, AppendInv, AppendTorn
  <2> QED
    BY <1>2, <2>1 DEF LogInv, OpenInv
<1>3. CASE a.open # None
  <2>1. BundleLength(a) \in 0..OpCap-1
    BY <1>1, <1>3, BundleIs DEF LogInv
  <2>2. BundleLength(a) < OpCap - 1
    BY <1>3, <2>1, Caps
  <2>3. e = appendOp(a, op) /\ a.open = a.active
    BY <1>1, <1>3 DEF recordOneAction, LogInv, OpenInv
  <2> QED
    BY <1>1, <1>2, <1>3, <2>2, <2>3
<1>4. CASE a.open = None
  <2> DEFINE b == undoBeginTxn(a, bs)
             c == appendOp(b, op)
  <2>1. e = undoEndTxn(c, cs)
    BY <1>4 DEF recordOneAction
  <2>2. LogInv(b) /\ b.open # None /\ BundleLength(b) = 0
    BY <1>1, BeginInv
  <2>3. BundleLength(b) < OpCap - 1
    BY <2>2, Caps
  <2>4. b.open = a.active /\ a.torn \subseteq b.torn
    <3>1. slotSwapIfNeeded(a, bs) = a
      BY CaughtUp
    <3> QED
      BY <1>1, <3>1, BeginTorn
  <2> HIDE DEF b
  <2>5. LogInv(c) /\ b.torn \subseteq c.torn /\ c.active = b.open
    BY <1>2, <2>2, <2>3
  <2> HIDE DEF c
  <2>6. e.torn = c.torn /\ e.active = c.active
    BY <2>1, <2>5, EndTorn, EndInv
  <2> QED
    BY <1>1, <2>4, <2>5, <2>6
<1> QED
  BY <1>3, <1>4

-----------------------------------------------------------------------------
(* A slide                                                                 *)

(* The newest transaction is the head's elder.                             *)
LEMMA PrevAge ==
  ASSUME NEW h, LogInv(h), h.txnHead # h.txnTail,
         NEW i, i = txnRingPrev(h.txnHead)
  PROVE  /\ i \in InRing(h) /\ i \in TxnIndex
         /\ TxnAge(h, i) + 1 = HeadAge(h)
<1> DEFINE t == h.txnTail
           hd == h.txnHead
           n == TxnCap
<1>1. t \in 0..n-1 /\ hd \in 0..n-1
  BY Ages DEF TxnIndex
<1>2. i = IF hd = 0 THEN n - 1 ELSE hd - 1
  <2> DEFINE x == hd + n - 1
  <2>1. /\ x \in Int /\ (hd = 0 => x \in 0..n-1 /\ x = n - 1)
        /\ (hd # 0 => x \in n..2*n-1 /\ x - n = hd - 1)
    BY <1>1, Caps
  <2>2. i = x % n
    BY DEF txnRingPrev
  <2> HIDE DEF x, hd, n
  <2>3. n \in Nat \ {0}
    BY Caps DEF n
  <2> QED
    BY <2>1, <2>2, <2>3, Around
<1>3. i \in 0..n-1 /\ (i + 1) % n = hd
  <2>1. i \in 0..n-1 /\ i + 1 = IF hd = 0 THEN n ELSE hd
    BY <1>1, <1>2, Caps
  <2>2. n % n = 0
    <3>1. n \in n..2*n-1 /\ n \in Int /\ n - n = 0
      BY Caps
    <3> HIDE DEF n
    <3> QED
      BY <3>1, Caps, Around DEF n
  <2>3. hd % n = hd
    <3>1. hd \in 0..n-1 /\ hd \in Int /\ n \in Nat \ {0}
      BY <1>1, Caps
    <3> HIDE DEF hd, n
    <3> QED
      BY <3>1, Around
  <2> QED
    BY <2>1, <2>2, <2>3
<1>4. Age(n, t, hd) = Age(n, t, i) + 1
  <2>1. /\ (i + 1) % n # t => Age(n, t, (i + 1) % n) = Age(n, t, i) + 1
    BY <1>1, <1>3, Caps, AgeNext
  <2> QED
    BY <1>3, <2>1
<1>5. i \in TxnIndex /\ HeadAge(h) = TxnAge(h, i) + 1
  BY <1>3, <1>4 DEF TxnIndex, HeadAge, TxnAge, Age
<1>6. TxnAge(h, i) \in Nat
  BY <1>5, Ages
<1>7. TxnAge(h, i) < HeadAge(h)
  BY <1>5, <1>6
<1> QED
  BY <1>5, <1>6, <1>7, Ages

(* The operation of the newest transaction is the only one that changes.   *)
LEMMA RetargetOps ==
  ASSUME NEW h, LogInv(h), NEW c, SlideGoesOn(h, c), NEW v, NEW cs,
         NEW e, e = Retarget(h, v, cs),
         NEW i, i = txnRingPrev(h.txnHead), NEW f, f = h.txns[i].firstOp
  PROVE  /\ i \in InRing(h) /\ i \in TxnIndex /\ f \in OpIndex
         /\ TxnAge(h, i) + 1 = HeadAge(h)
         /\ OpAt(h, f, 0) = h.ops[f].op
         /\ OpAt(e, f, 0) = SlidEntry(h, f, v).op
         /\ \A j \in InRing(h) : j # i =>
              \A k \in 0..h.txns[j].opCount - 1 :
                OpAt(e, h.txns[j].firstOp, k) = OpAt(h, h.txns[j].firstOp, k)
<1>1. h.txnHead # h.txnTail /\ h.txns[i].opCount = 1
  BY DEF SlideGoesOn
<1>2. i \in InRing(h) /\ i \in TxnIndex /\ TxnAge(h, i) + 1 = HeadAge(h)
  BY <1>1, PrevAge
<1>3. /\ f \in OpIndex
      /\ \A j \in OpIndex : e.ops[j] =
           IF j = f THEN SlidEntry(h, f, v) ELSE h.ops[j]
  BY RetargetSets
<1>4. (f + 0) % OpCap = f
  <2>1. f \in 0..OpCap-1 /\ f \in Int /\ OpCap \in Nat \ {0} /\ f + 0 = f
    BY <1>3, Caps DEF OpIndex
  <2>2. f % OpCap = f
    BY <2>1, Around
  <2> QED
    BY <2>1, <2>2
<1>5. OpAt(h, f, 0) = h.ops[f].op
  BY <1>4 DEF OpAt
<1>6. OpAt(e, f, 0) = SlidEntry(h, f, v).op
  <2>1. e.ops[f] = SlidEntry(h, f, v)
    BY <1>3
  <2> QED
    BY <1>4, <2>1 DEF OpAt
<1>7. ASSUME NEW j \in InRing(h), j # i, NEW k \in 0..h.txns[j].opCount - 1
      PROVE  OpAt(e, h.txns[j].firstOp, k) = OpAt(h, h.txns[j].firstOp, k)
  <2> DEFINE p == (h.txns[j].firstOp + k) % OpCap
  <2>1. p \in OpIndex
    <3>1. h.txns[j].firstOp \in OpIndex /\ k \in Nat
      BY TxnIn, Ages DEF LogInv
    <3> QED
      BY <3>1, OpPlus
  <2>2. h.ops[p].txn = j
    BY DEF LogInv, Kept
  <2>3. h.ops[f].txn = i
    <3>1. \A q \in 0..h.txns[i].opCount - 1 :
            h.ops[(h.txns[i].firstOp + q) % OpCap].txn = i
      BY <1>2 DEF LogInv, Kept
    <3>2. 0 \in 0..h.txns[i].opCount - 1
      BY <1>1
    <3> QED
      BY <1>4, <3>1, <3>2
  <2> HIDE DEF p
  <2>4. p # f
    BY <1>7, <2>2, <2>3
  <2>5. e.ops[p] = h.ops[p]
    BY <1>3, <2>1, <2>4
  <2> QED
    BY <2>5 DEF p, OpAt
<1> QED
  BY <1>2, <1>3, <1>5, <1>6, <1>7

(* What one operation does.                                                *)
LEMMA DoesOne ==
  ASSUME NEW h, NEW j, NEW b, NEW c
  PROVE  /\ Does(h, j, 1, b, c) => /\ b \in Board /\ c \in Board
                                   /\ Turns(OpAt(h, j, 0), b, c)
         /\ b \in Board /\ c \in Board /\ Turns(OpAt(h, j, 0), b, c)
              => Does(h, j, 1, b, c)
<1>1. ASSUME Does(h, j, 1, b, c)
      PROVE  b \in Board /\ c \in Board /\ Turns(OpAt(h, j, 0), b, c)
  <2>1. PICK u : Way(h, j, 1, b, c, u)
    BY <1>1 DEF Does
  <2>2. 0 \in 0..1 /\ 1 \in 0..1 /\ 0 \in 0..1-1 /\ 0 + 1 = 1
    OBVIOUS
  <2>3. Turns(OpAt(h, j, 0), u[0], u[0 + 1])
    BY <2>1, <2>2 DEF Way
  <2>4. u[0] = b /\ u[1] = c /\ u[0] \in Board /\ u[1] \in Board
    BY <2>1, <2>2 DEF Way
  <2> QED
    BY <2>2, <2>3, <2>4
<1>2. ASSUME b \in Board, c \in Board, Turns(OpAt(h, j, 0), b, c)
      PROVE  Does(h, j, 1, b, c)
  <2>1. Does(h, j, 0, b, b)
    BY <1>2, DoesNone
  <2>2. Does(h, j, 0 + 1, b, c)
    BY <1>2, <2>1, DoesMore
  <2> QED
    BY <2>2
<1> QED
  BY <1>1, <1>2

(* A change of voltage, with another voltage.                              *)
LEMMA SlidTurns ==
  ASSUME NEW op, op.kind = "dac", NEW b \in Board, NEW d, Turns(op, b, d),
         op \in Operation, NEW v \in Volts
  PROVE  Turns([op EXCEPT !.next = v], b, [d EXCEPT !.volts[op.channel] = v])
<1> DEFINE o == [op EXCEPT !.next = v]
           c == op.channel
           x == [d EXCEPT !.volts[c] = v]
<1>1. o.kind = "dac" /\ o.channel = c /\ o.prev = op.prev /\ o.next = v
  BY NextIs
<1>2. op.prev = b.volts[c] /\ d = [b EXCEPT !.volts[c] = op.next]
  BY DEF Turns, applyOp
<1>3. x = [b EXCEPT !.volts[c] = v]
  BY <1>2 DEF Board
<1> HIDE DEF x
<1>4. x = applyOp(o, b)
  <2> HIDE DEF o
  <2> QED
    BY <1>1, <1>3 DEF applyOp
<1>5. Turns(o, b, x)
  <2> HIDE DEF o
  <2> QED
    BY <1>1, <1>2, <1>4 DEF Turns
<1> QED
  BY <1>5 DEF x

(* A slide moves the end of the last transaction and the board with it.    *)
LEMMA RetargetPast ==
  ASSUME NEW h, LogInv(h), IsTyped(h), NEW c, SlideGoesOn(h, c),
         NEW v \in Volts, NEW bs, IsBoards(bs), NEW cs, IsBoards(cs),
         NEW e, e = Retarget(h, v, cs),
         NEW s \in Slots, HasPast(h, s, bs[s]),
         s = h.active => cs[s] = [bs[s] EXCEPT !.volts[c] = v],
         s # h.active => cs[s] = bs[s]
  PROVE  HasPast(e, s, cs[s])
<1>0. PICK i : i = txnRingPrev(h.txnHead)
  OBVIOUS
<1>1. PICK f : f = h.txns[i].firstOp
  OBVIOUS
<1>2. /\ i \in InRing(h) /\ i \in TxnIndex /\ f \in OpIndex
      /\ TxnAge(h, i) + 1 = HeadAge(h)
      /\ OpAt(h, f, 0) = h.ops[f].op
      /\ OpAt(e, f, 0) = SlidEntry(h, f, v).op
      /\ \A j \in InRing(h) : j # i =>
           \A k \in 0..h.txns[j].opCount - 1 :
             OpAt(e, h.txns[j].firstOp, k) = OpAt(h, h.txns[j].firstOp, k)
  BY <1>0, <1>1, RetargetOps
<1>3. /\ e.txnHead = h.txnHead /\ e.txnTail = h.txnTail
      /\ e.slotCursor = h.slotCursor /\ e.open = h.open
      /\ \A j \in TxnIndex : e.txns[j] =
           IF j = i THEN SlidTxn(h, i, cs[h.active]) ELSE h.txns[j]
  BY <1>0, <1>1, RetargetSets
<1>4. /\ h.open = None /\ h.txns[i].opCount = 1
      /\ h.txns[i].state = "committed" /\ h.txns[i].slot = h.active
      /\ h.slotCursor[h.active] = h.txnHead
      /\ h.ops[f].op.kind = "dac" /\ h.ops[f].op.channel = c
  BY <1>0, <1>1 DEF SlideGoesOn
<1>5. h.open # s /\ e.open # s
  BY <1>3, <1>4, UndoRingAssumption
<1>6. PICK w : IsPast(h, s, w) /\ AtCursor(h, s, w, bs[s])
  BY <1>5 DEF HasPast, Leads
<1>7. \A x : TxnAge(e, x) = TxnAge(h, x)
  BY <1>3 DEF TxnAge
<1>8. /\ InRing(e) = InRing(h) /\ HeadAge(e) = HeadAge(h)
      /\ CursorAge(e, s) = CursorAge(h, s)
  BY <1>3, <1>7 DEF InRing, HeadAge, CursorAge
<1>9. /\ e.txns[i].firstOp = f /\ e.txns[i].opCount = 1
      /\ e.txns[i].slot = h.active /\ e.txns[i].state = "committed"
      /\ e.txns[i].change.before = h.txns[i].change.before
      /\ e.txns[i].change.after = cs[h.active]
  <2>1. e.txns[i] = SlidTxn(h, i, cs[h.active])
    BY <1>2, <1>3
  <2>2. h.txns[i].change \in Change
    BY <1>2 DEF IsTyped
  <2> QED
    BY <1>1, <1>4, <2>1, <2>2 DEF SlidTxn, Change
<1>10. /\ Own(e, i, s) <=> s = h.active
       /\ Own(h, i, s) <=> s = h.active
  BY <1>4, <1>9 DEF Own, txnBelongsToSlot
<1>11. ASSUME NEW j \in InRing(h), j # i, NEW u,
              u[TxnAge(h, j)] = w[TxnAge(h, j)],
              u[TxnAge(h, j) + 1] = w[TxnAge(h, j) + 1]
       PROVE  Passes(e, s, u, j)
  <2>1. e.txns[j] = h.txns[j]
    BY <1>3, <1>11, Ages
  <2>2. Passes(h, s, w, j)
    BY <1>6 DEF IsPast
  <2>3. \A x, y : Does(h, h.txns[j].firstOp, h.txns[j].opCount, x, y)
                    => Does(e, h.txns[j].firstOp, h.txns[j].opCount, x, y)
    BY <1>2, <1>11, DoesSame
  <2> QED
    BY <1>7, <1>11, <2>1, <2>2, <2>3 DEF Passes, Own
<1>12. CASE s # h.active
  <2>1. Passes(e, s, w, i)
    <3>1. Passes(h, s, w, i)
      BY <1>2, <1>6 DEF IsPast
    <3> QED
      BY <1>7, <1>10, <1>12, <3>1 DEF Passes
  <2>2. IsPast(e, s, w)
    BY <1>6, <1>8, <1>11, <2>1 DEF IsPast
  <2>3. AtCursor(e, s, w, cs[s])
    BY <1>6, <1>8, <1>12 DEF AtCursor
  <2> QED
    BY <1>5, <2>2, <2>3 DEF HasPast, Leads
<1>13. CASE s = h.active
  <2> DEFINE HA == HeadAge(h)
             u == [a \in 0..HA |-> IF a = HA THEN cs[s] ELSE w[a]]
  <2>1. /\ HA \in Nat /\ w \in [0..HA -> Board] /\ cs[s] \in Board
        /\ \A j \in InRing(h) : TxnAge(h, j) \in Nat /\ j \in TxnIndex
        /\ \A j \in InRing(h) : TxnAge(h, j) < HA
    BY <1>6, Ages DEF IsPast, IsBoards
  <2> HIDE DEF HA
  <2>2. /\ u \in [0..HA -> Board] /\ u[HA] = cs[s]
        /\ \A a \in 0..HA : a # HA => u[a] = w[a]
    BY <2>1
  <2> HIDE DEF u
  <2>3. w[HA] = bs[s] /\ CursorAge(h, s) = HA
    BY <1>4, <1>6, <1>13 DEF AtCursor, CursorAge, HeadAge, HA
  <2>4. Passes(e, s, u, i)
    <3> DEFINE a == TxnAge(h, i)
               op == h.ops[f].op
               t == h.txns[i]
    <3>1. a \in 0..HA /\ a # HA /\ a + 1 = HA
      BY <1>2, <2>1 DEF HA
    <3>2. u[a] = w[a] /\ u[a + 1] = cs[s]
      BY <2>2, <3>1
    <3>3. /\ w[a] = t.change.before
          /\ Does(h, f, 1, w[a], w[a + 1])
      <4>1. Passes(h, s, w, i)
        BY <1>2, <1>6 DEF IsPast
      <4> QED
        BY <1>1, <1>4, <1>10, <1>13, <4>1 DEF Passes
    <3>4. /\ w[a] \in Board /\ Turns(op, w[a], bs[s])
      BY <1>2, <2>3, <3>1, <3>3, DoesOne
    <3>5. op \in Operation
      BY <1>2 DEF IsTyped
    <3>6. Turns([op EXCEPT !.next = v], w[a], cs[s])
      <4>1. cs[s] = [bs[s] EXCEPT !.volts[op.channel] = v]
        BY <1>4, <1>13
      <4> HIDE DEF op, a
      <4>2. op.kind = "dac"
        BY <1>4 DEF op
      <4>3. Turns([op EXCEPT !.next = v], w[a],
                  [bs[s] EXCEPT !.volts[op.channel] = v])
        BY <3>4, <3>5, <4>2, SlidTurns
      <4> QED
        BY <4>1, <4>3
    <3>7. Does(e, f, 1, w[a], cs[s])
      <4>1. SlidEntry(h, f, v).op = [op EXCEPT !.next = v]
        BY DEF SlidEntry
      <4>2. Turns(OpAt(e, f, 0), w[a], cs[s])
        BY <1>2, <3>6, <4>1
      <4> QED
        BY <2>1, <3>4, <4>2, DoesOne
    <3> QED
      BY <1>7, <1>9, <1>10, <1>13, <3>2, <3>3, <3>7 DEF Passes
  <2>5. ASSUME NEW j \in InRing(h), j # i PROVE Passes(e, s, u, j)
    <3> DEFINE a == TxnAge(h, j)
    <3>1. a # TxnAge(h, i)
      <4>1. h.txnTail \in TxnIndex
        BY Ages
      <4> QED
        BY <1>2, <2>1, <2>5, <4>1, Caps, AgeApart DEF TxnIndex, TxnAge, Age
    <3>2. a \in 0..HA /\ a + 1 \in 0..HA /\ a # HA /\ a + 1 # HA
      <4>1. a \in Nat /\ a < HA /\ TxnAge(h, i) \in Nat /\ TxnAge(h, i) + 1 = HA
        BY <1>2, <2>1 DEF HA
      <4> HIDE DEF a
      <4> QED
        BY <2>1, <3>1, <4>1
    <3>3. u[a] = w[a] /\ u[a + 1] = w[a + 1]
      <4> HIDE DEF a
      <4> QED
        BY <2>2, <3>2
    <3> QED
      BY <1>11, <2>5, <3>3
  <2>6. IsPast(e, s, u)
    BY <1>8, <2>2, <2>4, <2>5 DEF IsPast, HA
  <2>7. AtCursor(e, s, u, cs[s])
    BY <1>8, <2>2, <2>3 DEF AtCursor
  <2> QED
    BY <1>5, <2>6, <2>7 DEF HasPast, Leads
<1> QED
  BY <1>12, <1>13

-----------------------------------------------------------------------------
(* Undoing and redoing along a past                                        *)

(* Each place of the arena has at most one capture.                        *)
ArenaApart == \A x, y \in arena.blobs : x.at = y.at => x = y

(* Reverting an operation brings back the board that it changed.           *)
LEMMA RevertTurns ==
  ASSUME ArenaType, ArenaApart, NEW op \in Operation, ~Unrestorable(op),
         NEW b \in Board, NEW c, Turns(op, b, c)
  PROVE  revertOp(op, c) = b
<1>1. b = [bridges |-> b.bridges, volts |-> b.volts]
      /\ b.volts \in [Channels -> Volts]
  BY DEF Board
<1>2. CASE op.kind = "connect"
  <2>1. op.bridge \notin b.bridges
    BY <1>2 DEF Turns
  <2>2. c = [b EXCEPT !.bridges = @ \union {op.bridge}]
    BY <1>2 DEF Turns, applyOp
  <2>3. c = [bridges |-> b.bridges \union {op.bridge}, volts |-> b.volts]
    BY <1>1, <2>2
  <2>4. revertOp(op, c) = [c EXCEPT !.bridges = @ \ {op.bridge}]
    BY <1>2 DEF revertOp
  <2>5. (b.bridges \union {op.bridge}) \ {op.bridge} = b.bridges
    BY <2>1
  <2>6. revertOp(op, c) = [bridges |-> b.bridges, volts |-> b.volts]
    BY <2>3, <2>4, <2>5
  <2> QED
    BY <1>1, <2>6
<1>3. CASE op.kind = "disconnect"
  <2>1. op.bridge \in b.bridges
    BY <1>3 DEF Turns
  <2>2. c = [b EXCEPT !.bridges = @ \ {op.bridge}]
    BY <1>3 DEF Turns, applyOp
  <2>3. c = [bridges |-> b.bridges \ {op.bridge}, volts |-> b.volts]
    BY <1>1, <2>2
  <2>4. revertOp(op, c) = [c EXCEPT !.bridges = @ \union {op.bridge}]
    BY <1>3 DEF revertOp
  <2>5. (b.bridges \ {op.bridge}) \union {op.bridge} = b.bridges
    BY <2>1
  <2>6. revertOp(op, c) = [bridges |-> b.bridges, volts |-> b.volts]
    BY <2>3, <2>4, <2>5
  <2> QED
    BY <1>1, <2>6
<1>4. CASE op.kind = "dac"
  <2>1. op.prev = b.volts[op.channel]
    BY <1>4 DEF Turns
  <2>2. c = [b EXCEPT !.volts[op.channel] = op.next]
    BY <1>4 DEF Turns, applyOp
  <2>3. revertOp(op, c) = [c EXCEPT !.volts[op.channel] = op.prev]
    BY <1>4 DEF revertOp
  <2> DEFINE v == [b.volts EXCEPT ![op.channel] = op.next]
  <2>4. c = [bridges |-> b.bridges, volts |-> v]
    BY <1>1, <2>2
  <2>5. [v EXCEPT ![op.channel] = op.prev] = b.volts
    BY <1>1, <2>1
  <2> HIDE DEF v
  <2>6. revertOp(op, c)
          = [bridges |-> b.bridges, volts |-> [v EXCEPT ![op.channel] = op.prev]]
    BY <2>3, <2>4
  <2> QED
    BY <1>1, <2>5, <2>6
<1>5. CASE op.kind = "clear"
  <2> DEFINE x == [at |-> op.at, board |-> b]
  <2>1. op.captured = b
    BY <1>5 DEF Turns
  <2>2. x \in Captured(op.at)
    BY <1>5, <2>1 DEF Unrestorable, Captured
  <2>3. \A y \in Captured(op.at) : y = x
    BY <2>2 DEF Captured, ArenaApart
  <2> HIDE DEF x
  <2>4. (CHOOSE y \in Captured(op.at) : TRUE) = x
    BY <2>2, <2>3
  <2>5. revertOp(op, c) = blobRestoreState(op.at, c)
    BY <1>5 DEF revertOp
  <2>6. blobRestoreState(op.at, c) = x.board
    BY <2>2, <2>4 DEF blobRestoreState
  <2> QED
    BY <2>5, <2>6 DEF x
<1> QED
  BY <1>2, <1>3, <1>4, <1>5 DEF Turns

(* A transaction done again makes what it made.                            *)
LEMMA AppliesDoes ==
  ASSUME NEW h, NEW t, t.opCount \in Nat,
         \A k \in 0..t.opCount - 1 : OpOf(h, t, k) \in Operation,
         NEW b \in Board, NEW c, Does(h, t.firstOp, t.opCount, b, c)
  PROVE  Applied(h, t, b) = c
<1> DEFINE n == t.opCount
<1>1. PICK f \in [0..n -> Board] : Applies(f, h, t, b)
      /\ Applied(h, t, b) = f[n]
  BY AppliedIs
<1>2. PICK u : Way(h, t.firstOp, n, b, c, u)
  BY DEF Does
<1> DEFINE T == {k \in Nat : k <= n => f[k] = u[k]}
<1>3. \A k \in 0..n :
        f[k] = IF k = 0 THEN b ELSE applyOp(OpOf(h, t, k - 1), f[k - 1])
  BY <1>1 DEF Applies
<1>4. 0 \in T
  <2>1. f[0] = b /\ u[0] = b
    BY <1>2, <1>3 DEF Way
  <2> QED
    BY <2>1
<1>5. ASSUME NEW k \in Nat, k \in T PROVE k + 1 \in T
  <2> SUFFICES ASSUME k + 1 <= n PROVE f[k + 1] = u[k + 1]
    OBVIOUS
  <2>1. f[k] = u[k] /\ k \in 0..n-1 /\ k + 1 \in 0..n /\ (k + 1) - 1 = k
    BY <1>5
  <2>2. f[k + 1] = applyOp(OpOf(h, t, k), f[k])
    BY <1>3, <2>1
  <2>3. u[k + 1] = applyOp(OpAt(h, t.firstOp, k), u[k])
    BY <1>2, <2>1 DEF Way, Turns
  <2>4. OpOf(h, t, k) = OpAt(h, t.firstOp, k)
    BY DEF OpOf, OpAt
  <2> QED
    BY <2>1, <2>2, <2>3, <2>4
<1> HIDE DEF T
<1>6. n \in T
  BY <1>4, <1>5, AllNumbers
<1> QED
  BY <1>1, <1>2, <1>6 DEF T, Way

(* A transaction undone leaves what was before it, if it does not break.   *)
LEMMA RevertsDoes ==
  ASSUME ArenaType, ArenaApart, NEW h, NEW t, t.opCount \in Nat,
         \A k \in 0..t.opCount - 1 : OpOf(h, t, k) \in Operation,
         ~Breaks(h, t),
         NEW b, NEW c \in Board, Does(h, t.firstOp, t.opCount, b, c)
  PROVE  Reverted(h, t, c) = b
<1> DEFINE n == t.opCount
<1>1. PICK f \in [0..n -> Board] : Reverts(f, h, t, c)
      /\ Reverted(h, t, c) = f[n]
  BY RevertedIs
<1>2. PICK u : Way(h, t.firstOp, n, b, c, u)
  BY DEF Does
<1> DEFINE T == {k \in Nat : k <= n => f[k] = u[n - k]}
<1>3. \A k \in 0..n :
        f[k] = IF k = 0 THEN c ELSE revertOp(OpOf(h, t, n - k), f[k - 1])
  BY <1>1 DEF Reverts
<1>4. 0 \in T
  <2>1. f[0] = c /\ u[n] = c /\ n - 0 = n
    BY <1>2, <1>3 DEF Way
  <2> QED
    BY <2>1
<1>5. ASSUME NEW k \in Nat, k \in T PROVE k + 1 \in T
  <2> SUFFICES ASSUME k + 1 <= n PROVE f[k + 1] = u[n - (k + 1)]
    OBVIOUS
  <2> DEFINE j == n - (k + 1)
  <2>1. f[k] = u[n - k]
    BY <1>5
  <2>2. /\ j \in 0..n-1 /\ j \in 0..n /\ j + 1 = n - k
        /\ k + 1 \in 0..n /\ k + 1 # 0 /\ (k + 1) - 1 = k
    OBVIOUS
  <2>3. f[k + 1] = revertOp(OpOf(h, t, j), f[k])
    BY <1>3, <2>2
  <2> HIDE DEF j
  <2>4. u[j] \in Board /\ Turns(OpAt(h, t.firstOp, j), u[j], u[j + 1])
    BY <1>2, <2>2 DEF Way
  <2>5. OpOf(h, t, j) = OpAt(h, t.firstOp, j)
    BY DEF OpOf, OpAt
  <2>6. OpOf(h, t, j) \in Operation /\ ~Unrestorable(OpOf(h, t, j))
    BY <2>2 DEF Breaks
  <2>7. revertOp(OpOf(h, t, j), u[j + 1]) = u[j]
    BY <2>4, <2>5, <2>6, RevertTurns
  <2> QED
    BY <2>1, <2>2, <2>3, <2>7 DEF j
<1> HIDE DEF T
<1>6. n \in T
  BY <1>4, <1>5, AllNumbers
<1>7. n - n = 0 /\ n <= n
  OBVIOUS
<1> QED
  BY <1>1, <1>2, <1>6, <1>7 DEF T, Way

(* Between the transaction to be undone and the cursor nothing changes, ... *)
LEMMA PastPrev ==
  ASSUME NEW h, LogInv(h), NEW s \in Slots, Done(h, s) # {},
         NEW i, i = findPrevSlotTxn(h, s), NEW w, IsPast(h, s, w)
  PROVE  /\ i \in InRing(h) /\ Own(h, i, s)
         /\ w[TxnAge(h, i) + 1] = w[CursorAge(h, s)]
<1>1. i \in Done(h, s) /\ \A j \in Done(h, s) : TxnAge(h, j) <= TxnAge(h, i)
  BY PrevIs
<1>2. i \in InRing(h) /\ Own(h, i, s) /\ TxnAge(h, i) < CursorAge(h, s)
  BY <1>1 DEF Done, Reachable, Own, CursorAge
<1> DEFINE p == TxnAge(h, i) + 1
           q == CursorAge(h, s)
<1>3. p \in Nat /\ q \in Nat /\ p <= q /\ q <= HeadAge(h)
  BY <1>2, Ages
<1>4. ASSUME NEW j \in InRing(h), p <= TxnAge(h, j), TxnAge(h, j) < q
      PROVE  ~Own(h, j, s)
  <2>1. ~(TxnAge(h, j) <= TxnAge(h, i))
    <3>1. TxnAge(h, j) \in Nat /\ TxnAge(h, i) \in Nat
      BY <1>2, Ages
    <3> QED
      BY <1>4, <3>1
  <2>2. j \notin Done(h, s)
    BY <1>1, <2>1
  <2> QED
    BY <1>4, <2>2 DEF Done, Reachable, Own, CursorAge
<1> HIDE DEF p, q
<1>5. w[p] = w[q]
  BY <1>3, <1>4, Constant
<1> QED
  BY <1>2, <1>5 DEF p, q

(* ... nor between the cursor and the transaction to be done again.        *)
LEMMA PastNext ==
  ASSUME NEW h, LogInv(h), NEW s \in Slots, Undone(h, s) # {},
         NEW i, i = findNextSlotTxn(h, s), NEW w, IsPast(h, s, w)
  PROVE  /\ i \in InRing(h) /\ Own(h, i, s)
         /\ w[TxnAge(h, i)] = w[CursorAge(h, s)]
<1>1. i \in Undone(h, s) /\ \A j \in Undone(h, s) : TxnAge(h, i) <= TxnAge(h, j)
  BY NextTxnIs
<1>2. i \in InRing(h) /\ Own(h, i, s) /\ ~(TxnAge(h, i) < CursorAge(h, s))
  BY <1>1 DEF Undone, Done, Reachable, Own, CursorAge
<1> DEFINE p == CursorAge(h, s)
           q == TxnAge(h, i)
<1>3. p \in Nat /\ q \in Nat /\ p <= q /\ q <= HeadAge(h)
  BY <1>2, Ages
<1>4. ASSUME NEW j \in InRing(h), p <= TxnAge(h, j), TxnAge(h, j) < q
      PROVE  ~Own(h, j, s)
  <2>1. TxnAge(h, j) \in Nat /\ TxnAge(h, i) \in Nat
    BY <1>2, Ages
  <2>2. ~(TxnAge(h, i) <= TxnAge(h, j)) /\ ~(TxnAge(h, j) < p)
    BY <1>3, <1>4, <2>1
  <2>3. j \notin Undone(h, s)
    BY <1>1, <2>2
  <2> QED
    BY <2>2, <2>3 DEF Undone, Done, Reachable, Own, CursorAge
<1> HIDE DEF p, q
<1>5. w[p] = w[q]
  BY <1>3, <1>4, Constant
<1> QED
  BY <1>2, <1>5 DEF p, q

(* Misplaced leaves every past alone.                                      *)
LEMMA MisplacedPast ==
  ASSUME NEW h, IsLog(h), NEW s, NEW b, HasPast(h, s, b)
  PROVE  HasPast(Misplaced(h), s, b)
<1>1. PICK e : e = Misplaced(h)
  OBVIOUS
<1>2. HasPast(e, s, b)
  BY <1>1, MisplacedSets, HasPastSame
<1> QED
  BY <1>1, <1>2

(* The look before undo and redo keeps every past, ...                     *)
LEMMA LookedPast ==
  ASSUME LogInv(log), IsBoards(board), NEW stale \in BOOLEAN,
         NEW s \in Slots, HasPast(log, s, board[s])
  PROVE  HasPast(Looked(stale), s, board[s])
<1> DEFINE a == slotSwapIfNeeded(log, board)
           b == IF stale THEN undoEndTxn(a, board) ELSE a
<1>1. LogInv(a) /\ HasPast(a, s, board[s])
  BY SwapIfNeededInv, SwapIfNeededPast
<1>2. LogInv(b) /\ HasPast(b, s, board[s])
  <2> HIDE DEF a
  <2> QED
    BY <1>1, EndInv, EndPast
<1>3. Looked(stale) = clampSlotCursor(b)
  BY DEF Looked
<1> HIDE DEF b
<1>4. clampSlotCursor(b) = b
  BY <1>2, ClampSame
<1> QED
  BY <1>2, <1>3, <1>4

(* ... and comes to the slot in use, if that has a history.                *)
LEMMA LookedAt ==
  ASSUME LogInv(log), NEW stale \in BOOLEAN
  PROVE  /\ Looked(stale).torn = log.torn
         /\ netSlot \in Slots => Looked(stale).active = netSlot
<1> DEFINE a == slotSwapIfNeeded(log, board)
           b == IF stale THEN undoEndTxn(a, board) ELSE a
<1>1. /\ LogInv(a) /\ a.torn = log.torn
      /\ netSlot \in Slots => a.active = netSlot
  BY SwapIfNeededInv, CaughtUp
<1>2. LogInv(b) /\ b.torn = a.torn /\ b.active = a.active
  <2> HIDE DEF a
  <2> QED
    BY <1>1, EndInv, EndTorn
<1>3. Looked(stale) = clampSlotCursor(b)
  BY DEF Looked
<1> HIDE DEF a, b
<1>4. clampSlotCursor(b) = b
  BY <1>2, ClampSame
<1> QED
  BY <1>1, <1>2, <1>3, <1>4

-----------------------------------------------------------------------------
(* The steps keep the pasts.                                               *)

PastInv ==
  /\ TypeInv
  /\ ArenaApart
  /\ \A s \in Slots \ log.torn : HasPast(log, s, board[s])

(* What the inductive invariant says, part by part.                        *)
LEMMA PastParts ==
  ASSUME PastInv
  PROVE  /\ TypeInv /\ LogInv(log) /\ IsLog(log) /\ IsTyped(log)
         /\ ArenaType /\ ArenaApart
         /\ netSlot \in Slots \union Guests
         /\ board \in [Slots \union Guests -> Board] /\ IsBoards(board)
         /\ \A s \in Slots : s \notin Guests
         /\ \A s \in Slots : s \notin log.torn => HasPast(log, s, board[s])
  BY BoardsTyped, UndoRingAssumption
     DEF PastInv, TypeInv, RestTyped, LogInv

(* A change tears the history of the active slot if another one has it.    *)
LEMMA MisplacedTorn ==
  ASSUME NEW h, IsLog(h), NEW s, s \notin Misplaced(h).torn
  PROVE  /\ s \notin h.torn
         /\ s = h.active => netSlot \in Slots
  BY DEF Misplaced, IsLog

(* A recorded change takes every past that is not torn along.              *)
LEMMA RecordPast ==
  ASSUME PastInv, NEW op, NEW b \in Board, Record(op, b),
         Turns(op, board[netSlot], b),
         NEW s \in Slots, s \notin log'.torn
  PROVE  HasPast(log', s, board'[s])
<1> DEFINE a == slotSwapIfNeeded(log, board)
           e == recordOneAction(log, op, board, board')
<1>1. /\ log' = Misplaced(e) /\ board' = [board EXCEPT ![netSlot] = b]
      /\ a.open = None \/ BundleLength(a) < MaxBundle
  BY DEF Record, MayRecord
<1>2. /\ LogInv(log) /\ netSlot \in Slots \union Guests
      /\ board \in [Slots \union Guests -> Board] /\ IsBoards(board)
      /\ s \notin log.torn => HasPast(log, s, board[s])
  BY PastParts
<1>3. board' \in [Slots \union Guests -> Board] /\ IsBoards(board')
  <2>1. board' \in [Slots \union Guests -> Board]
    BY <1>1, <1>2
  <2> QED
    BY <2>1, BoardsTyped
<1>4. log.torn \subseteq e.torn /\ e.active = a.active /\ IsLog(e)
  <2>1. a = slotSwapIfNeeded(log, board)
        /\ e = recordOneAction(log, op, board, board')
    OBVIOUS
  <2> HIDE DEF a, e
  <2> QED
    BY <1>1, <1>2, <2>1, RecordOneTorn, RecordOneInv DEF LogInv
<1>5. s \notin e.torn /\ (s = a.active => netSlot \in Slots)
  <2> HIDE DEF a, e
  <2> QED
    BY <1>1, <1>4, MisplacedTorn
<1>6. netSlot \in Slots => a.active = netSlot
  BY <1>2, CaughtUp
<1>7. s = a.active => board'[s] = b /\ s = netSlot
  BY <1>1, <1>2, <1>5, <1>6
<1>8. s # a.active => board'[s] = board[s]
  BY <1>1, <1>2, <1>6
<1>9. HasPast(e, s, board'[s])
  <2>1. a = slotSwapIfNeeded(log, board)
        /\ e = recordOneAction(log, op, board, board')
    OBVIOUS
  <2> DEFINE cs == board'
  <2>2. /\ IsBoards(cs) /\ e = recordOneAction(log, op, board, cs)
        /\ s = a.active => Turns(op, board[s], cs[s])
        /\ s # a.active => cs[s] = board[s]
    BY <1>3, <1>7, <1>8, <2>1
  <2>3. HasPast(log, s, board[s])
    BY <1>2, <1>4, <1>5
  <2> HIDE DEF a, e, cs
  <2>4. HasPast(e, s, cs[s])
    BY <1>1, <1>2, <1>5, <2>1, <2>2, <2>3, RecordOnePast
  <2> QED
    BY <2>4 DEF cs
<1> HIDE DEF e
<1> QED
  BY <1>1, <1>4, <1>9, MisplacedPast

(* So does a slide of a voltage.                                           *)
LEMMA SlidePast ==
  ASSUME PastInv, NEW c \in Channels, NEW v \in Volts,
         NEW a, a = slotSwapIfNeeded(log, board), SlideGoesOn(a, c),
         board' = [board EXCEPT ![netSlot].volts[c] = v],
         log' = Misplaced(Retarget(a, v, board')),
         NEW s \in Slots, s \notin log'.torn
  PROVE  HasPast(log', s, board'[s])
<1> DEFINE r == Retarget(a, v, board')
           b == board[netSlot]
           x == [b EXCEPT !.volts[c] = v]
<1>1. /\ LogInv(log) /\ IsTyped(log) /\ netSlot \in Slots \union Guests
      /\ board \in [Slots \union Guests -> Board] /\ IsBoards(board)
      /\ s \notin log.torn => HasPast(log, s, board[s])
  BY PastParts
<1>2. x \in Board
  BY <1>1, BoardWith
<1>3. board' = [board EXCEPT ![netSlot] = x]
  OBVIOUS
<1>4. board' \in [Slots \union Guests -> Board] /\ IsBoards(board')
  <2> HIDE DEF x
  <2>1. board' \in [Slots \union Guests -> Board]
    BY <1>1, <1>2, <1>3
  <2> QED
    BY <2>1, BoardsTyped
<1>5. /\ LogInv(a) /\ IsTyped(a) /\ a.torn = log.torn
      /\ netSlot \in Slots => a.active = netSlot
  BY <1>1, SwapIfNeededInv, TypedSwapIfNeeded, CaughtUp
<1>6. LogInv(r) /\ r.torn = a.torn /\ r.active = a.active
  <2>1. PICK i : i = txnRingPrev(a.txnHead)
    OBVIOUS
  <2>2. PICK f : f = a.txns[i].firstOp
    OBVIOUS
  <2>3. r = Retarget(a, v, board')
    OBVIOUS
  <2> HIDE DEF r
  <2> QED
    BY <1>5, <2>1, <2>2, <2>3, RetargetSets, RetargetInv
<1>7. s \notin r.torn /\ (s = a.active => netSlot \in Slots)
  <2>1. log' = Misplaced(r) /\ IsLog(r)
    BY <1>6 DEF LogInv
  <2> HIDE DEF r
  <2> QED
    BY <1>6, <2>1, MisplacedTorn
<1>8. s = a.active => board'[s] = [board[s] EXCEPT !.volts[c] = v]
  BY <1>1, <1>3, <1>5, <1>7
<1>9. s # a.active => board'[s] = board[s]
  BY <1>1, <1>3, <1>5
<1>10. HasPast(r, s, board'[s])
  <2>1. HasPast(a, s, board[s])
    BY <1>1, <1>5, <1>6, <1>7, SwapIfNeededPast
  <2>2. PICK bs : bs = board
    OBVIOUS
  <2>3. PICK cs : cs = board'
    OBVIOUS
  <2>4. IsBoards(bs) /\ IsBoards(cs) /\ HasPast(a, s, bs[s])
    BY <1>1, <1>4, <2>1, <2>2, <2>3
  <2>5. r = Retarget(a, v, cs)
    BY <2>3
  <2>6. s = a.active => cs[s] = [bs[s] EXCEPT !.volts[c] = v]
    BY <1>8, <2>2, <2>3
  <2>7. s # a.active => cs[s] = bs[s]
    BY <1>9, <2>2, <2>3
  <2> HIDE DEF r, x, b
  <2>8. HasPast(r, s, cs[s])
    BY ONLY <1>5, <2>4, <2>5, <2>6, <2>7, RetargetPast,
       SlideGoesOn(a, c), v \in Volts, s \in Slots
  <2> QED
    BY <2>3, <2>8
<1>11. log' = Misplaced(r) /\ IsLog(r)
  BY <1>6 DEF LogInv
<1> HIDE DEF r
<1> QED
  BY <1>10, <1>11, MisplacedPast

(* So does every edit.                                                     *)
LEMMA EditPast ==
  ASSUME PastInv, Edit, NEW s \in Slots, s \notin log'.torn
  PROVE  HasPast(log', s, board'[s])
<1> DEFINE b == board[netSlot]
<1>0. b \in Board
  BY PastParts
<1>1. ASSUME NEW bridge \in Bridges, addConnection(bridge)
      PROVE  HasPast(log', s, board'[s])
  <2> DEFINE op == [kind |-> "connect", bridge |-> bridge]
             c == applyOp(op, b)
  <2>1. op \in Operation
    BY DEF Operation
  <2>2. Record(op, c) /\ op.kind = "connect" /\ op.bridge \notin b.bridges
    BY <1>1 DEF addConnection
  <2> HIDE DEF op
  <2>3. Turns(op, b, c) /\ c \in Board
    BY <1>0, <2>1, <2>2, ApplyType DEF Turns
  <2> HIDE DEF c
  <2> QED
    BY <2>2, <2>3, RecordPast
<1>2. ASSUME NEW bridge \in Bridges, removeConnection(bridge)
      PROVE  HasPast(log', s, board'[s])
  <2> DEFINE op == [kind |-> "disconnect", bridge |-> bridge]
             c == applyOp(op, b)
  <2>1. op \in Operation
    BY DEF Operation
  <2>2. Record(op, c) /\ op.kind = "disconnect" /\ op.bridge \in b.bridges
    BY <1>2 DEF removeConnection
  <2> HIDE DEF op
  <2>3. Turns(op, b, c) /\ c \in Board
    BY <1>0, <2>1, <2>2, ApplyType DEF Turns
  <2> HIDE DEF c
  <2> QED
    BY <2>2, <2>3, RecordPast
<1>3. ASSUME clearAllConnections PROVE HasPast(log', s, board'[s])
  <2> DEFINE op == [kind |-> "clear", at |-> blobAt(b), captured |-> b]
             c == applyOp(op, b)
  <2>1. op \in Operation
    BY <1>0, PastParts, CaptureType DEF Operation
  <2>2. Record(op, c) /\ op.kind = "clear" /\ op.captured = b
    BY <1>3 DEF clearAllConnections
  <2> HIDE DEF op
  <2>3. Turns(op, b, c) /\ c \in Board
    BY <1>0, <2>1, <2>2, ApplyType DEF Turns
  <2> HIDE DEF c
  <2> QED
    BY <2>2, <2>3, RecordPast
<1>4. ASSUME NEW c \in Channels, NEW v \in Volts, NEW soon \in BOOLEAN,
             setVoltage(c, v, soon)
      PROVE  HasPast(log', s, board'[s])
  <2> DEFINE a == slotSwapIfNeeded(log, board)
             op == [kind |-> "dac", channel |-> c, prev |-> b.volts[c],
                    next |-> v]
             d == applyOp(op, b)
  <2>1. op \in Operation
    BY <1>0, BoardWith DEF Operation
  <2>2. op.kind = "dac" /\ op.prev = b.volts[op.channel]
    OBVIOUS
  <2>3. CASE soon /\ SlideGoesOn(a, c)
    <3>1. /\ a = slotSwapIfNeeded(log, board)
          /\ board' = [board EXCEPT ![netSlot].volts[c] = v]
          /\ log' = Misplaced(Retarget(a, v, board'))
      BY <1>4, <2>3 DEF setVoltage
    <3> HIDE DEF a
    <3> QED
      BY <2>3, <3>1, SlidePast
  <2>4. CASE ~(soon /\ SlideGoesOn(a, c))
    <3>1. Record(op, d)
      BY <1>4, <2>4 DEF setVoltage
    <3> HIDE DEF op
    <3>2. Turns(op, b, d) /\ d \in Board
      BY <1>0, <2>1, <2>2, ApplyType DEF Turns
    <3> HIDE DEF d
    <3> QED
      BY <3>1, <3>2, RecordPast
  <2> QED
    BY <2>3, <2>4
<1> QED
  BY <1>1, <1>2, <1>3, <1>4 DEF Edit

(* An edit captures at most one board, apart from the others.              *)
LEMMA ArenaEdit ==
  ASSUME PastInv, Edit
  PROVE  ArenaApart'
<1>1. arena' = arena \/ arena' = blobAppendCurrentState(board[netSlot])
  BY DEF Edit, addConnection, removeConnection, clearAllConnections, setVoltage
<1>2. CASE arena' = arena
  BY <1>2 DEF PastInv, ArenaApart
<1>3. CASE arena' = blobAppendCurrentState(board[netSlot])
  <2>1. board[netSlot] \in Board /\ ArenaType /\ ArenaApart
    BY PastParts
  <2>2. \A x, y \in blobAppendCurrentState(board[netSlot]).blobs :
          x.at = y.at => x = y
    BY <2>1, CaptureType DEF ArenaApart
  <2> QED
    BY <1>3, <2>2 DEF ArenaApart
<1> QED
  BY <1>1, <1>2, <1>3

(* A cursor moves along its own slot's past, and no other.                 *)
LEMMA CursorPast ==
  ASSUME NEW h, LogInv(h), NEW r \in Slots, NEW x \in TxnIndex, NEW y,
         NEW e, e = WithCursor(h, r, x, y),
         NEW s \in Slots, NEW b
  PROVE  /\ s # r /\ HasPast(h, s, b) => HasPast(e, s, b)
         /\ \A w : /\ s = r /\ h.open # s /\ IsPast(h, s, w)
                   /\ w[TxnAge(h, x)] = b
                   => HasPast(e, s, b)
<1>1. /\ e.ops = h.ops /\ e.opHead = h.opHead
      /\ e.txns = h.txns /\ e.txnHead = h.txnHead /\ e.txnTail = h.txnTail
      /\ e.open = h.open /\ e.opStart = h.opStart /\ e.opened = h.opened
      /\ \A q \in Slots :
           e.slotCursor[q] = IF q = r THEN x ELSE h.slotCursor[q]
  BY CursorSets DEF LogInv
<1>2. ASSUME s # r, HasPast(h, s, b) PROVE HasPast(e, s, b)
  BY <1>1, <1>2, HasPastSame
<1>3. ASSUME NEW w, s = r, h.open # s, IsPast(h, s, w), w[TxnAge(h, x)] = b
      PROVE  HasPast(e, s, b)
  <2>1. IsPast(e, s, w)
    BY <1>1, <1>3, PastSame
  <2>2. CursorAge(e, s) = TxnAge(h, x)
    BY <1>1, <1>3 DEF CursorAge, TxnAge
  <2>3. AtCursor(e, s, w, b)
    BY <1>3, <2>2 DEF AtCursor
  <2> QED
    BY <1>1, <1>3, <2>1, <2>3 DEF HasPast, Leads
<1> QED
  BY <1>2, <1>3

(* An undo takes every past that is not torn along.                        *)
LEMMA UndoPast ==
  ASSUME PastInv, NEW stale \in BOOLEAN, undoUndo(stale),
         NEW s \in Slots, s \notin log'.torn
  PROVE  HasPast(log', s, board'[s])
<1>0. PICK e : e = undoEndTxn(Looked(stale), board)
  OBVIOUS
<1>1. PICK i : i = findPrevSlotTxn(e, e.active)
  OBVIOUS
<1> DEFINE t == e.txns[i]
           y == IF Breaks(e, t) THEN e.torn \union {e.active} ELSE e.torn
           m == WithCursor(e, e.active, i, y)
<1>2. /\ TypeInv /\ LogInv(log) /\ ArenaType /\ ArenaApart
      /\ netSlot \in Slots \union Guests
      /\ board \in [Slots \union Guests -> Board] /\ IsBoards(board)
      /\ s \notin log.torn => HasPast(log, s, board[s])
  BY PastParts
<1>3. /\ LogInv(Looked(stale)) /\ LogInv(e) /\ IsTyped(e) /\ e.active \in Slots
      /\ Done(e, e.active) # {} /\ i \in TxnIndex
      /\ board' = [board EXCEPT ![netSlot] = Reverted(e, t, @)]
      /\ log' = Misplaced(m)
  BY <1>0, <1>1, <1>2, UndoIs
<1>4. /\ e.open = None /\ e.torn = log.torn
      /\ netSlot \in Slots => e.active = netSlot
  <2>1. PICK a : a = Looked(stale)
    OBVIOUS
  <2>2. a.torn = log.torn /\ (netSlot \in Slots => a.active = netSlot)
        /\ LogInv(a)
    BY <1>2, <1>3, <2>1, LookedAt
  <2>3. e = undoEndTxn(a, board)
    BY <1>0, <2>1
  <2> QED
    BY <2>2, <2>3, EndInv, EndTorn
<1> HIDE DEF y
<1>5. IsLog(m) /\ m.torn = y /\ m.active = e.active
  <2>1. IsLog(e)
    BY <1>3 DEF LogInv
  <2>2. m.torn = y /\ m.active = e.active
    BY <1>3, <2>1, CursorSets
  <2>3. IsLog(m)
    <3>1. Age(TxnCap, e.txnTail, i) <= Age(TxnCap, e.txnTail, e.txnHead)
      <4>1. i \in InRing(e)
        BY <1>1, <1>3, PrevIs DEF Done, Reachable
      <4>2. TxnAge(e, i) \in Nat /\ TxnAge(e, i) < HeadAge(e)
            /\ HeadAge(e) \in Nat
        BY <1>3, <4>1, Ages
      <4>3. TxnAge(e, i) <= HeadAge(e)
        BY <4>2
      <4> QED
        BY <4>3 DEF TxnAge, HeadAge, Age
    <3> QED
      BY <1>3, <3>1, CursorInv DEF LogInv
  <2> QED
    BY <2>2, <2>3
<1> HIDE DEF m
<1>6. s \notin y /\ (s = e.active => netSlot \in Slots)
  BY <1>3, <1>5, MisplacedTorn
<1>7. s \notin log.torn /\ (s = e.active => ~Breaks(e, t) /\ netSlot = s)
  BY <1>4, <1>6 DEF y
<1>8. HasPast(e, s, board[s])
  <2>1. HasPast(Looked(stale), s, board[s])
    BY <1>2, <1>7, LookedPast
  <2>2. PICK a : a = Looked(stale)
    OBVIOUS
  <2> QED
    BY <1>0, <1>2, <1>3, <2>1, <2>2, EndPast
<1>9. HasPast(m, s, board'[s])
  <2>1. CASE s # e.active
    <3>1. netSlot # s
      BY <1>4, <2>1
    <3>2. board'[s] = board[s]
      BY <1>2, <1>3, <3>1
    <3> QED
      BY <1>3, <1>8, <2>1, <3>2, CursorPast DEF m
  <2>2. CASE s = e.active
    <3>0. e.open # s
      BY <1>4, UndoRingAssumption
    <3>1. PICK w : IsPast(e, s, w) /\ AtCursor(e, s, w, board[s])
      BY <1>8, <3>0 DEF HasPast, Leads
    <3>2. /\ i \in InRing(e) /\ Own(e, i, s)
          /\ w[TxnAge(e, i) + 1] = board[s]
      BY <1>1, <1>3, <2>2, <3>1, PastPrev DEF AtCursor
    <3>3. Does(e, t.firstOp, t.opCount, w[TxnAge(e, i)], board[s])
      <4>1. Passes(e, s, w, i)
        BY <3>1, <3>2 DEF IsPast
      <4> QED
        BY <3>2, <4>1 DEF Passes
    <3>4. t.opCount \in Nat
          /\ \A k \in 0..t.opCount - 1 : OpOf(e, t, k) \in Operation
      BY <1>3, OpsOf DEF LogInv
    <3> DEFINE x == w[TxnAge(e, i)]
    <3>5. board[s] \in Board
      BY <1>2
    <3>6. Reverted(e, t, board[s]) = x
      <4> HIDE DEF t, x
      <4>1. Does(e, t.firstOp, t.opCount, x, board[s])
        BY <3>3 DEF x
      <4> QED
        BY <1>2, <1>7, <2>2, <3>4, <3>5, <4>1, RevertsDoes
    <3>7. board'[s] = x
      BY <1>2, <1>3, <1>7, <2>2, <3>6
    <3> QED
      BY <1>3, <2>2, <3>0, <3>1, <3>7, CursorPast DEF m
  <2> QED
    BY <2>1, <2>2
<1> QED
  BY <1>3, <1>5, <1>9, MisplacedPast

(* So does a redo.                                                         *)
LEMMA RedoPast ==
  ASSUME PastInv, NEW stale \in BOOLEAN, undoRedo(stale),
         NEW s \in Slots, s \notin log'.torn
  PROVE  HasPast(log', s, board'[s])
<1>0. PICK a : a = Looked(stale)
  OBVIOUS
<1>1. PICK i : i = findNextSlotTxn(a, a.active)
  OBVIOUS
<1>12. PICK n : n = txnRingNext(i)
  OBVIOUS
<1> DEFINE t == a.txns[i]
           m == WithCursor(a, a.active, n, a.torn)
<1>2. /\ TypeInv /\ LogInv(log)
      /\ netSlot \in Slots \union Guests
      /\ board \in [Slots \union Guests -> Board] /\ IsBoards(board)
      /\ s \notin log.torn => HasPast(log, s, board[s])
  BY PastParts
<1>3. /\ LogInv(a) /\ IsTyped(a) /\ a.active \in Slots
      /\ i \in Undone(a, a.active) /\ i \in TxnIndex
      /\ n \in TxnIndex /\ TxnAge(a, n) = TxnAge(a, i) + 1
      /\ board' = [board EXCEPT ![netSlot] = Applied(a, t, @)]
      /\ log' = Misplaced(m) /\ IsLog(m)
  BY <1>0, <1>1, <1>12, <1>2, RedoIs DEF LogInv
<1>4. /\ a.torn = log.torn
      /\ netSlot \in Slots => a.active = netSlot
  BY <1>0, <1>2, LookedAt
<1>5. m.torn = a.torn /\ m.active = a.active
  BY <1>3, CursorSets DEF LogInv
<1> HIDE DEF m
<1>6. s \notin a.torn /\ (s = a.active => netSlot \in Slots)
  BY <1>3, <1>5, MisplacedTorn
<1>7. HasPast(a, s, board[s])
  BY <1>0, <1>2, <1>4, <1>6, LookedPast
<1>8. HasPast(m, s, board'[s])
  <2>1. CASE s # a.active
    <3>1. netSlot # s
      BY <1>4, <2>1
    <3>2. board'[s] = board[s]
      BY <1>2, <1>3, <3>1
    <3> QED
      BY <1>3, <1>7, <2>1, <3>2, CursorPast DEF m
  <2>2. CASE s = a.active
    <3>0. a.open # s
      BY <1>3, <1>7, <2>2 DEF HasPast, Leads, AtHead
    <3>1. PICK w : IsPast(a, s, w) /\ AtCursor(a, s, w, board[s])
      BY <1>7, <3>0 DEF HasPast, Leads
    <3>2. /\ i \in InRing(a) /\ Own(a, i, s) /\ w[TxnAge(a, i)] = board[s]
      BY <1>1, <1>3, <2>2, <3>1, PastNext DEF AtCursor
    <3> DEFINE x == w[TxnAge(a, i) + 1]
    <3>3. Does(a, t.firstOp, t.opCount, board[s], x)
      <4>1. Passes(a, s, w, i)
        BY <3>1, <3>2 DEF IsPast
      <4> QED
        BY <3>2, <4>1 DEF Passes
    <3>4. t.opCount \in Nat
          /\ \A k \in 0..t.opCount - 1 : OpOf(a, t, k) \in Operation
      BY <1>3, OpsOf DEF LogInv
    <3>5. board[s] \in Board
      BY <1>2
    <3>6. Applied(a, t, board[s]) = x
      <4> HIDE DEF t, x
      <4> QED
        BY <3>3, <3>4, <3>5, AppliesDoes
    <3>7. board'[s] = x
      BY <1>2, <1>3, <1>4, <1>6, <2>2, <3>6
    <3>8. w[TxnAge(a, n)] = x
      BY <1>3
    <3> QED
      BY <1>3, <2>2, <3>0, <3>1, <3>7, <3>8, CursorPast DEF m
  <2> QED
    BY <2>1, <2>2
<1> QED
  BY <1>3, <1>8, MisplacedPast
(* Where there are no transactions a board is past enough.                 *)
LEMMA EmptyPast ==
  ASSUME NEW h, LogInv(h), h.txnHead = h.txnTail, h.open = None,
         NEW s \in Slots, NEW b \in Board
  PROVE  HasPast(h, s, b)
<1> DEFINE w == [a \in 0..0 |-> b]
<1>1. HeadAge(h) = 0
  BY Ages DEF HeadAge
<1>2. CursorAge(h, s) = 0
  BY <1>1, Ages
<1>3. InRing(h) = {}
  <2> SUFFICES ASSUME NEW i \in InRing(h) PROVE FALSE
    OBVIOUS
  <2>1. i \in TxnIndex /\ TxnAge(h, i) < 0
    BY <1>1, Ages
  <2>2. TxnAge(h, i) \in Nat
    BY <2>1, Ages
  <2> QED
    BY <2>1, <2>2
<1>4. w \in [0..0 -> Board] /\ w[0] = b
  OBVIOUS
<1> HIDE DEF w
<1>5. IsPast(h, s, w)
  BY <1>1, <1>3, <1>4 DEF IsPast
<1>6. AtCursor(h, s, w, b)
  BY <1>2, <1>4 DEF AtCursor
<1> QED
  BY <1>5, <1>6, UndoRingAssumption DEF HasPast, Leads

(* Every slot has a past at first, ...                                     *)
LEMMA InitPast == Init => PastInv
<1> SUFFICES ASSUME Init PROVE PastInv
  OBVIOUS
<1>1. TypeInv /\ LogInv(log)
  BY InitTyped DEF TypeInv
<1>2. log.txnHead = log.txnTail /\ log.open = None
  BY DEF Init
<1>3. ASSUME NEW s \in Slots PROVE HasPast(log, s, board[s])
  <2>1. board[s] \in Board
    BY NewBoardType DEF Init
  <2> QED
    BY <1>1, <1>2, <2>1, EmptyPast
<1>4. ArenaApart
  <2>1. arena = [blobs |-> {}, used |-> 0]
    BY DEF Init
  <2> QED
    BY <2>1 DEF ArenaApart
<1> QED
  BY <1>1, <1>3, <1>4 DEF PastInv

(* ... every step keeps the pasts that it does not tear, ...               *)
LEMMA NextPast == PastInv /\ [Next]_vars => PastInv'
<1> SUFFICES ASSUME PastInv, [Next]_vars PROVE PastInv'
  OBVIOUS
<1>0. /\ TypeInv /\ LogInv(log) /\ IsLog(log) /\ IsBoards(board) /\ ArenaApart
      /\ board \in [Slots \union Guests -> Board]
      /\ \A s \in Slots : s \notin Guests
      /\ \A s \in Slots : s \notin log.torn => HasPast(log, s, board[s])
  BY PastParts
<1>1. TypeInv'
  BY <1>0, NextTyped
<1> SUFFICES /\ ArenaApart'
             /\ \A s \in Slots : s \notin log'.torn => HasPast(log', s, board'[s])
  BY <1>1 DEF PastInv
<1> DEFINE PastKept == /\ ArenaApart'
                    /\ \A s \in Slots :
                         s \notin log'.torn => HasPast(log', s, board'[s])
<1>2. CASE Edit
  BY <1>2, EditPast, ArenaEdit
<1>3. CASE BeginBundle
  <2>1. log' = undoBeginTxn(log, board) /\ arena' = arena /\ board' = board
    BY <1>3 DEF BeginBundle
  <2>2. log.torn \subseteq log'.torn
    BY <1>0, <2>1, BeginTorn
  <2>3. ASSUME NEW s \in Slots, s \notin log'.torn
        PROVE  HasPast(log', s, board'[s])
    <3>1. HasPast(log, s, board[s])
      BY <1>0, <2>2, <2>3
    <3>2. HasPast(log', s, board[s])
      BY <1>0, <2>1, <2>3, <3>1, BeginPast
    <3> QED
      BY <2>1, <3>2
  <2> QED
    BY <1>0, <2>1, <2>3 DEF ArenaApart
<1>4. CASE EndBundle
  <2>1. log' = undoEndTxn(log, board) /\ arena' = arena /\ board' = board
    BY <1>4 DEF EndBundle
  <2>2. log'.torn = log.torn
    BY <1>0, <2>1, EndTorn
  <2>3. ASSUME NEW s \in Slots, s \notin log'.torn
        PROVE  HasPast(log', s, board'[s])
    <3>1. HasPast(log', s, board[s])
      BY <1>0, <2>1, <2>2, <2>3, EndPast
    <3> QED
      BY <2>1, <3>1
  <2> QED
    BY <1>0, <2>1, <2>3 DEF ArenaApart
<1>5. ASSUME NEW stale \in BOOLEAN, Look(stale) PROVE PastKept
  <2>1. log' = Looked(stale) /\ arena' = arena /\ board' = board
    BY <1>5 DEF Look
  <2>2. log'.torn = log.torn
    BY <1>0, <2>1, LookedAt
  <2>3. ASSUME NEW s \in Slots, s \notin log'.torn
        PROVE  HasPast(log', s, board'[s])
    <3>1. HasPast(log', s, board[s])
      BY <1>0, <2>1, <2>2, <2>3, LookedPast
    <3> QED
      BY <2>1, <3>1
  <2> QED
    BY <1>0, <2>1, <2>3 DEF ArenaApart
<1>6. ASSUME NEW stale \in BOOLEAN, undoUndo(stale) PROVE PastKept
  <2>1. arena' = arena
    BY <1>6 DEF undoUndo
  <2> QED
    BY <1>0, <1>6, <2>1, UndoPast DEF ArenaApart
<1>7. ASSUME NEW stale \in BOOLEAN, undoRedo(stale) PROVE PastKept
  <2>1. arena' = arena
    BY <1>7 DEF undoRedo
  <2> QED
    BY <1>0, <1>7, <2>1, RedoPast DEF ArenaApart
<1>8. CASE undoWipeHistory
  <2>1. log'.txnHead = log'.txnTail /\ log'.open = None
    BY <1>0, <1>8, WipeSets
  <2>2. /\ board' = board /\ arena'.blobs = arena.blobs
    <3>1. /\ arena' = [arena EXCEPT !.used = 0] /\ board' = board
      BY <1>8 DEF undoWipeHistory
    <3>2. ArenaType
      BY PastParts
    <3> QED
      BY <3>1, <3>2 DEF ArenaType
  <2>3. LogInv(log')
    BY <1>0, <1>8, WipeInv
  <2>4. ASSUME NEW s \in Slots PROVE HasPast(log', s, board'[s])
    BY <1>0, <2>1, <2>2, <2>3, EmptyPast DEF IsBoards
  <2> QED
    BY <1>0, <2>2, <2>4 DEF ArenaApart
<1>9. ASSUME NEW r \in Slots \union Guests, NEW told \in BOOLEAN,
             SwitchSlot(r, told)
      PROVE  PastKept
  <2>1. /\ arena' = arena
        /\ \/ board' = board
           \/ r \in Guests /\ board' = [board EXCEPT ![r] = NewBoard]
        /\ \/ log' = log
           \/ r \in Slots /\ log' = slotSwap(log, r, board)
    BY <1>9 DEF SwitchSlot
  <2>2. \A s \in Slots : board'[s] = board[s]
    BY <1>0, <2>1
  <2>3. log'.torn = log.torn
    BY <1>0, <2>1, SwapTorn
  <2>4. ASSUME NEW s \in Slots, s \notin log'.torn
        PROVE  HasPast(log', s, board'[s])
    <3>1. HasPast(log, s, board[s])
      BY <1>0, <2>3, <2>4
    <3>2. HasPast(log', s, board[s])
      BY <1>0, <2>1, <3>1, SwapPast
    <3> QED
      BY <2>2, <3>2
  <2> QED
    BY <1>0, <2>1, <2>4 DEF ArenaApart
<1>10. CASE UNCHANGED vars
  <2>1. log' = log /\ arena' = arena /\ board' = board
    BY <1>10 DEF vars
  <2> QED
    BY <1>0, <2>1 DEF ArenaApart
<1> QED
  BY <1>2, <1>3, <1>4, <1>5, <1>6, <1>7, <1>8, <1>9, <1>10 DEF Next

(* ... and so every slot that is not torn always has one.                  *)
LEMMA PastAlways == Spec => []PastInv
<1> QED
  BY InitPast, NextPast, PTL DEF Spec

(* Undo and redo bring back what was: a slot whose history is whole has,   *)
(* after any calls, the board that its last change not undone left, and    *)
(* that its next change to be done again began from; for any capacity of   *)
(* the rings and the arena and any number of slots and guests.             *)
THEOREM BoardAtPlaceCorrect == Spec => []BoardAtPlace
<1>1. PastInv => BoardAtPlace
  <2> SUFFICES ASSUME PastInv, NEW s \in Slots \ (log.torn \union {log.open})
               PROVE  /\ Done(log, s) # {} =>
                           board[s] = log.txns[findPrevSlotTxn(log, s)].change.after
                      /\ Undone(log, s) # {} =>
                           board[s] = log.txns[findNextSlotTxn(log, s)].change.before
    BY DEF BoardAtPlace
  <2>1. LogInv(log) /\ HasPast(log, s, board[s])
    BY PastParts
  <2>2. PICK w : IsPast(log, s, w) /\ AtCursor(log, s, w, board[s])
    BY <2>1 DEF HasPast, Leads
  <2>3. ASSUME Done(log, s) # {}
        PROVE  board[s] = log.txns[findPrevSlotTxn(log, s)].change.after
    <3>1. PICK i : i = findPrevSlotTxn(log, s)
      OBVIOUS
    <3>2. /\ i \in InRing(log) /\ Own(log, i, s)
          /\ w[TxnAge(log, i) + 1] = board[s]
      BY <2>1, <2>2, <2>3, <3>1, PastPrev DEF AtCursor
    <3>3. Passes(log, s, w, i)
      BY <2>2, <3>2 DEF IsPast
    <3> QED
      BY <3>1, <3>2, <3>3 DEF Passes
  <2>4. ASSUME Undone(log, s) # {}
        PROVE  board[s] = log.txns[findNextSlotTxn(log, s)].change.before
    <3>1. PICK i : i = findNextSlotTxn(log, s)
      OBVIOUS
    <3>2. /\ i \in InRing(log) /\ Own(log, i, s)
          /\ w[TxnAge(log, i)] = board[s]
      BY <2>1, <2>2, <2>4, <3>1, PastNext DEF AtCursor
    <3>3. Passes(log, s, w, i)
      BY <2>2, <3>2 DEF IsPast
    <3> QED
      BY <3>1, <3>2, <3>3 DEF Passes
  <2> QED
    BY <2>3, <2>4
<1> QED
  BY <1>1, PastAlways, PTL
=============================================================================
