------------------------------ MODULE UndoRing ------------------------------
(***************************************************************************)
(* The undo log: one ring of operations and one of transactions, shared by *)
(* all slots, with a cursor for each slot, and the arena in which clearing *)
(* the board captures it.  A slot's undo and redo walk the transactions    *)
(* that carry its tag.                                                     *)
(*                                                                         *)
(* The boards are in the model because undoing has to bring them back.  A  *)
(* board is a set of bridges and the voltage of each DAC; a slot keeps its *)
(* board while another one is active.                                      *)
(***************************************************************************)
EXTENDS Integers, Sequences, FiniteSets

CONSTANTS
  Slots,      (* the slots that have a history                             *)
  Guests,     (* slot numbers out of range: the apps' slot, Python's       *)
  None,       (* no slot                                                   *)
  Bridges, Channels, Volts,
  OpCap,      (* g_opCap                                                   *)
  TxnCap,     (* g_txnCap                                                  *)
  ArenaCap,   (* g_blobCap                                                 *)
  MaxBundle,  (* operations in one transaction                             *)
  MaxRecords  (* changes made in a behaviour                               *)

ASSUME UndoRingAssumption ==
  /\ OpCap \in Nat /\ TxnCap \in Nat /\ ArenaCap \in Nat
  /\ MaxBundle \in Nat /\ MaxRecords \in Nat
  /\ OpCap > 1 /\ TxnCap > 1 /\ MaxBundle < OpCap
  /\ Slots # {} /\ None \notin Slots
  /\ Guests \cap (Slots \union {None}) = {}
  /\ Volts # {} /\ Volts \subseteq Int
  /\ IsFiniteSet(Bridges) /\ ArenaCap > Cardinality(Bridges)

VARIABLES
  log,        (* the rings, the cursors and the open transaction           *)
  arena,      (* [blobs, used]: the captures that are intact, g_blobUsed   *)
  netSlot,
  board,      (* of each slot                                              *)
  records     (* changes made so far                                       *)

vars == <<log, arena, netSlot, board, records>>

OpIndex  == 0..OpCap - 1
TxnIndex == 0..TxnCap - 1

(* Mutant: the index does not come round.                                 *)
opRingNextStraight(i) == i + 1

opRingNext(i)  == (i + 1) % OpCap
txnRingNext(i) == (i + 1) % TxnCap
txnRingPrev(i) == (i + TxnCap - 1) % TxnCap

Board  == [bridges : SUBSET Bridges, volts : [Channels -> Volts]]
Change == [before : Board, after : Board]

(* An operation.  That a clearing carries the board it captured is for the *)
(* properties; the code has only the place in the arena.                   *)
Operation ==
  [kind : {"none"}]
    \union [kind : {"connect", "disconnect"}, bridge : Bridges]
    \union [kind : {"dac"}, channel : Channels, prev : Volts, next : Volts]
    \union [kind : {"clear"}, at : 0..ArenaCap, captured : Board]

(* A transaction.  "before" and "after" are for the properties.            *)
Txn == [firstOp : OpIndex, opCount : 0..OpCap - 1, slot : Slots,
        state : {"committed", "obsolete"}, change : Change]

(***************************************************************************)
(* Which transactions the ring holds, and which of them a slot can undo    *)
(* and redo.                                                               *)
(***************************************************************************)
TxnAge(h, i) == (i + TxnCap - h.txnTail) % TxnCap
InRing(h)    == {i \in TxnIndex : TxnAge(h, i) < TxnAge(h, h.txnHead)}

txnBelongsToSlot(t, s) == t.opCount > 0 /\ t.state # "obsolete" /\ t.slot = s

Reachable(h, s) == {i \in InRing(h) : txnBelongsToSlot(h.txns[i], s)}
Done(h, s) ==
  {i \in Reachable(h, s) : TxnAge(h, i) < TxnAge(h, h.slotCursor[s])}
Undone(h, s) == Reachable(h, s) \ Done(h, s)

findPrevSlotTxn(h, s) ==
  CHOOSE i \in Done(h, s) :
    \A j \in Done(h, s) : TxnAge(h, j) <= TxnAge(h, i)
findNextSlotTxn(h, s) ==
  CHOOSE i \in Undone(h, s) :
    \A j \in Undone(h, s) : TxnAge(h, i) <= TxnAge(h, j)

clampSlotCursor(h) ==
  [h EXCEPT !.slotCursor[h.active] =
     IF h.txnHead = h.txnTail THEN h.txnHead
     ELSE IF TxnAge(h, @) > TxnAge(h, h.txnHead) THEN h.txnTail ELSE @]

(***************************************************************************)
(* Recording.  The operators take the log and return it changed; "bs" are  *)
(* the boards at that moment.                                              *)
(***************************************************************************)
opEndOfTxn(t) == (t.firstOp + t.opCount) % OpCap

(* Mutant: the cursors stay where they are.                                *)
EvictOldestLeavingCursors(h) ==
  [h EXCEPT !.opTail = opEndOfTxn(h.txns[h.txnTail]),
            !.txnTail = txnRingNext(@)]

(* Both rings give up the oldest transaction when they are full.  "torn"   *)
(* is for the properties: the slots that lost a transaction which they had *)
(* undone.                                                                 *)
EvictOldest(h) ==
  LET oldest == h.txnTail
      next   == txnRingNext(oldest)
  IN  [h EXCEPT
         !.opTail = opEndOfTxn(h.txns[oldest]),
         !.txnTail = next,
         !.slotCursor =
           [s \in Slots |-> IF @[s] = oldest THEN next ELSE @[s]],
         !.torn = @ \union {s \in Slots : oldest \in Undone(h, s)}]

undoEndTxn(h, bs) ==
  LET n == (h.opHead + OpCap - h.opStart) % OpCap
      t == [firstOp |-> h.opStart, opCount |-> n, slot |-> h.open,
            state |-> "committed",
            change |-> [before |-> h.opened, after |-> bs[h.open]]]
      closed == [h EXCEPT !.txns[h.txnHead] = t, !.open = None]
  IN  IF h.open = None THEN h
      ELSE IF n = 0 THEN closed
      ELSE [closed EXCEPT !.txnHead = txnRingNext(@),
                          !.slotCursor[h.open] = txnRingNext(h.txnHead)]

slotSwap(h, s, bs) ==
  IF s = h.active THEN h ELSE [undoEndTxn(h, bs) EXCEPT !.active = s]

slotSwapIfNeeded(h, bs) ==
  IF netSlot \in Slots THEN slotSwap(h, netSlot, bs) ELSE h

(* Mutant: what any slot has undone becomes obsolete.                      *)
DropRedoOfAll(h) ==
  [h EXCEPT !.txns =
     [i \in TxnIndex |-> IF \E s \in Slots : i \in Undone(h, s)
                         THEN [@[i] EXCEPT !.state = "obsolete"] ELSE @[i]]]

(* The transactions that the active slot has undone become obsolete.       *)
DropRedo(h) ==
  LET redo == Undone(h, h.active)
  IN  [h EXCEPT !.txns =
         [i \in TxnIndex |->
            IF i \in redo THEN [@[i] EXCEPT !.state = "obsolete"] ELSE @[i]]]

undoBeginTxn(h, bs) ==
  LET a == DropRedo(clampSlotCursor(
             undoEndTxn(slotSwapIfNeeded(h, bs), bs)))
      e == IF txnRingNext(a.txnHead) = a.txnTail THEN EvictOldest(a) ELSE a
  IN  [e EXCEPT !.open = e.active, !.opStart = e.opHead,
                !.opened = bs[e.active]]

(* Mutant: a full ring of operations evicts nothing.                       *)
appendOpOver(h, op) ==
  [h EXCEPT !.ops[h.opHead] = [txn |-> h.txnHead, op |-> op],
            !.opHead = opRingNext(@)]

appendOp(h, op) ==
  LET e == IF opRingNext(h.opHead) # h.opTail THEN h
           ELSE IF h.txnHead # h.txnTail THEN EvictOldest(h)
           ELSE [h EXCEPT !.opTail = opRingNext(@)]
  IN  [e EXCEPT !.ops[e.opHead] = [txn |-> e.txnHead, op |-> op],
                !.opHead = opRingNext(@)]

(* A change makes a transaction of its own, unless one is open.  "bs" are  *)
(* the boards before the change and "cs" after it.                         *)
recordOneAction(h, op, bs, cs) ==
  LET a == slotSwapIfNeeded(h, bs)
  IN  IF a.open # None THEN appendOp(a, op)
      ELSE undoEndTxn(appendOp(undoBeginTxn(a, bs), op), cs)

(* In a slot without a history the log stays with the slot used before, so *)
(* that its history has a change which its board has not.                  *)
Misplaced(h) ==
  IF netSlot \in Slots THEN h ELSE [h EXCEPT !.torn = @ \union {h.active}]

(***************************************************************************)
(* Undoing and redoing one operation, on the board and with the captures.  *)
(***************************************************************************)
Captured(at) == {x \in arena.blobs : x.at = at}

blobRestoreState(at, b) ==
  IF Captured(at) = {} THEN b ELSE (CHOOSE x \in Captured(at) : TRUE).board

applyOp(op, b) ==
  CASE op.kind = "connect"    -> [b EXCEPT !.bridges = @ \union {op.bridge}]
    [] op.kind = "disconnect" -> [b EXCEPT !.bridges = @ \ {op.bridge}]
    [] op.kind = "dac"        -> [b EXCEPT !.volts[op.channel] = op.next]
    [] op.kind = "clear"      -> [b EXCEPT !.bridges = {}]
    [] OTHER                  -> b

revertOp(op, b) ==
  CASE op.kind = "connect"    -> [b EXCEPT !.bridges = @ \ {op.bridge}]
    [] op.kind = "disconnect" -> [b EXCEPT !.bridges = @ \union {op.bridge}]
    [] op.kind = "dac"        -> [b EXCEPT !.volts[op.channel] = op.prev]
    [] op.kind = "clear"      -> blobRestoreState(op.at, b)
    [] OTHER                  -> b

OpOf(h, t, k) == h.ops[(t.firstOp + k) % OpCap].op

Applied(h, t, b) ==
  LET f[k \in 0..t.opCount] ==
        IF k = 0 THEN b ELSE applyOp(OpOf(h, t, k - 1), f[k - 1])
  IN  f[t.opCount]

(* Mutant: the operations are undone in the order they were done.          *)
RevertedForward(h, t, b) ==
  LET f[k \in 0..t.opCount] ==
        IF k = 0 THEN b ELSE revertOp(OpOf(h, t, k - 1), f[k - 1])
  IN  f[t.opCount]

Reverted(h, t, b) ==
  LET f[k \in 0..t.opCount] ==
        IF k = 0 THEN b ELSE revertOp(OpOf(h, t, t.opCount - k), f[k - 1])
  IN  f[t.opCount]

(***************************************************************************)
(* The captures.  A capture takes the room that its board needs, from the  *)
(* start again when the end of the arena is near, and destroys what was    *)
(* there.                                                                  *)
(***************************************************************************)
SizeOf(b) == 1 + Cardinality(b.bridges)

blobAt(b) == IF arena.used + SizeOf(b) > ArenaCap THEN 0 ELSE arena.used

blobAppendCurrentState(b) ==
  LET at  == blobAt(b)
      end == at + SizeOf(b)
  IN  [blobs |-> {x \in arena.blobs :
                    x.at + SizeOf(x.board) <= at \/ x.at >= end}
                   \union {[at |-> at, board |-> b]},
       used  |-> end]

-----------------------------------------------------------------------------
NewBoard ==
  [bridges |-> {}, volts |-> [c \in Channels |-> CHOOSE v \in Volts : TRUE]]

Init ==
  /\ netSlot \in Slots
  /\ log = [ops |-> [i \in OpIndex |-> [txn |-> 0, op |-> [kind |-> "none"]]],
            opHead |-> 0, opTail |-> 0,
            txns |-> [i \in TxnIndex |->
                        [firstOp |-> 0, opCount |-> 0,
                         slot |-> netSlot,
                         state |-> "committed",
                         change |-> [before |-> NewBoard, after |-> NewBoard]]],
            txnHead |-> 0, txnTail |-> 0,
            slotCursor |-> [s \in Slots |-> 0],
            active |-> netSlot, open |-> None, opStart |-> 0,
            opened |-> NewBoard, torn |-> {}]
  /\ arena = [blobs |-> {}, used |-> 0]
  /\ board = [s \in Slots \union Guests |-> NewBoard]
  /\ records = 0

-----------------------------------------------------------------------------
(***************************************************************************)
(* The hooks in the board's state.  Each changes the board of the slot     *)
(* that is in use and records the change.                                  *)
(***************************************************************************)
BundleLength(h) == (h.opHead + OpCap - h.opStart) % OpCap

MayRecord ==
  LET a == slotSwapIfNeeded(log, board)
  IN  /\ records < MaxRecords
      /\ a.open = None \/ BundleLength(a) < MaxBundle

Record(op, b) ==
  /\ MayRecord
  /\ board' = [board EXCEPT ![netSlot] = b]
  /\ log' = Misplaced(recordOneAction(log, op, board, board'))
  /\ records' = records + 1
  /\ UNCHANGED netSlot

addConnection(bridge) ==
  LET op == [kind |-> "connect", bridge |-> bridge]
  IN  /\ bridge \notin board[netSlot].bridges
      /\ Record(op, applyOp(op, board[netSlot]))
      /\ UNCHANGED arena

removeConnection(bridge) ==
  LET op == [kind |-> "disconnect", bridge |-> bridge]
  IN  /\ bridge \in board[netSlot].bridges
      /\ Record(op, applyOp(op, board[netSlot]))
      /\ UNCHANGED arena

(* The board is captured, and then cleared.                                *)
clearAllConnections ==
  LET op == [kind |-> "clear", at |-> blobAt(board[netSlot]),
             captured |-> board[netSlot]]
  IN  /\ Record(op, applyOp(op, board[netSlot]))
      /\ arena' = blobAppendCurrentState(board[netSlot])

(* The newest transaction, if it is one change of this channel and nothing *)
(* has been undone since.                                                  *)
SlideGoesOn(h, channel) ==
  LET t  == h.txns[txnRingPrev(h.txnHead)]
      op == h.ops[t.firstOp].op
  IN  /\ h.open = None
      /\ h.txnHead # h.txnTail
      /\ t.state = "committed" /\ t.slot = h.active /\ t.opCount = 1
      /\ h.slotCursor[h.active] = h.txnHead
      /\ op.kind = "dac" /\ op.channel = channel

(* The new voltage replaces the one that the newest transaction set.       *)
Retarget(h, volts, bs) ==
  LET i == txnRingPrev(h.txnHead)
  IN  [h EXCEPT !.ops[h.txns[i].firstOp].op.next = volts,
                !.txns[i].change.after = bs[h.active]]

(* "soon": within DAC_SLIDE_COALESCE_MS of the last change.                *)
setVoltage(channel, volts, soon) ==
  LET b  == board[netSlot]
      a  == slotSwapIfNeeded(log, board)
      op == [kind |-> "dac", channel |-> channel, prev |-> b.volts[channel],
             next |-> volts]
  IN  /\ volts # b.volts[channel]
      /\ UNCHANGED arena
      /\ IF soon /\ SlideGoesOn(a, channel)
         THEN /\ records < MaxRecords
              /\ board' = [board EXCEPT ![netSlot].volts[channel] = volts]
              /\ log' = Misplaced(Retarget(a, volts, board'))
              /\ records' = records + 1
              /\ UNCHANGED netSlot
         ELSE Record(op, applyOp(op, b))

(***************************************************************************)
(* The calls.                                                              *)
(***************************************************************************)
BeginBundle ==
  /\ log' = undoBeginTxn(log, board)
  /\ UNCHANGED <<arena, netSlot, board, records>>

EndBundle ==
  /\ log' = undoEndTxn(log, board)
  /\ UNCHANGED <<arena, netSlot, board, records>>

(* What every query does first; "stale": an open transaction has been      *)
(* quiet for TXN_AUTOCLOSE_MS.                                             *)
Looked(stale) ==
  LET a == slotSwapIfNeeded(log, board)
  IN  clampSlotCursor(IF stale THEN undoEndTxn(a, board) ELSE a)

Look(stale) ==
  /\ log' = Looked(stale)
  /\ UNCHANGED <<arena, netSlot, board, records>>

(* A clearing whose capture is no longer there, or not its own.            *)
Unrestorable(op) ==
  op.kind = "clear" /\ [at |-> op.at, board |-> op.captured] \notin arena.blobs

Breaks(h, t) == \E k \in 0..t.opCount - 1 : Unrestorable(OpOf(h, t, k))

undoUndo(stale) ==
  LET a == Looked(stale)
      e == undoEndTxn(a, board)
      i == findPrevSlotTxn(e, e.active)
      t == e.txns[i]
  IN  /\ Done(a, a.active) # {}
      /\ board' = [board EXCEPT ![netSlot] = Reverted(e, t, @)]
      /\ log' = Misplaced(
           [e EXCEPT !.slotCursor[e.active] = i,
                     !.torn = IF Breaks(e, t) THEN @ \union {e.active} ELSE @])
      /\ UNCHANGED <<arena, netSlot, records>>

undoRedo(stale) ==
  LET a == Looked(stale)
      i == findNextSlotTxn(a, a.active)
  IN  /\ Undone(a, a.active) # {}
      /\ board' = [board EXCEPT ![netSlot] = Applied(a, a.txns[i], @)]
      /\ log' = Misplaced([a EXCEPT !.slotCursor[a.active] = txnRingNext(i)])
      /\ UNCHANGED <<arena, netSlot, records>>

undoWipeHistory ==
  /\ log' = [log EXCEPT !.open = None, !.torn = {},
                        !.opHead = 0, !.opTail = 0,
                        !.txnHead = 0, !.txnTail = 0,
                        !.slotCursor = [s \in Slots |-> 0]]
  /\ arena' = [arena EXCEPT !.used = 0]
  /\ UNCHANGED <<netSlot, board, records>>

(* Another slot comes into use; the log may be told, or find out later.    *)
(* The apps' slot is entered empty, Python's as it was left.               *)
SwitchSlot(s, told) ==
  /\ s # netSlot
  /\ netSlot' = s
  /\ \/ UNCHANGED board
     \/ s \in Guests /\ board' = [board EXCEPT ![s] = NewBoard]
  /\ log' = IF told /\ s \in Slots THEN slotSwap(log, s, board) ELSE log
  /\ UNCHANGED <<arena, records>>

Edit ==
  \/ \E b \in Bridges : addConnection(b) \/ removeConnection(b)
  \/ clearAllConnections
  \/ \E c \in Channels, v \in Volts, soon \in BOOLEAN : setVoltage(c, v, soon)

Next ==
  \/ Edit
  \/ BeginBundle \/ EndBundle
  \/ \E stale \in BOOLEAN : Look(stale) \/ undoUndo(stale) \/ undoRedo(stale)
  \/ undoWipeHistory
  \/ \E s \in Slots \union Guests, told \in BOOLEAN : SwitchSlot(s, told)

Spec == Init /\ [][Next]_vars

-----------------------------------------------------------------------------
Entry == [txn : TxnIndex, op : Operation]

TypeOK ==
  /\ log \in [ops : [OpIndex -> Entry], opHead : OpIndex, opTail : OpIndex,
              txns : [TxnIndex -> Txn],
              txnHead : TxnIndex, txnTail : TxnIndex,
              slotCursor : [Slots -> TxnIndex], active : Slots,
              open : Slots \union {None}, opStart : OpIndex, opened : Board,
              torn : SUBSET Slots]
  /\ arena \in [blobs : SUBSET [at : 0..ArenaCap, board : Board],
                used : 0..ArenaCap]
  /\ netSlot \in Slots \union Guests
  /\ board \in [Slots \union Guests -> Board]
  /\ records \in 0..MaxRecords

(* No transaction that undo or redo could reach has lost an operation to a *)
(* newer one: each of its places in the operation ring still points back   *)
(* to it, and the places of an open transaction point to where it will be. *)
OpsKept ==
  /\ \A i \in InRing(log) : \A k \in 0..log.txns[i].opCount - 1 :
       log.ops[(log.txns[i].firstOp + k) % OpCap].txn = i
  /\ log.open # None =>
       \A k \in 0..BundleLength(log) - 1 :
         log.ops[(log.opStart + k) % OpCap].txn = log.txnHead

(* No cursor is left behind the tail when the oldest transaction goes, so  *)
(* that an index is never taken for another one that came round the ring.  *)
CursorsInRing ==
  \A s \in Slots : TxnAge(log, log.slotCursor[s]) <= TxnAge(log, log.txnHead)

(* Every slot that is not torn stands where its history says: its board is *)
(* what the last change not undone made of it, and what the first one      *)
(* undone began from.  Undo and redo therefore bring back what was.        *)
BoardAtPlace ==
  \A s \in Slots \ (log.torn \union {log.open}) :
    /\ Done(log, s) # {} =>
         board[s] = log.txns[findPrevSlotTxn(log, s)].change.after
    /\ Undone(log, s) # {} =>
         board[s] = log.txns[findNextSlotTxn(log, s)].change.before

(* The changes of slot s from the k-th to the n-th transaction in the ring. *)
Changes(s, k, n) ==
  LET ring == [j \in 1..n - k + 1 |->
                 log.txns[(log.txnTail + k + j - 2) % TxnCap]]
      own  == SelectSeq(ring, LAMBDA t : txnBelongsToSlot(t, s))
  IN  [j \in 1..Len(own) |-> own[j].change]

HistoryOf(s) ==
  LET place == TxnAge(log, log.slotCursor[s])
  IN  [done   |-> Changes(s, 1, place),
       undone |-> Changes(s, place + 1, TxnAge(log, log.txnHead))]

History == INSTANCE Histories WITH
  history <- [s \in Slots |-> HistoryOf(s)],
  active  <- log.active

(* Sharing the rings does not mix the histories: each slot has a list of   *)
(* changes and a place in it, and what another slot does can only make it  *)
(* forget the oldest.                                                      *)
HistoriesApart == History!Spec
=============================================================================
