---------------------------- MODULE MCUndoRing ------------------------------
(***************************************************************************)
(* UndoRing for TLC.  The slots are alike.  Two states are the same to TLC *)
(* if they differ only in what no step reads: the places outside of the    *)
(* rings, the last open transaction, captures that no operation refers to. *)
(***************************************************************************)
EXTENDS UndoRing, TLC

MCSymmetry == Permutations(Slots)

Ring(f, cap, head, tail) ==
  [k \in 1..(head + cap - tail) % cap |-> f[(tail + k - 1) % cap]]

MCView ==
  LET ops == Ring(log.ops, OpCap, log.opHead, log.opTail)
      at  == {ops[k].op.at : k \in {j \in DOMAIN ops : ops[j].op.kind = "clear"}}
  IN  <<ops, Ring(log.txns, TxnCap, log.txnHead, log.txnTail),
        log.opHead, log.opTail, log.txnHead, log.txnTail,
        log.slotCursor, log.active, log.open, log.torn,
        IF log.open = None THEN <<>> ELSE <<log.opStart, log.opened>>,
        {x \in arena.blobs : x.at \in at},
        arena.used, netSlot, board, records>>
=============================================================================
