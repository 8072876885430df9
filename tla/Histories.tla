----------------------------- MODULE Histories ------------------------------
(***************************************************************************)
(* What the undo log promises: each slot has a list of changes of its own  *)
(* and a place in it.  A step forgets no more of a slot than its oldest    *)
(* change, unless everything is wiped.  Only while a slot is the active    *)
(* one does the place move, or are the changes after it dropped.           *)
(***************************************************************************)
EXTENDS Integers, Sequences

CONSTANT Slots

VARIABLES
  history,    (* of each slot: [done, undone], the changes before and      *)
              (* after the place, oldest first; redo makes the latter      *)
  active      (* the slot whose history is used                            *)

vars == <<history, active>>

Nothing == [done |-> <<>>, undone |-> <<>>]

Init ==
  /\ history = [s \in Slots |-> Nothing]
  /\ active \in Slots

(* What is left of a slot's history h when one step makes room: all of it, *)
(* or all but the oldest change.                                           *)
Remains(h) ==
  {h} \union
    (IF h.done # <<>>   THEN {[h EXCEPT !.done = Tail(@)]}
     ELSE IF h.undone # <<>> THEN {[h EXCEPT !.undone = Tail(@)]}
     ELSE {})

(* A new transaction drops what was undone, ...                            *)
Abandon(h, g) == g.done = h.done /\ g.undone = <<>>

(* ... and joins the history when it ends, ...                             *)
Commit(h, g) ==
  /\ g.undone = <<>>
  /\ Len(g.done) = Len(h.done) + 1
  /\ SubSeq(g.done, 1, Len(h.done)) = h.done

(* ... where a slide of a voltage may go on in the last change.            *)
Amend(h, g) ==
  LET n == Len(h.done)
  IN  /\ n > 0 /\ h.undone = <<>> /\ g.undone = <<>>
      /\ Len(g.done) = n
      /\ \A k \in 1..n - 1 : g.done[k] = h.done[k]
      /\ g.done[n].before = h.done[n].before

Undo(h, g) ==
  LET n == Len(h.done)
  IN  /\ n > 0
      /\ g.done = SubSeq(h.done, 1, n - 1)
      /\ g.undone = <<h.done[n]>> \o h.undone

(* Undoing an open transaction ends it first.                              *)
UndoOpen(h, g) ==
  h.undone = <<>> /\ g.done = h.done /\ Len(g.undone) = 1

Redo(h, g) == Undo(g, h)

(* The history h of a slot becomes g.                                      *)
Step(s, h, g) ==
  \/ g = h
  \/ \E r \in Remains(h) :
       \/ g = r
       \/ s \in {active, active'} /\ Commit(r, g)
       \/ /\ s = active'
          /\ \/ Abandon(r, g) \/ Amend(r, g)
             \/ Undo(r, g) \/ UndoOpen(r, g) \/ Redo(r, g)

Wipe == history' = [s \in Slots |-> Nothing]

Next ==
  /\ active' \in Slots
  /\ \/ \A s \in Slots :
          \E h \in {history[s]}, g \in {history'[s]} : Step(s, h, g)
     \/ Wipe

Spec == Init /\ [][Next]_vars
=============================================================================
