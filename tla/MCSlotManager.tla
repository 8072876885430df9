---------------------------- MODULE MCSlotManager ----------------------------
(* Two numbered slots and one wire, for TLC.                               *)
EXTENDS SlotManager

MCSlots == {0, 1}

(* What a later step can depend on: not the last answer, nor what a mode   *)
(* that has been left had remembered.                                      *)
View == <<[mgr EXCEPT !.ok = TRUE], mode, preview, original,
          IF mode = "python" THEN python ELSE [python EXCEPT !.entry = None, !.backup = None],
          host, IF mode \in {"menu", "app"} THEN home ELSE 0, work>>
=============================================================================
