---------------------------- MODULE MCCrossCore ----------------------------
(* Values for the constants of CrossCore that a .cfg cannot write.         *)
EXTENDS CrossCore

(* The LED requests callers post: netlist with and without a clear.        *)
MCNetRequests == {1, -1}

(* ... and the blocking flush of the menu buffer.                          *)
MCAllRequests == {-1, 12}

MCOneRequest == {1}

MCNoRequests == {}
=============================================================================
