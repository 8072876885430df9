----------------------------- MODULE CommandFifo -----------------------------
(***************************************************************************)
(* What the command buffer promises: commands wait in order in a queue of  *)
(* bounded length, run one at a time, and what a command from the UART     *)
(* prints goes back there in order; what does not fit is dropped.  One     *)
(* that turns out to be blank is discarded, and the line that ran last may *)
(* then run once more: that much, and no more, the loop does.              *)
(***************************************************************************)
EXTENDS Integers, Sequences

CONSTANTS
  Depth,      (* commands that may wait                                    *)
  Capacity    (* bytes of output that may wait                             *)

VARIABLES
  issued,     (* commands that have come; each is known by its number      *)
  waiting,    (* the commands accepted and not yet taken                   *)
  current,    (* the command that runs, NoCommand or a typed one           *)
  last,       (* the line that ran last                                    *)
  again,      (* a blank command was just discarded                        *)
  output      (* the bytes that wait, each known by the command it is from *)

vars == <<issued, waiting, current, last, again, output>>

NoCommand == 0
Typed     == -1

Init ==
  /\ issued = 0
  /\ waiting = <<>>
  /\ current = NoCommand
  /\ last = Typed /\ again = FALSE
  /\ output = <<>>

(* A command enters behind the older ones, unless the queue is full.       *)
Accept ==
  /\ Len(waiting) < Depth
  /\ issued' = issued + 1
  /\ waiting' = Append(waiting, issued + 1)
  /\ UNCHANGED <<current, last, again, output>>

(* A command that finds the queue full, or is empty, is refused.           *)
Refuse ==
  /\ issued' = issued + 1
  /\ UNCHANGED <<waiting, current, last, again, output>>

Run ==
  /\ waiting # <<>> /\ current = NoCommand /\ ~again
  /\ waiting' = Tail(waiting)
  /\ current' = Head(waiting) /\ last' = Head(waiting)
  /\ UNCHANGED <<issued, again, output>>

(* A command without content is not run.                                   *)
Discard ==
  /\ waiting # <<>> /\ current = NoCommand /\ ~again
  /\ waiting' = Tail(waiting)
  /\ again' = TRUE
  /\ UNCHANGED <<issued, current, last, output>>

(* The line before the discarded one runs a second time.                   *)
Repeat ==
  /\ again /\ current = NoCommand
  /\ current' = last
  /\ again' = FALSE
  /\ UNCHANGED <<issued, waiting, last, output>>

Type ==
  /\ current = NoCommand
  /\ current' = Typed /\ last' = Typed
  /\ again' = FALSE
  /\ UNCHANGED <<issued, waiting, output>>

(* Nothing runs: nothing was typed, or a blank line or a question.         *)
Skip ==
  /\ current = NoCommand
  /\ last' \in {last, Typed}
  /\ again' = FALSE
  /\ UNCHANGED <<issued, waiting, current, output>>

Return ==
  /\ current # NoCommand
  /\ current' = NoCommand
  /\ UNCHANGED <<issued, waiting, last, again, output>>

QueueForUART ==
  /\ current # NoCommand
  /\ Len(output) < Capacity
  /\ output' = Append(output, current)
  /\ UNCHANGED <<issued, waiting, current, last, again>>

Send ==
  /\ output # <<>>
  /\ output' = Tail(output)
  /\ UNCHANGED <<issued, waiting, current, last, again>>

(* The start of an upload to the Arduino empties the queue.                *)
Clear == waiting' = <<>> /\ UNCHANGED <<issued, current, last, again, output>>

Next ==
  \/ Accept \/ Refuse \/ Clear
  \/ Run \/ Discard \/ Repeat \/ Type \/ Skip \/ Return
  \/ QueueForUART \/ Send

Spec == Init /\ [][Next]_vars
=============================================================================
