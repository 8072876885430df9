---------------------------- MODULE CommandQueue ----------------------------
(***************************************************************************)
(* CommandBuffer and its two users.  The tag parser (and whoever runs the  *)
(* service rota while a command executes) fills a ring of pending          *)
(* commands; the main loop takes one, runs it and, between two pending     *)
(* ones, runs what was typed at the terminal.  Python's output goes to the *)
(* UART too when the flag latched with the command says so: it enters a    *)
(* ring of bytes, which the passthrough task drains.                       *)
(*                                                                         *)
(* All of it runs on Core 0 and cooperatively.  A command is known by the  *)
(* number of its closing tag, a byte of output by its command.             *)
(***************************************************************************)
EXTENDS Integers, Sequences

CONSTANTS
  Depth,        (* CMD_QUEUE_DEPTH                                         *)
  UartSize,     (* UART_OUT_BUFFER_SIZE                                    *)
  MaxCommands   (* bound: commands that arrive                             *)

ASSUME CommandQueueAssumption ==
  /\ Depth \in Nat \ {0}
  /\ UartSize \in Nat \ {0}
  /\ MaxCommands \in Nat

VARIABLES
  cmd_queue, cmd_q_head, cmd_q_tail, cmd_q_count, (* the pending commands  *)
  is_python_command, respond_to_uart,             (* latched when taken    *)
  uart_out_buffer, uart_out_read, uart_out_write, (* bytes for the UART    *)
  at,        (* where the main loop is                                     *)
  current,   (* the command it runs                                        *)
  line,      (* what currentCommandLine and input hold: the line run last  *)
  arrived    (* closing tags seen                                          *)

queue == <<cmd_queue, cmd_q_head, cmd_q_tail, cmd_q_count>>
latch == <<is_python_command, respond_to_uart>>
uart  == <<uart_out_buffer, uart_out_read, uart_out_write>>
loop  == <<at, current, line>>
vars  == <<queue, latch, uart, loop, arrived>>

NoCommand == 0
Typed     == -1
Kinds     == {"run", "blank", "empty"}
Blank     == [id |-> NoCommand, kind |-> "empty", is_python |-> FALSE,
              respond_to_uart |-> FALSE]

Init ==
  /\ cmd_queue = [i \in 0..Depth-1 |-> Blank]
  /\ cmd_q_head = 0 /\ cmd_q_tail = 0 /\ cmd_q_count = 0
  /\ is_python_command = FALSE /\ respond_to_uart = FALSE
  /\ uart_out_buffer = [i \in 0..UartSize-1 |-> NoCommand]
  /\ uart_out_read = 0 /\ uart_out_write = 0
  /\ at = "pending" /\ current = NoCommand /\ line = Typed
  /\ arrived = 0

-----------------------------------------------------------------------------
Full == cmd_q_count >= Depth

(* Mutant: the end of the ring is missed by one.                           *)
PushOver(kind, python) ==
  /\ cmd_queue' = [cmd_queue EXCEPT ![cmd_q_tail] =
                     [id |-> arrived + 1, kind |-> kind, is_python |-> python,
                      respond_to_uart |-> TRUE]]
  /\ cmd_q_tail' = (cmd_q_tail + 1) % (Depth + 1)
  /\ cmd_q_count' = cmd_q_count + 1
  /\ UNCHANGED cmd_q_head

(* The entry at the tail is written and published.                         *)
Push(kind, python) ==
  /\ cmd_queue' = [cmd_queue EXCEPT ![cmd_q_tail] =
                     [id |-> arrived + 1, kind |-> kind, is_python |-> python,
                      respond_to_uart |-> TRUE]]
  /\ cmd_q_tail' = (cmd_q_tail + 1) % Depth
  /\ cmd_q_count' = cmd_q_count + 1
  /\ UNCHANGED cmd_q_head

(* A j command is refused when the queue is full or it is empty.           *)
SetPendingJCommand(kind) ==
  /\ arrived < MaxCommands
  /\ arrived' = arrived + 1
  /\ IF Full \/ kind = "empty" THEN UNCHANGED queue
                               ELSE Push(kind, FALSE)
  /\ UNCHANGED <<latch, uart, loop>>

(* A p command gets a '>' in front, so it always has content.              *)
SetPendingPCommand ==
  /\ arrived < MaxCommands
  /\ arrived' = arrived + 1
  /\ IF Full THEN UNCHANGED queue ELSE Push("run", TRUE)
  /\ UNCHANGED <<latch, uart, loop>>

(* Mutant: the commands are forgotten but not the place of the next one.   *)
ClearPendingKeepingTail ==
  /\ cmd_q_head' = 0 /\ cmd_q_count' = 0
  /\ is_python_command' = FALSE /\ respond_to_uart' = FALSE
  /\ UNCHANGED <<cmd_queue, cmd_q_tail, uart, loop, arrived>>

(* Tag parsing is switched off for an upload, or on again after it.        *)
ClearPendingCommand ==
  /\ cmd_q_head' = 0 /\ cmd_q_tail' = 0 /\ cmd_q_count' = 0
  /\ is_python_command' = FALSE /\ respond_to_uart' = FALSE
  /\ UNCHANGED <<cmd_queue, uart, loop, arrived>>

-----------------------------------------------------------------------------
(* The loop runs the entry e it was given unless it is white space or has  *)
(* no printable start; it latches e's flags in any case.                   *)
Take(e) ==
  /\ is_python_command' = e.is_python
  /\ respond_to_uart' = e.respond_to_uart
  /\ IF e.kind = "run" THEN at' = "running" /\ current' = e.id /\ line' = e.id
                       ELSE at' = "blank" /\ UNCHANGED <<current, line>>

(* Mutant: the count is not lowered.                                       *)
ConsumeKeepingCount ==
  /\ at = "pending" /\ cmd_q_count > 0
  /\ Take(cmd_queue[cmd_q_head])
  /\ cmd_q_head' = (cmd_q_head + 1) % Depth
  /\ UNCHANGED <<cmd_queue, cmd_q_tail, cmd_q_count, uart, arrived>>

(* consumePendingCommandPtr, and what the loop does with the command.      *)
Consume ==
  /\ at = "pending" /\ cmd_q_count > 0
  /\ Take(cmd_queue[cmd_q_head])
  /\ cmd_q_head' = (cmd_q_head + 1) % Depth
  /\ cmd_q_count' = cmd_q_count - 1
  /\ UNCHANGED <<cmd_queue, cmd_q_tail, uart, arrived>>

NonePending ==
  /\ at = "pending" /\ cmd_q_count = 0
  /\ at' = "typed"
  /\ UNCHANGED <<queue, latch, uart, current, line, arrived>>

(* A line typed at the terminal is run, or shows a help text or nothing.   *)
RunTyped ==
  /\ at \in {"typed", "blank"}
  /\ line' = Typed
  /\ \/ at' = "executing" /\ current' = Typed
     \/ at' = "pending" /\ UNCHANGED current
  /\ UNCHANGED <<queue, latch, uart, arrived>>

NothingTyped ==
  /\ at = "typed"
  /\ at' = "pending"
  /\ UNCHANGED <<queue, latch, uart, current, line, arrived>>

(* Behind a blank command with nothing typed the loop does not go round:   *)
(* it falls through with the line run last, and runs it once more unless   *)
(* that line was blank.                                                    *)
RunLineAgain ==
  /\ at = "blank"
  /\ \/ at' = "executing" /\ current' = line
     \/ at' = "pending" /\ UNCHANGED current
  /\ UNCHANGED <<queue, latch, uart, line, arrived>>

Executing == at \in {"running", "executing"}

(* Only after a command just taken from the queue is the flag lowered.     *)
Return ==
  /\ Executing
  /\ at' = "pending" /\ current' = NoCommand
  /\ respond_to_uart' = (respond_to_uart /\ at = "executing")
  /\ UNCHANGED <<queue, is_python_command, uart, line, arrived>>

(* queueForUART, byte by byte: a byte that would fill the last place is    *)
(* dropped.                                                                *)
QueueForUART ==
  /\ Executing /\ respond_to_uart
  /\ (uart_out_write + 1) % UartSize # uart_out_read
  /\ uart_out_buffer' = [uart_out_buffer EXCEPT ![uart_out_write] = current]
  /\ uart_out_write' = (uart_out_write + 1) % UartSize
  /\ UNCHANGED <<queue, latch, uart_out_read, loop, arrived>>

(* sendPendingUARTResponses hands the oldest byte to the UART.             *)
Send ==
  /\ uart_out_read # uart_out_write
  /\ uart_out_read' = (uart_out_read + 1) % UartSize
  /\ UNCHANGED <<queue, latch, uart_out_buffer, uart_out_write, loop, arrived>>

Arrive == (\E kind \in Kinds : SetPendingJCommand(kind)) \/ SetPendingPCommand
Loop   == Consume \/ NonePending \/ RunTyped \/ NothingTyped \/ RunLineAgain
            \/ Return

Next == Arrive \/ ClearPendingCommand \/ Loop \/ QueueForUART \/ Send

Spec == Init /\ [][Next]_vars

(* The main loop goes round and commands return.                           *)
FairSpec == Spec /\ WF_vars(Loop)

-----------------------------------------------------------------------------
QueueType ==
  /\ cmd_queue \in [0..Depth-1 ->
                      [id : 0..MaxCommands, kind : Kinds,
                       is_python : BOOLEAN, respond_to_uart : BOOLEAN]]
  /\ cmd_q_head \in 0..Depth-1
  /\ cmd_q_tail \in 0..Depth-1
  /\ cmd_q_count \in 0..Depth

UartType ==
  /\ uart_out_buffer \in [0..UartSize-1 -> -1..MaxCommands]
  /\ uart_out_read \in 0..UartSize-1
  /\ uart_out_write \in 0..UartSize-1

LoopType ==
  /\ is_python_command \in BOOLEAN
  /\ respond_to_uart \in BOOLEAN
  /\ at \in {"pending", "typed", "blank", "running", "executing"}
  /\ current \in -1..MaxCommands
  /\ line \in -1..MaxCommands
  /\ arrived \in 0..MaxCommands

TypeOK == QueueType /\ UartType /\ LoopType

(* The rings as the sequences they stand for.                              *)
Waiting == [i \in 1..cmd_q_count |->
              cmd_queue[(cmd_q_head + i - 1) % Depth].id]
Output  == [i \in 1..(uart_out_write - uart_out_read) % UartSize |->
              uart_out_buffer[(uart_out_read + i - 1) % UartSize]]

Fifo == INSTANCE CommandFifo WITH
          Capacity <- UartSize - 1,
          issued <- arrived, waiting <- Waiting, output <- Output,
          last <- line, again <- at = "blank"

(* The two rings with their indices and counter are bounded queues:        *)
(* commands run in the order they came, and a refusal, a clearing or a     *)
(* full ring loses whole commands or bytes and disturbs no other.  None    *)
(* runs twice, but for the line run last, once more, directly behind a     *)
(* blank command that was discarded.                                       *)
RingsAreQueues == Fifo!Spec

(* A command that was accepted leaves the queue: it is run, found blank or *)
(* cleared.                                                                *)
AcceptedLeaves ==
  \A c \in 1..MaxCommands :
    (\E i \in DOMAIN Waiting : Waiting[i] = c)
      ~> ~(\E i \in DOMAIN Waiting : Waiting[i] = c)
=============================================================================
