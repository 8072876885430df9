------------------------ MODULE CommandQueue_proofs ------------------------
(***************************************************************************)
(* The rings of CommandQueue are bounded queues, for every depth, size and *)
(* number of commands: the type invariant, and the step simulation that    *)
(* shows RingsAreQueues.                                                   *)
(***************************************************************************)
EXTENDS CommandQueue, RingIndex, SequenceTheorems, TLAPS

(* The initial state has its types.                                        *)
LEMMA TypeInit == Init => TypeOK
<1> SUFFICES ASSUME Init PROVE TypeOK
  OBVIOUS
<1>0. Depth \in Nat \ {0} /\ UartSize \in Nat \ {0} /\ MaxCommands \in Nat
  BY CommandQueueAssumption DEF CommandQueueAssumption
<1>1. Blank \in [id : 0..MaxCommands, kind : Kinds, is_python : BOOLEAN,
                respond_to_uart : BOOLEAN]
  BY <1>0 DEF Blank, Kinds, NoCommand
<1>2. QueueType
  <2>1. cmd_queue = [i \in 0..Depth-1 |-> Blank]
    BY DEF Init
  <2>2. cmd_queue \in [0..Depth-1 ->
                      [id : 0..MaxCommands, kind : Kinds,
                       is_python : BOOLEAN, respond_to_uart : BOOLEAN]]
    BY <1>1, <2>1
  <2> QED  BY <1>0, <2>2 DEF Init, QueueType
<1>3. UartType
  BY <1>0 DEF Init, UartType, NoCommand
<1>4. LoopType
  <2>1. /\ 0 \in 0..Depth-1 /\ 0 \in 0..Depth /\ 0 \in 0..MaxCommands
        /\ 0 \in -1..MaxCommands /\ -1 \in -1..MaxCommands
    BY <1>0
  <2> QED  BY <2>1 DEF Init, LoopType, NoCommand, Typed
<1> QED  BY <1>2, <1>3, <1>4 DEF TypeOK

(* Storing an entry keeps the types of the queue.                          *)
LEMMA PushType ==
  ASSUME TypeOK, arrived < MaxCommands, ~Full,
         NEW kind \in Kinds, NEW python \in BOOLEAN, Push(kind, python)
  PROVE  QueueType'
<1>0. Depth \in Nat \ {0} /\ MaxCommands \in Nat
  BY CommandQueueAssumption DEF CommandQueueAssumption
<1>1. cmd_q_tail' \in 0..Depth-1
  BY <1>0, Around DEF TypeOK, QueueType, Push
<1>2. cmd_q_count' \in 0..Depth
  BY <1>0 DEF TypeOK, QueueType, Full, Push
<1> DEFINE e == [id |-> arrived + 1, kind |-> kind, is_python |-> python,
                 respond_to_uart |-> TRUE]
<1>3. e \in [id : 0..MaxCommands, kind : Kinds, is_python : BOOLEAN,
             respond_to_uart : BOOLEAN]
  BY <1>0 DEF TypeOK, LoopType
<1>4. cmd_queue' = [cmd_queue EXCEPT ![cmd_q_tail] = e]
  BY DEF Push
<1> HIDE DEF e
<1>6. cmd_queue' \in [0..Depth-1 ->
                      [id : 0..MaxCommands, kind : Kinds,
                       is_python : BOOLEAN, respond_to_uart : BOOLEAN]]
  BY <1>3, <1>4 DEF TypeOK, QueueType
<1> QED  BY <1>1, <1>2, <1>6 DEF TypeOK, QueueType, Push

(* Every step keeps the types.                                             *)
LEMMA TypeStep == TypeOK /\ [Next]_vars => TypeOK'
<1> SUFFICES ASSUME TypeOK, [Next]_vars PROVE TypeOK'
  OBVIOUS
<1> USE DEF TypeOK
<1>0. Depth \in Nat \ {0} /\ UartSize \in Nat \ {0} /\ MaxCommands \in Nat
  BY CommandQueueAssumption DEF CommandQueueAssumption
<1>1. ASSUME NEW kind \in Kinds, SetPendingJCommand(kind) PROVE TypeOK'
  <2>1. QueueType'
    <3>1. CASE Full \/ kind = "empty"
      BY <1>1, <3>1 DEF SetPendingJCommand, QueueType, LoopType, queue
    <3>2. CASE ~(Full \/ kind = "empty")
      BY <1>1, <3>2, PushType DEF SetPendingJCommand
    <3> QED  BY <3>1, <3>2
  <2>2. arrived' \in 0..MaxCommands
    BY <1>0, <1>1 DEF SetPendingJCommand, LoopType
  <2>3. UNCHANGED <<latch, uart, loop>>
    BY <1>1 DEF SetPendingJCommand
  <2>4. UartType'
    BY <2>3 DEF uart, UartType
  <2>5. LoopType'
    BY <2>1, <2>2, <2>3 DEF latch, loop, LoopType
  <2> QED  BY <2>1, <2>4, <2>5
<1>2. CASE SetPendingPCommand
  <2>1. QueueType'
    <3>1. CASE Full
      BY <1>2, <3>1 DEF SetPendingPCommand, QueueType, LoopType, queue
    <3>2. CASE ~Full
      BY <1>2, <3>2, PushType DEF SetPendingPCommand, Kinds
    <3> QED  BY <3>1, <3>2
  <2>2. arrived' \in 0..MaxCommands
    BY <1>0, <1>2 DEF SetPendingPCommand, LoopType
  <2> QED  BY <1>2, <2>1, <2>2
              DEF SetPendingPCommand, latch, uart, loop, UartType, LoopType
<1>3. CASE ClearPendingCommand
  <2>1. 0 \in 0..Depth-1 /\ 0 \in 0..Depth
    BY <1>0
  <2>2. QueueType'
    BY <1>3, <2>1 DEF ClearPendingCommand, QueueType
  <2> QED  BY <1>3, <2>2 DEF ClearPendingCommand, UartType, LoopType, uart, loop
<1>4. CASE Consume
  <2> DEFINE e == cmd_queue[cmd_q_head]
  <2>1. e.id \in 0..MaxCommands /\ e.is_python \in BOOLEAN
          /\ e.respond_to_uart \in BOOLEAN
    BY DEF QueueType
  <2>2. Take(e)
    BY <1>4 DEF Consume
  <2>3. is_python_command' \in BOOLEAN /\ respond_to_uart' \in BOOLEAN
    BY <2>1, <2>2 DEF Take
  <2>4. /\ current' \in -1..MaxCommands /\ line' \in -1..MaxCommands
        /\ at' \in {"pending", "typed", "blank", "running", "executing"}
    BY <1>0, <2>1, <2>2 DEF Take, LoopType
  <2>5. QueueType'
    BY <1>0, <1>4, Around DEF Consume, QueueType
  <2> QED  BY <1>0, <1>4, <2>3, <2>4, <2>5
              DEF Consume, QueueType, UartType, LoopType, uart
<1>5. CASE NonePending
  BY <1>5 DEF NonePending, QueueType, UartType, LoopType, queue, latch, uart
<1>6. CASE RunTyped
  BY <1>0, <1>6
     DEF RunTyped, QueueType, UartType, LoopType, Typed, queue, latch, uart
<1>11. CASE NothingTyped
  BY <1>11 DEF NothingTyped, QueueType, UartType, LoopType, queue, latch, uart
<1>12. CASE RunLineAgain
  BY <1>12 DEF RunLineAgain, QueueType, UartType, LoopType, queue, latch, uart
<1>7. CASE Return
  BY <1>0, <1>7
     DEF Return, QueueType, UartType, LoopType, NoCommand, queue, uart
<1>8. CASE QueueForUART
  <2>1. uart_out_write' \in 0..UartSize-1
    BY <1>0, <1>8, Around DEF QueueForUART, UartType
  <2>2. uart_out_buffer' \in [0..UartSize-1 -> -1..MaxCommands]
    BY <1>8 DEF QueueForUART, UartType, LoopType
  <2> QED  BY <1>8, <2>1, <2>2
              DEF QueueForUART, QueueType, UartType, LoopType, queue, latch, loop
<1>9. CASE Send
  <2>1. uart_out_read' \in 0..UartSize-1
    BY <1>0, <1>9, Around DEF Send, UartType
  <2> QED  BY <1>9, <2>1
              DEF Send, QueueType, UartType, LoopType, queue, latch, loop
<1>10. CASE UNCHANGED vars
  BY <1>10
     DEF vars, QueueType, UartType, LoopType, queue, latch, uart, loop
<1> QED  BY <1>1, <1>2, <1>3, <1>4, <1>5, <1>6, <1>7, <1>8, <1>9, <1>10,
            <1>11, <1>12 DEF Next, Arrive, Loop

(* The indices, the counter, the latched flags and the bytes of the two    *)
(* rings stay in their ranges.                                             *)
THEOREM TypeCorrect == Spec => []TypeOK
<1> QED  BY TypeInit, TypeStep, PTL DEF Spec

-----------------------------------------------------------------------------
(* The entry after the last one waiting is the one at the tail; no command *)
(* is newer than the last closing tag, and one with content has a number;  *)
(* a command is current exactly while the loop runs it, and the line kept  *)
(* for a second run is one that came, or a typed one.                      *)
IndexInv == cmd_q_tail = (cmd_q_head + cmd_q_count) % Depth

NumberInv ==
  \A i \in 0..Depth-1 :
    /\ cmd_queue[i].id <= arrived
    /\ cmd_queue[i].kind = "run" => cmd_queue[i].id # NoCommand

CurrentInv ==
  /\ current <= arrived
  /\ line <= arrived /\ line # NoCommand
  /\ Executing <=> current # NoCommand

QueueInv == TypeOK /\ IndexInv /\ NumberInv /\ CurrentInv

Parameters == Depth \in Nat \ {0} /\ UartSize \in Nat \ {0} /\ MaxCommands \in Nat

(* The assumption on the constants, as the proofs use it.                  *)
LEMMA ParametersHold == Parameters
<1> QED  BY CommandQueueAssumption DEF CommandQueueAssumption, Parameters

(* The initial state satisfies the invariant.                              *)
LEMMA QueueInit == Init => QueueInv
<1> SUFFICES ASSUME Init PROVE QueueInv
  OBVIOUS
<1>0. Depth \in Nat \ {0}
  BY ParametersHold DEF Parameters
<1>1. IndexInv
  <2>1. 0 \in Int /\ 0 \in 0..Depth-1 /\ 0 + 0 = 0
    BY <1>0
  <2>2. 0 % Depth = 0
    BY <1>0, <2>1, Around
  <2> QED  BY <2>1, <2>2 DEF Init, IndexInv
<1>2. NumberInv
  <2>1. cmd_queue = [i \in 0..Depth-1 |-> Blank] /\ arrived = 0
    BY DEF Init
  <2>2. Blank.id = 0 /\ Blank.kind = "empty"
    BY DEF Blank, NoCommand
  <2> HIDE DEF Blank
  <2> QED  BY <2>1, <2>2 DEF NumberInv
<1>3. CurrentInv
  BY DEF Init, CurrentInv, Executing, NoCommand, Typed
<1> QED  BY <1>1, <1>2, <1>3, TypeInit DEF QueueInv

(* Storing an entry keeps the tail where it belongs.                       *)
LEMMA PushIndex ==
  ASSUME TypeOK, IndexInv, ~Full, NEW kind, NEW python, Push(kind, python)
  PROVE  IndexInv'
<1>0. Depth \in Nat \ {0}
  BY ParametersHold DEF Parameters
<1>1. /\ cmd_q_head \in 0..Depth-1 /\ cmd_q_count \in 0..Depth-1
      /\ cmd_q_tail = (cmd_q_head + cmd_q_count) % Depth
  BY <1>0 DEF TypeOK, QueueType, IndexInv, Full
<1>2. /\ cmd_q_head' = cmd_q_head /\ cmd_q_count' = cmd_q_count + 1
      /\ cmd_q_tail' = (cmd_q_tail + 1) % Depth
  BY DEF Push
<1>3. (((cmd_q_head + cmd_q_count) % Depth) + 1) % Depth
        = (cmd_q_head + (cmd_q_count + 1)) % Depth
  BY <1>0, <1>1, Ahead
<1> QED  BY <1>1, <1>2, <1>3 DEF IndexInv

(* The stored entry carries the number of its closing tag.                 *)
LEMMA PushNumber ==
  ASSUME TypeOK, NumberInv, NEW kind, NEW python,
         Push(kind, python), arrived' = arrived + 1
  PROVE  NumberInv'
<1> DEFINE e == [id |-> arrived + 1, kind |-> kind, is_python |-> python,
                 respond_to_uart |-> TRUE]
<1>1. cmd_queue' = [cmd_queue EXCEPT ![cmd_q_tail] = e]
  BY DEF Push
<1>2. e.id = arrived + 1
  OBVIOUS
<1>3. arrived \in Nat /\ DOMAIN cmd_queue = 0..Depth-1
  BY ParametersHold DEF Parameters, TypeOK, LoopType, QueueType
<1> HIDE DEF e
<1> SUFFICES ASSUME NEW i \in 0..Depth-1
             PROVE  /\ cmd_queue'[i].id <= arrived'
                    /\ cmd_queue'[i].kind = "run" => cmd_queue'[i].id # NoCommand
  BY DEF NumberInv
<1>4. CASE i = cmd_q_tail
  <2>1. cmd_queue'[i] = e
    BY <1>1, <1>3, <1>4
  <2> QED  BY <1>2, <1>3, <2>1 DEF NoCommand
<1>5. CASE i # cmd_q_tail
  <2>1. cmd_queue'[i] = cmd_queue[i]
    BY <1>1, <1>3, <1>5
  <2>2. cmd_queue[i].id \in Nat /\ cmd_queue[i].id <= arrived
    BY ParametersHold DEF Parameters, TypeOK, QueueType, NumberInv
  <2>3. cmd_queue[i].id <= arrived + 1
    BY <1>3, <2>2
  <2> QED  BY <2>1, <2>3 DEF NumberInv
<1> QED  BY <1>4, <1>5

(* Every step keeps the invariant.                                         *)
LEMMA QueueStep == QueueInv /\ [Next]_vars => QueueInv'
<1> SUFFICES ASSUME QueueInv, [Next]_vars PROVE IndexInv' /\ NumberInv' /\ CurrentInv'
  BY TypeStep DEF QueueInv
<1>0. TypeOK /\ IndexInv /\ NumberInv /\ CurrentInv
  BY DEF QueueInv
<1>p. Depth \in Nat \ {0} /\ MaxCommands \in Nat
  BY ParametersHold DEF Parameters
<1>n. arrived \in Nat /\ current \in Int /\ line \in Int
  BY <1>0, <1>p DEF TypeOK, LoopType
<1>1. ASSUME NEW kind \in Kinds, SetPendingJCommand(kind)
      PROVE  IndexInv' /\ NumberInv' /\ CurrentInv'
  <2>1. arrived' = arrived + 1 /\ current' = current /\ at' = at /\ line' = line
    BY <1>1 DEF SetPendingJCommand, loop
  <2>2. CurrentInv'
    BY <1>0, <1>n, <2>1 DEF CurrentInv, Executing
  <2>3. CASE Full \/ kind = "empty"
    <3>1. UNCHANGED queue
      BY <1>1, <2>3 DEF SetPendingJCommand
    <3>2. IndexInv'
      BY <1>0, <3>1 DEF IndexInv, queue
    <3>3. NumberInv'
      <4>1. \A i \in 0..Depth-1 : cmd_queue[i].id \in Nat
        BY <1>0, <1>p DEF TypeOK, QueueType
      <4> QED  BY <1>0, <1>n, <2>1, <3>1, <4>1 DEF NumberInv, queue
    <3> QED  BY <2>2, <3>2, <3>3
  <2>4. CASE ~(Full \/ kind = "empty")
    BY <1>0, <1>1, <2>1, <2>2, <2>4, PushIndex, PushNumber DEF SetPendingJCommand
  <2> QED  BY <2>3, <2>4
<1>2. CASE SetPendingPCommand
  <2>1. arrived' = arrived + 1 /\ current' = current /\ at' = at /\ line' = line
    BY <1>2 DEF SetPendingPCommand, loop
  <2>2. CurrentInv'
    BY <1>0, <1>n, <2>1 DEF CurrentInv, Executing
  <2>3. CASE Full
    <3>1. UNCHANGED queue
      BY <1>2, <2>3 DEF SetPendingPCommand
    <3>2. IndexInv'
      BY <1>0, <3>1 DEF IndexInv, queue
    <3>3. NumberInv'
      <4>1. \A i \in 0..Depth-1 : cmd_queue[i].id \in Nat
        BY <1>0, <1>p DEF TypeOK, QueueType
      <4> QED  BY <1>0, <1>n, <2>1, <3>1, <4>1 DEF NumberInv, queue
    <3> QED  BY <2>2, <3>2, <3>3
  <2>4. CASE ~Full
    BY <1>0, <1>2, <2>1, <2>2, <2>4, PushIndex, PushNumber DEF SetPendingPCommand
  <2> QED  BY <2>3, <2>4
<1>3. CASE ClearPendingCommand
  <2>1. 0 \in Int /\ 0 \in 0..Depth-1 /\ 0 + 0 = 0
    BY <1>p
  <2>2. 0 % Depth = 0
    BY <1>p, <2>1, Around
  <2>3. IndexInv'
    BY <1>3, <2>1, <2>2 DEF ClearPendingCommand, IndexInv
  <2>4. NumberInv' /\ CurrentInv'
    BY <1>0, <1>3 DEF ClearPendingCommand, NumberInv, CurrentInv, Executing, loop
  <2> QED  BY <2>3, <2>4
<1>4. CASE Consume
  <2>1. /\ cmd_q_head \in 0..Depth-1 /\ cmd_q_count \in 1..Depth
        /\ cmd_q_count - 1 \in 0..Depth-1
        /\ (cmd_q_count - 1) + 1 = cmd_q_count
    BY <1>0, <1>4, <1>p DEF TypeOK, QueueType, Consume
  <2>2. (((cmd_q_head + 1) % Depth) + (cmd_q_count - 1)) % Depth
          = (cmd_q_head + ((cmd_q_count - 1) + 1)) % Depth
    BY <1>p, <2>1, Ahead
  <2>3. IndexInv'
    BY <1>0, <1>4, <2>1, <2>2 DEF Consume, IndexInv
  <2>4. NumberInv'
    BY <1>0, <1>4 DEF Consume, NumberInv
  <2> DEFINE e == cmd_queue[cmd_q_head]
  <2>5. e.id \in Nat /\ e.id <= arrived /\ (e.kind = "run" => e.id # NoCommand)
    BY <1>0, <1>p, <2>1 DEF TypeOK, QueueType, NumberInv
  <2>6. Take(e) /\ at = "pending" /\ arrived' = arrived
    BY <1>4 DEF Consume
  <2>7. CurrentInv'
    BY <1>0, <2>5, <2>6 DEF Take, CurrentInv, Executing
  <2> QED  BY <2>3, <2>4, <2>7
<1>5. CASE NonePending
  BY <1>0, <1>5 DEF NonePending, IndexInv, NumberInv, CurrentInv, Executing, queue
<1>6. CASE RunTyped
  BY <1>0, <1>n, <1>6
     DEF RunTyped, IndexInv, NumberInv, CurrentInv, Executing, queue, Typed, NoCommand
<1>11. CASE NothingTyped
  BY <1>0, <1>11 DEF NothingTyped, IndexInv, NumberInv, CurrentInv, Executing, queue
<1>12. CASE RunLineAgain
  BY <1>0, <1>12 DEF RunLineAgain, IndexInv, NumberInv, CurrentInv, Executing, queue
<1>7. CASE Return
  BY <1>0, <1>n, <1>7
     DEF Return, IndexInv, NumberInv, CurrentInv, Executing, queue, NoCommand
<1>8. CASE QueueForUART
  BY <1>0, <1>8 DEF QueueForUART, IndexInv, NumberInv, CurrentInv, Executing, queue, loop
<1>9. CASE Send
  BY <1>0, <1>9 DEF Send, IndexInv, NumberInv, CurrentInv, Executing, queue, loop
<1>10. CASE UNCHANGED vars
  BY <1>0, <1>10 DEF vars, IndexInv, NumberInv, CurrentInv, Executing, queue, loop
<1> QED  BY <1>1, <1>2, <1>3, <1>4, <1>5, <1>6, <1>7, <1>8, <1>9, <1>10,
            <1>11, <1>12 DEF Next, Arrive, Loop

-----------------------------------------------------------------------------
(* The numbers of the entries of a ring q.                                 *)
Ids(q) == [j \in 0..Depth-1 |-> q[j].id]

Entries == [0..Depth-1 -> [id : 0..MaxCommands, kind : Kinds,
                           is_python : BOOLEAN, respond_to_uart : BOOLEAN]]

(* The numbers are a ring of numbers.                                      *)
LEMMA IdsType ==
  ASSUME NEW q \in Entries
  PROVE  Ids(q) \in [0..Depth-1 -> 0..MaxCommands]
<1>1. ASSUME NEW j \in 0..Depth-1 PROVE q[j].id \in 0..MaxCommands
  BY DEF Entries
<1> QED  BY <1>1 DEF Ids

(* What waits is a view of them.                                           *)
LEMMA IdsView ==
  ASSUME NEW q, NEW h \in 0..Depth-1, NEW k \in 0..Depth
  PROVE  [i \in 1..k |-> q[(h + i - 1) % Depth].id] = View(Ids(q), h, k, Depth)
<1>1. Depth \in Nat \ {0}
  BY ParametersHold DEF Parameters
<1>2. ASSUME NEW i \in 1..k
      PROVE  Ids(q)[(h + i - 1) % Depth] = q[(h + i - 1) % Depth].id
  <2>1. (h + i - 1) % Depth \in 0..Depth-1
    <3>1. i \in 1..Depth+1
      BY <1>1
    <3> QED  BY <1>1, <3>1, PlaceType
  <2> DEFINE p == (h + i - 1) % Depth
  <2> HIDE DEF p
  <2>2. Ids(q)[p] = q[p].id
    BY <2>1 DEF Ids, p
  <2> QED  BY <2>2 DEF p
<1> QED  BY <1>2 DEF View

(* The waiting commands are a sequence as long as the counter says.        *)
LEMMA WaitingType ==
  ASSUME QueueInv
  PROVE  /\ Waiting = View(Ids(cmd_queue), cmd_q_head, cmd_q_count, Depth)
         /\ Waiting \in Seq(0..MaxCommands)
         /\ Len(Waiting) = cmd_q_count
<1>1. /\ Depth \in Nat \ {0} /\ MaxCommands \in Nat
      /\ cmd_queue \in Entries
      /\ cmd_q_head \in 0..Depth-1 /\ cmd_q_count \in 0..Depth
      /\ arrived \in Nat
  BY ParametersHold DEF Parameters, QueueInv, TypeOK, QueueType, LoopType, Entries
<1>2. Waiting = View(Ids(cmd_queue), cmd_q_head, cmd_q_count, Depth)
  BY <1>1, IdsView DEF Waiting
<1>3. Ids(cmd_queue) \in [0..Depth-1 -> 0..MaxCommands]
  BY <1>1, IdsType
<1>4. Waiting \in Seq(0..MaxCommands)
  BY <1>1, <1>2, <1>3, ViewType
<1>5. Len(Waiting) = cmd_q_count
  BY <1>1, <1>2, <1>3, ViewLength
<1> QED  BY <1>2, <1>4, <1>5

(* Storing an entry appends its command.                                   *)
LEMMA PushAppends ==
  ASSUME QueueInv, TypeOK', ~Full, arrived < MaxCommands,
         NEW kind, NEW python, Push(kind, python)
  PROVE  Waiting' = Append(Waiting, arrived + 1)
<1>1. /\ Depth \in Nat \ {0} /\ MaxCommands \in Nat
      /\ cmd_queue \in Entries
      /\ cmd_q_head \in 0..Depth-1 /\ cmd_q_count \in 0..Depth-1
      /\ arrived + 1 \in 0..MaxCommands
      /\ cmd_q_tail \in 0..Depth-1
      /\ cmd_q_tail = (cmd_q_head + cmd_q_count) % Depth
  <2>0. Depth \in Nat \ {0} /\ MaxCommands \in Nat
    BY ParametersHold DEF Parameters
  <2>1. cmd_queue \in Entries /\ cmd_q_head \in 0..Depth-1 /\ cmd_q_tail \in 0..Depth-1
    BY DEF QueueInv, TypeOK, QueueType, Entries
  <2>2. cmd_q_count \in 0..Depth-1
    BY <2>0 DEF QueueInv, TypeOK, QueueType, Full
  <2>3. arrived + 1 \in 0..MaxCommands
    BY <2>0 DEF QueueInv, TypeOK, LoopType
  <2> QED  BY <2>0, <2>1, <2>2, <2>3 DEF QueueInv, IndexInv
<1>2. cmd_q_head' = cmd_q_head /\ cmd_q_count' = cmd_q_count + 1
  BY DEF Push
<1>3. Ids(cmd_queue') = [Ids(cmd_queue) EXCEPT ![cmd_q_tail] = arrived + 1]
  <2> DEFINE e == [id |-> arrived + 1, kind |-> kind, is_python |-> python,
                   respond_to_uart |-> TRUE]
  <2>1. cmd_queue' = [cmd_queue EXCEPT ![cmd_q_tail] = e] /\ e.id = arrived + 1
    BY DEF Push
  <2>2. DOMAIN cmd_queue = 0..Depth-1
    BY <1>1 DEF Entries
  <2> HIDE DEF e
  <2> QED  BY <1>1, <2>1, <2>2 DEF Ids
<1>4. Ids(cmd_queue) \in [0..Depth-1 -> 0..MaxCommands]
  BY <1>1, IdsType
<1> DEFINE f == Ids(cmd_queue)
           g == Ids(cmd_queue')
           n == cmd_q_count + 1
<1>5. /\ g \in [0..Depth-1 -> 0..MaxCommands] /\ g[cmd_q_tail] = arrived + 1
      /\ \A j \in 0..Depth-1 : j # cmd_q_tail => g[j] = f[j]
  <2> HIDE DEF f, g
  <2>1. g = [f EXCEPT ![cmd_q_tail] = arrived + 1]
    BY <1>3 DEF f, g
  <2>2. f \in [0..Depth-1 -> 0..MaxCommands]
    BY <1>4 DEF f
  <2> QED  BY <1>1, <2>1, <2>2
<1>6. Waiting' = View(g, cmd_q_head, n, Depth)
  <2>1. n \in 0..Depth
    BY <1>1
  <2>2. Waiting' = [i \in 1..n |-> cmd_queue'[(cmd_q_head + i - 1) % Depth].id]
    BY <1>2 DEF Waiting
  <2> HIDE DEF n
  <2> QED  BY <1>1, <2>1, <2>2, IdsView
<1>7. n \in 1..Depth /\ n - 1 = cmd_q_count /\ cmd_q_head + n - 1 = cmd_q_head + cmd_q_count
  BY <1>1
<1> HIDE DEF f, g, n
<1>8. OneMore(f, g, cmd_q_head, n, Depth)
  <2>1. SameBut(f, g, (cmd_q_head + n - 1) % Depth, Depth)
    BY <1>1, <1>5, <1>7 DEF SameBut
  <2>2. f \in [0..Depth-1 -> 0..MaxCommands]
    BY <1>4 DEF f
  <2> QED  BY <1>1, <1>5, <1>7, <2>1, <2>2, ViewAppend
<1>9. Waiting = View(f, cmd_q_head, n - 1, Depth)
  BY <1>7, WaitingType DEF f
<1> QED  BY <1>1, <1>5, <1>6, <1>7, <1>8, <1>9 DEF OneMore

(* Taking an entry takes the head of what waits.                           *)
LEMMA ConsumeTakesHead ==
  ASSUME QueueInv, Consume
  PROVE  /\ Waiting # <<>>
         /\ Head(Waiting) = cmd_queue[cmd_q_head].id
         /\ Waiting' = Tail(Waiting)
<1>1. /\ Depth \in Nat \ {0} /\ MaxCommands \in Nat
      /\ cmd_queue \in Entries
      /\ cmd_q_head \in 0..Depth-1 /\ cmd_q_count \in 1..Depth
  BY ParametersHold
     DEF Parameters, QueueInv, TypeOK, QueueType, Entries, Consume
<1> DEFINE f == Ids(cmd_queue)
           h == (cmd_q_head + 1) % Depth
           k == cmd_q_count - 1
<1>2. f \in [0..Depth-1 -> 0..MaxCommands]
  BY <1>1, IdsType
<1>3. /\ View(f, cmd_q_head, cmd_q_count, Depth) # <<>>
      /\ Head(View(f, cmd_q_head, cmd_q_count, Depth)) = f[cmd_q_head]
      /\ View(f, (cmd_q_head + 1) % Depth, cmd_q_count - 1, Depth)
           = Tail(View(f, cmd_q_head, cmd_q_count, Depth))
  <2> HIDE DEF f
  <2> QED  BY <1>1, <1>2, ViewTail
<1>4. f[cmd_q_head] = cmd_queue[cmd_q_head].id
  BY <1>1 DEF Ids
<1>5. Waiting' = View(f, h, k, Depth)
  <2>1. h \in 0..Depth-1
    <3>1. 2 \in 1..Depth+1 /\ cmd_q_head + 2 - 1 = cmd_q_head + 1
      BY <1>1
    <3> QED  BY <1>1, <3>1, PlaceType
  <2>2. k \in 0..Depth
    BY <1>1
  <2>3. Waiting' = [i \in 1..k |-> cmd_queue[(h + i - 1) % Depth].id]
    BY DEF Waiting, Consume
  <2> HIDE DEF h, k
  <2> QED  BY <2>1, <2>2, <2>3, IdsView
<1> QED  BY <1>3, <1>4, <1>5, WaitingType

-----------------------------------------------------------------------------
(* The bytes that wait are a view of the output ring.                      *)
LEMMA OutputType ==
  ASSUME QueueInv
  PROVE  /\ Output = View(uart_out_buffer, uart_out_read,
                          (uart_out_write - uart_out_read) % UartSize, UartSize)
         /\ Output \in Seq(-1..MaxCommands)
         /\ Len(Output) = (uart_out_write - uart_out_read) % UartSize
<1>1. /\ UartSize \in Nat \ {0}
      /\ uart_out_buffer \in [0..UartSize-1 -> -1..MaxCommands]
      /\ uart_out_read \in 0..UartSize-1 /\ uart_out_write \in 0..UartSize-1
  BY ParametersHold DEF Parameters, QueueInv, TypeOK, UartType
<1> DEFINE d == (uart_out_write - uart_out_read) % UartSize
<1>2. d \in 0..UartSize
  <2>1. uart_out_write - uart_out_read \in Int
    BY <1>1
  <2>2. d \in 0..UartSize-1
    BY <1>1, <2>1, Around
  <2> QED  BY <1>1, <2>2
<1>3. Output = View(uart_out_buffer, uart_out_read, d, UartSize)
  BY DEF Output, View
<1> HIDE DEF d
<1>4. Output \in Seq(-1..MaxCommands)
  BY <1>1, <1>2, <1>3, ViewType
<1>5. Len(Output) = d
  BY <1>1, <1>2, <1>3, ViewLength
<1> QED  BY <1>3, <1>4, <1>5 DEF d

(* A byte is stored only when a place is left, behind the older ones.      *)
LEMMA QueuedAppends ==
  ASSUME QueueInv, QueueForUART
  PROVE  Len(Output) < UartSize - 1 /\ Output' = Append(Output, current)
<1>1. /\ UartSize \in Nat \ {0}
      /\ uart_out_buffer \in [0..UartSize-1 -> -1..MaxCommands]
      /\ uart_out_read \in 0..UartSize-1 /\ uart_out_write \in 0..UartSize-1
      /\ (uart_out_write + 1) % UartSize # uart_out_read
      /\ current \in -1..MaxCommands
  BY ParametersHold DEF Parameters, QueueInv, TypeOK, UartType, LoopType, QueueForUART
<1> DEFINE d == (uart_out_write - uart_out_read) % UartSize
           n == d + 1
           g == uart_out_buffer'
<1>2. d \in 0..UartSize-2
  BY <1>1, Fill
<1>3. (((uart_out_write + 1) % UartSize) - uart_out_read) % UartSize = n
  BY <1>1, Fill
<1>4. (uart_out_read + d) % UartSize = uart_out_write
  BY <1>1, Reaches
<1>5. Output = View(uart_out_buffer, uart_out_read, d, UartSize) /\ Len(Output) = d
  BY OutputType
<1>6. Output' = View(g, uart_out_read, n, UartSize)
  <2>1. /\ uart_out_read' = uart_out_read
        /\ uart_out_write' = (uart_out_write + 1) % UartSize
    BY DEF QueueForUART
  <2> HIDE DEF n
  <2>2. (uart_out_write' - uart_out_read') % UartSize = n
    BY <1>3, <2>1
  <2> QED  BY <2>1, <2>2 DEF Output, View
<1>7. /\ g \in [0..UartSize-1 -> -1..MaxCommands] /\ g[uart_out_write] = current
      /\ \A j \in 0..UartSize-1 : j # uart_out_write => g[j] = uart_out_buffer[j]
  BY <1>1 DEF QueueForUART
<1> HIDE DEF d, g
<1>8. /\ n \in 1..UartSize /\ n - 1 = d /\ d < UartSize - 1
      /\ uart_out_read + n - 1 = uart_out_read + d
  BY <1>1, <1>2
<1> HIDE DEF n
<1>9. OneMore(uart_out_buffer, g, uart_out_read, n, UartSize)
  <2>1. SameBut(uart_out_buffer, g, (uart_out_read + n - 1) % UartSize, UartSize)
    BY <1>4, <1>7, <1>8 DEF SameBut
  <2> QED  BY <1>1, <1>7, <1>8, <2>1, ViewAppend
<1> QED  BY <1>4, <1>5, <1>6, <1>7, <1>8, <1>9 DEF OneMore

(* The byte handed over is the oldest.                                     *)
LEMMA SendTakesHead ==
  ASSUME QueueInv, Send
  PROVE  Output # <<>> /\ Output' = Tail(Output)
<1>1. /\ UartSize \in Nat \ {0}
      /\ uart_out_buffer \in [0..UartSize-1 -> -1..MaxCommands]
      /\ uart_out_read \in 0..UartSize-1 /\ uart_out_write \in 0..UartSize-1
      /\ uart_out_read # uart_out_write
  BY ParametersHold DEF Parameters, QueueInv, TypeOK, UartType, Send
<1> DEFINE d == (uart_out_write - uart_out_read) % UartSize
           h == (uart_out_read + 1) % UartSize
<1>2. d \in 1..UartSize-1
  BY <1>1, Drain
<1>3. (uart_out_write - ((uart_out_read + 1) % UartSize)) % UartSize = d - 1
  BY <1>1, Drain
<1>4. Output' = View(uart_out_buffer, h, d - 1, UartSize)
  <2>1. /\ uart_out_buffer' = uart_out_buffer /\ uart_out_read' = h
        /\ uart_out_write' = uart_out_write
    BY DEF Send
  <2> DEFINE m == d - 1
  <2>2. (uart_out_write - h) % UartSize = m
    BY <1>3
  <2> HIDE DEF d, h, m
  <2>3. (uart_out_write' - uart_out_read') % UartSize = m
    BY <2>1, <2>2
  <2> QED  BY <2>1, <2>3 DEF Output, View, m
<1>5. Output = View(uart_out_buffer, uart_out_read, d, UartSize)
  BY OutputType
<1>6. d \in 1..UartSize
  BY <1>1, <1>2
<1> HIDE DEF d
<1>7. /\ View(uart_out_buffer, uart_out_read, d, UartSize) # <<>>
      /\ View(uart_out_buffer, (uart_out_read + 1) % UartSize, d - 1, UartSize)
           = Tail(View(uart_out_buffer, uart_out_read, d, UartSize))
  BY <1>1, <1>6, ViewTail
<1> QED  BY <1>4, <1>5, <1>7

-----------------------------------------------------------------------------
(* Both rings are empty at the start.                                      *)
LEMMA FifoInit == Init => Fifo!Init
<1> SUFFICES ASSUME Init PROVE Fifo!Init
  OBVIOUS
<1>1. QueueInv
  BY QueueInit
<1>2. /\ cmd_q_count = 0 /\ uart_out_write - uart_out_read = 0
      /\ current = 0 /\ arrived = 0 /\ line = -1 /\ (at = "blank") = FALSE
  BY DEF Init, NoCommand, Typed
<1>3. 0 % UartSize = 0
  <2>1. UartSize \in Nat \ {0} /\ 0 \in Int /\ 0 \in 0..UartSize-1
    BY ParametersHold DEF Parameters
  <2> QED  BY <2>1, Around
<1>4. Waiting \in Seq(0..MaxCommands) /\ Len(Waiting) = 0
  BY <1>1, <1>2, WaitingType
<1>5. Output \in Seq(-1..MaxCommands) /\ Len(Output) = 0
  BY <1>1, <1>2, <1>3, OutputType
<1>6. Waiting = <<>> /\ Output = <<>>
  BY <1>4, <1>5, EmptySeq
<1> QED  BY <1>2, <1>6 DEF Fifo!Init, Fifo!NoCommand, Fifo!Typed

(* What leaves the indices and the places alone leaves the sequences alone.*)
LEMMA QueueAlone == UNCHANGED queue => UNCHANGED Waiting
<1> QED  BY DEF queue, Waiting

(* The same of the output.                                                 *)
LEMMA UartAlone == UNCHANGED uart => UNCHANGED Output
<1> QED  BY DEF uart, Output

(* A stored entry is an accepted command.                                  *)
LEMMA PushAccepts ==
  ASSUME QueueInv, TypeOK', ~Full, arrived < MaxCommands,
         NEW kind, NEW python, Push(kind, python),
         arrived' = arrived + 1, UNCHANGED loop, UNCHANGED Output
  PROVE  Fifo!Accept
<1>1. Waiting' = Append(Waiting, arrived + 1)
  BY PushAppends
<1>2. Len(Waiting) < Depth
  <2>1. Len(Waiting) = cmd_q_count
    BY WaitingType
  <2>2. cmd_q_count < Depth
    BY ParametersHold DEF Parameters, Full, QueueInv, TypeOK, QueueType
  <2> QED  BY <2>1, <2>2
<1> QED  BY <1>1, <1>2 DEF Fifo!Accept, loop

(* Every step of the rings is a step of the queues, or none.               *)
LEMMA FifoStep ==
  ASSUME QueueInv, QueueInv', [Next]_vars
  PROVE  [Fifo!Next]_(Fifo!vars)
<1>0. TypeOK'
  BY DEF QueueInv
<1>1. ASSUME NEW kind \in Kinds, SetPendingJCommand(kind)
      PROVE  Fifo!Accept \/ Fifo!Refuse
  <2>1. arrived' = arrived + 1 /\ UNCHANGED loop /\ UNCHANGED Output
    BY <1>1, UartAlone DEF SetPendingJCommand
  <2>2. CASE Full \/ kind = "empty"
    BY <1>1, <2>1, <2>2, QueueAlone DEF SetPendingJCommand, loop, Fifo!Refuse
  <2>3. CASE ~(Full \/ kind = "empty")
    BY <1>0, <1>1, <2>1, <2>3, PushAccepts DEF SetPendingJCommand
  <2> QED  BY <2>2, <2>3
<1>2. ASSUME SetPendingPCommand
      PROVE  Fifo!Accept \/ Fifo!Refuse
  <2>1. arrived' = arrived + 1 /\ UNCHANGED loop /\ UNCHANGED Output
    BY <1>2, UartAlone DEF SetPendingPCommand
  <2>2. CASE Full
    BY <1>2, <2>1, <2>2, QueueAlone DEF SetPendingPCommand, loop, Fifo!Refuse
  <2>3. CASE ~Full
    BY <1>0, <1>2, <2>1, <2>3, PushAccepts DEF SetPendingPCommand
  <2> QED  BY <2>2, <2>3
<1>3. ASSUME ClearPendingCommand PROVE Fifo!Clear
  <2>1. UNCHANGED loop /\ UNCHANGED arrived /\ UNCHANGED Output
    BY <1>3, UartAlone DEF ClearPendingCommand
  <2>2. Waiting' = [i \in 1..0 |-> cmd_queue'[(cmd_q_head' + i - 1) % Depth].id]
    BY <1>3 DEF ClearPendingCommand, Waiting
  <2>3. Waiting' = <<>>
    BY <2>2
  <2> QED  BY <2>1, <2>3 DEF Fifo!Clear, loop
<1>4. ASSUME Consume PROVE Fifo!Run \/ Fifo!Discard
  <2>1. /\ Waiting # <<>>
        /\ Head(Waiting) = cmd_queue[cmd_q_head].id
        /\ Waiting' = Tail(Waiting)
    BY <1>4, ConsumeTakesHead
  <2>2. current = NoCommand /\ at = "pending"
    BY <1>4 DEF Consume, QueueInv, CurrentInv, Executing
  <2>3. UNCHANGED Output /\ UNCHANGED arrived
    BY <1>4, UartAlone DEF Consume
  <2>4. Take(cmd_queue[cmd_q_head])
    BY <1>4 DEF Consume
  <2>5. CASE cmd_queue[cmd_q_head].kind = "run"
    <3>1. current' = Head(Waiting) /\ line' = Head(Waiting) /\ at' = "running"
      BY <2>1, <2>4, <2>5 DEF Take
    <3> QED  BY <2>1, <2>2, <2>3, <3>1 DEF Fifo!Run, Fifo!NoCommand, NoCommand
  <2>6. CASE cmd_queue[cmd_q_head].kind # "run"
    <3>1. UNCHANGED <<current, line>> /\ at' = "blank"
      BY <2>4, <2>6 DEF Take
    <3> QED  BY <2>1, <2>2, <2>3, <3>1 DEF Fifo!Discard, Fifo!NoCommand, NoCommand
  <2> QED  BY <2>5, <2>6
<1>5. ASSUME NonePending PROVE UNCHANGED Fifo!vars
  BY <1>5, QueueAlone, UartAlone DEF NonePending, Fifo!vars
<1>6. ASSUME RunTyped PROVE Fifo!Type \/ Fifo!Skip
  <2>1. UNCHANGED Waiting /\ UNCHANGED Output /\ UNCHANGED arrived
    BY <1>6, QueueAlone, UartAlone DEF RunTyped
  <2>2. current = NoCommand
    BY <1>6 DEF RunTyped, QueueInv, CurrentInv, Executing
  <2>3. line' = -1 /\ (at' = "blank") = FALSE /\ (current' = -1 \/ UNCHANGED current)
    BY <1>6 DEF RunTyped, Typed
  <2> QED  BY <2>1, <2>2, <2>3
              DEF Fifo!Type, Fifo!Skip, Fifo!NoCommand, Fifo!Typed, NoCommand
<1>11. ASSUME NothingTyped PROVE UNCHANGED Fifo!vars
  BY <1>11, QueueAlone, UartAlone DEF NothingTyped, Fifo!vars
<1>12. ASSUME RunLineAgain PROVE Fifo!Repeat \/ Fifo!Skip
  <2>1. UNCHANGED Waiting /\ UNCHANGED Output /\ UNCHANGED arrived /\ UNCHANGED line
    BY <1>12, QueueAlone, UartAlone DEF RunLineAgain
  <2>2. current = NoCommand /\ (at = "blank") = TRUE
    BY <1>12 DEF RunLineAgain, QueueInv, CurrentInv, Executing
  <2>3. (at' = "blank") = FALSE /\ (current' = line \/ UNCHANGED current)
    BY <1>12 DEF RunLineAgain
  <2> QED  BY <2>1, <2>2, <2>3
              DEF Fifo!Repeat, Fifo!Skip, Fifo!NoCommand, NoCommand
<1>7. ASSUME Return PROVE Fifo!Return
  <2>1. UNCHANGED Waiting /\ UNCHANGED Output /\ UNCHANGED arrived /\ UNCHANGED line
    BY <1>7, QueueAlone, UartAlone DEF Return
  <2>2. current # NoCommand /\ current' = NoCommand
    BY <1>7 DEF Return, QueueInv, CurrentInv
  <2>3. UNCHANGED (at = "blank")
    BY <1>7 DEF Return, Executing
  <2> QED  BY <2>1, <2>2, <2>3 DEF Fifo!Return, Fifo!NoCommand, NoCommand
<1>8. ASSUME QueueForUART PROVE Fifo!QueueForUART
  <2>1. Len(Output) < UartSize - 1 /\ Output' = Append(Output, current)
    BY <1>8, QueuedAppends
  <2>2. UNCHANGED Waiting /\ UNCHANGED arrived
    BY <1>8, QueueAlone DEF QueueForUART
  <2>3. current # NoCommand /\ UNCHANGED loop
    BY <1>8 DEF QueueForUART, QueueInv, CurrentInv, loop
  <2> QED  BY <2>1, <2>2, <2>3
              DEF Fifo!QueueForUART, Fifo!NoCommand, NoCommand, loop
<1>9. ASSUME Send PROVE Fifo!Send
  <2>1. Output # <<>> /\ Output' = Tail(Output)
    BY <1>9, SendTakesHead
  <2>2. UNCHANGED Waiting /\ UNCHANGED loop /\ UNCHANGED arrived
    BY <1>9, QueueAlone DEF Send
  <2> QED  BY <2>1, <2>2 DEF Fifo!Send, loop
<1>10. ASSUME UNCHANGED vars PROVE UNCHANGED Fifo!vars
  BY <1>10, QueueAlone, UartAlone DEF vars, loop, Fifo!vars
<1> QED  BY <1>1, <1>2, <1>3, <1>4, <1>5, <1>6, <1>7, <1>8, <1>9, <1>10,
            <1>11, <1>12 DEF Next, Arrive, Loop, Fifo!Next

(* RingsAreQueues, for every depth, every size of the output ring and any  *)
(* number of commands: the ring of pending commands and the ring of output *)
(* bytes implement bounded queues.                                         *)
THEOREM RingsImplementQueues == Spec => RingsAreQueues
<1>1. Init => QueueInv
  BY QueueInit
<1>2. QueueInv /\ [Next]_vars => QueueInv'
  BY QueueStep
<1>3. Init => Fifo!Init
  BY FifoInit
<1>4. QueueInv /\ QueueInv' /\ [Next]_vars => [Fifo!Next]_(Fifo!vars)
  BY FifoStep
<1> QED  BY <1>1, <1>2, <1>3, <1>4, PTL DEF Spec, Fifo!Spec, RingsAreQueues
=============================================================================
