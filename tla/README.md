# A TLA+ model of the JumperlOS firmware

JumperlOS is the firmware of the Jumperless board: an RP2350 that connects the
rows of a breadboard through twelve CH446Q crosspoint switches, lights an LED
under every row and talks to a host over USB serial ports. The code that is the
board's own logic is `src/src/*.cpp`; `src/lib` holds vendored libraries
(MicroPython, TinyUSB, display and sensor drivers), `src/CodeDocs` notes,
`src/scripts` and `src/examples` host tools.

The modules in this directory are written from that code. `PROJECT.json` names
for each definition the lines it stands for.

## The system

Two cores run different loops. *Core 0* runs `loop()`: the serial menu, the
commands, the router, the slots, flash, Python. The other core, which the source
calls *Core 2*, runs `loop1()`: it programs the crosspoint switches from the path
table and draws the LEDs from the same table. They share memory, about a dozen
volatile flags, and two mutexes (`core_sync` for the shared buffers, `fs_mutex`
for the file system).

| component | state it keeps | operations | hard behaviour | what makes it correct |
|---|---|---|---|---|
| Cross-core handshake (`main.cpp`, `Commands.cpp`, `externVars.cpp`) | `core1busy`, `core2busy`, `pauseCore2`, `sendAllPathsCore2`, `showLEDsCore2`, `core_sync` | `loop1`, `core2stuff`, `waitCore2`, `refreshConnections`, `refreshLocalConnections`, the flash pause | every interleaving of the cores; waits with deadlines; a request acknowledged twice | a send never reads a half-rebuilt table; requests are served; flags and mutex are given back on every path |
| Command injection (`CommandBuffer.cpp`) | ring of three pending commands, one consumed entry, ring of UART response bytes | `setPendingCommand*`, `consumePendingCommand`, `writeUARTResponse`, `sendPendingUARTResponses` | a full queue, an entry overwritten while it is referenced, a routing flag that outlives its command | commands run once, in order, never altered; the answer goes where the command came from |
| Serial passthrough (`AsyncPassthrough.cpp`) | tag parser, byte rings | `<j>` and `<p>` tags in the UART stream | a tag split over two reads, a queue full at the closing tag | bytes outside tags pass, bytes inside never do |
| Net manager (`NetManager.cpp`) | nets, bridges, special nets | `getNodesToConnect`, add, remove, merge | merging under do-not-intersect rules | nets are the connected components of the bridges, less the refused ones |
| Router (`NetsToChipConnections.cpp`) | path table, chip states | `bridgesToPaths` | alternative paths, hops | every path joins its two nodes, no two nets meet |
| Crossbar driver (`CH446Q.cpp`) | `lastChipXY`, per-chip states | `sendPaths`, `sendXYraw`, refresh | the incremental diff against what was last sent | the chips end up with exactly the table's connections |
| Undo history (`Undo.cpp`) | ring of operations, ring of transactions, a cursor per slot | begin, record, end, undo, redo, scrub | eviction at both rings, a redo tail, several slots in one ring | undo then redo is the identity; no live transaction refers to an overwritten operation |
| Slots and saved state (`States.cpp`, `FileParsing.cpp`, `USBfs.cpp`) | a file per slot, one board in memory, three numbers for the slot in use, dirty flag, preview, Python backup | load, save, autosave, preview, temporary slot, delete, import, mount by a host | a save that fails, power cuts, a host that writes, previews and apps that borrow the board | what the user made last is stored or still in memory, in its own slot |
| Service and context manager (`JumperlOS.cpp`) | service table, context stack | `serviceAll`, push, pop, suspend | re-entrancy, callbacks under `core_sync` | a service is not entered twice; contexts nest |
| Shared buffer (`SharedBuffer.cpp`) | one buffer, length, file name | write, append, clear | length checked before the lock | never past capacity |
| PSRAM arena (`PsramArena.cpp`) | free list | alloc, free | split and merge | blocks never overlap |
| File access (`FilesystemStuff.cpp`, `externVars.cpp`, `PersistentStuff.cpp`) | `fs_mutex`, its owner and depth, open file flag | `safeFileOpen` ... `safeFileClose`, EEPROM commit | a pause of Core 2 around each flash write | Core 2 does not execute from flash while it is written |
| Time-domain multiplexer (`TimeDomainMultiplexer.cpp`) | connection sets, phase | start, tick, stop | switching while a refresh runs | at most one set is connected |
| Fake GPIO (`FakeGpio.cpp`) | pins, their crosspoints | set, read, update | posts bypass requests of its own | a pin is connected to one rail |
| LED rendering, menus and apps, probing, wave generator, logic analyzer, Python, serial ports, configuration | | | | see `PROJECT.json`; user interface, streaming to hardware or text, not planned |

They interact as follows. A command (typed, or injected through the command
ring by the serial passthrough or Python) edits the bridges in `globalState` and
calls a refresh. The refresh forms nets, routes them into the path table and
posts `sendAllPathsCore2` to Core 2; Core 2 sends the table to the chips and
clears the request. An LED request `showLEDsCore2` makes it draw a frame from the
same table. Anything that writes flash pauses Core 2 first. The undo history
records each edit and replays the inverse; a slot is saved when the state is dirty.

## Modules

| module | what it is |
|---|---|
| `CrossCore` | the handshake between the two cores |
| `MCCrossCore` | the values of `CrossCore`'s constants for TLC |
| `CrossCore_proofs` | theorems about `CrossCore` and their proofs |
| `CommandFifo` | what the command buffer promises: two bounded queues and a running command |
| `CommandQueue` | the command buffer's two rings and the main loop that uses them; implements `CommandFifo` |
| `RingIndex` | lemmas about indices that wrap and the sequences a ring holds |
| `CommandQueue_proofs` | theorems about `CommandQueue` |
| `TagParser` | the parser of `<j>` and `<p>` in the serial stream |
| `TagParser_proofs` | theorems about `TagParser` |
| `Histories` | what the undo log promises: for each slot a list of changes and a place in it |
| `UndoRing` | the rings, cursors and captures of the undo log with the slots' boards; implements `Histories` |
| `MCUndoRing` | the symmetry and the view of `UndoRing` for TLC |
| `UndoRing_proofs` | theorems about `UndoRing`, with lemmas about ages in a ring and the timeline of a slot |
| `SlotManager` | the slot files, the board in memory and everything that loads, saves, borrows or deletes a slot |
| `MCSlotManager` | two slots and a view for TLC |
| `SlotManager_proofs` | theorems about `SlotManager` |
| `NetManager` | from bridges to nets, names and the router's list |
| `MCNetManager` | three rails, a pin, four rows and what may not be joined, for TLC |
| `NetManager_proofs` | theorems about `NetManager`, with the induction that its reachability needs |
| `Crossbar` | the driver of the crosspoint switches, byte by byte, on both cores |
| `MCCrossbar` | three boards and three directly written crosspoints for TLC |
| `Crossbar_proofs` | theorems about `Crossbar` |

### CrossCore

*State.* `flag` is a record of the volatile flags and of `core_sync`'s owner.
`paths` is the path table: for each entry, the number of the edit of the bridges
it was routed from, or `Cleared` between `clearAllNTCC` and the routing.
`bridges` is the number of the current edit. `crossbar` is what the chips were
last given, entry by entry, and `netColors` the table the last netlist frame
read. Each core has a program counter and the registers it keeps from one step to
the next (`r0`, `r2`).

*Steps.* One action is what a core does between two accesses that the other core
can tell apart, so a loop over two flags is two steps, `x = f(x)` on a shared flag
is a load and a store, and the routing and the send are one step per entry.

- Core 0: `refreshConnections` is `CallRefresh`, `WaitCore2Busy`, `WaitCore2Sent`,
  `Pause`, `ClearPaths`, `RoutePath`, `Unpause`, `PostSend`, `WaitDone`,
  `PostLeds`, the same wait again and `ReadTermColors`;
  `refreshLocalConnections` is `CallRefreshLocal`, `LocalWait`, `ClearPaths`,
  `RoutePath`, `LocalPost`, `LocalPostLeds`, and, for the callers that add it
  (`localWait`), the `waitCore2` after it. A flash operation is `CallFlash`,
  `FlashWait`, `FlashPark`, `FlashEnd`. `CallShared`, `CoreSyncAcquire` and
  `CoreSyncRelease` are a section of the shared buffer or the context manager,
  `CallLeds` a menu's own LED request. The deadlines are actions of their own,
  each present only when its name is in `Timeouts`.
- Core 2: `LoopPaused`, `PausedBypass` and the captures are `loop1`;
  `EnterCore2stuff` to `IdlePass` and `ReleaseLock`, `SkipAdc`, `ReadAdc` are
  `core2stuff`'s pass; `SendStart` to `SendRelease` are `sendPaths` and its three
  call sites; `StartLedFrame` to `FrameEnd` are the LED branch with `showNets`,
  the menu frame and the clearing of the request.
- While `idleOtherCore` parks Core 2 (`pc0 = "flash"`) it takes no step.

*What is abstracted.* Which nets and paths come of the bridges (a table entry is
only "of edit n"); the pixels; the values of the three timers of the frame
scheduler (a pass may skip, a logo tick may fall due). The probe's reads, the
encoder and the measurements between the flags touch nothing modelled.
The load, test and store with which `loop1` takes a request out of `showLEDsCore2` are one load and one
store (`DecodeLoad`), although the code tests twice (`main.cpp:1583-1593`); the branch of a swirl's end that shows
the LEDs without `showNets` (`:1634-1642`) is taken for the one with it (`EndSwirl`); the
dump of the LEDs to a terminal (`:1477-1492`), in which Core 2 too raises and lowers
`core1busy` and `core2busy`, is left out, so `FlagsRestored` speaks of a board that is not dumping.
`loadingFile` is taken as 0 and `refreshInProgress` cannot be met by a second
call, because no service called from a wait was found to start a refresh;
nested flash pauses are left to a later module.

### Runs of CrossCore

| run | asks | bounds |
|---|---|---|
| `crosscore_waiting` | do the cores ever meet in the path table? `SendReadsWholeTable`: no entry that a send reads belongs to an unfinished rebuild. `CrossbarWhole`: outside a send the chips hold one routing. `CoreSyncHeld`: the mutex is held exactly where the code thinks, through every early return | two table entries (the least with a half-rebuilt table), two operations out of refresh, waited local refresh, flash, shared buffer and LED request, LED requests 1, -1 and 12 (netlist, clear-first, blocking menu) |
| `crosscore_live` | are posted requests served? `PostedIsProgrammed`, `NetsRequestServed`, and `BypassServed` for the request that the paused loop serves without the mutex | two operations out of refresh, bare local refresh, flash and shared buffer, one capture, one table entry (which entry is served does not matter here), both cores fair |
| `crosscore_timeouts` | does Core 0 return, flags restored, if Core 2 hangs? `RefreshReturns`, `FlagsRestored` | two operations, one entry, every deadline able to pass, only Core 0 fair |

Two operations are enough for every pair to meet: what one call leaves behind
(a request still pending, a flag forced) is met by the next. A third would repeat
a pair. Two entries suffice because `Whole` compares entries pairwise and the
loops treat all middle entries alike.

*Fairness.* `Core0Fair`: Core 0 keeps running, and a deadline that has passed
stays passed while `waitCore2` goes round its loop, hence `SF` for
`WaitCore2Timeout`. `BothFair` adds: Core 2 keeps running (it is a bare loop on
its own core); a capture ends; and the frame scheduler's interval, once elapsed,
stays elapsed until a pass acts on it, hence `SF` for `StartSend` and
`StartLedFrame`, which a pass may skip while the interval runs.

*Two operations kept out of `crosscore_waiting`.* The safety of the table rests on
waiting. The bare `refreshLocalConnections` and the deadlines that abandon a wait
(25 ms and 1000 ms) really break it; `Waiting` in `CrossCore_proofs` excludes
exactly those; what the first does is below. The
200 ms and the flash deadlines need no exclusion in the proofs.

### What the source says and the code does not do

Met while modelling, and not among the runs:

- "The next refresh will check core2busy flag before starting, ensuring proper
  sequencing" (`Commands.cpp:475`): the flag rises only when Core 2 has started the
  send, so a second local refresh rebuilds the table under the first one's send.
- "Wait for core 2 to actually process the sendAllPathsCore2 signal"
  (`Commands.cpp:186`): the request is cleared twice per send, and the second store
  may erase a new one, which Core 0 then takes for served.
- A frame may start between the wait that is to "finish any LED rendering before
  modifying shared data" and the pause (`Commands.cpp:137`); `waitCore2` does not look
  at the LED request, so the terminal's colors may be read before the frame that
  computes them (`Commands.cpp:212`); `showNets` lowers `core2busy` inside the bracket
  that `core2stuff` opens around the frame (`main.cpp:1704`).

### What is proved of CrossCore

For every number of paths, calls, captures and every set of LED requests, from
`CrossCoreAssumption` alone:

- `TypeCorrect`: `Spec => []TypeOK`.
- `CoreSyncCorrect`: `Spec => []CoreSyncHeld`, with every operation and every
  deadline allowed. `CoreSyncHeld` is inductive together with `TypeOK`.
- `FlagsRestoredCorrect`: `Spec => []FlagsRestored`, likewise without a condition.
  `RestoreInv` says where in Core 0's code each flag may be up: `pauseCore2` only from
  a full refresh's pause to its unpause and in a flash operation (`PauseInv`),
  `core1busy` only during a rebuild (`BusyInv`). The two refreshes share the code of
  the rebuild, so it must also say which one is running (`RefreshInv`): a local refresh
  that met a raised `pauseCore2` would leave it up. And a flash operation always saves a
  lowered flag, which is why it may restore what it saved.

and under the further assumption `Waiting` (no bare local refresh, no 25 ms and no
1000 ms deadline):

- `SendReadsWholeTableCorrect`: `Spec => []SendReadsWholeTable`.
- `CrossbarWholeCorrect`: `Spec => []CrossbarWhole`.

Neither is inductive. `HandshakeInv` strengthens them with five parts: which calls
and return points can occur (`CallInv`); that a request not yet acknowledged
implies Core 0 is in one of the waits for it (`PendingInv`); that Core 2 is in a
send only while its request is pending or being acknowledged and Core 0 is there
too (`ServingInv`); that the table is whole except between the clear and the end of
the routing, up to the index reached (`TableInv`); and that the crossbar agrees
with the table up to the index sent, and is whole outside a send (`CrossbarInv`).
The point of the argument is the second acknowledgement: it may come after
Core 0 has gone on and posted again, so `PendingInv` cannot say "request pending"
alone. Each part has its own step lemma; `HandshakeStep` joins them.

Liveness is model-checked only: the prover does not handle fairness. The same holds of `AcceptedLeaves` below.

### CommandQueue

*State.* The fields of `CommandBuffer`; `at`, where `loop()` is: looking for a
pending command, for a typed one, for a typed one behind a discarded blank command,
`"running"` the command just taken (main.cpp:1022) or `"executing"` a line further
down (1162); `current`, the command it runs; `line`, what the globals
`currentCommandLine` and `input` still hold: the line run last. A command is the number of its closing tag, so order,
repetition and confusion show; its text is one of three kinds, because the loop
asks only whether it is empty (`setPendingJCommand` refuses it), blank (consumed but
not run) or runnable. A byte of output is the number of the command that printed it.

*Steps.* `SetPendingJCommand`, `SetPendingPCommand`, `ClearPendingCommand`, `Consume`,
`Print` (`queueForUART`, byte by byte) and `Send` (`sendPendingUARTResponses`) are the
functions of those names. Everything runs on Core 0, but a command calls the
service rota while it waits, so every one of them may come while a command runs.
`NonePending`, `RunTyped`, `NothingTyped`, `RunLineAgain` and `Return` are the rest
of `loop()`. `RunLineAgain` is the way behind a blank injected command: it is consumed
and not run, but the control does not leave; with nothing typed it falls through to
`executeCommand((char)input, currentCommandLine)` (main.cpp:1162), which runs the
previous line a second time. The model lets it run or not (a handler may have blanked
`input`, a `?` may be typed behind it).

*Abstract specification.* `CommandFifo` has a sequence of waiting commands, the
running command, the line run last and a sequence of output bytes. It promises order
and no loss, and no repetition but that of the line before a discarded command, once:
`Repeat` needs `again`, which only `Discard` raises. The refinement reads `cmd_q_count`
entries from `cmd_q_head` on, and the bytes from `uart_out_read` to `uart_out_write`.
The capacity of the output is one less than the ring's size.

| run | asks | bounds |
|---|---|---|
| `queue` | do the rings implement the queues (`RingsAreQueues`)? does an accepted command leave (`AcceptedLeaves`)? | `Depth` 2, an output ring of 3 (the least in which full, empty and neither differ), four commands: enough for the ring to fill, refuse and wrap |

The fairness is `WF_vars(Loop)`: `loop()` is called forever by the Arduino core, and
a command handler returns. Nothing is assumed of the arrival of commands.

Three disagreements with the source: the routing flag is "Set by AsyncPassthrough
when command originates from UART" (`CommandBuffer.h:156`); it outlives a blank
command and routes the output of the line that runs next. "Validate command has
printable content before processing. This prevents garbled/corrupted serial data from
reaching command handlers" (`main.cpp:1002`): the garbled command does not reach one,
but it makes the previous line reach its handler again. And "Reset state but don't lose the command"
(`AsyncPassthrough.cpp:1165`), where the refused command is lost.

*Proved*, for every depth, ring size and number of commands, from
`CommandQueueAssumption`: `TypeCorrect`; and `RingsImplementQueues` (`Spec => RingsAreQueues`, the
refinement). The invariant `QueueInv` adds to the types that the tail is the head
plus the count, around the ring (`IndexInv`), that no stored number is larger than
the last one that came (`NumberInv`), and that a command runs exactly where the loop
says so, and the line kept for a second run has come (`CurrentInv`). Each step then maps to a step of
`CommandFifo` by the lemmas of `RingIndex`: storing behind the last element
appends, advancing the reader takes the tail.

### TagParser

*State.* `parser` is the `TagParserState`, with of `command_buffer` only the number of
its bytes and whether the first is an inserted `>`. `enabled` is
`asyncPassthroughTagParsingEnabled`. `stream` remembers about the bytes the parser was
given what the properties need: whether a tag was opened since the last injection and
which; whether a byte since then is not in the command, and whether such a one
precedes one that is; how many plain bytes came last. The bytes are those the code compares with, and one that
stands for all others. `"j"` stands for the two long spellings too, which the
code treats as `j` is treated.

*Steps.* One action per way through `process_command_tag_byte`. `RefuseCommand` joins
its four refusals (startup, cooldown, file system busy, queue full), which have
the same effect on the parser. `RuntimeCommand` and `Flash` are the two ways
parsing is switched; only the second clears the parser.

| run | asks | bounds |
|---|---|---|
| `tagparser` | `TypeOK`: no buffer is outgrown. `Recovers`: a lost closing tag does not hold the parser. `InjectionHasNoHole`: a command may be cut short, never spliced. `InjectionIsEarned`: one injection per opening tag, under its name | names of 2 (a closing tag fits, a longer name overflows), commands of 3 (with and without room for the `>`), limit 8 (more than any whole command, so that both ends of a command occur) |

Three disagreements with the source: a `j` command is a "raw command, like typing in
terminal" (`CommandBuffer.h:57`); after a `<p>` that was refused it gets the `>`. "The entire command will be injected at once when closing tag is
detected" (`AsyncPassthrough.cpp:1247`), where a `<` in the command ends it; and "Not a
command tag, forward the whole thing" (`:1206`), of which strip mode forwards the `>`.

*Proved*, for every buffer size, limit and configuration: `TypeCorrect`, `EarnedAlways`,
`RecoversAlways` and `NoHoleAlways`. For the second the invariant `Earned` says that a
command under way stands under the tag last opened. The invariant `Steady` relates
parser and stream: every plain byte read outside plain text was counted
(`CountsPlain`), and while the parser may store, no byte was skipped unless the
buffer is full (`NoHole`). Bytes that pass while parsing is off are none of the
parser's: a command may be spliced around such a pause, which no property denies.

### UndoRing

*State.* `log` holds `Undo.cpp`'s globals: the two rings with their heads and tails,
`g_slotCursor`, `g_activeSlot`, and the open transaction (`open` is the slot it
belongs to, or `None`; `opStart` its first operation). `arena` has the captures whose
bytes are intact, by offset, and `g_blobUsed`. `netSlot` is the slot in use, `board`
the board of each slot, of which the one in use is `globalState`. A board is a
set of bridges and a voltage for each DAC. Three things are there for the properties only: the
boards before and after each transaction (`change`, `opened`), the board a clearing
captured, and `torn`: the slots whose history lost a transaction that
they had undone, that undid a clearing whose capture was gone, or whose history
took in a change made in a guest slot (`Misplaced`).

*Steps.* One action per public call. `addConnection`, `removeConnection`,
`clearAllConnections` and `setVoltage` are the hooks of `States.cpp` with all that
recording does: follow `netSlot`, drop the redo, evict, append, close.
`BeginBundle` and `EndBundle` bracket what the rail menu does. Their operators take the log
and return it, in the order of the code. `Look` is what each query (`undoCanUndo`, ...)
does before it answers, `stale` whether an open transaction has been quiet for 200 ms;
`soon` in `setVoltage` whether the slide is still on.

*What is abstracted.* Bridges that differ only in duplicates or color, which
the log does not bring back; the locked connections that a clearing puts back
afterwards, each recorded by itself; labels, waypoints, the snapshot list (its newest entry is the
capture a clearing uses). A capture's size counts its bridges, and is assumed to
fit the arena. Loading and saving slots, restoring a temporary one and reading the
persisted history replace a board without a record; `SlotManager` has them without
the history, and what the history means after them is in neither.

| run | asks | bounds |
|---|---|---|
| `undo` | `OpsKept`: eviction at either ring takes whole transactions, so none that can be reached has lost an operation. `CursorsInRing`: no cursor is left behind the tail. `BoardAtPlace`: undo and redo bring back the boards that were. `HistoriesApart`: sharing the rings, each slot has a history of its own, of which one step forgets at most the oldest change | two slots; rings of two operations and two transactions, so both fill, each may be the first to, and the fourth change writes over the first; bundles of two, the most the program makes; one bridge and one DAC with two voltages; an arena in which a second capture of a wired board comes round; no guest |

The slots are symmetric. The view leaves out what no step and no property reads: places outside
the rings, what the last open transaction was, captures no live operation refers to.

*What the source says and the code does not do.* "The active slot is
always == netSlot at the moment of recording" (`Undo.cpp:2072`). The apps' slot 8 and
Python's are out of the range that `slotSwapIfNeeded` follows, so what is connected there is
recorded for the slot used before, and can later be "undone" on its board.
A capture is "always live", or fails validation and is left alone
(`Undo.cpp:511`). When the arena comes round, a newer capture lies at offset 0 with
a valid header, and undoing the older clearing restores the newer one's board.

*Proved* (`UndoRing_proofs`), for any slots, guests and boards, any capacity of the rings from two
places on, and bundles that do not fill the ring of operations (`UndoRingAssumption`):
`CursorsInRingCorrect` and `OpsKeptCorrect`. Neither invariant is inductive. `LogInv`, of the log
alone, is: beside the two it says that the ring of operations holds the transactions in the order of their
age, none overlapping the next, the open one last and nothing behind the head (`Ordered`), and that an open
transaction is the active slot's and has a place in the ring of transactions (`OpenInv`). From `Ordered`,
taking the oldest transaction out takes exactly the oldest operations; an append then overwrites a
place no other transaction has. When the open transaction is the only one left, `appendOp` moves the tail
by itself, and a bundle shorter than the ring is what keeps its own first operation. There is one lemma for each
operator (`EvictInv`, `EndInv`, `BeginInv`, `AppendInv`, ...), and the steps compose them. Ages in a ring
(`AgeNext`, `AgeMoved`, ...) carry the arithmetic; `Oldest` and `Youngest` show that the walks of
`undoRedo` and `undoUndo` find a transaction.

`TypeCorrect`: with the types, that undoing and redoing make boards of boards. `Applied` and `Reverted` are values
of functions defined from place to place; that they go through boards (`AppliedIs`, `RevertedIs`) is an induction
over the places, made from a least counterexample (`AllNumbers`), since the provers cannot use a theorem that takes a predicate.

`BoardAtPlaceCorrect`: a slot whose history is whole stands where its history says. The property speaks of the two
transactions next to the cursor; an undo or a redo moves the cursor to the next ones, so the invariant has to
speak of all of them. `PastInv` says of every slot that is not torn that it has a past (`HasPast`): a timeline of boards, one before
and after each age in the ring, which every transaction of the slot carries on by its operations, each
knowing what it changed (`Turns`), and which a transaction of another slot leaves as it is; and that the slot's
board is the timeline's at the slot's cursor or, while its transaction is open, what the operations so far have made
of the one at the head. `AppliesDoes` and `RevertsDoes` show that redoing leads from one board of the timeline to the next and undoing back; an
eviction cuts the timeline's first board off (`EvictPast`), dropping the redo makes it stay at the cursor's from there
on (`DropOwnPast`), a close adds one (`EndPast`), a slide moves the last (`RetargetPast`). TLC checked the timeline on the
run's instance first, with and without a guest slot. In the theorem the guests, which the run leaves out, are there:
what is recorded in one tears the active slot's history, and no other.

`HistoriesApart` is model-checked only: the mapping picks a slot's transactions out of the ring with `SelectSeq`, a recursive definition over
sequences, of which the provers know nothing.

### SlotManager

*State.* `mgr` is what the functions of the manager change: the slot files, the board
(`activeState`), its dirty flag, `activeSlotNumber`, `netSlot`, the last answer and the
number of reads and writes that have failed. `preview`, `original` and `python` are
what the menu, an app and a Python session remember; `host` whether a computer has
mounted the drive; `mode` what has the main loop. A board is a set of wires, of which
one, `OutOfRange`, stands for a setting that `validate` rejects and only a file written by
the host can have, with or without connections besides. For the properties there are `work`, what
the user last made in each slot, and `home`, the slot one was on when the menu or an app was entered.

*Steps.* The functions (`loadSlot`, `saveSlot`, `deleteSlot`, ...) are operators from a state of the
manager to the set of states it may come back with, failures included: a read that
cannot open its file; a write that fails before or after the file was cut; a file that parses
but does not validate, which has by then replaced the board. A handler composes them in the
code's order. A rejected file with connections leaves the board dirty (`States.cpp:1275`, `:1599`,
`:1427`), so that the autosave takes it for work. The properties do not: what a rejected file
leaves on the board, and edits made on top of it, are nobody's work (`Edited`). The host writes any board
to any slot's file, Python's included. One action per command (`cycleSlots`, `LoadFile`, `saveStateToSlot`,
`inputNodeFileList`), per menu entry (`previewSlot`, `cancelPreview`, `applyPreview`,
`saveCurrentSlotToSlot`, `clearSlot`), for the apps, the Python session and its
bindings, the host, the autosave and the power.

*Works and Keeps.* An action that in the code drops or misplaces unsaved work says when
(`Keeps(lost)`): there `work` becomes what is left. So `WorkKept` says that the *other*
ways are safe, and the lines below are the list of those that are not.
`AutoSave` is one of them: it does not validate what it writes.

| run | asks | bounds |
|---|---|---|
| `slots` | `WorkKept`: what the user last made in a slot is in its file or is the unsaved board. `CleanIsStored`: a successful step never leaves a clean board that differs from its file, which no autosave would write. `ReturnsToSlot`: menus and apps lead back. `EditsStored`: edits do not stay unsaved while the device is idle | two numbered slots and the Python slot, one wire, one fault, one file written by the host; any number of everything else |
| `slots_switch` | `SwitchKeepsEdits`, a comment of the source the code does not keep | the same |

A second fault or host write would only repeat what the first, at any place, does. The
view leaves out the last answer and what a mode that has been left had remembered.
The fairness is `WF_vars(AutoSave)`: the service runs in every pass of `loop()`, and the
idle time it waits for comes when nothing is touched.

*Finding*, `slots_switch`: "Big events (clear-all, slot switch, ...) already call
fileCacheFlushNowAll() which invokes saveSlot synchronously" (`States.cpp:4126`), as
`loadSlot` does lest "the user's work since their last commit would be lost" (`:2801`). With the
file cache compiled out that function saves nothing. Highlighting a slot in the menu
drops the edits that were not autosaved yet; cancelling brings back the old file.

*Other ways to lose work*, each the condition of a `Keeps`: a slot whose file the host has
broken is highlighted or loaded, the answer is an error and the numbers stay, but the board is that of the broken file and is
dirty, and the autosave writes it over the slot in use, without the validation that the other
saves make (`States.cpp:4146`); deleting the active slot leaves
`activeSlotNumber` at -1 and `netSlot` at 0, so the next edit is autosaved over slot 0
(`States.cpp:3040`, `:4139`); `switch_slot` from Python changes `netSlot` only, and the autosave
writes the old board over the new slot (`JumperlessMicroPythonAPI.cpp:1559`); an app entered
from a slot without a file leaves the app's board on it (`States.cpp:3124`), and a failed save on
entry is ignored (`:3091`); "Save to" loads the slot's file first and so saves it without the
unsaved edits (`FileParsing.cpp:864`); taking the drive back reloads the slot and drops
edits, although "we'll save when USB is unmounted" (`States.cpp:4173`); `<n>` with unsaved edits
saves them, which sets `netSlot` back, and loads the slot it was on (`main.cpp:1222`), where
`SingleCharCommands.cpp:952` calls this "direct slot selection"; the end of an isolated
Python session puts the user's old board over the Python slot it just wrote (its number is
still `netSlot`), though `Python_Proper.cpp:1604` says "Connections cleared on exit (saved to
slots/slotPython.yaml)"; a multi-line script in such a session takes the entry slot anew, as
99 (`Python_Proper.cpp:2094`). The mirror that `loadSlot` would read when a file does not parse
(`States.cpp:2838`) is written by nothing in this build.

*Proved* (`SlotManager_proofs`), for any slots, wires, faults and files of the host, from
`SlotManagerAssumption` (the numbers of the app's slot, of Python's and of none are not those of a slot):
`TypeCorrect`, `WorkKeptCorrect`, `CleanIsStoredCorrect` and `ReturnsToSlotCorrect`. `WorkKept`
says of each slot that the work is in its file or on the board. The inductive `IInv` says which of the two: `work` is
exactly `Left(mgr)`, the files with the unsaved board over its own slot. The rest is what the three borrowers
rely on: an app has a way back (`InApp`); the menu's board holds no edits (it is clean, or a rejected
file's), and the previewed slot is the one in use (`InMenu`), so that showing another loses nothing but what the finding says; a Python session has a backup
(`InPython`). Each operator that may come back in several states has a lemma on all of
them (`Reads`, `Loads`, `Saves`, `Deletes`, `Restores`, `Reloads`); the handlers compose those. `EditsStored` is liveness
and only model-checked.

### NetManager

*State.* `bridges` is the user's list; `nets` the nets by number, each with its set of nodes, of
bridges, and its first node; `next` the bridge a refresh is at; `names` the custom names
(a net's number and first node); `gpioNet` the net each pin is shown on; `paths` what
the router is given. `behind` is the net that a merge may leave under the last number behind a hole. `dropped`
remembers, for the properties, that the end of an array was met since the refresh began.

*Steps.* Edits; then a refresh bridge by bridge: `StartRefresh` (`clearAllNTCC`, `initNets`),
one of `SameNet`, `TwoNets`, `TwoRails`, `OneNet`, `NoNet` for each bridge (`searchExistingNets`),
and `FinishRefresh` (`reconcileAfterRebuild`, `sortPathsByNet`). `Merge` is `combineNets` with the
shift of the numbers (`Shifted`).

*The ends of the arrays.* The code watches none of them, and the model follows it there:
- a 41st node or bridge of a net is written over the fields behind the array (`findFirstUnusedBridgeIndex` runs to
  `MAX_BRIDGES`, 128, over the 40 places, so that bridges first land in the refusal list and the other fields). In the
  model it counts as lost (`Added`), any of the newcomers;
- with all 59 numbers in use a new net is written to place 127 of 60 (`createNewNet`, `NoPlace`);
- `shiftNets` looks for the last net from 58 down (`NetManager.cpp:674`): with 59 in use a merge leaves it where it is,
  behind a hole at which `searchExistingNets` stops, and when 59 is the one merged away, 58 is cleared in its
  place (`Shifted`, `behind`). The next bridge may then put a node into a second net;
- net 59 is never handed to the router (`sortPathsByNet`).

What a write outside an array destroys is not modelled. After the first three `dropped` holds, and until the next
refresh no property promises anything but its type; the fourth is in `PathsAreBridges`. So that this is not a way out of
the claims, `ShortListsFit` says when it cannot happen: with at most 39 bridges (fewer than `MAX_NODES`, and fewer than
numbers less the five rails' and one).

| run | asks | bounds |
|---|---|---|
| `nets` | `NodesApart`, `RailsApart`: no node in two nets, no two rails in one, at every step of a rebuild. `NetsAreComponents`: the nets are what their bridges connect, against a reachability of its own. `NamesAnchored`: names stay with their nodes. `PathsAreBridges`: the router gets every bridge under its net's number, and no other. All until the end of an array is met, and `ShortListsFit`: a short list meets none | three rails of which one pair is not forbidden directly, one pin, seven rows, ten possible bridges, lists of up to five; nets of at most four nodes and three bridges, and numbers 1 to 6, so that nets overflow, the last number is used, left behind by a merge, and missing; one name; one edit between refreshes |
| `nets_rules` | `RulesKept`, a comment of the source the code does not keep | the same |

Five bridges are what two merges need with the last number in use: three nets of rows beside three rails, a bridge
between two of them, and one more onto the rest. Two edits between
two refreshes differ from one in the list only, and all lists occur.

*Finding*, `nets_rules`: "make sure none of the nodes on the net violate doNotIntersect rules"
(`NetManager.h:68`). The table of forbidden pairs is asked about the two ends of a new bridge only; a
GPIO pin, a row and a rail are joined by two allowed ones.

*Others*: after a rebuild a name may go to the net whose number equals the number of its
lost node, for `findNodeInNet` compares a node with `gpioNet`'s net numbers (`NetManager.cpp:745`;
`States.cpp:380` says "Use firstNode to find where each custom entry's net ended up");
`gpioNet` keeps the numbers of before a merge, and the LEDs and readouts of those pins follow it;
`nodeToNetIndex` is filled while `numberOfNets` is 0 and so stays empty (`NetManager.cpp:328`); a bridge
between GND and DAC 0 is accepted and silently connects nothing; two names may come
to lie on one net, of which `removeNetName` removes one.

*Proved*, for all rails, rows, pins, rules, array lengths and edits, from the three named
assumptions: `TypeInvariant`, `NodesNeverShared`, `RailsNeverJoined`, `NamesStayAnchored`, `NetsStayComponents`,
`PathsStayBridges` and `ShortListsAlwaysFit`. The invariant
`NetsInv` joins the types with `SafeNets`: while no end of an array was met, nets share no node, rails are in the nets of their
own numbers. Its difficulty is `Merge`, which changes a net and the numbers of all behind it; each part has a
lemma about that step. The lemma `NeverRefused` shows on the way that the lists of the rails' nets never refuse a
node or a merge: a rail is always in its own net already, so the search never asks for it. The checks of
`NetManager.cpp:995-1102` are dead.

For the components: every bridge of a net lies within its nodes (`Between`), and, while the end of no array was met, no
set of a net's nodes but none or all is closed under its bridges (`Joined`), which for the merge of two connected nets over a
bridge is a fact about sets. That `Joined` gives what the reachability of the run
computes is an induction over the steps of its search. It is made without an induction theorem: the
set of the numbers at which a claim fails has, by the library's `WFMin`, a least element, and that one cannot
be (`Least`, `AllNumbers`). For the paths: the bridges before `next` are placed each in the one
net that has its ends (`Placed`), and the copy at the end keeps that.

For the short lists (`Short`): while a list that fits is taken, each net has at most one node more than bridges (`Sized`),
and there are no more nets than rails and bridges taken. The first is kept by a merge because the two nets share neither
nodes nor, as every bridge lies within its net, bridges, so that the joining bridge is one more (`MergedSized`). With it no array is full before
the list ends, `Merge` never finds the last number in use, and `createNewNet` always finds a place.

### Crossbar

*State.* `switches` are the crosspoints that are closed; `lastChipXY` those the driver takes to be;
`chipHadConnections` the chips the last refresh had paths on; `chipSelect` the global that tells the interrupt
which chip to strobe; `fifo` the bytes on their way; `request` is `sendAllPathsCore2`. `calls` has for each core the
calls it is in, the innermost first, each with what it still has to do: a `sendXYraw` (`Write`), the loops that
open crosspoints (`Open`), `sendAllPaths` with `sendPath` (`sendEach`), `updateChipStateArray` (`SearchIn`), the
acknowledgement and `waitCore2`. For the properties `doubt` notes why, since the last clean send, memory
and switches might have parted, `strays` the crosspoints closed since then for hops without a place, and `since`
bounds the calls.

*Hops without a place.* The router leaves -1 where it did not come to, and -2 for an x or a y that it could not resolve
(`NetsToChipConnections.cpp:2317-2318`, restored at 5093-5095 when no lane is free); such a path is reported and marked `skip`
(4499-4541), which the driver does not read. `sendPath` passes over -1 only (`Unrouted`). A hop with -2 is put: the masks of
`sendXYraw` make X14 or Y6 of it (`Masked`), while the memory takes note only of what is `InRange`. So such a byte closes a
crosspoint that no path asked for and that no incremental refresh opens, only the reset of a clean one. The properties except those
crosspoints, `strays`, and nothing else; without the exception each of them is violated.

*Steps.* `sendXYraw` is entered with the step that calls it: the chip is named, the point noted, other supplies on
its row are found and opened by inner calls (`OpenNext`). Then come `Put`, the interrupt `isrFromPio`, and `Return` or, after a
second, `GiveUp`. `NextPath` and `NextHop` are the loops of `sendAllPaths` and `sendPath`. `sendPaths` on Core 2 begins a
send: a clean one pulses the reset and writes every path; an incremental one goes through the rows in order for what to open,
replaces the memory (`Search`) and writes the changed paths. Core 0 refreshes (`Refresh`, waiting or
not), writes directly (`jl_send_raw`) and sends all without a reset (`refreshPaths`).

*What is abstracted.* Which paths come of a board; the order of the paths in a send and of the points opened in a row (any). The
paths are replaced only when no send is under way (that is `CrossCore`'s matter), and a byte is out, in
half a microsecond, before a core begins something new. `send_raw` is limited to the eight rows a chip has.

| run | asks | bounds |
|---|---|---|
| `crossbar` | `MemoryTrue`: at rest the driver remembers what is closed. `RefreshBuildsBoard`: a send ends with the paths' crosspoints and no other. `BreakBeforeMake`: nothing is closed while something old still is. `OneSupply`: never two supplies on one row of chip K. All four but for strays. `SendsEnd`: no send hangs, whatever the other core does to `chipSelect` | three boards: one row to either of two supplies, with one of them a path within a chip that has no column (-2), and a path that has a hop without a row (-2, Y6, the row of the supplies) and one not come to (-1); direct writes of both supplies and of a signal, on and off; two calls or refreshes since the last clean send, any number in all; FIFO of four |
| `crossbar_supplies` | `NeverTwoSupplies`, a comment of the source the code does not keep | the same |

Two calls since a clean send are enough for a direct write and the incremental refresh that should undo it.
The fairness: each core goes on with its send, and the interrupt comes for a byte that was put.

*Finding*, `crossbar_supplies`: "NEVER allow multiple voltage sources on the same Y" (`CH446Q.cpp:1001`). A supply
closed by `send_raw` while no path used chip K is passed over by the next incremental refresh
and then forgotten; a path with another supply on its row finds no conflict. The property leaves strays aside, so this is not the
work of an unresolved hop.

*Others*: a hop left at -2 closes X14 or Y6 of its chip, unremembered (above); opening a conflicting supply sets `chipSelect` to -1, so that the byte of the new one strobes no chip but
is noted as sent (and -1 pulses GPIO 27, a pin of the user: `Peripherals.cpp:1505`); the local refreshes and
`send_raw` can have both cores in `sendXYraw`, of which `CH446Q.cpp:1059` says it "runs on Core 1", and a byte may
then go to the other one's chip; a path with an unrouted last hop leaves `chipSelect` set, so another core's wait ends
by timeout; `refreshPaths` forgets without a reset; `send_raw` takes rows up to 15, and
notes them in the memory of the next chip. Fake GPIO: `fakeGpioConfigInput` opens an input's path "so this input doesn't short with
other inputs" and ends with an incremental send that reconnects it (`FakeGpio.cpp:771`).

*Proved* (`Crossbar_proofs`), for any boards of which none has two supplies on a row of chip K, any directly
written crosspoints, any FIFO and bound (`CrossbarAssumption`): `TypeCorrect`, `MemoryTrueCorrect`,
`RefreshBuildsBoardCorrect`, `BreakBeforeMakeCorrect` and `OneSupplyCorrect`. None of the properties is inductive: they speak
of the ends of a send, and the invariant has to say how far it is. `CallsNest` says in which order calls lie on a stack and
that only the innermost waits; `SendsWanted`, that Core 2 sends only what the paths want. As long as memory is in
no doubt but that of a clash, `Known` holds: one core sends at a time (`Solo`); during the search what is to be opened is not
wanted, and what is remembered and not wanted is about to be opened or in a row still to be searched (`Searching`); after
it memory is within the board, and what is missing is about to be written (`Sending`); what is remembered lies on a chip
and in a row that the search looks at (`Remembered`); a byte on its way is that of the call that waits for it, and
`chipSelect` is its chip (`Strobed`); and every switch is closed as remembered, or a stray, or about to be changed (`SwitchesKnown`).
`NoGiveUp` shows on the way that while only one core sends, the timeout of a second never fires. TLC checked the invariant on
the run's instance first. `SendsEnd` is liveness and only model-checked.

## Plan

1. `CrossCore`, `CommandQueue`, `TagParser`, `NetManager`: modelled, checked and proved, save liveness.
2. `SlotManager`, `Crossbar`: modelled, checked and proved, save liveness. `UndoRing`: modelled, checked and
   proved, save `HistoriesApart`. To do: that refinement with a mapping that needs no `SelectSeq`.
3. The composition of `CrossCore`'s request with `Crossbar`'s send, and of `SlotManager` with
   the persisted history of `UndoRing` and a restart between the two files.
4. `ServiceManager` and the context stack, `SharedBuffer`, `PsramArena`, the multiplexer's channel
   table, the DMA rings of `AsyncPassthrough`, the fast paths of `Commands.cpp`.

`RingIndex`, which serves the proofs of `CommandQueue` and `UndoRing`, is written to serve those of
`SharedBuffer` and the DMA rings too. `RECURSIVE` is avoided throughout, so every module can be proved about.

## Not modelled

- `src/lib` and `src/modules` are vendored or generated (the FAT library, TinyUSB, MicroPython, displays,
  examples); they are most of the repository's lines. `NetsToChipConnections_OG.cpp` is the
  router of an older board.
- *Router, LEDs, menus, probing, wave generator, configuration*: tables of hardware, layout, analog values and text. Where
  they touch the state of a modelled component they are steps of it.
- *A guard of the flash*: all file operations run on Core 0 and `fs_mutex` is never contended; what remains, the pause
  of Core 2, is in `CrossCore`.
- *Liveness* is out of the prover's reach: every property with `~>` or `<>`, and what follows from fairness, is checked by
  TLC only.
