------------------------------ MODULE Crossbar ------------------------------
(***************************************************************************)
(* The driver of the twelve CH446Q crosspoint switches (CH446Q.cpp).       *)
(*                                                                         *)
(* A crosspoint is switched by one byte, shifted out by a PIO state        *)
(* machine, that says x, y and on or off but not which chip: when the byte *)
(* is out, the interrupt handler strobes the chip named in the global      *)
(* chipSelect and sets that to -1, and this is what the sender waits for.  *)
(* Core 2 sends the routed paths; callers on Core 0 (send_raw, fake GPIO,  *)
(* refreshPaths) use the same routine, the same global and the same state  *)
(* machine, and nothing keeps the two apart but the callers' own waiting.  *)
(*                                                                         *)
(* The driver remembers what it sent in lastChipXY, and an incremental     *)
(* refresh sends only the difference: should the switches and the memory   *)
(* of them part, a stale connection stays on the board.                    *)
(***************************************************************************)
EXTENDS Integers, Sequences, SequencesExt

CONSTANTS
  Boards,       \* what bridgesToPaths may leave: sets of paths
  Raw,          \* the crosspoints that send_raw is called for
  ChipK,        \* the chip the supplies are wired to
  Sources,      \* the X of chip K that are supplies: CHIP_K_VOLTAGE_SOURCES
  Nowhere,      \* chipSelect = -1
  FifoDepth,    \* places in the transmit FIFO of the state machine
  MaxSince      \* bound on the calls and refreshes since the last clean one

VARIABLES
  paths,              \* globalState.connections.paths: a set of paths, each
                      \* the sequence of its hops [chip, x, y]
  lastChipXY,         \* the crosspoints the driver takes to be closed
  chipHadConnections, \* the chips the last refresh had a path on
  switches,           \* the crosspoints that are closed
  chipSelect,         \* the chip the next strobe goes to
  fifo,               \* the bytes not yet shifted out
  calls,              \* per core: the calls it is in, the innermost first
  request,            \* sendAllPathsCore2
  strays,             \* ghost: the crosspoints closed for a hop that the
                      \* router could not resolve, since the last clean one
  doubt,              \* ghost: why memory and switches might differ
  since               \* ghost: calls and refreshes since the last clean one

vars == <<paths, lastChipXY, chipHadConnections, switches, chipSelect, fifo,
          calls, request, strays, doubt, since>>

Cores == {0, 1}

(* The router leaves -2 for an x or y that it could not resolve, and only  *)
(* reports it; -1 is for what it did not come to.                          *)
Hops == [chip : 0..11, x : -2..15, y : -2..7]
Crosspoints == [chip : 0..11, x : 0..15, y : 0..7]

(* The hops that sendPath passes over.                                     *)
Unrouted(p) == p.x = -1 \/ p.y = -1

(* The hops that updateChipStateArray and sendXYraw take note of.          *)
InRange(p) == p.x >= 0 /\ p.y >= 0

(* The crosspoint that the byte of a hop names: its masks make X14 and Y6  *)
(* of -2.                                                                  *)
Masked(p) == [chip |-> p.chip, x |-> p.x % 16, y |-> p.y % 8]

(* The crosspoints that a set of paths needs.                              *)
PointsOf(board) == {p \in UNION {ToSet(path) : path \in board} : InRange(p)}

(* newChipXY.                                                              *)
Wanted == PointsOf(paths)

ChipsOf(points) == {p.chip : p \in points}

RowsOf(points) == {<<p.chip, p.y>> : p \in points}

Rows == RowsOf(PointsOf(UNION Boards) \cup Raw)

(* Two different supplies on one row of chip K.                            *)
Shorted(p, q) ==
  /\ p.chip = ChipK /\ q.chip = ChipK /\ p.y = q.y
  /\ p.x \in Sources /\ q.x \in Sources /\ p.x # q.x

(* A row of chip K carries one net, and no net has two supplies: the net   *)
(* manager keeps the rails apart.                                          *)
ASSUME CrossbarAssumption ==
  /\ Boards \subseteq SUBSET Seq(Hops)
  /\ Raw \subseteq Crosspoints
  /\ \A board \in Boards : \A p, q \in PointsOf(board) : ~Shorted(p, q)
  /\ Nowhere \notin 0..11
  /\ FifoDepth \in Nat \ {0} /\ MaxSince \in Nat

----------------------------------------------------------------------------
(* The calls a core can be in.                                             *)

(* sendXYraw, about to put its byte or waiting for the strobe.             *)
Write(p, on) == [do |-> "write", point |-> p, on |-> on, at |-> "put"]

(* The loops that open crosspoints, in a row or in conflict.               *)
Open(points) == [do |-> "open", points |-> points]

(* sendAllPaths over the paths still to be sent, sendPath at a hop of one; *)
(* a clean send notes every path down when it is out.                      *)
sendEach(left, noted) ==
  [do |-> "send", left |-> left, path |-> <<>>, hop |-> 1, noted |-> noted]

(* updateChipStateArray: the rows still to be looked through.              *)
SearchIn(rows) == [do |-> "search", rows |-> rows]

Do(step) == [do |-> step]

(* sendAllPaths(1): every path.                                            *)
sendEveryPath == <<sendEach(paths, TRUE)>>

(* Mutant: only the first hop of a path is compared.                       *)
ChangedFirst ==
  {path \in paths : InRange(path[1]) /\ path[1] \notin lastChipXY}

(* The paths that updateChipStateArray marks: some crosspoint of theirs is *)
(* not in lastChipXY.                                                      *)
Changed == {path \in paths : \E p \in ToSet(path) : InRange(p) /\ p \notin lastChipXY}

(* Mutant: the new paths are sent before the old ones are opened.          *)
sendChangesFirst == <<sendEach(Changed, FALSE), SearchIn(Rows)>>

(* sendAllPaths(0): updateChipStateArray looks through the rows for what   *)
(* is to be opened and then replaces lastChipXY; only after that are the   *)
(* marked paths sent.                                                      *)
sendChanges == <<SearchIn(Rows), sendEach(Changed, FALSE)>>

Does(c, step) == calls[c] # <<>> /\ Head(calls[c]).do = step
Writes(c, at) == Does(c, "write") /\ Head(calls[c]).at = at

(* A call returns, or gets on.                                             *)
Returns(c)       == calls' = [calls EXCEPT ![c] = Tail(@)]
Becomes(c, call) == calls' = [calls EXCEPT ![c] = <<call>> \o Tail(@)]

(* Core 0 may only wait while Core 2 sends; otherwise the two race.        *)
Raced(c) ==
  IF \E call \in ToSet(calls[1 - c]) : call.do # "await" THEN {"race"} ELSE {}

----------------------------------------------------------------------------
(* sendXYraw, in the steps between which the other core or the interrupt   *)
(* can come.                                                               *)

(* Mutant: the other supplies of the row are not looked for.               *)
ConflictingNone(p, on) == {}

(* The other supplies on the row of chip K that a supply is to be put on.  *)
Conflicting(p, on) ==
  IF on /\ InRange(p) THEN {q \in lastChipXY : Shorted(p, q)} ELSE {}

(* sendXYraw is called, with what the caller has left to do below: it      *)
(* names the chip, notes the crosspoint, and then opens the conflicting    *)
(* supplies by calling itself.  Each such call ends with chipSelect = -1,  *)
(* so that the byte it goes on to put strobes no chip.  An unresolved hop  *)
(* is not noted and put all the same.                                      *)
sendXYraw(c, p, on, below, why) ==
  LET conflicting == Conflicting(p, on)
      opens == IF conflicting = {} THEN <<>> ELSE <<Open(conflicting)>>
  IN /\ chipSelect' = p.chip
     /\ lastChipXY' = IF ~InRange(p) THEN lastChipXY
                      ELSE IF on THEN lastChipXY \cup {p} ELSE lastChipXY \ {p}
     /\ strays' = IF InRange(p) THEN strays ELSE strays \cup {Masked(p)}
     /\ calls' = [calls EXCEPT ![c] = opens \o <<Write(p, on)>> \o below]
     /\ doubt' = doubt \cup why \cup (IF conflicting = {} THEN {} ELSE {"clash"})

(* The next of the crosspoints that are to be opened.                      *)
OpenNext(c) ==
  /\ Does(c, "open")
  /\ \E p \in Head(calls[c]).points :
       LET left == Head(calls[c]).points \ {p}
           rest == IF left = {} THEN <<>> ELSE <<Open(left)>>
       IN sendXYraw(c, p, FALSE, rest \o Tail(calls[c]), {})
  /\ UNCHANGED <<paths, chipHadConnections, switches, fifo, request, since>>

(* The byte of a write: it does not name the chip.                         *)
Byte(write) ==
  [x |-> Masked(write.point).x, y |-> Masked(write.point).y, on |-> write.on]

Put(c) ==
  /\ Writes(c, "put")
  /\ fifo' = IF Len(fifo) < FifoDepth THEN Append(fifo, Byte(Head(calls[c]))) ELSE fifo
  /\ Becomes(c, [Head(calls[c]) EXCEPT !.at = "wait"])
  /\ UNCHANGED <<paths, lastChipXY, chipHadConnections, switches, chipSelect,
                 request, strays, doubt, since>>

Return(c) ==
  /\ Writes(c, "wait") /\ chipSelect = Nowhere
  /\ Returns(c)
  /\ UNCHANGED <<paths, lastChipXY, chipHadConnections, switches, chipSelect,
                 fifo, request, strays, doubt, since>>

(* Mutant: the strobe does not check the chip number.                      *)
isrFromPioUnchecked ==
  /\ fifo # <<>>
  /\ LET point == [chip |-> chipSelect, x |-> Head(fifo).x, y |-> Head(fifo).y]
     IN switches' = IF Head(fifo).on THEN switches \cup {point} ELSE switches \ {point}
  /\ fifo' = Tail(fifo)
  /\ chipSelect' = Nowhere
  /\ UNCHANGED <<paths, lastChipXY, chipHadConnections, calls, request, strays, doubt, since>>

(* The handler of the state machine's interrupt.                           *)
isrFromPio ==
  /\ fifo # <<>>
  /\ LET point == [chip |-> chipSelect, x |-> Head(fifo).x, y |-> Head(fifo).y]
     IN switches' = IF chipSelect = Nowhere THEN switches
                    ELSE IF Head(fifo).on THEN switches \cup {point}
                    ELSE switches \ {point}
  /\ fifo' = Tail(fifo)
  /\ chipSelect' = Nowhere
  /\ UNCHANGED <<paths, lastChipXY, chipHadConnections, calls, request, strays, doubt, since>>

(* The core is not on the way to put a byte.                               *)
Stands(c) == \/ calls[c] = <<>>
             \/ Does(c, "await")
             \/ Writes(c, "wait")

(* Mutant: the timeout is noticed and the loop goes on.                    *)
GiveUpStays(c) ==
  /\ Writes(c, "wait") /\ chipSelect # Nowhere
  /\ fifo = <<>> /\ Stands(1 - c)
  /\ UNCHANGED vars

(* A second without the interrupt: possible only when no byte is left and  *)
(* the other core is not about to put one.                                 *)
GiveUp(c) ==
  /\ Writes(c, "wait") /\ chipSelect # Nowhere
  /\ fifo = <<>> /\ Stands(1 - c)
  /\ chipSelect' = Nowhere
  /\ Returns(c)
  /\ UNCHANGED <<paths, lastChipXY, chipHadConnections, switches, fifo,
                 request, strays, doubt, since>>

----------------------------------------------------------------------------
(* The other steps of a refresh.                                           *)

Sends(c) == Head(calls[c])
Out(c)   == Sends(c).hop > Len(Sends(c).path)

(* sendPath comes to its next hop: it names the chip, and calls sendXYraw  *)
(* unless the x or the y is -1.                                            *)
NextHop(c) ==
  /\ Does(c, "send") /\ ~Out(c)
  /\ LET p == Sends(c).path[Sends(c).hop]
         below == <<[Sends(c) EXCEPT !.hop = @ + 1]>> \o Tail(calls[c])
     IN \/ /\ Unrouted(p)
           /\ chipSelect' = p.chip
           /\ calls' = [calls EXCEPT ![c] = below]
           /\ UNCHANGED <<lastChipXY, strays, doubt>>
        \/ /\ ~Unrouted(p)
           /\ sendXYraw(c, p, TRUE, below, {})
  /\ UNCHANGED <<paths, chipHadConnections, switches, fifo, request, since>>

(* A path is out, and the next one begins or the loop ends.                *)
NextPath(c) ==
  /\ Does(c, "send") /\ Out(c)
  /\ LET noted == IF Sends(c).noted THEN PointsOf({Sends(c).path}) ELSE {}
     IN /\ lastChipXY' = lastChipXY \cup noted
        /\ chipHadConnections' = chipHadConnections \cup ChipsOf(noted)
  /\ \/ Sends(c).left = {} /\ Returns(c)
     \/ \E path \in Sends(c).left :
          Becomes(c, [Sends(c) EXCEPT !.left = @ \ {path}, !.path = path, !.hop = 1])
  /\ UNCHANGED <<paths, switches, chipSelect, fifo, request, strays, doubt, since>>

(* Mutant: only the chips that have a path now are looked through.         *)
OpenedNow(row) ==
  {p \in lastChipXY \ Wanted : <<p.chip, p.y>> = row /\ p.chip \in ChipsOf(Wanted)}

(* What is to be opened in a row: of a chip that had a path in the last    *)
(* refresh, the points of no path now.                                     *)
Opened(row) ==
  {p \in lastChipXY \ Wanted : <<p.chip, p.y>> = row /\ p.chip \in chipHadConnections}

Before(row, other) == row[1] < other[1] \/ (row[1] = other[1] /\ row[2] < other[2])

(* The search goes on to the next row that has something to open, and ends *)
(* by replacing what is remembered.                                        *)
Search(c) ==
  /\ Does(c, "search")
  /\ LET rows == {row \in Head(calls[c]).rows : Opened(row) # {}}
     IN \/ \E next \in rows :
             /\ \A row \in rows : ~Before(row, next)
             /\ calls' = [calls EXCEPT ![c] =
                  <<Open(Opened(next)),
                    SearchIn({row \in Head(@).rows : Before(next, row)})>> \o Tail(@)]
             /\ UNCHANGED <<lastChipXY, chipHadConnections>>
        \/ /\ rows = {}
           /\ lastChipXY' = Wanted
           /\ chipHadConnections' = ChipsOf(Wanted)
           /\ Returns(c)
  /\ UNCHANGED <<paths, switches, chipSelect, fifo, request, strays, doubt, since>>

Acknowledge(c) ==
  /\ Does(c, "acknowledge")
  /\ request' = 0
  /\ Returns(c)
  /\ UNCHANGED <<paths, lastChipXY, chipHadConnections, switches, chipSelect,
                 fifo, strays, doubt, since>>

(* waitCore2.                                                              *)
Await(c) ==
  /\ Does(c, "await")
  /\ request = 0 /\ calls[1] = <<>>
  /\ Returns(c)
  /\ UNCHANGED <<paths, lastChipXY, chipHadConnections, switches, chipSelect,
                 fifo, request, strays, doubt, since>>

----------------------------------------------------------------------------
(* A byte is out half a microsecond after it was put, so that none is left *)
(* when a core starts something new, unless the other is sending.          *)
CanStart(c) == calls[c] = <<>> /\ (fifo = <<>> \/ calls[1 - c] # <<>>)

(* sendPaths on Core 2.  A clean one pulses the chips' reset, which opens  *)
(* every switch, and forgets what was sent; the pulse lasts a millisecond, *)
(* in which the last byte is out.                                          *)
sendPaths ==
  /\ CanStart(1) /\ request # 0
  /\ \/ /\ request = -1 /\ fifo = <<>>
        /\ switches' = {} /\ lastChipXY' = {} /\ chipHadConnections' = {}
        /\ calls' = [calls EXCEPT ![1] = sendEveryPath \o <<Do("acknowledge")>>]
        /\ strays' = {} /\ doubt' = {} /\ since' = 0
     \/ /\ request \in {1, 3}
        /\ calls' = [calls EXCEPT ![1] = sendChanges \o <<Do("acknowledge")>>]
        /\ doubt' = doubt \cup Raced(1)
        /\ UNCHANGED <<switches, lastChipXY, chipHadConnections, strays, since>>
  /\ UNCHANGED <<paths, chipSelect, fifo, request>>

(* A refresh on Core 0 has waited for Core 2, routes anew and posts its    *)
(* request; refreshConnections waits for the end of the send, the local    *)
(* refreshes (3) do not.                                                   *)
Refresh(board, kind) ==
  /\ CanStart(0) /\ request = 0 /\ calls[1] = <<>>
  /\ paths' = board
  /\ kind # -1 => since < MaxSince
  /\ since' = since + (IF kind = -1 THEN 0 ELSE 1)
  /\ request' = kind
  /\ calls' = [calls EXCEPT ![0] = IF kind = 3 THEN <<>> ELSE <<Do("await")>>]
  /\ UNCHANGED <<lastChipXY, chipHadConnections, switches, chipSelect, fifo,
                 strays, doubt>>

(* send_raw.  The row of a chip that no path uses is not searched when the *)
(* next refresh looks for what to open.                                    *)
jl_send_raw(p, on) ==
  /\ CanStart(0) /\ since < MaxSince
  /\ since' = since + 1
  /\ LET unsearched == on /\ p.chip \notin chipHadConnections
     IN sendXYraw(0, p, on, <<>>, Raced(0) \cup (IF unsearched THEN {"unsearched"} ELSE {}))
  /\ UNCHANGED <<paths, chipHadConnections, switches, fifo, request>>

(* The clean send without the reset, on Core 0.                            *)
refreshPaths ==
  /\ CanStart(0) /\ since < MaxSince
  /\ since' = since + 1
  /\ lastChipXY' = {} /\ chipHadConnections' = {}
  /\ calls' = [calls EXCEPT ![0] = sendEveryPath]
  /\ doubt' = doubt \cup {"no reset"} \cup Raced(0)
  /\ UNCHANGED <<paths, switches, chipSelect, fifo, request, strays>>

Init ==
  /\ paths = {} /\ lastChipXY = {} /\ chipHadConnections = {} /\ switches = {}
  /\ chipSelect = 0 /\ fifo = <<>>
  /\ calls = [c \in Cores |-> <<>>] /\ request = 0
  /\ strays = {} /\ doubt = {} /\ since = 0

CoreStep(c) ==
  \/ OpenNext(c) \/ Put(c) \/ Return(c) \/ GiveUp(c)
  \/ NextHop(c) \/ NextPath(c) \/ Search(c) \/ Acknowledge(c) \/ Await(c)

Next ==
  \/ isrFromPio
  \/ \E c \in Cores : CoreStep(c)
  \/ sendPaths
  \/ \E board \in Boards, kind \in {-1, 1, 3} : Refresh(board, kind)
  \/ \E p \in Raw, on \in BOOLEAN : jl_send_raw(p, on)
  \/ refreshPaths

Fairness ==
  /\ WF_vars(isrFromPio)
  /\ WF_vars(sendPaths)
  /\ \A c \in Cores : WF_vars(CoreStep(c))

Spec == Init /\ [][Next]_vars /\ Fairness

----------------------------------------------------------------------------
Quiet == fifo = <<>> /\ request = 0 /\ \A c \in Cores : calls[c] = <<>>

Call ==
  {write \in [do : {"write"}, point : Hops, on : BOOLEAN, at : {"put", "wait"}] :
     write.on \/ InRange(write.point)}
    \cup [do : {"open"}, points : SUBSET Crosspoints]
    \cup [do : {"send"}, left : SUBSET Seq(Hops), path : Seq(Hops), hop : Nat \ {0},
          noted : BOOLEAN]
    \cup [do : {"search"}, rows : SUBSET Rows]
    \cup [do : {"acknowledge", "await"}]

TypeOK ==
  /\ paths \in SUBSET Seq(Hops)
  /\ lastChipXY \in SUBSET Crosspoints /\ switches \in SUBSET Crosspoints
  /\ chipHadConnections \in SUBSET (0..11)
  /\ chipSelect \in 0..11 \cup {Nowhere}
  /\ fifo \in Seq([x : 0..15, y : 0..7, on : BOOLEAN]) /\ Len(fifo) <= FifoDepth
  /\ calls \in [Cores -> Seq(Call)]
  /\ request \in {-1, 0, 1, 3}
  /\ strays \in SUBSET Crosspoints
  /\ doubt \in SUBSET {"race", "clash", "unsearched", "no reset"}
  /\ since \in 0..MaxSince

(* When nothing is under way the switches are as the driver remembers      *)
(* them, and closed beside those at most what unresolved hops have closed  *)
(* -- unless since the last clean refresh both cores have sent at once, a  *)
(* supply was put on a row that had another, a point was closed on a chip  *)
(* without paths, or refreshPaths forgot everything without a reset        *)
(* (sendXYraw, updateChipStateArray and the interrupt handler together).   *)
MemoryTrue ==
  Quiet /\ doubt = {} =>
    lastChipXY \subseteq switches /\ switches \subseteq lastChipXY \cup strays

(* A refresh of Core 2, clean or incremental, ends with the crosspoints of *)
(* the routed paths closed and no other: nothing of the board before, and  *)
(* nothing that was sent directly, is left, but what the unresolved hops   *)
(* of this board and of those before it have closed (sendAllPaths).        *)
RefreshBuildsBoard ==
  Does(1, "acknowledge") /\ doubt = {} =>
    Wanted \subseteq switches /\ switches \subseteq Wanted \cup strays /\ fifo = <<>>

(* When an incremental refresh closes a new connection nothing is closed   *)
(* any more that is not part of the new board: the old connections are     *)
(* broken before the new ones are made, so that two nets never meet on the *)
(* way -- save over the crosspoints of unresolved hops, which no refresh   *)
(* opens but a clean one (updateChipStateArray, then sendPath).            *)
BreakBeforeMake ==
  Does(1, "write") /\ Head(calls[1]).on /\ doubt = {} =>
    switches \subseteq Wanted \cup strays

(* Two supplies are never on one row of chip K, at no moment of a refresh  *)
(* and whatever send_raw asks for (sendXYraw: "NEVER allow multiple        *)
(* voltage sources on the same Y"), unless an unresolved hop put one there.*)
OneSupply ==
  doubt \subseteq {"clash"} =>
    \A p, q \in switches \ strays : ~Shorted(p, q)

(* Whatever the cores do to each other's chipSelect, every send comes to   *)
(* an end: a core that waits for the strobe is released by its own, by the *)
(* other core's, or by the timeout (sendXYraw).                            *)
SendsEnd == \A c \in Cores : calls[c] # <<>> ~> calls[c] = <<>>

(* The same of the incremental refresh after a send_raw on a chip that had *)
(* no path, which the comment in sendXYraw promises too.                   *)
NeverTwoSupplies ==
  doubt \cap {"race", "no reset"} = {} =>
    \A p, q \in switches \ strays : ~Shorted(p, q)
=============================================================================
