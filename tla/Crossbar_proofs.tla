-------------------------- MODULE Crossbar_proofs ---------------------------
(***************************************************************************)
(* Proofs about Crossbar, for every set of boards in which no row of chip  *)
(* K has two supplies, every set of directly written crosspoints and every *)
(* number of calls.                                                        *)
(***************************************************************************)
EXTENDS Crossbar, SequenceTheorems, TLAPS

(* Calls nest in one order only: an opening write in the loop that opens,  *)
(* that in a closing write or in the search, and those in the send.        *)
Level(call) ==
  CASE call.do = "write" -> IF call.on THEN 3 ELSE 1
    [] call.do = "open" -> 2
    [] call.do = "search" -> 4
    [] call.do = "send" -> 5
    [] OTHER -> 6

Ordered(stack) ==
  \A i, j \in 1..Len(stack) : i < j => Level(stack[i]) < Level(stack[j])

In(c, step) == \E call \in ToSet(calls[c]) : call.do = step

(* Only the innermost call waits, for Core 2 or for the strobe.            *)
Waiting(call) == call.do = "await" \/ (call.do = "write" /\ call.at = "wait")

Nested(stack) ==
  /\ Ordered(stack)
  /\ stack # <<>> => \A call \in ToSet(Tail(stack)) : ~Waiting(call)

CallsNest ==
  /\ \A c \in Cores : Nested(calls[c])
  /\ ~In(0, "acknowledge") /\ ~In(0, "search") /\ ~In(1, "await")
  /\ In(1, "search") => \A call \in ToSet(calls[1]) : call.do = "write" => ~call.on

(* What Core 2 sends is of the routed paths; the others wait for it.       *)
OfPaths(call) ==
  /\ call.do = "send" =>
       call.left \subseteq paths /\ (call.path = <<>> \/ call.path \in paths)
  /\ call.do = "write" /\ call.on /\ InRange(call.point) => call.point \in Wanted

SendsWanted ==
  /\ paths = {} \/ paths \in Boards
  /\ \A call \in ToSet(calls[1]) : OfPaths(call)
  /\ calls[1] # <<>> => request # 0
  /\ request \in {-1, 1} => calls[0] = <<Do("await")>>

Sure == doubt \subseteq {"clash"}

Closes(call, p) ==
  \/ call.do = "write" /\ call.on /\ call.point = p
  \/ /\ call.do = "send" /\ InRange(p)
     /\ \/ \E path \in call.left : p \in ToSet(path)
        \/ \E k \in call.hop..Len(call.path) : call.path[k] = p

Opens(call, p) ==
  \/ call.do = "write" /\ ~call.on /\ call.point = p
  \/ call.do = "open" /\ p \in call.points

ToClose(c, p) == \E call \in ToSet(calls[c]) : Closes(call, p)
ToOpen(c, p)  == \E call \in ToSet(calls[c]) : Opens(call, p)

Solo ==
  /\ calls[1] # <<>> => \A call \in ToSet(calls[0]) : call.do = "await"
  /\ ~In(0, "send")

(* While the old connections are searched for.                             *)
Searching ==
  In(1, "search") =>
    /\ \A p \in lastChipXY \cup Wanted : ToOpen(1, p) => p \notin Wanted
    /\ \A p \in Wanted \ lastChipXY : ToClose(1, p)
    /\ \A call \in ToSet(calls[1]) : call.do = "send" => ~call.noted
    /\ \A p \in lastChipXY \ Wanted :
         \/ ToOpen(1, p)
         \/ \E call \in ToSet(calls[1]) : call.do = "search" /\ <<p.chip, p.y>> \in call.rows

(* While the paths are sent, in a clean send or after the search.          *)
Sending ==
  calls[1] # <<>> /\ ~In(1, "search") =>
    /\ lastChipXY \subseteq Wanted
    /\ \A p \in Wanted \ lastChipXY : ToClose(1, p)
    /\ \A call \in ToSet(calls[1]) :
         /\ call.do # "open" /\ (call.do = "write" => call.on)
         /\ call.do = "send" /\ ~call.noted => lastChipXY = Wanted

Remembered ==
  \A p \in lastChipXY :
    /\ <<p.chip, p.y>> \in Rows
    /\ \/ p.chip \in chipHadConnections
       \/ \E call \in ToSet(calls[1]) :
            call.do = "send" /\ call.noted /\ p \in ToSet(call.path)

(* The byte of a write goes to its chip, or in a clash to none; that of an *)
(* unresolved hop closes a stray.                                          *)
Clash(write) == "clash" \in doubt /\ write.on /\ chipSelect = Nowhere
Aimed(write) ==
  /\ chipSelect = write.point.chip
  /\ IF ~InRange(write.point) THEN Masked(write.point) \in strays
     ELSE IF write.on THEN /\ write.point \in lastChipXY
                           /\ \A q \in switches \ strays : ~Shorted(write.point, q)
     ELSE write.point \notin lastChipXY

StrobedAt(c) ==
  /\ Writes(c, "put") =>
       fifo = <<>> /\ (Aimed(Head(calls[c])) \/ (c = 0 /\ Clash(Head(calls[c]))))
  /\ Writes(c, "wait") =>
       \/ fifo = <<Byte(Head(calls[c]))>> /\ Aimed(Head(calls[c]))
       \/ /\ fifo = <<>> /\ chipSelect = Nowhere
          /\ InRange(Head(calls[c]).point) =>
               /\ (Head(calls[c]).point \in switches <=> Head(calls[c]).on)
               /\ (Head(calls[c]).point \in lastChipXY <=> Head(calls[c]).on)
       \/ c = 0 /\ Len(fifo) <= 1 /\ Clash(Head(calls[c]))
  /\ calls[c] # <<>> =>
       \A call \in ToSet(Tail(calls[c])) :
         call.do = "write" /\ call.on => c = 0 /\ "clash" \in doubt

Strobed ==
  /\ \A c \in Cores : StrobedAt(c)
  /\ fifo # <<>> =>
       \/ \E c \in Cores : Writes(c, "wait")
       \/ /\ \A c \in Cores : calls[c] = <<>>
          /\ chipSelect = Nowhere /\ Len(fifo) = 1

SwitchesKnown ==
  /\ \A p \in switches : p \in lastChipXY \cup strays \/ \E c \in Cores : ToOpen(c, p)
  /\ doubt = {} => \A p \in lastChipXY : p \in switches \/ \E c \in Cores : ToClose(c, p)
  /\ \A p, q \in switches \ strays : ~Shorted(p, q)

Known ==
  Solo /\ Searching /\ Sending /\ Remembered /\ Strobed /\ SwitchesKnown

IInv == TypeOK /\ CallsNest /\ SendsWanted /\ (Sure => Known)

----------------------------------------------------------------------------
(* Stacks of calls.                                                        *)

Onto(call, stack) == <<call>> \o stack

LEMMA PairIsConcat ==
  ASSUME NEW S, NEW a \in S, NEW b \in S
  PROVE  <<a, b>> = <<a>> \o <<b>>
<1> DEFINE s == <<a>> \o <<b>>
           t == <<a, b>>
<1>1. s \in Seq(S) /\ Len(s) = 2 /\ s[1] = a /\ s[2] = b
  OBVIOUS
<1>2. t \in Seq(S) /\ Len(t) = 2 /\ t[1] = a /\ t[2] = b
  OBVIOUS
<1> HIDE DEF s, t
<1>3. s = t
  <2>1. \A i \in 1..Len(s) : s[i] = t[i]
    BY <1>1, <1>2
  <2> QED  BY <1>1, <1>2, <2>1, SeqEqual
<1> QED  BY <1>3 DEF s, t

LEMMA Parameters ==
  /\ FifoDepth \in Nat \ {0} /\ MaxSince \in Nat /\ Nowhere \notin 0..11
  /\ Raw \subseteq Crosspoints /\ Boards \subseteq SUBSET Seq(Hops)
  /\ \A board \in Boards : \A p, q \in PointsOf(board) : ~Shorted(p, q)
  /\ 0 \in Cores /\ 1 \in Cores
<1> QED  BY CrossbarAssumption DEF CrossbarAssumption, Cores

(* What the driver takes note of, and what the byte of a hop names.        *)
LEMMA HopTypes ==
  /\ \A p \in Hops : /\ p.chip \in 0..11
                     /\ InRange(p) => p \in Crosspoints
                     /\ Masked(p) \in Crosspoints /\ Masked(p).chip = p.chip
  /\ \A p \in Crosspoints : p \in Hops /\ InRange(p) /\ Masked(p) = p
  /\ \A p : InRange(p) => ~Unrouted(p)
<1>1. ASSUME NEW p \in Hops
      PROVE  /\ p.chip \in 0..11 /\ (InRange(p) => p \in Crosspoints)
             /\ Masked(p) \in Crosspoints /\ Masked(p).chip = p.chip
  <2>1. p.chip \in 0..11 /\ p.x \in -2..15 /\ p.y \in -2..7
    BY DEF Hops
  <2>2. p.x % 16 \in 0..15 /\ p.y % 8 \in 0..7
    BY <2>1
  <2>3. Masked(p) \in Crosspoints /\ Masked(p).chip = p.chip
    BY <2>1, <2>2 DEF Masked, Crosspoints
  <2>4. InRange(p) => p \in Crosspoints
    BY <2>1 DEF InRange, Hops, Crosspoints
  <2> QED  BY <2>1, <2>3, <2>4
<1>2. ASSUME NEW p \in Crosspoints PROVE p \in Hops /\ InRange(p) /\ Masked(p) = p
  <2>1. p.chip \in 0..11 /\ p.x \in 0..15 /\ p.y \in 0..7
        /\ p = [chip |-> p.chip, x |-> p.x, y |-> p.y]
    BY DEF Crosspoints
  <2>2. p.x % 16 = p.x /\ p.y % 8 = p.y
    BY <2>1
  <2>3. p \in Hops /\ InRange(p)
    BY <2>1 DEF Hops, InRange, Crosspoints
  <2> QED  BY <2>1, <2>2, <2>3 DEF Masked
<1>3. ASSUME NEW p, InRange(p) PROVE ~Unrouted(p)
  BY <1>3 DEF InRange, Unrouted
<1> QED  BY <1>1, <1>2, <1>3

LEMMA CallFields ==
  ASSUME NEW call \in Call
  PROVE  /\ call.do \in {"write", "open", "send", "search", "acknowledge", "await"}
         /\ call.do = "write" =>
              /\ call.point \in Hops /\ call.on \in BOOLEAN /\ call.at \in {"put", "wait"}
              /\ call.on \/ InRange(call.point)
         /\ call.do = "open" => call.points \in SUBSET Crosspoints
         /\ call.do = "send" =>
              /\ call.left \in SUBSET Seq(Hops) /\ call.path \in Seq(Hops)
              /\ call.hop \in Nat \ {0} /\ call.noted \in BOOLEAN
         /\ call.do = "search" => call.rows \in SUBSET Rows
<1> QED  BY DEF Call

LEMMA CallTypes ==
  /\ \A p \in Hops, on \in BOOLEAN : on \/ InRange(p) => Write(p, on) \in Call
  /\ \A points \in SUBSET Crosspoints : Open(points) \in Call
  /\ \A left \in SUBSET Seq(Hops), noted \in BOOLEAN : sendEach(left, noted) \in Call
  /\ \A rows \in SUBSET Rows : SearchIn(rows) \in Call
  /\ Do("acknowledge") \in Call /\ Do("await") \in Call
<1>1. \A left \in SUBSET Seq(Hops), noted \in BOOLEAN : sendEach(left, noted) \in Call
  <2> SUFFICES ASSUME NEW left \in SUBSET Seq(Hops), NEW noted \in BOOLEAN
               PROVE  sendEach(left, noted) \in Call
    OBVIOUS
  <2>1. <<>> \in Seq(Hops)
    OBVIOUS
  <2> QED  BY <2>1 DEF Call, sendEach
<1> QED  BY <1>1 DEF Call, Write, Open, SearchIn, Do

(* A write that gets on, and a send that goes to its next hop or path.     *)
LEMMA CallChanges ==
  ASSUME NEW call \in Call
  PROVE  /\ call.do = "write" =>
              LET w == [call EXCEPT !.at = "wait"]
              IN /\ w \in Call /\ w.do = "write" /\ w.at = "wait"
                 /\ w.point = call.point /\ w.on = call.on
         /\ call.do = "send" =>
              LET s == [call EXCEPT !.hop = @ + 1]
              IN /\ s \in Call /\ s.do = "send" /\ s.hop = call.hop + 1
                 /\ s.left = call.left /\ s.path = call.path /\ s.noted = call.noted
         /\ call.do = "send" => \A path \in call.left :
              LET s == [call EXCEPT !.left = @ \ {path}, !.path = path, !.hop = 1]
              IN /\ s \in Call /\ s.do = "send" /\ s.hop = 1
                 /\ s.left = call.left \ {path} /\ s.path = path /\ s.noted = call.noted
<1>1. CASE call.do = "write"
  <2>1. /\ call \in [do : {"write"}, point : Hops, on : BOOLEAN, at : {"put", "wait"}]
        /\ call.on \/ InRange(call.point)
    BY <1>1 DEF Call
  <2> DEFINE w == [call EXCEPT !.at = "wait"]
  <2>2. /\ w \in [do : {"write"}, point : Hops, on : BOOLEAN, at : {"put", "wait"}]
        /\ w.do = "write" /\ w.at = "wait" /\ w.point = call.point /\ w.on = call.on
    BY <2>1
  <2> HIDE DEF w
  <2>3. w \in Call
    BY <2>1, <2>2 DEF Call
  <2> QED  BY <1>1, <2>2, <2>3 DEF w
<1>2. CASE call.do = "send"
  <2>1. call \in [do : {"send"}, left : SUBSET Seq(Hops), path : Seq(Hops), hop : Nat \ {0},
                  noted : BOOLEAN]
    BY <1>2 DEF Call
  <2>2. call.hop + 1 \in Nat \ {0}
    BY <2>1
  <2> DEFINE sends == [do : {"send"}, left : SUBSET Seq(Hops), path : Seq(Hops), hop : Nat \ {0},
                       noted : BOOLEAN]
             s == [call EXCEPT !.hop = @ + 1]
             t(path) == [call EXCEPT !.left = @ \ {path}, !.path = path, !.hop = 1]
  <2>3. s \in sends /\ s.do = "send" /\ s.hop = call.hop + 1
        /\ s.left = call.left /\ s.path = call.path /\ s.noted = call.noted
    BY <2>1, <2>2
  <2>4. ASSUME NEW path \in call.left
        PROVE  /\ t(path) \in sends /\ t(path).do = "send" /\ t(path).hop = 1
               /\ t(path).left = call.left \ {path} /\ t(path).path = path
               /\ t(path).noted = call.noted
    <3>1. path \in Seq(Hops) /\ call.left \ {path} \in SUBSET Seq(Hops) /\ 1 \in Nat \ {0}
      BY <2>1
    <3> QED  BY <2>1, <3>1
  <2>5. sends \subseteq Call
    BY DEF Call
  <2> HIDE DEF sends
  <2> QED  BY <1>2, <2>3, <2>4, <2>5
<1>3. CASE call.do \notin {"write", "send"}
  BY <1>3
<1> QED  BY <1>1, <1>2, <1>3

LEMMA LevelOf ==
  ASSUME NEW call \in Call
  PROVE  /\ Level(call) \in 1..6
         /\ call.do = "write" => Level(call) = IF call.on THEN 3 ELSE 1
         /\ call.do = "open" => Level(call) = 2
         /\ call.do = "search" => Level(call) = 4
         /\ call.do = "send" => Level(call) = 5
         /\ call.do \in {"acknowledge", "await"} => Level(call) = 6
<1> QED  BY CallFields DEF Level

(* What is on a stack when a call is put on it, and what is below its top. *)
LEMMA Topped ==
  ASSUME NEW stack \in Seq(Call), NEW call \in Call
  PROVE  /\ Onto(call, stack) \in Seq(Call) /\ Onto(call, stack) # <<>>
         /\ Head(Onto(call, stack)) = call /\ Tail(Onto(call, stack)) = stack
         /\ ToSet(Onto(call, stack)) = {call} \cup ToSet(stack)
<1> DEFINE s == Onto(call, stack)
<1>1. /\ s \in Seq(Call) /\ Len(s) = Len(stack) + 1 /\ Len(stack) \in Nat
      /\ s[1] = call /\ \A i \in 1..Len(stack) : s[i + 1] = stack[i]
  BY DEF Onto
<1>2. s # <<>> /\ Head(s) = call
  BY <1>1
<1>3. Tail(s) = stack
  <2>1. Len(Tail(s)) = Len(stack) /\ Tail(s) \in Seq(Call)
    BY <1>1, <1>2
  <2>2. \A i \in 1..Len(stack) : Tail(s)[i] = stack[i]
    BY <1>1, <1>2
  <2> QED  BY <2>1, <2>2, SeqEqual
<1>4. ToSet(s) = {call} \cup ToSet(stack)
  <2>1. DOMAIN s = 1..Len(stack) + 1 /\ DOMAIN stack = 1..Len(stack)
    BY <1>1
  <2>2. ASSUME NEW e \in ToSet(s) PROVE e \in {call} \cup ToSet(stack)
    <3>1. PICK i \in 1..Len(stack) + 1 : e = s[i]
      BY <2>1 DEF ToSet
    <3>2. CASE i = 1
      BY <3>1, <3>2, <1>1
    <3>3. CASE i # 1
      <4>1. i - 1 \in 1..Len(stack) /\ s[(i - 1) + 1] = stack[i - 1]
        BY <3>3, <1>1
      <4> QED  BY <4>1, <3>1, <2>1, <1>1 DEF ToSet
    <3> QED  BY <3>2, <3>3
  <2>3. ASSUME NEW i \in 1..Len(stack) PROVE stack[i] \in ToSet(s)
    <3>1. i + 1 \in DOMAIN s /\ s[i + 1] = stack[i]
      BY <2>1, <1>1
    <3> QED  BY <3>1 DEF ToSet
  <2>4. call \in ToSet(s)
    <3>1. 1 \in DOMAIN s
      BY <2>1, <1>1
    <3> QED  BY <3>1, <1>1 DEF ToSet
  <2> QED  BY <2>1, <2>2, <2>3, <2>4 DEF ToSet
<1> QED  BY <1>1, <1>2, <1>3, <1>4

LEMMA TopAndRest ==
  ASSUME NEW stack \in Seq(Call), stack # <<>>
  PROVE  /\ Head(stack) \in Call /\ Tail(stack) \in Seq(Call)
         /\ stack = Onto(Head(stack), Tail(stack))
         /\ ToSet(stack) = {Head(stack)} \cup ToSet(Tail(stack))
<1>1. Head(stack) \in Call /\ Tail(stack) \in Seq(Call)
  OBVIOUS
<1>2. stack = Onto(Head(stack), Tail(stack))
  BY DEF Onto
<1> QED  BY <1>1, <1>2, Topped

LEMMA StackElements ==
  ASSUME NEW stack \in Seq(Call)
  PROVE  ToSet(stack) \subseteq Call /\ (stack = <<>> <=> ToSet(stack) = {})
<1> QED  BY DEF ToSet

LEMMA OrderedTop ==
  ASSUME NEW stack \in Seq(Call), stack # <<>>, Ordered(stack)
  PROVE  /\ Ordered(Tail(stack))
         /\ \A call \in ToSet(Tail(stack)) : Level(Head(stack)) < Level(call)
<1>1. /\ Len(Tail(stack)) = Len(stack) - 1 /\ Len(stack) \in Nat \ {0}
      /\ \A i \in 1..Len(stack) - 1 : Tail(stack)[i] = stack[i + 1]
      /\ Head(stack) = stack[1] /\ DOMAIN Tail(stack) = 1..Len(stack) - 1
  OBVIOUS
<1>2. ASSUME NEW i \in 1..Len(stack) - 1, NEW j \in 1..Len(stack) - 1, i < j
      PROVE  Level(Tail(stack)[i]) < Level(Tail(stack)[j])
  <2>1. i + 1 \in 1..Len(stack) /\ j + 1 \in 1..Len(stack) /\ i + 1 < j + 1
    BY <1>1, <1>2
  <2> QED  BY <2>1, <1>1 DEF Ordered
<1>3. ASSUME NEW i \in 1..Len(stack) - 1 PROVE Level(stack[1]) < Level(Tail(stack)[i])
  <2>1. 1 \in 1..Len(stack) /\ i + 1 \in 1..Len(stack) /\ 1 < i + 1
    BY <1>1
  <2> QED  BY <2>1, <1>1 DEF Ordered
<1> QED  BY <1>1, <1>2, <1>3 DEF Ordered, ToSet

LEMMA OrderedTopped ==
  ASSUME NEW stack \in Seq(Call), Ordered(stack), NEW call \in Call,
         \A other \in ToSet(stack) : Level(call) < Level(other)
  PROVE  Ordered(Onto(call, stack))
<1> DEFINE s == Onto(call, stack)
<1>1. /\ Len(s) = Len(stack) + 1 /\ Len(stack) \in Nat
      /\ s[1] = call /\ \A i \in 2..Len(stack) + 1 : s[i] = stack[i - 1]
  BY DEF Onto
<1>2. ASSUME NEW i \in 1..Len(stack) + 1, NEW j \in 1..Len(stack) + 1, i < j
      PROVE  Level(s[i]) < Level(s[j])
  <2>1. j \in 2..Len(stack) + 1 /\ j - 1 \in 1..Len(stack)
    BY <1>1, <1>2
  <2>2. CASE i = 1
    <3>1. stack[j - 1] \in ToSet(stack)
      BY <2>1 DEF ToSet
    <3> QED  BY <2>1, <2>2, <3>1, <1>1
  <2>3. CASE i # 1
    <3>1. i \in 2..Len(stack) + 1 /\ i - 1 \in 1..Len(stack) /\ i - 1 < j - 1
      BY <1>1, <1>2, <2>3
    <3>2. Level(stack[i - 1]) < Level(stack[j - 1])
      BY <3>1, <2>1 DEF Ordered
    <3> QED  BY <3>1, <3>2, <2>1, <1>1
  <2> QED  BY <2>2, <2>3
<1> QED  BY <1>1, <1>2 DEF Ordered

(* The stack of one core changes, the other's does not.                    *)
LEMMA StackChange ==
  ASSUME TypeOK, NEW c \in Cores, NEW stack \in Seq(Call),
         calls' = [calls EXCEPT ![c] = stack]
  PROVE  /\ calls' \in [Cores -> Seq(Call)] /\ calls'[c] = stack
         /\ \A d \in Cores : d # c => calls'[d] = calls[d]
<1> QED  BY DEF TypeOK

LEMMA StackTypes ==
  ASSUME TypeOK
  PROVE  \A c \in Cores :
           /\ calls[c] \in Seq(Call) /\ ToSet(calls[c]) \subseteq Call
           /\ calls[c] # <<>> =>
                /\ Head(calls[c]) \in Call /\ Tail(calls[c]) \in Seq(Call)
                /\ ToSet(calls[c]) = {Head(calls[c])} \cup ToSet(Tail(calls[c]))
                /\ ToSet(Tail(calls[c])) \subseteq Call
<1> QED  BY TopAndRest, StackElements DEF TypeOK

(* What a call of sendXYraw puts on the stack.                             *)
LEMMA RawCall ==
  ASSUME TypeOK, NEW c \in Cores, NEW p \in Hops, NEW on \in BOOLEAN,
         on \/ InRange(p),
         NEW below \in Seq(Call), NEW why, sendXYraw(c, p, on, below, why)
  PROVE  /\ Conflicting(p, on) \in SUBSET Crosspoints
         /\ Write(p, on) \in Call /\ Open(Conflicting(p, on)) \in Call
         /\ Onto(Write(p, on), below) \in Seq(Call)
         /\ calls' \in [Cores -> Seq(Call)]
         /\ \A d \in Cores : d # c => calls'[d] = calls[d]
         /\ Conflicting(p, on) = {} => calls'[c] = Onto(Write(p, on), below)
         /\ Conflicting(p, on) # {} =>
              calls'[c] = Onto(Open(Conflicting(p, on)), Onto(Write(p, on), below))
<1>1. Conflicting(p, on) \in SUBSET Crosspoints
  BY DEF Conflicting, TypeOK
<1>2. Write(p, on) \in Call /\ Open(Conflicting(p, on)) \in Call
  BY <1>1, CallTypes
<1>3. Onto(Write(p, on), below) \in Seq(Call)
  BY <1>2, Topped
<1>4. CASE Conflicting(p, on) = {}
  <2>1. calls' = [calls EXCEPT ![c] = <<>> \o <<Write(p, on)>> \o below]
    BY <1>4 DEF sendXYraw
  <2>2. <<>> \o <<Write(p, on)>> = <<Write(p, on)>>
    OBVIOUS
  <2>3. calls' = [calls EXCEPT ![c] = Onto(Write(p, on), below)]
    BY <2>1, <2>2 DEF Onto
  <2> QED  BY <1>1, <1>2, <1>3, <1>4, <2>3, StackChange
<1>5. CASE Conflicting(p, on) # {}
  <2> DEFINE o == Open(Conflicting(p, on))
             w == Write(p, on)
  <2>1. calls' = [calls EXCEPT ![c] = <<o>> \o <<w>> \o below]
    BY <1>5 DEF sendXYraw
  <2>2. (<<o>> \o <<w>>) \o below = <<o>> \o (<<w>> \o below)
    <3>1. <<o>> \in Seq(Call) /\ <<w>> \in Seq(Call)
      BY <1>2
    <3> QED  BY <3>1, ConcatAssociative
  <2>3. Onto(o, Onto(w, below)) \in Seq(Call)
    BY <1>2, <1>3, Topped
  <2>4. calls' = [calls EXCEPT ![c] = Onto(o, Onto(w, below))]
    BY <2>1, <2>2 DEF Onto
  <2> QED  BY <1>1, <1>2, <1>3, <1>5, <2>3, <2>4, StackChange
<1> QED  BY <1>4, <1>5

LEMMA PointTypes ==
  ASSUME TypeOK
  PROVE  /\ Wanted \in SUBSET Crosspoints
         /\ \A path \in Seq(Hops) : PointsOf({path}) \in SUBSET Crosspoints
         /\ \A points \in SUBSET Crosspoints : ChipsOf(points) \in SUBSET (0..11)
<1>1. \A p \in Hops : InRange(p) => p \in Crosspoints
  BY HopTypes
<1>2. ASSUME NEW board \in SUBSET Seq(Hops) PROVE PointsOf(board) \in SUBSET Crosspoints
  <2>1. \A path \in board : ToSet(path) \subseteq Hops
    BY DEF ToSet
  <2> QED  BY <1>1, <2>1 DEF PointsOf
<1>3. \A points \in SUBSET Crosspoints : ChipsOf(points) \in SUBSET (0..11)
  BY DEF ChipsOf, Crosspoints
<1>4. Wanted \in SUBSET Crosspoints
  BY <1>2 DEF Wanted, TypeOK
<1> QED  BY <1>1, <1>2, <1>3, <1>4

LEMMA PathsType ==
  ASSUME TypeOK
  PROVE  /\ sendEach(paths, TRUE) \in Call /\ sendEach(Changed, FALSE) \in Call
         /\ SearchIn(Rows) \in Call
         /\ sendEveryPath \in Seq(Call)
         /\ sendEveryPath \o <<Do("acknowledge")>> \in Seq(Call)
         /\ sendEveryPath \o <<Do("acknowledge")>>
              = Onto(sendEach(paths, TRUE), <<Do("acknowledge")>>)
         /\ sendChanges \o <<Do("acknowledge")>> \in Seq(Call)
         /\ sendChanges \o <<Do("acknowledge")>>
              = Onto(SearchIn(Rows), Onto(sendEach(Changed, FALSE), <<Do("acknowledge")>>))
<1>1. paths \in SUBSET Seq(Hops) /\ Changed \in SUBSET Seq(Hops)
  BY DEF TypeOK, Changed
<1>2. /\ sendEach(paths, TRUE) \in Call /\ sendEach(Changed, FALSE) \in Call
      /\ SearchIn(Rows) \in Call /\ Do("acknowledge") \in Call
  BY <1>1, CallTypes
<1>3. <<Do("acknowledge")>> \in Seq(Call) /\ <<sendEach(Changed, FALSE)>> \in Seq(Call)
      /\ <<SearchIn(Rows)>> \in Seq(Call) /\ <<sendEach(paths, TRUE)>> \in Seq(Call)
  <2> DEFINE a == Do("acknowledge")
             b == sendEach(Changed, FALSE)
             s == SearchIn(Rows)
             e == sendEach(paths, TRUE)
  <2>1. a \in Call /\ b \in Call /\ s \in Call /\ e \in Call
    BY <1>2
  <2> HIDE DEF a, b, s, e
  <2>2. <<a>> \in Seq(Call) /\ <<b>> \in Seq(Call) /\ <<s>> \in Seq(Call) /\ <<e>> \in Seq(Call)
    BY <2>1
  <2> QED  BY <2>2 DEF a, b, s, e
<1> DEFINE a == Do("acknowledge")
           b == sendEach(Changed, FALSE)
           s == SearchIn(Rows)
           e == sendEach(paths, TRUE)
<1>4. a \in Call /\ b \in Call /\ s \in Call /\ e \in Call /\ <<a>> \in Seq(Call)
      /\ <<s>> \in Seq(Call) /\ <<b>> \in Seq(Call)
      /\ sendEveryPath = <<e>> /\ sendChanges = <<s, b>>
  BY <1>2, <1>3 DEF sendEveryPath, sendChanges
<1> HIDE DEF a, b, s, e
<1>5. sendChanges \o <<a>> = Onto(s, Onto(b, <<a>>))
  <2>1. <<s, b>> = <<s>> \o <<b>>
    BY <1>4, PairIsConcat
  <2>2. (<<s>> \o <<b>>) \o <<a>> = <<s>> \o (<<b>> \o <<a>>)
    BY <1>4, ConcatAssociative
  <2> QED  BY <1>4, <2>1, <2>2 DEF Onto
<1>6. Onto(b, <<a>>) \in Seq(Call) /\ Onto(e, <<a>>) \in Seq(Call)
  BY <1>4, Topped
<1>7. Onto(s, Onto(b, <<a>>)) \in Seq(Call)
  BY <1>4, <1>6, Topped
<1>8. sendEveryPath \o <<a>> = Onto(e, <<a>>) /\ sendEveryPath \in Seq(Call)
  BY <1>4 DEF Onto
<1> QED  BY <1>4, <1>5, <1>6, <1>7, <1>8 DEF a, b, s, e

LEMMA TypeInit == Init => TypeOK
<1> SUFFICES ASSUME Init PROVE TypeOK
  OBVIOUS
<1>1. calls \in [Cores -> Seq(Call)]
  BY DEF Init
<1>2. fifo \in Seq([x : 0..15, y : 0..7, on : BOOLEAN]) /\ Len(fifo) <= FifoDepth
  BY CrossbarAssumption DEF Init, CrossbarAssumption
<1> QED  BY <1>1, <1>2, CrossbarAssumption DEF Init, TypeOK, CrossbarAssumption

----------------------------------------------------------------------------
(* What the steps of a core do to its stack.                               *)

LEMMA ReturnsEffect ==
  ASSUME TypeOK, NEW c \in Cores, calls[c] # <<>>, Returns(c)
  PROVE  /\ calls' \in [Cores -> Seq(Call)] /\ calls'[c] = Tail(calls[c])
         /\ \A d \in Cores : d # c => calls'[d] = calls[d]
<1> QED  BY StackTypes, StackChange DEF Returns

LEMMA BecomesEffect ==
  ASSUME TypeOK, NEW c \in Cores, calls[c] # <<>>, NEW call \in Call, Becomes(c, call)
  PROVE  /\ calls' \in [Cores -> Seq(Call)] /\ calls'[c] = Onto(call, Tail(calls[c]))
         /\ \A d \in Cores : d # c => calls'[d] = calls[d]
<1>1. Onto(call, Tail(calls[c])) \in Seq(Call)
  BY StackTypes, Topped
<1> QED  BY <1>1, StackChange DEF Becomes, Onto

LEMMA OpenNextEffect ==
  ASSUME TypeOK, NEW c \in Cores, OpenNext(c)
  PROVE  /\ calls[c] # <<>> /\ Head(calls[c]).do = "open"
         /\ calls' \in [Cores -> Seq(Call)]
         /\ \A d \in Cores : d # c => calls'[d] = calls[d]
         /\ \E p \in Head(calls[c]).points :
              LET left == Head(calls[c]).points \ {p}
              IN /\ p \in Crosspoints /\ Write(p, FALSE) \in Call /\ Open(left) \in Call
                 /\ chipSelect' = p.chip /\ lastChipXY' = lastChipXY \ {p}
                 /\ doubt' = doubt /\ strays' = strays
                 /\ left = {} => calls'[c] = Onto(Write(p, FALSE), Tail(calls[c]))
                 /\ left # {} =>
                      calls'[c] = Onto(Write(p, FALSE), Onto(Open(left), Tail(calls[c])))
<1>1. calls[c] # <<>> /\ Head(calls[c]).do = "open"
  BY DEF OpenNext, Does
<1>2. Head(calls[c]) \in Call /\ Tail(calls[c]) \in Seq(Call)
  BY <1>1, StackTypes
<1>3. Head(calls[c]).points \in SUBSET Crosspoints
  BY <1>1, <1>2, CallFields
<1>4. PICK p \in Head(calls[c]).points :
        LET left == Head(calls[c]).points \ {p}
            rest == IF left = {} THEN <<>> ELSE <<Open(left)>>
        IN sendXYraw(c, p, FALSE, rest \o Tail(calls[c]), {})
  BY DEF OpenNext
<1> DEFINE left == Head(calls[c]).points \ {p}
           below == IF left = {} THEN Tail(calls[c]) ELSE Onto(Open(left), Tail(calls[c]))
<1>5. Open(left) \in Call /\ below \in Seq(Call)
  <2>1. Open(left) \in Call
    BY <1>3, CallTypes
  <2> QED  BY <2>1, <1>2, Topped
<1>6. sendXYraw(c, p, FALSE, below, {})
  <2>1. CASE left = {}
    <3>1. <<>> \o Tail(calls[c]) = Tail(calls[c])
      BY <1>2
    <3> QED  BY <1>4, <2>1, <3>1
  <2>2. CASE left # {}
    BY <1>4, <2>2 DEF Onto
  <2> QED  BY <2>1, <2>2
<1>7. Conflicting(p, FALSE) = {}
  BY DEF Conflicting
<1>0. p \in Crosspoints /\ p \in Hops /\ InRange(p)
  BY <1>3, HopTypes
<1> HIDE DEF below
<1>8. /\ calls' \in [Cores -> Seq(Call)] /\ Write(p, FALSE) \in Call
      /\ \A d \in Cores : d # c => calls'[d] = calls[d]
      /\ calls'[c] = Onto(Write(p, FALSE), below)
  BY <1>0, <1>5, <1>6, <1>7, RawCall
<1>9. /\ chipSelect' = p.chip /\ lastChipXY' = lastChipXY \ {p}
      /\ doubt' = doubt /\ strays' = strays
  BY <1>0, <1>6, <1>7 DEF sendXYraw
<1> QED  BY <1>1, <1>3, <1>5, <1>8, <1>9 DEF below

(* What sendPath notes of a hop: an unresolved one it does not remember.   *)
Noted(p) ==
  \/ InRange(p) /\ p \in Crosspoints /\ lastChipXY' = lastChipXY \cup {p} /\ strays' = strays
  \/ /\ ~InRange(p) /\ Masked(p) \in Crosspoints
     /\ lastChipXY' = lastChipXY /\ strays' = strays \cup {Masked(p)}

LEMMA NextHopEffect ==
  ASSUME TypeOK, NEW c \in Cores, NextHop(c)
  PROVE  /\ calls[c] # <<>> /\ Head(calls[c]).do = "send"
         /\ Sends(c).hop \in 1..Len(Sends(c).path) /\ Sends(c).path[Sends(c).hop] \in Hops
         /\ calls' \in [Cores -> Seq(Call)]
         /\ \A d \in Cores : d # c => calls'[d] = calls[d]
         /\ \E p \in Hops, next \in Call :
              /\ p = Sends(c).path[Sends(c).hop]
              /\ next.do = "send" /\ next.hop = Sends(c).hop + 1 /\ next.left = Sends(c).left
              /\ next.path = Sends(c).path /\ next.noted = Sends(c).noted
              /\ chipSelect' = p.chip
              /\ \/ /\ Unrouted(p) /\ UNCHANGED <<lastChipXY, strays, doubt>>
                    /\ calls'[c] = Onto(next, Tail(calls[c]))
                 \/ /\ ~Unrouted(p) /\ Noted(p) /\ (~InRange(p) => Conflicting(p, TRUE) = {})
                    /\ Write(p, TRUE) \in Call
                    /\ Conflicting(p, TRUE) \in SUBSET Crosspoints
                    /\ Open(Conflicting(p, TRUE)) \in Call
                    /\ Conflicting(p, TRUE) = {} =>
                         /\ doubt' = doubt
                         /\ calls'[c] = Onto(Write(p, TRUE), Onto(next, Tail(calls[c])))
                    /\ Conflicting(p, TRUE) # {} =>
                         /\ doubt' = doubt \cup {"clash"}
                         /\ calls'[c] =
                              Onto(Open(Conflicting(p, TRUE)), Onto(Write(p, TRUE), Onto(next, Tail(calls[c]))))
<1>1. calls[c] # <<>> /\ Head(calls[c]).do = "send" /\ ~Out(c)
  BY DEF NextHop, Does
<1>2. Head(calls[c]) \in Call /\ Tail(calls[c]) \in Seq(Call)
  BY <1>1, StackTypes
<1>3. Sends(c).path \in Seq(Hops) /\ Sends(c).hop \in Nat \ {0}
  BY <1>1, <1>2, CallFields DEF Sends
<1>4. Sends(c).hop \in 1..Len(Sends(c).path)
  BY <1>1, <1>3 DEF Out
<1> DEFINE p == Sends(c).path[Sends(c).hop]
           next == [Sends(c) EXCEPT !.hop = @ + 1]
           below == Onto(next, Tail(calls[c]))
<1>5. p \in Hops
  BY <1>3, <1>4
<1>6. /\ next \in Call /\ next.do = "send" /\ next.hop = Sends(c).hop + 1
      /\ next.left = Sends(c).left /\ next.path = Sends(c).path
      /\ next.noted = Sends(c).noted
  BY <1>1, <1>2, CallChanges DEF Sends
<1>7. below \in Seq(Call)
  BY <1>2, <1>6, Topped
<1>8. \/ /\ Unrouted(p) /\ chipSelect' = p.chip /\ calls' = [calls EXCEPT ![c] = below]
         /\ UNCHANGED <<lastChipXY, strays, doubt>>
      \/ ~Unrouted(p) /\ sendXYraw(c, p, TRUE, below, {})
  BY DEF NextHop, Onto
<1>9. CASE /\ Unrouted(p) /\ chipSelect' = p.chip /\ calls' = [calls EXCEPT ![c] = below]
           /\ UNCHANGED <<lastChipXY, strays, doubt>>
  <2>1. /\ calls' \in [Cores -> Seq(Call)] /\ calls'[c] = below
        /\ \A d \in Cores : d # c => calls'[d] = calls[d]
    BY <1>7, <1>9, StackChange
  <2> HIDE DEF p, next
  <2> QED  BY <1>1, <1>4, <1>5, <1>6, <1>9, <2>1 DEF p
<1>10. CASE ~Unrouted(p) /\ sendXYraw(c, p, TRUE, below, {})
  <2> HIDE DEF p, next, below
  <2>1. (InRange(p) => p \in Crosspoints) /\ Masked(p) \in Crosspoints
    BY <1>5, HopTypes
  <2>2. /\ Conflicting(p, TRUE) \in SUBSET Crosspoints
        /\ Write(p, TRUE) \in Call /\ Open(Conflicting(p, TRUE)) \in Call
        /\ calls' \in [Cores -> Seq(Call)]
        /\ \A d \in Cores : d # c => calls'[d] = calls[d]
        /\ Conflicting(p, TRUE) = {} => calls'[c] = Onto(Write(p, TRUE), below)
        /\ Conflicting(p, TRUE) # {} =>
             calls'[c] = Onto(Open(Conflicting(p, TRUE)), Onto(Write(p, TRUE), below))
    BY <1>5, <1>7, <1>10, RawCall
  <2>4. ~InRange(p) => Conflicting(p, TRUE) = {}
    BY DEF Conflicting
  <2>3. /\ chipSelect' = p.chip /\ Noted(p)
        /\ Conflicting(p, TRUE) = {} => doubt' = doubt
        /\ Conflicting(p, TRUE) # {} => doubt' = doubt \cup {"clash"}
    BY <1>10, <2>1 DEF sendXYraw, Noted
  <2> QED  BY <1>1, <1>4, <1>5, <1>6, <1>10, <2>2, <2>3, <2>4 DEF p, below
<1> QED  BY <1>8, <1>9, <1>10

LEMMA NextPathEffect ==
  ASSUME TypeOK, NEW c \in Cores, NextPath(c)
  PROVE  /\ calls[c] # <<>> /\ Head(calls[c]).do = "send"
         /\ Sends(c).hop > Len(Sends(c).path) /\ Sends(c).path \in Seq(Hops)
         /\ calls' \in [Cores -> Seq(Call)]
         /\ \A d \in Cores : d # c => calls'[d] = calls[d]
         /\ LET noted == IF Sends(c).noted THEN PointsOf({Sends(c).path}) ELSE {}
            IN /\ noted \in SUBSET Crosspoints
               /\ lastChipXY' = lastChipXY \cup noted
               /\ chipHadConnections' = chipHadConnections \cup ChipsOf(noted)
         /\ \/ Sends(c).left = {} /\ calls'[c] = Tail(calls[c])
            \/ \E path \in Sends(c).left, next \in Call :
                 /\ next.do = "send" /\ next.hop = 1 /\ next.left = Sends(c).left \ {path}
                 /\ next.path = path /\ next.noted = Sends(c).noted
                 /\ calls'[c] = Onto(next, Tail(calls[c]))
<1>1. calls[c] # <<>> /\ Head(calls[c]).do = "send" /\ Sends(c).hop > Len(Sends(c).path)
  BY DEF NextPath, Does, Out
<1>2. Head(calls[c]) \in Call /\ Tail(calls[c]) \in Seq(Call)
  BY <1>1, StackTypes
<1>3. Sends(c).path \in Seq(Hops) /\ Sends(c).left \in SUBSET Seq(Hops)
  BY <1>1, <1>2, CallFields DEF Sends
<1>4. LET noted == IF Sends(c).noted THEN PointsOf({Sends(c).path}) ELSE {}
      IN /\ noted \in SUBSET Crosspoints
         /\ lastChipXY' = lastChipXY \cup noted
         /\ chipHadConnections' = chipHadConnections \cup ChipsOf(noted)
  BY <1>3, PointTypes DEF NextPath
<1>5. \/ Sends(c).left = {} /\ Returns(c)
      \/ \E path \in Sends(c).left :
           Becomes(c, [Sends(c) EXCEPT !.left = @ \ {path}, !.path = path, !.hop = 1])
  BY DEF NextPath
<1>6. CASE Sends(c).left = {} /\ Returns(c)
  BY <1>1, <1>3, <1>4, <1>6, ReturnsEffect
<1>7. ASSUME NEW path \in Sends(c).left,
             Becomes(c, [Sends(c) EXCEPT !.left = @ \ {path}, !.path = path, !.hop = 1])
      PROVE  /\ calls' \in [Cores -> Seq(Call)]
             /\ \A d \in Cores : d # c => calls'[d] = calls[d]
             /\ \E next \in Call :
                 /\ next.do = "send" /\ next.hop = 1 /\ next.left = Sends(c).left \ {path}
                 /\ next.path = path /\ next.noted = Sends(c).noted
                 /\ calls'[c] = Onto(next, Tail(calls[c]))
  <2> DEFINE next == [Sends(c) EXCEPT !.left = @ \ {path}, !.path = path, !.hop = 1]
  <2>1. /\ next \in Call /\ next.do = "send" /\ next.hop = 1
        /\ next.left = Sends(c).left \ {path} /\ next.path = path
        /\ next.noted = Sends(c).noted
    <3>1. Sends(c) \in Call /\ Sends(c).do = "send"
      BY <1>1, <1>2 DEF Sends
    <3> QED  BY <3>1, CallChanges
  <2>2. Becomes(c, next)
    BY <1>7
  <2> HIDE DEF next
  <2>3. /\ calls' \in [Cores -> Seq(Call)]
        /\ \A d \in Cores : d # c => calls'[d] = calls[d]
        /\ calls'[c] = Onto(next, Tail(calls[c]))
    BY <1>1, <2>1, <2>2, BecomesEffect
  <2> QED  BY <2>1, <2>3
<1> QED  BY <1>1, <1>3, <1>4, <1>5, <1>6, <1>7

LEMMA SearchEffect ==
  ASSUME TypeOK, NEW c \in Cores, Search(c)
  PROVE  /\ calls[c] # <<>> /\ Head(calls[c]).do = "search"
         /\ calls' \in [Cores -> Seq(Call)]
         /\ \A d \in Cores : d # c => calls'[d] = calls[d]
         /\ \/ \E next \in Head(calls[c]).rows :
                 LET left == {row \in Head(calls[c]).rows : Before(next, row)}
                 IN /\ \A row \in Head(calls[c]).rows : Opened(row) # {} => ~Before(row, next)
                    /\ Open(Opened(next)) \in Call /\ SearchIn(left) \in Call
                    /\ calls'[c] = Onto(Open(Opened(next)), Onto(SearchIn(left), Tail(calls[c])))
                    /\ UNCHANGED <<lastChipXY, chipHadConnections>>
            \/ /\ \A row \in Head(calls[c]).rows : Opened(row) = {}
               /\ lastChipXY' = Wanted /\ chipHadConnections' = ChipsOf(Wanted)
               /\ calls'[c] = Tail(calls[c])
<1>1. calls[c] # <<>> /\ Head(calls[c]).do = "search"
  BY DEF Search, Does
<1>2. Head(calls[c]) \in Call /\ Tail(calls[c]) \in Seq(Call)
  BY <1>1, StackTypes
<1>3. Head(calls[c]).rows \in SUBSET Rows
  BY <1>1, <1>2, CallFields
<1> DEFINE rows == {row \in Head(calls[c]).rows : Opened(row) # {}}
           left(next) == {row \in Head(calls[c]).rows : Before(next, row)}
<1>4. CASE /\ rows = {} /\ lastChipXY' = Wanted
           /\ chipHadConnections' = ChipsOf(Wanted) /\ Returns(c)
  BY <1>1, <1>4, ReturnsEffect
<1>5. ASSUME NEW next \in rows,
             /\ \A row \in rows : ~Before(row, next)
             /\ calls' = [calls EXCEPT ![c] =
                  <<Open(Opened(next)), SearchIn(left(next))>> \o Tail(@)]
             /\ UNCHANGED <<lastChipXY, chipHadConnections>>
      PROVE  /\ calls' \in [Cores -> Seq(Call)]
             /\ \A d \in Cores : d # c => calls'[d] = calls[d]
             /\ \A row \in Head(calls[c]).rows : Opened(row) # {} => ~Before(row, next)
             /\ Open(Opened(next)) \in Call /\ SearchIn(left(next)) \in Call
             /\ calls'[c] = Onto(Open(Opened(next)), Onto(SearchIn(left(next)), Tail(calls[c])))
  <2> DEFINE a == Open(Opened(next))
             b == SearchIn(left(next))
  <2>1. a \in Call /\ b \in Call
    <3>1. Opened(next) \in SUBSET Crosspoints
      BY DEF Opened, TypeOK
    <3>2. left(next) \in SUBSET Rows
      BY <1>3
    <3> QED  BY <3>1, <3>2, CallTypes
  <2>2. calls' = [calls EXCEPT ![c] = <<a, b>> \o Tail(calls[c])]
    BY <1>5
  <2> HIDE DEF a, b
  <2>3. <<a, b>> \o Tail(calls[c]) = Onto(a, Onto(b, Tail(calls[c])))
    <3>1. <<a, b>> = <<a>> \o <<b>>
      BY <2>1, PairIsConcat
    <3>2. <<a>> \in Seq(Call) /\ <<b>> \in Seq(Call)
      BY <2>1
    <3>3. (<<a>> \o <<b>>) \o Tail(calls[c]) = <<a>> \o (<<b>> \o Tail(calls[c]))
      BY <3>2, <1>2, ConcatAssociative
    <3> QED  BY <3>1, <3>3 DEF Onto
  <2>4. Onto(a, Onto(b, Tail(calls[c]))) \in Seq(Call)
    BY <2>1, <1>2, Topped
  <2>5. /\ calls' \in [Cores -> Seq(Call)]
        /\ \A d \in Cores : d # c => calls'[d] = calls[d]
        /\ calls'[c] = Onto(a, Onto(b, Tail(calls[c])))
    BY <2>2, <2>3, <2>4, StackChange
  <2> QED  BY <1>5, <2>1, <2>5 DEF a, b
<1>6. \/ /\ rows = {} /\ lastChipXY' = Wanted
         /\ chipHadConnections' = ChipsOf(Wanted) /\ Returns(c)
      \/ \E next \in rows :
           /\ \A row \in rows : ~Before(row, next)
           /\ calls' = [calls EXCEPT ![c] =
                <<Open(Opened(next)), SearchIn(left(next))>> \o Tail(@)]
           /\ UNCHANGED <<lastChipXY, chipHadConnections>>
  BY DEF Search
<1> QED  BY <1>1, <1>4, <1>5, <1>6

LEMMA RawEffect ==
  ASSUME TypeOK, NEW p \in Crosspoints, NEW on \in BOOLEAN, jl_send_raw(p, on)
  PROVE  /\ calls[0] = <<>> /\ (fifo = <<>> \/ calls[1] # <<>>) /\ since < MaxSince
         /\ Raced(0) \subseteq doubt' /\ doubt \subseteq doubt'
         /\ doubt' \subseteq doubt \cup {"race", "clash", "unsearched"}
         /\ on /\ p.chip \notin chipHadConnections => "unsearched" \in doubt'
         /\ chipSelect' = p.chip
         /\ lastChipXY' = IF on THEN lastChipXY \cup {p} ELSE lastChipXY \ {p}
         /\ strays' = strays
         /\ Conflicting(p, on) \in SUBSET Crosspoints
         /\ Write(p, on) \in Call /\ Open(Conflicting(p, on)) \in Call
         /\ calls' \in [Cores -> Seq(Call)] /\ calls'[1] = calls[1]
         /\ Conflicting(p, on) = {} => calls'[0] = Onto(Write(p, on), <<>>)
         /\ Conflicting(p, on) # {} =>
              /\ calls'[0] = Onto(Open(Conflicting(p, on)), Onto(Write(p, on), <<>>))
              /\ "clash" \in doubt'
<1> DEFINE why == Raced(0) \cup (IF on /\ p.chip \notin chipHadConnections
                                 THEN {"unsearched"} ELSE {})
<1>1. sendXYraw(0, p, on, <<>>, why)
  BY DEF jl_send_raw
<1>2. why \subseteq {"race", "unsearched"} /\ Raced(0) \subseteq why
      /\ (on /\ p.chip \notin chipHadConnections => "unsearched" \in why)
  BY DEF Raced
<1>3. calls[0] = <<>> /\ (fifo = <<>> \/ calls[1] # <<>>) /\ since < MaxSince
  BY DEF jl_send_raw, CanStart
<1> HIDE DEF why
<1>4. 0 \in Cores /\ 1 \in Cores /\ <<>> \in Seq(Call) /\ p \in Hops /\ InRange(p)
  BY HopTypes DEF Cores
<1>5. /\ Conflicting(p, on) \in SUBSET Crosspoints
      /\ Write(p, on) \in Call /\ Open(Conflicting(p, on)) \in Call
      /\ calls' \in [Cores -> Seq(Call)] /\ calls'[1] = calls[1]
      /\ Conflicting(p, on) = {} => calls'[0] = Onto(Write(p, on), <<>>)
      /\ Conflicting(p, on) # {} =>
           calls'[0] = Onto(Open(Conflicting(p, on)), Onto(Write(p, on), <<>>))
  <2>1. /\ Conflicting(p, on) \in SUBSET Crosspoints
        /\ Write(p, on) \in Call /\ Open(Conflicting(p, on)) \in Call
        /\ calls' \in [Cores -> Seq(Call)]
        /\ \A d \in Cores : d # 0 => calls'[d] = calls[d]
    BY <1>1, <1>4, RawCall
  <2>2. Conflicting(p, on) = {} => calls'[0] = Onto(Write(p, on), <<>>)
    <3> DEFINE below == <<>>
    <3>1. below \in Seq(Call) /\ sendXYraw(0, p, on, below, why)
      BY <1>1, <1>4
    <3> HIDE DEF below
    <3> DEFINE w == Write(p, on)
               none == Conflicting(p, on) = {}
    <3>2. none => calls'[0] = Onto(w, below)
      <4>1. \A d \in Cores : sendXYraw(d, p, on, below, why) =>
              (Conflicting(p, on) = {} => calls'[d] = Onto(Write(p, on), below))
        BY <1>4, <3>1, RawCall
      <4> HIDE DEF w
      <4> QED  BY <4>1, <3>1, <1>4 DEF w
    <3> QED  BY <3>2 DEF below
  <2>3. Conflicting(p, on) # {} =>
           calls'[0] = Onto(Open(Conflicting(p, on)), Onto(Write(p, on), <<>>))
    <3> DEFINE s == Onto(Open(Conflicting(p, on)), Onto(Write(p, on), <<>>))
    <3>1. Conflicting(p, on) # {} => calls'[0] = s
      BY <1>1, <1>4, RawCall
    <3> HIDE DEF s
    <3> QED  BY <3>1 DEF s
  <2>4. calls'[1] = calls[1]
    BY <2>1, <1>4
  <2> QED  BY <2>1, <2>2, <2>3, <2>4
<1>6. /\ chipSelect' = p.chip
      /\ lastChipXY' = IF on THEN lastChipXY \cup {p} ELSE lastChipXY \ {p}
      /\ strays' = strays
      /\ doubt' = doubt \cup why \cup (IF Conflicting(p, on) = {} THEN {} ELSE {"clash"})
  BY <1>1, <1>4 DEF sendXYraw
<1> QED  BY <1>2, <1>3, <1>5, <1>6

LEMMA SendPathsEffect ==
  ASSUME TypeOK, sendPaths
  PROVE  /\ calls[1] = <<>> /\ (fifo = <<>> \/ calls[0] # <<>>) /\ request # 0
         /\ calls' \in [Cores -> Seq(Call)] /\ calls'[0] = calls[0]
         /\ \/ /\ request = -1 /\ fifo = <<>>
               /\ switches' = {} /\ lastChipXY' = {} /\ chipHadConnections' = {}
               /\ calls'[1] = Onto(sendEach(paths, TRUE), <<Do("acknowledge")>>)
               /\ strays' = {} /\ doubt' = {}
            \/ /\ request \in {1, 3}
               /\ calls'[1] = Onto(SearchIn(Rows), Onto(sendEach(Changed, FALSE), <<Do("acknowledge")>>))
               /\ doubt' = doubt \cup Raced(1)
               /\ UNCHANGED <<switches, lastChipXY, chipHadConnections, strays, since>>
<1>1. calls[1] = <<>> /\ (fifo = <<>> \/ calls[0] # <<>>) /\ request # 0
  BY DEF sendPaths, CanStart
<1>2. 0 \in Cores /\ 1 \in Cores
  BY DEF Cores
<1>3. ASSUME request = -1, fifo = <<>>,
             switches' = {} /\ lastChipXY' = {} /\ chipHadConnections' = {},
             calls' = [calls EXCEPT ![1] = sendEveryPath \o <<Do("acknowledge")>>],
             strays' = {} /\ doubt' = {}
      PROVE  /\ calls' \in [Cores -> Seq(Call)] /\ calls'[0] = calls[0]
             /\ calls'[1] = Onto(sendEach(paths, TRUE), <<Do("acknowledge")>>)
  <2> DEFINE s == sendEveryPath \o <<Do("acknowledge")>>
  <2>1. s \in Seq(Call) /\ s = Onto(sendEach(paths, TRUE), <<Do("acknowledge")>>)
    BY PathsType
  <2>2. calls' = [calls EXCEPT ![1] = s]
    BY <1>3
  <2> HIDE DEF s
  <2>3. /\ calls' \in [Cores -> Seq(Call)] /\ calls'[1] = s
        /\ \A d \in Cores : d # 1 => calls'[d] = calls[d]
    BY <1>2, <2>1, <2>2, StackChange
  <2> QED  BY <1>2, <2>1, <2>3
<1>4. ASSUME calls' = [calls EXCEPT ![1] = sendChanges \o <<Do("acknowledge")>>]
      PROVE  /\ calls' \in [Cores -> Seq(Call)] /\ calls'[0] = calls[0]
             /\ calls'[1] = Onto(SearchIn(Rows), Onto(sendEach(Changed, FALSE), <<Do("acknowledge")>>))
  <2> DEFINE s == sendChanges \o <<Do("acknowledge")>>
             t == Onto(SearchIn(Rows), Onto(sendEach(Changed, FALSE), <<Do("acknowledge")>>))
  <2>1. s \in Seq(Call) /\ s = t
    BY PathsType
  <2>2. calls' = [calls EXCEPT ![1] = s]
    BY <1>4
  <2> HIDE DEF s
  <2>3. /\ calls' \in [Cores -> Seq(Call)] /\ calls'[1] = s
        /\ \A d \in Cores : d # 1 => calls'[d] = calls[d]
    BY <1>2, <2>1, <2>2, StackChange
  <2> HIDE DEF t
  <2>4. calls' \in [Cores -> Seq(Call)] /\ calls'[0] = calls[0] /\ calls'[1] = t
    BY <1>2, <2>1, <2>3
  <2> QED  BY <2>4 DEF t
<1> QED  BY <1>1, <1>3, <1>4 DEF sendPaths

LEMMA RefreshEffect ==
  ASSUME TypeOK, NEW board \in Boards, NEW kind \in {-1, 1, 3}, Refresh(board, kind)
  PROVE  /\ calls[0] = <<>> /\ calls[1] = <<>> /\ fifo = <<>> /\ request = 0
         /\ calls' \in [Cores -> Seq(Call)] /\ calls'[1] = <<>>
         /\ kind = 3 => calls'[0] = <<>>
         /\ kind # 3 => calls'[0] = <<Do("await")>>
         /\ paths' = board /\ board \in SUBSET Seq(Hops) /\ request' = kind
         /\ since' \in 0..MaxSince
<1>1. calls[0] = <<>> /\ calls[1] = <<>> /\ fifo = <<>> /\ request = 0
  BY DEF Refresh, CanStart
<1>2. <<Do("await")>> \in Seq(Call) /\ <<>> \in Seq(Call) /\ 0 \in Cores /\ 1 \in Cores
  BY CallTypes DEF Cores
<1>3. calls' = [calls EXCEPT ![0] = IF kind = 3 THEN <<>> ELSE <<Do("await")>>]
  BY DEF Refresh
<1>4. board \in SUBSET Seq(Hops) /\ paths' = board /\ request' = kind
  BY CrossbarAssumption DEF CrossbarAssumption, Refresh
<1>5. since' \in 0..MaxSince
  <2>1. since \in 0..MaxSince /\ MaxSince \in Nat
    BY CrossbarAssumption DEF CrossbarAssumption, TypeOK
  <2>2. kind # -1 => since < MaxSince
    BY DEF Refresh
  <2>3. since' = since + (IF kind = -1 THEN 0 ELSE 1)
    BY DEF Refresh
  <2> QED  BY <2>1, <2>2, <2>3
<1> DEFINE s == IF kind = 3 THEN <<>> ELSE <<Do("await")>>
<1>6. s \in Seq(Call) /\ calls' = [calls EXCEPT ![0] = s]
  BY <1>2, <1>3
<1> HIDE DEF s
<1>7. /\ calls' \in [Cores -> Seq(Call)] /\ calls'[0] = s
      /\ \A d \in Cores : d # 0 => calls'[d] = calls[d]
  BY <1>2, <1>6, StackChange
<1>8. calls'[1] = <<>>
  BY <1>1, <1>2, <1>7
<1>9. (kind = 3 => s = <<>>) /\ (kind # 3 => s = <<Do("await")>>)
  BY DEF s
<1> QED  BY <1>1, <1>4, <1>5, <1>7, <1>8, <1>9

(* The byte that is strobed.                                               *)
LEMMA FifoHead ==
  ASSUME TypeOK, fifo # <<>>
  PROVE  /\ Head(fifo).x \in 0..15 /\ Head(fifo).y \in 0..7 /\ Head(fifo).on \in BOOLEAN
         /\ Tail(fifo) \in Seq([x : 0..15, y : 0..7, on : BOOLEAN])
         /\ Len(Tail(fifo)) <= FifoDepth
<1> DEFINE bytes == [x : 0..15, y : 0..7, on : BOOLEAN]
<1>1. fifo \in Seq(bytes) /\ Len(fifo) <= FifoDepth
  BY DEF TypeOK
<1> HIDE DEF bytes
<1>2. /\ Head(fifo) \in bytes /\ Tail(fifo) \in Seq(bytes)
      /\ Len(Tail(fifo)) = Len(fifo) - 1 /\ Len(fifo) \in Nat
  BY <1>1
<1>3. Len(Tail(fifo)) <= FifoDepth
  BY <1>1, <1>2, Parameters
<1> QED  BY <1>2, <1>3 DEF bytes

LEMMA StrobeType ==
  ASSUME TypeOK, isrFromPio
  PROVE  /\ switches' \in SUBSET Crosspoints
         /\ fifo' \in Seq([x : 0..15, y : 0..7, on : BOOLEAN]) /\ Len(fifo') <= FifoDepth
         /\ chipSelect' \in 0..11 \cup {Nowhere}
<1>1. fifo # <<>> /\ fifo' = Tail(fifo) /\ chipSelect' = Nowhere
  BY DEF isrFromPio
<1> DEFINE point == [chip |-> chipSelect, x |-> Head(fifo).x, y |-> Head(fifo).y]
<1>2. switches' = IF chipSelect = Nowhere THEN switches
                  ELSE IF Head(fifo).on THEN switches \cup {point} ELSE switches \ {point}
  BY DEF isrFromPio
<1>3. chipSelect # Nowhere => point \in Crosspoints
  BY <1>1, FifoHead DEF TypeOK, Crosspoints
<1> QED  BY <1>1, <1>2, <1>3, FifoHead DEF TypeOK

LEMMA PutEffect ==
  ASSUME TypeOK, NEW c \in Cores, Put(c)
  PROVE  /\ calls[c] # <<>> /\ Head(calls[c]).do = "write" /\ Head(calls[c]).at = "put"
         /\ fifo' = IF Len(fifo) < FifoDepth THEN Append(fifo, Byte(Head(calls[c]))) ELSE fifo
         /\ Byte(Head(calls[c])) \in [x : 0..15, y : 0..7, on : BOOLEAN]
         /\ calls' \in [Cores -> Seq(Call)]
         /\ \A d \in Cores : d # c => calls'[d] = calls[d]
         /\ \E sent \in Call :
              /\ sent.do = "write" /\ sent.at = "wait"
              /\ sent.point = Head(calls[c]).point /\ sent.on = Head(calls[c]).on
              /\ calls'[c] = Onto(sent, Tail(calls[c]))
<1>1. calls[c] # <<>> /\ Head(calls[c]).do = "write" /\ Head(calls[c]).at = "put"
  BY DEF Put, Writes, Does
<1>2. Head(calls[c]) \in Call
  BY <1>1, StackTypes
<1> DEFINE sent == [Head(calls[c]) EXCEPT !.at = "wait"]
<1>3. /\ sent \in Call /\ sent.do = "write" /\ sent.at = "wait"
      /\ sent.point = Head(calls[c]).point /\ sent.on = Head(calls[c]).on
  BY <1>1, <1>2, CallChanges
<1>4. Becomes(c, sent)
  BY DEF Put
<1>5. Byte(Head(calls[c])) \in [x : 0..15, y : 0..7, on : BOOLEAN]
  <2>1. Masked(Head(calls[c]).point) \in Crosspoints /\ Head(calls[c]).on \in BOOLEAN
    BY <1>1, <1>2, CallFields, HopTypes
  <2> QED  BY <2>1 DEF Byte, Crosspoints
<1>6. fifo' = IF Len(fifo) < FifoDepth THEN Append(fifo, Byte(Head(calls[c]))) ELSE fifo
  BY DEF Put
<1> HIDE DEF sent
<1>7. /\ calls' \in [Cores -> Seq(Call)] /\ calls'[c] = Onto(sent, Tail(calls[c]))
      /\ \A d \in Cores : d # c => calls'[d] = calls[d]
  BY <1>1, <1>3, <1>4, BecomesEffect
<1> QED  BY <1>1, <1>3, <1>5, <1>6, <1>7

LEMMA TypeStep == TypeOK /\ [Next]_vars => TypeOK'
<1> SUFFICES ASSUME TypeOK, [Next]_vars PROVE TypeOK'
  OBVIOUS
<1>0. since \in 0..MaxSince /\ MaxSince \in Nat
  BY Parameters DEF TypeOK
<1>1. CASE isrFromPio
  BY <1>1, StrobeType DEF isrFromPio, TypeOK
<1>2. ASSUME NEW c \in Cores, CoreStep(c) PROVE TypeOK'
  <2>1. CASE OpenNext(c)
    <3>1. PICK p \in Crosspoints : chipSelect' = p.chip /\ lastChipXY' = lastChipXY \ {p}
                                   /\ doubt' = doubt /\ strays' = strays
      BY <2>1, OpenNextEffect
    <3>2. calls' \in [Cores -> Seq(Call)]
      BY <2>1, OpenNextEffect
    <3>3. p.chip \in 0..11
      BY DEF Crosspoints
    <3> QED  BY <2>1, <3>1, <3>2, <3>3 DEF TypeOK, OpenNext
  <2>2. CASE Put(c)
    <3>1. fifo' \in Seq([x : 0..15, y : 0..7, on : BOOLEAN]) /\ Len(fifo') <= FifoDepth
      <4> DEFINE b == Byte(Head(calls[c]))
                 bytes == [x : 0..15, y : 0..7, on : BOOLEAN]
      <4>1. fifo \in Seq(bytes) /\ Len(fifo) <= FifoDepth
        BY DEF TypeOK
      <4>2. b \in bytes /\ fifo' = IF Len(fifo) < FifoDepth THEN Append(fifo, b) ELSE fifo
        BY <2>2, PutEffect
      <4> HIDE DEF b, bytes
      <4>3. fifo' \in Seq(bytes) /\ Len(fifo') <= FifoDepth
        BY <4>1, <4>2, Parameters
      <4> QED  BY <4>3 DEF bytes
    <3>2. calls' \in [Cores -> Seq(Call)]
      BY <2>2, PutEffect
    <3> QED  BY <2>2, <3>1, <3>2 DEF TypeOK, Put
  <2>3. CASE Return(c)
    <3>1. calls' \in [Cores -> Seq(Call)]
      BY <2>3, ReturnsEffect DEF Return, Writes, Does
    <3> QED  BY <2>3, <3>1 DEF TypeOK, Return
  <2>4. CASE GiveUp(c)
    <3>1. calls' \in [Cores -> Seq(Call)]
      BY <2>4, ReturnsEffect DEF GiveUp, Writes, Does
    <3> QED  BY <2>4, <3>1 DEF TypeOK, GiveUp
  <2>5. CASE NextHop(c)
    <3>1. PICK p \in Hops :
            /\ chipSelect' = p.chip
            /\ UNCHANGED <<lastChipXY, strays>> \/ Noted(p)
            /\ doubt' = doubt \/ doubt' = doubt \cup {"clash"}
      BY <2>5, NextHopEffect
    <3>2. calls' \in [Cores -> Seq(Call)]
      BY <2>5, NextHopEffect
    <3>3. p.chip \in 0..11
      BY DEF Hops
    <3>4. lastChipXY' \in SUBSET Crosspoints /\ strays' \in SUBSET Crosspoints
      BY <3>1 DEF TypeOK, Noted
    <3> QED  BY <2>5, <3>1, <3>2, <3>3, <3>4 DEF TypeOK, NextHop
  <2>6. CASE NextPath(c)
    <3>1. PICK noted \in SUBSET Crosspoints :
            /\ lastChipXY' = lastChipXY \cup noted
            /\ chipHadConnections' = chipHadConnections \cup ChipsOf(noted)
      BY <2>6, NextPathEffect
    <3>2. calls' \in [Cores -> Seq(Call)]
      BY <2>6, NextPathEffect
    <3>3. ChipsOf(noted) \in SUBSET (0..11)
      BY PointTypes
    <3> QED  BY <2>6, <3>1, <3>2, <3>3 DEF TypeOK, NextPath
  <2>7. CASE Search(c)
    <3>1. \/ UNCHANGED <<lastChipXY, chipHadConnections>>
          \/ lastChipXY' = Wanted /\ chipHadConnections' = ChipsOf(Wanted)
      BY <2>7, SearchEffect
    <3>2. calls' \in [Cores -> Seq(Call)]
      BY <2>7, SearchEffect
    <3>3. Wanted \in SUBSET Crosspoints /\ ChipsOf(Wanted) \in SUBSET (0..11)
      BY PointTypes
    <3> QED  BY <2>7, <3>1, <3>2, <3>3 DEF TypeOK, Search
  <2>8. CASE Acknowledge(c)
    <3>1. calls' \in [Cores -> Seq(Call)]
      BY <2>8, ReturnsEffect DEF Acknowledge, Does
    <3> QED  BY <2>8, <3>1 DEF TypeOK, Acknowledge
  <2>9. CASE Await(c)
    <3>1. calls' \in [Cores -> Seq(Call)]
      BY <2>9, ReturnsEffect DEF Await, Does
    <3> QED  BY <2>9, <3>1 DEF TypeOK, Await
  <2> QED  BY <1>2, <2>1, <2>2, <2>3, <2>4, <2>5, <2>6, <2>7, <2>8, <2>9 DEF CoreStep
<1>3. CASE sendPaths
  <2>1. since' \in 0..MaxSince
    BY <1>0, <1>3 DEF sendPaths
  <2>2. Raced(1) \subseteq {"race"}
    BY DEF Raced
  <2>3. /\ calls' \in [Cores -> Seq(Call)]
        /\ switches' \in SUBSET Crosspoints /\ lastChipXY' \in SUBSET Crosspoints
        /\ chipHadConnections' \in SUBSET (0..11) /\ strays' \in SUBSET Crosspoints
        /\ doubt' \in SUBSET {"race", "clash", "unsearched", "no reset"}
    BY <1>3, <2>2, SendPathsEffect DEF TypeOK
  <2> QED  BY <1>3, <2>1, <2>3 DEF TypeOK, sendPaths
<1>4. ASSUME NEW board \in Boards, NEW kind \in {-1, 1, 3}, Refresh(board, kind)
      PROVE  TypeOK'
  BY <1>4, RefreshEffect DEF TypeOK, Refresh
<1>5. ASSUME NEW p \in Raw, NEW on \in BOOLEAN, jl_send_raw(p, on)
      PROVE  TypeOK'
  <2>1. p \in Crosspoints /\ p.chip \in 0..11
    BY Parameters DEF Crosspoints
  <2>2. /\ calls' \in [Cores -> Seq(Call)] /\ chipSelect' \in 0..11
        /\ lastChipXY' \in SUBSET Crosspoints /\ strays' = strays
        /\ doubt' \subseteq doubt \cup {"race", "clash", "unsearched"}
        /\ since < MaxSince
    <3>1. lastChipXY \in SUBSET Crosspoints
      BY DEF TypeOK
    <3>2. /\ calls' \in [Cores -> Seq(Call)] /\ chipSelect' = p.chip
          /\ lastChipXY' = IF on THEN lastChipXY \cup {p} ELSE lastChipXY \ {p}
          /\ strays' = strays
          /\ doubt' \subseteq doubt \cup {"race", "clash", "unsearched"}
          /\ since < MaxSince
      BY <1>5, <2>1, RawEffect
    <3> QED  BY <2>1, <3>1, <3>2
  <2>3. since' \in 0..MaxSince
    BY <1>0, <1>5, <2>2 DEF jl_send_raw
  <2> QED  BY <1>5, <2>2, <2>3 DEF TypeOK, jl_send_raw
<1>6. CASE refreshPaths
  <2>1. 0 \in Cores
    BY DEF Cores
  <2>2. calls' \in [Cores -> Seq(Call)]
    <3>1. sendEveryPath \in Seq(Call)
      BY PathsType
    <3>2. calls' = [calls EXCEPT ![0] = sendEveryPath]
      BY <1>6 DEF refreshPaths
    <3> QED  BY <2>1, <3>1, <3>2, StackChange
  <2>3. Raced(0) \subseteq {"race"}
    BY DEF Raced
  <2>4. since' \in 0..MaxSince
    <3>1. since < MaxSince /\ since' = since + 1
      BY <1>6 DEF refreshPaths
    <3> QED  BY <1>0, <3>1
  <2>5. lastChipXY' = {} /\ chipHadConnections' = {} /\ doubt' = doubt \cup {"no reset"} \cup Raced(0)
        /\ UNCHANGED <<paths, switches, chipSelect, fifo, request, strays>>
    BY <1>6 DEF refreshPaths
  <2>6. doubt' \in SUBSET {"race", "clash", "unsearched", "no reset"}
    BY <2>3, <2>5 DEF TypeOK
  <2> QED  BY <2>2, <2>4, <2>5, <2>6 DEF TypeOK
<1>7. CASE UNCHANGED vars
  BY <1>7 DEF vars, TypeOK
<1> QED  BY <1>1, <1>2, <1>3, <1>4, <1>5, <1>6, <1>7 DEF Next

----------------------------------------------------------------------------
(* How calls nest.                                                         *)

LEMMA CallForms ==
  /\ \A p : /\ Write(p, TRUE).do = "write" /\ Write(p, TRUE).point = p
            /\ Write(p, TRUE).on = TRUE /\ Write(p, TRUE).at = "put"
  /\ \A p : /\ Write(p, FALSE).do = "write" /\ Write(p, FALSE).point = p
            /\ Write(p, FALSE).on = FALSE /\ Write(p, FALSE).at = "put"
  /\ \A points : Open(points).do = "open" /\ Open(points).points = points
  /\ \A left : /\ sendEach(left, TRUE).do = "send" /\ sendEach(left, TRUE).left = left
               /\ sendEach(left, TRUE).path = <<>> /\ sendEach(left, TRUE).hop = 1
               /\ sendEach(left, TRUE).noted = TRUE
  /\ \A left : /\ sendEach(left, FALSE).do = "send" /\ sendEach(left, FALSE).left = left
               /\ sendEach(left, FALSE).path = <<>> /\ sendEach(left, FALSE).hop = 1
               /\ sendEach(left, FALSE).noted = FALSE
  /\ \A rows : SearchIn(rows).do = "search" /\ SearchIn(rows).rows = rows
  /\ Do("acknowledge").do = "acknowledge" /\ Do("await").do = "await"
<1> QED  BY DEF Write, Open, sendEach, SearchIn, Do

LEMMA NestedEmpty == Nested(<<>>)
<1> QED  BY DEF Nested, Ordered

LEMMA NestedRest ==
  ASSUME NEW stack \in Seq(Call), stack # <<>>, Nested(stack)
  PROVE  /\ Nested(Tail(stack))
         /\ \A call \in ToSet(Tail(stack)) :
              call \in Call /\ Level(Head(stack)) < Level(call) /\ ~Waiting(call)
<1>1. Ordered(stack) /\ \A call \in ToSet(Tail(stack)) : ~Waiting(call)
  BY DEF Nested
<1>2. /\ Ordered(Tail(stack))
      /\ \A call \in ToSet(Tail(stack)) : Level(Head(stack)) < Level(call)
  BY <1>1, OrderedTop
<1>3. Tail(stack) \in Seq(Call) /\ ToSet(Tail(stack)) \subseteq Call
  BY TopAndRest, StackElements
<1>4. Tail(stack) # <<>> => ToSet(Tail(Tail(stack))) \subseteq ToSet(Tail(stack))
  BY <1>3, TopAndRest
<1> QED  BY <1>1, <1>2, <1>3, <1>4 DEF Nested

LEMMA NestedTopped ==
  ASSUME NEW stack \in Seq(Call), Nested(stack), NEW call \in Call,
         \A other \in ToSet(stack) : Level(call) < Level(other) /\ ~Waiting(other)
  PROVE  Nested(Onto(call, stack))
<1>1. Ordered(Onto(call, stack))
  BY OrderedTopped DEF Nested
<1>2. Tail(Onto(call, stack)) = stack
  BY Topped
<1> QED  BY <1>1, <1>2 DEF Nested

(* What a step of a core leaves on its stack, as a set of calls.           *)
LEMMA RestOf ==
  ASSUME TypeOK, CallsNest, NEW c \in Cores, calls[c] # <<>>
  PROVE  /\ Head(calls[c]) \in Call /\ Tail(calls[c]) \in Seq(Call)
         /\ Nested(Tail(calls[c]))
         /\ ToSet(calls[c]) = {Head(calls[c])} \cup ToSet(Tail(calls[c]))
         /\ \A call \in ToSet(Tail(calls[c])) :
              call \in Call /\ Level(Head(calls[c])) < Level(call) /\ ~Waiting(call)
<1>1. calls[c] \in Seq(Call) /\ Nested(calls[c])
  BY DEF TypeOK, CallsNest
<1> QED  BY <1>1, StackTypes, NestedRest

(* Two calls put on what is left.                                          *)
LEMMA NestedTwice ==
  ASSUME NEW stack \in Seq(Call), Nested(stack), NEW a \in Call, NEW b \in Call,
         Level(a) < Level(b), ~Waiting(b),
         \A other \in ToSet(stack) : Level(b) < Level(other) /\ ~Waiting(other),
         NEW rest, rest = Onto(b, stack)
  PROVE  Nested(Onto(a, rest))
<1>1. rest \in Seq(Call) /\ ToSet(rest) = {b} \cup ToSet(stack) /\ Nested(rest)
  BY Topped, NestedTopped
<1>2. \A other \in ToSet(stack) : Level(a) < Level(other)
  <2>1. ToSet(stack) \subseteq Call /\ Level(a) \in 1..6 /\ Level(b) \in 1..6
    BY StackElements, LevelOf
  <2>2. \A other \in ToSet(stack) : Level(other) \in 1..6
    BY <2>1, LevelOf
  <2> QED  BY <2>1, <2>2
<1> QED  BY <1>1, <1>2, NestedTopped

----------------------------------------------------------------------------
(* What the steps of a core leave on its stack: the call on top, the set   *)
(* of those below, and that they nest.                                     *)

Below(c) == ToSet(Tail(calls[c]))

Stacked(c, top, rest) ==
  /\ calls'[c] # <<>> /\ Head(calls'[c]) = top /\ ToSet(Tail(calls'[c])) = rest
  /\ ToSet(calls'[c]) = {top} \cup rest
  /\ Nested(calls'[c])

Popped(c) ==
  /\ ToSet(calls'[c]) = Below(c) /\ Nested(calls'[c])
  /\ calls'[c] # <<>> => Head(calls'[c]) \in Below(c) /\ ToSet(Tail(calls'[c])) \subseteq Below(c)

OthersStay(c) == \A d \in Cores : d # c => calls'[d] = calls[d]

LEMMA PopStack ==
  ASSUME TypeOK, CallsNest, NEW c \in Cores, calls[c] # <<>>, Returns(c)
  PROVE  Popped(c) /\ OthersStay(c)
<1>1. calls'[c] = Tail(calls[c]) /\ \A d \in Cores : d # c => calls'[d] = calls[d]
  BY ReturnsEffect
<1>2. Tail(calls[c]) \in Seq(Call) /\ Nested(Tail(calls[c]))
  BY RestOf
<1>3. Tail(calls[c]) # <<>> =>
        ToSet(Tail(calls[c])) = {Head(Tail(calls[c]))} \cup ToSet(Tail(Tail(calls[c])))
  BY <1>2, TopAndRest
<1> QED  BY <1>1, <1>2, <1>3 DEF Popped, Below, OthersStay

(* One call, or two, put on what was below the top.                        *)
LEMMA StackedOnce ==
  ASSUME TypeOK, CallsNest, NEW c \in Cores, calls[c] # <<>>,
         NEW a \in Call, calls'[c] = Onto(a, Tail(calls[c])),
         Level(a) <= Level(Head(calls[c]))
  PROVE  Stacked(c, a, Below(c))
<1> DEFINE rest == Tail(calls[c])
<1>1. /\ rest \in Seq(Call) /\ Nested(rest) /\ Head(calls[c]) \in Call
      /\ \A call \in ToSet(rest) :
           call \in Call /\ Level(Head(calls[c])) < Level(call) /\ ~Waiting(call)
  BY RestOf
<1>2. \A call \in ToSet(rest) : Level(a) < Level(call)
  BY <1>1, LevelOf
<1> HIDE DEF rest
<1>3. Nested(Onto(a, rest))
  BY <1>1, <1>2, NestedTopped
<1>4. /\ Onto(a, rest) # <<>> /\ Head(Onto(a, rest)) = a /\ Tail(Onto(a, rest)) = rest
      /\ ToSet(Onto(a, rest)) = {a} \cup ToSet(rest)
  BY <1>1, Topped
<1> QED  BY <1>3, <1>4 DEF Stacked, Below, rest

LEMMA StackedTwice ==
  ASSUME TypeOK, CallsNest, NEW c \in Cores, calls[c] # <<>>,
         NEW a \in Call, NEW b \in Call,
         NEW rest, rest = Onto(b, Tail(calls[c])), calls'[c] = Onto(a, rest),
         Level(a) < Level(b), Level(b) <= Level(Head(calls[c])), ~Waiting(b)
  PROVE  Stacked(c, a, {b} \cup Below(c))
<1> DEFINE tail == Tail(calls[c])
<1>1. /\ tail \in Seq(Call) /\ Nested(tail) /\ Head(calls[c]) \in Call
      /\ \A call \in ToSet(tail) :
           call \in Call /\ Level(Head(calls[c])) < Level(call) /\ ~Waiting(call)
  BY RestOf
<1>2. \A call \in ToSet(tail) : Level(b) < Level(call)
  BY <1>1, LevelOf
<1>3. rest = Onto(b, tail)
  OBVIOUS
<1> HIDE DEF tail
<1>4. Nested(Onto(a, rest))
  BY <1>1, <1>2, <1>3, NestedTwice
<1>5. rest \in Seq(Call) /\ ToSet(rest) = {b} \cup ToSet(tail)
  BY <1>1, <1>3, Topped
<1>6. /\ Onto(a, rest) # <<>> /\ Head(Onto(a, rest)) = a /\ Tail(Onto(a, rest)) = rest
      /\ ToSet(Onto(a, rest)) = {a} \cup ToSet(rest)
  BY <1>5, Topped
<1>7. Stacked(c, a, {b} \cup ToSet(tail))
  BY <1>4, <1>5, <1>6 DEF Stacked
<1> QED  BY <1>7 DEF Below, tail

LEMMA PutStack ==
  ASSUME TypeOK, CallsNest, NEW c \in Cores, Put(c)
  PROVE  /\ calls[c] # <<>> /\ Writes(c, "put") /\ OthersStay(c)
         /\ \E sent \in Call :
              /\ sent.do = "write" /\ sent.at = "wait"
              /\ sent.point = Head(calls[c]).point /\ sent.on = Head(calls[c]).on
              /\ Stacked(c, sent, Below(c))
<1>1. calls[c] # <<>> /\ Writes(c, "put")
  BY DEF Put, Writes, Does
<1>2. PICK sent \in Call :
        /\ sent.do = "write" /\ sent.at = "wait"
        /\ sent.point = Head(calls[c]).point /\ sent.on = Head(calls[c]).on
        /\ calls'[c] = Onto(sent, Tail(calls[c]))
  BY PutEffect
<1>3. Level(sent) = Level(Head(calls[c])) /\ Level(sent) \in 1..6
  BY <1>1, <1>2, RestOf, LevelOf DEF Writes, Does
<1>4. Stacked(c, sent, Below(c))
  BY <1>1, <1>2, <1>3, StackedOnce
<1>5. OthersStay(c)
  BY PutEffect DEF OthersStay
<1> QED  BY <1>1, <1>2, <1>4, <1>5

LEMMA OpenNextStack ==
  ASSUME TypeOK, CallsNest, NEW c \in Cores, OpenNext(c)
  PROVE  /\ calls[c] # <<>> /\ Head(calls[c]) \in Call /\ Head(calls[c]).do = "open"
         /\ OthersStay(c)
         /\ \E p \in Head(calls[c]).points :
            \E left \in SUBSET {Open(Head(calls[c]).points \ {p})} :
              /\ p \in Crosspoints /\ Write(p, FALSE) \in Call
              /\ chipSelect' = p.chip /\ lastChipXY' = lastChipXY \ {p}
              /\ doubt' = doubt /\ strays' = strays
              /\ left = {} => Head(calls[c]).points \ {p} = {}
              /\ Stacked(c, Write(p, FALSE), left \cup Below(c))
<1>1. calls[c] # <<>> /\ Head(calls[c]).do = "open" /\ OthersStay(c)
  BY OpenNextEffect DEF OthersStay
<1>2. Head(calls[c]) \in Call
  BY <1>1, RestOf
<1>3. PICK p \in Head(calls[c]).points :
        LET left == Head(calls[c]).points \ {p}
        IN /\ p \in Crosspoints /\ Write(p, FALSE) \in Call /\ Open(left) \in Call
           /\ chipSelect' = p.chip /\ lastChipXY' = lastChipXY \ {p}
           /\ doubt' = doubt /\ strays' = strays
           /\ left = {} => calls'[c] = Onto(Write(p, FALSE), Tail(calls[c]))
           /\ left # {} =>
                calls'[c] = Onto(Write(p, FALSE), Onto(Open(left), Tail(calls[c])))
  BY OpenNextEffect
<1> DEFINE left == Head(calls[c]).points \ {p}
           w == Write(p, FALSE)
           o == Open(left)
<1>4. w \in Call /\ o \in Call
  BY <1>3
<1>5. w.do = "write" /\ w.on = FALSE /\ o.do = "open"
  BY CallForms
<1> DEFINE rest == Onto(o, Tail(calls[c]))
<1>6. /\ left = {} => calls'[c] = Onto(w, Tail(calls[c]))
      /\ left # {} => calls'[c] = Onto(w, rest)
  BY <1>3
<1> HIDE DEF w, o, left
<1>a. Level(w) = 1 /\ Level(o) = 2 /\ Level(Head(calls[c])) = 2 /\ ~Waiting(o)
  BY <1>1, <1>2, <1>4, <1>5, LevelOf DEF Waiting
<1>b. Level(w) < Level(o) /\ Level(w) <= Level(Head(calls[c])) /\ Level(o) <= Level(Head(calls[c]))
  BY <1>a
<1>c. rest = Onto(o, Tail(calls[c]))
  OBVIOUS
<1> HIDE DEF rest
<1>7. CASE left = {}
  <2>1. Stacked(c, w, Below(c))
    BY <1>1, <1>4, <1>b, <1>6, <1>7, StackedOnce
  <2>2. Below(c) = {} \cup Below(c)
    OBVIOUS
  <2> QED  BY <1>1, <1>2, <1>3, <1>7, <2>1, <2>2 DEF w, left
<1>8. CASE left # {}
  <2>1. Stacked(c, w, {o} \cup Below(c))
    BY <1>1, <1>4, <1>6, <1>8, <1>a, <1>b, <1>c, StackedTwice
  <2>2. {o} \in SUBSET {Open(Head(calls[c]).points \ {p})} /\ {o} # {}
    BY DEF o, left
  <2> QED  BY <1>1, <1>2, <1>3, <2>1, <2>2 DEF w
<1> QED  BY <1>7, <1>8

LEMMA NextHopStack ==
  ASSUME TypeOK, CallsNest, NEW c \in Cores, NextHop(c)
  PROVE  /\ calls[c] # <<>> /\ Head(calls[c]) \in Call /\ Head(calls[c]).do = "send"
         /\ OthersStay(c)
         /\ \E p \in Hops, next \in Call :
              /\ Sends(c).hop \in 1..Len(Sends(c).path) /\ p = Sends(c).path[Sends(c).hop]
              /\ next.do = "send" /\ next.hop = Sends(c).hop + 1 /\ next.left = Sends(c).left
              /\ next.path = Sends(c).path /\ next.noted = Sends(c).noted
              /\ chipSelect' = p.chip
              /\ \/ /\ Unrouted(p) /\ UNCHANGED <<lastChipXY, strays, doubt>>
                    /\ Stacked(c, next, Below(c))
                 \/ /\ ~Unrouted(p) /\ Noted(p)
                    /\ Conflicting(p, TRUE) = {} /\ doubt' = doubt
                    /\ Stacked(c, Write(p, TRUE), {next} \cup Below(c))
                 \/ /\ InRange(p) /\ p \in Crosspoints
                    /\ Conflicting(p, TRUE) # {} /\ doubt' = doubt \cup {"clash"}
                    /\ Stacked(c, Open(Conflicting(p, TRUE)),
                                  {Write(p, TRUE), next} \cup Below(c))
<1>1. calls[c] # <<>> /\ Head(calls[c]).do = "send" /\ OthersStay(c)
  BY NextHopEffect DEF OthersStay
<1>2. Head(calls[c]) \in Call /\ Tail(calls[c]) \in Seq(Call)
  BY <1>1, RestOf
<1>8. Sends(c).hop \in 1..Len(Sends(c).path)
  BY NextHopEffect
<1>3. PICK p \in Hops, next \in Call :
        /\ p = Sends(c).path[Sends(c).hop]
        /\ next.do = "send" /\ next.hop = Sends(c).hop + 1 /\ next.left = Sends(c).left
        /\ next.path = Sends(c).path /\ next.noted = Sends(c).noted
        /\ chipSelect' = p.chip
        /\ \/ /\ Unrouted(p) /\ UNCHANGED <<lastChipXY, strays, doubt>>
              /\ calls'[c] = Onto(next, Tail(calls[c]))
           \/ /\ ~Unrouted(p) /\ Noted(p) /\ (~InRange(p) => Conflicting(p, TRUE) = {})
              /\ Write(p, TRUE) \in Call
              /\ Conflicting(p, TRUE) \in SUBSET Crosspoints
              /\ Open(Conflicting(p, TRUE)) \in Call
              /\ Conflicting(p, TRUE) = {} =>
                   /\ doubt' = doubt
                   /\ calls'[c] = Onto(Write(p, TRUE), Onto(next, Tail(calls[c])))
              /\ Conflicting(p, TRUE) # {} =>
                   /\ doubt' = doubt \cup {"clash"}
                   /\ calls'[c] =
                        Onto(Open(Conflicting(p, TRUE)), Onto(Write(p, TRUE), Onto(next, Tail(calls[c]))))
  BY NextHopEffect
<1>4. Level(next) = 5 /\ Level(Head(calls[c])) = 5 /\ ~Waiting(next)
  BY <1>1, <1>2, <1>3, LevelOf DEF Waiting
<1>5. CASE /\ Unrouted(p) /\ UNCHANGED <<lastChipXY, strays, doubt>>
           /\ calls'[c] = Onto(next, Tail(calls[c]))
  <2>1. Stacked(c, next, Below(c))
    BY <1>1, <1>4, <1>5, StackedOnce
  <2> QED  BY <1>1, <1>2, <1>3, <1>8, <1>5, <2>1
<1>6. CASE /\ ~Unrouted(p) /\ Noted(p)
           /\ Write(p, TRUE) \in Call
           /\ Conflicting(p, TRUE) = {} /\ doubt' = doubt
           /\ calls'[c] = Onto(Write(p, TRUE), Onto(next, Tail(calls[c])))
  <2> DEFINE w == Write(p, TRUE)
             rest == Onto(next, Tail(calls[c]))
  <2>1. w \in Call /\ Level(w) = 3
    <3>1. w \in Call /\ w.do = "write" /\ w.on = TRUE
      BY <1>6, CallForms
    <3> HIDE DEF w
    <3> QED  BY <3>1, LevelOf
  <2>2. calls'[c] = Onto(w, rest)
    BY <1>6
  <2>a. rest = Onto(next, Tail(calls[c]))
    OBVIOUS
  <2> HIDE DEF w, rest
  <2>3. Level(w) < Level(next) /\ Level(next) <= Level(Head(calls[c]))
    BY <1>4, <2>1
  <2>4. Stacked(c, w, {next} \cup Below(c))
    BY <1>1, <1>4, <2>1, <2>2, <2>3, <2>a, StackedTwice
  <2> QED  BY <1>1, <1>2, <1>3, <1>8, <1>6, <2>4 DEF w
<1>7. CASE /\ InRange(p) /\ p \in Crosspoints
           /\ Write(p, TRUE) \in Call /\ Open(Conflicting(p, TRUE)) \in Call
           /\ Conflicting(p, TRUE) # {} /\ doubt' = doubt \cup {"clash"}
           /\ calls'[c] =
                Onto(Open(Conflicting(p, TRUE)), Onto(Write(p, TRUE), Onto(next, Tail(calls[c]))))
  <2> DEFINE w == Write(p, TRUE)
             o == Open(Conflicting(p, TRUE))
             rest == Onto(next, Tail(calls[c]))
  <2>1. w \in Call /\ Level(w) = 3 /\ o \in Call /\ Level(o) = 2 /\ ~Waiting(w)
    <3>1. w \in Call /\ o \in Call
      BY <1>7
    <3>2. w.do = "write" /\ w.on = TRUE /\ w.at = "put" /\ o.do = "open"
      BY CallForms
    <3> HIDE DEF w, o
    <3> QED  BY <3>1, <3>2, LevelOf DEF Waiting
  <2> DEFINE both == Onto(w, rest)
  <2>2. calls'[c] = Onto(o, both)
    BY <1>7
  <2>3. /\ rest \in Seq(Call) /\ ToSet(rest) = {next} \cup Below(c) /\ Nested(rest)
        /\ \A call \in ToSet(rest) : 5 <= Level(call) /\ ~Waiting(call)
    <3>1. /\ \A call \in Below(c) :
               call \in Call /\ Level(Head(calls[c])) < Level(call) /\ ~Waiting(call)
          /\ Nested(Tail(calls[c]))
      BY <1>1, RestOf DEF Below
    <3>2. \A call \in Below(c) : 5 <= Level(call)
      BY <3>1, <1>4, LevelOf
    <3>3. rest \in Seq(Call) /\ ToSet(rest) = {next} \cup Below(c)
      BY <1>2, Topped DEF Below
    <3>4. Nested(rest)
      BY <1>2, <1>4, <3>1, NestedTopped DEF Below
    <3> HIDE DEF rest
    <3> QED  BY <1>4, <3>1, <3>2, <3>3, <3>4
  <2> HIDE DEF w, o, rest
  <2>4. \A call \in ToSet(rest) : Level(w) < Level(call) /\ ~Waiting(call)
    <3>1. \A call \in ToSet(rest) : Level(call) \in 1..6
      BY <2>3, StackElements, LevelOf
    <3> QED  BY <2>1, <2>3, <3>1
  <2>a. both = Onto(w, rest) /\ Level(o) < Level(w)
    BY <2>1
  <2> HIDE DEF both
  <2>5. Nested(Onto(o, both))
    BY <2>1, <2>3, <2>4, <2>a, NestedTwice
  <2>6. both \in Seq(Call) /\ ToSet(both) = {w} \cup ToSet(rest)
    BY <2>1, <2>3, <2>a, Topped
  <2>b. /\ Onto(o, both) # <<>> /\ Head(Onto(o, both)) = o /\ Tail(Onto(o, both)) = both
        /\ ToSet(Onto(o, both)) = {o} \cup ToSet(both)
    BY <2>1, <2>6, Topped
  <2>7. Stacked(c, o, {w, next} \cup Below(c))
    BY <2>2, <2>3, <2>5, <2>6, <2>b DEF Stacked
  <2> QED  BY <1>1, <1>2, <1>3, <1>8, <1>7, <2>7 DEF w, o
<1>9. InRange(p) /\ Noted(p) => p \in Crosspoints
  BY DEF Noted
<1> QED  BY <1>3, <1>5, <1>6, <1>7, <1>9

LEMMA NextPathStack ==
  ASSUME TypeOK, CallsNest, NEW c \in Cores, NextPath(c)
  PROVE  /\ calls[c] # <<>> /\ Head(calls[c]) \in Call /\ Head(calls[c]).do = "send"
         /\ OthersStay(c)
         /\ Sends(c).hop > Len(Sends(c).path)
         /\ \E noted \in SUBSET Crosspoints :
              /\ noted = IF Sends(c).noted THEN PointsOf({Sends(c).path}) ELSE {}
              /\ lastChipXY' = lastChipXY \cup noted
              /\ chipHadConnections' = chipHadConnections \cup ChipsOf(noted)
         /\ \/ Sends(c).left = {} /\ Popped(c)
            \/ \E path \in Sends(c).left, next \in Call :
                 /\ next.do = "send" /\ next.hop = 1 /\ next.left = Sends(c).left \ {path}
                 /\ next.path = path /\ next.noted = Sends(c).noted
                 /\ Stacked(c, next, Below(c))
<1>1. calls[c] # <<>> /\ Head(calls[c]).do = "send" /\ Sends(c).hop > Len(Sends(c).path)
  BY NextPathEffect
<1>2. OthersStay(c)
  BY NextPathEffect DEF OthersStay
<1>3. Head(calls[c]) \in Call
  BY <1>1, RestOf
<1>4. \E noted \in SUBSET Crosspoints :
        /\ noted = IF Sends(c).noted THEN PointsOf({Sends(c).path}) ELSE {}
        /\ lastChipXY' = lastChipXY \cup noted
        /\ chipHadConnections' = chipHadConnections \cup ChipsOf(noted)
  BY NextPathEffect
<1>5. \/ Sends(c).left = {} /\ calls'[c] = Tail(calls[c])
      \/ \E path \in Sends(c).left, next \in Call :
           /\ next.do = "send" /\ next.hop = 1 /\ next.left = Sends(c).left \ {path}
           /\ next.path = path /\ next.noted = Sends(c).noted
           /\ calls'[c] = Onto(next, Tail(calls[c]))
  BY NextPathEffect
<1>6. CASE Sends(c).left = {} /\ calls'[c] = Tail(calls[c])
  <2>1. Returns(c) \/ \E path \in Sends(c).left :
          Becomes(c, [Sends(c) EXCEPT !.left = @ \ {path}, !.path = path, !.hop = 1])
    BY DEF NextPath
  <2>2. Popped(c)
    BY <1>1, <1>6, <2>1, PopStack
  <2> QED  BY <1>1, <1>2, <1>3, <1>4, <1>6, <2>2
<1>7. ASSUME NEW path \in Sends(c).left, NEW next \in Call,
             /\ next.do = "send" /\ next.hop = 1 /\ next.left = Sends(c).left \ {path}
             /\ next.path = path /\ next.noted = Sends(c).noted
             /\ calls'[c] = Onto(next, Tail(calls[c]))
      PROVE  Stacked(c, next, Below(c))
  <2>1. Level(next) <= Level(Head(calls[c]))
    BY <1>1, <1>3, <1>7, LevelOf
  <2> QED  BY <1>1, <1>7, <2>1, StackedOnce
<1> QED  BY <1>1, <1>2, <1>3, <1>4, <1>5, <1>6, <1>7

LEMMA SearchStack ==
  ASSUME TypeOK, CallsNest, NEW c \in Cores, Search(c)
  PROVE  /\ calls[c] # <<>> /\ Head(calls[c]) \in Call /\ Head(calls[c]).do = "search"
         /\ OthersStay(c)
         /\ \/ \E next \in Head(calls[c]).rows :
                 LET left == {row \in Head(calls[c]).rows : Before(next, row)}
                 IN /\ \A row \in Head(calls[c]).rows : Opened(row) # {} => ~Before(row, next)
                    /\ Stacked(c, Open(Opened(next)), {SearchIn(left)} \cup Below(c))
                    /\ UNCHANGED <<lastChipXY, chipHadConnections>>
            \/ /\ \A row \in Head(calls[c]).rows : Opened(row) = {}
               /\ lastChipXY' = Wanted /\ chipHadConnections' = ChipsOf(Wanted)
               /\ Popped(c)
<1>1. calls[c] # <<>> /\ Head(calls[c]).do = "search"
  BY SearchEffect
<1>2. OthersStay(c)
  BY SearchEffect DEF OthersStay
<1>3. Head(calls[c]) \in Call /\ Level(Head(calls[c])) = 4
  BY <1>1, RestOf, LevelOf
<1>4. \/ \E next \in Head(calls[c]).rows :
           LET left == {row \in Head(calls[c]).rows : Before(next, row)}
           IN /\ \A row \in Head(calls[c]).rows : Opened(row) # {} => ~Before(row, next)
              /\ Open(Opened(next)) \in Call /\ SearchIn(left) \in Call
              /\ calls'[c] = Onto(Open(Opened(next)), Onto(SearchIn(left), Tail(calls[c])))
              /\ UNCHANGED <<lastChipXY, chipHadConnections>>
      \/ /\ \A row \in Head(calls[c]).rows : Opened(row) = {}
         /\ lastChipXY' = Wanted /\ chipHadConnections' = ChipsOf(Wanted)
         /\ calls'[c] = Tail(calls[c])
  BY SearchEffect
<1>5. CASE /\ \A row \in Head(calls[c]).rows : Opened(row) = {}
           /\ lastChipXY' = Wanted /\ chipHadConnections' = ChipsOf(Wanted)
           /\ calls'[c] = Tail(calls[c])
  <2>1. \/ Returns(c)
        \/ \E next \in Head(calls[c]).rows : Opened(next) # {}
    BY DEF Search
  <2>2. Popped(c)
    BY <1>1, <1>5, <2>1, PopStack
  <2> QED  BY <1>1, <1>2, <1>3, <1>5, <2>2
<1>6. ASSUME NEW next \in Head(calls[c]).rows,
             LET left == {row \in Head(calls[c]).rows : Before(next, row)}
             IN /\ \A row \in Head(calls[c]).rows : Opened(row) # {} => ~Before(row, next)
                /\ Open(Opened(next)) \in Call /\ SearchIn(left) \in Call
                /\ calls'[c] = Onto(Open(Opened(next)), Onto(SearchIn(left), Tail(calls[c])))
                /\ UNCHANGED <<lastChipXY, chipHadConnections>>
      PROVE  LET left == {row \in Head(calls[c]).rows : Before(next, row)}
             IN /\ \A row \in Head(calls[c]).rows : Opened(row) # {} => ~Before(row, next)
                /\ Stacked(c, Open(Opened(next)), {SearchIn(left)} \cup Below(c))
                /\ UNCHANGED <<lastChipXY, chipHadConnections>>
  <2> DEFINE left == {row \in Head(calls[c]).rows : Before(next, row)}
             o == Open(Opened(next))
             s == SearchIn(left)
             rest == Onto(s, Tail(calls[c]))
  <2>1. o \in Call /\ s \in Call /\ calls'[c] = Onto(o, rest) /\ rest = Onto(s, Tail(calls[c]))
    BY <1>6
  <2>2. o.do = "open" /\ s.do = "search"
    BY CallForms
  <2> HIDE DEF o, s, rest
  <2>3. Level(o) = 2 /\ Level(s) = 4 /\ ~Waiting(s)
    BY <2>1, <2>2, LevelOf DEF Waiting
  <2>4. Level(o) < Level(s) /\ Level(s) <= Level(Head(calls[c]))
    BY <2>3, <1>3
  <2>5. Stacked(c, o, {s} \cup Below(c))
    BY <1>1, <2>1, <2>3, <2>4, StackedTwice
  <2> QED  BY <1>6, <2>5 DEF o, s
<1> QED  BY <1>1, <1>2, <1>3, <1>4, <1>5, <1>6

(* Calls that begin on a core that is in none.                             *)
LEMMA Begun ==
  ASSUME NEW c \in Cores, NEW a \in Call, NEW b \in Call, NEW rest, NEW stack \in Seq(Call),
         Nested(stack), Level(a) < Level(b), ~Waiting(b), rest = Onto(b, stack),
         \A call \in ToSet(stack) : Level(b) < Level(call) /\ ~Waiting(call),
         calls'[c] = Onto(a, rest)
  PROVE  Stacked(c, a, {b} \cup ToSet(stack))
<1>1. Nested(Onto(a, rest))
  BY NestedTwice
<1>2. rest \in Seq(Call) /\ ToSet(rest) = {b} \cup ToSet(stack)
  BY Topped
<1>3. /\ Onto(a, rest) # <<>> /\ Head(Onto(a, rest)) = a /\ Tail(Onto(a, rest)) = rest
      /\ ToSet(Onto(a, rest)) = {a} \cup ToSet(rest)
  BY <1>2, Topped
<1> QED  BY <1>1, <1>2, <1>3 DEF Stacked

LEMMA BegunOnce ==
  ASSUME NEW c \in Cores, NEW a \in Call, NEW stack \in Seq(Call), Nested(stack),
         \A call \in ToSet(stack) : Level(a) < Level(call) /\ ~Waiting(call),
         calls'[c] = Onto(a, stack)
  PROVE  Stacked(c, a, ToSet(stack))
<1>1. Nested(Onto(a, stack))
  BY NestedTopped
<1>2. /\ Onto(a, stack) # <<>> /\ Head(Onto(a, stack)) = a /\ Tail(Onto(a, stack)) = stack
      /\ ToSet(Onto(a, stack)) = {a} \cup ToSet(stack)
  BY Topped
<1> QED  BY <1>1, <1>2 DEF Stacked

LEMMA EmptyStack ==
  /\ <<>> \in Seq(Call) /\ Nested(<<>>) /\ ToSet(<<>>) = {}
  /\ \A call \in Call : <<call>> = Onto(call, <<>>)
<1>1. ToSet(<<>>) = {}
  BY DEF ToSet
<1>2. ASSUME NEW call \in Call PROVE <<call>> = Onto(call, <<>>)
  BY DEF Onto
<1> QED  BY <1>1, <1>2, NestedEmpty

LEMMA SingleStack ==
  ASSUME NEW call \in Call
  PROVE  /\ <<call>> \in Seq(Call) /\ Nested(<<call>>) /\ ToSet(<<call>>) = {call}
         /\ <<call>> # <<>> /\ Head(<<call>>) = call /\ ToSet(Tail(<<call>>)) = {}
<1> DEFINE s == Onto(call, <<>>)
           none == <<>>
<1>1. none \in Seq(Call) /\ Nested(none) /\ ToSet(none) = {} /\ s = Onto(call, none)
  BY EmptyStack
<1>2. <<call>> = s
  BY EmptyStack
<1> HIDE DEF s, none
<1>3. /\ s \in Seq(Call) /\ s # <<>> /\ Head(s) = call /\ Tail(s) = none
      /\ ToSet(s) = {call} \cup ToSet(none)
  BY <1>1, Topped
<1>4. Nested(s)
  BY <1>1, NestedTopped
<1> QED  BY <1>1, <1>2, <1>3, <1>4

LEMMA RawStack ==
  ASSUME TypeOK, CallsNest, NEW p \in Crosspoints, NEW on \in BOOLEAN, jl_send_raw(p, on)
  PROVE  /\ calls[0] = <<>> /\ (fifo = <<>> \/ calls[1] # <<>>) /\ OthersStay(0)
         /\ Raced(0) \subseteq doubt' /\ doubt \subseteq doubt'
         /\ on /\ p.chip \notin chipHadConnections => "unsearched" \in doubt'
         /\ chipSelect' = p.chip
         /\ lastChipXY' = IF on THEN lastChipXY \cup {p} ELSE lastChipXY \ {p}
         /\ strays' = strays
         /\ \/ /\ Conflicting(p, on) = {}
               /\ Stacked(0, Write(p, on), {})
            \/ /\ Conflicting(p, on) # {} /\ "clash" \in doubt'
               /\ Stacked(0, Open(Conflicting(p, on)), {Write(p, on)})
<1>1. /\ calls[0] = <<>> /\ (fifo = <<>> \/ calls[1] # <<>>)
      /\ Raced(0) \subseteq doubt' /\ doubt \subseteq doubt'
      /\ on /\ p.chip \notin chipHadConnections => "unsearched" \in doubt'
      /\ chipSelect' = p.chip
      /\ lastChipXY' = IF on THEN lastChipXY \cup {p} ELSE lastChipXY \ {p}
      /\ strays' = strays
      /\ Write(p, on) \in Call /\ Open(Conflicting(p, on)) \in Call
      /\ calls'[1] = calls[1]
      /\ Conflicting(p, on) # {} => "clash" \in doubt'
  BY RawEffect
<1>2. OthersStay(0)
  BY <1>1 DEF OthersStay, Cores
<1> DEFINE w == Write(p, on)
           o == Open(Conflicting(p, on))
           none == <<>>
           rest == Onto(w, none)
<1>3. /\ Conflicting(p, on) = {} => calls'[0] = rest
      /\ Conflicting(p, on) # {} => calls'[0] = Onto(o, rest)
  BY RawEffect
<1>4. w \in Call /\ o \in Call /\ none \in Seq(Call) /\ Nested(none) /\ ToSet(none) = {}
  BY <1>1, EmptyStack
<1>5. w.do = "write" /\ w.on \in BOOLEAN /\ w.at = "put" /\ o.do = "open"
  BY DEF Write, Open
<1>6. rest = Onto(w, none) /\ 0 \in Cores
  BY DEF Cores
<1> HIDE DEF w, o, none, rest
<1>7. CASE Conflicting(p, on) = {}
  <2>1. Stacked(0, w, ToSet(none))
    BY <1>3, <1>4, <1>6, <1>7, BegunOnce
  <2> QED  BY <1>1, <1>2, <1>4, <1>7, <2>1 DEF w
<1>8. CASE Conflicting(p, on) # {}
  <2>1. w.on = TRUE
    BY <1>8 DEF Conflicting, w, Write
  <2>2. Level(o) = 2 /\ Level(w) = 3 /\ ~Waiting(w)
    BY <1>4, <1>5, <2>1, LevelOf DEF Waiting
  <2>3. Level(o) < Level(w)
    BY <2>2
  <2>4. Stacked(0, o, {w} \cup ToSet(none))
    BY <1>3, <1>4, <1>6, <1>8, <2>2, <2>3, Begun
  <2>5. {w} \cup ToSet(none) = {w}
    BY <1>4
  <2> QED  BY <1>1, <1>2, <1>8, <2>4, <2>5 DEF w, o
<1> QED  BY <1>7, <1>8

LEMMA SendPathsStack ==
  ASSUME TypeOK, CallsNest, sendPaths
  PROVE  /\ calls[1] = <<>> /\ (fifo = <<>> \/ calls[0] # <<>>) /\ request # 0 /\ OthersStay(1)
         /\ \/ /\ request = -1 /\ fifo = <<>>
               /\ switches' = {} /\ lastChipXY' = {} /\ chipHadConnections' = {}
               /\ Stacked(1, sendEach(paths, TRUE), {Do("acknowledge")})
               /\ strays' = {} /\ doubt' = {}
            \/ /\ request \in {1, 3}
               /\ Stacked(1, SearchIn(Rows), {sendEach(Changed, FALSE), Do("acknowledge")})
               /\ doubt' = doubt \cup Raced(1)
               /\ UNCHANGED <<switches, lastChipXY, chipHadConnections, strays, since>>
<1>1. calls[1] = <<>> /\ (fifo = <<>> \/ calls[0] # <<>>) /\ request # 0
  BY SendPathsEffect
<1>2. OthersStay(1)
  BY SendPathsEffect DEF OthersStay, Cores
<1> DEFINE e == sendEach(paths, TRUE)
           s == SearchIn(Rows)
           b == sendEach(Changed, FALSE)
           a == Do("acknowledge")
           end == <<a>>
           rest == Onto(b, end)
<1>3. \/ /\ request = -1 /\ fifo = <<>>
         /\ switches' = {} /\ lastChipXY' = {} /\ chipHadConnections' = {}
         /\ calls'[1] = Onto(e, end)
         /\ strays' = {} /\ doubt' = {}
      \/ /\ request \in {1, 3}
         /\ calls'[1] = Onto(s, rest)
         /\ doubt' = doubt \cup Raced(1)
         /\ UNCHANGED <<switches, lastChipXY, chipHadConnections, strays, since>>
  BY SendPathsEffect
<1>4. e \in Call /\ s \in Call /\ b \in Call /\ a \in Call
  BY PathsType, CallTypes
<1>5. e.do = "send" /\ s.do = "search" /\ b.do = "send" /\ a.do = "acknowledge"
  BY DEF sendEach, SearchIn, Do
<1>6. end = <<a>> /\ rest = Onto(b, end) /\ 1 \in Cores
  BY DEF Cores
<1> HIDE DEF e, s, b, a, end, rest
<1>7. /\ Level(e) = 5 /\ Level(s) = 4 /\ Level(b) = 5 /\ Level(a) = 6
      /\ ~Waiting(b) /\ ~Waiting(a)
  BY <1>4, <1>5, LevelOf DEF Waiting
<1>8. end \in Seq(Call) /\ Nested(end) /\ ToSet(end) = {a}
  BY <1>4, <1>6, SingleStack
<1>9. CASE /\ request = -1 /\ fifo = <<>>
           /\ switches' = {} /\ lastChipXY' = {} /\ chipHadConnections' = {}
           /\ calls'[1] = Onto(e, end)
           /\ strays' = {} /\ doubt' = {}
  <2>1. \A call \in ToSet(end) : Level(e) < Level(call) /\ ~Waiting(call)
    BY <1>7, <1>8
  <2>2. Stacked(1, e, ToSet(end))
    BY <1>4, <1>6, <1>8, <1>9, <2>1, BegunOnce
  <2> QED  BY <1>1, <1>2, <1>8, <1>9, <2>2 DEF e, a
<1>10. CASE /\ request \in {1, 3}
            /\ calls'[1] = Onto(s, rest)
            /\ doubt' = doubt \cup Raced(1)
            /\ UNCHANGED <<switches, lastChipXY, chipHadConnections, strays, since>>
  <2>1. \A call \in ToSet(end) : Level(b) < Level(call) /\ ~Waiting(call)
    BY <1>7, <1>8
  <2>2. Level(s) < Level(b)
    BY <1>7
  <2>3. Stacked(1, s, {b} \cup ToSet(end))
    BY <1>4, <1>6, <1>7, <1>8, <1>10, <2>1, <2>2, Begun
  <2>4. {b} \cup ToSet(end) = {b, a}
    BY <1>8
  <2> QED  BY <1>1, <1>2, <1>10, <2>3, <2>4 DEF s, b, a
<1> QED  BY <1>3, <1>9, <1>10

LEMMA RefreshStack ==
  ASSUME TypeOK, CallsNest, NEW board \in Boards, NEW kind \in {-1, 1, 3}, Refresh(board, kind)
  PROVE  /\ calls[0] = <<>> /\ calls[1] = <<>> /\ fifo = <<>>
         /\ calls'[1] = <<>> /\ OthersStay(0)
         /\ kind = 3 => calls'[0] = <<>>
         /\ kind # 3 => calls'[0] = <<Do("await")>> /\ Stacked(0, Do("await"), {})
         /\ paths' = board /\ request' = kind
<1>1. /\ calls[0] = <<>> /\ calls[1] = <<>> /\ fifo = <<>>
      /\ calls'[1] = <<>>
      /\ kind = 3 => calls'[0] = <<>>
      /\ kind # 3 => calls'[0] = <<Do("await")>>
      /\ paths' = board /\ request' = kind
  BY RefreshEffect
<1>2. OthersStay(0)
  BY <1>1 DEF OthersStay, Cores
<1>3. ASSUME kind # 3 PROVE Stacked(0, Do("await"), {})
  <2> DEFINE a == Do("await")
  <2>1. a \in Call /\ calls'[0] = <<a>>
    BY <1>1, <1>3, CallTypes
  <2> HIDE DEF a
  <2>2. /\ Nested(<<a>>) /\ ToSet(<<a>>) = {a}
        /\ <<a>> # <<>> /\ Head(<<a>>) = a /\ ToSet(Tail(<<a>>)) = {}
    BY <2>1, SingleStack
  <2>3. Stacked(0, a, {})
    BY <2>1, <2>2 DEF Stacked
  <2> QED  BY <2>3 DEF a
<1> QED  BY <1>1, <1>2, <1>3

LEMMA RefreshPathsStack ==
  ASSUME TypeOK, CallsNest, refreshPaths
  PROVE  OthersStay(0) /\ Stacked(0, sendEach(paths, TRUE), {})
<1> DEFINE e == sendEach(paths, TRUE)
<1>1. e \in Call /\ calls' = [calls EXCEPT ![0] = <<e>>] /\ 0 \in Cores
  BY PathsType DEF refreshPaths, sendEveryPath, Cores
<1> HIDE DEF e
<1>2. /\ <<e>> \in Seq(Call) /\ Nested(<<e>>) /\ ToSet(<<e>>) = {e}
      /\ <<e>> # <<>> /\ Head(<<e>>) = e /\ ToSet(Tail(<<e>>)) = {}
  BY <1>1, SingleStack
<1>3. calls'[0] = <<e>> /\ \A d \in Cores : d # 0 => calls'[d] = calls[d]
  BY <1>1, <1>2, StackChange
<1>4. Stacked(0, e, {})
  BY <1>2, <1>3 DEF Stacked
<1> QED  BY <1>3, <1>4 DEF OthersStay, e

(* A step that adds only writes and openings to the kinds of calls on a    *)
(* stack.                                                                  *)
LEMMA NestKept ==
  ASSUME CallsNest, NEW c \in Cores, OthersStay(c), Nested(calls'[c]),
         \A call \in ToSet(calls'[c]) :
           \/ call.do \in {"write", "open"}
           \/ \E old \in ToSet(calls[c]) : old.do = call.do,
         c = 1 /\ In(1, "search") =>
           \A call \in ToSet(calls'[1]) : call.do = "write" => ~call.on
  PROVE  CallsNest'
<1>1. \A d \in Cores : Nested(calls'[d])
  BY DEF OthersStay, CallsNest
<1>2. ASSUME NEW d \in Cores, NEW step \in {"acknowledge", "search", "await"}, In(d, step)'
      PROVE  In(d, step)
  BY <1>2 DEF In, OthersStay
<1>3. 0 \in Cores /\ 1 \in Cores
  BY DEF Cores
<1>4. (~In(0, "acknowledge") /\ ~In(0, "search") /\ ~In(1, "await"))'
  BY <1>2, <1>3 DEF CallsNest
<1>5. ASSUME In(1, "search")' PROVE \A call \in ToSet(calls'[1]) : call.do = "write" => ~call.on
  <2>1. In(1, "search")
    BY <1>2, <1>3, <1>5
  <2>2. CASE c = 1
    BY <2>1, <2>2
  <2>3. CASE c # 1
    BY <1>3, <2>1, <2>3 DEF OthersStay, CallsNest
  <2> QED  BY <2>2, <2>3
<1> QED  BY <1>1, <1>4, <1>5 DEF CallsNest

LEMMA NestPopped ==
  ASSUME TypeOK, CallsNest, NEW c \in Cores, calls[c] # <<>>, OthersStay(c), Popped(c)
  PROVE  CallsNest'
<1>1. Nested(calls'[c]) /\ ToSet(calls'[c]) \subseteq ToSet(calls[c])
  BY RestOf DEF Popped, Below
<1>2. In(1, "search") => \A call \in ToSet(calls[1]) : call.do = "write" => ~call.on
  BY DEF CallsNest
<1> QED  BY <1>1, <1>2, NestKept

LEMMA NestCore ==
  ASSUME TypeOK, CallsNest, NEW c \in Cores, CoreStep(c)
  PROVE  CallsNest'
<1>0. In(1, "search") => \A call \in ToSet(calls[1]) : call.do = "write" => ~call.on
  BY DEF CallsNest
<1>1. CASE OpenNext(c)
  <2>1. /\ calls[c] # <<>> /\ Head(calls[c]) \in Call /\ Head(calls[c]).do = "open"
        /\ OthersStay(c)
    BY <1>1, OpenNextStack
  <2>2. PICK p \in Head(calls[c]).points :
          \E left \in SUBSET {Open(Head(calls[c]).points \ {p})} :
            Stacked(c, Write(p, FALSE), left \cup Below(c))
    BY <1>1, OpenNextStack
  <2>3. PICK left \in SUBSET {Open(Head(calls[c]).points \ {p})} :
            Stacked(c, Write(p, FALSE), left \cup Below(c))
    BY <2>2
  <2>4. ToSet(calls'[c]) = {Write(p, FALSE)} \cup left \cup Below(c) /\ Nested(calls'[c])
    BY <2>3 DEF Stacked
  <2>5. Below(c) \subseteq ToSet(calls[c])
    BY <2>1, RestOf DEF Below
  <2>6. Write(p, FALSE).do = "write" /\ Write(p, FALSE).on = FALSE
    BY CallForms
  <2>9. ASSUME NEW call \in left PROVE call.do = "open"
    <3>1. call = Open(Head(calls[c]).points \ {p})
      BY <2>3
    <3>2. Open(Head(calls[c]).points \ {p}).do = "open"
      BY CallForms
    <3> QED  BY <3>1, <3>2
  <2>7. \A call \in ToSet(calls'[c]) :
          call.do \in {"write", "open"} \/ \E old \in ToSet(calls[c]) : old.do = call.do
    BY <2>4, <2>5, <2>6, <2>9
  <2>8. c = 1 /\ In(1, "search") =>
          \A call \in ToSet(calls'[1]) : call.do = "write" => ~call.on
    BY <1>0, <2>4, <2>5, <2>6, <2>9
  <2> QED  BY <2>1, <2>4, <2>7, <2>8, NestKept
<1>2. CASE Put(c)
  <2>1. calls[c] # <<>> /\ Writes(c, "put") /\ OthersStay(c)
    BY <1>2, PutStack
  <2>2. PICK sent \in Call :
          /\ sent.do = "write" /\ sent.on = Head(calls[c]).on /\ Stacked(c, sent, Below(c))
    BY <1>2, PutStack
  <2>3. ToSet(calls'[c]) = {sent} \cup Below(c) /\ Nested(calls'[c])
    BY <2>2 DEF Stacked
  <2>4. Below(c) \subseteq ToSet(calls[c]) /\ Head(calls[c]) \in ToSet(calls[c])
        /\ Head(calls[c]).do = "write"
    BY <2>1, RestOf DEF Below, Writes, Does
  <2>5. \A call \in ToSet(calls'[c]) :
          call.do \in {"write", "open"} \/ \E old \in ToSet(calls[c]) : old.do = call.do
    BY <2>2, <2>3, <2>4
  <2>6. c = 1 /\ In(1, "search") =>
          \A call \in ToSet(calls'[1]) : call.do = "write" => ~call.on
    BY <1>0, <2>2, <2>3, <2>4
  <2> QED  BY <2>1, <2>3, <2>5, <2>6, NestKept
<1>3. CASE Return(c)
  <2>1. calls[c] # <<>> /\ Returns(c)
    BY <1>3 DEF Return, Writes, Does
  <2> QED  BY <2>1, PopStack, NestPopped
<1>4. CASE GiveUp(c)
  <2>1. calls[c] # <<>> /\ Returns(c)
    BY <1>4 DEF GiveUp, Writes, Does
  <2> QED  BY <2>1, PopStack, NestPopped
<1>5. CASE Acknowledge(c)
  <2>1. calls[c] # <<>> /\ Returns(c)
    BY <1>5 DEF Acknowledge, Does
  <2> QED  BY <2>1, PopStack, NestPopped
<1>6. CASE Await(c)
  <2>1. calls[c] # <<>> /\ Returns(c)
    BY <1>6 DEF Await, Does
  <2> QED  BY <2>1, PopStack, NestPopped
<1>7. CASE NextHop(c)
  <2>1. /\ calls[c] # <<>> /\ Head(calls[c]) \in Call /\ Head(calls[c]).do = "send"
        /\ OthersStay(c)
    BY <1>7, NextHopStack
  <2>2. PICK p \in Hops, next \in Call :
          /\ next.do = "send"
          /\ \/ Stacked(c, next, Below(c))
             \/ Stacked(c, Write(p, TRUE), {next} \cup Below(c))
             \/ Stacked(c, Open(Conflicting(p, TRUE)), {Write(p, TRUE), next} \cup Below(c))
    BY <1>7, NextHopStack
  <2>3. /\ ToSet(calls'[c]) \subseteq
             {next, Write(p, TRUE), Open(Conflicting(p, TRUE))} \cup Below(c)
        /\ Nested(calls'[c])
    BY <2>2 DEF Stacked
  <2>4. Below(c) \subseteq ToSet(calls[c]) /\ Head(calls[c]) \in ToSet(calls[c])
    BY <2>1, RestOf DEF Below
  <2>5. Write(p, TRUE).do = "write" /\ Open(Conflicting(p, TRUE)).do = "open"
    BY CallForms
  <2>6. \A call \in ToSet(calls'[c]) :
          call.do \in {"write", "open"} \/ \E old \in ToSet(calls[c]) : old.do = call.do
    BY <2>1, <2>2, <2>3, <2>4, <2>5
  <2>7. ~(c = 1 /\ In(1, "search"))
    <3>1. ASSUME c = 1, NEW call \in ToSet(calls[c]), call.do = "search" PROVE FALSE
      <4>1. call \in ToSet(Tail(calls[c])) /\ call \in Call
        BY <2>1, <3>1, RestOf
      <4>2. Level(Head(calls[c])) < Level(call)
        BY <2>1, <4>1, RestOf
      <4>3. Level(Head(calls[c])) = 5 /\ Level(call) = 4
        BY <2>1, <3>1, <4>1, LevelOf
      <4> QED  BY <4>2, <4>3
    <3> QED  BY <3>1 DEF In
  <2> QED  BY <2>1, <2>3, <2>6, <2>7, NestKept
<1>8. CASE NextPath(c)
  <2>1. /\ calls[c] # <<>> /\ Head(calls[c]) \in Call /\ Head(calls[c]).do = "send"
        /\ OthersStay(c)
    BY <1>8, NextPathStack
  <2>2. Popped(c) \/ \E next \in Call : next.do = "send" /\ Stacked(c, next, Below(c))
    BY <1>8, NextPathStack
  <2>3. CASE Popped(c)
    BY <2>1, <2>3, NestPopped
  <2>4. ASSUME NEW next \in Call, next.do = "send", Stacked(c, next, Below(c)) PROVE CallsNest'
    <3>1. ToSet(calls'[c]) = {next} \cup Below(c) /\ Nested(calls'[c])
      BY <2>4 DEF Stacked
    <3>2. Below(c) \subseteq ToSet(calls[c]) /\ Head(calls[c]) \in ToSet(calls[c])
      BY <2>1, RestOf DEF Below
    <3>3. \A call \in ToSet(calls'[c]) :
            call.do \in {"write", "open"} \/ \E old \in ToSet(calls[c]) : old.do = call.do
      BY <2>1, <2>4, <3>1, <3>2
    <3>4. c = 1 /\ In(1, "search") =>
            \A call \in ToSet(calls'[1]) : call.do = "write" => ~call.on
      BY <1>0, <2>4, <3>1, <3>2
    <3> QED  BY <2>1, <3>1, <3>3, <3>4, NestKept
  <2> QED  BY <2>2, <2>3, <2>4
<1>9. CASE Search(c)
  <2>1. /\ calls[c] # <<>> /\ Head(calls[c]) \in Call /\ Head(calls[c]).do = "search"
        /\ OthersStay(c)
    BY <1>9, SearchStack
  <2>2. Popped(c) \/ \E points, rows : Stacked(c, Open(points), {SearchIn(rows)} \cup Below(c))
    BY <1>9, SearchStack
  <2>3. CASE Popped(c)
    BY <2>1, <2>3, NestPopped
  <2>4. ASSUME NEW points, NEW rows, Stacked(c, Open(points), {SearchIn(rows)} \cup Below(c))
        PROVE  CallsNest'
    <3>1. ToSet(calls'[c]) = {Open(points), SearchIn(rows)} \cup Below(c) /\ Nested(calls'[c])
      BY <2>4 DEF Stacked
    <3>2. Below(c) \subseteq ToSet(calls[c]) /\ Head(calls[c]) \in ToSet(calls[c])
      BY <2>1, RestOf DEF Below
    <3>3. Open(points).do = "open" /\ SearchIn(rows).do = "search"
      BY CallForms
    <3>4. \A call \in ToSet(calls'[c]) :
            call.do \in {"write", "open"} \/ \E old \in ToSet(calls[c]) : old.do = call.do
      BY <2>1, <3>1, <3>2, <3>3
    <3>5. c = 1 /\ In(1, "search") =>
            \A call \in ToSet(calls'[1]) : call.do = "write" => ~call.on
      BY <1>0, <3>1, <3>2, <3>3
    <3> QED  BY <2>1, <3>1, <3>4, <3>5, NestKept
  <2> QED  BY <2>2, <2>3, <2>4
<1> QED  BY <1>1, <1>2, <1>3, <1>4, <1>5, <1>6, <1>7, <1>8, <1>9 DEF CoreStep

LEMMA NestStep == TypeOK /\ CallsNest /\ [Next]_vars => CallsNest'
<1> SUFFICES ASSUME TypeOK, CallsNest, [Next]_vars PROVE CallsNest'
  OBVIOUS
<1>0. /\ 0 \in Cores /\ 1 \in Cores /\ \A d \in Cores : d = 0 \/ d = 1
      /\ ~In(0, "acknowledge") /\ ~In(0, "search") /\ ~In(1, "await")
      /\ In(1, "search") => \A call \in ToSet(calls[1]) : call.do = "write" => ~call.on
      /\ \A d \in Cores : Nested(calls[d])
  BY DEF Cores, CallsNest
<1>1. CASE calls' = calls
  BY <1>1 DEF CallsNest, In
<1>2. ASSUME NEW c \in Cores, CoreStep(c) PROVE CallsNest'
  BY <1>2, NestCore
<1>3. CASE sendPaths
  <2>1. OthersStay(1)
    BY <1>3, SendPathsStack
  <2>2. \/ Stacked(1, sendEach(paths, TRUE), {Do("acknowledge")})
        \/ Stacked(1, SearchIn(Rows), {sendEach(Changed, FALSE), Do("acknowledge")})
    BY <1>3, SendPathsStack
  <2>3. /\ sendEach(paths, TRUE).do = "send" /\ sendEach(Changed, FALSE).do = "send"
        /\ SearchIn(Rows).do = "search" /\ Do("acknowledge").do = "acknowledge"
    BY CallForms
  <2>4. Nested(calls'[1]) /\ \A call \in ToSet(calls'[1]) : call.do \notin {"await", "write"}
    BY <2>2, <2>3 DEF Stacked
  <2>5. calls'[0] = calls[0]
    BY <2>1, <1>0 DEF OthersStay
  <2> QED  BY <1>0, <2>4, <2>5 DEF CallsNest, In
<1>4. ASSUME NEW board \in Boards, NEW kind \in {-1, 1, 3}, Refresh(board, kind)
      PROVE  CallsNest'
  <2>1. calls'[1] = <<>> /\ (calls'[0] = <<>> \/ Stacked(0, Do("await"), {}))
    BY <1>4, RefreshStack
  <2>2. Do("await").do = "await"
    BY CallForms
  <2>3. Nested(calls'[0]) /\ \A call \in ToSet(calls'[0]) : call.do = "await"
    BY <2>1, <2>2, EmptyStack DEF Stacked
  <2>4. Nested(calls'[1]) /\ ToSet(calls'[1]) = {}
    BY <2>1, EmptyStack
  <2> QED  BY <1>0, <2>3, <2>4 DEF CallsNest, In
<1>5. ASSUME NEW p \in Raw, NEW on \in BOOLEAN, jl_send_raw(p, on)
      PROVE  CallsNest'
  <2>1. /\ OthersStay(0)
        /\ \/ Stacked(0, Write(p, on), {})
           \/ Stacked(0, Open(Conflicting(p, on)), {Write(p, on)})
    BY <1>5, RawStack, Parameters
  <2>2. Write(p, on).do = "write" /\ Open(Conflicting(p, on)).do = "open"
    BY DEF Write, Open
  <2>3. Nested(calls'[0]) /\ \A call \in ToSet(calls'[0]) : call.do \in {"write", "open"}
    BY <2>1, <2>2 DEF Stacked
  <2>4. calls'[1] = calls[1]
    BY <2>1, <1>0 DEF OthersStay
  <2> QED  BY <1>0, <2>3, <2>4 DEF CallsNest, In
<1>6. CASE refreshPaths
  <2>1. OthersStay(0) /\ Stacked(0, sendEach(paths, TRUE), {})
    BY <1>6, RefreshPathsStack
  <2>2. sendEach(paths, TRUE).do = "send"
    BY CallForms
  <2>3. Nested(calls'[0]) /\ \A call \in ToSet(calls'[0]) : call.do = "send"
    BY <2>1, <2>2 DEF Stacked
  <2>4. calls'[1] = calls[1]
    BY <2>1, <1>0 DEF OthersStay
  <2> QED  BY <1>0, <2>3, <2>4 DEF CallsNest, In
<1> QED  BY <1>1, <1>2, <1>3, <1>4, <1>5, <1>6 DEF Next, vars, isrFromPio

----------------------------------------------------------------------------
(* What Core 2 sends is of the routed paths.                               *)

LEMMA WantedFacts ==
  ASSUME TypeOK, SendsWanted
  PROVE  /\ \A p, q \in Wanted : ~Shorted(p, q)
         /\ \A p \in Wanted : <<p.chip, p.y>> \in Rows
         /\ \A path \in paths : \A k \in 1..Len(path) : InRange(path[k]) => path[k] \in Wanted
<1>1. \A p, q \in Wanted : ~Shorted(p, q)
  <2>1. CASE paths = {}
    BY <2>1 DEF Wanted, PointsOf
  <2>2. CASE paths \in Boards
    BY <2>2, Parameters DEF Wanted
  <2> QED  BY <2>1, <2>2 DEF SendsWanted
<1>2. ASSUME NEW p \in Wanted PROVE <<p.chip, p.y>> \in Rows
  <2>1. paths \in Boards
    BY <1>2 DEF SendsWanted, Wanted, PointsOf
  <2>2. p \in PointsOf(UNION Boards)
    BY <1>2, <2>1 DEF Wanted, PointsOf
  <2> QED  BY <2>2 DEF Rows, RowsOf
<1>3. ASSUME NEW path \in paths, NEW k \in 1..Len(path), InRange(path[k])
      PROVE  path[k] \in Wanted
  <2>1. path \in Seq(Hops)
    BY DEF TypeOK
  <2>2. path[k] \in ToSet(path)
    BY <2>1 DEF ToSet
  <2> QED  BY <1>3, <2>2 DEF Wanted, PointsOf
<1> QED  BY <1>1, <1>2, <1>3

LEMMA WantedKept ==
  ASSUME SendsWanted, NEW c \in Cores, OthersStay(c), UNCHANGED <<paths, request>>,
         calls[c] # <<>>, c = 0 => Head(calls[0]) # Do("await"),
         c = 1 => \A call \in ToSet(calls'[1]) : OfPaths(call)
  PROVE  SendsWanted'
<1>1. 0 \in Cores /\ 1 \in Cores /\ (c = 0 \/ c = 1)
  BY DEF Cores
<1>2. \A call : OfPaths(call)' = OfPaths(call)
  BY DEF OfPaths, Wanted
<1>3. \A call \in ToSet(calls'[1]) : OfPaths(call)'
  BY <1>1, <1>2 DEF SendsWanted, OthersStay
<1>4. calls'[1] # <<>> => request # 0
  BY <1>1 DEF SendsWanted, OthersStay
<1>5. request \in {-1, 1} => calls'[0] = <<Do("await")>>
  <2>1. Head(<<Do("await")>>) = Do("await")
    OBVIOUS
  <2> QED  BY <1>1, <2>1 DEF SendsWanted, OthersStay
<1> QED  BY <1>3, <1>4, <1>5 DEF SendsWanted

LEMMA WantedCore ==
  ASSUME TypeOK, CallsNest, SendsWanted, NEW c \in Cores, CoreStep(c)
  PROVE  SendsWanted'
<1>0. 0 \in Cores /\ 1 \in Cores /\ (c = 0 \/ c = 1) /\ Do("await").do = "await"
  BY CallForms DEF Cores
<1>1. ASSUME calls[c] # <<>>
      PROVE  c = 1 => OfPaths(Head(calls[c])) /\ \A call \in Below(c) : OfPaths(call)
  BY <1>1, RestOf DEF Below, SendsWanted
<1>2. CASE OpenNext(c)
  <2>1. calls[c] # <<>> /\ Head(calls[c]).do = "open" /\ OthersStay(c)
    BY <1>2, OpenNextStack
  <2>2. PICK p \in Head(calls[c]).points :
          \E left \in SUBSET {Open(Head(calls[c]).points \ {p})} :
            Stacked(c, Write(p, FALSE), left \cup Below(c))
    BY <1>2, OpenNextStack
  <2>3. PICK left \in SUBSET {Open(Head(calls[c]).points \ {p})} :
            Stacked(c, Write(p, FALSE), left \cup Below(c))
    BY <2>2
  <2>4. ToSet(calls'[c]) = {Write(p, FALSE)} \cup left \cup Below(c)
    BY <2>3 DEF Stacked
  <2>5. Write(p, FALSE).do = "write" /\ Write(p, FALSE).on = FALSE
    BY CallForms
  <2>6. ASSUME NEW call \in left PROVE call.do = "open"
    <3>1. call = Open(Head(calls[c]).points \ {p})
      BY <2>3
    <3>2. Open(Head(calls[c]).points \ {p}).do = "open"
      BY CallForms
    <3> QED  BY <3>1, <3>2
  <2>7. OfPaths(Write(p, FALSE)) /\ \A call \in left : OfPaths(call)
    BY <2>5, <2>6 DEF OfPaths
  <2>8. UNCHANGED <<paths, request>>
    BY <1>2 DEF OpenNext
  <2> QED  BY <1>0, <1>1, <2>1, <2>4, <2>7, <2>8, WantedKept
<1>3. CASE Put(c)
  <2>1. calls[c] # <<>> /\ Head(calls[c]).do = "write" /\ OthersStay(c)
    BY <1>3, PutStack DEF Writes, Does
  <2>2. PICK sent \in Call :
          /\ sent.do = "write" /\ sent.at = "wait"
          /\ sent.point = Head(calls[c]).point /\ sent.on = Head(calls[c]).on
          /\ Stacked(c, sent, Below(c))
    BY <1>3, PutStack
  <2>3. ToSet(calls'[c]) = {sent} \cup Below(c)
    BY <2>2 DEF Stacked
  <2>4. OfPaths(Head(calls[c])) => OfPaths(sent)
    BY <2>1, <2>2 DEF OfPaths
  <2>5. UNCHANGED <<paths, request>>
    BY <1>3 DEF Put
  <2> QED  BY <1>0, <1>1, <2>1, <2>3, <2>4, <2>5, WantedKept
<1>4. CASE Return(c) \/ GiveUp(c)
  <2>1. calls[c] # <<>> /\ Head(calls[c]).do = "write" /\ Returns(c) /\ UNCHANGED <<paths, request>>
    BY <1>4 DEF Return, GiveUp, Writes, Does
  <2>2. ToSet(calls'[c]) = Below(c) /\ OthersStay(c)
    BY <2>1, PopStack DEF Popped
  <2> QED  BY <1>0, <1>1, <2>1, <2>2, WantedKept
<1>5. CASE NextHop(c)
  <2>1. /\ calls[c] # <<>> /\ Head(calls[c]) \in Call /\ Head(calls[c]).do = "send"
        /\ OthersStay(c)
    BY <1>5, NextHopStack
  <2>2. PICK p \in Hops, next \in Call :
          /\ Sends(c).hop \in 1..Len(Sends(c).path) /\ p = Sends(c).path[Sends(c).hop]
          /\ next.do = "send" /\ next.hop = Sends(c).hop + 1 /\ next.left = Sends(c).left
          /\ next.path = Sends(c).path /\ next.noted = Sends(c).noted
          /\ chipSelect' = p.chip
          /\ \/ Stacked(c, next, Below(c))
             \/ Stacked(c, Write(p, TRUE), {next} \cup Below(c))
             \/ Stacked(c, Open(Conflicting(p, TRUE)), {Write(p, TRUE), next} \cup Below(c))
    BY <1>5, NextHopStack
  <2>3. ToSet(calls'[c]) \subseteq
          {next, Write(p, TRUE), Open(Conflicting(p, TRUE))} \cup Below(c)
    BY <2>2 DEF Stacked
  <2>4. OfPaths(Head(calls[c])) => OfPaths(next)
    BY <2>1, <2>2 DEF OfPaths, Sends
  <2>5. OfPaths(Open(Conflicting(p, TRUE)))
    <3>1. Open(Conflicting(p, TRUE)).do = "open"
      BY CallForms
    <3> QED  BY <3>1 DEF OfPaths
  <2>6. ASSUME OfPaths(Head(calls[c])) PROVE OfPaths(Write(p, TRUE))
    <3>1. Sends(c).path \in paths
      <4>1. Sends(c).path # <<>>
        BY <2>2
      <4> QED  BY <2>1, <2>6, <4>1 DEF OfPaths, Sends
    <3>2. InRange(p) => p \in Wanted
      BY <2>2, <3>1, WantedFacts
    <3>3. Write(p, TRUE).do = "write" /\ Write(p, TRUE).point = p
      BY CallForms
    <3> QED  BY <3>2, <3>3 DEF OfPaths
  <2>7. UNCHANGED <<paths, request>>
    BY <1>5 DEF NextHop
  <2>8. c = 1 => \A call \in ToSet(calls'[1]) : OfPaths(call)
    BY <1>1, <2>1, <2>3, <2>4, <2>5, <2>6
  <2> QED  BY <1>0, <2>1, <2>7, <2>8, WantedKept
<1>6. CASE NextPath(c)
  <2>1. /\ calls[c] # <<>> /\ Head(calls[c]).do = "send"
        /\ OthersStay(c)
    BY <1>6, NextPathStack
  <2>2. \/ ToSet(calls'[c]) = Below(c)
        \/ \E path \in Sends(c).left, next \in Call :
             /\ next.do = "send" /\ next.left = Sends(c).left \ {path} /\ next.path = path
             /\ ToSet(calls'[c]) = {next} \cup Below(c)
    BY <1>6, NextPathStack DEF Popped, Stacked
  <2>3. UNCHANGED <<paths, request>>
    BY <1>6 DEF NextPath
  <2>4. ASSUME NEW path \in Sends(c).left, NEW next \in Call,
               /\ next.do = "send" /\ next.left = Sends(c).left \ {path} /\ next.path = path
               /\ OfPaths(Head(calls[c]))
        PROVE  OfPaths(next)
    BY <2>1, <2>4 DEF OfPaths, Sends
  <2>5. c = 1 => \A call \in ToSet(calls'[1]) : OfPaths(call)
    BY <1>1, <2>1, <2>2, <2>4
  <2> QED  BY <1>0, <2>1, <2>3, <2>5, WantedKept
<1>7. CASE Search(c)
  <2>1. /\ calls[c] # <<>> /\ Head(calls[c]).do = "search"
        /\ OthersStay(c)
    BY <1>7, SearchStack
  <2>2. \/ ToSet(calls'[c]) = Below(c)
        \/ \E points, rows : ToSet(calls'[c]) = {Open(points), SearchIn(rows)} \cup Below(c)
    <3>1. Popped(c) \/ \E points, rows : Stacked(c, Open(points), {SearchIn(rows)} \cup Below(c))
      BY <1>7, SearchStack
    <3> QED  BY <3>1 DEF Popped, Stacked
  <2>3. UNCHANGED <<paths, request>>
    BY <1>7 DEF Search
  <2>4. ASSUME NEW points, NEW rows PROVE OfPaths(Open(points)) /\ OfPaths(SearchIn(rows))
    <3>1. Open(points).do = "open" /\ SearchIn(rows).do = "search"
      BY CallForms
    <3> QED  BY <3>1 DEF OfPaths
  <2>5. c = 1 => \A call \in ToSet(calls'[1]) : OfPaths(call)
    BY <1>1, <2>1, <2>2, <2>4
  <2> QED  BY <1>0, <2>1, <2>3, <2>5, WantedKept
<1>8. CASE Acknowledge(c)
  <2>1. calls[c] # <<>> /\ Head(calls[c]).do = "acknowledge" /\ Returns(c)
    BY <1>8 DEF Acknowledge, Does
  <2>2. c = 1
    <3>1. Head(calls[c]) \in ToSet(calls[c])
      BY <2>1, RestOf
    <3> QED  BY <1>0, <2>1, <3>1 DEF CallsNest, In
  <2>3. Below(c) = {}
    <3>1. Head(calls[c]) \in Call
      BY <2>1, RestOf
    <3>2. Level(Head(calls[c])) = 6
      BY <2>1, <3>1, LevelOf
    <3>3. ASSUME NEW call \in Below(c) PROVE FALSE
      <4>1. call \in Call /\ 6 < Level(call)
        BY <2>1, <3>2, <3>3, RestOf DEF Below
      <4> QED  BY <4>1, LevelOf
    <3> QED  BY <3>3
  <2>4. ToSet(calls'[1]) = {} /\ calls'[0] = calls[0]
    BY <1>0, <2>1, <2>2, <2>3, PopStack DEF Popped, OthersStay
  <2>5. calls' \in [Cores -> Seq(Call)]
    BY <2>1, ReturnsEffect
  <2>6. calls'[1] = <<>>
    BY <1>0, <2>4, <2>5, StackElements
  <2>7. request' = 0 /\ paths' = paths
    BY <1>8 DEF Acknowledge
  <2> QED  BY <2>4, <2>6, <2>7 DEF SendsWanted
<1>9. CASE Await(c)
  <2>1. calls[c] # <<>> /\ Head(calls[c]).do = "await" /\ Returns(c) /\ request = 0
        /\ UNCHANGED <<paths, request>>
    BY <1>9 DEF Await, Does
  <2>2. c = 0
    <3>1. Head(calls[c]) \in ToSet(calls[c])
      BY <2>1, RestOf
    <3> QED  BY <1>0, <2>1, <3>1 DEF CallsNest, In
  <2>3. calls'[1] = calls[1]
    BY <1>0, <2>1, <2>2, PopStack DEF OthersStay
  <2>4. \A call : OfPaths(call)' = OfPaths(call)
    BY <2>1 DEF OfPaths, Wanted
  <2> QED  BY <2>1, <2>3, <2>4 DEF SendsWanted
<1> QED  BY <1>2, <1>3, <1>4, <1>5, <1>6, <1>7, <1>8, <1>9 DEF CoreStep

LEMMA WantedStep == TypeOK /\ CallsNest /\ SendsWanted /\ [Next]_vars => SendsWanted'
<1> SUFFICES ASSUME TypeOK, CallsNest, SendsWanted, [Next]_vars PROVE SendsWanted'
  OBVIOUS
<1>0. 0 \in Cores /\ 1 \in Cores /\ Do("await").do = "await"
  BY CallForms DEF Cores
<1>1. CASE UNCHANGED <<paths, calls, request>>
  BY <1>1 DEF SendsWanted, OfPaths, Wanted
<1>2. ASSUME NEW c \in Cores, CoreStep(c) PROVE SendsWanted'
  BY <1>2, WantedCore
<1>3. CASE sendPaths
  <2>1. calls'[0] = calls[0] /\ request # 0
    BY <1>0, <1>3, SendPathsStack DEF OthersStay
  <2>2. \/ ToSet(calls'[1]) = {sendEach(paths, TRUE), Do("acknowledge")}
        \/ ToSet(calls'[1]) = {SearchIn(Rows), sendEach(Changed, FALSE), Do("acknowledge")}
    <3>1. \/ Stacked(1, sendEach(paths, TRUE), {Do("acknowledge")})
          \/ Stacked(1, SearchIn(Rows), {sendEach(Changed, FALSE), Do("acknowledge")})
      BY <1>3, SendPathsStack
    <3> QED  BY <3>1 DEF Stacked
  <2>3. UNCHANGED <<paths, request>>
    BY <1>3 DEF sendPaths
  <2>4. \A call : OfPaths(call)' = OfPaths(call)
    BY <2>3 DEF OfPaths, Wanted
  <2>5. OfPaths(sendEach(paths, TRUE)) /\ OfPaths(sendEach(Changed, FALSE))
    <3>1. Changed \subseteq paths
      BY DEF Changed
    <3>2. /\ sendEach(paths, TRUE).do = "send" /\ sendEach(paths, TRUE).left = paths
          /\ sendEach(paths, TRUE).path = <<>>
      BY CallForms
    <3>3. /\ sendEach(Changed, FALSE).do = "send" /\ sendEach(Changed, FALSE).left = Changed
          /\ sendEach(Changed, FALSE).path = <<>>
      BY CallForms
    <3> QED  BY <3>1, <3>2, <3>3 DEF OfPaths
  <2>6. OfPaths(SearchIn(Rows)) /\ OfPaths(Do("acknowledge"))
    <3>1. SearchIn(Rows).do = "search" /\ Do("acknowledge").do = "acknowledge"
      BY CallForms
    <3> QED  BY <3>1 DEF OfPaths
  <2>7. \A call \in ToSet(calls'[1]) : OfPaths(call)'
    BY <2>2, <2>4, <2>5, <2>6
  <2> QED  BY <2>1, <2>3, <2>7 DEF SendsWanted
<1>4. ASSUME NEW board \in Boards, NEW kind \in {-1, 1, 3}, Refresh(board, kind)
      PROVE  SendsWanted'
  <2>1. /\ calls'[1] = <<>> /\ (kind # 3 => calls'[0] = <<Do("await")>>)
        /\ paths' = board /\ request' = kind
    BY <1>4, RefreshStack
  <2>2. ToSet(calls'[1]) = {}
    BY <2>1, EmptyStack
  <2> QED  BY <2>1, <2>2 DEF SendsWanted
<1>5. CASE calls[0] = <<>> /\ OthersStay(0) /\ UNCHANGED <<paths, request>>
  <2>1. calls'[1] = calls[1]
    BY <1>0, <1>5 DEF OthersStay
  <2>2. request \notin {-1, 1}
    <3>1. <<Do("await")>> # <<>>
      OBVIOUS
    <3> QED  BY <1>5, <3>1 DEF SendsWanted
  <2>3. \A call : OfPaths(call)' = OfPaths(call)
    BY <1>5 DEF OfPaths, Wanted
  <2> QED  BY <1>5, <2>1, <2>2, <2>3 DEF SendsWanted
<1>6. ASSUME NEW p \in Raw, NEW on \in BOOLEAN, jl_send_raw(p, on) PROVE SendsWanted'
  <2>1. calls[0] = <<>> /\ OthersStay(0)
    BY <1>6, RawStack, Parameters
  <2>2. UNCHANGED <<paths, request>>
    BY <1>6 DEF jl_send_raw
  <2> QED  BY <1>5, <2>1, <2>2
<1>7. CASE refreshPaths
  <2>1. calls[0] = <<>> /\ UNCHANGED <<paths, request>>
    BY <1>7 DEF refreshPaths, CanStart
  <2>2. OthersStay(0)
    BY <1>7, RefreshPathsStack
  <2> QED  BY <1>5, <2>1, <2>2
<1> QED  BY <1>1, <1>2, <1>3, <1>4, <1>6, <1>7 DEF Next, vars, isrFromPio

----------------------------------------------------------------------------
(* What is known of the switches while only one core sends.                *)

LEMMA WhatCallsDo ==
  \A call, p :
    /\ call.do = "open" => (Opens(call, p) <=> p \in call.points) /\ ~Closes(call, p)
    /\ call.do = "write" /\ call.on => (Closes(call, p) <=> call.point = p) /\ ~Opens(call, p)
    /\ call.do = "write" /\ ~call.on => (Opens(call, p) <=> call.point = p) /\ ~Closes(call, p)
    /\ call.do \in {"search", "acknowledge", "await"} => ~Opens(call, p) /\ ~Closes(call, p)
    /\ call.do = "send" => ~Opens(call, p)
<1> QED  BY DEF Opens, Closes

LEMMA TopOrBelow ==
  ASSUME TypeOK, CallsNest, NEW c \in Cores, calls[c] # <<>>
  PROVE  \A p : /\ ToOpen(c, p) <=> \/ Opens(Head(calls[c]), p)
                                    \/ \E call \in Below(c) : Opens(call, p)
                /\ ToClose(c, p) <=> \/ Closes(Head(calls[c]), p)
                                     \/ \E call \in Below(c) : Closes(call, p)
<1>1. ToSet(calls[c]) = {Head(calls[c])} \cup Below(c)
  BY RestOf DEF Below
<1> QED  BY <1>1 DEF ToOpen, ToClose

LEMMA OthersIdle ==
  ASSUME TypeOK, CallsNest, Solo, NEW c \in Cores, calls[c] # <<>>,
         Head(calls[c]).do # "await", OthersStay(c)
  PROVE  \A d \in Cores : d # c =>
           /\ \A call \in ToSet(calls[d]) : call.do = "await"
           /\ \A p : /\ ~ToOpen(d, p) /\ ~ToClose(d, p)
                     /\ ~ToOpen(d, p)' /\ ~ToClose(d, p)'
           /\ ~Writes(d, "put") /\ ~Writes(d, "wait")
           /\ ~Writes(d, "put")' /\ ~Writes(d, "wait")'
           /\ d = 1 => calls[d] = <<>> /\ calls'[d] = <<>>
<1> SUFFICES ASSUME NEW d \in Cores, d # c
             PROVE  /\ \A call \in ToSet(calls[d]) : call.do = "await"
                    /\ \A p : /\ ~ToOpen(d, p) /\ ~ToClose(d, p)
                              /\ ~ToOpen(d, p)' /\ ~ToClose(d, p)'
                    /\ ~Writes(d, "put") /\ ~Writes(d, "wait")
                    /\ ~Writes(d, "put")' /\ ~Writes(d, "wait")'
                    /\ d = 1 => calls[d] = <<>> /\ calls'[d] = <<>>
  OBVIOUS
<1>1. calls'[d] = calls[d] /\ calls[d] \in Seq(Call)
  BY DEF OthersStay, TypeOK
<1>2. d = 1 => calls[d] = <<>>
  <2>1. ASSUME d = 1 PROVE c = 0
    BY <2>1 DEF Cores
  <2>2. Head(calls[c]) \in ToSet(calls[c])
    BY RestOf
  <2> QED  BY <2>1, <2>2 DEF Solo
<1>3. \A call \in ToSet(calls[d]) : call.do = "await"
  <2>1. CASE d = 1
    BY <1>2, <2>1, EmptyStack
  <2>2. CASE d = 0
    BY <2>2 DEF Solo, Cores
  <2> QED  BY <2>1, <2>2 DEF Cores
<1>4. \A p : ~ToOpen(d, p) /\ ~ToClose(d, p)
  BY <1>3, WhatCallsDo DEF ToOpen, ToClose
<1>5. \A p : ~ToOpen(d, p)' /\ ~ToClose(d, p)'
  BY <1>1, <1>4 DEF ToOpen, ToClose
<1>6. calls[d] # <<>> => Head(calls[d]).do = "await"
  BY <1>3, RestOf
<1>7. ~Writes(d, "put") /\ ~Writes(d, "wait")
  BY <1>6 DEF Writes, Does
<1>8. ~Writes(d, "put")' /\ ~Writes(d, "wait")'
  BY <1>1, <1>6 DEF Writes, Does
<1> QED  BY <1>1, <1>2, <1>3, <1>4, <1>5, <1>7, <1>8

(* Before the byte of the only sender is put, none is on the way.          *)
LEMMA NoneOnTheWay ==
  ASSUME TypeOK, CallsNest, Solo, Strobed, NEW c \in Cores, calls[c] # <<>>,
         Head(calls[c]).do # "await", ~Writes(c, "wait")
  PROVE  fifo = <<>>
<1>1. \A d \in Cores : d # c => ~Writes(d, "wait")
  <2> SUFFICES ASSUME NEW d \in Cores, d # c PROVE ~Writes(d, "wait")
    OBVIOUS
  <2>1. Head(calls[c]) \in ToSet(calls[c])
    BY RestOf
  <2>2. calls[d] # <<>> => Head(calls[d]) \in ToSet(calls[d])
    BY RestOf
  <2> QED  BY <2>1, <2>2 DEF Solo, Writes, Does, Cores
<1> QED  BY <1>1 DEF Strobed

LEMMA SoloKept ==
  ASSUME TypeOK, CallsNest, Solo, NEW c \in Cores, calls[c] # <<>>,
         Head(calls[c]).do # "await", OthersStay(c),
         \A call \in ToSet(calls'[c]) :
           \/ call.do # "send"
           \/ \E old \in ToSet(calls[c]) : old.do = "send"
  PROVE  Solo'
<1>1. 0 \in Cores /\ 1 \in Cores /\ (c = 0 \/ c = 1)
  BY DEF Cores
<1>2. CASE c = 1
  BY <1>1, <1>2 DEF Solo, In, OthersStay
<1>3. CASE c = 0
  <2>1. calls'[1] = <<>>
    BY <1>1, <1>3, OthersIdle
  <2> QED  BY <1>1, <1>3, <2>1 DEF Solo, In
<1> QED  BY <1>1, <1>2, <1>3

(* A step of the sender keeps what is known of the strobe if it does on    *)
(* the sender's own stack.                                                 *)
LEMMA StrobedKept ==
  ASSUME TypeOK, CallsNest, Solo, NEW c \in Cores, calls[c] # <<>>,
         Head(calls[c]).do # "await", OthersStay(c),
         StrobedAt(c)',
         fifo' = <<>> \/ Writes(c, "wait")'
  PROVE  Strobed'
<1>1. ASSUME NEW d \in Cores, d # c PROVE StrobedAt(d)'
  <2>1. ~Writes(d, "put")' /\ ~Writes(d, "wait")' /\ calls'[d] = calls[d]
        /\ \A call \in ToSet(calls[d]) : call.do = "await"
    BY <1>1, OthersIdle DEF OthersStay
  <2>2. calls[d] # <<>> => ToSet(Tail(calls[d])) \subseteq ToSet(calls[d])
    BY RestOf
  <2> QED  BY <2>1, <2>2 DEF StrobedAt
<1> QED  BY <1>1 DEF Strobed

LEMMA NothingOnCore2 ==
  ASSUME calls'[1] = <<>>
  PROVE  Searching' /\ Sending'
<1>1. ~In(1, "search")'
  BY EmptyStack DEF In
<1> QED  BY <1>1 DEF Searching, Sending

LEMMA KnownOpenNext ==
  ASSUME TypeOK, CallsNest, SendsWanted, Known, NEW c \in Cores, OpenNext(c)
  PROVE  Known'
<1>0. Solo /\ Searching /\ Sending /\ Remembered /\ Strobed /\ SwitchesKnown
  BY DEF Known
<1>1. /\ calls[c] # <<>> /\ Head(calls[c]) \in Call /\ Head(calls[c]).do = "open"
      /\ OthersStay(c)
  BY OpenNextStack
<1>2. PICK p \in Head(calls[c]).points :
        \E left \in SUBSET {Open(Head(calls[c]).points \ {p})} :
          /\ p \in Crosspoints /\ chipSelect' = p.chip /\ lastChipXY' = lastChipXY \ {p}
          /\ doubt' = doubt /\ strays' = strays
          /\ left = {} => Head(calls[c]).points \ {p} = {}
          /\ Stacked(c, Write(p, FALSE), left \cup Below(c))
  BY OpenNextStack
<1>3. PICK left \in SUBSET {Open(Head(calls[c]).points \ {p})} :
          /\ p \in Crosspoints /\ chipSelect' = p.chip /\ lastChipXY' = lastChipXY \ {p}
          /\ doubt' = doubt /\ strays' = strays
          /\ left = {} => Head(calls[c]).points \ {p} = {}
          /\ Stacked(c, Write(p, FALSE), left \cup Below(c))
  BY <1>2
<1> DEFINE w == Write(p, FALSE)
           o == Open(Head(calls[c]).points \ {p})
<1>4. w.do = "write" /\ w.point = p /\ w.on = FALSE /\ w.at = "put"
  BY CallForms
<1>5. o.do = "open" /\ o.points = Head(calls[c]).points \ {p}
  BY CallForms
<1>6. /\ calls'[c] # <<>> /\ Head(calls'[c]) = w /\ ToSet(Tail(calls'[c])) = left \cup Below(c)
      /\ ToSet(calls'[c]) = {w} \cup left \cup Below(c)
  BY <1>3 DEF Stacked
<1>7. /\ \A call \in left : call = o
      /\ left = {} => Head(calls[c]).points \ {p} = {}
      /\ left # {} => o \in left
  BY <1>3
<1> HIDE DEF w, o
<1>8. UNCHANGED <<paths, chipHadConnections, switches, fifo>> /\ Wanted' = Wanted
  BY DEF OpenNext, Wanted
<1>9. \A q : ToOpen(c, q)' <=> ToOpen(c, q)
  <2> SUFFICES ASSUME NEW q PROVE ToOpen(c, q)' <=> ToOpen(c, q)
    OBVIOUS
  <2>1. ToOpen(c, q) <=> q \in Head(calls[c]).points \/ \E call \in Below(c) : Opens(call, q)
    BY <1>1, TopOrBelow, WhatCallsDo
  <2>2. ToOpen(c, q)' <=> \E call \in {w} \cup left \cup Below(c) : Opens(call, q)
    BY <1>6 DEF ToOpen, Opens
  <2>3. Opens(w, q) <=> q = p
    BY <1>4, WhatCallsDo
  <2>4. Opens(o, q) <=> q \in Head(calls[c]).points \ {p}
    BY <1>5, WhatCallsDo
  <2> QED  BY <1>7, <2>1, <2>2, <2>3, <2>4
<1>10. \A q : ToClose(c, q)' <=> ToClose(c, q)
  <2> SUFFICES ASSUME NEW q PROVE ToClose(c, q)' <=> ToClose(c, q)
    OBVIOUS
  <2>1. ToClose(c, q) <=> \E call \in Below(c) : Closes(call, q)
    BY <1>1, TopOrBelow, WhatCallsDo
  <2>2. ToClose(c, q)' <=> \E call \in {w} \cup left \cup Below(c) : Closes(call, q)
    BY <1>6 DEF ToClose, Closes
  <2>3. ~Closes(w, q) /\ ~Closes(o, q)
    BY <1>4, <1>5, WhatCallsDo
  <2> QED  BY <1>7, <2>1, <2>2, <2>3
<1>11. /\ Below(c) \subseteq ToSet(calls[c])
       /\ \A call \in ToSet(calls[c]) : call \in Below(c) \/ call = Head(calls[c])
  BY <1>1, RestOf DEF Below
<1>12. fifo = <<>>
  <2>1. ~Writes(c, "wait")
    BY <1>1 DEF Writes, Does
  <2> QED  BY <1>0, <1>1, <2>1, NoneOnTheWay
<1>13. Solo'
  BY <1>0, <1>1, <1>4, <1>5, <1>6, <1>7, <1>11, SoloKept
<1>14. Searching' /\ Sending'
  <2>1. CASE c = 1
    <3>1. In(1, "search")' <=> In(1, "search")
      BY <1>1, <1>4, <1>5, <1>6, <1>7, <1>11, <2>1 DEF In
    <3>2. In(1, "search")
      BY <1>0, <1>1, <1>11, <2>1, RestOf DEF Sending
    <3>3. ToOpen(1, p)
      BY <1>1, <2>1, TopOrBelow, WhatCallsDo
    <3>4. p \notin Wanted
      BY <1>0, <3>2, <3>3 DEF Searching
    <3>5. \A q \in lastChipXY' \cup Wanted' : ToOpen(1, q)' => q \notin Wanted'
      BY <1>0, <1>3, <1>8, <1>9, <2>1, <3>2 DEF Searching
    <3>6. \A q \in Wanted' \ lastChipXY' : ToClose(1, q)'
      BY <1>0, <1>3, <1>8, <1>10, <2>1, <3>2, <3>4 DEF Searching
    <3>7. \A call \in ToSet(calls'[1]) : call.do = "send" => ~call.noted
      BY <1>0, <1>4, <1>5, <1>6, <1>7, <1>11, <2>1, <3>2 DEF Searching
    <3>8. ASSUME NEW q \in lastChipXY' \ Wanted'
          PROVE  \/ ToOpen(1, q)'
                 \/ \E call \in ToSet(calls'[1]) :
                      call.do = "search" /\ <<q.chip, q.y>> \in call.rows
      <4>1. \/ ToOpen(1, q)
            \/ \E call \in ToSet(calls[1]) : call.do = "search" /\ <<q.chip, q.y>> \in call.rows
        BY <1>0, <1>3, <1>8, <3>2, <3>8 DEF Searching
      <4> QED  BY <1>1, <1>6, <1>9, <1>11, <2>1, <4>1
    <3> QED  BY <3>1, <3>2, <3>5, <3>6, <3>7, <3>8 DEF Searching, Sending
  <2>2. CASE c # 1
    <3>1. calls'[1] = <<>>
      BY <1>0, <1>1, <2>2, OthersIdle DEF Cores
    <3> QED  BY <3>1, NothingOnCore2
  <2> QED  BY <2>1, <2>2
<1>15. Remembered'
  <2> SUFFICES ASSUME NEW q \in lastChipXY'
               PROVE  /\ <<q.chip, q.y>> \in Rows
                      /\ \/ q.chip \in chipHadConnections
                         \/ \E call \in ToSet(calls'[1]) :
                              call.do = "send" /\ call.noted /\ q \in ToSet(call.path)
    BY <1>8 DEF Remembered
  <2>1. /\ <<q.chip, q.y>> \in Rows
        /\ \/ q.chip \in chipHadConnections
           \/ \E call \in ToSet(calls[1]) :
                call.do = "send" /\ call.noted /\ q \in ToSet(call.path)
    BY <1>0, <1>3 DEF Remembered
  <2>2. \A call \in ToSet(calls[1]) : call.do = "send" => call \in ToSet(calls'[1])
    BY <1>1, <1>6, <1>11 DEF OthersStay, Cores
  <2> QED  BY <2>1, <2>2
<1>16. Strobed'
  <2>1. Aimed(Head(calls[c]))'
    BY <1>3, <1>4, <1>6, HopTypes DEF Aimed
  <2>2. ~Writes(c, "wait")'
    BY <1>4, <1>6 DEF Writes, Does
  <2>3. \A call \in Below(c) : call.do = "write" /\ call.on => c = 0 /\ "clash" \in doubt
    BY <1>0, <1>1 DEF Strobed, StrobedAt, Below
  <2>4. \A call \in ToSet(Tail(calls'[c])) :
          call.do = "write" /\ call.on => c = 0 /\ "clash" \in doubt'
    BY <1>3, <1>5, <1>6, <1>7, <2>3
  <2>5. StrobedAt(c)'
    BY <1>8, <1>12, <2>1, <2>2, <2>4 DEF StrobedAt
  <2> QED  BY <1>0, <1>1, <1>8, <1>12, <2>5, StrobedKept
<1>17. SwitchesKnown'
  <2>1. \A d \in Cores : d # c => \A q : ~ToOpen(d, q) /\ ~ToClose(d, q)
    BY <1>0, <1>1, OthersIdle
  <2>2. ToOpen(c, p)
    BY <1>1, TopOrBelow, WhatCallsDo
  <2>3. \A q \in switches' : q \in lastChipXY' \cup strays' \/ \E d \in Cores : ToOpen(d, q)'
    BY <1>0, <1>3, <1>8, <1>9, <2>1, <2>2 DEF SwitchesKnown
  <2>4. doubt' = {} => \A q \in lastChipXY' : q \in switches' \/ \E d \in Cores : ToClose(d, q)'
    BY <1>0, <1>3, <1>8, <1>10, <2>1 DEF SwitchesKnown
  <2>5. \A q, r \in switches' \ strays' : ~Shorted(q, r)
    BY <1>0, <1>3, <1>8 DEF SwitchesKnown
  <2> QED  BY <2>3, <2>4, <2>5 DEF SwitchesKnown
<1> QED  BY <1>13, <1>14, <1>15, <1>16, <1>17 DEF Known

LEMMA KnownPut ==
  ASSUME TypeOK, CallsNest, SendsWanted, Known, NEW c \in Cores, Put(c)
  PROVE  Known'
<1>0. Solo /\ Searching /\ Sending /\ Remembered /\ Strobed /\ SwitchesKnown
  BY DEF Known
<1>1. /\ calls[c] # <<>> /\ Writes(c, "put") /\ Head(calls[c]).do = "write" /\ OthersStay(c)
  BY PutStack DEF Writes, Does
<1>2. PICK sent \in Call :
        /\ sent.do = "write" /\ sent.at = "wait"
        /\ sent.point = Head(calls[c]).point /\ sent.on = Head(calls[c]).on
        /\ Stacked(c, sent, Below(c))
  BY PutStack
<1>3. /\ calls'[c] # <<>> /\ Head(calls'[c]) = sent /\ ToSet(Tail(calls'[c])) = Below(c)
      /\ ToSet(calls'[c]) = {sent} \cup Below(c)
  BY <1>2 DEF Stacked
<1>4. /\ UNCHANGED <<paths, lastChipXY, chipHadConnections, switches, chipSelect, strays, doubt>>
      /\ Wanted' = Wanted
  BY DEF Put, Wanted
<1>5. /\ ToSet(calls[c]) = {Head(calls[c])} \cup Below(c)
      /\ Head(calls[c]) \in Call
  BY <1>1, RestOf DEF Below
<1>6. fifo = <<>> /\ (Aimed(Head(calls[c])) \/ (c = 0 /\ Clash(Head(calls[c]))))
  BY <1>0, <1>1 DEF Strobed, StrobedAt
<1>7. \A q : (Opens(sent, q) <=> Opens(Head(calls[c]), q))
             /\ (Closes(sent, q) <=> Closes(Head(calls[c]), q))
  BY <1>1, <1>2 DEF Opens, Closes
<1>8. \A q : (ToOpen(c, q)' <=> ToOpen(c, q)) /\ (ToClose(c, q)' <=> ToClose(c, q))
  <2> SUFFICES ASSUME NEW q
               PROVE  (ToOpen(c, q)' <=> ToOpen(c, q)) /\ (ToClose(c, q)' <=> ToClose(c, q))
    OBVIOUS
  <2>1. ToOpen(c, q) <=> Opens(Head(calls[c]), q) \/ \E call \in Below(c) : Opens(call, q)
    BY <1>1, TopOrBelow
  <2>2. ToOpen(c, q)' <=> \E call \in {sent} \cup Below(c) : Opens(call, q)
    BY <1>3 DEF ToOpen, Opens
  <2>3. ToClose(c, q) <=> Closes(Head(calls[c]), q) \/ \E call \in Below(c) : Closes(call, q)
    BY <1>1, TopOrBelow
  <2>4. ToClose(c, q)' <=> \E call \in {sent} \cup Below(c) : Closes(call, q)
    BY <1>3 DEF ToClose, Closes
  <2> QED  BY <1>7, <2>1, <2>2, <2>3, <2>4
<1>9. Solo'
  BY <1>0, <1>1, <1>2, <1>3, <1>5, SoloKept
<1>10. Searching' /\ Sending'
  <2>1. CASE c = 1
    <3>1. In(1, "search")' <=> In(1, "search")
      BY <1>1, <1>2, <1>3, <1>5, <2>1 DEF In
    <3>2. ASSUME In(1, "search") PROVE Searching'
      <4>1. \A q \in lastChipXY' \cup Wanted' : ToOpen(1, q)' => q \notin Wanted'
        BY <1>0, <1>4, <1>8, <2>1, <3>2 DEF Searching
      <4>2. \A q \in Wanted' \ lastChipXY' : ToClose(1, q)'
        BY <1>0, <1>4, <1>8, <2>1, <3>2 DEF Searching
      <4>3. \A call \in ToSet(calls'[1]) : call.do = "send" => ~call.noted
        BY <1>0, <1>2, <1>3, <1>5, <2>1, <3>2 DEF Searching
      <4>4. ASSUME NEW q \in lastChipXY' \ Wanted'
            PROVE  \/ ToOpen(1, q)'
                   \/ \E call \in ToSet(calls'[1]) :
                        call.do = "search" /\ <<q.chip, q.y>> \in call.rows
        <5>1. \/ ToOpen(1, q)
              \/ \E call \in ToSet(calls[1]) :
                   call.do = "search" /\ <<q.chip, q.y>> \in call.rows
          BY <1>0, <1>4, <3>2, <4>4 DEF Searching
        <5> QED  BY <1>1, <1>3, <1>5, <1>8, <2>1, <5>1
      <4> QED  BY <4>1, <4>2, <4>3, <4>4 DEF Searching
    <3>3. ASSUME ~In(1, "search") PROVE Sending'
      <4>1. /\ lastChipXY \subseteq Wanted
            /\ \A q \in Wanted \ lastChipXY : ToClose(1, q)
            /\ \A call \in ToSet(calls[1]) :
                 /\ call.do # "open" /\ (call.do = "write" => call.on)
                 /\ call.do = "send" /\ ~call.noted => lastChipXY = Wanted
        BY <1>0, <1>1, <2>1, <3>3 DEF Sending
      <4>2. \A call \in ToSet(calls'[1]) :
                 /\ call.do # "open" /\ (call.do = "write" => call.on)
                 /\ call.do = "send" /\ ~call.noted => lastChipXY = Wanted
        BY <1>1, <1>2, <1>3, <1>5, <2>1, <4>1
      <4>3. \A q \in Wanted' \ lastChipXY' : ToClose(1, q)'
        BY <1>4, <1>8, <2>1, <4>1
      <4> QED  BY <1>4, <4>1, <4>2, <4>3 DEF Sending
    <3> QED  BY <3>1, <3>2, <3>3 DEF Searching, Sending
  <2>2. CASE c # 1
    <3>1. calls'[1] = <<>>
      BY <1>0, <1>1, <2>2, OthersIdle DEF Cores
    <3> QED  BY <3>1, NothingOnCore2
  <2> QED  BY <2>1, <2>2
<1>11. Remembered'
  <2>1. \A call \in ToSet(calls[1]) : call.do = "send" => call \in ToSet(calls'[1])
    BY <1>1, <1>3, <1>5 DEF OthersStay, Cores
  <2> QED  BY <1>0, <1>4, <2>1 DEF Remembered
<1>12. fifo' = <<Byte(sent)>>
  <2> DEFINE b == Byte(Head(calls[c]))
  <2>1. fifo' = IF Len(fifo) < FifoDepth THEN Append(fifo, b) ELSE fifo
    BY DEF Put
  <2> HIDE DEF b
  <2>2. fifo' = <<b>>
    BY <1>6, <2>1, Parameters
  <2>3. Byte(sent) = b
    BY <1>2 DEF Byte, b
  <2> QED  BY <2>2, <2>3
<1>13. Strobed'
  <2>1. /\ Aimed(Head(calls[c])) => Aimed(Head(calls[c]))'
        /\ Clash(Head(calls[c])) => Clash(Head(calls[c]))'
    BY <1>2, <1>3, <1>4 DEF Aimed, Clash
  <2>2. ~Writes(c, "put")' /\ Writes(c, "wait")'
    BY <1>2, <1>3 DEF Writes, Does
  <2>3. \A call \in ToSet(Tail(calls'[c])) :
          call.do = "write" /\ call.on => c = 0 /\ "clash" \in doubt'
    BY <1>0, <1>1, <1>3, <1>4 DEF Strobed, StrobedAt, Below
  <2>4. fifo' = <<Byte(Head(calls[c]))>>'
    BY <1>3, <1>12 DEF Byte
  <2>5. Len(fifo') <= 1
    BY <1>12
  <2>6. StrobedAt(c)'
    BY <1>6, <2>1, <2>2, <2>3, <2>4, <2>5 DEF StrobedAt
  <2> QED  BY <1>0, <1>1, <2>2, <2>6, StrobedKept
<1>14. SwitchesKnown'
  <2>1. \A d \in Cores : \A q : (ToOpen(d, q)' <=> ToOpen(d, q)) /\ (ToClose(d, q)' <=> ToClose(d, q))
    BY <1>0, <1>1, <1>8, OthersIdle
  <2> QED  BY <1>0, <1>4, <2>1 DEF SwitchesKnown
<1> QED  BY <1>9, <1>10, <1>11, <1>13, <1>14 DEF Known

LEMMA NoGiveUp ==
  ASSUME TypeOK, Known, NEW c \in Cores, GiveUp(c)
  PROVE  FALSE
<1>1. Writes(c, "wait") /\ chipSelect # Nowhere /\ fifo = <<>>
  BY DEF GiveUp
<1>2. fifo # <<Byte(Head(calls[c]))>>
  BY <1>1
<1>3. ~Clash(Head(calls[c]))
  BY <1>1 DEF Clash
<1> QED  BY <1>1, <1>2, <1>3 DEF Known, Strobed, StrobedAt

LEMMA OnlyOne ==
  ASSUME NEW n \in Nat, n # 0, n <= 1 PROVE n = 1
  OBVIOUS

LEMMA KnownReturn ==
  ASSUME TypeOK, CallsNest, SendsWanted, Known, NEW c \in Cores, Return(c)
  PROVE  Known'
<1>0. Solo /\ Searching /\ Sending /\ Remembered /\ Strobed /\ SwitchesKnown
  BY DEF Known
<1>1. /\ calls[c] # <<>> /\ Writes(c, "wait") /\ Head(calls[c]).do = "write"
      /\ Returns(c) /\ chipSelect = Nowhere
  BY DEF Return, Writes, Does
<1>2. OthersStay(c) /\ Popped(c)
  BY <1>1, PopStack
<1>3. /\ ToSet(calls'[c]) = Below(c)
      /\ calls'[c] # <<>> => Head(calls'[c]) \in Below(c) /\ ToSet(Tail(calls'[c])) \subseteq Below(c)
  BY <1>2 DEF Popped
<1>4. /\ UNCHANGED <<paths, lastChipXY, chipHadConnections, switches, chipSelect, fifo,
                   strays, doubt>>
      /\ Wanted' = Wanted
  BY DEF Return, Wanted
<1>5. /\ ToSet(calls[c]) = {Head(calls[c])} \cup Below(c)
      /\ Head(calls[c]) \in Call
      /\ \A call \in Below(c) :
           call \in Call /\ Level(Head(calls[c])) < Level(call) /\ ~Waiting(call)
  BY <1>1, RestOf DEF Below
<1>6. \/ /\ fifo = <<>>
         /\ InRange(Head(calls[c]).point) =>
              /\ (Head(calls[c]).point \in switches <=> Head(calls[c]).on)
              /\ (Head(calls[c]).point \in lastChipXY <=> Head(calls[c]).on)
      \/ c = 0 /\ Len(fifo) <= 1 /\ Clash(Head(calls[c]))
  <2>1. ~Aimed(Head(calls[c]))
    <3>2. Head(calls[c]).point.chip \in 0..11
      BY <1>1, <1>5, CallFields, HopTypes
    <3> QED  BY <1>1, <3>2, Parameters DEF Aimed
  <2> QED  BY <1>0, <1>1, <2>1 DEF Strobed, StrobedAt
<1>7. \A q : /\ ToOpen(c, q) <=> ToOpen(c, q)' \/ (~Head(calls[c]).on /\ q = Head(calls[c]).point)
             /\ ToClose(c, q) <=> ToClose(c, q)' \/ (Head(calls[c]).on /\ q = Head(calls[c]).point)
  <2> SUFFICES ASSUME NEW q
               PROVE /\ ToOpen(c, q) <=> ToOpen(c, q)' \/ (~Head(calls[c]).on /\ q = Head(calls[c]).point)
                     /\ ToClose(c, q) <=> ToClose(c, q)' \/ (Head(calls[c]).on /\ q = Head(calls[c]).point)
    OBVIOUS
  <2>1. /\ ToOpen(c, q) <=> Opens(Head(calls[c]), q) \/ \E call \in Below(c) : Opens(call, q)
        /\ ToClose(c, q) <=> Closes(Head(calls[c]), q) \/ \E call \in Below(c) : Closes(call, q)
    BY <1>1, TopOrBelow
  <2>2. /\ ToOpen(c, q)' <=> \E call \in Below(c) : Opens(call, q)
        /\ ToClose(c, q)' <=> \E call \in Below(c) : Closes(call, q)
    BY <1>3 DEF ToOpen, Opens, ToClose, Closes
  <2>3. /\ Opens(Head(calls[c]), q) <=> ~Head(calls[c]).on /\ q = Head(calls[c]).point
        /\ Closes(Head(calls[c]), q) <=> Head(calls[c]).on /\ q = Head(calls[c]).point
    BY <1>1 DEF Opens, Closes
  <2> QED  BY <2>1, <2>2, <2>3
<1>a. Head(calls[c]).on \/ InRange(Head(calls[c]).point)
  BY <1>1, <1>5, CallFields
<1>b. \A q \in lastChipXY \cup Wanted : InRange(q)
  BY PointTypes, HopTypes DEF TypeOK
<1>8. Head(calls[c]).on \/ Head(calls[c]).point \notin lastChipXY
  BY <1>6, <1>a DEF Clash
<1>9. Solo'
  BY <1>0, <1>1, <1>2, <1>3, <1>5, SoloKept
<1>10. Searching' /\ Sending'
  <2>1. CASE c = 1
    <3>1. In(1, "search")' <=> In(1, "search")
      BY <1>1, <1>3, <1>5, <2>1 DEF In
    <3>2. Head(calls[c]).on /\ Head(calls[c]).point \in Wanted =>
            Head(calls[c]).point \in lastChipXY
      BY <1>6, <1>b, <2>1
    <3>3. ASSUME In(1, "search") PROVE Searching'
      <4>1. \A q \in lastChipXY' \cup Wanted' : ToOpen(1, q)' => q \notin Wanted'
        BY <1>0, <1>4, <1>7, <2>1, <3>3 DEF Searching
      <4>2. \A q \in Wanted' \ lastChipXY' : ToClose(1, q)'
        BY <1>0, <1>4, <1>7, <2>1, <3>2, <3>3 DEF Searching
      <4>3. \A call \in ToSet(calls'[1]) : call.do = "send" => ~call.noted
        BY <1>0, <1>3, <1>5, <2>1, <3>3 DEF Searching
      <4>4. ASSUME NEW q \in lastChipXY' \ Wanted'
            PROVE  \/ ToOpen(1, q)'
                   \/ \E call \in ToSet(calls'[1]) :
                        call.do = "search" /\ <<q.chip, q.y>> \in call.rows
        <5>1. \/ ToOpen(1, q)
              \/ \E call \in ToSet(calls[1]) :
                   call.do = "search" /\ <<q.chip, q.y>> \in call.rows
          BY <1>0, <1>4, <3>3, <4>4 DEF Searching
        <5>2. ToOpen(1, q) => ToOpen(1, q)'
          BY <1>4, <1>7, <1>8, <2>1, <4>4
        <5>3. \A call \in ToSet(calls[1]) : call.do = "search" => call \in ToSet(calls'[1])
          BY <1>1, <1>3, <1>5, <2>1
        <5> QED  BY <5>1, <5>2, <5>3
      <4> QED  BY <4>1, <4>2, <4>3, <4>4 DEF Searching
    <3>4. ASSUME ~In(1, "search") PROVE Sending'
      <4>1. /\ lastChipXY \subseteq Wanted
            /\ \A q \in Wanted \ lastChipXY : ToClose(1, q)
            /\ \A call \in ToSet(calls[1]) :
                 /\ call.do # "open" /\ (call.do = "write" => call.on)
                 /\ call.do = "send" /\ ~call.noted => lastChipXY = Wanted
        BY <1>0, <1>1, <2>1, <3>4 DEF Sending
      <4>2. \A call \in ToSet(calls'[1]) :
                 /\ call.do # "open" /\ (call.do = "write" => call.on)
                 /\ call.do = "send" /\ ~call.noted => lastChipXY = Wanted
        BY <1>1, <1>3, <1>5, <2>1, <4>1
      <4>3. \A q \in Wanted' \ lastChipXY' : ToClose(1, q)'
        BY <1>4, <1>7, <2>1, <3>2, <4>1
      <4> QED  BY <1>4, <4>1, <4>2, <4>3 DEF Sending
    <3> QED  BY <3>1, <3>3, <3>4 DEF Searching, Sending
  <2>2. CASE c # 1
    <3>1. calls'[1] = <<>>
      BY <1>0, <1>1, <1>2, <2>2, OthersIdle DEF Cores
    <3> QED  BY <3>1, NothingOnCore2
  <2> QED  BY <2>1, <2>2
<1>11. Remembered'
  <2>1. \A call \in ToSet(calls[1]) : call.do = "send" => call \in ToSet(calls'[1])
    BY <1>1, <1>2, <1>3, <1>5 DEF OthersStay, Cores
  <2> QED  BY <1>0, <1>4, <2>1 DEF Remembered
<1>12. Strobed'
  <2>0. \A call \in Below(c) : call.do = "write" /\ call.on => c = 0 /\ "clash" \in doubt
    BY <1>0, <1>1 DEF Strobed, StrobedAt, Below
  <2>1. calls'[c] # <<>> => ~Writes(c, "wait")'
    BY <1>3, <1>5 DEF Writes, Does, Waiting
  <2>2. \A call \in ToSet(Tail(calls'[c])) : calls'[c] # <<>> /\ call.do = "write" /\ call.on =>
          c = 0 /\ "clash" \in doubt'
    BY <1>3, <1>4, <2>0
  <2>3. ASSUME Writes(c, "put")'
        PROVE  /\ Head(calls'[c]).do = "write" /\ Head(calls'[c]).on /\ ~Head(calls[c]).on
               /\ c = 0 /\ "clash" \in doubt
    <3>1. calls'[c] # <<>> /\ Head(calls'[c]).do = "write" /\ Head(calls'[c]) \in Below(c)
      BY <1>3, <2>3 DEF Writes, Does
    <3>2. Level(Head(calls[c])) < Level(Head(calls'[c])) /\ Head(calls'[c]) \in Call
      BY <1>5, <3>1
    <3>3. /\ Level(Head(calls[c])) = IF Head(calls[c]).on THEN 3 ELSE 1
          /\ Level(Head(calls'[c])) = IF Head(calls'[c]).on THEN 3 ELSE 1
      BY <1>1, <1>5, <3>1, <3>2, LevelOf
    <3>4. Head(calls'[c]).on /\ ~Head(calls[c]).on
      BY <3>2, <3>3
    <3> QED  BY <2>0, <3>1, <3>4
  <2>4. ASSUME Writes(c, "put")' PROVE fifo' = <<>> /\ Clash(Head(calls[c]))'
    <3>1. fifo = <<>>
      BY <1>6, <2>3, <2>4 DEF Clash
    <3>2. Clash(Head(calls[c]))'
      BY <1>1, <1>4, <2>3, <2>4 DEF Clash
    <3> QED  BY <1>4, <3>1, <3>2
  <2>5. ~Writes(c, "wait")'
    BY <2>1 DEF Writes, Does
  <2>6. StrobedAt(c)'
    BY <2>2, <2>3, <2>4, <2>5 DEF StrobedAt
  <2>7. CASE fifo' = <<>>
    BY <1>0, <1>1, <1>2, <2>6, <2>7, StrobedKept
  <2>8. CASE fifo' # <<>>
    <3>1. c = 0 /\ Len(fifo) <= 1 /\ Head(calls[c]).on
      BY <1>4, <1>6, <2>8 DEF Clash
    <3>2. Below(c) = {}
      <4>1. Level(Head(calls[c])) = 3
        BY <1>1, <1>5, <3>1, LevelOf
      <4>2. ASSUME NEW call \in Below(c) PROVE FALSE
        <5>1. call \in Call /\ 3 < Level(call) /\ ~Waiting(call) /\ call \in ToSet(calls[0])
          BY <1>5, <3>1, <4>1
        <5>2. call.do \in {"search", "send", "acknowledge", "await"}
          BY <5>1, CallFields, LevelOf
        <5> QED  BY <1>0, <5>1, <5>2 DEF CallsNest, In, Solo, Waiting
      <4> QED  BY <4>2
    <3>3. calls'[0] = <<>>
      <4>1. calls' \in [Cores -> Seq(Call)]
        BY <1>1, ReturnsEffect
      <4> QED  BY <1>3, <3>1, <3>2, <4>1, StackElements DEF Cores
    <3>4. calls'[1] = <<>>
      BY <1>0, <1>1, <1>2, <3>1, OthersIdle DEF Cores
    <3>5. Len(fifo') = 1
      <4>1. fifo \in Seq([x : 0..15, y : 0..7, on : BOOLEAN])
        BY DEF TypeOK
      <4>2. Len(fifo) \in Nat /\ (Len(fifo) = 0 => fifo = <<>>)
        BY <4>1
      <4>3. fifo' = fifo
        BY <1>4
      <4>4. Len(fifo) # 0 /\ Len(fifo) <= 1
        BY <2>8, <3>1, <4>2, <4>3
      <4>5. Len(fifo) = 1
        BY <4>2, <4>4, OnlyOne
      <4> QED  BY <4>3, <4>5
    <3>6. \A d \in Cores : calls'[d] = <<>>
      BY <3>3, <3>4 DEF Cores
    <3>7. \A d \in Cores : StrobedAt(d)'
      BY <3>6 DEF StrobedAt, Writes, Does
    <3> QED  BY <1>1, <1>4, <3>5, <3>6, <3>7 DEF Strobed
  <2> QED  BY <2>7, <2>8
<1>13. SwitchesKnown'
  <2>1. \A d \in Cores : d # c => \A q : ~ToOpen(d, q) /\ ~ToClose(d, q)
    BY <1>0, <1>1, <1>2, OthersIdle
  <2>2. ASSUME NEW q \in switches' PROVE q \in lastChipXY' \cup strays' \/ \E d \in Cores : ToOpen(d, q)'
    <3>1. q \in lastChipXY \cup strays \/ ToOpen(c, q)
      BY <1>0, <1>4, <2>1, <2>2 DEF SwitchesKnown
    <3>2. ~Head(calls[c]).on => Head(calls[c]).point \notin switches
      BY <1>6, <1>a DEF Clash
    <3> QED  BY <1>4, <1>7, <2>2, <3>1, <3>2
  <2>3. ASSUME doubt' = {}, NEW q \in lastChipXY'
        PROVE  q \in switches' \/ \E d \in Cores : ToClose(d, q)'
    <3>1. q \in switches \/ ToClose(c, q)
      BY <1>0, <1>4, <2>1, <2>3 DEF SwitchesKnown
    <3>2. Head(calls[c]).on /\ InRange(Head(calls[c]).point) => Head(calls[c]).point \in switches
      BY <1>4, <1>6, <2>3 DEF Clash
    <3>3. InRange(q)
      BY <1>4, <1>b, <2>3
    <3> QED  BY <1>4, <1>7, <3>1, <3>2, <3>3
  <2>4. \A q, r \in switches' \ strays' : ~Shorted(q, r)
    BY <1>0, <1>4 DEF SwitchesKnown
  <2> QED  BY <2>2, <2>3, <2>4 DEF SwitchesKnown
<1> QED  BY <1>9, <1>10, <1>11, <1>12, <1>13 DEF Known

(* The send of the paths: only Core 2 is in one, the search is over, and   *)
(* no switch is closed but for the routed paths and the strays.            *)
LEMMA Sender ==
  ASSUME TypeOK, CallsNest, SendsWanted, Known, NEW c \in Cores, calls[c] # <<>>,
         Head(calls[c]).do = "send", OthersStay(c)
  PROVE  /\ c = 1 /\ Head(calls[c]) \in Call /\ OfPaths(Head(calls[c]))
         /\ \A call \in Below(c) : call.do \in {"acknowledge", "await"}
         /\ ToSet(calls[c]) = {Head(calls[c])} \cup Below(c)
         /\ \A d \in Cores : d # c => \A q : /\ ~ToOpen(d, q) /\ ~ToClose(d, q)
                                            /\ ~ToOpen(d, q)' /\ ~ToClose(d, q)'
         /\ fifo = <<>>
         /\ switches \subseteq lastChipXY \cup strays /\ lastChipXY \subseteq Wanted
         /\ ~Head(calls[c]).noted => lastChipXY = Wanted
         /\ \A q \in Wanted \ lastChipXY : Closes(Head(calls[c]), q)
         /\ doubt = {} => \A q \in lastChipXY : q \in switches \/ Closes(Head(calls[c]), q)
         /\ \A q \in lastChipXY :
              /\ <<q.chip, q.y>> \in Rows
              /\ \/ q.chip \in chipHadConnections
                 \/ Head(calls[c]).noted /\ q \in ToSet(Head(calls[c]).path)
         /\ \A p, q \in switches \ strays : ~Shorted(p, q)
<1>0. Solo /\ Searching /\ Sending /\ Remembered /\ Strobed /\ SwitchesKnown
  BY DEF Known
<1>1. /\ Head(calls[c]) \in Call
      /\ ToSet(calls[c]) = {Head(calls[c])} \cup Below(c)
      /\ \A call \in Below(c) : call \in Call /\ Level(Head(calls[c])) < Level(call)
  BY RestOf DEF Below
<1>2. c = 1
  <2>1. c = 0 => In(0, "send")
    BY <1>1 DEF In
  <2> QED  BY <1>0, <2>1 DEF Solo, Cores
<1>3. \A call \in Below(c) : call.do \in {"acknowledge", "await"}
  <2>1. Level(Head(calls[c])) = 5
    BY <1>1, LevelOf
  <2> SUFFICES ASSUME NEW call \in Below(c) PROVE call.do \in {"acknowledge", "await"}
    OBVIOUS
  <2>2. call \in Call /\ 5 < Level(call)
    BY <1>1, <2>1
  <2> QED  BY <2>2, CallFields, LevelOf
<1>4. ~In(1, "search")
  BY <1>1, <1>2, <1>3 DEF In
<1>5. \A q : ~ToOpen(c, q) /\ (ToClose(c, q) <=> Closes(Head(calls[c]), q))
  BY <1>3, TopOrBelow, WhatCallsDo
<1>6. \A d \in Cores : d # c => \A q : /\ ~ToOpen(d, q) /\ ~ToClose(d, q)
                                      /\ ~ToOpen(d, q)' /\ ~ToClose(d, q)'
  BY <1>0, OthersIdle
<1>7. fifo = <<>>
  <2>1. ~Writes(c, "wait")
    BY DEF Writes, Does
  <2> QED  BY <1>0, <2>1, NoneOnTheWay
<1>8. /\ lastChipXY \subseteq Wanted
      /\ ~Head(calls[c]).noted => lastChipXY = Wanted
      /\ \A q \in Wanted \ lastChipXY : Closes(Head(calls[c]), q)
  BY <1>0, <1>1, <1>2, <1>4, <1>5 DEF Sending
<1>9. /\ switches \subseteq lastChipXY \cup strays
      /\ doubt = {} => \A q \in lastChipXY : q \in switches \/ Closes(Head(calls[c]), q)
      /\ \A p, q \in switches \ strays : ~Shorted(p, q)
  BY <1>0, <1>5, <1>6 DEF SwitchesKnown
<1>10. \A q \in lastChipXY :
         /\ <<q.chip, q.y>> \in Rows
         /\ \/ q.chip \in chipHadConnections
            \/ Head(calls[c]).noted /\ q \in ToSet(Head(calls[c]).path)
  BY <1>0, <1>1, <1>2, <1>3 DEF Remembered
<1>11. OfPaths(Head(calls[c]))
  BY <1>1, <1>2 DEF SendsWanted
<1> QED  BY <1>1, <1>2, <1>3, <1>6, <1>7, <1>8, <1>9, <1>10, <1>11

LEMMA KnownNextHop ==
  ASSUME TypeOK, CallsNest, SendsWanted, Known, NEW c \in Cores, NextHop(c)
  PROVE  Known'
<1>0. Solo
  BY DEF Known
<1> DEFINE sending == Head(calls[c])
<1>1. calls[c] # <<>> /\ sending \in Call /\ sending.do = "send" /\ OthersStay(c)
  BY NextHopStack
<1>2. PICK p \in Hops, next \in Call :
        /\ Sends(c).hop \in 1..Len(Sends(c).path) /\ p = Sends(c).path[Sends(c).hop]
        /\ next.do = "send" /\ next.hop = Sends(c).hop + 1 /\ next.left = Sends(c).left
        /\ next.path = Sends(c).path /\ next.noted = Sends(c).noted
        /\ chipSelect' = p.chip
        /\ \/ /\ Unrouted(p) /\ UNCHANGED <<lastChipXY, strays, doubt>>
              /\ Stacked(c, next, Below(c))
           \/ /\ ~Unrouted(p) /\ Noted(p)
              /\ Conflicting(p, TRUE) = {} /\ doubt' = doubt
              /\ Stacked(c, Write(p, TRUE), {next} \cup Below(c))
           \/ /\ InRange(p) /\ p \in Crosspoints
              /\ Conflicting(p, TRUE) # {} /\ doubt' = doubt \cup {"clash"}
              /\ Stacked(c, Open(Conflicting(p, TRUE)),
                            {Write(p, TRUE), next} \cup Below(c))
  BY NextHopStack
<1>3. /\ sending.hop \in 1..Len(sending.path) /\ p = sending.path[sending.hop]
      /\ next.do = "send" /\ next.hop = sending.hop + 1 /\ next.left = sending.left
      /\ next.path = sending.path /\ next.noted = sending.noted
  BY <1>2 DEF Sends
<1>4. /\ c = 1 /\ OfPaths(sending)
      /\ \A call \in Below(c) : call.do \in {"acknowledge", "await"}
      /\ ToSet(calls[c]) = {sending} \cup Below(c)
      /\ fifo = <<>>
      /\ switches \subseteq lastChipXY \cup strays /\ lastChipXY \subseteq Wanted
      /\ ~sending.noted => lastChipXY = Wanted
      /\ \A q \in Wanted \ lastChipXY : Closes(sending, q)
      /\ doubt = {} => \A q \in lastChipXY : q \in switches \/ Closes(sending, q)
      /\ \A q \in lastChipXY :
           /\ <<q.chip, q.y>> \in Rows
           /\ \/ q.chip \in chipHadConnections
              \/ sending.noted /\ q \in ToSet(sending.path)
      /\ \A q, r \in switches \ strays : ~Shorted(q, r)
  BY <1>1, Sender
<1>5. UNCHANGED <<paths, chipHadConnections, switches, fifo>> /\ Wanted' = Wanted
  BY DEF NextHop, Wanted
<1>6. ASSUME InRange(p) PROVE p \in Wanted /\ p \in ToSet(next.path)
  <2>1. sending.path # <<>> /\ sending.path \in Seq(Hops)
    BY <1>1, <1>3, CallFields
  <2>2. sending.path \in paths
    BY <1>1, <1>4, <2>1 DEF OfPaths
  <2>3. p \in Wanted
    BY <1>3, <1>6, <2>2, WantedFacts
  <2>4. p \in ToSet(sending.path)
    BY <1>3, <2>1 DEF ToSet
  <2> QED  BY <1>3, <2>3, <2>4
<1>7. Conflicting(p, TRUE) = {}
  BY <1>4, <1>6, WantedFacts DEF Conflicting
<1>8. \A q : Closes(sending, q) => Closes(next, q) \/ (q = p /\ InRange(p))
  <2> SUFFICES ASSUME NEW q, Closes(sending, q), InRange(q), q # p PROVE Closes(next, q)
    BY <1>1 DEF Closes
  <2>1. CASE \E path \in sending.left : q \in ToSet(path)
    BY <1>3, <2>1 DEF Closes
  <2>2. CASE \E k \in sending.hop..Len(sending.path) : sending.path[k] = q
    <3>1. PICK k \in sending.hop..Len(sending.path) : sending.path[k] = q
      BY <2>2
    <3>2. k # sending.hop
      BY <1>3, <3>1
    <3>3. k \in next.hop..Len(next.path) /\ next.path[k] = q
      BY <1>3, <3>1, <3>2
    <3> QED  BY <1>3, <3>3 DEF Closes
  <2> QED  BY <1>1, <2>1, <2>2 DEF Closes
<1> HIDE DEF sending
<1> DEFINE w == Write(p, TRUE)
<1>9. w.do = "write" /\ w.point = p /\ w.on = TRUE /\ w.at = "put"
  BY CallForms
<1>10. \/ /\ Unrouted(p) /\ UNCHANGED <<lastChipXY, strays>>
          /\ Stacked(c, next, Below(c))
       \/ /\ ~Unrouted(p) /\ Noted(p)
          /\ Stacked(c, w, {next} \cup Below(c))
  BY <1>2, <1>7
<1>11. doubt' = doubt
  BY <1>2, <1>7
<1> HIDE DEF w
<1>12. /\ calls'[c] # <<>> /\ next \in ToSet(calls'[c])
       /\ \A call \in ToSet(calls'[c]) : \/ call = next \/ call \in Below(c)
                                         \/ call = w /\ ~Unrouted(p)
       /\ ~Unrouted(p) => Head(calls'[c]) = w /\ w \in ToSet(calls'[c])
       /\ Unrouted(p) => Head(calls'[c]) = next
       /\ \A call \in ToSet(Tail(calls'[c])) : call = next \/ call \in Below(c)
  BY <1>10 DEF Stacked
<1>13. \A q : Closes(sending, q) => ToClose(c, q)'
  <2>1. \A q : (\E call \in ToSet(calls'[c]) : Closes(call, q)) => ToClose(c, q)'
    BY DEF ToClose, Closes
  <2>2. InRange(p) => ~Unrouted(p) /\ Closes(w, p)
    BY <1>9, WhatCallsDo, HopTypes
  <2> QED  BY <1>8, <1>12, <2>1, <2>2
<1>14. lastChipXY' \subseteq lastChipXY \cup {p} /\ lastChipXY \subseteq lastChipXY'
       /\ (~InRange(p) => lastChipXY' = lastChipXY) /\ strays \subseteq strays'
  BY <1>10, HopTypes DEF Noted
<1>15. Solo'
  <2>1. \A call \in ToSet(calls'[c]) :
          \/ call.do # "send"
          \/ \E old \in ToSet(calls[c]) : old.do = "send"
    BY <1>1, <1>4
  <2> QED  BY <1>0, <1>1, <2>1, SoloKept DEF sending
<1>16. Searching'
  <2>1. ~In(1, "search")'
    BY <1>3, <1>4, <1>9, <1>12 DEF In
  <2> QED  BY <2>1 DEF Searching
<1>17. Sending'
  <2>1. lastChipXY' \subseteq Wanted'
    BY <1>4, <1>5, <1>6, <1>14
  <2>2. \A q \in Wanted' \ lastChipXY' : ToClose(1, q)'
    BY <1>4, <1>5, <1>13, <1>14
  <2>3. ~sending.noted => lastChipXY' = Wanted'
    BY <1>4, <1>5, <1>14, <2>1
  <2>4. ASSUME NEW call \in ToSet(calls'[1])
        PROVE  /\ call.do # "open" /\ (call.do = "write" => call.on)
               /\ call.do = "send" /\ ~call.noted => lastChipXY' = Wanted'
    BY <1>3, <1>4, <1>9, <1>12, <2>3, <2>4
  <2> QED  BY <2>1, <2>2, <2>4 DEF Sending
<1>18. Remembered'
  <2>1. ASSUME NEW q \in lastChipXY'
        PROVE  /\ <<q.chip, q.y>> \in Rows
               /\ q.chip \in chipHadConnections \/ (next.noted /\ q \in ToSet(next.path))
    <3>1. CASE q \in lastChipXY
      BY <1>3, <1>4, <3>1
    <3>2. CASE q \notin lastChipXY
      <4>1. q = p /\ InRange(p)
        BY <1>14, <2>1, <3>2
      <4>2. q \in Wanted /\ q \in ToSet(next.path)
        BY <1>6, <4>1
      <4>3. next.noted
        BY <1>3, <1>4, <3>2, <4>2
      <4> QED  BY <4>2, <4>3, WantedFacts
    <3> QED  BY <3>1, <3>2
  <2> QED  BY <1>3, <1>4, <1>5, <1>12, <2>1 DEF Remembered
<1>19. Strobed'
  <2>1. ~Writes(c, "wait")'
    BY <1>3, <1>9, <1>12 DEF Writes, Does
  <2>2. ASSUME Writes(c, "put")' PROVE Aimed(Head(calls[c]))'
    <3>1. ~Unrouted(p) /\ Head(calls'[c]) = w
      BY <1>3, <1>12, <2>2 DEF Writes, Does
    <3>2. CASE InRange(p)
      <4>1. p \in lastChipXY' /\ \A q \in switches' \ strays' : ~Shorted(p, q)
        BY <1>4, <1>5, <1>6, <1>10, <1>14, <3>1, <3>2, WantedFacts DEF Noted
      <4> QED  BY <1>2, <1>9, <3>1, <3>2, <4>1 DEF Aimed
    <3>3. CASE ~InRange(p)
      <4>1. Masked(p) \in strays'
        BY <1>10, <3>1, <3>3 DEF Noted
      <4> QED  BY <1>2, <1>9, <3>1, <3>3, <4>1 DEF Aimed
    <3> QED  BY <3>2, <3>3
  <2>3. \A call \in ToSet(Tail(calls'[c])) : call.do # "write"
    BY <1>3, <1>4, <1>12
  <2>4. StrobedAt(c)'
    BY <1>4, <1>5, <2>1, <2>2, <2>3 DEF StrobedAt
  <2>5. Strobed
    BY DEF Known
  <2> QED  BY <1>0, <1>1, <1>4, <1>5, <2>4, StrobedKept DEF sending
<1>20. SwitchesKnown'
  <2>1. \A q \in switches' : q \in lastChipXY' \cup strays'
    BY <1>4, <1>5, <1>14
  <2>2. ASSUME doubt' = {}, NEW q \in lastChipXY' PROVE q \in switches' \/ ToClose(c, q)'
    <3>1. CASE q \in lastChipXY
      BY <1>4, <1>5, <1>11, <1>13, <2>2, <3>1
    <3>2. CASE q \notin lastChipXY
      <4>1. q \in Wanted
        BY <1>6, <1>14, <2>2, <3>2
      <4> QED  BY <1>4, <1>13, <3>2, <4>1
    <3> QED  BY <3>1, <3>2
  <2>3. \A q, r \in switches' \ strays' : ~Shorted(q, r)
    BY <1>4, <1>5, <1>14
  <2> QED  BY <2>1, <2>2, <2>3 DEF SwitchesKnown
<1> QED  BY <1>15, <1>16, <1>17, <1>18, <1>19, <1>20 DEF Known

LEMMA KnownNextPath ==
  ASSUME TypeOK, CallsNest, SendsWanted, Known, NEW c \in Cores, NextPath(c)
  PROVE  Known'
<1>0. Solo /\ Strobed
  BY DEF Known
<1> DEFINE sending == Head(calls[c])
<1>1. /\ calls[c] # <<>> /\ sending \in Call /\ sending.do = "send" /\ OthersStay(c)
      /\ sending.hop > Len(sending.path)
  BY NextPathStack DEF Sends
<1>2. PICK noted \in SUBSET Crosspoints :
        /\ noted = IF sending.noted THEN PointsOf({sending.path}) ELSE {}
        /\ lastChipXY' = lastChipXY \cup noted
        /\ chipHadConnections' = chipHadConnections \cup ChipsOf(noted)
  BY NextPathStack DEF Sends
<1>3. \/ sending.left = {} /\ Popped(c)
      \/ \E path \in sending.left, next \in Call :
           /\ next.do = "send" /\ next.hop = 1 /\ next.left = sending.left \ {path}
           /\ next.path = path /\ next.noted = sending.noted
           /\ Stacked(c, next, Below(c))
  BY NextPathStack DEF Sends
<1>4. /\ c = 1 /\ OfPaths(sending)
      /\ \A call \in Below(c) : call.do \in {"acknowledge", "await"}
      /\ ToSet(calls[c]) = {sending} \cup Below(c)
      /\ fifo = <<>>
      /\ switches \subseteq lastChipXY \cup strays /\ lastChipXY \subseteq Wanted
      /\ ~sending.noted => lastChipXY = Wanted
      /\ \A q \in Wanted \ lastChipXY : Closes(sending, q)
      /\ doubt = {} => \A q \in lastChipXY : q \in switches \/ Closes(sending, q)
      /\ \A q \in lastChipXY :
           /\ <<q.chip, q.y>> \in Rows
           /\ \/ q.chip \in chipHadConnections
              \/ sending.noted /\ q \in ToSet(sending.path)
      /\ \A q, r \in switches \ strays : ~Shorted(q, r)
  BY <1>1, Sender
<1>5. UNCHANGED <<paths, switches, fifo, strays, doubt>> /\ Wanted' = Wanted
  BY DEF NextPath, Wanted
<1>6. noted \subseteq Wanted /\ (~sending.noted => noted = {})
  <2>1. sending.path = <<>> => PointsOf({sending.path}) = {}
    BY EmptyStack DEF PointsOf
  <2>2. sending.path \in paths => PointsOf({sending.path}) \subseteq Wanted
    BY DEF PointsOf, Wanted
  <2> QED  BY <1>1, <1>2, <1>4, <2>1, <2>2 DEF OfPaths
<1>7. \A q : Closes(sending, q) <=>
               InRange(q) /\ \E path \in sending.left : q \in ToSet(path)
  <2>1. \A k \in sending.hop..Len(sending.path) : FALSE
    BY <1>1, CallFields
  <2> QED  BY <1>1, <2>1 DEF Closes
<1>8. ASSUME sending.left = {}, Popped(c)
      PROVE  /\ \A call \in ToSet(calls'[c]) : call.do \in {"acknowledge", "await"}
             /\ \A q : ~Closes(sending, q)
             /\ calls'[c] # <<>> =>
                  /\ Head(calls'[c]).do # "write"
                  /\ \A call \in ToSet(Tail(calls'[c])) : call.do # "write"
  BY <1>4, <1>7, <1>8 DEF Popped
<1>9. ASSUME NEW path \in sending.left, NEW next \in Call,
             /\ next.do = "send" /\ next.hop = 1 /\ next.left = sending.left \ {path}
             /\ next.path = path /\ next.noted = sending.noted,
             Stacked(c, next, Below(c))
      PROVE  /\ \A call \in ToSet(calls'[c]) : \/ call.do \in {"acknowledge", "await"}
                                               \/ call.do = "send" /\ call.noted = sending.noted
             /\ \A q : Closes(sending, q) => ToClose(c, q)'
             /\ Head(calls'[c]).do # "write"
             /\ \A call \in ToSet(Tail(calls'[c])) : call.do # "write"
  <2>1. /\ ToSet(calls'[c]) = {next} \cup Below(c)
        /\ Head(calls'[c]) = next /\ ToSet(Tail(calls'[c])) = Below(c)
    BY <1>9 DEF Stacked
  <2>2. ASSUME NEW q, Closes(sending, q) PROVE Closes(next, q)
    <3>1. PICK other \in sending.left : q \in ToSet(other)
      BY <1>7, <2>2
    <3>2. InRange(q)
      BY <1>7, <2>2
    <3>3. CASE other = path
      <4>1. path \in Seq(Hops)
        BY <1>1, CallFields
      <4>2. PICK k \in 1..Len(path) : path[k] = q
        BY <3>1, <3>3, <4>1 DEF ToSet
      <4>3. k \in next.hop..Len(next.path) /\ next.path[k] = q
        BY <1>9, <4>2
      <4> QED  BY <1>9, <3>2, <4>3 DEF Closes
    <3>4. CASE other # path
      BY <1>9, <3>1, <3>2, <3>4 DEF Closes
    <3> QED  BY <3>3, <3>4
  <2>3. \A q : (\E call \in ToSet(calls'[c]) : Closes(call, q)) => ToClose(c, q)'
    BY DEF ToClose, Closes
  <2> QED  BY <1>4, <1>9, <2>1, <2>2, <2>3
<1> HIDE DEF sending
<1>10. /\ \A call \in ToSet(calls'[c]) : \/ call.do \in {"acknowledge", "await"}
                                         \/ call.do = "send" /\ call.noted = sending.noted
       /\ \A q : Closes(sending, q) => ToClose(c, q)'
       /\ calls'[c] # <<>> =>
            /\ Head(calls'[c]).do # "write"
            /\ \A call \in ToSet(Tail(calls'[c])) : call.do # "write"
  BY <1>3, <1>8, <1>9
<1>11. Solo'
  <2>1. \A call \in ToSet(calls'[c]) :
          \/ call.do # "send"
          \/ \E old \in ToSet(calls[c]) : old.do = "send"
    BY <1>1, <1>4
  <2> QED  BY <1>0, <1>1, <2>1, SoloKept DEF sending
<1>12. Searching'
  <2>1. ~In(1, "search")'
    BY <1>4, <1>10 DEF In
  <2> QED  BY <2>1 DEF Searching
<1>13. Sending'
  <2>1. lastChipXY' \subseteq Wanted'
    BY <1>2, <1>4, <1>5, <1>6
  <2>2. \A q \in Wanted' \ lastChipXY' : ToClose(1, q)'
    BY <1>2, <1>4, <1>5, <1>10
  <2>3. ~sending.noted => lastChipXY' = Wanted'
    BY <1>2, <1>4, <1>5, <1>6
  <2>4. ASSUME NEW call \in ToSet(calls'[1])
        PROVE  /\ call.do # "open" /\ (call.do = "write" => call.on)
               /\ call.do = "send" /\ ~call.noted => lastChipXY' = Wanted'
    BY <1>4, <1>10, <2>3, <2>4
  <2> QED  BY <2>1, <2>2, <2>4 DEF Sending
<1>14. Remembered'
  <2>1. ASSUME NEW q \in lastChipXY'
        PROVE  <<q.chip, q.y>> \in Rows /\ q.chip \in chipHadConnections'
    <3>1. <<q.chip, q.y>> \in Rows
      BY <1>2, <1>4, <1>6, <2>1, WantedFacts
    <3>2. q \in noted => q.chip \in ChipsOf(noted)
      BY DEF ChipsOf
    <3>3. ASSUME q \in lastChipXY, sending.noted, q \in ToSet(sending.path) PROVE q \in noted
      <4>1. q \in Wanted
        BY <1>4, <3>3
      <4>2. q \in PointsOf({sending.path})
        BY <3>3, <4>1 DEF Wanted, PointsOf
      <4> QED  BY <1>2, <3>3, <4>2
    <3> QED  BY <1>2, <1>4, <2>1, <3>1, <3>2, <3>3
  <2> QED  BY <2>1 DEF Remembered
<1>15. Strobed'
  <2>1. ~Writes(c, "wait")' /\ ~Writes(c, "put")'
    BY <1>10 DEF Writes, Does
  <2>2. StrobedAt(c)'
    BY <1>10, <2>1 DEF StrobedAt
  <2> QED  BY <1>0, <1>1, <1>4, <1>5, <2>2, StrobedKept DEF sending
<1>16. SwitchesKnown'
  <2>1. \A q \in switches' : q \in lastChipXY' \cup strays'
    BY <1>2, <1>4, <1>5
  <2>2. ASSUME doubt' = {}, NEW q \in lastChipXY' PROVE q \in switches' \/ ToClose(c, q)'
    <3>1. CASE q \in lastChipXY
      BY <1>4, <1>5, <1>10, <2>2, <3>1
    <3>2. CASE q \notin lastChipXY
      <4>1. q \in Wanted
        BY <1>2, <1>6, <2>2, <3>2
      <4> QED  BY <1>4, <1>10, <3>2, <4>1
    <3> QED  BY <3>1, <3>2
  <2>3. \A q, r \in switches' \ strays' : ~Shorted(q, r)
    BY <1>4, <1>5
  <2> QED  BY <2>1, <2>2, <2>3 DEF SwitchesKnown
<1> QED  BY <1>11, <1>12, <1>13, <1>14, <1>15, <1>16 DEF Known

(* The rows are in an order, in which the search goes through them.        *)
LEMMA RowOrder == \A row, other \in Rows : row = other \/ Before(row, other) \/ Before(other, row)
<1>1. ASSUME NEW row \in Rows
      PROVE  row = <<row[1], row[2]>> /\ row[1] \in Int /\ row[2] \in Int
  <2>1. PICK p \in PointsOf(UNION Boards) \cup Raw : row = <<p.chip, p.y>>
    BY DEF Rows, RowsOf
  <2>2. p \in Crosspoints
    <3>1. PointsOf(UNION Boards) \subseteq Crosspoints
      <4>1. ASSUME NEW board \in Boards, NEW path \in board, NEW q \in ToSet(path), InRange(q)
            PROVE  q \in Crosspoints
        <5>1. path \in Seq(Hops)
          BY Parameters
        <5>2. q \in Hops
          BY <5>1 DEF ToSet
        <5> QED  BY <4>1, <5>2, HopTypes
      <4> QED  BY <4>1 DEF PointsOf
    <3> QED  BY <3>1, Parameters
  <2>3. p.chip \in Int /\ p.y \in Int
    BY <2>2 DEF Crosspoints
  <2> QED  BY <2>1, <2>3
<1> SUFFICES ASSUME NEW row \in Rows, NEW other \in Rows, row # other
             PROVE  Before(row, other) \/ Before(other, row)
  OBVIOUS
<1>2. row[1] # other[1] \/ row[2] # other[2]
  BY <1>1
<1>3. row[1] \in Int /\ row[2] \in Int /\ other[1] \in Int /\ other[2] \in Int
  BY <1>1
<1> QED  BY <1>2, <1>3 DEF Before

LEMMA KnownSearch ==
  ASSUME TypeOK, CallsNest, SendsWanted, Known, NEW c \in Cores, Search(c)
  PROVE  Known'
<1>0. Solo /\ Searching /\ Sending /\ Remembered /\ Strobed /\ SwitchesKnown
  BY DEF Known
<1> DEFINE searching == Head(calls[c])
<1>1. calls[c] # <<>> /\ searching \in Call /\ searching.do = "search" /\ OthersStay(c)
  BY SearchStack
<1>2. \/ \E next \in searching.rows :
           LET left == {row \in searching.rows : Before(next, row)}
           IN /\ \A row \in searching.rows : Opened(row) # {} => ~Before(row, next)
              /\ Stacked(c, Open(Opened(next)), {SearchIn(left)} \cup Below(c))
              /\ UNCHANGED <<lastChipXY, chipHadConnections>>
      \/ /\ \A row \in searching.rows : Opened(row) = {}
         /\ lastChipXY' = Wanted /\ chipHadConnections' = ChipsOf(Wanted)
         /\ Popped(c)
  BY SearchStack
<1>3. /\ ToSet(calls[c]) = {searching} \cup Below(c)
      /\ \A call \in Below(c) : call.do \in {"send", "acknowledge", "await"}
  <2>1. /\ ToSet(calls[c]) = {searching} \cup Below(c)
        /\ \A call \in Below(c) : call \in Call /\ Level(searching) < Level(call)
    BY <1>1, RestOf DEF Below
  <2>2. Level(searching) = 4
    BY <1>1, LevelOf
  <2> SUFFICES ASSUME NEW call \in Below(c) PROVE call.do \in {"send", "acknowledge", "await"}
    BY <2>1
  <2>3. call \in Call /\ 4 < Level(call)
    BY <2>1, <2>2
  <2> QED  BY <2>3, CallFields, LevelOf
<1>4. c = 1 /\ In(1, "search")
  <2>1. In(c, "search")
    BY <1>1, <1>3 DEF In
  <2> QED  BY <2>1 DEF CallsNest, Cores
<1>5. \A q : /\ ~ToOpen(c, q)
             /\ ToClose(c, q) <=> \E call \in Below(c) : Closes(call, q)
  BY <1>1, <1>3, TopOrBelow, WhatCallsDo
<1>6. \A d \in Cores : d # c => \A q : /\ ~ToOpen(d, q) /\ ~ToClose(d, q)
                                      /\ ~ToOpen(d, q)' /\ ~ToClose(d, q)'
  BY <1>0, <1>1, OthersIdle
<1>7. fifo = <<>>
  <2>1. ~Writes(c, "wait")
    BY <1>1 DEF Writes, Does
  <2> QED  BY <1>0, <1>1, <2>1, NoneOnTheWay
<1>8. /\ \A q \in Wanted \ lastChipXY : ToClose(c, q)
      /\ \A call \in Below(c) : call.do = "send" => ~call.noted
      /\ \A q \in lastChipXY \ Wanted : <<q.chip, q.y>> \in searching.rows
  BY <1>0, <1>1, <1>3, <1>4, <1>5 DEF Searching
<1>9. /\ switches \subseteq lastChipXY \cup strays
      /\ doubt = {} => \A q \in lastChipXY : q \in switches \/ ToClose(c, q)
      /\ \A p, q \in switches \ strays : ~Shorted(p, q)
  BY <1>0, <1>5, <1>6 DEF SwitchesKnown
<1>10. \A q \in lastChipXY : <<q.chip, q.y>> \in Rows /\ q.chip \in chipHadConnections
  BY <1>0, <1>1, <1>3, <1>4, <1>8 DEF Remembered
<1>11. \A q \in lastChipXY \ Wanted : q \in Opened(<<q.chip, q.y>>)
  BY <1>10 DEF Opened
<1>12. UNCHANGED <<paths, switches, fifo, strays, doubt>> /\ Wanted' = Wanted
  BY DEF Search, Wanted
<1>13. searching.rows \subseteq Rows
  BY <1>1, CallFields
<1> HIDE DEF searching
<1>14. ASSUME NEW next \in searching.rows, NEW left,
              left = {row \in searching.rows : Before(next, row)},
              \A row \in searching.rows : Opened(row) # {} => ~Before(row, next),
              Stacked(c, Open(Opened(next)), {SearchIn(left)} \cup Below(c)),
              UNCHANGED <<lastChipXY, chipHadConnections>>
       PROVE  Known'
  <2> DEFINE o == Open(Opened(next))
             s == SearchIn(left)
  <2>1. o.do = "open" /\ o.points = Opened(next) /\ s.do = "search" /\ s.rows = left
    BY CallForms
  <2>2. /\ calls'[c] # <<>> /\ Head(calls'[c]) = o
        /\ ToSet(Tail(calls'[c])) = {s} \cup Below(c)
        /\ ToSet(calls'[c]) = {o, s} \cup Below(c)
    BY <1>14 DEF Stacked
  <2> HIDE DEF o, s
  <2>3. \A q : /\ ToOpen(c, q)' <=> q \in Opened(next)
               /\ ToClose(c, q)' <=> ToClose(c, q)
    <3> SUFFICES ASSUME NEW q
                 PROVE /\ ToOpen(c, q)' <=> q \in Opened(next)
                       /\ ToClose(c, q)' <=> ToClose(c, q)
      OBVIOUS
    <3>1. /\ ToOpen(c, q)' <=> \E call \in {o, s} \cup Below(c) : Opens(call, q)
          /\ ToClose(c, q)' <=> \E call \in {o, s} \cup Below(c) : Closes(call, q)
      BY <2>2 DEF ToOpen, Opens, ToClose, Closes
    <3>2. /\ Opens(o, q) <=> q \in Opened(next)
          /\ ~Closes(o, q) /\ ~Opens(s, q) /\ ~Closes(s, q)
      BY <2>1, WhatCallsDo
    <3>3. \A call \in Below(c) : ~Opens(call, q)
      BY <1>3, WhatCallsDo
    <3> QED  BY <1>5, <3>1, <3>2, <3>3
  <2>4. Solo'
    <3>1. \A call \in ToSet(calls'[c]) :
            \/ call.do # "send"
            \/ \E old \in ToSet(calls[c]) : old.do = "send"
      BY <1>3, <2>1, <2>2
    <3> QED  BY <1>0, <1>1, <3>1, SoloKept DEF searching
  <2>5. Searching'
    <3>1. \A q \in lastChipXY' \cup Wanted' : ToOpen(1, q)' => q \notin Wanted'
      BY <1>4, <1>12, <2>3 DEF Opened
    <3>2. \A q \in Wanted' \ lastChipXY' : ToClose(1, q)'
      BY <1>4, <1>8, <1>12, <1>14, <2>3
    <3>3. \A call \in ToSet(calls'[1]) : call.do = "send" => ~call.noted
      BY <1>4, <1>8, <2>1, <2>2
    <3>4. ASSUME NEW q \in lastChipXY' \ Wanted'
          PROVE  \/ ToOpen(1, q)'
                 \/ \E call \in ToSet(calls'[1]) :
                      call.do = "search" /\ <<q.chip, q.y>> \in call.rows
      <4> DEFINE row == <<q.chip, q.y>>
      <4>1. row \in searching.rows /\ q \in Opened(row)
        BY <1>8, <1>11, <1>12, <1>14, <3>4
      <4>2. ~Before(row, next)
        BY <1>14, <4>1
      <4> HIDE DEF row
      <4>3. row = next \/ Before(next, row)
        BY <1>13, <4>1, <4>2, RowOrder
      <4>4. CASE row = next
        BY <1>4, <2>3, <4>1, <4>4
      <4>5. CASE Before(next, row)
        <5>1. row \in s.rows /\ s \in ToSet(calls'[1])
          BY <1>4, <1>14, <2>1, <2>2, <4>1, <4>5
        <5> QED  BY <2>1, <5>1 DEF row
      <4> QED  BY <4>3, <4>4, <4>5
    <3> QED  BY <3>1, <3>2, <3>3, <3>4 DEF Searching
  <2>6. Sending'
    <3>1. In(1, "search")'
      BY <1>4, <2>1, <2>2 DEF In
    <3> QED  BY <3>1 DEF Sending
  <2>7. Remembered'
    BY <1>10, <1>14 DEF Remembered
  <2>8. Strobed'
    <3>1. ~Writes(c, "wait")' /\ ~Writes(c, "put")'
      BY <2>1, <2>2 DEF Writes, Does
    <3>2. \A call \in ToSet(Tail(calls'[c])) : call.do # "write"
      BY <1>3, <2>1, <2>2
    <3>3. StrobedAt(c)'
      BY <3>1, <3>2 DEF StrobedAt
    <3> QED  BY <1>0, <1>1, <1>7, <1>12, <3>3, StrobedKept DEF searching
  <2>9. SwitchesKnown'
    BY <1>9, <1>12, <1>14, <2>3 DEF SwitchesKnown
  <2> QED  BY <2>4, <2>5, <2>6, <2>7, <2>8, <2>9 DEF Known
<1>15. CASE /\ \A row \in searching.rows : Opened(row) = {}
            /\ lastChipXY' = Wanted /\ chipHadConnections' = ChipsOf(Wanted)
            /\ Popped(c)
  <2>1. /\ ToSet(calls'[c]) = Below(c)
        /\ calls'[c] # <<>> =>
             Head(calls'[c]) \in Below(c) /\ ToSet(Tail(calls'[c])) \subseteq Below(c)
    BY <1>15 DEF Popped
  <2>2. lastChipXY \subseteq Wanted
    BY <1>8, <1>11, <1>15
  <2>3. \A q : ToClose(c, q)' <=> ToClose(c, q)
    <3>1. \A q : ToClose(c, q)' <=> \E call \in Below(c) : Closes(call, q)
      BY <2>1 DEF ToClose, Closes
    <3> QED  BY <1>5, <3>1
  <2>4. Solo'
    <3>1. \A call \in ToSet(calls'[c]) :
            \/ call.do # "send"
            \/ \E old \in ToSet(calls[c]) : old.do = "send"
      BY <1>3, <2>1
    <3> QED  BY <1>0, <1>1, <3>1, SoloKept DEF searching
  <2>5. Searching'
    <3>1. ~In(1, "search")'
      BY <1>3, <1>4, <2>1 DEF In
    <3> QED  BY <3>1 DEF Searching
  <2>6. Sending'
    <3>1. \A call \in ToSet(calls'[1]) : call.do # "open" /\ call.do # "write"
      BY <1>3, <1>4, <2>1
    <3> QED  BY <1>12, <1>15, <3>1 DEF Sending
  <2>7. Remembered'
    BY <1>15, WantedFacts DEF Remembered, ChipsOf
  <2>8. Strobed'
    <3>1. ~Writes(c, "wait")' /\ ~Writes(c, "put")'
      BY <1>3, <2>1 DEF Writes, Does
    <3>2. calls'[c] # <<>> => \A call \in ToSet(Tail(calls'[c])) : call.do # "write"
      BY <1>3, <2>1
    <3>3. StrobedAt(c)'
      BY <3>1, <3>2 DEF StrobedAt
    <3> QED  BY <1>0, <1>1, <1>7, <1>12, <3>3, StrobedKept DEF searching
  <2>9. SwitchesKnown'
    BY <1>8, <1>9, <1>12, <1>15, <2>2, <2>3 DEF SwitchesKnown
  <2> QED  BY <2>4, <2>5, <2>6, <2>7, <2>8, <2>9 DEF Known
<1> QED  BY <1>2, <1>14, <1>15

(* A core that has nothing below its only call is in none when it returns. *)
LEMMA LastReturns ==
  ASSUME TypeOK, CallsNest, NEW c \in Cores, calls[c] # <<>>,
         Head(calls[c]).do \in {"acknowledge", "await"}, Returns(c)
  PROVE  /\ ToSet(calls[c]) = {Head(calls[c])} /\ calls'[c] = <<>> /\ OthersStay(c)
<1>1. /\ ToSet(calls[c]) = {Head(calls[c])} \cup Below(c) /\ Head(calls[c]) \in Call
      /\ \A call \in Below(c) : call \in Call /\ Level(Head(calls[c])) < Level(call)
  BY RestOf DEF Below
<1>2. Level(Head(calls[c])) = 6
  BY <1>1, LevelOf
<1>3. \A call \in Below(c) : FALSE
  <2> SUFFICES ASSUME NEW call \in Below(c) PROVE FALSE
    OBVIOUS
  <2>1. call \in Call /\ 6 < Level(call)
    BY <1>1, <1>2
  <2> QED  BY <2>1, LevelOf
<1>4. ToSet(calls'[c]) = {} /\ OthersStay(c)
  BY <1>3, PopStack DEF Popped
<1>5. calls' \in [Cores -> Seq(Call)]
  BY ReturnsEffect
<1>6. calls'[c] = <<>>
  BY <1>4, <1>5, StackElements
<1> QED  BY <1>1, <1>3, <1>4, <1>6

LEMMA KnownAcknowledge ==
  ASSUME TypeOK, CallsNest, SendsWanted, Known, NEW c \in Cores, Acknowledge(c)
  PROVE  Known'
<1>0. Solo /\ Searching /\ Sending /\ Remembered /\ Strobed /\ SwitchesKnown
  BY DEF Known
<1>1. /\ calls[c] # <<>> /\ Head(calls[c]).do = "acknowledge" /\ Returns(c)
      /\ UNCHANGED <<paths, lastChipXY, chipHadConnections, switches, chipSelect, fifo, strays,
                      doubt>>
  BY DEF Acknowledge, Does
<1>2. ToSet(calls[c]) = {Head(calls[c])} /\ calls'[c] = <<>> /\ OthersStay(c)
  BY <1>1, LastReturns
<1>3. c = 1
  BY <1>1, <1>2 DEF CallsNest, In, Cores
<1>4. calls'[1] = <<>> /\ calls'[0] = calls[0] /\ 0 \in Cores /\ 1 \in Cores
  BY <1>2, <1>3 DEF OthersStay, Cores
<1>5. fifo = <<>>
  <2>1. ~Writes(c, "wait")
    BY <1>1 DEF Writes, Does
  <2> QED  BY <1>0, <1>1, <2>1, NoneOnTheWay
<1>6. Solo'
  BY <1>0, <1>4 DEF Solo, In
<1>7. Searching' /\ Sending'
  BY <1>4, NothingOnCore2
<1>8. \A q : /\ (ToOpen(0, q)' <=> ToOpen(0, q)) /\ (ToClose(0, q)' <=> ToClose(0, q))
             /\ ~ToOpen(1, q) /\ ~ToClose(1, q)
  <2>1. \A q : (ToOpen(0, q)' <=> ToOpen(0, q)) /\ (ToClose(0, q)' <=> ToClose(0, q))
    BY <1>4 DEF ToOpen, ToClose
  <2>2. \A q : ~ToOpen(1, q) /\ ~ToClose(1, q)
    BY <1>1, <1>2, <1>3, WhatCallsDo DEF ToOpen, ToClose
  <2> QED  BY <2>1, <2>2
<1>9. Remembered'
  BY <1>0, <1>1, <1>2, <1>3 DEF Remembered
<1>10. Strobed'
  <2>1. StrobedAt(c)'
    BY <1>2 DEF StrobedAt, Writes, Does
  <2> QED  BY <1>0, <1>1, <1>2, <1>5, <2>1, StrobedKept
<1>11. SwitchesKnown'
  BY <1>0, <1>1, <1>8 DEF SwitchesKnown, Cores
<1> QED  BY <1>6, <1>7, <1>9, <1>10, <1>11 DEF Known

LEMMA KnownAwait ==
  ASSUME TypeOK, CallsNest, SendsWanted, Known, NEW c \in Cores, Await(c)
  PROVE  Known'
<1>0. Solo /\ Remembered /\ Strobed /\ SwitchesKnown
  BY DEF Known
<1>1. /\ calls[c] # <<>> /\ Head(calls[c]).do = "await" /\ Returns(c) /\ calls[1] = <<>>
      /\ UNCHANGED <<paths, lastChipXY, chipHadConnections, switches, chipSelect, fifo, strays,
                      doubt>>
  BY DEF Await, Does
<1>2. ToSet(calls[c]) = {Head(calls[c])} /\ calls'[c] = <<>> /\ OthersStay(c)
  BY <1>1, LastReturns
<1>3. c = 0
  BY <1>1 DEF Cores
<1>4. calls'[0] = <<>> /\ calls'[1] = <<>> /\ 0 \in Cores /\ 1 \in Cores
  BY <1>1, <1>2, <1>3 DEF OthersStay, Cores
<1>5. \A d \in Cores : calls'[d] = <<>> /\ ToSet(calls'[d]) = {}
  BY <1>4, EmptyStack DEF Cores
<1>6. fifo # <<>> => chipSelect = Nowhere /\ Len(fifo) = 1
  <2>1. ~Writes(0, "wait") /\ ~Writes(1, "wait")
    BY <1>1, <1>3 DEF Writes, Does
  <2> QED  BY <1>0, <1>3, <2>1 DEF Strobed, Cores
<1>7. Solo'
  BY <1>4, <1>5 DEF Solo, In
<1>8. Searching' /\ Sending'
  BY <1>4, NothingOnCore2
<1>9. \A d \in Cores : \A q : ~ToOpen(d, q) /\ ~ToClose(d, q)
  <2>1. \A call \in ToSet(calls[0]) : call.do = "await"
    BY <1>1, <1>2, <1>3
  <2>2. ToSet(calls[1]) = {}
    BY <1>1, EmptyStack
  <2> QED  BY <2>1, <2>2, WhatCallsDo DEF ToOpen, ToClose, Cores
<1>10. Remembered'
  <2>1. ToSet(calls[1]) = {}
    BY <1>1, EmptyStack
  <2> QED  BY <1>0, <1>1, <2>1 DEF Remembered
<1>11. Strobed'
  <2>1. \A d \in Cores : StrobedAt(d)'
    BY <1>5 DEF StrobedAt, Writes, Does
  <2> QED  BY <1>1, <1>5, <1>6, <2>1 DEF Strobed
<1>12. SwitchesKnown'
  BY <1>0, <1>1, <1>9 DEF SwitchesKnown
<1> QED  BY <1>7, <1>8, <1>10, <1>11, <1>12 DEF Known

LEMMA KnownStrobe ==
  ASSUME TypeOK, CallsNest, SendsWanted, Known, isrFromPio
  PROVE  Known'
<1>0. Solo /\ Searching /\ Sending /\ Remembered /\ Strobed /\ SwitchesKnown
  BY DEF Known
<1>1. /\ fifo # <<>> /\ fifo' = Tail(fifo) /\ chipSelect' = Nowhere
      /\ UNCHANGED <<paths, lastChipXY, chipHadConnections, calls, strays, doubt>>
      /\ Wanted' = Wanted
  BY DEF isrFromPio, Wanted
<1>2. Solo' /\ Searching' /\ Sending' /\ Remembered'
  BY <1>0, <1>1 DEF Solo, In, Searching, Sending, Remembered, ToOpen, ToClose
<1>3. \A d \in Cores : \A q : (ToOpen(d, q)' <=> ToOpen(d, q)) /\ (ToClose(d, q)' <=> ToClose(d, q))
  BY <1>1 DEF ToOpen, ToClose
<1>4. Len(fifo) <= 1 => fifo' = <<>>
  <2> DEFINE bytes == [x : 0..15, y : 0..7, on : BOOLEAN]
  <2>1. fifo \in Seq(bytes)
    BY DEF TypeOK
  <2> HIDE DEF bytes
  <2>2. Tail(fifo) \in Seq(bytes) /\ Len(Tail(fifo)) = Len(fifo) - 1 /\ Len(fifo) \in Nat \ {0}
    BY <1>1, <2>1
  <2>3. Len(fifo) <= 1 => Len(Tail(fifo)) = 0
    BY <2>2
  <2> QED  BY <1>1, <2>2, <2>3
<1>5. CASE \A c \in Cores : calls[c] = <<>>
  <2>1. \A c \in Cores : ~Writes(c, "wait")
    BY <1>5 DEF Writes, Does
  <2>2. chipSelect = Nowhere /\ Len(fifo) = 1
    BY <1>0, <1>1, <2>1 DEF Strobed
  <2>3. switches' = switches
    BY <2>2 DEF isrFromPio
  <2>4. SwitchesKnown'
    BY <1>0, <1>1, <1>3, <2>3 DEF SwitchesKnown
  <2>5. \A c \in Cores : StrobedAt(c)'
    BY <1>1, <1>5 DEF StrobedAt, Writes, Does
  <2>6. fifo' = <<>>
    BY <1>4, <2>2
  <2>7. Strobed'
    BY <2>5, <2>6 DEF Strobed
  <2> QED  BY <1>2, <2>4, <2>7 DEF Known
<1>6. CASE \E c \in Cores : calls[c] # <<>>
  <2>1. PICK c \in Cores : Writes(c, "wait")
    BY <1>0, <1>1, <1>6 DEF Strobed
  <2> DEFINE write == Head(calls[c])
  <2>2. /\ calls[c] # <<>> /\ write.do = "write" /\ write.at = "wait" /\ OthersStay(c)
        /\ write \in Call
    BY <1>1, <2>1, StackTypes DEF Writes, Does, OthersStay
  <2>3. /\ calls'[c] # <<>> /\ Head(calls'[c]) = write
        /\ write.point \in Hops /\ write.on \in BOOLEAN
        /\ write.on \/ InRange(write.point)
    BY <1>1, <2>2, CallFields
  <2>4. \/ fifo = <<Byte(write)>> /\ Aimed(write)
        \/ c = 0 /\ Len(fifo) <= 1 /\ Clash(write)
    BY <1>0, <1>1, <2>1 DEF Strobed, StrobedAt
  <2>5. \A call \in ToSet(Tail(calls'[c])) :
          call.do = "write" /\ call.on => c = 0 /\ "clash" \in doubt'
    BY <1>0, <1>1, <2>2 DEF Strobed, StrobedAt
  <2> HIDE DEF write
  <2>6. ~Writes(c, "put")'
    BY <2>2, <2>3 DEF Writes, Does
  <2>7. fifo' = <<>> \/ Writes(c, "wait")'
    BY <2>2, <2>3 DEF Writes, Does
  <2>8. CASE fifo = <<Byte(write)>> /\ Aimed(write)
    <3>1. Head(fifo) = Byte(write) /\ fifo' = <<>>
      BY <1>1, <2>8
    <3> DEFINE point == Masked(write.point)
    <3>0. point \in Crosspoints /\ point.chip = write.point.chip
      BY <2>3, HopTypes
    <3>2. [chip |-> chipSelect, x |-> Head(fifo).x, y |-> Head(fifo).y] = point
      BY <2>8, <3>1 DEF Aimed, Byte, Masked
    <3>3. chipSelect # Nowhere
      BY <2>3, <2>8, HopTypes, Parameters DEF Aimed
    <3>4. Head(fifo).on = write.on
      BY <3>1 DEF Byte
    <3>5. switches' = IF write.on THEN switches \cup {point} ELSE switches \ {point}
      BY <3>2, <3>3, <3>4 DEF isrFromPio
    <3>a. IF InRange(write.point)
          THEN point = write.point /\ (point \in lastChipXY <=> write.on)
          ELSE write.on /\ point \in strays
      BY <2>3, <2>8, <3>0, HopTypes DEF Aimed
    <3> HIDE DEF point
    <3>6. /\ InRange(write.point) =>
               /\ write.point \in lastChipXY <=> write.on
               /\ write.point \in switches' <=> write.on
          /\ ~write.on => point \notin lastChipXY
          /\ write.on => point \in lastChipXY \cup strays
      BY <2>3, <3>5, <3>a
    <3>7. StrobedAt(c)'
      BY <1>1, <2>3, <2>5, <2>6, <3>1, <3>6 DEF StrobedAt
    <3>8. Strobed'
      BY <1>0, <2>2, <2>7, <3>7, StrobedKept DEF write
    <3>9. SwitchesKnown'
      <4>1. \A q \in switches' : q \in switches \/ (q = point /\ write.on)
        BY <3>5
      <4>2. \A q \in switches' : q \in lastChipXY' \cup strays' \/ \E d \in Cores : ToOpen(d, q)'
        BY <1>0, <1>1, <1>3, <3>6, <4>1 DEF SwitchesKnown
      <4>3. doubt' = {} => \A q \in lastChipXY' : q \in switches' \/ \E d \in Cores : ToClose(d, q)'
        <5>1. \A q \in lastChipXY : q \in switches => q \in switches'
          BY <3>5, <3>6
        <5> QED  BY <1>0, <1>1, <1>3, <5>1 DEF SwitchesKnown
      <4>4. ASSUME NEW p \in switches' \ strays', NEW q \in switches' \ strays' PROVE ~Shorted(p, q)
        <5>1. ASSUME write.on, point \notin strays, NEW r \in switches \ strays
              PROVE  ~Shorted(point, r) /\ ~Shorted(r, point)
          <6>1. InRange(write.point) /\ point = write.point
            BY <3>a, <5>1
          <6> QED  BY <2>8, <5>1, <6>1 DEF Aimed, Shorted
        <5>2. ~Shorted(point, point)
          BY DEF Shorted
        <5>3. p \notin strays /\ q \notin strays
          BY <1>1
        <5> QED  BY <1>0, <4>1, <5>1, <5>2, <5>3 DEF SwitchesKnown
      <4> QED  BY <4>2, <4>3, <4>4 DEF SwitchesKnown
    <3> QED  BY <1>2, <3>8, <3>9 DEF Known
  <2>9. CASE c = 0 /\ Len(fifo) <= 1 /\ Clash(write)
    <3>1. switches' = switches
      BY <2>9 DEF isrFromPio, Clash
    <3>2. fifo' = <<>> /\ Len(fifo') <= 1
      BY <1>4, <2>9
    <3>3. Clash(Head(calls[c]))'
      BY <1>1, <2>3, <2>9 DEF Clash
    <3>4. StrobedAt(c)'
      BY <2>5, <2>6, <2>9, <3>2, <3>3 DEF StrobedAt
    <3>5. Strobed'
      BY <1>0, <2>2, <2>7, <3>4, StrobedKept DEF write
    <3>6. SwitchesKnown'
      BY <1>0, <1>1, <1>3, <3>1 DEF SwitchesKnown
    <3> QED  BY <1>2, <3>5, <3>6 DEF Known
  <2> QED  BY <2>4, <2>8, <2>9
<1> QED  BY <1>5, <1>6

(* The calls of a core that is in none, or only waits for the other.       *)
LEMMA NothingOnCores ==
  ASSUME \A c \in Cores : \A call \in ToSet(calls[c]) : call.do = "await"
  PROVE  \A c \in Cores : \A q : ~ToOpen(c, q) /\ ~ToClose(c, q)
<1> QED  BY WhatCallsDo DEF ToOpen, ToClose

LEMMA NothingOnTheWay ==
  ASSUME TypeOK, Strobed, \A c \in Cores : \A call \in ToSet(calls[c]) : call.do = "await"
  PROVE  fifo = <<>> \/ \A c \in Cores : calls[c] = <<>>
<1>1. ASSUME NEW c \in Cores PROVE ~Writes(c, "wait")
  <2>1. calls[c] # <<>> => Head(calls[c]) \in ToSet(calls[c])
    BY StackTypes
  <2> QED  BY <2>1 DEF Writes, Does
<1> QED  BY <1>1 DEF Strobed

(* A clean send needs nothing to be known before: it starts afresh.        *)
LEMMA KnownClean ==
  ASSUME TypeOK, CallsNest, SendsWanted, OthersStay(1), UNCHANGED <<paths, fifo>>,
         request = -1, fifo = <<>>,
         switches' = {} /\ lastChipXY' = {} /\ chipHadConnections' = {} /\ strays' = {},
         Stacked(1, sendEach(paths, TRUE), {Do("acknowledge")})
  PROVE  Known'
<1> DEFINE s == sendEach(paths, TRUE)
           a == Do("acknowledge")
           wait == Do("await")
<1>1. /\ s.do = "send" /\ s.left = paths /\ s.noted = TRUE
      /\ a.do = "acknowledge" /\ wait.do = "await" /\ wait \in Call
  BY CallForms, CallTypes
<1>2. /\ calls'[1] # <<>> /\ Head(calls'[1]) = s /\ ToSet(Tail(calls'[1])) = {a}
      /\ ToSet(calls'[1]) = {s, a}
  BY DEF Stacked
<1>3. calls'[0] = <<wait>>
  BY DEF SendsWanted, OthersStay, Cores
<1> HIDE DEF s, a, wait
<1>4. /\ calls'[0] # <<>> /\ Head(calls'[0]) = wait /\ ToSet(Tail(calls'[0])) = {}
      /\ ToSet(calls'[0]) = {wait}
  BY <1>1, <1>3, SingleStack
<1>5. Wanted' = Wanted
  BY DEF Wanted
<1>6. Solo'
  BY <1>1, <1>4 DEF Solo, In
<1>7. ~In(1, "search")'
  BY <1>1, <1>2 DEF In
<1>8. Sending'
  <2>1. ASSUME NEW q \in Wanted PROVE ToClose(1, q)'
    <3>1. Closes(s, q)
      BY <1>1 DEF Closes, Wanted, PointsOf
    <3> QED  BY <1>2, <3>1 DEF ToClose, Closes
  <2>2. \A call \in ToSet(calls'[1]) : call.do \notin {"open", "write"} /\ (call.do = "send" => call.noted)
    BY <1>1, <1>2
  <2> QED  BY <1>5, <2>1, <2>2 DEF Sending
<1>9. Strobed'
  <2>1. \A c \in Cores : ~Writes(c, "put")' /\ ~Writes(c, "wait")'
    BY <1>1, <1>2, <1>4 DEF Writes, Does, Cores
  <2>2. \A c \in Cores : \A call \in ToSet(Tail(calls'[c])) : call.do # "write"
    BY <1>1, <1>2, <1>4 DEF Cores
  <2> QED  BY <2>1, <2>2 DEF Strobed, StrobedAt
<1> QED  BY <1>6, <1>7, <1>8, <1>9 DEF Known, Searching, Remembered, SwitchesKnown

LEMMA KnownIncremental ==
  ASSUME TypeOK, CallsNest, SendsWanted, Known, OthersStay(1), Sure',
         UNCHANGED <<paths, fifo, switches, lastChipXY, chipHadConnections, strays>>,
         calls[1] = <<>>, fifo = <<>> \/ calls[0] # <<>>, doubt' = doubt \cup Raced(1),
         Stacked(1, SearchIn(Rows), {sendEach(Changed, FALSE), Do("acknowledge")})
  PROVE  Known'
<1>0. Solo /\ Remembered /\ Strobed /\ SwitchesKnown /\ ToSet(calls[1]) = {}
      /\ 0 \in Cores /\ 1 \in Cores
  BY EmptyStack DEF Known, Cores
<1> DEFINE r == SearchIn(Rows)
           s == sendEach(Changed, FALSE)
           a == Do("acknowledge")
<1>1. /\ r.do = "search" /\ r.rows = Rows
      /\ s.do = "send" /\ s.left = Changed /\ s.noted = FALSE /\ a.do = "acknowledge"
  BY CallForms
<1>2. /\ calls'[1] # <<>> /\ Head(calls'[1]) = r /\ ToSet(Tail(calls'[1])) = {s, a}
      /\ ToSet(calls'[1]) = {r, s, a}
  BY DEF Stacked
<1> HIDE DEF r, s, a
<1>3. \A call \in ToSet(calls[0]) : call.do = "await"
  <2>1. Raced(1) = {}
    BY DEF Sure, Raced
  <2> QED  BY <2>1 DEF Raced
<1>4. calls'[0] = calls[0]
  BY <1>0 DEF OthersStay
<1>5. \A c \in Cores : \A call \in ToSet(calls[c]) : call.do = "await"
  BY <1>0, <1>3 DEF Cores
<1>6. \A c \in Cores : \A q : ~ToOpen(c, q) /\ ~ToClose(c, q)
  BY <1>5, NothingOnCores
<1>7. fifo = <<>>
  BY <1>0, <1>5, NothingOnTheWay
<1>8. Wanted' = Wanted
  BY DEF Wanted
<1>9. Solo'
  BY <1>0, <1>3, <1>4 DEF Solo, In
<1>10. In(1, "search")'
  BY <1>1, <1>2 DEF In
<1>11. Searching'
  <2>1. ASSUME NEW q \in Wanted, q \notin lastChipXY PROVE ToClose(1, q)'
    <3>1. PICK path \in paths : q \in ToSet(path)
      BY DEF Wanted, PointsOf
    <3>2. InRange(q)
      BY DEF Wanted, PointsOf
    <3>3. path \in Changed
      BY <2>1, <3>1, <3>2 DEF Changed
    <3>4. Closes(s, q)
      BY <1>1, <3>1, <3>2, <3>3 DEF Closes
    <3> QED  BY <1>2, <3>4 DEF ToClose, Closes
  <2>2. \A q : ~ToOpen(1, q)'
    <3>1. \A q : ToOpen(1, q)' <=> \E call \in {r, s, a} : Opens(call, q)
      BY <1>2 DEF ToOpen, Opens
    <3> QED  BY <1>1, <3>1, WhatCallsDo
  <2>3. \A call \in ToSet(calls'[1]) : call.do = "send" => ~call.noted
    BY <1>1, <1>2
  <2>4. ASSUME NEW q \in lastChipXY
        PROVE  \E call \in ToSet(calls'[1]) : call.do = "search" /\ <<q.chip, q.y>> \in call.rows
    <3>1. <<q.chip, q.y>> \in r.rows
      BY <1>0, <1>1 DEF Remembered
    <3> QED  BY <1>1, <1>2, <3>1
  <2> QED  BY <1>8, <2>1, <2>2, <2>3, <2>4 DEF Searching
<1>12. Sending'
  BY <1>10 DEF Sending
<1>13. Remembered'
  BY <1>0 DEF Remembered
<1>14. Strobed'
  <2>1. calls'[0] # <<>> =>
          /\ Head(calls'[0]).do = "await"
          /\ \A call \in ToSet(Tail(calls'[0])) : call.do # "write"
    BY <1>0, <1>3, <1>4, StackTypes
  <2>2. \A c \in Cores : ~Writes(c, "put")' /\ ~Writes(c, "wait")'
    BY <1>1, <1>2, <2>1 DEF Writes, Does, Cores
  <2>3. \A c \in Cores : calls'[c] # <<>> => \A call \in ToSet(Tail(calls'[c])) : call.do # "write"
    BY <1>1, <1>2, <2>1 DEF Cores
  <2> QED  BY <1>7, <2>2, <2>3 DEF Strobed, StrobedAt
<1>15. SwitchesKnown'
  BY <1>0, <1>6 DEF SwitchesKnown
<1> QED  BY <1>9, <1>11, <1>12, <1>13, <1>14, <1>15 DEF Known

LEMMA KnownRefresh ==
  ASSUME TypeOK, CallsNest, SendsWanted, Known,
         NEW board \in Boards, NEW kind \in {-1, 1, 3}, Refresh(board, kind)
  PROVE  Known'
<1>0. Solo /\ Remembered /\ Strobed /\ SwitchesKnown
  BY DEF Known
<1> DEFINE wait == Do("await")
<1>1. /\ calls[0] = <<>> /\ calls[1] = <<>> /\ fifo = <<>> /\ calls'[1] = <<>>
      /\ calls'[0] = <<>> \/ calls'[0] = <<wait>>
  BY RefreshStack
<1>2. wait.do = "await" /\ wait \in Call
  BY CallForms, CallTypes
<1> HIDE DEF wait
<1>3. /\ \A c \in Cores : ToSet(calls[c]) = {}
      /\ \A c \in Cores : \A call \in ToSet(calls'[c]) : call.do = "await"
      /\ \A c \in Cores : calls'[c] # <<>> =>
           Head(calls'[c]).do = "await" /\ ToSet(Tail(calls'[c])) = {}
  <2>1. \A c \in Cores : ToSet(calls[c]) = {}
    BY <1>1, EmptyStack DEF Cores
  <2>2. ToSet(calls'[1]) = {}
    BY <1>1, EmptyStack
  <2>3. \/ calls'[0] = <<>> /\ ToSet(calls'[0]) = {}
        \/ /\ calls'[0] # <<>> /\ ToSet(calls'[0]) = {wait}
           /\ Head(calls'[0]) = wait /\ ToSet(Tail(calls'[0])) = {}
    <3>1. CASE calls'[0] = <<>>
      BY <3>1, EmptyStack
    <3>2. CASE calls'[0] = <<wait>>
      BY <1>2, <3>2, SingleStack
    <3> QED  BY <1>1, <3>1, <3>2
  <2>4. ASSUME NEW c \in Cores PROVE \A call \in ToSet(calls'[c]) : call.do = "await"
    BY <1>2, <2>2, <2>3 DEF Cores
  <2>5. ASSUME NEW c \in Cores, calls'[c] # <<>>
        PROVE  Head(calls'[c]).do = "await" /\ ToSet(Tail(calls'[c])) = {}
    BY <1>1, <1>2, <2>3, <2>5 DEF Cores
  <2> QED  BY <2>1, <2>4, <2>5
<1>4. UNCHANGED <<fifo, switches, lastChipXY, chipHadConnections, chipSelect, strays, doubt>>
  BY DEF Refresh
<1>5. \A c \in Cores : \A q : ~ToOpen(c, q) /\ ~ToClose(c, q)
  BY <1>3, NothingOnCores
<1>6. Solo'
  BY <1>1, <1>3 DEF Solo, In, Cores
<1>7. Searching' /\ Sending'
  BY <1>1, NothingOnCore2
<1>8. Remembered'
  <2>1. \A c \in Cores : \A call \in ToSet(calls'[c]) : ~(call.do = "write")
    BY <1>3
  <2> QED  BY <1>0, <1>3, <1>4, <2>1 DEF Remembered, Cores
<1>9. Strobed'
  <2>1. \A c \in Cores : ~Writes(c, "put")' /\ ~Writes(c, "wait")'
    BY <1>3 DEF Writes, Does
  <2> QED  BY <1>1, <1>3, <1>4, <2>1 DEF Strobed, StrobedAt
<1>10. SwitchesKnown'
  BY <1>0, <1>4, <1>5 DEF SwitchesKnown
<1> QED  BY <1>6, <1>7, <1>8, <1>9, <1>10 DEF Known

LEMMA KnownRaw ==
  ASSUME TypeOK, CallsNest, SendsWanted, Known, Sure',
         NEW p \in Raw, NEW on \in BOOLEAN, jl_send_raw(p, on)
  PROVE  Known'
<1>0. Solo /\ Remembered /\ Strobed /\ SwitchesKnown /\ p \in Crosspoints
      /\ InRange(p)
  BY Parameters, HopTypes DEF Known
<1> DEFINE w == Write(p, on)
           o == Open(Conflicting(p, on))
<1>1. /\ calls[0] = <<>> /\ (fifo = <<>> \/ calls[1] # <<>>) /\ OthersStay(0)
      /\ Raced(0) \subseteq doubt' /\ doubt \subseteq doubt'
      /\ on /\ p.chip \notin chipHadConnections => "unsearched" \in doubt'
      /\ chipSelect' = p.chip
      /\ lastChipXY' = IF on THEN lastChipXY \cup {p} ELSE lastChipXY \ {p}
      /\ strays' = strays
      /\ \/ Conflicting(p, on) = {} /\ Stacked(0, w, {})
         \/ "clash" \in doubt' /\ Stacked(0, o, {w})
  BY <1>0, RawStack
<1>2. w.do = "write" /\ w.point = p /\ w.on = on /\ w.at = "put" /\ o.do = "open"
  BY DEF Write, Open
<1> HIDE DEF w, o
<1>3. calls[1] = <<>>
  <2>1. Raced(0) = {}
    BY <1>1 DEF Sure, Raced
  <2>2. \A call \in ToSet(calls[1]) : call.do = "await"
    BY <2>1 DEF Raced
  <2>3. ToSet(calls[1]) = {}
    BY <2>2 DEF CallsNest, In
  <2> QED  BY <2>3, StackElements, StackTypes DEF Cores
<1>4. /\ fifo = <<>> /\ calls'[1] = <<>> /\ ToSet(calls[1]) = {}
      /\ on => p.chip \in chipHadConnections
      /\ UNCHANGED <<paths, chipHadConnections, switches, fifo>>
  BY <1>1, <1>3, EmptyStack DEF OthersStay, Cores, Sure, jl_send_raw
<1>5. \A c \in Cores : \A q : ~ToOpen(c, q) /\ ~ToClose(c, q)
  BY <1>1, <1>3, EmptyStack, NothingOnCores DEF Cores
<1>6. /\ calls'[0] # <<>> /\ w \in ToSet(calls'[0])
      /\ \A call \in ToSet(calls'[0]) : call = w \/ call = o
      /\ \/ Conflicting(p, on) = {} /\ Head(calls'[0]) = w /\ ToSet(Tail(calls'[0])) = {}
         \/ "clash" \in doubt' /\ Head(calls'[0]) = o /\ ToSet(Tail(calls'[0])) = {w}
  BY <1>1 DEF Stacked
<1>7. /\ switches \subseteq lastChipXY \cup strays
      /\ doubt' = {} => lastChipXY \subseteq switches
      /\ \A q, r \in switches \ strays : ~Shorted(q, r)
  BY <1>0, <1>1, <1>5 DEF SwitchesKnown
<1>8. Solo'
  BY <1>2, <1>4, <1>6 DEF Solo, In
<1>9. Searching' /\ Sending'
  BY <1>4, NothingOnCore2
<1>10. Remembered'
  <2>1. <<p.chip, p.y>> \in Rows
    BY DEF Rows, RowsOf
  <2> QED  BY <1>0, <1>1, <1>4, <2>1 DEF Remembered
<1>11. Strobed'
  <2>1. ASSUME Writes(0, "put")' PROVE Aimed(Head(calls[0]))'
    <3>1. Head(calls'[0]) = w /\ Conflicting(p, on) = {}
      BY <1>2, <1>6, <2>1 DEF Writes, Does
    <3>2. on => \A q \in switches' \ strays' : ~Shorted(p, q)
      BY <1>0, <1>1, <1>4, <1>7, <3>1 DEF Conflicting
    <3>3. p \in lastChipXY' <=> on
      BY <1>1
    <3> QED  BY <1>0, <1>1, <1>2, <3>1, <3>2, <3>3 DEF Aimed
  <2>2. ~Writes(0, "wait")' /\ ~Writes(1, "put")' /\ ~Writes(1, "wait")'
    BY <1>2, <1>4, <1>6 DEF Writes, Does
  <2>3. \A call \in ToSet(Tail(calls'[0])) : call.do = "write" /\ call.on => "clash" \in doubt'
    BY <1>6
  <2>4. StrobedAt(0)'
    BY <1>4, <2>1, <2>2, <2>3 DEF StrobedAt
  <2>5. StrobedAt(1)'
    BY <1>4, <2>2 DEF StrobedAt
  <2> QED  BY <1>4, <2>4, <2>5 DEF Strobed, Cores
<1>12. SwitchesKnown'
  <2>1. Opens(w, p) \/ on
    BY <1>2, WhatCallsDo
  <2>2. Closes(w, p) \/ ~on
    BY <1>2, WhatCallsDo
  <2>3. (~on => ToOpen(0, p)') /\ (on => ToClose(0, p)')
    BY <1>6, <2>1, <2>2 DEF ToOpen, ToClose, Opens, Closes
  <2>4. \A q \in switches' : q \in lastChipXY' \cup strays' \/ \E c \in Cores : ToOpen(c, q)'
    BY <1>1, <1>4, <1>7, <2>3 DEF Cores
  <2>5. doubt' = {} => \A q \in lastChipXY' : q \in switches' \/ \E c \in Cores : ToClose(c, q)'
    BY <1>1, <1>4, <1>7, <2>3 DEF Cores
  <2> QED  BY <1>1, <1>4, <1>7, <2>4, <2>5 DEF SwitchesKnown
<1> QED  BY <1>8, <1>9, <1>10, <1>11, <1>12 DEF Known

LEMMA KnownStep == IInv /\ [Next]_vars => (Sure' => Known')
<1> SUFFICES ASSUME IInv, [Next]_vars, Sure' PROVE Known'
  OBVIOUS
<1>0. TypeOK /\ CallsNest /\ SendsWanted
  BY DEF IInv
<1>1. CASE UNCHANGED vars
  <2>1. Known
    BY <1>1 DEF IInv, Sure, vars
  <2> QED
    BY <1>1, <2>1 DEF vars, Known, Solo, In, Searching, Sending, Remembered, Strobed,
         StrobedAt, Aimed, Clash, Writes, Does, SwitchesKnown, ToOpen, ToClose, Wanted
<1>2. ASSUME NEW c \in Cores, CoreStep(c) PROVE Known'
  <2>1. doubt \subseteq doubt'
    <3>1. CASE OpenNext(c)
      BY <1>0, <3>1, OpenNextStack
    <3>2. CASE NextHop(c)
      BY <1>0, <3>2, NextHopStack
    <3>3. CASE Put(c) \/ Return(c) \/ GiveUp(c) \/ NextPath(c) \/ Search(c)
                 \/ Acknowledge(c) \/ Await(c)
      BY <3>3 DEF Put, Return, GiveUp, NextPath, Search, Acknowledge, Await
    <3> QED  BY <1>2, <3>1, <3>2, <3>3 DEF CoreStep
  <2>2. Known
    BY <2>1 DEF IInv, Sure
  <2>3. CASE OpenNext(c)
    BY <1>0, <2>2, <2>3, KnownOpenNext
  <2>4. CASE Put(c)
    BY <1>0, <2>2, <2>4, KnownPut
  <2>5. CASE Return(c)
    BY <1>0, <2>2, <2>5, KnownReturn
  <2>6. CASE GiveUp(c)
    BY <1>0, <2>2, <2>6, NoGiveUp
  <2>7. CASE NextHop(c)
    BY <1>0, <2>2, <2>7, KnownNextHop
  <2>8. CASE NextPath(c)
    BY <1>0, <2>2, <2>8, KnownNextPath
  <2>9. CASE Search(c)
    BY <1>0, <2>2, <2>9, KnownSearch
  <2>10. CASE Acknowledge(c)
    BY <1>0, <2>2, <2>10, KnownAcknowledge
  <2>11. CASE Await(c)
    BY <1>0, <2>2, <2>11, KnownAwait
  <2> QED  BY <1>2, <2>3, <2>4, <2>5, <2>6, <2>7, <2>8, <2>9, <2>10, <2>11 DEF CoreStep
<1>3. CASE isrFromPio
  <2>1. Known
    BY <1>3 DEF IInv, Sure, isrFromPio
  <2> QED  BY <1>0, <1>3, <2>1, KnownStrobe
<1>4. CASE sendPaths
  <2> DEFINE every == Stacked(1, sendEach(paths, TRUE), {Do("acknowledge")})
             changes == Stacked(1, SearchIn(Rows), {sendEach(Changed, FALSE), Do("acknowledge")})
  <2>1. /\ calls[1] = <<>> /\ (fifo = <<>> \/ calls[0] # <<>>) /\ OthersStay(1)
        /\ UNCHANGED <<paths, fifo>>
        /\ \/ /\ request = -1 /\ fifo = <<>>
              /\ switches' = {} /\ lastChipXY' = {} /\ chipHadConnections' = {} /\ strays' = {}
              /\ every
           \/ /\ changes /\ doubt' = doubt \cup Raced(1)
              /\ UNCHANGED <<switches, lastChipXY, chipHadConnections, strays>>
    BY <1>0, <1>4, SendPathsStack DEF sendPaths
  <2>2. CASE /\ request = -1 /\ fifo = <<>>
             /\ switches' = {} /\ lastChipXY' = {} /\ chipHadConnections' = {} /\ strays' = {}
             /\ every
    BY <1>0, <2>1, <2>2, KnownClean
  <2>3. CASE /\ changes /\ doubt' = doubt \cup Raced(1)
             /\ UNCHANGED <<switches, lastChipXY, chipHadConnections, strays>>
    <3>1. Known
      BY <2>3 DEF IInv, Sure
    <3> QED  BY <1>0, <2>1, <2>3, <3>1, KnownIncremental
  <2> QED  BY <2>1, <2>2, <2>3
<1>5. ASSUME NEW board \in Boards, NEW kind \in {-1, 1, 3}, Refresh(board, kind)
      PROVE  Known'
  <2>1. Known
    BY <1>5 DEF IInv, Sure, Refresh
  <2> QED  BY <1>0, <1>5, <2>1, KnownRefresh
<1>6. ASSUME NEW p \in Raw, NEW on \in BOOLEAN, jl_send_raw(p, on)
      PROVE  Known'
  <2>1. doubt \subseteq doubt'
    BY <1>0, <1>6, RawStack, Parameters
  <2>2. Known
    BY <2>1 DEF IInv, Sure
  <2> QED  BY <1>0, <1>6, <2>2, KnownRaw
<1>7. CASE refreshPaths
  <2>1. "no reset" \in doubt'
    BY <1>7 DEF refreshPaths
  <2>2. "no reset" # "clash"
    OBVIOUS
  <2> QED  BY <2>1, <2>2 DEF Sure
<1> QED  BY <1>1, <1>2, <1>3, <1>4, <1>5, <1>6, <1>7 DEF Next

LEMMA InitIInv == Init => IInv
<1> SUFFICES ASSUME Init PROVE IInv
  OBVIOUS
<1>1. /\ \A c \in Cores : calls[c] = <<>> /\ ToSet(calls[c]) = {} /\ Nested(calls[c])
      /\ 0 \in Cores /\ 1 \in Cores
  BY EmptyStack DEF Init, Cores
<1>2. CallsNest
  BY <1>1 DEF CallsNest, In
<1>3. SendsWanted
  BY <1>1 DEF SendsWanted, Init
<1>4. Solo /\ Searching /\ Sending /\ Remembered /\ SwitchesKnown
  BY <1>1 DEF Solo, In, Searching, Sending, Remembered, SwitchesKnown, Init
<1>5. Strobed
  <2>1. fifo = <<>>
    BY DEF Init
  <2> QED  BY <1>1, <2>1 DEF Strobed, StrobedAt, Writes, Does
<1> QED  BY <1>2, <1>3, <1>4, <1>5, TypeInit DEF IInv, Known

LEMMA Inductive == IInv /\ [Next]_vars => IInv'
<1> SUFFICES ASSUME IInv, [Next]_vars PROVE IInv'
  OBVIOUS
<1>1. TypeOK /\ CallsNest /\ SendsWanted
  BY DEF IInv
<1>2. TypeOK'
  BY <1>1, TypeStep
<1>3. CallsNest'
  BY <1>1, NestStep
<1>4. SendsWanted'
  BY <1>1, WantedStep
<1> QED  BY <1>2, <1>3, <1>4, KnownStep DEF IInv

THEOREM Invariant == Spec => []IInv
<1> QED  BY InitIInv, Inductive, PTL DEF Spec

----------------------------------------------------------------------------
(* The state has its type: a byte never names a crosspoint that a chip     *)
(* does not have, also that of a hop the router left unresolved (sendPath, *)
(* sendXYraw).                                                             *)
THEOREM TypeCorrect == Spec => []TypeOK
<1> QED  BY Invariant, PTL DEF IInv

(* When nothing is under way and nothing happened that makes the driver's  *)
(* memory doubtful, what lastChipXY says is closed, and beside it at most  *)
(* what unresolved hops have closed (sendXYraw, updateChipStateArray and   *)
(* the interrupt handler).                                                 *)
THEOREM MemoryTrueCorrect == Spec => []MemoryTrue
<1>1. IInv => MemoryTrue
  <2> SUFFICES ASSUME IInv, Quiet, doubt = {}
               PROVE  lastChipXY \subseteq switches /\ switches \subseteq lastChipXY \cup strays
    BY DEF MemoryTrue
  <2>1. SwitchesKnown
    BY DEF IInv, Sure, Known
  <2>2. \A c \in Cores : ToSet(calls[c]) = {}
    BY EmptyStack DEF Quiet
  <2>3. \A c \in Cores : \A q : ~ToOpen(c, q) /\ ~ToClose(c, q)
    BY <2>2, NothingOnCores
  <2> QED  BY <2>1, <2>3 DEF SwitchesKnown
<1> QED  BY <1>1, Invariant, PTL

(* A refresh, clean or incremental, leaves the routed paths closed and     *)
(* nothing else but strays, whatever board there was before                *)
(* (sendAllPaths).                                                         *)
THEOREM RefreshBuildsBoardCorrect == Spec => []RefreshBuildsBoard
<1>1. IInv => RefreshBuildsBoard
  <2> SUFFICES ASSUME IInv, Does(1, "acknowledge"), doubt = {}
               PROVE  Wanted \subseteq switches /\ switches \subseteq Wanted \cup strays /\ fifo = <<>>
    BY DEF RefreshBuildsBoard
  <2>1. TypeOK /\ CallsNest /\ Solo /\ Sending /\ Strobed /\ SwitchesKnown /\ 1 \in Cores
    BY DEF IInv, Sure, Known, Cores
  <2>2. calls[1] # <<>> /\ Head(calls[1]).do = "acknowledge" /\ ~Writes(1, "wait")
    BY DEF Does, Writes
  <2>3. ToSet(calls[1]) = {Head(calls[1])}
    <3>1. /\ ToSet(calls[1]) = {Head(calls[1])} \cup Below(1) /\ Head(calls[1]) \in Call
          /\ \A call \in Below(1) : call \in Call /\ Level(Head(calls[1])) < Level(call)
      BY <2>1, <2>2, RestOf DEF Below
    <3>2. Level(Head(calls[1])) = 6
      BY <2>2, <3>1, LevelOf
    <3>3. \A call \in Below(1) : FALSE
      <4> SUFFICES ASSUME NEW call \in Below(1) PROVE FALSE
        OBVIOUS
      <4>1. call \in Call /\ 6 < Level(call)
        BY <3>1, <3>2
      <4> QED  BY <4>1, LevelOf
    <3> QED  BY <3>1, <3>3
  <2>4. fifo = <<>>
    BY <2>1, <2>2, NoneOnTheWay
  <2>5. \A q : ~ToOpen(1, q) /\ ~ToClose(1, q)
    BY <2>2, <2>3, WhatCallsDo DEF ToOpen, ToClose
  <2>6. \A q : ~ToOpen(0, q) /\ ~ToClose(0, q)
    BY <2>1, <2>2, WhatCallsDo DEF Solo, ToOpen, ToClose
  <2>7. lastChipXY = Wanted
    BY <2>1, <2>2, <2>3, <2>5 DEF Sending, In
  <2>8. lastChipXY \subseteq switches /\ switches \subseteq lastChipXY \cup strays
    BY <2>1, <2>5, <2>6 DEF SwitchesKnown, Cores
  <2> QED  BY <2>4, <2>7, <2>8
<1> QED  BY <1>1, Invariant, PTL

(* When Core 2 closes a connection, the connections of the board before    *)
(* are open, but for strays (updateChipStateArray, then sendPath).         *)
THEOREM BreakBeforeMakeCorrect == Spec => []BreakBeforeMake
<1>1. IInv => BreakBeforeMake
  <2> SUFFICES ASSUME IInv, Does(1, "write"), Head(calls[1]).on, doubt = {}
               PROVE  switches \subseteq Wanted \cup strays
    BY DEF BreakBeforeMake
  <2>1. TypeOK /\ CallsNest /\ Solo /\ Sending /\ SwitchesKnown /\ 1 \in Cores
    BY DEF IInv, Sure, Known, Cores
  <2>2. calls[1] # <<>> /\ Head(calls[1]).do = "write" /\ Head(calls[1]) \in ToSet(calls[1])
    BY <2>1, StackTypes DEF Does
  <2>3. ~In(1, "search")
    BY <2>1, <2>2 DEF CallsNest
  <2>4. \A q : ~ToOpen(1, q)
    BY <2>1, <2>2, <2>3 DEF Sending, ToOpen, Opens
  <2>5. \A q : ~ToOpen(0, q)
    BY <2>1, <2>2, WhatCallsDo DEF Solo, ToOpen
  <2> QED  BY <2>1, <2>2, <2>3, <2>4, <2>5 DEF Sending, SwitchesKnown, Cores
<1> QED  BY <1>1, Invariant, PTL

(* No row of chip K ever has two supplies, whatever send_raw asks for: the *)
(* clashing supply is opened, and the byte that would close the other goes *)
(* to no chip; what unresolved hops have closed aside (sendXYraw).         *)
THEOREM OneSupplyCorrect == Spec => []OneSupply
<1>1. IInv => OneSupply
  BY DEF IInv, OneSupply, Sure, Known, SwitchesKnown
<1> QED  BY <1>1, Invariant, PTL
=============================================================================
