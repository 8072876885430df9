-------------------------- MODULE TagParser_proofs --------------------------
(***************************************************************************)
(* Proofs about TagParser, for every size of the two buffers, every limit  *)
(* of the stuck counter and both configurations.                           *)
(***************************************************************************)
EXTENDS TagParser, SequenceTheorems, TLAPS

States == {"searching", "detecting", "in_command"}
Tags   == CommandTags \cup {<<>>}

(* The parser and the stream with the values their fields may have.        *)
Parsers ==
  [state : States, tag_buffer : Seq(Bytes), current_tag : Tags,
   length : 0..CommandCap, prefixed : BOOLEAN, needs_python_prefix : BOOLEAN,
   seen_first_char : BOOLEAN, chars_in_state : 0..StuckLimit]

Streams ==
  [armed : BOOLEAN, opened : Tags, skipped : BOOLEAN, holed : BOOLEAN,
   plain : 0..StuckLimit + 1]

Used(p) == p.length + IF p.prefixed THEN 1 ELSE 0

Fits(p) == Len(p.tag_buffer) <= TagCap /\ Used(p) <= CommandCap

(* The sizes are numbers.                                                  *)
LEMMA Sizes == TagCap \in Nat /\ CommandCap \in Nat /\ StuckLimit \in Nat
<1> QED  BY TagParserAssumption DEF TagParserAssumption

(* The type invariant says that parser and stream are such records.        *)
LEMMA TypeParts ==
  TypeOK <=> /\ parser \in Parsers /\ Fits(parser)
             /\ stream \in Streams
             /\ enabled \in BOOLEAN /\ forwarded \in BOOLEAN
             /\ injected \in [tag : Tags, length : 0..CommandCap, prefixed : BOOLEAN]
<1> QED  BY DEF TypeOK, ParserType, StreamType, Parsers, Streams, Fits, Used, Tags, States

(* A byte read outside of plain text is counted.                           *)
LEMMA CountedType ==
  ASSUME parser \in Parsers, NEW st, Reads(st)
  PROVE  Counted \in Parsers
<1>1. parser.chars_in_state \in 0..StuckLimit
  BY DEF Parsers
<1>2. CASE st = "searching"
  BY <1>2 DEF Reads, Counted, Parsers
<1>3. CASE st # "searching"
  <2>1. parser.chars_in_state + 1 \in 0..StuckLimit
    BY <1>1, <1>3, Sizes DEF Reads
  <2> QED  BY <1>3, <2>1 DEF Reads, Counted, Parsers
<1> QED  BY <1>2, <1>3

(* The stream's record keeps its type when a byte is skipped or stored.    *)
LEMMA StreamStep ==
  ASSUME stream \in Streams, NEW c, Skips(c) \/ Stores(c)
  PROVE  stream' \in Streams
<1>1. stream.skipped \in BOOLEAN /\ stream.holed \in BOOLEAN
      /\ stream.plain \in 0..StuckLimit + 1
  BY DEF Streams
<1>2. PlainAfter(c) \in 0..StuckLimit + 1
  BY <1>1, Sizes DEF PlainAfter
<1> DEFINE h == stream.holed \/ stream.skipped
<1>3. h \in BOOLEAN
  OBVIOUS
<1>4. CASE Skips(c)
  BY <1>2, <1>4 DEF Skips, Streams
<1>5. CASE Stores(c)
  <2>1. stream' = [stream EXCEPT !.holed = h, !.plain = PlainAfter(c)]
    BY <1>5 DEF Stores
  <2> HIDE DEF h
  <2> QED  BY <1>2, <1>3, <2>1 DEF Streams
<1> QED  BY <1>4, <1>5

Injections == [tag : Tags, length : 0..CommandCap, prefixed : BOOLEAN]

(* Nothing is an injection, too.                                           *)
LEMMA NothingType == Nothing \in Injections
<1> QED  BY Sizes DEF Nothing, Injections, Tags

(* The cleared parser is well formed.                                      *)
LEMMA ClearedType == Cleared \in Parsers /\ Fits(Cleared)
<1>1. <<>> \in Seq(Bytes) /\ Len(<<>>) = 0
  BY EmptySeq
<1>2. Cleared \in Parsers
  BY <1>1, Sizes DEF Cleared, Parsers, States, Tags
<1>3. Fits(Cleared)
  BY <1>1, Sizes DEF Cleared, Fits, Used
<1> QED  BY <1>2, <1>3

(* Every step keeps the parser well formed.                                *)
LEMMA ParserStep ==
  ASSUME parser \in Parsers, Fits(parser), [Next]_vars
  PROVE  parser' \in Parsers /\ Fits(parser')
<1>0. <<>> \in Seq(Bytes) /\ Len(<<>>) = 0
  BY EmptySeq
<1>s. parser.tag_buffer \in Seq(Bytes) /\ parser.length \in 0..CommandCap
      /\ parser.prefixed \in BOOLEAN
  BY DEF Parsers
<1>d. ASSUME Reads("detecting") \/ Reads("in_command")
      PROVE  /\ Counted \in Parsers
             /\ Counted.tag_buffer = parser.tag_buffer
             /\ Counted.length = parser.length /\ Counted.prefixed = parser.prefixed
  <2>1. Counted \in Parsers
    BY <1>d, CountedType
  <2> QED  BY <2>1 DEF Counted, Parsers
<1>c. ASSUME NEW c \in Bytes, CollectName(c) PROVE parser' \in Parsers /\ Fits(parser')
  <2>1. Reads("detecting")
    BY <1>c DEF CollectName
  <2> DEFINE q == Counted
  <2>2. q \in Parsers /\ q.tag_buffer = parser.tag_buffer
        /\ q.length = parser.length /\ q.prefixed = parser.prefixed
    BY <1>d, <2>1
  <2> HIDE DEF q
  <2>3. CASE /\ Len(parser.tag_buffer) < TagCap
             /\ parser' = [q EXCEPT !.tag_buffer = Append(@, c)]
    <3> DEFINE t == Append(parser.tag_buffer, c)
    <3>1. t \in Seq(Bytes) /\ Len(t) = Len(parser.tag_buffer) + 1
      BY <1>s, <1>c
    <3>2. Len(t) <= TagCap
      BY <1>s, <2>3, <3>1, Sizes
    <3>3. parser' = [q EXCEPT !.tag_buffer = t]
      BY <2>2, <2>3
    <3> HIDE DEF t
    <3>4. parser' \in Parsers /\ parser'.tag_buffer = t
          /\ parser'.length = parser.length /\ parser'.prefixed = parser.prefixed
      BY <2>2, <3>1, <3>3 DEF Parsers
    <3> QED  BY <3>2, <3>4 DEF Fits, Used
  <2>4. CASE parser' = [q EXCEPT !.state = "searching"]
    <3>1. parser' \in Parsers /\ parser'.tag_buffer = parser.tag_buffer
          /\ parser'.length = parser.length /\ parser'.prefixed = parser.prefixed
      BY <2>2, <2>4 DEF Parsers, States
    <3> QED  BY <3>1 DEF Fits, Used
  <2>5. \/ /\ Len(parser.tag_buffer) < TagCap
           /\ parser' = [q EXCEPT !.tag_buffer = Append(@, c)]
        \/ parser' = [q EXCEPT !.state = "searching"]
    BY <1>c DEF CollectName, q
  <2> QED  BY <2>3, <2>4, <2>5
<1>b. ASSUME NEW c \in Bytes, StoreByte(c) PROVE parser' \in Parsers /\ Fits(parser')
  <2>1. Reads("in_command")
    BY <1>b DEF StoreByte
  <2> DEFINE q == Counted
             first == parser.needs_python_prefix /\ ~parser.seen_first_char /\ c # " "
             used == parser.length + IF parser.prefixed THEN 1 ELSE 0
             prefix == first /\ c # ">" /\ used < CommandCap
             room == used + (IF prefix THEN 1 ELSE 0) < CommandCap
             pre == parser.prefixed \/ prefix
             len == IF room THEN parser.length + 1 ELSE parser.length
             need == parser.needs_python_prefix /\ ~first
             seen == parser.seen_first_char \/ first
  <2>2. q \in Parsers /\ q.tag_buffer = parser.tag_buffer
        /\ q.length = parser.length /\ q.prefixed = parser.prefixed
        /\ q.needs_python_prefix = parser.needs_python_prefix
        /\ q.seen_first_char = parser.seen_first_char
    BY <1>d, <2>1 DEF Counted, Parsers
  <2>3. parser' = [q EXCEPT !.prefixed = pre, !.length = len,
                            !.needs_python_prefix = need, !.seen_first_char = seen]
    BY <1>b, <2>2 DEF StoreByte
  <2>4. used <= CommandCap
    BY DEF Fits, Used
  <2>5. len + (IF pre THEN 1 ELSE 0) <= CommandCap /\ len \in 0..CommandCap
    <3>1. /\ prefix => used < CommandCap
          /\ room <=> used + (IF prefix THEN 1 ELSE 0) < CommandCap
          /\ prefix \in BOOLEAN
      OBVIOUS
    <3>2. pre = (parser.prefixed \/ prefix)
      OBVIOUS
    <3>3. len = IF room THEN parser.length + 1 ELSE parser.length
      OBVIOUS
    <3> DEFINE m == parser.length
               b == parser.prefixed
    <3>4. m \in 0..CommandCap /\ b \in BOOLEAN /\ used = m + IF b THEN 1 ELSE 0
      BY <1>s
    <3> HIDE DEF first, used, prefix, room, pre, len, m, b
    <3>5. pre = (b \/ prefix) /\ len = IF room THEN m + 1 ELSE m
      BY <3>2, <3>3 DEF m, b
    <3>6. CASE b
      BY <2>4, <3>1, <3>4, <3>5, <3>6, Sizes
    <3>7. CASE ~b
      BY <2>4, <3>1, <3>4, <3>5, <3>7, Sizes
    <3> QED  BY <3>6, <3>7
  <2>6. pre \in BOOLEAN /\ need \in BOOLEAN /\ seen \in BOOLEAN
    OBVIOUS
  <2> HIDE DEF q, pre, len, need, seen
  <2>7. parser' \in Parsers /\ parser'.tag_buffer = parser.tag_buffer
        /\ parser'.length = len /\ parser'.prefixed = pre
    BY <2>2, <2>3, <2>5, <2>6 DEF Parsers
  <2> QED  BY <2>5, <2>7 DEF Fits, Used
<1>o. ASSUME OpenTag PROVE parser' \in Parsers /\ Fits(parser')
  <2> DEFINE need == parser.needs_python_prefix \/ parser.tag_buffer = <<"p">>
             seen == parser.seen_first_char /\ parser.tag_buffer # <<"p">>
  <2>1. parser' = [parser EXCEPT
          !.state = "in_command", !.current_tag = parser.tag_buffer,
          !.length = 0, !.prefixed = FALSE, !.chars_in_state = 0,
          !.needs_python_prefix = need, !.seen_first_char = seen]
    BY <1>o DEF OpenTag
  <2>2. parser.tag_buffer \in Tags /\ need \in BOOLEAN /\ seen \in BOOLEAN
    BY <1>o DEF OpenTag, Tags
  <2>3. 0 \in 0..CommandCap /\ 0 \in 0..StuckLimit /\ "in_command" \in States
    BY Sizes DEF States
  <2> HIDE DEF need, seen
  <2>4. parser' \in Parsers /\ parser'.tag_buffer = parser.tag_buffer
        /\ parser'.length = 0 /\ parser'.prefixed = FALSE
    BY <2>1, <2>2, <2>3 DEF Parsers
  <2> QED  BY <2>4, Sizes DEF Fits, Used
<1>e. ASSUME CloseTag \/ RefuseCommand \/ MismatchedClose
      PROVE  parser' \in Parsers /\ Fits(parser')
  <2>1. Reads("detecting")
    BY <1>e DEF CloseTag, RefuseCommand, MismatchedClose
  <2> DEFINE q == Counted
  <2>2. q \in Parsers /\ q.tag_buffer = parser.tag_buffer
    BY <1>d, <2>1
  <2>3. 0 \in 0..CommandCap /\ "searching" \in States /\ <<>> \in Tags
    BY Sizes DEF States, Tags
  <2>4. \/ parser' = [q EXCEPT !.state = "searching", !.current_tag = <<>>, !.length = 0,
                  !.prefixed = FALSE, !.needs_python_prefix = FALSE,
                  !.seen_first_char = FALSE]
        \/ parser' = [q EXCEPT !.state = "searching", !.length = 0, !.prefixed = FALSE]
    BY <1>e DEF CloseTag, RefuseCommand, MismatchedClose
  <2> HIDE DEF q
  <2>5. parser' \in Parsers /\ parser'.tag_buffer = parser.tag_buffer
        /\ parser'.length = 0 /\ parser'.prefixed = FALSE
    BY <2>2, <2>3, <2>4 DEF Parsers
  <2> QED  BY <2>5, Sizes DEF Fits, Used
<1>n. ASSUME NotACommandTag PROVE parser' \in Parsers /\ Fits(parser')
  <2>1. Reads("detecting")
    BY <1>n DEF NotACommandTag
  <2> DEFINE q == Counted
  <2>2. q \in Parsers /\ q.tag_buffer = parser.tag_buffer
        /\ q.length = parser.length /\ q.prefixed = parser.prefixed
    BY <1>d, <2>1
  <2>3. parser' = [q EXCEPT !.state = "searching"]
    BY <1>n DEF NotACommandTag
  <2> HIDE DEF q
  <2>4. parser' \in Parsers /\ parser'.tag_buffer = parser.tag_buffer
        /\ parser'.length = parser.length /\ parser'.prefixed = parser.prefixed
    BY <2>2, <2>3 DEF Parsers, States
  <2> QED  BY <2>4 DEF Fits, Used
<1>l. ASSUME LeaveCommand PROVE parser' \in Parsers /\ Fits(parser')
  <2>1. Reads("in_command")
    BY <1>l DEF LeaveCommand
  <2> DEFINE q == Counted
  <2>2. q \in Parsers /\ q.length = parser.length /\ q.prefixed = parser.prefixed
    BY <1>d, <2>1
  <2>3. parser' = [q EXCEPT !.state = "detecting", !.tag_buffer = <<>>]
    BY <1>l DEF LeaveCommand
  <2> HIDE DEF q
  <2>4. parser' \in Parsers /\ parser'.tag_buffer = <<>>
        /\ parser'.length = parser.length /\ parser'.prefixed = parser.prefixed
    BY <1>0, <2>2, <2>3 DEF Parsers, States
  <2> QED  BY <1>0, <2>4, Sizes DEF Fits, Used
<1>f. ASSUME SearchFound PROVE parser' \in Parsers /\ Fits(parser')
  <2>1. parser' = [parser EXCEPT !.state = "detecting", !.tag_buffer = <<>>,
                                 !.chars_in_state = 0]
    BY <1>f DEF SearchFound
  <2>2. 0 \in 0..StuckLimit
    BY Sizes
  <2>3. parser' \in Parsers /\ parser'.tag_buffer = <<>>
        /\ parser'.length = parser.length /\ parser'.prefixed = parser.prefixed
    BY <1>0, <2>1, <2>2 DEF Parsers, States
  <2> QED  BY <1>0, <2>3, Sizes DEF Fits, Used
<1>g. ASSUME (\E c \in Bytes : GiveUp(c)) \/ Flash PROVE parser' = Cleared
  BY <1>g DEF GiveUp, Flash
<1>u. ASSUME \/ \E c \in Bytes : Search(c)
             \/ Bypass \/ RuntimeCommand \/ UNCHANGED vars
      PROVE  parser' = parser
  BY <1>u DEF Search, Bypass, RuntimeCommand, vars
<1> QED  BY <1>c, <1>b, <1>o, <1>e, <1>n, <1>l, <1>f, <1>g, <1>u, ClearedType
            DEF Next, Byte

(* Every step keeps what is known of the stream.                           *)
LEMMA RestStep ==
  ASSUME TypeOK, [Next]_vars
  PROVE  /\ stream' \in Streams /\ enabled' \in BOOLEAN /\ forwarded' \in BOOLEAN
         /\ injected' \in Injections
<1>0. /\ parser \in Parsers /\ stream \in Streams /\ enabled \in BOOLEAN
      /\ forwarded \in BOOLEAN /\ injected \in Injections
  BY TypeParts DEF Injections
<1>1. ASSUME \E c \in Bytes : \/ Search(c) \/ CollectName(c) \/ StoreByte(c)
                              \/ GiveUp(c)
             \/ SearchFound \/ LeaveCommand \/ RefuseCommand
             \/ MismatchedClose \/ NotACommandTag
      PROVE  /\ stream' \in Streams /\ forwarded' \in BOOLEAN
             /\ injected' = Nothing /\ enabled' = enabled
  <2>1. /\ injected' = Nothing /\ enabled' = enabled
        /\ \E always \in BOOLEAN : Forwards(always)
        /\ \E c : Skips(c) \/ Stores(c)
    <3>1. CASE \E c \in Bytes : Search(c) \/ GiveUp(c)
      BY <3>1 DEF Search, GiveUp
    <3>2. CASE \E c \in Bytes : CollectName(c)
      BY <3>2 DEF CollectName
    <3>3. CASE \E c \in Bytes : StoreByte(c)
      BY <3>3 DEF StoreByte
    <3>4. CASE SearchFound \/ LeaveCommand \/ RefuseCommand
      BY <3>4 DEF SearchFound, LeaveCommand, RefuseCommand
    <3>5. CASE MismatchedClose \/ NotACommandTag
      BY <3>5 DEF MismatchedClose, NotACommandTag
    <3> QED  BY <1>1, <3>1, <3>2, <3>3, <3>4, <3>5
  <2>2. forwarded' \in BOOLEAN
    BY <2>1 DEF Forwards
  <2>3. stream' \in Streams
    BY <1>0, <2>1, <2>2, StreamStep
  <2> QED  BY <2>1, <2>2, <2>3
<1>2. ASSUME OpenTag
      PROVE  /\ stream' \in Streams /\ forwarded' \in BOOLEAN
             /\ injected' = Nothing /\ enabled' = enabled
  <2>1. /\ forwarded' \in BOOLEAN /\ injected' = Nothing /\ enabled' = enabled
        /\ parser.tag_buffer \in Tags
    BY <1>2 DEF OpenTag, Forwards, Tags
  <2>2. stream' = [stream EXCEPT !.armed = TRUE, !.opened = parser.tag_buffer,
                                 !.skipped = FALSE, !.holed = FALSE,
                                 !.plain = 0]
    BY <1>2 DEF OpenTag
  <2>3. 0 \in 0..StuckLimit + 1
    BY Sizes
  <2> QED  BY <1>0, <2>1, <2>2, <2>3 DEF Streams
<1>3. ASSUME CloseTag
      PROVE  /\ stream' \in Streams /\ forwarded' \in BOOLEAN
             /\ injected' \in Injections /\ enabled' = enabled
  <2>1. forwarded' \in BOOLEAN /\ enabled' = enabled
    BY <1>3 DEF CloseTag, Forwards
  <2>2. stream' = [stream EXCEPT !.armed = FALSE, !.plain = 0]
    BY <1>3 DEF CloseTag
  <2>3. 0 \in 0..StuckLimit + 1
    BY Sizes
  <2>4. stream' \in Streams
    BY <1>0, <2>2, <2>3 DEF Streams
  <2>5. injected' = Nothing
          \/ injected' = [tag |-> parser.current_tag, length |-> parser.length,
                          prefixed |-> parser.prefixed]
    BY <1>3 DEF CloseTag
  <2>6. [tag |-> parser.current_tag, length |-> parser.length,
         prefixed |-> parser.prefixed] \in Injections
    BY <1>0 DEF Parsers, Injections
  <2>7. injected' \in Injections
    BY <2>5, <2>6, NothingType
  <2> QED  BY <2>1, <2>4, <2>7
<1>4. ASSUME RuntimeCommand \/ Flash
      PROVE  /\ UNCHANGED <<stream, forwarded>> /\ injected' = Nothing
             /\ enabled' \in BOOLEAN
  BY <1>4 DEF RuntimeCommand, Flash
<1>5. ASSUME UNCHANGED vars PROVE UNCHANGED <<stream, forwarded, injected, enabled>>
  BY <1>5 DEF vars
<1>6. ASSUME Bypass
      PROVE  /\ UNCHANGED <<stream, enabled>> /\ injected' = Nothing
             /\ forwarded' \in BOOLEAN
  BY <1>6 DEF Bypass, Forwards
<1> QED  BY <1>0, <1>1, <1>2, <1>3, <1>4, <1>5, <1>6, NothingType DEF Next, Byte

(* The cleared parser, an empty stream: the initial state has its types.   *)
LEMMA TypeInit == Init => TypeOK
<1> SUFFICES ASSUME Init PROVE TypeOK
  OBVIOUS
<1>1. parser \in Parsers /\ Fits(parser)
  BY ClearedType DEF Init
<1>2. stream \in Streams
  <2>1. 0 \in 0..StuckLimit + 1
    BY Sizes
  <2> QED  BY <2>1 DEF Init, Streams, Tags
<1>3. injected \in Injections /\ enabled \in BOOLEAN /\ forwarded \in BOOLEAN
  BY NothingType DEF Init
<1> QED  BY <1>1, <1>2, <1>3, TypeParts DEF Injections

(* Every step keeps the types.                                             *)
LEMMA TypeStep == TypeOK /\ [Next]_vars => TypeOK'
<1> SUFFICES ASSUME TypeOK, [Next]_vars PROVE TypeOK'
  OBVIOUS
<1>1. parser' \in Parsers /\ Fits(parser')
  BY TypeParts, ParserStep
<1>2. /\ stream' \in Streams /\ enabled' \in BOOLEAN /\ forwarded' \in BOOLEAN
      /\ injected' \in Injections
  BY RestStep
<1> QED  BY <1>1, <1>2
            DEF TypeOK, ParserType, StreamType, Parsers, Streams, Fits, Used,
                Tags, States, Injections

(* The fields have their types, and neither the name of a tag nor a        *)
(* command, its '>' included, outgrows its buffer.                         *)
THEOREM TypeCorrect == Spec => []TypeOK
<1> QED  BY TypeInit, TypeStep, PTL DEF Spec

-----------------------------------------------------------------------------
(* A command under way stands under the tag last opened, and nothing of it *)
(* is left once it was handed over.                                        *)
Earned ==
  parser.length > 0 \/ parser.prefixed \/ parser.state = "in_command"
    => stream.armed /\ parser.current_tag = stream.opened

(* No command is under way at the start.                                   *)
LEMMA EarnedInit == Init => Earned
<1> QED  BY DEF Init, Earned, Cleared

(* Counting changes nothing else.                                          *)
LEMMA CountedKeeps ==
  ASSUME parser \in Parsers
  PROVE  /\ Counted.state = parser.state /\ Counted.length = parser.length
         /\ Counted.prefixed = parser.prefixed
         /\ Counted.current_tag = parser.current_tag
<1> QED  BY DEF Counted, Parsers

(* Which tag was opened is not changed by a byte skipped or stored.        *)
LEMMA OpenedKept ==
  ASSUME NEW c, Skips(c) \/ Stores(c)
  PROVE  stream'.armed = stream.armed /\ stream'.opened = stream.opened
<1>1. CASE Skips(c)
  BY <1>1 DEF Skips
<1>2. CASE Stores(c)
  BY <1>2 DEF Stores
<1> QED  BY <1>1, <1>2

(* Every step keeps it.                                                    *)
LEMMA EarnedStep == TypeOK /\ Earned /\ [Next]_vars => Earned'
<1> SUFFICES ASSUME TypeOK, Earned, [Next]_vars PROVE Earned'
  OBVIOUS
<1> USE DEF Earned
<1>0. parser \in Parsers /\ Counted.state = parser.state
      /\ Counted.length = parser.length /\ Counted.prefixed = parser.prefixed
      /\ Counted.current_tag = parser.current_tag
  BY TypeParts, CountedKeeps
<1>1. ASSUME NEW c \in Bytes, Search(c) PROVE Earned'
  BY <1>1 DEF Search, Skips
<1>2. ASSUME NEW c \in Bytes, CollectName(c) PROVE Earned'
  <2>1. parser.state = "detecting"
    BY <1>2 DEF CollectName, Reads
  <2>2. /\ parser'.length = parser.length /\ parser'.prefixed = parser.prefixed
        /\ parser'.current_tag = parser.current_tag /\ parser'.state # "in_command"
    <3> DEFINE q == Counted
    <3> HIDE DEF q
    <3>1. CASE parser' = [q EXCEPT !.tag_buffer = Append(@, c)]
      BY <1>0, <2>1, <3>1 DEF q
    <3>2. CASE parser' = [q EXCEPT !.state = "searching"]
      BY <1>0, <3>2 DEF q
    <3> QED  BY <1>2, <3>1, <3>2 DEF CollectName, q
  <2>3. stream'.armed = stream.armed /\ stream'.opened = stream.opened
    BY <1>2, OpenedKept DEF CollectName
  <2> QED  BY <2>2, <2>3
<1>3. ASSUME NEW c \in Bytes, StoreByte(c) PROVE Earned'
  <2>1. parser.state = "in_command" /\ parser'.current_tag = parser.current_tag
    <3> DEFINE q == Counted
    <3>1. \E pre, len, need, seen :
            parser' = [q EXCEPT !.prefixed = pre, !.length = len,
                                !.needs_python_prefix = need, !.seen_first_char = seen]
      BY <1>3 DEF StoreByte
    <3>2. parser.state = "in_command"
      BY <1>3 DEF StoreByte, Reads
    <3>3. q.current_tag = parser.current_tag
      BY <1>0
    <3> HIDE DEF q
    <3> QED  BY <3>1, <3>2, <3>3
  <2>2. stream'.armed = stream.armed /\ stream'.opened = stream.opened
    <3>1. Skips(c) \/ Stores(c)
      BY <1>3 DEF StoreByte
    <3> QED  BY <3>1, OpenedKept
  <2> QED  BY <2>1, <2>2
<1>4. ASSUME NEW c \in Bytes, GiveUp(c) PROVE Earned'
  BY <1>4 DEF GiveUp, Cleared
<1>5. CASE Bypass
  BY <1>5 DEF Bypass
<1>6. CASE SearchFound
  BY <1>6 DEF SearchFound, Skips
<1>7. CASE LeaveCommand
  BY <1>7 DEF LeaveCommand, Skips, Counted, Reads
<1>8. CASE OpenTag
  BY <1>8 DEF OpenTag
<1>9. CASE CloseTag
  BY <1>9 DEF CloseTag, Counted
<1>10. CASE RefuseCommand
  BY <1>10 DEF RefuseCommand, Counted
<1>11. CASE MismatchedClose
  BY <1>11 DEF MismatchedClose, Counted
<1>12. CASE NotACommandTag
  BY <1>12 DEF NotACommandTag, Skips, Counted
<1>13. CASE RuntimeCommand
  BY <1>13 DEF RuntimeCommand
<1>14. CASE Flash
  BY <1>14 DEF Flash, Cleared
<1>15. CASE UNCHANGED vars
  BY <1>15 DEF vars
<1> QED  BY <1>1, <1>2, <1>3, <1>4, <1>5, <1>6, <1>7, <1>8, <1>9, <1>10, <1>11,
            <1>12, <1>13, <1>14, <1>15 DEF Next, Byte

(* InjectionIsEarned, for all sizes and both configurations.               *)
THEOREM EarnedAlways == Spec => InjectionIsEarned
<1>1. TypeOK /\ Earned /\ [Next]_vars
        => [injected' # Nothing => stream.armed /\ injected'.tag = stream.opened]_vars
  <2> SUFFICES ASSUME TypeOK, Earned, [Next]_vars, injected' # Nothing, ~UNCHANGED vars
               PROVE  stream.armed /\ injected'.tag = stream.opened
    OBVIOUS
  <2>1. CloseTag
    BY DEF Next, Byte, Search, CollectName, StoreByte, GiveUp, Bypass, SearchFound,
           LeaveCommand, OpenTag, RefuseCommand, MismatchedClose, NotACommandTag,
           RuntimeCommand, Flash
  <2>2. ~(parser.length = 0 /\ ~parser.prefixed) /\ injected'.tag = parser.current_tag
    BY <2>1 DEF CloseTag
  <2>3. parser.length > 0 \/ parser.prefixed
    <3>1. parser.length \in 0..CommandCap
      BY TypeParts DEF Parsers
    <3> QED  BY <2>2, <3>1, Sizes
  <2> QED  BY <2>2, <2>3 DEF Earned
<1> QED  BY <1>1, EarnedInit, EarnedStep, TypeInit, TypeStep, PTL DEF Spec, InjectionIsEarned

-----------------------------------------------------------------------------
(* In a tag or a command the parser has counted at least the plain bytes   *)
(* that came last; and in a command no byte was left out before the buffer *)
(* was full.                                                               *)
CountsPlain == parser.state # "searching" => stream.plain <= parser.chars_in_state

NoHole ==
  /\ ~stream.holed
  /\ parser.state = "in_command" /\ stream.skipped => Used(parser) = CommandCap
  /\ parser.prefixed => parser.seen_first_char

Steady == CountsPlain /\ NoHole

(* It holds at the start.                                                  *)
LEMMA SteadyInit == Init => Steady
<1> QED  BY DEF Init, Steady, CountsPlain, NoHole, Cleared

(* A counted byte that is skipped or stored adds as much to the parser's   *)
(* count as to the plain bytes.                                            *)
LEMMA PlainCounted ==
  ASSUME TypeOK, CountsPlain, parser.state # "searching",
         Reads("detecting") \/ Reads("in_command"),
         NEW c, Skips(c) \/ Stores(c)
  PROVE  stream'.plain <= Counted.chars_in_state
<1>1. /\ parser \in Parsers /\ stream \in Streams
  BY TypeParts
<1>2. /\ parser.chars_in_state \in 0..StuckLimit /\ parser.chars_in_state < StuckLimit
      /\ stream.plain \in 0..StuckLimit + 1
  BY <1>1 DEF Parsers, Streams, Reads
<1>3. Counted.chars_in_state = parser.chars_in_state + 1
  BY <1>1 DEF Counted, Parsers
<1>4. stream.plain <= parser.chars_in_state
  BY DEF CountsPlain
<1>5. PlainAfter(c) <= stream.plain + 1
  BY <1>2, <1>4, Sizes DEF PlainAfter
<1>7. PlainAfter(c) \in 0..StuckLimit + 1
  BY <1>2, Sizes DEF PlainAfter
<1>6. stream'.plain = PlainAfter(c)
  <2>1. CASE Skips(c)
    BY <1>1, <2>1 DEF Skips, Streams
  <2>2. CASE Stores(c)
    BY <1>1, <2>2 DEF Stores, Streams
  <2> QED  BY <2>1, <2>2
<1> QED  BY <1>2, <1>3, <1>4, <1>5, <1>6, <1>7, Sizes

(* A skipped byte makes no hole.                                           *)
LEMMA SkipKeepsWhole ==
  ASSUME stream \in Streams, ~stream.holed, NEW c, Skips(c)
  PROVE  ~stream'.holed
<1> QED  BY DEF Skips, Streams

(* Storing a byte of the command leaves it whole.                          *)
LEMMA StoreWhole ==
  ASSUME TypeOK, NoHole, NEW c \in Bytes, StoreByte(c)
  PROVE  NoHole'
<1>0. parser \in Parsers /\ stream \in Streams /\ Used(parser) <= CommandCap
  BY TypeParts DEF Fits
<1>1. /\ parser.length \in 0..CommandCap /\ parser.prefixed \in BOOLEAN
      /\ stream.skipped \in BOOLEAN /\ ~stream.holed
      /\ parser.prefixed => parser.seen_first_char
      /\ parser.state = "in_command"
      /\ stream.skipped => Used(parser) = CommandCap
  BY <1>0 DEF Parsers, Streams, NoHole, StoreByte, Reads
<1> DEFINE q == Counted
           first == parser.needs_python_prefix /\ ~parser.seen_first_char /\ c # " "
           used == parser.length + IF parser.prefixed THEN 1 ELSE 0
           prefix == first /\ c # ">" /\ used < CommandCap
           room == used + (IF prefix THEN 1 ELSE 0) < CommandCap
           pre == parser.prefixed \/ prefix
           len == IF room THEN parser.length + 1 ELSE parser.length
           need == parser.needs_python_prefix /\ ~first
           seen == parser.seen_first_char \/ first
<1>2. q \in Parsers /\ q.length = parser.length /\ q.prefixed = parser.prefixed
      /\ q.needs_python_prefix = parser.needs_python_prefix
      /\ q.seen_first_char = parser.seen_first_char
  <2>1. q \in Parsers
    BY <1>0, CountedType DEF StoreByte
  <2> QED  BY <1>0, <2>1 DEF Counted, Parsers
<1>3. parser' = [q EXCEPT !.prefixed = pre, !.length = len,
                          !.needs_python_prefix = need, !.seen_first_char = seen]
  BY <1>2 DEF StoreByte
<1>4. IF room THEN Stores(c) ELSE Skips(c)
  BY DEF StoreByte
<1>5. pre => seen
  BY <1>1
<1>6. prefix => ~parser.prefixed
  BY <1>1
<1>7. used = Used(parser)
  BY DEF Used
<1>8. parser'.prefixed = pre /\ parser'.length = len /\ parser'.seen_first_char = seen
  <2> HIDE DEF q, pre, len, need, seen
  <2> QED  BY <1>2, <1>3 DEF Parsers
<1>9. CASE room
  <2>1. ~stream.skipped
    <3>0. used \in Int
      BY <1>1
    <3>1. used < CommandCap
      <4>1. used + (IF prefix THEN 1 ELSE 0) < CommandCap
        BY <1>9
      <4> HIDE DEF used, prefix
      <4> QED  BY <3>0, <4>1, Sizes
    <3> HIDE DEF used
    <3> QED  BY <1>1, <1>7, <3>1, Sizes
  <2>2. Stores(c)
    BY <1>4, <1>9
  <2>3. ~stream'.holed /\ ~stream'.skipped
    BY <1>0, <1>1, <2>1, <2>2 DEF Stores, Streams
  <2> HIDE DEF q, pre, len, seen
  <2> QED  BY <1>5, <1>8, <2>3 DEF NoHole
<1>10. CASE ~room
  <2>1. Skips(c)
    BY <1>4, <1>10
  <2>2. ~stream'.holed
    BY <1>0, <1>1, <2>1, SkipKeepsWhole
  <2>3. len = parser.length
    BY <1>10
  <2>4. parser.length + (IF pre THEN 1 ELSE 0) = CommandCap
    <3>1. /\ prefix => used < CommandCap
          /\ room <=> used + (IF prefix THEN 1 ELSE 0) < CommandCap
          /\ prefix \in BOOLEAN
          /\ pre = (parser.prefixed \/ prefix)
      OBVIOUS
    <3>2. used <= CommandCap
      BY <1>0, <1>7
    <3> DEFINE m == parser.length
               b == parser.prefixed
    <3>3. m \in 0..CommandCap /\ b \in BOOLEAN /\ used = m + IF b THEN 1 ELSE 0
      BY <1>1
    <3>4. ~room /\ pre = (b \/ prefix) /\ (prefix => ~b)
      BY <1>6, <1>10, <3>1
    <3> HIDE DEF first, used, prefix, room, pre, len, m, b
    <3>5. m + (IF pre THEN 1 ELSE 0) = CommandCap
      <4>1. CASE b
        <5>1. ~prefix /\ pre
          BY <3>4, <4>1
        <5>2. used = m + 1 /\ ~(used + 0 < CommandCap)
          BY <3>1, <3>3, <3>4, <4>1, <5>1
        <5> QED  BY <3>2, <3>3, <5>1, <5>2, Sizes
      <4>2. CASE ~b
        BY <3>1, <3>2, <3>3, <3>4, <4>2, Sizes
      <4> QED  BY <4>1, <4>2
    <3> QED  BY <3>5 DEF m
  <2> HIDE DEF q, pre, len, seen
  <2>5. Used(parser') = CommandCap
    BY <1>8, <2>3, <2>4 DEF Used
  <2> QED  BY <1>5, <1>8, <2>2, <2>5 DEF NoHole
<1> QED  BY <1>9, <1>10

(* Every step keeps it.                                                    *)
LEMMA SteadyStep ==
  ASSUME TypeOK, Steady, [Next]_vars
  PROVE  Steady'
<1> USE DEF Steady
<1>0. parser \in Parsers /\ stream \in Streams
  BY TypeParts
<1>k. /\ Counted.state = parser.state /\ Counted.length = parser.length
      /\ Counted.prefixed = parser.prefixed
      /\ Counted.seen_first_char = parser.seen_first_char
  BY <1>0 DEF Counted, Parsers
<1>h. ~stream.holed /\ (parser.prefixed => parser.seen_first_char)
  BY DEF NoHole
<1>i. ASSUME parser'.state = "searching", ~stream'.holed,
             parser'.prefixed => parser'.seen_first_char
      PROVE  Steady'
  BY <1>i DEF CountsPlain, NoHole
<1>1. ASSUME NEW c \in Bytes, Search(c) PROVE Steady'
  <2>1. parser' = parser /\ Skips(c)
    BY <1>1 DEF Search
  <2>2. parser.state = "searching"
    BY <1>1 DEF Search, Reads
  <2>3. ~stream'.holed
    BY <1>0, <1>h, <2>1, SkipKeepsWhole
  <2> QED  BY <1>h, <1>i, <2>1, <2>2, <2>3
<1>2. ASSUME NEW c \in Bytes, CollectName(c) PROVE Steady'
  <2>1. /\ Reads("detecting") /\ parser.state = "detecting" /\ Skips(c)
        /\ enabled /\ enabled' = enabled
    BY <1>2 DEF CollectName, Reads
  <2>2. ~stream'.holed
    BY <1>0, <1>h, <2>1, SkipKeepsWhole
  <2>3. stream'.plain <= Counted.chars_in_state
    BY <2>1, PlainCounted
  <2> DEFINE q == Counted
  <2>4. q \in Parsers /\ q.state = "detecting"
    BY <1>0, <1>k, <2>1, CountedType
  <2>5. parser'.prefixed = q.prefixed /\ parser'.seen_first_char = q.seen_first_char
        /\ parser'.chars_in_state = q.chars_in_state /\ parser'.state # "in_command"
    <3> HIDE DEF q
    <3>1. CASE parser' = [q EXCEPT !.tag_buffer = Append(@, c)]
      BY <2>4, <3>1 DEF Parsers
    <3>2. CASE parser' = [q EXCEPT !.state = "searching"]
      BY <2>4, <3>2 DEF Parsers
    <3> QED  BY <1>2, <3>1, <3>2 DEF CollectName, q
  <2>6. parser'.prefixed => parser'.seen_first_char
    BY <1>h, <1>k, <2>5
  <2> HIDE DEF q
  <2> QED  BY <2>1, <2>2, <2>3, <2>5, <2>6 DEF CountsPlain, NoHole, q
<1>3. ASSUME NEW c \in Bytes, StoreByte(c) PROVE Steady'
  <2>1. /\ Reads("in_command") /\ parser.state = "in_command"
        /\ enabled /\ enabled' = enabled /\ (Skips(c) \/ Stores(c))
    BY <1>3 DEF StoreByte, Reads
  <2>2. NoHole'
    BY <1>3, StoreWhole
  <2>3. stream'.plain <= Counted.chars_in_state
    BY <2>1, PlainCounted
  <2> DEFINE q == Counted
  <2>4. q \in Parsers
    BY <1>0, <2>1, CountedType
  <2>5. \E pre, len, need, seen :
          parser' = [q EXCEPT !.prefixed = pre, !.length = len,
                              !.needs_python_prefix = need, !.seen_first_char = seen]
    BY <1>3 DEF StoreByte
  <2>6. parser'.chars_in_state = q.chars_in_state
    <3> HIDE DEF q
    <3> QED  BY <2>4, <2>5 DEF Parsers
  <2> QED  BY <2>1, <2>2, <2>3, <2>6 DEF CountsPlain
<1>4. ASSUME NEW c \in Bytes, GiveUp(c) PROVE Steady'
  <2>1. parser' = Cleared /\ Skips(c)
    BY <1>4 DEF GiveUp
  <2>2. ~stream'.holed
    BY <1>0, <1>h, <2>1, SkipKeepsWhole
  <2> QED  BY <1>i, <2>1, <2>2 DEF Cleared
<1>5. CASE SearchFound
  <2>1. /\ parser' = [parser EXCEPT !.state = "detecting", !.tag_buffer = <<>>,
                                    !.chars_in_state = 0]
        /\ Skips("<") /\ enabled /\ enabled' = enabled
    BY <1>5 DEF SearchFound, Reads
  <2>2. ~stream'.holed
    BY <1>0, <1>h, <2>1, SkipKeepsWhole
  <2>3. stream'.plain = 0
    BY <1>0, <2>1 DEF Skips, Streams, PlainAfter
  <2>4. /\ parser'.state = "detecting" /\ parser'.chars_in_state = 0
        /\ parser'.prefixed = parser.prefixed
        /\ parser'.seen_first_char = parser.seen_first_char
    BY <1>0, <2>1 DEF Parsers
  <2> QED  BY <1>h, <2>1, <2>2, <2>3, <2>4 DEF CountsPlain, NoHole
<1>6. CASE LeaveCommand
  <2> DEFINE q == Counted
  <2>1. /\ parser' = [q EXCEPT !.state = "detecting", !.tag_buffer = <<>>]
        /\ Skips("<") /\ enabled /\ enabled' = enabled /\ Reads("in_command")
        /\ parser.state = "in_command"
    BY <1>6 DEF LeaveCommand, Reads
  <2>2. ~stream'.holed
    BY <1>0, <1>h, <2>1, SkipKeepsWhole
  <2>3. stream'.plain <= Counted.chars_in_state
    BY <2>1, PlainCounted
  <2>4. q \in Parsers
    BY <1>0, <2>1, CountedType
  <2>5. /\ parser'.state = "detecting" /\ parser'.chars_in_state = q.chars_in_state
        /\ parser'.prefixed = q.prefixed
        /\ parser'.seen_first_char = q.seen_first_char
    <3> HIDE DEF q
    <3> QED  BY <2>1, <2>4 DEF Parsers
  <2> QED  BY <1>h, <1>k, <2>1, <2>2, <2>3, <2>5 DEF CountsPlain, NoHole
<1>7. CASE OpenTag
  <2> DEFINE need == parser.needs_python_prefix \/ parser.tag_buffer = <<"p">>
             seen == parser.seen_first_char /\ parser.tag_buffer # <<"p">>
  <2>1. /\ parser' = [parser EXCEPT
             !.state = "in_command", !.current_tag = parser.tag_buffer,
             !.length = 0, !.prefixed = FALSE, !.chars_in_state = 0,
             !.needs_python_prefix = need, !.seen_first_char = seen]
        /\ stream' = [stream EXCEPT !.armed = TRUE, !.opened = parser.tag_buffer,
                                    !.skipped = FALSE, !.holed = FALSE,
                                 !.plain = 0]
        /\ enabled /\ enabled' = enabled
    BY <1>7 DEF OpenTag, Reads
  <2> HIDE DEF need, seen
  <2>2. parser'.chars_in_state = 0 /\ parser'.prefixed = FALSE
    BY <1>0, <2>1 DEF Parsers
  <2>3. stream'.plain = 0 /\ ~stream'.skipped /\ ~stream'.holed
    BY <1>0, <2>1 DEF Streams
  <2> QED  BY <2>1, <2>2, <2>3 DEF CountsPlain, NoHole
<1>8. ASSUME CloseTag \/ RefuseCommand \/ MismatchedClose PROVE Steady'
  <2> DEFINE q == Counted
  <2>1. \/ parser' = [q EXCEPT !.state = "searching", !.current_tag = <<>>, !.length = 0,
                  !.prefixed = FALSE, !.needs_python_prefix = FALSE,
                  !.seen_first_char = FALSE]
        \/ parser' = [q EXCEPT !.state = "searching", !.length = 0, !.prefixed = FALSE]
    BY <1>8 DEF CloseTag, RefuseCommand, MismatchedClose
  <2>2. q \in Parsers
    BY <1>0, <1>8, CountedType DEF CloseTag, RefuseCommand, MismatchedClose
  <2>3. parser'.state = "searching" /\ parser'.prefixed = FALSE
    <3> HIDE DEF q
    <3> QED  BY <2>1, <2>2 DEF Parsers
  <2>4. ~stream'.holed
    <3>1. CASE CloseTag
      BY <1>0, <1>h, <3>1 DEF CloseTag, Streams
    <3>2. CASE Skips(">")
      BY <1>0, <1>h, <3>2, SkipKeepsWhole
    <3> QED  BY <1>8, <3>1, <3>2 DEF RefuseCommand, MismatchedClose
  <2> QED  BY <1>i, <2>3, <2>4
<1>9. CASE NotACommandTag
  <2> DEFINE q == Counted
  <2>1. /\ parser' = [q EXCEPT !.state = "searching"]
        /\ Skips(">") /\ Reads("detecting")
    BY <1>9 DEF NotACommandTag
  <2>2. q \in Parsers
    BY <1>0, <2>1, CountedType
  <2>3. /\ parser'.state = "searching" /\ parser'.prefixed = q.prefixed
        /\ parser'.seen_first_char = q.seen_first_char
    <3> HIDE DEF q
    <3> QED  BY <2>1, <2>2 DEF Parsers
  <2>4. ~stream'.holed
    BY <1>0, <1>h, <2>1, SkipKeepsWhole
  <2> QED  BY <1>h, <1>i, <1>k, <2>3, <2>4
<1>10. CASE RuntimeCommand \/ Bypass
  BY <1>10 DEF RuntimeCommand, Bypass, CountsPlain, NoHole, Used
<1>11. CASE Flash
  BY <1>h, <1>i, <1>11 DEF Flash, Cleared
<1>12. CASE UNCHANGED vars
  BY <1>12 DEF vars, CountsPlain, NoHole, Used
<1> QED  BY <1>1, <1>2, <1>3, <1>4, <1>5, <1>6, <1>7, <1>8, <1>9, <1>10, <1>11,
            <1>12 DEF Next, Byte

(* Recovers, for all sizes: more plain bytes in a row than the limit end   *)
(* in plain text.                                                          *)
THEOREM RecoversAlways == Spec => []Recovers
<1>1. TypeOK /\ Steady => Recovers
  <2> SUFFICES ASSUME TypeOK, Steady, stream.plain > StuckLimit,
                      parser.state # "searching"
               PROVE  FALSE
    BY DEF Recovers
  <2>1. parser.chars_in_state \in 0..StuckLimit /\ stream.plain \in 0..StuckLimit + 1
    BY TypeParts DEF Parsers, Streams
  <2> QED  BY <2>1, Sizes DEF Steady, CountsPlain
<1>2. TypeOK /\ Steady /\ [Next]_vars => Steady'
  BY SteadyStep
<1> QED  BY <1>1, <1>2, SteadyInit, TypeInit, TypeStep, PTL DEF Spec

(* InjectionHasNoHole, for all sizes: the parser never splices a command   *)
(* from bytes that did not reach it one after the other.                   *)
THEOREM NoHoleAlways == Spec => InjectionHasNoHole
<1>1. TypeOK /\ Steady /\ [Next]_vars => Steady'
  BY SteadyStep
<1>2. Steady => [injected' # Nothing => ~stream.holed]_vars
  BY DEF Steady, NoHole
<1> QED  BY <1>1, <1>2, SteadyInit, TypeInit, TypeStep, PTL
            DEF Spec, InjectionHasNoHole
=============================================================================
