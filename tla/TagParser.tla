------------------------------ MODULE TagParser ------------------------------
(***************************************************************************)
(* The tag parser of AsyncPassthrough: it watches the bytes that pass      *)
(* between the UART and USB and injects what stands between <j> and </j>,  *)
(* or <p> and </p>, into the command queue.  Each direction has a parser   *)
(* of its own; this module is one of them (process_command_tag_byte).      *)
(*                                                                         *)
(* Of the command under way only its length counts, and whether the parser *)
(* put a '>' in front of it.  The rest of the module's state says how the  *)
(* bytes read so far relate to that command.                               *)
(***************************************************************************)
EXTENDS Integers, Sequences

CONSTANTS
  TagCap,         (* characters tag_buffer holds, less the terminator      *)
  CommandCap,     (* characters command_buffer holds, less the terminator  *)
  StuckLimit,     (* bytes after which a tag or command is given up        *)
  StripTags       (* configuration: tag_parsing is 2 and not 1             *)

ASSUME TagParserAssumption ==
  /\ TagCap \in Nat \ {0, 1}
  /\ CommandCap \in Nat \ {0}
  /\ StuckLimit \in Nat \ {0}
  /\ StripTags \in BOOLEAN

VARIABLES
  parser,    (* the TagParserState                                         *)
  enabled,   (* asyncPassthroughTagParsingEnabled                          *)
  injected,  (* what the last byte gave the command queue                  *)
  forwarded, (* whether the last byte was passed on                        *)
  stream     (* about the bytes the parser was given, see StreamType       *)

vars == <<parser, enabled, injected, forwarded, stream>>

(* "x" stands for every byte the parser does not look for; the long names  *)
(* of the j tag behave as j does.                                          *)
Bytes       == {"<", ">", "/", "j", "p", "x", " "}
CommandTags == {<<"j">>, <<"p">>}
Nothing     == [tag |-> <<>>, length |-> 0, prefixed |-> FALSE]

(* clearTagParserState                                                     *)
Cleared ==
  [state |-> "searching", tag_buffer |-> <<>>, current_tag |-> <<>>,
   length |-> 0, prefixed |-> FALSE, needs_python_prefix |-> FALSE,
   seen_first_char |-> FALSE, chars_in_state |-> 0]

Init ==
  /\ parser = Cleared
  /\ enabled = TRUE
  /\ injected = Nothing
  /\ forwarded = TRUE
  /\ stream = [armed |-> FALSE, opened |-> <<>>, skipped |-> FALSE,
               holed |-> FALSE, plain |-> 0]

-----------------------------------------------------------------------------
(* A byte reaches the parser, which is in state st and not stuck; the      *)
(* parser counts the bytes of a tag or command.                            *)
Reads(st) ==
  /\ enabled
  /\ parser.state = st
  /\ st # "searching" => parser.chars_in_state < StuckLimit

(* Mutant: only the bytes of a name are counted, not those of a command.   *)
CountedNames ==
  [parser EXCEPT !.chars_in_state =
     IF parser.state = "detecting" THEN @ + 1 ELSE @]

Counted ==
  [parser EXCEPT !.chars_in_state =
     IF parser.state = "searching" THEN @ ELSE @ + 1]

(* What becomes of the byte: passed on, or, with StripTags, taken out.     *)
Forwards(always) == forwarded' = (always \/ ~StripTags)

(* Byte c was read and not stored in the command; or it was.               *)
PlainAfter(c) ==
  IF c # "x" THEN 0
  ELSE IF stream.plain > StuckLimit THEN stream.plain ELSE stream.plain + 1

Skips(c) ==
  stream' = [stream EXCEPT !.skipped = TRUE, !.plain = PlainAfter(c)]

Stores(c) ==
  stream' = [stream EXCEPT !.holed = @ \/ stream.skipped,
                           !.plain = PlainAfter(c)]

(* In plain text a '<' may start a tag.                                    *)
Search(c) ==
  /\ Reads("searching")
  /\ c # "<"
  /\ Forwards(TRUE)
  /\ Skips(c)
  /\ injected' = Nothing
  /\ UNCHANGED <<parser, enabled>>

SearchFound ==
  /\ Reads("searching")
  /\ parser' = [parser EXCEPT !.state = "detecting", !.tag_buffer = <<>>,
                              !.chars_in_state = 0]
  /\ Forwards(FALSE)
  /\ Skips("<")
  /\ injected' = Nothing
  /\ UNCHANGED enabled

(* The name of a tag is collected up to the buffer's size; a longer one is *)
(* plain text.                                                             *)
CollectName(c) ==
  /\ Reads("detecting")
  /\ c # ">"
  /\ \/ /\ Len(parser.tag_buffer) < TagCap
        /\ parser' = [Counted EXCEPT !.tag_buffer = Append(@, c)]
        /\ Forwards(FALSE)
     \/ /\ Len(parser.tag_buffer) = TagCap
        /\ parser' = [Counted EXCEPT !.state = "searching"]
        /\ Forwards(TRUE)
  /\ Skips(c)
  /\ injected' = Nothing
  /\ UNCHANGED enabled

(* An opening tag starts a new command, whatever was under way.            *)
OpenTag ==
  /\ Reads("detecting")
  /\ parser.tag_buffer \in CommandTags
  /\ parser' =
       [parser EXCEPT
          !.state = "in_command", !.current_tag = parser.tag_buffer,
          !.length = 0, !.prefixed = FALSE, !.chars_in_state = 0,
          !.needs_python_prefix = @ \/ parser.tag_buffer = <<"p">>,
          !.seen_first_char = @ /\ parser.tag_buffer # <<"p">>]
  /\ Forwards(FALSE)
  /\ stream' = [stream EXCEPT !.armed = TRUE, !.opened = parser.tag_buffer,
                              !.skipped = FALSE, !.holed = FALSE,
                              !.plain = 0]
  /\ injected' = Nothing
  /\ UNCHANGED enabled

IsClosing == parser.tag_buffer # <<>> /\ Head(parser.tag_buffer) = "/"
IsMatching == IsClosing /\ Tail(parser.tag_buffer) = parser.current_tag

(* Mutant: the command is handed over but not forgotten.                   *)
CloseTagKeeping ==
  /\ Reads("detecting")
  /\ IsMatching
  /\ injected' = IF parser.length = 0 /\ ~parser.prefixed THEN Nothing
                 ELSE [tag |-> parser.current_tag, length |-> parser.length,
                       prefixed |-> parser.prefixed]
  /\ parser' = [Counted EXCEPT
                  !.state = "searching", !.current_tag = <<>>,
                  !.needs_python_prefix = FALSE, !.seen_first_char = FALSE]
  /\ Forwards(FALSE)
  /\ stream' = [stream EXCEPT !.armed = FALSE, !.plain = 0]
  /\ UNCHANGED enabled

(* The matching closing tag hands the command to the queue, which takes    *)
(* it; an empty command is dropped.                                        *)
CloseTag ==
  /\ Reads("detecting")
  /\ IsMatching
  /\ injected' = IF parser.length = 0 /\ ~parser.prefixed THEN Nothing
                 ELSE [tag |-> parser.current_tag, length |-> parser.length,
                       prefixed |-> parser.prefixed]
  /\ parser' = [Counted EXCEPT
                  !.state = "searching", !.current_tag = <<>>, !.length = 0,
                  !.prefixed = FALSE, !.needs_python_prefix = FALSE,
                  !.seen_first_char = FALSE]
  /\ Forwards(FALSE)
  /\ stream' = [stream EXCEPT !.armed = FALSE, !.plain = 0]
  /\ UNCHANGED enabled

(* During startup, in the cooldown after flashing, while the file system   *)
(* is busy or when the queue is full the command is lost; the tag and the  *)
(* prefix flags stay.                                                      *)
RefuseCommand ==
  /\ Reads("detecting")
  /\ IsMatching
  /\ parser.length > 0 \/ parser.prefixed
  /\ parser' = [Counted EXCEPT !.state = "searching", !.length = 0,
                               !.prefixed = FALSE]
  /\ Forwards(FALSE)
  /\ Skips(">")
  /\ injected' = Nothing
  /\ UNCHANGED enabled

MismatchedClose ==
  /\ Reads("detecting")
  /\ IsClosing /\ ~IsMatching
  /\ parser' = [Counted EXCEPT !.state = "searching", !.length = 0,
                               !.prefixed = FALSE]
  /\ Forwards(FALSE)
  /\ Skips(">")
  /\ injected' = Nothing
  /\ UNCHANGED enabled

(* Mutant: after a tag in the middle the parser goes back to the command.  *)
NotACommandTagResuming ==
  /\ Reads("detecting")
  /\ ~IsClosing /\ parser.tag_buffer \notin CommandTags
  /\ parser' = [Counted EXCEPT !.state = IF parser.current_tag = <<>>
                                           THEN "searching" ELSE "in_command"]
  /\ Forwards(TRUE)
  /\ Skips(">")
  /\ injected' = Nothing
  /\ UNCHANGED enabled

(* Any other tag is plain text; the command under way, if any, is kept.    *)
NotACommandTag ==
  /\ Reads("detecting")
  /\ ~IsClosing /\ parser.tag_buffer \notin CommandTags
  /\ parser' = [Counted EXCEPT !.state = "searching"]
  /\ Forwards(TRUE)
  /\ Skips(">")
  /\ injected' = Nothing
  /\ UNCHANGED enabled

(* Mutant: the inserted '>' is not counted against the buffer.             *)
StoreByteOver(c) ==
  /\ Reads("in_command")
  /\ c # "<"
  /\ LET first == parser.needs_python_prefix /\ ~parser.seen_first_char
                    /\ c # " "
         room  == parser.length < CommandCap
     IN /\ parser' = [Counted EXCEPT
                        !.prefixed = @ \/ (first /\ c # ">"),
                        !.length = IF room THEN @ + 1 ELSE @,
                        !.needs_python_prefix = @ /\ ~first,
                        !.seen_first_char = @ \/ first]
        /\ Forwards(FALSE)
        /\ IF room THEN Stores(c) ELSE Skips(c)
  /\ injected' = Nothing
  /\ UNCHANGED enabled

(* The bytes of the command are stored while there is room; a Python       *)
(* command gets its '>' before the first byte that is not white space.     *)
StoreByte(c) ==
  /\ Reads("in_command")
  /\ c # "<"
  /\ LET first == parser.needs_python_prefix /\ ~parser.seen_first_char
                    /\ c # " "
         used   == parser.length + IF parser.prefixed THEN 1 ELSE 0
         prefix == first /\ c # ">" /\ used < CommandCap
         room   == used + (IF prefix THEN 1 ELSE 0) < CommandCap
     IN /\ parser' = [Counted EXCEPT
                        !.prefixed = @ \/ prefix,
                        !.length = IF room THEN @ + 1 ELSE @,
                        !.needs_python_prefix = @ /\ ~first,
                        !.seen_first_char = @ \/ first]
        /\ Forwards(FALSE)
        /\ IF room THEN Stores(c) ELSE Skips(c)
  /\ injected' = Nothing
  /\ UNCHANGED enabled

(* A '<' in a command may start its closing tag.                           *)
LeaveCommand ==
  /\ Reads("in_command")
  /\ parser' = [Counted EXCEPT !.state = "detecting", !.tag_buffer = <<>>]
  /\ Forwards(FALSE)
  /\ Skips("<")
  /\ injected' = Nothing
  /\ UNCHANGED enabled

(* A tag or command longer than StuckLimit is given up.                    *)
GiveUp(c) ==
  /\ enabled
  /\ parser.state # "searching" /\ parser.chars_in_state >= StuckLimit
  /\ parser' = Cleared
  /\ Forwards(TRUE)
  /\ Skips(c)
  /\ injected' = Nothing
  /\ UNCHANGED enabled

(* While parsing is off every byte passes by the parser.                   *)
Bypass ==
  /\ ~enabled
  /\ Forwards(TRUE)
  /\ injected' = Nothing
  /\ UNCHANGED <<parser, enabled, stream>>

(* "tag parsing = on" and "= off" in the stream leave the parser as it is. *)
RuntimeCommand ==
  /\ enabled' = ~enabled
  /\ injected' = Nothing
  /\ UNCHANGED <<parser, forwarded, stream>>

(* Flashing switches parsing off and, once it is over, on again; either    *)
(* clears the parser.                                                      *)
Flash ==
  /\ enabled' \in BOOLEAN
  /\ parser' = Cleared
  /\ injected' = Nothing
  /\ UNCHANGED <<forwarded, stream>>

Byte(c) ==
  \/ Search(c) \/ CollectName(c) \/ StoreByte(c) \/ GiveUp(c)
  \/ c = "<" /\ SearchFound
  \/ c = "<" /\ LeaveCommand
  \/ c = ">" /\ OpenTag
  \/ c = ">" /\ CloseTag
  \/ c = ">" /\ RefuseCommand
  \/ c = ">" /\ MismatchedClose
  \/ c = ">" /\ NotACommandTag

Next == (\E c \in Bytes : Byte(c)) \/ Bypass \/ RuntimeCommand \/ Flash

Spec == Init /\ [][Next]_vars

-----------------------------------------------------------------------------
ParserType ==
  parser \in [state : {"searching", "detecting", "in_command"},
              tag_buffer : Seq(Bytes), current_tag : CommandTags \cup {<<>>},
              length : 0..CommandCap, prefixed : BOOLEAN,
              needs_python_prefix : BOOLEAN, seen_first_char : BOOLEAN,
              chars_in_state : 0..StuckLimit]

(* About the bytes the parser was given: whether a tag was opened since    *)
(* the last command was injected, and which; whether a byte since then is  *)
(* not in the command, and whether such a one precedes one that is; and    *)
(* how many plain ones came last.                                          *)
StreamType ==
  stream \in [armed : BOOLEAN, opened : CommandTags \cup {<<>>},
              skipped : BOOLEAN, holed : BOOLEAN, plain : 0..StuckLimit + 1]

TypeOK ==
  /\ ParserType /\ Len(parser.tag_buffer) <= TagCap
  /\ parser.length + (IF parser.prefixed THEN 1 ELSE 0) <= CommandCap
  /\ StreamType
  /\ enabled \in BOOLEAN /\ forwarded \in BOOLEAN
  /\ injected \in [tag : CommandTags \cup {<<>>}, length : 0..CommandCap,
                   prefixed : BOOLEAN]

(* Nothing is injected twice and nothing under another tag's name: between *)
(* two injections a tag was opened, and the command is the last one's,     *)
(* whatever tags, refusals and switches of the parser came in between.     *)
InjectionIsEarned ==
  [][injected' # Nothing => stream.armed /\ injected'.tag = stream.opened]_vars

(* A command that is injected holds the bytes the parser was given after   *)
(* its opening tag, from the first one on without a hole: it may be cut    *)
(* short, never spliced around a tag or a refusal.                         *)
InjectionHasNoHole == [][injected' # Nothing => ~stream.holed]_vars

(* After a tag whose end was lost the parser is back in plain text at the  *)
(* latest StuckLimit plain bytes later.                                    *)
Recovers == stream.plain > StuckLimit => parser.state = "searching"
=============================================================================
