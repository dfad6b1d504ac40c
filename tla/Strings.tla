------------------------------ MODULE Strings ------------------------------
(***************************************************************************)
(* The functions of core/base/string_util that scan a text once.  A text   *)
(* is a sequence of characters, or of bytes where UTF-8 is cut, and        *)
(* positions are counted from 1.                                           *)
(***************************************************************************)
EXTENDS Naturals, Sequences, SequencesExt, FiniteSetsExt

Backslash == "\\"

\* The letter that stands for a character behind a backslash.
EscapeLetters ==
  [c \in {"LF", "CR", "TAB", Backslash} |->
     CASE c = "LF" -> "n" [] c = "CR" -> "r" [] c = "TAB" -> "t"
       [] OTHER -> Backslash]

EncodeEscape(input) ==
  FlattenSeq([i \in DOMAIN input |->
                IF input[i] \in DOMAIN EscapeLetters
                THEN <<Backslash, EscapeLetters[input[i]]>> ELSE <<input[i]>>])

\* A wrong version: the letter of an escape is looked at again.
DecodeEscape_RereadsLetter(input) ==
  LET Meant(i) == {c \in DOMAIN EscapeLetters :
                     /\ input[i] = Backslash /\ i < Len(input)
                     /\ EscapeLetters[c] = input[i + 1]}
      from[i \in 1 .. Len(input) + 1] ==
        IF i > Len(input) THEN << >>
        ELSE IF Meant(i) = {} THEN <<input[i]>> \o from[i + 1]
        ELSE SetToSeq(Meant(i)) \o from[i + 1]
  IN  from[1]

\* A backslash that begins no escape, the last character for one, is kept.
DecodeEscape(input) ==
  LET Meant(i) == {c \in DOMAIN EscapeLetters :
                     /\ input[i] = Backslash /\ i < Len(input)
                     /\ EscapeLetters[c] = input[i + 1]}
      from[i \in 1 .. Len(input) + 1] ==
        IF i > Len(input) THEN << >>
        ELSE IF Meant(i) = {} THEN <<input[i]>> \o from[i + 1]
        ELSE SetToSeq(Meant(i)) \o from[i + 2]
  IN  from[1]

----------------------------------------------------------------------------

Found(input, part) ==
  {i \in 1 .. Len(input) - Len(part) + 1 :
     SubSeq(input, i, i + Len(part) - 1) = part}

\* Without a delimiter each character is a token; behind a delimiter that ends
\* the text there is none.
SplitString(input, delimiter) ==
  LET from[pos \in 1 .. Len(input) + 1] ==
        LET next == {i \in Found(input, delimiter) : i >= pos}
        IN  IF pos > Len(input) THEN << >>
            ELSE IF next = {} THEN <<SubSeq(input, pos, Len(input))>>
            ELSE <<SubSeq(input, pos, Min(next) - 1)>>
                   \o from[Min(next) + Len(delimiter)]
  IN  IF delimiter = << >> THEN [i \in DOMAIN input |-> <<input[i]>>]
      ELSE from[1]

----------------------------------------------------------------------------

\* utf8_char_length(): a byte that begins no character counts as one.
Utf8CharLength(lead) ==
  CASE lead \in 192 .. 223 -> 2
    [] lead \in 224 .. 239 -> 3
    [] lead \in 240 .. 247 -> 4
    [] OTHER -> 1

\* A character that the end of the text cuts is left out.
Utf8Truncate(input, max_chars) ==
  LET index[chars \in 0 .. max_chars] ==
        IF chars = 0 THEN 0
        ELSE LET i == index[chars - 1]
             IN  IF i = Len(input) \/ i + Utf8CharLength(input[i + 1]) > Len(input)
                 THEN i ELSE i + Utf8CharLength(input[i + 1])
  IN  SubSeq(input, 1, index[max_chars])

----------------------------------------------------------------------------

Closing ==
  [c \in {"(", "{", "[", "<"} |->
     CASE c = "(" -> ")" [] c = "{" -> "}" [] c = "[" -> "]" [] OTHER -> ">"]

IsBracket(c) == c \in DOMAIN Closing \/ \E o \in DOMAIN Closing : Closing[o] = c

\* One character of remove_bracket().  The stack has the openings of the first
\* max_nest_size levels; deeper ones are only counted.  It has room for half as
\* many as the text has characters, and one more is stored behind its end: what
\* comes of that is undefined.
Scanned(state, c, room, max_nest_size) ==
  LET pushes == state.depth < max_nest_size
      counted == state.depth > max_nest_size
  IN  IF c \in DOMAIN Closing
      THEN [state EXCEPT
              !.depth = @ + 1,
              !.stack = IF pushes THEN Append(@, c) ELSE @,
              !.defined = @ /\ (pushes => state.depth < room)]
      ELSE IF ~ IsBracket(c)
      THEN IF state.depth = 0 THEN [state EXCEPT !.output = Append(@, c)] ELSE state
      ELSE IF counted THEN [state EXCEPT !.depth = @ - 1]
      ELSE IF state.depth > 0 /\ Closing[Last(state.stack)] = c
      THEN [state EXCEPT !.depth = @ - 1, !.stack = Front(@)]
      ELSE state

RemoveBracket(input, max_nest_size) ==
  LET room == Min({Len(input) \div 2, max_nest_size})
  IN  FoldLeft(LAMBDA state, c : Scanned(state, c, room, max_nest_size),
               [output |-> << >>, depth |-> 0, stack |-> << >>, defined |-> TRUE],
               input)
============================================================================
