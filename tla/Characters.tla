----------------------------- MODULE Characters -----------------------------
(***************************************************************************)
(* The code points that the lexer tells apart, and the predicates of       *)
(* unicode_util.h and core/base/string_util.h on them.  A code point is an *)
(* atom: ASCII characters carry their own name, the others theirs:         *)
(*   "U+00E9"  a letter                                                    *)
(*   "U+0122"  a letter whose low byte is that of a quotation mark         *)
(*   "U+0140"  a letter whose low byte is that of the at sign              *)
(*   "U+0130"  a letter whose low byte is that of the digit 0              *)
(*   "U+0663"  a decimal digit whose low byte is that of the letter c      *)
(*   "U+00A0"  a space        "U+2028"  a line separator                   *)
(*   "U+00BF"  a character no token starts with                            *)
(*   "ctl"     a control character, "nul" the code point zero              *)
(* The predicates of string_util.h take a char: a code point they are      *)
(* given is cut to its low byte first (Narrow).                            *)
(***************************************************************************)
LowByte ==
  [c \in {"U+0122", "U+0140", "U+0130", "U+0663"} |->
     CASE c = "U+0122" -> "dq" [] c = "U+0140" -> "@"
       [] c = "U+0130" -> "0" [] c = "U+0663" -> "c"]

NonAscii ==
  {"U+00E9", "U+0122", "U+0140", "U+0130", "U+0663", "U+00A0", "U+2028",
   "U+00BF"}

\* "U+00E9", "U+00A0", "U+00BF" and "U+2028" narrow to bytes that belong to no
\* class below, and stay themselves.
Narrow(c) == IF c \in DOMAIN LowByte THEN LowByte[c] ELSE c

\* The code points that narrow into the ASCII class S.
Wide(S) == S \cup {c \in DOMAIN LowByte : LowByte[c] \in S}

AsciiLetters == {"a", "c", "e", "f", "i", "n", "o", "q", "u", "x", "b", "d"}

AsciiDigits == {"0", "1", "7", "8"}

BinaryDigits == {"0", "1"}
OctalDigits == {"0", "1", "7"}
HexDigits == AsciiDigits \cup {"a", "b", "c", "d", "e", "f"}

XidStart == AsciiLetters \cup {"_", "U+00E9", "U+0122", "U+0140", "U+0130"}

XidContinue == XidStart \cup AsciiDigits \cup {"U+0663"}

DecimalNumbers == AsciiDigits \cup {"U+0663"}

Newlines == {"nl", "cr", "ff", "U+2028"}

Whitespace == {" ", "tab", "U+00A0"} \cup Newlines

\* Whitespace that is not a newline, which the skipping loops test for.
Blanks == Whitespace \ Newlines

\* The characters that may follow a backslash: string_util.h accepts x, u, U
\* and the octal digits as well as the simple escapes.
ValidEscapes ==
  {"n", "b", "a", "f", "bs", "sq", "dq", "x", "u"} \cup OctalDigits

Singles == {";", ",", "(", ")", "{", "}", "[", "]", "@", "#", "$", "?", "~"}

\* What the second character of an operator can be, by the first one.
PairTails ==
  [c \in {"%", "^", "/", "=", "!", "&", "|", "+", "*", "<", ">", ":", "-", "."} |->
     CASE c \in {"%", "^", "/", "=", "!"} -> {"="}
       [] c \in {"&", "|", "+", "*", "<", ">", ":"} -> {c, "="}
       [] c = "-" -> {">", "-", "="}
       [] c = "." -> {"."}]

Chars ==
  XidContinue \cup Whitespace \cup NonAscii \cup Singles \cup DOMAIN PairTails
    \cup {"dq", "sq", "bs", "nul", "ctl"}

\* The bytes of a code point in a file's content.
Utf8(c) ==
  IF c \notin NonAscii THEN <<c>>
  ELSE IF c = "U+2028" THEN <<"lead3", "tail", "tail">>
  ELSE <<"lead2", "tail">>

\* The words of lookup_id_or_keyword that the characters above can spell.
Keywords ==
  {<<"f", "n">>, <<"i", "f">>, <<"i", "8">>, <<"u", "8">>,
   <<"u", "n", "i", "o", "n">>}
=============================================================================
