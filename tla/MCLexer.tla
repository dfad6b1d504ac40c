------------------------------ MODULE MCLexer -------------------------------
(***************************************************************************)
(* Lexer on every source over a few small alphabets, each one chosen for a *)
(* part of the lexer where the characters that belong together meet in     *)
(* every order.                                                            *)
(***************************************************************************)
EXTENDS Lexer

Texts(alphabet, length) == UNION {[1 .. n -> alphabet] : n \in 0 .. length}

Behind(first, texts) == {<<c>> \o t : c \in first, t \in texts}

Comments == Texts({"/", "*", "@", "nl", "f"}, 5)

Digits == {"0", "8", "x", "b", "e", ".", "+", "f"}
Numbers == Texts(Digits, 3) \cup Behind({"0", "8"}, [1 .. 3 -> Digits])

\* Operators and words; the words that are keywords, alone and made longer.
Words ==
  Texts({"f", "n", "0", "=", "+", ";"}, 4)
    \cup Texts({"i", "u", "f", "8"}, 3)
    \cup {<<"u", "n", "i", "o", "n">> \o t : t \in Texts({"n", "=", "U+00E9"}, 1)}

\* Literals cut off anywhere, with escapes known and unknown.
Quoted == {"dq", "sq", "bs", "n", "q", "0"}
Literals == Texts(Quoted, 4) \cup Behind({"dq", "sq"}, [1 .. 4 -> Quoted])

\* Code points that share their low byte with a quotation mark or a digit.
Lookalikes == Texts({"dq", "bs", "x", "0", "U+0122", "U+0130"}, 3)

Unicode ==
  Texts({"f", "U+00E9", "U+0663", "U+00A0", "U+2028", "U+00BF", "tab", "cr", "nl",
         " ", "ctl", "nul"}, 2)
    \cup Texts({"f", "U+0663", "U+2028", "U+00BF", "cr", "nl", " "}, 3)

AllSources == Comments \cup Numbers \cup Words \cup Literals \cup Lookalikes
                \cup Unicode

\* The modes differ in what they skip: the sources without comments and white
\* space are read in the one that skips nothing.
ModesOfAll ==
  [s \in AllSources |->
     IF s \in Comments \cup Unicode
     THEN {"kCodeAnalysis", "kDocumentGen", "kFormat"} ELSE {"kFormat"}]

\* For the disagreements between comments and the code.
Unknown == Texts({"f", "U+00BF"}, 2)
ModesOfUnknown == [s \in Unknown |-> {"kCodeAnalysis"}]

Shifts == Texts({"<", "=", "f"}, 4)
ModesOfShifts == [s \in Shifts |-> {"kCodeAnalysis"}]

Documented == Texts({"/", "@", "f", "nl"}, 4)
ModesOfDocumented == [s \in Documented |-> {"kFormat"}]
=============================================================================
