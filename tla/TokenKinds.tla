----------------------------- MODULE TokenKinds -----------------------------
(***************************************************************************)
(* The kinds of tokens the parser tells apart, each one by its spelling.   *)
(* One kind stands for several where the parser treats them alike:         *)
(* "literal" for the literals, "i32" for the primitive types, "comment"    *)
(* for block and inline comments, "pub" for the storage attributes that    *)
(* conflict with no other.                                                 *)
(***************************************************************************)
EXTENDS Naturals

ControlFlow ==
  {"if", "else", "loop", "while", "for", "break", "continue", "ret", "match"}

Declarations ==
  {"fn", "struct", "enum", "trait", "impl", "union", "mod", "redirect"}

Attributes == {"mut", "const", "extern", "static", "pub"}

UnaryOperators == {"++", "--", "!", "~", "+", "-"}

BinaryOperators ==
  {"as", "**", "*", "/", "%", "+", "-", "<<", ">>", "<=>", "<", ">", "<=", ">=",
   "==", "!=", "&", "^", "|", "&&", "||", "=", ":=", "+=", "*=", "&=", "|="}

\* A lower precedence binds tighter.
Precedence ==
  [op \in BinaryOperators |->
     CASE op = "as" -> 3
       [] op = "**" -> 4
       [] op \in {"*", "/", "%"} -> 5
       [] op \in {"+", "-"} -> 6
       [] op \in {"<<", ">>"} -> 7
       [] op = "<=>" -> 8
       [] op \in {"<", ">", "<=", ">="} -> 9
       [] op \in {"==", "!="} -> 10
       [] op = "&" -> 11
       [] op = "^" -> 12
       [] op = "|" -> 13
       [] op = "&&" -> 14
       [] op = "||" -> 15
       [] op \in {"=", ":=", "+=", "*=", "&=", "|="} -> 16]

kLowest == 16

\* The levels that associate from right to left: exponentiation, assignment.
RightToLeft == {4, 16}

Punctuation ==
  {"(", ")", "{", "}", "[", "]", ",", ";", ":", "::", ".", "..", "#", "->"}

TokenKind ==
  ControlFlow \cup Declarations \cup Attributes \cup UnaryOperators
    \cup BinaryOperators \cup Punctuation
    \cup {"identifier", "literal", "i32", "use", "await", "comment",
          "documentationComment", "newline", "whitespace", "eof"}
=============================================================================
