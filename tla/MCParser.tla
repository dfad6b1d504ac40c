------------------------------ MODULE MCParser ------------------------------
(***************************************************************************)
(* Parser on                                                               *)
(*   - the token streams of parser_test.cc, with the errors that the tests *)
(*     expect, and on a few more statements;                               *)
(*   - every stream that one deleted or replaced token away from those;    *)
(*   - every short stream over the tokens of expressions with blocks, of   *)
(*     which the grammar tells the programs;                               *)
(*   - every short chain of operators, and every short stream of prefix     *)
(*     operators and line ends.                                            *)
(***************************************************************************)
EXTENDS Parser, Grammar

End == <<"eof">>

Texts(alphabet, length) == UNION {[1 .. n -> alphabet] : n \in 0 .. length}

Streams(texts) == {t \o End : t \in texts}

-----------------------------------------------------------------------------
(* Statements                                                              *)

\* The sources that parser_test.cc expects to be parsed (expect_ok).
Valid ==
  { <<"identifier", ":", "i32", "=", "literal">>,
    <<"identifier", ":=", "literal">>,
    <<"identifier", ":=", "literal", "+", "literal">>,
    <<"struct", "identifier", "{", "}">>,
    <<"fn", "identifier", "(", ")", "->", "i32", "{", "}">>,
    <<"fn", "identifier", "(", "identifier", ":", "i32", ",", "identifier",
      ":", "i32", ")", "->", "i32", "{", "}">>,
    <<"pub", "fn", "identifier", "(", ")", "->", "i32", "{", "}">>,
    <<"struct", "identifier", "{", "identifier", ":", "i32", ",",
      "identifier", ":", "i32", "}">>,
    <<"pub", "struct", "identifier", "{", "}">>,
    <<"enum", "identifier", "{", "}">>,
    <<"enum", "identifier", "{", "identifier", ",", "identifier", "(", "i32",
      ")", ",", "}">>,
    <<"trait", "identifier", "{", "}">>,
    <<"union", "identifier", "{", "identifier", ":", "i32", ",", "identifier",
      ":", "i32", "}">>,
    <<"mod", "identifier", "{", "}">>,
    <<"const", "identifier", ":", "i32", "=", "literal">> }

\* The sources that it expects to be rejected (expect_errors), by their errors.
Rejected ==
  [ expected |->
      { <<"fn", "identifier", "(", ")", "->", "i32">>,
        <<"struct", "identifier">>,
        <<"fn", "identifier", "*", "(", ")">>,
        <<"fn", "identifier", "(", "identifier", ",", ")">>,
        <<"struct", "identifier", "{", "if", "}">>,
        <<"fn", "identifier", "(", ")", "->", "{", "}">>,
        <<"fn", "identifier", "(", "identifier", ":", "i32", "identifier",
          ":", "i32", ")">>,
        <<"struct", "identifier", "{", "identifier", ":", ",", "}">> },
    conflict |->
      { <<"static", "extern", "fn", "identifier", "(", ")", "{", "}">>,
        <<"const", "mut", "identifier">> },
    both |->
      { <<"static", "extern", "fn", "identifier", "*", "(", ")">> } ]

Expected ==
  [ expected |-> <<"kExpectedButFound">>,
    conflict |-> <<"kConflictingStorageSpecifiers">>,
    both |-> <<"kConflictingStorageSpecifiers", "kExpectedButFound">> ]

\* Statements that the tests leave out.
Untested ==
  { <<"impl", "identifier", "for", "identifier", "{", "fn", "identifier", "(",
      ")", "{", "literal", "}", "}">>,
    <<"redirect", "identifier", "->", "identifier", "::", "identifier">>,
    <<"use", "::", "identifier", "::", "identifier">>,
    <<"#", "[", "identifier", "(", "literal", ",", "literal", ")", "]">>,
    <<"enum", "identifier", "{", "identifier", "=", "literal", "}">>,
    <<"for", "identifier", ":", "literal", "{", "break", ";", "}">>,
    <<"match", "literal", "{", "literal", "->", "{", "ret", "literal", "}", "}">>,
    <<"[", "identifier", ":", "i32", "]", "identifier", ":", "i32", "literal">>,
    <<"comment", "loop", "{", "continue", "newline", "literal", "}", ";">>,
    <<"mod", "identifier", "{", "identifier", ":=", "literal", "if", "literal",
      "{", "}", "}", "newline", "struct", "identifier", "{", "}">>,
    <<"identifier", ":", "[", "i32", "]">>,
    <<"const", "identifier", ":", "[", "i32", ";", "literal", "]", "=", "literal">> }

\* Sources that are accepted with a bracket open or closed twice, and others
\* with the same constructs.
Unbalanced ==
  { <<"identifier", ":", "[", "i32", "(", "]", "=", "literal">>,
    <<"identifier", ":", "[", "i32", "]", ";", "literal", "=", "literal">>,
    <<"identifier", ":", "[", "i32", ";", ";", "literal", "=", "literal">>,
    <<"enum", "identifier", "{", "identifier", "{", "identifier", ":", "i32", "}">>,
    <<"enum", "identifier", "{", "identifier", ",", "identifier", "{", "}", "}">> }

Statements ==
  Valid \cup UNION {Rejected[c] : c \in DOMAIN Rejected} \cup Untested \cup Unbalanced

\* One token of the text is missing, or is another one.
Edited(text) ==
  {RemoveAt(text, i) : i \in DOMAIN text}
    \cup {[text EXCEPT ![i] = kind] :
            i \in DOMAIN text, kind \in {"}", ";", "fn", "newline", ",", "literal"}}

-----------------------------------------------------------------------------
(* Expressions                                                             *)

\* Sources over the tokens of the grammar.
Blocks == Texts({"literal", "*", "(", ")", "{", "}", ";"}, 4)
Loops == Texts({"literal", "while", "loop", "{", "}"}, 5)
Branches ==
  {FlattenSeq(pieces) :
     pieces \in Texts({<<"if", "literal">>, <<"{", "}">>, <<"else">>, <<"literal">>}, 6)}

InGrammar == Blocks \cup Loops \cup Branches

Chains(operators, n) ==
  {[i \in 1 .. 2 * n + 1 |-> IF i % 2 = 1 THEN "literal" ELSE ops[i \div 2]] :
     ops \in [1 .. n -> operators]}

\* Two operators of any two levels, and four of five levels that associate to
\* different sides.
Operators == Chains(BinaryOperators, 2) \cup Chains({"**", "*", "+", "||", "="}, 4)

PrefixChains ==
  Texts({"-", "++", "literal", ";", "newline", "("}, 4)
    \cup Texts({"-", "literal", "(", ")"}, 5)

AllSources ==
  Streams(Statements \cup UNION {Edited(s) : s \in Statements}
            \cup InGrammar \cup Operators \cup PrefixChains)

\* For the disagreements between comments and the code.
ForLoops == Streams({<<"for", "identifier", ":", "identifier", "{", "}">>})
Negations == Streams(Texts({"-", "literal", "+"}, 4))

-----------------------------------------------------------------------------
\* parse_all() finds in the cases of parser_test.cc what the tests expect.
AgreesWithTests ==
  pc = "done" /\ ~ strict =>
    LET text == Front(tokens)
        ids == [i \in DOMAIN errors |-> errors[i].id]
    IN  /\ text \in Valid => ids = << >>
        /\ \A c \in DOMAIN Rejected : text \in Rejected[c] => ids = Expected[c]

\* Of the sources over the tokens of the grammar, parse_all() accepts exactly
\* the programs.
AcceptsGrammar ==
  pc = "done" /\ Front(tokens) \in InGrammar =>
    (errors = << >> <=> IsProgram(Front(tokens)))

\* Of a source whose outcome is known without the parser, be it from a test or
\* from the grammar, parse_all() finds that outcome.
OutcomeIsKnown == AgreesWithTests /\ AcceptsGrammar
=============================================================================
