------------------------------- MODULE Grammar ------------------------------
(***************************************************************************)
(* The grammar of programs made of expressions with blocks, independent of *)
(* how they are parsed:                                                    *)
(*   program ::= {expr | ";"}        block ::= "{" exprs "}"               *)
(*   exprs   ::= {expr}              expr  ::= unit {"*" unit}             *)
(*   unit    ::= literal | "(" expr ")" | block | "loop" block             *)
(*             | "while" expr block | chain ["else" block]                 *)
(*   chain   ::= "if" expr block {"else" "if" expr block}                  *)
(* A span <<i, j>> of a text is what lies behind its first i tokens and    *)
(* not behind its first j.                                                 *)
(***************************************************************************)
EXTENDS Integers, Sequences, SequencesExt

Symbols == {"block", "chain", "unit", "expr", "exprs", "program"}

\* The spans of length n that are sentences, by symbol, from those shorter.
OfLength(text, n, shorter) ==
  LET Has(kinds, i) ==
        /\ 0 <= i /\ i + Len(kinds) <= Len(text)
        /\ \A k \in DOMAIN kinds : text[i + k] = kinds[k]
      \* "open", a sentence of A, "mid", then a sentence of B
      Join(open, A, mid, B) ==
        {<<i, i + n>> : i \in {i \in 0 .. Len(text) - n :
           /\ Has(open, i)
           /\ \E a \in shorter[A] :
                /\ a[1] = i + Len(open)
                /\ Has(mid, a[2])
                /\ <<a[2] + Len(mid), i + n>> \in shorter[B]}}
      Wrap(open, A, close) ==
        {<<i, i + n>> : i \in {i \in 0 .. Len(text) - n :
           /\ Has(open, i)
           /\ <<i + Len(open), i + n - Len(close)>> \in shorter[A]
           /\ Has(close, i + n - Len(close))}}
      Token(kind) == IF n = 1 THEN {<<i - 1, i>> : i \in {i \in DOMAIN text : text[i] = kind}}
                     ELSE {}
      empty == IF n = 0 THEN {<<i, i>> : i \in 0 .. Len(text)} ELSE {}
      block == Wrap(<<"{">>, "exprs", <<"}">>)
      condition == Join(<<"if">>, "expr", << >>, "block")
      chain == condition
                 \cup {<<i, i + n>> : i \in {i \in 0 .. Len(text) - n :
                         \E c \in shorter["chain"], e \in shorter["expr"] :
                           /\ c[1] = i
                           /\ Has(<<"else", "if">>, c[2])
                           /\ e[1] = c[2] + 2
                           /\ <<e[2], i + n>> \in shorter["block"]}}
      unit == Token("literal") \cup Wrap(<<"(">>, "expr", <<")">>) \cup block
                \cup Wrap(<<"loop">>, "block", << >>)
                \cup Join(<<"while">>, "expr", << >>, "block")
                \cup chain \cup Join(<< >>, "chain", <<"else">>, "block")
      expr == unit \cup Join(<< >>, "expr", <<"*">>, "unit")
  IN  [block |-> block, chain |-> chain, unit |-> unit, expr |-> expr,
       exprs |-> empty \cup expr \cup Join(<< >>, "expr", << >>, "exprs"),
       program |-> empty \cup expr \cup Token(";")
                     \cup Join(<< >>, "expr", << >>, "program")
                     \cup Wrap(<<";">>, "program", << >>)]

IsProgram(text) ==
  LET Extend(found, n) ==
        LET new == OfLength(text, n - 1, found)
        IN  [s \in Symbols |-> found[s] \cup new[s]]
      spans == FoldLeft(Extend, [s \in Symbols |-> {}],
                        [n \in 1 .. Len(text) + 1 |-> n])
  IN  <<0, Len(text)>> \in spans["program"]
=============================================================================
