---------------------------- MODULE ParserProofs ----------------------------
(***************************************************************************)
(* Proofs about Parser for every source, strict or not, of any length.     *)
(* What the goals need of the nodes made and of the stream is typed: each  *)
(* goal takes and leaves a number of nodes, of known levels of precedence, *)
(* and moves the stream back by a known number of tokens at most.          *)
(***************************************************************************)
EXTENDS Parser, SequenceTheorems, WellFoundedInduction, TLAPS

-----------------------------------------------------------------------------
(* Levels of precedence                                                    *)

Level(kind) == IF kind \in BinaryOperators THEN Precedence[kind] ELSE 0

\* How loose the operands of an operator may bind.
Right(op) ==
  IF Precedence[op] \in RightToLeft THEN Precedence[op] ELSE Precedence[op] - 1

FitsLeft(op, level) ==
  IF Precedence[op] \in RightToLeft THEN level < Precedence[op]
  ELSE level <= Precedence[op]

-----------------------------------------------------------------------------
(* Stacks: for each node made, a bound on its level                        *)

Stacks == Seq(Nat)

Top(b) == b[Len(b)]
Under(b) == b[Len(b) - 1]
Cut(b, n) == SubSeq(b, 1, Len(b) - n)

Below(b, c) == Len(b) = Len(c) /\ \A i \in 1 .. Len(b) : b[i] <= c[i]

\* c has one node for the last n of b, which binds as "level" or looser.
Yields(b, n, level, c) == n <= Len(b) /\ Below(Append(Cut(b, n), level), c)

-----------------------------------------------------------------------------
(* What goals do                                                           *)

\* Goals that leave the nodes made as they are.
Flat ==
  {"path", "path_parts", "path_more", "type", "array_size", "capture", "field",
   "parameter", "attribute_use", "attribute_arguments", "block", "branch",
   "else", "else_branch", "arms", "use", "assign_operator", "fn",
   "return_type", "function_body", "struct", "union", "enum", "variant",
   "variant_kind", "trait", "impl", "trait_name", "mod", "redirect"}

\* Goals that make a node that is no binary expression, and any other node.
Operands ==
  {"unary", "primary", "postfix", "(", "{", "if", "loop", "while", "for",
   "match", "["}
Expressions == {"expression", "statement", "assign", "declaration", "declared"}

\* Goals that may put a node on top of the last one.
Extensions ==
  {"postfix_operators", "postfix_form", "member", "macro_call", "await"}

\* The goal g takes a stack b to the stack c.
Changes(g, b, c) ==
  \/ g[1] \in {"consume", "consume_only"} /\ g[2] \in TokenKind \ {"eof"} /\ Below(b, c)
  \/ g[1] \in {"skip", "storage_attributes"} /\ Below(b, c)
  \/ g[1] = "rewind" /\ g[2] \in Nat /\ Below(b, c)
  \/ /\ g[1] = "node" /\ g[3] \in Nat /\ Yields(b, g[3], Level(g[2]), c)
     /\ g[2] \in BinaryOperators =>
          g[3] = 2 /\ FitsLeft(g[2], Under(b)) /\ Top(b) <= Right(g[2])
  \/ /\ g[1] \in {"payload", "range", "sequence", "sequence_more"}
     /\ g[2] \in Nat /\ g[2] <= Len(b) /\ Below(Cut(b, g[2]), c)
  \/ /\ g[1] = "body" /\ g[2] \in {"statement", "declaration"}
     /\ g[3] \in Nat /\ g[3] <= Len(b) /\ Below(Cut(b, g[3]), c)
  \/ g[1] \in {"construct", "construct_more"} /\ g[2] \in Nat /\ Yields(b, g[2] + 1, 0, c)
  \/ g[1] \in {"list", "list_more"} /\ g[2] \in Flat /\ Below(b, c)
  \/ g[1] \in Flat /\ Below(b, c)
  \/ g[1] \in Operands /\ Yields(b, 0, 0, c)
  \/ g[1] = "value" /\ g[2] \in ControlFlow /\ Yields(b, 0, 0, c)
  \/ g[1] \in Expressions /\ Yields(b, 0, kLowest, c)
  \/ g[1] \in Extensions /\ Yields(b, 1, 0, c) /\ Top(b) = 0
  \/ g[1] = "call" /\ g[2] \in {"call", "method call"} /\ Yields(b, 1, 0, c)
  \/ g[1] \in {"range_operator", "range_end"} /\ Yields(b, 1, kLowest, c) /\ Top(b) <= kLowest
  \/ g[1] = "binary" /\ g[2] \in Nat /\ Yields(b, 0, g[2], c)
  \/ g[1] = "climb" /\ g[2] \in Nat /\ Yields(b, 1, g[2], c) /\ Top(b) <= g[2]
  \/ g[1] = "prefix" /\ g[2] \in Nat /\ Yields(b, 0, 0, c)
  \/ g[1] = "apply_prefix" /\ g[2] \in Nat /\ Yields(b, 1, 0, c) /\ Top(b) = 0

\* How far the goal g moves the stream at least: backwards, if negative.
Moves(g) ==
  CASE g[1] \in {"consume", "consume_only", "skip"} -> 1
    [] g[1] \in {"rewind", "prefix"} -> - g[2]
    [] g[1] = "storage_attributes" /\ g[2] # {} -> -1
    [] OTHER -> 0

\* The goal g takes a stack b, at least p tokens behind where the stream may
\* not go back to, to the stack c, at least q behind it.
Does(g, b, p, c, q) == g[1] = "fail" \/ (Changes(g, b, c) /\ q <= p + Moves(g))

IsBinary(g) == g[1] = "node" /\ g[2] \in BinaryOperators

\* A binary expression is made when its right operand has climbed as far as
\* it can, and its left operand is tight enough for whatever operator comes.
Follows(f, g, b) ==
  /\ IsBinary(g) => f \in {<<"binary", Right(g[2])>>, <<"climb", Right(g[2])>>}
  /\ g[1] = "climb" => Top(b) = 0 \/ IsBinary(f)

\* The first goal, with the nodes made of levels b and the next token "look".
Ready(g, b, look) ==
  look \in BinaryOperators =>
    /\ IsBinary(g) => Precedence[look] > Right(g[2])
    /\ g[1] = "climb" => FitsLeft(look, Top(b))

Sequential(s) == \E S : s \in Seq(S)

\* The goals s, one after the other, with what is between them.
Chain(s, bs, ps) ==
  /\ bs \in [1 .. Len(s) + 1 -> Stacks] /\ ps \in [1 .. Len(s) + 1 -> Nat]
  /\ \A i \in 1 .. Len(s) : Does(s[i], bs[i], ps[i], bs[i + 1], ps[i + 1])
  /\ \A i \in 2 .. Len(s) : Follows(s[i - 1], s[i], bs[i])

Runs(s, b, p, c, q) ==
  IF s = << >> THEN Below(b, c) /\ q <= p
  ELSE /\ Sequential(s)
       /\ \E bs, ps : /\ Chain(s, bs, ps)
                      /\ bs[1] = b /\ ps[1] = p
                      /\ bs[Len(s) + 1] = c /\ ps[Len(s) + 1] = q

-----------------------------------------------------------------------------
(* Lemmas about stacks                                                     *)

LEMMA BelowIsOrder ==
  /\ \A b \in Stacks : Below(b, b)
  /\ \A b, c, d \in Stacks : Below(b, c) /\ Below(c, d) => Below(b, d)
BY SMTT(30) DEF Stacks, Below

LEMMA CutIs ==
  ASSUME NEW b \in Stacks, NEW n \in 0 .. Len(b)
  PROVE  /\ Cut(b, n) \in Stacks
         /\ Len(Cut(b, n)) = Len(b) - n
         /\ \A i \in 1 .. Len(b) - n : Cut(b, n)[i] = b[i]
BY DEF Cut, Stacks

LEMMA PushIs ==
  ASSUME NEW b \in Stacks, NEW x \in Nat
  PROVE  /\ Append(b, x) \in Stacks
         /\ Len(Append(b, x)) = Len(b) + 1
         /\ Top(Append(b, x)) = x
         /\ \A i \in 1 .. Len(b) : Append(b, x)[i] = b[i]
         /\ Append(b, x)[Len(b) + 1] = x
BY DEF Stacks, Top

LEMMA CutNone ==
  ASSUME NEW b \in Stacks
  PROVE  Cut(b, 0) = b
<1>0. 0 \in 0 .. Len(b) /\ Len(b) - 0 = Len(b)
  BY DEF Stacks
<1>1. Cut(b, 0) \in Stacks /\ Len(Cut(b, 0)) = Len(b)
      /\ \A i \in 1 .. Len(b) : Cut(b, 0)[i] = b[i]
  BY <1>0, CutIs
<1>2. QED
  BY <1>1, SeqEqual DEF Stacks

LEMMA CutPush ==
  ASSUME NEW b \in Stacks, NEW x \in Nat, NEW n \in 0 .. Len(b)
  PROVE  Cut(Append(b, x), n + 1) = Cut(b, n)
<1> DEFINE c == Append(b, x)
<1>1. /\ c \in Stacks /\ Len(c) = Len(b) + 1 /\ \A i \in 1 .. Len(b) : c[i] = b[i]
      /\ Len(b) \in Nat
  BY PushIs DEF Stacks
<1>2. n + 1 \in 0 .. Len(c) /\ Len(c) - (n + 1) = Len(b) - n
  BY <1>1
<1> HIDE DEF c
<1>3. /\ Cut(c, n + 1) \in Stacks /\ Len(Cut(c, n + 1)) = Len(b) - n
      /\ \A i \in 1 .. Len(b) - n : Cut(c, n + 1)[i] = c[i]
  BY <1>1, <1>2, CutIs
<1>4. /\ Cut(b, n) \in Stacks /\ Len(Cut(b, n)) = Len(b) - n
      /\ \A i \in 1 .. Len(b) - n : Cut(b, n)[i] = b[i]
  BY CutIs
<1>5. \A i \in 1 .. Len(b) - n : c[i] = b[i]
  BY <1>1
<1>6. Cut(c, n + 1) = Cut(b, n)
  BY <1>3, <1>4, <1>5, SeqEqual, ZenonT(60) DEF Stacks
<1>7. QED
  BY <1>6 DEF c

\* Lower bounds stay lower.
LEMMA CutKeeps ==
  ASSUME NEW b \in Stacks, NEW c \in Stacks, Below(b, c), NEW n \in 0 .. Len(b)
  PROVE  Below(Cut(b, n), Cut(c, n))
<1>1. Len(c) = Len(b) /\ Len(b) \in Nat /\ \A i \in 1 .. Len(b) : b[i] <= c[i]
  BY DEF Below, Stacks
<1>2. /\ Len(Cut(b, n)) = Len(b) - n
      /\ \A i \in 1 .. Len(b) - n : Cut(b, n)[i] = b[i]
  BY CutIs
<1>3. /\ Len(Cut(c, n)) = Len(b) - n
      /\ \A i \in 1 .. Len(b) - n : Cut(c, n)[i] = c[i]
  BY <1>1, CutIs
<1>4. QED
  BY <1>1, <1>2, <1>3 DEF Below

LEMMA PushKeeps ==
  ASSUME NEW b \in Stacks, NEW c \in Stacks, Below(b, c), NEW x \in Nat, NEW y \in Nat,
         x <= y
  PROVE  Below(Append(b, x), Append(c, y))
<1>1. Len(c) = Len(b) /\ Len(b) \in Nat /\ \A i \in 1 .. Len(b) : b[i] <= c[i]
  BY DEF Below, Stacks
<1>2. QED
  BY <1>1, PushIs DEF Below

LEMMA TopKeeps ==
  ASSUME NEW b \in Stacks, NEW c \in Stacks, Below(b, c)
  PROVE  /\ Len(b) > 0 => Top(b) \in Nat /\ Top(c) \in Nat /\ Top(b) <= Top(c)
         /\ Len(b) > 1 => Under(b) \in Nat /\ Under(c) \in Nat /\ Under(b) <= Under(c)
<1>1. Len(c) = Len(b) /\ Len(b) \in Nat /\ \A i \in 1 .. Len(b) : b[i] <= c[i]
  BY DEF Below, Stacks
<1>2. /\ Len(b) > 0 => Len(b) \in 1 .. Len(b)
      /\ Len(b) > 1 => Len(b) - 1 \in 1 .. Len(b)
  BY <1>1
<1>3. \A i \in 1 .. Len(b) : b[i] \in Nat /\ c[i] \in Nat
  BY <1>1 DEF Stacks
<1>4. QED
  BY <1>1, <1>2, <1>3 DEF Top, Under

LEMMA YieldsKeeps ==
  ASSUME NEW b \in Stacks, NEW c \in Stacks, Below(b, c), NEW n \in Nat, NEW x \in Nat,
         NEW d \in Stacks, NEW e \in Stacks, Yields(c, n, x, d), Below(d, e)
  PROVE  Yields(b, n, x, e)
<1>1. Len(c) = Len(b) /\ Len(b) \in Nat /\ n \in 0 .. Len(b)
  BY DEF Below, Stacks, Yields
<1>0. Cut(b, n) \in Stacks /\ Cut(c, n) \in Stacks /\ Below(Cut(b, n), Cut(c, n))
  BY <1>1, CutIs, CutKeeps
<1>2. Append(Cut(b, n), x) \in Stacks /\ Append(Cut(c, n), x) \in Stacks
  BY <1>0, PushIs
<1>5. x <= x
  OBVIOUS
<1>6. Below(Append(Cut(b, n), x), Append(Cut(c, n), x))
  BY <1>0, <1>5, PushKeeps
<1>3. Below(Append(Cut(b, n), x), e)
  BY <1>2, <1>6, BelowIsOrder DEF Yields
<1>4. QED
  BY <1>1, <1>3 DEF Yields

-----------------------------------------------------------------------------
(* Lemmas about levels                                                     *)

LEMMA LevelsAre ==
  /\ \A op \in BinaryOperators :
       Precedence[op] \in 3 .. 16 /\ Right(op) \in 2 .. 16 /\ Right(op) <= Precedence[op]
  /\ \A kind : Level(kind) \in Nat
<1>1. ASSUME NEW op \in BinaryOperators PROVE Precedence[op] \in 3 .. 16
  BY DEF BinaryOperators, Precedence
<1>2. ASSUME NEW op \in BinaryOperators
      PROVE  Right(op) \in 2 .. 16 /\ Right(op) <= Precedence[op]
  BY <1>1 DEF Right
<1>3. ASSUME NEW kind PROVE Level(kind) \in Nat
  BY <1>1 DEF Level
<1>4. QED
  BY <1>1, <1>2, <1>3

\* A binary expression has the level of its operator, which suits whatever
\* operator its right operand left for it.
LEMMA ClimbsOn ==
  ASSUME NEW op \in BinaryOperators, NEW look \in BinaryOperators,
         Precedence[look] > Right(op)
  PROVE  FitsLeft(look, Precedence[op])
BY LevelsAre DEF Right, FitsLeft

-----------------------------------------------------------------------------
(* Lemmas about what goals do                                              *)

\* A goal changes a lower stack as a higher one, and less than it does.
LEMMA ChangesKeeps ==
  ASSUME NEW b \in Stacks, NEW c \in Stacks, Below(b, c),
         NEW d \in Stacks, NEW e \in Stacks, Below(d, e),
         NEW g, Changes(g, c, d)
  PROVE  Changes(g, b, e)
<1>1. /\ Below(c, d) => Below(b, e)
      /\ \A n \in Nat, x \in Nat : Yields(c, n, x, d) => Yields(b, n, x, e)
      /\ \A n \in Nat, x \in Nat : Yields(c, n, x, d) => n <= Len(b)
      /\ Len(c) = Len(b)
  <2>1. Below(c, d) => Below(b, e)
    <3>1. Below(c, d) => Below(c, e)
      BY BelowIsOrder
    <3>2. QED
      BY <3>1, BelowIsOrder
  <2>2. \A n \in Nat, x \in Nat : Yields(c, n, x, d) => Yields(b, n, x, e)
    BY YieldsKeeps
  <2>3. QED
    BY <2>1, <2>2 DEF Yields, Below
<1>2. ASSUME NEW n \in Nat, n <= Len(c), Below(Cut(c, n), d)
      PROVE  n <= Len(b) /\ Below(Cut(b, n), e)
  <2>1. n \in 0 .. Len(b) /\ n \in 0 .. Len(c)
    BY <1>1, <1>2 DEF Stacks
  <2>2. /\ Below(Cut(b, n), Cut(c, n))
        /\ Cut(b, n) \in Stacks /\ Cut(c, n) \in Stacks
    BY <2>1, CutKeeps, CutIs
  <2>3. Below(Cut(c, n), e)
    BY <1>2, <2>2, BelowIsOrder
  <2>4. QED
    BY <2>1, <2>2, <2>3, BelowIsOrder
<1>3. /\ Len(b) > 0 => Top(b) \in Nat /\ Top(c) \in Nat /\ Top(b) <= Top(c)
      /\ Len(b) > 1 => Under(b) \in Nat /\ Under(c) \in Nat /\ Under(b) <= Under(c)
      /\ Len(b) \in Nat
  BY TopKeeps DEF Stacks
<1>4. kLowest \in Nat /\ \A kind : Level(kind) \in Nat
  BY LevelsAre DEF kLowest
<1>5. CASE g[1] = "node" /\ g[3] \in Nat /\ Yields(c, g[3], Level(g[2]), d)
           /\ (g[2] \in BinaryOperators =>
                 g[3] = 2 /\ FitsLeft(g[2], Under(c)) /\ Top(c) <= Right(g[2]))
  <2>1. Yields(b, g[3], Level(g[2]), e) /\ g[3] <= Len(b)
    BY <1>1, <1>4, <1>5
  <2>2. ASSUME g[2] \in BinaryOperators
        PROVE  FitsLeft(g[2], Under(b)) /\ Top(b) <= Right(g[2])
    <3> DEFINE op == g[2]
    <3>1. Len(b) > 1 /\ Len(b) > 0
      BY <1>3, <1>5, <2>1, <2>2
    <3>2. op \in BinaryOperators /\ FitsLeft(op, Under(c)) /\ Top(c) <= Right(op)
      BY <1>5, <2>2
    <3> HIDE DEF op
    <3>3. Right(op) \in Int /\ Precedence[op] \in Int
      BY <3>2, LevelsAre
    <3>4. Top(b) <= Right(op)
      BY <1>3, <3>1, <3>2, <3>3
    <3>5. FitsLeft(op, Under(b))
      BY <1>3, <3>1, <3>2, <3>3 DEF FitsLeft
    <3>6. QED
      BY <3>4, <3>5 DEF op
  <2>3. QED
    BY <1>5, <2>1, <2>2 DEF Changes
<1>6. CASE g[1] \in {"payload", "range", "sequence", "sequence_more"}
           /\ g[2] \in Nat /\ g[2] <= Len(c) /\ Below(Cut(c, g[2]), d)
  BY <1>2, <1>6 DEF Changes
<1>7. CASE g[1] = "body" /\ g[2] \in {"statement", "declaration"}
           /\ g[3] \in Nat /\ g[3] <= Len(c) /\ Below(Cut(c, g[3]), d)
  BY <1>2, <1>7 DEF Changes
<1>8. CASE g[1] \in {"construct", "construct_more"}
           /\ g[2] \in Nat /\ Yields(c, g[2] + 1, 0, d)
  <2>1. g[2] + 1 \in Nat /\ 0 \in Nat
    BY <1>8
  <2>2. Yields(b, g[2] + 1, 0, e)
    BY <1>1, <1>8, <2>1
  <2>3. QED
    BY <1>8, <2>2 DEF Changes
<1>9. CASE \/ g[1] \in Operands /\ Yields(c, 0, 0, d)
           \/ g[1] = "value" /\ g[2] \in ControlFlow /\ Yields(c, 0, 0, d)
           \/ g[1] \in Expressions /\ Yields(c, 0, kLowest, d)
           \/ g[1] = "binary" /\ g[2] \in Nat /\ Yields(c, 0, g[2], d)
           \/ g[1] = "prefix" /\ g[2] \in Nat /\ Yields(c, 0, 0, d)
           \/ g[1] = "call" /\ g[2] \in {"call", "method call"} /\ Yields(c, 1, 0, d)
  BY <1>1, <1>4, <1>9 DEF Changes
<1>10. CASE \/ g[1] \in Extensions /\ Yields(c, 1, 0, d) /\ Top(c) = 0
            \/ g[1] = "apply_prefix" /\ g[2] \in Nat /\ Yields(c, 1, 0, d) /\ Top(c) = 0
  <2>1. Yields(b, 1, 0, e) /\ Len(b) > 0
    BY <1>1, <1>3, <1>10
  <2>2. Top(b) = 0
    BY <1>3, <1>10, <2>1
  <2>3. QED
    BY <1>10, <2>1, <2>2 DEF Changes
<1>11. CASE g[1] \in {"range_operator", "range_end"}
            /\ Yields(c, 1, kLowest, d) /\ Top(c) <= kLowest
  <2>1. Yields(b, 1, kLowest, e) /\ Len(b) > 0
    BY <1>1, <1>3, <1>4, <1>11
  <2>2. Top(b) <= kLowest
    BY <1>3, <1>4, <1>11, <2>1
  <2>3. QED
    BY <1>11, <2>1, <2>2 DEF Changes
<1>12. CASE g[1] = "climb" /\ g[2] \in Nat /\ Yields(c, 1, g[2], d) /\ Top(c) <= g[2]
  <2>1. Yields(b, 1, g[2], e) /\ Len(b) > 0
    BY <1>1, <1>3, <1>12
  <2>2. Top(b) <= g[2]
    BY <1>3, <1>12, <2>1
  <2>3. QED
    BY <1>12, <2>1, <2>2 DEF Changes
<1>13. CASE Below(c, d)
           /\ (\/ g[1] \in {"consume", "consume_only"} /\ g[2] \in TokenKind \ {"eof"}
               \/ g[1] \in {"skip", "storage_attributes"}
               \/ g[1] = "rewind" /\ g[2] \in Nat
               \/ g[1] \in {"list", "list_more"} /\ g[2] \in Flat
               \/ g[1] \in Flat)
  BY <1>1, <1>13 DEF Changes
<1>14. QED
  BY <1>5, <1>6, <1>7, <1>8, <1>9, <1>10, <1>11, <1>12, <1>13 DEF Changes

LEMMA MovesAre ==
  ASSUME NEW b, NEW c, NEW g, Changes(g, b, c)
  PROVE  Moves(g) \in Int
<1>1. g[1] \in {"rewind", "prefix"} => g[2] \in Nat
  BY DEF Changes, Flat, Operands, Expressions, Extensions
<1>2. QED
  BY <1>1 DEF Moves

\* A goal does from a lower stack, further in the stream, what it does from a
\* higher one, and less than it does.
LEMMA DoesKeeps ==
  ASSUME NEW b \in Stacks, NEW c \in Stacks, Below(b, c),
         NEW d \in Stacks, NEW e \in Stacks, Below(d, e),
         NEW p \in Nat, NEW o \in Nat, p <= o,
         NEW q \in Nat, NEW r \in Nat, r <= q,
         NEW g, Does(g, c, p, d, q)
  PROVE  Does(g, b, o, e, r)
<1>1. CASE g[1] = "fail"
  BY <1>1, Zenon DEF Does
<1>2. CASE Changes(g, c, d) /\ q <= p + Moves(g)
  <2>1. Changes(g, b, e)
    BY <1>2, ChangesKeeps
  <2>2. r <= o + Moves(g)
    BY <1>2, MovesAre
  <2>3. QED
    BY <2>1, <2>2 DEF Does
<1>3. QED
  BY <1>1, <1>2 DEF Does

-----------------------------------------------------------------------------
(* Lemmas about goals one after the other                                  *)

LEMMA SequencesAre ==
  ASSUME NEW s, NEW t, Sequential(s), Sequential(t)
  PROVE  /\ Len(s) \in Nat /\ (s = << >> <=> Len(s) = 0)
         /\ Sequential(s \o t) /\ Len(s \o t) = Len(s) + Len(t)
         /\ \A i \in 1 .. Len(s) + Len(t) :
              (s \o t)[i] = IF i <= Len(s) THEN s[i] ELSE t[i - Len(s)]
         /\ s \o t = << >> => s = << >> /\ t = << >>
<1>1. PICK S : s \in Seq(S)
  BY DEF Sequential
<1>2. PICK T : t \in Seq(T)
  BY DEF Sequential
<1> DEFINE U == S \cup T
<1>3. s \in Seq(U) /\ t \in Seq(U)
  BY <1>1, <1>2, SeqMonotonic
<1> HIDE DEF U
<1>4. /\ s \o t \in Seq(U) /\ Len(s \o t) = Len(s) + Len(t)
      /\ \A i \in 1 .. Len(s) + Len(t) :
           (s \o t)[i] = IF i <= Len(s) THEN s[i] ELSE t[i - Len(s)]
  BY <1>3, ConcatProperties
<1>5. Len(s) \in Nat /\ Len(t) \in Nat /\ (s = << >> <=> Len(s) = 0)
      /\ (t = << >> <=> Len(t) = 0) /\ (s \o t = << >> <=> Len(s \o t) = 0)
  BY <1>3, <1>4, EmptySeq, LenProperties
<1>6. QED
  BY <1>4, <1>5 DEF Sequential

LEMMA TailIs ==
  ASSUME NEW s, Sequential(s), s # << >>
  PROVE  /\ Len(s) \in Nat \ {0} /\ Sequential(Tail(s)) /\ Len(Tail(s)) = Len(s) - 1
         /\ \A i \in 1 .. Len(s) - 1 : Tail(s)[i] = s[i + 1]
         /\ Tail(s) = << >> <=> Len(s) = 1
<1>1. PICK S : s \in Seq(S)
  BY DEF Sequential
<1>2. /\ Len(s) \in Nat \ {0} /\ Tail(s) \in Seq(S) /\ Len(Tail(s)) = Len(s) - 1
      /\ \A i \in 1 .. Len(s) - 1 : Tail(s)[i] = s[i + 1]
  BY <1>1, EmptySeq, LenProperties
<1>3. Tail(s) = << >> <=> Len(Tail(s)) = 0
  BY <1>2, EmptySeq
<1>4. QED
  BY <1>2, <1>3 DEF Sequential

\* Goals run from a lower stack, further in the stream, as from a higher one.
LEMMA RunsKeeps ==
  ASSUME NEW b \in Stacks, NEW c \in Stacks, Below(b, c),
         NEW d \in Stacks, NEW e \in Stacks, Below(d, e),
         NEW p \in Nat, NEW o \in Nat, p <= o,
         NEW q \in Nat, NEW r \in Nat, r <= q,
         NEW s, Runs(s, c, p, d, q)
  PROVE  Runs(s, b, o, e, r)
<1>1. CASE s = << >>
  <2>1. Below(c, d) /\ q <= p
    BY <1>1 DEF Runs
  <2>2. Below(b, d)
    BY <2>1, BelowIsOrder
  <2>3. Below(b, e) /\ r <= o
    BY <2>1, <2>2, BelowIsOrder
  <2>4. QED
    BY <1>1, <2>3 DEF Runs
<1>2. CASE s # << >>
  <2> DEFINE n == Len(s)
  <2>1. Sequential(s) /\ n \in Nat \ {0}
    BY <1>2, TailIs DEF Runs
  <2>2. PICK bs, ps : /\ Chain(s, bs, ps)
                      /\ bs[1] = c /\ ps[1] = p /\ bs[n + 1] = d /\ ps[n + 1] = q
    BY <1>2 DEF Runs
  <2> HIDE DEF n
  <2> DEFINE cs == [i \in 1 .. n + 1 |-> IF i = 1 THEN b ELSE IF i = n + 1 THEN e ELSE bs[i]]
             os == [i \in 1 .. n + 1 |-> IF i = 1 THEN o ELSE IF i = n + 1 THEN r ELSE ps[i]]
  <2>3. bs \in [1 .. n + 1 -> Stacks] /\ ps \in [1 .. n + 1 -> Nat]
    BY <2>2 DEF Chain, n
  <2>4. cs \in [1 .. n + 1 -> Stacks] /\ os \in [1 .. n + 1 -> Nat]
    BY <2>3
  <2>5. /\ \A i \in 1 .. n : Below(cs[i], bs[i]) /\ ps[i] <= os[i]
        /\ \A i \in 2 .. n + 1 : Below(bs[i], cs[i]) /\ os[i] <= ps[i]
    BY <2>1, <2>2, <2>3, BelowIsOrder
  <2>6. /\ cs[1] = b /\ os[1] = o /\ cs[n + 1] = e /\ os[n + 1] = r
        /\ \A i \in 2 .. n : cs[i] = bs[i]
    BY <2>1
  <2> HIDE DEF cs, os
  <2>7. ASSUME NEW i \in 1 .. n PROVE Does(s[i], cs[i], os[i], cs[i + 1], os[i + 1])
    <3>1. i \in 1 .. n + 1 /\ i + 1 \in 1 .. n + 1 /\ i + 1 \in 2 .. n + 1
      BY <2>1
    <3>2. /\ cs[i] \in Stacks /\ bs[i] \in Stacks /\ cs[i + 1] \in Stacks
          /\ bs[i + 1] \in Stacks /\ os[i] \in Nat /\ ps[i] \in Nat
          /\ os[i + 1] \in Nat /\ ps[i + 1] \in Nat
      BY <2>3, <2>4, <3>1
    <3>3. Does(s[i], bs[i], ps[i], bs[i + 1], ps[i + 1])
      BY <2>2 DEF Chain, n
    <3>4. /\ Below(cs[i], bs[i]) /\ ps[i] <= os[i]
          /\ Below(bs[i + 1], cs[i + 1]) /\ os[i + 1] <= ps[i + 1]
      BY <2>5, <3>1
    <3> DEFINE b1 == cs[i]
               c1 == bs[i]
               d1 == bs[i + 1]
               e1 == cs[i + 1]
               p1 == ps[i]
               o1 == os[i]
               q1 == ps[i + 1]
               r1 == os[i + 1]
               g == s[i]
    <3>5. /\ b1 \in Stacks /\ c1 \in Stacks /\ d1 \in Stacks /\ e1 \in Stacks
          /\ p1 \in Nat /\ o1 \in Nat /\ q1 \in Nat /\ r1 \in Nat
          /\ Below(b1, c1) /\ Below(d1, e1) /\ p1 <= o1 /\ r1 <= q1
          /\ Does(g, c1, p1, d1, q1)
      BY <3>2, <3>3, <3>4
    <3>6. Does(g, b1, o1, e1, r1)
      <4> HIDE DEF b1, c1, d1, e1, p1, o1, q1, r1, g
      <4>1. QED
        BY <3>5, DoesKeeps
    <3>7. QED
      BY <3>6
  <2>8. ASSUME NEW i \in 2 .. n PROVE Follows(s[i - 1], s[i], cs[i])
    BY <2>2, <2>6 DEF Chain, n
  <2>9. Chain(s, cs, os)
    BY <2>4, <2>7, <2>8 DEF Chain, n
  <2>10. QED
    BY <1>2, <2>1, <2>6, <2>9 DEF Runs, n
<1>3. QED
  BY <1>1, <1>2

\* One goal after another list of goals.
LEMMA RunsOn ==
  ASSUME NEW b \in Stacks, NEW c \in Stacks, NEW d \in Stacks,
         NEW p \in Nat, NEW q \in Nat, NEW r \in Nat,
         NEW s, NEW t, Sequential(s), Sequential(t),
         Runs(s, b, p, c, q), Runs(t, c, q, d, r),
         s # << >> /\ t # << >> => Follows(s[Len(s)], t[1], c)
  PROVE  Runs(s \o t, b, p, d, r)
<1>0. b \in Stacks /\ Below(b, b) /\ Below(d, d) /\ p <= p /\ r <= r
  BY BelowIsOrder
<1>1. CASE s = << >>
  <2>1. Below(b, c) /\ q <= p
    BY <1>1 DEF Runs
  <2>2. Runs(t, b, p, d, r)
    BY <1>0, <2>1, RunsKeeps
  <2>3. s \o t = t
    BY <1>1, ConcatEmptySeq DEF Sequential
  <2>4. QED
    BY <2>2, <2>3
<1>2. CASE t = << >>
  <2>1. Below(c, d) /\ r <= q
    BY <1>2 DEF Runs
  <2>2. Runs(s, b, p, d, r)
    BY <1>0, <2>1, RunsKeeps
  <2>3. s \o t = s
    BY <1>2, ConcatEmptySeq DEF Sequential
  <2>4. QED
    BY <2>2, <2>3
<1>3. CASE s # << >> /\ t # << >>
  <2> DEFINE m == Len(s)
             n == Len(t)
             u == s \o t
  <2>1. /\ m \in Nat \ {0} /\ n \in Nat \ {0} /\ Sequential(u) /\ Len(u) = m + n
        /\ \A i \in 1 .. m + n : u[i] = IF i <= m THEN s[i] ELSE t[i - m]
        /\ u # << >>
    BY <1>3, SequencesAre, TailIs
  <2>2. PICK bs, ps : /\ Chain(s, bs, ps)
                      /\ bs[1] = b /\ ps[1] = p /\ bs[m + 1] = c /\ ps[m + 1] = q
    BY <1>3 DEF Runs
  <2>3. PICK cs, qs : /\ Chain(t, cs, qs)
                      /\ cs[1] = c /\ qs[1] = q /\ cs[n + 1] = d /\ qs[n + 1] = r
    BY <1>3 DEF Runs
  <2>4. Follows(s[m], t[1], c)
    BY <1>3
  <2> HIDE DEF m, n, u
  <2> DEFINE ds == [i \in 1 .. m + n + 1 |-> IF i <= m THEN bs[i] ELSE cs[i - m]]
             rs == [i \in 1 .. m + n + 1 |-> IF i <= m THEN ps[i] ELSE qs[i - m]]
  <2>5. /\ bs \in [1 .. m + 1 -> Stacks] /\ ps \in [1 .. m + 1 -> Nat]
        /\ cs \in [1 .. n + 1 -> Stacks] /\ qs \in [1 .. n + 1 -> Nat]
    BY <2>2, <2>3 DEF Chain, m, n
  <2>6. ds \in [1 .. m + n + 1 -> Stacks] /\ rs \in [1 .. m + n + 1 -> Nat]
    BY <2>1, <2>5
  <2>7. /\ \A i \in 1 .. m + 1 : ds[i] = bs[i] /\ rs[i] = ps[i]
        /\ \A i \in 1 .. n + 1 : ds[i + m] = cs[i] /\ rs[i + m] = qs[i]
    BY <2>1, <2>2, <2>3
  <2> HIDE DEF ds, rs
  <2>8. ASSUME NEW i \in 1 .. m + n PROVE Does(u[i], ds[i], rs[i], ds[i + 1], rs[i + 1])
    <3>1. CASE i <= m
      <4>1. i \in 1 .. m /\ i \in 1 .. m + 1 /\ i + 1 \in 1 .. m + 1 /\ u[i] = s[i]
        BY <2>1, <3>1
      <4>2. Does(s[i], bs[i], ps[i], bs[i + 1], ps[i + 1])
        BY <2>2, <4>1 DEF Chain, m
      <4>3. QED
        BY <2>7, <4>1, <4>2
    <3>2. CASE i > m
      <4> DEFINE j == i - m
      <4>1. j \in 1 .. n /\ j \in 1 .. n + 1 /\ j + 1 \in 1 .. n + 1 /\ u[i] = t[j]
            /\ j + m = i /\ j + 1 + m = i + 1
        BY <2>1, <3>2
      <4> HIDE DEF j
      <4>2. Does(t[j], cs[j], qs[j], cs[j + 1], qs[j + 1])
        BY <2>3, <4>1 DEF Chain, n
      <4>3. ds[i] = cs[j] /\ rs[i] = qs[j] /\ ds[i + 1] = cs[j + 1] /\ rs[i + 1] = qs[j + 1]
        BY <2>7, <4>1
      <4>4. QED
        BY <4>1, <4>2, <4>3
    <3>3. QED
      BY <2>1, <3>1, <3>2
  <2>9. ASSUME NEW i \in 2 .. m + n PROVE Follows(u[i - 1], u[i], ds[i])
    <3>1. CASE i <= m
      <4>1. /\ i \in 2 .. m /\ i \in 1 .. m + 1 /\ i \in 1 .. m + n /\ i - 1 \in 1 .. m + n
            /\ i - 1 <= m
        BY <2>1, <3>1
      <4>2. Follows(s[i - 1], s[i], bs[i])
        BY <2>2, <4>1 DEF Chain, m
      <4>3. u[i - 1] = s[i - 1] /\ u[i] = s[i] /\ ds[i] = bs[i]
        BY <2>1, <2>7, <3>1, <4>1
      <4>4. QED
        BY <4>2, <4>3
    <3>2. CASE i = m + 1
      <4>0. /\ i - 1 = m /\ m \in 1 .. m + n /\ m + 1 \in 1 .. m + n /\ m + 1 - m = 1
            /\ ~ (m + 1 <= m) /\ m + 1 \in 1 .. m + 1
        BY <2>1, <3>2
      <4>1. u[i - 1] = s[m] /\ u[i] = t[1] /\ ds[i] = c
        BY <2>1, <2>2, <2>7, <3>2, <4>0
      <4>2. QED
        BY <2>4, <4>1
    <3>3. CASE i > m + 1
      <4> DEFINE j == i - m
      <4>1. j \in 2 .. n /\ j \in 1 .. n + 1 /\ u[i] = t[j] /\ u[i - 1] = t[j - 1]
            /\ j + m = i
        BY <2>1, <3>3
      <4> HIDE DEF j
      <4>2. Follows(t[j - 1], t[j], cs[j])
        BY <2>3, <4>1 DEF Chain, n
      <4>3. ds[i] = cs[j]
        BY <2>7, <4>1
      <4>4. QED
        BY <4>1, <4>2, <4>3
    <3>4. QED
      BY <2>1, <3>1, <3>2, <3>3
  <2>10. Chain(u, ds, rs)
    BY <2>1, <2>6, <2>8, <2>9 DEF Chain
  <2>11. /\ ds[1] = b /\ rs[1] = p /\ ds[m + n + 1] = d /\ rs[m + n + 1] = r
    <3>1. 1 \in 1 .. m + 1 /\ n + 1 \in 1 .. n + 1 /\ n + 1 + m = m + n + 1
      BY <2>1
    <3>2. QED
      BY <2>2, <2>3, <2>7, <3>1
  <2>12. Runs(u, b, p, d, r)
    BY <2>1, <2>10, <2>11 DEF Runs
  <2>13. QED
    BY <2>12 DEF u
<1>4. QED
  BY <1>1, <1>2, <1>3

\* The first goal, and the others from what it leaves.
LEMMA RunsHead ==
  ASSUME NEW b, NEW p, NEW c, NEW q, NEW s, s # << >>, Runs(s, b, p, c, q)
  PROVE  \E d \in Stacks, o \in Nat :
           /\ Does(s[1], b, p, d, o) /\ Runs(Tail(s), d, o, c, q)
           /\ Tail(s) # << >> => Follows(s[1], Tail(s)[1], d)
<1> DEFINE n == Len(s)
           t == Tail(s)
<1>1. /\ n \in Nat \ {0} /\ Sequential(t) /\ Len(t) = n - 1
      /\ \A i \in 1 .. n - 1 : t[i] = s[i + 1]
      /\ t = << >> <=> n = 1
  BY TailIs DEF Runs
<1>2. PICK bs, ps : /\ Chain(s, bs, ps)
                    /\ bs[1] = b /\ ps[1] = p /\ bs[n + 1] = c /\ ps[n + 1] = q
  BY DEF Runs
<1>3. /\ bs \in [1 .. n + 1 -> Stacks] /\ ps \in [1 .. n + 1 -> Nat]
      /\ \A i \in 1 .. n : Does(s[i], bs[i], ps[i], bs[i + 1], ps[i + 1])
      /\ \A i \in 2 .. n : Follows(s[i - 1], s[i], bs[i])
  BY <1>2 DEF Chain
<1> HIDE DEF n, t
<1> DEFINE cs == [i \in 1 .. n |-> bs[i + 1]]
           os == [i \in 1 .. n |-> ps[i + 1]]
<1>4. cs \in [1 .. n -> Stacks] /\ os \in [1 .. n -> Nat]
  BY <1>1, <1>3
<1>5. 1 \in 1 .. n /\ n \in 1 .. n /\ 2 \in 1 .. n + 1 /\ 1 + 1 = 2
  BY <1>1
<1>6. bs[2] \in Stacks /\ ps[2] \in Nat /\ Does(s[1], b, p, bs[2], ps[2])
  BY <1>2, <1>3, <1>5
<1>7. /\ \A i \in 1 .. n : cs[i] = bs[i + 1] /\ os[i] = ps[i + 1]
      /\ cs[1] = bs[2] /\ os[1] = ps[2]
  BY <1>5
<1> HIDE DEF cs, os
<1>8. Runs(t, bs[2], ps[2], c, q)
  <2>1. CASE t = << >>
    <3>1. n = 1 /\ bs[2] = c /\ ps[2] = q
      BY <1>1, <1>2, <2>1
    <3>2. QED
      BY <1>6, <2>1, <3>1, BelowIsOrder DEF Runs
  <2>2. CASE t # << >>
    <3>1. cs \in [1 .. Len(t) + 1 -> Stacks] /\ os \in [1 .. Len(t) + 1 -> Nat]
      BY <1>1, <1>4
    <3>2. ASSUME NEW i \in 1 .. Len(t) PROVE Does(t[i], cs[i], os[i], cs[i + 1], os[i + 1])
      <4>1. i \in 1 .. n - 1 /\ i \in 1 .. n /\ i + 1 \in 1 .. n
        BY <1>1, <3>2
      <4>2. Does(s[i + 1], bs[i + 1], ps[i + 1], bs[(i + 1) + 1], ps[(i + 1) + 1])
        BY <1>3, <4>1
      <4>3. t[i] = s[i + 1]
        BY <1>1, <4>1
      <4>4. QED
        BY <1>7, <4>1, <4>2, <4>3
    <3>3. ASSUME NEW i \in 2 .. Len(t) PROVE Follows(t[i - 1], t[i], cs[i])
      <4>1. /\ i \in 1 .. n - 1 /\ i - 1 \in 1 .. n - 1 /\ i \in 1 .. n /\ i + 1 \in 2 .. n
            /\ (i - 1) + 1 = i /\ (i + 1) - 1 = i
        BY <1>1, <3>3
      <4>2. Follows(s[(i + 1) - 1], s[i + 1], bs[i + 1])
        BY <1>3, <4>1
      <4>3. t[i - 1] = s[i] /\ t[i] = s[i + 1] /\ cs[i] = bs[i + 1]
        BY <1>1, <1>7, <4>1
      <4>4. QED
        BY <4>1, <4>2, <4>3
    <3>4. Chain(t, cs, os)
      BY <3>1, <3>2, <3>3 DEF Chain
    <3>5. cs[Len(t) + 1] = c /\ os[Len(t) + 1] = q
      BY <1>1, <1>2, <1>5, <1>7
    <3>6. QED
      BY <1>1, <1>7, <2>2, <3>4, <3>5 DEF Runs
  <2>3. QED
    BY <2>1, <2>2
<1>9. t # << >> => Follows(s[1], t[1], bs[2])
  <2> SUFFICES ASSUME t # << >> PROVE Follows(s[1], t[1], bs[2])
    OBVIOUS
  <2>1. 2 \in 2 .. n /\ 1 \in 1 .. n - 1 /\ 2 - 1 = 1
    BY <1>1
  <2>2. Follows(s[2 - 1], s[2], bs[2])
    BY <1>3, <2>1
  <2>3. t[1] = s[2]
    BY <1>1, <1>5, <2>1
  <2>4. QED
    BY <2>1, <2>2, <2>3
<1>10. QED
  BY <1>6, <1>8, <1>9 DEF t

\* A goal that needs nothing of the one before it.
Plain(g) == g[1] # "climb" /\ ~ IsBinary(g)

LEMMA One ==
  ASSUME NEW b \in Stacks, NEW c \in Stacks, NEW p \in Nat, NEW q \in Nat,
         NEW g, Does(g, b, p, c, q)
  PROVE  Runs(<<g>>, b, p, c, q) /\ Sequential(<<g>>)
<1> DEFINE s == <<g>>
<1>1. s \in Seq({g}) /\ Len(s) = 1 /\ s[1] = g /\ s # << >>
  OBVIOUS
<1> HIDE DEF s
<1> DEFINE bs == [i \in 1 .. 2 |-> IF i = 1 THEN b ELSE c]
           ps == [i \in 1 .. 2 |-> IF i = 1 THEN p ELSE q]
<1>2. /\ bs \in [1 .. 2 -> Stacks] /\ ps \in [1 .. 2 -> Nat]
      /\ bs[1] = b /\ bs[2] = c /\ ps[1] = p /\ ps[2] = q
  OBVIOUS
<1> HIDE DEF bs, ps
<1>3. Chain(s, bs, ps)
  <2>1. 1 + 1 = 2 /\ 1 .. 1 = {1} /\ 2 .. 1 = {}
    OBVIOUS
  <2>2. \A i \in 1 .. 1 : Does(s[i], bs[i], ps[i], bs[i + 1], ps[i + 1])
    BY <1>1, <1>2, <2>1
  <2>3. \A i \in 2 .. 1 : Follows(s[i - 1], s[i], bs[i])
    BY <2>1
  <2>4. QED
    BY <1>1, <1>2, <2>1, <2>2, <2>3 DEF Chain
<1>4. Runs(s, b, p, c, q)
  BY <1>1, <1>2, <1>3 DEF Runs, Sequential
<1>5. QED
  BY <1>1, <1>4 DEF s, Sequential

LEMMA Then ==
  ASSUME NEW b \in Stacks, NEW c \in Stacks, NEW d \in Stacks,
         NEW p \in Nat, NEW q \in Nat, NEW r \in Nat,
         NEW g, NEW t, Sequential(t), t # << >>,
         Does(g, b, p, c, q), Runs(t, c, q, d, r), Follows(g, t[1], c)
  PROVE  Runs(<<g>> \o t, b, p, d, r) /\ Sequential(<<g>> \o t)
<1> DEFINE s == <<g>>
<1>1. Len(s) = 1 /\ s[1] = g /\ Runs(s, b, p, c, q) /\ Sequential(s)
  BY One
<1> HIDE DEF s
<1>2. Runs(s \o t, b, p, d, r)
  BY <1>1, RunsOn
<1>3. QED
  BY <1>1, <1>2, SequencesAre DEF s

LEMMA PlainFollows ==
  ASSUME NEW f, NEW g, NEW b, Plain(g)
  PROVE  Follows(f, g, b)
BY DEF Plain, Follows

LEMMA InFront ==
  ASSUME NEW g, NEW t, NEW u, Sequential(t), Sequential(u), Len(u) = Len(t) + 1,
         u[1] = g, \A i \in 1 .. Len(t) : u[i + 1] = t[i]
  PROVE  <<g>> \o t = u
<1> DEFINE s == <<g>>
<1>1. Len(s) = 1 /\ s[1] = g /\ s \in Seq({g})
  OBVIOUS
<1> HIDE DEF s
<1>2. /\ Sequential(s \o t) /\ Len(s \o t) = Len(s) + Len(t) /\ Len(t) \in Nat
      /\ \A i \in 1 .. Len(s) + Len(t) :
           (s \o t)[i] = IF i <= Len(s) THEN s[i] ELSE t[i - Len(s)]
  BY <1>1, SequencesAre, ZenonT(60) DEF Sequential
<1>3. ASSUME NEW i \in 1 .. Len(u) PROVE (s \o t)[i] = u[i]
  <2>0. i = 1 \/ i > 1
    BY <1>2
  <2>1. CASE i = 1
    BY <1>1, <1>2, <2>1
  <2>2. CASE i > 1
    <3>1. i - 1 \in 1 .. Len(t) /\ (i - 1) + 1 = i /\ ~ (i <= 1) /\ i \in 1 .. 1 + Len(t)
      BY <1>2, <2>2
    <3>2. u[i] = t[i - 1]
      BY <3>1
    <3>3. (s \o t)[i] = t[i - 1]
      BY <1>1, <1>2, <3>1
    <3>4. QED
      BY <3>2, <3>3
  <2>3. QED
    BY <2>0, <2>1, <2>2
<1>4. PICK S, T : s \o t \in Seq(S) /\ u \in Seq(T)
  BY <1>2 DEF Sequential
<1>5. s \o t \in Seq(S \cup T) /\ u \in Seq(S \cup T)
  BY <1>4, SeqMonotonic
<1>6. s \o t = u
  BY <1>1, <1>2, <1>3, <1>5, SeqEqual
<1>7. QED
  BY <1>6 DEF s

LEMMA PlainThen ==
  ASSUME NEW b \in Stacks, NEW c \in Stacks, NEW d \in Stacks,
         NEW p \in Nat, NEW q \in Nat, NEW r \in Nat,
         NEW g, NEW t, NEW u, Sequential(t), t # << >>,
         Sequential(u), Len(u) = Len(t) + 1,
         u[1] = g, \A i \in 1 .. Len(t) : u[i + 1] = t[i],
         Does(g, b, p, c, q), Runs(t, c, q, d, r), Plain(t[1])
  PROVE  Runs(u, b, p, d, r)
<1>1. <<g>> \o t = u
  BY InFront
<1>2. Follows(g, t[1], c)
  BY PlainFollows
<1>3. Runs(<<g>> \o t, b, p, d, r)
  BY <1>2, Then
<1>4. QED
  BY <1>1, <1>3

LEMMA Two ==
  ASSUME NEW b0 \in Stacks, NEW b1 \in Stacks, NEW b2 \in Stacks,
         NEW p0 \in Nat, NEW p1 \in Nat, NEW p2 \in Nat, NEW g1, NEW g2,
         Does(g1, b0, p0, b1, p1), Does(g2, b1, p1, b2, p2), Plain(g2)
  PROVE  Runs(<<g1, g2>>, b0, p0, b2, p2)
<1> DEFINE t == <<g2>>
           u == <<g1, g2>>
<1>1. Runs(t, b1, p1, b2, p2)
  BY One
<1>2. t \in Seq({g2}) /\ u \in Seq({g1, g2})
  OBVIOUS
<1>3. t # << >> /\ t[1] = g2 /\ Len(t) = 1 /\ Len(u) = 2 /\ u[1] = g1
  OBVIOUS
<1>4. u[2] = t[1]
  OBVIOUS
<1> HIDE DEF t, u
<1>5. Len(u) = Len(t) + 1 /\ \A i \in 1 .. Len(t) : u[i + 1] = t[i]
  BY <1>3, <1>4
<1>6. Sequential(t) /\ Sequential(u)
  BY <1>2 DEF Sequential
<1>7. Runs(u, b0, p0, b2, p2)
  BY <1>1, <1>3, <1>5, <1>6, PlainThen
<1>8. QED
  BY <1>7 DEF u

LEMMA Three ==
  ASSUME NEW b0 \in Stacks, NEW b1 \in Stacks, NEW b2 \in Stacks,
         NEW b3 \in Stacks, NEW p0 \in Nat, NEW p1 \in Nat, NEW p2 \in Nat,
         NEW p3 \in Nat, NEW g1, NEW g2, NEW g3, Does(g1, b0, p0, b1, p1),
         Does(g2, b1, p1, b2, p2), Does(g3, b2, p2, b3, p3), Plain(g2),
         Plain(g3)
  PROVE  Runs(<<g1, g2, g3>>, b0, p0, b3, p3)
<1> DEFINE t == <<g2, g3>>
           u == <<g1, g2, g3>>
<1>1. Runs(t, b1, p1, b3, p3)
  BY Two
<1>2. t \in Seq({g2, g3}) /\ u \in Seq({g1, g2, g3})
  OBVIOUS
<1>3. t # << >> /\ t[1] = g2 /\ Len(t) = 2 /\ Len(u) = 3 /\ u[1] = g1
  OBVIOUS
<1>4. u[2] = t[1] /\ u[3] = t[2]
  OBVIOUS
<1> HIDE DEF t, u
<1>5. Len(u) = Len(t) + 1 /\ \A i \in 1 .. Len(t) : u[i + 1] = t[i]
  BY <1>3, <1>4
<1>6. Sequential(t) /\ Sequential(u)
  BY <1>2 DEF Sequential
<1>7. Runs(u, b0, p0, b3, p3)
  BY <1>1, <1>3, <1>5, <1>6, PlainThen
<1>8. QED
  BY <1>7 DEF u

LEMMA Four ==
  ASSUME NEW b0 \in Stacks, NEW b1 \in Stacks, NEW b2 \in Stacks,
         NEW b3 \in Stacks, NEW b4 \in Stacks, NEW p0 \in Nat, NEW p1 \in Nat,
         NEW p2 \in Nat, NEW p3 \in Nat, NEW p4 \in Nat, NEW g1, NEW g2,
         NEW g3, NEW g4, Does(g1, b0, p0, b1, p1), Does(g2, b1, p1, b2, p2),
         Does(g3, b2, p2, b3, p3), Does(g4, b3, p3, b4, p4), Plain(g2),
         Plain(g3), Plain(g4)
  PROVE  Runs(<<g1, g2, g3, g4>>, b0, p0, b4, p4)
<1> DEFINE t == <<g2, g3, g4>>
           u == <<g1, g2, g3, g4>>
<1>1. Runs(t, b1, p1, b4, p4)
  BY Three
<1>2. t \in Seq({g2, g3, g4}) /\ u \in Seq({g1, g2, g3, g4})
  OBVIOUS
<1>3. t # << >> /\ t[1] = g2 /\ Len(t) = 3 /\ Len(u) = 4 /\ u[1] = g1
  OBVIOUS
<1>4. u[2] = t[1] /\ u[3] = t[2] /\ u[4] = t[3]
  OBVIOUS
<1> HIDE DEF t, u
<1>5. Len(u) = Len(t) + 1 /\ \A i \in 1 .. Len(t) : u[i + 1] = t[i]
  BY <1>3, <1>4
<1>6. Sequential(t) /\ Sequential(u)
  BY <1>2 DEF Sequential
<1>7. Runs(u, b0, p0, b4, p4)
  BY <1>1, <1>3, <1>5, <1>6, PlainThen
<1>8. QED
  BY <1>7 DEF u

LEMMA Five ==
  ASSUME NEW b0 \in Stacks, NEW b1 \in Stacks, NEW b2 \in Stacks,
         NEW b3 \in Stacks, NEW b4 \in Stacks, NEW b5 \in Stacks,
         NEW p0 \in Nat, NEW p1 \in Nat, NEW p2 \in Nat, NEW p3 \in Nat,
         NEW p4 \in Nat, NEW p5 \in Nat, NEW g1, NEW g2, NEW g3, NEW g4,
         NEW g5, Does(g1, b0, p0, b1, p1), Does(g2, b1, p1, b2, p2),
         Does(g3, b2, p2, b3, p3), Does(g4, b3, p3, b4, p4),
         Does(g5, b4, p4, b5, p5), Plain(g2), Plain(g3), Plain(g4), Plain(g5)
  PROVE  Runs(<<g1, g2, g3, g4, g5>>, b0, p0, b5, p5)
<1> DEFINE t == <<g2, g3, g4, g5>>
           u == <<g1, g2, g3, g4, g5>>
<1>1. Runs(t, b1, p1, b5, p5)
  BY Four
<1>2. t \in Seq({g2, g3, g4, g5}) /\ u \in Seq({g1, g2, g3, g4, g5})
  OBVIOUS
<1>3. t # << >> /\ t[1] = g2 /\ Len(t) = 4 /\ Len(u) = 5 /\ u[1] = g1
  OBVIOUS
<1>4. u[2] = t[1] /\ u[3] = t[2] /\ u[4] = t[3] /\ u[5] = t[4]
  OBVIOUS
<1> HIDE DEF t, u
<1>5. Len(u) = Len(t) + 1 /\ \A i \in 1 .. Len(t) : u[i + 1] = t[i]
  BY <1>3, <1>4
<1>6. Sequential(t) /\ Sequential(u)
  BY <1>2 DEF Sequential
<1>7. Runs(u, b0, p0, b5, p5)
  BY <1>1, <1>3, <1>5, <1>6, PlainThen
<1>8. QED
  BY <1>7 DEF u

LEMMA Six ==
  ASSUME NEW b0 \in Stacks, NEW b1 \in Stacks, NEW b2 \in Stacks,
         NEW b3 \in Stacks, NEW b4 \in Stacks, NEW b5 \in Stacks,
         NEW b6 \in Stacks, NEW p0 \in Nat, NEW p1 \in Nat, NEW p2 \in Nat,
         NEW p3 \in Nat, NEW p4 \in Nat, NEW p5 \in Nat, NEW p6 \in Nat,
         NEW g1, NEW g2, NEW g3, NEW g4, NEW g5, NEW g6,
         Does(g1, b0, p0, b1, p1), Does(g2, b1, p1, b2, p2),
         Does(g3, b2, p2, b3, p3), Does(g4, b3, p3, b4, p4),
         Does(g5, b4, p4, b5, p5), Does(g6, b5, p5, b6, p6), Plain(g2),
         Plain(g3), Plain(g4), Plain(g5), Plain(g6)
  PROVE  Runs(<<g1, g2, g3, g4, g5, g6>>, b0, p0, b6, p6)
<1> DEFINE t == <<g2, g3, g4, g5, g6>>
           u == <<g1, g2, g3, g4, g5, g6>>
<1>1. Runs(t, b1, p1, b6, p6)
  BY Five
<1>2. t \in Seq({g2, g3, g4, g5, g6}) /\ u \in Seq({g1, g2, g3, g4, g5, g6})
  OBVIOUS
<1>3. t # << >> /\ t[1] = g2 /\ Len(t) = 5 /\ Len(u) = 6 /\ u[1] = g1
  OBVIOUS
<1>4. u[2] = t[1] /\ u[3] = t[2] /\ u[4] = t[3] /\ u[5] = t[4] /\ u[6] = t[5]
  OBVIOUS
<1> HIDE DEF t, u
<1>5. Len(u) = Len(t) + 1 /\ \A i \in 1 .. Len(t) : u[i + 1] = t[i]
  BY <1>3, <1>4
<1>6. Sequential(t) /\ Sequential(u)
  BY <1>2 DEF Sequential
<1>7. Runs(u, b0, p0, b6, p6)
  BY <1>1, <1>3, <1>5, <1>6, PlainThen
<1>8. QED
  BY <1>7 DEF u

-----------------------------------------------------------------------------
(* What single goals do                                                    *)

LEMMA KindsAre ==
  {"identifier", "literal", "i32", "use", "await", ",", "::", "[", "]", "(", ")",
   "{", "}", ":", ";", "#", "->", ".", "..", "=", ":=", "<", "if", "else", "loop",
   "while", "for", "match", "break", "continue", "ret"}
    \cup Declarations \cup Attributes \cup UnaryOperators \cup BinaryOperators
    \subseteq TokenKind \ {"eof"}
BY DEF TokenKind, Declarations, Attributes, UnaryOperators, BinaryOperators,
       ControlFlow, Punctuation

\* The kinds of nodes that are no binary expressions.
LEMMA OtherKinds ==
  /\ {"..", "prefix", "unknown", "postfix", "literal", "index", "call",
      "method call", "macro call", "field access", "await", "construct",
      "grouped", "if", "loop", "while", "for", "match", "closure", "block",
      "assign", "attribute", "use"} \cap BinaryOperators = {}
  /\ (ControlFlow \cup Declarations) \cap BinaryOperators = {}
BY DEF BinaryOperators, ControlFlow, Declarations

LEMMA YieldsPush ==
  ASSUME NEW b \in Stacks, NEW x \in Nat
  PROVE  Append(b, x) \in Stacks /\ Yields(b, 0, x, Append(b, x))
<1>1. 0 <= Len(b) /\ Cut(b, 0) = b
  BY CutNone DEF Stacks
<1>2. Append(b, x) \in Stacks
  BY PushIs
<1>3. QED
  BY <1>1, <1>2, BelowIsOrder DEF Yields

\* The last node of the n + 1 is one that was made in between.
LEMMA YieldsMore ==
  ASSUME NEW b \in Stacks, NEW c \in Stacks, NEW n \in Nat, NEW x \in Nat,
         NEW y \in Nat, Yields(b, n, x, c)
  PROVE  Yields(Append(b, y), n + 1, x, c)
<1>1. n \in 0 .. Len(b) /\ Len(b) \in Nat
  BY DEF Stacks, Yields
<1>2. Cut(Append(b, y), n + 1) = Cut(b, n)
  BY <1>1, CutPush
<1>3. n + 1 <= Len(Append(b, y))
  BY <1>1, PushIs
<1>4. QED
  BY <1>2, <1>3 DEF Yields

LEMMA CutMore ==
  ASSUME NEW b \in Stacks, NEW c \in Stacks, NEW n \in Nat, NEW y \in Nat,
         n <= Len(b), Below(Cut(b, n), c)
  PROVE  n + 1 <= Len(Append(b, y)) /\ Below(Cut(Append(b, y), n + 1), c)
<1>1. n \in 0 .. Len(b) /\ Len(b) \in Nat
  BY DEF Stacks
<1>2. Cut(Append(b, y), n + 1) = Cut(b, n)
  BY <1>1, CutPush
<1>3. n + 1 <= Len(Append(b, y))
  BY <1>1, PushIs
<1>4. QED
  BY <1>2, <1>3

LEMMA ConsumeDoes ==
  ASSUME NEW b \in Stacks, NEW c \in Stacks, NEW p \in Nat, NEW q \in Nat,
         Below(b, c), q <= p + 1, NEW kind \in TokenKind \ {"eof"}
  PROVE  /\ Does(Consume(kind), b, p, c, q) /\ Plain(Consume(kind))
         /\ Does(<<"consume_only", kind>>, b, p, c, q)
         /\ Plain(<<"consume_only", kind>>)
         /\ Does(<<"skip">>, b, p, c, q) /\ Plain(<<"skip">>)
BY DEF Does, Changes, Moves, Consume, Plain, IsBinary

LEMMA FailDoes ==
  ASSUME NEW b \in Stacks, NEW c \in Stacks, NEW p \in Nat, NEW q \in Nat, NEW id
  PROVE  /\ Does(<<"fail", id>>, b, p, c, q) /\ Plain(<<"fail", id>>)
         /\ Runs(Fail(id), b, p, c, q)
<1>1. Does(<<"fail", id>>, b, p, c, q) /\ Plain(<<"fail", id>>)
  BY DEF Does, Plain, IsBinary
<1>2. QED
  BY <1>1, One DEF Fail

\* A goal with no rule of its own for the stream, nor for the goal before it.
LEMMA NamedDoes ==
  ASSUME NEW b \in Stacks, NEW c \in Stacks, NEW p \in Nat, NEW q \in Nat, q <= p,
         NEW g, Changes(g, b, c),
         g[1] \notin {"consume", "consume_only", "skip", "rewind", "prefix",
                      "storage_attributes", "climb", "node"}
  PROVE  Does(g, b, p, c, q) /\ Plain(g)
<1>1. Moves(g) = 0
  BY DEF Moves
<1>2. q <= p + Moves(g)
  BY <1>1
<1>3. QED
  BY <1>2 DEF Does, Plain, IsBinary

LEMMA FlatDoes ==
  ASSUME NEW b \in Stacks, NEW c \in Stacks, NEW p \in Nat, NEW q \in Nat,
         Below(b, c), q <= p, NEW g,
         g[1] \in Flat \/ (g[1] \in {"list", "list_more"} /\ g[2] \in Flat)
  PROVE  Does(g, b, p, c, q) /\ Plain(g)
<1>1. g[1] \notin {"consume", "consume_only", "skip", "rewind", "prefix",
                   "storage_attributes", "climb", "node"}
  BY DEF Flat
<1>2. Changes(g, b, c)
  BY DEF Changes
<1>3. QED
  BY <1>1, <1>2, NamedDoes

LEMMA StorageDoes ==
  ASSUME NEW b \in Stacks, NEW c \in Stacks, NEW p \in Nat, NEW q \in Nat,
         Below(b, c), NEW seen, q <= p, seen # {} => q + 1 <= p
  PROVE  Does(<<"storage_attributes", seen>>, b, p, c, q)
         /\ Plain(<<"storage_attributes", seen>>)
BY DEF Does, Changes, Moves, Plain, IsBinary

LEMMA OperandDoes ==
  ASSUME NEW b \in Stacks, NEW c \in Stacks, NEW p \in Nat, NEW q \in Nat, q <= p,
         NEW g,
         \/ g[1] \in Operands /\ Yields(b, 0, 0, c)
         \/ g[1] = "value" /\ g[2] \in ControlFlow /\ Yields(b, 0, 0, c)
         \/ g[1] \in Expressions /\ Yields(b, 0, kLowest, c)
         \/ g[1] = "binary" /\ g[2] \in Nat /\ Yields(b, 0, g[2], c)
  PROVE  Does(g, b, p, c, q) /\ Plain(g)
<1>1. g[1] \notin {"consume", "consume_only", "skip", "rewind", "prefix",
                   "storage_attributes", "climb", "node"}
  BY DEF Operands, Expressions
<1>2. Changes(g, b, c)
  BY DEF Changes
<1>3. QED
  BY <1>1, <1>2, NamedDoes

LEMMA ExtensionDoes ==
  ASSUME NEW b \in Stacks, NEW c \in Stacks, NEW p \in Nat, NEW q \in Nat, q <= p,
         NEW g,
         \/ g[1] \in Extensions /\ Yields(b, 1, 0, c) /\ Top(b) = 0
         \/ g[1] = "apply_prefix" /\ g[2] \in Nat /\ Yields(b, 1, 0, c) /\ Top(b) = 0
         \/ g[1] = "call" /\ g[2] \in {"call", "method call"} /\ Yields(b, 1, 0, c)
         \/ /\ g[1] \in {"range_operator", "range_end"}
            /\ Yields(b, 1, kLowest, c) /\ Top(b) <= kLowest
  PROVE  Does(g, b, p, c, q) /\ Plain(g)
<1>1. g[1] \notin {"consume", "consume_only", "skip", "rewind", "prefix",
                   "storage_attributes", "climb", "node"}
  BY DEF Extensions
<1>2. Changes(g, b, c)
  BY DEF Changes
<1>3. QED
  BY <1>1, <1>2, NamedDoes

LEMMA NodeDoes ==
  ASSUME NEW b \in Stacks, NEW c \in Stacks, NEW p \in Nat, NEW q \in Nat, q <= p,
         NEW kind, kind \notin BinaryOperators, NEW n \in Nat, Yields(b, n, 0, c)
  PROVE  Does(Node(kind, n), b, p, c, q) /\ Plain(Node(kind, n))
<1>1. Level(kind) = 0
  BY DEF Level
<1>2. QED
  BY <1>1 DEF Does, Changes, Moves, Plain, IsBinary, Node

LEMMA GatherDoes ==
  ASSUME NEW b \in Stacks, NEW c \in Stacks, NEW p \in Nat, NEW q \in Nat, q <= p,
         NEW g,
         \/ /\ g[1] \in {"payload", "range", "sequence", "sequence_more"}
            /\ g[2] \in Nat /\ g[2] <= Len(b) /\ Below(Cut(b, g[2]), c)
         \/ /\ g[1] = "body" /\ g[2] \in {"statement", "declaration"}
            /\ g[3] \in Nat /\ g[3] <= Len(b) /\ Below(Cut(b, g[3]), c)
         \/ /\ g[1] \in {"construct", "construct_more"}
            /\ g[2] \in Nat /\ Yields(b, g[2] + 1, 0, c)
  PROVE  Does(g, b, p, c, q) /\ Plain(g)
<1>1. g[1] \notin {"consume", "consume_only", "skip", "rewind", "prefix",
                   "storage_attributes", "climb", "node"}
  OBVIOUS
<1>2. Changes(g, b, c)
  BY DEF Changes
<1>3. QED
  BY <1>1, <1>2, NamedDoes

\* What the procedures are made of, between b and what they leave of it.
LEMMA SameDoes ==
  ASSUME NEW b \in Stacks, NEW p \in Nat
  PROVE  /\ \A kind \in TokenKind \ {"eof"} :
              Does(Consume(kind), b, p, b, p) /\ Plain(Consume(kind))
         /\ \A kind \in TokenKind \ {"eof"} :
              Does(<<"consume_only", kind>>, b, p, b, p) /\ Plain(<<"consume_only", kind>>)
         /\ Does(<<"skip">>, b, p, b, p) /\ Plain(<<"skip">>)
         /\ \A g : g[1] \in Flat \/ (g[1] \in {"list", "list_more"} /\ g[2] \in Flat)
                     => Does(g, b, p, b, p) /\ Plain(g)
         /\ Does(<<"storage_attributes", {}>>, b, p, b, p)
         /\ Plain(<<"storage_attributes", {}>>)
         /\ Does(path, b, p, b, p) /\ Plain(path)
         /\ Does(type, b, p, b, p) /\ Plain(type)
         /\ Does(block, b, p, b, p) /\ Plain(block)
<1>1. Below(b, b) /\ p <= p /\ p <= p + 1
  BY BelowIsOrder
<1>2. ASSUME NEW kind \in TokenKind \ {"eof"}
      PROVE  /\ Does(Consume(kind), b, p, b, p) /\ Plain(Consume(kind))
             /\ Does(<<"consume_only", kind>>, b, p, b, p)
             /\ Plain(<<"consume_only", kind>>)
             /\ Does(<<"skip">>, b, p, b, p) /\ Plain(<<"skip">>)
  BY <1>1, ConsumeDoes
<1>3. Does(<<"skip">>, b, p, b, p) /\ Plain(<<"skip">>)
  BY <1>2, KindsAre
<1>4. \A g : g[1] \in Flat \/ (g[1] \in {"list", "list_more"} /\ g[2] \in Flat)
               => Does(g, b, p, b, p) /\ Plain(g)
  BY <1>1, FlatDoes
<1>5. /\ Does(<<"storage_attributes", {}>>, b, p, b, p)
      /\ Plain(<<"storage_attributes", {}>>)
  BY <1>1, StorageDoes
<1>6. path[1] \in Flat /\ type[1] \in Flat /\ block[1] \in Flat
  BY DEF path, type, block, Flat
<1>7. QED
  BY <1>2, <1>3, <1>4, <1>5, <1>6

-----------------------------------------------------------------------------
(* What procedures do                                                      *)

LEMMA RunsAre ==
  ASSUME NEW b, NEW c, NEW p, NEW q, NEW s, Runs(s, b, p, c, q)
  PROVE  Sequential(s)
<1>1. CASE s = << >>
  BY <1>1 DEF Sequential
<1>2. CASE s # << >>
  BY <1>2 DEF Runs
<1>3. QED
  BY <1>1, <1>2

\* The goal g leaves the nodes made, and may leave the stream, as they are.
Idles(g, b, p) == Does(g, b, p, b, p) /\ Plain(g)

LEMMA Idle ==
  ASSUME NEW b \in Stacks, NEW p \in Nat
  PROVE  /\ Runs(<< >>, b, p, b, p)
         /\ \A g1 : Idles(g1, b, p) => Runs(<<g1>>, b, p, b, p)
         /\ \A g1, g2 : Idles(g1, b, p) /\ Idles(g2, b, p) => Runs(<<g1, g2>>, b, p, b, p)
         /\ \A g1, g2, g3 :
              Idles(g1, b, p) /\ Idles(g2, b, p) /\ Idles(g3, b, p)
                => Runs(<<g1, g2, g3>>, b, p, b, p)
         /\ \A g1, g2, g3, g4 :
              Idles(g1, b, p) /\ Idles(g2, b, p) /\ Idles(g3, b, p) /\ Idles(g4, b, p)
                => Runs(<<g1, g2, g3, g4>>, b, p, b, p)
         /\ \A g1, g2, g3, g4, g5 :
              Idles(g1, b, p) /\ Idles(g2, b, p) /\ Idles(g3, b, p) /\ Idles(g4, b, p)
                /\ Idles(g5, b, p)
                => Runs(<<g1, g2, g3, g4, g5>>, b, p, b, p)
<1>1. Runs(<< >>, b, p, b, p)
  BY BelowIsOrder DEF Runs
<1>2. ASSUME NEW g1, Idles(g1, b, p) PROVE Runs(<<g1>>, b, p, b, p)
  BY <1>2, One DEF Idles
<1>3. ASSUME NEW g1, NEW g2, Idles(g1, b, p), Idles(g2, b, p)
      PROVE  Runs(<<g1, g2>>, b, p, b, p)
  BY <1>3, Two DEF Idles
<1>4. ASSUME NEW g1, NEW g2, NEW g3, Idles(g1, b, p), Idles(g2, b, p), Idles(g3, b, p)
      PROVE  Runs(<<g1, g2, g3>>, b, p, b, p)
  BY <1>4, Three DEF Idles
<1>5. ASSUME NEW g1, NEW g2, NEW g3, NEW g4,
             Idles(g1, b, p), Idles(g2, b, p), Idles(g3, b, p), Idles(g4, b, p)
      PROVE  Runs(<<g1, g2, g3, g4>>, b, p, b, p)
  BY <1>5, Four DEF Idles
<1>6. ASSUME NEW g1, NEW g2, NEW g3, NEW g4, NEW g5,
             Idles(g1, b, p), Idles(g2, b, p), Idles(g3, b, p), Idles(g4, b, p),
             Idles(g5, b, p)
      PROVE  Runs(<<g1, g2, g3, g4, g5>>, b, p, b, p)
  BY <1>6, Five DEF Idles
<1>7. QED
  BY <1>1, <1>2, <1>3, <1>4, <1>5, <1>6

LEMMA IdleAre ==
  ASSUME NEW b \in Stacks, NEW p \in Nat
  PROVE  /\ \A kind \in TokenKind \ {"eof"} :
              Idles(Consume(kind), b, p) /\ Idles(<<"consume_only", kind>>, b, p)
         /\ \A g : g[1] \in Flat \/ (g[1] \in {"list", "list_more"} /\ g[2] \in Flat)
                     => Idles(g, b, p)
         /\ Idles(path, b, p) /\ Idles(type, b, p) /\ Idles(block, b, p)
         /\ Idles(<<"skip">>, b, p) /\ Idles(<<"storage_attributes", {}>>, b, p)
BY SameDoes DEF Idles

LEMMA PathSteps ==
  ASSUME NEW b \in Stacks, NEW p \in Nat, NEW look \in TokenKind, NEW ahead, NEW g,
         g[1] \in {"path", "path_parts", "path_more", "type", "capture", "field",
                   "parameter", "attribute_use"}
  PROVE  Runs(Steps(g, look, ahead), b, p, b, p)
<1>1. CASE g[1] = "path"
  <2>1. Steps(g, look, ahead) = ParsePath(look)
    BY <1>1 DEF Steps
  <2>2. Idles(Consume("::"), b, p) /\ Idles(<<"path_parts", 0>>, b, p)
    BY IdleAre, KindsAre DEF Flat
  <2>3. QED
    BY <2>1, <2>2, Idle DEF ParsePath
<1>2. CASE g[1] = "path_parts"
  <2>1. Steps(g, look, ahead) = PathParts(look, g[2])
    BY <1>2 DEF Steps
  <2>2. Idles(Consume("identifier"), b, p) /\ Idles(<<"path_more", g[2] + 1>>, b, p)
    BY IdleAre, KindsAre DEF Flat
  <2>3. Runs(Fail("kExpectedButFound"), b, p, b, p)
    BY FailDoes
  <2>4. QED
    BY <2>1, <2>2, <2>3, Idle DEF PathParts, Nothing
<1>3. CASE g[1] = "path_more"
  <2>1. Steps(g, look, ahead) = PathMore(look, g[2])
    BY <1>3 DEF Steps
  <2>2. Idles(Consume("::"), b, p) /\ Idles(<<"path_parts", g[2]>>, b, p)
    BY IdleAre, KindsAre DEF Flat
  <2>3. QED
    BY <2>1, <2>2, Idle DEF PathMore, Nothing
<1>4. CASE g[1] = "type"
  <2>1. Steps(g, look, ahead) = ParseTypeReference(look)
    BY <1>4 DEF Steps
  <2>2. /\ Idles(Consume("i32"), b, p) /\ Idles(Consume("["), b, p)
        /\ Idles(<<"array_size">>, b, p) /\ Idles(<<"skip">>, b, p)
        /\ Idles(path, b, p) /\ Idles(type, b, p)
    BY IdleAre, KindsAre DEF Flat
  <2>3. Runs(Fail("kExpectedButFound"), b, p, b, p)
    BY FailDoes
  <2>4. QED
    BY <2>1, <2>2, <2>3, Idle DEF ParseTypeReference
<1>5. CASE g[1] \in {"capture", "field", "parameter"}
  <2>1. Steps(g, look, ahead) = <<path, Consume(":"), type>>
    BY <1>5 DEF Steps, ParseCapture, ParseField, ParseParameter
  <2>2. Idles(Consume(":"), b, p) /\ Idles(path, b, p) /\ Idles(type, b, p)
    BY IdleAre, KindsAre
  <2>3. QED
    BY <2>1, <2>2, Idle
<1>6. CASE g[1] = "attribute_use"
  <2>1. Steps(g, look, ahead) = ParseAttributeUse
    BY <1>6 DEF Steps
  <2>2. Idles(path, b, p) /\ Idles(<<"attribute_arguments">>, b, p)
    BY IdleAre DEF Flat
  <2>3. QED
    BY <2>1, <2>2, Idle DEF ParseAttributeUse
<1>7. QED
  BY <1>1, <1>2, <1>3, <1>4, <1>5, <1>6

\* The sequences and bodies that have no node yet.
LEMMA EmptyIdle ==
  ASSUME NEW b \in Stacks, NEW p \in Nat
  PROVE  /\ Idles(<<"sequence", 0>>, b, p)
         /\ Idles(<<"body", "statement", 0>>, b, p)
         /\ Idles(<<"body", "declaration", 0>>, b, p)
<1>1. 0 \in Nat /\ 0 <= Len(b) /\ Below(Cut(b, 0), b) /\ p <= p
  BY CutNone, BelowIsOrder DEF Stacks
<1>2. Idles(<<"sequence", 0>>, b, p)
  BY <1>1, GatherDoes DEF Idles
<1>3. Idles(<<"body", "statement", 0>>, b, p)
  BY <1>1, GatherDoes DEF Idles
<1>4. Idles(<<"body", "declaration", 0>>, b, p)
  BY <1>1, GatherDoes DEF Idles
<1>5. QED
  BY <1>2, <1>3, <1>4

\* An expression on top, and what takes it away again.
LEMMA ExpressionDoes ==
  ASSUME NEW b \in Stacks, NEW p \in Nat, NEW c, c = Append(b, kLowest)
  PROVE  /\ c \in Stacks
         /\ Does(expression, b, p, c, p) /\ Plain(expression)
         /\ Does(<<"payload", 1>>, c, p, b, p) /\ Plain(<<"payload", 1>>)
<1>1. kLowest \in Nat /\ p <= p
  BY DEF kLowest
<1>2. c \in Stacks /\ Yields(b, 0, kLowest, c)
  BY <1>1, YieldsPush
<1>3. expression[1] \in Expressions
  BY DEF expression, Expressions
<1>4. Does(expression, b, p, c, p) /\ Plain(expression)
  BY <1>1, <1>2, <1>3, OperandDoes
<1>5. 0 <= Len(b) /\ Below(Cut(b, 0), b) /\ 0 \in Nat /\ 0 + 1 = 1
  BY CutNone, BelowIsOrder DEF Stacks
<1>6. 1 <= Len(c) /\ Below(Cut(c, 1), b)
  BY <1>1, <1>5, CutMore
<1>7. Does(<<"payload", 1>>, c, p, b, p) /\ Plain(<<"payload", 1>>)
  BY <1>1, <1>2, <1>6, GatherDoes
<1>8. QED
  BY <1>2, <1>4, <1>7

LEMMA BlockSteps ==
  ASSUME NEW b \in Stacks, NEW p \in Nat, NEW look \in TokenKind, NEW ahead, NEW g,
         g[1] \in {"array_size", "attribute_arguments", "block", "branch", "else",
                   "else_branch", "arms", "use", "assign_operator"}
  PROVE  Runs(Steps(g, look, ahead), b, p, b, p)
<1> DEFINE c == Append(b, kLowest)
<1>0. /\ c \in Stacks
      /\ Does(expression, b, p, c, p) /\ Plain(expression)
      /\ Does(<<"payload", 1>>, c, p, b, p) /\ Plain(<<"payload", 1>>)
  BY ExpressionDoes
<1> HIDE DEF c
<1>1. CASE g[1] = "array_size"
  <2>1. Steps(g, look, ahead) = ArraySize(look)
    BY <1>1 DEF Steps
  <2>2. Idles(Consume("]"), b, p) /\ Idles(<<"consume_only", ";">>, b, p)
    BY IdleAre, KindsAre
  <2>3. Runs(<< <<"consume_only", ";">>, expression, <<"payload", 1>> >>, b, p, b, p)
    BY <1>0, <2>2, Three DEF Idles
  <2>4. QED
    BY <2>1, <2>2, <2>3, Idle DEF ArraySize
<1>2. CASE g[1] = "attribute_arguments"
  <2>1. Steps(g, look, ahead) = AttributeArguments(look)
    BY <1>2 DEF Steps
  <2>2. /\ Idles(Consume("("), b, p) /\ Idles(Consume(")"), b, p)
        /\ Idles(<<"sequence", 0>>, b, p)
    BY IdleAre, EmptyIdle, KindsAre
  <2>3. QED
    BY <2>1, <2>2, Idle DEF AttributeArguments, Nothing
<1>3. CASE g[1] = "block"
  <2>1. Steps(g, look, ahead) = ParseBlock
    BY <1>3 DEF Steps
  <2>2. /\ Idles(<<"storage_attributes", {}>>, b, p) /\ Idles(Consume("{"), b, p)
        /\ Idles(<<"body", "statement", 0>>, b, p)
    BY IdleAre, EmptyIdle, KindsAre
  <2>3. QED
    BY <2>1, <2>2, Idle DEF ParseBlock
<1>4. CASE g[1] = "branch"
  <2>1. Steps(g, look, ahead) = IfBranch
    BY <1>4 DEF Steps
  <2>2. Idles(block, c, p) /\ Idles(<<"else">>, b, p)
    BY <1>0, IdleAre DEF Flat
  <2>3. QED
    BY <1>0, <2>1, <2>2, Four, ZenonT(60) DEF IfBranch, Idles
<1>5. CASE g[1] = "else"
  <2>1. Steps(g, look, ahead) = ElseBranch(look)
    BY <1>5 DEF Steps
  <2>2. Idles(Consume("else"), b, p) /\ Idles(<<"else_branch">>, b, p)
    BY IdleAre, KindsAre DEF Flat
  <2>3. QED
    BY <2>1, <2>2, Idle DEF ElseBranch, Nothing
<1>6. CASE g[1] = "else_branch"
  <2>1. Steps(g, look, ahead) = LastBranch(look)
    BY <1>6 DEF Steps
  <2>2. Idles(Consume("if"), b, p) /\ Idles(<<"branch">>, b, p) /\ Idles(block, b, p)
    BY IdleAre, KindsAre DEF Flat
  <2>3. QED
    BY <2>1, <2>2, Idle DEF LastBranch
<1>7. CASE g[1] = "arms"
  <2>1. Steps(g, look, ahead) = MatchArms(look)
    BY <1>7 DEF Steps
  <2> DEFINE d == Append(c, kLowest)
  <2>2. d \in Stacks /\ Does(expression, c, p, d, p)
    BY <1>0, ExpressionDoes
  <2>3. Idles(Consume("->"), c, p) /\ Idles(<<"arms">>, b, p)
    BY <1>0, IdleAre, KindsAre DEF Flat
  <2>4. Does(<<"payload", 2>>, d, p, b, p) /\ Plain(<<"payload", 2>>)
    <3>1. /\ 0 \in Nat /\ 0 <= Len(b) /\ Below(Cut(b, 0), b) /\ kLowest \in Nat /\ p <= p
          /\ 0 + 1 = 1 /\ 1 + 1 = 2 /\ 1 \in Nat /\ 2 \in Nat
      BY CutNone, BelowIsOrder DEF Stacks, kLowest
    <3>2. 1 <= Len(c) /\ Below(Cut(c, 1), b)
      BY <3>1, CutMore DEF c
    <3>3. 2 <= Len(d) /\ Below(Cut(d, 2), b)
      BY <1>0, <3>1, <3>2, CutMore
    <3>4. QED
      BY <2>2, <3>1, <3>3, GatherDoes
  <2> HIDE DEF d
  <2>5. Runs(<<expression, Consume("->"), expression, <<"payload", 2>>, <<"arms">> >>,
             b, p, b, p)
    BY <1>0, <2>2, <2>3, <2>4, Five DEF Idles
  <2>6. QED
    BY <2>1, <2>5, Idle DEF MatchArms, Nothing
<1>8. CASE g[1] = "use"
  <2>1. Steps(g, look, ahead) = ParseUse(look)
    BY <1>8 DEF Steps
  <2>2. Idles(<<"list", "path", "}">>, b, p) /\ Idles(path, b, p)
    BY IdleAre DEF Flat
  <2>3. QED
    BY <2>1, <2>2, Idle DEF ParseUse
<1>9. CASE g[1] = "assign_operator"
  <2>1. Steps(g, look, ahead) = AssignOperator(look)
    BY <1>9 DEF Steps
  <2>2. /\ Idles(Consume(":="), b, p) /\ Idles(Consume("="), b, p)
        /\ Idles(Consume(":"), b, p) /\ Idles(type, b, p)
    BY IdleAre, KindsAre
  <2>3. QED
    BY <2>1, <2>2, Idle DEF AssignOperator, Nothing
<1>10. QED
  BY <1>1, <1>2, <1>3, <1>4, <1>5, <1>6, <1>7, <1>8, <1>9

LEMMA DeclarationSteps ==
  ASSUME NEW b \in Stacks, NEW p \in Nat, NEW look \in TokenKind, NEW ahead, NEW g,
         g[1] \in {"fn", "return_type", "function_body", "struct", "union", "enum",
                   "variant", "variant_kind", "trait", "impl", "trait_name", "mod",
                   "redirect"}
  PROVE  Runs(Steps(g, look, ahead), b, p, b, p)
<1>0. /\ Idles(Consume("{"), b, p) /\ Idles(Consume("}"), b, p)
      /\ Idles(Consume("("), b, p) /\ Idles(Consume(")"), b, p)
      /\ Idles(Consume("->"), b, p) /\ Idles(Consume("for"), b, p)
      /\ Idles(Consume("="), b, p)
      /\ Idles(path, b, p) /\ Idles(type, b, p) /\ Idles(block, b, p)
      /\ Idles(<<"body", "statement", 0>>, b, p)
      /\ Idles(<<"body", "declaration", 0>>, b, p)
  BY IdleAre, EmptyIdle, KindsAre
<1>1. CASE g[1] = "fn"
  <2>1. Steps(g, look, ahead) = ParseFunction
    BY <1>1 DEF Steps
  <2>2. /\ Idles(parameters, b, p) /\ Idles(<<"return_type">>, b, p)
        /\ Idles(<<"function_body">>, b, p)
    BY IdleAre DEF Flat, parameters
  <2>3. QED
    BY <1>0, <2>1, <2>2, Idle DEF ParseFunction
<1>2. CASE g[1] = "return_type"
  <2>1. Steps(g, look, ahead) = ReturnType(look)
    BY <1>2 DEF Steps
  <2>2. QED
    BY <1>0, <2>1, Idle DEF ReturnType, Nothing
<1>3. CASE g[1] = "function_body"
  <2>1. Steps(g, look, ahead) = FunctionBody(look)
    BY <1>3 DEF Steps
  <2>2. QED
    BY <1>0, <2>1, Idle DEF FunctionBody
<1>4. CASE g[1] \in {"struct", "union"}
  <2>1. Steps(g, look, ahead) = ParseFields
    BY <1>4 DEF Steps
  <2>2. Idles(fields, b, p)
    BY IdleAre DEF Flat, fields
  <2>3. QED
    BY <1>0, <2>1, <2>2, Idle DEF ParseFields
<1>5. CASE g[1] = "enum"
  <2>1. Steps(g, look, ahead) = ParseEnumeration
    BY <1>5 DEF Steps
  <2>2. Idles(<<"list", "variant", "}">>, b, p)
    BY IdleAre DEF Flat
  <2>3. QED
    BY <1>0, <2>1, <2>2, Idle DEF ParseEnumeration
<1>6. CASE g[1] = "variant"
  <2>1. Steps(g, look, ahead) = ParseEnumVariant
    BY <1>6 DEF Steps
  <2>2. Idles(<<"variant_kind">>, b, p)
    BY IdleAre DEF Flat
  <2>3. QED
    BY <1>0, <2>1, <2>2, Idle DEF ParseEnumVariant
<1>7. CASE g[1] = "variant_kind"
  <2>1. Steps(g, look, ahead) = VariantKind(look)
    BY <1>7 DEF Steps
  <2>2. Idles(fields, b, p) /\ Idles(<<"list", "type", ")">>, b, p)
    BY IdleAre DEF Flat, fields
  <2> DEFINE c == Append(b, kLowest)
  <2>6. /\ c \in Stacks
        /\ Does(expression, b, p, c, p) /\ Plain(expression)
        /\ Does(<<"payload", 1>>, c, p, b, p) /\ Plain(<<"payload", 1>>)
    BY ExpressionDoes
  <2> HIDE DEF c
  <2>3. Runs(<<Consume("="), expression, <<"payload", 1>> >>, b, p, b, p)
    BY <1>0, <2>6, Three DEF Idles
  <2>4. Runs(Fail("kUnexpectedToken"), b, p, b, p)
    BY FailDoes
  <2>5. QED
    BY <1>0, <2>1, <2>2, <2>3, <2>4, Idle DEF VariantKind, Nothing
<1>8. CASE g[1] = "trait"
  <2>1. Steps(g, look, ahead) = ParseTrait
    BY <1>8 DEF Steps
  <2>2. QED
    BY <1>0, <2>1, Idle DEF ParseTrait
<1>9. CASE g[1] = "impl"
  <2>1. Steps(g, look, ahead) = ParseImplementation
    BY <1>9 DEF Steps
  <2>2. Idles(<<"trait_name">>, b, p)
    BY IdleAre DEF Flat
  <2>3. QED
    BY <1>0, <2>1, <2>2, Idle DEF ParseImplementation
<1>10. CASE g[1] = "trait_name"
  <2>1. Steps(g, look, ahead) = TraitName(look)
    BY <1>10 DEF Steps
  <2>2. QED
    BY <1>0, <2>1, Idle DEF TraitName, Nothing
<1>11. CASE g[1] = "mod"
  <2>1. Steps(g, look, ahead) = ParseModule
    BY <1>11 DEF Steps
  <2>2. QED
    BY <1>0, <2>1, Idle DEF ParseModule
<1>12. CASE g[1] = "redirect"
  <2>1. Steps(g, look, ahead) = ParseRedirect
    BY <1>12 DEF Steps
  <2>2. QED
    BY <1>0, <2>1, Idle DEF ParseRedirect
<1>13. QED
  BY <1>1, <1>2, <1>3, <1>4, <1>5, <1>6, <1>7, <1>8, <1>9, <1>10, <1>11, <1>12

\* Goals that run from b to b may leave more above.
LEMMA RunsTo ==
  ASSUME NEW b \in Stacks, NEW c \in Stacks, Below(b, c),
         NEW p \in Nat, NEW q \in Nat, q <= p, NEW s, Runs(s, b, p, b, p)
  PROVE  Runs(s, b, p, c, q)
BY BelowIsOrder, RunsKeeps

LEMMA FlatSteps ==
  ASSUME NEW b \in Stacks, NEW c \in Stacks, NEW p \in Nat, NEW q \in Nat,
         NEW look \in TokenKind, NEW ahead, NEW g,
         Below(b, c), q <= p,
         g[1] \in Flat \/ (g[1] \in {"list", "list_more"} /\ g[2] \in Flat)
  PROVE  Runs(Steps(g, look, ahead), b, p, c, q)
<1>1. CASE g[1] \in Flat
  <2>1. Runs(Steps(g, look, ahead), b, p, b, p)
    BY <1>1, PathSteps, BlockSteps, DeclarationSteps DEF Flat
  <2>2. QED
    BY <2>1, RunsTo
<1>2. CASE g[1] = "list" /\ g[2] \in Flat
  <2>1. Steps(g, look, ahead) = List(look, g[2], g[3])
    BY <1>2 DEF Steps
  <2>2. Idles(<<g[2]>>, b, p) /\ Idles(<<"list_more", g[2], g[3]>>, b, p)
    BY <1>2, IdleAre
  <2>3. Runs(Steps(g, look, ahead), b, p, b, p)
    BY <2>1, <2>2, Idle DEF List, Nothing
  <2>4. QED
    BY <2>3, RunsTo
<1>3. CASE g[1] = "list_more" /\ g[2] \in Flat
  <2>1. Steps(g, look, ahead) = ListMore(look, g[2], g[3])
    BY <1>3 DEF Steps
  <2>2. Idles(Consume(","), b, p) /\ Idles(<<"list", g[2], g[3]>>, b, p)
    BY <1>3, IdleAre, KindsAre
  <2>3. Runs(Steps(g, look, ahead), b, p, b, p)
    BY <2>1, <2>2, Idle DEF ListMore, Nothing
  <2>4. QED
    BY <2>3, RunsTo
<1>4. QED
  BY <1>1, <1>2, <1>3

LEMMA StorageSteps ==
  ASSUME NEW b \in Stacks, NEW c \in Stacks, NEW p \in Nat, NEW q \in Nat,
         NEW look \in TokenKind, NEW ahead, NEW g,
         Below(b, c), g[1] = "storage_attributes", Does(g, b, p, c, q)
  PROVE  Runs(Steps(g, look, ahead), b, p, c, q)
<1> DEFINE seen == g[2]
<1>1. Steps(g, look, ahead) = StorageAttributes(look, seen)
  BY DEF Steps
<1>2. q <= p /\ (seen # {} => q + 1 <= p)
  BY DEF Does, Moves
<1> HIDE DEF seen
<1>3. CASE look \in Attributes
  <2> DEFINE also == seen \cup {look}
             first == <<"consume_only", look>>
             then == <<"storage_attributes", also>>
  <2>0. look \in TokenKind \ {"eof"}
    BY <1>3, KindsAre
  <2>1. look \in TokenKind \ {"eof"} /\ Below(b, b) /\ p + 1 \in Nat /\ p + 1 <= p + 1
    BY <2>0, BelowIsOrder
  <2>2. Does(first, b, p, b, p + 1)
    BY <2>1, ConsumeDoes
  <2>3. Does(then, b, p + 1, c, q) /\ Plain(then)
    BY <1>2, <2>1, StorageDoes
  <2>4. Runs(<<first, then>>, b, p, c, q)
    <3> HIDE DEF first, then
    <3>1. QED
      BY <2>1, <2>2, <2>3, Two
  <2>5. QED
    BY <1>1, <1>3, <2>4 DEF StorageAttributes
<1>4. CASE look \notin Attributes /\ Conflict(seen)
  <2> DEFINE back == << <<"rewind", 1>> >>
             fail == Fail("kConflictingStorageSpecifiers")
  <2>1. seen # {}
    BY <1>4 DEF Conflict
  <2>2. Does(<<"rewind", 1>>, b, p, b, q)
    BY <1>2, <2>1, BelowIsOrder DEF Does, Changes, Moves
  <2>3. Runs(back, b, p, b, q) /\ Sequential(back)
    BY <2>2, One
  <2>4. Runs(fail, b, q, c, q) /\ Sequential(fail)
    BY FailDoes, RunsAre
  <2>5. fail[1] = <<"fail", "kConflictingStorageSpecifiers">>
    BY DEF Fail
  <2>6. Plain(fail[1])
    BY <2>5, FailDoes
  <2> HIDE DEF back, fail
  <2>7. Runs(back \o fail, b, p, c, q)
    BY <2>3, <2>4, <2>6, PlainFollows, RunsOn
  <2>8. QED
    BY <1>1, <1>4, <2>7 DEF StorageAttributes, back, fail
<1>5. CASE look \notin Attributes /\ ~ Conflict(seen)
  <2>1. Runs(<< >>, b, p, c, q)
    BY <1>2 DEF Runs
  <2>2. QED
    BY <1>1, <1>5, <2>1 DEF StorageAttributes, Nothing
<1>6. QED
  BY <1>3, <1>4, <1>5

LEMMA GatherSteps ==
  ASSUME NEW b \in Stacks, NEW c \in Stacks, NEW p \in Nat, NEW q \in Nat, q <= p,
         NEW look \in TokenKind, NEW ahead, NEW g, NEW n \in Nat,
         n <= Len(b), Below(Cut(b, n), c),
         \/ g[1] \in {"sequence", "sequence_more"} /\ g[2] = n
         \/ g[1] = "body" /\ g[2] \in {"statement", "declaration"} /\ g[3] = n
  PROVE  Runs(Steps(g, look, ahead), b, p, c, q)
<1> DEFINE d == Append(b, kLowest)
<1>0. d \in Stacks /\ Does(expression, b, p, d, p)
  BY ExpressionDoes
<1>1. /\ d \in Stacks /\ Does(expression, b, p, d, p)
      /\ n + 1 \in Nat /\ n + 1 <= Len(d) /\ Below(Cut(d, n + 1), c)
  <2>1. kLowest \in Nat
    BY DEF kLowest
  <2>2. n + 1 <= Len(d) /\ Below(Cut(d, n + 1), c)
    BY <2>1, CutMore
  <2>3. QED
    BY <1>0, <2>2
<1>2. Does(<<"range", n>>, b, p, c, q) /\ Plain(<<"range", n>>)
  BY GatherDoes
<1>3. Runs(<< <<"range", n>> >>, b, p, c, q)
  BY <1>2, One
<1> HIDE DEF d
<1>4. CASE g[1] = "sequence" /\ g[2] = n
  <2>1. Steps(g, look, ahead) = ParseExpressionSequence(look, n)
    BY <1>4 DEF Steps
  <2>2. Does(<<"sequence_more", n + 1>>, d, p, c, q) /\ Plain(<<"sequence_more", n + 1>>)
    BY <1>1, GatherDoes
  <2>3. Runs(<<expression, <<"sequence_more", n + 1>> >>, b, p, c, q)
    BY <1>1, <2>2, Two
  <2>4. QED
    BY <1>3, <2>1, <2>3 DEF ParseExpressionSequence
<1>5. CASE g[1] = "sequence_more" /\ g[2] = n
  <2>1. Steps(g, look, ahead) = SequenceMore(look, n)
    BY <1>5 DEF Steps
  <2>2. Does(<<"sequence", n>>, b, p, c, q) /\ Plain(<<"sequence", n>>)
    BY GatherDoes
  <2>3. Idles(Consume(","), b, p)
    BY IdleAre, KindsAre
  <2>4. Runs(<<Consume(","), <<"sequence", n>> >>, b, p, c, q)
    BY <2>2, <2>3, Two DEF Idles
  <2>5. QED
    BY <1>3, <2>1, <2>4 DEF SequenceMore
<1>6. CASE g[1] = "body" /\ g[2] \in {"statement", "declaration"} /\ g[3] = n
  <2> DEFINE one == g[2]
             first == <<one>>
             then == <<"body", one, n + 1>>
  <2>1. Steps(g, look, ahead) = Body(look, one, n)
    BY <1>6 DEF Steps
  <2>2. Does(then, d, p, c, q) /\ Plain(then)
    BY <1>1, <1>6, GatherDoes
  <2>3. Does(first, b, p, d, p)
    <3>1. first[1] \in Expressions
      BY <1>6 DEF Expressions
    <3>2. Yields(b, 0, kLowest, d) /\ p <= p
      BY YieldsPush DEF d, kLowest
    <3>3. QED
      BY <1>1, <3>1, <3>2, OperandDoes
  <2>4. Runs(<<first, then>>, b, p, c, q)
    <3> HIDE DEF first, then
    <3>1. QED
      BY <1>1, <2>2, <2>3, Two
  <2>5. Idles(Consume("}"), b, p)
    BY IdleAre, KindsAre
  <2>6. Runs(<<Consume("}"), <<"range", n>> >>, b, p, c, q)
    BY <1>2, <2>5, Two DEF Idles
  <2>7. QED
    BY <2>1, <2>4, <2>6 DEF Body
<1>7. QED
  BY <1>4, <1>5, <1>6

LEMMA PrefixDoes ==
  ASSUME NEW b \in Stacks, NEW c \in Stacks, NEW p \in Nat, NEW q \in Nat, NEW n \in Nat,
         Yields(b, 0, 0, c), q <= p - n
  PROVE  Does(<<"prefix", n>>, b, p, c, q) /\ Plain(<<"prefix", n>>)
<1> DEFINE g == <<"prefix", n>>
<1>1. g[1] = "prefix" /\ g[2] = n
  OBVIOUS
<1> HIDE DEF g
<1>2. Changes(g, b, c)
  BY <1>1 DEF Changes
<1>3. Moves(g) = - n
  BY <1>1 DEF Moves
<1>4. q <= p + Moves(g)
  BY <1>3
<1>5. Does(g, b, p, c, q) /\ Plain(g)
  BY <1>1, <1>2, <1>4 DEF Does, Plain, IsBinary
<1>6. QED
  BY <1>5 DEF g

\* A node over an expression, on top of b.
LEMMA OverExpression ==
  ASSUME NEW b \in Stacks, NEW c \in Stacks, NEW p \in Nat, NEW q \in Nat, q <= p,
         Yields(b, 0, 0, c), NEW kind, kind \notin BinaryOperators,
         NEW d, d = Append(b, kLowest)
  PROVE  Does(Node(kind, 1), d, p, c, q) /\ Plain(Node(kind, 1))
<1>1. kLowest \in Nat /\ 0 \in Nat /\ 0 + 1 = 1 /\ 1 \in Nat
  BY DEF kLowest
<1>2. d \in Stacks /\ Yields(d, 1, 0, c)
  BY <1>1, YieldsPush, YieldsMore, ZenonT(60)
<1>3. QED
  BY <1>1, <1>2, NodeDoes

\* Goals that end with a node over an expression.
LEMMA Over ==
  ASSUME NEW b \in Stacks, NEW c \in Stacks, NEW d \in Stacks,
         NEW p \in Nat, NEW q \in Nat,
         Does(expression, b, p, d, p), Plain(expression),
         NEW g, Does(g, d, p, c, q), Plain(g)
  PROVE  /\ \A g1, g3 : Idles(g1, b, p) /\ Idles(g3, d, p)
              => Runs(<<g1, expression, g3, g>>, b, p, c, q)
         /\ \A g1, g2, g3, g5 :
              Idles(g1, b, p) /\ Idles(g2, b, p) /\ Idles(g3, b, p) /\ Idles(g5, d, p)
              => Runs(<<g1, g2, g3, expression, g5, g>>, b, p, c, q)
         /\ \A g1, g3, g4, g5 :
              Idles(g1, b, p) /\ Idles(g3, d, p) /\ Idles(g4, d, p) /\ Idles(g5, d, p)
              => Runs(<<g1, expression, g3, g4, g5, g>>, b, p, c, q)
         /\ \A g1, g2, g3, g4 :
              Idles(g1, b, p) /\ Idles(g2, b, p) /\ Idles(g3, b, p) /\ Idles(g4, b, p)
              => Runs(<<g1, g2, g3, g4, expression, g>>, b, p, c, q)
<1> DEFINE e == expression
<1>0. Does(e, b, p, d, p) /\ Plain(e)
  OBVIOUS
<1> HIDE DEF e
<1>1. ASSUME NEW g1, NEW g3, Idles(g1, b, p), Idles(g3, d, p)
      PROVE  Runs(<<g1, e, g3, g>>, b, p, c, q)
  <2>1. Does(g1, b, p, b, p) /\ Does(g3, d, p, d, p) /\ Plain(g3)
    BY <1>1 DEF Idles
  <2>2. QED
    BY <1>0, <2>1, Four
<1>2. ASSUME NEW g1, NEW g2, NEW g3, NEW g5,
             Idles(g1, b, p), Idles(g2, b, p), Idles(g3, b, p), Idles(g5, d, p)
      PROVE  Runs(<<g1, g2, g3, e, g5, g>>, b, p, c, q)
  <2>1. /\ Does(g1, b, p, b, p) /\ Does(g2, b, p, b, p) /\ Does(g3, b, p, b, p)
        /\ Does(g5, d, p, d, p) /\ Plain(g2) /\ Plain(g3) /\ Plain(g5)
    BY <1>2 DEF Idles
  <2>2. QED
    BY <1>0, <2>1, Six
<1>3. ASSUME NEW g1, NEW g3, NEW g4, NEW g5,
             Idles(g1, b, p), Idles(g3, d, p), Idles(g4, d, p), Idles(g5, d, p)
      PROVE  Runs(<<g1, e, g3, g4, g5, g>>, b, p, c, q)
  <2>1. /\ Does(g1, b, p, b, p) /\ Does(g3, d, p, d, p) /\ Does(g4, d, p, d, p)
        /\ Does(g5, d, p, d, p) /\ Plain(g3) /\ Plain(g4) /\ Plain(g5)
    BY <1>3 DEF Idles
  <2>2. QED
    BY <1>0, <2>1, Six
<1>4. ASSUME NEW g1, NEW g2, NEW g3, NEW g4,
             Idles(g1, b, p), Idles(g2, b, p), Idles(g3, b, p), Idles(g4, b, p)
      PROVE  Runs(<<g1, g2, g3, g4, e, g>>, b, p, c, q)
  <2>1. /\ Does(g1, b, p, b, p) /\ Does(g2, b, p, b, p) /\ Does(g3, b, p, b, p)
        /\ Does(g4, b, p, b, p) /\ Plain(g2) /\ Plain(g3) /\ Plain(g4)
    BY <1>4 DEF Idles
  <2>2. QED
    BY <1>0, <2>1, Six
<1>5. QED
  BY <1>1, <1>2, <1>3, <1>4 DEF e

LEMMA OperandSteps ==
  ASSUME NEW b \in Stacks, NEW c \in Stacks, NEW p \in Nat, NEW q \in Nat, q <= p,
         NEW look \in TokenKind, NEW ahead, NEW g, Yields(b, 0, 0, c),
         g[1] \in Operands \/ (g[1] = "value" /\ g[2] \in ControlFlow)
  PROVE  Runs(Steps(g, look, ahead), b, p, c, q)
<1> DEFINE d == Append(b, kLowest)
<1>0. d \in Stacks /\ Does(expression, b, p, d, p) /\ Plain(expression)
  BY ExpressionDoes
<1>a. /\ \A kind : kind \notin BinaryOperators =>
           Does(Node(kind, 1), d, p, c, q) /\ Plain(Node(kind, 1))
      /\ \A kind : kind \notin BinaryOperators =>
           Does(Node(kind, 0), b, p, c, q) /\ Plain(Node(kind, 0))
  <2>1. ASSUME NEW kind, kind \notin BinaryOperators
        PROVE  Does(Node(kind, 1), d, p, c, q) /\ Plain(Node(kind, 1))
    BY <2>1, OverExpression
  <2>2. ASSUME NEW kind, kind \notin BinaryOperators
        PROVE  Does(Node(kind, 0), b, p, c, q) /\ Plain(Node(kind, 0))
    BY <2>2, NodeDoes
  <2>3. QED
    BY <2>1, <2>2
<1>b. /\ \A kind \in TokenKind \ {"eof"} :
           Idles(Consume(kind), b, p) /\ Idles(<<"consume_only", kind>>, b, p)
      /\ Idles(block, b, p) /\ Idles(path, b, p)
  BY IdleAre
<1>c. /\ \A kind \in TokenKind \ {"eof"} : Idles(Consume(kind), d, p)
      /\ Idles(block, d, p) /\ Idles(<<"arms">>, d, p)
  BY <1>0, IdleAre DEF Flat
<1> HIDE DEF d
<1>1. CASE g[1] = "unary"
  <2>1. Steps(g, look, ahead) = << <<"prefix", 0>> >>
    BY <1>1 DEF Steps
  <2>2. q <= p - 0 /\ 0 \in Nat
    OBVIOUS
  <2>3. Does(<<"prefix", 0>>, b, p, c, q)
    BY <2>2, PrefixDoes
  <2>4. QED
    BY <2>1, <2>3, One
<1>2. CASE g[1] = "primary"
  <2>1. Steps(g, look, ahead) = ParsePrimary(look)
    BY <1>2 DEF Steps
  <2>2. CASE look = "literal"
    <3>1. Idles(Consume("literal"), b, p) /\ "literal" \notin BinaryOperators
      BY <1>b, KindsAre, OtherKinds
    <3>2. Runs(<<Consume("literal"), Node("literal", 0)>>, b, p, c, q)
      BY <1>a, <3>1, Two DEF Idles
    <3>3. QED
      BY <2>1, <2>2, <3>2 DEF ParsePrimary
  <2>3. CASE look = "identifier"
    <3>1. Does(<<"postfix">>, b, p, c, q)
      BY OperandDoes DEF Operands
    <3>2. QED
      BY <2>1, <2>3, <3>1, One DEF ParsePrimary
  <2>4. CASE look \in {"break", "continue", "ret"}
    <3> DEFINE first == <<"consume_only", look>>
               then == <<"value", look>>
    <3>0. look \in TokenKind \ {"eof"}
      BY <2>4, KindsAre
    <3>1. Idles(first, b, p)
      BY <1>b, <3>0
    <3>2. then[1] = "value" /\ then[2] \in ControlFlow
      BY <2>4 DEF ControlFlow
    <3> HIDE DEF first, then
    <3>3. Does(then, b, p, c, q) /\ Plain(then)
      BY <3>2, OperandDoes
    <3>4. Runs(<<first, then>>, b, p, c, q)
      BY <3>1, <3>3, Two DEF Idles
    <3>5. QED
      BY <2>1, <2>4, <3>4 DEF ParsePrimary, first, then
  <2>5. CASE look \in {"(", "{", "if", "loop", "while", "for", "match", "["}
    <3> DEFINE first == <<look>>
    <3>1. first[1] \in Operands
      BY <2>5 DEF Operands
    <3> HIDE DEF first
    <3>2. Runs(<<first>>, b, p, c, q)
      BY <3>1, OperandDoes, One
    <3>3. ParsePrimary(look) = << <<look>> >>
      BY <2>5 DEF ParsePrimary
    <3>4. QED
      BY <2>1, <3>2, <3>3 DEF first
  <2>6. CASE look \notin {"literal", "identifier", "break", "continue", "ret", "(", "{",
                          "if", "loop", "while", "for", "match", "["}
    <3>1. Runs(Fail("kUnexpectedToken"), b, p, c, q)
      BY FailDoes
    <3>2. QED
      BY <2>1, <2>6, <3>1 DEF ParsePrimary
  <2>7. QED
    BY <2>2, <2>3, <2>4, <2>5, <2>6
<1>3. CASE g[1] = "value" /\ g[2] \in ControlFlow
  <2> DEFINE keyword == g[2]
  <2>1. Steps(g, look, ahead) = JumpValue(look, keyword)
    BY <1>3 DEF Steps
  <2>2. keyword \notin BinaryOperators
    BY <1>3, OtherKinds
  <2> HIDE DEF keyword
  <2>3. Runs(<<Node(keyword, 0)>>, b, p, c, q)
    BY <1>a, <2>2, One
  <2>4. Runs(<<expression, Node(keyword, 1)>>, b, p, c, q)
    BY <1>0, <1>a, <2>2, Two
  <2>5. QED
    BY <2>1, <2>3, <2>4 DEF JumpValue
<1>4. CASE g[1] = "postfix"
  <2> DEFINE e == Append(b, 0)
  <2>1. Steps(g, look, ahead) = ParsePostfix
    BY <1>4 DEF Steps
  <2>2. e \in Stacks /\ Yields(b, 0, 0, e) /\ Top(e) = 0
    BY YieldsPush, PushIs
  <2>3. Yields(e, 1, 0, c)
    <3>1. 0 + 1 = 1 /\ 0 \in Nat
      OBVIOUS
    <3>2. QED
      BY <3>1, YieldsMore
  <2> HIDE DEF e
  <2>7. p <= p
    OBVIOUS
  <2>4. Does(<<"unary">>, b, p, e, p)
    BY <2>2, <2>7, OperandDoes DEF Operands
  <2>5. Does(<<"postfix_form">>, e, p, c, q) /\ Plain(<<"postfix_form">>)
    BY <2>2, <2>3, ExtensionDoes DEF Extensions
  <2>6. QED
    BY <2>1, <2>2, <2>4, <2>5, Two DEF ParsePostfix
<1>5. CASE g[1] = "("
  <2>1. Steps(g, look, ahead) = ParseGrouped
    BY <1>5 DEF Steps
  <2>2. /\ Idles(Consume("("), b, p) /\ Idles(Consume(")"), d, p)
        /\ "grouped" \notin BinaryOperators
    BY <1>b, <1>c, KindsAre, OtherKinds
  <2>3. Does(Node("grouped", 1), d, p, c, q) /\ Plain(Node("grouped", 1))
    BY <1>a, <2>2
  <2>4. QED
    BY <1>0, <2>1, <2>2, <2>3, Over DEF ParseGrouped
<1>6. CASE g[1] = "{"
  <2>1. Steps(g, look, ahead) = <<block, Node("block", 0)>>
    BY <1>6 DEF Steps
  <2>2. "block" \notin BinaryOperators
    BY OtherKinds
  <2>3. QED
    BY <1>a, <1>b, <2>1, <2>2, Two DEF Idles
<1>7. CASE g[1] = "if"
  <2>1. Steps(g, look, ahead) = ParseIf
    BY <1>7 DEF Steps
  <2>2. /\ Idles(Consume("if"), b, p) /\ Idles(<<"branch">>, b, p)
        /\ "if" \notin BinaryOperators
    BY IdleAre, KindsAre, OtherKinds DEF Flat
  <2>3. QED
    BY <1>a, <2>1, <2>2, Three, SMTT(30) DEF ParseIf, Idles
<1>8. CASE g[1] = "loop"
  <2>1. Steps(g, look, ahead) = ParseLoop
    BY <1>8 DEF Steps
  <2>2. Idles(Consume("loop"), b, p) /\ "loop" \notin BinaryOperators
    BY <1>b, KindsAre, OtherKinds
  <2>3. QED
    BY <1>a, <1>b, <2>1, <2>2, Three DEF ParseLoop, Idles
<1>9. CASE g[1] = "while"
  <2>1. Steps(g, look, ahead) = ParseWhile
    BY <1>9 DEF Steps
  <2>2. Idles(Consume("while"), b, p) /\ "while" \notin BinaryOperators
    BY <1>b, KindsAre, OtherKinds
  <2>3. Does(Node("while", 1), d, p, c, q) /\ Plain(Node("while", 1))
    BY <1>a, <2>2
  <2>4. QED
    BY <1>0, <1>c, <2>1, <2>2, <2>3, Over DEF ParseWhile
<1>10. CASE g[1] = "for"
  <2>1. Steps(g, look, ahead) = ParseFor
    BY <1>10 DEF Steps
  <2>2. /\ Idles(Consume("for"), b, p) /\ Idles(Consume(":"), b, p)
        /\ "for" \notin BinaryOperators
    BY <1>b, KindsAre, OtherKinds
  <2>3. Does(Node("for", 1), d, p, c, q) /\ Plain(Node("for", 1))
    BY <1>a, <2>2
  <2>4. QED
    BY <1>0, <1>b, <1>c, <2>1, <2>2, <2>3, Over DEF ParseFor
<1>11. CASE g[1] = "match"
  <2>1. Steps(g, look, ahead) = ParseMatch
    BY <1>11 DEF Steps
  <2>2. /\ Idles(Consume("match"), b, p) /\ Idles(Consume("{"), d, p)
        /\ Idles(Consume("}"), d, p) /\ "match" \notin BinaryOperators
    BY <1>b, <1>c, KindsAre, OtherKinds
  <2>3. Does(Node("match", 1), d, p, c, q) /\ Plain(Node("match", 1))
    BY <1>a, <2>2
  <2>4. QED
    BY <1>0, <1>c, <2>1, <2>2, <2>3, Over DEF ParseMatch
<1>12. CASE g[1] = "["
  <2>1. Steps(g, look, ahead) = ParseClosure
    BY <1>12 DEF Steps
  <2>2. /\ Idles(Consume("["), b, p) /\ Idles(Consume("]"), b, p)
        /\ "closure" \notin BinaryOperators
    BY <1>b, KindsAre, OtherKinds
  <2>3. Idles(parameters, b, p) /\ Idles(<<"list", "capture", "]">>, b, p)
    BY IdleAre DEF Flat, parameters
  <2>4. Does(Node("closure", 1), d, p, c, q) /\ Plain(Node("closure", 1))
    BY <1>a, <2>2
  <2>5. QED
    BY <1>0, <2>1, <2>2, <2>3, <2>4, Over DEF ParseClosure
<1>13. QED
  BY <1>1, <1>2, <1>3, <1>4, <1>5, <1>6, <1>7, <1>8, <1>9, <1>10, <1>11, <1>12
     DEF Operands

\* What is as tight as x is as tight as any y above x.
LEMMA YieldsLess ==
  ASSUME NEW b \in Stacks, NEW c \in Stacks, NEW n \in Nat, NEW x \in Nat, NEW y \in Nat,
         x <= y, Yields(b, n, y, c)
  PROVE  Yields(b, n, x, c)
<1>1. n \in 0 .. Len(b)
  BY DEF Yields, Stacks
<1>2. Cut(b, n) \in Stacks
  BY <1>1, CutIs
<1>3. Below(Cut(b, n), Cut(b, n))
  BY <1>2, BelowIsOrder
<1>4. /\ Append(Cut(b, n), x) \in Stacks /\ Append(Cut(b, n), y) \in Stacks
      /\ Below(Append(Cut(b, n), x), Append(Cut(b, n), y))
  BY <1>2, <1>3, PushIs, PushKeeps
<1>5. Below(Append(Cut(b, n), x), c)
  BY <1>4, BelowIsOrder DEF Yields
<1>6. QED
  BY <1>5 DEF Yields

LEMMA StatementSteps ==
  ASSUME NEW b \in Stacks, NEW c \in Stacks, NEW p \in Nat, NEW q \in Nat, q <= p,
         NEW look \in TokenKind, NEW ahead, NEW g, Yields(b, 0, kLowest, c),
         g[1] \in Expressions
  PROVE  Runs(Steps(g, look, ahead), b, p, c, q)
<1> DEFINE d == Append(b, kLowest)
<1>0. d \in Stacks /\ kLowest \in Nat /\ 0 \in Nat /\ 0 <= kLowest /\ p <= p
  <2>1. d \in Stacks
    BY ExpressionDoes
  <2>2. QED
    BY <2>1 DEF kLowest
<1>1. Yields(b, 0, 0, c) /\ Yields(b, 0, kLowest, d)
  BY <1>0, YieldsLess, YieldsPush
<1>2. ASSUME NEW kind, kind \notin BinaryOperators
      PROVE  Does(Node(kind, 0), b, p, c, q) /\ Plain(Node(kind, 0))
  BY <1>1, <1>2, NodeDoes
<1>3. ASSUME NEW h, h[1] \in Expressions
      PROVE  Does(h, b, p, d, p) /\ Does(h, b, p, c, q) /\ Plain(h)
  BY <1>0, <1>1, <1>3, OperandDoes
<1>4. Does(Node("assign", 1), d, p, c, q) /\ Plain(Node("assign", 1))
  BY <1>1, OtherKinds, OverExpression
<1>5. \A kind \in TokenKind \ {"eof"} : Idles(Consume(kind), b, p)
  BY IdleAre
<1> HIDE DEF d
<1>6. CASE g[1] = "expression"
  <2> DEFINE first == <<"binary", kLowest>>
             then == <<"range_operator">>
  <2>1. Steps(g, look, ahead) = <<first, then>>
    BY <1>6 DEF Steps, ParseRange
  <2>2. first[1] = "binary" /\ first[2] = kLowest /\ then[1] = "range_operator"
    OBVIOUS
  <2> HIDE DEF first, then
  <2>3. Does(first, b, p, d, p)
    BY <1>0, <1>1, <2>2, OperandDoes
  <2>4. Yields(d, 1, kLowest, c) /\ Top(d) <= kLowest
    <3>1. 0 + 1 = 1 /\ kLowest <= kLowest /\ Top(d) = kLowest
      BY <1>0, PushIs DEF d
    <3>2. QED
      BY <1>0, <3>1, YieldsMore DEF d
  <2>5. Does(then, d, p, c, q) /\ Plain(then)
    BY <1>0, <2>2, <2>4, ExtensionDoes
  <2>6. QED
    BY <1>0, <2>1, <2>3, <2>5, Two
<1>7. CASE g[1] = "statement"
  <2>1. Steps(g, look, ahead) = ParseStatement(look, ahead)
    BY <1>7 DEF Steps
  <2>2. Runs(<< <<"declaration">> >>, b, p, c, q)
    BY <1>3, One DEF Expressions
  <2>3. Runs(<< <<"assign">>, Node("assign", 1)>>, b, p, c, q)
    BY <1>0, <1>3, <1>4, Two DEF Expressions
  <2>4. Runs(Fail("kUnexpectedToken"), b, p, c, q)
    BY FailDoes
  <2>5. Runs(<<Consume("#"), Consume("["), <<"list", "attribute_use", "]">>,
               Consume("]"), Node("attribute", 0)>>, b, p, c, q)
    <3>1. /\ Idles(Consume("#"), b, p) /\ Idles(Consume("["), b, p)
          /\ Idles(Consume("]"), b, p)
      BY <1>5, KindsAre
    <3>2. Idles(<<"list", "attribute_use", "]">>, b, p)
      BY IdleAre DEF Flat
    <3>3. Does(Node("attribute", 0), b, p, c, q) /\ Plain(Node("attribute", 0))
      BY <1>2, OtherKinds
    <3>4. QED
      BY <3>1, <3>2, <3>3, Five DEF Idles
  <2>6. Runs(<<Consume("use"), <<"use">>, Node("use", 0)>>, b, p, c, q)
    <3>1. Idles(Consume("use"), b, p) /\ Idles(<<"use">>, b, p)
      BY <1>5, IdleAre, KindsAre DEF Flat
    <3>2. Does(Node("use", 0), b, p, c, q) /\ Plain(Node("use", 0))
      BY <1>2, OtherKinds
    <3>3. QED
      BY <3>1, <3>2, Three DEF Idles
  <2>7. Runs(<<expression>>, b, p, c, q)
    BY <1>3, One DEF Expressions, expression
  <2>8. QED
    BY <2>1, <2>2, <2>3, <2>4, <2>5, <2>6, <2>7 DEF ParseStatement
<1>8. CASE g[1] = "assign"
  <2>1. Steps(g, look, ahead) = ParseAssign
    BY <1>8 DEF Steps
  <2>2. Idles(path, b, p) /\ Idles(<<"assign_operator">>, b, p)
    BY IdleAre DEF Flat
  <2>3. Does(expression, b, p, c, q) /\ Plain(expression)
    BY <1>3 DEF Expressions, expression
  <2>4. QED
    BY <2>1, <2>2, <2>3, Three, ZenonT(60) DEF ParseAssign, Idles
<1>9. CASE g[1] = "declaration"
  <2>1. Steps(g, look, ahead) = ParseDeclaration
    BY <1>9 DEF Steps
  <2>2. Idles(<<"storage_attributes", {}>>, b, p)
    BY IdleAre
  <2>3. Does(<<"declared">>, b, p, c, q) /\ Plain(<<"declared">>)
    BY <1>3 DEF Expressions
  <2>4. QED
    BY <2>1, <2>2, <2>3, Two DEF ParseDeclaration, Idles
<1>10. CASE g[1] = "declared"
  <2>1. Steps(g, look, ahead) = Declared(look)
    BY <1>10 DEF Steps
  <2>2. CASE look \in Declarations
    <3> DEFINE third == <<look>>
    <3>1. Idles(Consume(look), b, p) /\ Idles(path, b, p)
      BY <1>5, <2>2, IdleAre, KindsAre
    <3>2. third[1] \in Flat
      BY <2>2 DEF Declarations, Flat
    <3> HIDE DEF third
    <3>3. Idles(third, b, p)
      BY <3>2, IdleAre
    <3>4. Does(Node(look, 0), b, p, c, q) /\ Plain(Node(look, 0))
      BY <1>2, <2>2, OtherKinds
    <3>5. Runs(<<Consume(look), path, third, Node(look, 0)>>, b, p, c, q)
      BY <3>1, <3>3, <3>4, Four DEF Idles
    <3>6. Declared(look) = <<Consume(look), path, <<look>>, Node(look, 0)>>
      <4>1. look # "identifier"
        BY <2>2 DEF Declarations
      <4>2. QED
        BY <2>2, <4>1 DEF Declared
    <3>7. QED
      BY <2>1, <3>5, <3>6 DEF third
  <2>3. CASE look = "identifier"
    <3>1. Runs(<< <<"assign">>, Node("assign", 1)>>, b, p, c, q)
      BY <1>0, <1>3, <1>4, Two DEF Expressions
    <3>2. "identifier" \notin Declarations
      BY DEF Declarations
    <3>3. QED
      BY <2>1, <2>3, <3>1, <3>2 DEF Declared
  <2>4. CASE look \notin Declarations \cup {"identifier"}
    <3>1. Runs(Fail("kExpectedButFound"), b, p, c, q)
      BY FailDoes
    <3>2. QED
      BY <2>1, <2>4, <3>1 DEF Declared
  <2>5. QED
    BY <2>2, <2>3, <2>4
<1>11. QED
  BY <1>6, <1>7, <1>8, <1>9, <1>10 DEF Expressions

LEMMA Numbers ==
  /\ 0 \in Nat /\ 1 \in Nat /\ 2 \in Nat /\ kLowest \in Nat
  /\ 0 + 1 = 1 /\ 1 + 1 = 2 /\ 0 <= 0
BY DEF kLowest

\* A stack is what is below its top, and its top.
LEMMA TopIs ==
  ASSUME NEW b \in Stacks, Len(b) > 0
  PROVE  Top(b) \in Nat /\ Cut(b, 1) \in Stacks /\ b = Append(Cut(b, 1), Top(b))
<1>1. Len(b) \in Nat /\ 1 \in 0 .. Len(b) /\ Len(b) \in 1 .. Len(b)
  BY DEF Stacks
<1>2. Top(b) \in Nat
  BY <1>1 DEF Stacks, Top
<1>3. /\ Cut(b, 1) \in Stacks /\ Len(Cut(b, 1)) = Len(b) - 1
      /\ \A i \in 1 .. Len(b) - 1 : Cut(b, 1)[i] = b[i]
  BY <1>1, CutIs
<1> DEFINE a == Append(Cut(b, 1), Top(b))
<1>4. /\ a \in Stacks /\ Len(a) = Len(b)
      /\ \A i \in 1 .. Len(b) - 1 : a[i] = b[i]
      /\ a[Len(b)] = b[Len(b)]
  <2> DEFINE k == Cut(b, 1)
  <2>1. k \in Stacks /\ Len(k) = Len(b) - 1 /\ \A i \in 1 .. Len(b) - 1 : k[i] = b[i]
    BY <1>3
  <2> HIDE DEF k
  <2>2. /\ Append(k, Top(b)) \in Stacks /\ Len(Append(k, Top(b))) = Len(k) + 1
        /\ \A i \in 1 .. Len(k) : Append(k, Top(b))[i] = k[i]
        /\ Append(k, Top(b))[Len(k) + 1] = Top(b)
    BY <1>2, <2>1, PushIs
  <2>3. QED
    BY <1>1, <2>1, <2>2 DEF Top, k
<1> HIDE DEF a
<1>5. \A i \in 1 .. Len(b) : a[i] = b[i]
  BY <1>1, <1>4
<1>6. a = b
  BY <1>4, <1>5, SeqEqual DEF Stacks
<1>7. QED
  BY <1>2, <1>3, <1>6 DEF a

\* What may extend the last node may leave it as it is.
LEMMA YieldsSame ==
  ASSUME NEW b \in Stacks, NEW c \in Stacks, NEW x \in Nat,
         Yields(b, 1, x, c), Top(b) <= x
  PROVE  Below(b, c) /\ Len(b) > 0
<1>1. Len(b) > 0
  BY DEF Yields, Stacks
<1>2. Top(b) \in Nat /\ Cut(b, 1) \in Stacks /\ b = Append(Cut(b, 1), Top(b))
  BY <1>1, TopIs
<1>3. Yields(b, 1, Top(b), c)
  BY <1>2, YieldsLess
<1>4. QED
  BY <1>1, <1>2, <1>3 DEF Yields

LEMMA CutCut ==
  ASSUME NEW b \in Stacks, NEW n \in Nat, n + 1 <= Len(b)
  PROVE  /\ Cut(b, n) \in Stacks /\ 1 <= Len(Cut(b, n))
         /\ Cut(Cut(b, n), 1) = Cut(b, n + 1)
<1> DEFINE c == Cut(b, n)
           m == Len(b)
<1>1. m \in Nat /\ n \in 0 .. m /\ n + 1 \in 0 .. m
  BY DEF Stacks
<1>2. c \in Stacks /\ Len(c) = m - n /\ \A i \in 1 .. m - n : c[i] = b[i]
  BY <1>1, CutIs
<1>3. /\ Cut(b, n + 1) \in Stacks /\ Len(Cut(b, n + 1)) = m - (n + 1)
      /\ \A i \in 1 .. m - (n + 1) : Cut(b, n + 1)[i] = b[i]
  BY <1>1, CutIs
<1> HIDE DEF c
<1>4. 1 \in 0 .. Len(c) /\ 1 <= Len(c)
  BY <1>1, <1>2
<1>5. /\ Cut(c, 1) \in Stacks /\ Len(Cut(c, 1)) = Len(c) - 1
      /\ \A i \in 1 .. Len(c) - 1 : Cut(c, 1)[i] = c[i]
  BY <1>2, <1>4, CutIs
<1> HIDE DEF m
<1>6. /\ Len(Cut(c, 1)) = Len(Cut(b, n + 1))
      /\ \A i \in 1 .. Len(Cut(c, 1)) : Cut(c, 1)[i] = Cut(b, n + 1)[i]
  BY <1>1, <1>2, <1>3, <1>5
<1>7. Cut(c, 1) = Cut(b, n + 1)
  BY <1>3, <1>5, <1>6, SeqEqual DEF Stacks
<1>8. QED
  BY <1>2, <1>4, <1>7 DEF c

\* A node over the last one, from d to c, and what may follow it from there.
LEMMA Replaced ==
  ASSUME NEW b \in Stacks, NEW c \in Stacks, NEW p \in Nat, NEW q \in Nat, q <= p,
         Yields(b, 1, 0, c)
  PROVE  \E d \in Stacks : /\ Yields(d, 1, 0, c) /\ Top(d) = 0
                           /\ \A kind : kind \notin BinaryOperators =>
                                Does(Node(kind, 1), b, p, d, p) /\ Plain(Node(kind, 1))
<1> DEFINE d == Append(Cut(b, 1), 0)
<1>1. 1 \in 0 .. Len(b) /\ 0 \in Nat /\ 0 + 1 = 1 /\ p <= p /\ 1 \in Nat
  BY DEF Yields, Stacks
<1>2. Cut(b, 1) \in Stacks
  BY <1>1, CutIs
<1>3. d \in Stacks /\ Top(d) = 0 /\ Below(d, d)
  BY <1>1, <1>2, PushIs, BelowIsOrder
<1>4. Yields(b, 1, 0, d)
  BY <1>3 DEF Yields
<1>5. Yields(d, 1, 0, c)
  <2>1. Yields(Cut(b, 1), 0, 0, c)
    <3>1. Cut(Cut(b, 1), 0) = Cut(b, 1) /\ 0 <= Len(Cut(b, 1))
      BY <1>2, CutNone DEF Stacks
    <3>2. QED
      BY <3>1 DEF Yields
  <2>2. QED
    BY <1>1, <1>2, <2>1, YieldsMore
<1> HIDE DEF d
<1>6. ASSUME NEW kind, kind \notin BinaryOperators
      PROVE  Does(Node(kind, 1), b, p, d, p) /\ Plain(Node(kind, 1))
  BY <1>1, <1>3, <1>4, <1>6, NodeDoes
<1>7. QED
  BY <1>3, <1>5, <1>6

LEMMA ExtensionSteps ==
  ASSUME NEW b \in Stacks, NEW c \in Stacks, NEW p \in Nat, NEW q \in Nat, q <= p,
         NEW look \in TokenKind, NEW ahead, NEW g, Yields(b, 1, 0, c),
         \/ g[1] \in Extensions /\ Top(b) = 0
         \/ g[1] = "call" /\ g[2] \in {"call", "method call"}
  PROVE  Runs(Steps(g, look, ahead), b, p, c, q)
<1>0. /\ \A kind \in TokenKind \ {"eof"} : Idles(Consume(kind), b, p)
      /\ Idles(path, b, p) /\ Idles(<<"sequence", 0>>, b, p)
  BY IdleAre, EmptyIdle
<1>1. ASSUME NEW kind, kind \notin BinaryOperators
      PROVE  Does(Node(kind, 1), b, p, c, q) /\ Plain(Node(kind, 1))
  <2>1. 1 \in Nat
    BY Numbers, Zenon
  <2>2. QED
    BY <1>1, <2>1, NodeDoes
<1>2. PICK d \in Stacks : /\ Yields(d, 1, 0, c) /\ Top(d) = 0
                          /\ \A kind : kind \notin BinaryOperators =>
                               Does(Node(kind, 1), b, p, d, p) /\ Plain(Node(kind, 1))
  BY Replaced
<1>3. Top(b) = 0 => Runs(<< >>, b, p, c, q)
  <2>1. 0 <= 0 /\ 0 \in Nat
    BY Numbers, Zenon
  <2>2. QED
    BY <2>1, YieldsSame DEF Runs
<1>4. CASE g[1] = "postfix_operators" /\ Top(b) = 0
  <2>1. Steps(g, look, ahead) = PostfixOperators(look)
    BY <1>4 DEF Steps
  <2>2. CASE look \in UnaryOperators
    <3>1. Idles(Consume(look), b, p)
      BY <1>0, <2>2, KindsAre
    <3>2. Does(Node("postfix", 1), b, p, d, p) /\ Plain(Node("postfix", 1))
      BY <1>2, OtherKinds
    <3>3. Does(<<"postfix_operators">>, d, p, c, q) /\ Plain(<<"postfix_operators">>)
      BY <1>2, ExtensionDoes DEF Extensions
    <3>4. Runs(<<Consume(look), Node("postfix", 1), <<"postfix_operators">> >>, b, p, c, q)
      BY <1>2, <3>1, <3>2, <3>3, Three DEF Idles
    <3>5. QED
      BY <2>1, <2>2, <3>4 DEF PostfixOperators
  <2>3. CASE look \notin UnaryOperators
    BY <1>3, <1>4, <2>1, <2>3 DEF PostfixOperators, Nothing
  <2>4. QED
    BY <2>2, <2>3
<1>5. CASE g[1] = "postfix_form" /\ Top(b) = 0
  <2>1. Steps(g, look, ahead) = PostfixForm(look)
    BY <1>5 DEF Steps
  <2>2. Runs(<<Consume("["), expression, Consume("]"), Node("index", 2)>>, b, p, c, q)
    <3> DEFINE e == Append(b, kLowest)
    <3>1. /\ e \in Stacks /\ Does(expression, b, p, e, p) /\ Plain(expression)
      BY ExpressionDoes
    <3>2. kLowest \in Nat /\ 1 + 1 = 2 /\ 1 \in Nat /\ 0 \in Nat /\ 2 \in Nat
      BY Numbers, Zenon
    <3>3. Yields(e, 2, 0, c)
      BY <3>2, YieldsMore
    <3> HIDE DEF e
    <3>4. Does(Node("index", 2), e, p, c, q) /\ Plain(Node("index", 2))
      BY <3>1, <3>2, <3>3, NodeDoes, OtherKinds
    <3>5. Idles(Consume("["), b, p) /\ Idles(Consume("]"), e, p)
      BY <3>1, IdleAre, KindsAre
    <3>6. QED
      BY <3>1, <3>4, <3>5, Over
  <2>3. Runs(<< <<"call", "call">> >>, b, p, c, q)
    BY ExtensionDoes, One
  <2>4. Runs(<<Consume("#"), <<"macro_call">> >>, b, p, c, q)
    <3>1. Does(<<"macro_call">>, b, p, c, q) /\ Plain(<<"macro_call">>)
      BY <1>5, ExtensionDoes DEF Extensions
    <3>2. QED
      BY <1>0, <3>1, KindsAre, Two DEF Idles
  <2>5. Runs(<<Consume("{"), <<"construct", 0>> >>, b, p, c, q)
    <3>1. 0 + 1 = 1 /\ 0 \in Nat
      BY Numbers, Zenon
    <3>2. Does(<<"construct", 0>>, b, p, c, q) /\ Plain(<<"construct", 0>>)
      BY <3>1, GatherDoes
    <3>3. QED
      BY <1>0, <3>2, KindsAre, Two DEF Idles
  <2>6. Runs(<<Consume("."), path, <<"member">> >>, b, p, c, q)
    <3>1. Does(<<"member">>, b, p, c, q) /\ Plain(<<"member">>)
      BY <1>5, ExtensionDoes DEF Extensions
    <3>2. QED
      BY <1>0, <3>1, KindsAre, Three DEF Idles
  <2>7. QED
    BY <1>3, <1>5, <2>1, <2>2, <2>3, <2>4, <2>5, <2>6 DEF PostfixForm, Nothing
<1>6. CASE g[1] = "member" /\ Top(b) = 0
  <2>1. Steps(g, look, ahead) = Member(look)
    BY <1>6 DEF Steps
  <2>2. Runs(<< <<"call", "method call">> >>, b, p, c, q)
    BY ExtensionDoes, One
  <2>3. Runs(<<Consume("#"), <<"macro_call">> >>, b, p, c, q)
    <3>1. Does(<<"macro_call">>, b, p, c, q) /\ Plain(<<"macro_call">>)
      BY <1>6, ExtensionDoes DEF Extensions
    <3>2. QED
      BY <1>0, <3>1, KindsAre, Two DEF Idles
  <2>4. Runs(<<Node("field access", 1)>>, b, p, c, q)
    BY <1>1, OtherKinds, One
  <2>5. QED
    BY <2>1, <2>2, <2>3, <2>4 DEF Member
<1>7. CASE g[1] = "call" /\ g[2] \in {"call", "method call"}
  <2> DEFINE kind == g[2]
  <2>1. Steps(g, look, ahead) = ParseCall(kind)
    BY <1>7 DEF Steps
  <2>2. kind \notin BinaryOperators
    BY <1>7, OtherKinds
  <2> HIDE DEF kind
  <2>3. Does(Node(kind, 1), b, p, d, p) /\ Plain(Node(kind, 1))
    BY <1>2, <2>2
  <2>4. Does(<<"await">>, d, p, c, q) /\ Plain(<<"await">>)
    BY <1>2, ExtensionDoes DEF Extensions
  <2>5. Idles(Consume("("), b, p) /\ Idles(Consume(")"), b, p)
    BY <1>0, KindsAre
  <2>6. /\ Does(Consume("("), b, p, b, p) /\ Does(<<"sequence", 0>>, b, p, b, p)
        /\ Does(Consume(")"), b, p, b, p) /\ Plain(<<"sequence", 0>>)
        /\ Plain(Consume(")"))
    BY <1>0, <2>5 DEF Idles
  <2> DEFINE g1 == Consume("(")
             g2 == <<"sequence", 0>>
             g3 == Consume(")")
             g4 == Node(kind, 1)
             g5 == <<"await">>
  <2>7. /\ Does(g1, b, p, b, p) /\ Does(g2, b, p, b, p) /\ Does(g3, b, p, b, p)
        /\ Does(g4, b, p, d, p) /\ Does(g5, d, p, c, q)
        /\ Plain(g2) /\ Plain(g3) /\ Plain(g4) /\ Plain(g5)
    BY <2>3, <2>4, <2>6
  <2>8. Steps(g, look, ahead) = <<g1, g2, g3, g4, g5>>
    BY <2>1 DEF ParseCall
  <2> HIDE DEF g1, g2, g3, g4, g5
  <2>9. Runs(<<g1, g2, g3, g4, g5>>, b, p, c, q)
    BY <2>7, Five
  <2>10. QED
    BY <2>8, <2>9
<1>8. CASE g[1] = "macro_call" /\ Top(b) = 0
  <2>1. Steps(g, look, ahead) = ParseMacroCall
    BY <1>8 DEF Steps
  <2>2. Does(Node("macro call", 1), b, p, c, q) /\ Plain(Node("macro call", 1))
    BY <1>1, OtherKinds
  <2>3. Idles(Consume("("), b, p) /\ Idles(Consume(")"), b, p)
    BY <1>0, KindsAre
  <2> DEFINE g1 == Consume("(")
             g2 == <<"sequence", 0>>
             g3 == Consume(")")
             g4 == Node("macro call", 1)
  <2>4. /\ Does(g1, b, p, b, p) /\ Does(g2, b, p, b, p) /\ Does(g3, b, p, b, p)
        /\ Does(g4, b, p, c, q) /\ Plain(g2) /\ Plain(g3) /\ Plain(g4)
    BY <1>0, <2>2, <2>3 DEF Idles
  <2>5. Steps(g, look, ahead) = <<g1, g2, g3, g4>>
    BY <2>1 DEF ParseMacroCall
  <2> HIDE DEF g1, g2, g3, g4
  <2>6. Runs(<<g1, g2, g3, g4>>, b, p, c, q)
    BY <2>4, Four
  <2>7. QED
    BY <2>5, <2>6
<1>9. CASE g[1] = "await" /\ Top(b) = 0
  <2>1. Steps(g, look, ahead) = ParseAwait(look)
    BY <1>9 DEF Steps
  <2>2. Does(Node("await", 1), b, p, c, q) /\ Plain(Node("await", 1))
    BY <1>1, OtherKinds
  <2>3. Idles(Consume("->"), b, p) /\ Idles(Consume("await"), b, p)
    BY <1>0, KindsAre
  <2>4. Runs(<<Consume("->"), Consume("await"), Node("await", 1)>>, b, p, c, q)
    BY <2>2, <2>3, Three DEF Idles
  <2>5. QED
    BY <1>3, <1>9, <2>1, <2>4 DEF ParseAwait, Nothing
<1>10. QED
  BY <1>4, <1>5, <1>6, <1>7, <1>8, <1>9 DEF Extensions

LEMMA ConstructSteps ==
  ASSUME NEW b \in Stacks, NEW c \in Stacks, NEW p \in Nat, NEW q \in Nat, q <= p,
         NEW look \in TokenKind, NEW ahead, NEW g, NEW n \in Nat, Yields(b, n + 1, 0, c),
         g[1] \in {"construct", "construct_more"}, g[2] = n
  PROVE  Runs(Steps(g, look, ahead), b, p, c, q)
<1>1. n + 1 \in Nat /\ n + 1 <= Len(b) /\ n \in Nat /\ n <= Len(b) /\ n \in 0 .. Len(b)
      /\ 0 \in Nat /\ 1 \in Nat /\ p <= p
  BY DEF Yields, Stacks
<1>2. \A kind \in TokenKind \ {"eof"} : Idles(Consume(kind), b, p)
  BY IdleAre
<1>3. Runs(<<Consume("}"), <<"range", n>>, Node("construct", 1)>>, b, p, c, q)
  <2> DEFINE d == Cut(b, n)
  <2>1. d \in Stacks /\ 1 <= Len(d) /\ Cut(d, 1) = Cut(b, n + 1)
    BY <1>1, CutCut
  <2>2. Below(Cut(b, n), d)
    BY <2>1, BelowIsOrder
  <2> HIDE DEF d
  <2>3. Does(<<"range", n>>, b, p, d, p) /\ Plain(<<"range", n>>)
    BY <1>1, <2>1, <2>2, GatherDoes
  <2>4. Yields(d, 1, 0, c)
    BY <2>1 DEF Yields
  <2>5. Does(Node("construct", 1), d, p, c, q) /\ Plain(Node("construct", 1))
    BY <1>1, <2>1, <2>4, NodeDoes, OtherKinds
  <2>6. Idles(Consume("}"), b, p)
    BY <1>2, KindsAre
  <2>7. QED
    BY <2>1, <2>3, <2>5, <2>6, Three DEF Idles
<1>4. CASE g[1] = "construct"
  <2> DEFINE d == Append(b, kLowest)
             last == <<"construct_more", n + 1>>
  <2>1. Steps(g, look, ahead) = ParseConstruct(look, n)
    BY <1>4 DEF Steps
  <2>2. d \in Stacks /\ Does(expression, b, p, d, p) /\ Plain(expression)
    BY ExpressionDoes
  <2>3. Yields(d, (n + 1) + 1, 0, c)
    BY <1>1, YieldsMore DEF kLowest
  <2> HIDE DEF d
  <2>4. last[1] = "construct_more" /\ last[2] = n + 1
    OBVIOUS
  <2> HIDE DEF last
  <2>5. Does(last, d, p, c, q) /\ Plain(last)
    BY <1>1, <2>2, <2>3, <2>4, GatherDoes
  <2>6. Idles(Consume("."), b, p) /\ Idles(Consume("="), b, p) /\ Idles(path, b, p)
    BY IdleAre, KindsAre
  <2>7. Runs(<<Consume("."), path, Consume("="), expression, last>>, b, p, c, q)
    BY <2>2, <2>5, <2>6, Five DEF Idles
  <2>8. QED
    BY <1>3, <2>1, <2>7 DEF ParseConstruct, last
<1>5. CASE g[1] = "construct_more"
  <2>1. Steps(g, look, ahead) = ConstructMore(look, n)
    BY <1>5 DEF Steps
  <2>2. Does(<<"construct", n>>, b, p, c, q) /\ Plain(<<"construct", n>>)
    BY <1>1, GatherDoes
  <2>3. Idles(Consume(","), b, p)
    BY <1>2, KindsAre
  <2>4. Runs(<<Consume(","), <<"construct", n>> >>, b, p, c, q)
    BY <2>2, <2>3, Two DEF Idles
  <2>5. QED
    BY <1>3, <2>1, <2>4 DEF ConstructMore
<1>6. QED
  BY <1>4, <1>5

LEMMA RangeSteps ==
  ASSUME NEW b \in Stacks, NEW c \in Stacks, NEW p \in Nat, NEW q \in Nat, q <= p,
         NEW look \in TokenKind, NEW ahead, NEW g, Yields(b, 1, kLowest, c),
         Top(b) <= kLowest, g[1] \in {"range_operator", "range_end"}
  PROVE  Runs(Steps(g, look, ahead), b, p, c, q)
<1>1. kLowest \in Nat /\ Below(b, c) /\ 0 \in Nat /\ 1 \in Nat /\ 2 \in Nat /\ 1 + 1 = 2
      /\ 0 <= kLowest /\ p <= p
  BY YieldsSame DEF kLowest
<1>2. CASE g[1] = "range_operator"
  <2>1. Steps(g, look, ahead) = RangeOperator(look)
    BY <1>2 DEF Steps
  <2>2. Does(<<"range_end">>, b, p, c, q) /\ Plain(<<"range_end">>)
    BY ExtensionDoes
  <2>3. Idles(Consume(".."), b, p)
    BY IdleAre, KindsAre
  <2>4. Runs(<<Consume(".."), <<"range_end">> >>, b, p, c, q)
    BY <2>2, <2>3, Two DEF Idles
  <2>5. Runs(<< >>, b, p, c, q)
    BY <1>1 DEF Runs
  <2>6. QED
    BY <2>1, <2>4, <2>5 DEF RangeOperator, Nothing
<1>3. CASE g[1] = "range_end"
  <2> DEFINE d == Append(b, kLowest)
             first == <<"binary", kLowest>>
  <2>1. Steps(g, look, ahead) = RangeEnd(look)
    BY <1>3 DEF Steps
  <2>2. d \in Stacks /\ Yields(b, 0, kLowest, d)
    BY <1>1, YieldsPush
  <2>3. Yields(b, 1, 0, c)
    BY <1>1, YieldsLess
  <2>4. Yields(d, 2, 0, c)
    BY <1>1, <2>3, YieldsMore
  <2> HIDE DEF d
  <2>5. Does(Node("..", 2), d, p, c, q) /\ Plain(Node("..", 2))
    BY <1>1, <2>2, <2>4, NodeDoes, OtherKinds
  <2>6. first[1] = "binary" /\ first[2] = kLowest
    OBVIOUS
  <2> HIDE DEF first
  <2>7. Does(first, b, p, d, p)
    BY <1>1, <2>2, <2>6, OperandDoes
  <2>8. Runs(<<first, Node("..", 2)>>, b, p, c, q)
    BY <2>2, <2>5, <2>7, Two
  <2>9. Runs(Fail("kUnexpectedToken"), b, p, c, q)
    BY FailDoes
  <2>10. QED
    BY <2>1, <2>8, <2>9 DEF RangeEnd, first
<1>4. QED
  BY <1>2, <1>3

LEMMA ClimbDoes ==
  ASSUME NEW b \in Stacks, NEW c \in Stacks, NEW p \in Nat, NEW q \in Nat, q <= p,
         NEW weakest \in Nat, Yields(b, 1, weakest, c), Top(b) <= weakest
  PROVE  Does(<<"climb", weakest>>, b, p, c, q)
<1> DEFINE g == <<"climb", weakest>>
<1>1. g[1] = "climb" /\ g[2] = weakest
  OBVIOUS
<1> HIDE DEF g
<1>2. Changes(g, b, c)
  BY <1>1 DEF Changes
<1>3. Moves(g) = 0
  BY <1>1 DEF Moves
<1>4. q <= p + Moves(g)
  BY <1>3
<1>5. Does(g, b, p, c, q)
  BY <1>2, <1>4 DEF Does
<1>6. QED
  BY <1>5 DEF g

LEMMA BinaryNodeDoes ==
  ASSUME NEW b \in Stacks, NEW c \in Stacks, NEW p \in Nat, NEW op \in BinaryOperators,
         Yields(b, 2, Precedence[op], c), FitsLeft(op, Under(b)), Top(b) <= Right(op)
  PROVE  Does(Node(op, 2), b, p, c, p) /\ IsBinary(Node(op, 2))
<1> DEFINE g == Node(op, 2)
<1>1. g[1] = "node" /\ g[2] = op /\ g[3] = 2
  BY DEF Node
<1> HIDE DEF g
<1>2. Level(op) = Precedence[op]
  BY DEF Level
<1>3. Changes(g, b, c)
  BY <1>1, <1>2 DEF Changes
<1>4. Moves(g) = 0
  BY <1>1 DEF Moves
<1>5. p <= p + Moves(g)
  BY <1>4
<1>6. Does(g, b, p, c, p) /\ IsBinary(g)
  BY <1>1, <1>3, <1>5 DEF Does, IsBinary
<1>7. QED
  BY <1>6 DEF g

LEMMA Joined ==
  /\ \A g1, g2 : <<g1>> \o <<g2>> = <<g1, g2>>
  /\ \A g1, g2, g3 : <<g1>> \o <<g2, g3>> = <<g1, g2, g3>>
  /\ \A g1, g2, g3, g4 : <<g1>> \o <<g2, g3, g4>> = <<g1, g2, g3, g4>>
<1>2. ASSUME NEW g1, NEW g2 PROVE <<g1>> \o <<g2>> = <<g1, g2>>
  <2> DEFINE t == <<g2>>
             u == <<g1, g2>>
  <2>1. t \in Seq({g2}) /\ u \in Seq({g1, g2})
    OBVIOUS
  <2>2. Len(t) = 1 /\ Len(u) = 2 /\ u[1] = g1
    OBVIOUS
  <2>3. u[2] = t[1]
    OBVIOUS
  <2> HIDE DEF t, u
  <2>4. Len(u) = Len(t) + 1 /\ \A i \in 1 .. Len(t) : u[i + 1] = t[i]
    BY <2>2, <2>3
  <2>5. Sequential(t) /\ Sequential(u)
    BY <2>1 DEF Sequential
  <2>6. <<g1>> \o t = u
    BY <2>2, <2>4, <2>5, InFront
  <2>7. QED
    BY <2>6 DEF t, u
<1>3. ASSUME NEW g1, NEW g2, NEW g3 PROVE <<g1>> \o <<g2, g3>> = <<g1, g2, g3>>
  <2> DEFINE t == <<g2, g3>>
             u == <<g1, g2, g3>>
  <2>1. t \in Seq({g2, g3}) /\ u \in Seq({g1, g2, g3})
    OBVIOUS
  <2>2. Len(t) = 2 /\ Len(u) = 3 /\ u[1] = g1
    OBVIOUS
  <2>3. u[2] = t[1] /\ u[3] = t[2]
    OBVIOUS
  <2> HIDE DEF t, u
  <2>4. Len(u) = Len(t) + 1 /\ \A i \in 1 .. Len(t) : u[i + 1] = t[i]
    BY <2>2, <2>3
  <2>5. Sequential(t) /\ Sequential(u)
    BY <2>1 DEF Sequential
  <2>6. <<g1>> \o t = u
    BY <2>2, <2>4, <2>5, InFront
  <2>7. QED
    BY <2>6 DEF t, u
<1>4. ASSUME NEW g1, NEW g2, NEW g3, NEW g4 PROVE <<g1>> \o <<g2, g3, g4>> = <<g1, g2, g3, g4>>
  <2> DEFINE t == <<g2, g3, g4>>
             u == <<g1, g2, g3, g4>>
  <2>1. t \in Seq({g2, g3, g4}) /\ u \in Seq({g1, g2, g3, g4})
    OBVIOUS
  <2>2. Len(t) = 3 /\ Len(u) = 4 /\ u[1] = g1
    OBVIOUS
  <2>3. u[2] = t[1] /\ u[3] = t[2] /\ u[4] = t[3]
    OBVIOUS
  <2> HIDE DEF t, u
  <2>4. Len(u) = Len(t) + 1 /\ \A i \in 1 .. Len(t) : u[i + 1] = t[i]
    BY <2>2, <2>3
  <2>5. Sequential(t) /\ Sequential(u)
    BY <2>1 DEF Sequential
  <2>6. <<g1>> \o t = u
    BY <2>2, <2>4, <2>5, InFront
  <2>7. QED
    BY <2>6 DEF t, u
<1>5. QED
  BY <1>2, <1>3, <1>4

LEMMA BinarySteps ==
  ASSUME NEW b \in Stacks, NEW c \in Stacks, NEW p \in Nat, NEW q \in Nat, q <= p,
         NEW look \in TokenKind, NEW ahead, NEW g, NEW weakest \in Nat,
         g[1] = "binary", g[2] = weakest, Yields(b, 0, weakest, c)
  PROVE  /\ Runs(Steps(g, look, ahead), b, p, c, q)
         /\ Steps(g, look, ahead) = << <<"unary">>, <<"climb", weakest>> >>
<1> DEFINE d == Append(b, 0)
           first == <<"unary">>
           then == <<"climb", weakest>>
<1>1. Steps(g, look, ahead) = <<first, then>>
  BY DEF Steps, ParseBinary
<1>2. 0 \in Nat /\ 0 + 1 = 1 /\ 0 <= weakest /\ p <= p
  OBVIOUS
<1>3. d \in Stacks /\ Yields(b, 0, 0, d) /\ Top(d) = 0
  BY <1>2, YieldsPush, PushIs
<1>4. Yields(d, 1, weakest, c)
  BY <1>2, YieldsMore
<1> HIDE DEF d
<1>5. first[1] \in Operands /\ then[1] = "climb"
  BY DEF Operands
<1>6. Does(then, d, p, c, q)
  BY <1>2, <1>3, <1>4, ClimbDoes
<1>7. Follows(first, then, d)
  <2>1. ~ IsBinary(then)
    BY <1>5 DEF IsBinary
  <2>2. QED
    BY <1>3, <2>1, Zenon DEF Follows
<1>8. <<first>> \o <<then>> = <<first, then>>
  BY Joined
<1>9. <<then>> # << >> /\ <<then>>[1] = then
  OBVIOUS
<1> HIDE DEF first, then
<1>10. Does(first, b, p, d, p)
  BY <1>2, <1>3, <1>5, OperandDoes
<1> DEFINE t == <<then>>
<1>11. Runs(t, d, p, c, q) /\ Sequential(t)
  BY <1>3, <1>6, One
<1>12. t # << >> /\ t[1] = then
  BY <1>9
<1> HIDE DEF t
<1>13. Runs(<<first>> \o t, b, p, c, q)
  BY <1>3, <1>7, <1>10, <1>11, <1>12, Then
<1>14. QED
  BY <1>1, <1>8, <1>13 DEF t, first, then

LEMMA ClimbSteps ==
  ASSUME NEW b \in Stacks, NEW c \in Stacks, NEW p \in Nat, NEW q \in Nat, q <= p,
         NEW look \in TokenKind, NEW ahead, NEW g, NEW weakest \in Nat,
         g[1] = "climb", g[2] = weakest, Yields(b, 1, weakest, c), Top(b) <= weakest,
         look \in BinaryOperators => FitsLeft(look, Top(b))
  PROVE  /\ Runs(Steps(g, look, ahead), b, p, c, q)
         /\ \/ /\ Steps(g, look, ahead) = << >>
               /\ look \in BinaryOperators => Precedence[look] > weakest
            \/ \E g1, g2, g3 :
                 Steps(g, look, ahead) = <<g1, g2, g3, <<"climb", weakest>> >>
<1>1. Steps(g, look, ahead) = Climb(look, weakest)
  BY DEF Steps
<1>2. CASE look \notin BinaryOperators \/ Precedence[look] > weakest
  <2>1. Runs(<< >>, b, p, c, q)
    BY YieldsSame DEF Runs
  <2>2. Climb(look, weakest) = << >>
    BY <1>2 DEF Climb, Nothing
  <2>3. QED
    BY <1>1, <1>2, <2>1, <2>2
<1>3. CASE look \in BinaryOperators /\ ~ (Precedence[look] > weakest)
  <2> DEFINE level == Precedence[look]
             right == Right(look)
             d == Append(b, right)
             e == Append(Cut(b, 1), level)
             g1 == Consume(look)
             g2 == <<"binary", right>>
             g3 == Node(look, 2)
             g4 == <<"climb", weakest>>
  <2>1. Climb(look, weakest) = <<g1, g2, g3, g4>>
    BY <1>3 DEF Climb, Right
  <2>2. level \in Nat /\ right \in Nat /\ level <= weakest /\ right <= right
        /\ 1 + 1 = 2 /\ 1 \in Nat /\ 0 \in Nat /\ p <= p
    BY <1>3, LevelsAre
  <2>3. Len(b) > 0 /\ Len(b) \in Nat /\ 1 \in 0 .. Len(b)
    BY YieldsSame DEF Stacks
  <2>4. d \in Stacks /\ Yields(b, 0, right, d) /\ Top(d) = right /\ Under(d) = Top(b)
    <3> HIDE DEF right
    <3>1. d \in Stacks /\ Yields(b, 0, right, d)
      BY <2>2, YieldsPush
    <3>2. Len(d) = Len(b) + 1 /\ Top(d) = right /\ \A i \in 1 .. Len(b) : d[i] = b[i]
      BY <2>2, PushIs
    <3>3. Len(d) - 1 = Len(b) /\ Len(b) \in 1 .. Len(b)
      BY <2>3, <3>2
    <3>4. Under(d) = Top(b)
      BY <3>2, <3>3 DEF Under, Top
    <3>5. QED
      BY <3>1, <3>2, <3>4
  <2>5. e \in Stacks /\ Top(e) = level /\ Yields(b, 1, level, e)
    <3> HIDE DEF level
    <3>1. Cut(b, 1) \in Stacks
      BY <2>3, CutIs
    <3>2. e \in Stacks /\ Top(e) = level /\ Below(e, e)
      BY <2>2, <3>1, PushIs, BelowIsOrder
    <3>3. QED
      BY <2>3, <3>2 DEF Yields
  <2>6. Yields(d, 2, level, e)
    <3> HIDE DEF level, right, e
    <3>1. QED
      BY <2>2, <2>5, YieldsMore
  <2>7. Yields(e, 1, weakest, c)
    <3>1. Cut(b, 1) \in Stacks
      BY <2>3, CutIs
    <3>2. Cut(Cut(b, 1), 0) = Cut(b, 1) /\ 0 <= Len(Cut(b, 1))
      BY <3>1, CutNone DEF Stacks
    <3>3. Yields(Cut(b, 1), 0, weakest, c)
      BY <3>2 DEF Yields
    <3>4. 0 + 1 = 1
      OBVIOUS
    <3> HIDE DEF level
    <3>5. QED
      BY <2>2, <3>1, <3>3, <3>4, YieldsMore
  <2> HIDE DEF d, e
  <2>8. Does(g1, b, p, b, p)
    BY <1>3, IdleAre, KindsAre DEF Idles
  <2>9. Does(g2, b, p, d, p) /\ Plain(g2)
    <3>1. g2[1] = "binary" /\ g2[2] = right
      OBVIOUS
    <3> HIDE DEF g2, right
    <3>2. QED
      BY <2>2, <2>4, <3>1, OperandDoes
  <2>10. Does(g3, d, p, e, p) /\ IsBinary(g3)
    BY <1>3, <2>2, <2>4, <2>5, <2>6, BinaryNodeDoes
  <2>11. Does(g4, e, p, c, q)
    <3>1. Top(e) <= weakest
      BY <2>2, <2>5
    <3>2. QED
      BY <2>5, <2>7, <3>1, ClimbDoes
  <2>12. Follows(g2, g3, d)
    <3>1. g3[2] = look /\ g3[1] = "node"
      BY DEF Node
    <3>2. QED
      BY <3>1, Zenon DEF Follows
  <2>13. Follows(g3, g4, e)
    <3>1. ~ IsBinary(g4)
      BY DEF IsBinary
    <3>2. QED
      BY <2>10, <3>1, Zenon DEF Follows
  <2>14. <<"climb", weakest>> = g4
    OBVIOUS
  <2> HIDE DEF g1, g2, g3, g4, level, right
  <2>15. Runs(<<g1, g2, g3, g4>>, b, p, c, q)
    <3> DEFINE t4 == <<g4>>
               t3 == <<g3, g4>>
               t2 == <<g2, g3, g4>>
    <3>1. t4 # << >> /\ t4[1] = g4
      OBVIOUS
    <3>2. t3 # << >> /\ t3[1] = g3
      OBVIOUS
    <3>3. t2 # << >> /\ t2[1] = g2
      OBVIOUS
    <3>4. <<g3>> \o t4 = t3 /\ <<g2>> \o t3 = t2 /\ <<g1>> \o t2 = <<g1, g2, g3, g4>>
      <4>1. <<g3>> \o t4 = t3
        BY Joined
      <4>2. <<g2>> \o t3 = t2
        BY Joined
      <4>3. <<g1>> \o t2 = <<g1, g2, g3, g4>>
        BY Joined
      <4>4. QED
        BY <4>1, <4>2, <4>3
    <3>5. Runs(t4, e, p, c, q) /\ Sequential(t4)
      BY <2>5, <2>11, One
    <3>6. Follows(g1, g2, b)
      BY <2>9, PlainFollows
    <3> HIDE DEF t2, t3, t4
    <3>7. Runs(t3, d, p, c, q) /\ Sequential(t3)
      <4>1. Runs(<<g3>> \o t4, d, p, c, q) /\ Sequential(<<g3>> \o t4)
        BY <2>4, <2>5, <2>10, <2>13, <3>1, <3>5, Then
      <4>2. QED
        BY <3>4, <4>1
    <3>8. Runs(t2, b, p, c, q) /\ Sequential(t2)
      <4>1. Runs(<<g2>> \o t3, b, p, c, q) /\ Sequential(<<g2>> \o t3)
        BY <2>4, <2>9, <2>12, <3>2, <3>7, Then
      <4>2. QED
        BY <3>4, <4>1
    <3>9. Runs(<<g1>> \o t2, b, p, c, q)
      BY <2>8, <3>3, <3>6, <3>8, Then
    <3>10. QED
      BY <3>4, <3>9
  <2>16. QED
    BY <1>1, <2>1, <2>14, <2>15
<1>4. QED
  BY <1>2, <1>3

LEMMA PrefixSteps ==
  ASSUME NEW b \in Stacks, NEW c \in Stacks, NEW p \in Nat, NEW q \in Nat,
         NEW look \in TokenKind, NEW ahead, NEW g, NEW n \in Nat,
         g[1] = "prefix", g[2] = n, Yields(b, 0, 0, c), q <= p - n
  PROVE  Runs(Steps(g, look, ahead), b, p, c, q)
<1>1. Steps(g, look, ahead) = Prefix(look, n)
  BY DEF Steps
<1>2. CASE look \in UnaryOperators
  <2> DEFINE first == Consume(look)
             then == <<"prefix", n + 1>>
  <2>1. Prefix(look, n) = <<first, then>>
    BY <1>2 DEF Prefix
  <2>2. look \in TokenKind \ {"eof"}
    BY <1>2, KindsAre
  <2>3. p + 1 \in Nat /\ n + 1 \in Nat /\ p + 1 <= p + 1 /\ q <= (p + 1) - (n + 1)
        /\ Below(b, b)
    BY BelowIsOrder
  <2>4. Does(first, b, p, b, p + 1)
    BY <2>2, <2>3, ConsumeDoes
  <2>5. Does(then, b, p + 1, c, q) /\ Plain(then)
    BY <2>3, PrefixDoes
  <2> HIDE DEF first, then
  <2>6. Runs(<<first, then>>, b, p, c, q)
    BY <2>3, <2>4, <2>5, Two
  <2>7. QED
    BY <1>1, <2>1, <2>6
<1>3. CASE look \notin UnaryOperators /\ n = 0
  <2>1. q <= p
    BY <1>3
  <2>2. Does(<<"primary">>, b, p, c, q)
    BY <2>1, OperandDoes DEF Operands
  <2>3. QED
    BY <1>1, <1>3, <2>2, One DEF Prefix
<1>4. CASE look \notin UnaryOperators /\ n # 0
  <2> DEFINE d == Append(b, 0)
             g1 == <<"primary">>
             g2 == <<"rewind", n>>
             g3 == <<"apply_prefix", n>>
             g4 == <<"postfix_operators">>
  <2>1. Prefix(look, n) = <<g1, g2, g3, g4>>
    BY <1>4 DEF Prefix
  <2>2. 0 \in Nat /\ 0 + 1 = 1 /\ p <= p /\ q <= q /\ 1 \in Nat
    OBVIOUS
  <2>3. /\ d \in Stacks /\ Yields(b, 0, 0, d) /\ Top(d) = 0 /\ Below(d, d)
        /\ Yields(d, 1, 0, c) /\ Yields(d, 1, 0, d)
    <3>1. d \in Stacks /\ Yields(b, 0, 0, d)
      BY <2>2, YieldsPush
    <3>2. Top(d) = 0
      BY <2>2, PushIs
    <3>3. Yields(d, 1, 0, c) /\ Yields(d, 1, 0, d)
      BY <2>2, <3>1, YieldsMore
    <3>4. QED
      BY <3>1, <3>2, <3>3, BelowIsOrder
  <2> HIDE DEF d
  <2>4. g1[1] = "primary" /\ "primary" \in Operands
    BY DEF Operands
  <2>5. g2[1] = "rewind" /\ g2[2] = n
    OBVIOUS
  <2>6. g3[1] = "apply_prefix" /\ g3[2] = n
    OBVIOUS
  <2>7. g4[1] = "postfix_operators" /\ "postfix_operators" \in Extensions
    BY DEF Extensions
  <2> HIDE DEF g1, g2, g3, g4
  <2>8. Does(g1, b, p, d, p)
    BY <2>2, <2>3, <2>4, OperandDoes
  <2>9. Does(g2, d, p, d, q) /\ Plain(g2)
    <3>1. Moves(g2) = - n
      BY <2>5 DEF Moves
    <3>2. q <= p + Moves(g2)
      BY <3>1
    <3>3. Changes(g2, d, d)
      BY <2>3, <2>5 DEF Changes
    <3>4. QED
      BY <2>5, <3>2, <3>3 DEF Does, Plain, IsBinary
  <2>10. Does(g3, d, q, d, q) /\ Plain(g3)
    BY <2>2, <2>3, <2>6, ExtensionDoes
  <2>11. Does(g4, d, q, c, q) /\ Plain(g4)
    BY <2>2, <2>3, <2>7, ExtensionDoes
  <2>12. Runs(<<g1, g2, g3, g4>>, b, p, c, q)
    BY <2>3, <2>8, <2>9, <2>10, <2>11, Four
  <2>13. QED
    BY <1>1, <2>1, <2>12
<1>5. QED
  BY <1>2, <1>3, <1>4

\* A node over a node of level 0 leaves the levels as they are.
LEMMA ApplySteps ==
  ASSUME NEW b \in Stacks, NEW c \in Stacks, NEW p \in Nat, NEW q \in Nat, q <= p,
         NEW look \in TokenKind, NEW ahead, NEW g, NEW n \in Nat,
         g[1] = "apply_prefix", g[2] = n, Yields(b, 1, 0, c), Top(b) = 0
  PROVE  Runs(Steps(g, look, ahead), b, p, c, q)
<1> DEFINE s == ApplyPrefix(ahead, n)
           S == {Node("prefix", 1), Node("unknown", 1)}
<1>1. Steps(g, look, ahead) = s
  BY DEF Steps
<1>2. s \in Seq(S) /\ Len(s) = n /\ \A i \in 1 .. n : s[i] \in S
  <2> DEFINE f(i) == Node(IF ahead[n + 1 - i] \in UnaryOperators THEN "prefix"
                          ELSE "unknown", 1)
  <2>1. \A i \in 1 .. n : f(i) \in S
    OBVIOUS
  <2>2. s = [i \in 1 .. n |-> f(i)]
    BY DEF ApplyPrefix
  <2> HIDE DEF f, S, s
  <2>3. s \in [1 .. n -> S]
    BY <2>1, <2>2
  <2>4. QED
    BY <2>3
<1>3. 0 \in Nat /\ 0 <= 0 /\ 1 \in Nat /\ p <= p
  OBVIOUS
<1>4. Below(b, c) /\ Len(b) > 0
  BY <1>3, YieldsSame
<1>5. Yields(b, 1, 0, b)
  <2>1. b = Append(Cut(b, 1), 0)
    BY <1>4, TopIs
  <2>2. 1 <= Len(b) /\ Below(b, b)
    BY <1>4, BelowIsOrder DEF Stacks
  <2>3. QED
    BY <2>1, <2>2 DEF Yields
<1>6. \A h \in S : Does(h, b, p, b, p) /\ Plain(h)
  <2>1. ASSUME NEW kind, kind \notin BinaryOperators
        PROVE  Does(Node(kind, 1), b, p, b, p) /\ Plain(Node(kind, 1))
    BY <1>3, <1>5, <2>1, NodeDoes
  <2>2. "prefix" \notin BinaryOperators /\ "unknown" \notin BinaryOperators
    BY OtherKinds
  <2>3. /\ Does(Node("prefix", 1), b, p, b, p) /\ Plain(Node("prefix", 1))
        /\ Does(Node("unknown", 1), b, p, b, p) /\ Plain(Node("unknown", 1))
    BY <2>1, <2>2
  <2>4. QED
    BY <2>3
<1> HIDE DEF s, S
<1>7. Runs(s, b, p, b, p)
  <2>1. CASE s = << >>
    BY <2>1, BelowIsOrder DEF Runs
  <2>2. CASE s # << >>
    <3> DEFINE bs == [i \in 1 .. n + 1 |-> b]
               ps == [i \in 1 .. n + 1 |-> p]
    <3>1. /\ bs \in [1 .. n + 1 -> Stacks] /\ ps \in [1 .. n + 1 -> Nat]
          /\ \A i \in 1 .. n + 1 : bs[i] = b /\ ps[i] = p
      OBVIOUS
    <3> HIDE DEF bs, ps
    <3>2. ASSUME NEW i \in 1 .. n PROVE Does(s[i], bs[i], ps[i], bs[i + 1], ps[i + 1])
      <4>1. i \in 1 .. n + 1 /\ i + 1 \in 1 .. n + 1
        OBVIOUS
      <4>2. bs[i] = b /\ ps[i] = p /\ bs[i + 1] = b /\ ps[i + 1] = p
        BY <3>1, <4>1
      <4>3. s[i] \in S
        BY <1>2
      <4>4. QED
        BY <1>6, <4>2, <4>3
    <3>3. ASSUME NEW i \in 2 .. n PROVE Follows(s[i - 1], s[i], bs[i])
      <4>1. i \in 1 .. n
        OBVIOUS
      <4>2. Plain(s[i])
        BY <1>2, <1>6, <4>1
      <4>3. QED
        BY <4>2, PlainFollows
    <3>4. Chain(s, bs, ps)
      BY <1>2, <3>1, <3>2, <3>3 DEF Chain
    <3>5. 1 \in 1 .. n + 1 /\ n + 1 \in 1 .. n + 1
      OBVIOUS
    <3>6. Sequential(s)
      BY <1>2 DEF Sequential
    <3>7. QED
      BY <1>2, <2>2, <3>1, <3>4, <3>5, <3>6 DEF Runs
  <2>3. QED
    BY <2>1, <2>2
<1>8. Runs(s, b, p, c, q)
  BY <1>4, <1>7, RunsTo
<1>9. QED
  BY <1>1, <1>8

\* A procedure does what its goal does.
LEMMA StepsRun ==
  ASSUME NEW b \in Stacks, NEW c \in Stacks, NEW p \in Nat, NEW q \in Nat,
         NEW look \in TokenKind, NEW ahead, NEW g, g[1] \notin Elementary,
         Does(g, b, p, c, q), Ready(g, b, look)
  PROVE  Runs(Steps(g, look, ahead), b, p, c, q)
<1>1. Changes(g, b, c) /\ q <= p + Moves(g)
  BY DEF Does, Elementary
<1>2. CASE \/ g[1] \in Flat /\ Below(b, c)
           \/ g[1] \in {"list", "list_more"} /\ g[2] \in Flat /\ Below(b, c)
  <2>1. Moves(g) = 0
    BY <1>2 DEF Moves, Flat
  <2>2. q <= p
    BY <1>1, <2>1
  <2>3. QED
    BY <1>2, <2>2, FlatSteps
<1>3. CASE g[1] = "storage_attributes" /\ Below(b, c)
  BY <1>3, StorageSteps
<1>4. CASE \/ /\ g[1] \in {"sequence", "sequence_more"}
              /\ g[2] \in Nat /\ g[2] <= Len(b) /\ Below(Cut(b, g[2]), c)
           \/ /\ g[1] = "body" /\ g[2] \in {"statement", "declaration"}
              /\ g[3] \in Nat /\ g[3] <= Len(b) /\ Below(Cut(b, g[3]), c)
  <2>1. Moves(g) = 0
    BY <1>4 DEF Moves
  <2>2. q <= p
    BY <1>1, <2>1
  <2>3. QED
    BY <1>4, <2>2, GatherSteps
<1>5. CASE g[1] \in {"construct", "construct_more"} /\ g[2] \in Nat
           /\ Yields(b, g[2] + 1, 0, c)
  <2>1. Moves(g) = 0
    BY <1>5 DEF Moves
  <2>2. q <= p
    BY <1>1, <2>1
  <2>3. QED
    BY <1>5, <2>2, ConstructSteps
<1>6. CASE \/ g[1] \in Operands /\ Yields(b, 0, 0, c)
           \/ g[1] = "value" /\ g[2] \in ControlFlow /\ Yields(b, 0, 0, c)
  <2>1. Moves(g) = 0
    BY <1>6 DEF Moves, Operands
  <2>2. q <= p
    BY <1>1, <2>1
  <2>3. QED
    BY <1>6, <2>2, OperandSteps
<1>7. CASE g[1] \in Expressions /\ Yields(b, 0, kLowest, c)
  <2>1. Moves(g) = 0
    BY <1>7 DEF Moves, Expressions
  <2>2. q <= p
    BY <1>1, <2>1
  <2>3. QED
    BY <1>7, <2>2, StatementSteps
<1>8. CASE \/ g[1] \in Extensions /\ Yields(b, 1, 0, c) /\ Top(b) = 0
           \/ g[1] = "call" /\ g[2] \in {"call", "method call"} /\ Yields(b, 1, 0, c)
  <2>1. Moves(g) = 0
    BY <1>8 DEF Moves, Extensions
  <2>2. q <= p
    BY <1>1, <2>1
  <2>3. QED
    BY <1>8, <2>2, ExtensionSteps
<1>9. CASE g[1] \in {"range_operator", "range_end"}
           /\ Yields(b, 1, kLowest, c) /\ Top(b) <= kLowest
  <2>1. Moves(g) = 0
    BY <1>9 DEF Moves
  <2>2. q <= p
    BY <1>1, <2>1
  <2>3. QED
    BY <1>9, <2>2, RangeSteps
<1>10. CASE g[1] = "binary" /\ g[2] \in Nat /\ Yields(b, 0, g[2], c)
  <2>1. Moves(g) = 0
    BY <1>10 DEF Moves
  <2>2. q <= p
    BY <1>1, <2>1
  <2>3. QED
    BY <1>10, <2>2, BinarySteps
<1>11. CASE g[1] = "climb" /\ g[2] \in Nat /\ Yields(b, 1, g[2], c) /\ Top(b) <= g[2]
  <2>1. Moves(g) = 0
    BY <1>11 DEF Moves
  <2>2. q <= p
    BY <1>1, <2>1
  <2>3. QED
    BY <1>11, <2>2, ClimbSteps DEF Ready
<1>12. CASE g[1] = "prefix" /\ g[2] \in Nat /\ Yields(b, 0, 0, c)
  <2>1. Moves(g) = - g[2]
    BY <1>12 DEF Moves
  <2>2. q <= p - g[2]
    BY <1>1, <1>12, <2>1
  <2>3. QED
    BY <1>12, <2>2, PrefixSteps
<1>13. CASE g[1] = "apply_prefix" /\ g[2] \in Nat /\ Yields(b, 1, 0, c) /\ Top(b) = 0
  <2>1. Moves(g) = 0
    BY <1>13 DEF Moves
  <2>2. q <= p
    BY <1>1, <2>1
  <2>3. QED
    BY <1>13, <2>2, ApplySteps
<1>14. QED
  BY <1>1, <1>2, <1>3, <1>4, <1>5, <1>6, <1>7, <1>8, <1>9, <1>10, <1>11, <1>12, <1>13
     DEF Changes, Elementary

\* A procedure does not start with what needs something of the goal before it.
LEMMA HeadsPlain ==
  ASSUME NEW b \in Stacks, NEW c \in Stacks, NEW look \in TokenKind, NEW ahead, NEW g,
         Changes(g, b, c), g[1] \notin Elementary, Steps(g, look, ahead) # << >>
  PROVE  Plain(Steps(g, look, ahead)[1])
<1>a. /\ g[1] \in {"list", "list_more"} => g[2] \in Flat
      /\ g[1] = "body" => g[2] \in {"statement", "declaration"}
      /\ g[1] = "value" => g[2] \in ControlFlow
      /\ g[1] = "apply_prefix" => g[2] \in Nat
  BY DEF Changes, Flat, Operands, Expressions, Extensions
<1>b. g[1] \in Flat \cup Operands \cup Expressions \cup Extensions
      \cup {"list", "list_more", "sequence", "sequence_more", "body", "construct",
            "construct_more", "storage_attributes", "value", "call", "range_operator",
            "range_end", "binary", "climb", "prefix", "apply_prefix"}
  BY DEF Changes, Elementary
<1> USE DEF Consume, Node, Fail, Nothing, path, type, block, expression, fields, Plain,
           IsBinary
<1>1. CASE g[1] \in {"list", "list_more"}
  <2>1. g[2] \notin {"climb", "node"}
    BY <1>1, <1>a DEF Flat
  <2>2. CASE g[1] = "list"
    BY <2>1, <2>2 DEF Steps, List
  <2>3. CASE g[1] = "list_more"
    BY <2>3 DEF Steps, ListMore
  <2>4. QED
    BY <1>1, <2>2, <2>3
<1>2. CASE g[1] \in {"sequence", "sequence_more"}
  BY <1>2, ZenonT(60) DEF Steps, ParseExpressionSequence, SequenceMore
<1>3. CASE g[1] = "body"
  BY <1>3, <1>a, ZenonT(60) DEF Steps, Body
<1>4. CASE g[1] = "path"
  BY <1>4 DEF Steps, ParsePath
<1>5. CASE g[1] \in {"path_parts", "path_more"}
  BY <1>5, ZenonT(60) DEF Steps, PathParts, PathMore
<1>6. CASE g[1] = "type"
  BY <1>6 DEF Steps, ParseTypeReference
<1>7. CASE g[1] = "array_size"
  BY <1>7 DEF Steps, ArraySize
<1>8. CASE g[1] = "storage_attributes"
  BY <1>8 DEF Steps, StorageAttributes
<1>9. CASE g[1] \in {"capture", "field", "parameter", "attribute_use"}
  BY <1>9, ZenonT(60) DEF Steps, ParseCapture, ParseField, ParseParameter, ParseAttributeUse
<1>10. CASE g[1] = "attribute_arguments"
  BY <1>10 DEF Steps, AttributeArguments
<1>11. CASE g[1] \in {"expression", "binary", "unary"}
  BY <1>11 DEF Steps, ParseRange, ParseBinary
<1>12. CASE g[1] \in {"range_operator", "range_end"}
  BY <1>12, ZenonT(60) DEF Steps, RangeOperator, RangeEnd
<1>13. CASE g[1] = "climb"
  BY <1>13 DEF Steps, Climb
<1>14. CASE g[1] = "prefix"
  BY <1>14 DEF Steps, Prefix
<1>15. CASE g[1] = "postfix_operators"
  BY <1>15 DEF Steps, PostfixOperators
<1>16. CASE g[1] = "primary"
  <2>1. Steps(g, look, ahead) = ParsePrimary(look)
    BY <1>16 DEF Steps
  <2>2. ParsePrimary(look)[1][1] \in {"consume", "postfix", "consume_only", "(", "{", "if",
                                      "loop", "while", "for", "match", "[", "fail"}
    BY DEF ParsePrimary
  <2>3. QED
    BY <2>1, <2>2
<1>17. CASE g[1] \in {"postfix", "call", "macro_call"}
  BY <1>17 DEF Steps, ParsePostfix, ParseCall, ParseMacroCall
<1>18. CASE g[1] = "postfix_form"
  BY <1>18, ZenonT(60) DEF Steps, PostfixForm
<1>19. CASE g[1] = "member"
  <2>1. "field access" \notin BinaryOperators
    BY OtherKinds
  <2>2. QED
    BY <1>19, <2>1 DEF Steps, Member
<1>20. CASE g[1] = "await"
  BY <1>20 DEF Steps, ParseAwait
<1>21. CASE g[1] \in {"construct", "construct_more"}
  BY <1>21, ZenonT(60) DEF Steps, ParseConstruct, ConstructMore
<1>22. CASE g[1] \in {"(", "{", "block"}
  BY <1>22 DEF Steps, ParseGrouped, ParseBlock
<1>23. CASE g[1] \in {"if", "branch", "loop"}
  BY <1>23 DEF Steps, ParseIf, IfBranch, ParseLoop
<1>24. CASE g[1] \in {"else", "else_branch"}
  BY <1>24, ZenonT(60) DEF Steps, ElseBranch, LastBranch
<1>25. CASE g[1] \in {"while", "for", "match"}
  BY <1>25 DEF Steps, ParseWhile, ParseFor, ParseMatch
<1>26. CASE g[1] = "arms"
  BY <1>26 DEF Steps, MatchArms
<1>27. CASE g[1] = "["
  BY <1>27 DEF Steps, ParseClosure
<1>28. CASE g[1] = "statement"
  BY <1>28 DEF Steps, ParseStatement
<1>29. CASE g[1] = "use"
  BY <1>29 DEF Steps, ParseUse
<1>30. CASE g[1] \in {"assign", "declaration"}
  BY <1>30 DEF Steps, ParseAssign, ParseDeclaration
<1>31. CASE g[1] = "assign_operator"
  BY <1>31 DEF Steps, AssignOperator
<1>32. CASE g[1] = "declared"
  BY <1>32 DEF Steps, Declared
<1>33. CASE g[1] \in {"fn", "struct", "union", "enum"}
  BY <1>33 DEF Steps, ParseFunction, ParseFields, ParseEnumeration
<1>34. CASE g[1] \in {"return_type", "function_body"}
  BY <1>34, ZenonT(60) DEF Steps, ReturnType, FunctionBody
<1>35. CASE g[1] \in {"variant", "trait", "impl"}
  BY <1>35 DEF Steps, ParseEnumVariant, ParseTrait, ParseImplementation
<1>36. CASE g[1] = "variant_kind"
  <2>1. Steps(g, look, ahead) = VariantKind(look)
    BY <1>36 DEF Steps
  <2>2. VariantKind(look) # << >> => VariantKind(look)[1][1] \in {"consume", "fail"}
    BY DEF VariantKind
  <2>3. QED
    BY <2>1, <2>2
<1>37. CASE g[1] = "trait_name"
  BY <1>37 DEF Steps, TraitName
<1>38. CASE g[1] \in {"mod", "redirect"}
  BY <1>38 DEF Steps, ParseModule, ParseRedirect
<1>39. CASE g[1] = "value"
  <2> DEFINE keyword == g[2]
  <2>1. keyword \notin BinaryOperators
    BY <1>39, <1>a, OtherKinds
  <2>2. Steps(g, look, ahead) = JumpValue(look, keyword)
    BY <1>39 DEF Steps
  <2> HIDE DEF keyword
  <2>3. Plain(JumpValue(look, keyword)[1])
    BY <2>1 DEF JumpValue
  <2>4. QED
    BY <2>2, <2>3
<1>40. CASE g[1] = "apply_prefix"
  <2> DEFINE s == ApplyPrefix(ahead, g[2])
  <2>1. Steps(g, look, ahead) = s
    BY <1>40 DEF Steps
  <2>2. g[2] \in Nat
    BY <1>40, <1>a
  <2>3. g[2] # 0
    <3>1. g[2] = 0 => s = << >>
      BY DEF ApplyPrefix
    <3>2. QED
      BY <2>1, <3>1
  <2>4. 1 \in 1 .. g[2]
    BY <2>2, <2>3
  <2>5. s[1] \in {Node("prefix", 1), Node("unknown", 1)}
    BY <2>4 DEF ApplyPrefix
  <2>6. "prefix" \notin BinaryOperators /\ "unknown" \notin BinaryOperators
    BY OtherKinds
  <2>7. /\ Plain(Node("prefix", 1)) /\ Plain(Node("unknown", 1))
    BY <2>6
  <2> HIDE DEF Plain, Node
  <2>8. QED
    BY <2>1, <2>5, <2>7
<1>41. QED
  BY <1>b, <1>1, <1>2, <1>3, <1>4, <1>5, <1>6, <1>7, <1>8, <1>9, <1>10, <1>11, <1>12,
     <1>13, <1>14, <1>15, <1>16, <1>17, <1>18, <1>19, <1>20, <1>21, <1>22, <1>23,
     <1>24, <1>25, <1>26, <1>27, <1>28, <1>29, <1>30, <1>31, <1>32, <1>33, <1>34,
     <1>35, <1>36, <1>37, <1>38, <1>39, <1>40
     DEF Flat, Operands, Expressions, Extensions, ControlFlow

-----------------------------------------------------------------------------
(* What a step does to the goals                                           *)

\* Behind a node of level 0 any operator may come.
LEMMA ReadyLow ==
  ASSUME NEW a \in Stacks, NEW b \in Stacks, Below(a, b), Top(b) = 0,
         NEW c, NEW p, NEW q, NEW look, NEW g, g[1] = "climb", Does(g, b, p, c, q)
  PROVE  Ready(g, a, look)
<1>1. Len(b) > 0 /\ Len(a) = Len(b)
  <2>1. Changes(g, b, c)
    BY DEF Does
  <2>2. 1 <= Len(b)
    BY <2>1 DEF Changes, Yields, Flat, Operands, Expressions, Extensions
  <2>3. QED
    BY <2>2 DEF Below, Stacks
<1>2. Top(a) \in Nat /\ Top(a) <= 0
  BY <1>1, TopKeeps
<1>3. Top(a) = 0
  BY <1>2
<1>4. ASSUME look \in BinaryOperators PROVE FitsLeft(look, Top(a))
  <2>1. Precedence[look] \in 3 .. 16
    BY <1>4, LevelsAre
  <2>2. QED
    BY <1>3, <2>1 DEF FitsLeft
<1>5. ~ IsBinary(g)
  BY DEF IsBinary
<1>6. QED
  BY <1>4, <1>5 DEF Ready

\* What comes after a procedure comes after the last goal of its body.
LEMMA StepsFollow ==
  ASSUME NEW b \in Stacks, NEW c \in Stacks, NEW p \in Nat, NEW q \in Nat,
         NEW look \in TokenKind, NEW ahead, NEW g, NEW h, g[1] \notin Elementary,
         Does(g, b, p, c, q), Ready(g, b, look), Follows(g, h, c),
         NEW s, s = Steps(g, look, ahead), s # << >>
  PROVE  Follows(s[Len(s)], h, c)
<1>1. Changes(g, b, c) /\ q <= p + Moves(g)
  BY DEF Does, Elementary
<1>2. ~ IsBinary(g)
  BY DEF IsBinary, Elementary
<1>3. CASE Plain(h)
  BY <1>3, PlainFollows
<1>4. CASE h[1] = "climb"
  <2>1. Top(c) = 0
    BY <1>2, <1>4 DEF Follows
  <2>2. ~ IsBinary(h)
    BY <1>4 DEF IsBinary
  <2>3. QED
    BY <2>1, <2>2 DEF Follows
<1>5. CASE IsBinary(h)
  <2> DEFINE r == Right(h[2])
             last == <<"climb", r>>
  <2>1. g \in {<<"binary", r>>, <<"climb", r>>} /\ r \in Nat
    BY <1>5, LevelsAre DEF Follows, IsBinary
  <2>2. Follows(last, h, c)
    BY <1>5 DEF Follows, IsBinary
  <2>3. s[Len(s)] = last
    <3> HIDE DEF r
    <3>1. CASE g = <<"binary", r>>
      <4>1. g[1] = "binary" /\ g[2] = r
        BY <3>1
      <4>2. Moves(g) = 0 /\ Yields(b, 0, r, c)
        BY <1>1, <4>1 DEF Moves, Changes, Flat, Operands, Expressions, Extensions
      <4>3. q <= p
        BY <1>1, <4>2
      <4>4. s = << <<"unary">>, last>>
        BY <2>1, <4>1, <4>2, <4>3, BinarySteps
      <4> HIDE DEF last
      <4>5. QED
        BY <4>4
    <3>2. CASE g = <<"climb", r>>
      <4>1. g[1] = "climb" /\ g[2] = r
        BY <3>2
      <4>2. Moves(g) = 0 /\ Yields(b, 1, r, c) /\ Top(b) <= r
        BY <1>1, <4>1 DEF Moves, Changes, Flat, Operands, Expressions, Extensions
      <4>3. q <= p
        BY <1>1, <4>2
      <4>4. look \in BinaryOperators => FitsLeft(look, Top(b))
        BY <4>1 DEF Ready
      <4>5. PICK g1, g2, g3 : s = <<g1, g2, g3, last>>
        BY <2>1, <4>1, <4>2, <4>3, <4>4, ClimbSteps
      <4> HIDE DEF last
      <4>6. QED
        BY <4>5
    <3>3. QED
      BY <2>1, <3>1, <3>2
  <2>4. QED
    BY <2>2, <2>3
<1>6. QED
  BY <1>3, <1>4, <1>5 DEF Plain

\* A procedure with nothing to do leaves what comes after it ready.
LEMMA NothingReady ==
  ASSUME NEW b \in Stacks, NEW c \in Stacks, NEW d \in Stacks,
         NEW p \in Nat, NEW q \in Nat, NEW r \in Nat,
         NEW look \in TokenKind, NEW ahead, NEW g, NEW h, g[1] \notin Elementary,
         Does(g, b, p, c, q), Ready(g, b, look), Follows(g, h, c),
         Does(h, c, q, d, r), Steps(g, look, ahead) = << >>
  PROVE  Ready(h, b, look)
<1>1. Changes(g, b, c) /\ q <= p + Moves(g)
  BY DEF Does, Elementary
<1>2. ~ IsBinary(g)
  BY DEF IsBinary, Elementary
<1>3. Runs(Steps(g, look, ahead), b, p, c, q)
  BY StepsRun
<1>4. Below(b, c)
  BY <1>3 DEF Runs
<1>5. CASE Plain(h)
  BY <1>5 DEF Plain, Ready
<1>6. CASE h[1] = "climb"
  <2>1. Top(c) = 0
    BY <1>2, <1>6 DEF Follows
  <2>2. QED
    BY <1>4, <1>6, <2>1, ReadyLow
<1>7. CASE IsBinary(h)
  <2> DEFINE w == Right(h[2])
  <2>1. g \in {<<"binary", w>>, <<"climb", w>>} /\ w \in Nat
    BY <1>7, LevelsAre DEF Follows, IsBinary
  <2>2. look \in BinaryOperators => Precedence[look] > w
    <3> HIDE DEF w
    <3>1. CASE g = <<"binary", w>>
      <4>1. g[1] = "binary" /\ g[2] = w
        BY <3>1
      <4>2. Moves(g) = 0 /\ Yields(b, 0, w, c)
        BY <1>1, <4>1 DEF Moves, Changes, Flat, Operands, Expressions, Extensions
      <4>3. q <= p
        BY <1>1, <4>2
      <4>4. Steps(g, look, ahead) = << <<"unary">>, <<"climb", w>> >>
        BY <2>1, <4>1, <4>2, <4>3, BinarySteps
      <4>5. QED
        BY <4>4
    <3>2. CASE g = <<"climb", w>>
      <4>1. g[1] = "climb" /\ g[2] = w
        BY <3>2
      <4>2. Moves(g) = 0 /\ Yields(b, 1, w, c) /\ Top(b) <= w
        BY <1>1, <4>1 DEF Moves, Changes, Flat, Operands, Expressions, Extensions
      <4>3. q <= p
        BY <1>1, <4>2
      <4>4. look \in BinaryOperators => FitsLeft(look, Top(b))
        BY <4>1 DEF Ready
      <4>5. \/ look \in BinaryOperators => Precedence[look] > w
            \/ \E g1, g2, g3 : Steps(g, look, ahead) = <<g1, g2, g3, <<"climb", w>> >>
        BY <2>1, <4>1, <4>2, <4>3, <4>4, ClimbSteps
      <4>6. ASSUME NEW g1, NEW g2, NEW g3,
                   Steps(g, look, ahead) = <<g1, g2, g3, <<"climb", w>> >>
            PROVE  FALSE
        BY <4>6
      <4>7. QED
        BY <4>5, <4>6
    <3>3. QED
      BY <2>1, <3>1, <3>2
  <2>3. h[1] # "climb"
    BY <1>7 DEF IsBinary
  <2>4. QED
    BY <2>2, <2>3 DEF Ready
<1>8. QED
  BY <1>5, <1>6, <1>7 DEF Plain

\* A procedure that is called leaves goals that run as it would.
LEMMA CallKeeps ==
  ASSUME NEW b \in Stacks, NEW c \in Stacks, NEW p \in Nat, NEW q \in Nat,
         NEW look \in TokenKind, NEW ahead, NEW s, s # << >>, s[1][1] \notin Elementary,
         Runs(s, b, p, c, q), Ready(s[1], b, look),
         NEW u, u = Steps(s[1], look, ahead) \o Tail(s)
  PROVE  /\ Sequential(u) /\ Runs(u, b, p, c, q)
         /\ u # << >> => Ready(u[1], b, look)
<1> DEFINE g == s[1]
           t == Tail(s)
           body == Steps(g, look, ahead)
<1>1. g[1] \notin Elementary /\ Ready(g, b, look) /\ u = body \o t
  OBVIOUS
<1>2. PICK d \in Stacks, o \in Nat :
        /\ Does(g, b, p, d, o) /\ Runs(t, d, o, c, q)
        /\ t # << >> => Follows(g, t[1], d)
  BY RunsHead
<1>3. Sequential(t)
  BY <1>2, RunsAre
<1> HIDE DEF g, t
<1>4. Runs(body, b, p, d, o)
  BY <1>1, <1>2, StepsRun
<1>5. Sequential(body)
  BY <1>4, RunsAre
<1>6. body # << >> /\ t # << >> => Follows(body[Len(body)], t[1], d)
  BY <1>1, <1>2, StepsFollow
<1>7. body # << >> => Plain(body[1])
  <2>1. Changes(g, b, d)
    BY <1>1, <1>2 DEF Does, Elementary
  <2>2. QED
    BY <1>1, <2>1, HeadsPlain
<1>8. ASSUME body = << >>, t # << >> PROVE Ready(t[1], b, look)
  <2>1. PICK e \in Stacks, r \in Nat : Does(t[1], d, o, e, r)
    BY <1>2, <1>8, RunsHead
  <2>2. Follows(g, t[1], d)
    BY <1>2, <1>8
  <2>3. QED
    BY <1>1, <1>2, <1>8, <2>1, <2>2, NothingReady
<1> HIDE DEF body
<1>9. Runs(u, b, p, c, q)
  BY <1>1, <1>2, <1>3, <1>4, <1>5, <1>6, RunsOn, ZenonT(60)
<1>10. Sequential(u)
  BY <1>9, RunsAre
<1>11. ASSUME u # << >> PROVE Ready(u[1], b, look)
  <2>1. CASE body = << >>
    <3>1. u = t
      BY <1>1, <1>3, <2>1, ConcatEmptySeq DEF Sequential
    <3>2. QED
      BY <1>8, <1>11, <2>1, <3>1
  <2>2. CASE body # << >>
    <3>1. u[1] = body[1]
      <4>1. /\ Len(body) \in Nat /\ Len(body) # 0 /\ Len(t) \in Nat
            /\ \A i \in 1 .. Len(body) + Len(t) :
                 (body \o t)[i] = IF i <= Len(body) THEN body[i] ELSE t[i - Len(body)]
        BY <1>3, <1>5, <2>2, SequencesAre
      <4>2. 1 \in 1 .. Len(body) + Len(t) /\ 1 <= Len(body)
        BY <4>1
      <4>3. QED
        BY <1>1, <4>1, <4>2
    <3>2. Plain(u[1])
      BY <1>7, <2>2, <3>1
    <3>3. QED
      BY <3>2 DEF Plain, Ready
  <2>3. QED
    BY <2>1, <2>2
<1>12. QED
  BY <1>9, <1>10, <1>11

\* After an elementary goal that takes b to a, or below, the others run.
LEMMA StepKeeps ==
  ASSUME NEW a \in Stacks, NEW b \in Stacks, NEW c \in Stacks,
         NEW p \in Nat, NEW q \in Nat, NEW o \in Nat, NEW look, NEW next,
         NEW s, s # << >>, s[1][1] \in Elementary, Runs(s, b, p, c, q),
         Ready(s[1], b, look),
         \A d \in Stacks, r \in Nat : Does(s[1], b, p, d, r) => Below(a, d) /\ r <= o,
         IsBinary(s[1]) => next = look /\ Top(a) = Precedence[s[1][2]]
  PROVE  /\ Sequential(Tail(s)) /\ Runs(Tail(s), a, o, c, q)
         /\ Tail(s) # << >> => Ready(Tail(s)[1], a, next)
<1> DEFINE g == s[1]
           t == Tail(s)
<1>1. PICK d \in Stacks, r \in Nat :
        /\ Does(g, b, p, d, r) /\ Runs(t, d, r, c, q)
        /\ t # << >> => Follows(g, t[1], d)
  BY RunsHead
<1>2. Below(a, d) /\ r <= o /\ Below(c, c) /\ q <= q
  BY <1>1, BelowIsOrder
<1>3. Runs(t, a, o, c, q)
  BY <1>1, <1>2, RunsKeeps
<1>4. Sequential(t)
  BY <1>3, RunsAre
<1>5. ASSUME t # << >> PROVE Ready(t[1], a, next)
  <2> DEFINE h == t[1]
  <2>1. PICK e \in Stacks, n \in Nat : Does(h, d, r, e, n)
    BY <1>1, <1>5, RunsHead
  <2>2. Follows(g, h, d)
    BY <1>1, <1>5
  <2>3. g[1] \in Elementary
    OBVIOUS
  <2> HIDE DEF g, h
  <2>4. ~ IsBinary(h)
    <3>1. g[1] \in {"binary", "climb"} => FALSE
      BY <2>3 DEF Elementary
    <3>2. QED
      BY <2>2, <3>1 DEF Follows
  <2>5. ASSUME h[1] = "climb", Top(d) = 0 PROVE Ready(h, a, next)
    BY <1>1, <1>2, <2>1, <2>5, ReadyLow
  <2>6. ASSUME h[1] = "climb", IsBinary(g) PROVE Ready(h, a, next)
    <3>1. /\ next = look /\ Top(a) = Precedence[g[2]] /\ g[2] \in BinaryOperators
          /\ Ready(g, b, look)
      BY <2>6 DEF g, IsBinary
    <3>2. ASSUME next \in BinaryOperators PROVE FitsLeft(next, Top(a))
      <4>1. Precedence[look] > Right(g[2])
        BY <2>6, <3>1, <3>2 DEF Ready
      <4>2. QED
        BY <3>1, <3>2, <4>1, ClimbsOn
    <3>3. QED
      BY <2>4, <3>2 DEF Ready
  <2>7. ASSUME h[1] # "climb" PROVE Ready(h, a, next)
    BY <2>4, <2>7 DEF Ready
  <2>8. Ready(h, a, next)
    BY <2>2, <2>5, <2>6, <2>7 DEF Follows
  <2>9. QED
    BY <2>8 DEF h
<1>6. QED
  BY <1>3, <1>4, <1>5

-----------------------------------------------------------------------------
(* The nodes, the NodeRanges stored and the NodeIds not used yet           *)

Increasing(s) ==
  s \in Seq(Nat) /\ \A i, j \in 1 .. Len(s) : i < j => s[i] < s[j]

\* own: the node that has a node as a child, the range it is in (negative), or
\* zero: none.
Owned(own, m, ns, rs) ==
  /\ own \in [1 .. Len(ns) -> Int]
  /\ \A j \in 1 .. Len(m) : m[j] \in 1 .. Len(ns) /\ own[m[j]] = 0
  /\ \A i \in 1 .. Len(ns) :
       /\ Increasing(ns[i].children)
       /\ \A j \in 1 .. Len(ns[i].children) :
            ns[i].children[j] \in 1 .. i - 1 /\ own[ns[i].children[j]] = i
  /\ \A k \in 1 .. Len(rs) :
       /\ Increasing(rs[k])
       /\ \A j \in 1 .. Len(rs[k]) :
            rs[k][j] \in 1 .. Len(ns) /\ own[rs[k][j]] = - k

Forest(m, ns, rs) ==
  /\ Sequential(ns)
  /\ Sequential(rs)
  /\ Increasing(m)
  /\ \E own : Owned(own, m, ns, rs)

\* The operands of the operator "op", made before.
Tight(op, ids, ns) ==
  op \in BinaryOperators =>
    /\ Len(ids) = 2
    /\ FitsLeft(op, Level(ns[ids[1]].kind))
    /\ Level(ns[ids[2]].kind) <= Right(op)

AllTight(ns) == \A i \in 1 .. Len(ns) : Tight(ns[i].kind, ns[i].children, ns)

Levels(m, ns) == [j \in 1 .. Len(m) |-> Level(ns[m[j]].kind)]

LastOf(m, n) == SubSeq(m, Len(m) - n + 1, Len(m))
RestOf(m, n) == SubSeq(m, 1, Len(m) - n)

LEMMA Appended ==
  ASSUME NEW s, Sequential(s), NEW x
  PROVE  /\ Sequential(Append(s, x))
         /\ Len(Append(s, x)) = Len(s) + 1 /\ Len(s) \in Nat
         /\ \A i \in 1 .. Len(s) : Append(s, x)[i] = s[i]
         /\ Append(s, x)[Len(s) + 1] = x
<1>0. PICK S : s \in Seq(S)
  BY DEF Sequential
<1> DEFINE T == S \cup {x}
<1>1. s \in Seq(T) /\ x \in T
  <2>1. S \subseteq T
    OBVIOUS
  <2>2. QED
    BY <1>0, <2>1, SeqMonotonic
<1> HIDE DEF T
<1>2. Append(s, x) \in Seq(T)
  BY <1>1
<1>3. /\ Len(Append(s, x)) = Len(s) + 1 /\ Len(s) \in Nat
      /\ \A i \in 1 .. Len(s) : Append(s, x)[i] = s[i]
      /\ Append(s, x)[Len(s) + 1] = x
  BY <1>1
<1>4. QED
  BY <1>2, <1>3 DEF Sequential

LEMMA PartsAre ==
  ASSUME NEW m, Increasing(m), NEW n \in 0 .. Len(m)
  PROVE  /\ Increasing(RestOf(m, n)) /\ Increasing(LastOf(m, n))
         /\ Len(m) \in Nat
         /\ Len(RestOf(m, n)) = Len(m) - n /\ Len(LastOf(m, n)) = n
         /\ \A j \in 1 .. Len(m) - n : RestOf(m, n)[j] = m[j]
         /\ \A j \in 1 .. n : LastOf(m, n)[j] = m[Len(m) - n + j]
<1>1. m \in Seq(Nat) /\ Len(m) \in Nat /\ n \in Nat /\ n <= Len(m)
      /\ \A i, j \in 1 .. Len(m) : i < j => m[i] < m[j]
  BY DEF Increasing
<1>2. /\ RestOf(m, n) \in Seq(Nat) /\ Len(RestOf(m, n)) = Len(m) - n
      /\ \A j \in 1 .. Len(m) - n : RestOf(m, n)[j] = m[j]
  BY <1>1 DEF RestOf
<1>3. /\ LastOf(m, n) \in Seq(Nat) /\ Len(LastOf(m, n)) = n
      /\ \A j \in 1 .. n : LastOf(m, n)[j] = m[Len(m) - n + j]
  <2>1. Len(m) - n + 1 \in 1 .. Len(m) + 1 /\ Len(m) - (Len(m) - n + 1) + 1 = n
    BY <1>1
  <2>2. QED
    BY <1>1, <2>1 DEF LastOf
<1>4. Increasing(RestOf(m, n))
  <2>1. ASSUME NEW i \in 1 .. Len(m) - n, NEW j \in 1 .. Len(m) - n, i < j
        PROVE  RestOf(m, n)[i] < RestOf(m, n)[j]
    <3>1. i \in 1 .. Len(m) /\ j \in 1 .. Len(m)
      BY <1>1
    <3>2. m[i] < m[j]
      BY <1>1, <2>1, <3>1
    <3>3. QED
      BY <1>2, <3>2
  <2>2. QED
    BY <1>2, <2>1 DEF Increasing
<1>5. Increasing(LastOf(m, n))
  <2>1. ASSUME NEW i \in 1 .. n, NEW j \in 1 .. n, i < j
        PROVE  LastOf(m, n)[i] < LastOf(m, n)[j]
    <3>1. Len(m) - n + i \in 1 .. Len(m) /\ Len(m) - n + j \in 1 .. Len(m)
          /\ Len(m) - n + i < Len(m) - n + j
      BY <1>1, <2>1
    <3>2. m[Len(m) - n + i] < m[Len(m) - n + j]
      BY <1>1, <3>1
    <3>3. QED
      BY <1>3, <3>2
  <2>2. QED
    BY <1>3, <2>1 DEF Increasing
<1>6. QED
  BY <1>1, <1>2, <1>3, <1>4, <1>5

\* A procedure that returns no node leaves the rest of them.
LEMMA ForestShrinks ==
  ASSUME NEW m, NEW ns, NEW rs, Forest(m, ns, rs), NEW n \in 0 .. Len(m)
  PROVE  Forest(RestOf(m, n), ns, rs)
<1>1. PICK own : Owned(own, m, ns, rs)
  BY DEF Forest
<1>2. Owned(own, RestOf(m, n), ns, rs)
  <2>1. /\ Len(m) \in Nat /\ Len(RestOf(m, n)) = Len(m) - n
        /\ \A j \in 1 .. Len(m) - n : RestOf(m, n)[j] = m[j]
    BY PartsAre DEF Forest
  <2>2. ASSUME NEW j \in 1 .. Len(RestOf(m, n))
        PROVE  RestOf(m, n)[j] \in 1 .. Len(ns) /\ own[RestOf(m, n)[j]] = 0
    <3>1. j \in 1 .. Len(m) /\ RestOf(m, n)[j] = m[j]
      BY <2>1
    <3>2. QED
      BY <1>1, <3>1 DEF Owned
  <2>3. QED
    BY <1>1, <2>2 DEF Owned
<1>3. QED
  BY <1>2, PartsAre DEF Forest

LEMMA ForestEmpties ==
  ASSUME NEW m, NEW ns, NEW rs, Forest(m, ns, rs)
  PROVE  Forest(<< >>, ns, rs)
<1>1. PICK own : Owned(own, m, ns, rs)
  BY DEF Forest
<1>2. Owned(own, << >>, ns, rs)
  BY <1>1 DEF Owned
<1>3. Increasing(<< >>)
  BY DEF Increasing
<1>4. QED
  BY <1>2, <1>3 DEF Forest

LEMMA LastApart ==
  ASSUME NEW m, Increasing(m), NEW n \in 0 .. Len(m),
         NEW i \in 1 .. Len(m) - n, NEW j \in 1 .. n
  PROVE  RestOf(m, n)[i] # LastOf(m, n)[j]
<1>1. /\ m \in Seq(Nat) /\ Len(m) \in Nat
      /\ RestOf(m, n)[i] = m[i] /\ LastOf(m, n)[j] = m[Len(m) - n + j]
  BY PartsAre DEF Increasing
<1> DEFINE k == Len(m) - n + j
<1>2. i \in 1 .. Len(m) /\ k \in 1 .. Len(m) /\ i < k
  BY <1>1
<1>3. LastOf(m, n)[j] = m[k]
  BY <1>1
<1> HIDE DEF k
<1>4. m[i] < m[k]
  BY <1>2 DEF Increasing
<1>5. m[i] \in Nat /\ m[k] \in Nat
  BY <1>1, <1>2, ElementOfSeq
<1>6. QED
  BY <1>1, <1>3, <1>4, <1>5

\* The last n nodes made get the owner x: a new node or a new range.
Claims(f, own, m, ns, n, x) ==
  /\ f \in [1 .. Len(ns) -> Int]
  /\ \A id \in 1 .. Len(ns) : own[id] # 0 => f[id] = own[id]
  /\ \A j \in 1 .. Len(m) - n :
       RestOf(m, n)[j] \in 1 .. Len(ns) /\ f[RestOf(m, n)[j]] = 0
  /\ \A j \in 1 .. n : LastOf(m, n)[j] \in 1 .. Len(ns) /\ f[LastOf(m, n)[j]] = x

LEMMA Claimed ==
  ASSUME NEW m, NEW ns, NEW rs, NEW own, Increasing(m), Owned(own, m, ns, rs),
         NEW n \in 0 .. Len(m), NEW x \in Int
  PROVE  \E f : Claims(f, own, m, ns, n, x)
<1> DEFINE f == [id \in 1 .. Len(ns) |->
                   IF \E j \in 1 .. n : LastOf(m, n)[j] = id THEN x ELSE own[id]]
<1>1. /\ own \in [1 .. Len(ns) -> Int] /\ Len(m) \in Nat
      /\ \A j \in 1 .. Len(m) : m[j] \in 1 .. Len(ns) /\ own[m[j]] = 0
  BY DEF Owned, Increasing
<1>2. /\ \A j \in 1 .. Len(m) - n : RestOf(m, n)[j] \in 1 .. Len(ns) /\ own[RestOf(m, n)[j]] = 0
      /\ \A j \in 1 .. n : LastOf(m, n)[j] \in 1 .. Len(ns) /\ own[LastOf(m, n)[j]] = 0
  <2>1. /\ \A j \in 1 .. Len(m) - n : RestOf(m, n)[j] = m[j]
        /\ \A j \in 1 .. n : LastOf(m, n)[j] = m[Len(m) - n + j]
    BY PartsAre
  <2>2. ASSUME NEW j \in 1 .. Len(m) - n
        PROVE  RestOf(m, n)[j] \in 1 .. Len(ns) /\ own[RestOf(m, n)[j]] = 0
    <3>1. j \in 1 .. Len(m)
      BY <1>1
    <3>2. QED
      BY <1>1, <2>1, <3>1
  <2>3. ASSUME NEW j \in 1 .. n
        PROVE  LastOf(m, n)[j] \in 1 .. Len(ns) /\ own[LastOf(m, n)[j]] = 0
    <3>1. Len(m) - n + j \in 1 .. Len(m)
      BY <1>1
    <3>2. QED
      BY <1>1, <2>1, <3>1
  <2>4. QED
    BY <2>2, <2>3
<1>3. f \in [1 .. Len(ns) -> Int]
  BY <1>1
<1>4. \A id \in 1 .. Len(ns) : own[id] # 0 => f[id] = own[id]
  BY <1>2
<1>5. \A j \in 1 .. Len(m) - n : f[RestOf(m, n)[j]] = 0
  BY <1>2, LastApart
<1>6. \A j \in 1 .. n : f[LastOf(m, n)[j]] = x
  BY <1>2
<1> HIDE DEF f
<1>7. Claims(f, own, m, ns, n, x)
  BY <1>2, <1>3, <1>4, <1>5, <1>6 DEF Claims
<1>8. QED
  BY <1>7

\* store of a NodeRange
LEMMA ForestStores ==
  ASSUME NEW m, NEW ns, NEW rs, Forest(m, ns, rs), NEW n \in 0 .. Len(m)
  PROVE  Forest(RestOf(m, n), ns, Append(rs, LastOf(m, n)))
<1> DEFINE ids == LastOf(m, n)
           t == Append(rs, ids)
<1>1. PICK own : Owned(own, m, ns, rs)
  BY DEF Forest
<1>2. /\ Increasing(m) /\ Increasing(RestOf(m, n)) /\ Increasing(ids)
      /\ Len(RestOf(m, n)) = Len(m) - n /\ Len(ids) = n
  BY PartsAre DEF Forest
<1>3. /\ Sequential(t)
      /\ Len(t) = Len(rs) + 1 /\ Len(rs) \in Nat
      /\ \A k \in 1 .. Len(rs) : t[k] = rs[k]
      /\ t[Len(rs) + 1] = ids
  <2>1. Sequential(rs)
    BY DEF Forest
  <2> HIDE DEF ids
  <2>2. QED
    BY <2>1, Appended, Zenon
<1> DEFINE x == - (Len(rs) + 1)
<1>4. x \in Int /\ Increasing(m)
  BY <1>2, <1>3
<1> HIDE DEF x
<1>a. PICK f : Claims(f, own, m, ns, n, x)
  BY <1>1, <1>4, Claimed, Zenon
<1>5. /\ f \in [1 .. Len(ns) -> Int]
      /\ \A id \in 1 .. Len(ns) : own[id] # 0 => f[id] = own[id]
      /\ \A j \in 1 .. Len(m) - n : RestOf(m, n)[j] \in 1 .. Len(ns) /\ f[RestOf(m, n)[j]] = 0
      /\ \A j \in 1 .. n : ids[j] \in 1 .. Len(ns) /\ f[ids[j]] = x
  BY <1>a, Zenon DEF Claims
<1> HIDE DEF ids, t
<1>6. ASSUME NEW i \in 1 .. Len(ns), NEW j \in 1 .. Len(ns[i].children)
      PROVE  ns[i].children[j] \in 1 .. i - 1 /\ f[ns[i].children[j]] = i
  <2>1. ns[i].children[j] \in 1 .. i - 1 /\ own[ns[i].children[j]] = i
    BY <1>1 DEF Owned
  <2>2. i # 0 /\ Len(ns) \in Nat
    BY DEF Forest
  <2>3. ns[i].children[j] \in 1 .. Len(ns)
    BY <2>1, <2>2
  <2>4. QED
    BY <1>5, <2>1, <2>2, <2>3
<1>7. ASSUME NEW k \in 1 .. Len(t)
      PROVE  /\ Increasing(t[k])
             /\ \A j \in 1 .. Len(t[k]) : t[k][j] \in 1 .. Len(ns) /\ f[t[k][j]] = - k
  <2>1. CASE k \in 1 .. Len(rs)
    <3>1. Increasing(rs[k]) /\ t[k] = rs[k]
      BY <1>1, <1>3, <2>1 DEF Owned
    <3>2. ASSUME NEW j \in 1 .. Len(rs[k]) PROVE rs[k][j] \in 1 .. Len(ns) /\ f[rs[k][j]] = - k
      <4>1. rs[k][j] \in 1 .. Len(ns) /\ own[rs[k][j]] = - k
        BY <1>1, <2>1 DEF Owned
      <4>2. - k # 0
        BY <2>1
      <4>3. QED
        BY <1>5, <4>1, <4>2
    <3>3. QED
      BY <3>1, <3>2
  <2>2. CASE k = Len(rs) + 1
    <3>1. t[k] = ids /\ x = - k
      BY <1>3, <2>2 DEF x
    <3>2. QED
      BY <1>2, <1>5, <3>1
  <2>3. QED
    BY <1>3, <2>1, <2>2
<1>8. Owned(f, RestOf(m, n), ns, t)
  <2>1. \A i \in 1 .. Len(ns) : Increasing(ns[i].children)
    BY <1>1 DEF Owned
  <2>2. QED
    BY <1>2, <1>5, <1>6, <1>7, <2>1 DEF Owned
<1>9. Forest(RestOf(m, n), ns, t)
  BY <1>2, <1>3, <1>8 DEF Forest
<1>10. QED
  BY <1>9 DEF t, ids

LEMMA ForestGrows ==
  ASSUME NEW m, NEW ns, NEW rs, Forest(m, ns, rs), NEW n \in 0 .. Len(m), NEW kind
  PROVE  Forest(Append(RestOf(m, n), Len(ns) + 1),
                Append(ns, [kind |-> kind, children |-> LastOf(m, n)]), rs)
<1> DEFINE ids == LastOf(m, n)
           node == [kind |-> kind, children |-> ids]
           t == Append(ns, node)
           rest == RestOf(m, n)
           u == Append(rest, Len(ns) + 1)
           new == Len(ns) + 1
<1>1. PICK own : Owned(own, m, ns, rs)
  BY DEF Forest
<1>2. /\ Increasing(m) /\ Increasing(rest) /\ Increasing(ids)
      /\ Len(rest) = Len(m) - n /\ Len(ids) = n /\ Len(m) \in Nat
  BY PartsAre DEF Forest
<1>3. /\ Sequential(t)
      /\ Len(t) = new /\ Len(ns) \in Nat
      /\ \A i \in 1 .. Len(ns) : t[i] = ns[i]
      /\ t[new] = node /\ node.children = ids
  <2>1. node.children = ids
    OBVIOUS
  <2>2. Sequential(ns)
    BY DEF Forest
  <2> HIDE DEF node
  <2>3. /\ Sequential(t) /\ Len(t) = Len(ns) + 1 /\ Len(ns) \in Nat
        /\ \A i \in 1 .. Len(ns) : t[i] = ns[i]
        /\ t[Len(ns) + 1] = node
    BY <2>2, Appended
  <2> HIDE DEF t
  <2>4. QED
    BY <2>1, <2>3
<1>4. new \in Int /\ Increasing(m)
  BY <1>2, <1>3
<1> HIDE DEF new
<1>a. PICK h : Claims(h, own, m, ns, n, new)
  BY <1>1, <1>4, Claimed, Zenon
<1>5. /\ h \in [1 .. Len(ns) -> Int]
      /\ \A id \in 1 .. Len(ns) : own[id] # 0 => h[id] = own[id]
      /\ \A j \in 1 .. Len(m) - n : rest[j] \in 1 .. Len(ns) /\ h[rest[j]] = 0
      /\ \A j \in 1 .. n : ids[j] \in 1 .. Len(ns) /\ h[ids[j]] = new
  BY <1>a, Zenon DEF Claims
<1> HIDE DEF ids, node, t, rest
<1> USE DEF new
<1> DEFINE f == [id \in 1 .. new |-> IF id \in 1 .. Len(ns) THEN h[id] ELSE 0]
<1>6. /\ f \in [1 .. new -> Int] /\ f[new] = 0
      /\ \A id \in 1 .. Len(ns) : id \in 1 .. new /\ f[id] = h[id]
  BY <1>3, <1>5
<1>7. /\ u \in Seq(Nat) /\ Len(u) = Len(m) - n + 1
      /\ \A j \in 1 .. Len(m) - n : u[j] = rest[j]
      /\ u[Len(m) - n + 1] = new
  BY <1>2, <1>3 DEF Increasing
<1> HIDE DEF f, u
<1>8. Increasing(u)
  <2>1. ASSUME NEW i \in 1 .. Len(u), NEW j \in 1 .. Len(u), i < j PROVE u[i] < u[j]
    <3>0. j \in 1 .. Len(m) - n \/ j = Len(m) - n + 1
      BY <1>2, <1>7
    <3>1. i \in 1 .. Len(m) - n
      BY <1>2, <1>7, <2>1
    <3>2. CASE j \in 1 .. Len(m) - n
      <4>1. rest[i] < rest[j]
        BY <1>2, <2>1, <3>1, <3>2 DEF Increasing
      <4>2. QED
        BY <1>7, <3>1, <3>2, <4>1
    <3>3. CASE j = Len(m) - n + 1
      <4>1. rest[i] \in 1 .. Len(ns) /\ u[i] = rest[i]
        BY <1>5, <1>7, <3>1
      <4>2. u[j] = new
        BY <1>7, <3>3
      <4>3. QED
        BY <1>3, <4>1, <4>2
    <3>4. QED
      BY <3>0, <3>2, <3>3
  <2>2. QED
    BY <1>7, <2>1 DEF Increasing
<1>9. ASSUME NEW j \in 1 .. Len(u) PROVE u[j] \in 1 .. new /\ f[u[j]] = 0
  <2>1. j \in 1 .. Len(m) - n \/ j = Len(m) - n + 1
    BY <1>2, <1>7
  <2>2. CASE j \in 1 .. Len(m) - n
    BY <1>5, <1>6, <1>7, <2>2
  <2>3. CASE j = Len(m) - n + 1
    <3>1. new \in 1 .. new
      BY <1>3
    <3>2. QED
      BY <1>6, <1>7, <2>3, <3>1
  <2>4. QED
    BY <2>1, <2>2, <2>3
<1>10. ASSUME NEW i \in 1 .. new
       PROVE  /\ Increasing(t[i].children)
              /\ \A j \in 1 .. Len(t[i].children) :
                   t[i].children[j] \in 1 .. i - 1 /\ f[t[i].children[j]] = i
  <2>1. CASE i \in 1 .. Len(ns)
    <3>1. Increasing(ns[i].children) /\ t[i] = ns[i]
      BY <1>1, <1>3, <2>1 DEF Owned
    <3>2. ASSUME NEW j \in 1 .. Len(ns[i].children)
          PROVE  ns[i].children[j] \in 1 .. i - 1 /\ f[ns[i].children[j]] = i
      <4>1. ns[i].children[j] \in 1 .. i - 1 /\ own[ns[i].children[j]] = i
        BY <1>1, <2>1 DEF Owned
      <4>2. i # 0 /\ ns[i].children[j] \in 1 .. Len(ns)
        BY <1>3, <2>1, <4>1
      <4>3. QED
        BY <1>5, <1>6, <4>1, <4>2
    <3>3. QED
      BY <3>1, <3>2
  <2>2. CASE i = new
    <3>1. t[i].children = ids
      BY <1>3, <2>2
    <3>2. ASSUME NEW j \in 1 .. n PROVE ids[j] \in 1 .. i - 1 /\ f[ids[j]] = i
      BY <1>3, <1>5, <1>6, <2>2
    <3>3. QED
      BY <1>2, <3>1, <3>2
  <2>3. QED
    BY <1>3, <2>1, <2>2
<1>11. ASSUME NEW k \in 1 .. Len(rs)
       PROVE  /\ Increasing(rs[k])
              /\ \A j \in 1 .. Len(rs[k]) : rs[k][j] \in 1 .. new /\ f[rs[k][j]] = - k
  <2>1. Increasing(rs[k])
    BY <1>1 DEF Owned
  <2>2. ASSUME NEW j \in 1 .. Len(rs[k]) PROVE rs[k][j] \in 1 .. new /\ f[rs[k][j]] = - k
    <3>1. rs[k][j] \in 1 .. Len(ns) /\ own[rs[k][j]] = - k
      BY <1>1 DEF Owned
    <3>2. - k # 0
      OBVIOUS
    <3>3. QED
      BY <1>5, <1>6, <3>1, <3>2
  <2>3. QED
    BY <2>1, <2>2
<1>12. Owned(f, u, t, rs)
  BY <1>3, <1>6, <1>9, <1>10, <1>11 DEF Owned
<1>13. Forest(u, t, rs)
  BY <1>3, <1>8, <1>12 DEF Forest
<1>14. QED
  BY <1>13 DEF u, t, rest, node, ids

LEMMA LevelsStack ==
  ASSUME NEW m, NEW ns, Increasing(m)
  PROVE  /\ Levels(m, ns) \in Stacks
         /\ Len(Levels(m, ns)) = Len(m) /\ Len(m) \in Nat
         /\ \A j \in 1 .. Len(m) : Levels(m, ns)[j] = Level(ns[m[j]].kind)
<1>1. Len(m) \in Nat
  BY DEF Increasing
<1>2. \A j \in 1 .. Len(m) : Level(ns[m[j]].kind) \in Nat
  BY LevelsAre
<1>3. Levels(m, ns) \in [1 .. Len(m) -> Nat]
  BY <1>2 DEF Levels
<1>4. Levels(m, ns) \in Seq(Nat) /\ Len(Levels(m, ns)) = Len(m)
  BY <1>1, <1>3
<1>5. QED
  BY <1>1, <1>4 DEF Levels, Stacks

LEMMA LevelsShrink ==
  ASSUME NEW m, NEW ns, Increasing(m), NEW n \in 0 .. Len(m)
  PROVE  Levels(RestOf(m, n), ns) = Cut(Levels(m, ns), n)
<1> DEFINE b == Levels(m, ns)
           c == Levels(RestOf(m, n), ns)
<1>1. /\ b \in Stacks /\ Len(b) = Len(m) /\ Len(m) \in Nat
      /\ \A j \in 1 .. Len(m) : b[j] = Level(ns[m[j]].kind)
  BY LevelsStack
<1>2. /\ Increasing(RestOf(m, n)) /\ Len(RestOf(m, n)) = Len(m) - n
      /\ \A j \in 1 .. Len(m) - n : RestOf(m, n)[j] = m[j]
  BY PartsAre
<1>3. /\ c \in Stacks /\ Len(c) = Len(m) - n
      /\ \A j \in 1 .. Len(m) - n : c[j] = Level(ns[m[j]].kind)
  BY <1>2, LevelsStack
<1> HIDE DEF b, c
<1>4. /\ Cut(b, n) \in Stacks /\ Len(Cut(b, n)) = Len(m) - n
      /\ \A j \in 1 .. Len(m) - n : Cut(b, n)[j] = b[j]
  <2>1. b \in Stacks /\ Len(b) = Len(m) /\ n \in 0 .. Len(b)
    BY <1>1
  <2>2. /\ Cut(b, n) \in Stacks /\ Len(Cut(b, n)) = Len(b) - n
        /\ \A j \in 1 .. Len(b) - n : Cut(b, n)[j] = b[j]
    BY <2>1, CutIs
  <2>3. QED
    BY <2>1, <2>2
<1>5. ASSUME NEW j \in 1 .. Len(m) - n PROVE c[j] = Cut(b, n)[j]
  <2>1. j \in 1 .. Len(m)
    BY <1>1
  <2>2. QED
    BY <1>1, <1>3, <1>4, <2>1
<1>6. c = Cut(b, n)
  BY <1>3, <1>4, <1>5, SeqEqual DEF Stacks
<1>7. QED
  BY <1>6 DEF b, c

LEMMA LevelsGrow ==
  ASSUME NEW m, NEW ns, NEW rs, Forest(m, ns, rs), NEW n \in 0 .. Len(m), NEW kind
  PROVE  Levels(Append(RestOf(m, n), Len(ns) + 1),
                Append(ns, [kind |-> kind, children |-> LastOf(m, n)]))
           = Append(Cut(Levels(m, ns), n), Level(kind))
<1> DEFINE node == [kind |-> kind, children |-> LastOf(m, n)]
           t == Append(ns, node)
           rest == RestOf(m, n)
           new == Len(ns) + 1
           u == Append(rest, new)
           b == Cut(Levels(m, ns), n)
           k == Len(m) - n
           c == Levels(u, t)
           d == Append(b, Level(kind))
<1>1. /\ Increasing(m) /\ Increasing(rest) /\ Len(rest) = k /\ Len(m) \in Nat /\ k \in Nat
      /\ \A j \in 1 .. k : rest[j] = m[j]
  BY PartsAre DEF Forest
<1>2. /\ Len(ns) \in Nat
      /\ \A i \in 1 .. Len(ns) : t[i] = ns[i]
      /\ t[new] = node /\ node.kind = kind
  <2>1. node.kind = kind
    OBVIOUS
  <2>2. Sequential(ns)
    BY DEF Forest
  <2> HIDE DEF node
  <2>3. /\ Sequential(t) /\ Len(t) = Len(ns) + 1 /\ Len(ns) \in Nat
        /\ \A i \in 1 .. Len(ns) : t[i] = ns[i]
        /\ t[Len(ns) + 1] = node
    BY <2>2, Appended
  <2> HIDE DEF t
  <2>4. QED
    BY <2>1, <2>3
<1>3. Forest(u, t, rs)
  BY ForestGrows
<1>4. \A j \in 1 .. Len(m) : m[j] \in 1 .. Len(ns)
  BY DEF Forest, Owned
<1> HIDE DEF node, t
<1>5. /\ b = Levels(rest, ns) /\ b \in Stacks /\ Len(b) = k
      /\ \A j \in 1 .. k : b[j] = Level(ns[rest[j]].kind)
  <2>1. b = Levels(rest, ns)
    BY <1>1, LevelsShrink
  <2>2. /\ Levels(rest, ns) \in Stacks /\ Len(Levels(rest, ns)) = Len(rest)
        /\ \A j \in 1 .. Len(rest) : Levels(rest, ns)[j] = Level(ns[rest[j]].kind)
    <3> HIDE DEF rest, b
    <3>1. QED
      BY <1>1, LevelsStack
  <2> HIDE DEF rest, b
  <2>3. QED
    BY <1>1, <2>1, <2>2
<1>6. Level(kind) \in Nat
  BY LevelsAre
<1> HIDE DEF b
<1>7. /\ d \in Stacks /\ Len(d) = k + 1 /\ d[k + 1] = Level(kind)
      /\ \A j \in 1 .. k : d[j] = b[j]
  <2> DEFINE x == Level(kind)
  <2>1. b \in Stacks /\ Len(b) = k /\ x \in Nat
    BY <1>5, <1>6
  <2> HIDE DEF x, k
  <2>2. /\ Append(b, x) \in Stacks /\ Len(Append(b, x)) = k + 1
        /\ Append(b, x)[k + 1] = x /\ \A j \in 1 .. k : Append(b, x)[j] = b[j]
    BY <2>1, PushIs
  <2>3. QED
    BY <2>2 DEF x
<1>8. Len(u) = k + 1 /\ u[k + 1] = new /\ \A j \in 1 .. k : u[j] = rest[j]
  BY <1>1, <1>2 DEF Increasing
<1> HIDE DEF u, rest, d
<1>9. /\ c \in Stacks /\ Len(c) = k + 1
      /\ \A j \in 1 .. k + 1 : c[j] = Level(t[u[j]].kind)
  <2>1. Increasing(u)
    BY <1>3 DEF Forest
  <2>2. QED
    BY <1>8, <2>1, LevelsStack
<1>10. ASSUME NEW j \in 1 .. k + 1 PROVE c[j] = d[j]
  <2>1. CASE j \in 1 .. k
    <3>1. j \in 1 .. Len(m)
      BY <1>1, <2>1
    <3>2. u[j] = m[j] /\ t[u[j]] = ns[m[j]] /\ b[j] = Level(ns[m[j]].kind)
      BY <1>1, <1>2, <1>4, <1>5, <1>8, <2>1, <3>1
    <3>3. QED
      BY <1>7, <1>9, <2>1, <3>2
  <2>2. CASE j = k + 1
    BY <1>2, <1>7, <1>8, <1>9, <2>2
  <2>3. QED
    BY <1>1, <2>1, <2>2
<1>11. c = d
  BY <1>7, <1>9, <1>10, SeqEqual DEF Stacks
<1>12. QED
  BY <1>11 DEF d, b, u, rest, t, node

\* A new node keeps the tree of operators tight if its operands fit.
LEMMA TightGrows ==
  ASSUME NEW m, NEW ns, NEW rs, Forest(m, ns, rs), AllTight(ns), NEW n \in 0 .. Len(m),
         NEW kind,
         kind \in BinaryOperators =>
           n = 2 /\ FitsLeft(kind, Under(Levels(m, ns))) /\ Top(Levels(m, ns)) <= Right(kind)
  PROVE  AllTight(Append(ns, [kind |-> kind, children |-> LastOf(m, n)]))
<1> DEFINE ids == LastOf(m, n)
           node == [kind |-> kind, children |-> ids]
           t == Append(ns, node)
           new == Len(ns) + 1
<1>1. /\ Increasing(m) /\ Len(ids) = n /\ Len(m) \in Nat
      /\ \A j \in 1 .. n : ids[j] = m[Len(m) - n + j]
  BY PartsAre DEF Forest
<1>2. /\ Len(ns) \in Nat /\ Len(t) = new
      /\ \A i \in 1 .. Len(ns) : t[i] = ns[i]
      /\ t[new] = node /\ node.kind = kind /\ node.children = ids
  <2>1. node.kind = kind /\ node.children = ids
    OBVIOUS
  <2>2. Sequential(ns)
    BY DEF Forest
  <2> HIDE DEF node
  <2>3. /\ Sequential(t) /\ Len(t) = Len(ns) + 1 /\ Len(ns) \in Nat
        /\ \A i \in 1 .. Len(ns) : t[i] = ns[i]
        /\ t[Len(ns) + 1] = node
    BY <2>2, Appended
  <2> HIDE DEF t
  <2>4. QED
    BY <2>1, <2>3
<1>3. \A j \in 1 .. Len(m) : m[j] \in 1 .. Len(ns)
  BY DEF Forest, Owned
<1>4. \A i \in 1 .. Len(ns) : \A j \in 1 .. Len(ns[i].children) :
        ns[i].children[j] \in 1 .. i - 1
  BY DEF Forest, Owned
<1> HIDE DEF ids, node, t
<1>5. ASSUME NEW i \in 1 .. Len(ns) PROVE Tight(t[i].kind, t[i].children, t)
  <2> DEFINE ch == ns[i].children
             op == ns[i].kind
  <2>1. Tight(op, ch, ns) /\ t[i] = ns[i]
    BY <1>2 DEF AllTight
  <2>2. \A j \in 1 .. Len(ch) : ch[j] \in 1 .. Len(ns)
    BY <1>2, <1>4
  <2> HIDE DEF ch, op
  <2>3. ASSUME op \in BinaryOperators
        PROVE  /\ Len(ch) = 2
               /\ FitsLeft(op, Level(t[ch[1]].kind))
               /\ Level(t[ch[2]].kind) <= Right(op)
    <3>1. /\ Len(ch) = 2 /\ FitsLeft(op, Level(ns[ch[1]].kind))
          /\ Level(ns[ch[2]].kind) <= Right(op)
      BY <2>1, <2>3 DEF Tight
    <3>2. ch[1] \in 1 .. Len(ns) /\ ch[2] \in 1 .. Len(ns)
      <4>1. 1 \in 1 .. Len(ch) /\ 2 \in 1 .. Len(ch)
        BY <3>1
      <4>2. QED
        BY <2>2, <4>1
    <3>3. t[ch[1]] = ns[ch[1]] /\ t[ch[2]] = ns[ch[2]]
      BY <1>2, <3>2
    <3>4. QED
      BY <3>1, <3>3
  <2>4. Tight(op, ch, t)
    BY <2>3 DEF Tight
  <2>5. QED
    BY <2>1, <2>4 DEF op, ch
<1>6. Tight(kind, ids, t)
  <2>1. ASSUME kind \in BinaryOperators
        PROVE  /\ Len(ids) = 2
               /\ FitsLeft(kind, Level(t[ids[1]].kind))
               /\ Level(t[ids[2]].kind) <= Right(kind)
    <3> DEFINE b == Levels(m, ns)
    <3>1. /\ Len(b) = Len(m)
          /\ \A j \in 1 .. Len(m) : b[j] = Level(ns[m[j]].kind)
      BY <1>1, LevelsStack
    <3>2. n = 2 /\ FitsLeft(kind, Under(b)) /\ Top(b) <= Right(kind)
      BY <2>1
    <3>3. /\ Len(m) - 1 \in 1 .. Len(m) /\ Len(m) \in 1 .. Len(m)
          /\ 1 \in 1 .. n /\ 2 \in 1 .. n
          /\ Len(m) - n + 1 = Len(m) - 1 /\ Len(m) - n + 2 = Len(m)
      BY <1>1, <3>2
    <3>4. ids[1] = m[Len(m) - 1] /\ ids[2] = m[Len(m)]
      BY <1>1, <3>3
    <3>5. t[ids[1]] = ns[m[Len(m) - 1]] /\ t[ids[2]] = ns[m[Len(m)]]
      BY <1>2, <1>3, <3>3, <3>4
    <3> HIDE DEF b
    <3>6. Under(b) = Level(t[ids[1]].kind) /\ Top(b) = Level(t[ids[2]].kind)
      BY <3>1, <3>3, <3>5 DEF Under, Top
    <3>7. QED
      BY <1>1, <3>2, <3>6
  <2>2. QED
    BY <2>1 DEF Tight
<1>7. ASSUME NEW i \in 1 .. new PROVE Tight(t[i].kind, t[i].children, t)
  <2>1. CASE i \in 1 .. Len(ns)
    BY <1>5, <2>1
  <2>2. CASE i = new
    BY <1>2, <1>6, <2>2
  <2>3. QED
    BY <1>2, <2>1, <2>2
<1>8. AllTight(t)
  BY <1>2, <1>7 DEF AllTight
<1>9. QED
  BY <1>8 DEF t, node, ids

LEMMA ForestIs ==
  ASSUME Forest(made, nodes, ranges)
  PROVE  NodesAreForest /\ \A i \in DOMAIN made : made[i] \in DOMAIN nodes
<1>1. PICK own : Owned(own, made, nodes, ranges)
  BY DEF Forest
<1>2. /\ Len(nodes) \in Nat /\ DOMAIN nodes = 1 .. Len(nodes)
      /\ Len(ranges) \in Nat /\ DOMAIN ranges = 1 .. Len(ranges)
      /\ DOMAIN made = 1 .. Len(made)
  BY DEF Forest, Increasing
<1> DEFINE all == [i \in DOMAIN nodes |-> nodes[i].children]
           parents == all \o ranges
           Of(p) == IF p <= Len(nodes) THEN p ELSE - (p - Len(nodes))
<1>3. /\ DOMAIN parents = 1 .. Len(nodes) + Len(ranges)
      /\ \A p \in 1 .. Len(nodes) : parents[p] = nodes[p].children
      /\ \A p \in Len(nodes) + 1 .. Len(nodes) + Len(ranges) :
           parents[p] = ranges[p - Len(nodes)]
  <2>1. /\ all \in Seq({nodes[i].children : i \in 1 .. Len(nodes)})
        /\ Len(all) = Len(nodes)
        /\ \A p \in 1 .. Len(nodes) : all[p] = nodes[p].children
    BY <1>2, IsASeq
  <2> HIDE DEF all
  <2>a. Sequential(all) /\ Sequential(ranges)
    BY <2>1 DEF Sequential, Forest
  <2>2. /\ Len(parents) = Len(nodes) + Len(ranges)
        /\ \A i \in 1 .. Len(nodes) + Len(ranges) :
             parents[i] = IF i <= Len(nodes) THEN all[i] ELSE ranges[i - Len(nodes)]
    <3>1. /\ Len(all \o ranges) = Len(all) + Len(ranges)
          /\ \A i \in 1 .. Len(all) + Len(ranges) :
               (all \o ranges)[i] = IF i <= Len(all) THEN all[i] ELSE ranges[i - Len(all)]
      BY <2>a, SequencesAre, Zenon
    <3>2. QED
      BY <2>1, <3>1
  <2>3. DOMAIN parents = 1 .. Len(parents)
    <3>1. Sequential(all \o ranges)
      BY <2>a, SequencesAre, Zenon
    <3>2. QED
      BY <3>1 DEF Sequential
  <2> HIDE DEF parents
  <2>4. ASSUME NEW p \in 1 .. Len(nodes) PROVE parents[p] = nodes[p].children
    <3>1. p \in 1 .. Len(nodes) + Len(ranges) /\ p <= Len(nodes)
      BY <1>2
    <3>2. parents[p] = all[p]
      BY <2>2, <3>1
    <3>3. QED
      BY <2>1, <3>2
  <2>5. ASSUME NEW p \in Len(nodes) + 1 .. Len(nodes) + Len(ranges)
        PROVE  parents[p] = ranges[p - Len(nodes)]
    <3>1. p \in 1 .. Len(nodes) + Len(ranges) /\ ~ (p <= Len(nodes))
      BY <1>2
    <3>2. QED
      BY <2>2, <3>1
  <2>6. QED
    BY <2>2, <2>3, <2>4, <2>5
<1>4. \A p \in DOMAIN parents :
        p \in 1 .. Len(nodes) \/ p \in Len(nodes) + 1 .. Len(nodes) + Len(ranges)
  BY <1>2, <1>3
<1> HIDE DEF parents
<1>5. ASSUME NEW p \in DOMAIN parents
      PROVE  /\ Increasing(parents[p])
             /\ \A j \in 1 .. Len(parents[p]) : own[parents[p][j]] = Of(p)
  <2>1. CASE p \in 1 .. Len(nodes)
    <3>1. parents[p] = nodes[p].children /\ Of(p) = p
      BY <1>2, <1>3, <2>1
    <3>2. QED
      BY <1>1, <2>1, <3>1 DEF Owned
  <2>2. CASE p \in Len(nodes) + 1 .. Len(nodes) + Len(ranges)
    <3>1. /\ parents[p] = ranges[p - Len(nodes)] /\ Of(p) = - (p - Len(nodes))
          /\ p - Len(nodes) \in 1 .. Len(ranges)
      BY <1>2, <1>3, <2>2
    <3>2. QED
      BY <1>1, <3>1 DEF Owned
  <2>3. QED
    BY <1>4, <2>1, <2>2
<1>6. ASSUME NEW p \in DOMAIN parents, NEW q \in DOMAIN parents, Of(p) = Of(q) PROVE p = q
  <2>1. p \in 1 .. Len(nodes) + Len(ranges) /\ q \in 1 .. Len(nodes) + Len(ranges)
    BY <1>3
  <2>2. QED
    BY <1>2, <1>6, <2>1
<1> HIDE DEF Of
<1>7. ASSUME NEW p \in DOMAIN parents, NEW q \in DOMAIN parents, p # q
      PROVE  ToSet(parents[p]) \cap ToSet(parents[q]) = {}
  <2> SUFFICES ASSUME NEW x, x \in ToSet(parents[p]), x \in ToSet(parents[q]) PROVE FALSE
    OBVIOUS
  <2>1. DOMAIN parents[p] = 1 .. Len(parents[p]) /\ DOMAIN parents[q] = 1 .. Len(parents[q])
    BY <1>5 DEF Increasing
  <2>2. PICK i \in 1 .. Len(parents[p]) : x = parents[p][i]
    BY <2>1 DEF ToSet
  <2>3. PICK j \in 1 .. Len(parents[q]) : x = parents[q][j]
    BY <2>1 DEF ToSet
  <2>4. Of(p) = Of(q)
    <3>1. own[parents[p][i]] = Of(p)
      BY <1>5
    <3>2. own[parents[q][j]] = Of(q)
      BY <1>5
    <3>3. QED
      BY <2>2, <2>3, <3>1, <3>2
  <2>5. QED
    BY <1>6, <1>7, <2>4
<1>8. ASSUME NEW p \in DOMAIN parents, NEW j \in 1 .. Len(parents[p]) - 1
      PROVE  parents[p][j] < parents[p][j + 1]
  <2> DEFINE s == parents[p]
  <2>1. Increasing(s)
    BY <1>5
  <2> HIDE DEF s
  <2>2. ASSUME NEW k \in 1 .. Len(s) - 1 PROVE s[k] < s[k + 1]
    <3>1. k \in 1 .. Len(s) /\ k + 1 \in 1 .. Len(s) /\ k < k + 1
      BY <2>1 DEF Increasing
    <3>2. QED
      BY <2>1, <3>1 DEF Increasing
  <2>3. QED
    BY <2>2 DEF s
<1>9. ASSUME NEW i \in 1 .. Len(nodes), NEW j \in DOMAIN nodes[i].children
      PROVE  nodes[i].children[j] < i
  <2>1. DOMAIN nodes[i].children = 1 .. Len(nodes[i].children)
    BY <1>1 DEF Owned, Increasing
  <2>2. nodes[i].children[j] \in 1 .. i - 1
    BY <1>1, <2>1 DEF Owned
  <2>3. QED
    BY <2>2
<1>10. \A i \in DOMAIN made : made[i] \in DOMAIN nodes
  BY <1>1, <1>2 DEF Owned
<1>11. NodesAreForest
  BY <1>2, <1>7, <1>8, <1>9 DEF NodesAreForest, parents
<1>12. QED
  BY <1>10, <1>11

LEMMA TightIs ==
  ASSUME Forest(made, nodes, ranges), AllTight(nodes)
  PROVE  PrecedenceRespected
<1>1. DOMAIN nodes = 1 .. Len(nodes)
  BY DEF Forest
<1>2. ASSUME NEW i \in 1 .. Len(nodes), nodes[i].kind \in BinaryOperators
      PROVE  IF Precedence[nodes[i].kind] \in RightToLeft
             THEN /\ Level(nodes[nodes[i].children[1]].kind) < Precedence[nodes[i].kind]
                  /\ Level(nodes[nodes[i].children[2]].kind) <= Precedence[nodes[i].kind]
             ELSE /\ Level(nodes[nodes[i].children[1]].kind) <= Precedence[nodes[i].kind]
                  /\ Level(nodes[nodes[i].children[2]].kind) < Precedence[nodes[i].kind]
  <2> DEFINE op == nodes[i].kind
             l == Level(nodes[nodes[i].children[1]].kind)
             r == Level(nodes[nodes[i].children[2]].kind)
  <2>1. op \in BinaryOperators /\ FitsLeft(op, l) /\ r <= Right(op)
    BY <1>2 DEF AllTight, Tight
  <2>2. l \in Nat /\ r \in Nat
    BY LevelsAre
  <2> HIDE DEF op, l, r
  <2>3. Precedence[op] \in 3 .. 16
    BY <2>1, LevelsAre
  <2>4. IF Precedence[op] \in RightToLeft
        THEN l < Precedence[op] /\ r <= Precedence[op]
        ELSE l <= Precedence[op] /\ r < Precedence[op]
    <3>1. CASE Precedence[op] \in RightToLeft
      BY <2>1, <3>1 DEF FitsLeft, Right
    <3>2. CASE Precedence[op] \notin RightToLeft
      <4>1. l <= Precedence[op] /\ r <= Precedence[op] - 1
        BY <2>1, <3>2 DEF FitsLeft, Right
      <4>2. r < Precedence[op]
        <5> DEFINE x == Precedence[op]
        <5>1. x \in Int /\ r \in Int /\ r <= x - 1
          BY <2>2, <2>3, <4>1
        <5> HIDE DEF x
        <5>2. r < x
          BY ONLY <5>1
        <5>3. QED
          BY <5>2 DEF x
      <4>3. QED
        BY <3>2, <4>1, <4>2
    <3>3. QED
      BY <3>1, <3>2
  <2>5. QED
    BY <2>4 DEF op, l, r
<1>3. QED
  BY <1>1, <1>2 DEF PrecedenceRespected, Level

-----------------------------------------------------------------------------
(* What is left of a statement after one step                              *)

\* The goals s can run, with the nodes made of levels b, the stream p tokens
\* behind where it may not go back to, and the next token "look".
Descends(s, b, p, look) ==
  /\ Sequential(s)
  /\ \E c \in Stacks : \E q \in Nat : Runs(s, b, p, c, q)
  /\ s # << >> => Ready(s[1], b, look)

LEMMA DescendsAfter ==
  ASSUME NEW a \in Stacks, NEW b \in Stacks, NEW p \in Nat, NEW o \in Nat,
         NEW look, NEW next, NEW s, s # << >>, s[1][1] \in Elementary,
         Descends(s, b, p, look),
         \A d \in Stacks, r \in Nat : Does(s[1], b, p, d, r) => Below(a, d) /\ r <= o,
         IsBinary(s[1]) => next = look /\ Top(a) = Precedence[s[1][2]]
  PROVE  Descends(Tail(s), a, o, next)
<1>1. PICK c \in Stacks, q \in Nat : Runs(s, b, p, c, q)
  BY DEF Descends
<1>2. Ready(s[1], b, look)
  BY DEF Descends
<1>3. /\ Sequential(Tail(s)) /\ Runs(Tail(s), a, o, c, q)
      /\ Tail(s) # << >> => Ready(Tail(s)[1], a, next)
  BY <1>1, <1>2, StepKeeps
<1>4. QED
  BY <1>3 DEF Descends

LEMMA DoesFirst ==
  ASSUME NEW b \in Stacks, NEW p \in Nat, NEW look, NEW s, s # << >>,
         Descends(s, b, p, look)
  PROVE  \E d \in Stacks, r \in Nat : Does(s[1], b, p, d, r)
<1>1. PICK c \in Stacks, q \in Nat : Runs(s, b, p, c, q)
  BY DEF Descends
<1>2. QED
  BY <1>1, RunsHead

LEMMA ElementaryDoes ==
  ASSUME NEW b, NEW c, NEW p \in Nat, NEW q \in Nat, NEW g, Does(g, b, p, c, q)
  PROVE  /\ g[1] \in {"consume", "consume_only", "skip"} => Below(b, c) /\ q <= p + 1
         /\ g[1] \in {"consume", "consume_only"} => g[2] \in TokenKind \ {"eof"}
         /\ g[1] = "rewind" => g[2] \in Nat /\ Below(b, c) /\ q <= p - g[2]
         /\ g[1] = "node" =>
              /\ g[3] \in Nat /\ Yields(b, g[3], Level(g[2]), c) /\ q <= p
              /\ g[2] \in BinaryOperators =>
                   g[3] = 2 /\ FitsLeft(g[2], Under(b)) /\ Top(b) <= Right(g[2])
         /\ g[1] \in {"payload", "range"} =>
              g[2] \in Nat /\ g[2] <= Len(b) /\ Below(Cut(b, g[2]), c) /\ q <= p
<1>1. ASSUME g[1] \in {"consume", "consume_only", "skip"}
      PROVE  Below(b, c) /\ q <= p + 1
  BY <1>1 DEF Does, Changes, Moves, Flat, Operands, Expressions, Extensions
<1>2. ASSUME g[1] \in {"consume", "consume_only"} PROVE g[2] \in TokenKind \ {"eof"}
  BY <1>2 DEF Does, Changes, Flat, Operands, Expressions, Extensions
<1>3. ASSUME g[1] = "rewind" PROVE g[2] \in Nat /\ Below(b, c) /\ q <= p - g[2]
  <2>1. g[2] \in Nat /\ Below(b, c)
    BY <1>3 DEF Does, Changes, Flat, Operands, Expressions, Extensions
  <2>2. Moves(g) = - g[2] /\ q <= p + Moves(g)
    BY <1>3 DEF Does, Moves
  <2>3. QED
    BY <2>1, <2>2
<1>4. ASSUME g[1] = "node"
      PROVE  /\ g[3] \in Nat /\ Yields(b, g[3], Level(g[2]), c) /\ q <= p
             /\ g[2] \in BinaryOperators =>
                  g[3] = 2 /\ FitsLeft(g[2], Under(b)) /\ Top(b) <= Right(g[2])
  <2>1. /\ g[3] \in Nat /\ Yields(b, g[3], Level(g[2]), c)
        /\ g[2] \in BinaryOperators =>
             g[3] = 2 /\ FitsLeft(g[2], Under(b)) /\ Top(b) <= Right(g[2])
    BY <1>4 DEF Does, Changes, Flat, Operands, Expressions, Extensions
  <2>2. Moves(g) = 0 /\ q <= p + Moves(g)
    BY <1>4 DEF Does, Moves
  <2>3. QED
    BY <2>1, <2>2
<1>5. ASSUME g[1] \in {"payload", "range"}
      PROVE  g[2] \in Nat /\ g[2] <= Len(b) /\ Below(Cut(b, g[2]), c) /\ q <= p
  <2>1. g[2] \in Nat /\ g[2] <= Len(b) /\ Below(Cut(b, g[2]), c)
    BY <1>5 DEF Does, Changes, Flat, Operands, Expressions, Extensions
  <2>2. Moves(g) = 0 /\ q <= p + Moves(g)
    BY <1>5 DEF Does, Moves
  <2>3. QED
    BY <2>1, <2>2
<1>6. QED
  BY <1>1, <1>2, <1>3, <1>4, <1>5

LEMMA GoalConsumed ==
  ASSUME NEW b \in Stacks, NEW p \in Nat, NEW o \in Nat, NEW look, NEW next,
         NEW s, s # << >>, Descends(s, b, p, look),
         s[1][1] \in {"consume", "consume_only", "skip"}, p + 1 <= o
  PROVE  Descends(Tail(s), b, o, next)
<1>1. s[1][1] \in Elementary /\ ~ IsBinary(s[1])
  BY DEF Elementary, IsBinary
<1>2. ASSUME NEW d \in Stacks, NEW r \in Nat, Does(s[1], b, p, d, r)
      PROVE  Below(b, d) /\ r <= o
  <2>1. Below(b, d) /\ r <= p + 1
    BY <1>2, ElementaryDoes
  <2>2. QED
    BY <2>1
<1>3. QED
  BY <1>1, <1>2, DescendsAfter

LEMMA GoalRewound ==
  ASSUME NEW b \in Stacks, NEW p \in Nat, NEW look, NEW next,
         NEW s, s # << >>, Descends(s, b, p, look), s[1][1] = "rewind"
  PROVE  s[1][2] \in Nat /\ s[1][2] <= p /\ Descends(Tail(s), b, p - s[1][2], next)
<1> DEFINE n == s[1][2]
<1>1. s[1][1] \in Elementary /\ ~ IsBinary(s[1])
  BY DEF Elementary, IsBinary
<1>2. ASSUME NEW d \in Stacks, NEW r \in Nat, Does(s[1], b, p, d, r)
      PROVE  n \in Nat /\ Below(b, d) /\ r <= p - n
  BY <1>2, ElementaryDoes
<1>3. PICK d \in Stacks, r \in Nat : Does(s[1], b, p, d, r)
  BY DoesFirst
<1> HIDE DEF n
<1>4. n \in Nat /\ n <= p /\ p - n \in Nat
  <2>1. n \in Nat /\ r <= p - n
    BY <1>2, <1>3
  <2>2. QED
    BY <2>1
<1>5. Descends(Tail(s), b, p - n, next)
  BY <1>1, <1>2, <1>4, DescendsAfter
<1>6. QED
  BY <1>4, <1>5 DEF n

LEMMA GoalMade ==
  ASSUME NEW b \in Stacks, NEW p \in Nat, NEW look,
         NEW s, s # << >>, Descends(s, b, p, look), s[1][1] = "node",
         NEW kind, kind = s[1][2], NEW n, n = s[1][3]
  PROVE  /\ n \in 0 .. Len(b)
         /\ kind \in BinaryOperators =>
              n = 2 /\ FitsLeft(kind, Under(b)) /\ Top(b) <= Right(kind)
         /\ Descends(Tail(s), Append(Cut(b, n), Level(kind)), p, look)
<1> DEFINE a == Append(Cut(b, n), Level(kind))
<1>1. s[1][1] \in Elementary
  BY DEF Elementary
<1>2. ASSUME NEW d \in Stacks, NEW r \in Nat, Does(s[1], b, p, d, r)
      PROVE  /\ n \in Nat /\ Yields(b, n, Level(kind), d) /\ r <= p
             /\ kind \in BinaryOperators =>
                  n = 2 /\ FitsLeft(kind, Under(b)) /\ Top(b) <= Right(kind)
  <2> DEFINE g == s[1]
  <2>1. Does(g, b, p, d, r) /\ g[1] = "node" /\ kind = g[2] /\ n = g[3]
    BY <1>2
  <2> HIDE DEF g
  <2>2. /\ g[3] \in Nat /\ Yields(b, g[3], Level(g[2]), d) /\ r <= p
        /\ g[2] \in BinaryOperators =>
             g[3] = 2 /\ FitsLeft(g[2], Under(b)) /\ Top(b) <= Right(g[2])
    BY <2>1, ElementaryDoes, Zenon
  <2>3. QED
    BY <2>1, <2>2
<1>3. PICK d \in Stacks, r \in Nat : Does(s[1], b, p, d, r)
  BY DoesFirst
<1>4. n \in 0 .. Len(b)
  BY <1>2, <1>3 DEF Yields, Stacks
<1>5. a \in Stacks /\ Top(a) = Level(kind)
  <2>1. Cut(b, n) \in Stacks /\ Level(kind) \in Nat
    BY <1>4, CutIs, LevelsAre
  <2>2. QED
    BY <2>1, PushIs
<1>6. \A e \in Stacks, o \in Nat : Does(s[1], b, p, e, o) => Below(a, e) /\ o <= p
  BY <1>2 DEF Yields
<1> HIDE DEF a
<1>7. IsBinary(s[1]) => Top(a) = Precedence[s[1][2]]
  BY <1>5 DEF IsBinary, Level
<1>8. Descends(Tail(s), a, p, look)
  BY <1>1, <1>5, <1>6, <1>7, DescendsAfter
<1>9. QED
  BY <1>2, <1>3, <1>4, <1>8 DEF a

LEMMA GoalDropped ==
  ASSUME NEW b \in Stacks, NEW p \in Nat, NEW look,
         NEW s, s # << >>, Descends(s, b, p, look), s[1][1] \in {"payload", "range"},
         NEW n, n = s[1][2]
  PROVE  n \in 0 .. Len(b) /\ Descends(Tail(s), Cut(b, n), p, look)
<1>1. s[1][1] \in Elementary /\ ~ IsBinary(s[1])
  BY DEF Elementary, IsBinary
<1>2. ASSUME NEW d \in Stacks, NEW r \in Nat, Does(s[1], b, p, d, r)
      PROVE  n \in Nat /\ n <= Len(b) /\ Below(Cut(b, n), d) /\ r <= p
  BY <1>2, ElementaryDoes
<1>3. PICK d \in Stacks, r \in Nat : Does(s[1], b, p, d, r)
  BY DoesFirst
<1>4. n \in 0 .. Len(b)
  BY <1>2, <1>3 DEF Stacks
<1>5. Cut(b, n) \in Stacks
  BY <1>4, CutIs
<1>6. QED
  BY <1>1, <1>2, <1>4, <1>5, DescendsAfter

LEMMA GoalCalled ==
  ASSUME NEW b \in Stacks, NEW p \in Nat, NEW look \in TokenKind, NEW ahead,
         NEW s, s # << >>, Descends(s, b, p, look), s[1][1] \notin Elementary
  PROVE  Descends(Steps(s[1], look, ahead) \o Tail(s), b, p, look)
<1> DEFINE u == Steps(s[1], look, ahead) \o Tail(s)
<1>1. PICK c \in Stacks, q \in Nat : Runs(s, b, p, c, q)
  BY DEF Descends
<1>2. Ready(s[1], b, look)
  BY DEF Descends
<1>3. /\ Sequential(u) /\ Runs(u, b, p, c, q)
      /\ u # << >> => Ready(u[1], b, look)
  BY <1>1, <1>2, CallKeeps
<1>4. QED
  BY <1>3 DEF Descends

LEMMA GoalStarts ==
  ASSUME NEW b \in Stacks, NEW p \in Nat, NEW look
  PROVE  Descends(<<statement>>, b, p, look)
<1> DEFINE g == statement
           c == Append(b, kLowest)
<1>1. kLowest \in Nat /\ c \in Stacks
  BY PushIs DEF kLowest
<1>2. Cut(b, 0) = b /\ 0 <= Len(b)
  BY CutNone DEF Stacks
<1>3. Yields(b, 0, kLowest, c)
  BY <1>1, <1>2, BelowIsOrder DEF Yields
<1>4. g[1] \in Expressions /\ p <= p
  BY DEF statement, Expressions
<1> HIDE DEF g, c
<1>5. Does(g, b, p, c, p) /\ Plain(g)
  BY <1>1, <1>3, <1>4, OperandDoes
<1>6. Runs(<<g>>, b, p, c, p) /\ Sequential(<<g>>)
  BY <1>1, <1>5, One
<1>7. Ready(g, b, look)
  BY <1>5 DEF Plain, Ready
<1>8. Descends(<<g>>, b, p, look)
  BY <1>1, <1>6, <1>7 DEF Descends
<1>9. QED
  BY <1>8 DEF g

-----------------------------------------------------------------------------
(* The stream                                                              *)

IsSource(ts) ==
  /\ ts \in Seq(TokenKind) /\ Len(ts) \in Nat \ {0}
  /\ \A i \in 1 .. Len(ts) : ts[i] = "eof" <=> i = Len(ts)

LEMMA SourcesAre ==
  ASSUME NEW ts \in Sources
  PROVE  IsSource(ts)
<1>1. /\ ts \in Seq(TokenKind) /\ Len(ts) > 0
      /\ \A i \in DOMAIN ts : ts[i] = "eof" <=> i = Len(ts)
  BY ParserAssumption
<1>2. Len(ts) \in Nat /\ DOMAIN ts = 1 .. Len(ts)
  BY <1>1
<1>3. Len(ts) \in Nat \ {0}
  BY <1>1, <1>2
<1>4. \A i \in 1 .. Len(ts) : ts[i] = "eof" <=> i = Len(ts)
  BY <1>1, <1>2
<1>5. QED
  BY <1>1, <1>3, <1>4 DEF IsSource

\* A nonempty set of naturals has a least element.
LEMMA Least ==
  ASSUME NEW T, T \subseteq Nat, T # {}
  PROVE  \E x \in T : \A y \in T : x <= y
<1>1. PICK x \in T : \A y \in T : ~ (<<y, x>> \in OpToRel(<, Nat))
  BY NatLessThanWellFounded, WFMin, Zenon
<1>2. ASSUME NEW y \in T PROVE ~ (y < x)
  BY <1>1, <1>2 DEF OpToRel
<1>3. \A y \in T : x <= y
  BY <1>2
<1>4. QED
  BY <1>3

\* The first position behind p, up to the end of the source, that is in T.
LEMMA First ==
  ASSUME NEW p \in Nat, NEW n \in Nat, NEW T, n \in T, p + 1 <= n
  PROVE  \E q \in p + 1 .. n : q \in T /\ \A k \in p + 1 .. q - 1 : k \notin T
<1> DEFINE U == {q \in p + 1 .. n : q \in T}
<1>1. n \in U /\ U \subseteq Nat
  OBVIOUS
<1>2. PICK q \in U : \A k \in U : q <= k
  BY <1>1, Least
<1>3. q \in p + 1 .. n /\ q \in T
  OBVIOUS
<1>4. ASSUME NEW k \in p + 1 .. q - 1 PROVE k \notin T
  BY <1>2, <1>3
<1>5. QED
  BY <1>3, <1>4

LEMMA PeekIs ==
  ASSUME IsSource(tokens), position \in 0 .. Len(tokens) - 1
  PROVE  /\ Peek = tokens[position + 1] /\ Peek \in TokenKind
         /\ Peek = "eof" <=> position = Len(tokens) - 1
<1>1. /\ tokens \in Seq(TokenKind) /\ Len(tokens) \in Nat
      /\ \A i \in 1 .. Len(tokens) : tokens[i] = "eof" <=> i = Len(tokens)
  BY DEF IsSource
<1>2. position + 1 \in 1 .. Len(tokens) /\ position + 0 < Len(tokens)
      /\ position + 0 + 1 = position + 1
  BY <1>1
<1>3. Peek = tokens[position + 1]
  BY <1>2 DEF Peek, PeekAt
<1>4. tokens[position + 1] \in TokenKind
  BY <1>1, <1>2
<1>5. tokens[position + 1] = "eof" <=> position + 1 = Len(tokens)
  BY <1>1, <1>2
<1>6. QED
  BY <1>1, <1>3, <1>4, <1>5

LEMMA NextIs ==
  ASSUME IsSource(tokens), position \in 0 .. Len(tokens) - 1, Peek # "eof"
  PROVE  NextNonWhitespace \in position + 1 .. Len(tokens) - 1
<1> DEFINE n == Len(tokens) - 1
           T == {q \in Nat : tokens[q + 1] \notin {"newline", "whitespace"}}
<1>1. n \in Nat /\ position \in Nat /\ position + 1 <= n
  BY PeekIs DEF IsSource
<1>2. tokens[n + 1] = "eof"
  BY <1>1 DEF IsSource
<1>3. n \in T
  BY <1>1, <1>2
<1>4. PICK q \in position + 1 .. n : q \in T /\ \A k \in position + 1 .. q - 1 : k \notin T
  BY <1>1, <1>3, First
<1>5. \A k \in position + 1 .. q - 1 : tokens[k + 1] \in {"newline", "whitespace"}
  BY <1>1, <1>4
<1>6. QED
  BY <1>4, <1>5 DEF NextNonWhitespace

LEMMA StopsIs ==
  ASSUME IsSource(tokens), position \in 0 .. Len(tokens) - 1, Peek # "eof",
         NEW q, q = CHOOSE r \in position + 1 .. Len(tokens) - 1 :
                      Stops(r) /\ \A k \in position + 1 .. r - 1 : ~ Stops(k)
  PROVE  /\ q \in position + 1 .. Len(tokens) - 1
         /\ tokens[q + 1] \in {";", "}", "newline"} => q + 1 <= Len(tokens) - 1
<1> DEFINE n == Len(tokens) - 1
           T == {r \in Nat : Stops(r)}
<1>1. n \in Nat /\ position \in Nat /\ position + 1 <= n
  BY PeekIs DEF IsSource
<1>2. tokens[n + 1] = "eof"
  BY <1>1 DEF IsSource
<1>3. n \in T
  BY <1>1, <1>2 DEF Stops
<1> HIDE DEF n, T
<1>4. PICK r \in position + 1 .. n : r \in T /\ \A k \in position + 1 .. r - 1 : k \notin T
  BY <1>1, <1>3, First
<1> USE DEF n, T
<1>5. Stops(r) /\ \A k \in position + 1 .. r - 1 : ~ Stops(k)
  BY <1>1, <1>4
<1>6. q \in position + 1 .. n
  BY <1>5
<1>7. ASSUME tokens[q + 1] \in {";", "}", "newline"} PROVE q + 1 <= n
  <2>1. q # n
    BY <1>2, <1>7
  <2> HIDE DEF n
  <2>2. QED
    BY ONLY <1>1, <1>6, <2>1
<1>8. QED
  BY <1>6, <1>7

-----------------------------------------------------------------------------
(* The errors reported                                                     *)

\* The first position behind the last error.
FloorOf(es) == IF es = << >> THEN 0 ELSE Last(es).at + 1

InOrder(es, n) ==
  /\ Sequential(es)
  /\ \A i \in 1 .. Len(es) : es[i].at \in 0 .. n - 1
  /\ \A i, j \in 1 .. Len(es) : i < j => es[i].at < es[j].at

LEMMA FloorIs ==
  ASSUME NEW es, NEW n \in Nat, InOrder(es, n)
  PROVE  /\ FloorOf(es) \in Nat
         /\ \A i \in 1 .. Len(es) : es[i].at < FloorOf(es)
<1>1. /\ Len(es) \in Nat /\ (es = << >> <=> Len(es) = 0)
      /\ \A i \in 1 .. Len(es) : es[i].at \in Nat
      /\ \A i, j \in 1 .. Len(es) : i < j => es[i].at < es[j].at
  BY DEF InOrder
<1>2. CASE es = << >>
  BY <1>1, <1>2 DEF FloorOf
<1>3. CASE es # << >>
  <2>1. Len(es) \in 1 .. Len(es) /\ FloorOf(es) = es[Len(es)].at + 1
    BY <1>1, <1>3 DEF FloorOf, Last
  <2>2. ASSUME NEW i \in 1 .. Len(es) PROVE es[i].at < FloorOf(es)
    <3>1. CASE i = Len(es)
      BY <1>1, <2>1, <3>1
    <3>2. CASE i < Len(es)
      BY <1>1, <2>1, <3>2
    <3>3. QED
      BY <1>1, <3>1, <3>2
  <2>3. QED
    BY <1>1, <2>1, <2>2
<1>4. QED
  BY <1>2, <1>3

LEMMA ReportIs ==
  ASSUME NEW es, NEW n \in Nat, InOrder(es, n), NEW p \in 0 .. n - 1, FloorOf(es) <= p,
         NEW id
  PROVE  /\ InOrder(Append(es, [id |-> id, at |-> p]), n)
         /\ FloorOf(Append(es, [id |-> id, at |-> p])) = p + 1
<1> DEFINE e == [id |-> id, at |-> p]
           t == Append(es, e)
<1>1. /\ Sequential(t)
      /\ Len(t) = Len(es) + 1 /\ Len(es) \in Nat
      /\ \A i \in 1 .. Len(es) : t[i] = es[i]
      /\ t[Len(es) + 1] = e /\ e.at = p
  <2>1. e.at = p
    OBVIOUS
  <2>2. Sequential(es)
    BY DEF InOrder
  <2> HIDE DEF e
  <2>3. /\ Sequential(t) /\ Len(t) = Len(es) + 1 /\ Len(es) \in Nat
        /\ \A i \in 1 .. Len(es) : t[i] = es[i]
        /\ t[Len(es) + 1] = e
    BY <2>2, Appended
  <2> HIDE DEF t
  <2>4. QED
    BY <2>1, <2>3
<1>2. /\ FloorOf(es) \in Nat
      /\ \A i \in 1 .. Len(es) : es[i].at < FloorOf(es) /\ es[i].at \in 0 .. n - 1
  BY FloorIs DEF InOrder
<1> HIDE DEF e, t
<1>3. ASSUME NEW i \in 1 .. Len(t) PROVE t[i].at \in 0 .. n - 1
  <2>1. CASE i \in 1 .. Len(es)
    BY <1>1, <1>2, <2>1
  <2>2. CASE i = Len(es) + 1
    BY <1>1, <2>2
  <2>3. QED
    BY <1>1, <2>1, <2>2
<1>4. ASSUME NEW i \in 1 .. Len(t), NEW j \in 1 .. Len(t), i < j PROVE t[i].at < t[j].at
  <2>1. i \in 1 .. Len(es) /\ t[i] = es[i]
    BY <1>1, <1>4
  <2>2. CASE j \in 1 .. Len(es)
    <3>1. es[i].at < es[j].at /\ t[j] = es[j]
      BY <1>1, <1>4, <2>1, <2>2 DEF InOrder
    <3>2. QED
      BY <2>1, <3>1
  <2>3. CASE j = Len(es) + 1
    <3>1. t[j].at = p
      BY <1>1, <2>3
    <3>2. es[i].at < FloorOf(es) /\ es[i].at \in 0 .. n - 1
      BY <1>2, <2>1
    <3>3. QED
      BY <1>2, <2>1, <3>1, <3>2
  <2>4. QED
    BY <1>1, <2>2, <2>3
<1>5. InOrder(t, n)
  BY <1>1, <1>3, <1>4 DEF InOrder
<1>6. FloorOf(t) = p + 1
  <2>1. t # << >>
    BY <1>1
  <2>2. Last(t) = e
    BY <1>1 DEF Last
  <2>3. QED
    BY <1>1, <2>1, <2>2 DEF FloorOf
<1>7. QED
  BY <1>5, <1>6 DEF t, e

-----------------------------------------------------------------------------
(* The inductive invariant                                                 *)

Reading ==
  /\ IsSource(tokens) /\ position \in 0 .. Len(tokens) - 1
  /\ strict \in BOOLEAN
  /\ status \in {"kReadyToParse", "kParseCompleted", "kErrorOccured"}
  /\ pc \in {"next", "statement", "synchronize", "done", "overflow", "aborted"}

Reported == InOrder(errors, Len(tokens))

\* The stream is behind the token of the last error, but for synchronize().
Advancing ==
  /\ pc = "next" => FloorOf(errors) <= position \/ position = Len(tokens) - 1
  /\ pc = "statement" => FloorOf(errors) <= position
  /\ pc = "synchronize" => FloorOf(errors) = position + 1

Growing == Forest(made, nodes, ranges) /\ AllTight(nodes)

\* The goals left take the nodes made to that of the statement, and do not
\* take the stream back to the token of the last error.
Descending ==
  pc = "statement" =>
    Descends(goals, Levels(made, nodes), position - FloorOf(errors), Peek)

ParserInv == Reading /\ Reported /\ Advancing /\ Growing /\ Descending

LEMMA InvIs ==
  ASSUME ParserInv
  PROVE  /\ Len(tokens) \in Nat \ {0} /\ position \in Nat
         /\ FloorOf(errors) \in Nat
         /\ Levels(made, nodes) \in Stacks /\ Len(Levels(made, nodes)) = Len(made)
         /\ Peek = tokens[position + 1] /\ Peek \in TokenKind
         /\ Peek = "eof" <=> position = Len(tokens) - 1
         /\ pc = "statement" => position - FloorOf(errors) \in Nat
<1>1. Len(tokens) \in Nat \ {0} /\ position \in 0 .. Len(tokens) - 1
  BY DEF ParserInv, Reading, IsSource
<1>2. FloorOf(errors) \in Nat
  BY <1>1, FloorIs DEF ParserInv, Reported
<1>3. Levels(made, nodes) \in Stacks /\ Len(Levels(made, nodes)) = Len(made)
  BY LevelsStack DEF ParserInv, Growing, Forest
<1>4. /\ Peek = tokens[position + 1] /\ Peek \in TokenKind
      /\ Peek = "eof" <=> position = Len(tokens) - 1
  BY PeekIs DEF ParserInv, Reading
<1>5. pc = "statement" => position - FloorOf(errors) \in Nat
  BY <1>1, <1>2 DEF ParserInv, Advancing
<1>6. QED
  BY <1>1, <1>2, <1>3, <1>4, <1>5

LEMMA InvInit ==
  ASSUME Init
  PROVE  ParserInv
<1>1. IsSource(tokens) /\ Len(tokens) \in Nat \ {0}
  BY SourcesAre DEF Init, IsSource
<1>2. Reading
  BY <1>1, ParserAssumption DEF Init, Reading
<1>3. errors = << >> /\ Len(errors) = 0 /\ errors \in Seq({}) /\ FloorOf(errors) = 0
  BY DEF Init, FloorOf
<1>4. Reported
  <2>1. Sequential(errors)
    BY <1>3 DEF Sequential
  <2>2. QED
    BY <1>3, <2>1 DEF Reported, InOrder
<1>5. Advancing
  BY <1>3 DEF Init, Advancing
<1>6. Growing
  <2>1. made = << >> /\ nodes = << >> /\ ranges = << >>
    BY DEF Init
  <2>2. nodes \in Seq({}) /\ ranges \in Seq({})
        /\ Len(made) = 0 /\ Len(nodes) = 0 /\ Len(ranges) = 0
    BY <2>1
  <2>3. Increasing(made) /\ Owned([i \in 1 .. Len(nodes) |-> 0], made, nodes, ranges)
    BY <2>1, <2>2 DEF Increasing, Owned
  <2>4. Sequential(nodes) /\ Sequential(ranges)
    BY <2>2 DEF Sequential
  <2>5. QED
    BY <2>2, <2>3, <2>4 DEF Growing, Forest, AllTight
<1>7. Descending
  BY DEF Init, Descending
<1>8. QED
  BY <1>2, <1>4, <1>5, <1>6, <1>7 DEF ParserInv

-----------------------------------------------------------------------------
(* Every action keeps the invariant                                        *)

\* What an action leaves as it is.
LEMMA SameTree ==
  ASSUME Growing, UNCHANGED tree
  PROVE  Growing' /\ Levels(made, nodes)' = Levels(made, nodes)
BY DEF Growing, tree, Levels

LEMMA InvReturns ==
  ASSUME ParserInv, ParseAllReturns
  PROVE  ParserInv'
<1>1. Growing'
  BY SameTree DEF ParserInv, ParseAllReturns
<1>2. QED
  BY <1>1 DEF ParserInv, ParseAllReturns, Reading, Reported, Advancing, Descending

LEMMA InvSkipToken ==
  ASSUME ParserInv, SkipToken
  PROVE  ParserInv'
<1>1. Growing'
  BY SameTree DEF ParserInv, SkipToken
<1>2. position' = position + 1 /\ position + 1 \in 0 .. Len(tokens) - 1
  <2>1. Peek # "eof" /\ position' = position + 1
    BY DEF SkipToken
  <2>2. /\ Len(tokens) \in Nat /\ position \in 0 .. Len(tokens) - 1
        /\ Peek = "eof" <=> position = Len(tokens) - 1
    BY InvIs DEF ParserInv, Reading
  <2>3. QED
    BY <2>1, <2>2
<1>3. Reading' /\ Reported'
  BY <1>2 DEF ParserInv, SkipToken, Reading, Reported
<1>4. Advancing'
  <2>1. FloorOf(errors) <= position
    BY <1>2, InvIs DEF ParserInv, SkipToken, Advancing
  <2>2. pc' = "next" /\ errors' = errors /\ position' = position + 1
    BY DEF SkipToken
  <2>3. position \in Nat /\ FloorOf(errors) \in Nat
    BY InvIs
  <2>4. FloorOf(errors) <= position + 1
    BY <2>1, <2>3
  <2>5. QED
    BY <2>2, <2>4 DEF Advancing
<1>5. QED
  BY <1>1, <1>3, <1>4 DEF ParserInv, SkipToken, Descending

LEMMA InvParseNext ==
  ASSUME ParserInv, ParseNext
  PROVE  ParserInv'
<1>1. Growing' /\ Levels(made, nodes)' = Levels(made, nodes)
  BY SameTree DEF ParserInv, ParseNext
<1>2. Reading' /\ Reported'
  BY DEF ParserInv, ParseNext, Reading, Reported
<1>3. FloorOf(errors) <= position
  BY InvIs DEF ParserInv, ParseNext, Advancing
<1>4. Advancing'
  BY <1>3 DEF ParseNext, Advancing
<1>5. Descends(<<statement>>, Levels(made, nodes), position - FloorOf(errors), Peek)
  BY <1>3, InvIs, GoalStarts
<1>6. Descending'
  BY <1>1, <1>5 DEF ParseNext, Descending, Peek, PeekAt
<1>7. QED
  BY <1>1, <1>2, <1>4, <1>6 DEF ParserInv

LEMMA InvParsed ==
  ASSUME ParserInv, StatementParsed
  PROVE  ParserInv'
<1>1. Growing'
  BY ForestEmpties DEF ParserInv, StatementParsed, Growing
<1>2. QED
  BY <1>1 DEF ParserInv, StatementParsed, Reading, Reported, Advancing, Descending

\* The goal to run, and what is left of the statement.
LEMMA GoalIs ==
  ASSUME ParserInv, pc = "statement"
  PROVE  /\ Descends(goals, Levels(made, nodes), position - FloorOf(errors), Peek)
         /\ position - FloorOf(errors) \in Nat
         /\ Levels(made, nodes) \in Stacks /\ Len(Levels(made, nodes)) = Len(made)
BY InvIs DEF ParserInv, Descending

\* The stream goes forward by the token consumed at least.
LEMMA InvConsumed ==
  ASSUME ParserInv, pc = "statement", goals # << >>,
         goals[1][1] \in {"consume", "consume_only", "skip"},
         position' \in position + 1 .. Len(tokens) - 1, goals' = Tail(goals),
         UNCHANGED <<tokens, strict, status, pc, tree, errors>>
  PROVE  ParserInv'
<1>1. Growing' /\ Levels(made, nodes)' = Levels(made, nodes)
  BY SameTree DEF ParserInv
<1>2. position \in Nat /\ Len(tokens) \in Nat /\ FloorOf(errors) \in Nat
      /\ FloorOf(errors) <= position
  BY InvIs DEF ParserInv, Advancing
<1>3. position' \in 0 .. Len(tokens) - 1 /\ position' \in Nat /\ position + 1 <= position'
  BY <1>2
<1>4. Reading' /\ Reported'
  BY <1>3 DEF ParserInv, Reading, Reported
<1>5. FloorOf(errors) <= position'
  BY <1>2, <1>3
<1>6. Advancing'
  BY <1>5 DEF Advancing
<1> DEFINE o == position' - FloorOf(errors)
           p == position - FloorOf(errors)
<1>7. o \in Nat /\ p \in Nat /\ p + 1 <= o
  BY <1>2, <1>3, <1>5
<1>8. Descends(goals, Levels(made, nodes), p, Peek) /\ Levels(made, nodes) \in Stacks
  BY GoalIs
<1> HIDE DEF o, p
<1>9. Descends(Tail(goals), Levels(made, nodes), o, Peek')
  BY <1>7, <1>8, GoalConsumed
<1>10. Descending'
  BY <1>1, <1>9 DEF Descending, o
<1>11. QED
  BY <1>1, <1>4, <1>6, <1>10 DEF ParserInv

LEMMA ConsumesNoEof ==
  ASSUME ParserInv, Goal("consume") \/ Goal("consume_only")
  PROVE  argument # "eof"
<1>1. pc = "statement" /\ goals # << >> /\ goals[1][1] \in {"consume", "consume_only"}
  BY DEF Goal
<1> DEFINE b == Levels(made, nodes)
           p == position - FloorOf(errors)
           g == goals[1]
<1>2. Descends(goals, b, p, Peek) /\ p \in Nat /\ b \in Stacks
  BY <1>1, GoalIs
<1> HIDE DEF b, p
<1>3. PICK d \in Stacks, r \in Nat : Does(g, b, p, d, r)
  BY <1>1, <1>2, DoesFirst
<1>4. g[1] \in {"consume", "consume_only"}
  BY <1>1
<1> HIDE DEF g
<1>5. g[2] \in TokenKind \ {"eof"}
  BY <1>2, <1>3, <1>4, ElementaryDoes
<1>6. QED
  BY <1>5 DEF argument, g

LEMMA InvConsuming ==
  ASSUME ParserInv, Consuming
  PROVE  ParserInv'
<1>1. Peek # "eof"
  BY ConsumesNoEof DEF Consuming
<1>2. position' \in position + 1 .. Len(tokens) - 1
  <2>1. NextNonWhitespace \in position + 1 .. Len(tokens) - 1
    BY <1>1, NextIs DEF ParserInv, Reading
  <2>2. position + 1 \in position + 1 .. Len(tokens) - 1
    BY <1>1, InvIs DEF ParserInv, Reading
  <2>3. QED
    BY <2>1, <2>2 DEF Consuming
<1>3. QED
  BY <1>2, InvConsumed DEF Consuming, Goal

LEMMA InvSkip ==
  ASSUME ParserInv, Skip
  PROVE  ParserInv'
<1>1. position' \in position + 1 .. Len(tokens) - 1
  BY NextIs DEF ParserInv, Reading, Skip
<1>2. QED
  BY <1>1, InvConsumed DEF Skip, Goal

LEMMA InvSkipEof ==
  ASSUME ParserInv, SkipEof
  PROVE  ParserInv'
<1>1. Growing'
  BY SameTree DEF ParserInv, SkipEof
<1>2. QED
  BY <1>1 DEF ParserInv, SkipEof, Reading, Reported, Advancing, Descending

LEMMA InvRewind ==
  ASSUME ParserInv, Rewind
  PROVE  ParserInv'
<1>1. Growing' /\ Levels(made, nodes)' = Levels(made, nodes)
  BY SameTree DEF ParserInv, Rewind
<1>2. /\ position \in Nat /\ Len(tokens) \in Nat /\ FloorOf(errors) \in Nat
      /\ position \in 0 .. Len(tokens) - 1
  BY InvIs DEF ParserInv, Reading
<1> DEFINE b == Levels(made, nodes)
           p == position - FloorOf(errors)
           n == argument
<1>3. Descends(goals, b, p, Peek) /\ p \in Nat /\ b \in Stacks
  BY GoalIs DEF Rewind, Goal
<1>4. goals # << >> /\ goals[1][1] = "rewind" /\ n = goals[1][2]
  BY DEF Rewind, Goal, argument
<1> HIDE DEF b, n
<1>5. p = position - FloorOf(errors)
  OBVIOUS
<1> HIDE DEF p
<1>6. n \in Nat /\ n <= p /\ Descends(Tail(goals), b, p - n, Peek')
  BY <1>3, <1>4, GoalRewound
<1>7. position' = position - n /\ goals' = Tail(goals)
      /\ UNCHANGED <<tokens, strict, status, pc, errors>>
  BY DEF Rewind, n
<1>8. position - n \in 0 .. Len(tokens) - 1 /\ FloorOf(errors) <= position - n
      /\ p - n = (position - n) - FloorOf(errors)
  BY <1>2, <1>3, <1>5, <1>6
<1>9. Reading' /\ Reported'
  BY <1>7, <1>8 DEF ParserInv, Reading, Reported
<1>10. Advancing'
  BY <1>7, <1>8 DEF Rewind, Goal, Advancing
<1>11. Descending'
  BY <1>1, <1>6, <1>7, <1>8 DEF Descending, b
<1>12. QED
  BY <1>1, <1>9, <1>10, <1>11 DEF ParserInv

LEMMA InvAllocNode ==
  ASSUME ParserInv, AllocNode
  PROVE  ParserInv'
<1> DEFINE b == Levels(made, nodes)
           p == position - FloorOf(errors)
           kind == argument
           n == goals[1][3]
           u == Append(RestOf(made, n), Len(nodes) + 1)
           t == Append(nodes, [kind |-> kind, children |-> LastOf(made, n)])
<1>1. /\ Descends(goals, b, p, Peek) /\ p \in Nat /\ b \in Stacks
      /\ Len(b) = Len(made)
  BY GoalIs DEF AllocNode, Goal
<1>2. goals # << >> /\ goals[1][1] = "node" /\ kind = goals[1][2]
  BY DEF AllocNode, Goal, argument
<1>3. /\ made' = u /\ nodes' = t /\ goals' = Tail(goals)
      /\ UNCHANGED <<tokens, strict, position, status, pc, ranges, errors>>
  BY DEF AllocNode, LastMade, LastOf, Rest, RestOf
<1>4. Forest(made, nodes, ranges) /\ AllTight(nodes)
  BY DEF ParserInv, Growing
<1> HIDE DEF b, p, kind
<1>5. /\ n \in 0 .. Len(b)
      /\ kind \in BinaryOperators =>
           n = 2 /\ FitsLeft(kind, Under(b)) /\ Top(b) <= Right(kind)
      /\ Descends(Tail(goals), Append(Cut(b, n), Level(kind)), p, Peek)
  BY <1>1, <1>2, GoalMade
<1>6. n \in 0 .. Len(made)
  BY <1>1, <1>5
<1> HIDE DEF n
<1>7. Forest(u, t, ranges)
  BY <1>4, <1>6, ForestGrows
<1>8. AllTight(t)
  BY <1>4, <1>5, <1>6, TightGrows DEF b
<1>9. Levels(u, t) = Append(Cut(b, n), Level(kind))
  BY <1>4, <1>6, LevelsGrow DEF b
<1> HIDE DEF u, t
<1>10. Growing'
  BY <1>3, <1>7, <1>8 DEF Growing
<1>11. Reading' /\ Reported' /\ Advancing'
  BY <1>3 DEF ParserInv, Reading, Reported, Advancing
<1>12. Peek' = Peek
  BY <1>3 DEF Peek, PeekAt
<1>13. Descending'
  BY <1>3, <1>5, <1>9, <1>12 DEF Descending, p
<1>14. QED
  BY <1>10, <1>11, <1>13 DEF ParserInv

LEMMA InvDropped ==
  ASSUME ParserInv, pc = "statement", goals # << >>, goals[1][1] \in {"payload", "range"},
         NEW n, n = argument,
         made' = RestOf(made, n), goals' = Tail(goals),
         ranges' = ranges \/ ranges' = Append(ranges, LastOf(made, n)),
         UNCHANGED <<tokens, strict, position, status, pc, nodes, errors>>
  PROVE  ParserInv'
<1> DEFINE b == Levels(made, nodes)
           p == position - FloorOf(errors)
<1>1. /\ Descends(goals, b, p, Peek) /\ p \in Nat /\ b \in Stacks
      /\ Len(b) = Len(made)
  BY GoalIs
<1>2. n = goals[1][2]
  BY DEF argument
<1>3. Forest(made, nodes, ranges) /\ AllTight(nodes) /\ Increasing(made)
  BY DEF ParserInv, Growing, Forest
<1> HIDE DEF b, p
<1>4. n \in 0 .. Len(b) /\ Descends(Tail(goals), Cut(b, n), p, Peek)
  BY <1>1, <1>2, GoalDropped
<1>5. n \in 0 .. Len(made)
  BY <1>1, <1>4
<1>6. Forest(RestOf(made, n), nodes, ranges')
  <2>1. CASE ranges' = ranges
    BY <1>3, <1>5, <2>1, ForestShrinks
  <2>2. CASE ranges' = Append(ranges, LastOf(made, n))
    BY <1>3, <1>5, <2>2, ForestStores
  <2>3. QED
    BY <2>1, <2>2
<1>7. Growing'
  BY <1>3, <1>6 DEF Growing
<1>8. Levels(made, nodes)' = Cut(b, n)
  <2>1. Levels(RestOf(made, n), nodes) = Cut(b, n)
    BY <1>3, <1>5, LevelsShrink DEF b
  <2>2. Levels(made, nodes)' = Levels(made', nodes')
    BY DEF Levels
  <2>3. QED
    BY <2>1, <2>2
<1>9. Reading' /\ Reported' /\ Advancing'
  BY DEF ParserInv, Reading, Reported, Advancing
<1>10. Peek' = Peek
  BY DEF Peek, PeekAt
<1>11. Descending'
  BY <1>4, <1>8, <1>10 DEF Descending, p
<1>12. QED
  BY <1>7, <1>9, <1>11 DEF ParserInv

LEMMA InvPayload ==
  ASSUME ParserInv, AllocPayload
  PROVE  ParserInv'
<1>1. /\ pc = "statement" /\ goals # << >> /\ goals[1][1] \in {"payload", "range"}
      /\ made' = RestOf(made, argument) /\ goals' = Tail(goals) /\ ranges' = ranges
      /\ UNCHANGED <<tokens, strict, position, status, pc, nodes, errors>>
  BY DEF AllocPayload, Goal, Rest, RestOf
<1>2. QED
  BY <1>1, InvDropped

LEMMA InvStoreRange ==
  ASSUME ParserInv, StoreRange
  PROVE  ParserInv'
<1>1. /\ pc = "statement" /\ goals # << >> /\ goals[1][1] \in {"payload", "range"}
      /\ made' = RestOf(made, argument) /\ goals' = Tail(goals)
      /\ ranges' = Append(ranges, LastOf(made, argument))
      /\ UNCHANGED <<tokens, strict, position, status, pc, nodes, errors>>
  BY DEF StoreRange, Goal, Rest, RestOf, LastMade, LastOf
<1>2. QED
  BY <1>1, InvDropped

LEMMA InvReport ==
  ASSUME ParserInv, pc = "statement", NEW id, Report(id)
  PROVE  ParserInv'
<1>1. /\ errors' = Append(errors, [id |-> id, at |-> position]) /\ made' = << >>
      /\ pc' = IF strict THEN "done" ELSE "synchronize"
      /\ status' = IF strict THEN "kErrorOccured" ELSE status
      /\ UNCHANGED <<tokens, strict, position, nodes, ranges>>
  BY DEF Report
<1>2. InOrder(errors', Len(tokens)) /\ FloorOf(errors') = position + 1
  <2>1. InOrder(errors, Len(tokens)) /\ FloorOf(errors) <= position
    BY DEF ParserInv, Reported, Advancing
  <2>2. Len(tokens) \in Nat /\ position \in 0 .. Len(tokens) - 1
    BY InvIs DEF ParserInv, Reading
  <2>3. QED
    BY <1>1, <2>1, <2>2, ReportIs
<1>3. Reading'
  BY <1>1 DEF ParserInv, Reading
<1>4. Reported'
  BY <1>1, <1>2 DEF Reported
<1>5. Advancing'
  BY <1>1, <1>2 DEF Advancing
<1>6. Growing'
  BY <1>1, ForestEmpties DEF ParserInv, Growing
<1>7. Descending'
  BY <1>1 DEF Descending
<1>8. QED
  BY <1>3, <1>4, <1>5, <1>6, <1>7 DEF ParserInv

LEMMA InvFails ==
  ASSUME ParserInv, Failing \/ ConsumeFails
  PROVE  ParserInv'
<1>1. pc = "statement" /\ \E id : Report(id)
  BY DEF Failing, ConsumeFails, Goal
<1>2. QED
  BY <1>1, InvReport

LEMMA InvCall ==
  ASSUME ParserInv, Call
  PROVE  ParserInv'
<1>1. Growing' /\ Levels(made, nodes)' = Levels(made, nodes)
  BY SameTree DEF ParserInv, Call
<1> DEFINE b == Levels(made, nodes)
           p == position - FloorOf(errors)
           u == Steps(goals[1], Peek, Ahead) \o Tail(goals)
<1>2. Descends(goals, b, p, Peek) /\ p \in Nat /\ b \in Stacks
  BY GoalIs DEF Call
<1>3. Peek \in TokenKind
  BY InvIs
<1>4. goals # << >> /\ goals[1][1] \notin Elementary
  BY DEF Call
<1> HIDE DEF b, p
<1>5. Descends(u, b, p, Peek)
  BY <1>2, <1>3, <1>4, GoalCalled
<1>6. /\ pc = "statement" /\ goals' = u /\ pc' \in {"overflow", pc}
      /\ UNCHANGED <<tokens, strict, position, status, errors>>
  BY DEF Call
<1> HIDE DEF u
<1>7. Peek' = Peek
  BY <1>6 DEF Peek, PeekAt
<1>8. Reading' /\ Reported'
  BY <1>6 DEF ParserInv, Reading, Reported
<1>9. Advancing'
  BY <1>6 DEF ParserInv, Advancing
<1>10. Descending'
  BY <1>1, <1>5, <1>6, <1>7 DEF Descending, b, p
<1>11. QED
  BY <1>1, <1>8, <1>9, <1>10 DEF ParserInv

LEMMA InvSynchronize ==
  ASSUME ParserInv, Synchronize
  PROVE  ParserInv'
<1>1. Growing'
  BY SameTree DEF ParserInv, Synchronize
<1>2. /\ pc' = "next" /\ UNCHANGED <<tokens, strict, status, errors>>
      /\ FloorOf(errors) = position + 1
  BY DEF Synchronize, ParserInv, Advancing
<1>3. /\ position \in Nat /\ Len(tokens) \in Nat /\ position \in 0 .. Len(tokens) - 1
      /\ Peek = "eof" <=> position = Len(tokens) - 1
  BY InvIs DEF ParserInv, Reading
<1>4. /\ position' \in 0 .. Len(tokens) - 1
      /\ FloorOf(errors) <= position' \/ position' = Len(tokens) - 1
  <2>1. CASE Peek = "eof"
    BY <1>3, <2>1 DEF Synchronize
  <2>2. CASE Peek # "eof"
    <3> DEFINE q == CHOOSE r \in position + 1 .. Len(tokens) - 1 :
                      Stops(r) /\ \A k \in position + 1 .. r - 1 : ~ Stops(k)
    <3>1. position' = IF tokens[q + 1] \in {";", "}", "newline"} THEN q + 1 ELSE q
      BY <2>2 DEF Synchronize
    <3>2. /\ q \in position + 1 .. Len(tokens) - 1
          /\ tokens[q + 1] \in {";", "}", "newline"} => q + 1 <= Len(tokens) - 1
      BY <2>2, StopsIs DEF ParserInv, Reading
    <3> HIDE DEF q
    <3>3. position' \in position + 1 .. Len(tokens) - 1
      <4>1. CASE tokens[q + 1] \in {";", "}", "newline"}
        <5>1. position' = q + 1 /\ q + 1 <= Len(tokens) - 1
          BY <3>1, <3>2, <4>1
        <5>2. q \in position + 1 .. Len(tokens) - 1
          BY <3>2
        <5>3. position \in Nat /\ Len(tokens) \in Nat
          BY <1>3
        <5>4. q + 1 \in position + 1 .. Len(tokens) - 1
          BY ONLY <5>1, <5>2, <5>3
        <5>5. QED
          BY <5>1, <5>4
      <4>2. CASE tokens[q + 1] \notin {";", "}", "newline"}
        <5>1. position' = q
          BY <3>1, <4>2
        <5>2. QED
          BY <3>2, <5>1
      <4>3. QED
        BY <4>1, <4>2
    <3>4. QED
      BY <1>2, <1>3, <3>3
  <2>3. QED
    BY <2>1, <2>2
<1>5. Reading' /\ Reported'
  BY <1>2, <1>4 DEF ParserInv, Reading, Reported
<1>6. Advancing'
  BY <1>2, <1>4 DEF Advancing
<1>7. Descending'
  BY <1>2 DEF Descending
<1>8. QED
  BY <1>1, <1>5, <1>6, <1>7 DEF ParserInv

LEMMA InvNext ==
  ASSUME ParserInv, [Next]_vars
  PROVE  ParserInv'
<1>1. CASE UNCHANGED vars
  <2>1. Growing'
    BY <1>1, SameTree DEF ParserInv, vars, tree
  <2>2. Peek' = Peek
    BY <1>1 DEF vars, Peek, PeekAt
  <2>3. Levels(made, nodes)' = Levels(made, nodes)
    BY <1>1 DEF vars, Levels
  <2>4. Descending'
    BY <1>1, <2>2, <2>3 DEF ParserInv, vars, Descending
  <2>5. Reading' /\ Reported' /\ Advancing'
    BY <1>1 DEF ParserInv, vars, Reading, Reported, Advancing
  <2>6. QED
    BY <2>1, <2>4, <2>5 DEF ParserInv
<1>2. CASE Next
  BY <1>2, InvReturns, InvSkipToken, InvParseNext, InvParsed, InvConsuming, InvSkip,
     InvSkipEof, InvRewind, InvAllocNode, InvPayload, InvStoreRange, InvFails, InvCall,
     InvSynchronize DEF Next
<1>3. QED
  BY <1>1, <1>2

-----------------------------------------------------------------------------
(* Theorems                                                                *)

LEMMA Invariance == Spec => []ParserInv
<1>1. Init => ParserInv
  BY InvInit
<1>2. ParserInv /\ [Next]_vars => ParserInv'
  BY InvNext
<1>3. QED
  BY <1>1, <1>2, PTL DEF Spec

\* The stream is never past its end-of-file token, and every NodeId that a
\* procedure has returned is one of a node.
THEOREM TypeCorrect == Spec => []TypeOK
<1>1. ParserInv => TypeOK
  <2> SUFFICES ASSUME ParserInv PROVE TypeOK
    OBVIOUS
  <2>1. \A i \in DOMAIN made : made[i] \in DOMAIN nodes
    BY ForestIs DEF ParserInv, Growing
  <2>2. \A i \in DOMAIN errors : errors[i].at \in 0 .. Len(tokens) - 1
    BY DEF ParserInv, Reported, InOrder
  <2>3. QED
    BY <2>1, <2>2 DEF ParserInv, Reading, TypeOK
<1>2. QED
  BY <1>1, Invariance, PTL

\* Whatever the source, errors are reported in its order and no token is the
\* cause of two: after each of them parse_all() is past the token that caused
\* it, and the tokens that parse_unary_expr() goes back are behind that one.
THEOREM ErrorsCorrect == Spec => []ErrorsAdvance
<1>1. ParserInv => ErrorsAdvance
  <2> SUFFICES ASSUME ParserInv, NEW i \in 1 .. Len(errors) - 1
               PROVE  errors[i].at < errors[i + 1].at
    BY DEF ErrorsAdvance
  <2>1. Len(errors) \in Nat /\ \A k, j \in 1 .. Len(errors) : k < j => errors[k].at < errors[j].at
    BY DEF ParserInv, Reported, InOrder
  <2>2. i \in 1 .. Len(errors) /\ i + 1 \in 1 .. Len(errors) /\ i < i + 1
    BY <2>1
  <2>3. QED
    BY <2>1, <2>2
<1>2. QED
  BY <1>1, Invariance, PTL

\* Whatever the source, no procedure uses a NodeId twice: the children that
\* nodes and NodeRanges refer to are a forest, each in the order of allocation.
THEOREM NodesCorrect == Spec => []NodesAreForest
<1>1. ParserInv => NodesAreForest
  BY ForestIs DEF ParserInv, Growing
<1>2. QED
  BY <1>1, Invariance, PTL

\* Whatever the source, the tree that parse_binary_expr() builds is the one
\* that precedence and associativity demand.
THEOREM PrecedenceCorrect == Spec => []PrecedenceRespected
<1>1. ParserInv => PrecedenceRespected
  BY TightIs DEF ParserInv, Growing
<1>2. QED
  BY <1>1, Invariance, PTL
=============================================================================
