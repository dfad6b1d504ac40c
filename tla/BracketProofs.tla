--------------------------- MODULE BracketProofs ----------------------------
(***************************************************************************)
(* Proofs about the brackets of a source that Parser accepts.  Each goal   *)
(* closes a known number of brackets, so that the goals left close what is *)
(* open of the source read, but where the code reads a bracket otherwise   *)
(* than it is written.                                                     *)
(***************************************************************************)
EXTENDS ParserProofs, FiniteSetTheorems

-----------------------------------------------------------------------------
(* Brackets: what goals close                                              *)

Consumes(g, kind) == g[1] \in {"consume", "consume_only"} /\ g[2] = kind

\* The goals that consume a "}" that another goal has opened.
Bodies == {"body", "construct", "construct_more"}

\* How many brackets of the pair the goal g closes: -1 for one that it opens.
Owes(g, pair) ==
  IF Consumes(g, pair[1]) THEN -1
  ELSE IF Consumes(g, pair[2]) \/ (g[1] \in Bodies /\ pair[2] = "}") THEN 1
  ELSE 0

\* The goals s close d brackets of the pair, and never more than are open.
Nests(s, pair, d) ==
  \E h \in [1 .. Len(s) + 1 -> Nat] :
    /\ h[1] = d /\ h[Len(s) + 1] = 0
    /\ \A i \in 1 .. Len(s) : h[i] = h[i + 1] + Owes(s[i], pair)

\* Goals after which the source is not accepted, or has a prefix operator.
Marked(g) ==
  \/ g[1] = "fail"
  \/ g[1] \in {"prefix", "apply_prefix"} /\ g[2] \in Nat \ {0}
  \/ g[1] = "node" /\ g[2] \in {"prefix", "unknown"}

\* The procedures that lists are of.
Listed == {"type", "capture", "field", "parameter", "attribute_use", "variant", "path"}

\* The goals without those: what they do follows from their names.
Usual(g) ==
  /\ g[1] \notin {"fail", "skip", "rewind", "array_size", "apply_prefix"}
  /\ g[1] = "prefix" => g[2] = 0
  /\ g[1] = "node" => g[2] \notin {"prefix", "unknown"}
  /\ g[1] \in {"list", "list_more"} => g[2] \in Listed
  /\ g[1] = "body" => g[2] \in {"statement", "declaration"}
  /\ g[1] = "call" => g[2] \in {"call", "method call"}
  /\ g[1] = "value" => g[2] \in ControlFlow

\* The kinds of tokens that types and variants stand behind; no other goal
\* says what it stands behind.
TypeFront == {":", "->", "(", ","}
VariantFront == {"{", ","}
Of(g, name) == g[1] = name \/ (g[1] = "list" /\ g[2] = name)
Before(g) ==
  IF Of(g, "type") THEN TypeFront ELSE IF Of(g, "variant") THEN VariantFront ELSE {}

-----------------------------------------------------------------------------
(* Brackets: the inductive invariant                                       *)

\* An error, or a prefix operator, has come or is bound to.
Astray ==
  \/ errors # << >>
  \/ HasPrefixOperator
  \/ /\ pc = "statement"
     /\ \/ \E i \in 1 .. Len(goals) : Marked(goals[i])
        \/ /\ goals # << >> /\ goals[1][1] \in {"consume", "consume_only"}
           /\ goals[1][2] # Peek

\* Each of the goals s stands behind a token that it may stand behind; p
\* tokens are read.
Placed(s, p) ==
  \A i \in 1 .. Len(s) :
    Before(s[i]) # {} =>
      IF i = 1 THEN IsBehind(Before(s[1]), p + 1)
      ELSE s[i - 1][1] = "consume" /\ s[i - 1][2] \in Before(s[i])

InName(p) == IsPathBehind(VariantFront, p + 1)
AfterName(p) == InName(p) /\ IsBehind({"identifier"}, p + 1)

\* What decides on the kind of a variant comes right behind the variant's path.
Naming(s, p) ==
  \A i \in 1 .. Len(s) :
    s[i][1] = "variant_kind" =>
      \/ i = 1 /\ (AfterName(p) \/ tokens[p + 1] = "eof")
      \/ i = 2 /\ s[1][1] \in {"path", "path_parts"} /\ InName(p)
      \/ i = 2 /\ s[1][1] = "path_more" /\ AfterName(p)
      \/ i = 3 /\ s[1] = Consume("::") /\ s[2][1] = "path_parts" /\ InName(p)
      \/ i = 3 /\ s[1] = Consume("identifier") /\ s[2][1] = "path_more" /\ InName(p)

\* The goals s close what the first p tokens have left open.
Nested(s, p) ==
  \A pair \in Brackets :
    /\ \A n \in 0 .. p : Count(pair[2], n) <= Count(pair[1], n)
    /\ Nests(s, pair, Count(pair[1], p) - Count(pair[2], p))

Upright(s, p) ==
  /\ Sequential(s) /\ \A i \in 1 .. Len(s) : Usual(s[i])
  /\ Placed(s, p) /\ Naming(s, p) /\ Nested(s, p)

Straight ==
  /\ pc \in {"next", "statement", "done"}
  /\ pc \in {"next", "done"} => goals = << >>
  /\ pc = "done" => Peek = "eof"
  /\ Upright(goals, position)

BalanceInv ==
  \/ HasArrayType \/ HasVariantFields
  \/ pc \in {"overflow", "aborted"}
  \/ Astray
  \/ Straight

-----------------------------------------------------------------------------
(* Lemmas about brackets                                                   *)

LEMMA BracketsAre ==
  /\ \A pair \in Brackets :
       \/ pair = <<"(", ")">> /\ pair[1] = "(" /\ pair[2] = ")"
       \/ pair = <<"{", "}">> /\ pair[1] = "{" /\ pair[2] = "}"
       \/ pair = <<"[", "]">> /\ pair[1] = "[" /\ pair[2] = "]"
  /\ \A pair \in Brackets : pair[1] # pair[2]
  /\ \A g, pair : Owes(g, pair) \in {-1, 0, 1}
<1>1. ASSUME NEW pair \in Brackets
      PROVE  \/ pair = <<"(", ")">> /\ pair[1] = "(" /\ pair[2] = ")"
             \/ pair = <<"{", "}">> /\ pair[1] = "{" /\ pair[2] = "}"
             \/ pair = <<"[", "]">> /\ pair[1] = "[" /\ pair[2] = "]"
  <2>1. pair = <<"(", ")">> \/ pair = <<"{", "}">> \/ pair = <<"[", "]">>
    BY Zenon DEF Brackets
  <2>2. CASE pair = <<"(", ")">>
    BY <2>2
  <2>3. CASE pair = <<"{", "}">>
    BY <2>3
  <2>4. CASE pair = <<"[", "]">>
    BY <2>4
  <2>5. QED
    BY <2>1, <2>2, <2>3, <2>4
<1>2. \A pair \in Brackets : pair[1] # pair[2]
  BY <1>1
<1>3. \A g, pair : Owes(g, pair) \in {-1, 0, 1}
  BY DEF Owes
<1>4. QED
  BY <1>1, <1>2, <1>3

LEMMA NestsNone ==
  ASSUME NEW pair
  PROVE  /\ Nests(<< >>, pair, 0)
         /\ \A d : Nests(<< >>, pair, d) => d = 0
<1> DEFINE h == [i \in 1 .. 1 |-> 0]
<1>1. Len(<< >>) = 0
  OBVIOUS
<1>2. /\ h \in [1 .. Len(<< >>) + 1 -> Nat] /\ h[1] = 0 /\ h[Len(<< >>) + 1] = 0
      /\ \A i \in 1 .. Len(<< >>) : h[i] = h[i + 1] + Owes(<< >>[i], pair)
  BY <1>1
<1> HIDE DEF h
<1>3. Nests(<< >>, pair, 0)
  BY <1>2, Zenon DEF Nests
<1>4. \A d : Nests(<< >>, pair, d) => d = 0
  BY <1>1 DEF Nests
<1>5. QED
  BY <1>3, <1>4

\* The first goal closes what it closes, and the others the rest.
LEMMA NestsTail ==
  ASSUME NEW s, Sequential(s), s # << >>, NEW pair, NEW d, Nests(s, pair, d)
  PROVE  /\ d \in Nat /\ d - Owes(s[1], pair) \in Nat
         /\ Nests(Tail(s), pair, d - Owes(s[1], pair))
<1> DEFINE t == Tail(s)
<1>1. /\ Len(s) \in Nat \ {0} /\ Len(t) = Len(s) - 1
      /\ \A i \in 1 .. Len(s) - 1 : t[i] = s[i + 1]
  BY TailIs
<1>2. PICK h \in [1 .. Len(s) + 1 -> Nat] :
        /\ h[1] = d /\ h[Len(s) + 1] = 0
        /\ \A i \in 1 .. Len(s) : h[i] = h[i + 1] + Owes(s[i], pair)
  BY DEF Nests
<1> HIDE DEF t
<1> DEFINE k == [i \in 1 .. Len(t) + 1 |-> h[i + 1]]
<1>3. Owes(s[1], pair) \in {-1, 0, 1}
  BY BracketsAre
<1>4. h[1] \in Nat /\ h[2] \in Nat /\ h[1] = h[2] + Owes(s[1], pair)
  BY <1>1, <1>2
<1>5. d \in Nat /\ d - Owes(s[1], pair) = h[2]
  BY <1>2, <1>3, <1>4
<1>6. k \in [1 .. Len(t) + 1 -> Nat] /\ k[1] = h[2] /\ k[Len(t) + 1] = 0
  BY <1>1, <1>2
<1>7. ASSUME NEW i \in 1 .. Len(t) PROVE k[i] = k[i + 1] + Owes(t[i], pair)
  <2>1. i + 1 \in 1 .. Len(s) /\ t[i] = s[i + 1] /\ i \in 1 .. Len(t) + 1
        /\ i + 1 \in 1 .. Len(t) + 1
    BY <1>1
  <2>2. h[i + 1] = h[i + 1 + 1] + Owes(s[i + 1], pair)
    BY <1>2, <2>1
  <2>3. QED
    BY <2>1, <2>2
<1> HIDE DEF k
<1>8. Nests(t, pair, h[2])
  BY <1>6, <1>7 DEF Nests
<1>9. QED
  BY <1>4, <1>5, <1>8 DEF t

LEMMA Shifted ==
  ASSUME NEW a \in Nat, NEW b \in Nat, NEW e \in Nat, NEW o \in Int, a = b + o
  PROVE  a + e = (b + e) + o
OBVIOUS

\* One sequence of goals after the other closes what both close.
LEMMA NestsConcat ==
  ASSUME NEW s, NEW t, Sequential(s), Sequential(t), NEW pair, NEW d, NEW e,
         Nests(s, pair, d), Nests(t, pair, e)
  PROVE  Nests(s \o t, pair, d + e)
<1> DEFINE u == s \o t
<1>1. /\ Len(s) \in Nat /\ Len(t) \in Nat /\ Len(u) = Len(s) + Len(t)
      /\ \A i \in 1 .. Len(s) + Len(t) :
           u[i] = IF i <= Len(s) THEN s[i] ELSE t[i - Len(s)]
  BY SequencesAre
<1> HIDE DEF u
<1>2. PICK h \in [1 .. Len(s) + 1 -> Nat] :
        /\ h[1] = d /\ h[Len(s) + 1] = 0
        /\ \A i \in 1 .. Len(s) : h[i] = h[i + 1] + Owes(s[i], pair)
  BY DEF Nests
<1>3. PICK k \in [1 .. Len(t) + 1 -> Nat] :
        /\ k[1] = e /\ k[Len(t) + 1] = 0
        /\ \A i \in 1 .. Len(t) : k[i] = k[i + 1] + Owes(t[i], pair)
  BY DEF Nests
<1> DEFINE j == [i \in 1 .. Len(u) + 1 |->
                   IF i <= Len(s) THEN h[i] + e ELSE k[i - Len(s)]]
<1>4. e \in Nat /\ d \in Nat
  <2>1. 1 \in 1 .. Len(s) + 1 /\ 1 \in 1 .. Len(t) + 1
    BY <1>1
  <2>2. QED
    BY <1>2, <1>3, <2>1
<1>5. j \in [1 .. Len(u) + 1 -> Nat]
  BY <1>1, <1>2, <1>3, <1>4
<1>6. j[1] = d + e
  <2>1. CASE Len(s) = 0
    BY <1>1, <1>2, <1>3, <1>4, <2>1
  <2>2. CASE Len(s) # 0
    BY <1>1, <1>2, <1>4, <2>2
  <2>3. QED
    BY <2>1, <2>2
<1>7. j[Len(u) + 1] = 0
  BY <1>1, <1>3
<1>8. ASSUME NEW i \in 1 .. Len(u) PROVE j[i] = j[i + 1] + Owes(u[i], pair)
  <2>0. Owes(u[i], pair) \in {-1, 0, 1}
    BY BracketsAre
  <2>1. CASE i < Len(s)
    <3>1. i \in 1 .. Len(s) /\ u[i] = s[i] /\ j[i] = h[i] + e /\ j[i + 1] = h[i + 1] + e
      BY <1>1, <2>1
    <3>2. h[i] = h[i + 1] + Owes(s[i], pair) /\ h[i] \in Nat /\ h[i + 1] \in Nat
      <4>1. i \in 1 .. Len(s) + 1 /\ i + 1 \in 1 .. Len(s) + 1
        BY <1>1, <2>1
      <4>2. h[i] \in Nat /\ h[i + 1] \in Nat
        BY <4>1
      <4>3. h[i] = h[i + 1] + Owes(s[i], pair)
        BY <1>2, <3>1
      <4>4. QED
        BY <4>2, <4>3
    <3>3. h[i] + e = (h[i + 1] + e) + Owes(s[i], pair)
      <4>1. Owes(s[i], pair) \in Int
        <5>1. Owes(s[i], pair) \in {-1, 0, 1}
          BY BracketsAre, Zenon
        <5>2. QED
          BY <5>1
      <4>2. e \in Nat
        BY <1>4
      <4> HIDE DEF j
      <4>3. QED
        BY <3>2, <4>1, <4>2, Shifted, Zenon
    <3>4. QED
      BY <3>1, <3>3
  <2>2. CASE i = Len(s)
    <3>1. i \in 1 .. Len(s) /\ u[i] = s[i] /\ j[i] = h[i] + e /\ j[i + 1] = k[1]
      BY <1>1, <2>2
    <3>2. h[i] = h[i + 1] + Owes(s[i], pair) /\ h[i] \in Nat /\ h[i + 1] = 0
      BY <1>1, <1>2, <2>2
    <3>3. QED
      BY <1>3, <1>4, <2>0, <3>1, <3>2
  <2>3. CASE i > Len(s)
    <3>1. /\ i - Len(s) \in 1 .. Len(t) /\ u[i] = t[i - Len(s)]
          /\ j[i] = k[i - Len(s)] /\ j[i + 1] = k[(i - Len(s)) + 1]
      BY <1>1, <2>3
    <3>2. QED
      BY <1>3, <3>1
  <2>4. QED
    BY <1>1, <2>1, <2>2, <2>3
<1> HIDE DEF j
<1>9. Nests(u, pair, d + e)
  BY <1>5, <1>6, <1>7, <1>8 DEF Nests
<1>10. QED
  BY <1>9 DEF u

\* One bracket at most is opened, at o, and one at most is closed, at c.
LEMMA NestsOnce ==
  ASSUME NEW s, Sequential(s), NEW pair, NEW o \in Nat, NEW c \in 0 .. Len(s),
         o = 0 \/ o < c,
         \A i \in 1 .. Len(s) :
           Owes(s[i], pair) = IF i = c THEN 1 ELSE IF i = o THEN -1 ELSE 0
  PROVE  Nests(s, pair, IF o = 0 /\ c # 0 THEN 1 ELSE 0)
<1> DEFINE h == [i \in 1 .. Len(s) + 1 |-> IF o < i /\ i <= c THEN 1 ELSE 0]
<1>1. Len(s) \in Nat
  BY SequencesAre
<1>2. h \in [1 .. Len(s) + 1 -> Nat] /\ h[Len(s) + 1] = 0
      /\ h[1] = IF o = 0 /\ c # 0 THEN 1 ELSE 0
  BY <1>1
<1>3. ASSUME NEW i \in 1 .. Len(s) PROVE h[i] = h[i + 1] + Owes(s[i], pair)
  <2>1. h[i] = (IF o < i /\ i <= c THEN 1 ELSE 0)
        /\ h[i + 1] = (IF o < i + 1 /\ i + 1 <= c THEN 1 ELSE 0)
    BY <1>1
  <2>2. QED
    BY <1>1, <2>1
<1> HIDE DEF h
<1>4. QED
  BY <1>2, <1>3 DEF Nests

-----------------------------------------------------------------------------
(* Brackets: what the procedures are replaced by                           *)

Quiet(g) == \A pair \in Brackets : Owes(g, pair) = 0
Opens(g, p) == \A pair \in Brackets : Owes(g, pair) = IF pair = p THEN -1 ELSE 0
Closes(g, p) == \A pair \in Brackets : Owes(g, pair) = IF pair = p THEN 1 ELSE 0

\* A goal that does not care what it stands behind.
Mild(g) == Usual(g) /\ Before(g) = {} /\ g[1] # "variant_kind"
Calm(g) == Mild(g) /\ Quiet(g)

\* The goals s may stand where the goal g stood.
Seats(s, g) ==
  \A i \in 1 .. Len(s) :
    /\ Usual(s[i])
    /\ Before(s[i]) # {} =>
         IF i = 1 THEN Before(s[1]) = Before(g)
         ELSE s[i - 1][1] = "consume" /\ s[i - 1][2] \in Before(s[i])
    /\ s[i][1] = "variant_kind" => g[1] = "variant" /\ i = 2 /\ s[1] = path

Suits(s, g) ==
  /\ Sequential(s) /\ Seats(s, g)
  /\ \A pair \in Brackets : Nests(s, pair, Owes(g, pair))

\* The source is not accepted, or has a prefix operator.
Strays(s, look) ==
  \/ \E i \in 1 .. Len(s) : Marked(s[i])
  \/ s # << >> /\ s[1][1] \in {"consume", "consume_only"} /\ s[1][2] # look

LEMMA MildSeats ==
  ASSUME NEW s, NEW g, \A i \in 1 .. Len(s) : Mild(s[i])
  PROVE  Seats(s, g)
BY DEF Seats, Mild

LEMMA QuietSuits ==
  ASSUME NEW s, NEW g, Sequential(s), Seats(s, g), Quiet(g),
         \A i \in 1 .. Len(s) : Quiet(s[i])
  PROVE  Suits(s, g)
<1>1. Len(s) \in Nat
  BY SequencesAre
<1>2. ASSUME NEW pair \in Brackets PROVE Nests(s, pair, Owes(g, pair))
  <2>1. \A i \in 1 .. Len(s) : Owes(s[i], pair) = 0
    BY DEF Quiet
  <2>2. Nests(s, pair, 0)
    <3>1. \A i \in 1 .. Len(s) :
            Owes(s[i], pair) = IF i = 0 THEN 1 ELSE IF i = 0 THEN -1 ELSE 0
      BY <1>1, <2>1
    <3>2. 0 \in Nat /\ 0 \in 0 .. Len(s) /\ (IF 0 = 0 /\ 0 # 0 THEN 1 ELSE 0) = 0
      BY <1>1
    <3>3. Nests(s, pair, IF 0 = 0 /\ 0 # 0 THEN 1 ELSE 0)
      BY ONLY <3>1, <3>2, Sequential(s), NestsOnce
    <3>4. QED
      BY <3>2, <3>3
  <2>3. QED
    BY <2>2 DEF Quiet
<1>3. QED
  BY <1>2 DEF Suits

\* A bracket opened and closed, around goals that leave none open.
LEMMA WrappedSuits ==
  ASSUME NEW s, NEW g, Sequential(s), Seats(s, g), Quiet(g), NEW p \in Brackets,
         NEW o \in 1 .. Len(s), NEW c \in 1 .. Len(s), o < c,
         Opens(s[o], p), Closes(s[c], p),
         \A i \in 1 .. Len(s) : i # o /\ i # c => Quiet(s[i])
  PROVE  Suits(s, g)
<1>1. Len(s) \in Nat
  BY SequencesAre
<1>2. ASSUME NEW pair \in Brackets PROVE Nests(s, pair, Owes(g, pair))
  <2>1. CASE pair = p
    <3>1. \A i \in 1 .. Len(s) :
            Owes(s[i], pair) = IF i = c THEN 1 ELSE IF i = o THEN -1 ELSE 0
      BY <1>1, <2>1 DEF Quiet, Opens, Closes
    <3>2. o \in Nat /\ c \in 0 .. Len(s) /\ (IF o = 0 /\ c # 0 THEN 1 ELSE 0) = 0
      BY <1>1
    <3>3. Nests(s, pair, IF o = 0 /\ c # 0 THEN 1 ELSE 0)
      BY ONLY <3>1, <3>2, o < c, Sequential(s), NestsOnce
    <3>4. QED
      BY <3>2, <3>3 DEF Quiet
  <2>2. CASE pair # p
    <3>1. \A i \in 1 .. Len(s) :
            Owes(s[i], pair) = IF i = 0 THEN 1 ELSE IF i = 0 THEN -1 ELSE 0
      BY <1>1, <2>2 DEF Quiet, Opens, Closes
    <3>2. 0 \in Nat /\ 0 \in 0 .. Len(s) /\ (IF 0 = 0 /\ 0 # 0 THEN 1 ELSE 0) = 0
      BY <1>1
    <3>3. Nests(s, pair, IF 0 = 0 /\ 0 # 0 THEN 1 ELSE 0)
      BY ONLY <3>1, <3>2, Sequential(s), NestsOnce
    <3>4. QED
      BY <3>2, <3>3 DEF Quiet
  <2>3. QED
    BY <2>1, <2>2
<1>3. QED
  BY <1>2 DEF Suits

\* A bracket closed that another goal has opened.
LEMMA ClosedSuits ==
  ASSUME NEW s, NEW g, Sequential(s), Seats(s, g), NEW p \in Brackets, Closes(g, p),
         NEW c \in 1 .. Len(s), Closes(s[c], p),
         \A i \in 1 .. Len(s) : i # c => Quiet(s[i])
  PROVE  Suits(s, g)
<1>1. Len(s) \in Nat
  BY SequencesAre
<1>2. ASSUME NEW pair \in Brackets PROVE Nests(s, pair, Owes(g, pair))
  <2>1. CASE pair = p
    <3>1. \A i \in 1 .. Len(s) :
            Owes(s[i], pair) = IF i = c THEN 1 ELSE IF i = 0 THEN -1 ELSE 0
      BY <1>1, <2>1 DEF Quiet, Closes
    <3>2. /\ 0 \in Nat /\ c \in 0 .. Len(s) /\ (IF 0 = 0 /\ c # 0 THEN 1 ELSE 0) = 1
          /\ 0 < c
      BY <1>1
    <3>3. Nests(s, pair, IF 0 = 0 /\ c # 0 THEN 1 ELSE 0)
      BY ONLY <3>1, <3>2, Sequential(s), NestsOnce
    <3>4. Owes(g, pair) = 1
      BY <2>1 DEF Closes
    <3>5. QED
      BY <3>2, <3>3, <3>4
  <2>2. CASE pair # p
    <3>1. \A i \in 1 .. Len(s) :
            Owes(s[i], pair) = IF i = 0 THEN 1 ELSE IF i = 0 THEN -1 ELSE 0
      BY <1>1, <2>2 DEF Quiet, Closes
    <3>2. 0 \in Nat /\ 0 \in 0 .. Len(s) /\ (IF 0 = 0 /\ 0 # 0 THEN 1 ELSE 0) = 0
      BY <1>1
    <3>3. Nests(s, pair, IF 0 = 0 /\ 0 # 0 THEN 1 ELSE 0)
      BY ONLY <3>1, <3>2, Sequential(s), NestsOnce
    <3>4. Owes(g, pair) = 0
      BY <2>2 DEF Closes
    <3>5. QED
      BY <3>2, <3>3, <3>4
  <2>3. QED
    BY <2>1, <2>2
<1>3. QED
  BY <1>2 DEF Suits

LEMMA TuplesAre ==
  /\ Sequential(<< >>) /\ Len(<< >>) = 0
  /\ \A a : Sequential(<<a>>) /\ Len(<<a>>) = 1
  /\ \A a, b : Sequential(<<a, b>>) /\ Len(<<a, b>>) = 2
  /\ \A a, b, c : Sequential(<<a, b, c>>) /\ Len(<<a, b, c>>) = 3
  /\ \A a, b, c, d : Sequential(<<a, b, c, d>>) /\ Len(<<a, b, c, d>>) = 4
  /\ \A a, b, c, d, e : Sequential(<<a, b, c, d, e>>) /\ Len(<<a, b, c, d, e>>) = 5
  /\ \A a, b, c, d, e, f :
       Sequential(<<a, b, c, d, e, f>>) /\ Len(<<a, b, c, d, e, f>>) = 6
<1>1. Sequential(<< >>) /\ Len(<< >>) = 0
  BY DEF Sequential
<1>2. ASSUME NEW a PROVE Sequential(<<a>>) /\ Len(<<a>>) = 1
  <2>1. <<a>> \in Seq({a})
    OBVIOUS
  <2>2. QED
    BY <2>1 DEF Sequential
<1>3. ASSUME NEW a, NEW b PROVE Sequential(<<a, b>>) /\ Len(<<a, b>>) = 2
  <2>1. <<a, b>> \in Seq({a, b})
    OBVIOUS
  <2>2. QED
    BY <2>1 DEF Sequential
<1>4. ASSUME NEW a, NEW b, NEW c PROVE Sequential(<<a, b, c>>) /\ Len(<<a, b, c>>) = 3
  <2>1. <<a, b, c>> \in Seq({a, b, c})
    OBVIOUS
  <2>2. QED
    BY <2>1 DEF Sequential
<1>5. ASSUME NEW a, NEW b, NEW c, NEW d
      PROVE  Sequential(<<a, b, c, d>>) /\ Len(<<a, b, c, d>>) = 4
  <2>1. <<a, b, c, d>> \in Seq({a, b, c, d})
    OBVIOUS
  <2>2. QED
    BY <2>1 DEF Sequential
<1>6. ASSUME NEW a, NEW b, NEW c, NEW d, NEW e
      PROVE  Sequential(<<a, b, c, d, e>>) /\ Len(<<a, b, c, d, e>>) = 5
  <2>1. <<a, b, c, d, e>> \in Seq({a, b, c, d, e})
    OBVIOUS
  <2>2. QED
    BY <2>1 DEF Sequential
<1>7. ASSUME NEW a, NEW b, NEW c, NEW d, NEW e, NEW f
      PROVE  Sequential(<<a, b, c, d, e, f>>) /\ Len(<<a, b, c, d, e, f>>) = 6
  <2>1. <<a, b, c, d, e, f>> \in Seq({a, b, c, d, e, f})
    OBVIOUS
  <2>2. QED
    BY <2>1 DEF Sequential
<1>8. QED
  BY <1>1, <1>2, <1>3, <1>4, <1>5, <1>6, <1>7

\* Goals that neither care nor leave a bracket open, one after the other.
LEMMA CalmSuits ==
  ASSUME NEW g, Quiet(g)
  PROVE  /\ Suits(<< >>, g)
         /\ \A a : Calm(a) => Suits(<<a>>, g)
         /\ \A a, b : Calm(a) /\ Calm(b) => Suits(<<a, b>>, g)
         /\ \A a, b, c : Calm(a) /\ Calm(b) /\ Calm(c) => Suits(<<a, b, c>>, g)
         /\ \A a, b, c, d :
              Calm(a) /\ Calm(b) /\ Calm(c) /\ Calm(d) => Suits(<<a, b, c, d>>, g)
         /\ \A a, b, c, d, e :
              Calm(a) /\ Calm(b) /\ Calm(c) /\ Calm(d) /\ Calm(e)
                => Suits(<<a, b, c, d, e>>, g)
         /\ \A a, b, c, d, e, f :
              Calm(a) /\ Calm(b) /\ Calm(c) /\ Calm(d) /\ Calm(e) /\ Calm(f)
                => Suits(<<a, b, c, d, e, f>>, g)
<1>0. ASSUME NEW s, Sequential(s), \A i \in 1 .. Len(s) : Calm(s[i]) PROVE Suits(s, g)
  <2>1. \A i \in 1 .. Len(s) : Mild(s[i]) /\ Quiet(s[i])
    BY <1>0 DEF Calm
  <2>2. QED
    BY <1>0, <2>1, MildSeats, QuietSuits
<1>1. Suits(<< >>, g)
  BY <1>0, TuplesAre
<1>2. ASSUME NEW a, Calm(a) PROVE Suits(<<a>>, g)
  <2>1. \A i \in 1 .. 1 : Calm(<<a>>[i])
    BY <1>2
  <2>2. QED
    BY <1>0, <2>1, TuplesAre
<1>3. ASSUME NEW a, NEW b, Calm(a), Calm(b) PROVE Suits(<<a, b>>, g)
  <2>1. \A i \in 1 .. 2 : Calm(<<a, b>>[i])
    BY <1>3
  <2>2. QED
    BY <1>0, <2>1, TuplesAre
<1>4. ASSUME NEW a, NEW b, NEW c, Calm(a), Calm(b), Calm(c) PROVE Suits(<<a, b, c>>, g)
  <2>1. \A i \in 1 .. 3 : Calm(<<a, b, c>>[i])
    BY <1>4
  <2>2. QED
    BY <1>0, <2>1, TuplesAre
<1>5. ASSUME NEW a, NEW b, NEW c, NEW d, Calm(a), Calm(b), Calm(c), Calm(d)
      PROVE  Suits(<<a, b, c, d>>, g)
  <2>1. \A i \in 1 .. 4 : Calm(<<a, b, c, d>>[i])
    BY <1>5
  <2>2. QED
    BY <1>0, <2>1, TuplesAre
<1>6. ASSUME NEW a, NEW b, NEW c, NEW d, NEW e,
             Calm(a), Calm(b), Calm(c), Calm(d), Calm(e)
      PROVE  Suits(<<a, b, c, d, e>>, g)
  <2>1. \A i \in 1 .. 5 : Calm(<<a, b, c, d, e>>[i])
    BY <1>6
  <2>2. QED
    BY <1>0, <2>1, TuplesAre
<1>7. ASSUME NEW a, NEW b, NEW c, NEW d, NEW e, NEW f,
             Calm(a), Calm(b), Calm(c), Calm(d), Calm(e), Calm(f)
      PROVE  Suits(<<a, b, c, d, e, f>>, g)
  <2>1. \A i \in 1 .. 6 : Calm(<<a, b, c, d, e, f>>[i])
    BY <1>7
  <2>2. QED
    BY <1>0, <2>1, TuplesAre
<1>8. QED
  BY <1>1, <1>2, <1>3, <1>4, <1>5, <1>6, <1>7

\* Which goals are so.
LEMMA NamedCalm ==
  ASSUME NEW g,
         g[1] \notin {"consume", "consume_only", "fail", "skip", "rewind",
                      "array_size", "apply_prefix", "prefix", "node", "list",
                      "list_more", "body", "call", "value", "type", "variant",
                      "variant_kind", "construct", "construct_more"}
  PROVE  Calm(g)
<1>1. Usual(g) /\ Before(g) = {} /\ g[1] # "variant_kind"
  BY DEF Usual, Before, Of
<1>2. Quiet(g)
  BY DEF Quiet, Owes, Consumes, Bodies
<1>3. QED
  BY <1>1, <1>2 DEF Calm, Mild

LEMMA ConsumeCalm ==
  ASSUME NEW kind, kind \notin {"(", ")", "{", "}", "[", "]"}
  PROVE  Calm(Consume(kind)) /\ Calm(<<"consume_only", kind>>)
<1>1. Mild(Consume(kind)) /\ Mild(<<"consume_only", kind>>)
  BY DEF Mild, Usual, Before, Of, Consume
<1>2. Quiet(Consume(kind)) /\ Quiet(<<"consume_only", kind>>)
  <2>1. ASSUME NEW pair \in Brackets
        PROVE  Owes(Consume(kind), pair) = 0 /\ Owes(<<"consume_only", kind>>, pair) = 0
    <3>1. pair[1] # kind /\ pair[2] # kind
      BY BracketsAre
    <3>2. QED
      BY <3>1 DEF Owes, Consumes, Consume, Bodies
  <2>2. QED
    BY <2>1 DEF Quiet
<1>3. QED
  BY <1>1, <1>2 DEF Calm

LEMMA NodeCalm ==
  ASSUME NEW kind, kind \notin {"prefix", "unknown"}, NEW n
  PROVE  Calm(Node(kind, n))
BY DEF Calm, Mild, Usual, Before, Of, Node, Quiet, Owes, Consumes, Bodies

LEMMA ListCalm ==
  /\ \A one \in Listed : \A closer : Calm(<<"list_more", one, closer>>)
  /\ \A one \in Listed \ {"type", "variant"} : \A closer : Calm(<<"list", one, closer>>)
  /\ Calm(parameters) /\ Calm(fields)
  /\ \A one, closer : Quiet(<<"list", one, closer>>)
BY DEF Calm, Mild, Usual, Before, Of, Listed, Quiet, Owes, Consumes, Bodies,
       parameters, fields

LEMMA BracketConsumed ==
  ASSUME NEW p \in Brackets
  PROVE  /\ Mild(Consume(p[1])) /\ Opens(Consume(p[1]), p)
         /\ Mild(Consume(p[2])) /\ Closes(Consume(p[2]), p)
<1>1. Mild(Consume(p[1])) /\ Mild(Consume(p[2]))
  BY DEF Mild, Usual, Before, Of, Consume
<1>2. ASSUME NEW pair \in Brackets
      PROVE  /\ Owes(Consume(p[1]), pair) = IF pair = p THEN -1 ELSE 0
             /\ Owes(Consume(p[2]), pair) = IF pair = p THEN 1 ELSE 0
  <2>1. CASE pair = p
    <3>1. p[1] # p[2]
      BY BracketsAre
    <3>2. QED
      BY <2>1, <3>1 DEF Owes, Consumes, Consume, Bodies
  <2>2. CASE pair # p
    <3>1. pair[1] \notin {p[1], p[2]} /\ pair[2] \notin {p[1], p[2]}
      BY <2>2, BracketsAre
    <3>2. QED
      BY <2>2, <3>1 DEF Owes, Consumes, Consume, Bodies
  <2>3. QED
    BY <2>1, <2>2
<1>3. QED
  BY <1>1, <1>2 DEF Opens, Closes

\* The goals that consume a closing brace.
LEMMA BodyCloses ==
  ASSUME NEW g, g[1] \in Bodies, g[1] = "body" => g[2] \in {"statement", "declaration"}
  PROVE  Mild(g) /\ Closes(g, <<"{", "}">>) /\ <<"{", "}">> \in Brackets
<1>1. Mild(g)
  BY DEF Mild, Usual, Before, Of, Bodies
<1>2. ASSUME NEW pair \in Brackets
      PROVE  Owes(g, pair) = IF pair = <<"{", "}">> THEN 1 ELSE 0
  <2>1. g[1] \notin {"consume", "consume_only"}
    BY DEF Bodies
  <2>2. pair[2] = "}" <=> pair = <<"{", "}">>
    <3>1. ASSUME pair = <<"{", "}">> PROVE pair[2] = "}"
      BY <3>1
    <3>2. \/ pair[2] = ")"
          \/ pair = <<"{", "}">>
          \/ pair[2] = "]"
      BY BracketsAre, Zenon
    <3>3. QED
      BY <3>1, <3>2
  <2>3. QED
    BY <2>1, <2>2 DEF Owes, Consumes
<1>3. QED
  BY <1>1, <1>2 DEF Closes, Brackets

\* The goals whose arguments matter leave no bracket open either.
LEMMA UsualQuiet ==
  ASSUME NEW g, Usual(g),
         g[1] \in {"prefix", "list", "list_more", "call", "value", "type", "variant",
                   "variant_kind", "node"}
  PROVE  Quiet(g)
BY DEF Quiet, Owes, Consumes, Bodies

\* What a procedure is replaced by strays, or suits the place it had.
Ends(s, g, look) == Strays(s, look) \/ Suits(s, g)

LEMMA ConstantsCalm ==
  /\ Calm(path) /\ Calm(block) /\ Calm(expression) /\ Calm(statement)
  /\ Calm(parameters) /\ Calm(fields) /\ Calm(<<"storage_attributes", {}>>)
  /\ \A n : Calm(<<"payload", n>>) /\ Calm(<<"range", n>>)
BY NamedCalm, ListCalm DEF path, block, expression, statement

LEMMA FailEnds ==
  ASSUME NEW id, NEW g, NEW look
  PROVE  Ends(Fail(id), g, look)
<1>1. Len(Fail(id)) = 1 /\ Fail(id)[1] = <<"fail", id>> /\ Marked(<<"fail", id>>)
  BY DEF Fail, Marked
<1>2. QED
  BY <1>1 DEF Ends, Strays

LEMMA CalmEnds ==
  ASSUME NEW g, Quiet(g), NEW look
  PROVE  /\ Ends(<< >>, g, look)
         /\ \A a : Calm(a) => Ends(<<a>>, g, look)
         /\ \A a, b : Calm(a) /\ Calm(b) => Ends(<<a, b>>, g, look)
         /\ \A a, b, c : Calm(a) /\ Calm(b) /\ Calm(c) => Ends(<<a, b, c>>, g, look)
         /\ \A a, b, c, d :
              Calm(a) /\ Calm(b) /\ Calm(c) /\ Calm(d) => Ends(<<a, b, c, d>>, g, look)
         /\ \A a, b, c, d, e :
              Calm(a) /\ Calm(b) /\ Calm(c) /\ Calm(d) /\ Calm(e)
                => Ends(<<a, b, c, d, e>>, g, look)
         /\ \A a, b, c, d, e, f :
              Calm(a) /\ Calm(b) /\ Calm(c) /\ Calm(d) /\ Calm(e) /\ Calm(f)
                => Ends(<<a, b, c, d, e, f>>, g, look)
BY CalmSuits, Zenon DEF Ends

LEMMA QuietEnds ==
  ASSUME NEW s, NEW g, NEW look, Sequential(s), Seats(s, g), Quiet(g),
         \A i \in 1 .. Len(s) : Quiet(s[i])
  PROVE  Ends(s, g, look)
BY QuietSuits DEF Ends

LEMMA PathEnds ==
  ASSUME NEW look, NEW ahead, NEW g, Usual(g), g[1] \in {"path", "path_parts",
         "path_more", "attribute_use", "use", "trait_name", "redirect"}
  PROVE  Ends(Steps(g, look, ahead), g, look)
<1>1. CASE g[1] = "path"
  <2>1. Steps(g, look, ahead) = ParsePath(look)
    BY <1>1 DEF Steps
  <2>2. Quiet(g)
    BY <1>1, NamedCalm DEF Calm
  <2>3. Calm(Consume("::")) /\ Calm(<<"path_parts", 0>>)
    BY <1>1, ConsumeCalm, NamedCalm, NodeCalm, ListCalm, ConstantsCalm
  <2>4. QED
    BY <2>1, <2>2, <2>3, CalmEnds DEF ParsePath
<1>2. CASE g[1] = "path_parts"
  <2>1. Steps(g, look, ahead) = PathParts(look, g[2])
    BY <1>2 DEF Steps
  <2>2. Quiet(g)
    BY <1>2, NamedCalm DEF Calm
  <2>3. Calm(Consume("identifier")) /\ Calm(<<"path_more", g[2] + 1>>)
    BY <1>2, ConsumeCalm, NamedCalm, NodeCalm, ListCalm, ConstantsCalm
  <2>4. QED
    BY <2>1, <2>2, <2>3, CalmEnds, FailEnds DEF PathParts, Nothing
<1>3. CASE g[1] = "path_more"
  <2>1. Steps(g, look, ahead) = PathMore(look, g[2])
    BY <1>3 DEF Steps
  <2>2. Quiet(g)
    BY <1>3, NamedCalm DEF Calm
  <2>3. Calm(Consume("::")) /\ Calm(<<"path_parts", g[2]>>)
    BY <1>3, ConsumeCalm, NamedCalm, NodeCalm, ListCalm, ConstantsCalm
  <2>4. QED
    BY <2>1, <2>2, <2>3, CalmEnds DEF PathMore, Nothing
<1>4. CASE g[1] = "attribute_use"
  <2>1. Steps(g, look, ahead) = ParseAttributeUse
    BY <1>4 DEF Steps
  <2>2. Quiet(g)
    BY <1>4, NamedCalm DEF Calm
  <2>3. Calm(path) /\ Calm(<<"attribute_arguments">>)
    BY <1>4, ConsumeCalm, NamedCalm, NodeCalm, ListCalm, ConstantsCalm
  <2>4. QED
    BY <2>1, <2>2, <2>3, CalmEnds DEF ParseAttributeUse
<1>5. CASE g[1] = "use"
  <2>1. Steps(g, look, ahead) = ParseUse(look)
    BY <1>5 DEF Steps
  <2>2. Quiet(g)
    BY <1>5, NamedCalm DEF Calm
  <2>3. Calm(<<"list", "path", "}">>) /\ Calm(path)
    BY <1>5, ConsumeCalm, NamedCalm, NodeCalm, ListCalm, ConstantsCalm DEF Listed
  <2>4. QED
    BY <2>1, <2>2, <2>3, CalmEnds DEF ParseUse
<1>6. CASE g[1] = "trait_name"
  <2>1. Steps(g, look, ahead) = TraitName(look)
    BY <1>6 DEF Steps
  <2>2. Quiet(g)
    BY <1>6, NamedCalm DEF Calm
  <2>3. Calm(Consume("for")) /\ Calm(path)
    BY <1>6, ConsumeCalm, NamedCalm, NodeCalm, ListCalm, ConstantsCalm
  <2>4. QED
    BY <2>1, <2>2, <2>3, CalmEnds DEF TraitName, Nothing
<1>7. CASE g[1] = "redirect"
  <2>1. Steps(g, look, ahead) = ParseRedirect
    BY <1>7 DEF Steps
  <2>2. Quiet(g)
    BY <1>7, NamedCalm DEF Calm
  <2>3. Calm(Consume("->")) /\ Calm(path)
    BY <1>7, ConsumeCalm, NamedCalm, NodeCalm, ListCalm, ConstantsCalm
  <2>4. QED
    BY <2>1, <2>2, <2>3, CalmEnds DEF ParseRedirect
<1>8. QED
  BY <1>1, <1>2, <1>3, <1>4, <1>5, <1>6, <1>7

LEMMA OperatorEnds ==
  ASSUME NEW look, NEW ahead, NEW g, Usual(g), g[1] \in {"expression", "range_operator",
         "range_end", "binary", "unary", "postfix_operators", "climb"}
  PROVE  Ends(Steps(g, look, ahead), g, look)
<1>1. CASE g[1] = "expression"
  <2>1. Steps(g, look, ahead) = ParseRange
    BY <1>1 DEF Steps
  <2>2. Quiet(g)
    BY <1>1, NamedCalm DEF Calm
  <2>3. Calm(<<"binary", kLowest>>) /\ Calm(<<"range_operator">>)
    BY <1>1, ConsumeCalm, NamedCalm, NodeCalm, ListCalm, ConstantsCalm
  <2>4. QED
    BY <2>1, <2>2, <2>3, CalmEnds DEF ParseRange
<1>2. CASE g[1] = "range_operator"
  <2>1. Steps(g, look, ahead) = RangeOperator(look)
    BY <1>2 DEF Steps
  <2>2. Quiet(g)
    BY <1>2, NamedCalm DEF Calm
  <2>3. Calm(Consume("..")) /\ Calm(<<"range_end">>)
    BY <1>2, ConsumeCalm, NamedCalm, NodeCalm, ListCalm, ConstantsCalm
  <2>4. QED
    BY <2>1, <2>2, <2>3, CalmEnds DEF RangeOperator, Nothing
<1>3. CASE g[1] = "range_end"
  <2>1. Steps(g, look, ahead) = RangeEnd(look)
    BY <1>3 DEF Steps
  <2>2. Quiet(g)
    BY <1>3, NamedCalm DEF Calm
  <2>3. Calm(<<"binary", kLowest>>) /\ Calm(Node("..", 2))
    BY <1>3, ConsumeCalm, NamedCalm, NodeCalm, ListCalm, ConstantsCalm
  <2>4. QED
    BY <2>1, <2>2, <2>3, CalmEnds, FailEnds DEF RangeEnd
<1>4. CASE g[1] = "binary"
  <2>1. Steps(g, look, ahead) = ParseBinary(g[2])
    BY <1>4 DEF Steps
  <2>2. Quiet(g)
    BY <1>4, NamedCalm DEF Calm
  <2>3. Calm(<<"unary">>) /\ Calm(<<"climb", g[2]>>)
    BY <1>4, ConsumeCalm, NamedCalm, NodeCalm, ListCalm, ConstantsCalm
  <2>4. QED
    BY <2>1, <2>2, <2>3, CalmEnds DEF ParseBinary
<1>5. CASE g[1] = "unary"
  <2>1. Steps(g, look, ahead) = << <<"prefix", 0>> >>
    BY <1>5 DEF Steps
  <2>2. Quiet(g)
    BY <1>5, NamedCalm DEF Calm
  <2>3. Calm(<<"prefix", 0>>)
    BY DEF Calm, Mild, Usual, Before, Of, Quiet, Owes, Consumes, Bodies
  <2>4. QED
    BY <2>1, <2>2, <2>3, CalmEnds
<1>6. CASE g[1] = "postfix_operators"
  <2>1. Steps(g, look, ahead) = PostfixOperators(look)
    BY <1>6 DEF Steps
  <2>2. Quiet(g)
    BY <1>6, NamedCalm DEF Calm
  <2>3. Calm(Node("postfix", 1)) /\ Calm(<<"postfix_operators">>)
    BY <1>6, ConsumeCalm, NamedCalm, NodeCalm, ListCalm, ConstantsCalm
  <2>4. CASE look \in UnaryOperators
    <3>1. look \notin {"(", ")", "{", "}", "[", "]"}
      BY <2>4 DEF UnaryOperators
    <3>2. Calm(Consume(look))
      BY <3>1, ConsumeCalm
    <3>3. QED
      BY <2>1, <2>2, <2>3, <2>4, <3>2, CalmEnds DEF PostfixOperators
  <2>5. CASE look \notin UnaryOperators
    BY <2>1, <2>2, <2>5, CalmEnds DEF PostfixOperators, Nothing
  <2>6. QED
    BY <2>4, <2>5
<1>7. CASE g[1] = "climb"
  <2>1. Steps(g, look, ahead) = Climb(look, g[2])
    BY <1>7 DEF Steps
  <2>2. Quiet(g)
    BY <1>7, NamedCalm DEF Calm
  <2>3. CASE look \notin BinaryOperators \/ Precedence[look] > g[2]
    BY <2>1, <2>2, <2>3, CalmEnds DEF Climb, Nothing
  <2>4. CASE ~ (look \notin BinaryOperators \/ Precedence[look] > g[2])
    <3>1. look \notin {"(", ")", "{", "}", "[", "]", "prefix", "unknown"}
      BY <2>4 DEF BinaryOperators
    <3>2. Calm(Consume(look)) /\ Calm(Node(look, 2)) /\ Calm(<<"climb", g[2]>>)
      BY <3>1, ConsumeCalm, NodeCalm, NamedCalm
    <3>3. Calm(<<"binary", Right(look)>>)
      BY NamedCalm
    <3>4. Climb(look, g[2]) = <<Consume(look), <<"binary", Right(look)>>, Node(look, 2),
                                <<"climb", g[2]>> >>
      BY <2>4 DEF Climb, Right
    <3>5. QED
      BY <2>1, <2>2, <3>2, <3>3, <3>4, CalmEnds
  <2>5. QED
    BY <2>3, <2>4
<1>8. QED
  BY <1>1, <1>2, <1>3, <1>4, <1>5, <1>6, <1>7

LEMMA ValueEnds ==
  ASSUME NEW look, NEW ahead, NEW g, Usual(g), g[1] \in {"value", "postfix", "member",
         "await", "sequence", "sequence_more"}
  PROVE  Ends(Steps(g, look, ahead), g, look)
<1>1. CASE g[1] = "value"
  <2>1. Steps(g, look, ahead) = JumpValue(look, g[2])
    BY <1>1 DEF Steps
  <2>2. Quiet(g)
    BY <1>1, UsualQuiet DEF Calm
  <2>3. Calm(expression)
    BY <1>1, ConsumeCalm, NamedCalm, NodeCalm, ListCalm, ConstantsCalm
  <2>4. g[2] \notin {"prefix", "unknown"}
    BY <1>1 DEF Usual, ControlFlow
  <2>5. Calm(Node(g[2], 0)) /\ Calm(Node(g[2], 1))
    BY <2>4, NodeCalm
  <2>6. QED
    BY <2>1, <2>2, <2>3, <2>5, CalmEnds DEF JumpValue
<1>2. CASE g[1] = "postfix"
  <2>1. Steps(g, look, ahead) = ParsePostfix
    BY <1>2 DEF Steps
  <2>2. Quiet(g)
    BY <1>2, NamedCalm DEF Calm
  <2>3. Calm(<<"unary">>) /\ Calm(<<"postfix_form">>)
    BY <1>2, ConsumeCalm, NamedCalm, NodeCalm, ListCalm, ConstantsCalm
  <2>4. QED
    BY <2>1, <2>2, <2>3, CalmEnds DEF ParsePostfix
<1>3. CASE g[1] = "member"
  <2>1. Steps(g, look, ahead) = Member(look)
    BY <1>3 DEF Steps
  <2>2. Quiet(g)
    BY <1>3, NamedCalm DEF Calm
  <2>3. Calm(<<"macro_call">>) /\ Calm(Consume("#")) /\ Calm(Node("field access", 1))
    BY <1>3, ConsumeCalm, NamedCalm, NodeCalm, ListCalm, ConstantsCalm
  <2>4. Calm(<<"call", "method call">>)
    BY DEF Calm, Mild, Usual, Before, Of, Quiet, Owes, Consumes, Bodies
  <2>5. QED
    BY <2>1, <2>2, <2>3, <2>4, CalmEnds DEF Member
<1>4. CASE g[1] = "await"
  <2>1. Steps(g, look, ahead) = ParseAwait(look)
    BY <1>4 DEF Steps
  <2>2. Quiet(g)
    BY <1>4, NamedCalm DEF Calm
  <2>3. Calm(Consume("->")) /\ Calm(Consume("await")) /\ Calm(Node("await", 1))
    BY <1>4, ConsumeCalm, NamedCalm, NodeCalm, ListCalm, ConstantsCalm
  <2>4. QED
    BY <2>1, <2>2, <2>3, CalmEnds DEF ParseAwait, Nothing
<1>5. CASE g[1] = "sequence"
  <2>1. Steps(g, look, ahead) = ParseExpressionSequence(look, g[2])
    BY <1>5 DEF Steps
  <2>2. Quiet(g)
    BY <1>5, NamedCalm DEF Calm
  <2>3. Calm(expression) /\ Calm(<<"range", g[2]>>) /\ Calm(<<"sequence_more", g[2] + 1>>)
    BY <1>5, ConsumeCalm, NamedCalm, NodeCalm, ListCalm, ConstantsCalm
  <2>4. QED
    BY <2>1, <2>2, <2>3, CalmEnds DEF ParseExpressionSequence
<1>6. CASE g[1] = "sequence_more"
  <2>1. Steps(g, look, ahead) = SequenceMore(look, g[2])
    BY <1>6 DEF Steps
  <2>2. Quiet(g)
    BY <1>6, NamedCalm DEF Calm
  <2>3. Calm(Consume(",")) /\ Calm(<<"sequence", g[2]>>) /\ Calm(<<"range", g[2]>>)
    BY <1>6, ConsumeCalm, NamedCalm, NodeCalm, ListCalm, ConstantsCalm
  <2>4. QED
    BY <2>1, <2>2, <2>3, CalmEnds DEF SequenceMore
<1>7. QED
  BY <1>1, <1>2, <1>3, <1>4, <1>5, <1>6

LEMMA FlowEnds ==
  ASSUME NEW look, NEW ahead, NEW g, Usual(g), g[1] \in {"{", "if", "branch", "else",
         "else_branch", "loop", "while", "for", "arms"}
  PROVE  Ends(Steps(g, look, ahead), g, look)
<1>1. CASE g[1] = "{"
  <2>1. Steps(g, look, ahead) = <<block, Node("block", 0)>>
    BY <1>1 DEF Steps
  <2>2. Quiet(g)
    BY <1>1, NamedCalm DEF Calm
  <2>3. Calm(block) /\ Calm(Node("block", 0))
    BY <1>1, ConsumeCalm, NamedCalm, NodeCalm, ListCalm, ConstantsCalm
  <2>4. QED
    BY <2>1, <2>2, <2>3, CalmEnds
<1>2. CASE g[1] = "if"
  <2>1. Steps(g, look, ahead) = ParseIf
    BY <1>2 DEF Steps
  <2>2. Quiet(g)
    BY <1>2, NamedCalm DEF Calm
  <2>3. Calm(Consume("if")) /\ Calm(<<"branch">>) /\ Calm(Node("if", 0))
    BY <1>2, ConsumeCalm, NamedCalm, NodeCalm, ListCalm, ConstantsCalm
  <2>4. QED
    BY <2>1, <2>2, <2>3, CalmEnds DEF ParseIf
<1>3. CASE g[1] = "branch"
  <2>1. Steps(g, look, ahead) = IfBranch
    BY <1>3 DEF Steps
  <2>2. Quiet(g)
    BY <1>3, NamedCalm DEF Calm
  <2>3. Calm(expression) /\ Calm(block) /\ Calm(<<"payload", 1>>) /\ Calm(<<"else">>)
    BY <1>3, ConsumeCalm, NamedCalm, NodeCalm, ListCalm, ConstantsCalm
  <2>4. QED
    BY <2>1, <2>2, <2>3, CalmEnds DEF IfBranch
<1>4. CASE g[1] = "else"
  <2>1. Steps(g, look, ahead) = ElseBranch(look)
    BY <1>4 DEF Steps
  <2>2. Quiet(g)
    BY <1>4, NamedCalm DEF Calm
  <2>3. Calm(Consume("else")) /\ Calm(<<"else_branch">>)
    BY <1>4, ConsumeCalm, NamedCalm, NodeCalm, ListCalm, ConstantsCalm
  <2>4. QED
    BY <2>1, <2>2, <2>3, CalmEnds DEF ElseBranch, Nothing
<1>5. CASE g[1] = "else_branch"
  <2>1. Steps(g, look, ahead) = LastBranch(look)
    BY <1>5 DEF Steps
  <2>2. Quiet(g)
    BY <1>5, NamedCalm DEF Calm
  <2>3. Calm(Consume("if")) /\ Calm(<<"branch">>) /\ Calm(block)
    BY <1>5, ConsumeCalm, NamedCalm, NodeCalm, ListCalm, ConstantsCalm
  <2>4. QED
    BY <2>1, <2>2, <2>3, CalmEnds DEF LastBranch
<1>6. CASE g[1] = "loop"
  <2>1. Steps(g, look, ahead) = ParseLoop
    BY <1>6 DEF Steps
  <2>2. Quiet(g)
    BY <1>6, NamedCalm DEF Calm
  <2>3. Calm(Consume("loop")) /\ Calm(block) /\ Calm(Node("loop", 0))
    BY <1>6, ConsumeCalm, NamedCalm, NodeCalm, ListCalm, ConstantsCalm
  <2>4. QED
    BY <2>1, <2>2, <2>3, CalmEnds DEF ParseLoop
<1>7. CASE g[1] = "while"
  <2>1. Steps(g, look, ahead) = ParseWhile
    BY <1>7 DEF Steps
  <2>2. Quiet(g)
    BY <1>7, NamedCalm DEF Calm
  <2>3. Calm(Consume("while")) /\ Calm(expression) /\ Calm(block) /\ Calm(Node("while", 1))
    BY <1>7, ConsumeCalm, NamedCalm, NodeCalm, ListCalm, ConstantsCalm
  <2>4. QED
    BY <2>1, <2>2, <2>3, CalmEnds DEF ParseWhile
<1>8. CASE g[1] = "for"
  <2>1. Steps(g, look, ahead) = ParseFor
    BY <1>8 DEF Steps
  <2>2. Quiet(g)
    BY <1>8, NamedCalm DEF Calm
  <2>3. Calm(Consume("for")) /\ Calm(path) /\ Calm(Consume(":")) /\ Calm(expression) /\
        Calm(block) /\ Calm(Node("for", 1))
    BY <1>8, ConsumeCalm, NamedCalm, NodeCalm, ListCalm, ConstantsCalm
  <2>4. QED
    BY <2>1, <2>2, <2>3, CalmEnds DEF ParseFor
<1>9. CASE g[1] = "arms"
  <2>1. Steps(g, look, ahead) = MatchArms(look)
    BY <1>9 DEF Steps
  <2>2. Quiet(g)
    BY <1>9, NamedCalm DEF Calm
  <2>3. Calm(expression) /\ Calm(Consume("->")) /\ Calm(<<"payload", 2>>) /\
        Calm(<<"arms">>)
    BY <1>9, ConsumeCalm, NamedCalm, NodeCalm, ListCalm, ConstantsCalm
  <2>4. QED
    BY <2>1, <2>2, <2>3, CalmEnds DEF MatchArms, Nothing
<1>10. QED
  BY <1>1, <1>2, <1>3, <1>4, <1>5, <1>6, <1>7, <1>8, <1>9

LEMMA AssignEnds ==
  ASSUME NEW look, NEW ahead, NEW g, Usual(g), g[1] \in {"assign", "declaration",
         "declared", "primary"}
  PROVE  Ends(Steps(g, look, ahead), g, look)
<1>1. CASE g[1] = "assign"
  <2>1. Steps(g, look, ahead) = ParseAssign
    BY <1>1 DEF Steps
  <2>2. Quiet(g)
    BY <1>1, NamedCalm DEF Calm
  <2>3. Calm(path) /\ Calm(<<"assign_operator">>) /\ Calm(expression)
    BY <1>1, ConsumeCalm, NamedCalm, NodeCalm, ListCalm, ConstantsCalm
  <2>4. QED
    BY <2>1, <2>2, <2>3, CalmEnds DEF ParseAssign
<1>2. CASE g[1] = "declaration"
  <2>1. Steps(g, look, ahead) = ParseDeclaration
    BY <1>2 DEF Steps
  <2>2. Quiet(g)
    BY <1>2, NamedCalm DEF Calm
  <2>3. Calm(<<"storage_attributes", {}>>) /\ Calm(<<"declared">>)
    BY <1>2, ConsumeCalm, NamedCalm, NodeCalm, ListCalm, ConstantsCalm
  <2>4. QED
    BY <2>1, <2>2, <2>3, CalmEnds DEF ParseDeclaration
<1>3. CASE g[1] = "declared"
  <2>1. Steps(g, look, ahead) = Declared(look)
    BY <1>3 DEF Steps
  <2>2. Quiet(g)
    BY <1>3, NamedCalm DEF Calm
  <2>3. Calm(path) /\ Calm(<<"assign">>) /\ Calm(Node("assign", 1))
    BY <1>3, ConsumeCalm, NamedCalm, NodeCalm, ListCalm, ConstantsCalm
  <2>4. CASE look \in Declarations
    <3>1. look \notin {"(", ")", "{", "}", "[", "]", "prefix", "unknown",
                          "identifier"}
      BY <2>4 DEF Declarations
    <3>2. Calm(Consume(look)) /\ Calm(Node(look, 0))
      BY <3>1, ConsumeCalm, NodeCalm
    <3>3. Calm(<<look>>)
      <4>1. <<look>>[1] = look
        OBVIOUS
      <4>2. QED
        BY <2>4, <4>1, NamedCalm DEF Declarations
    <3>4. Declared(look) = <<Consume(look), path, <<look>>, Node(look, 0)>>
      BY <2>4, <3>1 DEF Declared
    <3>5. QED
      BY <2>1, <2>2, <2>3, <3>2, <3>3, <3>4, CalmEnds
  <2>5. CASE look \notin Declarations
    BY <2>1, <2>2, <2>3, <2>5, CalmEnds, FailEnds DEF Declared
  <2>6. QED
    BY <2>4, <2>5
<1>4. CASE g[1] = "primary"
  <2>1. Steps(g, look, ahead) = ParsePrimary(look)
    BY <1>4 DEF Steps
  <2>2. Quiet(g)
    BY <1>4, NamedCalm DEF Calm
  <2>3. Calm(Consume("literal")) /\ Calm(Node("literal", 0)) /\ Calm(<<"postfix">>)
    BY <1>4, ConsumeCalm, NamedCalm, NodeCalm, ListCalm, ConstantsCalm
  <2>4. CASE look \in {"(", "{", "if", "loop", "while", "for", "match", "["}
    <3>1. <<look>>[1] = look
      OBVIOUS
    <3>2. Calm(<<look>>)
      BY <2>4, <3>1, NamedCalm
    <3>3. ParsePrimary(look) = << <<look>> >>
      BY <2>4 DEF ParsePrimary
    <3>4. QED
      BY <2>1, <2>2, <3>2, <3>3, CalmEnds
  <2>5. CASE look \in {"break", "continue", "ret"}
    <3>1. Calm(<<"consume_only", look>>)
      BY <2>5, ConsumeCalm
    <3>2. Calm(<<"value", look>>)
      BY <2>5 DEF Calm, Mild, Usual, Before, Of, Quiet, Owes, Consumes, Bodies, ControlFlow
    <3>3. ParsePrimary(look) = << <<"consume_only", look>>, <<"value", look>> >>
      BY <2>5 DEF ParsePrimary
    <3>4. QED
      BY <2>1, <2>2, <3>1, <3>2, <3>3, CalmEnds
  <2>6. CASE look \notin {"(", "{", "if", "loop", "while", "for", "match", "[",
                          "break", "continue", "ret"}
    BY <2>1, <2>2, <2>3, <2>6, CalmEnds, FailEnds DEF ParsePrimary
  <2>7. QED
    BY <2>4, <2>5, <2>6
<1>5. QED
  BY <1>1, <1>2, <1>3, <1>4

-----------------------------------------------------------------------------
(* Brackets: procedures that open or close one                             *)

Starts(g, p) == Mild(g) /\ Opens(g, p)
Shuts(g, p) == Mild(g) /\ Closes(g, p)

LEMMA BracketGoals ==
  /\ <<"(", ")">> \in Brackets /\ <<"{", "}">> \in Brackets /\ <<"[", "]">> \in Brackets
  /\ Starts(Consume("("), <<"(", ")">>) /\ Shuts(Consume(")"), <<"(", ")">>)
  /\ Starts(Consume("{"), <<"{", "}">>) /\ Shuts(Consume("}"), <<"{", "}">>)
  /\ Starts(Consume("["), <<"[", "]">>) /\ Shuts(Consume("]"), <<"[", "]">>)
  /\ \A one \in {"statement", "declaration"} : \A n : Shuts(<<"body", one, n>>, <<"{", "}">>)
  /\ \A n : Shuts(<<"construct", n>>, <<"{", "}">>)
  /\ \A n : Shuts(<<"construct_more", n>>, <<"{", "}">>)
<1>1. <<"(", ")">> \in Brackets /\ <<"{", "}">> \in Brackets /\ <<"[", "]">> \in Brackets
  BY DEF Brackets
<1>2. Starts(Consume("("), <<"(", ")">>) /\ Shuts(Consume(")"), <<"(", ")">>)
  <2> DEFINE p == <<"(", ")">>
  <2>1. p[1] = "(" /\ p[2] = ")" /\ p \in Brackets
    BY <1>1
  <2> HIDE DEF p
  <2>2. Starts(Consume(p[1]), p) /\ Shuts(Consume(p[2]), p)
    BY <2>1, BracketConsumed DEF Starts, Shuts
  <2>3. QED
    BY <2>1, <2>2 DEF p
<1>3. Starts(Consume("{"), <<"{", "}">>) /\ Shuts(Consume("}"), <<"{", "}">>)
  <2> DEFINE p == <<"{", "}">>
  <2>1. p[1] = "{" /\ p[2] = "}" /\ p \in Brackets
    BY <1>1
  <2> HIDE DEF p
  <2>2. Starts(Consume(p[1]), p) /\ Shuts(Consume(p[2]), p)
    BY <2>1, BracketConsumed DEF Starts, Shuts
  <2>3. QED
    BY <2>1, <2>2 DEF p
<1>4. Starts(Consume("["), <<"[", "]">>) /\ Shuts(Consume("]"), <<"[", "]">>)
  <2> DEFINE p == <<"[", "]">>
  <2>1. p[1] = "[" /\ p[2] = "]" /\ p \in Brackets
    BY <1>1
  <2> HIDE DEF p
  <2>2. Starts(Consume(p[1]), p) /\ Shuts(Consume(p[2]), p)
    BY <2>1, BracketConsumed DEF Starts, Shuts
  <2>3. QED
    BY <2>1, <2>2 DEF p
<1>5. ASSUME NEW g, g[1] \in Bodies, g[1] = "body" => g[2] \in {"statement", "declaration"}
      PROVE  Shuts(g, <<"{", "}">>)
  BY <1>5, BodyCloses DEF Shuts
<1>6. ASSUME NEW one \in {"statement", "declaration"}, NEW n
      PROVE  Shuts(<<"body", one, n>>, <<"{", "}">>)
  <2> DEFINE g == <<"body", one, n>>
  <2>1. g[1] = "body" /\ g[2] = one
    OBVIOUS
  <2> HIDE DEF g
  <2>2. g[1] \in Bodies /\ (g[1] = "body" => g[2] \in {"statement", "declaration"})
    BY <2>1 DEF Bodies
  <2>3. Shuts(g, <<"{", "}">>)
    BY <1>5, <2>2, Zenon
  <2>4. QED
    BY <2>3 DEF g
<1>7. ASSUME NEW n, NEW name \in {"construct", "construct_more"}
      PROVE  Shuts(<<name, n>>, <<"{", "}">>)
  <2> DEFINE g == <<name, n>>
  <2>1. g[1] = name
    OBVIOUS
  <2> HIDE DEF g
  <2>2. g[1] \in Bodies /\ (g[1] = "body" => g[2] \in {"statement", "declaration"})
    BY <2>1 DEF Bodies
  <2>3. Shuts(g, <<"{", "}">>)
    BY <1>5, <2>2, Zenon
  <2>4. QED
    BY <2>3 DEF g
<1>8. QED
  BY <1>1, <1>2, <1>3, <1>4, <1>6, <1>7

\* A bracket opened and closed around calm goals.
LEMMA WrappedTuples ==
  ASSUME NEW g, Quiet(g), NEW look, NEW p \in Brackets
  PROVE  /\ \A a, b :
              Starts(a, p) /\ Shuts(b, p)
                => Ends(<<a, b>>, g, look)
         /\ \A a, b, c :
              Starts(a, p) /\ Calm(b) /\ Shuts(c, p)
                => Ends(<<a, b, c>>, g, look)
         /\ \A a, b, c :
              Calm(a) /\ Starts(b, p) /\ Shuts(c, p)
                => Ends(<<a, b, c>>, g, look)
         /\ \A a, b, c, d :
              Starts(a, p) /\ Calm(b) /\ Shuts(c, p) /\ Calm(d)
                => Ends(<<a, b, c, d>>, g, look)
         /\ \A a, b, c, d, e :
              Starts(a, p) /\ Calm(b) /\ Shuts(c, p) /\ Calm(d) /\ Calm(e)
                => Ends(<<a, b, c, d, e>>, g, look)
         /\ \A a, b, c, d, e :
              Calm(a) /\ Starts(b, p) /\ Calm(c) /\ Shuts(d, p) /\ Calm(e)
                => Ends(<<a, b, c, d, e>>, g, look)
         /\ \A a, b, c, d, e, f :
              Starts(a, p) /\ Calm(b) /\ Shuts(c, p) /\ Calm(d) /\ Calm(e) /\ Calm(f)
                => Ends(<<a, b, c, d, e, f>>, g, look)
         /\ \A a, b, c, d, e, f :
              Calm(a) /\ Calm(b) /\ Starts(c, p) /\ Calm(d) /\ Shuts(e, p) /\ Calm(f)
                => Ends(<<a, b, c, d, e, f>>, g, look)
<1>0. ASSUME NEW s, Sequential(s), NEW o \in 1 .. Len(s), NEW c \in 1 .. Len(s), o < c,
             Starts(s[o], p), Shuts(s[c], p),
             \A i \in 1 .. Len(s) : i # o /\ i # c => Calm(s[i])
      PROVE  Ends(s, g, look)
  <2>1. \A i \in 1 .. Len(s) : Mild(s[i])
    BY <1>0 DEF Starts, Shuts, Calm
  <2>2. Opens(s[o], p) /\ Closes(s[c], p)
    BY <1>0 DEF Starts, Shuts
  <2>3. \A i \in 1 .. Len(s) : i # o /\ i # c => Quiet(s[i])
    BY <1>0 DEF Calm
  <2>4. Suits(s, g)
    BY <1>0, <2>1, <2>2, <2>3, MildSeats, WrappedSuits
  <2>5. QED
    BY <2>4 DEF Ends
<1>1. ASSUME NEW a, NEW b,
             Starts(a, p), Shuts(b, p)
      PROVE  Ends(<<a, b>>, g, look)
  <2> DEFINE s == <<a, b>>
  <2>1. Sequential(s) /\ Len(s) = 2
    BY TuplesAre
  <2>2. s[1] = a /\ s[2] = b
    OBVIOUS
  <2> HIDE DEF s
  <2>3. 1 \in 1 .. Len(s) /\ 2 \in 1 .. Len(s) /\ 1 < 2
    BY <2>1
  <2>4. \A i \in 1 .. Len(s) : i # 1 /\ i # 2 => Calm(s[i])
    BY <1>1, <2>1, <2>2
  <2>5. Ends(s, g, look)
    BY <1>0, <1>1, <2>1, <2>2, <2>3, <2>4
  <2>6. QED
    BY <2>5 DEF s
<1>2. ASSUME NEW a, NEW b, NEW c,
             Starts(a, p), Calm(b), Shuts(c, p)
      PROVE  Ends(<<a, b, c>>, g, look)
  <2> DEFINE s == <<a, b, c>>
  <2>1. Sequential(s) /\ Len(s) = 3
    BY TuplesAre
  <2>2. s[1] = a /\ s[2] = b /\ s[3] = c
    OBVIOUS
  <2> HIDE DEF s
  <2>3. 1 \in 1 .. Len(s) /\ 3 \in 1 .. Len(s) /\ 1 < 3
    BY <2>1
  <2>4. \A i \in 1 .. Len(s) : i # 1 /\ i # 3 => Calm(s[i])
    BY <1>2, <2>1, <2>2
  <2>5. Ends(s, g, look)
    BY <1>0, <1>2, <2>1, <2>2, <2>3, <2>4
  <2>6. QED
    BY <2>5 DEF s
<1>3. ASSUME NEW a, NEW b, NEW c,
             Calm(a), Starts(b, p), Shuts(c, p)
      PROVE  Ends(<<a, b, c>>, g, look)
  <2> DEFINE s == <<a, b, c>>
  <2>1. Sequential(s) /\ Len(s) = 3
    BY TuplesAre
  <2>2. s[1] = a /\ s[2] = b /\ s[3] = c
    OBVIOUS
  <2> HIDE DEF s
  <2>3. 2 \in 1 .. Len(s) /\ 3 \in 1 .. Len(s) /\ 2 < 3
    BY <2>1
  <2>4. \A i \in 1 .. Len(s) : i # 2 /\ i # 3 => Calm(s[i])
    BY <1>3, <2>1, <2>2
  <2>5. Ends(s, g, look)
    BY <1>0, <1>3, <2>1, <2>2, <2>3, <2>4
  <2>6. QED
    BY <2>5 DEF s
<1>4. ASSUME NEW a, NEW b, NEW c, NEW d,
             Starts(a, p), Calm(b), Shuts(c, p), Calm(d)
      PROVE  Ends(<<a, b, c, d>>, g, look)
  <2> DEFINE s == <<a, b, c, d>>
  <2>1. Sequential(s) /\ Len(s) = 4
    BY TuplesAre
  <2>2. s[1] = a /\ s[2] = b /\ s[3] = c /\ s[4] = d
    OBVIOUS
  <2> HIDE DEF s
  <2>3. 1 \in 1 .. Len(s) /\ 3 \in 1 .. Len(s) /\ 1 < 3
    BY <2>1
  <2>4. \A i \in 1 .. Len(s) : i # 1 /\ i # 3 => Calm(s[i])
    BY <1>4, <2>1, <2>2
  <2>5. Ends(s, g, look)
    BY <1>0, <1>4, <2>1, <2>2, <2>3, <2>4
  <2>6. QED
    BY <2>5 DEF s
<1>5. ASSUME NEW a, NEW b, NEW c, NEW d, NEW e,
             Starts(a, p), Calm(b), Shuts(c, p), Calm(d), Calm(e)
      PROVE  Ends(<<a, b, c, d, e>>, g, look)
  <2> DEFINE s == <<a, b, c, d, e>>
  <2>1. Sequential(s) /\ Len(s) = 5
    BY TuplesAre
  <2>2. s[1] = a /\ s[2] = b /\ s[3] = c /\ s[4] = d /\ s[5] = e
    OBVIOUS
  <2> HIDE DEF s
  <2>3. 1 \in 1 .. Len(s) /\ 3 \in 1 .. Len(s) /\ 1 < 3
    BY <2>1
  <2>4. \A i \in 1 .. Len(s) : i # 1 /\ i # 3 => Calm(s[i])
    BY <1>5, <2>1, <2>2
  <2>5. Ends(s, g, look)
    BY <1>0, <1>5, <2>1, <2>2, <2>3, <2>4
  <2>6. QED
    BY <2>5 DEF s
<1>6. ASSUME NEW a, NEW b, NEW c, NEW d, NEW e,
             Calm(a), Starts(b, p), Calm(c), Shuts(d, p), Calm(e)
      PROVE  Ends(<<a, b, c, d, e>>, g, look)
  <2> DEFINE s == <<a, b, c, d, e>>
  <2>1. Sequential(s) /\ Len(s) = 5
    BY TuplesAre
  <2>2. s[1] = a /\ s[2] = b /\ s[3] = c /\ s[4] = d /\ s[5] = e
    OBVIOUS
  <2> HIDE DEF s
  <2>3. 2 \in 1 .. Len(s) /\ 4 \in 1 .. Len(s) /\ 2 < 4
    BY <2>1
  <2>4. \A i \in 1 .. Len(s) : i # 2 /\ i # 4 => Calm(s[i])
    BY <1>6, <2>1, <2>2
  <2>5. Ends(s, g, look)
    BY <1>0, <1>6, <2>1, <2>2, <2>3, <2>4
  <2>6. QED
    BY <2>5 DEF s
<1>7. ASSUME NEW a, NEW b, NEW c, NEW d, NEW e, NEW f,
             Starts(a, p), Calm(b), Shuts(c, p), Calm(d), Calm(e), Calm(f)
      PROVE  Ends(<<a, b, c, d, e, f>>, g, look)
  <2> DEFINE s == <<a, b, c, d, e, f>>
  <2>1. Sequential(s) /\ Len(s) = 6
    BY TuplesAre
  <2>2. s[1] = a /\ s[2] = b /\ s[3] = c /\ s[4] = d /\ s[5] = e /\ s[6] = f
    OBVIOUS
  <2> HIDE DEF s
  <2>3. 1 \in 1 .. Len(s) /\ 3 \in 1 .. Len(s) /\ 1 < 3
    BY <2>1
  <2>4. \A i \in 1 .. Len(s) : i # 1 /\ i # 3 => Calm(s[i])
    BY <1>7, <2>1, <2>2
  <2>5. Ends(s, g, look)
    BY <1>0, <1>7, <2>1, <2>2, <2>3, <2>4
  <2>6. QED
    BY <2>5 DEF s
<1>8. ASSUME NEW a, NEW b, NEW c, NEW d, NEW e, NEW f,
             Calm(a), Calm(b), Starts(c, p), Calm(d), Shuts(e, p), Calm(f)
      PROVE  Ends(<<a, b, c, d, e, f>>, g, look)
  <2> DEFINE s == <<a, b, c, d, e, f>>
  <2>1. Sequential(s) /\ Len(s) = 6
    BY TuplesAre
  <2>2. s[1] = a /\ s[2] = b /\ s[3] = c /\ s[4] = d /\ s[5] = e /\ s[6] = f
    OBVIOUS
  <2> HIDE DEF s
  <2>3. 3 \in 1 .. Len(s) /\ 5 \in 1 .. Len(s) /\ 3 < 5
    BY <2>1
  <2>4. \A i \in 1 .. Len(s) : i # 3 /\ i # 5 => Calm(s[i])
    BY <1>8, <2>1, <2>2
  <2>5. Ends(s, g, look)
    BY <1>0, <1>8, <2>1, <2>2, <2>3, <2>4
  <2>6. QED
    BY <2>5 DEF s
<1>9. QED
  BY <1>1, <1>2, <1>3, <1>4, <1>5, <1>6, <1>7, <1>8

LEMMA GroupEnds ==
  ASSUME NEW look, NEW ahead, NEW g, Usual(g), g[1] \in {"attribute_arguments", "call",
         "macro_call", "(", "block", "match", "[", "fn", "struct", "union", "trait", "impl",
         "mod"}
  PROVE  Ends(Steps(g, look, ahead), g, look)
<1>1. CASE g[1] = "attribute_arguments"
  <2>1. Steps(g, look, ahead) = AttributeArguments(look)
    BY <1>1 DEF Steps
  <2>2. Quiet(g)
    BY <1>1, NamedCalm DEF Calm
  <2>3. Calm(<<"sequence", 0>>)
    BY <1>1, ConsumeCalm, NamedCalm, NodeCalm, ListCalm, ConstantsCalm
  <2>4. QED
    BY <2>1, <2>2, <2>3, BracketGoals, WrappedTuples, CalmEnds DEF AttributeArguments, Nothing
<1>2. CASE g[1] = "call"
  <2>1. Steps(g, look, ahead) = ParseCall(g[2])
    BY <1>2 DEF Steps
  <2>2. Quiet(g)
    BY <1>2, UsualQuiet DEF Calm
  <2>3. Calm(<<"sequence", 0>>) /\ Calm(<<"await">>)
    BY <1>2, ConsumeCalm, NamedCalm, NodeCalm, ListCalm, ConstantsCalm
  <2>4. Calm(Node(g[2], 1))
    BY <1>2, NodeCalm DEF Usual
  <2>5. QED
    BY <2>1, <2>2, <2>3, <2>4, BracketGoals, WrappedTuples DEF ParseCall
<1>3. CASE g[1] = "macro_call"
  <2>1. Steps(g, look, ahead) = ParseMacroCall
    BY <1>3 DEF Steps
  <2>2. Quiet(g)
    BY <1>3, NamedCalm DEF Calm
  <2>3. Calm(<<"sequence", 0>>) /\ Calm(Node("macro call", 1))
    BY <1>3, ConsumeCalm, NamedCalm, NodeCalm, ListCalm, ConstantsCalm
  <2>4. QED
    BY <2>1, <2>2, <2>3, BracketGoals, WrappedTuples DEF ParseMacroCall
<1>4. CASE g[1] = "("
  <2>1. Steps(g, look, ahead) = ParseGrouped
    BY <1>4 DEF Steps
  <2>2. Quiet(g)
    BY <1>4, NamedCalm DEF Calm
  <2>3. Calm(expression) /\ Calm(Node("grouped", 1))
    BY <1>4, ConsumeCalm, NamedCalm, NodeCalm, ListCalm, ConstantsCalm
  <2>4. QED
    BY <2>1, <2>2, <2>3, BracketGoals, WrappedTuples DEF ParseGrouped
<1>5. CASE g[1] = "block"
  <2>1. Steps(g, look, ahead) = ParseBlock
    BY <1>5 DEF Steps
  <2>2. Quiet(g)
    BY <1>5, NamedCalm DEF Calm
  <2>3. Calm(<<"storage_attributes", {}>>)
    BY <1>5, ConsumeCalm, NamedCalm, NodeCalm, ListCalm, ConstantsCalm
  <2>4. QED
    BY <2>1, <2>2, <2>3, BracketGoals, WrappedTuples DEF ParseBlock
<1>6. CASE g[1] = "match"
  <2>1. Steps(g, look, ahead) = ParseMatch
    BY <1>6 DEF Steps
  <2>2. Quiet(g)
    BY <1>6, NamedCalm DEF Calm
  <2>3. Calm(Consume("match")) /\ Calm(expression) /\ Calm(<<"arms">>) /\ Calm(Node("match",
        1))
    BY <1>6, ConsumeCalm, NamedCalm, NodeCalm, ListCalm, ConstantsCalm
  <2>4. QED
    BY <2>1, <2>2, <2>3, BracketGoals, WrappedTuples DEF ParseMatch
<1>7. CASE g[1] = "["
  <2>1. Steps(g, look, ahead) = ParseClosure
    BY <1>7 DEF Steps
  <2>2. Quiet(g)
    BY <1>7, NamedCalm DEF Calm
  <2>3. Calm(<<"list", "capture", "]">>) /\ Calm(parameters) /\ Calm(expression) /\
        Calm(Node("closure", 1))
    BY <1>7, ConsumeCalm, NamedCalm, NodeCalm, ListCalm, ConstantsCalm DEF Listed
  <2>4. QED
    BY <2>1, <2>2, <2>3, BracketGoals, WrappedTuples DEF ParseClosure
<1>8. CASE g[1] = "fn"
  <2>1. Steps(g, look, ahead) = ParseFunction
    BY <1>8 DEF Steps
  <2>2. Quiet(g)
    BY <1>8, NamedCalm DEF Calm
  <2>3. Calm(parameters) /\ Calm(<<"return_type">>) /\ Calm(<<"function_body">>)
    BY <1>8, ConsumeCalm, NamedCalm, NodeCalm, ListCalm, ConstantsCalm
  <2>4. QED
    BY <2>1, <2>2, <2>3, BracketGoals, WrappedTuples DEF ParseFunction
<1>9. CASE g[1] = "struct"
  <2>1. Steps(g, look, ahead) = ParseFields
    BY <1>9 DEF Steps
  <2>2. Quiet(g)
    BY <1>9, NamedCalm DEF Calm
  <2>3. Calm(fields)
    BY <1>9, ConsumeCalm, NamedCalm, NodeCalm, ListCalm, ConstantsCalm
  <2>4. QED
    BY <2>1, <2>2, <2>3, BracketGoals, WrappedTuples DEF ParseFields
<1>10. CASE g[1] = "union"
  <2>1. Steps(g, look, ahead) = ParseFields
    BY <1>10 DEF Steps
  <2>2. Quiet(g)
    BY <1>10, NamedCalm DEF Calm
  <2>3. Calm(fields)
    BY <1>10, ConsumeCalm, NamedCalm, NodeCalm, ListCalm, ConstantsCalm
  <2>4. QED
    BY <2>1, <2>2, <2>3, BracketGoals, WrappedTuples DEF ParseFields
<1>11. CASE g[1] = "trait"
  <2>1. Steps(g, look, ahead) = ParseTrait
    BY <1>11 DEF Steps
  <2>2. Quiet(g)
    BY <1>11, NamedCalm DEF Calm
  <2>3. QED
    BY <2>1, <2>2, BracketGoals, WrappedTuples DEF ParseTrait
<1>12. CASE g[1] = "impl"
  <2>1. Steps(g, look, ahead) = ParseImplementation
    BY <1>12 DEF Steps
  <2>2. Quiet(g)
    BY <1>12, NamedCalm DEF Calm
  <2>3. Calm(<<"trait_name">>)
    BY <1>12, ConsumeCalm, NamedCalm, NodeCalm, ListCalm, ConstantsCalm
  <2>4. QED
    BY <2>1, <2>2, <2>3, BracketGoals, WrappedTuples DEF ParseImplementation
<1>13. CASE g[1] = "mod"
  <2>1. Steps(g, look, ahead) = ParseModule
    BY <1>13 DEF Steps
  <2>2. Quiet(g)
    BY <1>13, NamedCalm DEF Calm
  <2>3. QED
    BY <2>1, <2>2, BracketGoals, WrappedTuples DEF ParseModule
<1>14. QED
  BY <1>1, <1>2, <1>3, <1>4, <1>5, <1>6, <1>7, <1>8, <1>9, <1>10, <1>11, <1>12, <1>13

\* The goals that a "}" is left to.
LEMMA ClosedTuples ==
  ASSUME NEW g, NEW look, NEW p \in Brackets, Closes(g, p)
  PROVE  /\ \A a, b : Shuts(a, p) /\ Calm(b) => Ends(<<a, b>>, g, look)
         /\ \A a, b : Calm(a) /\ Shuts(b, p) => Ends(<<a, b>>, g, look)
         /\ \A a, b, c :
              Shuts(a, p) /\ Calm(b) /\ Calm(c) => Ends(<<a, b, c>>, g, look)
         /\ \A a, b, c, d, e :
              Calm(a) /\ Calm(b) /\ Calm(c) /\ Calm(d) /\ Shuts(e, p)
                => Ends(<<a, b, c, d, e>>, g, look)
<1>0. ASSUME NEW s, Sequential(s), NEW c \in 1 .. Len(s), Shuts(s[c], p),
             \A i \in 1 .. Len(s) : i # c => Calm(s[i])
      PROVE  Ends(s, g, look)
  <2>1. \A i \in 1 .. Len(s) : Mild(s[i])
    BY <1>0 DEF Shuts, Calm
  <2>2. Closes(s[c], p)
    BY <1>0 DEF Shuts
  <2>3. \A i \in 1 .. Len(s) : i # c => Quiet(s[i])
    BY <1>0 DEF Calm
  <2>4. Suits(s, g)
    BY <1>0, <2>1, <2>2, <2>3, MildSeats, ClosedSuits
  <2>5. QED
    BY <2>4 DEF Ends
<1>1. ASSUME NEW a, NEW b,
             Shuts(a, p), Calm(b)
      PROVE  Ends(<<a, b>>, g, look)
  <2> DEFINE s == <<a, b>>
  <2>1. Sequential(s) /\ Len(s) = 2
    BY TuplesAre
  <2>2. s[1] = a /\ s[2] = b
    OBVIOUS
  <2> HIDE DEF s
  <2>3. 1 \in 1 .. Len(s) /\ Shuts(s[1], p)
    BY <1>1, <2>1, <2>2
  <2>4. \A i \in 1 .. Len(s) : i # 1 => Calm(s[i])
    BY <1>1, <2>1, <2>2
  <2>5. Ends(s, g, look)
    BY <1>0, <2>1, <2>3, <2>4
  <2>6. QED
    BY <2>5 DEF s
<1>2. ASSUME NEW a, NEW b,
             Calm(a), Shuts(b, p)
      PROVE  Ends(<<a, b>>, g, look)
  <2> DEFINE s == <<a, b>>
  <2>1. Sequential(s) /\ Len(s) = 2
    BY TuplesAre
  <2>2. s[1] = a /\ s[2] = b
    OBVIOUS
  <2> HIDE DEF s
  <2>3. 2 \in 1 .. Len(s) /\ Shuts(s[2], p)
    BY <1>2, <2>1, <2>2
  <2>4. \A i \in 1 .. Len(s) : i # 2 => Calm(s[i])
    BY <1>2, <2>1, <2>2
  <2>5. Ends(s, g, look)
    BY <1>0, <2>1, <2>3, <2>4
  <2>6. QED
    BY <2>5 DEF s
<1>3. ASSUME NEW a, NEW b, NEW c,
             Shuts(a, p), Calm(b), Calm(c)
      PROVE  Ends(<<a, b, c>>, g, look)
  <2> DEFINE s == <<a, b, c>>
  <2>1. Sequential(s) /\ Len(s) = 3
    BY TuplesAre
  <2>2. s[1] = a /\ s[2] = b /\ s[3] = c
    OBVIOUS
  <2> HIDE DEF s
  <2>3. 1 \in 1 .. Len(s) /\ Shuts(s[1], p)
    BY <1>3, <2>1, <2>2
  <2>4. \A i \in 1 .. Len(s) : i # 1 => Calm(s[i])
    BY <1>3, <2>1, <2>2
  <2>5. Ends(s, g, look)
    BY <1>0, <2>1, <2>3, <2>4
  <2>6. QED
    BY <2>5 DEF s
<1>4. ASSUME NEW a, NEW b, NEW c, NEW d, NEW e,
             Calm(a), Calm(b), Calm(c), Calm(d), Shuts(e, p)
      PROVE  Ends(<<a, b, c, d, e>>, g, look)
  <2> DEFINE s == <<a, b, c, d, e>>
  <2>1. Sequential(s) /\ Len(s) = 5
    BY TuplesAre
  <2>2. s[1] = a /\ s[2] = b /\ s[3] = c /\ s[4] = d /\ s[5] = e
    OBVIOUS
  <2> HIDE DEF s
  <2>3. 5 \in 1 .. Len(s) /\ Shuts(s[5], p)
    BY <1>4, <2>1, <2>2
  <2>4. \A i \in 1 .. Len(s) : i # 5 => Calm(s[i])
    BY <1>4, <2>1, <2>2
  <2>5. Ends(s, g, look)
    BY <1>0, <2>1, <2>3, <2>4
  <2>6. QED
    BY <2>5 DEF s
<1>5. QED
  BY <1>1, <1>2, <1>3, <1>4

LEMMA BodyEnds ==
  ASSUME NEW look, NEW ahead, NEW g, Usual(g), g[1] \in Bodies
  PROVE  Ends(Steps(g, look, ahead), g, look)
<1> DEFINE p == <<"{", "}">>
<1>1. p \in Brackets /\ Closes(g, p)
  BY BodyCloses DEF Usual
<1>2. Shuts(Consume("}"), p)
  BY BracketGoals
<1>3. \A one \in {"statement", "declaration"} : \A n : Shuts(<<"body", one, n>>, p)
  BY BracketGoals
<1>4. \A n : Shuts(<<"construct", n>>, p) /\ Shuts(<<"construct_more", n>>, p)
  BY BracketGoals
<1> HIDE DEF p
<1>5. CASE g[1] = "body"
  <2>1. Steps(g, look, ahead) = Body(look, g[2], g[3])
    BY <1>5 DEF Steps
  <2>2. g[2] \in {"statement", "declaration"}
    BY <1>5 DEF Usual
  <2>3. Calm(<< g[2] >>) /\ Calm(<<"range", g[3]>>)
    <3>1. << g[2] >>[1] = g[2]
      OBVIOUS
    <3>2. QED
      BY <2>2, <3>1, NamedCalm
  <2>4. QED
    BY <1>1, <1>2, <1>3, <2>1, <2>2, <2>3, ClosedTuples DEF Body
<1>6. CASE g[1] = "construct"
  <2>1. Steps(g, look, ahead) = ParseConstruct(look, g[2])
    BY <1>6 DEF Steps
  <2>2. Calm(Consume(".")) /\ Calm(path) /\ Calm(Consume("=")) /\ Calm(expression)
        /\ Calm(<<"range", g[2]>>) /\ Calm(Node("construct", 1))
    BY ConsumeCalm, NodeCalm, ConstantsCalm
  <2>3. QED
    BY <1>1, <1>2, <1>4, <2>1, <2>2, ClosedTuples DEF ParseConstruct
<1>7. CASE g[1] = "construct_more"
  <2>1. Steps(g, look, ahead) = ConstructMore(look, g[2])
    BY <1>7 DEF Steps
  <2>2. Calm(Consume(",")) /\ Calm(<<"range", g[2]>>) /\ Calm(Node("construct", 1))
    BY ConsumeCalm, NodeCalm, ConstantsCalm
  <2>3. QED
    BY <1>1, <1>2, <1>4, <2>1, <2>2, ClosedTuples DEF ConstructMore
<1>8. QED
  BY <1>5, <1>6, <1>7 DEF Bodies

LEMMA PostfixEnds ==
  ASSUME NEW look, NEW ahead, NEW g, Usual(g), g[1] = "postfix_form"
  PROVE  Ends(Steps(g, look, ahead), g, look)
<1>1. Steps(g, look, ahead) = PostfixForm(look) /\ Quiet(g)
  BY NamedCalm DEF Steps, Calm
<1>2. CASE look = "["
  <2>1. Calm(expression) /\ Calm(Node("index", 2))
    BY ConstantsCalm, NodeCalm
  <2>2. PostfixForm(look) = <<Consume("["), expression, Consume("]"), Node("index", 2)>>
    BY <1>2 DEF PostfixForm
  <2>3. QED
    BY <1>1, <2>1, <2>2, BracketGoals, WrappedTuples
<1>3. CASE look = "{"
  <2>1. PostfixForm(look) = <<Consume("{"), <<"construct", 0>> >>
    BY <1>3 DEF PostfixForm
  <2>2. QED
    BY <1>1, <2>1, BracketGoals, WrappedTuples
<1>4. CASE look = "("
  <2>1. Calm(<<"call", "call">>)
    BY DEF Calm, Mild, Usual, Before, Of, Quiet, Owes, Consumes, Bodies
  <2>2. PostfixForm(look) = << <<"call", "call">> >>
    BY <1>4 DEF PostfixForm
  <2>3. QED
    BY <1>1, <2>1, <2>2, CalmEnds
<1>5. CASE look \notin {"[", "{", "("}
  <2>1. /\ Calm(Consume("#")) /\ Calm(<<"macro_call">>) /\ Calm(Consume("."))
        /\ Calm(path) /\ Calm(<<"member">>)
    BY ConsumeCalm, NamedCalm, ConstantsCalm
  <2>2. QED
    BY <1>1, <1>5, <2>1, CalmEnds DEF PostfixForm, Nothing
<1>6. QED
  BY <1>2, <1>3, <1>4, <1>5

LEMMA StatementEnds ==
  ASSUME NEW look, NEW ahead, NEW g, Usual(g), g[1] = "statement"
  PROVE  Ends(Steps(g, look, ahead), g, look)
<1>1. Steps(g, look, ahead) = ParseStatement(look, ahead) /\ Quiet(g)
  BY NamedCalm DEF Steps, Calm
<1>2. CASE look = "#"
  <2>1. /\ Calm(Consume("#")) /\ Calm(<<"list", "attribute_use", "]">>)
        /\ Calm(Node("attribute", 0))
    BY ConsumeCalm, ListCalm, NodeCalm DEF Listed
  <2>2. ParseStatement(look, ahead) =
          <<Consume("#"), Consume("["), <<"list", "attribute_use", "]">>,
            Consume("]"), Node("attribute", 0)>>
    BY <1>2 DEF ParseStatement, Declarations, Attributes
  <2>3. QED
    BY <1>1, <2>1, <2>2, BracketGoals, WrappedTuples
<1>3. CASE look # "#"
  <2>1. /\ Calm(<<"declaration">>) /\ Calm(<<"assign">>) /\ Calm(Node("assign", 1))
        /\ Calm(Consume("use")) /\ Calm(<<"use">>) /\ Calm(Node("use", 0))
        /\ Calm(expression)
    BY ConsumeCalm, NamedCalm, NodeCalm, ConstantsCalm
  <2>2. CASE look \in Declarations \cup Attributes
    <3>1. look # "identifier" /\ look # "use"
      BY <2>2 DEF Declarations, Attributes
    <3>2. ParseStatement(look, ahead) = << <<"declaration">> >>
      BY <1>3, <2>2, <3>1 DEF ParseStatement
    <3>3. QED
      BY <1>1, <2>1, <3>2, CalmEnds
  <2>3. CASE look \notin Declarations \cup Attributes
    BY <1>1, <1>3, <2>1, <2>3, CalmEnds, FailEnds DEF ParseStatement
  <2>4. QED
    BY <2>2, <2>3
<1>4. QED
  BY <1>2, <1>3

\* The goal x, which a token of the kind may stand before.
Waits(x, kind) ==
  Usual(x) /\ Quiet(x) /\ x[1] # "variant_kind" /\ kind \in Before(x)

LEMMA WaitingAre ==
  /\ \A kind \in TypeFront : Waits(type, kind)
  /\ \A kind \in TypeFront : \A closer : Waits(<<"list", "type", closer>>, kind)
  /\ \A kind \in VariantFront : \A closer : Waits(<<"list", "variant", closer>>, kind)
<1>1. Usual(type) /\ Quiet(type) /\ Before(type) = TypeFront /\ type[1] = "type"
  <2>1. Before(type) = TypeFront
    BY DEF Before, Of, type
  <2>2. Quiet(type)
    BY UsualQuiet DEF Usual, type
  <2>3. QED
    BY <2>1, <2>2 DEF Usual, type
<1>2. ASSUME NEW closer
      PROVE  /\ Usual(<<"list", "type", closer>>) /\ Quiet(<<"list", "type", closer>>)
             /\ Before(<<"list", "type", closer>>) = TypeFront
             /\ Usual(<<"list", "variant", closer>>) /\ Quiet(<<"list", "variant", closer>>)
             /\ Before(<<"list", "variant", closer>>) = VariantFront
  BY ListCalm DEF Usual, Listed, Before, Of
<1>3. QED
  BY <1>1, <1>2 DEF Waits

\* Such a goal is right behind what consumes the token.
LEMMA WaitingTuples ==
  ASSUME NEW g, Quiet(g), NEW look, NEW kind, NEW x, Waits(x, kind)
  PROVE  /\ kind \notin {"(", ")", "{", "}", "[", "]"} => Ends(<<Consume(kind), x>>, g, look)
         /\ \A a : Calm(a) /\ kind \notin {"(", ")", "{", "}", "[", "]"}
                => Ends(<<a, Consume(kind), x>>, g, look)
         /\ \A b : Calm(b) /\ kind \notin {"(", ")", "{", "}", "[", "]"}
                => Ends(<<Consume(kind), x, b>>, g, look)
         /\ \A p \in Brackets : \A b :
              kind = p[1] /\ Shuts(b, p) => Ends(<<Consume(kind), x, b>>, g, look)
<1>0. /\ Consume(kind)[1] = "consume" /\ Consume(kind)[2] = kind
      /\ Usual(x) /\ Quiet(x) /\ x[1] # "variant_kind" /\ kind \in Before(x)
      /\ Mild(Consume(kind))
  BY DEF Waits, Consume, Mild, Usual, Before, Of
<1>1. ASSUME kind \notin {"(", ")", "{", "}", "[", "]"}
      PROVE  Ends(<<Consume(kind), x>>, g, look)
  <2> DEFINE s == <<Consume(kind), x>>
  <2>1. Sequential(s) /\ Len(s) = 2
    BY TuplesAre
  <2>2. s[1] = Consume(kind) /\ s[2] = x
    OBVIOUS
  <2>3. Quiet(Consume(kind))
    BY <1>1, ConsumeCalm DEF Calm
  <2> HIDE DEF s
  <2>4. Seats(s, g)
    BY <1>0, <2>1, <2>2 DEF Seats, Mild
  <2>5. \A i \in 1 .. Len(s) : Quiet(s[i])
    BY <1>0, <2>1, <2>2, <2>3
  <2>6. Ends(s, g, look)
    BY <2>1, <2>4, <2>5, QuietEnds
  <2>7. QED
    BY <2>6 DEF s
<1>2. ASSUME NEW a, Calm(a), kind \notin {"(", ")", "{", "}", "[", "]"}
      PROVE  Ends(<<a, Consume(kind), x>>, g, look)
  <2> DEFINE s == <<a, Consume(kind), x>>
  <2>1. Sequential(s) /\ Len(s) = 3
    BY TuplesAre
  <2>2. s[1] = a /\ s[2] = Consume(kind) /\ s[3] = x
    OBVIOUS
  <2>3. Quiet(Consume(kind)) /\ Quiet(a) /\ Mild(a)
    BY <1>2, ConsumeCalm DEF Calm
  <2> HIDE DEF s
  <2>4. Seats(s, g)
    BY <1>0, <2>1, <2>2, <2>3 DEF Seats, Mild
  <2>5. \A i \in 1 .. Len(s) : Quiet(s[i])
    BY <1>0, <2>1, <2>2, <2>3
  <2>6. Ends(s, g, look)
    BY <2>1, <2>4, <2>5, QuietEnds
  <2>7. QED
    BY <2>6 DEF s
<1>3. ASSUME NEW b, Mild(b) PROVE Seats(<<Consume(kind), x, b>>, g)
  <2> DEFINE s == <<Consume(kind), x, b>>
  <2>1. Len(s) = 3
    BY TuplesAre
  <2>2. s[1] = Consume(kind) /\ s[2] = x /\ s[3] = b
    OBVIOUS
  <2> HIDE DEF s
  <2>3. Seats(s, g)
    BY <1>0, <1>3, <2>1, <2>2 DEF Seats, Mild
  <2>4. QED
    BY <2>3 DEF s
<1>4. ASSUME NEW b, Calm(b), kind \notin {"(", ")", "{", "}", "[", "]"}
      PROVE  Ends(<<Consume(kind), x, b>>, g, look)
  <2> DEFINE s == <<Consume(kind), x, b>>
  <2>1. Sequential(s) /\ Len(s) = 3
    BY TuplesAre
  <2>2. s[1] = Consume(kind) /\ s[2] = x /\ s[3] = b
    OBVIOUS
  <2>3. Quiet(Consume(kind)) /\ Quiet(b)
    BY <1>4, ConsumeCalm DEF Calm
  <2>4. Seats(s, g)
    BY <1>3, <1>4 DEF Calm
  <2> HIDE DEF s
  <2>5. \A i \in 1 .. Len(s) : Quiet(s[i])
    BY <1>0, <2>1, <2>2, <2>3
  <2>6. Ends(s, g, look)
    BY <2>1, <2>4, <2>5, QuietEnds
  <2>7. QED
    BY <2>6 DEF s
<1>5. ASSUME NEW p \in Brackets, NEW b, kind = p[1], Shuts(b, p)
      PROVE  Ends(<<Consume(kind), x, b>>, g, look)
  <2> DEFINE s == <<Consume(kind), x, b>>
  <2>1. Sequential(s) /\ Len(s) = 3
    BY TuplesAre
  <2>2. s[1] = Consume(kind) /\ s[2] = x /\ s[3] = b
    OBVIOUS
  <2>3. Opens(Consume(kind), p) /\ Closes(b, p) /\ Mild(b)
    BY <1>5, BracketConsumed DEF Shuts
  <2>4. Seats(s, g)
    BY <1>3, <2>3
  <2> HIDE DEF s
  <2>5. 1 \in 1 .. Len(s) /\ 3 \in 1 .. Len(s) /\ 1 < 3
    BY <2>1
  <2>6. \A i \in 1 .. Len(s) : i # 1 /\ i # 3 => Quiet(s[i])
    BY <1>0, <2>1, <2>2
  <2>7. Opens(s[1], p) /\ Closes(s[3], p)
    BY <2>2, <2>3
  <2>8. Suits(s, g)
    BY <2>1, <2>4, <2>5, <2>6, <2>7, WrappedSuits
  <2>9. QED
    BY <2>8 DEF s, Ends
<1>6. QED
  BY <1>1, <1>2, <1>4, <1>5

LEMMA TypeEnds ==
  ASSUME NEW look, NEW ahead, NEW g, Usual(g), g[1] = "type", look # "["
  PROVE  Ends(Steps(g, look, ahead), g, look)
<1>1. Steps(g, look, ahead) = ParseTypeReference(look) /\ Quiet(g)
  BY UsualQuiet DEF Steps
<1>2. Calm(Consume("i32")) /\ Calm(path)
  BY ConsumeCalm, ConstantsCalm
<1>3. QED
  BY <1>1, <1>2, CalmEnds, FailEnds DEF ParseTypeReference

\* What a type stands behind.
LEMMA TypedEnds ==
  ASSUME NEW look, NEW ahead, NEW g, Usual(g),
         g[1] \in {"capture", "field", "parameter", "return_type", "assign_operator"}
  PROVE  Ends(Steps(g, look, ahead), g, look)
<1>1. Waits(type, ":") /\ Waits(type, "->")
  BY WaitingAre DEF TypeFront
<1>2. Quiet(g)
  BY NamedCalm DEF Calm
<1>3. Calm(path) /\ Calm(Consume("=")) /\ Calm(Consume(":="))
  BY ConsumeCalm, ConstantsCalm
<1>4. Ends(<<path, Consume(":"), type>>, g, look)
  BY <1>1, <1>2, <1>3, WaitingTuples
<1>5. Ends(<<Consume("->"), type>>, g, look)
  BY <1>1, <1>2, WaitingTuples
<1>6. Ends(<<Consume(":"), type, Consume("=")>>, g, look)
  BY <1>1, <1>2, <1>3, WaitingTuples
<1>7. CASE g[1] \in {"capture", "field", "parameter"}
  <2>1. Steps(g, look, ahead) = <<path, Consume(":"), type>>
    BY <1>7 DEF Steps, ParseCapture, ParseField, ParseParameter
  <2>2. QED
    BY <1>4, <2>1
<1>8. CASE g[1] = "return_type"
  <2>1. Steps(g, look, ahead) = ReturnType(look)
    BY <1>8 DEF Steps
  <2>2. QED
    BY <1>2, <1>5, <2>1, CalmEnds DEF ReturnType, Nothing
<1>9. CASE g[1] = "assign_operator"
  <2>1. Steps(g, look, ahead) = AssignOperator(look)
    BY <1>9 DEF Steps
  <2>2. CASE look \in {":=", "="}
    <3>1. AssignOperator(look) = <<Consume(look)>> /\ Calm(Consume(look))
      BY <1>3, <2>2 DEF AssignOperator
    <3>2. QED
      BY <1>2, <2>1, <3>1, CalmEnds
  <2>3. CASE look \notin {":=", "="}
    BY <1>2, <1>6, <2>1, <2>3, CalmEnds DEF AssignOperator, Nothing
  <2>4. QED
    BY <2>2, <2>3
<1>10. QED
  BY <1>7, <1>8, <1>9

\* The elements of a list stand behind what opens the list, or a ",".
LEMMA ListEnds ==
  ASSUME NEW look, NEW ahead, NEW g, Usual(g), g[1] \in {"list", "list_more"}
  PROVE  Ends(Steps(g, look, ahead), g, look)
<1>1. g[2] \in Listed /\ Quiet(g)
  BY UsualQuiet DEF Usual
<1>2. CASE g[1] = "list"
  <2> DEFINE x == << g[2] >>
             more == <<"list_more", g[2], g[3]>>
             s == <<x, more>>
  <2>1. Steps(g, look, ahead) = IF look \in {"eof", g[3]} THEN << >> ELSE s
    BY <1>2 DEF Steps, List, Nothing
  <2>2. Sequential(s) /\ Len(s) = 2
    BY TuplesAre
  <2>3. x[1] = g[2] /\ s[1] = x /\ s[2] = more
    OBVIOUS
  <2>4. Calm(more)
    BY <1>1, ListCalm
  <2> HIDE DEF x, more, s
  <2>5. Usual(x) /\ Quiet(x) /\ x[1] # "variant_kind" /\ Before(x) = Before(g)
    <3>1. Usual(x) /\ x[1] # "variant_kind"
      BY <1>1, <2>3 DEF Usual, Listed
    <3>2. Quiet(x)
      BY <1>1, <2>3 DEF Listed, Quiet, Owes, Consumes, Bodies
    <3>3. Before(x) = Before(g)
      <4>1. Of(x, "type") <=> Of(g, "type")
        BY <1>1, <1>2, <2>3 DEF Of, Listed
      <4>2. Of(x, "variant") <=> Of(g, "variant")
        BY <1>1, <1>2, <2>3 DEF Of, Listed
      <4>3. QED
        BY <4>1, <4>2 DEF Before
    <3>4. QED
      BY <3>1, <3>2, <3>3
  <2>6. Seats(s, g)
    BY <2>2, <2>3, <2>4, <2>5 DEF Seats, Calm, Mild
  <2>7. \A i \in 1 .. Len(s) : Quiet(s[i])
    BY <2>2, <2>3, <2>4, <2>5 DEF Calm
  <2>8. Ends(s, g, look) /\ Ends(<< >>, g, look)
    BY <1>1, <2>2, <2>6, <2>7, QuietEnds, CalmEnds
  <2>9. QED
    BY <2>1, <2>8
<1>3. CASE g[1] = "list_more"
  <2> DEFINE x == <<"list", g[2], g[3]>>
  <2>1. Steps(g, look, ahead) = IF look = "," THEN <<Consume(","), x>> ELSE << >>
    BY <1>3 DEF Steps, ListMore, Nothing
  <2>2. CASE g[2] \in {"type", "variant"}
    <3>1. Waits(x, ",")
      BY <2>2, WaitingAre DEF TypeFront, VariantFront
    <3> HIDE DEF x
    <3>2. QED
      BY <1>1, <2>1, <3>1, WaitingTuples, CalmEnds
  <2>3. CASE g[2] \notin {"type", "variant"}
    <3>1. Calm(x) /\ Calm(Consume(","))
      BY <1>1, <2>3, ListCalm, ConsumeCalm
    <3> HIDE DEF x
    <3>2. QED
      BY <1>1, <2>1, <3>1, CalmEnds
  <2>4. QED
    BY <2>2, <2>3
<1>4. QED
  BY <1>2, <1>3

\* Two goals that neither open nor close a bracket.
LEMMA QuietPair ==
  ASSUME NEW s, Len(s) = 2, Quiet(s[1]), Quiet(s[2])
  PROVE  \A i \in 1 .. Len(s) : Quiet(s[i])
<1>1. \A i \in 1 .. 2 : i = 1 \/ i = 2
  OBVIOUS
<1>2. QED
  BY <1>1

LEMMA VariantEnds ==
  ASSUME NEW look, NEW ahead, NEW g, Usual(g), g[1] \in {"enum", "variant", "variant_kind"},
         ~ (g[1] = "variant_kind" /\ look = "{")
  PROVE  Ends(Steps(g, look, ahead), g, look)
<1>1. CASE g[1] = "enum"
  <2> DEFINE x == <<"list", "variant", "}">>
             p == <<"{", "}">>
  <2>1. Steps(g, look, ahead) = <<Consume("{"), x, Consume("}")>>
    BY <1>1 DEF Steps, ParseEnumeration
  <2>2. Quiet(g)
    BY <1>1, NamedCalm DEF Calm
  <2>3. Waits(x, "{")
    BY WaitingAre DEF VariantFront
  <2>4. p \in Brackets /\ Shuts(Consume("}"), p) /\ p[1] = "{"
    BY BracketGoals
  <2> HIDE DEF x, p
  <2>5. Ends(<<Consume("{"), x, Consume("}")>>, g, look)
    BY <2>2, <2>3, <2>4, WaitingTuples
  <2>6. QED
    BY <2>1, <2>5
<1>2. CASE g[1] = "variant"
  <2> DEFINE x == <<"variant_kind">>
             s == <<path, x>>
  <2>1. Steps(g, look, ahead) = s
    BY <1>2 DEF Steps, ParseEnumVariant
  <2>2. Sequential(s) /\ Len(s) = 2
    BY TuplesAre
  <2>3. s[1] = path /\ s[2] = x
    OBVIOUS
  <2>4. Calm(path) /\ Quiet(path) /\ Quiet(g)
    BY <1>2, ConstantsCalm, UsualQuiet DEF Calm
  <2>5. Usual(x) /\ Before(x) = {} /\ Quiet(x)
    BY UsualQuiet DEF Usual, Before, Of
  <2> HIDE DEF s, x
  <2>6. Seats(s, g)
    BY <1>2, <2>2, <2>3, <2>4, <2>5 DEF Seats, Calm, Mild
  <2>7. Len(s) = 2
    BY <2>2
  <2>8. \A i \in 1 .. Len(s) : Quiet(s[i])
    <3>1. Quiet(s[1]) /\ Quiet(s[2])
      BY <2>3, <2>4, <2>5
    <3>2. QED
      BY <2>7, <3>1, QuietPair
  <2>9. QED
    BY <2>1, <2>2, <2>4, <2>6, <2>8, QuietEnds
<1>3. CASE g[1] = "variant_kind"
  <2> DEFINE x == <<"list", "type", ")">>
             p == <<"(", ")">>
  <2>1. Steps(g, look, ahead) = VariantKind(look)
    BY <1>3 DEF Steps
  <2>2. Quiet(g) /\ look # "{"
    BY <1>3, UsualQuiet
  <2>3. CASE look = "("
    <3>1. VariantKind(look) = <<Consume("("), x, Consume(")")>>
      BY <2>3 DEF VariantKind
    <3>2. Waits(x, "(")
      BY WaitingAre DEF TypeFront
    <3>3. p \in Brackets /\ Shuts(Consume(")"), p) /\ p[1] = "("
      BY BracketGoals
    <3> HIDE DEF x, p
    <3>4. Ends(<<Consume("("), x, Consume(")")>>, g, look)
      BY <2>2, <3>2, <3>3, WaitingTuples
    <3>5. QED
      BY <2>1, <3>1, <3>4
  <2>4. CASE look # "("
    <3>1. Calm(Consume("=")) /\ Calm(expression) /\ Calm(<<"payload", 1>>)
      BY ConsumeCalm, ConstantsCalm
    <3>2. QED
      BY <2>1, <2>2, <2>4, <3>1, CalmEnds, FailEnds DEF VariantKind, Nothing
  <2>5. QED
    BY <2>3, <2>4
<1>4. QED
  BY <1>1, <1>2, <1>3

LEMMA FunctionBodyEnds ==
  ASSUME NEW look, NEW ahead, NEW g, Usual(g), g[1] = "function_body"
  PROVE  Ends(Steps(g, look, ahead), g, look)
<1>1. Steps(g, look, ahead) = FunctionBody(look) /\ Quiet(g)
  BY NamedCalm DEF Steps, Calm
<1>2. CASE look = "{"
  BY <1>1, <1>2, ConstantsCalm, CalmEnds DEF FunctionBody
<1>3. CASE look # "{"
  <2> DEFINE s == <<Consume("{")>>
  <2>1. s # << >> /\ s[1][1] = "consume" /\ s[1][2] # look
    BY <1>3 DEF Consume
  <2>2. Steps(g, look, ahead) = s
    BY <1>1, <1>3 DEF FunctionBody
  <2> HIDE DEF s
  <2>3. QED
    BY <2>1, <2>2 DEF Ends, Strays
<1>4. QED
  BY <1>2, <1>3

LEMMA SecondOf ==
  ASSUME NEW a, NEW b, Sequential(a), Sequential(b), Len(a) = 1, Len(b) = 1
  PROVE  Len(a \o b) = 2 /\ (a \o b)[2] = b[1]
<1>1. /\ Len(a \o b) = Len(a) + Len(b)
      /\ \A i \in 1 .. Len(a) + Len(b) :
           (a \o b)[i] = IF i <= Len(a) THEN a[i] ELSE b[i - Len(a)]
  BY SequencesAre, Zenon
<1>2. 2 \in 1 .. Len(a) + Len(b) /\ ~ (2 <= Len(a)) /\ 2 - Len(a) = 1
  OBVIOUS
<1>3. QED
  BY <1>1, <1>2

LEMMA AttributesEnds ==
  ASSUME NEW look, NEW ahead, NEW g, Usual(g), g[1] = "storage_attributes"
  PROVE  Ends(Steps(g, look, ahead), g, look)
<1>1. Steps(g, look, ahead) = StorageAttributes(look, g[2]) /\ Quiet(g)
  BY NamedCalm DEF Steps, Calm
<1>2. CASE look \in Attributes
  <2>1. look \notin {"(", ")", "{", "}", "[", "]"}
    BY <1>2 DEF Attributes
  <2>2. Calm(<<"consume_only", look>>)
    BY <2>1, ConsumeCalm
  <2>3. Calm(<<"storage_attributes", g[2] \cup {look}>>)
    BY NamedCalm
  <2>4. StorageAttributes(look, g[2]) =
          << <<"consume_only", look>>, <<"storage_attributes", g[2] \cup {look}>> >>
    BY <1>2 DEF StorageAttributes
  <2>5. QED
    BY <1>1, <2>2, <2>3, <2>4, CalmEnds
<1>3. CASE look \notin Attributes /\ Conflict(g[2])
  <2> DEFINE a == << <<"rewind", 1>> >>
             id == <<"fail", "kConflictingStorageSpecifiers">>
             b == <<id>>
             s == a \o b
  <2>1. StorageAttributes(look, g[2]) = s
    BY <1>3 DEF StorageAttributes, Fail
  <2>2. Len(a) = 1 /\ Len(b) = 1 /\ b[1] = id /\ Marked(id) /\ Sequential(a) /\ Sequential(b)
    BY TuplesAre DEF Marked
  <2> HIDE DEF a, b, id
  <2>3. Len(s) = 2 /\ s[2] = id
    BY <2>2, SecondOf
  <2> HIDE DEF s
  <2>4. QED
    BY <1>1, <2>1, <2>2, <2>3 DEF Ends, Strays
<1>4. CASE look \notin Attributes /\ ~ Conflict(g[2])
  <2>1. StorageAttributes(look, g[2]) = << >>
    BY <1>4 DEF StorageAttributes, Nothing
  <2>2. QED
    BY <1>1, <2>1, CalmEnds
<1>5. QED
  BY <1>2, <1>3, <1>4

LEMMA PrefixEnds ==
  ASSUME NEW look, NEW ahead, NEW g, Usual(g), g[1] = "prefix"
  PROVE  Ends(Steps(g, look, ahead), g, look)
<1>1. Steps(g, look, ahead) = Prefix(look, 0) /\ Quiet(g)
  BY UsualQuiet DEF Steps, Usual
<1>2. CASE look \in UnaryOperators
  <2> DEFINE s == <<Consume(look), <<"prefix", 0 + 1>> >>
  <2>1. Prefix(look, 0) = s
    BY <1>2 DEF Prefix
  <2>2. Len(s) = 2 /\ Marked(s[2])
    BY DEF Marked
  <2> HIDE DEF s
  <2>3. QED
    BY <1>1, <2>1, <2>2 DEF Ends, Strays
<1>3. CASE look \notin UnaryOperators
  <2>1. Prefix(look, 0) = << <<"primary">> >> /\ Calm(<<"primary">>)
    BY <1>3, NamedCalm DEF Prefix
  <2>2. QED
    BY <1>1, <2>1, CalmEnds
<1>4. QED
  BY <1>2, <1>3

\* Whatever procedure is called, but for those that read an array type or the
\* fields of a variant.
LEMMA CallEnds ==
  ASSUME NEW look, NEW ahead, NEW g, Usual(g), g[1] \notin Elementary,
         NEW b, NEW c, Changes(g, b, c),
         ~ (g[1] = "type" /\ look = "["), ~ (g[1] = "variant_kind" /\ look = "{")
  PROVE  Ends(Steps(g, look, ahead), g, look)
<1>1. g[1] \in {"list", "list_more", "sequence", "sequence_more", "body", "path",
               "path_parts", "path_more", "type", "storage_attributes", "capture",
               "field", "parameter", "attribute_use", "attribute_arguments",
               "expression", "range_operator", "range_end", "binary", "climb",
               "unary", "prefix", "postfix_operators", "primary", "value", "postfix",
               "postfix_form", "member", "call", "macro_call", "await", "construct",
               "construct_more", "(", "{", "block", "if", "branch", "else",
               "else_branch", "loop", "while", "for", "match", "arms", "[",
               "statement", "use", "assign", "assign_operator", "declaration",
               "declared", "fn", "return_type", "function_body", "struct", "union",
               "enum", "variant", "variant_kind", "trait", "impl", "trait_name",
               "mod", "redirect"}
  BY DEF Changes, Elementary, Usual, Flat, Operands, Expressions, Extensions
<1> DEFINE good == Ends(Steps(g, look, ahead), g, look)
<1>2. /\ g[1] \in {"path", "path_parts", "path_more", "attribute_use", "use",
                   "trait_name", "redirect"} => good
      /\ g[1] \in {"expression", "range_operator", "range_end", "binary", "unary",
                   "postfix_operators", "climb"} => good
  BY PathEnds, OperatorEnds
<1>3. /\ g[1] \in {"value", "postfix", "member", "await", "sequence", "sequence_more"}
           => good
      /\ g[1] \in {"{", "if", "branch", "else", "else_branch", "loop", "while", "for",
                   "arms"} => good
      /\ g[1] \in {"assign", "declaration", "declared", "primary"} => good
  BY ValueEnds, FlowEnds, AssignEnds
<1>4. /\ g[1] \in {"attribute_arguments", "call", "macro_call", "(", "block", "match", "[",
                   "fn", "struct", "union", "trait", "impl", "mod"} => good
      /\ g[1] \in {"body", "construct", "construct_more"} => good
  BY GroupEnds, BodyEnds DEF Bodies
<1>5. /\ g[1] = "postfix_form" => good
      /\ g[1] = "statement" => good
      /\ g[1] = "type" => good
      /\ g[1] \in {"capture", "field", "parameter", "return_type", "assign_operator"} => good
  BY PostfixEnds, StatementEnds, TypeEnds, TypedEnds
<1>6. /\ g[1] \in {"list", "list_more"} => good
      /\ g[1] \in {"enum", "variant", "variant_kind"} => good
      /\ g[1] = "function_body" => good
      /\ g[1] = "storage_attributes" => good
      /\ g[1] = "prefix" => good
  BY ListEnds, VariantEnds, FunctionBodyEnds, AttributesEnds, PrefixEnds
<1> HIDE DEF good
<1>7. good
  BY <1>1, <1>2, <1>3, <1>4, <1>5, <1>6
<1>8. QED
  BY <1>7 DEF good

-----------------------------------------------------------------------------
(* Brackets: the tokens read                                               *)

LEMMA CountIs ==
  ASSUME NEW kind, NEW n \in Nat
  PROVE  Count(kind, n) \in Nat /\ Count(kind, 0) = 0
<1> DEFINE T == {i \in 1 .. n : tokens[i] = kind}
<1>1. IsFiniteSet(1 .. n) /\ T \subseteq 1 .. n
  BY FS_Interval
<1>2. Cardinality(T) \in Nat
  BY <1>1, FS_Subset, FS_CardinalityType
<1>3. {i \in 1 .. 0 : tokens[i] = kind} = {}
  OBVIOUS
<1>4. Cardinality({}) = 0
  BY FS_EmptySet
<1>5. QED
  BY <1>2, <1>3, <1>4 DEF Count

LEMMA CountNext ==
  ASSUME NEW kind, NEW n \in Nat
  PROVE  Count(kind, n + 1) = Count(kind, n) + (IF tokens[n + 1] = kind THEN 1 ELSE 0)
<1> DEFINE T == {i \in 1 .. n : tokens[i] = kind}
           U == {i \in 1 .. n + 1 : tokens[i] = kind}
<1>1. IsFiniteSet(1 .. n) /\ T \subseteq 1 .. n
  BY FS_Interval
<1>2. IsFiniteSet(T) /\ Cardinality(T) \in Nat
  BY <1>1, FS_Subset, FS_CardinalityType
<1>3. CASE tokens[n + 1] = kind
  <2>1. U = T \cup {n + 1} /\ n + 1 \notin T
    BY <1>3
  <2> HIDE DEF T, U
  <2>2. Cardinality(T \cup {n + 1}) = Cardinality(T) + 1
    BY <1>2, <2>1, FS_AddElement
  <2>3. Cardinality(U) = Cardinality(T) + 1
    BY <2>1, <2>2
  <2>4. QED
    BY <1>3, <2>3 DEF Count, T, U
<1>4. CASE tokens[n + 1] # kind
  <2>1. U = T
    BY <1>4
  <2>2. QED
    BY <1>2, <1>4, <2>1 DEF Count
<1>5. QED
  BY <1>3, <1>4

LEMMA CountSame ==
  ASSUME NEW kind, NEW m \in Nat, NEW n \in Nat, m <= n,
         \A k \in m + 1 .. n : tokens[k] # kind
  PROVE  Count(kind, n) = Count(kind, m)
<1>1. {i \in 1 .. n : tokens[i] = kind} = {i \in 1 .. m : tokens[i] = kind}
  OBVIOUS
<1>2. QED
  BY <1>1 DEF Count

\* From p to q one token is read, and white space.
Reads(p, q) ==
  /\ p \in Nat /\ q \in Nat /\ p < q
  /\ \A k \in p + 2 .. q : tokens[k] \in {"newline", "whitespace"}

LEMMA CountReads ==
  ASSUME NEW p, NEW q, Reads(p, q), NEW kind, kind \notin {"newline", "whitespace"},
         NEW n \in p + 1 .. q
  PROVE  Count(kind, n) = Count(kind, p) + (IF tokens[p + 1] = kind THEN 1 ELSE 0)
<1>1. p \in Nat /\ p + 1 \in Nat /\ n \in Nat /\ p + 1 <= n /\ n <= q /\ q \in Nat
  BY DEF Reads
<1>2. \A k \in (p + 1) + 1 .. n : k \in p + 2 .. q
  BY <1>1
<1>3. \A k \in (p + 1) + 1 .. n : tokens[k] # kind
  BY <1>2 DEF Reads
<1>4. Count(kind, n) = Count(kind, p + 1)
  BY <1>1, <1>3, CountSame
<1>5. QED
  BY <1>1, <1>4, CountNext

LEMMA OwesToken ==
  ASSUME NEW pair \in Brackets, NEW g, g[1] \in {"consume", "consume_only"}
  PROVE  Owes(g, pair) = (IF g[2] = pair[2] THEN 1 ELSE 0) - (IF g[2] = pair[1] THEN 1 ELSE 0)
<1>1. pair[1] # pair[2]
  BY BracketsAre
<1>2. g[1] \notin Bodies
  BY DEF Bodies
<1>3. Consumes(g, pair[1]) <=> g[2] = pair[1]
  BY DEF Consumes
<1>4. Consumes(g, pair[2]) <=> g[2] = pair[2]
  BY DEF Consumes
<1>5. Owes(g, pair) = IF g[2] = pair[1] THEN -1 ELSE IF g[2] = pair[2] THEN 1 ELSE 0
  BY <1>2, <1>3, <1>4 DEF Owes
<1>6. QED
  BY <1>1, <1>5

\* What is read changes what is open as the goals s change to t.
LEMMA NestedReads ==
  ASSUME NEW p, NEW q, Reads(p, q), NEW s, NEW t, Nested(s, p),
         \A pair \in Brackets : \A d :
           Nests(s, pair, d) =>
             LET e == d + (IF tokens[p + 1] = pair[1] THEN 1 ELSE 0)
                        - (IF tokens[p + 1] = pair[2] THEN 1 ELSE 0)
             IN  e \in Nat /\ Nests(t, pair, e)
  PROVE  Nested(t, q)
<1> SUFFICES ASSUME NEW pair \in Brackets
             PROVE  /\ \A n \in 0 .. q : Count(pair[2], n) <= Count(pair[1], n)
                    /\ Nests(t, pair, Count(pair[1], q) - Count(pair[2], q))
  BY DEF Nested
<1> DEFINE o == pair[1]
           c == pair[2]
           more == IF tokens[p + 1] = o THEN 1 ELSE 0
           less == IF tokens[p + 1] = c THEN 1 ELSE 0
           d == Count(o, p) - Count(c, p)
<1>1. p \in Nat /\ q \in Nat /\ p < q /\ q \in p + 1 .. q
  BY DEF Reads
<1>2. /\ \A n \in 0 .. p : Count(c, n) <= Count(o, n)
      /\ Nests(s, pair, d)
  BY DEF Nested
<1>3. d + more - less \in Nat /\ Nests(t, pair, d + more - less)
  BY <1>2
<1>4. o \notin {"newline", "whitespace"} /\ c \notin {"newline", "whitespace"}
  BY BracketsAre
<1>5. Count(o, p) \in Nat /\ Count(c, p) \in Nat
  BY <1>1, CountIs
<1>6. \A n \in p + 1 .. q : Count(o, n) = Count(o, p) + more /\ Count(c, n) = Count(c, p) + less
  BY <1>4, CountReads
<1>7. more \in {0, 1} /\ less \in {0, 1}
  OBVIOUS
<1> HIDE DEF o, c, more, less
<1>8. Count(o, q) - Count(c, q) = d + more - less
  BY <1>1, <1>5, <1>6, <1>7
<1>9. ASSUME NEW n \in p + 1 .. q PROVE Count(c, n) <= Count(o, n)
  BY <1>1, <1>3, <1>5, <1>6, <1>7, <1>9
<1>10. \A n \in 0 .. q : n \in 0 .. p \/ n \in p + 1 .. q
  BY <1>1
<1>11. \A n \in 0 .. q : Count(c, n) <= Count(o, n)
  BY <1>2, <1>9, <1>10
<1>12. QED
  BY <1>3, <1>8, <1>11 DEF o, c

-----------------------------------------------------------------------------
(* Brackets: the goals, as their first one is done                         *)

LEMMA NameReads ==
  ASSUME NEW p, NEW q, Reads(p, q), InName(p), tokens[p + 1] \in {"::", "identifier"}
  PROVE  InName(q)
<1>1. PICK m \in 1 .. (p + 1) - 1 :
        /\ tokens[m] \in VariantFront
        /\ \A k \in m + 1 .. (p + 1) - 1 :
             tokens[k] \in {"identifier", "::", "newline", "whitespace"}
  BY DEF InName, IsPathBehind
<1>2. /\ p \in Nat /\ q \in Nat /\ p < q
      /\ \A k \in p + 2 .. q : tokens[k] \in {"newline", "whitespace"}
  BY DEF Reads
<1>3. m \in 1 .. (q + 1) - 1
  BY <1>2
<1>4. ASSUME NEW k \in m + 1 .. (q + 1) - 1
      PROVE  tokens[k] \in {"identifier", "::", "newline", "whitespace"}
  <2>1. k \in m + 1 .. (p + 1) - 1 \/ k = p + 1 \/ k \in p + 2 .. q
    BY <1>2, <1>3
  <2>2. QED
    BY <1>1, <1>2, <2>1
<1>5. QED
  BY <1>1, <1>3, <1>4 DEF InName, IsPathBehind

LEMMA BehindReads ==
  ASSUME NEW p, NEW q, Reads(p, q), NEW kinds, tokens[p + 1] \in kinds
  PROVE  IsBehind(kinds, q + 1)
<1>1. /\ p \in Nat /\ q \in Nat /\ p < q
      /\ \A k \in p + 2 .. q : tokens[k] \in {"newline", "whitespace"}
  BY DEF Reads
<1>2. p + 1 \in 1 .. (q + 1) - 1
  BY <1>1
<1>3. \A k \in (p + 1) + 1 .. (q + 1) - 1 : k \in p + 2 .. q
  BY <1>1
<1>4. \A k \in (p + 1) + 1 .. (q + 1) - 1 : tokens[k] \in {"newline", "whitespace"}
  BY <1>1, <1>3
<1>5. QED
  BY <1>2, <1>4 DEF IsBehind

\* The first goal consumes the token it expects.
LEMMA UprightConsumes ==
  ASSUME NEW s, NEW p, NEW q, Upright(s, p), Reads(p, q), s # << >>,
         s[1][1] \in {"consume", "consume_only"}, s[1][2] = tokens[p + 1]
  PROVE  Upright(Tail(s), q)
<1> DEFINE t == Tail(s)
<1>1. /\ Sequential(s) /\ \A i \in 1 .. Len(s) : Usual(s[i])
      /\ Placed(s, p) /\ Naming(s, p) /\ Nested(s, p)
  BY DEF Upright
<1>2. /\ Len(s) \in Nat \ {0} /\ Sequential(t) /\ Len(t) = Len(s) - 1
      /\ \A i \in 1 .. Len(s) - 1 : t[i] = s[i + 1]
  BY <1>1, TailIs
<1> HIDE DEF t
<1>3. \A i \in 1 .. Len(t) : i + 1 \in 1 .. Len(s) /\ t[i] = s[i + 1]
  BY <1>2
<1>4. \A i \in 1 .. Len(t) : Usual(t[i])
  BY <1>1, <1>3
<1>5. ASSUME NEW i \in 1 .. Len(t), Before(t[i]) # {}
      PROVE  IF i = 1 THEN IsBehind(Before(t[1]), q + 1)
             ELSE t[i - 1][1] = "consume" /\ t[i - 1][2] \in Before(t[i])
  <2>1. i + 1 \in 1 .. Len(s) /\ t[i] = s[i + 1] /\ i + 1 # 1 /\ (i + 1) - 1 = i
    BY <1>2, <1>3
  <2>2. s[i][1] = "consume" /\ s[i][2] \in Before(t[i])
    BY <1>1, <1>5, <2>1 DEF Placed
  <2>3. CASE i = 1
    BY <2>2, <2>3, BehindReads
  <2>4. CASE i # 1
    <3>1. i - 1 \in 1 .. Len(t) /\ (i - 1) + 1 = i
      BY <2>4
    <3>2. t[i - 1] = s[i]
      BY <1>3, <3>1
    <3>3. QED
      BY <2>2, <2>4, <3>2
  <2>5. QED
    BY <2>3, <2>4
<1>6. Placed(t, q)
  BY <1>5 DEF Placed
<1>7. ASSUME NEW i \in 1 .. Len(t), t[i][1] = "variant_kind"
      PROVE  \/ i = 2 /\ t[1][1] \in {"path", "path_parts"} /\ InName(q)
             \/ i = 2 /\ t[1][1] = "path_more" /\ AfterName(q)
             \/ i = 1 /\ (AfterName(q) \/ tokens[q + 1] = "eof")
  <2> DEFINE j == i + 1
  <2>1. j \in 1 .. Len(s) /\ t[i] = s[j] /\ j # 1
    BY <1>2, <1>3
  <2>2. \/ j = 2 /\ s[1][1] \in {"path", "path_parts"} /\ InName(p)
        \/ j = 2 /\ s[1][1] = "path_more" /\ AfterName(p)
        \/ j = 3 /\ s[1] = Consume("::") /\ s[2][1] = "path_parts" /\ InName(p)
        \/ j = 3 /\ s[1] = Consume("identifier") /\ s[2][1] = "path_more" /\ InName(p)
    BY <1>1, <1>7, <2>1 DEF Naming
  <2>3. j = 3
    BY <2>2
  <2>4. i = 2 /\ t[1] = s[2]
    BY <1>3, <2>3
  <2>5. CASE s[1] = Consume("::") /\ s[2][1] = "path_parts" /\ InName(p)
    <3>1. tokens[p + 1] = "::"
      BY <2>5 DEF Consume
    <3>2. InName(q)
      BY <2>5, <3>1, NameReads
    <3>3. QED
      BY <2>4, <2>5, <3>2
  <2>6. CASE s[1] = Consume("identifier") /\ s[2][1] = "path_more" /\ InName(p)
    <3>1. tokens[p + 1] = "identifier"
      BY <2>6 DEF Consume
    <3>2. AfterName(q)
      BY <2>6, <3>1, NameReads, BehindReads DEF AfterName
    <3>3. QED
      BY <2>4, <2>6, <3>2
  <2>7. QED
    BY <2>2, <2>3, <2>5, <2>6
<1>8. Naming(t, q)
  BY <1>7 DEF Naming
<1>9. Nested(t, q)
  <2>1. ASSUME NEW pair \in Brackets, NEW d, Nests(s, pair, d)
        PROVE  LET e == d + (IF tokens[p + 1] = pair[1] THEN 1 ELSE 0)
                          - (IF tokens[p + 1] = pair[2] THEN 1 ELSE 0)
               IN  e \in Nat /\ Nests(t, pair, e)
    <3> DEFINE more == IF tokens[p + 1] = pair[1] THEN 1 ELSE 0
               less == IF tokens[p + 1] = pair[2] THEN 1 ELSE 0
    <3>1. d \in Nat /\ d - Owes(s[1], pair) \in Nat /\ Nests(t, pair, d - Owes(s[1], pair))
      BY <1>1, <2>1, NestsTail DEF t
    <3>2. Owes(s[1], pair) = less - more
      BY OwesToken
    <3>3. more \in {0, 1} /\ less \in {0, 1}
      OBVIOUS
    <3> HIDE DEF more, less
    <3>4. d - Owes(s[1], pair) = d + more - less
      BY <3>1, <3>2, <3>3
    <3>5. QED
      BY <3>1, <3>4 DEF more, less
  <2>2. QED
    BY <1>1, <2>1, NestedReads
<1>10. QED
  BY <1>2, <1>4, <1>6, <1>8, <1>9 DEF Upright, t

\* The first goal does not touch the stream.
LEMMA UprightMakes ==
  ASSUME NEW s, NEW p, Upright(s, p), s # << >>, s[1][1] \in {"node", "payload", "range"}
  PROVE  Upright(Tail(s), p)
<1> DEFINE t == Tail(s)
<1>1. /\ Sequential(s) /\ \A i \in 1 .. Len(s) : Usual(s[i])
      /\ Placed(s, p) /\ Naming(s, p) /\ Nested(s, p)
  BY DEF Upright
<1>2. /\ Len(s) \in Nat \ {0} /\ Sequential(t) /\ Len(t) = Len(s) - 1
      /\ \A i \in 1 .. Len(s) - 1 : t[i] = s[i + 1]
  BY <1>1, TailIs
<1> HIDE DEF t
<1>3. \A i \in 1 .. Len(t) : i + 1 \in 1 .. Len(s) /\ t[i] = s[i + 1]
  BY <1>2
<1>4. \A i \in 1 .. Len(t) : Usual(t[i])
  BY <1>1, <1>3
<1>5. ASSUME NEW i \in 1 .. Len(t), Before(t[i]) # {}
      PROVE  i # 1 /\ t[i - 1][1] = "consume" /\ t[i - 1][2] \in Before(t[i])
  <2>1. i + 1 \in 1 .. Len(s) /\ t[i] = s[i + 1] /\ i + 1 # 1 /\ (i + 1) - 1 = i
    BY <1>2, <1>3
  <2>2. s[i][1] = "consume" /\ s[i][2] \in Before(t[i])
    BY <1>1, <1>5, <2>1 DEF Placed
  <2>3. i # 1
    BY <2>2
  <2>4. i - 1 \in 1 .. Len(t) /\ (i - 1) + 1 = i
    BY <2>3
  <2>5. t[i - 1] = s[i]
    BY <1>3, <2>4
  <2>6. QED
    BY <2>2, <2>3, <2>5
<1>6. Placed(t, p)
  BY <1>5 DEF Placed
<1>7. ASSUME NEW i \in 1 .. Len(t) PROVE t[i][1] # "variant_kind"
  <2>1. i + 1 \in 1 .. Len(s) /\ t[i] = s[i + 1] /\ i + 1 # 1
    BY <1>2, <1>3
  <2>2. s[i + 1][1] # "variant_kind"
    BY <1>1, <2>1 DEF Naming, Consume
  <2>3. QED
    BY <2>1, <2>2
<1>8. Naming(t, p)
  BY <1>7 DEF Naming
<1>9. Nested(t, p)
  <2>1. ASSUME NEW pair \in Brackets, NEW d, Nests(s, pair, d) PROVE Nests(t, pair, d)
    <3>1. d \in Nat /\ Nests(t, pair, d - Owes(s[1], pair))
      BY <1>1, <2>1, NestsTail DEF t
    <3>2. Owes(s[1], pair) = 0
      BY DEF Owes, Consumes, Bodies
    <3>3. d - 0 = d
      BY <3>1
    <3>4. QED
      BY <3>1, <3>2, <3>3
  <2>2. QED
    BY <1>1, <2>1 DEF Nested
<1>10. QED
  BY <1>2, <1>4, <1>6, <1>8, <1>9 DEF Upright, t

\* The goals that a procedure on the way through a variant's path is replaced by.
LEMMA PathIs ==
  ASSUME NEW look, NEW ahead, NEW g, Usual(g),
         NEW x, x = Steps(g, look, ahead), \A i \in 1 .. Len(x) : Usual(x[i])
  PROVE  /\ g[1] = "path" =>
              \/ Len(x) = 1 /\ x[1][1] = "path_parts"
              \/ Len(x) = 2 /\ x[1] = Consume("::") /\ x[2][1] = "path_parts"
         /\ g[1] = "path_parts" =>
              \/ Len(x) = 0 /\ look = "eof"
              \/ Len(x) = 2 /\ x[1] = Consume("identifier") /\ x[2][1] = "path_more"
         /\ g[1] = "path_more" =>
              \/ Len(x) = 0
              \/ Len(x) = 2 /\ x[1] = Consume("::") /\ x[2][1] = "path_parts"
<1>1. ASSUME g[1] = "path"
      PROVE  \/ Len(x) = 1 /\ x[1][1] = "path_parts"
             \/ Len(x) = 2 /\ x[1] = Consume("::") /\ x[2][1] = "path_parts"
  <2>1. x = ParsePath(look)
    BY <1>1 DEF Steps
  <2>2. QED
    BY <2>1 DEF ParsePath
<1>2. ASSUME g[1] = "path_parts"
      PROVE  \/ Len(x) = 0 /\ look = "eof"
             \/ Len(x) = 2 /\ x[1] = Consume("identifier") /\ x[2][1] = "path_more"
  <2>1. x = PathParts(look, g[2])
    BY <1>2 DEF Steps
  <2>2. CASE look # "eof"
    BY <2>1, <2>2 DEF PathParts
  <2>3. CASE look = "eof" /\ g[2] = 0
    <3>1. Len(x) = 1 /\ x[1][1] = "fail"
      BY <2>1, <2>3 DEF PathParts, Fail
    <3>2. Usual(x[1])
      BY <3>1
    <3>3. QED
      BY <3>1, <3>2 DEF Usual
  <2>4. CASE look = "eof" /\ g[2] # 0
    BY <2>1, <2>4 DEF PathParts, Nothing
  <2>5. QED
    BY <2>2, <2>3, <2>4
<1>3. ASSUME g[1] = "path_more"
      PROVE  \/ Len(x) = 0
             \/ Len(x) = 2 /\ x[1] = Consume("::") /\ x[2][1] = "path_parts"
  <2>1. x = PathMore(look, g[2])
    BY <1>3 DEF Steps
  <2>2. QED
    BY <2>1 DEF PathMore, Nothing
<1>4. QED
  BY <1>1, <1>2, <1>3

\* A procedure is replaced by what suits its place.
LEMMA UprightCalls ==
  ASSUME NEW s, NEW p, p \in Nat, Upright(s, p), s # << >>, s[1][1] \notin Elementary,
         NEW ahead, NEW x, x = Steps(s[1], tokens[p + 1], ahead), Suits(x, s[1])
  PROVE  Upright(x \o Tail(s), p)
<1> DEFINE t == Tail(s)
           u == x \o t
           n == Len(x)
<1>1. /\ Sequential(s) /\ \A i \in 1 .. Len(s) : Usual(s[i])
      /\ Placed(s, p) /\ Naming(s, p) /\ Nested(s, p)
  BY DEF Upright
<1>2. /\ Len(s) \in Nat \ {0} /\ Sequential(t) /\ Len(t) = Len(s) - 1
      /\ \A i \in 1 .. Len(s) - 1 : t[i] = s[i + 1]
  BY <1>1, TailIs
<1>3. /\ Sequential(x) /\ Seats(x, s[1])
      /\ \A pair \in Brackets : Nests(x, pair, Owes(s[1], pair))
  BY DEF Suits
<1> HIDE DEF t
<1>4. /\ n \in Nat /\ Sequential(u) /\ Len(u) = n + Len(t)
      /\ \A i \in 1 .. n + Len(t) : u[i] = IF i <= n THEN x[i] ELSE t[i - n]
  BY <1>2, <1>3, SequencesAre
<1> HIDE DEF u, n
<1>5. \A i \in 1 .. n : u[i] = x[i]
  BY <1>2, <1>4
<1>6. ASSUME NEW i \in 1 .. Len(u), i > n
      PROVE  LET j == i - n + 1 IN j \in 2 .. Len(s) /\ u[i] = s[j]
  <2>1. i \in 1 .. n + Len(t) /\ ~ (i <= n) /\ i - n \in 1 .. Len(s) - 1
    BY <1>2, <1>4, <1>6
  <2>2. u[i] = t[i - n] /\ t[i - n] = s[(i - n) + 1]
    BY <1>2, <1>4, <2>1
  <2>3. i - n + 1 \in 2 .. Len(s)
    BY <1>2, <2>1
  <2>4. QED
    BY <2>2, <2>3
<1>7. 1 \in 1 .. Len(s) /\ Usual(s[1])
  BY <1>1, <1>2
<1>8. \A i \in 1 .. n : Usual(x[i])
  BY <1>3 DEF Seats, n
<1>9. ASSUME NEW i \in 1 .. Len(u) PROVE Usual(u[i])
  <2>1. CASE i <= n
    <3>1. i \in 1 .. n
      BY <1>4, <2>1
    <3>2. QED
      BY <1>5, <1>8, <3>1
  <2>2. CASE i > n
    <3> DEFINE j == i - n + 1
    <3>1. j \in 2 .. Len(s) /\ u[i] = s[j]
      BY <1>6, <2>2
    <3>2. j \in 1 .. Len(s)
      BY <3>1
    <3>3. QED
      BY <1>1, <3>1, <3>2
  <2>3. QED
    BY <1>4, <2>1, <2>2
<1>10. ASSUME NEW i \in 1 .. Len(u), Before(u[i]) # {}
       PROVE  IF i = 1 THEN IsBehind(Before(u[1]), p + 1)
              ELSE u[i - 1][1] = "consume" /\ u[i - 1][2] \in Before(u[i])
  <2>1. CASE i <= n
    <3>1. i \in 1 .. n /\ u[i] = x[i]
      BY <1>4, <1>5, <2>1
    <3>2. IF i = 1 THEN Before(x[1]) = Before(s[1])
          ELSE x[i - 1][1] = "consume" /\ x[i - 1][2] \in Before(x[i])
      BY <1>3, <1>10, <3>1 DEF Seats, n
    <3>3. CASE i = 1
      <4>1. Before(u[1]) = Before(s[1]) /\ Before(s[1]) # {}
        BY <1>10, <3>1, <3>2, <3>3
      <4>2. IsBehind(Before(s[1]), p + 1)
        BY <1>1, <1>7, <4>1 DEF Placed
      <4>3. QED
        BY <3>3, <4>1, <4>2
    <3>4. CASE i # 1
      <4>1. i - 1 \in 1 .. n
        BY <1>4, <3>1, <3>4
      <4>2. u[i - 1] = x[i - 1]
        BY <1>5, <4>1
      <4>3. QED
        BY <3>1, <3>2, <3>4, <4>2
    <3>5. QED
      BY <3>3, <3>4
  <2>2. CASE i > n
    <3> DEFINE j == i - n + 1
    <3>1. j \in 2 .. Len(s) /\ u[i] = s[j]
      BY <1>6, <2>2
    <3>2. j \in 1 .. Len(s) /\ j # 1
      BY <3>1
    <3>3. s[j - 1][1] = "consume" /\ s[j - 1][2] \in Before(u[i])
      BY <1>1, <1>10, <3>1, <3>2 DEF Placed
    <3>4. j - 1 # 1
      BY <3>3 DEF Elementary
    <3>5. i - 1 \in 1 .. Len(u) /\ i - 1 > n /\ (i - 1) - n + 1 = j - 1 /\ i # 1
      BY <1>4, <3>1, <3>4
    <3>6. u[i - 1] = s[j - 1]
      BY <1>6, <3>5
    <3>7. QED
      BY <3>3, <3>5, <3>6
  <2>3. QED
    BY <1>4, <2>1, <2>2
<1>11. ASSUME NEW i \in 1 .. Len(u), u[i][1] = "variant_kind"
       PROVE  \/ i = 1 /\ (AfterName(p) \/ tokens[p + 1] = "eof")
              \/ i = 2 /\ u[1][1] \in {"path", "path_parts"} /\ InName(p)
              \/ i = 3 /\ u[1] = Consume("::") /\ u[2][1] = "path_parts" /\ InName(p)
              \/ i = 3 /\ u[1] = Consume("identifier") /\ u[2][1] = "path_more" /\ InName(p)
  <2>1. CASE i <= n
    <3>1. i \in 1 .. n /\ u[i] = x[i]
      BY <1>4, <1>5, <2>1
    <3>2. s[1][1] = "variant" /\ i = 2 /\ x[1] = path
      BY <1>3, <1>11, <3>1 DEF Seats, n
    <3>3. u[1] = path
      <4>1. 1 \in 1 .. n
        BY <1>4, <3>1
      <4>2. QED
        BY <1>5, <3>2, <4>1
    <3>4. u[1][1] = "path"
      BY <3>3 DEF path
    <3>5. Before(s[1]) = VariantFront /\ VariantFront # {}
      BY <3>2 DEF Before, Of, VariantFront
    <3>6. IsBehind(VariantFront, p + 1)
      BY <1>1, <1>7, <3>5 DEF Placed
    <3>7. InName(p)
      BY <3>6 DEF IsBehind, InName, IsPathBehind
    <3>8. QED
      BY <3>2, <3>4, <3>7
  <2>2. CASE i > n
    <3> DEFINE j == i - n + 1
               g == s[1]
    <3>1. j \in 2 .. Len(s) /\ u[i] = s[j]
      BY <1>6, <2>2
    <3>2. j \in 1 .. Len(s) /\ j # 1
      BY <3>1
    <3>3. \/ j = 2 /\ g[1] \in {"path", "path_parts"} /\ InName(p)
          \/ j = 2 /\ g[1] = "path_more" /\ AfterName(p)
      <4>1. g # Consume("::") /\ g # Consume("identifier")
        BY DEF Elementary, Consume
      <4>2. QED
        BY <1>1, <1>11, <3>1, <3>2, <4>1 DEF Naming
    <3>4. i = n + 1 /\ InName(p)
      BY <1>4, <3>3 DEF AfterName
    <3>5. /\ g[1] = "path" =>
               \/ n = 1 /\ x[1][1] = "path_parts"
               \/ n = 2 /\ x[1] = Consume("::") /\ x[2][1] = "path_parts"
          /\ g[1] = "path_parts" =>
               \/ n = 0 /\ tokens[p + 1] = "eof"
               \/ n = 2 /\ x[1] = Consume("identifier") /\ x[2][1] = "path_more"
          /\ g[1] = "path_more" =>
               \/ n = 0
               \/ n = 2 /\ x[1] = Consume("::") /\ x[2][1] = "path_parts"
      BY <1>7, <1>8, PathIs DEF n
    <3> HIDE DEF g
    <3>6. CASE n = 0
      BY <3>3, <3>4, <3>5, <3>6
    <3>7. CASE n = 1
      <4>1. u[1] = x[1]
        BY <1>5, <3>7
      <4>2. QED
        BY <3>3, <3>4, <3>5, <3>7, <4>1
    <3>8. CASE n = 2
      <4>1. u[1] = x[1] /\ u[2] = x[2]
        BY <1>5, <3>8
      <4>2. QED
        BY <3>3, <3>4, <3>5, <3>8, <4>1
    <3>9. QED
      BY <3>3, <3>5, <3>6, <3>7, <3>8
  <2>3. QED
    BY <1>4, <2>1, <2>2
<1>12. Placed(u, p) /\ Naming(u, p)
  BY <1>10, <1>11 DEF Placed, Naming
<1>13. Nested(u, p)
  <2>1. ASSUME NEW pair \in Brackets, NEW d, Nests(s, pair, d) PROVE Nests(u, pair, d)
    <3> DEFINE o == Owes(s[1], pair)
    <3>1. d \in Nat /\ Nests(t, pair, d - o)
      BY <1>1, <2>1, NestsTail DEF t
    <3>2. Nests(x, pair, o)
      BY <1>3
    <3>3. o \in {-1, 0, 1}
      BY BracketsAre
    <3> HIDE DEF o
    <3>4. Nests(u, pair, o + (d - o))
      BY <1>2, <1>3, <3>1, <3>2, NestsConcat DEF u
    <3>5. o + (d - o) = d
      BY <3>1, <3>3
    <3>6. QED
      BY <3>4, <3>5
  <2>2. QED
    BY <1>1, <2>1 DEF Nested
<1>14. QED
  BY <1>4, <1>9, <1>12, <1>13 DEF Upright, u, t

-----------------------------------------------------------------------------
(* Brackets: every action keeps the invariant                              *)

\* The exceptions that the source alone decides.
Apart == HasArrayType \/ HasVariantFields

LEMMA ApartStays ==
  ASSUME UNCHANGED tokens
  PROVE  /\ Apart' = Apart
         /\ \A s, p : Upright(s, p) => Upright(s, p)'
<1>1. Apart' = Apart
  BY DEF Apart, HasArrayType, HasVariantFields, IsBehind, IsPathBehind
<1>2. ASSUME NEW s, NEW p, Upright(s, p) PROVE Upright(s, p)'
  BY <1>2 DEF Upright, Placed, Naming, InName, AfterName, Nested, IsBehind, IsPathBehind,
              Count
<1>3. QED
  BY <1>1, <1>2

LEMMA PeekHere ==
  ASSUME ParserInv
  PROVE  /\ position \in Nat /\ Peek = tokens[position + 1]
         /\ position + 1 \in DOMAIN tokens
<1>1. position \in 0 .. Len(tokens) - 1 /\ IsSource(tokens)
  BY DEF ParserInv, Reading
<1>2. DOMAIN tokens = 1 .. Len(tokens) /\ Len(tokens) \in Nat
  BY <1>1 DEF IsSource
<1>3. Peek = tokens[position + 1]
  BY InvIs
<1>4. position \in Nat /\ position + 1 \in 1 .. Len(tokens)
  BY <1>1, <1>2
<1>5. QED
  BY <1>2, <1>3, <1>4

LEMMA BalanceInit ==
  ASSUME Init
  PROVE  BalanceInv
<1>1. Sequential(<< >>) /\ Len(<< >>) = 0
  BY TuplesAre
<1>2. Placed(<< >>, 0) /\ Naming(<< >>, 0)
  BY <1>1 DEF Placed, Naming
<1>3. Nested(<< >>, 0)
  <2>1. ASSUME NEW pair \in Brackets
        PROVE  /\ \A n \in 0 .. 0 : Count(pair[2], n) <= Count(pair[1], n)
               /\ Nests(<< >>, pair, Count(pair[1], 0) - Count(pair[2], 0))
    <3>1. Count(pair[1], 0) = 0 /\ Count(pair[2], 0) = 0
      BY CountIs
    <3>2. Nests(<< >>, pair, 0)
      BY NestsNone
    <3>3. \A n \in 0 .. 0 : n = 0
      OBVIOUS
    <3>4. Count(pair[1], 0) - Count(pair[2], 0) = 0
      BY <3>1
    <3>5. QED
      BY <3>1, <3>2, <3>3, <3>4
  <2>2. QED
    BY <2>1 DEF Nested
<1>4. Upright(<< >>, 0)
  BY <1>1, <1>2, <1>3 DEF Upright
<1>5. pc = "next" /\ goals = << >> /\ position = 0
  BY DEF Init
<1>6. QED
  BY <1>4, <1>5 DEF BalanceInv, Straight

LEMMA EmptyUpright ==
  \A p : Placed(<< >>, p) /\ Naming(<< >>, p)
<1>1. 1 .. 0 = {} /\ Len(<< >>) = 0
  OBVIOUS
<1>2. 1 .. Len(<< >>) = {}
  BY <1>1, Zenon
<1>3. QED
  BY <1>2, Zenon DEF Placed, Naming

\* No goal is left: parse_all() is between two statements.
LEMMA UprightSkips ==
  ASSUME NEW p, NEW q, Reads(p, q), Upright(<< >>, p),
         tokens[p + 1] \notin {"(", ")", "{", "}", "[", "]"}
  PROVE  Upright(<< >>, q)
<1>1. Sequential(<< >>) /\ Len(<< >>) = 0
  BY TuplesAre
<1>2. Placed(<< >>, q) /\ Naming(<< >>, q)
  BY EmptyUpright
<1>3. Nested(<< >>, q)
  <2>1. ASSUME NEW pair \in Brackets, NEW d, Nests(<< >>, pair, d)
        PROVE  LET e == d + (IF tokens[p + 1] = pair[1] THEN 1 ELSE 0)
                          - (IF tokens[p + 1] = pair[2] THEN 1 ELSE 0)
               IN  e \in Nat /\ Nests(<< >>, pair, e)
    <3> DEFINE e == d + (IF tokens[p + 1] = pair[1] THEN 1 ELSE 0)
                      - (IF tokens[p + 1] = pair[2] THEN 1 ELSE 0)
    <3>1. tokens[p + 1] # pair[1] /\ tokens[p + 1] # pair[2]
      BY BracketsAre
    <3>2. d = 0
      BY <2>1, NestsNone
    <3>3. e = 0
      BY ONLY <3>1, <3>2
    <3> HIDE DEF e
    <3>4. e \in Nat /\ Nests(<< >>, pair, e)
      BY <3>3, NestsNone
    <3>5. QED
      BY <3>4 DEF e
  <2>2. QED
    BY <2>1, NestedReads DEF Upright
<1>4. QED
  BY <1>1, <1>2, <1>3 DEF Upright

LEMMA UprightStarts ==
  ASSUME NEW p, Upright(<< >>, p)
  PROVE  Upright(<<statement>>, p)
<1> DEFINE s == <<statement>>
<1>1. Calm(statement) /\ Quiet(statement)
  BY ConstantsCalm DEF Calm
<1>2. Sequential(s) /\ Len(s) = 1
  BY TuplesAre
<1>3. s[1] = statement
  OBVIOUS
<1> HIDE DEF s
<1>4. \A i \in 1 .. Len(s) : s[i] = statement
  BY <1>2, <1>3
<1>5. Seats(s, statement)
  BY <1>1, <1>4, MildSeats DEF Calm
<1>6. Suits(s, statement)
  BY <1>1, <1>2, <1>4, <1>5, QuietSuits
<1>7. Placed(s, p) /\ Naming(s, p)
  BY <1>1, <1>4 DEF Placed, Naming, Calm, Mild
<1>8. Nested(s, p)
  <2>1. ASSUME NEW pair \in Brackets, NEW d, Nests(<< >>, pair, d) PROVE Nests(s, pair, d)
    <3>1. d = 0 /\ Owes(statement, pair) = 0
      BY <1>1, <2>1, NestsNone DEF Quiet
    <3>2. QED
      BY <1>6, <3>1 DEF Suits
  <2>2. QED
    BY <2>1 DEF Nested, Upright
<1>9. \A i \in 1 .. Len(s) : Usual(s[i])
  BY <1>1, <1>4 DEF Calm, Mild
<1>10. QED
  BY <1>2, <1>7, <1>8, <1>9 DEF Upright, s

\* The token that Peek shows is read, with the white space behind it or alone.
LEMMA StreamReads ==
  ASSUME ParserInv, Peek # "eof"
  PROVE  Reads(position, NextNonWhitespace) /\ Reads(position, position + 1)
<1> DEFINE n == Len(tokens) - 1
           T == {q \in Nat : tokens[q + 1] \notin {"newline", "whitespace"}}
           r == NextNonWhitespace
<1>1. n \in Nat /\ position \in Nat /\ position + 1 <= n /\ tokens[n + 1] = "eof"
  <2>1. IsSource(tokens) /\ position \in 0 .. Len(tokens) - 1
    BY DEF ParserInv, Reading
  <2>2. QED
    BY <2>1, PeekIs DEF IsSource
<1>2. n \in T
  BY <1>1
<1>3. PICK q \in position + 1 .. n : q \in T /\ \A k \in position + 1 .. q - 1 : k \notin T
  BY <1>1, <1>2, First
<1>4. \A k \in position + 1 .. q - 1 : tokens[k + 1] \in {"newline", "whitespace"}
  BY <1>1, <1>3
<1>5. /\ r \in position + 1 .. n
      /\ \A k \in position + 1 .. r - 1 : tokens[k + 1] \in {"newline", "whitespace"}
  BY <1>3, <1>4 DEF NextNonWhitespace
<1> HIDE DEF r, n
<1>6. ASSUME NEW k \in position + 2 .. r PROVE tokens[k] \in {"newline", "whitespace"}
  <2>1. k - 1 \in position + 1 .. r - 1 /\ (k - 1) + 1 = k
    BY <1>1, <1>5
  <2>2. QED
    BY <1>5, <2>1
<1>7. r \in Nat /\ position < r
  BY <1>1, <1>5
<1>8. Reads(position, r)
  BY <1>1, <1>6, <1>7 DEF Reads
<1>9. Reads(position, position + 1)
  BY <1>1 DEF Reads
<1>10. QED
  BY <1>8, <1>9 DEF r

LEMMA GoalsAre ==
  ASSUME ParserInv, pc = "statement"
  PROVE  Sequential(goals)
BY GoalIs DEF Descends

\* Between two statements no bracket is open.
LEMMA BalanceBetween ==
  ASSUME ParserInv, Straight,
         ParseAllReturns \/ SkipToken \/ ParseNext \/ StatementParsed
  PROVE  Straight'
<1>1. position \in Nat /\ Peek = tokens[position + 1]
  BY PeekHere
<1>2. Upright(goals, position)
  BY DEF Straight
<1>3. UNCHANGED tokens
  BY DEF ParseAllReturns, SkipToken, ParseNext, StatementParsed
<1>4. goals' = << >> /\ UNCHANGED position => Peek' = Peek
  BY <1>3 DEF Peek, PeekAt
<1>5. CASE ParseAllReturns \/ StatementParsed
  <2>1. Upright(goals, position)'
    BY <1>2, <1>3, <1>5, ApartStays DEF ParseAllReturns, StatementParsed
  <2>2. QED
    BY <1>4, <1>5, <2>1 DEF Straight, ParseAllReturns, StatementParsed
<1>6. CASE SkipToken
  <2>1. /\ goals = << >> /\ goals' = << >> /\ position' = position + 1 /\ pc' = "next"
        /\ Peek \in {"comment", ";"}
    BY <1>6 DEF Straight, SkipToken
  <2>2. Reads(position, position + 1)
    BY <2>1, StreamReads
  <2>3. Upright(<< >>, position + 1)
    BY <1>1, <1>2, <2>1, <2>2, UprightSkips
  <2>4. Upright(goals, position)'
    BY <1>3, <2>1, <2>3, ApartStays
  <2>5. QED
    BY <2>1, <2>4 DEF Straight
<1>7. CASE ParseNext
  <2>1. goals = << >> /\ goals' = <<statement>> /\ position' = position /\ pc' = "statement"
    BY <1>7 DEF Straight, ParseNext
  <2>2. Upright(<<statement>>, position)
    BY <1>2, <2>1, UprightStarts
  <2>3. Upright(goals, position)'
    BY <1>3, <2>1, <2>2, ApartStays
  <2>4. QED
    BY <2>1, <2>3 DEF Straight
<1>8. QED
  BY <1>5, <1>6, <1>7

LEMMA BalanceConsuming ==
  ASSUME ParserInv, Straight, Consuming
  PROVE  Straight'
<1>1. position \in Nat /\ Peek = tokens[position + 1] /\ Upright(goals, position)
  BY PeekHere DEF Straight
<1>2. /\ pc = "statement" /\ pc' = pc /\ UNCHANGED tokens /\ goals' = Tail(goals)
      /\ goals # << >> /\ goals[1][1] \in {"consume", "consume_only"} /\ goals[1][2] = Peek
  BY DEF Consuming, Goal, argument
<1>3. Peek # "eof"
  BY ConsumesNoEof DEF Consuming
<1>4. Reads(position, position')
  BY <1>3, StreamReads DEF Consuming
<1>5. Upright(goals', position')
  BY <1>1, <1>2, <1>4, UprightConsumes
<1>6. Upright(goals, position)'
  BY <1>2, <1>5, ApartStays
<1>7. QED
  BY <1>2, <1>6 DEF Straight

LEMMA BalanceMaking ==
  ASSUME ParserInv, Straight, AllocNode \/ AllocPayload \/ StoreRange
  PROVE  Straight'
<1>1. Upright(goals, position)
  BY DEF Straight
<1>2. /\ pc = "statement" /\ pc' = pc /\ UNCHANGED <<tokens, position>>
      /\ goals' = Tail(goals) /\ goals # << >> /\ goals[1][1] \in {"node", "payload", "range"}
  BY DEF AllocNode, AllocPayload, StoreRange, Goal
<1>3. Upright(goals', position')
  BY <1>1, <1>2, UprightMakes
<1>4. Upright(goals, position)'
  BY <1>2, <1>3, ApartStays
<1>5. QED
  BY <1>2, <1>4 DEF Straight

\* What a procedure is replaced by is a finite sequence of goals.
LEMMA BodySequential ==
  ASSUME ParserInv, pc = "statement", goals # << >>, goals[1][1] \notin Elementary
  PROVE  Sequential(Steps(goals[1], Peek, Ahead))
<1> DEFINE b == Levels(made, nodes)
           p == position - FloorOf(errors)
           g == goals[1]
<1>1. Descends(goals, b, p, Peek) /\ p \in Nat /\ b \in Stacks /\ Peek \in TokenKind
  BY GoalIs, InvIs
<1> HIDE DEF b, p
<1>2. PICK d \in Stacks, r \in Nat : Does(g, b, p, d, r)
  BY <1>1, DoesFirst
<1>3. Ready(g, b, Peek)
  BY <1>1 DEF Descends
<1>4. g[1] \notin Elementary
  OBVIOUS
<1> HIDE DEF g
<1>5. Runs(Steps(g, Peek, Ahead), b, p, d, r)
  BY <1>1, <1>2, <1>3, <1>4, StepsRun
<1>6. QED
  BY <1>5, RunsAre DEF g

\* What is called behind what a type or a variant may stand behind.
LEMMA CallsSuit ==
  ASSUME ParserInv, Straight, ~ Apart, pc = "statement", goals # << >>,
         goals[1][1] \notin Elementary
  PROVE  Ends(Steps(goals[1], Peek, Ahead), goals[1], Peek)
<1> DEFINE g == goals[1]
<1>1. /\ position \in Nat /\ Peek = tokens[position + 1]
      /\ position + 1 \in DOMAIN tokens
  BY PeekHere
<1>2. /\ Sequential(goals) /\ \A i \in 1 .. Len(goals) : Usual(goals[i])
      /\ Placed(goals, position) /\ Naming(goals, position)
  BY DEF Straight, Upright
<1>3. 1 \in 1 .. Len(goals)
  BY <1>2, TailIs
<1>4. Usual(g) /\ g[1] \notin Elementary
  BY <1>2, <1>3
<1>5. PICK c, b : Changes(g, b, c)
  <2> DEFINE b == Levels(made, nodes)
             p == position - FloorOf(errors)
  <2>1. Descends(goals, b, p, Peek) /\ p \in Nat /\ b \in Stacks
    BY GoalIs
  <2> HIDE DEF b, p
  <2>2. PICK d \in Stacks, r \in Nat : Does(g, b, p, d, r)
    BY <2>1, DoesFirst
  <2> HIDE DEF g
  <2>3. Changes(g, b, d)
    BY <1>4, <2>2 DEF Does, Elementary, g
  <2>4. QED
    BY <2>3
<1>6. ~ (g[1] = "type" /\ Peek = "[")
  <2> SUFFICES ASSUME g[1] = "type", Peek = "[" PROVE Apart
    OBVIOUS
  <2>1. Before(goals[1]) = TypeFront /\ TypeFront # {}
    BY DEF Before, Of, TypeFront
  <2>2. IsBehind(TypeFront, position + 1)
    BY <1>2, <1>3, <2>1 DEF Placed
  <2>3. QED
    BY <1>1, <2>2 DEF Apart, HasArrayType, TypeFront
<1>7. ~ (g[1] = "variant_kind" /\ Peek = "{")
  <2> SUFFICES ASSUME g[1] = "variant_kind", Peek = "{" PROVE Apart
    OBVIOUS
  <2>1. AfterName(position) \/ tokens[position + 1] = "eof"
    <3>1. Consume("::")[1] = "consume" /\ Consume("identifier")[1] = "consume"
      BY DEF Consume
    <3>2. QED
      BY <1>2, <1>3, <3>1 DEF Naming
  <2>2. AfterName(position)
    BY <1>1, <2>1
  <2>3. IsBehind({"identifier"}, position + 1) /\ IsPathBehind({"{", ","}, position + 1)
    BY <2>2 DEF AfterName, InName, VariantFront
  <2>4. QED
    BY <1>1, <2>3 DEF Apart, HasVariantFields
<1> HIDE DEF g
<1>8. Ends(Steps(g, Peek, Ahead), g, Peek)
  BY <1>4, <1>5, <1>6, <1>7, CallEnds
<1>9. QED
  BY <1>8 DEF g

LEMMA BalanceCall ==
  ASSUME ParserInv, Straight, ~ Apart, Call
  PROVE  BalanceInv'
<1> DEFINE x == Steps(goals[1], Peek, Ahead)
           t == Tail(goals)
<1>1. /\ pc = "statement" /\ goals # << >> /\ goals[1][1] \notin Elementary
      /\ goals' = x \o t /\ pc' \in {"overflow", "statement"}
      /\ UNCHANGED <<tokens, position>>
  BY DEF Call
<1>2. Sequential(goals) /\ Sequential(t) /\ Upright(goals, position)
  BY <1>1, TailIs DEF Straight, Upright
<1>3. Ends(x, goals[1], Peek)
  BY <1>1, CallsSuit
<1>4. Peek' = Peek /\ position \in Nat /\ Peek = tokens[position + 1]
  BY <1>1, PeekHere DEF Peek, PeekAt
<1>5. CASE pc' = "overflow"
  BY <1>5 DEF BalanceInv
<1>6. CASE pc' = "statement" /\ Suits(x, goals[1])
  <2>1. Upright(x \o t, position)
    BY <1>1, <1>2, <1>4, <1>6, UprightCalls
  <2>2. Upright(goals, position)'
    BY <1>1, <2>1, ApartStays
  <2>3. QED
    BY <1>6, <2>2 DEF BalanceInv, Straight
<1>7. CASE pc' = "statement" /\ Strays(x, Peek)
  <2>1. Sequential(x)
    BY <1>1, BodySequential
  <2>2. /\ Len(x) \in Nat /\ (x = << >> <=> Len(x) = 0) /\ Len(t) \in Nat
        /\ Len(x \o t) = Len(x) + Len(t)
        /\ \A i \in 1 .. Len(x) + Len(t) : (x \o t)[i] = IF i <= Len(x) THEN x[i] ELSE t[i - Len(x)]
    BY <1>2, <2>1, SequencesAre
  <2> HIDE DEF x, t
  <2>3. \A i \in 1 .. Len(x) : i \in 1 .. Len(goals') /\ goals'[i] = x[i]
    BY <1>1, <2>2
  <2>4. CASE \E i \in 1 .. Len(x) : Marked(x[i])
    <3>1. \E i \in 1 .. Len(goals') : Marked(goals'[i])
      BY <2>3, <2>4
    <3>2. Astray'
      BY <1>7, <3>1 DEF Astray, Marked
    <3>3. QED
      BY <3>2 DEF BalanceInv
  <2>5. CASE x # << >> /\ x[1][1] \in {"consume", "consume_only"} /\ x[1][2] # Peek
    <3>1. 1 \in 1 .. Len(x) /\ goals'[1] = x[1]
      BY <2>2, <2>3, <2>5
    <3>2. goals' # << >>
      BY <1>2, <1>1, <2>1, <2>5, SequencesAre
    <3>3. Astray'
      BY <1>4, <1>7, <2>5, <3>1, <3>2 DEF Astray
    <3>4. QED
      BY <3>3 DEF BalanceInv
  <2>6. QED
    BY <1>7, <2>4, <2>5 DEF Strays
<1>8. QED
  BY <1>1, <1>3, <1>5, <1>6, <1>7 DEF Ends

\* The procedures that are marked leave a mark.
LEMMA MarkedSteps ==
  ASSUME NEW look, NEW ahead, NEW g, Marked(g), g[1] \notin Elementary
  PROVE  \E j \in 1 .. Len(Steps(g, look, ahead)) : Marked(Steps(g, look, ahead)[j])
<1> DEFINE n == g[2]
           x == Steps(g, look, ahead)
<1>1. g[1] \in {"prefix", "apply_prefix"} /\ n \in Nat \ {0}
  BY DEF Marked, Elementary
<1>2. CASE g[1] = "prefix"
  <2>1. x = Prefix(look, n)
    BY <1>2 DEF Steps
  <2> HIDE DEF n, x
  <2>2. CASE look \in UnaryOperators
    <3>1. x = <<Consume(look), <<"prefix", n + 1>> >>
      BY <2>1, <2>2 DEF Prefix
    <3>2. 2 \in 1 .. Len(x) /\ x[2][1] = "prefix" /\ x[2][2] = n + 1
      BY <3>1
    <3>3. n + 1 \in Nat \ {0}
      BY <1>1
    <3>4. Marked(x[2])
      BY <3>2, <3>3 DEF Marked
    <3>5. QED
      BY <3>2, <3>4 DEF x
  <2>3. CASE look \notin UnaryOperators
    <3>1. x = << <<"primary">>, <<"rewind", n>>, <<"apply_prefix", n>>,
                <<"postfix_operators">> >>
      BY <1>1, <2>1, <2>3 DEF Prefix
    <3>2. 3 \in 1 .. Len(x) /\ x[3][1] = "apply_prefix" /\ x[3][2] = n
      BY <3>1
    <3>3. Marked(x[3])
      BY <1>1, <3>2 DEF Marked
    <3>4. QED
      BY <3>2, <3>3 DEF x
  <2>4. QED
    BY <2>2, <2>3
<1>3. CASE g[1] = "apply_prefix"
  <2>1. x = ApplyPrefix(ahead, n)
    BY <1>3 DEF Steps
  <2> HIDE DEF n, x
  <2>2. n \in Nat /\ 1 \in 1 .. n
    BY <1>1
  <2> DEFINE kind == IF ahead[n + 1 - 1] \in UnaryOperators THEN "prefix" ELSE "unknown"
  <2>3. Len(x) = n /\ x[1] = Node(kind, 1)
    BY <2>1, <2>2 DEF ApplyPrefix
  <2>4. kind \in {"prefix", "unknown"}
    OBVIOUS
  <2> HIDE DEF kind
  <2>5. Marked(x[1])
    BY <2>3, <2>4 DEF Marked, Node
  <2>6. QED
    BY <2>2, <2>3, <2>5 DEF x
<1>4. QED
  BY <1>1, <1>2, <1>3

\* Alone a marked node makes a prefix operator.
LEMMA AstrayMakes ==
  ASSUME ParserInv, pc = "statement", AllocNode \/ AllocPayload \/ StoreRange
  PROVE  /\ goals # << >> /\ goals' = Tail(goals) /\ pc' = "statement"
         /\ errors' = errors
         /\ HasPrefixOperator => HasPrefixOperator'
         /\ Marked(goals[1]) => HasPrefixOperator'
<1>1. /\ goals # << >> /\ goals' = Tail(goals) /\ pc' = "statement" /\ errors' = errors
      /\ goals[1][1] \in {"node", "payload", "range"}
      /\ goals[1][1] # "node" => nodes' = nodes
  BY DEF AllocNode, AllocPayload, StoreRange, Goal
<1>2. CASE goals[1][1] = "node"
  <2> DEFINE kind == goals[1][2]
             t == [kind |-> kind, children |-> LastMade(goals[1][3])]
  <2>1. nodes' = Append(nodes, t) /\ t.kind = kind
    BY <1>2 DEF AllocNode, AllocPayload, StoreRange, Goal, argument
  <2>2. Sequential(nodes)
    BY DEF ParserInv, Growing, Forest
  <2> HIDE DEF t
  <2>3. /\ DOMAIN nodes' = 1 .. Len(nodes) + 1 /\ Len(nodes) \in Nat
        /\ DOMAIN nodes = 1 .. Len(nodes)
        /\ \A i \in 1 .. Len(nodes) : nodes'[i] = nodes[i]
        /\ nodes'[Len(nodes) + 1] = t
    <3>1. PICK S : nodes \in Seq(S)
      BY <2>2 DEF Sequential
    <3>2. nodes \in Seq(S \cup {t})
      BY <3>1
    <3>3. QED
      BY <2>1, <3>2
  <2>4. HasPrefixOperator => HasPrefixOperator'
    BY <2>3 DEF HasPrefixOperator
  <2>5. ASSUME Marked(goals[1]) PROVE HasPrefixOperator'
    <3>1. kind \in {"prefix", "unknown"}
      BY <1>2, <2>5 DEF Marked
    <3>2. Len(nodes) + 1 \in DOMAIN nodes' /\ nodes'[Len(nodes) + 1].kind \in {"prefix", "unknown"}
      BY <2>1, <2>3, <3>1
    <3>3. QED
      BY <3>2 DEF HasPrefixOperator
  <2>6. QED
    BY <1>1, <2>4, <2>5
<1>3. CASE goals[1][1] # "node"
  <2>1. ~ Marked(goals[1])
    BY <1>1, <1>3 DEF Marked
  <2>2. HasPrefixOperator => HasPrefixOperator'
    BY <1>1, <1>3 DEF HasPrefixOperator
  <2>3. QED
    BY <1>1, <2>1, <2>2
<1>4. QED
  BY <1>2, <1>3

\* What marks a statement stays in it, until it has done what it stands for.
LEMMA MarkStays ==
  ASSUME ParserInv, pc = "statement", NEW i \in 1 .. Len(goals), Marked(goals[i]),
         Sequential(goals), pc' = "statement",
         \/ goals # << >> /\ goals' = Tail(goals) /\ i # 1
         \/ Call
  PROVE  Astray'
<1> SUFFICES \E j \in 1 .. Len(goals') : Marked(goals'[j])
  BY DEF Astray, Marked
<1>1. goals # << >>
  BY SequencesAre
<1>2. /\ Len(goals) \in Nat \ {0} /\ Sequential(Tail(goals)) /\ Len(Tail(goals)) = Len(goals) - 1
      /\ \A j \in 1 .. Len(goals) - 1 : Tail(goals)[j] = goals[j + 1]
  BY <1>1, TailIs
<1>3. CASE goals' = Tail(goals) /\ i # 1
  <2>1. i - 1 \in 1 .. Len(goals') /\ i - 1 \in 1 .. Len(goals) - 1 /\ (i - 1) + 1 = i
    BY <1>2, <1>3
  <2>2. goals'[i - 1] = goals[i]
    BY <1>2, <1>3, <2>1
  <2>3. QED
    BY <2>1, <2>2
<1>4. CASE Call
  <2> DEFINE g == goals[1]
             x == Steps(goals[1], Peek, Ahead)
             t == Tail(goals)
  <2>1. goals' = x \o t /\ g[1] \notin Elementary /\ Sequential(x)
    BY <1>4, BodySequential DEF Call
  <2>2. /\ Len(x) \in Nat /\ Len(t) \in Nat /\ Len(goals') = Len(x) + Len(t)
        /\ \A j \in 1 .. Len(x) + Len(t) : goals'[j] = IF j <= Len(x) THEN x[j] ELSE t[j - Len(x)]
    BY <1>2, <2>1, SequencesAre
  <2> HIDE DEF x
  <2>3. CASE i # 1
    <3> DEFINE j == Len(x) + (i - 1)
    <3>1. i - 1 \in 1 .. Len(t) /\ (i - 1) + 1 = i /\ j \in 1 .. Len(goals') /\ ~ (j <= Len(x))
          /\ j - Len(x) = i - 1
      BY <1>2, <2>2, <2>3
    <3>2. t[i - 1] = goals[i]
      BY <1>2, <3>1
    <3>3. goals'[j] = goals[i]
      BY <2>2, <3>1, <3>2
    <3>4. QED
      BY <3>1, <3>3
  <2>4. CASE i = 1
    <3>1. \E j \in 1 .. Len(x) : Marked(x[j])
      BY <2>1, <2>4, MarkedSteps DEF x
    <3>2. PICK j \in 1 .. Len(x) : Marked(x[j])
      BY <3>1
    <3>3. j \in 1 .. Len(goals') /\ goals'[j] = x[j]
      BY <2>2
    <3>4. QED
      BY <3>2, <3>3
  <2>5. QED
    BY <2>3, <2>4
<1>5. QED
  BY <1>3, <1>4

LEMMA ReportStrays ==
  ASSUME ParserInv, Failing \/ ConsumeFails
  PROVE  errors' # << >>
<1>1. PICK id : errors' = Append(errors, [id |-> id, at |-> position])
  BY DEF Failing, ConsumeFails, Report
<1> DEFINE e == [id |-> id, at |-> position]
<1>2. PICK S : errors \in Seq(S)
  BY DEF ParserInv, Reported, InOrder, Sequential
<1> HIDE DEF e
<1>3. errors \in Seq(S \cup {e})
  BY <1>2
<1>4. Len(Append(errors, e)) = Len(errors) + 1 /\ Len(errors) \in Nat
  BY <1>3
<1>5. Append(errors, e) # << >>
  BY <1>4
<1>6. QED
  BY <1>1, <1>5 DEF e

LEMMA BalanceAstray ==
  ASSUME ParserInv, Astray, Next
  PROVE  BalanceInv'
<1>1. CASE Failing \/ ConsumeFails
  BY <1>1, ReportStrays DEF BalanceInv, Astray
<1>2. CASE SkipEof \/ (Call /\ pc' = "overflow")
  BY <1>2 DEF SkipEof, BalanceInv
<1>3. CASE AllocNode \/ AllocPayload \/ StoreRange
  <2>1. pc = "statement"
    BY <1>3 DEF AllocNode, AllocPayload, StoreRange, Goal
  <2>2. /\ goals # << >> /\ goals' = Tail(goals) /\ pc' = "statement" /\ errors' = errors
        /\ HasPrefixOperator => HasPrefixOperator'
        /\ Marked(goals[1]) => HasPrefixOperator'
    BY <1>3, <2>1, AstrayMakes
  <2>3. ASSUME NEW i \in 1 .. Len(goals), Marked(goals[i]) PROVE Astray'
    <3>1. CASE i = 1
      BY <2>2, <2>3, <3>1 DEF Astray
    <3>2. CASE i # 1
      BY <2>1, <2>2, <2>3, <3>2, GoalsAre, MarkStays
    <3>3. QED
      BY <3>1, <3>2
  <2>4. goals[1][1] \notin {"consume", "consume_only"}
    BY <1>3 DEF AllocNode, AllocPayload, StoreRange, Goal
  <2>5. Astray'
    <3>1. \/ errors # << >> \/ HasPrefixOperator
          \/ \E i \in 1 .. Len(goals) : Marked(goals[i])
      BY <2>4 DEF Astray
    <3>2. CASE errors # << >> \/ HasPrefixOperator
      BY <2>2, <3>2 DEF Astray
    <3>3. QED
      BY <2>3, <3>1, <3>2
  <2>6. QED
    BY <2>5 DEF BalanceInv
<1>4. CASE \/ ParseAllReturns \/ SkipToken \/ ParseNext \/ StatementParsed \/ Synchronize
           \/ Consuming \/ Skip \/ Rewind \/ (Call /\ pc' # "overflow")
  <2>1. errors' = errors /\ nodes' = nodes
    BY <1>4 DEF ParseAllReturns, SkipToken, ParseNext, StatementParsed, Synchronize, Consuming,
                Skip, Rewind, Call, tree
  <2>2. CASE errors # << >> \/ HasPrefixOperator
    BY <2>1, <2>2 DEF BalanceInv, Astray, HasPrefixOperator
  <2>3. CASE pc = "statement"
    <3>1. Sequential(goals)
      BY <2>3, GoalsAre
    <3>2. ASSUME NEW i \in 1 .. Len(goals) PROVE goals # << >>
      BY <3>1, SequencesAre
    <3>3. ASSUME goals # << >>
          PROVE  Consuming \/ Skip \/ Rewind \/ (Call /\ pc' # "overflow")
      BY <1>4, <2>3, <3>3 DEF ParseAllReturns, SkipToken, ParseNext, StatementParsed, Synchronize
    <3>4. ASSUME NEW i \in 1 .. Len(goals), Marked(goals[i]) PROVE Astray'
      <4>1. CASE Consuming \/ Skip \/ Rewind
        <5>1. /\ goals # << >> /\ goals' = Tail(goals) /\ pc' = "statement"
              /\ goals[1][1] \in {"consume", "consume_only", "skip", "rewind"}
          BY <4>1 DEF Consuming, Skip, Rewind, Goal
        <5>2. i # 1
          BY <3>4, <5>1 DEF Marked
        <5>3. QED
          BY <2>3, <3>1, <3>4, <5>1, <5>2, MarkStays
      <4>2. CASE Call /\ pc' # "overflow"
        <5>1. pc' = "statement"
          BY <4>2 DEF Call
        <5>2. QED
          BY <2>3, <3>1, <3>4, <4>2, <5>1, MarkStays
      <4>3. QED
        BY <3>2, <3>3, <4>1, <4>2
    <3>5. ASSUME goals # << >>, goals[1][1] \in {"consume", "consume_only"},
                 goals[1][2] # Peek
          PROVE  FALSE
      BY <3>3, <3>5 DEF Consuming, Skip, Rewind, Call, Goal, argument, Elementary
    <3>6. CASE \E i \in 1 .. Len(goals) : Marked(goals[i])
      BY <3>4, <3>6 DEF BalanceInv
    <3>7. QED
      BY <2>2, <3>5, <3>6 DEF Astray
  <2>4. QED
    BY <2>2, <2>3 DEF Astray
<1>5. QED
  BY <1>1, <1>2, <1>3, <1>4 DEF Next

LEMMA BalanceNext ==
  ASSUME ParserInv, BalanceInv, [Next]_vars
  PROVE  BalanceInv'
<1>1. CASE UNCHANGED vars
  <2>1. UNCHANGED <<tokens, position, pc, goals, nodes, errors>>
    BY <1>1 DEF vars
  <2>2. Peek' = Peek
    BY <2>1 DEF Peek, PeekAt
  <2>3. Apart => Apart'
    BY <2>1, ApartStays
  <2>4. Astray => Astray'
    BY <2>1, <2>2 DEF Astray, HasPrefixOperator
  <2>5. Straight => Straight'
    <3>1. Upright(goals, position) => Upright(goals, position)'
      BY <2>1, ApartStays
    <3>2. QED
      BY <2>1, <2>2, <3>1 DEF Straight
  <2>6. QED
    BY <2>1, <2>3, <2>4, <2>5 DEF BalanceInv, Apart
<1>2. CASE Next
  <2>1. UNCHANGED tokens
    BY <1>2 DEF Next, ParseAllReturns, SkipToken, ParseNext, StatementParsed, Consuming, Skip,
                SkipEof, Rewind, AllocNode, AllocPayload, StoreRange, Failing, ConsumeFails,
                Report, Call, Synchronize
  <2>2. CASE Apart
    <3>1. Apart'
      BY <2>1, <2>2, ApartStays
    <3>2. QED
      BY <3>1 DEF BalanceInv, Apart
  <2>3. pc \notin {"overflow", "aborted"}
    BY <1>2 DEF Next, ParseAllReturns, SkipToken, ParseNext, StatementParsed, Consuming, Skip,
                SkipEof, Rewind, AllocNode, AllocPayload, StoreRange, Failing, ConsumeFails,
                Report, Call, Synchronize, Goal
  <2>4. CASE Astray
    BY <1>2, <2>4, BalanceAstray
  <2>5. CASE Straight /\ ~ Apart
    <3>1. CASE ParseAllReturns \/ SkipToken \/ ParseNext \/ StatementParsed
      BY <2>5, <3>1, BalanceBetween DEF BalanceInv
    <3>2. CASE Consuming
      BY <2>5, <3>2, BalanceConsuming DEF BalanceInv
    <3>3. CASE AllocNode \/ AllocPayload \/ StoreRange
      BY <2>5, <3>3, BalanceMaking DEF BalanceInv
    <3>4. CASE Failing \/ ConsumeFails
      BY <3>4, ReportStrays DEF BalanceInv, Astray
    <3>5. CASE Call
      BY <2>5, <3>5, BalanceCall
    <3>6. CASE Synchronize
      BY <2>5, <3>6 DEF Straight, Synchronize
    <3>7. CASE Skip \/ SkipEof \/ Rewind
      <4>1. goals # << >> /\ goals[1][1] \in {"skip", "rewind"}
        BY <3>7 DEF Skip, SkipEof, Rewind, Goal
      <4>2. 1 \in 1 .. Len(goals)
        BY <2>5, <4>1, TailIs DEF Straight, Upright
      <4>3. Usual(goals[1])
        BY <2>5, <4>2 DEF Straight, Upright
      <4>4. QED
        BY <4>1, <4>3 DEF Usual
    <3>8. QED
      BY <1>2, <3>1, <3>2, <3>3, <3>4, <3>5, <3>6, <3>7 DEF Next
  <2>6. QED
    BY <2>2, <2>3, <2>4, <2>5 DEF BalanceInv, Apart
<1>3. QED
  BY <1>1, <1>2

\* When the source is accepted no goal is left, and so no bracket is open.
LEMMA BalanceMeans ==
  ASSUME ParserInv, BalanceInv
  PROVE  AcceptedIsBalanced
<1> SUFFICES ASSUME Accepted, ~ HasPrefixOperator, ~ HasArrayType, ~ HasVariantFields,
                    NEW pair \in Brackets
             PROVE  /\ Count(pair[1], Len(tokens)) = Count(pair[2], Len(tokens))
                    /\ \A n \in DOMAIN tokens : Count(pair[2], n) <= Count(pair[1], n)
  BY DEF AcceptedIsBalanced
<1>1. Straight /\ goals = << >> /\ Peek = "eof"
  BY DEF BalanceInv, Astray, Straight, Accepted
<1>2. /\ position \in Nat /\ position = Len(tokens) - 1 /\ Len(tokens) \in Nat
      /\ DOMAIN tokens = 1 .. Len(tokens) /\ tokens[Len(tokens)] = "eof"
  <2>1. IsSource(tokens)
    BY DEF ParserInv, Reading
  <2>2. position \in Nat /\ position = Len(tokens) - 1
    BY <1>1, InvIs
  <2>3. QED
    BY <2>1, <2>2 DEF IsSource
<1> DEFINE o == pair[1]
           c == pair[2]
           p == position
<1>3. /\ \A n \in 0 .. p : Count(c, n) <= Count(o, n)
      /\ Nests(<< >>, pair, Count(o, p) - Count(c, p))
  BY <1>1 DEF Straight, Upright, Nested
<1>4. Count(o, p) \in Nat /\ Count(c, p) \in Nat /\ Count(o, p) - Count(c, p) = 0
  BY <1>2, <1>3, CountIs, NestsNone
<1>5. Count(o, p) = Count(c, p)
  BY <1>4
<1>6. p + 1 = Len(tokens)
  BY <1>2
<1>7. Count(o, p + 1) = Count(o, p) /\ Count(c, p + 1) = Count(c, p)
  <2>1. tokens[p + 1] = "eof"
    BY <1>2, <1>6
  <2>2. o # "eof" /\ c # "eof"
    BY BracketsAre
  <2>3. QED
    BY <1>2, <1>4, <2>1, <2>2, CountNext
<1>8. Count(o, Len(tokens)) = Count(c, Len(tokens)) /\ Count(c, Len(tokens)) \in Nat
  BY <1>4, <1>5, <1>6, <1>7
<1>9. ASSUME NEW n \in DOMAIN tokens PROVE Count(c, n) <= Count(o, n)
  <2>1. n \in 0 .. p \/ n = Len(tokens)
    BY <1>2
  <2>2. QED
    BY <1>3, <1>8, <2>1
<1>10. QED
  BY <1>8, <1>9

-----------------------------------------------------------------------------
(* Theorem                                                                 *)

\* Whatever the source, if parse_all() accepts it, and builds no prefix
\* operator, and nothing in it may be read as an array type or as the fields of
\* a variant, then every bracket is closed that is opened, and opened first.
THEOREM BalancedCorrect == Spec => []AcceptedIsBalanced
<1>1. Init => BalanceInv
  BY BalanceInit
<1>2. ParserInv /\ BalanceInv /\ [Next]_vars => BalanceInv'
  BY BalanceNext
<1>3. ParserInv /\ BalanceInv => AcceptedIsBalanced
  BY BalanceMeans
<1>4. QED
  BY <1>1, <1>2, <1>3, Invariance, PTL DEF Spec
=============================================================================
