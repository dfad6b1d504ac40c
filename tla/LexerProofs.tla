---------------------------- MODULE LexerProofs -----------------------------
(***************************************************************************)
(* Proofs about Lexer for every set of sources, of any length, every mode  *)
(* and any number of resets.                                               *)
(***************************************************************************)
EXTENDS Lexer, FiniteSetTheorems, WellFoundedInduction, TLAPS

-----------------------------------------------------------------------------
(* Numbers and characters                                                  *)

\* A nonempty set of naturals has a least element.
LEMMA Least ==
  ASSUME NEW T, T \subseteq Nat, T # {}
  PROVE  \E x \in T : \A y \in T : x <= y
<1>1. PICK x \in T : \A y \in T : ~ (<<y, x>> \in OpToRel(<, Nat))
  BY NatLessThanWellFounded, WFMin, Zenon
<1>2. ASSUME NEW y \in T PROVE ~ (y < x)
  BY <1>1, <1>2 DEF OpToRel
<1>3. \A y \in T : x <= y
  BY <1>2
<1>4. QED
  BY <1>3

\* A nonempty set of naturals up to a bound has a greatest element.
LEMMA Greatest ==
  ASSUME NEW n \in Nat, NEW T, T \subseteq 0 .. n, T # {}
  PROVE  \E x \in T : \A y \in T : y <= x
<1> DEFINE U == {k \in Nat : \A y \in T : y <= k}
<1>1. U \subseteq Nat /\ n \in U
  OBVIOUS
<1>2. PICK x \in U : \A y \in U : x <= y
  BY <1>1, Least
<1>3. x \in T
  <2> SUFFICES ASSUME x \notin T PROVE FALSE
    OBVIOUS
  <2>1. PICK t \in T : t \in 0 .. n /\ t <= x
    OBVIOUS
  <2>2. x - 1 \in U
    <3>1. x \in Nat /\ x - 1 \in Nat
      BY <2>1
    <3>2. \A y \in T : y \in Nat /\ y <= x /\ y # x
      OBVIOUS
    <3>3. QED
      BY <3>1, <3>2
  <2>3. QED
    BY <1>2, <2>2
<1>4. QED
  BY <1>3

LEMMA Widened ==
  /\ "nul" \notin DOMAIN LowByte
  /\ \A S : S \subseteq Wide(S)
  /\ \A S : "nul" \notin S => "nul" \notin Wide(S)
<1>1. "nul" \notin DOMAIN LowByte
  BY DEF LowByte
<1>2. QED
  BY <1>1 DEF Wide

\* The end of the source, which reads as zero, ends every loop.
LEMMA NulEndsLoops ==
  /\ "nul" \notin XidContinue
  /\ "nul" \notin Blanks
  /\ "nul" \notin Wide(AsciiDigits) \cup Wide(AsciiLetters) \cup Wide(OctalDigits)
  /\ "nul" \notin Wide({"dq", "bs"})
  /\ "nul" \notin ValidEscapes
  /\ XidStart \subseteq XidContinue
<1>1. "nul" \notin AsciiDigits \cup AsciiLetters \cup OctalDigits \cup {"dq", "bs"}
  BY DEF AsciiDigits, AsciiLetters, OctalDigits
<1>2. QED
  BY <1>1, Widened DEF XidContinue, XidStart, AsciiDigits, AsciiLetters, Blanks,
     Whitespace, ValidEscapes, OctalDigits

LEMMA NulEndsOperators ==
  ASSUME NEW c \in DOMAIN PairTails
  PROVE  "nul" \notin PairTails[c]
BY DEF PairTails

LEMMA NulEndsPrefixes == "nul" \notin DOMAIN DigitsOf
BY DEF DigitsOf
-----------------------------------------------------------------------------
(* Where the loops of the lexer stop                                       *)

\* A loop of next() stops at the end of the source or in front of the first
\* code point outside S, and has passed code points in S only.
LEMMA AfterStops ==
  ASSUME src \in Seq(Chars), NEW S, NEW i \in 0 .. Len(src)
  PROVE  /\ After(S, i) \in i .. Len(src)
         /\ \A k \in i .. After(S, i) - 1 : src[k + 1] \in S
         /\ After(S, i) = Len(src) \/ src[After(S, i) + 1] \notin S
<1> DEFINE T == {j \in i .. Len(src) : j = Len(src) \/ src[j + 1] \notin S}
<1>1. Len(src) \in Nat /\ T \subseteq Nat /\ Len(src) \in T
  OBVIOUS
<1>2. PICK j \in T : \A k \in T : j <= k
  BY <1>1, Least
<1>3. \A k \in i .. j - 1 : src[k + 1] \in S
  <2> SUFFICES ASSUME NEW k \in i .. j - 1, src[k + 1] \notin S PROVE FALSE
    OBVIOUS
  <2>1. k \in T /\ k < j
    OBVIOUS
  <2>2. QED
    BY <1>2, <2>1
<1>4. j \in i .. Len(src) /\ (j = Len(src) \/ src[j + 1] \notin S)
  OBVIOUS
<1>5. QED
  BY <1>3, <1>4 DEF After

\* A loop that starts at a code point in S passes it.
LEMMA AfterPasses ==
  ASSUME src \in Seq(Chars), NEW S, NEW i \in 0 .. Len(src), ~ Eof(i),
         At(i) \in S
  PROVE  After(S, i) \in i + 1 .. Len(src)
<1>1. i < Len(src) /\ src[i + 1] \in S
  BY DEF Eof, At
<1>2. /\ After(S, i) \in i .. Len(src)
      /\ After(S, i) = Len(src) \/ src[After(S, i) + 1] \notin S
  BY AfterStops
<1>3. After(S, i) # i
  BY <1>1, <1>2
<1>4. QED
  BY <1>2, <1>3

\* A character other than the code point zero is found in the source only.
LEMMA AtInSource ==
  ASSUME src \in Seq(Chars), NEW k \in Nat, At(k) # "nul"
  PROVE  k < Len(src) /\ At(k) = src[k + 1]
BY DEF At

\* The loop over a block comment stops behind the first "*/", if there is one.
LEMMA BlockEndStops ==
  ASSUME src \in Seq(Chars), NEW q \in 0 .. Len(src)
  PROVE  /\ BlockEnd(q) \in q .. Len(src)
         /\ Closings(q) # {} =>
              /\ BlockEnd(q) \in q + 2 .. Len(src)
              /\ BlockEnd(q) \in Closings(q)
              /\ \A m \in Closings(q) : BlockEnd(q) <= m
         /\ Closings(q) = {} => BlockEnd(q) = Len(src)
<1>1. CASE Closings(q) = {}
  BY <1>1 DEF BlockEnd
<1>2. CASE Closings(q) # {}
  <2>1. Closings(q) \subseteq Nat /\ Closings(q) \subseteq q + 2 .. Len(src)
    BY DEF Closings
  <2>2. PICK k \in Closings(q) : \A m \in Closings(q) : k <= m
    BY <1>2, <2>1, Least
  <2>3. /\ BlockEnd(q) \in Closings(q)
        /\ \A m \in Closings(q) : BlockEnd(q) <= m
    BY <1>2, <2>2 DEF BlockEnd
  <2>4. QED
    BY <1>2, <2>1, <2>3
<1>3. QED
  BY <1>1, <1>2

-----------------------------------------------------------------------------
(* Lines and columns                                                       *)

\* Line l and column c are those of position p.
IsPlaceOf(p, l, c) ==
  /\ l = Cardinality(LineFeeds(0, p)) + 1
  /\ c \in 1 .. p + 1
  /\ c = p + 1 \/ src[p + 1 - c] = "nl"
  /\ LineFeeds(p + 1 - c, p) = {}

\* The line feeds up to q are those up to p and those between p and q.
LEMMA FeedsSplit ==
  ASSUME NEW p \in Nat, NEW q \in Nat, p <= q
  PROVE  /\ IsFiniteSet(LineFeeds(0, p)) /\ IsFiniteSet(LineFeeds(p, q))
         /\ Cardinality(LineFeeds(0, p)) \in Nat
         /\ Cardinality(LineFeeds(p, q)) \in Nat
         /\ Cardinality(LineFeeds(0, q)) =
              Cardinality(LineFeeds(0, p)) + Cardinality(LineFeeds(p, q))
         /\ LineFeeds(p, q) # {} => Cardinality(LineFeeds(p, q)) > 0
<1>1. IsFiniteSet(0 .. q)
  <2>1. 0 \in Int /\ q \in Int
    OBVIOUS
  <2>2. QED
    BY <2>1, FS_Interval, Zenon
<1>2. LineFeeds(0, p) \in SUBSET (0 .. q) /\ LineFeeds(p, q) \in SUBSET (0 .. q)
  BY DEF LineFeeds
<1>3. IsFiniteSet(LineFeeds(0, p)) /\ IsFiniteSet(LineFeeds(p, q))
  BY <1>1, <1>2, FS_Subset
<1>4. LineFeeds(0, p) \cap LineFeeds(p, q) = {}
  BY DEF LineFeeds
<1>5. LineFeeds(0, q) = LineFeeds(0, p) \cup LineFeeds(p, q)
  BY DEF LineFeeds
<1>6. /\ Cardinality(LineFeeds(0, p)) \in Nat
      /\ Cardinality(LineFeeds(p, q)) \in Nat
  BY <1>3, FS_CardinalityType
<1>7. Cardinality(LineFeeds(0, p) \cap LineFeeds(p, q)) = 0
  BY <1>4, FS_EmptySet
<1>8. Cardinality(LineFeeds(0, p) \cup LineFeeds(p, q)) =
        Cardinality(LineFeeds(0, p)) + Cardinality(LineFeeds(p, q))
          - Cardinality(LineFeeds(0, p) \cap LineFeeds(p, q))
  BY <1>3, FS_Union
<1>9. LineFeeds(p, q) # {} => Cardinality(LineFeeds(p, q)) # 0
  BY <1>3, FS_EmptySet
<1>10. Cardinality(LineFeeds(0, q)) =
         Cardinality(LineFeeds(0, p)) + Cardinality(LineFeeds(p, q))
  BY <1>5, <1>6, <1>7, <1>8
<1>11. QED
  BY <1>3, <1>6, <1>9, <1>10

\* next() keeps line and column those of the position, over any number of
\* line feeds, and whatever they were they stay natural numbers.
LEMMA AdvanceKeepsPlace ==
  ASSUME src \in Seq(Chars), position \in Nat, line \in Nat, column \in Nat,
         NEW q \in Nat, position <= q, Advance(q), UNCHANGED src
  PROVE  /\ position' = q
         /\ line' \in Nat /\ column' \in Nat
         /\ IsPlaceOf(position, line, column) => IsPlaceOf(position, line, column)'
<1> DEFINE feeds == LineFeeds(position, q)
<1>1. /\ position' = q
      /\ line' = line + Cardinality(feeds)
      /\ feeds = {} => column' = column + q - position
      /\ feeds # {} =>
           column' = q - (CHOOSE k \in feeds : \A m \in feeds : m <= k) + 1
  BY DEF Advance
<1>2. /\ Cardinality(feeds) \in Nat /\ Cardinality(LineFeeds(0, position)) \in Nat
      /\ Cardinality(LineFeeds(0, q)) =
           Cardinality(LineFeeds(0, position)) + Cardinality(feeds)
  BY FeedsSplit
<1>3. ASSUME feeds # {}
      PROVE  \E k \in feeds : (\A m \in feeds : m <= k) /\ column' = q - k + 1
  <2>1. feeds \subseteq 0 .. q
    BY DEF LineFeeds
  <2> HIDE DEF feeds
  <2>2. \E k \in feeds : \A m \in feeds : m <= k
    BY <1>3, <2>1, Greatest
  <2>3. QED
    BY <1>1, <1>3, <2>2
<1>4. line' \in Nat
  BY <1>1, <1>2
<1>5. column' \in Nat
  <2>1. CASE feeds = {}
    BY <1>1, <2>1
  <2>2. CASE feeds # {}
    BY <1>3, <2>2 DEF LineFeeds
  <2>3. QED
    BY <2>1, <2>2
<1>6. ASSUME IsPlaceOf(position, line, column)
      PROVE  /\ line' = Cardinality(LineFeeds(0, q)) + 1
             /\ column' \in 1 .. q + 1
             /\ column' = q + 1 \/ src[q + 1 - column'] = "nl"
             /\ LineFeeds(q + 1 - column', q) = {}
  <2>1. line' = Cardinality(LineFeeds(0, q)) + 1
    BY <1>1, <1>2, <1>6 DEF IsPlaceOf
  <2>2. CASE feeds = {}
    <3>1. column' = column + q - position
          /\ q + 1 - column' = position + 1 - column
      BY <1>1, <1>5, <2>2
    <3>2. LineFeeds(position + 1 - column, q) = {}
      BY <1>6, <2>2 DEF LineFeeds, IsPlaceOf
    <3>3. QED
      BY <1>6, <2>1, <3>1, <3>2 DEF IsPlaceOf
  <2>3. CASE feeds # {}
    <3>1. PICK k \in feeds : (\A m \in feeds : m <= k) /\ column' = q - k + 1
      BY <1>3, <2>3
    <3>2. k \in position + 1 .. q /\ src[k] = "nl" /\ q + 1 - column' = k
      BY <3>1 DEF LineFeeds
    <3>3. LineFeeds(k, q) = {}
      BY <3>1, <3>2 DEF LineFeeds
    <3>4. QED
      BY <2>1, <3>1, <3>2, <3>3
  <2>4. QED
    BY <2>2, <2>3
<1>7. QED
  BY <1>1, <1>4, <1>5, <1>6 DEF IsPlaceOf, LineFeeds

\* There is one place where a line starts.
LEMMA LineStartUnique ==
  ASSUME src \in Seq(Chars), NEW i \in 0 .. Len(src), NEW j \in 0 .. Len(src),
         j = 0 \/ src[j] = "nl", i < j
  PROVE  Cardinality(LineFeeds(0, i)) # Cardinality(LineFeeds(0, j))
<1>1. j \in LineFeeds(i, j)
  BY DEF LineFeeds
<1>2. /\ i \in Nat /\ j \in Nat /\ i <= j
  OBVIOUS
<1>3. /\ Cardinality(LineFeeds(0, i)) \in Nat
      /\ Cardinality(LineFeeds(i, j)) \in Nat
      /\ Cardinality(LineFeeds(0, j)) =
           Cardinality(LineFeeds(0, i)) + Cardinality(LineFeeds(i, j))
      /\ LineFeeds(i, j) # {} => Cardinality(LineFeeds(i, j)) > 0
  BY <1>2, FeedsSplit
<1>4. QED
  BY <1>1, <1>3

\* The position can be found from the line and the column.
LEMMA PlaceFound ==
  ASSUME src \in Seq(Chars), NEW p \in 0 .. Len(src), NEW l, NEW c,
         IsPlaceOf(p, l, c)
  PROVE  LineStart(l) + c - 1 = p
<1> DEFINE s == p + 1 - c
<1>1. s \in 0 .. p /\ (s = 0 \/ src[s] = "nl") /\ c \in Nat
  BY DEF IsPlaceOf
<1>2. Cardinality(LineFeeds(0, s)) = l - 1
  <2>1. Cardinality(LineFeeds(0, p)) = Cardinality(LineFeeds(0, s))
                                        + Cardinality(LineFeeds(s, p))
        /\ Cardinality(LineFeeds(0, s)) \in Nat
    <3>1. s \in Nat /\ p \in Nat /\ s <= p
      BY <1>1
    <3> HIDE DEF s
    <3>2. QED
      BY <3>1, FeedsSplit
  <2>2. Cardinality(LineFeeds(s, p)) = 0
    BY FS_EmptySet DEF IsPlaceOf
  <2>3. QED
    BY <2>1, <2>2 DEF IsPlaceOf
<1>3. ASSUME NEW i \in 0 .. Len(src), i = 0 \/ src[i] = "nl",
             Cardinality(LineFeeds(0, i)) = l - 1
      PROVE  i = s
  <2>1. i < s \/ i = s \/ s < i
    BY <1>1
  <2>2. s \in 0 .. Len(src)
    BY <1>1
  <2>3. QED
    BY <1>1, <1>2, <1>3, <2>1, <2>2, LineStartUnique
<1>4. LineStart(l) = s
  <2>1. s \in 0 .. Len(src)
    BY <1>1
  <2> HIDE DEF s
  <2>2. QED
    BY <1>1, <1>2, <1>3, <2>1 DEF LineStart
<1>5. p \in Int /\ c \in Int
  BY <1>1
<1>6. QED
  BY <1>4, <1>5
-----------------------------------------------------------------------------
(* The inductive invariant                                                 *)

Kinds ==
  {"eof", "keyword", "identifier", "number", "string", "character", "operator",
   "newline", "whitespace", "inlineComment", "documentationComment",
   "blockComment"}

Token == [kind: Kinds, line: Nat, column: Nat, length: Nat]

\* Where the text that no token covers yet starts.
Behind == IF pc = "string" THEN start.position ELSE position

\* The values of the variables; a string that is being read was opened before
\* the position, by a quotation mark.
Typed ==
  /\ src \in Sources /\ mode \in Modes[src] /\ strict \in BOOLEAN /\ resets \in Nat
  /\ start \in [position: Nat, line: Nat, column: Nat]
  /\ tokens \in Seq(Token)
  /\ TypeOK
  /\ pc = "string" => At(start.position) = "dq"

\* Line and column are those of the position, and so are those that are kept
\* while a string is read.
Places ==
  /\ IsPlaceOf(position, line, column)
  /\ pc = "string" => IsPlaceOf(start.position, start.line, start.column)

\* Every token is in the source, in front of the text still to be covered.
TokensPlaced ==
  \A i \in DOMAIN tokens :
    /\ From(tokens[i]) \in 0 .. Len(src)
    /\ To(tokens[i]) <= Behind
    /\ tokens[i].kind = "eof" <=> tokens[i].length = 0

InOrder ==
  \A i \in 1 .. Len(tokens) - 1 : To(tokens[i]) <= From(tokens[i + 1])

\* What was passed without a token is white space or comment.
GapsPassed ==
  \A k \in (0 .. Behind - 1) \ Covered : At(k) \in Blanks \/ InComment(k)

\* NoDocumentation(src), as the lexer looks for it.
Undocumented ==
  \A k \in 0 .. Len(src) :
    ~ (At(k) = "/" /\ At(k + 1) = "/" /\ At(k + 2) = "@")

\* In kFormat mode nothing else is passed without a token.
FormatCovers ==
  mode = "kFormat" /\ Undocumented => Covered = 0 .. Behind - 1

IInv ==
  /\ Typed
  /\ resets = 0 => Places /\ TokensPlaced /\ InOrder
  /\ resets = 0 /\ errors = {} => GapsPassed /\ FormatCovers
  /\ pc = "ready" => position = 0
  /\ pc = "done" /\ errors = {} => position = Len(src)
-----------------------------------------------------------------------------
(* What a step leaves alone                                                *)

\* Where a token is depends on the source alone.
LEMMA SourceKept ==
  ASSUME UNCHANGED src
  PROVE  /\ \A t : From(t)' = From(t) /\ To(t)' = To(t)
         /\ \A k : At(k)' = At(k)
         /\ \A i, k : InCommentFrom(i, k)' = InCommentFrom(i, k)
         /\ \A p, l, c : IsPlaceOf(p, l, c)' = IsPlaceOf(p, l, c)
         /\ Undocumented' = Undocumented
<1>1. \A t : From(t)' = From(t) /\ To(t)' = To(t)
  BY DEF From, To, LineStart, LineFeeds
<1>2. \A k : At(k)' = At(k)
  BY DEF At
<1>3. \A i, k : InCommentFrom(i, k)' = InCommentFrom(i, k)
  BY DEF InCommentFrom, At, Closings
<1>4. \A p, l, c : IsPlaceOf(p, l, c)' = IsPlaceOf(p, l, c)
  BY DEF IsPlaceOf, LineFeeds
<1>5. Undocumented' = Undocumented
  BY DEF Undocumented, At
<1>6. QED
  BY <1>1, <1>2, <1>3, <1>4, <1>5

\* As long as the source and the tokens stay, so does what they cover.
LEMMA CoveredKept ==
  ASSUME UNCHANGED <<src, tokens>>
  PROVE  /\ Covered' = Covered
         /\ \A k : InComment(k)' = InComment(k)
<1>1. Covered' = Covered
  BY SourceKept DEF Covered
<1>2. QED
  BY <1>1, SourceKept DEF InComment

\* A token that is appended covers its own text in addition.
LEMMA CoveredAppend ==
  ASSUME UNCHANGED src, tokens \in Seq(Token), NEW t \in Token,
         tokens' = Append(tokens, t)
  PROVE  Covered' = Covered \cup (From(t) .. To(t) - 1)
<1>1. /\ Len(tokens') = Len(tokens) + 1 /\ Len(tokens) \in Nat
      /\ DOMAIN tokens' = 1 .. Len(tokens) + 1 /\ DOMAIN tokens = 1 .. Len(tokens)
      /\ tokens'[Len(tokens) + 1] = t
      /\ \A i \in 1 .. Len(tokens) : tokens'[i] = tokens[i]
  OBVIOUS
<1>2. Covered' = UNION {From(tokens'[i]) .. To(tokens'[i]) - 1 : i \in DOMAIN tokens'}
  <2>1. \A u : From(u)' = From(u) /\ To(u)' = To(u)
    BY SourceKept
  <2>2. QED
    BY <2>1 DEF Covered
<1>3. ASSUME NEW k \in Covered'
      PROVE  k \in Covered \/ k \in From(t) .. To(t) - 1
  <2>1. PICK i \in DOMAIN tokens' : k \in From(tokens'[i]) .. To(tokens'[i]) - 1
    BY <1>2, <1>3
  <2>2. CASE i = Len(tokens) + 1
    BY <1>1, <2>1, <2>2
  <2>3. CASE i \in 1 .. Len(tokens)
    <3>1. tokens'[i] = tokens[i] /\ i \in DOMAIN tokens
      BY <1>1, <2>3
    <3>2. QED
      BY <2>1, <3>1 DEF Covered
  <2>4. QED
    BY <1>1, <2>1, <2>2, <2>3
<1>4. ASSUME NEW k \in Covered
      PROVE  k \in Covered'
  <2>1. PICK i \in DOMAIN tokens : k \in From(tokens[i]) .. To(tokens[i]) - 1
    BY <1>4 DEF Covered
  <2>2. tokens'[i] = tokens[i] /\ i \in DOMAIN tokens'
    BY <1>1
  <2>3. QED
    BY <1>2, <2>1, <2>2
<1>5. From(t) .. To(t) - 1 \subseteq Covered'
  <2>1. Len(tokens) + 1 \in DOMAIN tokens' /\ tokens'[Len(tokens) + 1] = t
    BY <1>1
  <2>2. QED
    BY <1>2, <2>1
<1>6. QED
  BY <1>3, <1>4, <1>5

-----------------------------------------------------------------------------
(* The four ways a step can end                                            *)

\* Reading on without a token keeps the invariant, if outside a string only
\* white space and comment is passed, and in kFormat mode nothing at all.
LEMMA SkipStep ==
  ASSUME IInv, pc \in {"trivia", "string"}, NEW q \in position .. Len(src),
         Advance(q),
         UNCHANGED <<input, status, pc, start, tokens, errors, resets>>,
         pc = "trivia" =>
           /\ \A k \in position .. q - 1 :
                At(k) \in Blanks \/ InCommentFrom(position, k)
           /\ ~ (mode = "kFormat" /\ Undocumented)
  PROVE  IInv'
<1>1. /\ src' = src /\ mode' = mode /\ strict' = strict /\ status' = status
      /\ pc' = pc /\ start' = start /\ tokens' = tokens /\ errors' = errors
      /\ resets' = resets
  BY DEF input
<1>2. src \in Seq(Chars) /\ position \in 0 .. Len(src) /\ line \in Nat
      /\ column \in Nat /\ q \in Nat /\ position \in Nat /\ Len(src) \in Nat
      /\ position <= q /\ q <= Len(src)
      /\ (pc = "string" => start.position < position)
      /\ start.position \in Nat
  BY LexerAssumption DEF IInv, Typed, TypeOK
<1>3. /\ position' = q /\ line' \in Nat /\ column' \in Nat
      /\ IsPlaceOf(position, line, column) => IsPlaceOf(position, line, column)'
  BY <1>1, <1>2, AdvanceKeepsPlace
<1>4. Typed'
  BY <1>1, <1>2, <1>3 DEF IInv, Typed, TypeOK, At
<1>5. ASSUME resets' = 0 PROVE Places' /\ TokensPlaced' /\ InOrder'
  <2>1. Places /\ TokensPlaced /\ InOrder
    BY <1>1, <1>5 DEF IInv
  <2>2. Places'
    BY <1>1, <1>3, <2>1, SourceKept DEF Places
  <2>3. TokensPlaced'
    <3>1. Behind' = IF pc = "string" THEN start.position ELSE q
      BY <1>1, <1>3 DEF Behind
    <3>2. \A i \in DOMAIN tokens : To(tokens[i]) <= Behind'
      <4> SUFFICES ASSUME NEW i \in DOMAIN tokens PROVE To(tokens[i]) <= Behind'
        OBVIOUS
      <4>1. From(tokens[i]) \in 0 .. Len(src) /\ To(tokens[i]) <= Behind
        BY <2>1 DEF TokensPlaced
      <4>2. To(tokens[i]) \in Nat
        BY <1>2, <4>1 DEF To, IInv, Typed, TypeOK
      <4>3. QED
        BY <1>2, <3>1, <4>1, <4>2 DEF Behind
    <3>3. QED
      BY <1>1, <2>1, <3>2, SourceKept DEF TokensPlaced
  <2>4. InOrder'
    BY <1>1, <2>1, SourceKept DEF InOrder
  <2>5. QED
    BY <2>2, <2>3, <2>4
<1>6. ASSUME resets' = 0, errors' = {} PROVE GapsPassed' /\ FormatCovers'
  <2>1. GapsPassed /\ FormatCovers
    BY <1>1, <1>6 DEF IInv
  <2>2. Covered' = Covered /\ (\A k : InComment(k)' = InComment(k))
    BY <1>1, CoveredKept
  <2>3. CASE pc = "string"
    <3>1. Behind' = Behind
      BY <1>1, <2>3 DEF Behind
    <3>2. QED
      BY <1>1, <2>1, <2>2, <3>1, SourceKept DEF GapsPassed, FormatCovers
  <2>4. CASE pc = "trivia"
    <3>1. Behind' = q /\ Behind = position
      BY <1>1, <1>3, <2>4 DEF Behind
    <3>2. \A k \in position .. q - 1 : k \notin Covered
      <4>1. \A i \in DOMAIN tokens : To(tokens[i]) <= position
                                      /\ To(tokens[i]) \in Nat
        BY <1>1, <1>2, <1>6, <3>1 DEF IInv, Typed, TypeOK, TokensPlaced, To
      <4>2. QED
        BY <1>2, <4>1 DEF Covered
    <3>3. ASSUME NEW k \in (0 .. q - 1) \ Covered
          PROVE  At(k) \in Blanks \/ InComment(k)
      <4>1. CASE k < position
        BY <1>2, <2>1, <3>1, <4>1 DEF GapsPassed
      <4>2. CASE position <= k
        <5>1. At(k) \in Blanks \/ InCommentFrom(position, k)
          BY <1>2, <2>4, <4>2
        <5>2. position \in (0 .. k) \ Covered
          BY <1>2, <3>2, <4>2
        <5>3. QED
          BY <5>1, <5>2 DEF InComment
      <4>3. QED
        BY <1>2, <4>1, <4>2
    <3>4. GapsPassed'
      BY <2>2, <3>1, <3>3, <1>1, SourceKept DEF GapsPassed
    <3>5. FormatCovers'
      BY <1>1, <2>4, SourceKept DEF FormatCovers
    <3>6. QED
      BY <3>4, <3>5
  <2>5. QED
    BY <2>3, <2>4
<1>7. QED
  BY <1>1, <1>4, <1>5, <1>6 DEF IInv

\* A token with the line and column that are kept for it is found where the
\* text still to be covered starts.
LEMMA TokenFound ==
  ASSUME IInv, resets = 0, NEW q \in position .. Len(src), NEW t,
         t.line = (IF pc = "string" THEN start ELSE here).line,
         t.column = (IF pc = "string" THEN start ELSE here).column,
         t.length = q - Behind
  PROVE  From(t) = Behind /\ To(t) = q
<1>1. /\ src \in Seq(Chars) /\ Behind \in 0 .. Len(src) /\ q \in Nat
  BY LexerAssumption DEF IInv, Typed, TypeOK, Behind
<1>2. IsPlaceOf(Behind, t.line, t.column)
  BY DEF IInv, Places, Behind, here
<1>3. From(t) = Behind
  BY <1>1, <1>2, PlaceFound DEF From
<1>4. QED
  BY <1>1, <1>3 DEF To

\* A token that ends behind the text still to be covered, and starts where
\* that text starts, keeps the invariant.
LEMMA EmitStep ==
  ASSUME IInv, pc \in {"token", "string"}, NEW kind \in Kinds \ {"eof"},
         NEW q \in position .. Len(src), Behind < q,
         Emit(kind, IF pc = "string" THEN start ELSE here, q)
  PROVE  IInv'
<1> DEFINE from == IF pc = "string" THEN start ELSE here
           t == [kind |-> kind, line |-> from.line, column |-> from.column,
                 length |-> q - from.position]
<1>1. /\ src' = src /\ mode' = mode /\ strict' = strict /\ status' = status
      /\ pc' = "trivia" /\ start' = start /\ tokens' = Append(tokens, t)
      /\ errors' = errors /\ resets' = resets /\ Advance(q)
  BY DEF Emit, input
<1>2. /\ src \in Seq(Chars) /\ position \in 0 .. Len(src) /\ line \in Nat
      /\ column \in Nat /\ q \in Nat /\ position \in Nat /\ Len(src) \in Nat
      /\ position <= q /\ q <= Len(src)
      /\ tokens \in Seq(Token)
  BY LexerAssumption DEF IInv, Typed, TypeOK
<1>3. /\ from.position = Behind /\ from.line \in Nat /\ from.column \in Nat
      /\ Behind \in 0 .. Len(src) /\ Behind \in Nat
  BY <1>2 DEF IInv, Typed, TypeOK, Behind, here
<1>4. /\ t.kind = kind /\ t.line = from.line /\ t.column = from.column
      /\ t.length = q - Behind /\ t.length \in 0 .. Len(src) /\ t.length # 0
      /\ t \in Token
  BY <1>2, <1>3, SMTT(30) DEF Token
<1> HIDE DEF t
<1>5. /\ position' = q /\ line' \in Nat /\ column' \in Nat
      /\ IsPlaceOf(position, line, column) => IsPlaceOf(position, line, column)'
  BY <1>1, <1>2, AdvanceKeepsPlace
<1>6. /\ tokens' \in Seq(Token) /\ Len(tokens') = Len(tokens) + 1
      /\ Len(tokens) \in Nat
      /\ DOMAIN tokens' = 1 .. Len(tokens) + 1 /\ DOMAIN tokens = 1 .. Len(tokens)
      /\ tokens'[Len(tokens) + 1] = t
      /\ \A i \in 1 .. Len(tokens) : tokens'[i] = tokens[i]
  BY <1>1, <1>2, <1>4
<1>7. Typed'
  <2>1. TypeOK'
    BY <1>1, <1>2, <1>4, <1>5, <1>6 DEF IInv, Typed, TypeOK
  <2>2. QED
    BY <1>1, <1>6, <2>1 DEF IInv, Typed
<1>8. Behind' = q
  BY <1>1, <1>5 DEF Behind
<1>9. ASSUME resets' = 0
      PROVE  /\ From(t) = Behind /\ To(t) = q
             /\ Places' /\ TokensPlaced' /\ InOrder'
  <2>1. Places /\ TokensPlaced /\ InOrder
    BY <1>1, <1>9 DEF IInv
  <2>3. From(t) = Behind /\ To(t) = q
    BY <1>1, <1>4, <1>9, TokenFound
  <2>4. Places'
    BY <1>1, <1>5, <2>1, SourceKept DEF Places
  <2>5. \A i \in 1 .. Len(tokens) :
          /\ From(tokens[i]) \in 0 .. Len(src) /\ To(tokens[i]) \in Nat
          /\ To(tokens[i]) <= Behind
          /\ tokens[i].kind = "eof" <=> tokens[i].length = 0
    <3>1. \A i \in 1 .. Len(tokens) : tokens[i].length \in Nat
      BY <1>2, <1>6 DEF IInv, Typed, TypeOK
    <3>2. \A i \in 1 .. Len(tokens) :
            /\ From(tokens[i]) \in 0 .. Len(src) /\ To(tokens[i]) <= Behind
            /\ tokens[i].kind = "eof" <=> tokens[i].length = 0
      BY <1>6, <2>1 DEF TokensPlaced
    <3>3. \A i \in 1 .. Len(tokens) : To(tokens[i]) \in Nat
      BY <1>2, <3>1, <3>2 DEF To
    <3>4. QED
      BY <3>2, <3>3
  <2>6. TokensPlaced'
    <3> SUFFICES ASSUME NEW i \in 1 .. Len(tokens) + 1
                 PROVE  /\ From(tokens'[i]) \in 0 .. Len(src)
                        /\ To(tokens'[i]) <= q
                        /\ tokens'[i].kind = "eof" <=> tokens'[i].length = 0
      BY <1>1, <1>6, <1>8, SourceKept DEF TokensPlaced
    <3>1. CASE i = Len(tokens) + 1
      BY <1>2, <1>3, <1>4, <1>6, <2>3, <3>1
    <3>2. CASE i \in 1 .. Len(tokens)
      BY <1>2, <1>3, <1>6, <2>5, <3>2
    <3>3. QED
      BY <1>6, <3>1, <3>2
  <2>7. InOrder'
    <3> SUFFICES ASSUME NEW i \in 1 .. Len(tokens)
                 PROVE  To(tokens'[i]) <= From(tokens'[i + 1])
      BY <1>1, <1>6, SourceKept DEF InOrder
    <3>1. CASE i = Len(tokens)
      BY <1>6, <2>3, <2>5, <3>1
    <3>2. CASE i \in 1 .. Len(tokens) - 1
      BY <1>6, <2>1, <3>2 DEF InOrder
    <3>3. QED
      BY <1>6, <3>1, <3>2
  <2>8. QED
    BY <2>3, <2>4, <2>6, <2>7
<1>10. ASSUME resets' = 0, errors' = {} PROVE GapsPassed' /\ FormatCovers'
  <2>1. GapsPassed /\ FormatCovers
    BY <1>1, <1>10 DEF IInv
  <2>2. Covered' = Covered \cup (Behind .. q - 1)
    BY <1>1, <1>2, <1>4, <1>9, <1>10, CoveredAppend
  <2>3. ASSUME NEW k \in (0 .. q - 1) \ Covered'
        PROVE  (At(k) \in Blanks \/ InComment(k))'
    <3>1. k \in (0 .. Behind - 1) \ Covered
      BY <1>2, <1>3, <2>2
    <3>2. CASE At(k) \in Blanks
      BY <1>1, <3>2, SourceKept
    <3>3. CASE InComment(k)
      <4>1. PICK i \in (0 .. k) \ Covered : InCommentFrom(i, k)
        BY <3>3 DEF InComment
      <4>2. i \in (0 .. k) \ Covered'
        BY <1>3, <2>2, <3>1
      <4>3. QED
        BY <1>1, <4>1, <4>2, SourceKept DEF InComment
    <3>4. QED
      BY <2>1, <3>1, <3>2, <3>3 DEF GapsPassed
  <2>4. GapsPassed'
    BY <1>8, <2>3 DEF GapsPassed
  <2>5. FormatCovers'
    <3> SUFFICES ASSUME mode = "kFormat", Undocumented
                 PROVE  Covered' = 0 .. q - 1
      BY <1>1, <1>8, SourceKept DEF FormatCovers
    <3>1. Covered = 0 .. Behind - 1
      BY <2>1 DEF FormatCovers
    <3>2. QED
      BY <1>2, <1>3, <2>2, <3>1
  <2>6. QED
    BY <2>4, <2>5
<1>11. QED
  BY <1>1, <1>7, <1>9, <1>10 DEF IInv

\* An error keeps the invariant wherever the lexer goes on from, as long as
\* that is not in front of the position.
LEMMA ReportStep ==
  ASSUME IInv, pc \in {"trivia", "token", "string"},
         NEW q \in position .. Len(src), NEW error, Report(error, q)
  PROVE  IInv'
<1>1. /\ src' = src /\ mode' = mode /\ strict' = strict
      /\ status' = "kErrorOccured" /\ pc' \in {"trivia", "done"}
      /\ start' = start /\ tokens' = tokens
      /\ errors' # {} /\ resets' = resets /\ Advance(q)
  BY DEF Report, input
<1>2. /\ src \in Seq(Chars) /\ position \in 0 .. Len(src) /\ line \in Nat
      /\ column \in Nat /\ q \in Nat /\ position \in Nat /\ Len(src) \in Nat
      /\ position <= q /\ q <= Len(src)
      /\ Behind \in Nat /\ Behind <= position
  BY LexerAssumption DEF IInv, Typed, TypeOK, Behind
<1>3. /\ position' = q /\ line' \in Nat /\ column' \in Nat
      /\ IsPlaceOf(position, line, column) => IsPlaceOf(position, line, column)'
  BY <1>1, <1>2, AdvanceKeepsPlace
<1>4. Typed'
  BY <1>1, <1>2, <1>3 DEF IInv, Typed, TypeOK
<1>5. Behind' = q
  BY <1>1, <1>3 DEF Behind
<1>6. ASSUME resets' = 0 PROVE Places' /\ TokensPlaced' /\ InOrder'
  <2>1. Places /\ TokensPlaced /\ InOrder
    BY <1>1, <1>6 DEF IInv
  <2>2. Places'
    BY <1>1, <1>3, <2>1, SourceKept DEF Places
  <2>3. \A i \in DOMAIN tokens : To(tokens[i]) <= Behind /\ To(tokens[i]) \in Nat
    BY <1>2, <2>1 DEF TokensPlaced, IInv, Typed, TypeOK, To
  <2>4. TokensPlaced'
    BY <1>1, <1>2, <1>5, <2>1, <2>3, SourceKept DEF TokensPlaced
  <2>5. InOrder'
    BY <1>1, <2>1, SourceKept DEF InOrder
  <2>6. QED
    BY <2>2, <2>4, <2>5
<1>7. QED
  BY <1>1, <1>4, <1>6 DEF IInv

\* The end-of-file token is empty, and comes last.
LEMMA EndOfFileStep == IInv /\ EndOfFile => IInv'
<1> SUFFICES ASSUME IInv, EndOfFile PROVE IInv'
  OBVIOUS
<1> DEFINE t == [kind |-> "eof", line |-> line, column |-> column, length |-> 0]
<1>1. /\ src' = src /\ mode' = mode /\ strict' = strict
      /\ status' = "kTokenizeCompleted" /\ pc = "token" /\ pc' = "done"
      /\ start' = start /\ tokens' = Append(tokens, t)
      /\ errors' = errors /\ resets' = resets
      /\ position' = position /\ line' = line /\ column' = column
      /\ Eof(position)
  BY DEF EndOfFile, input, place
<1>2. /\ src \in Seq(Chars) /\ line \in Nat /\ column \in Nat
      /\ position = Len(src) /\ position \in Nat
      /\ tokens \in Seq(Token)
  BY <1>1, LexerAssumption DEF IInv, Typed, TypeOK, Eof
<1>3. /\ t.kind = "eof" /\ t.line = line /\ t.column = column /\ t.length = 0
      /\ t \in Token
  BY <1>2 DEF Token, Kinds
<1> HIDE DEF t
<1>4. /\ tokens' \in Seq(Token) /\ Len(tokens') = Len(tokens) + 1
      /\ Len(tokens) \in Nat
      /\ DOMAIN tokens' = 1 .. Len(tokens) + 1 /\ DOMAIN tokens = 1 .. Len(tokens)
      /\ tokens'[Len(tokens) + 1] = t
      /\ \A i \in 1 .. Len(tokens) : tokens'[i] = tokens[i]
  BY <1>1, <1>2, <1>3
<1>5. Behind = position /\ Behind' = position
  BY <1>1 DEF Behind
<1>6. Typed'
  <2>1. TypeOK'
    BY <1>1, <1>2, <1>3, <1>4 DEF IInv, Typed, TypeOK
  <2>2. QED
    BY <1>1, <1>4, <2>1 DEF IInv, Typed
<1>7. ASSUME resets' = 0
      PROVE  /\ From(t) = position /\ To(t) = position
             /\ Places' /\ TokensPlaced' /\ InOrder'
  <2>1. Places /\ TokensPlaced /\ InOrder
    BY <1>1, <1>7 DEF IInv
  <2>2. From(t) = position /\ To(t) = position
    BY <1>2, <1>3, <2>1, PlaceFound DEF From, To, Places
  <2>3. Places'
    BY <1>1, <2>1, SourceKept DEF Places
  <2>4. \A i \in 1 .. Len(tokens) :
          /\ From(tokens[i]) \in 0 .. Len(src) /\ To(tokens[i]) \in Nat
          /\ To(tokens[i]) <= position
          /\ tokens[i].kind = "eof" <=> tokens[i].length = 0
    <3>1. \A i \in 1 .. Len(tokens) : tokens[i].length \in Nat
      BY <1>2, <1>4 DEF IInv, Typed, TypeOK
    <3>2. QED
      BY <1>2, <1>4, <1>5, <2>1, <3>1, SMTT(30) DEF TokensPlaced, To
  <2>5. TokensPlaced'
    <3> SUFFICES ASSUME NEW i \in 1 .. Len(tokens) + 1
                 PROVE  /\ From(tokens'[i]) \in 0 .. Len(src)
                        /\ To(tokens'[i]) <= position
                        /\ tokens'[i].kind = "eof" <=> tokens'[i].length = 0
      BY <1>1, <1>4, <1>5, SourceKept DEF TokensPlaced
    <3>1. CASE i = Len(tokens) + 1
      BY <1>2, <1>3, <1>4, <2>2, <3>1
    <3>2. CASE i \in 1 .. Len(tokens)
      BY <1>4, <2>4, <3>2
    <3>3. QED
      BY <1>4, <3>1, <3>2
  <2>6. InOrder'
    <3> SUFFICES ASSUME NEW i \in 1 .. Len(tokens)
                 PROVE  To(tokens'[i]) <= From(tokens'[i + 1])
      BY <1>1, <1>4, SourceKept DEF InOrder
    <3>1. CASE i = Len(tokens)
      BY <1>4, <2>2, <2>4, <3>1
    <3>2. CASE i \in 1 .. Len(tokens) - 1
      BY <1>4, <2>1, <3>2 DEF InOrder
    <3>3. Len(tokens) \in Nat
      BY <1>4
    <3>4. i = Len(tokens) \/ i \in 1 .. Len(tokens) - 1
      BY <3>3
    <3>5. QED
      BY <3>1, <3>2, <3>4
  <2>7. QED
    BY <2>2, <2>3, <2>5, <2>6
<1>8. ASSUME resets' = 0, errors' = {} PROVE GapsPassed' /\ FormatCovers'
  <2>1. GapsPassed /\ FormatCovers
    BY <1>1, <1>8 DEF IInv
  <2>2. Covered' = Covered
    <3>1. Covered' = Covered \cup (position .. position - 1)
      BY <1>1, <1>2, <1>3, <1>7, <1>8, CoveredAppend
    <3>2. position .. position - 1 = {}
      BY <1>2
    <3>3. QED
      BY <3>1, <3>2
  <2>3. \A k : InComment(k)' = InComment(k)
    BY <1>1, <2>2, SourceKept DEF InComment
  <2>4. GapsPassed'
    BY <1>1, <1>5, <2>1, <2>2, <2>3, SourceKept DEF GapsPassed
  <2>5. FormatCovers'
    BY <1>1, <1>5, <2>1, <2>2, SourceKept DEF FormatCovers
  <2>6. QED
    BY <2>4, <2>5
<1>9. QED
  BY <1>1, <1>2, <1>6, <1>7, <1>8 DEF IInv

\* Opening a string: the text still to be covered starts where it did.
LEMMA LiteralStrStep == IInv /\ LiteralStr => IInv'
<1> SUFFICES ASSUME IInv, LiteralStr PROVE IInv'
  OBVIOUS
<1>1. /\ src' = src /\ mode' = mode /\ strict' = strict /\ status' = status
      /\ pc = "token" /\ pc' = "string" /\ start' = here /\ tokens' = tokens
      /\ errors' = errors /\ resets' = resets /\ Advance(position + 1)
      /\ ~ Eof(position)
  BY DEF LiteralStr, Current, input
<1>2. /\ src \in Seq(Chars) /\ position \in 0 .. Len(src) /\ line \in Nat
      /\ column \in Nat /\ position \in Nat /\ Len(src) \in Nat
      /\ position + 1 <= Len(src)
  BY <1>1, LexerAssumption DEF IInv, Typed, TypeOK, Eof
<1>3. /\ position' = position + 1 /\ line' \in Nat /\ column' \in Nat
      /\ IsPlaceOf(position, line, column) => IsPlaceOf(position, line, column)'
  BY <1>1, <1>2, AdvanceKeepsPlace
<1>4. /\ start' \in [position: Nat, line: Nat, column: Nat]
      /\ start'.position = position /\ start'.line = line
      /\ start'.column = column
  BY <1>1, <1>2 DEF here
<1>5. Behind' = Behind
  BY <1>1, <1>4 DEF Behind
<1>6. Typed'
  BY <1>1, <1>2, <1>3, <1>4 DEF IInv, Typed, TypeOK, At, LiteralStr, Current
<1>7. ASSUME resets' = 0 PROVE Places' /\ TokensPlaced' /\ InOrder'
  <2>1. Places /\ TokensPlaced /\ InOrder
    BY <1>1, <1>7 DEF IInv
  <2>2. Places'
    <3>1. IsPlaceOf(position, line, column)'
      BY <1>3, <2>1 DEF Places
    <3>2. IsPlaceOf(start.position, start.line, start.column)'
      BY <1>1, <1>4, <2>1, SourceKept DEF Places
    <3>3. QED
      BY <3>1, <3>2 DEF Places
  <2>3. TokensPlaced'
    BY <1>1, <1>5, <2>1, SourceKept DEF TokensPlaced
  <2>4. InOrder'
    BY <1>1, <2>1, SourceKept DEF InOrder
  <2>5. QED
    BY <2>2, <2>3, <2>4
<1>8. ASSUME resets' = 0, errors' = {} PROVE GapsPassed' /\ FormatCovers'
  <2>1. GapsPassed /\ FormatCovers
    BY <1>1, <1>8 DEF IInv
  <2>2. Covered' = Covered /\ (\A k : InComment(k)' = InComment(k))
    BY <1>1, CoveredKept
  <2>3. QED
    BY <1>1, <1>5, <2>1, <2>2, SourceKept DEF GapsPassed, FormatCovers
<1>9. QED
  BY <1>1, <1>6, <1>7, <1>8 DEF IInv

-----------------------------------------------------------------------------
(* Each action ends in one of these ways                                   *)

\* What the dispatch on the current character knows.
LEMMA TokenFacts ==
  ASSUME IInv, pc = "token", ~ Eof(position)
  PROVE  /\ src \in Seq(Chars) /\ Len(src) \in Nat
         /\ position \in 0 .. Len(src) - 1 /\ position \in Nat
         /\ position + 1 \in 0 .. Len(src)
         /\ Behind = position
         /\ (IF pc = "string" THEN start ELSE here) = here
         /\ position \in position .. Len(src)
         /\ here.position = position
BY LexerAssumption DEF IInv, Typed, TypeOK, Eof, Behind, here

\* The places the positions are compared with.
LEMMA PositionFacts ==
  ASSUME IInv
  PROVE  /\ src \in Seq(Chars) /\ Len(src) \in Nat
         /\ position \in Nat /\ position <= Len(src) /\ position \in 0 .. Len(src)
         /\ \A k \in Nat : At(k) # "nul" => k < Len(src) /\ At(k) = src[k + 1]
         /\ \A k \in Nat : ~ Eof(k) => k < Len(src) /\ At(k) = src[k + 1]
         /\ pc = "string" => start.position \in Nat /\ start.position < position
BY LexerAssumption DEF IInv, Typed, TypeOK, At, Eof

\* A loop of next() over code points that end with the source.
LEMMA LoopEnds ==
  ASSUME src \in Seq(Chars), NEW S, "nul" \notin S, NEW i \in 0 .. Len(src)
  PROVE  /\ After(S, i) \in i .. Len(src)
         /\ At(i) \in S => After(S, i) > i
<1>1. After(S, i) \in i .. Len(src)
  BY AfterStops
<1>2. ASSUME At(i) \in S PROVE After(S, i) > i
  <2>1. ~ Eof(i)
    BY <1>2 DEF At, Eof
  <2>2. QED
    BY <1>2, <2>1, AfterPasses
<1>3. QED
  BY <1>1, <1>2

\* A number ends in the source, and behind its first digit if it is well.
LEMMA NumberEnds ==
  ASSUME IInv, pc = "token", ~ Eof(position), At(position) \in DecimalNumbers,
         NEW n, n = IF IsPrefixed THEN Prefixed ELSE Decimal
  PROVE  /\ n.end \in position .. Len(src)
         /\ n.ok => n.end > position
<1> DEFINE digits == Wide(AsciiDigits)
<1>1. /\ src \in Seq(Chars) /\ Len(src) \in Nat /\ position \in Nat
      /\ position \in 0 .. Len(src)
  BY TokenFacts
<1>2. "nul" \notin digits
  BY NulEndsLoops
<1>3. \A k \in Nat : At(k) # "nul" => k + 1 \in 0 .. Len(src)
  BY <1>1 DEF At
<1>4. \A S, i : "nul" \notin S /\ i \in 0 .. Len(src) =>
                  After(S, i) \in i .. Len(src)
  BY <1>1, LoopEnds
<1>5. CASE IsPrefixed
  <2>1. At(position + 1) \in {"x", "b", "o"}
    BY <1>5 DEF IsPrefixed, DigitsOf
  <2>2. position + 1 + 1 \in 0 .. Len(src)
    BY <1>1, <1>3, <2>1
  <2>3. "nul" \notin Wide(DigitsOf[At(position + 1)])
    BY <2>1, Widened DEF DigitsOf, HexDigits, BinaryDigits, OctalDigits, AsciiDigits
  <2>4. /\ n.end = After(Wide(DigitsOf[At(position + 1)]), position + 2)
        /\ n.ok => n.end > position + 2
    BY <1>5 DEF Prefixed
  <2>5. position + 2 \in 0 .. Len(src)
    BY <1>1, <2>2
  <2>6. n.end \in position + 2 .. Len(src)
    BY <1>4, <2>3, <2>4, <2>5
  <2>7. QED
    BY <1>1, <2>4, <2>6
<1>6. CASE ~ IsPrefixed
  <2> DEFINE whole == After(digits, position)
             fraction == IF At(whole) = "." /\ At(whole + 1) \in digits
                         THEN After(digits, whole + 1) ELSE whole
             sign == IF At(fraction + 1) \in {"+", "-"} THEN fraction + 2
                     ELSE fraction + 1
             exponent == After(digits, sign)
  <2>1. n = IF At(fraction) = "e" /\ fraction > position
            THEN [end |-> exponent, ok |-> exponent > sign]
            ELSE [end |-> fraction, ok |-> fraction > position]
    BY <1>6 DEF Decimal
  <2>2. whole \in position .. Len(src)
    BY <1>1, <1>2, <1>4
  <2>3. fraction \in position .. Len(src)
    <3> HIDE DEF whole
    <3>1. CASE At(whole) = "."
      <4>1. whole \in Nat /\ whole + 1 \in 0 .. Len(src)
        BY <1>1, <1>3, <2>2, <3>1
      <4>2. After(digits, whole + 1) \in whole + 1 .. Len(src)
        BY <1>2, <1>4, <4>1
      <4>3. QED
        BY <1>1, <2>2, <4>1, <4>2
    <3>2. CASE At(whole) # "."
      BY <2>2, <3>2
    <3>3. QED
      BY <3>1, <3>2
  <2> HIDE DEF fraction
  <2>4. ASSUME At(fraction) = "e"
        PROVE  sign \in fraction .. Len(src) /\ sign >= position
    <3>1. fraction \in Nat /\ fraction + 1 \in 0 .. Len(src)
      BY <1>1, <1>3, <2>3, <2>4
    <3>2. At(fraction + 1) \in {"+", "-"} => fraction + 1 + 1 \in 0 .. Len(src)
      BY <1>3, <3>1
    <3>3. QED
      BY <1>1, <2>3, <3>1, <3>2
  <2> HIDE DEF sign
  <2>5. ASSUME At(fraction) = "e"
        PROVE  exponent \in sign .. Len(src)
    <3>1. sign \in 0 .. Len(src)
      BY <1>1, <2>3, <2>4, <2>5
    <3>2. QED
      BY <1>2, <1>4, <3>1
  <2> HIDE DEF exponent
  <2>6. CASE At(fraction) = "e" /\ fraction > position
    BY <1>1, <2>1, <2>3, <2>4, <2>5, <2>6
  <2>7. CASE ~ (At(fraction) = "e" /\ fraction > position)
    <3>1. n = [end |-> fraction, ok |-> fraction > position]
      BY <2>1, <2>7
    <3>2. n.end = fraction /\ n.ok = (fraction > position)
      BY <3>1
    <3>3. QED
      BY <2>3, <3>2
  <2>8. QED
    BY <2>6, <2>7
<1>7. QED
  BY <1>5, <1>6


-----------------------------------------------------------------------------
(* What a token is like                                                    *)

\* A token of the given kind that is cut out of the source from p to q is
\* spelled the way its kind is, and could not have been longer; a word is a
\* keyword exactly if it is spelled like one.
Slice(p, q) == SubSeq(src, p + 1, q)

CutWell(kind, p, q) ==
  LET text == Slice(p, q)
  IN  /\ Unmistakable(src) => Spelled(kind, text)
      /\ kind \in {"identifier", "keyword"} => At(q) \notin XidContinue
      /\ kind = "operator" /\ NoShiftAssignment(src)
           => Append(text, At(q)) \notin Operators
      /\ kind \in {"identifier", "keyword"} /\ AllAscii(src)
           => (kind = "keyword" <=> text \in Keywords)

\* The cases of Spelled, one by one.
LEMMA SpelledCases ==
  ASSUME NEW text
  PROVE  /\ \A kind \in {"identifier", "keyword"} :
              Spelled(kind, text) <=> text[1] \in XidStart /\ Only(text, XidContinue)
         /\ Spelled("number", text) <=>
              /\ text[1] \in AsciiDigits
              /\ Only(text, AsciiDigits \cup AsciiLetters \cup {".", "+", "-"})
         /\ Spelled("string", text) <=>
              Len(text) >= 2 /\ text[1] = "dq" /\ Last(text) = "dq"
         /\ Spelled("character", text) <=>
              Len(text) >= 3 /\ text[1] = "sq" /\ Last(text) = "sq"
         /\ Spelled("operator", text) <=> text \in Operators
         /\ Spelled("newline", text) <=> Only(text, Newlines)
         /\ Spelled("whitespace", text) <=> Only(text, Blanks)
         /\ Spelled("blockComment", text) <=>
              /\ Len(text) >= 4
              /\ SubSeq(text, 1, 2) = <<"/", "*">>
              /\ SubSeq(text, Len(text) - 1, Len(text)) = <<"*", "/">>
         /\ \A kind \in {"inlineComment", "documentationComment"} :
              Spelled(kind, text) <=> SubSeq(text, 1, 2) = <<"/", "/">>
BY DEF Spelled

\* Two elements of a sequence that follow each other.
LEMMA SubPair ==
  ASSUME NEW T, NEW s \in Seq(T), NEW i \in 1 .. Len(s) - 1
  PROVE  SubSeq(s, i, i + 1) = <<s[i], s[i + 1]>>
<1> DEFINE n == Len(s)
<1>1. n \in Nat /\ i \in 1 .. n - 1 /\ i + 1 \in Nat /\ i <= i + 1 /\ i + 1 <= n
  OBVIOUS
<1>2. Len(SubSeq(s, i, i + 1)) = 2 /\ SubSeq(s, i, i + 1) \in Seq(T)
  BY <1>1
<1>3. SubSeq(s, i, i + 1)[1] = s[i]
  BY <1>1
<1>4. SubSeq(s, i, i + 1)[2] = s[i + 1]
  BY <1>1
<1> DEFINE t == SubSeq(s, i, i + 1)
<1> HIDE DEF t
<1>5. t \in Seq(T) /\ Len(t) = 2
  BY <1>2 DEF t
<1>6. t = <<t[1], t[2]>>
  BY <1>5
<1>7. QED
  BY <1>3, <1>4, <1>6 DEF t

\* A text that is cut out of the source, by its characters.
LEMMA SliceIs ==
  ASSUME src \in Seq(Chars), NEW p \in Nat, NEW q \in p + 1 .. Len(src)
  PROVE  /\ Slice(p, q) \in Seq(Chars) /\ Len(Slice(p, q)) = q - p
         /\ DOMAIN Slice(p, q) = 1 .. q - p
         /\ \A k \in 1 .. q - p : Slice(p, q)[k] = At(p + k - 1)
         /\ Slice(p, q)[1] = At(p) /\ Last(Slice(p, q)) = At(q - 1)
<1>1. /\ Slice(p, q) \in Seq(Chars) /\ Len(Slice(p, q)) = q - p
      /\ DOMAIN Slice(p, q) = 1 .. q - p
      /\ \A k \in 1 .. q - p : Slice(p, q)[k] = src[p + k]
  BY DEF Slice
<1>2. ASSUME NEW k \in 1 .. q - p PROVE Slice(p, q)[k] = At(p + k - 1)
  <2>1. p + k - 1 < Len(src) /\ (p + k - 1) + 1 = p + k
    OBVIOUS
  <2>2. QED
    BY <1>1, <2>1 DEF At
<1>3. p + 1 - 1 = p /\ p + (q - p) - 1 = q - 1 /\ 1 \in 1 .. q - p /\ q - p \in 1 .. q - p
  OBVIOUS
<1>4. Slice(p, q)[1] = At(p)
  BY <1>2, <1>3
<1>5. Slice(p, q)[q - p] = At(q - 1)
  BY <1>2, <1>3
<1>6. QED
  BY <1>1, <1>2, <1>4, <1>5 DEF Last

\* Every code point of the source from i to j is in S.
Passed(S, i, j) == \A k \in i .. j - 1 : At(k) \in S

LEMMA PassedOn ==
  ASSUME NEW S, NEW i \in Nat, NEW j \in Nat, NEW k \in Nat,
         Passed(S, i, j), Passed(S, j, k)
  PROVE  Passed(S, i, k)
BY DEF Passed

LEMMA SliceOnly ==
  ASSUME src \in Seq(Chars), NEW p \in Nat, NEW q \in p + 1 .. Len(src), NEW S,
         Passed(S, p, q)
  PROVE  Only(Slice(p, q), S)
<1>1. /\ DOMAIN Slice(p, q) = 1 .. q - p
      /\ \A k \in 1 .. q - p : Slice(p, q)[k] = At(p + k - 1)
  BY SliceIs
<1>2. \A k \in 1 .. q - p : p + k - 1 \in p .. q - 1
  OBVIOUS
<1>3. QED
  BY <1>1, <1>2 DEF Only, Passed

\* A loop over the code points in S passes nothing else, and what it stops at
\* is not in S.
LEMMA LoopPasses ==
  ASSUME src \in Seq(Chars), NEW S, "nul" \notin S, NEW i \in 0 .. Len(src)
  PROVE  /\ After(S, i) \in i .. Len(src)
         /\ Passed(S, i, After(S, i))
         /\ At(After(S, i)) \notin S
<1>1. /\ After(S, i) \in i .. Len(src)
      /\ \A k \in i .. After(S, i) - 1 : src[k + 1] \in S
      /\ After(S, i) = Len(src) \/ src[After(S, i) + 1] \notin S
  BY AfterStops
<1> DEFINE q == After(S, i)
<1> HIDE DEF q
<1>2. q \in i .. Len(src) /\ (\A k \in i .. q - 1 : src[k + 1] \in S)
      /\ (q = Len(src) \/ src[q + 1] \notin S)
  BY <1>1 DEF q
<1>3. \A k \in i .. q - 1 : k < Len(src)
  BY <1>2
<1>4. Passed(S, i, q)
  BY <1>2, <1>3 DEF Passed, At
<1>5. At(q) \notin S
  BY <1>2 DEF At
<1>6. QED
  BY <1>2, <1>4, <1>5 DEF q

\* How a text begins and ends.
LEMMA FirstTwo ==
  ASSUME src \in Seq(Chars), NEW p \in Nat, NEW q \in p + 2 .. Len(src)
  PROVE  SubSeq(Slice(p, q), 1, 2) = <<At(p), At(p + 1)>>
<1>1. /\ Slice(p, q) \in Seq(Chars) /\ Len(Slice(p, q)) = q - p
      /\ \A k \in 1 .. q - p : Slice(p, q)[k] = At(p + k - 1)
  BY SliceIs
<1>2. 1 \in 1 .. Len(Slice(p, q)) - 1 /\ 1 \in 1 .. q - p /\ 2 \in 1 .. q - p
      /\ p + 1 - 1 = p /\ p + 2 - 1 = p + 1 /\ 1 + 1 = 2
  BY <1>1
<1>3. Slice(p, q)[1] = At(p) /\ Slice(p, q)[2] = At(p + 1)
  BY <1>1, <1>2
<1>4. SubSeq(Slice(p, q), 1, 1 + 1) = <<Slice(p, q)[1], Slice(p, q)[1 + 1]>>
  BY <1>1, <1>2, SubPair
<1>5. QED
  BY <1>2, <1>3, <1>4

LEMMA LastTwo ==
  ASSUME src \in Seq(Chars), NEW p \in Nat, NEW q \in p + 2 .. Len(src)
  PROVE  SubSeq(Slice(p, q), Len(Slice(p, q)) - 1, Len(Slice(p, q)))
           = <<At(q - 2), At(q - 1)>>
<1> DEFINE n == q - p
<1>1. /\ Slice(p, q) \in Seq(Chars) /\ Len(Slice(p, q)) = n
      /\ \A k \in 1 .. n : Slice(p, q)[k] = At(p + k - 1)
  BY SliceIs
<1>2. n \in Nat /\ n - 1 \in 1 .. n - 1 /\ n - 1 \in 1 .. n /\ n \in 1 .. n
      /\ p + (n - 1) - 1 = q - 2 /\ p + n - 1 = q - 1 /\ (n - 1) + 1 = n
  OBVIOUS
<1> HIDE DEF n
<1>3. Slice(p, q)[n - 1] = At(q - 2) /\ Slice(p, q)[n] = At(q - 1)
  BY <1>1, <1>2
<1>4. SubSeq(Slice(p, q), n - 1, (n - 1) + 1)
        = <<Slice(p, q)[n - 1], Slice(p, q)[(n - 1) + 1]>>
  BY <1>1, <1>2, SubPair
<1>5. QED
  BY <1>1, <1>2, <1>3, <1>4

\* What the characters a token starts with say of the operators.
LEMMA OperatorShapes ==
  /\ \A c \in Singles \cup DOMAIN PairTails : <<c>> \in Operators
  /\ \A c \in DOMAIN PairTails : \A d \in PairTails[c] : <<c, d>> \in Operators
  /\ \A c, d : <<c, d>> \in Operators => c \in DOMAIN PairTails /\ d \in PairTails[c]
  /\ \A c, d, e : <<c, d, e>> \in Operators => c \in {"<", ">"} /\ d = c /\ e = "="
  /\ Singles \cap DOMAIN PairTails = {}
<1>1. /\ \A c \in Singles \cup DOMAIN PairTails : <<c>> \in Operators
      /\ \A c \in DOMAIN PairTails : \A d \in PairTails[c] : <<c, d>> \in Operators
  BY DEF Operators
<1>2. \A c, d : <<c, d>> \in Operators => c \in DOMAIN PairTails /\ d \in PairTails[c]
  <2> SUFFICES ASSUME NEW c, NEW d, <<c, d>> \in Operators
               PROVE  c \in DOMAIN PairTails /\ d \in PairTails[c]
    OBVIOUS
  <2>1. \A x : <<c, d>> # <<x>>
    OBVIOUS
  <2>2. <<c, d>> # <<"<", "<", "=">> /\ <<c, d>> # <<">", ">", "=">>
    OBVIOUS
  <2>3. PICK x \in DOMAIN PairTails : <<c, d>> \in {<<x, y>> : y \in PairTails[x]}
    BY <2>1, <2>2 DEF Operators
  <2>4. PICK y \in PairTails[x] : <<c, d>> = <<x, y>>
    BY <2>3
  <2>5. c = x /\ d = y
    BY <2>4
  <2>6. QED
    BY <2>3, <2>4, <2>5
<1>3. ASSUME NEW c, NEW d, NEW e, <<c, d, e>> \in Operators
      PROVE  c \in {"<", ">"} /\ d = c /\ e = "="
  <2>1. (\A x : <<c, d, e>> # <<x>>) /\ (\A x, y : <<c, d, e>> # <<x, y>>)
    OBVIOUS
  <2>2. <<c, d, e>> = <<"<", "<", "=">> \/ <<c, d, e>> = <<">", ">", "=">>
    BY <1>3, <2>1 DEF Operators
  <2>3. QED
    BY <2>2
<1>4. Singles \cap DOMAIN PairTails = {}
  BY DEF Singles, PairTails
<1>5. QED
  BY <1>1, <1>2, <1>3, <1>4

LEMMA AppendIs ==
  ASSUME NEW T, NEW s \in Seq(T), NEW d \in T
  PROVE  /\ Append(s, d) \in Seq(T) /\ Len(Append(s, d)) = Len(s) + 1
         /\ \A k \in 1 .. Len(s) : Append(s, d)[k] = s[k]
         /\ Append(s, d)[Len(s) + 1] = d
OBVIOUS

LEMMA AppendShort ==
  ASSUME NEW T, NEW s \in Seq(T), NEW d \in T
  PROVE  /\ Len(s) = 1 => Append(s, d) = <<s[1], d>>
         /\ Len(s) = 2 => Append(s, d) = <<s[1], s[2], d>>
<1> DEFINE t == Append(s, d)
<1>1. /\ t \in Seq(T) /\ Len(t) = Len(s) + 1
      /\ \A k \in 1 .. Len(s) : t[k] = s[k]
      /\ t[Len(s) + 1] = d
  BY AppendIs
<1> HIDE DEF t
<1>2. ASSUME Len(s) = 1 PROVE t = <<s[1], d>>
  BY <1>1, <1>2
<1>3. ASSUME Len(s) = 2 PROVE t = <<s[1], s[2], d>>
  BY <1>1, <1>3
<1>4. QED
  BY <1>2, <1>3 DEF t

LEMMA SliceOfOne ==
  ASSUME src \in Seq(Chars), NEW p \in Nat, p + 1 \in 1 .. Len(src),
         NEW d \in Chars
  PROVE  Slice(p, p + 1) = <<At(p)>> /\ Append(Slice(p, p + 1), d) = <<At(p), d>>
<1>1. Slice(p, p + 1) \in Seq(Chars) /\ Len(Slice(p, p + 1)) = 1
      /\ Slice(p, p + 1)[1] = At(p)
  <2>1. p + 1 \in p + 1 .. Len(src) /\ (p + 1) - p = 1
    OBVIOUS
  <2>2. Slice(p, p + 1) \in Seq(Chars) /\ Len(Slice(p, p + 1)) = (p + 1) - p
        /\ Slice(p, p + 1)[1] = At(p)
    BY <2>1, SliceIs
  <2>3. QED
    BY <2>1, <2>2
<1> DEFINE t == Slice(p, p + 1)
<1> HIDE DEF t
<1>2. t \in Seq(Chars) /\ Len(t) = 1 /\ t[1] = At(p)
  BY <1>1 DEF t
<1>3. t = <<At(p)>>
  BY <1>2
<1>4. Append(t, d) = <<At(p), d>>
  BY <1>2, AppendShort
<1>5. QED
  BY <1>3, <1>4 DEF t

LEMMA SliceOfTwo ==
  ASSUME src \in Seq(Chars), NEW p \in Nat, p + 2 \in 1 .. Len(src),
         NEW d \in Chars
  PROVE  /\ Slice(p, p + 2) = <<At(p), At(p + 1)>>
         /\ Append(Slice(p, p + 2), d) = <<At(p), At(p + 1), d>>
<1>1. Slice(p, p + 2) \in Seq(Chars) /\ Len(Slice(p, p + 2)) = 2
      /\ Slice(p, p + 2)[1] = At(p) /\ Slice(p, p + 2)[2] = At(p + 1)
  <2>1. p + 2 \in p + 1 .. Len(src) /\ (p + 2) - p = 2 /\ p + 2 - 1 = p + 1
        /\ 2 \in 1 .. (p + 2) - p
    OBVIOUS
  <2>2. Slice(p, p + 2) \in Seq(Chars) /\ Len(Slice(p, p + 2)) = (p + 2) - p
        /\ Slice(p, p + 2)[1] = At(p)
        /\ \A k \in 1 .. (p + 2) - p : Slice(p, p + 2)[k] = At(p + k - 1)
    BY <2>1, SliceIs
  <2>3. Slice(p, p + 2)[2] = At(p + 2 - 1)
    BY <2>1, <2>2
  <2>4. QED
    BY <2>1, <2>2, <2>3
<1> DEFINE t == Slice(p, p + 2)
<1> HIDE DEF t
<1>2. t \in Seq(Chars) /\ Len(t) = 2 /\ t[1] = At(p) /\ t[2] = At(p + 1)
  BY <1>1 DEF t
<1>3. t = <<At(p), At(p + 1)>>
  BY <1>2
<1>4. Append(t, d) = <<At(p), At(p + 1), d>>
  BY <1>2, AppendShort
<1>5. QED
  BY <1>3, <1>4 DEF t

LEMMA AtChar ==
  ASSUME src \in Seq(Chars), NEW k \in Nat
  PROVE  At(k) \in Chars
<1>1. "nul" \in Chars
  BY DEF Chars
<1>2. k < Len(src) => src[k + 1] \in Chars
  OBVIOUS
<1>3. QED
  BY <1>1, <1>2 DEF At

\* A token that is neither a word nor an operator only has to be spelled well.
LEMMA CutByKind ==
  ASSUME NEW p, NEW q, NEW kind \in Kinds \ {"keyword", "identifier", "operator"},
         Unmistakable(src) => Spelled(kind, Slice(p, q))
  PROVE  CutWell(kind, p, q)
BY DEF CutWell, Kinds

\* One character, or two, that are an operator, are one that stops there,
\* unless the third character is that of <<= or >>=.
LEMMA OperatorCut ==
  ASSUME IInv, pc = "token", ~ Eof(position),
         \/ At(position) \in Singles
         \/ At(position) \in DOMAIN PairTails
  PROVE  /\ At(position) \in Singles => CutWell("operator", position, position + 1)
         /\ At(position) \in DOMAIN PairTails =>
              IF At(position + 1) \in PairTails[At(position)]
              THEN CutWell("operator", position, position + 2)
              ELSE CutWell("operator", position, position + 1)
<1>1. /\ src \in Seq(Chars) /\ position \in Nat /\ position + 1 \in 1 .. Len(src)
      /\ Len(src) \in Nat
  BY TokenFacts
<1> DEFINE c == At(position)
           d == At(position + 1)
<1>2. Slice(position, position + 1) = <<c>>
      /\ Append(Slice(position, position + 1), d) = <<c, d>>
  <2>1. d \in Chars
    BY <1>1, AtChar
  <2> HIDE DEF d
  <2>2. QED
    BY <1>1, <2>1, SliceOfOne
<1>3. ASSUME c \in Singles \/ (c \in DOMAIN PairTails /\ d \notin PairTails[c])
      PROVE  CutWell("operator", position, position + 1)
  <2>1. <<c>> \in Operators /\ <<c, d>> \notin Operators
    BY <1>3, OperatorShapes
  <2>2. Spelled("operator", Slice(position, position + 1))
    BY <1>2, <2>1, SpelledCases
  <2>3. QED
    BY <1>2, <2>1, <2>2 DEF CutWell
<1>4. ASSUME c \in DOMAIN PairTails, d \in PairTails[c]
      PROVE  CutWell("operator", position, position + 2)
  <2>1. d # "nul"
    BY <1>4, NulEndsOperators
  <2>2. position + 1 < Len(src) /\ position + 2 \in 1 .. Len(src)
        /\ d = src[position + 2] /\ c = src[position + 1]
    BY <1>1, <2>1 DEF At
  <2> DEFINE e == At(position + 2)
  <2>3. Slice(position, position + 2) = <<c, d>>
        /\ Append(Slice(position, position + 2), e) = <<c, d, e>>
    <3>1. e \in Chars
      BY <1>1, AtChar
    <3> HIDE DEF e
    <3>2. QED
      BY <1>1, <2>2, <3>1, SliceOfTwo
  <2>4. <<c, d>> \in Operators
    BY <1>4, OperatorShapes
  <2>5. Spelled("operator", Slice(position, position + 2))
    BY <2>3, <2>4, SpelledCases
  <2>6. ASSUME NoShiftAssignment(src), <<c, d, e>> \in Operators PROVE FALSE
    <3>1. c \in {"<", ">"} /\ d = c /\ e = "="
      BY <2>6, OperatorShapes
    <3>2. position + 2 < Len(src) /\ e = src[position + 2 + 1]
      BY <3>1, <1>1 DEF At
    <3>3. position + 1 \in 1 .. Len(src) - 2 /\ position + 1 + 1 = position + 2
          /\ position + 1 + 2 = position + 2 + 1
      BY <1>1, <3>2
    <3>4. QED
      BY <2>2, <2>6, <3>1, <3>2, <3>3 DEF NoShiftAssignment
  <2>7. QED
    BY <2>3, <2>5, <2>6 DEF CutWell
<1> HIDE DEF c, d
<1>5. QED
  BY <1>3, <1>4, OperatorShapes DEF c, d

\* Sequences of one element, put behind one another, are the sequence of their
\* elements.
LEMMA FlattenSingletons ==
  ASSUME NEW T, NEW s \in Seq(T)
  PROVE  FlattenSeq([k \in 1 .. Len(s) |-> <<s[k]>>]) = s
<1> DEFINE n == Len(s)
           b == [k \in 1 .. n |-> <<s[k]>>]
           Def(f) == f = [i \in 1 .. Len(b) |-> IF i = 1 THEN b[i] ELSE f[i - 1] \o b[i]]
           g == [i \in 1 .. n |-> SubSeq(s, 1, i)]
           f == CHOOSE h : Def(h)
<1>1. n \in Nat /\ b \in Seq(Seq(T)) /\ Len(b) = n
  OBVIOUS
<1>2. \A i \in 1 .. n : b[i] = <<s[i]>>
  OBVIOUS
<1>3. CASE n = 0
  <2>1. b = << >> /\ s = << >>
    BY <1>1, <1>3
  <2>2. FlattenSeq(b) = b
    BY <1>1, <1>3 DEF FlattenSeq
  <2>3. QED
    BY <2>1, <2>2
<1>4. CASE n > 0
  <2>1. FlattenSeq(b) = f[n]
    BY <1>1, <1>4 DEF FlattenSeq
  <2> HIDE DEF b
  <2>2. SubSeq(s, 1, 1) = <<s[1]>>
    <3> DEFINE t == SubSeq(s, 1, 1)
    <3>1. t \in Seq(T) /\ Len(t) = 1 /\ t[1] = s[1]
      BY <1>1, <1>4
    <3> HIDE DEF t
    <3>2. t = <<s[1]>>
      BY <3>1
    <3>3. QED
      BY <3>2 DEF t
  <2>3. ASSUME NEW i \in 1 .. n, i # 1
        PROVE  SubSeq(s, 1, i) = SubSeq(s, 1, i - 1) \o <<s[i]>>
    BY <1>1, <2>3
  <2>4. \A i \in 1 .. n :
          g[i] = IF i = 1 THEN b[i] ELSE g[i - 1] \o b[i]
    <3> SUFFICES ASSUME NEW i \in 1 .. n
                 PROVE  g[i] = IF i = 1 THEN b[i] ELSE g[i - 1] \o b[i]
      OBVIOUS
    <3>1. CASE i = 1
      BY <1>2, <2>2, <3>1
    <3>2. CASE i # 1
      <4>1. i - 1 \in 1 .. n
        BY <1>1, <3>2
      <4>2. g[i] = SubSeq(s, 1, i) /\ g[i - 1] = SubSeq(s, 1, i - 1)
        BY <4>1
      <4>3. QED
        BY <1>2, <2>3, <3>2, <4>2
    <3>3. QED
      BY <3>1, <3>2
  <2>5. g = [i \in 1 .. Len(b) |-> IF i = 1 THEN b[i] ELSE g[i - 1] \o b[i]]
    BY <1>1, <2>4
  <2>6. Def(g)
    BY <2>5
  <2> HIDE DEF Def, g
  <2>7. Def(f)
    BY <2>6
  <2>8. \A i \in 1 .. n : f[i] = IF i = 1 THEN b[i] ELSE f[i - 1] \o b[i]
    BY <1>1, <2>7 DEF Def
  <2> HIDE DEF f
  <2> DEFINE Bad == {i \in 1 .. n : f[i] # g[i]}
  <2>9. ASSUME Bad # {} PROVE FALSE
    <3>1. PICK i \in Bad : \A j \in Bad : i <= j
      <4>1. Bad \subseteq Nat
        BY <1>1
      <4>2. QED
        BY <2>9, <4>1, Least
    <3>2. i \in 1 .. n /\ f[i] # g[i]
      OBVIOUS
    <3>3. CASE i = 1
      BY <2>4, <2>8, <3>2, <3>3
    <3>4. CASE i # 1
      <4>1. i - 1 \in 1 .. n /\ ~ (i <= i - 1)
        BY <1>1, <3>2, <3>4
      <4>2. f[i - 1] = g[i - 1]
        BY <3>1, <4>1
      <4>3. QED
        BY <2>4, <2>8, <3>2, <3>4, <4>2
    <3>5. QED
      BY <3>3, <3>4
  <2>10. f[n] = g[n]
    BY <1>1, <1>4, <2>9
  <2>11. g[n] = s
    <3>1. SubSeq(s, 1, n) = s
      BY <1>1
    <3>2. QED
      BY <1>1, <1>4, <3>1 DEF g
  <2>12. QED
    BY <2>1, <2>10, <2>11 DEF b
<1>5. QED
  BY <1>1, <1>3, <1>4

\* The bytes of a source in ASCII are its characters.
LEMMA BytesOfAscii ==
  ASSUME src \in Seq(Chars), AllAscii(src)
  PROVE  Bytes = src
<1>1. [k \in 1 .. Len(src) |-> Utf8(src[k])] = [k \in 1 .. Len(src) |-> <<src[k]>>]
  BY DEF AllAscii, Utf8
<1>2. QED
  BY <1>1, FlattenSingletons DEF Bytes

\* A word ends where it could not go on, and is looked up as a whole.
LEMMA WordCut ==
  ASSUME IInv, pc = "token", ~ Eof(position), At(position) \in XidStart,
         NEW q, q = After(XidContinue, position), NEW kind,
         kind = IF SubSeq(Bytes, position + 1, q) \in Keywords THEN "keyword"
                ELSE "identifier"
  PROVE  CutWell(kind, position, q)
<1>1. /\ src \in Seq(Chars) /\ position \in Nat /\ position \in 0 .. Len(src)
      /\ Len(src) \in Nat
  BY TokenFacts
<1>2. q \in position + 1 .. Len(src)
  BY <1>1, NulEndsLoops, AfterPasses
<1>3. Passed(XidContinue, position, q) /\ At(q) \notin XidContinue
  BY <1>1, NulEndsLoops, LoopPasses
<1>4. Only(Slice(position, q), XidContinue) /\ Slice(position, q)[1] = At(position)
  BY <1>1, <1>2, <1>3, SliceOnly, SliceIs
<1>5. kind \in {"identifier", "keyword"}
  OBVIOUS
<1>6. Spelled(kind, Slice(position, q))
  BY <1>4, <1>5, SpelledCases
<1>7. AllAscii(src) => (kind = "keyword" <=> Slice(position, q) \in Keywords)
  BY <1>1, BytesOfAscii DEF Slice
<1>8. QED
  BY <1>3, <1>5, <1>6, <1>7 DEF CutWell

\* In an unmistakable source the low byte of a code point says what it is.
LEMMA Mistakes ==
  ASSUME src \in Seq(Chars), Unmistakable(src), NEW k \in Nat
  PROVE  /\ At(k) \in Wide({"dq"}) => At(k) = "dq"
         /\ At(k) \in Wide(AsciiDigits) => At(k) \in AsciiDigits
         /\ At(k) \in Wide(HexDigits) /\ (\E i \in 0 .. k - 1 : At(i) = "x")
              => At(k) \in HexDigits
<1>1. "nul" \notin Wide({"dq"}) /\ "nul" \notin Wide(AsciiDigits)
      /\ "nul" \notin Wide(HexDigits)
  BY Widened DEF AsciiDigits, HexDigits
<1>2. ASSUME k < Len(src)
      PROVE  /\ At(k) \in Wide({"dq"}) => At(k) = "dq"
             /\ At(k) \in Wide(AsciiDigits) => At(k) \in AsciiDigits
             /\ At(k) \in Wide(HexDigits) /\ (\E i \in 0 .. k - 1 : At(i) = "x")
                  => At(k) \in HexDigits
  <2>1. k + 1 \in DOMAIN src /\ At(k) = src[k + 1]
    BY <1>2 DEF At
  <2>2. ASSUME NEW i \in 0 .. k - 1, At(i) = "x"
        PROVE  \E j \in 1 .. (k + 1) - 1 : src[j] = "x"
    <3>1. i + 1 \in 1 .. (k + 1) - 1 /\ i < Len(src)
      BY <1>2
    <3>2. src[i + 1] = "x"
      BY <2>2, <3>1 DEF At
    <3>3. QED
      BY <3>1, <3>2
  <2>3. QED
    BY <2>1, <2>2 DEF Unmistakable
<1>3. ASSUME ~ (k < Len(src)) PROVE At(k) = "nul"
  BY <1>3 DEF At
<1>4. QED
  BY <1>1, <1>2, <1>3

NumberChars == AsciiDigits \cup AsciiLetters \cup {".", "+", "-"}

\* The characters of a number, and of its parts.
LEMMA NumberParts ==
  /\ AsciiDigits \subseteq NumberChars /\ HexDigits \subseteq NumberChars
  /\ {"x", "b", "o", "e", "f", "d", ".", "+", "-"} \subseteq NumberChars
  /\ "0" \in AsciiDigits
  /\ Wide(BinaryDigits) \subseteq Wide(AsciiDigits)
  /\ Wide(OctalDigits) \subseteq Wide(AsciiDigits)
  /\ "." \notin DecimalNumbers
  /\ AsciiLetters \cap Wide(AsciiDigits) = {}
<1>1. AsciiDigits \subseteq NumberChars /\ HexDigits \subseteq NumberChars
  BY DEF NumberChars, AsciiDigits, HexDigits, AsciiLetters
<1>2. {"x", "b", "o", "e", "f", "d", ".", "+", "-"} \subseteq NumberChars
  BY DEF NumberChars, AsciiLetters
<1>3. "0" \in AsciiDigits /\ "." \notin DecimalNumbers
  BY DEF AsciiDigits, DecimalNumbers
<1>4. BinaryDigits \subseteq AsciiDigits /\ OctalDigits \subseteq AsciiDigits
  BY DEF BinaryDigits, OctalDigits, AsciiDigits
<1>5. AsciiLetters \cap Wide(AsciiDigits) = {}
  BY DEF AsciiLetters, Wide, AsciiDigits, LowByte
<1>6. QED
  BY <1>1, <1>2, <1>3, <1>4, <1>5 DEF Wide

LEMMA PassedOne ==
  ASSUME NEW S, NEW i \in Nat, At(i) \in S
  PROVE  Passed(S, i, i + 1)
<1>1. i .. (i + 1) - 1 = {i}
  OBVIOUS
<1>2. QED
  BY <1>1 DEF Passed

LEMMA PassedWithin ==
  ASSUME NEW S, NEW U, S \subseteq U, NEW i, NEW j, Passed(S, i, j)
  PROVE  Passed(U, i, j)
BY DEF Passed

\* A loop over decimal digits passes characters of a number.
LEMMA DigitsPassed ==
  ASSUME src \in Seq(Chars), Unmistakable(src), NEW i \in 0 .. Len(src)
  PROVE  /\ After(Wide(AsciiDigits), i) \in i .. Len(src)
         /\ Passed(NumberChars, i, After(Wide(AsciiDigits), i))
<1>1. "nul" \notin Wide(AsciiDigits)
  BY NulEndsLoops
<1>2. /\ After(Wide(AsciiDigits), i) \in i .. Len(src)
      /\ Passed(Wide(AsciiDigits), i, After(Wide(AsciiDigits), i))
  BY <1>1, LoopPasses
<1> DEFINE q == After(Wide(AsciiDigits), i)
<1> HIDE DEF q
<1>3. q \in i .. Len(src) /\ Passed(Wide(AsciiDigits), i, q)
  BY <1>2 DEF q
<1>4. \A k \in i .. q - 1 : k \in Nat
  BY <1>3
<1>5. \A k \in i .. q - 1 : At(k) \in AsciiDigits
  BY <1>3, <1>4, Mistakes DEF Passed
<1>6. Passed(NumberChars, i, q)
  BY <1>5, NumberParts DEF Passed
<1>7. QED
  BY <1>3, <1>6 DEF q

\* A number behind a base prefix consists of the characters of a number.
LEMMA PrefixedSpelled ==
  ASSUME IInv, pc = "token", ~ Eof(position), IsPrefixed, Unmistakable(src)
  PROVE  Passed(NumberChars, position, Prefixed.end) /\ At(position) \in AsciiDigits
<1>1. /\ src \in Seq(Chars) /\ Len(src) \in Nat /\ position \in Nat
      /\ position \in 0 .. Len(src)
  BY TokenFacts
<1> DEFINE base == At(position + 1)
           S == Wide(DigitsOf[base])
           q == After(S, position + 2)
<1>2. At(position) = "0" /\ base \in {"x", "b", "o"}
  BY DEF IsPrefixed, DigitsOf
<1>3. position + 2 \in 0 .. Len(src)
  BY <1>1, <1>2 DEF At
<1>4. /\ base = "x" => S = Wide(HexDigits)
      /\ base # "x" => S \subseteq Wide(AsciiDigits)
  BY <1>2, NumberParts DEF DigitsOf
<1>5. "nul" \notin S
  BY <1>4, NulEndsLoops, Widened DEF HexDigits, AsciiDigits
<1>6. Prefixed.end = q
  BY DEF Prefixed
<1> HIDE DEF S
<1>7. q \in position + 2 .. Len(src) /\ Passed(S, position + 2, q)
  BY <1>1, <1>3, <1>5, LoopPasses
<1> HIDE DEF q
<1>8. ASSUME NEW k \in position + 2 .. q - 1 PROVE At(k) \in NumberChars
  <2>1. k \in Nat /\ position + 1 \in 0 .. k - 1 /\ At(k) \in S
    BY <1>1, <1>7 DEF Passed
  <2>2. CASE base = "x"
    <3>1. At(k) \in HexDigits
      BY <1>1, <1>4, <2>1, <2>2, Mistakes
    <3>2. QED
      BY <3>1, NumberParts
  <2>3. CASE base # "x"
    <3>1. At(k) \in AsciiDigits
      BY <1>1, <1>4, <2>1, <2>3, Mistakes
    <3>2. QED
      BY <3>1, NumberParts
  <2>4. QED
    BY <2>2, <2>3
<1>9. At(position) \in NumberChars /\ At(position + 1) \in NumberChars
  BY <1>2, NumberParts
<1>10. \A k \in position .. q - 1 : At(k) \in NumberChars
  <2>1. \A k \in position .. q - 1 :
          k = position \/ k = position + 1 \/ k \in position + 2 .. q - 1
    BY <1>1, <1>7
  <2>2. QED
    BY <1>8, <1>9, <2>1
<1>11. QED
  BY <1>2, <1>6, <1>10, NumberParts DEF Passed

\* A decimal number that is well starts with a digit, and consists of digits, a
\* dot, and an exponent with a sign.
LEMMA DecimalSpelled ==
  ASSUME IInv, pc = "token", ~ Eof(position), At(position) \in DecimalNumbers,
         Decimal.ok, Unmistakable(src)
  PROVE  Passed(NumberChars, position, Decimal.end) /\ At(position) \in AsciiDigits
<1> DEFINE digits == Wide(AsciiDigits)
           whole == After(digits, position)
           fraction == IF At(whole) = "." /\ At(whole + 1) \in digits
                       THEN After(digits, whole + 1) ELSE whole
           sign == IF At(fraction + 1) \in {"+", "-"} THEN fraction + 2
                   ELSE fraction + 1
           exponent == After(digits, sign)
<1>1. /\ src \in Seq(Chars) /\ Len(src) \in Nat /\ position \in Nat
      /\ position \in 0 .. Len(src)
  BY TokenFacts
<1>2. Decimal = IF At(fraction) = "e" /\ fraction > position
                THEN [end |-> exponent, ok |-> exponent > sign]
                ELSE [end |-> fraction, ok |-> fraction > position]
  BY DEF Decimal
<1>3. whole \in position .. Len(src) /\ Passed(NumberChars, position, whole)
  BY <1>1, DigitsPassed
<1>4. At(position) \in digits => whole > position
  <2>1. At(whole) \notin digits
    BY <1>1, NulEndsLoops, LoopPasses
  <2> HIDE DEF whole
  <2>2. At(position) \in digits => whole # position
    BY <2>1
  <2> HIDE DEF digits
  <2>3. QED
    BY <1>1, <1>3, <2>2
<1>5. At(position) \notin digits => whole = position
  <2>1. Passed(digits, position, whole)
    BY <1>1, NulEndsLoops, LoopPasses
  <2> HIDE DEF whole
  <2>2. QED
    BY <1>1, <1>3, <2>1 DEF Passed
<1> HIDE DEF whole
<1>6. /\ fraction \in whole .. Len(src) /\ Passed(NumberChars, position, fraction)
      /\ fraction > position => whole > position
  <2>1. CASE At(whole) = "." /\ At(whole + 1) \in digits
    <3>1. whole \in Nat /\ whole + 1 \in 0 .. Len(src)
      BY <1>1, <1>3, <2>1 DEF At
    <3>2. /\ After(digits, whole + 1) \in whole + 1 .. Len(src)
          /\ Passed(NumberChars, whole + 1, After(digits, whole + 1))
      BY <1>1, <3>1, DigitsPassed
    <3>3. fraction = After(digits, whole + 1)
      BY <2>1
    <3> HIDE DEF fraction
    <3>4. Passed(NumberChars, whole, whole + 1)
      BY <2>1, <3>1, NumberParts, PassedOne
    <3>5. Passed(NumberChars, position, whole + 1)
      BY <1>1, <1>3, <3>1, <3>4, PassedOn
    <3>6. fraction \in Nat /\ fraction \in whole .. Len(src)
      BY <1>1, <3>1, <3>2, <3>3
    <3>7. Passed(NumberChars, position, fraction)
      BY <1>1, <3>1, <3>2, <3>3, <3>5, <3>6, PassedOn
    <3>8. whole # position
      <4>1. At(position) # "."
        BY NumberParts
      <4>2. QED
        BY <2>1, <4>1
    <3>9. QED
      BY <1>1, <1>3, <3>6, <3>7, <3>8
  <2>2. CASE ~ (At(whole) = "." /\ At(whole + 1) \in digits)
    BY <1>1, <1>3, <2>2
  <2>3. QED
    BY <2>1, <2>2
<1> HIDE DEF fraction
<1>7. ASSUME whole > position PROVE At(position) \in AsciiDigits
  <2>1. At(position) \in digits
    BY <1>1, <1>5, <1>7
  <2>2. QED
    BY <1>1, <2>1, Mistakes
<1>8. fraction \in Nat /\ fraction \in position .. Len(src)
  BY <1>1, <1>3, <1>6
<1>9. CASE At(fraction) = "e" /\ fraction > position
  <2>1. fraction + 1 \in 0 .. Len(src) /\ Passed(NumberChars, fraction, fraction + 1)
    <3>1. fraction + 1 \in 0 .. Len(src)
      BY <1>1, <1>8, <1>9 DEF At
    <3>2. Passed(NumberChars, fraction, fraction + 1)
      BY <1>8, <1>9, NumberParts, PassedOne
    <3>3. QED
      BY <3>1, <3>2
  <2>2. sign \in 0 .. Len(src) /\ Passed(NumberChars, fraction, sign)
    <3>1. CASE At(fraction + 1) \in {"+", "-"}
      <4>1. fraction + 2 \in 0 .. Len(src)
        BY <1>1, <1>8, <3>1 DEF At
      <4>2. Passed(NumberChars, fraction + 1, (fraction + 1) + 1)
        BY <1>8, <3>1, NumberParts, PassedOne
      <4>3. (fraction + 1) + 1 = fraction + 2 /\ fraction + 1 \in Nat /\ fraction + 2 \in Nat
        BY <1>8
      <4>4. Passed(NumberChars, fraction, fraction + 2)
        BY <1>8, <2>1, <4>2, <4>3, PassedOn
      <4>5. QED
        BY <3>1, <4>1, <4>4
    <3>2. CASE At(fraction + 1) \notin {"+", "-"}
      BY <2>1, <3>2
    <3>3. QED
      BY <3>1, <3>2
  <2> HIDE DEF sign
  <2>3. exponent \in sign .. Len(src) /\ Passed(NumberChars, sign, exponent)
    BY <1>1, <2>2, DigitsPassed
  <2>4. Decimal.end = exponent
    BY <1>2, <1>9
  <2> HIDE DEF exponent
  <2>5. sign \in Nat /\ exponent \in Nat
    BY <1>1, <2>2, <2>3
  <2>6. Passed(NumberChars, position, sign)
    BY <1>1, <1>6, <1>8, <2>2, <2>5, PassedOn
  <2>7. Passed(NumberChars, position, exponent)
    BY <1>1, <2>3, <2>5, <2>6, PassedOn
  <2>8. QED
    BY <1>6, <1>7, <1>9, <2>4, <2>7
<1>10. CASE ~ (At(fraction) = "e" /\ fraction > position)
  <2>1. Decimal = [end |-> fraction, ok |-> fraction > position]
    BY <1>2, <1>10
  <2>2. Decimal.end = fraction /\ Decimal.ok = (fraction > position)
    BY <2>1
  <2>3. fraction > position
    BY <2>2
  <2>4. QED
    BY <1>6, <1>7, <2>2, <2>3
<1>11. QED
  BY <1>9, <1>10

\* A number that is well is spelled like one, with its suffix.
LEMMA NumberCut ==
  ASSUME IInv, pc = "token", ~ Eof(position), At(position) \in DecimalNumbers,
         NEW n, n = IF IsPrefixed THEN Prefixed ELSE Decimal, n.ok,
         At(n.end) \in Wide(AsciiLetters) => At(n.end) \in {"f", "d"},
         NEW q, q = n.end + (IF At(n.end) \in Wide(AsciiLetters) THEN 1 ELSE 0)
  PROVE  CutWell("number", position, q)
<1> SUFFICES ASSUME Unmistakable(src)
             PROVE  Spelled("number", Slice(position, q))
  BY CutByKind DEF Kinds
<1>1. /\ src \in Seq(Chars) /\ Len(src) \in Nat /\ position \in Nat
  BY TokenFacts
<1>2. n.end \in position .. Len(src) /\ n.end > position
  BY NumberEnds
<1>3. Passed(NumberChars, position, n.end) /\ At(position) \in AsciiDigits
  BY PrefixedSpelled, DecimalSpelled
<1> DEFINE e == n.end
<1> HIDE DEF e
<1>4. /\ e \in Nat /\ position < e /\ e <= Len(src)
      /\ Passed(NumberChars, position, e)
  BY <1>1, <1>2, <1>3 DEF e
<1>5. q \in position + 1 .. Len(src) /\ Passed(NumberChars, position, q)
  <2>1. CASE At(e) \in Wide(AsciiLetters)
    <3>1. q = e + 1 /\ At(e) \in {"f", "d"}
      BY <2>1 DEF e
    <3>2. e < Len(src)
      BY <1>4, <3>1 DEF At
    <3>3. Passed(NumberChars, e, e + 1)
      BY <1>4, <3>1, NumberParts, PassedOne
    <3>4. Passed(NumberChars, position, e + 1)
      BY <1>1, <1>4, <3>3, PassedOn
    <3>5. QED
      BY <1>1, <1>4, <3>1, <3>2, <3>4
  <2>2. CASE At(e) \notin Wide(AsciiLetters)
    <3>1. q = e + 0
      BY <2>2 DEF e
    <3>2. QED
      BY <1>1, <1>4, <3>1
  <2>3. QED
    BY <2>1, <2>2
<1>6. Only(Slice(position, q), NumberChars) /\ Slice(position, q)[1] = At(position)
  BY <1>1, <1>5, SliceOnly, SliceIs
<1>7. QED
  BY <1>3, <1>6, SpelledCases DEF NumberChars

\* A string starts and ends with a quotation mark.
LEMMA StringCut ==
  ASSUME IInv, pc = "string", ~ Eof(position), At(position) \in Wide({"dq"}),
         At(start.position) = "dq"
  PROVE  CutWell("string", start.position, position + 1)
<1> DEFINE p == start.position
           q == position + 1
<1> SUFFICES ASSUME Unmistakable(src) PROVE Spelled("string", Slice(p, q))
  BY CutByKind DEF Kinds
<1>1. /\ src \in Seq(Chars) /\ Len(src) \in Nat /\ position \in Nat
      /\ p \in Nat /\ p < position /\ position < Len(src)
  BY PositionFacts
<1>2. At(position) = "dq"
  BY <1>1, Mistakes
<1> HIDE DEF p
<1>3. q \in p + 1 .. Len(src) /\ q - 1 = position /\ q - p >= 2
  BY <1>1
<1>4. Len(Slice(p, q)) = q - p /\ Slice(p, q)[1] = At(p)
      /\ Last(Slice(p, q)) = At(q - 1)
  BY <1>1, <1>3, SliceIs
<1>5. At(p) = "dq"
  BY DEF p
<1>6. QED
  BY <1>2, <1>3, <1>4, <1>5, SpelledCases

LEMMA CharacterCut ==
  ASSUME IInv, pc = "token", ~ Eof(position), At(position) = "sq",
         NEW e \in Nat, e >= position + 2, At(e) = "sq"
  PROVE  CutWell("character", position, e + 1)
<1> SUFFICES Spelled("character", Slice(position, e + 1))
  BY CutByKind DEF Kinds
<1>1. /\ src \in Seq(Chars) /\ Len(src) \in Nat /\ position \in Nat /\ e < Len(src)
  BY TokenFacts DEF At
<1>2. e + 1 \in position + 1 .. Len(src) /\ (e + 1) - 1 = e /\ (e + 1) - position >= 3
  BY <1>1
<1>3. /\ Len(Slice(position, e + 1)) = (e + 1) - position
      /\ Slice(position, e + 1)[1] = At(position)
      /\ Last(Slice(position, e + 1)) = At((e + 1) - 1)
  BY <1>1, <1>2, SliceIs
<1>4. QED
  BY <1>2, <1>3, SpelledCases

\* Newlines and white space consist of nothing else.
LEMMA BlankCut ==
  ASSUME IInv, pc = "token", ~ Eof(position), NEW q \in position + 1 .. Len(src)
  PROVE  /\ Passed(Newlines, position, q) => CutWell("newline", position, q)
         /\ Passed(Blanks, position, q) => CutWell("whitespace", position, q)
<1>1. /\ src \in Seq(Chars) /\ Len(src) \in Nat /\ position \in Nat
  BY TokenFacts
<1>2. ASSUME Passed(Newlines, position, q) PROVE CutWell("newline", position, q)
  <2>1. Only(Slice(position, q), Newlines)
    BY <1>1, <1>2, SliceOnly
  <2>2. QED
    BY <2>1, SpelledCases, CutByKind DEF Kinds
<1>3. ASSUME Passed(Blanks, position, q) PROVE CutWell("whitespace", position, q)
  <2>1. Only(Slice(position, q), Blanks)
    BY <1>1, <1>3, SliceOnly
  <2>2. QED
    BY <2>1, SpelledCases, CutByKind DEF Kinds
<1>4. QED
  BY <1>2, <1>3

\* A comment starts with its two characters, and one that is closed ends so.
LEMMA CommentCut ==
  ASSUME IInv, pc = "token", ~ Eof(position), At(position) = "/",
         NEW q \in position + 2 .. Len(src)
  PROVE  /\ At(position + 1) = "/" =>
              /\ CutWell("inlineComment", position, q)
              /\ CutWell("documentationComment", position, q)
         /\ At(position + 1) = "*" /\ q \in Closings(position + 2) =>
              CutWell("blockComment", position, q)
<1>1. /\ src \in Seq(Chars) /\ Len(src) \in Nat /\ position \in Nat
  BY TokenFacts
<1>2. SubSeq(Slice(position, q), 1, 2) = <<At(position), At(position + 1)>>
  BY <1>1, FirstTwo
<1>3. ASSUME At(position + 1) = "/"
      PROVE  /\ CutWell("inlineComment", position, q)
             /\ CutWell("documentationComment", position, q)
  <2>1. /\ Spelled("inlineComment", Slice(position, q))
        /\ Spelled("documentationComment", Slice(position, q))
    BY <1>2, <1>3, SpelledCases
  <2>2. QED
    BY <2>1, CutByKind DEF Kinds
<1>4. ASSUME At(position + 1) = "*", q \in Closings(position + 2)
      PROVE  CutWell("blockComment", position, q)
  <2>1. q \in position + 4 .. Len(src) /\ src[q - 1] = "*" /\ src[q] = "/"
    BY <1>1, <1>4 DEF Closings
  <2>2. At(q - 2) = "*" /\ At(q - 1) = "/"
    <3>1. q - 2 < Len(src) /\ (q - 2) + 1 = q - 1 /\ q - 1 < Len(src) /\ (q - 1) + 1 = q
      BY <1>1, <2>1
    <3>2. QED
      BY <2>1, <3>1 DEF At
  <2>3. SubSeq(Slice(position, q), Len(Slice(position, q)) - 1, Len(Slice(position, q)))
          = <<At(q - 2), At(q - 1)>>
    BY <1>1, LastTwo
  <2>4. Len(Slice(position, q)) >= 4
    <3>1. Len(Slice(position, q)) = q - position
      BY <1>1, SliceIs
    <3>2. QED
      BY <1>1, <2>1, <3>1
  <2>5. Spelled("blockComment", Slice(position, q))
    BY <1>2, <1>4, <2>2, <2>3, <2>4, SpelledCases
  <2>6. QED
    BY <2>5, CutByKind DEF Kinds
<1>5. QED
  BY <1>3, <1>4

-----------------------------------------------------------------------------
(* What a step is                                                          *)

\* The step reads on without a token or an error.
Skips ==
  /\ pc \in {"trivia", "string"}
  /\ \E q \in position .. Len(src) :
       /\ Advance(q)
       /\ pc = "trivia" =>
            \A k \in position .. q - 1 :
              At(k) \in Blanks \/ InCommentFrom(position, k)
  /\ pc = "trivia" => ~ (mode = "kFormat" /\ Undocumented)
  /\ UNCHANGED <<input, status, pc, start, tokens, errors, resets>>

\* The step returns a token that starts where the text still to be covered
\* does, is not empty, ends in the source and is spelled the way its kind is.
Emits ==
  \E kind \in Kinds \ {"eof"}, q \in position .. Len(src) :
    /\ Behind < q
    /\ Emit(kind, IF pc = "string" THEN start ELSE here, q)
    /\ CutWell(kind, Behind, q)

\* The step returns an error, and has not gone back.
Reports == \E q \in position .. Len(src) : \E error : Report(error, q)

LEMMA IdentifierEnds == IInv /\ IdentifierOrKeyword => Emits
<1> SUFFICES ASSUME IInv, IdentifierOrKeyword PROVE Emits
  OBVIOUS
<1> DEFINE q == After(XidContinue, position)
<1>1. pc = "token" /\ ~ Eof(position) /\ At(position) \in XidStart
  BY DEF IdentifierOrKeyword, CurrentIn
<1>2. q \in position .. Len(src) /\ Behind < q
  <2>1. After(XidContinue, position) \in position + 1 .. Len(src)
    BY <1>1, TokenFacts, NulEndsLoops, AfterPasses
  <2>2. QED
    BY <1>1, <2>1, TokenFacts
<1> DEFINE kind == IF SubSeq(Bytes, position + 1, q) \in Keywords THEN "keyword"
                   ELSE "identifier"
<1>3. Emit(kind, here, q)
  BY DEF IdentifierOrKeyword
<1>4. CutWell(kind, position, q)
  BY <1>1, WordCut
<1>5. kind \in {"keyword", "identifier"}
  OBVIOUS
<1> HIDE DEF kind, q
<1>6. QED
  BY <1>1, <1>2, <1>3, <1>4, <1>5, TokenFacts DEF Emits, Kinds

LEMMA NumericEnds == IInv /\ LiteralNumeric => Emits \/ Reports
<1> SUFFICES ASSUME IInv, LiteralNumeric PROVE Emits \/ Reports
  OBVIOUS
<1> DEFINE n == IF IsPrefixed THEN Prefixed ELSE Decimal
<1>1. pc = "token" /\ ~ Eof(position) /\ At(position) \in DecimalNumbers
  BY DEF LiteralNumeric, CurrentIn
<1>2. n.end \in position .. Len(src) /\ (n.ok => n.end > position)
  BY <1>1, NumberEnds
<1>3. \/ /\ n.ok
         /\ At(n.end) \in Wide(AsciiLetters) => At(n.end) \in {"f", "d"}
         /\ Emit("number", here, n.end + (IF At(n.end) \in Wide(AsciiLetters)
                                          THEN 1 ELSE 0))
      \/ Fail("kInvalidNumericLiteral", here, n.end)
  BY DEF LiteralNumeric
<1> HIDE DEF n
<1>4. CASE Fail("kInvalidNumericLiteral", here, n.end)
  BY <1>2, <1>4 DEF Fail, Reports
<1>5. CASE /\ n.ok
           /\ At(n.end) \in Wide(AsciiLetters) => At(n.end) \in {"f", "d"}
           /\ Emit("number", here, n.end + (IF At(n.end) \in Wide(AsciiLetters)
                                            THEN 1 ELSE 0))
  <2> DEFINE q == n.end + (IF At(n.end) \in Wide(AsciiLetters) THEN 1 ELSE 0)
  <2>1. q \in position .. Len(src) /\ position < q
    <3>1. n.end \in Nat /\ position \in Nat /\ Len(src) \in Nat
          /\ position < n.end /\ n.end <= Len(src)
      BY <1>1, <1>2, <1>5, TokenFacts
    <3>2. At(n.end) \in Wide(AsciiLetters) => n.end < Len(src)
      BY <3>1, NulEndsLoops DEF At
    <3>3. QED
      BY <3>1, <3>2
  <2>2. Emit("number", here, q)
    BY <1>5
  <2>3. CutWell("number", position, q)
    BY <1>1, <1>5, NumberCut DEF n
  <2> HIDE DEF q
  <2>4. QED
    BY <1>1, <2>1, <2>2, <2>3, TokenFacts DEF Emits, Kinds
<1>6. QED
  BY <1>3, <1>4, <1>5

LEMMA SkipWhitespaceEnds == IInv /\ SkipWhitespace => Skips
<1> SUFFICES ASSUME IInv, SkipWhitespace PROVE Skips
  OBVIOUS
<1> DEFINE q == After(Blanks, position)
<1>1. q \in position .. Len(src) /\ \A k \in position .. q - 1 : src[k + 1] \in Blanks
  BY PositionFacts, AfterStops
<1>2. \A k \in position .. q - 1 : At(k) \in Blanks
  BY <1>1, PositionFacts DEF At
<1>3. Advance(q) /\ pc = "trivia" /\ mode # "kFormat"
      /\ UNCHANGED <<input, status, pc, start, tokens, errors, resets>>
  BY DEF SkipWhitespace, IsBlank
<1> HIDE DEF q
<1>4. QED
  BY <1>1, <1>2, <1>3 DEF Skips

LEMMA SkipLineCommentEnds == IInv /\ SkipLineComment => Skips
<1> SUFFICES ASSUME IInv, SkipLineComment PROVE Skips
  OBVIOUS
<1> DEFINE q == After(Chars \ Newlines, position + 2)
<1>1. /\ Advance(q) /\ pc = "trivia" /\ At(position) = "/" /\ At(position + 1) = "/"
      /\ UNCHANGED <<input, status, pc, start, tokens, errors, resets>>
  BY DEF SkipLineComment, IsLineComment
<1>2. ~ (mode = "kFormat" /\ Undocumented)
  <2>1. position \in 0 .. Len(src)
    BY PositionFacts
  <2>2. mode = "kFormat" => At(position + 2) = "@"
    BY DEF SkipLineComment, IsLineComment
  <2>3. QED
    BY <1>1, <2>1, <2>2 DEF Undocumented
<1>3. position + 2 \in 0 .. Len(src)
  BY <1>1, PositionFacts
<1>4. /\ q \in position + 2 .. Len(src)
      /\ \A k \in position + 2 .. q - 1 : src[k + 1] \in Chars \ Newlines
  BY <1>3, PositionFacts, AfterStops
<1>5. "/" \notin Newlines
  BY DEF Newlines
<1> HIDE DEF q
<1>6. \A m \in position .. q - 1 : At(m) \notin Newlines
  <2> SUFFICES ASSUME NEW m \in position .. q - 1 PROVE At(m) \notin Newlines
    OBVIOUS
  <2>1. m = position \/ m = position + 1 \/ m \in position + 2 .. q - 1
    BY <1>4, PositionFacts
  <2>2. ASSUME m \in position + 2 .. q - 1 PROVE At(m) \notin Newlines
    BY <1>4, <2>2, PositionFacts DEF At
  <2>3. QED
    BY <1>1, <1>5, <2>1, <2>2
<1>7. q \in position .. Len(src)
  BY <1>4, PositionFacts
<1>8. ASSUME NEW k \in position .. q - 1 PROVE InCommentFrom(position, k)
  <2>1. \A m \in position .. k : m \in position .. q - 1
    BY <1>7, PositionFacts
  <2>2. QED
    BY <1>1, <1>6, <2>1 DEF InCommentFrom
<1>9. QED
  BY <1>1, <1>2, <1>7, <1>8 DEF Skips

LEMMA SkipBlockCommentEnds == IInv /\ SkipBlockComment => Skips
<1> SUFFICES ASSUME IInv, SkipBlockComment PROVE Skips
  OBVIOUS
<1> DEFINE q == BlockEnd(position + 2)
<1>1. /\ Advance(q) /\ pc = "trivia" /\ At(position) = "/" /\ At(position + 1) = "*"
      /\ ~ Eof(q) /\ mode # "kFormat"
      /\ UNCHANGED <<input, status, pc, start, tokens, errors, resets>>
  BY DEF SkipBlockComment, IsBlockComment
<1>2. position + 2 \in 0 .. Len(src)
  BY <1>1, PositionFacts
<1>3. /\ q \in position + 2 .. Len(src)
      /\ \A m \in Closings(position + 2) : q <= m
  BY <1>1, <1>2, PositionFacts, BlockEndStops DEF Eof
<1> HIDE DEF q
<1>4. \A k \in position .. q - 1 : InCommentFrom(position, k)
  BY <1>1, <1>3, PositionFacts DEF InCommentFrom, Closings
<1>5. q \in position .. Len(src)
  BY <1>3, PositionFacts
<1>6. QED
  BY <1>1, <1>4, <1>5 DEF Skips

LEMMA SkipToEofEnds == IInv /\ SkipBlockCommentToEof => Reports
<1> SUFFICES ASSUME IInv, SkipBlockCommentToEof PROVE Reports
  OBVIOUS
<1>1. Len(src) \in position .. Len(src)
  BY PositionFacts
<1>2. QED
  BY <1>1 DEF SkipBlockCommentToEof, Reports

LEMMA StringEnds ==
  IInv /\ (StrCharacters \/ StrEscape \/ StrClose \/ StrUnterminated)
    => Skips \/ Emits \/ Reports
<1> SUFFICES ASSUME IInv PROVE (StrCharacters \/ StrEscape \/ StrClose
                                 \/ StrUnterminated) => Skips \/ Emits \/ Reports
  OBVIOUS
<1>1. ASSUME StrCharacters PROVE Skips
  <2> DEFINE q == After(Chars \ Wide({"dq", "bs"}), position)
  <2>1. q \in position .. Len(src)
    BY PositionFacts, AfterStops
  <2>2. Advance(q) /\ pc = "string"
        /\ UNCHANGED <<input, status, pc, start, tokens, errors, resets>>
    BY <1>1 DEF StrCharacters
  <2> HIDE DEF q
  <2>3. QED
    BY <2>1, <2>2 DEF Skips
<1>2. ASSUME StrEscape PROVE Skips \/ Reports
  <2>1. pc = "string" /\ ~ Eof(position)
    BY <1>2 DEF StrEscape
  <2>2. position + 1 \in position .. Len(src)
    BY <2>1, PositionFacts
  <2>3. CASE Eof(position + 1) \/ At(position + 1) \in Wide(ValidEscapes)
    <3> DEFINE q == IF Eof(position + 1) THEN position + 1 ELSE position + 2
    <3>1. q \in position .. Len(src)
      <4>1. ~ Eof(position + 1) => position + 2 \in position .. Len(src)
        BY PositionFacts
      <4>2. QED
        BY <2>2, <4>1
    <3>2. Advance(q)
          /\ UNCHANGED <<input, status, pc, start, tokens, errors, resets>>
      BY <1>2, <2>3 DEF StrEscape
    <3> HIDE DEF q
    <3>3. QED
      BY <2>1, <3>1, <3>2 DEF Skips
  <2>4. CASE ~ (Eof(position + 1) \/ At(position + 1) \in Wide(ValidEscapes))
    BY <1>2, <2>2, <2>4 DEF StrEscape, Fail, Reports
  <2>5. QED
    BY <2>3, <2>4
<1>3. ASSUME StrClose PROVE Emits
  <2>1. pc = "string" /\ ~ Eof(position) /\ Emit("string", start, position + 1)
    BY <1>3 DEF StrClose
  <2>2. position + 1 \in position .. Len(src) /\ Behind < position + 1
    BY <2>1, PositionFacts DEF Behind
  <2>3. CutWell("string", start.position, position + 1)
    BY <1>3, <2>1, StringCut DEF StrClose, IInv, Typed
  <2>4. Behind = start.position
    BY <2>1 DEF Behind
  <2>5. QED
    BY <2>1, <2>2, <2>3, <2>4 DEF Emits, Kinds
<1>4. ASSUME StrUnterminated PROVE Reports
  <2>1. position \in position .. Len(src)
    BY PositionFacts
  <2>2. QED
    BY <1>4, <2>1 DEF StrUnterminated, Fail, Reports
<1>5. QED
  BY <1>1, <1>2, <1>3, <1>4

\* A character literal is looked at where it is closed, in the source.
LEMMA CharacterEnds == IInv /\ (LiteralChar \/ CharUnterminated) => Emits \/ Reports
<1> SUFFICES ASSUME IInv PROVE (LiteralChar \/ CharUnterminated) => Emits \/ Reports
  OBVIOUS
<1>1. ASSUME CharUnterminated PROVE Reports
  <2>1. position + 1 \in position .. Len(src)
    BY <1>1, PositionFacts DEF CharUnterminated, Current
  <2>2. QED
    BY <1>1, <2>1 DEF CharUnterminated, Fail, Reports
<1>2. ASSUME LiteralChar PROVE Emits \/ Reports
  <2>1. pc = "token" /\ ~ Eof(position) /\ ~ Eof(position + 1)
    BY <1>2 DEF LiteralChar, Current
  <2>2. position + 2 \in position .. Len(src) /\ position + 2 \in 0 .. Len(src)
    BY <2>1, PositionFacts
  <2>3. CharEnd \in Nat /\ CharEnd >= position + 2
    <3>1. EscapeEnd(position + 2) \in Nat
          /\ EscapeEnd(position + 2) >= position + 2
      <4>1. After(Wide(OctalDigits), position + 2) \in position + 2 .. Len(src)
        BY <2>2, PositionFacts, AfterStops
      <4>2. QED
        BY <4>1, PositionFacts DEF EscapeEnd
    <3>2. QED
      BY <3>1, PositionFacts DEF CharEnd
  <2>4. CASE Fail("kInvalidCharacterEscape", here, position + 2)
    BY <2>2, <2>4 DEF Fail, Reports
  <2>5. CASE At(CharEnd) = "sq" /\ Emit("character", here, CharEnd + 1)
    <3>1. CharEnd + 1 \in position .. Len(src) /\ position < CharEnd + 1
      BY <2>3, <2>5, PositionFacts
    <3>2. CutWell("character", position, CharEnd + 1)
      BY <1>2, <2>1, <2>3, <2>5, CharacterCut DEF LiteralChar, Current
    <3>3. QED
      BY <2>1, <2>5, <3>1, <3>2, TokenFacts DEF Emits, Kinds
  <2>6. CASE Fail("kUnterminatedCharacterLiteral", here,
                  IF Eof(CharEnd) THEN Len(src) ELSE CharEnd)
    <3> DEFINE q == IF Eof(CharEnd) THEN Len(src) ELSE CharEnd
    <3>1. q \in position .. Len(src)
      BY <2>3, PositionFacts DEF Eof
    <3> HIDE DEF q
    <3>2. Fail("kUnterminatedCharacterLiteral", here, q)
      BY <2>6 DEF q
    <3>3. QED
      BY <3>1, <3>2 DEF Fail, Reports
  <2>7. QED
    BY <1>2, <2>4, <2>5, <2>6 DEF LiteralChar
<1>3. QED
  BY <1>1, <1>2

\* What is read of the source in one go outside literals, comments and numbers.
LEMMA SimpleEnds ==
  IInv /\ (Delimiter \/ Operator \/ AsciiNewline \/ AsciiSpace \/ UnicodeNewline
             \/ UnicodeWhitespace)
    => Emits
<1> SUFFICES ASSUME IInv, Delimiter \/ Operator \/ AsciiNewline \/ AsciiSpace
                            \/ UnicodeNewline \/ UnicodeWhitespace
             PROVE  Emits
  OBVIOUS
<1>1. pc = "token" /\ ~ Eof(position)
  BY DEF Delimiter, Operator, AsciiNewline, AsciiSpace, UnicodeNewline,
     UnicodeWhitespace, CurrentIn, Current
<1>2. position + 1 \in position .. Len(src) /\ position + 1 \in 0 .. Len(src)
  BY <1>1, PositionFacts
<1>3. \A k \in {"operator", "newline", "whitespace"}, q \in position .. Len(src) :
        position < q /\ Emit(k, here, q) /\ CutWell(k, position, q) => Emits
  BY <1>1, TokenFacts DEF Emits, Kinds
<1>4. /\ position < position + 1 /\ position < position + 2
      /\ position \in Nat /\ Len(src) \in Nat /\ position < Len(src)
      /\ src \in Seq(Chars)
  BY <1>1, PositionFacts
<1>5. ASSUME Delimiter PROVE Emits
  <2>1. CutWell("operator", position, position + 1)
    BY <1>1, <1>5, OperatorCut DEF Delimiter, CurrentIn
  <2>2. QED
    BY <1>2, <1>3, <1>4, <1>5, <2>1 DEF Delimiter
<1>6. ASSUME Operator PROVE Emits
  <2>1. At(position) \in DOMAIN PairTails
    BY <1>6 DEF Operator, CurrentIn
  <2>2. CASE At(position + 1) \in PairTails[At(position)]
    <3>1. position + 2 \in position .. Len(src)
      BY <2>1, <2>2, NulEndsOperators, PositionFacts
    <3>2. Emit("operator", here, position + 2)
      BY <1>6, <2>2 DEF Operator
    <3>3. CutWell("operator", position, position + 2)
      BY <1>1, <2>1, <2>2, OperatorCut
    <3>4. QED
      BY <1>3, <1>4, <3>1, <3>2, <3>3
  <2>3. CASE At(position + 1) \notin PairTails[At(position)]
    <3>1. CutWell("operator", position, position + 1)
      BY <1>1, <2>1, <2>3, OperatorCut
    <3>2. QED
      BY <1>2, <1>3, <1>4, <1>6, <2>3, <3>1 DEF Operator
  <2>4. QED
    BY <2>2, <2>3
<1>7. ASSUME NEW S, At(position) \in S PROVE Passed(S, position, position + 1)
  BY <1>4, <1>7, PassedOne
<1>8. position + 1 \in position + 1 .. Len(src)
  BY <1>4
<1>9. ASSUME UnicodeNewline PROVE Emits
  <2>1. At(position) \in Newlines
    BY <1>9 DEF UnicodeNewline, CurrentIn
  <2>2. CutWell("newline", position, position + 1)
    BY <1>1, <1>7, <1>8, <2>1, BlankCut
  <2>3. QED
    BY <1>2, <1>3, <1>4, <1>9, <2>2 DEF UnicodeNewline
<1>10. ASSUME AsciiNewline PROVE Emits
  <2>1. At(position) \in Newlines
    BY <1>10 DEF AsciiNewline, CurrentIn, Newlines
  <2>2. CASE At(position) = "cr" /\ At(position + 1) = "nl"
    <3>1. position + 2 \in position .. Len(src)
          /\ position + 2 \in position + 1 .. Len(src)
      BY <2>2, PositionFacts
    <3>2. Emit("newline", here, position + 2)
      BY <1>10, <2>2 DEF AsciiNewline
    <3>3. \A k \in position .. (position + 2) - 1 : k = position \/ k = position + 1
      BY <1>4
    <3>4. At(position + 1) \in Newlines
      BY <2>2 DEF Newlines
    <3>5. Passed(Newlines, position, position + 2)
      BY <2>1, <3>3, <3>4 DEF Passed
    <3>6. CutWell("newline", position, position + 2)
      BY <1>1, <3>1, <3>5, BlankCut
    <3>7. QED
      BY <1>3, <1>4, <3>1, <3>2, <3>6
  <2>3. CASE ~ (At(position) = "cr" /\ At(position + 1) = "nl")
    <3>1. CutWell("newline", position, position + 1)
      BY <1>1, <1>7, <1>8, <2>1, BlankCut
    <3>2. QED
      BY <1>2, <1>3, <1>4, <1>10, <2>3, <3>1 DEF AsciiNewline
  <2>4. QED
    BY <2>2, <2>3
<1>11. ASSUME AsciiSpace PROVE Emits
  <2> DEFINE q == After(Blanks, position + 1)
  <2>1. q \in position + 1 .. Len(src) /\ Passed(Blanks, position + 1, q)
    BY <1>2, <1>4, NulEndsLoops, LoopPasses
  <2>2. Emit("whitespace", here, q)
    BY <1>11 DEF AsciiSpace
  <2> HIDE DEF q
  <2>3. At(position) \in Blanks
    BY <1>11 DEF AsciiSpace, Current, Blanks, Whitespace, Newlines
  <2>4. q \in Nat /\ q \in position .. Len(src) /\ position < q
        /\ position + 1 \in Nat
    BY <1>4, <2>1
  <2>5. Passed(Blanks, position, q)
    BY <1>4, <1>7, <2>1, <2>3, <2>4, PassedOn
  <2>6. CutWell("whitespace", position, q)
    BY <1>1, <2>1, <2>5, BlankCut
  <2>7. QED
    BY <1>3, <2>2, <2>4, <2>6
<1>12. ASSUME UnicodeWhitespace PROVE Emits
  <2> DEFINE q == After(Blanks, position)
  <2>1. At(position) \in Blanks
    BY <1>12 DEF UnicodeWhitespace, CurrentIn
  <2>2. q \in position + 1 .. Len(src)
    BY <1>1, <2>1, PositionFacts, AfterPasses
  <2>3. Passed(Blanks, position, q)
    BY <1>4, PositionFacts, NulEndsLoops, LoopPasses
  <2>4. Emit("whitespace", here, q)
    BY <1>12 DEF UnicodeWhitespace
  <2> HIDE DEF q
  <2>5. q \in position .. Len(src) /\ position < q
    BY <1>4, <2>2
  <2>6. CutWell("whitespace", position, q)
    BY <1>1, <2>2, <2>3, BlankCut
  <2>7. QED
    BY <1>3, <2>4, <2>5, <2>6
<1>13. QED
  BY <1>5, <1>6, <1>9, <1>10, <1>11, <1>12

\* A comment that is kept ends in the source.
LEMMA CommentEnds == IInv /\ (LineComment \/ BlockComment) => Emits \/ Reports
<1> SUFFICES ASSUME IInv PROVE LineComment \/ BlockComment => Emits \/ Reports
  OBVIOUS
<1>1. ASSUME LineComment PROVE Emits
  <2> DEFINE q == After(Chars \ Newlines, position + 2)
  <2>1. pc = "token" /\ ~ Eof(position) /\ At(position + 1) = "/"
    BY <1>1 DEF LineComment, Current
  <2>2. position + 2 \in 0 .. Len(src)
    BY <2>1, PositionFacts
  <2>3. q \in position + 2 .. Len(src)
    BY <2>2, PositionFacts, AfterStops
  <2>4. \E kind \in {"documentationComment", "inlineComment"} : Emit(kind, here, q)
    BY <1>1 DEF LineComment
  <2> HIDE DEF q
  <2>5. q \in position .. Len(src) /\ position < q
    BY <2>3, PositionFacts
  <2>6. /\ CutWell("inlineComment", position, q)
        /\ CutWell("documentationComment", position, q)
    BY <1>1, <2>1, <2>3, CommentCut DEF LineComment, Current
  <2>7. QED
    BY <2>1, <2>4, <2>5, <2>6, TokenFacts DEF Emits, Kinds
<1>2. ASSUME BlockComment PROVE Emits \/ Reports
  <2> DEFINE q == BlockEnd(position + 2)
  <2>1. pc = "token" /\ ~ Eof(position) /\ At(position + 1) = "*"
    BY <1>2 DEF BlockComment, Current
  <2>2. position + 2 \in 0 .. Len(src)
    BY <2>1, PositionFacts
  <2>3. q \in position + 2 .. Len(src)
    BY <2>2, PositionFacts, BlockEndStops
  <2>4. \/ Closings(position + 2) # {} /\ Emit("blockComment", here, q)
        \/ Fail("kUnterminatedBlockComment", here, Len(src))
    BY <1>2 DEF BlockComment
  <2>5. Closings(position + 2) # {} => q \in Closings(position + 2)
    BY <2>2, PositionFacts, BlockEndStops
  <2> HIDE DEF q
  <2>6. q \in position .. Len(src) /\ position < q
        /\ Len(src) \in position .. Len(src)
    BY <2>3, PositionFacts
  <2>7. Closings(position + 2) # {} => CutWell("blockComment", position, q)
    BY <1>2, <2>1, <2>3, <2>5, CommentCut DEF BlockComment, Current
  <2>8. QED
    BY <2>1, <2>4, <2>6, <2>7, TokenFacts DEF Emits, Kinds, Fail, Reports
<1>3. QED
  BY <1>1, <1>2

\* The characters that start no token are reported.
LEMMA UnknownEnds ==
  IInv /\ (NulCharacter \/ Backslash \/ UnknownAscii \/ UnknownUnicode) => Reports
<1> SUFFICES ASSUME IInv, NulCharacter \/ Backslash \/ UnknownAscii \/ UnknownUnicode
             PROVE  Reports
  OBVIOUS
<1>1. ~ Eof(position)
  BY DEF NulCharacter, Backslash, UnknownAscii, UnknownUnicode, CurrentIn, Current
<1>2. position \in position .. Len(src) /\ position + 1 \in position .. Len(src)
  BY <1>1, PositionFacts
<1>3. QED
  BY <1>2 DEF NulCharacter, Backslash, UnknownAscii, UnknownUnicode, Fail, Reports

-----------------------------------------------------------------------------
(* Every step keeps the invariant                                          *)

LEMMA InitIInv == Init => IInv
<1> SUFFICES ASSUME Init PROVE IInv
  OBVIOUS
<1>1. /\ src \in Sources /\ mode \in Modes[src] /\ strict \in BOOLEAN
      /\ position = 0 /\ line = 1 /\ column = 1 /\ pc = "ready"
      /\ status = "kReadyToTokenize" /\ start = here
      /\ tokens = << >> /\ resets = 0
  BY DEF Init
<1>2. src \in Seq(Chars) /\ Len(src) \in Nat
  BY <1>1, LexerAssumption
<1>3. start \in [position: Nat, line: Nat, column: Nat]
  BY <1>1 DEF here
<1>4. Typed
  BY <1>1, <1>2, <1>3 DEF Typed, TypeOK
<1>5. Places
  <2>1. LineFeeds(0, 0) = {} /\ LineFeeds(0 + 1 - 1, 0) = {}
    BY DEF LineFeeds
  <2>2. Cardinality(LineFeeds(0, 0)) = 0
    BY <2>1, FS_EmptySet
  <2>3. IsPlaceOf(0, 1, 1)
    BY <2>1, <2>2 DEF IsPlaceOf
  <2>4. QED
    BY <1>1, <2>3 DEF Places
<1>6. TokensPlaced /\ InOrder
  BY <1>1 DEF TokensPlaced, InOrder
<1>7. Behind = 0 /\ Covered = {}
  BY <1>1 DEF Behind, Covered
<1>8. GapsPassed /\ FormatCovers
  BY <1>7 DEF GapsPassed, FormatCovers
<1>9. QED
  BY <1>1, <1>4, <1>5, <1>6, <1>8 DEF IInv

\* tokenize() starts at the position, with nothing covered.
LEMMA TokenizeStep == IInv /\ Tokenize => IInv'
<1> SUFFICES ASSUME IInv, Tokenize PROVE IInv'
  OBVIOUS
<1>1. /\ src' = src /\ mode' = mode /\ strict' = strict /\ status' = status
      /\ pc = "ready" /\ pc' = "trivia" /\ start' = start /\ tokens' = << >>
      /\ resets' = resets
      /\ position' = position /\ line' = line /\ column' = column
      /\ position = 0
  BY DEF Tokenize, input, place, IInv
<1>2. Typed'
  BY <1>1 DEF IInv, Typed, TypeOK
<1>3. ASSUME resets' = 0 PROVE Places'
  BY <1>1, <1>3, SourceKept DEF IInv, Places
<1>4. TokensPlaced' /\ InOrder'
  BY <1>1 DEF TokensPlaced, InOrder
<1>5. Behind' = 0 /\ Covered' = {}
  BY <1>1 DEF Behind, Covered
<1>6. GapsPassed' /\ FormatCovers'
  BY <1>5 DEF GapsPassed, FormatCovers
<1>7. QED
  BY <1>1, <1>2, <1>3, <1>4, <1>6 DEF IInv

LEMMA TriviaDoneStep == IInv /\ TriviaDone => IInv'
<1> SUFFICES ASSUME IInv, TriviaDone PROVE IInv'
  OBVIOUS
<1>1. /\ src' = src /\ mode' = mode /\ strict' = strict /\ status' = status
      /\ pc = "trivia" /\ pc' = "token" /\ start' = start /\ tokens' = tokens
      /\ errors' = errors /\ resets' = resets
      /\ position' = position /\ line' = line /\ column' = column
  BY DEF TriviaDone, input, place
<1>2. Typed'
  BY <1>1 DEF IInv, Typed, TypeOK
<1>3. Behind' = Behind
  BY <1>1 DEF Behind
<1>4. ASSUME resets' = 0 PROVE Places' /\ TokensPlaced' /\ InOrder'
  <2>1. Places /\ TokensPlaced /\ InOrder
    BY <1>1, <1>4 DEF IInv
  <2>2. Places'
    BY <1>1, <2>1, SourceKept DEF Places
  <2>3. TokensPlaced'
    BY <1>1, <1>3, <2>1, SourceKept DEF TokensPlaced
  <2>4. InOrder'
    BY <1>1, <2>1, SourceKept DEF InOrder
  <2>5. QED
    BY <2>2, <2>3, <2>4
<1>5. ASSUME resets' = 0, errors' = {} PROVE GapsPassed' /\ FormatCovers'
  BY <1>1, <1>3, <1>5, SourceKept, CoveredKept DEF IInv, GapsPassed, FormatCovers
<1>6. QED
  BY <1>1, <1>2, <1>4, <1>5 DEF IInv

LEMMA ResetStep == IInv /\ Reset => IInv'
<1> SUFFICES ASSUME IInv, Reset PROVE IInv'
  OBVIOUS
<1>1. /\ src' = src /\ mode' = mode /\ strict' = strict
      /\ status' = "kReadyToTokenize" /\ pc' = "ready" /\ start' = start
      /\ tokens' = tokens /\ resets' = resets + 1 /\ resets \in Nat
      /\ position' = 0 /\ line' = 0 /\ column' = 0
  BY DEF Reset, input, IInv, Typed
<1>2. Len(src) \in Nat
  BY PositionFacts
<1>3. Typed'
  BY <1>1, <1>2 DEF IInv, Typed, TypeOK
<1>4. QED
  BY <1>1, <1>3 DEF IInv

LEMMA NextIInv == IInv /\ [Next]_vars => IInv'
<1> SUFFICES ASSUME IInv, [Next]_vars PROVE IInv'
  OBVIOUS
<1>0. ASSUME Skips PROVE IInv'
  <2>1. PICK q \in position .. Len(src) :
          /\ Advance(q)
          /\ pc = "trivia" =>
               \A k \in position .. q - 1 :
                 At(k) \in Blanks \/ InCommentFrom(position, k)
    BY <1>0 DEF Skips
  <2>2. QED
    BY <1>0, <2>1, SkipStep DEF Skips
<1>1. ASSUME pc \in {"token", "string"}, Skips \/ Emits \/ Reports PROVE IInv'
  <2>1. CASE Emits
    <3>1. PICK kind \in Kinds \ {"eof"}, q \in position .. Len(src) :
            Behind < q /\ Emit(kind, IF pc = "string" THEN start ELSE here, q)
      BY <2>1 DEF Emits
    <3>2. QED
      BY <1>1, <3>1, EmitStep
  <2>2. CASE Reports
    BY <1>1, <2>2, ReportStep DEF Reports
  <2>3. QED
    BY <1>0, <1>1, <2>1, <2>2
<1>2. CASE UNCHANGED vars
  <2>1. /\ src' = src /\ mode' = mode /\ strict' = strict /\ status' = status
        /\ pc' = pc /\ start' = start /\ tokens' = tokens /\ errors' = errors
        /\ resets' = resets
        /\ position' = position /\ line' = line /\ column' = column
    BY <1>2 DEF vars, input, place
  <2>2. Typed' /\ Behind' = Behind
    BY <2>1 DEF IInv, Typed, TypeOK, Behind, At
  <2>3. QED
    BY <2>1, <2>2, SourceKept, CoveredKept
       DEF IInv, Places, TokensPlaced, InOrder, GapsPassed, FormatCovers
<1>3. CASE SkipWhitespace
  BY <1>0, <1>3, SkipWhitespaceEnds
<1>4. CASE SkipLineComment
  BY <1>0, <1>4, SkipLineCommentEnds
<1>5. CASE SkipBlockComment
  BY <1>0, <1>5, SkipBlockCommentEnds
<1>6. CASE SkipBlockCommentToEof
  BY <1>6, SkipToEofEnds, ReportStep DEF SkipBlockCommentToEof, Reports
<1>7. CASE StrCharacters \/ StrEscape \/ StrClose \/ StrUnterminated
  <2>1. pc = "string"
    BY <1>7 DEF StrCharacters, StrEscape, StrClose, StrUnterminated
  <2>2. QED
    BY <1>1, <1>7, <2>1, StringEnds
<1>8. CASE IdentifierOrKeyword \/ LiteralNumeric
  <2>1. pc = "token"
    BY <1>8 DEF IdentifierOrKeyword, LiteralNumeric, CurrentIn
  <2>2. QED
    BY <1>1, <1>8, <2>1, IdentifierEnds, NumericEnds
<1>9. CASE LiteralChar \/ CharUnterminated
  <2>1. pc = "token"
    BY <1>9 DEF LiteralChar, CharUnterminated, Current
  <2>2. QED
    BY <1>1, <1>9, <2>1, CharacterEnds
<1>10. CASE \/ Delimiter \/ Operator \/ AsciiNewline \/ AsciiSpace
            \/ UnicodeNewline \/ UnicodeWhitespace
  <2>1. pc = "token"
    BY <1>10 DEF Delimiter, Operator, AsciiNewline, AsciiSpace, UnicodeNewline,
       UnicodeWhitespace, CurrentIn, Current
  <2>2. QED
    BY <1>1, <1>10, <2>1, SimpleEnds
<1>11. CASE LineComment \/ BlockComment
  <2>1. pc = "token"
    BY <1>11 DEF LineComment, BlockComment, Current
  <2>2. QED
    BY <1>1, <1>11, <2>1, CommentEnds
<1>12. CASE NulCharacter \/ Backslash \/ UnknownAscii \/ UnknownUnicode
  <2>1. pc = "token"
    BY <1>12 DEF NulCharacter, Backslash, UnknownAscii, UnknownUnicode,
       CurrentIn, Current
  <2>2. QED
    BY <1>1, <1>12, <2>1, UnknownEnds
<1>13. CASE Tokenize \/ TriviaDone \/ EndOfFile \/ LiteralStr \/ Reset
  BY <1>13, TokenizeStep, TriviaDoneStep, EndOfFileStep, LiteralStrStep, ResetStep
<1>14. QED
  BY <1>2, <1>3, <1>4, <1>5, <1>6, <1>7, <1>8, <1>9, <1>10, <1>11, <1>12, <1>13
     DEF Next, TokenizeNext

-----------------------------------------------------------------------------
(* What the invariant says of the tokens                                   *)

LEMMA Invariance == Spec => []IInv
BY InitIInv, NextIInv, PTL DEF Spec

-----------------------------------------------------------------------------
(* What the tokens are like                                                *)

TokensCut ==
  resets = 0 =>
    \A i \in DOMAIN tokens :
      tokens[i].kind # "eof" =>
        CutWell(tokens[i].kind, From(tokens[i]), To(tokens[i]))

\* What a step does to the tokens.
LEMMA NextTokens ==
  ASSUME IInv, [Next]_vars
  PROVE  /\ src' = src
         /\ resets' = 0 => resets = 0
         /\ \/ Emits
            \/ tokens' = tokens
            \/ tokens' = << >>
            \/ EndOfFile
<1> USE DEF input
<1>1. ASSUME Skips PROVE src' = src /\ resets' = resets /\ tokens' = tokens
  BY <1>1 DEF Skips
<1>2. ASSUME Emits PROVE src' = src /\ resets' = resets
  BY <1>2 DEF Emits, Emit
<1>3. ASSUME Reports PROVE src' = src /\ resets' = resets /\ tokens' = tokens
  BY <1>3 DEF Reports, Report
<1>4. CASE UNCHANGED vars
  BY <1>4 DEF vars
<1>5. CASE Tokenize \/ TriviaDone \/ EndOfFile \/ LiteralStr
  BY <1>5 DEF Tokenize, TriviaDone, EndOfFile, LiteralStr
<1>6. CASE Reset
  <2>1. src' = src /\ tokens' = tokens /\ resets' = resets + 1 /\ resets \in Nat
    BY <1>6 DEF Reset, IInv, Typed
  <2>2. QED
    BY <2>1
<1>7. CASE SkipWhitespace \/ SkipLineComment \/ SkipBlockComment \/ SkipBlockCommentToEof
  BY <1>1, <1>3, <1>7, SkipWhitespaceEnds, SkipLineCommentEnds, SkipBlockCommentEnds,
     SkipToEofEnds
<1>8. CASE StrCharacters \/ StrEscape \/ StrClose \/ StrUnterminated
  BY <1>1, <1>2, <1>3, <1>8, StringEnds
<1>9. CASE IdentifierOrKeyword \/ LiteralNumeric \/ LiteralChar \/ CharUnterminated
  BY <1>2, <1>3, <1>9, IdentifierEnds, NumericEnds, CharacterEnds
<1>10. CASE \/ Delimiter \/ Operator \/ AsciiNewline \/ AsciiSpace
            \/ UnicodeNewline \/ UnicodeWhitespace
  BY <1>2, <1>10, SimpleEnds
<1>11. CASE \/ LineComment \/ BlockComment
            \/ NulCharacter \/ Backslash \/ UnknownAscii \/ UnknownUnicode
  BY <1>2, <1>3, <1>11, CommentEnds, UnknownEnds
<1>12. QED
  BY <1>4, <1>5, <1>6, <1>7, <1>8, <1>9, <1>10, <1>11 DEF Next, TokenizeNext

\* What a token is like depends on the source alone.
LEMMA CutKept ==
  ASSUME UNCHANGED src
  PROVE  \A kind, p, q : CutWell(kind, p, q)' = CutWell(kind, p, q)
BY DEF CutWell, Slice, Unmistakable, NoShiftAssignment, AllAscii, At

LEMMA TokensCutStep == IInv /\ TokensCut /\ [Next]_vars => TokensCut'
<1> SUFFICES ASSUME IInv, TokensCut, [Next]_vars, resets' = 0 PROVE TokensCut'
  BY DEF TokensCut
<1>1. /\ UNCHANGED src /\ resets = 0
      /\ Emits \/ tokens' = tokens \/ tokens' = << >> \/ EndOfFile
  BY NextTokens
<1> SUFFICES \A i \in DOMAIN tokens' :
              tokens'[i].kind # "eof" =>
                CutWell(tokens'[i].kind, From(tokens'[i]), To(tokens'[i]))
  BY <1>1, SourceKept, CutKept DEF TokensCut
<1>2. \A i \in DOMAIN tokens :
        tokens[i].kind # "eof" =>
          CutWell(tokens[i].kind, From(tokens[i]), To(tokens[i]))
  BY <1>1 DEF TokensCut
<1>3. tokens \in Seq(Token)
  BY DEF IInv, Typed
<1>4. ASSUME NEW t, tokens' = Append(tokens, t),
             t.kind # "eof" => CutWell(t.kind, From(t), To(t))
      PROVE  \A i \in DOMAIN tokens' :
               tokens'[i].kind # "eof" =>
                 CutWell(tokens'[i].kind, From(tokens'[i]), To(tokens'[i]))
  <2>1. /\ DOMAIN tokens' = 1 .. Len(tokens) + 1 /\ DOMAIN tokens = 1 .. Len(tokens)
        /\ Len(tokens) \in Nat
        /\ tokens'[Len(tokens) + 1] = t
        /\ \A i \in 1 .. Len(tokens) : tokens'[i] = tokens[i]
    BY <1>3, <1>4
  <2>2. \A i \in 1 .. Len(tokens) + 1 : i = Len(tokens) + 1 \/ i \in 1 .. Len(tokens)
    BY <2>1
  <2>3. QED
    BY <1>2, <1>4, <2>1, <2>2
<1>5. CASE Emits
  <2>1. PICK kind \in Kinds \ {"eof"}, q \in position .. Len(src) :
          /\ Behind < q
          /\ Emit(kind, IF pc = "string" THEN start ELSE here, q)
          /\ CutWell(kind, Behind, q)
    BY <1>5 DEF Emits
  <2> DEFINE from == IF pc = "string" THEN start ELSE here
             t == [kind |-> kind, line |-> from.line, column |-> from.column,
                   length |-> q - from.position]
  <2>2. tokens' = Append(tokens, t)
    BY <2>1 DEF Emit
  <2>3. from.position = Behind
    BY DEF Behind, here
  <2>4. t.kind = kind /\ t.line = from.line /\ t.column = from.column
        /\ t.length = q - Behind
    BY <2>3
  <2> HIDE DEF t
  <2>5. From(t) = Behind /\ To(t) = q
    BY <1>1, <2>4, TokenFound
  <2>6. QED
    BY <1>4, <2>1, <2>2, <2>4, <2>5
<1>6. CASE EndOfFile
  <2> DEFINE t == [kind |-> "eof", line |-> line, column |-> column, length |-> 0]
  <2>1. tokens' = Append(tokens, t)
    BY <1>6 DEF EndOfFile
  <2>2. t.kind = "eof"
    OBVIOUS
  <2> HIDE DEF t
  <2>3. QED
    BY <1>4, <2>1, <2>2
<1>7. CASE tokens' = tokens
  BY <1>2, <1>7
<1>8. CASE tokens' = << >>
  BY <1>8
<1>9. QED
  BY <1>1, <1>5, <1>6, <1>7, <1>8

LEMMA CutInvariance == Spec => []TokensCut
<1>1. Init => TokensCut
  BY DEF Init, TokensCut
<1>2. QED
  BY <1>1, TokensCutStep, Invariance, PTL DEF Spec

\* The position stays in the source, and every token is as long as its text,
\* whatever is tokenized and however often the lexer is reset.
THEOREM TypeCorrect == Spec => []TypeOK
<1>1. IInv => TypeOK
  BY DEF IInv, Typed
<1>2. QED
  BY <1>1, Invariance, PTL

\* Line, column and length of the tokens find texts in the source that are in
\* its order, do not overlap and are not empty, and none lies behind the
\* position: for every source, with its line feeds, comments and errors.
THEOREM InOrderCorrect == Spec => []TokensInOrder
<1>1. IInv => TokensInOrder
  <2> SUFFICES ASSUME IInv, resets = 0 PROVE TokensInOrder
    BY DEF TokensInOrder
  <2>1. /\ \A i \in DOMAIN tokens : tokens[i].length \in Nat
        /\ Behind <= position /\ Behind \in Nat /\ position \in Nat
        /\ Len(src) \in Nat
    BY PositionFacts DEF IInv, Typed, TypeOK, Behind
  <2>2. ASSUME NEW i \in DOMAIN tokens PROVE To(tokens[i]) <= position
    <3>1. From(tokens[i]) \in 0 .. Len(src) /\ To(tokens[i]) <= Behind
      BY DEF IInv, TokensPlaced
    <3>2. To(tokens[i]) \in Nat
      BY <2>1, <3>1 DEF To
    <3>3. QED
      BY <2>1, <3>1, <3>2
  <2>3. QED
    BY <2>2 DEF IInv, TokensPlaced, InOrder, TokensInOrder
<1>2. QED
  BY <1>1, Invariance, PTL

\* A tokenize() that succeeds loses no code point of the program: what no
\* token covers is white space or comment, in every mode.
THEOREM GapsCorrect == Spec => []GapsAreTrivia
<1>1. IInv => GapsAreTrivia
  <2> SUFFICES ASSUME IInv, resets = 0, Succeeded PROVE GapsAreTrivia
    BY DEF GapsAreTrivia
  <2>1. Behind = Len(src)
    BY DEF IInv, Succeeded, Behind
  <2>2. QED
    BY <2>1 DEF IInv, Succeeded, GapsPassed, GapsAreTrivia
<1>2. QED
  BY <1>1, Invariance, PTL

\* In kFormat mode the tokens of a source are the whole of it, if no comment
\* in it opens with "//@": that one is skipped in this mode.
THEOREM FormatCorrect == Spec => []UndocumentedReconstructs
<1>1. IInv /\ NoDocumentation(src) => Undocumented
  <2> SUFFICES ASSUME IInv, NoDocumentation(src),
                      NEW k \in 0 .. Len(src), At(k) = "/",
                      At(k + 1) = "/", At(k + 2) = "@"
               PROVE  FALSE
    BY DEF Undocumented
  <2>1. k + 2 < Len(src) /\ k + 1 \in 1 .. Len(src) - 2
        /\ src[k + 1] = "/" /\ src[k + 2] = "/" /\ src[k + 3] = "@"
    BY PositionFacts
  <2>2. k + 1 + 1 = k + 2 /\ k + 1 + 2 = k + 3
    BY <2>1
  <2>3. QED
    BY <2>1, <2>2 DEF NoDocumentation
<1>2. IInv => UndocumentedReconstructs
  <2> SUFFICES ASSUME IInv, NoDocumentation(src), mode = "kFormat", resets = 0,
                      Succeeded
               PROVE  Covered = 0 .. Len(src) - 1
    BY DEF UndocumentedReconstructs, FormatReconstructs
  <2>1. Behind = Len(src)
    BY DEF IInv, Succeeded, Behind
  <2>2. QED
    BY <1>1, <2>1 DEF IInv, Succeeded, FormatCovers
<1>3. QED
  BY <1>2, Invariance, PTL

\* Every token's line, column and length find a text that is spelled the way
\* its kind is, whatever errors the source has: if none of its code points is
\* taken for a quotation mark or a digit by its low byte alone.
THEOREM KindsCorrect == Spec => []UnmistakableMatches
<1>1. IInv /\ TokensCut => UnmistakableMatches
  <2> SUFFICES ASSUME IInv, TokensCut, Unmistakable(src), resets = 0,
                      NEW i \in DOMAIN tokens, tokens[i].kind # "eof"
               PROVE  Spelled(tokens[i].kind, Text(tokens[i]))
    BY DEF UnmistakableMatches, KindMatchesText
  <2>1. QED
    BY DEF TokensCut, CutWell, Slice, Text
<1>2. QED
  BY <1>1, Invariance, CutInvariance, PTL

\* No word could have been longer, and no operator, if the source has none of
\* the operators of three characters; and a word of a source in ASCII is a
\* keyword exactly if the whole of it is.
THEOREM LongestMatchCorrect == Spec => []LongestTaken
<1>1. IInv /\ TokensCut => LongestTaken
  <2> SUFFICES ASSUME IInv, TokensCut, resets = 0 PROVE LongestTaken
    BY DEF LongestTaken, WordsWhole, LongestMatch, KeywordsByName
  <2>1. ASSUME NEW i \in DOMAIN tokens, tokens[i].kind # "eof"
        PROVE  /\ tokens[i].kind \in {"identifier", "keyword"} =>
                    At(To(tokens[i])) \notin XidContinue
               /\ tokens[i].kind = "operator" /\ NoShiftAssignment(src) =>
                    Append(Text(tokens[i]), At(To(tokens[i]))) \notin Operators
               /\ tokens[i].kind \in {"identifier", "keyword"} /\ AllAscii(src) =>
                    (tokens[i].kind = "keyword" <=> Text(tokens[i]) \in Keywords)
    BY <2>1 DEF TokensCut, CutWell, Slice, Text
  <2>2. WordsWhole
    BY <2>1 DEF WordsWhole
  <2>3. NoShiftAssignment(src) => LongestMatch
    BY <2>1 DEF LongestMatch
  <2>4. AllAscii(src) => KeywordsByName
    BY <2>1 DEF KeywordsByName
  <2>5. QED
    BY <2>2, <2>3, <2>4 DEF LongestTaken
<1>2. QED
  BY <1>1, Invariance, CutInvariance, PTL
=============================================================================
