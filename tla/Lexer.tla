------------------------------- MODULE Lexer --------------------------------
(***************************************************************************)
(* lexer::Lexer over a unicode::Utf8Stream: tokenize() calls tokenize_next *)
(* until the end-of-file token (or, when strict, the first error).         *)
(*                                                                         *)
(* src is the sequence of code points the stream decoded; position counts  *)
(* from 0, line and column from 1.  A turn of tokenize() is a few actions: *)
(* "trivia" is the loop of skip_trivia(), "token" the dispatch on the      *)
(* current character, "string" the loop of literal_str().  A token keeps   *)
(* what the code keeps of it: kind, line, column, length.  The errors are  *)
(* a set, so that a lexer reporting one error for ever has finitely many   *)
(* states.  The kinds of the operators and delimiters are one kind here:   *)
(* which one it is can be read off the token's text.                       *)
(***************************************************************************)
EXTENDS Characters, Integers, Sequences, SequencesExt, FiniteSets

CONSTANTS
  Sources,    \* the sequences of code points tokenized
  Modes,      \* the lexer modes each of them is tokenized in
  MaxResets,  \* bound on the calls of reset(), ...
  MaxReread   \* ... and on the length of the sources it is called for

ASSUME LexerAssumption ==
  /\ \A s \in Sources : s \in Seq(Chars)
  /\ Modes \in [Sources -> SUBSET {"kCodeAnalysis", "kDocumentGen", "kFormat"}]
  /\ MaxResets \in Nat /\ MaxReread \in Nat

VARIABLES
  src,        \* stream_.codepoints_
  mode,       \* mode_
  strict,     \* the argument of tokenize()
  position,   \* stream_.position_ ...
  line,       \* ... line_
  column,     \* ... column_
  status,     \* status_
  pc,         \* "ready", "trivia", "token", "string" or "done"
  start,      \* start, line and col of the string being read
  tokens,
  errors,
  resets      \* how often reset() was called

input == <<src, mode, strict>>
place == <<position, line, column>>
vars == <<input, place, status, pc, start, tokens, errors, resets>>

-----------------------------------------------------------------------------
(* Utf8Stream                                                              *)

\* peek_at(k - position)
At(k) == IF k < Len(src) THEN src[k + 1] ELSE "nul"

Eof(k) == k >= Len(src)

\* Where a loop of next() over the code points in S, begun at i, stops.
After(S, i) ==
  CHOOSE j \in i .. Len(src) :
    /\ \A k \in i .. j - 1 : src[k + 1] \in S
    /\ j = Len(src) \/ src[j + 1] \notin S

LineFeeds(i, j) == {k \in i + 1 .. j : src[k] = "nl"}

\* A wrong version: the column after a line feed counts from 0.
Advance_ColumnZero(q) ==
  LET feeds == LineFeeds(position, q)
  IN  /\ position' = q
      /\ line' = line + Cardinality(feeds)
      /\ column' = IF feeds = {} THEN column + q - position
                   ELSE q - (CHOOSE k \in feeds : \A m \in feeds : m <= k)

\* next(), called until the position is q.
Advance(q) ==
  LET feeds == LineFeeds(position, q)
  IN  /\ position' = q
      /\ line' = line + Cardinality(feeds)
      /\ column' = IF feeds = {} THEN column + q - position
                   ELSE q - (CHOOSE k \in feeds : \A m \in feeds : m <= k) + 1

-----------------------------------------------------------------------------
(* How a turn ends                                                         *)

here == [position |-> position, line |-> line, column |-> column]

\* create_token(): a token from "from" up to position q.
Emit(kind, from, q) ==
  /\ Advance(q)
  /\ tokens' = Append(tokens, [kind |-> kind, line |-> from.line,
                               column |-> from.column,
                               length |-> q - from.position])
  /\ pc' = "trivia"
  /\ UNCHANGED <<input, status, start, errors, resets>>

\* A wrong version: strict is forgotten.
Report_NeverStops(error, q) ==
  /\ Advance(q)
  /\ errors' = errors \cup {error}
  /\ status' = "kErrorOccured"
  /\ pc' = "trivia"
  /\ UNCHANGED <<input, start, tokens, resets>>

\* The lexer is at q when it returns the error.
Report(error, q) ==
  /\ Advance(q)
  /\ errors' = errors \cup {error}
  /\ status' = "kErrorOccured"
  /\ pc' = IF strict THEN "done" ELSE "trivia"
  /\ UNCHANGED <<input, start, tokens, resets>>

SourceError(l, c, n, id) == [line |-> l, column |-> c, length |-> n, id |-> id]

\* err(Error::create(start, line, col, id)): the four arguments as the callers
\* pass them to the parameters start_line, start_column, length, id.
Fail(id, from, q) ==
  Report(SourceError(from.position, from.line, from.column, id), q)

-----------------------------------------------------------------------------
(* tokenize() and skip_trivia()                                            *)

Init ==
  /\ src \in Sources
  /\ mode \in Modes[src]
  /\ strict \in BOOLEAN
  /\ position = 0 /\ line = 1 /\ column = 1
  /\ status = "kReadyToTokenize"
  /\ pc = "ready"
  /\ start = here
  /\ tokens = << >>
  /\ errors = {}
  /\ resets = 0

Tokenize ==
  /\ pc = "ready"
  /\ pc' = "trivia"
  /\ tokens' = << >>
  /\ errors' = {}
  /\ UNCHANGED <<input, place, status, start, resets>>

IsBlank == mode # "kFormat" /\ ~ Eof(position) /\ At(position) \in Blanks

\* A wrong version: only the character behind the current one is looked at.
IsLineComment_SecondSlash ==
  /\ At(position + 1) = "/"
  /\ IF At(position + 2) = "@" THEN mode # "kDocumentGen"
     ELSE mode # "kFormat"

\* A comment that opens with two slashes, and is not kept in this mode.
IsLineComment ==
  /\ At(position) = "/"
  /\ At(position + 1) = "/"
  /\ IF At(position + 2) = "@" THEN mode # "kDocumentGen"
     ELSE mode # "kFormat"

\* A wrong version: block comments are skipped in every mode.
IsBlockComment_AnyMode ==
  /\ At(position) = "/"
  /\ At(position + 1) = "*"

IsBlockComment ==
  /\ At(position) = "/"
  /\ At(position + 1) = "*"
  /\ mode # "kFormat"

SkipWhitespace ==
  /\ pc = "trivia"
  /\ IsBlank
  /\ Advance(After(Blanks, position))
  /\ UNCHANGED <<input, status, pc, start, tokens, errors, resets>>

SkipLineComment ==
  /\ pc = "trivia"
  /\ IsLineComment
  /\ Advance(After(Chars \ Newlines, position + 2))
  /\ UNCHANGED <<input, status, pc, start, tokens, errors, resets>>

\* The places after a closing "*/" at or behind q.
Closings(q) == {k \in q + 2 .. Len(src) : src[k - 1] = "*" /\ src[k] = "/"}

\* Where the loop that looks for "*/" from q on stops.
BlockEnd(q) ==
  IF Closings(q) = {} THEN Len(src)
  ELSE CHOOSE k \in Closings(q) : \A m \in Closings(q) : k <= m

SkipBlockComment ==
  /\ pc = "trivia"
  /\ IsBlockComment
  /\ ~ Eof(BlockEnd(position + 2))
  /\ Advance(BlockEnd(position + 2))
  /\ UNCHANGED <<input, status, pc, start, tokens, errors, resets>>

\* A wrong version: the position goes back to where the comment starts.
SkipBlockCommentToEof_Rewinds ==
  /\ pc = "trivia"
  /\ IsBlockComment
  /\ Eof(BlockEnd(position + 2))
  /\ Report(SourceError(line, column, 2, "kUnterminatedBlockComment"),
            position)

\* The comment's end is the end of the source: at the end of the stream peek()
\* is 0, whether or not "*/" was found.
SkipBlockCommentToEof ==
  /\ pc = "trivia"
  /\ IsBlockComment
  /\ Eof(BlockEnd(position + 2))
  /\ Report(SourceError(line, column, 2, "kUnterminatedBlockComment"),
            Len(src))

TriviaDone ==
  /\ pc = "trivia"
  /\ ~ IsBlank
  /\ ~ IsLineComment
  /\ ~ IsBlockComment
  /\ pc' = "token"
  /\ UNCHANGED <<input, place, status, start, tokens, errors, resets>>

\* A wrong version: the status is left to the caller.
EndOfFile_KeepsStatus ==
  /\ pc = "token"
  /\ Eof(position)
  /\ tokens' = Append(tokens, [kind |-> "eof", line |-> line,
                               column |-> column, length |-> 0])
  /\ pc' = "done"
  /\ UNCHANGED <<input, place, status, start, errors, resets>>

EndOfFile ==
  /\ pc = "token"
  /\ Eof(position)
  /\ status' = "kTokenizeCompleted"
  /\ tokens' = Append(tokens, [kind |-> "eof", line |-> line,
                               column |-> column, length |-> 0])
  /\ pc' = "done"
  /\ UNCHANGED <<input, place, start, errors, resets>>

\* reset(), which restores a value-initialised Position.
Reset ==
  /\ pc = "done"
  /\ resets < MaxResets /\ Len(src) <= MaxReread
  /\ resets' = resets + 1
  /\ status' = "kReadyToTokenize"
  /\ position' = 0 /\ line' = 0 /\ column' = 0
  /\ pc' = "ready"
  /\ UNCHANGED <<input, start, tokens, errors>>

-----------------------------------------------------------------------------
(* tokenize_next() on the current character                                *)

\* The dispatch found code point c at the current position.
Current(c) == pc = "token" /\ ~ Eof(position) /\ At(position) = c

CurrentIn(S) == pc = "token" /\ ~ Eof(position) /\ At(position) \in S

NulCharacter ==
  /\ Current("nul")
  /\ Report(SourceError(line, column, 0, "kUnexpectedEndOfFile"), position)

\* The word is sliced from the bytes of the file by indices of code points.
Bytes == FlattenSeq([k \in 1 .. Len(src) |-> Utf8(src[k])])

IdentifierOrKeyword ==
  /\ CurrentIn(XidStart)
  /\ LET q == After(XidContinue, position)
         word == SubSeq(Bytes, position + 1, q)
     IN  Emit(IF word \in Keywords THEN "keyword" ELSE "identifier", here, q)

-----------------------------------------------------------------------------
(* literal_numeric()                                                       *)

DigitsOf == [x |-> HexDigits, b |-> BinaryDigits, o |-> OctalDigits]

IsPrefixed == At(position) = "0" /\ At(position + 1) \in DOMAIN DigitsOf

\* Where the digits behind a base prefix stop, and whether that is well.
Prefixed ==
  LET base == At(position + 1)
      q == After(Wide(DigitsOf[base]), position + 2)
      misfit == base # "x" /\ At(q) \in Wide(AsciiDigits)
  IN  [end |-> q, ok |-> q > position + 2 /\ ~ misfit]

\* The fraction is read only if a digit follows the dot; an exponent, once
\* begun, needs a digit.
Decimal ==
  LET Digits(i) == After(Wide(AsciiDigits), i)
      whole == Digits(position)
      fraction == IF At(whole) = "." /\ At(whole + 1) \in Wide(AsciiDigits)
                  THEN Digits(whole + 1) ELSE whole
      sign == IF At(fraction + 1) \in {"+", "-"} THEN fraction + 2
              ELSE fraction + 1
  IN  IF At(fraction) = "e" /\ fraction > position
      THEN [end |-> Digits(sign), ok |-> Digits(sign) > sign]
      ELSE [end |-> fraction, ok |-> fraction > position]

LiteralNumeric ==
  /\ CurrentIn(DecimalNumbers)
  /\ LET number == IF IsPrefixed THEN Prefixed ELSE Decimal
         suffixed == At(number.end) \in Wide(AsciiLetters)
         known == At(number.end) \in {"f", "d"}
     IN  IF number.ok /\ (suffixed => known)
         THEN Emit("number", here, number.end + (IF suffixed THEN 1 ELSE 0))
         ELSE Fail("kInvalidNumericLiteral", here, number.end)

-----------------------------------------------------------------------------
(* literal_str(): its loop compares the low byte of each code point        *)

LiteralStr ==
  /\ Current("dq")
  /\ Advance(position + 1)
  /\ start' = here
  /\ pc' = "string"
  /\ UNCHANGED <<input, status, tokens, errors, resets>>

StrCharacters ==
  /\ pc = "string"
  /\ ~ Eof(position)
  /\ At(position) \notin Wide({"dq", "bs"})
  /\ Advance(After(Chars \ Wide({"dq", "bs"}), position))
  /\ UNCHANGED <<input, status, pc, start, tokens, errors, resets>>

\* The code behind the test for ValidEscapes, for hexadecimal, unicode and
\* octal escapes, is not reached: ValidEscapes has their first characters.
StrEscape ==
  /\ pc = "string"
  /\ ~ Eof(position)
  /\ At(position) \in Wide({"bs"})
  /\ IF Eof(position + 1) \/ At(position + 1) \in Wide(ValidEscapes)
     THEN /\ Advance(IF Eof(position + 1) THEN position + 1 ELSE position + 2)
          /\ UNCHANGED <<input, status, pc, start, tokens, errors, resets>>
     ELSE Fail("kInvalidCharacterEscape", start, position + 1)

\* A wrong version: the closing quotation mark is not consumed.
StrClose_KeepsQuote ==
  /\ pc = "string"
  /\ ~ Eof(position)
  /\ At(position) \in Wide({"dq"})
  /\ Emit("string", start, position)

StrClose ==
  /\ pc = "string"
  /\ ~ Eof(position)
  /\ At(position) \in Wide({"dq"})
  /\ Emit("string", start, position + 1)

StrUnterminated ==
  /\ pc = "string"
  /\ Eof(position)
  /\ Fail("kUnterminatedStringLiteral", start, position)

-----------------------------------------------------------------------------
(* literal_char()                                                          *)

\* Behind a backslash at q - 1: the end of the escape, or q for an unknown
\* one.  The octal branch is reached by code points whose low byte is an octal
\* digit; the hexadecimal and unicode branches by none.
EscapeEnd(q) ==
  IF At(q) \in ValidEscapes THEN q + 1
  ELSE LET digits == After(Wide(OctalDigits), q)
       IN  IF digits > q + 3 THEN q + 3 ELSE digits

\* Where the closing quotation mark should be.
CharEnd ==
  IF At(position + 1) = "bs" THEN EscapeEnd(position + 2) ELSE position + 2

LiteralChar ==
  /\ Current("sq")
  /\ ~ Eof(position + 1)
  /\ IF At(position + 1) = "bs" /\ ~ Eof(position + 2)
          /\ CharEnd = position + 2
     THEN Fail("kInvalidCharacterEscape", here, position + 2)
     ELSE IF At(CharEnd) = "sq" THEN Emit("character", here, CharEnd + 1)
     ELSE Fail("kUnterminatedCharacterLiteral", here,
               IF Eof(CharEnd) THEN Len(src) ELSE CharEnd)

CharUnterminated ==
  /\ Current("sq")
  /\ Eof(position + 1)
  /\ Fail("kUnterminatedCharacterLiteral", here, position + 1)

-----------------------------------------------------------------------------
(* The rest of ascii_token(), and other_token()                            *)

\* A backslash outside a literal: reported before it is consumed, unless what
\* follows could be an escape, in which case other_token() reports it.
Backslash ==
  /\ Current("bs")
  /\ IF At(position + 1) \notin NonAscii \cup ValidEscapes
     THEN Fail("kInvalidCharacterEscape", here, position)
     ELSE Fail("kUnrecognizedCharacter", here, position + 1)

Delimiter ==
  /\ CurrentIn(Singles)
  /\ Emit("operator", here, position + 1)

OpensComment == At(position) = "/" /\ At(position + 1) \in {"/", "*"}

\* A wrong version: an operator of two characters ends with the first.
Operator_OneCharacter ==
  /\ CurrentIn(DOMAIN PairTails)
  /\ ~ OpensComment
  /\ Emit("operator", here, position + 1)

\* The third character of <<= and >>= is looked for in a variable that still
\* holds the second: the two-character token is returned.
Operator ==
  /\ CurrentIn(DOMAIN PairTails)
  /\ ~ OpensComment
  /\ Emit("operator", here,
          IF At(position + 1) \in PairTails[At(position)] THEN position + 2
          ELSE position + 1)

LineComment ==
  /\ Current("/")
  /\ At(position + 1) = "/"
  /\ Emit(IF At(position + 2) \in Wide({"@"}) THEN "documentationComment"
          ELSE "inlineComment",
          here, After(Chars \ Newlines, position + 2))

BlockComment ==
  /\ Current("/")
  /\ At(position + 1) = "*"
  /\ IF Closings(position + 2) # {}
     THEN Emit("blockComment", here, BlockEnd(position + 2))
     ELSE Fail("kUnterminatedBlockComment", here, Len(src))

AsciiNewline ==
  /\ CurrentIn({"nl", "cr"})
  /\ Emit("newline", here,
          IF At(position) = "cr" /\ At(position + 1) = "nl" THEN position + 2
          ELSE position + 1)

AsciiSpace ==
  /\ Current(" ")
  /\ Emit("whitespace", here, After(Blanks, position + 1))

UnknownAscii ==
  /\ CurrentIn({"ctl", "tab", "ff"})
  /\ Fail("kUnrecognizedCharacter", here, position + 1)

-----------------------------------------------------------------------------
(* unicode_token()                                                         *)

UnicodeNewline ==
  /\ CurrentIn(Newlines \cap NonAscii)
  /\ Emit("newline", here, position + 1)

UnicodeWhitespace ==
  /\ CurrentIn(Blanks \cap NonAscii)
  /\ Emit("whitespace", here, After(Blanks, position))

\* The error is returned with the character still to be read.
UnknownUnicode ==
  /\ CurrentIn(NonAscii \ (XidStart \cup DecimalNumbers \cup Whitespace))
  /\ Fail("kUnrecognizedCharacter", here, position)

-----------------------------------------------------------------------------
TokenizeNext ==
  \/ SkipWhitespace \/ SkipLineComment
  \/ SkipBlockComment \/ SkipBlockCommentToEof
  \/ TriviaDone \/ EndOfFile
  \/ NulCharacter \/ IdentifierOrKeyword \/ LiteralNumeric
  \/ LiteralStr \/ StrCharacters \/ StrEscape \/ StrClose \/ StrUnterminated
  \/ LiteralChar \/ CharUnterminated
  \/ Backslash \/ Delimiter \/ Operator \/ LineComment \/ BlockComment
  \/ AsciiNewline \/ AsciiSpace \/ UnknownAscii
  \/ UnicodeNewline \/ UnicodeWhitespace \/ UnknownUnicode

Next == Tokenize \/ TokenizeNext \/ Reset

Spec == Init /\ [][Next]_vars

\* One thread runs tokenize(): it takes its next step as long as it has one.
FairSpec == Spec /\ WF_vars(Tokenize \/ TokenizeNext)

-----------------------------------------------------------------------------
(* What the tokens say about the source, from their line and column alone  *)

\* The number of code points before the given line.
LineStart(l) ==
  CHOOSE i \in 0 .. Len(src) :
    /\ i = 0 \/ src[i] = "nl"
    /\ Cardinality(LineFeeds(0, i)) = l - 1

From(t) == LineStart(t.line) + t.column - 1
To(t) == From(t) + t.length

Text(t) == SubSeq(src, From(t) + 1, To(t))

Covered == UNION {From(tokens[i]) .. To(tokens[i]) - 1 : i \in DOMAIN tokens}

\* Code point k belongs to the comment that opens at i.
InCommentFrom(i, k) ==
  /\ At(i) = "/"
  /\ \/ At(i + 1) = "/" /\ \A m \in i .. k : At(m) \notin Newlines
     \/ At(i + 1) = "*" /\ \A m \in Closings(i + 2) : k < m

\* Code point k belongs to a comment that no token covers.
InComment(k) == \E i \in (0 .. k) \ Covered : InCommentFrom(i, k)

\* The operators that the comments of other_token() list.
Operators ==
  {<<c>> : c \in Singles \cup DOMAIN PairTails}
    \cup (UNION {{<<c, d>> : d \in PairTails[c]} : c \in DOMAIN PairTails})
    \cup {<<"<", "<", "=">>, <<">", ">", "=">>}

Only(text, S) == \A k \in DOMAIN text : text[k] \in S

Spelled(kind, text) ==
  CASE kind \in {"identifier", "keyword"} ->
         text[1] \in XidStart /\ Only(text, XidContinue)
    [] kind = "number" ->
         /\ text[1] \in AsciiDigits
         /\ Only(text, AsciiDigits \cup AsciiLetters \cup {".", "+", "-"})
    [] kind = "string" ->
         Len(text) >= 2 /\ text[1] = "dq" /\ Last(text) = "dq"
    [] kind = "character" ->
         Len(text) >= 3 /\ text[1] = "sq" /\ Last(text) = "sq"
    [] kind = "operator" -> text \in Operators
    [] kind = "newline" -> Only(text, Newlines)
    [] kind = "whitespace" -> Only(text, Blanks)
    [] kind = "blockComment" ->
         /\ Len(text) >= 4
         /\ SubSeq(text, 1, 2) = <<"/", "*">>
         /\ SubSeq(text, Len(text) - 1, Len(text)) = <<"*", "/">>
    [] OTHER -> SubSeq(text, 1, 2) = <<"/", "/">>

Succeeded == pc = "done" /\ errors = {}

-----------------------------------------------------------------------------
(* Properties that hold of every source                                    *)

TypeOK ==
  /\ position \in 0 .. Len(src)
  /\ line \in Nat /\ column \in Nat
  /\ status \in {"kReadyToTokenize", "kErrorOccured", "kTokenizeCompleted"}
  /\ pc \in {"ready", "trivia", "token", "string", "done"}
  /\ (pc = "string" => start.position < position)
  /\ (pc = "done" => status # "kReadyToTokenize")
  /\ \A i \in DOMAIN tokens : tokens[i].length \in 0 .. Len(src)

\* Tokens come in the order of the source and do not overlap, none but the
\* end-of-file token is empty, and the lexer never goes back behind one: what
\* line, column and length say of them agrees with the stream's position.
TokensInOrder ==
  resets = 0 =>
    /\ \A i \in DOMAIN tokens :
         /\ To(tokens[i]) <= position
         /\ tokens[i].kind = "eof" <=> tokens[i].length = 0
    /\ \A i \in 1 .. Len(tokens) - 1 : To(tokens[i]) <= From(tokens[i + 1])

\* When tokenize() succeeds, what no token covers is white space or comment
\* (skip_trivia() skips it): no code point of the program is lost.
GapsAreTrivia ==
  resets = 0 /\ Succeeded =>
    \A k \in (0 .. Len(src) - 1) \ Covered :
      At(k) \in Blanks \/ InComment(k)

\* A strict tokenize() returns, whatever the source: with the end-of-file
\* token or with the first error.
StrictTerminates == strict => <>(pc = "done")

-----------------------------------------------------------------------------
(* What comments, documents and tests say of every source, and the code    *)
(* does only for some: a run of its own shows a source that fails each     *)

\* tokenize() returns with the errors of a lexically invalid source (README of
\* the frontend), also when it goes on behind an error.
Terminates == <>(pc = "done")

\* A token's line, column and length find a text in the source that is
\* spelled the way its kind is: a string, for one, ends with the closing
\* quotation mark (comments of literal_str()).
KindMatchesText ==
  resets = 0 =>
    \A i \in DOMAIN tokens :
      tokens[i].kind # "eof" => Spelled(tokens[i].kind, Text(tokens[i]))

\* A word is a keyword token exactly if it is a keyword
\* (lookup_id_or_keyword()).
KeywordsByName ==
  resets = 0 =>
    \A i \in DOMAIN tokens :
      tokens[i].kind \in {"identifier", "keyword"} =>
        (tokens[i].kind = "keyword" <=> Text(tokens[i]) \in Keywords)

\* No word ends in front of a character that could go on with it (the loop of
\* identifier_or_keyword()).
WordsWhole ==
  resets = 0 =>
    \A i \in DOMAIN tokens :
      tokens[i].kind \in {"identifier", "keyword"} =>
        At(To(tokens[i])) \notin XidContinue

\* The longest match is taken (comment in other_token(), which lists the
\* operators).
LongestMatch ==
  resets = 0 =>
    \A i \in DOMAIN tokens :
      tokens[i].kind = "operator" =>
        Append(Text(tokens[i]), At(To(tokens[i]))) \notin Operators

\* In kFormat mode the tokens are the whole source (comment on Mode::kFormat:
\* "to check coding style, correct format, and reconstruct the original source
\* code").
FormatReconstructs ==
  mode = "kFormat" /\ resets = 0 /\ Succeeded => Covered = 0 .. Len(src) - 1

-----------------------------------------------------------------------------
(* The sources for which the code does what they say                       *)

\* The code points that an error can leave to be read again.
LeftToRead ==
  {"nul", "bs"} \cup (DecimalNumbers \ AsciiDigits)
    \cup (NonAscii \ (XidStart \cup DecimalNumbers \cup Whitespace))

AllRead(s) == \A k \in DOMAIN s : s[k] \notin LeftToRead

\* No code point of s is taken for a quotation mark or for a digit that it only
\* shares the low byte with.
Unmistakable(s) ==
  \A k \in DOMAIN s :
    /\ s[k] \in Wide({"dq"}) => s[k] = "dq"
    /\ s[k] \in Wide(AsciiDigits) => s[k] \in AsciiDigits
    /\ s[k] \in Wide(HexDigits) /\ (\E i \in 1 .. k - 1 : s[i] = "x")
         => s[k] \in HexDigits

\* s has none of the operators of three characters.
NoShiftAssignment(s) ==
  \A k \in 1 .. Len(s) - 2 :
    ~ (s[k] \in {"<", ">"} /\ s[k + 1] = s[k] /\ s[k + 2] = "=")

AllAscii(s) == \A k \in DOMAIN s : s[k] \notin NonAscii

\* No comment of s is for documentation.
NoDocumentation(s) ==
  \A k \in 1 .. Len(s) - 2 :
    ~ (s[k] = "/" /\ s[k + 1] = "/" /\ s[k + 2] = "@")

\* A tokenize() that goes on behind errors returns, whatever characters come
\* in whatever order, comments and literals cut off at the end included: if
\* none is there that an error leaves to be read again.
ReadTerminates == AllRead(src) => Terminates

\* A token's text is spelled as its kind is, behind errors too, if the source
\* has nothing that only looks like a quotation mark or a digit.
UnmistakableMatches == Unmistakable(src) => KindMatchesText

\* Words and operators are the longest that can be read at their place, the
\* operators of three characters excepted, and a word in ASCII is looked up as
\* a whole.
LongestTaken ==
  /\ WordsWhole
  /\ NoShiftAssignment(src) => LongestMatch
  /\ AllAscii(src) => KeywordsByName

\* In kFormat mode white space and comments are tokens as well, so that the
\* tokens are the whole source, if none of its comments is for documentation.
UndocumentedReconstructs == NoDocumentation(src) => FormatReconstructs
=============================================================================
