---------------------------- MODULE Utf8Stream ----------------------------
(***************************************************************************)
(* unicode::Utf8Stream: the code points of a file, decoded when the stream *)
(* is initialised, and a position among them with its line and column.     *)
(***************************************************************************)
EXTENDS Utf8Files, Utf8Decoder

CONSTANTS
  UseAvx2,    \* ENABLE_AVX2
  kBlock      \* the bytes validate_utf8_avx2() looks at together, 64 in the code

ASSUME StreamAssumption == UseAvx2 \in BOOLEAN /\ kBlock \in Nat \ {0}

VARIABLES
  stream,     \* the members of the stream
  seen        \* the content the stream was initialised with, for the properties

streamVars == <<stream, seen>>

NewStream == [status |-> "not_initialized", codepoints |-> << >>,
              position |-> 0, line |-> 1, column |-> 1, file |-> 0]

----------------------------------------------------------------------------
(* Validation. *)

\* The comparison of _mm256_cmpgt_epi8 is one of signed bytes.
Signed(b) == IF b > 127 THEN b - 256 ELSE b
TakenForNonAscii(b) == Signed(b) > 127

\* Whole blocks are skipped until one holds a byte taken for non-ASCII, and
\* what follows them is decoded byte by byte.
FirstScalar(content) ==
  LET whole == Len(content) \div kBlock
      Plain(k) == \A i \in k * kBlock + 1 .. (k + 1) * kBlock :
                    ~ TakenForNonAscii(content[i])
      skipped == {k \in 0 .. whole : \A j \in 0 .. k - 1 : Plain(j)}
  IN  IF UseAvx2 THEN Max(skipped) * kBlock ELSE 0

\* 0 stands for a valid content, as it does for one whose first byte is not.
ValidateUtf8(content) ==
  LET start == FirstScalar(content)
  IN  IF start >= Len(content) THEN 0 ELSE FirstInvalid(content, start)

\* decode_content() leaves the code points alone when there is no content.
DecodeContent(content) ==
  IF content = << >> THEN stream.codepoints ELSE DecodeBulk(content)

----------------------------------------------------------------------------
(* The operations. *)

Restarted(id) ==
  [stream EXCEPT !.position = 0, !.line = 1, !.column = 1,
                 !.status = "initialized", !.file = id]

\* init() on a file that is not registered leaves the stream initialised.
StreamInitNoFile(id) ==
  /\ ~ Has(id)
  /\ stream' = Restarted(id)
  /\ UNCHANGED <<files, seen>>

\* On one that is, it is loaded when need be, and the stream is valid or not.
StreamInit(id) ==
  /\ Has(id)
  /\ LoadedFile(id)
  /\ LET content == files'[id + 1].content
     IN  /\ seen' = content
         /\ stream' = IF ValidateUtf8(content) # 0
                      THEN [Restarted(id) EXCEPT !.status = "invalid"]
                      ELSE [Restarted(id) EXCEPT
                              !.status = "valid",
                              !.codepoints = DecodeContent(content)]

Eof(s) == s.position >= Len(s.codepoints)
Peek(s) == IF Eof(s) THEN 0 ELSE s.codepoints[s.position + 1]

\* A wrong version: a carriage return ends a line as well.
EndsLine_CarriageReturn(codepoint) == codepoint \in {LF, CR}

EndsLine(codepoint) == codepoint = LF

\* A wrong version: the end of the stream is not looked for.
Advanced_NoEof(s) ==
  IF EndsLine(Peek(s))
  THEN [s EXCEPT !.position = @ + 1, !.line = @ + 1, !.column = 1]
  ELSE [s EXCEPT !.position = @ + 1, !.column = @ + 1]

\* next() on a stream, which does nothing at its end.
Advanced(s) ==
  IF Eof(s) THEN s
  ELSE IF EndsLine(Peek(s))
       THEN [s EXCEPT !.position = @ + 1, !.line = @ + 1, !.column = 1]
       ELSE [s EXCEPT !.position = @ + 1, !.column = @ + 1]

StreamNext ==
  /\ stream.status = "valid"
  /\ stream' = Advanced(stream)

\* consume(): past the end the code point 0 is there to consume, for ever.
StreamConsume(expected) ==
  /\ stream.status = "valid"
  /\ stream' = IF Peek(stream) = expected THEN Advanced(stream) ELSE stream

\* next(), so many times.
AdvancedBy(s, count) ==
  LET after[i \in 0 .. count] == IF i = 0 THEN s ELSE Advanced(after[i - 1])
  IN  after[count]

\* consume_sequence(): all of it or none of it.
StreamConsumeSequence(sequence) ==
  /\ stream.status = "valid"
  /\ stream' = IF IsPrefix(sequence, From(stream.codepoints, stream.position + 1))
               THEN AdvancedBy(stream, Len(sequence)) ELSE stream

\* reset() restores a Position{}: line 0 and column 0, and not the 1 and 1 that
\* init() sets.
StreamReset ==
  /\ stream.status = "valid"
  /\ stream' = [stream EXCEPT !.position = 0, !.line = 0, !.column = 0]
============================================================================
