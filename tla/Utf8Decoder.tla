---------------------------- MODULE Utf8Decoder ----------------------------
(***************************************************************************)
(* unicode::Utf8Decoder and the tests of unicode_util.h it rests on.       *)
(* Bytes are numbers below 256; the masks of the code are written as       *)
(* remainders and ranges.                                                  *)
(***************************************************************************)
EXTENDS Integers, Sequences, SequencesExt

kInvalidUnicodePoint == 65533    \* 0xFFFD

MinValues == <<0, 128, 2048, 65536>>
MaxValues == <<127, 2047, 65535, 1114111>>
Surrogates == 55296 .. 57343

\* 0: no byte of a sequence may follow, as after a continuation byte.
Utf8SequenceLength(b) ==
  CASE b <= 127 -> 1
    [] b \in 192 .. 223 -> 2
    [] b \in 224 .. 239 -> 3
    [] b \in 240 .. 247 -> 4
    [] OTHER -> 0

\* A wrong version: an encoding longer than it need be passes.
IsValidCodepoint_Overlong(cp, len) ==
  cp <= MaxValues[len] /\ cp \notin Surrogates

IsValidCodepoint(cp, len) ==
  /\ MinValues[len] <= cp
  /\ cp <= MaxValues[len]
  /\ cp \notin Surrogates

\* The bits a first byte holds, and the six of every other byte.  That those
\* are continuation bytes is not checked: the check is commented out.
Assemble(bytes) ==
  CASE Len(bytes) = 2 -> 64 * (bytes[1] % 32) + (bytes[2] % 64)
    [] Len(bytes) = 3 ->
         4096 * (bytes[1] % 16) + 64 * (bytes[2] % 64) + (bytes[3] % 64)
    [] Len(bytes) = 4 ->
         262144 * (bytes[1] % 8) + 4096 * (bytes[2] % 64)
           + 64 * (bytes[3] % 64) + (bytes[4] % 64)

Decoded(cp, len) == [cp |-> cp, len |-> len]

\* The code point at the front of the bytes, and the bytes it takes.
Decode(bytes) ==
  LET len == Utf8SequenceLength(Head(bytes))
      cp == Assemble(SubSeq(bytes, 1, len))
  IN  IF len = 0 \/ Len(bytes) < len THEN Decoded(kInvalidUnicodePoint, 1)
      ELSE IF len = 1 THEN Decoded(Head(bytes), 1)
      ELSE IF ~ IsValidCodepoint(cp, len) THEN Decoded(kInvalidUnicodePoint, 1)
      ELSE Decoded(cp, len)

\* decode_bulk(): as many code points as the bytes hold, an undecodable byte
\* giving the invalid code point.
DecodeBulk(bytes) ==
  LET rest[i \in 1 .. Len(bytes) + 1] ==
        IF i > Len(bytes) THEN << >>
        ELSE LET d == Decode(SubSeq(bytes, i, Len(bytes)))
             IN  <<d.cp>> \o rest[i + d.len]
  IN  rest[1]

\* The scan of validate_utf8_scalar(): the position of the first byte at which
\* decoding fails, and 0 when it does not fail.
FirstInvalid(bytes, start) ==
  LET scan[i \in 1 .. Len(bytes) + 1] ==
        IF i > Len(bytes) THEN 0
        ELSE LET d == Decode(SubSeq(bytes, i, Len(bytes)))
             IN  IF d.cp = kInvalidUnicodePoint \/ d.len - 1 >= Len(bytes) - i + 1
                 THEN i - 1 ELSE scan[i + d.len]
  IN  scan[start + 1]

----------------------------------------------------------------------------
(* The encoding itself, as the Unicode standard defines it. *)

Encode(cp) ==
  IF cp <= 127 THEN <<cp>>
  ELSE IF cp <= 2047 THEN <<192 + (cp \div 64), 128 + (cp % 64)>>
  ELSE IF cp <= 65535
  THEN <<224 + (cp \div 4096), 128 + ((cp \div 64) % 64), 128 + (cp % 64)>>
  ELSE <<240 + (cp \div 262144), 128 + ((cp \div 4096) % 64),
         128 + ((cp \div 64) % 64), 128 + (cp % 64)>>

EncodeAll(codepoints) ==
  LET bytes[n \in 0 .. Len(codepoints)] ==
        IF n = 0 THEN << >> ELSE bytes[n - 1] \o Encode(codepoints[n])
  IN  bytes[Len(codepoints)]

IsContinuation(b) == b \in 128 .. 191

\* A well-formed sequence of one code point (table 3-7 of the standard).
WellFormedSequence(bytes) ==
  CASE Len(bytes) = 1 -> bytes[1] <= 127
    [] Len(bytes) = 2 -> bytes[1] \in 194 .. 223 /\ IsContinuation(bytes[2])
    [] Len(bytes) = 3 ->
         /\ bytes[1] \in 224 .. 239
         /\ IsContinuation(bytes[2]) /\ IsContinuation(bytes[3])
         /\ bytes[1] = 224 => bytes[2] >= 160
         /\ bytes[1] = 237 => bytes[2] <= 159
    [] Len(bytes) = 4 ->
         /\ bytes[1] \in 240 .. 244
         /\ \A i \in 2 .. 4 : IsContinuation(bytes[i])
         /\ bytes[1] = 240 => bytes[2] >= 144
         /\ bytes[1] = 244 => bytes[2] <= 143
    [] OTHER -> FALSE

\* Every byte is one of a well-formed sequence.  As none begins inside of
\* another, the bytes are such sequences one behind the other.
IsUtf8(bytes) ==
  \A i \in 1 .. Len(bytes) :
    \E first \in 1 .. i, last \in i .. Len(bytes) :
      WellFormedSequence(SubSeq(bytes, first, last))
============================================================================
