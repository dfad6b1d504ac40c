--------------------------- MODULE MCSourceFiles ---------------------------
(***************************************************************************)
(* SourceFiles on a small disk.                                            *)
(***************************************************************************)
EXTENDS SourceFiles

MCNodes == {<<"src">>, <<"bak">>, <<"d">>, <<"d", "e">>, <<"t1">>, <<"t2">>}
MCTempNodes == {<<"t1">>, <<"t2">>}
MCSource == <<"src">>
MCBackup == <<"bak">>

\* Each class of bytes the decoder tells apart: a letter, a line feed, a
\* carriage return, continuation bytes of both halves of their range, a first
\* byte of each length and those a wrong code point begins with.
Bytes == {97, LF, CR, 130, 160, 192, 194, 224, 237, 240, 244, 248}

\* Longer ones cross a block of validate_utf8_avx2().
MCSamples ==
  UNION {[1 .. n -> Bytes] : n \in 0 .. 3}
    \cup {<<240>> \o s : s \in [1 .. 3 -> {97, 130, 160}]}
    \cup {<<97, 97, 97>> \o s : s \in [1 .. 2 -> Bytes]}
    \cup {<<97, 97, 97, 97>> \o s : s \in [1 .. 2 -> Bytes]}
    \cup {<<239, 191, 189>>, <<97, 239, 191, 189>>,
          <<97, 97, 97, 97, 97, 237, 160, 128>>, <<97, 97, 97, 244, 160, 128, 128>>}

MCTexts == {<< >>, <<97, LF>>, <<194, 160, CR, LF, 97>>}
MCCodePoints == {0, LF, 160}
MCSequences == {<<97, LF>>, <<160, CR>>}

MCMaxCalls == [editor |-> 4, keeper |-> 3, temporary |-> 5]

MCDirectoryPaths == {<<"d">>, <<"d", "/", "e">>, <<"/", "d", "/", "/", "e", "/">>}
\* Paths; texts with what is escaped and what looks like an escape; brackets.
MCTextPaths ==
  UNION {[1 .. n -> {Separator, Dot, "a"}] : n \in 0 .. 5}
    \cup UNION {[1 .. n -> {Backslash, "LF", "n", "r"}] : n \in 0 .. 4}
    \cup UNION {[1 .. n -> {"(", ")", "[", "]", "a"}] : n \in 0 .. 5}
    \cup {<<"(", "[">> \o s \o <<")">> : s \in [1 .. 3 -> {"(", ")", "]", "a"}]}
MCDelimiters == {<< >>, <<Dot>>, <<Dot, Dot>>, <<"n">>}
MCNestSizes == {0, 1, 2, 32}
============================================================================
