------------------------------- MODULE Paths -------------------------------
(***************************************************************************)
(* The path functions of core/base/file_util: a path is a sequence of      *)
(* characters of which only the separator and the dot are special, and     *)
(* every function is a cut at the last of one of them.                     *)
(***************************************************************************)
EXTENDS Naturals, Sequences, SequencesExt

Separator == "/"     \* DIR_SEPARATOR
Dot == "."
npos == 0            \* std::string::npos: positions are those of TLA+, from 1

FindLast(path, c) == SelectLastInSeq(path, LAMBDA x : x = c)

From(path, i) == SubSeq(path, i, Len(path))

----------------------------------------------------------------------------

ParentDir(path) ==
  LET pos == FindLast(path, Separator)
  IN  IF pos = npos THEN << >> ELSE SubSeq(path, 1, pos - 1)

\* A path with no separator has no base name: "" and not the path itself.
BaseName(path) ==
  LET pos == FindLast(path, Separator)
  IN  IF pos = npos THEN << >> ELSE From(path, pos + 1)

\* file_name_without_extension() takes the whole path when it has no separator.
FileNamePart(path) == From(path, FindLast(path, Separator) + 1)

\* A wrong version: the dot of a directory's name begins an extension.
DotCuts_AnyDot(path) == FindLast(path, Dot) # npos

\* Does the last dot begin an extension?  Not when it belongs to a directory's
\* name, nor when it is the first character of the file's name.
DotCuts(path) ==
  LET slash == FindLast(path, Separator)
      dot == FindLast(path, Dot)
  IN  /\ dot # npos
      /\ slash = npos \/ dot > slash
      /\ dot # 1
      /\ slash = npos \/ dot # slash + 1

FileExtension(path) ==
  IF DotCuts(path) THEN From(path, FindLast(path, Dot) + 1) ELSE << >>

FileNameWithoutExtension(path) ==
  IF DotCuts(path)
  THEN SubSeq(path, FindLast(path, Separator) + 1, FindLast(path, Dot) - 1)
  ELSE FileNamePart(path)

\* One separator at most is taken off each end.
SanitizeComponent(part, is_first) ==
  LET tail == IF ~ is_first /\ part # << >> /\ Head(part) = Separator
              THEN Tail(part) ELSE part
  IN  IF tail # << >> /\ Last(tail) = Separator THEN Front(tail) ELSE tail

\* is_first stays true until a part has left something in the joined path.
JoinPath(parts) ==
  FoldLeft(LAMBDA joined, part :
             LET sanitized == SanitizeComponent(part, joined = << >>)
             IN  IF sanitized = << >> THEN joined
                 ELSE IF joined = << >> THEN sanitized
                 ELSE joined \o <<Separator>> \o sanitized,
           << >>, parts)

----------------------------------------------------------------------------

\* create_directories() makes one directory for each prefix that ends before a
\* separator, and then the whole path unless a separator is its last character;
\* the empty prefix is left out.  A prefix is given by the position behind it.
PrefixEnds(whole) ==
  {i \in 2 .. Len(whole) + 1 :
     IF i <= Len(whole) THEN whole[i] = Separator
     ELSE whole[Len(whole)] # Separator}
============================================================================
