--------------------------- MODULE MCDiagnostics ---------------------------
(***************************************************************************)
(* Diagnostics over three small files, the first of them virtual, and      *)
(* three languages, one of which is not translated.                        *)
(***************************************************************************)
EXTENDS Diagnostics

Lf == <<LF>>
ThreeBytes == <<97, 98, 99>>  \* a line of three bytes
Wide == <<195, 169, 97>>        \* a line of two characters in three bytes

MCSources ==
  [f \in 0 .. 2 |->
     IF f = 0 THEN ThreeBytes \o Lf \o ThreeBytes \o Lf
     ELSE IF f = 1 THEN FlattenSeq([i \in 1 .. 12 |-> ThreeBytes \o Lf])
     ELSE Wide \o Lf \o Lf \o <<97, CR, LF>> \o ThreeBytes]
MCVirtualFiles == {0}

LabelAt(file, line, column, length, key, args) ==
  [file |-> file, line |-> line, column |-> column, length |-> length,
   key |-> key, args |-> args, notes |-> << >>]

\* Every column and length, on lines of every shape and behind the last.
MCFirstLabels ==
  {LabelAt(place[1], place[2], column, length, "kLabel", 0) :
     place \in {<<0, 1>>, <<0, 3>>, <<2, 1>>, <<2, 2>>, <<2, 3>>, <<2, 4>>},
     column \in 0 .. 5, length \in 0 .. 4}

\* Lines that join a group, overlap, are just near enough or just too far, and
\* have one digit or two.
MCLabels ==
  {LabelAt(1, line, 2, 1, "kLabel", 0) : line \in {1, 2, 4, 5, 8, 9, 12}}
    \cup {LabelAt(1, 5, 1, 3, "kDiagnosticUnknown", 0),
          LabelAt(0, 1, 1, 2, "kLabel", 2), LabelAt(2, 4, 1, 1, "kLabel", 1)}

MCPlainLabels == {LabelAt(0, 2, 1, 1, "kLabel", 1), LabelAt(1, 4, 1, 1, "kLabel", 0)}
MCNotes == {[key |-> "kNote", args |-> 1], [key |-> "kUnknown", args |-> 0]}
MCHeaders == {<<2, 17>>, <<0, 0>>}
MCErrorLabels == {LabelAt(0, 1, 2, 1, "kLabel", 2), LabelAt(0, 3, 1, 0, "kLabel", 2)}

MCKeys == {"kUnknown", "kDiagnosticUnknown", "kDiagnosticSeverity", "kDiagnostic",
           "kLabel", "kNote"}
MCTexts ==
  [lang \in {"en_us", "ja_jp", "fr_fr"} |->
     [key \in MCKeys |-> IF lang = "en_us" THEN key
                         ELSE IF lang = "ja_jp" /\ key # "kNote" THEN "ja " \o key
                         ELSE ""]]
MCConfigs ==
  {CreateDefault("en_us"), CreateRegional("ja_jp"), ConfigsWith("fr_fr", << >>, FALSE),
   ConfigsWith("fr_fr", <<"none", "ja_jp", "en_us">>, TRUE)}
============================================================================
