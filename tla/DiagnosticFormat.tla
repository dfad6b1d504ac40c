-------------------------- MODULE DiagnosticFormat --------------------------
(***************************************************************************)
(* How the engine lays a diagnostic out: its header, then its labels,      *)
(* grouped by where they are in the sources.  What it writes is a sequence *)
(* of items, one for each piece a reader can tell apart; blanks, colours   *)
(* and the characters of a marker are left out.                            *)
(*                                                                         *)
(* A label is [file, line, column, length, key, args, notes], its notes    *)
(* are [key, args], and a source is a sequence of bytes.                   *)
(***************************************************************************)
EXTENDS Translator, Lines

CONSTANT kMaxLineDistance  \* how far apart the labels of a group may be

ASSUME FormatAssumption == kMaxLineDistance \in Nat

----------------------------------------------------------------------------
(* The header. *)

SeverityPrefixes == <<"?", "f", "e", "w", "i", "d", "t">>

SeverityKey(severity) ==
  IF severity = 0 THEN "kDiagnosticUnknown" ELSE "kDiagnosticSeverity"

\* Each id has a key of its own; "kDiagnostic" stands for all but the unknown.
DiagnosticKey(diag_id) ==
  IF diag_id = 0 THEN "kDiagnosticUnknown" ELSE "kDiagnostic"

Digit(n, power) == (n \div power) % 10

\* diagnostic_id_to_code() ends its code with a NUL, and of the eight characters
\* with the brackets seven are written: the NUL is, the closing one is not.
CodeItem(severity, diag_id) ==
  [prefix |-> SeverityPrefixes[severity + 1],
   digits |-> [i \in 1 .. 4 |-> Digit(diag_id, 10 ^ (4 - i))],
   closed |-> FALSE]

HeaderItem(c, entry) ==
  [kind |-> "header",
   severity |-> Plain(c, SeverityKey(entry.severity)),
   code |-> CodeItem(entry.severity, entry.diag_id),
   title |-> Plain(c, DiagnosticKey(entry.diag_id))]

----------------------------------------------------------------------------
(* The labels. *)

\* The line of a label ends where it starts: a range is columns of one line.
EndLine(label) == label.line

Before(a, b) == IF a.file # b.file THEN a.file < b.file ELSE a.line < b.line

\* sort_labels() keeps no order among the labels of one line.
Sorted(labels) ==
  {[i \in DOMAIN labels |-> labels[p[i]]] :
     p \in {q \in [DOMAIN labels -> DOMAIN labels] :
              /\ IsInjective(q)
              /\ \A i, j \in DOMAIN labels :
                   i < j => ~ Before(labels[q[j]], labels[q[i]])}}

Distance(m, n) == IF m > n THEN m - n ELSE n - m

JoinsGroup(label, last) ==
  /\ label.file = last.file
  /\ Distance(label.line, EndLine(last)) <= kMaxLineDistance

\* Where the groups start among the labels, the last one closed by the end.
GroupStarts(labels) ==
  SelectSeq([i \in DOMAIN labels |-> i],
            LAMBDA i : i = 1 \/ ~ JoinsGroup(labels[i], labels[i - 1]))

GroupEnd(labels, n) ==
  LET starts == GroupStarts(labels)
  IN  IF n = Len(starts) THEN Len(labels) ELSE starts[n + 1] - 1

DigitCount(n) == IF n = 0 THEN 1 ELSE Cardinality({e \in 0 .. 9 : n >= 10 ^ e})

LineNumberWidth(labels) ==
  DigitCount(Max({0} \cup {labels[i].line : i \in DOMAIN labels}))

\* The bytes the marker is under: columns count code points, and are taken for
\* bytes here.
MarkerOf(label, line) ==
  LET column_start == IF label.column = 0 \/ label.column > Len(line)
                      THEN 1 ELSE label.column
      end == label.column + label.length
      column_end == IF end <= column_start THEN column_start + 1 ELSE end
  IN  [start |-> column_start - 1,
       end |-> IF column_end - 1 < Len(line) THEN column_end - 1 ELSE Len(line)]

Message(c, label, tail) ==
  IF label.args > 0 THEN Formatted(c, label.key, label.args, tail)
  ELSE Plain(c, label.key)

NoMessage == [text |-> "", args |-> 0, tail |-> FALSE]

LabelMessage(c, label, tail) ==
  IF label.key = "kDiagnosticUnknown" THEN NoMessage ELSE Message(c, label, tail)

NoteMessage(c, note, tail) ==
  IF note.key = "kUnknown" THEN NoMessage ELSE Message(c, note, tail)

----------------------------------------------------------------------------
(* What is written for them, texts[f] being the text of file f.            *)

EndsOf(texts, file) == IndexNewlines(texts[file])
HasLine(texts, file, line) == line \in DOMAIN EndsOf(texts, file)
LineText(texts, file, line) == LineOf(texts[file], EndsOf(texts, file), line)

\* A line the file has not is read past the vector of the ends of its lines.
SourceItem(texts, file, line) ==
  [kind |-> IF HasLine(texts, file, line) THEN "source" ELSE "outside",
   file |-> file, line |-> line]

MarkedItem(c, texts, label, tail) ==
  IF HasLine(texts, label.file, label.line)
  THEN LET marker == MarkerOf(label, LineText(texts, label.file, label.line))
       IN  [kind |-> "marked", file |-> label.file, line |-> label.line,
            start |-> marker.start, end |-> marker.end,
            message |-> LabelMessage(c, label, tail)]
  ELSE [kind |-> "outside", file |-> label.file, line |-> label.line]

NoteItem(c, note, tail) ==
  [kind |-> "note", message |-> NoteMessage(c, note, tail)]

\* A wrong version: the line that was written last is written again.
PadLines_FromCurrent(current_line, label_line) ==
  [i \in 1 .. label_line - current_line |-> current_line + i - 1]

PadLines(current_line, label_line) ==
  IF label_line > current_line
  THEN [i \in 1 .. label_line - current_line - 1 |-> current_line + i]
  ELSE << >>

LabelBody(c, texts, label, current_line, tail) ==
  LET pads == PadLines(current_line, label.line)
  IN  [i \in DOMAIN pads |-> SourceItem(texts, label.file, pads[i])]
        \o <<MarkedItem(c, texts, label, tail)>>
        \o [i \in DOMAIN label.notes |-> NoteItem(c, label.notes[i], tail)]

\* A group follows another of the same file behind a line of its own.
GroupItems(c, texts, labels, n, tail) ==
  LET starts == GroupStarts(labels)
      first == labels[starts[n]]
      group == SubSeq(labels, starts[n], GroupEnd(labels, n))
      far == n > 1 /\ labels[starts[n] - 1].file = first.file
      Current(i) == IF i = 1 THEN first.line ELSE EndLine(group[i - 1])
  IN  (IF far THEN <<[kind |-> "separator"]>> ELSE << >>)
        \o <<[kind |-> "location", file |-> first.file, line |-> first.line,
              column |-> first.column]>>
        \o FlattenSeq([i \in DOMAIN group |->
                         LabelBody(c, texts, group[i], Current(i), tail)])

FormatLabels(c, texts, labels, tail) ==
  FlattenSeq([n \in DOMAIN GroupStarts(labels) |->
                GroupItems(c, texts, labels, n, tail)])

FormatOne(c, texts, entry, sorted, tail) ==
  <<HeaderItem(c, entry)>> \o FormatLabels(c, texts, sorted, tail)
============================================================================
