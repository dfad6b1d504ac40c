------------------------------- MODULE Lines -------------------------------
(***************************************************************************)
(* How file_util and the files cut a text into lines.  A text is a         *)
(* sequence of bytes; a position is the code's, counted from 0, so that    *)
(* the byte at position p is text[p + 1].  The AVX2 versions look for the  *)
(* line feeds 32 bytes at a time and find the same ones.                   *)
(***************************************************************************)
EXTENDS Naturals, Sequences, SequencesExt

LF == 10
CR == 13

NewlinePositions(text) ==
  LET found[n \in 0 .. Len(text)] ==
        IF n = 0 THEN << >>
        ELSE IF text[n] = LF THEN Append(found[n - 1], n - 1) ELSE found[n - 1]
  IN  found[Len(text)]

\* Where the lines end.  A text has a line even when it is empty, and a last
\* line of its own unless a line feed is its last byte.
IndexNewlines(text) ==
  LET ends == NewlinePositions(text)
  IN  IF ends = << >> \/ Last(ends) # Len(text) - 1
      THEN Append(ends, Len(text)) ELSE ends

\* The bytes at positions start .. end - 1, a carriage return at their end left
\* out: one line of the text.
Slice(text, start, end) ==
  SubSeq(text, start + 1,
         IF end > start /\ text[end] = CR THEN end - 1 ELSE end)

\* line(line_no) of a file, lines being numbered from 1.
LineStart(ends, line_no) == IF line_no = 1 THEN 0 ELSE ends[line_no - 1] + 1

LineOf(text, ends, line_no) ==
  Slice(text, LineStart(ends, line_no), ends[line_no])

\* read_lines(): the line before each line feed and, when there are bytes
\* behind the last of them, one more.
ReadLines(text) ==
  LET newlines == NewlinePositions(text)
      line_start == IF newlines = << >> THEN 0 ELSE Last(newlines) + 1
      lines == [n \in DOMAIN newlines |->
                  Slice(text, LineStart(newlines, n), newlines[n])]
  IN  IF line_start < Len(text)
      THEN Append(lines, Slice(text, line_start, Len(text)))
      ELSE lines
============================================================================
