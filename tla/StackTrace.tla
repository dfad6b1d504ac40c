----------------------------- MODULE StackTrace -----------------------------
(***************************************************************************)
(* core/diagnostics/stack_trace: the frames of the running thread as the   *)
(* lines of a report of bounded size.  A frame is the length of its line,  *)
(* or 0 when its address is not one of user space.                         *)
(***************************************************************************)
EXTENDS Integers, Sequences

CONSTANTS
  kPlatformMaxFrames,   \* the frames that are looked at
  kBufSize              \* the bytes of the report

ASSUME StackTraceAssumption ==
  kPlatformMaxFrames \in Nat /\ kBufSize \in Nat \ {0}

IsValidAddress(frame) == frame # 0

AtMost(a, b) == IF a <= b THEN a ELSE b

\* By i, what is collected of the first i frames.
Collected(stack, first, frames) ==
  LET collected[i \in 0 .. frames] ==
        IF i <= first THEN << >>
        ELSE IF IsValidAddress(stack[i])
             THEN Append(collected[i - 1],
                         [index |-> i - 1 - first, length |-> stack[i]])
        ELSE collected[i - 1]
  IN  collected

\* collect_stack_trace(): first_frame frames are left out, and those of an
\* invalid address, but neither gives room to another.  The index of an entry
\* is that of its frame, so that a frame left out shows as a gap.
CollectStackTrace(stack, first_frame, max_frames) ==
  LET most == AtMost(max_frames, kPlatformMaxFrames)
      first == AtMost(first_frame, most)
      frames == AtMost(Len(stack), most)
  IN  IF first >= most THEN << >> ELSE Collected(stack, first, frames)[frames]

\* A wrong version: no room is kept for the byte that ends the report.
LineFits_NoNul(written, length) == written + length + 1 <= kBufSize

LineFits(written, length) == written + length + 1 < kBufSize

\* Whole lines are written, each with a line feed, up to the first that does
\* not fit; a shorter one behind it is not tried.
WithLine(report, entry) ==
  IF report.full \/ ~ LineFits(report.written, entry.length)
  THEN [report EXCEPT !.full = TRUE]
  ELSE [report EXCEPT !.lines = Append(@, entry),
                      !.written = @ + entry.length + 1]

EmptyReport == [full |-> FALSE, lines |-> << >>, written |-> 0]

\* By i, the report of the first i entries.
Reports(entries) ==
  LET report[i \in 0 .. Len(entries)] ==
        IF i = 0 THEN EmptyReport ELSE WithLine(report[i - 1], entries[i])
  IN  report

EntriesToBuffer(entries) == Reports(entries)[Len(entries)]

\* The frame of the function itself is left out besides first_frame.
StackTraceFromCurrentContext(stack, first_frame, max_frames) ==
  EntriesToBuffer(CollectStackTrace(stack, first_frame + 1, max_frames))
============================================================================
