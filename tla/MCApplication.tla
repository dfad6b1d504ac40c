--------------------------- MODULE MCApplication ---------------------------
(***************************************************************************)
(* Application with the command lines of this program, and with those of   *)
(* one that uses numbers, lists and what is required.                      *)
(***************************************************************************)
EXTENDS Application

MCLetters == {"c", "V", "d", "h", "v", "j", "I", "x"}
MCNumerals == {"4", "7", "0"}

RedyWords ==
  {Arg(2, "config", FALSE, ""), Arg(1, "c", FALSE, ""), Arg(2, "config", TRUE, "a"),
   Arg(1, "V", FALSE, ""), Arg(2, "verbose", TRUE, "a"), Arg(1, "d", FALSE, ""),
   Arg(2, "release", FALSE, ""), Arg(2, "rd", FALSE, ""), Arg(1, "rd", FALSE, ""),
   Arg(2, "d", FALSE, ""), Arg(1, "h", FALSE, ""), Arg(2, "version", FALSE, ""),
   Arg(1, "x", FALSE, ""), DoubleDash, LoneDash, Word("a")}

MakeWords ==
  {Arg(1, "j", FALSE, ""), Arg(2, "jobs", TRUE, "4"), Arg(2, "jobs", TRUE, "a"),
   Arg(1, "I", FALSE, ""), Arg(2, "level", FALSE, ""), Word("4"), Word("a"),
   Arg(2, "jobs", TRUE, ""), Arg(1, "4", TRUE, "x"), DoubleDash}

Make ==
  LET jobs == AddAlias(AddOption(NewParser, "jobs", TRUE, TRUE, FALSE,
                                 Text(Word("0"), FALSE)), "j", "jobs")
      include == AddAlias(AddList(jobs, "include", FALSE, FALSE), "I", "include")
      level == AddList(include, "level", TRUE, FALSE)
      input == AddPositional(level, FALSE, TRUE, Text(Word(""), FALSE))
  IN  AddPositional(input, TRUE, FALSE, Text(Word("0"), FALSE))

MCOtherParsers == [make |-> Make]

MCCommandLines ==
  [redy |-> UNION {[1 .. n -> RedyWords] : n \in 0 .. 3},
   make |-> UNION {[1 .. n -> MakeWords] : n \in 0 .. 3}
              \cup {<<Arg(2, "jobs", TRUE, "4")>> \o line : line \in [1 .. 3 -> MakeWords]}]

\* No frame, frames that fit, a last one that does not, an invalid address.
MCStacks == {<< >>, <<1, 1, 1, 2, 1>>, <<1, 1, 0, 3, 2, 1>>, <<1, 1, 3, 3, 1>>,
             <<1, 1, 3, 2, 1, 1>>}
============================================================================
