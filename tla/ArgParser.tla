----------------------------- MODULE ArgParser -----------------------------
(***************************************************************************)
(* core::ArgParser: options, aliases and positional arguments are added to *)
(* a parser, and parse() goes through the arguments once, storing values   *)
(* as it meets them.                                                       *)
(*                                                                         *)
(* An argument is its dashes, the name behind them and, behind an equals   *)
(* sign, a value.  Of the length of an argument only what the code asks is *)
(* kept: whether the name is one of the Letters, the names of one          *)
(* character.                                                              *)
(***************************************************************************)
EXTENDS Integers, Sequences, SequencesExt, FiniteSets

CONSTANTS
  Letters,     \* the names of one character
  Numerals     \* the words a number is read from

ASSUME ArgParserAssumption == Letters \subseteq STRING /\ Numerals \subseteq STRING

Arg(dashes, name, eq, value) ==
  [dashes |-> dashes, name |-> name, eq |-> eq, value |-> value]

Args == [dashes : 0 .. 2, name : STRING, eq : BOOLEAN, value : STRING]

Word(text) == Arg(0, text, FALSE, "")
DoubleDash == Arg(2, "", FALSE, "")
LoneDash == Arg(1, "", FALSE, "")

----------------------------------------------------------------------------
(* Building a parser. *)

NewParser == [options |-> << >>, order |-> << >>, aliases |-> << >>,
              positionals |-> << >>]

Extended(f, key, value) ==
  [k \in DOMAIN f \cup {key} |-> IF k = key THEN value ELSE f[k]]

\* add_option_impl() and add_list(): an option added again replaces the first,
\* and is in the order twice.
AddArgument(parser, name, option) ==
  [parser EXCEPT !.options = Extended(@, name, option),
                 !.order = Append(@, name)]

\* What an option's storage holds before parsing: the default it is given.
Option(kind, number, required, has_default, default) ==
  [kind |-> kind, number |-> number, required |-> required,
   has_default |-> has_default, default |-> default]

AddFlag(parser, name) ==
  AddArgument(parser, name, Option("flag", FALSE, FALSE, TRUE, FALSE))

AddOption(parser, name, number, required, has_default, default) ==
  AddArgument(parser, name, Option("option", number, required, has_default, default))

AddList(parser, name, number, required) ==
  AddArgument(parser, name, Option("list", number, required, FALSE, << >>))

AddPositional(parser, number, required, default) ==
  [parser EXCEPT !.positionals =
     Append(@, [number |-> number, required |-> required, default |-> default])]

AddAlias(parser, alias, name) ==
  [parser EXCEPT !.aliases = Extended(@, alias, name)]

ResolveAlias(parser, name) ==
  IF name \in DOMAIN parser.aliases THEN parser.aliases[name] ELSE name

\* What these make of a new parser, for options as they are meant: the name of
\* a flag is no letter, what an alias stands for is an option, and no name is
\* empty.
Built(parser) ==
  /\ \A name \in DOMAIN parser.options :
       LET option == parser.options[name]
       IN  /\ option.number \in BOOLEAN
           /\ \/ option.kind = "flag" /\ option.default = FALSE /\ name \notin Letters
              \/ option.kind = "option"
              \/ option.kind = "list" /\ option.default = << >>
  /\ ToSet(parser.order) \subseteq DOMAIN parser.options
  /\ \A alias \in DOMAIN parser.aliases : parser.aliases[alias] \in DOMAIN parser.options
  /\ "" \notin DOMAIN parser.options \cup DOMAIN parser.aliases
  /\ DOMAIN parser.positionals = 1 .. Len(parser.positionals)
  /\ Len(parser.positionals) \in Nat
  /\ \A k \in DOMAIN parser.positionals : parser.positionals[k].number \in BOOLEAN

----------------------------------------------------------------------------
(* Reading one argument. *)

IsHelpFlag(arg) == arg \in {Arg(1, "h", FALSE, ""), Arg(2, "help", FALSE, "")}
IsVersionFlag(arg) == arg \in {Arg(1, "v", FALSE, ""), Arg(2, "version", FALSE, "")}

\* "--d" is a long option of one letter, an error, as "-debug" is a short one
\* of several; "--d=x" is long enough to pass.
ClassifyArgument(arg) ==
  IF arg = DoubleDash THEN "double_dash"
  ELSE IF arg = LoneDash THEN "lone_dash"
  ELSE IF arg.dashes = 2
       THEN IF arg.name \in Letters /\ ~ arg.eq THEN "long_single" ELSE "long"
  ELSE IF arg.dashes = 1
       THEN IF arg.name \in Letters /\ ~ arg.eq THEN "short" ELSE "short_multiple"
  ELSE "positional"

\* The text an option is given.  That of an argument which looks like an option
\* is spoilt: the warning is put together with +=, of which the right one comes
\* first and appends the warning's end to the value itself.
Text(arg, spoilt) == [arg |-> arg, spoilt |-> spoilt]

LooksLikeOption(arg) == arg.dashes > 0 /\ arg # LoneDash

NextValue(arg) == Text(arg, LooksLikeOption(arg))

\* Number extraction stops at the first character that is none of a number's,
\* such as the equals sign.
IsNumber(text) == text.arg.name \in Numerals /\ text.arg.dashes < 2
NumberOf(text) == Text(Arg(text.arg.dashes, text.arg.name, FALSE, ""), FALSE)

\* What extraction leaves when it fails; with no character to begin with, it
\* leaves what was there.
Zero == Text(Word("0"), FALSE)

Parsed(ok, stored) == [ok |-> ok, stored |-> stored]

LeavesStored(number, text) ==
  number /\ ~ IsNumber(text) /\ text.arg = Word("")

\* What is stored of a text that can be read.
ReadAs(number, text) == IF number THEN NumberOf(text) ELSE text

\* parse() of an Option or a Positional.
ParseScalar(number, stored, text) ==
  IF number => IsNumber(text) THEN Parsed(TRUE, ReadAs(number, text))
  ELSE Parsed(FALSE, IF LeavesStored(number, text) THEN stored ELSE Zero)

\* parse() of what was added: a flag becomes true, a list grows by what it is
\* given, or stays as it is when that is no number.
ParseInto(option, stored, text) ==
  CASE option.kind = "flag" -> Parsed(TRUE, TRUE)
    [] option.kind = "option" -> ParseScalar(option.number, stored, text)
    [] option.kind = "list" ->
         LET item == ParseScalar(option.number, Zero, text)
         IN  Parsed(item.ok, IF item.ok THEN Append(stored, item.stored) ELSE stored)

----------------------------------------------------------------------------
(* parse(), whose loop variables are a record. *)

\* i counts the arguments from 1; warned says that the value at i + 1 was warned
\* of.
\* argv has the program's name before the arguments, if it has anything.
Started(parser, argv) ==
  [i |-> 1, positional_args |-> << >>, parsed |-> {}, warned |-> FALSE,
   result |-> IF argv = << >> THEN "invalid_format" ELSE "none",
   storage |-> [name \in DOMAIN parser.options |-> parser.options[name].default],
   places |-> [k \in DOMAIN parser.positionals |-> parser.positionals[k].default]]

Failing(s, result) == [s EXCEPT !.result = result]

\* A wrong version: the value after an option is read as an argument as well.
ValueIndex_NotSkipped(s) == s.i

\* args[++i]
ValueIndex(s) == s.i + 1

\* One option with its value, which may be the next argument, even one that
\* looks like an option.
TakeOption(parser, args, s) ==
  LET arg == args[s.i]
      name == ResolveAlias(parser, arg.name)
      option == parser.options[name]
      flag == option.kind = "flag"
      missing == ~ flag /\ ~ arg.eq /\ s.i >= Len(args)
      text == IF flag THEN Text(Word(""), FALSE)
              ELSE IF arg.eq THEN Text(Word(arg.value), FALSE)
              ELSE NextValue(args[s.i + 1])
      into == ParseInto(option, s.storage[name], text)
      marked == [s EXCEPT !.parsed = @ \cup {name}]
  IN  IF name \notin DOMAIN parser.options THEN Failing(s, "unknown_argument")
      ELSE IF flag /\ arg.eq THEN Failing(marked, "flag_has_value")
      ELSE IF missing THEN Failing(marked, "option_missing_value")
      ELSE [marked EXCEPT
              !.i = IF flag \/ arg.eq THEN s.i + 1 ELSE ValueIndex(s) + 1,
              !.storage[name] = into.stored,
              !.result = IF into.ok THEN "none" ELSE "option_parse_failed"]

\* A wrong version: the double dash itself is among the arguments behind it.
Behind_Inclusive(args, i) == SubSeq(args, i, Len(args))

Behind(args, i) == SubSeq(args, i + 1, Len(args))

\* What print_warn() is for: the turn takes a value that looks like an option.
Warns(parser, args, i) ==
  LET arg == args[i]
      name == ResolveAlias(parser, arg.name)
  IN  /\ ~ IsHelpFlag(arg) /\ ~ IsVersionFlag(arg)
      /\ ClassifyArgument(arg) \in {"long", "short"}
      /\ name \in DOMAIN parser.options /\ parser.options[name].kind # "flag"
      /\ ~ arg.eq /\ i < Len(args) /\ LooksLikeOption(args[i + 1])

\* One turn of the loop.
TakeArgument(parser, args, before) ==
  LET s == [before EXCEPT !.warned = FALSE]
      arg == args[s.i]
      type == ClassifyArgument(arg)
  IN  IF IsHelpFlag(arg) THEN Failing(s, "show_help")
      ELSE IF IsVersionFlag(arg) THEN Failing(s, "show_version")
      ELSE CASE type = "double_dash" ->
                  [s EXCEPT !.positional_args = @ \o Behind(args, s.i),
                            !.i = Len(args) + 1]
             [] type \in {"lone_dash", "positional"} ->
                  [s EXCEPT !.positional_args = Append(@, arg), !.i = @ + 1]
             [] type \in {"long_single", "short_multiple"} ->
                  Failing(s, "invalid_format")
             [] type \in {"long", "short"} -> TakeOption(parser, args, s)

\* The positional arguments are stored one after the other, until one fails.
StorePlace(parser, s, k) ==
  LET p == ParseScalar(parser.positionals[k].number, s.places[k],
                       Text(s.positional_args[k], FALSE))
  IN  IF s.result # "none" THEN s
      ELSE [s EXCEPT !.places[k] = p.stored,
                     !.result = IF p.ok THEN "none" ELSE "positional_parse_failed"]

StorePositionals(parser, s) ==
  LET n == IF Len(s.positional_args) < Len(parser.positionals)
           THEN Len(s.positional_args) ELSE Len(parser.positionals)
      stored[k \in 0 .. n] == IF k = 0 THEN s ELSE StorePlace(parser, stored[k - 1], k)
  IN  stored[n]

IsMissing(parser, s, name) ==
  /\ parser.options[name].required
  /\ ~ parser.options[name].has_default
  /\ name \notin s.parsed

RequiredPositionals(parser) ==
  Cardinality({k \in DOMAIN parser.positionals : parser.positionals[k].required})

\* After the loop: required options, the number of positional arguments, and
\* only then their values.
Conclude(parser, s) ==
  LET stored == StorePositionals(parser, s)
      result == IF stored.result # "none" THEN stored.result
                ELSE IF Len(s.positional_args) > Len(parser.positionals)
                THEN "positional_too_many" ELSE "success"
  IN  IF \E name \in DOMAIN parser.options : IsMissing(parser, s, name)
      THEN Failing(s, "required_option_missing")
      ELSE IF Len(s.positional_args) < RequiredPositionals(parser)
      THEN Failing(s, "positional_missing")
      ELSE [stored EXCEPT !.result = result]

\* The options as print_help() lists them: the aliases of each, with one dash
\* when they are a letter, and its name, with the value it takes.
HelpForms(parser) ==
  {Arg(IF alias \in Letters THEN 1 ELSE 2, alias, FALSE, "") :
     alias \in {a \in DOMAIN parser.aliases :
                 parser.aliases[a] \in ToSet(parser.order)}}
    \cup {LET takes == parser.options[name].kind # "flag"
          IN  Arg(2, name, takes, IF takes THEN "<value>" ELSE "") :
          name \in ToSet(parser.order)}
    \cup {Arg(1, "v", FALSE, ""), Arg(2, "version", FALSE, ""),
          Arg(1, "h", FALSE, ""), Arg(2, "help", FALSE, "")}

----------------------------------------------------------------------------
(* What a command line says, position by position, to compare parse() with. *)

\* The elements of a set of positions, in their order.
InOrder(S) ==
  [k \in 1 .. Cardinality(S) |-> CHOOSE i \in S : Cardinality(S \cap (1 .. i)) = k]

Names(parser, arg) == ResolveAlias(parser, arg.name)

Known(parser, arg) ==
  /\ ClassifyArgument(arg) \in {"long", "short"}
  /\ ~ IsHelpFlag(arg) /\ ~ IsVersionFlag(arg)
  /\ Names(parser, arg) \in DOMAIN parser.options

\* The argument behind it is its value.
Asks(parser, arg) ==
  Known(parser, arg) /\ ~ arg.eq
    /\ parser.options[Names(parser, arg)].kind # "flag"

\* An argument is looked at, or is the value of the one before, or stands
\* behind a double dash.
Roles(parser, args) ==
  LET role[i \in DOMAIN args] ==
        IF i = 1 THEN "seen"
        ELSE IF role[i - 1] = "behind"
                \/ (role[i - 1] = "seen" /\ args[i - 1] = DoubleDash) THEN "behind"
        ELSE IF role[i - 1] = "seen" /\ Asks(parser, args[i - 1]) THEN "value"
        ELSE "seen"
  IN  role

\* The text that the option at position i is given, if there is one.
GivenText(args, i) ==
  IF args[i].eq THEN Text(Word(args[i].value), FALSE) ELSE NextValue(args[i + 1])

\* How the argument at position i ends the parsing, when it does.
Ends(parser, args, i) ==
  LET arg == args[i]
      option == parser.options[Names(parser, arg)]
  IN  IF Roles(parser, args)[i] # "seen" THEN "no"
      ELSE IF IsHelpFlag(arg) THEN "show_help"
      ELSE IF IsVersionFlag(arg) THEN "show_version"
      ELSE IF arg.dashes = 0 \/ arg \in {LoneDash, DoubleDash} THEN "no"
      ELSE IF ClassifyArgument(arg) \in {"long_single", "short_multiple"}
      THEN "invalid_format"
      ELSE IF ~ Known(parser, arg) THEN "unknown_argument"
      ELSE IF option.kind = "flag" THEN IF arg.eq THEN "flag_has_value" ELSE "no"
      ELSE IF Asks(parser, arg) /\ i = Len(args) THEN "option_missing_value"
      ELSE IF option.number /\ ~ IsNumber(GivenText(args, i)) THEN "option_parse_failed"
      ELSE "no"

EndsAt(parser, args) ==
  LET ends == {i \in DOMAIN args : Ends(parser, args, i) # "no"}
  IN  IF ends = {} THEN Len(args) + 1
      ELSE CHOOSE i \in ends : \A j \in ends : i <= j

\* The positions at which an option is given, of those that are reached.
GivenAt(parser, args, name) ==
  {i \in 1 .. EndsAt(parser, args) :
     /\ i <= Len(args)
     /\ Roles(parser, args)[i] = "seen"
     /\ Known(parser, args[i])
     /\ Names(parser, args[i]) = name
     /\ Ends(parser, args, i) \in {"no", "option_parse_failed"}}

\* What an option reads at position i.
ValueAt(option, args, i) ==
  ParseScalar(option.number, option.default, GivenText(args, i))

\* What an option's storage should hold when it is given at these positions: the
\* last value given that is not an empty number, Zero for any other that is no
\* number, and for a list all the values in their order.
Holds(option, args, given) ==
  LET good == InOrder({i \in given : ValueAt(option, args, i).ok})
      told == {i \in given : ~ LeavesStored(option.number, GivenText(args, i))}
  IN  CASE option.kind = "flag" -> given # {}
        [] option.kind = "list" ->
             [k \in DOMAIN good |-> ValueAt(option, args, good[k]).stored]
        [] option.kind = "option" ->
             IF told = {} THEN option.default
             ELSE ValueAt(option, args, CHOOSE i \in told : \A j \in told : j <= i).stored

ShouldHold(parser, args, name) ==
  Holds(parser.options[name], args, GivenAt(parser, args, name))

\* The argument at position i is a positional one.
Places(parser, args, i) ==
  \/ Roles(parser, args)[i] = "behind"
  \/ Roles(parser, args)[i] = "seen" /\ (args[i].dashes = 0 \/ args[i] = LoneDash)

ShouldPlace(parser, args) ==
  LET places == InOrder({i \in DOMAIN args : i < EndsAt(parser, args)
                                              /\ Places(parser, args, i)})
  IN  [k \in DOMAIN places |-> args[places[k]]]

\* What parse() should return.
ShouldReturn(parser, args) ==
  LET places == ShouldPlace(parser, args)
      unread == {k \in DOMAIN places \cap DOMAIN parser.positionals :
                   /\ parser.positionals[k].number
                   /\ ~ IsNumber(Text(places[k], FALSE))}
  IN  IF EndsAt(parser, args) <= Len(args) THEN Ends(parser, args, EndsAt(parser, args))
      ELSE IF \E name \in DOMAIN parser.options :
                /\ parser.options[name].required
                /\ ~ parser.options[name].has_default
                /\ GivenAt(parser, args, name) = {}
      THEN "required_option_missing"
      ELSE IF Len(places) < RequiredPositionals(parser) THEN "positional_missing"
      ELSE IF unread # {} THEN "positional_parse_failed"
      ELSE IF Len(places) > Len(parser.positionals) THEN "positional_too_many"
      ELSE "success"
============================================================================
