---------------------------- MODULE Application ----------------------------
(***************************************************************************)
(* The program from its first to its last step: on_preinit() registers the *)
(* handlers and starts the logger, handle_arguments() parses the command   *)
(* line and shows the progress of a compilation, start() warns of dropped  *)
(* messages and returns.  A fault may stop the main thread anywhere; its   *)
(* handler reports it through the same logger.                             *)
(*                                                                         *)
(* The logger is a library: a bounded queue between the thread that logs   *)
(* and a worker that prints.  A message is logged by copy or by reference; *)
(* of one logged by reference the queue holds the name of the string it    *)
(* refers to, which lives while that name is in live.                      *)
(***************************************************************************)
EXTENDS ArgParser, StackTrace

CONSTANTS
  OtherParsers,  \* by program: parsers that use more of ArgParser
  CommandLines,  \* by program: the arguments it is started with
  QueueSize,     \* the messages the logger's queue holds
  kWidth,        \* the cells of the progress bar
  kSteps,        \* the updates of the progress bar after the first
  kEtaHistory,   \* the estimates it keeps
  IsDebug,       \* whether the build is a debug build
  Stacks,        \* the stacks a fault may find
  FaultArgs      \* bound: faults only with at most so many arguments

ASSUME ApplicationAssumption ==
  /\ QueueSize \in Nat \ {0} /\ kWidth \in Nat \ {0}
  /\ kSteps \in Nat \ {0} /\ kEtaHistory \in Nat \ {0}
  /\ IsDebug \in BOOLEAN /\ FaultArgs \in Nat
  /\ DOMAIN CommandLines = DOMAIN OtherParsers \cup {"redy"}
  /\ Stacks \subseteq Seq(Nat)

\* The parsers are as the operators of ArgParser build them, and no flag of
\* this program has a letter for a name.
ASSUME ParsersAssumption ==
  /\ \A name \in DOMAIN OtherParsers : Built(OtherParsers[name])
  /\ \A name \in DOMAIN CommandLines : CommandLines[name] \subseteq Seq(Args)
  /\ Letters \cap {"verbose", "debug", "release", "rel_w_deb_info", "min_size_rel"} = {}

VARIABLES
  program, argv,  \* the program and its command line
  pc,             \* where the main thread is
  then,           \* where it goes on after flush()
  setup,          \* how many of the Registrations are done
  parse,          \* the variables of parse()
  build_type,     \* options->build_type
  bar,            \* the progress bar
  result,         \* what handle_arguments() returned
  status,         \* the exit status
  fault,          \* the fault that happened, or "none"
  report,         \* the report of its stack
  queue, worker, dropped, printed,   \* the logger
  live            \* the strings that messages may refer to

logger == <<queue, worker, dropped, printed>>
main == <<parse, build_type, bar, result>>
vars == <<program, argv, pc, then, setup, main, status, fault, report, logger, live>>

----------------------------------------------------------------------------
(* setup_options() and the flags that handle_arguments() adds.  The aliases *)
(* of two letters are of use behind two dashes only.                        *)

RedyParser ==
  LET config == AddOption(NewParser, "config", FALSE, FALSE, TRUE,
                          Text(Word("redy_config.toml"), FALSE))
      verbose == AddFlag(AddAlias(config, "c", "config"), "verbose")
      sub_command == AddPositional(AddAlias(AddAlias(verbose, "V", "verbose"),
                                            "mr", "min_size_rel"),
                                   FALSE, FALSE, Text(Word("compile"), FALSE))
      debug == AddAlias(AddFlag(sub_command, "debug"), "d", "debug")
      release == AddAlias(AddFlag(debug, "release"), "r", "release")
      with_info == AddAlias(AddFlag(release, "rel_w_deb_info"), "rd", "rel_w_deb_info")
  IN  AddFlag(with_info, "min_size_rel")

parser == IF program = "redy" THEN RedyParser ELSE OtherParsers[program]

----------------------------------------------------------------------------
(* The logger, by its use: messages beyond the queue's size are counted and *)
(* dropped, and flush() waits for the worker to have emptied the queue.     *)

Owners == {"copy", "message", "warning", "help", "version", "options", "progress",
           "completed", "check", "report", "dropped"}

LogTo(q, owner, by_ref) ==
  IF Len(q) < QueueSize THEN Append(q, [owner |-> owner, by_ref |-> by_ref]) ELSE q

Log(owner, by_ref) ==
  /\ queue' = LogTo(queue, owner, by_ref)
  /\ dropped' = IF Len(queue) < QueueSize THEN dropped ELSE dropped + 1
  /\ UNCHANGED <<worker, printed>>

\* A wrong version: the function returns, and its string dies, without flush().
LogRefAndFlush_NoFlush(owner, next) ==
  /\ Log(owner, TRUE)
  /\ pc' = next
  /\ UNCHANGED <<live, then>>

\* A message that refers to a string of this function, then flush().
LogRefAndFlush(owner, next) ==
  /\ Log(owner, TRUE)
  /\ live' = live \cup {owner}
  /\ pc' = "flush"
  /\ then' = next

\* Nothing is known of a logger that was not started: here it loses what it is
\* given.
FlushReturns == queue = << >> \/ worker # "running"

\* The worker prints the first message.
WorkerPrints ==
  /\ worker = "running" /\ queue # << >>
  /\ printed' = printed \cup {Head(queue).owner}
  /\ queue' = Tail(queue)
  /\ UNCHANGED <<program, argv, pc, then, setup, main, status, fault, report,
                 worker, dropped, live>>

\* flush() returns, and the string that was logged by reference dies.
FlushEnds ==
  /\ pc = "flush" /\ FlushReturns
  /\ pc' = then
  /\ live' = {}
  /\ UNCHANGED <<program, argv, then, setup, main, status, fault, report, logger>>

----------------------------------------------------------------------------
(* on_preinit() and handle_arguments(). *)

Registrations == <<"stack_trace", "terminate", "signals", "console", "glog">>

Registered(handler) == \E k \in 1 .. setup : Registrations[k] = handler

NotStarted == [i |-> 1, positional_args |-> << >>, parsed |-> {}, warned |-> FALSE,
               result |-> "none", storage |-> << >>, places |-> << >>]

NewBar == [at |-> 0, cells |-> << >>, eta |-> 0]

Register ==
  /\ pc = "preinit" /\ setup < Len(Registrations)
  /\ setup' = setup + 1
  /\ worker' = IF Registrations[setup + 1] = "glog" THEN "running" ELSE worker
  /\ pc' = IF setup + 1 = Len(Registrations) THEN "options" ELSE pc
  /\ UNCHANGED <<program, argv, then, main, status, fault, report,
                 queue, dropped, printed, live>>

\* setup_options() and the flags behind it gave the parser its options, whose
\* constructors store the defaults; parse() is entered.
SetupOptions ==
  /\ pc = "options"
  /\ parse' = Started(parser, argv)
  /\ pc' = IF argv = << >> THEN "returned" ELSE "parse"
  /\ result' = parse'.result
  /\ UNCHANGED <<program, argv, then, setup, build_type, bar, status, fault,
                 report, logger, live>>

args == Tail(argv)

\* Where handle_arguments() goes when parse() has come to a result.
Parsing(p) == IF p.result = "none" THEN "parse"
              ELSE IF p.result = "success" THEN "build_type" ELSE "returned"

\* print_help(), print_version() or print_error(), if any.
Prints(p) ==
  CASE p.result = "show_help" -> "help"
    [] p.result = "show_version" -> "version"
    [] p.result \notin {"none", "success", "show_help", "show_version"} -> "message"
    [] OTHER -> "copy"

\* The state of parse() becomes p, and what it prints is printed.
ParseBecomes(p) ==
  /\ parse' = p
  /\ result' = p.result
  /\ IF Prints(p) = "copy"
     THEN pc' = Parsing(p) /\ UNCHANGED <<then, logger, live>>
     ELSE LogRefAndFlush(Prints(p), Parsing(p))
  /\ UNCHANGED <<program, argv, setup, build_type, bar, status, fault, report>>

\* print_warn(), before the value that looks like an option is parsed.
WarnOfValue ==
  /\ pc = "parse" /\ parse.i <= Len(args)
  /\ Warns(parser, args, parse.i) /\ ~ parse.warned
  /\ parse' = [parse EXCEPT !.warned = TRUE]
  /\ LogRefAndFlush("warning", "parse")
  /\ UNCHANGED <<program, argv, setup, build_type, bar, result, status, fault, report>>

ParseArgument ==
  /\ pc = "parse" /\ parse.i <= Len(args)
  /\ Warns(parser, args, parse.i) => parse.warned
  /\ ParseBecomes(TakeArgument(parser, args, parse))

ParseEnds ==
  /\ pc = "parse" /\ parse.i > Len(args)
  /\ ParseBecomes(Conclude(parser, parse))

\* The configuration is the first of these flags that is given.
Configurations == <<"debug", "release", "rel_w_deb_info", "min_size_rel">>

BuildType(storage) ==
  LET given == {k \in DOMAIN Configurations : storage[Configurations[k]]}
  IN  IF given = {} THEN "debug"
      ELSE Configurations[CHOOSE k \in given : \A j \in given : k <= j]

\* Another program's parser is tried for its result alone.
ChooseBuildType ==
  /\ pc = "build_type"
  /\ IF program # "redy"
     THEN /\ pc' = "returned"
          /\ UNCHANGED <<build_type, then, logger, live>>
     ELSE /\ build_type' = BuildType(parse.storage)
          /\ IF parse.storage["verbose"] THEN LogRefAndFlush("options", "progress")
             ELSE pc' = "progress" /\ UNCHANGED <<then, logger, live>>
  /\ UNCHANGED <<program, argv, setup, parse, bar, result, status, fault, report>>

----------------------------------------------------------------------------
(* ProgressBar, whose progress is at of kSteps. *)

Clamp(at) == IF at < 0 THEN 0 ELSE IF at > kSteps THEN kSteps ELSE at

\* The quarters of a cell, from empty to three of four.
Shades == <<" ", "light", "medium", "dark">>

\* create_bar(): full cells, one that is filled by quarters, empty ones.
CreateBar(at) ==
  LET scaled == at * kWidth
      full == scaled \div kSteps
      frac == ((scaled % kSteps) * 4) \div kSteps
  IN  [k \in 1 .. kWidth |-> IF k <= full THEN "full"
                             ELSE IF k = full + 1 THEN Shades[frac + 1] ELSE " "]

\* update_impl(): between the ends an estimate is kept, and the oldest dropped
\* when they are too many.
Updated(b, progress) ==
  LET at == Clamp(progress)
      more == IF at > 0 /\ at < kSteps THEN b.eta + 1 ELSE b.eta
  IN  [at |-> b.at, cells |-> CreateBar(at),
       eta |-> IF more > kEtaHistory THEN kEtaHistory ELSE more]

UpdateProgress ==
  /\ pc = "progress" /\ bar.at <= kSteps
  /\ bar' = [Updated(bar, bar.at) EXCEPT !.at = @ + 1]
  /\ LogRefAndFlush("progress", "progress")
  /\ UNCHANGED <<program, argv, setup, parse, build_type, result, status, fault, report>>

\* The last line is logged by copy, and nobody waits for it.
FinishProgress ==
  /\ pc = "progress" /\ bar.at > kSteps
  /\ bar' = Updated(bar, kSteps)
  /\ Log("completed", FALSE)
  /\ pc' = "returned"
  /\ UNCHANGED <<program, argv, then, setup, parse, build_type, result, status,
                 fault, report, live>>

\* start() forgets what handle_arguments() returned.
Return ==
  /\ pc = "returned"
  /\ IF dropped > 0 THEN Log("dropped", TRUE) ELSE UNCHANGED logger
  /\ status' = 0
  /\ pc' = "exiting"
  /\ UNCHANGED <<program, argv, then, setup, main, fault, report, live>>

\* The logger is destroyed with the program, its last messages printed or not.
Exit ==
  /\ pc = "exiting"
  /\ pc' = "exited"
  /\ worker' = "stopped"
  /\ UNCHANGED <<program, argv, then, setup, main, status, fault, report, live,
                 queue, dropped, printed>>

----------------------------------------------------------------------------
(* A fault on the main thread: a signal, std::terminate(), or a failed      *)
(* check, which logs its text and terminates.  It comes between two actions *)
(* of the thread, while it waits in flush() too; inside the logger's own    *)
(* code, or the allocator's, it is not modelled.                            *)

FaultKinds == {"SIGSEGV", "SIGINT", "SIGTERM", "terminate", "check"}

\* register_signal_handlers() leaves SIGTERM alone, and SIGINT to debug builds.
Handled(kind) ==
  CASE kind = "SIGTERM" -> FALSE
    [] kind = "SIGINT" -> IsDebug /\ Registered("signals")
    [] kind = "SIGSEGV" -> Registered("signals")
    [] kind \in {"terminate", "check"} -> Registered("terminate")

kDefaultFirstFrame == 1

\* The frames of the handler that signal_handler() and terminate_handler() ask
\* for: the default ones.
ReportOf(stack) ==
  StackTraceFromCurrentContext(stack, kDefaultFirstFrame, kPlatformMaxFrames)

Fault(kind, stack) ==
  /\ fault = "none" /\ pc # "exited" /\ Len(argv) <= FaultArgs + 1
  /\ fault' = kind
  /\ report' = ReportOf(stack)
  /\ IF kind = "check" THEN Log("check", TRUE) ELSE UNCHANGED <<queue, dropped, printed>>
  /\ pc' = IF Handled(kind) THEN "report" ELSE "killed"
  /\ worker' = IF Handled(kind) THEN worker ELSE "stopped"
  /\ UNCHANGED <<program, argv, then, setup, main, status, live>>

\* A wrong version: the handler does not flush.
ReportFault_NoFlush ==
  /\ pc = "report"
  /\ Log("report", TRUE)
  /\ live' = live \cup {"report"}
  /\ pc' = "stop"
  /\ UNCHANGED <<program, argv, then, setup, main, status, fault, report>>

\* signal_handler() and terminate_handler(): the report, flush(), stop_worker()
\* and exit(), without the destructors of the frames the fault was met in.
ReportFault ==
  /\ pc = "report"
  /\ LogRefAndFlush("report", "stop")
  /\ UNCHANGED <<program, argv, setup, main, status, fault, report>>

StopAndExit ==
  /\ pc = "stop"
  /\ worker' = "stopped"
  /\ status' = 1
  /\ pc' = "exited"
  /\ UNCHANGED <<program, argv, then, setup, main, fault, report, live,
                 queue, dropped, printed>>

----------------------------------------------------------------------------
Init ==
  /\ program \in DOMAIN CommandLines
  /\ argv \in {<< >>} \cup {<<Word(program)>> \o line : line \in CommandLines[program]}
  /\ pc = "preinit" /\ then = "options" /\ setup = 0
  /\ parse = NotStarted /\ build_type = "debug" /\ bar = NewBar
  /\ result = "none" /\ status = 0
  /\ fault = "none" /\ report = EntriesToBuffer(<< >>)
  /\ queue = << >> /\ worker = "none" /\ dropped = 0 /\ printed = {} /\ live = {}

MainThread ==
  \/ Register \/ SetupOptions \/ WarnOfValue \/ ParseArgument \/ ParseEnds
  \/ ChooseBuildType
  \/ UpdateProgress \/ FinishProgress \/ Return \/ Exit
  \/ FlushEnds \/ ReportFault \/ StopAndExit

Ended == pc \in {"exited", "killed"} /\ UNCHANGED vars

Next ==
  \/ MainThread
  \/ WorkerPrints
  \/ \E kind \in FaultKinds, stack \in Stacks : Fault(kind, stack)
  \/ Ended

\* The main thread goes on, and the logger's worker prints what is queued;
\* faults need never happen.
Spec == Init /\ [][Next]_vars /\ WF_vars(MainThread) /\ WF_vars(WorkerPrints)

----------------------------------------------------------------------------
\* Every variable has its type; the bar has as many cells as its width, however
\* far it is, the estimates stay bounded, and a report, whatever the stack,
\* leaves room for the byte that ends it.
TypeOK ==
  /\ pc \in {"preinit", "options", "parse", "flush", "build_type", "progress",
            "returned", "exiting", "report", "stop", "exited", "killed"}
  /\ setup \in 0 .. Len(Registrations)
  /\ build_type \in {Configurations[k] : k \in DOMAIN Configurations}
  /\ bar.at \in 0 .. kSteps + 1
  /\ Len(bar.cells) = IF bar.at = 0 THEN 0 ELSE kWidth
  /\ bar.eta \in 0 .. kEtaHistory
  /\ status \in {0, 1} /\ fault \in FaultKinds \cup {"none"}
  /\ report.written < kBufSize
  /\ Len(report.lines) <= kPlatformMaxFrames
  /\ Len(queue) <= QueueSize
  /\ worker \in {"none", "running", "stopped"}
  /\ printed \subseteq Owners /\ live \subseteq Owners

\* What parse() has stored when it comes to a result, early or not, is what the
\* command line says position by position: each option the last value it was
\* given, each list all of them, and the rest in its order as positional
\* arguments.
ParsedAgrees ==
  parse.result # "none" /\ argv # << >> =>
    LET placed == ShouldPlace(parser, args)
    IN  /\ \A name \in DOMAIN parser.options :
              parse.storage[name] = ShouldHold(parser, args, name)
        /\ parse.positional_args = placed
        /\ parse.result = "success" =>
             \A k \in DOMAIN parser.positionals :
               LET p == parser.positionals[k]
               IN  parse.places[k] = IF k \in DOMAIN placed
                                     THEN ReadAs(p.number, Text(placed[k], FALSE))
                                     ELSE p.default

\* parse() returns what the command line deserves, the user has been told of it
\* when handle_arguments() returns, who follows the help is understood, and
\* nothing is compiled after an error.
ResultAgrees ==
  /\ parse.result # "none" =>
       parse.result = IF argv = << >> THEN "invalid_format" ELSE ShouldReturn(parser, args)
  /\ pc = "returned" /\ argv # << >> =>
       Prints(parse) = "copy" \/ Prints(parse) \in printed
  /\ "help" \in printed =>
       \A arg \in HelpForms(parser) :
         Known(parser, arg) \/ IsHelpFlag(arg) \/ IsVersionFlag(arg)
  /\ bar.at > 0 => result = "success"

\* A message that was logged by reference and is still to be printed waits while
\* what it refers to is alive, and no message is dropped.  The text of a check is
\* a literal, or a string of the comparison that failed, which dies behind the
\* call that terminates.
RefsAlive ==
  /\ worker = "running" =>
       \A k \in DOMAIN queue : queue[k].by_ref => queue[k].owner \in live \cup {"check"}
  /\ dropped = 0

\* A fault on the main thread that has a handler, once the logger is started,
\* ends the program with a failure after its report was printed.
FaultReported ==
  fault # "none" /\ pc # "killed" /\ worker = "running" ~>
    /\ pc = "exited" /\ status = 1
    /\ "report" \in printed
    /\ fault = "check" => "check" \in printed
============================================================================
