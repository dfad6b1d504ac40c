# Redy in TLA+

Redy is a compiler under construction: its front end reads UTF-8 files, splits
them into tokens, parses the tokens into a tree, interns the names and registers
the declarations in a symbol table. Errors become diagnostics, which quote the
source. Around it are a command line parser, file utilities and a start-up
sequence with crash handlers. This directory holds TLA+ models of those
parts, the TLC configurations that check them on small instances, and proofs
that TLAPS checks for every instance.

The front end runs on one thread over in-memory data. What is hard about it is
therefore not concurrency. It is loops that must get past every error, indices
and ids that must stay valid while tables grow and shrink, two units of length
(bytes and code points) that are easily confused, and long sequences of legal
calls that leave a data structure in a state no single test builds. The
outside is harder in the usual ways: system calls fail, the disk changes under a file
that is registered, the logger prints on a thread of its own, and a fault can
stop the main thread at any step.

## Inventory

Paths are below `src/src/`.

| Component | State | Operations | Talks to |
| --- | --- | --- | --- |
| String interner, `frontend/base/string/` | buckets (id, hash), string arena, count of used buckets | `intern`, `lookup(string)`, `lookup(id)`, rehash | lexer's callers, parser, resolver |
| Symbol table, `frontend/processor/resolver/symbol/` | entries (name, target, prev), newest entry by name, scope markers | `push_scope`, `pop_scope`, `declare`, `resolve`, and the `*_by_name` wrappers | interner (by name), resolver |
| Lexer, `frontend/processor/lexer/` | code point stream with line and column, mode, status | `init`, `tokenize`, `reset` | UTF-8 stream, keyword table, diagnostics |
| UTF-8 files, decoder, stream, `unicode/utf8/` | registered files with a status and the ends of their lines, decoded code points, reading position | `register_*`, `load`, `unload`, `line`, `init`, `next`, `consume`, `reset` | file system, lexer, diagnostics |
| Token stream and parser, `frontend/base/token/`, `frontend/processor/parser/` | tokens, position, collected errors, AST context | `parse_all`, one `parse_*` procedure per construct, `consume`, `synchronize`, `rewind` | AST arenas, interner, diagnostics |
| AST and HIR arenas, `frontend/data/` | one vector per node and payload type | `alloc`, `alloc_payload`, `alloc_node`, `get` | parser, resolver |
| Resolver, `frontend/processor/resolver/` | three symbol tables, interner, AST and HIR contexts | `init`, `analyze` | AST, symbol table |
| Diagnostics, `frontend/diagnostic/` | entries with labels and annotations, a builder, `Result<T, E>` | `label`, `annotation`, `build`, `push`, `pop_and_format`, `format_batch_and_clear`; construction, assignment and unwrapping of a `Result` | files, translator, every stage of the pipeline |
| Translator, `i18n/` | primary language, fallbacks | `translate`, `translate_fmt_to`, `set_language`, `config` | diagnostics |
| Command line, `core/cli/`, `app/cli_handler.cc` | registered options and positionals, parsed values | `add_*`, `parse`, `try_*` | start-up |
| Start-up, `app/` | handlers, logger | `on_preinit`, `handle_arguments`, `start` | all |
| File and string utilities, `core/base/` | the disk, temporary files and directories | `read_*`, `write_*`, `create_*`, `rename_file`, `compress`, path and text functions | files, tools |
| Crash diagnostics, `core/diagnostics/` | a bounded buffer | signal and terminate handlers, stack trace | logger |
| Time, console and system information, `core/` | little | wrappers of system calls | start-up, crash diagnostics |
| Build scripts, `build/scripts/` | none at run time | generators and drivers | none |

The components form a pipeline. `cli_handler` registers the files, and for each
of them the lexer turns the stream into tokens, the parser turns tokens into a
tree, and the resolver walks the declarations of the tree. Errors travel the
other way, as `Result` values, and end in the diagnostic engine, which asks the file
manager for the lines it quotes. There are no callbacks and no messages between
components. They share the file manager, the interner and the logger.

What makes each part correct:

* Interner: one id per string, forever, through collisions and rehashes, and
  every probe ends.
* Symbol table: a name denotes its innermost declaration, and leaving a scope
  restores what was there before.
* Lexer: nothing of the program is lost or split wrongly, positions find the
  text, and tokenizing ends.
* Parser: it accepts the language and nothing else, the tree follows the
  precedence table, each error is left behind, and parsing ends.
* UTF-8 files: an id stays valid, a loaded file is what is on disk, and the
  stream holds the code points of the file it was given last.
* Resolver: a declaration is visible where it should be.
* Diagnostics: each error is shown once, in order, a label is written under the
  text it is about, no arithmetic wraps, and what a `Result` owns has one owner.
* Command line: what is stored, returned and printed is what the arguments say.
* Start-up and crash handling: a message by reference is printed while its
  string lives, and a fault is reported before the program ends.
* File utilities: a failing call loses no data, a temporary file is its
  object's own, and a text that is taken apart is made of its parts.

`PROJECT.json` lists, under `hazards`, the lines where each of these can go
wrong, with the properties that would notice.

## Modules

| Module | Models | Kind |
| --- | --- | --- |
| `ScopedEnv` | what a table with lexical scopes promises | abstract specification |
| `SymbolTable` | `SymbolTable`: vectors, scopes, the loop of `pop_scope` | state machine |
| `SymbolTableProofs` | | theorems |
| `InternPool` | what an interner promises | abstract specification |
| `StringInterner` | `StringInterner`: buckets, probes, `rehash` | state machine |
| `StringInternerProofs` | | theorems |
| `MCStringInterner` | a small table with colliding hashes | TLC instance |
| `Characters` | the classes of characters, ASCII and Unicode | constants |
| `Lexer` | `Lexer::tokenize` and every function it calls | state machine |
| `LexerProofs` | | theorems |
| `MCLexer` | alphabets | TLC instance |
| `TokenKinds` | kinds of tokens, operator precedence | constants |
| `Descent` | every `parse_*` procedure that `parse_all` reaches | rules |
| `Parser` | `parse_all`, the token stream, recovery, the arena of nodes | state machine |
| `ParserProofs`, `BracketProofs` | | theorems, those about brackets apart |
| `Grammar` | a grammar of expressions with blocks | reference definition |
| `MCParser` | sources, and the results `parser_test.cc` expects | TLC instance |
| `Paths`, `Lines`, `Strings` | the functions of `core/base` that take a text apart | pure algorithms |
| `Disk` | file operations, `TempFile`, `TempDir` and `compress` over a POSIX file system whose calls may fail | operations |
| `Utf8Decoder` | the decoder, and the encoding as Unicode defines it | pure algorithms |
| `Utf8Files` | `Utf8File`, `Utf8FileManager` | operations |
| `Utf8Stream` | `Utf8Stream` with its two validators | operations |
| `SourceFiles` | the program that calls them, by roles | state machine |
| `SourceFilesProofs` | | theorems |
| `MCSourceFiles` | bytes, paths and texts | TLC instance |
| `ArgParser` | `ArgParser`: options, aliases, positional arguments, `parse` | operations |
| `StackTrace` | the frames of a thread and the report made of them | pure algorithms |
| `Application` | `main` to exit, logger, progress bar, faults | state machine |
| `ApplicationProofs` | | theorems |
| `MCApplication` | command lines and stacks | TLC instance |
| `Translator` | languages, fallbacks, texts | operations |
| `Result` | `Result<T, E>` and its payloads | operations |
| `DiagnosticFormat` | header, label groups, marked lines | pure algorithms |
| `DiagnosticEngine` | `EntryBuilder`, `DiagnosticEngine` | operations |
| `Diagnostics` | who uses the engine, by roles; the pipeline's driver | state machine |
| `DiagnosticsProofs` | | theorems about results and entries |
| `MCDiagnostics` | sources, labels, languages | TLC instance |

`Utf8Stream` EXTENDS `Utf8Files` and `Utf8Decoder`, those `Disk` (which has
`Paths`) and `Lines`, and `SourceFiles` composes them all with `Strings`.
`Application` composes `ArgParser` and `StackTrace`, and `Diagnostics` composes
`Translator`, `Result`, `DiagnosticFormat` and `DiagnosticEngine`.

### Symbol table

`symbols`, `top_of_name` and `scope_markers` are the three vectors of the class,
with the code's 0-based indices and -1 for "none". `PushScope`, `Declare` and
`Resolve` are the functions of those names. `pop_scope` is a loop, and each of
its iterations is an action (`PopScope` takes the marker, `PopSymbol` removes
one entry, `PopReturn` ends it), so that the state between two iterations is
seen by the invariants. A caller never sees it, and no other operation is
enabled there. The calls are those a resolver may make: `pop_scope` only with a
scope open, and `declare` with a valid id.

`ScopedEnv` has an environment and a stack of saved environments, and no table.
The refinement mapping reads the environment off the entries: of all entries of
a name that are alive, the last one. While `pop_scope` runs, the abstract
environment is already the restored one, and the iterations stutter.

### String interner

The table is an open-addressing hash table with linear probing. A call of
`intern` starts with `InternProbe`, or with `InternRehash` when the load factor
demands it. Each step of a probe and each step of a rehash is an action, so the
loops of the code are loops of the model and their termination is a property
and not an assumption. `Hash` is a constant function, because nothing in the code
depends on what it is. `InternPool` promises one id per string, in order.

### Lexer

The stream is a sequence of code points, with the position, line and column that
`Utf8Stream` keeps. Each action is one token or one piece of trivia, with
everything the function in question does. What differs between characters is in
`Characters`: a character is a short name such as `"dq"` or `"U+00E9"`, and
stands for all characters that the code treats alike. The conversions of the
code are there as well. Code points are narrowed to `char` before the ASCII
predicates see them (`Narrow`), and words are looked up among the bytes of the
file with positions counted in code points (`Bytes`, `Utf8`).

Each claim of a comment or a document that the code keeps for some sources only is
stated as it is made (`Terminates`, `KindMatchesText`, `LongestMatch`,
`FormatReconstructs`, ...), beside the condition on the source under which it
holds (`AllRead`, `Unmistakable`, `NoShiftAssignment`, `NoDocumentation`, ...). What is
checked and proved is the claim under that condition (`ReadTerminates`,
`UnmistakableMatches`, `LongestTaken`, `UndocumentedReconstructs`), for sources
that meet it and sources that do not.

Behaviour that the model has because the code has it: `skip_trivia` drops
documentation comments in `kFormat` mode; `\x` needs no digits; an error
carries the offset in the place of the line; `reset` starts over at line 0; a
block comment that ends exactly at the end of the file counts as unterminated; a
string ends at U+0122, whose low byte is a quotation mark; behind a character outside
ASCII the words are looked up at the wrong place of the file.

### Parser

A recursive descent is a program with a call stack. `Descent` writes each
procedure as a rule: the procedure, looking at the next token, is replaced by the
list of what it still has to do. `Parser` keeps that list in `goals`, so `goals`
is the call stack with each frame reduced to what is left of it. Only the eight
elementary goals change anything else: `consume` and `consume_only`, `skip`,
`rewind`, `fail`, `node`, `payload` and `range`. An error returns through every
frame, so `Report` empties `goals`. `synchronize` is one action and skips exactly
the tokens the loop skips.

`made` has the ids that procedures have returned and that no caller has put into
a payload yet. A node records the ids its payload refers to, and `ranges` the
ids meant by each `NodeRange`. Payloads have no arenas of their own, names and
literals are not interned, and source ranges are left out. Tokens are kinds, and
one kind stands for those the parser treats alike (all literals, all primitive
types, the two comments that are skipped, the attributes that conflict with no
other).

`Grammar` says which sources over literals, one binary operator, parentheses,
blocks, `loop`, `while`, `if` and `else` are programs. It is written as the sets
of spans of a text, shortest first, and knows nothing of procedures or lookahead.

Behaviour that the model has because the code has it, and that surprises:

* A line end in front of a statement (after `;`, or at the top of the file) is
  an error, and recovery then skips the statement behind it.
* Behind an operand with prefix operators the stream returns to the wrong token:
  the operators are read from wrong places, the operand is parsed twice, and
  `(-(5)` is accepted.
* An identifier in the place of an operand is never consumed.
* Array types are not accepted as the comment in `parse_type_reference` writes
  them: a token is skipped behind the element type. On `a: [i32` at the end of
  the file that token is the end-of-file token, and `TokenStream::next` aborts
  (or, in a build without DCHECK, reads behind the tokens).
* An enumeration variant with fields leaves its `}` to the enumeration, a range
  `..<` and a `use` list are never accepted, and a function without a body is an
  error also in a trait. With the array type and the prefix operators, such
  variants are why the parser accepts sources with a bracket open.

### Files and stream

`Disk` has the nodes of a file system as a function. Each operation of
`file_util` is one action with a fault among its inputs, the call that fails,
and does what the code then does. `Utf8Files` is a sequence of registered files,
where a file has a status, its bytes and the ends of its lines. `Utf8Stream`
keeps the code points it decoded and a position. `SourceFiles` lets a program
call all of it, in one of five roles which limit what is interleaved: a reader
takes every short sequence of bytes to its end, an editor writes, registers,
loads, unloads and reads in any order, a keeper and a user of temporary objects
work on the disk, and a splitter takes a path or another text apart.

Behaviour that the model has because the code has it:

* The position 0 that `validate_utf8` returns for an invalid first byte means
  success to the stream, and U+FFFD in a valid file is taken for a failure. The
  AVX2 check compares bytes as signed numbers, never sees one outside ASCII and
  skips whole blocks.
* A stream that is initialised again with an empty file keeps the code points of
  the file before, and `reset()` counts lines from 0.
* A failing `fread`, `gzclose` or `fflush` is not seen: `compress` may then remove
  a source whose archive is incomplete. `create_directory` reports success where a
  file is in the way. A `TempDir` takes an existing directory for its own and
  removes it. A `TempFile` whose first write fails leaves its file behind.
* A path without a separator has the base name `""`, and `join_path("/", "a")`
  loses the root.
* `remove_bracket` stores openings behind its stack when more than half of a text
  are some.

### Command line and start-up

An argument is its dashes, its name and, behind an equals sign, a value. `parse`
is the action `ParseArgument`, once for each argument, with `WarnOfValue` in
front of it when the value looks like an option, and `ParseEnds`. A warning and
an error about one argument are thus two messages, each with its `flush`.
`Application` runs from `on_preinit`, one registration per step, to the exit
status. The logger is external, a bounded queue and a worker that prints. An
entry logged by reference holds the name of the string it refers to, and `live`
the names of those that exist, so that a string that goes out of scope too early
is a state. `Fault` may happen in any state of the main thread: a failed check,
a signal, an exception. Its handler reports through the same logger. States
of the main thread are those between its actions, waiting in `flush` among them;
a signal that strikes within the logger or the allocator is not modelled.

Behaviour that the model has because the code has it:

* The warning that an option's value looks like an option appends to that value
  (`value +=` in the message), and the spoilt value is parsed.
* Extraction of a number stops at the first character that is none of one's:
  `-4=x` is read as -4. An empty text leaves an option's number as it was, and any
  other that is no number makes it 0; both are errors.
* `start` ignores what `handle_arguments` returns and the program exits with 0.
* Aliases of two letters are only found behind two dashes.
* SIGTERM has no handler, and SIGINT has one in debug builds only. Before the logger
  has started, a fault may go unreported.

### Diagnostics

What the engine writes is a sequence of items: header, place, source line,
marked line, note. `FormatLabels` is the sorting, the grouping and the loop of
`format_labels` with its `current_line`. An entry is known by the number under
which it was created, and so is each payload of a `Result`, so that both can be
followed to where they end. In the role `render` every shape of label meets
every shape of line; in `engine` entries are pushed, popped, formatted and
cleared while files are unloaded and languages change; `pipeline` is
`verify_compile_pipeline` of `frontend_integration_test.cc`, from `Lexer::init`
to `print_errors`; in `result` results are moved, copied, assigned, unwrapped
and destroyed.

Behaviour that the model has because the code has it:

* Columns count code points and the marker cuts bytes. A label at the end of a
  line, or of the file, is marked at its first column.
* The driver unloads a virtual file before it prints, the file is then read again
  as empty, and the lines of its labels are gone.
* `convert_to_entry` drops the range of the error.
* A header's code ends with a NUL in the place of its bracket.
* `Lexer::init` adds an annotation to an error without labels. That is
  undefined in a build without DCHECK, and the pipeline ends in the phase
  `"undefined"` there.
* `regional` does not use its chain of fallbacks.

## Runs

| Run | Question | Size |
| --- | --- | --- |
| `symbol_table` | Do the vectors stay consistent, and do scopes nest, over any sequence of calls? | 36 thousand states |
| `string_interner` | Is there one id per string, and does every call return? | 38 thousand |
| `lexer` | Are tokens in order, the longest and complete, do positions find their text, also behind errors and outside ASCII, and does `tokenize` end? | 455 thousand |
| `parser` | Are exactly the right sources accepted, with the right tree? Is each error left behind? | 1.22 million |
| `source_files` | Is UTF-8 decoded and nothing else accepted, do stream and file agree on lines, does a failing call lose anything? | 127 thousand |
| `command_line` | Is what is stored, returned and printed what the arguments say? Is a fault reported? | 146 thousand |
| `diagnostics` | Is every entry shown once and rightly, and does every payload have one owner? | 228 thousand |
| `lexer_loops` | violated: `tokenize` does not end on an unknown character | |
| `lexer_shift` | violated: `<<=` and `>>=` are not one token | |
| `lexer_format` | violated: in `kFormat` mode a comment `//@` is in no token | |
| `parser_recursion` | violated: `parse_all` does not end on `for x: vec { }` | |
| `parser_unary` | violated: the parser does not return to the prefix operator | |

### What the runs show

`symbol_table` checks two names (ids 0 and 1, since 0 is the id that a test for "no
name" would confuse), two nodes, four live declarations and three scopes.
That is enough for a name declared twice in one scope and again in an inner one,
for a scope that is empty between two that are not, and for a slot that is used
again after it was popped. Nothing in the class depends on larger numbers, and the
theorems below hold for all of them.

`string_interner` has a table of four buckets that grows to eight. Two of its
strings have the same hash and a third shares their home bucket, which is the last
one. A fourth lives where they spill to, and the larger table parts what
the smaller one kept together. The load factor is 1/2, so that rehashes
happen. `InternReturns` is the reason for the load factor: with a full table a
probe for a new string would run for ever.

`lexer` takes every text of up to five characters over those of comments, `//@` among
them, in all three modes: comments need five to be opened and closed with something
inside. Of what the modes do not tell apart it takes every text of up to three
characters over those of numbers, and of four that start with a digit; of up to four
over those of operators and words; the keywords that its letters spell (`fn`, `if`,
`i8`, `u8`, `union`), alone and made longer; every text of up to four over quotation
marks, backslash and escapes, and of five that start with a quotation mark; and of up to
three over characters whose low byte is that of a quotation mark or a digit. Every text
of up to two over one representative of each class outside ASCII and of the control
characters, and of up to three over seven of them, is read in all modes again. A source
of up to three characters is read a second time after `reset()` (`MaxReread`,
`MaxResets`).

Where the code does not do what a comment or a document says, three runs show the
sources on which it does not: `lexer_loops` a character that is never consumed
(`Terminates`), `lexer_shift` an operator that is cut in two (`LongestMatch`), and
`lexer_format` a documentation comment that `kFormat` mode loses (`FormatReconstructs`).
No run shows the two other conditions to be needed: `KindMatchesText` fails on a string
with U+0122, which `Unmistakable` leaves out, and `KeywordsByName` on a keyword behind
U+00E9, which `AllAscii` does.

`parser` takes the token streams of every case of `parser_test.cc` and a few
statements the tests leave out, everything that one removed or replaced token
turns them into, and every stream of up to four (with blocks), five (with loops)
or six pieces (with branches) over the tokens of the grammar. It also takes
every pair of binary operators, four operators of five levels in any order,
every stream of up to four tokens of prefix operators and line ends and of up to
five of minus signs and parentheses, and sources that are accepted although a
bracket is open (`Unbalanced`), strict and not. Sources with an identifier as an
operand are left out, because `parser_recursion` is about them.
`MaxGoals` stands for the size of the call stack. It is larger than the sources
without recursion ever need: reaching it leads to `"overflow"`, which
`ParseReturns` excludes.

`OutcomeIsKnown` has two parts. `AcceptsGrammar` is an equivalence: of the sources over
the grammar's tokens, exactly the programs are accepted. `AgreesWithTests` compares the
model with the results written down in `parser_test.cc`, errors in their order included,
which also is evidence that the model is the code. Each part has a wrong version of the
code that violates it. `AcceptedIsBalanced` is about the whole language: an accepted
source closes each bracket it opens, and opens it first, unless it has one of the three
constructs in which the code reads a bracket otherwise than it is written (a prefix
operator, an array type, a variant with fields). `Unbalanced` has a source for each of
the last two, and `(-(5)` is one for the first, so none of the exceptions can be left
out. `ErrorsAdvance` is the property panic-mode recovery is for: no token causes two
errors. `NodesAreForest` says that a failed statement's nodes, which stay in the arena,
are nobody's children.

`source_files` decodes every sequence of up to three bytes over one byte of each class
the decoder tells apart (letters, both line ends, continuation bytes of both halves,
first bytes of each length and those that start an overlong, a surrogate or a too large
code point), and longer ones that cross the end of a block, the block having four bytes
instead of 64. `kBufSize` is 2, so that `compress` takes several turns. An editor makes
four calls, which is enough to register, load, edit and read again, or to register,
read, unload and read; a keeper three; a user of temporary objects five, with two names
and two objects, so that names collide; and one call may fail. `DecodesUtf8` names what
is wrongly accepted (`LetThrough`) and wrongly rejected (`TurnedAway`); everything else
is exact. `CompressKeepsData` is about the calls whose failure the code looks at: a read
that fails may still return a part of its chunk, and the code takes that for the end of
the file. `TextsRecompose` holds for every path of up to five characters, every text of
up to four with what is escaped and what looks like an escape, and every text of up to
five brackets.

`command_line` takes every command line of up to three of the arguments that
this program knows or may confuse, and of another parser with numbers, lists,
required options and positional arguments (a parser `cli_handler` does not
build). `ShouldHold`, `ShouldPlace` and `ShouldReturn` say what a command line
means without going through it in the order of the code. Among the arguments
are an option with an empty value and a negative number with an equals sign
behind it. A fault
happens at any step of a command line of at most one argument. The queue has three
places. Deadlock is checked.

`diagnostics` has an entry of up to three labels over three files: lines that
join a group, overlap, are just near enough (the code's distance of 3) or just
too far, lines of one and of two digits, empty lines, lines outside ASCII and
lines that end with a carriage return, and every column and length on them. Up
to three entries go through the engine, in up to eleven calls, enough to push
and show them with files unloaded and languages changed in between. Three
payloads move through four results, and the lexer has up to two errors.
`LabelsRendered` leaves labels on lines that the text has not to the callers.

### Fairness

The front end is called on one thread and never waits. A call that has been
made goes on executing as long as it has a next step, so weak fairness of the
steps inside a call is justified: `Running` for the interner, `Tokenize` and
`TokenizeNext` for the lexer, `Next` for the parser, whose only call is
`parse_all`. Callers are not assumed to call again: there is no fairness on
`intern` being called, on scopes being closed, or on `reset`.

`Application` has `WF(MainThread)`, a thread that the system goes on scheduling,
and `WF(WorkerPrints)`, the logger's worker, which `flush` waits for. Faults
need never happen, and `FaultReported` says what follows when one does.

Deadlock checking is off for lexer and parser, which stop when the call returns,
and for `source_files` and `diagnostics`, whose program may stop calling.

## Proofs

A run shows a property on a small instance; a theorem shows it for every value of
the constants that satisfies the module's `...Assumption`, which TLC evaluates in
the runs. No theorem assumes anything else, except `RefsCorrect` and `ResultCorrect`,
which assume that the logger's queue has room for three messages.

| Module | Theorem | What it states |
| --- | --- | --- |
| `SymbolTableProofs` | `TypeCorrect`, `ChainCorrect`, `TopCorrect`, `MarkersCorrect`, `ResolveCorrect` | every invariant of the run `symbol_table` |
| | `Refinement` | the symbol table implements `ScopedEnv` |
| `StringInternerProofs` | `TypeCorrect`, `TableCorrect` | both invariants of the run `string_interner` |
| | `Refinement` | the interner implements `InternPool` |
| `LexerProofs` | `TypeCorrect`, `InOrderCorrect`, `GapsCorrect`, `FormatCorrect` | `TypeOK`, `TokensInOrder`, `GapsAreTrivia`, `UndocumentedReconstructs` |
| | `KindsCorrect`, `LongestMatchCorrect` | `UnmistakableMatches`, `LongestTaken` |
| `ParserProofs` | `TypeCorrect`, `ErrorsCorrect`, `NodesCorrect`, `PrecedenceCorrect` | `TypeOK`, `ErrorsAdvance`, `NodesAreForest`, `PrecedenceRespected` |
| `BracketProofs` | `BalancedCorrect` | `AcceptedIsBalanced` |
| `SourceFilesProofs` | `TypeCorrect`, `TempsCorrect`, `CompressCorrect` | `TypeOK`, `TempFilesAccounted` and the action property `CompressKeepsData` |
| | `DirectoriesCorrect` | the action property `DirectoriesCreated` |
| | `DecodesCorrect`, `LinesCorrect` | `DecodesUtf8`, `StreamLineInFile` |
| | `CutsCorrect` | `LinesAgree`, a part of `TextsRecompose` |
| `ApplicationProofs` | `TypeCorrect`, `RefsCorrect` | `TypeOK`, `RefsAlive` |
| | `ParsedCorrect`, `ResultCorrect` | `ParsedAgrees`, `ResultAgrees` |
| `DiagnosticsProofs` | `PayloadsCorrect`, `EntriesCorrect` | `PayloadsOwned`, `EntriesKept` |

Each proof has the same outline: an inductive invariant (`IInv`, or a
conjunction of named parts), a lemma that `Init` establishes it, a lemma per action
that the action preserves it, and the theorem, which follows from these and from
what the invariant implies.

### Symbol table

The assumptions are that the invalid id is not the id of a name, and that the number
of declarations fits `int32_t`, to which `declare` casts it.

The invariants are not inductive one by one. To remove an entry, `pop_scope` sets
`top_of_name_` to the entry's `prev`; that keeps `TopIsNewest` only if `prev` is
the last earlier declaration of the same name (`ShadowChainIntact`), and the
marker is a valid place to stop only if markers are nested (`MarkersNested`).
`IInv` is therefore the conjunction of the four, with `LastExists`, which
says that "the last declaration of a name among the first m" is well defined.
There is one lemma per action. `Resolve` and the refinement then follow from
`IInv`: `PushScope` maps to `Enter`, `Declare` to `Bind`, `PopScope` to `Leave`, and
the two remaining actions change nothing that `ScopedEnv` sees (the lemmas
`PopSymbolStutters` and `PopReturnStutters`).

### String interner

`TableAgrees` says that every interned string is found again and that a probe for
one that is not interned ends. What makes a probe find a string is that there is no
empty bucket between its home bucket and its own. That is `ChainsWhole`. It is
preserved because an insertion fills the first empty bucket of its walk
(`Walked`: every bucket that the running probe has passed is occupied), and because
`rehash` starts from an empty table. Between the iterations of `rehash` the ids are
spread over two tables; `Placed` says that each is in exactly one bucket of the new
table or of the part of the old one that is still to be moved. `Counted` and
`Sized` relate the number of strings to that of occupied buckets and to the load
factor, hence an empty bucket is left. The distance around the table is arithmetic
modulo its size, which the solver does not do; the lemmas of "the walk around the
table" replace it by case distinctions. `Refinement` maps the insertion to
`InternNew` and the find to `InternKnown`, and every other step to none.

### Lexer

The sources are any sequences of characters, so nothing is said by enumeration. Where a
token is in the source is computed from its line and column. `Places` relates the
position of the lexer to line and column, `TokensPlaced` and `InOrder` say that tokens
lie one behind the other up to that position, `GapsPassed` that everything else up to it
is white space or inside of a comment, and `FormatCovers` that in the mode `kFormat`
nothing is left out. These hold only until the first `reset()`, after which line and
column start at other numbers (listed as a hazard). The last two hold only as long as no
error has been found, since after an error `tokenize` skips a character. `FormatCorrect`
is about the sources without `//@` (`NoDocumentation`): a documentation comment is
skipped even in `kFormat` mode, which the run `lexer_format` shows.

What a token is, as opposed to where it is, is decided when it is emitted.
`CutWell(kind, p, q)` says that q is where a token of that kind which starts at p
ends, by the source alone; one lemma per procedure of the lexer (`NumberCut`,
`StringCut`, `OperatorCut`, `WordCut`, ...) shows that what it emits is cut well,
and `TokensCut`, kept on top of `IInv`, that every token is. `KindMatchesText`,
`WordsWhole`, `KeywordsByName` and `LongestMatch` then follow from `CutWell` kind by kind,
each under the condition that its property has. The lexer compares a code
point narrowed to `char` while the source is matched in full, hence `Unmistakable` in
`KindsCorrect`; it compares the text of a word as bytes, hence ASCII for keywords
in `LongestMatchCorrect`, and an operator of three characters is cut in two, hence
`NoShiftAssignment` there.

### Parser

The sources are any sequences of token kinds that end in "eof", strict or not, and
nothing is assumed of their length or of the size of the call stack. What a statement
has still to do is the list `goals`, so the invariant has to say that the goals,
one after the other, fit the nodes that are made and the place of the stream.

Goals are therefore typed. `Changes(g, b, c)` says what the goal g does to a stack
of levels: b has, for each node that a procedure has returned and no caller has
used, a bound on the precedence of its operator (zero for anything but a binary
expression). `Moves(g)` says how far g moves the stream at least, which is
backwards for `rewind` and what leads to it. `Runs(goals, b, p, c, q)` composes the
goals from the stack b to the stack c, with the stream p tokens behind the last
error at the start. The lemma `StepsRun` says that the body of every procedure
runs as the procedure's own goal does, for whatever token comes next; it rests on
one lemma for each group of procedures (`ExtensionSteps`, `BinarySteps`, ...).

Levels alone do not give the associativity. That the left operand of an operator is
tight enough depends on the token that is looked at when the operator is
chosen, and that the right operand is depends on the loop of
`parse_binary_expr` having gone on as long as operators bind tighter. `Ready` says
this of the first goal and the next token, and `Follows` of two neighbouring goals.

The invariant `ParserInv` is the conjunction of

* `Descending`: the goals run from the levels of the nodes made, and the first
  is ready;
* `Growing`: there is a function `own` from nodes to their owners (`Owned`), so
  that no node has two, and every binary expression has operands that fit
  (`AllTight`);
* `Advancing`: outside `synchronize` the stream is behind the token of the last
  error, or at the end of the source;
* `Reported` and `Reading`: the errors are in order, and the stream is in the
  source.

`ErrorsCorrect` needs `Descending`, because a `rewind` of more tokens than the
statement has consumed would reach back to the last error. That `consume` is never
told to expect "eof" is part of it too, without which the stream would leave
the source. `TypeCorrect` does not say that no procedure skips the token "eof": one
does (`SkipEof`, listed as a hazard).

`BalancedCorrect` adds a second invariant, `BalanceInv`, kept by the steps from
states with `ParserInv`. Its core is `Nested`: what is open of the tokens read so
far is what the goals left close, one after the other and never more than is open.
That each procedure keeps this is one lemma per procedure (`ListEnds`,
`VariantEnds`, `CallEnds`, ...): the goals it is replaced by close what it closed
(`Suits`), or lead to an error or a prefix operator (`Strays`). Hence the
alternative `Astray` in `BalanceInv`: an error or a prefix operator has come, or
the goals are bound to it. The other two exceptions speak of the source alone, so
the invariant also has to say where in the source a procedure is entered. By
`Placed` a type stands behind one of the tokens that `HasArrayType` names, and by
`Naming` the kind of a variant is decided right behind the variant's path, which is
where `HasVariantFields` looks for a brace. At the end no goal is left, and nothing
is open.

### Files

`DiskInv` says that the disk is a tree: what is there lies in a directory that is there.
Renaming a directory moves everything below it, and the lemma `RenameTree` shows that
the result is a tree again. `TempInv` accounts for the temporary files. Each valid
object has its file with its content, no two objects have the same, and the files left
behind are not more than the calls that have failed; the last part needs the cardinality
of the set of files of no owner before and after each call. Only a user of temporary
objects makes any (roles other than `temporary` leave the temporary nodes empty).
`CompressCorrect` is about a step, and holds of every step from a state with `FilesInv`.
So does `DirectoriesCorrect`: one of the last two turns of the loop in
`create_directories` takes the whole path (`WholeTaken`), and when no failure was
counted that node is there afterwards (`WholeMade`). The directories above it are there
because what is there lies in directories (`AncestorsThere`), whatever the turns before
have done. `ReadInv` gives `TypeOK`: an unloaded file is empty, and the stream's
position lies in what it decoded.

`DecodesCorrect` is about every content. `StreamInv` says that the
stream still has what decoding its content gave, in whatever order it is read, reset and
opened again; the rest is about the content alone. The arithmetic of one code point
is `AssembledIs`: the assembled bits are a valid code point exactly if the bytes
are well-formed, and encoded they are the bytes again (one lemma per length, as sums of
digits to the base 64). `WalkIs` gives the positions at which `decode_bulk` decodes
one by one, and `WalkBegins` shows that in UTF-8 they are those where sequences
begin: a continuation byte begins none, and the first byte says how many follow.
`EncodedIs` and `TruncatedIs` compare the encoder and `utf8_truncate` with that walk.
`AcceptedIsUtf8` follows it from the first byte and `RefusedIsTurnedAway` from the end of
the skipped blocks, and the exceptions in `LetThrough` and `TurnedAway` are where the
two need a hypothesis.

`LinesCorrect` relates two counts of the same line feeds, the stream's in code points
and the file's in bytes. `LineFits`, part of `StreamOK`, says that the stream's line is
the number of line feeds it has read, or one more: `advance` keeps it either way,
`reset` turns the second case into the first. `FeedsDecoded` shows that decoding adds no
line feed, because a code point LF comes from one byte LF (`DecodedFeed`), and
`LineCountIs` that the file counts every LF in `NewlinePositions` and the part behind
the last one if there is any (`LineInFile`). `ReadInv` keeps the stream's file
registered, and `EntryOK` says that the line ends of a loaded file are those of its
content. With it `CutsCorrect` compares the two ways to cut a text into lines
(`LinesAre`).

Reading a block, decoding and creating directories are recursive functions here. That a
recursive function satisfies its equation is proved by the least number for which it
would fail; the library's theorem on recursive functions has an operator as a
parameter and cannot be used. The assumptions say that the nodes of
the roles are apart from the temporary ones, that paths name nodes, and that contents
are sequences of bytes.

### Start-up and faults

A message by reference is a hazard because the worker prints it later. `RefsAlive` holds
because the code calls `flush` before the referenced string goes out of scope. The
invariant says where the main thread may be (`PlaceInv`), that until a fault the worker
runs (`WorkerInv`), how many messages wait at each place (`QueueInv`) and that what they
refer to is alive (`LiveInv`). A full queue drops messages, the report of a fault among
them, so `dropped = 0` is part of it. This needs room for three messages in the queue:
one in front of a fault, the text of a failed check and the report. `RefsCorrect`
therefore assumes `QueueSize >= 3`; the code asks the library for a queue of 2 KiB
(`logger.cc:25`), and how many messages these hold is the library's affair.
`TypeCorrect` also covers the report of a fault for a stack of any depth: the bytes
written leave room for the NUL that ends them.

### Command line

`ShouldHold`, `ShouldPlace` and `ShouldReturn` say what a command line means
position by position; `parse()` goes through it once and changes its storage on
the way. `Loop` relates the two: what is stored when position `i` is reached is
what the arguments before `i` say (`Reached`). Of one turn `TakeArgumentTakes`
shows `Takes`: the loop goes on in the same relation, or `parse()` ends with an
error that `ShouldReturn` names too. `ConcludeAgrees` does the rest, the
positional arguments, the required options and the help. `Agrees`, which both
arrive at, is `ParsedAgrees` and the first part of `ResultAgrees`.

The definitions on the side of the meaning are recursive functions and
cardinalities. `RolesAre` and `AllBehind` say what the role of a position depends
on, `RankIs` to `InOrderMore` how a set of positions is put in order and what one
more position adds to it. Induction is replaced by the least position at
which a claim fails.

`ParsersAssumption` says that the parsers of other programs are as `add_option`
and its like build them (`Built`), that arguments are of the forms in `Args`, and
that no name of a flag is a single letter. That the parser this program builds
is `Built` is proved (`RedyBuilt`), one call of `cli_handler` after the other.

`ResultAgrees` also says that the user has been told when `handle_arguments()`
returns. `ToldInv` says that while the main thread waits in `flush` the message
is printed or still in the queue. It needs that the queue did not drop it, thus
`IInv` and `QueueSize >= 3`, which `ResultCorrect` assumes. `HelpUnderstood`
proves its last part: each form that the help shows is one `parse()` knows.

### Results and entries

`PayloadsCorrect` follows from `OwnedOnce`: no payload is in two places, be it the
values of two results, what was handed out, or what was destroyed. `SlotTyped` says that
the flag of a result names the member that was constructed, without which a destructor
would destroy the other one. `EntriesCorrect` follows from `EntriesOnce`: each entry is
built, waiting, shown or cleared, and those waiting are in the order they were pushed,
behind all that were shown. For the driver of the pipeline `VectorsAt` and `ErrorsAt`
say, for each of its phases which errors are still in the vector of the stage and which
ones have become entries; that is why no error is lost when a stage returns early.

### What is model-checked only

* Liveness under fairness: `InternReturns`, `ReadTerminates`, `StrictTerminates`,
  `ParseReturns`, `FaultReported`, and everything about ENABLED. The prover has
  no rules for them.
* `TextsRecompose` but for its part `LinesAgree`, `LabelsRendered`, and
  `AcceptsGrammar` of `OutcomeIsKnown`. They compare functions that are built of
  folds, filters and orders of sequences. The library's theorems about these have an operator as
  a parameter, and the prover does not expand `SelectSeq`.
* `AgreesWithTests`, its other part, is about particular sources.

## Not modelled

* Resolver: it is unfinished. `register_root_declarations` calls eight functions
  of which seven are declared and not defined, so no program with it links, and
  `lower_all` does nothing. What it is built on, interner and symbol table, is
  modelled.
* `Parser`: the arenas of payloads, the interning of names, and
  `parse_array_expr` and `parse_tuple_expr`, which nothing calls.
* `Result::map`, `map_err` and `and_then`: no instance of them compiles, because a
  `Result` has no constructor from a bare value.
* A signal within the logger or the allocator, which its handler would enter a
  second time.
* Addresses. The models have values, so a `string_view` that dangles after the
  string arena grew, or a `Utf8File&` after another file was registered, is not
  visible. In `Application` references to strings are modelled, since the logger
  depends on them; the one in `read_file_impl` that is not flushed
  (`file_util.cc:75`) is not, as nothing of `Application` reads a file.
* `core::FileManager` and `core::File`, which repeat the UTF-8 ones and which
  nothing uses, and the listing of directories.
* What `translate_fmt_to` writes behind its text: it ends it with no NUL. A message is
  its key and the number of its arguments.
* Symbol names in a stack trace, `system_info`, time and console: they print what
  the platform says. Colours and wording, everywhere.
* HIR: the data types exist, and nothing in the code fills them yet.
* Build scripts, which run before the program.
* `kDocumentationComment` is only an error for the parser, as in the code.

## Plan

Modelled and checked: everything in the table of modules. Proved: every safety
property of the passing runs but those under "What is model-checked only". To come:

1. The remaining parts of `TextsRecompose`, from recursive functions in the place of
   the folds, as `LinesAgree` was.
2. `AcceptsGrammar`: that each goal accepts the spans of its nonterminal, along the
   typing of goals in `ParserProofs`.
3. The resolver, once it links: `*_by_name` composes interner and symbol table.
