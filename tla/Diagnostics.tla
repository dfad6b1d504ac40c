---------------------------- MODULE Diagnostics ----------------------------
(***************************************************************************)
(* Who uses the engine: what the program is busy with is its role, chosen  *)
(* at the start.  It writes an entry and formats it ("render"); it handles *)
(* several, with files that are unloaded and languages that change         *)
(* ("engine"); it compiles a source, as the driver of the integration test *)
(* does, which hands every error from a Result to the engine ("pipeline"); *)
(* or it moves Results around ("result").                                  *)
(***************************************************************************)
EXTENDS DiagnosticEngine

CONSTANTS
  FirstLabels,   \* labels of an entry with that label alone
  Labels,        \* labels of an entry with several
  PlainLabels,   \* labels of the role "engine"
  Notes,         \* annotations
  Headers,       \* severity and id of an entry that is formatted
  ErrorLabels,   \* labels the parser attaches to an error
  Configs,       \* configurations of the translator
  MaxLabels, MaxEntries, MaxPayloads, MaxCalls, MaxErrors  \* bounds

ASSUME DiagnosticsAssumption ==
  /\ {"init", "tokens", "parsed"} \subseteq ResultSlots
  /\ \A n \in {MaxLabels, MaxEntries, MaxPayloads, MaxCalls, MaxErrors} : n \in Nat

VARIABLES
  role,    \* what the program is busy with
  source,  \* what the pipeline is given: "valid", "invalid" or "unknown"
  phase,   \* where the pipeline is
  calls    \* how many calls the role "engine" has made

vars == <<engineVars, resultVars, config, role, source, phase, calls>>

Init ==
  /\ EngineInit
  /\ slots = [s \in ResultSlots |-> NoResult]
  /\ kinds = << >> /\ taken = {} /\ destroyed = {}
  /\ role \in {"render", "engine", "pipeline", "result"}
  /\ config = CreateDefault(kDefault)
  /\ source \in IF role = "pipeline" THEN {"valid", "invalid", "unknown"} ELSE {"valid"}
  /\ phase = "init" /\ calls = 0

----------------------------------------------------------------------------
(* Building, formatting and what goes on around it. *)

NoResults == UNCHANGED <<slots, taken, destroyed>>
NoPipeline == UNCHANGED <<role, source, phase>>

Counted ==
  IF role = "engine" THEN calls < MaxCalls /\ calls' = calls + 1 ELSE UNCHANGED calls

Working == role \in {"render", "engine"} /\ Counted /\ NoResults /\ NoPipeline

MayBuild == Len(entryOf) < IF role = "render" THEN 1 ELSE MaxEntries

LabelsFor(labels) ==
  IF role = "engine" THEN IF labels = << >> THEN PlainLabels ELSE {}
  ELSE IF labels = << >> THEN FirstLabels \cup Labels
  ELSE IF labels[1] \in Labels /\ Len(labels) < MaxLabels THEN Labels ELSE {}

Begins ==
  /\ Working /\ MayBuild
  /\ \E h \in IF role = "render" THEN Headers ELSE {<<2, 17>>} : NewBuilder(h[1], h[2])
  /\ UNCHANGED <<texts, loaded, entryOf, built, entries, pushed, shown, cleared,
                 page, kinds, config>>

AddsLabel ==
  /\ Working
  /\ \E label \in LabelsFor(builder.labels) : AddLabel(label)
  /\ UNCHANGED <<texts, loaded, entryOf, built, entries, pushed, shown, cleared,
                 page, kinds, config>>

Annotates ==
  /\ Working /\ role = "render"
  /\ \A i \in DOMAIN builder.labels : builder.labels[i].notes = << >>
  /\ \E note \in Notes : AddAnnotation(note)
  /\ UNCHANGED <<texts, loaded, entryOf, built, entries, pushed, shown, cleared,
                 page, kinds, config>>

Builds ==
  /\ Working
  /\ Build
  /\ UNCHANGED <<texts, loaded, entries, pushed, shown, cleared, page, config>>

Pushes ==
  /\ Working
  /\ PushOne \/ (role = "engine" /\ PushAll)
  /\ UNCHANGED <<texts, loaded, entryOf, builder, shown, cleared, kinds, config>>

Clears ==
  /\ Working /\ role = "engine"
  /\ Clear
  /\ UNCHANGED <<texts, loaded, entryOf, builder, built, pushed, shown, kinds, config>>

Formats ==
  /\ Working
  /\ \/ PopAndFormat
     \/ role = "engine" /\ FormatBatchAndClear
  /\ UNCHANGED <<entryOf, builder, built, pushed, cleared, kinds, config>>

Unloads ==
  /\ Working /\ role = "engine"
  /\ \E f \in loaded : UnloadFile(f)
  /\ page' = NoPage
  /\ UNCHANGED <<entryOf, builder, built, entries, pushed, shown, cleared, kinds, config>>

Configures ==
  /\ Working /\ role = "engine"
  /\ \/ \E lang \in Languages : SetLanguage(lang)
     \/ \E c \in Configs : SetConfig(c.primary, c.fallbacks, c.skip_empty)
  /\ page' = NoPage
  /\ UNCHANGED <<texts, loaded, entryOf, builder, built, entries, pushed, shown,
                 cleared, kinds>>

----------------------------------------------------------------------------
(* Results. *)

Results ==
  /\ role = "result"
  /\ \/ \E s \in ResultSlots : EndResult(s) \/ Unwrap(s) \/ UnwrapErr(s)
     \/ \E s, t \in ResultSlots : MoveConstruct(s, t) \/ MoveAssign(s, t)
     \/ /\ Len(kinds) < MaxPayloads
        /\ \/ \E s \in ResultSlots, n \in 0 .. 2 : ConstructOk(s, n) \/ ConstructErr(s, n)
           \/ \E s, t \in ResultSlots : CopyConstruct(s, t) \/ CopyAssign(s, t)
           \/ \E s \in ResultSlots : UnwrapOr(s, 1)
  /\ UNCHANGED <<engineVars, config, calls>> /\ NoPipeline

----------------------------------------------------------------------------
(* The pipeline. *)

At(p, next) ==
  /\ role = "pipeline" /\ phase = p /\ phase' = next
  /\ UNCHANGED <<role, source, calls, config, builder, cleared>>

\* The errors that are in the Result just made, with the labels they have.
Errors(n, severity, labels) ==
  entryOf' = entryOf \o [i \in 1 .. n |-> EntryWith(severity, 17, labels[i])]

NoError == entryOf' = Append(entryOf, NoEntry)
InEngineOnly == UNCHANGED <<texts, loaded, built, entries, pushed, shown, page>>

LexerInitOk ==
  /\ source = "valid"
  /\ At("init", "tokenize")
  /\ ConstructOk("init", 0)
  /\ UNCHANGED entryOf /\ InEngineOnly

LexerInitNotFound ==
  /\ source = "unknown"
  /\ At("init", "init_failed")
  /\ ConstructErr("init", 1)
  /\ entryOf' = Append(entryOf, EntryWith(1, 2, << >>))
  /\ InEngineOnly

\* The annotation of this error is added behind no label: a debug build stops
\* there, and the vector's back() does not exist in any other.
LexerInitInvalid ==
  /\ source = "invalid"
  /\ At("init", "undefined")
  /\ UNCHANGED <<resultVars, entryOf>> /\ InEngineOnly

PushInitError ==
  /\ At("init_failed", "report")
  /\ UnwrapErr("init")
  /\ PushEach(slots["init"].value)
  /\ UNCHANGED <<texts, loaded, entryOf, built, shown>>

TokenizeOk ==
  /\ At("tokenize", "tokenized")
  /\ ConstructOk("tokens", 1)
  /\ NoError /\ InEngineOnly

TokenizeErr ==
  /\ At("tokenize", "tokens_failed")
  /\ \E n \in 1 .. MaxErrors :
       ConstructErr("tokens", n) /\ Errors(n, 2, [i \in 1 .. n |-> << >>])
  /\ InEngineOnly

TakeErrors ==
  /\ At("tokens_failed", "convert")
  /\ UnwrapErr("tokens")
  /\ built' = slots["tokens"].value
  /\ UNCHANGED <<texts, loaded, entryOf, entries, pushed, shown, page>>

\* convert_to_entry() drops the range: the entry has no label.
PushConverted ==
  /\ At("convert", IF Len(built) = 1 THEN "report" ELSE "convert")
  /\ PushOne
  /\ UNCHANGED <<resultVars, texts, loaded, entryOf, shown>>

TakeTokens ==
  /\ At("tokenized", "parse")
  /\ Unwrap("tokens")
  /\ UNCHANGED entryOf /\ InEngineOnly

ParseOk ==
  /\ At("parse", "parsed")
  /\ ConstructOk("parsed", 1)
  /\ NoError /\ InEngineOnly

ParseErr ==
  /\ At("parse", "parsed")
  /\ \E n \in 1 .. MaxErrors : \E labels \in [1 .. n -> ErrorLabels] :
       /\ ConstructErr("parsed", n)
       /\ Errors(n, 2, [i \in 1 .. n |-> <<labels[i]>>])
  /\ InEngineOnly

\* The source is unloaded before the errors that have labels in it are written.
UnloadSource ==
  /\ At("parsed", "unloaded")
  /\ UnloadFile(0)
  /\ UNCHANGED <<resultVars, entryOf, built, entries, pushed, shown, page>>

PushParseErrors ==
  /\ At("unloaded", "report") /\ ~ slots["parsed"].is_ok
  /\ UnwrapErr("parsed")
  /\ PushEach(slots["parsed"].value)
  /\ UNCHANGED <<texts, loaded, entryOf, built, shown>>

TakeContext ==
  /\ At("unloaded", "return") /\ slots["parsed"].is_ok
  /\ Unwrap("parsed")
  /\ UNCHANGED entryOf /\ InEngineOnly

PrintErrors ==
  /\ At("report", "return")
  /\ FormatBatchAndClear
  /\ UNCHANGED <<resultVars, entryOf, built, pushed>>

\* The Results of the driver end when it returns, the youngest first.
Return ==
  /\ At("return", "return")
  /\ \E s \in {"init", "tokens", "parsed"} :
       /\ \A t \in {"tokens", "parsed"} : Alive(t) => s # "init"
       /\ Alive("parsed") => s # "tokens"
       /\ EndResult(s)
  /\ UNCHANGED entryOf /\ InEngineOnly

Pipeline ==
  \/ LexerInitOk \/ LexerInitNotFound \/ LexerInitInvalid \/ PushInitError
  \/ TokenizeOk \/ TokenizeErr \/ TakeErrors \/ PushConverted \/ TakeTokens
  \/ ParseOk \/ ParseErr \/ UnloadSource \/ PushParseErrors \/ TakeContext
  \/ PrintErrors \/ Return

----------------------------------------------------------------------------

Next ==
  \/ Begins \/ AddsLabel \/ Annotates \/ Builds \/ Pushes \/ Clears \/ Formats
  \/ Unloads \/ Configures
  \/ Results
  \/ Pipeline

Spec == Init /\ [][Next]_vars

\* Entries are kept as EntriesPlaced says, and a compilation that has failed has
\* shown every error it was given by the time it returns.
EntriesKept ==
  /\ role # "result" => EntriesPlaced
  /\ (role = "pipeline" /\ phase = "return") =>
       /\ {n \in DOMAIN kinds : kinds[n] = "err"} = Range(shown)
       /\ InPushOrder(shown)
============================================================================
