-------------------------- MODULE DiagnosticEngine --------------------------
(***************************************************************************)
(* diagnostic::DiagnosticEngine and EntryBuilder: entries are built label  *)
(* by label, pushed one by one or in a vector, and formatted, the newest   *)
(* of them or all, with the texts the file manager has at that moment.     *)
(*                                                                         *)
(* An entry is known by its number: it is what was created as number n of  *)
(* Result's count, in which payloads that are errors have theirs.          *)
(***************************************************************************)
EXTENDS DiagnosticFormat, Result

CONSTANTS
  Sources,       \* Sources[file], the text a file is registered with
  VirtualFiles   \* the files that are not on the disk

ASSUME EngineAssumption == VirtualFiles \subseteq DOMAIN Sources

VARIABLES
  texts,    \* the contents of the files that are loaded
  loaded,   \* the files that are
  entryOf,  \* the entry with each number
  builder,  \* an EntryBuilder, or none
  built,    \* a vector of entries outside of the engine
  entries,  \* entries_
  pushed,   \* the entries in the order they were pushed
  shown,    \* those that were formatted, in the order of the output
  cleared,  \* those that clear() dropped
  page      \* what the last call has returned

engineVars == <<texts, loaded, entryOf, builder, built, entries, pushed, shown,
                cleared, page>>

NoBuilder == [severity |-> 0, diag_id |-> 0, labels |-> << >>, active |-> FALSE]
NoPage == [kind |-> "none"]
NoEntry == [severity |-> 0, diag_id |-> 0, labels |-> << >>]

EntryWith(severity, diag_id, labels) ==
  [severity |-> severity, diag_id |-> diag_id, labels |-> labels]

EngineInit ==
  /\ texts = Sources /\ loaded = DOMAIN Sources
  /\ entryOf = << >> /\ builder = NoBuilder /\ built = << >>
  /\ entries = << >> /\ pushed = << >> /\ shown = << >> /\ cleared = {}
  /\ page = NoPage

----------------------------------------------------------------------------
(* Building. *)

NewBuilder(severity, diag_id) ==
  /\ ~ builder.active
  /\ builder' = [NoBuilder EXCEPT !.severity = severity, !.diag_id = diag_id,
                                  !.active = TRUE]

AddLabel(label) ==
  /\ builder.active
  /\ builder' = [builder EXCEPT !.labels = Append(@, label)]

\* An annotation belongs to the label before it, and there has to be one.
AddAnnotation(note) ==
  /\ builder.active /\ builder.labels # << >>
  /\ builder' = [builder EXCEPT !.labels[Len(builder.labels)].notes = Append(@, note)]

Build ==
  /\ builder.active
  /\ builder' = NoBuilder
  /\ built' = Append(built, Len(kinds) + 1)
  /\ entryOf' = Append(entryOf, EntryWith(builder.severity, builder.diag_id,
                                          builder.labels))
  /\ Creates("entry", 1)

----------------------------------------------------------------------------
(* The entries. *)

PushEach(numbers) ==
  /\ entries' = entries \o numbers
  /\ pushed' = pushed \o numbers
  /\ page' = NoPage

PushOne ==
  /\ built # << >>
  /\ PushEach(<<Head(built)>>)
  /\ built' = Tail(built)

PushAll ==
  /\ built # << >>
  /\ PushEach(built)
  /\ built' = << >>

Clear ==
  /\ entries # << >>
  /\ cleared' = cleared \cup Range(entries)
  /\ entries' = << >>
  /\ page' = NoPage

\* What loaded_file() has for the files of the labels.  A virtual file that was
\* unloaded is read from a path that does not exist.
FilesOf(numbers) ==
  UNION {{entryOf[n].labels[i].file : i \in DOMAIN entryOf[n].labels} : n \in numbers}

LoadedTexts(numbers) ==
  [f \in DOMAIN texts |->
     IF f \notin FilesOf(numbers) \ loaded THEN texts[f]
     ELSE IF f \in VirtualFiles THEN << >> ELSE Sources[f]]

\* The sheets of the entries, for an order of the labels of each.
Orders(numbers) ==
  {o \in [DOMAIN numbers -> UNION {Sorted(entryOf[n].labels) : n \in Range(numbers)}] :
     \A i \in DOMAIN numbers : o[i] \in Sorted(entryOf[numbers[i]].labels)}

Sheet(n, sorted, sources, tail) ==
  [entry |-> entryOf[n], width |-> LineNumberWidth(sorted),
   items |-> FormatOne(config, sources, entryOf[n], sorted, tail)]

Format(numbers, kind) ==
  LET sources == LoadedTexts(Range(numbers))
  IN  \E order \in Orders(numbers), tail \in BOOLEAN :
        /\ texts' = sources
        /\ loaded' = loaded \cup FilesOf(Range(numbers))
        /\ shown' = shown \o numbers
        /\ page' = [kind |-> kind, numbers |-> numbers, texts |-> sources,
                    config |-> config,
                    sheets |-> [i \in DOMAIN numbers |->
                                  Sheet(numbers[i], order[i], sources, tail)]]

PopAndFormat ==
  /\ entries # << >>
  /\ entries' = Front(entries)
  /\ Format(<<Last(entries)>>, "pop")

\* A wrong version: the entries stay where they are.
FormatBatchAndClear_KeepsEntries ==
  /\ Format(entries, "batch")
  /\ UNCHANGED entries

FormatBatchAndClear ==
  /\ Format(entries, "batch")
  /\ entries' = << >>

\* unload() of the file manager.
UnloadFile(f) ==
  /\ f \in loaded
  /\ texts' = [texts EXCEPT ![f] = << >>]
  /\ loaded' = loaded \ {f}

----------------------------------------------------------------------------
(* Properties. *)

LabelsOn(sheet, file, line) ==
  Cardinality({i \in DOMAIN sheet.entry.labels :
                 sheet.entry.labels[i].file = file /\ sheet.entry.labels[i].line = line})

Written(sheet, kind, file, line) ==
  Cardinality({i \in DOMAIN sheet.items :
                 /\ sheet.items[i].kind = kind
                 /\ sheet.items[i].file = file /\ sheet.items[i].line = line})

LineItems(sheet) ==
  SelectSeq(sheet.items, LAMBDA item : item.kind \in {"location", "source", "marked"})

\* The lines of a file come in order, each unlabelled one at most once and each
\* labelled one as often as it has labels; nothing is skipped within a group.
LinesInOrder(sheet) ==
  LET items == LineItems(sheet)
      Same(i) == items[i].file = items[i + 1].file
  IN  /\ \A i \in 1 .. Len(items) - 1 :
           \/ items[i].file < items[i + 1].file /\ items[i + 1].kind = "location"
           \/ Same(i) /\ items[i].line <= items[i + 1].line
                      /\ items[i + 1].kind # "location"
                      /\ items[i + 1].line <= items[i].line + 1
           \/ /\ Same(i) /\ items[i + 1].kind = "location"
              /\ items[i + 1].line > items[i].line + kMaxLineDistance
      /\ \A i \in DOMAIN items :
           items[i].kind = "source" =>
             /\ Written(sheet, "source", items[i].file, items[i].line) = 1
             /\ LabelsOn(sheet, items[i].file, items[i].line) = 0

Ascii(text) == \A i \in DOMAIN text : text[i] < 128

\* A label within a line of single bytes has a marker under its columns, and
\* every marker is under bytes of its line.
MarkerFound(sheet, label, text) ==
  \E i \in DOMAIN sheet.items :
    /\ sheet.items[i].kind = "marked"
    /\ sheet.items[i].file = label.file /\ sheet.items[i].line = label.line
    /\ sheet.items[i].start <= sheet.items[i].end
    /\ sheet.items[i].end <= Len(text)
    /\ (Ascii(text) /\ label.column \in 1 .. Len(text) /\ label.length > 0) =>
         sheet.items[i].start .. sheet.items[i].end - 1 =
           (label.column - 1 .. label.column + label.length - 2)
              \cap (0 .. Len(text) - 1)

\* The message is in no language asked for behind one that has a text for it.
InEarliest(c, key, text) ==
  LET chain == <<c.primary>> \o c.fallbacks
  IN  \A i \in DOMAIN chain :
        (HasTable(chain[i]) /\ Texts[chain[i]][key] # "") =>
          \E j \in 1 .. i : HasTable(chain[j]) /\ text = Texts[chain[j]][key]

MessageFound(c, sheet, label) ==
  label.key # "kDiagnosticUnknown" =>
    \E i \in DOMAIN sheet.items :
      /\ sheet.items[i].kind = "marked"
      /\ sheet.items[i].file = label.file /\ sheet.items[i].line = label.line
      /\ sheet.items[i].message.args = label.args
      /\ InEarliest(c, label.key, sheet.items[i].message.text)
      /\ c.skip_empty => sheet.items[i].message.text # ""

SheetRight(c, sources, sheet) ==
  /\ \A i \in DOMAIN sheet.entry.labels :
       LET label == sheet.entry.labels[i]
       IN  HasLine(sources, label.file, label.line) =>
             /\ Written(sheet, "marked", label.file, label.line)
                  = LabelsOn(sheet, label.file, label.line)
             /\ MarkerFound(sheet, label, LineText(sources, label.file, label.line))
             /\ MessageFound(c, sheet, label)
  /\ LinesInOrder(sheet)
  /\ \A i \in DOMAIN sheet.items :
       sheet.items[i].kind \in {"source", "marked"} =>
         sheet.items[i].line < 10 ^ sheet.width

\* For whatever labels an entry has been given, in whatever order and files:
\* each is written once, under the line it is of and with the text of its
\* message, the lines around it are written once and in order, none is left out
\* between labels that are near to each other, and the numbers of the lines fit
\* the column they are padded to.  Labels on lines the text has not are left to
\* the callers.
LabelsRendered ==
  page.kind # "none" =>
    \A i \in DOMAIN page.sheets : SheetRight(page.config, page.texts, page.sheets[i])

Position(n) == CHOOSE i \in DOMAIN pushed : pushed[i] = n

InPushOrder(numbers) ==
  \A i, j \in DOMAIN numbers : i < j => Position(numbers[i]) < Position(numbers[j])

Built == {n \in DOMAIN kinds : kinds[n] = "entry" \/ (kinds[n] = "err" /\ n \in taken)}

\* However entries are built, pushed, popped, formatted and cleared: each is
\* outside of the engine, in it, shown or cleared, and nowhere twice; a batch
\* shows them in the order they were pushed, and pop the newest there is.
EntriesPlaced ==
  /\ \A s \in {built, entries, shown} : IsInjective(s)
  /\ Range(built) \cup Range(entries) \cup Range(shown) \cup cleared = Built
  /\ Len(built) + Len(entries) + Len(shown) + Cardinality(cleared)
       = Cardinality(Built)
  /\ InPushOrder(entries)
  /\ page.kind = "batch" => InPushOrder(page.numbers) /\ entries = << >>
  /\ page.kind = "pop" =>
       \A n \in Range(entries) : Position(n) < Position(page.numbers[1])
============================================================================
