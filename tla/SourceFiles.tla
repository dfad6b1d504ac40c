---------------------------- MODULE SourceFiles ----------------------------
(***************************************************************************)
(* The files of the disk, the files registered with the manager and the    *)
(* stream over one of them, under a program that calls their operations.   *)
(*                                                                         *)
(* What the program is busy with is its role, chosen at the start: it      *)
(* reads one source to its end, it edits sources that are registered and   *)
(* read meanwhile, it keeps files and directories, it uses temporary ones, *)
(* which have names of their own, or it takes a path or another text       *)
(* apart.  A role only limits which calls are interleaved.                 *)
(***************************************************************************)
EXTENDS Utf8Stream, Strings

CONSTANTS
  Source,         \* the file that is edited and read
  Backup,         \* where it is renamed or compressed to
  Samples,        \* the contents of the source a reader meets
  Texts,          \* the contents an editor writes
  CodePoints,     \* what consume() is asked for
  Sequences,      \* what consume_sequence() is asked for
  DirectoryPaths, \* the paths create_directories() is given
  TextPaths,      \* the paths and texts that are taken apart
  Delimiters,     \* what split_string() splits them at
  NestSizes,      \* the nesting remove_bracket() remembers
  MaxCalls,       \* bound on the calls, for each role that is not at an end
  MaxFiles,       \* bound on the files registered
  MaxTemps        \* bound on the temporary objects alive

ASSUME SourceFilesAssumption ==
  /\ {Source, Backup} \subseteq Nodes \ TempNodes /\ Len(Source) = 1
  /\ \A node \in Nodes \ TempNodes, temp \in TempNodes : ~ IsPrefix(node, temp)
  /\ Samples \cup Texts \subseteq Seq(0 .. 255)
  /\ \A path \in DirectoryPaths : path \in Seq(STRING) /\ Resolve(path) \in Nodes
  /\ Sequences \subseteq Seq(Nat) /\ NestSizes \subseteq Nat
  /\ MaxCalls \in [{"editor", "keeper", "temporary"} -> Nat]
  /\ MaxFiles \in Nat /\ MaxTemps \in Nat

VARIABLES
  role,    \* what the program is busy with
  path,    \* the path or text that is taken apart
  calls    \* how many calls it has made

vars == <<diskVars, fileVars, streamVars, role, path, calls>>

Empty(content) ==
  [node \in Nodes |-> IF node = Source THEN FileOf(content) ELSE Absent]

Init ==
  /\ role \in {"reader", "editor", "keeper", "temporary", "splitter"}
  /\ disk \in {Empty(content) :
                 content \in IF role = "reader" THEN Samples ELSE Texts}
  /\ path \in IF role = "splitter" THEN TextPaths ELSE {<< >>}
  /\ temps = << >> /\ last = NoCall /\ faults = 0
  /\ files = << >> /\ virtual_file_count = 0
  /\ stream = NewStream /\ seen = << >>
  /\ calls = 0

----------------------------------------------------------------------------

OnDisk(A) == A /\ UNCHANGED <<fileVars, streamVars>>

OnFiles(A) == A /\ last' = NoCall /\ UNCHANGED <<disk, temps, faults, streamVars>>

OnStream(A) ==
  A /\ last' = NoCall /\ UNCHANGED <<disk, temps, faults, fileVars, seen>>

OpenStream(id) ==
  /\ StreamInit(id)
  /\ UNCHANGED <<disk, temps, virtual_file_count>>

\* A reader registers the source, loads it or has the stream load it, and reads
\* to its end.
Read ==
  /\ role = "reader"
  /\ \/ files = << >> /\ OnFiles(RegisterFile(Source))
     \/ Has(0) /\ Load(0) /\ UNCHANGED <<disk, temps, streamVars>>
     \/ Has(0) /\ stream.status = "not_initialized" /\ OpenStream(0)
     \/ ~ Eof(stream) /\ OnStream(StreamNext)
  /\ UNCHANGED calls

EditDisk ==
  \/ \E text \in Texts : OnDisk(WriteFile(Source, text))
  \/ OnDisk(RemoveFile(Source))

EditFiles ==
  \/ /\ Len(files) < MaxFiles
     /\ \/ OnFiles(RegisterFile(Source))
        \/ \E text \in Texts : \/ OnFiles(RegisterFileLoaded(Source, text))
                               \/ OnFiles(RegisterVirtualFile(text))
  \/ \E id \in 0 .. Len(files) - 1 :
       \/ Load(id) /\ UNCHANGED <<disk, temps, streamVars>>
       \/ OnFiles(Unload(id))

EditStream ==
  \/ \E id \in 0 .. MaxFiles :
       \/ OpenStream(id)
       \/ /\ StreamInitNoFile(id)
          /\ last' = NoCall
          /\ UNCHANGED <<disk, temps, faults, virtual_file_count>>
  \/ OnStream(StreamNext)
  \/ \E codepoint \in CodePoints : OnStream(StreamConsume(codepoint))
  \/ \E sequence \in Sequences : OnStream(StreamConsumeSequence(sequence))
  \/ OnStream(StreamReset)

Edit ==
  /\ role = "editor"
  /\ calls < MaxCalls[role]
  /\ EditDisk \/ EditFiles \/ EditStream
  /\ calls' = calls + 1

KeepFiles ==
  \E node \in Nodes \ TempNodes :
    \/ OnDisk(CreateFile(node))
    \/ OnDisk(RemoveFile(node))
    \/ OnDisk(RemoveDirectory(node))
    \/ OnDisk(CreateDirectory(node))
    \/ \E new \in Nodes \ TempNodes : OnDisk(RenameFile(node, new))
    \/ \E text \in Texts : OnDisk(WriteBinaryToFile(node, text))

KeepDirectories ==
  \/ \E dir \in DirectoryPaths : OnDisk(CreateDirectories(dir))
  \/ \E remove_after_compress \in BOOLEAN :
       OnDisk(Compress(Source, Backup, remove_after_compress))

KeepTemps ==
  \/ /\ Len(temps) < MaxTemps
     /\ \/ \E text \in Texts : OnDisk(ConstructTempFile(text))
        \/ OnDisk(ConstructTempDir)
  \/ \E i \in DOMAIN temps : \/ OnDisk(DestroyTempFile(i))
                             \/ OnDisk(DestroyTempDir(i))

Keep ==
  /\ \/ role = "keeper" /\ (KeepFiles \/ KeepDirectories)
     \/ role = "temporary" /\ KeepTemps
  /\ calls < MaxCalls[role]
  /\ calls' = calls + 1

Next == (Read \/ Edit \/ Keep) /\ UNCHANGED <<role, path>>

Spec == Init /\ [][Next]_vars

----------------------------------------------------------------------------
(* Properties. *)

\* Every node lies in a directory that is there, a file that is not loaded
\* keeps nothing, and the stream stays within what it decoded.
TypeOK ==
  /\ \A node \in Nodes : Exists(node) => InDirectory(disk, node)
  /\ \A i \in DOMAIN files :
       files[i].status = "not_loaded" =>
         files[i].content = << >> /\ files[i].line_ends = << >>
  /\ stream.status \in {"not_initialized", "initialized", "valid", "invalid"}
  /\ stream.position \in 0 .. Len(stream.codepoints)
  /\ faults \in 0 .. MaxFaults

\* compress() loses no data through a call whose failure it looks at: when it
\* returns false the source is what it was, and when it returns true the whole
\* of it is in the archive.  A failing read of the source or a failing
\* gzclose() goes unseen, and only then may the source be gone and the archive
\* incomplete.
CompressKeepsData ==
  [][LET src == last'.node  dest == last'.dest
     IN  last'.op = "compress" /\ last'.fault \notin {"read", "close"} =>
           IF last'.ok THEN disk'[dest] = GzipOf(disk[src].bytes)
           ELSE disk'[src] = disk[src]]_vars

\* A temporary file belongs to one object: as long as a valid TempFile lives
\* its file is there with the content it was given, whatever other temporary
\* objects of the same random name came and went, and no more files are left
\* behind by destroyed objects than calls have failed.
TempFilesAccounted ==
  LET made == {i \in DOMAIN temps : temps[i].kind = "file"}
  IN  /\ \A i \in made :
           temps[i].valid => disk[temps[i].node] = FileOf(temps[i].content)
      /\ Cardinality({node \in TempNodes : IsFile(node)})
           <= Cardinality({i \in made : temps[i].valid}) + faults

\* When create_directories() reports no failure every directory of the path is
\* there, though a failure does not end its loop and a prefix that is a file
\* counts as made; only the path itself may turn out to be a file.
DirectoriesCreated ==
  [][last'.op = "create_directories" /\ last'.ok =>
       \A node \in Nodes :
         IsPrefix(node, last'.node) =>
           disk'[node].kind = "dir" \/ (node = last'.node /\ IsFile(node))]_vars

\* A path without doubled or outer separators is made again of its directory
\* and its base name, and a file's name of the name without extension and the
\* extension; the one name that loses its dot is one that ends with it.
PathsRecompose ==
  LET doubled == \E i \in 2 .. Len(path) :
                   path[i] = Separator /\ path[i - 1] = Separator
      parent == ParentDir(path)
      name == FileNamePart(path)
      stem == FileNameWithoutExtension(path)
      extension == FileExtension(path)
  IN  /\ parent # << >> /\ BaseName(path) # << >> /\ ~ doubled
           /\ Head(path) # Separator =>
             JoinPath(<<parent, BaseName(path)>>) = path
      /\ IF extension # << >> THEN stem \o <<Dot>> \o extension = name
         ELSE name \in {stem, Append(stem, Dot)}

\* The two ways the code cuts a text into lines agree: the lines a loaded file
\* hands out by number are those that read_lines() makes of its content.  Only
\* an empty file differs, of which line() has one line and read_lines() none.
LinesAgree ==
  \A id \in 0 .. Len(files) - 1 :
    Loaded(id) /\ FileAt(id).content # << >> =>
      [n \in 1 .. LineCount(id) |-> LineAt(id, n)] = ReadLines(FileAt(id).content)

\* An escaped text has no line ends and is read back as it was, whatever
\* backslashes it had, and the tokens of a split text, in which the delimiter
\* is nowhere left, make it again: only one delimiter at its end is lost.
EscapesAndTokensRecompose ==
  /\ DecodeEscape(EncodeEscape(path)) = path
  /\ ToSet(EncodeEscape(path)) \cap {"LF", "CR", "TAB"} = {}
  /\ \A delimiter \in Delimiters :
       LET tokens == SplitString(path, delimiter)
           joined == FoldLeft(LAMBDA text, i : text \o tokens[i] \o
                                IF i < Len(tokens) THEN delimiter ELSE << >>,
                              << >>, [i \in DOMAIN tokens |-> i])
       IN  /\ path \in {joined, joined \o delimiter}
           /\ delimiter # << >> =>
                \A i \in DOMAIN tokens : Found(tokens[i], delimiter) = {}

\* Between which positions is every bracket of the text paired?
WellBracketed(text) ==
  LET paired[i \in 1 .. Len(text) + 1, j \in 0 .. Len(text)] ==
        \/ i > j
        \/ ~ IsBracket(text[i]) /\ paired[i + 1, j]
        \/ /\ text[i] \in DOMAIN Closing
           /\ \E k \in i + 1 .. j : /\ text[k] = Closing[text[i]]
                                   /\ paired[i + 1, k - 1]
                                   /\ paired[k + 1, j]
  IN  paired

\* Of a text whose brackets are paired remove_bracket() leaves the characters
\* that no pair encloses, however little nesting it may remember, and its stack
\* has room enough.
BracketsRemoved ==
  LET paired == WellBracketed(path)
      Encloses(i) == \E j \in 1 .. i - 1, k \in i + 1 .. Len(path) :
                       /\ path[j] \in DOMAIN Closing
                       /\ path[k] = Closing[path[j]]
                       /\ paired[j + 1, k - 1]
      outside == {i \in DOMAIN path : ~ IsBracket(path[i]) /\ ~ Encloses(i)}
      kept == SelectSeq([i \in DOMAIN path |-> i], LAMBDA i : i \in outside)
  IN  paired[1, Len(path)] =>
        \A max_nest_size \in NestSizes :
          LET removed == RemoveBracket(path, max_nest_size)
          IN  /\ removed.defined
              /\ removed.output = [i \in DOMAIN kept |-> path[kept[i]]]

\* utf8_truncate() and the decoder agree where the characters of a file end.
TruncateAgrees ==
  stream.status = "valid" /\ seen # << >> /\ IsUtf8(seen) =>
    \A n \in 0 .. Len(stream.codepoints) :
      EncodeAll(SubSeq(stream.codepoints, 1, n)) = Utf8Truncate(seen, n)

\* Whatever is taken apart, path or text, is what its parts make.
TextsRecompose ==
  /\ role = "splitter" =>
       PathsRecompose /\ EscapesAndTokensRecompose /\ BracketsRemoved
  /\ LinesAgree

\* What decoding lets through although it is not UTF-8: a malformed first byte,
\* whose position 0 stands for success, any byte in the place of a
\* continuation byte, and whatever the skipped blocks hold.
LetThrough(content) ==
  \/ Decode(content).cp = kInvalidUnicodePoint
  \/ \E i, k \in DOMAIN content :
       /\ k \in i + 1 .. i + Utf8SequenceLength(content[i]) - 1
       /\ ~ IsContinuation(content[k])
  \/ FirstScalar(content) > 0

\* What it turns away although it is UTF-8: a replacement character, which
\* stands for a failure, and a code point cut by the end of the skipped blocks.
TurnedAway(content) ==
  \/ \E i \in 1 .. Len(content) - 2 :
       SubSeq(content, i, i + 2) = Encode(kInvalidUnicodePoint)
  \/ /\ FirstScalar(content) < Len(content)
     /\ IsContinuation(content[FirstScalar(content) + 1])

\* init() accepts UTF-8 and nothing else, up to these exceptions, and the code
\* points of a UTF-8 file are the ones it encodes, cut where utf8_truncate()
\* cuts.
DecodesUtf8 ==
  /\ stream.status = "valid" /\ seen # << >> =>
       IF IsUtf8(seen) THEN EncodeAll(stream.codepoints) = seen
       ELSE LetThrough(seen)
  /\ stream.status = "invalid" => ~ IsUtf8(seen) \/ TurnedAway(seen)
  /\ TruncateAgrees

LinesBefore(s) == Cardinality({i \in 1 .. s.position : s.codepoints[i] = LF})

\* The stream and the file count lines apart, the one in code points and the
\* other in bytes, and a diagnostic asks the file for the stream's line.  As
\* long as the file has the content the stream decoded, the line is one it
\* has, but for the end of a file that ends with a line feed; reset() makes
\* the count one less.
StreamLineInFile ==
  LET id == stream.file
  IN  stream.status = "valid" /\ seen # << >> =>
        /\ stream.line \in {LinesBefore(stream), LinesBefore(stream) + 1}
        /\ Loaded(id) /\ FileAt(id).content = seen =>
             \/ stream.line <= LineCount(id)
             \/ Eof(stream) /\ Last(stream.codepoints) = LF
============================================================================
