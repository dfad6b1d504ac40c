-------------------------------- MODULE Disk --------------------------------
(***************************************************************************)
(* The file operations of core/base/file_util over a POSIX file system,    *)
(* and the TempFile and TempDir objects that create and remove files.      *)
(*                                                                         *)
(* A node of the file system is a sequence of names; a path that is passed *)
(* to a function is text, of which Resolve is the node.  A system call may *)
(* fail: a fault is the call that fails, none of an operation's calls      *)
(* fails when its fault is "none", and MaxFaults bounds the faults of a    *)
(* behaviour.  What the system calls do is external to the repository and  *)
(* is modelled in the first part.                                          *)
(***************************************************************************)
EXTENDS Paths, FiniteSets

CONSTANTS
  Nodes,        \* the nodes there may be, each after its parent directory
  TempNodes,    \* the paths temp_path() may return
  MaxFaults,    \* bound on the system calls that fail
  kBufSize      \* the bytes compress() reads at a time

ASSUME DiskAssumption ==
  /\ \A node \in Nodes : node \in Seq(STRING) /\ node # << >>
  /\ \A node \in Nodes : Len(node) > 1 => Front(node) \in Nodes
  /\ TempNodes \subseteq Nodes /\ IsFiniteSet(TempNodes)
  /\ MaxFaults \in Nat
  /\ kBufSize \in Nat \ {0}

VARIABLES
  disk,         \* what each node is
  temps,        \* the TempFile and TempDir objects that are alive
  last,         \* the last call, what it returned and the fault it met
  faults        \* how many calls have failed

diskVars == <<disk, temps, last, faults>>

----------------------------------------------------------------------------
(* What the operating system does. *)

Absent == [kind |-> "absent", bytes |-> << >>]
Directory == [kind |-> "dir", bytes |-> << >>]
FileOf(bytes) == [kind |-> "file", bytes |-> bytes]
GzipOf(bytes) == [kind |-> "gzip", bytes |-> bytes]

IsFile(node) == disk[node].kind \in {"file", "gzip"}
IsDirectory(node) == disk[node].kind = "dir"
Exists(node) == disk[node].kind # "absent"

Resolve(path) ==
  LET node[i \in 0 .. Len(path)] ==
        IF i = 0 THEN << >>
        ELSE IF path[i] = Separator THEN node[i - 1] ELSE Append(node[i - 1], path[i])
  IN  node[Len(path)]

InDirectory(d, node) == Len(node) = 1 \/ d[Front(node)].kind = "dir"

Inside(dir) == {node \in Nodes : IsStrictPrefix(dir, node)}

\* open(O_CREAT): the file is there afterwards, unless a directory is.
MayOpenForWriting(node) == InDirectory(disk, node) /\ ~ IsDirectory(node)

MayMkdir(d, node) == InDirectory(d, node) /\ d[node].kind = "absent"

\* readdir(), and rmdir(), which removes an empty directory only.
ListFiles(dir) ==
  {Last(node) : node \in {n \in Inside(dir) : Len(n) = Len(dir) + 1 /\ Exists(n)}}

MayRmdir(node) == IsDirectory(node) /\ ListFiles(node) = {}

MayRename(old, new) ==
  /\ Exists(old)
  /\ InDirectory(disk, new)
  /\ ~ IsStrictPrefix(old, new)
  /\ IF IsFile(old) THEN ~ IsDirectory(new)
     ELSE new = old \/ ~ Exists(new) \/ MayRmdir(new)

\* A directory is renamed with all it holds, all of it within Nodes.
MovedNode(old, new, node) == new \o From(node, Len(old) + 1)

Renamed(old, new) ==
  [node \in Nodes |->
     IF \E n \in {old} \cup Inside(old) : node = MovedNode(old, new, n)
     THEN disk[CHOOSE n \in {old} \cup Inside(old) :
                 node = MovedNode(old, new, n)]
     ELSE IF node = old \/ node \in Inside(old) THEN Absent
     ELSE disk[node]]

----------------------------------------------------------------------------
(* Calls and faults. *)

NoCall == [op |-> "none", node |-> << >>, dest |-> << >>,
           ok |-> TRUE, fault |-> "none"]

\* The calls a step may find failing.
Faults(calls) == IF faults < MaxFaults THEN calls \cup {"none"} ELSE {"none"}

Returns(op, node, dest, ok, fault) ==
  /\ last' = [op |-> op, node |-> node, dest |-> dest, ok |-> ok,
              fault |-> fault]
  /\ faults' = faults + (IF fault = "none" THEN 0 ELSE 1)

\* read_file(), which gives back less of the file when a call fails: nothing
\* when it cannot be opened, what was read when a read fails.
ReadFile(node, fault, most) ==
  IF fault = "open" \/ node \notin Nodes \/ ~ IsFile(node) THEN << >>
  ELSE IF fault = "read" THEN SubSeq(disk[node].bytes, 1, most)
  ELSE disk[node].bytes

----------------------------------------------------------------------------
(* The operations. *)

\* Exclusive: the file must not be there.
CreateFile(node) ==
  \E fault \in Faults({"open"}) :
    LET ok == fault = "none" /\ InDirectory(disk, node) /\ ~ Exists(node)
    IN  /\ disk' = IF ok THEN [disk EXCEPT ![node] = FileOf(<< >>)] ELSE disk
        /\ Returns("create_file", node, << >>, ok, fault)
        /\ UNCHANGED temps

\* std::remove() removes a file or an empty directory.
RemoveFile(node) ==
  LET ok == IsFile(node) \/ MayRmdir(node)
  IN  /\ disk' = IF ok THEN [disk EXCEPT ![node] = Absent] ELSE disk
      /\ Returns("remove_file", node, << >>, ok, "none")
      /\ UNCHANGED temps

RemoveDirectory(node) ==
  LET ok == MayRmdir(node)
  IN  /\ disk' = IF ok THEN [disk EXCEPT ![node] = Absent] ELSE disk
      /\ Returns("remove_directory", node, << >>, ok, "none")
      /\ UNCHANGED temps

RenameFile(old, new) ==
  LET ok == MayRename(old, new)
  IN  /\ ok => \A n \in {old} \cup Inside(old) :
                 Exists(n) => MovedNode(old, new, n) \in Nodes
      /\ disk' = IF ok /\ old # new THEN Renamed(old, new) ELSE disk
      /\ Returns("rename_file", old, new, ok, "none")
      /\ UNCHANGED temps

\* The file is emptied before the first byte is written: a write that fails
\* leaves a prefix of the content, and never what was there before.
Written(node, content, fault, most) ==
  IF fault = "open" \/ ~ MayOpenForWriting(node) THEN disk
  ELSE [disk EXCEPT ![node] =
          FileOf(IF fault \in {"write", "flush"} THEN SubSeq(content, 1, most)
                 ELSE content)]

WriteFile(node, content) ==
  \E fault \in Faults({"open"} \cup (IF content = << >> THEN {} ELSE {"write"})),
     most \in 0 .. Len(content) :
    /\ fault # "write" => most = 0
    /\ fault = "write" => most < Len(content)
    /\ disk' = Written(node, content, fault, most)
    /\ Returns("write_file", node, << >>,
               fault = "none" /\ MayOpenForWriting(node), fault)
    /\ UNCHANGED temps

\* Nothing to write is an error, found before the file is opened.  fwrite() may
\* do no more than fill a buffer: what fflush() and fclose() return when it
\* cannot be written ("flush") is not looked at.
WriteBinaryToFile(node, data) ==
  IF data = << >>
  THEN /\ Returns("write_binary_to_file", node, << >>, FALSE, "none")
       /\ UNCHANGED <<disk, temps>>
  ELSE \E fault \in Faults({"open", "write", "flush"}),
          most \in 0 .. Len(data) - 1 :
         /\ fault \notin {"write", "flush"} => most = 0
         /\ disk' = Written(node, data, fault, most)
         /\ Returns("write_binary_to_file", node, << >>,
                    fault \in {"none", "flush"} /\ MayOpenForWriting(node),
                    fault)
         /\ UNCHANGED temps

----------------------------------------------------------------------------

\* A wrong version: a parent that is missing counts as made as well.
MkdirReturnsZero_NoParent(d, node, failing) ==
  \/ d[node].kind # "absent"
  \/ ~ InDirectory(d, node)
  \/ ~ failing

\* create_directory(): that something is there already is a success, a directory or not.
MkdirReturnsZero(d, node, failing) ==
  d[node].kind # "absent" \/ (MayMkdir(d, node) /\ ~ failing)

Mkdir(d, node, failing) ==
  IF MayMkdir(d, node) /\ ~ failing THEN [d EXCEPT ![node] = Directory] ELSE d

CreateDirectory(node) ==
  \E fault \in Faults({"mkdir"}) :
    /\ disk' = Mkdir(disk, node, fault = "mkdir")
    /\ Returns("create_directory", node, << >>,
               MkdirReturnsZero(disk, node, fault = "mkdir"), fault)
    /\ UNCHANGED temps

\* A prefix that is no directory yet is made, and a failure is counted.
MakePrefix(s, node, failing) ==
  IF s.disk[node].kind = "dir" THEN s
  ELSE [disk |-> Mkdir(s.disk, node, failing),
        result |-> s.result + (IF MkdirReturnsZero(s.disk, node, failing)
                               THEN 0 ELSE 1)]

\* By i, what the loop has done when it has taken the prefixes that end at i or
\* before it, one after the other: a failure does not end it.
PrefixesMade(whole, failing) ==
  LET made[i \in 1 .. Len(whole) + 1] ==
        IF i = 1 THEN [disk |-> disk, result |-> 0]
        ELSE IF i \in PrefixEnds(whole)
             THEN MakePrefix(made[i - 1], Resolve(SubSeq(whole, 1, i - 1)), i = failing)
        ELSE made[i - 1]
  IN  made

CreateDirectories(path) ==
  LET whole == SanitizeComponent(path, TRUE)
  IN  \E fault \in Faults({"mkdir"}), failing \in {0} \cup PrefixEnds(whole) :
        LET made == PrefixesMade(whole, failing)[Len(whole) + 1]
        IN  /\ fault = "none" <=> failing = 0
            /\ disk' = made.disk
            /\ Returns("create_directories", Resolve(path), << >>,
                       made.result = 0, fault)
            /\ UNCHANGED temps

----------------------------------------------------------------------------

\* A wrong version: a write that fails ends the loop as the file's end does.
CompressReturns_Always(opened, fault) == opened

\* A read that fails ends the loop as the file's end does, and what gzclose()
\* returns is not looked at.
CompressReturns(opened, fault) == opened /\ fault # "write"

\* The source is copied kBufSize bytes at a time into a compressed file, and
\* removed when the copying did not fail.  A write that fails leaves the blocks
\* before it in the destination; a read that fails may hand over a part of a
\* block first, and a gzclose() that fails may lose any part.  Plain files only
\* are compressed here.
Compress(src, dest, remove_after_compress) ==
  LET bytes == disk[src].bytes
  IN  /\ disk[src].kind = "file"
      /\ ~ IsFile(dest)
      /\ \E fault \in Faults({"open", "gzopen", "read", "close"}
                               \cup (IF bytes = << >> THEN {} ELSE {"write"})),
            most \in 0 .. Len(bytes) :
           LET opened == fault \notin {"open", "gzopen"} /\ MayOpenForWriting(dest)
               ok == CompressReturns(opened, fault)
               copied == SubSeq(bytes, 1, most)
               written == IF opened THEN [disk EXCEPT ![dest] = GzipOf(copied)]
                          ELSE disk
           IN  /\ fault \notin {"read", "write", "close"} => most = Len(bytes)
               /\ fault = "write" => most < Len(bytes) /\ most % kBufSize = 0
               /\ disk' = IF ok /\ remove_after_compress
                          THEN [written EXCEPT ![src] = Absent] ELSE written
               /\ Returns("compress", src, dest, ok, fault)
               /\ UNCHANGED temps

----------------------------------------------------------------------------
(* Temporary files and directories. *)

\* The names are random: nothing keeps two of them from being the same.
TempPath == TempNodes

\* A wrong version: the file is opened as write_file() opens it.
TempIsCreated_Opened(node, fault) ==
  fault # "create" /\ InDirectory(disk, node) /\ ~ IsDirectory(node)

TempIsCreated(node, fault) ==
  fault # "create" /\ InDirectory(disk, node) /\ ~ Exists(node)

\* content is kept with the object for the properties only.
ConstructTempFile(content) ==
  \E node \in TempPath, most \in 0 .. Len(content),
     fault \in Faults({"create"} \cup (IF content = << >> THEN {}
                                       ELSE {"open", "write"})) :
    LET created == TempIsCreated(node, fault)
        left == CASE fault = "open" -> << >>
                  [] fault = "write" -> SubSeq(content, 1, most)
                  [] OTHER -> content
        valid == created /\ fault \notin {"open", "write"}
    IN  /\ fault # "write" => most = 0
        /\ fault = "write" => most < Len(content)
        /\ disk' = IF created THEN [disk EXCEPT ![node] = FileOf(left)] ELSE disk
        /\ temps' = Append(temps, [kind |-> "file", node |-> node,
                                   valid |-> valid, content |-> content])
        /\ Returns("TempFile", node, << >>, valid, fault)

\* An existing directory, or file, of that name is taken for a new one.
ConstructTempDir ==
  \E node \in TempPath, fault \in Faults({"mkdir"}) :
    LET valid == MkdirReturnsZero(disk, node, fault = "mkdir")
    IN  /\ disk' = Mkdir(disk, node, fault = "mkdir")
        /\ temps' = Append(temps, [kind |-> "dir", node |-> node,
                                   valid |-> valid, content |-> << >>])
        /\ Returns("TempDir", node, << >>, valid, fault)

\* Only a valid object removes its file: one whose content could not be
\* written leaves the file that was created for it.
DestroyTempFile(i) ==
  /\ temps[i].kind = "file"
  /\ disk' = IF temps[i].valid /\ (IsFile(temps[i].node) \/ MayRmdir(temps[i].node))
             THEN [disk EXCEPT ![temps[i].node] = Absent] ELSE disk
  /\ temps' = RemoveAt(temps, i)
  /\ Returns("~TempFile", temps[i].node, << >>, TRUE, "none")

DestroyTempDir(i) ==
  /\ temps[i].kind = "dir"
  /\ disk' = IF temps[i].valid /\ MayRmdir(temps[i].node)
             THEN [disk EXCEPT ![temps[i].node] = Absent] ELSE disk
  /\ temps' = RemoveAt(temps, i)
  /\ Returns("~TempDir", temps[i].node, << >>, TRUE, "none")
============================================================================
