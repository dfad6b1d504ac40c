----------------------------- MODULE Utf8Files -----------------------------
(***************************************************************************)
(* unicode::Utf8File and Utf8FileManager: source files that are registered *)
(* under an id, read from the disk when they are loaded and forgotten when *)
(* they are unloaded, with the ends of their lines.  Ids count from 0: file *)
(* id is files[id + 1].                                                    *)
(***************************************************************************)
EXTENDS Disk, Lines, TLC

VARIABLES
  files,              \* files_ of the manager
  virtual_file_count  \* the counter of register_virtual_file()

fileVars == <<files, virtual_file_count>>

NotLoadedFile(name) ==
  [name |-> name, status |-> "not_loaded", content |-> << >>,
   line_ends |-> << >>]

LoadedFileOf(name, content) ==
  [name |-> name, status |-> "loaded", content |-> content,
   line_ends |-> IndexNewlines(content)]

FileAt(id) == files[id + 1]
Loaded(id) == FileAt(id).status = "loaded"
LineCount(id) == Len(FileAt(id).line_ends)
LineAt(id, line_no) == LineOf(FileAt(id).content, FileAt(id).line_ends, line_no)

Has(id) == id < Len(files)

VirtualName(n) == <<"virtual_file_" \o ToString(n) \o ".ry">>

----------------------------------------------------------------------------

RegisterFile(name) ==
  /\ files' = Append(files, NotLoadedFile(name))
  /\ UNCHANGED virtual_file_count

RegisterFileLoaded(name, source) ==
  /\ files' = Append(files, LoadedFileOf(name, source))
  /\ UNCHANGED virtual_file_count

\* The name is one that is not a file of the disk, unless by accident.
RegisterVirtualFile(source) ==
  /\ files' = Append(files, LoadedFileOf(VirtualName(virtual_file_count), source))
  /\ virtual_file_count' = virtual_file_count + 1

LoadedFrom(file, content) == LoadedFileOf(file.name, content)

\* load(), with what read_file_utf8() gives back, which may be less than the
\* file.  An unreadable file is loaded, with no content.
LoadInto(id, fault, most) ==
  files' = [files EXCEPT ![id + 1] =
              LoadedFrom(@, ReadFile(@.name, fault, most))]

\* The faults a load may meet, and how much of the file it reads.
LoadFaults(id) ==
  {<<"none", 0>>} \cup
  (IF faults < MaxFaults /\ FileAt(id).name \in Nodes /\ IsFile(FileAt(id).name)
   THEN {<<"open", 0>>}
          \cup ({"read"} \X (0 .. Len(disk[FileAt(id).name].bytes) - 1))
   ELSE {})

Load(id) ==
  /\ FileAt(id).status = "not_loaded"
  /\ \E f \in LoadFaults(id) :
       /\ LoadInto(id, f[1], f[2])
       /\ Returns("load", FileAt(id).name, << >>, TRUE, f[1])
  /\ UNCHANGED virtual_file_count

\* loaded_file() loads a file that is not loaded, and leaves a loaded one as it
\* is, whatever the disk holds by now.
LoadedFile(id) ==
  IF Loaded(id)
  THEN UNCHANGED files /\ Returns("loaded_file", FileAt(id).name, << >>, TRUE, "none")
  ELSE \E f \in LoadFaults(id) :
         /\ LoadInto(id, f[1], f[2])
         /\ Returns("loaded_file", FileAt(id).name, << >>, TRUE, f[1])

Unload(id) ==
  /\ Loaded(id)
  /\ files' = [files EXCEPT ![id + 1] = NotLoadedFile(@.name)]
  /\ UNCHANGED virtual_file_count
============================================================================
