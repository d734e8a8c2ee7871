----------------------------- MODULE PosixFiles -----------------------------
(***************************************************************************)
(* What the two local backends share: directory entries that point to      *)
(* files, files written and read a chunk at a time through descriptors,    *)
(* renames that fail between devices, the system calls that both make to   *)
(* move a file, and downloads, which read while the calls go on.           *)
(***************************************************************************)
EXTENDS Naturals, Sequences

CONSTANTS
    Ops,             \* the calls that write, move and delete
    Readers,         \* downloads
    Paths,           \* the paths of files, told apart as full(p) does
    Device(_),       \* the device a path is mounted on
    Values,          \* the contents that are written
    WritePaths,      \* the paths that are written
    DeletePaths,     \* the paths that are deleted
    MovePairs,       \* the <<source, destination>> that are moved
    InitialFiles,    \* a function from some paths to their contents
    Chunks,          \* the number of chunks a content takes
    Faults,          \* which of the kinds named below happen
    Hole,            \* what a write past the end of a file leaves before it
    None             \* no value

ASSUME ChunksAssumption == Chunks \in Nat \ {0}

ASSUME PathAssumption ==
    /\ WritePaths \cup DeletePaths \cup DOMAIN InitialFiles \subseteq Paths
    /\ MovePairs \subseteq Paths \X Paths

(* Files are told apart by the call or the path they come from.            *)
ASSUME FilesAssumption ==
    /\ Ops \cap DOMAIN InitialFiles = {}
    /\ None \notin Ops \cup DOMAIN InitialFiles
    /\ InitialFiles = [p \in DOMAIN InitialFiles |-> InitialFiles[p]]

ASSUME FaultAssumption == Faults \subseteq {"error", "crash", "rename", "power"}

VARIABLES
    names,   \* the directory entries: a function from names to files
    data,    \* the files: a function from files to their chunks
    req,     \* the arguments of each call
    pc,      \* the system call each call makes next, or its result
    fd,      \* the descriptors [in, out] each call holds
    off,     \* how many chunks a call has copied
    reader   \* each download: its state, its file and the chunks it got

callVars == <<req, pc, fd, off>>
vars == <<names, data, callVars, reader>>

(* Names: a path, or the name that os.CreateTemp finds free for a call in  *)
(* the directory of its target.                                            *)
Final(p) == <<p>>

Target(o) == IF req[o].op = "move" THEN req[o].dst ELSE req[o].path

Tmp(o) == <<Target(o), o>>

(* A file is identified by the call that created it or by its first path.  *)
Files == Ops \cup DOMAIN InitialFiles

Link(n, name, file) ==
    [x \in DOMAIN n \cup {name} |-> IF x = name THEN file ELSE n[x]]

Unlink(n, name) == [x \in DOMAIN n \ {name} |-> n[x]]

Renamed(n, from, to) ==
    IF from = to THEN n ELSE Unlink(Link(n, to, n[from]), from)

(* pwrite: the file grows to hold chunk i, with holes if it was shorter.   *)
WriteAt(s, i, c) ==
    [j \in 1 .. IF i > Len(s) THEN i ELSE Len(s) |->
        IF j = i THEN c ELSE IF j <= Len(s) THEN s[j] ELSE Hole]

Content(v) == [j \in 1 .. Chunks |-> v]

Calls ==
    [op : {"write"}, path : WritePaths, value : Values]
      \cup [op : {"delete"}, path : DeletePaths]
      \cup {[op |-> "move", src |-> m[1], dst |-> m[2]] : m \in MovePairs}

Init ==
    /\ names = [x \in {Final(p) : p \in DOMAIN InitialFiles} |-> x[1]]
    /\ data = [f \in Files |-> IF f \in Ops THEN <<>> ELSE Content(InitialFiles[f])]
    /\ req = [o \in Ops |-> None]
    /\ pc = [o \in Ops |-> "idle"]
    /\ fd = [o \in Ops |-> [in |-> None, out |-> None]]
    /\ off = [o \in Ops |-> 0]
    /\ reader = [r \in Readers |-> [state |-> "idle", file |-> None, got |-> <<>>]]

Goto(o, label) == pc' = [pc EXCEPT ![o] = label]

Done == {"idle", "ok", "error", "crashed"}

FirstCall(c) ==
    CASE c.op = "write"  -> "createTemp"
      [] c.op = "move"   -> "rename"
      [] c.op = "delete" -> "removeAll"

Begin(o) ==
    /\ pc[o] = "idle"
    /\ \E c \in Calls :
          /\ req' = [req EXCEPT ![o] = c]
          /\ Goto(o, FirstCall(c))
    /\ UNCHANGED <<names, data, fd, off, reader>>

Crash(o) ==
    /\ "crash" \in Faults
    /\ pc[o] \notin Done
    /\ Goto(o, "crashed")
    /\ UNCHANGED <<names, data, req, fd, off, reader>>

-----------------------------------------------------------------------------
(* A write: a temporary file in the target's directory, then a rename.     *)

CreateTemp(o) ==
    /\ pc[o] = "createTemp"
    /\ names' = Link(names, Tmp(o), o)
    /\ fd' = [fd EXCEPT ![o].out = o]
    /\ Goto(o, IF req[o].op = "move" THEN "copy" ELSE "write")
    /\ UNCHANGED <<data, req, off, reader>>

WritePastEnd(o) ==  \* mutant: one chunk too many
    /\ pc[o] = "write"
    /\ off[o] <= Chunks
    /\ data' = [data EXCEPT ![fd[o].out] = WriteAt(@, off[o] + 1, req[o].value)]
    /\ off' = [off EXCEPT ![o] = @ + 1]
    /\ UNCHANGED <<names, req, pc, fd, reader>>

WriteChunk(o) ==
    /\ pc[o] = "write"
    /\ off[o] < Chunks
    /\ data' = [data EXCEPT ![fd[o].out] = WriteAt(@, off[o] + 1, req[o].value)]
    /\ off' = [off EXCEPT ![o] = @ + 1]
    /\ UNCHANGED <<names, req, pc, fd, reader>>

RenameEarly(o, ready) ==  \* mutant: published before the content is complete
    /\ pc[o] = "write"
    /\ names' = Renamed(names, Tmp(o), Final(req[o].path))
    /\ Goto(o, "ok")
    /\ UNCHANGED <<data, req, fd, off, reader>>

RenameTemp(o, ready) ==
    /\ pc[o] = ready
    /\ off[o] = Chunks
    /\ names' = Renamed(names, Tmp(o), Final(req[o].path))
    /\ Goto(o, "ok")
    /\ UNCHANGED <<data, req, fd, off, reader>>

-----------------------------------------------------------------------------
(* A move: a rename, or a copy and a removal when that fails.              *)

CanRename(src, dst) ==
    Final(src) \in DOMAIN names /\ Device(src) = Device(dst)

Rename(o) ==
    /\ pc[o] = "rename"
    /\ \/ /\ CanRename(req[o].src, req[o].dst)
          /\ names' = Renamed(names, Final(req[o].src), Final(req[o].dst))
          /\ Goto(o, "ok")
       \/ /\ CanRename(req[o].src, req[o].dst) => "rename" \in Faults
          /\ Goto(o, "open")
          /\ UNCHANGED names
    /\ UNCHANGED <<data, req, fd, off, reader>>

(* The source is opened; the next system call makes the file to copy to.   *)
Open(o, next) ==
    LET src == Final(req[o].src) IN
    /\ pc[o] = "open"
    /\ IF src \in DOMAIN names
       THEN fd' = [fd EXCEPT ![o].in = names[src]] /\ Goto(o, next)
       ELSE Goto(o, "error") /\ UNCHANGED fd
    /\ UNCHANGED <<names, data, req, off, reader>>

CopyOnce(o, next) ==  \* mutant: one read, taken for the whole content
    LET in == data[fd[o].in] IN
    /\ pc[o] = "copy"
    /\ data' = [data EXCEPT ![fd[o].out] = WriteAt(@, 1, in[1])]
    /\ Goto(o, next)
    /\ UNCHANGED <<names, req, fd, off, reader>>

CopyChunk(o, next) ==
    LET i == off[o] + 1
        in == data[fd[o].in]
    IN
    /\ pc[o] = "copy"
    /\ IF i <= Len(in)
       THEN /\ data' = [data EXCEPT ![fd[o].out] = WriteAt(@, i, in[i])]
            /\ off' = [off EXCEPT ![o] = i]
            /\ UNCHANGED pc
       ELSE /\ Goto(o, next)
            /\ UNCHANGED <<data, off>>
    /\ UNCHANGED <<names, req, fd, reader>>

RemoveSrc(o) ==
    LET src == Final(req[o].src) IN
    /\ pc[o] = "remove"
    /\ IF src \in DOMAIN names
       THEN names' = Unlink(names, src) /\ Goto(o, "ok")
       ELSE Goto(o, "error") /\ UNCHANGED names
    /\ UNCHANGED <<data, req, fd, off, reader>>

-----------------------------------------------------------------------------
(* A download: the file opened once, then read to its end chunk by chunk.  *)

StartRead(r) ==
    /\ reader[r].state = "idle"
    /\ \E p \in Paths :
          /\ Final(p) \in DOMAIN names
          /\ reader' = [reader EXCEPT ![r].state = "reading",
                                      ![r].file = names[Final(p)]]
    /\ UNCHANGED <<names, data, callVars>>

ReadChunk(r) ==
    LET i == Len(reader[r].got) + 1
        file == data[reader[r].file]
    IN
    /\ reader[r].state = "reading"
    /\ reader' = IF i <= Len(file)
                 THEN [reader EXCEPT ![r].got = Append(@, file[i])]
                 ELSE [reader EXCEPT ![r].state = "eof"]
    /\ UNCHANGED <<names, data, callVars>>

Download(r) == StartRead(r) \/ ReadChunk(r)

-----------------------------------------------------------------------------
AllValues == Values \cup {InitialFiles[p] : p \in DOMAIN InitialFiles}

Chunk == AllValues \cup {Hole}

FilesOK ==
    /\ DOMAIN names \subseteq {Final(p) : p \in Paths} \cup (Paths \X Ops)
    /\ \A n \in DOMAIN names : names[n] \in Files
    /\ data \in [Files -> Seq(Chunk)]
    /\ req \in [Ops -> Calls \cup {None}]
    /\ fd \in [Ops -> [in : Files \cup {None}, out : Files \cup {None}]]
    /\ off \in [Ops -> 0 .. Chunks]
    /\ reader \in [Readers -> [state : {"idle", "reading", "eof", "cut"},
                              file : Files \cup {None}, got : Seq(Chunk)]]

(* A download that reaches the end of the file has received one content,   *)
(* from its first chunk to its last, whatever is written, moved or deleted *)
(* meanwhile: no call writes to a file that a path names.                  *)
ReadsWhole ==
    \A r \in Readers :
       reader[r].state = "eof" => \E v \in AllValues : reader[r].got = Content(v)

OnlyMoves == \A o \in Ops : pc[o] # "idle" => req[o].op = "move"

(* Moves lose nothing: as long as only moves are called, every content     *)
(* that was there at the start is, whole, the content of some path, at     *)
(* every step of a move and after any that was cut short and repeated.     *)
NothingLost ==
    OnlyMoves =>
       \A v \in {InitialFiles[p] : p \in DOMAIN InitialFiles} :
          \E p \in Paths : /\ Final(p) \in DOMAIN names
                           /\ data[names[Final(p)]] = Content(v)
=============================================================================
