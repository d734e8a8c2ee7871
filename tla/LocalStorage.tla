---------------------------- MODULE LocalStorage ----------------------------
(***************************************************************************)
(* The local backend, LocalStorage, by system call.  When a rename fails   *)
(* its Move copies into the destination itself, and no call cleans up.     *)
(***************************************************************************)
EXTENDS PosixFiles

(* A system call fails without effect and the call returns its error, with *)
(* what it has done so far.                                                *)
Fails(o) ==
    /\ "error" \in Faults
    /\ pc[o] \notin Done
    /\ Goto(o, "error")
    /\ UNCHANGED <<names, data, req, fd, off, reader>>

(* os.Create truncates the file that is there.                             *)
Create(o) ==
    LET dst == Final(req[o].dst)
        file == IF dst \in DOMAIN names THEN names[dst] ELSE o
    IN
    /\ pc[o] = "create"
    /\ names' = Link(names, dst, file)
    /\ data' = [data EXCEPT ![file] = <<>>]
    /\ fd' = [fd EXCEPT ![o].out = file]
    /\ Goto(o, "copy")
    /\ UNCHANGED <<req, off, reader>>

(* Delete: os.RemoveAll, for which a missing path is no error.             *)
RemoveAll(o) ==
    /\ pc[o] = "removeAll"
    /\ names' = Unlink(names, Final(req[o].path))
    /\ Goto(o, "ok")
    /\ UNCHANGED <<data, req, fd, off, reader>>

AtomicWrite(o) == CreateTemp(o) \/ WriteChunk(o) \/ RenameTemp(o, "write")

Move(o) ==
    \/ Rename(o) \/ Open(o, "create") \/ Create(o)
    \/ CopyChunk(o, "remove") \/ RemoveSrc(o)

Call(o) ==
    Begin(o) \/ AtomicWrite(o) \/ Move(o) \/ RemoveAll(o) \/ Fails(o) \/ Crash(o)

Next == (\E o \in Ops : Call(o)) \/ (\E r \in Readers : Download(r))

Spec == Init /\ [][Next]_vars

-----------------------------------------------------------------------------
(* Types of the files, the descriptors and the steps of the calls.         *)
TypeOK ==
    /\ FilesOK
    /\ pc \in [Ops -> Done \cup {"createTemp", "write", "rename", "open",
                                 "create", "copy", "remove", "removeAll"}]

Whole(chunks) == \E v \in AllValues : chunks = Content(v)

(* Between devices, a download gets a part of a content or a mixture only  *)
(* from a file that a move has copied into in place: no write, deletion or *)
(* rename ever shows one.                                                  *)
OnlyCopiesShow ==
    \A r \in Readers :
       reader[r].state = "eof" =>
          \/ Whole(reader[r].got)
          \/ \E o \in Ops : pc[o] # "idle" /\ req[o].op = "move"
                              /\ fd[o].out = reader[r].file

(* Moves of one content to one place, by several workers at once, write    *)
(* to the same destination and truncate it under each other; but when all  *)
(* calls have returned and none was cut short, every path has a whole      *)
(* content: each move writes what it opened from the first chunk to the    *)
(* last.                                                                   *)
MovesConverge ==
    Faults = {} /\ (\A o \in Ops : pc[o] \in Done) =>
       \A p \in Paths : Final(p) \in DOMAIN names => Whole(data[names[Final(p)]])

ValueOf(f) ==
    IF Whole(data[f])
    THEN CHOOSE v \in AllValues : data[f] = Content(v)
    ELSE Hole

(* The interface's view: the contents that paths name, and how far each    *)
(* call is.                                                                *)
Store ==
    [p \in {q \in Paths : Final(q) \in DOMAIN names} |-> ValueOf(names[Final(p)])]

PhaseOf(label) ==
    CASE label \in {"idle", "ok", "error"} -> label
      [] label = "crashed" -> "error"
      [] OTHER -> "begun"

Phase == [o \in Ops |-> PhaseOf(pc[o])]

Abstract ==
    INSTANCE AtomicStore WITH
        InitialStore <- InitialFiles, AtomicMove <- TRUE,
        store <- Store, phase <- Phase

(* The interface's promise, with moves in one step: what a path names is   *)
(* changed only by one whole effect of one call, and a call that returns   *)
(* without error has had its effect.                                       *)
AtomicCalls == Abstract!Spec
=============================================================================
