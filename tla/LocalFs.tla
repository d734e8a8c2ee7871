------------------------------- MODULE LocalFs -------------------------------
(***************************************************************************)
(* LocalFs of the filesystem package, by system call.  When a rename fails *)
(* its MoveUploadedFile copies through a temporary file in the directory   *)
(* of the destination, and a deferred function removes the temporary file  *)
(* of a call that returns an error.                                        *)
(***************************************************************************)
EXTENDS PosixFiles

ASSUME DeleteAssumption == DeletePaths = {}  \* the package deletes nothing

VARIABLES
    synced,   \* the files whose content is on the disk
    past,     \* what each name has named since the power last failed
    outage,   \* whether the power has failed
    suspect,  \* the files whose sync failed, and the copies of them
    left      \* the calls whose temporary file could not be removed

diskVars == <<synced, past, outage, suspect, left>>
fsVars == <<vars, diskVars>>

Names == {Final(p) : p \in Paths} \cup (Paths \X Ops)

(* The file that a name names in the directory n, if any.                  *)
Entry(n, name) == IF name \in DOMAIN n THEN n[name] ELSE None

FsInit ==
    /\ Init
    /\ synced = DOMAIN InitialFiles
    /\ past = [n \in Names |-> {Entry(names, n)}]
    /\ outage = FALSE
    /\ suspect = {}
    /\ left = {}

(* A system call fails without effect, or the context is done at the start: *)
(* the deferred function runs and the call returns the error.              *)
Fails(o) ==
    /\ "error" \in Faults
    /\ pc[o] \notin Done \cup {"cleanup"}
    /\ Goto(o, "cleanup")
    /\ UNCHANGED <<names, data, req, fd, off, reader>>

Leave(o) ==  \* mutant: no deferred removal
    /\ pc[o] = "cleanup"
    /\ Goto(o, "error")
    /\ UNCHANGED <<names, data, req, fd, off, reader, synced, suspect, left>>

(* The deferred function drops the error of os.Remove.                     *)
Cleanup(o) ==
    /\ pc[o] = "cleanup"
    /\ \/ /\ names' = Unlink(names, Tmp(o))
          /\ UNCHANGED left
       \/ /\ "error" \in Faults
          /\ left' = left \cup {o}
          /\ UNCHANGED names
    /\ Goto(o, "error")
    /\ UNCHANGED <<data, req, fd, off, reader, synced, suspect>>

Close(o) ==  \* mutant: closed without being synced
    /\ pc[o] = "sync" \/ (pc[o] = "write" /\ off[o] = Chunks)
    /\ Goto(o, "publish")
    /\ UNCHANGED <<names, data, req, fd, off, reader, synced, suspect, left>>

(* The temporary file has its content, is synced and closed; the error of  *)
(* Sync is dropped.                                                        *)
Sync(o) ==
    /\ pc[o] = "sync" \/ (pc[o] = "write" /\ off[o] = Chunks)
    /\ \/ /\ synced' = synced \cup {fd[o].out}
          /\ suspect' = suspect \cup {f \in {fd[o].out} : fd[o].in \in suspect}
       \/ /\ "error" \in Faults
          /\ suspect' = suspect \cup {fd[o].out}
          /\ UNCHANGED synced
    /\ Goto(o, "publish")
    /\ UNCHANGED <<names, data, req, fd, off, reader, left>>

RenameCopy(o) ==
    /\ pc[o] = "publish"
    /\ names' = Renamed(names, Tmp(o), Final(req[o].dst))
    /\ Goto(o, "remove")
    /\ UNCHANGED <<data, req, fd, off, reader>>

AtomicWriteFile(o) ==
    /\ req[o] # None
    /\ req[o].op = "write"
    /\ CreateTemp(o) \/ WriteChunk(o) \/ RenameTemp(o, "publish")

CopyFileContents(o) ==
    /\ req[o] # None
    /\ req[o].op = "move"
    /\ Open(o, "createTemp") \/ CreateTemp(o) \/ CopyChunk(o, "sync") \/ RenameCopy(o)

MoveUploadedFile(o) == Rename(o) \/ CopyFileContents(o) \/ RemoveSrc(o)

Call(o) ==
    \/ Begin(o) \/ AtomicWriteFile(o) \/ MoveUploadedFile(o)
    \/ Fails(o) \/ Crash(o)

(* The power fails.  No directory is ever synced: a name is on the disk as *)
(* it was at some moment since the power last failed, each name by itself. *)
(* Of a file that was not synced some first part survives.                 *)
PowerFails ==
    /\ "power" \in Faults
    /\ \E kept \in [Files \ synced -> 0 .. Chunks] :
          /\ \A f \in Files \ synced : kept[f] <= Len(data[f])
          /\ data' = [f \in Files |->
                        IF f \in synced THEN data[f] ELSE SubSeq(data[f], 1, kept[f])]
    /\ \E disk \in [Paths -> Files \cup {None}] :
          /\ \A p \in Paths : disk[p] \in past[Final(p)]
          /\ \E temps \in SUBSET {n \in Paths \X Ops : past[n] # {None}} :
                /\ \A n \in (Paths \X Ops) \ temps : None \in past[n]
                /\ names' = [n \in temps \cup {Final(p) : p \in {q \in Paths : disk[q] # None}}
                               |-> IF n \in temps THEN n[2] ELSE disk[n[1]]]
    /\ past' = [n \in Names |-> {Entry(names', n)}]
    /\ outage' = TRUE
    /\ pc' = [o \in Ops |-> IF pc[o] \in Done THEN pc[o] ELSE "crashed"]
    /\ reader' = [r \in Readers |-> IF reader[r].state = "reading"
                                    THEN [reader[r] EXCEPT !.state = "cut"]
                                    ELSE reader[r]]
    /\ UNCHANGED <<req, fd, off, synced, suspect, left>>

Step ==
    \/ \E o \in Ops :
          Sync(o) \/ Cleanup(o) \/ (Call(o) /\ UNCHANGED <<synced, suspect, left>>)
    \/ \E r \in Readers : Download(r) /\ UNCHANGED <<synced, suspect, left>>

Next ==
    \/ /\ Step
       /\ past' = [n \in Names |-> past[n] \cup {Entry(names', n)}]
       /\ UNCHANGED outage
    \/ PowerFails

Spec == FsInit /\ [][Next]_fsVars

-----------------------------------------------------------------------------
(* Types of the files, the descriptors and the steps of the calls.         *)
TypeOK ==
    /\ FilesOK
    /\ synced \subseteq Files
    /\ past \in [Names -> SUBSET (Files \cup {None})]
    /\ outage \in BOOLEAN
    /\ suspect \subseteq Ops
    /\ left \subseteq Ops
    /\ pc \in [Ops -> Done \cup {"createTemp", "write", "rename", "open", "copy",
                                 "sync", "publish", "remove", "cleanup"}]

(* A power failure may have cut the file short: Sync had failed for it, or *)
(* for a file that it is a copy of.                                        *)
Torn(f) == outage /\ f \in suspect

(* A path never names a file with a part of a content, also after a power  *)
(* failure at any moment, since a file is synced before it gets the path.  *)
(* The exception is a file whose Sync failed, unnoticed, before the power  *)
(* did.                                                                    *)
PathsWhole ==
    \A p \in Paths :
       Final(p) \in DOMAIN names =>
          \/ Torn(names[Final(p)])
          \/ \E v \in AllValues : data[names[Final(p)]] = Content(v)

(* A download that reaches the end of such a file has received one content *)
(* whole, whatever is written and moved meanwhile.                         *)
DownloadsWhole ==
    \A r \in Readers :
       reader[r].state = "eof" =>
          \/ Torn(reader[r].file)
          \/ \E v \in AllValues : reader[r].got = Content(v)

(* As long as the power does not fail, moves lose nothing.  A power        *)
(* failure may keep the removal of a source and not the name of its copy.  *)
KeptWhilePowered == ~outage => NothingLost

(* A call that returns leaves no temporary file behind unless the removal  *)
(* failed or the power brought the name back, and as long as it has one no *)
(* other call renames or removes it.                                       *)
NoLitter ==
    \A o \in Ops :
       /\ pc[o] \in {"ok", "error"} /\ ~outage /\ o \notin left =>
             \A p \in Paths : <<p, o>> \notin DOMAIN names
       /\ pc[o] \in {"write", "copy", "sync", "publish"} =>
             Tmp(o) \in DOMAIN names /\ names[Tmp(o)] = o
=============================================================================
