----------------------------- MODULE ObjectStore -----------------------------
(***************************************************************************)
(* The object-storage backends, S3Storage and GCSStorage: every call is a  *)
(* sequence of requests to the bucket, each of them atomic, that other     *)
(* calls interleave with, that can fail with or without having been        *)
(* executed, and that stops where the process does.                        *)
(***************************************************************************)
EXTENDS Naturals

CONSTANTS
    Ops,            \* the calls of the storage interface
    Paths,          \* the paths of objects, told apart as key(path) does
    Values,         \* the contents that are uploaded
    WritePaths,     \* the paths that AtomicWrite is called with
    DeletePaths,    \* the paths that Delete is called with
    MovePairs,      \* the <<source, destination>> that Move is called with
    InitialObjects, \* a function from some paths to their values
    Backends,       \* the backends that NewFromConfig may have chosen
    Faults,         \* which of "request" and "crash" happen
    Partial,        \* the content of an upload that was cut short
    None            \* no value

ASSUME BackendAssumption == Backends \subseteq {"s3", "gcs"}

ASSUME FaultAssumption == Faults \subseteq {"request", "crash"}

ASSUME PathAssumption ==
    /\ WritePaths \subseteq Paths
    /\ DeletePaths \subseteq Paths
    /\ DOMAIN InitialObjects \subseteq Paths
    /\ \A m \in MovePairs : \E p, q \in Paths : m = <<p, q>>

ASSUME ObjectsAssumption ==
    InitialObjects = [p \in DOMAIN InitialObjects |-> InitialObjects[p]]

VARIABLES
    backend, \* the backend, for as long as the process runs
    bucket,  \* the objects: a function from object names to contents
    req,     \* the arguments of each call
    pc       \* the request each call makes next, or its result

vars == <<backend, bucket, req, pc>>

(* Object names: the key of a path, or the name <key>.tmp-<random> of a call. *)
Final(p) == <<p>>

SharedTmp(o) == <<req[o].path, "tmp">>  \* mutant: no random suffix

InPlace(o) == Final(req[o].path)  \* mutant: the upload goes to the final key

Tmp(o) == <<req[o].path, o>>

Put(b, name, v) == [x \in DOMAIN b \cup {name} |-> IF x = name THEN v ELSE b[x]]

Drop(b, name) == [x \in DOMAIN b \ {name} |-> b[x]]

Calls ==
    [op : {"write"}, path : WritePaths, value : Values]
      \cup [op : {"delete"}, path : DeletePaths]
      \cup {[op |-> "move", src |-> m[1], dst |-> m[2]] : m \in MovePairs}

Init ==
    /\ backend \in Backends
    /\ bucket = [x \in {Final(p) : p \in DOMAIN InitialObjects} |->
                    InitialObjects[x[1]]]
    /\ req = [o \in Ops |-> None]
    /\ pc = [o \in Ops |-> "idle"]

Goto(o, label) == pc' = [pc EXCEPT ![o] = label]

FirstRequest(c) ==
    CASE c.op = "write"  -> "put"
      [] c.op = "move"   -> "copy"
      [] c.op = "delete" -> "delete"

Begin(o) ==
    /\ pc[o] = "idle"
    /\ \E c \in Calls : /\ req' = [req EXCEPT ![o] = c]
                        /\ Goto(o, FirstRequest(c))
    /\ UNCHANGED <<backend, bucket>>

(* A request whose caller gets an error: executed, to the effect b, or not. *)
RequestFails(o, b) ==
    /\ "request" \in Faults
    /\ bucket' \in {bucket, b}
    /\ Goto(o, "error")

-----------------------------------------------------------------------------
(* AtomicWrite: upload to a temporary object, copy it, delete it.          *)

(* A GCS writer that is closed after a read error stores what it was given. *)
PutTmp(o) ==
    LET uploaded == Put(bucket, Tmp(o), req[o].value) IN
    /\ pc[o] = "put"
    /\ \/ bucket' = uploaded /\ Goto(o, "copyTmp")
       \/ RequestFails(o, uploaded)
       \/ backend = "gcs" /\ RequestFails(o, Put(bucket, Tmp(o), Partial))
    /\ UNCHANGED <<backend, req>>

CopyTmp(o) ==
    LET copied == Put(bucket, Final(req[o].path), bucket[Tmp(o)]) IN
    /\ pc[o] = "copyTmp"
    /\ \/ bucket' = copied /\ Goto(o, "deleteTmp")
       \/ RequestFails(o, copied)
    /\ UNCHANGED <<backend, req>>

(* Best effort: the result of the deletion is ignored.                     *)
DeleteTmp(o) ==
    /\ pc[o] = "deleteTmp"
    /\ \/ bucket' = Drop(bucket, Tmp(o))
       \/ "request" \in Faults /\ UNCHANGED bucket
    /\ Goto(o, "ok")
    /\ UNCHANGED <<backend, req>>

-----------------------------------------------------------------------------
(* Move: copy the source, delete it.                                       *)

(* S3 refuses to copy an object to itself with unchanged metadata.         *)
CopyRefused(src, dst) ==
    \/ Final(src) \notin DOMAIN bucket
    \/ backend = "s3" /\ src = dst

(* GCS reports the deletion of a missing object, S3 does not.              *)
DeleteRefused(p) == backend = "gcs" /\ Final(p) \notin DOMAIN bucket

RemoveFirst(o) ==  \* mutant: the source goes before the copy is made
    /\ pc[o] = "copy"
    /\ Final(req[o].src) \in DOMAIN bucket
    /\ bucket' = Drop(bucket, Final(req[o].src))
    /\ Goto(o, "deleteSrc")
    /\ UNCHANGED <<backend, req>>

Copy(o) ==
    LET src == req[o].src
        dst == req[o].dst
        copied == Put(bucket, Final(dst), bucket[Final(src)])
    IN
    /\ pc[o] = "copy"
    /\ IF CopyRefused(src, dst)
       THEN UNCHANGED bucket /\ Goto(o, "error")
       ELSE \/ bucket' = copied /\ Goto(o, "deleteSrc")
            \/ RequestFails(o, copied)
    /\ UNCHANGED <<backend, req>>

Remove(o, p) ==
    /\ IF DeleteRefused(p)
       THEN UNCHANGED bucket /\ Goto(o, "error")
       ELSE \/ bucket' = Drop(bucket, Final(p)) /\ Goto(o, "ok")
            \/ RequestFails(o, Drop(bucket, Final(p)))
    /\ UNCHANGED <<backend, req>>

DeleteSrc(o) == pc[o] = "deleteSrc" /\ Remove(o, req[o].src)

Delete(o) == pc[o] = "delete" /\ Remove(o, req[o].path)

-----------------------------------------------------------------------------
Crash(o) ==
    /\ "crash" \in Faults
    /\ pc[o] \notin {"idle", "ok", "error"}
    /\ Goto(o, "error")
    /\ UNCHANGED <<backend, bucket, req>>

Next ==
    \E o \in Ops :
       \/ Begin(o)
       \/ PutTmp(o) \/ CopyTmp(o) \/ DeleteTmp(o)
       \/ Copy(o) \/ DeleteSrc(o)
       \/ Delete(o)
       \/ Crash(o)

Spec == Init /\ [][Next]_vars

-----------------------------------------------------------------------------
Originals == {InitialObjects[p] : p \in DOMAIN InitialObjects}

AllValues == Values \cup Originals

(* Types.  The content of an upload that was cut short is never under the  *)
(* key of a path, only under the temporary name of the call.               *)
TypeOK ==
    /\ backend \in Backends
    /\ DOMAIN bucket \subseteq {Final(p) : p \in Paths} \cup (Paths \X Ops)
    /\ \A p \in Paths : Final(p) \in DOMAIN bucket => bucket[Final(p)] \in AllValues
    /\ \A n \in DOMAIN bucket : bucket[n] \in AllValues \cup {Partial}
    /\ req \in [Ops -> Calls \cup {None}]
    /\ pc \in [Ops -> {"idle", "put", "copyTmp", "deleteTmp", "copy", "deleteSrc",
                       "delete", "ok", "error"}]

OnlyMoves == \A o \in Ops : pc[o] # "idle" => req[o].op = "move"

(* Moves lose nothing: as long as only Move is called, every object that   *)
(* was there at the start is at some path, whatever the number of moves    *)
(* that run at once, fail, stop or are repeated between the copy and the   *)
(* deletion of the source.  The code needs the moves to form no cycle, and *)
(* none of them to end where another object is.                            *)
NothingLost ==
    OnlyMoves =>
       \A v \in Originals :
          \E p \in Paths : Final(p) \in DOMAIN bucket /\ bucket[Final(p)] = v

(* The interface's view: the objects under keys of paths, and how far each *)
(* call is.                                                                *)
Store == [p \in {q \in Paths : Final(q) \in DOMAIN bucket} |-> bucket[Final(p)]]

PhaseOf(label) ==
    CASE label \in {"put", "copyTmp", "copy", "delete"} -> "begun"
      [] label = "deleteTmp" -> "committed"
      [] label = "deleteSrc" -> "copied"
      [] OTHER -> label

Phase == [o \in Ops |-> PhaseOf(pc[o])]

(* The interface's promise, with a move that copies and then removes: a    *)
(* path changes only by one whole effect of one call, and a call that      *)
(* returns without error has had its effect.                               *)
Abstract ==
    INSTANCE AtomicStore WITH
        InitialStore <- InitialObjects, AtomicMove <- FALSE,
        store <- Store, phase <- Phase

AtomicCalls == Abstract!Spec
=============================================================================
