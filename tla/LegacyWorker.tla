---------------------------- MODULE LegacyWorker ----------------------------
(***************************************************************************)
(* The worker of package internal/worker beside the one of cmd/worker: one *)
(* of the two programs serves the list.  It takes other task types, gives  *)
(* up an element it cannot decode, never looks at its context and records  *)
(* another word for an error; its moves make the same system calls.        *)
(***************************************************************************)
EXTENDS Engine

CONSTANTS
    Programs,  \* among "current" and "legacy"
    Sent(_)    \* the members of Posted that are pushed for a program

VARIABLE program

Param(t, k) == Queue!Param(t, k)

(* What follows Pop in the loop: nothing checks the context.               *)
Again(w) ==
    /\ at[w] = "loop"
    /\ at' = [at EXCEPT ![w] = "pop"]
    /\ UNCHANGED <<tasks, pushes, posted, status, held, result, cancelled, stops,
                   folders, outcomes>>

(* Pop returns the error of json.Unmarshal: the element is off the list.   *)
PopGarbage(w) ==
    /\ at[w] = "pop"
    /\ tasks # <<>> /\ Head(tasks).raw = Garbage
    /\ tasks' = Tail(tasks)
    /\ at' = [at EXCEPT ![w] = "sleep"]
    /\ UNCHANGED <<pushes, posted, status, held, result, cancelled, stops,
                   folders, outcomes>>

LegacyPop(w) ==
    /\ tasks # <<>> /\ Head(tasks).raw # Garbage
    /\ Queue!Pop(w)

(* The task types of FSProcessor.                                          *)
IsCreate(t) ==
    /\ t.type = "create_folder"
    /\ Param(t, "path") # <<>> /\ Param(t, "folder") # <<>>

IsUpload(t) ==
    /\ t.type = "complete_upload"
    /\ Param(t, "upload_tmp") # <<>>
    /\ Param(t, "target_path") # <<>> /\ Param(t, "filename") # <<>>

Source(t) == Param(t, "upload_tmp")
Destination(t) == Param(t, "target_path") \o <<"/">> \o Param(t, "filename")

LegacyFinish(w, err) ==
    /\ result' = [result EXCEPT ![w] = IF err = "nil" THEN "success" ELSE "error"]
    /\ outcomes' = outcomes \cup {[n |-> held[w].n, task |-> Task(w), err |-> err]}
    /\ at' = [at EXCEPT ![w] = "complete"]
    /\ UNCHANGED <<tasks, pushes, posted, status, held, cancelled, stops>>

FSCreateFolder(w) ==
    LET t == Task(w)
        folder == Param(t, "path") \o <<"/">> \o Param(t, "folder")
    IN
    /\ at[w] = "process"
    /\ IsCreate(t)
    /\ \/ folders' = folders \cup {folder} /\ LegacyFinish(w, "nil")
       \/ "error" \in Faults /\ folders' = folders /\ LegacyFinish(w, "error")

FSRejects(w) ==
    /\ at[w] = "process"
    /\ ~IsCreate(Task(w)) /\ ~IsUpload(Task(w))
    /\ LegacyFinish(w, "error")
    /\ UNCHANGED folders

Uploads(w) == at[w] = "process" /\ IsUpload(Task(w))

(* MoveUploadedFile of the older adapter, step by step.                    *)
FSMove(w) ==
    LET o == Op(held[w].n) IN
    /\ Uploads(w)
    /\ \/ /\ Begin(o)
          /\ req'[o].src = Source(Task(w)) /\ req'[o].dst = Destination(Task(w))
       \/ Move(o) \/ Fails(o)
    /\ UNCHANGED queueVars

FSMoveReturns(w) ==
    LET o == Op(held[w].n) IN
    /\ Uploads(w)
    /\ pc[o] \in {"ok", "error"}
    /\ LegacyFinish(w, IF pc[o] = "ok" THEN "nil" ELSE "error")
    /\ UNCHANGED <<vars, folders>>

LegacyLoop(w) ==
    \/ /\ UNCHANGED vars
       /\ \/ Again(w) \/ LegacyPop(w) \/ PopGarbage(w) \/ Queue!PopFails(w) \/ Queue!Wake(w)
          \/ FSCreateFolder(w) \/ FSRejects(w) \/ Queue!Complete(w)
    \/ FSMove(w) \/ FSMoveReturns(w)

-----------------------------------------------------------------------------
Push(raw) == UNCHANGED <<vars, program>> /\ Queue!PostTask(raw)

BothLoops(w) ==
    /\ UNCHANGED program
    /\ \/ program = "current" /\ Loop(w)
       \/ program = "legacy" /\ LegacyLoop(w)

(* Only cmd/worker has a main that cancels the context.                    *)
BothMains(w) ==
    /\ UNCHANGED program
    /\ Stop(w) \/ (program = "current" /\ Signal(w))

BothRestart(w) == UNCHANGED program /\ Restart(w)

bothVars == <<engineVars, program>>

BothInit == EngineInit /\ program \in Programs

BothNext ==
    \/ \E raw \in Sent(program) : Push(raw)
    \/ \E w \in Workers : BothLoops(w) \/ BothMains(w) \/ BothRestart(w)

(* As in TaskQueue: workers keep running and are started again.            *)
BothSpec ==
    /\ BothInit /\ [][BothNext]_bothVars
    /\ \A w \in Workers : WF_bothVars(BothLoops(w)) /\ WF_bothVars(BothRestart(w))
=============================================================================
