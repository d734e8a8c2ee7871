------------------------------ MODULE TaskQueue ------------------------------
(***************************************************************************)
(* The asynchronous task pipeline of the file engine: the CreateFolder RPC *)
(* that queues a task, the Redis list "tasks" and the Redis keys           *)
(* "task:<id>", and the worker processes (cmd/worker) that pop a task, run *)
(* it against the storage backend and record its status.                   *)
(*                                                                         *)
(* A string of the program (a path, a name) is a sequence of tokens, "/"   *)
(* being one of them; the empty string is << >>.                           *)
(***************************************************************************)
EXTENDS Naturals, Sequences

CONSTANTS
    Requests,       \* the CreateFolder RPCs that reach the handler
    Workers,        \* the worker processes
    ParentPaths,    \* values of the request field parent_path
    FolderNames,    \* values of the request field folder_name
    Posted,         \* list elements that other programs push, each once
    Garbage,        \* a list element that is not valid JSON
    InitialObjects, \* the objects in storage at the start
    ClockSteps,     \* the time that can pass between two readings of the clock
    Faults,         \* which of the kinds named below can happen
    MaxStops,       \* bound: how often worker processes are stopped, in all
    None            \* no value

ASSUME FaultAssumption ==
    Faults \subseteq {"interrupt", "kill", "redis", "retry", "storage"}

(***************************************************************************)
(* TaskPayload.  A Go map yields "" for a key it does not have, and a      *)
(* payload that json.Unmarshal cannot parse leaves the zero TaskPayload.   *)
(***************************************************************************)
Param(t, k) == IF k \in DOMAIN t.params THEN t.params[k] ELSE << >>

ZeroTask == [id |-> << >>, type |-> "", params |-> << >>]

Decode(raw) == IF raw = Garbage THEN ZeroTask ELSE raw

TimeIdInTicks(t) == <<"time", t \div 2>>  \* mutant: a layout with fewer digits

(* The layout prints every digit of the nanoseconds: two readings of the   *)
(* clock have the same id exactly when they are equal.                     *)
TimeId(t) == <<"time", t>>

CreateFolderTask(t, parent, name) ==
    [id     |-> TimeId(t),
     type   |-> "create_folder",
     params |-> [parent |-> parent, name |-> name]]

ASSUME ClockAssumption == ClockSteps \subseteq Nat

(* A program that posts a task does not use the ids of EnqueueCreateFolder. *)
ASSUME PostedAssumption ==
    \A raw \in Posted : raw # Garbage => raw.id = << >> \/ raw.id[1] # "time"

-----------------------------------------------------------------------------
VARIABLES
    clock,      \* the next reading of the API server's clock
    call,       \* the progress of each RPC
    sent,       \* the task each RPC built
    tasks,      \* the Redis list "tasks"; n numbers the pushes
    pushes,     \* how many elements were ever pushed
    posted,     \* the members of Posted pushed so far
    status,     \* the Redis keys "task:<id>"
    pc,         \* where each worker is in its loop
    held,       \* the list element each worker popped
    result,     \* the status each worker is about to record
    cancelled,  \* whether each worker's context is cancelled
    stops,      \* how many times a worker was interrupted or killed
    folders,    \* the folders in storage
    objects,    \* the objects in storage
    outcomes    \* history: every execution of a list element and its result

apiVars     == <<clock, call, sent>>
redisVars   == <<tasks, pushes, status>>
workerVars  == <<pc, held, result, cancelled, stops>>
storageVars == <<folders, objects, outcomes>>
vars == <<apiVars, redisVars, posted, workerVars, storageVars>>

Init ==
    /\ clock = 0
    /\ call = [r \in Requests |-> "idle"]
    /\ sent = [r \in Requests |-> None]
    /\ tasks = << >>
    /\ pushes = 0
    /\ posted = {}
    /\ status = << >>
    /\ pc = [w \in Workers |-> "loop"]
    /\ held = [w \in Workers |-> None]
    /\ result = [w \in Workers |-> None]
    /\ cancelled = [w \in Workers |-> FALSE]
    /\ stops = 0
    /\ folders = {}
    /\ objects = InitialObjects
    /\ outcomes = {}

-----------------------------------------------------------------------------
(* The API: GRPCHandler.CreateFolder, EnqueueCreateFolder and Enqueue.     *)

LPush(q, n, raw) == <<[n |-> n, raw |-> raw]>> \o q  \* mutant

RPush(q, n, raw) == Append(q, [n |-> n, raw |-> raw])

CreateFolder(r) ==
    /\ call[r] = "idle"
    /\ \E parent \in ParentPaths, name \in FolderNames :
          sent' = [sent EXCEPT ![r] = CreateFolderTask(clock, parent, name)]
    /\ \E d \in ClockSteps : clock' = clock + d
    /\ call' = [call EXCEPT ![r] = "pushing"]
    /\ UNCHANGED <<redisVars, posted, workerVars, storageVars>>

Push(raw) ==
    /\ tasks' = RPush(tasks, pushes + 1, raw)
    /\ pushes' = pushes + 1
    /\ UNCHANGED status

(* The reply arrives: the caller gets the id and the status "queued".      *)
Enqueue(r) ==
    /\ call[r] = "pushing"
    /\ Push(sent[r])
    /\ call' = [call EXCEPT ![r] = "queued"]
    /\ UNCHANGED <<clock, sent, posted, workerVars, storageVars>>

(* The Redis client repeats a command whose reply it did not get, and the  *)
(* first attempt had been executed.                                        *)
EnqueueRetried(r) ==
    /\ "retry" \in Faults
    /\ call[r] = "pushing"
    /\ tasks' = RPush(RPush(tasks, pushes + 1, sent[r]), pushes + 2, sent[r])
    /\ pushes' = pushes + 2
    /\ call' = [call EXCEPT ![r] = "queued"]
    /\ UNCHANGED <<clock, sent, status, posted, workerVars, storageVars>>

(* RPush returns an error, whether or not Redis executed it.               *)
EnqueueFails(r) ==
    /\ "redis" \in Faults
    /\ call[r] = "pushing"
    /\ Push(sent[r]) \/ UNCHANGED redisVars
    /\ call' = [call EXCEPT ![r] = "error"]
    /\ UNCHANGED <<clock, sent, posted, workerVars, storageVars>>

(* Another program pushes a list element.  No code of the engine pushes a  *)
(* move_file task: they come from here.                                    *)
PostTask(raw) ==
    /\ raw \in Posted \ posted
    /\ posted' = posted \cup {raw}
    /\ Push(raw)
    /\ UNCHANGED <<apiVars, workerVars, storageVars>>

-----------------------------------------------------------------------------
(* The worker loop (tasks.Worker.Start) with RedisQueue.Pop and Complete.  *)

Goto(w, label) == pc' = [pc EXCEPT ![w] = label]

CheckContext(w) ==
    /\ pc[w] = "loop"
    /\ Goto(w, IF cancelled[w] THEN "exited" ELSE "pop")
    /\ UNCHANGED <<apiVars, redisVars, posted, held, result, cancelled, stops,
                   storageVars>>

Peeked(q) == q  \* mutant: the element stays on the list

Popped(q) == Tail(q)

(* A BLPop that is waiting is not interrupted by the context.              *)
Pop(w) ==
    /\ pc[w] = "pop"
    /\ tasks # << >>
    /\ held' = [held EXCEPT ![w] = Head(tasks)]
    /\ tasks' = Popped(tasks)
    /\ Goto(w, "process")
    /\ UNCHANGED <<apiVars, pushes, status, posted, result, cancelled, stops,
                   storageVars>>

(* BLPop returns an error: the context was cancelled before it was sent,   *)
(* or the connection broke, perhaps after Redis had taken the element off. *)
PopFails(w) ==
    /\ pc[w] = "pop"
    /\ \/ /\ cancelled[w] \/ "redis" \in Faults
          /\ tasks' = tasks
       \/ /\ "redis" \in Faults
          /\ tasks # << >>
          /\ tasks' = Popped(tasks)
    /\ Goto(w, "sleep")
    /\ UNCHANGED <<apiVars, pushes, status, posted, held, result, cancelled,
                   stops, storageVars>>

Wake(w) ==
    /\ pc[w] = "sleep"
    /\ Goto(w, "loop")
    /\ UNCHANGED <<apiVars, redisVars, posted, held, result, cancelled, stops,
                   storageVars>>

-----------------------------------------------------------------------------
(* Processor.Process: what a task asks of the storage backend.             *)

Trimmed(path) ==
    IF path # << >> /\ path[Len(path)] = "/"
    THEN SubSeq(path, 1, Len(path) - 1)
    ELSE path

FolderOf(t) == Trimmed(Param(t, "parent")) \o <<"/">> \o Param(t, "name")

IsCreateFolder(t) ==
    /\ t.type = "create_folder"
    /\ Param(t, "parent") # << >>
    /\ Param(t, "name") # << >>

IsMove(t) ==
    /\ t.type = "move_file"
    /\ Param(t, "src") # << >>
    /\ Param(t, "dst") # << >>

Blind(err) == "success"  \* mutant: the error of Process is dropped

Verbatim(err) == err  \* mutant: the error itself is recorded

(* The two branches after Process in the worker loop.                      *)
StatusFor(err) == IF err = "nil" THEN "success" ELSE "failed"

Finish(w, err) ==
    /\ result' = [result EXCEPT ![w] = StatusFor(err)]
    /\ outcomes' = outcomes \cup {[n    |-> held[w].n,
                                   task |-> Decode(held[w].raw),
                                   err  |-> err]}
    /\ Goto(w, "complete")
    /\ UNCHANGED <<apiVars, redisVars, posted, held, cancelled, stops>>

(* The object stores give up when the context is cancelled, the local      *)
(* backend does not look at it.                                            *)
StorageMayFail(w) == "storage" \in Faults \/ cancelled[w]

(* Storage.CreateFolder succeeds, or fails having done its work or not.    *)
ProcessCreateFolder(w) ==
    LET t == Decode(held[w].raw) IN
    /\ pc[w] = "process"
    /\ IsCreateFolder(t)
    /\ \/ /\ folders' = folders \cup {FolderOf(t)}
          /\ Finish(w, "nil")
       \/ /\ StorageMayFail(w)
          /\ folders' \in {folders, folders \cup {FolderOf(t)}}
          /\ Finish(w, "error")
    /\ UNCHANGED objects

(* Storage.Move needs its source.  When it fails, nothing, the copy, or    *)
(* the copy and the removal of the source may have been done.              *)
ProcessMove(w) ==
    LET t   == Decode(held[w].raw)
        src == Param(t, "src")
        dst == Param(t, "dst")
        moved == (objects \ {src}) \cup {dst}
    IN
    /\ pc[w] = "process"
    /\ IsMove(t)
    /\ \/ /\ src \in objects
          /\ objects' = moved
          /\ Finish(w, "nil")
       \/ /\ src \notin objects
          /\ objects' = objects
          /\ Finish(w, "error")
       \/ /\ src \in objects
          /\ StorageMayFail(w)
          /\ objects' \in {objects, objects \cup {dst}, moved}
          /\ Finish(w, "error")
    /\ UNCHANGED folders

(* Missing parameters, or a type Process does not know.                    *)
ProcessRejects(w) ==
    LET t == Decode(held[w].raw) IN
    /\ pc[w] = "process"
    /\ ~IsCreateFolder(t) /\ ~IsMove(t)
    /\ Finish(w, "error")
    /\ UNCHANGED <<folders, objects>>

Process(w) == ProcessCreateFolder(w) \/ ProcessMove(w) \/ ProcessRejects(w)

-----------------------------------------------------------------------------
RedisSet(keys, id, value) ==
    [k \in DOMAIN keys \cup {id} |-> IF k = id THEN value ELSE keys[k]]

SuccessOnly(w) ==  \* mutant: a failed task returns before Complete
    IF result[w] = "failed"
    THEN status' = status
    ELSE status' = RedisSet(status, Decode(held[w].raw).id, result[w])

Record(w) == status' = RedisSet(status, Decode(held[w].raw).id, result[w])

(* Complete runs with the worker's context, so it fails once that is       *)
(* cancelled, and the loop ignores the error.                              *)
Complete(w) ==
    /\ pc[w] = "complete"
    /\ \/ /\ ~cancelled[w]
          /\ Record(w)
       \/ /\ cancelled[w] \/ "redis" \in Faults
          /\ UNCHANGED status
    /\ Goto(w, "loop")
    /\ held' = [held EXCEPT ![w] = None]
    /\ result' = [result EXCEPT ![w] = None]
    /\ UNCHANGED <<apiVars, tasks, pushes, posted, cancelled, stops,
                   storageVars>>

-----------------------------------------------------------------------------
(* The worker process (cmd/worker): main cancels the context on            *)
(* os.Interrupt, waits half a second and returns, wherever the loop is.    *)

Interrupt(w) ==
    /\ "interrupt" \in Faults
    /\ stops < MaxStops
    /\ pc[w] # "exited"
    /\ ~cancelled[w]
    /\ cancelled' = [cancelled EXCEPT ![w] = TRUE]
    /\ stops' = stops + 1
    /\ UNCHANGED <<apiVars, redisVars, posted, pc, held, result, storageVars>>

Vanish(w) ==
    /\ Goto(w, "exited")
    /\ held' = [held EXCEPT ![w] = None]
    /\ result' = [result EXCEPT ![w] = None]
    /\ UNCHANGED <<apiVars, redisVars, posted, cancelled, storageVars>>

MainReturns(w) ==
    /\ cancelled[w]
    /\ pc[w] # "exited"
    /\ Vanish(w)
    /\ UNCHANGED stops

(* Any other signal, or a failure of the host.                             *)
Kill(w) ==
    /\ "kill" \in Faults
    /\ stops < MaxStops
    /\ pc[w] # "exited"
    /\ Vanish(w)
    /\ stops' = stops + 1

(* The process is started again.                                           *)
Start(w) ==
    /\ pc[w] = "exited"
    /\ Goto(w, "loop")
    /\ cancelled' = [cancelled EXCEPT ![w] = FALSE]
    /\ UNCHANGED <<apiVars, redisVars, posted, held, result, stops,
                   storageVars>>

-----------------------------------------------------------------------------
API(r) ==
    CreateFolder(r) \/ Enqueue(r) \/ EnqueueRetried(r) \/ EnqueueFails(r)

Loop(w) ==
    CheckContext(w) \/ Pop(w) \/ PopFails(w) \/ Wake(w) \/ Process(w)
        \/ Complete(w)

Main(w) == Interrupt(w) \/ MainReturns(w) \/ Kill(w) \/ Start(w)

Next ==
    \/ \E r \in Requests : API(r)
    \/ \E raw \in Posted : PostTask(raw)
    \/ \E w \in Workers : Loop(w) \/ Main(w)

Spec == Init /\ [][Next]_vars

(* Every worker goroutine keeps being scheduled, BLPop returns when the    *)
(* list has an element, and a stopped worker is started again.             *)
FairSpec ==
    /\ Spec
    /\ \A w \in Workers : WF_vars(Loop(w)) /\ WF_vars(Start(w))

-----------------------------------------------------------------------------
Busy(w) == pc[w] \in {"process", "complete"}

Raws == Posted \cup {sent[r] : r \in {q \in Requests : call[q] # "idle"}}

Entries == [n : 1..pushes, raw : Raws]

ApiTypeOK ==
    /\ clock \in Nat
    /\ call \in [Requests -> {"idle", "pushing", "queued", "error"}]
    /\ DOMAIN sent = Requests
    /\ \A r \in Requests :
          call[r] # "idle" =>
             \E t \in 0..clock, parent \in ParentPaths, name \in FolderNames :
                sent[r] = CreateFolderTask(t, parent, name)

RedisTypeOK ==
    /\ pushes \in Nat
    /\ tasks \in Seq(Entries)
    /\ posted \subseteq Posted
    /\ status \in [DOMAIN status -> {"success", "failed"}]

WorkerTypeOK ==
    /\ pc \in [Workers ->
               {"loop", "pop", "sleep", "process", "complete", "exited"}]
    /\ held \in [Workers -> Entries \cup {None}]
    /\ result \in [Workers -> {"success", "failed", None}]
    /\ \A w \in Workers :
          /\ Busy(w) => held[w] \in Entries
          /\ pc[w] = "complete" => result[w] \in {"success", "failed"}
    /\ cancelled \in [Workers -> BOOLEAN]
    /\ stops \in Nat

OutcomeTypeOK ==
    \A o \in outcomes :
       /\ o.n \in 1..pushes
       /\ o.err \in {"nil", "error"}
       /\ \E raw \in Raws : o.task = Decode(raw)

(* Types.  Every list element, popped or waiting, is one that an RPC built *)
(* or that another program posted, and every task an RPC built has an id   *)
(* read from the clock.                                                    *)
TypeOK == ApiTypeOK /\ RedisTypeOK /\ WorkerTypeOK /\ OutcomeTypeOK

(* At most once: an element a worker is about to execute was not executed  *)
(* before and is not held by another worker, whatever Redis errors,        *)
(* interrupts, kills and restarts happened.  BLPop is the only thing that  *)
(* keeps several workers apart: the code has no lock, claim or lease.      *)
AtMostOnce ==
    \A w \in Workers :
       pc[w] = "process" =>
          /\ \A o \in outcomes : o.n # held[w].n
          /\ \A v \in Workers : Busy(v) /\ held[v].n = held[w].n => v = w

(* First in, first out: everything that was executed or is held was pushed *)
(* before everything that still waits (RPush at one end, BLPop at the      *)
(* other), so no task is overtaken on the list.                            *)
InOrder ==
    \A i \in 1..Len(tasks) :
       /\ \A j \in 1..Len(tasks) : i < j => tasks[i].n < tasks[j].n
       /\ \A o \in outcomes : o.n < tasks[i].n
       /\ \A w \in Workers : Busy(w) => held[w].n < tasks[i].n

(* A recorded status is the result of an execution of a task with that id. *)
StatusJustified ==
    \A id \in DOMAIN status :
       \E o \in outcomes : /\ o.task.id = id
                           /\ status[id] = "success" <=> o.err = "nil"

(* A caller that got an id and reads "success" under it can rely on the    *)
(* folder it asked for: an id names one request.                           *)
SuccessIsReal ==
    \A r \in Requests :
       /\ call[r] = "queued"
       /\ sent[r].id \in DOMAIN status
       /\ status[sent[r].id] = "success"
       => FolderOf(sent[r]) \in folders

(* A recorded status is never forgotten, and it is replaced only when two  *)
(* list elements with its id were executed, one with success and one       *)
(* without (a push that the client repeated): no fault makes one execution *)
(* leave first one status and then the other.                              *)
StatusStable ==
    [][\A id \in DOMAIN status :
          /\ id \in DOMAIN status'
          /\ status'[id] # status[id] =>
                \E o, q \in outcomes :
                   /\ o.n # q.n
                   /\ o.task.id = id /\ q.task.id = id
                   /\ o.err = "nil" /\ q.err # "nil"]_vars

(* Every task whose RPC was answered "queued" gets a status.               *)
AlwaysServed ==
    \A r \in Requests :
       call[r] = "queued" ~>
          (call[r] = "queued" /\ sent[r].id \in DOMAIN status)

(* The same while no worker is stopped: storage failures and elements that *)
(* cannot be decoded or executed keep no worker from serving the others.   *)
Served == [](stops = 0) => AlwaysServed

(* No task waits forever: it is taken off the list although workers are    *)
(* interrupted, killed and started again.                                  *)
Drains ==
    \A r \in Requests :
       call[r] = "queued" ~>
          (\A i \in 1..Len(tasks) : tasks[i].raw # sent[r])
=============================================================================
