------------------------------- MODULE Engine -------------------------------
(***************************************************************************)
(* Workers that move files on the local backend: the task pipeline of      *)
(* TaskQueue, with the call of Storage.Move taken apart into the system    *)
(* calls of LocalStorage.  A worker that is stopped stops between any two  *)
(* of them.  The move of the n-th list element is the call Op(n).          *)
(***************************************************************************)
EXTENDS LocalStorage

CONSTANTS
    Workers,      \* the worker processes
    Posted,       \* the list elements that are pushed, each once
    Garbage,      \* a list element that is not valid JSON
    WorkerFaults, \* which faults of TaskQueue happen
    MaxStops      \* bound: how often worker processes are stopped, in all

VARIABLES
    tasks, pushes, posted, status,               \* Redis, as in TaskQueue
    at, held, result, cancelled, stops,          \* the workers; at is their pc
    folders, outcomes

Queue ==
    INSTANCE TaskQueue WITH
        Requests <- {}, ParentPaths <- {}, FolderNames <- {}, ClockSteps <- {},
        Faults <- WorkerFaults, InitialObjects <- DOMAIN InitialFiles,
        clock <- 0, call <- <<>>, sent <- <<>>, pc <- at,
        objects <- {p \in Paths : Final(p) \in DOMAIN names}

queueVars ==
    <<tasks, pushes, posted, status, at, held, result, cancelled, stops, folders, outcomes>>
engineVars == <<vars, queueVars>>

Op(n) == <<"task", n>>

Task(w) == Queue!Decode(held[w].raw)

EngineInit == Init /\ Queue!Init

-----------------------------------------------------------------------------
(* Whatever is not a move is as in TaskQueue.                              *)
Aside(w) ==
    \/ Queue!CheckContext(w) \/ Queue!Pop(w) \/ Queue!PopFails(w) \/ Queue!Wake(w)
    \/ Queue!ProcessCreateFolder(w) \/ Queue!ProcessRejects(w) \/ Queue!Complete(w)

Moves(w) == at[w] = "process" /\ Queue!IsMove(Task(w))

(* Processor.Process calls Storage.Move with the parameters of the task.   *)
CallMove(w) ==
    LET o == Op(held[w].n) IN
    /\ Moves(w)
    /\ Begin(o)
    /\ req'[o].src = Task(w).params.src
    /\ req'[o].dst = Task(w).params.dst
    /\ UNCHANGED queueVars

SystemCall(w) ==
    LET o == Op(held[w].n) IN
    /\ Moves(w)
    /\ Move(o) \/ Fails(o)
    /\ UNCHANGED queueVars

IgnoreError(w) ==  \* mutant: the result of Move is not returned
    /\ Moves(w)
    /\ pc[Op(held[w].n)] \in {"ok", "error"}
    /\ Queue!Finish(w, "nil")
    /\ UNCHANGED <<vars, folders>>

MoveReturns(w) ==
    LET o == Op(held[w].n) IN
    /\ Moves(w)
    /\ pc[o] \in {"ok", "error"}
    /\ Queue!Finish(w, IF pc[o] = "ok" THEN "nil" ELSE "error")
    /\ UNCHANGED <<vars, folders>>

(* The process ends, and with it a move it has begun.                      *)
Stop(w) ==
    LET begun == {o \in {Op(held[w].n)} : pc[o] \notin Done} IN
    /\ UNCHANGED <<names, data, req, fd, off, reader>>
    /\ pc' = IF at[w] = "process"
             THEN [o \in Ops |-> IF o \in begun THEN "crashed" ELSE pc[o]]
             ELSE pc
    /\ Queue!MainReturns(w) \/ Queue!Kill(w)

Loop(w) ==
    \/ UNCHANGED vars /\ Aside(w)
    \/ CallMove(w) \/ SystemCall(w) \/ MoveReturns(w)

Signal(w) == UNCHANGED vars /\ Queue!Interrupt(w)

Restart(w) == UNCHANGED vars /\ Queue!Start(w)

-----------------------------------------------------------------------------
(* A move whose task is recorded as a success is complete: the destination *)
(* has the whole content that the source had at the start, and keeps it    *)
(* whatever other moves to it fail or are cut short.  For destinations     *)
(* that have one source and are none, and one worker.                      *)
SuccessIsWhole ==
    \A x \in outcomes :
       /\ req[Op(x.n)] # None
       /\ x.task.id \in DOMAIN status /\ status[x.task.id] = "success"
       => LET call == req[Op(x.n)] IN
          /\ Final(call.dst) \in DOMAIN names
          /\ data[names[Final(call.dst)]] = Content(InitialFiles[call.src])

(* Every task gets a status unless a worker is stopped: each branch of     *)
(* Move returns, and the loop goes on after it.                            *)
MovesServed ==
    [](stops = 0) =>
       \A raw \in Posted \ {Garbage} : raw \in posted ~> raw.id \in DOMAIN status
=============================================================================
