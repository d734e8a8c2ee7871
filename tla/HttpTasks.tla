------------------------------ MODULE HttpTasks ------------------------------
(***************************************************************************)
(* The HTTP server of cmd/main.go: its handlers, the map of tasks they     *)
(* share under tasksMu, and main, which ends the process after a signal    *)
(* once the requests in progress are answered or ten seconds have passed,  *)
(* and at once when a listener fails.  The map is lost with the process.   *)
(***************************************************************************)
EXTENDS Naturals

CONSTANTS
    Clients,     \* the requests, one of each client
    ClockSteps,  \* the time that can pass between two readings of the clock
    MaxStarts,   \* bound: how often the process is started
    None         \* no value

ASSUME ClockAssumption == ClockSteps \subseteq Nat

ASSUME StartsAssumption == MaxStarts \in Nat \ {0}

ASSUME NoneAssumption == None \notin Clients

VARIABLES
    server,  \* "serving", "draining" or "down"
    starts,  \* how often the process was started
    clock,   \* the next reading of time.Now().UnixNano()
    tasks,   \* the map: from ids to tasks, each known by the request it is for
    writer,  \* the handler that holds tasksMu
    readers, \* the handlers that hold it for reading
    req,     \* the request of each client
    pc,      \* what its handler does next, or how the request ended
    id,      \* the id that the handler took from the clock
    got,     \* the task that a poll found
    told     \* history: the ids in the answers of this process, and to whom

lockVars == <<writer, readers>>
vars == <<server, starts, clock, tasks, lockVars, req, pc, id, got, told>>

Init ==
    /\ server = "serving"
    /\ starts = 1
    /\ clock = 0
    /\ tasks = << >>
    /\ writer = None
    /\ readers = {}
    /\ req = [c \in Clients |-> None]
    /\ pc = [c \in Clients |-> "idle"]
    /\ id = [c \in Clients |-> None]
    /\ got = [c \in Clients |-> None]
    /\ told = << >>

Goto(c, label) == pc' = [pc EXCEPT ![c] = label]

With(f, k, v) == [x \in DOMAIN f \cup {k} |-> IF x = k THEN v ELSE f[x]]

(* What is asked.  A body or a field can be malformed or missing; a poll   *)
(* can be for an id that was given out by this or by an earlier process,   *)
(* or by none, and the request notes what this one has said by now.        *)
Asked ==
    [op : {"createFolder", "complete"}, valid : BOOLEAN]
      \cup [op : {"initiate"}, valid : BOOLEAN]
      \cup [op : {"health"}]
      \cup {[op |-> "taskStatus", id |-> i,
             owner |-> IF i \in DOMAIN told THEN told[i] ELSE None] : i \in 0 .. clock}

(* A connection is accepted and its request routed.                        *)
Arrive(c) ==
    /\ server = "serving"
    /\ pc[c] = "idle"
    /\ \E r \in Asked :
          /\ req' = [req EXCEPT ![c] = r]
          /\ Goto(c, IF r.op = "health" THEN "ok"
                     ELSE IF r.op = "taskStatus" THEN "rlock" ELSE "decode")
    /\ UNCHANGED <<server, starts, clock, tasks, lockVars, id, got, told>>

(* The body has arrived, whenever the client chose to send the last of it. *)
Decode(c) ==
    /\ pc[c] = "decode"
    /\ IF ~req[c].valid
       THEN Goto(c, "badRequest") /\ UNCHANGED <<clock, id>>
       ELSE /\ id' = [id EXCEPT ![c] = clock]
            /\ \E d \in ClockSteps : clock' = clock + d
            /\ Goto(c, IF req[c].op = "initiate" THEN "ok" ELSE "lock")
    /\ UNCHANGED <<server, starts, tasks, lockVars, req, got, told>>

Lock(c) ==
    /\ pc[c] = "lock"
    /\ writer = None
    /\ readers = {}
    /\ writer' = c
    /\ Goto(c, "insert")
    /\ UNCHANGED <<server, starts, clock, tasks, readers, req, id, got, told>>

Forget(c) ==  \* mutant: the task is made and not put into the map
    /\ pc[c] = "insert"
    /\ Goto(c, "unlock")
    /\ UNCHANGED <<server, starts, clock, tasks, lockVars, req, id, got, told>>

Insert(c) ==
    /\ pc[c] = "insert"
    /\ tasks' = With(tasks, id[c], c)
    /\ Goto(c, "unlock")
    /\ UNCHANGED <<server, starts, clock, lockVars, req, id, got, told>>

Keep(c) ==  \* mutant: an early return without Unlock
    /\ pc[c] = "unlock"
    /\ Goto(c, "reply")
    /\ UNCHANGED <<server, starts, clock, tasks, lockVars, req, id, got, told>>

Unlock(c) ==
    /\ pc[c] = "unlock"
    /\ writer' = None
    /\ Goto(c, "reply")
    /\ UNCHANGED <<server, starts, clock, tasks, readers, req, id, got, told>>

(* The answer to a completed upload does not name its task.                *)
Reply(c) ==
    /\ pc[c] = "reply"
    /\ told' = IF req[c].op = "createFolder" THEN With(told, id[c], c) ELSE told
    /\ Goto(c, "ok")
    /\ UNCHANGED <<server, starts, clock, tasks, lockVars, req, id, got>>

ReadUnlocked(c) ==  \* mutant: the map is read without the lock
    /\ pc[c] = "rlock"
    /\ readers' = readers \cup {c}
    /\ Goto(c, "lookup")
    /\ UNCHANGED <<server, starts, clock, tasks, writer, req, id, got, told>>

RLock(c) ==
    /\ pc[c] = "rlock"
    /\ writer = None
    /\ readers' = readers \cup {c}
    /\ Goto(c, "lookup")
    /\ UNCHANGED <<server, starts, clock, tasks, writer, req, id, got, told>>

Lookup(c) ==
    /\ pc[c] = "lookup"
    /\ got' = [got EXCEPT ![c] = IF req[c].id \in DOMAIN tasks
                                 THEN tasks[req[c].id] ELSE None]
    /\ Goto(c, "runlock")
    /\ UNCHANGED <<server, starts, clock, tasks, lockVars, req, id, told>>

RUnlock(c) ==
    /\ pc[c] = "runlock"
    /\ readers' = readers \ {c}
    /\ Goto(c, IF got[c] = None THEN "notFound" ELSE "ok")
    /\ UNCHANGED <<server, starts, clock, tasks, writer, req, id, got, told>>

(* What a handler does by itself, once it has its request.                 *)
Handle(c) ==
    \/ Lock(c) \/ Insert(c) \/ Unlock(c) \/ Reply(c)
    \/ RLock(c) \/ Lookup(c) \/ RUnlock(c)

-----------------------------------------------------------------------------
(* main.                                                                   *)

Ended == {"idle", "ok", "badRequest", "notFound", "dropped"}

Active == {c \in Clients : pc[c] \notin Ended}

(* SIGINT or SIGTERM: Shutdown closes the listener.                        *)
Quit ==
    /\ server = "serving"
    /\ server' = "draining"
    /\ UNCHANGED <<starts, clock, tasks, lockVars, req, pc, id, got, told>>

(* The process ends, and with it its memory and its connections.           *)
End ==
    /\ server' = "down"
    /\ tasks' = << >>
    /\ writer' = None
    /\ readers' = {}
    /\ pc' = [c \in Clients |-> IF c \in Active THEN "dropped" ELSE pc[c]]
    /\ told' = << >>
    /\ UNCHANGED <<starts, clock, req, id, got>>

WhenIdle == server = "draining" /\ Active = {} /\ End  \* mutant: no deadline

(* Shutdown returns: no request is in progress, or ten seconds are over    *)
(* and main calls log.Fatalf.                                              *)
Shutdown == server = "draining" /\ End

(* A listener fails and its goroutine calls log.Fatalf, or the process is  *)
(* killed.                                                                 *)
Die == server # "down" /\ End

Start ==
    /\ server = "down"
    /\ starts < MaxStarts
    /\ server' = "serving"
    /\ starts' = starts + 1
    /\ UNCHANGED <<clock, tasks, lockVars, req, pc, id, got, told>>

Next ==
    \/ \E c \in Clients : Arrive(c) \/ Decode(c) \/ Handle(c)
    \/ Quit \/ Shutdown \/ Die \/ Start

(* The runtime runs every handler that can go on, and Shutdown returns at  *)
(* its deadline.  A client may never send the last of its body.            *)
Spec ==
    /\ Init
    /\ [][Next]_vars
    /\ \A c \in Clients : WF_vars(Handle(c))
    /\ WF_vars(Shutdown)

-----------------------------------------------------------------------------
(* Types, and the lock: its holders are the handlers between Lock and      *)
(* Unlock and between RLock and RUnlock.                                   *)
TypeOK ==
    /\ server \in {"serving", "draining", "down"}
    /\ starts \in 1 .. MaxStarts
    /\ clock \in Nat
    /\ tasks \in [DOMAIN tasks -> Clients]
    /\ told \in [DOMAIN told -> Clients]
    /\ pc \in [Clients -> Ended \cup {"decode", "lock", "insert", "unlock", "reply",
                                      "rlock", "lookup", "runlock"}]
    /\ \A c \in Clients : writer = c <=> pc[c] \in {"insert", "unlock"}
    /\ readers = {c \in Clients : pc[c] \in {"lookup", "runlock"}}

(* The map is never written while it is read or written, which the Go      *)
(* runtime answers by ending the process.                                  *)
MapGuarded ==
    \A c, d \in Clients :
       pc[c] = "insert" /\ pc[d] \in {"insert", "lookup"} => c = d

(* An id in an answer can be polled for as long as the process lives: the  *)
(* poll finds the task, and it is the task of the request that was told    *)
(* the id, whatever other requests are handled meanwhile.                  *)
PollFindsTask ==
    \A c \in Clients :
       /\ pc[c] \in {"ok", "notFound"}
       /\ req[c].op = "taskStatus"
       /\ req[c].owner # None
       => got[c] = req[c].owner

(* A handler that has its request answers it, or the process ends: no      *)
(* order of the lock's holders leaves it waiting.                          *)
Answered == \A c \in Clients : pc[c] \in {"lock", "rlock"} ~> pc[c] \in Ended

(* After a signal the process ends, although a client may hold its request *)
(* open for ever: this is what the deadline of Shutdown is for.            *)
Stops == server = "draining" ~> server = "down"
=============================================================================
