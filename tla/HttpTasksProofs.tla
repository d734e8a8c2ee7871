--------------------------- MODULE HttpTasksProofs ---------------------------
(***************************************************************************)
(* Theorems about HttpTasks, for any number of requests and of restarts.   *)
(***************************************************************************)
EXTENDS HttpTasks, TLAPS

(* The lock excludes readers while it is held for writing.                 *)
LockInv ==
    /\ TypeOK
    /\ writer \in Clients \cup {None}
    /\ writer # None => readers = {}

LEMMA LockInit == Init => LockInv
  BY StartsAssumption, NoneAssumption DEF Init, LockInv, TypeOK, Ended

LEMMA LockStep == LockInv /\ [Next]_vars => LockInv'
<1> SUFFICES ASSUME LockInv, [Next]_vars PROVE LockInv'
  OBVIOUS
<1> USE NoneAssumption DEF LockInv, TypeOK, Ended, Goto
<1>1. ASSUME NEW c \in Clients, Arrive(c) PROVE LockInv'
  BY <1>1 DEF Arrive, lockVars
<1>2. ASSUME NEW c \in Clients, Decode(c) PROVE LockInv'
  BY <1>2, ClockAssumption DEF Decode, lockVars
<1>3. ASSUME NEW c \in Clients, Lock(c) PROVE LockInv'
  BY <1>3 DEF Lock
<1>4. ASSUME NEW c \in Clients, Insert(c) PROVE LockInv'
  BY <1>4 DEF Insert, With, lockVars
<1>5. ASSUME NEW c \in Clients, Unlock(c) PROVE LockInv'
  BY <1>5 DEF Unlock
<1>6. ASSUME NEW c \in Clients, Reply(c) PROVE LockInv'
  BY <1>6 DEF Reply, With, lockVars
<1>7. ASSUME NEW c \in Clients, RLock(c) PROVE LockInv'
  BY <1>7 DEF RLock
<1>8. ASSUME NEW c \in Clients, Lookup(c) PROVE LockInv'
  BY <1>8 DEF Lookup, lockVars
<1>9. ASSUME NEW c \in Clients, RUnlock(c) PROVE LockInv'
  BY <1>9 DEF RUnlock
<1>10. CASE Quit
  BY <1>10 DEF Quit, lockVars
<1>11. ASSUME End PROVE LockInv'
  BY <1>11 DEF End, Active
<1>12. CASE Start
  BY <1>12, StartsAssumption DEF Start, lockVars
<1>13. CASE UNCHANGED vars
  BY <1>13 DEF vars, lockVars
<1> QED
  BY <1>1, <1>2, <1>3, <1>4, <1>5, <1>6, <1>7, <1>8, <1>9, <1>10, <1>11, <1>12, <1>13
  DEF Next, Handle, Shutdown, Die

(* The holders of the lock are the handlers between Lock and Unlock and    *)
(* between RLock and RUnlock, whatever ends and starts again.              *)
THEOREM TypeCorrect == Spec => []TypeOK
<1>1. LockInv => TypeOK
  BY DEF LockInv
<1> QED
  BY <1>1, LockInit, LockStep, PTL DEF Spec

(* The map is never written while it is read or written: createFolder and  *)
(* complete insert under the lock, taskStatus reads under it.              *)
THEOREM MapIsGuarded == Spec => []MapGuarded
<1>1. LockInv => MapGuarded
  BY NoneAssumption DEF LockInv, TypeOK, MapGuarded
<1> QED
  BY <1>1, LockInit, LockStep, PTL DEF Spec

-----------------------------------------------------------------------------
(* Polls.  Ids are taken from a clock that advances, so an id that a       *)
(* handler has and is about to insert is in no other handler's hands and   *)
(* not in the map.                                                         *)

HasId == {"lock", "insert", "unlock", "reply"}

IdInv ==
    /\ DOMAIN id = Clients
    /\ \A c \in Clients : pc[c] \in HasId => id[c] \in Nat /\ id[c] < clock
    /\ \A c, d \in Clients :
          pc[c] \in HasId /\ pc[d] \in HasId /\ id[c] = id[d] => c = d
    /\ \A i \in DOMAIN tasks : i \in Nat /\ i < clock
    /\ \A c \in Clients : pc[c] \in {"lock", "insert"} => id[c] \notin DOMAIN tasks
    /\ \A c \in Clients : pc[c] \in {"unlock", "reply"} =>
                            id[c] \in DOMAIN tasks /\ tasks[id[c]] = c

(* What was told is in the map, and a poll for it finds it there.          *)
ToldInv ==
    /\ DOMAIN req = Clients
    /\ DOMAIN got = Clients
    /\ \A i \in DOMAIN told : i \in DOMAIN tasks /\ tasks[i] = told[i]
    /\ \A c \in Clients : pc[c] \in {"decode"} \cup HasId => req[c].op # "taskStatus"
    /\ \A c \in Clients : pc[c] \in {"rlock", "lookup", "runlock"} =>
                            req[c].op = "taskStatus"
    /\ \A c \in Clients :
          pc[c] \in {"rlock", "lookup"} /\ req[c].owner # None =>
             req[c].id \in DOMAIN tasks /\ tasks[req[c].id] = req[c].owner
    /\ \A c \in Clients :
          pc[c] = "runlock" /\ req[c].owner # None => got[c] = req[c].owner

PollInv == LockInv /\ IdInv /\ ToldInv /\ PollFindsTask

LEMMA PollInit == Init => PollInv
  BY LockInit DEF Init, PollInv, IdInv, ToldInv, PollFindsTask, HasId

LEMMA IdStep ==
    ASSUME LockInv, IdInv, 0 \notin ClockSteps, [Next]_vars
    PROVE  IdInv'
<1> USE DEF LockInv, TypeOK, IdInv, HasId, Goto
<1>1. ASSUME NEW c \in Clients, Arrive(c) PROVE IdInv'
  BY <1>1 DEF Arrive, lockVars
<1>2. ASSUME NEW c \in Clients, Decode(c) PROVE IdInv'
  BY <1>2, ClockAssumption DEF Decode, lockVars
<1>3. ASSUME NEW c \in Clients, Lock(c) PROVE IdInv'
  BY <1>3 DEF Lock
<1>4. ASSUME NEW c \in Clients, Insert(c) PROVE IdInv'
  BY <1>4 DEF Insert, With, lockVars
<1>5. ASSUME NEW c \in Clients, Unlock(c) PROVE IdInv'
  BY <1>5 DEF Unlock
<1>6. ASSUME NEW c \in Clients, Reply(c) PROVE IdInv'
  BY <1>6 DEF Reply, lockVars
<1>7. ASSUME NEW c \in Clients, RLock(c) PROVE IdInv'
  BY <1>7 DEF RLock
<1>8. ASSUME NEW c \in Clients, Lookup(c) PROVE IdInv'
  BY <1>8 DEF Lookup, lockVars
<1>9. ASSUME NEW c \in Clients, RUnlock(c) PROVE IdInv'
  BY <1>9 DEF RUnlock
<1>10. CASE Quit
  BY <1>10 DEF Quit, lockVars
<1>11. ASSUME End PROVE IdInv'
  BY <1>11 DEF End, Active, Ended
<1>12. CASE Start
  BY <1>12 DEF Start, lockVars
<1>13. CASE UNCHANGED vars
  BY <1>13 DEF vars, lockVars
<1> QED
  BY <1>1, <1>2, <1>3, <1>4, <1>5, <1>6, <1>7, <1>8, <1>9, <1>10, <1>11, <1>12, <1>13
  DEF Next, Handle, Shutdown, Die

LEMMA ToldStep ==
    ASSUME PollInv, [Next]_vars
    PROVE  ToldInv' /\ PollFindsTask'
<1> USE DEF PollInv, LockInv, TypeOK, ToldInv, HasId, PollFindsTask, Goto
<1>1. ASSUME NEW c \in Clients, Arrive(c) PROVE ToldInv' /\ PollFindsTask'
  <2> PICK r \in Asked : /\ req' = [req EXCEPT ![c] = r]
                         /\ Goto(c, IF r.op = "health" THEN "ok"
                                    ELSE IF r.op = "taskStatus" THEN "rlock" ELSE "decode")
    BY <1>1 DEF Arrive
  <2>1. r.op = "taskStatus" /\ r.owner # None =>
           r.id \in DOMAIN told /\ r.owner = told[r.id]
    BY DEF Asked
  <2> QED
    BY <1>1, <2>1 DEF Arrive, lockVars
<1>2. ASSUME NEW c \in Clients, Decode(c) PROVE ToldInv' /\ PollFindsTask'
  BY <1>2 DEF Decode, lockVars
<1>3. ASSUME NEW c \in Clients, Lock(c) PROVE ToldInv' /\ PollFindsTask'
  BY <1>3 DEF Lock
<1>4. ASSUME NEW c \in Clients, Insert(c) PROVE ToldInv' /\ PollFindsTask'
  BY <1>4 DEF Insert, With, lockVars, IdInv
<1>5. ASSUME NEW c \in Clients, Unlock(c) PROVE ToldInv' /\ PollFindsTask'
  BY <1>5 DEF Unlock
<1>6. ASSUME NEW c \in Clients, Reply(c) PROVE ToldInv' /\ PollFindsTask'
  BY <1>6 DEF Reply, With, lockVars, IdInv
<1>7. ASSUME NEW c \in Clients, RLock(c) PROVE ToldInv' /\ PollFindsTask'
  BY <1>7 DEF RLock
<1>8. ASSUME NEW c \in Clients, Lookup(c) PROVE ToldInv' /\ PollFindsTask'
  BY <1>8 DEF Lookup, lockVars
<1>9. ASSUME NEW c \in Clients, RUnlock(c) PROVE ToldInv' /\ PollFindsTask'
  BY <1>9 DEF RUnlock
<1>10. CASE Quit
  BY <1>10 DEF Quit, lockVars
<1>11. ASSUME End PROVE ToldInv' /\ PollFindsTask'
  BY <1>11 DEF End, Active, Ended
<1>12. CASE Start
  BY <1>12 DEF Start, lockVars
<1>13. CASE UNCHANGED vars
  BY <1>13 DEF vars, lockVars
<1> QED
  BY <1>1, <1>2, <1>3, <1>4, <1>5, <1>6, <1>7, <1>8, <1>9, <1>10, <1>11, <1>12, <1>13
  DEF Next, Handle, Shutdown, Die

(* If the clock advances between any two readings, an id in an answer is   *)
(* found by every poll of the same process, with the task it was given for. *)
THEOREM PollsFindTasks ==
    ASSUME 0 \notin ClockSteps
    PROVE  Spec => []PollFindsTask
<1>1. PollInv /\ [Next]_vars => PollInv'
  BY LockStep, IdStep, ToldStep DEF PollInv
<1>2. PollInv => PollFindsTask
  BY DEF PollInv
<1> QED
  BY <1>1, <1>2, PollInit, PTL DEF Spec
=============================================================================
