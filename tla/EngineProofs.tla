---------------------------- MODULE EngineProofs ----------------------------
(***************************************************************************)
(* Proofs about one worker of either program that moves files: for any     *)
(* elements of the list, any devices and faults, and a worker that is      *)
(* killed and started again any number of times.                           *)
(***************************************************************************)
EXTENDS LocalStorageProofs, LegacyWorker

(* The provers that a leaf is given to, in turn, unless it names its own.  *)
USE SMT, Zenon, SMTT(10), SMTT(20)

(* One worker, and no two elements with the same id.                       *)
OneWorker ==
    /\ Apart
    /\ \A v, w \in Workers : v = w
    /\ \A raw, other \in Posted :
          Queue!Decode(raw).id = Queue!Decode(other).id => raw = other

IdOf(raw) == Queue!Decode(raw).id

Listed(q) == {q[i] : i \in 1 .. Len(q)}
Once(q) == \A i, j \in 1 .. Len(q) : q[i] = q[j] => i = j

Occupied(w) == at[w] \in {"process", "complete"}

(* The numbers and the elements that are about are ones that were pushed.  *)
ListInv ==
    /\ program \in Programs
    /\ posted \subseteq Posted \cap Sent(program)
    /\ pushes \in Nat /\ \A n \in 1 .. pushes : Op(n) \in Ops
    /\ tasks \in Seq([n : Nat, raw : Posted]) /\ Once(tasks)
    /\ DOMAIN at = Workers /\ DOMAIN held = Workers /\ DOMAIN result = Workers
    /\ \A e \in Listed(tasks) : e.n \in 1 .. pushes /\ e.raw \in posted
    /\ \A w \in Workers : Occupied(w) => held[w].n \in 1 .. pushes /\ held[w].raw \in posted
    /\ \A x \in outcomes : x.n \in 1 .. pushes /\ \E raw \in posted : x.task.id = IdOf(raw)

(* What waits on the list waits there once, was not executed, is not held  *)
(* and its call has not begun.                                             *)
WaitInv ==
    \A e \in Listed(tasks) :
       /\ \A f \in Listed(tasks) : e.n = f.n \/ IdOf(e.raw) = IdOf(f.raw) => e = f
       /\ \A w \in Workers : Occupied(w) => held[w].n # e.n /\ IdOf(held[w].raw) # IdOf(e.raw)
       /\ \A x \in outcomes : x.n # e.n /\ x.task.id # IdOf(e.raw)
       /\ pc[Op(e.n)] = "idle"

(* The tasks for which the worker's program makes a move.                  *)
Mover(w) == IF program = "current" THEN Queue!IsMove(Task(w)) ELSE IsUpload(Task(w))

(* A call is under way only while the worker executes its element.         *)
WorkInv ==
    /\ \A w \in Workers :
          at[w] = "process" =>
             /\ \A x \in outcomes : x.n # held[w].n /\ x.task.id # IdOf(held[w].raw)
             /\ pc[Op(held[w].n)] # "idle" => Mover(w)
    /\ \A w \in Workers :
          at[w] = "complete" /\ result[w] = "success" =>
             \E x \in outcomes : x.task.id = IdOf(held[w].raw) /\ x.err = "nil"
    /\ \A o \in Ops : pc[o] \notin Done =>
          \E w \in Workers : at[w] = "process" /\ o = Op(held[w].n)

(* An id has one outcome, which is that of its move, and its status.       *)
DoneInv ==
    /\ \A x, y \in outcomes : x.task.id = y.task.id => x = y
    /\ \A x \in outcomes : x.err = "nil" /\ pc[Op(x.n)] # "idle" => pc[Op(x.n)] = "ok"
    /\ \A id \in DOMAIN status :
          status[id] = "success" =>
             \E x \in outcomes : x.task.id = id /\ x.err = "nil"

(* The calls that were begun are those of elements that were pushed.       *)
BegunInv == \A o \in Ops : pc[o] # "idle" => \E n \in 1 .. pushes : o = Op(n)

EngineInv == AloneInv /\ ListInv /\ WaitInv /\ WorkInv /\ DoneInv /\ BegunInv

-----------------------------------------------------------------------------
(* The list.                                                               *)

LEMMA ListPop ==
    ASSUME NEW S, NEW q \in Seq(S), q # << >>, Once(q)
    PROVE  /\ Head(q) \in Listed(q) /\ Tail(q) \in Seq(S) /\ Once(Tail(q))
           /\ Listed(Tail(q)) = Listed(q) \ {Head(q)}
<1>1. /\ Head(q) = q[1] /\ Tail(q) \in Seq(S) /\ Len(q) \in Nat \ {0}
      /\ Len(Tail(q)) = Len(q) - 1
      /\ \A i \in 1 .. Len(Tail(q)) : Tail(q)[i] = q[i + 1]
  <2>1. /\ Tail(q) \in Seq(S) /\ Len(q) \in Nat \ {0} /\ Len(Tail(q)) = Len(q) - 1
        /\ \A i \in 1 .. Len(Tail(q)) : Tail(q)[i] = q[i + 1]
    OBVIOUS
  <2>2. Head(q) = q[1]
    OBVIOUS
  <2> QED
    BY <2>1, <2>2
<1>2. PICK n \in Nat : Len(q) = n + 1 /\ Len(Tail(q)) = n
  <2>1. Len(q) - 1 \in Nat /\ Len(q) = (Len(q) - 1) + 1
    BY <1>1
  <2> QED
    BY <1>1, <2>1, Zenon
<1>3. \A i \in 1 .. n : i + 1 \in 1 .. n + 1 /\ i + 1 # 1
  BY <1>2
<1>4. Once(Tail(q))
  <2> SUFFICES ASSUME NEW i \in 1 .. n, NEW j \in 1 .. n, Tail(q)[i] = Tail(q)[j]
               PROVE  i = j
    BY <1>2 DEF Once
  <2>1. q[i + 1] = q[j + 1]
    BY <1>1, <1>2
  <2>2. i + 1 = j + 1
    BY <1>2, <1>3, <2>1 DEF Once
  <2> QED
    BY <2>2
<1>5. ASSUME NEW e \in Listed(Tail(q)) PROVE e \in Listed(q) \ {Head(q)}
  <2>1. PICK i \in 1 .. n : e = q[i + 1]
    BY <1>1, <1>2, <1>5 DEF Listed
  <2>2. i + 1 \in 1 .. Len(q) /\ 1 \in 1 .. Len(q) /\ i + 1 # 1
    BY <1>2, <1>3
  <2>3. e # q[1]
    BY <2>1, <2>2 DEF Once
  <2> QED
    BY <1>1, <2>1, <2>2, <2>3 DEF Listed
<1>6. ASSUME NEW e \in Listed(q), e # Head(q) PROVE e \in Listed(Tail(q))
  <2>1. PICK i \in 1 .. n + 1 : e = q[i]
    BY <1>2, <1>6 DEF Listed
  <2>2. PICK j \in 1 .. n : i = j + 1
    <3>1. i # 1
      BY <1>1, <1>6, <2>1
    <3>2. i - 1 \in 1 .. n /\ i = (i - 1) + 1
      BY <3>1
    <3> QED
      BY <3>2
  <2>3. e = Tail(q)[j]
    BY <1>1, <1>2, <2>1, <2>2
  <2> QED
    BY <1>2, <2>3 DEF Listed
<1>7. Head(q) \in Listed(q)
  BY <1>1 DEF Listed
<1> QED
  BY <1>1, <1>4, <1>5, <1>6, <1>7

LEMMA ListPush ==
    ASSUME NEW S, NEW q \in Seq(S), Once(q), NEW e \in S, e \notin Listed(q)
    PROVE  /\ Append(q, e) \in Seq(S) /\ Once(Append(q, e))
           /\ Listed(Append(q, e)) = Listed(q) \cup {e}
<1>1. /\ Append(q, e) \in Seq(S) /\ Len(q) \in Nat /\ Len(Append(q, e)) = Len(q) + 1
      /\ \A i \in 1 .. Len(q) : Append(q, e)[i] = q[i]
      /\ Append(q, e)[Len(q) + 1] = e
  OBVIOUS
<1>2. PICK n, p : n \in Nat /\ n = Len(q) /\ p = Append(q, e)
  BY <1>1, Zenon
<1>3. \A i \in 1 .. n + 1 : i \in 1 .. n \/ i = n + 1
  BY <1>2
<1>4. Listed(p) = Listed(q) \cup {e}
  <2>1. ASSUME NEW x \in Listed(p) PROVE x \in Listed(q) \cup {e}
    BY <1>1, <1>2, <1>3, <2>1 DEF Listed
  <2>2. ASSUME NEW x \in Listed(q) PROVE x \in Listed(p)
    <3>1. PICK i \in 1 .. n : x = q[i]
      BY <1>2, <2>2 DEF Listed
    <3>2. i \in 1 .. n + 1 /\ x = p[i]
      BY <1>1, <1>2, <3>1
    <3> QED
      BY <1>1, <1>2, <3>2 DEF Listed
  <2>3. e \in Listed(p)
    <3>1. n + 1 \in 1 .. Len(p) /\ e = p[n + 1]
      BY <1>1, <1>2
    <3> QED
      BY <3>1 DEF Listed
  <2> QED
    BY <2>1, <2>2, <2>3
<1>5. Once(p)
  <2> SUFFICES ASSUME NEW i \in 1 .. n + 1, NEW j \in 1 .. n + 1, p[i] = p[j]
               PROVE  i = j
    BY <1>1, <1>2 DEF Once
  <2>1. \A k \in 1 .. n : p[k] = q[k] /\ q[k] # e
    BY <1>1, <1>2 DEF Listed
  <2>2. p[n + 1] = e
    BY <1>1, <1>2
  <2>3. CASE i = n + 1 \/ j = n + 1
    BY <1>3, <2>1, <2>2, <2>3
  <2>4. CASE i # n + 1 /\ j # n + 1
    BY <1>2, <1>3, <2>1, <2>4 DEF Once
  <2> QED
    BY <2>3, <2>4
<1> QED
  BY <1>1, <1>2, <1>4, <1>5

LEMMA OpDiffers == \A m, n : Op(m) = Op(n) => m = n
  BY DEF Op

LEMMA AloneSame ==
    ASSUME AloneInv, UNCHANGED vars
    PROVE  AloneInv'
<1>1. LsInv'
  BY LsStep DEF AloneInv
<1>2. UNCHANGED <<names, data, req, pc, fd, off>>
  BY DEF vars, callVars
<1>3. PlaceOK'
  BY <1>2 DEF AloneInv, PlaceOK
<1>4. MovedOrThere'
  BY <1>2 DEF AloneInv, MovedOrThere, Holds
<1>5. ASSUME NEW o \in Ops PROVE MoveOK(o)'
  BY <1>2 DEF AloneInv, MoveOK, Holds
<1> QED
  BY <1>1, <1>3, <1>4, <1>5, Zenon DEF AloneInv

-----------------------------------------------------------------------------
(* The steps of the worker and of those who push, each with the files as   *)
(* they are or with one step of the move.                                  *)

queueKept == <<vars, program, pushes, posted>>

(* The worker goes on without an element; one may get lost.                *)
LEMMA StayStep ==
    ASSUME OneWorker, EngineInv, UNCHANGED queueKept,
           UNCHANGED <<status, outcomes, held, result>>,
           NEW w \in Workers, ~Occupied(w),
           NEW label \in {"loop", "pop", "sleep", "exited"}, at' = [at EXCEPT ![w] = label],
           tasks' = tasks \/ (tasks # << >> /\ tasks' = Tail(tasks))
    PROVE  EngineInv'
<1>a. AloneInv /\ ListInv /\ WaitInv /\ WorkInv /\ DoneInv /\ BegunInv
  BY DEF EngineInv
<1>b. UNCHANGED <<vars, program, pushes, posted>> /\ UNCHANGED <<pc, req>>
  BY DEF queueKept, vars, callVars
<1>1. /\ tasks' \in Seq([n : Nat, raw : Posted]) /\ Once(tasks')
      /\ Listed(tasks') \subseteq Listed(tasks)
  <2>1. tasks \in Seq([n : Nat, raw : Posted]) /\ Once(tasks)
    BY <1>a DEF ListInv
  <2>2. CASE tasks # << >> /\ tasks' = Tail(tasks)
    <3>1. /\ Tail(tasks) \in Seq([n : Nat, raw : Posted]) /\ Once(Tail(tasks))
          /\ Listed(Tail(tasks)) = Listed(tasks) \ {Head(tasks)}
      BY <2>1, <2>2, ListPop
    <3> QED
      BY <2>2, <3>1
  <2> QED
    BY <2>1, <2>2
<1>2. /\ DOMAIN at' = Workers
      /\ \A v \in Workers : (Occupied(v)' <=> Occupied(v)) /\ (Occupied(v) => at'[v] = at[v])
  BY <1>a DEF ListInv, Occupied
<1>3. ListInv'
  BY <1>a, <1>b, <1>1, <1>2, Zenon DEF ListInv
<1>4. WaitInv'
  BY <1>a, <1>b, <1>1, <1>2 DEF WaitInv
<1>5. WorkInv'
  BY <1>a, <1>b, <1>2 DEF WorkInv, Occupied, Mover, Task
<1>6. DoneInv'
  BY <1>a, <1>b DEF DoneInv
<1>10. BegunInv'
  BY <1>a, <1>b DEF BegunInv
<1> QED
  BY <1>a, <1>b, <1>3, <1>4, <1>5, <1>6, <1>10, AloneSame, Zenon DEF EngineInv

(* No call is under way when the worker does not execute an element.       *)
LEMMA IdleWorker ==
    ASSUME OneWorker, WorkInv, NEW w \in Workers, at[w] # "process", NEW o \in Ops
    PROVE  pc[o] \in Done
  BY DEF WorkInv, OneWorker

LEMMA TakeStep ==
    ASSUME OneWorker, EngineInv, UNCHANGED queueKept, UNCHANGED <<status, outcomes, result>>,
           NEW w \in Workers, at[w] = "pop", at' = [at EXCEPT ![w] = "process"],
           tasks # << >>, tasks' = Tail(tasks), held' = [held EXCEPT ![w] = Head(tasks)]
    PROVE  EngineInv'
<1>a. AloneInv /\ ListInv /\ WaitInv /\ WorkInv /\ DoneInv /\ BegunInv
  BY DEF EngineInv
<1>b. UNCHANGED <<vars, program, pushes, posted>> /\ UNCHANGED <<pc, req>>
  BY DEF queueKept, vars, callVars
<1>1. PICK e : /\ e = Head(tasks) /\ e \in Listed(tasks)
               /\ tasks' \in Seq([n : Nat, raw : Posted]) /\ Once(tasks')
               /\ Listed(tasks') = Listed(tasks) \ {e}
  BY <1>a, ListPop DEF ListInv
<1>2. \A v \in Workers : v = w
  BY DEF OneWorker
<1>3. /\ DOMAIN at' = Workers /\ DOMAIN held' = Workers
      /\ at'[w] = "process" /\ held'[w] = e
  BY <1>a, <1>1, Zenon DEF ListInv
<1>4. e.n \in 1 .. pushes /\ e.raw \in posted
  BY <1>a, <1>1, Zenon DEF ListInv
<1>5. /\ \A x \in outcomes : x.n # e.n /\ x.task.id # IdOf(e.raw)
      /\ pc[Op(e.n)] = "idle"
      /\ \A f \in Listed(tasks') : e.n # f.n /\ IdOf(e.raw) # IdOf(f.raw)
  BY <1>a, <1>1, Zenon DEF WaitInv
<1>6. ListInv'
  BY <1>a, <1>b, <1>1, <1>2, <1>3, <1>4, Zenon DEF ListInv
<1>7. WaitInv'
  BY <1>a, <1>b, <1>1, <1>2, <1>3, <1>5, Zenon DEF WaitInv
<1>8. WorkInv'
  <2>1. \A o \in Ops : pc[o] \in Done
    BY <1>a, IdleWorker, Zenon
  <2> QED
    BY <1>b, <1>2, <1>3, <1>5, <2>1, Zenon DEF WorkInv
<1>9. DoneInv'
  BY <1>a, <1>b DEF DoneInv
<1>10. BegunInv'
  BY <1>a, <1>b, Zenon DEF BegunInv
<1> QED
  BY <1>a, <1>b, <1>6, <1>7, <1>8, <1>9, <1>10, AloneSame, Zenon DEF EngineInv

(* Process returns.  It returns no error only if it has made no move, or   *)
(* one that returned none.                                                 *)
LEMMA EndStep ==
    ASSUME OneWorker, EngineInv, UNCHANGED queueKept, UNCHANGED <<tasks, status, held>>,
           NEW w \in Workers, at[w] = "process", at' = [at EXCEPT ![w] = "complete"],
           NEW err, pc[Op(held[w].n)] \in Done,
           err = "nil" => pc[Op(held[w].n)] \in {"idle", "ok"},
           NEW word, word = "success" => err = "nil", result' = [result EXCEPT ![w] = word],
           outcomes' = outcomes \cup {[n |-> held[w].n, task |-> Task(w), err |-> err]}
    PROVE  EngineInv'
<1>a. AloneInv /\ ListInv /\ WaitInv /\ WorkInv /\ DoneInv /\ BegunInv
  BY DEF EngineInv
<1>b. UNCHANGED <<vars, program, pushes, posted>> /\ UNCHANGED <<pc, req>>
  BY DEF queueKept, vars, callVars
<1> DEFINE new == [n |-> held[w].n, task |-> Task(w), err |-> err]
<1>1. /\ outcomes' = outcomes \cup {new} /\ new.n = held[w].n
      /\ new.task.id = IdOf(held[w].raw) /\ new.err = err
  BY DEF Task, IdOf
<1> HIDE DEF new
<1>2. \A v \in Workers : v = w
  BY Zenon DEF OneWorker
<1>3. /\ DOMAIN at' = Workers /\ DOMAIN result' = Workers
      /\ at'[w] = "complete" /\ result'[w] = word
  BY <1>a, Zenon DEF ListInv
<1>4. held[w].n \in 1 .. pushes /\ held[w].raw \in posted /\ Occupied(w) /\ Occupied(w)'
  BY <1>a, <1>3, Zenon DEF ListInv, Occupied
<1>5. \A x \in outcomes : x.n # new.n /\ x.task.id # new.task.id
  BY <1>a, <1>1, Zenon DEF WorkInv
<1>6. ListInv'
  BY <1>a, <1>b, <1>1, <1>2, <1>3, <1>4, Zenon DEF ListInv
<1>7. WaitInv'
  <2>1. Listed(tasks)' = Listed(tasks)
    BY DEF Listed
  <2>2. \A e \in Listed(tasks) : new.n # e.n /\ new.task.id # IdOf(e.raw)
    <3>1. \A e \in Listed(tasks) : held[w].n # e.n /\ IdOf(held[w].raw) # IdOf(e.raw)
      BY <1>a, <1>4 DEF WaitInv
    <3> QED
      BY <1>1, <3>1
  <2>3. \A e \in Listed(tasks), x \in outcomes' : x.n # e.n /\ x.task.id # IdOf(e.raw)
    BY <1>a, <1>1, <2>2, Zenon DEF WaitInv
  <2>4. \A e \in Listed(tasks), v \in Workers :
           held'[v].n # e.n /\ IdOf(held'[v].raw) # IdOf(e.raw)
    BY <1>1, <1>2, <2>2, Zenon
  <2> QED
    BY <1>a, <1>b, <2>1, <2>3, <2>4, Zenon DEF WaitInv
<1>8. WorkInv'
  <2>1. \A o \in Ops : pc[o] \in Done
    BY <1>a, <1>2, Zenon DEF WorkInv
  <2> QED
    BY <1>b, <1>1, <1>2, <1>3, <2>1, Zenon DEF WorkInv
<1>9. DoneInv'
  <2>1. \A x, y \in outcomes' : x.task.id = y.task.id => x = y
    BY <1>a, <1>1, <1>5, Zenon DEF DoneInv
  <2>2. \A x \in outcomes' : x.err = "nil" /\ pc'[Op(x.n)] # "idle" => pc'[Op(x.n)] = "ok"
    BY <1>a, <1>b, <1>1, Zenon DEF DoneInv
  <2>3. \A id \in DOMAIN status :
           status[id] = "success" => \E x \in outcomes' : x.task.id = id /\ x.err = "nil"
    BY <1>a, <1>1, Zenon DEF DoneInv
  <2> QED
    BY <2>1, <2>2, <2>3, Zenon DEF DoneInv
<1>10. BegunInv'
  BY <1>a, <1>b, Zenon DEF BegunInv
<1> QED
  BY <1>a, <1>b, <1>6, <1>7, <1>8, <1>9, <1>10, AloneSame, Zenon DEF EngineInv

(* Complete records the result, or fails to.                               *)
LEMMA RecordStep ==
    ASSUME OneWorker, EngineInv, UNCHANGED queueKept, UNCHANGED <<tasks, outcomes>>,
           NEW w \in Workers, at[w] = "complete", at' = [at EXCEPT ![w] = "loop"],
           held' = [held EXCEPT ![w] = None], result' = [result EXCEPT ![w] = None],
           \/ status' = status
           \/ status' = Queue!RedisSet(status, IdOf(held[w].raw), result[w])
    PROVE  EngineInv'
<1>a. AloneInv /\ ListInv /\ WaitInv /\ WorkInv /\ DoneInv /\ BegunInv
  BY DEF EngineInv
<1>b. UNCHANGED <<vars, program, pushes, posted>> /\ UNCHANGED <<pc, req>>
  BY DEF queueKept, vars, callVars
<1>1. \A v \in Workers : v = w
  BY Zenon DEF OneWorker
<1>2. /\ DOMAIN at' = Workers /\ DOMAIN held' = Workers /\ DOMAIN result' = Workers
      /\ at'[w] = "loop" /\ ~Occupied(w)'
  BY <1>a, Zenon DEF ListInv, Occupied
<1>3. ListInv'
  BY <1>a, <1>b, <1>1, <1>2, Zenon DEF ListInv
<1>4. WaitInv'
  BY <1>a, <1>b, <1>1, <1>2, Zenon DEF WaitInv
<1>5. WorkInv'
  <2>1. \A o \in Ops : pc[o] \in Done
    BY <1>a, IdleWorker, Zenon
  <2> QED
    BY <1>b, <1>1, <1>2, <2>1, Zenon DEF WorkInv
<1>6. DoneInv'
  <2>1. ASSUME NEW id \in DOMAIN status', status'[id] = "success"
        PROVE  \E x \in outcomes : x.task.id = id /\ x.err = "nil"
    <3>1. CASE id \in DOMAIN status /\ status[id] = "success"
      BY <1>a, <3>1, Zenon DEF DoneInv
    <3>2. CASE id = IdOf(held[w].raw) /\ result[w] = "success"
      BY <1>a, <3>2 DEF WorkInv
    <3> QED
      BY <2>1, <3>1, <3>2, Zenon DEF Queue!RedisSet
  <2> QED
    BY <1>a, <1>b, <2>1, Zenon DEF DoneInv
<1>10. BegunInv'
  BY <1>a, <1>b, Zenon DEF BegunInv
<1> QED
  BY <1>a, <1>b, <1>3, <1>4, <1>5, <1>6, <1>10, AloneSame, Zenon DEF EngineInv

(* A step of the move of the element that the worker executes.             *)
LEMMA MoveStep ==
    ASSUME OneWorker, EngineInv, UNCHANGED queueVars, UNCHANGED program,
           NEW w \in Workers, at[w] = "process", Mover(w),
           NEW o, o = Op(held[w].n), Begin(o) \/ Move(o) \/ Fails(o)
    PROVE  EngineInv'
<1>a. AloneInv /\ ListInv /\ WaitInv /\ WorkInv /\ DoneInv /\ BegunInv
  BY Zenon DEF EngineInv
<1>b. UNCHANGED <<tasks, pushes, posted, status, at, held, result, outcomes>>
  BY Zenon DEF queueVars
<1>1. \A v \in Workers : v = w
  BY DEF OneWorker
<1>2. Occupied(w) /\ held[w].n \in 1 .. pushes
  BY <1>a, Zenon DEF ListInv, Occupied
<1>3. \A n \in 1 .. pushes : Op(n) \in Ops
  BY <1>a, Zenon DEF ListInv
<1>4. o \in Ops /\ Alone(o)
  BY <1>a, <1>1, <1>2, <1>3, Zenon DEF WorkInv, Alone
<1>5. AloneInv' /\ Others(o)
  BY <1>a, <1>4, AloneStep, Zenon DEF OneWorker
<1>6. \A n \in 1 .. pushes : n # held[w].n => pc'[Op(n)] = pc[Op(n)]
  BY <1>3, <1>5, OpDiffers, Zenon DEF Others
<1>7. ListInv'
  BY <1>a, <1>b, Zenon DEF ListInv, Occupied
<1>8. WaitInv'
  <2>1. \A e \in Listed(tasks) : pc'[Op(e.n)] = "idle"
    BY <1>a, <1>2, <1>6, Zenon DEF ListInv, WaitInv
  <2> QED
    BY <1>a, <1>b, <2>1, Zenon DEF WaitInv, Occupied
<1>9. WorkInv'
  <2>1. Mover(w)'
    BY <1>b, ZenonT(30) DEF Mover, Task
  <2>2. ASSUME NEW q \in Ops, pc'[q] \notin Done
        PROVE  \E v \in Workers : at[v] = "process" /\ q = Op(held[v].n)
    BY <1>a, <1>5, <2>2, Zenon DEF Others, WorkInv
  <2> QED
    BY <1>a, <1>b, <1>1, <2>1, <2>2, Zenon DEF WorkInv
<1>10. DoneInv'
  <2>1. \A x \in outcomes : pc'[Op(x.n)] = pc[Op(x.n)]
    BY <1>a, <1>6, Zenon DEF ListInv, WorkInv
  <2> QED
    BY <1>a, <1>b, <2>1, Zenon DEF DoneInv
<1>11. BegunInv'
  BY <1>a, <1>b, <1>2, <1>5, ZenonT(30) DEF BegunInv, Others
<1> QED
  BY <1>5, <1>7, <1>8, <1>9, <1>10, <1>11, Zenon DEF EngineInv

(* The process ends wherever it is.                                        *)
LEMMA StopStep ==
    ASSUME OneWorker, EngineInv, UNCHANGED program, NEW w \in Workers, Stop(w)
    PROVE  EngineInv'
<1>a. AloneInv /\ ListInv /\ WaitInv /\ WorkInv /\ DoneInv /\ BegunInv
  BY Zenon DEF EngineInv
<1>b. /\ UNCHANGED <<tasks, pushes, posted, status, outcomes>>
      /\ UNCHANGED <<names, data, req, fd, off, reader>>
      /\ at' = [at EXCEPT ![w] = "exited"] /\ held' = [held EXCEPT ![w] = None]
      /\ result' = [result EXCEPT ![w] = None]
  BY DEF Stop, Queue!MainReturns, Queue!Kill, Queue!Vanish, Queue!Goto, Queue!redisVars,
         Queue!storageVars
<1>1. \A v \in Workers : v = w
  BY Zenon DEF OneWorker
<1>2. /\ DOMAIN at' = Workers /\ DOMAIN held' = Workers /\ DOMAIN result' = Workers
      /\ at'[w] = "exited" /\ ~Occupied(w)'
  BY <1>a, <1>b, Zenon DEF ListInv, Occupied
<1>3. pc \in [Ops -> {pc[o] : o \in Ops}]
  BY <1>a, Zenon DEF AloneInv, LsInv, TypeOK
<1>4. /\ AloneInv'
      /\ \A o \in Ops : pc'[o] \in Done /\ (pc[o] \in Done => pc'[o] = pc[o])
  <2>1. CASE at[w] = "process" /\ pc[Op(held[w].n)] \notin Done /\ Op(held[w].n) \in Ops
    <3>1. PICK o \in Ops : o = Op(held[w].n) /\ pc[o] \notin Done
      BY <2>1, Zenon
    <3>2. pc' = [q \in Ops |-> IF q = o THEN "crashed" ELSE pc[q]]
      BY <2>1, <3>1 DEF Stop
    <3>3. Goto(o, "crashed")
      BY <1>3, <3>2, Zenon DEF Goto
    <3>4. Alone(o)
      BY <1>a, <1>1, <3>1, Zenon DEF WorkInv, Alone
    <3>5. AloneInv'
      BY <1>a, <1>b, <3>1, <3>3, <3>4, AloneJump, Zenon
    <3> QED
      BY <3>1, <3>2, <3>4, <3>5, Zenon DEF Alone, Done
  <2>2. CASE ~(at[w] = "process" /\ pc[Op(held[w].n)] \notin Done /\ Op(held[w].n) \in Ops)
    <3>1. pc' = pc
      <4>1. pc' = pc \/ pc' = [o \in Ops |-> pc[o]]
        BY <2>2, Zenon DEF Stop
      <4> QED
        BY <1>3, <4>1, Zenon
    <3>2. \A o \in Ops : pc[o] \in Done
      BY <1>a, <1>1, <2>2, Zenon DEF WorkInv
    <3>3. AloneInv'
      BY <1>a, <1>b, <3>1, AloneSame, Zenon DEF vars, callVars
    <3> QED
      BY <3>1, <3>2, <3>3, Zenon
  <2> QED
    BY <2>1, <2>2, Zenon
<1>5. \A n \in 1 .. pushes : Op(n) \in Ops
  BY <1>a DEF ListInv
<1>6. ListInv'
  BY <1>a, <1>b, <1>1, <1>2, Zenon DEF ListInv
<1>7. WaitInv'
  <2>1. \A e \in Listed(tasks) : pc'[Op(e.n)] = "idle"
    BY <1>a, <1>4, <1>5, Zenon DEF ListInv, WaitInv, Done
  <2> QED
    BY <1>a, <1>b, <1>1, <1>2, <2>1, ZenonT(30) DEF WaitInv
<1>8. WorkInv'
  BY <1>1, <1>2, <1>4, Zenon DEF WorkInv
<1>9. DoneInv'
  <2>1. \A x \in outcomes : Op(x.n) \in Ops
    BY <1>a, <1>5, Zenon DEF ListInv
  <2>2. ASSUME NEW x \in outcomes, x.err = "nil", pc'[Op(x.n)] # "idle"
        PROVE  pc'[Op(x.n)] = "ok"
    BY <1>a, <1>4, <2>1, <2>2, Zenon DEF DoneInv, Done
  <2> QED
    BY <1>a, <1>b, <2>2, ZenonT(30) DEF DoneInv
<1>10. BegunInv'
  BY <1>a, <1>b, <1>4, Zenon DEF BegunInv, Done
<1> QED
  BY <1>4, <1>6, <1>7, <1>8, <1>9, <1>10, Zenon DEF EngineInv

(* Another element is pushed: its number and its id are new.               *)
LEMMA PushStep ==
    ASSUME OneWorker, EngineInv, UNCHANGED <<vars, program>>,
           NEW raw \in Sent(program), Queue!PostTask(raw), Op(pushes + 1) \in Ops
    PROVE  EngineInv'
<1>a. AloneInv /\ ListInv /\ WaitInv /\ WorkInv /\ DoneInv /\ BegunInv
  BY DEF EngineInv
<1>b. UNCHANGED <<pc, req>> /\ UNCHANGED <<status, at, held, result, outcomes>>
  BY DEF vars, callVars, Queue!PostTask, Queue!Push, Queue!workerVars, Queue!storageVars
<1> DEFINE e == [n |-> pushes + 1, raw |-> raw]
<1>1. /\ raw \in Posted /\ raw \notin posted /\ posted' = posted \cup {raw}
      /\ pushes' = pushes + 1 /\ tasks' = Append(tasks, e)
  BY Zenon DEF Queue!PostTask, Queue!Push, Queue!RPush
<1>2. pushes \in Nat
  BY <1>a DEF ListInv
<1>3. pushes' \in Nat /\ \A n \in 1 .. pushes' : Op(n) \in Ops
  <2>1. \A n \in 1 .. pushes' : n \in 1 .. pushes \/ n = pushes + 1
    BY <1>1, <1>2
  <2>2. \A n \in 1 .. pushes : Op(n) \in Ops
    BY <1>a DEF ListInv
  <2> QED
    BY <1>1, <1>2, <2>1, <2>2
<1>4. e \in [n : Nat, raw : Posted] /\ e.n = pushes + 1 /\ e.raw = raw
  BY <1>1, <1>2
<1> HIDE DEF e
<1>5. /\ \A n \in 1 .. pushes : n # pushes + 1 /\ n \in 1 .. pushes'
      /\ pushes + 1 \in 1 .. pushes'
  BY <1>1, <1>2
<1>6. e \notin Listed(tasks)
  BY <1>a, <1>4, <1>5, Zenon DEF ListInv
<1>7. /\ tasks' \in Seq([n : Nat, raw : Posted]) /\ Once(tasks')
      /\ Listed(tasks') = Listed(tasks) \cup {e}
  <2>1. tasks \in Seq([n : Nat, raw : Posted]) /\ Once(tasks)
    BY <1>a DEF ListInv
  <2>2. /\ Append(tasks, e) \in Seq([n : Nat, raw : Posted]) /\ Once(Append(tasks, e))
        /\ Listed(Append(tasks, e)) = Listed(tasks) \cup {e}
    <3> DEFINE S == [n : Nat, raw : Posted]
    <3>1. tasks \in Seq(S) /\ e \in S
      BY <1>4, <2>1, Zenon
    <3>2. /\ Append(tasks, e) \in Seq(S) /\ Once(Append(tasks, e))
          /\ Listed(Append(tasks, e)) = Listed(tasks) \cup {e}
      <4> HIDE DEF S
      <4> QED
        BY <1>6, <2>1, <3>1, ListPush
    <3> QED
      BY <3>2
  <2> QED
    BY <1>1, <2>2, Zenon
<1>8. ListInv'
  <2>1. program' = program /\ posted' \subseteq Posted \cap Sent(program)
    BY <1>a, <1>1, ZenonT(30) DEF ListInv
  <2>2. \A f \in Listed(tasks') : f.n \in 1 .. pushes' /\ f.raw \in posted'
    BY <1>a, <1>1, <1>4, <1>5, <1>7, Zenon DEF ListInv
  <2>3. \A w \in Workers :
           Occupied(w)' => held'[w].n \in 1 .. pushes' /\ held'[w].raw \in posted'
    BY <1>a, <1>b, <1>1, <1>5, Zenon DEF ListInv, Occupied
  <2>4. \A x \in outcomes' :
           x.n \in 1 .. pushes' /\ \E other \in posted' : x.task.id = IdOf(other)
    BY <1>a, <1>b, <1>1, <1>5, ZenonT(30) DEF ListInv
  <2> QED
    BY <1>a, <1>b, <1>3, <1>7, <2>1, <2>2, <2>3, <2>4, Zenon DEF ListInv
<1>9. \A other \in posted : IdOf(other) # IdOf(raw)
  BY <1>a, <1>1, Zenon DEF ListInv, OneWorker, IdOf
<1>10. pc[Op(pushes + 1)] = "idle"
  BY <1>a, <1>5, OpDiffers, Zenon DEF BegunInv
<1>11. WaitInv'
  <2>1. \A f \in Listed(tasks) : f.n # e.n /\ IdOf(f.raw) # IdOf(e.raw)
    BY <1>a, <1>4, <1>5, <1>9, Zenon DEF ListInv
  <2>2. \A w \in Workers : Occupied(w) => held[w].n # e.n /\ IdOf(held[w].raw) # IdOf(e.raw)
    BY <1>a, <1>4, <1>5, <1>9, ZenonT(30) DEF ListInv
  <2>3. \A x \in outcomes : x.n # e.n /\ x.task.id # IdOf(e.raw)
    BY <1>a, <1>4, <1>5, <1>9, Zenon DEF ListInv
  <2> QED
    BY <1>a, <1>b, <1>4, <1>7, <1>10, <2>1, <2>2, <2>3, Zenon DEF WaitInv, Occupied
<1>12. WorkInv' /\ DoneInv'
  <2>1. \A w \in Workers : Mover(w)' <=> Mover(w)
    BY <1>b DEF Mover, Task
  <2>2. WorkInv'
    BY <1>a, <1>b, <2>1, Zenon DEF WorkInv
  <2>3. DoneInv'
    BY <1>a, <1>b, Zenon DEF DoneInv
  <2> QED
    BY <2>2, <2>3, Zenon
<1>13. BegunInv'
  BY <1>a, <1>b, <1>5, Zenon DEF BegunInv
<1> QED
  BY <1>a, <1>8, <1>11, <1>12, <1>13, AloneSame, Zenon DEF EngineInv

(* A signal, or nothing at all.                                            *)
LEMMA SameStep ==
    ASSUME EngineInv, UNCHANGED queueKept,
           UNCHANGED <<tasks, status, at, held, result, outcomes>>
    PROVE  EngineInv'
<1>a. AloneInv /\ ListInv /\ WaitInv /\ WorkInv /\ DoneInv /\ BegunInv
  BY DEF EngineInv
<1>b. UNCHANGED <<vars, program, pushes, posted>> /\ UNCHANGED <<pc, req>>
  BY DEF queueKept, vars, callVars
<1>1. ListInv' /\ WaitInv'
  BY <1>a, <1>b, Zenon DEF ListInv, WaitInv, Occupied
<1>2. WorkInv' /\ DoneInv' /\ BegunInv'
  BY <1>a, <1>b, ZenonT(30) DEF WorkInv, DoneInv, BegunInv, Mover, Task
<1> QED
  BY <1>a, <1>b, <1>1, <1>2, AloneSame, Zenon DEF EngineInv

-----------------------------------------------------------------------------
(* The actions of the two programs, as such steps.                         *)

LEMMA WithoutElement ==
    ASSUME OneWorker, EngineInv, UNCHANGED <<vars, program>>, NEW w \in Workers,
           \/ Queue!CheckContext(w) \/ Queue!PopFails(w) \/ Queue!Wake(w) \/ Queue!Start(w)
           \/ Again(w) \/ PopGarbage(w)
    PROVE  EngineInv'
<1> USE DEF Queue!Goto, Queue!redisVars, Queue!storageVars, Queue!Popped, Occupied
<1>1. /\ UNCHANGED <<pushes, posted>> /\ UNCHANGED <<status, outcomes, held, result>>
      /\ tasks' = tasks \/ (tasks # << >> /\ tasks' = Tail(tasks))
      /\ ~Occupied(w)
  BY DEF Queue!CheckContext, Queue!PopFails, Queue!Wake, Queue!Start, Again, PopGarbage
<1>2. \E label \in {"loop", "pop", "sleep", "exited"} : at' = [at EXCEPT ![w] = label]
  BY DEF Queue!CheckContext, Queue!PopFails, Queue!Wake, Queue!Start, Again, PopGarbage
<1>3. UNCHANGED queueKept
  BY <1>1 DEF queueKept
<1> HIDE DEF Occupied
<1> QED
  BY <1>1, <1>2, <1>3, StayStep, Zenon

LEMMA Taken ==
    ASSUME OneWorker, EngineInv, UNCHANGED <<vars, program>>, NEW w \in Workers, Queue!Pop(w)
    PROVE  EngineInv'
<1>1. /\ UNCHANGED <<pushes, posted>> /\ UNCHANGED <<status, outcomes, result>>
      /\ at[w] = "pop" /\ at' = [at EXCEPT ![w] = "process"]
      /\ tasks # << >> /\ tasks' = Tail(tasks) /\ held' = [held EXCEPT ![w] = Head(tasks)]
  BY DEF Queue!Pop, Queue!Popped, Queue!Goto, Queue!storageVars
<1>2. UNCHANGED queueKept
  BY <1>1 DEF queueKept
<1> QED
  BY <1>1, <1>2, TakeStep, Zenon

LEMMA Recorded ==
    ASSUME OneWorker, EngineInv, UNCHANGED <<vars, program>>, NEW w \in Workers,
           Queue!Complete(w)
    PROVE  EngineInv'
<1>1. /\ UNCHANGED <<pushes, posted>> /\ UNCHANGED <<tasks, outcomes>>
      /\ at[w] = "complete" /\ at' = [at EXCEPT ![w] = "loop"]
      /\ held' = [held EXCEPT ![w] = None] /\ result' = [result EXCEPT ![w] = None]
      /\ status' = status \/ status' = Queue!RedisSet(status, IdOf(held[w].raw), result[w])
  BY DEF Queue!Complete, Queue!Record, Queue!Goto, Queue!storageVars, IdOf
<1>2. UNCHANGED queueKept
  BY <1>1 DEF queueKept
<1> QED
  BY <1>1, <1>2, RecordStep, Zenon

(* Either program returns from Process: word is what it will record.       *)
LEMMA Ended ==
    ASSUME OneWorker, EngineInv, UNCHANGED <<vars, program>>, NEW w \in Workers,
           at[w] = "process", NEW err, Queue!Finish(w, err) \/ LegacyFinish(w, err),
           \/ ~Mover(w)
           \/ pc[Op(held[w].n)] \in {"ok", "error"} /\ (err = "nil" => pc[Op(held[w].n)] = "ok")
    PROVE  EngineInv'
<1>1. /\ UNCHANGED <<pushes, posted>> /\ UNCHANGED <<tasks, status, held>>
      /\ at' = [at EXCEPT ![w] = "complete"]
      /\ outcomes' = outcomes \cup {[n |-> held[w].n, task |-> Task(w), err |-> err]}
  BY DEF Queue!Finish, LegacyFinish, Queue!Goto, Queue!redisVars, Task
<1>2. PICK word : (word = "success" => err = "nil") /\ result' = [result EXCEPT ![w] = word]
  BY ZenonT(30) DEF Queue!Finish, LegacyFinish, Queue!StatusFor
<1>3. pc[Op(held[w].n)] # "idle" => Mover(w)
  BY ZenonT(30) DEF EngineInv, WorkInv
<1>4. pc[Op(held[w].n)] \in Done /\ (err = "nil" => pc[Op(held[w].n)] \in {"idle", "ok"})
  BY <1>3, ZenonT(30) DEF Done
<1>5. UNCHANGED queueKept
  BY <1>1 DEF queueKept
<1> QED
  BY <1>1, <1>2, <1>4, <1>5, EndStep, ZenonT(30)

LEMMA CurrentStep ==
    ASSUME OneWorker, EngineInv, program = "current", UNCHANGED program,
           NEW w \in Workers, Loop(w)
    PROVE  EngineInv'
<1>1. ASSUME UNCHANGED vars, Queue!ProcessCreateFolder(w) \/ Queue!ProcessRejects(w)
      PROVE  EngineInv'
  <2>1. /\ at[w] = "process" /\ (Queue!Finish(w, "nil") \/ Queue!Finish(w, "error"))
        /\ ~Queue!IsMove(Task(w))
    BY <1>1, Zenon DEF Queue!ProcessCreateFolder, Queue!ProcessRejects, Queue!IsCreateFolder,
                Queue!IsMove, Task
  <2>2. ~Mover(w)
    BY <2>1, Zenon DEF Mover
  <2> QED
    BY <1>1, <2>1, <2>2, Ended, ZenonT(30)
<1>2. ASSUME MoveReturns(w) PROVE EngineInv'
  <2>1. PICK err : /\ Queue!Finish(w, err) /\ UNCHANGED vars /\ at[w] = "process"
                   /\ pc[Op(held[w].n)] \in {"ok", "error"}
                   /\ err = "nil" => pc[Op(held[w].n)] = "ok"
    BY <1>2, Zenon DEF MoveReturns, Moves
  <2> QED
    BY <2>1, Ended, Zenon
<1>3. ASSUME CallMove(w) \/ SystemCall(w) PROVE EngineInv'
  <2>1. /\ at[w] = "process" /\ Mover(w) /\ UNCHANGED queueVars
        /\ Begin(Op(held[w].n)) \/ Move(Op(held[w].n)) \/ Fails(Op(held[w].n))
    BY <1>3, Zenon DEF CallMove, SystemCall, Moves, Mover
  <2> QED
    BY <2>1, MoveStep
<1> QED
  BY <1>1, <1>2, <1>3, WithoutElement, Taken, Recorded, Zenon DEF Loop, Aside

LEMMA LegacyStep ==
    ASSUME OneWorker, EngineInv, program = "legacy", UNCHANGED program,
           NEW w \in Workers, LegacyLoop(w)
    PROVE  EngineInv'
<1>1. ASSUME UNCHANGED vars, FSCreateFolder(w) \/ FSRejects(w)
      PROVE  EngineInv'
  <2>1. /\ at[w] = "process" /\ (LegacyFinish(w, "nil") \/ LegacyFinish(w, "error"))
        /\ ~IsUpload(Task(w))
    BY <1>1 DEF FSCreateFolder, FSRejects, IsCreate, IsUpload
  <2>2. ~Mover(w)
    BY <2>1, Zenon DEF Mover
  <2> QED
    BY <1>1, <2>1, <2>2, Ended, ZenonT(30)
<1>2. ASSUME FSMoveReturns(w) PROVE EngineInv'
  <2>1. PICK err : /\ LegacyFinish(w, err) /\ UNCHANGED vars /\ at[w] = "process"
                   /\ pc[Op(held[w].n)] \in {"ok", "error"}
                   /\ err = "nil" => pc[Op(held[w].n)] = "ok"
    BY <1>2, Zenon DEF FSMoveReturns, Uploads
  <2> QED
    BY <2>1, Ended, Zenon
<1>3. ASSUME FSMove(w) PROVE EngineInv'
  <2>1. /\ at[w] = "process" /\ Mover(w) /\ UNCHANGED queueVars
        /\ Begin(Op(held[w].n)) \/ Move(Op(held[w].n)) \/ Fails(Op(held[w].n))
    BY <1>3, Zenon DEF FSMove, Uploads, Mover
  <2> QED
    BY <2>1, MoveStep
<1> QED
  BY <1>1, <1>2, <1>3, WithoutElement, Taken, Recorded, Zenon DEF LegacyLoop, LegacyPop

LEMMA EngineStart == BothInit => EngineInv
<1> SUFFICES ASSUME BothInit PROVE EngineInv
  OBVIOUS
<1>1. Init /\ Queue!Init /\ program \in Programs
  BY DEF BothInit, EngineInit
<1>2. /\ tasks = << >> /\ pushes = 0 /\ posted = {} /\ status = << >> /\ outcomes = {}
      /\ at = [w \in Workers |-> "loop"] /\ held = [w \in Workers |-> None]
      /\ result = [w \in Workers |-> None]
  BY <1>1 DEF Queue!Init
<1>3. \A o \in Ops : pc[o] = "idle"
  BY <1>1, Zenon DEF Init
<1>4. tasks \in Seq([n : Nat, raw : Posted]) /\ Len(tasks) = 0
  BY <1>2
<1>5. Listed(tasks) = {} /\ Once(tasks)
  BY <1>4 DEF Listed, Once
<1>6. ListInv
  <2>1. pushes \in Nat /\ \A n \in 1 .. pushes : Op(n) \in Ops
    BY <1>2
  <2>2. /\ DOMAIN at = Workers /\ DOMAIN held = Workers /\ DOMAIN result = Workers
        /\ \A w \in Workers : ~Occupied(w)
    BY <1>2, Zenon DEF Occupied
  <2> QED
    BY <1>1, <1>2, <1>4, <1>5, <2>1, <2>2, Zenon DEF ListInv
<1>7. WaitInv
  BY <1>5, Zenon DEF WaitInv
<1>8. WorkInv
  BY <1>2, <1>3, Zenon DEF WorkInv, Done
<1>9. DoneInv
  BY <1>2 DEF DoneInv
<1>10. BegunInv
  BY <1>3 DEF BegunInv
<1> QED
  BY <1>1, <1>6, <1>7, <1>8, <1>9, <1>10, AloneInit, Zenon DEF EngineInv

LEMMA EngineStep ==
    ASSUME OneWorker, EngineInv, [BothNext]_bothVars,
           \A raw \in Sent(program) : Push(raw) => Op(pushes + 1) \in Ops
    PROVE  EngineInv'
<1>1. CASE UNCHANGED bothVars
  <2>1. UNCHANGED queueKept /\ UNCHANGED <<tasks, status, at, held, result, outcomes>>
    BY <1>1 DEF bothVars, engineVars, queueVars, queueKept
  <2> QED
    BY <2>1, SameStep, Zenon
<1>2. ASSUME NEW raw \in Sent(program), Push(raw) PROVE EngineInv'
  BY <1>2, PushStep, Zenon DEF Push
<1>3. ASSUME NEW w \in Workers, BothLoops(w) PROVE EngineInv'
  BY <1>3, CurrentStep, LegacyStep, Zenon DEF BothLoops
<1>4. ASSUME NEW w \in Workers, BothMains(w) PROVE EngineInv'
  <2>1. ASSUME Signal(w), UNCHANGED program PROVE EngineInv'
    <3>1. /\ UNCHANGED <<vars, pushes, posted>>
          /\ UNCHANGED <<tasks, status, at, held, result, outcomes>>
      BY <2>1 DEF Signal, Queue!Interrupt, Queue!redisVars, Queue!storageVars
    <3>2. UNCHANGED queueKept
      BY <2>1, <3>1, Zenon DEF queueKept
    <3> QED
      BY <3>1, <3>2, SameStep, Zenon
  <2> QED
    BY <1>4, <2>1, StopStep, Zenon DEF BothMains
<1>5. ASSUME NEW w \in Workers, BothRestart(w) PROVE EngineInv'
  BY <1>5, WithoutElement DEF BothRestart, Restart
<1> QED
  BY <1>1, <1>2, <1>3, <1>4, <1>5, Zenon DEF BothNext

LEMMA EngineMeans ==
    ASSUME OneWorker, EngineInv
    PROVE  SuccessIsWhole
<1> SUFFICES ASSUME NEW x \in outcomes, req[Op(x.n)] # None,
                    x.task.id \in DOMAIN status, status[x.task.id] = "success"
             PROVE  /\ Final(req[Op(x.n)].dst) \in DOMAIN names
                    /\ data[names[Final(req[Op(x.n)].dst)]]
                          = Content(InitialFiles[req[Op(x.n)].src])
  BY Zenon DEF SuccessIsWhole
<1>a. AloneInv /\ ListInv /\ DoneInv
  BY Zenon DEF EngineInv
<1>1. Op(x.n) \in Ops
  BY <1>a, Zenon DEF ListInv
<1>2. x.err = "nil"
  <2>1. PICK y \in outcomes : y.task.id = x.task.id /\ y.err = "nil"
    BY <1>a, ZenonT(30) DEF DoneInv
  <2>2. y = x
    BY <1>a, <2>1, ZenonT(30) DEF DoneInv
  <2> QED
    BY <2>1, <2>2, Zenon
<1>3. pc[Op(x.n)] = "ok"
  BY <1>a, <1>1, <1>2, Zenon DEF DoneInv, AloneInv, MoveOK
<1> QED
  BY <1>a, <1>1, <1>3, Zenon DEF AloneInv, MoveOK, Holds

LEMMA EngineKeeps ==
    ASSUME OneWorker, AloneInv, DOMAIN InitialFiles \cap Destinations = {}
    PROVE  NothingLost
<1> SUFFICES ASSUME NEW p \in DOMAIN InitialFiles
             PROVE  \E q \in Paths : /\ Final(q) \in DOMAIN names
                                     /\ data[names[Final(q)]] = Content(InitialFiles[p])
  BY Zenon DEF NothingLost
<1>1. CASE Holds(p, InitialFiles[p])
  BY <1>1, PathAssumption, Zenon DEF Holds
<1>2. CASE \E o \in Ops : pc[o] = "ok" /\ req[o].src = p
  <2>1. PICK o \in Ops : pc[o] = "ok" /\ req[o].src = p
    BY <1>2
  <2>2. Holds(req[o].dst, InitialFiles[p])
    BY <2>1, Zenon DEF AloneInv, MoveOK
  <2>3. req[o].dst \in Paths
    BY <2>1, MoveIs, Zenon DEF AloneInv, OneWorker, Moving
  <2> QED
    BY <2>2, <2>3, Zenon DEF Holds
<1> QED
  BY <1>1, <1>2, Zenon DEF AloneInv, MovedOrThere

(* Only a push adds to what was pushed.                                    *)
LEMMA Counts ==
    ASSUME [BothNext]_bothVars
    PROVE  \/ UNCHANGED <<program, posted, pushes>>
           \/ \E raw \in Sent(program) : Push(raw)
<1> USE DEF Queue!redisVars
<1>1. ASSUME NEW w \in Workers, BothLoops(w) PROVE UNCHANGED <<program, posted, pushes>>
  <2>1. CASE Loop(w)
    BY <1>1, <2>1, Zenon DEF BothLoops, Loop, Aside, CallMove, SystemCall, MoveReturns, queueVars,
       Queue!CheckContext, Queue!Pop, Queue!PopFails, Queue!Wake, Queue!ProcessCreateFolder,
       Queue!ProcessRejects, Queue!Complete, Queue!Finish
  <2>2. CASE LegacyLoop(w)
    BY <1>1, <2>2, Zenon DEF BothLoops, LegacyLoop, Again, LegacyPop, PopGarbage, FSCreateFolder,
       FSRejects, FSMove, FSMoveReturns, LegacyFinish, queueVars,
       Queue!Pop, Queue!PopFails, Queue!Wake, Queue!Complete
  <2> QED
    BY <1>1, <2>1, <2>2, Zenon DEF BothLoops
<1>2. ASSUME NEW w \in Workers, BothMains(w) \/ BothRestart(w)
      PROVE  UNCHANGED <<program, posted, pushes>>
  BY <1>2, Zenon DEF BothMains, BothRestart, Stop, Signal, Restart, Queue!MainReturns, Queue!Kill,
     Queue!Vanish, Queue!Interrupt, Queue!Start
<1>3. CASE UNCHANGED bothVars
  BY <1>3, Zenon DEF bothVars, engineVars, queueVars
<1> QED
  BY <1>1, <1>2, <1>3, Zenon DEF BothNext

-----------------------------------------------------------------------------
LOCAL INSTANCE FiniteSetTheorems

(* A program is sent finitely many elements, and there is a call for each. *)
EnoughCalls ==
    \A p \in Programs :
       IsFiniteSet(Sent(p)) /\ \A n \in 1 .. Cardinality(Sent(p)) : Op(n) \in Ops

CountInv ==
    /\ program \in Programs /\ posted \in SUBSET Sent(program)
    /\ IsFiniteSet(posted) /\ pushes = Cardinality(posted)

LEMMA CountStart == BothInit => CountInv
<1> SUFFICES ASSUME BothInit PROVE CountInv
  OBVIOUS
<1>1. program \in Programs /\ posted = {} /\ pushes = 0
  BY Zenon DEF BothInit, EngineInit, Queue!Init
<1> QED
  BY <1>1, FS_EmptySet, Zenon DEF CountInv

(* No more elements are pushed than are sent.                              *)
LEMMA CountPush ==
    ASSUME EnoughCalls, CountInv, NEW raw \in Sent(program), Push(raw)
    PROVE  CountInv' /\ Op(pushes + 1) \in Ops
<1>1. /\ program \in Programs /\ posted \in SUBSET Sent(program) /\ IsFiniteSet(posted)
      /\ pushes = Cardinality(posted)
  BY DEF CountInv
<1>2. /\ raw \notin posted /\ posted' = posted \cup {raw} /\ pushes' = pushes + 1
      /\ program' = program
  BY DEF Push, Queue!PostTask, Queue!Push
<1>3. IsFiniteSet(posted') /\ pushes' = Cardinality(posted')
  BY <1>1, <1>2, FS_AddElement, Zenon
<1>4. IsFiniteSet(Sent(program)) /\ posted' \in SUBSET Sent(program)
  BY <1>1, <1>2, Zenon DEF EnoughCalls
<1>5. /\ pushes' <= Cardinality(Sent(program)) /\ Cardinality(Sent(program)) \in Nat
      /\ pushes \in Nat
  BY <1>1, <1>3, <1>4, FS_Subset, FS_CardinalityType, Zenon
<1>6. pushes + 1 \in 1 .. Cardinality(Sent(program))
  BY <1>2, <1>5
<1> QED
  BY <1>1, <1>2, <1>3, <1>4, <1>6, Zenon DEF EnoughCalls, CountInv

LEMMA BothStep ==
    ASSUME OneWorker, EnoughCalls, EngineInv, CountInv, [BothNext]_bothVars
    PROVE  EngineInv' /\ CountInv'
<1>1. \A raw \in Sent(program) : Push(raw) => CountInv' /\ Op(pushes + 1) \in Ops
  BY CountPush, Zenon
<1>2. CountInv'
  <2>1. CASE UNCHANGED <<program, posted, pushes>>
    BY <2>1 DEF CountInv
  <2> QED
    BY <1>1, <2>1, Counts, Zenon
<1> QED
  BY <1>1, <1>2, EngineStep, Zenon

(* One worker of either program, which is stopped and started again at any *)
(* point: a task that is recorded as a success has moved its file, and the *)
(* whole content that the source had at the start is at the destination    *)
(* for good.                                                               *)
THEOREM SuccessesAreWhole ==
    ASSUME OneWorker, EnoughCalls
    PROVE  BothSpec => []SuccessIsWhole
<1>1. EngineInv /\ CountInv /\ [BothNext]_bothVars => EngineInv' /\ CountInv'
  BY BothStep
<1>2. EngineInv => SuccessIsWhole
  BY EngineMeans, Zenon
<1> QED
  BY <1>1, <1>2, EngineStart, CountStart, PTL DEF BothSpec

(* And nothing is lost on the way, when no move ends where a file was at   *)
(* the start: after any stop between two system calls each file is, whole, *)
(* at its source or at a destination.                                      *)
THEOREM WorkersLoseNothing ==
    ASSUME OneWorker, EnoughCalls, DOMAIN InitialFiles \cap Destinations = {}
    PROVE  BothSpec => []NothingLost
<1>1. EngineInv /\ CountInv /\ [BothNext]_bothVars => EngineInv' /\ CountInv'
  BY BothStep
<1>2. EngineInv => NothingLost
  BY EngineKeeps DEF EngineInv
<1> QED
  BY <1>1, <1>2, EngineStart, CountStart, PTL DEF BothSpec
=============================================================================
