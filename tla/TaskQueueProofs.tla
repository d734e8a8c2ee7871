--------------------------- MODULE TaskQueueProofs ---------------------------
(***************************************************************************)
(* Proofs about TaskQueue, for any sets of requests, workers and posted    *)
(* elements and any set of faults.                                         *)
(***************************************************************************)
EXTENDS TaskQueue, SequenceTheorems, TLAPS

(* The provers that a leaf is given to, in turn, unless it names its own.  *)
USE SMT, Zenon, SMTT(10), SMTT(20)

(* No step withdraws an element: the elements the list may hold only grow. *)
LEMMA RawsGrow ==
  ASSUME ApiTypeOK, [Next]_vars
  PROVE  Raws \subseteq Raws'
<1> USE DEF ApiTypeOK, Raws
<1>1. ASSUME NEW r \in Requests, API(r) PROVE Raws \subseteq Raws'
  BY <1>1 DEF API, CreateFolder, Enqueue, EnqueueRetried, EnqueueFails
<1>2. ASSUME NEW raw \in Posted, PostTask(raw) PROVE Raws \subseteq Raws'
  BY <1>2 DEF PostTask, apiVars
<1>3. ASSUME NEW w \in Workers, Loop(w) PROVE UNCHANGED apiVars
  BY <1>3 DEF Loop, CheckContext, Pop, PopFails, Wake, Process,
     ProcessCreateFolder, ProcessMove, ProcessRejects, Finish, Complete
<1>4. ASSUME NEW w \in Workers, Main(w) PROVE UNCHANGED apiVars
  BY <1>4 DEF Main, Interrupt, MainReturns, Kill, Vanish, Start
<1> QED
  BY <1>1, <1>2, <1>3, <1>4 DEF Next, vars, apiVars

LEMMA EntriesGrow ==
  ASSUME pushes \in Nat, pushes' \in Nat, pushes <= pushes',
         Raws \subseteq Raws'
  PROVE  Entries \subseteq Entries'
  BY DEF Entries

LEMMA SeqGrow ==
  ASSUME NEW S, NEW T, S \subseteq T, NEW q \in Seq(S)
  PROVE  q \in Seq(T)
  BY SeqMonotonic

LEMMA InitTypeOK == Init => TypeOK
  BY DEF Init, TypeOK, ApiTypeOK, RedisTypeOK, WorkerTypeOK, OutcomeTypeOK, Busy

(* The types of what a step leaves alone survive a larger set of elements. *)
LEMMA WorkerTypeKept ==
  ASSUME WorkerTypeOK, UNCHANGED workerVars, Entries \subseteq Entries'
  PROVE  WorkerTypeOK'
  BY DEF WorkerTypeOK, workerVars, Busy

LEMMA OutcomeTypeKept ==
  ASSUME OutcomeTypeOK, UNCHANGED outcomes, Raws \subseteq Raws',
         pushes \in Nat, pushes' \in Nat, pushes <= pushes'
  PROVE  OutcomeTypeOK'
  BY DEF OutcomeTypeOK

LEMMA ApiTypeStep ==
  ASSUME ApiTypeOK, [Next]_vars
  PROVE  ApiTypeOK'
<1> USE DEF ApiTypeOK
<1>1. ASSUME NEW r \in Requests, CreateFolder(r) PROVE ApiTypeOK'
  <2>1. clock' \in Nat /\ clock' >= clock
    BY <1>1, ClockAssumption DEF CreateFolder
  <2>2. ASSUME NEW q \in Requests, call'[q] # "idle"
        PROVE  \E t \in 0..clock', parent \in ParentPaths, name \in FolderNames :
                  sent'[q] = CreateFolderTask(t, parent, name)
    <3>1. CASE q = r
      BY <1>1, <2>1, <3>1 DEF CreateFolder
    <3>2. CASE q # r
      BY <1>1, <2>1, <2>2, <3>2 DEF CreateFolder
    <3> QED
      BY <3>1, <3>2
  <2> QED
    BY <1>1, <2>1, <2>2 DEF CreateFolder
<1>2. ASSUME NEW r \in Requests, API(r), ~CreateFolder(r) PROVE ApiTypeOK'
  BY <1>2 DEF API, Enqueue, EnqueueRetried, EnqueueFails
<1>3. ASSUME NEW raw \in Posted, PostTask(raw) PROVE ApiTypeOK'
  BY <1>3 DEF PostTask, apiVars
<1>4. ASSUME NEW w \in Workers, Loop(w) PROVE UNCHANGED apiVars
  BY <1>4 DEF Loop, CheckContext, Pop, PopFails, Wake, Process,
     ProcessCreateFolder, ProcessMove, ProcessRejects, Finish, Complete
<1>5. ASSUME NEW w \in Workers, Main(w) PROVE UNCHANGED apiVars
  BY <1>5 DEF Main, Interrupt, MainReturns, Kill, Vanish, Start
<1> QED
  BY <1>1, <1>2, <1>3, <1>4, <1>5 DEF Next, vars, apiVars

(* Pushing an element that the list may hold.                              *)
LEMMA PushType ==
  ASSUME RedisTypeOK, NEW raw \in Raws', Raws \subseteq Raws', Push(raw),
         posted' \subseteq Posted
  PROVE  /\ RedisTypeOK'
         /\ Entries \subseteq Entries'
         /\ pushes' \in Nat /\ pushes <= pushes'
<1> USE DEF RedisTypeOK
<1>1. pushes' \in Nat /\ pushes <= pushes' /\ pushes + 1 \in 1..pushes'
  BY DEF Push
<1>2. Entries \subseteq Entries'
  BY <1>1, EntriesGrow
<1>3. tasks \in Seq(Entries')
  BY <1>2, SeqGrow
<1>4. [n |-> pushes + 1, raw |-> raw] \in Entries'
  BY <1>1 DEF Entries
<1>5. tasks' \in Seq(Entries')
  BY <1>3, <1>4 DEF Push, RPush
<1> QED
  BY <1>1, <1>2, <1>5 DEF Push

LEMMA TypeStep == TypeOK /\ [Next]_vars => TypeOK'
<1> SUFFICES ASSUME TypeOK, [Next]_vars PROVE TypeOK'
  OBVIOUS
<1>a. ApiTypeOK /\ RedisTypeOK /\ WorkerTypeOK /\ OutcomeTypeOK
  BY DEF TypeOK
<1>b. ApiTypeOK' /\ Raws \subseteq Raws'
  BY <1>a, ApiTypeStep, RawsGrow
<1>c. pushes \in Nat
  BY <1>a DEF RedisTypeOK
<1>1. ASSUME NEW r \in Requests, CreateFolder(r) PROVE TypeOK'
  <2>1. pushes' = pushes /\ tasks' = tasks /\ status' = status
    BY <1>1 DEF CreateFolder, redisVars
  <2>2. Entries \subseteq Entries'
    BY <1>b, <1>c, <2>1, EntriesGrow
  <2>3. RedisTypeOK'
    BY <1>1, <1>a, <2>1, <2>2, SeqGrow DEF RedisTypeOK, CreateFolder
  <2> QED
    BY <1>1, <1>a, <1>b, <1>c, <2>1, <2>2, <2>3, WorkerTypeKept, OutcomeTypeKept
    DEF TypeOK, CreateFolder, storageVars
<1>2. ASSUME NEW raw \in Raws', Push(raw), posted' \subseteq Posted,
             UNCHANGED <<workerVars, storageVars>>
      PROVE  TypeOK'
  BY <1>2, <1>a, <1>b, <1>c, PushType, WorkerTypeKept, OutcomeTypeKept
  DEF TypeOK, storageVars
<1>3. ASSUME NEW r \in Requests, call[r] = "pushing", sent' = sent,
             call'[r] # "idle"
      PROVE  sent[r] \in Raws'
  BY <1>3 DEF Raws
<1>4. ASSUME NEW r \in Requests, Enqueue(r) PROVE TypeOK'
  <2>1. call'[r] # "idle" /\ posted' \subseteq Posted
    BY <1>4, <1>a DEF Enqueue, ApiTypeOK, RedisTypeOK
  <2> QED
    BY <1>2, <1>3, <1>4, <2>1 DEF Enqueue
<1>5. ASSUME NEW r \in Requests, EnqueueRetried(r) PROVE TypeOK'
  <2>1. sent[r] \in Raws'
    <3>1. call'[r] # "idle"
      BY <1>5, <1>a DEF EnqueueRetried, ApiTypeOK
    <3> QED
      BY <1>3, <1>5, <3>1 DEF EnqueueRetried
  <2>2. pushes' = pushes + 2 /\ pushes' \in Nat
    BY <1>5, <1>c DEF EnqueueRetried
  <2>3. Entries \subseteq Entries'
    BY <1>b, <1>c, <2>2, EntriesGrow
  <2>4. /\ [n |-> pushes + 1, raw |-> sent[r]] \in Entries'
        /\ [n |-> pushes + 2, raw |-> sent[r]] \in Entries'
    BY <1>c, <2>1, <2>2 DEF Entries
  <2>5. tasks \in Seq(Entries')
    BY <1>a, <2>3, SeqGrow DEF RedisTypeOK
  <2>6. tasks' \in Seq(Entries')
    BY <1>5, <2>4, <2>5 DEF EnqueueRetried, RPush
  <2>7. RedisTypeOK'
    BY <1>5, <1>a, <2>2, <2>6 DEF EnqueueRetried, RedisTypeOK
  <2> QED
    BY <1>5, <1>a, <1>b, <1>c, <2>2, <2>3, <2>7, WorkerTypeKept, OutcomeTypeKept
    DEF TypeOK, EnqueueRetried, storageVars
<1>6. ASSUME NEW r \in Requests, EnqueueFails(r) PROVE TypeOK'
  <2>1. call'[r] # "idle" /\ posted' \subseteq Posted
    BY <1>6, <1>a DEF EnqueueFails, ApiTypeOK, RedisTypeOK
  <2>2. CASE Push(sent[r])
    BY <1>2, <1>3, <1>6, <2>1, <2>2 DEF EnqueueFails
  <2>3. CASE UNCHANGED redisVars
    <3>1. Entries \subseteq Entries'
      BY <1>b, <1>c, <2>3, EntriesGrow DEF redisVars
    <3>2. RedisTypeOK'
      BY <1>a, <2>1, <2>3, <3>1, SeqGrow DEF RedisTypeOK, redisVars
    <3> QED
      BY <1>6, <1>a, <1>b, <1>c, <2>3, <3>1, <3>2, WorkerTypeKept,
         OutcomeTypeKept
      DEF TypeOK, EnqueueFails, redisVars, storageVars
  <2> QED
    BY <1>6, <2>2, <2>3 DEF EnqueueFails
<1>7. ASSUME NEW raw \in Posted, PostTask(raw) PROVE TypeOK'
  <2>1. raw \in Raws' /\ posted' \subseteq Posted
    BY <1>7, <1>a DEF PostTask, RedisTypeOK, Raws
  <2> QED
    BY <1>2, <1>7, <2>1 DEF PostTask
<1>8. ASSUME UNCHANGED <<apiVars, pushes>>
      PROVE  Entries' = Entries /\ Raws' = Raws
  BY <1>8 DEF Entries, Raws, apiVars
<1>9. ASSUME NEW w \in Workers,
             CheckContext(w) \/ Wake(w) \/ Interrupt(w) \/ MainReturns(w)
               \/ Kill(w) \/ Start(w)
      PROVE  TypeOK'
  <2>1. UNCHANGED <<apiVars, redisVars, posted, outcomes>>
    BY <1>9 DEF CheckContext, Wake, Interrupt, MainReturns, Kill, Vanish,
       Start, storageVars
  <2>2. Entries' = Entries /\ Raws' = Raws
    BY <1>8, <2>1 DEF redisVars
  <2>3. WorkerTypeOK'
    <3> USE <1>a, <2>2 DEF WorkerTypeOK, Busy
    <3>1. CASE CheckContext(w) \/ Wake(w)
      BY <3>1 DEF CheckContext, Wake, Goto
    <3>2. CASE Interrupt(w)
      BY <3>2 DEF Interrupt
    <3>3. CASE MainReturns(w) \/ Kill(w)
      BY <3>3 DEF MainReturns, Kill, Vanish, Goto
    <3>4. CASE Start(w)
      BY <3>4 DEF Start, Goto
    <3> QED
      BY <1>9, <3>1, <3>2, <3>3, <3>4
  <2> QED
    BY <1>a, <1>b, <1>c, <2>1, <2>2, <2>3, OutcomeTypeKept
    DEF TypeOK, RedisTypeOK, redisVars
<1>10. ASSUME NEW w \in Workers, Pop(w) \/ PopFails(w) PROVE TypeOK'
  <2>1. UNCHANGED <<apiVars, pushes, status, posted, outcomes>>
    BY <1>10 DEF Pop, PopFails, storageVars
  <2>2. Entries' = Entries /\ Raws' = Raws
    BY <1>8, <2>1
  <2>3. tasks # << >> => Head(tasks) \in Entries /\ Tail(tasks) \in Seq(Entries)
    BY <1>a, HeadTailProperties DEF RedisTypeOK
  <2>4. RedisTypeOK'
    BY <1>10, <1>a, <2>1, <2>2, <2>3, Zenon DEF RedisTypeOK, Pop, PopFails, Popped
  <2>5. WorkerTypeOK'
    BY <1>10, <1>a, <2>2, <2>3 DEF WorkerTypeOK, Busy, Goto, Pop, PopFails
  <2> QED
    BY <1>a, <1>b, <1>c, <2>1, <2>2, <2>4, <2>5, OutcomeTypeKept DEF TypeOK
<1>11. ASSUME NEW w \in Workers, NEW err \in {"nil", "error"}, pc[w] = "process",
              Finish(w, err)
       PROVE  TypeOK'
  <2>1. Entries' = Entries /\ Raws' = Raws /\ RedisTypeOK'
    BY <1>8, <1>11, <1>a DEF Finish, redisVars, RedisTypeOK
  <2>2. held[w] \in Entries
    BY <1>11, <1>a DEF WorkerTypeOK, Busy
  <2>3. WorkerTypeOK'
    BY <1>11, <1>a, <2>1, <2>2, Zenon
    DEF WorkerTypeOK, Busy, Goto, Finish, StatusFor
  <2>4. OutcomeTypeOK'
    <3>1. held[w].n \in 1..pushes /\ held[w].raw \in Raws
      BY <2>2 DEF Entries
    <3> QED
      BY <1>11, <1>a, <2>1, <3>1 DEF OutcomeTypeOK, Finish, redisVars
  <2> QED
    BY <1>b, <2>1, <2>3, <2>4 DEF TypeOK
<1>12. ASSUME NEW w \in Workers, Process(w) PROVE TypeOK'
  BY <1>11, <1>12
  DEF Process, ProcessCreateFolder, ProcessMove, ProcessRejects
<1>13. ASSUME NEW w \in Workers, Complete(w) PROVE TypeOK'
  <2>1. UNCHANGED <<apiVars, tasks, pushes, posted, outcomes>>
    BY <1>13 DEF Complete, storageVars
  <2>2. Entries' = Entries /\ Raws' = Raws
    BY <1>8, <2>1
  <2>3. status' \in [DOMAIN status' -> {"success", "failed"}]
    BY <1>13, <1>a DEF Complete, Record, RedisSet, RedisTypeOK, WorkerTypeOK
  <2>4. WorkerTypeOK'
    BY <1>13, <1>a, <2>2 DEF WorkerTypeOK, Busy, Goto, Complete
  <2> QED
    BY <1>a, <1>b, <1>c, <2>1, <2>2, <2>3, <2>4, OutcomeTypeKept
    DEF TypeOK, RedisTypeOK
<1>14. CASE UNCHANGED vars
  BY <1>14, <1>8, <1>a
  DEF vars, apiVars, redisVars, workerVars, storageVars, TypeOK, ApiTypeOK,
      RedisTypeOK, WorkerTypeOK, OutcomeTypeOK, Busy, Raws, Entries
<1> QED
  BY <1>1, <1>4, <1>5, <1>6, <1>7, <1>9, <1>10, <1>12, <1>13, <1>14
  DEF Next, API, Loop, Main

(* Types hold in every behaviour, whatever faults happen: in particular    *)
(* every element a worker holds was built by an RPC or posted.             *)
THEOREM TypeCorrect == Spec => []TypeOK
  BY InitTypeOK, TypeStep, PTL DEF Spec

-----------------------------------------------------------------------------
(* At most once, first in first out.  Neither InOrder nor AtMostOnce is    *)
(* inductive alone: that a popped element is new needs the order, and that *)
(* a pushed one comes last needs the bounds on n in TypeOK.                *)
OnceInv == TypeOK /\ InOrder /\ AtMostOnce

(* The facts about element numbers that the proof reads from TypeOK.       *)
LEMMA Numbers ==
  ASSUME TypeOK
  PROVE  /\ pushes \in Nat
         /\ tasks \in Seq(Entries)
         /\ Len(tasks) \in Nat
         /\ \A i \in 1..Len(tasks) : tasks[i].n \in 1..pushes
         /\ \A w \in Workers : Busy(w) => held[w].n \in 1..pushes
         /\ \A o \in outcomes : o.n \in 1..pushes
<1>1. \A e \in Entries : e.n \in 1..pushes
  BY DEF Entries
<1>2. tasks \in Seq(Entries) /\ pushes \in Nat
  BY DEF TypeOK, RedisTypeOK
<1>3. Len(tasks) \in Nat /\ \A i \in 1..Len(tasks) : tasks[i] \in Entries
  BY <1>2, LenProperties, ElementOfSeq
<1> QED
  BY <1>1, <1>2, <1>3 DEF TypeOK, WorkerTypeOK, OutcomeTypeOK

Ascending(q) == \A i, j \in 1..Len(q) : i < j => q[i].n < q[j].n

Above(q, k) == \A i \in 1..Len(q) : k < q[i].n

LEMMA InOrderParts ==
  InOrder <=> /\ Ascending(tasks)
              /\ \A o \in outcomes : Above(tasks, o.n)
              /\ \A w \in Workers : Busy(w) => Above(tasks, held[w].n)
  BY DEF InOrder, Ascending, Above

(* Appending an element whose number is larger than all before it.         *)
LEMMA AppendAscending ==
  ASSUME NEW S, NEW q \in Seq(S), NEW e, NEW m \in Nat, e.n \in Nat, e.n > m,
         \A i \in 1..Len(q) : q[i].n \in 1..m,
         Ascending(q)
  PROVE  /\ Append(q, e) \in Seq(S \cup {e})
         /\ \A i \in 1..Len(Append(q, e)) : Append(q, e)[i].n \in 1..e.n
         /\ Ascending(Append(q, e))
         /\ \A k \in 1..m : Above(q, k) => Above(Append(q, e), k)
<1> DEFINE p == Append(q, e)
<1>1. q \in Seq(S \cup {e}) /\ Len(q) \in Nat
  BY SeqGrow
<1>2. p \in Seq(S \cup {e}) /\ Len(p) = Len(q) + 1 /\ p[Len(q) + 1] = e
  BY <1>1
<1>3. \A i \in 1..Len(q) : p[i] = q[i]
  BY <1>1
<1>4. \A i \in 1..Len(p) : i \in 1..Len(q) \/ i = Len(q) + 1
  BY <1>1, <1>2
<1> HIDE DEF p
<1>5. \A i \in 1..Len(p) : p[i].n \in 1..e.n
  BY <1>2, <1>3, <1>4
<1>6. Ascending(p)
  <2> SUFFICES ASSUME NEW i \in 1..Len(p), NEW j \in 1..Len(p), i < j
               PROVE  p[i].n < p[j].n
    BY DEF Ascending
  <2>1. i \in 1..Len(q)
    BY <1>1, <1>2, <1>4
  <2>2. CASE j \in 1..Len(q)
    BY <1>3, <2>1, <2>2, Zenon DEF Ascending
  <2>3. CASE j = Len(q) + 1
    BY <1>2, <1>3, <2>1, <2>3
  <2> QED
    BY <1>4, <2>2, <2>3
<1>7. ASSUME NEW k \in 1..m, Above(q, k) PROVE Above(p, k)
  BY <1>2, <1>3, <1>4, <1>7 DEF Above
<1> QED
  BY <1>2, <1>5, <1>6, <1>7 DEF p

LEMMA AppendInOrder ==
  ASSUME TypeOK, InOrder, NEW raw,
         \/ tasks' = RPush(tasks, pushes + 1, raw)
         \/ tasks' = RPush(RPush(tasks, pushes + 1, raw), pushes + 2, raw),
         UNCHANGED <<workerVars, storageVars>>
  PROVE  InOrder'
<1> DEFINE e1 == [n |-> pushes + 1, raw |-> raw]
           e2 == [n |-> pushes + 2, raw |-> raw]
           q1 == Append(tasks, e1)
           q2 == Append(q1, e2)
<1>1. /\ pushes \in Nat
      /\ tasks \in Seq(Entries)
      /\ \A i \in 1..Len(tasks) : tasks[i].n \in 1..pushes
      /\ \A w \in Workers : Busy(w) => held[w].n \in 1..pushes
      /\ \A o \in outcomes : o.n \in 1..pushes
  BY Numbers
<1>2. /\ Ascending(tasks)
      /\ \A o \in outcomes : Above(tasks, o.n)
      /\ \A w \in Workers : Busy(w) => Above(tasks, held[w].n)
  BY InOrderParts
<1>3. e1.n = pushes + 1 /\ e2.n = pushes + 2
  OBVIOUS
<1>4. tasks' = q1 \/ tasks' = q2
  BY DEF RPush
<1> HIDE DEF e1, e2, q1, q2
<1>5. /\ q1 \in Seq(Entries \cup {e1})
      /\ \A i \in 1..Len(q1) : q1[i].n \in 1..(pushes + 1)
      /\ Ascending(q1)
      /\ \A k \in 1..pushes : Above(tasks, k) => Above(q1, k)
  <2>1. e1.n \in Nat /\ e1.n > pushes
    BY <1>1, <1>3
  <2>2. /\ q1 \in Seq(Entries \cup {e1})
        /\ \A i \in 1..Len(q1) : q1[i].n \in 1..e1.n
        /\ Ascending(q1)
        /\ \A k \in 1..pushes : Above(tasks, k) => Above(q1, k)
    BY <1>1, <1>2, <2>1, AppendAscending, Zenon DEF q1
  <2> QED
    BY <1>3, <2>2
<1>6. /\ Ascending(q2)
      /\ \A k \in 1..(pushes + 1) : Above(q1, k) => Above(q2, k)
  <2>1. e2.n \in Nat /\ e2.n > pushes + 1 /\ pushes + 1 \in Nat
    BY <1>1, <1>3
  <2> QED
    BY <1>5, <2>1, AppendAscending, Zenon DEF q2
<1>7. \A k \in 1..pushes : Above(tasks, k) => Above(q2, k)
  BY <1>1, <1>5, <1>6
<1>8. /\ Ascending(tasks')
      /\ \A o \in outcomes : Above(tasks', o.n)
      /\ \A w \in Workers : Busy(w) => Above(tasks', held[w].n)
  BY <1>1, <1>2, <1>4, <1>5, <1>6, <1>7
<1>9. outcomes' = outcomes /\ held' = held /\ \A w \in Workers : Busy(w)' = Busy(w)
  BY DEF workerVars, storageVars, Busy
<1> QED
  BY <1>8, <1>9 DEF InOrder, Ascending, Above

(* Taking the first element off leaves a later part of the list.           *)
LEMMA TailInOrder ==
  ASSUME TypeOK, InOrder, tasks # << >>
  PROVE  /\ Tail(tasks) \in Seq(Entries)
         /\ Len(Tail(tasks)) \in Nat
         /\ \A i \in 1..Len(Tail(tasks)) :
               /\ Tail(tasks)[i] = tasks[i + 1]
               /\ i + 1 \in 1..Len(tasks)
               /\ Head(tasks).n < Tail(tasks)[i].n
<1>1. tasks \in Seq(Entries) /\ Len(tasks) \in Nat
  BY Numbers
<1>2. /\ Tail(tasks) \in Seq(Entries)
      /\ Len(Tail(tasks)) = Len(tasks) - 1
      /\ \A i \in 1..Len(Tail(tasks)) : Tail(tasks)[i] = tasks[i + 1]
      /\ Len(tasks) \in Nat \ {0}
  BY <1>1, HeadTailProperties, EmptySeq
<1>3. Head(tasks) = tasks[1]
  BY <1>1
<1> QED
  BY <1>1, <1>2, <1>3 DEF InOrder

LEMMA AtMostOnceKept ==
  ASSUME AtMostOnce, UNCHANGED <<pc, held, outcomes>>
  PROVE  AtMostOnce'
  BY DEF AtMostOnce, Busy

LEMMA OnceStep ==
  ASSUME OnceInv, [Next]_vars
  PROVE  InOrder' /\ AtMostOnce'
<1>a. TypeOK /\ InOrder /\ AtMostOnce
  BY DEF OnceInv
<1>b. /\ pushes \in Nat
      /\ tasks \in Seq(Entries)
      /\ Len(tasks) \in Nat
      /\ \A i \in 1..Len(tasks) : tasks[i].n \in 1..pushes
      /\ \A w \in Workers : Busy(w) => held[w].n \in 1..pushes
      /\ \A o \in outcomes : o.n \in 1..pushes
  BY <1>a, Numbers
<1>c. DOMAIN pc = Workers /\ DOMAIN held = Workers
  BY <1>a DEF TypeOK, WorkerTypeOK
<1>1. ASSUME UNCHANGED <<tasks, pc, held, outcomes>> PROVE InOrder' /\ AtMostOnce'
  BY <1>1, <1>a DEF InOrder, AtMostOnce, Busy
<1>2. ASSUME NEW raw, Push(raw), UNCHANGED <<workerVars, storageVars>>
      PROVE  InOrder' /\ AtMostOnce'
  <2>1. InOrder'
    BY <1>2, <1>a, <1>b, AppendInOrder DEF Push
  <2> QED
    BY <1>2, <1>a, <2>1, AtMostOnceKept DEF workerVars, storageVars
<1>3. ASSUME NEW r \in Requests, EnqueueRetried(r) PROVE InOrder' /\ AtMostOnce'
  <2>1. AtMostOnce'
    BY <1>3, <1>a, AtMostOnceKept DEF EnqueueRetried, workerVars, storageVars
  <2>2. InOrder'
    BY <1>3, <1>a, AppendInOrder DEF EnqueueRetried
  <2> QED
    BY <2>1, <2>2
<1>4. ASSUME NEW w \in Workers, Pop(w) PROVE InOrder' /\ AtMostOnce'
  <2>1. /\ tasks # << >>
        /\ tasks' = Tail(tasks)
        /\ held'[w] = Head(tasks)
        /\ pc'[w] = "process"
        /\ \A v \in Workers \ {w} : held'[v] = held[v] /\ pc'[v] = pc[v]
        /\ outcomes' = outcomes
    BY <1>4, <1>c DEF Pop, Popped, Goto, storageVars
  <2>2. Head(tasks) = tasks[1] /\ 1 \in 1..Len(tasks)
    BY <1>b, <2>1
  <2>3. InOrder'
    BY <1>a, <2>1, TailInOrder DEF InOrder, Busy
  <2>4. /\ \A o \in outcomes : o.n # held'[w].n
        /\ \A v \in Workers \ {w} : Busy(v) => held[v].n # held'[w].n
    BY <1>a, <1>b, <2>1, <2>2 DEF InOrder
  <2> QED
    BY <1>a, <2>1, <2>3, <2>4 DEF AtMostOnce, Busy
<1>5. ASSUME NEW w \in Workers, PopFails(w) PROVE InOrder' /\ AtMostOnce'
  <2>1. /\ held' = held
        /\ outcomes' = outcomes
        /\ \A v \in Workers : Busy(v)' => Busy(v)
        /\ \A v \in Workers : pc'[v] = "process" => pc[v] = "process"
    BY <1>5, <1>c DEF PopFails, Goto, Busy, storageVars
  <2>2. CASE tasks' = tasks
    BY <1>a, <2>1, <2>2, Zenon DEF InOrder, AtMostOnce
  <2>3. CASE tasks # << >> /\ tasks' = Tail(tasks)
    BY <1>a, <2>1, <2>3, TailInOrder DEF InOrder, AtMostOnce
  <2> QED
    BY <1>5, <2>2, <2>3 DEF PopFails, Popped
<1>6. ASSUME NEW w \in Workers, NEW err, pc[w] = "process", Finish(w, err)
      PROVE  InOrder' /\ AtMostOnce'
  <2>1. /\ tasks' = tasks
        /\ held' = held
        /\ pc'[w] = "complete"
        /\ \A v \in Workers \ {w} : pc'[v] = pc[v]
        /\ \A o \in outcomes' : o \in outcomes \/ o.n = held[w].n
    BY <1>6, <1>c DEF Finish, Goto, redisVars
  <2>2. \A v \in Workers : Busy(v)' = Busy(v)
    BY <1>6, <2>1 DEF Busy
  <2>3. InOrder'
    BY <1>6, <1>a, <2>1, <2>2 DEF InOrder, Busy
  <2>4. \A v \in Workers : pc'[v] = "process" => v # w /\ pc[v] = "process"
    BY <2>1
  <2>5. Busy(w)
    BY <1>6 DEF Busy
  <2> QED
    BY <1>a, <2>1, <2>2, <2>3, <2>4, <2>5, Zenon DEF AtMostOnce
<1>7. ASSUME NEW w \in Workers,
             CheckContext(w) \/ Wake(w) \/ Complete(w) \/ MainReturns(w)
               \/ Kill(w) \/ Start(w)
      PROVE  InOrder' /\ AtMostOnce'
  <2>1. /\ tasks' = tasks
        /\ outcomes' = outcomes
        /\ pc'[w] \notin {"process", "complete"}
        /\ \A v \in Workers \ {w} : pc'[v] = pc[v] /\ held'[v] = held[v]
    BY <1>7, <1>c, Zenon DEF CheckContext, Wake, Complete, MainReturns, Kill, Vanish,
       Start, Goto, redisVars, storageVars
  <2> QED
    BY <1>a, <2>1 DEF InOrder, AtMostOnce, Busy
<1>8. ASSUME NEW w \in Workers, Process(w) PROVE InOrder' /\ AtMostOnce'
  BY <1>6, <1>8 DEF Process, ProcessCreateFolder, ProcessMove, ProcessRejects
<1>9. ASSUME NEW r \in Requests, API(r) PROVE InOrder' /\ AtMostOnce'
  BY <1>1, <1>2, <1>3, <1>9
  DEF API, CreateFolder, Enqueue, EnqueueFails, redisVars, workerVars, storageVars
<1>10. ASSUME NEW w \in Workers, Interrupt(w) PROVE InOrder' /\ AtMostOnce'
  BY <1>1, <1>10 DEF Interrupt, redisVars, storageVars
<1>11. CASE UNCHANGED vars
  BY <1>1, <1>11 DEF vars, redisVars, workerVars, storageVars
<1> QED
  BY <1>2, <1>4, <1>5, <1>7, <1>8, <1>9, <1>10, <1>11
  DEF Next, PostTask, Loop, Main

(* The invariant, under every combination of faults.                       *)
THEOREM OnceInvariant == Spec => []OnceInv
<1>1. Init => OnceInv
  BY InitTypeOK DEF Init, OnceInv, InOrder, AtMostOnce, Busy
<1>2. OnceInv /\ [Next]_vars => OnceInv'
  BY OnceStep, TypeStep DEF OnceInv
<1> QED
  BY <1>1, <1>2, PTL DEF Spec

(* No list element is ever executed twice or by two workers: for any       *)
(* number of workers, under every combination of Redis errors, interrupts, *)
(* kills and restarts.                                                     *)
THEOREM ExecutedOnce == Spec => []AtMostOnce
<1>1. OnceInv => AtMostOnce
  BY DEF OnceInv
<1> QED
  BY <1>1, OnceInvariant, PTL

(* Elements are taken off in the order they were pushed: none is executed  *)
(* or held by any worker before one that was pushed earlier and waits.     *)
THEOREM TakenInOrder == Spec => []InOrder
<1>1. OnceInv => InOrder
  BY DEF OnceInv
<1> QED
  BY <1>1, OnceInvariant, PTL

-----------------------------------------------------------------------------
(* What a recorded status says.  A worker between Process and Complete     *)
(* carries the result of an execution that took place, and an execution    *)
(* without error left its folder behind.                                   *)
CarriesOutcome ==
  \A w \in Workers :
     pc[w] = "complete" =>
        \E o \in outcomes : /\ o.task = Decode(held[w].raw)
                            /\ result[w] = "success" <=> o.err = "nil"

EffectDone ==
  \A o \in outcomes :
     o.err = "nil" => \/ IsMove(o.task)
                      \/ IsCreateFolder(o.task) /\ FolderOf(o.task) \in folders

StatusInv == TypeOK /\ StatusJustified /\ CarriesOutcome /\ EffectDone

LEMMA StatusStep ==
  ASSUME StatusInv, [Next]_vars
  PROVE  StatusJustified' /\ CarriesOutcome' /\ EffectDone'
<1>a. TypeOK /\ StatusJustified /\ CarriesOutcome /\ EffectDone
  BY DEF StatusInv
<1>b. /\ DOMAIN pc = Workers /\ DOMAIN held = Workers /\ DOMAIN result = Workers
      /\ DOMAIN sent = Requests
  BY <1>a DEF TypeOK, WorkerTypeOK, ApiTypeOK
<1>1. ASSUME UNCHANGED <<status, pc, held, result, outcomes, folders>>
      PROVE  StatusJustified' /\ CarriesOutcome' /\ EffectDone'
  BY <1>1, <1>a DEF StatusJustified, CarriesOutcome, EffectDone
<1>2. ASSUME NEW w \in Workers,
             CheckContext(w) \/ Pop(w) \/ PopFails(w) \/ Wake(w)
               \/ MainReturns(w) \/ Kill(w) \/ Start(w)
      PROVE  StatusJustified' /\ CarriesOutcome' /\ EffectDone'
  <2>1. /\ status' = status /\ outcomes' = outcomes /\ folders' = folders
        /\ pc'[w] # "complete"
        /\ \A v \in Workers \ {w} :
              pc'[v] = pc[v] /\ held'[v] = held[v] /\ result'[v] = result[v]
    BY <1>2, <1>b DEF CheckContext, Pop, PopFails, Wake, MainReturns, Kill,
       Vanish, Start, Goto, redisVars, storageVars
  <2> QED
    BY <1>a, <2>1 DEF StatusJustified, CarriesOutcome, EffectDone
<1>3. ASSUME NEW w \in Workers, NEW err \in {"nil", "error"}, pc[w] = "process",
             Finish(w, err), folders \subseteq folders',
             err = "nil" =>
                \/ IsMove(Decode(held[w].raw))
                \/ /\ IsCreateFolder(Decode(held[w].raw))
                   /\ FolderOf(Decode(held[w].raw)) \in folders'
      PROVE  StatusJustified' /\ CarriesOutcome' /\ EffectDone'
  <2> DEFINE new == [n |-> held[w].n, task |-> Decode(held[w].raw), err |-> err]
  <2>1. /\ status' = status
        /\ outcomes' = outcomes \cup {new}
        /\ held' = held
        /\ result'[w] = StatusFor(err)
        /\ \A v \in Workers \ {w} : pc'[v] = pc[v] /\ result'[v] = result[v]
    BY <1>3, <1>b DEF Finish, Goto, redisVars
  <2>2. new.task = Decode(held[w].raw) /\ new.err = err
    BY Zenon
  <2> HIDE DEF new
  <2>3. StatusJustified'
    <3>1. outcomes \subseteq outcomes'
      BY <2>1
    <3> QED
      BY <1>a, <2>1, <3>1 DEF StatusJustified
  <2>4. CarriesOutcome'
    BY <1>a, <2>1, <2>2 DEF CarriesOutcome, StatusFor
  <2>5. EffectDone'
    BY <1>3, <1>a, <2>1, <2>2 DEF EffectDone
  <2> QED
    BY <2>3, <2>4, <2>5
<1>4. ASSUME NEW w \in Workers, Process(w)
      PROVE  StatusJustified' /\ CarriesOutcome' /\ EffectDone'
  <2>1. CASE ProcessCreateFolder(w)
    BY <1>3, <2>1 DEF ProcessCreateFolder
  <2>2. CASE ProcessMove(w)
    <3>1. /\ pc[w] = "process"
          /\ IsMove(Decode(held[w].raw))
          /\ folders' = folders
          /\ Finish(w, "nil") \/ Finish(w, "error")
      BY <2>2 DEF ProcessMove
    <3>2. folders \subseteq folders'
      BY <3>1
    <3>3. CASE Finish(w, "nil")
      BY <1>3, <3>1, <3>2, <3>3
    <3>4. CASE Finish(w, "error")
      BY <1>3, <3>1, <3>2, <3>4, Zenon
    <3> QED
      BY <3>1, <3>3, <3>4, Zenon
  <2>3. CASE ProcessRejects(w)
    BY <1>3, <2>3 DEF ProcessRejects
  <2> QED
    BY <1>4, <2>1, <2>2, <2>3, Zenon DEF Process
<1>5. ASSUME NEW w \in Workers, Complete(w)
      PROVE  StatusJustified' /\ CarriesOutcome' /\ EffectDone'
  <2>1. /\ pc[w] = "complete" /\ pc'[w] = "loop"
        /\ outcomes' = outcomes /\ folders' = folders
        /\ \A v \in Workers \ {w} :
              pc'[v] = pc[v] /\ held'[v] = held[v] /\ result'[v] = result[v]
    BY <1>5, <1>b, Zenon DEF Complete, Goto, storageVars
  <2>2. CarriesOutcome' /\ EffectDone'
    BY <1>a, <2>1 DEF CarriesOutcome, EffectDone
  <2>3. CASE status' = status
    BY <1>a, <2>1, <2>2, <2>3 DEF StatusJustified
  <2>4. CASE Record(w)
    <3>1. PICK o \in outcomes : /\ o.task = Decode(held[w].raw)
                                /\ result[w] = "success" <=> o.err = "nil"
      BY <1>a, <2>1 DEF CarriesOutcome
    <3>2. /\ DOMAIN status' = DOMAIN status \cup {o.task.id}
          /\ status'[o.task.id] = result[w]
          /\ \A id \in DOMAIN status : id # o.task.id => status'[id] = status[id]
      BY <2>4, <3>1 DEF Record, RedisSet
    <3> QED
      BY <1>a, <2>1, <2>2, <3>1, <3>2 DEF StatusJustified
  <2> QED
    BY <1>5, <2>3, <2>4 DEF Complete
<1>6. ASSUME NEW r \in Requests, API(r)
      PROVE  StatusJustified' /\ CarriesOutcome' /\ EffectDone'
  BY <1>1, <1>6 DEF API, CreateFolder, Enqueue, EnqueueRetried, EnqueueFails,
     Push, redisVars, workerVars, storageVars
<1>7. ASSUME NEW raw \in Posted, PostTask(raw)
      PROVE  StatusJustified' /\ CarriesOutcome' /\ EffectDone'
  BY <1>1, <1>7 DEF PostTask, Push, workerVars, storageVars
<1>8. ASSUME NEW w \in Workers, Interrupt(w)
      PROVE  StatusJustified' /\ CarriesOutcome' /\ EffectDone'
  BY <1>1, <1>8 DEF Interrupt, redisVars, storageVars
<1>9. CASE UNCHANGED vars
  BY <1>1, <1>9 DEF vars, redisVars, workerVars, storageVars
<1> QED
  BY <1>2, <1>4, <1>5, <1>6, <1>7, <1>8, <1>9 DEF Next, Loop, Main

LEMMA InitStatusInv == Init => StatusInv
  BY InitTypeOK
  DEF Init, StatusInv, StatusJustified, CarriesOutcome, EffectDone

LEMMA StatusInvStep == StatusInv /\ [Next]_vars => StatusInv'
  BY StatusStep, TypeStep DEF StatusInv

(* Every status in Redis is the result of an execution of a task with that *)
(* id, whatever faults happen and however the clock behaves.               *)
THEOREM StatusIsJustified == Spec => []StatusJustified
<1>1. StatusInv => StatusJustified
  BY DEF StatusInv
<1> QED
  BY <1>1, InitStatusInv, StatusInvStep, PTL DEF Spec

-----------------------------------------------------------------------------
(* When every reading of the clock is later than the one before it, ids    *)
(* name requests, and "success" can be trusted.                            *)
IdsDistinct ==
  /\ \A r \in Requests :
        call[r] # "idle" => \E t \in Nat : t < clock /\ sent[r].id = TimeId(t)
  /\ \A r, q \in Requests :
        call[r] # "idle" /\ call[q] # "idle" /\ sent[r].id = sent[q].id => r = q

LEMMA TimeIdInjective ==
  ASSUME NEW s \in Nat, NEW t \in Nat, TimeId(s) = TimeId(t)
  PROVE  s = t
  BY DEF TimeId

LEMMA TimeIdNotEmpty == \A t : TimeId(t) # << >> /\ TimeId(t)[1] = "time"
<1> SUFFICES ASSUME NEW t PROVE Len(TimeId(t)) = 2 /\ TimeId(t)[1] = "time"
  OBVIOUS
<1> QED
  BY DEF TimeId

LEMMA IdsStep ==
  ASSUME 0 \notin ClockSteps, TypeOK, IdsDistinct, [Next]_vars
  PROVE  IdsDistinct'
<1>a. /\ clock \in Nat
      /\ call \in [Requests -> {"idle", "pushing", "queued", "error"}]
      /\ DOMAIN sent = Requests
  BY DEF TypeOK, ApiTypeOK
<1>1. ASSUME UNCHANGED <<clock, sent>>,
             \A r \in Requests : call'[r] # "idle" => call[r] # "idle"
      PROVE  IdsDistinct'
  BY <1>1 DEF IdsDistinct
<1>2. ASSUME NEW r \in Requests, CreateFolder(r) PROVE IdsDistinct'
  <2>1. clock' \in Nat /\ clock' > clock
    BY <1>2, <1>a, ClockAssumption DEF CreateFolder
  <2>2. /\ sent'[r].id = TimeId(clock)
        /\ call[r] = "idle"
        /\ \A q \in Requests \ {r} : sent'[q] = sent[q] /\ call'[q] = call[q]
    BY <1>2, <1>a DEF CreateFolder, CreateFolderTask
  <2>3. ASSUME NEW q \in Requests \ {r}, call[q] # "idle"
        PROVE  sent[q].id # TimeId(clock)
    BY <1>a, <2>3, TimeIdInjective DEF IdsDistinct
  <2>4. ASSUME NEW q \in Requests, call'[q] # "idle"
        PROVE  \E t \in Nat : t < clock' /\ sent'[q].id = TimeId(t)
    <3>1. CASE q = r
      BY <1>a, <2>1, <2>2, <3>1
    <3>2. CASE q # r
      <4>1. PICK t \in Nat : t < clock /\ sent[q].id = TimeId(t)
        BY <2>2, <2>4, <3>2 DEF IdsDistinct
      <4> QED
        BY <1>a, <2>1, <2>2, <3>2, <4>1
    <3> QED
      BY <3>1, <3>2
  <2>5. ASSUME NEW p \in Requests, NEW q \in Requests, call'[p] # "idle",
               call'[q] # "idle", sent'[p].id = sent'[q].id
        PROVE  p = q
    BY <2>2, <2>3, <2>5 DEF IdsDistinct
  <2> QED
    BY <2>4, <2>5 DEF IdsDistinct
<1>3. ASSUME NEW r \in Requests, API(r) PROVE IdsDistinct'
  <2>1. CASE Enqueue(r) \/ EnqueueRetried(r) \/ EnqueueFails(r)
    BY <1>1, <1>a, <2>1 DEF Enqueue, EnqueueRetried, EnqueueFails
  <2> QED
    BY <1>2, <1>3, <2>1 DEF API
<1>4. ASSUME UNCHANGED apiVars PROVE IdsDistinct'
  BY <1>1, <1>4 DEF apiVars
<1>5. ASSUME NEW w \in Workers, Loop(w) \/ Main(w) PROVE UNCHANGED apiVars
  BY <1>5, ZenonT(30) DEF Loop, CheckContext, Pop, PopFails, Wake, Process,
     ProcessCreateFolder, ProcessMove, ProcessRejects, Finish, Complete,
     Main, Interrupt, MainReturns, Kill, Vanish, Start
<1> QED
  BY <1>3, <1>4, <1>5 DEF Next, PostTask, vars

LEMMA InvImpliesSuccessIsReal ==
  ASSUME StatusInv, IdsDistinct
  PROVE  SuccessIsReal
<1> SUFFICES ASSUME NEW r \in Requests, call[r] = "queued",
                    sent[r].id \in DOMAIN status,
                    status[sent[r].id] = "success"
             PROVE  FolderOf(sent[r]) \in folders
  BY Zenon DEF SuccessIsReal
<1>1. PICK o \in outcomes : o.task.id = sent[r].id /\ o.err = "nil"
  BY DEF StatusInv, StatusJustified
<1>2. PICK raw \in Raws : o.task = Decode(raw)
  BY <1>1 DEF StatusInv, TypeOK, OutcomeTypeOK
<1>3. PICK t \in Nat : sent[r].id = TimeId(t)
  BY DEF IdsDistinct
<1>4. raw # Garbage
  <2> SUFFICES ASSUME raw = Garbage PROVE o.task.id = << >>
    BY <1>1, <1>3, TimeIdNotEmpty, Zenon
  <2>1. o.task = ZeroTask
    BY <1>2, Zenon DEF Decode
  <2>2. ZeroTask.id = << >>
    BY Zenon DEF ZeroTask
  <2> QED
    BY <2>1, <2>2, Zenon
<1>5. o.task = raw
  BY <1>2, <1>4 DEF Decode
<1>6. raw \notin Posted
  BY <1>1, <1>3, <1>4, <1>5, PostedAssumption, TimeIdNotEmpty
<1>7. PICK q \in Requests : call[q] # "idle" /\ raw = sent[q]
  BY <1>6 DEF Raws
<1>8. q = r
  BY <1>1, <1>5, <1>7 DEF IdsDistinct
<1>9. sent[r].type = "create_folder"
  <2>1. \E t0 \in 0..clock, parent \in ParentPaths, name \in FolderNames :
           sent[r] = CreateFolderTask(t0, parent, name)
    BY DEF StatusInv, TypeOK, ApiTypeOK
  <2> QED
    BY <2>1 DEF CreateFolderTask
<1>10. ~IsMove(o.task)
  BY <1>5, <1>7, <1>8, <1>9 DEF IsMove
<1> QED
  BY <1>1, <1>5, <1>7, <1>8, <1>10, Zenon DEF StatusInv, EffectDone

(* If no two readings of the clock are equal, a caller that reads          *)
(* "success" under the id it was given has the folder it asked for.        *)
THEOREM SuccessCanBeTrusted ==
  ASSUME 0 \notin ClockSteps
  PROVE  Spec => []SuccessIsReal
<1>1. Init => StatusInv /\ IdsDistinct
  BY InitStatusInv DEF Init, IdsDistinct
<1>2. StatusInv /\ IdsDistinct /\ [Next]_vars => StatusInv' /\ IdsDistinct'
  BY StatusInvStep, IdsStep DEF StatusInv
<1>3. StatusInv /\ IdsDistinct => SuccessIsReal
  BY InvImpliesSuccessIsReal
<1> QED
  BY <1>1, <1>2, <1>3, PTL DEF Spec

-----------------------------------------------------------------------------
(* A status is the result of an element, and an element has one result.    *)
OneResult == \A o, q \in outcomes : o.n = q.n => o = q

StableInv == OnceInv /\ StatusInv /\ OneResult

LEMMA OneResultStep ==
  ASSUME OnceInv, OneResult, [Next]_vars
  PROVE  OneResult'
<1>1. ASSUME outcomes' = outcomes PROVE OneResult'
  BY <1>1 DEF OneResult
<1>2. ASSUME NEW w \in Workers, NEW err, pc[w] = "process", Finish(w, err)
      PROVE  OneResult'
  <2>1. PICK new : /\ new = [n |-> held[w].n, task |-> Decode(held[w].raw), err |-> err]
                   /\ outcomes' = outcomes \cup {new}
    BY <1>2 DEF Finish
  <2>2. new.n = held[w].n
    BY <2>1
  <2>3. \A o \in outcomes : o.n # new.n
    BY <1>2, <2>2 DEF OnceInv, AtMostOnce
  <2> QED
    BY <2>1, <2>3 DEF OneResult
<1>3. ASSUME NEW w \in Workers, Process(w) PROVE OneResult'
  BY <1>2, <1>3 DEF Process, ProcessCreateFolder, ProcessMove, ProcessRejects
<1>4. ASSUME NEW w \in Workers,
             \/ CheckContext(w) \/ Pop(w) \/ PopFails(w) \/ Wake(w) \/ Complete(w)
             \/ Interrupt(w) \/ MainReturns(w) \/ Kill(w) \/ Start(w)
      PROVE  outcomes' = outcomes
  BY <1>4, ZenonT(30) DEF CheckContext, Pop, PopFails, Wake, Complete, Interrupt, MainReturns,
     Kill, Vanish, Start, storageVars
<1>5. ASSUME NEW r \in Requests, API(r) PROVE outcomes' = outcomes
  BY <1>5 DEF API, CreateFolder, Enqueue, EnqueueRetried, EnqueueFails, storageVars
<1>6. ASSUME NEW raw \in Posted, PostTask(raw) PROVE outcomes' = outcomes
  BY <1>6 DEF PostTask, storageVars
<1>7. CASE UNCHANGED vars
  BY <1>1, <1>7 DEF vars, storageVars
<1> QED
  BY <1>1, <1>3, <1>4, <1>5, <1>6, <1>7 DEF Next, Loop, Main

(* The two results that a change of status takes.                          *)
Twice(id) ==
  \E o, q \in outcomes :
     /\ o.n # q.n
     /\ o.task.id = id /\ q.task.id = id
     /\ o.err = "nil" /\ q.err # "nil"

LEMMA StableStep ==
  ASSUME StableInv, [Next]_vars, NEW id \in DOMAIN status
  PROVE  id \in DOMAIN status' /\ (status'[id] # status[id] => Twice(id))
<1>1. ASSUME NEW w \in Workers, Complete(w)
      PROVE  id \in DOMAIN status' /\ (status'[id] # status[id] => Twice(id))
  <2>1. CASE status' = status
    BY <2>1
  <2>2. CASE Record(w)
    <3>1. /\ DOMAIN status' = DOMAIN status \cup {Decode(held[w].raw).id}
          /\ id = Decode(held[w].raw).id => status'[id] = result[w]
          /\ id # Decode(held[w].raw).id => status'[id] = status[id]
      BY <2>2 DEF Record, RedisSet
    <3>2. ASSUME id = Decode(held[w].raw).id, result[w] # status[id] PROVE Twice(id)
      <4>1. PICK q \in outcomes : /\ q.task = Decode(held[w].raw)
                                  /\ result[w] = "success" <=> q.err = "nil"
        BY <1>1 DEF StableInv, StatusInv, CarriesOutcome, Complete
      <4>2. PICK o \in outcomes : /\ o.task.id = id
                                  /\ status[id] = "success" <=> o.err = "nil"
        BY DEF StableInv, StatusInv, StatusJustified
      <4>3. result[w] \in {"success", "failed"} /\ status[id] \in {"success", "failed"}
        BY <1>1 DEF StableInv, StatusInv, TypeOK, WorkerTypeOK, RedisTypeOK, Complete
      <4>4. o.err = "nil" <=> q.err # "nil"
        BY <3>2, <4>1, <4>2, <4>3
      <4>5. o.n # q.n
        BY <4>4 DEF StableInv, OneResult
      <4> QED
        BY <3>2, <4>1, <4>2, <4>4, <4>5 DEF Twice
    <3> QED
      BY <3>1, <3>2
  <2> QED
    BY <1>1, <2>1, <2>2 DEF Complete
<1>2. ASSUME NEW w \in Workers,
             \/ CheckContext(w) \/ Pop(w) \/ PopFails(w) \/ Wake(w) \/ Process(w)
             \/ Interrupt(w) \/ MainReturns(w) \/ Kill(w) \/ Start(w)
      PROVE  status' = status
  BY <1>2, ZenonT(30) DEF CheckContext, Pop, PopFails, Wake, Process, ProcessCreateFolder,
     ProcessMove, ProcessRejects, Finish, Interrupt, MainReturns, Kill, Vanish, Start, redisVars
<1>3. ASSUME NEW r \in Requests, API(r) PROVE status' = status
  BY <1>3 DEF API, CreateFolder, Enqueue, EnqueueRetried, EnqueueFails, Push, redisVars
<1>4. ASSUME NEW raw \in Posted, PostTask(raw) PROVE status' = status
  BY <1>4 DEF PostTask, Push
<1>5. UNCHANGED vars => status' = status
  BY DEF vars, redisVars
<1> QED
  BY <1>1, <1>2, <1>3, <1>4, <1>5 DEF Next, Loop, Main

(* Whatever faults happen, repeated pushes included, and however the clock *)
(* behaves: RedisQueue.Complete replaces a status only if two elements     *)
(* with the id were executed with different results, and none is lost.     *)
THEOREM StatusesAreStable == Spec => StatusStable
<1>1. Init => StableInv
  <2>1. Init => OnceInv /\ StatusInv
    BY InitTypeOK, InitStatusInv DEF Init, OnceInv, InOrder, AtMostOnce, Busy
  <2> QED
    BY <2>1 DEF StableInv, Init, OneResult
<1>2. StableInv /\ [Next]_vars => StableInv'
  <2> SUFFICES ASSUME StableInv, [Next]_vars PROVE StableInv'
    OBVIOUS
  <2>1. OnceInv /\ StatusInv /\ OneResult
    BY DEF StableInv
  <2>2. OnceInv'
    BY <2>1, OnceStep, TypeStep DEF OnceInv
  <2>3. StatusInv'
    BY <2>1, StatusInvStep
  <2>4. OneResult'
    BY <2>1, OneResultStep
  <2> QED
    BY <2>2, <2>3, <2>4 DEF StableInv
<1>3. StableInv /\ [Next]_vars =>
        [\A id \in DOMAIN status :
            /\ id \in DOMAIN status'
            /\ status'[id] # status[id] =>
                  \E o, q \in outcomes :
                     /\ o.n # q.n
                     /\ o.task.id = id /\ q.task.id = id
                     /\ o.err = "nil" /\ q.err # "nil"]_vars
  BY StableStep DEF Twice
<1> QED
  BY <1>1, <1>2, <1>3, PTL DEF Spec, StatusStable
=============================================================================
