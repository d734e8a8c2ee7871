-------------------------- MODULE ObjectStoreProofs --------------------------
(***************************************************************************)
(* Proofs about ObjectStore and ObjectList, for any number of calls,       *)
(* listings, paths and values.                                             *)
(***************************************************************************)
EXTENDS ObjectList, TLAPS

(* The provers that a leaf is given to, in turn, unless it names its own.  *)
USE SMT, Zenon, SMTT(10), SMTT(20)

Names == {Final(p) : p \in Paths} \cup (Paths \X Ops)

BucketOK(b) ==
    /\ b = [n \in DOMAIN b |-> b[n]]
    /\ DOMAIN b \subseteq Names
    /\ \A p \in Paths : Final(p) \in DOMAIN b => b[Final(p)] \in AllValues
    /\ \A n \in DOMAIN b : b[n] \in AllValues \cup {Partial}

(* The kind of call that makes each request.                               *)
Serves(label, op) ==
    /\ label \in {"put", "copyTmp", "deleteTmp"} => op = "write"
    /\ label \in {"copy", "deleteSrc"} => op = "move"
    /\ label = "delete" => op = "delete"

ReqOK ==
    \A o \in Ops : pc[o] # "idle" => req[o] \in Calls /\ Serves(pc[o], req[o].op)

(* What a call uploaded is there, unchanged, until the call copies it.     *)
UploadKept ==
    \A o \in Ops :
       pc[o] = "copyTmp" => Tmp(o) \in DOMAIN bucket /\ bucket[Tmp(o)] = req[o].value

TypeInv == TypeOK /\ BucketOK(bucket) /\ ReqOK /\ UploadKept

-----------------------------------------------------------------------------
(* The key of a path is not a temporary name, and temporary names tell the *)
(* calls apart.                                                            *)
LEMMA NamesDiffer ==
    ASSUME NEW p, NEW q, NEW x, NEW o
    PROVE  <<p>> # <<x, o>> /\ (<<p>> = <<q>> => p = q)
<1>1. Len(<<p>>) = 1 /\ Len(<<x, o>>) = 2
  OBVIOUS
<1>2. <<p>>[1] = p /\ <<q>>[1] = q
  OBVIOUS
<1> QED
  BY <1>1, <1>2, Zenon

(* What the arguments of each kind of call are.                            *)
LEMMA CallKinds ==
    ASSUME NEW c \in Calls
    PROVE  /\ c.op = "write"  => c.path \in Paths /\ c.value \in Values
           /\ c.op = "delete" => c.path \in Paths
           /\ c.op = "move"   => /\ c.src \in Paths /\ c.dst \in Paths
                                 /\ <<c.src, c.dst>> \in MovePairs
           /\ c.op \in {"write", "delete", "move"}
<1>1. CASE c \in [op : {"write"}, path : WritePaths, value : Values]
  BY <1>1, PathAssumption
<1>2. CASE c \in [op : {"delete"}, path : DeletePaths]
  BY <1>2, PathAssumption
<1>3. CASE c \in {[op |-> "move", src |-> m[1], dst |-> m[2]] : m \in MovePairs}
  <2>1. PICK m \in MovePairs : c = [op |-> "move", src |-> m[1], dst |-> m[2]]
    BY <1>3
  <2>2. PICK p \in Paths, q \in Paths : m = <<p, q>>
    BY PathAssumption
  <2> QED
    BY <2>1, <2>2
<1> QED
  BY <1>1, <1>2, <1>3 DEF Calls

(* Storing a whole content under a key, anything under a temporary name,   *)
(* and deleting keep the bucket well formed.                               *)
LEMMA PutFinalOK ==
    ASSUME NEW b, BucketOK(b), NEW p \in Paths, NEW v \in AllValues
    PROVE  BucketOK(Put(b, Final(p), v))
BY DEF BucketOK, Put, Names

LEMMA PutTmpOK ==
    ASSUME NEW b, BucketOK(b), NEW p \in Paths, NEW o \in Ops,
           NEW v \in AllValues \cup {Partial}
    PROVE  BucketOK(Put(b, <<p, o>>, v))
<1>1. \A q \in Paths : Final(q) # <<p, o>>
  BY NamesDiffer DEF Final
<1>2. <<p, o>> \in Names
  BY DEF Names
<1> QED
  BY <1>1, <1>2 DEF BucketOK, Put

LEMMA DropOK ==
    ASSUME NEW b, BucketOK(b), NEW n
    PROVE  BucketOK(Drop(b, n))
BY DEF BucketOK, Drop

-----------------------------------------------------------------------------
Labels == {"put", "copyTmp", "deleteTmp", "copy", "deleteSrc", "delete", "ok", "error"}

(* The uploads of the calls other than o are as they were.                 *)
OthersKept(o, b) ==
    \A q \in Ops \ {o} :
       pc[q] = "copyTmp" => Tmp(q) \in DOMAIN b /\ b[Tmp(q)] = bucket[Tmp(q)]

(* A request of o stores or deletes under a key, or under its own name.    *)
LEMMA Elsewhere ==
    ASSUME TypeInv, NEW o \in Ops, NEW n, NEW v,
           n = Tmp(o) \/ \E p \in Paths : n = Final(p)
    PROVE  /\ OthersKept(o, bucket)
           /\ OthersKept(o, Put(bucket, n, v))
           /\ OthersKept(o, Drop(bucket, n))
<1>1. \A q \in Ops \ {o} : Tmp(q) # n
  <2>1. CASE n = Tmp(o)
    BY <2>1 DEF Tmp
  <2>2. CASE \E p \in Paths : n = Final(p)
    BY <2>2, NamesDiffer DEF Tmp, Final
  <2> QED
    BY <2>1, <2>2, Zenon
<1>2. \A q \in Ops : pc[q] = "copyTmp" => Tmp(q) \in DOMAIN bucket
  BY DEF TypeInv, UploadKept
<1> HIDE DEF Tmp
<1> QED
  BY <1>1, <1>2 DEF OthersKept, Put, Drop

(* One request of a call, and where the call goes after it.                *)
LEMMA RequestKeepsTypes ==
    ASSUME TypeInv, NEW o \in Ops, pc[o] # "idle",
           NEW label \in Labels, Serves(label, req[o].op), Goto(o, label),
           backend' = backend, req' = req,
           BucketOK(bucket'), OthersKept(o, bucket'),
           label = "copyTmp" =>
              Tmp(o) \in DOMAIN bucket' /\ bucket'[Tmp(o)] = req[o].value
    PROVE  TypeInv'
<1>1. pc' = [pc EXCEPT ![o] = label] /\ pc \in [Ops -> Labels \cup {"idle"}]
  BY DEF Goto, TypeInv, TypeOK, Labels
<1>2. TypeOK'
  BY <1>1 DEF TypeInv, TypeOK, BucketOK, Names, Labels
<1>3. ReqOK'
  BY <1>1 DEF TypeInv, ReqOK
<1>4. \A q \in Ops : Tmp(q)' = Tmp(q)
  BY DEF Tmp
<1>5. UploadKept'
  <2> SUFFICES ASSUME NEW q \in Ops, pc'[q] = "copyTmp"
               PROVE  Tmp(q) \in DOMAIN bucket' /\ bucket'[Tmp(q)] = req[q].value
    BY <1>4 DEF UploadKept
  <2>1. CASE q = o
    BY <1>1, <2>1
  <2>2. CASE q # o
    <3>1. pc[q] = "copyTmp"
      BY <1>1, <2>2
    <3> QED
      BY <2>2, <3>1 DEF OthersKept, TypeInv, UploadKept
  <2> QED
    BY <2>1, <2>2
<1> QED
  BY <1>2, <1>3, <1>5 DEF TypeInv

-----------------------------------------------------------------------------
LEMMA TypeInit == Init => TypeInv
<1> SUFFICES ASSUME Init
             PROVE  TypeInv
  OBVIOUS
<1>1. \A p \in Paths : Final(p)[1] = p
  BY DEF Final
<1>2. \A n \in DOMAIN bucket : \E p \in DOMAIN InitialObjects :
         n = Final(p) /\ bucket[n] = InitialObjects[p]
  BY <1>1, PathAssumption DEF Init
<1>3. BucketOK(bucket)
  <2>1. bucket = [n \in DOMAIN bucket |-> bucket[n]]
    BY DEF Init
  <2> QED
    BY <1>2, <2>1, PathAssumption DEF BucketOK, Names, AllValues, Originals
<1> QED
  BY <1>3 DEF Init, TypeInv, TypeOK, BucketOK, Names, ReqOK, UploadKept

LEMMA BeginKeepsTypes ==
    ASSUME TypeInv, NEW o \in Ops, Begin(o)
    PROVE  TypeInv'
<1>1. PICK c \in Calls : req' = [req EXCEPT ![o] = c] /\ Goto(o, FirstRequest(c))
  BY Zenon DEF Begin
<1>2. c.op \in {"write", "delete", "move"}
  BY CallKinds, Zenon
<1>3. FirstRequest(c) \in {"put", "copy", "delete"} /\ Serves(FirstRequest(c), c.op)
  BY <1>2 DEF FirstRequest, Serves
<1>4. pc' = [pc EXCEPT ![o] = FirstRequest(c)] /\ bucket' = bucket /\ backend' = backend
  BY <1>1, Zenon DEF Begin, Goto
<1>5. TypeOK'
  BY <1>1, <1>3, <1>4 DEF TypeInv, TypeOK
<1>6. ReqOK'
  BY <1>1, <1>3, <1>4 DEF TypeInv, TypeOK, ReqOK
<1>7. UploadKept'
  <2>1. \A q \in Ops : pc'[q] = "copyTmp" => pc[q] = "copyTmp" /\ q # o
    BY <1>3, <1>4 DEF TypeInv, TypeOK
  <2>2. \A q \in Ops \ {o} : req'[q] = req[q] /\ Tmp(q)' = Tmp(q)
    BY <1>1 DEF TypeInv, TypeOK, Tmp
  <2> QED
    BY <1>4, <2>1, <2>2 DEF TypeInv, UploadKept
<1> QED
  BY <1>4, <1>5, <1>6, <1>7 DEF TypeInv

LEMMA WriteKeepsTypes ==
    ASSUME TypeInv, NEW o \in Ops, PutTmp(o) \/ CopyTmp(o) \/ DeleteTmp(o)
    PROVE  TypeInv'
<1>1. /\ pc[o] # "idle" /\ req[o] \in Calls /\ req[o].op = "write"
      /\ backend' = backend /\ req' = req
  BY DEF PutTmp, CopyTmp, DeleteTmp, TypeInv, ReqOK, Serves
<1>2. req[o].path \in Paths /\ req[o].value \in AllValues
  BY <1>1, CallKinds, Zenon DEF AllValues
<1>3. BucketOK(bucket)
  BY DEF TypeInv
<1>4. \A v \in AllValues \cup {Partial} :
         BucketOK(Put(bucket, Tmp(o), v)) /\ OthersKept(o, Put(bucket, Tmp(o), v))
  BY <1>2, <1>3, PutTmpOK, Elsewhere DEF Tmp
<1>5. OthersKept(o, bucket)
  BY Elsewhere
<1>6. \A label \in {"copyTmp", "deleteTmp", "ok", "error"} :
         label \in Labels /\ Serves(label, req[o].op)
  BY <1>1 DEF Labels, Serves
<1>7. CASE PutTmp(o)
  <2>1. CASE bucket' = Put(bucket, Tmp(o), req[o].value) /\ Goto(o, "copyTmp")
    <3>1. Tmp(o) \in DOMAIN bucket' /\ bucket'[Tmp(o)] = req[o].value
      BY <2>1 DEF Put
    <3>2. BucketOK(bucket') /\ OthersKept(o, bucket')
      BY <1>2, <1>4, <2>1
    <3> QED
      BY <1>1, <1>6, <2>1, <3>1, <3>2, RequestKeepsTypes
  <2>2. CASE Goto(o, "error") /\ \E v \in AllValues \cup {Partial} :
                bucket' \in {bucket, Put(bucket, Tmp(o), v)}
    <3>1. BucketOK(bucket') /\ OthersKept(o, bucket')
      BY <1>3, <1>4, <1>5, <2>2
    <3> QED
      BY <1>1, <1>6, <2>2, <3>1, RequestKeepsTypes
  <2> QED
    BY <1>2, <1>7, <2>1, <2>2 DEF PutTmp, RequestFails
<1>8. CASE CopyTmp(o)
  <2> DEFINE copied == Put(bucket, Final(req[o].path), bucket[Tmp(o)])
  <2>1. bucket[Tmp(o)] \in AllValues
    BY <1>2, <1>8 DEF CopyTmp, TypeInv, UploadKept
  <2>2. BucketOK(copied) /\ OthersKept(o, copied)
    BY <1>2, <1>3, <2>1, PutFinalOK, Elsewhere
  <2>3. PICK label \in {"deleteTmp", "error"} :
           Goto(o, label) /\ bucket' \in {bucket, copied}
    BY <1>8 DEF CopyTmp, RequestFails
  <2>4. BucketOK(bucket') /\ OthersKept(o, bucket')
    BY <1>3, <1>5, <2>2, <2>3
  <2> QED
    BY <1>1, <1>6, <2>3, <2>4, RequestKeepsTypes
<1>9. CASE DeleteTmp(o)
  <2>1. bucket' \in {bucket, Drop(bucket, Tmp(o))} /\ Goto(o, "ok")
    BY <1>9 DEF DeleteTmp
  <2>2. BucketOK(Drop(bucket, Tmp(o))) /\ OthersKept(o, Drop(bucket, Tmp(o)))
    BY <1>3, DropOK, Elsewhere
  <2>3. BucketOK(bucket') /\ OthersKept(o, bucket')
    BY <1>3, <1>5, <2>1, <2>2
  <2> QED
    BY <1>1, <1>6, <2>1, <2>3, RequestKeepsTypes
<1> QED
  BY <1>7, <1>8, <1>9

LEMMA RemoveKeepsTypes ==
    ASSUME TypeInv, NEW o \in Ops, NEW p \in Paths, pc[o] # "idle", Remove(o, p)
    PROVE  TypeInv'
<1>1. BucketOK(bucket) /\ BucketOK(Drop(bucket, Final(p)))
  BY DropOK DEF TypeInv
<1>2. OthersKept(o, bucket) /\ OthersKept(o, Drop(bucket, Final(p)))
  BY Elsewhere
<1>3. PICK label \in {"ok", "error"} :
         Goto(o, label) /\ bucket' \in {bucket, Drop(bucket, Final(p))}
  BY DEF Remove, RequestFails
<1>4. BucketOK(bucket') /\ OthersKept(o, bucket')
  BY <1>1, <1>2, <1>3
<1>5. label \in Labels /\ label # "copyTmp" /\ Serves(label, req[o].op)
  BY DEF Labels, Serves
<1>6. backend' = backend /\ req' = req
  BY DEF Remove
<1> QED
  BY <1>3, <1>4, <1>5, <1>6, RequestKeepsTypes

LEMMA CopyKeepsTypes ==
    ASSUME TypeInv, NEW o \in Ops, Copy(o)
    PROVE  TypeInv'
<1> DEFINE src == req[o].src
           dst == req[o].dst
           copied == Put(bucket, Final(dst), bucket[Final(src)])
<1>1. /\ pc[o] # "idle" /\ req[o] \in Calls /\ req[o].op = "move"
      /\ backend' = backend /\ req' = req
  BY DEF Copy, TypeInv, ReqOK, Serves
<1>2. src \in Paths /\ dst \in Paths
  BY <1>1, CallKinds, Zenon
<1>3. BucketOK(bucket) /\ OthersKept(o, bucket)
  BY Elsewhere DEF TypeInv
<1>4. PICK label \in {"deleteSrc", "error"} :
         /\ Goto(o, label)
         /\ bucket' = bucket \/ (Final(src) \in DOMAIN bucket /\ bucket' = copied)
  BY DEF Copy, RequestFails, CopyRefused
<1>5. label \in Labels /\ label # "copyTmp" /\ Serves(label, req[o].op)
  BY <1>1 DEF Labels, Serves
<1>6. BucketOK(bucket') /\ OthersKept(o, bucket')
  <2>1. CASE bucket' = bucket
    BY <1>3, <2>1
  <2>2. CASE Final(src) \in DOMAIN bucket /\ bucket' = copied
    <3>1. bucket[Final(src)] \in AllValues
      BY <1>2, <1>3, <2>2 DEF BucketOK
    <3>2. BucketOK(copied) /\ OthersKept(o, copied)
      BY <1>2, <1>3, <3>1, PutFinalOK, Elsewhere
    <3> QED
      BY <2>2, <3>2
  <2> QED
    BY <1>4, <2>1, <2>2
<1> QED
  BY <1>1, <1>4, <1>5, <1>6, RequestKeepsTypes

LEMMA TypeStep == TypeInv /\ [Next]_vars => TypeInv'
<1> SUFFICES ASSUME TypeInv, [Next]_vars
             PROVE  TypeInv'
  OBVIOUS
<1>1. ASSUME NEW o \in Ops, Begin(o)
      PROVE  TypeInv'
  BY <1>1, BeginKeepsTypes
<1>2. ASSUME NEW o \in Ops, PutTmp(o) \/ CopyTmp(o) \/ DeleteTmp(o)
      PROVE  TypeInv'
  BY <1>2, WriteKeepsTypes
<1>3. ASSUME NEW o \in Ops, Copy(o)
      PROVE  TypeInv'
  BY <1>3, CopyKeepsTypes
<1>4. ASSUME NEW o \in Ops, DeleteSrc(o) \/ Delete(o)
      PROVE  TypeInv'
  <2>1. PICK p \in Paths : pc[o] # "idle" /\ Remove(o, p)
    BY <1>4, CallKinds, Zenon DEF DeleteSrc, Delete, TypeInv, ReqOK, Serves
  <2> QED
    BY <2>1, RemoveKeepsTypes
<1>5. ASSUME NEW o \in Ops, Crash(o)
      PROVE  TypeInv'
  <2>1. /\ pc[o] # "idle" /\ Goto(o, "error")
        /\ backend' = backend /\ req' = req /\ bucket' = bucket
    BY <1>5 DEF Crash
  <2>2. BucketOK(bucket) /\ OthersKept(o, bucket)
    BY Elsewhere DEF TypeInv
  <2>3. "error" \in Labels /\ Serves("error", req[o].op)
    BY DEF Labels, Serves
  <2> QED
    BY <2>1, <2>2, <2>3, RequestKeepsTypes
<1>6. CASE UNCHANGED vars
  BY <1>6 DEF vars, TypeInv, TypeOK, BucketOK, ReqOK, UploadKept, Tmp
<1> QED
  BY <1>1, <1>2, <1>3, <1>4, <1>5, <1>6 DEF Next

(* Whatever calls run at once, fail or stop, for both backends: only whole *)
(* contents are ever under the key of a path.  AtomicWrite uploads to a    *)
(* name of its own, and what it copies from there is what it uploaded.     *)
THEOREM TypeCorrect == Spec => []TypeOK
<1>1. TypeInv => TypeOK
  BY DEF TypeInv
<1> QED
  BY <1>1, TypeInit, TypeStep, PTL DEF Spec

-----------------------------------------------------------------------------
(* A path that holds the object v and that no move in progress is about to *)
(* delete: it ranks above the source of each of them.                      *)
Safe(Height, v, p) ==
    /\ Final(p) \in DOMAIN bucket /\ bucket[Final(p)] = v
    /\ \A o \in Ops : pc[o] = "deleteSrc" => Height[req[o].src] < Height[p]

MoveInv(Height, v) ==
    /\ TypeInv
    /\ OnlyMoves => /\ \A n \in DOMAIN bucket : bucket[n] = v
                    /\ \E p \in Paths : Safe(Height, v, p)

(* A call that has begun keeps its arguments.                              *)
LEMMA OnlyMovesBefore ==
    ASSUME TypeInv, [Next]_vars, OnlyMoves'
    PROVE  OnlyMoves
<1>1. CASE UNCHANGED vars
  BY <1>1 DEF vars, OnlyMoves
<1>2. ASSUME NEW o \in Ops, Begin(o)
      PROVE  OnlyMoves
  <2>1. \A q \in Ops \ {o} : pc'[q] = pc[q] /\ req'[q] = req[q]
    BY <1>2 DEF Begin, Goto, TypeInv, TypeOK
  <2>2. pc[o] = "idle"
    BY <1>2 DEF Begin
  <2> QED
    BY <2>1, <2>2 DEF OnlyMoves
<1>3. ASSUME NEW o \in Ops,
             \/ PutTmp(o) \/ CopyTmp(o) \/ DeleteTmp(o) \/ Copy(o)
             \/ DeleteSrc(o) \/ Delete(o) \/ Crash(o)
      PROVE  OnlyMoves
  <2>1. req' = req /\ \A q \in Ops \ {o} : pc'[q] = pc[q]
    BY <1>3 DEF PutTmp, CopyTmp, DeleteTmp, Copy, DeleteSrc, Delete, Crash,
                Remove, RequestFails, Goto, TypeInv, TypeOK
  <2>2. pc'[o] # "idle"
    BY <1>3 DEF PutTmp, CopyTmp, DeleteTmp, Copy, DeleteSrc, Delete, Crash,
                Remove, RequestFails, Goto, TypeInv, TypeOK
  <2> QED
    BY <2>1, <2>2 DEF OnlyMoves
<1> QED
  BY <1>1, <1>2, <1>3 DEF Next

(* A step of a move leaves a safe path safe, or makes a higher one safe.   *)
LEMMA SafeStep ==
    ASSUME NEW v, NEW Height \in [Paths -> Nat],
           \A p, q \in Paths : <<p, q>> \in MovePairs => Height[p] < Height[q],
           TypeInv, TypeInv', OnlyMoves, [Next]_vars,
           \A n \in DOMAIN bucket : bucket[n] = v,
           NEW p \in Paths, Safe(Height, v, p)
    PROVE  /\ \A n \in DOMAIN bucket' : bucket'[n] = v
           /\ \E q \in Paths : Safe(Height, v, q)' /\ Height[p] <= Height[q]
<1> DEFINE StillSafe == /\ \A n \in DOMAIN bucket' : bucket'[n] = v
                        /\ \E q \in Paths : Safe(Height, v, q)' /\ Height[p] <= Height[q]
<1>1. ASSUME Safe(Height, v, p)'
      PROVE  \E q \in Paths : Safe(Height, v, q)' /\ Height[p] <= Height[q]
  BY <1>1
<1>2. CASE UNCHANGED vars
  <2>1. Safe(Height, v, p)'
    BY <1>2 DEF vars, Safe
  <2> QED
    BY <1>1, <1>2, <2>1 DEF vars
<1>3. ASSUME NEW o \in Ops, Begin(o)
      PROVE  StillSafe
  <2>1. /\ bucket' = bucket
        /\ \A q \in Ops \ {o} : pc'[q] = pc[q] /\ req'[q] = req[q]
        /\ pc[o] = "idle"
    BY <1>3 DEF Begin, Goto, TypeInv, TypeOK
  <2>2. pc'[o] # "deleteSrc"
    <3>1. PICK c \in Calls : Goto(o, FirstRequest(c))
      BY <1>3 DEF Begin
    <3>2. c.op \in {"write", "delete", "move"}
      BY CallKinds, Zenon
    <3>3. FirstRequest(c) # "deleteSrc"
      BY <3>2 DEF FirstRequest
    <3> QED
      BY <3>1, <3>3 DEF Goto, TypeInv, TypeOK
  <2>3. Safe(Height, v, p)'
    BY <2>1, <2>2 DEF Safe
  <2> QED
    BY <1>1, <2>1, <2>3
<1>4. ASSUME NEW o \in Ops, ~Begin(o),
             \/ PutTmp(o) \/ CopyTmp(o) \/ DeleteTmp(o) \/ Copy(o)
             \/ DeleteSrc(o) \/ Delete(o) \/ Crash(o)
      PROVE  StillSafe
  <2>1. req' = req /\ pc[o] # "idle" /\ \A q \in Ops \ {o} : pc'[q] = pc[q]
    BY <1>4 DEF PutTmp, CopyTmp, DeleteTmp, Copy, DeleteSrc, Delete, Crash,
                Remove, RequestFails, Goto, TypeInv, TypeOK
  <2>2. req[o] \in Calls /\ req[o].op = "move"
    BY <2>1 DEF OnlyMoves, TypeInv, ReqOK
  <2> DEFINE src == req[o].src
             dst == req[o].dst
  <2>3. src \in Paths /\ dst \in Paths /\ Height[src] < Height[dst]
    BY <2>2, CallKinds, Zenon
  <2>4. Copy(o) \/ DeleteSrc(o) \/ Crash(o)
    BY <1>4, <2>2 DEF PutTmp, CopyTmp, DeleteTmp, Delete, TypeInv, ReqOK, Serves
  <2>5. CASE pc'[o] # "deleteSrc" /\ bucket' = bucket
    <3>1. Safe(Height, v, p)'
      BY <2>1, <2>5 DEF Safe
    <3> QED
      BY <1>1, <2>5, <3>1
  <2>6. CASE Copy(o) /\ bucket' = Put(bucket, Final(dst), bucket[Final(src)])
              /\ Final(src) \in DOMAIN bucket
    <3>1. \A n \in DOMAIN bucket' : bucket'[n] = v
      BY <2>6 DEF Put
    <3>2. DOMAIN bucket' = DOMAIN bucket \cup {Final(dst)}
      BY <2>6 DEF Put
    <3>3. CASE Height[src] < Height[p]
      <4>1. Safe(Height, v, p)'
        BY <2>1, <3>1, <3>2, <3>3 DEF Safe
      <4> QED
        BY <1>1, <3>1, <4>1
    <3>4. CASE ~(Height[src] < Height[p])
      <4>1. \A q \in Ops : pc[q] = "deleteSrc" => req[q].src \in Paths
        BY CallKinds, Zenon DEF TypeInv, ReqOK, Serves
      <4>2. \A q \in Ops : pc[q] = "deleteSrc" => Height[req[q].src] < Height[dst]
        BY <2>3, <3>4, <4>1 DEF Safe
      <4>3. PICK d \in Paths : d = dst
        BY <2>3
      <4>4. Safe(Height, v, d)'
        BY <2>1, <2>3, <3>1, <3>2, <4>2, <4>3 DEF Safe
      <4>5. Height[p] <= Height[d]
        BY <2>3, <3>4, <4>3
      <4> QED
        BY <3>1, <4>4, <4>5
    <3> QED
      BY <3>3, <3>4
  <2>7. CASE DeleteSrc(o) /\ bucket' = Drop(bucket, Final(src)) /\ pc'[o] # "deleteSrc"
    <3>1. Height[src] < Height[p]
      BY <2>7 DEF Safe, DeleteSrc
    <3>2. Final(p) # Final(src)
      BY <2>3, <3>1, NamesDiffer DEF Final
    <3>3. Safe(Height, v, p)'
      BY <2>1, <2>7, <3>2 DEF Safe, Drop
    <3>4. \A n \in DOMAIN bucket' : bucket'[n] = v
      BY <2>7 DEF Drop
    <3> QED
      BY <1>1, <3>3, <3>4
  <2>8. \/ pc'[o] # "deleteSrc" /\ bucket' = bucket
        \/ Copy(o) /\ bucket' = Put(bucket, Final(dst), bucket[Final(src)])
             /\ Final(src) \in DOMAIN bucket
        \/ DeleteSrc(o) /\ bucket' = Drop(bucket, Final(src)) /\ pc'[o] # "deleteSrc"
    BY <2>4 DEF Copy, CopyRefused, DeleteSrc, Crash, Remove, RequestFails, Goto,
                TypeInv, TypeOK
  <2> QED
    BY <2>5, <2>6, <2>7, <2>8
<1> QED
  BY <1>2, <1>3, <1>4 DEF Next

LEMMA MoveStep ==
    ASSUME NEW v, NEW Height \in [Paths -> Nat],
           \A p, q \in Paths : <<p, q>> \in MovePairs => Height[p] < Height[q],
           MoveInv(Height, v), [Next]_vars
    PROVE  MoveInv(Height, v)'
<1>1. TypeInv /\ TypeInv'
  BY TypeStep DEF MoveInv
<1> SUFFICES ASSUME OnlyMoves'
             PROVE  /\ \A n \in DOMAIN bucket' : bucket'[n] = v
                    /\ \E p \in Paths : Safe(Height, v, p)'
  BY <1>1 DEF MoveInv
<1>2. OnlyMoves
  BY <1>1, OnlyMovesBefore
<1>3. /\ \A n \in DOMAIN bucket : bucket[n] = v
      /\ \E p \in Paths : Safe(Height, v, p)
  BY <1>2 DEF MoveInv
<1>4. PICK p \in Paths : Safe(Height, v, p)
  BY <1>3
<1> HIDE DEF Safe
<1> QED
  BY <1>1, <1>2, <1>3, <1>4, SafeStep

LEMMA MoveInit ==
    ASSUME NEW v, Originals = {v}, NEW Height \in [Paths -> Nat]
    PROVE  Init => MoveInv(Height, v)
<1> SUFFICES ASSUME Init
             PROVE  MoveInv(Height, v)
  OBVIOUS
<1>1. PICK p \in DOMAIN InitialObjects : InitialObjects[p] = v
  BY DEF Originals
<1>2. \A q \in DOMAIN InitialObjects : InitialObjects[q] = v /\ Final(q)[1] = q
  BY DEF Originals, Final
<1>3. /\ \A n \in DOMAIN bucket : bucket[n] = v
      /\ Final(p) \in DOMAIN bucket
  BY <1>1, <1>2 DEF Init
<1>4. p \in Paths /\ Safe(Height, v, p)
  BY <1>1, <1>3, PathAssumption DEF Safe, Init
<1> QED
  BY <1>3, <1>4, TypeInit DEF MoveInv

(* One object, at one path or several, and any number of concurrent moves  *)
(* whose destinations rank above their sources, so that they form no       *)
(* cycle: the object is never lost, on either backend, whichever requests  *)
(* fail, whether executed or not, and wherever a call stops or is made     *)
(* again.  Move deletes a source only after a copy that no other move can  *)
(* delete without having made one that ranks higher still.                 *)
THEOREM MovesLoseNothing ==
    ASSUME NEW v, Originals = {v}, NEW Height \in [Paths -> Nat],
           \A p, q \in Paths : <<p, q>> \in MovePairs => Height[p] < Height[q]
    PROVE  Spec => []NothingLost
<1>1. Init => MoveInv(Height, v)
  BY MoveInit
<1>2. MoveInv(Height, v) /\ [Next]_vars => MoveInv(Height, v)'
  BY MoveStep
<1>3. MoveInv(Height, v) => NothingLost
  BY DEF MoveInv, NothingLost, Safe
<1> QED
  BY <1>1, <1>2, <1>3, PTL DEF Spec

-----------------------------------------------------------------------------
(* The backends keep the promise of the interface.                         *)

StoreOf(b) == [p \in {q \in Paths : Final(q) \in DOMAIN b} |-> b[Final(p)]]

(* What a request does to the objects that callers see.                    *)
LEMMA PutFinal ==
    ASSUME NEW b, NEW p \in Paths, NEW v
    PROVE  StoreOf(Put(b, Final(p), v)) = Abstract!With(StoreOf(b), p, v)
<1>1. \A q \in Paths : Final(q) = Final(p) <=> q = p
  BY NamesDiffer DEF Final
<1> QED
  BY <1>1 DEF StoreOf, Put, Abstract!With

LEMMA DropFinal ==
    ASSUME NEW b, NEW p \in Paths
    PROVE  StoreOf(Drop(b, Final(p))) = Abstract!Without(StoreOf(b), p)
<1>1. \A q \in Paths : Final(q) = Final(p) <=> q = p
  BY NamesDiffer DEF Final
<1> QED
  BY <1>1 DEF StoreOf, Drop, Abstract!Without

LEMMA TmpUnseen ==
    ASSUME NEW b, NEW o, NEW v
    PROVE  /\ StoreOf(Put(b, Tmp(o), v)) = StoreOf(b)
           /\ StoreOf(Drop(b, Tmp(o))) = StoreOf(b)
<1>1. \A q \in Paths : Final(q) # Tmp(o)
  BY NamesDiffer DEF Final, Tmp
<1> QED
  BY <1>1 DEF StoreOf, Put, Drop

LEMMA StoreIs == Store = StoreOf(bucket) /\ Store' = StoreOf(bucket')
  BY DEF Store, StoreOf

(* A call goes on: so does its phase, and no other.                        *)
LEMMA PhaseStep ==
    ASSUME TypeInv, NEW o \in Ops, NEW label, Goto(o, label)
    PROVE  Phase' = [Phase EXCEPT ![o] = PhaseOf(label)] /\ Phase[o] = PhaseOf(pc[o])
<1>1. pc' = [pc EXCEPT ![o] = label] /\ DOMAIN pc = Ops
  BY DEF Goto, TypeInv, TypeOK
<1> QED
  BY <1>1, Zenon DEF Phase

LEMMA PhasesAre ==
    /\ PhaseOf("idle") = "idle" /\ PhaseOf("ok") = "ok" /\ PhaseOf("error") = "error"
    /\ \A l \in {"put", "copyTmp", "copy", "delete"} : PhaseOf(l) = "begun"
    /\ PhaseOf("deleteTmp") = "committed" /\ PhaseOf("deleteSrc") = "copied"
  BY DEF PhaseOf

(* A call that stops, having had its effect or not.                        *)
LEMMA FailMaps ==
    ASSUME TypeInv, NEW o \in Ops, Goto(o, "error"), req' = req,
           pc[o] \in Labels \ {"ok", "error"},
           Store' = Store \/ Abstract!CopyPart(o) \/ Abstract!Effect(o)
    PROVE  Abstract!Fail(o)
<1>1. Phase' = [Phase EXCEPT ![o] = "error"] /\ Phase[o] \in {"begun", "copied", "committed"}
  BY PhaseStep, PhasesAre DEF Labels
<1> QED
  BY <1>1 DEF Abstract!Fail

LEMMA RemoveMaps ==
    ASSUME TypeInv, NEW o \in Ops, NEW p \in Paths, Remove(o, p),
           \/ pc[o] = "deleteSrc" /\ p = req[o].src
           \/ pc[o] = "delete" /\ p = req[o].path /\ req[o].op = "delete"
    PROVE  Abstract!Commit(o) \/ Abstract!Fail(o)
<1>1. ASSUME bucket' = Drop(bucket, Final(p)) PROVE Abstract!Effect(o)
  <2>1. Store' = Abstract!Without(Store, p)
    BY <1>1, DropFinal, StoreIs
  <2>2. Phase[o] = PhaseOf(pc[o])
    BY DEF Phase
  <2> QED
    BY <2>1, <2>2, PhasesAre DEF Abstract!Effect, Abstract!RemovePart, Abstract!Delete
<1>2. bucket' = bucket => Store' = Store
  BY DEF Store
<1>3. pc[o] \in Labels \ {"ok", "error"} /\ req' = req
  BY DEF Labels, Remove
<1>4. CASE Goto(o, "error")
  BY <1>1, <1>2, <1>3, <1>4, FailMaps DEF Remove, RequestFails
<1>5. CASE bucket' = Drop(bucket, Final(p)) /\ Goto(o, "ok")
  <2>1. Phase' = [Phase EXCEPT ![o] = "ok"]
    BY <1>5, PhaseStep, PhasesAre
  <2> QED
    BY <1>1, <1>3, <1>5, <2>1 DEF Abstract!Commit
<1> QED
  BY <1>4, <1>5 DEF Remove, RequestFails

LEMMA WriteMaps ==
    ASSUME TypeInv, NEW o \in Ops, PutTmp(o) \/ CopyTmp(o) \/ DeleteTmp(o)
    PROVE  \/ Abstract!Commit(o) \/ Abstract!Return(o) \/ Abstract!Fail(o)
           \/ UNCHANGED Abstract!vars
<1>a. /\ pc[o] \in {"put", "copyTmp", "deleteTmp"} /\ req' = req
      /\ pc[o] \in Labels \ {"ok", "error"}
  BY DEF PutTmp, CopyTmp, DeleteTmp, Labels
<1>b. req[o].op = "write" /\ req[o].path \in Paths
  BY <1>a, CallKinds, Zenon DEF TypeInv, ReqOK, Serves
<1>1. CASE PutTmp(o)
  <2>1. Store' = Store
    BY <1>1, TmpUnseen, StoreIs DEF PutTmp, RequestFails
  <2>2. CASE Goto(o, "copyTmp")
    <3>1. Phase' = Phase
      BY <1>1, <2>2, PhasesAre DEF PutTmp, Goto, Phase, TypeInv, TypeOK
    <3> QED
      BY <1>a, <2>1, <3>1 DEF Abstract!vars
  <2>3. CASE Goto(o, "error")
    BY <1>a, <2>1, <2>3, FailMaps
  <2> QED
    BY <1>1, <2>2, <2>3 DEF PutTmp, RequestFails
<1>2. CASE CopyTmp(o)
  <2>1. pc[o] = "copyTmp" /\ Phase[o] = "begun"
    BY <1>2, PhasesAre DEF CopyTmp, Phase
  <2>2. ASSUME bucket' = Put(bucket, Final(req[o].path), bucket[Tmp(o)])
        PROVE  Abstract!Effect(o)
    <3>1. bucket[Tmp(o)] = req[o].value
      BY <2>1 DEF TypeInv, UploadKept
    <3>2. Store' = Abstract!With(Store, req[o].path, req[o].value)
      BY <1>b, <2>2, <3>1, PutFinal, StoreIs
    <3> QED
      BY <1>b, <2>1, <3>2 DEF Abstract!Effect, Abstract!Write
  <2>3. bucket' = bucket => Store' = Store
    BY DEF Store
  <2>4. CASE Goto(o, "error")
    BY <1>2, <1>a, <2>2, <2>3, <2>4, FailMaps DEF CopyTmp, RequestFails
  <2>5. CASE bucket' = Put(bucket, Final(req[o].path), bucket[Tmp(o)]) /\ Goto(o, "deleteTmp")
    <3>1. Phase' = [Phase EXCEPT ![o] = "committed"]
      BY <2>5, PhaseStep, PhasesAre
    <3> QED
      BY <1>a, <2>2, <2>5, <3>1 DEF Abstract!Commit
  <2> QED
    BY <1>2, <2>4, <2>5 DEF CopyTmp, RequestFails
<1>3. CASE DeleteTmp(o)
  <2>1. Store' = Store
    BY <1>3, TmpUnseen, StoreIs DEF DeleteTmp
  <2>2. Phase' = [Phase EXCEPT ![o] = "ok"] /\ Phase[o] = "committed"
    BY <1>3, PhaseStep, PhasesAre DEF DeleteTmp
  <2> QED
    BY <1>a, <2>1, <2>2 DEF Abstract!Return
<1> QED
  BY <1>1, <1>2, <1>3

LEMMA CopyMaps ==
    ASSUME TypeInv, NEW o \in Ops, Copy(o)
    PROVE  Abstract!Copy(o) \/ Abstract!Fail(o)
<1>a. pc[o] = "copy" /\ req' = req /\ pc[o] \in Labels \ {"ok", "error"} /\ Phase[o] = "begun"
  BY PhasesAre DEF Copy, Labels, Phase
<1>b. PICK src \in Paths, dst \in Paths :
         req[o].op = "move" /\ src = req[o].src /\ dst = req[o].dst
  BY <1>a, CallKinds, Zenon DEF TypeInv, ReqOK, Serves
<1>1. ASSUME ~CopyRefused(src, dst), bucket' = Put(bucket, Final(dst), bucket[Final(src)])
      PROVE  Abstract!CopyPart(o)
  <2>1. src \in DOMAIN Store /\ Store[src] = bucket[Final(src)]
    BY <1>1 DEF CopyRefused, Store
  <2>2. Store' = Abstract!With(Store, dst, Store[src])
    BY <1>1, <2>1, PutFinal, StoreIs
  <2> QED
    BY <1>a, <1>b, <2>1, <2>2 DEF Abstract!CopyPart
<1>2. bucket' = bucket => Store' = Store
  BY DEF Store
<1>3. CASE Goto(o, "error")
  BY <1>a, <1>b, <1>1, <1>2, <1>3, FailMaps DEF Copy, RequestFails
<1>4. CASE /\ ~CopyRefused(src, dst)
           /\ bucket' = Put(bucket, Final(dst), bucket[Final(src)])
           /\ Goto(o, "deleteSrc")
  <2>1. Phase' = [Phase EXCEPT ![o] = "copied"]
    BY <1>4, PhaseStep, PhasesAre
  <2> QED
    BY <1>a, <1>1, <1>4, <2>1 DEF Abstract!Copy
<1> QED
  BY <1>b, <1>3, <1>4 DEF Copy, RequestFails

LEMMA StepMaps ==
    ASSUME TypeInv, [Next]_vars
    PROVE  [Abstract!Next]_(Abstract!vars)
<1>1. ASSUME NEW o \in Ops, Begin(o) PROVE Abstract!Begin(o)
  <2>1. PICK c \in Calls : req' = [req EXCEPT ![o] = c] /\ Goto(o, FirstRequest(c))
    BY <1>1, Zenon DEF Begin
  <2>2. PhaseOf(FirstRequest(c)) = "begun" /\ Phase[o] = "idle"
    BY <1>1, CallKinds, PhasesAre, Zenon DEF Begin, FirstRequest, Phase
  <2>3. Phase' = [Phase EXCEPT ![o] = "begun"]
    BY <2>1, <2>2, PhaseStep
  <2>4. Store' = Store
    BY <1>1 DEF Begin, Store
  <2> QED
    BY <2>1, <2>2, <2>3, <2>4, Zenon DEF Abstract!Begin
<1>2. ASSUME NEW o \in Ops, DeleteSrc(o) \/ Delete(o)
      PROVE  Abstract!Commit(o) \/ Abstract!Fail(o)
  <2>1. CASE DeleteSrc(o)
    BY <2>1, RemoveMaps, CallKinds, Zenon DEF DeleteSrc, TypeInv, ReqOK, Serves
  <2>2. CASE Delete(o)
    BY <2>2, RemoveMaps, CallKinds, Zenon DEF Delete, TypeInv, ReqOK, Serves
  <2> QED
    BY <1>2, <2>1, <2>2
<1>3. ASSUME NEW o \in Ops, Crash(o) PROVE Abstract!Fail(o)
  <2>1. pc[o] \in Labels \ {"ok", "error"} /\ Store' = Store
    BY <1>3 DEF Crash, Labels, TypeInv, TypeOK, Store
  <2> QED
    BY <1>3, <2>1, FailMaps DEF Crash
<1>4. CASE UNCHANGED vars
  BY <1>4 DEF vars, Abstract!vars, Store, Phase
<1> QED
  BY <1>1, <1>2, <1>3, <1>4, WriteMaps, CopyMaps DEF Next, Abstract!Next

(* Both backends implement the interface: to the callers of any number of  *)
(* concurrent calls every write is one step and every move a copy and a    *)
(* removal, whichever request fails or is the last before a crash.         *)
THEOREM PromiseKept == Spec => AtomicCalls
<1>1. Init => Abstract!Init
  <2> SUFFICES ASSUME Init PROVE Abstract!Init
    OBVIOUS
  <2>1. \A p \in Paths : Final(p) \in DOMAIN bucket <=> p \in DOMAIN InitialObjects
    BY NamesDiffer DEF Init, Final
  <2>2. \A p \in DOMAIN InitialObjects : bucket[Final(p)] = InitialObjects[p]
    BY DEF Init, Final
  <2>3. Store = InitialObjects
    BY <2>1, <2>2, PathAssumption, ObjectsAssumption DEF Store
  <2>4. Phase = [o \in Ops |-> "idle"]
    BY PhasesAre DEF Init, Phase
  <2> QED
    BY <2>3, <2>4 DEF Init, Abstract!Init
<1>2. TypeInv /\ [Next]_vars => [Abstract!Next]_(Abstract!vars)
  BY StepMaps
<1> QED
  BY <1>1, <1>2, TypeInit, TypeStep, PTL DEF Spec, AtomicCalls, Abstract!Spec
-----------------------------------------------------------------------------
(* Listings.                                                               *)

(* Listings and new folders leave the calls and their objects alone.       *)
LEMMA ListStepIsStep == [ListNext]_listVars => [Next]_vars
  BY Zenon DEF ListNext, listVars, Calling, CreateFolder, List, StartList, NextPage, ListFails

ScanType ==
    [state : {"idle", "listing", "done", "error"}, last : Nat,
     out : SUBSET [item : Entries, holds : SUBSET (AllValues \cup {Partial}), upTo : Nat],
     always : SUBSET Entries, ever : SUBSET Entries]

(* What a listing has read so far: all that was there all the time, up to  *)
(* the continuation token, and nothing twice.                              *)
ScanOK(s) ==
    /\ scan[s].state = "idle" => scan[s] = NewScan
    /\ \A e \in scan[s].out : Rank(e.item) <= scan[s].last /\ e.item \in scan[s].ever
    /\ \A e, f \in scan[s].out : e.item = f.item => e = f
    /\ scan[s].state = "listing" =>
          /\ scan[s].always \subseteq Items /\ Items \subseteq scan[s].ever
          /\ \A i \in scan[s].always : i \in Listed(s) \/ Rank(i) > scan[s].last
    /\ scan[s].state = "done" => scan[s].always \subseteq Listed(s)

ListInv ==
    /\ TypeInv
    /\ folders \subseteq Folders
    /\ scan \in [Scans -> ScanType]
    /\ \A s \in Scans : ScanOK(s)

(* Every key is listed under an entry, and the keys of paths are kept.     *)
LEMMA ItemsAre ==
    ASSUME TypeInv, folders \subseteq Folders
    PROVE  /\ \A k \in Keys : Item(k) \in Entries
           /\ Items \subseteq Entries
<1>1. ASSUME NEW k \in Keys PROVE Item(k) \in Entries
  <2>1. CASE k \in {Placeholder(f) : f \in folders}
    <3>1. PICK f \in folders : k = Placeholder(f)
      BY <2>1
    <3>2. IsPlaceholder(k) /\ k[1] = f
      BY <3>1 DEF Placeholder, IsPlaceholder
    <3>3. Item(k) = k
      BY <3>1, <3>2 DEF Item, FolderOf
    <3> QED
      BY <3>1, <3>3 DEF Entries
  <2>2. CASE k \in DOMAIN bucket
    <3>1. k \in {Final(p) : p \in Paths} \cup (Paths \X Ops)
      BY <2>2 DEF TypeInv, TypeOK
    <3>2. ~IsPlaceholder(k) /\ k[1] \in Paths
      <4>1. CASE k \in {Final(p) : p \in Paths}
        BY <4>1 DEF Final, IsPlaceholder
      <4>2. CASE k \in Paths \X Ops
        BY <4>2, SuffixAssumption DEF IsPlaceholder
      <4> QED
        BY <3>1, <4>1, <4>2
    <3>3. Item(k) = k \/ Item(k) = Placeholder(Folder(k[1]))
      BY <3>2 DEF Item, FolderOf
    <3> QED
      BY <3>1, <3>2, <3>3 DEF Entries
  <2> QED
    BY <2>1, <2>2 DEF Keys
<1> QED
  BY <1>1 DEF Items

LEMMA PathItem ==
    ASSUME NEW p
    PROVE  /\ Item(Final(p)) = IF backend = "s3" THEN RolledUp(p) ELSE Final(p)
           /\ ~IsPlaceholder(Final(p))
<1>1. ~IsPlaceholder(Final(p)) /\ Final(p)[1] = p
  BY DEF IsPlaceholder, Final
<1> QED
  BY <1>1 DEF Item, FolderOf, RolledUp

LEMMA PathsAreKept ==
    ASSUME NEW p, Final(p) \in DOMAIN bucket
    PROVE  /\ Kept(Item(Final(p)))
           /\ bucket[Final(p)] \in Contents(Item(Final(p)))
<1>1. ~IsPlaceholder(Final(p))
  BY PathItem
<1>2. Item(Final(p)) = IF backend = "s3" THEN RolledUp(p) ELSE Final(p)
  BY PathItem
<1>3. Placeholder(Folder(p))[1] = Folder(p)
  BY DEF Placeholder
<1>4. Kept(Item(Final(p)))
  BY <1>1, <1>2, <1>3 DEF Kept, RolledUp
<1> QED
  BY <1>4 DEF Contents

LEMMA ListInit1 == ListInit => ListInv
<1> SUFFICES ASSUME ListInit PROVE ListInv
  OBVIOUS
<1>1. TypeInv
  BY TypeInit DEF ListInit
<1>2. NewScan \in ScanType
  BY DEF NewScan, ScanType
<1>3. \A s \in Scans : scan[s] = NewScan
  BY DEF ListInit
<1>4. \A s \in Scans : ScanOK(s)
  BY <1>3 DEF ScanOK, NewScan
<1> QED
  BY <1>1, <1>2, <1>4 DEF ListInv, ListInit
LEMMA ItemsTyped == TypeInv /\ folders \subseteq Folders => Items \subseteq Entries
  BY ItemsAre

(* While a call or a new folder changes what there is to list.             *)
LEMMA WatchedKeepsScans ==
    ASSUME ListInv, TypeInv', folders' \subseteq Folders, scan' = Watched(scan)
    PROVE  ListInv'
<1>1. (TypeInv /\ folders \subseteq Folders => Items \subseteq Entries)'
  BY ItemsTyped, PTL
<1>2. Items' \subseteq Entries
  BY <1>1
<1>3. \A s \in Scans :
         scan'[s] = IF scan[s].state # "listing" THEN scan[s]
                    ELSE [scan[s] EXCEPT !.always = @ \cap Items', !.ever = @ \cup Items']
  BY ZenonT(30) DEF Watched
<1>4. ASSUME NEW s \in Scans PROVE scan'[s] \in ScanType
  <2>1. PICK sc \in ScanType : sc = scan[s]
    BY DEF ListInv
  <2>2. [sc EXCEPT !.always = @ \cap Items', !.ever = @ \cup Items'] \in ScanType
    BY <1>2, Zenon DEF ScanType
  <2> QED
    BY <1>3, <2>1, <2>2, Zenon
<1>5. scan' \in [Scans -> ScanType]
  BY <1>4, Zenon DEF Watched
<1>6. ASSUME NEW s \in Scans PROVE ScanOK(s)'
  <2>1. ScanOK(s) /\ scan[s] \in ScanType
    BY DEF ListInv
  <2>2. CASE scan[s].state # "listing"
    <3>1. scan'[s] = scan[s]
      BY <1>3, <2>2, Zenon
    <3> QED
      BY <2>1, <2>2, <3>1 DEF ScanOK, Listed
  <2>3. CASE scan[s].state = "listing"
    <3>1. /\ scan'[s].state = "listing" /\ scan'[s].last = scan[s].last
          /\ scan'[s].out = scan[s].out
          /\ scan'[s].always = scan[s].always \cap Items'
          /\ scan'[s].ever = scan[s].ever \cup Items'
      BY <1>3, <2>1, <2>3, Zenon DEF ScanType
    <3> QED
      BY <2>1, <2>3, <3>1 DEF ScanOK, Listed
  <2> QED
    BY <2>2, <2>3
<1> QED
  BY <1>5, <1>6 DEF ListInv

LEMMA StartKeepsScans ==
    ASSUME ListInv, NEW s \in Scans, StartList(s)
    PROVE  ListInv'
<1>1. /\ UNCHANGED <<vars, folders>> /\ scan[s] = NewScan
      /\ scan' = [scan EXCEPT ![s] = [@ EXCEPT !.state = "listing",
                                               !.always = Items, !.ever = Items]]
  BY DEF StartList, ListInv, ScanOK
<1>2. TypeInv' /\ Items' = Items
  BY <1>1, TypeStep DEF ListInv, vars, Items, Keys, Item, Kept
<1>3. Items \subseteq Entries
  BY ItemsAre DEF ListInv
<1>4. /\ scan'[s] = [state |-> "listing", last |-> 0, out |-> {},
                     always |-> Items, ever |-> Items]
      /\ \A t \in Scans \ {s} : scan'[t] = scan[t]
  <2>1. scan' = [scan EXCEPT ![s] = [NewScan EXCEPT !.state = "listing",
                                                    !.always = Items, !.ever = Items]]
    BY <1>1
  <2> QED
    BY <2>1, Zenon DEF ListInv, NewScan
<1>5. scan' \in [Scans -> ScanType]
  <2>1. scan'[s] \in ScanType
    BY <1>3, <1>4 DEF ScanType
  <2> QED
    BY <1>1, <2>1 DEF ListInv
<1>6. ScanOK(s)'
  <2>1. \A i \in Items : Rank(i) > 0
    BY <1>3, RankAssumption
  <2> QED
    BY <1>2, <1>4, <2>1 DEF ScanOK
<1>7. \A t \in Scans \ {s} : ScanOK(t)'
  BY <1>2, <1>4 DEF ListInv, ScanOK, Listed
<1> QED
  BY <1>1, <1>2, <1>5, <1>6, <1>7 DEF ListInv

LEMMA FailKeepsScans ==
    ASSUME ListInv, NEW s \in Scans, ListFails(s)
    PROVE  ListInv'
<1>1. /\ UNCHANGED <<vars, folders>>
      /\ scan' = [scan EXCEPT ![s] = [NewScan EXCEPT !.state = "error"]]
  BY DEF ListFails
<1>2. TypeInv' /\ Items' = Items
  BY <1>1, TypeStep DEF ListInv, vars, Items, Keys, Item, Kept
<1>3. /\ scan'[s] = [state |-> "error", last |-> 0, out |-> {}, always |-> {}, ever |-> {}]
      /\ \A t \in Scans \ {s} : scan'[t] = scan[t]
  BY <1>1 DEF ListInv, NewScan
<1>4. scan' \in [Scans -> ScanType]
  <2>1. scan'[s] \in ScanType
    BY <1>3 DEF ScanType
  <2> QED
    BY <1>1, <2>1 DEF ListInv
<1>5. ScanOK(s)'
  BY <1>3 DEF ScanOK
<1>6. \A t \in Scans \ {s} : ScanOK(t)'
  BY <1>2, <1>3 DEF ListInv, ScanOK, Listed
<1> QED
  BY <1>1, <1>2, <1>4, <1>5, <1>6 DEF ListInv
(* One page of a listing.                                                  *)
Page(s, cut) == {i \in Ahead(s) : Rank(i) <= cut}

Seen(s, cut) ==
    {[item |-> i, holds |-> Contents(i), upTo |-> cut] : i \in {j \in Page(s, cut) : Kept(j)}}

LEMMA PageIs ==
    ASSUME ListInv, NEW s \in Scans, NextPage(s)
    PROVE  \E cut \in Nat :
              /\ scan[s].last <= cut
              /\ scan'[s] = [state |-> IF Page(s, cut) = Ahead(s) THEN "done" ELSE "listing",
                             last |-> cut, out |-> scan[s].out \cup Seen(s, cut),
                             always |-> scan[s].always, ever |-> scan[s].ever]
              /\ scan' = [t \in Scans |-> scan'[t]]
              /\ \A t \in Scans \ {s} : scan'[t] = scan[t]
<1>1. PICK cut : /\ cut \in {Rank(i) : i \in Ahead(s)} \cup {scan[s].last}
                 /\ scan' = [scan EXCEPT
                               ![s].out = @ \cup Seen(s, cut),
                               ![s].last = cut,
                               ![s].state = IF Page(s, cut) = Ahead(s) THEN "done" ELSE @]
  BY Zenon DEF NextPage, Page, Seen
<1>2. scan[s] \in ScanType /\ scan[s].state = "listing" /\ DOMAIN scan = Scans
  BY Zenon DEF ListInv, NextPage
<1>3. \A i \in Ahead(s) : Rank(i) \in Nat /\ Rank(i) > scan[s].last
  BY ItemsAre, RankAssumption DEF Ahead, ListInv
<1>4. cut \in Nat /\ scan[s].last <= cut
  BY <1>1, <1>2, <1>3 DEF ScanType
<1>5. /\ scan'[s] = [scan[s] EXCEPT
                       !.out = @ \cup Seen(s, cut), !.last = cut,
                       !.state = IF Page(s, cut) = Ahead(s) THEN "done" ELSE @]
      /\ scan' = [t \in Scans |-> scan'[t]]
      /\ \A t \in Scans \ {s} : scan'[t] = scan[t]
  BY <1>1, <1>2, Zenon
<1>6. scan'[s] = [state |-> IF Page(s, cut) = Ahead(s) THEN "done" ELSE "listing",
                  last |-> cut, out |-> scan[s].out \cup Seen(s, cut),
                  always |-> scan[s].always, ever |-> scan[s].ever]
  BY <1>2, <1>5, Zenon DEF ScanType
<1> QED
  BY <1>4, <1>5, <1>6, Zenon

LEMMA PageKeepsScans ==
    ASSUME ListInv, NEW s \in Scans, NextPage(s)
    PROVE  ListInv'
<1>1. PICK cut \in Nat :
              /\ scan[s].last <= cut
              /\ scan'[s] = [state |-> IF Page(s, cut) = Ahead(s) THEN "done" ELSE "listing",
                             last |-> cut, out |-> scan[s].out \cup Seen(s, cut),
                             always |-> scan[s].always, ever |-> scan[s].ever]
              /\ scan' = [t \in Scans |-> scan'[t]]
              /\ \A t \in Scans \ {s} : scan'[t] = scan[t]
  BY PageIs
<1>2. /\ UNCHANGED <<vars, folders>> /\ scan[s].state = "listing"
      /\ scan[s] \in ScanType /\ ScanOK(s)
  BY Zenon DEF NextPage, ListInv
<1>3. TypeInv' /\ Items' = Items
  BY <1>2, TypeStep DEF ListInv, vars, Items, Keys, Item, Kept
<1>4. \A i \in Ahead(s) : i \in Entries /\ Rank(i) \in Nat /\ Rank(i) > scan[s].last
  BY ItemsAre, RankAssumption DEF Ahead, ListInv
<1>5. \A e \in Seen(s, cut) : /\ e.item \in Page(s, cut) /\ Kept(e.item)
                              /\ e = [item |-> e.item, holds |-> Contents(e.item), upTo |-> cut]
  BY DEF Seen
<1>6. ASSUME NEW i \in Page(s, cut), Kept(i)
      PROVE  \E e \in Seen(s, cut) : e.item = i
  <2>1. [item |-> i, holds |-> Contents(i), upTo |-> cut] \in Seen(s, cut)
    BY <1>6 DEF Seen
  <2> QED
    BY <2>1
<1>7. \A i \in Page(s, cut) : i \in Ahead(s) /\ Rank(i) <= cut
  BY DEF Page
<1>8. \A i \in Ahead(s) : Rank(i) <= cut => i \in Page(s, cut)
  BY DEF Page
<1>9. \A i \in Items : Kept(i) /\ (Rank(i) > scan[s].last => i \in Ahead(s))
  BY DEF Items, Ahead
<1>10. \A i \in Ahead(s) : Kept(i) => i \in Items
  BY DEF Items, Ahead
<1>11. scan'[s] \in ScanType
  <2>1. \A i : Contents(i) \subseteq AllValues \cup {Partial}
    BY DEF Contents, ListInv, TypeInv, TypeOK
  <2>2. Seen(s, cut) \subseteq
           [item : Entries, holds : SUBSET (AllValues \cup {Partial}), upTo : Nat]
    BY <1>4, <1>7, <2>1 DEF Seen
  <2>3. scan[s].out \cup Seen(s, cut) \subseteq
           [item : Entries, holds : SUBSET (AllValues \cup {Partial}), upTo : Nat]
    BY <1>2, <2>2 DEF ScanType
  <2> QED
    BY <1>1, <1>2, <2>3 DEF ScanType
<1>12. scan' \in [Scans -> ScanType]
  BY <1>1, <1>11 DEF ListInv
<1>13. ScanOK(s)'
  <2>1. /\ scan'[s].state \in {"done", "listing"} /\ scan'[s].last = cut
        /\ scan'[s].out = scan[s].out \cup Seen(s, cut)
        /\ scan'[s].always = scan[s].always /\ scan'[s].ever = scan[s].ever
        /\ scan'[s].state = "done" => Page(s, cut) = Ahead(s)
    BY <1>1
  <2>2. /\ \A e \in scan[s].out : Rank(e.item) \in Nat /\ Rank(e.item) <= scan[s].last
        /\ scan[s].last \in Nat
    BY <1>2, RankAssumption DEF ScanOK, ScanType
  <2>3. \A e \in scan'[s].out : Rank(e.item) <= cut /\ e.item \in scan[s].ever
    <3>1. \A e \in scan[s].out : Rank(e.item) <= cut /\ e.item \in scan[s].ever
      BY <1>1, <1>2, <2>2 DEF ScanOK
    <3>2. \A e \in Seen(s, cut) : Rank(e.item) <= cut /\ e.item \in scan[s].ever
      BY <1>2, <1>5, <1>7, <1>10 DEF ScanOK
    <3> QED
      BY <2>1, <3>1, <3>2
  <2>4. \A e, f \in scan'[s].out : e.item = f.item => e = f
    <3>1. \A e \in scan[s].out, f \in Seen(s, cut) : e.item # f.item
      BY <1>4, <1>5, <1>7, <2>2
    <3>2. \A e, f \in Seen(s, cut) : e.item = f.item => e = f
      BY <1>5
    <3>3. \A e, f \in scan[s].out : e.item = f.item => e = f
      BY <1>2 DEF ScanOK
    <3> QED
      BY <2>1, <3>1, <3>2, <3>3
  <2>5. \A i \in scan[s].always : Rank(i) \in Nat
    BY <1>2, RankAssumption DEF ScanType
  <2>6. Listed(s)' = Listed(s) \cup {e.item : e \in Seen(s, cut)}
    BY <2>1 DEF Listed
  <2>7. \A i \in scan[s].always : i \in Listed(s)' \/ (Rank(i) > cut /\ i \in Ahead(s))
    <3> SUFFICES ASSUME NEW i \in scan[s].always, i \notin Listed(s)'
                 PROVE  Rank(i) > cut /\ i \in Ahead(s)
      OBVIOUS
    <3>1. i \in Items /\ Rank(i) > scan[s].last
      BY <1>2, <2>6 DEF ScanOK
    <3>2. i \in Ahead(s) /\ Kept(i)
      BY <1>9, <3>1
    <3>3. i \notin Page(s, cut)
      BY <1>6, <2>6, <3>2
    <3> QED
      BY <1>8, <2>5, <3>2, <3>3
  <2>8. scan'[s].state = "done" => scan[s].always \subseteq Listed(s)'
    BY <1>7, <2>1, <2>5, <2>7
  <2>9. scan'[s].state = "listing" =>
          /\ scan'[s].always \subseteq Items' /\ Items' \subseteq scan'[s].ever
          /\ \A i \in scan'[s].always : i \in Listed(s)' \/ Rank(i) > scan'[s].last
    BY <1>2, <1>3, <2>1, <2>7 DEF ScanOK
  <2> QED
    BY <2>1, <2>3, <2>4, <2>8, <2>9 DEF ScanOK
<1>14. \A t \in Scans \ {s} : ScanOK(t)'
  BY <1>1, <1>3 DEF ListInv, ScanOK, Listed
<1> QED
  BY <1>2, <1>3, <1>12, <1>13, <1>14 DEF ListInv

LEMMA ListStep == ListInv /\ [ListNext]_listVars => ListInv'
<1> SUFFICES ASSUME ListInv, [ListNext]_listVars PROVE ListInv'
  OBVIOUS
<1>1. TypeInv'
  BY ListStepIsStep, TypeStep DEF ListInv
<1>2. CASE Calling \/ \E f \in Folders : CreateFolder(f)
  <2>1. folders' \subseteq Folders /\ scan' = Watched(scan)
    BY <1>2 DEF Calling, CreateFolder, ListInv
  <2> QED
    BY <1>1, <2>1, WatchedKeepsScans
<1>3. CASE \E s \in Scans : List(s)
  BY <1>3, StartKeepsScans, PageKeepsScans, FailKeepsScans DEF List
<1>4. CASE UNCHANGED listVars
  <2>1. Items' = Items /\ UNCHANGED <<folders, scan>>
    BY <1>4 DEF listVars, vars, Items, Keys, Item, Kept
  <2> QED
    BY <1>1, <2>1 DEF ListInv, ScanOK, Listed
<1> QED
  BY <1>2, <1>3, <1>4 DEF ListNext

(* Any number of listings, of pages cut anywhere, while any calls run,     *)
(* fail or stop and folders are made: a listing that ends has every entry  *)
(* that was there throughout, none that never was, and none twice.  What a *)
(* listing has not yet shown of what was there from the start lies beyond  *)
(* its continuation token, and what it has shown lies before.              *)
THEOREM ListingsAreTrue == ListSpec => []ListIsTrue
<1>1. ListInv => ListIsTrue
  BY DEF ListInv, ScanOK, ListIsTrue, Listed
<1> QED
  BY <1>1, ListInit1, ListStep, PTL DEF ListSpec
-----------------------------------------------------------------------------
(* Moves to later places.                                                  *)

(* The object is in the listing, or at a path that the listing has not     *)
(* come to and that no move in progress is about to delete.                *)
Coming(Height, v, s) ==
    \E p \in Paths : Safe(Height, v, p) /\ Rank(Item(Final(p))) > scan[s].last

Shown(v, s) == \E e \in scan[s].out : v \in e.holds

MovedInv(Height, v) ==
    /\ ListInv
    /\ MoveInv(Height, v)
    /\ OnlyMoves =>
          \A s \in Scans :
             /\ scan[s].state = "listing" => Shown(v, s) \/ Coming(Height, v, s)
             /\ scan[s].state = "done" => Shown(v, s)

(* A higher path is listed later, whether or not folders are rolled up.    *)
LEMMA HigherIsLater ==
    ASSUME NEW p \in Paths, NEW q \in Paths, Rank(Final(p)) <= Rank(Final(q))
    PROVE  /\ Rank(Item(Final(p))) \in Nat \ {0} /\ Rank(Item(Final(q))) \in Nat \ {0}
           /\ Rank(Item(Final(p))) <= Rank(Item(Final(q)))
<1>1. \A x \in Paths :
         /\ Item(Final(x)) = IF backend = "s3" THEN RolledUp(x) ELSE Final(x)
         /\ Final(x) \in Entries /\ RolledUp(x) \in Entries
  BY PathItem DEF Entries, RolledUp
<1> QED
  BY <1>1, RankAssumption, OrderAssumption

LEMMA MovedStep ==
    ASSUME NEW v, NEW Height, Height = [p \in Paths |-> Rank(Final(p))],
           \A p, q \in Paths : <<p, q>> \in MovePairs => Rank(Final(p)) < Rank(Final(q)),
           MovedInv(Height, v), [ListNext]_listVars
    PROVE  MovedInv(Height, v)'
<1>1. Height \in [Paths -> Nat]
  BY RankAssumption DEF Entries
<1>2. \A p, q \in Paths : <<p, q>> \in MovePairs => Height[p] < Height[q]
  OBVIOUS
<1>3. [Next]_vars
  BY ListStepIsStep
<1>4. ListInv /\ ListInv' /\ MoveInv(Height, v) /\ MoveInv(Height, v)'
  BY <1>1, <1>2, <1>3, ListStep, MoveStep DEF MovedInv
<1> SUFFICES ASSUME OnlyMoves', NEW s \in Scans
             PROVE  /\ scan'[s].state = "listing" => Shown(v, s)' \/ Coming(Height, v, s)'
                    /\ scan'[s].state = "done" => Shown(v, s)'
  BY <1>4 DEF MovedInv
<1>5. OnlyMoves
  BY <1>3, <1>4, OnlyMovesBefore DEF MoveInv
<1>6. /\ scan[s].state = "listing" => Shown(v, s) \/ Coming(Height, v, s)
      /\ scan[s].state = "done" => Shown(v, s)
  BY <1>5 DEF MovedInv
<1>7. scan \in [Scans -> ScanType] /\ scan' \in [Scans -> ScanType]
  BY <1>4 DEF ListInv
(* The state, the last place and the output of this listing do not change. *)
<1>8. CASE /\ scan'[s].state = scan[s].state /\ scan'[s].last = scan[s].last
           /\ scan'[s].out = scan[s].out
  <2>1. Shown(v, s)' <=> Shown(v, s)
    BY <1>8 DEF Shown
  <2>2. ASSUME Coming(Height, v, s) PROVE Coming(Height, v, s)'
    <3>1. PICK p \in Paths : Safe(Height, v, p) /\ Rank(Item(Final(p))) > scan[s].last
      BY <2>2 DEF Coming
    <3>2. TypeInv /\ TypeInv' /\ \A n \in DOMAIN bucket : bucket[n] = v
      BY <1>4, <1>5 DEF MoveInv
    <3>3. PICK q \in Paths : Safe(Height, v, q)' /\ Height[p] <= Height[q]
      BY <1>1, <1>2, <1>3, <1>5, <3>1, <3>2, SafeStep
    <3>4. backend' = backend
      BY <1>3, Zenon DEF vars, Next, Begin, PutTmp, CopyTmp, DeleteTmp, Copy, DeleteSrc,
                  Delete, Remove, Crash
    <3>5. Item(Final(q))' = Item(Final(q))
      BY <3>4 DEF Item
    <3>6. /\ Rank(Item(Final(p))) \in Nat /\ Rank(Item(Final(q))) \in Nat
          /\ Rank(Item(Final(p))) <= Rank(Item(Final(q)))
      BY <3>3, HigherIsLater
    <3>7. scan[s].last \in Nat
      BY <1>7 DEF ScanType
    <3>8. Rank(Item(Final(q))) > scan[s].last
      <4>1. PICK a, b, last \in Nat :
               a = Rank(Item(Final(p))) /\ b = Rank(Item(Final(q))) /\ last = scan[s].last
        BY <3>6, <3>7
      <4>2. a > last /\ a <= b
        BY <3>1, <3>6, <4>1
      <4> QED
        BY <4>1, <4>2
    <3> QED
      BY <1>8, <3>3, <3>5, <3>8 DEF Coming
  <2> QED
    BY <1>6, <1>8, <2>1, <2>2
<1>9. CASE NextPage(s)
  <2>1. PICK cut \in Nat :
              /\ scan[s].last <= cut
              /\ scan'[s] = [state |-> IF Page(s, cut) = Ahead(s) THEN "done" ELSE "listing",
                             last |-> cut, out |-> scan[s].out \cup Seen(s, cut),
                             always |-> scan[s].always, ever |-> scan[s].ever]
    BY <1>4, <1>9, PageIs
  <2>2. /\ scan'[s].out = scan[s].out \cup Seen(s, cut) /\ scan'[s].last = cut
        /\ scan'[s].state = "done" => Page(s, cut) = Ahead(s)
        /\ scan[s].state = "listing" /\ UNCHANGED vars
    <3>1. scan[s].state = "listing" /\ UNCHANGED vars
      BY <1>9, ZenonT(30) DEF NextPage
    <3> QED
      BY <2>1, <3>1
  <2>3. CASE Shown(v, s)
    BY <2>2, <2>3, Zenon DEF Shown
  <2>4. CASE Coming(Height, v, s)
    <3>1. PICK p \in Paths : Safe(Height, v, p) /\ Rank(Item(Final(p))) > scan[s].last
      BY <2>4 DEF Coming
    <3> DEFINE i == Item(Final(p))
    <3>2. Final(p) \in DOMAIN bucket /\ bucket[Final(p)] = v
      BY <3>1 DEF Safe
    <3>3. Kept(i) /\ v \in Contents(i)
      BY <3>2, PathsAreKept
    <3>4. i \in Ahead(s)
      BY <3>1, <3>2 DEF Ahead, Keys
    <3>5. CASE i \in Page(s, cut)
      <4>1. PICK e : e = [item |-> i, holds |-> Contents(i), upTo |-> cut]
        BY Zenon
      <4>2. e \in scan'[s].out
        BY <2>2, <3>3, <3>5, <4>1 DEF Seen
      <4>3. v \in e.holds
        BY <3>3, <4>1
      <4>4. Shown(v, s)'
        BY <4>2, <4>3 DEF Shown
      <4> QED
        BY <4>4
    <3>6. CASE i \notin Page(s, cut)
      <4>1. Rank(i) > cut
        <5>1. ~(Rank(i) <= cut)
          BY <3>4, <3>6 DEF Page
        <5>2. Rank(i) \in Nat
          <6>1. Rank(Final(p)) <= Rank(Final(p))
            BY <1>1
          <6> QED
            BY <6>1, HigherIsLater
        <5> QED
          BY <5>1, <5>2
      <4>2. Safe(Height, v, p)' /\ Item(Final(p))' = i
        BY <2>2, <3>1 DEF Safe, vars, Item
      <4>3. Coming(Height, v, s)'
        BY <2>2, <4>1, <4>2 DEF Coming
      <4> QED
        BY <2>2, <3>4, <3>6, <4>3, Zenon
    <3> QED
      BY <3>5, <3>6
  <2> QED
    BY <1>6, <2>2, <2>3, <2>4, Zenon
<1>10. CASE StartList(s)
  <2>1. /\ scan[s] = NewScan /\ UNCHANGED vars
        /\ scan' = [scan EXCEPT ![s] = [@ EXCEPT !.state = "listing",
                                                 !.always = Items, !.ever = Items]]
    BY <1>4, <1>10 DEF StartList, ListInv, ScanOK
  <2>2. scan'[s].state = "listing" /\ scan'[s].last = 0
    BY <1>7, <2>1 DEF NewScan
  <2>3. PICK p \in Paths : Safe(Height, v, p)'
    BY <1>4 DEF MoveInv
  <2>4. (\A x \in Paths : Rank(Item(Final(x))) > 0)'
    <3>1. \A x \in Paths : Rank(Item(Final(x))) > 0
      BY <1>1, HigherIsLater
    <3> QED
      BY <2>1, <3>1 DEF vars, Item
  <2> QED
    BY <2>2, <2>3, <2>4 DEF Coming
<1>11. CASE ListFails(s)
  BY <1>7, <1>11 DEF ListFails, NewScan
<1>12. CASE Calling \/ \E f \in Folders : CreateFolder(f)
  <2>1. scan'[s] = IF scan[s].state # "listing" THEN scan[s]
                   ELSE [scan[s] EXCEPT !.always = @ \cap Items', !.ever = @ \cup Items']
    BY <1>12, Zenon DEF Calling, CreateFolder, Watched
  <2>2. PICK sc \in ScanType : sc = scan[s]
    BY <1>7
  <2>3. /\ scan'[s].state = scan[s].state /\ scan'[s].last = scan[s].last
        /\ scan'[s].out = scan[s].out
    BY <2>1, <2>2 DEF ScanType
  <2> QED
    BY <1>8, <2>3
<1>13. CASE \E t \in Scans \ {s} : List(t)
  <2>1. scan'[s] = scan[s]
    BY <1>7, <1>13, Zenon DEF List, StartList, NextPage, ListFails
  <2> QED
    BY <1>8, <2>1
<1>14. CASE UNCHANGED listVars
  BY <1>8, <1>14 DEF listVars
<1> QED
  BY <1>9, <1>10, <1>11, <1>12, <1>13, <1>14, Zenon DEF ListNext, List

(* One object, any number of concurrent moves to places that come later in *)
(* the order of keys, any number of listings: no listing misses the        *)
(* object.  Move makes the copy before it removes the source, so that the  *)
(* object is always at a place that every listing in progress has still to *)
(* come to, or in what the listing has already read.                       *)
THEOREM MovedObjectsAreListed ==
    ASSUME NEW v, Originals = {v},
           \A p, q \in Paths : <<p, q>> \in MovePairs => Rank(Final(p)) < Rank(Final(q))
    PROVE  ListSpec => []MovedIsListed
<1> DEFINE Height == [p \in Paths |-> Rank(Final(p))]
<1>1. Height \in [Paths -> Nat]
  BY RankAssumption DEF Entries
<1>2. ListInit => MovedInv(Height, v)
  <2> SUFFICES ASSUME ListInit PROVE MovedInv(Height, v)
    OBVIOUS
  <2>1. ListInv /\ MoveInv(Height, v)
    BY <1>1, ListInit1, MoveInit DEF ListInit
  <2>2. \A s \in Scans : scan[s].state = "idle"
    BY DEF ListInit, NewScan
  <2> QED
    BY <2>1, <2>2 DEF MovedInv
<1>3. MovedInv(Height, v) /\ [ListNext]_listVars => MovedInv(Height, v)'
  BY MovedStep
<1>4. MovedInv(Height, v) => MovedIsListed
  <2>1. MovedInv(Height, v) /\ OnlyMoves =>
           \A s \in Scans : scan[s].state = "done" => Shown(v, s)
    BY DEF MovedInv
  <2> QED
    BY <2>1 DEF MovedIsListed, Shown
<1> HIDE DEF Height
<1> QED
  BY <1>2, <1>3, <1>4, PTL DEF ListSpec

(* Folders, listings and calls together: what is shown of the calls alone  *)
(* holds of them all, because no listing and no new folder changes what a  *)
(* call reads.                                                             *)
THEOREM CallsAreUndisturbed == ListSpec => Spec
<1>1. ListInit => Init
  BY DEF ListInit
<1> QED
  BY <1>1, ListStepIsStep, PTL DEF ListSpec, Spec
=============================================================================
