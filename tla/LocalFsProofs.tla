---------------------------- MODULE LocalFsProofs ----------------------------
(* What a path names in LocalFs, for any calls, paths, contents and faults. *)
EXTENDS LocalFs, PosixFilesProofs

(* The provers that a leaf is given to, in turn, unless it names its own.  *)
USE SMT, Zenon, SMTT(10), SMTT(20)

(* A call of this package: it deletes nothing.                             *)
LEMMA FsKinds ==
    ASSUME NEW c \in Calls
    PROVE  \/ c.op = "write" /\ c.path \in Paths /\ c.value \in Values
           \/ /\ c.op = "move" /\ c.src \in Paths /\ c.dst \in Paths
              /\ <<c.src, c.dst>> \in MovePairs
  BY CallKinds, DeleteAssumption

(* A content cut short.                                                    *)
LEMMA PartCut ==
    ASSUME NEW v, NEW n \in Nat, NEW k \in Nat, k <= n
    PROVE  SubSeq(Part(v, n), 1, k) = Part(v, k)
<1>1. Part(v, n) \in Seq({v}) /\ Len(Part(v, n)) = n /\ \A i \in 1 .. n : Part(v, n)[i] = v
  BY PartSeq, Zenon
<1> QED
  BY <1>1 DEF Part

LEMMA PairIs ==
    ASSUME NEW S, NEW T, NEW n \in S \X T
    PROVE  \E s \in S, t \in T : n = <<s, t>>
  OBVIOUS

-----------------------------------------------------------------------------
(* The inductive invariant.  A file is settled when it was synced, or its  *)
(* sync has failed, the call that made it writes to it no more, and it     *)
(* holds a content, whole unless a power failure may have torn it.         *)

FsTypes ==
    /\ FilesOK
    /\ synced \subseteq Files
    /\ suspect \subseteq Ops
    /\ left \subseteq Ops
    /\ pc \in [Ops -> Done \cup {"createTemp", "write", "rename", "open", "copy",
                                 "sync", "publish", "remove", "cleanup"}]

Frozen == {"publish", "remove", "ok", "error", "cleanup", "crashed"}

Closed == synced \cup suspect

Holds(f, v, n) == data[f] = Part(v, n) /\ (n = Chunks \/ Torn(f))

Settled(f) ==
    /\ f \in Closed
    /\ \E v \in AllValues, n \in 0 .. Chunks : Holds(f, v, n)
    /\ f \in Ops => pc[f] \in Frozen

(* Where a call has made no temporary file yet, and where it has one.      *)
Before == {"idle", "rename", "open", "createTemp"}
Filling == {"write", "copy", "sync", "publish"}

(* A call is where its kind of request can bring it.                       *)
CallOK(o) ==
    /\ pc[o] # "idle" => req[o] \in Calls
    /\ pc[o] \in {"rename", "open", "copy", "sync", "remove"} => req[o].op = "move"
    /\ pc[o] = "write" => req[o].op = "write"
    /\ pc[o] \in Before => off[o] = 0 /\ data[o] = << >>

(* Where the temporary name of a call may be.                              *)
MayStay(o) ==
    \/ pc[o] \in Filling \cup {"cleanup", "crashed"}
    \/ pc[o] \in {"ok", "error"} /\ (outage \/ o \in left)

(* A path names a settled file, and a temporary name the file of its call. *)
NamesInv ==
    /\ \A p \in Paths : Final(p) \in DOMAIN names => Settled(names[Final(p)])
    /\ \A p \in Paths, o \in Ops :
          <<p, o>> \in DOMAIN names => MayStay(o) /\ p = Target(o) /\ names[<<p, o>>] = o
    /\ \A o \in Ops :
          pc[o] \in Filling => Tmp(o) \in DOMAIN names

(* What a call has written so far, and what it copies from.                *)
WriteOK(o) ==
    /\ pc[o] \in {"write", "copy", "sync"} => fd[o].out = o
    /\ pc[o] = "write" => data[o] = Part(req[o].value, off[o])
    /\ pc[o] = "createTemp" /\ req[o].op = "move" => Settled(fd[o].in)
    /\ pc[o] = "copy" =>
          /\ Settled(fd[o].in)
          /\ \E v \in AllValues, n \in 0 .. Chunks :
                Holds(fd[o].in, v, n) /\ data[o] = Part(v, off[o])
    /\ pc[o] = "sync" =>
          \E v \in AllValues, n \in 0 .. Chunks :
             data[o] = Part(v, n) /\ (n = Chunks \/ Torn(fd[o].in))
    /\ pc[o] = "publish" => Settled(o)

CallsInv == \A o \in Ops : CallOK(o) /\ WriteOK(o)

(* A download has a first part of the settled file that it reads.          *)
ReadOK(r) ==
    /\ reader[r].state = "idle" => reader[r].got = << >>
    /\ reader[r].state = "reading" =>
          /\ Settled(reader[r].file)
          /\ \E v \in AllValues, n \in 0 .. Chunks, m \in 0 .. Chunks :
                Holds(reader[r].file, v, n) /\ reader[r].got = Part(v, m)
    /\ reader[r].state = "eof" =>
          Torn(reader[r].file) \/ \E v \in AllValues : reader[r].got = Content(v)

ReadInv == \A r \in Readers : ReadOK(r)

FsInv == FsTypes /\ NamesInv /\ CallsInv /\ ReadInv

(* What the disk may hold of the names.  A path has named settled files    *)
(* only, and a temporary name nothing but the file of its call.            *)
PastInv ==
    /\ past \in [Names -> SUBSET (Files \cup {None})]
    /\ outage \in BOOLEAN
    /\ \A n \in Names : Entry(names, n) \in past[n]
    /\ \A p \in Paths : \A f \in past[Final(p)] : f # None => Settled(f)
    /\ \A p \in Paths, o \in Ops : \A f \in past[<<p, o>>] :
          f # None => f = o /\ p = Target(o) /\ pc[o] \notin Before

LEMMA FsInit0 == FsInit => FsInv
<1> SUFFICES ASSUME FsInit PROVE FsInv
  OBVIOUS
<1>1. \A f \in Files : Settled(f) <=> f \in DOMAIN InitialFiles
  <2>1. \A f \in Files : f \in Closed <=> f \in DOMAIN InitialFiles
    BY DEF FsInit, Closed
  <2>2. ASSUME NEW f \in DOMAIN InitialFiles PROVE Holds(f, InitialFiles[f], Chunks)
    BY FilesAssumption, PartWhole DEF FsInit, Init, Files, Holds
  <2>3. Chunks \in 0 .. Chunks /\ \A f \in DOMAIN InitialFiles :
           f \notin Ops /\ InitialFiles[f] \in AllValues
    BY ChunksAssumption, FilesAssumption DEF AllValues
  <2> QED
    BY <2>1, <2>2, <2>3 DEF Settled
<1>2. \A p \in Paths : Final(p) \in DOMAIN names => names[Final(p)] \in DOMAIN InitialFiles
  BY DEF FsInit, Init, Final
<1>3. \A p \in Paths, o \in Ops : <<p, o>> \notin DOMAIN names
  BY NamesDiffer, Zenon DEF FsInit, Init
<1>4. data \in [Files -> Seq(Chunk)]
  <2>1. \A f \in DOMAIN InitialFiles : Content(InitialFiles[f]) \in Seq(Chunk)
    BY ChunksAssumption DEF Content, Chunk, AllValues
  <2>2. << >> \in Seq(Chunk)
    OBVIOUS
  <2> QED
    BY <2>1, <2>2 DEF FsInit, Init, Files
<1>5. FsTypes
  <2>1. DOMAIN names \subseteq {Final(p) : p \in Paths} \cup (Paths \X Ops)
    BY PathAssumption DEF FsInit, Init
  <2>2. \A n \in DOMAIN names : names[n] \in Files
    <3> SUFFICES ASSUME NEW n \in DOMAIN names PROVE names[n] \in Files
      OBVIOUS
    <3>1. PICK p \in DOMAIN InitialFiles : n = Final(p)
      BY DEF FsInit, Init
    <3>2. names[n] = n[1]
      BY DEF FsInit, Init
    <3>3. n[1] = p
      BY <3>1 DEF Final
    <3> QED
      BY <3>2, <3>3 DEF Files
  <2>3. reader \in [Readers -> [state : {"idle", "reading", "eof", "cut"},
                              file : Files \cup {None}, got : Seq(Chunk)]]
    BY DEF FsInit, Init
  <2>4. /\ req \in [Ops -> Calls \cup {None}]
        /\ fd \in [Ops -> [in : Files \cup {None}, out : Files \cup {None}]]
        /\ off \in [Ops -> 0 .. Chunks]
    BY ChunksAssumption DEF FsInit, Init
  <2>5. /\ synced \subseteq Files /\ suspect \subseteq Ops /\ left \subseteq Ops
        /\ pc \in [Ops -> Done]
    BY DEF FsInit, Init, Done, Files
  <2> QED
    BY <1>4, <2>1, <2>2, <2>3, <2>4, <2>5 DEF FsTypes, FilesOK
<1>6. NamesInv
  BY <1>1, <1>2, <1>3, Zenon DEF NamesInv, Filling, Files, FsInit, Init
<1> QED
  BY <1>5, <1>6, Zenon
  DEF FsInit, Init, FsInv, CallsInv, CallOK, WriteOK, ReadInv, ReadOK, Files, Before

LEMMA PastInit == FsInit => PastInv
<1> SUFFICES ASSUME FsInit PROVE PastInv
  OBVIOUS
<1>a. FsInv
  BY FsInit0
<1>1. past = [n \in Names |-> {Entry(names, n)}] /\ outage = FALSE
  BY DEF FsInit
<1>2. \A n : n \in DOMAIN names => names[n] \in Files
  BY <1>a DEF FsInv, FsTypes, FilesOK
<1>3. past \in [Names -> SUBSET (Files \cup {None})]
  BY <1>1, <1>2 DEF Entry
<1>4. \A p \in Paths : Final(p) \in Names /\ (Final(p) \in DOMAIN names => Settled(names[Final(p)]))
  BY <1>a DEF FsInv, NamesInv, Names
<1>5. \A p \in Paths, o \in Ops : <<p, o>> \in Names /\ <<p, o>> \notin DOMAIN names
  BY NamesDiffer, Zenon DEF FsInit, Init, Names
<1> QED
  BY <1>1, <1>3, <1>4, <1>5, Zenon DEF PastInv, Entry

-----------------------------------------------------------------------------
(* What every step keeps, as is proved below: settled files stay as they   *)
(* are.                                                                    *)
Stable == \A f : Settled(f) => Settled(f)' /\ data'[f] = data[f]

(* Moves of one content.  Every closed file holds it, and some path that   *)
(* names one ranks above the source of every move that has still to remove *)
(* its own.                                                                *)

Safe(Rank, p) ==
    /\ Final(p) \in DOMAIN names
    /\ \A o \in Ops : pc[o] = "remove" => Rank[req[o].src] < Rank[p]

MoveInv(Rank, v) ==
    ~outage =>
       /\ \A f \in Closed : Settled(f)
       /\ OnlyMoves => /\ \A f \in Closed : data[f] = Content(v)
                       /\ \A o \in Ops : pc[o] = "sync" => data[o] = Content(v)
                       /\ \E p \in Paths : Safe(Rank, p)

(* A call that has begun keeps its request, and makes one temporary file.  *)
LEMMA Onward ==
    ASSUME FsInv, Step, NEW o \in Ops, pc[o] # "idle"
    PROVE  /\ pc'[o] # "idle" /\ req'[o] = req[o]
           /\ pc[o] \notin Before => pc'[o] \notin Before
<1> DEFINE Goal == /\ pc'[o] # "idle" /\ req'[o] = req[o]
                   /\ pc[o] \notin Before => pc'[o] \notin Before
<1> USE DEF Goto, FsInv, FsTypes, FilesOK, Before
<1>1. ASSUME NEW q \in Ops, Call(q) PROVE Goal
  <2>1. CASE Begin(q)
    <3>1. PICK c \in Calls : req' = [req EXCEPT ![q] = c] /\ Goto(q, FirstCall(c))
      BY <2>1, Zenon DEF Begin
    <3>2. q # o
      BY <2>1 DEF Begin
    <3> QED
      BY <3>1, <3>2
  <2>2. CASE AtomicWriteFile(q)
    BY <2>2 DEF AtomicWriteFile, CreateTemp, WriteChunk, RenameTemp
  <2>3. CASE MoveUploadedFile(q)
    BY <2>3 DEF MoveUploadedFile, CopyFileContents, Rename, Open, CreateTemp, CopyChunk,
                RenameCopy, RemoveSrc
  <2>4. CASE Fails(q) \/ Crash(q)
    BY <2>4 DEF Fails, Crash
  <2> QED
    BY <1>1, <2>1, <2>2, <2>3, <2>4 DEF Call
<1>2. ASSUME NEW q \in Ops, Sync(q) \/ Cleanup(q) PROVE Goal
  BY <1>2 DEF Sync, Cleanup
<1>3. ASSUME NEW r \in Readers, Download(r) PROVE Goal
  BY <1>3 DEF Download, StartRead, ReadChunk, callVars
<1> QED
  BY <1>1, <1>2, <1>3 DEF Step

LEMMA MovesOnly ==
    ASSUME FsInv, Step, OnlyMoves'
    PROVE  OnlyMoves
  BY Onward DEF OnlyMoves

(* A step after which the path p, and every call about to remove a source  *)
(* or to sync a copy, are as they were.                                    *)
LEMMA SafeKept ==
    ASSUME NEW Rank, NEW v, NEW p \in Paths, Safe(Rank, p),
           Final(p) \in DOMAIN names',
           \A o \in Ops : pc'[o] = "remove" => pc[o] = "remove" /\ req'[o] = req[o],
           \A o \in Ops : pc[o] = "sync" => data[o] = Content(v),
           \A o \in Ops : pc'[o] = "sync" => pc[o] = "sync" /\ data'[o] = data[o]
    PROVE  /\ \A o \in Ops : pc'[o] = "sync" => data'[o] = Content(v)
           /\ \E q \in Paths : Safe(Rank, q)'
<1>1. Safe(Rank, p)'
  BY DEF Safe, Final
<1> QED
  BY <1>1

LEMMA MoveStep ==
    ASSUME NEW v, NEW Rank \in [Paths -> Nat],
           \A p, q \in Paths : <<p, q>> \in MovePairs => Rank[p] < Rank[q],
           FsInv, FsInv', Stable, MoveInv(Rank, v), Step, UNCHANGED outage
    PROVE  MoveInv(Rank, v)'
<1> SUFFICES ASSUME ~outage PROVE MoveInv(Rank, v)'
  BY DEF MoveInv
<1>b. FsTypes /\ NamesInv /\ CallsInv
  BY DEF FsInv
<1>c. DOMAIN pc = Ops /\ DOMAIN req = Ops /\ data \in [Files -> Seq(Chunk)] /\ Ops \subseteq Files
  BY <1>b DEF FsTypes, FilesOK, Files
<1>d. \/ Closed' = Closed
      \/ \E o \in Ops : Sync(o) /\ Closed' = Closed \cup {o} /\ data' = data
  <2>1. ASSUME NEW o \in Ops, Sync(o) PROVE fd[o].out = o
    BY <1>b, <2>1 DEF CallsInv, WriteOK, Sync
  <2>2. ASSUME NEW o \in Ops, Sync(o) PROVE Closed' = Closed \cup {o} /\ data' = data
    BY <2>1, <2>2 DEF Sync, Closed
  <2>3. ASSUME UNCHANGED <<synced, suspect>> PROVE Closed' = Closed
    BY <2>3 DEF Closed
  <2> QED
    BY <2>2, <2>3 DEF Step, Cleanup
<1>1. \A f \in Closed' : Settled(f)'
  <2>1. \A f \in Closed : Settled(f)'
    BY DEF MoveInv, Stable
  <2>2. ASSUME NEW o \in Ops, Sync(o) PROVE Settled(o)'
    <3>1. pc'[o] = "publish"
      BY <1>c, <2>2 DEF Sync, Goto
    <3> QED
      BY <3>1 DEF FsInv, CallsInv, WriteOK
  <2> QED
    BY <1>d, <2>1, <2>2
<1> SUFFICES ASSUME OnlyMoves'
             PROVE  /\ \A f \in Closed' : data'[f] = Content(v)
                    /\ \A o \in Ops : pc'[o] = "sync" => data'[o] = Content(v)
                    /\ \E p \in Paths : Safe(Rank, p)'
  <2>1. \A w : Content(w)' = Content(w)
    BY DEF Content
  <2> QED
    BY <1>1, <2>1 DEF MoveInv
<1>e. /\ OnlyMoves
      /\ \A f \in Closed : data[f] = Content(v) /\ Settled(f)
      /\ \A o \in Ops : pc[o] = "sync" => data[o] = Content(v)
      /\ \E p \in Paths : Safe(Rank, p)
  BY MovesOnly DEF MoveInv
<1>f. \A o \in Ops : pc[o] # "idle" =>
         /\ req[o].op = "move" /\ pc[o] # "write" /\ req[o].src \in Paths /\ req[o].dst \in Paths
         /\ Rank[req[o].src] < Rank[req[o].dst]
  BY <1>b, <1>e, FsKinds, Zenon DEF OnlyMoves, CallsInv, CallOK
<1>2. \A f \in Closed' : data'[f] = Content(v)
  <2>1. \A f \in Closed : data'[f] = Content(v)
    BY <1>e DEF Stable
  <2>2. ASSUME NEW o \in Ops, Sync(o) PROVE data[o] = Content(v)
    BY <1>e, <1>f, <2>2 DEF Sync
  <2> QED
    BY <1>d, <2>1, <2>2
<1>g. PICK p \in Paths : Safe(Rank, p)
  BY <1>e
<1> DEFINE Goal == /\ \A o \in Ops : pc'[o] = "sync" => data'[o] = Content(v)
                   /\ \E q \in Paths : Safe(Rank, q)'
<1>3. ASSUME NEW o \in Ops, Begin(o) PROVE Goal
  <2>1. PICK c \in Calls : req' = [req EXCEPT ![o] = c] /\ Goto(o, FirstCall(c))
    BY <1>3, Zenon DEF Begin
  <2>2. FirstCall(c) \in {"createTemp", "rename"}
    BY FsKinds, Zenon DEF FirstCall
  <2> QED
    BY <1>3, <1>c, <1>e, <1>g, <2>1, <2>2, SafeKept, Zenon DEF Begin, Goto, Safe
<1>4. ASSUME NEW o \in Ops, Fails(o) \/ Crash(o) \/ Sync(o) \/ Open(o, "createTemp") PROVE Goal
  <2>1. /\ names' = names /\ data' = data /\ req' = req
    BY <1>4 DEF Fails, Crash, Sync, Open
  <2>2. PICK l \in {"cleanup", "crashed", "publish", "createTemp", "error"} : Goto(o, l)
    BY <1>4 DEF Fails, Crash, Sync, Open
  <2>3. \A q \in Ops : pc'[q] = l \/ pc'[q] = pc[q]
    BY <1>c, <2>2 DEF Goto
  <2>4. Final(p) \in DOMAIN names'
    BY <1>g, <2>1 DEF Safe
  <2> QED
    BY <1>e, <1>g, <2>1, <2>2, <2>3, <2>4, SafeKept
<1>5. ASSUME NEW o \in Ops, Cleanup(o) \/ CreateTemp(o) PROVE Goal
  <2>1. Final(p) \in DOMAIN names'
    BY <1>5, <1>g, NamesDiffer DEF Cleanup, CreateTemp, Link, Unlink, Tmp, Safe
  <2> QED
    BY <1>5, <1>c, <1>e, <1>g, <2>1, SafeKept, Zenon DEF Cleanup, CreateTemp, Goto
<1>6. ASSUME NEW o \in Ops, CopyChunk(o, "sync") PROVE Goal
  <2>1. Safe(Rank, p)'
    BY <1>6, <1>c, <1>g DEF CopyChunk, Goto, Safe, Final
  <2>2. fd[o].out = o /\ Settled(fd[o].in)
    BY <1>6, <1>b DEF CallsInv, WriteOK, CopyChunk
  <2>3. \A q \in Ops \ {o} : pc'[q] = pc[q] /\ data'[q] = data[q]
    BY <1>6, <1>c, <2>2 DEF CopyChunk, Goto
  <2>4. pc'[o] = "sync" => data'[o] = Content(v)
    <3> SUFFICES ASSUME pc'[o] = "sync" PROVE data'[o] = Content(v)
      OBVIOUS
    <3>1. PICK w \in AllValues : data[fd[o].in] = Content(w) /\ data[o] = Part(w, off[o])
      BY <1>6, <1>b, PartWhole DEF CallsInv, WriteOK, CopyChunk, Holds, Torn
    <3>2. data[fd[o].in] = Content(v)
      BY <1>e, <2>2 DEF Settled
    <3>3. ~(off[o] + 1 <= Len(data[fd[o].in])) /\ data' = data
      BY <1>6, <1>c DEF CopyChunk
    <3>4. Len(Content(w)) = Chunks
      BY ChunksAssumption, PartSeq, PartWhole, Zenon
    <3>5. off[o] \in 0 .. Chunks
      BY <1>b DEF FsTypes, FilesOK
    <3>6. off[o] = Chunks
      BY <3>1, <3>3, <3>4, <3>5, ChunksAssumption
    <3>7. data[o] = Content(w)
      BY <3>1, <3>6, PartWhole
    <3> QED
      BY <3>1, <3>2, <3>3, <3>7
  <2> QED
    BY <1>e, <2>1, <2>3, <2>4
<1>7. ASSUME NEW o \in Ops, WriteChunk(o) \/ RenameTemp(o, "publish"), req[o].op = "write"
      PROVE  Goal
  BY <1>7, <1>f DEF WriteChunk, RenameTemp
<1>8. ASSUME NEW o \in Ops, RenameCopy(o), req[o].op = "move" PROVE Goal
  <2>1. PICK src \in Paths, dst \in Paths :
           src = req[o].src /\ dst = req[o].dst /\ Rank[src] < Rank[dst]
    BY <1>8, <1>f DEF RenameCopy
  <2>a. Tmp(o) \in DOMAIN names
    BY <1>8, <1>b DEF RenameCopy, NamesInv, Filling
  <2>2. \A x : Final(x) # Tmp(o)
    BY NamesDiffer DEF Tmp
  <2>3. Final(p) \in DOMAIN names' /\ Final(dst) \in DOMAIN names'
    <3>1. PICK m, a, b : m = names /\ a = Tmp(o) /\ b = Final(dst)
      OBVIOUS
    <3>2. a \in DOMAIN m /\ a # b /\ names' = Renamed(m, a, b)
      BY <1>8, <2>1, <2>2, <2>a, <3>1 DEF RenameCopy
    <3>3. \A x : x \in DOMAIN names' <=> x # a /\ (x \in DOMAIN m \/ x = b)
      BY <3>2, RenamedIs
    <3>4. Final(p) \in DOMAIN names
      BY <1>g DEF Safe
    <3> QED
      BY <2>2, <3>1, <3>3, <3>4
  <2>4. /\ pc'[o] = "remove" /\ req' = req /\ data' = data
        /\ \A q \in Ops \ {o} : pc'[q] = pc[q]
    BY <1>8, <1>c DEF RenameCopy, Goto
  <2>5. \A q \in Ops : pc[q] = "remove" => req[q].src \in Paths /\ Rank[req[q].src] < Rank[p]
    BY <1>f, <1>g DEF Safe
  <2>6. CASE Rank[src] < Rank[p]
    <3>1. Safe(Rank, p)'
      BY <2>1, <2>3, <2>4, <2>5, <2>6 DEF Safe, Final
    <3> QED
      BY <1>e, <2>4, <3>1
  <2>7. CASE ~(Rank[src] < Rank[p])
    <3>1. Rank[src] \in Nat /\ Rank[p] \in Nat /\ Rank[dst] \in Nat
      OBVIOUS
    <3>2. \A q \in Ops : pc[q] = "remove" => Rank[req[q].src] < Rank[dst]
      BY <2>1, <2>5, <2>7, <3>1
    <3>3. Safe(Rank, dst)'
      BY <2>1, <2>3, <2>4, <3>2 DEF Safe, Final
    <3> QED
      BY <1>e, <2>4, <3>3
  <2> QED
    BY <2>6, <2>7
<1>9. ASSUME NEW o \in Ops, Rename(o) PROVE Goal
  <2>1. PICK src \in Paths, dst \in Paths :
           src = req[o].src /\ dst = req[o].dst /\ Rank[src] < Rank[dst]
    BY <1>9, <1>f DEF Rename
  <2>2. CASE Goto(o, "open") /\ UNCHANGED names
    BY <1>9, <1>c, <1>e, <1>g, <2>2, SafeKept, Zenon DEF Rename, Goto, Safe
  <2>3. CASE /\ Final(src) \in DOMAIN names
             /\ names' = Renamed(names, Final(src), Final(dst))
             /\ Goto(o, "ok")
    <3>1. Rank[src] \in Nat /\ Rank[p] \in Nat /\ Rank[dst] \in Nat /\ src # dst
      BY <2>1
    <3>2. Final(src) # Final(dst)
      BY <3>1, NamesDiffer
    <3>3. \A x : x \in DOMAIN names' <=>
                  x # Final(src) /\ (x \in DOMAIN names \/ x = Final(dst))
      <4>1. PICK m, a, b : m = names /\ a = Final(src) /\ b = Final(dst)
        OBVIOUS
      <4>2. a \in DOMAIN m /\ a # b /\ names' = Renamed(m, a, b)
        BY <2>3, <3>2, <4>1
      <4>3. \A x : x \in DOMAIN names' <=> x # a /\ (x \in DOMAIN m \/ x = b)
        BY <4>2, RenamedIs
      <4> QED
        BY <4>1, <4>3
    <3>4. /\ req' = req /\ data' = data
          /\ \A q \in Ops : pc'[q] \in {"sync", "remove"} => pc'[q] = pc[q]
      BY <1>9, <1>c, <2>3 DEF Rename, Goto
    <3>5. \A q \in Ops : pc[q] = "remove" => req[q].src \in Paths /\ Rank[req[q].src] < Rank[p]
      BY <1>f, <1>g DEF Safe
    <3>6. CASE p = src
      <4>1. \A q \in Ops : pc[q] = "remove" => Rank[req[q].src] < Rank[dst]
        BY <2>1, <3>1, <3>5, <3>6
      <4>2. Safe(Rank, dst)'
        BY <3>2, <3>3, <3>4, <4>1 DEF Safe, Final
      <4> QED
        BY <1>e, <3>4, <4>2
    <3>7. CASE p # src
      <4>1. Final(p) \in DOMAIN names'
        BY <1>g, <3>3, <3>7, NamesDiffer DEF Safe
      <4>2. Safe(Rank, p)'
        BY <3>4, <3>5, <4>1 DEF Safe, Final
      <4> QED
        BY <1>e, <3>4, <4>2
    <3> QED
      BY <3>6, <3>7
  <2> QED
    BY <1>9, <2>1, <2>2, <2>3, Zenon DEF Rename, CanRename
<1>10. ASSUME NEW o \in Ops, RemoveSrc(o) PROVE Goal
  <2>1. PICK src \in Paths : src = req[o].src /\ Rank[src] < Rank[p]
    BY <1>10, <1>f, <1>g DEF RemoveSrc, Safe
  <2>2. Final(p) # Final(src)
    BY <2>1, NamesDiffer
  <2>3. Final(p) \in DOMAIN names'
    BY <1>10, <1>g, <2>1, <2>2, Zenon DEF RemoveSrc, Unlink, Safe
  <2> QED
    BY <1>10, <1>c, <1>e, <1>g, <2>3, SafeKept, Zenon DEF RemoveSrc, Goto
<1>11. ASSUME NEW r \in Readers, Download(r) PROVE Goal
  BY <1>11, <1>e, <1>g, SafeKept DEF Download, StartRead, ReadChunk, callVars, Safe
<1>12. Goal
  BY <1>3, <1>4, <1>5, <1>6, <1>7, <1>8, <1>9, <1>10, <1>11, Zenon
  DEF Step, Call, AtomicWriteFile, MoveUploadedFile, CopyFileContents
<1> QED
  BY <1>2, <1>12

-----------------------------------------------------------------------------
(* A step of call o keeps settled files as they are if it writes at most   *)
(* to its own file, and that only before it is frozen.                     *)
Unsettles(o, label) ==
    /\ \A f \in Files \ {o} : data'[f] = data[f]
    /\ pc[o] \in Frozen => label \in Frozen /\ data'[o] = data[o]

LEMMA StepStable ==
    ASSUME FsTypes, NEW o \in Ops, NEW label, Goto(o, label), Unsettles(o, label),
           synced \subseteq synced', suspect \subseteq suspect', UNCHANGED outage
    PROVE  Stable
<1> SUFFICES ASSUME NEW f, Settled(f) PROVE Settled(f)' /\ data'[f] = data[f]
  BY DEF Stable
<1>1. f \in Files
  BY DEF Settled, FsTypes, Closed, Files
<1>2. data'[f] = data[f]
  BY <1>1 DEF Settled, Unsettles
<1>3. f \in Ops => pc'[f] \in Frozen
  BY Zenon DEF Settled, Unsettles, Goto, FsTypes
<1> QED
  BY <1>2, <1>3 DEF Settled, Closed, Holds, Torn, Part

(* What such a step leaves to prove: its own part of the invariant.        *)
LEMMA ReadKept ==
    ASSUME ReadInv, UNCHANGED <<reader, outage>>, Stable, suspect \subseteq suspect'
    PROVE  ReadInv'
<1>1. \A r \in Readers : reader[r].state = "reading" =>
         Settled(reader[r].file)' /\ data'[reader[r].file] = data[reader[r].file]
  BY DEF ReadInv, ReadOK, Stable
<1>2. \A f : Torn(f) => Torn(f)'
  BY DEF Torn
<1> QED
  BY <1>1, <1>2 DEF ReadInv, ReadOK, Holds

LEMMA OthersKept ==
    ASSUME CallsInv, Stable, NEW o \in Ops, suspect \subseteq suspect', UNCHANGED outage,
           \A q \in Ops \ {o} : /\ pc'[q] = pc[q] /\ req'[q] = req[q] /\ fd'[q] = fd[q]
                               /\ off'[q] = off[q] /\ data'[q] = data[q],
           CallOK(o)', WriteOK(o)'
    PROVE  CallsInv'
<1> SUFFICES ASSUME NEW q \in Ops \ {o} PROVE CallOK(q)' /\ WriteOK(q)'
  BY DEF CallsInv
<1>1. CallOK(q) /\ WriteOK(q)
  BY DEF CallsInv
<1>2. CallOK(q)'
  BY <1>1 DEF CallOK, Calls
<1>6. Torn(fd[q].in) => Torn(fd[q].in)'
  BY DEF Torn
<1>3. Settled(fd[q].in) => Settled(fd[q].in)' /\ data'[fd[q].in] = data[fd[q].in]
  BY DEF Stable
<1>4. Settled(q) => Settled(q)'
  BY Zenon DEF Stable
<1>5. WriteOK(q)'
  BY <1>1, <1>3, <1>4, <1>6 DEF WriteOK, Holds
<1> QED
  BY <1>2, <1>5

LEMMA NamesKept ==
    ASSUME NamesInv, Stable, UNCHANGED <<names, outage>>, left \subseteq left', DOMAIN pc = Ops,
           NEW o \in Ops, NEW label, Goto(o, label),
           \A q \in Ops : q # o \/ pc[o] # "idle" => req'[q] = req[q],
           \/ pc[o] \in Before
           \/ label \in Filling \cup {"cleanup", "crashed"}
           \/ label = "error" /\ o \in left',
           label \in Filling => pc[o] \in Filling
    PROVE  NamesInv'
<1>1. \A p \in Paths : Final(p) \in DOMAIN names => Settled(names[Final(p)])'
  BY DEF NamesInv, Stable
<1>2. \A q \in Ops : MayStay(q) => MayStay(q)' /\ Target(q)' = Target(q)
  BY DEF Goto, Target, Filling, MayStay, Before
<1>3. \A p \in Paths, q \in Ops :
         <<p, q>> \in DOMAIN names => MayStay(q)' /\ p = Target(q)' /\ names[<<p, q>>] = q
  BY <1>2 DEF NamesInv
<1>4. \A q \in Ops : pc'[q] \in Filling => Tmp(q)' \in DOMAIN names
  BY DEF NamesInv, Goto, Target, Tmp, Filling
<1> QED
  BY <1>1, <1>3, <1>4 DEF NamesInv, Final

(* The steps that leave the names alone.                                   *)

LEMMA BeginStep ==
    ASSUME FsInv, NEW o \in Ops, Begin(o), UNCHANGED <<synced, suspect, left, outage>>
    PROVE  FsInv' /\ Stable
<1>a. FsTypes /\ NamesInv /\ CallsInv /\ ReadInv /\ CallOK(o) /\ WriteOK(o)
  BY DEF FsInv, CallsInv
<1>b. DOMAIN pc = Ops /\ DOMAIN req = Ops
  BY <1>a DEF FsTypes, FilesOK
<1>1. PICK c \in Calls : req' = [req EXCEPT ![o] = c] /\ Goto(o, FirstCall(c))
  BY Zenon DEF Begin
<1>2. FirstCall(c) \in {"createTemp", "rename"} /\ (FirstCall(c) = "rename" <=> c.op = "move")
      /\ c.op \in {"write", "move"}
  BY FsKinds, Zenon DEF FirstCall
<1>3. Stable
  BY <1>a, <1>1, StepStable, Zenon DEF Begin, Unsettles, Frozen
<1>4. FsTypes'
  BY <1>a, <1>1, <1>2 DEF Begin, Goto, FsTypes, FilesOK
<1>5. NamesInv'
  BY <1>a, <1>b, <1>1, <1>2, <1>3, NamesKept, Zenon DEF Begin, Filling, Before
<1>6. CallOK(o)' /\ WriteOK(o)'
  BY <1>a, <1>b, <1>1, <1>2, Zenon DEF Begin, Goto, CallOK, Before, WriteOK
<1>7. CallsInv'
  BY <1>a, <1>b, <1>1, <1>3, <1>6, OthersKept DEF Begin, Goto
<1>8. ReadInv'
  BY <1>a, <1>3, ReadKept DEF Begin
<1> QED
  BY <1>3, <1>4, <1>5, <1>7, <1>8 DEF FsInv

LEMMA StopStep ==
    ASSUME FsInv, NEW o \in Ops, Fails(o) \/ Crash(o), UNCHANGED <<synced, suspect, left, outage>>
    PROVE  FsInv' /\ Stable
<1>a. FsTypes /\ NamesInv /\ CallsInv /\ ReadInv /\ CallOK(o)
  BY DEF FsInv, CallsInv
<1>b. DOMAIN pc = Ops
  BY <1>a DEF FsTypes, FilesOK
<1>1. PICK label \in {"cleanup", "crashed"} : Goto(o, label)
  BY DEF Fails, Crash
<1>2. UNCHANGED <<names, data, req, fd, off, reader>> /\ pc[o] # "idle"
  BY DEF Fails, Crash, Done
<1>3. Stable
  BY <1>a, <1>1, <1>2, StepStable, Zenon DEF Unsettles, Frozen
<1>4. FsTypes'
  BY <1>a, <1>1, <1>2 DEF Goto, FsTypes, FilesOK, Done
<1>5. NamesInv'
  BY <1>a, <1>b, <1>1, <1>2, <1>3, NamesKept, Zenon DEF Filling, Before
<1>6. CallOK(o)' /\ WriteOK(o)'
  BY <1>a, <1>b, <1>1, <1>2 DEF Goto, CallOK, Before, WriteOK
<1>7. CallsInv'
  BY <1>a, <1>b, <1>1, <1>2, <1>3, <1>6, OthersKept DEF Goto
<1>8. ReadInv'
  BY <1>a, <1>2, <1>3, ReadKept
<1> QED
  BY <1>3, <1>4, <1>5, <1>7, <1>8 DEF FsInv

LEMMA WriteStep ==
    ASSUME FsInv, NEW o \in Ops, WriteChunk(o), UNCHANGED <<synced, suspect, left, outage>>
    PROVE  FsInv' /\ Stable
<1>a. FsTypes /\ NamesInv /\ CallsInv /\ ReadInv /\ CallOK(o) /\ WriteOK(o)
  BY DEF FsInv, CallsInv
<1>b. /\ pc[o] = "write" /\ DOMAIN pc = Ops /\ DOMAIN off = Ops /\ Goto(o, "write")
      /\ off[o] \in Nat /\ off[o] < Chunks /\ off' = [off EXCEPT ![o] = off[o] + 1]
      /\ UNCHANGED <<names, req, fd, reader>>
  BY <1>a, ChunksAssumption DEF WriteChunk, FsTypes, FilesOK, Goto
<1>c. req[o].value \in AllValues
  BY <1>a, <1>b, FsKinds, Zenon DEF CallOK, Before, AllValues
<1>1. data' = [data EXCEPT ![o] = Part(req[o].value, off[o] + 1)]
  <2>1. WriteAt(Part(req[o].value, off[o]), off[o] + 1, req[o].value)
          = Part(req[o].value, off[o] + 1)
    BY <1>b, PartGrows, Zenon
  <2>2. fd[o].out = o /\ data[o] = Part(req[o].value, off[o])
    BY <1>a, <1>b, Zenon DEF WriteOK
  <2> QED
    BY <2>1, <2>2, Zenon DEF WriteChunk
<1>2. data \in [Files -> Seq(Chunk)] /\ o \in Files
  BY <1>a DEF FsTypes, FilesOK, Files
<1>3. Stable
  BY <1>a, <1>b, <1>1, <1>2, StepStable, Zenon DEF Unsettles, Frozen
<1>4. FsTypes'
  <2>1. data' \in [Files -> Seq(Chunk)]
    BY <1>b, <1>c, <1>1, <1>2, PartChunks
  <2>2. off' \in [Ops -> 0 .. Chunks]
    BY <1>a, <1>b, ChunksAssumption DEF FsTypes, FilesOK
  <2> QED
    BY <1>a, <1>b, <2>1, <2>2, Zenon DEF WriteChunk, FsTypes, FilesOK
<1>5. NamesInv'
  BY <1>a, <1>b, <1>3, NamesKept, Zenon DEF Filling, Before
<1>6. CallOK(o)' /\ WriteOK(o)'
  BY <1>a, <1>b, <1>1, <1>2, Zenon DEF Goto, CallOK, Before, WriteOK
<1>7. CallsInv'
  BY <1>a, <1>b, <1>1, <1>2, <1>3, <1>6, OthersKept DEF Goto, Files
<1>8. ReadInv'
  BY <1>a, <1>b, <1>3, ReadKept
<1> QED
  BY <1>3, <1>4, <1>5, <1>7, <1>8, Zenon DEF FsInv

LEMMA OpenStep ==
    ASSUME FsInv, NEW o \in Ops, Open(o, "createTemp"), UNCHANGED <<synced, suspect, left, outage>>
    PROVE  FsInv' /\ Stable
<1>a. FsTypes /\ NamesInv /\ CallsInv /\ ReadInv /\ CallOK(o) /\ WriteOK(o)
  BY DEF FsInv, CallsInv
<1>b. /\ pc[o] = "open" /\ DOMAIN pc = Ops /\ DOMAIN fd = Ops
      /\ req[o].src \in Paths /\ req[o] \in Calls /\ req[o].op = "move"
      /\ UNCHANGED <<names, data, req, off, reader>>
  BY <1>a, FsKinds, Zenon DEF Open, FsTypes, FilesOK, CallOK, Before
<1>c. fd \in [Ops -> [in : Files \cup {None}, out : Files \cup {None}]]
  BY <1>a DEF FsTypes, FilesOK
<1>1. PICK label \in {"createTemp", "error"}, f \in Files :
         /\ Goto(o, label)
         /\ IF label = "createTemp"
            THEN /\ Final(req[o].src) \in DOMAIN names
                 /\ f = names[Final(req[o].src)]
                 /\ fd' = [fd EXCEPT ![o].in = f]
            ELSE fd' = fd
  BY <1>a DEF Open, FsTypes, FilesOK, Files
<1>2. \A q \in Ops \ {o} : fd'[q] = fd[q]
  BY <1>1, <1>c
<1>3. Stable
  BY <1>a, <1>b, <1>1, StepStable DEF Unsettles, Frozen
<1>4. FsTypes'
  <2>1. fd' \in [Ops -> [in : Files \cup {None}, out : Files \cup {None}]]
    BY <1>c, <1>1
  <2> QED
    BY <1>a, <1>b, <1>1, <2>1, Zenon DEF Goto, FsTypes, FilesOK, Done
<1>5. NamesInv'
  BY <1>a, <1>b, <1>1, <1>3, NamesKept DEF Filling, Before
<1>6. CallOK(o)' /\ WriteOK(o)'
  <2>1. CallOK(o)'
    BY <1>a, <1>b, <1>1 DEF Goto, CallOK, Before
  <2>2. label = "createTemp" => Settled(f)'
    BY <1>a, <1>b, <1>1, <1>3 DEF NamesInv, Stable
  <2>3. label = "createTemp" => f = fd'[o].in
    BY <1>c, <1>1
  <2>4. pc'[o] = label
    BY <1>b, <1>1 DEF Goto
  <2> QED
    BY <2>1, <2>2, <2>3, <2>4 DEF WriteOK
<1>7. CallsInv'
  BY <1>a, <1>b, <1>1, <1>2, <1>3, <1>6, OthersKept DEF Goto
<1>8. ReadInv'
  BY <1>a, <1>b, <1>3, ReadKept
<1> QED
  BY <1>3, <1>4, <1>5, <1>7, <1>8 DEF FsInv

LEMMA CopyStep ==
    ASSUME FsInv, NEW o \in Ops, CopyChunk(o, "sync"), UNCHANGED <<synced, suspect, left, outage>>
    PROVE  FsInv' /\ Stable
<1>a. FsTypes /\ NamesInv /\ CallsInv /\ ReadInv /\ CallOK(o) /\ WriteOK(o)
  BY Zenon DEF FsInv, CallsInv
<1>b. /\ pc[o] = "copy" /\ DOMAIN pc = Ops /\ DOMAIN off = Ops
      /\ off[o] \in 0 .. Chunks /\ Chunks \in Nat
      /\ UNCHANGED <<names, req, fd, reader>>
  BY <1>a, ChunksAssumption, Zenon DEF CopyChunk, FsTypes, FilesOK
<1>c. data \in [Files -> Seq(Chunk)] /\ o \in Files
  BY <1>a, Zenon DEF FsTypes, FilesOK, Files
<1>1. PICK v \in AllValues, n \in 0 .. Chunks :
         Holds(fd[o].in, v, n) /\ data[o] = Part(v, off[o])
  BY <1>a, <1>b DEF WriteOK
<1>2. /\ data[fd[o].in] = Part(v, n) /\ Len(Part(v, n)) = n
      /\ \A i \in 1 .. n : Part(v, n)[i] = v
  <2>1. n \in Nat /\ data[fd[o].in] = Part(v, n)
    BY <1>b, <1>1 DEF Holds
  <2> QED
    BY <2>1, PartSeq, Zenon
<1>d. PICK f : f = fd[o].in /\ Settled(f) /\ f # o /\ fd[o].out = o
  <2>1. fd[o].out = o /\ Settled(fd[o].in)
    BY <1>a, <1>b DEF WriteOK
  <2>2. ~Settled(o)
    BY <1>b DEF Settled, Frozen
  <2> QED
    BY <2>1, <2>2
<1>e. PICK label \in {"copy", "sync"} :
         /\ Goto(o, label)
         /\ IF label = "copy"
            THEN /\ off[o] + 1 <= n
                 /\ data' = [data EXCEPT ![o] = Part(v, off[o] + 1)]
                 /\ off' = [off EXCEPT ![o] = off[o] + 1]
            ELSE ~(off[o] + 1 <= n) /\ data' = data /\ off' = off
  <2>1. CASE off[o] + 1 <= n
    <3>1. data' = [data EXCEPT ![o] = Part(v, off[o] + 1)]
      <4>1. data[f] = Part(v, n) /\ Part(v, n)[off[o] + 1] = v
        BY <1>2, <1>b, <1>d, <2>1
      <4>2. data' = [data EXCEPT ![o] = WriteAt(data[o], off[o] + 1, v)]
        BY <1>2, <1>b, <1>d, <2>1, <4>1 DEF CopyChunk
      <4>3. WriteAt(data[o], off[o] + 1, v) = Part(v, off[o] + 1)
        BY <1>1, <1>b, PartGrows
      <4> QED
        BY <4>2, <4>3, Zenon
    <3>2. off' = [off EXCEPT ![o] = off[o] + 1] /\ pc' = pc
      BY <1>1, <1>2, <2>1 DEF CopyChunk
    <3>3. Goto(o, "copy")
      BY <1>a, <1>b, <3>2, Zenon DEF Goto, FsTypes
    <3> QED
      BY <2>1, <3>1, <3>2, <3>3
  <2>2. CASE ~(off[o] + 1 <= n)
    BY <1>1, <1>2, <1>b, <2>2 DEF CopyChunk
  <2> QED
    BY <2>1, <2>2
<1>3. Stable
  BY <1>a, <1>b, <1>c, <1>e, StepStable DEF Unsettles, Frozen
<1>4. FsTypes'
  <2>1. data' \in [Files -> Seq(Chunk)]
    <3>1. Part(v, off[o] + 1) \in Seq(Chunk)
      BY <1>b, PartChunks
    <3> QED
      BY <1>c, <1>e, <3>1, Zenon
  <2>2. off' \in [Ops -> 0 .. Chunks]
    <3>1. off \in [Ops -> 0 .. Chunks]
      BY <1>a DEF FsTypes, FilesOK
    <3>2. PICK m \in 0 .. Chunks : off' = [off EXCEPT ![o] = m] \/ off' = off
      BY <1>b, <1>e
    <3> QED
      BY <3>1, <3>2, Zenon
  <2> QED
    BY <1>a, <1>b, <1>e, <2>1, <2>2, Zenon DEF Goto, FsTypes, FilesOK
<1>5. NamesInv'
  BY <1>a, <1>b, <1>e, <1>3, NamesKept, Zenon DEF Filling, Before
<1>6. CallOK(o)' /\ WriteOK(o)'
  <2>1. CallOK(o)'
    BY <1>a, <1>b, <1>e DEF Goto, CallOK, Before
  <2>2. Settled(f)' /\ Holds(f, v, n)' /\ f = fd'[o].in
    <3>1. Settled(f)' /\ data'[f] = data[f]
      BY <1>3, <1>d DEF Stable
    <3> QED
      BY <1>b, <1>1, <1>d, <3>1 DEF Holds, Torn
  <2>3. data'[o] = Part(v, off'[o])
    BY <1>1, <1>b, <1>c, <1>e
  <2>4. label = "sync" =>
           \E m \in 0 .. Chunks : data'[o] = Part(v, m) /\ (m = Chunks \/ Torn(f)')
    <3> SUFFICES ASSUME label = "sync"
                 PROVE  data[o] = Part(v, off[o]) /\ (off[o] = Chunks \/ Torn(f))
      BY <1>b, <1>e DEF Torn
    <3> QED
      BY <1>1, <1>b, <1>d, <1>e, SMTT(30) DEF Holds
  <2>5. pc'[o] = label /\ fd'[o].out = o
    BY <1>b, <1>d, <1>e DEF Goto
  <2> QED
    BY <2>1, <2>2, <2>3, <2>4, <2>5 DEF WriteOK
<1>7. CallsInv'
  BY <1>a, <1>b, <1>c, <1>e, <1>3, <1>6, OthersKept, Zenon DEF Goto, Files
<1>8. ReadInv'
  BY <1>a, <1>b, <1>3, ReadKept
<1> QED
  BY <1>3, <1>4, <1>5, <1>7, <1>8 DEF FsInv

LEMMA SyncStep ==
    ASSUME FsInv, NEW o \in Ops, Sync(o), UNCHANGED outage
    PROVE  FsInv' /\ Stable
<1>a. FsTypes /\ NamesInv /\ CallsInv /\ ReadInv /\ CallOK(o) /\ WriteOK(o)
  BY DEF FsInv, CallsInv
<1>b. /\ pc[o] \in {"write", "sync"} /\ DOMAIN pc = Ops /\ o \in Files /\ fd[o].out = o
      /\ Goto(o, "publish") /\ UNCHANGED <<names, data, req, fd, off, reader, left>>
  BY <1>a, ZenonT(30) DEF Sync, FsTypes, WriteOK, Files
<1>c. /\ synced \subseteq synced' /\ suspect \subseteq suspect' /\ synced' \subseteq synced \cup {o}
      /\ suspect' \subseteq suspect \cup {o} /\ o \in Closed'
      /\ fd[o].in \in suspect => o \in suspect'
  BY <1>b DEF Sync, Closed
<1>1. \E v \in AllValues, n \in 0 .. Chunks : Holds(o, v, n)'
  <2>1. CASE pc[o] = "sync"
    BY <1>a, <1>b, <1>c, <2>1 DEF WriteOK, Holds, Torn
  <2>2. CASE pc[o] = "write" /\ off[o] = Chunks
    <3>1. req[o].value \in AllValues
      BY <1>a, <2>2, FsKinds, ZenonT(30) DEF CallOK, AllValues
    <3>2. data'[o] = Part(req[o].value, Chunks) /\ Chunks \in 0 .. Chunks
      BY <1>a, <1>b, <2>2, ChunksAssumption DEF WriteOK
    <3> QED
      BY <3>1, <3>2 DEF Holds
  <2> QED
    BY <2>1, <2>2, Zenon DEF Sync
<1>3. Stable
  BY <1>a, <1>b, <1>c, StepStable, Zenon DEF Unsettles, Frozen
<1>4. FsTypes'
  BY <1>a, <1>b, <1>c, Zenon DEF Goto, FsTypes, FilesOK
<1>5. NamesInv'
  BY <1>a, <1>b, <1>3, NamesKept, Zenon DEF Filling, Before
<1>6. CallOK(o)' /\ WriteOK(o)'
  <2>1. CallOK(o)'
    BY <1>a, <1>b DEF Goto, CallOK, Before
  <2>2. Settled(o)'
    BY <1>b, <1>c, <1>1 DEF Goto, Settled, Frozen
  <2> QED
    BY <1>b, <2>1, <2>2 DEF Goto, WriteOK
<1>7. CallsInv'
  BY <1>a, <1>b, <1>c, <1>3, <1>6, OthersKept DEF Goto
<1>8. ReadInv'
  BY <1>a, <1>b, <1>c, <1>3, ReadKept
<1> QED
  BY <1>3, <1>4, <1>5, <1>7, <1>8 DEF FsInv

-----------------------------------------------------------------------------
(* The steps that change the names.                                        *)

(* The names after a step that takes the call o to the label: a path names *)
(* a settled file, a temporary name of o is there only while o fills its   *)
(* file, and the other temporary names are as they were.                   *)
NamesAfter(o, label) ==
    /\ \A p \in Paths : Final(p) \in DOMAIN names' =>
          \E f \in Files : names'[Final(p)] = f /\ Settled(f)
    /\ \A p \in Paths, q \in Ops : <<p, q>> \in DOMAIN names' =>
          IF q = o
          THEN label \in Filling /\ p = Target(o) /\ names'[<<p, q>>] = o
          ELSE <<p, q>> \in DOMAIN names /\ names'[<<p, q>>] = names[<<p, q>>]
    /\ \A q \in Ops \ {o} : Tmp(q) \in DOMAIN names => Tmp(q) \in DOMAIN names'
    /\ label \in Filling => Tmp(o) \in DOMAIN names'

LEMMA NamesStep ==
    ASSUME NamesInv, Stable, DOMAIN pc = Ops, UNCHANGED <<req, left, outage>>,
           NEW o \in Ops, NEW label, Goto(o, label), NamesAfter(o, label)
    PROVE  NamesInv'
<1>1. \A q \in Ops : Target(q)' = Target(q) /\ Tmp(q)' = Tmp(q)
  BY DEF Target, Tmp
<1>2. ASSUME NEW p \in Paths, Final(p) \in DOMAIN names'
      PROVE  Settled(names[Final(p)])'
  <2>1. PICK f \in Files : names'[Final(p)] = f /\ Settled(f)
    BY <1>2 DEF NamesAfter
  <2>2. Settled(f)'
    BY <2>1, Zenon DEF Stable
  <2> QED
    BY <2>1, <2>2, Zenon DEF Final
<1>3. \A p \in Paths, q \in Ops :
         <<p, q>> \in DOMAIN names' =>
            /\ MayStay(q)'
            /\ p = Target(q)'
            /\ names'[<<p, q>>] = q
  BY <1>1 DEF NamesInv, Goto, NamesAfter, MayStay
<1>4. \A q \in Ops : pc'[q] \in Filling => Tmp(q)' \in DOMAIN names'
  BY <1>1 DEF NamesInv, Goto, NamesAfter
<1> QED
  BY <1>2, <1>3, <1>4 DEF NamesInv, Final

LEMMA TmpNames ==
    ASSUME FsInv, NEW o \in Ops, pc[o] # "idle"
    PROVE  Target(o) \in Paths /\ Tmp(o) \in Paths \X Ops
<1>1. req[o] \in Calls
  BY DEF FsInv, CallsInv, CallOK, Before
<1>2. Target(o) \in Paths
  BY <1>1, FsKinds, Zenon DEF Target
<1> QED
  BY <1>2 DEF Tmp

LEMMA CreateStep ==
    ASSUME FsInv, NEW o \in Ops, CreateTemp(o), UNCHANGED <<synced, suspect, left, outage>>
    PROVE  FsInv' /\ Stable
<1>a. FsTypes /\ NamesInv /\ CallsInv /\ ReadInv /\ CallOK(o) /\ WriteOK(o)
  BY DEF FsInv, CallsInv
<1>b. /\ pc[o] = "createTemp" /\ DOMAIN pc = Ops
      /\ fd' = [fd EXCEPT ![o].out = o]
      /\ names' = Link(names, Tmp(o), o)
      /\ UNCHANGED <<data, req, off, reader>>
      /\ off[o] = 0 /\ data[o] = << >>
      /\ req[o] \in Calls
  BY <1>a, Zenon DEF CreateTemp, FsTypes, CallOK, Before
<1>c. fd \in [Ops -> [in : Files \cup {None}, out : Files \cup {None}]] /\ o \in Files
  BY <1>a DEF FsTypes, FilesOK, Files
<1>1. PICK label \in {"copy", "write"} :
         Goto(o, label) /\ (label = "copy" <=> req[o].op = "move")
  BY DEF CreateTemp
<1>2. fd'[o].out = o /\ fd'[o].in = fd[o].in /\ \A q \in Ops \ {o} : fd'[q] = fd[q]
  BY <1>b, <1>c
<1>3. Stable
  BY <1>a, <1>b, <1>1, StepStable DEF Unsettles, Frozen
<1>4. FsTypes'
  <2>1. fd' \in [Ops -> [in : Files \cup {None}, out : Files \cup {None}]]
    BY <1>b, <1>c
  <2>2. DOMAIN names' = DOMAIN names \cup {Tmp(o)} /\ Tmp(o) \in Paths \X Ops
    BY <1>b, TmpNames DEF Link
  <2>3. \A n \in DOMAIN names' : names'[n] \in Files
    BY <1>a, <1>b, <1>c DEF Link, FsTypes, FilesOK
  <2> QED
    BY <1>a, <1>b, <1>1, <2>1, <2>2, <2>3 DEF Goto, FsTypes, FilesOK
<1>5. NamesInv'
  <2>1. \A n : n \in DOMAIN names' <=> n \in DOMAIN names \/ n = Tmp(o)
    BY <1>b DEF Link
  <2>2. names'[Tmp(o)] = o /\ \A n \in DOMAIN names : n # Tmp(o) => names'[n] = names[n]
    BY <1>b DEF Link
  <2>3. \A p \in Paths : Final(p) # Tmp(o)
    BY NamesDiffer, Zenon DEF Tmp
  <2>4. \A p \in Paths : Final(p) \in DOMAIN names' =>
           \E f \in Files : names'[Final(p)] = f /\ Settled(f)
    BY <1>a, <2>1, <2>2, <2>3 DEF NamesInv, FsTypes, FilesOK
  <2>5. \A p \in Paths, q \in Ops : <<p, q>> \in DOMAIN names' =>
              IF q = o
              THEN label \in Filling /\ p = Target(o) /\ names'[<<p, q>>] = o
              ELSE <<p, q>> \in DOMAIN names /\ names'[<<p, q>>] = names[<<p, q>>]
    <3> SUFFICES ASSUME NEW p \in Paths, NEW q \in Ops, <<p, q>> \in DOMAIN names'
                 PROVE  IF q = o
                        THEN label \in Filling /\ p = Target(o) /\ names'[<<p, q>>] = o
                        ELSE /\ <<p, q>> \in DOMAIN names
                             /\ names'[<<p, q>>] = names[<<p, q>>]
      OBVIOUS
    <3>1. CASE <<p, q>> = Tmp(o)
      <4>1. p = Target(o) /\ q = o
        BY <3>1, TmpIs, Zenon
      <4>2. names'[<<p, q>>] = o
        BY <3>1, <2>2
      <4> QED
        BY <1>1, <4>1, <4>2, Zenon DEF Filling
    <3>2. CASE <<p, q>> # Tmp(o)
      <4>1. <<p, q>> \in DOMAIN names /\ names'[<<p, q>>] = names[<<p, q>>]
        BY <2>1, <2>2, <3>2
      <4>2. q # o
        BY <1>a, <1>b, <4>1 DEF NamesInv, Filling, MayStay
      <4> QED
        BY <4>1, <4>2
    <3> QED
      BY <3>1, <3>2, Zenon
  <2> QED
    <3>1. NamesAfter(o, label)
      BY <1>a, <1>b, <1>1, <2>1, <2>4, <2>5 DEF NamesAfter
    <3> QED
      BY <1>a, <1>b, <1>1, <1>3, <3>1, NamesStep
<1>6. CallOK(o)' /\ WriteOK(o)'
  <2>0. pc'[o] = label
    BY <1>b, <1>1 DEF Goto
  <2>1. CallOK(o)'
    BY <1>b, <1>1, <2>0, FsKinds, Zenon DEF CallOK, Before
  <2>2. \A v : Part(v, 0) = << >>
    BY DEF Part
  <2>3. CASE label = "write"
    BY <1>b, <1>2, <2>0, <2>1, <2>2, <2>3 DEF WriteOK
  <2>4. CASE label = "copy"
    <3>1. PICK f : f = fd[o].in /\ Settled(f)
      BY <1>a, <1>b, <1>1, <2>4 DEF WriteOK
    <3>2. Settled(f)' /\ f = fd'[o].in
      BY <1>2, <1>3, <3>1 DEF Stable
    <3>3. PICK v \in AllValues, n \in 0 .. Chunks : Holds(f, v, n)'
      BY <3>2 DEF Settled
    <3>4. data'[o] = Part(v, off'[o])
      BY <1>b, <2>2
    <3> QED
      BY <1>2, <2>0, <2>1, <2>4, <3>2, <3>3, <3>4 DEF WriteOK
  <2> QED
    BY <2>3, <2>4
<1>7. CallsInv'
  BY <1>a, <1>b, <1>1, <1>2, <1>3, <1>6, OthersKept DEF Goto
<1>8. ReadInv'
  BY <1>a, <1>b, <1>3, ReadKept
<1> QED
  BY <1>3, <1>4, <1>5, <1>7, <1>8 DEF FsInv

(* A call that goes on with its temporary file published or removed, or    *)
(* with a path moved or removed, keeps the invariant if it keeps the names. *)
LEMMA EntryStep ==
    ASSUME FsInv, NEW o \in Ops, NEW label \in {"ok", "error", "remove"}, Goto(o, label),
           pc[o] \in {"publish", "cleanup", "rename", "remove"},
           label = "remove" => req[o].op = "move",
           UNCHANGED <<data, req, fd, off, reader, synced, suspect, left, outage>>,
           DOMAIN names' \subseteq {Final(p) : p \in Paths} \cup (Paths \X Ops),
           \A p \in Paths : Final(p) \in DOMAIN names' =>
              \E f \in Files : names'[Final(p)] = f /\ Settled(f),
           \A p \in Paths, q \in Ops : <<p, q>> \in DOMAIN names' =>
              q # o /\ <<p, q>> \in DOMAIN names /\ names'[<<p, q>>] = names[<<p, q>>],
           \A q \in Ops \ {o} : Tmp(q) \in DOMAIN names => Tmp(q) \in DOMAIN names'
    PROVE  FsInv' /\ Stable
<1>a. FsTypes /\ NamesInv /\ CallsInv /\ ReadInv /\ CallOK(o) /\ WriteOK(o)
  BY DEF FsInv, CallsInv
<1>b. DOMAIN pc = Ops
  BY <1>a, Zenon DEF FsTypes
<1>3. Stable
  BY <1>a, StepStable DEF Unsettles, Frozen
<1>4. FsTypes'
  <2>1. \A n \in DOMAIN names' : names'[n] \in Files
    <3> SUFFICES ASSUME NEW n \in DOMAIN names' PROVE names'[n] \in Files
      OBVIOUS
    <3>1. CASE \E p \in Paths : n = Final(p)
      BY <3>1, Zenon
    <3>2. CASE n \in Paths \X Ops
      <4>1. PICK p \in Paths, q \in Ops : n = <<p, q>>
        BY <3>2, PairIs
      <4> QED
        BY <1>a, <4>1, Zenon DEF FsTypes, FilesOK
    <3> QED
      BY <3>1, <3>2
  <2> QED
    BY <1>a, <2>1, Zenon DEF Goto, FsTypes, FilesOK, Done
<1>5. NamesInv'
  <2>1. label \notin Filling
    BY Zenon DEF Filling
  <2>2. NamesAfter(o, label)
    BY <2>1, Zenon DEF NamesAfter
  <2> QED
    BY <1>a, <1>b, <1>3, <2>1, <2>2, NamesStep, Zenon
<1>6. CallOK(o)' /\ WriteOK(o)'
  BY <1>a, <1>b, Zenon DEF Goto, CallOK, Before, WriteOK
<1>7. CallsInv'
  BY <1>a, <1>b, <1>3, <1>6, OthersKept, Zenon DEF Goto
<1>8. ReadInv'
  BY <1>a, <1>3, ReadKept
<1> QED
  BY <1>3, <1>4, <1>5, <1>7, <1>8, Zenon DEF FsInv

LEMMA CleanupStep ==
    ASSUME FsInv, NEW o \in Ops, Cleanup(o), UNCHANGED <<left, outage>>,
           names' = Unlink(names, Tmp(o))
    PROVE  FsInv' /\ Stable
<1>a. FsTypes /\ NamesInv
  BY DEF FsInv
<1>b. /\ pc[o] = "cleanup" /\ Goto(o, "error")
      /\ UNCHANGED <<data, req, fd, off, reader, synced, suspect, left, outage>>
  BY DEF Cleanup
<1>1. DOMAIN names' = DOMAIN names \ {Tmp(o)}
      /\ \A n \in DOMAIN names' : names'[n] = names[n]
  BY DEF Unlink
<1>2. DOMAIN names' \subseteq {Final(p) : p \in Paths} \cup (Paths \X Ops)
  BY <1>a, <1>1, Zenon DEF FsTypes, FilesOK
<1>3. \A p \in Paths : Final(p) \in DOMAIN names' =>
         \E f \in Files : names'[Final(p)] = f /\ Settled(f)
  BY <1>a, <1>1, Zenon DEF NamesInv, FsTypes, FilesOK
<1>4. \A p \in Paths, q \in Ops : <<p, q>> \in DOMAIN names' =>
         q # o /\ <<p, q>> \in DOMAIN names /\ names'[<<p, q>>] = names[<<p, q>>]
  <2> SUFFICES ASSUME NEW p \in Paths, NEW q \in Ops, <<p, q>> \in DOMAIN names'
               PROVE  q # o /\ <<p, q>> \in DOMAIN names
    BY <1>1, Zenon
  <2>1. <<p, q>> \in DOMAIN names /\ <<p, q>> # Tmp(o)
    BY <1>1
  <2> QED
    BY <1>a, <2>1, TmpIs, ZenonT(30) DEF NamesInv
<1>5. \A q \in Ops \ {o} : Tmp(q) \in DOMAIN names => Tmp(q) \in DOMAIN names'
  BY <1>1, TmpIs, Zenon DEF Tmp
<1> QED
  BY <1>b, <1>2, <1>3, <1>4, <1>5, EntryStep, Zenon

LEMMA CleanupFailStep ==
    ASSUME FsInv, NEW o \in Ops, Cleanup(o), UNCHANGED <<names, outage>>, left' = left \cup {o}
    PROVE  FsInv' /\ Stable
<1>a. FsTypes /\ NamesInv /\ CallsInv /\ ReadInv /\ CallOK(o)
  BY DEF FsInv, CallsInv
<1>b. /\ pc[o] = "cleanup" /\ Goto(o, "error") /\ DOMAIN pc = Ops
      /\ UNCHANGED <<data, req, fd, off, reader, synced, suspect, outage>>
  BY <1>a DEF Cleanup, FsTypes, FilesOK
<1>3. Stable
  BY <1>a, <1>b, StepStable, Zenon DEF Unsettles, Frozen
<1>4. FsTypes'
  BY <1>a, <1>b DEF Goto, FsTypes, FilesOK, Done
<1>5. NamesInv'
  BY <1>a, <1>b, <1>3, NamesKept DEF Filling, Before
<1>6. CallOK(o)' /\ WriteOK(o)'
  BY <1>a, <1>b DEF Goto, CallOK, Before, WriteOK
<1>7. CallsInv'
  BY <1>a, <1>b, <1>3, <1>6, OthersKept DEF Goto
<1>8. ReadInv'
  BY <1>a, <1>b, <1>3, ReadKept
<1> QED
  BY <1>3, <1>4, <1>5, <1>7, <1>8 DEF FsInv

LEMMA PublishStep ==
    ASSUME FsInv, NEW o \in Ops, NEW label \in {"ok", "remove"}, NEW to \in Paths,
           pc[o] = "publish", Goto(o, label), label = "remove" => req[o].op = "move",
           names' = Renamed(names, Tmp(o), Final(to)),
           UNCHANGED <<data, req, fd, off, reader, synced, suspect, left, outage>>
    PROVE  FsInv' /\ Stable
<1>a. FsTypes /\ NamesInv /\ WriteOK(o)
  BY DEF FsInv, CallsInv
<1>b. Tmp(o) \in DOMAIN names /\ names[Tmp(o)] = o /\ Settled(o) /\ o \in Files
  <2>1. Target(o) \in Paths
    BY TmpNames, Zenon
  <2> QED
    BY <1>a, <2>1, Zenon DEF NamesInv, WriteOK, Files, Filling, MayStay, Tmp
<1>c. \A p : Final(p) # Tmp(o)
  BY NamesDiffer, Zenon DEF Tmp
<1>1. /\ \A x : x \in DOMAIN names' <=> x # Tmp(o) /\ (x \in DOMAIN names \/ x = Final(to))
      /\ names'[Final(to)] = o
      /\ \A x \in DOMAIN names : x # Tmp(o) /\ x # Final(to) => names'[x] = names[x]
  <2>1. PICK from, dst : from = Tmp(o) /\ dst = Final(to) /\ from \in DOMAIN names /\ from # dst
    BY <1>b, <1>c, Zenon
  <2>2. names' = Renamed(names, from, dst) /\ names[from] = o
    BY <1>b, <2>1, Zenon
  <2>3. /\ \A x : x \in DOMAIN Renamed(names, from, dst) <=>
                    x # from /\ (x \in DOMAIN names \/ x = dst)
        /\ Renamed(names, from, dst)[dst] = names[from]
        /\ \A x \in DOMAIN names :
              x # from /\ x # dst => Renamed(names, from, dst)[x] = names[x]
    BY <2>1, RenamedIs
  <2> QED
    BY <2>1, <2>2, <2>3, Zenon
<1>2. DOMAIN names' \subseteq {Final(p) : p \in Paths} \cup (Paths \X Ops)
  BY <1>a, <1>1 DEF FsTypes, FilesOK
<1>3. ASSUME NEW p \in Paths, Final(p) \in DOMAIN names'
      PROVE  \E f \in Files : names'[Final(p)] = f /\ Settled(f)
  <2>1. CASE Final(p) = Final(to)
    BY <1>b, <1>1, <2>1, Zenon
  <2>2. CASE Final(p) # Final(to)
    <3>1. Final(p) \in DOMAIN names /\ names'[Final(p)] = names[Final(p)]
      BY <1>c, <1>1, <1>3, <2>2, Zenon
    <3> QED
      BY <1>a, <3>1, Zenon DEF NamesInv, FsTypes, FilesOK
  <2> QED
    BY <2>1, <2>2, Zenon
<1>4. ASSUME NEW p \in Paths, NEW q \in Ops, <<p, q>> \in DOMAIN names'
      PROVE  q # o /\ <<p, q>> \in DOMAIN names /\ names'[<<p, q>>] = names[<<p, q>>]
  <2>1. <<p, q>> # Final(to) /\ <<p, q>> # Tmp(o)
    <3>1. Final(to) # <<p, q>>
      BY NamesDiffer
    <3> QED
      BY <1>1, <1>4, <3>1, Zenon
  <2>2. <<p, q>> \in DOMAIN names /\ names'[<<p, q>>] = names[<<p, q>>]
    BY <1>1, <1>4, <2>1, Zenon
  <2>3. p = Target(q)
    BY <1>a, <2>2, Zenon DEF NamesInv
  <2> QED
    BY <2>1, <2>2, <2>3, Zenon DEF Tmp
<1>5. \A q \in Ops \ {o} : Tmp(q) \in DOMAIN names => Tmp(q) \in DOMAIN names'
  BY <1>1, TmpIs, Zenon DEF Tmp
<1> QED
  BY <1>2, <1>3, <1>4, <1>5, EntryStep, Zenon

LEMMA RenameStep ==
    ASSUME FsInv, NEW o \in Ops, Rename(o), UNCHANGED <<synced, suspect, left, outage>>
    PROVE  FsInv' /\ Stable
<1>a. FsTypes /\ NamesInv /\ CallsInv /\ ReadInv /\ CallOK(o) /\ WriteOK(o)
  BY DEF FsInv, CallsInv
<1>b. /\ pc[o] = "rename" /\ DOMAIN pc = Ops
      /\ UNCHANGED <<data, req, fd, off, reader, synced, suspect, left, outage>>
      /\ req[o].op = "move" /\ req[o] \in Calls
  BY <1>a DEF Rename, FsTypes, CallOK, Before
<1>c. PICK src \in Paths, dst \in Paths : src = req[o].src /\ dst = req[o].dst
  BY <1>b, FsKinds, Zenon
<1>1. CASE Goto(o, "open") /\ UNCHANGED names
  <2>3. Stable
    BY <1>a, <1>b, <1>1, StepStable, Zenon DEF Unsettles, Frozen
  <2>4. FsTypes'
    BY <1>a, <1>b, <1>1, Zenon DEF Goto, FsTypes, FilesOK
  <2>5. NamesInv'
    BY <1>a, <1>b, <1>1, <2>3, NamesKept, Zenon DEF Filling, Before
  <2>6. CallOK(o)' /\ WriteOK(o)'
    BY <1>a, <1>b, <1>1, Zenon DEF Goto, CallOK, Before, WriteOK
  <2>7. CallsInv'
    BY <1>a, <1>b, <1>1, <2>3, <2>6, OthersKept, Zenon DEF Goto
  <2>8. ReadInv'
    BY <1>a, <1>b, <2>3, ReadKept, Zenon
  <2> QED
    BY <2>3, <2>4, <2>5, <2>7, <2>8, Zenon DEF FsInv
<1>2. CASE /\ Final(src) \in DOMAIN names
           /\ names' = Renamed(names, Final(src), Final(dst))
           /\ Goto(o, "ok")
  <2>1. \A x : x \in DOMAIN names' => x \in DOMAIN names \/ x = Final(dst)
    BY <1>2, RenamedIs DEF Renamed
  <2>2. /\ names'[Final(dst)] = names[Final(src)]
        /\ \A x \in DOMAIN names' : x # Final(dst) => names'[x] = names[x]
        /\ \A x \in DOMAIN names : x # Final(src) => x \in DOMAIN names'
    <3>1. CASE Final(src) = Final(dst)
      BY <1>2, <3>1, Zenon DEF Renamed
    <3>2. CASE Final(src) # Final(dst)
      BY <1>2, <3>2, RenamedIs
    <3> QED
      BY <3>1, <3>2
  <2>3. DOMAIN names' \subseteq {Final(p) : p \in Paths} \cup (Paths \X Ops)
    BY <1>a, <2>1 DEF FsTypes, FilesOK
  <2>4. ASSUME NEW p \in Paths, Final(p) \in DOMAIN names'
        PROVE  \E f \in Files : names'[Final(p)] = f /\ Settled(f)
    <3>1. CASE Final(p) = Final(dst)
      BY <1>a, <1>2, <2>2, <3>1, ZenonT(30) DEF NamesInv, FsTypes, FilesOK
    <3>2. CASE Final(p) # Final(dst)
      BY <1>a, <2>1, <2>2, <2>4, <3>2, Zenon DEF NamesInv, FsTypes, FilesOK
    <3> QED
      BY <3>1, <3>2
  <2>5. ASSUME NEW p \in Paths, NEW q \in Ops, <<p, q>> \in DOMAIN names'
        PROVE  q # o /\ <<p, q>> \in DOMAIN names /\ names'[<<p, q>>] = names[<<p, q>>]
    <3>1. <<p, q>> # Final(dst)
      BY NamesDiffer
    <3>2. <<p, q>> \in DOMAIN names /\ names'[<<p, q>>] = names[<<p, q>>]
      BY <2>1, <2>2, <2>5, <3>1
    <3> QED
      BY <1>a, <1>b, <3>2 DEF NamesInv, Filling, MayStay
  <2>6. \A q \in Ops \ {o} : Tmp(q) \in DOMAIN names => Tmp(q) \in DOMAIN names'
    BY <2>2, NamesDiffer, Zenon DEF Tmp
  <2> QED
    BY <1>b, <1>2, <2>3, <2>4, <2>5, <2>6, EntryStep, Zenon
<1> QED
  BY <1>c, <1>1, <1>2, Zenon DEF Rename, CanRename

LEMMA RemoveStep ==
    ASSUME FsInv, NEW o \in Ops, RemoveSrc(o), UNCHANGED <<synced, suspect, left, outage>>
    PROVE  FsInv' /\ Stable
<1>a. FsTypes /\ NamesInv /\ CallOK(o)
  BY DEF FsInv, CallsInv
<1>b. /\ pc[o] = "remove"
      /\ UNCHANGED <<data, req, fd, off, reader, synced, suspect, left, outage>>
  BY Zenon DEF RemoveSrc
<1>1. PICK label \in {"ok", "error"}, src \in Paths :
         /\ Goto(o, label)
         /\ names' = names \/ names' = Unlink(names, Final(src))
  BY <1>a, FsKinds, Zenon DEF RemoveSrc, CallOK, Before
<1>2. /\ DOMAIN names' \subseteq DOMAIN names
      /\ \A n \in DOMAIN names' : names'[n] = names[n]
      /\ \A n \in DOMAIN names : n # Final(src) => n \in DOMAIN names'
  BY <1>1, Zenon DEF Unlink
<1>3. DOMAIN names' \subseteq {Final(p) : p \in Paths} \cup (Paths \X Ops)
  BY <1>a, <1>2, Zenon DEF FsTypes, FilesOK
<1>4. \A p \in Paths : Final(p) \in DOMAIN names' =>
         \E f \in Files : names'[Final(p)] = f /\ Settled(f)
  BY <1>a, <1>2, Zenon DEF NamesInv, FsTypes, FilesOK
<1>5. \A p \in Paths, q \in Ops : <<p, q>> \in DOMAIN names' =>
         q # o /\ <<p, q>> \in DOMAIN names /\ names'[<<p, q>>] = names[<<p, q>>]
  BY <1>a, <1>b, <1>2 DEF NamesInv, Filling, MayStay
<1>6. \A q \in Ops \ {o} : Tmp(q) \in DOMAIN names => Tmp(q) \in DOMAIN names'
  BY <1>2, NamesDiffer DEF Tmp
<1> QED
  BY <1>b, <1>1, <1>3, <1>4, <1>5, <1>6, EntryStep

-----------------------------------------------------------------------------
(* Downloads and the power.                                                *)

LEMMA DownloadStep ==
    ASSUME FsInv, NEW r \in Readers, Download(r), UNCHANGED <<synced, suspect, left, outage>>
    PROVE  FsInv' /\ Stable
<1>a. FsTypes /\ NamesInv /\ CallsInv /\ ReadInv
  BY DEF FsInv
<1>b. UNCHANGED <<names, data, callVars, synced, suspect, left, outage>>
  BY Zenon DEF Download, StartRead, ReadChunk
<1>c. reader \in [Readers -> ReaderType]
  BY <1>a, Zenon DEF FsTypes, FilesOK, ReaderType
<1>1. \A f : /\ Settled(f)' <=> Settled(f)
             /\ Torn(f)' <=> Torn(f)
             /\ \A v, n : Holds(f, v, n)' <=> Holds(f, v, n)
  BY <1>b DEF Settled, Torn, Holds, Closed, callVars
<1>2. NamesInv'
  <2>1. \A q \in Ops : /\ Target(q)' = Target(q) /\ Tmp(q)' = Tmp(q) /\ pc'[q] = pc[q]
                       /\ MayStay(q) => MayStay(q)'
    BY <1>b DEF callVars, Target, Tmp, MayStay
  <2>2. names' = names
    BY <1>b
  <2> QED
    BY <1>a, <1>1, <2>1, <2>2, Zenon DEF NamesInv
<1>3. CallsInv'
  <2> SUFFICES ASSUME NEW o \in Ops PROVE CallOK(o)' /\ WriteOK(o)'
    BY DEF CallsInv
  <2>1. CallOK(o)'
    BY <1>a, <1>b DEF CallsInv, CallOK, callVars
  <2>2. WriteOK(o) /\ UNCHANGED <<data, pc, req, fd, off>>
    BY <1>a, <1>b DEF CallsInv, callVars
  <2>3. WriteOK(o)'
    BY <1>1, <2>2, Zenon DEF WriteOK
  <2> QED
    BY <2>1, <2>3
<1>4. ASSUME reader' \in [Readers -> ReaderType],
             \A s \in Readers \ {r} : reader'[s] = reader[s],
             ReadOK(r)'
      PROVE  FsInv'
  <2>1. FsTypes'
    BY <1>a, <1>b, <1>4, ZenonT(30) DEF FsTypes, FilesOK, ReaderType, callVars
  <2>2. ASSUME NEW s \in Readers \ {r} PROVE ReadOK(s)'
    <3>1. ReadOK(s) /\ reader'[s] = reader[s]
      BY <1>a, <1>4 DEF ReadInv
    <3> QED
      BY <1>1, <3>1, Zenon DEF ReadOK
  <2>3. ReadInv'
    BY <1>4, <2>2 DEF ReadInv
  <2> QED
    BY <1>2, <1>3, <2>1, <2>3 DEF FsInv
<1>7. Stable
  BY <1>1, <1>b, Zenon DEF Stable
<1>d. \A f : Settled(f) => f \in Files
  BY <1>a DEF Settled, FsTypes, Closed, Files
<1>5. CASE StartRead(r)
  <2>1. PICK p \in Paths :
           /\ Final(p) \in DOMAIN names
           /\ reader' = [reader EXCEPT ![r].state = "reading",
                                       ![r].file = names[Final(p)]]
    BY <1>5, Zenon DEF StartRead
  <2>2. PICK f \in Files : f = names[Final(p)] /\ Settled(f)
    BY <1>a, <1>d, <2>1 DEF NamesInv
  <2>3. reader[r].got = << >>
    BY <1>a, <1>5 DEF StartRead, ReadInv, ReadOK
  <2>4. /\ reader' \in [Readers -> ReaderType]
        /\ \A s \in Readers \ {r} : reader'[s] = reader[s]
        /\ reader'[r].state = "reading" /\ reader'[r].file = f
        /\ reader'[r].got = << >>
    BY <1>c, <2>1, <2>2, <2>3, Zenon DEF ReaderType
  <2>5. PICK v \in AllValues, n \in 0 .. Chunks : Holds(f, v, n)
    BY <2>2 DEF Settled
  <2>6. Part(v, 0) = << >> /\ 0 \in 0 .. Chunks
    BY PartNone, Zenon
  <2>7. ReadOK(r)'
    BY <1>1, <2>2, <2>4, <2>5, <2>6, Zenon DEF ReadOK
  <2> QED
    BY <1>4, <1>7, <2>4, <2>7
<1>6. CASE ReadChunk(r)
  <2>1. PICK f \in Files, v \in AllValues, n \in 0 .. Chunks, m \in 0 .. Chunks :
           f = reader[r].file /\ Settled(f) /\ Holds(f, v, n) /\ reader[r].got = Part(v, m)
    BY <1>a, <1>d, <1>6 DEF ReadChunk, ReadInv, ReadOK
  <2>2. ReadPart(r, f, v, n)
    BY <1>c, <1>6, <2>1, ReadPartGrows DEF Holds
  <2>3. /\ reader' \in [Readers -> ReaderType]
        /\ \A s \in Readers \ {r} : reader'[s] = reader[s]
        /\ reader'[r].file = f
        /\ \/ /\ reader'[r].state = "reading"
              /\ \E k \in 0 .. Chunks : reader'[r].got = Part(v, k)
           \/ /\ reader'[r].state = "eof"
              /\ \E k \in n .. Chunks : reader'[r].got = Part(v, k)
    BY <2>2 DEF ReadPart
  <2>4. reader'[r].state = "eof" => Torn(f) \/ reader'[r].got = Content(v)
    <3>1. n = Chunks => \A k \in n .. Chunks : k = Chunks
      BY ChunksAssumption
    <3> QED
      BY <2>1, <2>3, <3>1, PartWhole DEF Holds
  <2>5. ReadOK(r)'
    BY <1>1, <2>1, <2>3, <2>4, Zenon DEF ReadOK
  <2> QED
    BY <1>4, <1>7, <2>3, <2>5
<1> QED
  BY <1>5, <1>6, <1>7 DEF Download

(* What a power failure leaves of the names.                               *)
LEMMA PowerNames ==
    ASSUME PastInv, PowerFails
    PROVE  /\ DOMAIN names' \subseteq Names
           /\ \A p \in Paths : Final(p) \in DOMAIN names' =>
                 names'[Final(p)] \in past[Final(p)] /\ names'[Final(p)] # None
           /\ \A p \in Paths, o \in Ops : <<p, o>> \in DOMAIN names' =>
                 names'[<<p, o>>] = o /\ p = Target(o) /\ pc[o] \notin Before
<1>1. PICK disk \in [Paths -> Files \cup {None}],
           temps \in SUBSET {n \in Paths \X Ops : past[n] # {None}} :
         /\ \A p \in Paths : disk[p] \in past[Final(p)]
         /\ names' = [n \in temps \cup {Final(p) : p \in {q \in Paths : disk[q] # None}}
                        |-> IF n \in temps THEN n[2] ELSE disk[n[1]]]
  BY Zenon DEF PowerFails
<1>2. \A n : n \in DOMAIN names' <=>
               n \in temps \/ \E q \in Paths : disk[q] # None /\ n = Final(q)
  BY <1>1
<1>3. DOMAIN names' \subseteq Names
  BY <1>2 DEF Names
<1>4. ASSUME NEW p \in Paths, Final(p) \in DOMAIN names'
      PROVE  names'[Final(p)] \in past[Final(p)] /\ names'[Final(p)] # None
  <2>1. Final(p) \notin temps
    BY NamesDiffer, PairIs
  <2>2. PICK q \in Paths : disk[q] # None /\ Final(p) = Final(q)
    BY <1>2, <1>4, <2>1
  <2>3. p = q /\ Final(p)[1] = p
    BY <2>2, NamesDiffer DEF Final
  <2>4. names'[Final(p)] = disk[p]
    BY <1>1, <1>4, <2>1, <2>3
  <2> QED
    BY <1>1, <2>2, <2>3, <2>4
<1>5. ASSUME NEW p \in Paths, NEW o \in Ops, <<p, o>> \in DOMAIN names'
      PROVE  names'[<<p, o>>] = o /\ p = Target(o) /\ pc[o] \notin Before
  <2>1. <<p, o>> \in temps
    BY <1>2, <1>5, NamesDiffer
  <2>2. names'[<<p, o>>] = o
    BY <1>1, <1>5, <2>1
  <2>3. <<p, o>> \in Names /\ past[<<p, o>>] # {None}
    BY <2>1 DEF Names
  <2>4. \E f \in past[<<p, o>>] : f # None
    BY <2>3 DEF PastInv
  <2> QED
    BY <2>2, <2>4 DEF PastInv
<1> QED
  BY <1>3, <1>4, <1>5

LEMMA PowerStep ==
    ASSUME FsInv, PastInv, PowerFails
    PROVE  FsInv' /\ PastInv'
<1>a. FsTypes /\ NamesInv /\ CallsInv /\ ReadInv
  BY DEF FsInv
<1>b. UNCHANGED <<req, fd, off, synced, suspect, left>> /\ outage' = TRUE
  BY Zenon DEF PowerFails
<1>c. data \in [Files -> Seq(Chunk)] /\ reader \in [Readers -> ReaderType]
      /\ DOMAIN pc = Ops /\ synced \subseteq Files /\ Ops \subseteq Files
  BY <1>a DEF FsTypes, FilesOK, ReaderType, Files
<1>1. PICK kept \in [Files \ synced -> 0 .. Chunks] :
          /\ \A f \in Files \ synced : kept[f] <= Len(data[f])
          /\ data' = [f \in Files |->
                        IF f \in synced THEN data[f] ELSE SubSeq(data[f], 1, kept[f])]
  BY Zenon DEF PowerFails
<1>2. \A o \in Ops : pc'[o] = IF pc[o] \in Done THEN pc[o] ELSE "crashed"
  BY DEF PowerFails
<1>3. ASSUME NEW f, Settled(f) PROVE f \in Files /\ Settled(f)'
  <2>1. f \in Files /\ f \in Closed'
    BY <1>a, <1>b, <1>3 DEF Settled, FsTypes, Closed, Files
  <2>2. f \in Ops => pc'[f] \in Frozen
    BY <1>2, <1>3 DEF Settled, Frozen
  <2>3. PICK v \in AllValues, n \in 0 .. Chunks : Holds(f, v, n)
    BY <1>3 DEF Settled
  <2>4. Torn(f) => Torn(f)'
    BY <1>b DEF Torn
  <2>5. CASE f \in synced
    <3>1. data'[f] = data[f]
      BY <1>1, <2>1, <2>5
    <3>2. Holds(f, v, n)'
      BY <2>3, <2>4, <3>1 DEF Holds
    <3> QED
      BY <2>1, <2>2, <3>2 DEF Settled
  <2>6. CASE f \notin synced
    <3>1. Torn(f)'
      BY <1>3, <1>b, <2>6 DEF Settled, Closed, Torn
    <3>2. data'[f] = SubSeq(Part(v, n), 1, kept[f]) /\ kept[f] \in 0 .. Chunks
          /\ kept[f] <= Len(Part(v, n))
      BY <1>1, <2>1, <2>3, <2>6 DEF Holds
    <3>3. PICK k \in Nat : k = kept[f] /\ k <= n /\ n \in Nat
      <4>1. n \in Nat /\ kept[f] \in Nat
        BY <3>2, ChunksAssumption
      <4>2. Len(Part(v, n)) = n
        BY <4>1, PartSeq, Zenon
      <4> QED
        BY <3>2, <4>1, <4>2
    <3>4. SubSeq(Part(v, n), 1, k) = Part(v, k)
      BY <3>3, PartCut, Zenon
    <3>5. Holds(f, v, kept[f])'
      BY <3>1, <3>2, <3>3, <3>4, Zenon DEF Holds
    <3> QED
      BY <2>1, <2>2, <3>2, <3>5 DEF Settled
  <2> QED
    BY <2>1, <2>5, <2>6
<1>4. data' \in [Files -> Seq(Chunk)]
  <2> SUFFICES ASSUME NEW f \in Files \ synced PROVE SubSeq(data[f], 1, kept[f]) \in Seq(Chunk)
    BY <1>c, <1>1
  <2>1. PICK t \in Seq(Chunk), n \in Nat : t = data[f] /\ n = kept[f] /\ n <= Len(t)
    BY <1>c, <1>1, ChunksAssumption
  <2>2. \A i \in 1 .. n : t[i] \in Chunk
    BY <2>1
  <2>3. SubSeq(t, 1, n) \in Seq(Chunk)
    BY <2>1, <2>2
  <2> QED
    BY <2>1, <2>3
<1>5. \A r \in Readers : reader'[r] = IF reader[r].state = "reading"
                                     THEN [reader[r] EXCEPT !.state = "cut"]
                                     ELSE reader[r]
  BY DEF PowerFails
<1>6. reader' \in [Readers -> ReaderType]
  <2>1. \A x \in ReaderType : [x EXCEPT !.state = "cut"] \in ReaderType
    BY DEF ReaderType
  <2>2. reader' = [r \in Readers |-> IF reader[r].state = "reading"
                                    THEN [reader[r] EXCEPT !.state = "cut"]
                                    ELSE reader[r]]
    BY DEF PowerFails
  <2> QED
    BY <1>c, <2>1, <2>2, Zenon
<1>d. \A p \in Paths : Final(p) \in DOMAIN names' =>
         \E f \in Files : names'[Final(p)] = f /\ Settled(f)'
  BY <1>3, PowerNames DEF PastInv
<1>e. \A p \in Paths, o \in Ops : <<p, o>> \in DOMAIN names' =>
         names'[<<p, o>>] = o /\ p = Target(o)' /\ pc'[o] \notin Before /\ MayStay(o)'
  <2> SUFFICES ASSUME NEW p \in Paths, NEW o \in Ops, <<p, o>> \in DOMAIN names'
               PROVE  /\ names'[<<p, o>>] = o /\ p = Target(o)'
                      /\ pc'[o] \notin Before /\ MayStay(o)'
    OBVIOUS
  <2>1. names'[<<p, o>>] = o /\ p = Target(o) /\ pc[o] \notin Before
    BY PowerNames
  <2>2. Target(o)' = Target(o)
    BY <1>b DEF Target
  <2>3. pc'[o] \in {"ok", "error", "crashed"}
    BY <1>2, <2>1 DEF Done, Before
  <2> QED
    BY <1>b, <2>1, <2>2, <2>3 DEF Before, MayStay
<1>7. FsTypes'
  <2>1. pc' \in [Ops -> Done]
    BY DEF PowerFails, Done
  <2>2. DOMAIN names' \subseteq Names
    BY PowerNames
  <2>3. \A n \in DOMAIN names' : names'[n] \in Files
    <3> SUFFICES ASSUME NEW n \in DOMAIN names' PROVE names'[n] \in Files
      OBVIOUS
    <3>1. CASE \E p \in Paths : n = Final(p)
      BY <1>d, <3>1, Zenon
    <3>2. CASE n \in Paths \X Ops
      <4>1. PICK p \in Paths, q \in Ops : n = <<p, q>>
        BY <3>2, PairIs
      <4> QED
        BY <1>c, <1>e, <4>1, Zenon
    <3> QED
      BY <2>2, <3>1, <3>2 DEF Names
  <2> QED
    BY <1>a, <1>b, <1>4, <1>6, <2>1, <2>2, <2>3, Zenon DEF FsTypes, FilesOK, ReaderType, Names
<1>8. NamesInv'
  <2>1. \A q \in Ops : pc'[q] \notin Filling
    BY <1>2 DEF Filling, Done
  <2>2. \A p \in Paths : Final(p)' = Final(p)
    BY DEF Final
  <2>3. \A p \in Paths : Final(p) \in DOMAIN names' => Settled(names[Final(p)])'
    BY <1>d, <2>2, Zenon
  <2> QED
    BY <1>e, <2>1, <2>3, Zenon DEF NamesInv, Final
<1>9. CallsInv'
  <2> SUFFICES ASSUME NEW o \in Ops PROVE CallOK(o)' /\ WriteOK(o)'
    BY DEF CallsInv
  <2>a. CallOK(o)
    BY <1>a DEF CallsInv
  <2>1. pc'[o] \in Done /\ (pc'[o] = "idle" => pc[o] = "idle")
        /\ (pc[o] = "idle" => pc'[o] = "idle")
    BY <1>2 DEF Done
  <2>2. pc'[o] = "idle" => data'[o] = << >>
    <3> SUFFICES ASSUME pc'[o] = "idle" PROVE data'[o] = << >>
      OBVIOUS
    <3>1. pc[o] = "idle" /\ data[o] = << >>
      BY <2>a, <2>1 DEF CallOK, Before
    <3>2. CASE o \in synced
      BY <1>c, <1>1, <3>1, <3>2
    <3>3. CASE o \notin synced
      <4>1. kept[o] \in Nat /\ kept[o] < 1
        BY <1>c, <1>1, <3>1, <3>3, ChunksAssumption
      <4>2. SubSeq(data[o], 1, kept[o]) = << >>
        BY <4>1
      <4> QED
        BY <1>c, <1>1, <3>3, <4>2
    <3> QED
      BY <3>2, <3>3
  <2>3. CallOK(o)'
    BY <1>b, <2>a, <2>1, <2>2 DEF CallOK, Done, Before
  <2> QED
    BY <2>1, <2>3 DEF WriteOK, Done
<1>10. ReadInv'
  <2> SUFFICES ASSUME NEW r \in Readers PROVE ReadOK(r)'
    BY DEF ReadInv
  <2>1. ReadOK(r)
    BY <1>a DEF ReadInv
  <2>2. CASE reader[r].state = "reading"
    <3>1. reader'[r].state = "cut"
      BY <1>c, <1>5, <2>2, Zenon DEF ReaderType
    <3> QED
      BY <3>1 DEF ReadOK
  <2>3. CASE reader[r].state # "reading"
    <3>1. reader'[r] = reader[r] /\ (Torn(reader[r].file) => Torn(reader[r].file)')
      BY <1>b, <1>5, <2>3, Zenon DEF Torn
    <3> QED
      BY <2>1, <2>3, <3>1, Zenon DEF ReadOK
  <2> QED
    BY <2>2, <2>3
<1>11. FsInv'
  BY <1>7, <1>8, <1>9, <1>10 DEF FsInv
<1>12. past' = [n \in Names |-> {Entry(names', n)}]
  BY DEF PowerFails
<1>13. past' \in [Names -> SUBSET (Files \cup {None})]
  BY <1>7, <1>12 DEF FsTypes, FilesOK, Entry
<1>14. \A p \in Paths : Final(p) \in Names /\ \A o \in Ops : <<p, o>> \in Names
  BY DEF Names
<1>15. \A p \in Paths : \A f \in past'[Final(p)] : f # None => Settled(f)'
  BY <1>d, <1>12, <1>14 DEF Entry
<1>16. \A p \in Paths, o \in Ops : \A f \in past'[<<p, o>>] :
          f # None => f = o /\ p = Target(o)' /\ pc'[o] \notin Before
  BY <1>e, <1>12, <1>14 DEF Entry
<1>17. PastInv'
  BY <1>b, <1>12, <1>13, <1>15, <1>16, Zenon DEF PastInv, Entry, Final, Names
<1> QED
  BY <1>11, <1>17

-----------------------------------------------------------------------------
(* A step of the engine.                                                   *)
LEMMA FsStep ==
    ASSUME FsInv, Step, UNCHANGED outage
    PROVE  FsInv' /\ Stable
<1>1. ASSUME NEW o \in Ops, AtomicWriteFile(o), UNCHANGED <<synced, suspect, left>>
      PROVE  FsInv' /\ Stable
  <2>1. CASE RenameTemp(o, "publish")
    <3>1. req[o].path \in Paths
      BY <1>1, <2>1, FsKinds, ZenonT(30) DEF AtomicWriteFile, RenameTemp, FsInv, CallsInv, CallOK
    <3> QED
      BY <1>1, <2>1, <3>1, PublishStep, Zenon DEF RenameTemp
  <2> QED
    BY <1>1, <2>1, CreateStep, WriteStep, Zenon DEF AtomicWriteFile
<1>2. ASSUME NEW o \in Ops, MoveUploadedFile(o), UNCHANGED <<synced, suspect, left>>
      PROVE  FsInv' /\ Stable
  <2>1. CASE CopyFileContents(o) /\ RenameCopy(o)
    <3>1. req[o].dst \in Paths /\ req[o].op = "move"
      BY <1>2, <2>1, FsKinds, Zenon DEF CopyFileContents, RenameCopy, FsInv, CallsInv, CallOK
    <3> QED
      BY <1>2, <2>1, <3>1, PublishStep DEF RenameCopy
  <2> QED
    BY <1>2, <2>1, RenameStep, OpenStep, CreateStep, CopyStep, RemoveStep, ZenonT(30)
    DEF MoveUploadedFile, CopyFileContents
<1>3. ASSUME NEW o \in Ops, Cleanup(o) PROVE FsInv' /\ Stable
  BY <1>3, CleanupStep, CleanupFailStep, ZenonT(30) DEF Cleanup
<1>4. ASSUME NEW o \in Ops, Call(o), UNCHANGED <<synced, suspect, left>> PROVE FsInv' /\ Stable
  BY <1>1, <1>2, <1>4, BeginStep, StopStep, ZenonT(30) DEF Call
<1> QED
  BY <1>3, <1>4, SyncStep, DownloadStep, ZenonT(30) DEF Step

(* What it adds to the past of the names.                                  *)
LEMMA PastStep ==
    ASSUME FsInv, FsInv', PastInv, Stable, Step, UNCHANGED outage,
           past' = [n \in Names |-> past[n] \cup {Entry(names', n)}]
    PROVE  PastInv'
<1>a. NamesInv' /\ FsTypes'
  BY DEF FsInv
<1>1. past' \in [Names -> SUBSET (Files \cup {None})]
  BY <1>a, Zenon DEF PastInv, FsTypes, FilesOK, Entry
<1>2. \A p \in Paths : Final(p) \in Names /\ \A o \in Ops : <<p, o>> \in Names
  BY DEF Names
<1>3. \A p \in Paths : Final(p) \in DOMAIN names' => Settled(names[Final(p)])'
  BY <1>a DEF NamesInv, Final
<1>4. \A p \in Paths : \A f \in past'[Final(p)] : f # None => Settled(f)'
  <2> SUFFICES ASSUME NEW p \in Paths, NEW f \in past'[Final(p)], f # None PROVE Settled(f)'
    OBVIOUS
  <2>1. CASE f \in past[Final(p)]
    BY <2>1 DEF PastInv, Stable
  <2>2. CASE Final(p) \in DOMAIN names' /\ f = names'[Final(p)]
    <3>1. Final(p)' = Final(p)
      BY DEF Final
    <3> QED
      BY <1>3, <2>2, <3>1
  <2> QED
    BY <1>2, <2>1, <2>2 DEF Entry
<1>5. \A p \in Paths, o \in Ops : \A f \in past'[<<p, o>>] :
         f # None => f = o /\ p = Target(o)' /\ pc'[o] \notin Before
  <2> SUFFICES ASSUME NEW p \in Paths, NEW o \in Ops, NEW f \in past'[<<p, o>>], f # None
               PROVE  f = o /\ p = Target(o)' /\ pc'[o] \notin Before
    OBVIOUS
  <2>1. CASE f \in past[<<p, o>>]
    <3>1. f = o /\ p = Target(o) /\ pc[o] \notin Before
      BY <2>1 DEF PastInv
    <3>2. req'[o] = req[o] /\ pc'[o] \notin Before
      BY <3>1, Onward DEF Before
    <3> QED
      BY <3>1, <3>2 DEF Target
  <2>2. CASE <<p, o>> \in DOMAIN names' /\ f = names'[<<p, o>>]
    <3>1. MayStay(o)' /\ p = Target(o)' /\ f = o
      BY <1>a, <2>2, Zenon DEF NamesInv
    <3> QED
      BY <3>1 DEF MayStay, Filling, Before
  <2> QED
    BY <1>2, <2>1, <2>2 DEF Entry
<1>6. \A n \in Names : Entry(names', n) \in past'[n]
  OBVIOUS
<1> QED
  BY <1>1, <1>4, <1>5, <1>6, Zenon DEF PastInv, Entry, Final, Names

DiskInv == FsInv /\ PastInv

LEMMA DiskStep ==
    ASSUME DiskInv, [Next]_fsVars
    PROVE  DiskInv'
<1>1. CASE UNCHANGED fsVars
  <2>1. UNCHANGED <<names, data, pc, req, fd, off, reader, synced, past, outage, suspect, left>>
    BY <1>1 DEF fsVars, vars, callVars, diskVars
  <2>2. \A f : Settled(f)' <=> Settled(f)
    BY <2>1 DEF Settled, Holds, Torn, Closed
  <2>3. FsTypes'
    BY <2>1, Zenon DEF DiskInv, FsInv, FsTypes, FilesOK
  <2>4. NamesInv'
    BY <2>1, <2>2 DEF DiskInv, FsInv, NamesInv, Target, Tmp, MayStay
  <2>5. CallsInv'
    <3>1. \A o \in Ops : CallOK(o) => CallOK(o)'
      BY <2>1 DEF CallOK
    <3>2. \A o \in Ops : WriteOK(o) => WriteOK(o)'
      BY <2>1, <2>2 DEF WriteOK, Holds, Torn
    <3> QED
      BY <3>1, <3>2 DEF DiskInv, FsInv, CallsInv
  <2>6. ReadInv'
    BY <2>1, <2>2 DEF DiskInv, FsInv, ReadInv, ReadOK, Holds, Torn
  <2>7. PastInv'
    BY <2>1, <2>2 DEF DiskInv, PastInv, Entry, Target
  <2> QED
    BY <2>3, <2>4, <2>5, <2>6, <2>7 DEF DiskInv, FsInv
<1>2. CASE PowerFails
  BY <1>2, PowerStep DEF DiskInv
<1>3. CASE /\ Step /\ UNCHANGED outage
           /\ past' = [n \in Names |-> past[n] \cup {Entry(names', n)}]
  <2>1. FsInv' /\ Stable
    BY <1>3, FsStep DEF DiskInv
  <2> QED
    BY <1>3, <2>1, PastStep DEF DiskInv
<1> QED
  BY <1>1, <1>2, <1>3, Zenon DEF Next

(* The invariant: what every file that a path names, or may name after a   *)
(* power failure, that a call copies from or that a download reads holds,  *)
(* and who may still write to it.                                          *)
THEOREM FsInvariant == Spec => []DiskInv
<1>1. FsInit => DiskInv
  BY FsInit0, PastInit DEF DiskInv
<1> QED
  BY <1>1, DiskStep, PTL DEF Spec

(* Types, and with them that no call writes past the end of a content.     *)
THEOREM TypeCorrect == Spec => []TypeOK
<1>1. DiskInv => TypeOK
  BY DEF DiskInv, FsInv, FsTypes, PastInv, TypeOK
<1> QED
  BY <1>1, FsInvariant, PTL

(* A path names a whole content at every moment, whatever calls are        *)
(* interleaved, fail or are cut short, and whichever earlier entries and   *)
(* contents a power failure leaves, unless Sync had failed for the file    *)
(* before the power did.                                                   *)
THEOREM PathsAreWhole == Spec => []PathsWhole
<1>1. ASSUME DiskInv PROVE PathsWhole
  <2> SUFFICES ASSUME NEW p \in Paths, Final(p) \in DOMAIN names, ~Torn(names[Final(p)])
               PROVE  \E v \in AllValues : data[names[Final(p)]] = Content(v)
    BY DEF PathsWhole
  <2>1. Settled(names[Final(p)])
    BY <1>1 DEF DiskInv, FsInv, NamesInv
  <2> QED
    BY <2>1, PartWhole DEF Settled, Holds
<1> QED
  BY <1>1, FsInvariant, PTL

(* A download that ends has received one whole content, unless it has read *)
(* such a file.                                                            *)
THEOREM DownloadsAreWhole == Spec => []DownloadsWhole
<1>1. DiskInv => DownloadsWhole
  BY DEF DiskInv, FsInv, ReadInv, ReadOK, DownloadsWhole
<1> QED
  BY <1>1, FsInvariant, PTL

(* A call that returns leaves no temporary file, if it could remove its    *)
(* own, until the power fails, and has it as long as it needs it.          *)
THEOREM NoLitterLeft == Spec => []NoLitter
<1>1. ASSUME DiskInv PROVE NoLitter
  <2> SUFFICES ASSUME NEW o \in Ops
               PROVE  /\ pc[o] \in {"ok", "error"} /\ ~outage /\ o \notin left =>
                            \A p \in Paths : <<p, o>> \notin DOMAIN names
                      /\ pc[o] \in {"write", "copy", "sync", "publish"} =>
                            Tmp(o) \in DOMAIN names /\ names[Tmp(o)] = o
    BY Zenon DEF NoLitter
  <2>1. NamesInv /\ FsInv
    BY <1>1 DEF DiskInv, FsInv
  <2>2. pc[o] \in Filling => Target(o) \in Paths
    BY <2>1, TmpNames DEF Filling
  <2> QED
    BY <2>1, <2>2 DEF NamesInv, Filling, MayStay, Tmp
<1> QED
  BY <1>1, FsInvariant, PTL

(* Moves that form no cycle never lose the content they move, however many *)
(* run at once, between whatever devices, and wherever they fail or are    *)
(* cut short, until the power fails: a source is removed only when a file  *)
(* that no call writes to any more has its content under a path that no    *)
(* move in progress will remove.                                           *)
THEOREM MovesLoseNothing ==
    ASSUME NEW v, {InitialFiles[p] : p \in DOMAIN InitialFiles} = {v},
           NEW Rank \in [Paths -> Nat],
           \A p, q \in Paths : <<p, q>> \in MovePairs => Rank[p] < Rank[q]
    PROVE  Spec => []KeptWhilePowered
<1>1. FsInit => DiskInv /\ MoveInv(Rank, v)
  <2> SUFFICES ASSUME FsInit PROVE DiskInv /\ MoveInv(Rank, v)
    OBVIOUS
  <2>1. \A p \in DOMAIN InitialFiles : InitialFiles[p] = v
    OBVIOUS
  <2>2. PICK p \in DOMAIN InitialFiles : TRUE
    BY Zenon
  <2>3. Closed = DOMAIN InitialFiles /\ \A f \in Closed : data[f] = Content(v)
    BY <2>1, FilesAssumption DEF FsInit, Init, Files, Closed
  <2>4. \A f \in Closed : Settled(f)
    <3>1. \A f \in Closed : Holds(f, v, Chunks)
      BY <2>3, PartWhole DEF Holds
    <3>2. v \in AllValues /\ Chunks \in 0 .. Chunks /\ \A f \in Closed : f \notin Ops
      BY <2>1, <2>3, ChunksAssumption, FilesAssumption DEF AllValues
    <3> QED
      BY <3>1, <3>2 DEF Settled
  <2>5. p \in Paths /\ Safe(Rank, p)
    BY <2>2, PathAssumption DEF Safe, FsInit, Init
  <2>6. \A o \in Ops : pc[o] = "idle"
    BY Zenon DEF FsInit, Init
  <2>7. MoveInv(Rank, v)
    BY <2>3, <2>4, <2>5, <2>6 DEF MoveInv
  <2> QED
    BY <2>7, FsInit0, PastInit DEF DiskInv
<1>2. DiskInv /\ MoveInv(Rank, v) /\ [Next]_fsVars => DiskInv' /\ MoveInv(Rank, v)'
  <2> SUFFICES ASSUME DiskInv, MoveInv(Rank, v), [Next]_fsVars
               PROVE  MoveInv(Rank, v)'
    BY DiskStep
  <2>1. CASE UNCHANGED fsVars
    <3>1. UNCHANGED <<names, data, pc, req, synced, outage, suspect>>
      BY <2>1, Zenon DEF fsVars, vars, callVars, diskVars
    <3> QED
      BY <3>1 DEF MoveInv, Closed, Settled, Holds, Torn, OnlyMoves, Safe
  <2>2. CASE PowerFails
    BY <2>2 DEF PowerFails, MoveInv
  <2>3. CASE Step /\ UNCHANGED outage
    <3>1. FsInv' /\ Stable
      BY <2>3, FsStep DEF DiskInv
    <3> QED
      BY <2>3, <3>1, MoveStep, Zenon DEF DiskInv
  <2> QED
    BY <2>1, <2>2, <2>3, Zenon DEF Next
<1>3. DiskInv /\ MoveInv(Rank, v) => KeptWhilePowered
  <2> SUFFICES ASSUME DiskInv, MoveInv(Rank, v), ~outage, OnlyMoves
               PROVE  \E p \in Paths : /\ Final(p) \in DOMAIN names
                                       /\ data[names[Final(p)]] = Content(v)
    BY DEF KeptWhilePowered, NothingLost
  <2>1. PICK p \in Paths : Safe(Rank, p)
    BY Zenon DEF MoveInv
  <2>2. Final(p) \in DOMAIN names /\ names[Final(p)] \in Closed
    BY <2>1, Zenon DEF Safe, DiskInv, FsInv, NamesInv, Settled
  <2>3. data[names[Final(p)]] = Content(v)
    BY <2>2 DEF MoveInv
  <2> QED
    BY <2>2, <2>3
<1> QED
  BY <1>1, <1>2, <1>3, PTL DEF Spec
=============================================================================
