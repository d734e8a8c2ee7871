------------------------- MODULE LocalStorageProofs -------------------------
(***************************************************************************)
(* Proofs about LocalStorage on any devices, with any faults, for any      *)
(* number of calls, downloads, paths and contents; then, what its moves    *)
(* come to: on one device, where Move is a rename, the interface's         *)
(* promise; between devices, where it is a copy, that moves at once of one *)
(* content leave whole contents; and moves of which one runs at a time.    *)
(***************************************************************************)
EXTENDS LocalStorage, PosixFilesProofs

(* The provers that a leaf is given to, in turn, unless it names its own.  *)
USE SMT, Zenon, SMTT(10), SMTT(20)

(* The inductive invariant.  A move that has come to its copy, and the     *)
(* file it copies into; a file that its write has not yet published.       *)
Copying == {"copy", "remove", "ok", "error", "crashed"}

Copied(f) ==
    \E o \in Ops : pc[o] \in Copying /\ req[o].op = "move" /\ fd[o].out = f

Writing(f) == f \in Ops /\ pc[f] \in {"idle", "createTemp", "write"}

(* A file is settled when no write is going to write to it, and it holds a *)
(* whole content or a move has copied into it.                             *)
Settled(f) ==
    /\ f \in Files
    /\ ~Writing(f)
    /\ Whole(data[f]) \/ Copied(f)

(* A call is where its kind of request can bring it; a write fills a file  *)
(* of its own, and a move copies only into a settled file.                 *)
CallOK(o) ==
    /\ pc[o] # "idle" => req[o] \in Calls
    /\ pc[o] \in {"createTemp", "write"} => req[o].op = "write"
    /\ pc[o] \in {"rename", "open", "create", "copy", "remove"} => req[o].op = "move"
    /\ pc[o] = "removeAll" => req[o].op = "delete"
    /\ pc[o] \in {"idle", "createTemp"} => off[o] = 0 /\ data[o] = << >>
    /\ pc[o] = "write" => fd[o].out = o /\ data[o] = Part(req[o].value, off[o])
    /\ pc[o] \in {"create", "copy"} => fd[o].in \in Files
    /\ pc[o] = "copy" => Settled(fd[o].out)

(* A path names a settled file, and a temporary name the file of its call. *)
Temps == {"write", "error", "crashed"}

NamesInv ==
    /\ \A p \in Paths : Final(p) \in DOMAIN names => Settled(names[Final(p)])
    /\ \A p \in Paths, o \in Ops :
          <<p, o>> \in DOMAIN names =>
             /\ pc[o] \in Temps
             /\ p = Target(o) /\ names[<<p, o>>] = o
    /\ \A o \in Ops : pc[o] = "write" => Tmp(o) \in DOMAIN names

(* A download reads a settled file, and has a first part of its content    *)
(* unless a move has copied into it.                                       *)
ReadOK(r) ==
    /\ reader[r].state = "idle" => reader[r].got = << >>
    /\ reader[r].state = "reading" =>
          /\ Settled(reader[r].file)
          /\ \/ Copied(reader[r].file)
             \/ \E v \in AllValues, n \in 0 .. Chunks :
                   data[reader[r].file] = Content(v) /\ reader[r].got = Part(v, n)
    /\ reader[r].state = "eof" =>
          reader[r].file \in Files /\ (Whole(reader[r].got) \/ Copied(reader[r].file))

(* No file is longer than a content.                                       *)
Short == \A f \in Files : Len(data[f]) <= Chunks

LsInv ==
    TypeOK /\ Short /\ NamesInv /\ (\A o \in Ops : CallOK(o)) /\ (\A r \in Readers : ReadOK(r))

LEMMA LsInit == Init => LsInv
<1> SUFFICES ASSUME Init PROVE LsInv
  OBVIOUS
<1>1. \A f \in DOMAIN InitialFiles : Settled(f)
  BY FilesAssumption DEF Init, Files, Settled, AllValues, Whole, Writing
<1>2. \A p \in Paths : Final(p) \in DOMAIN names => names[Final(p)] \in DOMAIN InitialFiles
  BY DEF Init, Final
<1>3. \A p \in Paths, o \in Ops : <<p, o>> \notin DOMAIN names
  BY NamesDiffer, Zenon DEF Init
<1>4. data \in [Files -> Seq(Chunk)] /\ Short
  <2>1. ASSUME NEW f \in DOMAIN InitialFiles
        PROVE  Content(InitialFiles[f]) \in Seq(Chunk) /\ Len(Content(InitialFiles[f])) = Chunks
    BY ChunksAssumption DEF Content, Chunk, AllValues
  <2>2. << >> \in Seq(Chunk) /\ Len(<< >>) <= Chunks
    BY ChunksAssumption
  <2>3. Chunks <= Chunks
    BY ChunksAssumption
  <2> QED
    BY <2>1, <2>2, <2>3, Zenon DEF Init, Files, Short
<1>5. TypeOK
  <2>1. DOMAIN names \subseteq {Final(p) : p \in Paths} \cup (Paths \X Ops)
    BY PathAssumption DEF Init
  <2>2. ASSUME NEW n \in DOMAIN names PROVE names[n] \in Files
    <3>1. PICK p \in DOMAIN InitialFiles : n = Final(p)
      BY DEF Init
    <3>2. names[n] = n[1] /\ n[1] = p
      BY <3>1 DEF Init, Final
    <3> QED
      BY <3>2 DEF Files
  <2>3. reader \in [Readers -> [state : {"idle", "reading", "eof", "cut"},
                              file : Files \cup {None}, got : Seq(Chunk)]]
    BY DEF Init
  <2>4. /\ req \in [Ops -> Calls \cup {None}]
        /\ fd \in [Ops -> [in : Files \cup {None}, out : Files \cup {None}]]
        /\ off \in [Ops -> 0 .. Chunks]
    BY ChunksAssumption DEF Init
  <2>5. pc \in [Ops -> Done]
    BY DEF Init, Done
  <2> QED
    BY <1>4, <2>1, <2>2, <2>3, <2>4, <2>5 DEF TypeOK, FilesOK
<1>6. NamesInv
  BY <1>1, <1>2, <1>3, Zenon DEF NamesInv, Init
<1>7. \A o \in Ops : CallOK(o)
  BY Zenon DEF Init, CallOK, Done, Files
<1>8. \A r \in Readers : ReadOK(r)
  BY Zenon DEF Init, ReadOK
<1> QED
  BY <1>4, <1>5, <1>6, <1>7, <1>8 DEF LsInv

-----------------------------------------------------------------------------
(* What a step of call o leaves alone.                                     *)
Others(o) ==
    \A q \in Ops \ {o} : pc'[q] = pc[q] /\ req'[q] = req[q] /\ fd'[q] = fd[q] /\ off'[q] = off[q]

Stable ==
    /\ \A f : Copied(f) => Copied(f)'
    /\ \A f : Settled(f) => Settled(f)' /\ (data'[f] = data[f] \/ Copied(f)')

LEMMA StepStable ==
    ASSUME NEW o \in Ops, Others(o),
           pc[o] \in Copying =>
              pc'[o] \in Copying /\ req'[o] = req[o] /\ fd'[o].out = fd[o].out,
           Writing(o)' => Writing(o),
           \A f \in Files : data'[f] = data[f] \/ Writing(f) \/ Copied(f)'
    PROVE  Stable
<1>1. ASSUME NEW f, Copied(f) PROVE Copied(f)'
  BY <1>1 DEF Copied, Others
<1>2. ASSUME NEW f, Settled(f) PROVE Settled(f)' /\ (data'[f] = data[f] \/ Copied(f)')
  <2>1. f \in Files /\ ~Writing(f) /\ (data'[f] = data[f] \/ Copied(f)')
    BY <1>2 DEF Settled
  <2>2. ~Writing(f)'
    BY <2>1 DEF Writing, Others
  <2>3. Whole(data[f])' \/ Copied(f)'
    BY <1>1, <1>2, <2>1, Zenon DEF Settled, Whole, AllValues, Content
  <2> QED
    BY <2>1, <2>2, <2>3 DEF Settled, Files
<1> QED
  BY <1>1, <1>2 DEF Stable

LEMMA ReadsKept ==
    ASSUME Stable, UNCHANGED reader, \A r \in Readers : ReadOK(r)
    PROVE  \A r \in Readers : ReadOK(r)'
<1> SUFFICES ASSUME NEW r \in Readers PROVE ReadOK(r)'
  OBVIOUS
<1>1. PICK f : f = reader[r].file
  OBVIOUS
<1>2. (Copied(f) => Copied(f)') /\ (Settled(f) => Settled(f)' /\ (data'[f] = data[f] \/ Copied(f)'))
  BY DEF Stable
<1>3. ReadOK(r) /\ reader'[r] = reader[r]
  OBVIOUS
<1>4. ASSUME reader[r].state = "reading"
      PROVE  /\ Settled(f)'
             /\ \/ Copied(f)'
                \/ \E v \in AllValues, n \in 0 .. Chunks :
                      data'[f] = Content(v) /\ reader[r].got = Part(v, n)
  BY <1>1, <1>2, <1>3, <1>4 DEF ReadOK
<1>5. reader[r].state = "eof" => f \in Files /\ (Whole(reader[r].got) \/ Copied(f)')
  BY <1>1, <1>2, <1>3 DEF ReadOK
<1> QED
  BY <1>1, <1>3, <1>4, <1>5 DEF ReadOK, Whole, Files

(* What an action leaves to prove: its own part of the invariant.          *)
LEMMA Assembled ==
    ASSUME LsInv, TypeOK', Short', Stable, UNCHANGED reader, NEW o \in Ops, Others(o), CallOK(o)',
           \A q \in Ops \ {o} : Writing(q) => data'[q] = data[q],
           \A p \in Paths : Final(p) \in DOMAIN names' =>
              \E f \in Files : names'[Final(p)] = f /\ Settled(f)',
           \A p \in Paths, q \in Ops : <<p, q>> \in DOMAIN names' =>
              IF q = o
              THEN pc'[o] \in Temps /\ p = Target(o)' /\ names'[<<p, q>>] = o
              ELSE <<p, q>> \in DOMAIN names /\ names'[<<p, q>>] = names[<<p, q>>],
           \A q \in Ops \ {o} : Tmp(q) \in DOMAIN names => Tmp(q) \in DOMAIN names',
           pc'[o] = "write" => Tmp(o)' \in DOMAIN names'
    PROVE  LsInv'
<1>a. NamesInv /\ (\A q \in Ops : CallOK(q)) /\ (\A r \in Readers : ReadOK(r))
  BY DEF LsInv
<1>1. \A q \in Ops \ {o} : Target(q)' = Target(q) /\ Tmp(q)' = Tmp(q) /\ pc'[q] = pc[q]
  BY DEF Target, Tmp, Others
<1>2. NamesInv'
  <2>1. ASSUME NEW p \in Paths, Final(p) \in DOMAIN names'
        PROVE  Settled(names[Final(p)])'
    <3>1. PICK f \in Files : names'[Final(p)] = f /\ Settled(f)'
      BY <2>1
    <3> QED
      BY <3>1 DEF Final
  <2>2. \A p \in Paths, q \in Ops :
           <<p, q>> \in DOMAIN names' =>
              pc'[q] \in Temps /\ p = Target(q)' /\ names'[<<p, q>>] = q
    BY <1>a, <1>1 DEF NamesInv
  <2>3. \A q \in Ops : pc'[q] = "write" => Tmp(q)' \in DOMAIN names'
    BY <1>a, <1>1 DEF NamesInv
  <2> QED
    BY <2>1, <2>2, <2>3 DEF NamesInv, Final
<1>3. ASSUME NEW q \in Ops \ {o} PROVE CallOK(q)'
  <2>1. CallOK(q) /\ pc'[q] = pc[q] /\ req'[q] = req[q] /\ fd'[q] = fd[q] /\ off'[q] = off[q]
    BY <1>a DEF Others
  <2>2. Settled(fd[q].out) => Settled(fd[q].out)'
    <3>1. PICK f : f = fd[q].out /\ f = fd'[q].out
      BY <2>1
    <3>2. Settled(f) => Settled(f)'
      BY DEF Stable
    <3> QED
      BY <3>1, <3>2
  <2>3. Writing(q) => data'[q] = data[q]
    OBVIOUS
  <2> QED
    BY <2>1, <2>2, <2>3 DEF CallOK, Calls, Writing, Files, Part
<1>4. \A r \in Readers : ReadOK(r)'
  BY <1>a, ReadsKept
<1> QED
  BY <1>2, <1>3, <1>4 DEF LsInv

(* The steps that leave the names alone.                                   *)
LEMMA NamesKept ==
    ASSUME LsInv, TypeOK', Short', Stable, UNCHANGED <<names, reader>>,
           NEW o \in Ops, Others(o), CallOK(o)',
           \A q \in Ops \ {o} : Writing(q) => data'[q] = data[q],
           pc[o] \in Temps => pc'[o] \in Temps /\ req'[o] = req[o],
           pc'[o] = "write" => pc[o] = "write"
    PROVE  LsInv'
<1>a. NamesInv /\ TypeOK
  BY DEF LsInv
<1>1. \A p \in Paths : Final(p) \in DOMAIN names' =>
         \E f \in Files : names'[Final(p)] = f /\ Settled(f)'
  BY <1>a DEF NamesInv, Stable, TypeOK, FilesOK
<1>2. \A p \in Paths, q \in Ops : <<p, q>> \in DOMAIN names' =>
         IF q = o
         THEN pc'[o] \in Temps /\ p = Target(o)' /\ names'[<<p, q>>] = o
         ELSE <<p, q>> \in DOMAIN names /\ names'[<<p, q>>] = names[<<p, q>>]
  BY <1>a DEF NamesInv, Target
<1>3. pc'[o] = "write" => Tmp(o)' \in DOMAIN names'
  BY <1>a DEF NamesInv, Tmp, Target, Temps
<1> QED
  BY <1>1, <1>2, <1>3, Assembled

LEMMA BeginStep ==
    ASSUME LsInv, NEW o \in Ops, Begin(o)
    PROVE  LsInv' /\ Stable
<1>a. TypeOK /\ Short /\ CallOK(o)
  BY DEF LsInv
<1>b. DOMAIN pc = Ops /\ DOMAIN req = Ops /\ pc[o] = "idle"
      /\ UNCHANGED <<names, data, fd, off, reader>>
  BY <1>a DEF Begin, TypeOK, FilesOK
<1>1. PICK c \in Calls, label \in {"createTemp", "rename", "removeAll"} :
         /\ req' = [req EXCEPT ![o] = c] /\ Goto(o, label)
         /\ label = "createTemp" => c.op = "write"
         /\ label = "rename" => c.op = "move"
         /\ label = "removeAll" => c.op = "delete"
  <2>1. PICK c \in Calls : req' = [req EXCEPT ![o] = c] /\ Goto(o, FirstCall(c))
    BY Zenon DEF Begin
  <2>2. c.op \in {"write", "move", "delete"}
    BY CallKinds, Zenon
  <2> QED
    BY <2>1, <2>2, Zenon DEF FirstCall
<1>3. Others(o) /\ pc'[o] = label
  BY <1>b, <1>1 DEF Others, Goto
<1>4. Stable
  BY <1>b, <1>3, StepStable DEF Copying, Writing
<1>5. TypeOK' /\ Short'
  BY <1>a, <1>b, <1>1 DEF Goto, TypeOK, FilesOK, Short, Files
<1>7. CallOK(o)'
  BY <1>a, <1>b, <1>1 DEF Goto, CallOK, Done
<1> QED
  BY <1>b, <1>3, <1>4, <1>5, <1>7, NamesKept DEF Temps

(* Steps that change only how far the call is: its failures, the failed    *)
(* rename, and the source that is missing.                                 *)
LEMMA JumpStep ==
    ASSUME LsInv, NEW o \in Ops, NEW label \in {"error", "crashed", "open"},
           pc[o] \notin Done, Goto(o, label),
           UNCHANGED <<names, data, req, fd, off, reader>>,
           label = "open" => pc[o] = "rename"
    PROVE  LsInv' /\ Stable
<1>a. TypeOK /\ Short /\ CallOK(o)
  BY DEF LsInv
<1>b. pc'[o] = label /\ pc[o] # "idle" /\ Others(o)
  BY <1>a DEF TypeOK, FilesOK, Done, Goto, Others
<1>4. Stable
  BY <1>b, StepStable DEF Copying, Writing
<1>5. TypeOK' /\ Short'
  BY <1>a DEF Goto, TypeOK, FilesOK, Done, Short, Files
<1>7. CallOK(o)'
  BY <1>a, <1>b DEF CallOK
<1> QED
  BY <1>b, <1>4, <1>5, <1>7, NamesKept DEF Temps

LEMMA WriteStep ==
    ASSUME LsInv, NEW o \in Ops, WriteChunk(o)
    PROVE  LsInv' /\ Stable
<1>a. TypeOK /\ Short /\ CallOK(o)
  BY DEF LsInv
<1>b. /\ pc[o] = "write" /\ DOMAIN pc = Ops /\ DOMAIN off = Ops
      /\ off[o] \in Nat /\ off[o] < Chunks /\ off' = [off EXCEPT ![o] = off[o] + 1]
      /\ UNCHANGED <<names, req, pc, fd, reader>>
  BY <1>a, ChunksAssumption DEF WriteChunk, TypeOK, FilesOK
<1>1. PICK v \in AllValues : v = req[o].value
  BY <1>a, <1>b, CallKinds, Zenon DEF CallOK, AllValues
<1>2. data' = [data EXCEPT ![o] = Part(v, off[o] + 1)]
  <2>1. WriteAt(Part(v, off[o]), off[o] + 1, v) = Part(v, off[o] + 1)
    BY <1>b, PartGrows
  <2>2. fd[o].out = o /\ data[o] = Part(v, off[o])
    BY <1>a, <1>b, <1>1 DEF CallOK
  <2> QED
    BY <1>1, <2>1, <2>2, Zenon DEF WriteChunk
<1>3. data \in [Files -> Seq(Chunk)] /\ o \in Files /\ Others(o)
  BY <1>a, <1>b DEF TypeOK, FilesOK, Files, Others
<1>4. Stable
  BY <1>b, <1>2, <1>3, StepStable DEF Writing, Copying
<1>5. TypeOK' /\ Short'
  <2>0. PICK n \in Nat : n = off[o] + 1
    BY <1>b
  <2>1. Part(v, off[o] + 1) \in Seq(Chunk) /\ Len(Part(v, off[o] + 1)) = off[o] + 1
    BY <2>0, PartChunks, PartSeq, Zenon
  <2>2. data' \in [Files -> Seq(Chunk)]
    BY <1>2, <1>3, <2>1
  <2>3. \A f \in Files : data'[f] = data[f] \/ Len(data'[f]) <= Chunks
    BY <1>b, <1>2, <1>3, <2>1, ChunksAssumption
  <2>4. off' \in [Ops -> 0 .. Chunks]
    BY <1>a, <1>b, ChunksAssumption DEF TypeOK, FilesOK
  <2> QED
    BY <1>a, <1>b, <2>2, <2>3, <2>4 DEF TypeOK, FilesOK, Short, Files
<1>7. CallOK(o)'
  BY <1>a, <1>b, <1>1, <1>2, <1>3 DEF CallOK
<1> QED
  BY <1>b, <1>2, <1>3, <1>4, <1>5, <1>7, NamesKept DEF Files

LEMMA OpenStep ==
    ASSUME LsInv, NEW o \in Ops, Open(o, "create")
    PROVE  LsInv' /\ Stable
<1>a. TypeOK /\ Short /\ NamesInv /\ CallOK(o)
  BY DEF LsInv
<1>b. /\ pc[o] = "open" /\ DOMAIN pc = Ops
      /\ req[o] \in Calls /\ req[o].op = "move" /\ req[o].src \in Paths
      /\ UNCHANGED <<names, data, req, off, reader>>
  BY <1>a, CallKinds, Zenon DEF Open, TypeOK, FilesOK, CallOK
<1>c. fd \in [Ops -> [in : Files \cup {None}, out : Files \cup {None}]]
  BY <1>a DEF TypeOK, FilesOK
<1>1. CASE Final(req[o].src) \notin DOMAIN names
  <2>1. pc[o] \notin Done /\ Goto(o, "error") /\ UNCHANGED fd
    BY <1>b, <1>1 DEF Open, Done
  <2> QED
    BY <1>b, <2>1, JumpStep
<1>2. CASE Final(req[o].src) \in DOMAIN names
  <2>1. PICK f \in Files : f = names[Final(req[o].src)]
    BY <1>a, <1>2 DEF TypeOK, FilesOK
  <2>2. fd' = [fd EXCEPT ![o].in = f] /\ Goto(o, "create")
    BY <1>2, <2>1 DEF Open
  <2>3. /\ fd' \in [Ops -> [in : Files \cup {None}, out : Files \cup {None}]]
        /\ fd'[o].in = f /\ \A q \in Ops \ {o} : fd'[q] = fd[q]
    BY <1>c, <2>2
  <2>4. Others(o) /\ pc'[o] = "create"
    BY <1>b, <2>2, <2>3 DEF Others, Goto
  <2>5. Stable
    BY <1>b, <2>4, StepStable DEF Copying, Writing
  <2>6. TypeOK' /\ Short'
    BY <1>a, <1>b, <2>2, <2>3 DEF Goto, TypeOK, FilesOK, Short, Files
  <2>7. CallOK(o)'
    BY <1>b, <2>3, <2>4 DEF CallOK, Files
  <2> QED
    BY <1>b, <2>4, <2>5, <2>6, <2>7, NamesKept DEF Temps
<1> QED
  BY <1>1, <1>2

(* A move copies into a settled file, and never past the length of a       *)
(* content.                                                                *)
LEMMA CopyStep ==
    ASSUME LsInv, NEW o \in Ops, CopyChunk(o, "remove")
    PROVE  LsInv' /\ Stable
<1>a. TypeOK /\ Short /\ (\A q \in Ops : CallOK(q)) /\ CallOK(o)
  BY DEF LsInv
<1>b. /\ pc[o] = "copy" /\ DOMAIN pc = Ops /\ req[o].op = "move" /\ req[o] \in Calls
      /\ off \in [Ops -> 0 .. Chunks] /\ Chunks \in Nat
      /\ data \in [Files -> Seq(Chunk)]
      /\ UNCHANGED <<names, req, fd, reader>>
  BY <1>a, ChunksAssumption DEF CopyChunk, TypeOK, FilesOK, CallOK
<1>c. PICK in \in Files, f \in Files :
         in = fd[o].in /\ f = fd[o].out /\ Settled(f) /\ ~Writing(f)
  BY <1>a, <1>b DEF CallOK, Settled
<1>1. PICK label \in {"copy", "remove"} :
         /\ Goto(o, label)
         /\ IF label = "copy"
            THEN \E c \in Seq(Chunk), i \in 1 .. Chunks :
                    /\ Len(c) <= Chunks
                    /\ data' = [data EXCEPT ![f] = c]
                    /\ off' = [off EXCEPT ![o] = i]
            ELSE data' = data /\ off' = off
  <2>1. CASE off[o] + 1 <= Len(data[in])
    <3>1. PICK i \in 1 .. Chunks : i = off[o] + 1 /\ i <= Len(data[in])
      BY <1>a, <1>b, <2>1 DEF Short
    <3>2. PICK c : c = WriteAt(data[f], i, data[in][i])
      OBVIOUS
    <3>3. c \in Seq(Chunk) /\ Len(c) <= Chunks
      <4>1. data[in][i] \in Chunk /\ i \in Nat \ {0} /\ data[f] \in Seq(Chunk)
        <5>1. PICK t \in Seq(Chunk) : t = data[in]
          BY <1>b
        <5>2. i \in 1 .. Len(t)
          BY <3>1, <5>1
        <5>3. t[i] \in Chunk
          BY <5>2
        <5> QED
          BY <1>b, <3>1, <5>1, <5>3
      <4>2. Len(data[f]) <= Chunks /\ i <= Chunks
        BY <1>a, <1>b, <3>1 DEF Short
      <4>3. c \in Seq(Chunk) /\ Len(c) = IF i > Len(data[f]) THEN i ELSE Len(data[f])
        BY <3>2, <4>1, WriteAtIs, ZenonT(30)
      <4> QED
        BY <4>2, <4>3
    <3>4. data' = [data EXCEPT ![f] = c] /\ off' = [off EXCEPT ![o] = i] /\ pc' = pc
      BY <1>c, <3>1, <3>2 DEF CopyChunk
    <3>5. Goto(o, "copy")
      BY <1>a, <1>b, <3>4 DEF Goto, TypeOK
    <3> QED
      BY <3>3, <3>4, <3>5, Zenon
  <2>2. CASE ~(off[o] + 1 <= Len(data[in]))
    BY <1>c, <2>2 DEF CopyChunk
  <2> QED
    BY <2>1, <2>2
<1>2. Others(o) /\ pc'[o] = label
  BY <1>b, <1>1 DEF Others, Goto
<1>3. Copied(f)' /\ \A g \in Files : data'[g] = data[g] \/ g = f
  BY <1>b, <1>c, <1>1, <1>2 DEF Copied, Copying
<1>4. Stable
  BY <1>b, <1>2, <1>3, StepStable DEF Copying, Writing
<1>5. TypeOK' /\ Short'
  <2>1. data' \in [Files -> Seq(Chunk)] /\ \A g \in Files : data'[g] = data[g] \/ Len(data'[g]) <= Chunks
    BY <1>b, <1>1, Zenon
  <2>2. off' \in [Ops -> 0 .. Chunks]
    <3>1. PICK i \in 0 .. Chunks : off' = [off EXCEPT ![o] = i] \/ off' = off
      BY <1>b, <1>1
    <3> QED
      BY <1>b, <3>1
  <2> QED
    BY <1>a, <1>b, <1>1, <2>1, <2>2, Zenon DEF Goto, TypeOK, FilesOK, Short, Files
<1>6. CallOK(o)'
  <2>1. Settled(f)'
    BY <1>4, <1>c DEF Stable
  <2> QED
    BY <1>b, <1>c, <1>2, <2>1 DEF CallOK, Files
<1>7. \A q \in Ops \ {o} : Writing(q) => data'[q] = data[q]
  BY <1>c, <1>3 DEF Files
<1> QED
  BY <1>b, <1>2, <1>4, <1>5, <1>6, <1>7, NamesKept DEF Temps

-----------------------------------------------------------------------------
(* The steps that change the names.                                        *)
LEMMA CreateTempStep ==
    ASSUME LsInv, NEW o \in Ops, CreateTemp(o)
    PROVE  LsInv' /\ Stable /\ Goto(o, "write")
<1>a. TypeOK /\ Short /\ NamesInv /\ CallOK(o)
  BY DEF LsInv
<1>b. /\ pc[o] = "createTemp" /\ DOMAIN pc = Ops
      /\ req[o] \in Calls /\ req[o].op = "write" /\ Target(o) \in Paths
      /\ off[o] = 0 /\ data[o] = << >>
      /\ UNCHANGED <<data, req, off, reader>>
  BY <1>a, CallKinds, Zenon DEF CreateTemp, TypeOK, FilesOK, CallOK, Target
<1>c. Goto(o, "write") /\ fd' = [fd EXCEPT ![o].out = o]
  BY <1>b DEF CreateTemp
<1>d. PICK t : t = Tmp(o) /\ t = <<Target(o), o>> /\ t = Tmp(o)'
  BY <1>b, Zenon DEF Tmp, Target
<1>e. fd \in [Ops -> [in : Files \cup {None}, out : Files \cup {None}]] /\ o \in Files
  BY <1>a DEF TypeOK, FilesOK, Files
<1>1. /\ DOMAIN names' = DOMAIN names \cup {t} /\ names'[t] = o
      /\ \A x \in DOMAIN names : x # t => names'[x] = names[x]
  BY <1>d DEF CreateTemp, Link
<1>2. /\ fd' \in [Ops -> [in : Files \cup {None}, out : Files \cup {None}]]
      /\ fd'[o].out = o /\ \A q \in Ops \ {o} : fd'[q] = fd[q]
  BY <1>c, <1>e
<1>3. Others(o) /\ pc'[o] = "write"
  BY <1>b, <1>c, <1>2 DEF Others, Goto
<1>4. Stable
  BY <1>b, <1>3, StepStable DEF Copying, Writing
<1>5. TypeOK' /\ Short'
  <2>1. DOMAIN names' \subseteq {Final(p) : p \in Paths} \cup (Paths \X Ops)
    BY <1>a, <1>b, <1>d, <1>1 DEF TypeOK, FilesOK
  <2>2. \A x \in DOMAIN names' : names'[x] \in Files
    BY <1>a, <1>e, <1>1 DEF TypeOK, FilesOK
  <2> QED
    BY <1>a, <1>b, <1>c, <1>2, <2>1, <2>2 DEF Goto, TypeOK, FilesOK, Short, Files
<1>6. ASSUME NEW p \in Paths, Final(p) \in DOMAIN names'
      PROVE  \E f \in Files : names'[Final(p)] = f /\ Settled(f)'
  <2>1. Final(p) # t
    BY <1>d, NamesDiffer
  <2>2. PICK f \in Files : names[Final(p)] = f /\ Settled(f)
    BY <1>a, <1>1, <1>6, <2>1 DEF NamesInv, TypeOK, FilesOK
  <2> QED
    BY <1>1, <1>4, <1>6, <2>1, <2>2 DEF Stable
<1>7. ASSUME NEW p \in Paths, NEW q \in Ops, <<p, q>> \in DOMAIN names'
      PROVE  IF q = o
             THEN pc'[o] \in Temps /\ p = Target(o)' /\ names'[<<p, q>>] = o
             ELSE <<p, q>> \in DOMAIN names /\ names'[<<p, q>>] = names[<<p, q>>]
  <2>1. CASE <<p, q>> = t
    <3>1. q = o /\ p = Target(o)'
      BY <1>b, <1>d, <2>1 DEF Target
    <3> QED
      BY <1>1, <1>3, <2>1, <3>1 DEF Temps
  <2>2. CASE <<p, q>> # t
    <3>1. <<p, q>> \in DOMAIN names /\ names'[<<p, q>>] = names[<<p, q>>]
      BY <1>1, <1>7, <2>2
    <3>2. q # o
      BY <1>a, <1>b, <3>1 DEF NamesInv, Temps
    <3> QED
      BY <3>1, <3>2
  <2> QED
    BY <2>1, <2>2
<1>8. CallOK(o)'
  <2>1. Part(req[o].value, 0) = << >>
    BY DEF Part
  <2> QED
    BY <1>b, <1>2, <1>3, <2>1 DEF CallOK
<1>9. (\A q \in Ops \ {o} : Tmp(q) \in DOMAIN names => Tmp(q) \in DOMAIN names')
      /\ Tmp(o)' \in DOMAIN names'
  BY <1>d, <1>1
<1> QED
  BY <1>b, <1>c, <1>3, <1>4, <1>5, <1>6, <1>7, <1>8, <1>9, Assembled

(* The file that a move between devices copies into: the one at its        *)
(* destination, or a new one there, emptied in either case.                *)
LEMMA CreateIs ==
    ASSUME LsInv, NEW o \in Ops, Create(o)
    PROVE  \E f \in Files, d \in Paths :
              /\ d = req[o].dst /\ req[o] \in Calls /\ req[o].op = "move" /\ ~Writing(f)
              /\ f = IF Final(d) \in DOMAIN names THEN names[Final(d)] ELSE o
              /\ DOMAIN names' = DOMAIN names \cup {Final(d)} /\ names'[Final(d)] = f
              /\ \A x \in DOMAIN names : names'[x] = names[x]
              /\ data' = [data EXCEPT ![f] = << >>]
              /\ fd' \in [Ops -> [in : Files \cup {None}, out : Files \cup {None}]]
              /\ fd'[o].in = fd[o].in /\ fd'[o].out = f /\ \A q \in Ops \ {o} : fd'[q] = fd[q]
              /\ pc[o] = "create" /\ Goto(o, "copy")
              /\ UNCHANGED <<req, off, reader>>
<1>a. TypeOK /\ NamesInv /\ CallOK(o) /\ pc[o] = "create"
  BY DEF LsInv, Create
<1>b. PICK d \in Paths : d = req[o].dst /\ req[o] \in Calls /\ req[o].op = "move"
  BY <1>a, CallKinds, Zenon DEF CallOK
<1>1. PICK f \in Files :
         f = (IF Final(d) \in DOMAIN names THEN names[Final(d)] ELSE o) /\ ~Writing(f)
  BY <1>a, <1>b DEF NamesInv, Settled, Writing, TypeOK, FilesOK, Files
<1>2. /\ names' = Link(names, Final(d), f)
      /\ data' = [data EXCEPT ![f] = << >>]
      /\ fd' = [fd EXCEPT ![o].out = f]
      /\ Goto(o, "copy") /\ UNCHANGED <<req, off, reader>>
  BY <1>b, <1>1 DEF Create
<1>3. /\ fd' \in [Ops -> [in : Files \cup {None}, out : Files \cup {None}]]
      /\ fd'[o].in = fd[o].in /\ fd'[o].out = f /\ \A q \in Ops \ {o} : fd'[q] = fd[q]
  BY <1>a, <1>2, ZenonT(30) DEF TypeOK, FilesOK
<1>4. /\ DOMAIN names' = DOMAIN names \cup {Final(d)} /\ names'[Final(d)] = f
      /\ \A x \in DOMAIN names : names'[x] = names[x]
  BY <1>1, <1>2 DEF Link
<1> QED
  BY <1>a, <1>b, <1>1, <1>2, <1>3, <1>4, Zenon

LEMMA CreateStep ==
    ASSUME LsInv, NEW o \in Ops, Create(o)
    PROVE  LsInv' /\ Stable
<1>a. TypeOK /\ Short /\ NamesInv /\ CallOK(o)
  BY DEF LsInv
<1>b. PICK f \in Files, d \in Paths :
         /\ d = req[o].dst /\ req[o] \in Calls /\ req[o].op = "move" /\ ~Writing(f)
         /\ f = IF Final(d) \in DOMAIN names THEN names[Final(d)] ELSE o
         /\ DOMAIN names' = DOMAIN names \cup {Final(d)} /\ names'[Final(d)] = f
         /\ \A x \in DOMAIN names : names'[x] = names[x]
         /\ data' = [data EXCEPT ![f] = << >>]
         /\ fd' \in [Ops -> [in : Files \cup {None}, out : Files \cup {None}]]
         /\ fd'[o].in = fd[o].in /\ fd'[o].out = f /\ \A q \in Ops \ {o} : fd'[q] = fd[q]
         /\ pc[o] = "create" /\ Goto(o, "copy")
         /\ UNCHANGED <<req, off, reader>>
  BY CreateIs, Zenon
<1>c. data \in [Files -> Seq(Chunk)] /\ DOMAIN pc = Ops
  BY <1>a, Zenon DEF TypeOK, FilesOK
<1>1. Others(o) /\ pc'[o] = "copy"
  BY <1>b, <1>c, Zenon DEF Others, Goto
<1>2. Copied(f)' /\ \A g \in Files : data'[g] = data[g] \/ g = f
  BY <1>b, <1>c, <1>1 DEF Copied, Copying
<1>3. Settled(f)'
  <2>1. ~Writing(f)'
    BY <1>b, <1>1, Zenon DEF Writing, Others
  <2> QED
    BY <1>2, <2>1, Zenon DEF Settled, Files
<1>4. Stable
  BY <1>b, <1>1, <1>2, StepStable, Zenon DEF Copying, Writing
<1>5. TypeOK' /\ Short'
  <2>1. data' \in [Files -> Seq(Chunk)]
        /\ \A g \in Files : data'[g] = data[g] \/ Len(data'[g]) <= Chunks
    <3>1. << >> \in Seq(Chunk) /\ Len(<< >>) <= Chunks
      BY EmptyIs, Zenon
    <3> QED
      BY <1>b, <1>c, <3>1
  <2>2. DOMAIN names' \subseteq {Final(p) : p \in Paths} \cup (Paths \X Ops)
        /\ \A x \in DOMAIN names' : names'[x] \in Files
    BY <1>a, <1>b DEF TypeOK, FilesOK
  <2> QED
    BY <1>a, <1>b, <2>1, <2>2, Zenon DEF Goto, TypeOK, FilesOK, Short, Files
<1>6. CallOK(o)'
  BY <1>a, <1>b, <1>1, <1>3, Zenon DEF CallOK, Files
<1>7. \A q \in Ops \ {o} : Writing(q) => data'[q] = data[q]
  BY <1>b, <1>2, Zenon DEF Files
<1>8. ASSUME NEW p \in Paths, Final(p) \in DOMAIN names'
      PROVE  \E g \in Files : names'[Final(p)] = g /\ Settled(g)'
  <2>1. CASE Final(p) = Final(d)
    BY <1>b, <1>3, <2>1
  <2>2. CASE Final(p) # Final(d)
    BY <1>a, <1>b, <1>4, <1>8, <2>2, Zenon DEF NamesInv, Stable, TypeOK, FilesOK
  <2> QED
    BY <2>1, <2>2
<1>9. ASSUME NEW p \in Paths, NEW q \in Ops, <<p, q>> \in DOMAIN names'
      PROVE  q # o /\ <<p, q>> \in DOMAIN names /\ names'[<<p, q>>] = names[<<p, q>>]
  <2>1. Final(d) # <<p, q>>
    BY NamesDiffer
  <2>2. <<p, q>> \in DOMAIN names
    BY <1>b, <1>9, <2>1
  <2> QED
    BY <1>a, <1>b, <2>2, Zenon DEF NamesInv, Temps
<1> QED
  BY <1>b, <1>1, <1>4, <1>5, <1>6, <1>7, <1>8, <1>9, Assembled

(* Steps that change the entries and return: what a path names afterwards  *)
(* was settled before or is the complete file of the call.                 *)
TempsKept(o) ==
    /\ \A p \in Paths, q \in Ops : <<p, q>> \in DOMAIN names' =>
          q # o /\ <<p, q>> \in DOMAIN names /\ names'[<<p, q>>] = names[<<p, q>>]
    /\ \A q \in Ops \ {o} : Tmp(q) \in DOMAIN names => Tmp(q) \in DOMAIN names'

LEMMA ReturnStep ==
    ASSUME LsInv, NEW o \in Ops, pc[o] \notin Done, Goto(o, "ok"), TempsKept(o),
           UNCHANGED <<data, req, fd, off, reader>>,
           DOMAIN names' \subseteq {Final(p) : p \in Paths} \cup (Paths \X Ops),
           \A p \in Paths : Final(p) \in DOMAIN names' =>
              \E f \in Files :
                 names'[Final(p)] = f /\ (Settled(f) \/ (f = o /\ Whole(data[o])))
    PROVE  LsInv' /\ Stable
<1>a. TypeOK /\ Short /\ CallOK(o)
  BY Zenon DEF LsInv
<1>b. pc[o] # "idle" /\ pc'[o] = "ok" /\ Others(o)
  BY <1>a, Zenon DEF TypeOK, FilesOK, Done, Goto, Others
<1>4. Stable
  BY <1>b, StepStable, Zenon DEF Copying, Writing
<1>5. TypeOK' /\ Short'
  <2>1. ASSUME NEW x \in DOMAIN names' PROVE names'[x] \in Files
    <3>1. CASE \E p \in Paths : x = Final(p)
      BY <3>1, Zenon
    <3>2. CASE \E p \in Paths, q \in Ops : x = <<p, q>>
      <4>1. PICK p \in Paths, q \in Ops : x = <<p, q>>
        BY <3>2
      <4> QED
        BY <1>a, <4>1, Zenon DEF TypeOK, FilesOK, TempsKept
    <3> QED
      BY <3>1, <3>2
  <2> QED
    BY <1>a, <2>1 DEF Goto, TypeOK, FilesOK, Done, Short, Files
<1>6. ASSUME NEW p \in Paths, Final(p) \in DOMAIN names'
      PROVE  \E f \in Files : names'[Final(p)] = f /\ Settled(f)'
  <2>1. PICK f \in Files :
           names'[Final(p)] = f /\ (Settled(f) \/ (f = o /\ Whole(data[o])))
    BY <1>6
  <2>2. Settled(f)'
    BY <1>b, <1>4, <2>1, Zenon DEF Settled, Stable, Files, Writing, Whole, AllValues, Content
  <2> QED
    BY <2>1, <2>2
<1>7. CallOK(o)'
  BY <1>a, <1>b, Zenon DEF CallOK
<1> QED
  BY <1>b, <1>4, <1>5, <1>6, <1>7, Assembled, Zenon DEF TempsKept

(* The entries of the paths after a rename of a temporary file, a rename   *)
(* and a removal.                                                          *)
Entries(p, q) == \* the entry of p is that of q before the step
    /\ Final(p) \in DOMAIN names' <=> Final(q) \in DOMAIN names
    /\ Final(p) \in DOMAIN names' => names'[Final(p)] = names[Final(q)]

LEMMA PublishNames ==
    ASSUME LsInv, NEW o \in Ops, RenameTemp(o, "write")
    PROVE  /\ req[o] \in Calls /\ req[o].op = "write"
           /\ data[o] = Content(req[o].value)
           /\ Final(req[o].path) \in DOMAIN names' /\ names'[Final(req[o].path)] = o
           /\ \A p \in Paths \ {req[o].path} : Entries(p, p)
           /\ DOMAIN names' \subseteq {Final(p) : p \in Paths} \cup (Paths \X Ops)
           /\ TempsKept(o)
<1>a. TypeOK /\ NamesInv /\ CallOK(o) /\ pc[o] = "write" /\ off[o] = Chunks
  BY DEF LsInv, RenameTemp
<1>b. req[o] \in Calls /\ req[o].op = "write" /\ req[o].path \in Paths
  BY <1>a, CallKinds, Zenon DEF CallOK
<1>c. data[o] = Content(req[o].value)
  BY <1>a, PartWhole, Zenon DEF CallOK
<1>d. PICK t, d : /\ t \in DOMAIN names /\ t = Tmp(o) /\ d = Final(req[o].path)
                  /\ t = <<req[o].path, o>> /\ names[t] = o
  <2>1. Tmp(o) \in DOMAIN names /\ Tmp(o) = <<req[o].path, o>>
    BY <1>a, <1>b DEF NamesInv, Tmp, Target
  <2>2. names[<<req[o].path, o>>] = o
    BY <1>a, <1>b, <2>1 DEF NamesInv
  <2> QED
    BY <2>1, <2>2
<1>e. t # d
  BY <1>d, NamesDiffer
<1>1. /\ \A x : x \in DOMAIN names' <=> x # t /\ (x \in DOMAIN names \/ x = d)
      /\ names'[d] = o
      /\ \A x \in DOMAIN names : x # t /\ x # d => names'[x] = names[x]
  <2>1. names' = Renamed(names, t, d)
    BY <1>d DEF RenameTemp
  <2> QED
    BY <1>d, <1>e, <2>1, RenamedIs
<1>2. d \in DOMAIN names'
  BY <1>e, <1>1
<1>3. \A p \in Paths \ {req[o].path} : Entries(p, p)
  <2> SUFFICES ASSUME NEW p \in Paths \ {req[o].path} PROVE Entries(p, p)
    OBVIOUS
  <2>1. Final(p) # t /\ Final(p) # d
    BY <1>d, NamesDiffer, Zenon
  <2> QED
    BY <1>1, <2>1 DEF Entries
<1>4. DOMAIN names' \subseteq {Final(p) : p \in Paths} \cup (Paths \X Ops)
  BY <1>a, <1>b, <1>d, <1>1, Zenon DEF TypeOK, FilesOK
<1>5. TempsKept(o)
  <2>1. ASSUME NEW p \in Paths, NEW q \in Ops, <<p, q>> \in DOMAIN names'
        PROVE  q # o /\ <<p, q>> \in DOMAIN names /\ names'[<<p, q>>] = names[<<p, q>>]
    <3>1. <<p, q>> # d
      BY <1>d, NamesDiffer
    <3>2. <<p, q>> \in DOMAIN names /\ <<p, q>> # t
      BY <1>1, <2>1, <3>1, Zenon
    <3>3. q # o
      BY <1>a, <1>b, <1>d, <3>2 DEF NamesInv, Target
    <3> QED
      BY <1>1, <3>1, <3>2, <3>3
  <2>2. ASSUME NEW q \in Ops \ {o}, Tmp(q) \in DOMAIN names PROVE Tmp(q) \in DOMAIN names'
    <3>1. Tmp(q) # t
      BY <1>d, TmpsDiffer, Zenon
    <3> QED
      BY <1>1, <2>2, <3>1
  <2> QED
    BY <2>1, <2>2 DEF TempsKept
<1> QED
  BY <1>b, <1>c, <1>d, <1>1, <1>2, <1>3, <1>4, <1>5, Zenon

LEMMA RenameNames ==
    ASSUME LsInv, NEW o \in Ops, pc[o] = "rename",
           Final(req[o].src) \in DOMAIN names,
           names' = Renamed(names, Final(req[o].src), Final(req[o].dst)),
           UNCHANGED req
    PROVE  /\ req[o] \in Calls /\ req[o].op = "move"
           /\ Entries(req[o].dst, req[o].src)
           /\ req[o].src # req[o].dst => Final(req[o].src) \notin DOMAIN names'
           /\ \A p \in Paths \ {req[o].src, req[o].dst} : Entries(p, p)
           /\ DOMAIN names' \subseteq {Final(p) : p \in Paths} \cup (Paths \X Ops)
           /\ TempsKept(o)
<1>a. TypeOK /\ NamesInv /\ CallOK(o)
  BY DEF LsInv
<1>b. req[o] \in Calls /\ req[o].op = "move" /\ req[o].src \in Paths /\ req[o].dst \in Paths
  BY <1>a, CallKinds, Zenon DEF CallOK
<1>c. \A p \in Paths : <<p, o>> \notin DOMAIN names
  BY <1>a, Zenon DEF NamesInv, Temps
<1>1. CASE req[o].src = req[o].dst
  <2>1. names' = names
    BY <1>1, Zenon DEF Renamed
  <2> QED
    BY <1>a, <1>b, <1>c, <1>1, <2>1, Zenon DEF Entries, TempsKept, TypeOK, FilesOK
<1>2. CASE req[o].src # req[o].dst
  <2>d. PICK s, d : s \in DOMAIN names /\ s = Final(req[o].src) /\ d = Final(req[o].dst)
    OBVIOUS
  <2>1. s # d
    BY <1>2, <2>d, NamesDiffer, Zenon
  <2>2. /\ \A x : x \in DOMAIN names' <=> x # s /\ (x \in DOMAIN names \/ x = d)
        /\ names'[d] = names[s]
        /\ \A x \in DOMAIN names : x # s /\ x # d => names'[x] = names[x]
    <3>1. names' = Renamed(names, s, d)
      BY <2>d
    <3> QED
      BY <2>d, <2>1, <3>1, RenamedIs
  <2>3. Entries(req[o].dst, req[o].src)
    BY <2>d, <2>1, <2>2 DEF Entries
  <2>4. Final(req[o].src) \notin DOMAIN names'
    BY <2>d, <2>2
  <2>5. \A p \in Paths \ {req[o].src, req[o].dst} : Entries(p, p)
    <3> SUFFICES ASSUME NEW p \in Paths \ {req[o].src, req[o].dst} PROVE Entries(p, p)
      OBVIOUS
    <3>1. Final(p) # s /\ Final(p) # d
      BY <2>d, NamesDiffer, Zenon
    <3> QED
      BY <2>2, <3>1 DEF Entries
  <2>6. DOMAIN names' \subseteq {Final(p) : p \in Paths} \cup (Paths \X Ops)
    BY <1>a, <1>b, <2>d, <2>2 DEF TypeOK, FilesOK
  <2>7. ASSUME NEW p, NEW q
        PROVE  /\ <<p, q>> \in DOMAIN names' <=> <<p, q>> \in DOMAIN names
               /\ <<p, q>> \in DOMAIN names' => names'[<<p, q>>] = names[<<p, q>>]
    <3>1. <<p, q>> # s /\ <<p, q>> # d
      BY <2>d, NamesDiffer
    <3> QED
      BY <2>2, <3>1
  <2>8. TempsKept(o)
    BY <1>c, <2>7 DEF TempsKept, Tmp
  <2> QED
    BY <1>b, <2>3, <2>4, <2>5, <2>6, <2>8, Zenon
<1> QED
  BY <1>1, <1>2, Zenon

LEMMA RemoveNames ==
    ASSUME LsInv, NEW o \in Ops, pc[o] \in {"remove", "removeAll"}, NEW w \in Paths,
           names' = Unlink(names, Final(w)), UNCHANGED req
    PROVE  /\ Final(w) \notin DOMAIN names'
           /\ \A p \in Paths \ {w} : Entries(p, p)
           /\ DOMAIN names' \subseteq {Final(p) : p \in Paths} \cup (Paths \X Ops)
           /\ TempsKept(o)
<1>a. TypeOK /\ NamesInv
  BY DEF LsInv
<1>c. \A p \in Paths : <<p, o>> \notin DOMAIN names
  BY <1>a DEF NamesInv, Temps
<1>d. PICK d : d = Final(w)
  OBVIOUS
<1>1. /\ \A x : x \in DOMAIN names' <=> x # d /\ x \in DOMAIN names
      /\ \A x \in DOMAIN names : x # d => names'[x] = names[x]
  BY <1>d DEF Unlink
<1>2. \A p \in Paths \ {w} : Entries(p, p)
  <2> SUFFICES ASSUME NEW p \in Paths \ {w} PROVE Entries(p, p)
    OBVIOUS
  <2>1. Final(p) # d
    BY <1>d, NamesDiffer, Zenon
  <2> QED
    BY <1>1, <2>1 DEF Entries
<1>3. DOMAIN names' \subseteq {Final(p) : p \in Paths} \cup (Paths \X Ops)
  BY <1>a, <1>1 DEF TypeOK, FilesOK
<1>4. ASSUME NEW p, NEW q
      PROVE  /\ <<p, q>> \in DOMAIN names' <=> <<p, q>> \in DOMAIN names
             /\ <<p, q>> \in DOMAIN names' => names'[<<p, q>>] = names[<<p, q>>]
  <2>1. <<p, q>> # d
    BY <1>d, NamesDiffer, Zenon
  <2> QED
    BY <1>1, <2>1
<1>5. TempsKept(o)
  BY <1>c, <1>4, Zenon DEF TempsKept, Tmp
<1> QED
  BY <1>d, <1>1, <1>2, <1>3, <1>5

LEMMA PublishStep ==
    ASSUME LsInv, NEW o \in Ops, RenameTemp(o, "write")
    PROVE  LsInv' /\ Stable
<1>a. TypeOK /\ NamesInv /\ pc[o] \notin Done
  BY DEF LsInv, RenameTemp, Done
<1>b. PICK w \in WritePaths, v \in Values : w = req[o].path /\ v = req[o].value
  BY PublishNames, CallKinds, Zenon
<1>1. /\ data[o] = Content(v)
      /\ Final(w) \in DOMAIN names' /\ names'[Final(w)] = o
      /\ \A p \in Paths \ {w} : Entries(p, p)
      /\ DOMAIN names' \subseteq {Final(p) : p \in Paths} \cup (Paths \X Ops)
      /\ TempsKept(o)
  BY <1>b, PublishNames
<1>3. ASSUME NEW p \in Paths, Final(p) \in DOMAIN names'
      PROVE  \E f \in Files :
                names'[Final(p)] = f /\ (Settled(f) \/ (f = o /\ Whole(data[o])))
  <2>1. CASE p = w
    BY <1>1, <2>1, Zenon DEF Files, AllValues, Whole
  <2>2. CASE p # w
    BY <1>a, <1>1, <1>3, <2>2, Zenon DEF Entries, NamesInv, TypeOK, FilesOK
  <2> QED
    BY <2>1, <2>2
<1>4. Goto(o, "ok") /\ UNCHANGED <<data, req, fd, off, reader>>
  BY Zenon DEF RenameTemp
<1> QED
  BY <1>a, <1>1, <1>3, <1>4, ReturnStep

LEMMA RenameStep ==
    ASSUME LsInv, NEW o \in Ops, Rename(o)
    PROVE  LsInv' /\ Stable
<1>a. TypeOK /\ NamesInv /\ CallOK(o) /\ pc[o] = "rename" /\ pc[o] \notin Done
      /\ UNCHANGED <<data, req, fd, off, reader>>
  BY DEF LsInv, Rename, Done
<1>b. PICK s \in Paths, d \in Paths : s = req[o].src /\ d = req[o].dst
  BY <1>a, CallKinds, Zenon DEF CallOK
<1>1. CASE /\ Final(s) \in DOMAIN names
           /\ names' = Renamed(names, Final(s), Final(d)) /\ Goto(o, "ok")
  <2>2. /\ Entries(d, s)
        /\ s # d => Final(s) \notin DOMAIN names'
        /\ \A p \in Paths \ {s, d} : Entries(p, p)
        /\ DOMAIN names' \subseteq {Final(p) : p \in Paths} \cup (Paths \X Ops)
        /\ TempsKept(o)
    BY <1>a, <1>b, <1>1, RenameNames, Zenon
  <2>4. ASSUME NEW p \in Paths, Final(p) \in DOMAIN names'
        PROVE  \E f \in Files : names'[Final(p)] = f /\ Settled(f)
    <3>1. PICK q \in Paths : Entries(p, q)
      BY <2>2, <2>4
    <3> QED
      BY <1>a, <2>4, <3>1 DEF Entries, NamesInv, TypeOK, FilesOK
  <2> QED
    BY <1>a, <1>1, <2>2, <2>4, ReturnStep, Zenon
<1>2. CASE Goto(o, "open") /\ UNCHANGED names
  BY <1>a, <1>2, JumpStep
<1> QED
  BY <1>b, <1>1, <1>2 DEF Rename, CanRename

LEMMA RemoveStep ==
    ASSUME LsInv, NEW o \in Ops, RemoveAll(o) \/ RemoveSrc(o)
    PROVE  LsInv' /\ Stable
<1>a. /\ TypeOK /\ NamesInv /\ CallOK(o) /\ pc[o] \in {"remove", "removeAll"} /\ pc[o] \notin Done
      /\ UNCHANGED <<data, req, fd, off, reader>>
  BY DEF LsInv, RemoveAll, RemoveSrc, Done
<1>b. PICK w \in Paths : w = IF pc[o] = "remove" THEN req[o].src ELSE req[o].path
  BY <1>a, CallKinds, Zenon DEF CallOK
<1>1. CASE names' = Unlink(names, Final(w)) /\ Goto(o, "ok")
  <2>1. /\ Final(w) \notin DOMAIN names'
        /\ \A p \in Paths \ {w} : Entries(p, p)
        /\ DOMAIN names' \subseteq {Final(p) : p \in Paths} \cup (Paths \X Ops)
        /\ TempsKept(o)
    BY <1>a, <1>1, RemoveNames
  <2>2. ASSUME NEW p \in Paths, Final(p) \in DOMAIN names'
        PROVE  \E f \in Files : names'[Final(p)] = f /\ Settled(f)
    BY <1>a, <2>1, <2>2, Zenon DEF Entries, NamesInv, TypeOK, FilesOK
  <2> QED
    BY <1>a, <1>1, <2>1, <2>2, ReturnStep, Zenon
<1>2. CASE Goto(o, "error") /\ UNCHANGED names
  BY <1>a, <1>2, JumpStep
<1> QED
  BY <1>b, <1>1, <1>2, Zenon DEF RemoveAll, RemoveSrc

-----------------------------------------------------------------------------
(* Downloads.                                                              *)
LEMMA DownloadStep ==
    ASSUME LsInv, NEW r \in Readers, Download(r)
    PROVE  LsInv' /\ Stable
<1>a. TypeOK /\ Short /\ NamesInv /\ (\A o \in Ops : CallOK(o)) /\ (\A s \in Readers : ReadOK(s))
  BY DEF LsInv
<1>b. UNCHANGED <<names, data, req, pc, fd, off>>
  BY Zenon DEF Download, StartRead, ReadChunk, callVars
<1>c. reader \in [Readers -> ReaderType] /\ data \in [Files -> Seq(Chunk)]
  BY <1>a DEF TypeOK, FilesOK, ReaderType
<1>1. \A f : (Settled(f)' <=> Settled(f)) /\ (Copied(f)' <=> Copied(f))
  BY <1>b DEF Settled, Copied, Writing, Whole
<1>2. Stable
  BY <1>b, <1>1 DEF Stable
<1>3. NamesInv' /\ Short' /\ \A o \in Ops : CallOK(o)'
  BY <1>a, <1>b, <1>1, ZenonT(30) DEF NamesInv, Target, Tmp, Short, CallOK
<1>4. ASSUME reader' \in [Readers -> ReaderType], ReadOK(r)',
             \A s \in Readers \ {r} : reader'[s] = reader[s]
      PROVE  LsInv'
  <2>1. TypeOK'
    BY <1>a, <1>b, <1>4, Zenon DEF TypeOK, FilesOK, ReaderType
  <2>2. ASSUME NEW s \in Readers \ {r} PROVE ReadOK(s)'
    <3>1. reader'[s] = reader[s] /\ data' = data /\ ReadOK(s)
      BY <1>a, <1>b, <1>4, <2>2
    <3> QED
      BY <1>1, <3>1 DEF ReadOK, Whole
  <2> QED
    BY <1>3, <1>4, <2>1, <2>2 DEF LsInv
<1>5. CASE StartRead(r)
  <2>1. PICK p \in Paths :
           /\ Final(p) \in DOMAIN names
           /\ reader' = [reader EXCEPT ![r].state = "reading",
                                       ![r].file = names[Final(p)]]
    BY <1>5, Zenon DEF StartRead
  <2>2. PICK f \in Files : f = names[Final(p)] /\ Settled(f)
    BY <1>a, <2>1 DEF NamesInv, TypeOK, FilesOK
  <2>3. reader[r].got = << >>
    BY <1>a, <1>5 DEF StartRead, ReadOK
  <2>4. /\ reader' \in [Readers -> ReaderType]
        /\ \A s \in Readers \ {r} : reader'[s] = reader[s]
        /\ reader'[r].state = "reading" /\ reader'[r].file = f
        /\ reader'[r].got = << >>
    BY <1>c, <2>1, <2>2, <2>3, Zenon DEF ReaderType
  <2>5. Copied(f) \/ \E v \in AllValues, n \in 0 .. Chunks :
                        data[f] = Content(v) /\ << >> = Part(v, n)
    <3>1. \A v : Part(v, 0) = << >>
      BY DEF Part
    <3>2. 0 \in 0 .. Chunks
      BY ChunksAssumption
    <3>3. Copied(f) \/ \E v \in AllValues : data[f] = Content(v)
      BY <2>2, Zenon DEF Settled, Whole
    <3> QED
      BY <3>1, <3>2, <3>3
  <2>6. ReadOK(r)'
    BY <1>b, <1>1, <2>2, <2>4, <2>5 DEF ReadOK
  <2> QED
    BY <1>2, <1>4, <2>4, <2>6
<1>6. CASE ReadChunk(r)
  <2>1. PICK f \in Files : f = reader[r].file /\ Settled(f) /\ reader[r].state = "reading"
    BY <1>a, <1>6 DEF ReadChunk, ReadOK, Settled
  <2>2. CASE Copied(f)
    <3>1. PICK got \in Seq(Chunk), state \in {"reading", "eof"} :
             reader' = [reader EXCEPT ![r].got = got, ![r].state = state]
      <4>1. PICK rec \in ReaderType : rec = reader[r] /\ rec.file = f /\ rec.state = "reading"
        BY <1>c, <2>1
      <4>2. CASE Len(rec.got) + 1 <= Len(data[f])
        <5>1. PICK c \in Chunk, g \in Seq(Chunk) :
                 c = data[f][Len(rec.got) + 1] /\ g = rec.got
          BY <1>c, <4>1, <4>2 DEF ReaderType
        <5>2. PICK got \in Seq(Chunk) : got = Append(g, c)
          BY AppendTyped, Zenon
        <5>3. reader' = [reader EXCEPT ![r].got = got]
          BY <1>6, <4>1, <4>2, <5>1, <5>2 DEF ReadChunk
        <5>4. reader' = [reader EXCEPT ![r].got = got, ![r].state = "reading"]
          BY <1>c, <4>1, <5>3, Zenon DEF ReaderType
        <5> QED
          BY <5>4, Zenon
      <4>3. CASE ~(Len(rec.got) + 1 <= Len(data[f]))
        <5>1. reader' = [reader EXCEPT ![r].state = "eof"]
          BY <1>6, <4>1, <4>3 DEF ReadChunk
        <5>2. reader' = [reader EXCEPT ![r].got = rec.got, ![r].state = "eof"]
          BY <1>c, <4>1, <5>1, Zenon DEF ReaderType
        <5> QED
          BY <4>1, <5>2, Zenon DEF ReaderType
      <4> QED
        BY <4>2, <4>3, Zenon
    <3>2. /\ reader' \in [Readers -> ReaderType]
          /\ \A s \in Readers \ {r} : reader'[s] = reader[s]
          /\ reader'[r].state = state /\ reader'[r].file = f
      BY <1>c, <2>1, <3>1, Zenon DEF ReaderType
    <3>3. ReadOK(r)'
      BY <1>1, <2>1, <2>2, <3>1, <3>2 DEF ReadOK, Files
    <3> QED
      BY <1>2, <1>4, <3>2, <3>3
  <2>3. CASE ~Copied(f)
    <3>1. PICK v \in AllValues, n \in 0 .. Chunks :
             data[f] = Content(v) /\ reader[r].got = Part(v, n)
      BY <1>a, <2>1, <2>3 DEF ReadOK
    <3>2. /\ reader' \in [Readers -> ReaderType]
          /\ \A s \in Readers \ {r} : reader'[s] = reader[s]
          /\ reader'[r].file = f
          /\ \/ /\ reader'[r].state = "reading"
                /\ \E m \in 0 .. Chunks : reader'[r].got = Part(v, m)
             \/ reader'[r].state = "eof" /\ reader'[r].got = Content(v)
      BY <1>c, <1>6, <2>1, <3>1, ReadGrows DEF ReadOn
    <3>3. ReadOK(r)'
      BY <1>b, <1>1, <2>1, <3>1, <3>2, Zenon DEF ReadOK, Whole, Files
    <3> QED
      BY <1>2, <1>4, <3>2, <3>3, Zenon
  <2> QED
    BY <2>2, <2>3
<1> QED
  BY <1>5, <1>6 DEF Download

LEMMA LsStep ==
    ASSUME LsInv, [Next]_vars
    PROVE  LsInv' /\ Stable
<1>1. ASSUME NEW o \in Ops, Fails(o) \/ Crash(o) PROVE LsInv' /\ Stable
  BY <1>1, JumpStep DEF Fails, Crash
<1>2. CASE UNCHANGED vars
  <2>1. UNCHANGED <<names, data, req, pc, fd, off, reader>>
    BY <1>2 DEF vars, callVars
  <2>2. \A f : (Settled(f)' <=> Settled(f)) /\ (Copied(f)' <=> Copied(f))
    BY <2>1 DEF Settled, Copied, Writing, Whole
  <2>3. Stable
    BY <2>1, <2>2 DEF Stable
  <2>4. TypeOK' /\ Short' /\ NamesInv'
    BY <2>1, <2>2, Zenon DEF LsInv, TypeOK, FilesOK, Short, NamesInv, Target, Tmp
  <2>5. (\A o \in Ops : CallOK(o)') /\ (\A r \in Readers : ReadOK(r)')
    <3>1. ASSUME NEW o \in Ops PROVE CallOK(o)'
      BY <2>1, <2>2, Zenon DEF LsInv, CallOK
    <3>2. ASSUME NEW r \in Readers PROVE ReadOK(r)'
      BY <2>1, <2>2, Zenon DEF LsInv, ReadOK, Whole
    <3> QED
      BY <3>1, <3>2
  <2> QED
    BY <2>3, <2>4, <2>5 DEF LsInv
<1> QED
  BY <1>1, <1>2, BeginStep, CreateTempStep, WriteStep, PublishStep, RenameStep, OpenStep,
     CreateStep, CopyStep, RemoveStep, DownloadStep
  DEF Next, Call, AtomicWrite, Move

(* The invariant: what a path names, a move copies into and a download     *)
(* reads has a whole content, or some move has copied into it in place.    *)
THEOREM LsInvariant == Spec => []LsInv
  BY LsInit, LsStep, PTL DEF Spec

(* Types, on any devices: in particular no call copies past the length of  *)
(* a content.                                                              *)
THEOREM TypeCorrect == Spec => []TypeOK
<1>1. LsInv => TypeOK
  BY Zenon DEF LsInv
<1> QED
  BY <1>1, LsInvariant, PTL

(* A download that ends with anything but one whole content has read a     *)
(* file that a move copied into in place, whatever fails and whichever     *)
(* devices the paths are on.                                               *)
THEOREM OnlyCopiesAreSeen == Spec => []OnlyCopiesShow
<1>1. LsInv => OnlyCopiesShow
  BY DEF LsInv, ReadOK, Copied, Copying, OnlyCopiesShow
<1> QED
  BY <1>1, LsInvariant, PTL

-----------------------------------------------------------------------------
(* Moves.                                                                  *)

Sources == {m[1] : m \in MovePairs}

LEMMA SourceIs ==
    ASSUME NEW o \in Ops, req[o] \in Calls, req[o].op = "move"
    PROVE  /\ req[o].src \in Sources /\ req[o].src \in Paths /\ req[o].dst \in Paths
           /\ <<req[o].src, req[o].dst>> \in MovePairs
<1>1. /\ req[o].src \in Paths /\ req[o].dst \in Paths
      /\ <<req[o].src, req[o].dst>> \in MovePairs
  BY CallKinds, Zenon
<1> QED
  BY <1>1 DEF Sources

-----------------------------------------------------------------------------
(* One device, renames that fail only for a missing source, and moves out  *)
(* of paths to which no call brings a file.                                *)
OneDevice ==
    /\ "rename" \notin Faults
    /\ \A p, q \in Paths : Device(p) = Device(q)
    /\ \A m \in MovePairs : m[1] \notin WritePaths
    /\ \A m, n \in MovePairs : m[2] = n[1] => m[1] = m[2]

(* What LsInv lacks there: a move never comes to the copy, since when its  *)
(* rename fails the source is missing and stays so.                        *)
NoCopy(o) ==
    /\ pc[o] \notin {"create", "copy", "remove"}
    /\ pc[o] = "open" => Final(req[o].src) \notin DOMAIN names
    /\ pc[o] = "idle" \/ req[o].op = "move" => fd[o].out = None

NoCopies == \A o \in Ops : NoCopy(o)

(* No file comes to a source.                                              *)
NoneComes ==
    \A p \in Sources : Final(p) \in DOMAIN names' => Final(p) \in DOMAIN names

LEMMA NoCopiesKept ==
    ASSUME LsInv, NoCopies, NoneComes, NEW o \in Ops, NoCopy(o)',
           \A q \in Ops \ {o} : pc'[q] = pc[q] /\ req'[q] = req[q] /\ fd'[q] = fd[q]
    PROVE  NoCopies'
<1> SUFFICES ASSUME NEW q \in Ops \ {o} PROVE NoCopy(q)'
  BY DEF NoCopies
<1>1. NoCopy(q) /\ pc'[q] = pc[q] /\ req'[q] = req[q] /\ fd'[q] = fd[q]
  BY DEF NoCopies
<1>2. pc[q] = "open" => req[q].src \in Sources
  BY SourceIs, Zenon DEF LsInv, CallOK
<1>3. pc[q] = "open" => Final(req[q].src) \notin DOMAIN names'
  BY <1>1, <1>2 DEF NoCopy, NoneComes
<1> QED
  BY <1>1, <1>3 DEF NoCopy, Final

LEMMA NoCopiesStep ==
    ASSUME OneDevice, LsInv, NoCopies, [Next]_vars
    PROVE  NoCopies'
<1>a. TypeOK /\ NamesInv
  BY Zenon DEF LsInv
<1>b. DOMAIN pc = Ops /\ DOMAIN req = Ops
      /\ fd \in [Ops -> [in : Files \cup {None}, out : Files \cup {None}]]
  BY <1>a DEF TypeOK, FilesOK
<1>c. ASSUME NEW o \in Ops PROVE CallOK(o) /\ NoCopy(o)
  BY DEF LsInv, NoCopies
<1>1. ASSUME NEW o \in Ops, Begin(o) PROVE NoCopies'
  <2>1. PICK c \in Calls : req' = [req EXCEPT ![o] = c] /\ Goto(o, FirstCall(c))
    BY <1>1, Zenon DEF Begin
  <2>2. FirstCall(c) \in {"createTemp", "rename", "removeAll"}
    BY CallKinds, Zenon DEF FirstCall
  <2>3. pc[o] = "idle" /\ UNCHANGED <<names, fd>>
    BY <1>1, Zenon DEF Begin
  <2>4. NoCopy(o)'
    BY <1>b, <1>c, <2>1, <2>2, <2>3 DEF NoCopy, Goto
  <2> QED
    BY <1>b, <2>1, <2>3, <2>4, NoCopiesKept DEF NoneComes, Goto
<1>2. ASSUME NEW o \in Ops, CreateTemp(o) PROVE NoCopies'
  <2>1. /\ pc[o] = "createTemp" /\ req[o].op = "write" /\ UNCHANGED req
        /\ names' = Link(names, Tmp(o), o) /\ fd' = [fd EXCEPT ![o].out = o]
    BY <1>2, <1>c DEF CreateTemp, CallOK
  <2>2. Goto(o, "write")
    BY <1>2, CreateTempStep
  <2>3. NoneComes
    BY <2>1, NamesDiffer DEF NoneComes, Link, Tmp
  <2>4. NoCopy(o)'
    BY <1>b, <2>1, <2>2 DEF NoCopy, Goto
  <2> QED
    BY <1>b, <2>1, <2>2, <2>3, <2>4, NoCopiesKept DEF Goto
<1>3. ASSUME NEW o \in Ops, NEW label \in {"ok", "error", "crashed"},
             pc[o] \notin Done, Goto(o, label), UNCHANGED <<req, fd>>, NoneComes
      PROVE  NoCopies'
  <2>1. NoCopy(o)'
    BY <1>b, <1>c, <1>3 DEF NoCopy, Goto
  <2> QED
    BY <1>b, <1>3, <2>1, NoCopiesKept DEF Goto
<1>4. ASSUME NEW o \in Ops, RenameTemp(o, "write") PROVE NoCopies'
  <2>1. PICK w \in WritePaths : w \in Paths /\ w = req[o].path
    BY <1>4, PublishNames, CallKinds, Zenon
  <2>2. \A p \in Paths \ {w} : Entries(p, p)
    BY <1>4, <2>1, PublishNames
  <2>3. Sources \subseteq Paths /\ w \notin Sources
    BY PathAssumption, Zenon DEF OneDevice, Sources
  <2>4. NoneComes
    BY <2>2, <2>3 DEF NoneComes, Entries
  <2>5. pc[o] \notin Done /\ Goto(o, "ok") /\ UNCHANGED <<req, fd>>
    BY <1>4, Zenon DEF RenameTemp, Done
  <2> QED
    BY <1>3, <2>4, <2>5
<1>5. ASSUME NEW o \in Ops, Rename(o) PROVE NoCopies'
  <2>1. PICK s \in Paths, d \in Paths :
           /\ s = req[o].src /\ d = req[o].dst /\ req[o].op = "move"
           /\ s \in Sources /\ <<s, d>> \in MovePairs
    BY <1>5, <1>c, SourceIs, Zenon DEF Rename, CallOK
  <2>2. CASE /\ Final(s) \in DOMAIN names
             /\ names' = Renamed(names, Final(s), Final(d)) /\ Goto(o, "ok")
    <3>1. \A p \in Paths \ {s, d} : Entries(p, p)
      BY <1>5, <2>1, <2>2, RenameNames, Zenon DEF Rename
    <3>2. ASSUME NEW m \in MovePairs PROVE m[1] = d => s = d
      BY <2>1 DEF OneDevice
    <3>3. Sources \subseteq Paths
      BY PathAssumption DEF Sources
    <3>4. NoneComes
      BY <2>2, <3>1, <3>2, <3>3 DEF NoneComes, Entries, Sources
    <3>5. pc[o] \notin Done /\ UNCHANGED <<req, fd>>
      BY <1>5 DEF Rename, Done
    <3> QED
      BY <1>3, <2>2, <3>4, <3>5
  <2>3. CASE Final(s) \notin DOMAIN names /\ Goto(o, "open") /\ UNCHANGED names
    <3>1. pc[o] = "rename" /\ UNCHANGED <<req, fd>>
      BY <1>5, Zenon DEF Rename
    <3>2. NoCopy(o)'
      BY <1>b, <1>c, <2>1, <2>3, <3>1 DEF NoCopy, Goto
    <3> QED
      BY <1>b, <2>3, <3>1, <3>2, NoCopiesKept, Zenon DEF Goto, NoneComes
  <2> QED
    BY <1>5, <2>1, <2>2, <2>3 DEF Rename, CanRename, OneDevice
<1>6. ASSUME NEW o \in Ops, Open(o, "create") PROVE NoCopies'
  BY <1>3, <1>6, <1>c, Zenon DEF Open, Done, NoCopy, NoneComes
<1>7. ASSUME NEW o \in Ops, RemoveAll(o) PROVE NoCopies'
  <2>1. NoneComes
    BY <1>7 DEF RemoveAll, Unlink, NoneComes
  <2> QED
    BY <1>3, <1>7, <2>1 DEF RemoveAll, Done
<1>8. ASSUME NEW o \in Ops, Fails(o) \/ Crash(o) PROVE NoCopies'
  BY <1>3, <1>8 DEF Fails, Crash, NoneComes
<1>9. CASE UNCHANGED <<names, req, pc, fd>>
  BY <1>9 DEF NoCopies, NoCopy
<1>10. ASSUME NEW o \in Ops PROVE ~Create(o) /\ ~CopyChunk(o, "remove") /\ ~RemoveSrc(o)
  BY <1>c DEF NoCopy, Create, CopyChunk, RemoveSrc
<1>11. ASSUME NEW r \in Readers, Download(r) PROVE UNCHANGED <<names, req, pc, fd>>
  BY <1>11 DEF Download, StartRead, ReadChunk, callVars
<1>12. ASSUME NEW o \in Ops, WriteChunk(o) PROVE UNCHANGED <<names, req, pc, fd>>
  BY <1>12 DEF WriteChunk
<1> QED
  BY <1>1, <1>2, <1>4, <1>5, <1>6, <1>7, <1>8, <1>9, <1>10, <1>11, <1>12
  DEF Next, Call, AtomicWrite, Move, vars, callVars

LEMMA NoCopiesInit == Init => NoCopies
<1> SUFFICES ASSUME Init, NEW o \in Ops PROVE NoCopy(o)
  BY Zenon DEF NoCopies
<1>1. pc[o] = "idle" /\ fd[o].out = None
  BY DEF Init
<1> QED
  BY <1>1 DEF NoCopy

(* No file is then one that a move has copied into.                        *)
Uncopied == \A f \in Files : ~Copied(f)

LEMMA NoneCopied == LsInv /\ NoCopies => Uncopied
  BY FilesAssumption DEF Uncopied, NoCopies, NoCopy, Copied, Files

(* On one device a download of the local backend that reaches the end of   *)
(* its file has received one whole content, for any number of writes,      *)
(* moves, deletions and downloads, however they interleave, fail or stop.  *)
THEOREM DownloadsAreWhole ==
    ASSUME OneDevice
    PROVE  Spec => []ReadsWhole
<1>1. LsInv /\ NoCopies => ReadsWhole
  <2> SUFFICES ASSUME LsInv, NoCopies, NEW r \in Readers, reader[r].state = "eof"
               PROVE  Whole(reader[r].got)
    BY Zenon DEF ReadsWhole, Whole
  <2>1. reader[r].file \in Files /\ (Whole(reader[r].got) \/ Copied(reader[r].file))
    BY Zenon DEF LsInv, ReadOK
  <2> QED
    BY <2>1, NoneCopied DEF Uncopied
<1> QED
  BY <1>1, LsInit, LsStep, NoCopiesInit, NoCopiesStep, PTL DEF Spec

-----------------------------------------------------------------------------
(* The interface's promise.  The store that callers see, as a function of  *)
(* the entries and the files.                                              *)
ValueIn(chunks) ==
    IF Whole(chunks) THEN CHOOSE v \in AllValues : chunks = Content(v) ELSE Hole

Visible(n) == {p \in Paths : Final(p) \in DOMAIN n}

StoreOf(n, d) == [p \in Visible(n) |-> ValueIn(d[n[Final(p)]])]

LEMMA StoreIs == Store = StoreOf(names, data) /\ Store' = StoreOf(names', data')
  BY DEF Store, StoreOf, ValueOf, ValueIn, Visible

LEMMA ValueIs ==
    ASSUME NEW v \in AllValues
    PROVE  ValueIn(Content(v)) = v
<1>1. \A u : Content(u)[1] = u
  BY ChunksAssumption DEF Content
<1>2. \A u \in AllValues : Content(v) = Content(u) => u = v
  BY <1>1
<1>3. Whole(Content(v))
  BY DEF Whole
<1> QED
  BY <1>2, <1>3 DEF ValueIn

(* Steps that change no entry, and no file that is settled.                *)
LEMMA StoreKept ==
    ASSUME LsInv, Stable, Uncopied', UNCHANGED names
    PROVE  Store' = Store
<1>1. ASSUME NEW p \in Visible(names)
      PROVE  data'[names[Final(p)]] = data[names[Final(p)]]
  <2>1. PICK f \in Files : f = names[Final(p)] /\ Settled(f)
    BY Zenon DEF LsInv, NamesInv, Visible, TypeOK, FilesOK
  <2> QED
    BY <2>1, Zenon DEF Stable, Uncopied, Files
<1> QED
  BY <1>1, StoreIs DEF StoreOf

LEMMA Unseen ==
    ASSUME \A p \in Paths : Entries(p, p), UNCHANGED data
    PROVE  Store' = Store
<1>1. Visible(names') = Visible(names)
  BY ZenonT(30) DEF Entries, Visible
<1>2. \A p \in Visible(names) : names'[Final(p)] = names[Final(p)]
  BY <1>1, Zenon DEF Entries, Visible
<1> QED
  BY <1>1, <1>2, StoreIs DEF StoreOf

LEMMA StorePut ==
    ASSUME UNCHANGED data, NEW w \in Paths, NEW v \in AllValues,
           Final(w) \in DOMAIN names', data[names'[Final(w)]] = Content(v),
           \A p \in Paths \ {w} : Entries(p, p)
    PROVE  Store' = Abstract!With(Store, w, v)
<1>1. Visible(names') = Visible(names) \cup {w}
  BY DEF Entries, Visible
<1>2. \A p \in Visible(names') \ {w} : names'[Final(p)] = names[Final(p)]
  BY Zenon DEF Entries, Visible
<1>3. ValueIn(data[names'[Final(w)]]) = v
  BY ValueIs, Zenon
<1>4. StoreOf(names', data) =
         [p \in Visible(names) \cup {w} |-> IF p = w THEN v ELSE StoreOf(names, data)[p]]
  BY <1>1, <1>2, <1>3, Zenon DEF StoreOf
<1>5. DOMAIN Store = Visible(names)
  BY StoreIs DEF StoreOf
<1> QED
  BY <1>4, <1>5, StoreIs DEF Abstract!With

LEMMA StoreDrop ==
    ASSUME UNCHANGED data, NEW w \in Paths, Final(w) \notin DOMAIN names',
           \A p \in Paths \ {w} : Entries(p, p)
    PROVE  Store' = Abstract!Without(Store, w)
<1>1. Visible(names') = Visible(names) \ {w}
  BY DEF Entries, Visible
<1>2. \A p \in Visible(names') : names'[Final(p)] = names[Final(p)]
  BY <1>1, Zenon DEF Entries, Visible
<1>3. StoreOf(names', data) = [p \in Visible(names) \ {w} |-> StoreOf(names, data)[p]]
  BY <1>1, <1>2 DEF StoreOf
<1>5. DOMAIN Store = Visible(names)
  BY StoreIs DEF StoreOf
<1> QED
  BY <1>3, <1>5, StoreIs DEF Abstract!Without

LEMMA StoreMoved ==
    ASSUME UNCHANGED data, NEW s \in Paths, NEW d \in Paths, s # d,
           Final(s) \in DOMAIN names, Final(s) \notin DOMAIN names', Entries(d, s),
           \A p \in Paths \ {s, d} : Entries(p, p)
    PROVE  /\ s \in DOMAIN Store
           /\ Store' = Abstract!Without(Abstract!With(Store, d, Store[s]), s)
<1>1. Visible(names') = (Visible(names) \cup {d}) \ {s} /\ s \in Visible(names)
  BY Zenon DEF Entries, Visible
<1>2. \A p \in Visible(names') \ {d} : names'[Final(p)] = names[Final(p)]
  BY <1>1 DEF Entries, Visible
<1>3. names'[Final(d)] = names[Final(s)]
  BY Zenon DEF Entries
<1>4. StoreOf(names', data) =
         [p \in (Visible(names) \cup {d}) \ {s} |->
             IF p = d THEN StoreOf(names, data)[s] ELSE StoreOf(names, data)[p]]
  BY <1>1, <1>2, <1>3, Zenon DEF StoreOf
<1>5. DOMAIN Store = Visible(names)
  BY StoreIs DEF StoreOf
<1> QED
  BY <1>1, <1>4, <1>5, StoreIs, Zenon DEF Abstract!Without, Abstract!With

(* A call goes on: so does its phase, and no other.                        *)
LEMMA PhaseStep ==
    ASSUME TypeOK, NEW o \in Ops, NEW label, Goto(o, label)
    PROVE  Phase' = [Phase EXCEPT ![o] = PhaseOf(label)] /\ Phase[o] = PhaseOf(pc[o])
<1>1. pc' = [pc EXCEPT ![o] = label] /\ DOMAIN pc = Ops
  BY DEF Goto, TypeOK
<1> QED
  BY <1>1, Zenon DEF Phase

LEMMA PhasesAre ==
    /\ PhaseOf("idle") = "idle" /\ PhaseOf("ok") = "ok"
    /\ PhaseOf("error") = "error" /\ PhaseOf("crashed") = "error"
    /\ \A l \in {"createTemp", "write", "rename", "open", "removeAll"} : PhaseOf(l) = "begun"
  BY DEF PhaseOf

(* Each step maps to a step of the interface or to none.                   *)
LEMMA WriteMaps ==
    ASSUME LsInv, Uncopied', NEW o \in Ops, AtomicWrite(o)
    PROVE  Abstract!Commit(o) \/ UNCHANGED Abstract!vars
<1>a. TypeOK /\ CallOK(o)
  BY DEF LsInv
<1>1. CASE CreateTemp(o)
  <2>1. Goto(o, "write") /\ pc[o] = "createTemp" /\ req' = req /\ UNCHANGED data
    BY <1>1, CreateTempStep, Zenon DEF CreateTemp
  <2>2. \A p \in Paths : Entries(p, p)
    <3> SUFFICES ASSUME NEW p \in Paths PROVE Entries(p, p)
      OBVIOUS
    <3>1. Final(p) # Tmp(o)
      BY NamesDiffer DEF Tmp
    <3> QED
      BY <1>1, <3>1 DEF CreateTemp, Link, Entries
  <2>3. Store' = Store
    BY <2>1, <2>2, Unseen
  <2>4. Phase' = Phase
    BY <1>a, <2>1, PhasesAre DEF Goto, Phase, TypeOK
  <2> QED
    BY <2>1, <2>3, <2>4 DEF Abstract!vars
<1>2. CASE WriteChunk(o)
  <2>1. UNCHANGED <<names, pc, req>> /\ Stable
    BY <1>2, WriteStep, Zenon DEF WriteChunk
  <2> QED
    BY <2>1, StoreKept DEF Phase, Abstract!vars
<1>3. CASE RenameTemp(o, "write")
  <2>1. /\ pc[o] = "write" /\ Goto(o, "ok") /\ UNCHANGED <<data, req>>
    BY <1>3, Zenon DEF RenameTemp
  <2>2. PICK w \in Paths, v \in AllValues :
           /\ req[o].op = "write" /\ w = req[o].path /\ v = req[o].value
           /\ data[o] = Content(v)
           /\ Final(w) \in DOMAIN names' /\ names'[Final(w)] = o
           /\ \A p \in Paths \ {w} : Entries(p, p)
    <3>1. /\ req[o] \in Calls /\ req[o].op = "write" /\ data[o] = Content(req[o].value)
          /\ Final(req[o].path) \in DOMAIN names' /\ names'[Final(req[o].path)] = o
          /\ \A p \in Paths \ {req[o].path} : Entries(p, p)
      BY <1>3, PublishNames
    <3>2. req[o].path \in Paths /\ req[o].value \in AllValues
      BY <3>1, CallKinds, Zenon DEF AllValues
    <3> QED
      BY <3>1, <3>2, Zenon
  <2>3. Store' = Abstract!With(Store, w, v)
    BY <2>1, <2>2, StorePut, Zenon
  <2>4. Phase' = [Phase EXCEPT ![o] = "ok"] /\ Phase[o] = "begun"
    BY <1>a, <2>1, PhaseStep, PhasesAre
  <2> QED
    BY <2>1, <2>2, <2>3, <2>4, Zenon DEF Abstract!Commit, Abstract!Effect, Abstract!Write
<1> QED
  BY <1>1, <1>2, <1>3 DEF AtomicWrite

LEMMA RenameMaps ==
    ASSUME OneDevice, LsInv, NEW o \in Ops, Rename(o)
    PROVE  Abstract!Commit(o) \/ UNCHANGED Abstract!vars
<1>a. TypeOK /\ CallOK(o) /\ pc[o] = "rename" /\ UNCHANGED <<data, req>>
  BY DEF LsInv, Rename
<1>b. PICK s \in Paths, d \in Paths : req[o].op = "move" /\ s = req[o].src /\ d = req[o].dst
  BY <1>a, CallKinds, Zenon DEF CallOK
<1>1. CASE CanRename(s, d)
  <2>1. /\ Final(s) \in DOMAIN names
        /\ names' = Renamed(names, Final(s), Final(d))
        /\ Goto(o, "ok")
    BY <1>1, <1>b, Zenon DEF Rename, CanRename, OneDevice
  <2>2. /\ Entries(d, s)
        /\ s # d => Final(s) \notin DOMAIN names'
        /\ \A p \in Paths \ {s, d} : Entries(p, p)
    BY <1>a, <1>b, <2>1, RenameNames
  <2>3. /\ s \in DOMAIN Store
        /\ Store' = IF s = d THEN Store
                    ELSE Abstract!Without(Abstract!With(Store, d, Store[s]), s)
    <3>1. CASE s = d
      <4>1. Store' = Store
        BY <1>a, <2>2, <3>1, Unseen
      <4>2. s \in DOMAIN Store
        BY <2>1, Zenon DEF Store
      <4> QED
        BY <3>1, <4>1, <4>2
    <3>2. CASE s # d
      BY <1>a, <2>1, <2>2, <3>2, StoreMoved, Zenon
    <3> QED
      BY <3>1, <3>2
  <2>4. Phase' = [Phase EXCEPT ![o] = "ok"] /\ Phase[o] = "begun"
    BY <1>a, <2>1, PhaseStep, PhasesAre
  <2>5. Abstract!Move(o)
    BY <1>b, <2>3, <2>4 DEF Abstract!Move
  <2> QED
    BY <1>a, <2>4, <2>5, Zenon DEF Abstract!Commit, Abstract!Effect
<1>2. CASE ~CanRename(s, d)
  <2>1. Goto(o, "open") /\ UNCHANGED names
    BY <1>b, <1>2 DEF Rename
  <2>2. Phase' = Phase
    BY <1>a, <2>1, PhasesAre DEF Goto, Phase, TypeOK
  <2>3. Store' = Store
    BY <1>a, <2>1, StoreIs
  <2> QED
    BY <1>a, <2>2, <2>3, Zenon DEF Abstract!vars
<1> QED
  BY <1>1, <1>2, Zenon

LEMMA RemoveMaps ==
    ASSUME LsInv, NEW o \in Ops, RemoveAll(o)
    PROVE  Abstract!Commit(o)
<1>a. /\ TypeOK /\ CallOK(o) /\ pc[o] = "removeAll" /\ Goto(o, "ok")
      /\ names' = Unlink(names, Final(req[o].path)) /\ UNCHANGED <<data, req>>
  BY Zenon DEF LsInv, RemoveAll
<1>b. PICK w \in Paths : req[o].op = "delete" /\ w = req[o].path
  BY <1>a, CallKinds, Zenon DEF CallOK
<1>1. Store' = Abstract!Without(Store, w)
  BY <1>a, <1>b, RemoveNames, StoreDrop, ZenonT(30)
<1>2. Phase' = [Phase EXCEPT ![o] = "ok"] /\ Phase[o] = "begun"
  BY <1>a, PhaseStep, PhasesAre
<1> QED
  BY <1>a, <1>b, <1>1, <1>2, Zenon DEF Abstract!Commit, Abstract!Effect, Abstract!Delete

LEMMA StopMaps ==
    ASSUME LsInv, NoCopies, NEW o \in Ops, Open(o, "create") \/ Fails(o) \/ Crash(o)
    PROVE  Abstract!Fail(o)
<1>1. /\ pc[o] \notin Done
      /\ \E label \in {"error", "crashed"} : Goto(o, label)
      /\ UNCHANGED <<names, data, req>>
  BY Zenon DEF NoCopies, NoCopy, Open, Fails, Crash, Done
<1>2. TypeOK /\ pc[o] \in {"createTemp", "write", "rename", "open", "removeAll"}
  BY <1>1 DEF LsInv, TypeOK, NoCopies, NoCopy
<1>3. Phase' = [Phase EXCEPT ![o] = "error"] /\ Phase[o] = "begun"
  BY <1>1, <1>2, PhaseStep, PhasesAre
<1>4. Store' = Store
  BY <1>1, StoreIs
<1> QED
  BY <1>1, <1>3, <1>4 DEF Abstract!Fail

LEMMA StepMaps ==
    ASSUME OneDevice, LsInv, NoCopies, Uncopied', [Next]_vars
    PROVE  [Abstract!Next]_(Abstract!vars)
<1>a. TypeOK
  BY DEF LsInv
<1>1. ASSUME NEW o \in Ops, Begin(o) PROVE Abstract!Begin(o)
  <2>1. PICK c \in Calls : req' = [req EXCEPT ![o] = c] /\ Goto(o, FirstCall(c))
    BY <1>1, Zenon DEF Begin
  <2>2. PhaseOf(FirstCall(c)) = "begun" /\ Phase[o] = "idle"
    BY <1>1, CallKinds, PhasesAre, Zenon DEF Begin, FirstCall, Phase
  <2>3. Phase' = [Phase EXCEPT ![o] = "begun"]
    BY <1>a, <2>1, <2>2, PhaseStep
  <2>4. Store' = Store
    BY <1>1, StoreIs DEF Begin
  <2> QED
    BY <2>1, <2>2, <2>3, <2>4, Zenon DEF Abstract!Begin
<1>2. ASSUME NEW o \in Ops, Call(o), ~Begin(o)
      PROVE  Abstract!Commit(o) \/ Abstract!Fail(o) \/ UNCHANGED Abstract!vars
  <2>1. pc[o] \notin {"create", "copy", "remove"}
    BY DEF NoCopies, NoCopy
  <2>2. ~Create(o) /\ ~CopyChunk(o, "remove") /\ ~RemoveSrc(o)
    BY <2>1 DEF Create, CopyChunk, RemoveSrc
  <2> QED
    BY <1>2, <2>2, WriteMaps, RenameMaps, RemoveMaps, StopMaps DEF Call, Move
<1>3. ASSUME NEW r \in Readers, Download(r) PROVE UNCHANGED Abstract!vars
  <2>1. UNCHANGED <<names, data, req, pc>>
    BY <1>3 DEF Download, StartRead, ReadChunk, callVars
  <2> QED
    BY <2>1, StoreIs DEF Phase, Abstract!vars
<1>4. CASE UNCHANGED vars
  BY <1>4, StoreIs DEF vars, callVars, Abstract!vars, Phase
<1> QED
  BY <1>1, <1>2, <1>3, <1>4 DEF Next, Abstract!Next

(* On one device the local backend implements the interface with moves in  *)
(* one step: its writes, moves and deletions, any number of them at once,  *)
(* are each one whole effect on what paths name, whichever system call     *)
(* fails or is the last before a crash.                                    *)
THEOREM PromiseKept ==
    ASSUME OneDevice
    PROVE  Spec => AtomicCalls
<1>1. Init => Abstract!Init
  <2> SUFFICES ASSUME Init PROVE Abstract!Init
    OBVIOUS
  <2>1. Visible(names) = DOMAIN InitialFiles
    BY NamesDiffer, PathAssumption, Zenon DEF Init, Visible
  <2>2. \A p \in DOMAIN InitialFiles : names[Final(p)] = p
    BY DEF Init, Final
  <2>3. \A p \in DOMAIN InitialFiles : data[p] = Content(InitialFiles[p])
    BY FilesAssumption DEF Init, Files
  <2>4. \A p \in DOMAIN InitialFiles : ValueIn(data[names[Final(p)]]) = InitialFiles[p]
    BY <2>2, <2>3, ValueIs DEF AllValues
  <2>5. Store = InitialFiles
    BY <2>1, <2>4, StoreIs, FilesAssumption, Zenon DEF StoreOf
  <2>6. Phase = [o \in Ops |-> "idle"]
    BY PhasesAre DEF Init, Phase
  <2> QED
    BY <2>5, <2>6 DEF Init, Abstract!Init
<1>2. LsInv /\ NoCopies /\ Uncopied' /\ [Next]_vars => [Abstract!Next]_(Abstract!vars)
  BY StepMaps
<1> QED
  BY <1>1, <1>2, LsInit, LsStep, NoCopiesInit, NoCopiesStep, NoneCopied, PTL
  DEF Spec, AtomicCalls, Abstract!Spec

-----------------------------------------------------------------------------
(* Moves between devices.  Every move is of the content v, out of a path   *)
(* to which no call brings a file and to another device, so that its       *)
(* rename fails and it copies.                                             *)
MovesOf(v) ==
    /\ v \in AllValues
    /\ \A m \in MovePairs :
          /\ Device(m[1]) # Device(m[2])
          /\ m[1] \notin WritePaths
          /\ m[1] \in DOMAIN InitialFiles => InitialFiles[m[1]] = v
    /\ \A m, n \in MovePairs : m[2] # n[1]

SourceFiles == Sources \cap DOMAIN InitialFiles

(* The content v is owed to a file when every chunk of it is there or is   *)
(* still to be written by a move that is copying into the file.  A file    *)
(* may be emptied under a move, but then by one that owes it every chunk.  *)
Owed(f, v) ==
    \A i \in 1 .. Chunks :
       \/ i <= Len(data[f]) /\ data[f][i] = v
       \/ \E o \in Ops : pc[o] = "copy" /\ fd[o].out = f /\ off[o] < i

Good(f, v) == Whole(data[f]) \/ Owed(f, v)

(* A move reads a source as it was at the start, and copies from its first *)
(* chunk on.                                                               *)
CopyOK(o, v) ==
    /\ pc[o] \in {"create", "copy"} => fd[o].in \in SourceFiles
    /\ pc[o] = "copy" => fd[o].out \notin SourceFiles /\ Owed(fd[o].out, v)
    /\ pc[o] \in {"rename", "open", "create"} => off[o] = 0

ConvInv(v) ==
    /\ \A p \in Sources : Final(p) \in DOMAIN names => names[Final(p)] = p /\ p \in SourceFiles
    /\ \A p \in Paths \ Sources :
          Final(p) \in DOMAIN names =>
             names[Final(p)] \notin SourceFiles /\ Good(names[Final(p)], v)
    /\ \A f \in SourceFiles : data[f] = Content(v)
    /\ \A o \in Ops : CopyOK(o, v)

LEMMA ConvInit ==
    ASSUME NEW v, MovesOf(v), Init
    PROVE  ConvInv(v)
<1>1. \A p : Final(p) \in DOMAIN names => p \in DOMAIN InitialFiles /\ names[Final(p)] = p
  <2> SUFFICES ASSUME NEW p, Final(p) \in DOMAIN names
               PROVE  p \in DOMAIN InitialFiles /\ names[Final(p)] = p
    OBVIOUS
  <2>1. PICK q \in DOMAIN InitialFiles : Final(p) = Final(q)
    BY DEF Init
  <2>2. p = q
    BY <2>1, NamesDiffer, Zenon
  <2> QED
    BY <2>1, <2>2, Zenon DEF Init, Final
<1>2. \A f \in DOMAIN InitialFiles : f \in Files /\ data[f] = Content(InitialFiles[f])
  BY FilesAssumption DEF Init, Files
<1>3. \A f \in SourceFiles : data[f] = Content(v)
  BY <1>2, ZenonT(30) DEF SourceFiles, Sources, MovesOf
<1>4. \A f \in DOMAIN InitialFiles : Good(f, v)
  BY <1>2, Zenon DEF Good, Whole, AllValues
<1>5. \A o \in Ops : CopyOK(o, v)
  BY Zenon DEF Init, CopyOK
<1> QED
  BY <1>1, <1>3, <1>4, <1>5, Zenon DEF ConvInv, SourceFiles

(* What is owed to a file stays so, and what is good stays good.           *)
Kept(v) ==
    \A f \in Files :
       ~Writing(f) => (Owed(f, v) => Owed(f, v)') /\ (Good(f, v) => Good(f, v)')

LEMMA KeptBy ==
    ASSUME NEW v, NEW o \in Ops, Others(o), pc[o] # "copy",
           \A f \in Files : data'[f] = data[f] \/ Writing(f)
    PROVE  Kept(v)
<1> SUFFICES ASSUME NEW f \in Files, ~Writing(f)
             PROVE  (Owed(f, v) => Owed(f, v)') /\ (Good(f, v) => Good(f, v)')
  BY DEF Kept
<1>1. data'[f] = data[f]
  OBVIOUS
<1>2. ASSUME Owed(f, v) PROVE Owed(f, v)'
  BY <1>1, <1>2 DEF Owed, Others
<1>3. Whole(data[f]) => Whole(data[f])'
  BY <1>1 DEF Whole
<1> QED
  BY <1>2, <1>3, Zenon DEF Good

(* A step leaves the sources alone, and any other path with its entry or a  *)
(* good one.                                                               *)
EntriesKept(v) ==
    /\ \A f \in SourceFiles : data'[f] = data[f]
    /\ \A p \in Sources : Final(p) \in DOMAIN names' => Entries(p, p)
    /\ \A p \in Paths \ Sources :
          Final(p) \in DOMAIN names' =>
             Entries(p, p) \/ \E f \in Files :
                                 names'[Final(p)] = f /\ f \notin SourceFiles /\ Good(f, v)'

LEMMA ConvAssembled ==
    ASSUME NEW v, LsInv, ConvInv(v), Kept(v), EntriesKept(v),
           NEW o \in Ops, Others(o), CopyOK(o, v)'
    PROVE  ConvInv(v)'
<1>1. ASSUME NEW p \in Sources, Final(p) \in DOMAIN names'
      PROVE  names'[Final(p)] = p /\ p \in SourceFiles
  BY <1>1, Zenon DEF ConvInv, Entries, EntriesKept
<1>2. ASSUME NEW p \in Paths \ Sources, Final(p) \in DOMAIN names'
      PROVE  \E f \in Files : names'[Final(p)] = f /\ f \notin SourceFiles /\ Good(f, v)'
  <2>1. CASE Entries(p, p)
    <3>1. PICK f \in Files : f = names[Final(p)] /\ f = names'[Final(p)] /\ Settled(f)
      BY <1>2, <2>1, Zenon DEF Entries, LsInv, NamesInv, TypeOK, FilesOK
    <3>2. f \notin SourceFiles /\ Good(f, v)
      BY <1>2, <2>1, <3>1, Zenon DEF Entries, ConvInv
    <3>3. Good(f, v)'
      BY <3>1, <3>2, Zenon DEF Kept, Settled
    <3> QED
      BY <3>1, <3>2, <3>3, Zenon
  <2> QED
    BY <1>2, <2>1 DEF EntriesKept
<1>3. ASSUME NEW q \in Ops \ {o} PROVE CopyOK(q, v)'
  <2>1. /\ CopyOK(q, v) /\ CallOK(q)
        /\ pc'[q] = pc[q] /\ fd'[q] = fd[q] /\ off'[q] = off[q]
    BY Zenon DEF ConvInv, LsInv, Others
  <2>2. ASSUME pc[q] = "copy" PROVE fd[q].out \notin SourceFiles /\ Owed(fd[q].out, v)'
    <3>1. PICK f \in Files : f = fd[q].out /\ f = fd'[q].out /\ ~Writing(f)
      BY <2>1, <2>2, Zenon DEF CallOK, Settled
    <3>2. f \notin SourceFiles /\ Owed(f, v)
      BY <2>1, <2>2, <3>1, Zenon DEF CopyOK
    <3>3. Owed(f, v)'
      BY <3>1, <3>2, Zenon DEF Kept
    <3> QED
      BY <3>1, <3>2, <3>3, Zenon
  <2> QED
    BY <2>1, <2>2, Zenon DEF CopyOK
<1>4. \A f \in SourceFiles : data'[f] = Content(v)
  BY Zenon DEF ConvInv, EntriesKept
<1>5. ASSUME NEW p \in Paths \ Sources, Final(p) \in DOMAIN names'
      PROVE  names'[Final(p)] \notin SourceFiles /\ Good(names[Final(p)], v)'
  <2>1. PICK f \in Files : names'[Final(p)] = f /\ f \notin SourceFiles /\ Good(f, v)'
    BY <1>2, <1>5
  <2> QED
    BY <2>1 DEF Final
<1> QED
  BY <1>1, <1>3, <1>4, <1>5, Zenon DEF ConvInv, Final

(* A step that writes at most to a file of a write, and changes the entry  *)
(* of no path.                                                             *)
LEMMA ConvQuiet ==
    ASSUME NEW v, LsInv, ConvInv(v), NEW o \in Ops, Others(o), pc[o] # "copy", CopyOK(o, v)',
           \A f \in Files : data'[f] = data[f] \/ Writing(f),
           \A p \in Paths : Final(p) \in DOMAIN names' => Entries(p, p)
    PROVE  ConvInv(v)'
<1>1. Kept(v)
  BY KeptBy, Zenon
<1>2. \A f \in SourceFiles : f \in Files /\ ~Writing(f)
  BY FilesAssumption DEF SourceFiles, Files, Writing
<1>3. Sources \subseteq Paths
  BY PathAssumption, Zenon DEF Sources
<1>4. EntriesKept(v)
  BY <1>2, <1>3 DEF EntriesKept
<1> QED
  BY <1>1, <1>4, ConvAssembled, Zenon

(* The copy of a chunk: it is one of v, and the others are owed as before. *)
LEMMA ConvCopy ==
    ASSUME NEW v, LsInv, ConvInv(v), NEW o \in Ops, CopyChunk(o, "remove")
    PROVE  ConvInv(v)'
<1>a. TypeOK /\ Short /\ CallOK(o) /\ CopyOK(o, v) /\ pc[o] = "copy"
      /\ UNCHANGED <<names, req, fd, reader>>
  BY Zenon DEF LsInv, ConvInv, CopyChunk
<1>b. /\ DOMAIN pc = Ops /\ off \in [Ops -> 0 .. Chunks] /\ Chunks \in Nat
      /\ data \in [Files -> Seq(Chunk)]
  BY <1>a, ChunksAssumption, Zenon DEF TypeOK, FilesOK
<1>c. PICK f \in Files : f = fd[o].out /\ f \notin SourceFiles /\ Owed(f, v) /\ ~Writing(f)
  BY <1>a, Zenon DEF CallOK, CopyOK, Settled
<1>d. PICK in \in Files : in = fd[o].in /\ in \in SourceFiles /\ data[in] = Content(v)
  BY <1>a, Zenon DEF CallOK, CopyOK, ConvInv
<1>e. PICK i \in Nat : i = off[o] + 1 /\ i > 0
  BY <1>b
<1>f. Len(data[in]) = Chunks /\ \A j \in 1 .. Chunks : data[in][j] = v
  BY <1>d, ContentIs, Zenon
<1>1. CASE i <= Chunks
  <2>1. /\ data' = [data EXCEPT ![f] = WriteAt(data[f], i, v)]
        /\ off' = [off EXCEPT ![o] = i] /\ pc' = pc
    <3>1. i <= Len(data[in]) /\ data[in][i] = v
      <4>1. i \in 1 .. Chunks
        BY <1>1, <1>e, ChunksAssumption
      <4> QED
        BY <1>1, <1>f, <4>1, Zenon
    <3> QED
      BY <1>c, <1>d, <1>e, <3>1 DEF CopyChunk
  <2>2. PICK s, c \in Seq(Chunk) :
           s = data[f] /\ c = data'[f] /\ i <= Len(c) /\ c[i] = v /\ Len(s) <= Len(c)
           /\ \A j \in 1 .. Len(s) : j # i => c[j] = s[j]
    <3>1. v \in Chunk
      <4>1. PICK t \in Seq(Chunk) : t = data[in]
        BY <1>b
      <4>2. i \in 1 .. Len(t) /\ t[i] = v
        BY <1>1, <1>e, <1>f, <4>1
      <4> QED
        BY <4>2
    <3>2. PICK s \in Seq(Chunk) : s = data[f]
      BY <1>b
    <3>3. PICK c : c = WriteAt(s, i, v) /\ c = data'[f]
      BY <1>b, <2>1, <3>2, Zenon
    <3>4. /\ c \in Seq(Chunk) /\ Len(c) = IF i > Len(s) THEN i ELSE Len(s)
          /\ c[i] = v /\ \A j \in 1 .. Len(s) : j # i => c[j] = s[j]
      <4>1. i \in Nat \ {0}
        BY <1>e
      <4>2. /\ WriteAt(s, i, v) \in Seq(Chunk)
            /\ Len(WriteAt(s, i, v)) = IF i > Len(s) THEN i ELSE Len(s)
            /\ WriteAt(s, i, v)[i] = v
            /\ \A j \in 1 .. Len(s) : j # i => WriteAt(s, i, v)[j] = s[j]
        BY <3>1, <4>1, WriteAtIs, Zenon
      <4> QED
        BY <3>3, <4>2
    <3> QED
      BY <1>e, <3>2, <3>3, <3>4
  <2>3. ASSUME NEW g \in Files, Owed(g, v) PROVE Owed(g, v)'
    <3> SUFFICES ASSUME NEW j \in 1 .. Chunks
                 PROVE  \/ j <= Len(data'[g]) /\ data'[g][j] = v
                        \/ \E q \in Ops : pc'[q] = "copy" /\ fd'[q].out = g /\ off'[q] < j
      BY DEF Owed
    <3>1. CASE j <= Len(data[g]) /\ data[g][j] = v
      <4>1. CASE g = f
        BY <1>b, <2>2, <3>1, <4>1
      <4>2. CASE g # f
        BY <1>b, <2>1, <3>1, <4>2, Zenon
      <4> QED
        BY <4>1, <4>2, Zenon
    <3>2. CASE \E q \in Ops : pc[q] = "copy" /\ fd[q].out = g /\ off[q] < j
      <4>1. PICK q \in Ops : pc[q] = "copy" /\ fd[q].out = g /\ off[q] < j
        BY <3>2
      <4>2. CASE q # o
        <5>1. pc'[q] = pc[q] /\ fd'[q] = fd[q] /\ off'[q] = off[q]
          BY <1>a, <1>b, <2>1, <4>2, ZenonT(30)
        <5> QED
          BY <4>1, <5>1, Zenon
      <4>3. CASE q = o /\ j = i
        BY <1>c, <2>2, <4>1, <4>3, ZenonT(30)
      <4>4. CASE q = o /\ j # i
        <5>1. off'[o] = i /\ i < j
          BY <1>b, <1>e, <2>1, <4>1, <4>4
        <5> QED
          BY <1>a, <2>1, <4>1, <4>4, <5>1, Zenon
      <4> QED
        BY <4>2, <4>3, <4>4
    <3> QED
      BY <2>3, <3>1, <3>2, Zenon DEF Owed
  <2>4. Kept(v)
    <3> SUFFICES ASSUME NEW g \in Files, Good(g, v) PROVE Good(g, v)'
      BY <2>3, Zenon DEF Kept
    <3>1. CASE g = f
      BY <1>c, <2>3, <3>1, Zenon DEF Good
    <3>2. CASE g # f
      <4>1. data'[g] = data[g]
        BY <1>b, <2>1, <3>2
      <4> QED
        BY <2>3, <4>1 DEF Good, Whole
    <3> QED
      BY <3>1, <3>2
  <2>5. CopyOK(o, v)'
    <3>1. Owed(f, v)'
      BY <1>c, <2>3
    <3> QED
      BY <1>a, <1>c, <2>1, <3>1, Zenon DEF CopyOK
  <2>6. Others(o) /\ \A g \in SourceFiles : data'[g] = data[g]
    BY <1>a, <1>b, <1>c, <2>1, Zenon DEF Others, SourceFiles, Files
  <2>7. \A p \in Paths : Entries(p, p)
    BY <1>a DEF Entries
  <2>8. Sources \subseteq Paths
    BY PathAssumption DEF Sources
  <2>9. EntriesKept(v)
    BY <2>6, <2>7, <2>8, Zenon DEF EntriesKept
  <2> QED
    BY <2>4, <2>5, <2>6, <2>9, ConvAssembled, Zenon
<1>2. CASE ~(i <= Chunks)
  <2>1. Goto(o, "remove") /\ UNCHANGED <<data, off>>
    BY <1>2, <1>d, <1>e, <1>f, Zenon DEF CopyChunk
  <2>2. off[o] = Chunks /\ pc'[o] = "remove" /\ Others(o)
    <3>1. off[o] = Chunks
      BY <1>2, <1>b, <1>e
    <3>2. pc'[o] = "remove" /\ Others(o)
      BY <1>a, <1>b, <2>1 DEF Goto, Others
    <3> QED
      BY <3>1, <3>2
  <2>3. ASSUME NEW g \in Files, Owed(g, v) PROVE Owed(g, v)'
    <3> SUFFICES ASSUME NEW j \in 1 .. Chunks
                 PROVE  \/ j <= Len(data'[g]) /\ data'[g][j] = v
                        \/ \E q \in Ops : pc'[q] = "copy" /\ fd'[q].out = g /\ off'[q] < j
      BY Zenon DEF Owed
    <3>1. CASE j <= Len(data[g]) /\ data[g][j] = v
      BY <2>1, <3>1, Zenon
    <3>2. CASE \E q \in Ops : pc[q] = "copy" /\ fd[q].out = g /\ off[q] < j
      <4>1. PICK q \in Ops : pc[q] = "copy" /\ fd[q].out = g /\ off[q] < j
        BY <3>2, Zenon
      <4>2. q # o
        BY <1>b, <2>2, <4>1
      <4> QED
        BY <2>2, <4>1, <4>2 DEF Others
    <3> QED
      BY <2>3, <3>1, <3>2, Zenon DEF Owed
  <2>4. Kept(v)
    BY <2>1, <2>3 DEF Kept, Good, Whole
  <2>5. CopyOK(o, v)'
    BY <2>2, Zenon DEF CopyOK
  <2>6. \A p \in Paths : Entries(p, p)
    BY <1>a DEF Entries
  <2>7. Sources \subseteq Paths
    BY PathAssumption DEF Sources
  <2>8. EntriesKept(v)
    BY <2>1, <2>6, <2>7, Zenon DEF EntriesKept
  <2> QED
    BY <2>2, <2>4, <2>5, <2>8, ConvAssembled, Zenon
<1> QED
  BY <1>1, <1>2

(* The destination is emptied by a move that owes it the whole content.    *)
LEMMA ConvCreate ==
    ASSUME NEW v, MovesOf(v), LsInv, ConvInv(v), NEW o \in Ops, Create(o)
    PROVE  ConvInv(v)'
<1>a. TypeOK /\ CallOK(o) /\ CopyOK(o, v)
  BY DEF LsInv, ConvInv
<1>b. PICK f \in Files, d \in Paths :
         /\ d = req[o].dst /\ req[o] \in Calls /\ req[o].op = "move" /\ ~Writing(f)
         /\ f = IF Final(d) \in DOMAIN names THEN names[Final(d)] ELSE o
         /\ DOMAIN names' = DOMAIN names \cup {Final(d)} /\ names'[Final(d)] = f
         /\ \A x \in DOMAIN names : names'[x] = names[x]
         /\ data' = [data EXCEPT ![f] = << >>]
         /\ fd' \in [Ops -> [in : Files \cup {None}, out : Files \cup {None}]]
         /\ fd'[o].in = fd[o].in /\ fd'[o].out = f /\ \A q \in Ops \ {o} : fd'[q] = fd[q]
         /\ pc[o] = "create" /\ Goto(o, "copy")
         /\ UNCHANGED <<req, off, reader>>
  BY CreateIs, ZenonT(30)
<1>c. DOMAIN pc = Ops /\ DOMAIN data = Files /\ off[o] = 0
  BY <1>a, <1>b, Zenon DEF TypeOK, FilesOK, CopyOK
<1>1. d \notin Sources
  <2>1. <<req[o].src, d>> \in MovePairs
    BY <1>b, SourceIs, Zenon
  <2> QED
    BY <2>1 DEF MovesOf, Sources
<1>2. f \notin SourceFiles
  BY <1>b, <1>1, FilesAssumption DEF ConvInv, SourceFiles
<1>3. Others(o) /\ pc'[o] = "copy" /\ off'[o] = 0
  BY <1>b, <1>c, Zenon DEF Others, Goto
<1>4. Owed(f, v)'
  <2>1. \A i \in 1 .. Chunks : off'[o] < i
    <3>1. \A i \in 1 .. Chunks : 0 < i
      BY ChunksAssumption
    <3> QED
      BY <1>3, <3>1, Zenon
  <2> QED
    BY <1>b, <1>3, <2>1, Zenon DEF Owed
<1>5. Kept(v)
  <2> SUFFICES ASSUME NEW g \in Files, g # f
               PROVE  (Owed(g, v) => Owed(g, v)') /\ (Good(g, v) => Good(g, v)')
    BY <1>4, Zenon DEF Kept, Good
  <2>1. data'[g] = data[g]
    BY <1>b, <1>c, Zenon
  <2>2. ASSUME Owed(g, v) PROVE Owed(g, v)'
    <3>1. \A q \in Ops : pc[q] = "copy" =>
             q # o /\ pc'[q] = pc[q] /\ fd'[q] = fd[q] /\ off'[q] = off[q]
      BY <1>b, <1>3, Zenon DEF Others
    <3> QED
      BY <2>1, <2>2, <3>1, Zenon DEF Owed
  <2> QED
    BY <2>1, <2>2, ZenonT(30) DEF Good, Whole
<1>6. CopyOK(o, v)'
  BY <1>a, <1>b, <1>2, <1>3, <1>4, Zenon DEF CopyOK
<1>7. \A g \in SourceFiles : data'[g] = data[g]
  BY <1>b, <1>c, <1>2, Zenon DEF SourceFiles, Files
<1>8. \A p \in Paths \ {d} : Entries(p, p)
  <2> SUFFICES ASSUME NEW p \in Paths \ {d} PROVE Entries(p, p)
    OBVIOUS
  <2>1. Final(p) # Final(d)
    BY NamesDiffer
  <2> QED
    BY <1>b, <2>1, Zenon DEF Entries
<1>9. \A p \in Sources : Final(p) \in DOMAIN names' => Entries(p, p)
  BY <1>1, <1>8, PathAssumption DEF Sources
<1>10. \A p \in Paths \ Sources :
          Final(p) \in DOMAIN names' =>
             Entries(p, p) \/ \E g \in Files :
                                 names'[Final(p)] = g /\ g \notin SourceFiles /\ Good(g, v)'
  BY <1>b, <1>2, <1>4, <1>8, Zenon DEF Good
<1>11. EntriesKept(v)
  BY <1>7, <1>9, <1>10, Zenon DEF EntriesKept
<1> QED
  BY <1>3, <1>5, <1>6, <1>11, ConvAssembled, ZenonT(30)

LEMMA ConvStep ==
    ASSUME NEW v, MovesOf(v), Faults = {}, LsInv, ConvInv(v), [Next]_vars
    PROVE  ConvInv(v)'
<1>a. TypeOK /\ NamesInv
  BY DEF LsInv
<1>b. DOMAIN pc = Ops /\ DOMAIN req = Ops /\ DOMAIN off = Ops /\ DOMAIN data = Files
      /\ fd \in [Ops -> [in : Files \cup {None}, out : Files \cup {None}]]
  BY <1>a, Zenon DEF TypeOK, FilesOK
<1>c. ASSUME NEW o \in Ops PROVE CallOK(o) /\ CopyOK(o, v)
  BY Zenon DEF LsInv, ConvInv
<1>d. UNCHANGED names => \A p : Entries(p, p)
  BY DEF Entries
<1>1. ASSUME NEW o \in Ops, Begin(o) PROVE ConvInv(v)'
  <2>1. PICK c \in Calls : req' = [req EXCEPT ![o] = c] /\ Goto(o, FirstCall(c))
    BY <1>1, Zenon DEF Begin
  <2>2. FirstCall(c) \in {"createTemp", "rename", "removeAll"}
    BY CallKinds, Zenon DEF FirstCall
  <2>3. pc[o] = "idle" /\ off[o] = 0 /\ UNCHANGED <<names, data, fd, off>>
    BY <1>1, <1>c, Zenon DEF Begin, CallOK
  <2>4. CopyOK(o, v)'
    BY <1>b, <2>1, <2>2, <2>3, Zenon DEF CopyOK, Goto
  <2> QED
    BY <1>b, <1>d, <2>1, <2>3, <2>4, ConvQuiet, Zenon DEF Others, Goto
<1>2. ASSUME NEW o \in Ops, CreateTemp(o) PROVE ConvInv(v)'
  <2>1. /\ pc[o] = "createTemp" /\ UNCHANGED <<data, req, off>>
        /\ names' = Link(names, Tmp(o), o) /\ fd' = [fd EXCEPT ![o].out = o]
    BY <1>2 DEF CreateTemp
  <2>2. Goto(o, "write")
    BY <1>2, CreateTempStep
  <2>3. \A p \in Paths : Entries(p, p)
    BY <2>1, NamesDiffer, Zenon DEF Entries, Link, Tmp
  <2>4. CopyOK(o, v)'
    BY <1>b, <2>2 DEF CopyOK, Goto
  <2> QED
    BY <1>b, <2>1, <2>2, <2>3, <2>4, ConvQuiet DEF Others, Goto
<1>3. ASSUME NEW o \in Ops, WriteChunk(o) PROVE ConvInv(v)'
  <2>1. /\ pc[o] = "write" /\ fd[o].out = o /\ UNCHANGED <<names, pc, req, fd>>
        /\ Others(o) /\ \A f \in Files : data'[f] = data[f] \/ f = o
    BY <1>3, <1>b, <1>c, Zenon DEF WriteChunk, CallOK, Others
  <2>2. Writing(o) /\ CopyOK(o, v)'
    BY <2>1, Zenon DEF Writing, CopyOK
  <2> QED
    BY <1>d, <2>1, <2>2, ConvQuiet, Zenon
<1>4. ASSUME NEW o \in Ops, NEW label \in {"ok", "error"},
             pc[o] # "copy", Goto(o, label), UNCHANGED <<data, req, fd, off>>,
             \A p \in Paths : Final(p) \in DOMAIN names' => Entries(p, p)
      PROVE  ConvInv(v)'
  <2>1. CopyOK(o, v)' /\ Others(o)
    BY <1>b, <1>4, Zenon DEF CopyOK, Goto, Others
  <2> QED
    BY <1>4, <2>1, ConvQuiet
<1>5. ASSUME NEW o \in Ops, RenameTemp(o, "write") PROVE ConvInv(v)'
  <2>1. PICK w \in WritePaths, u \in Values :
           w \in Paths /\ w = req[o].path /\ u = req[o].value
    BY <1>5, PublishNames, CallKinds, Zenon
  <2>2. /\ data[o] = Content(u) /\ names'[Final(w)] = o
        /\ \A p \in Paths \ {w} : Entries(p, p)
    BY <1>5, <2>1, PublishNames, Zenon
  <2>3. pc[o] = "write" /\ Goto(o, "ok") /\ UNCHANGED <<data, req, fd, off>>
    BY <1>5, ZenonT(30) DEF RenameTemp
  <2>4. Kept(v) /\ CopyOK(o, v)' /\ Others(o)
    <3>1. Others(o)
      BY <1>b, <2>3, Zenon DEF Goto, Others
    <3>2. Kept(v)
      BY <2>3, <3>1, KeptBy
    <3> QED
      BY <1>b, <2>3, <3>1, <3>2 DEF CopyOK, Goto
  <2>5. o \in Files /\ o \notin SourceFiles /\ Good(o, v)'
    BY <2>2, <2>3, FilesAssumption, Zenon DEF Files, SourceFiles, Good, Whole, AllValues
  <2>6. Sources \subseteq Paths \ {w}
    BY PathAssumption DEF Sources, MovesOf
  <2>7. \A f \in SourceFiles : data'[f] = data[f]
    BY <2>3
  <2>8. \A p \in Sources : Final(p) \in DOMAIN names' => Entries(p, p)
    BY <2>2, <2>6, Zenon
  <2>9. \A p \in Paths \ Sources :
           Final(p) \in DOMAIN names' =>
              Entries(p, p) \/ \E f \in Files :
                                  names'[Final(p)] = f /\ f \notin SourceFiles /\ Good(f, v)'
    BY <2>2, <2>5, Zenon
  <2> QED
    <3>1. EntriesKept(v)
      BY <2>4, <2>7, <2>8, <2>9, Zenon DEF EntriesKept
    <3> QED
      BY <2>4, <2>7, <2>8, <2>9, <3>1, ConvAssembled, Zenon
<1>6. ASSUME NEW o \in Ops, Rename(o) PROVE ConvInv(v)'
  <2>1. <<req[o].src, req[o].dst>> \in MovePairs
    BY <1>6, <1>c, SourceIs, Zenon DEF Rename, CallOK
  <2>2. ~CanRename(req[o].src, req[o].dst)
    BY <2>1, Zenon DEF CanRename, MovesOf
  <2>3. pc[o] = "rename" /\ Goto(o, "open") /\ UNCHANGED <<names, data, req, fd, off>>
    BY <1>6, <2>2, Zenon DEF Rename
  <2>4. CopyOK(o, v)'
    BY <1>b, <1>c, <2>3, Zenon DEF CopyOK, Goto
  <2> QED
    BY <1>b, <1>d, <2>3, <2>4, ConvQuiet, Zenon DEF Others, Goto
<1>7. ASSUME NEW o \in Ops, Open(o, "create") PROVE ConvInv(v)'
  <2>1. PICK s \in Sources : s = req[o].src
    BY <1>7, <1>c, SourceIs, Zenon DEF Open, CallOK
  <2>2. pc[o] = "open" /\ off[o] = 0 /\ UNCHANGED <<names, data, req, off>>
    BY <1>7, <1>c DEF Open, CopyOK
  <2>3. CASE Final(s) \in DOMAIN names
    <3>1. names[Final(s)] = s /\ s \in SourceFiles /\ s \in Files
      BY <2>3, Zenon DEF ConvInv, SourceFiles, Files
    <3>2. fd' = [fd EXCEPT ![o].in = s] /\ Goto(o, "create")
      BY <1>7, <2>1, <2>3, <3>1 DEF Open
    <3>3. CopyOK(o, v)' /\ Others(o)
      BY <1>b, <2>2, <3>1, <3>2 DEF CopyOK, Goto, Others
    <3> QED
      BY <1>d, <2>2, <3>3, ConvQuiet, Zenon
  <2>4. CASE Final(s) \notin DOMAIN names
    BY <1>4, <1>7, <1>d, <2>1, <2>2, <2>4, Zenon DEF Open
  <2> QED
    BY <2>3, <2>4
<1>8. ASSUME NEW o \in Ops, RemoveAll(o) \/ RemoveSrc(o) PROVE ConvInv(v)'
  <2>1. /\ pc[o] \in {"remove", "removeAll"} /\ UNCHANGED <<data, req, fd, off>>
        /\ \E label \in {"ok", "error"} : Goto(o, label)
    BY <1>8, Zenon DEF RemoveAll, RemoveSrc
  <2>2. PICK x : names' = Unlink(names, x) \/ names' = names
    BY <1>8 DEF RemoveAll, RemoveSrc
  <2>3. \A p \in Paths : Final(p) \in DOMAIN names' => Entries(p, p)
    BY <2>2 DEF Unlink, Entries
  <2> QED
    BY <1>4, <2>1, <2>3, Zenon
<1>9. CASE UNCHANGED <<names, data, req, pc, fd, off>>
  BY <1>9, Zenon DEF ConvInv, CopyOK, Good, Owed, Whole
<1>10. ASSUME NEW r \in Readers, Download(r) PROVE UNCHANGED <<names, data, req, pc, fd, off>>
  BY <1>10 DEF Download, StartRead, ReadChunk, callVars
<1>11. ASSUME NEW o \in Ops PROVE ~Fails(o) /\ ~Crash(o)
  BY DEF Fails, Crash
<1> QED
  BY <1>1, <1>2, <1>3, <1>5, <1>6, <1>7, <1>8, <1>9, <1>10, <1>11, ConvCreate, ConvCopy, Zenon
  DEF Next, Call, AtomicWrite, Move, vars, callVars

(* Moves of one content between devices, however many at once and however  *)
(* their steps interleave with each other and with writes, deletions and   *)
(* downloads, leave every path with a whole content when all calls have    *)
(* returned and none was cut short, although they empty and fill the same  *)
(* destination under each other.                                           *)
THEOREM MovesAreWhole ==
    ASSUME NEW v, MovesOf(v)
    PROVE  Spec => []MovesConverge
<1>1. CASE Faults = {}
  <2>1. Init => ConvInv(v)
    BY ConvInit
  <2>2. LsInv /\ ConvInv(v) /\ [Next]_vars => ConvInv(v)'
    BY <1>1, ConvStep
  <2>3. LsInv /\ ConvInv(v) => MovesConverge
    <3> SUFFICES ASSUME LsInv, ConvInv(v), \A o \in Ops : pc[o] \in Done,
                        NEW p \in Paths, Final(p) \in DOMAIN names
                 PROVE  Whole(data[names[Final(p)]])
      BY DEF MovesConverge
    <3>1. PICK f \in Files : f = names[Final(p)]
      BY Zenon DEF LsInv, TypeOK, FilesOK
    <3>2. data[f] \in Seq(Chunk) /\ Len(data[f]) <= Chunks
      BY ZenonT(30) DEF LsInv, TypeOK, FilesOK, Short
    <3>3. CASE p \in Sources
      BY <3>1, <3>3, Zenon DEF ConvInv, Whole, MovesOf
    <3>4. CASE p \notin Sources /\ Owed(f, v)
      <4>1. \A i \in 1 .. Chunks : i <= Len(data[f]) /\ data[f][i] = v
        BY <3>4 DEF Owed, Done
      <4>2. Len(data[f]) = Chunks
        BY <3>2, <4>1, ChunksAssumption
      <4>3. data[f] = Content(v)
        BY <3>2, <4>1, <4>2 DEF Content
      <4> QED
        BY <3>1, <4>3 DEF Whole, MovesOf
    <3> QED
      BY <3>1, <3>3, <3>4, Zenon DEF ConvInv, Good
  <2> QED
    BY <2>1, <2>2, <2>3, LsInit, LsStep, PTL DEF Spec
<1>2. CASE Faults # {}
  <2>1. MovesConverge
    BY <1>2, Zenon DEF MovesConverge
  <2> QED
    BY <2>1, PTL
<1> QED
  BY <1>1, <1>2

-----------------------------------------------------------------------------
(* One move at a time.                                                     *)

(* Nothing but moves, each destination of one source, and none a source.   *)
Apart ==
    /\ WritePaths = {} /\ DeletePaths = {}
    /\ \A m, n \in MovePairs : m[2] # n[1] /\ (m[2] = n[2] => m[1] = n[1])

Holds(p, v) == Final(p) \in DOMAIN names /\ data[names[Final(p)]] = Content(v)

(* A move that runs alone: from the time it has opened its source until it *)
(* removes it the source is there, the destination has what was copied so  *)
(* far, and when the move has returned without error it is all there and   *)
(* the source is not.                                                      *)
MoveOK(o) ==
    LET s == req[o].src
        d == req[o].dst
    IN
    /\ pc[o] = "idle" => req[o] = None
    /\ pc[o] \in {"rename", "open", "create"} => off[o] = 0
    /\ pc[o] \in {"create", "copy", "remove"} => Final(s) \in DOMAIN names
    /\ pc[o] \in {"create", "copy"} => fd[o].in = s
    /\ pc[o] = "copy" =>
          /\ Final(d) \in DOMAIN names /\ names[Final(d)] = fd[o].out
          /\ data[names[Final(d)]] = Part(InitialFiles[s], off[o])
    /\ pc[o] = "remove" => Holds(d, InitialFiles[s])
    /\ pc[o] = "ok" =>
          s \in SourceFiles /\ Final(s) \notin DOMAIN names /\ Holds(d, InitialFiles[s])

(* A source has the file it had at the start, unchanged, or none; a file   *)
(* of a source is elsewhere only where a move has renamed it to; no two    *)
(* paths have one file.                                                    *)
PlaceOK ==
    /\ \A p \in Sources :
          Final(p) \in DOMAIN names => names[Final(p)] = p /\ p \in SourceFiles
    /\ \A f \in SourceFiles : data[f] = Content(InitialFiles[f])
    /\ \A p \in Paths \ Sources :
          Final(p) \in DOMAIN names =>
             /\ names[Final(p)] \in SourceFiles => <<names[Final(p)], p>> \in MovePairs
             /\ names[Final(p)] \in Ops => pc[names[Final(p)]] \in Copying
    /\ \A p, q \in Paths :
          /\ Final(p) \in DOMAIN names /\ Final(q) \in DOMAIN names
          /\ names[Final(p)] = names[Final(q)]
          => p = q

Destinations == {m[2] : m \in MovePairs}

(* What was at a path that nothing is moved to is there, or has been moved *)
(* away from it by a move that returned without error.                     *)
MovedOrThere ==
    \A p \in DOMAIN InitialFiles \ Destinations :
       Holds(p, InitialFiles[p]) \/ \E o \in Ops : pc[o] = "ok" /\ req[o].src = p

(* At most the call o is under way.                                        *)
Alone(o) == \A q \in Ops \ {o} : pc[q] \in Done

AloneInv == LsInv /\ PlaceOK /\ MovedOrThere /\ (\A o \in Ops : MoveOK(o))

Moving(o, s, d) ==
    /\ s = req[o].src /\ d = req[o].dst /\ s \in Paths /\ s # d
    /\ <<s, d>> \in MovePairs /\ req[o] \in Calls /\ req[o].op = "move"

LEMMA MoveIs ==
    ASSUME Apart, LsInv, NEW o \in Ops, pc[o] # "idle"
    PROVE  \E s \in Sources, d \in Paths \ Sources : Moving(o, s, d)
<1>1. req[o] \in Calls
  BY DEF LsInv, CallOK
<1>2. req[o].op = "move"
  BY <1>1, CallKinds, Zenon DEF Apart
<1>3. /\ req[o].src \in Sources /\ req[o].src \in Paths /\ req[o].dst \in Paths
      /\ <<req[o].src, req[o].dst>> \in MovePairs
  BY <1>1, <1>2, SourceIs
<1>4. \A n \in MovePairs : req[o].dst # n[1]
  BY <1>3 DEF Apart
<1>5. req[o].dst \notin Sources
  BY <1>4 DEF Sources
<1> QED
  BY <1>1, <1>2, <1>3, <1>5, Zenon DEF Moving

LEMMA AloneInit ==
    ASSUME Init
    PROVE  AloneInv
<1>1. \A p : Final(p) \in DOMAIN names => p \in DOMAIN InitialFiles /\ names[Final(p)] = p
  <2> SUFFICES ASSUME NEW p, Final(p) \in DOMAIN names
               PROVE  p \in DOMAIN InitialFiles /\ names[Final(p)] = p
    BY Zenon
  <2>1. PICK q \in DOMAIN InitialFiles : Final(p) = Final(q)
    BY DEF Init
  <2>2. p = q
    BY <2>1, NamesDiffer, Zenon
  <2> QED
    BY <2>1, <2>2 DEF Init, Final
<1>2. \A f \in DOMAIN InitialFiles : f \notin Ops /\ data[f] = Content(InitialFiles[f])
  BY FilesAssumption, Zenon DEF Init, Files
<1>3. \A p \in DOMAIN InitialFiles : Final(p) \in DOMAIN names
  BY Zenon DEF Init
<1>4. PlaceOK
  BY <1>1, <1>2 DEF PlaceOK, SourceFiles
<1>5. MovedOrThere
  BY <1>1, <1>2, <1>3 DEF MovedOrThere, Holds
<1>6. \A o \in Ops : MoveOK(o)
  BY Zenon DEF Init, MoveOK
<1> QED
  BY <1>4, <1>5, <1>6, LsInit, Zenon DEF AloneInv

(* A step of o that leaves names and files alone.                          *)
LEMMA AloneQuiet ==
    ASSUME AloneInv, LsInv', NEW o \in Ops, Alone(o), Others(o), MoveOK(o)',
           UNCHANGED <<names, data>>,
           pc[o] \in Copying => pc'[o] \in Copying,
           pc[o] # "ok"
    PROVE  AloneInv'
<1>1. PlaceOK'
  BY Zenon DEF AloneInv, PlaceOK, Others, SourceFiles, Files, LsInv, TypeOK, FilesOK
<1>2. MovedOrThere'
  BY DEF AloneInv, MovedOrThere, Holds, Others
<1>3. ASSUME NEW q \in Ops \ {o} PROVE MoveOK(q)'
  BY Zenon DEF AloneInv, MoveOK, Others, Holds, Alone, Done
<1> QED
  BY <1>1, <1>2, <1>3 DEF AloneInv

(* A step of the move o from s, whose file is there, gives its destination *)
(* d the file f, and leaves the source there or removes it.                *)
Delivers(o, s, d, f) ==
    /\ \A p \in Paths \ {s, d} : Entries(p, p)
    /\ Final(s) \in DOMAIN names' => Entries(s, s)
    /\ Final(s) \notin DOMAIN names' => pc'[o] = "ok"
    /\ Final(d) \in DOMAIN names' /\ names'[Final(d)] = f
    /\ \A g \in Files \ {f} : data'[g] = data[g]
    /\ f \in SourceFiles => f = s /\ data'[s] = data[s] /\ Final(s) \notin DOMAIN names'
    /\ \A p \in Paths \ {s, d} : Final(p) \in DOMAIN names => names[Final(p)] # f
    /\ f \in Ops => pc'[f] \in Copying

LEMMA AloneChange ==
    ASSUME Apart, AloneInv, LsInv', NEW o \in Ops, pc[o] \notin Done, Alone(o), Others(o),
           MoveOK(o)', UNCHANGED req, NEW s \in Sources, NEW d \in Paths \ Sources,
           Moving(o, s, d), Final(s) \in DOMAIN names,
           NEW f \in Files, Delivers(o, s, d, f),
           pc[o] \in Copying => pc'[o] \in Copying
    PROVE  AloneInv'
<1>a. PlaceOK /\ MovedOrThere /\ (\A q \in Ops : MoveOK(q)) /\ LsInv
  BY Zenon DEF AloneInv
<1>b. /\ \A p \in Paths : Final(p) \in DOMAIN names => names[Final(p)] \in Files
      /\ SourceFiles \subseteq Files
  BY <1>a, Zenon DEF LsInv, TypeOK, FilesOK, SourceFiles, Files
<1>c. s \in SourceFiles /\ names[Final(s)] = s /\ s # d /\ s \in Paths
  BY <1>a, Zenon DEF PlaceOK, Moving
<1>1. \A p \in Paths \ {s, d} :
         /\ Final(p) \in DOMAIN names' <=> Final(p) \in DOMAIN names
         /\ Final(p) \in DOMAIN names =>
               /\ names'[Final(p)] = names[Final(p)] /\ names[Final(p)] # f
               /\ names[Final(p)] # s /\ names[Final(p)] \in Files
               /\ data'[names[Final(p)]] = data[names[Final(p)]]
  BY <1>a, <1>b, <1>c, Zenon DEF Entries, PlaceOK, Delivers
<1>2. PlaceOK'
  <2>1. \A p \in Sources :
           Final(p) \in DOMAIN names' => names'[Final(p)] = p /\ p \in SourceFiles
    BY <1>a, <1>1, PathAssumption DEF PlaceOK, Entries, Sources, Delivers
  <2>2. \A g \in SourceFiles : data'[g] = Content(InitialFiles[g])
    BY <1>a, <1>b, Zenon DEF PlaceOK, Delivers
  <2>3. ASSUME NEW p \in Paths \ Sources, Final(p) \in DOMAIN names'
        PROVE  /\ names'[Final(p)] \in SourceFiles => <<names'[Final(p)], p>> \in MovePairs
               /\ names'[Final(p)] \in Ops => pc'[names'[Final(p)]] \in Copying
    <3>1. CASE p = d
      BY <3>1, Zenon DEF Delivers, Moving
    <3>2. CASE p # d
      <4>1. p \in Paths \ {s, d}
        BY <3>2, Zenon
      <4>2. PICK g \in Files : /\ g = names[Final(p)] /\ g = names'[Final(p)]
                               /\ Final(p) \in DOMAIN names
        BY <1>1, <2>3, <4>1, Zenon
      <4>3. /\ g \in SourceFiles => <<g, p>> \in MovePairs
            /\ g \in Ops => pc[g] \in Copying
        BY <1>a, <4>2, Zenon DEF PlaceOK
      <4>4. g \in Ops => pc'[g] \in Copying
        BY <4>3, Zenon DEF Others
      <4> QED
        BY <4>2, <4>3, <4>4, Zenon
    <3> QED
      BY <3>1, <3>2, Zenon
  <2>4. ASSUME NEW p \in Paths, NEW q \in Paths,
               Final(p) \in DOMAIN names', Final(q) \in DOMAIN names',
               names'[Final(p)] = names'[Final(q)]
        PROVE  p = q
    <3>1. CASE p \notin {s, d} /\ q \notin {s, d}
      BY <1>a, <1>1, <2>4, <3>1, Zenon DEF PlaceOK
    <3>2. CASE p \in {s, d} /\ q \in {s, d}
      <4>1. Final(s) \in DOMAIN names' => names'[Final(s)] # names'[Final(d)]
        BY <1>c, Zenon DEF Entries, Delivers
      <4>2. ~(p = s /\ q = d)
        BY <2>4, <4>1, Zenon
      <4>3. ~(p = d /\ q = s)
        BY <2>4, <4>1, Zenon
      <4>4. CASE p = s
        BY <3>2, <4>2, <4>4, Zenon
      <4>5. CASE p = d
        BY <3>2, <4>3, <4>5, Zenon
      <4> QED
        BY <3>2, <4>4, <4>5, Zenon
    <3>3. ASSUME NEW x \in {s, d}, NEW y \in Paths \ {s, d}, Final(x) \in DOMAIN names',
                 Final(y) \in DOMAIN names', names'[Final(x)] = names'[Final(y)]
          PROVE  FALSE
      BY <1>c, <1>1, <3>3, ZenonT(30) DEF Entries, Delivers
    <3> QED
      BY <2>4, <3>1, <3>2, <3>3, Zenon
  <2> QED
    BY <2>1, <2>2, <2>3, <2>4, ZenonT(30) DEF PlaceOK, Final
<1>3. MovedOrThere'
  <2> SUFFICES ASSUME NEW p \in DOMAIN InitialFiles \ Destinations
               PROVE  Holds(p, InitialFiles[p])' \/ \E q \in Ops : pc'[q] = "ok" /\ req'[q].src = p
    BY Zenon DEF MovedOrThere
  <2>1. p # d /\ p \in Paths
    <3>1. d \in Destinations
      <4>1. <<s, d>> \in MovePairs
        BY Zenon DEF Moving
      <4>2. <<s, d>>[2] = d
        BY Zenon
      <4> QED
        BY <4>1, <4>2, Zenon DEF Destinations
    <3> QED
      BY <3>1, PathAssumption, Zenon
  <2>2. CASE p = s
    <3>1. Final(s) \in DOMAIN names' => names'[Final(s)] = s /\ data'[s] = Content(InitialFiles[s])
      BY <1>a, <1>c, <1>2, Zenon DEF PlaceOK, Entries, Delivers
    <3> QED
      BY <2>2, <3>1, Zenon DEF Holds, Delivers, Moving
  <2>3. CASE p # s
    <3>1. Holds(p, InitialFiles[p]) => Holds(p, InitialFiles[p])'
      BY <1>1, <2>1, <2>3, Zenon DEF Holds, Final
    <3>2. \A q \in Ops : pc[q] = "ok" => pc'[q] = "ok"
      BY Zenon DEF Others, Done
    <3> QED
      BY <1>a, <3>1, <3>2, Zenon DEF MovedOrThere
  <2> QED
    BY <2>2, <2>3, Zenon
<1>4. ASSUME NEW q \in Ops \ {o} PROVE MoveOK(q)'
  <2>1. MoveOK(q) /\ pc'[q] = pc[q] /\ req'[q] = req[q] /\ pc[q] \in Done
    BY <1>a, Zenon DEF Others, Alone
  <2>2. ASSUME pc[q] = "ok"
        PROVE  /\ req[q].src \in SourceFiles /\ Final(req[q].src) \notin DOMAIN names'
               /\ Holds(req[q].dst, InitialFiles[req[q].src])'
    <3>1. PICK t \in Sources, e \in Paths \ Sources :
             t \in Paths /\ t = req[q].src /\ e = req[q].dst /\ <<t, e>> \in MovePairs
      BY <1>a, <2>2, MoveIs, Zenon DEF Moving
    <3>2. t \in SourceFiles /\ Final(t) \notin DOMAIN names /\ Holds(e, InitialFiles[t])
      BY <2>1, <2>2, <3>1, Zenon DEF MoveOK
    <3>3. t # s /\ t # d /\ e # s
      BY <3>1, <3>2, Zenon
    <3>4. e # d
      BY <3>1, <3>3, Zenon DEF Apart, Moving
    <3>5. Final(t) \notin DOMAIN names'
      BY <1>1, <3>1, <3>2, <3>3, Zenon
    <3>6. Holds(e, InitialFiles[t])'
      BY <1>1, <3>1, <3>2, <3>3, <3>4, Zenon DEF Holds, Final
    <3> QED
      BY <3>1, <3>2, <3>5, <3>6, Zenon
  <2> QED
    BY <2>1, <2>2, Zenon DEF MoveOK, Done
<1> QED
  BY <1>2, <1>3, <1>4, Zenon DEF AloneInv

(* The steps of a move that runs alone.                                    *)
LEMMA AloneBegin ==
    ASSUME Apart, AloneInv, NEW o \in Ops, Alone(o), Begin(o)
    PROVE  AloneInv' /\ Others(o) /\ pc'[o] # "idle"
<1>a. LsInv /\ LsInv'
  BY BeginStep DEF AloneInv
<1>b. DOMAIN pc = Ops /\ DOMAIN req = Ops /\ CallOK(o)
  BY <1>a, Zenon DEF LsInv, TypeOK, FilesOK
<1>1. PICK c \in Calls : req' = [req EXCEPT ![o] = c] /\ Goto(o, FirstCall(c))
  BY Zenon DEF Begin
<1>2. FirstCall(c) = "rename"
  <2>1. c.op = "move"
    BY CallKinds, Zenon DEF Apart
  <2> QED
    BY <2>1 DEF FirstCall
<1>3. pc[o] = "idle" /\ off[o] = 0 /\ UNCHANGED <<names, data, fd, off>>
  BY <1>b, Zenon DEF Begin, CallOK
<1>4. pc'[o] = "rename" /\ Others(o)
  BY <1>b, <1>1, <1>2, <1>3, Zenon DEF Goto, Others
<1>5. MoveOK(o)'
  BY <1>3, <1>4, Zenon DEF MoveOK
<1> QED
  BY <1>a, <1>3, <1>4, <1>5, AloneQuiet, Zenon DEF Copying

(* It fails, its process is stopped, or its rename fails.                  *)
LEMMA AloneJump ==
    ASSUME AloneInv, NEW o \in Ops, Alone(o), NEW label \in {"error", "crashed", "open"},
           pc[o] \notin Done, Goto(o, label),
           UNCHANGED <<names, data, req, fd, off, reader>>,
           label = "open" => pc[o] = "rename"
    PROVE  AloneInv' /\ Others(o) /\ pc'[o] = label
<1>a. LsInv /\ LsInv' /\ MoveOK(o)
  BY JumpStep DEF AloneInv
<1>1. pc'[o] = label /\ Others(o)
  BY <1>a, Zenon DEF LsInv, TypeOK, FilesOK, Goto, Others
<1>2. MoveOK(o)'
  BY <1>a, <1>1, Zenon DEF MoveOK, Done
<1> QED
  BY <1>a, <1>1, <1>2, AloneQuiet, Zenon DEF Copying, Done

LEMMA AloneRename ==
    ASSUME Apart, AloneInv, NEW o \in Ops, Alone(o), Rename(o)
    PROVE  AloneInv' /\ Others(o)
<1>a. /\ LsInv /\ LsInv' /\ PlaceOK /\ MoveOK(o) /\ pc[o] = "rename"
      /\ UNCHANGED <<data, req, fd, off, reader>>
  BY RenameStep, Zenon DEF AloneInv, Rename
<1>b. DOMAIN pc = Ops /\ pc[o] \notin Done /\ pc[o] # "idle"
  BY <1>a, Zenon DEF LsInv, TypeOK, FilesOK, Done
<1>c. PICK s \in Sources, d \in Paths \ Sources :
         /\ Moving(o, s, d) /\ s = req[o].src /\ d = req[o].dst
         /\ s \in Paths /\ <<s, d>> \in MovePairs /\ s # d
  BY <1>a, <1>b, MoveIs, Zenon DEF Moving
<1>1. CASE Goto(o, "open") /\ UNCHANGED names
  BY <1>a, <1>b, <1>1, AloneJump
<1>2. CASE /\ Final(s) \in DOMAIN names /\ Goto(o, "ok")
           /\ names' = Renamed(names, Final(s), Final(d))
  <2>1. /\ Entries(d, s) /\ Final(s) \notin DOMAIN names'
        /\ \A p \in Paths \ {s, d} : Entries(p, p)
    BY <1>a, <1>c, <1>2, RenameNames, Zenon
  <2>2. names[Final(s)] = s /\ s \in SourceFiles /\ data[s] = Content(InitialFiles[s])
    BY <1>a, <1>2, ZenonT(30) DEF PlaceOK
  <2>3. Final(d) \in DOMAIN names' /\ names'[Final(d)] = s
    BY <1>2, <2>1, <2>2 DEF Entries
  <2>4. Others(o) /\ pc'[o] = "ok"
    BY <1>a, <1>b, <1>2, Zenon DEF Others, Goto
  <2>5. MoveOK(o)'
    BY <1>a, <1>c, <2>1, <2>2, <2>3, <2>4, Zenon DEF MoveOK, Holds
  <2>6. s \in Files /\ s \notin Ops
    BY <2>2, FilesAssumption DEF SourceFiles, Files
  <2>7. \A p \in Paths \ {s, d} : Final(p) \in DOMAIN names => names[Final(p)] # s
    BY <1>a, <1>c, <1>2, <2>2, Zenon DEF PlaceOK
  <2>8. Delivers(o, s, d, s)
    BY <1>a, <2>1, <2>3, <2>4, <2>6, <2>7, Zenon DEF Delivers
  <2> QED
    BY <1>a, <1>b, <1>c, <1>2, <2>4, <2>5, <2>6, <2>8, AloneChange, Zenon DEF Copying
<1> QED
  BY <1>a, <1>c, <1>1, <1>2, Zenon DEF Rename, CanRename

LEMMA AloneOpen ==
    ASSUME Apart, AloneInv, NEW o \in Ops, Alone(o), Open(o, "create")
    PROVE  AloneInv' /\ Others(o)
<1>a. /\ LsInv /\ LsInv' /\ PlaceOK /\ MoveOK(o) /\ pc[o] = "open"
      /\ UNCHANGED <<names, data, req, off, reader>>
  BY OpenStep DEF AloneInv, Open
<1>b. DOMAIN pc = Ops /\ pc[o] \notin Done /\ pc[o] # "idle"
      /\ fd \in [Ops -> [in : Files \cup {None}, out : Files \cup {None}]]
  BY <1>a, Zenon DEF LsInv, TypeOK, FilesOK, Done
<1>c. PICK s \in Sources : s = req[o].src
  BY <1>a, <1>b, MoveIs, Zenon DEF Moving
<1>1. CASE Final(s) \notin DOMAIN names
  <2>1. Goto(o, "error") /\ UNCHANGED fd
    BY <1>c, <1>1 DEF Open
  <2> QED
    BY <1>a, <1>b, <2>1, AloneJump, Zenon
<1>2. CASE Final(s) \in DOMAIN names
  <2>1. names[Final(s)] = s
    BY <1>a, <1>2, Zenon DEF PlaceOK
  <2>2. fd' = [fd EXCEPT ![o].in = s] /\ Goto(o, "create")
    BY <1>c, <1>2, <2>1 DEF Open
  <2>3. Others(o) /\ pc'[o] = "create" /\ fd'[o].in = s
    BY <1>a, <1>b, <2>2 DEF Others, Goto
  <2>4. MoveOK(o)'
    BY <1>a, <1>c, <1>2, <2>3, Zenon DEF MoveOK
  <2> QED
    BY <1>a, <2>3, <2>4, AloneQuiet, Zenon DEF Copying
<1> QED
  BY <1>1, <1>2

LEMMA AloneCreate ==
    ASSUME Apart, AloneInv, NEW o \in Ops, Alone(o), Create(o)
    PROVE  AloneInv' /\ Others(o)
<1>a. LsInv /\ LsInv' /\ PlaceOK /\ MoveOK(o)
  BY CreateStep DEF AloneInv
<1>b. PICK f \in Files, d \in Paths :
         /\ d = req[o].dst /\ req[o] \in Calls /\ req[o].op = "move" /\ ~Writing(f)
         /\ f = IF Final(d) \in DOMAIN names THEN names[Final(d)] ELSE o
         /\ DOMAIN names' = DOMAIN names \cup {Final(d)} /\ names'[Final(d)] = f
         /\ \A x \in DOMAIN names : names'[x] = names[x]
         /\ data' = [data EXCEPT ![f] = << >>]
         /\ fd' \in [Ops -> [in : Files \cup {None}, out : Files \cup {None}]]
         /\ fd'[o].in = fd[o].in /\ fd'[o].out = f /\ \A q \in Ops \ {o} : fd'[q] = fd[q]
         /\ pc[o] = "create" /\ Goto(o, "copy")
         /\ UNCHANGED <<req, off, reader>>
  BY <1>a, CreateIs, Zenon
<1>c. PICK s \in Sources :
         /\ Moving(o, s, d) /\ d \in Paths \ Sources
         /\ s \in Paths /\ s = req[o].src /\ <<s, d>> \in MovePairs /\ s # d
  BY <1>a, <1>b, MoveIs, Zenon DEF Moving
<1>d. DOMAIN pc = Ops /\ DOMAIN data = Files /\ pc[o] \notin Done
  BY <1>a, <1>b, Zenon DEF LsInv, TypeOK, FilesOK, Done
<1>1. off[o] = 0 /\ Final(s) \in DOMAIN names /\ fd[o].in = s /\ names[Final(s)] = s
      /\ s \in SourceFiles
  BY <1>a, <1>b, <1>c, Zenon DEF MoveOK, PlaceOK
<1>2. Others(o) /\ pc'[o] = "copy"
  BY <1>b, <1>d, Zenon DEF Others, Goto
<1>3. \A p \in Paths \ {d} : Entries(p, p)
  <2> SUFFICES ASSUME NEW p \in Paths \ {d} PROVE Entries(p, p)
    OBVIOUS
  <2>1. Final(p) # Final(d)
    BY NamesDiffer
  <2> QED
    BY <1>b, <2>1, Zenon DEF Entries
<1>4. f \notin SourceFiles
  <2>1. CASE Final(d) \in DOMAIN names
    <3>1. f \in SourceFiles => <<f, d>> \in MovePairs
      BY <1>a, <1>b, <1>c, <2>1, Zenon DEF PlaceOK
    <3>2. f \in SourceFiles => f = s
      BY <1>c, <3>1 DEF Apart
    <3>3. f # s
      BY <1>a, <1>b, <1>c, <1>1, <2>1, Zenon DEF PlaceOK
    <3> QED
      BY <3>2, <3>3
  <2>2. CASE Final(d) \notin DOMAIN names
    BY <1>b, <2>2, FilesAssumption DEF SourceFiles
  <2> QED
    BY <2>1, <2>2
<1>5. ASSUME NEW p \in Paths \ {s, d}, Final(p) \in DOMAIN names PROVE names[Final(p)] # f
  <2>1. CASE Final(d) \in DOMAIN names
    BY <1>a, <1>b, <1>5, <2>1, Zenon DEF PlaceOK
  <2>2. CASE Final(d) \notin DOMAIN names
    <3>1. f = o /\ pc[o] \notin Copying /\ o \notin SourceFiles
      BY <1>b, <1>4, <2>2, Zenon DEF Copying
    <3>2. p \in Sources => names[Final(p)] # o
      BY <1>a, <1>5, <3>1, Zenon DEF PlaceOK
    <3>3. p \notin Sources => names[Final(p)] # o
      BY <1>a, <1>5, <3>1, Zenon DEF PlaceOK
    <3> QED
      BY <3>1, <3>2, <3>3
  <2> QED
    BY <2>1, <2>2
<1>6. f \in Ops => pc'[f] \in Copying
  <2>1. CASE Final(d) \in DOMAIN names
    BY <1>a, <1>b, <1>c, <1>2, <2>1, ZenonT(30) DEF PlaceOK, Others, Copying
  <2>2. CASE Final(d) \notin DOMAIN names
    BY <1>b, <1>2, <2>2, Zenon DEF Copying
  <2> QED
    BY <2>1, <2>2
<1>7. MoveOK(o)'
  <2>1. data'[f] = Part(InitialFiles[s], 0)
    BY <1>b, <1>d, PartNone, Zenon
  <2>2. Final(s) \in DOMAIN names' /\ Final(d) \in DOMAIN names'
    BY <1>b, <1>1, Zenon
  <2> QED
    BY <1>b, <1>c, <1>1, <1>2, <2>1, <2>2, Zenon DEF MoveOK
<1>8. Delivers(o, s, d, f)
  BY <1>b, <1>c, <1>d, <1>1, <1>3, <1>4, <1>5, <1>6, Zenon DEF Delivers
<1> QED
  BY <1>a, <1>b, <1>c, <1>d, <1>1, <1>2, <1>7, <1>8, AloneChange, Zenon DEF Copying

LEMMA AloneCopy ==
    ASSUME Apart, AloneInv, NEW o \in Ops, Alone(o), CopyChunk(o, "remove")
    PROVE  AloneInv' /\ Others(o)
<1>a. /\ LsInv /\ LsInv' /\ PlaceOK /\ MoveOK(o) /\ CallOK(o) /\ pc[o] = "copy"
      /\ UNCHANGED <<names, req, fd, reader>>
  BY CopyStep, Zenon DEF AloneInv, LsInv, CopyChunk
<1>b. /\ DOMAIN pc = Ops /\ pc[o] \notin Done /\ off \in [Ops -> 0 .. Chunks] /\ Chunks \in Nat
      /\ DOMAIN data = Files
  BY <1>a, ChunksAssumption, Zenon DEF LsInv, TypeOK, FilesOK, Done
<1>c. PICK s \in Sources, d \in Paths \ Sources :
         /\ Moving(o, s, d) /\ s = req[o].src /\ d = req[o].dst
         /\ s \in Paths /\ <<s, d>> \in MovePairs /\ s # d
  BY <1>a, MoveIs, Zenon DEF Moving
<1>v. PICK v : v = InitialFiles[s]
  OBVIOUS
<1>d. PICK f \in Files, i \in Nat :
         /\ f = fd[o].out /\ i = off[o]
         /\ Final(d) \in DOMAIN names /\ names[Final(d)] = f /\ data[f] = Part(v, i)
  <2>1. fd[o].out \in Files
    BY <1>a, Zenon DEF CallOK, Settled
  <2>2. off[o] \in Nat
    BY <1>b
  <2> QED
    BY <1>a, <1>c, <1>v, <2>1, <2>2, Zenon DEF MoveOK
<1>e. /\ Final(s) \in DOMAIN names /\ names[Final(s)] = s /\ s \in SourceFiles
      /\ fd[o].in = s /\ data[s] = Content(v)
  BY <1>a, <1>c, <1>v, Zenon DEF MoveOK, PlaceOK
<1>f. Len(data[s]) = Chunks /\ \A j \in 1 .. Chunks : data[s][j] = v
  BY <1>e, ContentIs, Zenon
<1>1. CASE i + 1 <= Chunks
  <2>1. /\ data' = [data EXCEPT ![f] = WriteAt(data[f], i + 1, data[s][i + 1])]
        /\ off' = [off EXCEPT ![o] = i + 1] /\ pc' = pc
    BY <1>1, <1>d, <1>e, <1>f, ZenonT(30) DEF CopyChunk
  <2>2. data[s][i + 1] = v /\ WriteAt(Part(v, i), i + 1, v) = Part(v, i + 1)
    BY <1>1, <1>d, <1>f, PartGrows
  <2>3. data' = [data EXCEPT ![f] = Part(v, i + 1)]
    BY <1>d, <2>1, <2>2, Zenon
  <2>4. Others(o) /\ off'[o] = i + 1 /\ pc'[o] = "copy"
    BY <1>a, <1>b, <2>1, Zenon DEF Others
  <2>5. MoveOK(o)'
    BY <1>a, <1>b, <1>c, <1>v, <1>d, <1>e, <2>3, <2>4, Zenon DEF MoveOK
  <2>6. f \notin SourceFiles
    <3>1. f \in SourceFiles => <<f, d>> \in MovePairs
      BY <1>a, <1>d, Zenon DEF PlaceOK
    <3>2. f \in SourceFiles => f = s
      BY <1>c, <3>1 DEF Apart
    <3>3. f # s
      BY <1>a, <1>c, <1>d, <1>e, Zenon DEF PlaceOK
    <3> QED
      BY <3>2, <3>3
  <2>7. \A p \in Paths : Entries(p, p)
    BY <1>a DEF Entries
  <2>8. \A p \in Paths \ {s, d} : Final(p) \in DOMAIN names => names[Final(p)] # f
    BY <1>a, <1>d, Zenon DEF PlaceOK
  <2>9. f \in Ops => pc'[f] \in Copying
    BY <1>a, <1>d, <2>1, Zenon DEF PlaceOK
  <2>10. Delivers(o, s, d, f)
    BY <1>a, <1>b, <1>c, <1>d, <1>e, <2>3, <2>6, <2>7, <2>8, <2>9, Zenon DEF Delivers
  <2> QED
    BY <1>a, <1>b, <1>c, <1>e, <2>4, <2>5, <2>10, AloneChange, Zenon
<1>2. CASE ~(i + 1 <= Chunks)
  <2>1. Goto(o, "remove") /\ UNCHANGED <<data, off>>
    BY <1>2, <1>d, <1>e, <1>f, Zenon DEF CopyChunk
  <2>2. i = Chunks
    <3>1. i \in 0 .. Chunks
      BY <1>b, <1>d, Zenon
    <3> QED
      BY <1>2, <3>1, ChunksAssumption
  <2>3. data[f] = Content(v)
    BY <1>d, <2>2, PartWhole, ZenonT(30)
  <2>4. Others(o) /\ pc'[o] = "remove"
    BY <1>a, <1>b, <2>1, Zenon DEF Others, Goto
  <2>5. MoveOK(o)'
    BY <1>a, <1>c, <1>v, <1>d, <1>e, <2>1, <2>3, <2>4, Zenon DEF MoveOK, Holds
  <2> QED
    BY <1>a, <2>1, <2>4, <2>5, AloneQuiet, Zenon DEF Copying
<1> QED
  BY <1>1, <1>2

(* The source is there, so that its removal cannot fail for want of it.    *)
LEMMA AloneRemove ==
    ASSUME Apart, AloneInv, NEW o \in Ops, Alone(o), RemoveSrc(o)
    PROVE  AloneInv' /\ Others(o)
<1>a. /\ LsInv /\ LsInv' /\ PlaceOK /\ MoveOK(o) /\ pc[o] = "remove"
      /\ UNCHANGED <<data, req, fd, off, reader>>
  BY RemoveStep, Zenon DEF AloneInv, RemoveSrc
<1>b. DOMAIN pc = Ops /\ pc[o] \notin Done
  BY <1>a, Zenon DEF LsInv, TypeOK, FilesOK, Done
<1>c. PICK s \in Sources, d \in Paths \ Sources :
         /\ Moving(o, s, d) /\ s = req[o].src /\ d = req[o].dst
         /\ s \in Paths /\ <<s, d>> \in MovePairs /\ s # d
  BY <1>a, MoveIs, Zenon DEF Moving
<1>1. /\ Final(s) \in DOMAIN names /\ names[Final(s)] = s /\ s \in SourceFiles
      /\ Holds(d, InitialFiles[s])
  BY <1>a, <1>c, Zenon DEF MoveOK, PlaceOK
<1>2. names' = Unlink(names, Final(s)) /\ Goto(o, "ok")
  BY <1>c, <1>1, Zenon DEF RemoveSrc
<1>3. Final(s) \notin DOMAIN names' /\ \A p \in Paths \ {s} : Entries(p, p)
  BY <1>a, <1>c, <1>2, RemoveNames, Zenon
<1>4. PICK f \in Files :
         /\ f = names[Final(d)] /\ Final(d) \in DOMAIN names
         /\ f = names'[Final(d)] /\ Final(d) \in DOMAIN names'
         /\ data[f] = Content(InitialFiles[s])
  BY <1>a, <1>c, <1>1, <1>3, Zenon DEF Holds, Entries, LsInv, TypeOK, FilesOK
<1>5. Others(o) /\ pc'[o] = "ok"
  BY <1>a, <1>b, <1>2, Zenon DEF Others, Goto
<1>6. MoveOK(o)'
  BY <1>a, <1>c, <1>1, <1>3, <1>4, <1>5, Zenon DEF MoveOK, Holds
<1>7. f # s
  BY <1>a, <1>c, <1>1, <1>4, Zenon DEF PlaceOK
<1>8. f \notin SourceFiles
  <2>1. f \in SourceFiles => <<f, d>> \in MovePairs
    BY <1>a, <1>4, ZenonT(30) DEF PlaceOK
  <2>2. f \in SourceFiles => f = s
    BY <1>c, <2>1, Zenon DEF Apart
  <2> QED
    BY <1>7, <2>2
<1>9. \A p \in Paths \ {s, d} : Final(p) \in DOMAIN names => names[Final(p)] # f
  BY <1>a, <1>4, Zenon DEF PlaceOK
<1>10. f \in Ops => pc'[f] \in Copying
  BY <1>a, <1>4, <1>5, Zenon DEF PlaceOK, Others, Copying
<1>11. Delivers(o, s, d, f)
  BY <1>a, <1>3, <1>4, <1>5, <1>8, <1>9, <1>10, Zenon DEF Delivers
<1> QED
  BY <1>a, <1>b, <1>c, <1>1, <1>4, <1>5, <1>6, <1>11, AloneChange, Zenon DEF Copying

(* Every step of the one call that is under way.                           *)
LEMMA AloneStep ==
    ASSUME Apart, AloneInv, NEW o \in Ops, Alone(o), Begin(o) \/ Move(o) \/ Fails(o)
    PROVE  AloneInv' /\ Others(o)
<1>1. ASSUME Fails(o) PROVE AloneInv' /\ Others(o)
  BY <1>1, AloneJump, Zenon DEF Fails
<1> QED
  BY <1>1, AloneBegin, AloneRename, AloneOpen, AloneCreate, AloneCopy, AloneRemove DEF Move
=============================================================================
