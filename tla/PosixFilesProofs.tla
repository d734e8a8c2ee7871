-------------------------- MODULE PosixFilesProofs --------------------------
(* Facts about files, names and reads that the proofs of both local        *)
(* backends use.                                                           *)
EXTENDS PosixFiles, TLAPS

(* What a call asks for.                                                   *)
LEMMA CallKinds ==
    ASSUME NEW c \in Calls
    PROVE  \/ /\ c.op = "write" /\ c.path \in Paths /\ c.path \in WritePaths
              /\ c.value \in Values
           \/ c.op = "delete" /\ c.path \in Paths /\ c.path \in DeletePaths
           \/ /\ c.op = "move" /\ c.src \in Paths /\ c.dst \in Paths
              /\ <<c.src, c.dst>> \in MovePairs
<1>1. CASE c \in [op : {"write"}, path : WritePaths, value : Values]
  BY <1>1, PathAssumption
<1>2. CASE c \in [op : {"delete"}, path : DeletePaths]
  BY <1>2, PathAssumption
<1>3. CASE c \in {[op |-> "move", src |-> m[1], dst |-> m[2]] : m \in MovePairs}
  <2>1. PICK m \in MovePairs : c = [op |-> "move", src |-> m[1], dst |-> m[2]]
    BY <1>3
  <2>2. PICK p \in Paths, q \in Paths : m = <<p, q>>
    BY PathAssumption
  <2> QED
    BY <2>1, <2>2
<1> QED
  BY <1>1, <1>2, <1>3 DEF Calls

(* The first n chunks of a content.                                        *)
Part(v, n) == [j \in 1 .. n |-> v]

LEMMA PartSeq ==
    ASSUME NEW v, NEW n \in Nat
    PROVE  /\ Part(v, n) \in Seq({v})
           /\ Len(Part(v, n)) = n
           /\ \A i \in 1 .. n : Part(v, n)[i] = v
  BY DEF Part

LEMMA PartGrows ==
    ASSUME NEW v, NEW n \in Nat
    PROVE  WriteAt(Part(v, n), n + 1, v) = Part(v, n + 1)
<1>1. Len(Part(v, n)) = n
  BY PartSeq
<1> QED
  BY <1>1 DEF WriteAt, Part

LEMMA PartAppend ==
    ASSUME NEW v, NEW n \in Nat
    PROVE  Append(Part(v, n), v) = Part(v, n + 1)
<1>1. /\ Part(v, n) \in Seq({v}) /\ Len(Part(v, n)) = n
      /\ \A i \in 1 .. n : Part(v, n)[i] = v
  BY PartSeq
<1>2. /\ Part(v, n + 1) \in Seq({v}) /\ Len(Part(v, n + 1)) = n + 1
      /\ \A i \in 1 .. n + 1 : Part(v, n + 1)[i] = v
  BY DEF Part
<1>3. /\ Append(Part(v, n), v) \in Seq({v})
      /\ Len(Append(Part(v, n), v)) = n + 1
  BY <1>1
<1>4. \A i \in 1 .. n + 1 : Append(Part(v, n), v)[i] = v
  BY <1>1
<1>5. ASSUME NEW s \in Seq({v}), NEW t \in Seq({v}), Len(s) = Len(t),
             \A i \in 1 .. Len(s) : s[i] = t[i]
      PROVE  s = t
  BY <1>5
<1>6. /\ Len(Append(Part(v, n), v)) = Len(Part(v, n + 1))
      /\ \A i \in 1 .. Len(Append(Part(v, n), v)) :
            Append(Part(v, n), v)[i] = Part(v, n + 1)[i]
  BY <1>2, <1>3, <1>4
<1> QED
  BY <1>2, <1>3, <1>5, <1>6

LEMMA AppendTyped ==
    ASSUME NEW S, NEW s \in Seq(S), NEW c \in S
    PROVE  Append(s, c) \in Seq(S)
  OBVIOUS

LEMMA PartWhole ==
    ASSUME NEW v
    PROVE  Content(v) = Part(v, Chunks)
  BY DEF Content, Part

LEMMA PartNone ==
    ASSUME NEW v
    PROVE  Part(v, 0) = << >> /\ 0 \in 0 .. Chunks
  BY ChunksAssumption DEF Part

LEMMA EmptyIs == << >> \in Seq(Chunk) /\ Len(<< >>) <= Chunks
  BY ChunksAssumption

LEMMA ContentIs ==
    ASSUME NEW v
    PROVE  Len(Content(v)) = Chunks /\ \A j \in 1 .. Chunks : Content(v)[j] = v
  BY ChunksAssumption DEF Content

LEMMA PartChunks ==
    ASSUME NEW v \in AllValues, NEW n \in Nat
    PROVE  Part(v, n) \in Seq(Chunk)
  BY DEF Part, Chunk

(* A chunk written into a file leaves the others, and holes before it.     *)
LEMMA WriteAtIs ==
    ASSUME NEW s \in Seq(Chunk), NEW i \in Nat \ {0}, NEW c \in Chunk
    PROVE  /\ WriteAt(s, i, c) \in Seq(Chunk)
           /\ Len(WriteAt(s, i, c)) = IF i > Len(s) THEN i ELSE Len(s)
           /\ WriteAt(s, i, c)[i] = c
           /\ \A j \in 1 .. Len(s) : j # i => WriteAt(s, i, c)[j] = s[j]
<1>1. PICK n \in Nat : n = IF i > Len(s) THEN i ELSE Len(s)
  OBVIOUS
<1>2. WriteAt(s, i, c) =
        [j \in 1 .. n |-> IF j = i THEN c ELSE IF j <= Len(s) THEN s[j] ELSE Hole]
  BY <1>1 DEF WriteAt
<1>3. Hole \in Chunk
  BY DEF Chunk
<1> QED
  BY <1>1, <1>2, <1>3

(* Names of paths and temporary names differ.                              *)
LEMMA NamesDiffer ==
    ASSUME NEW p, NEW q, NEW o
    PROVE  /\ Final(p) # <<q, o>>
           /\ Final(p) = Final(q) => p = q
<1>1. Len(Final(p)) = 1 /\ Len(<<q, o>>) = 2
  BY DEF Final
<1>2. Final(p)[1] = p /\ Final(q)[1] = q
  BY DEF Final
<1> QED
  BY <1>1, <1>2

LEMMA TmpIs ==
    ASSUME NEW p, NEW q, NEW o
    PROVE  <<p, q>> = Tmp(o) <=> p = Target(o) /\ q = o
  BY DEF Tmp

LEMMA TmpsDiffer ==
    ASSUME NEW o, NEW q, Tmp(o) = Tmp(q)
    PROVE  o = q
  BY DEF Tmp

LEMMA RenamedIs ==
    ASSUME NEW n, NEW from \in DOMAIN n, NEW to, from # to
    PROVE  /\ \A x : x \in DOMAIN Renamed(n, from, to) <=>
                      x # from /\ (x \in DOMAIN n \/ x = to)
           /\ Renamed(n, from, to)[to] = n[from]
           /\ \A x \in DOMAIN n : x # from /\ x # to => Renamed(n, from, to)[x] = n[x]
  BY DEF Renamed, Link, Unlink

ReaderType == [state : {"idle", "reading", "eof", "cut"},
               file : Files \cup {None}, got : Seq(Chunk)]

(* What a read of the file f, with k chunks that are all v, makes of the    *)
(* download r.                                                             *)
ReadPart(r, f, v, k) ==
    /\ reader' \in [Readers -> ReaderType]
    /\ \A s \in Readers \ {r} : reader'[s] = reader[s]
    /\ reader'[r].file = f
    /\ \/ /\ reader'[r].state = "reading"
          /\ \E m \in 0 .. Chunks : reader'[r].got = Part(v, m)
       \/ /\ reader'[r].state = "eof"
          /\ \E m \in k .. Chunks : reader'[r].got = Part(v, m)

(* One read of such a file, of which the download has a first part: a      *)
(* longer part, or the end.                                                *)
LEMMA ReadPartGrows ==
    ASSUME NEW r \in Readers, ReadChunk(r), reader \in [Readers -> ReaderType],
           NEW f \in Files, NEW v \in AllValues, NEW k \in 0 .. Chunks, NEW n \in 0 .. Chunks,
           f = reader[r].file, data[f] = Part(v, k), reader[r].got = Part(v, n)
    PROVE  ReadPart(r, f, v, k)
<1>1. /\ Chunks \in Nat /\ n \in Nat /\ k \in Nat /\ reader[r].state = "reading"
      /\ Len(reader[r].got) = n /\ Len(data[f]) = k
      /\ \A i \in 1 .. k : data[f][i] = v
  <2>1. Chunks \in Nat /\ n \in Nat /\ k \in Nat /\ reader[r].state = "reading"
    BY ChunksAssumption DEF ReadChunk
  <2>2. /\ Len(Part(v, n)) = n /\ Len(Part(v, k)) = k
        /\ \A i \in 1 .. k : Part(v, k)[i] = v
    BY <2>1, PartSeq
  <2> QED
    BY <2>1, <2>2
<1>2. CASE n + 1 <= k
  <2>1. Append(reader[r].got, data[f][n + 1]) = Part(v, n + 1)
    <3>1. data[f][n + 1] = v
      BY <1>1, <1>2
    <3>2. Append(Part(v, n), v) = Part(v, n + 1)
      BY <1>1, PartAppend
    <3> QED
      BY <3>1, <3>2, Zenon
  <2>2. reader' = [reader EXCEPT ![r].got = Part(v, n + 1)]
    BY <1>1, <1>2, <2>1 DEF ReadChunk
  <2>3. Part(v, n + 1) \in Seq(Chunk) /\ n + 1 \in 0 .. Chunks
    BY <1>1, <1>2, PartChunks
  <2> QED
    BY <1>1, <2>2, <2>3 DEF ReaderType, ReadPart
<1>3. CASE ~(n + 1 <= k)
  <2>1. reader' = [reader EXCEPT ![r].state = "eof"]
    BY <1>1, <1>3 DEF ReadChunk
  <2>2. n \in k .. Chunks
    BY <1>1, <1>3
  <2> QED
    BY <1>1, <2>1, <2>2 DEF ReaderType, ReadPart
<1> QED
  BY <1>2, <1>3

(* The same of a file with a whole content: the end has all of it.         *)
ReadOn(r, f, v) ==
    /\ reader' \in [Readers -> ReaderType]
    /\ \A s \in Readers \ {r} : reader'[s] = reader[s]
    /\ reader'[r].file = f
    /\ \/ /\ reader'[r].state = "reading"
          /\ \E m \in 0 .. Chunks : reader'[r].got = Part(v, m)
       \/ reader'[r].state = "eof" /\ reader'[r].got = Content(v)

LEMMA ReadGrows ==
    ASSUME NEW r \in Readers, ReadChunk(r), reader \in [Readers -> ReaderType],
           NEW f \in Files, NEW v \in AllValues, NEW n \in 0 .. Chunks,
           f = reader[r].file, data[f] = Content(v), reader[r].got = Part(v, n)
    PROVE  ReadOn(r, f, v)
<1>1. Chunks \in 0 .. Chunks /\ \A m \in Chunks .. Chunks : m = Chunks
  BY ChunksAssumption
<1>2. data[f] = Part(v, Chunks)
  BY PartWhole
<1>3. ReadPart(r, f, v, Chunks)
  BY <1>1, <1>2, ReadPartGrows
<1> QED
  BY <1>1, <1>3, PartWhole DEF ReadPart, ReadOn
=============================================================================
