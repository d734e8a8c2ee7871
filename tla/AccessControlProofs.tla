------------------------- MODULE AccessControlProofs -------------------------
(***************************************************************************)
(* Proofs about AccessControl, for any number of calls, any requests,      *)
(* entries and verifiers, both stores and failing queries: of paths, then  *)
(* of the calls that are about them.                                       *)
(***************************************************************************)
EXTENDS AccessControl, FiniteSetTheorems, TLAPS

(* The provers that a leaf is given to, in turn, unless it names its own.  *)
USE SMT, Zenon, SMTT(10), SMTT(20)

-----------------------------------------------------------------------------
(* Paths: what the functions on them give, for paths of any length.        *)

Rank(S, i) == Cardinality({j \in S : j <= i})

(* The elements of a finite set of numbers have the ranks from 1 on, each  *)
(* its own, in order.                                                      *)
LEMMA RankIs ==
  ASSUME NEW S \in SUBSET Nat, IsFiniteSet(S), NEW i \in S
  PROVE  /\ Rank(S, i) \in 1 .. Cardinality(S)
         /\ \A k \in S : i < k => Rank(S, i) < Rank(S, k)
<1> DEFINE Below(n) == {j \in S : j <= n}
<1>1. \A n \in S : IsFiniteSet(Below(n)) /\ Cardinality(Below(n)) <= Cardinality(S)
  BY FS_Subset
<1>2. Cardinality(S) \in Nat /\ \A n \in S : Cardinality(Below(n)) \in Nat
  BY <1>1, FS_CardinalityType
<1>3. Cardinality(Below(i)) # 0
  <2>1. i \in Below(i)
    OBVIOUS
  <2> QED
    BY <1>1, <2>1, FS_EmptySet
<1>4. ASSUME NEW k \in S, i < k PROVE Cardinality(Below(i)) < Cardinality(Below(k))
  <2>1. (\A j \in S : j <= i => j <= k) /\ k <= k /\ ~(k <= i)
    BY <1>4
  <2>3. Below(i) \in SUBSET Below(k) /\ k \in Below(k) /\ k \notin Below(i)
    BY <2>1, Zenon
  <2>2. Cardinality(Below(i)) <= Cardinality(Below(k)) /\ Cardinality(Below(i)) # Cardinality(Below(k))
    BY <1>1, <2>3, FS_Subset
  <2> QED
    BY <1>2, <2>2
<1> QED
  BY <1>1, <1>2, <1>3, <1>4 DEF Rank

LEMMA NthIs ==
  ASSUME NEW S \in SUBSET Nat, IsFiniteSet(S)
  PROVE  /\ Cardinality(S) \in Nat
         /\ \A k \in 1 .. Cardinality(S) : Nth(S, k) \in S /\ Rank(S, Nth(S, k)) = k
         /\ \A i \in S : Rank(S, i) \in 1 .. Cardinality(S) /\ Nth(S, Rank(S, i)) = i
<1>1. Cardinality(S) \in Nat
  BY FS_CardinalityType
<1>2. /\ \A i \in S : Rank(S, i) \in 1 .. Cardinality(S)
      /\ \A i, k \in S : i < k => Rank(S, i) < Rank(S, k)
  BY RankIs
<1>3. \A i, k \in S : Rank(S, i) = Rank(S, k) => i = k
  BY <1>1, <1>2
<1> DEFINE f == [i \in S |-> Rank(S, i)]
<1>4. f \in Injection(S, 1 .. Cardinality(S))
  BY <1>2, <1>3 DEF Injection, IsInjective
<1>5. IsFiniteSet(1 .. Cardinality(S)) /\ Cardinality(1 .. Cardinality(S)) = Cardinality(S)
  BY <1>1, FS_Interval
<1>6. f \in Surjection(S, 1 .. Cardinality(S))
  BY <1>4, <1>5, FS_Injection
<1>7. \A k \in 1 .. Cardinality(S) : \E i \in S : Rank(S, i) = k
  BY <1>6, Zenon DEF Surjection
<1>8. \A k \in 1 .. Cardinality(S) : Nth(S, k) \in S /\ Rank(S, Nth(S, k)) = k
  BY <1>7 DEF Nth, Rank
<1> QED
  BY <1>1, <1>2, <1>3, <1>8, Zenon

(* Nothing of the set is between one element and the next.                 *)
LEMMA NthNext ==
  ASSUME NEW S \in SUBSET Nat, IsFiniteSet(S),
         NEW k \in 1 .. Cardinality(S), k + 1 \in 1 .. Cardinality(S)
  PROVE  /\ Nth(S, k) < Nth(S, k + 1)
         /\ \A i \in S : ~(Nth(S, k) < i /\ i < Nth(S, k + 1))
<1>1. /\ Cardinality(S) \in Nat
      /\ Nth(S, k) \in S /\ Rank(S, Nth(S, k)) = k
      /\ Nth(S, k + 1) \in S /\ Rank(S, Nth(S, k + 1)) = k + 1
  BY NthIs
<1>2. /\ \A i \in S : Rank(S, i) \in 1 .. Cardinality(S)
      /\ \A i, j \in S : i < j => Rank(S, i) < Rank(S, j)
  BY RankIs
<1>3. PICK a \in S, b \in S : a = Nth(S, k) /\ b = Nth(S, k + 1)
  BY <1>1, Zenon
<1>4. \A i, j \in S : Rank(S, i) <= Rank(S, j) => i <= j
  BY <1>2
<1>5. a <= b /\ a # b
  BY <1>1, <1>3, <1>4
<1>6. ASSUME NEW i \in S, a < i, i < b PROVE FALSE
  <2>1. k < Rank(S, i) /\ Rank(S, i) < k + 1 /\ Rank(S, i) \in Nat
    BY <1>1, <1>2, <1>3, <1>6
  <2> QED
    BY <2>1
<1> QED
  BY <1>3, <1>5, <1>6

LEMMA NthInterval ==
  ASSUME NEW n \in Nat
  PROVE  /\ IsFiniteSet(1 .. n) /\ Cardinality(1 .. n) = n
         /\ \A k \in 1 .. n : Nth(1 .. n, k) = k
<1>1. \A k \in 0 .. n : IsFiniteSet(1 .. k) /\ Cardinality(1 .. k) = k
  BY FS_Interval
<1>2. ASSUME NEW k \in 1 .. n PROVE Rank(1 .. n, k) = k
  <2>1. {j \in 1 .. n : j <= k} = 1 .. k
    OBVIOUS
  <2>2. k \in 0 .. n
    OBVIOUS
  <2> QED
    BY <1>1, <2>1, <2>2, Zenon DEF Rank
<1>3. \A i \in 1 .. n : Nth(1 .. n, Rank(1 .. n, i)) = i
  BY <1>1, NthIs
<1> QED
  BY <1>1, <1>2, <1>3

-----------------------------------------------------------------------------
(* What is at some positions of a sequence.                                *)

IsSeq(p) == p \in Seq(Range(p))

LEMMA AtIs ==
  ASSUME NEW p, IsSeq(p), NEW S \in SUBSET (1 .. Len(p))
  PROVE  /\ IsFiniteSet(S) /\ Cardinality(S) \in Nat
         /\ IsSeq(At(p, S)) /\ Len(At(p, S)) = Cardinality(S)
         /\ \A k \in 1 .. Cardinality(S) : At(p, S)[k] = p[Nth(S, k)] /\ Nth(S, k) \in S
<1>1. IsFiniteSet(S)
  <2>1. IsFiniteSet(1 .. Len(p))
    BY FS_Interval DEF IsSeq
  <2> QED
    BY <2>1, FS_Subset, Zenon
<1>2. S \in SUBSET Nat
  BY DEF IsSeq
<1>3. Cardinality(S) \in Nat /\ \A k \in 1 .. Cardinality(S) : Nth(S, k) \in S
  BY <1>1, <1>2, NthIs
<1>4. At(p, S) = [k \in 1 .. Cardinality(S) |-> p[Nth(S, k)]]
  BY DEF At
<1>5. At(p, S) \in Seq(Range(At(p, S))) /\ Len(At(p, S)) = Cardinality(S)
  BY <1>3, <1>4 DEF Range
<1> QED
  BY <1>1, <1>3, <1>4, <1>5 DEF IsSeq

LEMMA AtAll ==
  ASSUME NEW p, IsSeq(p)
  PROVE  At(p, 1 .. Len(p)) = p
<1>1. Len(p) \in Nat /\ p = [k \in 1 .. Len(p) |-> p[k]]
  BY DEF IsSeq
<1>2. Cardinality(1 .. Len(p)) = Len(p) /\ \A k \in 1 .. Len(p) : Nth(1 .. Len(p), k) = k
  BY <1>1, NthInterval
<1> QED
  BY <1>1, <1>2 DEF At

(* No two slashes are next to each other.                                  *)
Apart(p) == \A i \in 1 .. Len(p) - 1 : ~(p[i] = "/" /\ p[i + 1] = "/")

Rooted(p) == p # << >> /\ p[1] = "/"

SlashKept(p) == {i \in 1 .. Len(p) : ~(i > 1 /\ p[i] = "/" /\ p[i - 1] = "/")}

LEMMA OneSlashIs ==
  ASSUME NEW p, IsSeq(p), Rooted(p)
  PROVE  /\ IsSeq(OneSlash(p)) /\ Rooted(OneSlash(p))
         /\ Apart(OneSlash(p))
         /\ NamesApart(p) => NamesApart(OneSlash(p))
<1> DEFINE S == SlashKept(p)
           q == OneSlash(p)
<1>1. q = At(p, S) /\ S \in SUBSET (1 .. Len(p)) /\ S \in SUBSET Nat
  BY DEF OneSlash, SlashKept
<1>2. Len(p) \in Nat /\ Len(p) >= 1 /\ 1 \in S
  BY DEF IsSeq, Rooted, SlashKept
<1>3. /\ IsFiniteSet(S) /\ Cardinality(S) \in Nat /\ IsSeq(q) /\ Len(q) = Cardinality(S)
      /\ \A k \in 1 .. Cardinality(S) : q[k] = p[Nth(S, k)] /\ Nth(S, k) \in S
  BY <1>1, AtIs
<1>4. ASSUME NEW i \in 1 .. Len(p), i \notin S PROVE i > 1 /\ p[i] = "/" /\ p[i - 1] = "/"
  BY <1>4 DEF SlashKept
<1>5. ASSUME NEW i \in S, i > 1 PROVE ~(p[i] = "/" /\ p[i - 1] = "/")
  BY <1>5 DEF SlashKept
<1> HIDE DEF S, q
<1>6. q[1] = "/" /\ Len(q) >= 1
  <2>1. Rank(S, 1) \in 1 .. Cardinality(S) /\ Nth(S, Rank(S, 1)) = 1
    BY <1>1, <1>2, <1>3, NthIs
  <2>2. 1 \in 1 .. Cardinality(S) /\ Nth(S, 1) \in S /\ Rank(S, Nth(S, 1)) = 1
    BY <1>1, <1>3, <2>1, NthIs
  <2>3. PICK i \in S : i = Nth(S, 1)
    BY <2>2
  <2>4. \A k \in S : 1 < k => Rank(S, 1) < Rank(S, k)
    BY <1>1, <1>2, <1>3, RankIs
  <2>5. i = 1
    BY <1>1, <2>1, <2>2, <2>3, <2>4
  <2> QED
    BY <1>3, <2>2, <2>3, <2>5 DEF Rooted
<1>7. ASSUME NEW k \in 1 .. Len(q) - 1
      PROVE  \E i, j \in S :
                /\ q[k] = p[i] /\ q[k + 1] = p[j] /\ i < j
                /\ j # i + 1 => p[i] = "/" /\ p[i + 1] = "/" /\ p[j - 1] = "/"
  <2>1. k \in 1 .. Cardinality(S) /\ k + 1 \in 1 .. Cardinality(S)
    BY <1>3, <1>7
  <2>2. PICK i \in S, j \in S :
           i = Nth(S, k) /\ j = Nth(S, k + 1) /\ q[k] = p[i] /\ q[k + 1] = p[j]
    BY <1>3, <2>1
  <2>3. i < j /\ \A m \in S : ~(i < m /\ m < j)
    BY <1>1, <1>3, <2>1, <2>2, NthNext
  <2>4. ASSUME j # i + 1 PROVE p[i] = "/" /\ p[i + 1] = "/" /\ p[j - 1] = "/"
    <3>1. /\ i + 1 \in 1 .. Len(p) /\ i < i + 1 /\ i + 1 < j /\ i + 1 - 1 = i
          /\ j - 1 \in 1 .. Len(p) /\ i < j - 1 /\ j - 1 < j
      BY <1>1, <1>2, <2>3, <2>4
    <3>2. i + 1 \notin S /\ j - 1 \notin S
      BY <2>3, <3>1
    <3>3. p[i + 1] = "/" /\ p[i] = "/"
      <4>1. PICK m \in 1 .. Len(p) : m = i + 1 /\ m - 1 = i
        BY <1>1, <3>1
      <4>2. p[m] = "/" /\ p[m - 1] = "/"
        BY <1>4, <3>2, <4>1
      <4> QED
        BY <4>1, <4>2
    <3>4. p[j - 1] = "/"
      BY <1>4, <3>1, <3>2
    <3> QED
      BY <3>1, <3>3, <3>4
  <2> QED
    BY <2>2, <2>3, <2>4
<1>8. Apart(q)
  <2> SUFFICES ASSUME NEW k \in 1 .. Len(q) - 1, q[k] = "/", q[k + 1] = "/" PROVE FALSE
    BY DEF Apart
  <2>1. PICK i \in S, j \in S :
                /\ q[k] = p[i] /\ q[k + 1] = p[j] /\ i < j
                /\ j # i + 1 => p[i] = "/" /\ p[i + 1] = "/" /\ p[j - 1] = "/"
    BY <1>7
  <2>2. j > 1 /\ p[j] = "/" /\ p[j - 1] = "/"
    BY <1>1, <2>1
  <2> QED
    BY <1>5, <2>2
<1>9. ASSUME NamesApart(p) PROVE NamesApart(q)
  <2> SUFFICES ASSUME NEW k \in 1 .. Len(q) - 1 PROVE q[k] = "/" \/ q[k + 1] = "/"
    BY DEF NamesApart
  <2>1. PICK i \in S, j \in S :
                /\ q[k] = p[i] /\ q[k + 1] = p[j] /\ i < j
                /\ j # i + 1 => p[i] = "/" /\ p[i + 1] = "/" /\ p[j - 1] = "/"
    BY <1>7
  <2>2. j = i + 1 => i \in 1 .. Len(p) - 1
    BY <1>1, <1>2
  <2> QED
    BY <1>9, <2>1, <2>2 DEF NamesApart
<1>10. Rooted(q)
  BY <1>3, <1>6 DEF Rooted, IsSeq
<1> QED
  BY <1>3, <1>8, <1>9, <1>10 DEF q

-----------------------------------------------------------------------------
(* Slashes and names take turns, from a slash on.                          *)
TakeTurns(p) ==
  /\ IsSeq(p) /\ Len(p) >= 1
  /\ \A i \in 1 .. Len(p) : p[i] = "/" <=> i % 2 = 1

(* A set of numbers that has an element has a least one.                   *)
LEMMA Least ==
  ASSUME NEW T \in SUBSET Nat, T # {}
  PROVE  \E x \in T : \A y \in T : x <= y
<1> DEFINE R == OpToRel(<, Nat)
<1>1. \E x \in T : \A y \in T : <<y, x>> \notin R
  <2>1. IsWellFoundedOn(R, Nat)
    BY NatLessThanWellFounded, Zenon
  <2> HIDE DEF R
  <2> QED
    BY <2>1, WFMin, Zenon
<1>2. \A x, y \in Nat : <<y, x>> \in R <=> y < x
  BY DEF OpToRel
<1> HIDE DEF R
<1>3. PICK x \in T : \A y \in T : <<y, x>> \notin R
  BY <1>1
<1>4. ASSUME NEW y \in T PROVE x <= y
  <2>1. x \in Nat /\ y \in Nat
    OBVIOUS
  <2>2. ~(y < x)
    BY <1>2, <1>3, <2>1, Zenon
  <2> QED
    BY <2>1, <2>2
<1> QED
  BY <1>3, <1>4

LEMMA TurnsAre ==
  ASSUME NEW p, IsSeq(p), Rooted(p), Apart(p), NamesApart(p)
  PROVE  TakeTurns(p)
<1>1. Len(p) \in Nat /\ Len(p) >= 1
  BY DEF IsSeq, Rooted
<1> DEFINE Wrong == {i \in 1 .. Len(p) : ~(p[i] = "/" <=> i % 2 = 1)}
<1>2. ASSUME Wrong # {} PROVE FALSE
  <2>1. PICK i \in Wrong : \A j \in Wrong : i <= j
    <3>1. Wrong \in SUBSET Nat
      BY <1>1
    <3> HIDE DEF Wrong
    <3> QED
      BY <1>2, <3>1, Least
  <2>2. i # 1
    BY <2>1 DEF Rooted
  <2>3. PICK m \in 1 .. Len(p) - 1 : i = m + 1
    BY <1>1, <2>1, <2>2
  <2>4. p[m] = "/" <=> m % 2 = 1
    BY <1>1, <2>1, <2>3
  <2>5. p[m + 1] = "/" <=> p[m] # "/"
    BY <2>3 DEF Apart, NamesApart
  <2>6. (m + 1) % 2 = 1 <=> m % 2 # 1
    BY <2>3
  <2> QED
    BY <2>1, <2>3, <2>4, <2>5, <2>6
<1> QED
  BY <1>1, <1>2 DEF TakeTurns

(* What an increasing enumeration of a set of numbers says of Nth.         *)
LEMMA NthEnum ==
  ASSUME NEW n \in Nat, NEW f \in [1 .. n -> Nat],
         \A i, j \in 1 .. n : i < j => f[i] < f[j],
         NEW S, S = {f[i] : i \in 1 .. n}
  PROVE  /\ IsFiniteSet(S) /\ Cardinality(S) = n
         /\ \A k \in 1 .. n : Nth(S, k) = f[k]
<1>1. \A k \in 0 .. n : Cardinality({f[i] : i \in 1 .. k}) = k /\ IsFiniteSet({f[i] : i \in 1 .. k})
  <2> SUFFICES ASSUME NEW k \in 0 .. n
               PROVE  /\ Cardinality({f[i] : i \in 1 .. k}) = k
                      /\ IsFiniteSet({f[i] : i \in 1 .. k})
    BY Zenon
  <2> DEFINE T == {f[i] : i \in 1 .. k}
             g == [i \in 1 .. k |-> f[i]]
  <2>1. k \in Nat /\ 1 .. k \subseteq 1 .. n /\ 1 .. n \subseteq Nat
    OBVIOUS
  <2>2. \A i, j \in 1 .. k : f[i] = f[j] => i = j
    <3> SUFFICES ASSUME NEW i \in 1 .. k, NEW j \in 1 .. k, f[i] = f[j] PROVE i = j
      OBVIOUS
    <3>1. i \in 1 .. n /\ j \in 1 .. n /\ f[i] \in Nat /\ f[j] \in Nat
      BY <2>1
    <3> QED
      BY <3>1
  <2>3. g \in Bijection(1 .. k, T)
    BY <2>2 DEF Bijection, Injection, Surjection, IsInjective
  <2>4. IsFiniteSet(1 .. k) /\ Cardinality(1 .. k) = k
    BY <2>1, FS_Interval
  <2> HIDE DEF T, g
  <2>5. ExistsBijection(1 .. k, T)
    BY <2>3 DEF ExistsBijection
  <2>6. IsFiniteSet(T) /\ Cardinality(T) = k
    BY <2>4, <2>5, FS_Bijection
  <2> QED
    BY <2>6 DEF T
<1>2. IsFiniteSet(S) /\ Cardinality(S) = n /\ S \in SUBSET Nat
  <2>1. n \in 0 .. n
    OBVIOUS
  <2> QED
    BY <1>1, <2>1
<1>3. ASSUME NEW k \in 1 .. n PROVE Nth(S, k) = f[k]
  <2>1. \A i \in 1 .. n : f[i] <= f[k] <=> i \in 1 .. k
    <3> SUFFICES ASSUME NEW i \in 1 .. n PROVE f[i] <= f[k] <=> i \in 1 .. k
      OBVIOUS
    <3>1. f[i] \in Nat /\ f[k] \in Nat /\ i \in Nat /\ k \in Nat
      OBVIOUS
    <3>2. (i < k => f[i] < f[k]) /\ (k < i => f[k] < f[i])
      OBVIOUS
    <3> QED
      BY <3>1, <3>2
  <2>2. {j \in S : j <= f[k]} = {f[i] : i \in 1 .. k}
    BY <2>1
  <2>3. Rank(S, f[k]) = k
    <3>1. k \in 0 .. n
      OBVIOUS
    <3> QED
      BY <1>1, <2>2, <3>1 DEF Rank
  <2> QED
    BY <1>2, <2>3, NthIs
<1> QED
  BY <1>2, <1>3

(* The names of a path in which slashes and names take turns.              *)
LEMMA SegmentsAre ==
  ASSUME NEW p, TakeTurns(p)
  PROVE  Segments(p) = [k \in 1 .. Len(p) \div 2 |-> p[2 * k]]
<1>1. Len(p) \in Nat /\ Len(p) \div 2 \in Nat
  BY DEF TakeTurns, IsSeq
<1> DEFINE n == Len(p) \div 2
           f == [k \in 1 .. n |-> 2 * k]
           S == {i \in 1 .. Len(p) : p[i] # "/"}
<1>2. S = {i \in 1 .. Len(p) : i % 2 = 0}
  <2>1. \A i \in 1 .. Len(p) : i % 2 # 1 <=> i % 2 = 0
    BY <1>1
  <2> QED
    BY <2>1 DEF TakeTurns
<1>3. S = {f[k] : k \in 1 .. n}
  <2>1. ASSUME NEW i \in 1 .. Len(p), i % 2 = 0 PROVE i \div 2 \in 1 .. n /\ i = 2 * (i \div 2)
    BY <1>1, <2>1
  <2>2. ASSUME NEW k \in 1 .. n PROVE 2 * k \in 1 .. Len(p) /\ (2 * k) % 2 = 0
    BY <1>1, <2>2
  <2>3. S \subseteq {f[k] : k \in 1 .. n}
    BY <1>2, <2>1
  <2>4. {f[k] : k \in 1 .. n} \subseteq S
    BY <1>2, <2>2
  <2> QED
    BY <2>3, <2>4
<1>4. f \in [1 .. n -> Nat] /\ \A i, j \in 1 .. n : i < j => f[i] < f[j]
  BY <1>1
<1>5. Segments(p) = At(p, S)
  BY DEF Segments
<1>6. \A k \in 1 .. n : f[k] = 2 * k
  OBVIOUS
<1>a. n = Len(p) \div 2
  OBVIOUS
<1>7. Cardinality(S) = n /\ \A k \in 1 .. n : Nth(S, k) = f[k]
  <2> HIDE DEF S, f, n
  <2> QED
    BY <1>1, <1>3, <1>4, <1>a, NthEnum, Zenon
<1> HIDE DEF S, f, n
<1> QED
  BY <1>5, <1>6, <1>7, <1>a DEF At

LEMMA TurnsApart ==
  ASSUME NEW p, TakeTurns(p)
  PROVE  IsSeq(p) /\ Rooted(p) /\ Apart(p)
<1>1. IsSeq(p) /\ Len(p) \in Nat /\ Len(p) >= 1
  BY DEF TakeTurns, IsSeq
<1>2. Rooted(p)
  <2>1. 1 \in 1 .. Len(p) /\ 1 % 2 = 1
    BY <1>1
  <2> QED
    BY <1>1, <2>1 DEF TakeTurns, Rooted, IsSeq
<1>3. ASSUME NEW i \in 1 .. Len(p) - 1, p[i] = "/", p[i + 1] = "/" PROVE FALSE
  <2>1. i \in 1 .. Len(p) /\ i + 1 \in 1 .. Len(p) /\ i \in Nat
    BY <1>1
  <2>2. i % 2 = 1 /\ (i + 1) % 2 = 1
    BY <1>3, <2>1 DEF TakeTurns
  <2> QED
    BY <2>1, <2>2
<1> QED
  BY <1>1, <1>2, <1>3 DEF Apart

LEMMA PartIs ==
  ASSUME NEW p, IsSeq(p), NEW m \in 0 .. Len(p)
  PROVE  /\ IsSeq(SubSeq(p, 1, m)) /\ Len(SubSeq(p, 1, m)) = m
         /\ \A i \in 1 .. m : SubSeq(p, 1, m)[i] = p[i]
<1>1. Len(p) \in Nat /\ \A i \in 1 .. Len(p) : p[i] \in Range(p)
  BY DEF IsSeq
<1>2. m \in Nat /\ 1 .. m \subseteq 1 .. Len(p)
  BY <1>1
<1>3. SubSeq(p, 1, m) = [i \in 1 .. m |-> p[i]]
  BY <1>1, <1>2 DEF IsSeq
<1> DEFINE q == [i \in 1 .. m |-> p[i]]
<1>4. Len(q) = m /\ q \in Seq(Range(q))
  BY <1>2 DEF Range
<1> QED
  BY <1>3, <1>4, Zenon DEF IsSeq

LEMMA PartTurns ==
  ASSUME NEW p, TakeTurns(p), NEW m \in 1 .. Len(p)
  PROVE  TakeTurns(SubSeq(p, 1, m))
<1>1. Len(p) \in Nat /\ IsSeq(p) /\ m \in 0 .. Len(p)
  BY DEF TakeTurns, IsSeq
<1>2. /\ IsSeq(SubSeq(p, 1, m)) /\ Len(SubSeq(p, 1, m)) = m
      /\ \A i \in 1 .. m : SubSeq(p, 1, m)[i] = p[i]
  BY <1>1, PartIs
<1> QED
  BY <1>1, <1>2 DEF TakeTurns

LEMMA PartOfPart ==
  ASSUME NEW p, IsSeq(p), NEW m \in 0 .. Len(p), NEW i \in 0 .. m
  PROVE  SubSeq(SubSeq(p, 1, m), 1, i) = SubSeq(p, 1, i)
<1>1. Len(p) \in Nat /\ m \in Nat /\ i \in Nat /\ i \in 0 .. Len(p)
  BY DEF IsSeq
<1>2. PICK q : q = SubSeq(p, 1, m)
  BY Zenon
<1>3. IsSeq(q) /\ Len(q) = m /\ \A k \in 1 .. m : q[k] = p[k]
  BY <1>2, PartIs
<1>4. PICK r, s : r = SubSeq(q, 1, i) /\ s = SubSeq(p, 1, i)
  BY Zenon
<1>5. IsSeq(r) /\ Len(r) = i /\ \A k \in 1 .. i : r[k] = q[k]
  BY <1>1, <1>3, <1>4, PartIs
<1>6. IsSeq(s) /\ Len(s) = i /\ \A k \in 1 .. i : s[k] = p[k]
  BY <1>1, <1>4, PartIs
<1>7. \A k \in 1 .. i : r[k] = s[k]
  BY <1>1, <1>3, <1>5, <1>6
<1> QED
  BY <1>2, <1>4, <1>5, <1>6, <1>7 DEF IsSeq

LEMMA FunctionIsSeq ==
  ASSUME NEW n \in Nat, NEW f, f = [k \in 1 .. n |-> f[k]]
  PROVE  IsSeq(f) /\ Len(f) = n
<1>1. f \in [1 .. n -> Range(f)]
  BY DEF Range
<1> QED
  BY <1>1 DEF IsSeq

-----------------------------------------------------------------------------
(* Clean paths.                                                            *)

DotFree(p) == \A i \in 1 .. Len(p) : p[i] \notin {".", ".."}

(* What Clean gives of an absolute path.                                   *)
Tidy(d) == TakeTurns(d) /\ DotFree(d) /\ (Len(d) = 1 \/ Len(d) % 2 = 0)

LEMMA RootIs ==
  /\ IsSeq(<<"/">>) /\ Rooted(<<"/">>) /\ TakeTurns(<<"/">>) /\ Tidy(<<"/">>)
  /\ Len(<<"/">>) = 1
<1>1. PICK r : r = <<"/">>
  BY Zenon
<1>2. IsSeq(r) /\ Rooted(r) /\ Len(r) = 1 /\ r[1] = "/"
  BY <1>1 DEF IsSeq, Range, Rooted
<1>3. Apart(r) /\ NamesApart(r)
  BY <1>2 DEF Apart, NamesApart
<1>4. TakeTurns(r)
  BY <1>2, <1>3, TurnsAre
<1>5. Tidy(r)
  BY <1>2, <1>4 DEF Tidy, DotFree
<1> QED
  BY <1>1, <1>2, <1>4, <1>5

LEMMA OnlyRoot ==
  ASSUME NEW q, IsSeq(q), Rooted(q), Len(q) = 1
  PROVE  q = <<"/">>
  BY DEF IsSeq, Rooted

LEMMA AbsoluteIs ==
  ASSUME NEW p, IsSeq(p)
  PROVE  Absolute(p) <=> Rooted(p)
<1>1. Len(p) \in Nat /\ (Len(p) = 0 <=> p = << >>)
  BY DEF IsSeq
<1>2. CASE Len(p) = 0
  BY <1>1, <1>2, RootIs DEF Absolute, IsPrefix, Rooted
<1>3. CASE Len(p) # 0
  <2>1. 1 \in 0 .. Len(p)
    BY <1>1, <1>3
  <2>2. PICK q : q = SubSeq(p, 1, 1)
    BY Zenon
  <2>3. IsSeq(q) /\ Len(q) = 1 /\ \A i \in 1 .. 1 : q[i] = p[i]
    BY <2>1, <2>2, PartIs
  <2>4. q[1] = p[1] /\ q # << >>
    BY <2>3
  <2>5. q = <<"/">> <=> p[1] = "/"
    BY <2>3, <2>4, OnlyRoot, RootIs DEF Rooted
  <2>6. Absolute(p) <=> <<"/">> = q
    BY <1>1, <1>3, <2>2, RootIs DEF Absolute, IsPrefix
  <2> QED
    BY <1>1, <1>3, <2>5, <2>6 DEF Rooted
<1> QED
  BY <1>2, <1>3

LEMMA JoinIs ==
  ASSUME NEW s, IsSeq(s)
  PROVE  /\ Len(s) \in Nat /\ 2 * Len(s) \in Nat
         /\ IsSeq(Join(s)) /\ Len(Join(s)) = 2 * Len(s)
         /\ \A k \in 1 .. 2 * Len(s) : Join(s)[k] = IF k % 2 = 1 THEN "/" ELSE s[k \div 2]
<1>1. Len(s) \in Nat /\ 2 * Len(s) \in Nat
  BY DEF IsSeq
<1>2. PICK n, q : n = 2 * Len(s) /\ q = Join(s)
  BY Zenon
<1>3. q = [k \in 1 .. n |-> IF k % 2 = 1 THEN "/" ELSE s[k \div 2]]
  BY <1>2 DEF Join
<1>4. \A k \in 1 .. n : q[k] = IF k % 2 = 1 THEN "/" ELSE s[k \div 2]
  BY <1>3
<1>5. n \in Nat /\ q = [k \in 1 .. n |-> q[k]]
  BY <1>1, <1>2, <1>3
<1>6. IsSeq(q) /\ Len(q) = n
  BY <1>5, FunctionIsSeq
<1> QED
  BY <1>1, <1>2, <1>4, <1>6

LEMMA SegmentsIs ==
  ASSUME NEW p, IsSeq(p)
  PROVE  /\ IsSeq(Segments(p)) /\ Len(Segments(p)) \in Nat
         /\ \A k \in 1 .. Len(Segments(p)) : Segments(p)[k] # "/"
<1> DEFINE S == {i \in 1 .. Len(p) : p[i] # "/"}
<1>1. S \in SUBSET (1 .. Len(p)) /\ \A i \in S : p[i] # "/"
  OBVIOUS
<1>2. Segments(p) = At(p, S)
  BY DEF Segments
<1> HIDE DEF S
<1>3. /\ IsSeq(At(p, S)) /\ Len(At(p, S)) = Cardinality(S) /\ Cardinality(S) \in Nat
      /\ \A k \in 1 .. Cardinality(S) : At(p, S)[k] = p[Nth(S, k)] /\ Nth(S, k) \in S
  BY <1>1, AtIs
<1> QED
  BY <1>1, <1>2, <1>3, Zenon

(* Some of the names of a path, joined.                                    *)
Joined(p, S, t) ==
  /\ IsSeq(t) /\ Len(t) \in Nat /\ Len(t) >= 1
  /\ \A k \in 1 .. Len(t) : t[k] # "/" /\ \E i \in S : t[k] = Segments(p)[i]
  /\ IsSeq(Join(t)) /\ Len(Join(t)) = 2 * Len(t)
  /\ \A k \in 1 .. 2 * Len(t) : Join(t)[k] = IF k % 2 = 1 THEN "/" ELSE t[k \div 2]

LEMMA JoinSome ==
  ASSUME NEW p, IsSeq(p), NEW S \in SUBSET (1 .. Len(Segments(p))), S # {},
         NEW t, t = At(Segments(p), S)
  PROVE  Joined(p, S, t)
<1>1. PICK s : s = Segments(p) /\ t = At(s, S)
  OBVIOUS
<1>2. IsSeq(s) /\ Len(s) \in Nat /\ \A k \in 1 .. Len(s) : s[k] # "/"
  BY <1>1, SegmentsIs
<1>3. /\ IsFiniteSet(S) /\ Cardinality(S) \in Nat /\ IsSeq(t) /\ Len(t) = Cardinality(S)
      /\ \A k \in 1 .. Cardinality(S) : t[k] = s[Nth(S, k)] /\ Nth(S, k) \in S
  BY <1>1, <1>2, AtIs
<1>4. Len(t) >= 1
  <2>1. Cardinality(S) # 0
    BY <1>3, FS_EmptySet
  <2> QED
    BY <1>3, <2>1
<1>5. \A k \in 1 .. Len(t) : t[k] # "/" /\ \E i \in S : t[k] = s[i]
  BY <1>1, <1>2, <1>3, Zenon
<1>6. /\ IsSeq(Join(t)) /\ Len(Join(t)) = 2 * Len(t)
      /\ \A k \in 1 .. 2 * Len(t) : Join(t)[k] = IF k % 2 = 1 THEN "/" ELSE t[k \div 2]
  BY <1>3, JoinIs, Zenon
<1> QED
  BY <1>1, <1>3, <1>4, <1>5, <1>6 DEF Joined

LEMMA CleanRooted ==
  ASSUME NEW p, IsSeq(p), Rooted(p)
  PROVE  Tidy(Clean(p))
<1>1. PICK S : S = Stay(Segments(p))
  OBVIOUS
<1>a. PICK t : t = At(Segments(p), S)
  OBVIOUS
<1>2. Clean(p) = IF S = {} THEN <<"/">> ELSE Join(t)
  BY <1>1, <1>a, AbsoluteIs DEF Clean
<1>3. /\ S \in SUBSET (1 .. Len(Segments(p)))
      /\ \A i \in S : Segments(p)[i] \notin {".", ".."}
  BY <1>1 DEF Stay
<1>4. CASE S = {}
  BY <1>2, <1>4, RootIs
<1>5. CASE S # {}
  <2>1. Joined(p, S, t)
    BY <1>a, <1>3, <1>5, JoinSome
  <2>2. PICK q : q = Join(t)
    BY Zenon
  <2>3. /\ IsSeq(q) /\ Len(q) = 2 * Len(t)
        /\ \A k \in 1 .. 2 * Len(t) : q[k] = IF k % 2 = 1 THEN "/" ELSE t[k \div 2]
    BY <2>1, <2>2 DEF Joined
  <2>4. /\ Len(t) \in Nat /\ Len(t) >= 1
        /\ \A k \in 1 .. Len(t) : t[k] \notin {"/", ".", ".."}
    BY <1>3, <2>1 DEF Joined
  <2>5. ASSUME NEW k \in 1 .. Len(q)
        PROVE  /\ q[k] = "/" <=> k % 2 = 1
               /\ q[k] \notin {".", ".."}
    <3>1. CASE k % 2 = 1
      BY <2>3, <3>1
    <3>2. CASE k % 2 # 1
      <4>1. k \div 2 \in 1 .. Len(t)
        BY <2>3, <2>4, <3>2
      <4> QED
        BY <2>3, <2>4, <3>2, <4>1, Zenon
    <3> QED
      BY <3>1, <3>2
  <2>6. Len(q) >= 1 /\ Len(q) % 2 = 0
    BY <2>3, <2>4
  <2>7. Tidy(q)
    BY <2>3, <2>5, <2>6 DEF Tidy, TakeTurns, DotFree
  <2> QED
    BY <1>2, <1>5, <2>2, <2>7
<1> QED
  BY <1>4, <1>5

(* A relative path stays relative.                                         *)
LEMMA CleanRelative ==
  ASSUME NEW p, IsSeq(p), ~Rooted(p)
  PROVE  IsSeq(Clean(p)) /\ ~Rooted(Clean(p))
<1>1. PICK S : S = Stay(Segments(p)) \cup Lead(Segments(p))
  BY Zenon
<1>a. PICK t : t = At(Segments(p), S)
  OBVIOUS
<1>2. Clean(p) = IF S = {} THEN <<".">> ELSE Tail(Join(t))
  BY <1>1, <1>a, AbsoluteIs DEF Clean
<1>3. S \in SUBSET (1 .. Len(Segments(p)))
  BY <1>1 DEF Stay, Lead
<1>4. CASE S = {}
  BY <1>2, <1>4 DEF IsSeq, Rooted, Range
<1>5. CASE S # {}
  <2>1. Joined(p, S, t)
    BY <1>a, <1>3, <1>5, JoinSome
  <2>2. PICK q : q = Join(t)
    BY Zenon
  <2>3. /\ IsSeq(q) /\ Len(q) = 2 * Len(t)
        /\ \A k \in 1 .. 2 * Len(t) : q[k] = IF k % 2 = 1 THEN "/" ELSE t[k \div 2]
    BY <2>1, <2>2 DEF Joined
  <2>4. q[2] # "/" /\ Len(q) >= 2 /\ Len(q) \in Nat
    <3>1. 2 \in 1 .. 2 * Len(t) /\ 2 % 2 # 1 /\ 2 \div 2 = 1 /\ 1 \in 1 .. Len(t)
      BY <2>1 DEF Joined
    <3> QED
      BY <2>1, <2>3, <3>1 DEF Joined
  <2>5. PICK u, n : u = Tail(q) /\ n = Len(q) - 1
    BY Zenon
  <2>6. n \in Nat /\ u = [i \in 1 .. n |-> u[i]] /\ u[1] = q[2]
    <3>1. q \in Seq(Range(q)) /\ q # << >>
      BY <2>3, <2>4 DEF IsSeq
    <3>2. /\ Tail(q) \in Seq(Range(q)) /\ Len(Tail(q)) = Len(q) - 1
          /\ \A i \in 1 .. Len(q) - 1 : Tail(q)[i] = q[i + 1]
      BY <2>4, <3>1
    <3>3. n \in Nat /\ 1 \in 1 .. n /\ 1 + 1 = 2
      BY <2>4, <2>5
    <3>4. PICK X : u \in Seq(X) /\ Len(u) = n
      BY <2>5, <3>2
    <3>5. u = [i \in 1 .. n |-> u[i]]
      BY <3>4
    <3>6. u[1] = q[2]
      BY <2>5, <3>2, <3>3
    <3> QED
      BY <3>3, <3>5, <3>6
  <2>7. IsSeq(u)
    BY <2>6, FunctionIsSeq
  <2> QED
    BY <1>2, <1>5, <2>2, <2>4, <2>5, <2>6, <2>7 DEF Rooted
<1> QED
  BY <1>4, <1>5

(* What is clean already, but for a slash at the end.                      *)
LEMMA CleanTurns ==
  ASSUME NEW p, TakeTurns(p), DotFree(p)
  PROVE  Clean(p) = IF Len(p) = 1 THEN <<"/">> ELSE SubSeq(p, 1, 2 * (Len(p) \div 2))
<1>1. IsSeq(p) /\ Len(p) \in Nat /\ Len(p) >= 1 /\ Rooted(p)
  BY TurnsApart DEF TakeTurns, IsSeq
<1>2. PICK n, s : n = Len(p) \div 2 /\ s = Segments(p)
  OBVIOUS
<1>3. n \in Nat /\ 2 * n \in 0 .. Len(p) /\ (n = 0 <=> Len(p) = 1)
  <2>1. PICK m \in Nat : m = Len(p)
    BY <1>1
  <2>2. /\ m \div 2 \in Nat /\ 2 * (m \div 2) \in 0 .. m
        /\ m \div 2 = 0 <=> m = 1
    BY <1>1, <2>1
  <2> QED
    BY <1>2, <2>1, <2>2
<1>4. s = [k \in 1 .. n |-> p[2 * k]]
  BY <1>2, SegmentsAre
<1>5. IsSeq(s) /\ Len(s) = n
  <2>1. s = [k \in 1 .. n |-> s[k]]
    BY <1>4
  <2> QED
    BY <1>3, <2>1, FunctionIsSeq
<1>6. \A k \in 1 .. n : s[k] = p[2 * k] /\ s[k] \notin {".", ".."}
  <2>1. \A k \in 1 .. n : 2 * k \in 1 .. Len(p)
    BY <1>3
  <2> QED
    BY <1>4, <2>1 DEF DotFree
<1>7. Stay(s) = 1 .. n
  <2>1. ASSUME NEW i \in 1 .. n, NEW j \in i + 1 .. n
        PROVE  Ups(s, i + 1, j) <= Names(s, i + 1, j)
    <3>1. i + 1 .. j \subseteq 1 .. n
      BY <1>3
    <3>2. {k \in i + 1 .. j : s[k] = ".."} = {}
      BY <1>6, <3>1
    <3>3. Ups(s, i + 1, j) = 0
      BY <3>2, FS_EmptySet DEF Ups
    <3>4. IsFiniteSet(i + 1 .. j)
      BY <1>3, FS_Interval
    <3>5. IsFiniteSet({k \in i + 1 .. j : s[k] \notin {".", ".."}})
      BY <3>4, FS_Subset
    <3>6. Names(s, i + 1, j) \in Nat
      BY <3>5, FS_CardinalityType DEF Names
    <3> QED
      BY <3>3, <3>6
  <2> QED
    BY <1>5, <1>6, <2>1 DEF Stay
<1>8. Clean(p) = IF n = 0 THEN <<"/">> ELSE Join(s)
  <2>1. At(s, 1 .. n) = s
    BY <1>5, AtAll
  <2>2. 1 .. n = {} <=> n = 0
    BY <1>3
  <2> QED
    BY <1>1, <1>2, <1>7, <2>1, <2>2, AbsoluteIs DEF Clean
<1>9. Join(s) = SubSeq(p, 1, 2 * n)
  <2>1. PICK q, u : q = Join(s) /\ u = SubSeq(p, 1, 2 * n)
    BY Zenon
  <2>2. /\ IsSeq(q) /\ Len(q) = 2 * n
        /\ \A k \in 1 .. 2 * n : q[k] = IF k % 2 = 1 THEN "/" ELSE s[k \div 2]
    BY <1>5, <2>1, JoinIs, Zenon
  <2>3. IsSeq(u) /\ Len(u) = 2 * n /\ \A k \in 1 .. 2 * n : u[k] = p[k]
    BY <1>1, <1>3, <2>1, PartIs
  <2>4. ASSUME NEW k \in 1 .. 2 * n PROVE q[k] = p[k]
    <3>1. k \in 1 .. Len(p) /\ k \in Nat
      BY <1>1, <1>3
    <3>2. CASE k % 2 = 1
      BY <2>2, <3>1, <3>2 DEF TakeTurns
    <3>3. CASE k % 2 # 1
      <4>1. k \div 2 \in 1 .. n /\ 2 * (k \div 2) = k
        BY <1>3, <3>1, <3>3
      <4> QED
        BY <1>6, <2>2, <3>3, <4>1
    <3> QED
      BY <3>2, <3>3
  <2> QED
    BY <2>1, <2>2, <2>3, <2>4 DEF IsSeq
<1> QED
  BY <1>2, <1>3, <1>8, <1>9

-----------------------------------------------------------------------------
(* Directories.                                                            *)

LEMMA LastSlashIs ==
  ASSUME NEW p, IsSeq(p)
  PROVE  /\ LastSlash(p) \in 0 .. Len(p)
         /\ LastSlash(p) = 0 \/ p[LastSlash(p)] = "/"
         /\ \A j \in LastSlash(p) + 1 .. Len(p) : p[j] # "/"
<1>1. Len(p) \in Nat
  BY DEF IsSeq
<1> DEFINE S == {i \in 0 .. Len(p) : i = 0 \/ p[i] = "/"}
           T == {Len(p) - i : i \in S}
<1>2. T \in SUBSET Nat /\ T # {}
  <2>1. 0 \in S
    BY <1>1
  <2> QED
    BY <1>1, <2>1
<1>3. \A x \in T : \E i \in S : x = Len(p) - i
  OBVIOUS
<1>4. \A i \in S : Len(p) - i \in T
  OBVIOUS
<1> HIDE DEF T
<1>5. PICK x \in T : \A y \in T : x <= y
  BY <1>2, Least
<1>6. PICK i \in S : x = Len(p) - i
  BY <1>3, <1>5
<1>7. ASSUME NEW j \in i + 1 .. Len(p) PROVE p[j] # "/"
  <2> SUFFICES ASSUME p[j] = "/" PROVE FALSE
    OBVIOUS
  <2>1. j \in S /\ j > i /\ j \in Nat /\ i \in Nat
    BY <1>1, <1>6
  <2>2. Len(p) - i <= Len(p) - j
    BY <1>4, <1>5, <1>6, <2>1
  <2> QED
    BY <1>1, <2>1, <2>2
<1>8. \E k \in 0 .. Len(p) : (k = 0 \/ p[k] = "/") /\ \A j \in k + 1 .. Len(p) : p[j] # "/"
  BY <1>6, <1>7
<1> QED
  BY <1>8, Zenon DEF LastSlash

LEMMA DirTidy ==
  ASSUME NEW p, IsSeq(p), Rooted(p)
  PROVE  Tidy(Dir(p))
<1>1. PICK m, cut : m = LastSlash(p) /\ cut = SubSeq(p, 1, m)
  BY Zenon
<1>2. Len(p) \in Nat /\ 1 \in 1 .. Len(p) /\ p[1] = "/"
  BY DEF IsSeq, Rooted
<1>3. m \in 0 .. Len(p) /\ \A j \in m + 1 .. Len(p) : p[j] # "/"
  BY <1>1, LastSlashIs
<1>4. m \in 1 .. Len(p)
  BY <1>2, <1>3
<1>5. IsSeq(cut) /\ Len(cut) = m /\ \A i \in 1 .. m : cut[i] = p[i]
  BY <1>1, <1>3, PartIs
<1>6. Rooted(cut)
  BY <1>2, <1>4, <1>5 DEF Rooted
<1> QED
  BY <1>1, <1>5, <1>6, CleanRooted DEF Dir

LEMMA DirRelative ==
  ASSUME NEW p, IsSeq(p), ~Rooted(p)
  PROVE  IsSeq(Dir(p)) /\ ~Rooted(Dir(p))
<1>1. PICK m, cut : m = LastSlash(p) /\ cut = SubSeq(p, 1, m)
  BY Zenon
<1>2. m \in 0 .. Len(p) /\ Len(p) \in Nat
  BY <1>1, LastSlashIs DEF IsSeq
<1>3. IsSeq(cut) /\ Len(cut) = m /\ \A i \in 1 .. m : cut[i] = p[i]
  BY <1>1, <1>2, PartIs
<1>4. ~Rooted(cut)
  <2>1. CASE m = 0
    BY <1>3, <2>1 DEF IsSeq, Rooted
  <2>2. CASE m # 0
    <3>1. 1 \in 1 .. m /\ Len(p) # 0
      BY <1>2, <2>2
    <3>2. p # << >>
      BY <3>1
    <3> QED
      BY <1>3, <3>1, <3>2 DEF Rooted
  <2> QED
    BY <2>1, <2>2
<1> QED
  BY <1>1, <1>3, <1>4, CleanRelative DEF Dir

(* Of a path without dots and repeated slashes.                            *)
LEMMA DirOfTurns ==
  ASSUME NEW p, TakeTurns(p), DotFree(p)
  PROVE  Dir(p) = IF Len(p) <= 2 THEN <<"/">>
                  ELSE SubSeq(p, 1, IF Len(p) % 2 = 0 THEN Len(p) - 2 ELSE Len(p) - 1)
<1>1. IsSeq(p) /\ Len(p) \in Nat /\ Len(p) >= 1
  BY DEF TakeTurns, IsSeq
<1>2. PICK m, cut : m = LastSlash(p) /\ cut = SubSeq(p, 1, m)
  BY Zenon
<1>3. /\ m \in 0 .. Len(p) /\ (m = 0 \/ p[m] = "/")
      /\ \A j \in m + 1 .. Len(p) : p[j] # "/"
  BY <1>1, <1>2, LastSlashIs
<1>4. m = IF Len(p) % 2 = 0 THEN Len(p) - 1 ELSE Len(p)
  <2>1. \A i \in 1 .. Len(p) : p[i] = "/" <=> i % 2 = 1
    BY DEF TakeTurns
  <2>2. CASE Len(p) % 2 = 0
    <3>1. Len(p) - 1 \in 1 .. Len(p) /\ (Len(p) - 1) % 2 = 1 /\ Len(p) \in 1 .. Len(p)
      BY <1>1, <2>2
    <3>2. p[Len(p) - 1] = "/" /\ p[Len(p)] # "/"
      BY <2>1, <2>2, <3>1
    <3> QED
      BY <1>1, <1>3, <2>2, <3>1, <3>2
  <2>3. CASE Len(p) % 2 # 0
    <3>1. Len(p) % 2 = 1 /\ Len(p) \in 1 .. Len(p)
      BY <1>1, <2>3
    <3>2. p[Len(p)] = "/"
      BY <2>1, <3>1
    <3> QED
      BY <1>1, <1>3, <2>3, <3>1, <3>2
  <2> QED
    BY <2>2, <2>3
<1>5. /\ m \in 1 .. Len(p) /\ m % 2 = 1 /\ (m = 1 <=> Len(p) <= 2)
      /\ m - 1 = IF Len(p) % 2 = 0 THEN Len(p) - 2 ELSE Len(p) - 1
  <2>1. PICK n \in Nat : n = Len(p) /\ n >= 1
    BY <1>1
  <2>2. m = IF n % 2 = 0 THEN n - 1 ELSE n
    BY <1>4, <2>1
  <2>3. m \in 1 .. n /\ m % 2 = 1
    <3>1. CASE n % 2 = 0
      <4>1. m = n - 1 /\ n # 1
        BY <2>2, <3>1
      <4>2. (n - 1) % 2 = 1 /\ n - 1 \in 1 .. n
        BY <2>1, <3>1, <4>1
      <4> QED
        BY <4>1, <4>2
    <3>2. CASE n % 2 # 0
      BY <2>1, <2>2, <3>2
    <3> QED
      BY <3>1, <3>2
  <2>4. /\ m = 1 <=> n <= 2
        /\ m - 1 = IF n % 2 = 0 THEN n - 2 ELSE n - 1
    BY <2>1, <2>2
  <2> QED
    BY <2>1, <2>3, <2>4
<1>6. TakeTurns(cut)
  BY <1>2, <1>5, PartTurns
<1>7. Len(cut) = m /\ \A i \in 1 .. m : cut[i] = p[i]
  BY <1>1, <1>2, <1>3, PartIs
<1>8. DotFree(cut)
  BY <1>1, <1>5, <1>7 DEF DotFree
<1>9. Dir(p) = IF m = 1 THEN <<"/">> ELSE SubSeq(cut, 1, 2 * (m \div 2))
  <2>1. Clean(cut) = IF Len(cut) = 1 THEN <<"/">> ELSE SubSeq(cut, 1, 2 * (Len(cut) \div 2))
    BY <1>6, <1>8, CleanTurns
  <2> QED
    BY <1>2, <1>7, <2>1, Zenon DEF Dir
<1>10. 2 * (m \div 2) = m - 1 /\ m - 1 \in 0 .. m
  BY <1>1, <1>5
<1>11. SubSeq(cut, 1, m - 1) = SubSeq(p, 1, m - 1)
  BY <1>1, <1>2, <1>3, <1>10, PartOfPart
<1>12. Dir(p) = IF m = 1 THEN <<"/">> ELSE SubSeq(p, 1, m - 1)
  BY <1>9, <1>10, <1>11, Zenon
<1> QED
  BY <1>5, <1>12

LEMMA AboveRoot ==
  ASSUME NEW q, IsSeq(q)
  PROVE  Above(q, <<"/">>) <=> q = <<"/">>
<1>1. PICK r : r = <<"/">>
  BY Zenon
<1>2. IsSeq(r) /\ Len(r) = 1 /\ r[1] = "/"
  BY <1>1, RootIs DEF Rooted
<1>3. ASSUME IsPrefix(q, r), q # << >> PROVE q = r
  <2>1. Len(q) \in Nat /\ Len(q) # 0
    BY <1>3 DEF IsSeq
  <2>2. Len(q) = 1 /\ q = SubSeq(r, 1, 1)
    BY <1>2, <1>3, <2>1 DEF IsPrefix
  <2>3. SubSeq(r, 1, 1)[1] = r[1]
    <3>1. 1 \in 0 .. Len(r) /\ 1 \in 1 .. 1
      BY <1>2
    <3> QED
      BY <1>2, <3>1, PartIs
  <2>4. Rooted(q)
    BY <1>2, <1>3, <2>2, <2>3 DEF Rooted
  <2> QED
    BY <1>1, <2>2, <2>4, OnlyRoot, Zenon
<1> QED
  BY <1>1, <1>3 DEF Above

(* A path that is clean inherits from itself and from what is above it.    *)
LEMMA AboveIs ==
  ASSUME NEW d, Tidy(d), NEW q, IsSeq(q)
  PROVE  Above(q, d) <=> Inherits(q, d)
<1>1. TakeTurns(d) /\ DotFree(d) /\ IsSeq(d) /\ Len(d) \in Nat /\ Len(d) >= 1 /\ Rooted(d)
  BY TurnsApart DEF Tidy, TakeTurns, IsSeq
<1>2. Len(q) \in Nat /\ (q = << >> <=> Len(q) = 0)
  BY DEF IsSeq
<1>3. Above(d, d)
  <2>1. SubSeq(d, 1, Len(d)) = d
    BY <1>1 DEF IsSeq
  <2> QED
    BY <1>1, <2>1 DEF Above, IsPrefix
<1>4. CASE Len(d) = 1
  <2>1. d = <<"/">>
    BY <1>1, <1>4, OnlyRoot
  <2>2. Dir(d) = <<"/">>
    BY <1>1, <1>4, DirOfTurns
  <2> QED
    BY <1>3, <2>1, <2>2 DEF Inherits
<1>5. CASE Len(d) = 2
  <2>1. Dir(d) = <<"/">>
    <3>1. Len(d) <= 2
      BY <1>5
    <3> QED
      BY <1>1, <3>1, DirOfTurns
  <2>2. Above(q, <<"/">>) => q = <<"/">>
    BY AboveRoot
  <2>3. ASSUME Above(q, d) PROVE q = <<"/">> \/ q = d
    <3> SUFFICES ASSUME IsPrefix(q, d), q # << >> PROVE q = <<"/">> \/ q = d
      BY <2>3 DEF Above
    <3>1. Len(q) \in 1 .. 2 /\ q = SubSeq(d, 1, Len(q))
      BY <1>2, <1>5 DEF IsPrefix
    <3>2. CASE Len(q) = 2
      BY <1>1, <1>5, <3>1, <3>2 DEF IsSeq
    <3>3. CASE Len(q) = 1
      <4>1. 1 \in 0 .. Len(d) /\ 1 \in 1 .. 1
        BY <1>5
      <4>2. SubSeq(d, 1, 1)[1] = d[1]
        BY <1>1, <4>1, PartIs
      <4>3. Rooted(q)
        BY <1>1, <1>2, <3>1, <3>3, <4>2 DEF Rooted
      <4> QED
        BY <3>3, <4>3, OnlyRoot
    <3> QED
      BY <3>1, <3>2, <3>3
  <2>4. Above(<<"/">>, d) /\ Above(<<"/">>, <<"/">>)
    BY DEF Above
  <2> QED
    BY <1>3, <2>1, <2>2, <2>3, <2>4 DEF Inherits
<1>6. CASE Len(d) > 2
  <2>1. Len(d) % 2 = 0
    <3>1. Len(d) # 1
      BY <1>1, <1>6
    <3> QED
      BY <3>1 DEF Tidy
  <2>2. PICK n, e : n = Len(d) - 2 /\ e = SubSeq(d, 1, n)
    BY Zenon
  <2>3. n \in Nat /\ n \in 0 .. Len(d) /\ n >= 1 /\ n % 2 = 0 /\ n + 2 = Len(d)
    BY <1>1, <1>6, <2>1, <2>2
  <2>4. Dir(d) = e
    <3>1. ~(Len(d) <= 2)
      BY <1>1, <1>6
    <3> QED
      BY <1>1, <2>1, <2>2, <3>1, DirOfTurns
  <2>5. IsSeq(e) /\ Len(e) = n /\ \A i \in 1 .. n : e[i] = d[i]
    BY <1>1, <2>2, <2>3, PartIs
  <2>6. \A i \in 1 .. Len(d) : d[i] = "/" <=> i % 2 = 1
    BY <1>1 DEF TakeTurns
  <2>7. ASSUME NEW k \in 1 .. n PROVE SubSeq(e, 1, k) = SubSeq(d, 1, k)
    BY <1>1, <2>2, <2>3, PartOfPart
  <2>8. ASSUME q # <<"/">>, q # d
        PROVE  Above(q, d) <=> Above(q, e)
    <3>1. Above(q, d) <=> /\ Len(q) \in 1 .. Len(d) /\ q = SubSeq(d, 1, Len(q))
                          /\ Len(q) = Len(d) \/ d[Len(q) + 1] = "/"
      BY <1>1, <1>2, <2>8 DEF Above, IsPrefix
    <3>2. Above(q, e) <=> /\ Len(q) \in 1 .. n /\ q = SubSeq(e, 1, Len(q))
                          /\ Len(q) = n \/ e[Len(q) + 1] = "/"
      BY <1>2, <2>3, <2>5, <2>8 DEF Above, IsPrefix
    <3>3. ASSUME Len(q) \in 1 .. Len(d), q = SubSeq(d, 1, Len(q)),
                 Len(q) = Len(d) \/ d[Len(q) + 1] = "/"
          PROVE  Above(q, e)
      <4>1. Len(q) # Len(d)
        BY <1>1, <2>8, <3>3 DEF IsSeq
      <4>2. (Len(q) + 1) % 2 = 1
        BY <1>1, <1>2, <2>6, <3>3, <4>1
      <4>3. Len(q) \in 1 .. n
        <5>a. PICK k \in 1 .. n + 2 : k = Len(q) /\ k # n + 2
          BY <2>3, <3>3, <4>1, Zenon
        <5>1. k \in Nat /\ k >= 1 /\ k < n + 2
          BY <2>3, <5>a
        <5>2. (k + 1) % 2 = 1
          BY <4>2, <5>a, Zenon
        <5>3. k # n + 1
          <6>1. (n + 1 + 1) % 2 = 0
            BY <2>3
          <6>2. ASSUME k = n + 1 PROVE (n + 1 + 1) % 2 = 1
            BY <5>2, <6>2
          <6> QED
            BY <6>1, <6>2
        <5>4. k \in 1 .. n
          BY <2>3, <5>1, <5>3
        <5> QED
          BY <5>a, <5>4
      <4>4. Len(q) # n => Len(q) + 1 \in 1 .. n
        BY <1>2, <2>3, <4>3
      <4> QED
        BY <2>5, <2>7, <3>2, <3>3, <4>1, <4>3, <4>4
    <3>4. ASSUME Len(q) \in 1 .. n, q = SubSeq(e, 1, Len(q)),
                 Len(q) = n \/ e[Len(q) + 1] = "/"
          PROVE  Above(q, d)
      <4>1. Len(q) \in 1 .. Len(d) /\ Len(q) + 1 \in 1 .. Len(d)
        <5>1. PICK k \in 1 .. n : k = Len(q)
          BY <3>4, Zenon
        <5>2. k \in 1 .. n + 2 /\ k + 1 \in 1 .. n + 2
          BY <2>3
        <5> QED
          BY <2>3, <5>1, <5>2
      <4>2. d[Len(q) + 1] = "/"
        <5>1. CASE Len(q) = n
          <6>1. (n + 1) % 2 = 1
            BY <2>3
          <6> QED
            BY <2>6, <4>1, <5>1, <6>1
        <5>2. CASE Len(q) # n
          <6>1. Len(q) + 1 \in 1 .. n
            <7>1. PICK k \in 1 .. n : k = Len(q) /\ k # n
              BY <3>4, <5>2, Zenon
            <7>2. k + 1 \in 1 .. n
              BY <2>3, <7>1
            <7> QED
              BY <7>1, <7>2
          <6> QED
            BY <2>5, <3>4, <5>2, <6>1
        <5> QED
          BY <5>1, <5>2
      <4> QED
        BY <2>7, <3>1, <3>4, <4>1, <4>2
    <3> QED
      BY <3>1, <3>2, <3>3, <3>4
  <2>9. Above(<<"/">>, d) /\ Above(<<"/">>, e)
    BY DEF Above
  <2> QED
    BY <1>3, <2>4, <2>8, <2>9 DEF Inherits
<1>7. Len(d) = 1 \/ Len(d) = 2 \/ Len(d) > 2
  <2>1. PICK n \in Nat : n = Len(d) /\ n >= 1
    BY <1>1
  <2>2. n = 1 \/ n = 2 \/ n > 2
    BY <2>1
  <2> QED
    BY <2>1, <2>2
<1> QED
  BY <1>4, <1>5, <1>6, <1>7

(* The walk from a path to the root, step by step, and its end.            *)
LEMMA WalkOn ==
  ASSUME NEW p, IsSeq(p), Rooted(p), NEW q, IsSeq(q)
  PROVE  Inherits(q, p) <=> q = p \/ Inherits(q, Dir(p))
<1>1. Above(q, Dir(p)) <=> Inherits(q, Dir(p))
  BY DirTidy, AboveIs
<1> QED
  BY <1>1 DEF Inherits

LEMMA WalkEnds ==
  ASSUME NEW q, IsSeq(q)
  PROVE  Inherits(q, <<"/">>) <=> q = <<"/">>
<1>1. PICK r : r = <<"/">>
  BY Zenon
<1>2. TakeTurns(r) /\ DotFree(r) /\ Len(r) = 1
  BY <1>1, RootIs DEF Tidy
<1>3. Len(r) <= 2
  BY <1>2
<1>4. Dir(r) = r
  BY <1>1, <1>2, <1>3, DirOfTurns
<1>5. Above(q, r) <=> q = r
  BY <1>1, AboveRoot
<1> QED
  BY <1>1, <1>4, <1>5 DEF Inherits

-----------------------------------------------------------------------------
(* Inheritance, by names.                                                  *)

(* The names of q are the first names of p.                                *)
SameNames(q, p) ==
  /\ Len(q) \div 2 <= Len(p) \div 2
  /\ \A i \in 1 .. Len(q) \div 2 : q[2 * i] = p[2 * i]

LEMMA PrefixIs ==
  ASSUME NEW p, TakeTurns(p), NEW q, TakeTurns(q)
  PROVE  IsPrefix(Segments(q), Segments(p)) <=> SameNames(q, p)
<1> DEFINE n == Len(p) \div 2
           k == Len(q) \div 2
<1>1. n \in Nat /\ k \in Nat
  BY DEF TakeTurns, IsSeq
<1>2. PICK s, t : s = Segments(q) /\ t = Segments(p)
  OBVIOUS
<1>3. s = [i \in 1 .. k |-> q[2 * i]] /\ t = [i \in 1 .. n |-> p[2 * i]]
  BY <1>2, SegmentsAre
<1>4. SameNames(q, p) <=> k <= n /\ \A i \in 1 .. k : q[2 * i] = p[2 * i]
  BY DEF SameNames
<1> HIDE DEF n, k
<1>5. IsSeq(s) /\ Len(s) = k /\ IsSeq(t) /\ Len(t) = n
  <2>1. s = [i \in 1 .. k |-> s[i]] /\ t = [i \in 1 .. n |-> t[i]]
    BY <1>3
  <2> QED
    BY <1>1, <2>1, FunctionIsSeq
<1>6. ASSUME k <= n PROVE s = SubSeq(t, 1, k) <=> \A i \in 1 .. k : q[2 * i] = p[2 * i]
  <2>1. k \in 0 .. Len(t)
    BY <1>1, <1>5, <1>6
  <2>2. PICK u : u = SubSeq(t, 1, k)
    BY Zenon
  <2>3. IsSeq(u) /\ Len(u) = k /\ \A i \in 1 .. k : u[i] = t[i]
    BY <1>5, <2>1, <2>2, PartIs
  <2>4. \A i \in 1 .. k : s[i] = q[2 * i] /\ t[i] = p[2 * i]
    BY <1>1, <1>3, <1>6
  <2>5. s = u <=> \A i \in 1 .. k : s[i] = u[i]
    BY <1>5, <2>3 DEF IsSeq
  <2> QED
    BY <2>2, <2>3, <2>4, <2>5, Zenon
<1> QED
  BY <1>2, <1>4, <1>5, <1>6 DEF IsPrefix

LEMMA AboveIsPrefix ==
  ASSUME NEW d, Tidy(d), NEW q, Tidy(q)
  PROVE  Above(q, d) <=> SameNames(q, d)
<1>1. /\ IsSeq(d) /\ Len(d) \in Nat /\ Len(d) >= 1 /\ TakeTurns(d)
      /\ IsSeq(q) /\ Len(q) \in Nat /\ Len(q) >= 1 /\ TakeTurns(q) /\ Rooted(q)
  BY TurnsApart DEF Tidy, TakeTurns, IsSeq
<1>2. PICK a \in Nat, b \in Nat : a = Len(q) /\ b = Len(d) /\ a >= 1 /\ b >= 1
  BY <1>1
<1>3. CASE a = 1
  <2>1. q = <<"/">>
    BY <1>1, <1>2, <1>3, OnlyRoot, Zenon
  <2>2. 1 \div 2 = 0 /\ b \div 2 \in Nat
    BY <1>2
  <2>3. SameNames(q, d)
    BY <1>2, <1>3, <2>2 DEF SameNames
  <2> QED
    BY <2>1, <2>3 DEF Above
<1>4. CASE a # 1
  <2>1. PICK k \in Nat : a = 2 * k /\ a \div 2 = k /\ k >= 1
    <3>1. a % 2 = 0
      BY <1>2, <1>4 DEF Tidy
    <3>2. a \div 2 \in Nat /\ a = 2 * (a \div 2) /\ a \div 2 >= 1
      BY <1>2, <3>1
    <3> QED
      BY <3>2
  <2>2. q # <<"/">> /\ q # << >>
    BY <1>2, <1>4, RootIs
  <2>3. Above(q, d) <=> a <= b /\ q = SubSeq(d, 1, a) /\ (a = b \/ d[a + 1] = "/")
    BY <1>2, <2>2 DEF Above, IsPrefix
  <2>4. ASSUME a <= b PROVE a = b \/ d[a + 1] = "/"
    <3> SUFFICES ASSUME a # b PROVE d[a + 1] = "/"
      OBVIOUS
    <3>1. a + 1 \in 1 .. b /\ (a + 1) % 2 = 1
      BY <2>1, <2>4
    <3> QED
      BY <1>1, <1>2, <3>1 DEF TakeTurns
  <2>5. a <= b <=> k <= b \div 2
    BY <1>2, <2>1
  <2>6. ASSUME a <= b
        PROVE  q = SubSeq(d, 1, a) <=> \A i \in 1 .. k : q[2 * i] = d[2 * i]
    <3>1. PICK u : u = SubSeq(d, 1, a)
      BY Zenon
    <3>2. a \in 0 .. Len(d)
      BY <1>2, <2>6
    <3>3. IsSeq(u) /\ Len(u) = a /\ \A i \in 1 .. a : u[i] = d[i]
      BY <1>1, <3>1, <3>2, PartIs
    <3>4. q = u <=> \A i \in 1 .. a : q[i] = d[i]
      BY <1>1, <1>2, <3>3 DEF IsSeq
    <3>5. \A i \in 1 .. k : 2 * i \in 1 .. a
      BY <2>1
    <3>6. ASSUME NEW i \in 1 .. a, \A j \in 1 .. k : q[2 * j] = d[2 * j] PROVE q[i] = d[i]
      <4>1. i \in 1 .. Len(q) /\ i \in 1 .. Len(d) /\ i \in Nat
        BY <1>2, <2>6
      <4>2. CASE i % 2 = 1
        BY <1>1, <4>1, <4>2 DEF TakeTurns
      <4>3. CASE i % 2 # 1
        <5>1. i \div 2 \in 1 .. k /\ i = 2 * (i \div 2)
          BY <2>1, <4>3
        <5> QED
          BY <3>6, <5>1
      <4> QED
        BY <4>2, <4>3
    <3> QED
      BY <3>1, <3>4, <3>5, <3>6
  <2>7. SameNames(q, d) <=> k <= b \div 2 /\ \A i \in 1 .. k : q[2 * i] = d[2 * i]
    BY <1>2, <2>1 DEF SameNames
  <2> QED
    BY <2>3, <2>4, <2>5, <2>6, <2>7
<1> QED
  BY <1>3, <1>4

LEMMA InheritsIsPrefix ==
  ASSUME NEW p, TakeTurns(p), DotFree(p), NEW q, Tidy(q)
  PROVE  Inherits(q, p) <=> IsPrefix(Segments(q), Segments(p))
<1>1. TakeTurns(q) /\ IsSeq(q) /\ IsSeq(p) /\ Len(p) \in Nat /\ Len(p) >= 1
  BY DEF Tidy, TakeTurns, IsSeq
<1>2. IsPrefix(Segments(q), Segments(p)) <=> SameNames(q, p)
  BY <1>1, PrefixIs
<1>3. CASE Tidy(p)
  BY <1>1, <1>2, <1>3, AboveIs, AboveIsPrefix
<1>4. CASE ~Tidy(p)
  <2>1. PICK n \in Nat : n = Len(p) /\ n # 1 /\ n % 2 # 0 /\ n >= 1
    BY <1>1, <1>4, Zenon DEF Tidy
  <2>2. /\ n > 2 /\ n - 1 \in 1 .. n /\ n - 1 \in 0 .. n
        /\ (n - 1) % 2 = 0 /\ (n - 1) \div 2 = n \div 2
    BY <2>1
  <2>3. PICK d : d = SubSeq(p, 1, n - 1)
    BY Zenon
  <2>4. Dir(p) = d
    <3>1. ~(Len(p) <= 2) /\ Len(p) % 2 # 0
      BY <2>1, <2>2
    <3> QED
      BY <2>1, <2>3, <3>1, DirOfTurns
  <2>5. IsSeq(d) /\ Len(d) = n - 1 /\ \A i \in 1 .. n - 1 : d[i] = p[i]
    BY <1>1, <2>1, <2>2, <2>3, PartIs
  <2>6. TakeTurns(d)
    BY <2>1, <2>2, <2>3, PartTurns, Zenon
  <2>7. Tidy(d)
    <3>1. DotFree(d)
      BY <2>1, <2>2, <2>5 DEF DotFree
    <3> QED
      BY <2>2, <2>5, <2>6, <3>1 DEF Tidy
  <2>8. q # p
    BY <1>4
  <2>9. SameNames(q, d) <=> SameNames(q, p)
    <3>1. PICK m : m = n \div 2
      BY Zenon
    <3>2. /\ Len(d) \div 2 = m /\ Len(p) \div 2 = m /\ m \in Nat
          /\ \A i \in 1 .. m : 2 * i \in 1 .. n - 1
      BY <2>1, <2>2, <2>5, <3>1
    <3>3. \A i \in 1 .. m : d[2 * i] = p[2 * i]
      BY <2>5, <3>2
    <3>4. PICK k \in Nat : k = Len(q) \div 2
      BY <1>1 DEF IsSeq
    <3>5. ASSUME k <= m, NEW i \in 1 .. k PROVE i \in 1 .. m
      BY <3>2, <3>5
    <3> QED
      BY <3>2, <3>3, <3>4, <3>5 DEF SameNames
  <2>10. Inherits(q, p) <=> Above(q, d)
    BY <2>4, <2>8 DEF Inherits
  <2> QED
    BY <1>2, <2>7, <2>9, <2>10, AboveIsPrefix
<1> QED
  BY <1>3, <1>4

-----------------------------------------------------------------------------
(* A blank at either end is cut, and nothing else.                         *)
LEMMA TrimSpaceIs ==
  ASSUME NEW p, IsSeq(p)
  PROVE  /\ IsSeq(TrimSpace(p))
         /\ NamesApart(p) => NamesApart(TrimSpace(p))
<1> DEFINE S == {i \in 1 .. Len(p) : p[i] # " "}
<1>1. Len(p) \in Nat /\ S \in SUBSET (1 .. Len(p)) /\ S \in SUBSET Nat
  <2>1. Len(p) \in Nat /\ \A i \in 1 .. Len(p) : i \in Nat
    BY DEF IsSeq
  <2>2. \A i \in S : i \in 1 .. Len(p)
    BY Zenon
  <2> HIDE DEF S
  <2> QED
    BY <2>1, <2>2
<1>2. CASE S = {}
  <2>1. TrimSpace(p) = << >>
    BY <1>2, Zenon DEF TrimSpace
  <2> QED
    BY <2>1 DEF IsSeq, NamesApart, Range
<1>3. CASE S # {}
  <2> DEFINE a == CHOOSE i \in S : \A j \in S : i <= j
             b == CHOOSE i \in S : \A j \in S : i >= j
             t == SubSeq(p, a, b)
  <2>1. TrimSpace(p) = t
    BY <1>3, Zenon DEF TrimSpace
  <2> HIDE DEF S
  <2>2. a \in S /\ \A j \in S : a <= j
    <3>1. \E i \in S : \A j \in S : i <= j
      BY <1>1, <1>3, Least
    <3> QED
      BY <3>1
  <2>3. b \in S /\ \A j \in S : b >= j
    <3> DEFINE T == {i \in 0 .. Len(p) : Len(p) - i \in S}
    <3>1. \A i \in S : Len(p) - i \in T /\ Len(p) - (Len(p) - i) = i
      BY <1>1
    <3>2. T \in SUBSET Nat /\ T # {}
      <4>1. PICK i \in S : TRUE
        BY <1>3
      <4>2. T # {}
        BY <3>1, <4>1
      <4>3. T \in SUBSET Nat
        BY <1>1
      <4> QED
        BY <4>2, <4>3
    <3>3. \A x \in T : Len(p) - x \in S
      OBVIOUS
    <3> HIDE DEF T
    <3>4. PICK x \in T : \A y \in T : x <= y
      BY <3>2, Least
    <3>5. ASSUME NEW j \in S PROVE Len(p) - x >= j
      <4>1. x <= Len(p) - j /\ x \in Nat /\ j \in Nat
        BY <1>1, <3>1, <3>2, <3>4
      <4> QED
        BY <1>1, <4>1
    <3>6. \E i \in S : \A j \in S : i >= j
      BY <3>3, <3>5
    <3> QED
      BY <3>6
  <2> HIDE DEF a, b
  <2>4. a \in 1 .. Len(p) /\ b \in 1 .. Len(p) /\ a <= b
    BY <1>1, <2>2, <2>3
  <2>5. t = [i \in 1 .. b - a + 1 |-> p[a + i - 1]] /\ b - a + 1 \in Nat
    BY <1>1, <2>4 DEF IsSeq
  <2>6. IsSeq(t) /\ Len(t) = b - a + 1
    <3>1. PICK n, u : n = b - a + 1 /\ u = t
      BY Zenon
    <3>2. n \in Nat /\ u = [i \in 1 .. n |-> u[i]]
      BY <2>5, <3>1
    <3>3. IsSeq(u) /\ Len(u) = n
      BY <3>2, FunctionIsSeq
    <3> QED
      BY <3>1, <3>3
  <2>7. ASSUME NamesApart(p) PROVE NamesApart(t)
    <3> SUFFICES ASSUME NEW i \in 1 .. Len(t) - 1 PROVE t[i] = "/" \/ t[i + 1] = "/"
      BY Zenon DEF NamesApart
    <3>1. /\ i \in 1 .. b - a + 1 /\ i + 1 \in 1 .. b - a + 1
          /\ a + i - 1 \in 1 .. Len(p) - 1 /\ a + (i + 1) - 1 = (a + i - 1) + 1
      BY <1>1, <2>4, <2>6
    <3>2. t[i] = p[a + i - 1] /\ t[i + 1] = p[(a + i - 1) + 1]
      BY <2>5, <3>1
    <3> QED
      BY <2>7, <3>1, <3>2 DEF NamesApart
  <2> HIDE DEF t
  <2> QED
    BY <2>1, <2>6, <2>7
<1> QED
  BY <1>2, <1>3, Zenon

LEMMA NormalizeIs ==
  ASSUME NEW p, IsSeq(p)
  PROVE  /\ IsSeq(normalize(p)) /\ Rooted(normalize(p)) /\ Apart(normalize(p))
         /\ NamesApart(TrimSpace(p)) => TakeTurns(normalize(p))
<1>1. PICK t : t = TrimSpace(p)
  OBVIOUS
<1>2. IsSeq(t) /\ Len(t) \in Nat
  BY <1>1, TrimSpaceIs DEF IsSeq
<1>3. CASE t = << >>
  <2>1. normalize(p) = <<"/">>
    BY <1>1, <1>3 DEF normalize
  <2>2. PICK r : r = <<"/">>
    BY Zenon
  <2>3. IsSeq(r) /\ Rooted(r) /\ Len(r) = 1
    BY <2>2 DEF IsSeq, Range, Rooted
  <2>4. Apart(r) /\ NamesApart(r)
    BY <2>3 DEF Apart, NamesApart
  <2> QED
    BY <2>1, <2>2, <2>3, <2>4, TurnsAre
<1>4. CASE t # << >>
  <2>1. PICK u : u = IF Head(t) = "/" THEN t ELSE <<"/">> \o t
    BY Zenon
  <2>2. normalize(p) = OneSlash(u)
    BY <1>1, <1>4, <2>1 DEF normalize
  <2>3. IsSeq(u) /\ Rooted(u) /\ (NamesApart(t) => NamesApart(u))
    <3>1. CASE Head(t) = "/"
      <4>1. t[1] = "/"
        BY <1>2, <1>4, <3>1 DEF IsSeq
      <4> QED
        BY <1>2, <1>4, <2>1, <3>1, <4>1 DEF Rooted
    <3>2. CASE Head(t) # "/"
      <4>1. u = <<"/">> \o t
        BY <2>1, <3>2
      <4>2. t \in Seq(Range(t) \cup {"/"}) /\ <<"/">> \in Seq(Range(t) \cup {"/"})
        BY <1>2 DEF IsSeq
      <4>3. /\ Len(u) = Len(t) + 1 /\ u[1] = "/" /\ \A i \in 1 .. Len(t) : u[i + 1] = t[i]
            /\ u \in Seq(Range(t) \cup {"/"})
        BY <1>2, <4>1, <4>2
      <4>4. IsSeq(u)
        <5>1. u = [i \in 1 .. Len(t) + 1 |-> u[i]] /\ Len(t) + 1 \in Nat
          BY <1>2, <4>3
        <5>2. PICK n : n = Len(t) + 1
          OBVIOUS
        <5>3. n \in Nat /\ u = [i \in 1 .. n |-> u[i]]
          BY <5>1, <5>2
        <5> QED
          BY <5>3, FunctionIsSeq
      <4>5. Rooted(u)
        BY <1>2, <4>3 DEF Rooted
      <4>6. ASSUME NamesApart(t), NEW i \in 1 .. Len(u) - 1 PROVE u[i] = "/" \/ u[i + 1] = "/"
        <5>1. CASE i = 1
          BY <4>3, <5>1
        <5>2. CASE i # 1
          <6>1. PICK m \in 1 .. Len(t) - 1 : i = m + 1
            BY <1>2, <4>3, <5>2
          <6>2. m \in 1 .. Len(t) /\ m + 1 \in 1 .. Len(t)
            BY <1>2
          <6>3. u[i] = t[m] /\ u[i + 1] = t[m + 1]
            BY <4>3, <6>1, <6>2
          <6> QED
            BY <4>6, <6>1, <6>3 DEF NamesApart
        <5> QED
          BY <5>1, <5>2
      <4> QED
        BY <4>4, <4>5, <4>6 DEF NamesApart
    <3> QED
      BY <3>1, <3>2
  <2>4. PICK v : v = OneSlash(u)
    OBVIOUS
  <2>5. IsSeq(v) /\ Rooted(v) /\ Apart(v) /\ (NamesApart(u) => NamesApart(v))
    BY <2>3, <2>4, OneSlashIs
  <2> QED
    BY <1>1, <2>2, <2>3, <2>4, <2>5, TurnsAre
<1> QED
  BY <1>3, <1>4

-----------------------------------------------------------------------------
(* The paths that are checked.                                             *)

(* The path that the check of a request is about.                          *)
PathOf(r) == IF r.method = Download THEN r.path ELSE ExtractPath(r)

NeedsCheck(r) == r.method \in Mapped \cup {Download}

LEMMA AskedIsSeq ==
  ASSUME NEW r \in Requests
  PROVE  IsSeq(Asked(r))
<1>1. IsSeq(r.path) /\ IsSeq(r.name) /\ Len(r.path) \in Nat
  BY PathAssumption DEF IsSeq
<1>2. CASE r.method # "CreateFolder"
  BY <1>1, <1>2 DEF Asked
<1>3. CASE r.method = "CreateFolder"
  <2>1. PICK p, q : p = TrimSuffix(r.path) /\ q = r.name
    OBVIOUS
  <2>2. IsSeq(p)
    <3>1. CASE r.path # << >> /\ r.path[Len(r.path)] = "/"
      <4>1. p = SubSeq(r.path, 1, Len(r.path) - 1)
        BY <2>1, <3>1 DEF TrimSuffix
      <4>2. Len(r.path) - 1 \in 0 .. Len(r.path)
        BY <1>1, <3>1 DEF IsSeq
      <4> QED
        BY <1>1, <4>1, <4>2, PartIs
    <3> QED
      BY <1>1, <2>1, <3>1 DEF TrimSuffix
  <2>3. PICK T : T = Range(p) \cup Range(q) \cup {"/"}
    BY Zenon
  <2>4. p \in Seq(T) /\ q \in Seq(T) /\ <<"/">> \in Seq(T)
    BY <1>1, <2>1, <2>2, <2>3 DEF IsSeq
  <2>5. PICK u : u = p \o <<"/">> \o q
    BY Zenon
  <2>6. u \in Seq(T)
    BY <2>4, <2>5
  <2>7. IsSeq(u)
    <3>1. PICK n : n = Len(u)
      BY Zenon
    <3>2. n \in Nat /\ u = [i \in 1 .. n |-> u[i]]
      BY <2>6, <3>1
    <3> QED
      BY <3>2, FunctionIsSeq
  <2> QED
    BY <1>3, <2>1, <2>5, <2>7 DEF Asked
<1> QED
  BY <1>2, <1>3

LEMMA CheckedPathIs ==
  ASSUME NEW r \in Requests, NeedsCheck(r)
  PROVE  /\ IsSeq(PathOf(r))
         /\ r.method # Download => TakeTurns(PathOf(r)) /\ Rooted(PathOf(r))
         /\ r.method = Download => NamesApart(PathOf(r))
<1>1. CASE r.method = Download
  BY <1>1, PathAssumption DEF PathOf, IsSeq
<1>2. CASE r.method # Download
  <2>1. PathOf(r) = <<"/">> \/ PathOf(r) = normalize(Asked(r))
    BY <1>2 DEF NeedsCheck, PathOf, ExtractPath, Mapped, Write, Read
  <2>2. IsSeq(Asked(r)) /\ NamesApart(TrimSpace(Asked(r)))
    BY <1>2, AskedIsSeq, PathAssumption
  <2>3. IsSeq(normalize(Asked(r))) /\ Rooted(normalize(Asked(r))) /\ TakeTurns(normalize(Asked(r)))
    BY <2>2, NormalizeIs
  <2> QED
    BY <1>2, <2>1, <2>3, RootIs
<1> QED
  BY <1>1, <1>2

(* An absolute path that nothing normalizes, if it needs no cleaning.      *)
LEMMA DownloadTurns ==
  ASSUME NEW p, IsSeq(p), Rooted(p), NamesApart(p),
         \A i \in 1 .. Len(p) - 1 : ~(p[i] = "/" /\ p[i + 1] = "/")
  PROVE  TakeTurns(p)
  BY TurnsAre DEF Apart

-----------------------------------------------------------------------------
(* The calls.                                                             *)

Labels == Answers \cup {"idle", "gateway", "authenticate", "authorize",
                        "receive", "walk", "batch", "query", "handle"}

Shape ==
  /\ backend \in Backends /\ verifier \in Verifiers
  /\ table \subseteq Entries
  /\ req \in [Calls -> Requests \cup {None}]
  /\ pc \in [Calls -> Labels]
  /\ DOMAIN path = Calls /\ DOMAIN todo = Calls
  /\ left \in [Calls -> 0 .. 1]
  /\ before \in [Calls -> SUBSET Entries]
  /\ failed \in [Calls -> BOOLEAN]

Known == {"authorize", "receive", "walk", "batch", "query", "handle", "served",
          "denied", "invalid"}

Checking == {"walk", "batch", "query", "denied"}

(* A call past the interceptors has a token that was accepted, and one     *)
(* that is being checked, or was, is checked for its own path.             *)
CallOK(c) ==
  /\ pc[c] # "idle" => req[c] \in Requests
  /\ pc[c] \in Known => ParseAuthContext(req[c].token)
  /\ pc[c] = "receive" => req[c].method = Streamed
  /\ pc[c] = "idle" => left[c] = 0 /\ path[c] = <<"/">>
  /\ path[c] = <<"/">> \/ (NeedsCheck(req[c]) /\ path[c] = PathOf(req[c]))
  /\ left[c] = 1 => req[c].method = Streamed
  /\ pc[c] \in Checking => NeedsCheck(req[c])
  /\ pc[c] \in Checking \/ (pc[c] \in {"handle", "served"} /\ NeedsCheck(req[c])) =>
        path[c] = PathOf(req[c])

Matches(c, e) == Grants(req[c].token, Permission(req[c].method), e)

End(c) == todo[c][Len(todo[c])]

(* What a path inherits from is on the list already or comes after its     *)
(* end.  From a relative path the walk gets to no root.                    *)
Walked(c) ==
  /\ IsSeq(todo[c]) /\ todo[c] # << >>
  /\ IsSeq(End(c)) /\ (Rooted(End(c)) <=> Rooted(path[c]))
  /\ Rooted(path[c]) =>
        \A e \in Entries :
           Inherits(e.path, path[c]) <=> e.path \in Range(todo[c]) \/ Inherits(e.path, End(c))

(* The lookups that are left are ones that the path inherits from, and     *)
(* nothing that was there when the check began and grants access was       *)
(* passed over, unless a query failed.                                     *)
LookupOK(c) ==
  /\ pc[c] \in Checking => before[c] \subseteq table
  /\ pc[c] = "walk" => Walked(c)
  /\ pc[c] \in {"batch", "query"} =>
        IsSeq(todo[c]) /\ \A e \in Entries : e.path \in Range(todo[c]) => Inherits(e.path, path[c])
  /\ pc[c] = "batch" =>
        /\ Rooted(path[c])
        /\ \A e \in Entries : Inherits(e.path, path[c]) => e.path \in Range(todo[c])
  /\ pc[c] = "query" =>
        \/ failed[c]
        \/ \A e \in before[c] :
              Inherits(e.path, path[c]) /\ Matches(c, e) => e.path \in Range(todo[c])

AllowedOK(c) ==
  pc[c] \in {"handle", "served"} =>
     /\ Trusted(req[c].token)
     /\ NeedsCheck(req[c]) => Granted(c, table)

DeniedOK(c) == pc[c] = "denied" => failed[c] \/ ~Granted(c, before[c])

Good(c) == CallOK(c) /\ LookupOK(c) /\ AllowedOK(c) /\ DeniedOK(c)

Inv == Shape /\ \A c \in Calls : Good(c)

-----------------------------------------------------------------------------
LEMMA AcceptedIsTrusted ==
  ASSUME NEW t, ParseAuthContext(t)
  PROVE  Trusted(t)
  BY DEF ParseAuthContext, Trusted, HasKey

LEMMA MatchIsGrant ==
  ASSUME NEW c, NEW e,
         Inherits(e.path, path[c]), Matches(c, e),
         NEW S, e \in S
  PROVE  Granted(c, S)
  BY DEF Granted, Matches, Grants, Mine

LEMMA GrantIsMatch ==
  ASSUME NEW c, NEW S, Granted(c, S), ~RoleGrants(c)
  PROVE  \E e \in S : Inherits(e.path, path[c]) /\ Matches(c, e)
  BY Zenon DEF Granted, Matches, Grants, Mine

LEMMA RepliesAreRows ==
  ASSUME NEW S, NEW rows \in Replies(S)
  PROVE  rows \subseteq Rows(S)
  BY DEF Replies

(* A step of another call, or an entry that is added, spoils nothing.      *)
LEMMA Untouched ==
  ASSUME NEW d, Good(d), UNCHANGED verifier, table \subseteq table',
         req'[d] = req[d], pc'[d] = pc[d], path'[d] = path[d],
         todo'[d] = todo[d], left'[d] = left[d], before'[d] = before[d],
         failed'[d] = failed[d]
  PROVE  Good(d)'
<1>1. CallOK(d)'
  BY DEF Good, CallOK, ParseAuthContext, HasKey
<1>2. \A e : Matches(d, e)' <=> Matches(d, e)
  BY DEF Matches
<1>3. Walked(d) => Walked(d)'
  BY DEF Walked, End
<1>4. LookupOK(d)'
  BY <1>2, <1>3 DEF Good, LookupOK
<1>5. \A t : Trusted(t) => Trusted(t)'
  BY DEF Trusted
<1>6. Granted(d, table) => Granted(d, table)'
  BY DEF Granted, RoleGrants, Mine
<1>7. Granted(d, before[d])' => Granted(d, before[d])
  BY DEF Granted, RoleGrants, Mine
<1>8. AllowedOK(d)'
  BY <1>5, <1>6 DEF Good, AllowedOK
<1>9. DeniedOK(d)'
  BY <1>7 DEF Good, DeniedOK
<1> QED
  BY <1>1, <1>4, <1>8, <1>9 DEF Good

(* What a step of c leaves alone.                                          *)
Local(c) ==
  /\ UNCHANGED <<verifier, table>>
  /\ \A d \in Calls \ {c} :
        /\ req'[d] = req[d] /\ pc'[d] = pc[d] /\ path'[d] = path[d]
        /\ todo'[d] = todo[d] /\ left'[d] = left[d] /\ before'[d] = before[d]
        /\ failed'[d] = failed[d]

LEMMA LocalStep ==
  ASSUME Inv, NEW c \in Calls, Local(c), Shape', Good(c)'
  PROVE  Inv'
<1>1. ASSUME NEW d \in Calls, d # c PROVE Good(d)'
  BY <1>1, Untouched DEF Inv, Local
<1> QED
  BY <1>1 DEF Inv

(* A step that moves a call to a label at which nothing is left to decide. *)
LEMMA MoveOn ==
  ASSUME Inv, NEW c \in Calls, NEW label \in Labels, Goto(c, label),
         UNCHANGED <<setup, table, req, path, todo, left, before, failed>>
  PROVE  /\ Shape' /\ Local(c)
         /\ pc'[c] = label
         /\ req'[c] = req[c] /\ path'[c] = path[c] /\ left'[c] = left[c]
         /\ todo'[c] = todo[c] /\ before'[c] = before[c] /\ failed'[c] = failed[c]
  BY DEF Inv, Shape, Local, Goto, setup

LEMMA ArriveStep ==
  ASSUME Inv, NEW c \in Calls, Arrive(c)
  PROVE  Inv'
<1>a. Shape /\ Good(c)
  BY DEF Inv
<1>1. PICK r \in Requests, door \in {"authenticate", "gateway"} :
         req' = [req EXCEPT ![c] = r] /\ pc' = [pc EXCEPT ![c] = door]
  BY Zenon DEF Arrive, Goto
<1>2. Shape' /\ Local(c)
  BY <1>1, <1>a DEF Arrive, Shape, Local, setup, Labels
<1>3. pc'[c] \in {"authenticate", "gateway"} /\ req'[c] \in Requests
  BY <1>1, <1>a DEF Shape
<1>4. left'[c] = 0 /\ path'[c] = <<"/">>
  BY <1>a DEF Arrive, Good, CallOK, Shape
<1>5. Good(c)'
  BY <1>3, <1>4, SMTT(30)
  DEF Good, CallOK, LookupOK, AllowedOK, DeniedOK, Known, Checking
<1> QED
  BY <1>2, <1>5, LocalStep

(* The interceptors that look at the token.                                *)
LEMMA AuthenticateStep ==
  ASSUME Inv, NEW c \in Calls,
         \/ HTTPAuthMiddleware(c) \/ GRPCAuthInterceptor(c)
         \/ GRPCStreamAuthInterceptor(c) \/ AuthenticateDownload(c)
  PROVE  Inv'
<1>a. Shape /\ Good(c)
  BY DEF Inv
<1>1. PICK next \in {"authenticate", "authorize", "receive"} :
         /\ pc[c] \in {"gateway", "authenticate"}
         /\ Authenticate(c, next)
         /\ next = "receive" => req[c].method = Streamed
  BY DEF HTTPAuthMiddleware, GRPCAuthInterceptor, GRPCStreamAuthInterceptor,
         AuthenticateDownload
<1>2. PICK label \in {next, "unauthenticated"} :
         /\ Goto(c, label)
         /\ label # "unauthenticated" => ParseAuthContext(req[c].token)
  BY <1>1 DEF Authenticate
<1>3. UNCHANGED <<setup, table, req, path, todo, left, before, failed>>
  BY <1>1 DEF Authenticate
<1>4. label \in Labels
  BY <1>1, <1>2 DEF Labels, Answers
<1>5. /\ Shape' /\ Local(c)
      /\ pc'[c] = label /\ req'[c] = req[c] /\ left'[c] = left[c] /\ path'[c] = path[c]
  BY <1>2, <1>3, <1>4, MoveOn
<1>6. CallOK(c)'
  <2>1. /\ req[c] \in Requests /\ (left[c] = 1 => req[c].method = Streamed)
        /\ path[c] = <<"/">> \/ (NeedsCheck(req[c]) /\ path[c] = PathOf(req[c]))
    BY <1>1, <1>a DEF Good, CallOK
  <2>2. \A t : ParseAuthContext(t) => ParseAuthContext(t)'
    BY <1>3 DEF ParseAuthContext, HasKey, setup
  <2> QED
    BY <1>1, <1>2, <1>5, <2>1, <2>2 DEF CallOK, Known, Checking
<1>7. LookupOK(c)' /\ AllowedOK(c)' /\ DeniedOK(c)'
  BY <1>1, <1>2, <1>5, Zenon DEF LookupOK, AllowedOK, DeniedOK, Checking
<1> QED
  BY <1>5, <1>6, <1>7, LocalStep, Zenon DEF Good

(* The steps that begin a check.                                           *)
LEMMA AuthorizeStep ==
  ASSUME Inv, NEW c \in Calls,
         \/ GRPCAuthZInterceptor(c) \/ RecvMsg(c) \/ AuthorizeDownload(c)
         \/ DownloadObject(c)
  PROVE  Inv'
<1>a. Shape /\ Good(c)
  BY DEF Inv
<1>1. /\ pc[c] \in {"authorize", "receive", "handle"}
      /\ CheckPath(c, PathOf(req[c]))
      /\ NeedsCheck(req[c])
  BY <1>a DEF GRPCAuthZInterceptor, RecvMsg, AuthorizeDownload, DownloadObject, Good,
         CallOK, PathOf, NeedsCheck, Mapped, Read, Write, Streamed, Download
<1>2. \/ left' = left
      \/ req[c].method = Streamed /\ left' = [left EXCEPT ![c] = 1]
      \/ left' = [left EXCEPT ![c] = 0]
  BY <1>a DEF GRPCAuthZInterceptor, RecvMsg, AuthorizeDownload, DownloadObject, Good,
         CallOK
<1>3. Shape' /\ Local(c)
  BY <1>1, <1>2, <1>a DEF CheckPath, Goto, Shape, Local, setup, Labels
<1>4. /\ pc'[c] = "walk" /\ req'[c] = req[c] /\ path'[c] = PathOf(req[c])
      /\ todo'[c] = <<PathOf(req[c])>> /\ before'[c] = table /\ table' = table
  BY <1>1, <1>a DEF CheckPath, Goto, Shape
<1>5. left'[c] = 1 => req[c].method = Streamed
  BY <1>2, <1>a DEF Good, CallOK, Shape
<1>6. req[c] \in Requests /\ ParseAuthContext(req[c].token)
  BY <1>1, <1>a DEF Good, CallOK, Known
<1>7. \A t : ParseAuthContext(t) => ParseAuthContext(t)'
  BY <1>1 DEF CheckPath, ParseAuthContext, HasKey, setup
<1>8. CallOK(c)'
  BY <1>1, <1>4, <1>5, <1>6, <1>7 DEF CallOK, NeedsCheck, PathOf
<1>9. Walked(c)'
  <2>1. PICK p : p = PathOf(req[c])
    OBVIOUS
  <2>2. IsSeq(p)
    BY <1>1, <1>6, <2>1, CheckedPathIs
  <2>3. IsSeq(<<p>>) /\ <<p>> # << >> /\ Range(<<p>>) = {p} /\ <<p>>[Len(<<p>>)] = p
    BY DEF IsSeq, Range
  <2>4. End(c)' = p
    BY <1>4, <2>1, <2>3 DEF End
  <2>5. Inherits(p, p)
    BY DEF Inherits
  <2> QED
    BY <1>4, <2>1, <2>2, <2>3, <2>4, <2>5 DEF Walked
<1>10. LookupOK(c)' /\ AllowedOK(c)' /\ DeniedOK(c)'
  BY <1>4, <1>9, Zenon DEF LookupOK, AllowedOK, DeniedOK
<1> QED
  BY <1>3, <1>8, <1>10, LocalStep DEF Good

LEMMA AcceptedKept ==
  ASSUME UNCHANGED verifier
  PROVE  \A t : ParseAuthContext(t) => ParseAuthContext(t)' /\ Trusted(t)'
<1>1. \A t : ParseAuthContext(t) => ParseAuthContext(t)'
  BY DEF ParseAuthContext, HasKey
<1>2. \A t : Trusted(t) => Trusted(t)'
  BY DEF Trusted
<1> QED
  BY <1>1, <1>2, AcceptedIsTrusted

(* The steps that leave the check behind or never come to it.              *)
LEMMA PassStep ==
  ASSUME Inv, NEW c \in Calls,
         AuthorizeUnmapped(c) \/ MissingPath(c) \/ Handle(c)
  PROVE  Inv'
<1>a. Shape /\ Good(c)
  BY DEF Inv
<1>1. PICK label \in {"handle", "invalid", "served"} :
         /\ Goto(c, label)
         /\ pc[c] \in {"authorize", "handle"}
         /\ label = "handle" => ~NeedsCheck(req[c])
         /\ label = "served" => pc[c] = "handle"
  BY DEF AuthorizeUnmapped, MissingPath, Handle, NeedsCheck
<1>2. UNCHANGED <<setup, table, req, path, todo, left, before, failed>>
  BY DEF AuthorizeUnmapped, MissingPath, Handle
<1>3. label \in Labels
  BY <1>1 DEF Labels, Answers
<1>4. /\ Shape' /\ Local(c)
      /\ pc'[c] = label
      /\ req'[c] = req[c] /\ path'[c] = path[c] /\ left'[c] = left[c]
  BY <1>1, <1>2, <1>3, MoveOn
<1>5. req[c] \in Requests /\ ParseAuthContext(req[c].token)
  BY <1>1, <1>a DEF Good, CallOK, Known
<1>6. ParseAuthContext(req[c].token)' /\ Trusted(req[c].token)'
  BY <1>2, <1>4, <1>5, AcceptedKept, Zenon DEF setup, ParseAuthContext, Trusted, HasKey
<1>7. CallOK(c)'
  BY <1>1, <1>4, <1>5, <1>6, <1>a DEF Good, CallOK, Checking
<1>8. Granted(c, table)' <=> Granted(c, table)
  BY <1>2, <1>4 DEF Granted, RoleGrants, Mine
<1>9. AllowedOK(c)'
  BY <1>1, <1>4, <1>6, <1>8, <1>a DEF Good, AllowedOK, NeedsCheck
<1>10. LookupOK(c)' /\ DeniedOK(c)'
  BY <1>1, <1>4, Zenon DEF LookupOK, DeniedOK, Checking
<1> QED
  BY <1>4, <1>7, <1>9, <1>10, LocalStep DEF Good

(* What CanAccess leaves alone of its call.                                *)
LEMMA CheckKeepsCall ==
  ASSUME Inv, NEW c \in Calls,
         pc[c] \in {"walk", "batch", "query"},
         pc'[c] \in {"walk", "batch", "query", "handle", "denied"},
         UNCHANGED <<setup, req, path, left>>
  PROVE  CallOK(c)' /\ ParseAuthContext(req[c].token)'
<1>1. CallOK(c)
  BY DEF Inv, Good
<1>2. ParseAuthContext(req[c].token)'
  BY <1>1, AcceptedKept, Zenon DEF CallOK, Known, setup, ParseAuthContext, HasKey
<1> QED
  BY <1>1, <1>2, Zenon DEF CallOK, Checking

LEMMA AppendIs ==
  ASSUME NEW s, IsSeq(s), NEW x
  PROVE  /\ IsSeq(Append(s, x)) /\ Append(s, x) # << >>
         /\ Append(s, x)[Len(Append(s, x))] = x
         /\ Range(Append(s, x)) = Range(s) \cup {x}
<1>1. Len(s) \in Nat /\ s \in Seq(Range(s) \cup {x}) /\ DOMAIN s = 1 .. Len(s)
  BY DEF IsSeq
<1>2. PICK n, u : n = Len(s) + 1 /\ u = Append(s, x)
  BY Zenon
<1>3. /\ n \in Nat /\ u \in Seq(Range(s) \cup {x}) /\ Len(u) = n /\ u[n] = x
      /\ DOMAIN u = 1 .. n /\ \A i \in 1 .. Len(s) : u[i] = s[i]
  BY <1>1, <1>2
<1>4. u = [i \in 1 .. n |-> u[i]]
  BY <1>3
<1>5. IsSeq(u) /\ u # << >>
  BY <1>1, <1>2, <1>3, <1>4, FunctionIsSeq
<1>6. Range(u) = Range(s) \cup {x}
  <2>1. \A i : i \in 1 .. n <=> i \in 1 .. Len(s) \/ i = n
    BY <1>1, <1>2
  <2> QED
    BY <1>1, <1>3, <2>1, Zenon DEF Range
<1> QED
  BY <1>2, <1>3, <1>5, <1>6

LEMMA WalkStep ==
  ASSUME Inv, NEW c \in Calls, parentPaths(c)
  PROVE  Inv'
<1>a. Shape /\ CallOK(c) /\ LookupOK(c) /\ Walked(c) /\ pc[c] = "walk" /\ before[c] \subseteq table
  BY DEF Inv, Good, parentPaths, LookupOK, Checking
<1>b. \A e \in Entries : IsSeq(e.path)
  BY PathAssumption DEF IsSeq
<1>c. UNCHANGED <<setup, table, req, path, left, before, failed>>
  BY DEF parentPaths
<1>d. IsSeq(todo[c]) /\ todo[c] # << >> /\ End(c) \in Range(todo[c])
  <2>1. IsSeq(todo[c]) /\ todo[c] # << >>
    BY <1>a DEF Walked
  <2>2. Len(todo[c]) \in DOMAIN todo[c]
    BY <2>1 DEF IsSeq
  <2> QED
    BY <2>1, <2>2 DEF End, Range
<1>1. CASE End(c) = <<"/">>
  <2>1. PICK label \in {"batch", "query"} : Goto(c, label)
    BY <1>1 DEF parentPaths, LookUp, End
  <2>2. label \in Labels /\ UNCHANGED todo
    BY <1>1, <2>1 DEF parentPaths, End, Labels
  <2>3. /\ Shape' /\ Local(c)
        /\ pc'[c] = label /\ req'[c] = req[c] /\ path'[c] = path[c]
        /\ todo'[c] = todo[c] /\ before'[c] = before[c] /\ failed'[c] = failed[c]
    BY <1>c, <2>1, <2>2, MoveOn
  <2>4. CallOK(c)'
    BY <1>a, <1>c, <2>3, CheckKeepsCall
  <2>5. /\ Rooted(path[c])
        /\ \A e \in Entries : Inherits(e.path, path[c]) <=> e.path \in Range(todo[c])
    <3>1. Rooted(path[c])
      BY <1>1, <1>a, RootIs DEF Walked
    <3>2. \A e \in Entries : Inherits(e.path, End(c)) <=> e.path = End(c)
      BY <1>1, <1>b, WalkEnds
    <3> QED
      BY <1>a, <1>d, <3>1, <3>2 DEF Walked
  <2>6. before[c] \subseteq Entries
    BY <1>a DEF Shape
  <2>7. LookupOK(c)'
    BY <1>a, <1>c, <1>d, <2>3, <2>5, <2>6, Zenon DEF LookupOK, Checking
  <2>8. AllowedOK(c)' /\ DeniedOK(c)'
    BY <2>3, Zenon DEF AllowedOK, DeniedOK
  <2> QED
    BY <2>3, <2>4, <2>7, <2>8, LocalStep DEF Good
<1>2. CASE End(c) # <<"/">>
  <2>1. /\ UNCHANGED pc
        /\ todo' = [todo EXCEPT ![c] = IF Dir(End(c)) \in Range(todo[c]) THEN todo[c]
                                      ELSE Append(todo[c], Dir(End(c)))]
    BY <1>2, <1>a DEF parentPaths, End, Shape
  <2>2. Shape' /\ Local(c)
    BY <1>a, <1>c, <2>1 DEF Shape, Local, setup
  <2>3. /\ pc'[c] = "walk" /\ path'[c] = path[c]
        /\ todo'[c] = IF Dir(End(c)) \in Range(todo[c]) THEN todo[c]
                      ELSE Append(todo[c], Dir(End(c)))
    BY <1>a, <1>c, <2>1 DEF Shape
  <2>4. CallOK(c)'
    BY <1>a, <1>c, <2>3, CheckKeepsCall
  <2>5. Walked(c)'
    <3>1. CASE Dir(End(c)) \in Range(todo[c])
      BY <1>a, <2>3, <3>1, Zenon DEF Walked, End
    <3>2. CASE Dir(End(c)) \notin Range(todo[c])
      <4>1. PICK x, s : x = Dir(End(c)) /\ s = Append(todo[c], x)
        BY Zenon
      <4>2. todo'[c] = s /\ End(c)' = s[Len(s)]
        BY <2>3, <3>2, <4>1 DEF End
      <4>3. IsSeq(s) /\ s # << >> /\ s[Len(s)] = x /\ Range(s) = Range(todo[c]) \cup {x}
        BY <1>d, <4>1, AppendIs
      <4>4. IsSeq(End(c)) /\ (Rooted(End(c)) <=> Rooted(path[c]))
        BY <1>a DEF Walked
      <4>5. IsSeq(x) /\ (Rooted(x) <=> Rooted(End(c)))
        BY <4>1, <4>4, DirTidy, DirRelative, TurnsApart DEF Tidy
      <4>6. ASSUME Rooted(path[c]), NEW e \in Entries
            PROVE  Inherits(e.path, path[c]) <=> e.path \in Range(s) \/ Inherits(e.path, x)
        <5>1. Inherits(e.path, End(c)) <=> e.path = End(c) \/ Inherits(e.path, x)
          BY <1>b, <4>1, <4>4, <4>6, WalkOn
        <5>2. Inherits(e.path, path[c]) <=> e.path \in Range(todo[c]) \/ Inherits(e.path, End(c))
          BY <1>a, <4>6 DEF Walked
        <5>3. e.path = x => Inherits(e.path, x)
          BY DEF Inherits
        <5> QED
          BY <1>d, <4>3, <5>1, <5>2, <5>3
      <4> QED
        BY <2>3, <4>2, <4>3, <4>4, <4>5, <4>6, Zenon DEF Walked
    <3> QED
      BY <3>1, <3>2
  <2>6. LookupOK(c)'
    BY <1>a, <1>c, <2>3, <2>5, Zenon DEF LookupOK
  <2>7. AllowedOK(c)' /\ DeniedOK(c)'
    BY <2>3, Zenon DEF AllowedOK, DeniedOK
  <2> QED
    BY <2>2, <2>4, <2>6, <2>7, LocalStep DEF Good
<1> QED
  BY <1>1, <1>2

(* A decision to serve the call is right if an entry that was read and     *)
(* that the path inherits from, or a role, grants it.                      *)
LEMMA DecidedRight ==
  ASSUME Inv, NEW c \in Calls, pc[c] \in {"batch", "query"},
         NEW rows \in SUBSET Rows(Range(todo[c])),
         AnyGrants(c, rows) \/ RoleGrants(c)
  PROVE  Granted(c, table)
<1>1. CASE RoleGrants(c)
  BY <1>1, Zenon DEF Granted
<1>2. CASE AnyGrants(c, rows)
  <2>1. PICK e \in rows : Matches(c, e)
    BY <1>2 DEF AnyGrants, Matches
  <2>2. e \in table /\ Inherits(e.path, path[c])
    BY <2>1, Zenon DEF Inv, Good, Shape, LookupOK, Rows
  <2> QED
    BY <2>1, <2>2, MatchIsGrant
<1> QED
  BY <1>1, <1>2

LEMMA DecideStep ==
  ASSUME Inv, NEW c \in Calls, pc[c] \in {"batch", "query"},
         NEW label \in {"handle", "denied"}, Goto(c, label),
         NEW fail \in BOOLEAN, failed' = [failed EXCEPT ![c] = fail],
         UNCHANGED <<setup, table, req, path, todo, left, before>>,
         label = "handle" => Granted(c, table),
         label = "denied" => fail \/ ~Granted(c, before[c])
  PROVE  Inv'
<1>a. Shape /\ Good(c)
  BY DEF Inv
<1>1. Shape' /\ Local(c)
  BY <1>a DEF Goto, Shape, Local, setup, Labels, Answers
<1>2. pc'[c] = label /\ failed'[c] = fail
  BY <1>a DEF Goto, Shape
<1>3. CallOK(c)' /\ ParseAuthContext(req[c].token)'
  BY <1>2, CheckKeepsCall
<1>4. Trusted(req[c].token)'
  <2>1. ParseAuthContext(req[c].token)
    BY <1>a DEF Good, CallOK, Known
  <2> QED
    BY <2>1, AcceptedKept DEF setup, Trusted
<1>5. /\ Granted(c, table)' <=> Granted(c, table)
      /\ Granted(c, before[c])' <=> Granted(c, before[c])
  BY DEF Granted, RoleGrants, Mine
<1>6. AllowedOK(c)' /\ DeniedOK(c)'
  BY <1>2, <1>4, <1>5 DEF AllowedOK, DeniedOK
<1>7. LookupOK(c)'
  BY <1>2, <1>a, Zenon DEF Good, LookupOK, Checking
<1> QED
  BY <1>1, <1>3, <1>6, <1>7, LocalStep, Zenon DEF Good

LEMMA BatchStep ==
  ASSUME Inv, NEW c \in Calls, GetACLsForPaths(c)
  PROVE  Inv'
<1>a. Shape /\ CallOK(c) /\ LookupOK(c) /\ pc[c] = "batch"
  BY DEF Inv, Good, GetACLsForPaths
<1>1. PICK rows \in Replies(Range(todo[c])) :
         /\ Decide(c, AnyGrants(c, rows) \/ RoleGrants(c))
         /\ failed' = [failed EXCEPT ![c] = rows # Rows(Range(todo[c]))]
  BY Zenon DEF GetACLsForPaths
<1>2. before[c] \subseteq table
  BY <1>a DEF LookupOK, Checking
<1>3. rows \subseteq Rows(Range(todo[c]))
  BY <1>1, RepliesAreRows
<1>4. CASE AnyGrants(c, rows) \/ RoleGrants(c)
  <2>1. Granted(c, table)
    BY <1>3, <1>4, <1>a, DecidedRight
  <2>2. Goto(c, "handle")
    BY <1>1, <1>4 DEF Decide
  <2> QED
    BY <1>1, <1>a, <2>1, <2>2, DecideStep, Zenon DEF GetACLsForPaths
<1>5. CASE ~(AnyGrants(c, rows) \/ RoleGrants(c))
  <2>1. Goto(c, "denied")
    BY <1>1, <1>5 DEF Decide
  <2>2. rows = Rows(Range(todo[c])) => ~Granted(c, before[c])
    <3> SUFFICES ASSUME rows = Rows(Range(todo[c])), Granted(c, before[c]) PROVE FALSE
      OBVIOUS
    <3>1. PICK e \in before[c] :
             Inherits(e.path, path[c]) /\ Matches(c, e)
      BY <1>5, GrantIsMatch
    <3>2. e \in table /\ e \in Entries
      BY <1>2, <1>a, <3>1 DEF Shape
    <3>3. e.path \in Range(todo[c])
      BY <1>a, <3>1, <3>2, Zenon DEF LookupOK
    <3> QED
      BY <1>5, <3>1, <3>2, <3>3 DEF Rows, AnyGrants, Matches
  <2> QED
    BY <1>1, <1>2, <1>a, <2>1, <2>2, DecideStep, Zenon DEF GetACLsForPaths
<1> QED
  BY <1>4, <1>5

LEMMA BatchFailsStep ==
  ASSUME Inv, NEW c \in Calls, BatchFails(c)
  PROVE  Inv'
<1>a. Shape /\ LookupOK(c) /\ pc[c] = "batch"
  BY DEF Inv, Good, BatchFails
<1>1. Goto(c, "query") /\ "query" \in Labels
  BY DEF BatchFails, Labels
<1>2. /\ Shape' /\ Local(c)
      /\ pc'[c] = "query"
      /\ req'[c] = req[c] /\ path'[c] = path[c]
      /\ todo'[c] = todo[c] /\ before'[c] = before[c] /\ failed'[c] = failed[c]
  BY <1>1, MoveOn DEF BatchFails
<1>3. CallOK(c)'
  BY <1>a, <1>2, CheckKeepsCall DEF BatchFails
<1>4. before[c] \subseteq Entries
  BY <1>a DEF Shape
<1>6. LookupOK(c)'
  BY <1>a, <1>2, <1>4, Zenon DEF LookupOK, Local, Checking
<1>5. AllowedOK(c)' /\ DeniedOK(c)'
  BY <1>2, Zenon DEF AllowedOK, DeniedOK
<1> QED
  BY <1>2, <1>3, <1>5, <1>6, LocalStep DEF Good

LEMMA CheckRolesStep ==
  ASSUME Inv, NEW c \in Calls, CheckRoles(c)
  PROVE  Inv'
<1>a. Shape /\ CallOK(c) /\ LookupOK(c) /\ pc[c] = "query" /\ todo[c] = << >>
  BY DEF Inv, Good, CheckRoles
<1>1. failed[c] \in BOOLEAN /\ failed' = [failed EXCEPT ![c] = failed[c]]
  BY <1>a, Zenon DEF Shape, CheckRoles
<1>2. CASE RoleGrants(c)
  BY <1>1, <1>2, <1>a, DecideStep, Zenon DEF CheckRoles, Decide, Granted
<1>3. CASE ~RoleGrants(c)
  <2>1. failed[c] \/ ~Granted(c, before[c])
    <3> SUFFICES ASSUME ~failed[c], Granted(c, before[c]) PROVE FALSE
      BY Zenon
    <3>1. PICK e \in before[c] :
             Inherits(e.path, path[c]) /\ Matches(c, e)
      BY <1>3, GrantIsMatch
    <3>2. e.path \in Range(todo[c])
      BY <1>a, <3>1 DEF LookupOK
    <3> QED
      BY <1>a, <3>2, SMTT(30) DEF Range
  <2> QED
    BY <1>1, <1>3, <1>a, <2>1, DecideStep, Zenon DEF CheckRoles, Decide
<1> QED
  BY <1>2, <1>3

(* What is left to look up after the first path.                           *)
LEMMA TailSet ==
  ASSUME NEW q, IsSeq(q), q # << >>
  PROVE  /\ Head(q) \in Range(q)
         /\ IsSeq(Tail(q)) /\ Range(Tail(q)) \subseteq Range(q)
         /\ \A x \in Range(q) : x # Head(q) => x \in Range(Tail(q))
<1>1. Len(q) \in Nat /\ Len(q) > 0 /\ DOMAIN q = 1 .. Len(q) /\ q \in Seq(Range(q))
  BY DEF IsSeq
<1>2. /\ Tail(q) \in Seq(Range(q))
      /\ DOMAIN Tail(q) = 1 .. Len(q) - 1
      /\ \A i \in 1 .. Len(q) - 1 : Tail(q)[i] = q[i + 1]
  BY <1>1
<1>3. Head(q) = q[1] /\ Head(q) \in Range(q)
  BY <1>1 DEF Range
<1>4. ASSUME NEW x \in Range(q), x # Head(q) PROVE x \in Range(Tail(q))
  <2>1. PICK i \in 1 .. Len(q) : x = q[i]
    BY <1>1 DEF Range
  <2>2. i - 1 \in 1 .. Len(q) - 1 /\ x = Tail(q)[i - 1]
    BY <1>1, <1>2, <1>3, <1>4, <2>1
  <2> QED
    BY <1>2, <2>2, Zenon DEF Range
<1>5. IsSeq(Tail(q)) /\ Range(Tail(q)) \subseteq Range(q)
  <2>1. PICK u, n : u = Tail(q) /\ n = Len(q) - 1
    BY Zenon
  <2>2. n \in Nat /\ u \in Seq(Range(q)) /\ DOMAIN u = 1 .. n /\ Len(u) = n
    BY <1>1, <1>2, <2>1
  <2>3. u = [i \in 1 .. n |-> u[i]] /\ \A i \in 1 .. n : u[i] \in Range(q)
    BY <2>2
  <2>4. IsSeq(u)
    BY <2>2, <2>3, FunctionIsSeq
  <2>5. Range(u) \subseteq Range(q)
    BY <2>2, <2>3, Zenon DEF Range
  <2> QED
    BY <2>1, <2>4, <2>5
<1> QED
  BY <1>3, <1>4, <1>5

LEMMA LookupStep ==
  ASSUME Inv, NEW c \in Calls, GetACLs(c)
  PROVE  Inv'
<1>a. Shape /\ CallOK(c) /\ LookupOK(c) /\ pc[c] = "query" /\ todo[c] # << >>
  BY DEF Inv, Good, GetACLs
<1> DEFINE own == {Head(todo[c])}
<1>1. PICK rows \in Replies(own) :
         /\ failed' = [failed EXCEPT ![c] = failed[c] \/ rows # Rows(own)]
         /\ IF AnyGrants(c, rows)
            THEN Decide(c, TRUE) /\ UNCHANGED todo
            ELSE todo' = [todo EXCEPT ![c] = Tail(todo[c])] /\ UNCHANGED pc
  BY <1>a, Zenon DEF GetACLs, Shape
<1>2. IsSeq(todo[c]) /\ before[c] \subseteq table
  BY <1>a DEF LookupOK, Checking
<1>3. /\ Head(todo[c]) \in Range(todo[c])
      /\ IsSeq(Tail(todo[c])) /\ Range(Tail(todo[c])) \subseteq Range(todo[c])
      /\ \A x \in Range(todo[c]) : x # Head(todo[c]) => x \in Range(Tail(todo[c]))
  BY <1>2, <1>a, TailSet
<1>4. rows \subseteq Rows(own) /\ rows \subseteq Rows(Range(todo[c]))
  BY <1>1, <1>3, RepliesAreRows DEF Rows
<1>5. UNCHANGED <<setup, table, req, path, left, before>>
  BY DEF GetACLs
<1>6. (failed[c] \/ rows # Rows(own)) \in BOOLEAN
  BY <1>a DEF Shape
<1>7. CASE AnyGrants(c, rows)
  <2>1. Granted(c, table)
    BY <1>4, <1>7, <1>a, DecidedRight
  <2>2. Goto(c, "handle") /\ UNCHANGED todo
    BY <1>1, <1>7 DEF Decide
  <2> HIDE DEF own
  <2> QED
    BY <1>1, <1>5, <1>6, <1>a, <2>1, <2>2, DecideStep, Zenon
<1>8. CASE ~AnyGrants(c, rows)
  <2>1. todo' = [todo EXCEPT ![c] = Tail(todo[c])] /\ UNCHANGED pc
    BY <1>1, <1>8
  <2>2. Shape' /\ Local(c)
    BY <1>1, <1>5, <1>6, <1>a, <2>1 DEF Shape, Local, setup
  <2>3. /\ pc'[c] = "query" /\ todo'[c] = Tail(todo[c])
        /\ failed'[c] = (failed[c] \/ rows # Rows(own))
    BY <1>1, <1>a, <2>1 DEF Shape
  <2>4. CallOK(c)'
    BY <1>5, <1>a, <2>3, CheckKeepsCall, Zenon
  <2>5. ASSUME ~failed'[c], NEW e \in before[c], Inherits(e.path, path[c]), Matches(c, e)
        PROVE  e.path \in Range(Tail(todo[c]))
    <3>1. e.path \in Range(todo[c])
      BY <1>a, <2>3, <2>5, Zenon DEF LookupOK
    <3>2. e \notin Rows(own)
      BY <1>8, <2>3, <2>5, Zenon DEF AnyGrants, Matches
    <3>3. e.path # Head(todo[c])
      BY <1>2, <2>5, <3>2 DEF Rows
    <3> QED
      BY <1>3, <3>1, <3>3
  <2>6. \A e : Matches(c, e)' <=> Matches(c, e)
    BY <1>5 DEF Matches
  <2>7. LookupOK(c)'
    BY <1>2, <1>3, <1>5, <1>a, <2>3, <2>5, <2>6, Zenon DEF LookupOK
  <2>8. AllowedOK(c)' /\ DeniedOK(c)'
    BY <2>3, Zenon DEF AllowedOK, DeniedOK
  <2> QED
    BY <2>2, <2>4, <2>7, <2>8, LocalStep DEF Good
<1> QED
  BY <1>7, <1>8

LEMMA InvStep ==
  ASSUME Inv, [Next]_vars
  PROVE  Inv'
<1>1. ASSUME NEW e \in Entries, SetACL(e) PROVE Inv'
  <2>1. Shape'
    BY <1>1 DEF Inv, Shape, SetACL, setup
  <2>2. ASSUME NEW c \in Calls PROVE Good(c)'
    BY <1>1, Untouched DEF Inv, SetACL, setup
  <2> QED
    BY <2>1, <2>2 DEF Inv
<1>2. ASSUME NEW c \in Calls, Serve(c) PROVE Inv'
  BY <1>2, AuthenticateStep, AuthorizeStep, PassStep, WalkStep, BatchStep,
     BatchFailsStep, LookupStep, CheckRolesStep
  DEF Serve, CanAccess
<1>3. CASE UNCHANGED vars
  <2>1. Shape'
    BY <1>3 DEF Inv, Shape, vars, setup
  <2>2. ASSUME NEW c \in Calls PROVE Good(c)'
    BY <1>3, Untouched DEF Inv, vars, setup
  <2> QED
    BY <2>1, <2>2 DEF Inv
<1> QED
  BY <1>1, <1>2, <1>3, ArriveStep DEF Next

LEMMA InitInv == Init => Inv
<1> SUFFICES ASSUME Init PROVE Inv
  OBVIOUS
<1>1. Shape
  BY DEF Init, Shape, Labels
<1>2. ASSUME NEW c \in Calls PROVE Good(c)
  <2>1. pc[c] = "idle" /\ left[c] = 0 /\ path[c] = <<"/">>
    BY <1>2 DEF Init
  <2> QED
    BY <2>1 DEF Good, CallOK, LookupOK, AllowedOK, DeniedOK, Known, Checking
<1> QED
  BY <1>1, <1>2 DEF Inv

(* CanAccess lets a call through only with a token that can be trusted     *)
(* and with a permission that the caller has by a role or by an entry that *)
(* the path inherits from, for any number of calls that run at once, any   *)
(* paths, whichever queries fail and whatever is added.                    *)
THEOREM ServedIsGranted == Spec => []AllowedIsGranted
<1>1. Inv => AllowedIsGranted
  BY DEF Inv, Good, AllowedOK, AllowedIsGranted, NeedsCheck
<1> QED
  BY <1>1, InitInv, InvStep, PTL DEF Spec

(* CanAccess denies a call only if nothing that was there when the check   *)
(* began grants it, or a query failed, in the batch as in the lookups path *)
(* by path.                                                                *)
THEOREM DenialsAreDue == Spec => []DeniedIsDue
<1>1. Inv => DeniedIsDue
  BY DEF Inv, Good, DeniedOK, DeniedIsDue
<1> QED
  BY <1>1, InitInv, InvStep, PTL DEF Spec

(* When the walk has come to its end, the paths to look up are, of the     *)
(* paths that entries have, those that the checked one inherits from; if   *)
(* it is plain, by its names.                                              *)
THEOREM ChecksCover == Spec => []PathsCover
<1>1. Inv => PathsCover
  <2> SUFFICES ASSUME Inv, NEW c \in Calls, NEW e \in Entries, pc[c] = "batch"
               PROVE  /\ e.path \in Range(todo[c]) <=> Inherits(e.path, path[c])
                      /\ Plain(c) /\ Absolute(e.path) /\ Clean(e.path) = e.path =>
                            (Inherits(e.path, path[c])
                                <=> IsPrefix(Segments(e.path), Segments(path[c])))
    BY DEF PathsCover
  <2>1. e.path \in Range(todo[c]) <=> Inherits(e.path, path[c])
    BY DEF Inv, Good, LookupOK
  <2>2. ASSUME Plain(c), Absolute(e.path), Clean(e.path) = e.path
        PROVE  Inherits(e.path, path[c]) <=> IsPrefix(Segments(e.path), Segments(path[c]))
    <3>1. IsSeq(e.path)
      BY PathAssumption DEF IsSeq
    <3>2. Tidy(e.path)
      BY <2>2, <3>1, AbsoluteIs, CleanRooted
    <3>3. req[c] \in Requests /\ NeedsCheck(req[c]) /\ path[c] = PathOf(req[c])
      BY DEF Inv, Good, CallOK, Checking
    <3>4. Rooted(path[c])
      BY Zenon DEF Inv, Good, LookupOK
    <3>5. DotFree(path[c])
      BY <2>2 DEF Plain, DotFree
    <3>6. TakeTurns(path[c])
      BY <2>2, <3>3, <3>4, CheckedPathIs, DownloadTurns DEF Plain
    <3> QED
      BY <3>2, <3>5, <3>6, InheritsIsPrefix
  <2> QED
    BY <2>1, <2>2
<1> QED
  BY <1>1, InitInv, InvStep, PTL DEF Spec

(* Every variable stays in its type, and the path under a check is         *)
(* absolute in every call but the raw download.                            *)
THEOREM TypesHold == Spec => []TypeOK
<1>1. Inv => TypeOK
  <2> SUFFICES ASSUME Inv PROVE TypeOK
    OBVIOUS
  <2>1. ASSUME NEW c \in Calls PROVE Absolute(path[c]) \/ req[c].method = Download
    <3>1. CASE path[c] = <<"/">>
      BY <3>1, RootIs, AbsoluteIs
    <3>2. CASE path[c] # <<"/">>
      <4>1. req[c] \in Requests /\ NeedsCheck(req[c]) /\ path[c] = PathOf(req[c])
        BY <3>2 DEF Inv, Good, CallOK
      <4> QED
        BY <4>1, CheckedPathIs, AbsoluteIs
    <3> QED
      BY <3>1, <3>2
  <2> QED
    BY <2>1 DEF Inv, Shape, TypeOK, Labels
<1> QED
  BY <1>1, InitInv, InvStep, PTL DEF Spec
=============================================================================
