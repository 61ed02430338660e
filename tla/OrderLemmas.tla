---------------------------- MODULE OrderLemmas ----------------------------
(***************************************************************************)
(* Facts about order that the proofs share: rows counted along a cursor,   *)
(* as in ORDER BY cursor LIMIT n, and lines in which nothing waits twice.  *)
(***************************************************************************)
EXTENDS Naturals, FiniteSets, SequencesExt, FiniteSetTheorems, FunctionTheorems,
        SequenceTheorems, WellFoundedInduction, TLAPS

\* The rows of R before r.
Below(R, r) == {s \in R : s.cursor < r.cursor}

\* R is finite, and its rows have cursors of their own.
Rowset(R) ==
    /\ IsFiniteSet(R)
    /\ \A r \in R : r.cursor \in Nat
    /\ \A r, s \in R : r.cursor = s.cursor => r = s

-----------------------------------------------------------------------------
LEMMA HasMinimum ==
    ASSUME NEW S \in SUBSET Nat, S # {}
    PROVE  \E x \in S : \A y \in S : x <= y
<1> DEFINE less == {pair \in Nat \X Nat : pair[1] < pair[2]}
<1>1. IsWellFoundedOn(less, Nat)
  BY NatLessThanWellFounded DEF OpToRel
<1> HIDE DEF less
<1>2. PICK x \in S : \A y \in S : ~ (<<y, x>> \in less)
  BY <1>1, WFMin
<1>3. \A y \in S : ~ (y < x)
  BY <1>2 DEF less
<1> QED BY <1>3

\* Induction up to m, over a set: what a function that is recursive on 0 .. m is,
\* is proved by it.
LEMMA CountUp ==
    ASSUME NEW m \in Nat, NEW S, 0 \in S, \A n \in 0 .. m : n \in S /\ n < m => n + 1 \in S
    PROVE  \A n \in 0 .. m : n \in S
<1> SUFFICES ASSUME {n \in 0 .. m : n \notin S} # {} PROVE FALSE
  OBVIOUS
<1>1. PICK n \in 0 .. m : n \notin S /\ \A k \in 0 .. m : k \notin S => n <= k
  <2> DEFINE T == {n \in 0 .. m : n \notin S}
  <2>1. T \in SUBSET Nat /\ T # {}
    OBVIOUS
  <2>2. PICK n \in T : \A k \in T : n <= k
    BY <2>1, HasMinimum
  <2> QED BY <2>2
<1>2. n # 0 /\ n - 1 \in 0 .. m /\ n - 1 < m /\ (n - 1) + 1 = n /\ ~ (n <= n - 1)
  BY <1>1
<1>3. n - 1 \in S
  BY <1>1, <1>2
<1> QED BY <1>1, <1>2, <1>3

LEMMA HasMaximum ==
    ASSUME NEW S \in SUBSET Nat, S # {}, NEW b \in Nat, \A x \in S : x <= b
    PROVE  \E x \in S : \A y \in S : y <= x
<1> DEFINE T == {b - x : x \in S}
<1>1. T \in SUBSET Nat /\ T # {}
  <2>1. \A x \in S : b - x \in Nat
    OBVIOUS
  <2> QED BY <2>1
<1>2. PICK t \in T : \A u \in T : t <= u
  BY <1>1, HasMinimum
<1>3. PICK x \in S : t = b - x
  OBVIOUS
<1>4. ASSUME NEW y \in S PROVE y <= x
  <2>1. b - x <= b - y
    BY <1>2, <1>3
  <2> QED BY <2>1
<1> QED BY <1>4

\* How many rows are before a row is a natural number, below their number,
\* and grows with the cursor.
LEMMA BelowCounts ==
    ASSUME NEW R, Rowset(R), NEW r \in R
    PROVE  /\ IsFiniteSet(Below(R, r))
           /\ Cardinality(Below(R, r)) \in Nat
           /\ Cardinality(R) \in Nat
           /\ Cardinality(Below(R, r)) < Cardinality(R)
<1>1. Below(R, r) \in SUBSET R /\ r \notin Below(R, r)
  BY DEF Below, Rowset
<1>2. IsFiniteSet(R)
  BY DEF Rowset
<1>3. /\ IsFiniteSet(Below(R, r)) /\ Cardinality(Below(R, r)) <= Cardinality(R)
      /\ Cardinality(R) = Cardinality(Below(R, r)) => R = Below(R, r)
  BY <1>1, <1>2, FS_Subset
<1>4. Cardinality(Below(R, r)) \in Nat /\ Cardinality(R) \in Nat
  BY <1>2, <1>3, FS_CardinalityType
<1> QED BY <1>1, <1>3, <1>4

LEMMA BelowGrows ==
    ASSUME NEW R, Rowset(R), NEW r \in R, NEW s \in R
    PROVE  r.cursor < s.cursor <=> Cardinality(Below(R, r)) < Cardinality(Below(R, s))
<1>1. ASSUME NEW x \in R, NEW y \in R, x.cursor < y.cursor
      PROVE  Cardinality(Below(R, x)) < Cardinality(Below(R, y))
  <2>1. Below(R, x) \in SUBSET Below(R, y)
    BY <1>1 DEF Below, Rowset
  <2>2. x \in Below(R, y) /\ x \notin Below(R, x)
    BY <1>1 DEF Below, Rowset
  <2>3. /\ Cardinality(Below(R, x)) <= Cardinality(Below(R, y))
        /\ Cardinality(Below(R, y)) = Cardinality(Below(R, x)) => Below(R, y) = Below(R, x)
    BY <2>1, BelowCounts, FS_Subset
  <2>4. Cardinality(Below(R, x)) \in Nat /\ Cardinality(Below(R, y)) \in Nat
    BY BelowCounts
  <2> QED BY <2>2, <2>3, <2>4
<1>2. CASE r.cursor < s.cursor
  BY <1>1, <1>2
<1>3. CASE s.cursor < r.cursor
  <2>1. Cardinality(Below(R, s)) < Cardinality(Below(R, r))
    BY <1>1, <1>3
  <2> QED BY <1>3, <2>1, BelowCounts DEF Rowset
<1>4. CASE r.cursor = s.cursor
  <2>1. r = s
    BY <1>4 DEF Rowset
  <2> QED BY <2>1, BelowCounts DEF Rowset
<1> QED BY <1>2, <1>3, <1>4 DEF Rowset

\* The last of some rows.
LEMMA LastRow ==
    ASSUME NEW R, Rowset(R), NEW Q \in SUBSET R, Q # {}
    PROVE  \E r \in Q : \A s \in Q : s.cursor <= r.cursor
<1> DEFINE ranks == {Cardinality(Below(R, r)) : r \in Q}
<1>1. /\ ranks \in SUBSET Nat /\ ranks # {}
      /\ Cardinality(R) \in Nat /\ \A x \in ranks : x <= Cardinality(R)
  BY BelowCounts
<1>2. PICK x \in ranks : \A y \in ranks : y <= x
  <2> HIDE DEF ranks
  <2> QED BY <1>1, HasMaximum
<1>3. PICK r \in Q : x = Cardinality(Below(R, r))
  OBVIOUS
<1>4. ASSUME NEW s \in Q PROVE s.cursor <= r.cursor
  <2>1. Cardinality(Below(R, s)) <= Cardinality(Below(R, r))
    BY <1>2, <1>3
  <2>2. Cardinality(Below(R, s)) \in Nat /\ Cardinality(Below(R, r)) \in Nat
    BY BelowCounts
  <2>3. ~ (r.cursor < s.cursor)
    BY <2>1, <2>2, BelowGrows
  <2> QED BY <2>3 DEF Rowset
<1> QED BY <1>4

\* Every place among the rows is taken.
LEMMA RowAtPlace ==
    ASSUME NEW R, Rowset(R), NEW n \in Nat, n < Cardinality(R)
    PROVE  \E r \in R : Cardinality(Below(R, r)) = n
<1> DEFINE rank(r) == Cardinality(Below(R, r))
           Q == {r \in R : rank(r) >= n}
           ranks == {rank(r) : r \in Q}
<1>1. \A r \in R : rank(r) \in Nat /\ rank(r) < Cardinality(R)
  BY BelowCounts
<1>2. IsFiniteSet(R) /\ Cardinality(R) \in Nat
  BY FS_CardinalityType DEF Rowset
\* The set Z is {s \in R : s.cursor <= z.cursor}, for the last row z of it.
<1>3. ASSUME NEW Z \in SUBSET R, NEW z \in Z,
             \A s \in R : s \in Z <=> s.cursor <= z.cursor
      PROVE  Cardinality(Z) = rank(z) + 1
  <2>1. Z = Below(R, z) \cup {z} /\ z \notin Below(R, z)
    BY <1>3 DEF Below, Rowset
  <2> QED BY <2>1, BelowCounts, FS_AddElement
<1>4. Q # {}
  <2>1. R # {}
    BY <1>2, FS_EmptySet
  <2>2. PICK r \in R : \A s \in R : s.cursor <= r.cursor
    BY <2>1, LastRow
  <2>3. Cardinality(R) = rank(r) + 1
    BY <1>3, <2>2
  <2> QED BY <1>1, <1>2, <2>3
<1>5. PICK r \in Q : \A s \in Q : rank(r) <= rank(s)
  <2>1. ranks \in SUBSET Nat /\ ranks # {}
    BY <1>1, <1>4
  <2> HIDE DEF ranks
  <2>2. PICK x \in ranks : \A y \in ranks : x <= y
    BY <2>1, HasMinimum
  <2> QED BY <2>2 DEF ranks
<1>6. ASSUME rank(r) > n PROVE FALSE
  <2>1. Below(R, r) # {}
    BY <1>1, <1>6, FS_EmptySet
  <2>2. PICK z \in Below(R, r) : \A s \in Below(R, r) : s.cursor <= z.cursor
    BY <2>1, LastRow DEF Below
  <2>3. z \in R /\ z.cursor < r.cursor
    BY <2>2 DEF Below
  <2>4. \A s \in R : s \in Below(R, r) <=> s.cursor <= z.cursor
    BY <2>2, <2>3 DEF Below, Rowset
  <2>5. rank(r) = rank(z) + 1
    BY <1>3, <2>2, <2>4 DEF Below
  <2>6. z \in Q /\ rank(z) \in Nat
    BY <1>1, <1>6, <2>3, <2>5
  <2> QED BY <1>5, <2>5, <2>6
<1> QED BY <1>1, <1>5, <1>6

\* LIMIT n: the rows before which there are fewer than n are n, if not all.
LEMMA PageIsFull ==
    ASSUME NEW R, Rowset(R), NEW n \in Nat, NEW r \in R, ~ (Cardinality(Below(R, r)) < n)
    PROVE  Cardinality({s \in R : Cardinality(Below(R, s)) < n}) = n
<1>1. n < Cardinality(R)
  BY BelowCounts
<1>2. PICK z \in R : Cardinality(Below(R, z)) = n
  BY <1>1, RowAtPlace
<1>3. \A s \in R : Cardinality(Below(R, s)) < n <=> s.cursor < z.cursor
  BY <1>2, BelowGrows
<1>4. {s \in R : Cardinality(Below(R, s)) < n} = Below(R, z)
  BY <1>3 DEF Below
<1> QED BY <1>2, <1>4

-----------------------------------------------------------------------------
(* Lines. *)

\* A sequence over S in which nothing is twice.
LineOver(S, line) == line \in Seq(S) /\ IsInjective(line)

\* What waits is at some place.
LEMMA LinePlaces ==
    ASSUME NEW S, NEW line \in Seq(S)
    PROVE  /\ DOMAIN line = 1 .. Len(line) /\ Len(line) \in Nat
           /\ \A x : x \in ToSet(line) <=> \E i \in 1 .. Len(line) : line[i] = x
           /\ ToSet(line) \subseteq S
<1>1. DOMAIN line = 1 .. Len(line) /\ Len(line) \in Nat /\ line \in [1 .. Len(line) -> S]
  BY LenProperties
<1>2. \A x : x \in ToSet(line) <=> \E i \in 1 .. Len(line) : line[i] = x
  BY <1>1 DEF ToSet
<1>3. ToSet(line) \subseteq S
  BY <1>1, <1>2
<1> QED BY <1>1, <1>2, <1>3

LEMMA EmptyLine == \A S : LineOver(S, << >>) /\ ToSet(<< >>) = {}
<1> TAKE S
<1>1. << >> \in Seq(S) /\ Len(<< >>) = 0
  BY EmptySeq
<1>2. DOMAIN << >> = {}
  BY <1>1, LenProperties
<1> QED BY <1>1, <1>2 DEF LineOver, IsInjective, ToSet

\* Something new joins at the end.
LEMMA JoinLine ==
    ASSUME NEW S, NEW line, LineOver(S, line), NEW x \in S, x \notin ToSet(line)
    PROVE  /\ LineOver(S, Append(line, x))
           /\ ToSet(Append(line, x)) = ToSet(line) \cup {x}
<1> DEFINE n == Len(line)
           new == Append(line, x)
<1>1. line \in Seq(S) /\ IsInjective(line)
  BY DEF LineOver
<1>2. /\ DOMAIN line = 1 .. n /\ n \in Nat
      /\ \A y : y \in ToSet(line) <=> \E i \in 1 .. n : line[i] = y
  BY <1>1, LinePlaces
<1>3. /\ new \in Seq(S) /\ Len(new) = n + 1 /\ new[n + 1] = x
      /\ \A i \in 1 .. n : new[i] = line[i]
  BY <1>1, AppendProperties
<1>4. /\ DOMAIN new = 1 .. (n + 1)
      /\ \A y : y \in ToSet(new) <=> \E i \in 1 .. (n + 1) : new[i] = y
  BY <1>3, LinePlaces
<1> HIDE DEF n, new
<1>5. \A i \in 1 .. (n + 1) : i \in 1 .. n \/ i = n + 1
  BY <1>2
<1>6. IsInjective(new)
  <2> SUFFICES ASSUME NEW a \in 1 .. (n + 1), NEW b \in 1 .. (n + 1), new[a] = new[b]
               PROVE  a = b
    BY <1>4 DEF IsInjective
  <2>1. CASE a \in 1 .. n /\ b \in 1 .. n
    BY <1>1, <1>2, <1>3, <2>1 DEF IsInjective
  <2>2. CASE a = n + 1 \/ b = n + 1
    BY <1>2, <1>3, <1>5, <2>2
  <2> QED BY <1>5, <2>1, <2>2
<1>7. ToSet(new) = ToSet(line) \cup {x}
  <2>1. ASSUME NEW y \in ToSet(new) PROVE y \in ToSet(line) \cup {x}
    BY <1>2, <1>3, <1>4, <1>5
  <2>2. ASSUME NEW y \in ToSet(line) \cup {x} PROVE y \in ToSet(new)
    BY <1>2, <1>3, <1>4
  <2> QED BY <2>1, <2>2
<1> QED BY <1>3, <1>6, <1>7 DEF LineOver, new

\* Whoever is at a place leaves.
LEMMA LeaveLine ==
    ASSUME NEW S, NEW line, LineOver(S, line), NEW i \in DOMAIN line
    PROVE  /\ LineOver(S, RemoveAt(line, i))
           /\ ToSet(RemoveAt(line, i)) = ToSet(line) \ {line[i]}
<1> DEFINE n == Len(line)
           front == SubSeq(line, 1, i - 1)
           back == SubSeq(line, i + 1, n)
           new == RemoveAt(line, i)
<1>1. line \in Seq(S) /\ IsInjective(line)
  BY DEF LineOver
<1>2. /\ DOMAIN line = 1 .. n /\ n \in Nat
      /\ \A y : y \in ToSet(line) <=> \E j \in 1 .. n : line[j] = y
      /\ \A j \in 1 .. n : line[j] \in S
  BY <1>1, LinePlaces, LenProperties
<1>3. /\ front \in Seq(S) /\ Len(front) = i - 1
      /\ \A j \in 1 .. (i - 1) : front[j] = line[j]
  <2>1. \A j \in 1 .. (i - 1) : line[j] \in S
    BY <1>2
  <2>2. i - 1 \in Int /\ 1 \in Int /\ i \in 1 .. n
    BY <1>2
  <2>3. /\ front \in Seq(S) /\ Len(front) = IF 1 <= i - 1 THEN i - 1 - 1 + 1 ELSE 0
        /\ \A j \in 1 .. (i - 1 - 1 + 1) : front[j] = line[1 + j - 1]
    BY <2>1, <2>2, SubSeqProperties
  <2> HIDE DEF front
  <2> QED BY <1>2, <2>2, <2>3
<1>4. /\ back \in Seq(S) /\ Len(back) = n - i
      /\ \A j \in 1 .. (n - i) : back[j] = line[i + j]
  <2>1. \A j \in (i + 1) .. n : line[j] \in S
    BY <1>2
  <2>2. i + 1 \in Int /\ n \in Int /\ i \in 1 .. n
    BY <1>2
  <2>3. /\ back \in Seq(S) /\ Len(back) = IF i + 1 <= n THEN n - (i + 1) + 1 ELSE 0
        /\ \A j \in 1 .. (n - (i + 1) + 1) : back[j] = line[i + 1 + j - 1]
    BY <2>1, <2>2, SubSeqProperties
  <2> HIDE DEF back, n
  <2>4. Len(back) = n - i
    BY <2>2, <2>3
  <2>5. ASSUME NEW j \in 1 .. (n - i) PROVE back[j] = line[i + j]
    <3>1. j \in 1 .. (n - (i + 1) + 1) /\ i + 1 + j - 1 = i + j
      BY <2>2
    <3>2. back[j] = line[i + 1 + j - 1]
      BY <2>3, <3>1
    <3> QED BY <3>1, <3>2
  <2> QED BY <2>3, <2>4, <2>5
<1>5. /\ new \in Seq(S) /\ Len(new) = (i - 1) + (n - i)
      /\ \A j \in 1 .. ((i - 1) + (n - i)) : new[j] = IF j <= i - 1 THEN front[j] ELSE back[j - (i - 1)]
  <2>1. new = front \o back
    BY DEF RemoveAt
  <2> HIDE DEF new, front, back, n
  <2> QED BY <1>3, <1>4, <2>1, ConcatProperties
<1>6. i \in 1 .. n
  BY <1>2
<1>7. /\ DOMAIN new = 1 .. (n - 1)
      /\ \A y : y \in ToSet(new) <=> \E j \in 1 .. (n - 1) : new[j] = y
  BY <1>2, <1>5, <1>6, LinePlaces
<1> HIDE DEF n, front, back, new
<1>8. \A j \in 1 .. (n - 1) : new[j] = line[IF j < i THEN j ELSE j + 1]
  <2> TAKE j \in 1 .. (n - 1)
  <2>1. j \in 1 .. ((i - 1) + (n - i))
    BY <1>2, <1>6
  <2>2. CASE j < i
    BY <1>2, <1>3, <1>5, <1>6, <2>1, <2>2
  <2>3. CASE ~ (j < i)
    <3>1. j - (i - 1) \in 1 .. (n - i) /\ i + (j - (i - 1)) = j + 1 /\ ~ (j <= i - 1)
      BY <1>2, <1>6, <2>3
    <3>2. back[j - (i - 1)] = line[j + 1]
      BY <1>4, <3>1
    <3> QED BY <1>5, <2>1, <2>3, <3>1, <3>2
  <2> QED BY <2>2, <2>3
<1>9. IsInjective(new)
  <2> SUFFICES ASSUME NEW a \in 1 .. (n - 1), NEW b \in 1 .. (n - 1), new[a] = new[b]
               PROVE  a = b
    BY <1>7 DEF IsInjective
  <2> DEFINE p == IF a < i THEN a ELSE a + 1
             q == IF b < i THEN b ELSE b + 1
  <2>1. p \in 1 .. n /\ q \in 1 .. n /\ line[p] = line[q]
    BY <1>2, <1>6, <1>8
  <2>2. p = q
    <3> HIDE DEF p, q
    <3> QED BY <1>1, <1>2, <2>1 DEF IsInjective
  <2> QED BY <1>2, <1>6, <2>2
<1>10. ToSet(new) = ToSet(line) \ {line[i]}
  <2>1. ASSUME NEW y \in ToSet(new) PROVE y \in ToSet(line) \ {line[i]}
    <3>1. PICK j \in 1 .. (n - 1) : new[j] = y
      BY <1>7
    <3> DEFINE p == IF j < i THEN j ELSE j + 1
    <3>2. p \in 1 .. n /\ p # i /\ line[p] = y
      BY <1>2, <1>6, <1>8, <3>1
    <3> HIDE DEF p
    <3> QED BY <1>1, <1>2, <1>6, <3>2 DEF IsInjective
  <2>2. ASSUME NEW y \in ToSet(line) \ {line[i]} PROVE y \in ToSet(new)
    <3>1. PICK j \in 1 .. n : line[j] = y /\ j # i
      BY <1>2
    <3> DEFINE p == IF j < i THEN j ELSE j - 1
    <3>2. p \in 1 .. (n - 1) /\ (IF p < i THEN p ELSE p + 1) = j
      BY <1>2, <1>6, <3>1
    <3> HIDE DEF p
    <3> QED BY <1>7, <1>8, <3>1, <3>2
  <2> QED BY <2>1, <2>2
<1> QED BY <1>5, <1>9, <1>10 DEF LineOver, new

\* A line with exactly the members of a finite set.
LEMMA LineOfSet ==
    ASSUME NEW K, NEW S \in SUBSET K, IsFiniteSet(S), NEW line \in SetToSeqs(S)
    PROVE  LineOver(K, line) /\ ToSet(line) = S
<1> DEFINE D == 1 .. Cardinality(S)
<1>1. Cardinality(S) \in Nat
  BY FS_CardinalityType
<1>2. line \in [D -> S] /\ \A i, j \in D : line[i] = line[j] => i = j
  BY DEF SetToSeqs
<1>3. IsFiniteSet(D) /\ Cardinality(D) = Cardinality(S)
  <2>1. /\ IsFiniteSet(1 .. Cardinality(S))
        /\ Cardinality(1 .. Cardinality(S)) =
             IF 1 > Cardinality(S) THEN 0 ELSE Cardinality(S) - 1 + 1
    BY <1>1, FS_Interval
  <2> QED BY <1>1, <2>1
<1> HIDE DEF D
<1>4. line \in Injection(D, S)
  BY <1>2, Fun_IsInj
<1>5. line \in Surjection(D, S)
  BY <1>3, <1>4, FS_Injection
<1>6. \A x \in S : \E i \in D : line[i] = x
  BY <1>5, Fun_SurjectionProperties
<1>7. line \in Seq(K)
  <2>1. line \in [1 .. Cardinality(S) -> K]
    BY <1>2 DEF D
  <2> QED BY <1>1, <2>1, SeqDef
<1> QED BY <1>2, <1>6, <1>7 DEF LineOver, IsInjective, ToSet

\* A line joins another at its end.
LEMMA JoinLines ==
    ASSUME NEW S, NEW a, NEW b, LineOver(S, a), LineOver(S, b),
           ToSet(a) \cap ToSet(b) = {}
    PROVE  /\ LineOver(S, a \o b)
           /\ \A x : x \in ToSet(a \o b) <=> x \in ToSet(a) \/ x \in ToSet(b)
<1> DEFINE m == Len(a)
           n == Len(b)
           new == a \o b
<1>1. a \in Seq(S) /\ b \in Seq(S) /\ IsInjective(a) /\ IsInjective(b)
  BY DEF LineOver
<1>2. /\ DOMAIN a = 1 .. m /\ m \in Nat /\ DOMAIN b = 1 .. n /\ n \in Nat
      /\ \A y : y \in ToSet(a) <=> \E i \in 1 .. m : a[i] = y
      /\ \A y : y \in ToSet(b) <=> \E i \in 1 .. n : b[i] = y
  BY <1>1, LinePlaces
<1>3. /\ new \in Seq(S) /\ Len(new) = m + n
      /\ \A i \in 1 .. (m + n) : new[i] = IF i <= m THEN a[i] ELSE b[i - m]
  BY <1>1, ConcatProperties
<1> HIDE DEF m, n, new
<1>4. /\ DOMAIN new = 1 .. (m + n)
      /\ \A y : y \in ToSet(new) <=> \E i \in 1 .. (m + n) : new[i] = y
  BY <1>3, LinePlaces
<1>5. \A i \in 1 .. (m + n) :
        \/ i \in 1 .. m /\ new[i] = a[i] /\ a[i] \in ToSet(a)
        \/ i > m /\ i - m \in 1 .. n /\ new[i] = b[i - m] /\ b[i - m] \in ToSet(b)
  BY <1>2, <1>3
<1>6. IsInjective(new)
  <2> SUFFICES ASSUME NEW i \in 1 .. (m + n), NEW j \in 1 .. (m + n), new[i] = new[j]
               PROVE  i = j
    BY <1>4 DEF IsInjective
  <2>1. CASE i \in 1 .. m /\ j \in 1 .. m
    BY <1>1, <1>2, <1>3, <2>1 DEF IsInjective
  <2>2. CASE i > m /\ j > m
    <3>1. i - m \in 1 .. n /\ j - m \in 1 .. n /\ b[i - m] = b[j - m]
      <4>1. ~ (i \in 1 .. m) /\ ~ (j \in 1 .. m)
        BY <1>2, <2>2
      <4> QED BY <1>5, <2>2, <4>1
    <3>2. i - m = j - m
      BY <1>1, <1>2, <3>1 DEF IsInjective
    <3> QED BY <1>2, <3>2
  <2>3. CASE ~ (i \in 1 .. m <=> j \in 1 .. m)
    BY <1>2, <1>5, <2>3
  <2> QED BY <1>2, <1>5, <2>1, <2>2, <2>3
<1>7. ToSet(new) = ToSet(a) \cup ToSet(b)
  <2>1. ASSUME NEW y \in ToSet(new) PROVE y \in ToSet(a) \cup ToSet(b)
    BY <1>4, <1>5
  <2>2. ASSUME NEW y \in ToSet(a) PROVE y \in ToSet(new)
    <3>1. PICK i \in 1 .. m : a[i] = y
      BY <1>2
    <3>2. i \in 1 .. (m + n) /\ new[i] = y
      BY <1>2, <1>3, <3>1
    <3> QED BY <1>4, <3>2
  <2>3. ASSUME NEW y \in ToSet(b) PROVE y \in ToSet(new)
    <3>1. PICK i \in 1 .. n : b[i] = y
      BY <1>2
    <3>2. PICK j \in 1 .. (m + n) : ~ (j <= m) /\ j - m = i
      <4> DEFINE j == m + i
      <4>1. j \in 1 .. (m + n) /\ ~ (j <= m) /\ j - m = i
        BY <1>2
      <4> HIDE DEF j
      <4> QED BY <4>1
    <3>3. new[j] = b[j - m]
      BY <1>3, <3>2
    <3> QED BY <1>4, <3>1, <3>2, <3>3
  <2> QED BY <2>1, <2>2, <2>3
<1> QED BY <1>3, <1>6, <1>7 DEF LineOver, new
=============================================================================
