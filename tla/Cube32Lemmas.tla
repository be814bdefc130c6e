---------------------------- MODULE Cube32Lemmas ----------------------------
(***************************************************************************)
(* Lemmas about the cube operations of module Cube32 and about the Boolean *)
(* functions that cubes and sets of cubes stand for.                       *)
(***************************************************************************)
EXTENDS Cube32, FiniteSetTheorems, SequenceTheorems, WellFoundedInduction, TLAPS

-----------------------------------------------------------------------------
(* Induction and recursion over the numbers. *)

\* A set of numbers has a least one.
LEMMA LeastNumber ==
  ASSUME NEW S \in SUBSET Nat, S # {}
  PROVE  \E n \in S : \A m \in S : n <= m
<1>1. IsWellFoundedOn(OpToRel(<, Nat), Nat)
  BY NatLessThanWellFounded
<1>2. PICK n \in S : \A m \in S : ~ (<<m, n>> \in OpToRel(<, Nat))
  BY <1>1, WFMin
<1>3. \A m \in S : ~ (m < n)
  BY <1>2 DEF OpToRel
<1>4. \A m \in S : m \in Nat /\ n \in Nat
  OBVIOUS
<1>5. \A m \in S : n <= m
  BY <1>3, <1>4
<1> QED  BY <1>5

\* Induction: a set with 0 and the successors of its numbers has all numbers.
LEMMA AllNumbers ==
  ASSUME NEW S, 0 \in S, \A n \in Nat : n \in S => n + 1 \in S
  PROVE  \A n \in Nat : n \in S
<1> SUFFICES ASSUME Nat \ S # {} PROVE FALSE
  OBVIOUS
<1>1. PICK n \in Nat \ S : \A m \in Nat \ S : n <= m
  BY LeastNumber
<1>2. n # 0 /\ n - 1 \in Nat /\ ~ (n <= n - 1) /\ n - 1 + 1 = n
  BY <1>1
<1>3. n - 1 \in S
  BY <1>1, <1>2
<1> QED  BY <1>1, <1>2, <1>3

\* The values up to n of the function that starts with a and steps by G.
Upto(f, n, a, G) ==
  /\ f[0] = a
  /\ \A k \in 0 .. n - 1 : f[k + 1] = G[<<k + 1, f[k]>>]

\* A recursion up to a number has a solution there.
LEMMA UptoExists ==
  ASSUME NEW T, NEW a \in T, NEW G \in [Nat \X T -> T]
  PROVE  \A n \in Nat : \E f \in [Nat -> T] : Upto(f, n, a, G)
<1> DEFINE S == {n \in Nat : \E f \in [Nat -> T] : Upto(f, n, a, G)}
<1>1. 0 \in S
  <2>1. [k \in Nat |-> a] \in [Nat -> T] /\ Upto([k \in Nat |-> a], 0, a, G)
    BY DEF Upto
  <2> QED  BY <2>1
<1>2. ASSUME NEW n \in Nat, n \in S  PROVE n + 1 \in S
  <2>1. PICK f \in [Nat -> T] : Upto(f, n, a, G)
    BY <1>2
  <2> DEFINE g == [f EXCEPT ![n + 1] = G[<<n + 1, f[n]>>]]
  <2>2. g \in [Nat -> T]
    OBVIOUS
  <2>3. g[0] = a
    BY <2>1 DEF Upto
  <2>4. ASSUME NEW k \in 0 .. n + 1 - 1  PROVE g[k + 1] = G[<<k + 1, g[k]>>]
    <3>1. CASE k = n
      BY <3>1
    <3>2. CASE k # n
      <4>1. k \in 0 .. n - 1 /\ k # n + 1 /\ k + 1 # n + 1 /\ k + 1 \in Nat /\ k \in Nat
        BY <3>2
      <4>2. g[k] = f[k] /\ g[k + 1] = f[k + 1]
        BY <4>1
      <4> QED  BY <2>1, <4>1, <4>2 DEF Upto
    <3> QED  BY <3>1, <3>2
  <2> HIDE DEF g
  <2>5. Upto(g, n + 1, a, G)
    BY <2>3, <2>4 DEF Upto
  <2> QED  BY <2>2, <2>5
<1> HIDE DEF S
<1>3. \A n \in Nat : n \in S
  BY <1>1, <1>2, AllNumbers
<1> QED  BY <1>3 DEF S

\* And it has no other.
LEMMA UptoUnique ==
  ASSUME NEW T, NEW a \in T, NEW G \in [Nat \X T -> T],
         NEW f, NEW g, NEW n \in Nat, NEW m \in Nat, n <= m,
         Upto(f, n, a, G), Upto(g, m, a, G)
  PROVE  \A k \in 0 .. n : f[k] = g[k]
<1> DEFINE S == {k \in Nat : k <= n => f[k] = g[k]}
<1>1. 0 \in S
  BY DEF Upto
<1>2. ASSUME NEW k \in Nat, k \in S  PROVE k + 1 \in S
  <2> SUFFICES ASSUME k + 1 <= n PROVE f[k + 1] = g[k + 1]
    OBVIOUS
  <2>1. k \in 0 .. n - 1 /\ k \in 0 .. m - 1
    OBVIOUS
  <2>2. f[k] = g[k]
    BY <1>2
  <2> QED  BY <2>1, <2>2 DEF Upto
<1> HIDE DEF S
<1>3. \A k \in Nat : k \in S
  BY <1>1, <1>2, AllNumbers
<1> QED  BY <1>3 DEF S

\* All its values.
StepsBy(f, a, G) ==
  /\ f[0] = a
  /\ \A n \in Nat : f[n + 1] = G[<<n + 1, f[n]>>]

\* Definition by recursion over the numbers.
LEMMA Recursion ==
  ASSUME NEW T, NEW a \in T, NEW G \in [Nat \X T -> T]
  PROVE  \E f \in [Nat -> T] : StepsBy(f, a, G)
<1> DEFINE F(n) == CHOOSE f \in [Nat -> T] : Upto(f, n, a, G)
<1>1. \A n \in Nat : F(n) \in [Nat -> T] /\ Upto(F(n), n, a, G)
  BY UptoExists
<1> HIDE DEF F
<1> DEFINE h == [n \in Nat |-> F(n)[n]]
<1>2. h \in [Nat -> T] /\ h[0] = a
  BY <1>1 DEF Upto
<1>3. ASSUME NEW n \in Nat  PROVE h[n + 1] = G[<<n + 1, h[n]>>]
  <2>1. F(n + 1)[n + 1] = G[<<n + 1, F(n + 1)[n]>>]
    BY <1>1 DEF Upto
  <2>2. F(n + 1)[n] = F(n)[n]
    <3>1. Upto(F(n), n, a, G) /\ Upto(F(n + 1), n + 1, a, G)
      BY <1>1
    <3>2. n + 1 \in Nat /\ n <= n + 1 /\ n \in 0 .. n
      OBVIOUS
    <3>3. \A k \in 0 .. n : F(n)[k] = F(n + 1)[k]
      BY <3>1, <3>2, UptoUnique
    <3> QED  BY <3>2, <3>3
  <2>3. h[n] = F(n)[n] /\ h[n + 1] = F(n + 1)[n + 1]
    OBVIOUS
  <2> QED  BY <2>1, <2>2, <2>3
<1> HIDE DEF h
<1> QED  BY <1>2, <1>3 DEF StepsBy

\* All values up to a bound.
StepsUpto(f, N, a, G) == f[0] = a /\ \A n \in 1 .. N : f[n] = G[<<n, f[n - 1]>>]

\* Definition by recursion over the numbers up to a bound.
LEMMA RecursionUpto ==
  ASSUME NEW T, NEW N \in Nat, NEW a \in T, NEW G \in [(1 .. N) \X T -> T]
  PROVE  \E f \in [0 .. N -> T] : StepsUpto(f, N, a, G)
<1> DEFINE H == [p \in Nat \X T |-> IF p[1] \in 1 .. N THEN G[<<p[1], p[2]>>] ELSE p[2]]
<1>1. \A n \in Nat, s \in T : H[<<n, s>>] = IF n \in 1 .. N THEN G[<<n, s>>] ELSE s
  <2>1. \A n \in Nat, s \in T : /\ <<n, s>> \in Nat \X T
                               /\ <<n, s>>[1] = n /\ <<n, s>>[2] = s
    OBVIOUS
  <2> QED  BY <2>1
<1>2. H \in [Nat \X T -> T]
  <2>1. \A p \in Nat \X T : p[1] \in 1 .. N => <<p[1], p[2]>> \in (1 .. N) \X T
    OBVIOUS
  <2>2. \A p \in Nat \X T : p[2] \in T
    OBVIOUS
  <2>3. \A q \in (1 .. N) \X T : G[q] \in T
    OBVIOUS
  <2> QED  BY <2>1, <2>2, <2>3
<1> HIDE DEF H
<1>3. PICK h \in [Nat -> T] : StepsBy(h, a, H)
  BY <1>2, Recursion
<1> DEFINE f == [n \in 0 .. N |-> h[n]]
<1>4. f \in [0 .. N -> T] /\ f[0] = a
  BY <1>3 DEF StepsBy
<1>5. ASSUME NEW n \in 1 .. N  PROVE f[n] = G[<<n, f[n - 1]>>]
  <2>1. PICK m \in Nat : n = m + 1 /\ n - 1 = m
    <3>1. n - 1 \in Nat /\ n = n - 1 + 1
      OBVIOUS
    <3> QED  BY <3>1
  <2>2. h[m + 1] = H[<<m + 1, h[m]>>] /\ h[m] \in T
    BY <1>3 DEF StepsBy
  <2>3. h[n] = G[<<n, h[m]>>]
    BY <1>1, <2>1, <2>2
  <2>4. n \in 0 .. N /\ m \in 0 .. N
    BY <2>1
  <2> QED  BY <2>1, <2>3, <2>4
<1> HIDE DEF f
<1> QED  BY <1>4, <1>5 DEF StepsUpto

\* A number without its last digits, so many of them: its tenth, the tenth of
\* that, and so on, until nothing is left.
LEMMA TenthsRec ==
  ASSUME NEW n \in Nat
  PROVE  LET t[j \in Nat] == IF j = 0 THEN n ELSE t[j - 1] \div 10
         IN  /\ t \in [Nat -> Nat] /\ t[0] = n
             /\ \A j \in Nat : t[j + 1] = t[j] \div 10
             /\ Min({j \in 1 .. n + 1 : t[j] = 0}) \in 1 .. n + 1
             /\ t[Min({j \in 1 .. n + 1 : t[j] = 0})] = 0
             /\ \A j \in 1 .. n + 1 : t[j] = 0 => Min({m \in 1 .. n + 1 : t[m] = 0}) <= j
<1> DEFINE G == [p \in Nat \X Nat |-> p[2] \div 10]
           t[j \in Nat] == IF j = 0 THEN n ELSE t[j - 1] \div 10
<1>1. \A j \in Nat, m \in Nat : G[<<j, m>>] = m \div 10
  <2>1. \A j \in Nat, m \in Nat : <<j, m>> \in Nat \X Nat /\ <<j, m>>[2] = m
    OBVIOUS
  <2> QED  BY <2>1
<1>2. G \in [Nat \X Nat -> Nat]
  OBVIOUS
<1> HIDE DEF G
<1>3. PICK f \in [Nat -> Nat] : StepsBy(f, n, G)
  BY <1>2, Recursion
<1>4. f[0] = n /\ \A j \in Nat : f[j + 1] = f[j] \div 10
  <2>1. \A j \in Nat : j + 1 \in Nat /\ f[j] \in Nat
    BY <1>3
  <2> QED  BY <1>1, <1>3, <2>1 DEF StepsBy
<1>5. f = [j \in Nat |-> IF j = 0 THEN n ELSE f[j - 1] \div 10]
  <2>1. ASSUME NEW j \in Nat, j # 0  PROVE f[j] = f[j - 1] \div 10
    <3>1. j - 1 \in Nat /\ j = (j - 1) + 1
      BY <2>1
    <3> QED  BY <1>4, <3>1
  <2> QED  BY <1>4, <2>1
<1>6. t = [j \in Nat |-> IF j = 0 THEN n ELSE t[j - 1] \div 10]
  BY <1>5
<1> HIDE DEF t
<1>7. t[0] = n /\ \A j \in Nat : t[j + 1] = t[j] \div 10
  <2>1. \A j \in Nat : j + 1 \in Nat /\ j + 1 # 0 /\ (j + 1) - 1 = j
    OBVIOUS
  <2> QED  BY <1>6, <2>1
<1> DEFINE S == {j \in Nat : t[j] \in Nat /\ (t[j] <= n - j \/ t[j] = 0)}
<1>8. 0 \in S
  BY <1>7
<1>9. ASSUME NEW j \in Nat, j \in S  PROVE j + 1 \in S
  <2>1. \A m \in Nat : m \div 10 \in Nat /\ (m # 0 => m \div 10 <= m - 1) /\ (m = 0 => m \div 10 = 0)
    OBVIOUS
  <2>2. t[j + 1] = t[j] \div 10 /\ t[j] \in Nat /\ (t[j] <= n - j \/ t[j] = 0)
    BY <1>7, <1>9
  <2> QED  BY <2>1, <2>2
<1> HIDE DEF S
<1>10. \A j \in Nat : j \in S
  BY <1>8, <1>9, AllNumbers
<1>11. \A j \in Nat : t[j] \in Nat /\ (t[j] <= n - j \/ t[j] = 0)
  BY <1>10 DEF S
<1>12. t \in [Nat -> Nat]
  BY <1>6, <1>11
<1> DEFINE Z == {j \in 1 .. n + 1 : t[j] = 0}
<1>13. n + 1 \in Z /\ Z \in SUBSET Nat
  <2>1. n + 1 \in Nat /\ n + 1 \in 1 .. n + 1 /\ \A m \in Nat : ~ (m <= n - (n + 1))
    OBVIOUS
  <2>2. t[n + 1] = 0
    BY <1>11, <2>1
  <2> QED  BY <2>1, <2>2
<1>14. \E j \in Z : \A m \in Z : j <= m
  BY <1>13, LeastNumber
<1>15. Min(Z) \in Z /\ \A m \in Z : Min(Z) <= m
  BY <1>14 DEF Min
<1> QED  BY <1>7, <1>12, <1>15 DEF t

-----------------------------------------------------------------------------
(* Words and cubes are finite. *)

\* The inputs fit into a word.
LEMMA VarsFinite == /\ IsFiniteSet(Vars) /\ Cardinality(Vars) = NVars
                    /\ Vars \subseteq Bits
  BY NVarsAssumption, WidthAssumption, FS_Interval DEF Vars, Bits

\* The words of a cube over the inputs.
LEMMA CubeFields ==
  ASSUME NEW c \in Cubes
  PROVE  /\ c.mask \in SUBSET Vars /\ c.polarity \in SUBSET Vars
         /\ c.polarity \subseteq c.mask
         /\ c = Cube(c.mask, c.polarity)
  BY DEF Cubes, Cube

\* Words that make a cube over the inputs.
LEMMA CubeIntro ==
  ASSUME NEW m \in SUBSET Vars, NEW p \in SUBSET m
  PROVE  Cube(m, p) \in Cubes
  BY DEF Cubes, Cube

\* The set of all cubes is finite, and so is every set of cubes.
LEMMA CubesFinite ==
  /\ IsFiniteSet(Cubes)
  /\ \A S : S \subseteq Cubes => IsFiniteSet(S) /\ Cardinality(S) \in Nat
<1> DEFINE f == [c \in Cubes |-> <<c.mask, c.polarity>>]
           T == (SUBSET Vars) \X (SUBSET Vars)
<1>1. IsFiniteSet(T)
  BY VarsFinite, FS_SUBSET, FS_Product
<1>2. f \in Injection(Cubes, T)
  <2>1. f \in [Cubes -> T]
    BY CubeFields
  <2>2. \A a, b \in Cubes : f[a] = f[b] => a = b
    BY CubeFields
  <2> QED  BY <2>1, <2>2 DEF Injection, IsInjective
<1>3. IsFiniteSet(Cubes)
  BY <1>1, <1>2, FS_Injection
<1> QED  BY <1>3, FS_Subset, FS_CardinalityType

\* Buckets are indexed by the number of literals of a cube.
LEMMA LitsInRange ==
  ASSUME NEW c \in Cubes
  PROVE  /\ IsFiniteSet(c.mask)
         /\ n_lits(c) \in 0 .. NVars
  BY VarsFinite, CubeFields, FS_Subset, FS_CardinalityType, NVarsAssumption
     DEF n_lits

\* Cubes over the inputs differ in inputs.
LEMMA DifferenceIsWord ==
  ASSUME NEW a \in Cubes, NEW b \in Cubes
  PROVE  /\ difference(a, b) \in SUBSET Vars
         /\ IsFiniteSet(difference(a, b))
         /\ distance(a, b) \in Nat
         /\ difference(a, b) = difference(b, a)
         /\ distance(a, b) = distance(b, a)
         /\ distance(a, b) = 0 <=> a = b
<1>1. difference(a, b) \in SUBSET Vars /\ difference(a, b) = difference(b, a)
  BY CubeFields DEF difference, SymDiff
<1>2. difference(a, b) = {} <=> a.mask = b.mask /\ a.polarity = b.polarity
  BY CubeFields DEF difference, SymDiff
<1>3. a = b <=> a.mask = b.mask /\ a.polarity = b.polarity
  BY CubeFields DEF Cubes
<1> QED
  BY <1>1, <1>2, <1>3, VarsFinite, FS_Subset, FS_CardinalityType, FS_EmptySet
     DEF distance

\* Cubes at a small distance have nearly as many literals.
LEMMA LitsDistance ==
  ASSUME NEW a \in Cubes, NEW b \in Cubes
  PROVE  n_lits(a) <= n_lits(b) + distance(a, b)
<1> DEFINE d == difference(a, b)
<1>1. /\ IsFiniteSet(b.mask) /\ IsFiniteSet(d) /\ IsFiniteSet(b.mask \cup d)
      /\ IsFiniteSet(b.mask \cap d)
  BY LitsInRange, DifferenceIsWord, FS_Union, FS_Intersection
<1>2. Cardinality(b.mask \cup d)
        = Cardinality(b.mask) + Cardinality(d) - Cardinality(b.mask \cap d)
  BY <1>1, FS_Union
<1>3. a.mask \in SUBSET (b.mask \cup d)
  BY DEF difference, SymDiff
<1>4. Cardinality(a.mask) <= Cardinality(b.mask \cup d)
  BY <1>1, <1>3, FS_Subset
<1>5. /\ Cardinality(b.mask) \in Nat /\ Cardinality(d) \in Nat
      /\ Cardinality(b.mask \cap d) \in Nat /\ Cardinality(a.mask) \in Nat
  BY <1>1, LitsInRange, FS_CardinalityType
<1> QED  BY <1>2, <1>4, <1>5 DEF n_lits, distance

-----------------------------------------------------------------------------
(* The operations of the code stay within the cubes over the inputs. *)

\* merge() of two cubes is a cube, at any distance.
LEMMA MergeIsCube ==
  ASSUME NEW l \in Cubes, NEW r \in Cubes
  PROVE  merge(l, r) \in Cubes
<1> DEFINE d == difference(l, r)
           m == SymDiff(l.mask, r.mask \cap d)
           p == SymDiff(l.polarity, (Bits \ r.polarity) \cap d)
<1>1. d \in SUBSET Vars /\ d = SymDiff(l.polarity, r.polarity) \cup SymDiff(l.mask, r.mask)
  BY DifferenceIsWord DEF difference
<1>2. m \in SUBSET Vars
  BY <1>1, CubeFields DEF SymDiff
<1>3. p \in SUBSET m
  BY <1>1, CubeFields, VarsFinite DEF SymDiff
<1> QED  BY <1>2, <1>3, CubeIntro DEF merge

-----------------------------------------------------------------------------
(* A cube covers a point when each of its literals agrees with it. *)

Agrees(c, v, x) == v \in c.mask => (v \in x <=> v \in c.polarity)

\* A cube covers a point that agrees with each of its literals.
LEMMA CoversLiterals ==
  ASSUME NEW c \in Cubes, NEW x \in Points
  PROVE  Covers(c, x) <=> \A v \in Vars : Agrees(c, v, x)
  BY CubeFields DEF Covers, Agrees, Points

\* Where two cubes do not differ they agree with the same points.
LEMMA SameLiteral ==
  ASSUME NEW a \in Cubes, NEW b \in Cubes, NEW v \in Vars, NEW x,
         v \notin difference(a, b)
  PROVE  Agrees(a, v, x) <=> Agrees(b, v, x)
  BY DEF Agrees, difference, SymDiff

\* The third literal value at a position agrees exactly when one of the other
\* two does: of '-', '0' and '1', '-' and one more agree with a point.
LEMMA ThirdLiteral ==
  ASSUME NEW a \in Cubes, NEW b \in Cubes, NEW c \in Cubes,
         NEW v \in Vars, NEW x,
         v \in difference(a, b),
         v \in c.mask <=> v \in SymDiff(a.mask, b.mask),
         v \in c.polarity <=> v \in Bits \ (a.polarity \cup b.polarity)
  PROVE  Agrees(c, v, x) <=> (Agrees(a, v, x) <=> ~ Agrees(b, v, x))
  BY CubeFields, VarsFinite DEF Agrees, difference, SymDiff

\* merge() of two cubes at distance 1 is their exclusive sum.
LEMMA MergeOnSet ==
  ASSUME NEW l \in Cubes, NEW r \in Cubes, distance(l, r) = 1
  PROVE  OnSet(merge(l, r)) = SymDiff(OnSet(l), OnSet(r))
<1> DEFINE c == merge(l, r)
<1>1. PICK p : difference(l, r) = {p}
  BY DifferenceIsWord, FS_Singleton DEF distance
<1>2. p \in Vars /\ c \in Cubes
  BY <1>1, DifferenceIsWord, MergeIsCube
<1>3. ASSUME NEW x \in Points
      PROVE  Covers(c, x) <=> (Covers(l, x) <=> ~ Covers(r, x))
  <2>1. \A v \in Vars \ {p} : Agrees(c, v, x) <=> Agrees(l, v, x)
    BY <1>1 DEF Agrees, merge, Cube, SymDiff
  <2>2. \A v \in Vars \ {p} : Agrees(r, v, x) <=> Agrees(l, v, x)
    BY <1>1, SameLiteral
  <2>3. /\ p \in c.mask <=> p \in SymDiff(l.mask, r.mask)
        /\ p \in c.polarity <=> p \in Bits \ (l.polarity \cup r.polarity)
    <3>1. p \in SymDiff(l.polarity, r.polarity) \cup SymDiff(l.mask, r.mask)
      BY <1>1 DEF difference
    <3> QED
      BY <1>1, <1>2, <3>1, CubeFields, VarsFinite DEF merge, Cube, SymDiff
  <2>4. Agrees(c, p, x) <=> (Agrees(l, p, x) <=> ~ Agrees(r, p, x))
    BY <1>1, <1>2, <2>3, ThirdLiteral
  <2>5. /\ Covers(c, x) <=> \A v \in Vars : Agrees(c, v, x)
        /\ Covers(l, x) <=> \A v \in Vars : Agrees(l, v, x)
        /\ Covers(r, x) <=> \A v \in Vars : Agrees(r, v, x)
    BY <1>2, CoversLiterals
  <2> QED  BY <1>2, <2>1, <2>2, <2>4, <2>5
<1> QED  BY <1>3 DEF OnSet, SymDiff

-----------------------------------------------------------------------------
(* Exclusive sums. *)

\* Adding one changes the parity.
LEMMA OddStep == \A n \in Nat : (n + 1) % 2 = 1 <=> n % 2 /= 1
  OBVIOUS

\* One more cube.
LEMMA EsopOfAdd ==
  ASSUME NEW S \in SUBSET Cubes, NEW c \in Cubes, c \notin S
  PROVE  EsopOf(S \cup {c}) = SymDiff(EsopOf(S), OnSet(c))
<1> DEFINE T(x) == {d \in S : Covers(d, x)}
           U(x) == {d \in S \cup {c} : Covers(d, x)}
<1>1. ASSUME NEW x \in Points
      PROVE  Odd(U(x)) <=> (Odd(T(x)) <=> ~ Covers(c, x))
  <2>1. IsFiniteSet(T(x)) /\ Cardinality(T(x)) \in Nat
    BY CubesFinite
  <2>2. CASE Covers(c, x)
    <3>1. U(x) = T(x) \cup {c} /\ c \notin T(x)
      BY <2>2
    <3>2. Cardinality(U(x)) = Cardinality(T(x)) + 1
      BY <2>1, <3>1, FS_AddElement
    <3> QED  BY <2>1, <2>2, <3>2, OddStep DEF Odd
  <2>3. CASE ~ Covers(c, x)
    <3>1. U(x) = T(x)
      BY <2>3
    <3> QED  BY <2>3, <3>1 DEF Odd
  <2> QED  BY <2>2, <2>3
<1> QED  BY <1>1 DEF EsopOf, OnSet, SymDiff

\* One cube less.
LEMMA EsopOfRemove ==
  ASSUME NEW S \in SUBSET Cubes, NEW c \in S
  PROVE  EsopOf(S \ {c}) = SymDiff(EsopOf(S), OnSet(c))
<1>1. EsopOf((S \ {c}) \cup {c}) = SymDiff(EsopOf(S \ {c}), OnSet(c))
  BY EsopOfAdd
<1>2. (S \ {c}) \cup {c} = S
  OBVIOUS
<1> QED  BY <1>1, <1>2 DEF SymDiff

\* The sum of no cubes is 0.
LEMMA EsopOfEmpty == EsopOf({}) = {}
<1>1. ~ Odd({})
  BY FS_EmptySet DEF Odd
<1> QED  BY <1>1 DEF EsopOf

\* The same facts about the exclusive sum of a list of cubes over a set of
\* its indices.
LEMMA EsopOfSeqAdd ==
  ASSUME NEW s, NEW I, IsFiniteSet(I), NEW j, j \notin I
  PROVE  EsopOfSeq(s, I \cup {j}) = SymDiff(EsopOfSeq(s, I), OnSet(s[j]))
<1> DEFINE T(x) == {i \in I : Covers(s[i], x)}
           U(x) == {i \in I \cup {j} : Covers(s[i], x)}
<1>1. ASSUME NEW x \in Points
      PROVE  Odd(U(x)) <=> (Odd(T(x)) <=> ~ Covers(s[j], x))
  <2>1. IsFiniteSet(T(x)) /\ Cardinality(T(x)) \in Nat
    BY FS_Subset, FS_CardinalityType
  <2>2. CASE Covers(s[j], x)
    <3>1. U(x) = T(x) \cup {j} /\ j \notin T(x)
      BY <2>2
    <3>2. Cardinality(U(x)) = Cardinality(T(x)) + 1
      BY <2>1, <3>1, FS_AddElement
    <3> QED  BY <2>1, <2>2, <3>2, OddStep DEF Odd
  <2>3. CASE ~ Covers(s[j], x)
    <3>1. U(x) = T(x)
      BY <2>3
    <3> QED  BY <2>3, <3>1 DEF Odd
  <2> QED  BY <2>2, <2>3
<1> QED  BY <1>1 DEF EsopOfSeq, OnSet, SymDiff

\* The sum of a list without one of its cubes.
LEMMA EsopOfSeqRemove ==
  ASSUME NEW s, NEW I, IsFiniteSet(I), NEW j \in I
  PROVE  EsopOfSeq(s, I \ {j}) = SymDiff(EsopOfSeq(s, I), OnSet(s[j]))
<1>1. IsFiniteSet(I \ {j})
  BY FS_RemoveElement
<1>2. EsopOfSeq(s, (I \ {j}) \cup {j})
        = SymDiff(EsopOfSeq(s, I \ {j}), OnSet(s[j]))
  BY <1>1, EsopOfSeqAdd
<1>3. (I \ {j}) \cup {j} = I
  OBVIOUS
<1> QED  BY <1>2, <1>3 DEF SymDiff

\* The sum of no cubes of a list is 0.
LEMMA EsopOfSeqEmpty == \A s : EsopOfSeq(s, {}) = {}
<1>1. ~ Odd({})
  BY FS_EmptySet DEF Odd
<1> QED  BY <1>1 DEF EsopOfSeq

-----------------------------------------------------------------------------
(* Lists of cubes. *)

\* The function of a list does not depend on how its cubes are numbered.
LEMMA Renumber ==
  ASSUME NEW s, NEW t, NEW I, NEW J, IsFiniteSet(I),
         NEW g \in Bijection(I, J), \A i \in I : t[g[i]] = s[i]
  PROVE  EsopOfSeq(t, J) = EsopOfSeq(s, I)
<1> SUFFICES ASSUME NEW x \in Points
             PROVE  Cardinality({i \in I : Covers(s[i], x)})
                      = Cardinality({j \in J : Covers(t[j], x)})
  BY DEF EsopOfSeq, Odd
<1> DEFINE A == {i \in I : Covers(s[i], x)}
           B == {j \in J : Covers(t[j], x)}
           h == [i \in A |-> g[i]]
<1>1. IsFiniteSet(A)
  BY FS_Subset
<1>2. /\ g \in [I -> J] /\ \A a, b \in I : g[a] = g[b] => a = b
      /\ \A j \in J : \E i \in I : g[i] = j
  BY DEF Bijection, Injection, Surjection, IsInjective
<1>3. h \in Bijection(A, B)
  <2>1. h \in [A -> B]
    BY <1>2
  <2>2. \A a, b \in A : h[a] = h[b] => a = b
    BY <1>2
  <2>3. \A j \in B : \E i \in A : h[i] = j
    BY <1>2
  <2> HIDE DEF h, A, B
  <2> QED  BY <2>1, <2>2, <2>3 DEF Bijection, Injection, Surjection, IsInjective
<1> HIDE DEF h, A, B
<1>4. ExistsBijection(A, B)
  BY <1>3 DEF ExistsBijection
<1>5. Cardinality(B) = Cardinality(A)
  BY <1>1, <1>4, FS_Bijection
<1> QED  BY <1>5 DEF A, B

\* One more cube in front.
LEMMA FunctionOfCons ==
  ASSUME NEW s \in Seq(Cubes), NEW c \in Cubes
  PROVE  /\ <<c>> \o s \in Seq(Cubes)
         /\ FunctionOf(<<c>> \o s) = SymDiff(FunctionOf(s), OnSet(c))
<1> DEFINE t == <<c>> \o s
           n == Len(s)
           g == [i \in 1 .. n |-> i + 1]
<1>1. /\ n \in Nat /\ DOMAIN s = 1 .. n
      /\ t \in Seq(Cubes) /\ Len(t) = n + 1 /\ DOMAIN t = 1 .. n + 1
      /\ t[1] = c /\ \A i \in 1 .. n : t[i + 1] = s[i]
  OBVIOUS
<1> HIDE DEF t, n
<1>2. g \in Bijection(1 .. n, 2 .. n + 1)
  <2>1. g \in [1 .. n -> 2 .. n + 1] /\ \A a, b \in 1 .. n : g[a] = g[b] => a = b
    BY <1>1
  <2>2. \A j \in 2 .. n + 1 : j - 1 \in 1 .. n /\ g[j - 1] = j
    BY <1>1
  <2> HIDE DEF g
  <2> QED  BY <2>1, <2>2 DEF Bijection, Injection, Surjection, IsInjective
<1>3. IsFiniteSet(1 .. n) /\ IsFiniteSet(2 .. n + 1)
  BY <1>1, FS_Interval
<1>4. EsopOfSeq(t, 2 .. n + 1) = EsopOfSeq(s, 1 .. n)
  <2>1. \A i \in 1 .. n : t[g[i]] = s[i]
    BY <1>1
  <2>2. /\ IsFiniteSet(1 .. n)
        /\ \E h \in Bijection(1 .. n, 2 .. n + 1) : \A i \in 1 .. n : t[h[i]] = s[i]
    BY <1>2, <1>3, <2>1
  <2> HIDE DEF g
  <2>3. \A I, J : IsFiniteSet(I) /\ (\E h \in Bijection(I, J) : \A i \in I : t[h[i]] = s[i])
               => EsopOfSeq(t, J) = EsopOfSeq(s, I)
    BY Renumber
  <2> QED  BY <2>2, <2>3
<1>5. 1 .. n + 1 = (2 .. n + 1) \cup {1} /\ 1 \notin 2 .. n + 1
  BY <1>1
<1>6. EsopOfSeq(t, (2 .. n + 1) \cup {1}) = SymDiff(EsopOfSeq(t, 2 .. n + 1), OnSet(t[1]))
  BY <1>3, <1>5, EsopOfSeqAdd
<1> QED  BY <1>1, <1>4, <1>5, <1>6 DEF FunctionOf, t

\* The empty ESOP is 0, as compute_and and prepare_input take it.
LEMMA FunctionOfNone == FunctionOf(<<>>) = {}
  BY EsopOfSeqEmpty DEF FunctionOf

\* An ESOP has a set of points as its function.
LEMMA FunctionIsSet == \A s, I : EsopOfSeq(s, I) \in SUBSET Points
  BY DEF EsopOfSeq

\* A set of cubes has the function of each of its listings.
LEMMA FunctionOfListing ==
  ASSUME NEW S \in SUBSET Cubes, NEW s \in [1 .. Cardinality(S) -> S],
         \A i, k \in DOMAIN s : i # k => s[i] # s[k]
  PROVE  s \in Seq(Cubes) /\ FunctionOf(s) = EsopOf(S)
<1> DEFINE D == 1 .. Cardinality(S)
<1>1. IsFiniteSet(S) /\ Cardinality(S) \in Nat
  BY CubesFinite
<1>2. IsFiniteSet(D) /\ Cardinality(D) = Cardinality(S)
  BY <1>1, FS_Interval
<1>3. DOMAIN s = D /\ s \in Injection(D, S)
  BY DEF Injection, IsInjective
<1>4. s \in Surjection(D, S)
  BY <1>1, <1>2, <1>3, FS_Injection
<1>5. \A i, k \in D : s[i] = s[k] => i = k
  BY <1>3
<1>6. \A c \in S : \E i \in D : s[i] = c
  BY <1>4 DEF Surjection
<1>7. ASSUME NEW x \in Points
      PROVE  Cardinality({i \in D : Covers(s[i], x)})
               = Cardinality({c \in S : Covers(c, x)})
  <2> DEFINE A == {i \in D : Covers(s[i], x)}
             B == {c \in S : Covers(c, x)}
             h == [i \in A |-> s[i]]
  <2>1. IsFiniteSet(A)
    BY <1>2, FS_Subset
  <2>2. /\ h \in [A -> B] /\ \A i, k \in A : h[i] = h[k] => i = k
        /\ \A c \in B : \E i \in A : h[i] = c
    BY <1>5, <1>6
  <2> HIDE DEF A, B, h
  <2>3. h \in Bijection(A, B)
    BY <2>2 DEF Bijection, Injection, Surjection, IsInjective
  <2>4. ExistsBijection(A, B)
    BY <2>3 DEF ExistsBijection
  <2>5. Cardinality(B) = Cardinality(A)
    BY <2>1, <2>4, FS_Bijection
  <2> QED  BY <2>5 DEF A, B
<1>8. s \in Seq(Cubes)
  BY <1>1
<1> QED  BY <1>3, <1>7, <1>8 DEF FunctionOf, EsopOfSeq, EsopOf, Odd

\* The sum over two parts of a list.
LEMMA EsopOfSeqUnion ==
  ASSUME NEW s, NEW I, NEW J, IsFiniteSet(I), IsFiniteSet(J), I \cap J = {}
  PROVE  EsopOfSeq(s, I \cup J) = SymDiff(EsopOfSeq(s, I), EsopOfSeq(s, J))
<1>1. ASSUME NEW x \in Points
      PROVE  Odd({i \in I \cup J : Covers(s[i], x)})
               <=> (Odd({i \in I : Covers(s[i], x)}) <=> ~ Odd({i \in J : Covers(s[i], x)}))
  <2> DEFINE A == {i \in I : Covers(s[i], x)}
             B == {i \in J : Covers(s[i], x)}
             C == {i \in I \cup J : Covers(s[i], x)}
  <2>1. IsFiniteSet(A) /\ IsFiniteSet(B) /\ A \cap B = {} /\ C = A \cup B
    BY FS_Subset
  <2> HIDE DEF A, B, C
  <2>2. Cardinality(A) \in Nat /\ Cardinality(B) \in Nat
    BY <2>1, FS_CardinalityType
  <2>3. Cardinality(C) = Cardinality(A) + Cardinality(B)
    <3>1. Cardinality(C) = Cardinality(A) + Cardinality(B) - Cardinality(A \cap B)
      BY <2>1, FS_Union
    <3>2. Cardinality(A \cap B) = 0
      BY <2>1, FS_EmptySet
    <3> QED  BY <2>2, <3>1, <3>2
  <2>4. \A a, b \in Nat : (a + b) % 2 = 1 <=> (a % 2 = 1 <=> b % 2 # 1)
    OBVIOUS
  <2>5. Odd(C) <=> (Odd(A) <=> ~ Odd(B))
    BY <2>2, <2>3, <2>4 DEF Odd
  <2> QED  BY <2>5 DEF A, B, C
<1> QED  BY <1>1 DEF EsopOfSeq, SymDiff

\* One list after the other.
LEMMA FunctionOfConcat ==
  ASSUME NEW s \in Seq(Cubes), NEW t \in Seq(Cubes)
  PROVE  FunctionOf(s \o t) = SymDiff(FunctionOf(s), FunctionOf(t))
<1> DEFINE u == s \o t
           m == Len(s)
           n == Len(t)
           g == [i \in 1 .. n |-> i + m]
<1>1. /\ m \in Nat /\ n \in Nat /\ DOMAIN s = 1 .. m /\ DOMAIN t = 1 .. n
      /\ DOMAIN u = 1 .. m + n
      /\ \A i \in 1 .. m : u[i] = s[i]
      /\ \A i \in 1 .. n : u[i + m] = t[i]
  OBVIOUS
<1> HIDE DEF u, m, n
<1>2. /\ DOMAIN u = (1 .. m) \cup (m + 1 .. m + n)
      /\ (1 .. m) \cap (m + 1 .. m + n) = {}
      /\ IsFiniteSet(1 .. m) /\ IsFiniteSet(m + 1 .. m + n) /\ IsFiniteSet(1 .. n)
  <2>1. 1 \in Int /\ m \in Int /\ n \in Int /\ m + 1 \in Int /\ m + n \in Int
    BY <1>1
  <2>2. IsFiniteSet(1 .. m) /\ IsFiniteSet(m + 1 .. m + n) /\ IsFiniteSet(1 .. n)
    BY <2>1, FS_Interval
  <2>3. 1 .. m + n = (1 .. m) \cup (m + 1 .. m + n) /\ (1 .. m) \cap (m + 1 .. m + n) = {}
    BY <1>1
  <2> QED  BY <1>1, <2>2, <2>3
<1>3. EsopOfSeq(u, m + 1 .. m + n) = EsopOfSeq(t, 1 .. n)
  <2>1. /\ g \in [1 .. n -> m + 1 .. m + n]
        /\ \A a, b \in 1 .. n : g[a] = g[b] => a = b
    BY <1>1
  <2>2. \A j \in m + 1 .. m + n : j - m \in 1 .. n /\ g[j - m] = j
    BY <1>1
  <2>3. \A i \in 1 .. n : u[g[i]] = t[i]
    BY <1>1
  <2> HIDE DEF g
  <2>4. g \in Bijection(1 .. n, m + 1 .. m + n)
    BY <2>1, <2>2 DEF Bijection, Injection, Surjection, IsInjective
  <2>5. \A I, J : /\ IsFiniteSet(I)
                  /\ \E h \in Bijection(I, J) : \A i \in I : u[h[i]] = t[i]
               => EsopOfSeq(u, J) = EsopOfSeq(t, I)
    BY Renumber
  <2> QED  BY <1>2, <2>3, <2>4, <2>5
<1>4. EsopOfSeq(u, 1 .. m) = EsopOfSeq(s, 1 .. m)
  BY <1>1 DEF EsopOfSeq
<1> QED  BY <1>1, <1>2, <1>3, <1>4, EsopOfSeqUnion DEF FunctionOf, u

\* Every cube of a list restricted to an area.
LEMMA FunctionOfRestricted ==
  ASSUME NEW s \in Seq(Cubes), NEW t \in Seq(Cubes), NEW A, Len(t) = Len(s),
         \A j \in 1 .. Len(s) : OnSet(t[j]) = OnSet(s[j]) \cap A
  PROVE  FunctionOf(t) = FunctionOf(s) \cap A
<1>1. DOMAIN s = 1 .. Len(s) /\ DOMAIN t = 1 .. Len(s)
  OBVIOUS
<1>2. ASSUME NEW x \in Points
      PROVE  Odd({j \in DOMAIN t : Covers(t[j], x)})
               <=> x \in A /\ Odd({j \in DOMAIN s : Covers(s[j], x)})
  <2>1. \A j \in 1 .. Len(s) : Covers(t[j], x) <=> Covers(s[j], x) /\ x \in A
    BY DEF OnSet
  <2>2. CASE x \in A
    <3>1. {j \in DOMAIN t : Covers(t[j], x)} = {j \in DOMAIN s : Covers(s[j], x)}
      BY <1>1, <2>1, <2>2
    <3> QED  BY <2>2, <3>1
  <2>3. CASE x \notin A
    <3>1. {j \in DOMAIN t : Covers(t[j], x)} = {}
      BY <1>1, <2>1, <2>3
    <3>2. ~ Odd({})
      BY FS_EmptySet DEF Odd
    <3> QED  BY <2>3, <3>1, <3>2
  <2> QED  BY <2>2, <2>3
<1> QED  BY <1>2 DEF FunctionOf, EsopOfSeq

\* The listing that SetToSeq chooses exists.
LEMMA ListingExists ==
  ASSUME NEW S, IsFiniteSet(S)
  PROVE  \E f \in [1 .. Cardinality(S) -> S] :
           \A i, k \in DOMAIN f : i # k => f[i] # f[k]
<1>1. Cardinality(S) \in Nat
  BY FS_CardinalityType
<1>2. IsFiniteSet(1 .. Cardinality(S)) /\ Cardinality(1 .. Cardinality(S)) = Cardinality(S)
  BY <1>1, FS_Interval
<1>3. ExistsBijection(1 .. Cardinality(S), S)
  BY <1>1, <1>2, FS_SameCardinalityBij
<1> QED  BY <1>3 DEF ExistsBijection, Bijection, Injection, IsInjective

\* One text after another.
IsJoin(u, s, t) ==
  /\ Len(s) \in Nat /\ Len(t) \in Nat /\ Len(u) = Len(s) + Len(t)
  /\ \A j \in 1 .. Len(s) : u[j] = s[j]
  /\ \A j \in 1 .. Len(t) : u[Len(s) + j] = t[j]

\* A concatenation has the entries of both lists, one after the other.
LEMMA Joined ==
  ASSUME NEW S, NEW s \in Seq(S), NEW t \in Seq(S)
  PROVE  s \o t \in Seq(S) /\ IsJoin(s \o t, s, t)
<1>1. Len(s) \in Nat /\ Len(t) \in Nat
  OBVIOUS
<1>2. \A j \in 1 .. Len(s) : j \in 1 .. Len(s) + Len(t) /\ j <= Len(s)
  BY <1>1
<1>3. \A j \in 1 .. Len(t) : /\ Len(s) + j \in 1 .. Len(s) + Len(t)
                            /\ ~ (Len(s) + j <= Len(s)) /\ Len(s) + j - Len(s) = j
  BY <1>1
<1> QED  BY <1>1, <1>2, <1>3, ConcatProperties DEF IsJoin
=============================================================================
