---------------------------- MODULE PsdkroProofs ----------------------------
(***************************************************************************)
(* Proofs about module Psdkro, for any number of inputs, any order of them *)
(* and any list of outputs: what its cofactors and branches are, what the  *)
(* recursions have still to do, as an annotation of their stack, the       *)
(* inductive invariant, and how much is left to do, which gets less.       *)
(***************************************************************************)
EXTENDS Psdkro, Cube32Lemmas

-----------------------------------------------------------------------------
(* The order of the inputs. *)

First(K) == {order[j] : j \in 1 .. K}

Ordered ==
  /\ order \in Seq(Vars) /\ Len(order) = NVars
  /\ First(NVars) = Vars
  /\ \A i, j \in 1 .. NVars : order[i] = order[j] => i = j

\* The orders CUDD may choose are listings of the inputs.
LEMMA OrdersAreListings == order \in Orders => Ordered
<1> SUFFICES ASSUME order \in Orders PROVE Ordered
  OBVIOUS
<1> DEFINE n == Len(order)
<1>1. /\ order \in Seq(Vars) /\ ToSet(order) = Vars
      /\ n \in Nat /\ DOMAIN order = 1 .. n
      /\ \A i, j \in 1 .. n : order[i] = order[j] => i = j
  BY OrdersAssumption DEF IsInjective
<1> HIDE DEF n
<1>2. {order[j] : j \in 1 .. n} = Vars
  BY <1>1 DEF ToSet
<1>3. order \in Bijection(1 .. n, Vars)
  BY <1>1, <1>2 DEF Bijection, Injection, Surjection, IsInjective
<1>4. n = NVars
  <2>1. IsFiniteSet(1 .. n) /\ Cardinality(1 .. n) = n
    BY <1>1, FS_Interval
  <2>2. ExistsBijection(1 .. n, Vars)
    BY <1>3 DEF ExistsBijection
  <2> QED  BY <2>1, <2>2, VarsFinite, FS_Bijection
<1> QED  BY <1>1, <1>2, <1>4 DEF Ordered, First, n

\* The first inputs, one by one.
LEMMA FirstFacts ==
  ASSUME Ordered, NEW K \in 0 .. NVars
  PROVE  /\ First(K) \in SUBSET Vars
         /\ \A j \in 1 .. K : order[j] \in First(K)
         /\ \A j \in 1 .. NVars : order[j] \in Vars /\ (j > K => order[j] \notin First(K))
         /\ \A k \in 0 .. K : First(k) \subseteq First(K)
         /\ K < NVars => First(K + 1) = First(K) \cup {order[K + 1]}
<1>0. NVars \in Nat /\ K \in Nat
  BY NVarsAssumption, WidthAssumption
<1>1. \A j \in 1 .. NVars : order[j] \in Vars
  BY <1>0 DEF Ordered
<1>2. K < NVars => 1 .. K + 1 = (1 .. K) \cup {K + 1}
  BY <1>0
<1>3. K < NVars => First(K + 1) = First(K) \cup {order[K + 1]}
  BY <1>2, <1>0 DEF First
<1>4. \A j \in 1 .. NVars : j > K => order[j] \notin First(K)
  BY <1>0 DEF Ordered, First
<1> QED  BY <1>0, <1>1, <1>3, <1>4 DEF First

-----------------------------------------------------------------------------
(* Cofactors. *)

\* The function g does not depend on the first K inputs.
Indep(g, K) == \A v \in First(K) : E(g, v) = T(g, v)

\* A function does not depend on an input that never matters.
LEMMA IndepAt ==
  ASSUME NEW g, NEW v \in Vars
  PROVE  E(g, v) = T(g, v) <=> \A x \in Points : x \ {v} \in g <=> x \cup {v} \in g
  BY DEF E, T

\* A function that does not depend on the first inputs is known by its points
\* without them.
LEMMA IndepPrefix ==
  ASSUME Ordered, NEW g, NEW K \in 0 .. NVars, Indep(g, K), NEW x \in Points
  PROVE  x \in g <=> x \ First(K) \in g
<1> DEFINE S == {k \in Nat : k <= K => (x \in g <=> x \ First(k) \in g)}
<1>1. 0 \in S
  <2>1. First(0) = {}
    BY DEF First
  <2>2. x \ {} = x
    OBVIOUS
  <2> QED  BY <2>1, <2>2
<1>2. ASSUME NEW k \in Nat, k \in S PROVE k + 1 \in S
  <2> SUFFICES ASSUME k + 1 <= K PROVE x \in g <=> x \ First(k + 1) \in g
    OBVIOUS
  <2>1. k \in 0 .. NVars /\ k < NVars /\ k + 1 \in 1 .. K /\ k <= K
    BY NVarsAssumption, WidthAssumption
  <2> DEFINE v == order[k + 1]
             y == x \ First(k)
  <2>2. v \in First(K) /\ v \in Vars /\ First(k + 1) = First(k) \cup {v}
    BY <2>1, FirstFacts
  <2>3. y \in Points /\ x \ First(k + 1) = y \ {v}
    BY <2>2 DEF Points
  <2>4. y \ {v} \in g <=> y \cup {v} \in g
    BY <2>2, <2>3, IndepAt DEF Indep
  <2>5. y \ {v} = y \/ y \cup {v} = y
    OBVIOUS
  <2> QED  BY <1>2, <2>1, <2>3, <2>4, <2>5
<1> HIDE DEF S
<1>3. K \in S
  BY <1>1, <1>2, AllNumbers, NVarsAssumption, WidthAssumption
<1> QED  BY <1>3 DEF S

\* The leaves are two different functions.
LEMMA ZeroOne == /\ {} \in Points /\ Zero # One
                 /\ Zero \in SUBSET Points /\ One \in SUBSET Points
                 /\ Terminal = {Zero, One}
  BY DEF Zero, One, Points, Terminal

\* Only the leaves depend on no input.
LEMMA AllIndep ==
  ASSUME Ordered, NEW g \in SUBSET Points, Indep(g, NVars)
  PROVE  g \in Terminal
<1>1. NVars \in 0 .. NVars /\ First(NVars) = Vars
  BY NVarsAssumption, WidthAssumption DEF Ordered
<1>2. \A x \in Points : x \ Vars = {}
  BY DEF Points
<1>3. \A x \in Points : x \in g <=> {} \in g
  BY <1>1, <1>2, IndepPrefix
<1>4. CASE {} \in g
  BY <1>3, <1>4 DEF Terminal, One
<1>5. CASE {} \notin g
  BY <1>3, <1>5 DEF Terminal, Zero
<1> QED  BY <1>4, <1>5

\* Fewer of the first inputs matter even less.
LEMMA IndepLess ==
  ASSUME Ordered, NEW g, NEW K \in 0 .. NVars, NEW k \in 0 .. K, Indep(g, K)
  PROVE  Indep(g, k)
  BY FirstFacts DEF Indep

\* The first input on which a node depends.
LEMMA LevelFacts ==
  ASSUME Ordered, NEW g \in SUBSET Points, g \notin Terminal,
         NEW K \in 0 .. NVars, Indep(g, K)
  PROVE  /\ Level(g) \in K + 1 .. NVars
         /\ Top(g) \in Vars /\ Top(g) = order[Level(g)]
         /\ Level(g) - 1 \in 0 .. NVars /\ Indep(g, Level(g) - 1)
<1>0. NVars \in Nat /\ K \in Nat
  BY NVarsAssumption, WidthAssumption
<1> DEFINE S == {k \in DOMAIN order : E(g, order[k]) # T(g, order[k])}
<1>1. DOMAIN order = 1 .. NVars /\ \A j \in 1 .. NVars : order[j] \in Vars
  BY <1>0 DEF Ordered
<1>2. S # {}
  <2> SUFFICES ASSUME S = {} PROVE FALSE
    OBVIOUS
  <2>1. Indep(g, NVars)
    BY <1>1 DEF Indep, First
  <2> QED  BY <2>1, AllIndep
<1>3. S \in SUBSET Nat
  BY <1>0, <1>1
<1>4. \E n \in S : \A m \in S : n <= m
  BY <1>2, <1>3, LeastNumber
<1>5. Level(g) \in S /\ \A m \in S : Level(g) <= m
  BY <1>4 DEF Level, Min
<1> HIDE DEF S
<1> DEFINE j == Level(g)
<1>6. j \in 1 .. NVars /\ j \in Nat /\ E(g, order[j]) # T(g, order[j])
  BY <1>1, <1>5, <1>0 DEF S
<1>7. \A k \in 1 .. NVars : k < j => E(g, order[k]) = T(g, order[k])
  BY <1>1, <1>5, <1>3, <1>6 DEF S
<1>8. ~ (j <= K)
  BY <1>6, <1>0 DEF Indep, First
<1>9. Indep(g, j - 1)
  BY <1>6, <1>7, <1>0 DEF Indep, First
<1> QED  BY <1>0, <1>1, <1>6, <1>8, <1>9 DEF Top

\* The cofactors of a node by its first input, and their exclusive sum.
LEMMA BranchFacts ==
  ASSUME Ordered, NEW g \in SUBSET Points, g \notin Terminal,
         NEW i \in 1 .. 3
  PROVE  /\ Branches(g)[i] \in SUBSET Points
         /\ Indep(Branches(g)[i], Level(g))
<1>0. 0 \in 0 .. NVars /\ Indep(g, 0)
  BY NVarsAssumption, WidthAssumption DEF Indep, First
<1> DEFINE v == Top(g)
           j == Level(g)
<1>1. /\ j \in 0 .. NVars /\ j \in 1 .. NVars /\ v \in Vars /\ v = order[j]
      /\ j - 1 \in 0 .. NVars /\ Indep(g, j - 1)
  BY <1>0, LevelFacts
<1>2. First(j) \subseteq First(j - 1) \cup {v} /\ First(j) \subseteq Vars
  <2>1. PICK k \in 0 .. NVars : k = j - 1
    BY <1>1
  <2>2. k + 1 = j /\ k < NVars
    BY <2>1, <1>1, NVarsAssumption, WidthAssumption
  <2>3. First(k + 1) = First(k) \cup {order[k + 1]}
    BY <2>2, FirstFacts
  <2> QED  BY <2>1, <2>2, <2>3, <1>1, FirstFacts
<1>3. ASSUME NEW u \in First(j)
      PROVE  E(E(g, v), u) = T(E(g, v), u) /\ E(T(g, v), u) = T(T(g, v), u)
  <2>1. CASE u = v
    <3>1. \A x : /\ (x \ {v}) \ {v} = (x \cup {v}) \ {v}
                 /\ (x \ {v}) \cup {v} = (x \cup {v}) \cup {v}
      OBVIOUS
    <3>2. \A x \in Points : x \ {v} \in Points /\ x \cup {v} \in Points
      BY <1>1 DEF Points
    <3> QED  BY <2>1, <3>1, <3>2 DEF E, T
  <2>2. CASE u # v
    <3>1. u \in Vars /\ u \in First(j - 1) /\ E(g, u) = T(g, u)
      BY <1>1, <1>2, <2>2 DEF Indep
    <3>2. \A x : /\ (x \ {u}) \ {v} = (x \ {v}) \ {u}
                 /\ (x \cup {u}) \ {v} = (x \ {v}) \cup {u}
                 /\ (x \ {u}) \cup {v} = (x \cup {v}) \ {u}
                 /\ (x \cup {u}) \cup {v} = (x \cup {v}) \cup {u}
      BY <2>2
    <3>3. \A x \in Points : x \ {v} \in Points /\ x \cup {v} \in Points
                           /\ x \ {u} \in Points /\ x \cup {u} \in Points
      BY <1>1, <3>1 DEF Points
    <3>4. \A x \in Points : x \ {u} \in g <=> x \cup {u} \in g
      BY <3>1, IndepAt
    <3>5. \A x \in Points : x \ {u} \in E(g, v) <=> x \cup {u} \in E(g, v)
      BY <3>2, <3>3, <3>4 DEF E
    <3>6. \A x \in Points : x \ {u} \in T(g, v) <=> x \cup {u} \in T(g, v)
      BY <3>2, <3>3, <3>4 DEF T
    <3> QED  BY <3>1, <3>5, <3>6, IndepAt
  <2> QED  BY <2>1, <2>2
<1>4. ASSUME NEW u \in First(j)
      PROVE  E(SymDiff(E(g, v), T(g, v)), u) = T(SymDiff(E(g, v), T(g, v)), u)
  <2> DEFINE a == E(g, v)
             b == T(g, v)
  <2>1. E(a, u) = T(a, u) /\ E(b, u) = T(b, u) /\ u \in Vars
    BY <1>3, <1>2
  <2> HIDE DEF a, b
  <2>2. \A x \in Points : x \ {u} \in a <=> x \cup {u} \in a
    BY <2>1, IndepAt
  <2>3. \A x \in Points : x \ {u} \in b <=> x \cup {u} \in b
    BY <2>1, IndepAt
  <2>4. \A x \in Points : x \ {u} \in SymDiff(a, b) <=> x \cup {u} \in SymDiff(a, b)
    BY <2>2, <2>3 DEF SymDiff
  <2>5. E(SymDiff(a, b), u) = T(SymDiff(a, b), u)
    BY <2>1, <2>4, IndepAt
  <2> QED  BY <2>5 DEF a, b
<1>5. Branches(g) = <<E(g, v), T(g, v), SymDiff(E(g, v), T(g, v))>>
  BY DEF Branches
<1>6. /\ E(g, v) \in SUBSET Points /\ T(g, v) \in SUBSET Points
      /\ SymDiff(E(g, v), T(g, v)) \in SUBSET Points
  BY DEF E, T, SymDiff
<1>7. i = 1 \/ i = 2 \/ i = 3
  OBVIOUS
<1> HIDE DEF v, j
<1>8. /\ Indep(E(g, v), j) /\ Indep(T(g, v), j)
      /\ Indep(SymDiff(E(g, v), T(g, v)), j)
  BY <1>3, <1>4 DEF Indep
<1> QED  BY <1>5, <1>6, <1>7, <1>8 DEF j

\* The two cofactors of a node, as parts of it.
LEMMA BranchPoints ==
  ASSUME NEW g \in SUBSET Points, NEW v, v = Top(g), NEW x \in Points
  PROVE  /\ v \notin x => (x \in g <=> x \in Branches(g)[1])
         /\ v \in x => (x \in g <=> x \in Branches(g)[2])
         /\ x \in Branches(g)[3] <=> (x \in Branches(g)[1] <=> x \notin Branches(g)[2])
<1>1. Branches(g) = <<E(g, v), T(g, v), SymDiff(E(g, v), T(g, v))>>
  BY DEF Branches
<1>2. v \notin x => x \ {v} = x
  OBVIOUS
<1>3. v \in x => x \cup {v} = x
  OBVIOUS
<1>4. v \notin x => (x \in g <=> x \in E(g, v))
  BY <1>2 DEF E
<1>5. v \in x => (x \in g <=> x \in T(g, v))
  BY <1>3 DEF T
<1>6. x \in SymDiff(E(g, v), T(g, v)) <=> (x \in E(g, v) <=> x \notin T(g, v))
  BY DEF SymDiff
<1> QED  BY <1>1, <1>4, <1>5, <1>6

-----------------------------------------------------------------------------
(* The least number of cubes. *)

\* The body of Least.
LeastFrom(least, f) ==
  IF f = Zero THEN 0 ELSE IF f = One THEN 1
  ELSE LET b == Branches(f)
           n == <<least[b[1]], least[b[2]], least[b[3]]>>
       IN  Min({n[1] + n[2], n[1] + n[3], n[2] + n[3]})

\* The least of the sums of two branches out of three.
LEMMA MinOfSums ==
  ASSUME NEW a \in Nat, NEW b \in Nat, NEW c \in Nat
  PROVE  LET m == Min({a + b, a + c, b + c}) IN
           /\ m \in {a + b, a + c, b + c} /\ m \in Nat
           /\ m <= a + b /\ m <= a + c /\ m <= b + c
<1> DEFINE S == {a + b, a + c, b + c}
<1>1. S \in SUBSET Nat /\ S # {}
  OBVIOUS
<1>2. \E n \in S : \A m \in S : n <= m
  BY <1>1, LeastNumber
<1>3. Min(S) \in S /\ \A m \in S : Min(S) <= m
  BY <1>2 DEF Min
<1> QED  BY <1>1, <1>3

\* The expansion that leaves out the most costly of the branches.
LEMMA ExpandIsLeast ==
  ASSUME NEW a \in Nat, NEW b \in Nat, NEW c \in Nat
  PROVE  /\ Expand(a, b, c)[2] = Min({a + b, a + c, b + c})
         /\ \/ Expand(a, b, c) = <<"POSITIVE_DAVIO", a + c>>
            \/ Expand(a, b, c) = <<"NEGATIVE_DAVIO", b + c>>
            \/ Expand(a, b, c) = <<"SHANNON", a + b>>
<1> DEFINE m == Max({a, b, c})
           s == Min({a + b, a + c, b + c})
<1>1. m \in {a, b, c} /\ a <= m /\ b <= m /\ c <= m
  <2>1. \E x \in {a, b, c} : \A y \in {a, b, c} : x >= y
    OBVIOUS
  <2> QED  BY <2>1 DEF Max
<1>2. /\ s \in {a + b, a + c, b + c}
      /\ s <= a + b /\ s <= a + c /\ s <= b + c
  BY MinOfSums
<1>3. Expand(a, b, c) = IF m = a THEN <<"NEGATIVE_DAVIO", b + c>>
                        ELSE IF m = b THEN <<"POSITIVE_DAVIO", a + c>>
                        ELSE <<"SHANNON", a + b>>
  BY DEF Expand
<1> HIDE DEF m, s
<1>4. /\ m = a => s = b + c
      /\ m = b => s = a + c
      /\ m = c => s = a + b
  BY <1>1, <1>2
<1>5. m = a \/ m = b \/ m = c
  BY <1>1
<1> QED  BY <1>3, <1>4, <1>5 DEF s

\* What the body of Least gives for a leaf and for a node.
LEMMA LeastFromFacts ==
  ASSUME Ordered, NEW h, NEW f \in SUBSET Points,
         f \notin Terminal => \A i \in 1 .. 3 : h[Branches(f)[i]] \in Nat
  PROVE  /\ LeastFrom(h, f) \in Nat
         /\ f = Zero => LeastFrom(h, f) = 0
         /\ f = One => LeastFrom(h, f) = 1
         /\ f \notin Terminal =>
              LeastFrom(h, f)
                = Min({h[Branches(f)[1]] + h[Branches(f)[2]],
                       h[Branches(f)[1]] + h[Branches(f)[3]],
                       h[Branches(f)[2]] + h[Branches(f)[3]]})
<1>1. f = Zero => LeastFrom(h, f) = 0
  BY DEF LeastFrom
<1>2. f = One => LeastFrom(h, f) = 1
  BY ZeroOne DEF LeastFrom
<1>3. ASSUME f \notin Terminal
      PROVE  /\ LeastFrom(h, f) \in Nat
             /\ LeastFrom(h, f)
                  = Min({h[Branches(f)[1]] + h[Branches(f)[2]],
                         h[Branches(f)[1]] + h[Branches(f)[3]],
                         h[Branches(f)[2]] + h[Branches(f)[3]]})
  <2> DEFINE a == h[Branches(f)[1]]
             b == h[Branches(f)[2]]
             c == h[Branches(f)[3]]
  <2>1. a \in Nat /\ b \in Nat /\ c \in Nat
    BY <1>3
  <2>2. LeastFrom(h, f) = Min({a + b, a + c, b + c})
    BY <1>3, ZeroOne DEF LeastFrom
  <2> HIDE DEF a, b, c
  <2>3. Min({a + b, a + c, b + c}) \in Nat
    BY <2>1, MinOfSums
  <2> QED  BY <2>2, <2>3 DEF a, b, c
<1> QED  BY <1>1, <1>2, <1>3, ZeroOne

\* Two tables that agree on the branches of a node give it the same number.
LEMMA LeastFromSame ==
  ASSUME NEW f, NEW h, NEW t,
         f \notin Terminal => \A i \in 1 .. 3 : h[Branches(f)[i]] = t[Branches(f)[i]]
  PROVE  LeastFrom(h, f) = LeastFrom(t, f)
  BY ZeroOne DEF LeastFrom

\* Tables that are computed one from another from the leaves of the BDDs
\* upwards: the table of each level does not change any more.
LEMMA LeastTable ==
  ASSUME Ordered
  PROVE  \E h \in [SUBSET Points -> Nat] :
           \A f \in SUBSET Points : h[f] = LeastFrom(h, f)
<1> DEFINE R == [SUBSET Points -> Nat]
           a == [f \in SUBSET Points |-> IF f = One THEN 1 ELSE 0]
           G == [p \in Nat \X R |-> [f \in SUBSET Points |-> LeastFrom(p[2], f)]]
<1>1. a \in R
  OBVIOUS
<1>2. ASSUME NEW n \in Nat, NEW h \in R PROVE G[<<n, h>>] \in R
  <2>1. \A f \in SUBSET Points : LeastFrom(h, f) \in Nat
    BY LeastFromFacts, BranchFacts
  <2> QED  BY <2>1
<1>3. G \in [Nat \X R -> R]
  <2>1. ASSUME NEW p \in Nat \X R PROVE [f \in SUBSET Points |-> LeastFrom(p[2], f)] \in R
    <3>1. p[2] \in R
      OBVIOUS
    <3>2. \A f \in SUBSET Points : LeastFrom(p[2], f) \in Nat
      BY <3>1, LeastFromFacts, BranchFacts
    <3> QED  BY <3>2
  <2> QED  BY <2>1
<1> HIDE DEF G
<1>4. PICK t \in [Nat -> R] : StepsBy(t, a, G)
  BY <1>1, <1>3, Recursion
<1>5. \A n \in Nat : t[n] \in R
  BY <1>4
<1>6. t[0] = a
  BY <1>4 DEF StepsBy
<1>7. ASSUME NEW n \in Nat, NEW f \in SUBSET Points
      PROVE  t[n + 1][f] = LeastFrom(t[n], f)
  <2>1. t[n + 1] = G[<<n + 1, t[n]>>] /\ <<n + 1, t[n]>> \in Nat \X R
    BY <1>4, <1>5 DEF StepsBy
  <2> QED  BY <2>1 DEF G
<1> DEFINE Settled(n) == \A f \in SUBSET Points :
                            Indep(f, NVars - n) => t[n + 1][f] = t[n][f]
           S == {n \in Nat : n <= NVars => Settled(n)}
<1> HIDE DEF R
<1>8. NVars \in Nat
  BY NVarsAssumption, WidthAssumption
<1>9. 0 \in S
  <2> SUFFICES ASSUME NEW f \in SUBSET Points, Indep(f, NVars) PROVE t[0 + 1][f] = t[0][f]
    BY <1>8
  <2>1. f \in Terminal
    BY AllIndep
  <2>2. t[0 + 1][f] = LeastFrom(t[0], f)
    BY <1>7
  <2>3. t[0][f] = IF f = One THEN 1 ELSE 0
    BY <1>6
  <2> QED  BY <2>1, <2>2, <2>3, ZeroOne DEF LeastFrom
<1>10. ASSUME NEW n \in Nat, n \in S PROVE n + 1 \in S
  <2> SUFFICES ASSUME n + 1 <= NVars, NEW f \in SUBSET Points, Indep(f, NVars - (n + 1))
               PROVE  t[(n + 1) + 1][f] = t[n + 1][f]
    OBVIOUS
  <2>1. t[(n + 1) + 1][f] = LeastFrom(t[n + 1], f) /\ t[n + 1][f] = LeastFrom(t[n], f)
    BY <1>7
  <2>2. ASSUME f \notin Terminal, NEW i \in 1 .. 3
        PROVE  t[n + 1][Branches(f)[i]] = t[n][Branches(f)[i]]
    <3> DEFINE b == Branches(f)[i]
    <3>1. NVars - (n + 1) \in 0 .. NVars
      BY <1>8
    <3>2. Level(f) \in NVars - (n + 1) + 1 .. NVars
      BY <2>2, <3>1, LevelFacts
    <3>3. b \in SUBSET Points /\ Indep(b, Level(f))
      BY <2>2, BranchFacts
    <3>4. Level(f) \in 0 .. NVars /\ NVars - n \in 0 .. Level(f)
      BY <3>2, <1>8
    <3> HIDE DEF b
    <3>5. Indep(b, NVars - n)
      BY <3>3, <3>4, IndepLess
    <3>6. t[n + 1][b] = t[n][b]
      BY <3>3, <3>5, <1>10, <1>8
    <3> QED  BY <3>6 DEF b
  <2> QED  BY <2>1, <2>2, LeastFromSame
<1> HIDE DEF S
<1>11. NVars \in S
  BY <1>9, <1>10, AllNumbers, <1>8
<1>12. ASSUME NEW f \in SUBSET Points PROVE t[NVars][f] = LeastFrom(t[NVars], f)
  <2>1. Indep(f, NVars - NVars)
    BY <1>8 DEF Indep, First
  <2>2. t[NVars + 1][f] = t[NVars][f]
    BY <1>11, <2>1, <1>8 DEF S
  <2> QED  BY <2>2, <1>7, <1>8
<1> QED  BY <1>12, <1>5, <1>8 DEF R

\* Least is such a table, with natural numbers.
LEMMA LeastFacts ==
  ASSUME Ordered, NEW f \in SUBSET Points
  PROVE  Least[f] \in Nat /\ Least[f] = LeastFrom(Least, f)
<1>1. PICK h \in [SUBSET Points -> Nat] : \A g \in SUBSET Points : h[g] = LeastFrom(h, g)
  BY LeastTable
<1>2. h = [g \in SUBSET Points |-> LeastFrom(h, g)]
  BY <1>1
<1>3. Least = [g \in SUBSET Points |-> LeastFrom(Least, g)]
  BY <1>2 DEF Least, LeastFrom
<1> PICK L : L = Least
  OBVIOUS
<1>4. ASSUME NEW g \in SUBSET Points PROVE L[g] = LeastFrom(L, g)
  BY <1>3
<1>41. ASSUME NEW g \in SUBSET Points,
               g \notin Terminal => \A i \in 1 .. 3 : L[Branches(g)[i]] \in Nat
       PROVE  L[g] \in Nat
  <2>1. LeastFrom(L, g) \in Nat
    BY <1>41, LeastFromFacts
  <2>2. L[g] = LeastFrom(L, g)
    BY <1>4
  <2> QED  BY <2>1, <2>2
<1> DEFINE S == {n \in Nat : n <= NVars =>
                   \A g \in SUBSET Points : Indep(g, NVars - n) => L[g] \in Nat}
<1>5. NVars \in Nat
  BY NVarsAssumption, WidthAssumption
<1>6. 0 \in S
  <2> SUFFICES ASSUME NEW g \in SUBSET Points, Indep(g, NVars) PROVE L[g] \in Nat
    BY <1>5
  <2>1. g \in Terminal
    BY AllIndep
  <2> QED  BY <2>1, <1>41
<1>7. ASSUME NEW n \in Nat, n \in S PROVE n + 1 \in S
  <2> SUFFICES ASSUME n + 1 <= NVars, NEW g \in SUBSET Points, Indep(g, NVars - (n + 1))
               PROVE  L[g] \in Nat
    OBVIOUS
  <2>1. ASSUME g \notin Terminal, NEW i \in 1 .. 3 PROVE L[Branches(g)[i]] \in Nat
    <3> DEFINE b == Branches(g)[i]
    <3>1. NVars - (n + 1) \in 0 .. NVars
      BY <1>5
    <3>2. Level(g) \in NVars - (n + 1) + 1 .. NVars
      BY <2>1, <3>1, LevelFacts
    <3>3. b \in SUBSET Points /\ Indep(b, Level(g))
      BY <2>1, BranchFacts
    <3>4. Level(g) \in 0 .. NVars /\ NVars - n \in 0 .. Level(g)
      BY <3>2, <1>5
    <3> HIDE DEF b
    <3>5. Indep(b, NVars - n)
      BY <3>3, <3>4, IndepLess
    <3>6. L[b] \in Nat
      BY <3>3, <3>5, <1>7, <1>5
    <3> QED  BY <3>6 DEF b
  <2> QED  BY <2>1, <1>41
<1> HIDE DEF S
<1>8. NVars \in S
  BY <1>6, <1>7, AllNumbers, <1>5
<1>9. Indep(f, NVars - NVars)
  BY <1>5 DEF Indep, First
<1>10. L[f] \in Nat
  BY <1>8, <1>9, <1>5 DEF S
<1> QED  BY <1>4, <1>10

\* A node costs what the expansion that count_cubes chooses for it costs.
LEMMA LeastOfNode ==
  ASSUME Ordered, NEW f \in SUBSET Points, f \notin Terminal
  PROVE  LET l(i) == Least[Branches(f)[i]]
         IN  /\ \A i \in 1 .. 3 : Branches(f)[i] \in SUBSET Points /\ l(i) \in Nat
             /\ Least[f] = Expand(l(1), l(2), l(3))[2]
<1> DEFINE l(i) == Least[Branches(f)[i]]
<1>1. \A i \in 1 .. 3 : Branches(f)[i] \in SUBSET Points /\ l(i) \in Nat
  BY BranchFacts, LeastFacts
<1>2. Least[f] = Min({l(1) + l(2), l(1) + l(3), l(2) + l(3)})
  BY <1>1, LeastFacts, LeastFromFacts
<1> HIDE DEF l
<1>3. Expand(l(1), l(2), l(3))[2] = Min({l(1) + l(2), l(1) + l(3), l(2) + l(3)})
  <2>1. l(1) \in Nat /\ l(2) \in Nat /\ l(3) \in Nat
    <3>1. 1 \in 1 .. 3 /\ 2 \in 1 .. 3 /\ 3 \in 1 .. 3
      OBVIOUS
    <3> QED  BY ONLY <1>1, <3>1
  <2> QED  BY ONLY <2>1, ExpandIsLeast
<1> QED  BY <1>1, <1>2, <1>3 DEF l

-----------------------------------------------------------------------------
(* The points and the cubes under a path. *)

Literals == {"UNUSED", "POSITIVE", "NEGATIVE"}

\* The points that agree with the literals of a path.
On(env) ==
  {x \in Points : \A v \in Vars : /\ env[v] = "POSITIVE" => v \in x
                                  /\ env[v] = "NEGATIVE" => v \notin x}

\* The cubes that have these literals at the first K inputs.
Literal(c, v) ==
  IF v \notin c.mask THEN "UNUSED"
  ELSE IF v \in c.polarity THEN "POSITIVE" ELSE "NEGATIVE"

Agreeing(env, K) == {c \in Cubes : \A v \in First(K) : Literal(c, v) = env[v]}

\* The points of a path when its next input is given a literal.
LEMMA OnAssigned ==
  ASSUME NEW env \in [Vars -> Literals], NEW v \in Vars, env[v] = "UNUSED"
  PROVE  /\ On([env EXCEPT ![v] = "UNUSED"]) = On(env)
         /\ On([env EXCEPT ![v] = "POSITIVE"]) = {x \in On(env) : v \in x}
         /\ On([env EXCEPT ![v] = "NEGATIVE"]) = {x \in On(env) : v \notin x}
<1>1. [env EXCEPT ![v] = "UNUSED"] = env
  OBVIOUS
<1>2. On([env EXCEPT ![v] = "POSITIVE"]) = {x \in On(env) : v \in x}
  <2> DEFINE q == [env EXCEPT ![v] = "POSITIVE"]
  <2>1. q[v] = "POSITIVE" /\ \A u \in Vars : u # v => q[u] = env[u]
    OBVIOUS
  <2> HIDE DEF q
  <2>2. \A x \in Points : x \in On(q) <=> x \in On(env) /\ v \in x
    <3> TAKE x \in Points
    <3>1. ASSUME x \in On(q) PROVE x \in On(env) /\ v \in x
      <4>1. v \in x
        BY <3>1, <2>1 DEF On
      <4>2. ASSUME NEW u \in Vars PROVE /\ env[u] = "POSITIVE" => u \in x
                                        /\ env[u] = "NEGATIVE" => u \notin x
        BY <3>1, <2>1 DEF On
      <4> QED  BY <4>1, <4>2 DEF On
    <3>2. ASSUME x \in On(env), v \in x PROVE x \in On(q)
      <4>1. ASSUME NEW u \in Vars PROVE /\ q[u] = "POSITIVE" => u \in x
                                        /\ q[u] = "NEGATIVE" => u \notin x
        BY <3>2, <2>1 DEF On
      <4> QED  BY <4>1 DEF On
    <3> QED  BY <3>1, <3>2
  <2>3. On(q) = {x \in On(env) : v \in x}
    BY <2>2 DEF On
  <2> QED  BY <2>3 DEF q
<1>3. On([env EXCEPT ![v] = "NEGATIVE"]) = {x \in On(env) : v \notin x}
  BY DEF On
<1> QED  BY <1>1, <1>2, <1>3

\* With the literals env, g is the sum of c1 under the literal p of v and of c2
\* under its literal q.
IsSum(env, g, v, p, c1, q, c2) ==
  g \cap On(env) = SymDiff(c1 \cap On([env EXCEPT ![v] = p]),
                           c2 \cap On([env EXCEPT ![v] = q]))

\* The three expansions of a node.
LEMMA ExpansionsSum ==
  ASSUME NEW env \in [Vars -> Literals], NEW v \in Vars, env[v] = "UNUSED",
         NEW g \in SUBSET Points, v = Top(g)
  PROVE  /\ IsSum(env, g, v, "UNUSED", Branches(g)[1], "POSITIVE", Branches(g)[3])
         /\ IsSum(env, g, v, "UNUSED", Branches(g)[2], "NEGATIVE", Branches(g)[3])
         /\ IsSum(env, g, v, "NEGATIVE", Branches(g)[1], "POSITIVE", Branches(g)[2])
<1> DEFINE pos == [env EXCEPT ![v] = "POSITIVE"]
           neg == [env EXCEPT ![v] = "NEGATIVE"]
           b1 == Branches(g)[1]
           b2 == Branches(g)[2]
           b3 == Branches(g)[3]
<1>1. /\ On(pos) = {x \in On(env) : v \in x}
      /\ On(neg) = {x \in On(env) : v \notin x}
      /\ \A x \in On(env) : x \in Points
  BY OnAssigned DEF On
<1>2. \A x \in Points : /\ v \notin x => (x \in g <=> x \in b1)
                        /\ v \in x => (x \in g <=> x \in b2)
                        /\ x \in b3 <=> (x \in b1 <=> x \notin b2)
  BY BranchPoints
<1> HIDE DEF pos, neg, b1, b2, b3
<1> DEFINE P == On(env)
<1>0. P \subseteq Points /\ On(pos) = {x \in P : v \in x} /\ On(neg) = {x \in P : v \notin x}
  BY <1>1
<1> HIDE DEF P
<1>3. g \cap P = SymDiff(b1 \cap P, b3 \cap On(pos))
  <2>1. \A x \in P : x \in g <=> x \in SymDiff(b1 \cap P, b3 \cap {y \in P : v \in y})
    <3> TAKE x \in P
    <3>1. CASE v \in x
      BY <3>1, <1>0, <1>2 DEF SymDiff
    <3>2. CASE v \notin x
      BY <3>2, <1>0, <1>2 DEF SymDiff
    <3> QED  BY <3>1, <3>2
  <2> QED  BY <2>1, <1>0 DEF SymDiff
<1>4. g \cap P = SymDiff(b2 \cap P, b3 \cap On(neg))
  <2>1. \A x \in P : x \in g <=> x \in SymDiff(b2 \cap P, b3 \cap {y \in P : v \notin y})
    <3> TAKE x \in P
    <3>1. CASE v \in x
      BY <3>1, <1>0, <1>2 DEF SymDiff
    <3>2. CASE v \notin x
      BY <3>2, <1>0, <1>2 DEF SymDiff
    <3> QED  BY <3>1, <3>2
  <2> QED  BY <2>1, <1>0 DEF SymDiff
<1>5. g \cap P = SymDiff(b1 \cap On(neg), b2 \cap On(pos))
  <2>1. \A x \in P : x \in g <=> x \in SymDiff(b1 \cap {y \in P : v \notin y},
                                           b2 \cap {y \in P : v \in y})
    <3> TAKE x \in P
    <3>1. CASE v \in x
      BY <3>1, <1>0, <1>2 DEF SymDiff
    <3>2. CASE v \notin x
      BY <3>2, <1>0, <1>2 DEF SymDiff
    <3> QED  BY <3>1, <3>2
  <2> QED  BY <2>1, <1>0 DEF SymDiff
<1>6. On([env EXCEPT ![v] = "UNUSED"]) = P
  BY OnAssigned DEF P
<1> QED  BY <1>3, <1>4, <1>5, <1>6 DEF pos, neg, b1, b2, b3, P, IsSum

\* The cube of a path.
LEMMA PathCubeFacts ==
  ASSUME m_vars \in Seq(Vars), m_var_values \in [Vars -> Literals],
         \A u \in Vars : m_var_values[u] # "UNUSED" => u \in ToSet(m_vars),
         NEW K \in 0 .. NVars, Ordered
  PROVE  /\ PathCube \in Agreeing(m_var_values, K)
         /\ PathCube \in Cubes /\ OnSet(PathCube) = On(m_var_values)
<1>1. ToSet(m_vars) \subseteq Vars
  BY DEF ToSet
<1>2. /\ PathCube.mask = {v \in Vars : m_var_values[v] # "UNUSED"}
      /\ PathCube.polarity = {v \in Vars : m_var_values[v] = "POSITIVE"}
      /\ PathCube = Cube(PathCube.mask, PathCube.polarity)
  BY <1>1 DEF PathCube, Cube
<1>3. PathCube \in Cubes
  BY <1>2, CubeIntro
<1>4. \A v \in Vars : m_var_values[v] \in Literals
  OBVIOUS
<1> PICK c \in Cubes : c = PathCube
  BY <1>3
<1>5. \A v \in Vars : Literal(c, v) = m_var_values[v]
  BY <1>2, <1>4 DEF Literal, Literals
<1>6. c \in Agreeing(m_var_values, K)
  BY <1>5, FirstFacts DEF Agreeing
<1>7. ASSUME NEW x \in Points PROVE Covers(c, x) <=> x \in On(m_var_values)
  <2>1. Covers(c, x) <=> \A v \in Vars : Agrees(c, v, x)
    BY CoversLiterals
  <2>2. \A v \in Vars : Agrees(c, v, x) <=> /\ m_var_values[v] = "POSITIVE" => v \in x
                                            /\ m_var_values[v] = "NEGATIVE" => v \notin x
    BY <1>2, <1>4 DEF Agrees, Literals
  <2>3. x \in On(m_var_values)
          <=> \A v \in Vars : /\ m_var_values[v] = "POSITIVE" => v \in x
                              /\ m_var_values[v] = "NEGATIVE" => v \notin x
    BY DEF On
  <2> QED  BY <2>1, <2>2, <2>3
<1>8. OnSet(c) = On(m_var_values)
  BY <1>7 DEF OnSet, On
<1> QED  BY <1>6, <1>8

-----------------------------------------------------------------------------
(* What the recursions have still to do.  An annotation says for a moment  *)
(* of the run what the path is then, which cubes may be in m_esop and of   *)
(* which function they still miss how many, which nodes have been counted, *)
(* and how often the frames open then hold a reference to a node.  Each    *)
(* entry of the stack takes one annotation to the next.                    *)

Annotations ==
  {a \in [env : [Vars -> Literals], path : Seq(Vars), used : SUBSET Cubes,
           rest : SUBSET Points, left : Nat, seen : SUBSET SUBSET Points,
           held : [SUBSET Points -> Nat]] :
     \A v \in Vars : a.env[v] # "UNUSED" => v \in ToSet(a.path)}

SamePath(a, b) == a.env = b.env /\ a.path = b.path /\ a.held = b.held

SameWork(a, b) == a.rest = b.rest /\ a.left = b.left /\ a.used \subseteq b.used

\* The node is known afterwards.
CountStep(f, a, b) ==
  /\ f \in SUBSET Points
  /\ SamePath(a, b) /\ SameWork(a, b)
  /\ b.seen \subseteq a.seen \cup {f}

\* The branches are known before.
ChooseStep(f, a, b) ==
  /\ f \in SUBSET Points /\ f \notin Terminal
  /\ \A i \in 1 .. 3 : Branches(f)[i] \in a.seen
  /\ SamePath(a, b) /\ SameWork(a, b)
  /\ b.seen \subseteq a.seen \cup {f}

\* f is added to the function below the path, with the least number of cubes:
\* none of the cubes with the literals of the path is in m_esop.
CallStep(f, a, b) ==
  /\ f \in SUBSET Points /\ f \in a.seen
  /\ \E K \in 0 .. NVars :
       /\ Indep(f, K)
       /\ \A v \in Vars : a.env[v] # "UNUSED" => v \in First(K)
       /\ a.used \cap Agreeing(a.env, K) = {}
       /\ a.used \cup Agreeing(a.env, K) \subseteq b.used
  /\ SamePath(a, b)
  /\ b.rest = SymDiff(a.rest, f \cap On(a.env))
  /\ a.left = b.left + Least[f]
  /\ b.seen \subseteq a.seen

SetStep(v, l, a, b) ==
  /\ v \in ToSet(a.path) /\ l \in Literals
  /\ b.env = [a.env EXCEPT ![v] = l] /\ a.path = b.path /\ a.held = b.held
  /\ SameWork(a, b) /\ b.seen \subseteq a.seen

LeaveStep(v, f, a, b) ==
  /\ f \in SUBSET Points /\ v \in Vars /\ a.path # <<>>
  /\ b.env = [a.env EXCEPT ![v] = "UNUSED"] /\ b.path = Front(a.path)
  /\ a.held[Regular(f)] >= 1
  /\ b.held = [a.held EXCEPT ![Regular(f)] = a.held[Regular(f)] - 1]
  /\ SameWork(a, b) /\ b.seen \subseteq a.seen

Step(e, a, b) ==
  /\ a \in Annotations /\ b \in Annotations
  /\ \/ \E f \in SUBSET Points : e = Count(f) /\ CountStep(f, a, b)
     \/ \E f \in SUBSET Points : e = Choose(f) /\ ChooseStep(f, a, b)
     \/ \E f \in SUBSET Points : e = Call(f) /\ CallStep(f, a, b)
     \/ \E v \in Vars, l \in Literals : e = Set(v, l) /\ SetStep(v, l, a, b)
     \/ \E v \in Vars, f \in SUBSET Points : e = Leave(v, f) /\ LeaveStep(v, f, a, b)

Ended(a) == a.path = <<>> /\ a.rest = {} /\ a.left = 0

Annotated(t, a) ==
  \E A : /\ A[1] = a
         /\ \A i \in 1 .. Len(t) : Step(t[i], A[i], A[i + 1])
         /\ Ended(A[Len(t) + 1])

\* With nothing left to do, nothing is missing.
LEMMA AnnotatedEmpty ==
  ASSUME NEW a PROVE Annotated(<<>>, a) <=> Ended(a)
<1>1. ASSUME Ended(a) PROVE Annotated(<<>>, a)
  <2> DEFINE A == [i \in {1} |-> a]
  <2>1. /\ A[1] = a
        /\ \A i \in 1 .. Len(<<>>) : Step(<<>>[i], A[i], A[i + 1])
        /\ Ended(A[Len(<<>>) + 1])
    BY <1>1
  <2> QED  BY <2>1 DEF Annotated
<1>2. ASSUME Annotated(<<>>, a) PROVE Ended(a)
  <2>1. PICK A : A[1] = a /\ Ended(A[Len(<<>>) + 1])
    BY <1>2 DEF Annotated
  <2> QED  BY <2>1
<1> QED  BY <1>1, <1>2

\* The first entry is done.
LEMMA AnnotatedPop ==
  ASSUME NEW S, NEW t \in Seq(S), t # <<>>, NEW a, Annotated(t, a)
  PROVE  \E b : Step(Head(t), a, b) /\ Annotated(Tail(t), b)
<1> DEFINE n == Len(t)
           u == Tail(t)
<1>1. PICK A : /\ A[1] = a
               /\ \A i \in 1 .. Len(t) : Step(t[i], A[i], A[i + 1])
               /\ Ended(A[Len(t) + 1])
  BY DEF Annotated
<1>2. /\ n \in Nat /\ n # 0 /\ Len(u) = n - 1 /\ Head(t) = t[1]
      /\ \A i \in 1 .. n - 1 : u[i] = t[i + 1]
  OBVIOUS
<1> DEFINE B == [i \in 1 .. n |-> A[i + 1]]
<1>3. \A i \in 1 .. n : B[i] = A[i + 1]
  OBVIOUS
<1> HIDE DEF n, u, B
<1>4. Step(Head(t), a, B[1])
  BY <1>1, <1>2, <1>3 DEF n
<1>5. \A i \in 1 .. Len(u) : Step(u[i], B[i], B[i + 1])
  <2> TAKE i \in 1 .. Len(u)
  <2>1. i \in 1 .. n - 1 /\ i + 1 \in 1 .. n /\ i \in 1 .. n
    BY <1>2
  <2>2. Step(t[i + 1], A[i + 1], A[i + 1 + 1])
    BY <1>1, <2>1 DEF n
  <2> QED  BY <1>2, <1>3, <2>1, <2>2
<1>6. Ended(B[Len(u) + 1])
  BY <1>1, <1>2, <1>3 DEF n
<1>7. Annotated(u, B[1])
  BY <1>5, <1>6 DEF Annotated
<1> QED  BY <1>4, <1>7 DEF u

\* An entry is put before the others.
LEMMA AnnotatedPush ==
  ASSUME NEW S, NEW t \in Seq(S), NEW e \in S, NEW a, NEW b,
         Step(e, a, b), Annotated(t, b)
  PROVE  Annotated(<<e>> \o t, a)
<1> DEFINE n == Len(t)
           u == <<e>> \o t
<1>1. PICK B : /\ B[1] = b
               /\ \A i \in 1 .. Len(t) : Step(t[i], B[i], B[i + 1])
               /\ Ended(B[Len(t) + 1])
  BY DEF Annotated
<1>2. /\ n \in Nat /\ Len(u) = n + 1 /\ u[1] = e
      /\ \A i \in 1 .. n : u[i + 1] = t[i]
  OBVIOUS
<1> DEFINE A == [i \in 1 .. n + 2 |-> IF i = 1 THEN a ELSE B[i - 1]]
<1>3. A[1] = a /\ \A i \in 1 .. n + 1 : A[i + 1] = B[i]
  <2>1. \A i \in 1 .. n + 1 : i + 1 - 1 = i /\ i + 1 # 1 /\ i + 1 \in 1 .. n + 2
    BY <1>2
  <2> QED  BY <2>1, <1>2
<1> HIDE DEF n, u, A
<1>4. \A i \in 1 .. Len(u) : Step(u[i], A[i], A[i + 1])
  <2> TAKE i \in 1 .. Len(u)
  <2>1. CASE i = 1
    BY <2>1, <1>1, <1>2, <1>3
  <2>2. CASE i # 1
    <3>1. PICK k \in 1 .. n : i = k + 1
      BY <2>2, <1>2
    <3>2. Step(t[k], B[k], B[k + 1]) /\ k + 1 \in 1 .. n + 1 /\ k \in 1 .. n + 1
      BY <1>1, <1>2, <3>1 DEF n
    <3> QED  BY <3>1, <3>2, <1>2, <1>3
  <2> QED  BY <2>1, <2>2
<1>5. Ended(A[Len(u) + 1])
  BY <1>1, <1>2, <1>3 DEF n
<1> QED  BY <1>3, <1>4, <1>5 DEF Annotated, u

-----------------------------------------------------------------------------
(* Entries of the stack. *)

Entries ==
  {Count(f) : f \in SUBSET Points} \cup {Choose(f) : f \in SUBSET Points}
    \cup {Call(f) : f \in SUBSET Points}
    \cup {Set(v, l) : v \in Vars, l \in Literals}
    \cup {Leave(v, f) : v \in Vars, f \in SUBSET Points}

\* The fields of the entries, of which no two kinds are equal.
LEMMA EntryFacts ==
  /\ \A f : Count(f).op = "count" /\ Count(f).f = f
  /\ \A f : Choose(f).op = "choose" /\ Choose(f).f = f
  /\ \A f : Call(f).op = "call" /\ Call(f).f = f
  /\ \A v, l : Set(v, l).op = "set" /\ Set(v, l).v = v /\ Set(v, l).lit = l
  /\ \A v, f : Leave(v, f).op = "leave" /\ Leave(v, f).v = v /\ Leave(v, f).f = f
  BY DEF Count, Choose, Call, Set, Leave

\* The step of an entry, by its kind.
LEMMA StepOf ==
  ASSUME NEW e, NEW a, NEW b, Step(e, a, b)
  PROVE  /\ a \in Annotations /\ b \in Annotations
         /\ e.op = "count" => e = Count(e.f) /\ CountStep(e.f, a, b)
         /\ e.op = "choose" => e = Choose(e.f) /\ ChooseStep(e.f, a, b)
         /\ e.op = "call" => e = Call(e.f) /\ CallStep(e.f, a, b)
         /\ e.op = "set" => e = Set(e.v, e.lit) /\ e.v \in Vars /\ SetStep(e.v, e.lit, a, b)
         /\ e.op = "leave" => e = Leave(e.v, e.f) /\ LeaveStep(e.v, e.f, a, b)
  BY EntryFacts DEF Step

Occurs(t, e) == \E i \in 1 .. Len(t) : t[i] = e

\* What occurs in a stack is its first entry or occurs below it.
LEMMA OccursPop ==
  ASSUME NEW S, NEW t \in Seq(S), t # <<>>, NEW d
  PROVE  Occurs(t, d) <=> d = Head(t) \/ Occurs(Tail(t), d)
<1> DEFINE n == Len(t)
           u == Tail(t)
<1>1. /\ n \in Nat /\ n # 0 /\ Len(u) = n - 1 /\ Head(t) = t[1]
      /\ \A i \in 1 .. n - 1 : u[i] = t[i + 1]
  OBVIOUS
<1> HIDE DEF n, u
<1>2. ASSUME NEW i \in 1 .. n, t[i] = d PROVE d = Head(t) \/ Occurs(u, d)
  <2>1. CASE i = 1
    BY <2>1, <1>1, <1>2
  <2>2. CASE i # 1
    <3>1. PICK k \in 1 .. n - 1 : i = k + 1
      BY <2>2, <1>1
    <3> QED  BY <3>1, <1>1, <1>2 DEF Occurs
  <2> QED  BY <2>1, <2>2
<1>3. ASSUME NEW k \in 1 .. Len(u), u[k] = d PROVE \E i \in 1 .. n : t[i] = d
  <2>1. k \in 1 .. n - 1 /\ k + 1 \in 1 .. n
    BY <1>1
  <2> QED  BY <2>1, <1>1, <1>3
<1>4. d = Head(t) => \E i \in 1 .. n : t[i] = d
  BY <1>1
<1> QED  BY <1>2, <1>3, <1>4 DEF Occurs, n, u

\* And the same for an entry put before a stack.
LEMMA OccursPush ==
  ASSUME NEW S, NEW t \in Seq(S), NEW e \in S, NEW d
  PROVE  /\ <<e>> \o t \in Seq(S)
         /\ Occurs(<<e>> \o t, d) <=> d = e \/ Occurs(t, d)
<1> DEFINE u == <<e>> \o t
<1>1. u \in Seq(S) /\ u # <<>> /\ Head(u) = e /\ Tail(u) = t
  OBVIOUS
<1> HIDE DEF u
<1>2. Occurs(u, d) <=> d = e \/ Occurs(t, d)
  BY <1>1, OccursPop
<1> QED  BY <1>1, <1>2 DEF u

\* A list of four entries, put one after the other.
LEMMA FourFirst ==
  ASSUME NEW S, NEW t \in Seq(S), NEW q \in Seq(S), Len(q) = 4
  PROVE  q \o t = <<q[1]>> \o (<<q[2]>> \o (<<q[3]>> \o (<<q[4]>> \o t)))
<1> DEFINE t4 == <<q[4]>> \o t
           t3 == <<q[3]>> \o t4
           t2 == <<q[2]>> \o t3
           t1 == <<q[1]>> \o t2
           n == Len(t)
<1>1. q[1] \in S /\ q[2] \in S /\ q[3] \in S /\ q[4] \in S /\ n \in Nat
  <2>1. \A i \in 1 .. 4 : q[i] \in S
    BY ElementOfSeq
  <2> QED  BY <2>1
<1>2. t4 \in Seq(S) /\ Len(t4) = n + 1 /\ t4[1] = q[4] /\ \A i \in 1 .. n : t4[i + 1] = t[i]
  BY <1>1
<1> HIDE DEF t4
<1>3. t3 \in Seq(S) /\ Len(t3) = n + 2 /\ t3[1] = q[3] /\ \A i \in 1 .. n + 1 : t3[i + 1] = t4[i]
  BY <1>1, <1>2
<1> HIDE DEF t3
<1>4. t2 \in Seq(S) /\ Len(t2) = n + 3 /\ t2[1] = q[2] /\ \A i \in 1 .. n + 2 : t2[i + 1] = t3[i]
  BY <1>1, <1>3
<1> HIDE DEF t2
<1>5. t1 \in Seq(S) /\ Len(t1) = n + 4 /\ t1[1] = q[1] /\ \A i \in 1 .. n + 3 : t1[i + 1] = t2[i]
  BY <1>1, <1>4
<1> HIDE DEF t1
<1>6. /\ q \o t \in Seq(S) /\ Len(q \o t) = n + 4
      /\ \A i \in 1 .. 4 : (q \o t)[i] = q[i]
      /\ \A i \in 5 .. n + 4 : (q \o t)[i] = t[i - 4]
  <2>0. /\ q \o t \in Seq(S) /\ Len(q \o t) = Len(q) + Len(t)
        /\ \A i \in 1 .. Len(q) + Len(t) :
             (q \o t)[i] = IF i <= Len(q) THEN q[i] ELSE t[i - Len(q)]
    BY ConcatProperties
  <2>1. /\ q \o t \in Seq(S) /\ Len(q \o t) = 4 + n
        /\ \A i \in 1 .. 4 + n : (q \o t)[i] = IF i <= 4 THEN q[i] ELSE t[i - 4]
    BY <2>0
  <2> HIDE DEF n
  <2> QED  BY <2>1, <1>1
<1> HIDE DEF n
<1>7. ASSUME NEW i \in 1 .. n + 4 PROVE (q \o t)[i] = t1[i]
  <2>1. t1[2] = q[2] /\ t1[3] = q[3] /\ t1[4] = q[4]
    <3>1. /\ 1 \in 1 .. n + 3 /\ 2 \in 1 .. n + 3 /\ 3 \in 1 .. n + 3
          /\ 1 \in 1 .. n + 2 /\ 2 \in 1 .. n + 2 /\ 1 \in 1 .. n + 1
          /\ 1 + 1 = 2 /\ 2 + 1 = 3 /\ 3 + 1 = 4
      BY <1>1
    <3>2. t1[2] = t2[1] /\ t1[3] = t2[2] /\ t1[4] = t2[3]
      BY <1>5, <3>1
    <3>3. t2[2] = t3[1] /\ t2[3] = t3[2] /\ t3[2] = t4[1]
      BY <1>3, <1>4, <3>1
    <3> QED  BY <3>2, <3>3, <1>2, <1>3, <1>4
  <2>2. CASE i \in 1 .. 4
    <3>1. i = 1 \/ i = 2 \/ i = 3 \/ i = 4
      BY <2>2
    <3> QED  BY <2>1, <2>2, <3>1, <1>5, <1>6
  <2>3. CASE i \notin 1 .. 4
    <3>1. PICK k \in 1 .. n : i = k + 1 + 1 + 1 + 1
      BY <2>3, <1>1
    <3>2. k + 1 \in 1 .. n + 1 /\ k + 1 + 1 \in 1 .. n + 2 /\ k + 1 + 1 + 1 \in 1 .. n + 3
      BY <1>1
    <3>3. t1[i] = t[k]
      BY <1>2, <1>3, <1>4, <1>5, <3>1, <3>2
    <3>4. i \in 5 .. n + 4 /\ i - 4 = k
      BY <1>1, <3>1
    <3> QED  BY <1>6, <3>3, <3>4
  <2> QED  BY <2>2, <2>3
<1>8. q \o t = t1
  BY <1>5, <1>6, <1>7, SeqEqual
<1> QED  BY <1>8 DEF t1, t2, t3, t4

-----------------------------------------------------------------------------
(* Nodes and references to them. *)

\* A function and its complement have one node.
LEMMA RegularFacts ==
  ASSUME NEW f \in SUBSET Points
  PROVE  /\ Regular(f) \in SUBSET Points
         /\ Regular(Regular(f)) = Regular(f)
         /\ Regular(Points \ f) = Regular(f)
         /\ Regular(f) = f \/ Regular(f) = Points \ f
  BY ZeroOne DEF Regular

Cofactor(h, K, on) == {x \in Points : (x \ First(K)) \cup on \in h}

\* The nodes below h are its cofactors by first inputs.
LEMMA BelowIs ==
  ASSUME Ordered, NEW h, NEW r
  PROVE  r \in Below(h)
           <=> \E K \in 0 .. NVars : \E on \in SUBSET First(K) : r = Regular(Cofactor(h, K, on))
<1>1. ASSUME NEW K \in 0 .. NVars PROVE ToSet(SubSeq(order, 1, K)) = First(K)
  <2>1. K \in Nat /\ order \in Seq(Vars) /\ K <= Len(order)
    BY NVarsAssumption, WidthAssumption DEF Ordered
  <2>2. /\ DOMAIN SubSeq(order, 1, K) = 1 .. K
        /\ \A i \in 1 .. K : SubSeq(order, 1, K)[i] = order[i]
    BY <2>1
  <2> QED  BY <2>2 DEF ToSet, First
<1> DEFINE by(first) == {Regular({x \in Points : (x \ first) \cup on \in h}) : on \in SUBSET first}
<1>2. Below(h) = UNION {by(first) : first \in {First(K) : K \in 0 .. NVars}}
  BY <1>1 DEF Below
<1>3. ASSUME NEW K \in 0 .. NVars
      PROVE  r \in by(First(K)) <=> \E on \in SUBSET First(K) : r = Regular(Cofactor(h, K, on))
  BY DEF Cofactor
<1> HIDE DEF by
<1>4. r \in Below(h) <=> \E K \in 0 .. NVars : r \in by(First(K))
  BY <1>2
<1> QED  BY <1>3, <1>4

\* A node is below itself.
LEMMA BelowSelf ==
  ASSUME Ordered, NEW h \in SUBSET Points
  PROVE  Regular(h) \in Below(h)
<1>1. First(0) = {} /\ 0 \in 0 .. NVars
  BY NVarsAssumption, WidthAssumption DEF First
<1>2. Cofactor(h, 0, {}) = h
  BY <1>1 DEF Cofactor
<1> QED  BY <1>1, <1>2, BelowIs

\* The nodes below a node are closed under cofactors.
LEMMA BelowBranch ==
  ASSUME Ordered, NEW h \in SUBSET Points, NEW g \in SUBSET Points, g \notin Terminal,
         Regular(g) \in Below(h)
  PROVE  Regular(Branches(g)[1]) \in Below(h) /\ Regular(Branches(g)[2]) \in Below(h)
<1>0. PICK K \in 0 .. NVars :
        \E on \in SUBSET First(K) : Regular(g) = Regular(Cofactor(h, K, on))
  BY BelowIs
<1>1. PICK on \in SUBSET First(K) : Regular(g) = Regular(Cofactor(h, K, on))
  BY <1>0
<1> DEFINE c == Cofactor(h, K, on)
<1>2. c \in SUBSET Points /\ First(K) \in SUBSET Vars
  BY FirstFacts DEF Cofactor
<1>3. g = c \/ g = Points \ c
  <2>1. Regular(g) = g \/ Regular(g) = Points \ g
    BY RegularFacts
  <2>2. Regular(c) = c \/ Regular(c) = Points \ c
    BY RegularFacts, <1>2
  <2>3. Points \ (Points \ g) = g
    OBVIOUS
  <2> QED  BY <2>1, <2>2, <2>3, <1>1, <1>2
<1>4. Indep(c, K)
  <2> SUFFICES ASSUME NEW u \in First(K) PROVE E(c, u) = T(c, u)
    BY DEF Indep
  <2>1. u \in Vars /\ \A x : (x \ {u}) \ First(K) = (x \cup {u}) \ First(K)
    BY <1>2
  <2>2. \A x \in Points : x \ {u} \in Points /\ x \cup {u} \in Points
    BY <2>1 DEF Points
  <2>3. \A x \in Points : x \ {u} \in c <=> x \cup {u} \in c
    BY <2>1, <2>2 DEF Cofactor
  <2> QED  BY <2>1, <2>3, IndepAt
<1> HIDE DEF c
<1>5. Indep(g, K)
  <2> SUFFICES ASSUME NEW u \in First(K) PROVE E(g, u) = T(g, u)
    BY DEF Indep
  <2>1. u \in Vars /\ \A x \in Points : x \ {u} \in Points /\ x \cup {u} \in Points
    BY <1>2 DEF Points
  <2>2. \A x \in Points : x \ {u} \in c <=> x \cup {u} \in c
    BY <1>4, <2>1, IndepAt DEF Indep
  <2>3. \A x \in Points : x \ {u} \in g <=> x \cup {u} \in g
    BY <1>3, <2>1, <2>2
  <2> QED  BY <2>1, <2>3, IndepAt
<1> DEFINE v == Top(g)
           j == Level(g)
<1>6. j \in K + 1 .. NVars /\ v \in Vars /\ v = order[j]
  BY <1>5, LevelFacts
<1>7. j \in 0 .. NVars /\ j \in 1 .. j /\ K \in 0 .. j /\ j > K /\ j \in 1 .. NVars
  BY <1>6, NVarsAssumption, WidthAssumption
<1>8. v \in First(j) /\ v \notin First(K) /\ First(K) \subseteq First(j) /\ First(j) \subseteq Vars
  BY <1>6, <1>7, FirstFacts
<1>9. Branches(g)[1] = E(g, v) /\ Branches(g)[2] = T(g, v)
  BY DEF Branches
<1>10. Indep(E(g, v), j) /\ Indep(T(g, v), j)
  <2>1. 1 \in 1 .. 3 /\ 2 \in 1 .. 3
    OBVIOUS
  <2> QED  BY <2>1, <1>9, BranchFacts
<1> HIDE DEF v, j
<1> DEFINE ce == Cofactor(h, j, on)
           ct == Cofactor(h, j, on \cup {v})
<1>11. ASSUME NEW x \in Points
       PROVE  /\ x \in E(g, v) <=> (x \in ce <=> g = c)
              /\ x \in T(g, v) <=> (x \in ct <=> g = c)
  <2> DEFINE y == x \ First(j)
  <2>1. y \in Points /\ y \ {v} \in Points /\ y \cup {v} \in Points
    BY <1>6 DEF Points
  <2>2. x \in E(g, v) <=> y \in E(g, v)
    BY <1>10, <1>7, IndepPrefix
  <2>3. x \in T(g, v) <=> y \in T(g, v)
    BY <1>10, <1>7, IndepPrefix
  <2>4. (y \ {v}) \ First(K) = y /\ (y \cup {v}) \ First(K) = y \cup {v}
    BY <1>8
  <2>5. y \ {v} \in c <=> x \in ce
    BY <2>1, <2>4, <1>8 DEF c, Cofactor
  <2>6. (y \cup {v}) \cup on = y \cup (on \cup {v})
    OBVIOUS
  <2>7. y \cup {v} \in c <=> x \in ct
    BY <2>1, <2>4, <2>6 DEF c, Cofactor
  <2>8. g = c \/ (g = Points \ c /\ g # c)
    BY <1>3
  <2>9. y \in E(g, v) <=> (y \ {v} \in c <=> g = c)
    BY <2>1, <2>8 DEF E
  <2>10. y \in T(g, v) <=> (y \cup {v} \in c <=> g = c)
    BY <2>1, <2>8 DEF T
  <2> QED  BY <2>2, <2>3, <2>5, <2>7, <2>9, <2>10
<1>12. /\ ce \in SUBSET Points /\ ct \in SUBSET Points
       /\ E(g, v) \in SUBSET Points /\ T(g, v) \in SUBSET Points
  BY DEF Cofactor, E, T
<1>13. on \in SUBSET First(j) /\ on \cup {v} \in SUBSET First(j)
  BY <1>8
<1>14. Regular(ce) \in Below(h) /\ Regular(ct) \in Below(h)
  BY <1>13, <1>7, BelowIs
<1> HIDE DEF ce, ct
<1>15. CASE g = c
  <2>1. \A x \in Points : (x \in E(g, v) <=> x \in ce) /\ (x \in T(g, v) <=> x \in ct)
    BY <1>11, <1>15
  <2>2. E(g, v) = ce /\ T(g, v) = ct
    BY <2>1, <1>12
  <2> QED  BY <2>2, <1>9, <1>14
<1>16. CASE g # c
  <2>1. E(g, v) = Points \ ce /\ T(g, v) = Points \ ct
    BY <1>11, <1>12, <1>16
  <2>2. Regular(Points \ ce) = Regular(ce) /\ Regular(Points \ ct) = Regular(ct)
    BY <1>12, RegularFacts
  <2> QED  BY <2>1, <2>2, <1>9, <1>14
<1> QED  BY <1>15, <1>16

\* The number of references held to a node.
Copies(r, b) == IF r \in DOMAIN b THEN b[r] ELSE 0

References(b) ==
  DOMAIN b \in SUBSET SUBSET Points /\ b \in [DOMAIN b -> Nat \ {0}]

\* Cudd_Ref adds one reference to one node.
LEMMA ReferenceAdded ==
  ASSUME NEW b, References(b), NEW f \in SUBSET Points, NEW r
  PROVE  /\ References(b (+) Ref(f))
         /\ Copies(r, b) \in Nat
         /\ Copies(r, b (+) Ref(f)) = Copies(r, b) + (IF r = Regular(f) THEN 1 ELSE 0)
<1> DEFINE D == DOMAIN b
           c == b (+) Ref(f)
<1>1. D \in SUBSET SUBSET Points /\ b \in [D -> Nat \ {0}]
  BY DEF References
<1>2. c = [e \in D \cup {Regular(f)} |-> (IF e \in D THEN b[e] ELSE 0)
                                          + (IF e \in {Regular(f)} THEN 1 ELSE 0)]
  BY DEF (+), Ref, SetToBag
<1> HIDE DEF D, c
<1>3. c \in [D \cup {Regular(f)} -> Nat \ {0}]
  BY <1>1, <1>2
<1>4. D \cup {Regular(f)} \in SUBSET SUBSET Points
  BY <1>1, RegularFacts
<1>5. References(c)
  BY <1>3, <1>4 DEF References
<1>6. Copies(r, b) \in Nat /\ Copies(r, c) = Copies(r, b) + (IF r = Regular(f) THEN 1 ELSE 0)
  BY <1>1, <1>2 DEF Copies, D
<1> QED  BY <1>5, <1>6 DEF c

\* Cudd_RecursiveDeref takes one reference from one node that has some.
LEMMA ReferenceGiven ==
  ASSUME NEW b, References(b), NEW f \in SUBSET Points, NEW r,
         Copies(Regular(f), b) >= 1
  PROVE  /\ References(b (-) Ref(f))
         /\ Copies(r, b) \in Nat
         /\ Copies(r, b (-) Ref(f)) = Copies(r, b) - (IF r = Regular(f) THEN 1 ELSE 0)
<1> DEFINE D == DOMAIN b
           B == [e \in D |-> IF e \in {Regular(f)} THEN b[e] - 1 ELSE b[e]]
           F == {d \in D : B[d] > 0}
           c == b (-) Ref(f)
<1>1. D \in SUBSET SUBSET Points /\ b \in [D -> Nat \ {0}]
  BY DEF References
<1>2. c = [e \in F |-> B[e]]
  BY DEF (-), Ref, SetToBag
<1>3. \A e \in D : B[e] \in Nat
  BY <1>1
<1>4. F \in SUBSET SUBSET Points /\ c \in [F -> Nat \ {0}]
  BY <1>1, <1>2, <1>3
<1>5. References(c)
  BY <1>4 DEF References
<1>6. Copies(r, b) \in Nat
  BY <1>1 DEF Copies
<1>7. Copies(r, c) = IF r \in F THEN B[r] ELSE 0
  BY <1>2 DEF Copies
<1>8. r \in D => B[r] = b[r] - (IF r = Regular(f) THEN 1 ELSE 0)
  BY <1>1
<1>9. r \in F <=> r \in D /\ B[r] > 0
  OBVIOUS
<1>10. Copies(r, b) = IF r \in D THEN b[r] ELSE 0
  BY DEF Copies
<1>11. Regular(f) \in D
  BY DEF Copies
<1> HIDE DEF D, B, F, c
<1>12. Copies(r, c) = Copies(r, b) - (IF r = Regular(f) THEN 1 ELSE 0)
  BY <1>3, <1>7, <1>8, <1>9, <1>10, <1>11, <1>1
<1> QED  BY <1>5, <1>6, <1>12 DEF c

-----------------------------------------------------------------------------
(* The inductive invariant. *)

Types ==
  /\ pc \in {"extract", "generate", "done"}
  /\ bdd \in Outputs /\ order \in Orders
  /\ fncts \in Seq(SUBSET Cubes) /\ Len(fncts) <= Len(bdd)
  /\ m_esop \in SUBSET Cubes
  /\ todo \in Seq(Entries)
  /\ m_vars \in Seq(Vars) /\ m_var_values \in [Vars -> Literals]
  /\ References(refs)
  /\ pc # "generate" => todo = <<>>
  /\ pc = "generate" => Len(fncts) < Len(bdd) /\ bdd[Len(fncts) + 1] # {}
  /\ pc = "done" => Len(fncts) = Len(bdd)

\* What the counted nodes cost, and that their branches have been counted.
Costs ==
  \A g \in DOMAIN m_exp_costs :
    /\ g \in SUBSET Points /\ g \notin Terminal
    /\ \A i \in 1 .. 3 : Branches(g)[i] \in Terminal \cup DOMAIN m_exp_costs
    /\ m_exp_costs[g] = Expand(Least[Branches(g)[1]], Least[Branches(g)[2]],
                               Least[Branches(g)[3]])

\* The ESOPs extracted.
Results ==
  \A k \in 1 .. Len(fncts) : /\ EsopOf(fncts[k]) = UNION bdd[k]
                             /\ Cardinality(fncts[k]) = Least[UNION bdd[k]]

\* The nodes opened by count_cubes, the XORs of their branches, to which
\* references are kept, and the nodes that CUDD keeps therefore.
Opened  == DOMAIN m_exp_costs \cup {f \in SUBSET Points : Occurs(todo, Choose(f))}
Pending == {f \in SUBSET Points : Occurs(todo, Count(f))}
Shared  == {Regular(Branches(g)[3]) : g \in Opened}

Nodes ==
  \A f \in Opened \cup Pending :
    /\ f \in SUBSET Points
    /\ \E h \in (UNION ToSet(bdd)) \cup Shared : Regular(f) \in Below(h)

\* The annotation of the present moment.
Target == UNION bdd[Len(fncts) + 1]

PathAt(a) == m_var_values = a.env /\ m_vars = a.path
WorkAt(a) == /\ m_esop \subseteq a.used
             /\ SymDiff(EsopOf(m_esop), a.rest) = Target
             /\ Cardinality(m_esop) + a.left = Least[Target]
SeenAt(a) == a.seen \subseteq Terminal \cup DOMAIN m_exp_costs
HeldAt(a) == \A r \in SUBSET Points :
               /\ Copies(r, refs) >= a.held[r]
               /\ r \in Shared => Copies(r, refs) >= a.held[r] + 1

Undone ==
  IF pc = "generate"
  THEN \E t, a : /\ t = todo /\ a \in Annotations /\ Annotated(t, a)
                 /\ PathAt(a) /\ WorkAt(a) /\ SeenAt(a) /\ HeldAt(a)
  ELSE m_vars = <<>> /\ \A v \in Vars : m_var_values[v] = "UNUSED"

IInv == Types /\ Costs /\ Results /\ Nodes /\ Undone

\* Nothing that depends on the order of the inputs only changes.
LEMMA OrderKept ==
  ASSUME order' = order
  PROVE  /\ \A f : Branches(f)' = Branches(f)
         /\ Least' = Least
         /\ \A f : Below(f)' = Below(f)
         /\ \A e, a, b : Step(e, a, b)' <=> Step(e, a, b)
         /\ \A t, a : Annotated(t, a)' <=> Annotated(t, a)
<1>1. \A f, v : E(f, v)' = E(f, v) /\ T(f, v)' = T(f, v)
  BY DEF E, T
<1>2. \A f : Level(f)' = Level(f)
  BY DEF Level
<1>3. \A f : Top(f)' = Top(f)
  BY <1>2 DEF Top
<1>4. \A f : Branches(f)' = Branches(f)
  BY <1>3 DEF Branches
<1>5. Least' = Least
  <2>1. Least = CHOOSE h : h = [f \in SUBSET Points |-> LeastFrom(h, f)]
    BY DEF Least, LeastFrom
  <2>2. \A h, f : LeastFrom(h, f)' = LeastFrom(h, f)
    BY <1>4 DEF LeastFrom
  <2>3. Least' = CHOOSE h : h = [f \in SUBSET Points |-> LeastFrom(h, f)']
    BY <2>1 DEF Least, LeastFrom
  <2> QED  BY <2>1, <2>2, <2>3
<1>6. \A f : Below(f)' = Below(f)
  BY DEF Below
<1>7. \A K : First(K)' = First(K)
  BY DEF First
<1>8. \A g, K : Indep(g, K)' <=> Indep(g, K)
  BY <1>7 DEF Indep
<1>9. \A env, K : Agreeing(env, K)' = Agreeing(env, K)
  BY <1>7 DEF Agreeing
<1>10. \A f, a, b : ChooseStep(f, a, b)' <=> ChooseStep(f, a, b)
  BY <1>4 DEF ChooseStep, Terminal
<1>11. \A f, a, b : CallStep(f, a, b)' <=> CallStep(f, a, b)
  BY <1>5, <1>7, <1>8, <1>9 DEF CallStep
<1>12. \A e, a, b : Step(e, a, b)' <=> Step(e, a, b)
  BY <1>10, <1>11 DEF Step
<1>13. \A t, a : Annotated(t, a)' <=> Annotated(t, a)
  BY <1>12 DEF Annotated
<1> QED  BY <1>4, <1>5, <1>6, <1>12, <1>13

\* What the types say of the outputs and of the order.
LEMMA OutputFacts ==
  ASSUME Types
  PROVE  /\ Ordered /\ Len(bdd) \in Nat /\ Len(fncts) \in Nat
         /\ \A k \in 1 .. Len(bdd) :
              /\ \A f \in bdd[k] : f \in SUBSET Points /\ bdd[k] = {f} /\ f \in UNION ToSet(bdd)
              /\ UNION bdd[k] \in SUBSET Points
         /\ \A f \in UNION ToSet(bdd) : f \in SUBSET Points
<1>1. Ordered
  BY OrdersAreListings DEF Types
<1>2. bdd \in Seq({{f} : f \in SUBSET Points} \cup {{}}) /\ fncts \in Seq(SUBSET Cubes)
  BY OutputsAssumption DEF Types
<1>3. Len(bdd) \in Nat /\ DOMAIN bdd = 1 .. Len(bdd) /\ Len(fncts) \in Nat
  BY <1>2
<1>4. \A k \in 1 .. Len(bdd) : bdd[k] \in {{f} : f \in SUBSET Points} \cup {{}}
  <2> DEFINE S == {{f} : f \in SUBSET Points} \cup {{}}
  <2>1. bdd \in Seq(S)
    BY <1>2
  <2> HIDE DEF S
  <2>2. \A k \in 1 .. Len(bdd) : bdd[k] \in S
    BY <2>1
  <2> QED  BY <2>2 DEF S
<1>5. \A k \in 1 .. Len(bdd) :
        \A f \in bdd[k] : f \in SUBSET Points /\ bdd[k] = {f} /\ f \in UNION ToSet(bdd)
  BY <1>3, <1>4 DEF ToSet
<1>6. \A k \in 1 .. Len(bdd) : UNION bdd[k] \in SUBSET Points
  BY <1>5
<1>7. \A f \in UNION ToSet(bdd) : f \in SUBSET Points
  BY <1>3, <1>5 DEF ToSet
<1> QED  BY <1>1, <1>3, <1>5, <1>6, <1>7

\* The first entry of the stack, and the annotations before and after it.
LEMMA Doings ==
  ASSUME Types, Undone, pc = "generate", todo # <<>>
  PROVE  \E a, b : /\ a \in Annotations /\ b \in Annotations
                   /\ PathAt(a) /\ WorkAt(a) /\ SeenAt(a) /\ HeldAt(a)
                   /\ Step(Head(todo), a, b) /\ Annotated(Tail(todo), b)
                   /\ Head(todo) \in Entries /\ Tail(todo) \in Seq(Entries)
<1>1. PICK a : /\ a \in Annotations /\ Annotated(todo, a)
               /\ PathAt(a) /\ WorkAt(a) /\ SeenAt(a) /\ HeldAt(a)
  BY DEF Undone
<1>2. todo \in Seq(Entries)
  BY DEF Types
<1>3. PICK b : Step(Head(todo), a, b) /\ Annotated(Tail(todo), b)
  BY <1>1, <1>2, AnnotatedPop
<1>4. Head(todo) \in Entries /\ Tail(todo) \in Seq(Entries)
  BY <1>2
<1>5. b \in Annotations
  BY <1>3 DEF Step
<1> QED  BY <1>1, <1>3, <1>4, <1>5

-----------------------------------------------------------------------------
(* Parts of a step. *)

\* A branch is a function, of whatever it is the branch.
LEMMA BranchSets ==
  ASSUME NEW f, NEW i \in 1 .. 3
  PROVE  Branches(f)[i] \in SUBSET Points
<1>1. /\ E(f, Top(f)) \in SUBSET Points /\ T(f, Top(f)) \in SUBSET Points
      /\ SymDiff(E(f, Top(f)), T(f, Top(f))) \in SUBSET Points
  BY DEF E, T, SymDiff
<1>2. i = 1 \/ i = 2 \/ i = 3
  OBVIOUS
<1> QED  BY <1>1, <1>2 DEF Branches

\* The outputs, the order and the results stay.
LEMMA FrameKept ==
  ASSUME Costs, Results, order' = order, bdd' = bdd
  PROVE  /\ m_exp_costs' = m_exp_costs => Costs'
         /\ fncts' = fncts => Results'
<1>1. ASSUME m_exp_costs' = m_exp_costs PROVE Costs'
  BY <1>1, OrderKept DEF Costs, Terminal
<1>2. ASSUME fncts' = fncts PROVE Results'
  BY <1>2, OrderKept DEF Results
<1> QED  BY <1>1, <1>2

\* The nodes shared, after a step that keeps the order.
LEMMA SharedKept ==
  ASSUME order' = order
  PROVE  Shared' = {Regular(Branches(f)[3]) : f \in Opened'}
<1>1. \A f : Regular(Branches(f)[3])' = Regular(Branches(f)[3])
  BY OrderKept DEF Regular
<1> QED  BY <1>1 DEF Shared

\* If nothing is opened or closed, the nodes CUDD keeps stay.
LEMMA NodesStay ==
  ASSUME Nodes, order' = order, bdd' = bdd, Opened' = Opened, Pending' \subseteq Pending
  PROVE  Nodes' /\ Shared' = Shared
<1>1. Shared' = Shared
  BY SharedKept DEF Shared
<1>2. \A f : Below(f)' = Below(f)
  BY OrderKept
<1>3. \A f \in Opened' \cup Pending' :
        /\ f \in SUBSET Points
        /\ \E h \in (UNION ToSet(bdd')) \cup Shared' : Regular(f) \in Below(h)'
  BY <1>1, <1>2 DEF Nodes
<1> QED  BY <1>1, <1>3 DEF Nodes

\* Nothing is opened, and nothing but the first entry is gone.
LEMMA StackPopped ==
  ASSUME Types, Nodes, order' = order, bdd' = bdd, m_exp_costs' = m_exp_costs,
         todo # <<>>, todo' = Tail(todo), \A f : Head(todo) # Choose(f)
  PROVE  Nodes' /\ Shared' = Shared
<1>1. todo \in Seq(Entries)
  BY DEF Types
<1>2. \A d : Occurs(todo, d) <=> d = Head(todo) \/ Occurs(Tail(todo), d)
  BY <1>1, OccursPop
<1>3. Opened' = DOMAIN m_exp_costs \cup {f \in SUBSET Points : Occurs(Tail(todo), Choose(f))}
  BY DEF Opened
<1>4. Pending' = {f \in SUBSET Points : Occurs(Tail(todo), Count(f))}
  BY DEF Pending
<1>5. Opened' = Opened
  BY <1>2, <1>3 DEF Opened
<1>6. Pending' \subseteq Pending
  BY <1>2, <1>4 DEF Pending
<1> QED  BY <1>5, <1>6, NodesStay

\* An annotation of the stack after a step is what Undone asks for.
LEMMA UndoneNext ==
  ASSUME order' = order, pc' = "generate", NEW t, t = todo', NEW b \in Annotations,
         Annotated(t, b), PathAt(b)', WorkAt(b)', SeenAt(b)', HeldAt(b)'
  PROVE  Undone'
<1>1. Annotated(t, b)'
  BY OrderKept
<1> QED  BY <1>1 DEF Undone

\* The function under way stays until it has been extracted.
LEMMA TargetKept ==
  ASSUME order' = order, bdd' = bdd, fncts' = fncts
  PROVE  Target' = Target /\ Least'[Target'] = Least[Target]
  BY OrderKept DEF Target

\* A step that leaves m_esop alone may move to an annotation of the same work.
LEMMA WorkMoved ==
  ASSUME NEW a, NEW b, WorkAt(a), SameWork(a, b),
         order' = order, bdd' = bdd, fncts' = fncts, m_esop' = m_esop
  PROVE  WorkAt(b)'
<1>1. Target' = Target /\ Least'[Target'] = Least[Target]
  BY TargetKept
<1>2. /\ m_esop' \subseteq b.used
      /\ SymDiff(EsopOf(m_esop'), b.rest) = Target'
      /\ Cardinality(m_esop') + b.left = Least'[Target']
  BY <1>1 DEF WorkAt, SameWork
<1>3. EsopOf(m_esop)' = EsopOf(m_esop') /\ Cardinality(m_esop)' = Cardinality(m_esop')
  BY DEF EsopOf
<1> QED  BY <1>2, <1>3 DEF WorkAt

\* A step that leaves the references alone may move to one with the same frames.
LEMMA HeldMoved ==
  ASSUME NEW a, NEW b, HeldAt(a), a.held = b.held, refs' = refs, Shared' = Shared
  PROVE  HeldAt(b)'
  BY DEF HeldAt, Copies

-----------------------------------------------------------------------------
(* The steps of count_cubes. *)

\* A leaf, or a node counted before, changes nothing.
LEMMA CountKnownKeeps ==
  ASSUME IInv, CountKnown
  PROVE  IInv'
<1>0. Types /\ Costs /\ Results /\ Nodes /\ Undone
  BY DEF IInv
<1>1. /\ pc = "generate" /\ todo # <<>> /\ Head(todo).op = "count"
      /\ node \in Terminal \cup DOMAIN m_exp_costs /\ todo' = Tail(todo)
      /\ pc' = pc /\ bdd' = bdd /\ order' = order /\ fncts' = fncts /\ m_vars' = m_vars
      /\ m_var_values' = m_var_values /\ m_exp_costs' = m_exp_costs
      /\ m_esop' = m_esop /\ refs' = refs
  BY DEF CountKnown, Doing
<1>2. PICK a, b : /\ a \in Annotations /\ b \in Annotations
                  /\ PathAt(a) /\ WorkAt(a) /\ SeenAt(a) /\ HeldAt(a)
                  /\ Step(Head(todo), a, b) /\ Annotated(Tail(todo), b)
                  /\ Head(todo) \in Entries /\ Tail(todo) \in Seq(Entries)
  BY <1>0, <1>1, Doings
<1>3. Head(todo) = Count(node) /\ CountStep(node, a, b)
  BY <1>1, <1>2, StepOf DEF node
<1>4. Types'
  BY <1>0, <1>1, <1>2 DEF Types
<1>5. Nodes' /\ Shared' = Shared
  <2>1. \A f : Head(todo) # Choose(f)
    BY <1>3, EntryFacts
  <2> QED  BY <2>1, <1>0, <1>1, StackPopped
<1>6. PathAt(b)' /\ SeenAt(b)'
  BY <1>1, <1>2, <1>3 DEF PathAt, SeenAt, CountStep, SamePath, Terminal
<1>7. WorkAt(b)'
  BY <1>1, <1>2, <1>3, WorkMoved DEF CountStep
<1>8. HeldAt(b)'
  BY <1>1, <1>2, <1>3, <1>5, HeldMoved DEF CountStep, SamePath
<1>9. Undone'
  BY <1>1, <1>2, <1>6, <1>7, <1>8, UndoneNext
<1> QED  BY <1>0, <1>1, <1>4, <1>5, <1>9, FrameKept DEF IInv

\* The branches of a counted node cost what is written down for them.
LEMMA CostIsLeast ==
  ASSUME Ordered, Costs, NEW g \in Terminal \cup DOMAIN m_exp_costs
  PROVE  Cost(g) = Least[g]
<1>1. CASE g \in Terminal
  <2>1. g \in SUBSET Points /\ Least[g] = LeastFrom(Least, g)
    BY <1>1, ZeroOne, LeastFacts
  <2>2. LeastFrom(Least, g) = IF g = Zero THEN 0 ELSE 1
    BY <1>1, ZeroOne, <2>1, LeastFromFacts
  <2>3. Cost(g) = IF g = Zero THEN 0 ELSE 1
    BY <1>1, ZeroOne DEF Cost
  <2> QED  BY <2>1, <2>2, <2>3
<1>2. CASE g \notin Terminal
  <2>1. g \in DOMAIN m_exp_costs /\ g \in SUBSET Points
    BY <1>2 DEF Costs
  <2>2. Cost(g) = m_exp_costs[g][2]
    BY <1>2, ZeroOne DEF Cost
  <2>3. m_exp_costs[g] = Expand(Least[Branches(g)[1]], Least[Branches(g)[2]],
                                Least[Branches(g)[3]])
    BY <2>1 DEF Costs
  <2>4. Least[g] = Expand(Least[Branches(g)[1]], Least[Branches(g)[2]],
                          Least[Branches(g)[3]])[2]
    BY <1>2, <2>1, LeastOfNode
  <2> QED  BY <2>2, <2>3, <2>4
<1> QED  BY <1>1, <1>2

\* The cost of a node is written down when those of its branches are known.
LEMMA ChooseKeeps ==
  ASSUME IInv, ChooseExpansion
  PROVE  IInv'
<1>0. Types /\ Costs /\ Results /\ Nodes /\ Undone
  BY DEF IInv
<1> DEFINE n == node
           e == Expand(Cost(Branches(n)[1]), Cost(Branches(n)[2]), Cost(Branches(n)[3]))
<1>1. /\ pc = "generate" /\ todo # <<>> /\ Head(todo).op = "choose" /\ todo' = Tail(todo)
      /\ m_exp_costs' = [g \in DOMAIN m_exp_costs \cup {n} |->
                           IF g = n THEN e ELSE m_exp_costs[g]]
      /\ pc' = pc /\ bdd' = bdd /\ order' = order /\ fncts' = fncts /\ m_vars' = m_vars
      /\ m_var_values' = m_var_values /\ m_esop' = m_esop /\ refs' = refs
  BY DEF ChooseExpansion, Doing, Recorded
<1>2. PICK a, b : /\ a \in Annotations /\ b \in Annotations
                  /\ PathAt(a) /\ WorkAt(a) /\ SeenAt(a) /\ HeldAt(a)
                  /\ Step(Head(todo), a, b) /\ Annotated(Tail(todo), b)
                  /\ Head(todo) \in Entries /\ Tail(todo) \in Seq(Entries)
  BY <1>0, <1>1, Doings
<1>3. Head(todo) = Choose(n) /\ ChooseStep(n, a, b)
  BY <1>1, <1>2, StepOf DEF node
<1>4. Types'
  BY <1>0, <1>1, <1>2 DEF Types
<1>5. \A i \in 1 .. 3 : Branches(n)[i] \in Terminal \cup DOMAIN m_exp_costs
  BY <1>2, <1>3 DEF ChooseStep, SeenAt
<1>6. e = Expand(Least[Branches(n)[1]], Least[Branches(n)[2]], Least[Branches(n)[3]])
  <2>1. Ordered /\ 1 \in 1 .. 3 /\ 2 \in 1 .. 3 /\ 3 \in 1 .. 3
    BY <1>0, OutputFacts
  <2> QED  BY <2>1, <1>0, <1>5, CostIsLeast
<1>7. n \in SUBSET Points /\ n \notin Terminal
  BY <1>3 DEF ChooseStep
<1> HIDE DEF n, e
<1>8. /\ DOMAIN m_exp_costs' = DOMAIN m_exp_costs \cup {n} /\ m_exp_costs'[n] = e
      /\ \A g \in DOMAIN m_exp_costs : g # n => m_exp_costs'[g] = m_exp_costs[g]
  BY <1>1
<1>9. Costs'
  <2>1. \A f : Branches(f)' = Branches(f)
    BY <1>1, OrderKept
  <2>2. Least' = Least
    BY <1>1, OrderKept
  <2>3. ASSUME NEW g \in DOMAIN m_exp_costs'
        PROVE  /\ g \in SUBSET Points /\ g \notin Terminal
               /\ \A i \in 1 .. 3 : Branches(g)[i] \in Terminal \cup DOMAIN m_exp_costs'
               /\ m_exp_costs'[g] = Expand(Least[Branches(g)[1]], Least[Branches(g)[2]],
                                           Least[Branches(g)[3]])
    <3>1. CASE g = n
      BY <3>1, <1>5, <1>6, <1>7, <1>8
    <3>2. CASE g # n
      <4>1. g \in DOMAIN m_exp_costs
        BY <3>2, <1>8
      <4> QED  BY <4>1, <3>2, <1>0, <1>8 DEF Costs
    <3> QED  BY <3>1, <3>2
  <2> QED  BY <2>1, <2>2, <2>3 DEF Costs, Terminal
<1>10. Nodes' /\ Shared' = Shared
  <2>1. todo \in Seq(Entries)
    BY <1>0 DEF Types
  <2>2. \A d : Occurs(todo, d) <=> d = Head(todo) \/ Occurs(Tail(todo), d)
    BY <1>1, <2>1, OccursPop
  <2>3. Opened' = DOMAIN m_exp_costs \cup {n}
                    \cup {f \in SUBSET Points : Occurs(Tail(todo), Choose(f))}
    BY <1>1, <1>8 DEF Opened
  <2>4. Pending' = {f \in SUBSET Points : Occurs(Tail(todo), Count(f))}
    BY <1>1 DEF Pending
  <2>5. \A f : Choose(f) = Head(todo) <=> f = n
    BY <1>3, EntryFacts
  <2>6. Opened' = Opened
    BY <2>2, <2>3, <2>5, <1>7 DEF Opened
  <2>7. Pending' \subseteq Pending
    BY <2>2, <2>4 DEF Pending
  <2> QED  BY <2>6, <2>7, <1>0, <1>1, NodesStay
<1>11. PathAt(b)'
  BY <1>1, <1>2, <1>3 DEF PathAt, ChooseStep, SamePath
<1>12. SeenAt(b)'
  BY <1>2, <1>3, <1>8 DEF SeenAt, ChooseStep, Terminal
<1>13. WorkAt(b)'
  BY <1>1, <1>2, <1>3, WorkMoved DEF ChooseStep
<1>14. HeldAt(b)'
  BY <1>1, <1>2, <1>3, <1>10, HeldMoved DEF ChooseStep, SamePath
<1>15. Undone'
  BY <1>1, <1>2, <1>11, <1>12, <1>13, <1>14, UndoneNext
<1> QED  BY <1>0, <1>1, <1>4, <1>9, <1>10, <1>15, FrameKept DEF IInv

\* The annotations between the calls for the three branches.
LEMMA CountsPushed ==
  ASSUME NEW t \in Seq(Entries), NEW n \in SUBSET Points, n \notin Terminal,
         NEW a \in Annotations, NEW b \in Annotations, CountStep(n, a, b), Annotated(t, b),
         NEW b1 \in SUBSET Points, NEW b2 \in SUBSET Points, NEW b3 \in SUBSET Points,
         Branches(n) = <<b1, b2, b3>>
  PROVE  LET u == <<Count(b1), Count(b2), Count(b3), Choose(n)>> \o t IN
           /\ u \in Seq(Entries) /\ Annotated(u, a)
           /\ \A f : Occurs(u, Choose(f)) <=> f = n \/ Occurs(t, Choose(f))
           /\ \A f : Occurs(u, Count(f)) <=> f \in {b1, b2, b3} \/ Occurs(t, Count(f))
<1> DEFINE a1 == [a EXCEPT !.seen = @ \cup {b1}]
           a2 == [a EXCEPT !.seen = @ \cup {b1, b2}]
           a3 == [a EXCEPT !.seen = @ \cup {b1, b2, b3}]
           t4 == <<Choose(n)>> \o t
           t3 == <<Count(b3)>> \o t4
           t2 == <<Count(b2)>> \o t3
           t1 == <<Count(b1)>> \o t2
<1>1. a1 \in Annotations /\ a2 \in Annotations /\ a3 \in Annotations
  BY DEF Annotations
<1>2. /\ Count(b1) \in Entries /\ Count(b2) \in Entries /\ Count(b3) \in Entries
      /\ Choose(n) \in Entries
  BY DEF Entries
<1>3. ChooseStep(n, a3, b)
  <2>1. \A i \in 1 .. 3 : Branches(n)[i] \in {b1, b2, b3}
    OBVIOUS
  <2> QED  BY <2>1 DEF ChooseStep, CountStep, SamePath, SameWork, Annotations
<1>4. CountStep(b3, a2, a3) /\ CountStep(b2, a1, a2) /\ CountStep(b1, a, a1)
  BY DEF CountStep, SamePath, SameWork, Annotations
<1> HIDE DEF a1, a2, a3
<1>5. Step(Choose(n), a3, b)
  BY <1>1, <1>3 DEF Step
<1>6. Step(Count(b3), a2, a3) /\ Step(Count(b2), a1, a2) /\ Step(Count(b1), a, a1)
  BY <1>1, <1>4 DEF Step
<1>7. t4 \in Seq(Entries) /\ Annotated(t4, a3)
  BY <1>2, <1>5, AnnotatedPush, OccursPush
<1>8. \A d : Occurs(t4, d) <=> d = Choose(n) \/ Occurs(t, d)
  BY <1>2, OccursPush
<1> HIDE DEF t4
<1>9. t3 \in Seq(Entries) /\ Annotated(t3, a2)
  BY <1>2, <1>6, <1>7, AnnotatedPush, OccursPush
<1>10. \A d : Occurs(t3, d) <=> d = Count(b3) \/ Occurs(t4, d)
  BY <1>2, <1>7, OccursPush
<1> HIDE DEF t3
<1>11. t2 \in Seq(Entries) /\ Annotated(t2, a1)
  BY <1>2, <1>6, <1>9, AnnotatedPush, OccursPush
<1>12. \A d : Occurs(t2, d) <=> d = Count(b2) \/ Occurs(t3, d)
  BY <1>2, <1>9, OccursPush
<1> HIDE DEF t2
<1>13. t1 \in Seq(Entries) /\ Annotated(t1, a)
  BY <1>2, <1>6, <1>11, AnnotatedPush, OccursPush
<1>14. \A d : Occurs(t1, d) <=> d = Count(b1) \/ Occurs(t2, d)
  BY <1>2, <1>11, OccursPush
<1> HIDE DEF t1
<1>15. t1 = <<Count(b1), Count(b2), Count(b3), Choose(n)>> \o t
  <2> DEFINE e1 == Count(b1)
             e2 == Count(b2)
             e3 == Count(b3)
             e4 == Choose(n)
  <2>1. /\ e1 \in Entries /\ e2 \in Entries /\ e3 \in Entries /\ e4 \in Entries
        /\ t1 = <<e1>> \o (<<e2>> \o (<<e3>> \o (<<e4>> \o t)))
    BY <1>2 DEF t1, t2, t3, t4
  <2> HIDE DEF e1, e2, e3, e4
  <2> DEFINE q == <<e1, e2, e3, e4>>
  <2>2. q \in Seq(Entries) /\ Len(q) = 4 /\ q[1] = e1 /\ q[2] = e2 /\ q[3] = e3 /\ q[4] = e4
    BY <2>1
  <2> HIDE DEF q
  <2>3. t1 = q \o t
    BY <2>1, <2>2, FourFirst
  <2> QED  BY <2>3 DEF q, e1, e2, e3, e4
<1>16. \A f : Occurs(t1, Choose(f)) <=> f = n \/ Occurs(t, Choose(f))
  BY <1>8, <1>10, <1>12, <1>14, EntryFacts
<1>17. \A f : Occurs(t1, Count(f)) <=> f \in {b1, b2, b3} \/ Occurs(t, Count(f))
  BY <1>8, <1>10, <1>12, <1>14, EntryFacts
<1> QED  BY <1>13, <1>15, <1>16, <1>17

\* A node is opened: a reference to the XOR of its branches keeps what is
\* below it.
LEMMA CountNodeKeeps ==
  ASSUME IInv, CountNode
  PROVE  IInv'
<1>0. Types /\ Costs /\ Results /\ Nodes /\ Undone
  BY DEF IInv
<1> DEFINE n == node
           b1 == Branches(n)[1]
           b2 == Branches(n)[2]
           b3 == Branches(n)[3]
           t == Tail(todo)
<1>1. /\ pc = "generate" /\ todo # <<>> /\ Head(todo).op = "count"
      /\ n \notin Terminal \cup DOMAIN m_exp_costs
      /\ todo' = <<Count(b1), Count(b2), Count(b3), Choose(n)>> \o t
      /\ refs' = refs (+) Ref(b3)
      /\ pc' = pc /\ bdd' = bdd /\ order' = order /\ fncts' = fncts /\ m_vars' = m_vars
      /\ m_var_values' = m_var_values /\ m_exp_costs' = m_exp_costs /\ m_esop' = m_esop
  BY DEF CountNode, Doing
<1>2. PICK a, b : /\ a \in Annotations /\ b \in Annotations
                  /\ PathAt(a) /\ WorkAt(a) /\ SeenAt(a) /\ HeldAt(a)
                  /\ Step(Head(todo), a, b) /\ Annotated(t, b)
                  /\ Head(todo) \in Entries /\ t \in Seq(Entries)
  BY <1>0, <1>1, Doings
<1>3. Head(todo) = Count(n) /\ CountStep(n, a, b) /\ n \in SUBSET Points /\ n \notin Terminal
  <2>1. Head(todo) = Count(n) /\ CountStep(n, a, b)
    BY <1>1, <1>2, StepOf DEF node
  <2> QED  BY <2>1, <1>1 DEF CountStep
<1>4. /\ b1 \in SUBSET Points /\ b2 \in SUBSET Points /\ b3 \in SUBSET Points
      /\ Branches(n) = <<b1, b2, b3>>
  <2>1. 1 \in 1 .. 3 /\ 2 \in 1 .. 3 /\ 3 \in 1 .. 3
    OBVIOUS
  <2> QED  BY <2>1, BranchSets DEF Branches
<1> HIDE DEF n, b1, b2, b3, t
<1>5. PICK u : u = <<Count(b1), Count(b2), Count(b3), Choose(n)>> \o t
  OBVIOUS
<1>6. /\ u \in Seq(Entries) /\ Annotated(u, a)
      /\ \A f : Occurs(u, Choose(f)) <=> f = n \/ Occurs(t, Choose(f))
      /\ \A f : Occurs(u, Count(f)) <=> f \in {b1, b2, b3} \/ Occurs(t, Count(f))
  BY <1>2, <1>3, <1>4, <1>5, CountsPushed
<1>7. todo' = u
  BY <1>1, <1>5
<1>8. References(refs)
  BY <1>0 DEF Types
<1>9. /\ References(refs')
      /\ \A r : /\ Copies(r, refs) \in Nat
                /\ Copies(r, refs') = Copies(r, refs) + (IF r = Regular(b3) THEN 1 ELSE 0)
  BY <1>1, <1>4, <1>8, ReferenceAdded
<1>10. Types'
  BY <1>0, <1>1, <1>6, <1>7, <1>9 DEF Types
<1>11. \A d : Occurs(todo, d) <=> d = Head(todo) \/ Occurs(t, d)
  <2>1. todo \in Seq(Entries)
    BY <1>0 DEF Types
  <2> QED  BY <1>1, <2>1, OccursPop DEF t
<1>12. Opened' = Opened \cup {n}
  <2>1. Opened' = DOMAIN m_exp_costs \cup {f \in SUBSET Points : Occurs(u, Choose(f))}
    BY <1>1, <1>7 DEF Opened
  <2>2. \A f : Occurs(todo, Choose(f)) <=> Occurs(t, Choose(f))
    BY <1>3, <1>11, EntryFacts
  <2> QED  BY <1>3, <1>6, <2>1, <2>2 DEF Opened
<1>13. Pending' \subseteq Pending \cup {b1, b2, b3}
  <2>1. Pending' = {f \in SUBSET Points : Occurs(u, Count(f))}
    BY <1>7 DEF Pending
  <2> QED  BY <1>6, <1>11, <2>1 DEF Pending
<1>14. Shared' = Shared \cup {Regular(b3)}
  <2>2. Shared' = {Regular(Branches(f)[3]) : f \in Opened \cup {n}}
    BY <1>1, <1>12, SharedKept
  <2>3. Regular(b3) = Regular(Branches(n)[3])
    BY DEF b3
  <2> QED  BY <2>2, <2>3 DEF Shared
<1>15. Ordered /\ \A f \in UNION ToSet(bdd) : f \in SUBSET Points
  BY <1>0, OutputFacts
<1>16. \A h \in Shared : h \in SUBSET Points
  <2>1. \A f : Branches(f)[3] \in SUBSET Points
    BY BranchSets
  <2> QED  BY <2>1, RegularFacts DEF Shared
<1>17. n \in Pending
  BY <1>3, <1>11 DEF Pending
<1>18. PICK h \in (UNION ToSet(bdd)) \cup Shared : Regular(n) \in Below(h)
  BY <1>0, <1>17 DEF Nodes
<1>19. Regular(b1) \in Below(h) /\ Regular(b2) \in Below(h)
  <2>1. h \in SUBSET Points
    BY <1>15, <1>16
  <2> QED  BY <2>1, <1>3, <1>15, <1>18, BelowBranch DEF b1, b2
<1>20. Regular(b3) \in Below(Regular(b3))
  <2>1. Regular(b3) \in SUBSET Points /\ Regular(Regular(b3)) = Regular(b3)
    BY <1>4, RegularFacts
  <2>2. Regular(Regular(b3)) \in Below(Regular(b3))
    BY <2>1, <1>15, BelowSelf
  <2> QED  BY <2>1, <2>2
<1>21. Nodes'
  <2>1. \A f : Below(f)' = Below(f)
    BY <1>1, OrderKept
  <2>2. ASSUME NEW f \in Opened' \cup Pending'
        PROVE  /\ f \in SUBSET Points
               /\ \E g \in (UNION ToSet(bdd)) \cup Shared' : Regular(f) \in Below(g)
    <3>1. f \in Opened \cup Pending \/ f \in {b1, b2, b3}
      BY <1>12, <1>13, <1>17
    <3>2. CASE f \in Opened \cup Pending
      BY <3>2, <1>0, <1>14 DEF Nodes
    <3>3. CASE f \in {b1, b2, b3}
      BY <3>3, <1>4, <1>14, <1>18, <1>19, <1>20
    <3> QED  BY <3>1, <3>2, <3>3
  <2>3. \A f \in Opened' \cup Pending' :
          /\ f \in SUBSET Points
          /\ \E g \in (UNION ToSet(bdd')) \cup Shared' : Regular(f) \in Below(g)'
    BY <2>1, <2>2, <1>1
  <2> QED  BY <2>3 DEF Nodes
<1>22. PathAt(a)' /\ SeenAt(a)'
  BY <1>1, <1>2 DEF PathAt, SeenAt, Terminal
<1>23. WorkAt(a)'
  BY <1>1, <1>2, WorkMoved DEF SameWork
<1>24. HeldAt(a)'
  <2>1. ASSUME NEW r \in SUBSET Points
        PROVE  /\ Copies(r, refs') >= a.held[r]
               /\ r \in Shared' => Copies(r, refs') >= a.held[r] + 1
    <3>1. a.held[r] \in Nat
      BY <1>2 DEF Annotations
    <3>2. Copies(r, refs) >= a.held[r] /\ (r \in Shared => Copies(r, refs) >= a.held[r] + 1)
      BY <1>2 DEF HeldAt
    <3> QED  BY <3>1, <3>2, <1>9, <1>14
  <2> QED  BY <2>1 DEF HeldAt, Copies
<1>25. Undone'
  BY <1>1, <1>2, <1>6, <1>7, <1>22, <1>23, <1>24, UndoneNext
<1> QED  BY <1>0, <1>1, <1>10, <1>21, <1>25, FrameKept DEF IInv

-----------------------------------------------------------------------------
(* The steps of generate_exact. *)

\* A path to 0 adds no cube.
LEMMA GenerateZeroKeeps ==
  ASSUME IInv, GenerateZero
  PROVE  IInv'
<1>0. Types /\ Costs /\ Results /\ Nodes /\ Undone
  BY DEF IInv
<1>1. /\ pc = "generate" /\ todo # <<>> /\ Head(todo).op = "call"
      /\ node = Zero /\ todo' = Tail(todo)
      /\ pc' = pc /\ bdd' = bdd /\ order' = order /\ fncts' = fncts /\ m_vars' = m_vars
      /\ m_var_values' = m_var_values /\ m_exp_costs' = m_exp_costs
      /\ m_esop' = m_esop /\ refs' = refs
  BY DEF GenerateZero, Doing
<1>2. PICK a, b : /\ a \in Annotations /\ b \in Annotations
                  /\ PathAt(a) /\ WorkAt(a) /\ SeenAt(a) /\ HeldAt(a)
                  /\ Step(Head(todo), a, b) /\ Annotated(Tail(todo), b)
                  /\ Head(todo) \in Entries /\ Tail(todo) \in Seq(Entries)
  BY <1>0, <1>1, Doings
<1>3. Head(todo) = Call(Zero) /\ CallStep(Zero, a, b)
  BY <1>1, <1>2, StepOf DEF node
<1>4. Types'
  BY <1>0, <1>1, <1>2 DEF Types
<1>5. Nodes' /\ Shared' = Shared
  <2>1. \A f : Head(todo) # Choose(f)
    BY <1>3, EntryFacts
  <2> QED  BY <2>1, <1>0, <1>1, StackPopped
<1>6. Least[Zero] = 0
  BY <1>0, OutputFacts, ZeroOne, LeastFacts DEF LeastFrom
<1>7. SameWork(a, b)
  <2>1. a.used \subseteq b.used
    BY <1>3 DEF CallStep
  <2>2. a.left = b.left /\ a.rest \in SUBSET Points /\ b.rest = SymDiff(a.rest, Zero \cap On(a.env))
    BY <1>2, <1>3, <1>6 DEF CallStep, Annotations
  <2>3. b.rest = a.rest
    BY <2>2 DEF Zero, SymDiff
  <2> QED  BY <2>1, <2>2, <2>3 DEF SameWork
<1>8. PathAt(b)' /\ SeenAt(b)'
  BY <1>1, <1>2, <1>3 DEF PathAt, SeenAt, CallStep, SamePath, Terminal
<1>9. WorkAt(b)'
  BY <1>1, <1>2, <1>7, WorkMoved
<1>10. HeldAt(b)'
  BY <1>1, <1>2, <1>3, <1>5, HeldMoved DEF CallStep, SamePath
<1>11. Undone'
  BY <1>1, <1>2, <1>8, <1>9, <1>10, UndoneNext
<1> QED  BY <1>0, <1>1, <1>4, <1>5, <1>11, FrameKept DEF IInv

\* The next literal on the path.
LEMMA SetValueKeeps ==
  ASSUME IInv, SetValue
  PROVE  IInv'
<1>0. Types /\ Costs /\ Results /\ Nodes /\ Undone
  BY DEF IInv
<1> DEFINE v == Head(todo).v
           l == Head(todo).lit
<1>1. /\ pc = "generate" /\ todo # <<>> /\ Head(todo).op = "set" /\ todo' = Tail(todo)
      /\ m_var_values' = [m_var_values EXCEPT ![v] = l]
      /\ pc' = pc /\ bdd' = bdd /\ order' = order /\ fncts' = fncts /\ m_vars' = m_vars
      /\ m_exp_costs' = m_exp_costs /\ m_esop' = m_esop /\ refs' = refs
  BY DEF SetValue, Doing
<1>2. PICK a, b : /\ a \in Annotations /\ b \in Annotations
                  /\ PathAt(a) /\ WorkAt(a) /\ SeenAt(a) /\ HeldAt(a)
                  /\ Step(Head(todo), a, b) /\ Annotated(Tail(todo), b)
                  /\ Head(todo) \in Entries /\ Tail(todo) \in Seq(Entries)
  BY <1>0, <1>1, Doings
<1>3. Head(todo) = Set(v, l) /\ SetStep(v, l, a, b)
  BY <1>1, <1>2, StepOf
<1> HIDE DEF v, l
<1>4. b.env \in [Vars -> Literals] /\ m_var_values' = b.env
  BY <1>1, <1>2, <1>3 DEF PathAt, SetStep, Annotations
<1>5. Types'
  BY <1>0, <1>1, <1>2, <1>4 DEF Types
<1>6. Nodes' /\ Shared' = Shared
  <2>1. \A f : Head(todo) # Choose(f)
    BY <1>3, EntryFacts
  <2> QED  BY <2>1, <1>0, <1>1, StackPopped
<1>7. PathAt(b)'
  BY <1>1, <1>2, <1>3, <1>4 DEF PathAt, SetStep
<1>8. SeenAt(b)'
  BY <1>1, <1>2, <1>3 DEF SeenAt, SetStep, Terminal
<1>9. WorkAt(b)'
  BY <1>1, <1>2, <1>3, WorkMoved DEF SetStep
<1>10. HeldAt(b)'
  BY <1>1, <1>2, <1>3, <1>6, HeldMoved DEF SetStep
<1>11. Undone'
  BY <1>1, <1>2, <1>7, <1>8, <1>9, <1>10, UndoneNext
<1> QED  BY <1>0, <1>1, <1>5, <1>6, <1>11, FrameKept DEF IInv

\* A path to 1 adds its cube, which m_esop does not have yet.
LEMMA GenerateOneKeeps ==
  ASSUME IInv, GenerateOne
  PROVE  IInv'
<1>0. Types /\ Costs /\ Results /\ Nodes /\ Undone
  BY DEF IInv
<1> DEFINE c == PathCube
<1>1. /\ pc = "generate" /\ todo # <<>> /\ Head(todo).op = "call"
      /\ node = One /\ todo' = Tail(todo) /\ m_esop' = m_esop \cup {c}
      /\ pc' = pc /\ bdd' = bdd /\ order' = order /\ fncts' = fncts /\ m_vars' = m_vars
      /\ m_var_values' = m_var_values /\ m_exp_costs' = m_exp_costs /\ refs' = refs
  BY DEF GenerateOne, Doing
<1>2. PICK a, b : /\ a \in Annotations /\ b \in Annotations
                  /\ PathAt(a) /\ WorkAt(a) /\ SeenAt(a) /\ HeldAt(a)
                  /\ Step(Head(todo), a, b) /\ Annotated(Tail(todo), b)
                  /\ Head(todo) \in Entries /\ Tail(todo) \in Seq(Entries)
  BY <1>0, <1>1, Doings
<1>3. Head(todo) = Call(One) /\ CallStep(One, a, b)
  BY <1>1, <1>2, StepOf DEF node
<1>4. PICK K \in 0 .. NVars : /\ a.used \cap Agreeing(a.env, K) = {}
                              /\ a.used \cup Agreeing(a.env, K) \subseteq b.used
  BY <1>3 DEF CallStep
<1>5. Ordered /\ Least[One] = 1
  <2>1. Ordered
    BY <1>0, OutputFacts
  <2>2. One \in SUBSET Points /\ Least[One] = LeastFrom(Least, One)
    BY <2>1, ZeroOne, LeastFacts
  <2> QED  BY <2>1, <2>2, ZeroOne DEF LeastFrom
<1>6. c \in Agreeing(a.env, K) /\ c \in Cubes /\ OnSet(c) = On(a.env)
  <2>1. /\ m_vars \in Seq(Vars) /\ m_var_values \in [Vars -> Literals]
        /\ \A u \in Vars : m_var_values[u] # "UNUSED" => u \in ToSet(m_vars)
        /\ a.env = m_var_values
    BY <1>2 DEF PathAt, Annotations
  <2> QED  BY <2>1, <1>5, PathCubeFacts
<1> HIDE DEF c
<1>7. c \notin m_esop /\ m_esop \in SUBSET Cubes
  BY <1>0, <1>2, <1>4, <1>6 DEF WorkAt, Types
<1>8. Types'
  BY <1>0, <1>1, <1>2, <1>6 DEF Types
<1>9. Nodes' /\ Shared' = Shared
  <2>1. \A f : Head(todo) # Choose(f)
    BY <1>3, EntryFacts
  <2> QED  BY <2>1, <1>0, <1>1, StackPopped
<1>10. PathAt(b)' /\ SeenAt(b)'
  BY <1>1, <1>2, <1>3 DEF PathAt, SeenAt, CallStep, SamePath, Terminal
<1>11. WorkAt(b)'
  <2>1. Target' = Target /\ Least'[Target'] = Least[Target]
    BY <1>1, TargetKept
  <2>2. m_esop' \subseteq b.used
    BY <1>1, <1>2, <1>4, <1>6 DEF WorkAt
  <2>3. EsopOf(m_esop') = SymDiff(EsopOf(m_esop), On(a.env))
    BY <1>1, <1>6, <1>7, EsopOfAdd
  <2>4. b.rest = SymDiff(a.rest, On(a.env)) /\ SymDiff(EsopOf(m_esop), a.rest) = Target
    <3>1. One \cap On(a.env) = On(a.env)
      BY DEF One, On
    <3> QED  BY <3>1, <1>2, <1>3 DEF CallStep, WorkAt
  <2>5. SymDiff(EsopOf(m_esop'), b.rest) = Target
    BY <2>3, <2>4 DEF SymDiff
  <2>6. Cardinality(m_esop') = Cardinality(m_esop) + 1 /\ Cardinality(m_esop) \in Nat
    BY <1>1, <1>7, CubesFinite, FS_AddElement
  <2>7. a.left = b.left + 1 /\ b.left \in Nat
    BY <1>2, <1>3, <1>5 DEF CallStep, Annotations
  <2>8. Cardinality(m_esop) + a.left = Least[Target]
    BY <1>2 DEF WorkAt
  <2>9. Cardinality(m_esop') + b.left = Least[Target]
    BY <2>6, <2>7, <2>8
  <2>10. EsopOf(m_esop)' = EsopOf(m_esop') /\ Cardinality(m_esop)' = Cardinality(m_esop')
    BY DEF EsopOf
  <2> QED  BY <2>1, <2>2, <2>5, <2>9, <2>10 DEF WorkAt
<1>12. HeldAt(b)'
  BY <1>1, <1>2, <1>3, <1>9, HeldMoved DEF CallStep, SamePath
<1>13. Undone'
  BY <1>1, <1>2, <1>10, <1>11, <1>12, UndoneNext
<1> QED  BY <1>0, <1>1, <1>8, <1>9, <1>13, FrameKept DEF IInv

\* An input is put on the path and taken off it again.
LEMMA PathExtended ==
  ASSUME NEW s \in Seq(Vars), NEW v \in Vars
  PROVE  /\ Append(s, v) \in Seq(Vars) /\ Append(s, v) # <<>>
         /\ Front(Append(s, v)) = s
         /\ ToSet(Append(s, v)) = ToSet(s) \cup {v}
<1> DEFINE n == Len(s)
           p == Append(s, v)
<1>1. /\ n \in Nat /\ p \in Seq(Vars) /\ Len(p) = n + 1 /\ p[n + 1] = v
      /\ \A i \in 1 .. n : p[i] = s[i]
      /\ DOMAIN s = 1 .. n /\ DOMAIN p = 1 .. n + 1
  OBVIOUS
<1>2. p # <<>>
  BY <1>1
<1> HIDE DEF p
<1>3. SubSeq(p, 1, n) \in Seq(Vars) /\ Len(SubSeq(p, 1, n)) = n
      /\ \A i \in 1 .. n : SubSeq(p, 1, n)[i] = p[i]
  BY <1>1
<1>4. Front(p) = SubSeq(p, 1, n)
  BY <1>1 DEF Front
<1>5. Front(p) = s
  BY <1>1, <1>3, <1>4, SeqEqual
<1> HIDE DEF n
<1>6. ToSet(p) = ToSet(s) \cup {v}
  <2>1. 1 .. n + 1 = (1 .. n) \cup {n + 1}
    BY <1>1
  <2>2. ToSet(p) = {p[i] : i \in (1 .. n) \cup {n + 1}}
    BY <1>1, <2>1 DEF ToSet
  <2>3. ToSet(s) = {p[i] : i \in 1 .. n}
    BY <1>1 DEF ToSet
  <2> QED  BY <2>2, <2>3, <1>1
<1> QED  BY <1>1, <1>2, <1>5, <1>6 DEF p

\* A node is left: its input is off the path and its reference given back.
LEMMA LeaveNodeKeeps ==
  ASSUME IInv, LeaveNode
  PROVE  IInv'
<1>0. Types /\ Costs /\ Results /\ Nodes /\ Undone
  BY DEF IInv
<1> DEFINE v == Head(todo).v
           h == node
<1>1. /\ pc = "generate" /\ todo # <<>> /\ Head(todo).op = "leave" /\ todo' = Tail(todo)
      /\ m_vars' = Front(m_vars) /\ m_var_values' = [m_var_values EXCEPT ![v] = "UNUSED"]
      /\ refs' = refs (-) Ref(h)
      /\ pc' = pc /\ bdd' = bdd /\ order' = order /\ fncts' = fncts
      /\ m_exp_costs' = m_exp_costs /\ m_esop' = m_esop
  BY DEF LeaveNode, Doing
<1>2. PICK a, b : /\ a \in Annotations /\ b \in Annotations
                  /\ PathAt(a) /\ WorkAt(a) /\ SeenAt(a) /\ HeldAt(a)
                  /\ Step(Head(todo), a, b) /\ Annotated(Tail(todo), b)
                  /\ Head(todo) \in Entries /\ Tail(todo) \in Seq(Entries)
  BY <1>0, <1>1, Doings
<1>3. Head(todo) = Leave(v, h) /\ LeaveStep(v, h, a, b) /\ h \in SUBSET Points
  <2>1. Head(todo) = Leave(v, h) /\ LeaveStep(v, h, a, b)
    BY <1>1, <1>2, StepOf DEF node
  <2> QED  BY <2>1 DEF LeaveStep
<1> HIDE DEF v, h
<1>4. /\ m_vars' = b.path /\ m_var_values' = b.env
      /\ b.path \in Seq(Vars) /\ b.env \in [Vars -> Literals]
  BY <1>1, <1>2, <1>3 DEF LeaveStep, PathAt, Annotations
<1>5. a.held \in [SUBSET Points -> Nat] /\ Regular(h) \in SUBSET Points
  BY <1>2, <1>3, RegularFacts DEF Annotations
<1>6. References(refs) /\ Copies(Regular(h), refs) >= 1
  <2>1. a.held[Regular(h)] >= 1 /\ Copies(Regular(h), refs) >= a.held[Regular(h)]
    BY <1>2, <1>3, <1>5 DEF LeaveStep, HeldAt
  <2>2. References(refs) /\ Copies(Regular(h), refs) \in Nat
    BY <1>0, <1>3, ReferenceAdded DEF Types
  <2> QED  BY <2>1, <2>2, <1>5
<1>7. /\ References(refs')
      /\ \A r : /\ Copies(r, refs) \in Nat
                /\ Copies(r, refs') = Copies(r, refs) - (IF r = Regular(h) THEN 1 ELSE 0)
  BY <1>1, <1>3, <1>6, ReferenceGiven
<1>8. Types'
  BY <1>0, <1>1, <1>2, <1>4, <1>7 DEF Types
<1>9. Nodes' /\ Shared' = Shared
  <2>1. \A f : Head(todo) # Choose(f)
    BY <1>3, EntryFacts
  <2> QED  BY <2>1, <1>0, <1>1, StackPopped
<1>10. PathAt(b)'
  BY <1>4 DEF PathAt
<1>11. SeenAt(b)'
  BY <1>1, <1>2, <1>3 DEF SeenAt, LeaveStep, Terminal
<1>12. WorkAt(b)'
  BY <1>1, <1>2, <1>3, WorkMoved DEF LeaveStep
<1>13. HeldAt(b)'
  <2>1. ASSUME NEW r \in SUBSET Points
        PROVE  /\ Copies(r, refs') >= b.held[r]
               /\ r \in Shared' => Copies(r, refs') >= b.held[r] + 1
    <3>1. /\ a.held[r] \in Nat /\ Copies(r, refs) \in Nat
          /\ b.held[r] = a.held[r] - (IF r = Regular(h) THEN 1 ELSE 0)
      BY <1>3, <1>5, <1>7 DEF LeaveStep
    <3>2. Copies(r, refs) >= a.held[r] /\ (r \in Shared => Copies(r, refs) >= a.held[r] + 1)
      BY <1>2 DEF HeldAt
    <3>3. Copies(r, refs') = Copies(r, refs) - (IF r = Regular(h) THEN 1 ELSE 0)
      BY <1>7
    <3> QED  BY <3>1, <3>2, <3>3, <1>9
  <2> QED  BY <2>1 DEF HeldAt, Copies
<1>14. Undone'
  BY <1>1, <1>2, <1>10, <1>11, <1>12, <1>13, UndoneNext
<1> QED  BY <1>0, <1>1, <1>8, <1>9, <1>14, FrameKept DEF IInv

\* The four entries of an expansion.
TwoCalls(m, v, p, c1, q, c2) ==
  /\ m \in Seq(Entries) /\ Len(m) = 4
  /\ m[1] = Set(v, p) /\ m[2] = Call(c1) /\ m[3] = Set(v, q) /\ m[4] = Call(c2)

\* Such a sum costs as much as both its parts.
Halves(env, g, v, p, c1, q, c2) ==
  /\ p \in Literals /\ q \in Literals /\ p # q
  /\ IsSum(env, g, v, p, c1, q, c2)
  /\ Least[g] = Least[c1] + Least[c2]

\* The annotation when a node is entered: its input is on the path, and its
\* frame holds a reference to f2.
Entered(a, v, f2, seen) ==
  [env |-> a.env, path |-> Append(a.path, v), used |-> a.used, rest |-> a.rest,
   left |-> a.left, seen |-> seen,
   held |-> [a.held EXCEPT ![Regular(f2)] = a.held[Regular(f2)] + 1]]

\* The annotations between the two calls of an expansion.
LEMMA CallsPushed ==
  ASSUME Ordered, NEW t \in Seq(Entries), NEW n \in SUBSET Points, n \notin Terminal,
         NEW a \in Annotations, NEW b \in Annotations, CallStep(n, a, b), Annotated(t, b),
         NEW v, v = Top(n), NEW f2 \in SUBSET Points,
         NEW c1 \in SUBSET Points, NEW c2 \in SUBSET Points,
         Indep(c1, Level(n)), Indep(c2, Level(n)),
         NEW seen \in SUBSET SUBSET Points, a.seen \subseteq seen, c1 \in seen, c2 \in seen,
         NEW p, NEW q, Halves(a.env, n, v, p, c1, q, c2),
         NEW m, TwoCalls(m, v, p, c1, q, c2)
  PROVE  /\ (m \o <<Leave(v, f2)>>) \o t \in Seq(Entries)
         /\ Entered(a, v, f2, seen) \in Annotations
         /\ Annotated((m \o <<Leave(v, f2)>>) \o t, Entered(a, v, f2, seen))
         /\ \A f : /\ Occurs((m \o <<Leave(v, f2)>>) \o t, Choose(f)) <=> Occurs(t, Choose(f))
                   /\ Occurs((m \o <<Leave(v, f2)>>) \o t, Count(f)) <=> Occurs(t, Count(f))
<1>0. /\ p \in Literals /\ q \in Literals /\ p # q
      /\ n \cap On(a.env) = SymDiff(c1 \cap On([a.env EXCEPT ![v] = p]),
                                    c2 \cap On([a.env EXCEPT ![v] = q]))
      /\ Least[n] = Least[c1] + Least[c2]
  BY DEF Halves, IsSum
<1> DEFINE held == [a.held EXCEPT ![Regular(f2)] = a.held[Regular(f2)] + 1]
<1>1. PICK K \in 0 .. NVars : /\ Indep(n, K)
                              /\ \A w \in Vars : a.env[w] # "UNUSED" => w \in First(K)
                              /\ a.used \cap Agreeing(a.env, K) = {}
                              /\ a.used \cup Agreeing(a.env, K) \subseteq b.used
  BY DEF CallStep
<1> DEFINE j == Level(n)
           env1 == [a.env EXCEPT ![v] = p]
           env2 == [a.env EXCEPT ![v] = q]
           used1 == a.used \cup Agreeing(env1, j)
           used2 == used1 \cup Agreeing(env2, j)
           path == Append(a.path, v)
           rest1 == SymDiff(a.rest, c1 \cap On(env1))
           left1 == b.left + Least[c2]
           a0 == [env |-> a.env, path |-> path, used |-> a.used, rest |-> a.rest,
                  left |-> a.left, seen |-> seen, held |-> held]
           a1 == [env |-> env1, path |-> path, used |-> a.used, rest |-> a.rest,
                  left |-> a.left, seen |-> seen, held |-> held]
           a2 == [env |-> env1, path |-> path, used |-> used1, rest |-> rest1,
                  left |-> left1, seen |-> seen, held |-> held]
           a3 == [env |-> env2, path |-> path, used |-> used1, rest |-> rest1,
                  left |-> left1, seen |-> seen, held |-> held]
           a4 == [env |-> env2, path |-> path, used |-> used2, rest |-> b.rest,
                  left |-> b.left, seen |-> seen, held |-> held]
<1>2. /\ a.env \in [Vars -> Literals] /\ a.path \in Seq(Vars) /\ a.used \in SUBSET Cubes
      /\ a.rest \in SUBSET Points /\ a.left \in Nat /\ a.held \in [SUBSET Points -> Nat]
      /\ b.rest \in SUBSET Points /\ b.left \in Nat
      /\ \A w \in Vars : a.env[w] # "UNUSED" => w \in ToSet(a.path)
  BY DEF Annotations
<1>3. j \in K + 1 .. NVars /\ v \in Vars /\ v = order[j] /\ j \in 0 .. NVars
  <2>1. j \in K + 1 .. NVars /\ v \in Vars /\ v = order[j]
    BY <1>1, LevelFacts
  <2> QED  BY <2>1, NVarsAssumption, WidthAssumption
<1>4. /\ Agreeing(env1, j) \cap Agreeing(env2, j) = {}
      /\ Agreeing(env1, j) \subseteq Agreeing(a.env, K)
      /\ Agreeing(env2, j) \subseteq Agreeing(a.env, K)
      /\ \A w \in Vars : env1[w] # "UNUSED" => w \in First(j)
      /\ \A w \in Vars : env2[w] # "UNUSED" => w \in First(j)
      /\ a.env[v] = "UNUSED"
  <2>1. /\ env1[v] = p /\ env2[v] = q
        /\ \A w \in Vars : w # v => env1[w] = a.env[w] /\ env2[w] = a.env[w]
    BY <1>0, <1>2, <1>3
  <2>2. j \in 1 .. j /\ j \in 1 .. NVars /\ j > K /\ K \in 0 .. j
    BY <1>3, NVarsAssumption, WidthAssumption
  <2>3. /\ v \in First(j) /\ v \notin First(K)
        /\ First(K) \subseteq First(j) /\ First(j) \subseteq Vars
    BY <1>3, <2>2, FirstFacts
  <2> HIDE DEF env1, env2, j
  <2>4. /\ Agreeing(env1, j) \cap Agreeing(env2, j) = {}
        /\ Agreeing(env1, j) \subseteq Agreeing(a.env, K)
        /\ Agreeing(env2, j) \subseteq Agreeing(a.env, K)
    BY <1>0, <2>1, <2>3 DEF Agreeing
  <2>5. /\ \A w \in Vars : env1[w] # "UNUSED" => w \in First(j)
        /\ \A w \in Vars : env2[w] # "UNUSED" => w \in First(j)
        /\ a.env[v] = "UNUSED"
    BY <2>1, <2>3, <1>1, <1>3
  <2> QED  BY <2>4, <2>5
<1>5. /\ path \in Seq(Vars) /\ path # <<>> /\ Front(path) = a.path
      /\ ToSet(path) = ToSet(a.path) \cup {v}
  BY <1>2, <1>3, PathExtended
<1>6. /\ env1 \in [Vars -> Literals] /\ env2 \in [Vars -> Literals]
      /\ [env1 EXCEPT ![v] = q] = env2 /\ [env2 EXCEPT ![v] = "UNUSED"] = a.env
      /\ \A w \in Vars : env1[w] # "UNUSED" => w \in ToSet(path)
      /\ \A w \in Vars : env2[w] # "UNUSED" => w \in ToSet(path)
  BY <1>0, <1>2, <1>3, <1>4, <1>5
<1>7. Regular(f2) \in SUBSET Points
  BY RegularFacts
<1>8. /\ held \in [SUBSET Points -> Nat] /\ held[Regular(f2)] >= 1
      /\ [held EXCEPT ![Regular(f2)] = held[Regular(f2)] - 1] = a.held
  BY <1>2, <1>7
<1>9. Least[c1] \in Nat /\ Least[c2] \in Nat
  BY LeastFacts
<1>10. left1 \in Nat /\ a.left = left1 + Least[c1] /\ left1 = b.left + Least[c2]
  <2>1. a.left = b.left + Least[n]
    BY DEF CallStep
  <2> QED  BY <2>1, <1>0, <1>2, <1>9
<1>11. rest1 \in SUBSET Points /\ b.rest = SymDiff(rest1, c2 \cap On(env2))
  <2>1. b.rest = SymDiff(a.rest, SymDiff(c1 \cap On(env1), c2 \cap On(env2)))
    BY <1>0 DEF CallStep
  <2>2. rest1 = SymDiff(a.rest, c1 \cap On(env1))
    OBVIOUS
  <2> HIDE DEF rest1, env1, env2
  <2> QED  BY <2>1, <2>2, <1>2 DEF SymDiff
<1>12. /\ used1 \in SUBSET Cubes /\ used2 \in SUBSET Cubes /\ used2 \subseteq b.used
       /\ a.used \cap Agreeing(env1, j) = {} /\ used1 \cap Agreeing(env2, j) = {}
  <2>1. Agreeing(env1, j) \in SUBSET Cubes /\ Agreeing(env2, j) \in SUBSET Cubes
    BY DEF Agreeing
  <2> HIDE DEF env1, env2, j
  <2> QED  BY <2>1, <1>1, <1>2, <1>4
<1> HIDE DEF j, env1, env2, used1, used2, path, rest1, left1, held
<1>13. a0 \in Annotations
  <2>1. \A w \in Vars : a.env[w] # "UNUSED" => w \in ToSet(path)
    BY <1>2, <1>5
  <2> QED  BY <2>1, <1>2, <1>5, <1>8 DEF Annotations
<1>14. a1 \in Annotations /\ a2 \in Annotations /\ a3 \in Annotations /\ a4 \in Annotations
  BY <1>2, <1>5, <1>6, <1>8, <1>10, <1>11, <1>12 DEF Annotations
<1>15. SetStep(v, p, a0, a1)
  BY <1>0, <1>5 DEF SetStep, SameWork, env1
<1>16. SetStep(v, q, a2, a3)
  BY <1>0, <1>5, <1>6 DEF SetStep, SameWork
<1>17. CallStep(c1, a1, a2)
  BY <1>3, <1>4, <1>10, <1>12 DEF CallStep, SamePath, rest1, used1, j
<1>18. CallStep(c2, a3, a4)
  BY <1>3, <1>4, <1>10, <1>11, <1>12 DEF CallStep, SamePath, used2, j
<1>19. LeaveStep(v, f2, a4, b)
  <2>1. b.env = a.env /\ b.path = a.path /\ b.held = a.held /\ b.seen \subseteq seen
    BY DEF CallStep, SamePath
  <2> QED  BY <2>1, <1>3, <1>5, <1>6, <1>8, <1>12 DEF LeaveStep, SameWork
<1> HIDE DEF a0, a1, a2, a3, a4
<1> DEFINE e1 == Set(v, p)
           e2 == Call(c1)
           e3 == Set(v, q)
           e4 == Call(c2)
           e5 == Leave(v, f2)
<1>20. /\ e1 \in Entries /\ e2 \in Entries /\ e3 \in Entries /\ e4 \in Entries
       /\ e5 \in Entries
  BY <1>0, <1>3 DEF Entries
<1>21. /\ \A f : Choose(f) \notin {e1, e2, e3, e4, e5}
       /\ \A f : Count(f) \notin {e1, e2, e3, e4, e5}
  BY EntryFacts
<1>22. Step(e1, a0, a1) /\ Step(e3, a2, a3)
  BY <1>0, <1>3, <1>13, <1>14, <1>15, <1>16 DEF Step
<1>23. Step(e2, a1, a2) /\ Step(e4, a3, a4)
  BY <1>14, <1>17, <1>18 DEF Step
<1>24. Step(e5, a4, b)
  BY <1>3, <1>14, <1>19 DEF Step
<1>25. m \in Seq(Entries) /\ Len(m) = 4 /\ m[1] = e1 /\ m[2] = e2 /\ m[3] = e3 /\ m[4] = e4
  BY DEF TwoCalls
<1> HIDE DEF e1, e2, e3, e4, e5
<1> DEFINE t5 == <<e5>> \o t
           t4 == <<e4>> \o t5
           t3 == <<e3>> \o t4
           t2 == <<e2>> \o t3
           t1 == <<e1>> \o t2
<1>26. /\ t5 \in Seq(Entries) /\ Annotated(t5, a4)
       /\ \A d : Occurs(t5, d) <=> d = e5 \/ Occurs(t, d)
  BY <1>20, <1>24, AnnotatedPush, OccursPush
<1> HIDE DEF t5
<1>27. /\ t4 \in Seq(Entries) /\ Annotated(t4, a3)
       /\ \A d : Occurs(t4, d) <=> d = e4 \/ Occurs(t5, d)
  BY <1>20, <1>23, <1>26, AnnotatedPush, OccursPush
<1> HIDE DEF t4
<1>28. /\ t3 \in Seq(Entries) /\ Annotated(t3, a2)
       /\ \A d : Occurs(t3, d) <=> d = e3 \/ Occurs(t4, d)
  BY <1>20, <1>22, <1>27, AnnotatedPush, OccursPush
<1> HIDE DEF t3
<1>29. /\ t2 \in Seq(Entries) /\ Annotated(t2, a1)
       /\ \A d : Occurs(t2, d) <=> d = e2 \/ Occurs(t3, d)
  BY <1>20, <1>23, <1>28, AnnotatedPush, OccursPush
<1> HIDE DEF t2
<1>30. /\ t1 \in Seq(Entries) /\ Annotated(t1, a0)
       /\ \A d : Occurs(t1, d) <=> d = e1 \/ Occurs(t2, d)
  BY <1>20, <1>22, <1>29, AnnotatedPush, OccursPush
<1> HIDE DEF t1
<1>31. m \o t5 = t1
  <2>1. m \o t5 = <<m[1]>> \o (<<m[2]>> \o (<<m[3]>> \o (<<m[4]>> \o t5)))
    BY <1>25, <1>26, FourFirst
  <2> QED  BY <2>1, <1>25 DEF t1, t2, t3, t4
<1>32. (m \o <<e5>>) \o t = m \o t5
  <2>1. <<e5>> \in Seq(Entries)
    BY <1>20
  <2> QED  BY <2>1, <1>25, ConcatAssociative DEF t5
<1>33. \A f : /\ Occurs(t1, Choose(f)) <=> Occurs(t, Choose(f))
              /\ Occurs(t1, Count(f)) <=> Occurs(t, Count(f))
  BY <1>21, <1>26, <1>27, <1>28, <1>29, <1>30
<1>34. a0 = Entered(a, v, f2, seen)
  BY DEF a0, path, held, Entered
<1> QED  BY <1>13, <1>30, <1>31, <1>32, <1>33, <1>34 DEF e5


\* The expansion of a node, as its two calls.
LEMMA ExpansionCalls ==
  ASSUME Ordered, Costs, NEW n \in DOMAIN m_exp_costs, NEW v \in Vars, v = Top(n),
         NEW env \in [Vars -> Literals], env[v] = "UNUSED"
  PROVE  \E p, c1, q, c2 :
           /\ c1 \in {Branches(n)[i] : i \in 1 .. 3} /\ c2 \in {Branches(n)[i] : i \in 1 .. 3}
           /\ Halves(env, n, v, p, c1, q, c2)
           /\ TwoCalls(Expansion(n, v), v, p, c1, q, c2)
<1> DEFINE b1 == Branches(n)[1]
           b2 == Branches(n)[2]
           b3 == Branches(n)[3]
           x == m_exp_costs[n]
           m == Expansion(n, v)
           D == {Branches(n)[i] : i \in 1 .. 3}
<1>1. /\ n \in SUBSET Points /\ n \notin Terminal
      /\ x = Expand(Least[b1], Least[b2], Least[b3])
  BY DEF Costs
<1>2. /\ b1 \in D /\ b2 \in D /\ b3 \in D
      /\ b1 \in SUBSET Points /\ b2 \in SUBSET Points /\ b3 \in SUBSET Points
  <2>1. 1 \in 1 .. 3 /\ 2 \in 1 .. 3 /\ 3 \in 1 .. 3
    OBVIOUS
  <2> QED  BY <2>1, BranchSets
<1>3. /\ IsSum(env, n, v, "UNUSED", b1, "POSITIVE", b3)
      /\ IsSum(env, n, v, "UNUSED", b2, "NEGATIVE", b3)
      /\ IsSum(env, n, v, "NEGATIVE", b1, "POSITIVE", b2)
  BY <1>1, ExpansionsSum
<1>4. Least[n] = x[2]
  BY <1>1, LeastOfNode
<1>5. Least[b1] \in Nat /\ Least[b2] \in Nat /\ Least[b3] \in Nat
  BY <1>2, LeastFacts
<1>6. \/ x = <<"POSITIVE_DAVIO", Least[b1] + Least[b3]>>
      \/ x = <<"NEGATIVE_DAVIO", Least[b2] + Least[b3]>>
      \/ x = <<"SHANNON", Least[b1] + Least[b2]>>
  BY <1>1, <1>5, ExpandIsLeast
<1>7. /\ \A l \in Literals : Set(v, l) \in Entries
      /\ Call(b1) \in Entries /\ Call(b2) \in Entries /\ Call(b3) \in Entries
      /\ "UNUSED" \in Literals /\ "POSITIVE" \in Literals /\ "NEGATIVE" \in Literals
  BY <1>2 DEF Entries, Literals
<1>8. m = CASE x[1] = "POSITIVE_DAVIO" ->
                 <<Set(v, "UNUSED"), Call(b1), Set(v, "POSITIVE"), Call(b3)>>
            [] x[1] = "NEGATIVE_DAVIO" ->
                 <<Set(v, "UNUSED"), Call(b2), Set(v, "NEGATIVE"), Call(b3)>>
            [] x[1] = "SHANNON" ->
                 <<Set(v, "NEGATIVE"), Call(b1), Set(v, "POSITIVE"), Call(b2)>>
  BY DEF Expansion, Steps
<1> HIDE DEF b1, b2, b3, x, m, D
<1>9. CASE x = <<"POSITIVE_DAVIO", Least[b1] + Least[b3]>>
  <2>1. m = <<Set(v, "UNUSED"), Call(b1), Set(v, "POSITIVE"), Call(b3)>>
    BY <1>8, <1>9
  <2>2. TwoCalls(m, v, "UNUSED", b1, "POSITIVE", b3)
    BY <2>1, <1>7 DEF TwoCalls
  <2>3. Halves(env, n, v, "UNUSED", b1, "POSITIVE", b3)
    BY <1>3, <1>4, <1>7, <1>9 DEF Halves
  <2> QED  BY <2>2, <2>3, <1>2 DEF m, D
<1>10. CASE x = <<"NEGATIVE_DAVIO", Least[b2] + Least[b3]>>
  <2>1. m = <<Set(v, "UNUSED"), Call(b2), Set(v, "NEGATIVE"), Call(b3)>>
    BY <1>8, <1>10
  <2>2. TwoCalls(m, v, "UNUSED", b2, "NEGATIVE", b3)
    BY <2>1, <1>7 DEF TwoCalls
  <2>3. Halves(env, n, v, "UNUSED", b2, "NEGATIVE", b3)
    BY <1>3, <1>4, <1>7, <1>10 DEF Halves
  <2> QED  BY <2>2, <2>3, <1>2 DEF m, D
<1>11. CASE x = <<"SHANNON", Least[b1] + Least[b2]>>
  <2>1. m = <<Set(v, "NEGATIVE"), Call(b1), Set(v, "POSITIVE"), Call(b2)>>
    BY <1>8, <1>11
  <2>2. TwoCalls(m, v, "NEGATIVE", b1, "POSITIVE", b2)
    BY <2>1, <1>7 DEF TwoCalls
  <2>3. Halves(env, n, v, "NEGATIVE", b1, "POSITIVE", b2)
    BY <1>3, <1>4, <1>7, <1>11 DEF Halves
  <2> QED  BY <2>2, <2>3, <1>2 DEF m, D
<1> QED  BY <1>6, <1>9, <1>10, <1>11

\* The first input of a called node has no literal yet, and the calls of its
\* branches can be annotated.
LEMMA NodeCalled ==
  ASSUME Ordered, NEW n, NEW a \in Annotations, NEW b \in Annotations,
         CallStep(n, a, b), n \notin Terminal
  PROVE  /\ n \in SUBSET Points /\ n \in a.seen
         /\ Top(n) \in Vars /\ a.env \in [Vars -> Literals] /\ a.env[Top(n)] = "UNUSED"
<1>1. n \in SUBSET Points /\ n \in a.seen /\ a.env \in [Vars -> Literals]
  BY DEF CallStep, Annotations
<1>2. PICK K \in 0 .. NVars : /\ Indep(n, K)
                              /\ \A w \in Vars : a.env[w] # "UNUSED" => w \in First(K)
  BY DEF CallStep
<1>3. Level(n) \in K + 1 .. NVars /\ Top(n) \in Vars /\ Top(n) = order[Level(n)]
  BY <1>1, <1>2, LevelFacts
<1>4. Level(n) \in 1 .. NVars /\ Level(n) > K
  BY <1>3, NVarsAssumption, WidthAssumption
<1>5. Top(n) \notin First(K)
  BY <1>3, <1>4, FirstFacts
<1> QED  BY <1>1, <1>2, <1>3, <1>5

\* A node is entered: its two branches have what is left of it.
LEMMA GenerateNodeKeeps ==
  ASSUME IInv, GenerateNode
  PROVE  IInv'
<1>0. Types /\ Costs /\ Results /\ Nodes /\ Undone
  BY DEF IInv
<1> DEFINE n == node
           v == Top(n)
           f2 == Branches(n)[3]
           m == Expansion(n, v)
           t == Tail(todo)
<1>1. /\ pc = "generate" /\ todo # <<>> /\ Head(todo).op = "call"
      /\ n \notin Terminal
      /\ m_vars' = Append(m_vars, v)
      /\ todo' = m \o <<Leave(v, f2)>> \o t
      /\ refs' = refs (+) Ref(f2)
      /\ pc' = pc /\ bdd' = bdd /\ order' = order /\ fncts' = fncts
      /\ m_var_values' = m_var_values /\ m_exp_costs' = m_exp_costs /\ m_esop' = m_esop
  BY DEF GenerateNode, Doing
<1>2. PICK a, b : /\ a \in Annotations /\ b \in Annotations
                  /\ PathAt(a) /\ WorkAt(a) /\ SeenAt(a) /\ HeldAt(a)
                  /\ Step(Head(todo), a, b) /\ Annotated(t, b)
                  /\ Head(todo) \in Entries /\ t \in Seq(Entries)
  BY <1>0, <1>1, Doings
<1>3. Head(todo) = Call(n) /\ CallStep(n, a, b)
  BY <1>1, <1>2, StepOf DEF node
<1>4. Ordered
  BY <1>0, OutputFacts
<1>5. /\ n \in SUBSET Points /\ n \in a.seen
      /\ v \in Vars /\ a.env \in [Vars -> Literals] /\ a.env[v] = "UNUSED"
  BY <1>1, <1>2, <1>3, <1>4, NodeCalled
<1>6. n \in DOMAIN m_exp_costs
  BY <1>1, <1>2, <1>5 DEF SeenAt
<1> DEFINE D == {Branches(n)[i] : i \in 1 .. 3}
           seen == Terminal \cup DOMAIN m_exp_costs
<1>7. PICK p, c1, q, c2 : /\ c1 \in D /\ c2 \in D
                          /\ Halves(a.env, n, v, p, c1, q, c2)
                          /\ TwoCalls(m, v, p, c1, q, c2)
  BY <1>0, <1>4, <1>5, <1>6, ExpansionCalls
<1>8. \A c \in D : c \in SUBSET Points /\ Indep(c, Level(n)) /\ c \in seen
  BY <1>0, <1>1, <1>4, <1>5, <1>6, BranchFacts DEF Costs
<1>9. f2 \in SUBSET Points /\ v = Top(n)
  <2>1. 3 \in 1 .. 3
    OBVIOUS
  <2> QED  BY <2>1, BranchSets
<1>10. seen \in SUBSET SUBSET Points /\ a.seen \subseteq seen
  BY <1>0, <1>2, ZeroOne DEF Costs, SeenAt
<1> HIDE DEF D, n, v, f2, m, t, seen
<1> PICK a0 : a0 = Entered(a, v, f2, seen)
  OBVIOUS
<1> DEFINE u == (m \o <<Leave(v, f2)>>) \o t
<1>11. /\ u \in Seq(Entries) /\ a0 \in Annotations /\ Annotated(u, a0)
       /\ \A f : /\ Occurs(u, Choose(f)) <=> Occurs(t, Choose(f))
                 /\ Occurs(u, Count(f)) <=> Occurs(t, Count(f))
  BY <1>1, <1>2, <1>3, <1>4, <1>5, <1>7, <1>8, <1>9, <1>10, CallsPushed
<1>12. /\ a0.env = a.env /\ a0.path = Append(a.path, v) /\ a0.used = a.used
       /\ a0.rest = a.rest /\ a0.left = a.left /\ a0.seen = seen
       /\ a0.held = [a.held EXCEPT ![Regular(f2)] = a.held[Regular(f2)] + 1]
  BY DEF Entered
<1>13. todo' = u
  BY <1>1
<1> HIDE DEF u
<1>14. /\ References(refs')
       /\ \A r : /\ Copies(r, refs) \in Nat
                 /\ Copies(r, refs') = Copies(r, refs) + (IF r = Regular(f2) THEN 1 ELSE 0)
  <2>1. References(refs)
    BY <1>0 DEF Types
  <2> QED  BY <2>1, <1>1, <1>9, ReferenceAdded
<1>15. Types'
  <2>1. m_vars' \in Seq(Vars)
    BY <1>0, <1>1, <1>5, PathExtended DEF Types
  <2> QED  BY <2>1, <1>0, <1>1, <1>11, <1>13, <1>14 DEF Types
<1>16. Nodes' /\ Shared' = Shared
  <2>1. \A d : Occurs(todo, d) <=> d = Head(todo) \/ Occurs(t, d)
    <3>1. todo \in Seq(Entries)
      BY <1>0 DEF Types
    <3> QED  BY <3>1, <1>1, OccursPop DEF t
  <2>2. \A f : /\ Occurs(u, Choose(f)) <=> Occurs(todo, Choose(f))
               /\ Occurs(u, Count(f)) <=> Occurs(todo, Count(f))
    BY <2>1, <1>3, <1>11, EntryFacts
  <2>3. Opened' = DOMAIN m_exp_costs \cup {f \in SUBSET Points : Occurs(u, Choose(f))}
    BY <1>1, <1>13 DEF Opened
  <2>4. Pending' = {f \in SUBSET Points : Occurs(u, Count(f))}
    BY <1>13 DEF Pending
  <2>5. Opened' = Opened /\ Pending' = Pending
    BY <2>2, <2>3, <2>4 DEF Opened, Pending
  <2> QED  BY <2>5, <1>0, <1>1, NodesStay
<1>17. PathAt(a0)'
  BY <1>1, <1>2, <1>12 DEF PathAt
<1>18. SeenAt(a0)'
  BY <1>1, <1>12 DEF SeenAt, Terminal, seen
<1>19. WorkAt(a0)'
  <2>1. SameWork(a, a0)
    BY <1>12 DEF SameWork
  <2> QED  BY <2>1, <1>1, <1>2, WorkMoved
<1>20. HeldAt(a0)'
  <2>1. ASSUME NEW r \in SUBSET Points
        PROVE  /\ Copies(r, refs') >= a0.held[r]
               /\ r \in Shared' => Copies(r, refs') >= a0.held[r] + 1
    <3>1. /\ a.held[r] \in Nat /\ Copies(r, refs) \in Nat
          /\ a0.held[r] = a.held[r] + (IF r = Regular(f2) THEN 1 ELSE 0)
      BY <1>2, <1>12, <1>14 DEF Annotations
    <3>2. Copies(r, refs) >= a.held[r] /\ (r \in Shared => Copies(r, refs) >= a.held[r] + 1)
      BY <1>2 DEF HeldAt
    <3>3. Copies(r, refs') = Copies(r, refs) + (IF r = Regular(f2) THEN 1 ELSE 0)
      BY <1>14
    <3> QED  BY <3>1, <3>2, <3>3, <1>16
  <2> QED  BY <2>1 DEF HeldAt, Copies
<1>21. Undone'
  BY <1>1, <1>11, <1>13, <1>17, <1>18, <1>19, <1>20, UndoneNext
<1> QED  BY <1>0, <1>1, <1>15, <1>16, <1>21, FrameKept DEF IInv

-----------------------------------------------------------------------------
(* The steps of extract_esop. *)

\* A path without literals covers all points.
LEMMA OnNothing ==
  ASSUME NEW env, \A v \in Vars : env[v] = "UNUSED"
  PROVE  On(env) = Points
  BY DEF On

\* The annotations of the extraction of f, from its beginning.
LEMMA ExtractionBegins ==
  ASSUME Ordered, NEW f \in SUBSET Points
  PROVE  \E u, a : /\ u = <<Count(f), Call(f)>>
                   /\ u \in Seq(Entries) /\ a \in Annotations /\ Annotated(u, a)
                   /\ \A g : ~ Occurs(u, Choose(g)) /\ (Occurs(u, Count(g)) => g = f)
                   /\ a.env = [v \in Vars |-> "UNUSED"] /\ a.path = <<>> /\ a.used = {}
                   /\ a.rest = f /\ a.left = Least[f] /\ a.seen = {}
                   /\ a.held = [r \in SUBSET Points |-> 0]
<1> DEFINE none == [v \in Vars |-> "UNUSED"]
           zero == [r \in SUBSET Points |-> 0]
           a == [env |-> none, path |-> <<>>, used |-> {}, rest |-> f,
                 left |-> Least[f], seen |-> {}, held |-> zero]
           b == [env |-> none, path |-> <<>>, used |-> {}, rest |-> f,
                 left |-> Least[f], seen |-> {f}, held |-> zero]
           c == [env |-> none, path |-> <<>>, used |-> Cubes, rest |-> {},
                 left |-> 0, seen |-> {f}, held |-> zero]
           d == Count(f)
           e == Call(f)
<1>1. Least[f] \in Nat
  BY LeastFacts
<1>2. /\ none \in [Vars -> Literals] /\ zero \in [SUBSET Points -> Nat]
      /\ \A v \in Vars : none[v] = "UNUSED"
  BY DEF Literals
<1> HIDE DEF none, zero
<1>3. a \in Annotations /\ b \in Annotations /\ c \in Annotations
  BY <1>1, <1>2 DEF Annotations
<1>4. CountStep(f, a, b)
  BY DEF CountStep, SamePath, SameWork
<1>5. CallStep(f, b, c)
  <2>1. /\ 0 \in 0 .. NVars /\ Indep(f, 0)
        /\ \A v \in Vars : none[v] # "UNUSED" => v \in First(0)
    BY <1>2, NVarsAssumption, WidthAssumption DEF Indep, First
  <2>2. Agreeing(none, 0) \subseteq Cubes
    BY DEF Agreeing
  <2>3. {} = SymDiff(f, f \cap On(none))
    <3>1. f \cap On(none) = f
      BY <1>2, OnNothing
    <3> QED  BY <3>1 DEF SymDiff
  <2>4. /\ b.env = none /\ c.env = none /\ b.path = c.path /\ b.held = c.held
        /\ b.used = {} /\ c.used = Cubes /\ b.rest = f /\ c.rest = {}
        /\ b.left = c.left + Least[f] /\ b.seen = {f} /\ c.seen = {f}
    BY <1>1
  <2> HIDE DEF b, c
  <2>5. \E K \in 0 .. NVars :
          /\ Indep(f, K)
          /\ \A v \in Vars : b.env[v] # "UNUSED" => v \in First(K)
          /\ b.used \cap Agreeing(b.env, K) = {}
          /\ b.used \cup Agreeing(b.env, K) \subseteq c.used
    BY <2>1, <2>2, <2>4
  <2> QED  BY <2>3, <2>4, <2>5 DEF CallStep, SamePath
<1>6. Ended(c)
  BY DEF Ended
<1>7. a.env = none /\ a.path = <<>> /\ a.used = {} /\ a.rest = f /\ a.left = Least[f]
      /\ a.seen = {} /\ a.held = zero
  OBVIOUS
<1>8. d \in Entries /\ e \in Entries
  BY DEF Entries
<1> HIDE DEF a, b, c
<1>9. Step(d, a, b) /\ Step(e, b, c)
  BY <1>3, <1>4, <1>5 DEF Step
<1>10. \A g : Choose(g) \notin {d, e} /\ Count(g) # e /\ (Count(g) = d => g = f)
  BY EntryFacts
<1> HIDE DEF d, e
<1>11. <<>> \in Seq(Entries) /\ Annotated(<<>>, c) /\ \A x : ~ Occurs(<<>>, x)
  BY <1>6, AnnotatedEmpty DEF Occurs
<1> DEFINE t == <<e>> \o <<>>
           u == <<d>> \o t
<1>12. t \in Seq(Entries) /\ Annotated(t, b) /\ \A x : Occurs(t, x) <=> x = e
  BY <1>8, <1>9, <1>11, AnnotatedPush, OccursPush
<1>13. u = <<d, e>>
  <2>1. t = <<e>>
    OBVIOUS
  <2> HIDE DEF t
  <2> DEFINE w == <<d, e>>
  <2>2. w \in Seq(Entries) /\ Len(w) = 2 /\ w[1] = d /\ w[2] = e
    BY <1>8
  <2>3. u \in Seq(Entries) /\ Len(u) = 2 /\ u[1] = d /\ u[2] = e
    BY <1>8, <2>1
  <2> HIDE DEF u, w
  <2>4. \A i \in 1 .. 2 : u[i] = w[i]
    BY <2>2, <2>3
  <2>5. u = w
    BY <2>2, <2>3, <2>4, SeqEqual
  <2> QED  BY <2>5 DEF w
<1> HIDE DEF t
<1>14. u \in Seq(Entries) /\ Annotated(u, a) /\ \A x : Occurs(u, x) <=> x = d \/ x = e
  BY <1>8, <1>9, <1>12, AnnotatedPush, OccursPush
<1> HIDE DEF u
<1>15. \A g : ~ Occurs(u, Choose(g)) /\ (Occurs(u, Count(g)) => g = f)
  BY <1>10, <1>14
<1> QED  BY <1>3, <1>7, <1>13, <1>14, <1>15 DEF d, e, none, zero

\* An extraction begins with the whole function left.
LEMMA ExtractKeeps ==
  ASSUME IInv, Extract
  PROVE  IInv'
<1>0. Types /\ Costs /\ Results /\ Nodes /\ Undone
  BY DEF IInv
<1>1. PICK f \in bdd[Len(fncts) + 1] :
        /\ pc = "extract" /\ Len(fncts) < Len(bdd) /\ todo' = <<Count(f), Call(f)>>
        /\ m_exp_costs' = <<>> /\ m_esop' = {} /\ m_var_values' = [v \in Vars |-> "UNUSED"]
        /\ pc' = "generate"
        /\ bdd' = bdd /\ order' = order /\ fncts' = fncts /\ m_vars' = m_vars /\ refs' = refs
  BY DEF Extract
<1>2. Ordered /\ Len(fncts) \in Nat /\ Len(bdd) \in Nat
  BY <1>0, OutputFacts
<1>3. Len(fncts) + 1 \in 1 .. Len(bdd)
  BY <1>1, <1>2
<1>4. f \in SUBSET Points /\ bdd[Len(fncts) + 1] = {f} /\ f \in UNION ToSet(bdd)
  BY <1>0, <1>3, OutputFacts
<1>5. PICK u, a : /\ u = <<Count(f), Call(f)>>
                  /\ u \in Seq(Entries) /\ a \in Annotations /\ Annotated(u, a)
                  /\ \A g : ~ Occurs(u, Choose(g)) /\ (Occurs(u, Count(g)) => g = f)
                  /\ a.env = [v \in Vars |-> "UNUSED"] /\ a.path = <<>> /\ a.used = {}
                  /\ a.rest = f /\ a.left = Least[f] /\ a.seen = {}
                  /\ a.held = [r \in SUBSET Points |-> 0]
  BY <1>2, <1>4, ExtractionBegins
<1>6. todo' = u /\ m_vars = <<>>
  BY <1>0, <1>1, <1>5 DEF Undone
<1>7. Types'
  <2>1. m_var_values' \in [Vars -> Literals]
    BY <1>1 DEF Literals
  <2> QED  BY <2>1, <1>0, <1>1, <1>4, <1>5, <1>6 DEF Types
<1>8. Costs'
  BY <1>1 DEF Costs
<1>9. Opened' = {} /\ Pending' \subseteq {f}
  <2>1. Opened' = DOMAIN m_exp_costs' \cup {g \in SUBSET Points : Occurs(u, Choose(g))}
    BY <1>6 DEF Opened
  <2>2. Pending' = {g \in SUBSET Points : Occurs(u, Count(g))}
    BY <1>6 DEF Pending
  <2> QED  BY <2>1, <2>2, <1>1, <1>5
<1>10. Shared' = {}
  BY <1>1, <1>9, SharedKept
<1>11. Nodes'
  <2>1. Regular(f) \in Below(f) /\ Below(f)' = Below(f)
    BY <1>1, <1>2, <1>4, BelowSelf, OrderKept
  <2>2. \A g \in Opened' \cup Pending' :
          /\ g \in SUBSET Points
          /\ \E h \in (UNION ToSet(bdd')) \cup Shared' : Regular(g) \in Below(h)'
    BY <2>1, <1>1, <1>4, <1>9, OrderKept
  <2> QED  BY <2>2 DEF Nodes
<1>12. PathAt(a)' /\ SeenAt(a)'
  BY <1>1, <1>5, <1>6 DEF PathAt, SeenAt
<1>13. WorkAt(a)'
  <2>1. Target' = f /\ Target = f
    BY <1>1, <1>4 DEF Target
  <2>2. Least' = Least
    BY <1>1, OrderKept
  <2>3. EsopOf(m_esop') = {} /\ Cardinality(m_esop') = 0
    BY <1>1, EsopOfEmpty, FS_EmptySet
  <2>4. SymDiff(EsopOf(m_esop'), a.rest) = f
    BY <2>3, <1>5 DEF SymDiff
  <2>5. Cardinality(m_esop') + a.left = Least[f]
    <3>1. Least[f] \in Nat
      BY <1>2, <1>4, LeastFacts
    <3> QED  BY <3>1, <2>3, <1>5
  <2>6. EsopOf(m_esop)' = EsopOf(m_esop') /\ Cardinality(m_esop)' = Cardinality(m_esop')
    BY DEF EsopOf
  <2>7. m_esop' \subseteq a.used
    BY <1>1
  <2> QED  BY <2>1, <2>2, <2>4, <2>5, <2>6, <2>7 DEF WorkAt
<1>14. HeldAt(a)'
  <2>1. ASSUME NEW r \in SUBSET Points
        PROVE  Copies(r, refs') >= a.held[r] /\ r \notin Shared'
    <3>1. References(refs)
      BY <1>0 DEF Types
    <3>2. Copies(r, refs) \in Nat
      BY <3>1, <1>4, ReferenceAdded
    <3> QED  BY <3>2, <1>1, <1>5, <1>10
  <2> QED  BY <2>1 DEF HeldAt, Copies
<1>15. Undone'
  BY <1>1, <1>5, <1>6, <1>12, <1>13, <1>14, UndoneNext
<1> QED  BY <1>0, <1>1, <1>7, <1>8, <1>11, <1>15, FrameKept DEF IInv

\* One more ESOP has been extracted.
LEMMA ResultAdded ==
  ASSUME Results, order' = order, bdd' = bdd, fncts \in Seq(SUBSET Cubes),
         NEW s \in SUBSET Cubes, fncts' = Append(fncts, s),
         EsopOf(s) = Target, Cardinality(s) = Least[Target]
  PROVE  Results'
<1>1. /\ Len(fncts) \in Nat /\ Len(fncts') = Len(fncts) + 1
      /\ \A k \in 1 .. Len(fncts) : fncts'[k] = fncts[k]
      /\ fncts'[Len(fncts) + 1] = s
  OBVIOUS
<1>2. ASSUME NEW k \in 1 .. Len(fncts')
      PROVE  /\ EsopOf(fncts'[k]) = UNION bdd[k]
             /\ Cardinality(fncts'[k]) = Least[UNION bdd[k]]
  <2>1. CASE k \in 1 .. Len(fncts)
    BY <2>1, <1>1 DEF Results
  <2>2. CASE k \notin 1 .. Len(fncts)
    <3>1. k = Len(fncts) + 1
      BY <2>2, <1>1
    <3> QED  BY <3>1, <1>1 DEF Target
  <2> QED  BY <2>1, <2>2
<1>3. Least' = Least
  BY OrderKept
<1>4. \A k : /\ EsopOf(fncts[k])' = EsopOf(fncts'[k])
             /\ Cardinality(fncts[k])' = Cardinality(fncts'[k])
  BY DEF EsopOf
<1> QED  BY <1>2, <1>3, <1>4 DEF Results

\* A null pointer gives the ESOP of 0.
LEMMA ExtractNullKeeps ==
  ASSUME IInv, ExtractNull
  PROVE  IInv'
<1>0. Types /\ Costs /\ Results /\ Nodes /\ Undone
  BY DEF IInv
<1>1. /\ pc = "extract" /\ Len(fncts) < Len(bdd) /\ bdd[Len(fncts) + 1] = {}
      /\ fncts' = Append(fncts, {})
      /\ pc' = pc /\ bdd' = bdd /\ order' = order /\ m_vars' = m_vars
      /\ m_var_values' = m_var_values /\ m_exp_costs' = m_exp_costs
      /\ m_esop' = m_esop /\ refs' = refs /\ todo' = todo
  BY DEF ExtractNull
<1>2. fncts \in Seq(SUBSET Cubes) /\ Ordered /\ Len(fncts) \in Nat /\ Len(bdd) \in Nat
  BY <1>0, OutputFacts DEF Types
<1>3. Types'
  <2>1. fncts' \in Seq(SUBSET Cubes) /\ Len(fncts') <= Len(bdd)
    BY <1>1, <1>2
  <2> QED  BY <2>1, <1>0, <1>1 DEF Types
<1>4. Results'
  <2>1. Target = {}
    BY <1>1 DEF Target
  <2>2. Least[Zero] = 0
    BY <1>2, ZeroOne, LeastFacts DEF LeastFrom
  <2>3. EsopOf({}) = Target /\ Cardinality({}) = Least[Target]
    BY <2>1, <2>2, EsopOfEmpty, FS_EmptySet DEF Zero
  <2> QED  BY <2>3, <1>0, <1>1, <1>2, ResultAdded
<1>5. Nodes'
  <2>1. Opened' = Opened /\ Pending' = Pending
    BY <1>1 DEF Opened, Pending
  <2> QED  BY <2>1, <1>0, <1>1, NodesStay
<1>6. Undone'
  BY <1>0, <1>1 DEF Undone
<1> QED  BY <1>0, <1>1, <1>3, <1>4, <1>5, <1>6, FrameKept DEF IInv

\* An extraction ends with nothing left.
LEMMA ExtractedKeeps ==
  ASSUME IInv, Extracted
  PROVE  IInv'
<1>0. Types /\ Costs /\ Results /\ Nodes /\ Undone
  BY DEF IInv
<1>1. /\ pc = "generate" /\ todo = <<>> /\ fncts' = Append(fncts, m_esop) /\ pc' = "extract"
      /\ bdd' = bdd /\ order' = order /\ m_vars' = m_vars
      /\ m_var_values' = m_var_values /\ m_exp_costs' = m_exp_costs
      /\ m_esop' = m_esop /\ refs' = refs /\ todo' = todo
  BY DEF Extracted
<1>2. /\ fncts \in Seq(SUBSET Cubes) /\ Len(fncts) \in Nat /\ Len(bdd) \in Nat
      /\ m_esop \in SUBSET Cubes /\ Ordered
  BY <1>0, OutputFacts DEF Types
<1>3. PICK a \in Annotations : Ended(a) /\ PathAt(a) /\ WorkAt(a)
  <2>1. PICK a : a \in Annotations /\ Annotated(todo, a) /\ PathAt(a) /\ WorkAt(a)
    BY <1>0, <1>1 DEF Undone
  <2>2. Ended(a)
    BY <1>1, <2>1, AnnotatedEmpty
  <2> QED  BY <2>1, <2>2
<1>4. Types'
  <2>1. fncts' \in Seq(SUBSET Cubes) /\ Len(fncts') <= Len(bdd)
    BY <1>0, <1>1, <1>2 DEF Types
  <2> QED  BY <2>1, <1>0, <1>1 DEF Types
<1>5. Results'
  <2>1. Len(fncts) + 1 \in 1 .. Len(bdd)
    BY <1>0, <1>1, <1>2 DEF Types
  <2>2. Target \in SUBSET Points
    BY <2>1, <1>0, OutputFacts DEF Target
  <2>3. EsopOf(m_esop) = Target
    <3>1. SymDiff(EsopOf(m_esop), {}) = Target /\ EsopOf(m_esop) \in SUBSET Points
      BY <1>3 DEF WorkAt, Ended, EsopOf
    <3> QED  BY <3>1 DEF SymDiff
  <2>4. Cardinality(m_esop) = Least[Target]
    <3>1. Cardinality(m_esop) \in Nat
      BY <1>2, CubesFinite, FS_Subset, FS_CardinalityType
    <3> QED  BY <3>1, <1>3 DEF WorkAt, Ended
  <2> QED  BY <2>3, <2>4, <1>0, <1>1, <1>2, ResultAdded
<1>6. Nodes'
  <2>1. Opened' = Opened /\ Pending' = Pending
    BY <1>1 DEF Opened, Pending
  <2> QED  BY <2>1, <1>0, <1>1, NodesStay
<1>7. Undone'
  <2>1. m_vars = <<>> /\ \A v \in Vars : m_var_values[v] = "UNUSED"
    BY <1>3 DEF PathAt, Ended, Annotations, ToSet
  <2> QED  BY <2>1, <1>1 DEF Undone
<1> QED  BY <1>0, <1>1, <1>4, <1>5, <1>6, <1>7, FrameKept DEF IInv

\* All outputs have been extracted.
LEMMA ReturnKeeps ==
  ASSUME IInv, Return
  PROVE  IInv'
<1>0. Types /\ Costs /\ Results /\ Nodes /\ Undone
  BY DEF IInv
<1>1. /\ pc = "extract" /\ Len(fncts) = Len(bdd) /\ pc' = "done"
      /\ bdd' = bdd /\ order' = order /\ fncts' = fncts /\ m_vars' = m_vars
      /\ m_var_values' = m_var_values /\ m_exp_costs' = m_exp_costs
      /\ m_esop' = m_esop /\ refs' = refs /\ todo' = todo
  BY DEF Return
<1>2. Types'
  BY <1>0, <1>1 DEF Types
<1>3. Nodes'
  <2>1. Opened' = Opened /\ Pending' = Pending
    BY <1>1 DEF Opened, Pending
  <2> QED  BY <2>1, <1>0, <1>1, NodesStay
<1>4. Undone'
  BY <1>0, <1>1 DEF Undone
<1> QED  BY <1>0, <1>1, <1>2, <1>3, <1>4, FrameKept DEF IInv

\* Nothing happens.
LEMMA StutterKeeps ==
  ASSUME IInv, UNCHANGED vars
  PROVE  IInv'
<1>0. Types /\ Costs /\ Results /\ Nodes /\ Undone
  BY DEF IInv
<1>1. /\ pc' = pc /\ bdd' = bdd /\ order' = order /\ fncts' = fncts /\ m_vars' = m_vars
      /\ m_var_values' = m_var_values /\ m_exp_costs' = m_exp_costs
      /\ m_esop' = m_esop /\ refs' = refs /\ todo' = todo
  BY DEF vars
<1>2. Types'
  BY <1>0, <1>1 DEF Types
<1>3. Nodes' /\ Shared' = Shared
  <2>1. Opened' = Opened /\ Pending' = Pending
    BY <1>1 DEF Opened, Pending
  <2> QED  BY <2>1, <1>0, <1>1, NodesStay
<1>4. Undone'
  <2>1. CASE pc = "generate"
    <3>1. PICK a : /\ a \in Annotations /\ Annotated(todo, a)
                   /\ PathAt(a) /\ WorkAt(a) /\ SeenAt(a) /\ HeldAt(a)
      BY <1>0, <2>1 DEF Undone
    <3>2. PathAt(a)' /\ SeenAt(a)'
      BY <1>1, <3>1 DEF PathAt, SeenAt, Terminal
    <3>3. WorkAt(a)'
      BY <1>1, <3>1, WorkMoved DEF SameWork
    <3>4. HeldAt(a)'
      BY <1>1, <1>3, <3>1, HeldMoved
    <3> QED  BY <1>1, <2>1, <3>1, <3>2, <3>3, <3>4, UndoneNext
  <2>2. CASE pc # "generate"
    BY <1>0, <1>1, <2>2 DEF Undone
  <2> QED  BY <2>1, <2>2
<1> QED  BY <1>0, <1>1, <1>2, <1>3, <1>4, FrameKept DEF IInv

-----------------------------------------------------------------------------
(* The work that is left. *)

\* The bound on the steps for a node.
LEMMA MostFacts ==
  /\ Most[0] = 1
  /\ \A h \in Nat : /\ Most[h] \in Nat /\ Most[h] >= 1
                    /\ Most[h + 1] = 6 * Most[h]
<1> DEFINE G == [p \in Nat \X Nat |-> 6 * p[2]]
<1>1. \A n \in Nat, m \in Nat : G[<<n, m>>] = 6 * m
  <2>1. \A n \in Nat, m \in Nat : <<n, m>> \in Nat \X Nat /\ <<n, m>>[2] = m
    OBVIOUS
  <2> QED  BY <2>1
<1>2. G \in [Nat \X Nat -> Nat]
  <2>1. \A p \in Nat \X Nat : 6 * p[2] \in Nat
    OBVIOUS
  <2> QED  BY <2>1
<1> HIDE DEF G
<1>3. PICK f \in [Nat -> Nat] : StepsBy(f, 1, G)
  BY <1>2, Recursion
<1>4. f[0] = 1 /\ \A n \in Nat : f[n + 1] = 6 * f[n]
  <2>1. \A n \in Nat : n + 1 \in Nat /\ f[n] \in Nat
    BY <1>3
  <2> QED  BY <1>1, <1>3, <2>1 DEF StepsBy
<1>5. \A h \in Nat : h # 0 => f[h] = 6 * f[h - 1]
  <2> SUFFICES ASSUME NEW h \in Nat, h # 0 PROVE f[h] = 6 * f[h - 1]
    OBVIOUS
  <2>1. h - 1 \in Nat /\ h = (h - 1) + 1
    OBVIOUS
  <2> QED  BY <1>4, <2>1
<1>6. f = [h \in Nat |-> IF h = 0 THEN 1 ELSE 6 * f[h - 1]]
  BY <1>4, <1>5
<1>7. Most = [h \in Nat |-> IF h = 0 THEN 1 ELSE 6 * Most[h - 1]]
  BY <1>6 DEF Most
<1>8. Most[0] = 1 /\ \A h \in Nat : Most[h + 1] = 6 * Most[h]
  <2>1. \A h \in Nat : h + 1 \in Nat /\ h + 1 # 0 /\ (h + 1) - 1 = h
    OBVIOUS
  <2> PICK M : M = Most
    OBVIOUS
  <2>2. M = [h \in Nat |-> IF h = 0 THEN 1 ELSE 6 * M[h - 1]]
    BY <1>7
  <2>3. M[0] = 1 /\ \A h \in Nat : M[h + 1] = 6 * M[h]
    BY <2>1, <2>2
  <2> QED  BY <2>3
<1> DEFINE S == {h \in Nat : Most[h] \in Nat /\ Most[h] >= 1}
<1>9. 0 \in S /\ \A h \in Nat : h \in S => h + 1 \in S
  BY <1>8
<1> HIDE DEF S
<1>10. \A h \in Nat : h \in S
  BY <1>9, AllNumbers
<1> QED  BY <1>8, <1>10 DEF S

\* It grows with the height of the node.
LEMMA MostGrows ==
  \A h \in Nat : \A k \in 0 .. h : Most[k] <= Most[h]
<1> DEFINE S == {h \in Nat : \A k \in 0 .. h : Most[k] <= Most[h]}
<1>1. 0 \in S
  BY MostFacts
<1>2. ASSUME NEW h \in Nat, h \in S PROVE h + 1 \in S
  <2> SUFFICES ASSUME NEW k \in 0 .. h + 1 PROVE Most[k] <= Most[h + 1]
    OBVIOUS
  <2>1. /\ Most[h] \in Nat /\ Most[h] <= Most[h + 1] /\ Most[h + 1] \in Nat
        /\ k \in Nat /\ Most[k] \in Nat
    BY MostFacts
  <2>2. k = h + 1 \/ k \in 0 .. h
    OBVIOUS
  <2>3. k \in 0 .. h => Most[k] <= Most[h]
    BY <1>2
  <2> QED  BY <2>1, <2>2, <2>3
<1> HIDE DEF S
<1>3. \A h \in Nat : h \in S
  BY <1>1, <1>2, AllNumbers
<1> QED  BY <1>3 DEF S

\* No node is higher than there are inputs.
LEMMA HeightFacts ==
  ASSUME Ordered, NEW f \in SUBSET Points
  PROVE  /\ Height(f) \in 0 .. NVars
         /\ f \notin Terminal => /\ Height(f) = NVars + 1 - Level(f)
                                 /\ Level(f) \in 1 .. NVars
<1>0. NVars \in Nat
  BY NVarsAssumption, WidthAssumption
<1>1. CASE f \in Terminal
  BY <1>0, <1>1 DEF Height
<1>2. CASE f \notin Terminal
  <2>1. 0 \in 0 .. NVars /\ Indep(f, 0)
    BY <1>0 DEF Indep, First
  <2>2. Level(f) \in 0 + 1 .. NVars
    BY <1>2, <2>1, LevelFacts
  <2> QED  BY <1>0, <1>2, <2>2 DEF Height
<1> QED  BY <1>1, <1>2

\* Three branches of a node, and three entries more, are less work than it.
LEMMA BranchesFall ==
  ASSUME Ordered, NEW f \in SUBSET Points, f \notin Terminal
  PROVE  \E m \in Nat : /\ m >= 1 /\ Most[Height(f)] = 6 * m
                        /\ \A i \in 1 .. 3 : /\ Most[Height(Branches(f)[i])] \in Nat
                                             /\ Most[Height(Branches(f)[i])] <= m
<1>0. NVars \in Nat
  BY NVarsAssumption, WidthAssumption
<1>1. /\ Height(f) = NVars + 1 - Level(f) /\ Level(f) \in 1 .. NVars
      /\ Level(f) \in 0 .. NVars
  BY <1>0, HeightFacts
<1>2. PICK h \in Nat : h = NVars - Level(f) /\ Height(f) = h + 1
  <2>1. NVars - Level(f) \in Nat /\ Height(f) = (NVars - Level(f)) + 1
    BY <1>0, <1>1
  <2> QED  BY <2>1
<1>3. ASSUME NEW i \in 1 .. 3
      PROVE  Most[Height(Branches(f)[i])] \in Nat /\ Most[Height(Branches(f)[i])] <= Most[h]
  <2> DEFINE b == Branches(f)[i]
  <2>1. b \in SUBSET Points /\ Indep(b, Level(f))
    BY BranchFacts
  <2> HIDE DEF b
  <2>2. Height(b) \in 0 .. h
    <3>1. CASE b \in Terminal
      BY <3>1 DEF Height
    <3>2. CASE b \notin Terminal
      <4>1. Level(b) \in Level(f) + 1 .. NVars
        BY <1>1, <2>1, <3>2, LevelFacts
      <4>2. Height(b) = NVars + 1 - Level(b)
        BY <2>1, <3>2, HeightFacts
      <4> QED  BY <1>0, <1>1, <1>2, <4>1, <4>2
    <3> QED  BY <3>1, <3>2
  <2>3. Height(b) \in Nat /\ Most[Height(b)] <= Most[h]
    BY <2>2, MostGrows
  <2> QED  BY <2>3, MostFacts DEF b
<1>4. Most[h] \in Nat /\ Most[h] >= 1 /\ Most[h + 1] = 6 * Most[h]
  BY MostFacts
<1> QED  BY <1>2, <1>3, <1>4

\* What the entries of the stack weigh.
LEMMA WeightFacts ==
  ASSUME Ordered, NEW e \in Entries
  PROVE  /\ Weight(e) \in Nat /\ Weight(e) >= 1
         /\ e.op \in {"count", "call"} => Weight(e) = Most[Height(e.f)]
         /\ e.op \notin {"count", "call"} => Weight(e) = 1
<1>1. e.op \in {"count", "call"} => e.f \in SUBSET Points
  BY EntryFacts DEF Entries
<1>2. e.op \in {"count", "call"} => Height(e.f) \in Nat
  <2>1. 0 .. NVars \subseteq Nat
    BY NVarsAssumption, WidthAssumption
  <2> QED  BY <1>1, <2>1, HeightFacts
<1>3. e.op \in {"count", "call"} => Most[Height(e.f)] \in Nat /\ Most[Height(e.f)] >= 1
  BY <1>2, MostFacts
<1> QED  BY <1>3 DEF Weight

-----------------------------------------------------------------------------
(* The work of a list of entries. *)

LeftFrom(h, t) ==
  [n \in 0 .. Len(t) |-> IF n = 0 THEN 0 ELSE h[n - 1] + Weight(t[Len(t) + 1 - n])]

\* The sums that Left adds up, from the last entry on.
Lefts(t) == CHOOSE h : h = LeftFrom(h, t)

\* They exist.
LEMMA LeftsFacts ==
  ASSUME Ordered, NEW t \in Seq(Entries)
  PROVE  /\ Left(t) = Lefts(t)[Len(t)]
         /\ Lefts(t) \in [0 .. Len(t) -> Nat]
         /\ Lefts(t)[0] = 0
         /\ \A n \in 1 .. Len(t) :
              Lefts(t)[n] = Lefts(t)[n - 1] + Weight(t[Len(t) + 1 - n])
<1> PICK N : N = Len(t)
  OBVIOUS
<1>0. N \in Nat /\ \A n \in 1 .. N : N + 1 - n \in 1 .. N
  OBVIOUS
<1> DEFINE w(n) == Weight(t[N + 1 - n])
           G == [p \in (1 .. N) \X Nat |-> p[2] + w(p[1])]
<1>1. \A n \in 1 .. N : w(n) \in Nat
  <2>1. \A n \in 1 .. N : t[N + 1 - n] \in Entries
    BY <1>0, ElementOfSeq
  <2> QED  BY <2>1, WeightFacts
<1> HIDE DEF w
<1>2. \A n \in 1 .. N, m \in Nat : G[<<n, m>>] = m + w(n)
  <2>1. \A n \in 1 .. N, m \in Nat :
          <<n, m>> \in (1 .. N) \X Nat /\ <<n, m>>[1] = n /\ <<n, m>>[2] = m
    OBVIOUS
  <2> QED  BY <2>1
<1>3. G \in [(1 .. N) \X Nat -> Nat]
  <2>1. \A p \in (1 .. N) \X Nat : p[1] \in 1 .. N /\ p[2] \in Nat
    OBVIOUS
  <2>2. \A p \in (1 .. N) \X Nat : p[2] + w(p[1]) \in Nat
    BY <1>1, <2>1
  <2> QED  BY <2>2
<1> HIDE DEF G
<1>4. PICK f \in [0 .. N -> Nat] : StepsUpto(f, N, 0, G)
  BY <1>0, <1>3, RecursionUpto
<1>5. f[0] = 0 /\ \A n \in 1 .. N : f[n] = f[n - 1] + w(n)
  <2>1. \A n \in 1 .. N : f[n - 1] \in Nat
    <3>1. \A n \in 1 .. N : n - 1 \in 0 .. N
      BY <1>0
    <3> QED  BY <1>4, <3>1
  <2> QED  BY <1>2, <1>4, <2>1 DEF StepsUpto
<1>6. \A n \in 0 .. N : n # 0 => n \in 1 .. N /\ n - 1 \in 0 .. N
  BY <1>0
<1>7. f = LeftFrom(f, t)
  BY <1>5, <1>6 DEF LeftFrom, w
<1>8. Lefts(t) = LeftFrom(Lefts(t), t)
  BY <1>7 DEF Lefts
<1>9. Left(t) = Lefts(t)[Len(t)]
  BY DEF Left, Lefts, LeftFrom
<1> PICK L : L = Lefts(t)
  OBVIOUS
<1>10. L = [n \in 0 .. N |-> IF n = 0 THEN 0 ELSE L[n - 1] + w(n)]
  BY <1>8 DEF LeftFrom, w
<1>11. 0 \in 0 .. N /\ L[0] = 0 /\ \A n \in 1 .. N : L[n] = L[n - 1] + w(n)
  <2>1. \A n \in 1 .. N : n \in 0 .. N /\ n # 0
    BY <1>0
  <2> QED  BY <1>0, <1>10, <2>1
<1> DEFINE S == {n \in Nat : n \in 0 .. N => L[n] \in Nat}
<1>12. 0 \in S
  BY <1>11
<1>13. ASSUME NEW n \in Nat, n \in S PROVE n + 1 \in S
  <2> SUFFICES ASSUME n + 1 \in 0 .. N PROVE L[n + 1] \in Nat
    OBVIOUS
  <2>1. n \in 0 .. N /\ n + 1 \in 1 .. N /\ (n + 1) - 1 = n
    BY <1>0
  <2>2. L[n] \in Nat /\ w(n + 1) \in Nat /\ L[n + 1] = L[n] + w(n + 1)
    BY <1>1, <1>11, <1>13, <2>1
  <2> QED  BY <2>2
<1> HIDE DEF S
<1>14. \A n \in Nat : n \in S
  BY <1>12, <1>13, AllNumbers
<1>15. \A n \in 0 .. N : L[n] \in Nat
  BY <1>14, <1>0 DEF S
<1>16. L \in [0 .. N -> Nat]
  BY <1>10, <1>15
<1> QED  BY <1>9, <1>11, <1>16 DEF w

\* Nothing is left of an empty list, and an entry adds its weight.
LEMMA LeftFacts ==
  ASSUME Ordered, NEW t \in Seq(Entries)
  PROVE  /\ Left(t) \in Nat
         /\ t = <<>> => Left(t) = 0
         /\ \A e \in Entries : Left(<<e>> \o t) = Weight(e) + Left(t)
<1> PICK N : N = Len(t)
  OBVIOUS
<1>0. N \in Nat
  OBVIOUS
<1> PICK L : L = Lefts(t)
  OBVIOUS
<1>1. /\ Left(t) = L[N] /\ L[0] = 0
      /\ \A n \in 0 .. N : L[n] \in Nat
      /\ \A n \in 1 .. N : L[n] = L[n - 1] + Weight(t[N + 1 - n])
  BY LeftsFacts
<1>2. ASSUME NEW e \in Entries PROVE Left(<<e>> \o t) = Weight(e) + Left(t)
  <2> DEFINE u == <<e>> \o t
  <2>1. /\ u \in Seq(Entries) /\ Len(u) = N + 1 /\ u[1] = e
        /\ \A i \in 1 .. N : u[i + 1] = t[i]
    OBVIOUS
  <2> HIDE DEF u
  <2> PICK U : U = Lefts(u)
    OBVIOUS
  <2>2. /\ Left(u) = U[N + 1] /\ U[0] = 0
        /\ \A n \in 1 .. N + 1 : U[n] = U[n - 1] + Weight(u[(N + 1) + 1 - n])
    BY <2>1, LeftsFacts
  <2> DEFINE S == {n \in Nat : n \in 0 .. N => U[n] = L[n]}
  <2>3. 0 \in S
    BY <1>1, <2>2
  <2>4. ASSUME NEW n \in Nat, n \in S PROVE n + 1 \in S
    <3> SUFFICES ASSUME n + 1 \in 0 .. N PROVE U[n + 1] = L[n + 1]
      OBVIOUS
    <3>1. /\ n \in 0 .. N /\ n + 1 \in 1 .. N /\ n + 1 \in 1 .. N + 1 /\ (n + 1) - 1 = n
          /\ N + 1 - (n + 1) \in 1 .. N
          /\ (N + 1) + 1 - (n + 1) = (N + 1 - (n + 1)) + 1
      BY <1>0
    <3>2. u[(N + 1) + 1 - (n + 1)] = t[N + 1 - (n + 1)]
      BY <2>1, <3>1
    <3>3. U[n + 1] = U[n] + Weight(u[(N + 1) + 1 - (n + 1)])
      BY <2>2, <3>1
    <3>4. L[n + 1] = L[n] + Weight(t[N + 1 - (n + 1)])
      BY <1>1, <3>1
    <3> QED  BY <2>4, <3>1, <3>2, <3>3, <3>4
  <2> HIDE DEF S
  <2>5. N \in S
    BY <1>0, <2>3, <2>4, AllNumbers
  <2>6. U[N] = L[N]
    BY <1>0, <2>5 DEF S
  <2>7. U[N + 1] = U[N] + Weight(e)
    <3>1. N + 1 \in 1 .. N + 1 /\ (N + 1) - 1 = N /\ (N + 1) + 1 - (N + 1) = 1
      BY <1>0
    <3> QED  BY <2>1, <2>2, <3>1
  <2>8. Weight(e) \in Nat /\ L[N] \in Nat
    BY <1>0, <1>1, WeightFacts
  <2> QED  BY <1>1, <2>2, <2>6, <2>7, <2>8 DEF u
<1> QED  BY <1>0, <1>1, <1>2

\* The same of four entries.
LEMMA LeftOfFour ==
  ASSUME Ordered, NEW t \in Seq(Entries), NEW q \in Seq(Entries), Len(q) = 4
  PROVE  Left(q \o t) = Weight(q[1]) + (Weight(q[2]) + (Weight(q[3]) + (Weight(q[4]) + Left(t))))
<1>1. q[1] \in Entries /\ q[2] \in Entries /\ q[3] \in Entries /\ q[4] \in Entries
  <2>1. \A i \in 1 .. 4 : q[i] \in Entries
    BY ElementOfSeq
  <2> QED  BY <2>1
<1> DEFINE t4 == <<q[4]>> \o t
           t3 == <<q[3]>> \o t4
           t2 == <<q[2]>> \o t3
<1>2. q \o t = <<q[1]>> \o t2
  BY FourFirst
<1>3. t4 \in Seq(Entries) /\ Left(t4) = Weight(q[4]) + Left(t)
  BY <1>1, LeftFacts
<1> HIDE DEF t4
<1>4. t3 \in Seq(Entries) /\ Left(t3) = Weight(q[3]) + Left(t4)
  BY <1>1, <1>3, LeftFacts
<1> HIDE DEF t3
<1>5. t2 \in Seq(Entries) /\ Left(t2) = Weight(q[2]) + Left(t3)
  BY <1>1, <1>4, LeftFacts
<1> HIDE DEF t2
<1>6. Left(<<q[1]>> \o t2) = Weight(q[1]) + Left(t2)
  BY <1>1, <1>5, LeftFacts
<1> QED  BY <1>2, <1>3, <1>4, <1>5, <1>6

\* The work of a list depends on the order of the inputs only.
LEMMA LeftKept ==
  ASSUME order' = order
  PROVE  \A t : Left(t)' = Left(t)
<1>1. \A f : Level(f)' = Level(f)
  BY DEF Level, E, T
<1>2. \A f : Height(f)' = Height(f)
  BY <1>1 DEF Height, Terminal
<1>3. \A e : Weight(e)' = Weight(e)
  BY <1>2 DEF Weight
<1>4. \A h, t : LeftFrom(h, t)' = LeftFrom(h, t)
  BY <1>3 DEF LeftFrom
<1>5. \A t : Lefts(t)' = Lefts(t)
  BY <1>4 DEF Lefts
<1>6. \A t : Left(t) = Lefts(t)[Len(t)]
  BY DEF Left, Lefts, LeftFrom
<1>7. \A t : Left(t)' = Lefts(t)'[Len(t)]
  BY DEF Left, Lefts, LeftFrom
<1> QED  BY <1>5, <1>6, <1>7

-----------------------------------------------------------------------------
(* Every step leaves less to do. *)

\* What is left after a step is the work of the new list.
LEMMA LeftNext ==
  ASSUME order' = order
  PROVE  Left(todo)' = Left(todo')
<1>1. PICK t : t = todo'
  OBVIOUS
<1>2. Left(todo)' = Left(t)'
  BY <1>1 DEF Left, Weight, Height, Level, Terminal, E, T
<1>3. Left(t)' = Left(t)
  BY LeftKept
<1> QED  BY <1>1, <1>2, <1>3

\* What may be left of the outputs that have not been extracted.
Each == 2 * Most[NVars] + 2

\* It is a number, and counts the two steps at least.
LEMMA EachFacts == Each \in Nat /\ Each >= 2
<1>1. NVars \in Nat
  BY NVarsAssumption, WidthAssumption
<1>2. PICK m \in Nat : m = Most[NVars]
  BY <1>1, MostFacts
<1>3. 2 * m + 2 \in Nat /\ 2 * m + 2 >= 2
  OBVIOUS
<1> QED  BY <1>2, <1>3 DEF Each

LEMMA WorkIs ==
  ASSUME Types
  PROVE  LET outputs == Len(bdd) - Len(fncts) IN
           /\ outputs \in Nat /\ Each \in Nat /\ Each = 2 * Most[NVars] + 2
           /\ Each * outputs \in Nat
           /\ outputs # 0 => Each * outputs = Each * (outputs - 1) + Each
                             /\ Each * (outputs - 1) \in Nat
           /\ pc = "extract" => Work = 1 + Each * outputs
           /\ pc = "generate" => Work = 1 + Each * (outputs - 1) + 1 + Left(todo)
           /\ pc = "done" => Work = 0
<1> DEFINE outputs == Len(bdd) - Len(fncts)
<1>1. outputs \in Nat
  <2>1. Len(bdd) \in Nat /\ Len(fncts) \in Nat /\ Len(fncts) <= Len(bdd)
    BY OutputFacts DEF Types
  <2> QED  BY <2>1
<1>2. Each \in Nat /\ Each = 2 * Most[NVars] + 2
  BY MostFacts, NVarsAssumption, WidthAssumption DEF Each
<1>3. /\ pc = "extract" => Work = 1 + Each * outputs
      /\ pc = "generate" => Work = 1 + Each * (outputs - 1) + 1 + Left(todo)
      /\ pc = "done" => Work = 0
  BY DEF Work, Each
<1> HIDE DEF outputs
<1>4. \A e \in Nat, o \in Nat : /\ e * o \in Nat
                                /\ o # 0 => e * o = e * (o - 1) + e /\ e * (o - 1) \in Nat
  OBVIOUS
<1> QED  BY <1>1, <1>2, <1>3, <1>4 DEF outputs

\* A step of a recursion that leaves less in the list leaves less work.
LEMMA ListFalls ==
  ASSUME Types, Types', pc = "generate", pc' = pc, order' = order, bdd' = bdd, fncts' = fncts,
         Left(todo') < Left(todo)
  PROVE  Work' < Work
<1> DEFINE outputs == Len(bdd) - Len(fncts)
<1>1. /\ outputs \in Nat /\ outputs # 0 /\ Each * (outputs - 1) \in Nat
      /\ Work = 1 + Each * (outputs - 1) + 1 + Left(todo)
  <2>1. Len(bdd) \in Nat /\ Len(fncts) \in Nat /\ Len(fncts) < Len(bdd)
    BY OutputFacts DEF Types
  <2>2. outputs # 0
    BY <2>1
  <2> QED  BY <2>2, WorkIs
<1>2. Work' = 1 + Each * (outputs - 1) + 1 + Left(todo')
  <2>1. Work' = 1 + Each * (outputs - 1) + 1 + Left(todo)'
    BY DEF Work, Each
  <2> QED  BY <2>1, LeftNext
<1>3. Left(todo) \in Nat /\ Left(todo') \in Nat
  BY LeftFacts, OutputFacts DEF Types
<1> HIDE DEF outputs
<1> QED  BY <1>1, <1>2, <1>3

\* The first entry is taken off the list.
LEMMA PopFalls ==
  ASSUME IInv, IInv', pc = "generate", todo # <<>>, todo' = Tail(todo),
         pc' = pc, order' = order, bdd' = bdd, fncts' = fncts
  PROVE  Work' < Work
<1>1. Types /\ Types' /\ Ordered
  BY OutputFacts DEF IInv
<1>2. /\ Head(todo) \in Entries /\ Tail(todo) \in Seq(Entries)
      /\ todo = <<Head(todo)>> \o Tail(todo)
  BY <1>1 DEF Types
<1>3. Left(todo) = Weight(Head(todo)) + Left(Tail(todo))
  BY <1>1, <1>2, LeftFacts
<1>4. Weight(Head(todo)) >= 1 /\ Weight(Head(todo)) \in Nat /\ Left(Tail(todo)) \in Nat
  BY <1>1, <1>2, WeightFacts, LeftFacts
<1>5. Left(todo') < Left(todo)
  BY <1>3, <1>4
<1> QED  BY <1>1, <1>5, ListFalls

\* A node is counted: its branches are less than it.
LEMMA CountFalls ==
  ASSUME IInv, IInv', CountNode
  PROVE  Work' < Work
<1>0. Types /\ Types' /\ Ordered
  BY OutputFacts DEF IInv
<1> DEFINE n == node
           t == Tail(todo)
           b1 == Branches(n)[1]
           b2 == Branches(n)[2]
           b3 == Branches(n)[3]
           q == <<Count(b1), Count(b2), Count(b3), Choose(n)>>
<1>1. /\ pc = "generate" /\ todo # <<>> /\ Head(todo).op = "count" /\ n \notin Terminal
      /\ todo' = q \o t
      /\ pc' = pc /\ bdd' = bdd /\ order' = order /\ fncts' = fncts
  BY DEF CountNode, Doing
<1>2. Head(todo) \in Entries /\ t \in Seq(Entries) /\ todo = <<Head(todo)>> \o t
  BY <1>0, <1>1 DEF Types
<1>3. n \in SUBSET Points
  BY <1>1, <1>2, EntryFacts DEF Entries, node
<1>4. b1 \in SUBSET Points /\ b2 \in SUBSET Points /\ b3 \in SUBSET Points
  <2>1. 1 \in 1 .. 3 /\ 2 \in 1 .. 3 /\ 3 \in 1 .. 3
    OBVIOUS
  <2> QED  BY <2>1, BranchSets
<1>5. PICK m \in Nat : /\ m >= 1 /\ Most[Height(n)] = 6 * m
                       /\ \A i \in 1 .. 3 : /\ Most[Height(Branches(n)[i])] \in Nat
                                            /\ Most[Height(Branches(n)[i])] <= m
  BY <1>0, <1>1, <1>3, BranchesFall
<1> HIDE DEF b1, b2, b3
<1>6. /\ Count(b1) \in Entries /\ Count(b2) \in Entries /\ Count(b3) \in Entries
      /\ Choose(n) \in Entries
  BY <1>3, <1>4 DEF Entries
<1>7. /\ q \in Seq(Entries) /\ Len(q) = 4
      /\ q[1] = Count(b1) /\ q[2] = Count(b2) /\ q[3] = Count(b3) /\ q[4] = Choose(n)
  BY <1>6
<1> HIDE DEF q
<1>8. Left(q \o t) = Weight(Count(b1)) + (Weight(Count(b2)) + (Weight(Count(b3))
                       + (Weight(Choose(n)) + Left(t))))
  BY <1>0, <1>2, <1>7, LeftOfFour
<1>9. /\ Weight(Count(b1)) = Most[Height(b1)] /\ Weight(Count(b2)) = Most[Height(b2)]
      /\ Weight(Count(b3)) = Most[Height(b3)] /\ Weight(Choose(n)) = 1
      /\ Weight(Head(todo)) = Most[Height(n)]
  BY <1>1, EntryFacts DEF Weight, node
<1>10. /\ Most[Height(b1)] \in Nat /\ Most[Height(b1)] <= m
       /\ Most[Height(b2)] \in Nat /\ Most[Height(b2)] <= m
       /\ Most[Height(b3)] \in Nat /\ Most[Height(b3)] <= m
  BY <1>5 DEF b1, b2, b3
<1>11. Left(todo) = Most[Height(n)] + Left(t) /\ Left(t) \in Nat
  BY <1>0, <1>2, <1>9, LeftFacts
<1>12. Left(todo') < Left(todo)
  BY <1>1, <1>5, <1>8, <1>9, <1>10, <1>11
<1> QED  BY <1>0, <1>1, <1>12, ListFalls

\* A node is entered: two of its branches, and what guards them, are less.
LEMMA GenerateFalls ==
  ASSUME IInv, IInv', GenerateNode
  PROVE  Work' < Work
<1>0. Types /\ Types' /\ Ordered /\ Costs /\ Undone
  BY OutputFacts DEF IInv
<1> DEFINE n == node
           v == Top(n)
           f2 == Branches(n)[3]
           q == Expansion(n, v)
           t == Tail(todo)
           u == <<Leave(v, f2)>> \o t
<1>1. /\ pc = "generate" /\ todo # <<>> /\ Head(todo).op = "call" /\ n \notin Terminal
      /\ todo' = q \o <<Leave(v, f2)>> \o t
      /\ pc' = pc /\ bdd' = bdd /\ order' = order /\ fncts' = fncts
  BY DEF GenerateNode, Doing
<1>2. PICK a, b : /\ a \in Annotations /\ b \in Annotations /\ SeenAt(a)
                  /\ Step(Head(todo), a, b)
                  /\ Head(todo) \in Entries /\ t \in Seq(Entries)
  BY <1>0, <1>1, Doings
<1>3. Head(todo) = Call(n) /\ CallStep(n, a, b)
  BY <1>1, <1>2, StepOf DEF node
<1>4. /\ n \in SUBSET Points /\ n \in a.seen
      /\ v \in Vars /\ a.env \in [Vars -> Literals] /\ a.env[v] = "UNUSED"
  BY <1>0, <1>1, <1>2, <1>3, NodeCalled
<1>5. n \in DOMAIN m_exp_costs
  BY <1>1, <1>2, <1>4 DEF SeenAt
<1> DEFINE D == {Branches(n)[i] : i \in 1 .. 3}
<1>6. PICK p, c1, r, c2 : c1 \in D /\ c2 \in D /\ TwoCalls(q, v, p, c1, r, c2)
  BY <1>0, <1>4, <1>5, ExpansionCalls
<1>7. PICK m \in Nat : /\ m >= 1 /\ Most[Height(n)] = 6 * m
                       /\ \A i \in 1 .. 3 : /\ Most[Height(Branches(n)[i])] \in Nat
                                            /\ Most[Height(Branches(n)[i])] <= m
  BY <1>0, <1>1, <1>4, BranchesFall
<1>8. /\ Most[Height(c1)] \in Nat /\ Most[Height(c1)] <= m
      /\ Most[Height(c2)] \in Nat /\ Most[Height(c2)] <= m
  BY <1>6, <1>7
<1>9. f2 \in SUBSET Points
  <2>1. 3 \in 1 .. 3
    OBVIOUS
  <2> QED  BY <2>1, BranchSets
<1>10. /\ q \in Seq(Entries) /\ Len(q) = 4
       /\ q[1] = Set(v, p) /\ q[2] = Call(c1) /\ q[3] = Set(v, r) /\ q[4] = Call(c2)
  BY <1>6 DEF TwoCalls
<1>11. /\ Weight(Set(v, p)) = 1 /\ Weight(Set(v, r)) = 1 /\ Weight(Leave(v, f2)) = 1
       /\ Weight(Call(c1)) = Most[Height(c1)] /\ Weight(Call(c2)) = Most[Height(c2)]
       /\ Weight(Head(todo)) = Most[Height(n)]
  BY <1>1, EntryFacts DEF Weight, node
<1>12. todo = <<Head(todo)>> \o t
  BY <1>0, <1>1 DEF Types
<1> HIDE DEF D, n, v, f2, q, t
<1>13. Leave(v, f2) \in Entries
  BY <1>4, <1>9 DEF Entries
<1>14. /\ u \in Seq(Entries) /\ Left(t) \in Nat
       /\ Left(u) = 1 + Left(t) /\ Left(todo) = Most[Height(n)] + Left(t)
  <2>1. /\ Left(t) \in Nat
        /\ \A e \in Entries : Left(<<e>> \o t) = Weight(e) + Left(t)
    BY <1>0, <1>2, LeftFacts
  <2>2. u \in Seq(Entries)
    BY <1>2, <1>13
  <2>3. Left(u) = 1 + Left(t)
    BY <1>11, <1>13, <2>1
  <2>4. Left(todo) = Most[Height(n)] + Left(t)
    BY <1>2, <1>11, <1>12, <2>1
  <2> QED  BY <2>1, <2>2, <2>3, <2>4
<1>15. todo' = q \o u
  BY <1>1, <1>2, <1>10, <1>13, ConcatAssociative
<1> HIDE DEF u
<1>16. Left(q \o u) = 1 + (Most[Height(c1)] + (1 + (Most[Height(c2)] + Left(u))))
  BY <1>0, <1>10, <1>11, <1>14, LeftOfFour
<1>17. Left(todo') < Left(todo)
  BY <1>7, <1>8, <1>14, <1>15, <1>16
<1> QED  BY <1>0, <1>1, <1>17, ListFalls

\* The next output is begun, or passed over.
LEMMA ExtractFalls ==
  ASSUME IInv, IInv', Extract \/ ExtractNull
  PROVE  Work' < Work
<1>0. Types /\ Types' /\ Ordered
  BY OutputFacts DEF IInv
<1> DEFINE outputs == Len(bdd) - Len(fncts)
<1>1. /\ pc = "extract" /\ Len(fncts) < Len(bdd) /\ order' = order /\ bdd' = bdd
      /\ Len(bdd) \in Nat /\ Len(fncts) \in Nat
  BY <1>0, OutputFacts DEF Extract, ExtractNull
<1>2. /\ outputs # 0 /\ Each \in Nat /\ Each = 2 * Most[NVars] + 2
      /\ Work = 1 + Each * outputs
      /\ Each * outputs = Each * (outputs - 1) + Each /\ Each * (outputs - 1) \in Nat
  <2>1. outputs # 0
    BY <1>1
  <2> QED  BY <1>0, <1>1, <2>1, WorkIs
<1>3. CASE Extract
  <2>1. PICK f \in bdd[Len(fncts) + 1] : todo' = <<Count(f), Call(f)>>
    BY <1>3 DEF Extract
  <2>2. pc' = "generate" /\ fncts' = fncts
    BY <1>3 DEF Extract
  <2>3. f \in SUBSET Points
    <3>1. Len(fncts) + 1 \in 1 .. Len(bdd)
      BY <1>1
    <3> QED  BY <3>1, <1>0, <2>1, OutputFacts
  <2>4. Work' = 1 + Each * (outputs - 1) + 1 + Left(todo')
    <3>1. Work' = 1 + Each * (outputs - 1) + 1 + Left(todo)'
      BY <1>1, <2>2 DEF Work, Each
    <3> QED  BY <3>1, <1>1, LeftNext
  <2>5. Left(todo') = Most[Height(f)] + Most[Height(f)] /\ Most[Height(f)] \in Nat
    <3>1. Count(f) \in Entries /\ Call(f) \in Entries
      BY <2>3 DEF Entries
    <3>2. todo' = <<Count(f)>> \o (<<Call(f)>> \o <<>>) /\ <<>> \in Seq(Entries)
          /\ <<Call(f)>> \o <<>> \in Seq(Entries)
      BY <2>1, <3>1
    <3>3. Weight(Count(f)) = Most[Height(f)] /\ Weight(Call(f)) = Most[Height(f)]
      BY EntryFacts DEF Weight
    <3>4. Left(<<Call(f)>> \o <<>>) = Weight(Call(f)) + Left(<<>>) /\ Left(<<>>) = 0
      BY <1>0, <3>1, <3>2, LeftFacts
    <3>5. Left(todo') = Weight(Count(f)) + Left(<<Call(f)>> \o <<>>)
      BY <1>0, <3>1, <3>2, LeftFacts
    <3>6. Weight(Call(f)) \in Nat
      BY <1>0, <3>1, WeightFacts
    <3> QED  BY <3>3, <3>4, <3>5, <3>6
  <2>6. Most[Height(f)] <= Most[NVars] /\ Most[NVars] \in Nat
    <3>1. NVars \in Nat /\ Height(f) \in 0 .. NVars
      BY <1>0, <2>3, HeightFacts, NVarsAssumption, WidthAssumption
    <3> QED  BY <3>1, MostGrows, MostFacts
  <2> HIDE DEF outputs
  <2> QED  BY <1>2, <2>4, <2>5, <2>6
<1>4. CASE ExtractNull
  <2>1. fncts' = Append(fncts, {}) /\ pc' = "extract"
    BY <1>1, <1>4 DEF ExtractNull
  <2>2. Len(fncts') = Len(fncts) + 1
    BY <1>0, <2>1 DEF Types
  <2>3. Len(bdd') - Len(fncts') = outputs - 1
    BY <1>1, <2>2
  <2>4. Work' = 1 + Each * (outputs - 1)
    <3>1. Work' = 1 + Each * (Len(bdd') - Len(fncts'))
      BY <2>1 DEF Work, Each
    <3> QED  BY <3>1, <2>3
  <2>5. Each >= 2
    BY EachFacts
  <2> HIDE DEF outputs
  <2> QED  BY <1>2, <2>4, <2>5
<1> QED  BY <1>3, <1>4

\* An output is done with, or all are.
LEMMA EndFalls ==
  ASSUME IInv, IInv', Extracted \/ Return
  PROVE  Work' < Work
<1>0. Types /\ Types' /\ Ordered
  BY OutputFacts DEF IInv
<1> DEFINE outputs == Len(bdd) - Len(fncts)
<1>1. outputs \in Nat /\ Each * outputs \in Nat
      /\ (outputs # 0 => Each * (outputs - 1) \in Nat)
  BY <1>0, WorkIs
<1>2. CASE Extracted
  <2>1. /\ pc = "generate" /\ todo = <<>> /\ fncts' = Append(fncts, m_esop)
        /\ pc' = "extract" /\ bdd' = bdd
    BY <1>2 DEF Extracted
  <2>2. Len(bdd) \in Nat /\ Len(fncts) \in Nat /\ Len(fncts) < Len(bdd)
    BY <1>0, <2>1, OutputFacts DEF Types
  <2>3. outputs # 0 /\ Len(bdd') - Len(fncts') = outputs - 1
    BY <2>1, <2>2
  <2>4. Work = 1 + Each * (outputs - 1) + 1 + Left(todo) /\ Left(todo) \in Nat
    <3>1. todo \in Seq(Entries)
      BY <1>0 DEF Types
    <3> QED  BY <3>1, <1>0, <2>1, WorkIs, LeftFacts
  <2>5. Work' = 1 + Each * (outputs - 1)
    <3>1. Work' = 1 + Each * (Len(bdd') - Len(fncts'))
      BY <2>1 DEF Work, Each
    <3> QED  BY <3>1, <2>3
  <2> HIDE DEF outputs
  <2> QED  BY <1>1, <2>3, <2>4, <2>5
<1>3. CASE Return
  <2>1. pc = "extract" /\ pc' = "done"
    BY <1>3 DEF Return
  <2>2. Work = 1 + Each * outputs
    BY <1>0, <2>1, WorkIs
  <2>3. Work' = 0
    BY <2>1 DEF Work
  <2> HIDE DEF outputs
  <2> QED  BY <1>1, <2>2, <2>3
<1> QED  BY <1>2, <1>3

\* Every step but the last stutter leaves less to do.
LEMMA StepFalls ==
  ASSUME IInv, IInv', Next
  PROVE  Work' < Work \/ UNCHANGED vars
<1>1. CASE Extract \/ ExtractNull
  BY <1>1, ExtractFalls
<1>2. CASE Extracted \/ Return
  BY <1>2, EndFalls
<1>3. CASE CountNode
  BY <1>3, CountFalls
<1>4. CASE GenerateNode
  BY <1>4, GenerateFalls
<1>5. CASE CountKnown
  BY <1>5, PopFalls DEF CountKnown, Doing
<1>6. CASE ChooseExpansion
  BY <1>6, PopFalls DEF ChooseExpansion, Doing
<1>7. CASE GenerateZero
  BY <1>7, PopFalls DEF GenerateZero, Doing
<1>8. CASE GenerateOne
  BY <1>8, PopFalls DEF GenerateOne, Doing
<1>9. CASE SetValue
  BY <1>9, PopFalls DEF SetValue, Doing
<1>10. CASE LeaveNode
  BY <1>10, PopFalls DEF LeaveNode, Doing
<1>11. CASE Terminated
  BY <1>11 DEF Terminated
<1> QED  BY <1>1, <1>2, <1>3, <1>4, <1>5, <1>6, <1>7, <1>8, <1>9, <1>10, <1>11 DEF Next

-----------------------------------------------------------------------------
(* The theorems. *)

\* Nothing has been extracted yet.
LEMMA InitHolds == Init => IInv
<1> SUFFICES ASSUME Init PROVE IInv
  OBVIOUS
<1>1. /\ pc = "extract" /\ bdd \in Outputs /\ order \in Orders
      /\ fncts = <<>> /\ m_vars = <<>> /\ m_var_values = [v \in Vars |-> "UNUSED"]
      /\ m_exp_costs = <<>> /\ m_esop = {} /\ refs = EmptyBag /\ todo = <<>>
  BY DEF Init
<1>2. References(refs)
  <2>1. DOMAIN refs = {}
    BY <1>1 DEF EmptyBag, SetToBag
  <2>2. refs = [r \in {} |-> 1]
    BY <1>1 DEF EmptyBag, SetToBag
  <2> QED  BY <2>1, <2>2 DEF References
<1>3. Len(bdd) \in Nat /\ Len(fncts) = 0
  BY <1>1, OutputsAssumption
<1>4. m_var_values \in [Vars -> Literals]
  BY <1>1 DEF Literals
<1>5. fncts \in Seq(SUBSET Cubes) /\ todo \in Seq(Entries) /\ m_vars \in Seq(Vars)
  BY <1>1
<1>6. Types
  BY <1>1, <1>2, <1>3, <1>4, <1>5 DEF Types
<1>7. Costs /\ Results
  BY <1>1, <1>3 DEF Costs, Results
<1>8. Nodes
  <2>1. Opened = {} /\ Pending = {}
    BY <1>1 DEF Opened, Pending, Occurs
  <2> QED  BY <2>1 DEF Nodes
<1>9. Undone
  BY <1>1 DEF Undone
<1> QED  BY <1>6, <1>7, <1>8, <1>9 DEF IInv

\* Every step of the extraction keeps the inductive invariant.
LEMMA StepKeeps ==
  ASSUME IInv, [Next]_vars
  PROVE  IInv'
<1>1. CASE Extract
  BY <1>1, ExtractKeeps
<1>2. CASE ExtractNull
  BY <1>2, ExtractNullKeeps
<1>3. CASE Extracted
  BY <1>3, ExtractedKeeps
<1>4. CASE Return
  BY <1>4, ReturnKeeps
<1>5. CASE CountKnown
  BY <1>5, CountKnownKeeps
<1>6. CASE CountNode
  BY <1>6, CountNodeKeeps
<1>7. CASE ChooseExpansion
  BY <1>7, ChooseKeeps
<1>8. CASE GenerateZero
  BY <1>8, GenerateZeroKeeps
<1>9. CASE GenerateOne
  BY <1>9, GenerateOneKeeps
<1>10. CASE GenerateNode
  BY <1>10, GenerateNodeKeeps
<1>11. CASE SetValue
  BY <1>11, SetValueKeeps
<1>12. CASE LeaveNode
  BY <1>12, LeaveNodeKeeps
<1>13. CASE Terminated
  BY <1>13, StutterKeeps DEF Terminated
<1>14. CASE UNCHANGED vars
  BY <1>14, StutterKeeps
<1> QED  BY <1>1, <1>2, <1>3, <1>4, <1>5, <1>6, <1>7, <1>8, <1>9, <1>10, <1>11, <1>12,
            <1>13, <1>14 DEF Next

\* The inductive invariant: whatever bdd_extract still has to do, it can be
\* annotated with the path, the function and the number of cubes left
\* (source/bdd/collapse.cpp:25-167).
THEOREM Invariant == Spec => []IInv
<1> QED  BY InitHolds, StepKeeps, PTL DEF Spec

\* The assertion of generate_exact (source/bdd/collapse.cpp:94) never fails:
\* the cost of every node that is expanded has been counted.
THEOREM CountedAlways == Spec => []Counted
<1>1. ASSUME IInv PROVE Counted
  <2> SUFFICES ASSUME Doing("call"), node \notin Terminal PROVE node \in DOMAIN m_exp_costs
    BY DEF Counted
  <2>1. /\ Types /\ Undone /\ pc = "generate" /\ todo # <<>> /\ Head(todo).op = "call"
    BY <1>1 DEF IInv, Doing
  <2>2. PICK a, b : SeenAt(a) /\ Step(Head(todo), a, b)
    BY <2>1, Doings
  <2>3. node \in a.seen
    BY <2>1, <2>2, StepOf DEF node, CallStep
  <2> QED  BY <2>2, <2>3 DEF SeenAt
<1> QED  BY <1>1, Invariant, PTL

\* Each ESOP that extract_esop returns (source/bdd/collapse.cpp:25-37) has the
\* function of its output, also when the manager has extracted others before.
THEOREM ExtractsAlways == Spec => []Extracts
<1>1. IInv => Extracts
  BY DEF IInv, Results, Extracts
<1> QED  BY <1>1, Invariant, PTL

\* Each ESOP has the least number of cubes of a pseudo-Kronecker expression under
\* the order of the inputs: leaving out the most costly branch of each node
\* (count_cubes, source/bdd/collapse.cpp:130-167) is optimal.
THEOREM LeastAlways == Spec => []LeastCubes
<1>1. IInv => LeastCubes
  BY DEF IInv, Results, LeastCubes
<1> QED  BY <1>1, Invariant, PTL

\* m_vars, which extract_esop does not clear, and m_var_values are those of an
\* empty path between two outputs.
THEOREM PathUnwoundAlways == Spec => []PathUnwound
<1>1. IInv => PathUnwound
  BY DEF IInv, Undone, PathUnwound
<1> QED  BY <1>1, Invariant, PTL

\* While cubes are generated, CUDD keeps every node that is a key of m_exp_costs:
\* the references that count_cubes never gives back are enough.
THEOREM NodesKeptAlways == Spec => []NodesKept
<1>1. ASSUME IInv PROVE NodesKept
  <2> SUFFICES ASSUME Doing("call"), NEW f \in DOMAIN m_exp_costs
               PROVE  Regular(f) \in Alive
    BY DEF NodesKept
  <2>1. Types /\ Nodes /\ Undone /\ pc = "generate"
    BY <1>1 DEF IInv, Doing
  <2>2. PICK a : a \in Annotations /\ HeldAt(a)
    BY <2>1 DEF Undone
  <2>3. f \in Opened
    BY DEF Opened
  <2>4. PICK h \in (UNION ToSet(bdd)) \cup Shared : Regular(f) \in Below(h)
    BY <2>1, <2>3 DEF Nodes
  <2>5. ASSUME h \in Shared PROVE h \in BagToSet(refs)
    <3>1. h \in SUBSET Points
      <4>1. PICK g \in Opened : h = Regular(Branches(g)[3])
        BY <2>5 DEF Shared
      <4>2. Branches(g)[3] \in SUBSET Points
        BY BranchSets
      <4> QED  BY <4>1, <4>2, RegularFacts
    <3>2. a.held[h] \in Nat /\ Copies(h, refs) >= a.held[h] + 1
      BY <2>2, <2>5, <3>1 DEF Annotations, HeldAt
    <3>3. Copies(h, refs) # 0
      <4>1. Copies(h, refs) \in Nat
        BY <2>1, <3>1, ReferenceAdded DEF Types
      <4> QED  BY <3>2, <4>1
    <3> QED  BY <3>3 DEF Copies, BagToSet
  <2>6. h \in (UNION ToSet(bdd)) \cup BagToSet(refs)
    BY <2>4, <2>5
  <2> QED  BY <2>4, <2>6 DEF Alive
<1> QED  BY <1>1, Invariant, PTL

\* Work is a natural number that every step makes smaller: count_cubes and
\* generate_exact (source/bdd/collapse.cpp:81-167) end for every output.
THEOREM WorkAlwaysFalls == Spec => [](Work \in Nat) /\ WorkFalls
<1>1. ASSUME IInv PROVE Work \in Nat
  <2>1. Types /\ Ordered
    BY <1>1, OutputFacts DEF IInv
  <2>2. /\ pc \in {"extract", "generate", "done"} /\ todo \in Seq(Entries)
        /\ Len(bdd) \in Nat /\ Len(fncts) \in Nat
        /\ pc = "generate" => Len(fncts) < Len(bdd)
    BY <2>1, OutputFacts DEF Types
  <2>3. Left(todo) \in Nat
    BY <2>1, <2>2, LeftFacts
  <2>4. pc = "generate" => Len(bdd) - Len(fncts) # 0
    BY <2>2
  <2> DEFINE outputs == Len(bdd) - Len(fncts)
  <2>5. /\ Each * outputs \in Nat
        /\ outputs # 0 => Each * (outputs - 1) \in Nat
        /\ pc = "extract" => Work = 1 + Each * outputs
        /\ pc = "generate" => Work = 1 + Each * (outputs - 1) + 1 + Left(todo)
        /\ pc = "done" => Work = 0
    BY <2>1, WorkIs
  <2>6. pc = "generate" => outputs # 0
    BY <2>4
  <2> HIDE DEF outputs
  <2>7. ASSUME pc = "extract" PROVE Work \in Nat
    BY <2>5, <2>7
  <2>8. ASSUME pc = "generate" PROVE Work \in Nat
    <3>1. /\ Work = 1 + Each * (outputs - 1) + 1 + Left(todo)
          /\ Each * (outputs - 1) \in Nat
      BY <2>5, <2>6, <2>8
    <3> QED  BY <3>1, <2>3
  <2>9. ASSUME pc = "done" PROVE Work \in Nat
    BY <2>5, <2>9
  <2> QED  BY <2>2, <2>7, <2>8, <2>9
<1>2. ASSUME IInv, IInv', [Next]_vars PROVE [Work' < Work]_vars
  BY <1>2, StepFalls
<1> QED  BY <1>1, <1>2, Invariant, PTL DEF Spec, WorkFalls
=============================================================================
