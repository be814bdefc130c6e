------------------------- MODULE CollapseToolProofs -------------------------
(***************************************************************************)
(* The program of module CollapseTool puts the cofactors together, writes  *)
(* and checks them rightly, for every list of functions, every number of   *)
(* inputs and of cofactored inputs, everything that collapsing and         *)
(* minimising may return, and every set of files whose stream fails, if    *)
(* aig_extract, when it is used, is given fewer inputs than there are bits *)
(* (FewInputs).  Its handler of SIGINT, in module SigintHandler, finds the *)
(* loggers it uses.                                                        *)
(***************************************************************************)
EXTENDS CollapseTool, SigintHandler, Cube32Lemmas

-----------------------------------------------------------------------------
(* The shifts, and the numbers that their bits spell.                      *)

\* The equations of the recursive definition of 1 << n.
LEMMA PowerRec ==
  /\ Power \in [Nat -> Nat \ {0}]
  /\ Power[0] = 1
  /\ \A n \in Nat : Power[n + 1] = 2 * Power[n]
<1> DEFINE T == Nat \ {0}
           G == [p \in Nat \X T |-> 2 * p[2]]
<1>1. \A n \in Nat, m \in T : G[<<n, m>>] = 2 * m
  <2>1. \A n \in Nat, m \in T : <<n, m>> \in Nat \X T /\ <<n, m>>[2] = m
    OBVIOUS
  <2> HIDE DEF T
  <2> QED  BY <2>1
<1>2. 1 \in T /\ G \in [Nat \X T -> T]
  OBVIOUS
<1> HIDE DEF G
<1>3. PICK f \in [Nat -> T] : StepsBy(f, 1, G)
  <2> HIDE DEF T
  <2> QED  BY <1>2, Recursion
<1>4. f = [n \in Nat |-> IF n = 0 THEN 1 ELSE 2 * f[n - 1]]
  <2>1. \A n \in Nat : f[n] \in T /\ (n # 0 => n - 1 \in Nat /\ n - 1 + 1 = n)
    BY <1>3
  <2>2. f[0] = 1 /\ \A n \in Nat : f[n + 1] = G[<<n + 1, f[n]>>]
    BY <1>3 DEF StepsBy
  <2>3. ASSUME NEW n \in Nat, n # 0  PROVE f[n] = 2 * f[n - 1]
    <3>1. n - 1 \in Nat /\ n - 1 + 1 = n /\ f[n - 1] \in T
      BY <2>1, <2>3
    <3>2. f[n] = G[<<n, f[n - 1]>>]
      BY <2>2, <3>1
    <3> QED  BY <1>1, <3>1, <3>2
  <2> QED  BY <1>3, <2>2, <2>3
<1>5. Power = [n \in Nat |-> IF n = 0 THEN 1 ELSE 2 * Power[n - 1]]
  BY <1>4 DEF Power
<1>6. /\ Power[0] = 1
      /\ \A n \in Nat : Power[n + 1] = 2 * Power[n]
  <2>1. \A n \in Nat : n + 1 \in Nat /\ n + 1 # 0 /\ n + 1 - 1 = n
    OBVIOUS
  <2> QED  BY <1>5, <2>1
<1> DEFINE S == {n \in Nat : Power[n] \in T}
<1>7. 0 \in S /\ \A n \in Nat : n \in S => n + 1 \in S
  BY <1>6
<1> HIDE DEF S
<1>8. \A n \in Nat : n \in S
  BY <1>7, AllNumbers
<1> QED  BY <1>5, <1>6, <1>8 DEF S

\* The equations of the recursive definition of n >> j.
LEMMA ShiftedRec ==
  ASSUME NEW n \in Nat
  PROVE  /\ Shifted(n) \in [Nat -> Nat]
         /\ Shifted(n)[0] = n
         /\ \A j \in Nat : Shifted(n)[j + 1] = Shifted(n)[j] \div 2
<1> DEFINE G == [p \in Nat \X Nat |-> p[2] \div 2]
           s == Shifted(n)
<1>1. \A j \in Nat, m \in Nat : G[<<j, m>>] = m \div 2
  <2>1. \A j \in Nat, m \in Nat : <<j, m>> \in Nat \X Nat /\ <<j, m>>[2] = m
    OBVIOUS
  <2> QED  BY <2>1
<1>2. G \in [Nat \X Nat -> Nat]
  OBVIOUS
<1> HIDE DEF G
<1>3. PICK f \in [Nat -> Nat] : StepsBy(f, n, G)
  BY <1>2, Recursion
<1>4. f = [j \in Nat |-> IF j = 0 THEN n ELSE f[j - 1] \div 2]
  <2>1. \A j \in Nat : f[j] \in Nat /\ (j # 0 => j - 1 \in Nat /\ j - 1 + 1 = j)
    BY <1>3
  <2>2. f[0] = n /\ \A j \in Nat : f[j + 1] = G[<<j + 1, f[j]>>]
    BY <1>3 DEF StepsBy
  <2>3. ASSUME NEW j \in Nat, j # 0  PROVE f[j] = f[j - 1] \div 2
    <3>1. j - 1 \in Nat /\ j - 1 + 1 = j /\ f[j - 1] \in Nat
      BY <2>1, <2>3
    <3>2. f[j] = G[<<j, f[j - 1]>>]
      BY <2>2, <3>1
    <3> QED  BY <1>1, <3>1, <3>2
  <2> QED  BY <1>3, <2>2, <2>3
<1>5. s = [j \in Nat |-> IF j = 0 THEN n ELSE s[j - 1] \div 2]
  BY <1>4 DEF Shifted
<1> HIDE DEF s
<1>6. /\ s[0] = n
      /\ \A j \in Nat : s[j + 1] = s[j] \div 2
  <2>1. \A j \in Nat : j + 1 \in Nat /\ j + 1 # 0 /\ j + 1 - 1 = j
    OBVIOUS
  <2> QED  BY <1>5, <2>1
<1> DEFINE S == {j \in Nat : s[j] \in Nat}
<1>7. 0 \in S /\ \A j \in Nat : j \in S => j + 1 \in S
  BY <1>6
<1> HIDE DEF S
<1>8. \A j \in Nat : j \in S
  BY <1>7, AllNumbers
<1>9. s \in [Nat -> Nat]
  BY <1>5, <1>8 DEF S
<1> QED  BY <1>6, <1>9 DEF s

\* Shifting once more is shifting half the number.
LEMMA ShiftedHalf ==
  ASSUME NEW n \in Nat
  PROVE  \A j \in Nat : Shifted(n)[j + 1] = Shifted(n \div 2)[j]
<1> DEFINE S == {j \in Nat : Shifted(n)[j + 1] = Shifted(n \div 2)[j]}
<1>1. n \div 2 \in Nat
  OBVIOUS
<1>2. 0 \in S
  <2>1. /\ \A j \in Nat : Shifted(n)[j + 1] = Shifted(n)[j] \div 2
        /\ Shifted(n)[0] = n /\ Shifted(n \div 2)[0] = n \div 2
    BY <1>1, ShiftedRec
  <2>2. Shifted(n)[0 + 1] = Shifted(n)[0] \div 2
    BY <2>1
  <2> QED  BY <2>1, <2>2
<1>3. ASSUME NEW j \in Nat, j \in S  PROVE j + 1 \in S
  <2>1. /\ Shifted(n)[j + 1 + 1] = Shifted(n)[j + 1] \div 2
        /\ Shifted(n \div 2)[j + 1] = Shifted(n \div 2)[j] \div 2
    <3>1. j + 1 \in Nat
      OBVIOUS
    <3> QED  BY <1>1, <3>1, ShiftedRec
  <2> QED  BY <1>3, <2>1
<1> HIDE DEF S
<1>4. \A j \in Nat : j \in S
  BY <1>2, <1>3, AllNumbers
<1> QED  BY <1>4 DEF S

\* The lowest bit, and the others.
LEMMA Bits01 ==
  ASSUME NEW n \in Nat
  PROVE  /\ \A j \in Nat : Bit(n, j) \in {0, 1}
         /\ Bit(n, 0) = n % 2
         /\ \A j \in Nat : Bit(n, j + 1) = Bit(n \div 2, j)
<1>1. ASSUME NEW j \in Nat  PROVE Bit(n, j) \in {0, 1}
  <2>1. Shifted(n)[j] \in Nat
    BY ShiftedRec
  <2> QED  BY <2>1 DEF Bit
<1>2. Shifted(n)[0] = n /\ \A j \in Nat : Shifted(n)[j + 1] = Shifted(n \div 2)[j]
  BY ShiftedRec, ShiftedHalf
<1> QED  BY <1>1, <1>2 DEF Bit

\* Numbers of k bits that agree in all of them are equal.
LEMMA BitsTellApart ==
  \A k \in Nat : \A m, n \in 0 .. Power[k] - 1 :
    (\A j \in 0 .. k - 1 : Bit(m, j) = Bit(n, j)) => m = n
<1> DEFINE Same(k, m, n) == \A j \in 0 .. k - 1 : Bit(m, j) = Bit(n, j)
           S == {k \in Nat : \A m, n \in 0 .. Power[k] - 1 : Same(k, m, n) => m = n}
<1>1. 0 \in S
  BY PowerRec
<1>2. ASSUME NEW k \in Nat, k \in S  PROVE k + 1 \in S
  <2> SUFFICES ASSUME NEW m \in 0 .. Power[k + 1] - 1, NEW n \in 0 .. Power[k + 1] - 1,
                      Same(k + 1, m, n)
               PROVE  m = n
    OBVIOUS
  <2>1. Power[k + 1] = 2 * Power[k] /\ Power[k] \in Nat
    BY PowerRec
  <2>2. /\ m \in Nat /\ n \in Nat
        /\ m \div 2 \in 0 .. Power[k] - 1 /\ n \div 2 \in 0 .. Power[k] - 1
    BY <2>1
  <2>3. m % 2 = n % 2
    <3>1. 0 \in 0 .. k + 1 - 1
      OBVIOUS
    <3> QED  BY <2>2, <3>1, Bits01
  <2>4. Same(k, m \div 2, n \div 2)
    <3>1. \A j \in 0 .. k - 1 : j \in Nat /\ j + 1 \in 0 .. k + 1 - 1
      OBVIOUS
    <3>2. ASSUME NEW j \in 0 .. k - 1  PROVE Bit(m \div 2, j) = Bit(n \div 2, j)
      <4>1. Bit(m, j + 1) = Bit(n, j + 1)
        BY <3>1
      <4> QED  BY <2>2, <3>1, <4>1, Bits01
    <3> QED  BY <3>2
  <2>5. m \div 2 = n \div 2
    BY <1>2, <2>2, <2>4
  <2>6. m = (2 * (m \div 2)) + (m % 2) /\ n = (2 * (n \div 2)) + (n % 2)
    BY <2>2
  <2> QED  BY <2>3, <2>5, <2>6
<1> HIDE DEF S
<1>3. \A k \in Nat : k \in S
  BY <1>1, <1>2, AllNumbers
<1> QED  BY <1>3 DEF S

\* Any set of the first k bits is that of a number.
LEMMA BitsOfSome ==
  \A k \in Nat : \A B \in SUBSET (0 .. k - 1) :
    \E n \in 0 .. Power[k] - 1 : B = {j \in 0 .. k - 1 : Bit(n, j) = 1}
<1> DEFINE Ones(k, n) == {j \in 0 .. k - 1 : Bit(n, j) = 1}
           S == {k \in Nat : \A B \in SUBSET (0 .. k - 1) :
                               \E n \in 0 .. Power[k] - 1 : B = Ones(k, n)}
<1>1. 0 \in S
  <2>1. 0 \in 0 .. Power[0] - 1 /\ 0 .. 0 - 1 = {}
    BY PowerRec
  <2> QED  BY <2>1
<1>2. ASSUME NEW k \in Nat, k \in S  PROVE k + 1 \in S
  <2> SUFFICES ASSUME NEW B \in SUBSET (0 .. k)
               PROVE  \E n \in 0 .. Power[k + 1] - 1 : B = Ones(k + 1, n)
    OBVIOUS
  <2> DEFINE C == {j \in 0 .. k - 1 : j + 1 \in B}
             b == IF 0 \in B THEN 1 ELSE 0
  <2>1. C \in SUBSET (0 .. k - 1)
    OBVIOUS
  <2>2. PICK m \in 0 .. Power[k] - 1 : C = Ones(k, m)
    BY <1>2, <2>1
  <2> DEFINE n == 2 * m + b
  <2>3. b \in {0, 1} /\ m \in Nat /\ n \in Nat /\ n % 2 = b /\ n \div 2 = m
    OBVIOUS
  <2>4. n \in 0 .. Power[k + 1] - 1
    <3>1. Power[k + 1] = 2 * Power[k] /\ Power[k] \in Nat
      BY PowerRec
    <3> QED  BY <2>3, <3>1
  <2>5. Bit(n, 0) = 1 <=> 0 \in B
    <3> HIDE DEF n
    <3>1. Bit(n, 0) = b
      BY <2>3, Bits01
    <3> QED  BY <3>1
  <2>6. ASSUME NEW j \in 0 .. k - 1  PROVE Bit(n, j + 1) = 1 <=> j + 1 \in B
    <3> HIDE DEF n
    <3>1. Bit(n, j + 1) = Bit(m, j)
      <4>1. Bit(n, j + 1) = Bit(n \div 2, j)
        BY <2>3, Bits01
      <4> QED  BY <2>3, <4>1
    <3>2. Bit(m, j) = 1 <=> j \in C
      BY <2>2
    <3> QED  BY <3>1, <3>2
  <2>7. \A j \in 0 .. k : j = 0 \/ (j - 1 \in 0 .. k - 1 /\ j - 1 + 1 = j)
    OBVIOUS
  <2> HIDE DEF n, C, b
  <2>8. \A j \in 0 .. k : Bit(n, j) = 1 <=> j \in B
    BY <2>5, <2>6, <2>7
  <2>9. B = Ones(k + 1, n)
    <3>1. k + 1 - 1 = k
      OBVIOUS
    <3>2. Ones(k + 1, n) = {j \in 0 .. k : Bit(n, j) = 1}
      BY <3>1
    <3> HIDE DEF Ones
    <3> QED  BY <2>8, <3>2
  <2> QED  BY <2>4, <2>9
<1> HIDE DEF S
<1>3. \A k \in Nat : k \in S
  BY <1>1, <1>2, AllNumbers
<1> QED  BY <1>3 DEF S

-----------------------------------------------------------------------------
(* The cofactors. *)

\* What the command line guarantees of the number of inputs to cofactor.
LEMMA OptionsInRange ==
  ASSUME options \in Options
  PROVE  /\ n_cofactor \in Nat /\ n_cofactor <= NVars
         /\ NCofactors \in Nat \ {0}
         /\ Cofactored \subseteq Vars
         /\ options.exorcise \in BOOLEAN /\ options.check \in BOOLEAN
<1>1. n_cofactor \in 0 .. NVars /\ NVars \in Nat
  BY OptionsAssumption, NVarsAssumption, WidthAssumption DEF n_cofactor
<1>2. Cofactored \subseteq Vars
  BY <1>1 DEF Cofactored, Vars
<1>3. NCofactors \in Nat \ {0}
  BY <1>1, PowerRec DEF NCofactors
<1> QED  BY <1>1, <1>2, <1>3, OptionsAssumption

\* Different cofactors have no point in common.
LEMMA CellsApart ==
  ASSUME options \in Options,
         NEW m \in 0 .. NCofactors - 1, NEW n \in 0 .. NCofactors - 1, m # n
  PROVE  Cell(m) \cap Cell(n) = {}
<1>1. /\ n_cofactor \in Nat
      /\ m \in 0 .. Power[n_cofactor] - 1 /\ n \in 0 .. Power[n_cofactor] - 1
      /\ m \in Nat /\ n \in Nat
  BY OptionsInRange DEF NCofactors
<1>2. PICK j \in 0 .. n_cofactor - 1 : Bit(m, j) # Bit(n, j)
  BY <1>1, BitsTellApart
<1>3. Bit(m, j) \in {0, 1} /\ Bit(n, j) \in {0, 1}
  BY <1>1, <1>2, Bits01
<1>4. j \in Cofactored /\ (j \in Chosen(m) <=> j \notin Chosen(n))
  BY <1>2, <1>3 DEF Chosen, Cofactored
<1> QED  BY <1>4 DEF Cell

\* Every point is in a cofactor.
LEMMA CellsCover ==
  ASSUME options \in Options
  PROVE  Region(NCofactors) = Points
<1> SUFFICES ASSUME NEW x \in Points PROVE \E m \in 0 .. NCofactors - 1 : x \in Cell(m)
  BY DEF Region, Cell
<1>1. n_cofactor \in Nat /\ x \cap Cofactored \in SUBSET (0 .. n_cofactor - 1)
  BY OptionsInRange DEF Cofactored
<1>2. PICK m \in 0 .. Power[n_cofactor] - 1 :
        x \cap Cofactored = {j \in 0 .. n_cofactor - 1 : Bit(m, j) = 1}
  BY <1>1, BitsOfSome
<1> QED  BY <1>2 DEF Cell, Chosen, Cofactored, NCofactors

\* One more cofactor.
LEMMA RegionNext ==
  ASSUME options \in Options, NEW n \in 0 .. NCofactors - 1
  PROVE  /\ Region(n + 1) = Region(n) \cup Cell(n)
         /\ Region(n) \cap Cell(n) = {}
<1>1. NCofactors \in Nat
  BY OptionsInRange
<1>2. 0 .. n + 1 - 1 = (0 .. n - 1) \cup {n}
  OBVIOUS
<1>3. \A m \in 0 .. n - 1 : Cell(m) \cap Cell(n) = {}
  <2>1. \A m \in 0 .. n - 1 : m \in 0 .. NCofactors - 1 /\ m # n
    BY <1>1
  <2> QED  BY <2>1, CellsApart
<1> QED  BY <1>2, <1>3 DEF Region

\* The literals that are added to a cube.
LEMMA WithLitsIs ==
  ASSUME options \in Options, NEW c \in Cubes, NEW n \in Nat
  PROVE  WithLits(c, n) = Cube(c.mask \cup Cofactored, c.polarity \cup Chosen(n))
<1> DEFINE N    == n_cofactor
           P(j) == Cube(c.mask \cup (0 .. j - 1),
                        c.polarity \cup {q \in 0 .. j - 1 : Bit(n, q) = 1})
           f    == [j \in 0 .. N |-> P(j)]
           lit  == CHOOSE lit : lit = [j \in 0 .. N |->
                     IF j = 0 THEN c ELSE add_lit(lit[j - 1], j - 1, Bit(n, j - 1))]
<1>1. N \in Nat
  BY OptionsInRange
<1>2. P(0) = c
  BY CubeFields DEF Cube
<1>3. ASSUME NEW j \in Nat \ {0}  PROVE P(j) = add_lit(P(j - 1), j - 1, Bit(n, j - 1))
  <2>1. 0 .. j - 1 = (0 .. j - 1 - 1) \cup {j - 1}
    OBVIOUS
  <2> QED  BY <2>1 DEF add_lit, Cube
<1> HIDE DEF P, N
<1>4. f = [j \in 0 .. N |->
             IF j = 0 THEN c ELSE add_lit(f[j - 1], j - 1, Bit(n, j - 1))]
  <2>1. \A j \in 0 .. N : j # 0 => j \in Nat \ {0} /\ j - 1 \in 0 .. N
    BY <1>1
  <2> QED  BY <1>2, <1>3, <2>1
<1> HIDE DEF f
<1>5. lit = [j \in 0 .. N |->
               IF j = 0 THEN c ELSE add_lit(lit[j - 1], j - 1, Bit(n, j - 1))]
  BY <1>4
<1>6. WithLits(c, n) = lit[N]
  BY DEF WithLits, N
<1> HIDE DEF lit
<1> DEFINE S == {j \in Nat : j <= N => lit[j] = P(j)}
<1>7. 0 \in S
  <2>1. 0 \in 0 .. N
    BY <1>1
  <2> QED  BY <1>2, <1>5, <2>1
<1>8. ASSUME NEW j \in Nat, j \in S  PROVE j + 1 \in S
  <2> SUFFICES ASSUME j + 1 <= N PROVE lit[j + 1] = P(j + 1)
    OBVIOUS
  <2>1. j + 1 \in 0 .. N /\ j + 1 # 0 /\ j + 1 - 1 = j /\ j <= N /\ j + 1 \in Nat \ {0}
    BY <1>1
  <2>2. lit[j + 1] = add_lit(lit[j], j, Bit(n, j))
    BY <1>5, <2>1
  <2>3. P(j + 1) = add_lit(P(j), j, Bit(n, j))
    BY <1>3, <2>1
  <2> QED  BY <1>8, <2>1, <2>2, <2>3
<1> HIDE DEF S
<1>9. \A j \in Nat : j \in S
  BY <1>7, <1>8, AllNumbers
<1>10. lit[N] = P(N)
  BY <1>1, <1>9 DEF S
<1> QED  BY <1>6, <1>10 DEF P, N, Cofactored, Chosen

\* With the literals of cofactor n a cube keeps to the points of cofactor n.
LEMMA WithLitsKeeps ==
  ASSUME options \in Options, NEW c \in Cubes, c.mask \cap Cofactored = {},
         NEW n \in Nat
  PROVE  WithLits(c, n) \in Cubes /\ OnSet(WithLits(c, n)) = OnSet(c) \cap Cell(n)
<1> DEFINE d == Cube(c.mask \cup Cofactored, c.polarity \cup Chosen(n))
<1>1. Cofactored \subseteq Vars /\ Chosen(n) \subseteq Cofactored
  BY OptionsInRange DEF Chosen
<1>2. d \in Cubes
  BY <1>1, CubeFields, CubeIntro
<1>3. \A x \in Points : Covers(d, x) <=> Covers(c, x) /\ x \cap Cofactored = Chosen(n)
  BY <1>1, CubeFields DEF Covers, Cube
<1> QED  BY <1>2, <1>3, WithLitsIs DEF OnSet, Cell

\* A cofactor is the function it comes from on its own points.
LEMMA CofactorOnCell ==
  ASSUME NEW f \in SUBSET Points, NEW n
  PROVE  Cofactor(f, n) \cap Cell(n) = f \cap Cell(n)
<1>1. \A x \in Cell(n) : (x \ Cofactored) \cup Chosen(n) = x
  BY DEF Cell
<1> QED  BY <1>1 DEF Cofactor, Cell

-----------------------------------------------------------------------------
(* What collapsing and minimising return. *)

\* aig_extract is asked for fewer inputs than bits only: for as many its products
\* may be taken for cube32_zero (source/base/collapse.cpp:122).
FewInputs == \A o \in Options : o.method = "aig" => NVars < Width

\* Then collapsing promises the function of each cofactor.
LEMMA ExactThen ==
  ASSUME FewInputs, options \in Options
  PROVE  Exact
  BY DEF FewInputs, Exact

\* An ESOP that collapsing may return.
LEMMA ExtractsIs ==
  ASSUME NEW f, NEW s \in Extracts(f), Exact
  PROVE  /\ s \in Seq(Cubes) /\ FunctionOf(s) = f
         /\ \A j \in DOMAIN s : s[j] \in Cubes /\ s[j].mask \cap Cofactored = {}
<1> DEFINE S == {c \in Cubes : c.mask \cap Cofactored = {}}
<1>1. s \in SeqOf(S, MaxCubes) /\ FunctionOf(s) = f
  BY DEF Extracts, BoundedSeq
<1>2. PICK n \in 0 .. MaxCubes : s \in [1 .. n -> S]
  BY <1>1 DEF SeqOf
<1>3. s \in Seq(S) /\ S \subseteq Cubes
  BY <1>2, MaxCubesAssumption
<1>4. \A j \in DOMAIN s : s[j] \in S
  BY <1>3
<1>5. s \in Seq(Cubes)
  BY <1>3
<1> QED  BY <1>1, <1>4, <1>5

\* The ESOP of a cofactor, with the literals of the cofactor.
LEMMA CofactorCollapsed ==
  ASSUME options \in Options, Exact, NEW f \in SUBSET Points, NEW n \in Nat,
         NEW s \in Extracts(Cofactor(f, n)),
         NEW t, DOMAIN t = DOMAIN s, t = [m \in DOMAIN t |-> t[m]],
         \A m \in DOMAIN s : t[m] = WithLits(s[m], n)
  PROVE  t \in Seq(Cubes) /\ FunctionOf(t) = f \cap Cell(n)
<1>1. /\ s \in Seq(Cubes) /\ FunctionOf(s) = Cofactor(f, n)
      /\ \A j \in DOMAIN s : s[j] \in Cubes /\ s[j].mask \cap Cofactored = {}
  BY ExtractsIs
<1>2. DOMAIN s = 1 .. Len(s) /\ Len(s) \in Nat
  BY <1>1
<1>3. \A j \in 1 .. Len(s) : t[j] \in Cubes /\ OnSet(t[j]) = OnSet(s[j]) \cap Cell(n)
  BY <1>1, <1>2, WithLitsKeeps
<1>4. t \in Seq(Cubes) /\ Len(t) = Len(s)
  BY <1>2, <1>3
<1>5. FunctionOf(t) = FunctionOf(s) \cap Cell(n)
  <2> DEFINE A == Cell(n)
  <2>1. \A j \in 1 .. Len(s) : OnSet(t[j]) = OnSet(s[j]) \cap A
    BY <1>3
  <2> HIDE DEF A
  <2>2. FunctionOf(t) = FunctionOf(s) \cap A
    BY <1>1, <1>4, <2>1, FunctionOfRestricted
  <2> QED  BY <2>2 DEF A
<1> QED  BY <1>1, <1>4, <1>5, CofactorOnCell

\* A cover that minimising may return, as it is listed.
LEMMA MinimisedIs ==
  ASSUME NEW s, NEW t \in Minimised(s)
  PROVE  SetToSeq(t) \in Seq(Cubes) /\ FunctionOf(SetToSeq(t)) = FunctionOf(s)
<1>1. t \in SUBSET Cubes /\ EsopOf(t) = FunctionOf(s) /\ IsFiniteSet(t)
  BY CubesFinite DEF Minimised
<1>2. \E f \in [1 .. Cardinality(t) -> t] : IsInjective(f)
  BY <1>1, ListingExists DEF IsInjective
<1>3. /\ SetToSeq(t) \in [1 .. Cardinality(t) -> t]
      /\ \A i_1, k \in DOMAIN SetToSeq(t) : i_1 # k => SetToSeq(t)[i_1] # SetToSeq(t)[k]
  BY <1>2 DEF SetToSeq, IsInjective
<1>4. SetToSeq(t) \in Seq(Cubes) /\ FunctionOf(SetToSeq(t)) = EsopOf(t)
  BY <1>1, <1>3, FunctionOfListing
<1> QED  BY <1>1, <1>4

\* The cubes of a cofactor behind those of the cofactors before it.
LEMMA StitchedIs ==
  ASSUME TypeOK, CellsCollapsed, PartialResult, pc = "stitch",
         Len(cf_results) = NCofactors, i < NCofactors, NEW k \in DOMAIN aig
  PROVE  /\ Stitched[k] \in Seq(Cubes)
         /\ FunctionOf(Stitched[k]) = aig[k] \cap Region(i + 1)
<1>1. /\ options \in Options /\ NCofactors \in Nat /\ i \in 0 .. NCofactors - 1
      /\ i + 1 \in 1 .. Len(cf_results) /\ i + 1 - 1 = i
  BY OptionsInRange DEF TypeOK
<1>2. result[k] \in Seq(Cubes) /\ cf_results[i + 1][k] \in Seq(Cubes)
  BY <1>1 DEF TypeOK
<1>3. /\ FunctionOf(result[k]) = aig[k] \cap Region(i)
      /\ FunctionOf(cf_results[i + 1][k]) = aig[k] \cap Cell(i)
  BY <1>1 DEF PartialResult, CellsCollapsed
<1>4. Stitched[k] = result[k] \o cf_results[i + 1][k]
  BY DEF Stitched
<1>5. FunctionOf(Stitched[k]) = SymDiff(aig[k] \cap Region(i), aig[k] \cap Cell(i))
  BY <1>2, <1>3, <1>4, FunctionOfConcat
<1>6. /\ Region(i + 1) = Region(i) \cup Cell(i)
      /\ Region(i) \cap Cell(i) = {}
  BY <1>1, RegionNext
<1>7. SymDiff(aig[k] \cap Region(i), aig[k] \cap Cell(i)) = aig[k] \cap Region(i + 1)
  BY <1>6 DEF SymDiff
<1>8. Stitched[k] \in Seq(Cubes)
  BY <1>2, <1>4
<1> QED  BY <1>5, <1>7, <1>8

-----------------------------------------------------------------------------
(* The files. *)

\* The directives are lines of their own kind.
LEMMA DirectiveIs ==
  ASSUME NEW c \in {"i", "o", "p"}, NEW n \in Nat
  PROVE  Directive(c, n) # Line(<<".", "e">>)
<1> DEFINE S     == {".", c, " ", "\n"} \cup {Digits[k] : k \in 1 .. 10}
           start == <<".", c, " ">>
           num   == Numeral(n)
<1>1. num \in Seq(S)
  <2> DEFINE size     == Min({j \in 1 .. n + 1 : Tenths(n)[j] = 0})
             digit(k) == Digits[(Tenths(n)[size - k] % 10) + 1]
  <2>1. Tenths(n) \in [Nat -> Nat] /\ size \in 1 .. n + 1
    BY TenthsRec DEF Tenths
  <2>2. num = [k \in 1 .. size |-> digit(k)]
    BY DEF Numeral
  <2> HIDE DEF size
  <2>3. \A k \in 1 .. size : (Tenths(n)[size - k] % 10) + 1 \in 1 .. 10
    <3>1. \A k \in 1 .. size : Tenths(n)[size - k] \in Nat
      BY <2>1
    <3> QED  BY <3>1
  <2>4. \A k \in 1 .. size : digit(k) \in S
    BY <2>3
  <2> HIDE DEF S, digit, num
  <2> QED  BY <2>1, <2>2, <2>4
<1> HIDE DEF num
<1>2. start \in Seq(S) /\ <<"\n">> \in Seq(S) /\ Len(start) = 3 /\ start[2] = c
  OBVIOUS
<1>3. Directive(c, n) = (start \o num) \o <<"\n">>
  BY DEF Directive, Line, num
<1> HIDE DEF S, start
<1>4. Directive(c, n)[2] = c
  <2>1. /\ start \o num \in Seq(S) /\ Len(start \o num) >= 3
        /\ (start \o num)[2] = c
    <3>1. start \o num \in Seq(S) /\ IsJoin(start \o num, start, num)
      BY <1>1, <1>2, Joined
    <3>2. 2 \in 1 .. Len(start)
      BY <1>2
    <3> QED  BY <1>2, <3>1, <3>2 DEF IsJoin
  <2> DEFINE u == start \o num
  <2> HIDE DEF u
  <2>2. u \in Seq(S) /\ Len(u) >= 3 /\ u[2] = c
    BY <2>1 DEF u
  <2>3. Directive(c, n) = u \o <<"\n">>
    BY <1>3 DEF u
  <2>4. 2 \in 1 .. Len(u)
    BY <2>2
  <2> QED  BY <1>2, <2>2, <2>3, <2>4, ConcatProperties
<1>5. Line(<<".", "e">>)[2] = "e"
  BY DEF Line
<1> QED  BY <1>4, <1>5

\* A row starts with the literals of its cube, and is no directive.
LEMMA RowIs ==
  ASSUME NEW c \in Cubes
  PROVE  /\ \A v \in Vars : Row(str(c), <<"1">>)[v + 1] = str(c)[v + 1]
         /\ Row(str(c), <<"1">>) # Line(<<".", "e">>)
<1> DEFINE r == Row(str(c), <<"1">>)
<1>1. NVars \in Nat
  BY NVarsAssumption, WidthAssumption
<1> DEFINE S == {"-", "0", "1", " ", "\n"}
           s == str(c)
           sp == <<" ">>
           one == <<"1">>
           nl == <<"\n">>
           u == s \o sp
           v == u \o one
<1>2. s \in Seq(S) /\ Len(s) = NVars
  <2>1. s \in [1 .. NVars -> S]
    BY DEF str
  <2> HIDE DEF s, S
  <2> QED  BY <1>1, <2>1
<1>3. /\ sp \in Seq(S) /\ one \in Seq(S) /\ nl \in Seq(S)
      /\ Len(sp) = 1 /\ Len(one) = 1 /\ Len(nl) = 1 /\ sp[1] = " "
  OBVIOUS
<1>4. r = v \o nl
  BY DEF Row, Line
<1> HIDE DEF S, s, r, sp, one, nl
<1>5. /\ \A j \in 1 .. NVars : r[j] = s[j]
      /\ r[NVars + 1] = " " /\ Len(r) = NVars + 3
  <2>1. /\ u \in Seq(S) /\ Len(u) = NVars + 1
        /\ \A j \in 1 .. NVars : u[j] = s[j]
        /\ u[NVars + 1] = " "
    <3> HIDE DEF u
    <3>1. u \in Seq(S) /\ IsJoin(u, s, sp)
      BY <1>2, <1>3, Joined DEF u
    <3>2. 1 \in 1 .. 1
      OBVIOUS
    <3> QED  BY <1>2, <1>3, <3>1, <3>2 DEF IsJoin
  <2> HIDE DEF u
  <2>2. /\ v \in Seq(S) /\ Len(v) = NVars + 1 + 1
        /\ \A j \in 1 .. NVars + 1 : v[j] = u[j]
    <3> HIDE DEF v
    <3>1. v \in Seq(S) /\ IsJoin(v, u, one)
      BY <1>3, <2>1, Joined DEF v
    <3> QED  BY <1>3, <2>1, <3>1 DEF IsJoin
  <2> HIDE DEF v
  <2>3. /\ Len(r) = NVars + 1 + 1 + 1
        /\ \A j \in 1 .. NVars + 1 + 1 : r[j] = v[j]
    <3>1. IsJoin(r, v, nl)
      BY <1>3, <1>4, <2>2, Joined
    <3> QED  BY <1>3, <2>2, <3>1 DEF IsJoin
  <2>4. \A j \in 1 .. NVars : j \in 1 .. NVars + 1 /\ j \in 1 .. NVars + 1 + 1
    BY <1>1
  <2>5. /\ NVars + 1 \in 1 .. NVars + 1 /\ NVars + 1 \in 1 .. NVars + 1 + 1
        /\ NVars + 1 + 1 + 1 = NVars + 3
    BY <1>1
  <2> QED  BY <2>1, <2>2, <2>3, <2>4, <2>5
<1>6. \A w \in Vars : w + 1 \in 1 .. NVars
  BY <1>1 DEF Vars
<1>7. Len(Line(<<".", "e">>)) = 3 /\ Line(<<".", "e">>)[1] = "."
  BY DEF Line
<1>8. r # Line(<<".", "e">>)
  <2>1. CASE NVars = 0
    <3>1. r[NVars + 1] = " "
      BY <1>5
    <3>2. NVars + 1 = 1
      BY <2>1
    <3>3. r[1] = " "
      BY <3>1, <3>2
    <3> QED  BY <1>7, <3>3
  <2>2. CASE NVars # 0
    <3>1. NVars + 3 # 3
      BY <1>1, <2>2
    <3>2. Len(r) = NVars + 3
      BY <1>5
    <3> QED  BY <1>7, <3>1, <3>2
  <2> QED  BY <2>1, <2>2
<1>9. \A w \in Vars : r[w + 1] = s[w + 1]
  BY <1>5, <1>6
<1> QED  BY <1>8, <1>9 DEF r, s

\* A row is matched by the points its cube covers.
LEMMA RowMatches ==
  ASSUME NEW c \in Cubes, NEW x \in Points
  PROVE  Matches(Row(str(c), <<"1">>), x) <=> Covers(c, x)
<1>1. \A v \in Vars : v + 1 \in 1 .. NVars /\ v + 1 - 1 = v
  BY NVarsAssumption, WidthAssumption DEF Vars
<1>2. \A v \in Vars : str(c)[v + 1] = IF v \notin c.mask THEN "-"
                                      ELSE IF v \in c.polarity THEN "1" ELSE "0"
  <2> SUFFICES ASSUME NEW v \in Vars
               PROVE  str(c)[v + 1] = IF v \notin c.mask THEN "-"
                                      ELSE IF v \in c.polarity THEN "1" ELSE "0"
    OBVIOUS
  <2>1. \A k \in 1 .. NVars : str(c)[k] = IF k - 1 \notin c.mask THEN "-"
                                          ELSE IF k - 1 \in c.polarity THEN "1" ELSE "0"
    BY DEF str
  <2>2. PICK w : w = v + 1
    OBVIOUS
  <2>3. w \in 1 .. NVars /\ w - 1 = v
    <3>1. v \in 0 .. NVars - 1 /\ NVars \in Nat
      BY NVarsAssumption, WidthAssumption DEF Vars
    <3> QED  BY <2>2, <3>1
  <2>4. str(c)[w] = IF w - 1 \notin c.mask THEN "-"
                    ELSE IF w - 1 \in c.polarity THEN "1" ELSE "0"
    BY <2>1, <2>3
  <2>5. str(c)[w] = IF v \notin c.mask THEN "-" ELSE IF v \in c.polarity THEN "1" ELSE "0"
    BY <2>3, <2>4
  <2> QED  BY <2>2, <2>5
<1>3. \A v \in Vars : (str(c)[v + 1] = "-" \/ (str(c)[v + 1] = "1") = (v \in x))
                        <=> Agrees(c, v, x)
  BY <1>2, CubeFields DEF Agrees
<1> QED  BY <1>3, RowIs, CoversLiterals DEF Matches

\* The lines of a file.
LEMMA FileLines ==
  ASSUME NEW s \in Seq(Cubes)
  PROVE  LET f == write_pla(s)
         IN  /\ f \in Seq(Range(f)) /\ Len(f) = Len(s) + 4
             /\ f[1] = Directive("i", NVars) /\ f[2] = Directive("o", 1)
             /\ f[3] = Directive("p", Len(s))
             /\ \A j \in DOMAIN s : f[j + 3] = Row(str(s[j]), <<"1">>)
             /\ f[Len(f)] = Line(<<".", "e">>)
<1> DEFINE head == <<Directive("i", NVars), Directive("o", 1), Directive("p", Len(s))>>
           rows == [k \in DOMAIN s |-> Row(str(s[k]), <<"1">>)]
           end  == <<Line(<<".", "e">>)>>
           S    == {head[1], head[2], head[3], end[1]} \cup {rows[k] : k \in DOMAIN s}
           f    == (head \o rows) \o end
<1>1. DOMAIN s = 1 .. Len(s) /\ Len(s) \in Nat
  OBVIOUS
<1>2. head \in Seq(S) /\ Len(head) = 3
  OBVIOUS
<1>3. rows \in Seq(S) /\ Len(rows) = Len(s)
  BY <1>1
<1>4. end \in Seq(S) /\ Len(end) = 1
  OBVIOUS
<1>5. /\ \A j \in DOMAIN s : rows[j] = Row(str(s[j]), <<"1">>)
      /\ head[1] = Directive("i", NVars) /\ head[2] = Directive("o", 1)
      /\ head[3] = Directive("p", Len(s)) /\ end[1] = Line(<<".", "e">>)
  OBVIOUS
<1>6. write_pla(s) = f
  BY DEF write_pla
<1> HIDE DEF head, rows, end, S
<1> DEFINE u == head \o rows
<1>7. /\ u \in Seq(S) /\ Len(u) = Len(s) + 3
      /\ u[1] = head[1] /\ u[2] = head[2] /\ u[3] = head[3]
      /\ \A j \in 1 .. Len(s) : u[j + 3] = rows[j]
  <2> HIDE DEF u
  <2>1. /\ u \in Seq(S) /\ Len(u) = 3 + Len(s)
        /\ \A j \in 1 .. 3 : u[j] = head[j]
        /\ \A j \in 1 .. Len(s) : u[3 + j] = rows[j]
    <3>1. u \in Seq(S) /\ IsJoin(u, head, rows)
      BY <1>2, <1>3, Joined DEF u
    <3> QED  BY <1>2, <1>3, <3>1 DEF IsJoin
  <2>2. 1 \in 1 .. 3 /\ 2 \in 1 .. 3 /\ 3 \in 1 .. 3 /\ 3 + Len(s) = Len(s) + 3
    BY <1>1
  <2>3. \A j \in 1 .. Len(s) : 3 + j = j + 3
    BY <1>1
  <2> QED  BY <2>1, <2>2, <2>3
<1>8. /\ f \in Seq(S) /\ Len(f) = Len(s) + 4
      /\ f[1] = head[1] /\ f[2] = head[2] /\ f[3] = head[3]
      /\ \A j \in DOMAIN s : f[j + 3] = rows[j]
      /\ f[Len(s) + 4] = end[1]
  <2> HIDE DEF u
  <2>1. f = u \o end
    BY DEF u
  <2> HIDE DEF f
  <2>2. /\ f \in Seq(S) /\ Len(f) = Len(s) + 3 + 1
        /\ \A j \in 1 .. Len(s) + 3 : f[j] = u[j]
        /\ f[Len(s) + 3 + 1] = end[1]
    <3>1. 1 \in 1 .. 1
      OBVIOUS
    <3>2. f \in Seq(S) /\ IsJoin(f, u, end)
      BY <1>4, <1>7, <2>1, Joined
    <3> QED  BY <1>4, <1>7, <3>1, <3>2 DEF IsJoin
  <2>3. /\ 1 \in 1 .. Len(s) + 3 /\ 2 \in 1 .. Len(s) + 3 /\ 3 \in 1 .. Len(s) + 3
        /\ \A j \in 1 .. Len(s) : j + 3 \in 1 .. Len(s) + 3
        /\ Len(s) + 3 + 1 = Len(s) + 4
    BY <1>1
  <2> QED  BY <1>1, <1>7, <2>2, <2>3
<1> HIDE DEF f, u
<1>9. f \in Seq(Range(f))
  BY <1>8 DEF Range
<1> QED  BY <1>5, <1>6, <1>8, <1>9

\* A file cut off before its end is not complete, a whole one is.
LEMMA OnlyWholeComplete ==
  ASSUME NEW s \in Seq(Cubes)
  PROVE  /\ Complete(write_pla(s))
         /\ \A n \in 0 .. Len(write_pla(s)) - 1 : ~ Complete(SubSeq(write_pla(s), 1, n))
<1> DEFINE f == write_pla(s)
<1>1. /\ f \in Seq(Range(f)) /\ Len(f) = Len(s) + 4
      /\ f[1] = Directive("i", NVars) /\ f[2] = Directive("o", 1)
      /\ f[3] = Directive("p", Len(s))
      /\ \A j \in DOMAIN s : f[j + 3] = Row(str(s[j]), <<"1">>)
      /\ f[Len(f)] = Line(<<".", "e">>)
  BY FileLines
<1>2. DOMAIN s = 1 .. Len(s) /\ Len(s) \in Nat /\ \A j \in DOMAIN s : s[j] \in Cubes
  OBVIOUS
<1> HIDE DEF f
<1>3. f # <<>>
  BY <1>1, <1>2
<1>4. Complete(f)
  BY <1>1, <1>3 DEF Complete, Last
<1>5. ASSUME NEW n \in 1 .. Len(f) - 1  PROVE f[n] # Line(<<".", "e">>)
  <2>1. CASE n <= 3
    <3>1. n \in {1, 2, 3}
      BY <1>1, <1>2, <2>1
    <3>2. NVars \in Nat /\ 1 \in Nat /\ Len(s) \in Nat
      BY <1>2, NVarsAssumption
    <3>3. /\ Directive("i", NVars) # Line(<<".", "e">>)
          /\ Directive("o", 1) # Line(<<".", "e">>)
          /\ Directive("p", Len(s)) # Line(<<".", "e">>)
      BY <3>2, DirectiveIs
    <3> QED  BY <1>1, <3>1, <3>3
  <2>2. CASE n > 3
    <3>1. n - 3 \in DOMAIN s /\ n - 3 + 3 = n
      BY <1>1, <1>2, <2>2
    <3> QED  BY <1>1, <1>2, <3>1, RowIs
  <2> QED  BY <1>1, <1>2, <2>1, <2>2
<1>6. ASSUME NEW n \in 0 .. Len(f) - 1, Complete(SubSeq(f, 1, n))  PROVE FALSE
  <2>1. SubSeq(f, 1, n) # <<>> /\ Last(SubSeq(f, 1, n)) = Line(<<".", "e">>)
    BY <1>6 DEF Complete
  <2>2. n # 0
    BY <1>1, <2>1
  <2>3. n \in 1 .. Len(f) - 1 /\ n \in 1 .. Len(f) /\ n \in Nat
    BY <1>1, <1>2, <2>2
  <2>4. Len(SubSeq(f, 1, n)) = n /\ SubSeq(f, 1, n)[n] = f[n]
    BY <1>1, <2>3
  <2> QED  BY <1>5, <2>1, <2>3, <2>4 DEF Last
<1> QED  BY <1>4, <1>6 DEF f

\* The rows of a whole file have the function of the cubes it is written from.
LEMMA FileFunction ==
  ASSUME NEW s \in Seq(Cubes)
  PROVE  LET rows == RowsOf(write_pla(s))
         IN  FunctionOf(s) = {x \in Points : Odd({m \in DOMAIN rows : Matches(rows[m], x)})}
<1> DEFINE f    == write_pla(s)
           rows == RowsOf(f)
<1>1. /\ f \in Seq(Range(f)) /\ Len(f) = Len(s) + 4
      /\ \A j \in DOMAIN s : f[j + 3] = Row(str(s[j]), <<"1">>)
  BY FileLines
<1>2. DOMAIN s = 1 .. Len(s) /\ Len(s) \in Nat /\ \A j \in DOMAIN s : s[j] \in Cubes
  OBVIOUS
<1> HIDE DEF f
<1>3. DOMAIN rows = DOMAIN s /\ \A j \in DOMAIN s : rows[j] = f[j + 3]
  <2>1. rows = SubSeq(f, 4, Len(s) + 3)
    BY <1>1, <1>2 DEF RowsOf
  <2>2. Len(rows) = Len(s) /\ rows \in Seq(Range(f))
    BY <1>1, <1>2, <2>1
  <2>3. \A j \in 1 .. Len(s) : rows[j] = f[4 + j - 1] /\ 4 + j - 1 = j + 3
    BY <1>1, <1>2, <2>1
  <2> QED  BY <1>2, <2>2, <2>3
<1> HIDE DEF rows
<1>4. ASSUME NEW x \in Points
      PROVE  {m \in DOMAIN rows : Matches(rows[m], x)} = {m \in DOMAIN s : Covers(s[m], x)}
  BY <1>1, <1>2, <1>3, RowMatches
<1> QED  BY <1>4 DEF FunctionOf, EsopOfSeq, rows, f

-----------------------------------------------------------------------------
(* Every state of the program satisfies IInv. *)

USE DEF vars, given

\* Both choices of the options and the graph are as the constants say.
LEMMA Given ==
  ASSUME TypeOK
  PROVE  /\ options \in Options /\ aig \in Seq(SUBSET Points)
         /\ Len(aig) \in Nat /\ DOMAIN aig = 1 .. Len(aig)
         /\ \A k \in DOMAIN aig : aig[k] \in SUBSET Points
  BY FunctionsAssumption DEF TypeOK

\* The program starts in a state that satisfies IInv.
LEMMA InitIInv == Init => IInv
<1> SUFFICES ASSUME Init PROVE IInv
  OBVIOUS
<1>1. /\ pc = "parse" /\ i = 0 /\ cf_results = <<>> /\ files = <<>>
      /\ unwritten = {} /\ verdict = "none" /\ status = "running"
      /\ options \in Options /\ aig \in Functions
      /\ result = [k \in DOMAIN aig |-> <<>>]
  BY DEF Init
<1>2. TypeOK
  <2>1. NCofactors \in Nat \ {0} /\ Len(aig) \in Nat
    BY <1>1, OptionsInRange, FunctionsAssumption
  <2>2. cf_results \in Seq([DOMAIN aig -> Seq(Cubes)])
    BY <1>1
  <2>3. result \in [DOMAIN aig -> Seq(Cubes)]
    <3>1. <<>> \in Seq(Cubes)
      OBVIOUS
    <3> QED  BY <1>1, <3>1
  <2>4. files \in Seq(Range(files)) /\ Len(files) <= Len(aig)
    <3>1. \A S : <<>> \in Seq(S)
      OBVIOUS
    <3>2. Len(<<>>) = 0
      OBVIOUS
    <3> QED  BY <1>1, <2>1, <3>1, <3>2
  <2> QED  BY <1>1, <2>1, <2>2, <2>3, <2>4 DEF TypeOK
<1>3. Control /\ CellsCollapsed /\ PartialResult /\ WholeResult
  <2>1. Len(cf_results) = 0 /\ 1 .. 0 = {}
    BY <1>1
  <2> QED  BY <1>1, <2>1 DEF Control, CellsCollapsed, PartialResult, WholeResult
<1>4. FilesRepresent /\ CheckPasses
  <2>1. DOMAIN files = {}
    BY <1>1
  <2> QED  BY <1>1, <2>1 DEF FilesRepresent, CheckPasses
<1> QED  BY <1>2, <1>3, <1>4 DEF IInv

\* A program that stops before it writes.
LEMMA ExitIInv ==
  ASSUME IInv, NEW how \in {"success", "failure", "fault"},
         pc \in {"parse", "collapse"}, how = "success" => argument = "help",
         Exit(how)
  PROVE  IInv'
<1>1. /\ pc' = "exited" /\ status' = how /\ files' = <<>> /\ files = <<>>
      /\ UNCHANGED <<argument, options, aig, i, cf_results, result, unwritten, verdict>>
  BY DEF Exit, IInv, Control
<1>2. TypeOK'
  BY <1>1 DEF IInv, TypeOK, NCofactors, n_cofactor
<1>3. CellsCollapsed' /\ CheckPasses'
  BY <1>1 DEF IInv, CellsCollapsed, CheckPasses, Cell, Chosen, Cofactored, n_cofactor
<1>4. Control' /\ PartialResult' /\ WholeResult'
  BY <1>1 DEF Control, PartialResult, WholeResult
<1>5. FilesRepresent'
  <2>1. DOMAIN files' = {}
    BY <1>1
  <2> QED  BY <1>1, <2>1 DEF FilesRepresent
<1> QED  BY <1>2, <1>3, <1>4, <1>5 DEF IInv

\* Steps that only move on: reading, the ends of the loops, and interruptions.
LEMMA MoveIInv ==
  ASSUME IInv,
         UNCHANGED <<argument, options, aig, cf_results, result, files, unwritten, verdict>>,
         \/ Read \/ Collapsed \/ StitchDone \/ Written \/ Return
         \/ Interrupted
  PROVE  IInv'
<1>1. CellsCollapsed' /\ CheckPasses'
  BY DEF IInv, CellsCollapsed, CheckPasses, Cell, Chosen, Cofactored, n_cofactor
<1>2. TypeOK'
  <2>1. NCofactors' = NCofactors /\ 0 \in 0 .. NCofactors
    BY OptionsInRange DEF IInv, TypeOK, NCofactors, n_cofactor
  <2> QED
    BY <2>1 DEF IInv, TypeOK, Read, Collapsed, StitchDone, Written, Return, Interrupted, Exit
<1>3. Control'
  <2>1. NCofactors' = NCofactors
    BY DEF NCofactors, n_cofactor
  <2>2. CASE Read
    BY <2>1, <2>2 DEF IInv, TypeOK, Control, Read
  <2>3. CASE Collapsed
    BY <2>1, <2>3 DEF IInv, TypeOK, Control, Collapsed
  <2>4. CASE StitchDone \/ Written
    BY <2>1, <2>4 DEF IInv, TypeOK, Control, StitchDone, Written
  <2>5. CASE Return \/ Interrupted
    BY <2>1, <2>5 DEF IInv, TypeOK, Control, Return, Interrupted, Exit
  <2> QED  BY <2>2, <2>3, <2>4, <2>5
<1>4. PartialResult'
  <2>1. CASE Collapsed
    <3>1. i' = 0 /\ aig' = aig /\ result' = result /\ \A k \in DOMAIN aig : result[k] = <<>>
      BY <2>1 DEF IInv, Control, Collapsed
    <3>2. Region(0)' = {}
      BY DEF Region
    <3> QED  BY <3>1, <3>2, FunctionOfNone DEF PartialResult
  <2>2. CASE ~ Collapsed
    BY <2>2 DEF PartialResult, Read, StitchDone, Written, Return, Interrupted, Exit
  <2> QED  BY <2>1, <2>2
<1>5. WholeResult'
  <2>1. CASE StitchDone
    <3>1. \A k \in DOMAIN aig : FunctionOf(result[k]) = aig[k] \cap Points
      BY <2>1, CellsCover DEF IInv, TypeOK, PartialResult, StitchDone
    <3>2. \A k \in DOMAIN aig : aig[k] \in SUBSET Points
      BY Given DEF IInv
    <3> QED  BY <3>1, <3>2 DEF WholeResult
  <2>2. CASE ~ StitchDone
    BY <2>2 DEF IInv, WholeResult, Read, Collapsed, Written, Return, Interrupted, Exit
  <2> QED  BY <2>1, <2>2
<1>6. FilesRepresent'
  <2>1. /\ status' \in {"failure", "fault"} => files' = <<>>
        /\ pc' = "exited" /\ status' = "success" /\ argument' = "graph" =>
             /\ Len(files') = Len(aig')
             /\ \A k \in DOMAIN files' : Complete(files'[k]) \/ k \in unwritten'
    BY DEF IInv, TypeOK, Control, FilesRepresent, Read, Collapsed, StitchDone, Written, Return,
           Interrupted, Exit
  <2>2. \A k \in DOMAIN files' :
          LET rows == RowsOf(files'[k]) IN
            Complete(files'[k]) =>
              aig'[k] = {x \in Points : Odd({m \in DOMAIN rows : Matches(rows[m], x)})}
    BY DEF IInv, FilesRepresent
  <2> QED  BY <2>1, <2>2 DEF FilesRepresent
<1> QED  BY <1>1, <1>2, <1>3, <1>4, <1>5, <1>6 DEF IInv

\* Collapsing one more cofactor.
LEMMA CollapseIInv ==
  ASSUME FewInputs, IInv, Collapse
  PROVE  IInv'
<1>1. /\ pc = "collapse" /\ i < NCofactors /\ i' = i + 1
      /\ UNCHANGED <<pc, argument, options, aig, result, files, unwritten, verdict, status>>
  BY DEF Collapse
<1>2. PICK ex \in [DOMAIN aig -> UNION {Extracts(Cofactor(aig[k], i)) : k \in DOMAIN aig}] :
        /\ \A k \in DOMAIN aig : ex[k] \in Extracts(Cofactor(aig[k], i))
        /\ cf_results' = Append(cf_results,
             [k \in DOMAIN aig |-> [m \in DOMAIN ex[k] |-> WithLits(ex[k][m], i)]])
  BY DEF Collapse
<1> DEFINE new == [k \in DOMAIN aig |-> [m \in DOMAIN ex[k] |-> WithLits(ex[k][m], i)]]
<1>3. /\ options \in Options /\ NCofactors \in Nat /\ i \in Nat /\ i + 1 <= NCofactors
      /\ \A k \in DOMAIN aig : aig[k] \in SUBSET Points
      /\ cf_results \in Seq([DOMAIN aig -> Seq(Cubes)]) /\ Len(cf_results) = i
  <2>1. TypeOK /\ Control
    BY DEF IInv
  <2>2. options \in Options /\ \A k \in DOMAIN aig : aig[k] \in SUBSET Points
    BY <2>1, Given
  <2>3. NCofactors \in Nat \ {0}
    BY <2>2, OptionsInRange
  <2>4. /\ i \in 0 .. NCofactors
        /\ cf_results \in Seq([DOMAIN aig -> Seq(Cubes)]) /\ Len(cf_results) = i
    BY <1>1, <2>1 DEF TypeOK, Control
  <2> QED  BY <1>1, <2>2, <2>3, <2>4
<1>4. ASSUME NEW k \in DOMAIN aig
      PROVE  new[k] \in Seq(Cubes) /\ FunctionOf(new[k]) = aig[k] \cap Cell(i)
  <2>1. ex[k] \in Extracts(Cofactor(aig[k], i)) /\ aig[k] \in SUBSET Points
    BY <1>2, <1>3
  <2> DEFINE f == aig[k]
             s == ex[k]
             t == [m \in DOMAIN s |-> WithLits(s[m], i)]
  <2>2. new[k] = t
    OBVIOUS
  <2>3. /\ s \in Extracts(Cofactor(f, i)) /\ f \in SUBSET Points
        /\ options \in Options /\ Exact /\ i \in Nat
    BY <1>3, <2>1, ExactThen
  <2>4. /\ DOMAIN t = DOMAIN s /\ t = [m \in DOMAIN t |-> t[m]]
        /\ \A m \in DOMAIN s : t[m] = WithLits(s[m], i)
    OBVIOUS
  <2> HIDE DEF new, f, s, t
  <2>5. t \in Seq(Cubes) /\ FunctionOf(t) = f \cap Cell(i)
    BY <2>3, <2>4, CofactorCollapsed
  <2> QED  BY <2>2, <2>5 DEF f
<1>5. new \in [DOMAIN aig -> Seq(Cubes)] /\ cf_results' = Append(cf_results, new)
  BY <1>2, <1>4
<1> HIDE DEF new
<1>6. /\ cf_results' \in Seq([DOMAIN aig -> Seq(Cubes)])
      /\ Len(cf_results') = i + 1 /\ cf_results'[i + 1] = new
      /\ \A m \in 1 .. i : cf_results'[m] = cf_results[m]
  BY <1>3, <1>5
<1>7. NCofactors' = NCofactors /\ \A n : Cell(n)' = Cell(n)
  BY <1>1 DEF NCofactors, n_cofactor, Cell, Chosen, Cofactored
<1>8. TypeOK'
  BY <1>1, <1>3, <1>6, <1>7 DEF IInv, TypeOK
<1>9. Control'
  BY <1>1, <1>6, <1>7 DEF IInv, Control
<1>10. CellsCollapsed'
  <2>1. ASSUME NEW m \in 1 .. i + 1, NEW k \in DOMAIN aig
        PROVE  FunctionOf(cf_results'[m][k]) = aig[k] \cap Cell(m - 1)
    <3>1. CASE m = i + 1
      <4>1. m - 1 = i
        BY <1>3, <3>1
      <4> QED  BY <1>4, <1>6, <3>1, <4>1
    <3>2. CASE m # i + 1
      <4>1. m \in 1 .. i
        BY <1>3, <3>2
      <4> QED  BY <1>3, <1>6, <4>1 DEF IInv, CellsCollapsed
    <3> QED  BY <3>1, <3>2
  <2> QED  BY <1>1, <1>6, <1>7, <2>1 DEF CellsCollapsed
<1>11. PartialResult' /\ WholeResult' /\ CheckPasses'
  BY <1>1 DEF IInv, PartialResult, WholeResult, CheckPasses
<1>12. FilesRepresent'
  BY <1>1 DEF IInv, FilesRepresent
<1> QED  BY <1>8, <1>9, <1>10, <1>11, <1>12 DEF IInv

\* Putting one more cofactor to the result, however it is minimised.
LEMMA StitchIInv == IInv /\ (Stitch \/ StitchAndExorcise) => IInv'
<1> SUFFICES ASSUME IInv, Stitch \/ StitchAndExorcise PROVE IInv'
  OBVIOUS
<1>1. /\ pc = "stitch" /\ i < NCofactors /\ i' = i + 1
      /\ UNCHANGED <<pc, argument, options, aig, cf_results, files, unwritten, verdict, status>>
  BY DEF Stitch, StitchAndExorcise
<1>2. /\ NCofactors \in Nat /\ i \in Nat /\ i + 1 <= NCofactors
      /\ Len(cf_results) = NCofactors
  BY <1>1, OptionsInRange DEF IInv, TypeOK, Control
<1>3. \A k \in DOMAIN aig : /\ Stitched[k] \in Seq(Cubes)
                            /\ FunctionOf(Stitched[k]) = aig[k] \cap Region(i + 1)
  BY <1>1, <1>2, StitchedIs DEF IInv
<1>4. /\ result' \in [DOMAIN aig -> Seq(Cubes)]
      /\ \A k \in DOMAIN aig : FunctionOf(result'[k]) = FunctionOf(Stitched[k])
  <2>1. CASE Stitch
    <3>1. result' = Stitched /\ Stitched = [k \in DOMAIN aig |-> Stitched[k]]
      BY <2>1 DEF Stitch, Stitched
    <3> QED  BY <1>3, <3>1
  <2>2. CASE StitchAndExorcise
    <3>1. PICK m \in [DOMAIN aig -> UNION {Minimised(Stitched[k]) : k \in DOMAIN aig}] :
            /\ \A k \in DOMAIN aig : m[k] \in Minimised(Stitched[k])
            /\ result' = [k \in DOMAIN aig |-> SetToSeq(m[k])]
      BY <2>2 DEF StitchAndExorcise
    <3>2. ASSUME NEW k \in DOMAIN aig
          PROVE  /\ SetToSeq(m[k]) \in Seq(Cubes)
                 /\ FunctionOf(SetToSeq(m[k])) = FunctionOf(Stitched[k])
      BY <3>1, MinimisedIs
    <3> QED  BY <3>1, <3>2
  <2> QED  BY <2>1, <2>2
<1>5. NCofactors' = NCofactors /\ (\A n : Cell(n)' = Cell(n)) /\ \A n : Region(n)' = Region(n)
  BY <1>1 DEF NCofactors, n_cofactor, Cell, Region, Chosen, Cofactored
<1>6. TypeOK'
  BY <1>1, <1>2, <1>4, <1>5 DEF IInv, TypeOK
<1>7. Control'
  BY <1>1, <1>5 DEF IInv, Control
<1>8. CellsCollapsed'
  BY <1>1, <1>5 DEF IInv, CellsCollapsed
<1>9. PartialResult'
  <2>1. \A k \in DOMAIN aig : FunctionOf(result'[k]) = aig[k] \cap Region(i + 1)
    BY <1>3, <1>4
  <2> QED  BY <1>1, <1>5, <2>1 DEF PartialResult
<1>10. WholeResult' /\ CheckPasses' /\ FilesRepresent'
  BY <1>1 DEF IInv, WholeResult, CheckPasses, FilesRepresent
<1> QED  BY <1>6, <1>7, <1>8, <1>9, <1>10 DEF IInv

\* Writing, to the end of a file or not.
LEMMA WriteIInv ==
  ASSUME IInv, WriteFile \/ WriteFails \/ InterruptedWrite
  PROVE  IInv'
<1> DEFINE k == Len(files) + 1
           s == result[k]
<1>1. /\ pc = "write" /\ Len(files) < Len(aig) /\ status = "running"
      /\ UNCHANGED <<argument, options, aig, i, cf_results, result, verdict>>
  BY DEF WriteFile, WriteFails, InterruptedWrite, IInv, Control
<1>2. /\ Len(aig) \in Nat /\ DOMAIN aig = 1 .. Len(aig)
      /\ Len(files) \in Nat /\ DOMAIN files = 1 .. Len(files) /\ files \in Seq(Range(files))
      /\ k \in DOMAIN aig /\ result \in [DOMAIN aig -> Seq(Cubes)]
  BY <1>1, Given DEF IInv, TypeOK
<1>3. s \in Seq(Cubes) /\ FunctionOf(s) = aig[k]
  BY <1>1, <1>2 DEF IInv, WholeResult
<1>4. text = write_pla(s)
  BY DEF text
<1>5. Len(text) \in Nat
  BY <1>3, <1>4, FileLines
<1>6. PICK f : /\ files' = Append(files, f)
               /\ f = text \/ (\E n \in 0 .. Len(text) - 1 : f = SubSeq(text, 1, n))
               /\ f = text \/ pc' = "interrupted" \/ k \in unwritten'
               /\ unwritten \subseteq unwritten' /\ unwritten' \subseteq unwritten \cup {k}
  BY DEF WriteFile, WriteFails, InterruptedWrite
<1>7. /\ pc' \in {"write", "interrupted"}
      /\ \/ pc' = "write" /\ status' = "running"
         \/ pc' = "interrupted" /\ status' = "success"
  BY <1>1 DEF WriteFile, WriteFails, InterruptedWrite
<1>8. /\ Complete(f) => f = write_pla(s)
      /\ f = text => Complete(f)
  BY <1>3, <1>4, <1>6, OnlyWholeComplete
<1>9. /\ Len(files') = k /\ DOMAIN files' = 1 .. k /\ files'[k] = f
      /\ \A j \in 1 .. Len(files) : files'[j] = files[j]
      /\ files' \in Seq(Range(files'))
  <2>1. files \in Seq(Range(files) \cup {f}) /\ f \in Range(files) \cup {f}
    BY <1>2
  <2>2. /\ Len(files') = k /\ DOMAIN files' = 1 .. k /\ files'[k] = f
        /\ \A j \in 1 .. Len(files) : files'[j] = files[j]
        /\ files' \in Seq(Range(files) \cup {f})
    BY <1>2, <1>6, <2>1
  <2> QED  BY <2>2 DEF Range
<1>10. TypeOK'
  <2>1. NCofactors' = NCofactors
    BY <1>1 DEF NCofactors, n_cofactor
  <2>2. unwritten' \subseteq DOMAIN files'
    <3>1. unwritten \subseteq DOMAIN files
      BY DEF IInv, TypeOK
    <3> QED  BY <1>2, <1>6, <1>9, <3>1
  <2> QED  BY <1>1, <1>2, <1>7, <1>9, <2>1, <2>2 DEF IInv, TypeOK
<1>11. Control'
  <2>1. ASSUME pc' = "write"
        PROVE  \A j \in DOMAIN files' : Complete(files'[j]) \/ j \in unwritten'
    <3>1. Complete(f) \/ k \in unwritten'
      BY <1>6, <1>8, <2>1
    <3>2. \A j \in 1 .. Len(files) : Complete(files'[j]) \/ j \in unwritten'
      <4>1. \A j \in DOMAIN files : Complete(files[j]) \/ j \in unwritten
        BY <1>1 DEF IInv, Control
      <4> QED  BY <4>1, <1>2, <1>6, <1>9
    <3>3. \A j \in 1 .. k : j = k \/ j \in 1 .. Len(files)
      BY <1>2
    <3> QED  BY <1>9, <3>1, <3>2, <3>3
  <2> QED  BY <1>7, <2>1 DEF Control
<1>12. CellsCollapsed' /\ PartialResult' /\ WholeResult' /\ CheckPasses'
  <2>1. CellsCollapsed' /\ CheckPasses'
    BY <1>1 DEF IInv, CellsCollapsed, CheckPasses, Cell, Chosen, Cofactored, n_cofactor
  <2>2. PartialResult' /\ WholeResult'
    BY <1>1, <1>7 DEF IInv, PartialResult, WholeResult
  <2> QED  BY <2>1, <2>2
<1>13. FilesRepresent'
  <2>1. ASSUME NEW j \in DOMAIN files', Complete(files'[j])
        PROVE  LET rows == RowsOf(files'[j]) IN
                 aig[j] = {x \in Points : Odd({m \in DOMAIN rows : Matches(rows[m], x)})}
    <3>1. CASE j = k
      <4>1. files'[j] = write_pla(s) /\ aig[j] = FunctionOf(s)
        BY <1>3, <1>8, <1>9, <2>1, <3>1
      <4> QED  BY <1>3, <4>1, FileFunction
    <3>2. CASE j # k
      <4>1. j \in DOMAIN files /\ files'[j] = files[j]
        BY <1>2, <1>9, <3>2
      <4> QED  BY <2>1, <4>1 DEF IInv, FilesRepresent
    <3> QED  BY <3>1, <3>2
  <2> QED  BY <1>1, <1>7, <2>1 DEF FilesRepresent
<1> QED  BY <1>10, <1>11, <1>12, <1>13 DEF IInv

\* The check finds nothing wrong.
LEMMA CheckIInv == IInv /\ CheckAndReturn => IInv'
<1> SUFFICES ASSUME IInv, CheckAndReturn PROVE IInv'
  OBVIOUS
<1>1. /\ pc = "written" /\ pc' = "exited" /\ status' = "success"
      /\ UNCHANGED <<argument, options, aig, i, cf_results, result, files, unwritten>>
  BY DEF CheckAndReturn
<1>2. verdict' = "equivalent"
  BY <1>1 DEF CheckAndReturn, IInv, WholeResult
<1>3. TypeOK'
  BY <1>1, <1>2 DEF IInv, TypeOK, NCofactors, n_cofactor
<1>4. Control' /\ PartialResult' /\ WholeResult' /\ CheckPasses'
  BY <1>1, <1>2 DEF Control, PartialResult, WholeResult, CheckPasses
<1>5. CellsCollapsed'
  BY <1>1 DEF IInv, CellsCollapsed, Cell, Chosen, Cofactored, n_cofactor
<1>6. FilesRepresent'
  BY <1>1 DEF IInv, Control, FilesRepresent
<1> QED  BY <1>3, <1>4, <1>5, <1>6 DEF IInv

\* No step breaks the invariant.
LEMMA NextIInv ==
  ASSUME FewInputs, IInv, [Next]_vars
  PROVE  IInv'
<1>1. CASE Help
  <2>1. Exit("success") /\ pc = "parse" /\ argument = "help"
    BY <1>1 DEF Help
  <2> QED  BY <2>1, ExitIInv
<1>2. CASE Reject \/ ReadFault \/ BddFault
  <2>1. pc \in {"parse", "collapse"} /\ \E how \in {"failure", "fault"} : Exit(how)
    BY <1>2 DEF Reject, ReadFault, BddFault
  <2>2. PICK how \in {"failure", "fault"} : Exit(how)
    BY <2>1
  <2>3. how \in {"success", "failure", "fault"} /\ how # "success"
    OBVIOUS
  <2> QED  BY <2>1, <2>2, <2>3, ExitIInv
<1>3. CASE Read \/ Collapsed \/ StitchDone \/ Written \/ Return \/ Interrupted
  <2>1. UNCHANGED <<argument, options, aig, cf_results, result, files, unwritten, verdict>>
    BY <1>3 DEF Read, Collapsed, StitchDone, Written, Return, Interrupted, Exit
  <2> QED  BY <1>3, <2>1, MoveIInv
<1>4. CASE Terminated \/ UNCHANGED vars
  <2>1. UNCHANGED vars
    BY <1>4 DEF Terminated
  <2>2. TypeOK' /\ Control' /\ CellsCollapsed'
    <3>1. TypeOK'
      BY <2>1 DEF IInv, TypeOK, NCofactors, n_cofactor
    <3>2. Control'
      BY <2>1 DEF IInv, Control, NCofactors, n_cofactor
    <3>3. CellsCollapsed'
      BY <2>1 DEF IInv, CellsCollapsed, Cell, Chosen, Cofactored, n_cofactor
    <3> QED  BY <3>1, <3>2, <3>3
  <2>3. PartialResult' /\ WholeResult' /\ CheckPasses'
    BY <2>1 DEF IInv, PartialResult, WholeResult, CheckPasses, Region, Cell, Chosen,
                Cofactored, n_cofactor
  <2>4. FilesRepresent'
    BY <2>1 DEF IInv, FilesRepresent
  <2> QED  BY <2>2, <2>3, <2>4 DEF IInv
<1> QED
  BY <1>1, <1>2, <1>3, <1>4, CollapseIInv, StitchIInv, WriteIInv, CheckIInv DEF Next

\* The inductive invariant of the program, if aig_extract is given fewer inputs
\* than bits, or is not used.
THEOREM Invariant ==
  ASSUME FewInputs
  PROVE  Spec => []IInv
<1>1. IInv /\ [Next]_vars => IInv'
  BY NextIInv
<1> QED  BY <1>1, InitIInv, PTL DEF Spec

\* While stitching, the result is the functions of the graph on the cofactors
\* put together so far, whatever minimising does to it on the way
\* (tools/collapse/main.cpp:154-166), if collapsing each cofactor is right.
THEOREM PartialResultKept ==
  ASSUME FewInputs
  PROVE  Spec => []PartialResult
<1>1. IInv => PartialResult
  BY DEF IInv
<1> QED  BY <1>1, Invariant, PTL

\* In a run that returns with success every file is complete unless its stream
\* has failed, which nothing reports, and every complete file, of an interrupted
\* run too, has the function of its output.
THEOREM FilesCorrect ==
  ASSUME FewInputs
  PROVE  Spec => []FilesRepresent
<1>1. IInv => FilesRepresent
  BY DEF IInv
<1> QED  BY <1>1, Invariant, PTL

\* The equivalence check, whose verdict is dropped (main.cpp:172-185), never finds
\* the result wrong unless aig_extract is given as many inputs as bits.
THEOREM CheckNeverFails ==
  ASSUME FewInputs
  PROVE  Spec => []CheckPasses
<1>1. IInv => CheckPasses
  BY DEF IInv
<1> QED  BY <1>1, Invariant, PTL

-----------------------------------------------------------------------------
(* The handler of SIGINT, for any number of cofactors and data lines: a      *)
(* mutex is held exactly within a call of main that takes it, and the loggers *)
(* the handler uses exist.                                                   *)

\* A mutex is held exactly as long as main is in a call that takes it, so that
\* an interrupt anywhere else finds all of them free.
HeldInCall ==
  held # "none" => calls # <<>> /\ call.op # "signal" /\ held = MutexOf(call)

\* Only the call main is in holds a mutex.
THEOREM MutexHeldInCall == HandlerSpec => []HeldInCall
<1>1. HandlerInit => HeldInCall
  BY DEF HandlerInit, HeldInCall
<1>2. HeldInCall /\ [HandlerNext]_handlerVars => HeldInCall'
  <2> SUFFICES ASSUME HeldInCall, [HandlerNext]_handlerVars PROVE HeldInCall'
    OBVIOUS
  <2>1. CASE Install
    BY <2>1 DEF Install, HeldInCall, call
  <2>2. CASE Enter
    BY <2>2 DEF Enter, HeldInCall, call, MutexOf
  <2>3. CASE Leave
    BY <2>3 DEF Leave, HeldInCall
  <2>4. CASE UNCHANGED <<calls, held>>
    BY <2>4 DEF HeldInCall, call, MutexOf
  <2>5. End \/ Interrupt \/ Handle \/ UNCHANGED handlerVars => UNCHANGED <<calls, held>>
    BY DEF End, Interrupt, Handle, GetData, Flush, GetConsole, Critical,
           Proceed, handlerVars
  <2> QED
    BY <2>1, <2>2, <2>3, <2>4, <2>5 DEF HandlerNext, Main
<1> QED
  BY <1>1, <1>2, PTL DEF HandlerSpec

(***************************************************************************)
(* Type correctness.                                                       *)
(***************************************************************************)
HandlerTypeOK ==
  /\ calls \in Seq(Calls)
  /\ held \in {"registry", "none"} \cup Loggers
  /\ loggers \subseteq Loggers
  /\ installed \in BOOLEAN /\ ended \in BOOLEAN
  /\ handler \in {"none", "get data", "flush", "get console", "critical", "exited"}

\* Repeated calls are calls.
LEMMA RepeatIsSeq ==
  ASSUME NEW S, NEW s \in Seq(S), NEW n \in Nat
  PROVE  Repeat(s, n) \in Seq(S)
<1>1. n * Len(s) \in Nat
  OBVIOUS
<1>2. ASSUME NEW k \in 1 .. n * Len(s)
      PROVE  s[((k - 1) % Len(s)) + 1] \in S
  <2>1. Len(s) # 0
    OBVIOUS
  <2>2. Len(s) \in Nat \ {0} /\ k - 1 \in Int
    BY <2>1
  <2>3. (k - 1) % Len(s) \in 0 .. Len(s) - 1
    BY ONLY <2>2
  <2>4. ((k - 1) % Len(s)) + 1 \in 1 .. Len(s)
    BY ONLY <2>2, <2>3
  <2> QED
    BY <2>4
<1> QED
  BY <1>1, <1>2 DEF Repeat

\* Creating a logger, looking one up and a line of log are calls.
LEMMA CallsAreCalls ==
  ASSUME NEW l \in Loggers
  PROVE  Create(l) \in Calls /\ Get(l) \in Calls /\ Log(l) \in Calls
BY DEF Create, Get, Log, Calls

\* The calls before the handler is installed.
LEMMA StartupIsSeq ==
  /\ Startup \in Seq(Calls) /\ Len(Startup) = 2
  /\ Startup[1] = Create("console") /\ Startup[2] = InstallIt
BY CallsAreCalls DEF Startup, InstallIt, Calls, Loggers

\* The calls for one cofactor.
LEMMA CofactorIsSeq ==
  ASSUME NEW method, NEW verbose, NEW lines \in Nat
  PROVE  CofactorCalls(method, verbose, lines) \in Seq(Calls)
<1>1. <<Log("data")>> \in Seq(Calls) /\ <<Log("console")>> \in Seq(Calls)
  BY CallsAreCalls DEF Loggers
<1>2. Repeat(<<Log("data")>>, lines) \in Seq(Calls)
  BY <1>1, RepeatIsSeq
<1>3. <<Get("console"), Get("data")>> \in Seq(Calls)
  BY CallsAreCalls DEF Loggers
<1> QED
  BY <1>1, <1>2, <1>3 DEF CofactorCalls

\* All calls of a run.
LEMMA WorkIsSeq ==
  ASSUME NEW work \in Rejections \cup Collapses
  PROVE  work \in Seq(Calls)
<1>1. /\ <<Log("console")>> \in Seq(Calls) /\ <<Get("console")>> \in Seq(Calls)
      /\ <<Create("data")>> \in Seq(Calls)
      /\ <<Get("console"), Log("console")>> \in Seq(Calls)
  BY CallsAreCalls DEF Loggers
<1>2. CASE work \in Rejections
  <2>1. <<>> \in Seq(Calls)
    OBVIOUS
  <2> QED
    BY <1>1, <1>2, <2>1 DEF Rejections
<1>3. CASE work \in Collapses
  <2>1. PICK method \in {"aig", "bdd"}, verbose \in BOOLEAN,
             lines \in 0 .. MaxLines, n \in 1 .. MaxCofactors :
          work = CollapseCalls(method, verbose, lines, n)
    BY <1>3 DEF Collapses
  <2>2. lines \in Nat /\ n \in Nat
    BY BoundsAssumption
  <2>3. Repeat(CofactorCalls(method, verbose, lines), n) \in Seq(Calls)
    BY <2>2, CofactorIsSeq, RepeatIsSeq
  <2> QED
    BY <1>1, <2>1, <2>3 DEF CollapseCalls
<1> QED
  BY <1>2, <1>3

\* For any number of cofactors and lines all calls, mutexes and loggers are
\* among those the model knows.
THEOREM HandlerTypeCorrect == HandlerSpec => []HandlerTypeOK
<1>1. HandlerInit => HandlerTypeOK
  <2> SUFFICES ASSUME HandlerInit PROVE HandlerTypeOK
    OBVIOUS
  <2>1. PICK work \in Rejections \cup Collapses : calls = Startup \o work
    BY DEF HandlerInit
  <2>2. calls \in Seq(Calls)
    BY <2>1, WorkIsSeq, StartupIsSeq
  <2> QED
    BY <2>2 DEF HandlerInit, HandlerTypeOK
<1>2. HandlerTypeOK /\ HeldInCall /\ [HandlerNext]_handlerVars => HandlerTypeOK'
  <2> SUFFICES ASSUME HandlerTypeOK, HeldInCall, [HandlerNext]_handlerVars PROVE HandlerTypeOK'
    OBVIOUS
  <2>1. ASSUME calls # <<>>
        PROVE  call \in Calls /\ Tail(calls) \in Seq(Calls)
    BY <2>1, HeadTailProperties DEF HandlerTypeOK, call
  <2>2. CASE Install
    BY <2>1, <2>2 DEF Install, HandlerTypeOK
  <2>3. CASE Enter
    BY <2>1, <2>3 DEF Enter, MutexOf, Calls, HandlerTypeOK
  <2>4. CASE Leave
    BY <2>1, <2>4 DEF Leave, Calls, HandlerTypeOK, HeldInCall
  <2>5. CASE End
    BY <2>5 DEF End, HandlerTypeOK
  <2>6. CASE Interrupt \/ Handle
    BY <2>6 DEF Interrupt, Handle, GetData, Flush, GetConsole, Critical, Proceed, HandlerTypeOK
  <2>7. CASE UNCHANGED handlerVars
    BY <2>7 DEF handlerVars, HandlerTypeOK
  <2> QED
    BY <2>2, <2>3, <2>4, <2>5, <2>6, <2>7 DEF HandlerNext, Main
<1> QED
  BY <1>1, <1>2, MutexHeldInCall, PTL DEF HandlerSpec

(***************************************************************************)
(* The console logger is created before the handler is installed: either   *)
(* both are still to be done, or the first has been done.                  *)
(***************************************************************************)
Ready ==
  /\ \/ /\ Len(calls) >= 2
        /\ calls[1] = Create("console") /\ calls[2] = InstallIt
     \/ "console" \in loggers
  /\ LoggersFound

\* Whenever the handler can be called there is a console logger for it, and
\* it flushes a data logger only if there is one.
THEOREM LoggersPresent == HandlerSpec => []LoggersFound
<1>1. HandlerInit => Ready
  <2> SUFFICES ASSUME HandlerInit PROVE Ready
    OBVIOUS
  <2>1. PICK work \in Rejections \cup Collapses : calls = Startup \o work
    BY DEF HandlerInit
  <2>2. work \in Seq(Calls) /\ Startup \in Seq(Calls) /\ Len(Startup) = 2
    BY WorkIsSeq, StartupIsSeq
  <2>3. Len(work) \in Nat
    BY <2>2, LenProperties
  <2>4. /\ Len(Startup \o work) = Len(Startup) + Len(work)
        /\ \A k \in 1 .. Len(Startup) + Len(work) :
             (Startup \o work)[k] =
               IF k <= Len(Startup) THEN Startup[k] ELSE work[k - Len(Startup)]
    BY <2>2, ConcatProperties
  <2>5. Len(calls) >= 2 /\ calls[1] = Startup[1] /\ calls[2] = Startup[2]
    BY <2>1, <2>2, <2>3, <2>4
  <2>6. /\ Len(calls) >= 2
        /\ calls[1] = Create("console") /\ calls[2] = InstallIt
    BY <2>5, StartupIsSeq
  <2> QED
    BY <2>6 DEF HandlerInit, Ready, LoggersFound
<1>2. HandlerTypeOK /\ Ready /\ [HandlerNext]_handlerVars => Ready'
  <2> SUFFICES ASSUME HandlerTypeOK, Ready, [HandlerNext]_handlerVars PROVE Ready'
    OBVIOUS
  <2>0. "console" \notin loggers =>
          /\ call.op = "create" /\ call.logger = "console"
          /\ calls # <<>>
    <3>1. ASSUME Len(calls) >= 2, calls[1] = Create("console")
          PROVE  call = Create("console") /\ calls # <<>>
      <4>1. calls # <<>>
        BY ONLY <3>1, EmptySeq
      <4>2. call = calls[1]
        BY DEF call
      <4> QED
        BY <3>1, <4>1, <4>2
    <3>2. Create("console").op = "create" /\ Create("console").logger = "console"
      BY DEF Create
    <3> QED
      BY <3>1, <3>2 DEF Ready
  <2>1. CASE Install
    <3>1. "console" \in loggers
      BY <2>0, <2>1 DEF Install
    <3>2. "console" \in loggers' /\ handler' = handler /\ loggers' = loggers
      BY <2>1, <3>1 DEF Install
    <3> QED
      BY <3>2 DEF Ready, LoggersFound
  <2>2. CASE Enter
    BY <2>2 DEF Enter, Ready, LoggersFound
  <2>3. CASE Leave
    <3>1. "console" \in loggers' /\ loggers \subseteq loggers'
      BY <2>0, <2>3 DEF Leave
    <3>2. handler' = handler
      BY <2>3 DEF Leave
    <3> QED
      BY <3>1, <3>2 DEF Ready, LoggersFound
  <2>4. CASE End
    BY <2>4 DEF End, Ready, LoggersFound
  <2>5. CASE Interrupt \/ Handle
    <3>1. UNCHANGED <<calls, installed, loggers>>
      BY <2>5 DEF Interrupt, Handle, GetData, Flush, GetConsole, Critical, Proceed
    <3>2. handler' = "flush" => "data" \in loggers
      BY <2>5 DEF Interrupt, Handle, GetData, Flush, GetConsole, Critical, Proceed
    <3> QED
      BY <3>1, <3>2 DEF Ready, LoggersFound
  <2>6. CASE UNCHANGED handlerVars
    BY <2>6 DEF handlerVars, Ready, LoggersFound
  <2> QED
    BY <2>1, <2>2, <2>3, <2>4, <2>5, <2>6 DEF HandlerNext, Main
<1>3. Ready => LoggersFound
  BY DEF Ready
<1> QED
  BY <1>1, <1>2, <1>3, HandlerTypeCorrect, PTL DEF HandlerSpec
=============================================================================
