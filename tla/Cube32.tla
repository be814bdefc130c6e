------------------------------- MODULE Cube32 -------------------------------
(***************************************************************************)
(* The cube of source/kernel/cube32.hpp: a product of literals held in two *)
(* machine words.  A word is the set of its bit positions that are 1, so   *)
(* &, |, ^ and ~ of the code are intersection, union, symmetric difference *)
(* and complement in Bits.                                                 *)
(***************************************************************************)
EXTENDS Integers, FiniteSetsExt

CONSTANTS
  Width,   \* number of bits of a word: 32 in the code
  NVars    \* number of inputs of the Boolean functions handled

ASSUME WidthAssumption == Width \in Nat \ {0}
ASSUME NVarsAssumption == NVars \in 0 .. Width

Bits == 0 .. Width - 1
Vars == 0 .. NVars - 1

\* Constructor cube32(m, p); not every pair of words is a cube in use.
Cube(m, p) == [mask |-> m, polarity |-> p]

\* The cubes over the inputs.  A literal that does not appear has polarity 0.
Cubes == {c \in [mask : SUBSET Vars, polarity : SUBSET Vars] :
            c.polarity \subseteq c.mask}

cube32_zero == Cube(Bits, {})
cube32_one  == Cube({}, {})

-----------------------------------------------------------------------------
(* Member functions. *)

\* operator& : the sentinel cube32_zero when two literals clash.
And(c, d) ==
  IF SymDiff(c.polarity, d.polarity) \cap c.mask \cap d.mask # {}
    THEN cube32_zero
    ELSE Cube(c.mask \cup d.mask, c.polarity \cup d.polarity)

n_lits(c) == Cardinality(c.mask)

\* Bits are only ever set: a literal already present is not overwritten.
add_lit(c, var, p) ==
  Cube(c.mask \cup {var}, c.polarity \cup (IF p = 1 THEN {var} ELSE {}))

\* Mutant of invert: the whole word is complemented.
invert_word(c) == Cube(c.mask, Bits \ c.polarity)

invert(c) == Cube(c.mask, SymDiff(c.polarity, c.mask))

\* The literal of var moves one place in the cycle '-' -> '1' -> '0' -> '-'.
rotate(c, var) ==
  LET bit == {var}
  IN  Cube(SymDiff(c.mask, (Bits \ c.polarity) \cap bit),
           SymDiff(c.polarity,
                   (Bits \ SymDiff(c.polarity, c.mask)) \cap bit))

\* The order of the 64-bit value, whose high word is the mask.
WordLess(a, b) ==
  \E i \in b \ a : \A k \in Bits : k > i => (k \in a <=> k \in b)

ValueLess(c, d) ==
  \/ WordLess(c.mask, d.mask)
  \/ c.mask = d.mask /\ WordLess(c.polarity, d.polarity)

-----------------------------------------------------------------------------
(* Free functions. *)

difference(l, r) ==
  SymDiff(l.polarity, r.polarity) \cup SymDiff(l.mask, r.mask)

distance(l, r) == Cardinality(difference(l, r))

\* Mutant of merge: the polarity of r is not complemented.
merge_uncomplemented(l, r) ==
  LET diff == difference(l, r)
  IN  Cube(SymDiff(l.mask, r.mask \cap diff),
           SymDiff(l.polarity, r.polarity \cap diff))

merge(l, r) ==
  LET diff == difference(l, r)
  IN  Cube(SymDiff(l.mask, r.mask \cap diff),
           SymDiff(l.polarity, (Bits \ r.polarity) \cap diff))

-----------------------------------------------------------------------------
(* What cubes mean: Boolean functions as sets of points, a point being the *)
(* set of inputs that are 1.                                               *)

Points == SUBSET Vars

Covers(c, x) == c.mask \cap x = c.mask \cap c.polarity

OnSet(c) == {x \in Points : Covers(c, x)}

Odd(S) == Cardinality(S) % 2 = 1

\* The function of a set of cubes read as an exclusive sum of products.
EsopOf(S) == {x \in Points : Odd({c \in S : Covers(c, x)})}

\* The functions of a list of cubes: an exclusive sum, where a cube that
\* occurs twice cancels, of some of the list or of all of it, and a plain sum.
EsopOfSeq(s, I) == {x \in Points : Odd({i \in I : Covers(s[i], x)})}
FunctionOf(s)   == EsopOfSeq(s, DOMAIN s)
SopOfSeq(s)     == {x \in Points : \E i \in DOMAIN s : Covers(s[i], x)}
=============================================================================
