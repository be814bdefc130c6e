---------------------------- MODULE AigCollapse ----------------------------
(***************************************************************************)
(* The collapser aig_extr_mngr of source/base/collapse.cpp: it computes an *)
(* ESOP for every gate of a graph by multiplying the ESOPs of its fanins,  *)
(* and at last the ESOPs of the outputs.                                   *)
(*                                                                         *)
(* One step prepares the fanins of a gate, multiplies two cubes, is one    *)
(* iteration of the loop of add_cube, or stores a result.                  *)
(***************************************************************************)
EXTENDS Aig

CONSTANT Aigs   \* the graphs that may be given to the program

ASSUME AigsAssumption == \A g \in Aigs : IsAig(g)

VARIABLES
  pc,
  aig,
  id,                  \* the object under way
  m_esops,             \* the ESOP of each object, {} not yet computed
  m_esop0, m_esop1,    \* the ESOPs of the fanins of the gate under way
  m_curr_esop,         \* and what has been multiplied so far, a set
  i0, i1,              \* the cubes to be multiplied next
  cube0,               \* the cube that add_cube is adding
  ret                  \* the ESOPs of the outputs

fanins  == <<m_esop0, m_esop1>>
indices == <<i0, i1>>
vars == <<pc, aig, id, m_esops, fanins, m_curr_esop, indices, cube0, ret>>

-----------------------------------------------------------------------------
(* prepare_input(): an ESOP or its complement, which differs by cube32_one. *)

\* Mutant of Complement: the cube inverted is still there.
ComplementKeeping(s) ==
  IF s = <<>> THEN <<cube32_one>>
  ELSE IF s[1] = cube32_one THEN Tail(s)
  ELSE IF n_lits(s[1]) = 1 THEN <<invert(s[1])>> \o s
  ELSE <<cube32_one>> \o s

Complement(s) ==
  IF s = <<>> THEN <<cube32_one>>
  ELSE IF s[1] = cube32_one THEN Tail(s)
  ELSE IF n_lits(s[1]) = 1 THEN <<invert(s[1])>> \o Tail(s)
  ELSE <<cube32_one>> \o s

prepare_input(e) ==
  IF e.cmpl THEN Complement(m_esops[e.id]) ELSE m_esops[e.id]

-----------------------------------------------------------------------------
(* run() and compute_and() *)

Prepare ==
  /\ pc = "node" /\ id <= LastId(aig)
  /\ m_esop0' = prepare_input(aig.ands[GateOf(id)][1])
  /\ m_esop1' = prepare_input(aig.ands[GateOf(id)][2])
  /\ i0' = 1 /\ i1' = 1

\* One of the fanins is the function 0, and so is the gate.
PrepareZero ==
  /\ Prepare
  /\ m_esop0' = <<>> \/ m_esop1' = <<>>
  /\ id' = id + 1
  /\ UNCHANGED <<pc, aig, m_esops, m_curr_esop, cube0, ret>>

PrepareAnd ==
  /\ Prepare
  /\ m_esop0' # <<>> /\ m_esop1' # <<>>
  /\ pc' = "and"
  /\ UNCHANGED <<aig, id, m_esops, m_curr_esop, cube0, ret>>

\* Mutant of Product: the sentinel is added like any product.
ProductWithZero(c, d) ==
  IF c = cube32_one THEN {d} ELSE IF d = cube32_one THEN {c} ELSE {And(c, d)}

\* The cube added for a pair of cubes, if any.
Product(c, d) ==
  IF c = cube32_one THEN {d}
  ELSE IF d = cube32_one THEN {c}
  ELSE {And(c, d)} \ {cube32_zero}

\* Mutant of NextPair: the inner loop does not start again.
NextPairNoReset ==
  /\ pc = "and" /\ i0 <= Len(m_esop0)
  /\ IF i1 < Len(m_esop1) THEN i1' = i1 + 1 /\ i0' = i0
                          ELSE i1' = i1 /\ i0' = i0 + 1
  /\ UNCHANGED <<aig, id, m_esops, fanins, m_curr_esop, ret>>

NextPair ==
  /\ pc = "and" /\ i0 <= Len(m_esop0)
  /\ IF i1 < Len(m_esop1) THEN i1' = i1 + 1 /\ i0' = i0
                          ELSE i1' = 1 /\ i0' = i0 + 1
  /\ UNCHANGED <<aig, id, m_esops, fanins, m_curr_esop, ret>>

Multiply ==
  /\ NextPair
  /\ cube0' \in Product(m_esop0[i0], m_esop1[i1])
  /\ pc' = "add_cube"

Clash ==
  /\ NextPair
  /\ Product(m_esop0[i0], m_esop1[i1]) = {}
  /\ UNCHANGED <<pc, cube0>>

\* The orders in which the cubes of m_curr_esop may be met.
Orders == {s \in [1 .. Cardinality(m_curr_esop) -> m_curr_esop] :
             \A i, k \in DOMAIN s : i # k => s[i] # s[k]}

Store ==
  /\ pc = "and" /\ i0 > Len(m_esop0)
  /\ \E s \in Orders : m_esops' = [m_esops EXCEPT ![id] = s]
  /\ m_curr_esop' = {}
  /\ id' = id + 1
  /\ pc' = "node"
  /\ UNCHANGED <<aig, fanins, indices, cube0, ret>>

Output ==
  /\ pc = "node" /\ id > LastId(aig) /\ Len(ret) < Len(aig.outs)
  /\ m_esop0' = prepare_input(aig.outs[Len(ret) + 1])
  /\ ret' = Append(ret, m_esop0')
  /\ UNCHANGED <<pc, aig, id, m_esops, m_esop1, m_curr_esop, indices, cube0>>

Return ==
  /\ pc = "node" /\ id > LastId(aig) /\ Len(ret) = Len(aig.outs)
  /\ pc' = "done"
  /\ UNCHANGED <<aig, id, m_esops, fanins, m_curr_esop, indices, cube0, ret>>

-----------------------------------------------------------------------------
(* add_cube() *)

AddCube ==
  /\ pc = "add_cube"
  /\ UNCHANGED <<aig, id, m_esops, fanins, indices, ret>>

AddCancel ==
  /\ AddCube
  /\ cube0 \in m_curr_esop
  /\ m_curr_esop' = m_curr_esop \ {cube0}
  /\ pc' = "and"
  /\ UNCHANGED cube0

\* Mutant of Finds: the literal is rotated only once.
FindsFirst(i, x) == x \in m_curr_esop /\ x = rotate(cube0, i)

\* The cube found in m_curr_esop by rotating the literal of input i.
Finds(i, x) ==
  LET once == rotate(cube0, i) IN
  /\ x \in m_curr_esop
  /\ x = once \/ (x = rotate(once, i) /\ once \notin m_curr_esop)

\* Mutant of AddMerge: the cube merged with is not erased.
AddMergeKeeping ==
  /\ AddCube
  /\ cube0 \notin m_curr_esop /\ cube0 # cube32_one
  /\ \E i \in Vars, x \in m_curr_esop :
       /\ Finds(i, x)
       /\ \A k \in Vars, y \in m_curr_esop : k < i => ~ Finds(k, y)
       /\ cube0' = merge(cube0, x)
  /\ UNCHANGED <<pc, m_curr_esop>>

\* The loop stops at the first input that finds one.
AddMerge ==
  /\ AddCube
  /\ cube0 \notin m_curr_esop /\ cube0 # cube32_one
  /\ \E i \in Vars, x \in m_curr_esop :
       /\ Finds(i, x)
       /\ \A k \in Vars, y \in m_curr_esop : k < i => ~ Finds(k, y)
       /\ cube0' = merge(cube0, x)
       /\ m_curr_esop' = m_curr_esop \ {x}
  /\ UNCHANGED pc

AddInsert ==
  /\ AddCube
  /\ cube0 \notin m_curr_esop
  /\ cube0 = cube32_one \/ \A i \in Vars, x \in m_curr_esop : ~ Finds(i, x)
  /\ m_curr_esop' = m_curr_esop \cup {cube0}
  /\ pc' = "and"
  /\ UNCHANGED cube0

-----------------------------------------------------------------------------
Terminated == pc = "done" /\ UNCHANGED vars

\* Elementary ESOPs for the inputs, none for the other objects.
Init ==
  /\ pc = "node"
  /\ aig \in Aigs
  /\ id = GateId(1)
  /\ m_esops = [k \in Ids(aig) |->
                  IF k \in 1 .. NVars THEN <<Cube({k - 1}, {k - 1})>> ELSE <<>>]
  /\ m_esop0 = <<>> /\ m_esop1 = <<>> /\ m_curr_esop = {}
  /\ i0 = 1 /\ i1 = 1 /\ cube0 = cube32_one /\ ret = <<>>

Next == \/ PrepareZero \/ PrepareAnd \/ Multiply \/ Clash \/ Store
        \/ Output \/ Return \/ AddCancel \/ AddMerge \/ AddInsert \/ Terminated

Spec     == Init /\ [][Next]_vars
FairSpec == Spec /\ WF_vars(Next)
=============================================================================
