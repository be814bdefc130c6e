-------------------------- MODULE AigToBddProofs --------------------------
(***************************************************************************)
(* What aig_to_bdd builds are the functions of the graph, for every graph. *)
(***************************************************************************)
EXTENDS AigToBdd, SequenceTheorems, TLAPS

-----------------------------------------------------------------------------
(* The graph *)

\* Gates read earlier objects, outputs any object.
LEMMA GraphReads ==
  ASSUME TypeOK
  PROVE  /\ NVars \in Nat /\ id \in Nat /\ id >= NVars + 1
         /\ LastId(aig) \in Nat /\ LastId(aig) >= NVars /\ id <= LastId(aig) + 1
         /\ AtGate => /\ gate \in Edge \X Edge
                      /\ \A j \in 1 .. 2 : gate[j].id \in 0 .. id - 1
         /\ AtOutput => out \in Edge /\ out.id \in 0 .. id - 1
<1>1. NVars \in Nat
  BY NVarsAssumption, WidthAssumption
<1>2. /\ aig.ands \in Seq(Edge \X Edge) /\ aig.outs \in Seq(Edge)
      /\ \A k \in 1 .. Len(aig.ands), j \in 1 .. 2 : aig.ands[k][j].id < NVars + k
      /\ \A k \in 1 .. Len(aig.outs) : aig.outs[k].id <= LastId(aig)
  BY DEF TypeOK, IsAig, GateId
<1>3. Len(aig.ands) \in Nat /\ LastId(aig) = NVars + Len(aig.ands)
  BY <1>2 DEF LastId, GateId
<1>4. id \in NVars + 1 .. LastId(aig) + 1
  BY <1>1 DEF TypeOK, GateId
<1>5. ASSUME AtGate
      PROVE  gate \in Edge \X Edge /\ \A j \in 1 .. 2 : gate[j].id \in 0 .. id - 1
  <2>1. GateOf(id) \in 1 .. Len(aig.ands) /\ NVars + GateOf(id) = id
    BY <1>1, <1>3, <1>4, <1>5 DEF AtGate, GateOf
  <2>2. gate \in Edge \X Edge
    BY <1>2, <2>1 DEF gate
  <2>3. ASSUME NEW j \in 1 .. 2  PROVE gate[j].id \in 0 .. id - 1
    <3>1. gate[j].id \in Nat
      BY <2>2 DEF Edge
    <3>2. gate[j].id < id
      BY <1>2, <2>1 DEF gate
    <3> QED  BY <1>1, <1>3, <1>4, <3>1, <3>2
  <2> QED  BY <2>2, <2>3
<1>6. ASSUME AtOutput  PROVE out \in Edge /\ out.id \in 0 .. id - 1
  <2>1. Len(outputs) + 1 \in 1 .. Len(aig.outs)
    BY <1>2, <1>6 DEF AtOutput, TypeOK
  <2>2. out \in Edge /\ out.id <= LastId(aig)
    BY <1>2, <2>1 DEF out
  <2>3. out.id \in Nat /\ id = LastId(aig) + 1
    BY <1>1, <1>3, <1>4, <1>6, <2>2 DEF AtOutput, Edge
  <2> QED  BY <1>1, <1>3, <2>2, <2>3
<1> QED  BY <1>1, <1>3, <1>4, <1>5, <1>6

\* An object that is read without a fault holds one function.
LEMMA OperandHeld ==
  ASSUME TypeOK, NEW e \in Edge, e.id \in 0 .. id - 1, nodes[e.id] # EmptyBdd
  PROVE  /\ \E f \in SUBSET Points : Operand(e) = {f}
         /\ FunctionOfBdd(Operand(e))
              = IF e.cmpl THEN Points \ FunctionOfBdd(nodes[e.id])
                          ELSE FunctionOfBdd(nodes[e.id])
<1>1. e.id \in Ids(aig)
  BY GraphReads DEF Ids
<1>2. PICK f \in SUBSET Points : nodes[e.id] = {f}
  BY <1>1 DEF TypeOK
<1>3. Operand(e) = {IF e.cmpl THEN Points \ f ELSE f}
  BY <1>2 DEF Operand, Not
<1>4. \A g : UNION {g} = g
  OBVIOUS
<1>5. Points \ f \in SUBSET Points
  OBVIOUS
<1> QED  BY <1>2, <1>3, <1>4, <1>5 DEF FunctionOfBdd

-----------------------------------------------------------------------------
(* Steps *)

Val     == [k \in 0 .. id - 1 |-> FunctionOfBdd(nodes[k])]
Results == [k \in 1 .. Len(outputs) |-> FunctionOfBdd(outputs[k])]

\* A gate gets its function from those of its fanins.
LEMMA GateComputes ==
  ASSUME TypeOK, Gate
  PROVE  /\ \E f \in SUBSET Points : And2(Operand(gate[1]), Operand(gate[2])) = {f}
         /\ FunctionOfBdd(And2(Operand(gate[1]), Operand(gate[2]))) = GateFunction(Val, gate)
<1>1. /\ gate[1] \in Edge /\ gate[1].id \in 0 .. id - 1 /\ nodes[gate[1].id] # EmptyBdd
      /\ gate[2] \in Edge /\ gate[2].id \in 0 .. id - 1 /\ nodes[gate[2].id] # EmptyBdd
  BY GraphReads DEF Gate, FaultAtGate
<1>2. PICK f \in SUBSET Points : Operand(gate[1]) = {f}
  BY <1>1, OperandHeld
<1>3. PICK g \in SUBSET Points : Operand(gate[2]) = {g}
  BY <1>1, OperandHeld
<1>4. \A h : UNION {h} = h
  OBVIOUS
<1>5. And2(Operand(gate[1]), Operand(gate[2])) = {f \cap g}
  BY <1>2, <1>3 DEF And2
<1>6. f = EdgeFunction(Val, gate[1])
  BY <1>1, <1>2, <1>4, OperandHeld DEF EdgeFunction, Val, FunctionOfBdd
<1>7. g = EdgeFunction(Val, gate[2])
  BY <1>1, <1>3, <1>4, OperandHeld DEF EdgeFunction, Val, FunctionOfBdd
<1> QED  BY <1>4, <1>5, <1>6, <1>7 DEF GateFunction, FunctionOfBdd

\* An output gets the function of its edge, a constant 0 by getting no node.
LEMMA OutputComputes ==
  ASSUME TypeOK, Output
  PROVE  /\ Operand(out) \in SUBSET SUBSET Points
         /\ FunctionOfBdd(Operand(out)) = EdgeFunction(Val, out)
<1>1. out \in Edge /\ out.id \in 0 .. id - 1
  BY GraphReads DEF Output
<1>2. CASE nodes[out.id] # EmptyBdd
  BY <1>1, <1>2, OperandHeld DEF EdgeFunction, Val
<1>3. CASE nodes[out.id] = EmptyBdd
  <2>1. ~ out.cmpl
    BY <1>3 DEF Output, FaultAtOutput
  <2> QED  BY <1>1, <1>3, <2>1 DEF Operand, EdgeFunction, Val, EmptyBdd
<1> QED  BY <1>2, <1>3

\* The inputs hold their functions from the start.
LEMMA InitTypeOK == Init => TypeOK
<1> SUFFICES ASSUME Init PROVE TypeOK
  OBVIOUS
<1>1. IsAig(aig) /\ NVars \in Nat
  BY AigsAssumption, NVarsAssumption, WidthAssumption DEF Init
<1>2. Len(aig.ands) \in Nat
  BY <1>1 DEF IsAig
<1>3. id = NVars + 1 /\ LastId(aig) = NVars + Len(aig.ands)
  BY DEF Init, GateId, LastId
<1>4. \A k : InputFunction(k) \in SUBSET Points
  BY DEF InputFunction
<1>5. \A k \in Ids(aig) : nodes[k] = IF k \in 1 .. NVars THEN {InputFunction(k)} ELSE EmptyBdd
  BY DEF Init, InputNodes
<1>6. nodes \in [Ids(aig) -> SUBSET SUBSET Points]
  BY <1>4 DEF Init, InputNodes, EmptyBdd
<1>7. \A k \in Ids(aig) : IF k \in 1 .. id - 1
                          THEN \E f \in SUBSET Points : nodes[k] = {f}
                          ELSE nodes[k] = EmptyBdd
  <2>1. id - 1 = NVars
    BY <1>1, <1>3
  <2> QED  BY <1>4, <1>5, <2>1
<1>8. \A k \in 1 .. NVars : k \in Ids(aig)
  BY <1>1, <1>2, <1>3 DEF Ids
<1>9. id \in GateId(1) .. LastId(aig) + 1
  BY <1>1, <1>2, <1>3 DEF GateId
<1>10. \A k \in 1 .. NVars : nodes[k] = {InputFunction(k)}
  BY <1>5, <1>8
<1>11. pc = "run" /\ outputs = <<>> /\ <<>> \in Seq(SUBSET SUBSET Points)
  BY DEF Init
<1> QED  BY <1>1, <1>6, <1>7, <1>9, <1>10, <1>11 DEF TypeOK

\* Every step leaves the objects before the one under way with their functions.
LEMMA NextTypeOK == TypeOK /\ [Next]_vars => TypeOK'
<1> SUFFICES ASSUME TypeOK, [Next]_vars PROVE TypeOK'
  OBVIOUS
<1> USE DEF EmptyBdd
<1>1. CASE Gate
  <2> DEFINE b == And2(Operand(gate[1]), Operand(gate[2]))
  <2>1. PICK f \in SUBSET Points : b = {f}
    BY <1>1, GateComputes
  <2>2. /\ nodes' = [nodes EXCEPT ![id] = b] /\ id' = id + 1 /\ id <= LastId(aig)
        /\ UNCHANGED <<pc, aig, outputs>>
    BY <1>1 DEF Gate, AtGate
  <2> HIDE DEF b
  <2>3. NVars \in Nat /\ id \in Nat /\ id >= NVars + 1 /\ LastId(aig) \in Nat
    BY GraphReads
  <2>4. id \in Ids(aig) /\ id' \in GateId(1) .. LastId(aig) + 1
    BY <2>2, <2>3 DEF Ids, GateId
  <2>5. nodes' \in [Ids(aig) -> SUBSET SUBSET Points]
    BY <2>1, <2>2 DEF TypeOK
  <2>6. \A k \in Ids(aig) : nodes'[k] = IF k = id THEN {f} ELSE nodes[k]
    BY <2>1, <2>2 DEF TypeOK
  <2>7. \A k \in Ids(aig) : IF k \in 1 .. id' - 1
                            THEN \E h \in SUBSET Points : nodes'[k] = {h}
                            ELSE nodes'[k] = {}
    <3> SUFFICES ASSUME NEW k \in Ids(aig)
                 PROVE  IF k \in 1 .. id' - 1
                          THEN \E h \in SUBSET Points : nodes'[k] = {h}
                          ELSE nodes'[k] = {}
      OBVIOUS
    <3>1. CASE k = id
      BY <2>2, <2>3, <2>6, <3>1
    <3>2. CASE k # id
      <4>1. nodes'[k] = nodes[k]
        BY <2>6, <3>2
      <4>2. k \in 1 .. id' - 1 <=> k \in 1 .. id - 1
        BY <2>2, <2>3, <3>2
      <4> QED  BY <4>1, <4>2 DEF TypeOK
    <3> QED  BY <3>1, <3>2
  <2>8. \A k \in 1 .. NVars : nodes'[k] = {InputFunction(k)}
    <3> SUFFICES ASSUME NEW k \in 1 .. NVars PROVE nodes'[k] = {InputFunction(k)}
      OBVIOUS
    <3>1. k \in Ids(aig) /\ k # id
      BY <2>3, GraphReads DEF Ids
    <3> QED  BY <2>6, <3>1 DEF TypeOK
  <2> QED  BY <2>2, <2>4, <2>5, <2>7, <2>8 DEF TypeOK
<1>2. CASE Output
  <2>1. outputs' \in Seq(SUBSET SUBSET Points)
    <3> DEFINE b == Operand(out)
    <3>1. b \in SUBSET SUBSET Points
      BY <1>2, OutputComputes
    <3>2. outputs' = Append(outputs, b) /\ outputs \in Seq(SUBSET SUBSET Points)
      BY <1>2 DEF Output, TypeOK
    <3> HIDE DEF b
    <3> QED  BY <3>1, <3>2, AppendProperties
  <2> QED  BY <1>2, <2>1 DEF Output, TypeOK
<1>3. CASE GateFaults \/ OutputFaults \/ Return \/ Ended \/ UNCHANGED vars
  BY <1>3 DEF GateFaults, OutputFaults, Return, Ended, vars, TypeOK
<1> QED  BY <1>1, <1>2, <1>3 DEF Next

\* No BDD is read before its object has one, whatever graph is given.
THEOREM TypeCorrect == Spec => []TypeOK
BY InitTypeOK, NextTypeOK, PTL DEF Spec

-----------------------------------------------------------------------------
(* Refinement *)

\* The operators of the abstract specification are those of this one.
LEMMA SameMeaning ==
  /\ \A g : Eval!IsAig(g) <=> IsAig(g)
  /\ \A k : Eval!GateId(k) = GateId(k) /\ Eval!GateOf(k) = GateOf(k)
  /\ \A g : Eval!LastId(g) = LastId(g)
  /\ \A k : Eval!InputFunction(k) = InputFunction(k)
  /\ \A v, e : Eval!EdgeFunction(v, e) = EdgeFunction(v, e)
  /\ \A v, g : Eval!GateFunction(v, g) = GateFunction(v, g)
<1>1. Eval!Points = Points
  BY DEF Eval!Points, Points, Eval!Vars, Vars
<1>2. \A v, e : Eval!EdgeFunction(v, e) = EdgeFunction(v, e)
  BY <1>1 DEF Eval!EdgeFunction, EdgeFunction
<1> QED
  BY <1>1, <1>2 DEF Eval!IsAig, IsAig, Eval!Edge, Edge, Eval!GateId, GateId, Eval!GateOf,
    GateOf, Eval!LastId, LastId, Eval!InputFunction, InputFunction, Eval!GateFunction,
    GateFunction

\* The inputs are what AigEval begins with.
LEMMA InitRefines == Init => Eval!Init
<1> SUFFICES ASSUME Init PROVE Eval!Init
  OBVIOUS
<1>1. TypeOK
  BY InitTypeOK
<1>2. id = GateId(1) /\ outputs = <<>> /\ id - 1 = NVars /\ NVars \in Nat
  BY <1>1, GraphReads DEF Init, GateId
<1>3. \A k \in 0 .. NVars : FunctionOfBdd(nodes[k]) = InputFunction(k)
  <2> SUFFICES ASSUME NEW k \in 0 .. NVars
               PROVE  FunctionOfBdd(nodes[k]) = InputFunction(k)
    OBVIOUS
  <2>1. CASE k = 0
    <3>1. 0 \in Ids(aig) /\ 0 \notin 1 .. id - 1
      BY <1>1, GraphReads DEF Ids
    <3>2. nodes[0] = {}
      BY <1>1, <3>1 DEF TypeOK, EmptyBdd
    <3> QED  BY <2>1, <3>2 DEF FunctionOfBdd, InputFunction
  <2>2. CASE k # 0
    <3>1. nodes[k] = {InputFunction(k)}
      BY <1>1, <1>2, <2>2 DEF TypeOK
    <3>2. \A g : UNION {g} = g
      OBVIOUS
    <3> QED  BY <3>1, <3>2 DEF FunctionOfBdd
  <2> QED  BY <2>1, <2>2
<1>4. Len(outputs) = 0 /\ 1 .. Len(outputs) = {}
  BY <1>2
<1>5. [k \in 1 .. Len(outputs) |-> FunctionOfBdd(outputs[k])] = <<>>
  BY <1>4
<1>6. [k \in 0 .. id - 1 |-> FunctionOfBdd(nodes[k])] = [k \in 0 .. NVars |-> InputFunction(k)]
  BY <1>2, <1>3
<1>7. IsAig(aig)
  BY <1>1 DEF TypeOK
<1> QED  BY <1>2, <1>5, <1>6, <1>7, SameMeaning DEF Eval!Init

\* A gate that is built is a gate that is computed.
LEMMA GateRefines == TypeOK /\ Gate => Eval!Gate
<1> SUFFICES ASSUME TypeOK, Gate PROVE Eval!Gate
  OBVIOUS
<1> DEFINE b == And2(Operand(gate[1]), Operand(gate[2]))
<1>1. FunctionOfBdd(b) = GateFunction(Val, gate)
  BY GateComputes
<1>2. /\ nodes' = [nodes EXCEPT ![id] = b] /\ id' = id + 1 /\ id <= LastId(aig)
      /\ UNCHANGED <<pc, aig, outputs>>
  BY DEF Gate, AtGate
<1>3. id \in Nat /\ LastId(aig) \in Nat /\ 0 .. id = 0 .. id' - 1
  BY <1>2, GraphReads
<1>4. \A k \in 0 .. id : nodes'[k] = IF k = id THEN b ELSE nodes[k]
  BY <1>2, <1>3 DEF TypeOK, Ids
<1> HIDE DEF b
<1>5. Val'
        = [k \in 0 .. id |-> IF k = id THEN GateFunction(Val, gate) ELSE Val[k]]
  <2> SUFFICES ASSUME NEW k \in 0 .. id
               PROVE  FunctionOfBdd(nodes'[k])
                        = IF k = id THEN GateFunction(Val, gate) ELSE Val[k]
    BY <1>3 DEF Val
  <2>1. CASE k = id
    BY <1>1, <1>4, <2>1
  <2>2. CASE k # id
    BY <1>3, <1>4, <2>2 DEF Val
  <2> QED  BY <2>1, <2>2
<1>6. Results' = Results
  BY <1>2 DEF Results, FunctionOfBdd
<1>7. /\ id <= Eval!LastId(aig) /\ id' = id + 1 /\ aig' = aig
      /\ gate = aig.ands[Eval!GateOf(id)]
  BY <1>2, SameMeaning DEF gate
<1>8. Val' = [k \in 0 .. id |-> IF k = id THEN Eval!GateFunction(Val, gate) ELSE Val[k]]
  BY <1>5, SameMeaning
<1> QED  BY <1>6, <1>7, <1>8 DEF Eval!Gate, Val, Results

\* Appending to a list, seen as a function.
LEMMA AppendIsFunction ==
  ASSUME NEW S, NEW s \in Seq(S), NEW x \in S
  PROVE  Append(s, x) = [k \in 1 .. Len(s) + 1 |-> IF k = Len(s) + 1 THEN x ELSE s[k]]
<1>1. /\ Append(s, x) \in Seq(S) /\ Len(Append(s, x)) = Len(s) + 1 /\ Len(s) \in Nat
      /\ Append(s, x)[Len(s) + 1] = x
      /\ \A k \in 1 .. Len(s) : Append(s, x)[k] = s[k]
  BY AppendProperties
<1>2. Append(s, x) = [k \in 1 .. Len(s) + 1 |-> Append(s, x)[k]]
  <2>1. \A t \in Seq(S) : t \in [1 .. Len(t) -> S]
    OBVIOUS
  <2>2. Append(s, x) \in [1 .. Len(s) + 1 -> S]
    BY <1>1, <2>1
  <2> QED  BY <2>2
<1>3. \A k \in 1 .. Len(s) + 1 : k # Len(s) + 1 => k \in 1 .. Len(s)
  BY <1>1
<1> QED  BY <1>1, <1>2, <1>3

\* An output that is built is an output that is computed.
LEMMA OutputRefines == TypeOK /\ Output => Eval!Output
<1> SUFFICES ASSUME TypeOK, Output PROVE Eval!Output
  OBVIOUS
<1> DEFINE r == [k \in 1 .. Len(outputs) |-> FunctionOfBdd(outputs[k])]
           b == Operand(out)
<1>1. b \in SUBSET SUBSET Points /\ FunctionOfBdd(b) = EdgeFunction(Val, out)
  BY OutputComputes
<1>2. /\ id > LastId(aig) /\ Len(outputs) < Len(aig.outs)
      /\ outputs' = Append(outputs, b) /\ UNCHANGED <<pc, aig, id, nodes>>
      /\ out = aig.outs[Len(outputs) + 1]
  BY DEF Output, AtOutput, out
<1> HIDE DEF b
<1>3. /\ Len(outputs) \in Nat /\ Len(outputs') = Len(outputs) + 1
      /\ \A k \in 1 .. Len(outputs) : outputs'[k] = outputs[k]
      /\ outputs'[Len(outputs) + 1] = b
  BY <1>1, <1>2 DEF TypeOK
<1>4. DOMAIN r = 1 .. Len(outputs) /\ Len(r) = Len(outputs)
  BY <1>3
<1>5. [k \in 1 .. Len(outputs') |-> FunctionOfBdd(outputs'[k])]
        = [k \in 1 .. Len(outputs) + 1 |->
             IF k = Len(outputs) + 1 THEN EdgeFunction(Val, out) ELSE r[k]]
  <2> SUFFICES ASSUME NEW k \in 1 .. Len(outputs) + 1
               PROVE  FunctionOfBdd(outputs'[k])
                        = IF k = Len(outputs) + 1 THEN EdgeFunction(Val, out) ELSE r[k]
    BY <1>3
  <2>1. CASE k = Len(outputs) + 1
    BY <1>1, <1>3, <2>1
  <2>2. CASE k # Len(outputs) + 1
    <3>1. k \in 1 .. Len(outputs)
      BY <1>3, <2>2
    <3> QED  BY <1>3, <2>2, <3>1
  <2> QED  BY <2>1, <2>2
<1>6. Append(r, EdgeFunction(Val, out))
        = [k \in 1 .. Len(outputs) + 1 |->
             IF k = Len(outputs) + 1 THEN EdgeFunction(Val, out) ELSE r[k]]
  <2> DEFINE e == EdgeFunction(Val, out)
  <2>1. r \in Seq(SUBSET Points) /\ e \in SUBSET Points
    <3>1. \A k \in 1 .. Len(outputs) : FunctionOfBdd(outputs[k]) \in SUBSET Points
      BY DEF TypeOK, FunctionOfBdd
    <3>2. e \in SUBSET Points
      BY <1>1 DEF FunctionOfBdd
    <3> QED  BY <1>3, <3>1, <3>2
  <2> HIDE DEF e, r
  <2>2. Append(r, e) = [k \in 1 .. Len(r) + 1 |-> IF k = Len(r) + 1 THEN e ELSE r[k]]
    BY <2>1, AppendIsFunction
  <2> QED  BY <1>4, <2>2 DEF e
<1> HIDE DEF r
<1>7. [k \in 1 .. Len(outputs') |-> FunctionOfBdd(outputs'[k])]
        = Append(r, EdgeFunction(Val, aig.outs[Len(r) + 1]))
  BY <1>2, <1>4, <1>5, <1>6
<1>8. [k \in 0 .. id' - 1 |-> FunctionOfBdd(nodes'[k])] = Val
  BY <1>2 DEF Val
<1> QED  BY <1>2, <1>4, <1>7, <1>8, SameMeaning DEF Eval!Output, r, Val

\* What aig_to_bdd builds is what AigEval computes, up to the end or a fault.
THEOREM Refinement == Spec => Implements
<1>1. TypeOK /\ [Next]_vars => [Eval!Next]_(Eval!evars)
  <2> SUFFICES ASSUME TypeOK, [Next]_vars PROVE [Eval!Next]_(Eval!evars)
    OBVIOUS
  <2>1. CASE Gate
    BY <2>1, GateRefines DEF Eval!Next
  <2>2. CASE Output
    BY <2>2, OutputRefines DEF Eval!Next
  <2>3. CASE UNCHANGED <<aig, id, nodes, outputs>>
    BY <2>3 DEF Eval!evars
  <2> QED  BY <2>1, <2>2, <2>3 DEF Next, GateFaults, OutputFaults, Return, Ended, vars
<1> QED  BY <1>1, InitRefines, TypeCorrect, PTL DEF Spec, Implements, Eval!Spec
=============================================================================
