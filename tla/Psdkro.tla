------------------------------- MODULE Psdkro -------------------------------
(***************************************************************************)
(* The collapser psdkro of source/bdd/collapse.cpp: it extracts, for each  *)
(* output, a pseudo-Kronecker ESOP from a BDD.                             *)
(*                                                                         *)
(* CUDD keeps one node per function, so a node is the function it denotes, *)
(* a set of points; only the order of the inputs is chosen by CUDD.  An    *)
(* output is a set of one function, or of none if it is a null pointer, as *)
(* module AigToBdd may leave it.  The recursions of count_cubes and        *)
(* generate_exact are a stack of what is left to do.  An ESOP is a set of  *)
(* cubes: the order in which m_esop is copied is of no use.                *)
(***************************************************************************)
EXTENDS Cube32, Sequences, SequencesExt

CONSTANTS
  Outputs,  \* the lists of outputs that may be given to bdd_extract
  Orders    \* the orders of the inputs that CUDD may choose

ASSUME OutputsAssumption == Outputs \subseteq Seq({{f} : f \in SUBSET Points} \cup {{}})
ASSUME OrdersAssumption ==
  \A o \in Orders : o \in Seq(Vars) /\ ToSet(o) = Vars /\ IsInjective(o)

VARIABLES
  pc,
  bdd,            \* the outputs
  order,          \* the inputs from the root of the BDDs to their leaves
  fncts,          \* the ESOPs extracted so far
  m_vars,         \* the inputs expanded on the path to the node under way
  m_var_values,   \* and the literal of each
  m_exp_costs,    \* the expansion and number of cubes found for a node
  m_esop,
  refs,           \* the references psdkro holds to nodes
  todo            \* what the recursion has still to do, the next first

vars == <<pc, bdd, order, fncts, m_vars, m_var_values, m_exp_costs, m_esop, refs, todo>>

Zero == {}
One  == Points

-----------------------------------------------------------------------------
(* Cudd_NodeReadIndex, Cudd_E, Cudd_T and Cudd_bddXor. *)

E(f, v) == {x \in Points : x \ {v} \in f}
T(f, v) == {x \in Points : x \cup {v} \in f}

\* The first input on which f depends.
Level(f) == Min({k \in DOMAIN order : E(f, order[k]) # T(f, order[k])})
Top(f)   == order[Level(f)]

\* Mutant of Branches: the node takes the place of f1 in the exclusive sum.
BranchesOfNode(f) ==
  LET v == Top(f) IN <<E(f, v), T(f, v), SymDiff(E(f, v), f)>>

\* f0, f1 and f2 of count_cubes and generate_exact.
Branches(f) ==
  LET v == Top(f) IN <<E(f, v), T(f, v), SymDiff(E(f, v), T(f, v))>>

\* Cudd_Ref: a function and its complement share a node.
Regular(f) == IF {} \in f THEN Points \ f ELSE f
Ref(f)     == SetToBag({Regular(f)})

-----------------------------------------------------------------------------
(* count_cubes() *)

Count(f)   == [op |-> "count", f |-> f]
Choose(f)  == [op |-> "choose", f |-> f]
Call(f)    == [op |-> "call", f |-> f]
Set(v, l)  == [op |-> "set", v |-> v, lit |-> l]
Leave(v, f) == [op |-> "leave", v |-> v, f |-> f]

Doing(op) == pc = "generate" /\ todo # <<>> /\ Head(todo).op = op
node      == Head(todo).f
Terminal  == {Zero, One}

\* The node is a leaf of the BDD, or has been counted before.
CountKnown ==
  /\ Doing("count") /\ node \in Terminal \cup DOMAIN m_exp_costs
  /\ todo' = Tail(todo)
  /\ UNCHANGED <<pc, bdd, order, fncts, m_vars, m_var_values, m_exp_costs, m_esop, refs>>

CountNode ==
  /\ Doing("count") /\ node \notin Terminal \cup DOMAIN m_exp_costs
  /\ LET b == Branches(node) IN
       /\ todo' = <<Count(b[1]), Count(b[2]), Count(b[3]), Choose(node)>> \o Tail(todo)
       /\ refs' = refs (+) Ref(b[3])
  /\ UNCHANGED <<pc, bdd, order, fncts, m_vars, m_var_values, m_exp_costs, m_esop>>

\* What count_cubes has returned for f.
Cost(f) == IF f = Zero THEN 0 ELSE IF f = One THEN 1 ELSE m_exp_costs[f][2]

\* Mutant of Expand: always the positive Davio expansion.
ExpandPositive(n0, n1, n2) == <<"POSITIVE_DAVIO", n0 + n2>>

\* The most costly of the branches is the one left out.
Expand(n0, n1, n2) ==
  LET n_max == Max({n0, n1, n2}) IN
  CASE n_max = n0                -> <<"NEGATIVE_DAVIO", n1 + n2>>
    [] n_max # n0 /\ n_max = n1  -> <<"POSITIVE_DAVIO", n0 + n2>>
    [] OTHER                     -> <<"SHANNON", n0 + n1>>

Recorded(f, expansion) ==
  [g \in DOMAIN m_exp_costs \cup {f} |-> IF g = f THEN expansion ELSE m_exp_costs[g]]

\* Mutant of ChooseExpansion: the reference to f2 is given back.
ChooseAndDeref ==
  /\ Doing("choose")
  /\ LET b == Branches(node) IN
       /\ m_exp_costs' = Recorded(node, Expand(Cost(b[1]), Cost(b[2]), Cost(b[3])))
       /\ refs' = refs (-) Ref(b[3])
  /\ todo' = Tail(todo)
  /\ UNCHANGED <<pc, bdd, order, fncts, m_vars, m_var_values, m_esop>>

\* f2 stays referenced: its node is a key of m_exp_costs.
ChooseExpansion ==
  /\ Doing("choose")
  /\ LET b == Branches(node) IN
       m_exp_costs' = Recorded(node, Expand(Cost(b[1]), Cost(b[2]), Cost(b[3])))
  /\ todo' = Tail(todo)
  /\ UNCHANGED <<pc, bdd, order, fncts, m_vars, m_var_values, m_esop, refs>>

-----------------------------------------------------------------------------
(* extract_esop() *)

\* The next output.  m_vars is not cleared.
Extract ==
  /\ pc = "extract" /\ Len(fncts) < Len(bdd)
  /\ \E f \in bdd[Len(fncts) + 1] : todo' = <<Count(f), Call(f)>>
  /\ m_exp_costs' = <<>>
  /\ m_esop' = {}
  /\ m_var_values' = [v \in Vars |-> "UNUSED"]
  /\ pc' = "generate"
  /\ UNCHANGED <<bdd, order, fncts, m_vars, refs>>

\* A null pointer gives no cubes; m_esop keeps those of the output before.
ExtractNull ==
  /\ pc = "extract" /\ Len(fncts) < Len(bdd) /\ bdd[Len(fncts) + 1] = {}
  /\ fncts' = Append(fncts, {})
  /\ UNCHANGED <<pc, bdd, order, m_vars, m_var_values, m_exp_costs, m_esop, refs, todo>>

Extracted ==
  /\ pc = "generate" /\ todo = <<>>
  /\ fncts' = Append(fncts, m_esop)
  /\ pc' = "extract"
  /\ UNCHANGED <<bdd, order, m_vars, m_var_values, m_exp_costs, m_esop, refs, todo>>

Return ==
  /\ pc = "extract" /\ Len(fncts) = Len(bdd)
  /\ pc' = "done"
  /\ UNCHANGED <<bdd, order, fncts, m_vars, m_var_values, m_exp_costs, m_esop, refs, todo>>

-----------------------------------------------------------------------------
(* generate_exact() *)

GenerateZero ==
  /\ Doing("call") /\ node = Zero
  /\ todo' = Tail(todo)
  /\ UNCHANGED <<pc, bdd, order, fncts, m_vars, m_var_values, m_exp_costs, m_esop, refs>>

\* Mutant of PathCube: polarities are the wrong way round.
PathCubeNegated ==
  Cube({v \in ToSet(m_vars) : m_var_values[v] # "UNUSED"},
       {v \in ToSet(m_vars) : m_var_values[v] = "NEGATIVE"})

\* The literals on the path to the node under way.
PathCube ==
  Cube({v \in ToSet(m_vars) : m_var_values[v] # "UNUSED"},
       {v \in ToSet(m_vars) : m_var_values[v] = "POSITIVE"})

GenerateOne ==
  /\ Doing("call") /\ node = One
  /\ m_esop' = m_esop \cup {PathCube}
  /\ todo' = Tail(todo)
  /\ UNCHANGED <<pc, bdd, order, fncts, m_vars, m_var_values, m_exp_costs, refs>>

\* The two branches of an expansion, and the literals that guard them.
Steps(f, v, b) ==
  CASE m_exp_costs[f][1] = "POSITIVE_DAVIO" ->
         <<Set(v, "UNUSED"), Call(b[1]), Set(v, "POSITIVE"), Call(b[3])>>
    [] m_exp_costs[f][1] = "NEGATIVE_DAVIO" ->
         <<Set(v, "UNUSED"), Call(b[2]), Set(v, "NEGATIVE"), Call(b[3])>>
    [] m_exp_costs[f][1] = "SHANNON" ->
         <<Set(v, "NEGATIVE"), Call(b[1]), Set(v, "POSITIVE"), Call(b[2])>>

\* Mutant of Expansion: the complement of the edge to f is forgotten.
ExpansionRegular(f, v) == Steps(f, v, Branches(Points \ f))

Expansion(f, v) == Steps(f, v, Branches(f))

GenerateNode ==
  /\ Doing("call") /\ node \notin Terminal
  /\ m_vars' = Append(m_vars, Top(node))
  /\ LET f2 == Branches(node)[3] IN
       /\ todo' = Expansion(node, Top(node)) \o <<Leave(Top(node), f2)>> \o Tail(todo)
       /\ refs' = refs (+) Ref(f2)
  /\ UNCHANGED <<pc, bdd, order, fncts, m_var_values, m_exp_costs, m_esop>>

SetValue ==
  /\ Doing("set")
  /\ m_var_values' = [m_var_values EXCEPT ![Head(todo).v] = Head(todo).lit]
  /\ todo' = Tail(todo)
  /\ UNCHANGED <<pc, bdd, order, fncts, m_vars, m_exp_costs, m_esop, refs>>

\* Mutant of LeaveNode: the input stays on the path.
LeaveOnPath ==
  /\ Doing("leave")
  /\ m_var_values' = [m_var_values EXCEPT ![Head(todo).v] = "UNUSED"]
  /\ todo' = Tail(todo)
  /\ UNCHANGED <<pc, bdd, order, fncts, m_vars, m_exp_costs, m_esop, refs>>

LeaveNode ==
  /\ Doing("leave")
  /\ m_vars' = Front(m_vars)
  /\ m_var_values' = [m_var_values EXCEPT ![Head(todo).v] = "UNUSED"]
  /\ refs' = refs (-) Ref(node)
  /\ todo' = Tail(todo)
  /\ UNCHANGED <<pc, bdd, order, fncts, m_exp_costs, m_esop>>

-----------------------------------------------------------------------------
Terminated == pc = "done" /\ UNCHANGED vars

Init ==
  /\ pc = "extract"
  /\ bdd \in Outputs /\ order \in Orders
  /\ fncts = <<>> /\ m_vars = <<>>
  /\ m_var_values = [v \in Vars |-> "UNUSED"]
  /\ m_exp_costs = <<>> /\ m_esop = {} /\ refs = EmptyBag /\ todo = <<>>

Next == \/ Extract \/ ExtractNull \/ Extracted \/ Return
        \/ CountKnown \/ CountNode \/ ChooseExpansion
        \/ GenerateZero \/ GenerateOne \/ GenerateNode \/ SetValue \/ LeaveNode
        \/ Terminated

Spec == Init /\ [][Next]_vars

-----------------------------------------------------------------------------
(* Properties *)

\* The assertion of generate_exact (source/bdd/collapse.cpp:94): the cost of
\* every node it expands has been counted.
Counted ==
  Doing("call") /\ node \notin Terminal => node \in DOMAIN m_exp_costs

\* The nodes of the BDD of f: its cofactors by the first inputs of the order.
Below(f) ==
  UNION {{Regular({x \in Points : (x \ first) \cup on \in f}) : on \in SUBSET first} :
         first \in {ToSet(SubSeq(order, 1, k)) : k \in 0 .. NVars}}

\* The nodes CUDD keeps: those below an output or below a node referenced.
Alive ==
  UNION {Below(f) : f \in (UNION ToSet(bdd)) \cup BagToSet(refs)}

\* While cubes are generated, every node with a known cost is kept by CUDD,
\* although the XORs among them are below no output: otherwise the memory of a
\* key of m_exp_costs could become another node, which would be taken for
\* counted.
NodesKept ==
  Doing("call") => {Regular(f) : f \in DOMAIN m_exp_costs} \subseteq Alive

\* Each ESOP extracted has the function of its output, 0 for a null pointer: the
\* literals that the recursion leaves in m_vars and m_var_values are those of the
\* current path, also when an earlier output has been extracted with the same
\* manager.
Extracts ==
  \A k \in 1 .. Len(fncts) : EsopOf(fncts[k]) = UNION bdd[k]

\* The least number of cubes of a pseudo-Kronecker expression of f: of three
\* branches, any two may be chosen at any node.
Least[f \in SUBSET Points] ==
  IF f = Zero THEN 0 ELSE IF f = One THEN 1
  ELSE LET b == Branches(f)
           n == <<Least[b[1]], Least[b[2]], Least[b[3]]>>
       IN  Min({n[1] + n[2], n[1] + n[3], n[2] + n[3]})

\* Each ESOP has the least number of cubes the order of the inputs allows: the
\* greedy choice of count_cubes is optimal, and no two paths of generate_exact
\* insert the same cube into m_esop.
LeastCubes ==
  pc = "done" => \A k \in 1 .. Len(fncts) : Cardinality(fncts[k]) = Least[UNION bdd[k]]

\* Between two outputs the path is empty again.
PathUnwound ==
  pc # "generate" => m_vars = <<>> /\ \A v \in Vars : m_var_values[v] = "UNUSED"

\* The levels of inputs below a node.
Height(f) == IF f \in Terminal THEN 0 ELSE NVars + 1 - Level(f)

\* A bound on the steps for a node of some height: at most three branches and
\* three other entries take its place.
Most[h \in Nat] == IF h = 0 THEN 1 ELSE 6 * Most[h - 1]

Weight(e) == IF e.op \in {"count", "call"} THEN Most[Height(e.f)] ELSE 1

Left(t) ==
  LET left[n \in 0 .. Len(t)] ==
        IF n = 0 THEN 0 ELSE left[n - 1] + Weight(t[Len(t) + 1 - n])
  IN  left[Len(t)]

\* What is left of the output under way and of those behind it, where an output
\* may be counted and generated.
Work ==
  LET outputs == Len(bdd) - Len(fncts)
      each    == 2 * Most[NVars] + 2
  IN  CASE pc = "extract"  -> 1 + each * outputs
        [] pc = "generate" -> 1 + each * (outputs - 1) + 1 + Left(todo)
        [] pc = "done"     -> 0

\* Every step leaves less to do, so both recursions end: no branch of a node, the
\* exclusive sums that are below no output included, depends on the input that
\* is expanded.
WorkFalls == [][Work' < Work]_vars
=============================================================================
