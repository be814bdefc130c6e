--------------------------- MODULE MCCollapseTool ---------------------------
(***************************************************************************)
(* Every function of NVars inputs, and a half adder with its two outputs,  *)
(* cofactored by none, some or all of the inputs.                          *)
(***************************************************************************)
EXTENDS CollapseTool

HalfAdder   == <<{Vars}, {x \in Points : Odd(x)}>>
MCFunctions == {<<f>> : f \in SUBSET Points} \cup {HalfAdder}
MCOptions   == [method : {"aig", "bdd"}, n_cofactor : 0 .. NVars,
                exorcise : BOOLEAN, check : BOOLEAN]
=============================================================================
