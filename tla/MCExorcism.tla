----------------------------- MODULE MCExorcism -----------------------------
(***************************************************************************)
(* Inputs for the minimiser: every list of up to three cubes over two      *)
(* inputs.                                                                 *)
(***************************************************************************)
EXTENDS ExorcismInv

MCOriginals == UNION {[1 .. n -> Cubes] : n \in 0 .. 3}
MCPairs     == UNION {[1 .. n -> Cubes] : n \in 0 .. 2}
=============================================================================
