---------------------------- MODULE MCExorcism3 ----------------------------
(***************************************************************************)
(* Inputs for the minimiser over four inputs: two cubes at distance 3, any *)
(* other cube, and then none or one that is next to a cube of the second   *)
(* group by which ExorLink-3 may replace the two.                          *)
(***************************************************************************)
EXTENDS ExorcismInv

Farthest == <<Cube({0, 1, 2}, {0, 1, 2}), Cube({0, 1, 2}, {})>>
Last     == {<<>>, <<Cube({0, 1, 3}, {0, 3})>>}

MCOriginals == {Farthest \o <<c>> \o l : c \in Cubes, l \in Last}
=============================================================================
