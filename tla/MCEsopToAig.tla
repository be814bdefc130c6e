---------------------------- MODULE MCEsopToAig ----------------------------
(***************************************************************************)
(* Every list of up to three cubes over two inputs as the only output, and *)
(* every pair of outputs of up to one cube and up to two cubes.            *)
(***************************************************************************)
EXTENDS EsopToAig

MCEsops == {<<s>> : s \in BoundedSeq(Cubes, 3)}
              \cup (BoundedSeq(Cubes, 1) \X BoundedSeq(Cubes, 2))
=============================================================================
