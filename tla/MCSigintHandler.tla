-------------------------- MODULE MCSigintHandler --------------------------
(***************************************************************************)
(* Up to MaxCofactors cofactors, with both methods, with and without data  *)
(* collection, interrupted anywhere.                                       *)
(***************************************************************************)
EXTENDS SigintHandler
=============================================================================
