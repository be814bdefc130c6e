--------------------------- MODULE EsopMinimiser ---------------------------
(***************************************************************************)
(* What exorcism promises: it takes a list of cubes, then it modifies the  *)
(* cover without changing the function the cover represents and without    *)
(* ever making it larger, until it stops.                                  *)
(***************************************************************************)
EXTENDS Cube32, Sequences

VARIABLES
  given,   \* the cubes to take
  taken,   \* how many have been taken
  f,       \* the function of the cover
  size,    \* the number of its cubes
  phase

avars == <<given, taken, f, size, phase>>

Init ==
  /\ given \in Seq(Cubes)
  /\ taken = 0 /\ f = {} /\ size = 0 /\ phase = "taking"

\* The function of the cover is the exclusive sum of the cubes taken.
Take ==
  /\ phase = "taking" /\ taken < Len(given)
  /\ taken' = taken + 1
  /\ f' = SymDiff(f, OnSet(given[taken']))
  /\ size' = size + 1
  /\ UNCHANGED <<given, phase>>

\* Two cubes become one or none.
Shrink ==
  /\ phase # "stopped"
  /\ size' \in 0 .. size - 1
  /\ UNCHANGED <<given, taken, f, phase>>

Start ==
  /\ phase = "taking" /\ taken = Len(given)
  /\ phase' = "minimising"
  /\ UNCHANGED <<given, taken, f, size>>

Stop ==
  /\ phase = "minimising"
  /\ phase' = "stopped"
  /\ UNCHANGED <<given, taken, f, size>>

Next == Take \/ Shrink \/ Start \/ Stop

Spec == Init /\ [][Next]_avars
=============================================================================
