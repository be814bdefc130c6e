---------------------------- MODULE ExorcismTool ----------------------------
(***************************************************************************)
(* The program tools/exorcism/main.cpp: it reads a PLA file (module        *)
(* ReadPla) and minimises the cover of each output (module Exorcism, which *)
(* is taken here for what it shows).  It writes no file.                   *)
(***************************************************************************)
EXTENDS ReadPla

CONSTANT CommandLines   \* the values of [help, in_fname, out_fname, opens]

Names == {"none", "name.pla", "other"}

ASSUME CommandLinesAssumption ==
  CommandLines \subseteq [help : BOOLEAN, in_fname : Names, out_fname : Names,
                          opens : BOOLEAN]

VARIABLES
  stage,
  given,     \* the command line
  status,    \* how the program has ended
  result     \* the covers minimised so far

mainVars == <<stage, given, status, result>>

-----------------------------------------------------------------------------
Exit(how) ==
  /\ stage' = "exited" /\ status' = how
  /\ UNCHANGED <<given, result, vars>>

\* Options come first, wherever they stand.
Usage ==
  /\ stage = "options" /\ (given.help \/ given.in_fname = "none")
  /\ Exit(IF given.help THEN "success" ELSE "failure")

Parsed == stage = "options" /\ ~ given.help /\ given.in_fname # "none"

fname_ok == given.in_fname = "name.pla" /\ given.out_fname # "other"

Refuse == Parsed /\ ~ fname_ok /\ Exit("failure")

\* Without a file read_pla returns a cover of no outputs, whose kind and number
\* of inputs are never set; the program goes on with it.
Open ==
  /\ Parsed /\ fname_ok
  /\ stage' = IF given.opens THEN "read" ELSE "exorcise"
  /\ UNCHANGED <<given, status, result, vars>>

ReadStep ==
  /\ stage = "read" /\ pc # "done"
  /\ Next
  /\ UNCHANGED mainVars

ReadDone ==
  /\ stage = "read" /\ pc = "done"
  /\ stage' = "exorcise"
  /\ UNCHANGED <<given, status, result, vars>>

\* What minimising may return for a list of cubes.
Minimised(s) ==
  {t \in SUBSET Cubes : /\ Cardinality(t) <= Len(s)
                        /\ \A c, d \in t : c # d => distance(c, d) >= 2
                        /\ EsopOf(t) = EsopOfSeq(s, DOMAIN s)}

\* Mutant of Exorcise: the manager of the first output is used again.
ExorciseFirst ==
  /\ stage = "exorcise" /\ Len(result) < Len(_cubes)
  /\ \E t \in Minimised(_cubes[1]) : result' = Append(result, t)
  /\ UNCHANGED <<stage, given, status, vars>>

\* The outputs one by one; the kind is not looked at.
Exorcise ==
  /\ stage = "exorcise" /\ Len(result) < Len(_cubes)
  /\ \E t \in Minimised(_cubes[Len(result) + 1]) : result' = Append(result, t)
  /\ UNCHANGED <<stage, given, status, vars>>

Return == stage = "exorcise" /\ Len(result) = Len(_cubes) /\ Exit("success")

Terminated == stage = "exited" /\ UNCHANGED <<mainVars, vars>>

-----------------------------------------------------------------------------
ToolInit ==
  /\ stage = "options" /\ given \in CommandLines
  /\ status = "running" /\ result = <<>>
  /\ Init

ToolNext == \/ Usage \/ Refuse \/ Open \/ ReadStep \/ ReadDone \/ Exorcise \/ Return
            \/ Terminated

Spec     == ToolInit /\ [][ToolNext]_<<mainVars, vars>>
FairSpec == Spec /\ WF_<<mainVars, vars>>(ToolNext)

-----------------------------------------------------------------------------
(* Properties *)

\* For a file as write_pla writes it, or with several outputs, the cover printed
\* for each output has the function its rows have as an exclusive sum; without
\* a file no cover is made up.
MinimisesFile ==
  stage = "exited" /\ result # <<>> /\ file.plain =>
    /\ given.opens
    /\ Len(result) = file.n_outputs
    /\ \A k \in DOMAIN result :
         LET own == {m \in DOMAIN file.rows : k \in file.rows[m].outs} IN
           EsopOf(result[k]) =
             {x \in Points : Odd({m \in own : Covers(file.rows[m].cube, x)})}

\* The program ends for every file whose header declares inputs or outputs, and
\* whenever no file is read.
Ends == <>(stage = "exited") \/ <>[](stage = "read" /\ n_inputs + n_outputs = 0)
=============================================================================
