---------------------------- MODULE CollapseTool ----------------------------
(***************************************************************************)
(* The program tools/collapse/main.cpp: it cofactors the functions of a    *)
(* graph by their first n_cofactor inputs, collapses every cofactor, puts  *)
(* the ESOPs together, minimises them on the way if asked to, writes them  *)
(* and checks the result against the graph.                                *)
(*                                                                         *)
(* Collapsing (modules AigCollapse and Psdkro) and minimising (module      *)
(* Exorcism) are taken here for what those modules show of them.           *)
(***************************************************************************)
EXTENDS Pla

CONSTANTS
  Functions,   \* the lists of functions, one per output, that may be given
  Options,     \* the values of [method, n_cofactor, exorcise, check]
  MaxCubes     \* bound on the cubes collapsing gives for one output

ASSUME MaxCubesAssumption == MaxCubes \in Nat
ASSUME FunctionsAssumption == Functions \subseteq Seq(SUBSET Points)
ASSUME OptionsAssumption ==
  Options \subseteq [method : {"aig", "bdd"}, n_cofactor : 0 .. NVars,
                     exorcise : BOOLEAN, check : BOOLEAN]

VARIABLES
  pc,
  argument,     \* what the command line asks for
  options,
  aig,          \* the functions of the outputs of the graph that is read
  i,            \* the cofactor under way
  cf_results,   \* the ESOPs of the cofactors, with their literals
  result,       \* the ESOPs of the outputs
  files,        \* what write_pla has written, a file per output
  unwritten,    \* the outputs whose files could not be opened or written
  verdict,      \* of the equivalence check
  status        \* how the program has ended

given == <<argument, options, aig>>
vars  == <<pc, given, i, cf_results, result, files, unwritten, verdict, status>>

\* 1 << n, and n >> j for every j.
Power[n \in Nat] == IF n = 0 THEN 1 ELSE 2 * Power[n - 1]

Shifted(n) ==
  LET shifted[j \in Nat] == IF j = 0 THEN n ELSE shifted[j - 1] \div 2 IN shifted

n_cofactor  == options.n_cofactor
NCofactors  == Power[n_cofactor]
Cofactored  == 0 .. n_cofactor - 1
Bit(n, j)   == Shifted(n)[j] % 2
Chosen(n)   == {j \in Cofactored : Bit(n, j) = 1}

-----------------------------------------------------------------------------
(* The command line, and reading the graph. *)

Exit(how) ==
  /\ pc' = "exited" /\ status' = how
  /\ UNCHANGED <<given, i, cf_results, result, files, unwritten, verdict>>

\* CLI::App::exit for a request for help.
Help == pc = "parse" /\ argument = "help" /\ Exit("success")

\* CLI::App::exit for an error, no file, or a file whose name does not end
\* in .aig.
Reject ==
  /\ pc = "parse" /\ argument \in {"error", "no file", "unsupported"}
  /\ Exit("failure")

\* Gia_AigerRead returns no graph, and the program goes on to duplicate it.
ReadFault == pc = "parse" /\ argument = "unreadable" /\ Exit("fault")

Read ==
  /\ pc = "parse" /\ argument = "graph"
  /\ pc' = "collapse"
  /\ UNCHANGED <<given, i, cf_results, result, files, unwritten, verdict, status>>

-----------------------------------------------------------------------------
(* Collapsing a cofactor, whose inputs 0 .. n_cofactor - 1 are constants.   *)

\* Gia_ManDupCofactorVar, once for every one of these inputs.
Cofactor(f, n) == {x \in Points : (x \ Cofactored) \cup Chosen(n) \in f}

\* What aig_extract or bdd_extract may return for an output: any ESOP of it
\* over the inputs it depends on, in one order of its cubes.  Those of
\* bdd_extract differ from each other.  aig_extract promises nothing for as many
\* inputs as bits, when products may be taken for cube32_zero (module
\* AigCollapse).
Exact == options.method = "aig" => NVars < Width

Extracts(f) ==
  {s \in BoundedSeq({c \in Cubes : c.mask \cap Cofactored = {}}, MaxCubes) :
     /\ Exact => FunctionOf(s) = f
     /\ \A m \in 2 .. Len(s) :
          \/ ValueLess(s[m - 1], s[m])
          \/ options.method = "aig" /\ s[m - 1] = s[m]}

\* Mutant of WithLits: the bits of the cofactor are read from the other end.
WithLitsReversed(c, n) ==
  LET lit[j \in 0 .. n_cofactor] ==
        IF j = 0 THEN c ELSE add_lit(lit[j - 1], j - 1, Bit(n, n_cofactor - j))
  IN  lit[n_cofactor]

\* The literals of the cofactor are added to a cube.
WithLits(c, n) ==
  LET lit[j \in 0 .. n_cofactor] ==
        IF j = 0 THEN c ELSE add_lit(lit[j - 1], j - 1, Bit(n, j - 1))
  IN  lit[n_cofactor]

Collapse ==
  /\ pc = "collapse" /\ i < NCofactors
  /\ \E ex \in [DOMAIN aig -> UNION {Extracts(Cofactor(aig[k], i)) : k \in DOMAIN aig}] :
       /\ \A k \in DOMAIN aig : ex[k] \in Extracts(Cofactor(aig[k], i))
       /\ cf_results' = Append(cf_results,
            [k \in DOMAIN aig |-> [m \in DOMAIN ex[k] |-> WithLits(ex[k][m], i)]])
  /\ i' = i + 1
  /\ UNCHANGED <<pc, given, result, files, unwritten, verdict, status>>

\* aig_to_bdd ends with a memory fault if an output of the cofactor is the
\* complemented constant object (module AigToBdd), as it may be if its
\* function is constant.
BddFault ==
  /\ pc = "collapse" /\ i < NCofactors /\ options.method = "bdd"
  /\ \E k \in DOMAIN aig : Cofactor(aig[k], i) = Points
  /\ Exit("fault")

Collapsed ==
  /\ pc = "collapse" /\ i = NCofactors
  /\ pc' = "stitch" /\ i' = 0
  /\ UNCHANGED <<given, cf_results, result, files, unwritten, verdict, status>>

-----------------------------------------------------------------------------
(* Stitching *)

\* What minimising may return: a cover of the same function, no larger, whose
\* cubes are apart.
Minimised(s) ==
  {t \in SUBSET Cubes : /\ Cardinality(t) <= Len(s)
                        /\ \A c, d \in t : c # d => distance(c, d) >= 2
                        /\ EsopOf(t) = FunctionOf(s)}

\* Mutant of Stitched: the cubes of the cofactor replace those before it.
StitchedLast == [k \in DOMAIN aig |-> cf_results[i + 1][k]]

Stitched == [k \in DOMAIN aig |-> result[k] \o cf_results[i + 1][k]]

Stitch ==
  /\ pc = "stitch" /\ i < NCofactors /\ ~ options.exorcise
  /\ result' = Stitched
  /\ i' = i + 1
  /\ UNCHANGED <<pc, given, cf_results, files, unwritten, verdict, status>>

\* Everything put together so far is minimised again, cofactor by cofactor.
StitchAndExorcise ==
  /\ pc = "stitch" /\ i < NCofactors /\ options.exorcise
  /\ \E m \in [DOMAIN aig -> UNION {Minimised(Stitched[k]) : k \in DOMAIN aig}] :
       /\ \A k \in DOMAIN aig : m[k] \in Minimised(Stitched[k])
       /\ result' = [k \in DOMAIN aig |-> SetToSeq(m[k])]
  /\ i' = i + 1
  /\ UNCHANGED <<pc, given, cf_results, files, unwritten, verdict, status>>

-----------------------------------------------------------------------------
(* Writing and checking *)

\* The file of the next output.
text == write_pla(result[Len(files) + 1])

StitchDone ==
  /\ pc = "stitch" /\ i = NCofactors
  /\ pc' = "write"
  /\ UNCHANGED <<given, i, cf_results, result, files, unwritten, verdict, status>>

WriteFile ==
  /\ pc = "write" /\ Len(files) < Len(aig)
  /\ files' = Append(files, text)
  /\ UNCHANGED <<pc, given, i, cf_results, result, unwritten, verdict, status>>

\* A stream that cannot be opened, or that fails, takes no more: nothing or only
\* the beginning is in the file.  write_pla does not look at the stream, and goes
\* on with the next output.
WriteFails ==
  /\ pc = "write" /\ Len(files) < Len(aig)
  /\ \E n \in 0 .. Len(text) - 1 : files' = Append(files, SubSeq(text, 1, n))
  /\ unwritten' = unwritten \cup {Len(files) + 1}
  /\ UNCHANGED <<pc, given, i, cf_results, result, verdict, status>>

Written ==
  /\ pc = "write" /\ Len(files) = Len(aig)
  /\ pc' = "written"
  /\ UNCHANGED <<given, i, cf_results, result, files, unwritten, verdict, status>>

Return == pc = "written" /\ ~ options.check /\ Exit("success")

\* Gia_ManMiter and Cec_ManVerify compare the graph with the one esop_to_aig
\* makes (module EsopToAig), which has as many inputs and outputs.  The verdict
\* is dropped.
CheckAndReturn ==
  /\ pc = "written" /\ options.check
  /\ verdict' = IF \A k \in DOMAIN aig : FunctionOf(result[k]) = aig[k]
                  THEN "equivalent" ELSE "different"
  /\ pc' = "exited" /\ status' = "success"
  /\ UNCHANGED <<given, i, cf_results, result, files, unwritten>>

-----------------------------------------------------------------------------
(* SIGINT (module SigintHandler): the handler ends the program, with success, *)
(* wherever it is.                                                          *)

Interrupted ==
  /\ pc \notin {"exited", "interrupted"}
  /\ pc' = "interrupted" /\ status' = "success"
  /\ UNCHANGED <<given, i, cf_results, result, files, unwritten, verdict>>

\* exit() does not destroy the stream that is being written, whose buffer is
\* lost: only the beginning of the file is there.  It ends here with a line.
InterruptedWrite ==
  /\ pc = "write" /\ Len(files) < Len(aig)
  /\ \E n \in 0 .. Len(text) - 1 : files' = Append(files, SubSeq(text, 1, n))
  /\ pc' = "interrupted" /\ status' = "success"
  /\ UNCHANGED <<given, i, cf_results, result, unwritten, verdict>>

Terminated == pc \in {"exited", "interrupted"} /\ UNCHANGED vars

-----------------------------------------------------------------------------
Init ==
  /\ pc = "parse"
  /\ argument \in {"help", "error", "no file", "unsupported", "unreadable", "graph"}
  /\ options \in Options /\ aig \in Functions
  /\ i = 0
  /\ cf_results = <<>>
  /\ result = [k \in DOMAIN aig |-> <<>>]
  /\ files = <<>> /\ unwritten = {} /\ verdict = "none" /\ status = "running"

Next == \/ Help \/ Reject \/ ReadFault \/ Read
        \/ Collapse \/ BddFault \/ Collapsed \/ Stitch \/ StitchAndExorcise
        \/ StitchDone \/ WriteFile \/ WriteFails \/ Written \/ Return \/ CheckAndReturn
        \/ Interrupted \/ InterruptedWrite \/ Terminated

Spec == Init /\ [][Next]_vars

-----------------------------------------------------------------------------
(* Properties *)

\* The points of cofactor n, and of the first n cofactors.
Cell(n)   == {x \in Points : x \cap Cofactored = Chosen(n)}
Region(n) == UNION {Cell(m) : m \in 0 .. n - 1}

\* While stitching, an output's cover is its function on the cofactors put
\* together so far and 0 elsewhere: the literals that add_lit gives to the
\* cubes of one cofactor keep them out of the others, and minimising the
\* partial result leaves it so.
PartialResult ==
  pc = "stitch" =>
    \A k \in DOMAIN aig : FunctionOf(result[k]) = aig[k] \cap Region(i)

\* The rows of a file, and the points of one.
RowsOf(file)    == SubSeq(file, 4, Len(file) - 1)
Matches(row, x) == \A v \in Vars : row[v + 1] = "-" \/ (row[v + 1] = "1") = (v \in x)

Complete(file)  == file # <<>> /\ Last(file) = Line(<<".", "e">>)

\* A program that fails or faults has written nothing; one that returns has come
\* to every output of the graph, and only the files whose streams have failed are
\* missing or cut off, with success all the same; and the rows of a file that is
\* complete have the function of its output as their exclusive sum, whatever has
\* happened to the others, and in an interrupted run too.
FilesRepresent ==
  /\ status \in {"failure", "fault"} => files = <<>>
  /\ pc = "exited" /\ status = "success" /\ argument = "graph" =>
       /\ Len(files) = Len(aig)
       /\ \A k \in DOMAIN files : Complete(files[k]) \/ k \in unwritten
  /\ \A k \in DOMAIN files :
       LET rows == RowsOf(files[k]) IN
         Complete(files[k]) =>
           aig[k] = {x \in Points : Odd({m \in DOMAIN rows : Matches(rows[m], x)})}

\* The verdict, which the program drops, is never that the result is wrong.
CheckPasses == verdict # "different"

-----------------------------------------------------------------------------
(* The inductive strengthening. *)

TypeOK ==
  /\ pc \in {"parse", "collapse", "stitch", "write", "written", "exited", "interrupted"}
  /\ options \in Options /\ aig \in Functions
  /\ i \in 0 .. NCofactors
  /\ cf_results \in Seq([DOMAIN aig -> Seq(Cubes)])
  /\ result \in [DOMAIN aig -> Seq(Cubes)]
  /\ files \in Seq(Range(files)) /\ Len(files) <= Len(aig)
  /\ unwritten \subseteq DOMAIN files
  /\ verdict \in {"none", "equivalent", "different"}
  /\ status \in {"running", "success", "failure", "fault"}

\* How far the program is: nothing is stitched before everything is collapsed,
\* and nothing written before everything is stitched.
Control ==
  /\ pc \in {"parse", "collapse"} => \A k \in DOMAIN aig : result[k] = <<>>
  /\ pc \in {"parse", "collapse"} => Len(cf_results) = i
  /\ pc = "stitch" => Len(cf_results) = NCofactors
  /\ pc \notin {"exited", "interrupted"} => status = "running"
  /\ pc \in {"parse", "collapse", "stitch"} => files = <<>>
  /\ pc = "written" => Len(files) = Len(aig)
  /\ pc \in {"write", "written"} =>
       \A k \in DOMAIN files : Complete(files[k]) \/ k \in unwritten

\* The literals added to the cubes of a cofactor keep them to its points.
CellsCollapsed ==
  \A m \in 1 .. Len(cf_results), k \in DOMAIN aig :
    FunctionOf(cf_results[m][k]) = aig[k] \cap Cell(m - 1)

WholeResult ==
  pc \in {"write", "written"} => \A k \in DOMAIN aig : FunctionOf(result[k]) = aig[k]

IInv == /\ TypeOK /\ Control /\ CellsCollapsed /\ PartialResult /\ WholeResult
        /\ FilesRepresent /\ CheckPasses
=============================================================================
