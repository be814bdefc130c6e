# A verification of losys

TLA+ modules for the parts of losys that compute: the minimiser of exclusive sums
of products (ESOPs), the two collapsers that extract ESOPs from a logic network, the
conversions between graphs, BDDs, covers and files, and the two programs that put them
together, one of them with its signal handler. The modules are checked with TLC on small
instances; the safety properties of every part modelled, but for one, are also proved with TLAPS,
for every number of inputs and every cover, graph or file that the assumptions named in section 4
admit.

Paths below are relative to the repository's `src/`; `exorcism32.cpp` and the like are
found under `src/source/`.

## 1. The system

losys is a single-threaded C++ code base. Nothing runs concurrently except a signal
handler, nothing is persisted but the files written at the end, and the components
interact through calls. What is hard in it is therefore not interleaving but long
sequences of updates of shared structures: work queues that are rolled back, members
of a manager object used over again by recursive calls, sets that are searched by
perturbing a key, and results that depend on the iteration order of hash tables.

| Component | State | Operations | Called by | Modelled in |
|---|---|---|---|---|
| `kernel/cube32.hpp`: a product of literals in two words | mask, polarity | `&`, `n_lits`, `add_lit`, `invert`, `rotate`, `str`, `difference`, `distance`, `merge` | everything | `Cube32`; `str` in `Pla` |
| `kernel/two_lvl32.hpp`: a cover | list of cubes per output, kind, counts | `add_cube`, `kind`, setters | readers, collapsers, tools | `ReadPla`; lists of cubes elsewhere |
| `opt/exorcism32.*`: the ESOP minimiser | buckets of cubes, two pair queues, bookmarks | constructor, `add_cube`, `exorlink`, `exorlink2`, `exorlink3`, `run` | both tools | `Exorcism` |
| `base/collapse.*`: AIG to ESOP | an ESOP per object, three working ESOPs | `run`, `prepare_input`, `compute_and`, `add_cube` | collapse tool | `AigCollapse` |
| `xforms/aig_to_bdd.cpp` | a BDD, or none, per object | inputs, gates, outputs | collapse tool | `AigToBdd` |
| `bdd/collapse.*`: BDD to ESOP | path of literals, table of costs, ESOP, references to nodes | `extract_esop`, `count_cubes`, `generate_exact` | collapse tool | `Psdkro` |
| `tools/collapse/main.cpp` | cofactors, result, files | command line, read, cofactor, collapse, stitch, minimise, write, check | user | `CollapseTool` |
| its handler of SIGINT, and spdlog's registry and sinks | loggers, mutexes | look up, flush, log, exit; create, get, log | user; main, `aig_extr_mngr` | `SigintHandler`; its effect on files in `CollapseTool` |
| `io/write_pla.hpp` | one file per output | `write_pla` | collapse tool | `Pla`, `CollapseTool` |
| `io/read_pla.hpp` | a stream, a cover | header and row loops | exorcism tool | `ReadPla` |
| `xforms/esop_to_aig.cpp` | a graph under construction | literal, cube, output, clean-up | collapse tool | `EsopToAig` |
| `tools/exorcism/main.cpp` | a cover | command line, read, minimise | user | `ExorcismTool` |
| `source/main.cpp` | none | read a graph, print statistics | user | not modelled: pure I/O |
| ABC, CUDD, spdlog, CLI11, Catch | | | | libraries, as far as the code uses them |

What makes each of them correct:

* **Minimiser.** The function of the cover never changes, whatever sequence of merges,
  cancellations, failed attempts and rollbacks happens (`FunctionKept`); the cover never
  holds two cubes that could be merged (`Apart`); no pair of cubes at distance 2 is lost from
  its queue (`Distance2Queued`); queues are never read when empty or filled up by a
  rollback (`QueueCoversPass`, `RollbackShrinks`); the unsigned gain does not wrap
  (`NoUnderflow`); `run` ends (`Terminates`).
* **AIG collapser.** Every gate and output gets an ESOP of its function (`Implements`,
  `OutputsComputed`) although complementing looks at whichever cube a hash set happens to
  put first; the search by rotation misses no neighbour (`Irredundant`); the loop of
  `add_cube` ends (`Terminates`).
* **Conversion to BDDs.** What is built has the functions of the graph (`Implements`), and no
  object is read before it has a BDD, whatever the graph, as long as the constant 1 is no
  output (`CompletesWithoutConstantOne`).
* **BDD collapser.** The cubes read off the shared path are those of the function
  (`Extracts`), the assertion on costs holds although XOR nodes are computed anew
  (`Counted`), CUDD keeps every node whose cost is stored under its address (`NodesKept`),
  the greedy choice is optimal (`LeastCubes`), the path is unwound between outputs
  (`PathUnwound`), and the recursions, which follow functions that are no nodes of the BDD, have
  less to do after every step (`WorkFalls`).
* **Conversion to a graph.** Outputs, and product and sum so far, have the functions of the
  cubes although gates are shared and the graph is renumbered (`GraphComputes`).
* **PLA files.** A file that was written is read back as it was written (`ReadsBack`); of any
  other, only lines that have the shape of a row are returned (`RowsRead`); reading ends
  (`EndsWithDimensions`).
* **Collapse tool.** The result put together from cofactors is right at every step although
  it is minimised on the way (`PartialResult`), and so is the final check (`CheckPasses`) and
  every complete file, also if the run was interrupted or other files could not be written
  (`FilesRepresent`).
* **Interrupts.** The handler ends the program except inside the calls of the logging library
  for whose mutex it would wait (`InterruptEnds`, `EndsOrWaits`), and uses no logger that does
  not exist (`LoggersFound`).
* **Exorcism tool.** The covers minimised are those of the file (`MinimisesFile`); the tool
  ends (`Ends`).

The full list of hazards, each with its line and the properties aimed at it, is in
`PROJECT.json`.

## 2. The modules

    Cube32 -+-- Exorcism ---- ExorcismInv ---- ExorcismProofs
            |       |             | INSTANCE
            |       |         EsopMinimiser
            |       `-- MCExorcism, MCExorcism3 (through ExorcismInv)
            |-- Aig -+-- AigCollapse ---- AigCollapseInv ---- AigCollapseProofs
            |        |       |                | INSTANCE
            |        |       |            AigEval
            |        |       `-- MCAigCollapse (through AigCollapseInv)
            |        |-- AigToBdd ---- AigToBddProofs, MCAigToBdd; INSTANCE AigEval
            |        `-- EsopToAig ---- EsopToAigProofs, MCEsopToAig
            |-- Psdkro ---- PsdkroProofs, MCPsdkro
            `-- Pla -+-- ReadPla ---- ExorcismTool ---- ExorcismToolProofs, MCExorcismTool
                     `-- CollapseTool ---- CollapseToolProofs, MCCollapseTool
    SigintHandler ---- CollapseToolProofs, MCSigintHandler

`Cube32Lemmas`, which all proof modules but `AigToBddProofs` extend, has the facts about cubes,
their functions, lists and numbers that several of them need.

**`Cube32`** A word is the set of its bit positions that are 1, so `&`, `|`, `^` and `~` are
set operations and the width of the word is a constant (`Width`, 32 in the code). Nothing
about the width is abstracted: `~` is a complement in `0 .. Width-1`, and the sentinel
`cube32_zero` has all mask bits set, as in the code. The module also says what cubes
mean: a Boolean function is a set of points, a point the set of inputs that are 1.

**`Exorcism`** One action per call, loop iteration or scan of the cover. The program counter
`pc` says where control is: the constructor's loop (`ctor`), between passes (`run`), in the
loop of a pass (`exorlink`), before and after an attempt to add a linked cube (`attempt`,
`attempted`), adding the remaining linked cubes (`follow`), or in `add_cube`. `add_cube`
calls itself on a merged cube; this tail call is a further step with `gain` accumulated. The
buckets are hash sets in the code, so the cube a scan meets first, and the order in which
pairs are queued, are nondeterministic within a bucket (`Reaches`, `Listings`) and ordered
between buckets. `exorlink2` and `exorlink3` differ in when they roll back and in what they
do with a pair that could not be replaced; `TryNextCube` and `GiveUp` say so. The tables of
digits are those of `exorcism32.hpp`.

**`EsopMinimiser`** The abstract specification: take a list of cubes; then, without changing
the function, never make the cover larger; then stop.

**`Aig`** What the code uses of ABC's graphs (external): object 0 is the constant, then the
inputs, then gates in topological order.

**`AigCollapse`** One action prepares the fanins of a gate, multiplies two cubes, is one
iteration of `add_cube`'s loop, or stores a result. The hash set `m_curr_esop` is a set; when
it is copied into the list of the gate the order is arbitrary (`Store`), which is what makes
the complement depend on more than the function.

**`AigEval`** The abstract specification: the functions of the gates are computed in order,
each once, then those of the outputs. `AigCollapse` and `AigToBdd` both implement it.

**`AigToBdd`** One action per gate and per output. A `BDD` object holds a node or none, a set
of at most one function; the object of the constant is never assigned one. An operator
applied to an empty BDD has no manager to call and faults (`GateFaults`, `OutputFaults`), while
an empty BDD that is copied is passed on, as a null pointer, to `Psdkro`.

**`Psdkro`** CUDD keeps one node per function, so a node is its function; the only freedom is
the order of the inputs, a constant of the run. The references that `Cudd_Ref` and
`Cudd_RecursiveDeref` take and give back are a bag of nodes, a function and its complement
sharing one; what CUDD keeps is what is below an output or a referenced node. The two recursions are a stack `todo` of what
is left to do, in the order of the code: `count_cubes` fills `m_exp_costs`, `generate_exact`
sets, resets and pops `m_vars` and `m_var_values`. `Work` bounds the steps that are left: an entry
of the stack weighs what the height of its function in the order allows (`Most`), so that a branch
that still depended on the input expanded would make it grow.

**`EsopToAig`** One action per literal, cube and output. `Gia_ManHashAnd` and `Gia_ManHashXor`
(external) make a gate only where there is no simpler edge or equal gate; `Gia_ManCleanup`
takes out what no output needs: the objects needed are found from the last gate back
(`NeededBack`), and a gate that is kept moves to its rank among those kept (`Rank`). Made
graphs satisfy the `IsAig` that the collapsers assume.

**`Pla`** The lines that `write_pla` writes, and `cube32::str`. A text is a sequence of
characters, because what `read_pla` does depends on where blanks and ends of lines are.

**`ReadPla`** One action per call on the stream and per branch of the header and row loops. The
stream (external) is the text that is left and whether it is `good()`; it is exhausted by
a failed extraction as well as by its end. A number has any number of digits, and is the largest
`std::uint32_t` (`MaxNumber`) if it is larger than that, which fails too; it has no sign. A file is
its text and what went into it. Of a *plain*
file (`PlainFile`) the text is made of a head, of any number of lines in any order that
declare inputs, outputs, number of terms or a type or are comments with a blank (`HeadLine`),
then the rows, then `.e`; of other files nothing is known about the text, and `lines` says which of
its lines behind the head look like rows, comments among them.

**`CollapseTool`** The command line is what `CLI::App` and the checks after it make of it.
Collapsing returns any ESOP of the cofactor over the inputs that are left (bounded by
`MaxCubes`), or of anything at all where `AigCollapse` promises nothing, with `aig_extract` and as
many inputs as bits (`Exact`); minimising returns any cover allowed by what `Exorcism` is shown to promise (same
function, no larger, cubes apart), and `aig_to_bdd` may fault where `AigToBdd` does. The
literals of the cofactor are added with `add_lit` itself. `Interrupted` and
`InterruptedWrite` end the program anywhere; a file being written is then cut off. Any stream may
fail to open or to write (`WriteFails`): `write_pla` never looks at it and goes on, so that a run
can end with success although files are missing or cut off; `unwritten` remembers which. The model
cuts files after a line, where the stream's buffer may end anywhere.

**`SigintHandler`** `main` is the list of the calls of the logging library it has still to make,
each of which holds one mutex, of the registry or of a sink, between `Enter` and `Leave`; the
handler runs on the same thread, so that while it runs `main` does not, and a mutex held by
`main` stays held. spdlog's sources in the repository say which call takes which mutex:
`base_sink::flush` takes none.

**`ExorcismTool`** composes the command line with the steps of `ReadPla`, which it extends, and
minimises output after output.

Operators whose comment begins with *Mutant of* are not part of the model and are used by no
action: they are wrong versions of the definition that follows them, such as a missing reset
or a swapped digit, listed in `PROJECT.json` with the property that detects each.

## 3. What is checked

| Run | Instance | Distinct states | Shows |
|---|---|---|---|
| `exorcism` | every list of up to 3 cubes over 2 inputs, 3-bit words | 145,088 | the function is kept, the gain does not wrap, the result is right |
| `exorcism3` | over 4 inputs, two cubes at distance 3, any other, and none or one more next to a cube of the second group of their tables | 155,668 | ExorLink-3 with its six groups and its rollback after each cube; no distance-2 pair is lost; the inductive invariant; the refinement of `EsopMinimiser`; termination |
| `exorcism_sop` | as `exorcism`, two cubes, kind SOP | violation | a SOP comes back as a SOP of another function |
| `aig` | graphs of 3 gates over 3 inputs, output plain and complemented, constant output, 4-bit words | 69,604 | every output right, invariant, refinement of `AigEval`, no neighbours left, termination |
| `aig_full` | 2 inputs and 2-bit words | violation | with as many inputs as bits a product is taken for the sentinel |
| `psdkro` | every function of 3 inputs, then a null BDD, then the majority, with the same manager, 2 orders | 50,120 | right and least ESOPs, the assertion, nodes kept, the path unwound, less left to do at every step |
| `collapse_tool` | every command line; every function of 2 inputs and a half adder; 0, 1 or 2 inputs cofactored; both methods; with and without minimising and checking; any stream may fail | 3,320,114 | partial results, files and check, interrupts, faults and failed writes |
| `aig_to_bdd` | graphs of 2 gates over 2 inputs with 2 outputs, hashed or not | 21,504 | the refinement of `AigEval`; no fault but for the constant 1 |
| `aig_to_bdd_one` | the same, hashed | violation | the constant 1 as an output faults |
| `esop_to_aig` | every list of up to 3 cubes over 2 inputs; two outputs of up to 1 and 2 cubes | 27,100 | the functions of the graph at every step |
| `exorcism_tool` | every kind of command line; files of up to 2 rows, with one, two or ten outputs: whole, with up to two lines put in anywhere (comments, also of the shape of a row, types, other directives, a number that is too large), or cut off after any character | 137,104 | what is read back and minimised, and that the tool ends |
| `sigint` | up to 4 cofactors and 3 data lines, both methods, an interrupt anywhere | 2,154 | where the handler ends the program and where it waits |

Why the instances are large enough. In two inputs every pair of cubes has distance at most 2,
so `exorcism`, with every list of up to three cubes, covers ExorLink-2, cascades of merges, cancellation and
stale pairs. ExorLink-3 needs a pair at distance 3, with which `exorcism3` begins, and four
inputs: over three, only 4 of the 27 cubes are next neither to the pair nor to a cube of the first
group, so that the later groups would hardly be reached. The fourth cube makes pairs stale in the
queue while others are attempted. Words are one bit wider than the inputs, so that complements of words
have bits outside the inputs. Three gates are the least with a gate whose fanins are both
gates, the least at which the ESOP of a gate has several cubes and is complemented again, and
at which a constant-0 gate is read by another. Gates have two different fanins in order, and
no two gates are alike, as structural hashing leaves them. In `psdkro` the second output finds
whatever the first left behind in the manager. In `collapse_tool`, `MaxCubes` = 3 lets
collapsing give more cubes than needed, a cube twice included. The graphs of `aig_to_bdd` have
gates that read the constant, gates and inputs, which is every kind of object there is. Two
inserted lines and two rows are enough in `exorcism_tool` for a comment to swallow a directive, a
type, another comment, a row or the end; cutting off after any character ends the stream in
every state of the loops. In `sigint` each kind of call follows each other one.

Bounds. `Width`, `NVars`, the input sets (`Originals`, `Aigs`, `Outputs`, `Orders`,
`Functions`, `Options`, `Esops`, `Files`, `CommandLines`), `MaxRows`, `MaxInserted`,
`MaxCofactors`, `MaxLines` and `MaxCubes` are all constants of the instances. Only `MaxCubes`
limits what a step may do (the ESOPs that collapsing may return); there is no other bound in a
guard, since the programs end by themselves. The largest number a file may hold,
`MaxNumber`, is a constant too, of the code as it were: 2^32 - 1 there, 12 in the instance, so that
numbers of two digits and numbers that are too large occur.

Deadlock is checked in all runs but `sigint`, where waiting for ever is what the handler may
really do; a program that has ended stutters (`Terminated`).

Fairness. `FairSpec` is weak fairness of the whole next-state relation: the program is one
thread that keeps running while it can. No fairness between actions is assumed, and the
order of hash sets stays arbitrary. `Terminates` under it says that every path of the
program ends, whatever those orders are. `Psdkro` needs no fairness: that each of its steps leaves
less to do (`WorkFalls`) says that it ends, without any, and can be proved. In `SigintHandler` main and the handler each have
weak fairness, the user none: main runs on unless it is interrupted, the handler unless it
waits for a mutex, and no interrupt need ever come.

### What was found

* `exorcise` never looks at the kind of the cover (`opt/exorcism32.hpp:69`): a cover of kind
  SOP is minimised as if it were an ESOP and returned as a SOP, though
  `tools/exorcism/README.md:5` says that the function is not changed, and `read_pla` accepts
  SOPs. Run `exorcism_sop`.
* `compute_and` recognises a vanishing product by comparing with `cube32_zero`
  (`base/collapse.cpp:122`), whose words are those of the product of all 32 negative
  literals. With 32 inputs, which `aig_extract` accepts, that minterm is dropped. Run
  `aig_full`; with fewer inputs than bits the theorem `Refinement` excludes it.
* `aig_to_bdd` applies `!` to the BDD of the constant object (`xforms/aig_to_bdd.cpp:96`), which
  was never assigned one, when an output is the constant 1: a memory fault, while constant 0
  outputs are provided for and the other collapser handles both. Cofactoring makes such
  outputs likely. Run `aig_to_bdd_one`.

Further things that the properties of passing runs state as exceptions. `read_pla` ignores
comments only in the header and only if there is a blank in them (`io/read_pla.hpp:47`, against
its own comment in line 26): a comment without one takes the beginning of the next line with
it, one behind the header ends the file, unless it has as many characters before and behind its
blank as a row, which it is then taken for (`ReadsBack`, `RowsRead`). It does not end for a file
that declares neither inputs nor outputs (`EndsWithDimensions`, `Ends`). The handler of SIGINT
waits for ever when it interrupts a lookup of a logger or a line for the console
(`InterruptEnds`). `write_pla` never looks at its streams, and a run whose files are missing or cut
off ends with success (`FilesRepresent`).

## 4. What is proved

All theorems hold for every `Width`, every `NVars <= Width`, and every set of inputs that
satisfies the named assumptions of the modules; those of `CollapseToolProofs` for every
`MaxCubes` and, for the handler, every number of cofactors and data lines, those of
`PsdkroProofs` for every list of outputs and every order of the inputs, those of
`EsopToAigProofs` for every list of covers, those of `ExorcismToolProofs` for all plain files,
however many rows, lines and comments they have, whose numbers of inputs and outputs an
`std::uint32_t` holds.

**Minimiser** (`ExorcismProofs`). The inductive invariant
`IInv` of `ExorcismInv` is proved in layers, each using those before it:

1. *Control* (`ControlInv`): types, the phase of an attempt (`LinkOK`), the queues
   (`QueuesOK`) and the distance of queued pairs (`PairsAtDistance`). `QueueCoversPass` alone
   is not inductive: a rollback cuts a queue at the bookmark, so the bookmark must be known to
   lie beyond the pairs the pass has still to take.
2. *The cover* (`CoverInv`): cubes are in the bucket of their number of literals
   (`BucketsByLits`) and the cubes of a pair under attempt, which are outside the cover, are
   still apart from it (`HeldApart`). Without the second, putting the pair back could not be
   shown to keep the cover apart. The window of seven buckets suffices by the lemma
   `LitsDistance`: numbers of literals differ by no more than the distance.
3. *The pairs* (`PairsWait`): every pair at distance 2 of the cover and of the pair under
   attempt is in the first queue; during an attempt it is there below the bookmark, where no
   rollback cuts it, except for the pair `exorlink2` itself attempts, which is queued again
   when it is given up. `Distance2Queued`, which speaks of the states between iterations
   only, is not inductive. A scan queues every cube at distance 2 (`ListsAll`,
   `WindowHoldsPairs`), and a pair that is dropped has a cube outside the cover, because
   `BucketsByLits` makes `Present` exact.
4. *Function and size*: `FunctionKept` accounts for the cubes in flight (`Owed`), which is
   the pair as long as an attempt has failed and the linked cubes still to be added once it
   has succeeded. It rests on `MergeOnSet` (two cubes at distance 1 become their exclusive
   sum) and on `LinkTwo` and `LinkThree` (the cubes that any row of the
   tables gives have the exclusive sum of the pair). `NeverLarger` counts the same cubes.

From it: `TypeCorrect`, `PairsKeepDistance`, `PassCovered`, `RollbacksShrink`, `CoverApart`,
`PairsNeverLost` (`Distance2Queued`), `FunctionPreserved`, `GainNonNegative`, `ResultCorrect` (for covers of kind ESOP, the
assumption `Kinds = {"ESOP"}`; `exorcism_sop` shows why it is needed), and `Refinement`: the
minimiser implements `EsopMinimiser`.

**AIG collapser** (`AigCollapseProofs`). All theorems assume `NVars < Width`, which is what
keeps products apart from the sentinel; `aig_full` shows why. `IInv` consists of types and
bounds, of the facts that gates not yet reached have empty ESOPs (`NotYet`: gates with a zero
fanin are skipped, and their ESOP must be read as 0), that the working set is empty between
gates (`FreshForGate`), that the prepared fanins have the functions of the edges
(`FaninsReady`), and of `ProductKept`. From it: `TypeCorrect`, `ProductPreserved`,
`NoneToMerge` (`Irredundant`, using that one or two rotations of a literal give exactly the
cubes at distance 1 in that position) and `Refinement`: the collapser implements `AigEval`.
`OutputsCorrect` (`OutputsComputed`) then says the same of whole graphs: a further invariant,
`Computed`, kept by every step of `AigEval`, says that what has been stored are values of the
gates consistent with each other, and by induction on the gates there is only one such
assignment, the one that `ValueAt` computes.

**Conversion to BDDs** (`AigToBddProofs`). `TypeOK` is inductive as it stands, since it says
which objects hold a BDD: those before the one under way, each of one function, but not the
constant. `TypeCorrect` follows, and `Refinement`: restricted to the objects reached, with the
empty BDD read as the constant 0, each gate and each output is a step of `AigEval`; a fault
stutters. Neither assumes hashed graphs.

**BDD collapser** (`PsdkroProofs`). The recursions are a stack of what is left to do, so that an
invariant has to say what that will come to. `IInv` says that the stack can be *annotated*
(`Undone`, `Annotated`): between any two of its entries there is an annotation, of the path as it
will be then, the function still missing from `m_esop` and the number of its cubes, the cubes
that may have been inserted, the nodes whose costs are known and the references that open
frames hold; each entry takes one annotation to the next (`Step`), and the last has
nothing missing and the path empty. The first annotation is the present state. Popping an entry
moves along the annotations; where a call puts new entries on the stack (`CountsPushed`,
`CallsPushed`), the annotations between them are made up from the cofactors of the node
(`BranchFacts`, `ExpansionsSum`). The other parts are what is recorded for a node
(`Costs`: its branches are recorded too, and its cost is `Least`), the ESOPs extracted
(`Results`) and the nodes in CUDD (`Nodes`, and `HeldAt` of the annotation). From it:

* `CountedAlways` (`Counted`): an annotation lists the nodes that will be known;
* `ExtractsAlways` (`Extracts`) and `LeastAlways` (`LeastCubes`): the function and the number of
  cubes missing. That leaving out the most costly branch is optimal is `ExpandIsLeast`. That no
  cube is generated twice, so that inserting into a set is as good as an exclusive sum, is why
  annotations have the cubes inserted: the cubes of a call agree with the literals of its path
  (`Agreeing`) on the inputs above its node, on which the node does not depend (`Indep`);
* `PathUnwoundAlways` (`PathUnwound`): the last annotation;
* `WorkAlwaysFalls` (`WorkFalls`): a node makes room on the stack for at most three of its branches
  and three entries of weight 1, fewer than six in all; a branch, of the three the exclusive sum
  too, does not depend on the inputs above it (`Indep`) nor on the input expanded, so that its
  height is less and it weighs at most a sixth of the node;
* `NodesKeptAlways` (`NodesKept`): each node that is counted or about to be is below an output or
  below the XOR of the branches of a counted node (`BelowBranch`), and to each of these there is
  one reference more than open frames hold.

**Collapse tool** (`CollapseToolProofs`). What minimising and collapsing may return is what
modules `Exorcism`, `AigCollapse` and `Psdkro` are proved to promise. For `aig_extract` that needs
fewer inputs than bits, and so all four theorems assume `FewInputs`: with this method
`NVars < Width`. (With as many inputs as bits the files would be as wrong as `aig_full` shows the
ESOPs to be, and the check, whose verdict is dropped, would say so.) `IInv` of `CollapseTool`
adds to the properties how far the program is (`Control`), that the cubes of a cofactor,
with the literals added to them, have its function on its points and 0 elsewhere
(`CellsCollapsed`), and that the result is right when it is written (`WholeResult`); TLC finds
it an invariant of the instance of `collapse_tool`. That every point belongs to one of the
cofactors needs that binary numerals are unique: no two numbers below `1 << n_cofactor` have
the same bits, and each choice of bits is a number's. From it: `PartialResultKept` (`PartialResult`),
`FilesCorrect` (`FilesRepresent`), for which the rows of a complete file are shown to cover the points
of their cubes, and a file cut off not to be complete, and `CheckNeverFails` (`CheckPasses`).

**Conversion to a graph** (`EsopToAigProofs`). The functions of the objects are defined by
recursion over them; what the proofs use is that they are the only solution of one equation per
object (`Solves`), so that a list of gates that begins with another (`Grows`) gives the objects
of both the same functions. `IInv` consists of the shape of the graph and the ranges of the
counters (`Shape`), the functions of the outputs made (`OutputsMade`), of the sum (`SumSoFar`)
and of the product (`ProductSoFar`). `HashAnd` and `HashXor`, whichever simpler edge or equal
gate they find, return an edge of the conjunction and the exclusive sum and only add gates
(`Gives`). For `Cleanup`, what is needed is shown to be closed under fanins, and ranks to number
the gates kept in their order without a gap, so that a renumbered edge reads an earlier object
of the same function. From it: `GraphCorrect` (`GraphComputes`), and `OutputsStay`: no step,
the clean-up included, changes the function of an output that has been made.

**PLA files and the exorcism tool** (`ExorcismToolProofs`). `ReadInv` says where in a plain file
the stream stands: what is left is the text behind the first n lines (`After`), preceded by the
rest of the line under way, the variables have the values of those n lines
(`HeadRead`), and the covers are those of the rows among them (`CoversOf`). `ReadsBack` is
about the end of reading only and is not inductive. Each call on the stream is shown to move
it as far as the next such place; a `getline` that stops at the first blank stops behind the
word, because words have none, and a number is read whole because it is followed by an end of line: it
has digits only and they have its value, digit by digit from the left (`NumeralIs`, `ValueIs`). A
row's text gives its cube back (`CubeOf` inverts `str`, input by input), and is no `.e`. The
last lines leave the stream exhausted, whose next line, empty or the last one, is not taken for
a row. From it:

* `FileReadBack` (`ReadsBack`);
* `WrittenIsPlain`: what `write_pla` writes for at most `MaxNumber` cubes, as `CollapseTool` models
  it, is the text of a plain file, so that the theorems do speak of the files the other program
  makes;
* `FileMinimised` (`MinimisesFile`), from an invariant of the tool, `ToolInv`: the covers stay as
  they were read, and of each one result has the function.

**Interrupts** (`CollapseToolProofs`; `SigintHandler` is about the same program).
`MutexHeldInCall` (a mutex is held only inside the call that takes it) is inductive by itself.
`HandlerTypeCorrect` rests on lemmas about the lists of calls
(repetition of a list is a list of calls). `LoggersPresent` (`LoggersFound`) needs
the order in which what is left to call begins: the creation of the console logger stands
before the installation of the handler, and loggers are never removed.

Theorems are about `Spec`, without fairness.

Induction. No induction theorem with an operator as its parameter can be used by the
provers; `Cube32Lemmas` proves what is needed with sets in its place, from the least element of a
set of numbers (`LeastNumber`): a set that has 0 and with each number its successor has all
numbers (`AllNumbers`), and a function can be defined by recursion over the numbers
(`Recursion`). `Least`, which recurs over the functions of a BDD, is shown to exist level by
level (`LeastTable`, `LeastFacts`).

Model-checked only:

* all liveness (`Terminates`, `CompletesWithoutConstantOne`, `EndsWithDimensions`, `Ends`,
  `InterruptEnds`, `EndsOrWaits`);
* `RowsRead`, which is about files that are cut off anywhere or have any lines put in. No
  assumption describes the text of such a file, so that there is nothing to prove from; and the rows
  it leaves out are removed by a fold, whose recursion has an operator as its parameter.

## 5. What is not modelled

* `source/main.cpp`: it reads a graph and prints its statistics.
* Logging (but for its mutexes), statistics, timers and messages.
* `psdkro::add_cube` and `aig_to_bdd`'s `test()` are never called; `find_pairs` is declared
  and never defined.
* CUDD's reordering, which `aig_to_bdd` turns off again before anything is extracted, and its
  caches; ABC's parser and cofactoring, miter construction and equivalence checker.
  `CheckPasses` is about what the checker is asked, taking its answer to be right.
* Graphs of more than 32 inputs, for which both collapsers print a message and end the program;
  cofactoring more inputs than the graph has, which is up to ABC.
* `result._kind`, which is not initialised in the collapse tool, and the kind of a cover whose
  file cannot be opened: only `print_stats` reads them.

## 6. Plan

Done, in this order: `Cube32`, `Exorcism` with its properties, abstract specification and
proofs; `AigCollapse` with its properties, abstract specification and proofs; `Psdkro`;
`AigToBdd` with its refinement and proofs; `Pla`, `ReadPla`; `CollapseTool`;
`SigintHandler` with its proofs; `EsopToAig`; `ExorcismTool`.

Then the proofs, of `OutputsComputed`, of the properties of `CollapseTool`, of those of
`Psdkro`, of `EsopToAig`, and of `ReadPla` with `ExorcismTool`.

What could follow: `RowsRead` stated of a text alone, without the fields of the instance, and
proved; and an abstract specification that `CollapseTool` implements, a list of files that only
grows.
