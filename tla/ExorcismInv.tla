---------------------------- MODULE ExorcismInv ----------------------------
(***************************************************************************)
(* The properties of the minimiser of module Exorcism.                     *)
(***************************************************************************)
EXTENDS Exorcism

Labels  == {"ctor", "run", "exorlink", "attempt", "attempted", "follow"}

\* Type correctness: every cube the minimiser ever handles is a cube over the
\* inputs, so n_lits indexes a bucket that exists.
TypeOK ==
  /\ pc \in Labels \cup {"add_cube", "done"}
  /\ kind \in Kinds
  /\ original \in Originals
  /\ loaded \in 0 .. Len(original)
  /\ m_cubes \in [Buckets -> SUBSET Cubes]
  /\ m_pairs \in [Dists -> Seq(Cubes \X Cubes)]
  /\ bookmark \in [Dists -> Nat]
  /\ cube \in Cubes /\ add \in BOOLEAN
  /\ gain \in Nat /\ caller \in {"ctor", "attempted", "follow"}
  /\ pair \in Cubes \X Cubes
  /\ group \in 1 .. 6 /\ tried \in 1 .. 3 /\ left \subseteq 1 .. 3
  /\ pass \in 1 .. NPasses /\ todo \in Nat /\ old_size \in Nat
  /\ total \in Int /\ without_improv \in Nat

-----------------------------------------------------------------------------
(* The function of the cover. *)

\* An attempt has not (yet) found a cube of the cover to combine with.
Attempting == \/ pc = "attempt"
              \/ pc = "add_cube" /\ caller = "attempted" /\ ~ add
              \/ pc = "attempted" /\ gain = 0

\* An attempt has succeeded, the other linked cubes are being added.
Following == pc = "follow" \/ (pc = "add_cube" /\ caller = "follow")

\* The linked cubes still to be added once an attempt has succeeded.
Others == IF pc = "attempted" \/ (pc = "add_cube" /\ caller = "attempted")
            THEN Tries \ {tried}
            ELSE IF Following THEN left ELSE {}

InFlight == pc = "add_cube" /\ ~ Attempting

\* What must be added to the cover to have the function of the input again.
Owed ==
  IF Attempting
    THEN SymDiff(OnSet(pair[1]), OnSet(pair[2]))
    ELSE SymDiff(IF InFlight THEN OnSet(cube) ELSE {},
                 EsopOfSeq(Linked, Others))

Loading == EsopOfSeq(original, 1 .. loaded)

\* At every step of every attempt, cover and cubes in flight together have
\* exactly the function of the input cubes read so far (add_cube, exorlink
\* and the two passes never change the function of the cover).
FunctionKept == SymDiff(EsopOf(Cover), Owed) = Loading

\* The number of cubes, those taken out or in flight included.
CubeCount ==
  Cardinality(Cover) +
    IF Attempting THEN 2
                  ELSE Cardinality(Others) + (IF InFlight THEN 1 ELSE 0)

Abstract == INSTANCE EsopMinimiser WITH
  given <- original,
  taken <- loaded,
  f     <- SymDiff(EsopOf(Cover), Owed),
  size  <- CubeCount,
  phase <- IF pc = "done" THEN "stopped"
           ELSE IF pc = "ctor" \/ (pc = "add_cube" /\ caller = "ctor")
                  THEN "taking" ELSE "minimising"

\* The minimiser implements EsopMinimiser: a cube read is added to the function,
\* everything else leaves the function alone and never makes the cover larger.
Implements == Abstract!Spec

-----------------------------------------------------------------------------
(* The cover and the queues. *)

\* No two cubes of the cover can be merged or cancelled: add_cube's scan of
\* seven buckets never misses a neighbour.
Apart == \A a, b \in Cover : a # b => distance(a, b) >= 2

\* A cube is found again where Present() and the scans look for it.
BucketsByLits == \A i \in Buckets : \A c \in m_cubes[i] : n_lits(c) = i

\* A queued pair may be stale but always has the distance of its queue, also
\* after a rollback: exorlink(c0, c1, dist, ..) reads dist bits of diff.
PairsAtDistance ==
  \A d \in Dists : \A k \in 1 .. Len(m_pairs[d]) :
    distance(m_pairs[d][k][1], m_pairs[d][k][2]) = d

Settled == pc \in {"ctor", "run", "exorlink", "done"}

QueuedWithin(n, a, b) ==
  \E k \in 1 .. n : m_pairs[2][k] = <<a, b>> \/ m_pairs[2][k] = <<b, a>>

Queued(a, b) == QueuedWithin(Len(m_pairs[2]), a, b)

\* Between two iterations every pair of the cover at distance 2 waits in the
\* first queue: rollbacks and dropped pairs never lose one.
Distance2Queued ==
  Settled => \A a, b \in Cover : distance(a, b) = 2 => Queued(a, b)

\* A pair is being replaced.
Linking == \/ pc \in {"attempt", "attempted", "follow"}
           \/ pc = "add_cube" /\ caller # "ctor"

\* pairs.front() is only read from a non-empty queue: what a pass appends and
\* rolls back never eats into the n_pairs entries it found at its start.
QueueCoversPass ==
  (pc = "exorlink" \/ Linking) => todo <= Len(m_pairs[dist])

\* resize() in pairs_rollback() only ever shrinks a queue: it never fills it
\* up with default pairs.
RollbackShrinks ==
  Attempting => \A d \in Dists : bookmark[d] <= Len(m_pairs[d])

\* The unsigned difference old_size - curr_size returned by a pass does not
\* wrap around.
NoUnderflow == pc = "exorlink" => n_cubes <= old_size

-----------------------------------------------------------------------------
(* The inductive strengthenings. *)

\* The tables of exorlink() are read within their bounds, for a pair that
\* differs in as many positions as they have columns; an attempt that found
\* nothing has returned 0, one that merged goes on to add for good.
LinkOK ==
  /\ Linking => /\ group <= Len(Groups(dist)) /\ tried \in Tries
                /\ distance(pair[1], pair[2]) = dist
  /\ Following => left \subseteq Tries
  /\ pc = "add_cube" /\ ~ add => /\ caller = "attempted" /\ gain = 0
                                 /\ cube = Linked[tried]
  /\ pc = "add_cube" /\ caller = "attempted" /\ add => gain >= 1

\* While a pair is attempted the pass will start again from the bookmark.
QueuesOK ==
  /\ QueueCoversPass
  /\ RollbackShrinks
  /\ Attempting => todo <= bookmark[dist]

\* The cubes of a pair under attempt are out of the cover but still apart from
\* it, so that they can be put back.
Held == IF Attempting THEN {pair[1], pair[2]} ELSE {}
HeldApart ==
  /\ Held \cap Cover = {}
  /\ \A a, b \in Cover \cup Held : a # b => distance(a, b) >= 2

\* While a pair is attempted, the pairs of the cover and of the pair itself are
\* queued where no rollback reaches them; only the pair attempted by exorlink2
\* is not, which queues it again when it gives up.
Kept == IF Attempting THEN bookmark[2] ELSE Len(m_pairs[2])
PairsWait ==
  \A a, b \in Cover \cup Held : distance(a, b) = 2 =>
    QueuedWithin(Kept, a, b) \/ (dist = 2 /\ {a, b} = Held)

\* No step of a pass makes the cover larger.
NeverLarger == (pc = "exorlink" \/ Linking) => CubeCount <= old_size

\* The minimisation starts once every cube has been read.
AllLoaded ==
  pc \in {"run", "exorlink", "done"} \/ Linking => loaded = Len(original)

\* Types and control, then the cover, then its pairs, its function and its size.
ControlInv == TypeOK /\ LinkOK /\ QueuesOK /\ PairsAtDistance
CoverInv   == ControlInv /\ BucketsByLits /\ HeldApart
IInv       == CoverInv /\ PairsWait /\ FunctionKept /\ NeverLarger /\ AllLoaded

-----------------------------------------------------------------------------
\* run() returns.
Terminates == <>(pc = "done")

\* tools/exorcism/README.md: the cover is modified without changing the
\* function represented by it, whatever the declared kind of the cover.
Represented(s) == IF kind = "ESOP" THEN EsopOfSeq(s, DOMAIN s) ELSE SopOfSeq(s)
ResultRepresents ==
  IF kind = "ESOP" THEN EsopOf(Cover)
                   ELSE {x \in Points : \E c \in Cover : Covers(c, x)}
RepresentsSameFunction ==
  pc = "done" => ResultRepresents = Represented(original)
=============================================================================
