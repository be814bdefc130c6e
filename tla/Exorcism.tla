------------------------------ MODULE Exorcism ------------------------------
(***************************************************************************)
(* The ESOP minimiser exorcism_mngr of source/opt/exorcism32.cpp: the      *)
(* constructor loads the cubes one by one, run() then applies the          *)
(* ExorLink-2 and ExorLink-3 passes until three rounds bring no gain.      *)
(*                                                                         *)
(* One step is one call, one loop iteration, or one scan of the cover by   *)
(* add_cube.  The tail call of add_cube on a merged cube is a further      *)
(* step.  Buckets are unordered sets, so a scan meets the cubes of a       *)
(* bucket in any order.                                                    *)
(***************************************************************************)
EXTENDS Cube32, Sequences

CONSTANTS
  Originals,   \* the covers that may be given to the constructor
  Kinds        \* the kinds those covers may be declared to have

ASSUME OriginalsAssumption == Originals \subseteq Seq(Cubes)
ASSUME KindsAssumption == Kinds \subseteq {"SOP", "ESOP", "UNDEF"}

m_max_dist == 3

\* exorlink() is applied at two distances, in turn, twelve times a round.
Dists     == 2 .. m_max_dist
NPasses   == 12
DistOf(p) == IF p % 2 = 1 THEN 2 ELSE 3

VARIABLES
  pc,             \* where the thread of control is
  kind,           \* two_lvl32::_kind of the cover given to exorcise()
  original,       \* the cubes given to the constructor
  loaded,         \* how many of them the constructor has passed to add_cube
  m_cubes,        \* the cover, in buckets by number of literals
  m_pairs,        \* queues of cube pairs, by distance (index 0 is distance 2)
  bookmark,       \* m_pairs_bookmark
  cube, add,      \* the arguments of the add_cube in progress
  gain, caller,   \* what it has to return so far, and where to
  pair, group, tried, left,  \* exorlink of a pair: the group of cubes, the
                  \* cube being attempted, the cubes still to be added
  pass, todo, old_size,      \* current pass of a round, its n_pairs - i
  total, without_improv      \* run()'s gain and its stopping rule

addVars   == <<cube, add, gain, caller>>
linkVars  == <<pair, group, tried, left>>
passVars  == <<pass, todo, old_size>>
runVars   == <<total, without_improv>>
inputVars == <<kind, original>>
vars == <<pc, inputVars, loaded, m_cubes, m_pairs, bookmark,
          addVars, linkVars, passVars, runVars>>

Buckets == 0 .. NVars
Cover   == UNION {m_cubes[i] : i \in Buckets}
n_cubes == Cardinality(Cover)

\* Mutant of Inserted: both cubes of a pair go into the bucket of one.
InsertedTogether(cs) ==
  LET n == n_lits(CHOOSE x \in cs : TRUE)
  IN  [i \in Buckets |-> IF i = n THEN m_cubes[i] \cup cs ELSE m_cubes[i]]

Erased(cs)   == [i \in Buckets |-> m_cubes[i] \ cs]
Inserted(cs) == [i \in Buckets |-> m_cubes[i] \cup {x \in cs : n_lits(x) = i}]

-----------------------------------------------------------------------------
(* exorlink(): the cubes that replace a pair, for each group of the tables *)
(* cube_groups2 and cube_groups3; each literal position where the pair     *)
(* differs, lowest first, is taken from c0, from c1, or is the third value.*)

\* Mutants of the tables: a row with one digit, or two, gone wrong.
cube_groups2_swapped == << <<<<2, 0>>, <<2, 1>>>>,
                           <<<<0, 2>>, <<2, 1>>>> >>

cube_groups2 == << <<<<2, 0>>, <<1, 2>>>>,
                   <<<<0, 2>>, <<2, 1>>>> >>

cube_groups3_typo == << <<<<2, 0, 0>>, <<1, 2, 0>>, <<1, 1, 2>>>>,
                        <<<<2, 0, 0>>, <<1, 0, 2>>, <<1, 2, 0>>>>,
                        <<<<0, 2, 0>>, <<2, 1, 0>>, <<1, 1, 2>>>>,
                        <<<<0, 2, 0>>, <<0, 1, 2>>, <<2, 1, 1>>>>,
                        <<<<0, 0, 2>>, <<2, 0, 1>>, <<1, 2, 1>>>>,
                        <<<<0, 0, 2>>, <<0, 2, 1>>, <<2, 1, 1>>>> >>

cube_groups3 == << <<<<2, 0, 0>>, <<1, 2, 0>>, <<1, 1, 2>>>>,
                   <<<<2, 0, 0>>, <<1, 0, 2>>, <<1, 2, 1>>>>,
                   <<<<0, 2, 0>>, <<2, 1, 0>>, <<1, 1, 2>>>>,
                   <<<<0, 2, 0>>, <<0, 1, 2>>, <<2, 1, 1>>>>,
                   <<<<0, 0, 2>>, <<2, 0, 1>>, <<1, 2, 1>>>>,
                   <<<<0, 0, 2>>, <<0, 2, 1>>, <<2, 1, 1>>>> >>

Groups(d) == IF d = 2 THEN cube_groups2 ELSE cube_groups3

\* c0 and c1 in the order of their values, and what differs from both.
Sources(a, b) ==
  LET c0 == IF ValueLess(b, a) THEN b ELSE a
      c1 == IF ValueLess(b, a) THEN a ELSE b
  IN  [take \in 0 .. 2 |->
         IF take = 0 THEN c0
         ELSE IF take = 1 THEN c1
         ELSE Cube(SymDiff(c0.mask, c1.mask),
                   Bits \ (c0.polarity \cup c1.polarity))]

exorlink(a, b, row) ==
  LET diff == difference(a, b)
      c0   == Sources(a, b)[0]
      Source(p) == Sources(a, b)[row[1 + Cardinality({q \in diff : q < p})]]
  IN  Cube((c0.mask \ diff) \cup {p \in diff : p \in Source(p).mask},
           (c0.polarity \ diff) \cup {p \in diff : p \in Source(p).polarity})

\* The cubes n[0], n[1], ... that the pair under way is to be replaced by.
dist    == DistOf(pass)
Tries   == 1 .. dist
Linked  == [j \in Tries |-> exorlink(pair[1], pair[2], Groups(dist)[group][j])]

-----------------------------------------------------------------------------
(* add_cube() *)

\* Mutant of Window: the buckets with fewer literals are left out.
WindowAbove(c) == {i \in Buckets : n_lits(c) <= i /\ i <= n_lits(c) + m_max_dist}

\* for (i = begin; i <= end; ++i)
Window(c) == {i \in Buckets : /\ n_lits(c) - m_max_dist <= i
                              /\ i <= n_lits(c) + m_max_dist}
Scanned(c) == UNION {m_cubes[i] : i \in Window(c)}

\* The scan reaches x: no bucket before x's holds a cube that would end it.
Reaches(c, i, x) ==
  /\ i \in Window(c) /\ x \in m_cubes[i]
  /\ \A k \in Window(c) : k < i => \A y \in m_cubes[k] : distance(c, y) > 1

CallAddCube(c, really, ret) ==
  /\ pc' = "add_cube"
  /\ cube' = c /\ add' = really /\ gain' = 0 /\ caller' = ret

\* At distance 1 the two cubes are merged and the result is added for good.
AddCubeMerge ==
  /\ pc = "add_cube"
  /\ \E i \in Buckets : \E x \in m_cubes[i] :
       /\ Reaches(cube, i, x)
       /\ distance(cube, x) = 1
       /\ m_cubes' = [m_cubes EXCEPT ![i] = @ \ {x}]
       /\ cube' = merge(cube, x)
  /\ add' = TRUE
  /\ gain' = gain + 1
  /\ UNCHANGED <<pc, inputVars, loaded, m_pairs, bookmark, caller,
                 linkVars, passVars, runVars>>

\* At distance 0 they cancel.
AddCubeCancel ==
  /\ pc = "add_cube"
  /\ \E i \in Buckets : \E x \in m_cubes[i] :
       /\ Reaches(cube, i, x)
       /\ distance(cube, x) = 0
       /\ m_cubes' = [m_cubes EXCEPT ![i] = @ \ {x}]
  /\ gain' = gain + 2
  /\ pc' = caller
  /\ UNCHANGED <<inputVars, loaded, m_pairs, bookmark, cube, add, caller,
                 linkVars, passVars, runVars>>

\* Mutant of Listings: a cube met is listed for both distances.
ListingsOfBoth(c, d) ==
  LET near == {x \in Scanned(c) : distance(c, x) \in Dists}
  IN  {s \in [1 .. Cardinality(near) -> near] : \A i, k \in DOMAIN s :
         i < k => s[i] # s[k] /\ n_lits(s[i]) <= n_lits(s[k])}

\* The lists into which a scan may put the cubes it meets at distance d.
Listings(c, d) ==
  LET near == {x \in Scanned(c) : distance(c, x) = d}
      D    == 1 .. Cardinality(near)
  IN  {s \in [D -> near] : \A i, k \in D :
         i < k => s[i] # s[k] /\ n_lits(s[i]) <= n_lits(s[k])}

Paired(c, s) == [k \in DOMAIN s |-> <<c, s[k]>>]

\* Nothing closer than 2.  The pairs are queued whether or not c is added.
AddCubeKeep ==
  /\ pc = "add_cube"
  /\ \A x \in Scanned(cube) : distance(cube, x) > 1
  /\ m_cubes' = IF add THEN Inserted({cube}) ELSE m_cubes
  /\ \E s2 \in Listings(cube, 2), s3 \in Listings(cube, 3) :
       m_pairs' = [d \in Dists |-> m_pairs[d] \o
                     Paired(cube, IF d = 2 THEN s2 ELSE s3)]
  /\ pc' = caller
  /\ UNCHANGED <<inputVars, loaded, bookmark, addVars,
                 linkVars, passVars, runVars>>

-----------------------------------------------------------------------------
(* The constructor *)

Load ==
  /\ pc = "ctor" /\ loaded < Len(original)
  /\ loaded' = loaded + 1
  /\ CallAddCube(original[loaded'], TRUE, "ctor")
  /\ UNCHANGED <<inputVars, m_cubes, m_pairs, bookmark,
                 linkVars, passVars, runVars>>

Loaded ==
  /\ pc = "ctor" /\ loaded = Len(original)
  /\ pc' = "run"
  /\ UNCHANGED <<inputVars, loaded, m_cubes, m_pairs, bookmark, addVars,
                 linkVars, passVars, runVars>>

-----------------------------------------------------------------------------
(* exorlink2() and exorlink3() *)

\* Mutants of Lengths: the bookmark is set before the pair is popped, or only
\* for the first queue.
LengthsBeforePop == [d \in Dists |-> Len(m_pairs[d]) + 1]
LengthsOfFirst   == [d \in Dists |-> IF d = 2 THEN Len(m_pairs[d]) ELSE 0]

Lengths  == [d \in Dists |-> Len(m_pairs[d])]
Rollback == [d \in Dists |-> SubSeq(m_pairs[d], 1, bookmark[d])]

StartPass ==
  /\ pc = "run"
  /\ todo' = Len(m_pairs[dist])
  /\ old_size' = n_cubes
  /\ pc' = "exorlink"
  /\ UNCHANGED <<inputVars, loaded, m_cubes, m_pairs, bookmark, addVars,
                 linkVars, pass, runVars>>

PopPair ==
  /\ pc = "exorlink" /\ todo > 0
  /\ todo' = todo - 1
  /\ m_pairs' = [m_pairs EXCEPT ![dist] = Tail(@)]

\* Mutant of Present: the bucket is found but not searched.
PresentUnsearched(c) == n_lits(c) \in Buckets

Present(c) == c \in m_cubes[n_lits(c)]

\* One of the cubes has left the cover since the pair was queued.
DropPair ==
  /\ PopPair
  /\ \E k \in 1 .. 2 : ~ Present(Head(m_pairs[dist])[k])
  /\ UNCHANGED <<pc, inputVars, loaded, m_cubes, bookmark, addVars, linkVars,
                 pass, old_size, runVars>>

TakePair ==
  /\ PopPair
  /\ pair' = Head(m_pairs[dist])
  /\ Present(pair'[1]) /\ Present(pair'[2])
  /\ m_cubes' = Erased({pair'[1], pair'[2]})
  /\ bookmark' = Lengths'
  /\ group' = 1 /\ tried' = 1
  /\ pc' = "attempt"
  /\ UNCHANGED <<inputVars, loaded, addVars, left, pass, old_size, runVars>>

Attempt ==
  /\ pc = "attempt"
  /\ CallAddCube(Linked[tried], FALSE, "attempted")
  /\ UNCHANGED <<inputVars, loaded, m_cubes, m_pairs, bookmark,
                 linkVars, passVars, runVars>>

AttemptGained ==
  /\ pc = "attempted" /\ gain >= 1
  /\ left' = Tries \ {tried}
  /\ pc' = "follow"
  /\ UNCHANGED <<inputVars, loaded, m_cubes, m_pairs, bookmark, addVars,
                 pair, group, tried, passVars, runVars>>

\* exorlink2 rolls the queues back after a group, exorlink3 after each cube.
TryNextCube ==
  /\ pc = "attempted" /\ gain = 0 /\ tried < dist
  /\ tried' = tried + 1
  /\ m_pairs' = IF dist = 3 THEN Rollback ELSE m_pairs
  /\ pc' = "attempt"
  /\ UNCHANGED <<inputVars, loaded, m_cubes, bookmark, addVars,
                 pair, group, left, passVars, runVars>>

TryNextGroup ==
  /\ pc = "attempted" /\ gain = 0 /\ tried = dist
  /\ group < Len(Groups(dist))
  /\ group' = group + 1 /\ tried' = 1
  /\ m_pairs' = Rollback
  /\ pc' = "attempt"
  /\ UNCHANGED <<inputVars, loaded, m_cubes, bookmark, addVars,
                 pair, left, passVars, runVars>>

\* Mutant of GiveUp: exorlink2 forgets the pair as well.
GiveUpForgetting ==
  /\ pc = "attempted" /\ gain = 0 /\ tried = dist
  /\ group = Len(Groups(dist))
  /\ m_cubes' = Inserted({pair[1], pair[2]})
  /\ m_pairs' = Rollback
  /\ pc' = "exorlink"
  /\ UNCHANGED <<inputVars, loaded, bookmark, addVars, linkVars,
                 passVars, runVars>>

\* exorlink2 queues the pair again, exorlink3 forgets it.
GiveUp ==
  /\ pc = "attempted" /\ gain = 0 /\ tried = dist
  /\ group = Len(Groups(dist))
  /\ m_cubes' = Inserted({pair[1], pair[2]})
  /\ m_pairs' = IF dist = 2 THEN [Rollback EXCEPT ![2] = Append(@, pair)]
                            ELSE Rollback
  /\ pc' = "exorlink"
  /\ UNCHANGED <<inputVars, loaded, bookmark, addVars, linkVars,
                 passVars, runVars>>

AddOther ==
  /\ pc = "follow" /\ left # {}
  /\ left' = left \ {Min(left)}
  /\ CallAddCube(Linked[Min(left)], TRUE, "follow")
  /\ UNCHANGED <<inputVars, loaded, m_cubes, m_pairs, bookmark,
                 pair, group, tried, passVars, runVars>>

Replaced ==
  /\ pc = "follow" /\ left = {}
  /\ pc' = "exorlink"
  /\ UNCHANGED <<inputVars, loaded, m_cubes, m_pairs, bookmark, addVars,
                 linkVars, passVars, runVars>>

-----------------------------------------------------------------------------
(* run() *)

\* Mutant of Improved: a round without gain counts as an improvement.
NotWorse(round_gain) == round_gain >= 0

Improved(round_gain) == round_gain > 0

\* The return of a pass; after the last one of a round, the loop condition.
EndPass ==
  /\ pc = "exorlink" /\ todo = 0
  /\ LET round_gain == total + (old_size - n_cubes) IN
       IF pass < NPasses
         THEN /\ pass' = pass + 1
              /\ total' = round_gain
              /\ pc' = "run"
              /\ UNCHANGED without_improv
         ELSE /\ pass' = 1
              /\ total' = 0
              /\ without_improv' = IF Improved(round_gain)
                                      THEN 0 ELSE without_improv + 1
              /\ pc' = IF without_improv' <= 2 THEN "run" ELSE "done"
  /\ UNCHANGED <<inputVars, loaded, m_cubes, m_pairs, bookmark, addVars,
                 linkVars, todo, old_size>>

\* run() has returned: exorcise() hands out the cubes under original._kind.
Terminated == pc = "done" /\ UNCHANGED vars

-----------------------------------------------------------------------------
Init ==
  /\ pc = "ctor"
  /\ kind \in Kinds
  /\ original \in Originals
  /\ loaded = 0
  /\ m_cubes = [i \in Buckets |-> {}]
  /\ m_pairs = [d \in Dists |-> <<>>]
  /\ bookmark = [d \in Dists |-> 0]
  /\ cube = cube32_one /\ add = FALSE /\ gain = 0 /\ caller = "ctor"
  /\ pair = <<cube32_one, cube32_one>> /\ group = 1 /\ tried = 1 /\ left = {}
  /\ pass = 1 /\ todo = 0 /\ old_size = 0
  /\ total = 0 /\ without_improv = 0

AddCube  == AddCubeMerge \/ AddCubeCancel \/ AddCubeKeep
ExorLink == \/ StartPass \/ DropPair \/ TakePair \/ Attempt \/ AttemptGained
            \/ TryNextCube \/ TryNextGroup \/ GiveUp \/ AddOther \/ Replaced
Next == \/ AddCube \/ Load \/ Loaded \/ ExorLink \/ EndPass \/ Terminated

Spec     == Init /\ [][Next]_vars
FairSpec == Spec /\ WF_vars(Next)
=============================================================================
