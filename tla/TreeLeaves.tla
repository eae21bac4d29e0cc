---------------------------- MODULE TreeLeaves ----------------------------
(***************************************************************************)
(* The end of placing a tree (core/src/features_tree.c): leaves learn their*)
(* distance to the nearest log level by level (update_leaves), and the     *)
(* faces of the cells visited on the way are listed for a last update of   *)
(* the blocks on both sides (update_shape_at_edge).  A level is a Java set,*)
(* whose order depends on hashes: any of its cells may be polled.          *)
(***************************************************************************)
EXTENDS Integers, Sequences, FiniteSets, SequencesExt, Faces

CONSTANTS
  Scene,    \* what a tree left: [world, logs, leaves, deco, roots, window]
  Levels    \* distances: levels 0 .. Levels - 1 are queued, Levels is "far"

\* A block is Log (of this tree or another one), Other, or the distance that a
\* leaf holds.
Log == 0
Other == -1
VARIABLES
  scene,    \* what the tree left
  world,    \* the blocks
  levels,   \* levels[k]: cells to be visited at distance k
  at,       \* the level being emptied
  filled,   \* cells of the shape, inside the box
  phase,    \* "visit" or "done"
  died,     \* a block that is no leaf was to be given a distance
  faces     \* the faces that were updated, in order

vars == <<scene, world, levels, at, filled, phase, died, faces>>

At(W, c) == IF c \in DOMAIN W THEN W[c] ELSE Other
IsLeaf(b) == b > Log

\* getOptionalDistanceAt: 0 for logs, the property of a leaf, nothing else.
OptionalDistance(b) == IF b = Other THEN {} ELSE {b}

Placed(s) == s.logs \cup s.leaves \cup s.deco \cup s.roots
Box(s) == LET S == Placed(s)
          IN (Low(S, 1) .. High(S, 1)) \X (Low(S, 2) .. High(S, 2)) \X (Low(S, 3) .. High(S, 3))

Init == /\ scene \in Scene
        /\ world = scene.world
        /\ levels = [k \in 0 .. Levels - 1 |-> IF k = 0 THEN scene.logs ELSE {}]
        /\ at = 0
        /\ filled = (scene.deco \cup scene.roots) \cap Box(scene)
        /\ phase = "visit"
        /\ died = FALSE
        /\ faces = <<>>

\* A write outside the window of the region is dropped.
Write(W, c, b) == IF c \in scene.window THEN [W EXCEPT ![c] = b] ELSE W

\* The neighbours of c that its visit looks at, by direction, and what they hold.
Open(F, c) == LET box == Box(scene)
              IN {d \in 1 .. 6 : Plus(c, Step[d]) \in box /\ Plus(c, Step[d]) \notin F}
Held(W, c, d) == OptionalDistance(At(W, Plus(c, Step[d])))

\* The level in direction d: a neighbour that holds less than the level lowers it
\* at once, for the directions after it.
LevelAt(W, open, c, k, d) == Min({k} \cup UNION {Held(W, c, e) : e \in {e \in open : e < d}})

\* The cells that the visit of c at level k queues, each with its new level.
Queued(W, open, c, k) ==
  LET queue(d) == {<<Plus(c, Step[d]), Min({o, LevelAt(W, open, c, k, d) + 1})>> : o \in Held(W, c, d)}
  IN {q \in UNION {queue(d) : d \in open} : q[2] < Levels}

\* The search goes back to the lowest level that got a cell.
BackNowhere(k, queued) == k
BackTo(k, queued) == Min({k} \cup {p[2] : p \in queued})

FillNothing(F, c) == F
Fill(F, c) == F \cup {c}

Visit(c, k) ==
  IF k # 0 /\ ~IsLeaf(At(world, c)) THEN died' = TRUE /\ UNCHANGED <<world, levels, at, filled>>
  ELSE /\ world' = IF k = 0 THEN world ELSE Write(world, c, k)
       /\ filled' = Fill(filled, c)
       /\ \E open \in {Open(filled', c)} : \E queued \in {Queued(world', open, c, k)} :
            /\ levels' = [j \in DOMAIN levels |-> (levels[j] \ (IF j = k THEN {c} ELSE {}))
                                                  \cup {p[1] : p \in {q \in queued : q[2] = j}}]
            /\ at' = BackTo(k, queued)
       /\ UNCHANGED died

Waiting == {k \in DOMAIN levels : k >= at /\ levels[k] # {}}

Poll == /\ phase = "visit" /\ Waiting # {} /\ ~died
        /\ LET k == Min(Waiting)
           IN \E c \in levels[k] :
                IF c \in Box(scene) THEN Visit(c, k)
                ELSE /\ levels' = [levels EXCEPT ![k] = @ \ {c}]
                     /\ at' = k
                     /\ UNCHANGED <<world, filled, died>>
        /\ UNCHANGED <<scene, phase, faces>>

Edge == /\ phase = "visit" /\ Waiting = {} /\ ~died
        /\ phase' = "done"
        /\ faces' = AllFaces(filled, Placed(scene))
        /\ UNCHANGED <<scene, world, levels, at, filled, died>>

Next == Poll \/ Edge
Spec == Init /\ [][Next]_vars /\ WF_vars(Poll)

(***************************************************************************)
(* Properties                                                              *)
(***************************************************************************)
\* Cells a distance can reach, and the least distances that agree with each
\* other: what a leaf holds, or one more than a neighbour.
Weight(F) == [c \in F |-> LET o == OptionalDistance(At(scene.world, c))
                          IN CASE c \in scene.logs -> 0 [] o = {} -> Levels [] OTHER -> Min(o)]
RECURSIVE Settle(_)
Settle(f) ==
  LET F == DOMAIN f
      better(c) == {f[q] + 1 : q \in {q \in Neighbours(c) \cap F : f[q] < Levels}}
      g == [c \in F |-> IF At(scene.world, c) = Other THEN f[c]
                        ELSE Min({f[c], Levels} \cup better(c))]
  IN IF g = f THEN f ELSE Settle(g)
\* No log of another tree is in the box, and no leaf that has a distance.
Alone == \A c \in Box(scene) \ scene.logs : OptionalDistance(At(scene.world, c)) \subseteq {Levels}

\* Only leaves are given a distance (the abort in update_leaves is out of reach)
\* and no queued cell is left over.  When a tree is done no leaf is farther than it
\* said before, and none claims to be nearer to a log than it is by more than one:
\* a visit that sees less than its own level takes what it sees for the level, and
\* the neighbours after it for one step away.  Such errors do not add up.  A tree
\* alone makes none; there a leaf may be one too far, as it stays queued when it is
\* visited at a lower level, but never more.
Distances ==
  /\ ~died
  /\ phase = "done" =>
       LET least == Settle(Weight(Box(scene) \ (scene.deco \cup scene.roots)))
           leaves == {c \in DOMAIN least \cap scene.window : IsLeaf(scene.world[c])}
       IN /\ \A k \in DOMAIN levels : levels[k] = {}
          /\ \A c \in leaves : world[c] \in Max({1, least[c] - 1}) .. scene.world[c]
          /\ Alone => \A c \in leaves : world[c] \in least[c] .. least[c] + 1

\* Every face between the shape and the rest is updated once, and no other is.
FacesOnce ==
  phase = "done" =>
    LET border == {[cell |-> c, dir |-> d] : c \in filled, d \in 1 .. 6}
        outer == {f \in border : Plus(f.cell, Step[f.dir]) \notin filled}
    IN IsInjective(faces) /\ Range(faces) = outer

\* What a tree leaves behind: leaves whose distance is as near to the right
\* one as Distances says, and a shape each outer face of which was told once.
ShapeDone == Distances /\ FacesOnce

\* The search ends, though it may go back to lower levels.
Settled == Waiting = {}
Settles == <>Settled
=============================================================================
