----------------------------- MODULE EdgeShapes -----------------------------
(***************************************************************************)
(* How a block takes the shape its neighbours ask for when a tree or a     *)
(* template is finished (core/src/features_tree.c, edge_face): both blocks *)
(* of a face are read first, then each is updated in turn and may schedule *)
(* ticks; the second sees what the first became.                           *)
(***************************************************************************)
EXTENDS Integers, FiniteSets

CONSTANTS
  Blocks,   \* the block states that may stand on the two sides of a face
  Setting,  \* [around, third, dark, shut]: the block everywhere else, blocks at some cells,
            \* whether it is dark, and whether the first cell is outside the window
  Tag       \* the sets of kinds named by block tags

VARIABLES
  scene,    \* the setting and the direction of the face
  world,    \* the blocks
  ticks,    \* <<cell, what>> that were scheduled
  done,     \* how often the face was updated
  died      \* a conversion that is not modelled by the code was reached

vars == <<scene, world, ticks, done, died>>

\* Directions as the code numbers them: down, up, north, south, west, east.
Dir == 0 .. 5
Flat == 2 .. 5
Step == [d \in Dir |-> <<<<0, -1, 0>>, <<0, 1, 0>>, <<0, 0, -1>>, <<0, 0, 1>>, <<-1, 0, 0>>, <<1, 0, 0>>>>[d + 1]]
Opposite(d) == CASE d \in {0, 2, 4} -> d + 1 [] OTHER -> d - 1
Clockwise(f) == CASE f = 2 -> 5 [] f = 5 -> 3 [] f = 3 -> 4 [] f = 4 -> 2
CounterClockwise(f) == Opposite(Clockwise(f))
Origin == <<0, 0, 0>>
Beside(c, d) == <<c[1] + Step[d][1], c[2] + Step[d][2], c[3] + Step[d][3]>>

\* A block state: its kind, half, facing, variant, faces, a number, and water.
Block(k) == [k |-> k, up |-> FALSE, f |-> 2, v |-> "", on |-> {}, n |-> 0, wet |-> FALSE]
Air == Block("air")
At(W, c) == IF c \in DOMAIN W THEN W[c] ELSE scene.around

\* Kinds.
FullCube(s) == s.k \in {"stone", "log", "dirt", "clay", "magma", "sand"}
Source(s) == s.k \in {"water", "lava"}
InWater(s) == s.wet \/ s.k \in {"seagrass", "tallseagrass", "kelp", "kelpplant"}
Water(s) == s.k = "water" \/ InWater(s)
Kelp(s) == s.k \in {"kelp", "kelpplant"}
CaveVines(s) == s.k \in {"cavevines", "cavevinesplant"}
BigDripleaf(s) == s.k \in {"bigdripleaf", "stem"}
HasTag(t, s) == s.k \in Tag[t]

\* A vine or a face of lichen holds on to full cubes and leaves.
AttachOk(s) == FullCube(s) \/ s.k = "leaves"

\* Faces that can carry something.
FaceSturdy(s, d) ==
  \/ FullCube(s)
  \/ s.k = "azalea" /\ d = 1
  \/ /\ s.k = "stairs" /\ d < 2
     /\ d = (IF s.up THEN 1 ELSE 0)
  \/ /\ s.k = "stairs" /\ d \in Flat
     /\ \/ d = s.f /\ s.v \in {"straight", "inner_left", "inner_right"}
        \/ d = CounterClockwise(s.f) /\ s.v = "inner_left"
        \/ d = Clockwise(s.f) /\ s.v = "inner_right"
  \/ s.k = "slab" /\ (s.v = "double" \/ d = (IF s.v = "top" THEN 1 ELSE 0))
  \/ s.k = "trapdoor" /\ s.v = "closed" /\ d = (IF s.up THEN 1 ELSE 0)

\* Whether a fence joins what stands beside it in direction d.
FenceJoins(ns, d) == ns.k = "fence" \/ (ns.k # "leaves" /\ FaceSturdy(ns, Opposite(d)))

\* The corner that stairs form with stairs behind or before them.
Turned(s, o) == o.k = "stairs" /\ o.up = s.up /\ {s.f, o.f} \notin {{2}, {3}, {4}, {5}, {2, 3}, {4, 5}}
Blocked(W, c, d, s) == LET o == At(W, Beside(c, d)) IN o.k = "stairs" /\ o.f = s.f /\ o.up = s.up
StairsShape(W, c, s) ==
  LET behind == At(W, Beside(c, s.f))
      front == At(W, Beside(c, Opposite(s.f)))
  IN CASE Turned(s, behind) /\ ~Blocked(W, c, Opposite(behind.f), s) ->
            IF behind.f = CounterClockwise(s.f) THEN "outer_left" ELSE "outer_right"
       [] Turned(s, front) /\ ~Blocked(W, c, front.f, s) ->
            IF front.f = CounterClockwise(s.f) THEN "inner_left" ELSE "inner_right"
       [] OTHER -> "straight"

\* The other half of a chest.
ChestDir(s) == IF s.v = "left" THEN Clockwise(s.f) ELSE CounterClockwise(s.f)

Survives(W, s, c) ==
  LET below == At(W, Beside(c, 0))
      above == At(W, Beside(c, 1))
  IN CASE s.k = "plant" -> HasTag("vegetation", below)
       [] s.k = "azalea" -> HasTag("azalea", below)
       [] s.k = "carpet" -> below.k # "air"
       [] s.k \in {"tallgrass", "smalldripleaf"} /\ s.up -> below.k = s.k /\ ~below.up
       [] s.k = "tallgrass" /\ ~s.up -> HasTag("vegetation", below)
       [] s.k = "smalldripleaf" /\ ~s.up -> \/ HasTag("smalldripleaf", below)
                                            \/ Water(above) /\ HasTag("vegetation", below)
       [] s.k = "mushroom" -> \/ HasTag("mushroom", below)
                              \/ scene.dark /\ FullCube(below)
       [] OTHER -> TRUE

OnSeabed(ns) == FaceSturdy(ns, 1) /\ ns.k # "magma"

(***************************************************************************)
(* edge_update_state: what s at c becomes when ns in direction d changed.  *)
(***************************************************************************)
\* A half whose other half is gone.
HalfLostUnseen(s, d, ns) == d \in {0, 1} /\ s.up = (d = 0) /\ ns.k # s.k
HalfLost(s, d, ns) == d \in {0, 1} /\ s.up = (d = 0) /\ (ns.k # s.k \/ ns.up = s.up)

\* The one face of a vine lost its hold.
VineFalls(W, s, c, d) ==
  d # 0 /\ \A f \in s.on : ~AttachOk(At(W, Beside(c, f))) /\ (f # 1 => At(W, Beside(c, 1)) # s)

\* Whether it breaks.
Falls(W, s, c, d, ns) ==
  LET at(q) == At(W, Beside(c, q))
  IN CASE s.k = "vine" -> VineFalls(W, s, c, d)
       [] s.k = "lichen" -> s.on = {d} /\ ~AttachOk(ns)
       [] s.k = "cocoa" -> d = s.f /\ ~HasTag("cocoa", at(d))
       [] s.k \in {"plant", "azalea", "carpet", "mushroom"} -> ~Survives(W, s, c)
       [] s.k \in {"tallgrass", "smalldripleaf"} -> HalfLost(s, d, ns) \/ ~Survives(W, s, c)
       [] s.k = "spore" -> d = 1 /\ (~FullCube(at(1)) \/ Water(At(W, c)))
       [] s.k = "bigdripleaf" -> d = 0 /\ ~BigDripleaf(at(0)) /\ ~HasTag("bigdripleaf", at(0))
       [] s.k = "seagrass" -> d = 0 /\ ~OnSeabed(ns)
       [] s.k = "tallseagrass" -> HalfLost(s, d, ns) \/ (~s.up /\ d = 0 /\ ~OnSeabed(ns))
       [] s.k = "door" -> \/ HalfLost(s, d, ns)
                          \/ ~s.up /\ d = 0 /\ ~FaceSturdy(ns, 1)
       [] OTHER -> FALSE

\* A bamboo under an older one grows as old; the age has two values.
Older(m, n) == m > n

\* Stairs, fences, doors and chests take the shape of what is beside them.
BuiltShape(W, s, c, d, ns) ==
  LET paired == /\ s.k \in {"chest", "trappedchest"} /\ ns.k = s.k /\ d \in Flat
                /\ s.v = "single" /\ ns.v # "single" /\ ns.f = s.f /\ ChestDir(ns) = Opposite(d)
      alone == /\ s.k \in {"chest", "trappedchest"} /\ ~(ns.k = s.k /\ d \in Flat)
               /\ ChestDir(s) = d /\ s.v # "single"
  IN CASE s.k = "stairs" /\ d \in Flat -> [s EXCEPT !.v = StairsShape(W, c, s)]
       [] s.k = "fence" /\ d \in Flat -> [s EXCEPT !.on = IF FenceJoins(ns, d) THEN @ \cup {d} ELSE @ \ {d}]
       [] s.k = "door" /\ d \in {0, 1} /\ s.up = (d = 0) -> [ns EXCEPT !.up = s.up]
       [] paired -> [s EXCEPT !.v = IF ns.v = "left" THEN "right" ELSE "left"]
       [] alone -> [s EXCEPT !.v = "single"]
       [] OTHER -> s

\* What it becomes.
Shape(W, s, c, d, ns) ==
  LET at(q) == At(W, Beside(c, q))
      long == /\ s.k = "cavevines"
              /\ \/ d = 1 /\ (CaveVines(at(1)) \/ FullCube(at(1))) /\ CaveVines(at(0))
                 \/ d = 0 /\ CaveVines(ns)
      grown == /\ s.k = "kelp"
               /\ \/ d = 0 /\ (Kelp(ns) \/ OnSeabed(ns)) /\ Kelp(at(1))
                  \/ d = 1 /\ Kelp(ns)
  IN CASE Falls(W, s, c, d, ns) -> Air
       [] s.k = "lichen" /\ d \in s.on /\ ~AttachOk(ns) -> [s EXCEPT !.on = @ \ {d}]
       [] long -> [s EXCEPT !.k = "cavevinesplant"]
       [] s.k = "bamboo" /\ d = 1 /\ ns.k = "bamboo" /\ Older(ns.n, s.n) -> [s EXCEPT !.n = 1 - @]
       [] s.k = "bigdripleaf" /\ d = 1 /\ ns.k = "bigdripleaf" -> [s EXCEPT !.k = "stem"]
       [] grown -> Block("kelpplant")
       [] OTHER -> BuiltShape(W, s, c, d, ns)

\* A head that grows again would need a random number: the code gives up.
Dies(s, d, ns) == \/ s.k = "cavevinesplant" /\ d = 0 /\ ~CaveVines(ns)
                  \/ s.k = "kelpplant" /\ d = 1 /\ ~Kelp(ns)

(***************************************************************************)
(* edge_schedule_ticks, and the ticks of plants under water that depend on *)
(* what the update decided.                                                *)
(***************************************************************************)
Distance(s) == CASE s.k = "log" -> 0 [] s.k = "leaves" -> s.n [] OTHER -> 7

Ticks(W, s, c, d, ns) ==
  LET r == Shape(W, s, c, d, ns)
      lost == d = 0 /\ ~(Kelp(ns) \/ OnSeabed(ns))
      due(what) == CASE what = "water" ->
                          \/ s.wet
                          \/ s.k = "water"
                          \/ s.k = "seagrass" /\ r.k = "seagrass"
                          \/ s.k = "kelp" /\ r.k = "kelp"
                          \/ s.k = "kelpplant"
                     [] what = "lava" -> s.k = "lava"
                     [] what = "flowing" -> s.k = "flow" /\ (Source(ns) \/ InWater(ns))
                     [] what = "block" ->
                          \/ s.k = "leaves" /\ ~(Distance(ns) = 0 /\ s.n = 1)
                          \/ s.k = "water" /\ d = 0 /\ ns.k = "magma"
                          \/ s.k = "sand"
                          \/ Kelp(s) /\ lost
  IN {<<c, what>> : what \in {what \in {"water", "lava", "flowing", "block"} : due(what)}}

\* A write outside the window of the region is dropped.
Write(W, c, b) == IF c \in scene.open THEN [W EXCEPT ![c] = b] ELSE W

(***************************************************************************)
(* edge_face: both blocks are read, then each is shaped by the other.      *)
(***************************************************************************)
Face == LET c == Origin  d == scene.dir
            n == Beside(c, d)
            s1 == At(world, c)
            s2 == At(world, n)
            s3 == Shape(world, s1, c, d, s2)
            W == Write(world, c, s3)
        IN /\ done < 3 /\ ~died
           /\ done' = done + 1
           /\ IF Dies(s1, d, s2) \/ Dies(s2, Opposite(d), s3)
              THEN died' = TRUE /\ UNCHANGED <<world, ticks>>
              ELSE /\ world' = Write(W, n, Shape(W, s2, n, Opposite(d), s3))
                   /\ ticks' = ticks \cup Ticks(world, s1, c, d, s2) \cup Ticks(W, s2, n, Opposite(d), s3)
                   /\ UNCHANGED died
           /\ UNCHANGED scene

Init == /\ \E a \in Blocks, b \in Blocks, d \in Dir, g \in Setting :
             /\ scene = [around |-> g.around, dark |-> g.dark, dir |-> d,
                         open |-> IF g.shut THEN {Step[d]} ELSE {Origin, Step[d]}]
             /\ world = [c \in {Origin, Step[d]} \cup DOMAIN g.third |->
                           CASE c = Origin -> a [] c = Step[d] -> b [] OTHER -> g.third[c]]
        /\ ticks = {} /\ done = 0 /\ died = FALSE

Next == Face
Spec == Init /\ [][Next]_vars

(***************************************************************************)
(* Properties                                                              *)
(***************************************************************************)
\* What stands on the two sides of the face.
Here == At(world, Origin)
There == At(world, Beside(Origin, scene.dir))

\* No plant or door is left with half of it missing across the face.
Paired(s, d, ns) ==
  (s.k \in {"tallgrass", "smalldripleaf", "tallseagrass", "door"} /\ d = (IF s.up THEN 0 ELSE 1)) =>
     ns.k = s.k /\ ns.up # s.up

\* A block that holds water and is still there will flow.
Flows(s, c) == s.k = "water" \/ s.wet => <<c, "water">> \in ticks

\* When a face has been updated, what needs its other half across the face has
\* it, unless that other half fell after the first was judged; and everything
\* that holds water has its tick.
FaceDone ==
  (done > 0 /\ ~died /\ Origin \in scene.open) =>
     LET d == scene.dir
     IN /\ Paired(There, Opposite(d), Here)
        /\ Paired(Here, d, There) \/ There = Air
        /\ Flows(Here, Origin) /\ Flows(There, Step[d])

\* Faces are shared by the passes of a tree and of the templates about it.
\* Updating the same face once more only lets fall what lost its hold, and a
\* third time changes nothing: no two blocks turn each other for ever.  Only the
\* arm of a fence was set before it saw the stairs beside it turn.
Settling == /\ done = 1 => \A c \in DOMAIN world : world'[c] \in {world[c], Air} \/ world[c].k = "fence"
            /\ done = 2 => world' = world
=============================================================================
