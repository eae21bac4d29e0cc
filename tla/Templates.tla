----------------------------- MODULE Templates -----------------------------
(***************************************************************************)
(* One piece of a structure, placed from a template chunk by chunk         *)
(* (core/src/structures_template.c, hc_splace_template): every chunk of    *)
(* the decorated region places the part of the piece that is in it, in     *)
(* whatever order the chunks come.                                         *)
(*                                                                         *)
(* A block is [at, s, nbt, loot, says]: a position, a state, whether it    *)
(* has nbt, its loot table, and what a structure block or a jigsaw says.   *)
(* A state is its block and the values of its properties, [k, kv]; the     *)
(* names the code parses and builds are the keys and values of kv, in      *)
(* whatever order.  Palettes are as LazyTables leaves them, and the palette *)
(* that the piece's position draws is given with the scene, as is the luck *)
(* of every position.  Draws from the stream of the chunk are free.        *)
(* Heights are those of the *_WG maps, which features do not move.  How a  *)
(* block takes its shape from a neighbour is EdgeShapes; here it is a      *)
(* constant function.                                                      *)
(***************************************************************************)
EXTENDS Integers, Sequences, FiniteSets, SequencesExt, Faces

CONSTANTS
  Piece,           \* [kind, procs, mirror, rotation, at, size, blocks, bb, sand, luck, ignores, beached, floor,
                   \*  world, recs, unusual]: recs are the entities of what was there before;
                   \*  unusual, whether a portal is overgrown, cold or elsewhere than on the sea's floor
  Place,           \* the chunks that are decorated
  ChunkWidth, MinY, MaxY,   \* 16, -64, 319
  Sea,             \* the level of the sea
  SandCap,         \* 5: the sands that may become suspicious
  Loot,            \* what a marker says -> the loot table it stands for
  Default,         \* the properties of a block a jigsaw may name, with their defaults
  Unlisted,        \* blocks the registry does not know
  Entities, Containers,     \* blocks with an entity; those of them that hold loot
  Full,            \* blocks with a full collision shape
  CannotReplace,   \* features_cannot_replace
  Radius, Sure,    \* 14, 7: how far netherrack spreads, and how far it does for certain
  Huge,            \* 32: a shipwreck larger than this stays where it is
  Luck,            \* draws of a portal: [adj, taken, magma, drip, below]: columns that are
                   \*  taken, positions that become magma, the length of drips by column
  Joined(_, _, _), EdgeTick(_, _, _) \* a state beside another one, by direction

VARIABLES
  scene,    \* the piece
  world, recs, ticks, marks, died,
  left,     \* chunks that have not decorated
  adjusted, \* height_adjusted
  centre,   \* the chunk that decorates
  phase,    \* "out", "blocks", "flood", "edge", "markers" or "spread"
  box,      \* where it may write, << x0, y0, z0, x1, y1, z1 >>
  todo,     \* the processed blocks that are to be placed
  placed,   \* what was placed: [by, at]
  locked,   \* positions of fluids that the piece brought
  dry       \* positions that water may fill

vars == <<scene, world, recs, ticks, marks, died, left, adjusted, centre, phase, box, todo, placed, locked, dry>>

State(k) == [k |-> k, kv |-> [x \in {} |-> ""]]
Air == State("air")
At(W, c) == IF c \in DOMAIN W THEN W[c] ELSE Air
Inside(b, c) == \A i \in 1 .. 3 : c[i] \in b[i] .. b[i + 3]

Has(s, p, v) == p \in DOMAIN s.kv /\ s.kv[p] = v

\* fluid_kind, and the property of a block that can hold water.
Loggable(s) == "waterlogged" \in DOMAIN s.kv
Logged(s) == Has(s, "waterlogged", "true")
Fluid(s) == CASE s.k \in {"water", "kelp"} \/ Logged(s) -> "water" [] s.k = "lava" -> "lava"
              [] s.k = "flow" -> "flowing" [] OTHER -> "none"
Source == {"water", "lava"}
WithWater(s) == [s EXCEPT !.kv["waterlogged"] = "true"]

-----------------------------------------------------------------------------
(* Writes.  [world, recs, ticks, marks] is what they change. *)
Here == [world |-> world, recs |-> recs, ticks |-> ticks, marks |-> marks]
Becomes(e) == world' = e.world /\ recs' = e.recs /\ ticks' = e.ticks /\ marks' = e.marks

\* hc_feat_set_block: one chunk about the centre; with quiet, hc_feat_set_block_ks.
Writable(c) == /\ c[1] \div ChunkWidth - centre[1] \in -1 .. 1
               /\ c[3] \div ChunkWidth - centre[2] \in -1 .. 1
               /\ c[2] \in MinY .. MaxY
Marked(c, s, quiet) == CASE quiet -> {} [] s.k = "magma" -> {Plus(c, Step[2])} [] s.k = "mushroom" -> {c} [] OTHER -> {}
Write(e, c, s, quiet) ==
  IF Writable(c)
  THEN [e EXCEPT !.world = [x \in DOMAIN @ \cup {c} |-> IF x = c THEN s ELSE @[x]], !.marks = @ \cup Marked(c, s, quiet)]
  ELSE e

\* hc_be_remove and hc_be_record: of one position the last record lives.
Without(rs, c) == SelectSeq(rs, LAMBDA r : r.at # c)
Record(e, c, kind, s, loot) ==
  [e EXCEPT !.recs = Append(Without(@, c), [at |-> c, kind |-> kind, k |-> s.k, loot |-> loot])]

\* Mutant of Set: what was recorded stays.
SetOnly(e, c, s, quiet) == Write(e, c, s, quiet)

\* tpl_set
Set(e, c, s, quiet) ==
  LET f == Write(e, c, s, quiet)
  IN IF Writable(c) /\ s.k \notin Entities THEN [f EXCEPT !.recs = Without(@, c)] ELSE f

\* A block that holds water is filled, and the water will flow.
FillUp(e, c) == LET f == Set(e, c, WithWater(At(e.world, c)), FALSE)
                IN [f EXCEPT !.ticks = @ \cup {<<c, "water">>}]

-----------------------------------------------------------------------------
(* What becomes of the states of a template that is turned                *)
(* (core/src/structures.c); of its positions, Transform of Faces.         *)

\* rot_steps: quarters of a turn, clockwise.
Rotations == 0 .. 3
Mirrors == {"none", "left_right", "front_back"}

Compass == {"north", "east", "south", "west"}
Next90 == [north |-> "east", east |-> "south", south |-> "west", west |-> "north"]
Before90 == [north |-> "west", east |-> "north", south |-> "east", west |-> "south"]

\* rot_facing: up and down stay.
RotFacing(v, r) ==
  CASE v \notin Compass \/ r = 0 -> v
    [] r = 1 -> Next90[v]
    [] r = 2 -> Next90[Next90[v]]
    [] r = 3 -> Before90[v]

\* The two sides a mirror exchanges.
Sides(m) == IF m = "left_right" THEN <<"north", "south">> ELSE <<"east", "west">>
Exchanged(v, m) ==
  LET a == Sides(m)[1]  b == Sides(m)[2]
  IN CASE v = a -> b [] v = b -> a [] OTHER -> v

\* Of a property named after a side, the value goes to the side it is turned to.
StateRotate(s, r) ==
  LET source(k) == IF k \in Compass THEN RotFacing(k, (4 - r) % 4) ELSE k
      turned(k, v) ==
        CASE k = "facing" -> RotFacing(v, r)
          [] k = "axis" /\ r % 2 = 1 /\ v = "x" -> "z"
          [] k = "axis" /\ r % 2 = 1 /\ v = "z" -> "x"
          [] k = "shape" /\ r % 2 = 1 /\ v = "north_south" -> "east_west"
          [] k = "shape" /\ r % 2 = 1 /\ v = "east_west" -> "north_south"
          [] OTHER -> v
  IN IF r = 0 THEN s ELSE [s EXCEPT !.kv = [k \in DOMAIN s.kv |-> turned(k, s.kv[source(k)])]]

\* Stairs change hands; the shape of a rail has no hand.
OtherHand(v) ==
  CASE v = "inner_left" -> "inner_right" [] v = "inner_right" -> "inner_left"
    [] v = "outer_left" -> "outer_right" [] v = "outer_right" -> "outer_left"
    [] OTHER -> v

StateMirror(s, m) ==
  LET both == Sides(m)[1] \in DOMAIN s.kv /\ Sides(m)[2] \in DOMAIN s.kv
      source(k) == IF both THEN Exchanged(k, m) ELSE k
      turned(k, v) == CASE k = "facing" -> Exchanged(v, m) [] k = "shape" -> OtherHand(v) [] OTHER -> v
  IN IF m = "none" THEN s ELSE [s EXCEPT !.kv = [k \in DOMAIN s.kv |-> turned(k, s.kv[source(k)])]]

\* What the code gives up on: an orientation to rotate, a hinge to mirror.
CannotTurn(s, m, r) == (r # 0 /\ "orientation" \in DOMAIN s.kv) \/ (m # "none" /\ "hinge" \in DOMAIN s.kv)

\* Mutant of Turned: rotated before it is mirrored.
TurnedBackwards(s, m, r) == StateMirror(StateRotate(s, r), m)

\* The order of place_in_world: mirrored, then rotated.
Turned(s, m, r) == StateRotate(StateMirror(s, m), r)

\* The step to a side.
SideStep == [north |-> <<0, 0, -1>>, east |-> <<1, 0, 0>>, south |-> <<0, 0, 1>>, west |-> <<-1, 0, 0>>]

-----------------------------------------------------------------------------
(* Where the piece is. *)
Pivot == CASE scene.kind = "shipwreck" -> <<4, 15>>
           [] scene.kind = "portal" -> <<scene.size[1] \div 2, scene.size[3] \div 2>>
           [] OTHER -> <<0, 0>>
Moved(p, q) == Plus(q, p)
Image(p) == Moved(Transform(p, scene.mirror, scene.rotation, Pivot), scene.at)

Least(a, b) == IF a < b THEN a ELSE b
Most(a, b) == IF a < b THEN b ELSE a

\* template_bb, bb_center
TemplateBox == LET p == Image(<<0, 0, 0>>)  q == Image([i \in 1 .. 3 |-> scene.size[i] - 1])
               IN [i \in 1 .. 6 |-> IF i <= 3 THEN Least(p[i], q[i]) ELSE Most(p[i - 3], q[i - 3])]
Centre(b) == [i \in 1 .. 3 |-> b[i] + (b[i + 3] - b[i] + 1) \div 2]

\* The writable box of a chunk, and the box of both.
ChunkBox(c) == <<ChunkWidth * c[1], MinY + 1, ChunkWidth * c[2],
                 ChunkWidth * c[1] + ChunkWidth - 1, MaxY, ChunkWidth * c[2] + ChunkWidth - 1>>
Encapsulated(a, b) == [i \in 1 .. 6 |-> IF i <= 3 THEN Least(a[i], b[i]) ELSE Most(a[i], b[i])]

-----------------------------------------------------------------------------
(* Processors. *)
LuckAt(c) == IF c \in DOMAIN scene.luck THEN scene.luck[c] ELSE 0
Blank(s) == s.k \in {"air", "structure_block"}

\* portal_rules, age_process
Ruled(s, c) == CASE s.k = "gold_block" /\ LuckAt(c) = 1 -> Air
                 [] s.k = "lava" -> State("magma")
                 [] s.k = "netherrack" /\ LuckAt(c) = 1 -> State("magma")
                 [] OTHER -> s
Aged(s, c) == CASE s.k = "stone_bricks" /\ LuckAt(c) = 1 -> State("mossy_bricks")
                [] s.k = "stone_bricks" /\ LuckAt(c) = 2 ->
                     [k |-> "brick_stairs", kv |-> [facing |-> "west", shape |-> "straight", waterlogged |-> "false"]]
                [] s.k = "slab" /\ LuckAt(c) = 1 -> [s EXCEPT !.k = "mossy_slab"]
                [] s.k = "obsidian" /\ LuckAt(c) = 1 -> State("crying_obsidian")
                [] OTHER -> s
CannotAge(s) == s.k \in {"stairs", "wall"}

\* copper_rules
Oxidized(s, c) == IF s.k = "bulb" /\ LuckAt(c) > 0 THEN [State("oxidized_bulb") EXCEPT !.kv = [lit |-> "true"]] ELSE s

\* resolve_final_state: what is not given is the default.
Final(f) == IF f.k \notin DOMAIN Default THEN f
            ELSE [f EXCEPT !.kv = [x \in DOMAIN Default[f.k] |-> IF x \in DOMAIN f.kv THEN f.kv[x] ELSE Default[f.k][x]]]

\* chain_process: the block that comes out, or none.
Protects(b) == At(world, b.at).k \in CannotReplace
Jigsaw(b) == IF b.s.k # "jigsaw" \/ ~b.nbt THEN b ELSE [b EXCEPT !.s = Final(b.says), !.nbt = FALSE]
Out(b) ==
  LET portal == LET s == Aged(Ruled(b.s, b.at), b.at)
                    sunk == At(world, b.at).k = "lava" /\ s.k \notin Full
                IN [b EXCEPT !.s = IF sunk THEN State("lava") ELSE s, !.nbt = @ /\ ~sunk]
      copper == LET j == Jigsaw(b) IN [j EXCEPT !.s = Oxidized(@, b.at)]
      lost == CASE scene.procs = "shipwreck" -> Blank(b.s)
                [] scene.procs = "ruin" -> LuckAt(b.at) = 1 \/ Blank(b.s)
                [] scene.procs = "portal" -> Blank(b.s) \/ Protects(b)
                [] OTHER -> \/ b.s.k = "structure_block"
                            \/ b.s.k = "jigsaw" /\ b.nbt /\ b.says.k = "structure_void"
                            \/ scene.procs = "copper" /\ Protects(b)
  IN IF lost THEN <<>>
     ELSE CASE scene.procs = "portal" -> <<portal>> [] scene.procs = "jigsaw" -> <<Jigsaw(b)>>
            [] scene.procs = "copper" -> <<copper>> [] OTHER -> <<b>>

\* capped_finalize: the first sands of a shuffled list that depends on the piece alone.
Capped(bs) ==
  LET sands == SelectSeq(scene.sand[Len(bs)], LAMBDA i : bs[i].s.k = "sand")
      chosen == {sands[k] : k \in 1 .. Least(Len(sands), Least(SandCap, Len(bs)))}
  IN [i \in DOMAIN bs |-> IF i \in chosen
        THEN [bs[i] EXCEPT !.s = State("suspicious_sand"), !.loot = "ocean_ruin_warm", !.nbt = FALSE] ELSE bs[i]]

\* Mutant of Whole: every piece is processed chunk by chunk.
WholeNever == FALSE
Whole == scene.procs = "ruin"

\* build_processed
Images == [i \in DOMAIN scene.blocks |-> [scene.blocks[i] EXCEPT !.at = Image(@)]]
Processed(within) ==
  LET in == SelectSeq(Images, LAMBDA b : Whole \/ Inside(within, b.at))
      out == FlattenSeq([i \in DOMAIN in |-> Out(in[i])])
  IN IF scene.procs = "ruin" THEN Capped(out) ELSE out

\* What ends the process: stairs to age, a block nobody knows.
Fatal(within) ==
  \E b \in ToSet(Images) : Inside(within, b.at) /\
    \/ scene.procs = "portal" /\ ~Blank(b.s) /\ CannotAge(Ruled(b.s, b.at))
    \/ scene.kind = "jigsaw" /\ b.s.k = "jigsaw" /\ b.nbt /\ Final(b.says).k \in Unlisted

-----------------------------------------------------------------------------
Init ==
  /\ scene \in Piece
  /\ world = scene.world /\ recs = scene.recs /\ ticks = {} /\ marks = {} /\ died = FALSE
  /\ left = Place /\ adjusted = FALSE
  /\ centre = <<0, 0>> /\ phase = "out" /\ box = <<>>
  /\ todo = <<>> /\ placed = <<>> /\ locked = {} /\ dry = <<>>

Quiet == scene.kind = "jigsaw"
Floods == scene.kind = "jigsaw" => ~scene.ignores

\* hc_splace_template and place_in_world up to the blocks.
Enter(c, within) ==
  /\ centre' = c /\ left' = left \ {c} /\ box' = within
  /\ locked' = {} /\ dry' = <<>>
  /\ IF Fatal(within) \/ (scene.kind # "jigsaw" /\ TemplateBox # scene.bb)
     THEN died' = TRUE /\ UNCHANGED <<phase, todo>>
     ELSE /\ phase' = "blocks" /\ UNCHANGED died
          /\ todo' = SelectSeq(Processed(within), LAMBDA b : Inside(within, b.at))
  /\ UNCHANGED <<scene, world, recs, ticks, marks, placed>>
Perish(c) == /\ died' = TRUE /\ left' = left \ {c}
             /\ UNCHANGED <<scene, world, recs, ticks, marks, centre, phase, box, todo, placed, locked, dry>>

Enters(c) == phase = "out" /\ ~died /\ c \in left
Columns(x0, x1, z0, z1) == (x0 .. x1) \X (z0 .. z1)

\* shipwreck_post: the height is worked out once, by whichever chunk is first, and
\* must be what was given.
Heights == LET q == scene.at  s == scene.size
           IN [col \in Columns(q[1], q[1] + s[1] - 1, q[3], q[3] + s[3] - 1) |-> scene.floor[col]]
Quotient(a, n) == IF a < 0 THEN 0 - ((0 - a) \div n) ELSE a \div n
TooBig == scene.size[1] > Huge \/ scene.size[2] > Huge
Shipwreck(c) ==
  /\ Enters(c) /\ scene.kind = "shipwreck"
  /\ LET hs == Heights
         low == CHOOSE h \in {hs[col] : col \in DOMAIN hs} : \A col \in DOMAIN hs : h <= hs[col]
         mean == Quotient(FoldFunction(+, 0, hs), Cardinality(DOMAIN hs))
     IN \E j \in 0 .. 2 :
          LET y == IF scene.beached THEN low - scene.size[2] \div 2 - j ELSE mean
          IN IF ~adjusted /\ ~TooBig /\ y # scene.at[2] THEN Perish(c) ELSE Enter(c, ChunkBox(c))
  /\ adjusted' = (adjusted \/ ~TooBig)

\* ruin_post: every chunk works the height out anew, over blocks that other chunks
\* may have placed.
Passable(s) == s.k \in {"air", "cave_air", "ice"} \/ Fluid(s) \in {"water", "flowing"}
FloorAt(col, y) ==
  IF y <= MinY + 1 THEN y
  ELSE CHOOSE f \in MinY + 1 .. y :
         /\ f = MinY + 1 \/ ~Passable(At(world, <<col[1], f, col[2]>>))
         /\ \A g \in f + 1 .. y : Passable(At(world, <<col[1], g, col[2]>>))
RuinHeight ==
  LET q == scene.at
      far == Moved(Transform(<<scene.size[1] - 1, 0, scene.size[3] - 1>>, "none", scene.rotation, <<0, 0>>), q)
      anchor == scene.floor[<<q[1], q[3]>>]
      cols == Columns(Least(q[1], far[1]), Most(q[1], far[1]), Least(q[3], far[3]), Most(q[3], far[3]))
      floor == [col \in cols |-> FloorAt(col, anchor - 1)]
      lowest == CHOOSE f \in {floor[col] : col \in cols} : \A col \in cols : f <= floor[col]
      hollow == Cardinality({col \in cols : floor[col] < anchor - 3})
      width == Most(q[1], far[1]) - Least(q[1], far[1])
  IN IF anchor - 1 - lowest > 2 /\ hollow > width - 2 THEN lowest + 1 ELSE anchor
Ruin(c) ==
  /\ Enters(c) /\ scene.kind = "ruin"
  /\ IF RuinHeight # scene.at[2] THEN Perish(c) ELSE Enter(c, ChunkBox(c))
  /\ UNCHANGED adjusted

\* portal_post: the chunk of its centre places all of it.
Portal(c) ==
  /\ Enters(c) /\ scene.kind = "portal"
  /\ CASE scene.unusual \/ scene.rotation # 0 \/ scene.mirror # "none" -> Perish(c)
       [] Inside(ChunkBox(c), Centre(TemplateBox)) -> Enter(c, Encapsulated(ChunkBox(c), TemplateBox))
       [] OTHER -> /\ left' = left \ {c}
                   /\ UNCHANGED <<scene, world, recs, ticks, marks, died, centre, phase, box, todo, placed, locked, dry>>
  /\ UNCHANGED adjusted

JigsawPiece(c) == /\ Enters(c) /\ scene.kind = "jigsaw" /\ Enter(c, ChunkBox(c))
                  /\ UNCHANGED adjusted

-----------------------------------------------------------------------------
(* place_in_world *)
Put ==
  /\ phase = "blocks" /\ todo # <<>> /\ ~died
  /\ LET b == Head(todo)
         c == b.at
         before == Fluid(At(world, c))
         s == Turned(b.s, scene.mirror, scene.rotation)
         named == b.nbt \/ b.loot # ""
         bare == IF named THEN Set(Here, c, State("barrier"), TRUE) ELSE Here
         put == Set(bare, c, s, Quiet)
         noted == CASE s.k \notin Entities -> put
                    [] named -> Record(put, c, "template", s, IF b.loot # "" THEN b.loot
                                                              ELSE IF s.k \in Containers THEN "seeded" ELSE "")
                    [] OTHER -> Record(put, c, "dummy", s, "")
         holds == Floods /\ Fluid(s) \notin Source /\ Loggable(s)
     IN IF CannotTurn(b.s, scene.mirror, scene.rotation) \/ s.k \in Unlisted
        THEN died' = TRUE /\ UNCHANGED <<world, recs, ticks, marks, placed, locked, dry>>
        ELSE IF ~Writable(c) THEN UNCHANGED <<world, recs, ticks, marks, died, placed, locked, dry>>
        ELSE /\ Becomes(IF holds /\ before = "water" THEN FillUp(noted, c) ELSE noted)
             /\ placed' = Append(placed, [by |-> centre, at |-> c])
             /\ locked' = IF Floods /\ Fluid(s) \in Source THEN locked \cup {c} ELSE locked
             /\ dry' = IF holds /\ before \notin Source THEN Append(dry, c) ELSE dry
             /\ UNCHANGED died
  /\ todo' = Tail(todo)
  /\ UNCHANGED <<scene, left, adjusted, centre, phase, box>>

BlocksDone == /\ phase = "blocks" /\ todo = <<>> /\ ~died /\ phase' = "flood"
              /\ UNCHANGED <<scene, world, recs, ticks, marks, died, left, adjusted, centre, box, todo, placed, locked, dry>>

\* What fills the block at c: the fluid in it, or the first source above or beside it
\* that the piece did not bring.
Flows == <<2, 3, 6, 4, 5>>
Feeding(W, c) ==
  LET own == Fluid(At(W, c))
      by(d) == Plus(c, Step[d])
      feeds == SelectSeq(Flows, LAMBDA d : Fluid(At(W, by(d))) \in Source /\ by(d) \notin locked)
  IN CASE own \in Source -> own [] feeds = <<>> -> "none" [] OTHER -> Fluid(At(W, by(Head(feeds))))

Visit(a, c) ==
  LET k == Feeding(a.e.world, c)
      st == At(a.e.world, c)
  IN IF k = "none" THEN [a EXCEPT !.dry = Append(@, c)]
     ELSE [a EXCEPT !.any = TRUE, !.e = IF Loggable(st) /\ ~Logged(st) /\ k = "water" THEN FillUp(@, c) ELSE @]

\* Mutant of Again: water is spread once.
Once(any, rest) == FALSE
Again(any, rest) == any /\ rest # <<>>

\* One round over the list; the next one sees what it filled.
Flood ==
  /\ phase = "flood"
  /\ LET a == FoldLeft(Visit, [e |-> Here, dry |-> <<>>, any |-> FALSE], dry)
     IN /\ Becomes(a.e) /\ dry' = a.dry
        /\ phase' = IF Again(a.any, a.dry) THEN "flood" ELSE "edge"
  /\ UNCHANGED <<scene, died, left, adjusted, centre, box, todo, placed, locked>>

\* What this chunk placed, in order.
Mine == LET ps == SelectSeq(placed, LAMBDA p : p.by = centre) IN [i \in DOMAIN ps |-> ps[i].at]

\* hc_featx_edge_face: only what changes is written, and no record is removed; both
\* blocks are read, and the second sees what the first became.
Change(e, c, s) == IF s = At(e.world, c) THEN e ELSE Write(e, c, s, FALSE)
FaceTold(e, f) ==
  LET c == f.cell
      n == Plus(c, Step[f.dir])
      s == At(e.world, c)
      t == At(e.world, n)
      s2 == Joined(s, f.dir, t)
      t2 == Joined(t, Opposite[f.dir], s2)
      due == {<<c, k>> : k \in EdgeTick(s, f.dir, t)} \cup {<<n, k>> : k \in EdgeTick(t, Opposite[f.dir], s2)}
  IN IF s2 = s /\ t2 = t /\ due = {} THEN e
     ELSE [Change(Change(e, c, s2), n, t2) EXCEPT !.ticks = @ \cup due]

\* tpl_fold_neighbour_shapes: west, east, north, south, down, up.
Fold == <<5, 6, 3, 4, 1, 2>>
Folded(e, c) ==
  LET near(d) == At(e.world, Plus(c, Step[d]))
      one(a, d) == [s |-> Joined(a.s, d, near(d)), ticks |-> a.ticks \cup {<<c, k>> : k \in EdgeTick(a.s, d, near(d))}]
      r == FoldLeft(one, [s |-> At(e.world, c), ticks |-> e.ticks], Fold)
      f == [e EXCEPT !.ticks = r.ticks]
  IN IF r.s = At(e.world, c) THEN f ELSE Set(f, c, r.s, TRUE)

\* The faces of the n-th pass, told one after the other.
Told(e, n) == FoldLeft(FaceTold, e, PassFaces(ToSet(Mine), ToSet(Mine), Pass[n]))
Edge ==
  /\ phase = "edge"
  /\ IF Mine = <<>> \/ scene.kind = "jigsaw" THEN Becomes(Here)
     ELSE \E x \in {Told(Here, 1)} : \E y \in {Told(x, 2)} : \E z \in {Told(y, 3)} :
               Becomes(FoldLeft(Folded, z, Mine))
  /\ phase' = IF scene.kind = "jigsaw" THEN "out" ELSE "markers"
  /\ UNCHANGED <<scene, died, left, adjusted, centre, box, todo, placed, locked, dry>>

-----------------------------------------------------------------------------
(* The markers of a template piece. *)

\* shipwreck_marker: the container below gets its loot.
Treasure(e, c, says) ==
  IF says \notin DOMAIN Loot THEN e
  ELSE [e EXCEPT !.recs = [i \in DOMAIN @ |-> IF @[i].at = Plus(c, Step[1]) /\ @[i].k \in Containers
                                              THEN [@[i] EXCEPT !.loot = Loot[says]] ELSE @[i]]]

\* ruin_marker
RuinMarker(e, c, says) ==
  LET chest == [k |-> "chest", kv |-> [facing |-> "north", waterlogged |->
                  IF Fluid(At(e.world, c)) \in {"water", "flowing"} THEN "true" ELSE "false"]]
  IN CASE says = "chest" /\ Writable(c) -> Record(Set(e, c, chest, FALSE), c, "loot", chest, "underwater_ruin")
       [] says = "drowned" -> Set(e, c, State(IF c[2] > Sea THEN "air" ELSE "water"), FALSE)
       [] OTHER -> e

\* marker_pass, of one block.
Marker(e, b) ==
  CASE b.says = "none" -> e
    [] scene.kind = "shipwreck" -> Treasure(e, b.at, b.says)
    [] scene.kind = "ruin" -> RuinMarker(e, b.at, b.says)
    [] OTHER -> e
JigsawMarker(e, b) == Set(e, b.at, Final(b.says), FALSE)

Markers ==
  /\ phase = "markers"
  /\ LET of(k) == SelectSeq(Images, LAMBDA b : b.s.k = k /\ b.nbt /\ Inside(box, b.at))
         js == of("jigsaw")
     IN IF \E b \in ToSet(js) : Final(b.says).k \in Unlisted
        THEN died' = TRUE /\ UNCHANGED <<world, recs, ticks, marks>>
        ELSE /\ Becomes(FoldLeft(JigsawMarker, FoldLeft(Marker, Here, of("structure_block")), js))
             /\ UNCHANGED died
  /\ phase' = IF scene.kind = "portal" THEN "spread" ELSE "out"
  /\ UNCHANGED <<scene, left, adjusted, centre, box, todo, placed, locked, dry>>

\* portal_can_replace, portal_place_nrm, portal_drip_column
PortalCanReplace(s) == s.k \notin {"air", "obsidian", "lava"} \cup CannotReplace
Drip(e, g, col, top, n) ==
  FoldLeft(LAMBDA f, y : Set(f, <<col[1], y, col[2]>>,
                             State(IF <<col[1], y, col[2]>> \in g.magma THEN "magma" ELSE "netherrack"), FALSE),
           e, [i \in 1 .. n + 1 |-> top - i + 1])

\* spreadNetherrack: the columns that are near enough, and one of them with what drips
\* from it.
Reached(g, col) ==
  LET m == Centre(scene.bb)
      away == (Most(col[1], m[1]) - Least(col[1], m[1])) + (Most(col[2], m[3]) - Least(col[2], m[3])) + g.adj
      y == scene.floor[col] - 1
  IN /\ away < Radius /\ (away < Sure \/ col \in g.taken)
     /\ Most(y, scene.bb[2]) - Least(y, scene.bb[2]) <= 3
Column(e, g, col) ==
  LET y == scene.floor[col] - 1
  IN IF PortalCanReplace(At(e.world, <<col[1], y, col[2]>>)) THEN Drip(e, g, col, y, 1 + g.drip[col]) ELSE e

\* addNetherrackDripColumnsBelowPortal, of one column.
Below(e, g, col) ==
  IF At(e.world, <<col[1], scene.bb[2], col[2]>>).k = "netherrack"
  THEN Drip(e, g, col, scene.bb[2] - 1, g.below[col]) ELSE e

Grid(x0, x1, z0, z1) == FlattenSeq([i \in 1 .. x1 - x0 + 1 |-> [j \in 1 .. z1 - z0 + 1 |-> <<x0 + i - 1, z0 + j - 1>>]])
Spread ==
  /\ phase = "spread"
  /\ \E g \in Luck :
       LET m == Centre(scene.bb)
           b == scene.bb
           bound == Most(1, 8 - ((b[4] - b[1] + 1 + b[6] - b[3] + 1) \div 2) \div 2)
           near == SelectSeq(Grid(m[1] - Radius, m[1] + Radius, m[3] - Radius, m[3] + Radius), LAMBDA col : Reached(g, col))
       IN /\ g.adj < bound
          /\ \E wide \in {FoldLeft(LAMBDA e, col : Column(e, g, col), Here, near)} :
               Becomes(FoldLeft(LAMBDA e, col : Below(e, g, col), wide, Grid(b[1] + 1, b[4] - 1, b[3] + 1, b[6] - 1)))
  /\ phase' = "out"
  /\ UNCHANGED <<scene, died, left, adjusted, centre, box, todo, placed, locked, dry>>

Next ==
  \/ \E c \in Place : Shipwreck(c) \/ Ruin(c) \/ Portal(c) \/ JigsawPiece(c)
  \/ Put \/ BlocksDone \/ Flood \/ Edge \/ Markers \/ Spread
Spec == Init /\ [][Next]_vars
-----------------------------------------------------------------------------
(* Properties *)
Finished == phase = "out" /\ left = {} /\ ~died

\* When all chunks have decorated, each block of the piece that came through the
\* processors was placed once, by the chunk it is in (a portal by the chunk of its
\* centre), and of the whole piece no more sand became suspicious than may, and as
\* much as may: the choice is the piece's, not each chunk's
\* (structures_template.c:659, 702).
PlacedOnce ==
  Finished =>
    LET cells == {placed[i].at : i \in DOMAIN placed}
        sand == {b.at : b \in {x \in ToSet(Images) : x.s.k = "sand" /\ LuckAt(x.at) # 1}}
        buried == {c \in cells : At(world, c).k = "suspicious_sand"}
    IN /\ Len(placed) = Cardinality(cells)
       /\ scene.kind # "portal" => \A i \in DOMAIN placed : Inside(ChunkBox(placed[i].by), placed[i].at)
       /\ scene.procs = "ruin" => Cardinality(buried) = Least(SandCap, Cardinality(sand))

\* The sides a state faces or is joined on.
SidesOf(s) == {d \in Compass : Has(s, "facing", d) \/ Has(s, d, "true")}

\* When a chunk has placed its blocks, each faces in the world what it faced in the
\* template, and is joined to what it was joined to, however the piece was mirrored
\* and turned: positions (structures.c:234) and states (structures.c:125, 179) are
\* turned by separate code.
StillFaces ==
  phase = "flood" =>
    \A b \in ToSet(scene.blocks) :
      LET c == Image(b.at)
          s == At(world, c)
      IN c \in ToSet(Mine) /\ s.k = b.s.k =>
           {Plus(c, SideStep[d]) : d \in SidesOf(s)} = {Image(Plus(b.at, SideStep[d])) : d \in SidesOf(b.s)}

\* Between two chunks the recorder has one record for every block entity that the
\* piece left, of the block that is there, and none of what was overwritten.
Recorded ==
  phase = "out" =>
    /\ \A i \in DOMAIN recs : At(world, recs[i].at).k = recs[i].k
    /\ \A i, j \in DOMAIN recs : recs[i].at = recs[j].at => i = j
    /\ \A i \in DOMAIN placed : At(world, placed[i].at).k \in Entities => \E j \in DOMAIN recs : recs[j].at = placed[i].at

\* When the water has spread, a block that can hold it and is dry has no source of
\* water or lava above or beside it but what the piece itself brought.
Soaked ==
  phase = "edge" =>
    \A i \in DOMAIN dry : \A d \in ToSet(Flows) :
      LET n == Plus(dry[i], Step[d])
      IN Fluid(At(world, n)) \in Source => n \in locked

PieceSound == PlacedOnce /\ StillFaces /\ Recorded /\ Soaked
=============================================================================
