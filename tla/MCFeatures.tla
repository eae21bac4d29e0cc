----------------------------- MODULE MCFeatures -----------------------------
(***************************************************************************)
(* What features and structures do to blocks.  The parts do not meet        *)
(* while they run: a tree is placed, then its leaves learn their distance, *)
(* then the faces about it are updated, and postprocessing comes after all *)
(* features.  A piece of a structure is placed chunk by chunk before them.  *)
(* A behaviour is one of them, named by part; the variables of the others  *)
(* stand still.                                                            *)
(***************************************************************************)
EXTENDS Integers, Sequences, FiniteSets, TLC

CONSTANTS
  Tree, Replaceable, Window, Reach, Few,
  LeafScene, Levels,
  Blocks, Setting, Tag,
  MarkScene, MarkCell, Bottom, Top, SectionHeight, MarkCap, LayerCap, StackCap, MaxSlope,
  Piece, Place, ChunkWidth, MinY, MaxY, Sea, SandCap, Loot, Default, Unlisted, Entities, Containers, Full, CannotReplace,
  Radius, Sure, Huge, Luck, Joined(_, _, _), EdgeTick(_, _, _)

VARIABLES
  part,     \* "tree", "leaves", "edge", "marks" or "piece"
  world, phase, died,
  tree, logs, leaves, deco, todo, left, free,
  scene, levels, at, filled, faces,
  ticks, done,
  marks,
  recs, adjusted, centre, box, placed, locked, dry

T == INSTANCE Trees
L == INSTANCE TreeLeaves WITH Scene <- LeafScene
E == INSTANCE EdgeShapes
P == INSTANCE Postprocess WITH Scene <- MarkScene
Q == INSTANCE Templates
R == INSTANCE Faces

vars == <<part, world, phase, died, tree, logs, leaves, deco, todo, left, free, scene, levels, at, filled,
          faces, ticks, done, marks, recs, adjusted, centre, box, placed, locked, dry>>

Idle == "idle"
NoTree == <<tree, logs, leaves, deco, left, free>>
NoLeaves == <<levels, at, filled, faces>>
NoPiece == <<recs, adjusted, centre, box, placed, locked, dry>>

IdleTree == tree = Idle /\ logs = Idle /\ leaves = Idle /\ deco = Idle /\ left = Idle /\ free = Idle
IdleLeaves == levels = Idle /\ at = Idle /\ filled = Idle /\ faces = Idle
IdlePiece == /\ recs = Idle /\ adjusted = Idle /\ centre = Idle /\ box = Idle
             /\ placed = Idle /\ locked = Idle /\ dry = Idle

Init ==
  \/ /\ part = "tree" /\ T!Init
     /\ IdleLeaves /\ IdlePiece /\ scene = Idle /\ ticks = Idle /\ done = Idle /\ marks = Idle
  \/ /\ part = "leaves" /\ L!Init
     /\ IdleTree /\ IdlePiece /\ todo = Idle /\ ticks = Idle /\ done = Idle /\ marks = Idle
  \/ /\ part = "edge" /\ E!Init
     /\ IdleTree /\ IdleLeaves /\ IdlePiece /\ todo = Idle /\ phase = Idle /\ marks = Idle
  \/ /\ part = "marks" /\ P!Init
     /\ IdleTree /\ IdleLeaves /\ IdlePiece /\ scene = Idle /\ done = Idle
  \/ /\ part = "piece" /\ Q!Init
     /\ tree = Idle /\ logs = Idle /\ leaves = Idle /\ deco = Idle /\ free = Idle
     /\ IdleLeaves /\ done = Idle

InTree == part = "tree" /\ UNCHANGED <<part, NoPiece, NoLeaves, scene, ticks, done, marks>>
InLeaves == part = "leaves" /\ UNCHANGED <<part, NoPiece, NoTree, todo, ticks, done, marks>>
InEdge == part = "edge" /\ UNCHANGED <<part, NoPiece, NoTree, NoLeaves, todo, phase, marks>>
InMarks == part = "marks" /\ UNCHANGED <<part, NoPiece, NoTree, NoLeaves, scene, done>>
InPiece == part = "piece" /\ UNCHANGED <<part, tree, logs, leaves, deco, free, NoLeaves, done>>

Search == InLeaves /\ L!Poll

Next ==
  \/ InTree /\ T!Start
  \/ InTree /\ T!Trunk
  \/ InTree /\ T!Foliage
  \/ InTree /\ T!Leafed
  \/ InTree /\ T!Decorate
  \/ InTree /\ T!Stump
  \/ InTree /\ T!StumpVines
  \/ InTree /\ T!Fall
  \/ InTree /\ T!Mushrooms
  \/ Search
  \/ InLeaves /\ L!Edge
  \/ InEdge /\ E!Face
  \/ \E c \in MarkCell : InMarks /\ P!Mark(c)
  \/ InMarks /\ P!Freeze
  \/ InMarks /\ P!Drain
  \/ \E c \in Place : InPiece /\ (Q!Shipwreck(c) \/ Q!Ruin(c) \/ Q!Portal(c) \/ Q!JigsawPiece(c))
  \/ InPiece /\ Q!Put
  \/ InPiece /\ Q!BlocksDone
  \/ InPiece /\ Q!Flood
  \/ InPiece /\ Q!Edge
  \/ InPiece /\ Q!Markers
  \/ InPiece /\ Q!Spread

Spec == Init /\ [][Next]_vars /\ WF_vars(Search)

(***************************************************************************)
(* Properties: those of the parts                                          *)
(***************************************************************************)
\* A tree keeps what it may not take, says what it took, and fits where it is; no
\* leaf it leaves behind claims to be nearer to a log than it is by more than one.
TreesSound == (part = "tree" => T!TreeSound) /\ (part = "leaves" => L!ShapeDone)

\* A piece placed chunk by chunk is placed whole and once, turned as one, with the
\* records of what it left and the water it should hold.
PieceSound == part = "piece" => Q!PieceSound

\* The search for distances ends, though it may go back to lower levels.
Settles == <>(part = "leaves" => L!Settled)

\* A face of a tree is right once it was updated, and updating it again settles.
FacesSettle == [](part = "edge" => E!FaceDone) /\ [][part = "edge" => E!Settling]_vars

\* The updates of a write are those of the recursion, and none gets stuck.
UpdatesSound == part = "marks" => P!UpdatesSound

\* No liquid is forgotten: after the mark of a liquid has been drained, every
\* liquid that changed or lies beside a change has a tick of its own kind.
TickOwed == [][part = "marks" => P!OwesTicks]_vars

(***************************************************************************)
(* Trees                                                                   *)
(***************************************************************************)
Bare == [c \in {} |-> "air"]
BaseTree == [trunk |-> "straight", foliage |-> "blob", base |-> 2, more |-> 1, limit |-> 1, lower |-> 0,
         upper |-> 1, minClipped |-> -1, ignoreVines |-> TRUE, radius |-> 2, height |-> 2, offset |-> 0,
         attempts |-> 2, minLeaves |-> 1, bend |-> 1 .. 2, len |-> {4}, keepSoil |-> {"dirt"},
         deco |-> <<>>, world |-> Bare]

\* A pool and a wall beside the trunk; a roof above it; another tree's log and vine.
Pool == <<1, 2, 0>> :> "water" @@ <<-1, 1, 0>> :> "stone" @@ <<0, -1, 0>> :> "stone"
Roof == <<0, 4, 1>> :> "stone" @@ <<0, -1, 0>> :> "dirt"
Wood == <<0, 1, 0>> :> "log" @@ <<1, 2, 1>> :> "vine" @@ <<-1, 3, 0>> :> "leaves" @@ <<1, 0, 0>> :> "stone"
Flood == [c \in (-1 .. 2) \X {3} \X {0, 1} |-> "water"]
Gully == [c \in {<<3, -1, 0>>, <<4, -1, 0>>, <<0, -1, -3>>, <<0, -1, -4>>, <<0, -1, -5>>} |-> "air"]
         @@ <<0, 0, 3>> :> "stone" @@ <<-3, -1, 0>> :> "air" @@ <<-3, -2, 0>> :> "air"

Oak == {[BaseTree EXCEPT !.world = W, !.deco = D, !.minClipped = m] :
          W \in {Bare, Pool, Roof, Wood}, D \in {<<"cocoa", "trunkvine">>, <<"litter", "beehive">>}, m \in {-1, 1}}
Bush == {[BaseTree EXCEPT !.foliage = "bush", !.base = 1, !.more = 0, !.world = W, !.height = 1, !.ignoreVines = FALSE] :
           W \in {Pool, Flood, Wood}}
Jungle == {[BaseTree EXCEPT !.trunk = "megajungle", !.foliage = "megajungle", !.base = 7, !.more = 2, !.radius = 1,
                        !.height = 1, !.world = W, !.deco = <<"leavevine">>] : W \in {Bare, Wood}}
FancyOak == {[BaseTree EXCEPT !.trunk = "fancy", !.foliage = "fancy", !.base = 5, !.more = 2, !.world = W,
                          !.minClipped = 4, !.radius = 1] : W \in {Bare, Wood, Flood, <<0, 8, 0>> :> "stone"}}
Acacia == {[BaseTree EXCEPT !.trunk = "forking", !.foliage = "acacia", !.base = 4, !.more = 1, !.height = 0,
                        !.world = W, !.radius = 1] : W \in {Bare, Wood}}
Azalea == {[BaseTree EXCEPT !.trunk = "bending", !.foliage = "spread", !.base = 3, !.more = 1, !.height = 2, !.radius = 1,
                        !.world = W, !.bend = {1}, !.keepSoil = {}] : W \in {Bare, Wood}}
FallenLog == {[BaseTree EXCEPT !.trunk = "fallen", !.len = 4 .. 6, !.world = W] : W \in {Bare, Gully, Pool}}

MCTree == Oak \cup Bush \cup Jungle \cup FancyOak \cup Acacia \cup Azalea \cup FallenLog
MCWindow == (-6 .. 1) \X (-6 .. 6)
MCReach == {<<0, 0>>, <<2, 0>>, <<0, -1>>}

(***************************************************************************)
(* What trees left                                                         *)
(***************************************************************************)
\* As in TreeLeaves: other blocks, logs.
o == -1
l == 0
Rows(s) == [c \in {<<x, y, 0>> : x \in 0 .. 4, y \in 0 .. 2} |-> s[3 - c[2]][c[1] + 1]]
Where(W, bs) == {c \in DOMAIN W : W[c] \in bs}
Left(W, foreign, hung, window) ==
  [world |-> W, logs |-> Where(W, {l}) \ foreign, leaves |-> Where(W, {4}) \ foreign,
   deco |-> hung, roots |-> {}, window |-> window]

\* One trunk under a crown that is longer than the distances reach.
Crown == Rows(<<<<4, 4, 4, 4, 4>>, <<o, o, l, o, 4>>, <<o, o, l, o, 4>>>>)
\* A crown that touches another tree: its leaves and its log are in the box.
Grove == Rows(<<<<4, 4, 2, 3, o>>, <<o, l, o, 4, 1>>, <<4, 4, 4, o, l>>>>)
\* Two trunks, and leaves that hold what another tree left.
Twins == Rows(<<<<4, 3, 4, 2, 4>>, <<l, 4, o, 4, l>>, <<o, 4, 4, 4, o>>>>)

\* Every small wall of logs, leaves of this tree (4) and of another one (1),
\* with a decoration on one cell of it or none.
Wall == {W \in [{<<x, y, 0>> : x \in 0 .. 2, y \in 0 .. 1} -> {o, l, 1, 4}] :
           W[<<0, 0, 0>>] = l /\ W[<<2, 0, 0>>] = 4}
Corner == {<<2, 1, 0>>}

\* A branch away from a trunk along any axis, with leaves along one side of it and at
\* the end of another, where another tree, its leaves or nothing come before.
Branch(d, mine, theirs, s) ==
  LET far(n) == [a \in 1 .. 3 |-> n * R!Step[d][a]]
      beside(n, e) == R!Plus(far(n), R!Step[e])
      others == [n \in DOMAIN s |-> beside(n, theirs)]
      there == [c \in {others[n] : n \in DOMAIN s} |-> s[CHOOSE n \in DOMAIN s : others[n] = c]]
               @@ <<0, 0, 0>> :> l
               @@ [c \in {far(n) : n \in 1 .. 4} \cup {beside(n, mine) : n \in 2 .. 4} \cup {beside(4, theirs)} |-> 4]
  IN Left(there, {others[n] : n \in DOMAIN s}, {}, DOMAIN there)
Across(d) == (1 .. 6) \ {d, R!Opposite[d]}
Branches == UNION {{Branch(d, e[1], e[2], 2 :> s[1] @@ 3 :> s[2]) :
                      e \in {e \in Across(d) \X Across(d) : e[1] # e[2]},
                      s \in {<<o, l>>, <<o, 1>>, <<1, o>>, <<1, l>>, <<l, 1>>}} : d \in {1, 4, 6}}

MCLeafScene ==
  {Left(Crown, {}, {}, DOMAIN Crown), Left(Crown, {}, {<<1, 2, 0>>}, DOMAIN Crown),
   Left(Crown, {<<2, 0, 0>>}, {}, DOMAIN Crown \ {<<4, 2, 0>>}),
   Left(Grove, {<<4, 0, 0>>}, {}, DOMAIN Grove), Left(Twins, {}, {}, DOMAIN Twins),
   Left(Twins, {<<4, 1, 0>>}, {<<2, 0, 0>>}, DOMAIN Twins)}
  \cup {Left(W, {}, {}, DOMAIN W) : W \in Wall}
  \cup {Left(W, Corner, Corner, DOMAIN W \ {<<1, 1, 0>>}) : W \in {W \in Wall : W[<<2, 1, 0>>] = 4}}
  \cup Branches

(***************************************************************************)
(* The two sides of a face                                                 *)
(***************************************************************************)
MCTag == [vegetation |-> {"dirt"}, azalea |-> {"dirt", "clay"}, smalldripleaf |-> {"clay"},
          bigdripleaf |-> {"clay", "dirt"}, cocoa |-> {"log"}, mushroom |-> {"dirt"}]

\* A state as in EdgeShapes.
State(k) == [k |-> k, up |-> FALSE, f |-> 2, v |-> "", on |-> {}, n |-> 0, wet |-> FALSE]
Half(b) == {b, [b EXCEPT !.up = TRUE]}
Turn(b, ds) == {[b EXCEPT !.f = d] : d \in ds}
Variant(b, vs) == {[b EXCEPT !.v = x] : x \in vs}
Soaked(B) == B \cup {[b EXCEPT !.wet = TRUE] : b \in B}
Number(b, ns) == {[b EXCEPT !.n = n] : n \in ns}

Plainly == {State(k) : k \in {"air", "stone", "log", "dirt", "clay", "magma", "sand", "water", "flow", "lava",
                            "plant", "azalea", "carpet", "spore", "mushroom", "seagrass", "kelp",
                            "kelpplant", "cavevines", "cavevinesplant", "bigdripleaf", "stem"}}
Halves == UNION {Half(State(k)) : k \in {"tallgrass", "smalldripleaf", "tallseagrass", "door"}}
Hung == {[State("vine") EXCEPT !.on = {d}] : d \in {1, 2, 5}}
        \cup Soaked({[State("lichen") EXCEPT !.on = S] : S \in {{0}, {4}, {1, 4}}})
        \cup Turn(State("cocoa"), {4, 5})
Built == UNION {Variant(b, {"straight", "inner_left"}) : b \in Turn(State("stairs"), 2 .. 5)}
         \cup Half([State("stairs") EXCEPT !.v = "outer_right", !.wet = TRUE])
         \cup Soaked({[State("fence") EXCEPT !.on = S] : S \in {{}, {3, 5}}})
         \cup UNION {Variant(b, {"single", "left", "right"}) : b \in Turn(State("chest"), {2, 4})}
         \cup {[State("trappedchest") EXCEPT !.v = "single"]}
         \cup Variant(State("slab"), {"bottom", "top", "double"})
         \cup Variant(State("trapdoor"), {"open", "closed"})
Grown == Number(State("bamboo"), {0, 1}) \cup Soaked(Number(State("leaves"), {1, 4}))
MCBlocks == Plainly \cup Halves \cup Hung \cup Built \cup Grown

\* The same block everywhere else, or with one of its own below, above or
\* beside the first.
None == [c \in {} |-> State("air")]
In(r, third) == [around |-> r, third |-> third, dark |-> r.k # "dirt", shut |-> FALSE]
Stair(f, u) == [State("stairs") EXCEPT !.f = f, !.up = u, !.v = "straight"]
MCSetting == {In(State("air"), None), In(State("dirt"), None), In(Stair(5, FALSE), None),
              In(State("air"), <<0, -1, 0>> :> State("clay") @@ <<0, 1, 0>> :> State("kelp")),
              In(State("cavevines"), <<0, 0, -1>> :> Stair(2, FALSE)),
              [In(State("water"), None) EXCEPT !.shut = TRUE]}

(***************************************************************************)
(* Marked blocks                                                           *)
(***************************************************************************)
\* A block as in Postprocess.
Cube(k) == [k |-> k, lvl |-> 0, dirs |-> {}, wet |-> FALSE]
Air == Cube("air")
Water == Cube("water")
Flow(n) == [Cube("flow") EXCEPT !.lvl = n]
Patch == (0 .. 3) \X (0 .. 2) \X (0 .. 2)
Lvl(k, n) == [Cube(k) EXCEPT !.lvl = n]
Facing(k, ds) == [Cube(k) EXCEPT !.dirs = ds]
Wet(b) == [b EXCEPT !.wet = TRUE]
Soil == Cube("soil")
Weed == Cube("plant")

\* A floor of soil under air, with some cells given.
Field(f) == [c \in Patch |-> IF c \in DOMAIN f THEN f[c] ELSE IF c[2] = 0 THEN Soil ELSE Air]

\* A source beside two holes, among things that water washes away.
Holes == Field(<<1, 1, 1>> :> Water @@ <<2, 1, 1>> :> Weed @@ <<3, 0, 1>> :> Air
               @@ <<1, 0, 0>> :> Air @@ <<0, 1, 1>> :> Cube("sand") @@ <<1, 1, 2>> :> Cube("cane"))
\* Plants that stand on each other over water.
Growth == Field(<<1, 0, 1>> :> Water @@ <<1, 1, 1>> :> Weed @@ <<1, 2, 1>> :> Weed
               @@ <<0, 1, 1>> :> Flow(8) @@ <<0, 2, 1>> :> Water @@ <<2, 2, 1>> :> Flow(1)
               @@ <<2, 1, 1>> :> Flow(8) @@ <<1, 1, 0>> :> Cube("grass") @@ <<1, 0, 0>> :> Cube("sand"))
\* Flows between two sources, above a floor and above a hole.
Meeting == Field(<<0, 1, 1>> :> Water @@ <<1, 1, 1>> :> Flow(1) @@ <<2, 1, 1>> :> Water
                 @@ <<3, 1, 1>> :> Flow(7) @@ <<1, 1, 0>> :> Flow(3) @@ <<3, 1, 2>> :> Flow(5)
                 @@ <<3, 0, 0>> :> Air)
\* Things that grow in water, some without the support they need.
Pond == Field(<<0, 1, 0>> :> Cube("seagrass") @@ <<0, 0, 0>> :> Air
              @@ <<1, 1, 0>> :> Lvl("tallseagrass", 0) @@ <<1, 2, 0>> :> Lvl("tallseagrass", 1)
              @@ <<1, 0, 0>> :> Cube("magma") @@ <<2, 1, 0>> :> Cube("kelpplant")
              @@ <<2, 2, 0>> :> Cube("kelp") @@ <<3, 1, 0>> :> Cube("kelp")
              @@ <<3, 0, 0>> :> Water @@ <<1, 1, 1>> :> Water)
\* A column of water over magma, and bubbles with nothing below.
Column == Field(<<1, 0, 1>> :> Cube("magma") @@ <<1, 1, 1>> :> Water @@ <<1, 2, 1>> :> Water
                @@ <<2, 1, 1>> :> Water @@ <<2, 2, 1>> :> Cube("bubble")
                @@ <<3, 1, 1>> :> Water @@ <<3, 2, 1>> :> Lvl("bubble", 1) @@ <<0, 1, 1>> :> Flow(1))
\* Blocks that hang on others, around a source.
Hanging == Field(<<1, 1, 1>> :> Water @@ <<0, 1, 1>> :> Wet(Facing("lichen", {"W", "U"}))
                 @@ <<1, 1, 0>> :> Facing("lichen", {"U"}) @@ <<1, 1, 2>> :> Facing("torch", {"S"})
                 @@ <<2, 1, 1>> :> Cube("dripleaf") @@ <<2, 0, 1>> :> Cube("stem")
                 @@ <<2, 1, 2>> :> Facing("torch", {"E"}) @@ <<1, 2, 1>> :> Cube("cavevinesplant")
                 @@ <<3, 2, 1>> :> Cube("cavevines") @@ <<0, 2, 0>> :> Cube("vine"))
\* A mine: fences, a spawner, a chest, and water that meets one of them.
Mine == Field(<<0, 1, 1>> :> Facing("fence", {"E"}) @@ <<1, 1, 1>> :> Facing("fence", {})
              @@ <<2, 1, 1>> :> Cube("spawner") @@ <<1, 1, 0>> :> Cube("chest")
              @@ <<3, 1, 2>> :> Water @@ <<2, 1, 2>> :> Facing("torch", {"N"})
              @@ <<0, 1, 0>> :> Wet(Facing("fence", {"N"})) @@ <<1, 1, 2>> :> Facing("torch", {"W"}))
\* Trees at the water.
Shade == Field(<<1, 1, 1>> :> Cube("log") @@ <<2, 1, 1>> :> Lvl("leaves", 1)
               @@ <<3, 1, 1>> :> Wet(Lvl("leaves", 3)) @@ <<1, 1, 0>> :> Flow(2)
               @@ <<0, 1, 0>> :> Water @@ <<2, 2, 1>> :> Facing("lichen", {"D"}))
\* Lava shut in, lava that could go somewhere, and lava by water.
Lava == [c \in Patch |-> CASE c \in {<<0, 1, 1>>, <<2, 1, 1>>} -> Cube("lava")
                         [] c = <<2, 1, 0>> -> Weed [] c = <<3, 1, 1>> -> Flow(7) [] OTHER -> Cube("stone")]

Shore == Field(<<0, 1, 1>> :> Water @@ <<2, 1, 1>> :> Cube("lava") @@ <<3, 1, 1>> :> Cube("lava"))
\* The end of a flow.
Thin == Field(<<0, 1, 1>> :> Flow(4) @@ <<1, 1, 1>> :> Flow(6) @@ <<3, 1, 1>> :> Flow(7))

MCMarkScene == {Holes, Growth, Meeting, Pond, Column, Hanging, Mine, Shade, Lava, Shore, Thin}
MCMarkCell == {c \in Patch : \E W \in MCMarkScene : W[c] \notin {Air, Soil, Cube("stone")}} \cup {<<0, 3, 0>>}

(***************************************************************************)
(* Pieces of structures, in chunks of three columns                        *)
(***************************************************************************)
\* A state with properties; a block of a template.
Prop(k, kv) == [k |-> k, kv |-> kv]
Plain(k) == [k |-> k, kv |-> [x \in {} |-> ""]]
Block(c, s) == [at |-> c, s |-> s, nbt |-> FALSE, loot |-> "", says |-> "none"]
Told(c, s, says) == [Block(c, s) EXCEPT !.nbt = TRUE, !.says = says]

Box(xs, ys, zs, k) == [c \in xs \X ys \X zs |-> Plain(k)]

\* The corners of a template of size z are at its least image; the piece is moved so
\* that this is at to.
PivotOf(kind, size) == CASE kind = "shipwreck" -> <<4, 15>> [] kind = "portal" -> <<size[1] \div 2, size[3] \div 2>> [] OTHER -> <<0, 0>>
Located(b, to) ==
  LET far == [i \in 1 .. 3 |-> b.size[i] - 1]
      v == PivotOf(b.kind, b.size)
      p == R!Transform(<<0, 0, 0>>, b.mirror, b.rotation, v)
      q == R!Transform(far, b.mirror, b.rotation, v)
      least == [i \in 1 .. 3 |-> IF p[i] < q[i] THEN p[i] ELSE q[i]]
      most == [i \in 1 .. 3 |-> IF p[i] < q[i] THEN q[i] ELSE p[i]]
  IN [b EXCEPT !.at = [i \in 1 .. 3 |-> to[i] - least[i]],
               !.bb = [i \in 1 .. 6 |-> IF i <= 3 THEN to[i] ELSE to[i - 3] + most[i - 3] - least[i - 3]]]
ImageOf(b, p) == LET q == R!Transform(p, b.mirror, b.rotation, PivotOf(b.kind, b.size)) IN [i \in 1 .. 3 |-> q[i] + b.at[i]]

\* The shuffled list of a piece, here from the back.
Backwards == [n \in 0 .. 12 |-> [i \in 1 .. n |-> n + 1 - i]]
BasePiece == [kind |-> "shipwreck", procs |-> "shipwreck", mirror |-> "none", rotation |-> 0, at |-> <<0, 0, 0>>,
              size |-> <<1, 1, 1>>, blocks |-> <<>>, bb |-> <<>>, sand |-> Backwards, luck |-> [c \in {} |-> 0],
              ignores |-> FALSE, beached |-> FALSE, floor |-> <<>>, world |-> [c \in {} |-> Plain("air")], recs |-> <<>>,
              unusual |-> FALSE]
Dry(k, kv) == Prop(k, kv @@ "waterlogged" :> "false")
Fenced(ds) == Dry("fence", [d \in {"north", "east", "south", "west"} |-> IF d \in ds THEN "true" ELSE "false"])
Chest == Dry("chest", "facing" :> "west")
Bent == Dry("stairs", "facing" :> "east" @@ "shape" :> "inner_left")

\* What is in the world at the image of a position.
With(b, p, k) == [b EXCEPT !.world = ImageOf(b, p) :> Plain(k) @@ @]
Level(b, h) == [b EXCEPT !.floor = [col \in (b.at[1] .. b.at[1] + b.size[1] - 1) \X (b.at[3] .. b.at[3] + b.size[3] - 1) |-> h]]

\* A wreck in two chunks or three: a chest under its marker, things that hold water in a
\* row away from a source, water of its own, and an old chest where a plank goes.
Wreck == [BasePiece EXCEPT !.size = <<4, 3, 2>>, !.blocks =
  <<Block(<<0, 0, 0>>, Plain("planks")), Block(<<3, 0, 1>>, Plain("air")),
    Told(<<1, 2, 0>>, Plain("structure_block"), "map_chest"),
    Block(<<2, 1, 1>>, Bent), Block(<<2, 1, 0>>, Fenced({"east"})), Block(<<3, 1, 0>>, Fenced({"west", "north"})),
    Block(<<0, 1, 1>>, Prop("log", "axis" :> "x")), Block(<<3, 1, 1>>, Plain("water")),
    Told(<<1, 1, 0>>, Chest, "none")>>]
Aground(b) == LET c == Level(With(b, <<3, 2, 0>>, "water"), 2)
              IN [With(c, <<0, 0, 0>>, "chest") EXCEPT
                   !.recs = <<[at |-> ImageOf(c, <<0, 0, 0>>), kind |-> "loot", k |-> "chest", loot |-> "old"]>>]
Wrecks ==
  {Aground(Located([Wreck EXCEPT !.mirror = m, !.rotation = r], <<1, 2, 0>>)) :
     m \in {"none", "left_right", "front_back"}, r \in 0 .. 3}
  \cup {[Aground(Located(Wreck, <<1, 1, 1>>)) EXCEPT !.beached = TRUE]}
  \cup {Aground(Located([Wreck EXCEPT !.blocks = Append(@, Told(<<0, 2, 0>>, Prop("jigsaw", "orientation" :> "up"), f)),
                                      !.mirror = "left_right"], <<2, 2, 1>>)) : f \in {Plain("planks"), Plain("nowhere")}}
  \cup {
        Aground(Located([Wreck EXCEPT !.blocks = Append(@, Block(<<0, 2, 1>>, Prop("door", "hinge" :> "left"))),
                                      !.mirror = "left_right"], <<1, 2, 0>>)),
        [Located([Wreck EXCEPT !.size = <<4, 9, 2>>, !.rotation = 2], <<1, 3, 0>>) EXCEPT !.floor = <<>>]}

\* A ruin under water, with more sand than may become suspicious, over a flat bottom and
\* over a hollow.
Sunken == [BasePiece EXCEPT !.kind = "ruin", !.procs = "ruin", !.size = <<5, 2, 2>>, !.blocks =
  <<Block(<<0, 0, 0>>, Plain("sand")), Block(<<1, 0, 0>>, Plain("sand")), Block(<<2, 0, 1>>, Bent),
    Block(<<3, 0, 0>>, Plain("sand")), Block(<<4, 0, 1>>, Plain("sand")), Block(<<4, 0, 0>>, Plain("sand")),
    Told(<<1, 1, 1>>, Plain("structure_block"), "chest"), Told(<<4, 1, 0>>, Plain("structure_block"), "drowned")>>]
Bottoms(b, y, depth) ==
  [b EXCEPT !.world = Box(-1 .. 6, {depth}, -1 .. 5, "stone") @@ Box(-1 .. 6, depth + 1 .. y + 1, -1 .. 5, "water"),
            !.floor = <<b.at[1], b.at[3]>> :> 2]
Unlucky(b, p, n) == [b EXCEPT !.luck = ImageOf(b, p) :> n @@ @]
Ruins ==
  {Unlucky(Bottoms(Located([Sunken EXCEPT !.rotation = r], <<0, 2, 1>>), 2, 1), <<3, 0, 0>>, 1) : r \in 0 .. 3}
  \cup {Bottoms(Located(Sunken, <<0, y, 1>>), 2, -2) : y \in {-1, 2}}

\* A ruined portal, one part of it in the chunk beside its centre.
Ruined == [BasePiece EXCEPT !.kind = "portal", !.procs = "portal", !.size = <<4, 3, 3>>, !.blocks =
  <<Block(<<0, 0, 0>>, Plain("obsidian")), Block(<<1, 0, 1>>, Plain("netherrack")), Block(<<2, 0, 1>>, Plain("netherrack")),
    Block(<<3, 0, 1>>, Plain("gold_block")), Block(<<0, 1, 0>>, Plain("lava")), Block(<<1, 1, 1>>, Plain("stone_bricks")),
    Block(<<2, 1, 1>>, Plain("stone_bricks")), Block(<<3, 1, 1>>, Dry("slab", "type" :> "bottom")),
    Block(<<3, 2, 2>>, Dry("slab", "type" :> "bottom")), Told(<<0, 2, 2>>, Chest, "none"), Block(<<1, 2, 0>>, Plain("air"))>>]
Ground(b) == [b EXCEPT !.world = Box(-1 .. 6, {-1, 0, 1}, -2 .. 4, "stone") @@ Box({1, 2}, {3}, {0, 2}, "water"),
                       !.floor = [col \in (-1 .. 7) \X (-3 .. 5) |-> 2]]
Fated(b) == Unlucky(Unlucky(Unlucky(Unlucky(b, <<0, 0, 0>>, 1), <<3, 0, 1>>, 1), <<1, 1, 1>>, 2), <<3, 2, 2>>, 1)
Portals ==
  LET p == Located(Ruined, <<1, 2, 0>>)
  IN {Fated(With(With(Ground(p), <<3, 1, 1>>, "lava"), <<2, 1, 1>>, "bedrock")), Ground(p),
      Ground(Located([Ruined EXCEPT !.rotation = 1], <<1, 2, 0>>)), [Ground(p) EXCEPT !.unusual = TRUE],
      Ground(Located([Ruined EXCEPT !.blocks = Append(@, Block(<<2, 2, 2>>, Bent))], <<1, 2, 0>>))}

\* Pieces of a chamber.
Hall == [BasePiece EXCEPT !.kind = "jigsaw", !.procs = "copper", !.size = <<4, 2, 2>>, !.blocks =
  <<Told(<<0, 0, 0>>, Prop("jigsaw", "orientation" :> "up"), Plain("planks")),
    Told(<<1, 0, 0>>, Prop("jigsaw", "orientation" :> "up"), Plain("structure_void")),
    Told(<<2, 0, 0>>, Prop("jigsaw", "orientation" :> "up"), Prop("tripwire", "powered" :> "true")),
    Told(<<3, 0, 0>>, Prop("jigsaw", "orientation" :> "up"), Prop("bulb", "lit" :> "false")),
    Block(<<0, 0, 1>>, Fenced({"east"})), Block(<<1, 0, 1>>, Bent), Block(<<3, 0, 1>>, Plain("magma")),
    Told(<<2, 1, 0>>, Chest, "none"), Block(<<3, 1, 1>>, Chest)>>]
Flooded(b) == [b EXCEPT !.world = ImageOf(b, <<0, 0, 1>>) :> Plain("water") @@ ImageOf(b, <<2, 0, 1>>) :> Plain("water")
                                  @@ ImageOf(b, <<3, 1, 1>>) :> Plain("bedrock")]
Halls == {Unlucky(Flooded(Located([Hall EXCEPT !.rotation = r, !.procs = q, !.ignores = (r \in {1, 2})], <<1, 2, 0>>)), <<3, 0, 0>>, 1) :
            r \in 0 .. 3, q \in {"jigsaw", "copper"}}
         \cup {Located([Hall EXCEPT !.rotation = 1, !.blocks = Append(@, Block(<<2, 0, 1>>, Prop("jigsaw", "orientation" :> "up")))], <<1, 2, 0>>),
               Located([Hall EXCEPT !.blocks = Append(@, Told(<<2, 0, 1>>, Prop("jigsaw", "orientation" :> "up"), Plain("nowhere")))], <<1, 2, 0>>)}

MCPiece == Wrecks \cup Ruins \cup Portals \cup Halls
MCMinY == -3
MCPlace == {<<0, 0>>, <<1, 0>>, <<0, 1>>}
MCLoot == [map_chest |-> "shipwreck_map"]
MCDefault == [tripwire |-> [attached |-> "false", powered |-> "false"]]
Soils == (-3 .. 8) \X (-3 .. 6)
MCLuck == {[adj |-> 0, taken |-> {}, magma |-> {<<2, 1, 1>>, <<2, 0, 1>>, <<1, 1, 0>>},
            drip |-> [col \in Soils |-> (col[1] + 2 * col[2]) % 3], below |-> [col \in Soils |-> col[1] % 2]],
           [adj |-> 1, taken |-> (0 .. 3) \X (0 .. 2), magma |-> {<<col[1], y, col[2]>> : col \in Soils, y \in {0, 1}},
            drip |-> [col \in Soils |-> 0], below |-> [col \in Soils |-> 1]]}

\* A fence joins fences and planks beside it; what holds water lets it flow.
MCShape(s, d, t) ==
  IF s.k = "fence" /\ d > 2
  THEN [s EXCEPT !.kv[<<"", "", "north", "south", "west", "east">>[d]] = IF t.k \in {"fence", "planks"} THEN "true" ELSE "false"]
  ELSE s
MCEdgeTick(s, d, t) ==
  IF s.k = "water" \/ ("waterlogged" \in DOMAIN s.kv /\ s.kv["waterlogged"] = "true") THEN {"water"} ELSE {}
=============================================================================
