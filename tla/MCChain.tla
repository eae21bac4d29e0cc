------------------------------ MODULE MCChain ------------------------------
(***************************************************************************)
(* The chain phase of one chunk after its noise: the water of its caves,   *)
(* the surface rules, the carvers and the height maps that all of them     *)
(* keep.  Each is a function of the place for the others, so a behaviour   *)
(* is about one of them, named by part; the others stand still.            *)
(***************************************************************************)
EXTENDS Heightmaps, Sequences, TLC

VARIABLES
  part,                                               \* "maps", "aquifer", "surface" or "carvers"
  world, chunk, aq,                                   \* the aquifer
  sys, ch, ctx, run, was, latched,                    \* the surface
  cv, queue, columns, cells, mask, marks, flow,       \* the carvers
  scene, at,                                          \* the surface or the carvers
  said                                                \* the aquifer or the surface
-----------------------------------------------------------------------------
(* Aquifers: three worlds; a hash that sends eight columns to one place. *)
Magnitude(n) == IF n < 0 THEN - n ELSE n
Mix(p) == (7 * p[1] + 13 * p[2] + 5 * p[3] + p[1] * p[3]) % 101
Worlds == {"low", "high", "mixed"}
AquiferNoise(w, name, p) ==
  CASE name = "psl" -> (CASE w = "low" -> 2000 + 99 * (Mix(p) % 9) [] w = "high" -> 9000 + 99 * (Mix(p) % 9)
                          [] w = "mixed" -> 2050 + 99 * Mix(p))
    [] name = "spread" -> Mix(p) * 2 - 100
    [] name = "flood" -> (CASE w = "low" -> 3 * Mix(p) - 150 [] w = "high" -> Mix(p) [] w = "mixed" -> 60 - Mix(p))
    [] name = "barrier" -> Mix(p) - 50
    [] name = "erosion" -> Mix(p) - 40
    [] OTHER -> Mix(p)
AquiferRandom(cell, n) == IF n = 1 THEN Magnitude(cell[2]) % 2 ELSE Magnitude(cell[1 + n] * 3 + cell[2]) % 5
AquiferMinY == -64
WaterChunks == {<<-1, 2>>, <<0, 0>>}
\* The corners of the chunk, its middle, and heights from the lava to the sky.
Queries(c) == { <<16 * c[1] + o[1], y, 16 * c[2] + o[2], d>> :
                  o \in {<<0, 15>>, <<7, 8>>, <<15, 0>>}, y \in {-55, -37, -20, 10, 33, 61}, d \in {-700, 0} }
              \cup {<<16 * c[1], 10, 16 * c[2], 1>>, <<16 * c[1] + 4, 319, 16 * c[2], 0>>}
ColumnHash(key) == Magnitude(key[1] + 3 * key[2]) \div 8
-----------------------------------------------------------------------------
(* Surfaces: six rules on five chunks of 2 x 2 columns. *)
\* A name of the game.
Mc(path) == <<"minecraft", path>>

\* Noises that differ from column to column and from block to block.
SurfaceNoise(key, x, y, z) ==
  LET mix == (3 * x + 5 * z + 2 * y + x * z) % 7
  IN CASE key = Mc("surface") -> <<1, 2, 0, 1>>[2 * (x % 2) + (z % 2) + 1]
       [] key = Mc("secondary") -> (mix % 5) - 2
       [] key = Mc("psl") -> 3 + ((x + z) % 4)
       [] key = Mc("pillar") -> 1 - z
       [] key = Mc("pillartop") -> 5
       [] key = Mc("iceberg") -> 1
       [] key = Mc("icetop") -> 6
       [] key = Mc("icebottom") -> 1
       [] key = Mc("iceroll") -> mix % 3
       [] key = Mc("patch") -> mix
       [] key = Mc("fade") -> (mix * 15) % 100
       [] OTHER -> mix

BiomeAt(x, y, z) ==
  IF x = 1 THEN (IF y > 2 THEN Mc("eroded_badlands") ELSE Mc("desert"))
  ELSE IF y > 2 THEN Mc("frozen_ocean") ELSE Mc("plains")
ColdAt(b, y) == b = Mc("frozen_ocean") \/ y > 4

Gives(b) == [type |-> "block", block |-> b]
OneOf(of) == [type |-> "sequence", of |-> of]
If(c, r) == [type |-> "condition", if |-> c, then |-> r]
Not(c) == [type |-> "not", of |-> c]
Is(names) == [type |-> "biome", names |-> names]
Patch(is3d, name, lo) == [type |-> "noise", noise |-> name, is3d |-> is3d, min |-> lo, max |-> 5]
Depth(o, a, r, c) == [type |-> "depth", u |-> [offset |-> o, add |-> a, range |-> r, ceiling |-> c]]
Steeply == [type |-> "steep", u |-> 0]
Prelim == [type |-> "prelim", u |-> 0]
Hole == [type |-> "hole", u |-> 0]
Cool == [type |-> "temperature", u |-> 0]
Fade == [type |-> "gradient", u |-> [name |-> <<"fade">>, true |-> 0, false |-> 3]]
High(m, s) == [type |-> "yabove", u |-> [anchor |-> 3, mult |-> m, stone |-> s]]
Dry(o, m, s) == [type |-> "water", u |-> [offset |-> o, mult |-> m, stone |-> s]]

\* Rules: stone 1, water 2 and air 0 may all be answers.
Grass == OneOf(<<If(Steeply, OneOf(<<If(Is({<<"desert">>}), Gives(4)), If(Not(Hole), Gives(1))>>)),
               If(Depth(0, FALSE, 0, FALSE), OneOf(<<If(Dry(0, 0, FALSE), Gives(5)), If(Cool, Gives(2))>>)),
               If(Depth(0, TRUE, 2, FALSE), Gives(6)), OneOf(<<>>), OneOf(<<If(Fade, Gives(7))>>)>>)
Patches == OneOf(<<If(Patch(FALSE, <<"patch">>, 3), If(Prelim, OneOf(<<If(Patch(TRUE, <<"minecraft", "patch">>, 2), Gives(0))>>))),
                 If(Depth(1, TRUE, 0, TRUE), OneOf(<<If(Steeply, Gives(8)), If(Not(Not(Patch(TRUE, <<"patch">>, 4))), Gives(9))>>)),
                 If(Is({<<"plains">>, <<"minecraft", "eroded_badlands">>}), [type |-> "bandlands"]), If(High(1, TRUE), Gives(10))>>)
Seas == OneOf(<<If(Dry(0, 1, TRUE), OneOf(<<If(High(0, FALSE), Gives(0)), If(Prelim, Gives(5))>>)),
              If(Not(Steeply), OneOf(<<If(Cool, Gives(3)), If(Is({<<"plains">>}), Gives(2))>>)),
              OneOf(<<OneOf(<<If(Hole, Gives(4)), OneOf(<<If(Depth(0, FALSE, 3, TRUE), Gives(6))>>)>>)>>)>>)
Shave == OneOf(<<If(Not(Steeply), Gives(0)), Gives(8)>>)
ByTag == If(Is({<<"#", "is_badlands">>}), Gives(4))
Unknown == OneOf(<<Gives(5), [type |-> "noise_block"]>>)

Col(bs) == [y \in 0 .. 6 |-> IF y < Len(bs) THEN bs[y + 1] ELSE 0]
Ground == Col(<<1, 1, 1>>)
Hill == Col(<<1, 1, 1, 1, 1, 1>>)
Hollow == Col(<<1, 1, 0, 1, 1, 1>>)
Lake == Col(<<1, 1, 2, 2, 2>>)
Reef == Col(<<1, 2, 1, 1, 2>>)
Veined == Col(<<1, 9, 1, 0, 2, 1>>)
Empty == Col(<<0>>)

Four(a, b, c, d) == [xz \in (0 .. 1) \X (0 .. 1) |-> <<a, b, c, d>>[2 * xz[1] + xz[2] + 1]]
SurfaceScenes == {[json |-> j, col |-> c] :
              j \in {Grass, Patches, Seas, Shave, ByTag, Unknown},
              c \in {Four(Ground, Hill, Hollow, Lake), Four(Lake, Reef, Ground, Hill), Four(Hill, Hill, Reef, Empty),
                     Four(Hollow, Ground, Veined, Reef), Four(Lake, Empty, Veined, Ground)}}
-----------------------------------------------------------------------------
(* Carvers: two carvers in twelve worlds, and configurations with a fault. *)
Hash3(a, b, c) == (((a % 1021) * 1753 + (b % 1021) * 509 + c * 31) % 32749)
CarverRoll(seed, k, n) == (Hash3(Hash3(seed, k, 7), seed \div 8, k) \div 5) % n
CarverMinY == -8

Num(a) == [kind |-> "num", a |-> a]
Uniform(a, b) == [kind |-> "uniform", a |-> a, b |-> b]
Trapezoid(a, b, c) == [kind |-> "trapezoid", a |-> a, b |-> b, c |-> c]
Abs(a) == [kind |-> "absolute", a |-> a]
Tagged(n) == [tag |-> TRUE, of |-> n]
Named(b) == [tag |-> FALSE, of |-> b]

Cave == [type |-> "cave", probability |-> 14, debug |-> FALSE, yMin |-> [kind |-> "above_bottom", a |-> 2],
         yMax |-> Abs(2), lava |-> [kind |-> "above_bottom", a |-> 3], replaceable |-> Tagged("carve"),
         smoothness |-> 0, vertical |-> [default |-> 0, center |-> 0],
         floats |-> [yScale |-> Uniform(2, 5), horiz |-> Uniform(4, 6), vert |-> Num(4), floor |-> Uniform(-4, -2)]]
Canyon == [type |-> "canyon", probability |-> 8, debug |-> FALSE, yMin |-> Abs(1), yMax |-> Abs(-3),
           lava |-> [kind |-> "below_top", a |-> 11], replaceable |-> Tagged("carve"), smoothness |-> 3,
           vertical |-> [default |-> 1, center |-> 1],
           floats |-> [yScale |-> Num(4), horiz |-> Uniform(3, 5), rotation |-> Uniform(-1, 1),
                       thickness |-> Trapezoid(2, 8, 3), distance |-> Uniform(3, 5)]]
Tags(deep) == [carve |-> <<Tagged("base"), Named("water"), Tagged("soil")>>, base |-> <<Named("stone")>>,
               soil |-> IF deep = 0 THEN <<Named("dirt"), Named("grass")>> ELSE <<Named("dirt"), Tagged("s1")>>,
               s1 |-> <<Tagged("s2")>>, s2 |-> IF deep = 1 THEN <<Named("grass")>> ELSE <<Tagged("s3")>>, s3 |-> <<Named("grass")>>]
Bads == {[Cave EXCEPT !.probability = 17], [Cave EXCEPT !.replaceable = Tagged("no")], [Canyon EXCEPT !.smoothness = 0],
         [Canyon EXCEPT !.floats.thickness = Trapezoid(2, 4, 3)], [Cave EXCEPT !.debug = TRUE],
         [Cave EXCEPT !.floats.horiz = Uniform(4, 4)], [Cave EXCEPT !.lava = [kind |-> "none"]]}
CarverScenes ==
  { [world |-> w, c |-> c, tags |-> Tags(0), carvers |-> <<Cave, Canyon>>] : w \in 1 .. 12, c \in {<<0, 0>>, <<-1, 2>>} }
  \cup { [world |-> 1, c |-> <<0, 0>>, tags |-> Tags(d), carvers |-> <<Cave>>] : d \in {1, 2} }
  \cup { [world |-> 1, c |-> <<0, 0>>, tags |-> Tags(0), carvers |-> <<Canyon, b>>] : b \in Bads }

Mixed(p) == (p[1] * 7 + p[2] * 3 + p[3] * 5 + p[1] * p[3]) % 11
Surfaced(s, p) == LET top == (Mixed(<<p[1], 0, p[3]>>) % 3) - 1
                 IN IF p[2] > top THEN (IF p[2] < 0 THEN "water" ELSE "air")
                    ELSE IF p[2] = top THEN "grass" ELSE IF p[2] >= top - 2 THEN "dirt"
                    ELSE IF Mixed(p) = 0 THEN "ore" ELSE IF Mixed(p) \in {3, 6} THEN "dirt" ELSE "stone"
Filling(p) == CASE Mixed(p) = 3 -> [b |-> "keep", flow |-> FALSE]
                    [] Mixed(p) = 4 -> [b |-> "water", flow |-> TRUE]
                    [] Mixed(p) = 5 -> [b |-> "water", flow |-> FALSE]
                    [] OTHER -> [b |-> "air", flow |-> Mixed(p) > 8]
TopAt(p, fluid) == IF fluid THEN {"gravel"} ELSE IF Mixed(p) = 1 THEN {} ELSE {"grass"}
FluidBlock(b) == b \in {"water", "lava"}
-----------------------------------------------------------------------------
(* The parts. *)
A == INSTANCE Aquifer WITH
       World <- Worlds, Noise <- AquiferNoise, Random <- AquiferRandom, ChunkPos <- WaterChunks,
       Query <- Queries, Asks <- 2, MinY <- AquiferMinY, Height <- 384, SeaLevel <- 63,
       PslCap <- 256, Hash <- ColumnHash

S == INSTANCE Surface WITH
       Noise <- SurfaceNoise, Biome <- BiomeAt, Cold <- ColdAt, Scene <- SurfaceScenes,
       Width <- 2, MinY <- 0, MaxY <- 6, SteepRise <- 2, MaxRules <- 20, MaxConds <- 20,
       MaxChildren <- 20, MaxSamplers <- 2, MaxSeq <- 6,
       Stone <- 1, Water <- 2, Air <- 0, Ice <- 20, Snow <- 21, SeaLevel <- 4

C == INSTANCE Carvers WITH
       Roll <- CarverRoll, Side <- 4, MinY <- CarverMinY, Height <- 18, MaxDistance <- 12,
       CaveBound <- 5, Scene <- CarverScenes, Around <- 1, Block <- Surfaced,
       Substance <- Filling, TopAt <- TopAt, IsFluid <- FluidBlock

ASSUME A!AquiferAssumption /\ S!SurfaceAssumption

aquiferVars == <<world, chunk, aq>>
surfaceVars == <<sys, ch, ctx, run, was, latched>>
carverVars == <<cv, queue, columns, cells, mask, marks, flow>>
allVars == <<part, vars, aquiferVars, surfaceVars, carverVars, scene, at, said>>

Idle == "idle"
NoWaters == world = Idle /\ chunk = Idle /\ aq = Idle
NoSurface == sys = Idle /\ ch = Idle /\ ctx = Idle /\ run = Idle /\ was = Idle /\ latched = Idle
NoCarvers == /\ cv = Idle /\ queue = Idle /\ columns = Idle /\ cells = Idle
             /\ mask = Idle /\ marks = Idle /\ flow = Idle

\* The maps that stand still are those of a chunk that has not begun.
MCInit ==
  /\ Init
  /\ \/ part = "maps" /\ NoWaters /\ NoSurface /\ NoCarvers /\ scene = Idle /\ at = Idle /\ said = Idle
     \/ part = "aquifer" /\ A!Init /\ NoSurface /\ NoCarvers /\ scene = Idle /\ at = Idle
     \/ part = "surface" /\ S!Init /\ NoWaters /\ NoCarvers
     \/ part = "carvers" /\ C!Init /\ NoWaters /\ NoSurface /\ said = Idle

InMaps == part = "maps" /\ UNCHANGED <<part, aquiferVars, surfaceVars, carverVars, scene, at, said>>
InAquifer == part = "aquifer" /\ UNCHANGED <<part, vars, surfaceVars, carverVars, scene, at>>
InSurface == part = "surface" /\ UNCHANGED <<part, vars, aquiferVars, carverVars>>
InCarvers == part = "carvers" /\ UNCHANGED <<part, vars, aquiferVars, surfaceVars, said>>

MCNext ==
  \/ \E c \in Column, m \in Material : InMaps /\ Fill(c, m)
  \/ \E c \in Column, y \in Level, m \in Material : InMaps /\ SurfaceSet(c, y, m)
  \/ \E c \in Column, y \in Level, m \in Material : InMaps /\ CarverSet(c, y, m)
  \/ \E c \in Column, y \in Level, m \in Material : InMaps /\ Place(c, y, m)
  \/ \E c \in Column, y \in Level : InMaps /\ OrePlace(c, y)
  \/ \E t \in FinalType : InMaps /\ ReadHeight(t)
  \/ InMaps /\ NextStage
  \/ InMaps /\ Decorate
  \/ InMaps /\ Save
  \/ InAquifer /\ A!Ask
  \/ InAquifer /\ A!Inspect
  \/ InSurface /\ S!StartColumn
  \/ InSurface /\ S!PassBy
  \/ InSurface /\ S!Offer
  \/ InSurface /\ S!EndColumn
  \/ InSurface /\ S!TopMaterial
  \/ InCarvers /\ C!NextTurn
  \/ InCarvers /\ C!Carve
  \/ InCarvers /\ C!Done

MCSpec == MCInit /\ [][MCNext]_allVars
-----------------------------------------------------------------------------
(* Properties: MapsExact of the height maps, and those of the parts. *)

\* The answer of the aquifer and its flag depend on the question alone,
\* whatever was asked before, and no assertion fails.
SubstanceExact == part = "aquifer" => A!SubstanceExact

\* Each stone of a column is asked about with the right depths and gets the
\* answer of the tree of rules.
RulesSound == part = "surface" => S!RulesSound

\* The carvers accepted are the right ones and dig the same caves for every
\* chunk they reach.
CavesSound == part = "carvers" => C!CavesSound

\* A block that was reached once is decided for good; only dirt changes again,
\* when it gets its grass back.
DecidedForGood == [][part = "carvers" => C!KeepsDecisions]_allVars
=============================================================================
