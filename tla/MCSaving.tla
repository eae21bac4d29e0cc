------------------------------ MODULE MCSaving ------------------------------
(***************************************************************************)
(* The end of a run: the threads that serialize the chunks, the documents   *)
(* they write, the region file, and what the structures add to a chunk,     *)
(* through the Java collections that are rebuilt for it.  Each is a         *)
(* function of the place for the others, so a behaviour is about one of     *)
(* them, named by part; the others stand still.                             *)
(***************************************************************************)
EXTENDS Serializer, SequencesExt

VARIABLES
  part,                                        \* "threads", "set", "document", "region", "structures"
  todo, set, members,                          \* the set
  plan, tree, died, bytes, back, again, phase, \* the document; died of the region and structures too
  world, saved, image, short,                  \* the region; saved of the structures too
  starts, ord, step, placed, recs              \* the structures
-----------------------------------------------------------------------------
(* Sets: eight keys. *)
\* Keys 1 to 6 share a bucket of four, 1 to 5 one of eight, and 7 stays alone;
\* 32 and more is negative as a signed number.  Key 8 has the hash of key 1.
KeyHash == [k \in 1 .. 8 |-> CASE k \in {1, 8} -> 8 [] k = 2 -> 0 [] k = 3 -> 16 [] k = 4 -> 56
                            [] k = 5 -> 24 [] k = 6 -> 12 [] k = 7 -> 48]
Orders == { p \in [1 .. 7 -> 1 .. 7] : p[1] < p[2] /\ p[2] < p[3] /\ \A i, j \in 1 .. 7 : i # j => p[i] # p[j] }
\* A sixth of the orders of seven keys, with the first one added again at the end; and
\* orders that hold two keys of one hash.
Scripts ==
  { p \o << p[1] >> : p \in Orders } \cup
  { << p[1], p[2], p[3], p[4], 8, p[5] >> : p \in { q \in Orders : q[6] < q[7] } }
-----------------------------------------------------------------------------
(* Documents. *)
N == INSTANCE NbtTree WITH LongBytes <- 3, MaxKeys <- 64
Byte == 1
Short == 2
Int32 == 3
Long == 4
ByteArray == 7
Text == 8
List == 9
Compound == 10
IntArray == 11
LongArray == 12
Node(tag) == N!Node(tag)
Number(tag, v) == N!Number(tag, v)
Array(tag, seq) == N!Array(tag, seq)
Null == N!Null

\* Keys that collide in small tables and keys that do not.
NearKey(n) == <<80 + n>>
FarKey(n) == <<100, 64 + 16 * (n % 4), 40 + n, 65>>
SomeValue(n) ==
  CASE n % 7 = 0 -> Number(Byte, 200 + n)
    [] n % 7 = 1 -> Number(Short, -1 - n)
    [] n % 7 = 2 -> Array(Text, <<65, 66>>)
    [] n % 7 = 3 -> Array(LongArray, <<n, -n, 300>>)
    [] n % 7 = 4 -> [Node(List) EXCEPT !.etag = Int32, !.kids = <<Number(Int32, n), Number(Int32, -70000)>>]
    [] n % 7 = 5 -> [Node(Compound) EXCEPT !.keys = <<NearKey(16), NearKey(0), NearKey(1)>>,
                       !.kids = <<Number(Long, 5), Node(List), Array(ByteArray, <<255, 0>>)>>]
    [] OTHER -> Array(IntArray, <<-2>>)
KeyedBy(key(_), n, rev) == [i \in 1 .. n |-> LET k == IF rev THEN n + 1 - i ELSE i IN <<key(k), SomeValue(k)>>]
CrowdKey(n) == IF n <= 9 THEN <<65 + 32 * (n \div 5), 48 + 16 * (n % 5)>> ELSE NearKey(n)
Plans ==
  { KeyedBy(NearKey, n, b) : n \in {1, 5, 12, 13, 14}, b \in BOOLEAN }
  \cup { KeyedBy(FarKey, n, b) : n \in {3, 12, 13}, b \in BOOLEAN }
  \cup { KeyedBy(CrowdKey, n, b) : n \in {8, 9, 13, 14}, b \in BOOLEAN }
  \cup { <<<<NearKey(3), SomeValue(i)>>, <<NearKey(19), SomeValue(i + 1)>>, <<NearKey(35), SomeValue(i + 2)>>>> : i \in 0 .. 6 }
-----------------------------------------------------------------------------
(* Regions of one or two chunks; lights, palettes, block entities. *)
AllNames == <<"DataVersion", "xPos", "yPos", "zPos", "LastUpdate", "InhabitedTime", "Status", "full", "sections", "isLightOn",
  "block_entities", "block_ticks", "fluid_ticks", "PostProcessing", "Heightmaps", "structures", "starts", "References", "Y",
  "block_states", "biomes", "BlockLight", "SkyLight", "palette", "data", "Name", "Properties", "i", "x", "y", "z", "t", "p",
  "WORLD_SURFACE", "OCEAN_FLOOR", "MOTION_BLOCKING", "MOTION_BLOCKING_NO_LEAVES", "LootTable", "LootTableSeed", "Items",
  "TransferCooldown", "sherds", "Delay", "MinSpawnDelay", "MaxSpawnDelay", "SpawnCount", "MaxNearbyEntities",
  "RequiredPlayerRange", "SpawnRange", "SpawnData", "entity", "id", "SpawnPotentials", "normal_config", "ominous_config",
  "config", "shared_data", "server_data", "components", "keepPacked", "loot_table", "reward", "key_item",
  "air", "stairs", "log", "chest", "hopper", "decorated_pot", "sand", "brushable_block", "spawner", "mob_spawner",
  "trial_spawner", "vault", "facing", "half", "north", "south", "top", "plains", "river", "trial", "mineshaft", "water",
  "zombie", "loot1", "loot2">>

NoProps(n) == [name |-> n, props |-> <<>>]
StateNames ==
  <<NoProps("air"), [name |-> "stairs", props |-> <<<<"facing", "north">>, <<"half", "top">>>>],
    [name |-> "stairs", props |-> <<<<"facing", "south">>, <<"half", "top">>>>], [name |-> "chest", props |-> <<<<"facing", "north">>>>],
    NoProps("hopper"), NoProps("decorated_pot"), NoProps("sand"), NoProps("spawner"), NoProps("trial_spawner"), NoProps("vault"), NoProps("log")>>
EntityOf == [n \in {"chest", "hopper", "decorated_pot", "sand", "spawner", "trial_spawner", "vault"} |->
  CASE n = "sand" -> "brushable_block" [] n = "spawner" -> "mob_spawner" [] OTHER -> n]
FirstSection == -1
Bottom == -4

S(name) == <<CHOOSE i \in DOMAIN AllNames : AllNames[i] = name>>
Str(name) == Array(Text, S(name))
Num(v) == Number(Int32, v)
Tree(entries) == FoldLeft(LAMBDA t, e : N!Put(t, S(e[1]), e[2]).t, Node(Compound), entries)
ListOf(seq) == FoldLeft(LAMBDA l, v : N!Add(l, v).t, Node(List), seq)

LightSections == FirstSection - 1 .. 1
Dark == [sy \in LightSections |-> <<0, 0, 0, 0>>]
Lit == [Dark EXCEPT ![1] = <<15, 14, 0, 3>>, ![-1] = <<1, 0, 0, 0>>]
Ls(block, sky, written, on) ==
  [light |-> [l \in {"BlockLight", "SkyLight"} |-> IF l = "BlockLight" THEN block ELSE sky],
   registered |-> LightSections \ {-2}, blk_written |-> written, enabled |-> on]
NoLight == Ls(Dark, Dark, {}, FALSE)

ChunkAt(x, z, low, high, biomes, h) ==
  [cx |-> x, cz |-> z, states |-> [sy \in -1 .. 0 |-> IF sy = -1 THEN low ELSE high], biomes |-> [sy \in -1 .. 0 |-> biomes],
   heightmap_final |-> [k \in {"WORLD_SURFACE", "OCEAN_FLOOR", "MOTION_BLOCKING", "MOTION_BLOCKING_NO_LEAVES"} |->
                          IF k = "OCEAN_FLOOR" THEN h ELSE <<-4, 3, 0, 1, 2, 3>>]]
All(s) == [i \in 1 .. 6 |-> s]
Simple == ChunkAt(0, 0, All(2), All(1), <<"plains", "plains">>, <<-4, -4, -3, 3, 2, 1>>)
Slot(c, ls, bes, refs) == [c |-> c, ls |-> ls, bes |-> bes, starts |-> Null, refs |-> refs]
One == Slot(Simple, NoLight, <<>>, <<>>)

Entity(state, loot, seed, tpl) ==
  [state |-> state, loot |-> loot, loot_seed |-> seed, tpl |-> tpl, entity |-> "zombie", x |-> 5, y |-> -3, z |-> 20]
ChunkEntities ==
  { Entity(s, l, n, Null) : s \in {4, 5, 7}, l \in {<<>>, S("loot1")}, n \in {0, -7} }
  \cup { Entity(s, <<>>, 0, Null) : s \in {1, 6, 8, 9, 10} }
  \cup { Entity(5, S("loot1"), 3, Tree(<<<<"LootTable", Str("loot2")>>, <<"TransferCooldown", Num(8)>>>>)),
         Entity(6, <<>>, 9, Tree(<<<<"sherds", ListOf(<<Str("log")>>)>>, <<"LootTable", Str("loot2")>>>>)),
         Entity(4, <<>>, 0, Tree(<<<<"Items", Node(List)>>>>)),
         Entity(4, <<>>, 0, Tree(<<<<"Items", ListOf(<<Tree(<<<<"id", Str("log")>>>>)>>)>>>>)),
         Entity(4, S("loot1"), 0, Tree(<<<<"Items", ListOf(<<Tree(<<<<"id", Str("log")>>>>)>>)>>>>)),
         Entity(9, <<>>, 0, Tree(<<<<"normal_config", Tree(<<<<"id", Str("log")>>>>)>>>>)),
         Entity(10, <<>>, 0, Tree(<<<<"config", Tree(<<<<"loot_table", Str("reward")>>, <<"key_item", Str("log")>>>>)>>>>)),
         Entity(10, <<>>, 0, Tree(<<<<"config", Tree(<<<<"key_item", Str("log")>>, <<"loot_table", Str("loot2")>>>>)>>>>)) }

Tick(x, z, block) == [name |-> IF block THEN "log" ELSE "water", x |-> x, y |-> -1, z |-> z, t |-> 5, block |-> block]
Ticks == <<Tick(15, 3, TRUE), Tick(16, 0, FALSE), Tick(-1, 4, TRUE), Tick(0, 0, FALSE), Tick(17, 9, TRUE), Tick(3, 16, TRUE),
           Tick(1, 15, TRUE), Tick(31, 15, FALSE), Tick(32, 0, FALSE)>>
W(chunks, ticks, cap) == [chunks |-> chunks, ticks |-> ticks, cap |-> cap]

Cells == {<<1, 1, 1, 1, 1, 2>>, <<4, 3, 2, 1, 4, 3>>, <<5, 4, 3, 2, 1, 5>>, <<1, 2, 3, 4, 5, 6>>}
Regions ==
  { W(<<Slot(ChunkAt(x, 1, low, All(7), b, <<3, 2, 1, 0, -1, -2>>), l, <<>>, <<>>)>>, Ticks, 2000) :
      x \in {0, 1}, low \in Cells, b \in {<<"plains", "river">>, <<"river", "river">>},
      l \in {Ls(Lit, Dark, {-1, 1}, TRUE), Ls(Dark, Lit, {0}, FALSE)} }
  \cup { W(<<[One EXCEPT !.bes = <<b>>], Slot([Simple EXCEPT !.cx = 1], Ls(Lit, Lit, {-1, 1}, TRUE), <<>>, <<>>)>>, Ticks, 2000) : b \in ChunkEntities }
  \cup { W(<<[One EXCEPT !.bes = <<Entity(8, <<>>, 0, Null), Entity(8, <<>>, 0, Null), Entity(8, <<>>, 0, Null), Entity(7, S("loot2"), 1, Null)>>]>>, <<>>, 2000),
         W(<<[One EXCEPT !.refs = <<<<"trial", <<0, 3>>>>, <<"mineshaft", <<-2>>>>>>]>>, <<>>, 2000),
         W(<<[One EXCEPT !.starts = Tree(<<<<"trial", Tree(<<<<"id", Str("trial")>>>>)>>>>)]>>, <<>>, 2000),
         W(<<One>>, <<>>, 200), W(<<One, [One EXCEPT !.c.cz = 1, !.bes = <<Entity(1, <<>>, 0, Null)>>]>>, <<>>, 2000) }
-----------------------------------------------------------------------------
(* Structures about three chunks. *)
Decorated == {<<0, 0>>, <<1, 0>>, <<-1, -1>>}
Steps == <<3, 4>>
ChunkMix == [c \in (-20 .. 20) \X (-20 .. 20) |-> (c[1] + 2 * c[2]) % 4]
Spot == {<<1, 0, 1>>, <<5, 0, 1>>, <<9, 1, 2>>, <<2, 0, 3>>, <<17, 0, 1>>, <<21, 0, 1>>, <<-1, 0, -1>>}
SpotMix == [p \in Spot |-> p[1] % 4]
SpotHash == [p \in Spot |-> (p[1] % 4) + p[2]]

Piece(bb, rigid, junctions, bes) == [bb |-> bb, jigsaw |-> TRUE, rigid |-> rigid, junctions |-> junctions, bes |-> bes]
Other(bb, bes) == [Piece(bb, FALSE, <<>>, bes) EXCEPT !.jigsaw = FALSE]
Flat(x0, z0, x1, z1) == <<x0, 0, z0, x1, 4, z1>>
Start(name, where, bb, pieces) ==
  [name |-> name, at |-> where, step |-> IF name = "ship" THEN 4 ELSE 3,
   idx |-> CASE name = "ship" -> 20 [] name = "mine" -> 0 [] OTHER -> 5,
   adapt |-> name = "trial", bb |-> bb, pieces |-> pieces]
Left(pos, kind) == [pos |-> pos, kind |-> kind]

\* Three of one kind about the origin, one of them at chunk 0, 0, two of them in one chunk.
AllAround == Flat(-20, -20, 20, 20)
Aside == Flat(-20, -20, -3, -3)
PiecesOf(bes) == <<Piece(Flat(0, 0, 20, 5), TRUE, <<<<2, 2, 2>>, <<40, 2, 2>>>>, bes),
                Other(<<-8, 30, -8, 3, 40, 3>>, <<Left(<<1, 0, 1>>, "live")>>),
                Piece(Flat(-9, -9, 16, 4), FALSE, <<<<-5, 1, -5>>>>, bes)>>
Places == {<<0, 0>>, <<2, 1>>, <<0, -2>>, <<-9, 0>>} \X {<<0, 0>>, <<-2, 1>>, <<2, 1>>} \X {<<1, 0>>, <<-1, 8>>}
Threes == { <<Start("trial", p[1], AllAround, PiecesOf(<<>>)), Start("trial", p[2], b, PiecesOf(<<>>)), Start(n, p[3], AllAround, PiecesOf(<<>>))>> :
              p \in Places, b \in {AllAround, Aside}, n \in {"trial", "ship"} }

\* Block entities that replace one another, from two structures in either step.
Events == { Left(<<1, 0, 1>>, "live"), Left(<<5, 0, 1>>, "live"), Left(<<5, 0, 1>>, "none"), Left(<<9, 1, 2>>, "dummy"), Left(<<2, 0, 3>>, "dummy"),
            Left(<<17, 0, 1>>, "live") }
Entities == { <<Start("trial", <<0, 0>>, AllAround, <<Piece(Flat(0, 0, 31, 5), FALSE, <<>>, <<a, b>>)>>),
                Start("trial", <<1, 0>>, AllAround, <<Piece(Flat(0, 0, 31, 5), FALSE, <<>>, <<c, Left(<<-1, 0, -1>>, "live")>>)>>)>> :
              a \in Events, b \in Events, c \in Events }
Layouts == Threes \cup Entities
-----------------------------------------------------------------------------
(* The parts. *)
J == INSTANCE JavaSet WITH
       Keys <- 1 .. 8, Hash <- KeyHash, Width <- 6, InitCap <- 2, MinTreeCap <- 4,
       TreeifyAt <- 3, UntreeifyAt <- 2, MaxEntries <- 8, MaxCap <- 16

D == INSTANCE Nbt WITH LongBytes <- 3, MaxKeys <- 13, Plan <- Plans

F == INSTANCE ChunkFile WITH
       LongBytes <- 2, MaxKeys <- 64, Names <- AllNames, StateName <- StateNames,
       MinSec <- FirstSection, MaxSec <- 0, MinY <- Bottom, MinBits <- 2, MaxPalette <- 5, HeightBits <- 3,
       Side <- 2, BlockMax <- 150, MaxSectors <- 38, World <- Regions, Shortage <- {0, 1, 17}

B == INSTANCE Structures WITH
       World <- Layouts, Chunk <- Decorated, Step <- Steps, Mix <- ChunkMix, PosMix <- SpotMix,
       PosHash <- SpotHash, Slots <- 4, MaxFill <- 3, InitCap <- 2, MaxNames <- 1,
       MinY <- Bottom, MaxY <- 20, RecCap <- 9, MaxB <- 4, RigidCap <- 5, JunctionCap <- 4, next <- step

ASSUME J!JavaSetAssumption

setVars == <<todo, set, members>>
documentVars == <<plan, tree, bytes, back, again, phase>>
regionVars == <<world, image, short>>
structureVars == <<starts, ord, step, placed, recs>>
allVars == <<part, vars, setVars, documentVars, regionVars, structureVars, died, saved>>

Idle == "idle"
NoSet == todo = Idle /\ set = Idle /\ members = Idle
NoDocument == plan = Idle /\ tree = Idle /\ bytes = Idle /\ back = Idle /\ again = Idle /\ phase = Idle
NoRegion == world = Idle /\ image = Idle /\ short = Idle
NoStructures == starts = Idle /\ ord = Idle /\ step = Idle /\ placed = Idle /\ recs = Idle

\* The threads that stand still have not begun.
MCInit ==
  /\ Init
  /\ \/ part = "threads" /\ NoSet /\ NoDocument /\ NoRegion /\ NoStructures /\ died = Idle /\ saved = Idle
     \/ part = "set" /\ J!Init /\ NoDocument /\ NoRegion /\ NoStructures /\ died = Idle /\ saved = Idle
     \/ part = "document" /\ D!Init /\ NoSet /\ NoRegion /\ NoStructures /\ saved = Idle
     \/ part = "region" /\ F!Init /\ NoSet /\ NoDocument /\ NoStructures
     \/ part = "structures" /\ B!Init /\ NoSet /\ NoDocument /\ NoRegion

InThreads == part = "threads" /\ UNCHANGED <<part, setVars, documentVars, regionVars, structureVars, died, saved>>
InSet == part = "set" /\ UNCHANGED <<part, vars, documentVars, regionVars, structureVars, died, saved>>
InDocument == part = "document" /\ UNCHANGED <<part, vars, setVars, regionVars, structureVars, saved>>
InRegion == part = "region" /\ UNCHANGED <<part, vars, setVars, documentVars, structureVars>>
InStructures == part = "structures" /\ UNCHANGED <<part, vars, setVars, documentVars, regionVars>>

MCNext ==
  \/ InThreads /\ StartSpawner
  \/ InThreads /\ Postprocess
  \/ InThreads /\ Freeze
  \/ InThreads /\ LockLatch
  \/ InThreads /\ OpenLatch
  \/ InThreads /\ Consume
  \/ InThreads /\ JoinSpawner
  \/ InThreads /\ JoinWorker
  \/ InThreads /\ Create
  \/ InThreads /\ SpawnerExit
  \/ \E t \in Worker : InThreads /\ Lock(t)
  \/ \E t \in Worker : InThreads /\ Test(t)
  \/ \E t \in Worker : InThreads /\ Claim(t)
  \/ \E t \in Worker : InThreads /\ Serialize(t)
  \/ \E t \in Worker : InThreads /\ Publish(t)
  \/ \E t \in Worker : InThreads /\ WakeSpuriously(t)
  \/ InSet /\ J!Poll
  \/ InSet /\ J!Add
  \/ InDocument /\ D!PutNext
  \/ InDocument /\ D!WriteAll
  \/ InDocument /\ D!Read
  \/ InDocument /\ D!WriteAgain
  \/ InRegion /\ F!SaveChunk
  \/ InRegion /\ F!SaveRegion
  \/ InStructures /\ B!SortNext
  \/ \E c \in Decorated : InStructures /\ B!Place(c)
  \/ \E c \in Decorated : InStructures /\ B!SaveEntities(c)

\* The fairness of the threads, as in Serializer.
MCSpec ==
  /\ MCInit /\ [][MCNext]_allVars
  /\ WF_allVars(InThreads /\ MainStep)
  /\ WF_allVars(InThreads /\ (Create \/ SpawnerExit))
  /\ \A t \in Worker : WF_allVars(InThreads /\ WorkerStep(t))
-----------------------------------------------------------------------------
(* Properties: HandedOver and ImplementsReplay of the threads, and those of *)
(* the parts.                                                               *)

\* The run ends, and all of the region was hashed: whenever the workers are
\* born, before, while or after the latch opens.
Finishes == <>(part = "threads" => Finished)

\* The set of the code is a java.util.HashSet: its members are right and so is
\* every bin they hang in, on which what later calls find depends.
SetSound == part = "set" => J!SetSound

\* Polling takes the first key of the iteration order and leaves the order of
\* the others alone, also where it takes a node out of a tree.
PollKeepsOrder == [][part = "set" => J!KeepsOrder]_allVars

\* The order of the file is the order of a HashMap that grew key by key; what
\* was written is read back and, written again, has the same bytes.
DocumentSound == part = "document" => D!DocumentSound

\* A region that was saved holds every chunk.
ReadBack == part = "region" => F!ReadBack

\* The order of the sort is the order of the scan of the game in every chunk, and
\* whatever lists the starts of a structure lists them in one order.  Saved are the
\* block entities that are still there, each once, in the order of the chunk's live
\* map and a fresh set.
WalksAgree == part = "structures" => B!WalksAgree
=============================================================================
