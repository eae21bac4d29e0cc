----------------------------- MODULE ChunkFile -----------------------------
(***************************************************************************)
(* Saving a region.  Every chunk is made a tree - sections with palettes,   *)
(* light, ticks, block entities, height maps, structures - and a document   *)
(* in scratch memory (core/src/chunk_nbt.c); the documents are put into one *)
(* image: two tables, then every chunk in whole sectors, as stored blocks   *)
(* in a zlib container (region.c).  A reader that knows the formats only is *)
(* given the image.                                                         *)
(*                                                                          *)
(* A name is a string of one byte, its place in Names.  A block state is    *)
(* known by its name and its properties (StateName), in ascending order as  *)
(* in the text hc_block_name returns.  Sizes are constants; the arena has   *)
(* room.                                                                    *)
(***************************************************************************)
EXTENDS NbtTree

CONSTANTS
  Names,           \* all names that occur
  StateName,       \* state -> [name, props]
  EntityOf,        \* name of a state -> id of its block entity
  MinSec, MaxSec,  \* the sections of a chunk; light has one more at each end
  MinY,            \* HC_MIN_Y
  MinBits,         \* 4
  MaxPalette,      \* 512
  HeightBits,      \* 9
  Side,            \* chunks per side of a region, 32
  BlockMax,        \* bytes of a stored block, 65535
  MaxSectors,      \* sectors of a chunk, 255
  World,           \* sequences of chunks with all that belongs to them
  Shortage         \* by how much the buffer of the image may be too small

S(name) == <<CHOOSE i \in DOMAIN Names : Names[i] = name>>
Str(name) == Array(String, S(name))
Num(v) == Number(Int32, v)
Tree(entries) == FoldLeft(LAMBDA t, e : Put(t, S(e[1]), e[2]).t, Node(Compound), entries)
ListOf(seq) == FoldLeft(LAMBDA l, v : Add(l, v).t, Node(List), seq)
The(set) == CHOOSE x \in set : TRUE
Optional(key, set) == IF set = {} THEN <<>> ELSE <<<<key, The(set)>>>>
-----------------------------------------------------------------------------
(* Sections. *)

\* ceil_log2
CeilLog2(n) == CHOOSE b \in 0 .. 12 : 2^b >= n /\ \A a \in 0 .. b - 1 : 2^a < n

WordBits == 8 * LongBytes

\* Mutant of PackBits: a value may begin in one long and end in the next.
PackBitsTight(vals, bits) ==
  LET bit(k) == IF k \div bits < Len(vals) THEN (vals[k \div bits + 1] \div 2^(k % bits)) % 2 ELSE 0
      word(i) == FoldLeft(LAMBDA w, j : w + 2^j * bit(i * WordBits + j), 0, [j \in 1 .. WordBits |-> j - 1])
  IN [i \in 1 .. (Len(vals) * bits + WordBits - 1) \div WordBits |-> Narrow(word(i - 1), LongBytes)]

\* pack_bits: no value lies in two longs.
PackBits(vals, bits) ==
  LET vpl == WordBits \div bits
      val(k) == IF k < Len(vals) THEN vals[k + 1] ELSE 0
      word(i) == FoldLeft(LAMBDA w, j : w + 2^(j * bits) * val(i * vpl + j), 0, [j \in 1 .. vpl |-> j - 1])
  IN [i \in 1 .. (Len(vals) + vpl - 1) \div vpl |-> Narrow(word(i - 1), LongBytes)]

\* palette_entry: the properties backwards.
PaletteEntry(state) ==
  LET e == StateName[state]
      props == [i \in DOMAIN e.props |-> <<e.props[i][1], Str(e.props[i][2])>>]
  IN Tree(<<<<"Name", Str(e.name)>>>> \o IF props = <<>> THEN <<>> ELSE <<<<"Properties", Tree(Reverse(props))>>>>)

\* packed_container: values in the order of their first appearance.
Palette(cells) == FoldLeft(LAMBDA p, v : IF v \in ToSet(p) THEN p ELSE Append(p, v), <<>>, cells)
Bits(n, isBlocks) ==
  LET b == CeilLog2(n) IN IF isBlocks /\ b # 0 /\ b < MinBits THEN MinBits ELSE b
PackedContainer(cells, isBlocks) ==
  LET pal == Palette(cells)
      bits == Bits(Len(pal), isBlocks)
      index == [i \in DOMAIN cells |-> (CHOOSE j \in DOMAIN pal : pal[j] = cells[i]) - 1]
  IN Tree(<<<<"palette", ListOf([i \in DOMAIN pal |-> IF isBlocks THEN PaletteEntry(pal[i]) ELSE Str(pal[i])])>>>>
          \o IF bits = 0 THEN <<>> ELSE <<<<"data", Array(LongArray, PackBits(index, bits))>>>>)

\* light_layer: block light once it was written, sky light if there is any.
LightLayer(ls, layer, sy) ==
  LET cell == ls.light[layer][sy]
      there == sy \in ls.registered /\ IF layer = "BlockLight" THEN sy \in ls.blk_written ELSE \E i \in DOMAIN cell : cell[i] # 0
  IN IF there THEN { Array(ByteArray, [i \in 1 .. Len(cell) \div 2 |-> cell[2 * i - 1] + 16 * cell[2 * i]]) } ELSE {}

\* The loop over the light sections: a section without anything is left out.
SectionEntries(c, ls, sy) ==
  (IF sy \in MinSec .. MaxSec
   THEN <<<<"block_states", PackedContainer(c.states[sy], TRUE)>>, <<"biomes", PackedContainer(c.biomes[sy], FALSE)>>>>
   ELSE <<>>)
  \o Optional("BlockLight", LightLayer(ls, "BlockLight", sy)) \o Optional("SkyLight", LightLayer(ls, "SkyLight", sy))
Sections(c, ls) ==
  ListOf(FoldLeft(LAMBDA list, k :
            LET es == SectionEntries(c, ls, k)
            IN IF es = <<>> THEN list ELSE Append(list, Tree(Append(es, <<"Y", Number(Byte, k)>>))),
          <<>>, [i \in 1 .. MaxSec - MinSec + 3 |-> MinSec - 2 + i]))
-----------------------------------------------------------------------------
(* Ticks and block entities. *)

\* tick_entry; the recorder keeps the ticks of all chunks.
TickEntry(r) == Tree(<<<<"i", Str(r.name)>>, <<"x", Num(r.x)>>, <<"y", Num(r.y)>>, <<"z", Num(r.z)>>,
                       <<"t", Num(r.t)>>, <<"p", Num(0)>>>>)
TicksOf(c, ticks, block) ==
  SelectSeq(ticks, LAMBDA r : r.x \div 16 = c.cx /\ r.z \div 16 = c.cz /\ r.block = block)
TickList(c, ticks, block) ==
  LET mine == TicksOf(c, ticks, block) IN ListOf([i \in DOMAIN mine |-> TickEntry(mine[i])])

Template(r, key) == IF r.tpl = Null THEN {} ELSE Get(r.tpl, S(key))

\* be_put_container
Loot(r) == IF Template(r, "LootTable") # {} THEN The(Template(r, "LootTable")).num ELSE r.loot
LootEntries(loot, seed) ==
  <<<<"LootTable", Array(String, loot)>>>> \o IF seed = 0 THEN <<>> ELSE <<<<"LootTableSeed", Number(Long, seed)>>>>
ContainerEntries(r) == IF Loot(r) # <<>> THEN LootEntries(Loot(r), r.loot_seed) ELSE <<<<"Items", Node(List)>>>>

\* be_id_of_state
EntityId(r) == EntityOf[StateName[r.state].name]
Unsupported(r) ==
  \/ StateName[r.state].name \notin DOMAIN EntityOf
  \/ /\ EntityId(r) \in {"chest", "hopper", "decorated_pot"} /\ Loot(r) = <<>>
     /\ \E items \in Template(r, "Items") : items.kids # <<>>

\* The config of a vault without the loot table that is the default.
VaultConfig(cfg) ==
  LET kept == SelectSeq([i \in DOMAIN cfg.keys |-> i],
                LAMBDA i : ~ (cfg.keys[i] = S("loot_table") /\ cfg.kids[i] = Str("reward")))
  IN [cfg EXCEPT !.keys = [i \in DOMAIN kept |-> cfg.keys[kept[i]]], !.kids = [i \in DOMAIN kept |-> cfg.kids[kept[i]]]]

\* be_to_nbt: what is particular to a type, and the common end.
SpawnerNumbers == <<<<"Delay", 20>>, <<"MinSpawnDelay", 200>>, <<"MaxSpawnDelay", 800>>, <<"SpawnCount", 4>>,
                    <<"MaxNearbyEntities", 6>>, <<"RequiredPlayerRange", 16>>, <<"SpawnRange", 4>>>>
OwnEntries(r) ==
  LET id == EntityId(r)
  IN CASE id = "chest" -> ContainerEntries(r)
       [] id = "hopper" ->
            Append(ContainerEntries(r), <<"TransferCooldown", The({ Num(v.num[1]) : v \in Template(r, "TransferCooldown") }
                                             \cup IF Template(r, "TransferCooldown") = {} THEN {Num(-1)} ELSE {})>>)
       [] id = "decorated_pot" -> Optional("sherds", Template(r, "sherds")) \o ContainerEntries(r)
       [] id = "brushable_block" -> IF r.loot = <<>> THEN <<>> ELSE LootEntries(r.loot, r.loot_seed)
       [] id = "mob_spawner" ->
            [i \in DOMAIN SpawnerNumbers |-> <<SpawnerNumbers[i][1], Number(Short, SpawnerNumbers[i][2])>>]
            \o <<<<"SpawnData", Tree(<<<<"entity", Tree(<<<<"id", Str(r.entity)>>>>)>>>>)>>, <<"SpawnPotentials", Node(List)>>>>
       [] id = "trial_spawner" -> Optional("normal_config", Template(r, "normal_config"))
                                  \o Optional("ominous_config", Template(r, "ominous_config"))
       [] id = "vault" ->
            <<<<"config", The({ VaultConfig(cfg) : cfg \in Template(r, "config") }
                              \cup IF Template(r, "config") = {} THEN {Node(Compound)} ELSE {})>>,
              <<"shared_data", Node(Compound)>>, <<"server_data", Node(Compound)>>>>
BlockEntity(r) ==
  Tree(OwnEntries(r) \o <<<<"components", Node(Compound)>>, <<"id", Str(EntityId(r))>>, <<"x", Num(r.x)>>, <<"y", Num(r.y)>>,
                          <<"z", Num(r.z)>>, <<"keepPacked", Number(Byte, 0)>>>>)
-----------------------------------------------------------------------------
\* hc_chunk_to_nbt: bes, starts and refs are what the structures answer.
HeightKeys == <<"WORLD_SURFACE", "OCEAN_FLOOR", "MOTION_BLOCKING", "MOTION_BLOCKING_NO_LEAVES">>
HeightMaps(c) ==
  Tree([k \in DOMAIN HeightKeys |->
    <<HeightKeys[k], LET h == c.heightmap_final[HeightKeys[k]]
                     IN Array(LongArray, PackBits([i \in DOMAIN h |-> h[i] - MinY], HeightBits))>>])
ChunkTree(c, ls, ticks, bes, starts, refs) ==
  Tree(<<<<"DataVersion", Num(4903)>>, <<"xPos", Num(c.cx)>>, <<"yPos", Num(MinSec)>>, <<"zPos", Num(c.cz)>>,
         <<"LastUpdate", Number(Long, 0)>>, <<"InhabitedTime", Number(Long, 0)>>, <<"Status", Str("full")>>,
         <<"sections", Sections(c, ls)>>>>
       \o (IF ls.enabled THEN <<<<"isLightOn", Number(Byte, 1)>>>> ELSE <<>>)
       \o <<<<"block_entities", ListOf([i \in DOMAIN bes |-> BlockEntity(bes[i])])>>,
            <<"block_ticks", TickList(c, ticks, TRUE)>>, <<"fluid_ticks", TickList(c, ticks, FALSE)>>,
            <<"PostProcessing", ListOf([i \in 1 .. MaxSec - MinSec + 1 |-> Node(List)])>>,
            <<"Heightmaps", HeightMaps(c)>>,
            <<"structures", Tree(<<<<"starts", IF starts = Null THEN Node(Compound) ELSE starts>>,
                                   <<"References", Tree([i \in DOMAIN refs |-> <<refs[i][1], Array(LongArray, refs[i][2])>>])>>>>)>>>>)

\* Its assertions and exits.
ChunkDies(c, bes) ==
  \/ \E sy \in MinSec .. MaxSec : Len(Palette(c.states[sy])) > MaxPalette \/ Len(Palette(c.biomes[sy])) > MaxPalette
  \/ \E i \in DOMAIN bes : Unsupported(bes[i])
ChunkToNbt(c, ls, ticks, bes, starts, refs, cap) ==
  LET t == ChunkTree(c, ls, ticks, bes, starts, refs) IN [Write(t, cap) EXCEPT !.ok = @ /\ Asserted(t)]
-----------------------------------------------------------------------------
(* The image of a region file. *)

Sector == 4 * Side * Side     \* SECTOR: a table fills one
Fail == <<>>

\* adler32: one and the sum of the bytes, and the sum of the values that has had.
RECURSIVE Sums(_)
Sums(d) ==
  LET m == Len(d) \div 2
      l == Sums(SubSeq(d, 1, m))
      r == Sums(SubSeq(d, m + 1, Len(d)))
  IN IF Len(d) = 0 THEN <<0, 0>> ELSE IF Len(d) = 1 THEN <<d[1], d[1]>>
     ELSE <<l[1] + r[1], l[2] + (Len(d) - m) * l[1] + r[2]>>
Adler(d) == <<(1 + Sums(d)[1]) % 65521, (Len(d) + Sums(d)[2]) % 65521>>

\* A stored block at off, with the complement of its length behind the length.
LittleEndian(v) == <<v % 256, v \div 256>>
StoredBlock(in, off) ==
  LET chunk == IF Len(in) - off > BlockMax THEN BlockMax ELSE Len(in) - off
  IN <<IF off + chunk = Len(in) THEN 1 ELSE 0>> \o LittleEndian(chunk) \o LittleEndian(65535 - chunk)
     \o SubSeq(in, off + 1, off + chunk)

\* zlib_store
ZlibStore(in, cap) ==
  LET n == Len(in)
      blocks == IF n = 0 THEN 1 ELSE (n + BlockMax - 1) \div BlockMax
      ad == Adler(in)
  IN IF cap < 2 + n + 5 * (n \div BlockMax + 1) + 4 THEN Fail
     ELSE <<120, 1>> \o FlattenSeq([k \in 1 .. blocks |-> StoredBlock(in, (k - 1) * BlockMax)])
          \o BigEndian(ad[2], 2) \o BigEndian(ad[1], 2)

\* One chunk of hc_region_write.  s: data behind the tables, places of the chunks.
Sectors(entry) == (entry + Sector - 1) \div Sector
Entered(s, c, off, z, sectors, cap) ==
  IF z = Fail THEN [s EXCEPT !.failed = TRUE]
  ELSE IF sectors > MaxSectors THEN [s EXCEPT !.died = TRUE]
  ELSE IF off + sectors * Sector > cap THEN [s EXCEPT !.failed = TRUE]
  ELSE [s EXCEPT !.data = @ \o BigEndian(Len(z) + 1, 4) \o <<2>> \o z
                           \o [i \in 1 .. sectors * Sector - 5 - Len(z) |-> 0],
                 !.at[c.x + Side * c.z] = <<off \div Sector, sectors>>]
RegionChunk(s, c, cap) ==
  LET off == 2 * Sector + Len(s.data)
      z == ZlibStore(c.payload, cap - off - 5)
  IN IF s.failed \/ s.died THEN s
     ELSE IF off + 5 > cap THEN [s EXCEPT !.failed = TRUE]
     ELSE Entered(s, c, off, z, Sectors(5 + Len(z)), cap)

\* hc_region_write
Image(s, timestamp) ==
  LET entry(i) == BigEndian(s.at[i - 1][1], 3) \o <<s.at[i - 1][2]>>
      stamp(i) == IF s.at[i - 1][2] = 0 THEN <<0, 0, 0, 0>> ELSE BigEndian(timestamp, 4)
  IN [failed |-> s.failed, died |-> s.died,
      out |-> IF s.failed \/ s.died THEN Fail
              ELSE FlattenSeq([i \in 1 .. Side * Side |-> entry(i)])
                   \o FlattenSeq([i \in 1 .. Side * Side |-> stamp(i)]) \o s.data]
RegionWrite(chunks, timestamp, cap) ==
  LET none == [i \in 0 .. Side * Side - 1 |-> <<0, 0>>]
      empty == [data |-> <<>>, at |-> none, failed |-> cap < 2 * Sector, died |-> FALSE]
  IN Image(FoldLeft(LAMBDA u, c : RegionChunk(u, c, cap), empty, chunks), timestamp)
-----------------------------------------------------------------------------
(* The loop over the region. *)

VARIABLES world, saved, died, image, short
vars == <<world, saved, died, image, short>>
NoImage == [failed |-> FALSE, died |-> FALSE, out |-> Fail]

Init == /\ world \in World /\ short \in Shortage
        /\ saved = <<>> /\ died = FALSE /\ image = NoImage

\* The next chunk of the loop over the region.
Keep(k, doc) ==
  IF ChunkDies(k.c, k.bes) \/ ~ doc.ok THEN died' = TRUE /\ UNCHANGED saved
  ELSE saved' = Append(saved, [x |-> k.c.cx, z |-> k.c.cz, payload |-> doc.out]) /\ UNCHANGED died
SaveChunk ==
  /\ ~ died /\ Len(saved) < Len(world.chunks)
  /\ \E k \in {world.chunks[Len(saved) + 1]} :
       Keep(k, ChunkToNbt(k.c, k.ls, world.ticks, k.bes, k.starts, k.refs, world.cap))
  /\ UNCHANGED <<world, image, short>>

\* The sectors a document may take, and the bytes its image needs.
Room(doc) == Sectors(11 + Len(doc) + 5 * (Len(doc) \div BlockMax + 1))
Needed(cs) == FoldLeft(LAMBDA n, c : n + Sector * Room(c.payload), 2 * Sector, cs)

SaveRegion ==
  /\ ~ died /\ Len(saved) = Len(world.chunks) /\ image = NoImage
  /\ image' = RegionWrite(saved, 1, Needed(saved) - short)
  /\ died' = image'.died
  /\ UNCHANGED <<world, saved, short>>

Next == SaveChunk \/ SaveRegion
Spec == Init /\ [][Next]_vars
-----------------------------------------------------------------------------
(* A reader of the image. *)

Entry(img, i) == SubSeq(img, 4 * i + 1, 4 * i + 4)
Place(img, i) == Unsigned(SubSeq(Entry(img, i), 1, 3))

\* The stored blocks from place p on, if all is well with them; the checksum.
RECURSIVE Inflated(_, _)
Inflated(z, p) ==
  LET n == z[p + 1] + 256 * z[p + 2]
  IN IF z[p + 3] + 256 * z[p + 4] # 65535 - n THEN <<-1>>
     ELSE SubSeq(z, p + 5, p + 4 + n) \o
          IF z[p] = 0 THEN Inflated(z, p + 5 + n)
          ELSE IF SubSeq(z, p + 5 + n, Len(z)) = <<>> THEN <<-1>> ELSE <<>>
Sound(img, i, at, z, doc) ==
  LET sum == SubSeq(z, Len(z) - 3, Len(z))
  IN /\ img[at + 5] = 2 /\ z[1] = 120 /\ (256 * z[1] + z[2]) % 31 = 0
     /\ sum = BigEndian(Adler(doc)[2], 2) \o BigEndian(Adler(doc)[1], 2)
     /\ Len(z) + 5 <= Sector * Entry(img, i)[4] /\ at + Sector * Entry(img, i)[4] <= Len(img)
Document(img, i) ==
  LET at == Place(img, i) * Sector
      z == SubSeq(img, at + 6, at + 4 + Unsigned(SubSeq(img, at + 1, at + 4)))
      doc == Inflated(z, 3)
  IN IF Sound(img, i, at, z, doc) THEN Parse(doc) ELSE Null

Of(t, key) == The(Get(t, S(key)))
NumOf(t, key) == Of(t, key).num[1]
Default(t, key, v) == IF Get(t, S(key)) = {} THEN v ELSE Of(t, key)

\* n values of so many bits.
Unpacked(words, bits, n) ==
  LET vpl == WordBits \div bits
  IN [i \in 1 .. n |-> ((words[(i - 1) \div vpl + 1] % 2^WordBits) \div 2^(((i - 1) % vpl) * bits)) % 2^bits]
Contents(cont, isBlocks, n) ==
  LET pal == Of(cont, "palette").kids
      width == IF isBlocks THEN FoldLeft(LAMBDA a, b : IF a >= b THEN a ELSE b, MinBits, <<CeilLog2(Len(pal))>>) ELSE CeilLog2(Len(pal))
  IN IF Len(pal) = 1 THEN [i \in 1 .. n |-> pal[1]]
     ELSE LET v == Unpacked(Of(cont, "data").num, width, n) IN [i \in 1 .. n |-> pal[v[i] + 1]]
StateOf(t) ==
  LET props == Default(t, "Properties", Node(Compound))
  IN CHOOSE s \in DOMAIN StateName :
       /\ S(StateName[s].name) = Of(t, "Name").num /\ Len(StateName[s].props) = Len(props.keys)
       /\ \A i \in DOMAIN StateName[s].props : Get(props, S(StateName[s].props[i][1])) = {Str(StateName[s].props[i][2])}

SectionOf(t, sy) == { s \in ToSet(Of(t, "sections").kids) : NumOf(s, "Y") = sy }
Nibble(b, i) == IF i % 2 = 1 THEN b[(i + 1) \div 2] % 16 ELSE b[(i + 1) \div 2] \div 16
SameSections(t, k) ==
  \A sy \in MinSec - 1 .. MaxSec + 1 :
    LET in == SectionOf(t, sy)
        light(layer) == LET l == k.ls.light[layer][sy]
                        IN \A i \in DOMAIN l :
                             l[i] = IF in = {} \/ Get(The(in), S(layer)) = {} THEN 0 ELSE Nibble(Of(The(in), layer).num, i)
    IN /\ light("BlockLight") /\ light("SkyLight")
       /\ sy \in MinSec .. MaxSec =>
            LET cells == Contents(Of(The(in), "block_states"), TRUE, Len(k.c.states[sy]))
                quarts == Contents(Of(The(in), "biomes"), FALSE, Len(k.c.biomes[sy]))
            IN /\ [i \in DOMAIN cells |-> StateOf(cells[i])] = k.c.states[sy]
               /\ [i \in DOMAIN quarts |-> quarts[i].num] = [i \in DOMAIN quarts |-> S(k.c.biomes[sy][i])]

SameTicks(t, k, key, block) ==
  LET mine == SelectSeq(world.ticks, LAMBDA r : r.block = block /\ r.x - 16 * k.c.cx \in 0 .. 15 /\ r.z - 16 * k.c.cz \in 0 .. 15)
      list == Of(t, key).kids
  IN [i \in DOMAIN list |-> <<Of(list[i], "i").num, NumOf(list[i], "x"), NumOf(list[i], "y"), NumOf(list[i], "z"), NumOf(list[i], "t")>>]
     = [i \in DOMAIN mine |-> <<S(mine[i].name), mine[i].x, mine[i].y, mine[i].z, mine[i].t>>]

\* What a game makes of a saved block entity, and what it is to make of it.
Missing == Array(String, <<>>)
Config(t) == <<Default(t, "loot_table", Str("reward")), Get(t, S("key_item"))>>
Meaning(t) ==
  [id |-> Of(t, "id").num, at |-> <<NumOf(t, "x"), NumOf(t, "y"), NumOf(t, "z")>>,
   loot |-> Default(t, "LootTable", Missing), seed |-> Default(t, "LootTableSeed", Number(Long, 0)),
   cooldown |-> Default(t, "TransferCooldown", Num(-1)), sherds |-> Get(t, S("sherds")),
   config |-> Config(Default(t, "config", Node(Compound))), normal |-> Get(t, S("normal_config")),
   entity |-> IF Get(t, S("SpawnData")) = {} THEN <<>> ELSE Of(Of(Of(t, "SpawnData"), "entity"), "id").num]
Intended(r) ==
  LET id == EntityOf[StateName[r.state].name]
      tpl == IF r.tpl = Null THEN Node(Compound) ELSE r.tpl
      loot == CASE id \in {"chest", "hopper", "decorated_pot"} -> Default(tpl, "LootTable", Array(String, r.loot))
                [] id = "brushable_block" -> Array(String, r.loot)
                [] OTHER -> Missing
      only(ids, set, other) == IF id \in ids THEN set ELSE other
  IN [id |-> S(id), at |-> <<r.x, r.y, r.z>>, loot |-> loot,
      seed |-> Number(Long, IF loot = Missing THEN 0 ELSE r.loot_seed),
      cooldown |-> only({"hopper"}, Default(tpl, "TransferCooldown", Num(-1)), Num(-1)),
      sherds |-> only({"decorated_pot"}, Get(tpl, S("sherds")), {}),
      config |-> Config(only({"vault"}, Default(tpl, "config", Node(Compound)), Node(Compound))),
      normal |-> only({"trial_spawner"}, Get(tpl, S("normal_config")), {}),
      entity |-> only({"mob_spawner"}, S(r.entity), <<>>)]

SameChunk(t, k) ==
  /\ t # Null /\ NumOf(t, "xPos") = k.c.cx /\ NumOf(t, "zPos") = k.c.cz
  /\ (Get(t, S("isLightOn")) # {}) = k.ls.enabled
  /\ SameSections(t, k)
  /\ SameTicks(t, k, "block_ticks", TRUE) /\ SameTicks(t, k, "fluid_ticks", FALSE)
  /\ LET bes == Of(t, "block_entities").kids
     IN [i \in DOMAIN bes |-> Meaning(bes[i])] = [i \in DOMAIN k.bes |-> Intended(k.bes[i])]
  /\ \A h \in DOMAIN k.c.heightmap_final :
       LET v == Unpacked(Of(Of(t, "Heightmaps"), h).num, HeightBits, Len(k.c.heightmap_final[h]))
       IN [i \in DOMAIN v |-> v[i] + MinY] = k.c.heightmap_final[h]
  /\ \A i \in DOMAIN k.refs : Of(Of(Of(t, "structures"), "References"), k.refs[i][1]).num = k.refs[i][2]

\* A region that was saved holds every chunk: palettes, light that was left
\* out, entities without their defaults and ticks sorted by chunk read back as
\* what was in memory; other places are empty.  A buffer that suffices is not refused
\* (hc_region.h:36), one that does not is not left, and only a chunk that needs
\* too many sectors ends the program.
ReadBack ==
  image # NoImage =>
    /\ image.failed => short > 0
    /\ Len(image.out) <= Needed(saved) - short
    /\ image.died => \E i \in DOMAIN saved : Room(saved[i].payload) > MaxSectors
    /\ image.out # Fail =>
         \A i \in 0 .. Side * Side - 1 :
           LET here == { j \in DOMAIN world.chunks : world.chunks[j].c.cx + Side * world.chunks[j].c.cz = i }
           IN IF here = {} THEN Entry(image.out, i) = <<0, 0, 0, 0>>
              ELSE \E t \in { Document(image.out, i) } : SameChunk(t, world.chunks[The(here)])
=============================================================================
