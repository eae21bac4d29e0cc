----------------------------- MODULE Heightmaps -----------------------------
(***************************************************************************)
(* The height maps of one chunk, from the noise fill to the save.          *)
(* gen_noise_stage.c, surface.c and carvers.c keep the two *_WG maps up to *)
(* date block by block; features.c then freezes them and keeps the four    *)
(* final maps, each of which comes into being on the first write to the    *)
(* chunk or the first read of that map, whichever is earlier.  All updates *)
(* are incremental; ore veins write blocks without any update at all.      *)
(***************************************************************************)
EXTENDS Integers, FiniteSets

CONSTANTS
  Column,          \* the columns of the chunk (256 in the code)
  MinY, MaxY,      \* HC_MIN_Y, HC_MAX_Y
  Material,        \* the blocks, as far as the predicates tell them apart
  Air,             \* HC_B_AIR
  AirLike,         \* hc_block_is_air
  Motion,          \* hc_block_blocks_motion
  Fluid,           \* hc_block_fluid_nonempty
  Leaves,          \* hc_block_is_leaves
  OreTarget, Ore   \* what an ore vein replaces, and what it places

ASSUME BoundsAssumption == MinY \in Int /\ MaxY \in Int /\ MinY <= MaxY

ASSUME MaterialAssumption ==
  /\ Air \in AirLike /\ Ore \in Material
  /\ AirLike \subseteq Material /\ Motion \subseteq Material
  /\ Fluid \subseteq Material /\ Leaves \subseteq Material
  /\ AirLike \cap (Motion \cup Fluid) = {}

\* A vein replaces stone by ore: no predicate tells the two apart.
ASSUME OreAssumption ==
  /\ OreTarget \subseteq Material
  /\ \A m \in OreTarget, S \in {AirLike, Motion, Fluid, Leaves} : m \in S <=> Ore \in S

VARIABLES
  block,    \* states[]: column -> y -> material
  wg,       \* heightmap_ocean_floor, heightmap_ws
  final,    \* heightmap_final
  primed,   \* hm_final_primed
  stage,    \* where the chunk is in the pipeline
  fillY,    \* the next y of each column the fill visits, downwards
  decorated \* its own decoration has begun

vars == <<block, wg, final, primed, stage, fillY, decorated>>

Level == MinY .. MaxY
Height == MinY .. (MaxY + 1)
FinalType == {"OCEAN_FLOOR", "WORLD_SURFACE", "MOTION_BLOCKING",
              "MOTION_BLOCKING_NO_LEAVES"}
WgType == {"OCEAN_FLOOR", "WORLD_SURFACE"}

\* What a map of each type counts as ground.
Opaque(t) ==
  CASE t = "OCEAN_FLOOR" -> Motion
    [] t = "WORLD_SURFACE" -> Material \ AirLike
    [] t = "MOTION_BLOCKING" -> Motion \cup Fluid
    [] t = "MOTION_BLOCKING_NO_LEAVES" -> (Motion \cup Fluid) \ Leaves

\* h is one above the highest member of S in column b, looking from y down.
IsHighest(b, S, y, h) ==
  /\ h \in MinY .. (y + 1)
  /\ h > MinY => b[h - 1] \in S
  /\ \A z \in h .. y : b[z] \notin S

ScanDown(b, S, y) == CHOOSE h \in MinY .. (y + 1) : IsHighest(b, S, y, h)

\* hm_prime_one for column c of a map of type t.
Primed(b, t) == ScanDown(b, Opaque(t), MaxY)

\* hm_update: the entry after column b got its new block at y.
Updated(first, b, t, y) ==
  CASE b[y] \in Opaque(t) /\ y >= first -> y + 1
    [] b[y] \notin Opaque(t) /\ y = first - 1 -> ScanDown(b, Opaque(t), y - 1)
    [] OTHER -> first

Init ==
  /\ block = [c \in Column |-> [y \in Level |-> Air]]
  /\ wg = [t \in WgType |-> [c \in Column |-> MinY]]
  /\ final = [t \in FinalType |-> [c \in Column |-> MinY]]
  /\ primed = {}
  /\ stage = "fill"
  /\ fillY = [c \in Column |-> MaxY]
  /\ decorated = FALSE

\* hc_hm_update_both: a block and the two *_WG maps.
PutWg(c, y, m) ==
  LET b == [block[c] EXCEPT ![y] = m] IN
  /\ block' = [block EXCEPT ![c] = b]
  /\ wg' = [t \in WgType |-> [wg[t] EXCEPT ![c] = Updated(wg[t][c], b, t, y)]]

\* hc_gen_noise_stage: each column downwards, air is not written.
Fill(c, m) ==
  /\ stage = "fill" /\ fillY[c] >= MinY
  /\ fillY' = [fillY EXCEPT ![c] = @ - 1]
  /\ \/ m # Air /\ PutWg(c, fillY[c], m)
     \/ m = Air /\ UNCHANGED <<block, wg>>
  /\ UNCHANGED <<final, primed, stage, decorated>>

\* col_set of surface.c: any block of the column may be replaced.
SurfaceSet(c, y, m) ==
  /\ stage = "surface"
  /\ PutWg(c, y, m)
  /\ UNCHANGED <<final, primed, stage, fillY, decorated>>

\* col_set of carvers.c.
CarverSet(c, y, m) ==
  /\ stage = "carvers"
  /\ PutWg(c, y, m)
  /\ UNCHANGED <<final, primed, stage, fillY, decorated>>

NextStage ==
  /\ \/ stage = "fill" /\ (\A c \in Column : fillY[c] < MinY) /\ stage' = "surface"
     \/ stage = "surface" /\ stage' = "carvers"
     \/ stage = "carvers" /\ stage' = "features"
  /\ UNCHANGED <<block, wg, final, primed, fillY, decorated>>

\* The final maps b would have after hm_prime_one of the types in T.
PrimeAll(T, b) ==
  [t \in FinalType |-> [c \in Column |->
     IF t \in T THEN Primed(b[c], t) ELSE final[t][c]]]

\* hc_feat_set_block, hc_feat_set_block_ks: prime what is missing, update all.
SetBlock(c, y, m) ==
  LET b == [block EXCEPT ![c][y] = m]
      f == PrimeAll(FinalType \ primed, b)
  IN /\ block' = b
     /\ primed' = FinalType
     /\ final' = [t \in FinalType |->
                    [f[t] EXCEPT ![c] = Updated(f[t][c], b[c], t, y)]]

\* A write of the chunk's own decoration, of a neighbour's or of a post-process.
Place(c, y, m) ==
  /\ stage = "features"
  /\ SetBlock(c, y, m)
  /\ UNCHANGED <<wg, stage, fillY, decorated>>

\* Mutant: a vein grows into any block.
OreGrows(c, y) ==
  /\ stage = "features"
  /\ block' = [block EXCEPT ![c][y] = Ore]
  /\ UNCHANGED <<wg, final, primed, stage, fillY, decorated>>

\* ore_do_place: the states are written directly.
OrePlace(c, y) ==
  /\ stage = "features"
  /\ block[c][y] \in OreTarget
  /\ block' = [block EXCEPT ![c][y] = Ore]
  /\ UNCHANGED <<wg, final, primed, stage, fillY, decorated>>

\* hc_feat_height of a final map: a missing map is primed, that one only.
ReadHeight(t) ==
  /\ stage = "features"
  /\ t \notin primed
  /\ final' = PrimeAll({t}, block)
  /\ primed' = primed \cup {t}
  /\ UNCHANGED <<block, wg, stage, fillY, decorated>>

\* hc_gen_features_chunk: the entry of the chunk's own decoration.
Decorate ==
  /\ stage = "features" /\ ~decorated
  /\ final' = PrimeAll(FinalType, block)
  /\ primed' = FinalType
  /\ decorated' = TRUE
  /\ UNCHANGED <<block, wg, stage, fillY>>

\* The chunk is serialized: hc_chunk_nbt writes final, whatever primed says.
Save ==
  /\ stage = "features" /\ decorated
  /\ stage' = "saved"
  /\ UNCHANGED <<block, wg, final, primed, fillY, decorated>>

Next ==
  \/ \E c \in Column, m \in Material : Fill(c, m)
  \/ \E c \in Column, y \in Level, m \in Material :
       SurfaceSet(c, y, m) \/ CarverSet(c, y, m) \/ Place(c, y, m)
  \/ \E c \in Column, y \in Level : OrePlace(c, y)
  \/ \E t \in FinalType : ReadHeight(t)
  \/ NextStage \/ Decorate \/ Save

Spec == Init /\ [][Next]_vars

-----------------------------------------------------------------------------
TypeOK ==
  /\ block \in [Column -> [Level -> Material]]
  /\ wg \in [WgType -> [Column -> Height]]
  /\ final \in [FinalType -> [Column -> Height]]
  /\ primed \subseteq FinalType
  /\ stage \in {"fill", "surface", "carvers", "features", "saved"}
  /\ fillY \in [Column -> (MinY - 1) .. MaxY]
  /\ decorated \in BOOLEAN

\* Until the carvers are done the two *_WG maps are what a scan of the finished
\* column would give (surface.c walks down from them and must not start too low;
\* the comment at hm_update in features.c calls the value a pure function of the
\* final blocks).
WgExact ==
  stage \in {"fill", "surface", "carvers"} =>
    \A t \in WgType, c \in Column : IsHighest(block[c], Opaque(t), MaxY, wg[t][c])

\* A final map that exists agrees with the blocks in every column, whichever
\* write or read brought it into being and whatever veins were placed since.
FinalExact ==
  \A t \in primed, c \in Column : IsHighest(block[c], Opaque(t), MaxY, final[t][c])

\* All four maps that are saved agree with the blocks that are saved.
SavedExact ==
  stage = "saved" =>
    \A t \in FinalType, c \in Column : IsHighest(block[c], Opaque(t), MaxY, final[t][c])

\* Every map agrees with the blocks as long as anybody reads it: the *_WG maps
\* up to the carvers, a final map once it exists, all four when they are saved.
MapsExact == WgExact /\ FinalExact /\ SavedExact
=============================================================================
