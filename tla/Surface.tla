------------------------------ MODULE Surface -------------------------------
(***************************************************************************)
(* Surface rules and the surface stage.                                    *)
(*                                                                         *)
(* Rules: a tree of rules and conditions read from JSON is compiled into   *)
(* flat arrays (core/src/surface_compile.c), the arrays into a program of  *)
(* tests with the address to go to when a test fails, and the program is   *)
(* run on one block (core/src/surface.c) with a context whose caches are   *)
(* stamped by two counters, one of columns and one of blocks.              *)
(*                                                                         *)
(* Stage (core/src/surface.c): column by column, from the top down, every  *)
(* stone is offered to the surface rules with what lies above and below    *)
(* it; before the rules a column may grow a pillar, after them ice.        *)
(* Afterwards the carvers ask for the top material of single positions,    *)
(* each time with a new context.                                           *)
(*                                                                         *)
(* JSON is a tree of records.  A name is << path >> or << space, path >>.  *)
(* Noises, biomes and random numbers are functions of the position.        *)
(***************************************************************************)
EXTENDS Integers, FiniteSets, SequencesExt

CONSTANTS
  Noise(_, _, _, _),  \* key, x, y, z
  Biome(_, _, _),     \* x, y, z
  Cold(_, _),         \* biome, y: cold enough to snow
  Width,              \* of a chunk: 16
  MinY, MaxY,
  SteepRise,          \* 4
  MaxRules, MaxConds, MaxChildren, MaxSamplers, MaxSeq,
  Scene,              \* records: json, the rule; col, (x, z) |-> a column
  Stone, Water, Air, Ice, Snow,
  SeaLevel

SurfaceAssumption == /\ Width \in Nat \ {0} /\ MinY \in Int /\ MaxY \in Int
                     /\ {MaxRules, MaxConds, MaxChildren, MaxSamplers, MaxSeq} \subseteq Nat

Null == -1                 \* no block; also a failed compilation
NoWater == -1000           \* INT32_MIN

\* norm_id, id_eq: a name without a space is minecraft's.
Mc(path) == <<"minecraft", path>>
NormId(name) == IF Len(name) = 1 THEN Mc(name[1]) ELSE name
-----------------------------------------------------------------------------
(* Compilation.  A system s is extended; the result names the new entry.   *)

EmptySystem == [rules |-> <<>>, conds |-> <<>>, children |-> <<>>, samplers |-> <<>>,
                prog |-> <<>>, root |-> Null]
Fail(s) == [s |-> s, at |-> Null]

\* emit_cond
EmitCond(s, k) ==
  IF Len(s.conds) >= MaxConds THEN Fail(s)
  ELSE [s |-> [s EXCEPT !.conds = Append(@, k)], at |-> Len(s.conds) + 1]

\* emit_rule
EmitRule(s, r) ==
  IF Len(s.rules) >= MaxRules THEN Fail(s)
  ELSE [s |-> [s EXCEPT !.rules = Append(@, r)], at |-> Len(s.rules) + 1]

\* sampler_index: one sampler of a noise in the plane, one in space.
SamplerIndex(s, ref, is3d) ==
  LET sp == [key |-> NormId(ref), is3d |-> is3d]
      known == { i \in DOMAIN s.samplers : s.samplers[i] = sp }
  IN IF known # {} THEN [s |-> s, at |-> CHOOSE i \in known : TRUE]
     ELSE IF Len(s.samplers) >= MaxSamplers THEN Fail(s)
     ELSE [s |-> [s EXCEPT !.samplers = Append(@, sp)], at |-> Len(s.samplers) + 1]

\* Conditions that are emitted as they are read.
Plain == {"gradient", "yabove", "water", "temperature", "steep", "hole", "prelim", "depth"}

\* compile_cond, compile_cond_typed: the inverted condition comes first.
RECURSIVE CompileCond(_, _)
CompileCond(s, j) ==
  CASE j.type = "biome" ->
         IF \E n \in j.names : n[1] = "#" THEN Fail(s)
         ELSE EmitCond(s, [kind |-> "biome", names |-> { NormId(n) : n \in j.names }])
    [] j.type = "noise" ->
         LET sp == SamplerIndex(s, j.noise, j.is3d)
         IN IF sp.at = Null THEN sp
            ELSE EmitCond(sp.s, [kind |-> "noise", sampler |-> sp.at, min |-> j.min, max |-> j.max])
    [] j.type = "not" ->
         LET inner == CompileCond(s, j.of)
         IN IF inner.at = Null THEN inner
            ELSE EmitCond(inner.s, [kind |-> "not", inner |-> inner.at])
    [] j.type \in Plain -> EmitCond(s, [kind |-> j.type, u |-> j.u])
    [] OTHER -> Fail(s)

\* compile_rule: children are compiled in their order and a sequence of one
\* is that one.
RECURSIVE CompileRule(_, _), CompileSeq(_, _, _)
CompileSeq(s, of, kids) ==
  IF of = <<>> THEN [s |-> s, at |-> 0, kids |-> kids]
  ELSE IF Len(kids) >= MaxSeq THEN [s |-> s, at |-> Null, kids |-> <<>>]
  ELSE LET r == CompileRule(s, of[1])
       IN IF r.at = Null THEN [s |-> r.s, at |-> Null, kids |-> <<>>]
          ELSE CompileSeq(r.s, Tail(of), Append(kids, r.at))

CompileRule(s, j) ==
  CASE j.type = "sequence" /\ Len(j.of) = 1 -> CompileRule(s, j.of[1])
    [] j.type = "sequence" /\ Len(j.of) # 1 ->
         LET c == CompileSeq(s, j.of, <<>>)
             first == Len(c.s.children) + 1
         IN IF c.at = Null \/ first - 1 + Len(c.kids) > MaxChildren THEN Fail(c.s)
            ELSE EmitRule([c.s EXCEPT !.children = @ \o c.kids],
                          [kind |-> "sequence", first |-> first, count |-> Len(c.kids)])
    [] j.type = "block" -> EmitRule(s, [kind |-> "block", block |-> j.block])
    [] j.type = "condition" ->
         LET c == CompileCond(s, j.if)
         IN IF c.at = Null THEN c
            ELSE LET r == CompileRule(c.s, j.then)
                 IN IF r.at = Null THEN r
                    ELSE EmitRule(r.s, [kind |-> "condition", cond |-> c.at, then |-> r.at])
    [] j.type = "bandlands" -> EmitRule(s, [kind |-> "bandlands"])
    [] OTHER -> Fail(s)

\* The children of a sequence.
Kids(s, r) == SubSeq(s.children, r.first, r.first + r.count - 1)

\* prog_size
RECURSIVE ProgSize(_, _)
ProgSize(s, ri) ==
  LET r == s.rules[ri]
  IN CASE r.kind = "sequence" -> FoldLeft(LAMBDA n, k : n + ProgSize(s, k), 0, Kids(s, r))
       [] r.kind = "condition" -> 1 + ProgSize(s, r.then)
       [] OTHER -> 1

\* prog_emit: the program of a rule that starts at address at; fpc is where
\* to go when the rule has no answer.  A child's is where the next one starts.
RECURSIVE ProgEmit(_, _, _, _)

NextStart(s, kids, i, off, fpc) ==
  IF i < Len(kids) THEN off + ProgSize(s, kids[i]) ELSE fpc

ProgEmit(s, ri, at, fpc) ==
  LET r == s.rules[ri]
      kids == Kids(s, r)
      off[i \in 1 .. Len(kids)] == IF i = 1 THEN at ELSE off[i - 1] + ProgSize(s, kids[i - 1])
  IN CASE r.kind = "sequence" ->
            FlattenSeq([i \in 1 .. Len(kids) |->
                          ProgEmit(s, kids[i], off[i], NextStart(s, kids, i, off[i], fpc))])
       [] r.kind = "condition" ->
            <<[kind |-> "test", cond |-> r.cond, fail |-> fpc]>> \o ProgEmit(s, r.then, at + 1, fpc)
       [] r.kind = "block" -> <<[kind |-> "block", block |-> r.block]>>
       [] OTHER -> <<[kind |-> "band"]>>

\* hc_surface_init: the tree compiled and laid out, with an answer of none
\* behind it; root = Null when it was refused.
LaidOut(c) ==
  LET np == ProgSize(c.s, c.at)
  IN IF c.at = Null \/ np > MaxRules THEN EmptySystem
     ELSE [c.s EXCEPT !.root = c.at,
                      !.prog = Append(ProgEmit(c.s, c.at, 1, np + 1), [kind |-> "null"])]
SurfaceInit(j) == LaidOut(CompileRule(EmptySystem, j))
-----------------------------------------------------------------------------
(* The context of a chunk. *)

\* ctx_init: counters one ahead of every stamp.
CtxInit(s) ==
  [lastXz |-> 1, lastY |-> 1, x |-> 0, z |-> 0, y |-> 0, depth |-> 0,
   secStamp |-> 0, sec |-> 0, mslStamp |-> 0, msl |-> 0, cellKey |-> <<>>, cell |-> <<>>,
   water |-> 0, above |-> 0, below |-> 0, biome |-> <<>>, steepStamp |-> 0, steep |-> FALSE,
   samStamp |-> [i \in DOMAIN s.samplers |-> 0], sam |-> [i \in DOMAIN s.samplers |-> 0]]

\* ctx_update_xz
UpdateXz(c, x, z) ==
  [c EXCEPT !.lastXz = @ + 1, !.lastY = @ + 1, !.x = x, !.z = z, !.depth = Noise(Mc("surface"), x, 0, z)]

\* Mutant of UpdateY: the biome of the block above is kept.
UpdateYKeepsBiome(c, above, below, water, y) ==
  [c EXCEPT !.lastY = @ + 1, !.y = y, !.water = water, !.below = below, !.above = above]

\* ctx_update_y
UpdateY(c, above, below, water, y) ==
  [c EXCEPT !.lastY = @ + 1, !.biome = <<>>, !.y = y,
            !.water = water, !.below = below, !.above = above]

\* ctx_biome
WithBiome(c) == IF c.biome = <<>> THEN [c EXCEPT !.biome = Biome(c.x, c.y, c.z)] ELSE c

\* ctx_surface_secondary
WithSecondary(c) ==
  IF c.secStamp = c.lastXz THEN c
  ELSE [c EXCEPT !.secStamp = c.lastXz, !.sec = Noise(Mc("secondary"), c.x, 0, c.z)]

\* The preliminary surface at the corners of a cell of 16 x 16 columns, and
\* between them.
CornersOf(x, z) ==
  LET at(i, k) == Noise(Mc("psl"), (x \div Width + i) * Width, 0, (z \div Width + k) * Width)
  IN <<at(0, 0), at(1, 0), at(0, 1), at(1, 1)>>
Between(p, x, z) ==
  LET tx == x % Width
      tz == z % Width
  IN ((Width - tz) * ((Width - tx) * p[1] + tx * p[2]) + tz * ((Width - tx) * p[3] + tx * p[4]))
       \div (Width * Width)

\* ctx_min_surface_level: one cache of the column, one of the cell's corners.
Lowered == 2      \* 8
WithMinSurface(c) ==
  IF c.mslStamp = c.lastXz THEN c
  ELSE LET key == <<c.x \div Width, c.z \div Width>>
           p == IF c.cellKey = key THEN c.cell ELSE CornersOf(c.x, c.z)
       IN [c EXCEPT !.mslStamp = c.lastXz, !.cellKey = key, !.cell = p,
                    !.msl = Between(p, c.x, c.z) + c.depth - Lowered]

\* sampler_value: stamped by the block in space, by the column in the plane.
WithSample(s, c, i) ==
  LET sp == s.samplers[i]
      stamp == IF sp.is3d THEN c.lastY ELSE c.lastXz
  IN IF c.samStamp[i] = stamp THEN c
     ELSE [c EXCEPT !.samStamp[i] = stamp,
                    !.sam[i] = Noise(sp.key, c.x, IF sp.is3d THEN c.y ELSE 0, c.z)]

\* steep_compute: the heights beside the column, within the chunk.
Steep(ws, x, z) ==
  LET lo(v) == IF (v % Width) > 0 THEN v - 1 ELSE v
      hi(v) == IF (v % Width) < Width - 1 THEN v + 1 ELSE v
  IN \/ ws[<<x, hi(z)>>] >= ws[<<x, lo(z)>>] + SteepRise
     \/ ws[<<lo(x), z>>] >= ws[<<hi(x), z>>] + SteepRise

\* The steep cache: the first test in a column decides.
WithSteep(c, ws) ==
  IF c.steepStamp = c.lastXz THEN c
  ELSE [c EXCEPT !.steepStamp = c.lastXz, !.steep = Steep(ws, c.x, c.z)]

\* The share of a vertical gradient, in hundredths.
Share(u, y) == (100 * (u.false - y)) \div (u.false - u.true)
\* The secondary depth: noise of -2 .. 2 for -1 .. 1.
Secondary(v, range) == ((v + 2) * range) \div 4

\* The conditions that read no cache.
TestPlain(kind, u, c) ==
  CASE kind = "gradient" -> \/ c.y <= u.true
                            \/ c.y < u.false /\ Noise(NormId(u.name), c.x, c.y, c.z) < Share(u, c.y)
    [] kind = "yabove" -> c.y + (IF u.stone THEN c.above ELSE 0) >= u.anchor + c.depth * u.mult
    [] kind = "water" -> \/ c.water = NoWater
                         \/ c.y + (IF u.stone THEN c.above ELSE 0) >= c.water + u.offset + c.depth * u.mult
    [] kind = "hole" -> c.depth <= 0

\* cond_test: the context after the test, its outcome, and what was tested.
RECURSIVE CondTest(_, _, _, _)
CondTest(s, c, ws, ci) ==
  LET k == s.conds[ci]
      after(d, v) == [c |-> d, v |-> v, kind |-> k.kind]
  IN CASE k.kind = "biome" -> LET d == WithBiome(c) IN after(d, d.biome \in k.names)
       [] k.kind = "noise" -> LET d == WithSample(s, c, k.sampler)
                              IN after(d, k.min <= d.sam[k.sampler] /\ d.sam[k.sampler] <= k.max)
       [] k.kind = "not" -> [CondTest(s, c, ws, k.inner) EXCEPT !.v = ~ @]
       [] k.kind = "temperature" -> LET d == WithBiome(c) IN after(d, Cold(d.biome, d.y))
       [] k.kind = "steep" -> LET d == WithSteep(c, ws) IN after(d, d.steep)
       [] k.kind = "prelim" -> LET d == WithMinSurface(c) IN after(d, d.y >= d.msl)
       [] k.kind = "depth" ->
            LET d == IF k.u.range # 0 THEN WithSecondary(c) ELSE c
            IN after(d, (IF k.u.ceiling THEN d.below ELSE d.above)
                          <= 1 + k.u.offset + (IF k.u.add THEN d.depth ELSE 0)
                               + (IF k.u.range # 0 THEN Secondary(d.sec, k.u.range) ELSE 0))
       [] OTHER -> after(c, TestPlain(k.kind, k.u, c))

\* hc_surface_band: what the bands hold at a height.
Band(x, y, z) == 100 + ((y + Noise(Mc("bands"), x, 0, z)) % 3)

\* prog_run from an address: the context, the answer and the kinds of
\* condition tested with their outcomes.
RECURSIVE ProgRun(_, _, _, _, _)
ProgRun(s, c, ws, pc, tested) ==
  LET op == s.prog[pc]
  IN CASE op.kind = "test" ->
            LET t == CondTest(s, c, ws, op.cond)
            IN ProgRun(s, t.c, ws, IF t.v THEN pc + 1 ELSE op.fail, Append(tested, <<t.kind, t.v>>))
       [] op.kind = "block" -> [c |-> c, res |-> op.block, tested |-> tested]
       [] op.kind = "band" -> [c |-> c, res |-> Band(c.x, c.y, c.z), tested |-> tested]
       [] op.kind = "null" -> [c |-> c, res |-> Null, tested |-> tested]
-----------------------------------------------------------------------------
(* The stage of a chunk. *)
Columns == (0 .. Width - 1) \X (0 .. Width - 1)
Ys == MinY .. MaxY
IntMax == 1000

VARIABLES scene,
          sys,      \* hc_surface_t
          ch,       \* the chunk: states, ws (the height map) and marks
          ctx,      \* hc_sctx_t of the stage
          at,       \* the column, its y, and its next step
          run,      \* stone_above, water_height, stone_bottom
          was,      \* the column as the rules found it
          latched,  \* the slope at the first test of steep in the column
          said      \* the last run of the program

vars == <<scene, sys, ch, ctx, at, run, was, latched, said>>
-----------------------------------------------------------------------------
(* Blocks. *)

IsAir(b) == b = Air
IsFluid(b) == b = Water
IsStone(b) == ~ IsAir(b) /\ ~ IsFluid(b)

\* col_get: air outside the world.
ColGet(c, xz, y) == IF y \in Ys THEN c.states[xz][y] ELSE Air

\* The height map of a column, kept by hc_hm_update_both.
TopOf(col) ==
  LET solid == { y \in Ys : ~ IsAir(col[y]) }
  IN IF solid = {} THEN MinY ELSE 1 + CHOOSE y \in solid : \A k \in solid : k <= y

\* col_set: a fluid is marked for post-processing.
ColSet(c, xz, y, b) ==
  IF y \notin Ys THEN c
  ELSE LET col == [c.states[xz] EXCEPT ![y] = b]
       IN [states |-> [c.states EXCEPT ![xz] = col],
           ws |-> [c.ws EXCEPT ![xz] = TopOf(col)],
           marks |-> IF IsFluid(b) THEN c.marks \cup {<<xz, y>>} ELSE c.marks]

Highest(S) == CHOOSE y \in S : \A k \in S : k <= y

\* eroded_badlands_ext: a pillar of stone down to the ground, unless water
\* comes before stone.
Pillar(c, xz, h1) ==
  LET pillar == Noise(Mc("pillar"), xz[1], 0, xz[2])
      top == Noise(Mc("pillartop"), xz[1], 0, xz[2])
      ends == { k \in MinY .. top : ColGet(c, xz, k) \in {Stone, Water} }
      wet == ends # {} /\ ColGet(c, xz, Highest(ends)) = Water
      ground == { k \in MinY .. top : ~ IsAir(ColGet(c, xz, k)) }
      low == IF ground = {} THEN MinY ELSE Highest(ground) + 1
      fill[k \in low - 1 .. top] ==       \* filled from the top down to k + 1
        IF k = top THEN c ELSE ColSet(fill[k + 1], xz, k + 1, Stone)
  IN IF pillar <= 0 \/ h1 > top \/ wet THEN c ELSE fill[low - 1]

\* frozen_ocean_ext: ice in the air above the sea and in its water, snow high
\* up; a random number is drawn only behind the guards.
Iceberg(s, c0, c, xz, h1) ==
  LET x == xz[1]
      z == xz[2]
      top == Noise(Mc("icetop"), x, 0, z)
      bottom == Noise(Mc("icebottom"), x, 0, z)
      roll(k) == Noise(Mc("iceroll"), x, k, z)
      minSnow == SeaLevel + roll(0)
      d == WithMinSurface(c0)
      start == IF h1 > top + 1 THEN h1 ELSE top + 1
      step(st, y) ==
        LET b == ColGet(st.c, xz, y)
            inAir == IsAir(b) /\ y < top
            inSea == b = Water /\ y > bottom /\ y < SeaLevel /\ bottom # 0
            place == (inAir /\ roll(st.k) > 0) \/ (inSea /\ roll(st.k) > 1)
            snow == st.snow <= 1 /\ y > minSnow
        IN [c |-> IF place THEN ColSet(st.c, xz, y, IF snow THEN Snow ELSE Ice) ELSE st.c,
            k |-> IF inAir \/ inSea THEN st.k + 1 ELSE st.k,
            snow |-> IF place /\ snow THEN st.snow + 1 ELSE st.snow]
      down == [i \in 1 .. (start - d.msl + 1) |-> start - i + 1]
  IN IF Noise(Mc("iceberg"), x, 0, z) <= 0 THEN [c |-> c, ctx |-> c0]
     ELSE [c |-> FoldLeft(step, [c |-> c, k |-> 1, snow |-> 0], down).c, ctx |-> d]
-----------------------------------------------------------------------------
(* The stage. *)

NotSaid == [res |-> Null, tested |-> <<>>, env |-> <<>>]

Init ==
  \E s \in Scene : \E compiled \in {SurfaceInit(s.json)} :
    /\ scene = s
    /\ sys = compiled
    /\ ch = [states |-> s.col, ws |-> [xz \in Columns |-> TopOf(s.col[xz])], marks |-> {}]
    /\ ctx = CtxInit(compiled)
    /\ at = [xz |-> <<0, 0>>, y |-> MinY, todo |-> IF compiled.root = Null THEN "refused" ELSE "column",
             h1 |-> MinY]
    /\ run = [above |-> 0, water |-> NoWater, bottom |-> IntMax]
    /\ was = s.col[<<0, 0>>]
    /\ latched = <<>>
    /\ said = NotSaid

ColumnBiome(xz, h1) == Biome(xz[1], h1, xz[2])

\* hc_gen_surface_stage: a column starts with its pillar, and its height is
\* read again.
StartColumn ==
  LET h1 == ch.ws[at.xz]
      c == IF ColumnBiome(at.xz, h1) = Mc("eroded_badlands") THEN Pillar(ch, at.xz, h1) ELSE ch
  IN /\ at.todo = "column"
     /\ ch' = c
     /\ ctx' = UpdateXz(ctx, at.xz[1], at.xz[2])
     /\ at' = [at EXCEPT !.y = c.ws[at.xz], !.todo = "block", !.h1 = h1]
     /\ run' = [above |-> 0, water |-> NoWater, bottom |-> IntMax]
     /\ was' = c.states[at.xz]
     /\ latched' = <<>>
     /\ said' = NotSaid
     /\ UNCHANGED <<scene, sys>>

\* The bottom of the run of stone that holds y: looked for when y has left the
\* last one; the row below the world is not stone.
Rescanned(c, xz, y, bottom) ==
  IF bottom < y THEN bottom
  ELSE Highest({ k \in MinY - 1 .. y - 1 : ~ IsStone(ColGet(c, xz, k)) }) + 1

NextBlock == IF at.y = MinY THEN [at EXCEPT !.todo = "end"] ELSE [at EXCEPT !.y = @ - 1]

\* Air ends what lies above; the first fluid below air is the surface.
PassBy ==
  LET st == ColGet(ch, at.xz, at.y)
  IN /\ at.todo = "block" /\ ~ IsStone(st)
     /\ run' = IF IsAir(st) THEN [run EXCEPT !.above = 0, !.water = NoWater]
               ELSE [run EXCEPT !.water = IF @ = NoWater THEN at.y + 1 ELSE @]
     /\ at' = NextBlock
     /\ said' = NotSaid
     /\ UNCHANGED <<scene, sys, ch, ctx, was, latched>>

\* What a run of the program was given and said.
Told(c, r, seen) ==
  [res |-> r.res, tested |-> r.tested,
   env |-> [x |-> c.x, y |-> c.y, z |-> c.z, depth |-> c.depth, above |-> c.above, below |-> c.below,
            water |-> c.water, slope |-> seen]]

Latch(r) == IF latched = <<>> /\ \E i \in DOMAIN r.tested : r.tested[i][1] = "steep"
            THEN <<Steep(ch.ws, at.xz[1], at.xz[2])>> ELSE latched

\* A stone: only the default block is offered to the rules.
Offer ==
  LET st == ColGet(ch, at.xz, at.y)
      bottom == Rescanned(ch, at.xz, at.y, run.bottom)
      c == UpdateY(ctx, run.above + 1, at.y - bottom + 1, run.water, at.y)
      r == ProgRun(sys, c, ch.ws, 1, <<>>)
      slope == IF latched = <<>> THEN Steep(ch.ws, at.xz[1], at.xz[2]) ELSE latched[1]
  IN /\ at.todo = "block" /\ IsStone(st)
     /\ run' = [run EXCEPT !.above = @ + 1, !.bottom = bottom]
     /\ at' = NextBlock
     /\ IF st = Stone
        THEN /\ ctx' = r.c
             /\ ch' = IF r.res # Null THEN ColSet(ch, at.xz, at.y, r.res) ELSE ch
             /\ latched' = Latch(r)
             /\ said' = Told(c, r, slope)
        ELSE /\ ctx' = c
             /\ said' = Told(c, [res |-> Null, tested |-> <<>>], slope)
             /\ UNCHANGED <<ch, latched>>
     /\ UNCHANGED <<scene, sys, was>>

\* The ice of a column, and the next column: x outside, z inside.
EndColumn ==
  LET frozen == ColumnBiome(at.xz, at.h1) = Mc("frozen_ocean")
      ice == Iceberg(sys, ctx, ch, at.xz, at.h1)
      x == at.xz[1]
      z == at.xz[2]
  IN /\ at.todo = "end"
     /\ ch' = IF frozen THEN ice.c ELSE ch
     /\ ctx' = IF frozen THEN ice.ctx ELSE ctx
     /\ at' = [at EXCEPT !.xz = IF z + 1 < Width THEN <<x, z + 1>> ELSE <<(x + 1) % Width, 0>>,
                         !.todo = IF <<x, z>> = <<Width - 1, Width - 1>> THEN "done" ELSE "column"]
     /\ said' = NotSaid
     /\ UNCHANGED <<scene, sys, run, was, latched>>

\* hc_surface_top_material, for the carvers.
TopMaterial ==
  \E xz \in Columns, y \in Ys, fluid \in BOOLEAN :
    LET c == UpdateY(UpdateXz(CtxInit(sys), xz[1], xz[2]), 1, 1, IF fluid THEN y + 1 ELSE NoWater, y)
    IN /\ at.todo = "done"
       /\ said' = Told(c, ProgRun(sys, c, ch.ws, 1, <<>>), Steep(ch.ws, xz[1], xz[2]))
       /\ at' = [at EXCEPT !.todo = "asked"]
       /\ UNCHANGED <<scene, sys, ch, ctx, run, was, latched>>

Next == StartColumn \/ PassBy \/ Offer \/ EndColumn \/ TopMaterial
Spec == Init /\ [][Next]_vars
-----------------------------------------------------------------------------
(* What a rule means: read from the tree, with no cache. *)

\* A condition of the tree at a position.
RECURSIVE Holds(_, _)
Holds(j, e) ==
  CASE j.type = "biome" -> Biome(e.x, e.y, e.z) \in { NormId(n) : n \in j.names }
    [] j.type = "noise" ->
         LET v == Noise(NormId(j.noise), e.x, IF j.is3d THEN e.y ELSE 0, e.z) IN j.min <= v /\ v <= j.max
    [] j.type = "not" -> ~ Holds(j.of, e)
    [] j.type = "temperature" -> Cold(Biome(e.x, e.y, e.z), e.y)
    [] j.type = "steep" -> e.slope
    [] j.type = "prelim" -> e.y >= Between(CornersOf(e.x, e.z), e.x, e.z) + e.depth - Lowered
    [] j.type = "depth" ->
         (IF j.u.ceiling THEN e.below ELSE e.above)
            <= 1 + j.u.offset + (IF j.u.add THEN e.depth ELSE 0)
                 + (IF j.u.range = 0 THEN 0 ELSE Secondary(Noise(Mc("secondary"), e.x, 0, e.z), j.u.range))
    [] OTHER -> TestPlain(j.type, j.u, e)

\* What a condition, or the one it inverts, is about.
RECURSIVE Subject(_)
Subject(j) == IF j.type = "not" THEN Subject(j.of) ELSE j.type

\* The first child with an answer; the tests on the way to it, in their order.
RECURSIVE Means(_, _)
Means(j, e) ==
  CASE j.type = "block" -> [res |-> j.block, tested |-> <<>>]
    [] j.type = "bandlands" -> [res |-> Band(e.x, e.y, e.z), tested |-> <<>>]
    [] j.type = "condition" ->
         LET v == Holds(j.if, e)
             m == IF v THEN Means(j.then, e) ELSE [res |-> Null, tested |-> <<>>]
         IN [m EXCEPT !.tested = <<<<Subject(j.if), v>>>> \o @]
    [] j.type = "sequence" ->
         FoldLeft(LAMBDA m, k : IF m.res # Null THEN m
                                ELSE LET n == Means(k, e) IN [n EXCEPT !.tested = m.tested \o @],
                  [res |-> Null, tested |-> <<>>], j.of)

\* The program, with its caches, answers as the tree does without them, and
\* tests the same conditions in the same order: surface.c:389-419 claims it of
\* prog_run, surface.c:9-18 of the caches.
AsTheTree ==
  said.env # <<>> =>
    \/ at.todo # "asked" /\ was[said.env.y] # Stone
    \/ LET m == Means(scene.json, said.env) IN said.res = m.res /\ said.tested = m.tested

\* The blocks from y up to the first air.
Above(y) == { k \in y .. MaxY : \A i \in y .. k : ~ IsAir(was[i]) }
Below(y) == { k \in MinY .. y : \A i \in k .. y : IsStone(was[i]) }

\* A stone is offered with the stones above it back to the last air, fluids
\* between them not counted, with the stones below it without a gap, and with
\* the highest fluid since the last air, whatever the rules wrote above it.
Depths ==
  said.env # <<>> /\ at.todo # "asked" =>
    LET y == said.env.y
        wet == { k \in Above(y) : IsFluid(was[k]) }
    IN /\ said.env.above = Cardinality({ k \in Above(y) : IsStone(was[k]) })
       /\ said.env.below = Cardinality(Below(y))
       /\ said.env.water = IF wet = {} THEN NoWater ELSE Highest(wet) + 1

\* Each stone of a column is asked about with the right depths and gets the
\* answer of the tree.
RulesSound == AsTheTree /\ Depths
=============================================================================
