------------------------------ MODULE Aquifer ------------------------------
(***************************************************************************)
(* The aquifer of a chunk (core/src/aquifer.c): what fills a block that is *)
(* not solid.  Space is divided into cells of 16 x 12 x 16 blocks, each    *)
(* with one source at a random place in it; a block asks the four nearest  *)
(* sources of twelve cells for their fluids and sees whether the pressure  *)
(* between them leaves a barrier.  Sources, their fluids and the           *)
(* preliminary surface (core/src/noise_chunk.c) are found when first asked *)
(* for and kept, so the state depends on what was asked before; the answer *)
(* must not.                                                               *)
(*                                                                         *)
(* Densities count in 1/750, barriers in 1/60, other noises in hundredths  *)
(* (of a block, where a noise is a height).                                *)
(***************************************************************************)
EXTENDS Integers, FiniteSets, SequencesExt

CONSTANTS
  World,              \* names of worlds
  Noise(_, _, _),     \* world, name, position
  Random(_, _),       \* cell, a number of 0 .. 2: where its source is
  ChunkPos,           \* chunks asked about
  Query(_),           \* of a chunk: << x, y, z, density >>
  Asks,               \* bound: how many times a chunk is asked
  MinY, Height, SeaLevel,
  PslCap,             \* 4096
  Hash(_)             \* of a quart column

AquiferAssumption == Asks \in Nat /\ PslCap \in Nat \ {0} /\ Height \in Nat /\ MinY \in Int

Far == 1000000           \* INT32_MAX
WayBelow == -32512
Dry == "air"
Lava == "lava"
Water == "water"
Solid == "solid"         \* no fluid: -1
AbsInt(n) == IF n < 0 THEN - n ELSE n

VARIABLES world, chunk,
          aq,     \* hc_aquifer_t and the surface memo: loc, fs, skip, flag, psl, abort
          said    \* the last question and its answer
vars == <<world, chunk, aq, said>>
-----------------------------------------------------------------------------
(* Cells. *)

GridXZ(v) == v \div 16
GridY(v) == v \div 12

\* bp_pack, bp_x, bp_y, bp_z: 26, 12 and 26 bits; the largest word marks an
\* unknown source.
Pack(p) == <<p[1] % 2^26, p[2] % 2^12, p[3] % 2^26>>
Unknown == <<2^26 - 1, 2^12 - 1, 2^26 - 1>>
Signed(v, bits) == IF v >= 2^(bits - 1) THEN v - 2^bits ELSE v
Unpack(l) == <<Signed(l[1], 26), Signed(l[2], 12), Signed(l[3], 26)>>

\* hc_aquifer_init: the cells of a chunk.
Grid(c) ==
  LET lo(b) == GridXZ(b - 5)
      size(b) == GridXZ(b + 15 - 5) + 1 - lo(b) + 1
      y0 == GridY(MinY + 1) - 1
  IN [x |-> lo(16 * c[1]), y |-> y0, z |-> lo(16 * c[2]),
      nx |-> size(16 * c[1]), ny |-> GridY(MinY + Height + 1) + 1 - y0 + 1, nz |-> size(16 * c[2])]

\* cell_index, with its assertion.
CellIndex(g, cell) ==
  LET i == ((cell[2] - g.y) * g.nz + cell[3] - g.z) * g.nx + cell[1] - g.x
  IN IF i \in 0 .. g.nx * g.ny * g.nz - 1 THEN i ELSE -1

\* The source of a cell: three random numbers in turn.
Source(cell) == <<16 * cell[1] + (Random(cell, 0) % 10), 12 * cell[2] + (Random(cell, 1) % 9),
                  16 * cell[3] + (Random(cell, 2) % 10)>>

\* The twelve cells around a block, in the order of the scan.
Scan(p) ==
  LET b == <<GridXZ(p[1] - 5), GridY(p[2] + 1), GridXZ(p[3] - 5)>>
  IN [n \in 1 .. 12 |-> <<b[1] + (n - 1) \div 6, b[2] + (((n - 1) \div 2) % 3) - 1, b[3] + ((n - 1) % 2)>>]
-----------------------------------------------------------------------------
(* The preliminary surface. *)

Quart(v) == (v \div 4) * 4
PslAt(w, x, z) == Noise(w, "psl", <<Quart(x), 0, Quart(z)>>) \div 100

\* hc_nc_psl: a table of quart columns, probed from its hash; it is an error
\* when it is full.
RECURSIVE Probe(_, _, _, _)
Probe(psl, key, i, left) ==
  IF left = 0 \/ i \notin DOMAIN psl \/ psl[i].key = key THEN (IF left = 0 THEN -1 ELSE i)
  ELSE Probe(psl, key, (i + 1) % PslCap, left - 1)

Psl(w, a, x, z) ==
  LET key == <<Quart(x), Quart(z)>>
      i == Probe(a.psl, key, Hash(key) % PslCap, PslCap)
      v == PslAt(w, x, z)
  IN IF i = -1 THEN [a |-> [a EXCEPT !.abort = TRUE], v |-> 0]
     ELSE IF i \in DOMAIN a.psl THEN [a |-> a, v |-> a.psl[i].v]
     ELSE [a |-> [a EXCEPT !.psl = (i :> [key |-> key, v |-> v]) @@ @], v |-> v]

\* nc_max_psl over the cells of a chunk, row by row, fills the table first: n columns of
\* the row at z from x on, then the rows of a grid from the n-th on.
RECURSIVE RowPsl(_, _, _, _, _, _)
RowPsl(w, a, x, z, n, best) ==
  LET s == Psl(w, a, x, z)
  IN IF n = 0 THEN [a |-> a, v |-> best]
     ELSE IF s.v > best THEN RowPsl(w, s.a, x + 4, z, n - 1, s.v) ELSE RowPsl(w, s.a, x + 4, z, n - 1, best)

Quarts(cells) == (16 * (cells - 1) + 9) \div 4 + 1
RECURSIVE MaxPsl(_, _, _, _, _)
MaxPsl(w, a, g, n, best) ==
  LET s == RowPsl(w, a, 16 * g.x, 16 * g.z + 4 * n, Quarts(g.nx), best)
  IN IF n = Quarts(g.nz) THEN [a |-> a, v |-> best]
     ELSE IF s.v > best THEN MaxPsl(w, s.a, g, n + 1, s.v) ELSE MaxPsl(w, s.a, g, n + 1, best)
-----------------------------------------------------------------------------
(* Fluids: a level and a type. *)

\* global_picker
GlobalFluid(y) ==
  IF y < (IF SeaLevel < -54 THEN SeaLevel ELSE -54) THEN [level |-> -54, type |-> Lava]
  ELSE [level |-> SeaLevel, type |-> Water]

\* fs_at
At(fs, y) == IF y < fs.level THEN fs.type ELSE Dry

\* mth_map of the dampener, in hundredths: 0 .. 100.
Damped(d, whole, none) == whole + ((100 - d) * (none - whole)) \div 100
ClampTo(v, lo, hi) == IF v < lo THEN lo ELSE IF v > hi THEN hi ELSE v

\* compute_surface_level
SurfaceLevel(w, p, def, minPrelim, centerFluid) ==
  LET deepDark == Noise(w, "erosion", p) < -22 /\ Noise(w, "depth", p) >= 90
      dist == minPrelim + 8 - p[2]
      damp == IF centerFluid THEN 100 - ClampTo((dist * 100) \div 64, 0, 100) ELSE 0
      flood == ClampTo(Noise(w, "flood", p), -100, 100)
      d1 == IF deepDark THEN -100 ELSE flood - Damped(damp, -80, 40)
      d2 == IF deepDark THEN -100 ELSE flood - Damped(damp, -30, 80)
      cell == <<p[1] \div 16, p[2] \div 40, p[3] \div 16>>
      level == cell[2] * 40 + 20 + (Noise(w, "spread", cell) \div 30) * 3
  IN IF d2 > 0 THEN def.level
     ELSE IF d1 > 0 THEN (IF minPrelim < level THEN minPrelim ELSE level)
     ELSE WayBelow

\* compute_fluid_type
FluidType(w, p, def, level) ==
  IF /\ level <= -10 /\ level # WayBelow /\ def.type # Lava
     /\ AbsInt(Noise(w, "lava", <<p[1] \div 64, p[2] \div 40, p[3] \div 64>>)) > 30
  THEN Lava ELSE def.type

SurfOffs == << <<0, 0>>, <<-2, -1>>, <<-1, -1>>, <<0, -1>>, <<1, -1>>, <<-3, 0>>, <<-2, 0>>,
               <<-1, 0>>, <<1, 0>>, <<-2, 1>>, <<-1, 1>>, <<0, 1>>, <<1, 1>> >>

\* compute_fluid, from the i-th surface sample on; s is what that sample says.
RECURSIVE FluidFrom(_, _, _, _, _, _)
FluidStep(w, s, p, i, minPrelim, centerFluid) ==
  LET top == s.v + 8
      near == p[2] + 12 > top
      wet == (near \/ i = 1) /\ At(GlobalFluid(top), top) # Dry
  IN IF i = 1 /\ p[2] - 12 > top THEN [a |-> s.a, fs |-> GlobalFluid(p[2])]
     ELSE IF wet /\ near THEN [a |-> s.a, fs |-> GlobalFluid(top)]
     ELSE FluidFrom(w, s.a, p, i + 1, IF s.v < minPrelim THEN s.v ELSE minPrelim, centerFluid \/ (wet /\ i = 1))

OfLevel(w, a, p, level) ==
  [a |-> a, fs |-> [level |-> level, type |-> FluidType(w, p, GlobalFluid(p[2]), level)]]

FluidFrom(w, a, p, i, minPrelim, centerFluid) ==
  IF i > 13 THEN OfLevel(w, a, p, SurfaceLevel(w, p, GlobalFluid(p[2]), minPrelim, centerFluid))
  ELSE FluidStep(w, Psl(w, a, p[1] + 16 * SurfOffs[i][1], p[3] + 16 * SurfOffs[i][2]),
                 p, i, minPrelim, centerFluid)

\* get_status: the source of a cell is known before its fluid is asked for.
Kept(f, idx) == [a |-> [f.a EXCEPT !.fs = (idx :> f.fs) @@ @], fs |-> f.fs]
Status(w, a, idx) ==
  IF idx \in DOMAIN a.fs THEN [a |-> a, fs |-> a.fs[idx]]
  ELSE IF idx \notin DOMAIN a.loc \/ a.loc[idx] = Unknown THEN [a |-> [a EXCEPT !.abort = TRUE], fs |-> GlobalFluid(0)]
  ELSE Kept(FluidFrom(w, a, Unpack(a.loc[idx]), 1, Far, FALSE), idx)

\* calc_pressure, in sixtieths, without its factor 2: between fluids of two
\* levels, at most in the middle of them.
Pressure(w, p, f1, f2) ==
  LET diff == AbsInt(f1.level - f2.level)
      twiceDelta == 2 * p[2] + 1 - (f1.level + f2.level)
      t == diff - AbsInt(twiceDelta)
      q == IF twiceDelta > 0 THEN (IF t > 0 THEN t * 20 ELSE t * 12)
           ELSE IF 6 + t > 0 THEN (6 + t) * 10 ELSE (6 + t) * 3
  IN IF {At(f1, p[2]), At(f2, p[2])} = {Lava, Water} THEN 60
     ELSE IF diff = 0 THEN 0
     ELSE q + (IF q < -120 \/ q > 120 THEN 0 ELSE Noise(w, "barrier", p))
-----------------------------------------------------------------------------
(* A block asked for. *)

\* The four nearest so far: a source goes before those not nearer than it.
Insert(near, c, d) ==
  LET before == { n \in 1 .. Len(near) : near[n].d < d }
  IN SubSeq(InsertAt(near, Cardinality(before) + 1, [c |-> c, d |-> d]), 1, 4)

Distance(p, s) == (s[1] - p[1]) * (s[1] - p[1]) + (s[2] - p[2]) * (s[2] - p[2]) + (s[3] - p[3]) * (s[3] - p[3])
Nobody == [n \in 1 .. 4 |-> [c |-> 0, d |-> Far]]

\* The scan: sources are found and kept.
Nearest(g, a0, p) ==
  FoldLeft(LAMBDA st, cell :
             LET i == CellIndex(g, cell)
                 known == i \in DOMAIN st.a.loc /\ st.a.loc[i] # Unknown
                 l == IF known THEN st.a.loc[i] ELSE Pack(Source(cell))
             IN IF i = -1 THEN [st EXCEPT !.a.abort = TRUE]
                ELSE [a |-> [st.a EXCEPT !.loc = (i :> l) @@ @],
                      near |-> Insert(st.near, i, Distance(p, Unpack(l)))],
           [a |-> a0, near |-> Nobody], Scan(p))

\* similarity, in parts of 25; FLOWING_UPDATE_SIMULARITY is of 10^2 and 12^2.
Sim(d1, d2) == 25 - (d2 - d1)
Flowing == Sim(100, 144)

Answer(a, flag, b) == [a |-> [a EXCEPT !.flag = flag], b |-> b]

\* hc_aquifer_substance behind its early returns: from the nearest four, as far
\* as they are needed.  s1 .. s4 are their fluids, each behind the ones before.
Close(near, i, k) == Sim(near[i].d, near[k].d)
Holds(density, k, push) == density * 25^k + push > 0

Flows(near, s1, s2, s3) ==
  \/ s1.fs # s2.fs
  \/ Close(near, 2, 3) >= Flowing /\ s2.fs # s3.fs
  \/ Close(near, 1, 3) >= Flowing /\ s1.fs # s3.fs

WeighThree(w, s1, s2, s3, near, p, density) ==
  LET c12 == Close(near, 1, 2)
      b == At(s1.fs, p[2])
      push13 == c12 * Close(near, 1, 3) * Pressure(w, p, s1.fs, s3.fs)
      push23 == c12 * Close(near, 2, 3) * Pressure(w, p, s2.fs, s3.fs)
      other(s4) == Answer(s4.a, s1.fs # s4.fs, b)
  IN IF \/ Close(near, 1, 3) > 0 /\ Holds(density, 1, push13)
        \/ Close(near, 2, 3) > 0 /\ Holds(density, 1, push23) THEN Answer(s3.a, FALSE, Solid)
     ELSE IF Flows(near, s1, s2, s3) THEN Answer(s3.a, TRUE, b)
     ELSE IF Close(near, 1, 3) >= Flowing /\ Close(near, 1, 4) >= Flowing
     THEN other(Status(w, s3.a, near[4].c)) ELSE Answer(s3.a, FALSE, b)

WeighTwo(w, s1, s2, near, p, density) ==
  IF Close(near, 1, 2) <= 0 THEN Answer(s2.a, s1.fs # s2.fs, At(s1.fs, p[2]))
  ELSE IF Holds(density, 0, Close(near, 1, 2) * Pressure(w, p, s1.fs, s2.fs)) THEN Answer(s2.a, FALSE, Solid)
  ELSE WeighThree(w, s1, s2, Status(w, s2.a, near[3].c), near, p, density)

WeighOne(w, s1, near, p, density) ==
  LET b == At(s1.fs, p[2])
      far == Close(near, 1, 2) <= 0
  IN IF far /\ Close(near, 1, 2) < Flowing THEN Answer(s1.a, FALSE, b)
     ELSE IF ~ far /\ b = Water /\ At(GlobalFluid(p[2] - 1), p[2] - 1) = Lava THEN Answer(s1.a, TRUE, b)
     ELSE WeighTwo(w, s1, Status(w, s1.a, near[2].c), near, p, density)

Weigh(w, a0, near, p, density) == WeighOne(w, Status(w, a0, near[1].c), near, p, density)

\* The early returns: solid, above every surface, in the deep lava.
Early(skip, p, density) == density > 0 \/ p[2] > skip \/ At(GlobalFluid(p[2]), p[2]) = Lava
EarlyBlock(p, density) == IF density > 0 THEN Solid ELSE At(GlobalFluid(p[2]), p[2])

Found(w, n, p, density) == Weigh(w, n.a, n.near, p, density)

\* Mutant of Substance: an early return leaves the flag as it was.
SubstanceKeepsFlag(w, c, a, p, density) ==
  IF Early(a.skip, p, density) THEN Answer(a, a.flag, EarlyBlock(p, density))
  ELSE Found(w, Nearest(Grid(c), a, p), p, density)

\* hc_aquifer_substance: the block, and in flag whether its fluid will flow.
Substance(w, c, a, p, density) ==
  IF Early(a.skip, p, density) THEN Answer(a, FALSE, EarlyBlock(p, density))
  ELSE Found(w, Nearest(Grid(c), a, p), p, density)
-----------------------------------------------------------------------------
Nothing == [x \in {} |-> 0]

\* hc_aquifer_init: empty caches; skip_sampling_above_y from the highest surface.
Fresh(w, c) ==
  LET m == MaxPsl(w, [loc |-> Nothing, fs |-> Nothing, psl |-> Nothing, skip |-> 0, flag |-> FALSE, abort |-> FALSE],
                  Grid(c), 0, WayBelow)
  IN [m.a EXCEPT !.skip = (GridY(m.v + 8 + 12) + 1) * 12 + 11 - 1]

Init == /\ world \in World /\ chunk \in ChunkPos
        /\ aq = Fresh(world, chunk)
        /\ said = [n |-> 0, q |-> << >>, b |-> Dry]

Ask == /\ said.n < Asks
       /\ \E q \in Query(chunk) : \E r \in {Substance(world, chunk, aq, SubSeq(q, 1, 3), q[4])} :
            /\ aq' = r.a
            /\ said' = [n |-> said.n + 1, q |-> q, b |-> r.b]
       /\ UNCHANGED <<world, chunk>>

\* hc_aquifer_debug_cell: the fluid of a cell for a diagnosis; it is not kept,
\* the surfaces it looks up are.  Bound: it is asked for before the questions.
Inspect == /\ said.n = 0
           /\ \E cell \in { Scan(q)[1] : q \in Query(chunk) } :
                aq' = FluidFrom(world, aq, Source(cell), 1, Far, FALSE).a
           /\ said' = [said EXCEPT !.n = @ + 1]
           /\ UNCHANGED <<world, chunk>>

Next == Ask \/ Inspect
Spec == Init /\ [][Next]_vars
-----------------------------------------------------------------------------
(* What was said, without any memory: the twelve sources sorted by distance, *)
(* the later in the scan first where two are equally far.                   *)

Ranked(p) ==
  LET scan == Scan(p)
      d == [n \in 1 .. 12 |-> Distance(p, Source(scan[n]))]
      rank(n) == Cardinality({ k \in 1 .. 12 : d[k] < d[n] \/ (d[k] = d[n] /\ k > n) })
      cell(r) == CHOOSE n \in 1 .. 12 : rank(n) = r - 1
  IN [r \in 1 .. 4 |-> [c |-> cell(r), d |-> d[cell(r)]]]

\* A memory in which exactly the sources of the scan are known, by their rank.
Forgotten(p) == [aq EXCEPT !.fs = Nothing, !.psl = Nothing, !.flag = FALSE, !.loc = [n \in 1 .. 12 |-> Pack(Source(Scan(p)[n]))]]

\* The answer and the flag depend on the question alone, whatever was asked
\* before, and no assertion fails: aquifer.c:263 keeps four of twelve sources
\* by insertion, aquifer.c:240 and noise_chunk.c:92 keep what they computed.
SubstanceExact ==
  /\ ~ aq.abort
  /\ said.q # << >> =>
       LET p == SubSeq(said.q, 1, 3)
           r == IF Early(aq.skip, p, said.q[4])
                THEN [b |-> EarlyBlock(p, said.q[4]), flag |-> FALSE]
                ELSE LET v == Weigh(world, Forgotten(p), Ranked(p), p, said.q[4])
                     IN [b |-> v.b, flag |-> v.a.flag]
       IN said.b = r.b /\ aq.flag = r.flag
=============================================================================
