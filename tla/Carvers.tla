------------------------------ MODULE Carvers -------------------------------
(***************************************************************************)
(* Carvers (core/src/carvers.c, core/src/gen_carvers_stage.c).             *)
(*                                                                         *)
(* Paths: the compilation of a carver from its configuration, and the list *)
(* of ellipsoids a carver of a source chunk offers to a target chunk.      *)
(* Each source chunk and carver has a generator of its own, and so has     *)
(* each tunnel; a tunnel ends where it can no longer reach the target.     *)
(*                                                                         *)
(* Stage: the carvers of every source chunk around offer their ellipsoids  *)
(* one after the other; a block that an ellipsoid reaches is masked before *)
(* anything else is decided about it, becomes what the aquifer or the lava *)
(* level says, and may have grass put back on the dirt below.  The aquifer *)
(* and the top material are functions of the place, which the modules      *)
(* Aquifer and Surface are about.                                          *)
(*                                                                         *)
(* Lengths count in quarters of a block, random floats in sixteenths, a    *)
(* turn has 1024 parts.  A generator is the stream of its seed: the k-th   *)
(* draw below n is Roll(seed, k, n).                                       *)
(***************************************************************************)
EXTENDS Integers, Sequences, FiniteSets

CONSTANTS
  Roll(_, _, _),
  Side,               \* blocks of a chunk's edge: 16
  MinY, Height,
  MaxDistance,        \* steps of the longest tunnel: 112
  CaveBound,          \* 15
  Scene,              \* records: world, c (the target), tags, carvers
  Around,             \* sources are this many chunks around: 8
  Block(_, _),        \* scene, position: the block after the surface stage
  Substance(_),       \* position: [b, flow]
  TopAt(_, _),        \* position, whether a fluid is above: a set of a block
  IsFluid(_)

Seeds == 32749
None == [kind |-> "none"]        \* no target: nothing is out of reach
AbsOf(n) == IF n < 0 THEN - n ELSE n
-----------------------------------------------------------------------------
(* Configurations.  A field that is absent is the record of kind "none". *)

Bad == [kind |-> "bad"]

\* fprov_parse: a number, or an object of a type with its limits.
Fprov(j) ==
  CASE j.kind \in {"num", "constant"} -> [kind |-> "const", a |-> j.a, b |-> 0, c |-> 0]
    [] j.kind = "uniform" /\ j.b > j.a -> [kind |-> "uniform", a |-> j.a, b |-> j.b, c |-> 0]
    [] j.kind = "trapezoid" /\ j.b >= j.a /\ j.c <= j.b - j.a -> [kind |-> "trapezoid", a |-> j.a, b |-> j.b, c |-> j.c]
    [] OTHER -> Bad

\* anchor_resolve: a height from a base; no height is "none".
Anchor(j) ==
  CASE j.kind = "absolute" -> {j.a}
    [] j.kind = "above_bottom" -> {MinY + j.a}
    [] j.kind = "below_top" -> {Height - 1 + MinY - j.a}
    [] OTHER -> {}

\* The depth beyond which tag_expand gives up.
TagDepth == 4

\* tag_expand: the blocks of a name, or an error.  Tags are sequences of names.
RECURSIVE Expand(_, _, _), ExpandAll(_, _, _)
Expand(tags, name, depth) ==
  IF depth > TagDepth THEN [ok |-> FALSE, blocks |-> {}]
  ELSE IF name.tag
       THEN IF name.of \notin DOMAIN tags THEN [ok |-> FALSE, blocks |-> {}]
            ELSE ExpandAll(tags, tags[name.of], depth + 1)
       ELSE [ok |-> TRUE, blocks |-> {name.of}]
ExpandAll(tags, names, depth) ==
  IF names = <<>> THEN [ok |-> TRUE, blocks |-> {}]
  ELSE LET h == Expand(tags, Head(names), depth)
           t == ExpandAll(tags, Tail(names), depth)
       IN IF h.ok /\ t.ok THEN [ok |-> TRUE, blocks |-> h.blocks \cup t.blocks]
          ELSE [ok |-> FALSE, blocks |-> {}]

\* The floats a carver of a type needs.
FloatsOf(type) ==
  {"yScale"} \cup IF type = "cave" THEN {"horiz", "vert", "floor"}
                  ELSE {"rotation", "distance", "thickness", "horiz"}

\* hc_carver_init: the carver, or an error.
CarverInit(cfg, tags) ==
  LET fl == [n \in FloatsOf(cfg.type) |-> Fprov(cfg.floats[n])]
      repl == Expand(tags, cfg.replaceable, 0)
  IN IF \/ cfg.type \notin {"cave", "canyon"} \/ cfg.probability \notin 0 .. 16 \/ cfg.debug
        \/ Anchor(cfg.yMin) = {} \/ Anchor(cfg.yMax) = {} \/ Anchor(cfg.lava) = {}
        \/ \E n \in DOMAIN fl : fl[n] = Bad
        \/ ~ repl.ok
        \/ cfg.type = "canyon" /\ cfg.smoothness < 1
     THEN Bad
     ELSE [kind |-> cfg.type, probability |-> cfg.probability, fl |-> fl,
           yMin |-> CHOOSE v \in Anchor(cfg.yMin) : TRUE, yMax |-> CHOOSE v \in Anchor(cfg.yMax) : TRUE,
           lava |-> CHOOSE v \in Anchor(cfg.lava) : TRUE, replaceable |-> repl.blocks,
           smoothness |-> cfg.smoothness, vertical |-> cfg.vertical]
-----------------------------------------------------------------------------
(* Draws. *)

Float(seed, k) == Roll(seed, k, 16)

\* hc_lcg_set_large_feature_seed: a generator for a source chunk.
LargeFeatureSeed(seed, c) ==
  (((c[1] * Roll(seed, 1, 997) + c[2] * Roll(seed, 2, 997)) % Seeds) + seed) % Seeds

\* fprov_sample: its value, and how many draws it takes.
Draws(p) == CASE p.kind = "const" -> 0 [] p.kind = "uniform" -> 1 [] OTHER -> 2
Sample(p, seed, k) ==
  LET range == p.b - p.a
      g == (range - p.c) \div 2
  IN CASE p.kind = "const" -> p.a
       [] p.kind = "uniform" -> p.a + (Float(seed, k) * range) \div 16
       [] OTHER -> p.a + (Float(seed, k) * (range - g) + Float(seed, k + 1) * g) \div 16

\* height_sample: no draw when the limits are the wrong way round.
HeightDraws(cv) == IF cv.yMin > cv.yMax THEN 0 ELSE 1
HeightSample(cv, seed, k) == IF cv.yMin > cv.yMax THEN cv.yMin ELSE Roll(seed, k, cv.yMax - cv.yMin + 1) + cv.yMin

\* hc_mth_sin, hc_mth_cos: a table of one turn, here of 16 places in sixteenths.
Quarter == <<0, 6, 11, 15, 16, 15, 11, 6>>
SinTable == [i \in 0 .. 15 |-> IF i < 8 THEN Quarter[i + 1] ELSE - Quarter[i - 7]]
Sin(a) == SinTable[(a \div 64) % 16]
Cos(a) == SinTable[((a + 256) \div 64) % 16]

\* can_reach: whether the steps that are left may come back to the target.
CanReach(t, x, z, cs, dist, width) ==
  LET dx == x - 4 * (t.c[1] * Side + Side \div 2)
      dz == z - 4 * (t.c[2] * Side + Side \div 2)
      r == width + 8 + 4 * Side
      remaining == 4 * (dist - cs)
  IN t = None \/ dx * dx + dz * dz - remaining * remaining <= r * r
-----------------------------------------------------------------------------
(* Paths: lists of ellipsoids. *)

Ellipsoid(x, y, z, h, v, skip) == [x |-> x, y |-> y, z |-> z, h |-> h, v |-> v, skip |-> skip]

\* One step of a worm: it moves by the angles it has, then turns; six draws
\* from the k-th on.
Turn(w, seed, k, vKeep, div, xKeep, yKeep) ==
  LET jitter(i) == (Float(seed, i) - Float(seed, i + 1)) * Float(seed, i + 2)
      cosX == Cos(w.vr)
  IN [w EXCEPT !.x = @ + (Cos(w.hr) * cosX) \div 64, !.y = @ + Sin(w.vr) \div 4, !.z = @ + (Sin(w.hr) * cosX) \div 64,
               !.vr = (@ * vKeep) \div 100 + w.xr \div div, !.hr = @ + w.yr \div div,
               !.xr = (@ * xKeep) \div 100 + (jitter(k) * 5) \div 4,
               !.yr = (@ * yKeep) \div 100 + (jitter(k + 3) * 5) \div 2]

\* create_tunnel from step cs on, and its two children, one after the other.
\* w: seed, k, position, angles and their momentum, th(ickness), dist.
RECURSIVE TunnelFrom(_, _, _)
Tunnel(t, seed, at, th, hr, vr, cs, dist, g) ==
  TunnelFrom(t, [seed |-> seed, k |-> 3, x |-> at.x, y |-> at.y, z |-> at.z, th |-> th, hr |-> hr, vr |-> vr,
                 xr |-> 0, yr |-> 0, dist |-> dist, g |-> g,
                 split |-> Roll(seed, 1, dist \div 2) + dist \div 4, steep |-> Roll(seed, 2, 6) = 0], cs)
TunnelFrom(t, w, cs) ==
  LET radius == 6 + (Sin((512 * cs) \div w.dist) * w.th) \div 16
      n == Turn(w, w.seed, w.k, IF w.steep THEN 92 ELSE 70, 10, 90, 75)
      child(k, turn) == Tunnel(t, Roll(w.seed, k, Seeds), n, (Float(w.seed, k + 1) + 16) \div 8,
                               n.hr + turn, n.vr \div 3, cs, w.dist, w.g)
      next == TunnelFrom(t, [n EXCEPT !.k = @ + 7], cs + 1)
  IN IF cs >= w.dist THEN <<>>
     ELSE IF cs = w.split /\ w.th > 4 THEN child(w.k + 6, -256) \o child(w.k + 8, 256)
     ELSE IF Roll(w.seed, w.k + 6, 4) = 0 THEN next
     ELSE IF ~ CanReach(t, n.x, n.z, cs, w.dist, w.th) THEN <<>>
     ELSE <<Ellipsoid(n.x, n.y, n.z, (radius * w.g.hm) \div 4, (radius * w.g.vm) \div 4, w.g.skip)>> \o next

\* cave_thickness: its value and its draws.
Fat(seed, k) == Roll(seed, k + 2, 10) = 0
Thickness(seed, k) ==
  LET th == (2 * Float(seed, k) + Float(seed, k + 1)) \div 4
  IN IF Fat(seed, k) THEN (th * (Float(seed, k + 3) * Float(seed, k + 4) * 3 + 256)) \div 256 ELSE th

\* Mutant of AfterTunnel: tunnels draw from the generator of their cave.
AfterTunnelShared(k, fat, tunnel) == k + (IF fat THEN 5 ELSE 3) + 4 + Len(tunnel)

\* hc_cave_carve: the draw behind those of a tunnel, which has a generator of
\* its own.
AfterTunnel(k, fat, tunnel) == k + (IF fat THEN 5 ELSE 3) + 4

\* The tunnels of a cave: its list, and the next draw.
RECURSIVE Tunnels(_, _, _, _, _, _)
Tunnels(t, seed, k, left, at, g) ==
  LET d == IF Fat(seed, k + 2) THEN k + 7 ELSE k + 5
      one == Tunnel(t, Roll(seed, d + 1, Seeds), at, Thickness(seed, k + 2), Float(seed, k) * 64,
                    ((Float(seed, k + 1) - 8) * 163) \div 64, 0,
                    MaxDistance - Roll(seed, d, MaxDistance \div 4), g)
      more == Tunnels(t, seed, AfterTunnel(k, Fat(seed, k + 2), one), left - 1, at, g)
  IN IF left = 0 THEN [k |-> k, out |-> <<>>] ELSE [k |-> more.k, out |-> one \o more.out]

\* hc_cave_carve from the k-th draw on: a place, perhaps a room, its tunnels.
RECURSIVE Caves(_, _, _, _, _, _)
Caves(t, cv, c, seed, k, left) ==
  LET ky == k + 1
      kz == ky + HeightDraws(cv)
      kh == kz + 1
      kv == kh + Draws(cv.fl["horiz"])
      kf == kv + Draws(cv.fl["vert"])
      kr == kf + Draws(cv.fl["floor"])
      at == [x |-> 4 * (c[1] * Side + Roll(seed, k, Side)), y |-> 4 * HeightSample(cv, seed, ky),
             z |-> 4 * (c[2] * Side + Roll(seed, kz, Side))]
      g == [hm |-> Sample(cv.fl["horiz"], seed, kh), vm |-> Sample(cv.fl["vert"], seed, kv),
            skip |-> [kind |-> "cave", floor |-> Sample(cv.fl["floor"], seed, kf), wf |-> <<>>]]
      room == Roll(seed, kr, 4) = 0
      ks == kr + 1 + Draws(cv.fl["yScale"])
      radius == 6 + (Sin(256) * (4 + (Float(seed, ks) * 24) \div 16)) \div 16
      count == IF room THEN 1 + Roll(seed, ks + 1, 4) ELSE 1
      tn == Tunnels(t, seed, IF room THEN ks + 2 ELSE kr + 1, count, at, g)
      more == Caves(t, cv, c, seed, tn.k, left - 1)
  IN IF left = 0 THEN <<>>
     ELSE (IF room THEN <<Ellipsoid(at.x + 4, at.y, at.z, radius,
                                    (radius * Sample(cv.fl["yScale"], seed, kr + 1)) \div 4, g.skip)>> ELSE <<>>)
          \o tn.out \o more
CaveCarve(t, cv, c, seed, k) ==
  Caves(t, cv, c, seed, k + 3, Roll(seed, k + 2, Roll(seed, k + 1, Roll(seed, k, CaveBound) + 1) + 1))
-----------------------------------------------------------------------------
(* Canyons. *)

\* canyon_init_width_factors: row by row, the last one kept; the next draw.
RECURSIVE WidthsFrom(_, _, _, _, _)
WidthsFrom(cv, seed, k, last, yi) ==
  LET keep == yi > 0 /\ Roll(seed, k, cv.smoothness) # 0
      d == IF yi > 0 THEN k + 1 ELSE k
      w == IF keep THEN last ELSE 16 + (Float(seed, d) * Float(seed, d + 1)) \div 16
      more == WidthsFrom(cv, seed, IF keep THEN d ELSE d + 2, w, yi + 1)
  IN IF yi = Height THEN [k |-> k, wf |-> <<>>]
     ELSE [k |-> more.k, wf |-> <<(w * w) \div 16>> \o more.wf]

\* canyon_update_vertical_radius: widest in the middle of the way.
VerticalRadius(cv, v, cs, dist, f) ==
  LET vm == 16 - 2 * AbsOf(8 - (16 * cs) \div dist)
      factor == 16 * cv.vertical.default + cv.vertical.center * vm
  IN (v * factor * (f + 48)) \div (64 * 64)

\* canyon_do_carve from step cs on.
RECURSIVE CanyonFrom(_, _, _, _)
CanyonFrom(t, cv, w, cs) ==
  LET r0 == 6 + (Sin((512 * cs) \div w.dist) * w.th) \div 16
      kd == w.k + Draws(cv.fl["horiz"])
      h == (r0 * Sample(cv.fl["horiz"], w.seed, w.k)) \div 4
      v == VerticalRadius(cv, (r0 * w.yScale) \div 4, cs, w.dist, Float(w.seed, kd))
      n == Turn(w, w.seed, kd + 1, 70, 20, 80, 50)
      next == CanyonFrom(t, cv, [n EXCEPT !.k = kd + 8], cs + 1)
  IN IF cs >= w.dist THEN <<>>
     ELSE IF Roll(w.seed, kd + 7, 4) = 0 THEN next
     ELSE IF ~ CanReach(t, n.x, n.z, cs, w.dist, w.th) THEN <<>>
     ELSE <<Ellipsoid(n.x, n.y, n.z, h, v, w.skip)>> \o next

\* hc_canyon_carve
CanyonCarve(t, cv, c, seed, k) ==
  LET kz == k + 1 + HeightDraws(cv)
      kv == kz + 2
      ks == kv + Draws(cv.fl["rotation"])
      kt == ks + Draws(cv.fl["yScale"])
      kd == kt + Draws(cv.fl["thickness"])
      kn == kd + Draws(cv.fl["distance"])
      own == Roll(seed, kn, Seeds)
      wf == WidthsFrom(cv, own, 1, 16, 0)
  IN CanyonFrom(t, cv, [seed |-> own, k |-> wf.k, x |-> 4 * (c[1] * Side + Roll(seed, k, Side)),
                        y |-> 4 * HeightSample(cv, seed, k + 1), z |-> 4 * (c[2] * Side + Roll(seed, kz, Side)),
                        th |-> Sample(cv.fl["thickness"], seed, kt), hr |-> Float(seed, kz + 1) * 64,
                        vr |-> Sample(cv.fl["rotation"], seed, kv) * 41, xr |-> 0, yr |-> 0,
                        dist |-> (MaxDistance * Sample(cv.fl["distance"], seed, kd)) \div 4,
                        yScale |-> Sample(cv.fl["yScale"], seed, ks),
                        skip |-> [kind |-> "canyon", floor |-> 0, wf |-> wf.wf]], 0)

\* hc_gen_carvers_stage: what the idx-th carver of source chunk c offers.
Offered(t, cv, world, idx, c) ==
  LET seed == LargeFeatureSeed((world + idx) % Seeds, c)
  IN IF Float(seed, 1) > cv.probability THEN <<>>
     ELSE IF cv.kind = "cave" THEN CaveCarve(t, cv, c, seed, 2) ELSE CanyonCarve(t, cv, c, seed, 2)
-----------------------------------------------------------------------------
(* The stage of a chunk. *)
VARIABLES scene,
          cv,         \* the compiled carvers; <<>> when one was refused
          at,         \* the source chunk and carver whose turn it is
          queue,      \* ellipsoids of this turn, the first one being carved
  columns,    \* what is left of the first one
          cells, mask, marks, flow   \* the chunk, and the flag of its aquifer
vars == <<scene, cv, at, queue, columns, cells, mask, marks, flow>>

\* Positions in the chunk: x, y, z.
Rows == MinY .. MinY + Height - 1
Cell == (0 .. Side - 1) \X Rows \X (0 .. Side - 1)
Keep == "keep"        \* no substance: -1
InWorld(p) == <<p[1] + scene.c[1] * Side, p[2], p[3] + scene.c[2] * Side>>
-----------------------------------------------------------------------------
(* One block.  env holds cells, mask, marks, flow and grass, which is       *)
(* reached_surface.                                                         *)

\* col_get: air outside the world.
ColGet(env, p) == IF p[2] \in Rows THEN env.cells[p] ELSE "air"

\* get_carve_state: the aquifer is not asked at the lava level and below.
CarveState(e, env, p) ==
  IF p[2] <= e.lava THEN [b |-> "lava", flow |-> env.flow] ELSE Substance(InWorld(p))

Mark(marks0, set, p) == IF set THEN marks0 \cup {p} ELSE marks0

\* carve_block
CarveBlock(e, env, p) ==
  LET state == ColGet(env, p)
      below == <<p[1], p[2] - 1, p[3]>>
      grass == env.grass \/ state = "grass"
      s == CarveState(e, env, p)
      dug == [cells |-> [env.cells EXCEPT ![p] = s.b], mask |-> env.mask, grass |-> grass, flow |-> s.flow,
              marks |-> Mark(env.marks, s.flow /\ IsFluid(s.b), p)]
      tops == IF grass /\ ColGet(dug, below) = "dirt" THEN TopAt(InWorld(below), IsFluid(s.b)) ELSE {}
      top == CHOOSE b \in tops : TRUE
  IN IF state \notin e.replaceable THEN [env EXCEPT !.grass = grass]
     ELSE IF s.b = Keep THEN [env EXCEPT !.grass = grass, !.flow = s.flow]
     ELSE IF tops = {} THEN dug
     ELSE [dug EXCEPT !.cells[below] = top, !.marks = Mark(@, IsFluid(top), below)]
-----------------------------------------------------------------------------
(* One ellipsoid, in quarters of a block. *)

\* cave_skip and canyon_skip; dh, dy: distances from the middle, dh squared.
Skip(el, dh, dy, y) ==
  IF el.skip.kind = "cave"
  THEN 4 * dy <= el.skip.floor * el.v \/ dh * el.v * el.v + dy * dy * el.h * el.h >= el.h * el.h * el.v * el.v
  ELSE 6 * dh * el.skip.wf[y - MinY] * el.v * el.v + 16 * dy * dy * el.h * el.h >= 96 * el.h * el.h * el.v * el.v

Least(a, b) == IF a < b THEN a ELSE b
Most(a, b) == IF a > b THEN a ELSE b

\* carve_ellipsoid: whether it is near enough, and its box.
Near(el) ==
  LET reach == 4 * Side + 2 * el.h
  IN /\ AbsOf(el.x - 4 * (scene.c[1] * Side + Side \div 2)) <= reach
     /\ AbsOf(el.z - 4 * (scene.c[2] * Side + Side \div 2)) <= reach
Span(mid, r, chunk) == Most((mid - r) \div 4 - chunk * Side - 1, 0) .. Least((mid + r) \div 4 - chunk * Side, Side - 1)
YTop(el) == Least((el.y + el.v) \div 4 + 1, MinY + Height - 8)
YBottom(el) == Most((el.y - el.v) \div 4 - 1, MinY + 1)
Horizontal(el, x, z) ==
  LET dx == 4 * (scene.c[1] * Side + x) + 2 - el.x
      dz == 4 * (scene.c[2] * Side + z) + 2 - el.z
  IN dx * dx + dz * dz

\* Mutant of MayCarve: a block that is carved already is carved again.
MayCarveAgain(env, el, p) == ~ Skip(el, Horizontal(el, p[1], p[3]), 4 * p[2] - 2 - el.y, p[2])

\* A block that an ellipsoid reaches for the first time.
MayCarve(env, el, p) ==
  ~ Skip(el, Horizontal(el, p[1], p[3]), 4 * p[2] - 2 - el.y, p[2]) /\ p \notin env.mask

\* A column, from row y down.
RECURSIVE CarveColumn(_, _, _, _, _, _)
CarveColumn(e, env, el, x, y, z) ==
  LET p == <<x, y, z>>
  IN IF y <= YBottom(el) THEN env
     ELSE IF MayCarve(env, el, p)
          THEN CarveColumn(e, CarveBlock(e, [env EXCEPT !.mask = @ \cup {p}], p), el, x, y - 1, z)
          ELSE CarveColumn(e, env, el, x, y - 1, z)

\* carve_ellipsoid: the columns of its box that it crosses, in turn.
Columns(el) ==
  SelectSeq([n \in 1 .. Side * Side |-> <<(n - 1) \div Side, (n - 1) % Side>>],
            LAMBDA xz : /\ xz[1] \in Span(el.x, el.h, scene.c[1]) /\ xz[2] \in Span(el.z, el.h, scene.c[2])
                        /\ Horizontal(el, xz[1], xz[2]) < el.h * el.h)
-----------------------------------------------------------------------------
(* The stage. *)

Compiled(s) ==
  LET all == [n \in 1 .. Len(s.carvers) |-> CarverInit(s.carvers[n], s.tags)]
  IN IF \E n \in DOMAIN all : all[n] = Bad THEN <<>> ELSE all

\* Turns: sources from the least x and z on, at each one the carvers in order.
Source(n) ==
  LET w == 2 * Around + 1
      s == n \div Len(cv)
  IN <<scene.c[1] - Around + s \div w, scene.c[2] - Around + (s % w)>>
CarverOf(n) == n % Len(cv)
Turns == (2 * Around + 1) * (2 * Around + 1) * Len(cv)

Init == /\ scene \in Scene
        /\ cv = Compiled(scene)
        /\ at = -1 /\ queue = <<>> /\ columns = <<>>
        /\ cells = [p \in Cell |-> Block(scene, InWorld(p))]
        /\ mask = {} /\ marks = {} /\ flow = FALSE

\* An ellipsoid begins, unless it is too far away.
Begin(q) == IF q # <<>> /\ Near(Head(q)) THEN Columns(Head(q)) ELSE <<>>

\* hc_gen_carvers_stage: the next carver of a source.
NextTurn == /\ queue = <<>> /\ at + 1 < Turns
            /\ at' = at + 1
            /\ queue' = Offered([kind |-> "target", c |-> scene.c], cv[CarverOf(at + 1) + 1], scene.world, CarverOf(at + 1),
                                Source(at + 1))
            /\ columns' = Begin(queue')
            /\ UNCHANGED <<scene, cv, cells, mask, marks, flow>>

\* The next column of the first ellipsoid.
Carve == /\ columns # <<>>
         /\ LET xz == Head(columns)
                env == [cells |-> cells, mask |-> mask, marks |-> marks, flow |-> flow, grass |-> FALSE]
            IN \E r \in {CarveColumn(cv[CarverOf(at) + 1], env, Head(queue), xz[1], YTop(Head(queue)), xz[2])} :
                 cells' = r.cells /\ mask' = r.mask /\ marks' = r.marks /\ flow' = r.flow
         /\ columns' = Tail(columns)
         /\ UNCHANGED <<scene, cv, at, queue>>

\* It is done.
Done == /\ queue # <<>> /\ columns = <<>>
        /\ queue' = Tail(queue) /\ columns' = Begin(Tail(queue))
        /\ UNCHANGED <<scene, cv, at, cells, mask, marks, flow>>

Next == NextTurn \/ Carve \/ Done
Spec == Init /\ [][Next]_vars
-----------------------------------------------------------------------------
(* Properties. *)

\* The sets of names a tag reaches in n steps.
Reached(tags, name, n) ==
  LET step[i \in 0 .. n] == IF i = 0 THEN {name}
                            ELSE UNION { {tags[m.of][j] : j \in DOMAIN tags[m.of]} :
                                         m \in { m \in step[i - 1] : m.tag /\ m.of \in DOMAIN tags } }
  IN step

\* A carver is accepted exactly when no chain of its tags is unknown or longer
\* than four, and then replaces the blocks at their ends (carvers.c:641).
TagsClosed ==
  \A n \in DOMAIN scene.carvers :
    LET r == Reached(scene.tags, scene.carvers[n].replaceable, 5)
        names == UNION { r[i] : i \in 0 .. 4 }
        ok == r[5] = {} /\ \A m \in names : m.tag => m.of \in DOMAIN scene.tags
    IN /\ cv # <<>> => ok /\ cv[n].replaceable = { m.of : m \in { m \in names : ~ m.tag } }
       /\ ~ ok => cv = <<>>

\* The caves of a source are the same for every chunk that carves them: what
\* is offered here is, in this order, part of what the source would offer
\* without a target (carvers.c:348: a tunnel that gives up early must not
\* change the tunnels behind it).
RECURSIVE Within(_, _)
Within(part, whole) ==
  IF part = <<>> THEN TRUE
  ELSE IF whole = <<>> THEN FALSE
  ELSE IF Head(part) = Head(whole) THEN Within(Tail(part), Tail(whole)) ELSE Within(part, Tail(whole))
SameCaves ==
  queue # <<>> => Within(queue, Offered(None, cv[CarverOf(at) + 1], scene.world, CarverOf(at), Source(at)))

\* The carvers accepted are the right ones and dig the same caves for all.
CavesSound == TagsClosed /\ SameCaves

\* A block that was reached once is decided for good, and so is one that was
\* dug: it changes again only as dirt that gets its grass back
\* (carvers.c:228 masks it first, :171 puts grass on the dirt below).
Dug(p) == cells[p] # Block(scene, InWorld(p)) /\ (cells[p] = "air" \/ IsFluid(cells[p]))
KeepsDecisions ==
  \A p \in Cell : cells'[p] # cells[p] => ~ Dug(p) /\ (p \in mask => cells[p] = "dirt")
=============================================================================
