------------------------------- MODULE Trees --------------------------------
(***************************************************************************)
(* Placing a tree or a fallen tree (core/src/features_tree.c): how high it *)
(* may grow, its trunk, its leaves, its decorations.  A draw of the random *)
(* number generator is a choice.  What follows (leaf distances, shapes) is *)
(* in TreeLeaves and EdgeShapes.                                           *)
(***************************************************************************)
EXTENDS Integers, Sequences, FiniteSets, FiniteSetsExt

CONSTANTS
  Tree,         \* the trees, with what stands where they grow (see MCTrees)
  Replaceable,  \* kinds a tree may replace, as air
  Window,       \* columns <<x, z>> that can be written
  Reach,        \* horizontal offsets that the branches of a fancy tree may have
  Few           \* a bound, 1 or 2, on the cells that one decorator or spread of leaves fills

VARIABLES
  tree,         \* the tree
  world,        \* blocks that differ from the ground
  logs, leaves, deco,   \* the sets kept for what follows
  todo,         \* attachments that wait for their leaves
  left,         \* decorators that have not run
  free,         \* the height without obstacles
  phase,        \* "start", "trunk", "leaves", "decorate", "fall", "done"
  died          \* the process ended: a cap, or a bee nest

vars == <<tree, world, logs, leaves, deco, todo, left, free, phase, died>>

Ground(c) == IF c[2] < 0 THEN "dirt" ELSE "air"
At(W, c) == IF c \in DOMAIN W THEN W[c] ELSE Ground(c)
\* Draws that pick cells of a set pick few of them: a bound.
SomeOf(S) == {{}} \cup {T \in {{a, b} : a, b \in S} : Cardinality(T) <= Few}
Shift(c, x, y, z) == <<c[1] + x, c[2] + y, c[3] + z>>
Up(c, n) == Shift(c, 0, n, 0)
Side == <<<<0, -1>>, <<1, 0>>, <<0, 1>>, <<-1, 0>>>>
Toward(c, d, n) == Shift(c, Side[d][1] * n, 0, Side[d][2] * n)

FullCube(b) == b \in {"dirt", "stone", "log"}
Water(b) == b \in {"water", "wetleaves"}
ValidTreePos(W, c) == At(W, c) = "air" \/ At(W, c) \in Replaceable
FreePos(W, c) == ValidTreePos(W, c) \/ At(W, c) = "log"
OverSolid(W, c) == FullCube(At(W, Up(c, -1)))

\* A write outside the window is lost, though the cell is kept in its set.
Put(W, S, b) == LET T == {c \in S : <<c[1], c[3]>> \in Window}
                IN [c \in DOMAIN W \cup T |-> IF c \in T THEN b ELSE W[c]]

(***************************************************************************)
(* Trunks: what becomes soil, where logs are tried, where leaves attach.   *)
(***************************************************************************)
Attach(c, more, double) == [at |-> c, more |-> more, double |-> double]
Column(c, n) == {Up(c, i) : i \in 0 .. n - 1}

Straight(o, n) == [soil |-> {Up(o, -1)}, logs |-> Column(o, n), ends |-> {Attach(Up(o, n), 0, FALSE)}]

\* Two by two; one of the four columns is a log higher.
Four(o) == {o, Shift(o, 1, 0, 0), Shift(o, 0, 0, 1), Shift(o, 1, 0, 1)}
Giant(o, n) == [soil |-> Four(Up(o, -1)),
                logs |-> Column(o, n) \cup UNION {Column(c, n - 1) : c \in Four(o)},
                ends |-> {Attach(Up(o, n), 0, TRUE)}]

\* A branch of a jungle tree at height b: five logs along an axis (cx, cz).
Trunc(h) == IF h < 0 THEN -((-h) \div 2) ELSE h \div 2
Bough(o, b, a) == LET off(l) == <<Trunc(3 + 2 * l * a[1]), Trunc(3 + 2 * l * a[2])>>
                  IN [logs |-> {Shift(o, off(l)[1], b - 3 + l \div 2, off(l)[2]) : l \in 0 .. 4},
                      ends |-> Attach(Shift(o, off(4)[1], b, off(4)[2]), -2, FALSE)]
\* The heights of branches: drawn downwards, 2 to 5 apart, above the middle.
RECURSIVE BoughsFrom(_, _)
BoughsFrom(b, n) == IF b <= n \div 2 THEN {{}}
                    ELSE UNION {{{b} \cup B : B \in BoughsFrom(b - g, n)} : g \in 2 .. 5}
BoughHeights(n) == UNION {BoughsFrom(n - 2 - r, n) : r \in 0 .. 3}
MegaJungle(o, n) ==
  {[Giant(o, n) EXCEPT !.logs = @ \cup UNION {Bough(o, b, f[b]).logs : b \in B},
                       !.ends = @ \cup {Bough(o, b, f[b]).ends : b \in B}] :
     <<B, f>> \in UNION {{B} \X [B -> {<<1, 0>>, <<0, -1>>}] : B \in BoughHeights(n)}}

\* The cells of a limb from a to b.
Limb(a, b) ==
  LET d == [i \in 1 .. 3 |-> b[i] - a[i]]
      steps == Max({d[1], -d[1], d[2], -d[2], d[3], -d[3]})
      on(i, s) == (2 * s * d[i] + steps) \div (2 * steps)
  IN IF steps = 0 THEN {a} ELSE {Shift(a, on(1, s), on(2, s), on(3, s)) : s \in 0 .. steps}
Open(W, a, b) == a = b \/ \A c \in Limb(a, b) : FreePos(W, c)

\* Clusters of a fancy tree: one above the trunk, and at each height from 0.3
\* of the tree one where there is room, with the height its branch leaves at.
Branched(W, o, j, k) ==
  LET base(p) == LET far == Max({p[1] - o[1], o[1] - p[1]}) + Max({p[3] - o[3], o[3] - p[3]})
                 IN Min({o[2] + k, (1000 * p[2] - 381 * far) \div 1000})
      cluster(p) == [at |-> p, base |-> base(p)]
      room(p) == Open(W, p, Up(p, 5)) /\ Open(W, <<o[1], base(p), o[3]>>, p)
      heights == {h \in 0 .. j - 5 : 10 * h >= 3 * j}
  IN {{[at |-> Up(o, j - 5), base |-> o[2] + k]} \cup
        {cluster(Shift(o, f[h][1], h - 1, f[h][2])) : h \in {h \in heights : room(Shift(o, f[h][1], h - 1, f[h][2]))}} :
        f \in [heights -> Reach]}
Fancy(W, o, n) ==
  LET j == n + 2
      k == (618 * j) \div 1000
      kept(C) == {c \in C : 5 * (c.base - o[2]) >= j}
      limb(c) == IF c.at = <<o[1], c.base, o[3]>> THEN {} ELSE Limb(<<o[1], c.base, o[3]>>, c.at)
  IN {[soil |-> {Up(o, -1)},
       logs |-> Limb(o, Up(o, k)) \cup UNION {limb(c) : c \in kept(C)},
       ends |-> {Attach(c.at, 0, FALSE) : c \in kept(C)}] : C \in Branched(W, o, j, k)}

\* A trunk that leans from a height on, and a branch towards another side.
\* Each part ends where its last log could be placed.
Ending(W, S, end, more) ==
  LET tops == {c[2] + 1 : c \in {c \in S : ValidTreePos(W, c)}}
  IN IF tops = {} THEN {} ELSE {Attach(<<end[1], Max(tops), end[3]>>, more, FALSE)}
Forking(W, o, n) ==
  LET leaned(d, h, s, y) == Toward(Up(o, y), d, IF y < h THEN 0 ELSE Min({s, y - Max({h, 0}) + 1}))
      lean(d, h, s) == {leaned(d, h, s, y) : y \in 0 .. n - 1}
      ys(p, s) == p .. Min({p + s, n}) - 1
      branch(d, p, s) == {Toward(Up(o, y), d, y - Max({p, 1}) + 1) : y \in {y \in ys(p, s) : y >= 1}}
      tip(d, p, s) == Toward(o, d, Cardinality({y \in ys(p, s) : y >= 1}))
  IN UNION {LET L == lean(d, h, s)
                one == [soil |-> {Up(o, -1)}, logs |-> L, ends |-> Ending(W, L, leaned(d, h, s, n - 1), 1)]
            IN {IF e = d THEN one
                ELSE LET B == branch(e, h - q - 1, t) IN
                     [one EXCEPT !.logs = @ \cup B, !.ends = @ \cup Ending(Put(W, L \cap {c \in L : ValidTreePos(W, c)}, "log"),
                                                                         B, tip(e, h - q - 1, t), 0)] :
                e \in 1 .. 4, q \in 0 .. 1, t \in 1 .. 3} :
            d \in 1 .. 2, h \in (n - 4) .. (n - 1), s \in 1 .. 3}

\* A trunk that bends to one side: the step below the top is drawn.
Bending(o, n) ==
  LET h == n - 1
      at(d, early, i) == Toward(Up(o, i), d, (IF i >= h - 1 /\ early THEN 1 ELSE 0) + (IF i = h THEN 1 ELSE 0))
      top(d, early) == Up(at(d, early, h), 1)
  IN {LET arm == {Toward(top(d, early), d, i) : i \in 0 .. bend}
      IN [soil |-> {Up(o, -1)},
          logs |-> {at(d, early, i) : i \in 0 .. h} \cup arm,
          ends |-> {Attach(c, 0, FALSE) : c \in arm \cup {at(d, early, i) : i \in tree.minLeaves .. h}}] :
      d \in 1 .. 4, early \in (IF h = 0 THEN {FALSE} ELSE BOOLEAN), bend \in tree.bend}

Trunks(W, o, n) == CASE tree.trunk = "straight" -> {Straight(o, n)}
                     [] tree.trunk = "megajungle" -> MegaJungle(o, n)
                     [] tree.trunk = "fancy" -> Fancy(W, o, n)
                     [] tree.trunk = "forking" -> Forking(W, o, n)
                     [] tree.trunk = "bending" -> Bending(o, n)

(***************************************************************************)
(* Leaves: rows about an attachment, with the corners that are left out.   *)
(***************************************************************************)
Skip(kind, lx, y, lz, range, corner) ==
  CASE kind = "blob" -> lx = range /\ lz = range /\ (corner \/ y = 0)
    [] kind = "bush" -> lx = range /\ lz = range /\ corner
    [] kind = "megajungle" -> lx + lz >= 7 \/ lx * lx + lz * lz > range * range
    [] kind = "fancy" -> (2 * lx + 1) * (2 * lx + 1) + (2 * lz + 1) * (2 * lz + 1) > 4 * range * range
    [] kind = "acacia" -> IF y = 0 THEN (lx > 1 \/ lz > 1) /\ lx # 0 /\ lz # 0
                          ELSE lx = range /\ lz = range /\ range > 0

Row(a, range, y, corner) ==
  LET abs(n) == IF n < 0 THEN -n ELSE n
      near(n) == IF a.double THEN Min({abs(n), abs(n - 1)}) ELSE abs(n)
      span == -range .. range + (IF a.double THEN 1 ELSE 0)
  IN {Shift(a.at, p[1], y, p[2]) :
        p \in {p \in span \X span : ~Skip(tree.foliage, near(p[1]), y, near(p[2]), range, corner)}}

\* The rows of an attachment: <<range, y>>.
Rows(a, extra) ==
  LET r == tree.radius + a.more
      off == tree.offset
      ys(n) == (off - n) .. off
  IN CASE tree.foliage = "blob" -> {<<Max({0, r - 1 - Trunc(l)}), l>> : l \in ys(tree.height)}
       [] tree.foliage = "bush" -> {<<r - 1 - l, l>> : l \in ys(tree.height)}
       [] tree.foliage = "megajungle" -> {<<r + 1 - l, l>> : l \in ys(IF a.double THEN tree.height ELSE extra)}
       [] tree.foliage = "fancy" ->
            {<<tree.radius + (IF l \in {off, off - tree.height} THEN 0 ELSE 1), l>> : l \in ys(tree.height)}
       [] tree.foliage = "acacia" ->
            {<<r, -1 - tree.height>>, <<tree.radius - 1, -tree.height>>, <<r - 1, 0>>}

\* Single leaves about an attachment.
Spread(a) == LET x == -(tree.radius - 1) .. tree.radius - 1  y == -(tree.height - 1) .. tree.height - 1
             IN SomeOf({Shift(a.at, p[1], p[2], p[3]) : p \in x \X y \X x})

\* The corners of all rows of an attachment are drawn alike: a bound.
Foliages(a) ==
  LET b == IF tree.foliage = "acacia" THEN [a EXCEPT !.at = Up(@, tree.offset)] ELSE a
  IN IF tree.foliage = "spread" THEN Spread(a)
     ELSE {UNION {Row(b, p[1], p[2], corner) : p \in Rows(a, extra)} : extra \in 1 .. 2, corner \in BOOLEAN}

\* A leaf goes where a tree may grow; in water it holds the water.
LeafCells(W, S) == {c \in S : ValidTreePos(W, c)}

(***************************************************************************)
(* Decorators: the cells each may choose from, and what it puts there.     *)
(***************************************************************************)
Sides(S) == UNION {{Toward(c, d, 1) : d \in 1 .. 4} : c \in S}
Lowest(S) == Min({c[2] : c \in S})
AirIn(W, S) == {c \in S : At(W, c) = "air"}

\* A vine hangs from its cell down to four cells more, as long as there is air.
Hang(W, c) == LET stops == {n \in 1 .. 4 : At(W, Up(c, -n)) # "air"}
              IN {Up(c, -n) : n \in 0 .. (IF stops = {} THEN 4 ELSE Min(stops) - 1)}

\* The ground about the lowest logs where something may lie.
Litter(W, L, r, h) ==
  LET low == {c \in L : c[2] = Lowest(L)}
      span(i) == (Min({c[i] : c \in low}) - r) .. (Max({c[i] : c \in low}) + r)
      covered(c) == \E q \in DOMAIN W : /\ q[1] = c[1] /\ q[3] = c[3] /\ q[2] > c[2]
                                       /\ W[q] \in {"stone", "dirt", "log"}
  IN {Up(c, 1) : c \in {c \in span(1) \X (Lowest(L) - h .. Lowest(L) + h) \X span(3) :
                          At(W, Up(c, 1)) \in {"air", "vine"} /\ FullCube(At(W, c)) /\ ~covered(c)}}

\* Where the nest of bees may come: beside the logs at one height, with air before it.
Hives(W, L, V) ==
  LET y == IF V # {} THEN {Max({Lowest(V) - 1, Lowest(L) + 1})}
           ELSE {Min({Lowest(L) + 1 + r, Max({c[2] : c \in L})}) : r \in 0 .. 2}
      at(c) == {Shift(c, 1, 0, 0), Shift(c, 0, 0, 1), Shift(c, -1, 0, 0)}
  IN {c \in UNION {at(l) : l \in {l \in L : l[2] \in y}} :
        At(W, c) = "air" /\ At(W, Shift(c, 0, 0, 1)) = "air"}

\* The sets of cells that a decorator may fill, given logs L and leaves V.
DecorateAnywhere(W, k, L, V) == SomeOf(Sides(L))
Decorations(W, k, L, V) ==
  CASE k = "cocoa" -> SomeOf(AirIn(W, Sides({c \in L : c[2] - Lowest(L) <= 2})))
    [] k = "trunkvine" -> SomeOf(AirIn(W, Sides(L)))
    [] k = "leavevine" -> {UNION {Hang(W, c) : c \in S} : S \in SomeOf(AirIn(W, Sides(V)))}
    [] k = "onlogs" -> SomeOf(AirIn(W, {Up(c, 1) : c \in L}))
    [] k = "litter" -> IF L = {} THEN {{}} ELSE SomeOf(Litter(W, L, 1, 1))
    [] k = "beehive" -> {{}}
Thing(k) == CASE k \in {"trunkvine", "leavevine"} -> "vine" [] OTHER -> k

Decorator(k, L, V) ==
  /\ \E S \in Decorations(world, k, L, V) :
       /\ world' = Put(world, S, Thing(k))
       /\ deco' = deco \cup S
  /\ died' \in {FALSE, k = "beehive" /\ L # {} /\ Hives(world, L, V) # {}}

(***************************************************************************)
(* hc_featx_tree_place                                                     *)
(***************************************************************************)
Origin == <<0, 0, 0>>
LayerSize(y) == IF y < tree.limit THEN tree.lower ELSE tree.upper
Obstructed(y) == \E x, z \in -LayerSize(y) .. LayerSize(y) :
                   LET c == <<x, y, z>>
                   IN ~FreePos(world, c) \/ (~tree.ignoreVines /\ At(world, c) = "vine")
FreeHeight(h) == LET bad == {y \in 0 .. h + 1 : Obstructed(y)}
                 IN IF bad = {} THEN h ELSE Min(bad) - 2

Init == /\ tree \in Tree
        /\ world = tree.world
        /\ logs = {} /\ leaves = {} /\ deco = {} /\ todo = {}
        /\ left = tree.deco /\ free = 0 /\ died = FALSE
        /\ phase = IF tree.trunk = "fallen" THEN "stump" ELSE "start"

Start == /\ phase = "start"
         /\ \E h \in tree.base .. tree.base + tree.more :
              LET n == FreeHeight(h)
              IN /\ free' = n
                 /\ phase' = IF n < h /\ (tree.minClipped < 0 \/ n < tree.minClipped) THEN "done" ELSE "trunk"
         /\ UNCHANGED <<tree, world, logs, leaves, deco, todo, left, died>>

MaxAttach == 48
Trunk == /\ phase = "trunk"
         /\ \E t \in Trunks(world, Origin, free) :
              LET soil == {c \in t.soil : At(world, c) \notin tree.keepSoil}
                  W == Put(world, soil, "dirt")
                  L == {c \in t.logs : ValidTreePos(W, c)}
              IN /\ world' = Put(W, L, "log")
                 /\ logs' = L \cup soil
                 /\ todo' = t.ends
                 /\ died' = (Cardinality(t.ends) > MaxAttach)
         /\ phase' = "leaves"
         /\ UNCHANGED <<tree, leaves, deco, left, free>>

Foliage == /\ phase = "leaves" /\ todo # {} /\ ~died
           /\ LET a == CHOOSE a \in todo : TRUE
              IN /\ todo' = todo \ {a}
                 /\ \E S \in Foliages(a) :
                      LET T == LeafCells(world, S)
                          wet == {c \in T : Water(At(world, c))}
                      IN /\ world' = Put(Put(world, T \ wet, "leaves"), wet, "wetleaves")
                         /\ leaves' = leaves \cup T
           /\ UNCHANGED <<tree, logs, deco, left, free, phase, died>>

Leafed == /\ phase = "leaves" /\ todo = {} /\ ~died
          /\ phase' = IF logs = {} /\ leaves = {} THEN "done" ELSE "decorate"
          /\ UNCHANGED <<tree, world, logs, leaves, deco, todo, left, free, died>>

Decorate == /\ phase = "decorate" /\ ~died
            /\ IF left = <<>> THEN phase' = "done" /\ UNCHANGED <<world, deco, left, died>>
               ELSE Decorator(left[1], logs, leaves) /\ left' = Tail(left) /\ UNCHANGED phase
            /\ UNCHANGED <<tree, logs, leaves, todo, free>>

(***************************************************************************)
(* hc_featx_ftree_place: a stump, and a log that lies beside it.           *)
(***************************************************************************)
Stump == /\ phase = "stump" /\ ~died
         /\ world' = Put(world, {Origin}, "log")
         /\ logs' = {Origin}
         /\ phase' = "vines"
         /\ UNCHANGED <<tree, leaves, deco, todo, left, free, died>>
StumpVines == /\ phase = "vines"
              /\ Decorator("trunkvine", logs, {})
              /\ phase' = "fall"
              /\ UNCHANGED <<tree, logs, leaves, todo, left, free>>

\* Down to the first of six heights where a log could lie on solid ground.
Rest(W, c) == LET ys == {n \in 0 .. 5 : ValidTreePos(W, Up(c, 1 - n)) /\ OverSolid(W, Up(c, 1 - n))}
              IN IF ys = {} THEN Up(c, -5) ELSE Up(c, 1 - Min(ys))
\* The whole log has room, and never more than two cells of it hang in a row.
Hangs(W, c, d, n) == \E i \in 0 .. n - 3 : \A k \in i .. i + 2 : ~OverSolid(W, Toward(c, d, k))
Lies(W, c, d, n) == (\A i \in 0 .. n - 1 : ValidTreePos(W, Toward(c, d, i))) /\ ~Hangs(W, c, d, n)

Fall == /\ phase = "fall" /\ ~died
        /\ \E d \in 1 .. 4, n \in tree.len, off \in 2 .. 3 :
             LET c == Rest(world, Toward(Origin, d, off))
                 L == {Toward(c, d, i) : i \in 0 .. n - 3}
             IN IF Lies(world, c, d, n - 2)
                THEN world' = Put(world, L, "log") /\ todo' = L /\ phase' = "onlogs"
                ELSE phase' = "done" /\ UNCHANGED <<world, todo>>
        /\ UNCHANGED <<tree, logs, leaves, deco, left, free, died>>
Mushrooms == /\ phase = "onlogs"
             /\ Decorator("onlogs", todo, {})
             /\ phase' = "done"
             /\ UNCHANGED <<tree, logs, leaves, todo, left, free>>

Next == Start \/ Trunk \/ Foliage \/ Leafed \/ Decorate \/ Stump \/ StumpVines \/ Fall \/ Mushrooms
Spec == Init /\ [][Next]_vars

(***************************************************************************)
(* Properties                                                              *)
(***************************************************************************)
Changed == {c \in DOMAIN world : world[c] # At(tree.world, c)}
Inside(S) == {c \in S : <<c[1], c[3]>> \in Window}
Fallen == tree.trunk = "fallen"

\* A tree takes only what is air or may be replaced: no log is overwritten, not
\* even its own by its leaves, water stays in the leaves that took its place,
\* and a decoration never replaces a block of the tree.
Kept ==
  \A c \in Changed :
    \/ ValidTreePos(tree.world, c) /\ (world[c] # "dirt")
                                  /\ (At(tree.world, c) = "water" /\ c \in leaves => Water(world[c]))
    \/ c[2] = -1 /\ world[c] = "dirt" /\ At(tree.world, c) \notin tree.keepSoil
    \/ Fallen /\ c = Origin

\* The sets that leaf distances and shapes are worked out from say what was
\* changed: each cell that was is in one of them, and inside the window in one
\* only, so a decoration is never taken for a leaf.
Sorted ==
  /\ Changed \subseteq logs \cup leaves \cup deco \cup (IF Fallen THEN todo ELSE {})
  /\ Inside(logs) \cap leaves = {}
  /\ Inside(deco) \cap (logs \cup leaves) = {}
  /\ \A c \in Inside(leaves) : world[c] \in {"leaves", "wetleaves"}

\* The trunk ends two layers below the first obstacle, its attachments fit
\* their array, and a fallen log is never more than two cells off the ground.
Fits ==
  /\ \A c \in logs : c[2] <= free
  /\ died => \E i \in DOMAIN tree.deco : tree.deco[i] = "beehive"
  /\ Fallen /\ phase = "onlogs" =>
       \A c \in todo, d \in 1 .. 4 :
         {Toward(c, d, 1), Toward(c, d, 2)} \subseteq todo =>
           \E n \in 0 .. 2 : OverSolid(world, Toward(c, d, n))

\* A tree keeps what it may not take, says what it took, and fits where it is.
TreeSound == Kept /\ Sorted /\ Fits
=============================================================================
