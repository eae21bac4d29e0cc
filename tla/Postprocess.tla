---------------------------- MODULE Postprocess ----------------------------
(***************************************************************************)
(* The drain of the postprocessing marks of a chunk                        *)
(* (core/src/postprocess.c): a marked cell with a fluid ticks once, a      *)
(* marked block is adjusted to its six neighbours, and every write tells   *)
(* its neighbours through a stack of updates whose effects may write again.*)
(* A block is a record of its family k and of the few properties of its    *)
(* state that the code asks for.  The drain of one mark is one action: the *)
(* code runs alone here, and its order is in the operators below.          *)
(***************************************************************************)
EXTENDS Integers, Sequences, FiniteSets, SequencesExt

CONSTANTS
  Scene,          \* the worlds the drain may start from: [cell -> block]
  MarkCell,       \* cells the generation may mark
  Bottom, Top,    \* lowest and highest y of the build height
  SectionHeight,  \* rows of cells in a section
  MarkCap,        \* marks a recorder holds
  LayerCap,       \* updates one step may ask for: UPD_LAYER_CAP
  StackCap,       \* updates waiting: UPD_STACK_CAP
  MaxSlope        \* how far water looks for a way down: 4

VARIABLES
  world,   \* the blocks
  ticks,   \* the recorder of scheduled ticks, in order
  marks,   \* the recorder of marks, in order
  todo,    \* marks not drained yet
  phase,   \* "mark" while chunks are generated, then "drain"
  died     \* why the process aborted, or ""

vars == <<world, ticks, marks, todo, phase, died>>

(***************************************************************************)
(* Blocks                                                                  *)
(***************************************************************************)
Block(k) == [k |-> k, lvl |-> 0, dirs |-> {}, wet |-> FALSE]
Air == Block("air")
Stone == Block("stone")
Water == Block("water")
Flow(n) == [Block("water") EXCEPT !.k = "flow", !.lvl = n]

FullCube(b) == b.k \in {"stone", "soil", "sand", "log", "magma"}
CollFull(b) == FullCube(b) \/ b.k \in {"leaves", "spawner"}
Motion(b) == CollFull(b) \/ b.k \in {"fence", "chest"}
FaceSturdy(b) == CollFull(b) /\ b.k # "leaves"
LiquidBlock(b) == b.k \in {"water", "flow", "lava"}
AlwaysWet == {"seagrass", "tallseagrass", "kelp", "kelpplant"}
Container(b) == b.k \in {"leaves", "fence", "chest", "lichen", "stem", "dripleaf"}
                          \cup AlwaysWet

\* FluidState: what a block says of the liquid in its cell.
Fluid(t, a, s, f) == [type |-> t, amount |-> a, source |-> s, falling |-> f]
NoFluid == Fluid("none", 0, FALSE, FALSE)
Source == Fluid("water", 8, TRUE, FALSE)
Flowing(a, f) == Fluid("water", a, FALSE, f)
FluidOf(b) ==
  CASE b.k = "lava" -> Fluid("lava", 8, TRUE, FALSE)
    [] b.k = "flow" -> IF b.lvl >= 8 THEN Flowing(8, TRUE) ELSE Flowing(8 - b.lvl, FALSE)
    [] b.k \in {"water", "bubble"} \cup AlwaysWet \/ b.wet -> Source
    [] OTHER -> NoFluid
Legacy(f) == IF f.source THEN Water
             ELSE Flow(8 - f.amount + (IF f.falling THEN 8 ELSE 0))
IsSource(f, type) == f.type = type /\ f.source

(***************************************************************************)
(* Cells                                                                   *)
(***************************************************************************)
Step(d) == CASE d = "D" -> <<0, -1, 0>> [] d = "U" -> <<0, 1, 0>>
             [] d = "N" -> <<0, 0, -1>> [] d = "S" -> <<0, 0, 1>>
             [] d = "W" -> <<-1, 0, 0>> [] d = "E" -> <<1, 0, 0>>
Opposite(d) == CASE d = "D" -> "U" [] d = "U" -> "D" [] d = "N" -> "S"
                 [] d = "S" -> "N" [] d = "W" -> "E" [] d = "E" -> "W"
Beside(c, d) == [i \in 1 .. 3 |-> c[i] + Step(d)[i]]
UpdateOrder == <<"W", "E", "D", "U", "N", "S">>
ShapeOrder == <<"W", "E", "N", "S", "D", "U">>
Evaluation == <<"N", "E", "S", "W">>
Application == <<"N", "S", "W", "E">>

\* Cells outside the scene are stone.
At(W, c) == IF c \in DOMAIN W THEN W[c] ELSE Stone

(***************************************************************************)
(* The work of a drain: world and ticks so far, the updates waiting on the *)
(* stack, those the running update asked for, and why it died.             *)
(***************************************************************************)
Work(W, T) == [world |-> W, ticks |-> T, stack |-> <<>>, layer |-> <<>>,
               busy |-> FALSE, died |-> ""]
Die(w, why) == IF w.died = "" THEN [w EXCEPT !.died = why] ELSE w

\* The recorder keeps the first tick of a cell and kind.
Schedule(w, c, what, t) ==
  IF \E i \in DOMAIN w.ticks : w.ticks[i].cell = c /\ w.ticks[i].what = what THEN w
  ELSE [w EXCEPT !.ticks = Append(@, [cell |-> c, what |-> what, t |-> t])]
ScheduleAll(w, c, ts) == FoldLeft(LAMBDA u, t : Schedule(u, c, t[1], t[2]), w, ts)

FluidTicks(f) == CASE f.type = "lava" -> <<<<"LAVA", 30>>>>
                   [] f.source -> <<<<"WATER", 5>>>>
                   [] OTHER -> <<<<"FLOWING_WATER", 5>>>>
BubbleTicks(b, below) == IF b = Water /\ below.k = "magma" THEN <<<<"water", 20>>>> ELSE <<>>

\* What a liquid block does when it is placed and when a neighbour changed.
LiquidStirs(w, c, b) ==
  IF b.k = "lava" /\ \E d \in {"U", "N", "S", "W", "E"} : FluidOf(At(w.world, Beside(c, d))).type = "water"
  THEN Die(w, "lava meets water")
  ELSE ScheduleAll(w, c, FluidTicks(FluidOf(b)) \o BubbleTicks(b, At(w.world, Beside(c, "D"))))
NeighborChanged(w, c) == LET b == At(w.world, c)
                         IN IF LiquidBlock(b) THEN LiquidStirs(w, c, b) ELSE w
OnPlaceForgets(w, c, b) == IF b.k = "sand" THEN Schedule(w, c, "sand", 2) ELSE w
OnPlace(w, c, b) == CASE LiquidBlock(b) -> LiquidStirs(w, c, b)
                      [] b.k = "sand" -> Schedule(w, c, "sand", 2)
                      [] OTHER -> w

(***************************************************************************)
(* update_shape: what block b in cell c becomes when the neighbour nb in   *)
(* direction d has changed, the ticks it asks for, and what is not handled *)
(***************************************************************************)
TallHalf(b, n) == b.k = "tallseagrass" /\ b.lvl = n
Rooted(b) == ~(b = Air \/ FluidOf(b) # NoFluid)
Kelp(b) == b.k \in {"kelp", "kelpplant"}
CaveVines(b) == b.k \in {"cavevines", "cavevinesplant"}
BubbleFits(b) == b.k = "bubble" \/ b = Water
Connects(nb) == nb.k = "fence" \/ FaceSturdy(nb)
HeldAbove(nb) == CaveVines(nb) \/ FaceSturdy(nb)
StemStands(W, c) == LET below == At(W, Beside(c, "D"))
                        above == At(W, Beside(c, "U"))
                    IN (below.k = "stem" \/ FaceSturdy(below)) /\ above.k \in {"stem", "dripleaf"}

Shape(W, b, c, d, nb) ==
  LET below == At(W, Beside(c, "D"))
  IN CASE b.k = "lichen" /\ d \in b.dirs /\ ~CollFull(nb) ->
            IF b.dirs # {d} THEN [b EXCEPT !.dirs = @ \ {d}] ELSE IF b.wet THEN Water ELSE Air
       [] b.k = "fence" /\ d \notin {"D", "U"} ->
            [b EXCEPT !.dirs = IF Connects(nb) THEN @ \cup {d} ELSE @ \ {d}]
       [] \/ b.k = "torch" /\ b.dirs = {Opposite(d)} /\ ~FaceSturdy(nb)
          \/ TallHalf(b, 0) /\ d = "U" /\ ~TallHalf(nb, 1)
          \/ TallHalf(b, 0) /\ d = "D" /\ (~FaceSturdy(nb) \/ nb.k = "magma")
          \/ TallHalf(b, 1) /\ d = "D" /\ ~TallHalf(nb, 0)
          \/ b.k = "seagrass" /\ ~Rooted(below)
          \/ b.k = "grass" /\ below.k # "soil"
          \/ b.k \in {"plant", "cane"} /\ d = "D" /\ ~Rooted(nb) -> Air
       [] OTHER -> b

ShapeTicks(W, b, c, d, nb) ==
  LET below == At(W, Beside(c, "D"))
      water == <<<<"WATER", 5>>>>
      block(t) == <<<<b.k, t>>>>
      when(p, ts) == IF p THEN ts ELSE <<>>
  IN CASE LiquidBlock(b) -> when(FluidOf(b).source \/ FluidOf(nb).source, FluidTicks(FluidOf(b)))
                              \o when(d = "D", BubbleTicks(b, nb))
       [] b.k = "leaves" -> when(b.wet, water) \o when(~(nb.k = "log" /\ b.lvl = 1), block(1))
       [] b.k = "sand" -> block(2)
       [] b.k = "bubble" -> water \o when(\/ below.k \notin {"magma", "bubble"}
                                          \/ d = "D"
                                          \/ d = "U" /\ nb # b /\ BubbleFits(nb), block(5))
       [] b.k = "seagrass" -> when(Rooted(below), water)
       [] b.k # "tallseagrass" /\ FluidOf(b) = Source -> water
       [] CaveVines(b) -> when(d = "U" /\ ~HeldAbove(nb), block(1))
       [] b.k = "stem" -> when(d \in {"D", "U"} /\ ~StemStands(W, c), block(1))
       [] b.k = "dripleaf" -> when(d = "D" /\ ~(nb.k = "stem" \/ FaceSturdy(nb)), block(1))
       [] OTHER -> <<>>

ShapeUnmodelled(W, b, c, d, nb) ==
  LET below == At(W, Beside(c, "D"))
  IN \/ Kelp(b) /\ d = "U" /\ (b.k = "kelp") = Kelp(nb)
     \/ Kelp(b) /\ d = "D" /\ (below = Air \/ LiquidBlock(below))
     \/ CaveVines(b) /\ d = "D" /\ (b.k = "cavevines") = CaveVines(nb)

\* The side effects of update_shape; the block it returns is Shape.
Shaped(w, b, c, d, nb) ==
  IF ShapeUnmodelled(w.world, b, c, d, nb) THEN Die(w, "conversion")
  ELSE ScheduleAll(w, c, ShapeTicks(w.world, b, c, d, nb))

(***************************************************************************)
(* CollectingNeighborUpdater.  Writing tells the neighbours: flags is the  *)
(* set of "notify" (updateNeighborsAt) and "quiet" (no shape updates).     *)
(* While an update runs, the updates it asks for wait in the layer.        *)
(***************************************************************************)
Multi(c) == [kind |-> "multi", cell |-> c, next |-> 1]
ShapeUpdate(c, d, b) == [kind |-> "shape", cell |-> Beside(c, d), dir |-> Opposite(d), state |-> b]
Told(c, b, flags) == (IF "notify" \in flags THEN <<Multi(c)>> ELSE <<>>)
                       \o (IF "quiet" \in flags THEN <<>>
                           ELSE [i \in 1 .. 6 |-> ShapeUpdate(c, ShapeOrder[i], b)])

LoadedInOrder(w) == w.stack \o w.layer
Loaded(w) == w.stack \o Reverse(w.layer)

RECURSIVE RunUpdates(_)

AddAndRun(w, e) ==
  IF w.died # "" THEN w
  ELSE IF ~w.busy THEN RunUpdates([w EXCEPT !.busy = TRUE, !.stack = Append(@, e)])
  ELSE IF Len(w.layer) = LayerCap THEN Die(w, "full")
  ELSE [w EXCEPT !.layer = Append(@, e)]

SetBlock(w, c, b, flags) ==
  IF At(w.world, c) = b THEN w
  ELSE IF c \notin DOMAIN w.world THEN Die(w, "outside")
  ELSE FoldLeft(AddAndRun, OnPlace([w EXCEPT !.world[c] = b], c, b), Told(c, b, flags))

\* A block that became air is destroyed: its liquid stays, and everybody is told.
UpdateOrDestroy(w, c, old, new) ==
  CASE new = old -> w
    [] new # Air -> SetBlock(w, c, new, {})
    [] FluidOf(old).type = "lava" -> Die(w, "lava-bearing block destroyed")
    [] OTHER -> SetBlock(w, c, IF FluidOf(old) = NoFluid THEN Air ELSE Legacy(FluidOf(old)), {"notify"})

\* The update on top of the stack: one of the six neighbours, or one shape.
RunNext(w, e) ==
  IF e.kind = "multi" THEN NeighborChanged(w, Beside(e.cell, UpdateOrder[e.next]))
  ELSE LET cur == At(w.world, e.cell)
       IN UpdateOrDestroy(Shaped(w, cur, e.cell, e.dir, e.state), e.cell, cur,
                          Shape(w.world, cur, e.cell, e.dir, e.state))
More(e) == IF e.kind = "multi" /\ e.next < 6 THEN <<[e EXCEPT !.next = @ + 1]>> ELSE <<>>

RunUpdates(w) ==
  LET stack == Loaded(w)
      e == Last(stack)
  IN CASE w.died # "" -> w
       [] Len(stack) > StackCap -> Die(w, "full")
       [] stack = <<>> -> [w EXCEPT !.busy = FALSE]
       [] OTHER -> RunUpdates(RunNext([w EXCEPT !.stack = Front(stack) \o More(e), !.layer = <<>>], e))

(***************************************************************************)
(* Flowing water.  Passes answers "yes", "no", or "partial" where the code *)
(* meets a shape it does not know and aborts.                              *)
(***************************************************************************)
Passes(from, into) ==
  CASE CollFull(from) \/ CollFull(into) -> "no"
    [] Motion(from) \/ Motion(into) -> "partial"
    [] OTHER -> "yes"
CanHoldAny(b) == Container(b) \/ (~Motion(b) /\ b.k \notin {"cane", "bubble"})
CanHoldSpecific(b) == Container(b) => b.k \notin AlwaysWet /\ ~b.wet
CanBeReplaced(f) == f.type = "none"

\* canMaybePassThrough towards a neighbour nb.
MaybePasses(b, nb) ==
  IF IsSource(FluidOf(nb), "water") \/ ~CanHoldAny(nb) THEN "no" ELSE Passes(b, nb)

Holds(b) == FluidOf(b).type = "water" \/ (CanHoldAny(b) /\ CanHoldSpecific(b))
WaterHole(b, below) == LET p == Passes(b, below) IN IF p = "yes" /\ ~Holds(below) THEN "no" ELSE p

\* What a step sideways costs water.
DropOff == 1
Partial == Fluid("partial", 0, FALSE, FALSE)
NewLiquid(W, c, b) ==
  LET near == {At(W, Beside(c, d)) : d \in {"N", "E", "S", "W"}}
      waters == {d \in {"N", "E", "S", "W"} : FluidOf(At(W, Beside(c, d))).type = "water"}
      joined == {d \in waters : Passes(b, At(W, Beside(c, d))) = "yes"}
      amount == {0} \cup {FluidOf(At(W, Beside(c, d))).amount : d \in joined}
      most == CHOOSE a \in amount : \A z \in amount : z <= a
      sources == {d \in joined : FluidOf(At(W, Beside(c, d))).source}
      below == At(W, Beside(c, "D"))
      above == At(W, Beside(c, "U"))
  IN CASE \E d \in waters : Passes(b, At(W, Beside(c, d))) = "partial" -> Partial
       [] Cardinality(sources) >= 2 /\ (Motion(below) \/ IsSource(FluidOf(below), "water")) -> Source
       [] FluidOf(above).type = "water" /\ Passes(b, above) = "partial" -> Partial
       [] FluidOf(above).type = "water" /\ Passes(b, above) = "yes" -> Flowing(8, TRUE)
       [] most <= DropOff -> NoFluid
       [] OTHER -> Flowing(most - DropOff, FALSE)

\* Steps to the nearest way down, 1000 if there is none within reach; -1 where
\* a partial shape was met.  A way down next to c ends the search at once.
RECURSIVE SlopeDistance(_, _, _, _, _)
SlopeDistance(W, c, b, depth, exclude) ==
  LET look(a, d) ==
        LET q == Beside(c, d)
            nb == At(W, q)
            hole == WaterHole(nb, At(W, Beside(q, "D")))
        IN CASE a.done \/ d = exclude \/ MaybePasses(b, nb) = "no" -> a
             [] MaybePasses(b, nb) = "partial" -> [best |-> -1, done |-> TRUE]
             [] ~CanHoldSpecific(nb) -> a
             [] hole = "partial" -> [best |-> -1, done |-> TRUE]
             [] hole = "yes" -> [best |-> depth, done |-> TRUE]
             [] depth = MaxSlope -> a
             [] OTHER -> LET s == SlopeDistance(W, q, nb, depth + 1, Opposite(d))
                         IN IF s < a.best THEN [best |-> s, done |-> s = -1] ELSE a
  IN FoldLeft(look, [best |-> 1000, done |-> FALSE], Evaluation).best

SpreadTo(w, c, b, f) ==
  IF Container(b) /\ CanHoldSpecific(b)
  THEN Schedule(SetBlock(w, c, [b EXCEPT !.wet = TRUE], {"notify"}), c, "WATER", 5)
  ELSE SetBlock(w, c, Legacy(f), {"notify"})

\* Where water of c goes sideways: only the directions of the shortest slope.
\* a: what the sides before d gave; new: the water that would be there; far: the
\* steps from there to a way down.
Judged(a, d, b, nb, new, hole, far) ==
  LET kept == IF far < a.min THEN {} ELSE a.puts
  IN CASE a.died # "" \/ MaybePasses(b, nb) = "no" -> a
       [] MaybePasses(b, nb) = "partial" \/ new = Partial -> [a EXCEPT !.died = "partial"]
       [] new # NoFluid /\ ~CanHoldSpecific(nb) -> a
       [] hole = "partial" \/ far = -1 -> [a EXCEPT !.died = "partial"]
       [] far > a.min -> a
       [] new = NoFluid -> [a EXCEPT !.died = "empty liquid"]
       [] OTHER -> [min |-> far, died |-> "",
                    puts |-> IF CanBeReplaced(FluidOf(nb)) THEN kept \cup {<<d, new>>} ELSE kept]
Chosen(W, c, b) ==
  LET look(a, d) ==
        LET q == Beside(c, d)
            nb == At(W, q)
            hole == WaterHole(nb, At(W, Beside(q, "D")))
        IN Judged(a, d, b, nb, NewLiquid(W, q, nb), hole,
                  IF hole = "yes" THEN 0 ELSE SlopeDistance(W, q, nb, 1, Opposite(d)))
  IN FoldLeft(look, [min |-> 1000, puts |-> {}, died |-> ""], Evaluation)

PutChosen(w, c, chosen) ==
  LET put(u, d) == LET new == {p \in chosen.puts : p[1] = d}
                   IN IF new = {} \/ u.died # "" THEN u
                      ELSE SpreadTo(u, Beside(c, d), At(u.world, Beside(c, d)), (CHOOSE p \in new : TRUE)[2])
  IN IF chosen.died # "" THEN Die(w, chosen.died) ELSE FoldLeft(put, w, Application)
SpreadToSides(w, c, b, f) ==
  LET strength == IF f.falling THEN 7 ELSE f.amount - 1
  IN IF strength <= 0 THEN w ELSE PutChosen(w, c, Chosen(w.world, c, b))

\* Between three sources water that went down goes sideways too.
FromAbove(w, c, b, f) ==
  LET sources == {d \in {"N", "E", "S", "W"} : IsSource(FluidOf(At(w.world, Beside(c, d))), "water")}
  IN IF Cardinality(sources) >= 3 THEN SpreadToSides(w, c, b, f) ELSE w
SpreadWater(w, c, b, f) ==
  LET q == Beside(c, "D")
      below == At(w.world, q)
      passes == MaybePasses(b, below)
      new == NewLiquid(w.world, q, below)
      hole == WaterHole(b, below)
  IN CASE passes = "partial" \/ (passes = "yes" /\ new = Partial) -> Die(w, "partial")
       [] passes = "yes" /\ new = NoFluid -> Die(w, "empty liquid")
       [] passes = "yes" /\ CanBeReplaced(FluidOf(below)) /\ CanHoldSpecific(below) ->
            FromAbove(SpreadTo(w, q, below, new), c, b, f)
       [] ~f.source /\ hole = "partial" -> Die(w, "partial")
       [] f.source \/ hole = "no" -> SpreadToSides(w, c, b, f)
       [] OTHER -> w

\* Lava is only asked whether it could go anywhere: that is not handled.
SpreadLava(w, c, b) ==
  LET at(d) == At(w.world, Beside(c, d))
      open(d) == CanHoldAny(at(d)) /\ ~Motion(at(d)) /\ ~CollFull(b)
  IN IF \/ open("D") /\ ~IsSource(FluidOf(at("D")), "lava")
        \/ \E d \in {"N", "E", "S", "W"} : open(d) /\ FluidOf(at(d)) = NoFluid
     THEN Die(w, "lava spreads") ELSE w

Spread(w, c, b, f) == CASE f = NoFluid -> w
                        [] f.type = "lava" -> SpreadLava(w, c, b)
                        [] OTHER -> SpreadWater(w, c, b, f)

\* A liquid f in block b that would become new.
Ticked(w, c, b, f, new) ==
  LET stays == f.source \/ new = f
      changed == ScheduleAll(SetBlock(w, c, Legacy(new), {"notify"}), c, FluidTicks(new))
  IN CASE ~stays /\ new = Partial -> Die(w, "partial")
       [] ~stays /\ new = NoFluid -> SetBlock(w, c, Air, {"notify"})
       [] OTHER -> Spread(IF stays THEN w ELSE changed, c, IF stays THEN b ELSE Legacy(new), IF stays THEN f ELSE new)
FluidTick(w, c, b) == Ticked(w, c, b, FluidOf(b), NewLiquid(w.world, c, b))

\* The column above a magma block or a bubble column turns into bubbles.
RECURSIVE BubblesUp(_, _, _)
BubblesUp(w, c, b) ==
  IF ~BubbleFits(At(w.world, c)) \/ At(w.world, c) = b \/ w.died # "" THEN w
  ELSE BubblesUp(SetBlock(w, c, b, {}), Beside(c, "U"), b)

LiquidBlockTick(w, c, b) ==
  LET below == At(w.world, Beside(c, "D"))
      cur == At(w.world, c)
      column == CASE below.k = "bubble" -> below
                  [] below.k = "magma" -> [Block("bubble") EXCEPT !.lvl = 1]
                  [] cur.k = "bubble" -> Water
                  [] OTHER -> cur
  IN IF b # Water \/ ~BubbleFits(cur) THEN w
     ELSE BubblesUp(SetBlock(w, c, column, {}), Beside(c, "U"), column)

\* updateFromNeighbourShapes: the block as its six neighbours leave it.
Folded(w, c, b) ==
  LET fold(u, d) == LET nb == At(u.w.world, Beside(c, d))
                    IN [w |-> Shaped(u.w, u.b, c, d, nb), b |-> Shape(u.w.world, u.b, c, d, nb)]
  IN FoldLeft(fold, [w |-> w, b |-> b], ShapeOrder)

PutFolded(folded, c, b) ==
  IF folded.b # b /\ folded.w.died = "" THEN SetBlock(folded.w, c, folded.b, {"quiet"}) ELSE folded.w
Adjusted(w, c, b) ==
  CASE w.died # "" -> w
    [] LiquidBlock(b) -> LiquidBlockTick(w, c, b)
    [] OTHER -> PutFolded(Folded(w, c, b), c, b)
\* One mark.  The block is read before the liquid in it ticks.
Drained(w, c) ==
  LET b == At(w.world, c)
  IN Adjusted(IF FluidOf(b) = NoFluid THEN w ELSE FluidTick(w, c, b), c, b)

(***************************************************************************)
(* The phases                                                              *)
(***************************************************************************)
Init == /\ world \in Scene
        /\ ticks = <<>>
        /\ marks = <<>>
        /\ todo = <<>>
        /\ phase = "mark"
        /\ died = ""

\* hc_ppg_mark, while a chunk is generated; marks outside the world are dropped.
Mark(c) == /\ phase = "mark" /\ died = ""
           /\ CASE c[2] \notin Bottom .. Top -> UNCHANGED <<marks, died>>
                [] Len(marks) = MarkCap -> died' = "too many marks" /\ UNCHANGED marks
                [] OTHER -> marks' = Append(marks, c) /\ UNCHANGED died
           /\ UNCHANGED <<world, ticks, todo, phase>>

\* The drain goes through the sections bottom up, and in order within one.
Section(c) == (c[2] - Bottom) \div SectionHeight
InOrder(ms) == LET of(s) == SelectSeq(ms, LAMBDA c : Section(c) = s)
               IN FoldLeft(LAMBDA a, s : a \o of(s), <<>>,
                           [i \in 1 .. Section(<<0, Top, 0>>) + 1 |-> i - 1])

Freeze == /\ phase = "mark" /\ died = "" /\ marks # <<>>
          /\ phase' = "drain"
          /\ todo' = InOrder(marks)
          /\ UNCHANGED <<world, ticks, marks, died>>

Drain == /\ phase = "drain" /\ todo # <<>> /\ died = ""
         /\ \E w \in {Drained(Work(world, ticks), Head(todo))} :
              world' = w.world /\ ticks' = w.ticks /\ died' = w.died
         /\ todo' = Tail(todo)
         /\ UNCHANGED <<marks, phase>>

Next == (\E c \in MarkCell : Mark(c)) \/ Freeze \/ Drain
Spec == Init /\ [][Next]_vars

(***************************************************************************)
(* What the stack of updates stands for: each effect followed at once by   *)
(* its own effects.                                                        *)
(***************************************************************************)
RECURSIVE Tell(_, _)
Write(w, c, b, flags) ==
  IF At(w.world, c) = b THEN w
  ELSE FoldLeft(Tell, OnPlace([w EXCEPT !.world[c] = b], c, b), Told(c, b, flags))
Tell(w, e) ==
  IF e.kind = "multi"
  THEN FoldLeft(LAMBDA u, d : NeighborChanged(u, Beside(e.cell, d)), w, UpdateOrder)
  ELSE LET cur == At(w.world, e.cell)
           new == Shape(w.world, cur, e.cell, e.dir, e.state)
           u == Shaped(w, cur, e.cell, e.dir, e.state)
       IN CASE new = cur -> u
            [] new # Air -> Write(u, e.cell, new, {})
            [] FluidOf(cur) = NoFluid -> Write(u, e.cell, Air, {"notify"})
            [] OTHER -> Write(u, e.cell, Legacy(FluidOf(cur)), {"notify"})

\* The stack and the layers of the neighbour updater run every effect before
\* the next neighbour is told: a write anywhere ends in the world, and in the
\* order of ticks, of the direct recursion.
DepthFirst ==
  phase = "drain" /\ todo # <<>> /\ died = "" =>
    \A b \in {Air, Stone, Water} :
      LET w == SetBlock(Work(world, ticks), Head(todo), b, {"notify"})
          u == Write(Work(world, ticks), Head(todo), b, {"notify"})
      IN w.died = "" /\ u.died = "" => w.world = u.world /\ w.ticks = u.ticks

\* No liquid is forgotten: after the mark of a liquid has been drained, every
\* liquid that changed or lies beside a change has a tick of its own kind.
Around(c) == {c} \cup {Beside(c, d) : d \in {"D", "U", "N", "S", "W", "E"}}
OwesTicks ==
  phase = "drain" /\ died' = "" /\ LiquidBlock(At(world, Head(todo))) =>
     \A c \in DOMAIN world : (LiquidBlock(world'[c]) /\ \E q \in Around(c) \cap DOMAIN world : world'[q] # world[q]) =>
       \E i \in DOMAIN ticks' : /\ ticks'[i].cell = c
                                /\ ticks'[i].what = FluidTicks(FluidOf(world'[c]))[1][1]

\* Water that ticks never meets the case the code leaves out, a neighbour it
\* would reach with no water at all, and the updates fit the fixed queues.
NeverStuck == died \notin {"empty liquid", "full", "outside"}

\* The updates of a write are those of the recursion, and none gets stuck.
UpdatesSound == DepthFirst /\ NeverStuck
=============================================================================
