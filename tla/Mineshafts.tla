----------------------------- MODULE Mineshafts -----------------------------
(***************************************************************************)
(* The assembly of a mineshaft (hc_mineshaft_assemble of                   *)
(* core/src/structures_mineshaft.c): a room, and corridors, crossings and   *)
(* stairs that grow from it depth first, behind gates in the walls of what *)
(* is there.  The recursion of ms_gen_piece is a stack of what is left to  *)
(* do.  All draws come from one stream, so that a draw too many or out of  *)
(* order changes all that follows: the stream is a function given at the   *)
(* start, and drawn says how much of it was used.                          *)
(*                                                                         *)
(* Boxes are << x0, y0, z0, x1, y1, z1 >>, sides "N", "S", "W" and "E".    *)
(* The arena is not modelled.                                              *)
(***************************************************************************)
EXTENDS Integers, Sequences, FiniteSets

CONSTANTS
  Period,        \* the streams are as long as this, and start over
  Site,          \* [chunk, luck]: the starts considered, each with its stream
  MaxDepth,      \* 8
  Far,           \* 80
  MaxPieces,     \* MS_MAX_PIECES, 2048
  MaxEntrances   \* MS_MAX_ENTRANCES, 16

ASSUME MineAssumption ==
  /\ Period \in Nat \ {0}
  /\ Site \subseteq [chunk : Int \X Int, luck : [0 .. Period - 1 -> Nat]]
  /\ MaxDepth \in Nat /\ Far \in 0 .. 80
  /\ MaxPieces \in Nat \ {0} /\ MaxEntrances \in Nat /\ MaxEntrances >= 12

VARIABLES
  site,
  pieces,      \* [kind, bb, dir, gd, two, rails, spider, sections], as they were added
  entrances,   \* boxes in the walls of the room
  wall,        \* ms_room_children: the wall it is at, 1 .. 4, and
  pos,         \*   how far along it
  child,       \*   the piece it was given, 0 for none
  todo,        \* the stack of ms_gen_piece and of the children it is called for
  drawn,
  stub,        \* where the biome is asked for, << >> until the pieces are at their height
  died

vars == <<site, pieces, entrances, wall, pos, child, todo, drawn, stub, died>>

\* The k-th of the draws to come, below n.
Roll(s, i, n) == s.luck[i % Period] % n
Draw(k, n) == Roll(site, drawn + k, n)

Moved(b, p) == <<b[1] + p[1], b[2] + p[2], b[3] + p[3], b[4] + p[1], b[5] + p[2], b[6] + p[3]>>
Meets(a, b) == /\ a[1] <= b[4] /\ b[1] <= a[4]
               /\ a[2] <= b[5] /\ b[2] <= a[5]
               /\ a[3] <= b[6] /\ b[3] <= a[6]

\* Mutant of Collides: the piece that the new one leaves from is forgotten.
CollidesLater(b) == \E i \in 1 .. Len(pieces) - 1 : Meets(pieces[i].bb, b)
Collides(b) == \E i \in DOMAIN pieces : Meets(pieces[i].bb, b)

\* The sides of a box: how wide and how deep it is seen from one, where the side begins,
\* and the cell in front of it at place a.
AcrossX(d) == d \in {"N", "S"}
XSpan(b) == b[4] - b[1] + 1
YSpan(b) == b[5] - b[2] + 1
ZSpan(b) == b[6] - b[3] + 1
Width(b, d) == IF AcrossX(d) THEN XSpan(b) ELSE ZSpan(b)
Depth(b, d) == IF AcrossX(d) THEN ZSpan(b) ELSE XSpan(b)
Low(b, d) == IF AcrossX(d) THEN b[1] ELSE b[3]
Foot(b, d, a, y) ==
  CASE d = "N" -> <<a, y, b[3] - 1>>
    [] d = "S" -> <<a, y, b[6] + 1>>
    [] d = "W" -> <<b[1] - 1, y, a>>
    [] d = "E" -> <<b[4] + 1, y, a>>

\* A box of n + 1 cells towards d.
Run(d, low, high, bottom, top, n) ==
  CASE d = "N" -> <<low, bottom, 0 - n, high, top, 0>>
    [] d = "S" -> <<low, bottom, 0, high, top, n>>
    [] d = "W" -> <<0 - n, bottom, low, 0, top, high>>
    [] d = "E" -> <<0, bottom, low, n, top, high>>

\* What the stack holds: a gate to build behind, or, when of is not 0, a draw below of
\* that opens one of the gates: the first at the value first, the next at the next one.
Gate(foot, d, depth) == [foot |-> foot, dir |-> d, depth |-> depth]
Open(g) == [of |-> 0, first |-> 0, gates |-> <<g>>]
Maybe(n, first, gates) == [of |-> n, first |-> first, gates |-> gates]

Room(c, dx, dy, dz) ==
  LET w == 16 * c[1] + 2
      n == 16 * c[2] + 2
  IN [kind |-> "room", bb |-> <<w, 50, n, w + 7 + dx, 54 + dy, n + 7 + dz>>, dir |-> "S", gd |-> 0,
      two |-> FALSE, rails |-> FALSE, spider |-> FALSE, sections |-> 0]

Init ==
  /\ site \in Site /\ drawn = 3 /\ stub = <<>> /\ died = FALSE /\ entrances = <<>>
  /\ pieces = <<Room(site.chunk, Roll(site, 0, 6), Roll(site, 1, 6), Roll(site, 2, 6))>>
  /\ wall = 1 /\ pos = 0 /\ child = 0 /\ todo = <<>>
-----------------------------------------------------------------------------
(* A piece behind a gate. *)

Blank(g, kind, box) ==
  [kind |-> kind, bb |-> box, dir |-> g.dir, gd |-> g.depth + 1, two |-> FALSE, rails |-> FALSE,
   spider |-> FALSE, sections |-> 0]

FindCrossing(g) == Moved(Run(g.dir, -1, 3, 0, IF Draw(1, 4) = 0 THEN 6 ELSE 2, 4), g.foot)
FindStairs(g) == Moved(Run(g.dir, 0, 2, -5, 2, 8), g.foot)

\* The longest corridor that fits, of no more sections than were drawn.
CorridorOf(g, len) == Moved(Run(g.dir, 0, 2, 0, 2, 5 * len - 1), g.foot)
Lengths(g) == {len \in 1 .. Draw(1, 3) + 2 : ~ Collides(CorridorOf(g, len))}
Longest(g) == CHOOSE len \in Lengths(g) : \A n \in Lengths(g) : n <= len

Corridor(g) ==
  LET box == CorridorOf(g, Longest(g))
      rails == Draw(2, 3) = 0
  IN [Blank(g, "corridor", box) EXCEPT
        !.rails = rails, !.spider = ~ rails /\ Draw(3, 23) = 0, !.sections = Depth(box, g.dir) \div 5]
Crossing(g) == [Blank(g, "crossing", FindCrossing(g)) EXCEPT !.two = YSpan(FindCrossing(g)) > 3]
Stairs(g) == Blank(g, "stairs", FindStairs(g))

\* ms_create_random: the piece, if there is room for it, and the draws it took.
Made(g) ==
  LET sel == Draw(0, 100)
  IN CASE sel >= 80 -> [fits |-> ~ Collides(FindCrossing(g)), piece |-> Crossing(g), used |-> 2]
       [] sel \in 70 .. 79 -> [fits |-> ~ Collides(FindStairs(g)), piece |-> Stairs(g), used |-> 1]
       [] sel < 70 /\ Lengths(g) = {} -> [fits |-> FALSE, piece |-> Stairs(g), used |-> 2]
       [] sel < 70 /\ Lengths(g) # {} ->
            [fits |-> TRUE, piece |-> Corridor(g), used |-> IF Corridor(g).rails THEN 3 ELSE 4]

\* Ahead of a piece, at the height y.
Straight(p, y) == Gate(Foot(p.bb, p.dir, Low(p.bb, p.dir), y), p.dir, p.gd)

\* The end of a corridor: straight on twice of four, else to a side of its last cells.
\* The k-th draw says which, the next one how high.
To(d) == IF AcrossX(d) THEN <<"W", "E">> ELSE <<"N", "S">>
Last(p) ==
  CASE p.dir = "N" -> p.bb[3]
    [] p.dir = "S" -> p.bb[6] - 3
    [] p.dir = "W" -> p.bb[1]
    [] p.dir = "E" -> p.bb[4] - 3
End(p, k) ==
  LET es == Draw(k, 4)
      y == p.bb[2] - 1 + Draw(k + 1, 3)
  IN IF es <= 1 THEN Straight(p, y)
     ELSE Gate(Foot(p.bb, To(p.dir)[es - 1], Last(p), y), To(p.dir)[es - 1], p.gd)

\* Along a corridor, every five cells.
Side(p, d, n) ==
  LET a == (IF AcrossX(p.dir) THEN p.bb[3] ELSE p.bb[1]) + 5 * n - 2
  IN Gate(Foot(p.bb, d, a, p.bb[2]), d, p.gd + 1)
Sides(p) ==
  IF p.gd >= MaxDepth THEN <<>>
  ELSE [n \in 1 .. (Depth(p.bb, p.dir) - 2) \div 5 |->
          Maybe(5, 0, <<Side(p, To(p.dir)[1], n), Side(p, To(p.dir)[2], n)>>)]

\* The ways on from a crossing: the one it was entered by is left out below.
Ways(d) == CASE d = "N" -> <<"N", "W", "E">> [] d = "S" -> <<"S", "W", "E">>
             [] d = "W" -> <<"N", "S", "W">> [] d = "E" -> <<"N", "S", "E">>
Upstairs == <<"N", "W", "E", "S">>
Way(p, d, y) == Gate(Foot(p.bb, d, Low(p.bb, d) + 1, y), d, p.gd)
Below(p) == [i \in 1 .. 3 |-> Open(Way(p, Ways(p.dir)[i], p.bb[2]))]
Above(p) == [i \in 1 .. 4 |-> Maybe(2, 1, <<Way(p, Upstairs[i], p.bb[2] + 4)>>)]
Crossed(p) == IF p.two THEN Below(p) \o Above(p) ELSE Below(p)

\* Children of a piece that took k draws, and the draws this takes at once.
Children(p, k) ==
  CASE p.kind = "corridor" -> [todo |-> <<Open(End(p, k))>> \o Sides(p), used |-> 2]
    [] p.kind = "crossing" -> [todo |-> Crossed(p), used |-> 0]
    [] p.kind = "stairs" -> [todo |-> <<Open(Straight(p, p.bb[2]))>>, used |-> 0]

TooFar(foot) == LET b == pieces[1].bb IN foot[1] - b[1] \notin -Far .. Far \/ foot[3] - b[3] \notin -Far .. Far

AtGate == ~ died /\ todo # <<>> /\ Head(todo).of = 0

\* ms_gen_piece: no draw for a gate too deep or too far.
Refuse ==
  /\ AtGate
  /\ LET g == Head(todo).gates[1] IN g.depth > MaxDepth \/ TooFar(g.foot)
  /\ todo' = Tail(todo) /\ UNCHANGED <<site, pieces, entrances, wall, pos, child, drawn, stub, died>>

\* The room is given the piece at depth 1.
Grow ==
  LET g == Head(todo).gates[1]
      m == Made(g)
      c == Children(m.piece, m.used)
  IN /\ AtGate /\ g.depth <= MaxDepth /\ ~ TooFar(g.foot)
     /\ \/ /\ Len(pieces) >= MaxPieces
           /\ died' = TRUE /\ UNCHANGED <<pieces, child, todo, drawn>>
        \/ /\ Len(pieces) < MaxPieces /\ m.fits
           /\ pieces' = Append(pieces, m.piece)
           /\ child' = IF g.depth = 0 THEN Len(pieces) + 1 ELSE child
           /\ todo' = c.todo \o Tail(todo)
           /\ drawn' = drawn + m.used + c.used
           /\ UNCHANGED died
        \/ /\ Len(pieces) < MaxPieces /\ ~ m.fits
           /\ todo' = Tail(todo) /\ drawn' = drawn + m.used
           /\ UNCHANGED <<pieces, child, died>>
     /\ UNCHANGED <<site, entrances, wall, pos, stub>>

Choose ==
  LET t == Head(todo)
      k == Draw(0, t.of) - t.first + 1
  IN /\ ~ died /\ todo # <<>> /\ t.of # 0
     /\ todo' = (IF k \in DOMAIN t.gates THEN <<Open(t.gates[k])>> ELSE <<>>) \o Tail(todo)
     /\ drawn' = drawn + 1
     /\ UNCHANGED <<site, pieces, entrances, wall, pos, child, stub, died>>
-----------------------------------------------------------------------------
(* The room. *)

Walls == <<"N", "S", "W", "E">>
InRoom == ~ died /\ todo = <<>> /\ stub = <<>>

\* A turn of the loop of a wall.
Wall ==
  LET b == pieces[1].bb
      d == Walls[wall]
      span == Width(b, d)
      at == pos + Draw(0, span)
      hs == IF YSpan(b) > 4 THEN YSpan(b) - 4 ELSE 1
      gate == Gate(Foot(b, d, Low(b, d) + at, b[2] + Draw(1, hs) + 1), d, 0)
  IN /\ InRoom /\ child = 0 /\ wall <= 4
     /\ \/ pos >= span /\ wall' = wall + 1 /\ pos' = 0 /\ UNCHANGED <<todo, drawn>>
        \/ pos < span /\ at + 3 > span /\ wall' = wall + 1 /\ pos' = 0 /\ drawn' = drawn + 1 /\ UNCHANGED todo
        \/ pos < span /\ at + 3 <= span /\ todo' = <<Open(gate)>> /\ pos' = at + 4 /\ drawn' = drawn + 2 /\ UNCHANGED wall
     /\ UNCHANGED <<site, pieces, entrances, child, stub, died>>

\* Two layers of the wall, as wide and as high as the piece behind it.
Opening(b, d, c) ==
  CASE d = "N" -> <<c[1], c[2], b[3], c[4], c[5], b[3] + 1>>
    [] d = "S" -> <<c[1], c[2], b[6] - 1, c[4], c[5], b[6]>>
    [] d = "W" -> <<b[1], c[2], c[3], b[1] + 1, c[5], c[6]>>
    [] d = "E" -> <<b[4] - 1, c[2], c[3], b[4], c[5], c[6]>>

\* Mutant of Taken: the piece the room was given is still there at the next gate.
Kept == child
Taken == 0

AddEntrance ==
  /\ InRoom /\ child # 0
  /\ \/ /\ Len(entrances) >= MaxEntrances
        /\ died' = TRUE /\ UNCHANGED <<entrances, child>>
     \/ /\ Len(entrances) < MaxEntrances
        /\ entrances' = Append(entrances, Opening(pieces[1].bb, Walls[wall], pieces[child].bb))
        /\ child' = Taken /\ UNCHANGED died
  /\ UNCHANGED <<site, pieces, wall, pos, todo, drawn, stub>>

\* moveBelowSeaLevel: the top comes to a height below 53, or to the least one at which
\* everything is in the world.
Top(pcs) == LET tops == {pcs[i].bb[5] : i \in DOMAIN pcs} IN CHOOSE y \in tops : \A z \in tops : z <= y

\* Mutant of Bottom: the room is taken for the lowest.
BottomOfRoom(pcs) == pcs[1].bb[2]
Bottom(pcs) == LET bottoms == {pcs[i].bb[2] : i \in DOMAIN pcs} IN CHOOSE y \in bottoms : \A z \in bottoms : y <= z

LeastTop == Top(pieces) - Bottom(pieces) + 1 - 64 + 1
Lift == LeastTop + (IF LeastTop < 53 THEN Draw(0, 53 - LeastTop) ELSE 0) - Top(pieces)

\* Mutant of SinkEntrances: the entrances stay where the room was.
SinkNothing(es, dy) == es
SinkEntrances(es, dy) == [i \in DOMAIN es |-> Moved(es[i], <<0, dy, 0>>)]

Sink ==
  /\ InRoom /\ child = 0 /\ wall = 5
  /\ pieces' = [i \in DOMAIN pieces |-> [pieces[i] EXCEPT !.bb = Moved(@, <<0, Lift, 0>>)]]
  /\ entrances' = SinkEntrances(entrances, Lift)
  /\ stub' = <<16 * site.chunk[1] + 8, 50 + Lift, 16 * site.chunk[2]>>
  /\ drawn' = drawn + (IF LeastTop < 53 THEN 1 ELSE 0)
  /\ UNCHANGED <<site, wall, pos, child, todo, died>>

Next == Refuse \/ Grow \/ Choose \/ Wall \/ AddEntrance \/ Sink
Spec == Init /\ [][Next]_vars
-----------------------------------------------------------------------------
(* Properties of a mineshaft. *)

\* One can walk from a to b: they touch without meeting, through an opening three cells
\* wide and two high.
Common(l, h, m, i) == (IF h < i THEN h ELSE i) - (IF l > m THEN l ELSE m) + 1
Passage(a, b) ==
  LET x == Common(a[1], a[4], b[1], b[4])
      y == Common(a[2], a[5], b[2], b[5])
      z == Common(a[3], a[6], b[3], b[6])
  IN y >= 2 /\ ((x = 0 /\ z >= 3) \/ (z = 0 /\ x >= 3))

\* No two pieces meet; each but the room is reached from an earlier one that lies less
\* deep (core/src/structures_mineshaft.c:205, the tables of feet and boxes).
Connected ==
  \A i \in DOMAIN pieces :
    /\ \A j \in 1 .. i - 1 : ~ Meets(pieces[i].bb, pieces[j].bb)
    /\ i > 1 => \E j \in 1 .. i - 1 : pieces[j].gd < pieces[i].gd /\ Passage(pieces[j].bb, pieces[i].bb)

\* No piece is deeper than MaxDepth + 1, and the chunks of all of them look for this start:
\* they lie within 8 chunks of its own.
InReach ==
  \A i \in DOMAIN pieces :
    LET b == pieces[i].bb
        c == site.chunk
    IN /\ pieces[i].gd <= MaxDepth + 1
       /\ b[1] \div 16 >= c[1] - 8 /\ b[4] \div 16 <= c[1] + 8
       /\ b[3] \div 16 >= c[2] - 8 /\ b[6] \div 16 <= c[2] + 8

Whole == Connected /\ InReach

\* In the end every piece at the room has its entrance, in line with it and in the wall.
AtRoom == {i \in DOMAIN pieces : pieces[i].gd = 1}
RoomOpen ==
  stub # <<>> =>
    LET room == pieces[1].bb
    IN /\ Len(entrances) = Cardinality(AtRoom)
       /\ \A i \in AtRoom : \E k \in DOMAIN entrances : entrances[k] = Opening(room, pieces[i].dir, pieces[i].bb)
       /\ \A k \in DOMAIN entrances : Meets(entrances[k], room)

\* In the end everything is in the world, and below 53 unless it is too high for that; the
\* biome is asked for at the height of the room.
Settled ==
  stub # <<>> =>
    /\ \A i \in DOMAIN pieces :
         /\ pieces[i].bb[2] >= -62
         /\ pieces[i].bb[5] <= 52 \/ \E j \in DOMAIN pieces : pieces[j].bb[2] = -62
    /\ stub[2] = pieces[1].bb[2]

\* The scratch of the entrances is large enough (core/src/structures_mineshaft.c:367: three
\* for each wall), so that only the pieces can be too many.
EntrancesFit == Len(entrances) <= 12 /\ (died => Len(pieces) >= MaxPieces)

\* A mineshaft is whole, its room opens to what stands at it, and in the end it is settled.
MineSound == Whole /\ RoomOpen /\ Settled /\ EntrancesFit
-----------------------------------------------------------------------------
(* A small instance. *)

Stream(seed) ==
  [i \in 0 .. Period - 1 |->
     LET k == i + 71 * seed IN ((((k * k) % 32749) * ((k % 1009) + 7) + k) % 65521) \div 32]
SmallSites ==
  {[chunk |-> <<0, 0>>, luck |-> Stream(17 * n + 3)] : n \in 1 .. 6}
    \cup {[chunk |-> <<-1, 2>>, luck |-> Stream(17 * n + 3)] : n \in 7 .. 10}
=============================================================================
