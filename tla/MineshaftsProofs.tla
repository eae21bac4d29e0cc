-------------------------- MODULE MineshaftsProofs --------------------------
(***************************************************************************)
(* A mineshaft hangs together, keeps within reach of its chunk, has an     *)
(* entrance for every piece at the room and comes to rest in the world, for*)
(* every set of starts, streams and limits.                                *)
(*                                                                         *)
(* The argument: every gate that waits is in a wall of a piece that lies   *)
(* no deeper than the gate, with room for a passage.  A box laid behind    *)
(* such a gate touches that wall, rises or falls by a few cells only, and, *)
(* as the gate is not too far, stays near.  The walls of the room are      *)
(* walked in steps of four, which bounds the entrances.                    *)
(***************************************************************************)
EXTENDS Mineshafts, FiniteSetTheorems, SequenceTheorems, TLAPS

Dir == {"N", "S", "W", "E"}
Place == [1 .. 3 -> Int]
Box == [1 .. 6 -> Int]
Piece ==
  [kind : {"room", "corridor", "crossing", "stairs"}, bb : Box, dir : Dir, gd : Nat,
   two : BOOLEAN, rails : BOOLEAN, spider : BOOLEAN, sections : Int]
GateRec == [foot : Place, dir : Dir, depth : Nat]
Task == [of : Nat, first : Nat, gates : Seq(GateRec)]

\* No span of a box is below three.
Sized(b) == b[1] + 2 <= b[4] /\ b[2] + 2 <= b[5] /\ b[3] + 2 <= b[6]

\* The foot of a gate is in front of a wall of b that is wide and high enough for it.
InWall(g, b) ==
  LET f == g.foot
  IN /\ b[2] - 1 <= f[2] /\ f[2] + 1 <= b[5]
     /\ g.dir = "N" => f[3] = b[3] - 1 /\ b[1] <= f[1] /\ f[1] + 2 <= b[4]
     /\ g.dir = "S" => f[3] = b[6] + 1 /\ b[1] <= f[1] /\ f[1] + 2 <= b[4]
     /\ g.dir = "W" => f[1] = b[1] - 1 /\ b[3] <= f[3] /\ f[3] + 2 <= b[6]
     /\ g.dir = "E" => f[1] = b[4] + 1 /\ b[3] <= f[3] /\ f[3] + 2 <= b[6]

\* A box of at most 20 cells behind a gate, which opens into it.
Behind(b, g) ==
  LET f == g.foot
  IN /\ f[2] - 5 <= b[2] /\ b[2] <= f[2] /\ f[2] + 2 <= b[5] /\ b[5] <= f[2] + 6
     /\ g.dir \in {"N", "S"} =>
          f[1] - 1 <= b[1] /\ b[1] <= f[1] /\ f[1] + 2 <= b[4] /\ b[4] <= f[1] + 3
     /\ g.dir \in {"W", "E"} =>
          f[3] - 1 <= b[3] /\ b[3] <= f[3] /\ f[3] + 2 <= b[6] /\ b[6] <= f[3] + 3
     /\ g.dir = "N" => b[6] = f[3] /\ f[3] - 19 <= b[3] /\ b[3] + 2 <= b[6]
     /\ g.dir = "S" => b[3] = f[3] /\ b[6] <= f[3] + 19 /\ b[3] + 2 <= b[6]
     /\ g.dir = "W" => b[4] = f[1] /\ f[1] - 19 <= b[1] /\ b[1] + 2 <= b[4]
     /\ g.dir = "E" => b[1] = f[1] /\ b[4] <= f[1] + 19 /\ b[1] + 2 <= b[4]

\* The boxes of the kinds of pieces.
Shaped(p) ==
  LET b == p.bb
  IN /\ Sized(b) /\ p.gd >= 1
     /\ p.kind = "corridor" =>
          /\ b[5] = b[2] + 2
          /\ p.dir \in {"N", "S"} => b[4] = b[1] + 2 /\ b[6] >= b[3] + 4
          /\ p.dir \in {"W", "E"} => b[6] = b[3] + 2 /\ b[4] >= b[1] + 4
     /\ p.kind = "crossing" =>
          b[4] = b[1] + 4 /\ b[6] = b[3] + 4 /\ (p.two => b[5] = b[2] + 6)
     /\ p.kind = "stairs" =>
          /\ p.dir \in {"N", "S"} => b[4] = b[1] + 2
          /\ p.dir \in {"W", "E"} => b[6] = b[3] + 2

\* An element of two sequences one after the other is of the one or of the other.
LEMMA EitherPart ==
  ASSUME NEW S, NEW s \in Seq(S), NEW r \in Seq(S), NEW k \in DOMAIN (s \o r)
  PROVE  \/ k \in DOMAIN s /\ (s \o r)[k] = s[k]
         \/ k - Len(s) \in DOMAIN r /\ (s \o r)[k] = r[k - Len(s)]
<1>1. k \in 1 .. Len(s) + Len(r) /\ Len(s) \in Nat /\ Len(r) \in Nat
  BY ConcatProperties
<1>2. (s \o r)[k] = IF k <= Len(s) THEN s[k] ELSE r[k - Len(s)]
  BY <1>1, ConcatProperties
<1>3. DOMAIN s = 1 .. Len(s) /\ DOMAIN r = 1 .. Len(r)
  OBVIOUS
<1> QED BY <1>1, <1>2, <1>3

-----------------------------------------------------------------------------
(* Boxes. *)

LEMMA PlaceParts ==
  ASSUME NEW f \in Place
  PROVE  f[1] \in Int /\ f[2] \in Int /\ f[3] \in Int
BY DEF Place

LEMMA BoxParts ==
  ASSUME NEW b \in Box
  PROVE  /\ b[1] \in Int /\ b[2] \in Int /\ b[3] \in Int
         /\ b[4] \in Int /\ b[5] \in Int /\ b[6] \in Int
BY DEF Box

LEMMA MovedBox ==
  ASSUME NEW b \in Box, NEW p \in Place
  PROVE  /\ Moved(b, p) \in Box
         /\ Moved(b, p)[1] = b[1] + p[1] /\ Moved(b, p)[4] = b[4] + p[1]
         /\ Moved(b, p)[2] = b[2] + p[2] /\ Moved(b, p)[5] = b[5] + p[2]
         /\ Moved(b, p)[3] = b[3] + p[3] /\ Moved(b, p)[6] = b[6] + p[3]
BY BoxParts, PlaceParts DEF Moved, Box

\* What is laid behind a gate, direction by direction.
LaidBox(g, low, high, bottom, top, n, box) ==
  /\ box \in Box /\ Behind(box, g) /\ Sized(box)
  /\ box[2] = g.foot[2] + bottom /\ box[5] = g.foot[2] + top
  /\ g.dir \in {"N", "S"} => box[4] = box[1] + (high - low) /\ box[6] = box[3] + n
  /\ g.dir \in {"W", "E"} => box[6] = box[3] + (high - low) /\ box[4] = box[1] + n

LEMMA Laid ==
  ASSUME NEW g \in GateRec, NEW low \in -1 .. 0, NEW high \in 2 .. 3, NEW bottom \in -5 .. 0,
         NEW top \in 2 .. 6, NEW n \in 2 .. 19,
         NEW box, box = Moved(Run(g.dir, low, high, bottom, top, n), g.foot)
  PROVE  LaidBox(g, low, high, bottom, top, n, box)
<1> DEFINE r == Run(g.dir, low, high, bottom, top, n)
           b == Moved(r, g.foot)
<1>0. g.dir \in Dir /\ g.foot \in Place
  BY DEF GateRec
<1>1. r \in Box
  BY <1>0 DEF Run, Dir, Box
<1>2. /\ b \in Box
      /\ b[1] = r[1] + g.foot[1] /\ b[4] = r[4] + g.foot[1]
      /\ b[2] = r[2] + g.foot[2] /\ b[5] = r[5] + g.foot[2]
      /\ b[3] = r[3] + g.foot[3] /\ b[6] = r[6] + g.foot[3]
  BY <1>0, <1>1, MovedBox
<1>3. g.foot[1] \in Int /\ g.foot[2] \in Int /\ g.foot[3] \in Int
  BY <1>0, PlaceParts
<1>4. r[2] = bottom /\ r[5] = top
  BY <1>0 DEF Run, Dir
<1>5. CASE g.dir = "N"
  <2>1. r[1] = low /\ r[4] = high /\ r[3] = -n /\ r[6] = 0
    BY <1>5 DEF Run
  <2> HIDE DEF r, b
  <2> QED BY <1>2, <1>3, <1>4, <1>5, <2>1 DEF LaidBox, Behind, Sized, b, r
<1>6. CASE g.dir = "S"
  <2>1. r[1] = low /\ r[4] = high /\ r[3] = 0 /\ r[6] = n
    BY <1>6 DEF Run
  <2> HIDE DEF r, b
  <2> QED BY <1>2, <1>3, <1>4, <1>6, <2>1 DEF LaidBox, Behind, Sized, b, r
<1>7. CASE g.dir = "W"
  <2>1. r[3] = low /\ r[6] = high /\ r[1] = -n /\ r[4] = 0
    BY <1>7 DEF Run
  <2> HIDE DEF r, b
  <2> QED BY <1>2, <1>3, <1>4, <1>7, <2>1 DEF LaidBox, Behind, Sized, b, r
<1>8. CASE g.dir = "E"
  <2>1. r[3] = low /\ r[6] = high /\ r[1] = 0 /\ r[4] = n
    BY <1>8 DEF Run
  <2> HIDE DEF r, b
  <2> QED BY <1>2, <1>3, <1>4, <1>8, <2>1 DEF LaidBox, Behind, Sized, b, r
<1> QED BY <1>0, <1>5, <1>6, <1>7, <1>8 DEF Dir

\* A box behind a gate in the wall of another is reached from it, and within six cells of
\* its height.
LEMMA BehindPassage ==
  ASSUME NEW g \in GateRec, NEW a \in Box, NEW b \in Box, InWall(g, a), Behind(b, g), Sized(a)
  PROVE  Passage(a, b) /\ a[2] - 6 <= b[2] /\ b[5] <= a[5] + 5
<1>0. g.dir \in Dir /\ g.foot \in Place
  BY DEF GateRec
<1>1. g.foot[1] \in Int /\ g.foot[2] \in Int /\ g.foot[3] \in Int
  BY <1>0, PlaceParts
<1>2. a[1] \in Int /\ a[2] \in Int /\ a[3] \in Int /\ a[4] \in Int /\ a[5] \in Int /\ a[6] \in Int
  BY BoxParts
<1>3. b[1] \in Int /\ b[2] \in Int /\ b[3] \in Int /\ b[4] \in Int /\ b[5] \in Int /\ b[6] \in Int
  BY BoxParts
<1>4. a[2] - 6 <= b[2] /\ b[5] <= a[5] + 5 /\ Common(a[2], a[5], b[2], b[5]) >= 2
  BY <1>1, <1>2, <1>3 DEF InWall, Behind, Common, Sized
<1>5. CASE g.dir \in {"N", "S"}
  <2>1. Common(a[1], a[4], b[1], b[4]) >= 3
    BY <1>1, <1>2, <1>3, <1>5 DEF InWall, Behind, Common, Sized
  <2>2. Common(a[3], a[6], b[3], b[6]) = 0
    BY <1>1, <1>2, <1>3, <1>5 DEF InWall, Behind, Common, Sized
  <2> QED BY <1>4, <2>1, <2>2 DEF Passage
<1>6. CASE g.dir \in {"W", "E"}
  <2>1. Common(a[3], a[6], b[3], b[6]) >= 3
    BY <1>1, <1>2, <1>3, <1>6 DEF InWall, Behind, Common, Sized
  <2>2. Common(a[1], a[4], b[1], b[4]) = 0
    BY <1>1, <1>2, <1>3, <1>6 DEF InWall, Behind, Common, Sized
  <2> QED BY <1>4, <2>1, <2>2 DEF Passage
<1> QED BY <1>0, <1>5, <1>6 DEF Dir

-----------------------------------------------------------------------------
(* Draws, and what they make. *)

LEMMA RollBelow ==
  ASSUME NEW s \in Site, NEW i \in Nat, NEW n \in Nat \ {0}
  PROVE  Roll(s, i, n) \in 0 .. n - 1
<1>0. Period \in Nat \ {0}
  BY MineAssumption
<1>1. i % Period \in 0 .. Period - 1
  BY <1>0
<1>2. s.luck \in [0 .. Period - 1 -> Nat]
  BY MineAssumption
<1>3. s.luck[i % Period] \in Nat
  BY <1>1, <1>2
<1> QED BY <1>3 DEF Roll

LEMMA DrawBelow ==
  ASSUME site \in Site, drawn \in Nat, NEW k \in Nat, NEW n \in Nat \ {0}
  PROVE  Draw(k, n) \in 0 .. n - 1
<1>1. drawn + k \in Nat
  OBVIOUS
<1> QED BY <1>1, RollBelow DEF Draw

LEMMA Draws ==
  ASSUME site \in Site, drawn \in Nat, NEW k \in Nat
  PROVE  /\ Draw(k, 2) \in 0 .. 1 /\ Draw(k, 3) \in 0 .. 2 /\ Draw(k, 4) \in 0 .. 3
         /\ Draw(k, 5) \in 0 .. 4 /\ Draw(k, 23) \in 0 .. 22 /\ Draw(k, 100) \in 0 .. 99
<1>1. \A n \in Nat \ {0} : Draw(k, n) \in 0 .. n - 1
  BY DrawBelow
<1>2. 23 \in Nat \ {0} /\ 100 \in Nat \ {0}
  OBVIOUS
<1>3. Draw(k, 23) \in 0 .. 23 - 1 /\ Draw(k, 100) \in 0 .. 100 - 1
  BY <1>1, <1>2
<1> QED BY <1>1, <1>3

LEMMA LongestFits ==
  ASSUME site \in Site, drawn \in Nat, NEW g, Lengths(g) # {}
  PROVE  Longest(g) \in 1 .. 4 /\ ~ Collides(CorridorOf(g, Longest(g)))
<1>1. Draw(1, 3) \in 0 .. 2
  BY Draws
<1>2. Lengths(g) \subseteq 1 .. 4
  BY <1>1 DEF Lengths
<1>3. \E len \in Lengths(g) : \A n \in Lengths(g) : n <= len
  <2>1. CASE 4 \in Lengths(g)
    BY <1>2, <2>1
  <2>2. CASE 4 \notin Lengths(g) /\ 3 \in Lengths(g)
    BY <1>2, <2>2
  <2>3. CASE 4 \notin Lengths(g) /\ 3 \notin Lengths(g) /\ 2 \in Lengths(g)
    BY <1>2, <2>3
  <2>4. CASE 4 \notin Lengths(g) /\ 3 \notin Lengths(g) /\ 2 \notin Lengths(g)
    BY <1>2, <2>4
  <2> QED BY <2>1, <2>2, <2>3, <2>4
<1>4. Longest(g) \in Lengths(g)
  BY <1>3 DEF Longest
<1> QED BY <1>2, <1>4 DEF Lengths

LEMMA CrossingSound ==
  ASSUME site \in Site, drawn \in Nat, NEW g \in GateRec,
         NEW p, p = Crossing(g)
  PROVE  /\ p \in Piece /\ p.bb = FindCrossing(g) /\ p.kind = "crossing"
         /\ p.dir = g.dir /\ p.gd = g.depth + 1
         /\ Behind(p.bb, g) /\ Shaped(p)
<1> DEFINE top == IF Draw(1, 4) = 0 THEN 6 ELSE 2
           b == FindCrossing(g)
<1>0. g.dir \in Dir /\ g.depth \in Nat
  BY DEF GateRec
<1>1. top \in 2 .. 6 /\ (top = 6 \/ top = 2)
  OBVIOUS
<1>2. /\ b \in Box /\ Behind(b, g) /\ Sized(b)
      /\ b[2] = g.foot[2] + 0 /\ b[5] = g.foot[2] + top
      /\ b[4] = b[1] + 4 /\ b[6] = b[3] + 4
  <2>1. b = Moved(Run(g.dir, -1, 3, 0, top, 4), g.foot)
    BY DEF FindCrossing
  <2> DEFINE low == -1
             high == 3
             bottom == 0
             n == 4
  <2>2. /\ low \in -1 .. 0 /\ high \in 2 .. 3 /\ bottom \in -5 .. 0 /\ n \in 2 .. 19
        /\ high - low = 4 /\ n = 4 /\ bottom = 0
    OBVIOUS
  <2>3. b = Moved(Run(g.dir, low, high, bottom, top, n), g.foot)
    BY <2>1
  <2> HIDE DEF b, top, low, high, bottom, n
  <2>4. LaidBox(g, low, high, bottom, top, n, b)
    BY <1>1, <2>2, <2>3, Laid, Zenon
  <2> QED BY <1>0, <2>2, <2>4 DEF LaidBox, Dir
<1>3. /\ p.kind = "crossing" /\ p.bb = b /\ p.dir = g.dir /\ p.gd = g.depth + 1
      /\ p.two = (YSpan(b) > 3) /\ p \in Piece
  <2> DEFINE two == YSpan(b) > 3
  <2>1. two \in BOOLEAN
    OBVIOUS
  <2>2. p = [Blank(g, "crossing", b) EXCEPT !.two = two]
    BY DEF Crossing
  <2> HIDE DEF b, two
  <2>3. Blank(g, "crossing", b) \in Piece
    BY <1>0, <1>2 DEF Blank, Piece
  <2> QED BY <1>2, <2>1, <2>2, <2>3 DEF Blank, Piece, two
<1>4. g.foot[2] \in Int /\ b[1] \in Int /\ b[2] \in Int /\ b[3] \in Int
      /\ b[4] \in Int /\ b[5] \in Int /\ b[6] \in Int
  BY <1>2, BoxParts, PlaceParts DEF GateRec
<1>5. p.two => b[5] = b[2] + 6
  <2> HIDE DEF b, top
  <2>1. CASE top = 6
    BY <1>2, <1>4, <2>1
  <2>2. CASE top = 2
    <3>1. ~ (YSpan(b) > 3)
      BY <1>2, <1>4, <2>2 DEF YSpan
    <3> QED BY <1>3, <3>1
  <2> QED BY <1>1, <2>1, <2>2
<1> HIDE DEF b
<1>6. Shaped(p)
  BY <1>0, <1>2, <1>3, <1>5 DEF Shaped
<1> QED BY <1>2, <1>3, <1>6 DEF b

LEMMA StairsSound ==
  ASSUME NEW g \in GateRec,
         NEW p, p = Stairs(g)
  PROVE  /\ p \in Piece /\ p.bb = FindStairs(g) /\ p.kind = "stairs"
         /\ p.dir = g.dir /\ p.gd = g.depth + 1
         /\ Behind(p.bb, g) /\ Shaped(p)
<1> DEFINE b == FindStairs(g)
<1>0. g.dir \in Dir /\ g.depth \in Nat
  BY DEF GateRec
<1>2. /\ b \in Box /\ Behind(b, g) /\ Sized(b)
      /\ g.dir \in {"N", "S"} => b[4] = b[1] + 2
      /\ g.dir \in {"W", "E"} => b[6] = b[3] + 2
  <2>1. b = Moved(Run(g.dir, 0, 2, -5, 2, 8), g.foot)
    BY DEF FindStairs
  <2> DEFINE low == 0
             high == 2
             bottom == -5
             n == 8
  <2>2. /\ low \in -1 .. 0 /\ high \in 2 .. 3 /\ bottom \in -5 .. 0 /\ high \in 2 .. 6
        /\ n \in 2 .. 19 /\ high - low = 2
    OBVIOUS
  <2>3. b = Moved(Run(g.dir, low, high, bottom, high, n), g.foot)
    BY <2>1
  <2> HIDE DEF b, low, high, bottom, n
  <2>4. LaidBox(g, low, high, bottom, high, n, b)
    BY <2>2, <2>3, Laid, Zenon
  <2> QED BY <2>2, <2>4 DEF LaidBox
<1>3. /\ p.kind = "stairs" /\ p.bb = b /\ p.dir = g.dir /\ p.gd = g.depth + 1 /\ p \in Piece
  BY <1>0, <1>2 DEF Stairs, Blank, Piece
<1>4. b[1] \in Int /\ b[3] \in Int /\ b[4] \in Int /\ b[6] \in Int
  BY <1>2, BoxParts
<1> HIDE DEF b
<1>6. Shaped(p)
  BY <1>0, <1>2, <1>3, <1>4 DEF Shaped
<1> QED BY <1>2, <1>3, <1>6 DEF b

LEMMA CorridorSound ==
  ASSUME site \in Site, drawn \in Nat, NEW g \in GateRec, Lengths(g) # {},
         NEW p, p = Corridor(g)
  PROVE  /\ p \in Piece /\ ~ Collides(p.bb) /\ p.kind = "corridor"
         /\ p.dir = g.dir /\ p.gd = g.depth + 1
         /\ Behind(p.bb, g) /\ Shaped(p)
<1> DEFINE n == 5 * Longest(g) - 1
           b == CorridorOf(g, Longest(g))
<1>0. g.dir \in Dir /\ g.depth \in Nat
  BY DEF GateRec
<1>1. n \in 4 .. 19 /\ ~ Collides(b)
  BY LongestFits
<1>2. /\ b \in Box /\ Behind(b, g) /\ Sized(b)
      /\ b[2] = g.foot[2] + 0 /\ b[5] = g.foot[2] + 2
      /\ g.dir \in {"N", "S"} => b[4] = b[1] + 2 /\ b[6] = b[3] + n
      /\ g.dir \in {"W", "E"} => b[6] = b[3] + 2 /\ b[4] = b[1] + n
  <2>1. n \in 2 .. 19 /\ b = Moved(Run(g.dir, 0, 2, 0, 2, n), g.foot)
    BY <1>1 DEF CorridorOf
  <2> DEFINE low == 0
             high == 2
  <2>2. /\ low \in -1 .. 0 /\ high \in 2 .. 3 /\ low \in -5 .. 0 /\ high \in 2 .. 6
        /\ high - low = 2 /\ low = 0 /\ high = 2
    OBVIOUS
  <2>3. b = Moved(Run(g.dir, low, high, low, high, n), g.foot)
    BY <2>1
  <2> HIDE DEF b, n, low, high
  <2>4. LaidBox(g, low, high, low, high, n, b)
    BY <2>1, <2>2, <2>3, Laid, Zenon
  <2> QED BY <2>2, <2>4 DEF LaidBox
<1>4. g.foot[2] \in Int /\ b[1] \in Int /\ b[2] \in Int /\ b[3] \in Int
      /\ b[4] \in Int /\ b[5] \in Int /\ b[6] \in Int
  BY <1>2, BoxParts, PlaceParts DEF GateRec
<1>5. Depth(b, g.dir) \div 5 \in Int
  BY <1>4 DEF Depth, XSpan, ZSpan
<1>3. /\ p.kind = "corridor" /\ p.bb = b /\ p.dir = g.dir /\ p.gd = g.depth + 1 /\ p \in Piece
  <2> DEFINE rails == Draw(2, 3) = 0
             spider == ~ rails /\ Draw(3, 23) = 0
             sections == Depth(b, g.dir) \div 5
  <2>1. rails \in BOOLEAN /\ spider \in BOOLEAN
    OBVIOUS
  <2>2. p = [Blank(g, "corridor", b) EXCEPT !.rails = rails, !.spider = spider, !.sections = sections]
    BY DEF Corridor
  <2> HIDE DEF b, rails, spider, sections
  <2>3. Blank(g, "corridor", b) \in Piece
    BY <1>0, <1>2 DEF Blank, Piece
  <2>4. sections \in Int
    BY <1>5 DEF sections
  <2> QED BY <1>2, <2>1, <2>2, <2>3, <2>4 DEF Blank, Piece
<1> HIDE DEF b, n
<1>6. Shaped(p)
  BY <1>0, <1>1, <1>2, <1>3, <1>4 DEF Shaped
<1> QED BY <1>1, <1>2, <1>3, <1>6 DEF b

\* The piece behind a gate, if there is room for it.
LEMMA MadeSound ==
  ASSUME site \in Site, drawn \in Nat, NEW g \in GateRec,
         NEW m, m = Made(g), NEW p, p = m.piece
  PROVE  /\ m.used \in Nat /\ m.fits \in BOOLEAN
         /\ m.fits => /\ p \in Piece /\ ~ Collides(p.bb) /\ p.kind \in {"corridor", "crossing", "stairs"}
                      /\ p.dir = g.dir /\ p.gd = g.depth + 1 /\ Behind(p.bb, g) /\ Shaped(p)
<1> DEFINE sel == Draw(0, 100)
<1>0. sel \in 0 .. 99
  BY Draws
<1>1. CASE sel >= 80
  <2>1. m = [fits |-> ~ Collides(FindCrossing(g)), piece |-> Crossing(g), used |-> 2]
    BY <1>0, <1>1 DEF Made
  <2>2. m.used = 2 /\ m.fits = (~ Collides(FindCrossing(g))) /\ p = Crossing(g)
    BY <2>1
  <2>3. /\ p \in Piece /\ p.bb = FindCrossing(g) /\ p.kind = "crossing"
        /\ p.dir = g.dir /\ p.gd = g.depth + 1 /\ Behind(p.bb, g) /\ Shaped(p)
    BY <2>2, CrossingSound
  <2>4. m.used \in Nat /\ m.fits \in BOOLEAN
    BY <2>2
  <2>5. m.fits => ~ Collides(FindCrossing(g))
    BY <2>2
  <2>6. m.fits => ~ Collides(p.bb)
    BY <2>3, <2>5
  <2>7. p.kind \in {"corridor", "crossing", "stairs"}
    BY <2>3
  <2> HIDE DEF sel
  <2> QED BY <2>3, <2>4, <2>6, <2>7, Zenon
<1>2. CASE sel \in 70 .. 79
  <2>1. m = [fits |-> ~ Collides(FindStairs(g)), piece |-> Stairs(g), used |-> 1]
    BY <1>0, <1>2 DEF Made
  <2>2. m.used = 1 /\ m.fits = (~ Collides(FindStairs(g))) /\ p = Stairs(g)
    BY <2>1
  <2>3. /\ p \in Piece /\ p.bb = FindStairs(g) /\ p.kind = "stairs"
        /\ p.dir = g.dir /\ p.gd = g.depth + 1 /\ Behind(p.bb, g) /\ Shaped(p)
    BY <2>2, StairsSound
  <2>4. m.used \in Nat /\ m.fits \in BOOLEAN
    BY <2>2
  <2>5. m.fits => ~ Collides(FindStairs(g))
    BY <2>2
  <2>6. m.fits => ~ Collides(p.bb)
    BY <2>3, <2>5
  <2>7. p.kind \in {"corridor", "crossing", "stairs"}
    BY <2>3
  <2> HIDE DEF sel
  <2> QED BY <2>3, <2>4, <2>6, <2>7, Zenon
<1>3. CASE sel < 70 /\ Lengths(g) = {}
  <2>1. m = [fits |-> FALSE, piece |-> Stairs(g), used |-> 2]
    BY <1>0, <1>3 DEF Made
  <2> QED BY <2>1
<1>4. CASE sel < 70 /\ Lengths(g) # {}
  <2>1. m = [fits |-> TRUE, piece |-> Corridor(g), used |-> IF Corridor(g).rails THEN 3 ELSE 4]
    BY <1>0, <1>4 DEF Made
  <2>2. m.used \in Nat /\ m.fits = TRUE /\ m.piece = Corridor(g)
    BY <2>1
  <2> QED BY <1>4, <2>2, CorridorSound
<1> QED BY <1>0, <1>1, <1>2, <1>3, <1>4

-----------------------------------------------------------------------------
(* Gates and the children of a piece. *)

\* There is room for a passage at place a and height y of a side.
Wide(b, d, a, y) ==
  /\ a \in Int /\ y \in Int /\ b[2] - 1 <= y /\ y + 1 <= b[5]
  /\ AcrossX(d) => b[1] <= a /\ a + 2 <= b[4]
  /\ ~ AcrossX(d) => b[3] <= a /\ a + 2 <= b[6]

LEMMA FacingGate ==
  ASSUME NEW b \in Box, NEW d \in Dir, NEW a, NEW y, NEW depth \in Nat, Wide(b, d, a, y),
         NEW g, g = Gate(Foot(b, d, a, y), d, depth)
  PROVE  g \in GateRec /\ InWall(g, b) /\ g.dir = d /\ g.depth = depth
<1>0. /\ b[1] \in Int /\ b[2] \in Int /\ b[3] \in Int
      /\ b[4] \in Int /\ b[5] \in Int /\ b[6] \in Int
  BY BoxParts
<1>9. /\ a \in Int /\ y \in Int /\ b[2] - 1 <= y /\ y + 1 <= b[5]
      /\ AcrossX(d) => b[1] <= a /\ a + 2 <= b[4]
      /\ ~ AcrossX(d) => b[3] <= a /\ a + 2 <= b[6]
  BY DEF Wide
<1> DEFINE f == Foot(b, d, a, y)
<1>1. g.foot = f /\ g.dir = d /\ g.depth = depth
  BY DEF Gate
<1>2. CASE d = "N"
  <2>1. f = <<a, y, b[3] - 1>>
    BY <1>2 DEF Foot
  <2>2. f \in Place /\ f[1] = a /\ f[2] = y /\ f[3] = b[3] - 1
    BY <1>0, <1>9, <2>1 DEF Place
  <2> HIDE DEF f
  <2>3. InWall(g, b)
    BY <1>0, <1>1, <1>9, <1>2, <2>2 DEF InWall, AcrossX
  <2> QED BY <1>1, <2>2, <2>3 DEF Gate, GateRec, f
<1>3. CASE d = "S"
  <2>1. f = <<a, y, b[6] + 1>>
    BY <1>3 DEF Foot
  <2>2. f \in Place /\ f[1] = a /\ f[2] = y /\ f[3] = b[6] + 1
    BY <1>0, <1>9, <2>1 DEF Place
  <2> HIDE DEF f
  <2>3. InWall(g, b)
    BY <1>0, <1>1, <1>9, <1>3, <2>2 DEF InWall, AcrossX
  <2> QED BY <1>1, <2>2, <2>3 DEF Gate, GateRec, f
<1>4. CASE d = "W"
  <2>1. f = <<b[1] - 1, y, a>>
    BY <1>4 DEF Foot
  <2>2. f \in Place /\ f[3] = a /\ f[2] = y /\ f[1] = b[1] - 1
    BY <1>0, <1>9, <2>1 DEF Place
  <2> HIDE DEF f
  <2>3. InWall(g, b)
    BY <1>0, <1>1, <1>9, <1>4, <2>2 DEF InWall, AcrossX
  <2> QED BY <1>1, <2>2, <2>3 DEF Gate, GateRec, f
<1>5. CASE d = "E"
  <2>1. f = <<b[4] + 1, y, a>>
    BY <1>5 DEF Foot
  <2>2. f \in Place /\ f[3] = a /\ f[2] = y /\ f[1] = b[4] + 1
    BY <1>0, <1>9, <2>1 DEF Place
  <2> HIDE DEF f
  <2>3. InWall(g, b)
    BY <1>0, <1>1, <1>9, <1>5, <2>2 DEF InWall, AcrossX
  <2> QED BY <1>1, <2>2, <2>3 DEF Gate, GateRec, f
<1> QED BY <1>2, <1>3, <1>4, <1>5 DEF Dir

\* What is left to do for a piece: gates in its walls.
ForPiece(t, p) ==
  /\ t \in Task /\ (t.of = 0 => t.gates # <<>>)
  /\ \A n \in DOMAIN t.gates :
       t.gates[n] \in GateRec /\ InWall(t.gates[n], p.bb) /\ t.gates[n].depth >= p.gd

LEMMA OpenFor ==
  ASSUME NEW p, NEW g \in GateRec, InWall(g, p.bb), g.depth >= p.gd
  PROVE  ForPiece(Open(g), p)
<1> DEFINE t == Open(g)
<1>1. <<g>> \in Seq(GateRec) /\ <<g>> # <<>> /\ DOMAIN <<g>> = {1} /\ <<g>>[1] = g
  OBVIOUS
<1>2. t.of = 0 /\ t.first = 0 /\ t.gates = <<g>> /\ t \in Task
  BY <1>1 DEF Open, Task
<1> HIDE DEF t
<1> QED BY <1>1, <1>2 DEF ForPiece, t

LEMMA MaybeFor ==
  ASSUME NEW p, NEW g \in GateRec, InWall(g, p.bb), g.depth >= p.gd,
         NEW n \in Nat \ {0}, NEW first \in Nat
  PROVE  ForPiece(Maybe(n, first, <<g>>), p)
<1> DEFINE t == Maybe(n, first, <<g>>)
<1>1. <<g>> \in Seq(GateRec) /\ DOMAIN <<g>> = {1} /\ <<g>>[1] = g
  OBVIOUS
<1>2. t.of = n /\ t.gates = <<g>> /\ t \in Task
  BY <1>1 DEF Maybe, Task
<1> HIDE DEF t
<1> QED BY <1>1, <1>2 DEF ForPiece, t

LEMMA MaybeEither ==
  ASSUME NEW p, NEW g \in GateRec, InWall(g, p.bb), g.depth >= p.gd,
         NEW h \in GateRec, InWall(h, p.bb), h.depth >= p.gd,
         NEW n \in Nat \ {0}, NEW first \in Nat
  PROVE  ForPiece(Maybe(n, first, <<g, h>>), p)
<1> DEFINE t == Maybe(n, first, <<g, h>>)
<1>1. <<g, h>> \in Seq(GateRec) /\ DOMAIN <<g, h>> = {1, 2} /\ <<g, h>>[1] = g /\ <<g, h>>[2] = h
  OBVIOUS
<1>2. t.of = n /\ t.gates = <<g, h>> /\ t \in Task
  BY <1>1 DEF Maybe, Task
<1> HIDE DEF t
<1> QED BY <1>1, <1>2 DEF ForPiece, t

LEMMA TwoSides ==
  ASSUME NEW d \in Dir, NEW i \in 1 .. 2
  PROVE  To(d)[i] \in Dir /\ (AcrossX(To(d)[i]) <=> ~ AcrossX(d))
BY DEF To, Dir, AcrossX

LEMMA EndSound ==
  ASSUME site \in Site, drawn \in Nat, NEW p \in Piece, Shaped(p), p.kind = "corridor", NEW k \in Nat
  PROVE  ForPiece(Open(End(p, k)), p)
<1> DEFINE b == p.bb
           d == p.dir
           es == Draw(k, 4)
           up == Draw(k + 1, 3)
           y == b[2] - 1 + up
<1>0. b \in Box /\ d \in Dir /\ p.gd \in Nat
  BY DEF Piece
<1>1. es \in 0 .. 3 /\ up \in 0 .. 2
  BY Draws
<1>2. /\ b[1] \in Int /\ b[2] \in Int /\ b[3] \in Int
      /\ b[4] \in Int /\ b[5] \in Int /\ b[6] \in Int
  BY <1>0, BoxParts
<1>3. /\ b[5] = b[2] + 2
      /\ d \in {"N", "S"} => b[4] = b[1] + 2 /\ b[6] >= b[3] + 4
      /\ d \in {"W", "E"} => b[6] = b[3] + 2 /\ b[4] >= b[1] + 4
  BY DEF Shaped
<1>4. y \in Int /\ b[2] - 1 <= y /\ y + 1 <= b[5]
  BY <1>1, <1>2, <1>3
<1>5. CASE es <= 1
  <2>1. End(p, k) = Gate(Foot(b, d, Low(b, d), y), d, p.gd)
    BY <1>5 DEF End, Straight
  <2> HIDE DEF b, d, es, y
  <2>2. /\ Low(b, d) \in Int
        /\ AcrossX(d) => b[1] <= Low(b, d) /\ Low(b, d) + 2 <= b[4]
        /\ ~ AcrossX(d) => b[3] <= Low(b, d) /\ Low(b, d) + 2 <= b[6]
    BY <1>0, <1>2, <1>3 DEF Low, AcrossX, Dir
  <2>9. Wide(b, d, Low(b, d), y)
    BY <1>4, <2>2 DEF Wide
  <2>3. End(p, k) \in GateRec /\ InWall(End(p, k), b) /\ End(p, k).depth = p.gd
    BY <1>0, <2>1, <2>9, FacingGate
  <2> QED BY <1>0, <2>3, OpenFor DEF b
<1>6. CASE es \in 2 .. 3
  <2> DEFINE e == To(d)[es - 1]
             a == Last(p)
  <2>0. es - 1 \in 1 .. 2
    BY <1>6
  <2>1. End(p, k) = Gate(Foot(b, e, a, y), e, p.gd)
    BY <1>6 DEF End
  <2>2. e \in Dir /\ (AcrossX(e) <=> ~ AcrossX(d))
    BY <1>0, <2>0, TwoSides
  <2>3. /\ a \in Int
        /\ ~ AcrossX(d) => b[1] <= a /\ a + 2 <= b[4]
        /\ AcrossX(d) => b[3] <= a /\ a + 2 <= b[6]
    BY <1>0, <1>2, <1>3 DEF Last, AcrossX, Dir
  <2> HIDE DEF b, d, es, y, e, a
  <2>9. Wide(b, e, a, y)
    BY <1>4, <2>2, <2>3 DEF Wide
  <2>4. End(p, k) \in GateRec /\ InWall(End(p, k), b) /\ End(p, k).depth = p.gd
    BY <1>0, <2>1, <2>2, <2>9, FacingGate
  <2> QED BY <1>0, <2>4, OpenFor DEF b
<1> QED BY <1>1, <1>5, <1>6

LEMMA SideSound ==
  ASSUME NEW p \in Piece, Shaped(p), p.kind = "corridor",
         NEW n \in 1 .. (Depth(p.bb, p.dir) - 2) \div 5, NEW i \in 1 .. 2,
         NEW g, g = Side(p, To(p.dir)[i], n)
  PROVE  g \in GateRec /\ InWall(g, p.bb) /\ g.depth >= p.gd
<1> DEFINE b == p.bb
           d == p.dir
           e == To(d)[i]
           a == (IF AcrossX(d) THEN b[3] ELSE b[1]) + 5 * n - 2
<1>0. b \in Box /\ d \in Dir /\ p.gd \in Nat
  BY DEF Piece
<1>2. /\ b[1] \in Int /\ b[2] \in Int /\ b[3] \in Int
      /\ b[4] \in Int /\ b[5] \in Int /\ b[6] \in Int
  BY <1>0, BoxParts
<1>3. /\ b[5] = b[2] + 2
      /\ d \in {"N", "S"} => b[4] = b[1] + 2 /\ b[6] >= b[3] + 4
      /\ d \in {"W", "E"} => b[6] = b[3] + 2 /\ b[4] >= b[1] + 4
  BY DEF Shaped
<1>4. g = Gate(Foot(b, e, a, b[2]), e, p.gd + 1)
  BY DEF Side
<1>5. e \in Dir /\ (AcrossX(e) <=> ~ AcrossX(d))
  BY <1>0, TwoSides
<1>6. n \in Nat /\ n >= 1 /\ n <= (Depth(b, d) - 2) \div 5
  OBVIOUS
<1> HIDE DEF b, d, e
<1>7. /\ a \in Int
      /\ ~ AcrossX(d) => b[1] <= a /\ a + 2 <= b[4]
      /\ AcrossX(d) => b[3] <= a /\ a + 2 <= b[6]
  <2>1. CASE AcrossX(d)
    <3>1. 5 * n <= b[6] - b[3] - 1
      BY <1>2, <1>6, <2>1 DEF Depth, ZSpan
    <3> QED BY <1>2, <1>6, <2>1, <3>1
  <2>2. CASE ~ AcrossX(d)
    <3>1. 5 * n <= b[4] - b[1] - 1
      BY <1>2, <1>6, <2>2 DEF Depth, XSpan
    <3> QED BY <1>2, <1>6, <2>2, <3>1
  <2> QED BY <2>1, <2>2
<1> HIDE DEF a
<1>8. Wide(b, e, a, b[2]) /\ p.gd + 1 \in Nat
  BY <1>0, <1>2, <1>3, <1>5, <1>7 DEF Wide
<1>9. g \in GateRec /\ InWall(g, b) /\ g.depth = p.gd + 1
  BY <1>0, <1>4, <1>5, <1>8, FacingGate
<1> QED BY <1>0, <1>9 DEF b

LEMMA WaySound ==
  ASSUME NEW p \in Piece, Shaped(p), p.kind = "crossing", NEW d \in Dir, NEW y \in Int,
         p.bb[2] - 1 <= y, y + 1 <= p.bb[5], NEW g, g = Way(p, d, y)
  PROVE  g \in GateRec /\ InWall(g, p.bb) /\ g.depth = p.gd
<1> DEFINE b == p.bb
           a == Low(b, d) + 1
<1>0. b \in Box /\ p.gd \in Nat
  BY DEF Piece
<1>1. /\ b[1] \in Int /\ b[2] \in Int /\ b[3] \in Int
      /\ b[4] \in Int /\ b[5] \in Int /\ b[6] \in Int
  BY <1>0, BoxParts
<1>2. b[4] = b[1] + 4 /\ b[6] = b[3] + 4
  BY DEF Shaped
<1>3. g = Gate(Foot(b, d, a, y), d, p.gd)
  BY DEF Way
<1> HIDE DEF b
<1>4. /\ a \in Int
      /\ AcrossX(d) => b[1] <= a /\ a + 2 <= b[4]
      /\ ~ AcrossX(d) => b[3] <= a /\ a + 2 <= b[6]
  BY <1>1, <1>2 DEF Low
<1> HIDE DEF a
<1>5. Wide(b, d, a, y)
  BY <1>4 DEF b, Wide
<1>6. g \in GateRec /\ InWall(g, b) /\ g.depth = p.gd
  BY <1>0, <1>3, <1>5, FacingGate
<1> QED BY <1>6 DEF b

AllFor(s, p) == s \in Seq(Task) /\ \A i \in DOMAIN s : ForPiece(s[i], p)

LEMMA OneFor ==
  ASSUME NEW p, NEW t, ForPiece(t, p)
  PROVE  AllFor(<<t>>, p)
<1>1. t \in Task
  BY DEF ForPiece
<1> QED BY <1>1 DEF AllFor

LEMMA JoinFor ==
  ASSUME NEW p, NEW s, NEW t, AllFor(s, p), AllFor(t, p)
  PROVE  AllFor(s \o t, p)
<1>1. /\ s \in Seq(Task) /\ t \in Seq(Task)
      /\ \A i \in DOMAIN s : ForPiece(s[i], p)
      /\ \A i \in DOMAIN t : ForPiece(t[i], p)
  BY DEF AllFor
<1>2. s \o t \in Seq(Task)
  BY <1>1
<1>3. ASSUME NEW i \in DOMAIN (s \o t)
      PROVE  ForPiece((s \o t)[i], p)
  <2>1. CASE i <= Len(s)
    <3>1. i \in DOMAIN s /\ (s \o t)[i] = s[i]
      BY <1>1, <1>3, <2>1
    <3> QED BY <1>1, <3>1
  <2>2. CASE i > Len(s)
    <3>1. i - Len(s) \in DOMAIN t /\ (s \o t)[i] = t[i - Len(s)]
      BY <1>1, <1>3, <2>2
    <3> QED BY <1>1, <3>1
  <2> QED BY <1>1, <1>3, <2>1, <2>2
<1> QED BY <1>2, <1>3 DEF AllFor

LEMMA SidesSound ==
  ASSUME NEW p \in Piece, Shaped(p), p.kind = "corridor"
  PROVE  AllFor(Sides(p), p)
<1>0. p.bb \in Box /\ p.dir \in Dir /\ p.gd \in Nat
  BY DEF Piece
<1>1. /\ p.bb[1] \in Int /\ p.bb[3] \in Int /\ p.bb[4] \in Int /\ p.bb[6] \in Int
  BY <1>0, BoxParts
<1> DEFINE K == (Depth(p.bb, p.dir) - 2) \div 5
           T(n) == Maybe(5, 0, <<Side(p, To(p.dir)[1], n), Side(p, To(p.dir)[2], n)>>)
<1>2. K \in Nat
  <2>1. Depth(p.bb, p.dir) \in Int /\ Depth(p.bb, p.dir) >= 3
    BY <1>0, <1>1 DEF Depth, XSpan, ZSpan, Shaped, Sized
  <2> QED BY <2>1
<1>3. ASSUME NEW n \in 1 .. K
      PROVE  ForPiece(T(n), p)
  <2>1. 1 \in 1 .. 2 /\ 2 \in 1 .. 2
    OBVIOUS
  <2> DEFINE l == Side(p, To(p.dir)[1], n)
             r == Side(p, To(p.dir)[2], n)
  <2>2. l \in GateRec /\ InWall(l, p.bb) /\ l.depth >= p.gd
    BY <2>1, SideSound
  <2>3. r \in GateRec /\ InWall(r, p.bb) /\ r.depth >= p.gd
    BY <2>1, SideSound
  <2>4. 5 \in Nat \ {0} /\ 0 \in Nat
    OBVIOUS
  <2> HIDE DEF l, r
  <2>5. ForPiece(Maybe(5, 0, <<l, r>>), p)
    BY <2>2, <2>3, <2>4, MaybeEither
  <2> QED BY <2>5 DEF l, r
<1>4. AllFor(<<>>, p)
  BY DEF AllFor
<1>5. AllFor([n \in 1 .. K |-> T(n)], p)
  <2> HIDE DEF K, T
  <2>1. \A n \in 1 .. K : T(n) \in Task
    BY <1>3 DEF ForPiece
  <2> QED BY <1>2, <1>3, <2>1 DEF AllFor
<1> QED BY <1>4, <1>5 DEF Sides

LEMMA CrossedSound ==
  ASSUME NEW p \in Piece, Shaped(p), p.kind = "crossing"
  PROVE  AllFor(Crossed(p), p)
<1>0. p.bb \in Box /\ p.dir \in Dir /\ p.gd \in Nat
  BY DEF Piece
<1>1. p.bb[2] \in Int /\ p.bb[5] \in Int
  BY <1>0, BoxParts
<1>2. p.bb[2] + 2 <= p.bb[5] /\ (p.two => p.bb[5] = p.bb[2] + 6)
  BY DEF Shaped, Sized
<1> DEFINE B(i) == Open(Way(p, Ways(p.dir)[i], p.bb[2]))
           A(i) == Maybe(2, 1, <<Way(p, Upstairs[i], p.bb[2] + 4)>>)
<1>3. ASSUME NEW i \in 1 .. 3
      PROVE  ForPiece(B(i), p)
  <2> DEFINE d == Ways(p.dir)[i]
             y == p.bb[2]
             g == Way(p, d, y)
  <2>1. d \in Dir
    BY <1>0 DEF Ways, Dir
  <2>2. y \in Int /\ p.bb[2] - 1 <= y /\ y + 1 <= p.bb[5]
    BY <1>1, <1>2
  <2> HIDE DEF d, y
  <2>3. g \in GateRec /\ InWall(g, p.bb) /\ g.depth = p.gd
    BY <2>1, <2>2, WaySound
  <2>4. g.depth >= p.gd
    BY <1>0, <2>3
  <2> HIDE DEF g
  <2> QED BY <2>3, <2>4, OpenFor DEF g, d, y
<1>4. ASSUME p.two, NEW i \in 1 .. 4
      PROVE  ForPiece(A(i), p)
  <2> DEFINE d == Upstairs[i]
             y == p.bb[2] + 4
             g == Way(p, d, y)
  <2>1. d \in Dir
    BY DEF Upstairs, Dir
  <2>2. y \in Int /\ p.bb[2] - 1 <= y /\ y + 1 <= p.bb[5]
    BY <1>1, <1>2, <1>4
  <2> HIDE DEF d, y
  <2>3. g \in GateRec /\ InWall(g, p.bb) /\ g.depth = p.gd
    BY <2>1, <2>2, WaySound
  <2>4. g.depth >= p.gd /\ 2 \in Nat \ {0} /\ 1 \in Nat
    BY <1>0, <2>3
  <2> HIDE DEF g
  <2>5. ForPiece(Maybe(2, 1, <<g>>), p)
    BY <2>3, <2>4, MaybeFor
  <2> QED BY <2>5 DEF g, d, y
<1>5. AllFor(Below(p), p)
  <2>1. Below(p) = [i \in 1 .. 3 |-> B(i)]
    BY DEF Below
  <2> HIDE DEF B
  <2>2. \A i \in 1 .. 3 : B(i) \in Task
    BY <1>3 DEF ForPiece
  <2> QED BY <1>3, <2>1, <2>2 DEF AllFor
<1>6. p.two => AllFor(Above(p), p)
  <2>1. Above(p) = [i \in 1 .. 4 |-> A(i)]
    BY DEF Above
  <2> HIDE DEF A
  <2>2. p.two => \A i \in 1 .. 4 : A(i) \in Task
    BY <1>4 DEF ForPiece
  <2> QED BY <1>4, <2>1, <2>2 DEF AllFor
<1> QED BY <1>5, <1>6, JoinFor DEF Crossed

\* All that a new piece leaves to do: gates in its own walls.
LEMMA ChildrenSound ==
  ASSUME site \in Site, drawn \in Nat, NEW p \in Piece, Shaped(p),
         p.kind \in {"corridor", "crossing", "stairs"}, NEW k \in Nat,
         NEW c, c = Children(p, k)
  PROVE  c.used \in Nat /\ AllFor(c.todo, p)
<1>0. p.bb \in Box /\ p.dir \in Dir /\ p.gd \in Nat
  BY DEF Piece
<1>1. CASE p.kind = "corridor"
  <2>1. c.todo = <<Open(End(p, k))>> \o Sides(p) /\ c.used = 2
    BY <1>1 DEF Children
  <2>2. AllFor(<<Open(End(p, k))>>, p)
    BY <1>1, EndSound, OneFor
  <2>3. AllFor(Sides(p), p)
    BY <1>1, SidesSound
  <2> QED BY <2>1, <2>2, <2>3, JoinFor
<1>2. CASE p.kind = "crossing"
  <2>1. c.todo = Crossed(p) /\ c.used = 0
    BY <1>2 DEF Children
  <2> QED BY <1>2, <2>1, CrossedSound
<1>3. CASE p.kind = "stairs"
  <2> DEFINE b == p.bb
             d == p.dir
             y == b[2]
             g == Straight(p, y)
  <2>1. c.todo = <<Open(g)>> /\ c.used = 0
    BY <1>3 DEF Children
  <2>2. /\ b[1] \in Int /\ b[2] \in Int /\ b[3] \in Int
        /\ b[4] \in Int /\ b[5] \in Int /\ b[6] \in Int
    BY <1>0, BoxParts
  <2>3. Wide(b, d, Low(b, d), y)
    BY <1>0, <1>3, <2>2 DEF Wide, Low, Shaped, Sized, AcrossX, Dir
  <2>4. g = Gate(Foot(b, d, Low(b, d), y), d, p.gd)
    BY DEF Straight
  <2> HIDE DEF b, d, y, g
  <2>5. g \in GateRec /\ InWall(g, b) /\ g.depth = p.gd
    BY <1>0, <2>3, <2>4, FacingGate DEF b, d
  <2>6. g.depth >= p.gd
    BY <1>0, <2>5
  <2>7. ForPiece(Open(g), p)
    BY <2>5, <2>6, OpenFor DEF b
  <2> QED BY <2>1, <2>7, OneFor
<1> QED BY <1>1, <1>2, <1>3

-----------------------------------------------------------------------------
(* The inductive invariant. *)

TypeInv ==
  /\ site \in Site /\ pieces \in Seq(Piece) /\ pieces # <<>> /\ entrances \in Seq(Box)
  /\ wall \in 1 .. 5 /\ pos \in 0 .. 14 /\ child \in Nat /\ todo \in Seq(Task)
  /\ drawn \in Nat

\* The first piece is the room, and it stays where it was until the end.
RoomInv ==
  LET b == pieces[1].bb
      c == site.chunk
  IN /\ pieces[1].gd = 0 /\ b[1] = 16 * c[1] + 2 /\ b[3] = 16 * c[2] + 2
     /\ b[4] \in b[1] + 7 .. b[1] + 12 /\ b[6] \in b[3] + 7 .. b[3] + 12
     /\ b[5] \in b[2] + 4 .. b[2] + 9
     /\ stub = <<>> => b[2] = 50

\* Where a piece may be.
Near(p) ==
  LET b == p.bb
      c == site.chunk
  IN /\ p.gd <= MaxDepth + 1
     /\ 16 * c[1] - 97 <= b[1] /\ b[4] <= 16 * c[1] + 101
     /\ 16 * c[2] - 97 <= b[3] /\ b[6] <= 16 * c[2] + 101
     /\ stub = <<>> => 50 - 6 * p.gd <= b[2] /\ b[5] <= 60 + 6 * p.gd
NearInv == \A i \in DOMAIN pieces : Sized(pieces[i].bb) /\ Near(pieces[i]) /\ (i > 1 => pieces[i].gd >= 1)

\* A gate that waits is in the wall of a piece; only one that is alone is in that of the room.
InSomeWall(g) == \E j \in DOMAIN pieces : InWall(g, pieces[j].bb) /\ pieces[j].gd <= g.depth
GatesInv ==
  \A k \in DOMAIN todo : todo[k].of = 0 => todo[k].gates # <<>>
WallsInv ==
  \A k \in DOMAIN todo : \A n \in DOMAIN todo[k].gates : InSomeWall(todo[k].gates[n])
FirstInv ==
  \A k \in DOMAIN todo : \A n \in DOMAIN todo[k].gates :
    todo[k].gates[n].depth = 0 => Len(todo) = 1 /\ child = 0 /\ todo[k].gates[n].dir = Walls[wall]

\* Every piece at the room has its entrance, but the one just made.
DoorOf(i) == Opening(pieces[1].bb, pieces[i].dir, pieces[i].bb)
DoorInv ==
  /\ Cardinality(AtRoom) = Len(entrances) + (IF child = 0 THEN 0 ELSE 1)
  /\ child # 0 => child \in AtRoom /\ pieces[child].dir = Walls[wall]
  /\ \A i \in AtRoom : Meets(DoorOf(i), pieces[1].bb)
  /\ \A i \in AtRoom : i = child \/ \E k \in DOMAIN entrances : entrances[k] = DoorOf(i)
  /\ \A k \in DOMAIN entrances : Meets(entrances[k], pieces[1].bb)

\* Three entrances for each wall, one for every four cells of it.
CountInv ==
  /\ Len(entrances) + (IF todo = <<>> /\ child = 0 THEN 0 ELSE 1) <= 3 * (wall - 1) + pos \div 4
  /\ wall = 5 => pos = 0 /\ todo = <<>> /\ child = 0
  /\ died => Len(pieces) >= MaxPieces

EndInv == stub # <<>> => wall = 5 /\ Settled

IInv ==
  /\ TypeInv /\ RoomInv /\ NearInv /\ Connected /\ GatesInv /\ WallsInv /\ FirstInv
  /\ DoorInv /\ CountInv /\ EndInv

-----------------------------------------------------------------------------
(* Steps that add no piece. *)

LEMMA PiecesKept ==
  ASSUME IInv, UNCHANGED <<site, pieces, stub>>
  PROVE  /\ RoomInv' /\ NearInv' /\ Connected'
         /\ \A g : InSomeWall(g) => InSomeWall(g)'
         /\ (Settled <=> Settled') /\ AtRoom' = AtRoom
<1>1. RoomInv'
  BY DEF IInv, RoomInv
<1>2. NearInv'
  BY DEF IInv, NearInv, Near
<1>3. Connected'
  BY DEF IInv, Connected
<1>4. \A g : InSomeWall(g) => InSomeWall(g)'
  BY DEF InSomeWall
<1>5. (Settled <=> Settled') /\ AtRoom' = AtRoom
  BY DEF Settled, AtRoom
<1> QED BY <1>1, <1>2, <1>3, <1>4, <1>5

LEMMA DoorsKept ==
  ASSUME IInv, UNCHANGED <<pieces, entrances, child, wall>>
  PROVE  DoorInv'
<1>1. AtRoom' = AtRoom /\ \A i : DoorOf(i)' = DoorOf(i)
  BY DEF AtRoom, DoorOf
<1> QED BY <1>1 DEF IInv, DoorInv

\* The rest of the stack holds no gate in the wall of the room.
LEMMA RestOfStack ==
  ASSUME IInv, todo # <<>>, NEW k \in DOMAIN Tail(todo), NEW n \in DOMAIN Tail(todo)[k].gates
  PROVE  /\ InSomeWall(Tail(todo)[k].gates[n])
         /\ Tail(todo)[k].gates[n].depth # 0
<1>0. todo \in Seq(Task)
  BY DEF IInv, TypeInv
<1>1. k + 1 \in DOMAIN todo /\ Tail(todo)[k] = todo[k + 1] /\ Len(todo) # 1
  BY <1>0
<1>2. n \in DOMAIN todo[k + 1].gates
  BY <1>1
<1> QED BY <1>1, <1>2 DEF IInv, WallsInv, FirstInv

LEMMA StackPopped ==
  ASSUME IInv, todo # <<>>, todo' = Tail(todo), drawn' \in Nat,
         UNCHANGED <<site, pieces, entrances, wall, pos, child, stub, died>>
  PROVE  IInv'
<1>0. todo \in Seq(Task)
  BY DEF IInv, TypeInv
<1>1. RoomInv' /\ NearInv' /\ Connected' /\ (\A g : InSomeWall(g) => InSomeWall(g)') /\ (Settled <=> Settled')
  BY PiecesKept
<1>2. DoorInv'
  BY DoorsKept
<1>3. Tail(todo) \in Seq(Task)
  BY <1>0
<1>4. TypeInv'
  BY <1>3 DEF IInv, TypeInv
<1>5. GatesInv'
  <2>1. \A k \in DOMAIN Tail(todo) : k + 1 \in DOMAIN todo /\ Tail(todo)[k] = todo[k + 1]
    BY <1>0
  <2> QED BY <2>1 DEF IInv, GatesInv
<1>6. WallsInv' /\ FirstInv'
  BY <1>1, RestOfStack DEF WallsInv, FirstInv
<1>7. CountInv'
  <2>1. wall # 5 /\ wall \in 1 .. 5 /\ pos \in 0 .. 14 /\ Len(entrances) \in Nat
    BY DEF IInv, CountInv, TypeInv
  <2>2. pos \div 4 \in Nat
    BY <2>1
  <2> QED BY <2>1, <2>2 DEF IInv, CountInv
<1>8. EndInv'
  BY <1>1 DEF IInv, EndInv
<1> QED BY <1>1, <1>2, <1>4, <1>5, <1>6, <1>7, <1>8 DEF IInv

LEMMA RefuseInv ==
  ASSUME IInv, Refuse
  PROVE  IInv'
<1>1. /\ todo # <<>> /\ todo' = Tail(todo)
      /\ UNCHANGED <<site, pieces, entrances, wall, pos, child, drawn, stub, died>>
  BY DEF Refuse, AtGate
<1>2. drawn' \in Nat
  BY <1>1 DEF IInv, TypeInv
<1> QED BY <1>1, <1>2, StackPopped

LEMMA ChooseInv ==
  ASSUME IInv, Choose
  PROVE  IInv'
<1> DEFINE t == Head(todo)
           k == Draw(0, t.of) - t.first + 1
<1>1. /\ todo # <<>> /\ drawn' = drawn + 1
      /\ todo' = (IF k \in DOMAIN t.gates THEN <<Open(t.gates[k])>> ELSE <<>>) \o Tail(todo)
      /\ UNCHANGED <<site, pieces, entrances, wall, pos, child, stub, died>>
  BY DEF Choose
<1>0. todo \in Seq(Task) /\ drawn' \in Nat
  BY <1>1 DEF IInv, TypeInv
<1>2. CASE k \notin DOMAIN t.gates
  <2>1. todo' = Tail(todo)
    BY <1>0, <1>1, <1>2
  <2> QED BY <1>0, <1>1, <2>1, StackPopped
<1>3. CASE k \in DOMAIN t.gates
  <2> DEFINE g == t.gates[k]
             o == Open(g)
  <2>1. 1 \in DOMAIN todo /\ t = todo[1] /\ t \in Task
    BY <1>0, <1>1
  <2>2. g \in GateRec
    <3>1. t.gates \in Seq(GateRec)
      BY <2>1 DEF Task
    <3> HIDE DEF t, k
    <3> QED BY <1>3, <3>1
  <2>3. InSomeWall(g) /\ (g.depth = 0 => Len(todo) = 1 /\ child = 0 /\ g.dir = Walls[wall])
    BY <1>3, <2>1 DEF IInv, WallsInv, FirstInv
  <2>4. todo' = <<o>> \o Tail(todo)
    BY <1>1, <1>3
  <2>5. o \in Task /\ o.of = 0 /\ o.gates = <<g>>
    <3>1. <<g>> \in Seq(GateRec)
      BY <2>2
    <3> QED BY <3>1 DEF Open, Task
  <2> HIDE DEF t, k, g, o
  <2>6. /\ todo' \in Seq(Task) /\ Len(todo') = Len(todo) /\ todo' # <<>>
        /\ todo'[1] = o
        /\ \A i \in DOMAIN todo' : i = 1 \/ (i - 1 \in DOMAIN Tail(todo) /\ todo'[i] = Tail(todo)[i - 1])
        /\ \A i \in DOMAIN Tail(todo) : i + 1 \in DOMAIN todo /\ Tail(todo)[i] = todo[i + 1]
    BY <1>0, <1>1, <2>4, <2>5
  <2>7. RoomInv' /\ NearInv' /\ Connected' /\ (\A h : InSomeWall(h) => InSomeWall(h)') /\ (Settled <=> Settled')
    BY <1>1, PiecesKept
  <2>8. DoorInv'
    BY <1>1, DoorsKept
  <2>9. TypeInv'
    BY <1>0, <1>1, <2>6 DEF IInv, TypeInv
  <2>11. o.gates # <<>> /\ DOMAIN o.gates = {1} /\ o.gates[1] = g
    BY <2>5
  <2>10. GatesInv'
    <3>1. \A i \in DOMAIN Tail(todo) : Tail(todo)[i].of = 0 => Tail(todo)[i].gates # <<>>
      BY <2>6 DEF IInv, GatesInv
    <3> QED BY <2>6, <2>11, <3>1 DEF GatesInv
  <2>12. ASSUME NEW i \in DOMAIN todo', NEW n \in DOMAIN todo'[i].gates,
                NEW x, x = todo'[i].gates[n]
         PROVE  /\ InSomeWall(x)
                /\ x.depth = 0 => Len(todo') = 1 /\ child' = 0 /\ x.dir = Walls[wall']
    <3>1. CASE i = 1
      <4>1. x = g
        BY <2>6, <2>11, <2>12, <3>1
      <4> QED BY <1>1, <2>3, <2>6, <4>1
    <3>2. CASE i # 1
      <4>1. i - 1 \in DOMAIN Tail(todo) /\ todo'[i] = Tail(todo)[i - 1]
        BY <2>6, <2>12, <3>2
      <4>2. n \in DOMAIN Tail(todo)[i - 1].gates /\ x = Tail(todo)[i - 1].gates[n]
        BY <2>12, <4>1
      <4>3. InSomeWall(x) /\ x.depth # 0
        BY <1>1, <4>1, <4>2, RestOfStack
      <4> QED BY <4>3
    <3> QED BY <3>1, <3>2
  <2>13. WallsInv' /\ FirstInv'
    BY <2>7, <2>12 DEF WallsInv, FirstInv
  <2>14. CountInv'
    BY <1>1, <2>6 DEF IInv, CountInv
  <2>15. EndInv'
    BY <1>1, <2>7 DEF IInv, EndInv
  <2> QED BY <2>7, <2>8, <2>9, <2>10, <2>13, <2>14, <2>15 DEF IInv
<1> QED BY <1>2, <1>3

LEMMA SiteParts ==
  ASSUME site \in Site
  PROVE  site.chunk[1] \in Int /\ site.chunk[2] \in Int
<1>1. site.chunk \in Int \X Int
  BY MineAssumption
<1> QED BY <1>1

LEMMA InitInv ==
  ASSUME Init
  PROVE  IInv
<1>0. site \in Site /\ drawn = 3 /\ stub = <<>> /\ died = FALSE /\ entrances = <<>>
      /\ wall = 1 /\ pos = 0 /\ child = 0 /\ todo = <<>>
  BY DEF Init
<1> DEFINE dx == Roll(site, 0, 6)
           dy == Roll(site, 1, 6)
           dz == Roll(site, 2, 6)
           r == Room(site.chunk, dx, dy, dz)
           w == 16 * site.chunk[1] + 2
           n == 16 * site.chunk[2] + 2
           bb == <<w, 50, n, w + 7 + dx, 54 + dy, n + 7 + dz>>
<1>1. dx \in 0 .. 5 /\ dy \in 0 .. 5 /\ dz \in 0 .. 5
  <2>1. \A i \in Nat, k \in Nat \ {0} : Roll(site, i, k) \in 0 .. k - 1
    BY <1>0, RollBelow
  <2>2. 6 \in Nat \ {0} /\ 0 \in Nat /\ 1 \in Nat /\ 2 \in Nat
    OBVIOUS
  <2>3. dx \in 0 .. 6 - 1 /\ dy \in 0 .. 6 - 1 /\ dz \in 0 .. 6 - 1
    BY <2>1, <2>2
  <2> QED BY <2>3
<1>2. pieces = <<r>>
  BY DEF Init
<1>3. w \in Int /\ n \in Int
  BY <1>0, SiteParts
<1>4. r = [kind |-> "room", bb |-> bb, dir |-> "S", gd |-> 0, two |-> FALSE, rails |-> FALSE,
            spider |-> FALSE, sections |-> 0]
  BY DEF Room
<1>5. bb \in Box
  <2> HIDE DEF dx, dy, dz, w, n
  <2> QED BY <1>1, <1>3 DEF Box
<1>6. /\ bb[1] = w /\ bb[2] = 50 /\ bb[3] = n /\ bb[4] = w + 7 + dx
      /\ bb[5] = 54 + dy /\ bb[6] = n + 7 + dz
  OBVIOUS
<1>7. r \in Piece /\ r.bb = bb /\ r.gd = 0
  <2> HIDE DEF bb, r
  <2> QED BY <1>4, <1>5 DEF Piece, Dir
<1>8. w = 16 * site.chunk[1] + 2 /\ n = 16 * site.chunk[2] + 2
  OBVIOUS
<1> HIDE DEF r, w, n, dx, dy, dz, bb
<1>9. pieces \in Seq(Piece) /\ pieces # <<>> /\ DOMAIN pieces = {1} /\ pieces[1] = r /\ Len(pieces) = 1
  BY <1>2, <1>7
<1>10. TypeInv
  BY <1>0, <1>9 DEF TypeInv
<1>17. site.chunk[1] \in Int /\ site.chunk[2] \in Int
  BY <1>0, SiteParts
<1>18. /\ bb[1] = 16 * site.chunk[1] + 2 /\ bb[3] = 16 * site.chunk[2] + 2 /\ bb[2] = 50
       /\ bb[4] \in bb[1] + 7 .. bb[1] + 12 /\ bb[6] \in bb[3] + 7 .. bb[3] + 12
       /\ bb[5] \in bb[2] + 4 .. bb[2] + 9
  BY <1>1, <1>3, <1>6, <1>8
<1>11. RoomInv
  BY <1>7, <1>9, <1>18 DEF RoomInv
<1>12. NearInv
  <2>1. MaxDepth \in Nat
    BY MineAssumption
  <2>2. Sized(r.bb)
    BY <1>1, <1>3, <1>6, <1>7 DEF Sized
  <2>3. Near(r)
    <3>1. /\ 16 * site.chunk[1] - 97 <= bb[1] /\ bb[4] <= 16 * site.chunk[1] + 101
          /\ 16 * site.chunk[2] - 97 <= bb[3] /\ bb[6] <= 16 * site.chunk[2] + 101
      BY <1>17, <1>18
    <3>2. 50 - 6 * 0 <= bb[2] /\ bb[5] <= 60 + 6 * 0 /\ 0 <= MaxDepth + 1
      BY <1>18, <2>1
    <3> QED BY <1>7, <3>1, <3>2 DEF Near
  <2> QED BY <1>9, <2>2, <2>3 DEF NearInv
<1>13. Connected
  BY <1>9 DEF Connected
<1>14. GatesInv /\ WallsInv /\ FirstInv
  BY <1>0 DEF GatesInv, WallsInv, FirstInv
<1>15. DoorInv
  <2>1. AtRoom = {}
    BY <1>7, <1>9 DEF AtRoom
  <2>2. Cardinality(AtRoom) = 0
    BY <2>1, FS_EmptySet
  <2> QED BY <1>0, <2>1, <2>2 DEF DoorInv
<1>16. CountInv /\ EndInv
  BY <1>0 DEF CountInv, EndInv
<1> QED BY <1>10, <1>11, <1>12, <1>13, <1>14, <1>15, <1>16 DEF IInv

\* The walls of the room are 8 to 13 cells wide.
LEMMA RoomWalls ==
  ASSUME IInv, NEW d \in Dir, NEW b, b = pieces[1].bb
  PROVE  /\ b \in Box /\ pieces[1].gd = 0 /\ 1 \in DOMAIN pieces
         /\ Width(b, d) \in 8 .. 13 /\ YSpan(b) \in 5 .. 10
<1>1. pieces[1] \in Piece /\ 1 \in DOMAIN pieces
  BY DEF IInv, TypeInv
<1>2. b \in Box
  BY <1>1 DEF Piece
<1>3. /\ b[1] \in Int /\ b[2] \in Int /\ b[3] \in Int
      /\ b[4] \in Int /\ b[5] \in Int /\ b[6] \in Int
  BY <1>2, BoxParts
<1>4. /\ b[4] \in b[1] + 7 .. b[1] + 12 /\ b[6] \in b[3] + 7 .. b[3] + 12
      /\ b[5] \in b[2] + 4 .. b[2] + 9 /\ pieces[1].gd = 0
  BY DEF IInv, RoomInv
<1>5. Width(b, d) \in 8 .. 13 /\ YSpan(b) \in 5 .. 10
  BY <1>3, <1>4 DEF Width, XSpan, YSpan, ZSpan
<1> QED BY <1>1, <1>2, <1>4, <1>5

LEMMA WallInv ==
  ASSUME IInv, Wall
  PROVE  IInv'
<1> DEFINE b == pieces[1].bb
           d == Walls[wall]
           span == Width(b, d)
           draw == Draw(0, span)
           at == pos + draw
           hs == IF YSpan(b) > 4 THEN YSpan(b) - 4 ELSE 1
           up == Draw(1, hs)
           a == Low(b, d) + at
           y == b[2] + up + 1
           gate == Gate(Foot(b, d, a, y), d, 0)
<1>0. /\ todo = <<>> /\ stub = <<>> /\ child = 0 /\ wall <= 4 /\ ~ died
      /\ UNCHANGED <<site, pieces, entrances, child, stub, died>>
  BY DEF Wall, InRoom
<1>1. \/ pos >= span /\ wall' = wall + 1 /\ pos' = 0 /\ UNCHANGED <<todo, drawn>>
      \/ pos < span /\ at + 3 > span /\ wall' = wall + 1 /\ pos' = 0 /\ drawn' = drawn + 1 /\ UNCHANGED todo
      \/ /\ pos < span /\ at + 3 <= span /\ todo' = <<Open(gate)>>
         /\ pos' = at + 4 /\ drawn' = drawn + 2 /\ UNCHANGED wall
  BY DEF Wall
<1>2. /\ site \in Site /\ drawn \in Nat /\ pos \in 0 .. 14 /\ wall \in 1 .. 4
      /\ entrances \in Seq(Box) /\ Len(entrances) \in Nat
  BY <1>0 DEF IInv, TypeInv
<1>3. d \in Dir
  BY <1>2 DEF Walls, Dir
<1>4. b \in Box /\ pieces[1].gd = 0 /\ 1 \in DOMAIN pieces /\ span \in 8 .. 13 /\ YSpan(b) \in 5 .. 10
  BY <1>3, RoomWalls
<1>5. RoomInv' /\ NearInv' /\ Connected' /\ (\A g : InSomeWall(g) => InSomeWall(g)') /\ (Settled <=> Settled')
      /\ AtRoom' = AtRoom
  BY <1>0, PiecesKept
<1>6. DoorInv'
  <2>1. \A i : DoorOf(i)' = DoorOf(i)
    BY <1>0 DEF DoorOf
  <2> QED BY <1>0, <1>5, <2>1 DEF IInv, DoorInv
<1>7. EndInv'
  BY <1>0 DEF EndInv
<1>8. draw \in 0 .. span - 1
  <2>1. span \in Nat \ {0} /\ 0 \in Nat
    BY <1>4
  <2> HIDE DEF span
  <2> QED BY <1>2, <2>1, DrawBelow
<1>9. hs \in Nat \ {0} /\ hs = YSpan(b) - 4
  BY <1>4
<1>10. up \in 0 .. hs - 1
  <2>1. 1 \in Nat
    OBVIOUS
  <2> HIDE DEF hs
  <2> QED BY <1>2, <1>9, <2>1, DrawBelow
<1>11. Len(entrances) <= 3 * (wall - 1) + pos \div 4
  BY <1>0, <1>2 DEF IInv, CountInv
<1>12. CASE wall' = wall + 1 /\ pos' = 0 /\ UNCHANGED todo /\ drawn' \in Nat
  <2>1. TypeInv'
    BY <1>0, <1>2, <1>12 DEF IInv, TypeInv
  <2>2. GatesInv' /\ WallsInv' /\ FirstInv'
    BY <1>0, <1>12 DEF GatesInv, WallsInv, FirstInv
  <2>3. pos \div 4 <= 3 /\ pos \div 4 \in Nat /\ 0 \div 4 = 0
    BY <1>2
  <2>4. CountInv'
    BY <1>0, <1>2, <1>11, <1>12, <2>3 DEF CountInv
  <2> QED BY <1>5, <1>6, <1>7, <2>1, <2>2, <2>4 DEF IInv
<1>13. CASE pos < span /\ at + 3 <= span /\ todo' = <<Open(gate)>>
            /\ pos' = at + 4 /\ drawn' = drawn + 2 /\ UNCHANGED wall
  <2>1. /\ b[1] \in Int /\ b[2] \in Int /\ b[3] \in Int
        /\ b[4] \in Int /\ b[5] \in Int /\ b[6] \in Int
    BY <1>4, BoxParts
  <2>2. at \in Nat /\ at >= pos /\ at <= 10
    <3>1. at = pos + draw /\ at + 3 <= span
      BY <1>13
    <3> HIDE DEF at, draw, span
    <3> QED BY <1>2, <1>4, <1>8, <3>1
  <2>3. Wide(b, d, a, y)
    <3>1. y \in Int /\ b[2] - 1 <= y /\ y + 1 <= b[5]
      <4>1. y = b[2] + up + 1
        OBVIOUS
      <4>2. YSpan(b) = b[5] - b[2] + 1
        BY DEF YSpan
      <4> HIDE DEF b, d, span, draw, at, hs, up, a, y
      <4> QED BY <1>9, <1>10, <2>1, <4>1, <4>2
    <3>2. /\ a \in Int
          /\ AcrossX(d) => b[1] <= a /\ a + 2 <= b[4]
          /\ ~ AcrossX(d) => b[3] <= a /\ a + 2 <= b[6]
      <4>1. at + 3 <= Width(b, d)
        BY <1>13
      <4> HIDE DEF b, d, span, draw, at, hs, up, y
      <4> QED BY <2>1, <2>2, <4>1 DEF Low, Width, XSpan, ZSpan
    <3> HIDE DEF b, d, span, draw, at, hs, up, a, y
    <3> QED BY <3>1, <3>2 DEF Wide
  <2>4. gate = Gate(Foot(b, d, a, y), d, 0) /\ 0 \in Nat
    OBVIOUS
  <2>5. gate \in GateRec /\ InWall(gate, b) /\ gate.dir = d /\ gate.depth = 0
    <3> HIDE DEF b, d, span, draw, at, hs, up, a, y, gate
    <3> QED BY <1>3, <1>4, <2>3, <2>4, FacingGate
  <2> DEFINE o == Open(gate)
  <2>6. InSomeWall(gate)
    BY <1>4, <2>5 DEF InSomeWall
  <2>7. ForPiece(o, pieces[1])
    <3>1. gate.depth >= pieces[1].gd
      BY <1>4, <2>5
    <3> HIDE DEF gate
    <3> QED BY <2>5, <3>1, OpenFor
  <2>8. o \in Task /\ o.of = 0 /\ o.gates # <<>> /\ DOMAIN o.gates = {1} /\ o.gates[1] = gate
    <3>1. o.gates = <<gate>> /\ o.of = 0
      BY DEF Open
    <3> HIDE DEF o, gate
    <3> QED BY <2>7, <3>1 DEF ForPiece
  <2>9. todo' = <<o>> /\ wall' = wall /\ pos' = at + 4 /\ drawn' = drawn + 2
    BY <1>13
  <2>10. d = Walls[wall]
    OBVIOUS
  <2> HIDE DEF b, d, span, draw, at, hs, up, a, y, gate, o
  <2>11. DOMAIN todo' = {1} /\ todo'[1] = o /\ Len(todo') = 1 /\ todo' \in Seq(Task) /\ todo' # <<>>
    BY <2>8, <2>9
  <2>12. TypeInv'
    BY <1>0, <1>2, <2>2, <2>9, <2>11 DEF IInv, TypeInv
  <2>13. GatesInv'
    BY <2>8, <2>11 DEF GatesInv
  <2>14. WallsInv' /\ FirstInv'
    BY <1>0, <1>5, <2>5, <2>6, <2>8, <2>9, <2>10, <2>11 DEF WallsInv, FirstInv
  <2>15. (at + 4) \div 4 >= pos \div 4 + 1 /\ pos \div 4 \in Nat
    BY <1>2, <2>2
  <2>16. CountInv'
    BY <1>0, <1>2, <1>11, <2>2, <2>9, <2>11, <2>15 DEF CountInv
  <2> QED BY <1>5, <1>6, <1>7, <2>12, <2>13, <2>14, <2>16 DEF IInv
<1>14. drawn + 1 \in Nat /\ drawn + 2 \in Nat
  BY <1>2
<1> QED BY <1>1, <1>2, <1>12, <1>13, <1>14

LEMMA OpeningBox ==
  ASSUME NEW b \in Box, NEW c \in Box, NEW d \in Dir
  PROVE  Opening(b, d, c) \in Box
<1>1. /\ b[1] \in Int /\ b[2] \in Int /\ b[3] \in Int
      /\ b[4] \in Int /\ b[5] \in Int /\ b[6] \in Int
  BY BoxParts
<1>2. /\ c[1] \in Int /\ c[2] \in Int /\ c[3] \in Int
      /\ c[4] \in Int /\ c[5] \in Int /\ c[6] \in Int
  BY BoxParts
<1>3. CASE d = "N"
  BY <1>1, <1>2, <1>3 DEF Opening, Box
<1>4. CASE d = "S"
  BY <1>1, <1>2, <1>4 DEF Opening, Box
<1>5. CASE d = "W"
  BY <1>1, <1>2, <1>5 DEF Opening, Box
<1>6. CASE d = "E"
  BY <1>1, <1>2, <1>6 DEF Opening, Box
<1> QED BY <1>3, <1>4, <1>5, <1>6 DEF Dir

LEMMA AddEntranceInv ==
  ASSUME IInv, AddEntrance
  PROVE  IInv'
<1> DEFINE o == DoorOf(child)
<1>0. /\ todo = <<>> /\ stub = <<>> /\ child # 0 /\ ~ died
      /\ UNCHANGED <<site, pieces, wall, pos, todo, drawn, stub>>
  BY DEF AddEntrance, InRoom
<1>1. /\ child \in AtRoom /\ pieces[child].dir = Walls[wall] /\ child \in Nat
      /\ Cardinality(AtRoom) = Len(entrances) + 1
  BY <1>0 DEF IInv, DoorInv, TypeInv
<1>2. entrances \in Seq(Box) /\ Len(entrances) \in Nat /\ wall \in 1 .. 4 /\ pos \in 0 .. 14
  BY <1>0 DEF IInv, TypeInv, CountInv
<1>3. Len(entrances) + 1 <= 3 * (wall - 1) + pos \div 4
  BY <1>0 DEF IInv, CountInv
<1>4. Len(entrances) < MaxEntrances
  <2>1. MaxEntrances \in Nat /\ MaxEntrances >= 12
    BY MineAssumption
  <2>2. pos \div 4 <= 3
    BY <1>2
  <2>3. pos \div 4 \in Nat
    BY <1>2
  <2> QED BY <1>2, <1>3, <2>1, <2>2, <2>3
<1>5. entrances' = Append(entrances, o) /\ child' = 0 /\ UNCHANGED died
  <2>1. entrances' = Append(entrances, Opening(pieces[1].bb, Walls[wall], pieces[child].bb))
        /\ child' = 0 /\ UNCHANGED died
    <3>1. MaxEntrances \in Nat
      BY MineAssumption
    <3> QED BY <1>2, <1>4, <3>1 DEF AddEntrance, Taken
  <2> QED BY <1>1, <2>1 DEF DoorOf
<1>6. o \in Box /\ Meets(o, pieces[1].bb)
  <2>1. child \in DOMAIN pieces /\ 1 \in DOMAIN pieces /\ pieces \in Seq(Piece)
    BY <1>1 DEF AtRoom, IInv, TypeInv
  <2>2. pieces[child] \in Piece /\ pieces[1] \in Piece
    BY <2>1
  <2>3. pieces[child].bb \in Box /\ pieces[1].bb \in Box /\ pieces[child].dir \in Dir
    BY <2>2 DEF Piece
  <2>4. o \in Box
    BY <2>3, OpeningBox DEF DoorOf
  <2> QED BY <1>1, <2>4 DEF IInv, DoorInv
<1>7. RoomInv' /\ NearInv' /\ Connected' /\ (\A g : InSomeWall(g) => InSomeWall(g)') /\ (Settled <=> Settled')
      /\ AtRoom' = AtRoom
  BY <1>0, PiecesKept
<1> HIDE DEF o
<1>8. /\ entrances' \in Seq(Box) /\ Len(entrances') = Len(entrances) + 1
      /\ \A k \in DOMAIN entrances : k \in DOMAIN entrances' /\ entrances'[k] = entrances[k]
      /\ Len(entrances) + 1 \in DOMAIN entrances' /\ entrances'[Len(entrances) + 1] = o
      /\ \A k \in DOMAIN entrances' : k \in DOMAIN entrances \/ k = Len(entrances) + 1
  BY <1>2, <1>5, <1>6
<1>9. TypeInv'
  BY <1>0, <1>5, <1>8 DEF IInv, TypeInv
<1>10. GatesInv' /\ WallsInv' /\ FirstInv'
  BY <1>0 DEF GatesInv, WallsInv, FirstInv
<1>11. DoorInv'
  <2>1. \A i : DoorOf(i)' = DoorOf(i)
    BY <1>0 DEF DoorOf
  <2>2. Cardinality(AtRoom') = Len(entrances')
    BY <1>1, <1>7, <1>8
  <2>3. \A i \in AtRoom : Meets(DoorOf(i), pieces[1].bb)
    BY DEF IInv, DoorInv
  <2>4. ASSUME NEW i \in AtRoom
        PROVE  \E k \in DOMAIN entrances' : entrances'[k] = DoorOf(i)
    <3>1. CASE i = child
      BY <1>8, <3>1 DEF o
    <3>2. CASE i # child
      <4>1. PICK k \in DOMAIN entrances : entrances[k] = DoorOf(i)
        BY <2>4, <3>2 DEF IInv, DoorInv
      <4> QED BY <1>8, <4>1
    <3> QED BY <3>1, <3>2
  <2>5. \A k \in DOMAIN entrances' : Meets(entrances'[k], pieces[1].bb)
    BY <1>6, <1>8 DEF IInv, DoorInv
  <2> QED BY <1>0, <1>2, <1>5, <1>7, <1>8, <2>1, <2>2, <2>3, <2>4, <2>5 DEF DoorInv
<1>12. CountInv'
  BY <1>0, <1>2, <1>3, <1>5, <1>8 DEF IInv, CountInv
<1>13. EndInv'
  BY <1>0 DEF EndInv
<1> QED BY <1>7, <1>9, <1>10, <1>11, <1>12, <1>13 DEF IInv

-----------------------------------------------------------------------------
(* A piece more. *)

\* What is made behind a gate in a wall of the room lines up with an opening in that wall.
LEMMA OpeningMeets ==
  ASSUME NEW g \in GateRec, NEW b \in Box, NEW c \in Box, InWall(g, b), Behind(c, g), Sized(b)
  PROVE  Meets(Opening(b, g.dir, c), b)
<1>0. g.dir \in Dir /\ g.foot \in Place
  BY DEF GateRec
<1>1. g.foot[1] \in Int /\ g.foot[2] \in Int /\ g.foot[3] \in Int
  BY <1>0, PlaceParts
<1>2. b[1] \in Int /\ b[2] \in Int /\ b[3] \in Int /\ b[4] \in Int /\ b[5] \in Int /\ b[6] \in Int
  BY BoxParts
<1>3. c[1] \in Int /\ c[2] \in Int /\ c[3] \in Int /\ c[4] \in Int /\ c[5] \in Int /\ c[6] \in Int
  BY BoxParts
<1> DEFINE o == Opening(b, g.dir, c)
<1>4. o[2] = c[2] /\ o[5] = c[5]
  <2>1. CASE g.dir = "N"
    BY <2>1 DEF Opening
  <2>2. CASE g.dir = "S"
    BY <2>2 DEF Opening
  <2>3. CASE g.dir = "W"
    BY <2>3 DEF Opening
  <2>4. CASE g.dir = "E"
    BY <2>4 DEF Opening
  <2> QED BY <1>0, <2>1, <2>2, <2>3, <2>4 DEF Dir
<1>5. CASE g.dir = "N"
  <2>1. o[1] = c[1] /\ o[3] = b[3] /\ o[4] = c[4] /\ o[6] = b[3] + 1
    BY <1>5 DEF Opening
  <2> HIDE DEF o
  <2> QED BY <1>1, <1>2, <1>3, <1>4, <1>5, <2>1 DEF Meets, InWall, Behind, Sized, o
<1>6. CASE g.dir = "S"
  <2>1. o[1] = c[1] /\ o[3] = b[6] - 1 /\ o[4] = c[4] /\ o[6] = b[6]
    BY <1>6 DEF Opening
  <2> HIDE DEF o
  <2> QED BY <1>1, <1>2, <1>3, <1>4, <1>6, <2>1 DEF Meets, InWall, Behind, Sized, o
<1>7. CASE g.dir = "W"
  <2>1. o[1] = b[1] /\ o[3] = c[3] /\ o[4] = b[1] + 1 /\ o[6] = c[6]
    BY <1>7 DEF Opening
  <2> HIDE DEF o
  <2> QED BY <1>1, <1>2, <1>3, <1>4, <1>7, <2>1 DEF Meets, InWall, Behind, Sized, o
<1>8. CASE g.dir = "E"
  <2>1. o[1] = b[4] - 1 /\ o[3] = c[3] /\ o[4] = b[4] /\ o[6] = c[6]
    BY <1>8 DEF Opening
  <2> HIDE DEF o
  <2> QED BY <1>1, <1>2, <1>3, <1>4, <1>8, <2>1 DEF Meets, InWall, Behind, Sized, o
<1> QED BY <1>0, <1>5, <1>6, <1>7, <1>8 DEF Dir

\* A box behind a gate that is not too far is near.
LEMMA NearOfGate ==
  ASSUME IInv, NEW g \in GateRec, g.depth <= MaxDepth, ~ TooFar(g.foot),
         NEW j \in DOMAIN pieces, InWall(g, pieces[j].bb), pieces[j].gd <= g.depth,
         NEW p \in Piece, p.gd = g.depth + 1, Behind(p.bb, g)
  PROVE  Near(p) /\ Passage(pieces[j].bb, p.bb)
<1> DEFINE a == pieces[j].bb
           b == p.bb
           r == pieces[1].bb
           f == g.foot
           c == site.chunk
<1>0. MaxDepth \in Nat /\ Far \in 0 .. 80
  BY MineAssumption
<1>1. g.dir \in Dir /\ f \in Place /\ g.depth \in Nat
  BY DEF GateRec
<1>2. f[1] \in Int /\ f[2] \in Int /\ f[3] \in Int
  BY <1>1, PlaceParts
<1>3. pieces[j] \in Piece /\ pieces[1] \in Piece /\ site \in Site
  BY DEF IInv, TypeInv
<1>4. a \in Box /\ b \in Box /\ r \in Box /\ pieces[j].gd \in Nat /\ p.gd \in Nat
  BY <1>3 DEF Piece
<1>5. c[1] \in Int /\ c[2] \in Int
  BY <1>3, SiteParts
<1>6. Sized(a) /\ Near(pieces[j])
  BY DEF IInv, NearInv
<1>7. Passage(a, b) /\ a[2] - 6 <= b[2] /\ b[5] <= a[5] + 5
  BY <1>4, <1>6, BehindPassage
<1>8. r[1] = 16 * c[1] + 2 /\ r[3] = 16 * c[2] + 2
  BY DEF IInv, RoomInv
<1>9. f[1] - r[1] \in -Far .. Far /\ f[3] - r[3] \in -Far .. Far
  BY DEF TooFar
<1>10. f[1] - 19 <= b[1] /\ b[4] <= f[1] + 19 /\ f[3] - 19 <= b[3] /\ b[6] <= f[3] + 19
  <2>1. b[1] \in Int /\ b[2] \in Int /\ b[3] \in Int /\ b[4] \in Int /\ b[5] \in Int /\ b[6] \in Int
    BY <1>4, BoxParts
  <2>2. Behind(b, g)
    OBVIOUS
  <2> HIDE DEF b, f
  <2> QED BY <1>1, <1>2, <2>1, <2>2 DEF Behind, Dir, f
<1>11. /\ b[1] \in Int /\ b[2] \in Int /\ b[3] \in Int /\ b[4] \in Int /\ b[5] \in Int /\ b[6] \in Int
       /\ a[2] \in Int /\ a[5] \in Int
  BY <1>4, BoxParts
<1>12. p.gd <= MaxDepth + 1 /\ pieces[j].gd + 1 <= p.gd
  BY <1>0, <1>1, <1>4
<1>13. /\ 16 * c[1] - 97 <= b[1] /\ b[4] <= 16 * c[1] + 101
       /\ 16 * c[2] - 97 <= b[3] /\ b[6] <= 16 * c[2] + 101
  <2> HIDE DEF a, b, r, f, c
  <2> QED BY <1>0, <1>2, <1>5, <1>8, <1>9, <1>10, <1>11
<1>14. stub = <<>> => 50 - 6 * p.gd <= b[2] /\ b[5] <= 60 + 6 * p.gd
  <2>1. stub = <<>> => 50 - 6 * pieces[j].gd <= a[2] /\ a[5] <= 60 + 6 * pieces[j].gd
    BY <1>6 DEF Near
  <2>2. PICK u \in Nat, v \in Nat : u = p.gd /\ v = pieces[j].gd
    BY <1>4
  <2>3. v + 1 <= u
    BY <1>12, <2>2
  <2>4. PICK l \in Int, h \in Int : l = b[2] /\ h = b[5]
    BY <1>11
  <2>5. PICK m \in Int, n \in Int : m = a[2] /\ n = a[5]
    BY <1>11
  <2>6. m - 6 <= l /\ h <= n + 5
    BY <1>7, <2>4, <2>5
  <2>7. stub = <<>> => 50 - 6 * v <= m /\ n <= 60 + 6 * v
    BY <2>1, <2>2, <2>5
  <2>8. stub = <<>> => 50 - 6 * u <= l /\ h <= 60 + 6 * u
    BY <2>3, <2>6, <2>7
  <2> QED BY <2>2, <2>4, <2>8
<1> QED BY <1>7, <1>12, <1>13, <1>14 DEF Near

LEMMA AddPiece ==
  ASSUME IInv, todo # <<>>, Head(todo).of = 0,
         NEW g, g = Head(todo).gates[1], g.depth <= MaxDepth, ~ TooFar(g.foot),
         NEW p \in Piece, ~ Collides(p.bb), p.dir = g.dir, p.gd = g.depth + 1,
         Behind(p.bb, g), Shaped(p),
         NEW s, AllFor(s, p), NEW L, L = Len(pieces) + 1,
         pieces' = Append(pieces, p), todo' = s \o Tail(todo), drawn' \in Nat,
         child' = IF g.depth = 0 THEN Len(pieces) + 1 ELSE child,
         UNCHANGED <<site, entrances, wall, pos, stub, died>>
  PROVE  IInv'
<1> DEFINE P == pieces'
           rest == Tail(todo)
<1>1. /\ site \in Site /\ pieces \in Seq(Piece) /\ pieces # <<>> /\ entrances \in Seq(Box)
      /\ wall \in 1 .. 5 /\ pos \in 0 .. 14 /\ child \in Nat /\ todo \in Seq(Task)
  BY DEF IInv, TypeInv
<1>2. 1 \in DOMAIN todo /\ Head(todo) = todo[1] /\ todo[1] \in Task
  BY <1>1
<1>3. todo[1].gates \in Seq(GateRec) /\ todo[1].gates # <<>>
  BY <1>2 DEF Task, IInv, GatesInv
<1>4. 1 \in DOMAIN todo[1].gates /\ g = todo[1].gates[1] /\ g \in GateRec
  BY <1>2, <1>3
<1>5. InSomeWall(g) /\ (g.depth = 0 => Len(todo) = 1 /\ child = 0 /\ g.dir = Walls[wall])
  BY <1>2, <1>4 DEF IInv, WallsInv, FirstInv
<1>6. PICK j \in DOMAIN pieces : InWall(g, pieces[j].bb) /\ pieces[j].gd <= g.depth
  BY <1>5 DEF InSomeWall
<1>7. Near(p) /\ Passage(pieces[j].bb, p.bb)
  BY <1>4, <1>6, NearOfGate
<1>8. g.depth \in Nat /\ pieces[j] \in Piece /\ pieces[j].gd \in Nat /\ p.gd \in Nat
  <2>1. g.depth \in Nat
    BY <1>4 DEF GateRec
  <2>2. pieces[j] \in Piece
    BY <1>1, <1>6
  <2>3. pieces[j].gd \in Nat
    BY <2>2 DEF Piece
  <2> QED BY <2>1, <2>2, <2>3
<1>9. stub = <<>> /\ wall # 5
  BY DEF IInv, CountInv, EndInv
<1>10. /\ P \in Seq(Piece) /\ Len(P) = L /\ P # <<>> /\ L \in Nat /\ L > 1 /\ Len(pieces) \in Nat
       /\ DOMAIN P = 1 .. L /\ DOMAIN pieces = 1 .. L - 1 /\ L \in DOMAIN P
       /\ \A i \in DOMAIN pieces : i \in DOMAIN P /\ P[i] = pieces[i] /\ i # L /\ i < L
       /\ \A i \in DOMAIN P : i \in DOMAIN pieces \/ i = L
       /\ P[L] = p /\ 1 \in DOMAIN pieces
  <2>1. P = Append(pieces, p)
    OBVIOUS
  <2>2. Len(pieces) \in Nat /\ Len(pieces) # 0 /\ DOMAIN pieces = 1 .. Len(pieces)
    BY <1>1
  <2> HIDE DEF P
  <2>3. P \in Seq(Piece) /\ Len(P) = L /\ P # <<>> /\ DOMAIN P = 1 .. L /\ P[L] = p
    BY <1>1, <2>1, <2>2
  <2>4. \A i \in 1 .. Len(pieces) : P[i] = pieces[i]
    BY <1>1, <2>1, <2>2
  <2> QED BY <2>2, <2>3, <2>4
<1>11. rest \in Seq(Task) /\ s \in Seq(Task) /\ todo' = s \o rest /\ todo' \in Seq(Task)
  BY <1>1 DEF AllFor
<1> HIDE DEF P, rest
<1>12. TypeInv'
  <2>1. child' \in Nat
    BY <1>1, <1>10
  <2> QED BY <1>1, <1>10, <1>11, <2>1 DEF TypeInv, P
<1>13. RoomInv'
  BY <1>10 DEF IInv, RoomInv, P
<1>14. NearInv'
  <2>1. Sized(p.bb) /\ p.gd >= 1
    BY DEF Shaped
  <2>3. \A i \in DOMAIN pieces : Sized(pieces[i].bb) /\ Near(pieces[i]) /\ (i > 1 => pieces[i].gd >= 1)
    BY DEF IInv, NearInv
  <2>4. \A i \in DOMAIN P : Sized(P[i].bb) /\ Near(P[i]) /\ (i > 1 => P[i].gd >= 1)
    BY <1>7, <1>10, <2>1, <2>3
  <2> QED BY <2>4 DEF NearInv, Near, P
<1>15. Connected'
  <2>1. \A i \in DOMAIN pieces : ~ Meets(p.bb, pieces[i].bb)
    BY DEF Collides, Meets
  <2>2. \A i \in DOMAIN pieces : \A k \in 1 .. i - 1 : ~ Meets(pieces[i].bb, pieces[k].bb)
    BY DEF IInv, Connected
  <2>3. \A i \in DOMAIN pieces : i > 1 =>
          \E k \in 1 .. i - 1 : pieces[k].gd < pieces[i].gd /\ Passage(pieces[k].bb, pieces[i].bb)
    BY DEF IInv, Connected
  <2>4. ASSUME NEW i \in DOMAIN P
        PROVE  /\ \A k \in 1 .. i - 1 : ~ Meets(P[i].bb, P[k].bb)
               /\ i > 1 => \E k \in 1 .. i - 1 : P[k].gd < P[i].gd /\ Passage(P[k].bb, P[i].bb)
    <3>1. CASE i = L
      <4>1. \A k \in 1 .. i - 1 : k \in DOMAIN pieces
        BY <1>10, <3>1
      <4>2. \A k \in 1 .. i - 1 : ~ Meets(P[i].bb, P[k].bb)
        BY <1>10, <2>1, <3>1, <4>1
      <4>3. j \in 1 .. i - 1 /\ P[j] = pieces[j] /\ P[i] = p
        BY <1>6, <1>10, <3>1
      <4>4. P[j].gd < P[i].gd /\ Passage(P[j].bb, P[i].bb)
        BY <1>6, <1>7, <1>8, <4>3
      <4> QED BY <4>2, <4>3, <4>4
    <3>2. CASE i \in DOMAIN pieces
      <4>1. \A k \in 1 .. i - 1 : k \in DOMAIN pieces /\ P[k] = pieces[k]
        <5>1. i \in 1 .. L - 1 /\ L \in Nat
          BY <1>10, <3>2
        <5>2. \A k \in 1 .. i - 1 : k \in 1 .. L - 1
          BY <5>1
        <5> QED BY <1>10, <5>2
      <4>2. P[i] = pieces[i]
        BY <1>10, <3>2
      <4> QED BY <2>2, <2>3, <3>2, <4>1, <4>2
    <3> QED BY <1>10, <2>4, <3>1, <3>2
  <2> QED BY <2>4 DEF Connected, P
<1>16. \A h : InSomeWall(h) => InSomeWall(h)'
  <2>1. ASSUME NEW h, InSomeWall(h)
        PROVE  \E k \in DOMAIN P : InWall(h, P[k].bb) /\ P[k].gd <= h.depth
    <3>1. PICK k \in DOMAIN pieces : InWall(h, pieces[k].bb) /\ pieces[k].gd <= h.depth
      BY <2>1 DEF InSomeWall
    <3> QED BY <1>10, <3>1
  <2> QED BY <2>1 DEF InSomeWall, P
<1>17. ASSUME NEW t, ForPiece(t, p), NEW n \in DOMAIN t.gates
       PROVE  InSomeWall(t.gates[n])' /\ t.gates[n].depth # 0
  <2>1. InWall(t.gates[n], p.bb) /\ t.gates[n].depth >= p.gd /\ t.gates[n] \in GateRec
    BY <1>17 DEF ForPiece
  <2>2. t.gates[n].depth \in Nat
    BY <2>1 DEF GateRec
  <2>3. \E k \in DOMAIN P : InWall(t.gates[n], P[k].bb) /\ P[k].gd <= t.gates[n].depth
    BY <1>8, <1>10, <2>1, <2>2
  <2>4. InSomeWall(t.gates[n])'
    BY <2>3 DEF InSomeWall, P
  <2> QED BY <1>8, <2>1, <2>2, <2>4
<1>18. ASSUME NEW k \in DOMAIN todo'
       PROVE  ForPiece(todo'[k], p) \/ \E i \in DOMAIN rest : todo'[k] = rest[i]
  <2>0. k \in DOMAIN (s \o rest) /\ todo'[k] = (s \o rest)[k]
    BY <1>11, <1>18
  <2>1. CASE k \in DOMAIN s /\ todo'[k] = s[k]
    BY <2>1 DEF AllFor
  <2>2. CASE k - Len(s) \in DOMAIN rest /\ todo'[k] = rest[k - Len(s)]
    BY <2>2
  <2> QED BY <1>11, <2>0, <2>1, <2>2, EitherPart
<1>19. GatesInv'
  <2>1. \A i \in DOMAIN rest : i + 1 \in DOMAIN todo /\ rest[i] = todo[i + 1]
    BY <1>1 DEF rest
  <2>2. \A i \in DOMAIN rest : rest[i].of = 0 => rest[i].gates # <<>>
    BY <2>1 DEF IInv, GatesInv
  <2>3. ASSUME NEW k \in DOMAIN todo', todo'[k].of = 0
        PROVE  todo'[k].gates # <<>>
    <3>1. CASE ForPiece(todo'[k], p)
      BY <2>3, <3>1 DEF ForPiece
    <3>2. CASE \E i \in DOMAIN rest : todo'[k] = rest[i]
      BY <2>2, <2>3, <3>2
    <3> QED BY <1>18, <3>1, <3>2
  <2> QED BY <2>3 DEF GatesInv
<1>20. ASSUME NEW k \in DOMAIN todo', NEW n \in DOMAIN todo'[k].gates,
              NEW x, x = todo'[k].gates[n]
       PROVE  InSomeWall(x)' /\ x.depth # 0
  <2>1. CASE ForPiece(todo'[k], p)
    <3>1. PICK t : t = todo'[k]
      OBVIOUS
    <3>2. ForPiece(t, p) /\ n \in DOMAIN t.gates /\ x = t.gates[n]
      BY <1>20, <2>1, <3>1
    <3> QED BY <1>17, <3>2
  <2>2. CASE \E i \in DOMAIN rest : todo'[k] = rest[i]
    <3>1. PICK i \in DOMAIN rest : todo'[k] = rest[i]
      BY <2>2
    <3>2. i \in DOMAIN Tail(todo) /\ n \in DOMAIN Tail(todo)[i].gates /\ x = Tail(todo)[i].gates[n]
      BY <1>20, <3>1 DEF rest
    <3>3. InSomeWall(x) /\ x.depth # 0
      BY <3>2, RestOfStack
    <3> QED BY <1>16, <3>3
  <2> QED BY <1>18, <2>1, <2>2
<1>21. WallsInv'
  BY <1>20 DEF WallsInv
<1>22. FirstInv'
  BY <1>20 DEF FirstInv
<1>23. \A i \in DOMAIN pieces : DoorOf(i)' = DoorOf(i)
  BY <1>10 DEF DoorOf, P
<1>24. DoorInv'
  <2>1. AtRoom \subseteq 1 .. L - 1 /\ AtRoom \subseteq DOMAIN pieces
    BY <1>10 DEF AtRoom
  <2>2. IsFiniteSet(AtRoom)
    <3>1. L - 1 \in Int /\ 1 \in Int
      BY <1>10
    <3>2. IsFiniteSet(1 .. L - 1)
      BY <3>1, FS_Interval
    <3> QED BY <2>1, <3>2, FS_Subset
  <2>3. /\ Cardinality(AtRoom) = Len(entrances) + (IF child = 0 THEN 0 ELSE 1)
        /\ child # 0 => child \in AtRoom /\ pieces[child].dir = Walls[wall]
        /\ \A i \in AtRoom : Meets(DoorOf(i), pieces[1].bb)
        /\ \A i \in AtRoom : i = child \/ \E k \in DOMAIN entrances : entrances[k] = DoorOf(i)
        /\ \A k \in DOMAIN entrances : Meets(entrances[k], pieces[1].bb)
    BY DEF IInv, DoorInv
  <2>4. P[1] = pieces[1]
    BY <1>10
  <2>5. CASE g.depth = 0
    <3>1. child = 0 /\ child' = L /\ p.gd = 1 /\ p.dir = Walls[wall]
      BY <1>5, <2>5
    <3>2. AtRoom' = AtRoom \cup {L}
      BY <1>10, <3>1 DEF AtRoom, P
    <3>3. L \notin AtRoom
      BY <1>10, <2>1
    <3>4. Cardinality(AtRoom') = Cardinality(AtRoom) + 1
      BY <2>2, <3>2, <3>3, FS_AddElement
    <3>5. j = 1
      <4>1. j \in Nat /\ j >= 1 /\ (j > 1 => pieces[j].gd >= 1)
        BY <1>6, <1>10 DEF IInv, NearInv
      <4> QED BY <1>6, <1>8, <2>5, <4>1
    <3>6. DoorOf(L)' = Opening(pieces[1].bb, g.dir, p.bb)
      BY <1>10, <2>4 DEF DoorOf, P
    <3>7. Meets(DoorOf(L)', pieces[1].bb)
      <4>1. pieces[1].bb \in Box /\ p.bb \in Box
        BY <1>8, <3>5 DEF Piece
      <4>2. Sized(pieces[1].bb)
        BY <1>10 DEF IInv, NearInv
      <4> QED BY <1>4, <1>6, <3>5, <3>6, <4>1, <4>2, OpeningMeets
    <3>8. Cardinality(AtRoom') = Len(entrances') + (IF child' = 0 THEN 0 ELSE 1)
      BY <1>1, <1>10, <2>3, <3>1, <3>4
    <3>9. child' \in AtRoom' /\ P[child'].dir = Walls[wall']
      BY <1>10, <3>1, <3>2
    <3>10. \A i \in AtRoom' : Meets(DoorOf(i)', P[1].bb)
      BY <1>23, <2>1, <2>3, <2>4, <3>2, <3>7
    <3>11. \A i \in AtRoom' : i = child' \/ \E k \in DOMAIN entrances' : entrances'[k] = DoorOf(i)'
      <4>1. \A i \in AtRoom : i # 0
        BY <1>10, <2>1
      <4> QED BY <1>23, <2>1, <2>3, <3>1, <3>2, <4>1
    <3>12. \A k \in DOMAIN entrances' : Meets(entrances'[k], P[1].bb)
      BY <2>3, <2>4
    <3> QED BY <3>8, <3>9, <3>10, <3>11, <3>12 DEF DoorInv, P
  <2>6. CASE g.depth # 0
    <3>1. child' = child /\ p.gd # 1
      BY <1>8, <2>6
    <3>2. AtRoom' = AtRoom
      BY <1>10, <3>1 DEF AtRoom, P
    <3>3. Cardinality(AtRoom') = Len(entrances') + (IF child' = 0 THEN 0 ELSE 1)
      BY <2>3, <3>1, <3>2
    <3>4. child' # 0 => child' \in AtRoom' /\ P[child'].dir = Walls[wall']
      BY <1>10, <2>1, <2>3, <3>1, <3>2
    <3>5. \A i \in AtRoom' : Meets(DoorOf(i)', P[1].bb)
      BY <1>23, <2>1, <2>3, <2>4, <3>2
    <3>6. \A i \in AtRoom' : i = child' \/ \E k \in DOMAIN entrances' : entrances'[k] = DoorOf(i)'
      BY <1>23, <2>1, <2>3, <3>1, <3>2
    <3>7. \A k \in DOMAIN entrances' : Meets(entrances'[k], P[1].bb)
      BY <2>3, <2>4
    <3> QED BY <3>3, <3>4, <3>5, <3>6, <3>7 DEF DoorInv, P
  <2> QED BY <2>5, <2>6
<1>25. CountInv'
  <2>1. Len(entrances) + 1 <= 3 * (wall - 1) + pos \div 4 /\ (died => Len(pieces) >= MaxPieces)
    BY DEF IInv, CountInv
  <2>2. MaxPieces \in Nat
    BY MineAssumption
  <2>3. pos \div 4 \in Nat /\ Len(entrances) \in Nat
    BY <1>1
  <2>4. died' => Len(P) >= MaxPieces
    BY <1>10, <2>1, <2>2
  <2>5. wall' = wall /\ pos' = pos /\ Len(entrances') = Len(entrances)
    OBVIOUS
  <2>6. Len(entrances') + (IF todo' = <<>> /\ child' = 0 THEN 0 ELSE 1) <= 3 * (wall' - 1) + pos' \div 4
    <3> DEFINE x == IF todo' = <<>> /\ child' = 0 THEN 0 ELSE 1
    <3>1. x \in 0 .. 1
      OBVIOUS
    <3> HIDE DEF x
    <3>2. Len(entrances) + x <= 3 * (wall - 1) + pos \div 4
      BY <1>1, <2>1, <2>3, <3>1
    <3> QED BY <2>5, <3>2 DEF x
  <2> QED BY <1>9, <2>4, <2>5, <2>6 DEF CountInv, P
<1>26. EndInv'
  BY <1>9 DEF EndInv
<1> QED BY <1>12, <1>13, <1>14, <1>15, <1>19, <1>21, <1>22, <1>24, <1>25, <1>26 DEF IInv

LEMMA GrowInv ==
  ASSUME IInv, Grow
  PROVE  IInv'
<1> DEFINE g == Head(todo).gates[1]
           m == Made(g)
           c == Children(m.piece, m.used)
<1>1. /\ todo # <<>> /\ Head(todo).of = 0 /\ g.depth <= MaxDepth /\ ~ TooFar(g.foot) /\ ~ died
      /\ UNCHANGED <<site, entrances, wall, pos, stub>>
  BY DEF Grow, AtGate
<1>2. \/ /\ Len(pieces) >= MaxPieces
         /\ died' = TRUE /\ UNCHANGED <<pieces, child, todo, drawn>>
      \/ /\ m.fits /\ UNCHANGED died
         /\ pieces' = Append(pieces, m.piece)
         /\ child' = IF g.depth = 0 THEN Len(pieces) + 1 ELSE child
         /\ todo' = c.todo \o Tail(todo)
         /\ drawn' = drawn + m.used + c.used
      \/ /\ todo' = Tail(todo) /\ drawn' = drawn + m.used
         /\ UNCHANGED <<pieces, child, died>>
  BY DEF Grow
<1>3. todo \in Seq(Task) /\ site \in Site /\ drawn \in Nat
  BY DEF IInv, TypeInv
<1>4. g \in GateRec
  <2>1. 1 \in DOMAIN todo /\ Head(todo) = todo[1] /\ todo[1] \in Task
    BY <1>1, <1>3
  <2>2. todo[1].gates \in Seq(GateRec) /\ todo[1].gates # <<>>
    BY <1>1, <2>1 DEF Task, IInv, GatesInv
  <2> QED BY <2>1, <2>2
<1>5. /\ m.used \in Nat /\ m.fits \in BOOLEAN
      /\ m.fits => /\ m.piece \in Piece /\ ~ Collides(m.piece.bb)
                   /\ m.piece.kind \in {"corridor", "crossing", "stairs"}
                   /\ m.piece.dir = g.dir /\ m.piece.gd = g.depth + 1
                   /\ Behind(m.piece.bb, g) /\ Shaped(m.piece)
  <2> HIDE DEF g
  <2> QED BY <1>3, <1>4, MadeSound
<1>6. CASE /\ Len(pieces) >= MaxPieces
           /\ died' = TRUE /\ UNCHANGED <<pieces, child, todo, drawn>>
  <2>1. RoomInv' /\ NearInv' /\ Connected' /\ (\A h : InSomeWall(h) => InSomeWall(h)') /\ (Settled <=> Settled')
    BY <1>1, <1>6, PiecesKept
  <2>2. DoorInv'
    BY <1>1, <1>6, DoorsKept
  <2>3. TypeInv' /\ GatesInv' /\ WallsInv' /\ FirstInv'
    BY <1>1, <1>6, <2>1 DEF IInv, TypeInv, GatesInv, WallsInv, FirstInv
  <2>4. CountInv' /\ EndInv'
    BY <1>1, <1>6, <2>1 DEF IInv, CountInv, EndInv
  <2> QED BY <2>1, <2>2, <2>3, <2>4 DEF IInv
<1>7. CASE /\ m.fits /\ UNCHANGED died
           /\ pieces' = Append(pieces, m.piece)
           /\ child' = IF g.depth = 0 THEN Len(pieces) + 1 ELSE child
           /\ todo' = c.todo \o Tail(todo)
           /\ drawn' = drawn + m.used + c.used
  <2> DEFINE p == m.piece
             k == m.used
  <2>1. c = Children(p, k)
    OBVIOUS
  <2>2. c.used \in Nat /\ AllFor(c.todo, p)
    <3>1. /\ p \in Piece /\ Shaped(p) /\ p.kind \in {"corridor", "crossing", "stairs"} /\ k \in Nat
      BY <1>5, <1>7
    <3> HIDE DEF p, k, c
    <3> QED BY <1>3, <2>1, <3>1, ChildrenSound
  <2>3. drawn' \in Nat
    <3> HIDE DEF m, c
    <3> QED BY <1>3, <1>5, <1>7, <2>2
  <2>4. /\ pieces' = Append(pieces, p) /\ todo' = c.todo \o Tail(todo)
        /\ child' = IF g.depth = 0 THEN Len(pieces) + 1 ELSE child
        /\ p \in Piece /\ ~ Collides(p.bb) /\ p.dir = g.dir /\ p.gd = g.depth + 1
        /\ Behind(p.bb, g) /\ Shaped(p)
        /\ UNCHANGED <<site, entrances, wall, pos, stub, died>>
    BY <1>1, <1>5, <1>7
  <2>5. g = Head(todo).gates[1]
    OBVIOUS
  <2> HIDE DEF g, m, c, p
  <2> QED BY <1>1, <2>2, <2>3, <2>4, <2>5, AddPiece
<1>8. CASE /\ todo' = Tail(todo) /\ drawn' = drawn + m.used
           /\ UNCHANGED <<pieces, child, died>>
  <2>1. drawn' \in Nat
    BY <1>3, <1>5, <1>8
  <2> QED BY <1>1, <1>8, <2>1, StackPopped
<1> HIDE DEF g, m, c
<1> QED BY <1>2, <1>6, <1>7, <1>8

-----------------------------------------------------------------------------
(* The mineshaft comes to rest. *)

\* A nonempty set of natural numbers has a least element.
LEMMA LeastNatural ==
  ASSUME NEW T \in SUBSET Nat, T # {}
  PROVE  \E x \in T : \A y \in T : x <= y
<1> DEFINE Initials == {0 .. x : x \in T}
<1>1. \A x \in Nat : 0 .. x \in FiniteSubsetsOf(Nat)
  BY FS_Interval DEF FiniteSubsetsOf
<1>2. Initials \subseteq FiniteSubsetsOf(Nat) /\ Initials # {}
  BY <1>1
<1>3. \E D \in Initials : \A E \in Initials : <<E, D>> \notin StrictSubsetOrdering(Nat)
  BY <1>2, FS_StrictSubsetOrderingWellFounded, WFMin
<1>4. PICK x \in T : \A E \in Initials : <<E, 0 .. x>> \notin StrictSubsetOrdering(Nat)
  BY <1>3
<1>5. ASSUME NEW y \in T, y < x
      PROVE  FALSE
  <2>1. <<0 .. y, 0 .. x>> \in StrictSubsetOrdering(Nat)
    BY <1>5 DEF StrictSubsetOrdering
  <2> QED BY <1>4, <2>1
<1> QED BY <1>5

\* Before the end, no height is beyond what MaxDepth allows: there is a top and a bottom.
LEMMA TopAndBottom ==
  ASSUME IInv, stub = <<>>
  PROVE  /\ Top(pieces) \in Int /\ Bottom(pieces) \in Int
         /\ \A i \in DOMAIN pieces : pieces[i].bb[5] <= Top(pieces) /\ Bottom(pieces) <= pieces[i].bb[2]
         /\ \E i \in DOMAIN pieces : pieces[i].bb[2] = Bottom(pieces)
<1> DEFINE tops == {pieces[i].bb[5] : i \in DOMAIN pieces}
           bottoms == {pieces[i].bb[2] : i \in DOMAIN pieces}
           high == 66 + 6 * MaxDepth
           low == 44 - 6 * MaxDepth
<1>0. MaxDepth \in Nat /\ high \in Int /\ low \in Int
  BY MineAssumption
<1>1. \A i \in DOMAIN pieces : pieces[i].bb[5] \in Int /\ pieces[i].bb[2] \in Int
  <2>1. ASSUME NEW i \in DOMAIN pieces PROVE pieces[i].bb[5] \in Int /\ pieces[i].bb[2] \in Int
    <3>1. pieces[i] \in Piece
      BY DEF IInv, TypeInv
    <3> QED BY <3>1, BoxParts DEF Piece
  <2> QED BY <2>1
<1>2. \A i \in DOMAIN pieces : pieces[i].bb[5] <= high /\ low <= pieces[i].bb[2]
  <2>1. ASSUME NEW i \in DOMAIN pieces PROVE pieces[i].bb[5] <= high /\ low <= pieces[i].bb[2]
    <3>1. pieces[i] \in Piece
      BY DEF IInv, TypeInv
    <3>2. PICK u \in Nat : u = pieces[i].gd
      BY <3>1 DEF Piece
    <3>3. u <= MaxDepth + 1 /\ 50 - 6 * u <= pieces[i].bb[2] /\ pieces[i].bb[5] <= 60 + 6 * u
      BY <3>2 DEF IInv, NearInv, Near
    <3>4. 60 + 6 * u <= high /\ low <= 50 - 6 * u
      BY <1>0, <3>3
    <3> HIDE DEF high, low
    <3> QED BY <1>0, <1>1, <3>3, <3>4
  <2> QED BY <2>1
<1>3. 1 \in DOMAIN pieces
  BY DEF IInv, TypeInv
<1> HIDE DEF high, low
<1>4. \E y \in tops : \A z \in tops : z <= y
  <2> DEFINE T == {high - y : y \in tops}
  <2>1. T \in SUBSET Nat /\ T # {}
    BY <1>0, <1>1, <1>2, <1>3
  <2>2. PICK x \in T : \A t \in T : x <= t
    BY <2>1, LeastNatural
  <2>3. PICK y \in tops : x = high - y
    OBVIOUS
  <2>4. ASSUME NEW z \in tops PROVE z <= y
    <3>1. high - z \in T /\ high - y <= high - z
      BY <2>2, <2>3
    <3>2. z \in Int /\ y \in Int
      BY <1>1
    <3> HIDE DEF tops, T
    <3> QED BY <1>0, <3>1, <3>2
  <2> QED BY <2>4
<1>5. \E y \in bottoms : \A z \in bottoms : y <= z
  <2> DEFINE T == {y - low : y \in bottoms}
  <2>1. T \in SUBSET Nat /\ T # {}
    BY <1>0, <1>1, <1>2, <1>3
  <2>2. PICK x \in T : \A t \in T : x <= t
    BY <2>1, LeastNatural
  <2>3. PICK y \in bottoms : x = y - low
    OBVIOUS
  <2>4. ASSUME NEW z \in bottoms PROVE y <= z
    <3>1. z - low \in T /\ y - low <= z - low
      BY <2>2, <2>3
    <3>2. z \in Int /\ y \in Int
      BY <1>1
    <3> HIDE DEF bottoms, T
    <3> QED BY <1>0, <3>1, <3>2
  <2> QED BY <2>4
<1>6. Top(pieces) \in tops /\ \A z \in tops : z <= Top(pieces)
  BY <1>4 DEF Top
<1>7. Bottom(pieces) \in bottoms /\ \A z \in bottoms : Bottom(pieces) <= z
  BY <1>5 DEF Bottom
<1> QED BY <1>1, <1>6, <1>7

\* How far it is moved.
LEMMA LiftSound ==
  ASSUME IInv, stub = <<>>
  PROVE  /\ Lift \in Int /\ Bottom(pieces) + Lift >= -62
         /\ Top(pieces) + Lift <= 52 \/ Bottom(pieces) + Lift = -62
<1> DEFINE n == 53 - LeastTop
           x == IF LeastTop < 53 THEN Draw(0, n) ELSE 0
<1>1. Top(pieces) \in Int /\ Bottom(pieces) \in Int
  BY TopAndBottom
<1>2. LeastTop \in Int /\ LeastTop = Top(pieces) - Bottom(pieces) - 62
  BY <1>1 DEF LeastTop
<1>3. x \in Nat /\ (LeastTop < 53 => x <= 52 - LeastTop) /\ (LeastTop >= 53 => x = 0)
  <2>1. CASE LeastTop < 53
    <3>1. n \in Nat \ {0} /\ 0 \in Nat /\ site \in Site /\ drawn \in Nat
      BY <1>2, <2>1 DEF IInv, TypeInv
    <3>2. x = Draw(0, n)
      BY <2>1
    <3>3. n = 53 - LeastTop
      OBVIOUS
    <3> HIDE DEF n, x
    <3>4. Draw(0, n) \in 0 .. n - 1
      BY <3>1, DrawBelow
    <3> QED BY <1>2, <2>1, <3>2, <3>3, <3>4
  <2>2. CASE ~ (LeastTop < 53)
    BY <1>2, <2>2
  <2> QED BY <2>1, <2>2
<1>4. Lift = LeastTop + x - Top(pieces)
  BY DEF Lift
<1> HIDE DEF n, x
<1>5. Lift = x - Bottom(pieces) - 62
  BY <1>1, <1>2, <1>3, <1>4
<1>6. Lift \in Int /\ Bottom(pieces) + Lift = x - 62
  BY <1>1, <1>3, <1>5
<1>7. Top(pieces) + Lift = LeastTop + x
  BY <1>1, <1>2, <1>3, <1>4
<1>8. x - 62 >= -62 /\ (LeastTop + x <= 52 \/ x - 62 = -62)
  BY <1>2, <1>3
<1> QED BY <1>6, <1>7, <1>8

\* What is lifted has its size, and meets and is reached as before.
Lifted(a, A, v) ==
  /\ a \in Box /\ A \in Box /\ v \in Int
  /\ A[1] = a[1] /\ A[3] = a[3] /\ A[4] = a[4] /\ A[6] = a[6]
  /\ A[2] = a[2] + v /\ A[5] = a[5] + v

LEMMA LiftedParts ==
  ASSUME NEW a, NEW A, NEW v, Lifted(a, A, v)
  PROVE  /\ a \in Box /\ A \in Box /\ v \in Int
         /\ A[1] = a[1] /\ A[3] = a[3] /\ A[4] = a[4] /\ A[6] = a[6]
         /\ A[2] = a[2] + v /\ A[5] = a[5] + v
         /\ a[1] \in Int /\ a[2] \in Int /\ a[3] \in Int /\ a[4] \in Int /\ a[5] \in Int /\ a[6] \in Int
BY BoxParts DEF Lifted

LEMMA MovedLifted ==
  ASSUME NEW a \in Box, NEW v \in Int
  PROVE  Lifted(a, Moved(a, <<0, v, 0>>), v)
<1> DEFINE up == <<0, v, 0>>
           A == Moved(a, up)
<1>1. /\ a[1] \in Int /\ a[2] \in Int /\ a[3] \in Int
      /\ a[4] \in Int /\ a[5] \in Int /\ a[6] \in Int
  BY BoxParts
<1>2. up \in Place /\ up[1] = 0 /\ up[2] = v /\ up[3] = 0
  BY DEF Place
<1>3. /\ A \in Box /\ A[1] = a[1] + up[1] /\ A[4] = a[4] + up[1]
      /\ A[2] = a[2] + up[2] /\ A[5] = a[5] + up[2]
      /\ A[3] = a[3] + up[3] /\ A[6] = a[6] + up[3]
  BY <1>2, MovedBox
<1> HIDE DEF A, up
<1>4. Lifted(a, A, v)
  BY <1>1, <1>2, <1>3 DEF Lifted
<1> QED BY <1>4 DEF A, up

LEMMA LiftedSize ==
  ASSUME NEW a, NEW A, NEW v, Lifted(a, A, v)
  PROVE  (Sized(A) <=> Sized(a)) /\ (a[5] \in a[2] + 4 .. a[2] + 9 => A[5] \in A[2] + 4 .. A[2] + 9)
BY LiftedParts DEF Sized

LEMMA LiftedPair ==
  ASSUME NEW a, NEW b, NEW A, NEW B, NEW v, Lifted(a, A, v), Lifted(b, B, v)
  PROVE  (Meets(A, B) <=> Meets(a, b)) /\ (Passage(A, B) <=> Passage(a, b))
<1>1. Meets(A, B) <=> Meets(a, b)
  BY LiftedParts DEF Meets
<1>2. Common(A[2], A[5], B[2], B[5]) = Common(a[2], a[5], b[2], b[5])
  BY LiftedParts DEF Common
<1>3. A[1] = a[1] /\ A[3] = a[3] /\ A[4] = a[4] /\ A[6] = a[6]
      /\ B[1] = b[1] /\ B[3] = b[3] /\ B[4] = b[4] /\ B[6] = b[6]
  BY LiftedParts
<1> QED BY <1>1, <1>2, <1>3 DEF Passage

LEMMA LiftedOpening ==
  ASSUME NEW b, NEW c, NEW B, NEW C, NEW v, NEW d \in Dir, Lifted(b, B, v), Lifted(c, C, v)
  PROVE  Opening(B, d, C) = Moved(Opening(b, d, c), <<0, v, 0>>)
<1>1. /\ b[1] \in Int /\ b[2] \in Int /\ b[3] \in Int /\ b[4] \in Int /\ b[5] \in Int /\ b[6] \in Int
      /\ c[1] \in Int /\ c[2] \in Int /\ c[3] \in Int /\ c[4] \in Int /\ c[5] \in Int /\ c[6] \in Int
      /\ B[1] = b[1] /\ B[3] = b[3] /\ B[4] = b[4] /\ B[6] = b[6] /\ v \in Int
      /\ C[1] = c[1] /\ C[2] = c[2] + v /\ C[3] = c[3] /\ C[4] = c[4] /\ C[5] = c[5] + v /\ C[6] = c[6]
  BY LiftedParts
<1>2. CASE d = "N"
  BY <1>1, <1>2 DEF Opening, Moved
<1>3. CASE d = "S"
  BY <1>1, <1>3 DEF Opening, Moved
<1>4. CASE d = "W"
  BY <1>1, <1>4 DEF Opening, Moved
<1>5. CASE d = "E"
  BY <1>1, <1>5 DEF Opening, Moved
<1> QED BY <1>2, <1>3, <1>4, <1>5 DEF Dir

LEMMA SinkInv ==
  ASSUME IInv, Sink
  PROVE  IInv'
<1> DEFINE P == pieces'
           E == entrances'
           up == <<0, Lift, 0>>
<1>0. /\ todo = <<>> /\ stub = <<>> /\ child = 0 /\ wall = 5 /\ ~ died
      /\ UNCHANGED <<site, wall, pos, child, todo, died>>
      /\ stub' = <<16 * site.chunk[1] + 8, 50 + Lift, 16 * site.chunk[2]>>
      /\ drawn' = drawn + (IF LeastTop < 53 THEN 1 ELSE 0)
  BY DEF Sink, InRoom
<1>1. /\ site \in Site /\ pieces \in Seq(Piece) /\ pieces # <<>> /\ entrances \in Seq(Box)
      /\ wall \in 1 .. 5 /\ pos \in 0 .. 14 /\ drawn \in Nat
  BY DEF IInv, TypeInv
<1>2. Lift \in Int
  BY <1>0, LiftSound
<1>3. up \in Place /\ up[1] = 0 /\ up[2] = Lift /\ up[3] = 0
  BY <1>2 DEF Place
<1>4. /\ P = [i \in DOMAIN pieces |-> [pieces[i] EXCEPT !.bb = Moved(pieces[i].bb, up)]]
      /\ E = [i \in DOMAIN entrances |-> Moved(entrances[i], up)]
  BY DEF Sink, SinkEntrances
<1>5. stub' # <<>> /\ stub'[2] = 50 + Lift /\ drawn' \in Nat
  BY <1>0, <1>1
<1> HIDE DEF P, E, up
<1>6. ASSUME NEW i \in DOMAIN pieces
      PROVE  /\ pieces[i] \in Piece /\ pieces[i].bb \in Box
             /\ P[i] \in Piece /\ P[i].bb = Moved(pieces[i].bb, up)
             /\ P[i].gd = pieces[i].gd /\ P[i].dir = pieces[i].dir
  <2>1. pieces[i] \in Piece
    BY <1>1
  <2>2. pieces[i].bb \in Box
    BY <2>1 DEF Piece
  <2>3. Moved(pieces[i].bb, up) \in Box
    BY <1>3, <2>2, MovedBox
  <2>4. P[i] = [pieces[i] EXCEPT !.bb = Moved(pieces[i].bb, up)]
    BY <1>4
  <2> QED BY <2>1, <2>2, <2>3, <2>4 DEF Piece
<1>7. ASSUME NEW i \in DOMAIN pieces
      PROVE  Lifted(pieces[i].bb, P[i].bb, Lift)
  <2>1. Lifted(pieces[i].bb, Moved(pieces[i].bb, <<0, Lift, 0>>), Lift)
    BY <1>2, <1>6, MovedLifted
  <2> QED BY <1>6, <2>1 DEF up
<1>8. DOMAIN P = DOMAIN pieces /\ P \in Seq(Piece) /\ P # <<>> /\ Len(P) = Len(pieces) /\ 1 \in DOMAIN pieces
  <2>1. DOMAIN pieces = 1 .. Len(pieces) /\ Len(pieces) \in Nat /\ Len(pieces) > 0
    BY <1>1
  <2>2. P \in [1 .. Len(pieces) -> Piece]
    BY <1>4, <1>6, <2>1
  <2> QED BY <2>1, <2>2
<1>9. E \in Seq(Box) /\ Len(E) = Len(entrances) /\ DOMAIN E = DOMAIN entrances
      /\ \A k \in DOMAIN entrances : E[k] = Moved(entrances[k], up) /\ entrances[k] \in Box
  <2>1. DOMAIN entrances = 1 .. Len(entrances) /\ Len(entrances) \in Nat
    BY <1>1
  <2>2. \A k \in DOMAIN entrances : entrances[k] \in Box /\ Moved(entrances[k], up) \in Box
    BY <1>1, <1>3, MovedBox
  <2>3. E \in [1 .. Len(entrances) -> Box]
    BY <1>4, <2>1, <2>2
  <2> QED BY <1>4, <2>1, <2>2, <2>3
<1>10. TypeInv'
  BY <1>0, <1>1, <1>5, <1>8, <1>9 DEF IInv, TypeInv, P, E
<1>11. RoomInv'
  <2>1. pieces[1].bb[5] \in pieces[1].bb[2] + 4 .. pieces[1].bb[2] + 9
    BY DEF IInv, RoomInv
  <2>2. Lifted(pieces[1].bb, P[1].bb, Lift)
    BY <1>7, <1>8
  <2>3. P[1].bb[5] \in P[1].bb[2] + 4 .. P[1].bb[2] + 9
    BY <2>1, <2>2, LiftedSize
  <2>4. /\ P[1].bb[1] = pieces[1].bb[1] /\ P[1].bb[3] = pieces[1].bb[3]
        /\ P[1].bb[4] = pieces[1].bb[4] /\ P[1].bb[6] = pieces[1].bb[6]
    BY <2>2, LiftedParts
  <2> QED BY <1>0, <1>5, <1>6, <1>8, <2>3, <2>4 DEF IInv, RoomInv, P
<1>12. NearInv'
  <2>1. ASSUME NEW i \in DOMAIN pieces
        PROVE  /\ Sized(P[i].bb) /\ (i > 1 => P[i].gd >= 1) /\ P[i].gd <= MaxDepth + 1
               /\ 16 * site.chunk[1] - 97 <= P[i].bb[1] /\ P[i].bb[4] <= 16 * site.chunk[1] + 101
               /\ 16 * site.chunk[2] - 97 <= P[i].bb[3] /\ P[i].bb[6] <= 16 * site.chunk[2] + 101
    <3>1. Sized(pieces[i].bb) /\ Near(pieces[i]) /\ (i > 1 => pieces[i].gd >= 1)
      BY DEF IInv, NearInv
    <3>2. Sized(P[i].bb)
      BY <1>7, <3>1, LiftedSize
    <3>3. /\ P[i].bb[1] = pieces[i].bb[1] /\ P[i].bb[3] = pieces[i].bb[3]
          /\ P[i].bb[4] = pieces[i].bb[4] /\ P[i].bb[6] = pieces[i].bb[6]
      BY <1>7, LiftedParts
    <3> QED BY <1>6, <3>1, <3>2, <3>3 DEF Near
  <2> QED BY <1>0, <1>5, <1>8, <2>1 DEF NearInv, Near, P
<1>13. ASSUME NEW i \in DOMAIN pieces, NEW j \in DOMAIN pieces
       PROVE  /\ Meets(P[i].bb, P[j].bb) <=> Meets(pieces[i].bb, pieces[j].bb)
              /\ Passage(P[i].bb, P[j].bb) <=> Passage(pieces[i].bb, pieces[j].bb)
  BY <1>7, LiftedPair
<1>14. Connected'
  <2>1. ASSUME NEW i \in DOMAIN P
        PROVE  /\ \A j \in 1 .. i - 1 : ~ Meets(P[i].bb, P[j].bb)
               /\ i > 1 => \E j \in 1 .. i - 1 : P[j].gd < P[i].gd /\ Passage(P[j].bb, P[i].bb)
    <3>1. \A j \in 1 .. i - 1 : j \in DOMAIN pieces
      <4>1. i \in 1 .. Len(pieces) /\ Len(pieces) \in Nat /\ DOMAIN pieces = 1 .. Len(pieces)
        BY <1>1, <1>8
      <4> QED BY <4>1
    <3>2. /\ \A j \in 1 .. i - 1 : ~ Meets(pieces[i].bb, pieces[j].bb)
          /\ i > 1 => \E j \in 1 .. i - 1 : pieces[j].gd < pieces[i].gd /\ Passage(pieces[j].bb, pieces[i].bb)
      BY <1>8 DEF IInv, Connected
    <3> QED BY <1>6, <1>8, <1>13, <3>1, <3>2
  <2> QED BY <2>1 DEF Connected, P
<1>15. GatesInv' /\ WallsInv' /\ FirstInv'
  BY <1>0 DEF GatesInv, WallsInv, FirstInv
<1>16. AtRoom' = AtRoom
  BY <1>6, <1>8 DEF AtRoom, P
<1>17. ASSUME NEW i \in DOMAIN pieces
       PROVE  DoorOf(i) \in Box /\ Opening(P[1].bb, P[i].dir, P[i].bb) = Moved(DoorOf(i), up)
  <2>1. pieces[1].bb \in Box /\ pieces[i].bb \in Box /\ pieces[i].dir \in Dir
    BY <1>6, <1>8 DEF Piece
  <2>2. DoorOf(i) \in Box
    BY <2>1, OpeningBox DEF DoorOf
  <2>3. Opening(P[1].bb, pieces[i].dir, P[i].bb) = Moved(DoorOf(i), <<0, Lift, 0>>)
    BY <1>7, <1>8, <2>1, LiftedOpening DEF DoorOf
  <2> QED BY <1>6, <2>2, <2>3 DEF up
<1>18. ASSUME NEW o \in Box, Meets(o, pieces[1].bb)
       PROVE  Meets(Moved(o, up), P[1].bb)
  <2>1. Lifted(o, Moved(o, up), Lift)
    BY <1>2, MovedLifted DEF up
  <2> QED BY <1>7, <1>8, <1>18, <2>1, LiftedPair
<1>19. DoorInv'
  <2>1. /\ Cardinality(AtRoom) = Len(entrances) + (IF child = 0 THEN 0 ELSE 1)
        /\ \A i \in AtRoom : Meets(DoorOf(i), pieces[1].bb)
        /\ \A i \in AtRoom : i = child \/ \E k \in DOMAIN entrances : entrances[k] = DoorOf(i)
        /\ \A k \in DOMAIN entrances : Meets(entrances[k], pieces[1].bb)
        /\ AtRoom \subseteq DOMAIN pieces
    BY DEF IInv, DoorInv, AtRoom
  <2>2. \A i \in AtRoom : Meets(Opening(P[1].bb, P[i].dir, P[i].bb), P[1].bb)
    BY <1>17, <1>18, <2>1
  <2>3. \A i \in AtRoom : i = child \/ \E k \in DOMAIN E : E[k] = Opening(P[1].bb, P[i].dir, P[i].bb)
    BY <1>9, <1>17, <2>1
  <2>4. \A k \in DOMAIN E : Meets(E[k], P[1].bb)
    BY <1>9, <1>18, <2>1
  <2> QED BY <1>0, <1>9, <1>16, <2>1, <2>2, <2>3, <2>4 DEF DoorInv, DoorOf, P, E
<1>20. CountInv'
  BY <1>0, <1>8, <1>9 DEF IInv, CountInv, P, E
<1>21. EndInv'
  <2>1. /\ Top(pieces) \in Int /\ Bottom(pieces) \in Int
        /\ \A i \in DOMAIN pieces : pieces[i].bb[5] <= Top(pieces) /\ Bottom(pieces) <= pieces[i].bb[2]
    BY <1>0, TopAndBottom
  <2>2. PICK j \in DOMAIN pieces : pieces[j].bb[2] = Bottom(pieces)
    BY <1>0, TopAndBottom
  <2>3. /\ Bottom(pieces) + Lift >= -62
        /\ Top(pieces) + Lift <= 52 \/ Bottom(pieces) + Lift = -62
    BY <1>0, LiftSound
  <2>4. P[j].bb[2] = Bottom(pieces) + Lift
    BY <1>7, <2>2, LiftedParts
  <2>5. ASSUME NEW i \in DOMAIN pieces
        PROVE  P[i].bb[2] >= -62 /\ (P[i].bb[5] <= 52 \/ P[j].bb[2] = -62)
    <3>1. /\ pieces[i].bb[2] \in Int /\ pieces[i].bb[5] \in Int
          /\ P[i].bb[2] = pieces[i].bb[2] + Lift /\ P[i].bb[5] = pieces[i].bb[5] + Lift
      BY <1>7, LiftedParts
    <3>2. pieces[i].bb[5] <= Top(pieces) /\ Bottom(pieces) <= pieces[i].bb[2]
      BY <2>1
    <3>3. P[i].bb[2] >= -62
      BY <1>2, <2>1, <2>3, <3>1, <3>2
    <3>4. Top(pieces) + Lift <= 52 => P[i].bb[5] <= 52
      BY <1>2, <2>1, <3>1, <3>2
    <3> QED BY <2>3, <2>4, <3>3, <3>4
  <2>6. pieces[1].bb[2] = 50
    BY <1>0 DEF IInv, RoomInv
  <2>7. stub'[2] = P[1].bb[2]
    <3>1. P[1].bb[2] = pieces[1].bb[2] + Lift
      <4>1. Lifted(pieces[1].bb, P[1].bb, Lift)
        BY <1>7, <1>8
      <4> QED BY <4>1, LiftedParts
    <3>2. stub'[2] = 50 + Lift
      BY <1>5
    <3> QED BY <2>6, <3>1, <3>2
  <2>8. Settled'
    BY <1>8, <2>2, <2>5, <2>7 DEF Settled, P
  <2> QED BY <1>0, <2>8 DEF EndInv
<1> QED BY <1>10, <1>11, <1>12, <1>14, <1>15, <1>19, <1>20, <1>21 DEF IInv

-----------------------------------------------------------------------------
(* The theorems. *)

\* The inductive invariant of the assembly (hc_mineshaft_assemble): gates lie in walls of
\* what is there, pieces hang together and keep near, the room has an entrance for each
\* piece at it, and the stack, the walls and the entrances agree.
THEOREM MineInvariant == Spec => []IInv
<1>1. Init => IInv
  BY InitInv
<1>2. IInv /\ [Next]_vars => IInv'
  <2> SUFFICES ASSUME IInv, [Next]_vars PROVE IInv'
    OBVIOUS
  <2>1. CASE Refuse
    BY <2>1, RefuseInv
  <2>2. CASE Grow
    BY <2>2, GrowInv
  <2>3. CASE Choose
    BY <2>3, ChooseInv
  <2>4. CASE Wall
    BY <2>4, WallInv
  <2>5. CASE AddEntrance
    BY <2>5, AddEntranceInv
  <2>6. CASE Sink
    BY <2>6, SinkInv
  <2>7. CASE UNCHANGED vars
    <3>1. UNCHANGED <<site, pieces, entrances, wall, pos, child, todo, drawn, stub, died>>
      BY <2>7 DEF vars
    <3>2. RoomInv' /\ NearInv' /\ Connected' /\ (\A h : InSomeWall(h) => InSomeWall(h)') /\ (Settled <=> Settled')
      BY <3>1, PiecesKept
    <3>3. DoorInv'
      BY <3>1, DoorsKept
    <3>4. TypeInv' /\ GatesInv' /\ WallsInv' /\ FirstInv' /\ CountInv' /\ EndInv'
      BY <3>1, <3>2 DEF IInv, TypeInv, GatesInv, WallsInv, FirstInv, CountInv, EndInv
    <3> QED BY <3>2, <3>3, <3>4 DEF IInv
  <2> QED BY <2>1, <2>2, <2>3, <2>4, <2>5, <2>6, <2>7 DEF Next
<1> QED BY <1>1, <1>2, PTL DEF Spec

\* No two pieces meet, each is reached from an earlier one that lies less deep, and all of
\* them lie within 8 chunks of the start (the tables of ms_gen_piece, and its limits on
\* depth and distance).
THEOREM WholeHolds == Spec => []Whole
<1>1. IInv => Whole
  <2> SUFFICES ASSUME IInv PROVE Whole
    OBVIOUS
  <2>1. InReach
    <3> SUFFICES ASSUME NEW i \in DOMAIN pieces
                 PROVE  LET b == pieces[i].bb
                            c == site.chunk
                        IN /\ pieces[i].gd <= MaxDepth + 1
                           /\ b[1] \div 16 >= c[1] - 8 /\ b[4] \div 16 <= c[1] + 8
                           /\ b[3] \div 16 >= c[2] - 8 /\ b[6] \div 16 <= c[2] + 8
      BY DEF InReach
    <3>1. pieces[i] \in Piece /\ site \in Site
      BY DEF IInv, TypeInv
    <3>2. PICK x \in Int, z \in Int : x = site.chunk[1] /\ z = site.chunk[2]
      BY <3>1, SiteParts
    <3>3. pieces[i].bb \in Box
      BY <3>1 DEF Piece
    <3>4. PICK k \in Int, l \in Int, m \in Int, n \in Int :
            k = pieces[i].bb[1] /\ l = pieces[i].bb[4] /\ m = pieces[i].bb[3] /\ n = pieces[i].bb[6]
      BY <3>3, BoxParts
    <3>5. Near(pieces[i])
      BY DEF IInv, NearInv
    <3>6. pieces[i].gd <= MaxDepth + 1 /\ 16 * x - 97 <= k /\ l <= 16 * x + 101 /\ 16 * z - 97 <= m /\ n <= 16 * z + 101
      BY <3>2, <3>4, <3>5 DEF Near
    <3>7. k \div 16 >= x - 8
      BY <3>6
    <3>8. l \div 16 <= x + 8
      BY <3>6
    <3>9. m \div 16 >= z - 8
      BY <3>6
    <3>10. n \div 16 <= z + 8
      BY <3>6
    <3> QED BY <3>2, <3>4, <3>6, <3>7, <3>8, <3>9, <3>10
  <2> QED BY <2>1 DEF Whole, IInv
<1> QED BY <1>1, MineInvariant, PTL

\* In the end the room has one entrance for every piece at it, in line with it and in the
\* wall (ms_room_children and the shift of the entrances with the pieces).
THEOREM RoomOpenHolds == Spec => []RoomOpen
<1>1. IInv => RoomOpen
  <2> SUFFICES ASSUME IInv, stub # <<>> PROVE RoomOpen
    BY DEF RoomOpen
  <2>1. child = 0 /\ Len(entrances) \in Nat
    BY DEF IInv, EndInv, CountInv, TypeInv
  <2>2. /\ Cardinality(AtRoom) = Len(entrances)
        /\ \A i \in AtRoom : i # 0
    BY <2>1 DEF IInv, DoorInv, TypeInv, AtRoom
  <2> QED BY <2>1, <2>2 DEF IInv, DoorInv, RoomOpen, DoorOf
<1> QED BY <1>1, MineInvariant, PTL

\* In the end all of it is in the world, below 53 unless it is too high for that, and the
\* biome is asked for at the height of the room (moveBelowSeaLevel).
THEOREM SettledHolds == Spec => []Settled
<1>1. IInv => Settled
  BY DEF IInv, EndInv, Settled
<1> QED BY <1>1, MineInvariant, PTL

\* There are never more than 12 entrances, so that their scratch does not run out: only
\* the pieces can be too many (the capacities in hc_mineshaft_assemble).
THEOREM EntrancesFitHolds == Spec => []EntrancesFit
<1>1. IInv => EntrancesFit
  <2> SUFFICES ASSUME IInv PROVE EntrancesFit
    OBVIOUS
  <2>1. /\ Len(entrances) \in Nat /\ wall \in 1 .. 5 /\ pos \in 0 .. 14
        /\ (died => Len(pieces) >= MaxPieces) /\ (wall = 5 => pos = 0)
    BY DEF IInv, TypeInv, CountInv
  <2> DEFINE x == IF todo = <<>> /\ child = 0 THEN 0 ELSE 1
  <2>2. x \in 0 .. 1 /\ Len(entrances) + x <= 3 * (wall - 1) + pos \div 4
    BY DEF IInv, CountInv
  <2> HIDE DEF x
  <2>3. pos \div 4 \in 0 .. 3 /\ (pos = 0 => pos \div 4 = 0)
    BY <2>1
  <2>4. PICK q \in 0 .. 3 : q = pos \div 4
    BY <2>3
  <2>5. Len(entrances) <= 12
    BY <2>1, <2>2, <2>3, <2>4
  <2> QED BY <2>1, <2>5 DEF EntrancesFit
<1> QED BY <1>1, MineInvariant, PTL

\* All of it together: however the draws fall, the pieces of a mineshaft hang together, do
\* not meet and stay in reach, the room has its entrances, and all comes to rest in the
\* world (hc_mineshaft_assemble).
THEOREM MineCorrect == Spec => []MineSound
<1>1. Whole /\ RoomOpen /\ Settled /\ EntrancesFit => MineSound
  BY DEF MineSound
<1> QED BY <1>1, WholeHolds, RoomOpenHolds, SettledHolds, EntrancesFitHolds, PTL
=============================================================================
