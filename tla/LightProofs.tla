----------------------------- MODULE LightProofs -----------------------------
(***************************************************************************)
(* Proofs about the light engine.  The block layer, for every box, every   *)
(* palette whose sources close no face and whose states show the engine    *)
(* which faces they close, every starting layout and any number of writes: *)
(* at rest the stored light is the least fixed point, and once the         *)
(* decrease pass is over no cell is brighter than that.  The sky layer,    *)
(* for every slice that stands on bedrock: src_y is what a scan finds.     *)
(*                                                                         *)
(* The invariant of the block layer looks at the queues as sets of         *)
(* entries.  Justified says who vouches for the light of a cell, Passed    *)
(* who will carry light into a cell that lacks it, SourcesShine who will   *)
(* light a source.                                                         *)
(***************************************************************************)
EXTENDS MCLight, SequenceTheorems, FiniteSetTheorems, TLAPS

Levels == [Cell -> 0 .. MaxLight]

(* The level a cell has, or will be given by its own source. *)
Potential(b, s, L, c) == Larger(L[c], EmitOf(b, s, c))

-----------------------------------------------------------------------------
(* Not too bright: a cell outside the pending checks C has no more than    *)
(* its own source gives, or than an unchecked neighbour passes it, or than *)
(* a changed neighbour passed it before the change, or waits for an entry  *)
(* of the decrease queue D to clear it.                                    *)
FromNeighbour(b, s, L, C, c) ==
  \E d \in Dirs : /\ Step(c, d) \in Cell \ C
                  /\ ~Occludes(b, c, d)
                  /\ L[c] <= Potential(b, s, L, Step(c, d)) - Loss(b, c)

FromChanged(b, L, C, c) ==
  \E d \in Dirs : /\ Step(c, d) \in Cell \cap C
                  /\ b[c].faces[d] # Faces
                  /\ L[c] <= L[Step(c, d)] - Loss(b, c)

Threatened(L, D, c) ==
  \E e \in D : \E d \in e.dirs : Step(e.at, d) = c /\ L[c] <= e.level - 1

Justified(b, s, L, C, D) ==
  \A c \in Cell \ C : \/ L[c] <= EmitOf(b, s, c)
                      \/ FromNeighbour(b, s, L, C, c)
                      \/ FromChanged(b, L, C, c)
                      \/ Threatened(L, D, c)

(* Not too dark: what a cell passes on has arrived or is less than the     *)
(* neighbour's own source, or an entry of the increase queue I will bring  *)
(* it, or an entry of the decrease queue will ask for it.                  *)
Satisfied(b, s, L, n, d) ==
  Occludes(b, n, d) \/ L[n] - Loss(b, Step(n, d)) <= Potential(b, s, L, Step(n, d))

Owed(L, I, n, d) ==
  \E e \in I : e.at = n /\ d \in e.dirs /\ L[n] <= e.level /\ (e.em \/ L[n] = e.level)

Pulled(D, n, d) == \E e \in D : e.at = Step(n, d) /\ Opp[d] \in e.dirs

Passed(b, s, L, C, D, I) ==
  \A n \in Cell \ C, d \in Dirs :
     Step(n, d) \in Cell \ C =>
        Satisfied(b, s, L, n, d) \/ Owed(L, I, n, d) \/ Pulled(D, n, d)

SourcesShine(b, s, L, C, I) ==
  \A c \in Cell \ C : \/ EmitOf(b, s, c) <= L[c]
                      \/ \E e \in I : e.em /\ e.at = c /\ e.level = EmitOf(b, s, c)

(* What the entries promise. *)
Emissions(b, s, I) ==
  \A e \in I : e.em => e.dirs = Dirs /\ e.level = EmitOf(b, s, e.at)
Cleared(L, D) == \A e \in D : e.level > 1 => L[e.at] = 0

Sound(b, s, L, C, D, I) ==
  /\ L \in Levels /\ C \subseteq Cell /\ D \subseteq Entry /\ I \subseteq Entry
  /\ Justified(b, s, L, C, D)
  /\ Passed(b, s, L, C, D, I)
  /\ SourcesShine(b, s, L, C, I)
  /\ Emissions(b, s, I)
  /\ Cleared(L, D)

(* The inductive invariant. *)
Drained ==
  /\ phase \in {"dec", "inc"} => check = <<>>
  /\ phase = "inc" => dec = <<>>

IInv ==
  /\ TypeOK
  /\ Drained
  /\ Sound(blk, seeded, light, ToSet(check), ToSet(dec), ToSet(inc))

(* An entry. *)
Item(c, l, ds, m) == [at |-> c, level |-> l, dirs |-> ds, em |-> m]

(* What is left of an entry when only the directions ds are to be visited. *)
Rest(e, ds) == Item(e.at, e.level, ds, FALSE)

-----------------------------------------------------------------------------
(* Geometry, levels and queues.                                            *)

\* A direction leads away from a cell, its opposite leads back, and no two
\* directions lead to the same cell.
LEMMA Geometry ==
  ASSUME BoxAssumption, NEW c \in Cell, NEW d \in Dirs
  PROVE  /\ Opp[d] \in Dirs /\ Opp[Opp[d]] = d
         /\ Step(Step(c, d), Opp[d]) = c
         /\ Step(c, d) # c
         /\ \A d2 \in Dirs : Step(c, d2) = Step(c, d) => d2 = d
<1>1. PICK x \in Int, y \in Int : c = <<x, y>>
  BY DEF Cell, BoxAssumption
<1>2. c[1] = x /\ c[2] = y
  BY <1>1
<1>3. Step(c, "D") = <<x, y - 1>> /\ Step(c, "U") = <<x, y + 1>>
  BY <1>2 DEF Step
<1>4. Step(c, "W") = <<x - 1, y>> /\ Step(c, "E") = <<x + 1, y>>
  BY <1>2 DEF Step
<1>5. Opp[d] \in Dirs /\ Opp[Opp[d]] = d
  BY DEF Opp, Dirs
<1>6. Step(Step(c, d), Opp[d]) = <<x, y>>
  <2>1. CASE d = "D"
    BY <2>1, <1>3 DEF Opp, Step
  <2>2. CASE d = "U"
    BY <2>2, <1>3 DEF Opp, Step
  <2>3. CASE d = "W"
    BY <2>3, <1>4 DEF Opp, Step
  <2>4. CASE d = "E"
    BY <2>4, <1>4 DEF Opp, Step
  <2> QED BY <2>1, <2>2, <2>3, <2>4 DEF Dirs
<1>7. <<x, y>> # <<x, y - 1>> /\ <<x, y>> # <<x, y + 1>> /\ <<x, y>> # <<x - 1, y>> /\ <<x, y>> # <<x + 1, y>>
  OBVIOUS
<1>8. /\ <<x, y - 1>> # <<x, y + 1>> /\ <<x, y - 1>> # <<x - 1, y>> /\ <<x, y - 1>> # <<x + 1, y>>
      /\ <<x, y + 1>> # <<x - 1, y>> /\ <<x, y + 1>> # <<x + 1, y>> /\ <<x - 1, y>> # <<x + 1, y>>
  OBVIOUS
<1>9. Step(c, d) # c
  BY <1>1, <1>3, <1>4, <1>7 DEF Dirs
<1>10. \A d2 \in Dirs : Step(c, d2) = Step(c, d) => d2 = d
  BY <1>3, <1>4, <1>8 DEF Dirs
<1> QED BY <1>1, <1>5, <1>6, <1>9, <1>10

\* Whether a face is closed does not depend on the side one looks from.
LEMMA OccludesBack ==
  ASSUME BoxAssumption, NEW b, NEW c \in Cell, NEW d \in Dirs
  PROVE  Occludes(b, Step(c, d), Opp[d]) <=> Occludes(b, c, d)
<1>1. Step(Step(c, d), Opp[d]) = c /\ Opp[Opp[d]] = d
  BY Geometry
<1>2. Occludes(b, Step(c, d), Opp[d]) <=> b[Step(c, d)].faces[Opp[d]] \cup b[c].faces[d] = Faces
  BY <1>1 DEF Occludes
<1>3. b[Step(c, d)].faces[Opp[d]] \cup b[c].faces[d] = b[c].faces[d] \cup b[Step(c, d)].faces[Opp[d]]
  OBVIOUS
<1> QED BY <1>2, <1>3 DEF Occludes

\* Emissions, losses and potentials are levels; entering a cell costs something.
LEMMA LevelFacts ==
  ASSUME BoxAssumption, NEW b \in [Cell -> Kinds], NEW s, NEW L \in Levels, NEW c \in Cell
  PROVE  /\ L[c] \in 0 .. MaxLight
         /\ EmitOf(b, s, c) \in 0 .. MaxLight
         /\ Loss(b, c) \in Nat /\ Loss(b, c) >= 1
         /\ Potential(b, s, L, c) \in 0 .. MaxLight
         /\ Potential(b, s, L, c) >= L[c] /\ Potential(b, s, L, c) >= EmitOf(b, s, c)
         /\ Potential(b, s, L, c) = L[c] \/ Potential(b, s, L, c) = EmitOf(b, s, c)
<1>1. b[c] \in Lamp
  BY DEF BoxAssumption
<1>2. b[c].damp \in 0 .. MaxLight /\ b[c].emit \in 0 .. MaxLight
  BY <1>1 DEF Lamp
<1>3. L[c] \in 0 .. MaxLight
  BY DEF Levels
<1>4. EmitOf(b, s, c) \in 0 .. MaxLight
  BY <1>2 DEF EmitOf, BoxAssumption
<1>5. Loss(b, c) \in Nat /\ Loss(b, c) >= 1
  BY <1>2 DEF Loss, Larger, BoxAssumption
<1> QED BY <1>3, <1>4, <1>5 DEF Potential, Larger

\* The members of a queue: of the empty one, of one entry, of two joined, and
\* of one that loses its head.
LEMMA Members ==
  ASSUME NEW S
  PROVE  /\ <<>> \in Seq(S) /\ ToSet(<<>>) = {}
         /\ \A e \in S : <<e>> \in Seq(S) /\ ToSet(<<e>>) = {e}
         /\ \A p, q \in Seq(S) : p \o q \in Seq(S) /\ ToSet(p \o q) = ToSet(p) \cup ToSet(q)
         /\ \A q \in Seq(S) : ToSet(q) \subseteq S
         /\ \A q \in Seq(S) : q # <<>> => /\ Head(q) \in S /\ Tail(q) \in Seq(S)
                                        /\ ToSet(q) = {Head(q)} \cup ToSet(Tail(q))
<1>1. <<>> \in Seq(S) /\ ToSet(<<>>) = {}
  BY DEF ToSet
<1>2. \A e \in S : <<e>> \in Seq(S) /\ ToSet(<<e>>) = {e}
  BY DEF ToSet
<1>3. ASSUME NEW p \in Seq(S), NEW q \in Seq(S)
      PROVE  p \o q \in Seq(S) /\ ToSet(p \o q) = ToSet(p) \cup ToSet(q)
  <2>1. /\ p \o q \in Seq(S) /\ Len(p \o q) = Len(p) + Len(q)
        /\ Len(p) \in Nat /\ Len(q) \in Nat
        /\ DOMAIN p = 1 .. Len(p) /\ DOMAIN q = 1 .. Len(q) /\ DOMAIN (p \o q) = 1 .. Len(p) + Len(q)
    BY ConcatProperties, LenProperties
  <2>2. \A i \in 1 .. Len(p) + Len(q) : (p \o q)[i] = IF i <= Len(p) THEN p[i] ELSE q[i - Len(p)]
    BY ConcatProperties
  <2>3. ToSet(p \o q) \subseteq ToSet(p) \cup ToSet(q)
    <3>1. ASSUME NEW i \in 1 .. Len(p) + Len(q)
          PROVE  (p \o q)[i] \in ToSet(p) \cup ToSet(q)
      <4>1. CASE i <= Len(p)
        BY <4>1, <2>1, <2>2 DEF ToSet
      <4>2. CASE ~(i <= Len(p))
        <5>1. i - Len(p) \in 1 .. Len(q)
          BY <4>2, <2>1
        <5> QED BY <5>1, <4>2, <2>1, <2>2 DEF ToSet
      <4> QED BY <4>1, <4>2
    <3> QED BY <3>1, <2>1 DEF ToSet
  <2>4. ToSet(p) \subseteq ToSet(p \o q)
    <3>1. \A i \in 1 .. Len(p) : i \in 1 .. Len(p) + Len(q) /\ (p \o q)[i] = p[i]
      BY <2>1, <2>2
    <3> QED BY <3>1, <2>1 DEF ToSet
  <2>5. ToSet(q) \subseteq ToSet(p \o q)
    <3>1. ASSUME NEW i \in 1 .. Len(q)
          PROVE  i + Len(p) \in 1 .. Len(p) + Len(q) /\ (p \o q)[i + Len(p)] = q[i]
      <4>1. i + Len(p) \in 1 .. Len(p) + Len(q) /\ ~(i + Len(p) <= Len(p)) /\ i + Len(p) - Len(p) = i
        BY <2>1
      <4> QED BY <4>1, <2>2
    <3> QED BY <3>1, <2>1 DEF ToSet
  <2> QED BY <2>1, <2>3, <2>4, <2>5
<1>4. \A q \in Seq(S) : ToSet(q) \subseteq S
  BY DEF ToSet
<1>5. ASSUME NEW q \in Seq(S), q # <<>>
      PROVE  /\ Head(q) \in S /\ Tail(q) \in Seq(S)
             /\ ToSet(q) = {Head(q)} \cup ToSet(Tail(q))
  <2>1. Head(q) \in S /\ Tail(q) \in Seq(S) /\ Len(q) \in Nat \ {0}
    BY <1>5, HeadTailProperties, EmptySeq
  <2>2. <<Head(q)>> \o Tail(q) = q
    <3>1. Len(Tail(q)) = Len(q) - 1 /\ (\A i \in 1 .. Len(Tail(q)) : Tail(q)[i] = q[i + 1]) /\ Head(q) = q[1]
      BY <1>5, HeadTailProperties
    <3>2. <<Head(q)>> \in Seq(S) /\ Len(<<Head(q)>>) = 1 /\ <<Head(q)>>[1] = Head(q)
      BY <2>1
    <3> DEFINE r == <<Head(q)>> \o Tail(q)
    <3>3. r \in Seq(S) /\ Len(r) = Len(q)
      BY <2>1, <3>1, <3>2, ConcatProperties
    <3>4. \A i \in 1 .. Len(q) : r[i] = IF i <= 1 THEN <<Head(q)>>[i] ELSE Tail(q)[i - 1]
      BY <2>1, <3>1, <3>2, ConcatProperties
    <3>5. \A i \in 1 .. Len(q) : r[i] = q[i]
      <4> TAKE i \in 1 .. Len(q)
      <4>1. CASE i = 1
        BY <4>1, <3>1, <3>2, <3>4
      <4>2. CASE i # 1
        <5>1. i - 1 \in 1 .. Len(Tail(q)) /\ ~(i <= 1) /\ (i - 1) + 1 = i
          BY <4>2, <2>1, <3>1
        <5>2. Tail(q)[i - 1] = q[(i - 1) + 1]
          BY <5>1, <3>1
        <5> QED BY <5>1, <5>2, <3>4
      <4> QED BY <4>1, <4>2
    <3> QED BY <3>3, <3>5, SeqEqual
  <2>3. <<Head(q)>> \in Seq(S) /\ ToSet(<<Head(q)>>) = {Head(q)}
    BY <1>2, <2>1
  <2>4. ToSet(<<Head(q)>> \o Tail(q)) = {Head(q)} \cup ToSet(Tail(q))
    BY <1>3, <2>1, <2>3
  <2> QED BY <2>1, <2>2, <2>4
<1> QED BY <1>1, <1>2, <1>3, <1>4, <1>5

-----------------------------------------------------------------------------
(* Steps of the engine, on the stored levels L, the pending checks C and   *)
(* the members D and I of the two queues.                                  *)

\* Another decrease queue is as good if it threatens and pulls as much.
LEMMA OtherDecreases ==
  ASSUME NEW b, NEW s, NEW L, NEW C, NEW D, NEW I, Sound(b, s, L, C, D, I),
         NEW D2 \in SUBSET Entry, Cleared(L, D2),
         \A c \in Cell \ C : Threatened(L, D, c) => L[c] <= EmitOf(b, s, c) \/ Threatened(L, D2, c),
         \A n \in Cell \ C, d \in Dirs : Step(n, d) \in Cell \ C /\ Pulled(D, n, d) =>
            Satisfied(b, s, L, n, d) \/ Owed(L, I, n, d) \/ Pulled(D2, n, d)
  PROVE  Sound(b, s, L, C, D2, I)
<1>1. Justified(b, s, L, C, D2)
  BY Zenon DEF Sound, Justified
<1>2. Passed(b, s, L, C, D2, I)
  BY Zenon DEF Sound, Passed
<1> QED BY <1>1, <1>2 DEF Sound

\* Another increase queue is as good if it brings as much.
LEMMA OtherIncreases ==
  ASSUME NEW b, NEW s, NEW L, NEW C, NEW D, NEW I, Sound(b, s, L, C, D, I),
         NEW I2 \in SUBSET Entry, Emissions(b, s, I2),
         \A n \in Cell \ C, d \in Dirs : Step(n, d) \in Cell \ C /\ Owed(L, I, n, d) =>
            Satisfied(b, s, L, n, d) \/ Owed(L, I2, n, d) \/ Pulled(D, n, d),
         \A c \in Cell \ C, e \in I : e.em /\ e.at = c /\ e.level = EmitOf(b, s, c) =>
            EmitOf(b, s, c) <= L[c] \/ \E f \in I2 : f.em /\ f.at = c /\ f.level = EmitOf(b, s, c)
  PROVE  Sound(b, s, L, C, D, I2)
<1>1. Passed(b, s, L, C, D, I2)
  BY Zenon DEF Sound, Passed
<1>2. SourcesShine(b, s, L, C, I2)
  BY Zenon DEF Sound, SourcesShine
<1> QED BY <1>1, <1>2 DEF Sound

\* A dark cell owes nothing.
LEMMA DarkIsSatisfied ==
  ASSUME BoxAssumption, NEW b \in [Cell -> Kinds], NEW s, NEW L \in Levels,
         NEW n \in Cell, NEW d \in Dirs, Step(n, d) \in Cell, L[n] = 0
  PROVE  Satisfied(b, s, L, n, d)
<1>1. /\ Loss(b, Step(n, d)) \in Nat
      /\ Potential(b, s, L, Step(n, d)) \in 0 .. MaxLight
  BY LevelFacts
<1>2. 0 - Loss(b, Step(n, d)) <= Potential(b, s, L, Step(n, d))
  BY <1>1
<1> QED BY <1>2 DEF Satisfied

\* Clearing a lit cell, telling its lit neighbours when its own source is
\* weaker than the light it loses, and calling its source.
LEMMA ClearSound ==
  ASSUME BoxAssumption, NEW b \in [Cell -> Kinds], NEW s,
         NEW L, NEW C, NEW D, NEW I, Sound(b, s, L, C, D, I),
         NEW c \in Cell, L[c] > 0, c \in C => EmitOf(b, s, c) < L[c],
         NEW ds \in SUBSET Dirs,
         \A d \in Dirs : Step(c, d) \in Cell /\ L[Step(c, d)] > 0 => d \in ds
  PROVE  Sound(b, s, [L EXCEPT ![c] = 0], C,
               D \cup (IF EmitOf(b, s, c) < L[c]
                       THEN {Item(c, L[c], ds, FALSE)} ELSE {}),
               I \cup (IF EmitOf(b, s, c) > 0
                       THEN {Item(c, EmitOf(b, s, c), Dirs, TRUE)} ELSE {}))
<1> DEFINE em == EmitOf(b, s, c)
           L2 == [L EXCEPT ![c] = 0]
           told == Item(c, L[c], ds, FALSE)
           call == Item(c, em, Dirs, TRUE)
           D2 == D \cup (IF em < L[c] THEN {told} ELSE {})
           I2 == I \cup (IF em > 0 THEN {call} ELSE {})
<1>0. L \in Levels /\ C \subseteq Cell /\ D \subseteq Entry /\ I \subseteq Entry
  BY DEF Sound
<1>1. em \in 0 .. MaxLight /\ L[c] \in 1 .. MaxLight
  <2>1. em \in 0 .. MaxLight /\ L[c] \in 0 .. MaxLight
    BY <1>0, LevelFacts
  <2> QED BY <2>1 DEF BoxAssumption
<1>2. L2 \in Levels /\ D2 \subseteq Entry /\ I2 \subseteq Entry
  <2>1. L2 \in Levels
    BY <1>0 DEF Levels, BoxAssumption
  <2>2. told \in Entry
    BY <1>1 DEF Entry, Item
  <2>3. em > 0 => call \in Entry
    BY <1>1 DEF Entry, Item, BoxAssumption
  <2> QED BY <1>0, <2>1, <2>2, <2>3
<1>3. L2[c] = 0 /\ \A x \in Cell : x # c => L2[x] = L[x]
  BY <1>0 DEF Levels
<1>4. \A x \in Cell : x # c => Potential(b, s, L2, x) = Potential(b, s, L, x)
  BY <1>3 DEF Potential
<1>5. em >= L[c] => Potential(b, s, L2, c) = em /\ Potential(b, s, L, c) = em
  BY <1>1, <1>3 DEF Potential, Larger
<1>6. em < L[c] => Potential(b, s, L, c) = L[c] /\ told \in D2
  BY <1>1 DEF Potential, Larger
<1>7. D \subseteq D2 /\ I \subseteq I2
  OBVIOUS
\* a lit neighbour x of c is told
<1>8. ASSUME NEW x \in Cell, NEW d \in Dirs, Step(x, d) = c, L[x] > 0
      PROVE  Step(c, Opp[d]) = x /\ Opp[d] \in ds
  BY <1>8, Geometry
<1> HIDE DEF em, L2, told, call, D2, I2
<1>9. Justified(b, s, L2, C, D2)
  <2> SUFFICES ASSUME NEW x \in Cell \ C
               PROVE  \/ L2[x] <= EmitOf(b, s, x) \/ FromNeighbour(b, s, L2, C, x)
                      \/ FromChanged(b, L2, C, x) \/ Threatened(L2, D2, x)
    BY DEF Justified
  <2>0. EmitOf(b, s, x) \in 0 .. MaxLight /\ Loss(b, x) \in Nat /\ Loss(b, x) >= 1 /\ L[x] \in 0 .. MaxLight
    BY <1>0, LevelFacts
  <2>1. CASE x = c
    BY <2>0, <2>1, <1>3
  <2>2. CASE x # c /\ L[x] = 0
    BY <2>0, <2>2, <1>3
  <2>3. CASE x # c /\ L[x] > 0
    <3>0. L2[x] = L[x]
      BY <2>3, <1>3
    <3>1. CASE L[x] <= EmitOf(b, s, x)
      BY <3>0, <3>1
    <3>2. ASSUME NEW d \in Dirs, Step(x, d) = c, em < L[c], L[x] <= L[c] - Loss(b, x)
          PROVE  Threatened(L2, D2, x)
      <4>1. Step(c, Opp[d]) = x /\ Opp[d] \in ds
        BY <3>2, <2>3, <1>8
      <4>2. told \in D2 /\ told.at = c /\ told.level = L[c] /\ told.dirs = ds
        BY <3>2, <1>6 DEF told, Item
      <4>3. L2[x] <= told.level - 1
        BY <3>0, <3>2, <4>2, <2>0, <1>1
      <4> QED BY <4>1, <4>2, <4>3 DEF Threatened
    <3>3. CASE FromNeighbour(b, s, L, C, x)
      <4>1. PICK d \in Dirs : /\ Step(x, d) \in Cell \ C
                              /\ ~Occludes(b, x, d)
                              /\ L[x] <= Potential(b, s, L, Step(x, d)) - Loss(b, x)
        BY <3>3 DEF FromNeighbour
      <4>2. CASE Step(x, d) # c
        BY <4>1, <4>2, <3>0, <1>4 DEF FromNeighbour
      <4>3. CASE Step(x, d) = c /\ em >= L[c]
        BY <4>1, <4>3, <3>0, <1>5 DEF FromNeighbour
      <4>4. CASE Step(x, d) = c /\ em < L[c]
        BY <4>1, <4>4, <3>2, <1>6
      <4> QED BY <4>2, <4>3, <4>4, <1>1
    <3>4. CASE FromChanged(b, L, C, x)
      <4>1. PICK d \in Dirs : /\ Step(x, d) \in Cell \cap C
                              /\ b[x].faces[d] # Faces
                              /\ L[x] <= L[Step(x, d)] - Loss(b, x)
        BY <3>4 DEF FromChanged
      <4>2. CASE Step(x, d) # c
        BY <4>1, <4>2, <3>0, <1>3 DEF FromChanged
      <4>3. CASE Step(x, d) = c
        BY <4>1, <4>3, <3>2 DEF em
      <4> QED BY <4>2, <4>3
    <3>5. CASE Threatened(L, D, x)
      BY <3>5, <3>0, <1>7 DEF Threatened
    <3>6. x \in Cell \ C
      OBVIOUS
    <3> QED BY <3>1, <3>3, <3>4, <3>5, <3>6 DEF Sound, Justified
  <2> QED BY <2>0, <2>1, <2>2, <2>3
<1>10. Passed(b, s, L2, C, D2, I2)
  <2> SUFFICES ASSUME NEW n \in Cell \ C, NEW d \in Dirs, Step(n, d) \in Cell \ C
               PROVE  Satisfied(b, s, L2, n, d) \/ Owed(L2, I2, n, d) \/ Pulled(D2, n, d)
    BY DEF Passed
  <2>1. CASE L2[n] = 0
    BY <2>1, <1>2, DarkIsSatisfied
  <2>2. CASE n # c /\ L[n] > 0
    <3>0. L2[n] = L[n]
      BY <2>2, <1>3
    <3>1. CASE Satisfied(b, s, L, n, d)
      <4>1. CASE Occludes(b, n, d)
        BY <4>1 DEF Satisfied
      <4>2. CASE ~Occludes(b, n, d) /\ Step(n, d) # c
        BY <4>2, <3>1, <3>0, <1>4 DEF Satisfied
      <4>3. CASE ~Occludes(b, n, d) /\ Step(n, d) = c /\ em >= L[c]
        BY <4>3, <3>1, <3>0, <1>5 DEF Satisfied
      <4>4. CASE Step(n, d) = c /\ em < L[c]
        <5>1. told \in D2 /\ told.at = c /\ told.dirs = ds
          BY <4>4, <1>6 DEF told, Item
        <5>2. Opp[d] \in ds
          BY <4>4, <2>2, <1>8
        <5> QED BY <5>1, <5>2, <4>4 DEF Pulled
      <4> QED BY <4>1, <4>2, <4>3, <4>4, <1>1
    <3>2. CASE Owed(L, I, n, d)
      BY <3>2, <3>0, <1>7 DEF Owed
    <3>3. CASE Pulled(D, n, d)
      BY <3>3, <1>7 DEF Pulled
    <3> QED BY <3>1, <3>2, <3>3 DEF Sound, Passed
  <2>3. L[n] \in 0 .. MaxLight
    BY <1>0 DEF Levels
  <2> QED BY <2>1, <2>2, <2>3, <1>3
<1>11. SourcesShine(b, s, L2, C, I2)
  <2> SUFFICES ASSUME NEW x \in Cell \ C
               PROVE  \/ EmitOf(b, s, x) <= L2[x]
                      \/ \E e \in I2 : e.em /\ e.at = x /\ e.level = EmitOf(b, s, x)
    BY DEF SourcesShine
  <2>1. CASE x # c
    BY <2>1, <1>3, <1>7 DEF Sound, SourcesShine
  <2>2. CASE x = c /\ em > 0
    <3>1. call \in I2 /\ call.em /\ call.at = c /\ call.level = em
      BY <2>2 DEF I2, call, Item
    <3> QED BY <3>1, <2>2 DEF em
  <2>3. CASE x = c /\ em = 0
    BY <2>3, <1>3 DEF em
  <2> QED BY <2>1, <2>2, <2>3, <1>1
<1>12. Emissions(b, s, I2)
  <2>1. call.dirs = Dirs /\ call.level = EmitOf(b, s, call.at)
    BY DEF call, em, Item
  <2>2. \A e \in I2 : e \in I \/ e = call
    BY DEF I2
  <2> QED BY <2>1, <2>2 DEF Sound, Emissions
<1>13. Cleared(L2, D2)
  <2> SUFFICES ASSUME NEW e \in D2, e.level > 1
               PROVE  L2[e.at] = 0
    BY DEF Cleared
  <2>1. CASE e \in D
    <3>1. e.at \in Cell
      BY <2>1, <1>0 DEF Entry
    <3> QED BY <2>1, <3>1, <1>3 DEF Sound, Cleared
  <2>2. CASE e = told
    BY <2>2, <1>3 DEF told, Item
  <2> QED BY <2>1, <2>2 DEF D2
<1>14. Sound(b, s, L2, C, D2, I2)
  BY <1>0, <1>2, <1>9, <1>10, <1>11, <1>12, <1>13 DEF Sound
<1> QED BY <1>14 DEF L2, D2, I2, told, call, em

\* A checked cell that its own source explains is checked no more: its
\* neighbours will be asked for their light, and its source is called.
LEMMA UncheckSound ==
  ASSUME BoxAssumption, SourcesOpen, NEW b \in [Cell -> Kinds], NEW s,
         NEW L, NEW C, NEW D, NEW I, Sound(b, s, L, C, D, I),
         NEW c \in Cell, NEW C2, C2 \subseteq C, C \subseteq C2 \cup {c},
         L[c] <= EmitOf(b, s, c),
         \E e \in D : e.at = c /\ e.dirs = Dirs,
         EmitOf(b, s, c) > 0 =>
           \E e \in I : e.em /\ e.at = c /\ e.dirs = Dirs /\ e.level = EmitOf(b, s, c)
  PROVE  Sound(b, s, L, C2, D, I)
<1> DEFINE em == EmitOf(b, s, c)
<1>0. L \in Levels /\ C \subseteq Cell /\ D \subseteq Entry /\ I \subseteq Entry
  BY DEF Sound
<1>1. em \in 0 .. MaxLight /\ L[c] \in 0 .. MaxLight
  BY <1>0, LevelFacts
<1>2. Potential(b, s, L, c) >= L[c] /\ Potential(b, s, L, c) \in 0 .. MaxLight
  BY <1>0, LevelFacts
<1>3. ASSUME em > 0, NEW x \in Cell, NEW d \in Dirs, Step(x, d) = c, b[x].faces[d] # Faces
      PROVE  ~Occludes(b, x, d)
  <2>1. b[c] \in Kinds /\ b[c].emit > 0
    BY <1>3, <1>1 DEF EmitOf
  <2>2. Opp[d] \in Dirs
    BY <1>3, Geometry
  <2>3. b[c].faces[Opp[d]] = {}
    BY <2>1, <2>2 DEF SourcesOpen
  <2> QED BY <1>3, <2>3 DEF Occludes
<1>4. Justified(b, s, L, C2, D)
  <2> SUFFICES ASSUME NEW x \in Cell \ C2
               PROVE  \/ L[x] <= EmitOf(b, s, x) \/ FromNeighbour(b, s, L, C2, x)
                      \/ FromChanged(b, L, C2, x) \/ Threatened(L, D, x)
    BY DEF Justified
  <2>0. EmitOf(b, s, x) \in 0 .. MaxLight /\ Loss(b, x) \in Nat /\ Loss(b, x) >= 1 /\ L[x] \in 0 .. MaxLight
    BY <1>0, LevelFacts
  <2>1. CASE x = c
    BY <2>1
  <2>2. CASE x # c
    <3>1. x \in Cell \ C
      BY <2>2
    <3>2. CASE FromNeighbour(b, s, L, C, x)
      BY <3>2 DEF FromNeighbour
    <3>3. CASE FromChanged(b, L, C, x)
      <4>1. PICK d \in Dirs : /\ Step(x, d) \in Cell \cap C
                              /\ b[x].faces[d] # Faces
                              /\ L[x] <= L[Step(x, d)] - Loss(b, x)
        BY <3>3 DEF FromChanged
      <4>2. CASE Step(x, d) \in C2
        BY <4>1, <4>2 DEF FromChanged
      <4>3. CASE Step(x, d) \notin C2 /\ L[x] > 0
        <5>1. Step(x, d) = c
          BY <4>1, <4>3
        <5>2. em > 0
          BY <5>1, <4>1, <4>3, <2>0, <1>1
        <5>3. ~Occludes(b, x, d)
          BY <4>1, <5>1, <5>2, <1>3
        <5>4. L[x] <= Potential(b, s, L, c) - Loss(b, x)
          BY <4>1, <5>1, <2>0, <1>1, <1>2
        <5> QED BY <4>3, <5>1, <5>3, <5>4 DEF FromNeighbour
      <4>4. CASE L[x] = 0
        BY <4>4, <2>0
      <4> QED BY <4>2, <4>3, <4>4, <2>0
    <3> QED BY <3>1, <3>2, <3>3 DEF Sound, Justified
  <2> QED BY <2>1, <2>2
<1>5. Passed(b, s, L, C2, D, I)
  <2> SUFFICES ASSUME NEW n \in Cell \ C2, NEW d \in Dirs, Step(n, d) \in Cell \ C2
               PROVE  Satisfied(b, s, L, n, d) \/ Owed(L, I, n, d) \/ Pulled(D, n, d)
    BY DEF Passed
  <2>1. CASE n # c /\ Step(n, d) # c
    <3>1. n \in Cell \ C /\ Step(n, d) \in Cell \ C
      BY <2>1
    <3> QED BY <3>1 DEF Sound, Passed
  <2>2. CASE Step(n, d) = c
    <3>1. Opp[d] \in Dirs
      BY Geometry
    <3> QED BY <2>2, <3>1 DEF Pulled
  <2>3. CASE n = c /\ L[c] = 0
    BY <2>3, <1>0, DarkIsSatisfied
  <2>4. CASE n = c /\ L[c] > 0
    <3>1. PICK e \in I : e.em /\ e.at = c /\ e.dirs = Dirs /\ e.level = em
      BY <2>4, <1>1
    <3> QED BY <2>4, <3>1 DEF Owed
  <2> QED BY <2>1, <2>2, <2>3, <2>4, <1>1
<1>6. SourcesShine(b, s, L, C2, I)
  <2> SUFFICES ASSUME NEW x \in Cell \ C2
               PROVE  \/ EmitOf(b, s, x) <= L[x]
                      \/ \E e \in I : e.em /\ e.at = x /\ e.level = EmitOf(b, s, x)
    BY DEF SourcesShine
  <2>1. CASE x # c
    <3>1. x \in Cell \ C
      BY <2>1
    <3> QED BY <3>1 DEF Sound, SourcesShine
  <2>2. CASE x = c
    BY <2>2, <1>1
  <2> QED BY <2>1, <2>2
<1> QED BY <1>4, <1>5, <1>6 DEF Sound

\* An entry need not visit a direction again when the neighbour there is dark
\* or, being too bright to be cleared, will shine back.
LEMMA DirectionDone ==
  ASSUME BoxAssumption, NEW b \in [Cell -> Kinds], NEW s,
         NEW L, NEW D, NEW I, NEW e \in Entry, NEW ds \in SUBSET Dirs, NEW d \in Dirs,
         Sound(b, s, L, {}, D \cup {Rest(e, ds)}, I),
         d \in ds /\ Step(e.at, d) \in Cell =>
           \/ L[Step(e.at, d)] = 0
           \/ ~(L[Step(e.at, d)] <= e.level - 1) /\ Owed(L, I, Step(e.at, d), Opp[d])
  PROVE  Sound(b, s, L, {}, D \cup {Rest(e, ds \ {d})}, I)
<1> DEFINE D1 == D \cup {Rest(e, ds)}
           D2 == D \cup {Rest(e, ds \ {d})}
           c == Step(e.at, d)
<1>0. L \in Levels /\ D \subseteq Entry
  BY DEF Sound
<1>1. e.at \in Cell /\ e.level \in 1 .. MaxLight
  BY DEF Entry
<1>2. Rest(e, ds \ {d}) \in Entry
  BY <1>1 DEF Entry, Rest, Item
<1>3. \A x \in SUBSET Dirs : Rest(e, x).at = e.at /\ Rest(e, x).level = e.level /\ Rest(e, x).dirs = x
  BY DEF Rest, Item
<1>4. Cleared(L, D2)
  <2>1. \A f \in D : f.level > 1 => L[f.at] = 0
    BY DEF Sound, Cleared
  <2>2. e.level > 1 => L[e.at] = 0
    BY <1>3 DEF Sound, Cleared
  <2>3. Rest(e, ds \ {d}).at = e.at /\ Rest(e, ds \ {d}).level = e.level
    BY <1>3
  <2> QED BY <2>1, <2>2, <2>3 DEF Cleared
<1>5. ASSUME NEW x \in Cell, Threatened(L, D1, x)
      PROVE  L[x] <= EmitOf(b, s, x) \/ Threatened(L, D2, x)
  <2>1. PICK f \in D1 : \E q \in f.dirs : Step(f.at, q) = x /\ L[x] <= f.level - 1
    BY <1>5 DEF Threatened
  <2>2. PICK q \in f.dirs : Step(f.at, q) = x /\ L[x] <= f.level - 1
    BY <2>1
  <2>3. CASE f \in D
    BY <2>2, <2>3 DEF Threatened
  <2>4. CASE f = Rest(e, ds)
    <3>1. q \in ds /\ Step(e.at, q) = x /\ L[x] <= e.level - 1
      BY <2>2, <2>4, <1>3
    <3>2. CASE q # d
      <4>1. q \in Rest(e, ds \ {d}).dirs
        BY <3>1, <3>2, <1>3
      <4>2. Rest(e, ds \ {d}).at = e.at /\ Rest(e, ds \ {d}).level = e.level
        BY <1>3
      <4> QED BY <3>1, <4>1, <4>2 DEF Threatened
    <3>3. CASE q = d
      <4>1. L[x] = 0
        BY <3>1, <3>3
      <4>2. EmitOf(b, s, x) \in 0 .. MaxLight
        BY <1>0, LevelFacts
      <4> QED BY <4>1, <4>2
    <3> QED BY <3>2, <3>3
  <2> QED BY <2>1, <2>3, <2>4
<1>6. ASSUME NEW n \in Cell, NEW q \in Dirs, Step(n, q) \in Cell, Pulled(D1, n, q)
      PROVE  Satisfied(b, s, L, n, q) \/ Owed(L, I, n, q) \/ Pulled(D2, n, q)
  <2>1. PICK f \in D1 : f.at = Step(n, q) /\ Opp[q] \in f.dirs
    BY <1>6 DEF Pulled
  <2>2. CASE f \in D
    BY <2>1, <2>2 DEF Pulled
  <2>3. CASE f = Rest(e, ds)
    <3>1. e.at = Step(n, q) /\ Opp[q] \in ds
      BY <2>1, <2>3, <1>3
    <3>2. CASE Opp[q] # d
      <4>1. Rest(e, ds \ {d}).at = e.at /\ Rest(e, ds \ {d}).dirs = ds \ {d}
        BY <1>3
      <4> QED BY <3>1, <3>2, <4>1 DEF Pulled
    <3>3. CASE Opp[q] = d
      <4>1. c = n /\ Opp[d] = q
        BY <3>1, <3>3, Geometry
      <4>2. L[n] = 0 \/ Owed(L, I, n, q)
        BY <4>1, <3>1, <3>3
      <4> QED BY <4>2, <1>0, <1>6, DarkIsSatisfied
    <3> QED BY <3>2, <3>3
  <2> QED BY <2>1, <2>2, <2>3
<1>7. D2 \in SUBSET Entry
  BY <1>0, <1>2
<1>8. Sound(b, s, L, {}, D2, I)
  <2>1. Sound(b, s, L, {}, D1, I)
    OBVIOUS
  <2> HIDE DEF D1, D2
  <2> QED BY <2>1, <1>4, <1>5, <1>6, <1>7, OtherDecreases
<1> QED BY <1>8

\* A further entry of the increase queue does no harm.
LEMMA MoreIncreases ==
  ASSUME NEW b, NEW s, NEW L, NEW C, NEW D, NEW I, Sound(b, s, L, C, D, I),
         NEW I2 \in SUBSET Entry, I \subseteq I2, Emissions(b, s, I2)
  PROVE  Sound(b, s, L, C, D, I2)
<1>1. \A n \in Cell, d \in Dirs : Owed(L, I, n, d) => Owed(L, I2, n, d)
  BY DEF Owed
<1>2. \A c \in Cell, e \in I : e.em /\ e.at = c /\ e.level = EmitOf(b, s, c) =>
         \E f \in I2 : f.em /\ f.at = c /\ f.level = EmitOf(b, s, c)
  BY Zenon
<1> QED BY <1>1, <1>2, OtherIncreases

\* Nor does one of the decrease queue that keeps its promise.
LEMMA MoreDecreases ==
  ASSUME NEW b, NEW s, NEW L, NEW C, NEW D, NEW I, Sound(b, s, L, C, D, I),
         NEW D2 \in SUBSET Entry, D \subseteq D2, Cleared(L, D2)
  PROVE  Sound(b, s, L, C, D2, I)
<1>1. \A c \in Cell : Threatened(L, D, c) => Threatened(L, D2, c)
  BY Zenon DEF Threatened
<1>2. \A n \in Cell, d \in Dirs : Pulled(D, n, d) => Pulled(D2, n, d)
  BY Zenon DEF Pulled
<1> QED BY <1>1, <1>2, OtherDecreases

\* A queue that is pushed an entry, or not.
LEMMA Pushed ==
  ASSUME NEW q \in Seq(Entry), NEW c \in Cell, NEW l \in 1 .. MaxLight,
         NEW ds \in SUBSET Dirs, NEW m \in BOOLEAN
  PROVE  /\ Item(c, l, ds, m) \in Entry
         /\ q \o Push(c, l, ds, m) \in Seq(Entry)
         /\ ToSet(q \o Push(c, l, ds, m)) = ToSet(q) \cup {Item(c, l, ds, m)}
<1> DEFINE e == Item(c, l, ds, m)
           t == <<e>>
<1>1. e \in Entry
  BY DEF Entry, Item
<1>2. Push(c, l, ds, m) = t
  BY DEF Push, Item
<1> HIDE DEF e
<1>3. t \in Seq(Entry) /\ ToSet(t) = {e}
  BY <1>1, Members
<1> HIDE DEF t
<1>4. q \o t \in Seq(Entry) /\ ToSet(q \o t) = ToSet(q) \cup ToSet(t)
  BY <1>3, Members
<1> QED BY <1>1, <1>2, <1>3, <1>4 DEF e

LEMMA NotPushed ==
  ASSUME NEW q \in Seq(Entry)
  PROVE  q \o <<>> \in Seq(Entry) /\ ToSet(q \o <<>>) = ToSet(q)
BY ConcatEmptySeq

-----------------------------------------------------------------------------
(* The decrease pass.                                                      *)

\* An entry is at work, with the directions ds still to visit.
DecSound(r, e, ds) ==
  /\ r \in [light : Levels, dec : Seq(Entry), inc : Seq(Entry)]
  /\ Sound(blk, seeded, r.light, {}, ToSet(r.dec) \cup {Rest(e, ds)}, ToSet(r.inc))

LEMMA DecreaseTowardSound ==
  ASSUME BoxAssumption, blk \in [Cell -> Kinds], NEW r, NEW e \in Entry,
         NEW ds \in SUBSET Dirs, NEW d \in Dirs, d \in ds <=> d \in e.dirs, DecSound(r, e, ds)
  PROVE  DecSound(DecreaseToward(r, e, d), e, ds \ {d})
<1> DEFINE c == Step(e.at, d)
           L == r.light
           em == EmitOf(blk, seeded, c)
           D == ToSet(r.dec) \cup {Rest(e, ds)}
           I == ToSet(r.inc)
<1>0. /\ L \in Levels /\ r.dec \in Seq(Entry) /\ r.inc \in Seq(Entry)
      /\ r = [light |-> r.light, dec |-> r.dec, inc |-> r.inc]
      /\ Sound(blk, seeded, L, {}, D, I)
  BY DEF DecSound
<1>1. e.at \in Cell /\ e.level \in 1 .. MaxLight
  BY DEF Entry
<1>2. CASE ~Visits(e, d) \/ L[c] = 0
  <2>1. DecreaseToward(r, e, d) = r
    BY <1>2 DEF DecreaseToward, Decrease
  <2>2. d \in ds /\ c \in Cell => L[c] = 0
    BY <1>2 DEF Visits
  <2>3. Sound(blk, seeded, L, {}, ToSet(r.dec) \cup {Rest(e, ds \ {d})}, I)
    BY <1>0, <2>2, DirectionDone
  <2> QED BY <2>1, <2>3, <1>0 DEF DecSound
<1>3. CASE Visits(e, d) /\ L[c] # 0 /\ L[c] <= e.level - 1
  <2>0. c \in Cell /\ d \in ds
    BY <1>3 DEF Visits
  <2>1. em \in 0 .. MaxLight /\ L[c] \in 1 .. MaxLight
    <3>1. L[c] \in 0 .. MaxLight
      BY <2>0, <1>0 DEF Levels
    <3>2. em \in 0 .. MaxLight
      BY <2>0, <1>0, LevelFacts
    <3> QED BY <3>1, <3>2, <1>3 DEF BoxAssumption
  <2> DEFINE L2 == [L EXCEPT ![c] = 0]
             told == Item(c, L[c], Dirs \ {Opp[d]}, FALSE)
             call == Item(c, em, Dirs, TRUE)
             T == IF em < L[c] THEN {told} ELSE {}
             K == IF em > 0 THEN {call} ELSE {}
             dec2 == r.dec \o IF em < L[c] THEN Push(c, L[c], Dirs \ {Opp[d]}, FALSE) ELSE <<>>
             inc2 == r.inc \o IF em > 0 THEN Push(c, em, Dirs, TRUE) ELSE <<>>
  <2>2. DecreaseToward(r, e, d) = [light |-> L2, dec |-> dec2, inc |-> inc2]
    BY <1>3 DEF DecreaseToward, Decrease
  <2>4. dec2 \in Seq(Entry) /\ ToSet(dec2) = ToSet(r.dec) \cup T
    <3>1. CASE em < L[c]
      <4>1. /\ r.dec \o Push(c, L[c], Dirs \ {Opp[d]}, FALSE) \in Seq(Entry)
            /\ ToSet(r.dec \o Push(c, L[c], Dirs \ {Opp[d]}, FALSE)) = ToSet(r.dec) \cup {told}
        <5> HIDE DEF c, L, em
        <5>1. c \in Cell /\ L[c] \in 1 .. MaxLight /\ Dirs \ {Opp[d]} \in SUBSET Dirs /\ r.dec \in Seq(Entry)
          BY <1>0, <2>0, <2>1
        <5> QED BY <5>1, Pushed, Zenon
      <4> QED BY <3>1, <4>1
    <3>2. CASE ~(em < L[c])
      <4>1. r.dec \o <<>> \in Seq(Entry) /\ ToSet(r.dec \o <<>>) = ToSet(r.dec)
        BY <1>0, NotPushed
      <4> QED BY <3>2, <4>1
    <3> QED BY <3>1, <3>2
  <2>5. inc2 \in Seq(Entry) /\ ToSet(inc2) = I \cup K
    <3>1. CASE em > 0
      <4>1. /\ r.inc \o Push(c, em, Dirs, TRUE) \in Seq(Entry)
            /\ ToSet(r.inc \o Push(c, em, Dirs, TRUE)) = I \cup {call}
        <5> HIDE DEF c, em
        <5>1. c \in Cell /\ em \in 1 .. MaxLight /\ Dirs \in SUBSET Dirs /\ r.inc \in Seq(Entry)
          BY <1>0, <2>0, <2>1, <3>1
        <5> QED BY <5>1, Pushed, Zenon
      <4> QED BY <3>1, <4>1
    <3>2. CASE ~(em > 0)
      <4>1. r.inc \o <<>> \in Seq(Entry) /\ ToSet(r.inc \o <<>>) = I
        BY <1>0, NotPushed
      <4> QED BY <3>2, <4>1
    <3> QED BY <3>1, <3>2
  \* the cell that passes the news on is dark
  <2>6. ASSUME NEW q \in Dirs, Step(c, q) \in Cell, L[Step(c, q)] > 0
        PROVE  q \in Dirs \ {Opp[d]}
    <3>1. Step(c, Opp[d]) = e.at
      BY <1>1, Geometry
    <3>2. Rest(e, ds) \in D /\ Rest(e, ds).at = e.at /\ Rest(e, ds).level = e.level
      BY DEF Rest, Item
    <3>3. e.level > 1
      BY <1>1, <1>3, <2>1
    <3>4. L[e.at] = 0
      BY <1>0, <3>2, <3>3 DEF Sound, Cleared
    <3> QED BY <2>6, <3>1, <3>4
  <2>7. Sound(blk, seeded, L2, {}, D \cup T, I \cup K)
    <3>1. L[c] > 0 /\ Dirs \ {Opp[d]} \in SUBSET Dirs /\ c \notin {}
      BY <2>1
    <3> QED BY <1>0, <2>0, <2>6, <3>1, ClearSound
  <2>8. D \cup T = (ToSet(r.dec) \cup T) \cup {Rest(e, ds)}
    OBVIOUS
  <2>9. L2[c] = 0 /\ L2 \in Levels
    BY <1>0, <2>0 DEF Levels, BoxAssumption
  <2> HIDE DEF L2, T, K, dec2, inc2
  <2>10. Sound(blk, seeded, L2, {}, ToSet(dec2) \cup {Rest(e, ds)}, ToSet(inc2))
    BY <2>4, <2>5, <2>7, <2>8
  <2>11. Sound(blk, seeded, L2, {}, ToSet(dec2) \cup {Rest(e, ds \ {d})}, ToSet(inc2))
    BY <2>9, <2>10, DirectionDone
  <2> DEFINE r2 == [light |-> L2, dec |-> dec2, inc |-> inc2]
  <2>12. r2 \in [light : Levels, dec : Seq(Entry), inc : Seq(Entry)]
    BY <2>4, <2>5, <2>9
  <2>13. r2.light = L2 /\ r2.dec = dec2 /\ r2.inc = inc2
    OBVIOUS
  <2> HIDE DEF r2
  <2>14. DecSound(r2, e, ds \ {d})
    BY <2>11, <2>12, <2>13 DEF DecSound
  <2> QED BY <2>2, <2>14 DEF r2
<1>4. CASE Visits(e, d) /\ L[c] # 0 /\ ~(L[c] <= e.level - 1)
  <2>0. c \in Cell /\ d \in ds
    BY <1>4 DEF Visits
  <2>1. L[c] \in 1 .. MaxLight
    <3>1. L[c] \in 0 .. MaxLight
      BY <2>0, <1>0, LevelFacts
    <3> QED BY <3>1, <1>4 DEF BoxAssumption
  <2>2. Opp[d] \in Dirs
    BY <1>1, Geometry
  <2> DEFINE back == Item(c, L[c], {Opp[d]}, FALSE)
             inc2 == r.inc \o Push(c, L[c], {Opp[d]}, FALSE)
  <2>3. DecreaseToward(r, e, d) = [light |-> L, dec |-> r.dec, inc |-> inc2]
    <3>1. DecreaseToward(r, e, d) = [r EXCEPT !.inc = inc2]
      BY <1>4 DEF DecreaseToward, Decrease
    <3> QED BY <3>1, <1>0
  <2>4. {Opp[d]} \in SUBSET Dirs
    BY <2>2
  <2>5. back \in Entry /\ inc2 \in Seq(Entry) /\ ToSet(inc2) = I \cup {back}
    BY <1>0, <2>0, <2>1, <2>4, Pushed
  <2>6. I \cup {back} \in SUBSET Entry
    BY <1>0, <2>5 DEF Sound
  <2>7. Emissions(blk, seeded, I \cup {back})
    BY <1>0 DEF Sound, Emissions, Item
  <2>8. Sound(blk, seeded, L, {}, D, I \cup {back})
    BY <1>0, <2>6, <2>7, MoreIncreases
  <2>9. Owed(L, I \cup {back}, c, Opp[d])
    <3>1. back \in I \cup {back} /\ back.at = c /\ Opp[d] \in back.dirs /\ back.level = L[c]
      BY DEF Item
    <3>2. L[c] <= back.level
      BY <2>1 DEF Item
    <3> HIDE DEF back
    <3> QED BY <3>1, <3>2 DEF Owed
  <2>10. Sound(blk, seeded, L, {}, ToSet(r.dec) \cup {Rest(e, ds \ {d})}, I \cup {back})
    BY <1>4, <2>8, <2>9, DirectionDone
  <2> HIDE DEF inc2
  <2> DEFINE r2 == [light |-> L, dec |-> r.dec, inc |-> inc2]
  <2>12. r2 \in [light : Levels, dec : Seq(Entry), inc : Seq(Entry)]
    BY <2>5, <1>0
  <2>13. r2.light = L /\ r2.dec = r.dec /\ r2.inc = inc2
    OBVIOUS
  <2> HIDE DEF r2
  <2>14. DecSound(r2, e, ds \ {d})
    BY <2>5, <2>10, <2>12, <2>13 DEF DecSound
  <2> QED BY <2>3, <2>14 DEF r2
<1> QED BY <1>2, <1>3, <1>4

\* All the neighbours of an entry.
LEMMA DecreaseEntrySound ==
  ASSUME BoxAssumption, blk \in [Cell -> Kinds],
         NEW L, NEW q \in Seq(Entry), NEW p \in Seq(Entry), NEW e \in Entry,
         Sound(blk, seeded, L, {}, ToSet(q) \cup {e}, ToSet(p)),
         NEW r, r = DecreaseEntry([light |-> L, dec |-> q, inc |-> p], e)
  PROVE  /\ r \in [light : Levels, dec : Seq(Entry), inc : Seq(Entry)]
         /\ Sound(blk, seeded, r.light, {}, ToSet(r.dec), ToSet(r.inc))
<1> DEFINE r0 == [light |-> L, dec |-> q, inc |-> p]
           r1 == DecreaseToward(r0, e, "D")
           r2 == DecreaseToward(r1, e, "U")
           r3 == DecreaseToward(r2, e, "W")
           r4 == DecreaseToward(r3, e, "E")
           d1 == e.dirs \ {"D"}
           d2 == d1 \ {"U"}
           d3 == d2 \ {"W"}
           d4 == d3 \ {"E"}
<1>0. L \in Levels /\ ToSet(q) \subseteq Entry
  BY DEF Sound
<1>1. e.at \in Cell /\ e.level \in 1 .. MaxLight /\ e.dirs \in SUBSET Dirs
  BY DEF Entry
<1>2. \A ds : Rest(e, ds).at = e.at /\ Rest(e, ds).level = e.level /\ Rest(e, ds).dirs = ds
  BY DEF Rest, Item
<1>3. \A ds \in SUBSET Dirs : Rest(e, ds) \in Entry
  BY <1>1 DEF Rest, Item, Entry
<1>4. DecSound(r0, e, e.dirs)
  <2> DEFINE D == ToSet(q) \cup {e}
             D2 == ToSet(q) \cup {Rest(e, e.dirs)}
  <2>1. D2 \in SUBSET Entry
    BY <1>0, <1>1, <1>3
  <2>2. Cleared(L, D2)
    BY <1>2 DEF Sound, Cleared
  <2>3. \A c \in Cell : Threatened(L, D, c) => Threatened(L, D2, c)
    BY <1>2 DEF Threatened
  <2>4. \A n \in Cell, d \in Dirs : Pulled(D, n, d) => Pulled(D2, n, d)
    BY <1>2 DEF Pulled
  <2>5. Sound(blk, seeded, L, {}, D, ToSet(p))
    OBVIOUS
  <2> HIDE DEF D, D2
  <2>6. Sound(blk, seeded, L, {}, D2, ToSet(p))
    BY <2>1, <2>2, <2>3, <2>4, <2>5, OtherDecreases
  <2>7. r0.light = L /\ r0.dec = q /\ r0.inc = p /\ r0 \in [light : Levels, dec : Seq(Entry), inc : Seq(Entry)]
    BY <1>0
  <2> HIDE DEF r0
  <2> QED BY <2>6, <2>7 DEF DecSound, D2
<1>5. /\ d1 \in SUBSET Dirs /\ d2 \in SUBSET Dirs /\ d3 \in SUBSET Dirs /\ e.dirs \in SUBSET Dirs
      /\ "D" \in Dirs /\ "U" \in Dirs /\ "W" \in Dirs /\ "E" \in Dirs
      /\ "U" \in d1 <=> "U" \in e.dirs
      /\ "W" \in d2 <=> "W" \in e.dirs
      /\ "E" \in d3 <=> "E" \in e.dirs
      /\ d4 = {}
  BY <1>1 DEF Dirs
<1>6. r = r4
  BY DEF DecreaseEntry
<1> HIDE DEF r0, r1, r2, r3, r4, d1, d2, d3, d4
<1>7. DecSound(r1, e, d1)
  BY <1>4, <1>5, DecreaseTowardSound DEF r1, d1
<1>8. DecSound(r2, e, d2)
  BY <1>5, <1>7, DecreaseTowardSound DEF r2, d2
<1>9. DecSound(r3, e, d3)
  BY <1>5, <1>8, DecreaseTowardSound DEF r3, d3
<1>10. DecSound(r4, e, d4)
  BY <1>5, <1>9, DecreaseTowardSound DEF r4, d4
<1>11. DecSound(r, e, {})
  BY <1>5, <1>6, <1>10
<1>12. Sound(blk, seeded, r.light, {}, ToSet(r.dec), ToSet(r.inc))
  <2> DEFINE D == ToSet(r.dec) \cup {Rest(e, {})}
             D2 == ToSet(r.dec)
  <2>1. Sound(blk, seeded, r.light, {}, D, ToSet(r.inc))
    BY <1>11 DEF DecSound
  <2>2. D2 \in SUBSET Entry /\ Cleared(r.light, D2)
    BY <2>1 DEF Sound, Cleared
  <2>3. \A c \in Cell : Threatened(r.light, D, c) => Threatened(r.light, D2, c)
    BY <1>2 DEF Threatened
  <2>4. \A n \in Cell, d \in Dirs : Pulled(D, n, d) => Pulled(D2, n, d)
    BY <1>2 DEF Pulled
  <2> HIDE DEF D, D2
  <2>5. Sound(blk, seeded, r.light, {}, D2, ToSet(r.inc))
    BY <2>1, <2>2, <2>3, <2>4, OtherDecreases
  <2> QED BY <2>5 DEF D2
<1> QED BY <1>11, <1>12 DEF DecSound

-----------------------------------------------------------------------------
(* The increase pass.                                                      *)

\* An entry need not visit a direction in which all it owes has arrived.
LEMMA DirectionServed ==
  ASSUME NEW b, NEW s, NEW L, NEW I, NEW e \in Entry, NEW ds \in SUBSET Dirs, NEW d \in Dirs,
         Sound(b, s, L, {}, {}, I \cup {Rest(e, ds)}),
         d \in ds /\ Step(e.at, d) \in Cell => Satisfied(b, s, L, e.at, d)
  PROVE  Sound(b, s, L, {}, {}, I \cup {Rest(e, ds \ {d})})
<1> DEFINE I1 == I \cup {Rest(e, ds)}
           I2 == I \cup {Rest(e, ds \ {d})}
<1>1. \A x : /\ Rest(e, x).at = e.at /\ Rest(e, x).level = e.level
             /\ Rest(e, x).dirs = x /\ Rest(e, x).em = FALSE
  BY DEF Rest, Item
<1>2. Rest(e, ds \ {d}) \in Entry
  BY DEF Rest, Item, Entry
<1>3. I2 \in SUBSET Entry
  BY <1>2 DEF Sound
<1>4. Emissions(b, s, I2)
  BY <1>1 DEF Sound, Emissions
<1>5. ASSUME NEW n \in Cell, NEW q \in Dirs, Step(n, q) \in Cell, Owed(L, I1, n, q)
      PROVE  Satisfied(b, s, L, n, q) \/ Owed(L, I2, n, q)
  <2>1. PICK f \in I1 : f.at = n /\ q \in f.dirs /\ L[n] <= f.level /\ (f.em \/ L[n] = f.level)
    BY <1>5 DEF Owed
  <2>2. CASE f \in I
    BY <2>1, <2>2 DEF Owed
  <2>3. CASE f = Rest(e, ds) /\ q # d
    <3>1. /\ Rest(e, ds \ {d}).at = n /\ q \in Rest(e, ds \ {d}).dirs
          /\ L[n] <= Rest(e, ds \ {d}).level /\ L[n] = Rest(e, ds \ {d}).level
      BY <2>1, <2>3, <1>1
    <3> QED BY <3>1 DEF Owed
  <2>4. CASE f = Rest(e, ds) /\ q = d
    BY <2>1, <2>4, <1>1, <1>5
  <2> QED BY <2>1, <2>2, <2>3, <2>4
<1>6. ASSUME NEW c \in Cell, NEW f \in I1, f.em, f.at = c, f.level = EmitOf(b, s, c)
      PROVE  \E g \in I2 : g.em /\ g.at = c /\ g.level = EmitOf(b, s, c)
  <2>1. f \in I
    BY <1>6, <1>1
  <2> QED BY <2>1, <1>6
<1>7. Sound(b, s, L, {}, {}, I1)
  OBVIOUS
<1> HIDE DEF I1, I2
<1>8. Sound(b, s, L, {}, {}, I2)
  BY <1>3, <1>4, <1>5, <1>6, <1>7, OtherIncreases
<1> QED BY <1>8 DEF I2

\* Raising a cell to a level that its source or a neighbour justifies, when
\* what it now owes its own neighbours is owed by an entry.
LEMMA RaiseSound ==
  ASSUME BoxAssumption, NEW b \in [Cell -> Kinds], NEW s,
         NEW L, NEW I, Sound(b, s, L, {}, {}, I),
         NEW c \in Cell, NEW l \in 1 .. MaxLight, L[c] < l,
         NEW L2, L2 = [L EXCEPT ![c] = l],
         \/ l <= EmitOf(b, s, c)
         \/ \E d \in Dirs : /\ Step(c, d) \in Cell
                            /\ ~Occludes(b, c, d)
                            /\ l <= Potential(b, s, L, Step(c, d)) - Loss(b, c),
         NEW I2 \in SUBSET Entry, I \subseteq I2, Emissions(b, s, I2),
         \A d \in Dirs : Step(c, d) \in Cell => Satisfied(b, s, L2, c, d) \/ Owed(L2, I2, c, d)
  PROVE  Sound(b, s, L2, {}, {}, I2)
<1>0. L \in Levels
  BY DEF Sound
<1>1. L2 \in Levels
  BY <1>0 DEF Levels, BoxAssumption
<1>2. L2[c] = l /\ \A x \in Cell : x # c => L2[x] = L[x]
  BY <1>0 DEF Levels
<1>3. \A x \in Cell : L[x] \in 0 .. MaxLight /\ L2[x] \in 0 .. MaxLight /\ L[x] <= L2[x]
  BY <1>0, <1>1, <1>2 DEF Levels
<1>4. \A x \in Cell : x # c => Potential(b, s, L2, x) = Potential(b, s, L, x)
  BY <1>2 DEF Potential
<1>5. ASSUME NEW x \in Cell
      PROVE  /\ Potential(b, s, L, x) \in 0 .. MaxLight /\ Potential(b, s, L2, x) \in 0 .. MaxLight
             /\ Potential(b, s, L, x) <= Potential(b, s, L2, x)
  <2>1. EmitOf(b, s, x) \in 0 .. MaxLight
    BY <1>0, LevelFacts
  <2> QED BY <2>1, <1>3 DEF Potential, Larger
<1>6. Justified(b, s, L2, {}, {})
  <2> SUFFICES ASSUME NEW x \in Cell
               PROVE  L2[x] <= EmitOf(b, s, x) \/ FromNeighbour(b, s, L2, {}, x)
    BY DEF Justified
  <2>0. Loss(b, x) \in Nat /\ EmitOf(b, s, x) \in 0 .. MaxLight
    BY <1>0, LevelFacts
  <2>1. CASE x = c
    <3>1. CASE l <= EmitOf(b, s, c)
      BY <2>1, <3>1, <1>2
    <3>2. ASSUME NEW d \in Dirs, Step(c, d) \in Cell, ~Occludes(b, c, d),
                 l <= Potential(b, s, L, Step(c, d)) - Loss(b, c)
          PROVE  FromNeighbour(b, s, L2, {}, x)
      <4>1. Step(c, d) # c
        BY Geometry
      <4>2. Potential(b, s, L2, Step(c, d)) = Potential(b, s, L, Step(c, d))
        BY <4>1, <3>2, <1>4
      <4> QED BY <4>2, <3>2, <2>1, <1>2 DEF FromNeighbour
    <3> QED BY <3>1, <3>2
  <2>2. CASE x # c
    <3>0. L2[x] = L[x]
      BY <2>2, <1>2
    <3>1. CASE L[x] <= EmitOf(b, s, x)
      BY <3>0, <3>1
    <3>2. CASE FromNeighbour(b, s, L, {}, x)
      <4>1. PICK d \in Dirs : /\ Step(x, d) \in Cell \ {}
                              /\ ~Occludes(b, x, d)
                              /\ L[x] <= Potential(b, s, L, Step(x, d)) - Loss(b, x)
        BY <3>2 DEF FromNeighbour
      <4>2. Step(x, d) \in Cell
        BY <4>1
      <4> DEFINE p == Potential(b, s, L, Step(x, d))
                 p2 == Potential(b, s, L2, Step(x, d))
      <4>3. p \in 0 .. MaxLight /\ p2 \in 0 .. MaxLight /\ p <= p2 /\ L[x] \in 0 .. MaxLight
        BY <4>2, <1>5, <1>3
      <4>4. L[x] <= p2 - Loss(b, x)
        <5>1. L[x] <= p - Loss(b, x)
          BY <4>1
        <5> HIDE DEF p, p2
        <5> QED BY <5>1, <4>3, <2>0
      <4> QED BY <4>1, <4>4, <3>0 DEF FromNeighbour
    <3>3. ~FromChanged(b, L, {}, x) /\ ~Threatened(L, {}, x)
      BY DEF FromChanged, Threatened
    <3>4. x \in Cell \ {}
      OBVIOUS
    <3> QED BY <3>1, <3>2, <3>3, <3>4 DEF Sound, Justified
  <2> QED BY <2>1, <2>2
<1>7. Passed(b, s, L2, {}, {}, I2)
  <2> SUFFICES ASSUME NEW n \in Cell, NEW d \in Dirs, Step(n, d) \in Cell
               PROVE  Satisfied(b, s, L2, n, d) \/ Owed(L2, I2, n, d)
    BY DEF Passed
  <2>1. CASE n = c
    BY <2>1
  <2>2. CASE n # c
    <3>0. L2[n] = L[n]
      BY <2>2, <1>2
    <3>1. CASE Satisfied(b, s, L, n, d)
      <4>1. CASE Occludes(b, n, d)
        BY <4>1 DEF Satisfied
      <4>2. CASE L[n] - Loss(b, Step(n, d)) <= Potential(b, s, L, Step(n, d))
        <5>1. Loss(b, Step(n, d)) \in Nat
          BY <1>0, LevelFacts
        <5> DEFINE p == Potential(b, s, L, Step(n, d))
                   p2 == Potential(b, s, L2, Step(n, d))
        <5>2. p \in 0 .. MaxLight /\ p2 \in 0 .. MaxLight /\ p <= p2 /\ L[n] \in 0 .. MaxLight
          BY <1>5, <1>3
        <5>3. L2[n] - Loss(b, Step(n, d)) <= p2
          <6>1. L[n] - Loss(b, Step(n, d)) <= p
            BY <4>2
          <6> HIDE DEF p, p2
          <6> QED BY <6>1, <5>1, <5>2, <3>0
        <5> QED BY <5>3 DEF Satisfied
      <4> QED BY <3>1, <4>1, <4>2 DEF Satisfied
    <3>2. CASE Owed(L, I, n, d)
      BY <3>2, <3>0 DEF Owed
    <3>3. ~Pulled({}, n, d)
      BY DEF Pulled
    <3>4. n \in Cell \ {} /\ Step(n, d) \in Cell \ {}
      OBVIOUS
    <3> QED BY <3>1, <3>2, <3>3, <3>4 DEF Sound, Passed
  <2> QED BY <2>1, <2>2
<1>8. SourcesShine(b, s, L2, {}, I2)
  <2> SUFFICES ASSUME NEW x \in Cell
               PROVE  \/ EmitOf(b, s, x) <= L2[x]
                      \/ \E e \in I2 : e.em /\ e.at = x /\ e.level = EmitOf(b, s, x)
    BY DEF SourcesShine
  <2>1. EmitOf(b, s, x) \in 0 .. MaxLight
    BY <1>0, LevelFacts
  <2>2. CASE EmitOf(b, s, x) <= L[x]
    BY <2>1, <2>2, <1>3
  <2>3. CASE \E e \in I : e.em /\ e.at = x /\ e.level = EmitOf(b, s, x)
    BY <2>3
  <2>4. x \in Cell \ {}
    OBVIOUS
  <2> QED BY <2>2, <2>3, <2>4 DEF Sound, SourcesShine
<1>9. {} \subseteq Cell /\ {} \subseteq Entry /\ Cleared(L2, {})
  BY DEF Cleared
<1> QED BY <1>1, <1>6, <1>7, <1>8, <1>9 DEF Sound

\* An entry is at work, with the directions ds still to visit.
IncSound(r, e, ds) ==
  /\ r \in [light : Levels, inc : Seq(Entry)]
  /\ r.light[e.at] = e.level
  /\ Sound(blk, seeded, r.light, {}, {}, ToSet(r.inc) \cup {Rest(e, ds)})

LEMMA IncreaseTowardSound ==
  ASSUME BoxAssumption, blk \in [Cell -> Kinds], NEW r, NEW e \in Entry,
         NEW ds \in SUBSET Dirs, NEW d \in Dirs, d \in ds <=> d \in e.dirs, IncSound(r, e, ds)
  PROVE  IncSound(IncreaseToward(r, e, d), e, ds \ {d})
<1> DEFINE c == Step(e.at, d)
           L == r.light
           I == ToSet(r.inc) \cup {Rest(e, ds)}
           nl == e.level - Loss(blk, c)
<1>0. /\ L \in Levels /\ r.inc \in Seq(Entry) /\ r = [light |-> r.light, inc |-> r.inc]
      /\ L[e.at] = e.level
      /\ Sound(blk, seeded, L, {}, {}, I)
  BY DEF IncSound
<1>1. e.at \in Cell /\ e.level \in 1 .. MaxLight
  BY DEF Entry
<1>2. CASE ~Visits(e, d)
  <2>1. IncreaseToward(r, e, d) = r
    BY <1>2 DEF IncreaseToward
  <2>2. ~(d \in ds /\ c \in Cell)
    BY <1>2 DEF Visits
  <2>3. Sound(blk, seeded, L, {}, {}, ToSet(r.inc) \cup {Rest(e, ds \ {d})})
    BY <1>0, <2>2, DirectionServed
  <2> QED BY <2>1, <2>3, <1>0 DEF IncSound
<1>3. CASE Visits(e, d) /\ (nl <= L[c] \/ Occludes(blk, e.at, d))
  <2>1. IncreaseToward(r, e, d) = r
    BY <1>3 DEF IncreaseToward, Increase
  <2>2. c \in Cell
    BY <1>3 DEF Visits
  <2>3. /\ Loss(blk, c) \in Nat /\ L[c] \in 0 .. MaxLight
        /\ Potential(blk, seeded, L, c) \in 0 .. MaxLight /\ Potential(blk, seeded, L, c) >= L[c]
    BY <2>2, <1>0, LevelFacts
  <2>4. nl <= L[c] => L[e.at] - Loss(blk, c) <= Potential(blk, seeded, L, c)
    BY <2>3, <1>0, <1>1
  <2>5. Satisfied(blk, seeded, L, e.at, d)
    BY <1>3, <2>4 DEF Satisfied
  <2>6. Sound(blk, seeded, L, {}, {}, ToSet(r.inc) \cup {Rest(e, ds \ {d})})
    BY <1>0, <2>5, DirectionServed
  <2> QED BY <2>1, <2>6, <1>0 DEF IncSound
<1>4. CASE Visits(e, d) /\ ~(nl <= L[c]) /\ ~Occludes(blk, e.at, d)
  <2>0. c \in Cell /\ c # e.at
    BY <1>4, <1>1, Geometry DEF Visits
  <2>1. /\ Loss(blk, c) \in Nat /\ Loss(blk, c) >= 1 /\ L[c] \in 0 .. MaxLight
        /\ Potential(blk, seeded, L, e.at) >= L[e.at] /\ Potential(blk, seeded, L, e.at) \in 0 .. MaxLight
    BY <2>0, <1>0, <1>1, LevelFacts
  <2>2. nl \in 1 .. MaxLight /\ L[c] < nl
    BY <2>1, <1>1, <1>4 DEF BoxAssumption
  <2>3. Opp[d] \in Dirs /\ Step(c, Opp[d]) = e.at
    BY <1>1, Geometry
  <2> DEFINE L2 == [L EXCEPT ![c] = nl]
             on == Item(c, nl, Dirs \ {Opp[d]}, FALSE)
             inc2 == r.inc \o IF nl > 1 THEN Push(c, nl, Dirs \ {Opp[d]}, FALSE) ELSE <<>>
             K == IF nl > 1 THEN {on} ELSE {}
  <2>4. IncreaseToward(r, e, d) = [light |-> L2, inc |-> inc2]
    BY <1>4 DEF IncreaseToward, Increase
  <2>5. inc2 \in Seq(Entry) /\ ToSet(inc2) = ToSet(r.inc) \cup K
    <3>1. CASE nl > 1
      <4>1. /\ r.inc \o Push(c, nl, Dirs \ {Opp[d]}, FALSE) \in Seq(Entry)
            /\ ToSet(r.inc \o Push(c, nl, Dirs \ {Opp[d]}, FALSE)) = ToSet(r.inc) \cup {on}
        <5> HIDE DEF c, nl
        <5>1. c \in Cell /\ nl \in 1 .. MaxLight /\ Dirs \ {Opp[d]} \in SUBSET Dirs /\ r.inc \in Seq(Entry)
          BY <1>0, <2>0, <2>2
        <5> QED BY <5>1, Pushed, Zenon
      <4> QED BY <3>1, <4>1
    <3>2. CASE ~(nl > 1)
      <4>1. r.inc \o <<>> \in Seq(Entry) /\ ToSet(r.inc \o <<>>) = ToSet(r.inc)
        BY <1>0, NotPushed
      <4> QED BY <3>2, <4>1
    <3> QED BY <3>1, <3>2
  <2>6. on \in Entry
    BY <2>0, <2>2 DEF Entry, Item
  <2>7. L2 \in Levels /\ L2[c] = nl /\ L2[e.at] = e.level
    BY <2>0, <2>2, <1>0, <1>1 DEF Levels, BoxAssumption
  <2>8. I \cup K \in SUBSET Entry /\ Emissions(blk, seeded, I \cup K)
    <3>1. on.em = FALSE
      BY DEF Item
    <3> QED BY <3>1, <2>6, <1>0 DEF Sound, Emissions
  \* the neighbour the light comes from justifies it
  <2>9. /\ Opp[d] \in Dirs /\ Step(c, Opp[d]) \in Cell
        /\ ~Occludes(blk, c, Opp[d])
        /\ nl <= Potential(blk, seeded, L, Step(c, Opp[d])) - Loss(blk, c)
    <3>1. ~Occludes(blk, c, Opp[d])
      BY <1>1, <1>4, OccludesBack
    <3>2. nl <= Potential(blk, seeded, L, e.at) - Loss(blk, c)
      BY <2>1, <1>0, <1>1
    <3> QED BY <2>3, <3>1, <3>2, <1>1
  \* and is owed nothing in return
  <2>10. ASSUME NEW q \in Dirs, Step(c, q) \in Cell
         PROVE  Satisfied(blk, seeded, L2, c, q) \/ Owed(L2, I \cup K, c, q)
    <3>0. /\ Loss(blk, Step(c, q)) \in Nat /\ Loss(blk, Step(c, q)) >= 1
          /\ Potential(blk, seeded, L2, Step(c, q)) \in 0 .. MaxLight
          /\ Potential(blk, seeded, L2, Step(c, q)) >= L2[Step(c, q)]
      BY <2>7, <2>10, LevelFacts
    <3>1. CASE q = Opp[d]
      <4>1. L2[Step(c, q)] = e.level
        BY <3>1, <2>3, <2>7
      <4>2. L2[c] <= e.level
        BY <2>1, <2>7, <1>1
      <4>3. L2[c] - Loss(blk, Step(c, q)) <= Potential(blk, seeded, L2, Step(c, q))
        BY <4>1, <4>2, <3>0, <2>2, <2>7, <1>1
      <4> QED BY <4>3 DEF Satisfied
    <3>2. CASE nl <= 1
      <4>1. L2[c] - Loss(blk, Step(c, q)) <= Potential(blk, seeded, L2, Step(c, q))
        BY <3>0, <3>2, <2>2, <2>7
      <4> QED BY <4>1 DEF Satisfied
    <3>3. CASE q # Opp[d] /\ nl > 1
      <4>1. /\ on \in I \cup K /\ on.at = c /\ q \in on.dirs /\ on.level = nl
        BY <3>3 DEF Item
      <4>2. L2[c] <= nl /\ L2[c] = nl
        BY <2>2, <2>7
      <4> HIDE DEF on, I, K, L2
      <4> QED BY <4>1, <4>2 DEF Owed
    <3> QED BY <3>1, <3>2, <3>3, <2>2
  <2>11. Sound(blk, seeded, L2, {}, {}, I \cup K)
    <3>1. I \subseteq I \cup K
      OBVIOUS
    <3>2. L2 = [L EXCEPT ![c] = nl]
      OBVIOUS
    <3>3. \E q \in Dirs : /\ Step(c, q) \in Cell
                          /\ ~Occludes(blk, c, q)
                          /\ nl <= Potential(blk, seeded, L, Step(c, q)) - Loss(blk, c)
      BY <2>9
    <3> HIDE DEF L2, K, I, nl, c
    <3> QED BY <1>0, <2>0, <2>2, <2>8, <2>10, <3>1, <3>2, <3>3, RaiseSound
  <2>12. Sound(blk, seeded, L2, {}, {}, (ToSet(r.inc) \cup K) \cup {Rest(e, ds)})
    <3>1. I \cup K = (ToSet(r.inc) \cup K) \cup {Rest(e, ds)}
      OBVIOUS
    <3> HIDE DEF L2
    <3> QED BY <2>11, <3>1
  <2>13. Satisfied(blk, seeded, L2, e.at, d)
    <3>1. Potential(blk, seeded, L2, c) >= L2[c]
      BY <2>0, <2>7, LevelFacts
    <3>2. L2[e.at] - Loss(blk, c) <= Potential(blk, seeded, L2, c)
      <4>1. L2[e.at] - Loss(blk, c) = L2[c]
        BY <2>7
      <4>2. Potential(blk, seeded, L2, c) \in 0 .. MaxLight
        BY <2>0, <2>7, LevelFacts
      <4> QED BY <3>1, <4>1, <4>2, <2>2, <2>7
    <3> QED BY <3>2 DEF Satisfied
  <2> HIDE DEF L2, K, inc2
  <2>14. Sound(blk, seeded, L2, {}, {}, (ToSet(r.inc) \cup K) \cup {Rest(e, ds \ {d})})
    BY <2>12, <2>13, DirectionServed
  <2> DEFINE r2 == [light |-> L2, inc |-> inc2]
  <2>15. r2 \in [light : Levels, inc : Seq(Entry)] /\ r2.light = L2 /\ r2.inc = inc2
    BY <2>5, <2>7
  <2> HIDE DEF r2
  <2>16. IncSound(r2, e, ds \ {d})
    BY <2>5, <2>7, <2>14, <2>15 DEF IncSound
  <2> QED BY <2>4, <2>16 DEF r2
<1> QED BY <1>2, <1>3, <1>4

\* The start of an entry: a source writes its own level, a stale entry is
\* dropped, and what a fresh one owes does not depend on its being a source.
LEMMA SourceRaised ==
  ASSUME BoxAssumption, NEW b \in [Cell -> Kinds], NEW s, NEW L, NEW I, NEW e \in Entry,
         Sound(b, s, L, {}, {}, I), e \in I, e.em, L[e.at] < e.level
  PROVE  Sound(b, s, [L EXCEPT ![e.at] = e.level], {}, {}, I)
<1> DEFINE L2 == [L EXCEPT ![e.at] = e.level]
<1>0. L \in Levels /\ e.at \in Cell /\ e.level \in 1 .. MaxLight
  BY DEF Sound, Entry
<1>1. e.dirs = Dirs /\ e.level = EmitOf(b, s, e.at)
  BY DEF Sound, Emissions
<1>2. L2[e.at] = e.level
  BY <1>0 DEF Levels
<1>3. \A d \in Dirs : Owed(L2, I, e.at, d)
  <2>1. L2[e.at] <= e.level
    BY <1>0, <1>2
  <2> HIDE DEF L2
  <2> QED BY <1>1, <1>2, <2>1 DEF Owed
<1>4. I \in SUBSET Entry /\ Emissions(b, s, I) /\ e.level <= EmitOf(b, s, e.at)
  BY <1>0, <1>1 DEF Sound
<1> QED BY <1>0, <1>3, <1>4, RaiseSound

LEMMA StaleDropped ==
  ASSUME BoxAssumption, NEW b, NEW s, NEW L, NEW I, NEW e \in Entry,
         Sound(b, s, L, {}, {}, I \cup {e}), L[e.at] # e.level, e.em => ~(L[e.at] < e.level)
  PROVE  Sound(b, s, L, {}, {}, I)
<1>0. L \in Levels /\ e.at \in Cell /\ e.level \in 1 .. MaxLight /\ I \in SUBSET Entry
  BY DEF Sound, Entry
<1>1. L[e.at] \in 0 .. MaxLight
  BY <1>0 DEF Levels
<1>2. Emissions(b, s, I)
  BY DEF Sound, Emissions
<1>3. ASSUME NEW n \in Cell, NEW d \in Dirs, Owed(L, I \cup {e}, n, d)
      PROVE  Owed(L, I, n, d)
  <2>1. PICK f \in I \cup {e} : f.at = n /\ d \in f.dirs /\ L[n] <= f.level /\ (f.em \/ L[n] = f.level)
    BY <1>3 DEF Owed
  <2>2. f # e
    BY <2>1, <1>0, <1>1
  <2>3. f \in I
    BY <2>1, <2>2
  <2> QED BY <2>1, <2>3 DEF Owed
<1>4. ASSUME NEW c \in Cell, NEW f \in I \cup {e}, f.em, f.at = c, f.level = EmitOf(b, s, c)
      PROVE  EmitOf(b, s, c) <= L[c] \/ \E g \in I : g.em /\ g.at = c /\ g.level = EmitOf(b, s, c)
  <2>1. CASE f = e
    BY <2>1, <1>4, <1>0, <1>1
  <2>2. CASE f \in I
    BY <2>2, <1>4
  <2> QED BY <2>1, <2>2
<1> QED BY <1>0, <1>2, <1>3, <1>4, OtherIncreases

LEMMA EntryTaken ==
  ASSUME BoxAssumption, NEW b, NEW s, NEW L, NEW I, NEW e \in Entry,
         Sound(b, s, L, {}, {}, I \cup {e}), L[e.at] = e.level
  PROVE  Sound(b, s, L, {}, {}, I \cup {Rest(e, e.dirs)})
<1> DEFINE w == Rest(e, e.dirs)
<1>0. e.at \in Cell /\ e.level \in 1 .. MaxLight
  BY DEF Entry
<1>1. w.at = e.at /\ w.level = e.level /\ w.dirs = e.dirs /\ w.em = FALSE
  BY DEF Rest, Item
<1>2. w \in Entry
  BY DEF Rest, Item, Entry
<1> HIDE DEF w
<1>3. I \cup {w} \in SUBSET Entry /\ Emissions(b, s, I \cup {w})
  BY <1>1, <1>2 DEF Sound, Emissions
<1>4. ASSUME NEW n \in Cell, NEW d \in Dirs, Owed(L, I \cup {e}, n, d)
      PROVE  Owed(L, I \cup {w}, n, d)
  <2>1. PICK f \in I \cup {e} : f.at = n /\ d \in f.dirs /\ L[n] <= f.level /\ (f.em \/ L[n] = f.level)
    BY <1>4 DEF Owed
  <2>2. CASE f \in I
    BY <2>1, <2>2 DEF Owed
  <2>3. CASE f = e
    <3>1. w \in I \cup {w} /\ w.at = n /\ d \in w.dirs /\ L[n] <= w.level /\ L[n] = w.level
      BY <2>1, <2>3, <1>1
    <3> QED BY <3>1 DEF Owed
  <2> QED BY <2>1, <2>2, <2>3
<1>5. ASSUME NEW c \in Cell, NEW f \in I \cup {e}, f.em, f.at = c, f.level = EmitOf(b, s, c)
      PROVE  \/ EmitOf(b, s, c) <= L[c]
             \/ \E g \in I \cup {w} : g.em /\ g.at = c /\ g.level = EmitOf(b, s, c)
  <2>1. CASE f = e
    BY <2>1, <1>5, <1>0
  <2>2. CASE f \in I
    BY <2>2, <1>5
  <2> QED BY <2>1, <2>2
<1>6. Sound(b, s, L, {}, {}, I \cup {w})
  BY <1>3, <1>4, <1>5, OtherIncreases
<1> QED BY <1>6 DEF w

\* The whole of an entry.
LEMMA IncreaseEntrySound ==
  ASSUME BoxAssumption, blk \in [Cell -> Kinds],
         NEW L, NEW q \in Seq(Entry), NEW e \in Entry,
         Sound(blk, seeded, L, {}, {}, ToSet(q) \cup {e}),
         NEW r, r = IncreaseEntry([light |-> L, inc |-> q], e)
  PROVE  /\ r \in [light : Levels, inc : Seq(Entry)]
         /\ Sound(blk, seeded, r.light, {}, {}, ToSet(r.inc))
<1> DEFINE L1 == IF e.em /\ L[e.at] < e.level THEN [L EXCEPT ![e.at] = e.level] ELSE L
           r0 == [light |-> L1, inc |-> q]
           I == ToSet(q)
<1>0. L \in Levels /\ e.at \in Cell /\ e.level \in 1 .. MaxLight /\ e.dirs \in SUBSET Dirs
  BY DEF Sound, Entry
<1>1. Sound(blk, seeded, L1, {}, {}, I \cup {e})
  <2>1. CASE e.em /\ L[e.at] < e.level
    <3>1. e \in I \cup {e}
      OBVIOUS
    <3>2. Sound(blk, seeded, [L EXCEPT ![e.at] = e.level], {}, {}, I \cup {e})
      BY <2>1, <3>1, SourceRaised
    <3> QED BY <2>1, <3>2
  <2>2. CASE ~(e.em /\ L[e.at] < e.level)
    BY <2>2
  <2> QED BY <2>1, <2>2
<1>2. L1 \in Levels
  BY <1>1 DEF Sound
<1>3. e.em => ~(L1[e.at] < e.level)
  BY <1>0 DEF Levels
<1>4. CASE L1[e.at] # e.level
  <2>1. r = r0
    BY <1>4 DEF IncreaseEntry
  <2> HIDE DEF L1
  <2>2. Sound(blk, seeded, L1, {}, {}, I)
    BY <1>1, <1>3, <1>4, StaleDropped
  <2> QED BY <2>1, <2>2, <1>2
<1>5. CASE L1[e.at] = e.level
  <2> DEFINE r1 == IncreaseToward(r0, e, "D")
             r2 == IncreaseToward(r1, e, "U")
             r3 == IncreaseToward(r2, e, "W")
             r4 == IncreaseToward(r3, e, "E")
             d1 == e.dirs \ {"D"}
             d2 == d1 \ {"U"}
             d3 == d2 \ {"W"}
             d4 == d3 \ {"E"}
  <2>1. /\ d1 \in SUBSET Dirs /\ d2 \in SUBSET Dirs /\ d3 \in SUBSET Dirs /\ e.dirs \in SUBSET Dirs
        /\ "D" \in Dirs /\ "U" \in Dirs /\ "W" \in Dirs /\ "E" \in Dirs
        /\ "U" \in d1 <=> "U" \in e.dirs
        /\ "W" \in d2 <=> "W" \in e.dirs
        /\ "E" \in d3 <=> "E" \in e.dirs
        /\ d4 = {}
    BY <1>0 DEF Dirs
  <2>2. r = r4
    <3>1. [[light |-> L, inc |-> q] EXCEPT !.light = L1] = r0
      OBVIOUS
    <3> QED BY <1>5, <3>1 DEF IncreaseEntry
  <2>3. IncSound(r0, e, e.dirs)
    <3> HIDE DEF L1
    <3>1. Sound(blk, seeded, L1, {}, {}, I \cup {Rest(e, e.dirs)})
      BY <1>1, <1>5, EntryTaken
    <3>2. r0 \in [light : Levels, inc : Seq(Entry)] /\ r0.light = L1 /\ r0.inc = q
      BY <1>2
    <3> HIDE DEF r0
    <3> QED BY <1>5, <3>1, <3>2 DEF IncSound
  <2> HIDE DEF L1, r0, r1, r2, r3, r4, d1, d2, d3, d4
  <2>4. IncSound(r1, e, d1)
    BY <2>1, <2>3, IncreaseTowardSound DEF r1, d1
  <2>5. IncSound(r2, e, d2)
    BY <2>1, <2>4, IncreaseTowardSound DEF r2, d2
  <2>6. IncSound(r3, e, d3)
    BY <2>1, <2>5, IncreaseTowardSound DEF r3, d3
  <2>7. IncSound(r4, e, d4)
    BY <2>1, <2>6, IncreaseTowardSound DEF r4, d4
  <2>8. IncSound(r, e, {})
    BY <2>1, <2>2, <2>7
  <2>9. Sound(blk, seeded, r.light, {}, {}, ToSet(r.inc))
    <3> DEFINE I1 == ToSet(r.inc) \cup {Rest(e, {})}
               I2 == ToSet(r.inc)
    <3>0. Rest(e, {}).dirs = {} /\ Rest(e, {}).em = FALSE
      BY DEF Rest, Item
    <3>1. Sound(blk, seeded, r.light, {}, {}, I1)
      BY <2>8 DEF IncSound
    <3>2. I2 \in SUBSET Entry /\ Emissions(blk, seeded, I2)
      BY <3>1 DEF Sound, Emissions
    <3>3. \A n \in Cell, d \in Dirs : Owed(r.light, I1, n, d) => Owed(r.light, I2, n, d)
      BY <3>0 DEF Owed
    <3>4. \A c \in Cell, f \in I1 : f.em => f \in I2
      BY <3>0
    <3> HIDE DEF I1, I2
    <3>5. Sound(blk, seeded, r.light, {}, {}, I2)
      BY <3>1, <3>2, <3>3, <3>4, OtherIncreases
    <3> QED BY <3>5 DEF I2
  <2> QED BY <2>8, <2>9 DEF IncSound
<1> QED BY <1>4, <1>5

-----------------------------------------------------------------------------
(* Recursion over an interval, and the seeds of a chunk.                   *)

\* A nonempty set of natural numbers has a least element (strict inclusion is
\* well founded on the intervals below its elements).
LEMMA LeastElement ==
  ASSUME NEW T \in SUBSET Nat, T # {}
  PROVE  \E x \in T : \A y \in T : x <= y
<1> DEFINE Below == { 0 .. x : x \in T }
<1>1. \A x \in Nat : 0 .. x \in FiniteSubsetsOf(Nat)
  <2> TAKE x \in Nat
  <2>1. IsFiniteSet(0 .. x)
    BY FS_Interval
  <2> QED BY <2>1 DEF FiniteSubsetsOf
<1>2. Below \subseteq FiniteSubsetsOf(Nat) /\ Below # {}
  BY <1>1
<1>3. \E D \in Below : \A E \in Below : <<E, D>> \notin StrictSubsetOrdering(Nat)
  BY <1>2, FS_StrictSubsetOrderingWellFounded, WFMin
<1>4. PICK x \in T : \A E \in Below : <<E, 0 .. x>> \notin StrictSubsetOrdering(Nat)
  BY <1>3
<1>5. ASSUME NEW y \in T, y < x
      PROVE  FALSE
  <2>1. <<0 .. y, 0 .. x>> \in StrictSubsetOrdering(Nat)
    BY <1>5 DEF StrictSubsetOrdering
  <2> QED BY <1>4, <2>1
<1> QED BY <1>5

\* Induction up to n, for a set that is given.
LEMMA UpTo ==
  ASSUME NEW n \in Nat, NEW P, 0 \in P, \A i \in 1 .. n : i - 1 \in P => i \in P
  PROVE  \A i \in 0 .. n : i \in P
<1> DEFINE T == {i \in 0 .. n : i \notin P}
<1>1. SUFFICES ASSUME T # {} PROVE FALSE
  OBVIOUS
<1>2. T \in SUBSET Nat
  OBVIOUS
<1>3. PICK x \in T : \A y \in T : x <= y
  BY <1>1, <1>2, LeastElement
<1>4. x \in 1 .. n /\ x - 1 \in 0 .. n /\ ~(x <= x - 1)
  BY <1>3
<1> QED BY <1>3, <1>4

\* A recursion over 0 .. n has a solution.
Solves(f, n, v, h) == f[0] = v /\ \A i \in 1 .. n : f[i] = h[<<i, f[i - 1]>>]

LEMMA Recursion ==
  ASSUME NEW n \in Nat, NEW V, NEW v \in V, NEW h \in [(1 .. n) \X V -> V]
  PROVE  \E f \in [0 .. n -> V] : Solves(f, n, v, h)
<1> DEFINE P == {m \in 0 .. n : \E f \in [0 .. m -> V] :
                      f[0] = v /\ \A i \in 1 .. m : f[i] = h[<<i, f[i - 1]>>]}
<1>1. 0 \in P
  <2> DEFINE f == [i \in 0 .. 0 |-> v]
  <2>1. f \in [0 .. 0 -> V] /\ f[0] = v /\ \A i \in 1 .. 0 : f[i] = h[<<i, f[i - 1]>>]
    OBVIOUS
  <2>2. 0 \in 0 .. n
    OBVIOUS
  <2> HIDE DEF f
  <2> QED BY <2>1, <2>2, Zenon
<1>2. ASSUME NEW m \in 1 .. n, m - 1 \in P
      PROVE  m \in P
  <2>1. PICK f \in [0 .. (m - 1) -> V] : f[0] = v /\ \A i \in 1 .. (m - 1) : f[i] = h[<<i, f[i - 1]>>]
    BY <1>2
  <2> DEFINE g == [i \in 0 .. m |-> IF i = m THEN h[<<m, f[m - 1]>>] ELSE f[i]]
  <2>2. f[m - 1] \in V /\ h[<<m, f[m - 1]>>] \in V
    OBVIOUS
  <2>3. g \in [0 .. m -> V]
    BY <2>2
  <2>4. g[0] = v /\ g[m] = h[<<m, f[m - 1]>>] /\ \A i \in 0 .. (m - 1) : g[i] = f[i]
    BY <2>1
  <2>5. \A i \in 1 .. m : g[i] = h[<<i, g[i - 1]>>]
    <3> TAKE i \in 1 .. m
    <3> HIDE DEF g
    <3>1. CASE i = m
      BY <3>1, <2>4
    <3>2. CASE i # m
      <4>1. i \in 1 .. (m - 1) /\ i - 1 \in 0 .. (m - 1) /\ i \in 0 .. (m - 1)
        BY <3>2
      <4>2. g[i] = f[i] /\ g[i - 1] = f[i - 1] /\ f[i] = h[<<i, f[i - 1]>>]
        BY <4>1, <2>1, <2>4
      <4> QED BY <4>2
    <3> QED BY <3>1, <3>2
  <2>6. g[0] = v /\ m \in 0 .. n
    BY <2>4
  <2> HIDE DEF g
  <2> QED BY <2>3, <2>5, <2>6, Zenon
<1> HIDE DEF P
<1>3. n \in P
  BY <1>1, <1>2, UpTo
<1> QED BY <1>3 DEF P, Solves

\* The members of a flattened queue.
LEMMA Flattened ==
  ASSUME NEW S, NEW g \in Seq(Seq(S))
  PROVE  /\ FlattenSeq(g) \in Seq(S)
         /\ ToSet(FlattenSeq(g)) = UNION {ToSet(g[i]) : i \in 1 .. Len(g)}
<1> DEFINE n == Len(g)
<1>0. n \in Nat /\ DOMAIN g = 1 .. n /\ \A i \in 1 .. n : g[i] \in Seq(S)
  BY LenProperties
<1>1. CASE n = 0
  <2>1. g = <<>>
    BY <1>1, EmptySeq
  <2>2. FlattenSeq(g) = <<>>
    BY <1>1, <2>1 DEF FlattenSeq
  <2>3. 1 .. n = {}
    BY <1>1
  <2>4. UNION {ToSet(g[i]) : i \in 1 .. n} = {}
    BY <2>3, Zenon
  <2>5. <<>> \in Seq(S) /\ ToSet(<<>>) = {}
    BY DEF ToSet
  <2> HIDE DEF n
  <2> QED BY <2>2, <2>4, <2>5 DEF n
<1>2. CASE n # 0
  <2> DEFINE Flat(f) == f = [i \in 1 .. n |-> IF i = 1 THEN g[i] ELSE f[i - 1] \o g[i]]
             f1 == CHOOSE f : Flat(f)
  <2>1. FlattenSeq(g) = f1[n]
    BY <1>2 DEF FlattenSeq
  <2>2. \E f : Flat(f)
    <3> DEFINE h == [p \in (1 .. n) \X Seq(S) |-> p[2] \o g[p[1]]]
    <3>1. h \in [(1 .. n) \X Seq(S) -> Seq(S)]
      BY <1>0
    <3>2. \A i \in 1 .. n, q \in Seq(S) : h[<<i, q>>] = q \o g[i]
      OBVIOUS
    <3> HIDE DEF h, n, Flat
    <3>3. <<>> \in Seq(S)
      OBVIOUS
    <3>4. PICK f \in [0 .. n -> Seq(S)] : f[0] = <<>> /\ \A i \in 1 .. n : f[i] = h[<<i, f[i - 1]>>]
      <4> DEFINE V == Seq(S)
                 v == <<>>
      <4>1. n \in Nat /\ v \in V /\ h \in [(1 .. n) \X V -> V]
        BY <1>0, <3>1, <3>3
      <4> HIDE DEF V, v
      <4>2. \E f \in [0 .. n -> V] : Solves(f, n, v, h)
        BY <4>1, Recursion
      <4> QED BY <4>2 DEF V, v, Solves
    <3> DEFINE k == [i \in 1 .. n |-> f[i]]
    <3>5. \A i \in 1 .. n : k[i] = IF i = 1 THEN g[i] ELSE k[i - 1] \o g[i]
      <4> TAKE i \in 1 .. n
      <4>0. i - 1 \in 0 .. n
        BY <1>0
      <4>1. f[i] = f[i - 1] \o g[i]
        BY <4>0, <3>2, <3>4
      <4>2. CASE i = 1
        <5>1. f[i] = <<>> \o g[i]
          <6>1. i - 1 = 0
            BY <4>2
          <6> QED BY <4>1, <6>1, <3>4
        <5>2. <<>> \o g[i] = g[i]
          BY <1>0, ConcatEmptySeq
        <5>3. k[i] = f[i]
          OBVIOUS
        <5> QED BY <4>2, <5>1, <5>2, <5>3
      <4>3. CASE i # 1
        <5>1. i - 1 \in 1 .. n
          BY <1>0, <4>3
        <5>2. k[i] = f[i] /\ k[i - 1] = f[i - 1]
          BY <5>1
        <5> QED BY <4>1, <4>3, <5>2
      <4> QED BY <4>2, <4>3
    <3>6. Flat(k)
      BY <3>5 DEF Flat
    <3> QED BY <3>6
  <2>3. Flat(f1)
    BY <2>2
  <2> HIDE DEF f1
  <2>4. \A i \in 1 .. n : f1[i] = IF i = 1 THEN g[i] ELSE f1[i - 1] \o g[i]
    BY <2>3
  <2> HIDE DEF Flat, n
  <2> DEFINE Up(m) == UNION {ToSet(g[i]) : i \in 1 .. m}
             P == {m \in 0 .. n : m = 0 \/ (f1[m] \in Seq(S) /\ ToSet(f1[m]) = Up(m))}
  <2>5. 0 \in P
    BY <1>0
  <2>6. ASSUME NEW m \in 1 .. n, m - 1 \in P PROVE m \in P
    <3>0. m \in Nat \ {0}
      BY <1>0
    <3>1. CASE m = 1
      <4>1. f1[m] = g[m] /\ g[m] \in Seq(S)
        BY <3>1, <2>4, <1>0
      <4>3. Up(m) = ToSet(g[m])
        <5>1. \A x : x \in Up(m) <=> \E i \in 1 .. m : x \in ToSet(g[i])
          OBVIOUS
        <5> HIDE DEF Up
        <5>2. \A x : x \in Up(m) <=> x \in ToSet(g[m])
          BY <5>1, <3>1
        <5> QED BY <5>2
      <4>4. m \in 0 .. n
        BY <1>0
      <4> QED BY <4>1, <4>3, <4>4
    <3>2. CASE m # 1
      <4>1. f1[m] = f1[m - 1] \o g[m] /\ g[m] \in Seq(S)
        BY <3>2, <2>4, <1>0
      <4>2. m - 1 # 0
        BY <3>0, <3>2
      <4>3. f1[m - 1] \in Seq(S) /\ ToSet(f1[m - 1]) = Up(m - 1)
        BY <2>6, <4>2
      <4>4. f1[m] \in Seq(S) /\ ToSet(f1[m]) = ToSet(f1[m - 1]) \cup ToSet(g[m])
        BY <4>1, <4>3, Members
      <4>5. 1 .. m = (1 .. (m - 1)) \cup {m}
        BY <3>0
      <4>6. Up(m) = Up(m - 1) \cup ToSet(g[m])
        <5>1. \A x : x \in Up(m) <=> \E i \in 1 .. m : x \in ToSet(g[i])
          OBVIOUS
        <5>2. \A x : x \in Up(m - 1) <=> \E i \in 1 .. (m - 1) : x \in ToSet(g[i])
          OBVIOUS
        <5> HIDE DEF Up
        <5>3. \A x : x \in Up(m) <=> x \in Up(m - 1) \/ x \in ToSet(g[m])
          BY <4>5, <5>1, <5>2, Zenon
        <5> QED BY <5>3
      <4>7. m \in 0 .. n
        BY <1>0
      <4> HIDE DEF Up
      <4> QED BY <4>3, <4>4, <4>6, <4>7
    <3> QED BY <3>1, <3>2
  <2> HIDE DEF P
  <2>7. n \in P
    <3>1. \A i \in 0 .. n : i \in P
      BY <1>0, <2>5, <2>6, UpTo
    <3> QED BY <3>1, <1>0
  <2> QED BY <1>0, <1>2, <2>1, <2>7 DEF P
<1> QED BY <1>1, <1>2

\* The seeds of a chunk are its sources, each with its whole emission.
LEMMA SeedOne ==
  ASSUME BoxAssumption, blk \in [Cell -> Kinds], NEW c
  PROVE  /\ SeedAt(c) \in Seq(Entry)
         /\ ToSet(SeedAt(c)) = IF c \in Cell /\ blk[c].emit > 0
                               THEN {Item(c, blk[c].emit, Dirs, TRUE)} ELSE {}
<1>1. CASE c \in Cell /\ blk[c].emit > 0
  <2>1. blk[c].emit \in 1 .. MaxLight
    <3>1. blk[c] \in Lamp
      BY <1>1 DEF BoxAssumption
    <3> QED BY <3>1, <1>1 DEF Lamp, BoxAssumption
  <2> DEFINE l == blk[c].emit
  <2> HIDE DEF l
  <2>2. l \in 1 .. MaxLight /\ c \in Cell /\ Dirs \in SUBSET Dirs /\ TRUE \in BOOLEAN
    BY <2>1, <1>1 DEF l
  <2>3. Item(c, l, Dirs, TRUE) \in Entry
    BY <2>2 DEF Item, Entry
  <2>4. Push(c, l, Dirs, TRUE) = <<Item(c, l, Dirs, TRUE)>>
    BY DEF Push, Item
  <2>5. Push(c, l, Dirs, TRUE) \in Seq(Entry) /\ ToSet(Push(c, l, Dirs, TRUE)) = {Item(c, l, Dirs, TRUE)}
    <3> DEFINE e == Item(c, l, Dirs, TRUE)
    <3>1. e \in Entry
      BY <2>3
    <3> HIDE DEF e
    <3>2. <<e>> \in Seq(Entry) /\ ToSet(<<e>>) = {e}
      BY <3>1, Members
    <3> QED BY <3>2, <2>4 DEF e
  <2> QED BY <2>5, <1>1 DEF SeedAt, l
<1>2. CASE ~(c \in Cell /\ blk[c].emit > 0)
  <2>1. SeedAt(c) = <<>>
    BY <1>2 DEF SeedAt
  <2>2. <<>> \in Seq(Entry) /\ ToSet(<<>>) = {}
    BY Members
  <2> QED BY <2>1, <2>2, <1>2
<1> QED BY <1>1, <1>2

LEMMA SeedsExact ==
  ASSUME BoxAssumption, blk \in [Cell -> Kinds], NEW k \in Chunk
  PROVE  /\ Seeds(k) \in Seq(Entry)
         /\ \A e \in ToSet(Seeds(k)) : \E c \in Cell :
               ChunkOf(c) = k /\ blk[c].emit > 0 /\ e = Item(c, blk[c].emit, Dirs, TRUE)
         /\ \A c \in Cell : ChunkOf(c) = k /\ blk[c].emit > 0 =>
               Item(c, blk[c].emit, Dirs, TRUE) \in ToSet(Seeds(k))
<1> DEFINE at(i, y) == <<k * ChunkWidth + i - 1, y>>
           row(y) == [i \in 1 .. ChunkWidth |-> SeedAt(at(i, y))]
           all == [y \in 1 .. Height |-> SeedRow(k, y - 1)]
<1>0. ChunkWidth \in Nat \ {0} /\ Height \in Nat /\ Width \in Nat /\ k \in Int
  BY DEF BoxAssumption, Chunk, ChunkOf, Cell
<1>1. ASSUME NEW y \in Int
      PROVE  /\ SeedRow(k, y) \in Seq(Entry)
             /\ ToSet(SeedRow(k, y)) = UNION {ToSet(SeedAt(at(i, y))) : i \in 1 .. ChunkWidth}
  <2>1. row(y) \in Seq(Seq(Entry)) /\ Len(row(y)) = ChunkWidth
    <3>1. \A i \in 1 .. ChunkWidth : SeedAt(at(i, y)) \in Seq(Entry)
      BY SeedOne
    <3> HIDE DEF at
    <3> QED BY <3>1, <1>0
  <2>2. FlattenSeq(row(y)) \in Seq(Entry) /\ ToSet(FlattenSeq(row(y))) = UNION {ToSet(row(y)[i]) : i \in 1 .. Len(row(y))}
    <3> HIDE DEF row
    <3> QED BY <2>1, Flattened
  <2>3. {ToSet(row(y)[i]) : i \in 1 .. ChunkWidth} = {ToSet(SeedAt(at(i, y))) : i \in 1 .. ChunkWidth}
    <3>1. \A i \in 1 .. ChunkWidth : row(y)[i] = SeedAt(at(i, y))
      OBVIOUS
    <3> HIDE DEF row, at
    <3> QED BY <3>1, Zenon
  <2>4. SeedRow(k, y) = FlattenSeq(row(y))
    BY DEF SeedRow
  <2> HIDE DEF row, at
  <2>5. {ToSet(row(y)[i]) : i \in 1 .. Len(row(y))} = {ToSet(SeedAt(at(i, y))) : i \in 1 .. ChunkWidth}
    BY <2>1, <2>3, Zenon
  <2> QED BY <2>2, <2>4, <2>5, Zenon
<1>2. /\ Seeds(k) \in Seq(Entry)
      /\ ToSet(Seeds(k)) = UNION {ToSet(SeedRow(k, y - 1)) : y \in 1 .. Height}
  <2>1. all \in Seq(Seq(Entry)) /\ Len(all) = Height /\ \A y \in 1 .. Height : all[y] = SeedRow(k, y - 1)
    <3>1. \A y \in 1 .. Height : SeedRow(k, y - 1) \in Seq(Entry)
      BY <1>0, <1>1
    <3> QED BY <3>1, <1>0
  <2>2. Seeds(k) = FlattenSeq(all)
    BY DEF Seeds
  <2> HIDE DEF all
  <2>3. FlattenSeq(all) \in Seq(Entry) /\ ToSet(FlattenSeq(all)) = UNION {ToSet(all[y]) : y \in 1 .. Len(all)}
    BY <2>1, Flattened
  <2>4. {ToSet(all[y]) : y \in 1 .. Len(all)} = {ToSet(SeedRow(k, y - 1)) : y \in 1 .. Height}
    BY <2>1, Zenon
  <2> QED BY <2>2, <2>3, <2>4, Zenon
<1>3. ASSUME NEW e \in ToSet(Seeds(k))
      PROVE  \E c \in Cell : ChunkOf(c) = k /\ blk[c].emit > 0 /\ e = Item(c, blk[c].emit, Dirs, TRUE)
  <2>1. PICK y \in 1 .. Height : e \in ToSet(SeedRow(k, y - 1))
    BY <1>2
  <2>2. y - 1 \in Int
    BY <1>0
  <2>3. PICK i \in 1 .. ChunkWidth : e \in ToSet(SeedAt(at(i, y - 1)))
    BY <1>1, <2>1, <2>2
  <2>4. at(i, y - 1) \in Cell /\ blk[at(i, y - 1)].emit > 0 /\ e = Item(at(i, y - 1), blk[at(i, y - 1)].emit, Dirs, TRUE)
    <3> DEFINE a == at(i, y - 1)
    <3> HIDE DEF a
    <3>1. e \in IF a \in Cell /\ blk[a].emit > 0 THEN {Item(a, blk[a].emit, Dirs, TRUE)} ELSE {}
      BY <2>3, SeedOne DEF a
    <3>2. a \in Cell /\ blk[a].emit > 0 /\ e = Item(a, blk[a].emit, Dirs, TRUE)
      BY <3>1
    <3> QED BY <3>2 DEF a
  <2>5. ChunkOf(at(i, y - 1)) = k
    <3>1. (k * ChunkWidth + i - 1) \div ChunkWidth = k
      BY <1>0
    <3> QED BY <3>1 DEF ChunkOf
  <2> QED BY <2>4, <2>5
<1>4. ASSUME NEW c \in Cell, ChunkOf(c) = k, blk[c].emit > 0
      PROVE  Item(c, blk[c].emit, Dirs, TRUE) \in ToSet(Seeds(k))
  <2> DEFINE i == c[1] - k * ChunkWidth + 1
             y == c[2] + 1
  <2>1. c[1] \in 0 .. Width - 1 /\ c[2] \in 0 .. Height - 1 /\ c = <<c[1], c[2]>>
    BY DEF Cell
  <2>2. i \in 1 .. ChunkWidth
    <3>1. c[1] \div ChunkWidth = k
      BY <1>4 DEF ChunkOf
    <3> QED BY <3>1, <2>1, <1>0
  <2>3. y \in 1 .. Height /\ y - 1 = c[2] /\ y - 1 \in Int
    BY <2>1, <1>0
  <2>4. at(i, y - 1) = c
    <3>1. k * ChunkWidth + i - 1 = c[1]
      BY <2>1, <1>0
    <3> QED BY <3>1, <2>1, <2>3
  <2> HIDE DEF i, y
  <2>5. Item(c, blk[c].emit, Dirs, TRUE) \in ToSet(SeedAt(at(i, y - 1)))
    BY <2>4, <1>4, SeedOne
  <2> HIDE DEF at
  <2>6. Item(c, blk[c].emit, Dirs, TRUE) \in ToSet(SeedRow(k, y - 1))
    BY <2>5, <2>2, <2>3, <1>1
  <2> QED BY <2>6, <2>3, <1>2
<1> QED BY <1>2, <1>3, <1>4

-----------------------------------------------------------------------------
(* The steps that start from empty queues.                                 *)

\* A write that changes what a block does to light leaves a check behind; any
\* other write changes nothing.
LEMMA WriteSound ==
  ASSUME BoxAssumption, FacesTell, NEW b \in [Cell -> Kinds], NEW s,
         NEW L, NEW C, Sound(b, s, L, C, {}, {}),
         NEW c \in Cell, NEW k \in Kinds,
         NEW b2, b2 = [b EXCEPT ![c] = k],
         NEW C2, C2 = IF LightPropsDiffer(b[c], k) THEN C \cup {c} ELSE C
  PROVE  Sound(b2, s, L, C2, {}, {})
<1>0. L \in Levels /\ C \subseteq Cell /\ b2 \in [Cell -> Kinds]
  BY DEF Sound
<1>1. b2[c] = k /\ \A x \in Cell : x # c => b2[x] = b[x]
  OBVIOUS
<1>2. /\ C2 \subseteq Cell /\ {} \subseteq Entry
      /\ Emissions(b2, s, {}) /\ Cleared(L, {})
  BY <1>0 DEF Emissions, Cleared
<1>3. CASE ~LightPropsDiffer(b[c], k)
  <2>1. \A x \in Cell : b2[x].damp = b[x].damp /\ b2[x].emit = b[x].emit /\ b2[x].faces = b[x].faces
    <3>1. b[c] \in Kinds
      OBVIOUS
    <3>2. k.damp = b[c].damp /\ k.emit = b[c].emit
      BY <1>3 DEF LightPropsDiffer
    <3>3. b[c].faces = k.faces
      BY <1>3, <3>1 DEF FacesTell
    <3> QED BY <1>1, <3>2, <3>3
  <2>2. \A x \in Cell : EmitOf(b2, s, x) = EmitOf(b, s, x) /\ Loss(b2, x) = Loss(b, x)
    BY <2>1 DEF EmitOf, Loss
  <2>3. \A x \in Cell, d \in Dirs : Step(x, d) \in Cell => (Occludes(b2, x, d) <=> Occludes(b, x, d))
    BY <2>1 DEF Occludes
  <2>4. \A x \in Cell : Potential(b2, s, L, x) = Potential(b, s, L, x)
    BY <2>2 DEF Potential
  <2>5. C2 = C
    BY <1>3
  <2>6. Justified(b2, s, L, C, {})
    <3> SUFFICES ASSUME NEW x \in Cell \ C
                 PROVE  \/ L[x] <= EmitOf(b2, s, x)
                        \/ FromNeighbour(b2, s, L, C, x)
                        \/ FromChanged(b2, L, C, x)
                        \/ Threatened(L, {}, x)
      BY Zenon DEF Justified
    <3>1. FromNeighbour(b, s, L, C, x) => FromNeighbour(b2, s, L, C, x)
      <4> SUFFICES ASSUME FromNeighbour(b, s, L, C, x) PROVE FromNeighbour(b2, s, L, C, x)
        OBVIOUS
      <4>1. PICK d \in Dirs : /\ Step(x, d) \in Cell \ C
                              /\ ~Occludes(b, x, d)
                              /\ L[x] <= Potential(b, s, L, Step(x, d)) - Loss(b, x)
        BY DEF FromNeighbour
      <4>2. ~Occludes(b2, x, d)
        BY <4>1, <2>3
      <4>3. L[x] <= Potential(b2, s, L, Step(x, d)) - Loss(b2, x)
        BY <4>1, <2>2, <2>4
      <4> QED BY <4>1, <4>2, <4>3 DEF FromNeighbour
    <3>2. FromChanged(b, L, C, x) => FromChanged(b2, L, C, x)
      <4> SUFFICES ASSUME FromChanged(b, L, C, x) PROVE FromChanged(b2, L, C, x)
        OBVIOUS
      <4>1. PICK d \in Dirs : /\ Step(x, d) \in Cell \cap C
                              /\ b[x].faces[d] # Faces
                              /\ L[x] <= L[Step(x, d)] - Loss(b, x)
        BY DEF FromChanged
      <4>2. b2[x].faces[d] # Faces
        BY <4>1, <2>1
      <4>3. L[x] <= L[Step(x, d)] - Loss(b2, x)
        BY <4>1, <2>2
      <4> QED BY <4>1, <4>2, <4>3 DEF FromChanged
    <3>3. EmitOf(b2, s, x) = EmitOf(b, s, x)
      BY <2>2
    <3>4. \/ L[x] <= EmitOf(b, s, x)
          \/ FromNeighbour(b, s, L, C, x)
          \/ FromChanged(b, L, C, x)
          \/ Threatened(L, {}, x)
      BY Zenon DEF Sound, Justified
    <3> QED BY <3>1, <3>2, <3>3, <3>4
  <2>7. Passed(b2, s, L, C, {}, {})
    <3> SUFFICES ASSUME NEW n \in Cell \ C, NEW d \in Dirs, Step(n, d) \in Cell \ C
                 PROVE  Satisfied(b2, s, L, n, d) \/ Owed(L, {}, n, d) \/ Pulled({}, n, d)
      BY Zenon DEF Passed
    <3>1. Satisfied(b, s, L, n, d) \/ Owed(L, {}, n, d) \/ Pulled({}, n, d)
      BY Zenon DEF Sound, Passed
    <3>2. Satisfied(b, s, L, n, d) => Satisfied(b2, s, L, n, d)
      BY <2>2, <2>3, <2>4 DEF Satisfied
    <3> QED BY <3>1, <3>2
  <2>8. SourcesShine(b2, s, L, C, {})
    BY <2>2 DEF Sound, SourcesShine
  <2> QED BY <1>0, <1>2, <2>5, <2>6, <2>7, <2>8 DEF Sound
<1>4. CASE LightPropsDiffer(b[c], k)
  <2>1. C2 = C \cup {c}
    BY <1>4
  <2>2. \A x \in Cell \ C2 : x # c /\ x \in Cell \ C /\ b2[x] = b[x]
    BY <1>1, <2>1
  <2>3. \A x \in Cell \ C2 : /\ EmitOf(b2, s, x) = EmitOf(b, s, x) /\ Loss(b2, x) = Loss(b, x)
                             /\ Potential(b2, s, L, x) = Potential(b, s, L, x)
    BY <2>2 DEF EmitOf, Loss, Potential
  <2>4. \A x \in Cell \ C2, d \in Dirs : Step(x, d) \in Cell \ C2 => (Occludes(b2, x, d) <=> Occludes(b, x, d))
    BY <2>2 DEF Occludes
  <2>5. \A x \in Cell \ C : EmitOf(b, s, x) <= L[x]
    BY DEF Sound, SourcesShine
  <2>6. Justified(b2, s, L, C2, {})
    <3> SUFFICES ASSUME NEW x \in Cell \ C2
                 PROVE  \/ L[x] <= EmitOf(b2, s, x)
                        \/ FromNeighbour(b2, s, L, C2, x)
                        \/ FromChanged(b2, L, C2, x)
                        \/ Threatened(L, {}, x)
      BY Zenon DEF Justified
    <3>0. x \in Cell \ C
      BY <2>2
    <3>1. ASSUME FromNeighbour(b, s, L, C, x)
          PROVE  FromNeighbour(b2, s, L, C2, x) \/ FromChanged(b2, L, C2, x)
      <4>1. PICK d \in Dirs : /\ Step(x, d) \in Cell \ C
                              /\ ~Occludes(b, x, d)
                              /\ L[x] <= Potential(b, s, L, Step(x, d)) - Loss(b, x)
        BY <3>1 DEF FromNeighbour
      <4>2. CASE Step(x, d) = c
        <5>1. Step(x, d) \in Cell \cap C2
          BY <4>2, <2>1
        <5>2. b2[x].faces[d] # Faces
          <6>1. b[x] \in Lamp /\ b[Step(x, d)] \in Lamp
            BY <4>1 DEF BoxAssumption
          <6>2. b[Step(x, d)].faces[Opp[d]] \subseteq Faces
            <7>1. Opp[d] \in Dirs
              BY <3>0, Geometry
            <7> QED BY <6>1, <7>1 DEF Lamp
          <6>3. b[x].faces[d] # Faces
            BY <4>1, <6>2 DEF Occludes
          <6> QED BY <6>3, <2>2
        <5>3. L[x] <= L[Step(x, d)] - Loss(b2, x)
          <6>1. EmitOf(b, s, c) <= L[c]
            BY <4>1, <4>2, <2>5
          <6>2. Potential(b, s, L, c) = L[c]
            BY <6>1 DEF Potential, Larger
          <6> QED BY <6>2, <4>1, <4>2, <2>3
        <5> QED BY <5>1, <5>2, <5>3 DEF FromChanged
      <4>3. CASE Step(x, d) # c
        <5>1. Step(x, d) \in Cell \ C2
          BY <4>1, <4>3, <2>1
        <5>2. ~Occludes(b2, x, d)
          BY <4>1, <5>1, <2>4
        <5>3. L[x] <= Potential(b2, s, L, Step(x, d)) - Loss(b2, x)
          BY <4>1, <5>1, <2>3
        <5> QED BY <5>1, <5>2, <5>3 DEF FromNeighbour
      <4> QED BY <4>2, <4>3
    <3>2. ASSUME FromChanged(b, L, C, x)
          PROVE  FromChanged(b2, L, C2, x)
      <4>1. PICK d \in Dirs : /\ Step(x, d) \in Cell \cap C
                              /\ b[x].faces[d] # Faces
                              /\ L[x] <= L[Step(x, d)] - Loss(b, x)
        BY <3>2 DEF FromChanged
      <4>2. b2[x].faces[d] # Faces
        BY <4>1, <2>2
      <4>3. L[x] <= L[Step(x, d)] - Loss(b2, x)
        BY <4>1, <2>3
      <4>4. Step(x, d) \in Cell \cap C2
        BY <4>1, <2>1
      <4> QED BY <4>2, <4>3, <4>4 DEF FromChanged
    <3>3. EmitOf(b2, s, x) = EmitOf(b, s, x)
      BY <2>3
    <3>4. \/ L[x] <= EmitOf(b, s, x)
          \/ FromNeighbour(b, s, L, C, x)
          \/ FromChanged(b, L, C, x)
          \/ Threatened(L, {}, x)
      BY <3>0, Zenon DEF Sound, Justified
    <3> QED BY <3>1, <3>2, <3>3, <3>4
  <2>7. Passed(b2, s, L, C2, {}, {})
    <3> SUFFICES ASSUME NEW n \in Cell \ C2, NEW d \in Dirs, Step(n, d) \in Cell \ C2
                 PROVE  Satisfied(b2, s, L, n, d) \/ Owed(L, {}, n, d) \/ Pulled({}, n, d)
      BY Zenon DEF Passed
    <3>0. n \in Cell \ C /\ Step(n, d) \in Cell \ C
      BY <2>2
    <3>1. Satisfied(b, s, L, n, d) \/ Owed(L, {}, n, d) \/ Pulled({}, n, d)
      BY <3>0, Zenon DEF Sound, Passed
    <3>2. Satisfied(b, s, L, n, d) => Satisfied(b2, s, L, n, d)
      BY <2>3, <2>4 DEF Satisfied
    <3> QED BY <3>1, <3>2
  <2>8. SourcesShine(b2, s, L, C2, {})
    BY <2>2, <2>3, <2>5 DEF SourcesShine
  <2> QED BY <1>0, <1>2, <2>6, <2>7, <2>8 DEF Sound
<1> QED BY <1>3, <1>4

\* Enabling the sources of a chunk, each of them called.
LEMMA SeedSound ==
  ASSUME BoxAssumption, NEW b \in [Cell -> Kinds], NEW s, NEW k, k \notin s,
         NEW L, Sound(b, s, L, {}, {}, {}),
         NEW I \in SUBSET Entry,
         \A e \in I : \E c \in Cell :
            ChunkOf(c) = k /\ b[c].emit > 0 /\ e = Item(c, b[c].emit, Dirs, TRUE),
         \A c \in Cell : ChunkOf(c) = k /\ b[c].emit > 0 => Item(c, b[c].emit, Dirs, TRUE) \in I
  PROVE  Sound(b, s \cup {k}, L, {}, {}, I)
<1> DEFINE s2 == s \cup {k}
<1>0. L \in Levels
  BY DEF Sound
<1>1. \A x \in Cell : EmitOf(b, s2, x) = IF ChunkOf(x) = k THEN b[x].emit ELSE EmitOf(b, s, x)
  BY DEF EmitOf
<1>2. \A x \in Cell : ChunkOf(x) = k => EmitOf(b, s, x) = 0
  BY DEF EmitOf
<1>3. \A x \in Cell : b[x].emit \in 0 .. MaxLight
  <2> TAKE x \in Cell
  <2>1. b[x] \in Lamp
    BY DEF BoxAssumption
  <2> QED BY <2>1 DEF Lamp
<1>4. \A x \in Cell : /\ EmitOf(b, s, x) \in 0 .. MaxLight /\ EmitOf(b, s2, x) \in 0 .. MaxLight
                      /\ EmitOf(b, s, x) <= EmitOf(b, s2, x)
                      /\ L[x] \in 0 .. MaxLight /\ Loss(b, x) \in Nat
  <2> TAKE x \in Cell
  <2>1. EmitOf(b, s, x) \in 0 .. MaxLight /\ L[x] \in 0 .. MaxLight /\ Loss(b, x) \in Nat
    BY <1>0, LevelFacts
  <2>2. EmitOf(b, s2, x) \in 0 .. MaxLight
    BY <2>1, <1>1, <1>3
  <2>3. EmitOf(b, s, x) <= EmitOf(b, s2, x)
    BY <2>1, <1>1, <1>2, <1>3
  <2> QED BY <2>1, <2>2, <2>3
<1> HIDE DEF s2
<1>5. \A x \in Cell : /\ Potential(b, s, L, x) \in 0 .. MaxLight /\ Potential(b, s2, L, x) \in 0 .. MaxLight
                      /\ Potential(b, s, L, x) <= Potential(b, s2, L, x)
  BY <1>4 DEF Potential, Larger
<1>6. Justified(b, s2, L, {}, {})
  <2> SUFFICES ASSUME NEW x \in Cell \ {}
               PROVE  \/ L[x] <= EmitOf(b, s2, x)
                      \/ FromNeighbour(b, s2, L, {}, x)
                      \/ FromChanged(b, L, {}, x)
                      \/ Threatened(L, {}, x)
    BY Zenon DEF Justified
  <2>1. L[x] <= EmitOf(b, s, x) => L[x] <= EmitOf(b, s2, x)
    BY <1>4
  <2>2. ASSUME FromNeighbour(b, s, L, {}, x)
        PROVE  FromNeighbour(b, s2, L, {}, x)
    <3>1. PICK d \in Dirs : /\ Step(x, d) \in Cell \ {}
                            /\ ~Occludes(b, x, d)
                            /\ L[x] <= Potential(b, s, L, Step(x, d)) - Loss(b, x)
      BY <2>2 DEF FromNeighbour
    <3>2. L[x] <= Potential(b, s2, L, Step(x, d)) - Loss(b, x)
      <4> DEFINE p == Potential(b, s, L, Step(x, d))
                 p2 == Potential(b, s2, L, Step(x, d))
      <4>1. p \in 0 .. MaxLight /\ p2 \in 0 .. MaxLight /\ p <= p2
        BY <3>1, <1>5
      <4>2. L[x] \in 0 .. MaxLight /\ Loss(b, x) \in Nat /\ L[x] <= p - Loss(b, x)
        BY <3>1, <1>4
      <4> HIDE DEF p, p2
      <4>3. L[x] <= p2 - Loss(b, x)
        BY <4>1, <4>2
      <4> QED BY <4>3 DEF p2
    <3> QED BY <3>1, <3>2 DEF FromNeighbour
  <2>3. \/ L[x] <= EmitOf(b, s, x)
        \/ FromNeighbour(b, s, L, {}, x)
        \/ FromChanged(b, L, {}, x)
        \/ Threatened(L, {}, x)
    BY Zenon DEF Sound, Justified
  <2> QED BY <2>1, <2>2, <2>3
<1>7. Passed(b, s2, L, {}, {}, I)
  <2> SUFFICES ASSUME NEW n \in Cell \ {}, NEW d \in Dirs, Step(n, d) \in Cell \ {}
               PROVE  Satisfied(b, s2, L, n, d) \/ Owed(L, I, n, d) \/ Pulled({}, n, d)
    BY Zenon DEF Passed
  <2>1. Satisfied(b, s, L, n, d) \/ Owed(L, {}, n, d) \/ Pulled({}, n, d)
    BY Zenon DEF Sound, Passed
  <2>2. ~Owed(L, {}, n, d) /\ ~Pulled({}, n, d)
    BY DEF Owed, Pulled
  <2>3. Satisfied(b, s2, L, n, d)
    <3> DEFINE p == Potential(b, s, L, Step(n, d))
               p2 == Potential(b, s2, L, Step(n, d))
    <3>1. p \in 0 .. MaxLight /\ p2 \in 0 .. MaxLight /\ p <= p2
      BY <1>5
    <3>2. Occludes(b, n, d) \/ L[n] - Loss(b, Step(n, d)) <= p
      BY <2>1, <2>2 DEF Satisfied
    <3>3. L[n] \in 0 .. MaxLight /\ Loss(b, Step(n, d)) \in Nat
      BY <1>4
    <3> HIDE DEF p, p2
    <3>4. Occludes(b, n, d) \/ L[n] - Loss(b, Step(n, d)) <= p2
      BY <3>1, <3>2, <3>3
    <3> QED BY <3>4 DEF Satisfied, p2
  <2> QED BY <2>3
<1>8. SourcesShine(b, s2, L, {}, I)
  <2> SUFFICES ASSUME NEW x \in Cell
               PROVE  \/ EmitOf(b, s2, x) <= L[x]
                      \/ \E e \in I : e.em /\ e.at = x /\ e.level = EmitOf(b, s2, x)
    BY DEF SourcesShine
  <2>1. CASE ChunkOf(x) = k /\ b[x].emit > 0
    <3> DEFINE e == Item(x, b[x].emit, Dirs, TRUE)
    <3>1. e \in I
      BY <2>1
    <3>2. e.em /\ e.at = x /\ e.level = EmitOf(b, s2, x)
      BY <2>1, <1>1 DEF Item
    <3> QED BY <3>1, <3>2
  <2>2. CASE ChunkOf(x) = k /\ ~(b[x].emit > 0)
    <3>1. EmitOf(b, s2, x) = 0
      BY <2>2, <1>1, <1>3
    <3> QED BY <3>1, <1>4
  <2>3. CASE ChunkOf(x) # k
    <3>1. EmitOf(b, s2, x) = EmitOf(b, s, x)
      BY <2>3, <1>1
    <3>2. EmitOf(b, s, x) <= L[x]
      BY DEF Sound, SourcesShine
    <3> QED BY <3>1, <3>2
  <2> QED BY <2>1, <2>2, <2>3
<1>9. Emissions(b, s2, I)
  <2> SUFFICES ASSUME NEW e \in I
               PROVE  e.dirs = Dirs /\ e.level = EmitOf(b, s2, e.at)
    BY DEF Emissions
  <2>1. PICK c \in Cell : ChunkOf(c) = k /\ b[c].emit > 0 /\ e = Item(c, b[c].emit, Dirs, TRUE)
    OBVIOUS
  <2>2. e.dirs = Dirs /\ e.level = b[c].emit /\ e.at = c
    BY <2>1 DEF Item
  <2> QED BY <2>1, <2>2, <1>1
<1>10. {} \subseteq Cell /\ {} \subseteq Entry /\ Cleared(L, {})
  BY DEF Cleared
<1>11. Sound(b, s2, L, {}, {}, I)
  BY <1>0, <1>6, <1>7, <1>8, <1>9, <1>10 DEF Sound
<1> QED BY <1>11 DEF s2

\* What a check pushes.
LEMMA AllAround ==
  ASSUME NEW q \in Seq(Entry), NEW c \in Cell, NEW l \in 1 .. MaxLight, NEW m \in BOOLEAN
  PROVE  /\ Item(c, l, Dirs, m) \in Entry
         /\ q \o Push(c, l, Dirs, m) \in Seq(Entry)
         /\ ToSet(q \o Push(c, l, Dirs, m)) = ToSet(q) \cup {Item(c, l, Dirs, m)}
<1> DEFINE e == Item(c, l, Dirs, m)
           t == <<e>>
<1>1. e \in Entry
  BY DEF Entry, Item
<1>2. Push(c, l, Dirs, m) = t
  BY DEF Push, Item
<1> HIDE DEF e
<1>3. t \in Seq(Entry) /\ ToSet(t) = {e}
  BY <1>1, Members
<1> HIDE DEF t
<1>4. q \o t \in Seq(Entry) /\ ToSet(q \o t) = ToSet(q) \cup ToSet(t)
  BY <1>3, Members
<1> QED BY <1>1, <1>2, <1>3, <1>4 DEF e

\* One check: the cell is cleared or asks its neighbours, its source is called,
\* and the check is no longer pending.
LEMMA CheckSound ==
  ASSUME BoxAssumption, SourcesOpen, blk \in [Cell -> Kinds],
         NEW L, NEW C, NEW p \in Seq(Entry), NEW q \in Seq(Entry),
         Sound(blk, seeded, L, C, ToSet(p), ToSet(q)),
         NEW c \in C, NEW C2, C2 \subseteq C, C \subseteq C2 \cup {c},
         NEW r, r = CheckNode(L, c)
  PROVE  /\ r.light \in Levels
         /\ p \o r.dec \in Seq(Entry) /\ q \o r.inc \in Seq(Entry)
         /\ Sound(blk, seeded, r.light, C2, ToSet(p \o r.dec), ToSet(q \o r.inc))
<1> DEFINE em == EmitOf(blk, seeded, c)
           D == ToSet(p)
           I == ToSet(q)
           call == Item(c, em, Dirs, TRUE)
           I2 == I \cup (IF em > 0 THEN {call} ELSE {})
<1>0. L \in Levels /\ C \subseteq Cell /\ c \in Cell /\ D \subseteq Entry /\ I \subseteq Entry
  BY DEF Sound
<1>1. em \in 0 .. MaxLight /\ L[c] \in 0 .. MaxLight
  BY <1>0, LevelFacts
<1>2. /\ r.light = IF em < L[c] THEN [L EXCEPT ![c] = 0] ELSE L
      /\ r.dec = Push(c, IF em < L[c] THEN L[c] ELSE 1, Dirs, FALSE)
      /\ r.inc = IF em > 0 THEN Push(c, em, Dirs, TRUE) ELSE <<>>
  BY DEF CheckNode
<1>3. q \o r.inc \in Seq(Entry) /\ ToSet(q \o r.inc) = I2
  <2>1. CASE em > 0
    <3>1. c \in Cell /\ em \in 1 .. MaxLight /\ TRUE \in BOOLEAN /\ q \in Seq(Entry)
      BY <2>1, <1>0, <1>1
    <3> HIDE DEF em
    <3>2. q \o Push(c, em, Dirs, TRUE) \in Seq(Entry) /\ ToSet(q \o Push(c, em, Dirs, TRUE)) = ToSet(q) \cup {call}
      BY <3>1, AllAround, Zenon
    <3> QED BY <2>1, <3>2, <1>2
  <2>2. CASE ~(em > 0)
    <3>1. q \o <<>> \in Seq(Entry) /\ ToSet(q \o <<>>) = ToSet(q)
      BY NotPushed
    <3> QED BY <2>2, <3>1, <1>2
  <2> QED BY <2>1, <2>2
<1>6. EmitOf(blk, seeded, c) > 0 =>
         \E e \in I2 : e.em /\ e.at = c /\ e.dirs = Dirs /\ e.level = EmitOf(blk, seeded, c)
  <2> SUFFICES ASSUME em > 0
               PROVE  \E e \in I2 : e.em /\ e.at = c /\ e.dirs = Dirs /\ e.level = em
    OBVIOUS
  <2>1. call \in I2 /\ call.em /\ call.at = c /\ call.dirs = Dirs /\ call.level = em
    BY DEF Item
  <2> HIDE DEF call, I2
  <2> QED BY <2>1
<1> HIDE DEF em
<1>4. CASE em < L[c]
  <2> DEFINE l == L[c]
             told == Item(c, l, Dirs, FALSE)
             L2 == [L EXCEPT ![c] = 0]
  <2>1. c \in Cell /\ l \in 1 .. MaxLight /\ FALSE \in BOOLEAN /\ p \in Seq(Entry)
    BY <1>0, <1>1, <1>4
  <2>2. r.light = L2 /\ r.dec = Push(c, l, Dirs, FALSE)
    BY <1>2, <1>4
  <2>3. p \o Push(c, l, Dirs, FALSE) \in Seq(Entry) /\ ToSet(p \o Push(c, l, Dirs, FALSE)) = D \cup {told}
    <3> HIDE DEF l
    <3> QED BY <2>1, AllAround, Zenon
  <2>4. Sound(blk, seeded, L2, C, D \cup {told}, I2)
    <3>1. L[c] > 0 /\ (c \in C => EmitOf(blk, seeded, c) < L[c])
      BY <1>1, <1>4 DEF em
    <3>2. Dirs \in SUBSET Dirs /\ \A d \in Dirs : Step(c, d) \in Cell /\ L[Step(c, d)] > 0 => d \in Dirs
      OBVIOUS
    <3>3. Sound(blk, seeded, [L EXCEPT ![c] = 0], C,
               D \cup (IF EmitOf(blk, seeded, c) < L[c]
                       THEN {Item(c, L[c], Dirs, FALSE)} ELSE {}),
               I \cup (IF EmitOf(blk, seeded, c) > 0
                       THEN {Item(c, EmitOf(blk, seeded, c), Dirs, TRUE)} ELSE {}))
      <4> HIDE DEF D, I
      <4>1. Sound(blk, seeded, L, C, D, I)
        BY DEF D, I
      <4> QED BY <4>1, <3>1, <3>2, <1>0, ClearSound
    <3> QED BY <3>3, <1>4 DEF em
  <2>5. L2[c] <= EmitOf(blk, seeded, c) /\ L2 \in Levels
    <3>1. L2[c] = 0 /\ L2 \in Levels
      BY <1>0 DEF Levels, BoxAssumption
    <3> QED BY <3>1, <1>1 DEF em
  <2>6. \E e \in D \cup {told} : e.at = c /\ e.dirs = Dirs
    <3>1. told \in D \cup {told} /\ told.at = c /\ told.dirs = Dirs
      BY DEF Item
    <3> HIDE DEF told, D
    <3> QED BY <3>1
  <2>7. EmitOf(blk, seeded, c) > 0 =>
           \E e \in I2 : e.em /\ e.at = c /\ e.dirs = Dirs /\ e.level = EmitOf(blk, seeded, c)
    BY <1>6
  <2>8. Sound(blk, seeded, L2, C2, D \cup {told}, I2)
    <3> HIDE DEF L2, I2, told, D
    <3> QED BY <2>4, <2>5, <2>6, <2>7, <1>0, UncheckSound
  <2> QED BY <2>2, <2>3, <2>5, <2>8, <1>3
<1>5. CASE ~(em < L[c])
  <2> DEFINE told == Item(c, 1, Dirs, FALSE)
  <2>1. c \in Cell /\ 1 \in 1 .. MaxLight /\ FALSE \in BOOLEAN /\ p \in Seq(Entry)
    BY <1>0 DEF BoxAssumption
  <2>2. r.light = L /\ r.dec = Push(c, 1, Dirs, FALSE)
    BY <1>2, <1>5
  <2>3. told \in Entry /\ p \o Push(c, 1, Dirs, FALSE) \in Seq(Entry) /\ ToSet(p \o Push(c, 1, Dirs, FALSE)) = D \cup {told}
    BY <2>1, AllAround, Zenon
  <2>4. Sound(blk, seeded, L, C, D \cup {told}, I)
    <3>1. Cleared(L, D \cup {told})
      BY DEF Sound, Cleared, Item
    <3>2. D \cup {told} \in SUBSET Entry /\ D \subseteq D \cup {told}
      BY <2>3, <1>0
    <3> HIDE DEF told
    <3> QED BY <3>1, <3>2, MoreDecreases
  <2>5. Sound(blk, seeded, L, C, D \cup {told}, I2)
    <3>1. em > 0 => call \in Entry
      <4>1. CASE em > 0
        <5>1. em \in 1 .. MaxLight
          BY <4>1, <1>1
        <5> QED BY <5>1, <1>0 DEF Item, Entry
      <4> QED BY <4>1
    <3>2. I2 \in SUBSET Entry /\ I \subseteq I2
      BY <3>1, <1>0
    <3>3. Emissions(blk, seeded, I2)
      BY DEF Sound, Emissions, Item, em
    <3> HIDE DEF I2, told
    <3> QED BY <2>4, <3>2, <3>3, MoreIncreases
  <2>6. L[c] <= EmitOf(blk, seeded, c)
    BY <1>1, <1>5 DEF em
  <2>7. \E e \in D \cup {told} : e.at = c /\ e.dirs = Dirs
    <3>1. told \in D \cup {told} /\ told.at = c /\ told.dirs = Dirs
      BY DEF Item
    <3> HIDE DEF told, D
    <3> QED BY <3>1
  <2>8. EmitOf(blk, seeded, c) > 0 =>
           \E e \in I2 : e.em /\ e.at = c /\ e.dirs = Dirs /\ e.level = EmitOf(blk, seeded, c)
    BY <1>6
  <2>9. Sound(blk, seeded, L, C2, D \cup {told}, I2)
    <3> HIDE DEF I2, told, D
    <3> QED BY <2>5, <2>6, <2>7, <2>8, <1>0, UncheckSound
  <2> QED BY <2>2, <2>3, <2>9, <1>0, <1>3
<1> QED BY <1>4, <1>5

-----------------------------------------------------------------------------
(* The invariant.                                                          *)

LEMMA InitIInv == ASSUME BoxAssumption, Init PROVE IInv
<1>1. blk \in [Cell -> Kinds] /\ light \in Levels /\ \A c \in Cell : light[c] = 0
  BY DEF Init, BoxAssumption, Levels
<1>2. ToSet(check) = {} /\ ToSet(dec) = {} /\ ToSet(inc) = {}
  BY Members DEF Init
<1>3. \A c \in Cell : EmitOf(blk, seeded, c) = 0
  BY DEF Init, EmitOf
<1>4. Justified(blk, seeded, light, {}, {})
  BY <1>1, <1>3 DEF Justified
<1>5. Passed(blk, seeded, light, {}, {}, {})
  BY <1>1, DarkIsSatisfied DEF Passed
<1>6. SourcesShine(blk, seeded, light, {}, {})
  BY <1>1, <1>3 DEF SourcesShine
<1>7. Sound(blk, seeded, light, {}, {}, {})
  BY <1>1, <1>4, <1>5, <1>6 DEF Sound, Emissions, Cleared
<1>8. TypeOK
  <2>1. check \in Seq(Cell) /\ dec \in Seq(Entry) /\ inc \in Seq(Entry)
    BY DEF Init
  <2>2. 0 \in 0 .. MaxWrites
    BY DEF BoxAssumption
  <2> QED BY <1>1, <2>1, <2>2 DEF Init, TypeOK, Levels
<1> QED BY <1>2, <1>7, <1>8 DEF IInv, Drained, Init

\* One lemma for each action; the queues become sets of entries here.
LEMMA WriteStep ==
  ASSUME BoxAssumption, FacesTell, IInv, NEW c \in Cell, NEW k \in Kinds, Write(c, k)
  PROVE  IInv'
<1>0. /\ blk \in [Cell -> Kinds] /\ check \in Seq(Cell)
      /\ dec = <<>> /\ inc = <<>> /\ phase = "idle"
  BY DEF IInv, TypeOK, Write
<1>1. ToSet(dec) = {} /\ ToSet(inc) = {}
  BY <1>0, Members
<1>2. blk' = [blk EXCEPT ![c] = k]
  BY DEF Write
<1>3. /\ check' \in Seq(Cell)
      /\ ToSet(check') = IF LightPropsDiffer(blk[c], k) THEN ToSet(check) \cup {c} ELSE ToSet(check)
  <2>1. check \o <<c>> \in Seq(Cell) /\ ToSet(check \o <<c>>) = ToSet(check) \cup {c}
    <3> DEFINE t == <<c>>
    <3>1. t \in Seq(Cell) /\ ToSet(t) = {c}
      BY Members
    <3> HIDE DEF t
    <3>2. check \o t \in Seq(Cell) /\ ToSet(check \o t) = ToSet(check) \cup ToSet(t)
      BY <1>0, <3>1, Members
    <3> QED BY <3>1, <3>2 DEF t
  <2>2. Append(check, c) = check \o <<c>>
    BY <1>0, AppendIsConcat
  <2> QED BY <2>1, <2>2, <1>0 DEF Write
<1>4. Sound(blk, seeded, light, ToSet(check), {}, {})
  BY <1>1 DEF IInv
<1>5. Sound(blk', seeded, light, ToSet(check'), {}, {})
  BY <1>0, <1>2, <1>3, <1>4, WriteSound
<1>6. TypeOK'
  <2>1. blk' \in [Cell -> Kinds]
    BY <1>0, <1>2
  <2>2. writes' \in 0 .. MaxWrites
    BY DEF IInv, TypeOK, Write, BoxAssumption
  <2> QED BY <1>0, <1>3, <2>1, <2>2 DEF IInv, TypeOK, Write
<1>7. Drained'
  BY <1>0 DEF Drained, Write
<1>8. UNCHANGED <<seeded, light, dec, inc>>
  BY DEF Write
<1> QED BY <1>1, <1>5, <1>6, <1>7, <1>8 DEF IInv

LEMMA SeedStep ==
  ASSUME BoxAssumption, IInv, NEW k \in Chunk, Seed(k)
  PROVE  IInv'
<1>0. /\ blk \in [Cell -> Kinds] /\ k \notin seeded /\ seeded' = seeded \cup {k}
      /\ check = <<>> /\ dec = <<>> /\ inc = <<>> /\ inc' = Seeds(k) /\ phase' = "inc"
      /\ UNCHANGED <<blk, light, check, dec, writes>>
  BY DEF IInv, TypeOK, Seed
<1>1. ToSet(check) = {} /\ ToSet(dec) = {} /\ ToSet(inc) = {}
  BY <1>0, Members
<1>2. Sound(blk, seeded, light, {}, {}, {})
  BY <1>1 DEF IInv
<1>3. inc' \in Seq(Entry) /\ ToSet(inc') \in SUBSET Entry
  BY <1>0, SeedsExact, Members
<1>4. /\ \A e \in ToSet(inc') : \E c \in Cell :
            ChunkOf(c) = k /\ blk[c].emit > 0 /\ e = Item(c, blk[c].emit, Dirs, TRUE)
      /\ \A c \in Cell : ChunkOf(c) = k /\ blk[c].emit > 0 =>
            Item(c, blk[c].emit, Dirs, TRUE) \in ToSet(inc')
  BY <1>0, SeedsExact
<1>5. Sound(blk, seeded \cup {k}, light, {}, {}, ToSet(inc'))
  BY <1>0, <1>2, <1>3, <1>4, SeedSound
<1>6. TypeOK'
  BY <1>0, <1>3 DEF IInv, TypeOK
<1>7. Drained'
  BY <1>0 DEF Drained
<1> QED BY <1>0, <1>1, <1>5, <1>6, <1>7 DEF IInv

LEMMA FlushStep == ASSUME IInv, Flush PROVE IInv'
<1>1. TypeOK' /\ Drained'
  BY DEF IInv, TypeOK, Drained, Flush
<1>2. UNCHANGED <<blk, seeded, light, check, dec, inc>>
  BY DEF Flush
<1> QED BY <1>1, <1>2 DEF IInv

LEMMA CheckStep ==
  ASSUME BoxAssumption, SourcesOpen, IInv, CheckNext
  PROVE  IInv'
<1> DEFINE c == Head(check)
           r == CheckNode(light, c)
<1>0. /\ blk \in [Cell -> Kinds] /\ light \in Levels /\ check \in Seq(Cell) /\ check # <<>>
      /\ dec \in Seq(Entry) /\ inc \in Seq(Entry) /\ phase = "check"
      /\ light' = r.light /\ dec' = dec \o r.dec /\ inc' = inc \o r.inc /\ check' = Tail(check)
      /\ UNCHANGED <<blk, seeded, writes>>
  BY DEF IInv, TypeOK, CheckNext, Levels
<1>1. /\ Tail(check) \in Seq(Cell)
      /\ ToSet(check) = {c} \cup ToSet(Tail(check))
  BY <1>0, Members
<1> HIDE DEF c, r
<1>2. c \in ToSet(check) /\ ToSet(Tail(check)) \subseteq ToSet(check) /\ ToSet(check) \subseteq ToSet(Tail(check)) \cup {c}
  BY <1>1
<1>3. Sound(blk, seeded, light, ToSet(check), ToSet(dec), ToSet(inc))
  BY DEF IInv
<1>4. r = CheckNode(light, c)
  BY DEF r
<1>5. /\ r.light \in Levels
      /\ dec \o r.dec \in Seq(Entry) /\ inc \o r.inc \in Seq(Entry)
      /\ Sound(blk, seeded, r.light, ToSet(Tail(check)), ToSet(dec \o r.dec), ToSet(inc \o r.inc))
  BY <1>0, <1>2, <1>3, <1>4, CheckSound
<1>6. phase' \in {"dec", "check"} /\ (phase' = "dec" => check' = <<>>)
  <2>1. Len(check) = 1 => Tail(check) = <<>>
    <3>1. Len(Tail(check)) = Len(check) - 1
      BY <1>0, HeadTailProperties
    <3>2. Len(check) = 1 => Len(Tail(check)) = 0
      BY <3>1
    <3>3. Len(Tail(check)) = 0 => Tail(check) = <<>>
      BY <1>1, EmptySeq
    <3> QED BY <3>2, <3>3
  <2> QED BY <2>1 DEF CheckNext
<1>7. TypeOK'
  <2>1. blk' \in [Cell -> Kinds] /\ light' \in [Cell -> 0 .. MaxLight]
    BY <1>0, <1>5 DEF Levels
  <2>2. check' \in Seq(Cell) /\ dec' \in Seq(Entry) /\ inc' \in Seq(Entry)
    BY <1>0, <1>1, <1>5
  <2>3. seeded' \in SUBSET Chunk /\ writes' \in 0 .. MaxWrites
    BY <1>0 DEF IInv, TypeOK
  <2> QED BY <2>1, <2>2, <2>3, <1>6 DEF TypeOK
<1>8. Drained'
  BY <1>6 DEF Drained
<1> QED BY <1>0, <1>5, <1>7, <1>8 DEF IInv

LEMMA DecStep ==
  ASSUME BoxAssumption, IInv, DecNext
  PROVE  IInv'
<1> DEFINE r == DecreaseEntry([light |-> light, dec |-> Tail(dec), inc |-> inc], Head(dec))
<1>0. /\ blk \in [Cell -> Kinds] /\ check = <<>> /\ dec # <<>>
      /\ dec \in Seq(Entry) /\ inc \in Seq(Entry) /\ phase = "dec"
      /\ light' = r.light /\ dec' = r.dec /\ inc' = r.inc
      /\ UNCHANGED <<blk, seeded, check, phase, writes>>
  BY DEF IInv, TypeOK, Drained, DecNext
<1>1. /\ Head(dec) \in Entry /\ Tail(dec) \in Seq(Entry)
      /\ ToSet(dec) = ToSet(Tail(dec)) \cup {Head(dec)}
      /\ ToSet(check) = {}
  BY <1>0, Members
<1> HIDE DEF r
<1>2. Sound(blk, seeded, light, {}, ToSet(Tail(dec)) \cup {Head(dec)}, ToSet(inc))
  BY <1>1 DEF IInv
<1>3. /\ r \in [light : Levels, dec : Seq(Entry), inc : Seq(Entry)]
      /\ Sound(blk, seeded, r.light, {}, ToSet(r.dec), ToSet(r.inc))
  BY <1>0, <1>1, <1>2, DecreaseEntrySound DEF r
<1>4. TypeOK'
  BY <1>0, <1>3 DEF IInv, TypeOK, Levels
<1>5. Drained'
  BY <1>0 DEF Drained
<1> QED BY <1>0, <1>1, <1>3, <1>4, <1>5 DEF IInv

LEMMA DrainSteps ==
  ASSUME IInv, DecDrained \/ IncDrained
  PROVE  IInv'
<1>1. TypeOK' /\ Drained'
  BY DEF IInv, TypeOK, Drained, DecDrained, IncDrained
<1>2. UNCHANGED <<blk, seeded, light, check, dec, inc>>
  BY DEF DecDrained, IncDrained
<1> QED BY <1>1, <1>2 DEF IInv

LEMMA IncStep ==
  ASSUME BoxAssumption, IInv, IncNext
  PROVE  IInv'
<1> DEFINE r == IncreaseEntry([light |-> light, inc |-> Tail(inc)], Head(inc))
<1>0. /\ blk \in [Cell -> Kinds] /\ check = <<>> /\ dec = <<>> /\ inc # <<>>
      /\ inc \in Seq(Entry) /\ phase = "inc"
      /\ light' = r.light /\ inc' = r.inc
      /\ UNCHANGED <<blk, seeded, check, dec, phase, writes>>
  BY DEF IInv, TypeOK, Drained, IncNext
<1>1. /\ Head(inc) \in Entry /\ Tail(inc) \in Seq(Entry)
      /\ ToSet(inc) = ToSet(Tail(inc)) \cup {Head(inc)}
      /\ ToSet(check) = {} /\ ToSet(dec) = {}
  BY <1>0, Members
<1> HIDE DEF r
<1>2. Sound(blk, seeded, light, {}, {}, ToSet(Tail(inc)) \cup {Head(inc)})
  BY <1>1 DEF IInv
<1>3. /\ r \in [light : Levels, inc : Seq(Entry)]
      /\ Sound(blk, seeded, r.light, {}, {}, ToSet(r.inc))
  BY <1>0, <1>1, <1>2, IncreaseEntrySound DEF r
<1>4. TypeOK'
  BY <1>0, <1>3 DEF IInv, TypeOK, Levels
<1>5. Drained'
  BY <1>0 DEF Drained
<1> QED BY <1>0, <1>1, <1>3, <1>4, <1>5 DEF IInv

\* What the engine keeps at every step: queues of well-formed entries that
\* account for every level that is too high or too low, whatever the writes,
\* their order and their grouping into flushes.
THEOREM LightInvariant ==
  ASSUME BoxAssumption, FacesTell, SourcesOpen
  PROVE  Spec => []IInv
<1>1. Init => IInv
  BY InitIInv
<1>2. IInv /\ [Next]_vars => IInv'
  <2> SUFFICES ASSUME IInv, [Next]_vars PROVE IInv'
    OBVIOUS
  <2>1. CASE \E c \in Cell, k \in Kinds : Write(c, k)
    BY <2>1, WriteStep
  <2>2. CASE \E k \in Chunk : Seed(k)
    BY <2>2, SeedStep
  <2>3. CASE Flush
    BY <2>3, FlushStep
  <2>4. CASE CheckNext
    BY <2>4, CheckStep
  <2>5. CASE DecNext
    BY <2>5, DecStep
  <2>6. CASE DecDrained \/ IncDrained
    BY <2>6, DrainSteps
  <2>7. CASE IncNext
    BY <2>7, IncStep
  <2>8. CASE UNCHANGED vars
    BY <2>8 DEF vars, IInv, TypeOK, Drained
  <2> QED BY <2>1, <2>2, <2>3, <2>4, <2>5, <2>6, <2>7, <2>8 DEF Next, Engine
<1> QED BY <1>1, <1>2, PTL DEF Spec

-----------------------------------------------------------------------------
(* The least fixed point.                                                  *)

\* What a cell is given in one round: at least its emission and each offer, and
\* no more than the largest of these.
LEMMA Relaxed ==
  ASSUME BoxAssumption, blk \in [Cell -> Kinds], NEW L \in Levels, NEW c \in Cell
  PROVE  /\ Relax(L)[c] \in 0 .. MaxLight
         /\ EmitOf(blk, seeded, c) <= Relax(L)[c]
         /\ \A d \in Dirs : Offer(L, c, d) \in Int /\ Offer(L, c, d) <= Relax(L)[c]
         /\ \/ Relax(L)[c] = EmitOf(blk, seeded, c)
            \/ \E d \in Dirs : Relax(L)[c] = Offer(L, c, d)
<1> DEFINE em == EmitOf(blk, seeded, c)
           o(d) == Offer(L, c, d)
           v == Relax(L)[c]
<1>1. em \in 0 .. MaxLight
  BY LevelFacts
<1>2. \A d \in Dirs : o(d) \in Int /\ o(d) <= MaxLight
  <2> TAKE d \in Dirs
  <2>1. CASE Step(c, d) \in Cell /\ ~Occludes(blk, c, d)
    <3>1. L[Step(c, d)] \in 0 .. MaxLight /\ Loss(blk, c) \in Nat
      BY <2>1, LevelFacts
    <3>2. o(d) = L[Step(c, d)] - Loss(blk, c)
      BY <2>1 DEF Offer
    <3> QED BY <3>1, <3>2 DEF BoxAssumption
  <2>2. CASE ~(Step(c, d) \in Cell /\ ~Occludes(blk, c, d))
    BY <2>2 DEF Offer, BoxAssumption
  <2> QED BY <2>1, <2>2
<1>3. v = Larger(em, Larger(Larger(o("D"), o("U")), Larger(o("W"), o("E"))))
  BY DEF Relax
<1>4. "D" \in Dirs /\ "U" \in Dirs /\ "W" \in Dirs /\ "E" \in Dirs
  BY DEF Dirs
<1>5. \A d \in Dirs : d = "D" \/ d = "U" \/ d = "W" \/ d = "E"
  BY DEF Dirs
<1> HIDE DEF em, o, v
<1>6. /\ v \in 0 .. MaxLight /\ em <= v
      /\ o("D") <= v /\ o("U") <= v /\ o("W") <= v /\ o("E") <= v
      /\ v = em \/ v = o("D") \/ v = o("U") \/ v = o("W") \/ v = o("E")
  BY <1>1, <1>2, <1>3, <1>4 DEF Larger, BoxAssumption
<1>7. /\ v \in 0 .. MaxLight /\ em <= v
      /\ \A d \in Dirs : o(d) \in Int /\ o(d) <= v
      /\ v = em \/ \E d \in Dirs : v = o(d)
  BY <1>2, <1>4, <1>5, <1>6
<1> QED BY <1>7 DEF em, o, v

\* The reference is the last of the rounds.
LEMMA Rounds ==
  ASSUME BoxAssumption, blk \in [Cell -> Kinds]
  PROVE  \E f \in [0 .. MaxLight -> Levels] :
            /\ \A c \in Cell : f[0][c] = 0
            /\ \A n \in 1 .. MaxLight : f[n] = Relax(f[n - 1])
            /\ Lfp = f[MaxLight]
<1> DEFINE dark == [c \in Cell |-> 0]
           Round(f) == f = [n \in 0 .. MaxLight |-> IF n = 0 THEN dark ELSE Relax(f[n - 1])]
           g == CHOOSE f : Round(f)
<1>0. MaxLight \in Nat /\ 0 \in 0 .. MaxLight /\ dark \in Levels
  BY DEF BoxAssumption, Levels
<1>1. \A L \in Levels : Relax(L) \in Levels
  <2> TAKE L \in Levels
  <2>1. \A c \in Cell : Relax(L)[c] \in 0 .. MaxLight
    BY Relaxed
  <2>2. Relax(L) = [c \in Cell |-> Relax(L)[c]]
    BY DEF Relax
  <2> QED BY <2>1, <2>2 DEF Levels
<1>2. Lfp = g[MaxLight]
  BY DEF Lfp
<1>3. \E f : Round(f)
  <2> DEFINE h == [p \in (1 .. MaxLight) \X Levels |-> Relax(p[2])]
  <2>1. h \in [(1 .. MaxLight) \X Levels -> Levels]
    BY <1>1
  <2>2. \A n \in 1 .. MaxLight, L \in Levels : h[<<n, L>>] = Relax(L)
    OBVIOUS
  <2> HIDE DEF h, dark
  <2>3. PICK f \in [0 .. MaxLight -> Levels] : Solves(f, MaxLight, dark, h)
    BY <1>0, <2>1, Recursion
  <2>4. f[0] = dark /\ \A n \in 1 .. MaxLight : f[n] = h[<<n, f[n - 1]>>]
    BY <2>3 DEF Solves
  <2>5. \A n \in 0 .. MaxLight : f[n] = IF n = 0 THEN dark ELSE Relax(f[n - 1])
    <3> TAKE n \in 0 .. MaxLight
    <3>1. CASE n = 0
      BY <3>1, <2>4
    <3>2. CASE n # 0
      <4>1. n \in 1 .. MaxLight /\ n - 1 \in 0 .. MaxLight
        BY <3>2, <1>0
      <4> QED BY <4>1, <3>2, <2>2, <2>4
    <3> QED BY <3>1, <3>2
  <2>6. Round(f)
    BY <2>5
  <2> QED BY <2>6
<1>4. Round(g)
  BY <1>3
<1> HIDE DEF g, dark
<1>5. g[0] = dark /\ \A n \in 1 .. MaxLight : g[n] = Relax(g[n - 1])
  <2>1. \A n \in 0 .. MaxLight : g[n] = IF n = 0 THEN dark ELSE Relax(g[n - 1])
    BY <1>4
  <2> HIDE DEF Round
  <2>2. \A n \in 1 .. MaxLight : n \in 0 .. MaxLight /\ n # 0
    BY <1>0
  <2> QED BY <1>0, <2>1, <2>2
<1> DEFINE P == {n \in 0 .. MaxLight : g[n] \in Levels}
<1>6. \A n \in 0 .. MaxLight : n \in P
  <2>1. 0 \in P
    BY <1>0, <1>5
  <2>2. ASSUME NEW n \in 1 .. MaxLight, n - 1 \in P PROVE n \in P
    <3>1. n \in 0 .. MaxLight
      BY <1>0
    <3> QED BY <3>1, <2>2, <1>1, <1>5
  <2> HIDE DEF P
  <2> QED BY <1>0, <2>1, <2>2, UpTo
<1>7. g \in [0 .. MaxLight -> Levels]
  <2>1. g = [n \in 0 .. MaxLight |-> g[n]]
    <3>1. DOMAIN g = 0 .. MaxLight /\ g = [n \in DOMAIN g |-> g[n]]
      BY <1>4
    <3> QED BY <3>1
  <2> QED BY <1>6, <2>1
<1>8. \A c \in Cell : g[0][c] = 0
  BY <1>5 DEF dark
<1> HIDE DEF Round
<1> QED BY <1>2, <1>5, <1>7, <1>8

\* Light that is justified everywhere is within the reference: each level is
\* one less than the one that vouches for it, so the brightest are right after
\* one round, the next after two.
LEMMA WithinReference ==
  ASSUME BoxAssumption, blk \in [Cell -> Kinds], NEW L \in Levels,
         Justified(blk, seeded, L, {}, {})
  PROVE  /\ Lfp \in Levels
         /\ \A c \in Cell : L[c] <= Lfp[c]
<1> DEFINE p(c) == Potential(blk, seeded, L, c)
<1>1. PICK f \in [0 .. MaxLight -> Levels] :
         /\ \A c \in Cell : f[0][c] = 0
         /\ \A n \in 1 .. MaxLight : f[n] = Relax(f[n - 1])
         /\ Lfp = f[MaxLight]
  BY Rounds
<1>2. MaxLight \in Nat /\ \A n \in 0 .. MaxLight : f[n] \in Levels
  BY DEF BoxAssumption
<1>3. \A c \in Cell : /\ p(c) \in 0 .. MaxLight /\ L[c] \in 0 .. MaxLight /\ L[c] <= p(c)
                      /\ EmitOf(blk, seeded, c) \in 0 .. MaxLight
                      /\ p(c) = L[c] \/ p(c) = EmitOf(blk, seeded, c)
                      /\ Loss(blk, c) \in Nat /\ Loss(blk, c) >= 1
  BY LevelFacts
<1>4. \A c \in Cell : p(c) = EmitOf(blk, seeded, c) \/
         \E d \in Dirs : /\ Step(c, d) \in Cell /\ ~Occludes(blk, c, d)
                         /\ p(c) <= p(Step(c, d)) - Loss(blk, c)
  <2> TAKE c \in Cell
  <2>1. c \in Cell \ {}
    OBVIOUS
  <2>2. ~FromChanged(blk, L, {}, c) /\ ~Threatened(L, {}, c)
    BY DEF FromChanged, Threatened
  <2>3. L[c] <= EmitOf(blk, seeded, c) \/ FromNeighbour(blk, seeded, L, {}, c)
    BY <2>1, <2>2, Zenon DEF Justified
  <2>4. CASE L[c] <= EmitOf(blk, seeded, c)
    <3>1. L[c] \in 0 .. MaxLight /\ EmitOf(blk, seeded, c) \in 0 .. MaxLight
      BY <1>3
    <3>2. Potential(blk, seeded, L, c) = EmitOf(blk, seeded, c)
      BY <2>4, <3>1 DEF Potential, Larger
    <3> QED BY <3>2
  <2>5. CASE FromNeighbour(blk, seeded, L, {}, c)
    <3>1. PICK d \in Dirs : Step(c, d) \in Cell /\ ~Occludes(blk, c, d) /\ L[c] <= p(Step(c, d)) - Loss(blk, c)
      BY <2>5 DEF FromNeighbour
    <3>2. p(c) = L[c] \/ p(c) = EmitOf(blk, seeded, c)
      BY <1>3
    <3> HIDE DEF p
    <3> QED BY <3>1, <3>2
  <2> QED BY <2>3, <2>4, <2>5
<1> DEFINE P == {n \in 0 .. MaxLight : \A c \in Cell : p(c) > MaxLight - n => p(c) <= f[n][c]}
<1> HIDE DEF p
<1>5. 0 \in P
  BY <1>2, <1>3
<1>6. ASSUME NEW n \in 1 .. MaxLight, n - 1 \in P
      PROVE  n \in P
  <2>1. n \in 0 .. MaxLight /\ n - 1 \in 0 .. MaxLight /\ f[n - 1] \in Levels
    BY <1>2
  <2>2. ASSUME NEW c \in Cell, p(c) > MaxLight - n
        PROVE  p(c) <= f[n][c]
    <3>0. f[n] = Relax(f[n - 1])
      BY <1>1
    <3> DEFINE K == f[n - 1]
    <3>a. K \in Levels
      BY <2>1
    <3> HIDE DEF K
    <3>1. /\ Relax(K)[c] \in 0 .. MaxLight
          /\ EmitOf(blk, seeded, c) <= Relax(K)[c]
          /\ \A d \in Dirs : Offer(K, c, d) \in Int /\ Offer(K, c, d) <= Relax(K)[c]
      BY <3>a, Relaxed
    <3>2. CASE p(c) = EmitOf(blk, seeded, c)
      BY <3>0, <3>1, <3>2 DEF K
    <3>3. CASE p(c) # EmitOf(blk, seeded, c)
      <4>1. PICK d \in Dirs : /\ Step(c, d) \in Cell /\ ~Occludes(blk, c, d)
                              /\ p(c) <= p(Step(c, d)) - Loss(blk, c)
        BY <1>4, <3>3
      <4> DEFINE x == Step(c, d)
      <4>2. Offer(K, c, d) = K[x] - Loss(blk, c)
        BY <4>1 DEF Offer
      <4> HIDE DEF x
      <4>3. x \in Cell /\ p(c) <= p(x) - Loss(blk, c)
        BY <4>1 DEF x
      <4>4. p(x) > MaxLight - (n - 1)
        BY <4>3, <2>2, <1>2, <1>3
      <4>5. p(x) <= K[x]
        BY <4>3, <4>4, <1>6 DEF K
      <4>6. K[x] \in 0 .. MaxLight
        BY <4>3, <3>a DEF Levels
      <4>7. p(c) <= K[x] - Loss(blk, c)
        BY <4>3, <4>5, <4>6, <1>3
      <4>8. K[x] - Loss(blk, c) <= Relax(K)[c]
        BY <4>2, <3>1
      <4>9. p(c) <= Relax(K)[c]
        BY <4>6, <4>7, <4>8, <3>1, <1>3
      <4> QED BY <4>9, <3>0 DEF K
    <3> QED BY <3>2, <3>3
  <2> QED BY <2>1, <2>2
<1>7. MaxLight \in P
  <2> HIDE DEF P
  <2>1. \A n \in 0 .. MaxLight : n \in P
    BY <1>2, <1>5, <1>6, UpTo
  <2> QED BY <2>1, <1>2
<1>8. Lfp \in Levels
  BY <1>1, <1>2
<1>9. ASSUME NEW c \in Cell PROVE L[c] <= Lfp[c]
  <2>1. Lfp[c] \in 0 .. MaxLight
    BY <1>8 DEF Levels
  <2>2. p(c) > 0 => p(c) <= Lfp[c]
    <3>1. p(c) > MaxLight - MaxLight => p(c) <= f[MaxLight][c]
      BY <1>7
    <3> QED BY <3>1, <1>1, <1>2
  <2> QED BY <2>1, <2>2, <1>3
<1> QED BY <1>8, <1>9

\* Light that satisfies every neighbour and shows every source is not below
\* the reference.
LEMMA NotBelowReference ==
  ASSUME BoxAssumption, blk \in [Cell -> Kinds], NEW L \in Levels,
         Passed(blk, seeded, L, {}, {}, {}), SourcesShine(blk, seeded, L, {}, {})
  PROVE  \A c \in Cell : Lfp[c] <= L[c]
<1>1. PICK f \in [0 .. MaxLight -> Levels] :
         /\ \A c \in Cell : f[0][c] = 0
         /\ \A n \in 1 .. MaxLight : f[n] = Relax(f[n - 1])
         /\ Lfp = f[MaxLight]
  BY Rounds
<1>2. MaxLight \in Nat /\ \A n \in 0 .. MaxLight : f[n] \in Levels
  BY DEF BoxAssumption
<1>3. \A c \in Cell : L[c] \in 0 .. MaxLight /\ Loss(blk, c) \in Nat
  BY LevelFacts
<1>4. \A c \in Cell : EmitOf(blk, seeded, c) <= L[c]
  BY DEF SourcesShine
<1>5. \A c \in Cell : Potential(blk, seeded, L, c) = L[c]
  BY <1>4 DEF Potential, Larger
<1>6. ASSUME NEW c \in Cell, NEW d \in Dirs, Step(c, d) \in Cell, ~Occludes(blk, c, d)
      PROVE  L[Step(c, d)] - Loss(blk, c) <= L[c]
  <2> DEFINE x == Step(c, d)
  <2>1. x \in Cell \ {} /\ Opp[d] \in Dirs /\ Step(x, Opp[d]) = c /\ Step(x, Opp[d]) \in Cell \ {}
    BY <1>6, Geometry
  <2>2. ~Occludes(blk, x, Opp[d])
    BY <1>6, OccludesBack
  <2> HIDE DEF x
  <2>3. ~Owed(L, {}, x, Opp[d]) /\ ~Pulled({}, x, Opp[d])
    BY DEF Owed, Pulled
  <2>4. Satisfied(blk, seeded, L, x, Opp[d])
    BY <2>1, <2>3, Zenon DEF Passed
  <2>5. L[x] - Loss(blk, c) <= Potential(blk, seeded, L, c)
    BY <2>1, <2>2, <2>4 DEF Satisfied
  <2> QED BY <2>5, <1>5 DEF x
<1> DEFINE P == {n \in 0 .. MaxLight : \A c \in Cell : f[n][c] <= L[c]}
<1>7. 0 \in P
  BY <1>1, <1>2, <1>3
<1>8. ASSUME NEW n \in 1 .. MaxLight, n - 1 \in P
      PROVE  n \in P
  <2> DEFINE K == f[n - 1]
  <2>1. n \in 0 .. MaxLight /\ K \in Levels /\ f[n] = Relax(K) /\ \A c \in Cell : K[c] <= L[c]
    BY <1>1, <1>2, <1>8
  <2> HIDE DEF K
  <2>2. ASSUME NEW c \in Cell
        PROVE  Relax(K)[c] <= L[c]
    <3>1. \/ Relax(K)[c] = EmitOf(blk, seeded, c)
          \/ \E d \in Dirs : Relax(K)[c] = Offer(K, c, d)
      BY <2>1, Relaxed
    <3>2. ASSUME NEW d \in Dirs PROVE Offer(K, c, d) <= L[c]
      <4>1. CASE Step(c, d) \in Cell /\ ~Occludes(blk, c, d)
        <5> DEFINE x == Step(c, d)
        <5>1. Offer(K, c, d) = K[x] - Loss(blk, c)
          BY <4>1 DEF Offer
        <5>2. L[x] - Loss(blk, c) <= L[c]
          BY <4>1, <1>6
        <5>3. x \in Cell
          BY <4>1
        <5> HIDE DEF x
        <5>4. K[x] <= L[x] /\ K[x] \in 0 .. MaxLight /\ L[x] \in 0 .. MaxLight
          BY <5>3, <2>1, <1>3 DEF Levels
        <5> QED BY <5>1, <5>2, <5>4, <1>3
      <4>2. CASE ~(Step(c, d) \in Cell /\ ~Occludes(blk, c, d))
        BY <4>2, <1>3 DEF Offer
      <4> QED BY <4>1, <4>2
    <3> QED BY <3>1, <3>2, <1>4
  <2> QED BY <2>1, <2>2
<1>9. MaxLight \in P
  <2> HIDE DEF P
  <2>1. \A n \in 0 .. MaxLight : n \in P
    BY <1>2, <1>7, <1>8, UpTo
  <2> QED BY <2>1, <1>2
<1> QED BY <1>1, <1>9

\* Whenever the engine rests with no check pending, the stored light is the
\* least fixed point of the blocks and the seeded chunks: hc_light.h's claim
\* that a flush rebuilds it and that the grouping of the writes does not matter.
THEOREM RestIsExact ==
  ASSUME BoxAssumption, FacesTell, SourcesOpen
  PROVE  Spec => []LfpAtRest
<1>1. ASSUME IInv PROVE LfpAtRest
  <2> SUFFICES ASSUME phase = "idle", check = <<>> PROVE light = Lfp
    BY DEF LfpAtRest
  <2>1. blk \in [Cell -> Kinds] /\ light \in Levels /\ dec = <<>> /\ inc = <<>>
    BY <1>1 DEF IInv, TypeOK, Levels
  <2>2. ToSet(check) = {} /\ ToSet(dec) = {} /\ ToSet(inc) = {}
    BY <2>1, Members
  <2>3. Sound(blk, seeded, light, {}, {}, {})
    BY <1>1, <2>2 DEF IInv
  <2>4. /\ Justified(blk, seeded, light, {}, {})
        /\ Passed(blk, seeded, light, {}, {}, {}) /\ SourcesShine(blk, seeded, light, {}, {})
    BY <2>3 DEF Sound
  <2>5. Lfp \in Levels /\ \A c \in Cell : light[c] <= Lfp[c]
    BY <2>1, <2>4, WithinReference
  <2>6. \A c \in Cell : Lfp[c] <= light[c]
    BY <2>1, <2>4, NotBelowReference
  <2>7. \A c \in Cell : light[c] \in 0 .. MaxLight /\ Lfp[c] \in 0 .. MaxLight
    BY <2>1, <2>5 DEF Levels
  <2>8. \A c \in Cell : light[c] = Lfp[c]
    BY <2>5, <2>6, <2>7
  <2> QED BY <2>1, <2>5, <2>8 DEF Levels
<1> QED BY <1>1, LightInvariant, PTL

\* Once the decrease pass is over no cell is brighter than the reference, so
\* the increase pass, which only adds, never has a shadow to remove.
THEOREM NoShadowLeft ==
  ASSUME BoxAssumption, FacesTell, SourcesOpen
  PROVE  Spec => []NeverTooBright
<1>1. ASSUME IInv PROVE NeverTooBright
  <2> SUFFICES ASSUME phase = "inc" PROVE \A c \in Cell : light[c] <= Lfp[c]
    BY DEF NeverTooBright
  <2>1. blk \in [Cell -> Kinds] /\ light \in Levels /\ dec = <<>> /\ check = <<>>
    BY <1>1 DEF IInv, TypeOK, Drained, Levels
  <2>2. ToSet(check) = {} /\ ToSet(dec) = {}
    BY <2>1, Members
  <2>3. Sound(blk, seeded, light, {}, {}, ToSet(inc))
    BY <1>1, <2>2 DEF IInv
  <2> QED BY <2>1, <2>3, WithinReference DEF Sound
<1> QED BY <1>1, LightInvariant, PTL

-----------------------------------------------------------------------------
(* The sky layer: src_y at the highest edge of a column at which the sky   *)
(* ends, kept there by looking at two edges per write.                     *)

SkyAssumption == Sky!SliceAssumption /\ Sky!FacesTell /\ Sky!BedrockFloor

\* Bedrock is the floor of every column.
Floored(b) == b \in [Sky!Cell -> SkyKinds] /\ \A k \in Sky!Chunk : b[<<k, 0>>] = Bedrock

\* What src_y is to the edges of a column: one of them, and the highest.
AtEdge(b, k, s) == s \in Int /\ s - 1 \in Sky!Edges(b, k)
AtHighest(b, k, s) == AtEdge(b, k, s) /\ \A e \in Sky!Edges(b, k) : e < s

\* The columns that are kept have their src_y at an edge, and at the highest
\* one as long as there was no ledge.
SkyInv ==
  /\ Floored(blk)
  /\ src \in [Sky!Chunk -> Int]
  /\ inR \subseteq Sky!Chunk
  /\ \A k \in inR : /\ AtEdge(blk, k, src[k])
                    /\ k \notin ledged => Sky!Ledges(blk, k) = {} /\ AtHighest(blk, k, src[k])

\* The rows of the slice are natural numbers up to some height.
LEMMA Rows ==
  ASSUME SkyAssumption
  PROVE  \E top0 \in Nat : Sky!Row = 0 .. top0
<1>1. Sections \in Nat \ {0} /\ SecHeight \in Nat \ {0}
  BY DEF SkyAssumption, Sky!SliceAssumption
<1>2. Sections * SecHeight \in Nat \ {0}
  BY <1>1
<1> DEFINE h == Sections * SecHeight
<1>3. h - 1 \in Nat /\ Sky!Row = 0 .. h - 1
  BY <1>2 DEF Sky!Row
<1> QED BY <1>3

\* Max is the greatest member of a set of rows.
LEMMA MaxOfRows ==
  ASSUME SkyAssumption, NEW R \in SUBSET Sky!Row, R # {}
  PROVE  Sky!Max(R) \in R /\ \A y \in R : y <= Sky!Max(R)
<1>1. PICK top0 \in Nat : Sky!Row = 0 .. top0
  BY Rows
<1> DEFINE Depth == { top0 - y : y \in R }
<1>2. Depth \in SUBSET Nat /\ Depth # {}
  <2>1. \A y \in R : top0 - y \in Nat
    BY <1>1
  <2> QED BY <2>1
<1>3. PICK d \in Depth : \A e \in Depth : d <= e
  <2> HIDE DEF Depth
  <2> QED BY <1>2, LeastElement
<1>4. PICK x \in R : d = top0 - x
  BY <1>3
<1>5. ASSUME NEW y \in R PROVE x >= y
  <2>1. top0 - x <= top0 - y
    BY <1>3, <1>4
  <2>2. x \in Int /\ y \in Int
    BY <1>1
  <2> QED BY <2>1, <2>2
<1>6. Sky!Max(R) \in R /\ \A y \in R : Sky!Max(R) >= y
  BY <1>5 DEF Sky!Max
<1> QED BY <1>1, <1>6

\* The lowest edge is there in every column, on the bedrock.
LEMMA FloorIsEdge ==
  ASSUME SkyAssumption, NEW b, Floored(b), NEW k \in Sky!Chunk
  PROVE  /\ 0 \in Sky!Row /\ 0 \in Sky!Edges(b, k)
         /\ Sky!Edges(b, k) \subseteq Sky!Row
         /\ 0 \notin Sky!Ledges(b, k)
<1>1. PICK top0 \in Nat : Sky!Row = 0 .. top0
  BY Rows
<1>2. b[<<k, 0>>] = Bedrock /\ Bedrock # Air /\ Bedrock.damp # 0
  BY DEF Floored, SkyAssumption, Sky!BedrockFloor
<1>3. 0 \in Sky!Row /\ Sky!At(b, k, 0) = Bedrock
  BY <1>1, <1>2 DEF Sky!At
<1>4. 0 \in Sky!Edges(b, k) /\ Sky!Edges(b, k) \subseteq Sky!Row
  BY <1>2, <1>3 DEF Sky!Edges, Sky!EdgeOccluded
<1>5. Sky!SecOf(0) \in Sky!HasData(b, k)
  BY <1>2, <1>3 DEF Sky!HasData
<1> QED BY <1>3, <1>4, <1>5 DEF Sky!Ledges

\* What find_lowest_source_below returns: the highest edge from a row down.
LEMMA BelowIsEdge ==
  ASSUME SkyAssumption, NEW b, Floored(b), NEW k \in Sky!Chunk,
         NEW y \in Sky!Row, y > 0
  PROVE  LET s == Sky!LowestBelow(b, k, y)
         IN AtEdge(b, k, s) /\ \A e \in Sky!Edges(b, k) : e < y => e < s
<1>1. PICK top0 \in Nat : Sky!Row = 0 .. top0
  BY Rows
<1> DEFINE found == { z \in Sky!Row : z <= y /\ Sky!EdgeOccluded(Sky!At(b, k, z), Sky!At(b, k, z - 1)) }
<1>2. 0 \in Sky!Edges(b, k) /\ Sky!Edges(b, k) \subseteq Sky!Row
  BY FloorIsEdge
<1>3. \A e \in Sky!Edges(b, k) : e < y => e + 1 \in found
  <2> TAKE e \in Sky!Edges(b, k)
  <2> HAVE e < y
  <2>1. e + 1 \in Sky!Row /\ e + 1 <= y /\ (e + 1) - 1 = e
    BY <1>1, <1>2
  <2>2. Sky!EdgeOccluded(Sky!At(b, k, e + 1), Sky!At(b, k, e))
    BY DEF Sky!Edges
  <2> QED BY <2>1, <2>2
<1>4. \A z \in found : z > 0 => z - 1 \in Sky!Edges(b, k)
  <2> TAKE z \in found
  <2> HAVE z > 0
  <2>1. z - 1 \in Sky!Row /\ (z - 1) + 1 = z
    BY <1>1
  <2> QED BY <2>1 DEF Sky!Edges
<1>5. 1 \in found
  <2>1. 0 < y /\ 0 + 1 = 1
    BY <1>1
  <2> HIDE DEF found
  <2> QED BY <2>1, <1>2, <1>3
<1>6. found \in SUBSET Sky!Row /\ found # {}
  BY <1>5
<1>7. Sky!LowestBelow(b, k, y) = Sky!Max(found)
  BY <1>6 DEF Sky!LowestBelow
<1> HIDE DEF found
<1>8. Sky!Max(found) \in found /\ \A z \in found : z <= Sky!Max(found)
  BY <1>6, MaxOfRows
<1>9. Sky!Max(found) \in Int /\ Sky!Max(found) >= 1
  <2>1. Sky!Max(found) \in Sky!Row
    BY <1>6, <1>8
  <2>2. 1 <= Sky!Max(found)
    BY <1>5, <1>8
  <2> QED BY <1>1, <2>1, <2>2
<1>10. AtEdge(b, k, Sky!Max(found))
  BY <1>4, <1>8, <1>9 DEF AtEdge
<1>11. \A e \in Sky!Edges(b, k) : e < y => e < Sky!Max(found)
  <2> TAKE e \in Sky!Edges(b, k)
  <2> HAVE e < y
  <2>1. e + 1 \in found /\ e \in Int
    BY <1>1, <1>2, <1>3
  <2>2. e + 1 <= Sky!Max(found)
    BY <2>1, <1>8
  <2> QED BY <2>1, <2>2, <1>9
<1> QED BY <1>7, <1>10, <1>11

\* What fill_src_y finds: an edge, and the highest if there is no ledge.
LEMMA ScanIsEdge ==
  ASSUME SkyAssumption, NEW b, Floored(b), NEW k \in Sky!Chunk
  PROVE  /\ AtEdge(b, k, Sky!Scan(b, k))
         /\ Sky!Ledges(b, k) = {} => AtHighest(b, k, Sky!Scan(b, k))
<1> DEFINE found == Sky!Edges(b, k) \ Sky!Ledges(b, k)
<1>1. PICK top0 \in Nat : Sky!Row = 0 .. top0
  BY Rows
<1>2. found \in SUBSET Sky!Row /\ 0 \in found
  BY FloorIsEdge
<1>3. Sky!Scan(b, k) = Sky!Max(found) + 1
  BY <1>2 DEF Sky!Scan
<1> HIDE DEF found
<1>4. Sky!Max(found) \in found /\ \A y \in found : y <= Sky!Max(found)
  BY <1>2, MaxOfRows
<1>5. Sky!Max(found) \in Int /\ (Sky!Max(found) + 1) - 1 = Sky!Max(found)
  <2>1. Sky!Max(found) \in Sky!Row
    BY <1>2, <1>4
  <2> QED BY <1>1, <2>1
<1>6. AtEdge(b, k, Sky!Scan(b, k))
  BY <1>3, <1>4, <1>5 DEF AtEdge, found
<1>7. ASSUME Sky!Ledges(b, k) = {}, NEW e \in Sky!Edges(b, k)
      PROVE  e < Sky!Scan(b, k)
  <2>1. e \in found
    BY <1>7 DEF found
  <2>2. e \in Int /\ e <= Sky!Max(found)
    BY <2>1, <1>1, <1>2, <1>4
  <2> QED BY <2>2, <1>3, <1>5
<1> QED BY <1>6, <1>7 DEF AtHighest

\* In a column without a ledge a scan finds the highest edge, whatever found
\* it before.
LEMMA HighestIsScan ==
  ASSUME SkyAssumption, NEW b, Floored(b), NEW k \in Sky!Chunk,
         Sky!Ledges(b, k) = {}, NEW s, AtHighest(b, k, s)
  PROVE  s = Sky!Scan(b, k)
<1>1. AtHighest(b, k, Sky!Scan(b, k))
  BY ScanIsEdge
<1>2. /\ s \in Int /\ Sky!Scan(b, k) \in Int
      /\ s - 1 < Sky!Scan(b, k) /\ Sky!Scan(b, k) - 1 < s
  BY <1>1 DEF AtHighest, AtEdge
<1> QED BY <1>2

\* A write moves src_y from an edge of the old blocks to one of the new ones,
\* and from the highest to the highest: at most the edges above and below the
\* written block have changed.
LEMMA UpdateIsEdge ==
  ASSUME SkyAssumption, NEW b, Floored(b), NEW n, Floored(n), NEW k \in Sky!Chunk,
         NEW y \in Sky!Row, y > 0,
         \A z \in Sky!Row \ {y, y - 1} : z \in Sky!Edges(b, k) <=> z \in Sky!Edges(n, k),
         NEW s, AtEdge(b, k, s)
  PROVE  LET t == Sky!SrcUpdate(n, s, k, y)
         IN AtEdge(n, k, t) /\ (AtHighest(b, k, s) => AtHighest(n, k, t))
<1> DEFINE E == Sky!Edges(b, k)
           F == Sky!Edges(n, k)
           t == Sky!SrcUpdate(n, s, k, y)
<1>1. PICK top0 \in Nat : Sky!Row = 0 .. top0
  BY Rows
<1>2. E \subseteq Sky!Row /\ F \subseteq Sky!Row /\ 0 \in F
  BY FloorIsEdge
<1>3. y \in Int /\ y >= 1 /\ y - 1 \in Sky!Row
  BY <1>1
<1>4. s \in Int /\ s - 1 \in E
  BY DEF AtEdge
<1>5. /\ Sky!EdgeOccluded(Sky!At(n, k, y + 1), Sky!At(n, k, y)) <=> y \in F
      /\ Sky!EdgeOccluded(Sky!At(n, k, y), Sky!At(n, k, y - 1)) <=> y - 1 \in F
  <2>1. (y + 1) - 1 = y /\ (y - 1) + 1 = y
    BY <1>3
  <2> QED BY <1>3, <2>1 DEF Sky!Edges
<1>6. \A z \in Sky!Row : z # y /\ z # y - 1 => (z \in E <=> z \in F)
  OBVIOUS
<1> DEFINE Edge(u) == u \in Int /\ u - 1 \in F
           Highest(u) == (\A e \in E : e < s) => (\A e \in F : e < u)
<1>7. SUFFICES Edge(t) /\ Highest(t)
  BY DEF AtEdge, AtHighest
<1>8. CASE y + 1 < s
  <2>1. t = s
    BY <1>3, <1>4, <1>8 DEF Sky!SrcUpdate
  <2>2. s - 1 # y /\ s - 1 # y - 1
    BY <1>3, <1>4, <1>8
  <2>3. s - 1 \in F
    BY <2>2, <1>2, <1>4, <1>6
  <2>4. \A e \in F : e >= s => e \in E
    BY <1>1, <1>2, <1>3, <1>4, <1>6, <1>8
  <2>5. \A e \in E \cup F : e \in Int
    BY <1>1, <1>2
  <2> HIDE DEF E, F, t
  <2> QED BY <2>1, <2>3, <2>4, <2>5, <1>4
<1>9. CASE y + 1 > s /\ y \in F
  <2>1. t = y + 1
    BY <1>3, <1>4, <1>5, <1>9 DEF Sky!SrcUpdate
  <2>2. \A e \in F : e > y => e \in E
    BY <1>1, <1>2, <1>3, <1>6
  <2>3. (y + 1) - 1 = y
    BY <1>3
  <2>4. \A e \in E \cup F : e \in Int
    BY <1>1, <1>2
  <2> HIDE DEF E, F, t
  <2>5. Edge(t)
    BY <2>1, <2>3, <1>3, <1>9
  <2>6. Highest(t)
    BY <2>1, <2>2, <2>4, <1>3, <1>4, <1>9
  <2> QED BY <2>5, <2>6
<1>10. CASE y + 1 = s /\ y \notin F
  <2>1. t = Sky!LowestBelow(n, k, y)
    BY <1>3, <1>4, <1>5, <1>10 DEF Sky!SrcUpdate
  <2>2. AtEdge(n, k, t) /\ \A e \in F : e < y => e < t
    BY <2>1, BelowIsEdge
  <2>3. \A e \in F : e > y => e \in E
    BY <1>1, <1>2, <1>3, <1>6
  <2>4. \A e \in E \cup F : e \in Int
    BY <1>1, <1>2
  <2>5. Edge(t)
    BY <2>2 DEF AtEdge
  <2> HIDE DEF E, F, t
  <2>6. Highest(t)
    BY <2>2, <2>3, <2>4, <1>3, <1>4, <1>10
  <2> QED BY <2>5, <2>6
<1>11. CASE /\ y + 1 >= s
            /\ ~ (y + 1 > s /\ y \in F) /\ ~ (y + 1 = s /\ y \notin F)
  <2>1. t = IF y - 1 \in F THEN Sky!Larger(s, y)
            ELSE IF y = s THEN Sky!LowestBelow(n, k, y - 1) ELSE s
    <3> DEFINE above == Sky!EdgeOccluded(Sky!At(n, k, y + 1), Sky!At(n, k, y))
               below == Sky!EdgeOccluded(Sky!At(n, k, y), Sky!At(n, k, y - 1))
    <3>1. (y + 1) - 1 = y /\ ~ (y + 1 < s)
      BY <1>3, <1>4, <1>11
    <3>2. t = CASE y + 1 < s -> s
                [] y + 1 >= s /\ above /\ y + 1 > s -> y + 1
                [] y + 1 = s /\ ~ above -> Sky!LowestBelow(n, k, y)
                [] y + 1 >= s /\ ~ (above /\ y + 1 > s) /\ ~ (y + 1 = s /\ ~ above) ->
                     IF below THEN Sky!Larger(s, y)
                     ELSE IF y = s THEN Sky!LowestBelow(n, k, y - 1) ELSE s
      BY <3>1 DEF Sky!SrcUpdate
    <3>3. (above <=> y \in F) /\ (below <=> y - 1 \in F)
      BY <1>5
    <3> HIDE DEF above, below, t, E, F
    <3>4. /\ y + 1 >= s
          /\ ~ (above /\ y + 1 > s) /\ ~ (y + 1 = s /\ ~ above)
      BY <3>3, <1>11
    <3>5. t = IF below THEN Sky!Larger(s, y)
              ELSE IF y = s THEN Sky!LowestBelow(n, k, y - 1) ELSE s
      BY <3>1, <3>2, <3>4
    <3> QED BY <3>3, <3>5
  <2>2. \A e \in F : e > y => e \in E
    BY <1>1, <1>2, <1>3, <1>6
  <2>3. \A e \in E \cup F : e \in Int
    BY <1>1, <1>2
  <2>4. CASE y + 1 = s
    <3>1. y \in F /\ y = s - 1
      BY <1>3, <1>4, <1>11, <2>4
    <3>2. t = s
      BY <2>1, <2>4, <1>3, <1>4 DEF Sky!Larger
    <3> HIDE DEF E, F, t
    <3> QED BY <3>1, <3>2, <2>2, <2>3, <1>3, <1>4
  <2>5. CASE y + 1 > s /\ y - 1 \in F
    <3>1. y \notin F /\ y >= s
      BY <1>3, <1>4, <1>11, <2>5
    <3>2. t = y
      BY <2>1, <2>5, <3>1, <1>3, <1>4 DEF Sky!Larger
    <3> HIDE DEF E, F, t
    <3>3. Edge(t)
      BY <3>2, <2>5, <1>3
    <3>4. Highest(t)
      BY <3>1, <3>2, <2>2, <2>3, <1>3, <1>4
    <3> QED BY <3>3, <3>4
  <2>6. CASE y + 1 > s /\ y - 1 \notin F /\ y = s
    <3>1. y \notin F /\ y - 1 > 0
      BY <1>1, <1>2, <1>3, <1>4, <1>11, <2>6
    <3>2. t = Sky!LowestBelow(n, k, y - 1)
      BY <2>1, <2>6
    <3>3. AtEdge(n, k, t) /\ \A e \in F : e < y - 1 => e < t
      BY <3>1, <3>2, <1>3, BelowIsEdge
    <3>4. Edge(t)
      BY <3>3 DEF AtEdge
    <3> HIDE DEF E, F, t
    <3>5. Highest(t)
      BY <3>1, <3>3, <2>2, <2>3, <2>6, <1>3, <1>4
    <3> QED BY <3>4, <3>5
  <2>7. CASE y + 1 > s /\ y - 1 \notin F /\ y # s
    <3>1. y \notin F /\ t = s /\ s - 1 # y /\ s - 1 # y - 1
      BY <1>3, <1>4, <1>11, <2>1, <2>7
    <3>2. s - 1 \in F
      BY <3>1, <1>2, <1>4, <1>6
    <3>3. \A e \in F : e >= s => e > y \/ e \in E
      BY <3>1, <2>3, <2>7, <1>2, <1>3, <1>6
    <3> HIDE DEF E, F, t
    <3> QED BY <3>1, <3>2, <3>3, <2>2, <2>3, <1>4
  <2> HIDE DEF E, F, t
  <2> QED BY <2>4, <2>5, <2>6, <2>7, <1>3, <1>4, <1>11
<1> HIDE DEF E, F, t
<1> QED BY <1>3, <1>4, <1>8, <1>9, <1>10, <1>11

\* A block whose light properties stay the same leaves every edge as it was.
LEMMA SameEdges ==
  ASSUME SkyAssumption, NEW b \in [Sky!Cell -> SkyKinds], NEW c \in Sky!Cell, NEW kind \in SkyKinds,
         NEW k \in Sky!Chunk, c[1] = k => ~ Sky!LightPropsDiffer(b[c], kind)
  PROVE  Sky!Edges([b EXCEPT ![c] = kind], k) = Sky!Edges(b, k)
<1> DEFINE n == [b EXCEPT ![c] = kind]
<1>1. ASSUME NEW z
      PROVE  Sky!At(n, k, z).damp = Sky!At(b, k, z).damp /\ Sky!At(n, k, z).faces = Sky!At(b, k, z).faces
  <2>1. CASE z \in Sky!Row /\ c = <<k, z>>
    <3>1. c[1] = k /\ Sky!At(n, k, z) = kind /\ Sky!At(b, k, z) = b[c]
      BY <2>1 DEF Sky!At
    <3>2. ~ Sky!LightPropsDiffer(b[c], kind) /\ b[c] \in SkyKinds
      BY <3>1
    <3>3. b[c].damp = kind.damp /\ b[c].faces = kind.faces
      BY <3>2 DEF Sky!LightPropsDiffer, SkyAssumption, Sky!FacesTell
    <3> QED BY <3>1, <3>3
  <2>2. CASE ~ (z \in Sky!Row /\ c = <<k, z>>)
    <3>1. Sky!At(n, k, z) = Sky!At(b, k, z)
      BY <2>2 DEF Sky!At, Sky!Cell
    <3> QED BY <3>1
  <2> QED BY <2>1, <2>2
<1> HIDE DEF n
<1>2. \A y : Sky!EdgeOccluded(Sky!At(n, k, y + 1), Sky!At(n, k, y))
              <=> Sky!EdgeOccluded(Sky!At(b, k, y + 1), Sky!At(b, k, y))
  BY <1>1 DEF Sky!EdgeOccluded
<1>3. Sky!Edges(n, k) = Sky!Edges(b, k)
  BY <1>2 DEF Sky!Edges
<1> QED BY <1>3 DEF n

\* A write changes no edge but the two of the block, and none of another column.
LEMMA OtherEdges ==
  ASSUME NEW b \in [Sky!Cell -> SkyKinds], NEW c \in Sky!Cell, NEW kind, NEW k \in Sky!Chunk,
         NEW z \in Sky!Row, c[1] # k \/ (z # c[2] /\ z + 1 # c[2])
  PROVE  z \in Sky!Edges(b, k) <=> z \in Sky!Edges([b EXCEPT ![c] = kind], k)
<1> DEFINE n == [b EXCEPT ![c] = kind]
<1>1. Sky!At(n, k, z) = Sky!At(b, k, z) /\ Sky!At(n, k, z + 1) = Sky!At(b, k, z + 1)
  BY DEF Sky!At, Sky!Cell
<1> HIDE DEF n
<1>2. z \in Sky!Edges(b, k) <=> z \in Sky!Edges(n, k)
  BY <1>1 DEF Sky!Edges
<1> QED BY <1>2 DEF n

\* A write keeps the invariant: it moves src_y in its column, unless the light
\* properties stay the same, and leaves the other columns alone.
LEMMA WriteSky ==
  ASSUME SkyAssumption, SkyInv, NEW c \in Sky!Cell, NEW kind \in SkyKinds, Sky!Write(c, kind)
  PROVE  SkyInv'
<1>1. PICK top0 \in Nat : Sky!Row = 0 .. top0
  BY Rows
<1>2. /\ Floored(blk) /\ blk \in [Sky!Cell -> SkyKinds]
      /\ src \in [Sky!Chunk -> Int] /\ inR \subseteq Sky!Chunk
  BY DEF SkyInv, Floored
<1>3. /\ blk' = [blk EXCEPT ![c] = kind] /\ blk[c] # Bedrock /\ inR' = inR
      /\ ledged' = ledged \cup { k \in inR : Sky!Ledges(blk', k) # {} }
  BY DEF Sky!Write, Sky!Ledged
<1>4. PICK k0 \in Sky!Chunk, y \in Sky!Row : c = <<k0, y>>
  BY DEF Sky!Cell
<1>5. y # 0
  BY <1>2, <1>3, <1>4 DEF Floored
<1>6. y > 0 /\ c[1] = k0 /\ c[2] = y
  BY <1>1, <1>4, <1>5
<1>7. Floored(blk')
  <2>1. blk' \in [Sky!Cell -> SkyKinds]
    BY <1>2, <1>3
  <2>2. \A k \in Sky!Chunk : <<k, 0>> # c
    BY <1>4, <1>5
  <2>3. \A k \in Sky!Chunk : blk'[<<k, 0>>] = Bedrock
    <3> TAKE k \in Sky!Chunk
    <3>1. 0 \in Sky!Row /\ <<k, 0>> \in Sky!Cell
      BY <1>1 DEF Sky!Cell
    <3> QED BY <3>1, <2>2, <1>2, <1>3 DEF Floored
  <2> QED BY <2>1, <2>3 DEF Floored
<1>8. /\ \A k \in Sky!Chunk : k # k0 => src'[k] = src[k]
      /\ src'[k0] = src[k0] \/ src'[k0] = Sky!SrcUpdate(blk', src[k0], k0, y)
      /\ src' = src \/ src' = [src EXCEPT ![k0] = Sky!SrcUpdate(blk', src[k0], k0, y)]
  BY <1>2, <1>6 DEF Sky!Write
<1>9. k0 \in inR => \/ src'[k0] = Sky!SrcUpdate(blk', src[k0], k0, y)
                    \/ src'[k0] = src[k0] /\ ~ Sky!LightPropsDiffer(blk[c], kind)
  BY <1>2, <1>6 DEF Sky!Write
<1>10. ASSUME NEW k \in inR
       PROVE  /\ AtEdge(blk', k, src'[k])
              /\ AtHighest(blk, k, src[k]) => AtHighest(blk', k, src'[k])
  <2>1. k \in Sky!Chunk /\ AtEdge(blk, k, src[k])
    BY <1>2, <1>10 DEF SkyInv
  <2>2. CASE Sky!Edges(blk', k) = Sky!Edges(blk, k) /\ src'[k] = src[k]
    BY <2>1, <2>2 DEF AtEdge, AtHighest
  <2>3. CASE k # k0
    <3>1. \A z \in Sky!Row : z \in Sky!Edges(blk, k) <=> z \in Sky!Edges(blk', k)
      BY <1>2, <1>3, <1>6, <2>1, <2>3, OtherEdges
    <3>2. Sky!Edges(blk', k) = Sky!Edges(blk, k)
      BY <3>1 DEF Sky!Edges
    <3> QED BY <2>1, <2>2, <2>3, <3>2, <1>8
  <2>4. CASE k = k0 /\ src'[k0] = src[k0] /\ ~ Sky!LightPropsDiffer(blk[c], kind)
    <3>1. Sky!Edges(blk', k) = Sky!Edges(blk, k)
      BY <1>2, <1>3, <2>1, <2>4, SameEdges
    <3> QED BY <2>2, <2>4, <3>1
  <2>5. CASE k = k0 /\ src'[k0] = Sky!SrcUpdate(blk', src[k0], k0, y)
    <3>1. \A z \in Sky!Row \ {y, y - 1} : z \in Sky!Edges(blk, k) <=> z \in Sky!Edges(blk', k)
      <4> TAKE z \in Sky!Row \ {y, y - 1}
      <4>1. z # y /\ z + 1 # y
        BY <1>1
      <4> QED BY <4>1, <1>2, <1>3, <1>6, <2>1, OtherEdges
    <3> QED BY <3>1, <2>1, <2>5, <1>2, <1>6, <1>7, UpdateIsEdge
  <2> QED BY <2>3, <2>4, <2>5, <1>9, <1>10
<1>11. src' \in [Sky!Chunk -> Int]
  <2>1. CASE k0 \in inR
    <3>1. src'[k0] \in Int
      BY <2>1, <1>10 DEF AtEdge
    <3> QED BY <3>1, <1>2, <1>8
  <2>2. CASE k0 \notin inR
    <3>1. src' = src
      BY <2>2, <1>6 DEF Sky!Write
    <3> QED BY <3>1, <1>2
  <2> QED BY <2>1, <2>2
<1>12. ASSUME NEW k \in inR, k \notin ledged'
       PROVE  Sky!Ledges(blk', k) = {} /\ AtHighest(blk', k, src'[k])
  <2>1. k \notin ledged /\ Sky!Ledges(blk', k) = {}
    BY <1>3, <1>12
  <2>2. AtHighest(blk, k, src[k])
    BY <2>1, <1>12 DEF SkyInv
  <2> QED BY <2>1, <2>2, <1>10
<1> QED BY <1>2, <1>3, <1>7, <1>10, <1>11, <1>12 DEF SkyInv

\* The 08 of a chunk scans its columns.
LEMMA Init08Sky ==
  ASSUME SkyAssumption, SkyInv, NEW k0 \in Sky!Chunk, Sky!Init08(k0)
  PROVE  SkyInv'
<1>1. /\ Floored(blk) /\ src \in [Sky!Chunk -> Int] /\ inR \subseteq Sky!Chunk
      /\ blk' = blk /\ inR' = inR \cup {k0}
      /\ src' = [src EXCEPT ![k0] = Sky!Scan(blk, k0)]
      /\ ledged' = ledged \cup { k \in inR' : Sky!Ledges(blk, k) # {} }
  BY DEF SkyInv, Sky!Init08, Sky!Ledged
<1>2. /\ AtEdge(blk, k0, Sky!Scan(blk, k0))
      /\ Sky!Ledges(blk, k0) = {} => AtHighest(blk, k0, Sky!Scan(blk, k0))
  BY <1>1, ScanIsEdge
<1>3. src' \in [Sky!Chunk -> Int]
  BY <1>1, <1>2 DEF AtEdge
<1>4. ASSUME NEW k \in inR'
      PROVE  /\ AtEdge(blk', k, src'[k])
             /\ k \notin ledged' => Sky!Ledges(blk', k) = {} /\ AtHighest(blk', k, src'[k])
  <2>1. CASE k = k0
    BY <2>1, <1>1, <1>2, <1>4
  <2>2. CASE k # k0
    <3>1. k \in inR /\ src'[k] = src[k] /\ (k \notin ledged' => k \notin ledged)
      BY <2>2, <1>1, <1>4
    <3> QED BY <3>1, <1>1 DEF SkyInv
  <2> QED BY <2>1, <2>2
<1> QED BY <1>1, <1>3, <1>4 DEF SkyInv

\* The other steps of the sky layer change no block, no src_y and no chunk
\* that is kept.
LEMMA StepSky ==
  ASSUME SkyAssumption, SkyInv, SkyNext
  PROVE  SkyInv'
<1>1. CASE \E c \in Written, k \in SkyKinds : InSky /\ Sky!Write(c, k)
  <2>1. PICK c \in Written, k \in SkyKinds : Sky!Write(c, k)
    BY <1>1
  <2>2. c \in Sky!Cell
    BY DEF SkyAssumption, Sky!SliceAssumption
  <2> QED BY <2>1, <2>2, WriteSky
<1>2. CASE \E k \in Sky!Chunk : InSky /\ Sky!Init08(k)
  BY <1>2, Init08Sky
<1>3. ASSUME UNCHANGED <<blk, inR, src, ledged>>
      PROVE  SkyInv'
  BY <1>3 DEF SkyInv, Floored, AtEdge, AtHighest, Sky!Edges, Sky!Ledges, Sky!At, Sky!HasData
<1>4. ASSUME NEW k \in Sky!Chunk, Sky!SetFeatured(k)
      PROVE  UNCHANGED <<blk, inR, src, ledged>>
  BY <1>4 DEF Sky!SetFeatured
<1>5. ASSUME NEW k \in Sky!Chunk, Sky!Light09(k)
      PROVE  UNCHANGED <<blk, inR, src, ledged>>
  BY <1>5 DEF Sky!Light09
<1>6. ASSUME Sky!Flush
      PROVE  UNCHANGED <<blk, inR, src, ledged>>
  BY <1>6 DEF Sky!Flush
<1>7. ASSUME Sky!Prepare
      PROVE  UNCHANGED <<blk, inR, src, ledged>>
  BY <1>7 DEF Sky!Prepare
<1> QED BY <1>1, <1>2, <1>3, <1>4, <1>5, <1>6, <1>7 DEF SkyNext

\* In every run of the engine, whatever the columns, the blocks and the order
\* of the live writes, src_y is at an edge where the sky ends, and is what
\* fill_src_y would find now, unless a ledge has ever been hidden from it.
THEOREM SourcesExact ==
  ASSUME SkyAssumption
  PROVE  LightSpec => []SrcExact
<1> DEFINE Inv == part = "sky" => SkyInv
<1>1. LightInit => Inv
  <2> SUFFICES ASSUME SkyInit PROVE SkyInv
    BY DEF LightInit, BlockInit
  <2>1. /\ blk \in SkyLayouts /\ inR = {} /\ src = [k \in Sky!Chunk |-> Sky!Open]
    BY DEF SkyInit, Sky!Init
  <2>2. Floored(blk)
    BY <2>1 DEF Floored, SkyAssumption, Sky!SliceAssumption, Sky!BedrockFloor
  <2>3. src \in [Sky!Chunk -> Int]
    BY <2>1 DEF Sky!Open
  <2> QED BY <2>1, <2>2, <2>3 DEF SkyInv
<1>2. Inv /\ [LightNext]_allVars => Inv'
  <2> SUFFICES ASSUME Inv, [LightNext]_allVars, part' = "sky" PROVE SkyInv'
    OBVIOUS
  <2>1. CASE BlockNext
    BY <2>1 DEF BlockNext, InBlock
  <2>2. CASE SkyNext
    <3>1. part = "sky"
      BY <2>2 DEF SkyNext, InSky
    <3> QED BY <2>2, <3>1, StepSky
  <2>3. CASE UNCHANGED allVars
    <3>1. UNCHANGED <<blk, inR, src, ledged, part>>
      BY <2>3 DEF allVars, vars, skyOnly
    <3> QED BY <3>1 DEF SkyInv, Floored, AtEdge, AtHighest, Sky!Edges, Sky!Ledges, Sky!At, Sky!HasData
  <2> QED BY <2>1, <2>2, <2>3 DEF LightNext
<1>3. Inv => SrcExact
  <2> SUFFICES ASSUME SkyInv, NEW k \in inR
      PROVE  /\ src[k] # Sky!Open => src[k] - 1 \in Sky!Edges(blk, k)
             /\ k \notin ledged => src[k] = Sky!Scan(blk, k)
    BY DEF SrcExact, Sky!SrcExact
  <2>1. Floored(blk) /\ k \in Sky!Chunk /\ AtEdge(blk, k, src[k])
    BY DEF SkyInv
  <2>2. k \notin ledged => Sky!Ledges(blk, k) = {} /\ AtHighest(blk, k, src[k])
    BY DEF SkyInv
  <2>3. k \notin ledged => src[k] = Sky!Scan(blk, k)
    BY <2>1, <2>2, HighestIsScan
  <2> QED BY <2>1, <2>3 DEF AtEdge
<1> HIDE DEF Inv
<1> QED BY <1>1, <1>2, <1>3, PTL DEF LightSpec
=============================================================================
