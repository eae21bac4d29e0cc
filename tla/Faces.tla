------------------------------- MODULE Faces -------------------------------
(***************************************************************************)
(* forAllFaces, which a tree (core/src/features_tree.c) and a template     *)
(* (core/src/structures_template.c) each walk: the faces between a set of  *)
(* cells and the rest, in three passes of lines through a box.  A line     *)
(* that enters the set gives the face towards it, one that leaves gives    *)
(* the other.  And where the positions of a template go when it is turned. *)
(***************************************************************************)
EXTENDS Integers, SequencesExt

\* Directions 1 .. 6: down, up, north, south, west, east.
Step == <<<<0, -1, 0>>, <<0, 1, 0>>, <<0, 0, -1>>, <<0, 0, 1>>, <<-1, 0, 0>>, <<1, 0, 0>>>>
Opposite == <<2, 1, 4, 3, 6, 5>>
Plus(c, s) == <<c[1] + s[1], c[2] + s[2], c[3] + s[3]>>
Neighbours(c) == {Plus(c, Step[d]) : d \in 1 .. 6}

\* The box about a set of cells.
Low(S, i) == Min({c[i] : c \in S})
High(S, i) == Max({c[i] : c \in S})

Pass == <<[axis |-> 3, outer |-> 1, inner |-> 2, low |-> 3, high |-> 4],
          [axis |-> 2, outer |-> 3, inner |-> 1, low |-> 1, high |-> 2],
          [axis |-> 1, outer |-> 2, inner |-> 3, low |-> 5, high |-> 6]>>

LineEnd(hi) == hi + 1

\* The faces of the line along p.axis at u, t, from one end to past the other.
LineFaces(F, p, u, t, lo, hi) ==
  LET cell(v) == [a \in 1 .. 3 |-> CASE a = p.axis -> v [] a = p.outer -> u [] OTHER -> t]
      in(v) == v \in lo .. hi /\ cell(v) \in F
      at(v) == CASE in(v) /\ ~in(v - 1) -> <<[cell |-> cell(v), dir |-> p.low]>>
                 [] ~in(v) /\ in(v - 1) -> <<[cell |-> cell(v - 1), dir |-> p.high]>>
                 [] OTHER -> <<>>
  IN FlattenSeq([i \in 1 .. LineEnd(hi) - lo + 1 |-> at(lo + i - 1)])

\* The faces of F in the box about S: those of one pass, and all of them.
PassFaces(F, S, p) ==
  LET size(a) == High(S, a) - Low(S, a) + 1
  IN FlattenSeq([i \in 1 .. size(p.outer) |->
       FlattenSeq([j \in 1 .. size(p.inner) |->
         LineFaces(F, p, Low(S, p.outer) + i - 1, Low(S, p.inner) + j - 1, Low(S, p.axis), High(S, p.axis))])])
AllFaces(F, S) == PassFaces(F, S, Pass[1]) \o PassFaces(F, S, Pass[2]) \o PassFaces(F, S, Pass[3])

\* hc_template_transform about the pivot << x, z >>.
Transform(p, m, r, pivot) ==
  LET x == IF m = "front_back" THEN 0 - p[1] ELSE p[1]
      z == IF m = "left_right" THEN 0 - p[3] ELSE p[3]
      a == pivot[1]
      b == pivot[2]
  IN CASE r = 0 -> <<x, p[2], z>>
       [] r = 1 -> <<a + b - z, p[2], b - a + x>>
       [] r = 2 -> <<a + a - x, p[2], b + b - z>>
       [] r = 3 -> <<a - b + z, p[2], a + b - x>>
=============================================================================
