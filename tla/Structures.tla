----------------------------- MODULE Structures -----------------------------
(***************************************************************************)
(* Which structures reach a chunk, and in which order                       *)
(* (core/src/structures.c).  Starts are sorted once; references, placement  *)
(* and the terrain's beards each walk that order, and pass it through a     *)
(* rebuilt fastutil set of chunk positions.  Placing a piece records the    *)
(* block entities of the chunk, and the save rebuilds the order of a live   *)
(* chunk from the record through three Java collections.                    *)
(*                                                                          *)
(* What a piece writes is given as the block entities it leaves or removes  *)
(* in the chunk; Templates has a piece's blocks.  A hash is a constant      *)
(* function; capacities are constants.  A bin of a set stays a chain, as    *)
(* with a dozen block entities it does; JavaSet has the trees.              *)
(***************************************************************************)
EXTENDS Integers, FiniteSets, SequencesExt

CONSTANTS
  World,               \* sequences of starts
  Chunk, Step,         \* the chunks that are decorated; the steps that place
  Mix,                 \* fu_mix64 of a chunk position, as a slot
  PosMix, PosHash,     \* fu_mix32 of a block position; Vec3i.hashCode, spread
  Slots, MaxFill,      \* 32, 24: an open table and what it holds
  InitCap,             \* 16: buckets of a HashSet
  MaxNames,            \* 1: structures a chunk may refer to
  MinY, MaxY,
  RecCap, MaxB,        \* 4096, 64: records in all, and of a chunk
  RigidCap, JunctionCap  \* 512, 2048

VARIABLES
  starts,   \* [name, at, step, idx, adapt, bb, pieces] each; a piece is
            \* [bb, jigsaw, rigid, junctions, bes]
  ord,      \* the sorted places of the starts so far
  next,     \* chunk -> its next step
  placed,   \* chunk -> << start, piece >> as they were placed
  recs,     \* hc_be_recorder: [pos, kind, dead]
  saved,    \* chunk -> its block entities, in the order of the file
  died

vars == <<starts, ord, next, placed, recs, saved, died>>
NotYet == <<<<>>>>

\* Boxes are << x0, y0, z0, x1, y1, z1 >>.
X0(c) == 16 * c[1]
Z0(c) == 16 * c[2]
Touches(bb, c, d) ==
  bb[4] >= X0(c) - d /\ bb[1] <= X0(c) + 15 + d /\ bb[6] >= Z0(c) - d /\ bb[3] <= Z0(c) + 15 + d
InWindow(at, c) == at[1] - c[1] \in -8 .. 8 /\ at[2] - c[2] \in -8 .. 8

Init ==
  /\ starts \in World /\ ord = <<>> /\ died = FALSE
  /\ next = [c \in Chunk |-> 1] /\ placed = [c \in Chunk |-> <<>>]
  /\ recs = <<>> /\ saved = [c \in Chunk |-> NotYet]
-----------------------------------------------------------------------------
\* Mutant of Ahead: starts of one chunk change places.
AheadStrict(a, b) == a[1] < b[1] \/ (a[1] = b[1] /\ a[2] < b[2])

\* The test of the insertion sort in hc_structures_init.
Ahead(a, b) == a[1] < b[1] \/ (a[1] = b[1] /\ a[2] <= b[2])

\* A start moves up the order until one is ahead of it.
SortNext ==
  LET i == Len(ord) + 1
      js == { j \in DOMAIN ord : Ahead(starts[ord[j]].at, starts[i].at) }
      j == IF js = {} THEN 0 ELSE CHOOSE j \in js : \A k \in js : k <= j
  IN /\ i <= Len(starts) /\ ord' = InsertAt(ord, j + 1, i)
     /\ UNCHANGED <<starts, next, placed, recs, saved, died>>

\* One walk of the order: of the wanted starts, those in the window whose box touches the chunk.
Scan(c, wanted) ==
  SelectSeq(ord, LAMBDA i : i \in wanted /\ InWindow(starts[i].at, c) /\ Touches(starts[i].bb, c, 0))

\* Keys from the last slot to the first.
Downwards(table) == SelectSeq([k \in 1 .. Slots |-> table[Slots - k]], LAMBDA k : k # NotYet)
RECURSIVE Probe(_, _, _)
Probe(table, p, k) == IF table[p] \in {NotYet, k} THEN p ELSE Probe(table, (p + 1) % Slots, k)
Insert(table, p, k) == [table EXCEPT ![Probe(table, p, k)] = k]
EmptyTable == [p \in 0 .. Slots - 1 |-> NotYet]

\* hc_longset_to_array: chunk 0, 0 is the key zero and is kept apart.
LongSet(ats) ==
  LET rest == SelectSeq(ats, LAMBDA k : k # <<0, 0>>)
  IN (IF <<0, 0>> \in ToSet(ats) THEN <<<<0, 0>>>> ELSE <<>>)
     \o Downwards(FoldLeft(LAMBDA t, k : Insert(t, Mix[k], k), EmptyTable, rest))
Ats(is) == [k \in DOMAIN is |-> starts[is[k]].at]

\* hc_structures_references: names, and for each its chunks; too many kill.
References(c) ==
  LET hits == Scan(c, DOMAIN starts)
      names == { starts[i].name : i \in ToSet(hits) }
      of(n) == SelectSeq(hits, LAMBDA i : starts[i].name = n)
  IN [died |-> Cardinality(names) > MaxNames \/ \E n \in names : Len(of(n)) > MaxFill,
      list |-> [n \in names |-> LongSet(Ats(of(n)))]]

\* Starts in the order the set has them; of equal positions the last one.
InSetOrder(hits) ==
  LET ats == LongSet(Ats(hits))
  IN [k \in DOMAIN ats |-> Last(SelectSeq(hits, LAMBDA i : starts[i].at = ats[k]))]

\* hc_structures_step: the buckets of a step, one for each index.
Indices == 0 .. 25
Bucket(c, step, n) == Scan(c, {i \in DOMAIN starts : starts[i].step = step /\ starts[i].idx = n})
Crowded(c, step) == \E n \in Indices : Len(Bucket(c, step, n)) > MaxFill

\* Index by index and start by start, the pieces that reach into the chunk.
Inside(p, c) == Touches(p.bb, c, 0) /\ p.bb[5] >= MinY + 1 /\ p.bb[2] <= MaxY
Placements(c, step) ==
  LET of(i) == SelectSeq([k \in DOMAIN starts[i].pieces |-> <<i, k>>],
                         LAMBDA q : Inside(starts[i].pieces[q[2]], c))
      at(n) == LET is == InSetOrder(Bucket(c, step, n)) IN FlattenSeq([k \in DOMAIN is |-> of(is[k])])
      used == { starts[i].idx : i \in DOMAIN starts }
  IN FlattenSeq([k \in 1 .. 26 |-> IF k - 1 \in used THEN at(k - 1) ELSE <<>>])
-----------------------------------------------------------------------------
(* Block entities. *)

InChunk(pos, c) == pos[1] \div 16 = c[1] /\ pos[3] \div 16 = c[2]

\* The recorder while a piece is placed, and whether a record found it full.
Bury(rs, pos) == [i \in DOMAIN rs |-> [rs[i] EXCEPT !.dead = @ \/ rs[i].pos = pos]]
Removed(r, pos) == [r EXCEPT !.recs = Bury(@, pos)]
Record(r, pos, kind) ==
  IF Len(r.recs) >= RecCap THEN [Removed(r, pos) EXCEPT !.full = TRUE]
  ELSE [r EXCEPT !.recs = Append(Bury(@, pos), [pos |-> pos, kind |-> kind, dead |-> FALSE])]
Leave(r, c, es) ==
  FoldLeft(LAMBDA q, e : CASE q.full \/ ~ InChunk(e.pos, c) -> q
                           [] e.kind = "none"               -> Removed(q, e.pos)
                           [] OTHER                         -> Record(q, e.pos, e.kind),
           r, es)

Place(c) ==
  LET step == Step[next[c]]
      now == IF Crowded(c, step) THEN <<>> ELSE Placements(c, step)
      after == FoldLeft(LAMBDA r, q : Leave(r, c, starts[q[1]].pieces[q[2]].bes), [recs |-> recs, full |-> FALSE], now)
  IN /\ Len(ord) = Len(starts) /\ ~ died /\ next[c] <= Len(Step)
     /\ next' = [next EXCEPT ![c] = @ + 1]
     /\ placed' = [placed EXCEPT ![c] = @ \o now]
     /\ recs' = after.recs /\ died' = (after.full \/ Crowded(c, step))
     /\ UNCHANGED <<starts, ord, saved>>

\* Positions in the order of a HashSet they were added to.
LongChain == 8
TreeCap == 64
Grown(cap, ps) ==
  LET chain == SelectSeq(ps, LAMBDA p : PosHash[p] % cap = PosHash[Last(ps)] % cap)
      wide == IF Len(chain) > LongChain /\ cap < TreeCap THEN 2 * cap ELSE cap
  IN IF 4 * Len(ps) > 3 * wide THEN 2 * wide ELSE wide
HashSetOrder(ps) ==
  LET cap == FoldLeft(LAMBDA m, n : Grown(m, SubSeq(ps, 1, n)), InitCap, [n \in DOMAIN ps |-> n])
  IN FlattenSeq([b \in 1 .. cap |-> SelectSeq(ps, LAMBDA p : PosHash[p] % cap = b - 1)])

\* hc_o2omap_key_order
KeyOrder(ps) == Downwards(FoldLeft(LAMBDA t, p : Insert(t, PosMix[p], p), EmptyTable, ps))

\* Mutant of LevelOrder: the live chunk is thought to keep the order.
LevelOrderOnce(live, dummy) == KeyOrder(live \o HashSetOrder(dummy))

\* The live chunk: a copy of the map of the proto chunk, then what is promoted.
LevelOrder(live, dummy) == KeyOrder(KeyOrder(live) \o HashSetOrder(dummy))

\* hc_structures_chunk_bes
Positions(c, dummy) ==
  LET mine == SelectSeq(recs, LAMBDA r : ~ r.dead /\ InChunk(r.pos, c) /\ (r.kind = "dummy") = dummy)
  IN [i \in DOMAIN mine |-> mine[i].pos]
ChunkBes(c) ==
  LET live == Positions(c, FALSE)
      dummy == Positions(c, TRUE)
  IN [died |-> Len(live) > MaxB \/ Len(dummy) > MaxB \/ Len(live) + Len(dummy) > MaxFill,
      list |-> HashSetOrder(LevelOrder(live, dummy))]

SaveEntities(c) ==
  /\ \A d \in Chunk : next[d] > Len(Step)
  /\ saved[c] = NotYet /\ ~ died
  /\ LET bes == ChunkBes(c)
     IN IF bes.died \/ References(c).died THEN died' = TRUE /\ UNCHANGED saved
        ELSE saved' = [saved EXCEPT ![c] = bes.list] /\ UNCHANGED died
  /\ UNCHANGED <<starts, ord, next, placed, recs>>

Next == SortNext \/ \E c \in Chunk : Place(c) \/ SaveEntities(c)
Spec == Init /\ [][Next]_vars
-----------------------------------------------------------------------------
(* hc_structures_beard: what a chunk's terrain is adapted to. *)

Near(bb, c) == Touches(bb, c, 12)
CloseJunction(j, c) == j[1] - X0(c) \in -11 .. 26 /\ j[3] - Z0(c) \in -11 .. 26
BeardStarts(c) == InSetOrder(Scan(c, {i \in DOMAIN starts : starts[i].adapt}))

\* Of the pieces near the chunk: a piece of a pool is rigid or not and brings its
\* junctions; any other is rigid.
NearPieces(c) ==
  LET is == BeardStarts(c)
      of(i) == SelectSeq(starts[i].pieces, LAMBDA p : Near(p.bb, c))
  IN FlattenSeq([k \in DOMAIN is |-> of(is[k])])
Rigids(c) ==
  LET ps == SelectSeq(NearPieces(c), LAMBDA p : p.jigsaw => p.rigid)
  IN [m \in DOMAIN ps |-> ps[m].bb]
Junctions(c) ==
  LET ps == SelectSeq(NearPieces(c), LAMBDA p : p.jigsaw)
      close(js) == SelectSeq(js, LAMBDA j : CloseJunction(j, c))
  IN FlattenSeq([m \in DOMAIN ps |-> close(ps[m].junctions)])

\* The box around what was collected, 24 blocks wider on every side.
Affected(boxes) ==
  LET low(i) == CHOOSE v \in { b[i] : b \in boxes } : \A b \in boxes : v <= b[i]
      high(i) == CHOOSE v \in { b[i] : b \in boxes } : \A b \in boxes : v >= b[i]
  IN [i \in 1 .. 6 |-> IF i <= 3 THEN low(i) - 24 ELSE high(i) + 24]

Beard(c) ==
  LET hits == Scan(c, {i \in DOMAIN starts : starts[i].adapt})
      rigids == Rigids(c)
      junctions == Junctions(c)
      boxes == ToSet(rigids) \cup { j \o j : j \in ToSet(junctions) }
  IN [died |-> Len(hits) > MaxFill \/ Len(rigids) > RigidCap \/ Len(junctions) > JunctionCap,
      any |-> boxes # {},
      rigids |-> rigids, junctions |-> junctions,
      affected |-> IF boxes = {} THEN <<>> ELSE Affected(boxes)]
-----------------------------------------------------------------------------
(* What Java does, chunk by chunk of the window and start by start. *)

Window(c) == FlattenSeq([x \in 1 .. 17 |-> [z \in 1 .. 17 |-> <<c[1] + x - 9, c[2] + z - 9>>]])
InTurn(c) ==
  LET used == SelectSeq(Window(c), LAMBDA at : \E i \in DOMAIN starts : starts[i].at = at)
      all == [i \in DOMAIN starts |-> i]
  IN FlattenSeq([k \in DOMAIN used |-> SelectSeq(all, LAMBDA i : starts[i].at = used[k] /\ Touches(starts[i].bb, c, 0))])

\* The order of the sort is the order of that scan in every chunk
\* (structures.c:893), and whatever lists the starts of a structure - the file's
\* references, the pieces placed, the beards - lists them in one order.
StartsOf(seq, n) == SelectSeq(seq, LAMBDA i : starts[i].name = n)
SameOrder ==
  Len(ord) = Len(starts) =>
    \A c \in Chunk :
      LET refs == References(c).list
          once(qs) == FoldLeft(LAMBDA s, q : IF s # <<>> /\ Last(s) = q[1] THEN s ELSE Append(s, q[1]), <<>>, qs)
          within(is, n) == SelectSeq(refs[n], LAMBDA at : \E i \in ToSet(is) : starts[i].name = n /\ starts[i].at = at)
          agree(is) == \A n \in { starts[i].name : i \in ToSet(is) } :
                         n \in DOMAIN refs /\ Ats(StartsOf(is, n)) = within(is, n)
      IN /\ Scan(c, DOMAIN starts) = InTurn(c)
         /\ agree(once(placed[c])) /\ agree(BeardStarts(c))
         /\ \E b \in {Beard(c)} : \A bb \in ToSet(b.rigids) : \A i \in 1 .. 3 :
              b.affected[i] <= bb[i] - 24 /\ b.affected[i + 3] >= bb[i + 3] + 24

\* Saved are the block entities that are still there, each once, whichever chunk
\* placed first, and in the order of the chunk's live map and a fresh set:
\* of two that ask for one slot and were placed by a structure, the copy to the
\* live chunk restores the order in which they were placed (structures.c:1321).
SavedOnce ==
  \A c \in Chunk :
    saved[c] # NotYet =>
      /\ ToSet(saved[c]) = { recs[i].pos : i \in { i \in DOMAIN recs : ~ recs[i].dead /\ InChunk(recs[i].pos, c) } }
      /\ Len(saved[c]) = Cardinality(ToSet(saved[c]))
      /\ LET live == Positions(c, FALSE)
             at(p) == CHOOSE k \in DOMAIN saved[c] : saved[c][k] = p
         IN Len(saved[c]) = 2 /\ Len(live) = 2 /\ PosMix[live[1]] = PosMix[live[2]]
            /\ PosHash[live[1]] = PosHash[live[2]] /\ PosMix[live[1]] < Slots - 1
            => at(live[1]) < at(live[2])

\* Every walk over the starts sees them in one order, and what they leave is saved once.
WalksAgree == SameOrder /\ SavedOnce
=============================================================================
