------------------------------ MODULE SkyLight ------------------------------
(***************************************************************************)
(* The sky layer of the incremental light engine                           *)
(* (core/src/light_engine.c): the sections a chunk stores light for, the   *)
(* lowest sky source of every column (src_y), the seeding of a chunk, and  *)
(* the live block writes that change both.  The passes over the queues are *)
(* those of BlockLight; here a flush is one step, as no other context may  *)
(* look in between (FreeDriver.NoRace).                                    *)
(*                                                                         *)
(* The world is a vertical slice, one column per chunk.  The blocks of a   *)
(* column lie in sections of SecHeight rows, and light is stored for one   *)
(* section more below and above.                                           *)
(***************************************************************************)
EXTENDS Integers, Sequences, FiniteSets, SequencesExt, FiniteSetsExt

CONSTANTS
  Chunks,         \* chunks of the slice, the first and the last are its border
  Sections,       \* sections with blocks
  SecHeight,      \* rows of a section, 16 in the code
  MaxLight,       \* 15 in the code
  Kinds,          \* block kinds: [damp, faces]
  Air, Bedrock,   \* two of them
  Layouts,        \* the blocks after the chain phase, [Cell -> Kinds]
  Written,        \* bound: the cells that are written to
  MaxWrites       \* bound: block writes of one behaviour

Chunk == 0 .. Chunks - 1
Row == 0 .. Sections * SecHeight - 1
Cell == Chunk \X Row
LightRow == -SecHeight .. (Sections + 1) * SecHeight - 1
SecOf(y) == y \div SecHeight
LightCell == Chunk \X LightRow

Open == -100      \* HC_LIGHT_OPEN, below every row
NoTop == -100     \* HC_LIGHT_NO_TOP

SliceAssumption ==
  /\ Chunks \in Nat /\ Sections \in Nat \ {0} /\ SecHeight \in Nat \ {0}
  /\ MaxLight \in Nat \ {0}
  /\ {Air, Bedrock} \subseteq Kinds /\ Layouts \subseteq [Cell -> Kinds]
  /\ Written \subseteq Cell

VARIABLES
  blk,      \* the blocks
  feat,     \* feat_done
  inR,      \* in_r
  seeded,   \* seeded, enabled
  dirty,    \* blk_dirty
  reg,      \* registered: the sections light is stored for
  top,      \* one above the highest of them
  src,      \* src_y
  sky,      \* the stored levels
  check,    \* pending checks
  geo,      \* geo_dirty: the chunks the next flush derives again, in order
  early,    \* chunks written to between their 08 and their 09
  ledged,   \* chunks that have had a ledge since their 08
  writes    \* writes so far

vars == <<blk, feat, inR, seeded, dirty, reg, top, src, sky, check, geo, early, ledged, writes>>

Init ==
  /\ blk \in Layouts
  /\ feat = {} /\ inR = {} /\ seeded = {} /\ dirty = {}
  /\ reg = [k \in Chunk |-> {}]
  /\ top = [k \in Chunk |-> NoTop]
  /\ src = [k \in Chunk |-> Open]
  /\ sky = [c \in LightCell |-> 0]
  /\ check = << >> /\ geo = << >> /\ early = {} /\ ledged = {}
  /\ writes = 0
-----------------------------------------------------------------------------
Dirs == {"D", "U", "W", "E"}
Opp == [D |-> "U", U |-> "D", W |-> "E", E |-> "W"]
Step(c, d) ==
  CASE d = "D" -> <<c[1], c[2] - 1>>
    [] d = "U" -> <<c[1], c[2] + 1>>
    [] d = "W" -> <<c[1] - 1, c[2]>>
    [] d = "E" -> <<c[1] + 1, c[2]>>
Larger(a, b) == IF a >= b THEN a ELSE b
Faces == {"lo", "hi"}

\* l_state: air outside the build height, bedrock where there are no features.
State(b, f, c) ==
  IF c[2] \notin Row THEN Air ELSE IF c[1] \in f THEN b[c] ELSE Bedrock

Stored(rg, c) == c \in LightCell /\ SecOf(c[2]) \in rg[c[1]]

EdgeOccluded(above, below) ==
  below.damp # 0 \/ above.faces["D"] \cup below.faces["U"] = Faces

\* The block at row z of column k, and the rows at whose upper edge the sky
\* ends, in blocks b.
At(b, k, z) == IF z \in Row THEN b[<<k, z>>] ELSE Air
Edges(b, k) == { y \in Row : EdgeOccluded(At(b, k, y + 1), At(b, k, y)) }

\* section_has_data: the sections with blocks.
HasData(b, k) == { SecOf(y) : y \in { z \in Row : b[<<k, z>>] # Air } }

\* fill_src_y leaves out the sections without blocks, and with them a block
\* whose lower face closes right above one: a ledge.
Ledges(b, k) == { y \in Edges(b, k) : SecOf(y) \notin HasData(b, k) }
Scan(b, k) ==
  LET seen == Edges(b, k) \ Ledges(b, k)
  IN IF seen = {} THEN Open ELSE Max(seen) + 1

\* nb_src
NeighbourSrc(f, s, k) == IF k \in f THEN s[k] ELSE Open
-----------------------------------------------------------------------------
(* derive_geometry_chunk for chunk k: its sections with blocks, and those  *)
(* around them, also in the neighbours.                                    *)
Around(b, k) == UNION { s - 1 .. s + 1 : s \in HasData(b, k) }
Near(k) == k - 1 .. k + 1

\* The new sections of t that are born bright: those above everything t has,
\* once t has been seeded.
Created(rg, sd, t, new) ==
  IF t \in sd /\ rg[t] # {} THEN { s \in new : s > Max(rg[t]) } ELSE {}

Derive(g, b, sd, k) ==
  LET want(t) == IF t \in Near(k) THEN Around(b, k) ELSE {}
      new(t) == want(t) \ g.reg[t]
      bright == { c \in LightCell : SecOf(c[2]) \in Created(g.reg, sd, c[1], new(c[1])) }
  IN [reg |-> [t \in Chunk |-> g.reg[t] \cup want(t)],
      top |-> [t \in Chunk |-> IF want(t) = {} THEN g.top[t]
                               ELSE Larger(g.top[t], Max(want(t)) + 1)],
      sky |-> [c \in LightCell |-> IF c \in bright THEN MaxLight ELSE g.sky[c]]]

Geometry == [reg |-> reg, top |-> top, sky |-> sky]

\* The chunks of S, in slot order.
InOrder(S) == SelectSeq([i \in 1 .. Chunks |-> i - 1], LAMBDA k : k \in S)

DeriveAll(g, q) == FoldLeft(LAMBDA acc, k : Derive(acc, blk, seeded, k), g, q)
-----------------------------------------------------------------------------
(* The queues: run_decreases and bfs_run, here in one go (BlockLight has   *)
(* them step by step).                                                     *)
Push(c, l, ds) == << [at |-> c, level |-> l, dirs |-> ds] >>

Targets(rg, e) == SelectSeq(<<"D", "U", "W", "E">>,
                            LAMBDA d : d \in e.dirs /\ Stored(rg, Step(e.at, d)))

Decrease(r, from, c, d) ==
  LET nl == r.sky[c]
  IN CASE nl = 0 -> r
       [] nl # 0 /\ nl <= from - 1 ->
            [r EXCEPT !.sky[c] = 0, !.dec = @ \o Push(c, nl, Dirs \ {Opp[d]})]
       [] OTHER -> [r EXCEPT !.inc = @ \o Push(c, nl, {Opp[d]})]

Occludes(c, d) ==
  State(blk, feat, c).faces[d] \cup State(blk, feat, Step(c, d)).faces[Opp[d]] = Faces

Increase(r, e, c, d) ==
  LET nl == e.level - Larger(1, State(blk, feat, c).damp)
  IN IF nl <= r.sky[c] \/ Occludes(e.at, d) THEN r
     ELSE [r EXCEPT !.sky[c] = nl,
                    !.inc = @ \o IF nl > 1 THEN Push(c, nl, Dirs \ {Opp[d]}) ELSE << >>]

Entry == [at : LightCell, level : 1 .. MaxLight, dirs : SUBSET Dirs]
Levels == [LightCell -> 0 .. MaxLight]

RunDecreases(rg, r0) ==
  LET run[r \in [sky : Levels, dec : Seq(Entry), inc : Seq(Entry)]] ==
        IF r.dec = << >> THEN r
        ELSE LET e == Head(r.dec)
             IN run[FoldLeft(LAMBDA acc, d : Decrease(acc, e.level, Step(e.at, d), d),
                             [r EXCEPT !.dec = Tail(@)], Targets(rg, e))]
  IN run[r0]

RunIncreases(rg, r0) ==
  LET run[r \in [sky : Levels, dec : Seq(Entry), inc : Seq(Entry)]] ==
        IF r.inc = << >> THEN r
        ELSE LET e == Head(r.inc)
                 q == [r EXCEPT !.inc = Tail(@)]
             IN run[IF r.sky[e.at] # e.level THEN q
                    ELSE FoldLeft(LAMBDA acc, d : Increase(acc, e, Step(e.at, d), d),
                                  q, Targets(rg, e))]
  IN run[r0]
-----------------------------------------------------------------------------
(* Seeding and resynchronising a column.                                   *)

\* Where a source at row y of column k shines: down from the lowest one, and
\* into the columns that have no source at this row.
SourceDirs(f, s, k, y) ==
  { d \in Dirs : \/ d = "D" /\ y = s[k]
                 \/ d = "W" /\ y < NeighbourSrc(f, s, k - 1)
                 \/ d = "E" /\ y < NeighbourSrc(f, s, k + 1) }

\* The source rows of column k that are stored, from below.
SourceRows(rg, s, k) ==
  SelectSeq([i \in 1 .. Cardinality(LightRow) |-> i - 1 - SecHeight],
            LAMBDA y : y >= s[k] /\ SecOf(y) \in rg[k])

\* Every source row of column k gets its level and its entry.
Shine(r, rg, f, s, k) ==
  FoldLeft(LAMBDA acc, y :
             [acc EXCEPT !.sky[<<k, y>>] = MaxLight,
                         !.inc = @ \o IF SourceDirs(f, s, k, y) = {} THEN << >>
                                      ELSE Push(<<k, y>>, MaxLight, SourceDirs(f, s, k, y))],
           r, SourceRows(rg, s, k))

\* The rows below the lowest source that are still as bright as a source.
Leftover(rg, L, s, k) ==
  IF s[k] = Open THEN {}
  ELSE { y \in LightRow : y < s[k] /\
           \A z \in y .. s[k] - 1 : Stored(rg, <<k, z>>) /\ L[<<k, z>>] = MaxLight }

\* Mutant of Resync: what a raised source leaves below it is not cleared.
ResyncAddOnly(r, rg, f, s, k) == Shine(r, rg, f, s, k)

\* sky_resync_column
Resync(r, rg, f, s, k) ==
  LET gone == Leftover(rg, r.sky, s, k)
      cleared == FoldLeft(LAMBDA acc, i :
                   LET y == s[k] - i
                   IN [acc EXCEPT !.sky[<<k, y>>] = 0,
                                  !.dec = @ \o Push(<<k, y>>, MaxLight,
                                                    IF i = 1 THEN Dirs ELSE Dirs \ {"U"})],
                   r, [i \in 1 .. Cardinality(gone) |-> i])
  IN Shine(cleared, rg, f, s, k)

\* check_node, sky layer
CheckNode(r0, rg, f, sd, s, c) ==
  LET lit == c[1] \in sd
      r == IF lit THEN Resync(r0, rg, f, s, c[1]) ELSE r0
  IN IF ~ Stored(rg, c) THEN r
     ELSE IF lit /\ c[2] >= s[c[1]]
     THEN [r EXCEPT !.dec = @ \o Push(c, MaxLight, Dirs \ {"U"}),
                    !.inc = @ \o Push(c, MaxLight, Dirs \ {"U"})]
     ELSE [r EXCEPT !.sky[c] = 0,
                    !.dec = @ \o Push(c, Larger(1, r.sky[c]), Dirs)]
-----------------------------------------------------------------------------
(* The lowest source of a column, write by write.                          *)

\* find_lowest_source_below, from row y downwards.
LowestBelow(b, k, y) ==
  LET found == { z \in Row : z <= y /\ EdgeOccluded(At(b, k, z), At(b, k, z - 1)) }
  IN IF found = {} THEN Open ELSE Max(found)

\* Mutant of SrcUpdate: only the edge above the block is looked at.
SrcUpdateUpper(b, cur, k, y) ==
  LET closed == EdgeOccluded(At(b, k, y + 1), At(b, k, y))
  IN CASE y + 1 < cur -> cur
       [] y + 1 >= cur /\ closed -> Larger(cur, y + 1)
       [] y + 1 = cur /\ ~ closed -> LowestBelow(b, k, y)
       [] OTHER -> cur

\* src_y_update after a write at row y: the edge above the block, then the one
\* below it.
SrcUpdate(b, cur, k, y) ==
  LET closed(ya) == EdgeOccluded(At(b, k, ya), At(b, k, ya - 1))
  IN CASE y + 1 < cur -> cur
       [] y + 1 >= cur /\ closed(y + 1) /\ y + 1 > cur -> y + 1
       [] y + 1 = cur /\ ~ closed(y + 1) -> LowestBelow(b, k, y)
       [] y + 1 >= cur /\ ~ (closed(y + 1) /\ y + 1 > cur) /\ ~ (y + 1 = cur /\ ~ closed(y + 1)) ->
            IF closed(y) THEN Larger(cur, y)
            ELSE IF y = cur THEN LowestBelow(b, k, y - 1) ELSE cur
-----------------------------------------------------------------------------
(* The operations. *)

LightPropsDiffer(k1, k2) ==
  \/ k1.damp # k2.damp
  \/ (\E d \in Dirs : k1.faces[d] # {}) # (\E d \in Dirs : k2.faces[d] # {})

(* What SrcExact relies on.  FacesTell: states with equal light properties *)
(* close the same faces.  BedrockFloor: the lowest row is bedrock, so that *)
(* no column is open to the void.                                          *)
FacesTell == \A k1, k2 \in Kinds : ~ LightPropsDiffer(k1, k2) => k1.faces = k2.faces
BedrockFloor ==
  /\ Bedrock # Air /\ Bedrock.damp # 0
  /\ \A b \in Layouts, k \in Chunk : b[<<k, 0>>] = Bedrock

\* Ledges are remembered, for what SrcExact can promise.
Ledged(b, r) == ledged \cup { k \in r : Ledges(b, k) # {} }

Inner == 1 .. Chunks - 2

\* A decoration writes a block: mark_written, and for a chunk that has its 08
\* hc_light_accum_write_ctx.  Bedrock stays.
Write(c, kind) ==
  /\ writes < MaxWrites /\ c \in Written
  /\ blk[c] \notin {kind, Bedrock}
  /\ blk' = [blk EXCEPT ![c] = kind]
  /\ dirty' = dirty \cup {c[1]}
  /\ writes' = writes + 1
  /\ IF c[1] \in inR /\ LightPropsDiffer(blk[c], kind)
       THEN /\ src' = [src EXCEPT ![c[1]] = SrcUpdate(blk', src[c[1]], c[1], c[2])]
            /\ check' = Append(check, c)
            /\ geo' = IF c[1] \in ToSet(geo) THEN geo ELSE Append(geo, c[1])
            /\ early' = IF c[1] \in seeded THEN early ELSE early \cup {c[1]}
       ELSE UNCHANGED <<src, check, geo, early>>
  /\ ledged' = Ledged(blk', inR)
  /\ UNCHANGED <<feat, inR, seeded, reg, top, sky>>

\* hc_light_accum_flush_ctx: the sections first, then the checks, then the
\* two queues.
Flushed ==
  LET g == DeriveAll(Geometry, geo)
      r == FoldLeft(LAMBDA acc, c : CheckNode(acc, g.reg, feat, seeded, src, c),
                    [sky |-> g.sky, dec |-> << >>, inc |-> << >>], check)
  IN [g EXCEPT !.sky = RunIncreases(g.reg, RunDecreases(g.reg, r)).sky]

Flush ==
  /\ check # << >>
  /\ LET g == Flushed
     IN reg' = g.reg /\ top' = g.top /\ sky' = g.sky
  /\ dirty' = dirty \ ToSet(geo)
  /\ geo' = << >> /\ check' = << >>
  /\ UNCHANGED <<blk, feat, inR, seeded, src, early, ledged, writes>>

\* The end of a decoration: hc_light_set_featured.
SetFeatured(k) ==
  /\ k \in Inner \ feat /\ check = << >>
  /\ feat' = feat \cup {k}
  /\ UNCHANGED <<blk, inR, seeded, dirty, reg, top, src, sky, check, geo, early, ledged, writes>>

\* hc_light_accum_init_chunk
Init08(k) ==
  /\ k \in feat \ inR /\ check = << >>
  /\ inR' = inR \cup {k}
  /\ dirty' = dirty \ {k}
  /\ LET g == Derive(Geometry, blk, seeded, k)
     IN reg' = g.reg /\ top' = g.top /\ sky' = g.sky
  /\ src' = [src EXCEPT ![k] = Scan(blk, k)]
  /\ ledged' = Ledged(blk, inR')
  /\ UNCHANGED <<blk, feat, seeded, check, geo, early, writes>>

\* hc_light_accum_prepare
Prepare ==
  /\ check = << >> /\ dirty \cap inR # {}
  /\ LET g == DeriveAll(Geometry, InOrder(dirty \cap inR))
     IN reg' = g.reg /\ top' = g.top /\ sky' = g.sky
  /\ dirty' = dirty \ inR
  /\ UNCHANGED <<blk, feat, inR, seeded, src, check, geo, early, ledged, writes>>

\* hc_light_accum_light_chunk_ctx, in the circumstances FreeDriver.LitFresh
\* establishes: the neighbours have their 08 and no chunk near has changed.
Light09(k) ==
  /\ k \in inR \ seeded /\ check = << >>
  /\ Near(k) \subseteq inR /\ Near(k) \cap dirty = {}
  /\ seeded' = seeded \cup {k}
  /\ sky' = RunIncreases(reg, Shine([sky |-> sky, dec |-> << >>, inc |-> << >>],
                                    reg, feat, src, k)).sky
  /\ UNCHANGED <<blk, feat, inR, dirty, reg, top, src, check, geo, early, ledged, writes>>

Next ==
  \/ \E c \in Cell, kind \in Kinds : Write(c, kind)
  \/ \E k \in Chunk : SetFeatured(k) \/ Init08(k) \/ Light09(k)
  \/ Flush \/ Prepare

Spec == Init /\ [][Next]_vars
-----------------------------------------------------------------------------
(* The rule the stored levels obey at rest.  Every step of light costs at  *)
(* least one level, so one assignment of levels obeys it, the least one.   *)
LitCells == { c \in LightCell : Stored(reg, c) }
IsSource(c) == c[1] \in seeded /\ c[2] >= src[c[1]]

\* The levels that the stored neighbours of c in the chunks S pass on to c.
Passed(c, S) ==
  { sky[Step(c, d)] - Larger(1, State(blk, feat, c).damp) :
      d \in { e \in Dirs : /\ Stored(reg, Step(c, e)) /\ Step(c, e)[1] \in S
                          /\ ~ Occludes(c, e) } }

\* The incremental src_y of a chunk is always a row at which the sky does end,
\* or the column is open, and it is what a scan of the column would find, in
\* any order of live writes, as long as no ledge hid from a scan what a write
\* sees.
SrcExact ==
  \A k \in inR :
    /\ src[k] # Open => src[k] - 1 \in Edges(blk, k)
    /\ k \notin ledged => src[k] = Scan(blk, k)

\* hc_light_get, sky layer: the level a reader sees.
Read(c) ==
  LET above == { s \in reg[c[1]] : s >= SecOf(c[2]) }
  IN CASE SecOf(c[2]) >= top[c[1]] -> MaxLight
       [] Stored(reg, c) -> sky[c]
       [] OTHER -> sky[<<c[1], Min(above) * SecHeight>>]

\* At rest every level a reader sees is passed on by a neighbour or comes from
\* a source: no light is left of sources and blocks that are gone, and where no
\* light is stored a seeded chunk is open to the sky.
NoStaleSky ==
  check = << >> =>
    /\ \A c \in LitCells :
         \/ sky[c] = 0
         \/ IsSource(c) /\ sky[c] = MaxLight
         \/ \E l \in Passed(c, Chunk) : sky[c] <= l
    /\ \A c \in { b \in LightCell : b[1] \in seeded /\ ~ Stored(reg, b) } :
         Read(c) > 0 => IsSource(c)

\* At rest a seeded chunk has all the light of its sources and of its seeded
\* neighbours.
NoDarkSpot ==
  check = << >> /\ dirty = {} /\ early = {} =>
    /\ \A c \in { b \in LightCell : b[1] \in seeded } : IsSource(c) => Read(c) = MaxLight
    /\ \A c \in { b \in LitCells : b[1] \in seeded } :
         \A l \in Passed(c, seeded) : sky[c] >= l

\* At rest sky light is a fixed point of sources and blocks, from both sides.
SkyAtRest == NoStaleSky /\ NoDarkSpot
=============================================================================
