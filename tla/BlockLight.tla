----------------------------- MODULE BlockLight -----------------------------
(***************************************************************************)
(* The incremental block-light engine of core/src/light_engine.c:          *)
(* hc_light_accum_write_ctx queues a check for a changed block,            *)
(* hc_light_accum_light_chunk_ctx seeds the sources of a chunk, and        *)
(* hc_light_accum_flush_ctx turns the queued checks into a decrease pass   *)
(* and an increase pass.  One context is modelled: the event graph lets no *)
(* two contexts touch the same cells (FreeDriver, ReplayOrder).            *)
(*                                                                         *)
(* The world is a vertical slice: four directions instead of six, two      *)
(* halves of a face instead of four quarters.  Every cell of it belongs to *)
(* a registered section.                                                   *)
(***************************************************************************)
EXTENDS Integers, Sequences, FiniteSets, SequencesExt

CONSTANTS
  Width, Height,  \* cells of the slice
  ChunkWidth,     \* columns of a chunk
  MaxLight,       \* the brightest level, 15 in the code
  Kinds,          \* block kinds in play: [damp, emit, faces]
  Layouts,        \* the blocks a run may start from, [Cell -> Kinds]
  MaxWrites       \* bound: writes of one behaviour

Dirs == {"D", "U", "W", "E"}
Opp == [D |-> "U", U |-> "D", W |-> "E", E |-> "W"]
Cell == (0 .. Width - 1) \X (0 .. Height - 1)
ChunkOf(c) == c[1] \div ChunkWidth
Chunk == {ChunkOf(c) : c \in Cell}

Step(c, d) ==
  CASE d = "D" -> <<c[1], c[2] - 1>>
    [] d = "U" -> <<c[1], c[2] + 1>>
    [] d = "W" -> <<c[1] - 1, c[2]>>
    [] d = "E" -> <<c[1] + 1, c[2]>>

Larger(a, b) == IF a >= b THEN a ELSE b
Faces == {"lo", "hi"}

(* What a box is made of; the levels of a kind are levels of light. *)
Lamp == [damp : 0 .. MaxLight, emit : 0 .. MaxLight, faces : [Dirs -> SUBSET Faces]]
BoxAssumption ==
  /\ Width \in Nat /\ Height \in Nat
  /\ ChunkWidth \in Nat \ {0}
  /\ MaxLight \in Nat \ {0} /\ MaxWrites \in Nat
  /\ Kinds \subseteq Lamp
  /\ Layouts \subseteq [Cell -> Kinds]

VARIABLES
  blk,     \* the blocks, written before the engine is told
  light,   \* the stored levels of the block layer
  seeded,  \* the chunks whose sources are enabled
  check,   \* the pending checks, oldest first
  dec,     \* the decrease queue
  inc,     \* the increase queue
  phase,   \* what the engine is doing: "idle", "check", "dec" or "inc"
  writes   \* writes so far, up to MaxWrites

vars == <<blk, light, seeded, check, dec, inc, phase, writes>>

Entry == [at : Cell, level : 1 .. MaxLight, dirs : SUBSET Dirs, em : BOOLEAN]

(* Types; the queues hold entries, and are empty when the engine is idle. *)
TypeOK ==
  /\ blk \in [Cell -> Kinds]
  /\ light \in [Cell -> 0 .. MaxLight]
  /\ seeded \in SUBSET Chunk
  /\ check \in Seq(Cell)
  /\ dec \in Seq(Entry)
  /\ inc \in Seq(Entry)
  /\ phase \in {"idle", "check", "dec", "inc"}
  /\ phase = "idle" => dec = <<>> /\ inc = <<>>
  /\ writes \in 0 .. MaxWrites

-----------------------------------------------------------------------------
(* How blocks act on light. *)

(* shapeOccludes: the two facing sides together close the whole face. *)
Occludes(b, c, d) == b[c].faces[d] \cup b[Step(c, d)].faces[Opp[d]] = Faces

(* What entering a cell costs. *)
Loss(b, c) == Larger(1, b[c].damp)

(* A block shines only in a chunk whose sources are enabled. *)
EmitOf(b, s, c) == IF ChunkOf(c) \in s THEN b[c].emit ELSE 0

LightPropsDiffer(k1, k2) ==
  \/ k1.damp # k2.damp
  \/ k1.emit # k2.emit
  \/ (\E d \in Dirs : k1.faces[d] # {}) # (\E d \in Dirs : k2.faces[d] # {})

(* What the engine relies on and does not look at.  FacesTell: states      *)
(* with equal light properties close the same faces (block_light_turned    *)
(* shows a palette without it).  SourcesOpen: a source closes no face.     *)
FacesTell == \A k1, k2 \in Kinds : ~LightPropsDiffer(k1, k2) => k1.faces = k2.faces
SourcesOpen == \A k \in Kinds : k.emit > 0 => \A d \in Dirs : k.faces[d] = {}

-----------------------------------------------------------------------------
(* Queues.  A survivor of the decrease pass and a source found on its way  *)
(* are entries of the increase queue.                                      *)

Push(c, l, ds, e) == <<[at |-> c, level |-> l, dirs |-> ds, em |-> e]>>

(* An entry visits a neighbour in a direction of its mask.                 *)
Visits(e, d) == d \in e.dirs /\ Step(e.at, d) \in Cell

(* check_node, block layer: clear a cell that is too bright, else ask its  *)
(* neighbours for their light (PULL_LIGHT_IN); let a source shine again.   *)
CheckNode(L, c) ==
  LET em == EmitOf(blk, seeded, c)
  IN [light |-> IF em < L[c] THEN [L EXCEPT ![c] = 0] ELSE L,
      dec |-> Push(c, IF em < L[c] THEN L[c] ELSE 1, Dirs, FALSE),
      inc |-> IF em > 0 THEN Push(c, em, Dirs, TRUE) ELSE <<>>]

(* Mutants of the engine's steps: slips the properties must notice. *)

\* a source met by the decrease pass is cleared and forgotten
DecreaseForgetsSource(r, from, c, d) ==
  LET nl == r.light[c]
  IN IF nl = 0 THEN r
     ELSE IF nl <= from - 1
     THEN [r EXCEPT !.light[c] = 0,
                    !.dec = @ \o IF EmitOf(blk, seeded, c) < nl
                            THEN Push(c, nl, Dirs \ {Opp[d]}, FALSE) ELSE <<>>]
     ELSE [r EXCEPT !.inc = @ \o Push(c, nl, {Opp[d]}, FALSE)]

\* a neighbour as bright as the entry lets it be is taken for a survivor
DecreaseOffByOne(r, from, c, d) ==
  LET nl == r.light[c]
      em == EmitOf(blk, seeded, c)
  IN IF nl = 0 THEN r
     ELSE IF nl < from - 1
     THEN [light |-> [r.light EXCEPT ![c] = 0],
           dec |-> r.dec \o IF em < nl
                            THEN Push(c, nl, Dirs \ {Opp[d]}, FALSE) ELSE <<>>,
           inc |-> r.inc \o IF em > 0 THEN Push(c, em, Dirs, TRUE) ELSE <<>>]
     ELSE [r EXCEPT !.inc = @ \o Push(c, nl, {Opp[d]}, FALSE)]

(* run_decreases, one entry.  A neighbour the entry may have lit is        *)
(* cleared and passes the news on; a brighter one survives and shines      *)
(* back. *)
Decrease(r, from, c, d) ==
  LET nl == r.light[c]
      em == EmitOf(blk, seeded, c)
  IN IF nl = 0 THEN r
     ELSE IF nl <= from - 1
     THEN [light |-> [r.light EXCEPT ![c] = 0],
           dec |-> r.dec \o IF em < nl
                            THEN Push(c, nl, Dirs \ {Opp[d]}, FALSE) ELSE <<>>,
           inc |-> r.inc \o IF em > 0 THEN Push(c, em, Dirs, TRUE) ELSE <<>>]
     ELSE [r EXCEPT !.inc = @ \o Push(c, nl, {Opp[d]}, FALSE)]

(* The neighbours of an entry, in the code's order of directions.          *)
DecreaseToward(r, e, d) ==
  IF Visits(e, d) THEN Decrease(r, e.level, Step(e.at, d), d) ELSE r
DecreaseEntry(r, e) ==
  DecreaseToward(DecreaseToward(
    DecreaseToward(DecreaseToward(r, e, "D"), e, "U"), e, "W"), e, "E")

(* bfs_run, one entry: a neighbour that gains light passes it on. *)
Increase(r, from, src, c, d) ==
  LET nl == from - Loss(blk, c)
  IN IF nl <= r.light[c] \/ Occludes(blk, src, d) THEN r
     ELSE [light |-> [r.light EXCEPT ![c] = nl],
           inc |-> r.inc \o IF nl > 1
                            THEN Push(c, nl, Dirs \ {Opp[d]}, FALSE) ELSE <<>>]

IncreaseToward(r, e, d) ==
  IF Visits(e, d) THEN Increase(r, e.level, e.at, Step(e.at, d), d) ELSE r

(* A source writes its own level first; an entry whose level is not the    *)
(* stored one is stale.                                                    *)
IncreaseEntry(r, e) ==
  LET L == IF e.em /\ r.light[e.at] < e.level
           THEN [r.light EXCEPT ![e.at] = e.level] ELSE r.light
  IN IF L[e.at] # e.level THEN [r EXCEPT !.light = L]
     ELSE IncreaseToward(IncreaseToward(
            IncreaseToward(IncreaseToward([r EXCEPT !.light = L], e, "D"),
              e, "U"), e, "W"), e, "E")

-----------------------------------------------------------------------------
Init ==
  /\ blk \in Layouts
  /\ light = [c \in Cell |-> 0]
  /\ seeded = {}
  /\ check = <<>> /\ dec = <<>> /\ inc = <<>>
  /\ phase = "idle"
  /\ writes = 0

(* A block write, with its hook hc_light_accum_write_ctx. *)
Write(c, k) ==
  /\ phase = "idle"
  /\ writes < MaxWrites
  /\ k # blk[c]
  /\ blk' = [blk EXCEPT ![c] = k]
  /\ check' = IF LightPropsDiffer(blk[c], k) THEN Append(check, c) ELSE check
  /\ writes' = writes + 1
  /\ UNCHANGED <<light, seeded, dec, inc, phase>>

(* seed_block_chunk: every source of the chunk, row by row from below. *)
SeedAt(c) == IF c \in Cell /\ blk[c].emit > 0 THEN Push(c, blk[c].emit, Dirs, TRUE) ELSE <<>>
SeedRow(k, y) == FlattenSeq([i \in 1 .. ChunkWidth |-> SeedAt(<<k * ChunkWidth + i - 1, y>>)])
Seeds(k) == FlattenSeq([y \in 1 .. Height |-> SeedRow(k, y - 1)])

(* hc_light_accum_light_chunk_ctx, up to the flood of its seeds. *)
Seed(k) ==
  /\ phase = "idle" /\ check = <<>>
  /\ k \notin seeded
  /\ seeded' = seeded \cup {k}
  /\ inc' = Seeds(k)
  /\ phase' = "inc"
  /\ UNCHANGED <<blk, light, check, dec, writes>>

(* hc_light_accum_flush_ctx; a flush without checks returns at once. *)
Flush ==
  /\ phase = "idle" /\ check # <<>>
  /\ phase' = "check"
  /\ UNCHANGED <<blk, light, seeded, check, dec, inc, writes>>

\* the last check is taken for one of several
CheckNextOneMore ==
  /\ phase = "check" /\ check # <<>>
  /\ LET r == CheckNode(light, Head(check))
     IN light' = r.light /\ dec' = dec \o r.dec /\ inc' = inc \o r.inc
  /\ check' = Tail(check)
  /\ phase' = IF Len(check) = 0 THEN "dec" ELSE "check"
  /\ UNCHANGED <<blk, seeded, writes>>

CheckNext ==
  /\ phase = "check" /\ check # <<>>
  /\ LET r == CheckNode(light, Head(check))
     IN light' = r.light /\ dec' = dec \o r.dec /\ inc' = inc \o r.inc
  /\ check' = Tail(check)
  /\ phase' = IF Len(check) = 1 THEN "dec" ELSE "check"
  /\ UNCHANGED <<blk, seeded, writes>>

DecNext ==
  /\ phase = "dec" /\ dec # <<>>
  /\ LET r == DecreaseEntry([light |-> light, dec |-> Tail(dec), inc |-> inc],
                            Head(dec))
     IN light' = r.light /\ dec' = r.dec /\ inc' = r.inc
  /\ UNCHANGED <<blk, seeded, check, phase, writes>>

DecDrained ==
  /\ phase = "dec" /\ dec = <<>>
  /\ phase' = "inc"
  /\ UNCHANGED <<blk, light, seeded, check, dec, inc, writes>>

IncNext ==
  /\ phase = "inc" /\ inc # <<>>
  /\ LET r == IncreaseEntry([light |-> light, inc |-> Tail(inc)], Head(inc))
     IN light' = r.light /\ inc' = r.inc
  /\ UNCHANGED <<blk, seeded, check, dec, phase, writes>>

IncDrained ==
  /\ phase = "inc" /\ inc = <<>>
  /\ phase' = "idle"
  /\ UNCHANGED <<blk, light, seeded, check, dec, inc, writes>>

Engine == CheckNext \/ DecNext \/ DecDrained \/ IncNext \/ IncDrained

Next ==
  \/ \E c \in Cell, k \in Kinds : Write(c, k)
  \/ \E k \in Chunk : Seed(k)
  \/ Flush
  \/ Engine

(* The engine is a loop of one thread: it goes on until its queues drain.  *)
Spec == Init /\ [][Next]_vars /\ WF_vars(Engine)

-----------------------------------------------------------------------------
(* The reference: the least levels such that a source has at least its     *)
(* emission and a cell at least what each neighbour passes into it.  Light *)
(* fades, so MaxLight rounds from darkness reach it.                       *)

Offer(L, c, d) ==
  IF Step(c, d) \in Cell /\ ~Occludes(blk, c, d) THEN L[Step(c, d)] - Loss(blk, c) ELSE 0

Relax(L) ==
  [c \in Cell |->
     Larger(EmitOf(blk, seeded, c),
            Larger(Larger(Offer(L, c, "D"), Offer(L, c, "U")),
                   Larger(Offer(L, c, "W"), Offer(L, c, "E"))))]

Lfp ==
  LET round[n \in 0 .. MaxLight] ==
        IF n = 0 THEN [c \in Cell |-> 0] ELSE Relax(round[n - 1])
  IN round[MaxLight]

(* Whenever the engine rests with no check pending, the stored light is    *)
(* the least fixed point of the blocks and the seeded chunks: no shadow of *)
(* a removed source, no cell left dark, whatever the order, the grouping   *)
(* and the repetition of the writes (hc_light.h: a flush rebuilds the      *)
(* local least fixed point, so the grouping does not change the result).   *)
LfpAtRest == phase = "idle" /\ check = <<>> => light = Lfp

(* Once the decrease pass is over nothing is brighter than the blocks      *)
(* justify: the increase pass only ever adds, so light that outlives its   *)
(* source here would stay for good.                                        *)
NeverTooBright ==
  phase = "inc" => LET goal == Lfp IN \A c \in Cell : light[c] <= goal[c]

(* A flush and a seeding end: the two queues cannot feed each other for    *)
(* ever, whatever the light they start from.                               *)
Settles == (phase # "idle") ~> (phase = "idle")

=============================================================================
