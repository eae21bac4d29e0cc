------------------------------ MODULE FreeDriver ------------------------------
(***************************************************************************)
(* The FREE-mode driver of bench/hyperchunk_bench.c: the event graph it    *)
(* builds for the decoration and lighting of a region, and what its events *)
(* do to the shared light world (core/src/light_engine.c, hc_light_accum_* *)
(* functions) when they are executed in any order the scheduler's contract *)
(* (ConflictOrder.tla, implemented by Sched.tla) allows.                    *)
(*                                                                         *)
(* The world is a rectangle of chunks.  Blocks, light values and section   *)
(* masks are not modelled; for every chunk the model keeps the flags of    *)
(* its light slot and whether its blocks changed since its geometry was    *)
(* last derived from them.  An event takes effect when it finishes; that   *)
(* nobody looks in between is what NoRace says.                             *)
(***************************************************************************)
EXTENDS ConflictOrder, SequencesExt

CONSTANTS
  W, D,       \* the world is W x D chunks (the code: WN x WN)
  Manifest,   \* the decorated chunks, in manifest order
  Pieces      \* the structure pieces: for each, the chunks its box touches

Chunk == (0 .. W - 1) \X (0 .. D - 1)

ASSUME WorldAssumption ==
  /\ W \in Nat \ {0} /\ D \in Nat \ {0}
  /\ Manifest \in Seq(Chunk) /\ IsInjective(Manifest)
  /\ Pieces \in Seq(SUBSET Chunk)

-----------------------------------------------------------------------------
(* The event graph.                                                        *)

\* The chunks within r of c, inside the world (emit_box_cells).
Box(c, r) == { d \in Chunk : /\ d[1] \in c[1] - r .. c[1] + r
                             /\ d[2] \in c[2] - r .. c[2] + r }

\* deco_set
Decorated == ToSet(Manifest)

\* The bucket of a chunk: its residues in the 5 x 5 stride.
Bucket(c) == 5 * (c[1] % 5) + (c[2] % 5)

\* has08 after bucket b
Has08(b) == { c \in Decorated : Bucket(c) <= b }

\* The chunks that do not lie on the border of the world.
Interior == { c \in Chunk : c[1] \in 1 .. W - 2 /\ c[2] \in 1 .. D - 2 }

\* The chunks that may be lit after bucket b: the whole 3 x 3 has its 08.
Pyramid(b) ==
  { c \in Interior \cap Has08(b) : Box(c, 1) \subseteq Has08(b) }

\* elig: the chunks that became lightable with bucket b.
Newly(b) == Pyramid(b) \ Pyramid(b - 1)

CellId(c) == c[2] * W + c[1]

\* An event: what it does, where, the bucket in which it is pushed, and its
\* turn in there.  The chunks of a bucket come in manifest order, each with its
\* 08 right behind its decoration, then the prepare, then the lightable chunks
\* row by row.
Ev(kind, c, b, t) == [kind |-> kind, at |-> c, bucket |-> b, turn |-> t]
NoChunk == << -1, -1 >>
PrepareTurn == 2 * Len(Manifest) + 2
Turns == PrepareTurn + 1 + W * D

Deco(k) == Ev("deco", Manifest[k], Bucket(Manifest[k]), 2 * k)
L08(k) == Ev("l08", Manifest[k], Bucket(Manifest[k]), 2 * k + 1)

\* Mutant of Barrier: the prepare is pushed behind the 09 events.
BarrierLast(b) == Ev("prepare", NoChunk, b, Turns - 1)
Barrier(b) == Ev("prepare", NoChunk, b, PrepareTurn)

\* Mutant of L09: the cell index is split by the wrong side of the world.
L09OtherSide(c, b) ==
  Ev("l09", << CellId(c) % D, CellId(c) \div D >>, b, PrepareTurn + 1 + CellId(c))
L09(c, b) == Ev("l09", c, b, PrepareTurn + 1 + CellId(c))

\* A decorated chunk gives its decoration and its 08.
DecoAnd08 == UNION { { Deco(k), L08(k) } : k \in DOMAIN Manifest }

\* What follows bucket b when chunks became lightable: a global prepare, and
\* their 09 events.
Batch(b) ==
  IF Newly(b) = {} THEN {}
  ELSE { Barrier(b) } \cup { L09(c, b) : c \in Newly(b) }

EventSet == DecoAnd08 \cup UNION { Batch(b) : b \in 0 .. 24 }

\* Bucket by bucket, turn by turn.
Key(ev) == ev.bucket * Turns + ev.turn

\* The members of a finite set of numbers, the least first.
Ascending(S) ==
  [k \in 1 .. Cardinality(S) |-> CHOOSE x \in S : Cardinality({ y \in S : y < x }) = k - 1]

EventOf(key) == CHOOSE ev \in EventSet : Key(ev) = key

\* g_evs: the whole list, in base order; event e is Events[e + 1].
Events ==
  LET keys == Ascending({ Key(ev) : ev \in EventSet })
  IN [k \in DOMAIN keys |-> EventOf(keys[k])]

ASSUME CountAssumption == N = Len(Events)

Kind(e) == Events[e + 1].kind
At(e) == Events[e + 1].at

\* g_live_at: the index of the chunk's 08 event (Never: INT32_MAX).
Never == Len(Events)
LiveAt ==
  LET of(c) == { e \in Event : Kind(e) = "l08" /\ At(e) = c }
  IN [c \in Chunk |-> IF of(c) = {} THEN Never ELSE CHOOSE e \in of(c) : TRUE]

\* Mutant of Radius: a decoration declares the chunks it writes blocks to.
RadiusOfWrites(kind) == 1

\* The radius each kind of event declares (push_event's callers).
Radius(kind) == IF kind = "deco" THEN 2 ELSE 1

\* Virtual cells: one per structure piece whose box meets the chunk.
PieceCells(c) == { W * D + k - 1 : k \in { j \in DOMAIN Pieces : c \in Pieces[j] } }

\* push_event: the cells of an event; none for the global prepare.
CellSet(ev) ==
  IF ev.kind = "prepare" THEN {}
  ELSE { CellId(d) : d \in Box(ev.at, Radius(ev.kind)) }
         \cup (IF ev.kind = "deco" THEN PieceCells(ev.at) ELSE {})

CellLists ==
  LET es == Events
  IN [e \in Event |-> Ascending(CellSet(es[e + 1]))]

\* The earlier events each event waits for, by the contract (ConflictOrder).
Earlier ==
  LET ls == CellLists
  IN [e \in Event |-> { f \in 0 .. e - 1 : Conflict(ls, e, f) }]

-----------------------------------------------------------------------------
VARIABLES
  edits,    \* what the decorations of this history write: see Edits
  feat,     \* chunks with feat_done
  inR,      \* chunks with in_r (their 08 has run)
  seeded,   \* chunks with enabled and seeded (their 09 has run)
  dirty,    \* chunks with blk_dirty
  stale,    \* chunks whose blocks changed after their last derivation
  abort     \* the first fail-loud message of the light engine, or "none"

light == << feat, inR, seeded, dirty, stale, abort >>
freeVars == << absVars, edits, light >>

\* How far a decoration's writes reach, and whether they change light
\* properties (a write that does not is reported by mark_written only).
Edits == { [reach |-> 1, lit |-> TRUE], [reach |-> 1, lit |-> FALSE],
           [reach |-> 0, lit |-> TRUE] }

Init ==
  /\ evs = CellLists /\ started = {} /\ done = {}
  /\ edits \in Edits
  /\ feat = {} /\ inR = {} /\ seeded = {} /\ dirty = {} /\ stale = {}
  /\ abort = "none"

\* The scheduler enters the callback of e (Enabled(e) of the contract).
Begin(e) ==
  /\ e \notin started
  /\ Earlier[e] \subseteq done
  /\ started' = started \cup {e}
  /\ UNCHANGED << evs, done, edits, light >>

\* Mutant of WindowLive: the filter compares with the wrong index.
WindowLiveEarly(e, c) == LiveAt[c] # Never /\ e + 1 >= LiveAt[c]

\* fw_light_write_hook: a write at chunk c during decoration e passes the
\* frozen-window filter.
WindowLive(e, c) == LiveAt[c] # Never /\ e >= LiveAt[c]

\* exec_ev, decoration: the features write their window, every changed block
\* is reported dirty, the ones in live chunks that change light are checked
\* and flushed, which derives the geometry of their chunks again.
Decorate(e) ==
  /\ Kind(e) = "deco"
  /\ LET written == Box(At(e), edits.reach)
         live == IF edits.lit THEN { c \in written : WindowLive(e, c) } ELSE {}
     IN /\ abort' = IF abort = "none" /\ ~ live \subseteq inR
                    THEN "live write into pre-08 chunk" ELSE abort
        /\ dirty' = (dirty \cup written) \ live
        /\ stale' = (stale \cup (written \cap inR)) \ live
  /\ feat' = feat \cup {At(e)}
  /\ UNCHANGED << inR, seeded >>

\* hc_light_accum_init_chunk: registers the chunk and derives its geometry.
Init08(e) ==
  /\ Kind(e) = "l08"
  /\ abort' = CASE abort # "none" -> abort
                [] At(e) \notin feat -> "accum 08 before featured"
                [] At(e) \in inR -> "accum repeated 08"
                [] OTHER -> "none"
  /\ inR' = inR \cup {At(e)}
  /\ dirty' = dirty \ {At(e)}
  /\ stale' = stale \ {At(e)}
  /\ UNCHANGED << feat, seeded >>

\* hc_light_accum_prepare: derives the registered chunks that are dirty.
Prepare(e) ==
  /\ Kind(e) = "prepare"
  /\ dirty' = dirty \ inR
  /\ stale' = stale \ (inR \cap dirty)
  /\ UNCHANGED << feat, inR, seeded, abort >>

\* hc_light_accum_light_chunk_ctx: the 09 of a chunk.
Light09(e) ==
  /\ Kind(e) = "l09"
  /\ abort' = CASE abort # "none" -> abort
                [] At(e) \notin inR -> "accum light before register"
                [] At(e) \in seeded -> "accum re-seed"
                [] OTHER -> "none"
  /\ seeded' = seeded \cup {At(e)}
  /\ UNCHANGED << feat, inR, dirty, stale >>

\* The callback of e returns.
End(e) ==
  /\ e \in started \ done
  /\ done' = done \cup {e}
  /\ Decorate(e) \/ Init08(e) \/ Prepare(e) \/ Light09(e)
  /\ UNCHANGED << evs, started, edits >>

Returned == done = Event /\ UNCHANGED freeVars

Next == Returned \/ \E e \in Event : Begin(e) \/ End(e)

\* The scheduler starts what may start, and callbacks return.
Spec == Init /\ [][Next]_freeVars /\ \A e \in Event : WF_freeVars(Begin(e) \/ End(e))

-----------------------------------------------------------------------------
Running == started \ done

\* The chunks an event may read or write while it runs, by kind of data
\* (features.c: blocks are written within 1 and read within 2 of the centre,
\* and asking a height within 2 may compute the map it reads, hm_prime_one;
\* light_engine.c: a flush reaches one chunk beyond the writes, an 08 derives
\* the masks of its neighbours, a 09 floods at most 14 blocks).
ReadSet(e) ==
  CASE Kind(e) = "deco" -> { << "blocks", c >> : c \in Box(At(e), 2) }
                             \cup { << "light", c >> : c \in Box(At(e), 2) }
    [] Kind(e) = "l08"  -> { << "blocks", At(e) >> }
    [] Kind(e) = "l09"  -> { << "blocks", c >> : c \in Box(At(e), 1) }
                             \cup { << "light", c >> : c \in Box(At(e), 1) }
    [] OTHER            -> { << "blocks", c >> : c \in Chunk }
WriteSet(e) ==
  CASE Kind(e) = "deco" -> { << "blocks", c >> : c \in Box(At(e), 1) }
                             \cup { << "heights", c >> : c \in Box(At(e), 2) }
                             \cup { << "light", c >> : c \in Box(At(e), 2) }
                             \cup { << "piece", k >> : k \in { j \in DOMAIN Pieces : At(e) \in Pieces[j] } }
    [] Kind(e) = "l08"  -> { << "light", c >> : c \in Box(At(e), 1) }
    [] Kind(e) = "l09"  -> { << "light", c >> : c \in Box(At(e), 1) }
    [] OTHER            -> { << "light", c >> : c \in Chunk }

\* No two callbacks that run at the same time touch the same data, one of them
\* writing: the declared cells cover what the stages really do.
NoRace ==
  \A e, f \in Running :
    e # f => WriteSet(e) \cap (WriteSet(f) \cup ReadSet(f)) = {}

\* The frozen-window filter, which compares two indices fixed in advance,
\* agrees at any moment of a decoration with what has really happened: a chunk
\* the decoration can reach is live exactly when its 08 has run.
WindowExact ==
  \A e \in Running : Kind(e) = "deco" =>
    \A c \in Box(At(e), 2) : WindowLive(e, c) <=> c \in inR

\* The light engine never aborts: no 08 before the features, no second 08, no
\* 09 without 08 or twice, no live write into a chunk without 08.
NoAbort == abort = "none"

\* While a chunk is lit, its whole 3 x 3 has its 08, and no block of it has
\* changed since the geometry the flood runs on was derived from it.
LitFresh ==
  \A e \in Running : Kind(e) = "l09" =>
    \A c \in Box(At(e), 1) : c \in inR /\ c \notin stale

\* prepare skips the chunks that are not dirty; such a chunk is not stale.
SkipIsSound == stale \subseteq dirty

\* The light phases do not depend on the timing: they never abort, never read
\* what has changed since it was prepared, and skip nothing that has.
LightSound == NoAbort /\ LitFresh /\ SkipIsSound

\* Every chunk whose 3 x 3 is decorated is lit in the end, and no other is.
Lightable == { c \in Interior : Box(c, 1) \subseteq Decorated }
EveryChunkLit == <>[](seeded = Lightable)
-----------------------------------------------------------------------------
\* A small instance: decorated chunks in columns 1 .. 11 and rows 1 .. 3, in row order
\* from the far end: three chunks of one bucket in a row, and lightable ones in
\* between.  Two chunks of the same bucket share one piece.
Strip == [k \in 1 .. 33 |-> << 11 - ((k - 1) % 11), 1 + ((k - 1) \div 11) >>]
OnePiece == << { << 1, 1 >>, << 11, 1 >> } >>
CellSpace == 0 .. W * D + Len(Pieces) - 1
TheInput == { CellLists }

==============================================================================
