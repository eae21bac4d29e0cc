# hyperchunk: specifications, model checking and proofs

This directory describes hyperchunk, a bit-exact reimplementation of Minecraft world generation in C11, in
TLA+: what its concurrent scheduler, its drivers, its incremental light engine, its shared recorders and the stages
that make, decorate and save a chunk do, which properties make them correct, and why those properties hold. TLC checks
the models on small instances; TLAPS proves the theorems listed below for every value of the constants. Paths such as `core/src/sched.c` are relative to the
root of the repository.

## 1. The system

hyperchunk generates one region of 32 x 32 chunks with a margin around it, 36 x 36 chunks altogether, and prints the
SHA-256 of the serialized region (`bench/hyperchunk_bench.c`); `cli/hyperchunk_verify.c` does the same with one thread
and compares every stage with recorded files. A run has six phases:

1. **chain**: noise, surface and carvers, chunk by chunk, by worker threads that share nothing but a counter;
2. **event graph**: decoration (features and structures) of a chunk writes into its neighbours, so the order of
   decorations matters. In *REPLAY* mode the order recorded from the reference server is replayed by a plain loop; in
   *FREE* mode the driver makes its own order (the *base order*), and `hc_sched_run` executes the events with a
   pool of workers, out of order where no conflict forbids it. Initialising the light of a chunk (08), lighting it
   (09) and a global preparation before a batch of 09 are events as well;
3. **freeze** of the postprocessing marks;
4. **postprocess**: the marks of every promoted chunk are drained, with live light updates;
5. **final flush** of the light and a snapshot of the light slots of the region;
6. **serialization** to NBT, in parallel in FREE mode, hashed in index order.

The promise of FREE mode is that it gives the bytes of REPLAY of the same base order whatever the number of threads
(`core/include/hc_sched.h`). That promise is what most of this project is about.

### 1.1 Components

For every component: its state, its operations, whom it talks to, what is hard about it, and what makes it correct.

**Scheduler** (`core/src/sched.c`). State: a FIFO of incomplete events per cell, a count of the cells at which an
event still waits, the list of global barriers, the parked events, the ready ring, the completion counter, a mutex and
a condition variable. Operations: build the tables, the worker loop, `complete`. It calls back into the driver
(`exec_ev`). Hard: lost wake-ups, barriers meeting completions, a ring that holds each event at most once, termination.
Correct when conflicting events run in base order and never together, every event runs once, and the call returns.

**FREE driver** (`bench/hyperchunk_bench.c:628-829, 1542-1674`). State: the event list, the cells of every event, the
index `g_live_at` of the event from which on the writes to a chunk reach the light engine. Operations: the building of
the graph in 25 buckets, `exec_ev` with its hooks. Hard: the cells an event declares must cover what it touches; the
filter of light writes is computed before anything runs and must be right when it is used. Correct when no two running
events race, no fail-loud message of the light engine can appear, and every chunk whose neighbourhood is decorated gets
its light from fresh geometry.

**REPLAY driver** (`bench/hyperchunk_bench.c:919-1060, 1521-1541, 1675-1711`). State: the recorded tasks, their
assignment to batches, a position counter. Operations: parsing of the stage log, assignment of 09 tasks to drains of the
light thread, the interleaving of decorations, 08 and batches. Hard: the batches are reconstructed from time stamps.

**Chain phase** (`bench/hyperchunk_bench.c:532-587`). Workers claim chunks with a relaxed fetch-and-add and rewind
their arena after each. Correct when every chunk is generated exactly once and nothing outlives a rewind.

**Serialization pipeline** (`bench/hyperchunk_bench.c:831-898, 1646-1674, 1840-1911`). State: the latch (flag, mutex,
condition variable), an atomic index, one release flag per chunk, the identifiers of the threads. A spawner thread
creates the workers while the main thread is still postprocessing. Hard: threads that are born before, while or after
the latch opens; joins of identifiers written by another thread. Correct when the hash is fed the stream of the REPLAY
loop, from blocks and light that have become final.

**Light engine** (`core/src/light_engine.c`). State per chunk: registered sections, their top, the lowest sky source
of every column (`src_y`), two arrays of levels, flags; per context: the pending checks and two queues. Operations:
08, 09, prepare, write hook, flush, the batch solver, readers. Hard: removal of light is a decrease pass that must
clear everything the removed source lit, and an increase pass that must restore the rest; `src_y` is kept write by
write; sections appear while light is already stored. Correct when the light at rest is the least fixed point of the
blocks.

**Height maps** (`core/src/gen_noise_stage.c, surface.c, carvers.c, features.c, chunk_nbt.c`). Two maps kept during
the chain, four final maps that come into being lazily and are then updated incrementally; bulk writes skip the update.
Correct when a map always equals a scan of the blocks.

**Tick recorder, block entity recorder** (`core/src/features.c, structures.c`). Arrays shared by all workers under spin
locks, one with a hash table. Events that do not conflict append to them in any order; the save reads the entries of
one chunk. Correct when the projection on a chunk does not depend on the schedule.

**Postprocessing** (`core/src/postprocess.c`), with the marks of `chunk.c`. State: the marks of every chunk until they
are frozen, the world, a stack and a layer of waiting neighbour updates, the ticks. Operations: drain the marks of a
chunk, adjust a block to its neighbours, let a liquid tick. Hard: an update may write, and its own updates come before
those already waiting. Correct when the stack gives the order of the direct recursion and no touched liquid is left
without its tick.

**Trees** (`core/src/features_tree.c`). State of one placement: three hash sets (logs, leaves, decorations), the world,
the levels of the distance search, a shape. Hard: which cells may be taken, which set knows them, in which order the
sets are walked; leaf distances; faces told once, from both sides. Correct when a tree takes only what it may, and
what the later passes read of it is what it did.

**Java collections** (`core/src/jset.c`). State: a `java.util.HashSet` down to its red-black bins, because random
numbers are drawn in its iteration order. Correct when it is a set, its bins are search trees linked with their
chains, and polling keeps the order.

**Noise chunk and density functions** (`noise_chunk.c, df_*.c`). State: compiled graphs, the lazy programs made of
them, flat caches, slices, and a scratch array that keeps the values of earlier points; three interpreters, by point,
by vectors of eight and by vectors of four. Hard: everything that is skipped must not be read; all back ends must give the
same bits. Correct when an evaluation gives the meaning of its expression.

**Surface rules** (`surface.c, surface_compile.c`), **aquifer** (`aquifer.c`), **carvers** (`carvers.c`). State: a flat
program and stamped caches; lazily found sources, fluids and surfaces; a mask and a generator per source chunk and
tunnel. Hard: caches over several dimensions, early ends, shared generators. Correct when the answer does not depend
on what was asked before, and a cave not on the chunk that hears it.

**Structures** (`structures*.c`). State: starts in sorted order, what a chunk placed, the block entity records. Hard:
three walks over the same starts that must agree, and three Java collections between a record and the file; pieces of a
mineshaft that are laid behind gates by one table per direction, all from one stream of draws. Correct
when all walks agree, every block entity that is still there is saved once, and the pieces of a mineshaft hang together,
do not meet and stay where their chunks look for them.

**NBT, chunk serialization, region file** (`nbt.c, chunk_nbt.c, region.c`). State: trees in an arena, buffers with
limits. Hard: orders of a hash map, packing, lengths at their limits. Correct when what was saved can be read by a
reader that knows only the format.

**Templates** (`structures_template.c`) and **biome zoomer** (`biome_zoom.c`). State: palettes that the first user fills, under one
spin lock for all; tables of cells handed out to threads. Hard: who comes first, who finds no table left. Correct when
an answer depends on its question only.

**Features** (`features*.c`), **biome temperatures** (`biome_temp.c`), **ore veins, beard**, **random numbers**
(`rng.c`), **JSON** (`json.c`), **hashes** (`sha256*.c, md5.c`), **arena** (`arena.c`), **counters** (`counters.c`):
sequential code run by one worker at a time on data the scheduler protects; `PROJECT.json` lists each with its status.

### 1.2 How the components interact

The main thread owns every phase. In the event phase `hc_sched_run` owns the order: it starts events under its mutex
and calls `exec_ev` without it. The body of an event reads and writes the chunks of its cells (blocks, height maps,
light of the 08/09 events, marks), which the order protects, and appends to two recorders that belong to no cell and
are protected by a spin lock each. A decoration write goes through `hc_feat_set_state`: blocks, then height maps, then
the hook that reports it to the light engine if the chunk is already lit (`g_live_at`). The serialization pipeline
overlaps the last phases: its threads exist before the light is frozen and wait at a latch.

### 1.3 Hard behaviours

Interleavings of workers (scheduler, recorders, pipeline), the order of conflicting events under barriers, values that
are maintained incrementally and must equal what a scan would give (height maps, `src_y`, light), values cached from
an earlier evaluation (scratch of the density functions, `g_live_at`, the prepared geometry), fixed-size rings and
arrays, and termination. There are no messages, no persistent state and no timeouts in this program: nothing restarts,
and a failure ends the process. Hazards of those kinds are not listed because the code cannot meet them.
`PROJECT.json` lists every hazard at its line with the properties that would catch it.

## 2. Plan

Modules in the order in which they are written. Everything down to the line has been done.

| | modules | about | proofs |
|---|---|---|---|
| 1 | ConflictOrder, Sched, SchedInductive | the contract of hc_sched.h and hc_sched_run | SchedProofs |
| 2 | ReplayOrder | why any execution that keeps the contract gives the world of REPLAY | ContractProofs |
| 3 | FreeDriver | the event graph declares what the events touch; lighting windows | FreeDriverProofs |
| 4 | BlockLight, SkyLight | the incremental light engine, layer by layer | LightProofs |
| 5 | SerialStream, Serializer | the pipeline gives the stream of the loop | SerializerProofs |
| 6 | Heightmaps | incremental maps equal a scan | HeightmapsProofs |
| 7 | TickLog, TickRecorder, SharedRecorder | the recorders shared by unrelated events | TickRecorderProofs, ContractProofs |
| 8 | DensityGraph | compiled density functions, lazy programs and caches equal the expressions | |
| 9 | JavaSet | chains and tree bins of a HashSet | |
| 10 | Postprocess | mark drain: liquid ticks, neighbour updates with their stack | |
| 11 | Trees, TreeLeaves, EdgeShapes | placement of a tree; leaf distances and faces; what a face does to two blocks | |
| 12 | Lanes | the SIMD back ends repeat the scalar program | |
| 13 | Surface, Aquifer, Carvers | the stages of the chain | |
| 14 | NbtTree, Nbt, ChunkFile | documents, chunks, region image, and a reader | |
| 15 | Structures | order of starts, references, pieces, beards and block entities | |
| 15a | Faces, Templates | a piece placed from a template chunk by chunk: turning, processors, water, markers, netherrack | |
| 15b | Mineshafts | the assembly of a mineshaft from a room, gate by gate | MineshaftsProofs |
| 16 | LazyTables | palettes and biome cells worked out on first use and kept | TickRecorderProofs |
| 17 | MCContract, MCFeatures, MCLight, MCChain, MCSaving, MCDensity, MCTickRecorder | the parts of a phase checked together | |
| | *left* | | |
| 18 | -- | that the sky light at rest is justified, for every slice (induction over the queues) | SkyAtRest |
| 18a | -- | what the pieces of a mineshaft put into a chunk | |
| 19 | ReplayDriver | lighting batches reconstructed from time stamps; window checks | |

## 3. Modules and the code

**ConflictOrder** is the abstract specification of the scheduler: events 0 .. N-1 with cell lists; `Start(e)` is enabled
when every earlier event that conflicts with `e` has finished. No queue, lock or thread.

**Sched** is `hc_sched_run` with policy FREE. `Enlist` and `Arm` are the table building of the caller; `Acquire`,
`TopPop`, `TopWait`, `TopExit` and `FinishEvent` are the worker loop, one action per stretch of code between two
operations on the mutex or the condition variable; `complete` is an operator inside `FinishEvent`, with the loops over
the cells, the barrier release and the broadcast. `SpuriousWake` is the freedom POSIX gives to a wait, bounded by
`MaxSpurious`. `Join` is the end of the call. *SchedInductive* states the inductive invariant.

**ReplayOrder** executes a list twice, by the REPLAY loop and by FREE with one cell access at a time, and compares what
every event finds in each cell (the set of events that were there before). It knows the scheduler through
ConflictOrder only.

**FreeDriver** builds the event list as the bench does: `EventSet` is the set of the decorations, the 08, prepare and 09
events by the 3 x 3 rule and the batches, `Key` the place the 25 buckets and the loops in them give to each, `Events` the list in the
order of the keys; `LiveAt` and `CellLists` are computed from it. Then the contract executes the list. `Begin` and `End` of an event apply
`exec_ev` to the flags of the light slots: attached, initialised, lit, prepared from which blocks.

**BlockLight**, **SkyLight**: a vertical slice of the world. `Write` is `hc_light_accum_write_ctx`, `Light09` is
`hc_light_accum_light_chunk_ctx`, and the flush is `hc_light_accum_flush_ctx`; BlockLight takes a decrease or an increase from
the queues per step (`DecreaseToward` and `IncreaseToward` are one direction of it), SkyLight a whole flush. SkyLight also has `src_y` (`Scan` and incremental `SrcUpdate`; `Ledges` are the edges that the
scan leaves out because it skips sections without blocks), the derivation of
the registered sections with those that are born bright, and the reader `hc_light_get`.

**Serializer**: the main thread, the spawner and the workers with their program counters; `SerialStream` is the loop of
the REPLAY mode, and the abstract specification.

**Heightmaps**: one chunk. `Fill`, `SurfaceSet` and `CarverSet` of the chain, then `Decorate`, `Place`, `OrePlace`, `ReadHeight` and `Save`, the primed bits, the
incremental `hc_feat_hm_update` and the ore veins, which write blocks only.

**TickRecorder**: `hc_feat_schedule_tick` access by access: the test-and-test-and-set lock, the probe, the early return for
a duplicate, the record, the table, the count, the unlock. **TickLog**: a log to which a tick is added in one step
unless its key is there. **SharedRecorder**: the events of a contract-keeping execution add to both recorders, and the
save projects them on a chunk.

**LazyTables**: `ensure_palette` with its lock, its shared scratch arrays and its three copies, and `hc_biome_zoom` with the table a
thread takes on its first query and the memo of cells in it, access by access. Palettes, queries, the hash of a cell and the number
of tables are parameters. The references are a palette sorted at once and the nearest of eight corners.

**JavaSet**: `Add` and `Poll` are `jset_add` and the removal of an iterator's first element, each with everything it sets off:
treeification, doubling with the split of trees, rotations, the move of a root to the front of its chain. The entries
are an array of nodes, as in the code.

**Postprocess**: `Mark` records, `Freeze` sorts, `Drain` takes one mark: a liquid ticks, the block is adjusted
(`Shape`), and every write runs `AddAndRun` with its stack and layer. The reference is the recursion the stack stands for.

**Trees**: one action per part of `hc_featx_tree_place` and `hc_featx_ftree_place`: height, trunk, leaves, decorations; stump and
log. Draws are choices. **TreeLeaves** starts from what a tree left: `Poll`, `Visit` and the queueing of neighbours, then
the lines of faces. The level is lowered inside the loop over the six neighbours (`LevelAt`), so a neighbour that comes
after another tree's log or a leaf that holds less is queued one step from that, though it is two away. **EdgeShapes** is `edge_face` on two blocks: both are read, then each is updated.

**Lanes** holds the noises the scalar code and the vector code share, the operations and interpreters on vectors of
eight, of two vectors in step, and of four, and fills the slices and cells of a noise chunk with each back end. A lane holds a fraction with NaN and both zeros as values of their own; a floor is exact within `Guard` only.
A quart is as wide as a cell, as in the code, so the window of the flat caches has two quarts on each axis: the points of
the cell lie in the first by x, those of the slice at its far side in the second, and its two columns differ by z;
the lanes of one vector share their quart.
Children of flat caches are cut from the cones, so a point out of the window would read what the scratch held.

**Surface** compiles JSON trees of rules into arrays, arrays into a program, and walks the columns of a chunk with it and
its stamped caches. **Aquifer**: `Ask` is `hc_aquifer_compute_substance` with everything it finds and keeps, `Inspect`
`hc_aquifer_debug_cell`, which fills the same caches; an arena that is full is not modelled. **Carvers**
compiles carvers, follows caves and canyons, and digs one column of one ellipsoid per step.

**NbtTree**, **Nbt**: trees of tags, `Put`, the writer with its limit and the reader. **ChunkFile** builds the document of
a chunk and the image of a region, saves a world and gives the image to a reader.

**Structures**: `SortNext` is one insertion of the sort, `Place` one call of `hc_structures_step`, and `SaveEntities` the
block entity list of a chunk.

**Templates**: `hc_splace_template` for one piece and the chunks it touches, in any order. `Shipwreck`, `Ruin`, `Portal` and
`JigsawPiece` begin the part of one chunk (the height, the box, the processed blocks); `Put`, `Flood`, `Edge`, `Markers` and
`Spread` are the loops of the function: a block placed, a round of spreading water, the faces of what was placed, the markers,
the netherrack. Its first part is what mirroring and rotating do to states; **Faces** has what they do to positions, and the walk over the
faces of a shape that trees and templates share. The heights are those of the `*_WG` maps and never below zero in the
scenes. A ruin over a hollow works out its height again in every chunk;
a piece whose height then differs from the recorded one ends the process, and so it does in the model.

**Mineshafts**: `hc_mineshaft_assemble`. The recursion of `ms_gen_piece` is a stack of gates that wait: `Refuse` and `Grow` are a
call of it, with `ms_create_random` and the children functions of the piece it made, `Choose` a draw that decides whether
or where there is a gate, `Wall` a turn of the loop of `ms_room_children`, `AddEntrance` what the room keeps of the piece it was given,
`Sink` moveBelowSeaLevel and the result. All draws come from one stream, which is a parameter; `drawn` says how
much of it was used. A start with too many pieces stops the program (`died`); the arena is not modelled.

**DensityGraph**: `CompileMain` (`hc_df_compile_expr` over a registry of names), `BuildTables` (the flat caches in
`hc_nc_init`), `FillSlices` (`nc_fill_slice`, with the nodes without y evaluated once per column), `Eval` (an evaluation
through the cone or branch program of its mode) and `EvalPrefix` (the fallback). The scratch array is a variable that
starts with whatever the arena held, so a node that a cone or a program wrongly skips is read with an old value.
`Meaning` is the reference: the value of an expression by recursion on the registry.

The MC modules hold the constants of the runs. They put parts of one phase together that do not meet while they
run, or of which each is a function of the place for the others: **MCContract** (ReplayOrder, SharedRecorder), **MCFeatures** (Trees, TreeLeaves, EdgeShapes,
Postprocess, Templates), **MCLight** (BlockLight, SkyLight), **MCChain** (Heightmaps, Aquifer, Surface, Carvers), **MCSaving**
(Serializer, JavaSet, Nbt, ChunkFile, Structures), **MCDensity** (DensityGraph, Lanes) and **MCTickRecorder** (TickRecorder, LazyTables). A variable `part` says which one
a behaviour is about; the variables of the others stand still. Every action of every part is a disjunct of their `Next`, and
a property of a part is the part's own property under that condition. `PROJECT.json` maps every definition to the lines it stands
for.

## 4. Runs

| run | bounds | what it shows |
|---|---|---|
| sched_small | 3 events over 2 cells, every duplicate-free list and barriers, 2 workers, 1 spurious wake-up | IInv is invariant (hence types, order, exclusion, ring bound, complete returns), the contract is implemented, every call returns |
| sched_dup | 2 events, lists with a duplicate | *finding*: the deadlock report cannot be reached |
| contract | 3 events, 2 cells. *world*: every list and every footprint the lists cover. *records*: 2 positions, 16 lists | FREE shows and leaves what REPLAY does; what is saved per chunk is what REPLAY saves |
| free_driver | a 13 x 5 strip with 33 decorated chunks and a piece shared by two of them, three kinds of writes | cells cover the events, the light window is exact, no abort, fresh geometry, every chunk is lit |
| light | *block*: 4 x 2 cells in two chunks, levels to 4, 2 writes of five kinds. *sky*: 6 chunks of one column, 3 sections of 2 rows, 2 writes of 6 kinds of blocks, one of them at the foot of a section | the block light at rest is the least fixed point and flushes end; src_y is at an edge and, without a ledge, exact; sky light is justified and complete |
| block_light_turned | 2 x 2 cells, two slabs, 3 writes | *finding*: a turned slab is not reported |
| features | *trees*: of every trunk, leaves and decorators, with obstacles, in a window; *leaves*: small trees beside others and branches along every axis with another tree on every side, distances to 4, every order of the sets; *edges*: every two states of a palette of all families on a face, six settings, three updates; *marks*: eleven scenes of three layers, one or two marks; *piece*: 38 pieces over chunks of 3 columns in any order, 2 sands, netherrack to radius 3 | nothing is overwritten and the sets say what was done; distances are at most one too small, and only beside another tree, and the search ends; pairs are whole and a third update changes nothing; updates run depth first and liquids get their ticks; a piece placed in parts is the piece turned and placed once |
| chain | *maps*: 1 column of 3 levels, 7 materials, histories without bound. *aquifer*: two chunks, every two of 38 questions, or one after a look at a cell. *surface*: six rules over five chunks of 2 x 2 columns. *carvers*: twelve worlds, two targets, nine sources, and nine configurations of nested tags and faulty carvers | maps equal a scan at all times; an answer does not depend on what was asked before; the program with caches answers as the tree; tags are closed or refused, every target gets its share of the same caves, a block is decided once |
| saving | *threads*: 3 chunks, 3 threads, 2 spurious wake-ups. *set*: seven keys with colliding hashes in 840 orders and 420 with two equal hashes, thresholds 3 and 2, tables of 2 to 16. *document*: compounds of up to 14 keys, values of every type, three bytes to a long. *region*: some sixty regions of one or two chunks, tables of 38 sectors. *structures*: 312 layouts of two or three starts, tables of four slots, sets of two buckets | the stream of the loop, no race, safe joins, an end; a set whose polling keeps the order; the order of a HashMap and a reader that accepts exactly what was written; what is saved can be read, or is refused; the three walks agree and block entities are saved once, in the order of the server |
| tick_recorder | 2 workers with 2 calls each. *ticks*: 3 keys of which two collide in the last slot, room for 2 records. *tables*: 3 palettes of 4, 3 and 4 blocks of two templates, one with an unknown state, 3 cells of one slot, two tables, one or none left | one log, first tick wins; whoever holds a palette or a cell holds the right one; no call hangs |
| mineshafts | ten starts at two chunks, streams of 1000 draws, at most 150 pieces; depth, distance and entrances as in the code | pieces hang together, do not meet and stay in reach; the room has its entrances; all of it ends in the world; the scratch of the entrances suffices |
| density | *graph*: 320 registries of three names, one cell of 2 x 2 blocks, 2 evaluations. *lanes*: nine graphs, 1, 7 and 8 corners and a cell, values beyond the exact range | every evaluation gives the meaning of its expression; all back ends give what the scalar program gives |

Why these bounds are enough. *sched_small*: a conflict needs two events, a chain or a barrier between them a third; with
two cells a list can wait at one cell and be head at the other; with two workers one can be between its test and its
wait while the other completes. The theorems remove the bound for safety. *free_driver*: the driver
decorates in 25 buckets, by the coordinates modulo 5, and lights a chunk when its 3 x 3 is complete; eleven columns hold up to three
chunks of one bucket, three rows the smallest lightable interior, and the border of the decorated area is close
everywhere (N = 78 events). *light*, block: a lamp and a wall need two chunks of two columns for a
removal to cross the border and come back; two writes can be flushed together, apart, or cancel out. Sky: the
seeded chunks have lit and unlit neighbours on both sides; two sections make one appear late; columns are 4 high so
that a source can move up and down past a section border. A flower is transparent and non-air, which is what makes a section
exist without a source edge. *chain*, maps: columns are independent in the code, and three levels allow a write above, at,
directly below and further below the top, also in the lowest and the highest row. *tick_recorder*: two colliding keys, wrap-around, a duplicate and a full array
are all reached. *density*, graph: two evaluations show whether the second depends on the first; registries combine all
markers, shared names, nested choices, selects with equal branches, surface searches over markers, and cycles.

*saving*, set: with the thresholds scaled down, seven keys treeify a bin, split it while it is a tree in all ways, and
untreeify it. Document: thirteen keys double the table and fourteen go on with the larger one, some collide; every prefix of every
document is given to the reader. Region: palettes from one state to more than a word has room for, entries that fill a
sector to the byte, buffers too short. Structures: three starts in one table of four slots probe and wrap around.
*features*, marks: a scene has a cell that can be reached twice, from above and from a side. Leaves: four levels let a
cell be queued at two levels and the search go back; on the branches the neighbour that lowers the level comes before a
leaf of the tree in all orders of the directions, and leaves one too near do occur. *density*, lanes: 1 and 7 leave a rest in the last vector, 8 fills
it, and the guard lies inside the range of the values, so lanes of one vector differ in whether their floors are exact.
*chain*, surface: columns of seven blocks hold stone, a gap, fluid and stone again. Aquifer: two questions are enough to
see the first one's caches in the second one's answer; the 38 include neighbours with a shared source. Carvers: a
source lies beyond reach of one target and within reach of the other; a top material that is a fluid does not occur.

*mineshafts*: the ten streams are long enough for pieces of all kinds in all four directions, for gates refused at the last depth and
for distance, for rooms with three entrances; one start has too many pieces. Since a stream decides everything, a run has
one behaviour per start; `MineCorrect` holds for all streams.

*features*, piece: three chunks let a middle one be first, in between and last; a wreck is mirrored and turned in all twelve ways;
the caps (`SandCap`, `Radius`, `Sure`, `Huge`) are scaled down so that a piece of a few blocks reaches them.

Where a run checks a conjunction of named parts (`LightSound`, `SetSound`, `UpdatesSound`, `FacesSettle`,
`TreesSound`, `PieceSound`, `WalksAgree`, `MineSound`, `SkyAtRest`, `DocumentSound`, `EvaluatesRight`, `RulesSound`, `CavesSound`, `HandedOver`, `MapsExact`, `RecordsExact`), each part is stated and explained on its own in its
module. A type invariant that the proofs establish is not run again.

`CHECK_DEADLOCK FALSE` is used where the system really stops: bounds of writes or
evaluations that are used up, phases that have ended, a mineshaft that is done, a full recorder, and the blocked pool that sched_dup is about. Where
the end is an outcome of its own (Sched, ReplayOrder, FreeDriver, SharedRecorder) deadlock is checked.

Each property is broken by at least one plausible bug in a mapped definition (the "mutants" in `PROJECT.json`): a dropped wake-up, a
cell too few, a missing decrease, a swapped order.

### 4.1 Fairness

Weak fairness only. *Sched*, *Serializer*: every thread that can take a step takes one (the operating system schedules
runnable threads; a mutex that is released again and again is eventually given to a waiter, which the actions express
by taking the mutex and the stretch behind it in few steps). A spurious wake-up is never assumed. *TickRecorder*: the
worker steps, where a spinning worker is only asked to continue (the same in LazyTables). *BlockLight*, and with it MCLight: the engine's own loop
goes on once started; nothing makes anybody write or seed. *TreeLeaves*, and with it MCFeatures: the search goes on while
it can, whichever cell it polls. MCSaving repeats the fairness of Serializer; SerialStream states none, since it is the
safety of the loop that the pipeline implements, and `Finishes` says separately that the pipeline ends. *FreeDriver*: events that may start do start and end, which is what Sched's termination gives.

### 4.2 Findings

*sched_dup*: `core/src/sched.c:221-226` promises a report and an abort when cell declarations wait for each other; the workers
leave their loop only when all events are complete, so the report cannot be reached and the call hangs. The header
rules such lists out ("no duplicates"), and the drivers obey it.

*block_light_turned*: `light_props_differ` compares whether two states have any face mask, not which; a slab replaced by
the slab of the other half queues no check, and the stored light is not the fixed point that `hc_light.h:12` and
`hc_light.h:155` describe.

## 5. Proofs

| module | theorem | statement |
|---|---|---|
| SchedProofs | SpecIInv, TypeCorrect, OrderCorrect, ExclusionCorrect, RingCorrect, ReturnCorrect, OnceCorrect | safety of hc_sched_run for every event list without duplicates, cell space and pool |
| SchedProofs | ContractCorrect | Sched implements ConflictOrder (refinement, safety part) |
| ContractProofs | SpecOrderInv, RaceFree, FindsReplay, FreeIsReplay | an execution that keeps the contract gives the world of REPLAY |
| ContractProofs | SpecRecInv, BaseOrder, RecordsOfReplay, RecordsCorrect | and saves the ticks and block entities of REPLAY |
| TickRecorderProofs | SpecIInv, TypeCorrect, LockExcludes, KeyRecordedOnce, RecorderIsLog | the recorder implements TickLog |
| TickRecorderProofs | TablesInvariant, TablesAnswerAlike | for every number of workers, palettes, queries and tables: whoever holds an answer of a table holds the one its question has by itself, as long as it reads it |
| SerializerProofs | TypeCorrect, RaceFree, JoinsCorrect, HandoverCorrect | no thread reads what was not handed over, for every number of chunks and threads |
| SerializerProofs | StreamIsReplay | the pipeline implements SerialStream (refinement: `Spec => ImplementsReplay`) |
| HeightmapsProofs | SpecIInv, TypeCorrect, WgCorrect, FinalCorrect, SavedCorrect, MapsCorrect | maps equal a scan |
| FreeDriverProofs | FreeInvariant, FreeNoRace, FreeWindowExact, FreeLightSound, FreeAllLit | for every world, manifest and set of pieces: running callbacks do not race, the window filter tells the truth, the light phases neither abort nor read stale geometry, no event is lost |
| LightProofs | LightInvariant | the queues account for every level that is too high or too low, at every step of a flush or a seeding |
| LightProofs | RestIsExact, NoShadowLeft | the block light at rest is the least fixed point; after the decrease pass nothing is brighter |
| LightProofs | SourcesExact | `src_y` is at an edge at which the sky ends and, unless a ledge was hidden from it, what a scan finds now |
| MineshaftsProofs | MineInvariant | for every start and every stream of draws: what the stack, the walls of the room, the entrances and the pieces have to do with one another |
| MineshaftsProofs | WholeHolds, RoomOpenHolds, SettledHolds, EntrancesFitHolds, MineCorrect | the pieces do not meet, each is reached from an earlier one, all lie within 8 chunks; the room has its entrances; all ends in the world; their scratch suffices |

Assumptions. Events: `NAssumption`, `InputsAssumption` (cells are naturals, every event has a list of them) and `DuplicateFree`,
which is what `hc_sched.h` demands of its caller. Pools: `WorkerAssumption`, `CellAssumption` (finitely many cells).
`SerializerAssumption`: at least one chunk and one thread. Height maps: `BoundsAssumption`, `MaterialAssumption` (what is
air-like neither blocks motion nor is a fluid), `OreAssumption` (an ore replaces a block that all maps treat as it: that is why the veins may skip the
update). `RecorderAssumption`: the hash maps keys to slots, and there are at least four
slots for every record, as the code allocates them. FreeDriver: `WorldAssumption` (a world of at least one chunk, a manifest
without repetitions inside it, any pieces) and `CountAssumption` (`N` is the number of events the graph has).
Light, block layer: the theorems have three hypotheses. `BoxAssumption` says that sizes are sizes, that there is at least one level, and
that a kind of block has a damp, an emission and a set of closed quarters per face. `SourcesOpen` says that a block that shines
closes no face; no entry of the tables in `light_engine.c` and `blocks.c` has both an emission and a face mask. `FacesTell` says
that states with equal light properties close the same faces. The code does not guarantee that one: it is just what the
finding block_light_turned is about, and without it the theorem is false; with it, the slab of that finding is the only
thing that can go wrong. *light* checks all three of its palette. Sky layer: `SliceAssumption` (sizes, a palette with air and bedrock, and layouts of it), `FacesTell` of its own palette, to which the same
reservation applies, and `BedrockFloor` (the lowest row is bedrock when the features begin; `Write` does not replace bedrock). Without a floor,
`find_lowest_source_below` would look at one more edge than `fill_src_y`, the one under the lowest row. *light* checks these too.
Tables: `TablesAssumption` (a template has one block at a position, its blocks fit into the scratch arrays, queries and what a
seed adds to a corner are numbers); *tick_recorder* checks it of its own. Mineshafts: `MineAssumption` (a stream gives a natural number for every draw, no
gate is further than 80 blocks, there is room for at least twelve entrances: the code has 80 and 16).
The assumptions of the other modules (`RegistryAssumption`, `JavaSetAssumption` and the like) are used by no proof; TLC evaluates them.

Arguments. *Sched*: `IInv` says what the tables mean: a FIFO holds exactly the incomplete touchers of its cell in base order; the
wait count is the number of cells at which an event is not yet the head; ready, parked and running events are the heads
everywhere that are admitted, and nothing is past the next barrier. Order and exclusion follow because two events that
share a cell cannot both be its head. The type invariant alone is not inductive: that the ring never overflows needs
"each event at most once". *ReplayOrder*: an event finds in a cell exactly the earlier events of that cell, in both executions. *Serializer*: a
chunk's body is final from the latch on, and the flag of a chunk is set after its body. *Heightmaps*: exact maps,
primed bits and the stage; the lemmas say that an incremental update of an exact map is exact, also if the map has just been
primed after the write. *TickRecorder*: every record is reachable by the probe of its key with no empty slot before it,
and the probe so far has passed other keys only; so an empty slot means a new key. *LazyTables*: one worker is behind the lock; between the
sort and the copies the scratch arrays hold what that worker put there; a palette is marked as ready only when it is the sorted
one, and nothing changes it afterwards. A table belongs to one thread, and what stands in a slot is the answer to the tag beside it, so
a slot that two cells share can only be too old, which the tag tells.

*FreeDriver*, on three floors. `Events` lists the set of events in the order of their keys (lemmas about `Ascending`, which rest on
cardinalities, and about two-digit numbers). The keys put the 08 of a chunk behind every decoration around it, the writes that
must be reported behind the 08 and those that need not before it, a prepare before every lighting of its batch. `IInv`
carries this over to what has been done: `Ordered` (an event waits for every earlier event with a common cell, and a barrier for
all), `Flags` (the flags of a slot are functions of the finished events), `StaleCause` (a chunk whose geometry is stale has a
decoration since the last prepare as its cause), `NoAbort`. `NoRace` is a fact about cells: two callbacks that may touch the same
data, one of them writing, have declared a common cell.

*BlockLight*: `LfpAtRest` says nothing about a flush under way, and what holds then depends on the queues. `IInv` looks at them as
sets: `Justified` (a cell has no more than its source gives or a neighbour passes it, or a pending check or an entry of the
decrease queue threatens it), `Passed` (what a cell passes on has arrived, or an entry of the increase queue will bring it, or one of
the decrease queue will ask for it), `SourcesShine`, `Emissions` and `Cleared` (what an entry promises about the cell it
names). An entry under way counts as one with the directions that are left, so a lemma about one direction gives the whole of an entry.
With empty queues `Justified` puts light under the reference, level by level from the brightest, and `Passed` with
`SourcesShine` puts it above every round of the reference. `Justified` compares with what a neighbour has *or will have from its own
source*: without that it is not inductive, since the decrease pass clears a source before it calls it.

*SkyLight*, `src_y`: `SkyInv` says that `src_y` is one above an edge at which the sky ends, and one above the highest as long as the column
has had no ledge. A write can change two edges; `UpdateIsEdge` goes through the branches of `src_y_update` and shows that looking
at these two, and searching downwards when the edge at `src_y` has opened, is enough (lemmas `BelowIsEdge`, `OtherEdges`, and `SameEdges` for
a write that is judged to change nothing). `ScanIsEdge` and `HighestIsScan` tie that to `fill_src_y`. The condition about ledges is not an
economy of the proof: a block that closes its lower face right above a section without blocks is seen by a write and not by a
scan, so `src_y` and the scan do differ there, and the code, like the game, keeps what the writes made of it; *light* reaches such
states. `IsSource` therefore goes by `src_y`, not by the scan.

*Mineshafts*: none of the four properties is inductive. `IInv` is about the gates that wait: each lies in a wall of a piece that is
there and no deeper than the gate, and a passage through that wall is wide and high enough for whatever may be built behind (`InWall`, `Behind`; one lemma
for each way the children functions lay gates); so a piece that is added meets nothing, because it was checked, and is reached from the
piece of its gate. A gate of the room is alone on the stack, which ties `child` to the wall the loop is at, and every opening to its piece.
A piece is at most 6 blocks above or below the gate's, so depth bounds heights; distance bounds the rest, since only gates within 80 blocks
of the room are built behind. Entrances and the one to come are at most three per wall passed and one per four cells of the wall at hand:
that is the comment "3 per wall" in the code. `Sink` then has a top and a bottom to go by (`LeastNatural`).

How the results compose: Sched implements ConflictOrder; FreeDriver shows that the declared cells cover what events touch,
which is the hypothesis of ReplayOrder and SharedRecorder; TickRecorder implements the one-step log that SharedRecorder
takes for granted; LazyTables shows the same of palettes and biomes, the other things the bodies of unrelated events share; Heightmaps and the light modules describe what happens inside one event, on cells nobody else touches;
Serializer turns the finished world into the stream of the loop.

## 6. Only model-checked

Liveness: termination of the scheduler, the pipeline, a flush, a call of the recorder and the search of leaf distances, and that
every chunk is lit in the end (FreeAllLit proves that it is lit once all events have returned). These provers know no
liveness under fairness.

The levels of the sky layer (`SkyAtRest`) and everything from row 8 of the plan on, LazyTables and Mineshafts excepted. Of the safety
properties these are `TreesSound`, `UpdatesSound`, `PieceSound` (features), `SetSound`, `DocumentSound`, `ReadBack`, `WalksAgree` (saving),
`SubstanceExact`, `RulesSound`, `CavesSound` (chain), `EvaluatesRight`, `LanesAreScalar` (density), and of the action properties
`FacesSettle`, `TickOwed`, `PollKeepsOrder` and `DecidedForGood`. Sky light at rest, density graphs, the rule programs,
the sets, the documents and the walks are recursive over data: queues, expressions, trees. Their proofs would need induction over data, which these provers
cannot instantiate, and most of those modules declare RECURSIVE operators. Where a recursion is over an interval of numbers, the proofs
get by with the least element of a set of naturals (`LeastElement`, `UpTo`, `Recursion`), as for the rounds of the reference of
BlockLight.

## 7. Not modelled

- **Floating point.** Where a decision depends on numbers they are fractions of a fixed unit, chosen so that both sides of
  every comparison occur (Lanes, Aquifer, Carvers). Rounding, `jdk_trig.c`, `jdk_log.c` and the 64-bit mixing of `rng.c`
  have no counterpart; golden tests compare those bits. A draw is a choice (Trees) or a constant function of the
  seed (Carvers, Aquifer).
- **Features other than trees**, the placement of the pieces of a mineshaft and the parsing of structure starts: loops
  over data with draws in a fixed order, pinned by golden data.
- **REPLAY driver, batch solver, golden verifier**: single loops that serve as references for the code that is modelled.
- **Climate search, ore veins, JSON, hashes, arena, counters, block tables**: pure functions of their input or constant data.

Within modelled components: several light contexts (FreeDriver shows they touch different cells), sizes of queues that
depend on a scene, allocation failures except those of the scheduler's start. `PROJECT.json` gives the reason for each
component, and lists the hazards no property covers.
