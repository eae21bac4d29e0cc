------------------------------ MODULE MCLight ------------------------------
(***************************************************************************)
(* The two layers of the light engine.  They share the blocks and the      *)
(* order of calls but no stored level, so a behaviour is one of the two,   *)
(* named by part: block light in a box of two columns per chunk, sky light *)
(* in a slice of one column per chunk.  The other layer stands still; the block *)
(* layer does so with a check pending, where its properties ask nothing.   *)
(***************************************************************************)
EXTENDS BlockLight

CONSTANTS
  Chunks, Sections, SecHeight, SkyKinds, Air, Bedrock, SkyLayouts, Written

VARIABLES
  part,     \* "block" or "sky"
  feat, inR, dirty, reg, top, src, sky, pending, geo, early, ledged

Sky == INSTANCE SkyLight WITH Kinds <- SkyKinds, Layouts <- SkyLayouts, check <- pending

ASSUME SlicePalette == Sky!SliceAssumption /\ Sky!FacesTell /\ Sky!BedrockFloor

skyOnly == <<feat, inR, dirty, reg, top, src, sky, pending, geo, early, ledged>>
blockOnly == <<light, check, dec, inc, phase>>
allVars == <<vars, part, skyOnly>>

Idle == "idle"
BlockInit ==
  /\ part = "block" /\ Init
  /\ feat = Idle /\ inR = Idle /\ dirty = Idle /\ reg = Idle /\ top = Idle /\ src = Idle
  /\ sky = Idle /\ pending = Idle /\ geo = Idle /\ early = Idle /\ ledged = Idle
SkyInit ==
  /\ part = "sky" /\ Sky!Init
  /\ light = Idle /\ check = <<Idle>> /\ dec = Idle /\ inc = Idle /\ phase = "idle"
LightInit == BlockInit \/ SkyInit

InBlock == part = "block" /\ UNCHANGED <<part, skyOnly>>
InSky == part = "sky" /\ UNCHANGED <<part, blockOnly>>

BlockEngine == InBlock /\ Engine

BlockNext ==
  \/ \E c \in Cell, k \in Kinds : InBlock /\ Write(c, k)
  \/ \E k \in Chunk : InBlock /\ Seed(k)
  \/ InBlock /\ Flush
  \/ InBlock /\ CheckNext
  \/ InBlock /\ DecNext
  \/ InBlock /\ DecDrained
  \/ InBlock /\ IncNext
  \/ InBlock /\ IncDrained

SkyNext ==
  \/ \E c \in Written, k \in SkyKinds : InSky /\ Sky!Write(c, k)
  \/ \E k \in Sky!Chunk : InSky /\ Sky!SetFeatured(k)
  \/ \E k \in Sky!Chunk : InSky /\ Sky!Init08(k)
  \/ \E k \in Sky!Chunk : InSky /\ Sky!Light09(k)
  \/ InSky /\ Sky!Flush
  \/ InSky /\ Sky!Prepare

LightNext == BlockNext \/ SkyNext

LightSpec == LightInit /\ [][LightNext]_allVars /\ WF_allVars(BlockEngine)

\* The block layer alone, in other boxes.
BlockSpec == BlockInit /\ [][BlockNext]_allVars

(***************************************************************************)
(* Properties: LfpAtRest, NeverTooBright and Settles of the block layer,   *)
(* and those of the sky layer                                              *)
(***************************************************************************)
\* The incremental src_y of a chunk is what a scan of its column would find,
\* in any order of live writes.
SrcExact == part = "sky" => Sky!SrcExact

\* At rest sky light is a fixed point of sources and blocks, from both sides.
SkyAtRest == part = "sky" => Sky!SkyAtRest

(***************************************************************************)
(* Block light: two columns per chunk, light of a few levels               *)
(***************************************************************************)
Closed == [d \in {"D", "U", "W", "E"} |-> {}]

Clear  == [damp |-> 0, emit |-> 0, faces |-> Closed]
Block  == [damp |-> MaxLight, emit |-> 0, faces |-> Closed]
Lava   == [damp |-> 1, emit |-> MaxLight, faces |-> Closed]
Lichen == [damp |-> 0, emit |-> 2, faces |-> Closed]
\* The lower half of a cell, and the upper half.
Low    == [D |-> Faces, U |-> {}, W |-> {"lo"}, E |-> {"lo"}]
High   == [D |-> {}, U |-> Faces, W |-> {"hi"}, E |-> {"hi"}]
LowSlab == [damp |-> 0, emit |-> 0, faces |-> Low]
TopSlab == [damp |-> 0, emit |-> 0, faces |-> High]

AllLamps  == {Clear, Block, Lava, Lichen, LowSlab}
TwoSlabs  == {Clear, Lichen, LowSlab, TopSlab}

\* What the proofs about the block layer assume of a palette; that of the
\* finding has two slabs the engine cannot tell apart.
ASSUME BoxPalette == BoxAssumption /\ SourcesOpen /\ (Kinds # TwoSlabs => FacesTell)

Box == [c \in Cell |-> Clear]

\* Lava behind a stone, a slab over a lichen.
BuiltLayout ==
  {[Box EXCEPT ![<<0, 0>>] = Lava, ![<<1, 0>>] = Block,
               ![<<2, 1>>] = LowSlab, ![<<2, 0>>] = Lichen]}
OpenLayout == {Box}

(***************************************************************************)
(* Sky light                                                               *)
(***************************************************************************)
MCAir     == [name |-> "air", damp |-> 0, faces |-> Closed]
MCBedrock == [name |-> "bedrock", damp |-> MaxLight, faces |-> Closed]
Stone     == [name |-> "stone", damp |-> MaxLight, faces |-> Closed]
Leafy     == [name |-> "leaves", damp |-> 1, faces |-> Closed]
Slab      == [name |-> "slab", damp |-> 0, faces |-> Low]
Flower    == [name |-> "flower", damp |-> 0, faces |-> Closed]
MCKinds == {MCAir, MCBedrock, Stone, Leafy, Slab, Flower}

Slice == (0 .. Chunks - 1) \X (0 .. Sections * SecHeight - 1)
\* An overhang of stone over a hollow.
Hollow == [c \in Slice |-> IF c[2] = 0 THEN MCBedrock ELSE IF c \in {<<2, 2>>, <<3, 2>>} THEN Stone ELSE MCAir]
LitColumns == {<<2, 1>>, <<2, 2>>, <<2, 4>>, <<3, 2>>}
MCLayouts == {Hollow}
=============================================================================
