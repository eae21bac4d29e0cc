--------------------------- MODULE MCTickRecorder ---------------------------
(***************************************************************************)
(* What workers of unrelated events share under spin locks, or keep for    *)
(* themselves: the recorder of ticks, and the tables that are filled on    *)
(* first use.  They do not meet, so a behaviour is about one of them,      *)
(* named by part; the other stands still.                                  *)
(***************************************************************************)
EXTENDS TickRecorder

CONSTANTS
  Palette, Raw, MaxBlocks, Listed, FullCube, Query, Offset(_, _), CellSlot(_), Pool,
  w1, w2, k1, k2, k3   \* the workers and the keys of the run

VARIABLES
  part,                                                  \* "ticks" or "tables"
  at, made, ask, held, resolved, blocks, scratch, count, handed, tab, cells
-----------------------------------------------------------------------------
(* Ticks: two workers, three keys of which two share the last slot, and room *)
(* for two records: probes collide, wrap around, meet a duplicate and meet a *)
(* full array.                                                               *)
MCWorker == {w1, w2}
MCKey == {k1, k2, k3}
MCHome == [k \in MCKey |-> IF k = k3 THEN 0 ELSE HCap - 1]
-----------------------------------------------------------------------------
(* Tables: blocks of every class, in no order, in palettes of two templates  *)
(* that class them differently; the last palette has a state nobody knows.   *)
Piece(y, x, z, state, nbt) == [at |-> <<y, x, z>>, state |-> state, nbt |-> nbt]
Hut == <<Piece(1, 0, 0, 1, FALSE), Piece(0, 1, 0, 2, FALSE), Piece(0, 0, 1, 3, TRUE), Piece(0, 0, 0, 1, FALSE)>>
Well == <<Piece(0, 1, 0, 3, TRUE), Piece(0, 0, 0, 2, FALSE), Piece(1, 0, 0, 1, FALSE)>>
Palettes == <<<<"stone", "fence", "chest">>, <<"slab", "planks", "chest">>, <<"stone", "wood", "fence">>>>
Blocks == <<Hut, Well, Hut>>
Known == {"stone", "fence", "chest", "slab", "planks"}
Full == {"stone", "planks"}

\* Three cells of one slot: two seeds at a block near the middle of eight
\* corners, and a block near a corner.
Queries == { [seed |-> 5, at |-> <<4, 3, 5>>], [seed |-> 9, at |-> <<4, 3, 5>>], [seed |-> 5, at |-> <<-3, 12, 2>>] }
Fiddle(seed, c) == [j \in 1 .. 3 |-> ((seed * (c[1] + 3 * j) + 5 * c[2] + c[3] * j) % 15) - 7]
OneSlot(tag) == tag[2][1] % 2

T == INSTANCE LazyTables WITH Slot <- CellSlot, pc <- at, calls <- made, lock <- held

ASSUME TablesGiven == T!TablesAssumption

tableVars == <<at, made, ask, held, resolved, blocks, scratch, count, handed, tab, cells>>
allVars == <<part, vars, tableVars>>

Idle == "idle"
\* The recorder that stands still is empty.
MCInit ==
  /\ Init
  /\ \/ /\ part = "ticks"
        /\ at = Idle /\ made = Idle /\ ask = Idle /\ held = Idle /\ resolved = Idle /\ blocks = Idle
        /\ scratch = Idle /\ count = Idle /\ handed = Idle /\ tab = Idle /\ cells = Idle
     \/ part = "tables" /\ T!Init

InTicks == part = "ticks" /\ Alive /\ UNCHANGED <<part, tableVars>>
InTables == part = "tables" /\ T!Alive /\ UNCHANGED <<part, vars>>

MCNext ==
  \/ \E w \in Worker : InTicks /\ Call(w)
  \/ \E w \in Worker : InTicks /\ Try(w)
  \/ \E w \in Worker : InTicks /\ Watch(w)
  \/ \E w \in Worker : InTicks /\ Probe(w)
  \/ \E w \in Worker : InTicks /\ Write(w)
  \/ \E w \in Worker : InTicks /\ Link(w)
  \/ \E w \in Worker : InTicks /\ Unlock(w)
  \/ \E w \in Worker : InTables /\ T!Call(w)
  \/ \E w \in Worker : InTables /\ T!Try(w)
  \/ \E w \in Worker : InTables /\ T!Watch(w)
  \/ \E w \in Worker : InTables /\ T!Test(w)
  \/ \E w \in Worker : InTables /\ T!Sort(w)
  \/ \E w \in Worker : InTables /\ T!Order(w)
  \/ \E w \in Worker : InTables /\ T!Copy(w)
  \/ \E w \in Worker : InTables /\ T!Publish(w)
  \/ \E w \in Worker : InTables /\ T!Unlock(w)
  \/ \E w \in Worker : InTables /\ T!TakeTable(w)
  \/ \E w \in Worker : InTables /\ T!Look(w)
  \/ \E w \in Worker : InTables /\ T!Return(w)

\* The fairness of the workers, as in TickRecorder.
MCSpec ==
  /\ MCInit /\ [][MCNext]_allVars
  /\ \A w \in Worker : WF_allVars(InTicks /\ Step(w))
  /\ \A w \in Worker : WF_allVars(InTables /\ T!Step(w))
-----------------------------------------------------------------------------
(* Properties: IsLog of the ticks, and those below. *)

\* Whoever holds an answer of a table holds the one its question has by
\* itself, as long as it reads it.
AnswersPure == part = "tables" => T!AnswersPure

\* The invariant it follows from.
TablesInv == part = "tables" => T!TablesInv

\* Every call comes back, unless the process ended: the recorder was full, or
\* a palette had a state nobody knows.
Out == IF part = "ticks" THEN \A w \in Worker : pc[w] = "out" ELSE \A w \in Worker : at[w] = "out"
Ended == IF part = "ticks" THEN ~ Alive ELSE ~ T!Alive
AllSettle == <>[]Out \/ <>Ended
=============================================================================
