--------------------------- MODULE SharedRecorder ---------------------------
(***************************************************************************)
(* The recorders of scheduled ticks and of block entities are shared by    *)
(* every event of the FREE mode, also by events that do not conflict: they *)
(* belong to no cell.  The arrays therefore differ from one execution to   *)
(* the next, but what the save reads of them, the live entries of one chunk*)
(* in array order, does not (core/src/features.c, core/src/structures.c,   *)
(* core/src/hc_features.h: "the projection of a chunk").                   *)
(*                                                                         *)
(* An access to a recorder is one step here: TickRecorder shows that of    *)
(* the tick recorder.                                                      *)
(***************************************************************************)
EXTENDS ConflictOrder

CONSTANT Pos          \* block positions of a cell

Kind == {"tick", "be", "remove"}
Op == [kind : Kind, pos : Pos]
Entry == [ev : Event, cell : Cell, kind : {"tick", "be"}, pos : Pos, dead : BOOLEAN]

VARIABLES
  places,    \* places[e]: the cells e records something in
  op,        \* op[e]: what it records there
  recorded,  \* recorded[c]: the events that have recorded in c
  log        \* both arrays, merged in the order of their appends

recVars == <<absVars, places, op, recorded, log>>

RecInit ==
  /\ AbsInit
  /\ places \in [Event -> SUBSET Cell]
  /\ \A e \in Event : ~IsBarrier(evs, e) => places[e] \subseteq CellsOf(evs, e)
  /\ op \in [Event -> Op]
  /\ recorded = [c \in Cell |-> {}]
  /\ log = << >>

\* The entry at i is of this kind and at position p of cell c.
At(l, i, kind, c, p) == l[i].kind = kind /\ l[i].cell = c /\ l[i].pos = p

New(e, c) == [ev |-> e, cell |-> c, kind |-> op[e].kind, pos |-> op[e].pos, dead |-> FALSE]

\* A tick is appended unless its position has one: the first wins.
AddTick(l, e, c) ==
  IF \E i \in DOMAIN l : At(l, i, "tick", c, op[e].pos) THEN l ELSE Append(l, New(e, c))

\* A block that replaces a block entity kills its entry.
Bury(l, c, p) ==
  [i \in DOMAIN l |-> IF At(l, i, "be", c, p) THEN [l[i] EXCEPT !.dead = TRUE] ELSE l[i]]

AddEntity(l, e, c) == Append(Bury(l, c, op[e].pos), New(e, c))

RemoveEntity(l, e, c) == Bury(l, c, op[e].pos)

RecEnter(e) == Start(e) /\ UNCHANGED <<places, op, recorded, log>>

\* The body of e records in cell c.
Record(e, c) ==
  /\ e \in started \ done
  /\ c \in places[e] /\ e \notin recorded[c]
  /\ recorded' = [recorded EXCEPT ![c] = @ \cup {e}]
  /\ \/ op[e].kind = "tick" /\ log' = AddTick(log, e, c)
     \/ op[e].kind = "be" /\ log' = AddEntity(log, e, c)
     \/ op[e].kind = "remove" /\ log' = RemoveEntity(log, e, c)
  /\ UNCHANGED <<absVars, places, op>>

RecLeave(e) ==
  /\ \A c \in places[e] : e \in recorded[c]
  /\ Finish(e)
  /\ UNCHANGED <<places, op, recorded, log>>

Returned == done = Event /\ UNCHANGED recVars

RecNext == Returned \/ \E e \in Event : RecEnter(e) \/ RecLeave(e) \/ \E c \in Cell : Record(e, c)

RecSpec == RecInit /\ [][RecNext]_recVars
-----------------------------------------------------------------------------
\* The variables have their shapes; only block entities are ever dead.
RecTypeOK ==
  /\ evs \in Inputs /\ started \subseteq Event /\ done \subseteq Event
  /\ places \in [Event -> SUBSET Cell]
  /\ op \in [Event -> Op]
  /\ recorded \in [Cell -> SUBSET Event]
  /\ log \in Seq(Entry)

\* The entries of one chunk are in base order, whatever the workers did: the
\* order REPLAY appends them in.
OrderedPerCell ==
  \A i, j \in DOMAIN log : i < j /\ log[i].cell = log[j].cell => log[i].ev < log[j].ev

\* The events that record at position p of cell c.
At0(c, p, kinds) == { e \in Event : c \in places[e] /\ op[e].pos = p /\ op[e].kind \in kinds }

\* What REPLAY saves at a position: the first tick, and the last block entity
\* unless it was removed.
ReplayTick(c, p) ==
  { e \in At0(c, p, {"tick"}) : \A f \in At0(c, p, {"tick"}) : e <= f }
ReplayEntity(c, p) ==
  { e \in At0(c, p, {"be"}) : \A f \in At0(c, p, {"be", "remove"}) : f <= e }

Live(kind, c, p) == { i \in DOMAIN log : At(log, i, kind, c, p) /\ ~log[i].dead }

\* A finished FREE execution saves the ticks and the block entities of REPLAY.
SavedSame ==
  done = Event =>
    \A c \in Cell, p \in Pos :
      /\ { log[i].ev : i \in Live("tick", c, p) } = ReplayTick(c, p)
      /\ { log[i].ev : i \in Live("be", c, p) } = ReplayEntity(c, p)

\* The records do not depend on the workers: each chunk gets its own in base
\* order, and in the end those of REPLAY.
RecordsExact == OrderedPerCell /\ SavedSame
-----------------------------------------------------------------------------
\* The part of the order that the contract gives: what has run of a cell is
\* what comes first there in base order.
RecPastInv ==
  /\ done \subseteq started
  /\ \A e \in started : Enabled(e)
  /\ \A e \in Event : ~IsBarrier(evs, e) => places[e] \subseteq CellsOf(evs, e)
  /\ \A c \in Cell : recorded[c] \subseteq started
  /\ \A c \in Cell : \A e \in recorded[c] : c \in places[e]
  /\ \A e \in done : \A c \in places[e] : e \in recorded[c]

\* What an entry says of the events that made it.
Sound(r, p, o) ==
  /\ r.ev \in p[r.cell] /\ o[r.ev] = [kind |-> r.kind, pos |-> r.pos]
  /\ r.kind = "tick" => ~r.dead /\ \A f \in p[r.cell] : o[f] = o[r.ev] => r.ev <= f
  /\ r.kind = "be" =>
       (r.dead <=> \E f \in p[r.cell] :
                     r.ev < f /\ o[f].pos = r.pos /\ o[f].kind \in {"be", "remove"})

EntryInv == \A i \in DOMAIN log : Sound(log[i], recorded, op)

\* No event is lost.
LoggedInv ==
  \A c \in Cell : \A e \in recorded[c] :
    /\ op[e].kind = "tick" => \E i \in DOMAIN log : At(log, i, "tick", c, op[e].pos)
    /\ op[e].kind = "be" => \E i \in DOMAIN log : At(log, i, "be", c, op[e].pos) /\ log[i].ev = e

RecInv == RecTypeOK /\ RecPastInv /\ EntryInv /\ LoggedInv /\ OrderedPerCell
=============================================================================
