------------------------------ MODULE ReplayOrder ------------------------------
(***************************************************************************)
(* Why FREE gives the result of REPLAY (core/include/hc_sched.h, the text   *)
(* of the policies).  The same events are executed twice: by REPLAY, which  *)
(* is the plain loop of hc_sched_run over the list, and by FREE under the   *)
(* ordering contract, where an event touches the cells of its footprint one *)
(* at a time, in any order, while others run.                               *)
(*                                                                         *)
(* The content of a cell is determined by the events that touched it and by *)
(* what each of them found, so contents are not needed: an event finds in a *)
(* cell the set of the events that were there before it, and two executions *)
(* in which every event finds the same sets leave the same world.           *)
(***************************************************************************)
EXTENDS ConflictOrder

\* Every list of ascending cells, as the drivers emit them; empty is a barrier.
AscendingInputs ==
  [Event -> { << >> } \cup { <<c>> : c \in Cell } \cup { l \in Cell \X Cell : l[1] < l[2] }]

VARIABLES
  foot,   \* foot[e]: the cells the body of e reads or writes
  past,   \* past[c]: the events that have touched c in the FREE execution
  seen,   \* seen[e][c]: what e found in c
  next,   \* the REPLAY loop: index of its next event
  rpast,  \* past and seen of the REPLAY execution
  rseen

replayVars == << absVars, foot, past, seen, next, rpast, rseen >>

\* "Provided the declared cells cover what the event really reads and writes";
\* a global barrier may touch every cell.
Covers(es, f) ==
  \A e \in Event : ~IsBarrier(es, e) => f[e] \subseteq CellsOf(es, e)

Init ==
  /\ AbsInit
  /\ foot \in [Event -> SUBSET Cell]
  /\ Covers(evs, foot)
  /\ past = [c \in Cell |-> {}]
  /\ seen = [e \in Event |-> [c \in Cell |-> {}]]
  /\ next = 0
  /\ rpast = [c \in Cell |-> {}]
  /\ rseen = [e \in Event |-> [c \in Cell |-> {}]]

\* FREE: the callback of e is entered.
Enter(e) ==
  /\ Start(e)
  /\ UNCHANGED << foot, past, seen, next, rpast, rseen >>

\* FREE: the body of e touches cell c.
Access(e, c) ==
  /\ e \in started \ done
  /\ c \in foot[e] /\ e \notin past[c]
  /\ seen' = [seen EXCEPT ![e][c] = past[c]]
  /\ past' = [past EXCEPT ![c] = @ \cup {e}]
  /\ UNCHANGED << absVars, foot, next, rpast, rseen >>

\* FREE: the callback of e returns.
Leave(e) ==
  /\ \A c \in foot[e] : e \in past[c]
  /\ Finish(e)
  /\ UNCHANGED << foot, past, seen, next, rpast, rseen >>

\* REPLAY: one turn of the loop.
Turn ==
  /\ next < N
  /\ rseen' = [rseen EXCEPT ![next] =
                 [c \in Cell |-> IF c \in foot[next] THEN rpast[c] ELSE {}]]
  /\ rpast' = [c \in Cell |-> IF c \in foot[next] THEN rpast[c] \cup {next} ELSE rpast[c]]
  /\ next' = next + 1
  /\ UNCHANGED << absVars, foot, past, seen >>

BothReturned == done = Event /\ next = N /\ UNCHANGED replayVars

Next ==
  \/ Turn \/ BothReturned
  \/ \E e \in Event : Enter(e) \/ Leave(e) \/ \E c \in Cell : Access(e, c)

Spec == Init /\ [][Next]_replayVars

-----------------------------------------------------------------------------
TypeOK ==
  /\ evs \in Inputs /\ started \subseteq Event /\ done \subseteq Event
  /\ foot \in [Event -> SUBSET Cell]
  /\ past \in [Cell -> SUBSET Event]
  /\ seen \in [Event -> [Cell -> SUBSET Event]]
  /\ next \in 0 .. N
  /\ rpast \in [Cell -> SUBSET Event]
  /\ rseen \in [Event -> [Cell -> SUBSET Event]]

\* Two events whose callbacks are running never touch a common cell: there is
\* no data race between the bodies, whatever their cells are used for.
NoRace ==
  \A e, f \in started \ done : e # f => foot[e] \cap foot[f] = {}

\* An event finds in a cell what REPLAY shows it there, as soon as both
\* executions have reached it, and not only at the end.
FindsTheSame ==
  \A e \in Event, c \in Cell : (e < next /\ e \in past[c]) => seen[e][c] = rseen[e][c]

\* The two finished executions have left the same world.
SameAsReplay == (done = Event /\ next = N) => past = rpast /\ seen = rseen

-----------------------------------------------------------------------------
(* The inductive invariant.                                                *)

EarlierDone == \A e \in started : Enabled(e)

PastInv ==
  /\ done \subseteq started
  /\ Covers(evs, foot)
  /\ \A c \in Cell : past[c] \subseteq started
  /\ \A e \in Event, c \in Cell : e \in past[c] => c \in foot[e]
  /\ \A e \in done : \A c \in foot[e] : e \in past[c]

\* The events that precede e at c in base order.
Before(e, c) == { f \in Event : f < e /\ c \in foot[f] }

SeenInv ==
  \A e \in Event, c \in Cell :
    seen[e][c] = IF e \in past[c] THEN Before(e, c) ELSE {}

ReplayInv ==
  /\ \A c \in Cell : rpast[c] = Before(next, c)
  /\ \A e \in Event, c \in Cell :
       rseen[e][c] = IF e < next /\ c \in foot[e] THEN Before(e, c) ELSE {}

OrderInv == TypeOK /\ EarlierDone /\ PastInv /\ SeenInv /\ ReplayInv
==============================================================================
