---------------------------- MODULE ConflictOrder ----------------------------
(***************************************************************************)
(* What hc_sched.h promises of hc_sched_run in FREE mode, without saying   *)
(* how: the events are given in base order, two events conflict when their *)
(* cell lists meet or when one of them is a global barrier (no cells), and *)
(* an event starts only after every earlier event it conflicts with has    *)
(* finished.  Sched.tla is shown to implement this module.                 *)
(***************************************************************************)
EXTENDS Integers, Sequences

CONSTANTS
  N,        \* number of events, named 0 .. N-1 in base (REPLAY) order
  Cell,     \* the cells an event may declare
  Inputs    \* the event lists considered: functions Event -> Seq(Cell)

Event == 0 .. N - 1

ASSUME NAssumption == N \in Nat

ASSUME InputsAssumption ==
  /\ Cell \subseteq Nat
  /\ Inputs \subseteq [Event -> Seq(Cell)]

VARIABLES
  evs,      \* the event list of this call: evs[e] is the cells array of e
  started,  \* events whose exec callback has been entered
  done      \* events whose completion has been recorded

absVars == << evs, started, done >>

\* The set of cells an event declares.
CellsOf(es, e) == { es[e][k] : k \in DOMAIN es[e] }

\* An event that declares no cell is a global barrier.
IsBarrier(es, e) == es[e] = << >>

\* Mutant of Conflict: an event without cells conflicts with nothing.
ConflictByCells(es, e, f) == CellsOf(es, e) \cap CellsOf(es, f) # {}

\* Conflicting events keep their base order.
Conflict(es, e, f) ==
  \/ IsBarrier(es, e)
  \/ IsBarrier(es, f)
  \/ CellsOf(es, e) \cap CellsOf(es, f) # {}

AbsInit ==
  /\ evs \in Inputs
  /\ started = {}
  /\ done = {}

\* Mutant of Enabled: only the latest conflicting event is waited for.
EnabledAfterLatest(e) ==
  \A f \in Event :
    ( /\ f < e /\ Conflict(evs, e, f)
      /\ \A g \in Event : (f < g /\ g < e) => ~Conflict(evs, e, g) ) => f \in done

\* e may start: every earlier event it conflicts with is done.
Enabled(e) == \A f \in Event : (f < e /\ Conflict(evs, e, f)) => f \in done

Start(e) ==
  /\ e \notin started
  /\ Enabled(e)
  /\ started' = started \cup {e}
  /\ UNCHANGED << evs, done >>

Finish(e) ==
  /\ e \in started \ done
  /\ done' = done \cup {e}
  /\ UNCHANGED << evs, started >>

AbsNext == \E e \in Event : Start(e) \/ Finish(e)

AbsSafety == AbsInit /\ [][AbsNext]_absVars

==============================================================================
