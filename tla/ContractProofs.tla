--------------------------- MODULE ContractProofs ---------------------------
(***************************************************************************)
(* What the ordering contract gives (core/include/hc_sched.h).             *)
(*                                                                         *)
(* ReplayOrder: for every event list, cell space and footprints that the   *)
(* declared cells cover, an execution that keeps the contract finds in     *)
(* every cell what the REPLAY loop finds there, and no two running events  *)
(* share a cell.                                                           *)
(*                                                                         *)
(* SharedRecorder: the tick and block entity records that a finished FREE  *)
(* execution saves are those of REPLAY, in its order, for every event list,*)
(* footprint and choice of what is recorded: although the arrays are shared*)
(* by events that do not conflict, an event that records in a cell comes   *)
(* after all the earlier events of the cell and before all the later ones. *)
(***************************************************************************)
EXTENDS ReplayOrder, SharedRecorder, TLAPS

USE NAssumption, InputsAssumption

\* Events that touch a common cell conflict, in both directions.
LEMMA SharedCellConflict ==
  ASSUME Covers(evs, foot), NEW e \in Event, NEW f \in Event,
         NEW c \in foot[e], c \in foot[f]
  PROVE  Conflict(evs, e, f) /\ Conflict(evs, f, e)
BY DEF Covers, Conflict

\* A running event and another started one do not share a cell, unless the
\* other one is an earlier event that is done.
LEMMA RunningExcludes ==
  ASSUME OrderInv, NEW e \in started \ done, NEW f \in started, f # e,
         NEW c \in foot[e], c \in foot[f]
  PROVE  f < e /\ f \in done
<1>1. /\ e \in Event /\ f \in Event /\ Covers(evs, foot)
      /\ Enabled(e) /\ Enabled(f)
  BY DEF OrderInv, TypeOK, EarlierDone, PastInv
<1>2. Conflict(evs, e, f) /\ Conflict(evs, f, e)
  BY <1>1, SharedCellConflict
<1>3. e \in Int /\ f \in Int
  BY <1>1 DEF Event
<1>4. ~(e < f)
  BY <1>1, <1>2 DEF Enabled
<1> QED BY <1>1, <1>2, <1>3, <1>4 DEF Enabled

\* The initial state.
LEMMA InitOrder == Init => OrderInv
<1> SUFFICES ASSUME Init PROVE OrderInv
  OBVIOUS
<1>1. TypeOK
  BY DEF Init, AbsInit, TypeOK
<1>2. EarlierDone /\ PastInv
  BY DEF Init, AbsInit, EarlierDone, PastInv
<1>3. SeenInv
  BY DEF Init, SeenInv
<1>4. \A c \in Cell : Before(0, c) = {}
  BY DEF Before, Event
<1>5. ReplayInv
  BY <1>4 DEF Init, ReplayInv, Event
<1> QED BY <1>1, <1>2, <1>3, <1>5 DEF OrderInv

-----------------------------------------------------------------------------
(* One lemma per action.                                                   *)

LEMMA EnterStep ==
  ASSUME OrderInv, NEW e \in Event, Enter(e)
  PROVE  OrderInv'
<1>1. TypeOK'
  BY DEF OrderInv, TypeOK, Enter, Start
<1>2. EarlierDone'
  BY DEF OrderInv, EarlierDone, Enter, Start, Enabled
<1>3. PastInv'
  BY DEF OrderInv, PastInv, Enter, Start
<1>4. SeenInv'
  BY DEF OrderInv, SeenInv, Before, Enter, Start
<1>5. ReplayInv'
  BY DEF OrderInv, ReplayInv, Before, Enter, Start
<1> QED BY <1>1, <1>2, <1>3, <1>4, <1>5 DEF OrderInv

\* What an event finds when it touches a cell: every earlier event of the
\* cell, because they are done, and no later one, because e is not.
LEMMA AccessFinds ==
  ASSUME OrderInv, NEW e \in Event, NEW c \in Cell, Access(e, c)
  PROVE  past[c] = Before(e, c)
<1>1. /\ e \in started \ done /\ c \in foot[e] /\ e \notin past[c]
      /\ past[c] \subseteq started /\ past[c] \subseteq Event
      /\ Covers(evs, foot) /\ Enabled(e)
  BY DEF Access, OrderInv, PastInv, TypeOK, EarlierDone
<1>2. ASSUME NEW f \in past[c] PROVE f \in Before(e, c)
  <2>1. f \in started /\ f # e /\ c \in foot[f] /\ f \in Event
    BY <1>1, <1>2 DEF OrderInv, PastInv
  <2> QED BY <1>1, <2>1, RunningExcludes DEF Before
<1>3. ASSUME NEW f \in Before(e, c) PROVE f \in past[c]
  <2>1. f \in Event /\ f < e /\ c \in foot[f]
    BY <1>3 DEF Before
  <2>2. Conflict(evs, e, f)
    BY <1>1, <2>1, SharedCellConflict
  <2>3. f \in done
    BY <1>1, <2>1, <2>2 DEF Enabled
  <2> QED BY <2>1, <2>3 DEF OrderInv, PastInv
<1> QED BY <1>2, <1>3

LEMMA AccessStep ==
  ASSUME OrderInv, NEW e \in Event, NEW c \in Cell, Access(e, c)
  PROVE  OrderInv'
<1>0. /\ seen' = [seen EXCEPT ![e][c] = past[c]]
      /\ past' = [past EXCEPT ![c] = @ \cup {e}]
      /\ e \in started \ done /\ c \in foot[e]
      /\ UNCHANGED << absVars, foot, next, rpast, rseen >>
  BY DEF Access
<1>1. TypeOK'
  BY <1>0 DEF OrderInv, TypeOK, absVars
<1>2. EarlierDone'
  BY <1>0 DEF OrderInv, EarlierDone, Enabled, absVars
<1>3. PastInv'
  <2>1. Covers(evs, foot)' /\ (done \subseteq started)'
    BY <1>0 DEF OrderInv, PastInv, absVars
  <2>2. \A d \in Cell : past'[d] = IF d = c THEN past[d] \cup {e} ELSE past[d]
    BY <1>0 DEF OrderInv, TypeOK
  <2>3. \A d \in Cell : past'[d] \subseteq started'
    BY <1>0, <2>2 DEF OrderInv, PastInv, absVars
  <2>4. \A f \in Event, d \in Cell : f \in past'[d] => d \in foot'[f]
    BY <1>0, <2>2 DEF OrderInv, PastInv
  <2>5. \A f \in done' : \A d \in foot'[f] : f \in past'[d]
    BY <1>0, <2>2 DEF OrderInv, PastInv, TypeOK, absVars
  <2> QED BY <2>1, <2>3, <2>4, <2>5 DEF PastInv
<1>4. SeenInv'
  <2>1. past[c] = Before(e, c)
    BY AccessFinds
  <2>2. ASSUME NEW f \in Event, NEW d \in Cell
        PROVE  seen'[f][d] = IF f \in past'[d] THEN Before(f, d)' ELSE {}
    <3>1. Before(f, d)' = Before(f, d)
      BY <1>0 DEF Before
    <3>2. CASE f = e /\ d = c
      BY <1>0, <2>1, <3>1, <3>2 DEF OrderInv, TypeOK
    <3>3. CASE ~(f = e /\ d = c)
      <4>1. seen'[f][d] = seen[f][d]
        BY <1>0, <3>3 DEF OrderInv, TypeOK
      <4>2. f \in past'[d] <=> f \in past[d]
        BY <1>0, <3>3 DEF OrderInv, TypeOK
      <4> QED BY <3>1, <4>1, <4>2 DEF OrderInv, SeenInv
    <3> QED BY <3>2, <3>3
  <2> QED BY <2>2 DEF SeenInv
<1>5. ReplayInv'
  <2>1. rpast' = rpast /\ rseen' = rseen /\ next' = next /\ foot' = foot
    BY <1>0
  <2>2. ReplayInv
    BY DEF OrderInv
  <2> QED BY <2>1, <2>2, Zenon DEF ReplayInv, Before
<1> QED BY <1>1, <1>2, <1>3, <1>4, <1>5 DEF OrderInv

LEMMA LeaveStep ==
  ASSUME OrderInv, NEW e \in Event, Leave(e)
  PROVE  OrderInv'
<1>1. TypeOK'
  BY DEF OrderInv, TypeOK, Leave, Finish
<1>2. EarlierDone'
  BY DEF OrderInv, EarlierDone, Leave, Finish, Enabled
<1>3. PastInv'
  BY DEF OrderInv, PastInv, Leave, Finish
<1>4. SeenInv'
  BY DEF OrderInv, SeenInv, Before, Leave, Finish
<1>5. ReplayInv'
  <2>1. rpast' = rpast /\ rseen' = rseen /\ next' = next /\ foot' = foot
    BY DEF Leave
  <2>2. ReplayInv
    BY DEF OrderInv
  <2> QED BY <2>1, <2>2, Zenon DEF ReplayInv, Before
<1> QED BY <1>1, <1>2, <1>3, <1>4, <1>5 DEF OrderInv

LEMMA TurnStep ==
  ASSUME OrderInv, Turn
  PROVE  OrderInv'
<1>0. /\ next < N /\ next' = next + 1
      /\ rseen' = [rseen EXCEPT ![next] =
                     [c \in Cell |-> IF c \in foot[next] THEN rpast[c] ELSE {}]]
      /\ rpast' = [c \in Cell |-> IF c \in foot[next] THEN rpast[c] \cup {next} ELSE rpast[c]]
      /\ UNCHANGED << absVars, foot, past, seen >>
  BY DEF Turn
<1>a. next \in Event /\ next \in Nat
  BY <1>0 DEF OrderInv, TypeOK, Event
<1>1. TypeOK'
  <2>1. next' \in 0 .. N
    BY <1>0, <1>a
  <2>2. rpast' \in [Cell -> SUBSET Event]
    BY <1>0, <1>a DEF OrderInv, TypeOK
  <2>3. rseen' \in [Event -> [Cell -> SUBSET Event]]
    BY <1>0, <1>a DEF OrderInv, TypeOK
  <2> QED BY <1>0, <2>1, <2>2, <2>3 DEF OrderInv, TypeOK, absVars
<1>2. EarlierDone'
  BY <1>0 DEF OrderInv, EarlierDone, Enabled, absVars
<1>3. PastInv'
  BY <1>0 DEF OrderInv, PastInv, absVars
<1>4. SeenInv'
  BY <1>0 DEF OrderInv, SeenInv, Before
<1>5. ReplayInv'
  <2>1. \A c \in Cell : (rpast[c] = Before(next, c))'
    <3> SUFFICES ASSUME NEW c \in Cell PROVE (rpast[c] = Before(next, c))'
      OBVIOUS
    <3>1. \A e \in Event : e < next + 1 <=> (e < next \/ e = next)
      BY <1>a DEF Event
    <3>2. rpast[c] = Before(next, c)
      BY DEF OrderInv, ReplayInv
    <3>3. Before(next, c)' = { f \in Event : f < next + 1 /\ c \in foot[f] }
      BY <1>0 DEF Before
    <3>4. rpast'[c] = IF c \in foot[next] THEN rpast[c] \cup {next} ELSE rpast[c]
      BY <1>0
    <3> QED BY <1>a, <3>1, <3>2, <3>3, <3>4 DEF Before
  <2>2. ASSUME NEW e \in Event, NEW c \in Cell
        PROVE  rseen'[e][c] = IF e < next' /\ c \in foot'[e] THEN Before(e, c)' ELSE {}
    <3>1. Before(e, c)' = Before(e, c) /\ foot' = foot
      BY <1>0 DEF Before
    <3>2. CASE e = next
      <4>1. rseen'[e][c] = IF c \in foot[e] THEN rpast[c] ELSE {}
        BY <1>0, <1>a, <3>2 DEF OrderInv, TypeOK
      <4>2. rpast[c] = Before(e, c) /\ e < next'
        BY <1>0, <1>a, <3>2 DEF OrderInv, ReplayInv
      <4> QED BY <3>1, <4>1, <4>2
    <3>3. CASE e # next
      <4>1. rseen'[e][c] = rseen[e][c]
        BY <1>0, <3>3 DEF OrderInv, TypeOK
      <4>2. e < next' <=> e < next
        BY <1>0, <1>a, <3>3 DEF Event
      <4> QED BY <3>1, <4>1, <4>2 DEF OrderInv, ReplayInv
    <3> QED BY <3>2, <3>3
  <2> QED BY <2>1, <2>2 DEF ReplayInv
<1> QED BY <1>1, <1>2, <1>3, <1>4, <1>5 DEF OrderInv

LEMMA IdleStep ==
  ASSUME OrderInv, UNCHANGED replayVars
  PROVE  OrderInv'
<1>1. TypeOK' /\ EarlierDone' /\ PastInv'
  BY DEF OrderInv, TypeOK, EarlierDone, Enabled, PastInv, replayVars, absVars
<1>2. SeenInv'
  BY DEF OrderInv, SeenInv, Before, replayVars, absVars
<1>3. ReplayInv'
  BY DEF OrderInv, ReplayInv, Before, replayVars, absVars
<1> QED BY <1>1, <1>2, <1>3 DEF OrderInv

-----------------------------------------------------------------------------
\* The meaning of the sets past, seen, rpast and rseen, in every state.
THEOREM SpecOrderInv == Spec => []OrderInv
<1>1. OrderInv /\ [Next]_replayVars => OrderInv'
  <2> SUFFICES ASSUME OrderInv, [Next]_replayVars PROVE OrderInv'
    OBVIOUS
  <2>1. CASE Turn
    BY <2>1, TurnStep
  <2>2. CASE BothReturned \/ UNCHANGED replayVars
    BY <2>2, IdleStep DEF BothReturned
  <2>3. ASSUME NEW e \in Event, Enter(e) \/ Leave(e) PROVE OrderInv'
    BY <2>3, EnterStep, LeaveStep
  <2>4. ASSUME NEW e \in Event, NEW c \in Cell, Access(e, c) PROVE OrderInv'
    BY <2>4, AccessStep
  <2> QED BY <2>1, <2>2, <2>3, <2>4 DEF Next
<1> QED BY <1>1, InitOrder, PTL DEF Spec

\* The bodies of two running events share no cell (hc_sched.h: conflicting
\* events never overlap; sched.c: no data race as long as the cells cover).
THEOREM RaceFree == Spec => []NoRace
<1>1. OrderInv => NoRace
  <2> SUFFICES ASSUME OrderInv, NEW e \in started \ done, NEW f \in started \ done, e # f,
                      NEW c \in foot[e] \cap foot[f]
               PROVE  FALSE
    BY DEF NoRace
  <2> QED BY RunningExcludes
<1> QED BY <1>1, SpecOrderInv, PTL

\* Every event finds in every cell what REPLAY shows it there.
THEOREM FindsReplay == Spec => []FindsTheSame
<1>1. OrderInv => FindsTheSame
  BY DEF OrderInv, FindsTheSame, SeenInv, ReplayInv, PastInv
<1> QED BY <1>1, SpecOrderInv, PTL

\* FREE leaves the world REPLAY leaves (hc_sched.h: bit-identical to REPLAY).
THEOREM FreeIsReplay == Spec => []SameAsReplay
<1>1. OrderInv => SameAsReplay
  <2> SUFFICES ASSUME OrderInv, done = Event, next = N
               PROVE  past = rpast /\ seen = rseen
    BY DEF SameAsReplay
  <2>1. \A e \in Event : e < N
    BY DEF Event
  <2>2. ASSUME NEW c \in Cell PROVE past[c] = rpast[c]
    <3>1. past[c] \subseteq Event /\ rpast[c] = Before(N, c)
      BY DEF OrderInv, TypeOK, ReplayInv
    <3>2. \A e \in Event : e \in past[c] <=> c \in foot[e]
      BY DEF OrderInv, PastInv
    <3> QED BY <2>1, <3>1, <3>2 DEF Before
  <2>3. ASSUME NEW e \in Event, NEW c \in Cell PROVE seen[e][c] = rseen[e][c]
    BY <2>1 DEF OrderInv, SeenInv, ReplayInv, PastInv
  <2>4. /\ past = [c \in Cell |-> past[c]] /\ rpast = [c \in Cell |-> rpast[c]]
        /\ seen = [e \in Event |-> [c \in Cell |-> seen[e][c]]]
        /\ rseen = [e \in Event |-> [c \in Cell |-> rseen[e][c]]]
    BY DEF OrderInv, TypeOK
  <2>5. past = rpast
    BY <2>2, <2>4
  <2>6. seen = rseen
    <3>1. [e \in Event |-> [c \in Cell |-> seen[e][c]]]
            = [e \in Event |-> [c \in Cell |-> rseen[e][c]]]
      BY <2>3
    <3> QED BY <2>4, <3>1
  <2> QED BY <2>5, <2>6
<1> QED BY <1>1, SpecOrderInv, PTL
-----------------------------------------------------------------------------
(* The recorders. *)

\* What has recorded in a cell when e does: the earlier events of the cell.
LEMMA RecordFinds ==
  ASSUME RecInv, NEW e \in Event, NEW c \in Cell, Record(e, c)
  PROVE  recorded[c] = { f \in Event : f < e /\ c \in places[f] }
<1>1. /\ e \in started \ done /\ c \in places[e] /\ e \notin recorded[c]
      /\ recorded[c] \subseteq started /\ started \subseteq Event
      /\ \A f \in recorded[c] : c \in places[f]
      /\ \A f \in done : \A d \in places[f] : f \in recorded[d]
      /\ \A f \in started : Enabled(f)
  BY DEF Record, RecInv, RecPastInv, RecTypeOK
<1>2. ASSUME NEW f \in Event, c \in places[f]
      PROVE  Conflict(evs, e, f) /\ Conflict(evs, f, e)
  BY <1>1, <1>2 DEF RecInv, RecPastInv, Conflict
<1>3. ASSUME NEW f \in recorded[c] PROVE f \in Event /\ f < e /\ c \in places[f]
  <2>1. f \in started /\ f \in Event /\ c \in places[f] /\ f # e
    BY <1>1, <1>3
  <2>2. ~(e < f)
    BY <1>1, <1>2, <2>1 DEF Enabled
  <2> QED BY <2>1, <2>2 DEF Event
<1>4. ASSUME NEW f \in Event, f < e, c \in places[f] PROVE f \in recorded[c]
  <2>1. f \in done
    BY <1>1, <1>2, <1>4 DEF Enabled
  <2> QED BY <1>1, <1>4, <2>1
<1> QED BY <1>3, <1>4

-----------------------------------------------------------------------------
\* What the three operations do to the array.

LEMMA NewEntry ==
  ASSUME RecTypeOK, NEW e \in Event, NEW c \in Cell, op[e].kind \in {"tick", "be"}
  PROVE  New(e, c) \in Entry
<1>1. op[e] \in Op
  BY DEF RecTypeOK
<1> QED BY <1>1 DEF New, Entry, Op

LEMMA BuryEffect ==
  ASSUME NEW l \in Seq(Entry), NEW c, NEW p
  PROVE  /\ Bury(l, c, p) \in Seq(Entry)
         /\ DOMAIN Bury(l, c, p) = DOMAIN l
         /\ Len(Bury(l, c, p)) = Len(l)
         /\ \A i \in DOMAIN l :
              /\ Bury(l, c, p)[i].ev = l[i].ev /\ Bury(l, c, p)[i].cell = l[i].cell
              /\ Bury(l, c, p)[i].kind = l[i].kind /\ Bury(l, c, p)[i].pos = l[i].pos
              /\ Bury(l, c, p)[i].dead = (l[i].dead \/ At(l, i, "be", c, p))
<1> DEFINE B(i) == IF At(l, i, "be", c, p) THEN [l[i] EXCEPT !.dead = TRUE] ELSE l[i]
<1>1. \A i \in DOMAIN l : l[i] \in Entry
  OBVIOUS
<1>2. \A i \in DOMAIN l : /\ B(i) \in Entry
                         /\ B(i).ev = l[i].ev /\ B(i).cell = l[i].cell
                         /\ B(i).kind = l[i].kind /\ B(i).pos = l[i].pos
                         /\ B(i).dead = (l[i].dead \/ At(l, i, "be", c, p))
  BY <1>1 DEF Entry
<1>3. Bury(l, c, p) = [i \in 1 .. Len(l) |-> B(i)]
  BY DEF Bury
<1> HIDE DEF B
<1>4. Bury(l, c, p) \in Seq(Entry) /\ Len(Bury(l, c, p)) = Len(l)
  BY <1>2, <1>3
<1> QED BY <1>2, <1>3, <1>4

LEMMA AppendEffect ==
  ASSUME NEW l \in Seq(Entry), NEW r \in Entry
  PROVE  /\ Append(l, r) \in Seq(Entry)
         /\ DOMAIN Append(l, r) = 1 .. Len(l) + 1
         /\ DOMAIN l = 1 .. Len(l) /\ Len(l) \in Nat
         /\ \A i \in DOMAIN l : Append(l, r)[i] = l[i]
         /\ Append(l, r)[Len(l) + 1] = r
OBVIOUS

-----------------------------------------------------------------------------
LEMMA InitRecInv == RecInit => RecInv
<1> SUFFICES ASSUME RecInit PROVE RecInv
  OBVIOUS
<1>1. RecTypeOK
  BY DEF RecInit, AbsInit, RecTypeOK
<1>2. RecPastInv
  BY DEF RecInit, AbsInit, RecPastInv
<1>3. log = << >> /\ \A c \in Cell : recorded[c] = {}
  BY DEF RecInit
<1>4. EntryInv /\ LoggedInv /\ OrderedPerCell
  BY <1>3 DEF EntryInv, LoggedInv, OrderedPerCell
<1> QED BY <1>1, <1>2, <1>4 DEF RecInv

LEMMA EnterRecInv ==
  ASSUME RecInv, NEW e \in Event, RecEnter(e)
  PROVE  RecInv'
<1>1. RecTypeOK'
  BY DEF RecInv, RecTypeOK, RecEnter, Start
<1>2. RecPastInv'
  BY DEF RecInv, RecPastInv, RecEnter, Start, Enabled
<1>3. UNCHANGED <<op, recorded, log>>
  BY DEF RecEnter
<1>4. EntryInv' /\ LoggedInv' /\ OrderedPerCell'
  BY <1>3 DEF RecInv, EntryInv, Sound, LoggedInv, OrderedPerCell, At
<1> QED BY <1>1, <1>2, <1>4 DEF RecInv

LEMMA LeaveRecInv ==
  ASSUME RecInv, NEW e \in Event, RecLeave(e)
  PROVE  RecInv'
<1>1. RecTypeOK'
  BY DEF RecInv, RecTypeOK, RecLeave, Finish
<1>2. RecPastInv'
  BY DEF RecInv, RecPastInv, RecLeave, Finish, Enabled
<1>3. UNCHANGED <<op, recorded, log>>
  BY DEF RecLeave
<1>4. EntryInv' /\ LoggedInv' /\ OrderedPerCell'
  BY <1>3 DEF RecInv, EntryInv, Sound, LoggedInv, OrderedPerCell, At
<1> QED BY <1>1, <1>2, <1>4 DEF RecInv

\* Recording does not disturb the order of the events.
LEMMA RecordPast ==
  ASSUME RecInv, NEW e \in Event, NEW c \in Cell, Record(e, c)
  PROVE  /\ RecPastInv'
         /\ recorded' \in [Cell -> SUBSET Event]
         /\ recorded'[c] = recorded[c] \cup {e}
         /\ \A d \in Cell : d # c => recorded'[d] = recorded[d]
         /\ UNCHANGED <<absVars, places, op>>
<1>1. /\ recorded' = [recorded EXCEPT ![c] = @ \cup {e}]
      /\ e \in started \ done /\ c \in places[e]
      /\ UNCHANGED <<absVars, places, op>>
  BY DEF Record
<1>2. \A d \in Cell : recorded'[d] = IF d = c THEN recorded[d] \cup {e} ELSE recorded[d]
  BY <1>1 DEF RecInv, RecTypeOK
<1>3. recorded' \in [Cell -> SUBSET Event]
  BY <1>1 DEF RecInv, RecTypeOK
<1>4. RecPastInv'
  <2>1. \A d \in Cell : recorded'[d] \subseteq started'
    BY <1>1, <1>2 DEF RecInv, RecPastInv, absVars
  <2>2. \A d \in Cell : \A f \in recorded'[d] : d \in places'[f]
    <3>1. places' = places /\ \A d \in Cell : \A f \in recorded[d] : d \in places[f]
      BY <1>1 DEF RecInv, RecPastInv
    <3> SUFFICES ASSUME NEW d \in Cell, NEW f \in recorded'[d] PROVE d \in places[f]
      BY <3>1
    <3>2. CASE d = c
      <4>1. f \in recorded[c] \/ f = e
        BY <1>2, <3>2
      <4> QED BY <1>1, <3>1, <3>2, <4>1
    <3>3. CASE d # c
      <4>1. f \in recorded[d]
        BY <1>2, <3>3
      <4> QED BY <3>1, <4>1
    <3> QED BY <3>2, <3>3
  <2>3. \A f \in done' : \A d \in places'[f] : f \in recorded'[d]
    BY <1>1, <1>2 DEF RecInv, RecPastInv, RecTypeOK, absVars
  <2>4. /\ done' \subseteq started'
        /\ \A f \in started' : Enabled(f)'
        /\ \A f \in Event : ~IsBarrier(evs', f) => places'[f] \subseteq CellsOf(evs', f)
    BY <1>1 DEF RecInv, RecPastInv, absVars, Enabled
  <2> QED BY <2>1, <2>2, <2>3, <2>4 DEF RecPastInv
<1> QED BY <1>1, <1>2, <1>3, <1>4

\* The order of the entries survives an append by the latest event of a cell.
LEMMA AppendOrdered ==
  ASSUME NEW l \in Seq(Entry), NEW r \in Entry,
         \A i, j \in DOMAIN l : i < j /\ l[i].cell = l[j].cell => l[i].ev < l[j].ev,
         \A i \in DOMAIN l : l[i].cell = r.cell => l[i].ev < r.ev
  PROVE  \A i, j \in DOMAIN Append(l, r) :
           i < j /\ Append(l, r)[i].cell = Append(l, r)[j].cell
             => Append(l, r)[i].ev < Append(l, r)[j].ev
<1> DEFINE m == Append(l, r)
<1> SUFFICES ASSUME NEW i \in DOMAIN m, NEW j \in DOMAIN m, i < j, m[i].cell = m[j].cell
             PROVE  m[i].ev < m[j].ev
  OBVIOUS
<1>1. i \in DOMAIN l /\ m[i] = l[i]
  BY AppendEffect
<1>2. CASE j \in DOMAIN l
  BY <1>1, <1>2, AppendEffect
<1>3. CASE j = Len(l) + 1
  BY <1>1, <1>3, AppendEffect
<1> QED BY <1>2, <1>3, AppendEffect

\* The entries that e kills.
Killed(r, e, c) ==
  op[e].kind \in {"be", "remove"} /\ r.kind = "be" /\ r.cell = c /\ r.pos = op[e].pos

\* An entry stays sound when e records, given that it is killed if it has to.
LEMMA EntryKept ==
  ASSUME RecInv, NEW e \in Event, NEW c \in Cell, Record(e, c),
         NEW i \in DOMAIN log, NEW r \in Entry,
         r.ev = log[i].ev, r.cell = log[i].cell, r.kind = log[i].kind, r.pos = log[i].pos,
         r.dead = (log[i].dead \/ Killed(log[i], e, c))
  PROVE  Sound(r, recorded', op')
<1>1. /\ Sound(log[i], recorded, op) /\ log[i] \in Entry
      /\ op[e] \in Op /\ op \in [Event -> Op]
  BY DEF RecInv, EntryInv, RecTypeOK
<1>2. /\ recorded'[c] = recorded[c] \cup {e}
      /\ \A d \in Cell : d # c => recorded'[d] = recorded[d]
      /\ op' = op
  BY RecordPast
<1>3. \A f \in recorded[c] : f < e /\ f \in Event
  BY RecordFinds
<1>4. r.cell \in Cell /\ r.ev \in Int /\ e \in Int
  BY <1>1 DEF Entry, Event
<1>5. CASE r.cell # c
  <2>1. recorded'[r.cell] = recorded[r.cell]
    BY <1>2, <1>4, <1>5
  <2>2. r.dead = log[i].dead
    BY <1>1, <1>5 DEF Killed, Entry
  <2> QED BY <1>1, <1>2, <2>1, <2>2 DEF Sound
<1>6. CASE r.cell = c
  <2>1. r.ev \in recorded'[r.cell] /\ op'[r.ev] = [kind |-> r.kind, pos |-> r.pos]
    BY <1>1, <1>2, <1>6 DEF Sound
  <2>2. ASSUME r.kind = "tick"
        PROVE  ~r.dead /\ \A f \in recorded'[r.cell] : op'[f] = op'[r.ev] => r.ev <= f
    <3>1. ~r.dead /\ r.ev \in recorded[c]
      BY <1>1, <1>6, <2>2 DEF Sound, Killed
    <3> QED BY <1>1, <1>2, <1>3, <1>4, <1>6, <2>2, <3>1 DEF Sound
  <2>3. ASSUME r.kind = "be"
        PROVE  r.dead <=> \E f \in recorded'[r.cell] :
                            r.ev < f /\ op'[f].pos = r.pos /\ op'[f].kind \in {"be", "remove"}
    <3>1. r.ev < e
      BY <1>1, <1>3, <1>6 DEF Sound
    <3>2. log[i].dead <=> \E f \in recorded[c] :
                            r.ev < f /\ op[f].pos = r.pos /\ op[f].kind \in {"be", "remove"}
      BY <1>1, <1>6, <2>3 DEF Sound
    <3>3. Killed(log[i], e, c) <=> op[e].pos = r.pos /\ op[e].kind \in {"be", "remove"}
      BY <1>6, <2>3 DEF Killed
    <3> QED BY <1>2, <1>6, <3>1, <3>2, <3>3
  <2> QED BY <2>1, <2>2, <2>3 DEF Sound
<1> QED BY <1>5, <1>6

\* The entry that e appends is sound, if it is the first tick of its position
\* or a block entity.
LEMMA EntryNew ==
  ASSUME RecInv, NEW e \in Event, NEW c \in Cell, Record(e, c), op[e].kind \in {"tick", "be"},
         op[e].kind = "tick" => \A i \in DOMAIN log : ~At(log, i, "tick", c, op[e].pos)
  PROVE  Sound(New(e, c), recorded', op')
<1> DEFINE r == New(e, c)
<1>1. /\ recorded'[c] = recorded[c] \cup {e} /\ op' = op /\ op[e] \in Op
  BY RecordPast DEF RecInv, RecTypeOK
<1>2. \A f \in recorded[c] : f < e /\ f \in Event
  BY RecordFinds
<1>3. /\ r.ev = e /\ r.cell = c /\ r.kind = op[e].kind /\ r.pos = op[e].pos /\ r.dead = FALSE
  BY DEF New
<1>5. op[e] = [kind |-> r.kind, pos |-> r.pos]
  BY <1>1, <1>3 DEF Op
<1>6. ASSUME r.kind = "tick", NEW f \in recorded[c], op[f] = op[e] PROVE FALSE
  <2>1. \E i \in DOMAIN log : At(log, i, "tick", c, op[f].pos)
    BY <1>3, <1>6 DEF RecInv, LoggedInv
  <2> QED BY <1>3, <1>6, <2>1
<1>7. \A f \in recorded'[c] : ~(e < f)
  BY <1>1, <1>2 DEF Event
<1>8. e <= e
  BY DEF Event
<1>9. r = New(e, c)
  OBVIOUS
<1> HIDE DEF r
<1>10. r.ev \in recorded'[r.cell] /\ op'[r.ev] = [kind |-> r.kind, pos |-> r.pos]
  BY <1>1, <1>3, <1>5
<1>11. ASSUME r.kind = "tick"
       PROVE  ~r.dead /\ \A f \in recorded'[r.cell] : op'[f] = op'[r.ev] => r.ev <= f
  BY <1>1, <1>3, <1>6, <1>8, <1>11
<1>12. r.dead <=> \E f \in recorded'[r.cell] :
                   r.ev < f /\ op'[f].pos = r.pos /\ op'[f].kind \in {"be", "remove"}
  BY <1>3, <1>7
<1>13. Sound(r, recorded', op')
  BY <1>10, <1>11, <1>12 DEF Sound
<1> QED BY <1>9, <1>13

\* An entry of the array after e records is an old one, killed if it has to be,
\* or the one that e appends.
LEMMA RecordRecInv ==
  ASSUME RecInv, NEW e \in Event, NEW c \in Cell, Record(e, c)
  PROVE  RecInv'
<1>1. /\ RecPastInv' /\ recorded' \in [Cell -> SUBSET Event]
      /\ recorded'[c] = recorded[c] \cup {e}
      /\ \A d \in Cell : d # c => recorded'[d] = recorded[d]
      /\ UNCHANGED <<absVars, places, op>>
  BY RecordPast
<1>2. RecTypeOK /\ log \in Seq(Entry) /\ op[e] \in Op
  BY DEF RecInv, RecTypeOK
<1>3. \A i \in DOMAIN log : log[i].cell = c => log[i].ev < e
  <2>1. \A i \in DOMAIN log : log[i].ev \in recorded[log[i].cell]
    BY DEF RecInv, EntryInv, Sound
  <2> QED BY <2>1, RecordFinds
<1>4. ASSUME log' \in Seq(Entry) PROVE RecTypeOK'
  BY <1>1, <1>2, <1>4 DEF RecTypeOK, absVars
\* What LoggedInv needs of the new array.
<1>5. ASSUME \A i \in DOMAIN log : \E j \in DOMAIN log' :
               /\ log'[j].ev = log[i].ev /\ log'[j].cell = log[i].cell
               /\ log'[j].kind = log[i].kind /\ log'[j].pos = log[i].pos,
             op[e].kind = "tick" => \E i \in DOMAIN log' : At(log', i, "tick", c, op[e].pos),
             op[e].kind = "be" => \E i \in DOMAIN log' : At(log', i, "be", c, op[e].pos)
                                                        /\ log'[i].ev = e
      PROVE  LoggedInv'
  <2> SUFFICES ASSUME NEW d \in Cell, NEW f \in recorded'[d]
               PROVE  /\ op[f].kind = "tick" => \E i \in DOMAIN log' : At(log', i, "tick", d, op[f].pos)
                      /\ op[f].kind = "be" => \E i \in DOMAIN log' : At(log', i, "be", d, op[f].pos)
                                                                  /\ log'[i].ev = f
    BY <1>1 DEF LoggedInv, At
  <2>1. CASE f \in recorded[d]
    BY <1>5, <2>1 DEF RecInv, LoggedInv, At
  <2>2. CASE f \notin recorded[d]
    <3>1. d = c /\ f = e
      BY <1>1, <2>2
    <3> QED BY <1>5, <3>1
  <2> QED BY <2>1, <2>2
<1>6. CASE op[e].kind = "tick" /\ \E i \in DOMAIN log : At(log, i, "tick", c, op[e].pos)
  <2>1. log' = log
    BY <1>6 DEF Record, AddTick
  <2>2. ASSUME NEW i \in DOMAIN log' PROVE Sound(log'[i], recorded', op')
    <3>0. log[i] \in Entry /\ i \in DOMAIN log
      BY <1>2, <2>1, <2>2
    <3>1. ~Killed(log[i], e, c)
      BY <1>6 DEF Killed
    <3>2. Sound(log[i], recorded', op')
      BY <3>0, <3>1, EntryKept DEF Entry
    <3> QED BY <2>1, <3>2
  <2>3. LoggedInv'
    BY <1>5, <1>6, <2>1 DEF At
  <2>4. OrderedPerCell'
    BY <2>1 DEF RecInv, OrderedPerCell
  <2> QED BY <1>1, <1>2, <1>4, <2>1, <2>2, <2>3, <2>4 DEF RecInv, EntryInv
<1>7. CASE op[e].kind = "tick" /\ ~ \E i \in DOMAIN log : At(log, i, "tick", c, op[e].pos)
  <2> DEFINE r == New(e, c)
  <2>1. log' = Append(log, r) /\ r \in Entry
    BY <1>2, <1>7, NewEntry DEF Record, AddTick
  <2>2. r.ev = e /\ r.cell = c /\ r.kind = "tick" /\ r.pos = op[e].pos
    BY <1>7 DEF New
  <2>3. Sound(r, recorded', op')
    BY <1>7, EntryNew
  <2> HIDE DEF r
  <2>4. /\ log' \in Seq(Entry) /\ DOMAIN log' = 1 .. Len(log) + 1 /\ DOMAIN log = 1 .. Len(log)
        /\ Len(log) \in Nat
        /\ \A i \in DOMAIN log : log'[i] = log[i]
        /\ log'[Len(log) + 1] = r
    BY <1>2, <2>1, AppendEffect
  <2>5. ASSUME NEW i \in DOMAIN log' PROVE Sound(log'[i], recorded', op')
    <3>1. CASE i \in DOMAIN log
      <4>0. log[i] \in Entry
        BY <1>2, <3>1
      <4>1. ~Killed(log[i], e, c)
        BY <1>7 DEF Killed
      <4>2. Sound(log[i], recorded', op')
        BY <3>1, <4>0, <4>1, EntryKept DEF Entry
      <4> QED BY <2>4, <3>1, <4>2
    <3>2. CASE i = Len(log) + 1
      BY <2>3, <2>4, <3>2 DEF Sound
    <3> QED BY <2>4, <3>1, <3>2
  <2>6. LoggedInv'
    <3>1. \A i \in DOMAIN log : \E j \in DOMAIN log' :
            /\ log'[j].ev = log[i].ev /\ log'[j].cell = log[i].cell
            /\ log'[j].kind = log[i].kind /\ log'[j].pos = log[i].pos
      BY <2>4
    <3>2. At(log', Len(log) + 1, "tick", c, op[e].pos)
      BY <2>2, <2>4 DEF At
    <3>3. \E i \in DOMAIN log' : At(log', i, "tick", c, op[e].pos)
      BY <2>4, <3>2
    <3> QED BY <1>5, <1>7, <3>1, <3>3
  <2>7. OrderedPerCell'
    BY <1>2, <1>3, <2>1, <2>2, AppendOrdered DEF RecInv, OrderedPerCell
  <2> QED BY <1>1, <1>4, <2>4, <2>5, <2>6, <2>7 DEF RecInv, EntryInv
<1>8. CASE op[e].kind \in {"be", "remove"}
  <2> DEFINE l == Bury(log, c, op[e].pos)
             r == New(e, c)
  <2>1. /\ l \in Seq(Entry) /\ DOMAIN l = DOMAIN log /\ Len(l) = Len(log)
        /\ \A i \in DOMAIN log : /\ l[i].ev = log[i].ev /\ l[i].cell = log[i].cell
                                 /\ l[i].kind = log[i].kind /\ l[i].pos = log[i].pos
                                 /\ l[i].dead = (log[i].dead \/ At(log, i, "be", c, op[e].pos))
    BY <1>2, BuryEffect
  <2>2. \A i \in DOMAIN log : At(log, i, "be", c, op[e].pos) = Killed(log[i], e, c)
    BY <1>8 DEF At, Killed
  <2>3. op[e].kind = "be" => log' = Append(l, r) /\ r \in Entry
    BY <1>2, NewEntry DEF Record, AddEntity
  <2>4. op[e].kind = "remove" => log' = l
    BY DEF Record, RemoveEntity
  <2>5. op[e].kind = "be" => Sound(r, recorded', op')
    BY EntryNew
  <2>6. r.ev = e /\ r.cell = c /\ r.kind = op[e].kind /\ r.pos = op[e].pos
    BY DEF New
  <2> HIDE DEF l, r
  <2>7. ASSUME NEW i \in DOMAIN log PROVE Sound(l[i], recorded', op')
    <3>1. l[i] \in Entry
      BY <2>1, <2>7
    <3>2. l[i].dead = (log[i].dead \/ Killed(log[i], e, c))
      BY <2>1, <2>2, <2>7
    <3> QED BY <2>1, <2>7, <3>1, <3>2, EntryKept
  <2>8. \A i, j \in DOMAIN l : i < j /\ l[i].cell = l[j].cell => l[i].ev < l[j].ev
    BY <2>1 DEF RecInv, OrderedPerCell
  <2>9. \A i \in DOMAIN l : l[i].cell = c => l[i].ev < e
    BY <1>3, <2>1
  <2>10. CASE op[e].kind = "be"
    <3>1. /\ log' \in Seq(Entry) /\ DOMAIN log' = 1 .. Len(l) + 1 /\ DOMAIN l = 1 .. Len(l)
          /\ Len(l) \in Nat
          /\ \A i \in DOMAIN l : log'[i] = l[i]
          /\ log'[Len(l) + 1] = r
      <4>1. l \in Seq(Entry) /\ r \in Entry /\ log' = Append(l, r)
        BY <2>1, <2>3, <2>10
      <4> QED BY <4>1, AppendEffect
    <3>2. ASSUME NEW i \in DOMAIN log' PROVE Sound(log'[i], recorded', op')
      <4>1. CASE i \in DOMAIN l
        BY <2>1, <2>7, <3>1, <4>1 DEF Sound
      <4>2. CASE i = Len(l) + 1
        BY <2>5, <2>10, <3>1, <4>2 DEF Sound
      <4> QED BY <3>1, <4>1, <4>2
    <3>3. LoggedInv'
      <4>1. \A i \in DOMAIN log : \E j \in DOMAIN log' :
              /\ log'[j].ev = log[i].ev /\ log'[j].cell = log[i].cell
              /\ log'[j].kind = log[i].kind /\ log'[j].pos = log[i].pos
        BY <2>1, <3>1
      <4>2. At(log', Len(l) + 1, "be", c, op[e].pos) /\ log'[Len(l) + 1].ev = e
        BY <2>6, <2>10, <3>1 DEF At
      <4>3. \E i \in DOMAIN log' : At(log', i, "be", c, op[e].pos) /\ log'[i].ev = e
        BY <3>1, <4>2
      <4> QED BY <1>5, <2>10, <4>1, <4>3
    <3>4. OrderedPerCell'
      BY <2>1, <2>3, <2>6, <2>8, <2>9, <2>10, AppendOrdered DEF OrderedPerCell
    <3> QED BY <1>1, <1>4, <3>1, <3>2, <3>3, <3>4 DEF RecInv, EntryInv
  <2>11. CASE op[e].kind = "remove"
    <3>1. log' = l
      BY <2>4, <2>11
    <3>2. ASSUME NEW i \in DOMAIN log' PROVE Sound(log'[i], recorded', op')
      BY <2>1, <2>7, <3>1 DEF Sound
    <3>3. LoggedInv'
      <4>1. \A i \in DOMAIN log : \E j \in DOMAIN log' :
              /\ log'[j].ev = log[i].ev /\ log'[j].cell = log[i].cell
              /\ log'[j].kind = log[i].kind /\ log'[j].pos = log[i].pos
        BY <2>1, <3>1
      <4> QED BY <1>5, <2>11, <4>1
    <3>4. OrderedPerCell'
      BY <2>8, <3>1 DEF OrderedPerCell
    <3> QED BY <1>1, <1>4, <2>1, <3>1, <3>2, <3>3, <3>4 DEF RecInv, EntryInv
  <2> QED BY <1>8, <2>10, <2>11
<1> QED BY <1>2, <1>6, <1>7, <1>8 DEF Op, Kind

\* The inductive invariant.
THEOREM SpecRecInv == RecSpec => []RecInv
<1>1. RecInit => RecInv
  BY InitRecInv
<1>2. RecInv /\ [RecNext]_recVars => RecInv'
  <2> SUFFICES ASSUME RecInv, [RecNext]_recVars PROVE RecInv'
    OBVIOUS
  <2>1. ASSUME NEW e \in Event, RecEnter(e) \/ RecLeave(e) \/ \E c \in Cell : Record(e, c)
        PROVE  RecInv'
    BY <2>1, EnterRecInv, LeaveRecInv, RecordRecInv
  <2>2. CASE UNCHANGED recVars
    BY <2>2 DEF recVars, absVars, RecInv, RecTypeOK, RecPastInv, Enabled, EntryInv, Sound,
                LoggedInv, OrderedPerCell, At
  <2> QED BY <2>1, <2>2 DEF RecNext, Returned
<1> QED BY <1>1, <1>2, PTL DEF RecSpec

\* The entries of a cell are in base order, for every list of events.
THEOREM BaseOrder == RecSpec => []OrderedPerCell
<1>1. RecInv => OrderedPerCell
  BY DEF RecInv
<1> QED BY <1>1, SpecRecInv, PTL

\* What is saved is what REPLAY saves.
LEMMA SavedFollows == RecInv => SavedSame
<1> SUFFICES ASSUME RecInv, done = Event, NEW c \in Cell, NEW p \in Pos
             PROVE  /\ { log[i].ev : i \in Live("tick", c, p) } = ReplayTick(c, p)
                    /\ { log[i].ev : i \in Live("be", c, p) } = ReplayEntity(c, p)
  BY DEF SavedSame
<1>1. recorded[c] = { e \in Event : c \in places[e] }
  BY DEF RecInv, RecTypeOK, RecPastInv
<1>2. \A i \in DOMAIN log : Sound(log[i], recorded, op) /\ log[i] \in Entry
  BY DEF RecInv, RecTypeOK, EntryInv
<1>3. op \in [Event -> Op]
  BY DEF RecInv, RecTypeOK
<1>4. { log[i].ev : i \in Live("tick", c, p) } = ReplayTick(c, p)
  <2>1. ASSUME NEW i \in Live("tick", c, p) PROVE log[i].ev \in ReplayTick(c, p)
    <3>1. i \in DOMAIN log /\ log[i].kind = "tick" /\ log[i].cell = c /\ log[i].pos = p
      BY <2>1 DEF Live, At
    <3>2. log[i].ev \in recorded[c] /\ op[log[i].ev] = [kind |-> "tick", pos |-> p]
          /\ \A f \in recorded[c] : op[f] = op[log[i].ev] => log[i].ev <= f
      BY <1>2, <3>1 DEF Sound
    <3>3. \A f \in At0(c, p, {"tick"}) : f \in recorded[c] /\ op[f] = [kind |-> "tick", pos |-> p]
      BY <1>1, <1>3 DEF At0, Op
    <3> QED BY <1>1, <3>2, <3>3 DEF ReplayTick, At0
  <2>2. ASSUME NEW e \in ReplayTick(c, p) PROVE \E i \in Live("tick", c, p) : log[i].ev = e
    <3>1. e \in recorded[c] /\ op[e].kind = "tick" /\ op[e].pos = p /\ e \in Event
          /\ \A f \in At0(c, p, {"tick"}) : e <= f
      BY <1>1, <2>2 DEF ReplayTick, At0
    <3>2. PICK i \in DOMAIN log : At(log, i, "tick", c, p)
      BY <3>1 DEF RecInv, LoggedInv
    <3>3. ~log[i].dead /\ log[i].ev \in recorded[c] /\ op[log[i].ev] = [kind |-> "tick", pos |-> p]
          /\ \A f \in recorded[c] : op[f] = op[log[i].ev] => log[i].ev <= f
      BY <1>2, <3>2 DEF Sound, At
    <3>4. op[e] = [kind |-> "tick", pos |-> p]
      BY <1>3, <3>1 DEF Op
    <3>5. log[i].ev <= e /\ e <= log[i].ev
      BY <1>1, <3>1, <3>3, <3>4 DEF At0
    <3>6. log[i].ev = e
      BY <1>1, <3>1, <3>3, <3>5 DEF Event
    <3> QED BY <3>2, <3>3, <3>6 DEF Live
  <2> QED BY <2>1, <2>2
<1>5. { log[i].ev : i \in Live("be", c, p) } = ReplayEntity(c, p)
  <2>1. ASSUME NEW i \in Live("be", c, p) PROVE log[i].ev \in ReplayEntity(c, p)
    <3>1. i \in DOMAIN log /\ log[i].kind = "be" /\ log[i].cell = c /\ log[i].pos = p /\ ~log[i].dead
      BY <2>1 DEF Live, At
    <3>2. log[i].ev \in recorded[c] /\ op[log[i].ev] = [kind |-> "be", pos |-> p]
          /\ ~ \E f \in recorded[c] : log[i].ev < f /\ op[f].pos = p /\ op[f].kind \in {"be", "remove"}
      BY <1>2, <3>1 DEF Sound
    <3>3. \A f \in At0(c, p, {"be", "remove"}) : ~(log[i].ev < f) /\ f \in Event
      BY <1>1, <3>2 DEF At0
    <3>4. \A f \in At0(c, p, {"be", "remove"}) : f <= log[i].ev
      BY <1>1, <3>2, <3>3 DEF Event
    <3> QED BY <1>1, <3>2, <3>4 DEF ReplayEntity, At0
  <2>2. ASSUME NEW e \in ReplayEntity(c, p) PROVE \E i \in Live("be", c, p) : log[i].ev = e
    <3>1. e \in recorded[c] /\ op[e].kind = "be" /\ op[e].pos = p /\ e \in Event
          /\ \A f \in At0(c, p, {"be", "remove"}) : f <= e
      BY <1>1, <2>2 DEF ReplayEntity, At0
    <3>2. PICK i \in DOMAIN log : At(log, i, "be", c, p) /\ log[i].ev = e
      BY <3>1 DEF RecInv, LoggedInv
    <3>3. \A f \in recorded[c] : op[f].pos = p /\ op[f].kind \in {"be", "remove"} => ~(e < f)
      BY <1>1, <3>1 DEF At0, Event
    <3>4. ~log[i].dead
      BY <1>2, <3>2, <3>3 DEF Sound, At
    <3> QED BY <3>2, <3>4 DEF Live
  <2> QED BY <2>1, <2>2
<1> QED BY <1>4, <1>5

\* A finished FREE execution saves the records of REPLAY.
THEOREM RecordsOfReplay == RecSpec => []SavedSame
BY SpecRecInv, SavedFollows, PTL

\* The records are in base order per chunk and end as those of REPLAY.
THEOREM RecordsCorrect == RecSpec => []RecordsExact
BY BaseOrder, RecordsOfReplay, PTL DEF RecordsExact
=============================================================================
