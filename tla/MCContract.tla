----------------------------- MODULE MCContract -----------------------------
(***************************************************************************)
(* What the ordering contract gives: the world of REPLAY, and its records. *)
(* Both are about executions that keep the contract, and neither looks at  *)
(* the other, so a behaviour is about one of them, named by part; the      *)
(* other has not begun.                                                    *)
(***************************************************************************)
EXTENDS ReplayOrder, SharedRecorder

VARIABLE part      \* "world" or "records"

worldVars == <<foot, past, seen, next, rpast, rseen>>
recordVars == <<places, op, recorded, log>>
allVars == <<part, absVars, worldVars, recordVars>>
-----------------------------------------------------------------------------
\* Records: the list of the second event varies over all of them, a barrier
\* included.
ShortLists == { <<0>>, <<0, 1>> }
MixedInputs == { es \in AscendingInputs : es[0] \in ShortLists /\ es[2] \in ShortLists }

NoCells == [e \in Event |-> {}]
Nobody == [c \in Cell |-> {}]
Nothing == [e \in Event |-> Nobody]

MCInit ==
  \/ /\ part = "world" /\ Init
     /\ places = NoCells /\ op = "idle" /\ recorded = Nobody /\ log = << >>
  \/ /\ part = "records" /\ RecInit /\ evs \in MixedInputs
     /\ foot = NoCells /\ past = Nobody /\ seen = Nothing /\ next = 0 /\ rpast = Nobody /\ rseen = Nothing

InWorld == part = "world" /\ UNCHANGED <<part, recordVars>>
InRecords == part = "records" /\ UNCHANGED <<part, worldVars>>

MCNext ==
  \/ InWorld /\ Turn
  \/ InWorld /\ BothReturned
  \/ \E e \in Event : InWorld /\ Enter(e)
  \/ \E e \in Event : InWorld /\ Leave(e)
  \/ \E e \in Event, c \in Cell : InWorld /\ Access(e, c)
  \/ InRecords /\ Returned
  \/ \E e \in Event : InRecords /\ RecEnter(e)
  \/ \E e \in Event : InRecords /\ RecLeave(e)
  \/ \E e \in Event, c \in Cell : InRecords /\ Record(e, c)

MCSpec == MCInit /\ [][MCNext]_allVars
=============================================================================
