--------------------------- MODULE SchedInductive ---------------------------
(***************************************************************************)
(* The inductive invariant of hc_sched_run (core/src/sched.c).  It says    *)
(* what the tables mean: each FIFO holds the incomplete touchers of its    *)
(* cell in base order, wait[] counts the cells at which an event is not    *)
(* yet the head, the events that are ready, parked or started are exactly  *)
(* those that are head everywhere, and nothing is past the next barrier.   *)
(***************************************************************************)
EXTENDS Sched

\* hc_sched.h, cells: "no duplicates".
ASSUME DuplicateFree ==
  \A es \in Inputs, e \in Event : Distinct(es[e])

\* Every event list over the cells, of lists of at most two.
AllInputs == [Event -> { << >> } \cup { <<c>> : c \in Cell } \cup { l \in Cell \X Cell : l[1] # l[2] }]

Armed == built = N + 1

\* The tables are built before anything is started.
PhaseInv ==
  /\ main \in {"join", "returned", "aborted"} <=> Armed
  /\ ~Armed => /\ started = {} /\ ready = << >> /\ parked = {}
               /\ \A w \in Worker : pc[w] = "new"
  /\ main = "returned" => completed = N

CountInv == completed = Cardinality(done)

\* queue[c]: the enlisted, incomplete events touching c, in base order.
FifoOK(q, b, D) ==
  \A c \in Cell :
    /\ Ascends(q[c])
    /\ ElementsOf(q[c]) = { e \in Event : e < b /\ c \in Touch(e) /\ e \notin D }

QueueInv == FifoOK(queue, built, done)

\* globals: the enlisted, incomplete barriers, in base order.
BarriersOK(gs, b, D) ==
  /\ Ascends(gs)
  /\ ElementsOf(gs) = { e \in Event : e < b /\ Barrier(e) /\ e \notin D }

GlobalsInv == BarriersOK(globals, built, done)

\* wait[e]: the cells of e at which it is not the head.
WaitInv ==
  Armed => \A e \in Event \ done :
             wait[e] = Cardinality(Touch(e)) - Cardinality(HeadCells(queue, e))

\* An event is in one place: queued, held by one worker, done, or parked.
IssueInv ==
  /\ Distinct(ready)
  /\ ElementsOf(ready) \cap started = {}
  /\ done \subseteq started
  /\ \A w \in Executing : running[w] \in started \ done
  /\ \A v, w \in Executing : v # w => running[v] # running[w]
  /\ parked \cap Issued = {}

\* Parked events wait for a barrier only.
ParkInv == \A e \in parked : ~Barrier(e) /\ e >= LimitOf(globals)

\* Head everywhere is the same as issued or parked.
AdmitInv ==
  Armed => \A e \in Event \ done :
             ~Barrier(e) => (e \in Issued \cup parked <=> wait[e] = 0)

\* Nothing at or past the next barrier is issued, except that barrier itself,
\* once everything before it is complete.
LimitInv ==
  \A e \in Issued :
    \/ e < LimitOf(globals)
    \/ globals # << >> /\ e = Head(globals) /\ e = completed

IInv ==
  /\ Shapes /\ PhaseInv /\ CountInv /\ QueueInv /\ GlobalsInv /\ WaitInv
  /\ IssueInv /\ ParkInv /\ AdmitInv /\ LimitInv /\ BaseOrderKept
==============================================================================
