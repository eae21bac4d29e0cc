-------------------------------- MODULE Sched --------------------------------
(***************************************************************************)
(* core/src/sched.c, hc_sched_run with policy HC_SCHED_FREE: a thread pool *)
(* that runs a list of events, keeping the base order of conflicting ones  *)
(* with one FIFO per cell, global barriers gated by a completion counter,  *)
(* and everything protected by one mutex and one condition variable.       *)
(*                                                                         *)
(* Steps.  The caller first builds the tables, event by event (Enlist) and *)
(* then computes the initial wait counts and the first ready events (Arm). *)
(* A worker holds the mutex from Acquire, or from the end of an event      *)
(* (FinishEvent), up to TopPop, TopWait or TopExit.  The caller joins the  *)
(* workers and checks the completion counter (Join).                       *)
(*                                                                         *)
(* Abstractions.  cell_evs[c] from cell_cur[c] on is the sequence queue[c]; *)
(* the slots r_head .. r_tail-1 of the ready ring are the sequence ready,  *)
(* which is what the ring holds as long as it never has more than its n    *)
(* slots in use (ReadyFits); globals[] from next_global on is the sequence *)
(* globals.  The event bodies are opaque here.                             *)
(***************************************************************************)
EXTENDS ConflictOrder, Integers, Sequences, FiniteSets

CONSTANTS
  Worker,       \* the pool: nthreads threads, at least one
  NoWorker,     \* owner of the mutex when it is free
  MaxSpurious   \* bound: spurious wake-ups of pthread_cond_wait per run

ASSUME WorkerAssumption ==
  /\ Worker # {}
  /\ NoWorker \notin Worker
  /\ MaxSpurious \in Nat

ASSUME CellAssumption == IsFiniteSet(Cell)

\* Words for the duplicate-free and ascending lists the code keeps.
ElementsOf(s) == { s[i] : i \in DOMAIN s }
Ascends(s) == \A i, j \in DOMAIN s : i < j => s[i] < s[j]
Distinct(s) == \A i, j \in DOMAIN s : s[i] = s[j] => i = j

VARIABLES
  built,    \* events enlisted so far; N + 1 once the first ready are queued
  queue,    \* queue[c]: events touching c that are not complete, base order
  wait,     \* wait[e]: touched cells whose FIFO head is not yet e
  parked,   \* events with wait = 0 held back by a barrier
  globals,  \* barriers not yet passed, in base order
  ready,    \* the ready ring
  completed,\* completion counter
  mu,       \* owner of the mutex
  pc,       \* pc[w]: "new", "top", "exec", "blocked", "woken" or "exited"
  running,  \* running[w]: the event w executes (meaningful when pc = "exec")
  main,     \* the caller: "build", "join", "returned", "failed" or "aborted"
  spurious  \* spurious wake-ups so far

vars == << evs, started, done, built, queue, wait, parked, globals, ready,
           completed, mu, pc, running, main, spurious >>

tables == << queue, wait, parked, globals, ready, completed >>

Touch(e) == CellsOf(evs, e)
Barrier(e) == IsBarrier(evs, e)

\* barrier_limit: events at or past it must not start.
LimitOf(gs) == IF gs = << >> THEN N ELSE Head(gs)

\* The cells at which e is the head.
HeadCells(q, e) == { c \in Touch(e) : q[c] # << >> /\ Head(q[c]) = e }

Init ==
  /\ AbsInit
  /\ built = 0
  /\ queue = [c \in Cell |-> << >>]
  /\ wait = [e \in Event |-> 0]
  /\ parked = {}
  /\ globals = << >>
  /\ ready = << >>
  /\ completed = 0
  /\ mu = NoWorker
  /\ pc = [w \in Worker |-> "new"]
  /\ running = [w \in Worker |-> 0]
  /\ main = "build"
  /\ spurious = 0

-----------------------------------------------------------------------------
(* The caller, before the workers exist.                                   *)

\* One turn of the two table-building loops: event `built' joins the FIFO of
\* each of its cells, or the list of barriers.  (An event that names a cell
\* twice joins twice in the code; as its wait count then never reaches zero,
\* the second entry is never looked at.)
Enlist ==
  /\ main = "build" /\ built < N
  /\ LET e == built IN
       /\ queue' = [c \in Cell |->
                      IF c \in Touch(e) THEN Append(queue[c], e) ELSE queue[c]]
       /\ globals' = IF Barrier(e) THEN Append(globals, e) ELSE globals
  /\ built' = built + 1
  /\ UNCHANGED << absVars, wait, parked, ready, completed, mu, pc, running,
                  main, spurious >>

\* All lists of the elements of S, each once.
Orders(S) ==
  { s \in [1 .. Cardinality(S) -> S] : ElementsOf(s) = S /\ Distinct(s) }

\* The lists of the elements of S in ascending order.
Ascending(S) ==
  { s \in Orders(S) : Ascends(s) }

\* A barrier is queued at the moment everything before it is complete.
BarrierReady(gs, count) ==
  IF gs # << >> /\ Head(gs) = count THEN << count >> ELSE << >>

\* Mutant of HeadEverywhere: the initial loop admits the head of any cell.
HeadSomewhere == { e \in Event : ~Barrier(e) /\ HeadCells(queue, e) # {} }

\* The events at the head of all their cells.
HeadEverywhere == { e \in Event : ~Barrier(e) /\ Len(evs[e]) = Cardinality(HeadCells(queue, e)) }

\* The arena cannot hold the tables: -1 is returned before anything ran.
OutOfArena ==
  /\ main = "build" /\ built = 0
  /\ main' = "failed"
  /\ UNCHANGED << absVars, built, tables, mu, pc, running, spurious >>

\* Initial wait counts; the events at the head of all their cells are ready,
\* or parked when a barrier precedes them; a barrier that is the very first
\* event is ready.  Then the workers are created.
Arm ==
  /\ main = "build" /\ built = N
  /\ wait' = [e \in Event |-> Len(evs[e]) - Cardinality(HeadCells(queue, e))]
  /\ parked' = { e \in HeadEverywhere : e >= LimitOf(globals) }
  /\ \E s \in Ascending({ e \in HeadEverywhere : e < LimitOf(globals) }) :
       ready' = s \o BarrierReady(globals, 0)
  /\ built' = N + 1
  /\ main' = "join"
  /\ UNCHANGED << absVars, queue, globals, completed, mu, pc, running, spurious >>

-----------------------------------------------------------------------------
(* The workers.                                                            *)

\* pthread_mutex_lock at thread start, or inside pthread_cond_wait after a
\* wake-up.
Acquire(w) ==
  /\ main = "join"
  /\ mu = NoWorker
  /\ pc[w] \in {"new", "woken"}
  /\ mu' = w
  /\ pc' = [pc EXCEPT ![w] = "top"]
  /\ UNCHANGED << absVars, built, tables, running, main, spurious >>

\* Nothing ready and not everything complete: wait, releasing the mutex.
TopWait(w) ==
  /\ mu = w /\ pc[w] = "top"
  /\ ready = << >> /\ completed < N
  /\ mu' = NoWorker
  /\ pc' = [pc EXCEPT ![w] = "blocked"]
  /\ UNCHANGED << absVars, built, tables, running, main, spurious >>

\* Everything complete: leave.
TopExit(w) ==
  /\ mu = w /\ pc[w] = "top"
  /\ completed >= N
  /\ mu' = NoWorker
  /\ pc' = [pc EXCEPT ![w] = "exited"]
  /\ UNCHANGED << absVars, built, tables, running, main, spurious >>

\* Take the oldest ready event, release the mutex and enter its callback.
TopPop(w) ==
  /\ mu = w /\ pc[w] = "top"
  /\ ready # << >> /\ completed < N
  /\ started' = started \cup {Head(ready)}
  /\ running' = [running EXCEPT ![w] = Head(ready)]
  /\ ready' = Tail(ready)
  /\ mu' = NoWorker
  /\ pc' = [pc EXCEPT ![w] = "exec"]
  /\ UNCHANGED << evs, done, built, queue, wait, parked, globals, completed,
                  main, spurious >>

\* The event that becomes head of c when its present head completes.
NextHead(c) == queue[c][2]

\* The cells of e at which h becomes head when e completes.
NewHeadCells(e, h) ==
  { c \in Touch(e) : Len(queue[c]) > 1 /\ NextHead(c) = h }

\* Position in e's cell list of the cell that makes h head everywhere.
AdmitPos(e, h) ==
  CHOOSE k \in DOMAIN evs[e] :
    /\ evs[e][k] \in NewHeadCells(e, h)
    /\ \A j \in DOMAIN evs[e] : evs[e][j] \in NewHeadCells(e, h) => j <= k

\* The events that completing e leaves at the head of all their cells.
Freed(e) ==
  { h \in Event : NewHeadCells(e, h) # {} /\ wait[h] = Cardinality(NewHeadCells(e, h)) }

\* The order in which complete() admits them: that of e's cell list.
AdmitOrder(e, s) ==
  \A i, j \in DOMAIN s : i < j => AdmitPos(e, s[i]) < AdmitPos(e, s[j])

\* admit(): queue the freed events, or park those a barrier precedes.
AdmitFreed(e) ==
  /\ ~Barrier(e)
  /\ globals' = globals
  /\ parked' = parked \cup { h \in Freed(e) : h >= LimitOf(globals) }
  /\ \E s \in Orders({ h \in Freed(e) : h < LimitOf(globals) }) :
       /\ AdmitOrder(e, s)
       /\ ready' = ready \o s \o BarrierReady(globals, completed')

\* Mutant of Released: the loop runs to the last event, not to the limit.
ReleasedPastNext(e) == { h \in parked : e < h }

\* The parked events a barrier e lets through: those before the next one.
Released(e) == { h \in parked : e < h /\ h < LimitOf(Tail(globals)) }

\* A barrier completes: advance the limit, release the parked events.
PassBarrier(e) ==
  /\ Barrier(e)
  /\ globals' = Tail(globals)
  /\ parked' = parked \ Released(e)
  /\ \E s \in Ascending(Released(e)) :
       ready' = ready \o s \o BarrierReady(Tail(globals), completed')

\* complete(): count, advance the FIFOs of e's cells, and queue what may now
\* start: freed or released events first, then the next barrier.
Complete(e) ==
  /\ completed' = completed + 1
  /\ done' = done \cup {e}
  /\ queue' = [c \in Cell |-> IF c \in Touch(e) THEN Tail(queue[c]) ELSE queue[c]]
  /\ wait' = [h \in Event |-> wait[h] - Cardinality(NewHeadCells(e, h))]
  /\ AdmitFreed(e) \/ PassBarrier(e)

\* Mutant of WakeAll: the broadcast after complete() is missing.
WakeNobody(p) == p

\* pthread_cond_broadcast
WakeAll(p) == [v \in Worker |-> IF p[v] = "blocked" THEN "woken" ELSE p[v]]

\* The callback returns: lock, complete, broadcast, and back to the loop top
\* with the mutex held.
FinishEvent(w) ==
  /\ mu = NoWorker /\ pc[w] = "exec"
  /\ mu' = w
  /\ Complete(running[w])
  /\ pc' = [WakeAll(pc) EXCEPT ![w] = "top"]
  /\ UNCHANGED << evs, started, built, running, main, spurious >>

\* pthread_cond_wait may return with nobody having signalled.
SpuriousWake(w) ==
  /\ pc[w] = "blocked" /\ spurious < MaxSpurious
  /\ pc' = [pc EXCEPT ![w] = "woken"]
  /\ spurious' = spurious + 1
  /\ UNCHANGED << absVars, built, tables, mu, running, main >>

-----------------------------------------------------------------------------
\* The caller joins every worker; an incomplete run is a reported abort.
Join ==
  /\ main = "join"
  /\ \A w \in Worker : pc[w] = "exited"
  /\ main' = IF completed = N THEN "returned" ELSE "aborted"
  /\ UNCHANGED << absVars, built, tables, mu, pc, running, spurious >>

Returned == main \in {"returned", "failed"} /\ UNCHANGED vars

Next ==
  \/ OutOfArena \/ Enlist \/ Arm \/ Join \/ Returned
  \/ \E w \in Worker :
       \/ Acquire(w) \/ TopWait(w) \/ TopExit(w) \/ TopPop(w)
       \/ FinishEvent(w) \/ SpuriousWake(w)

WorkerStep(w) ==
  Acquire(w) \/ TopWait(w) \/ TopExit(w) \/ TopPop(w) \/ FinishEvent(w)

\* The caller and every worker that can always take a step take one: callbacks
\* return and a free mutex is handed to somebody.  No fairness for spurious
\* wake-ups.
Fairness ==
  /\ WF_vars(Enlist \/ Arm \/ Join)
  /\ \A w \in Worker : WF_vars(WorkerStep(w))

Spec == Init /\ [][Next]_vars /\ Fairness

-----------------------------------------------------------------------------
\* The types of the tables (struct sched_t).
Shapes ==
  /\ evs \in Inputs
  /\ started \subseteq Event /\ done \subseteq Event
  /\ built \in 0 .. N + 1
  /\ queue \in [Cell -> Seq(Event)]
  /\ wait \in [Event -> Int]
  /\ parked \subseteq Event
  /\ globals \in Seq(Event)
  /\ ready \in Seq(Event)
  /\ completed \in Nat
  /\ mu \in Worker \cup {NoWorker}
  /\ pc \in [Worker -> {"new", "top", "exec", "blocked", "woken", "exited"}]
  /\ running \in [Worker -> Event \cup {0}]
  /\ main \in {"build", "join", "returned", "failed", "aborted"}
  /\ spurious \in Nat

\* Type invariant: the tables keep their types, and the counter never passes
\* the number of events, which the workers' exit test relies on.
TypeOK == Shapes /\ completed <= N

\* Two callbacks that run at the same time never share a cell, and a global
\* barrier runs alone (hc_sched.h: conflicting pairs are serialised).
Executing == { w \in Worker : pc[w] = "exec" }
NoConflictingRun ==
  \A v, w \in Executing :
    v # w => ~Conflict(evs, running[v], running[w]) /\ running[v] # running[w]

\* An event is queued, running or finished only when every earlier event it
\* conflicts with has finished: the base order of conflicting pairs.
Issued == ElementsOf(ready) \cup started
BaseOrderKept ==
  \A e \in Issued, f \in Event : (f < e /\ Conflict(evs, e, f)) => f \in done

\* The ready ring of n slots is never overrun, and no event is queued twice.
ReadyFits ==
  /\ Len(ready) <= N
  /\ Distinct(ready)
  /\ ElementsOf(ready) \cap started = {}

\* A callback is entered at most once per event, and only by the worker that
\* took it: once started, an event never runs again.
NeverRunTwice ==
  [][\A w \in Worker : (pc[w] # "exec" /\ pc'[w] = "exec") =>
        running'[w] \notin started]_vars

\* Success is reported only for a complete run, by a pool that has stopped
\* with empty tables.
ReturnsComplete ==
  main = "returned" =>
    /\ done = Event /\ ready = << >> /\ parked = {} /\ globals = << >>
    /\ \A c \in Cell : queue[c] = << >>

\* The call comes back: no wake-up is lost, no event is left parked or waiting.
Terminates == <>(main \in {"returned", "failed"})

\* hc_sched_run implements the ordering contract.
Contract == AbsSafety
-----------------------------------------------------------------------------
(* Event lists that hc_sched.h rules out: an event declares a cell twice.  *)

DuplicateInputs == [Event -> { <<0>>, <<0, 0>> }]

\* sched.c:222: a run whose cell declarations wait for each other is reported
\* ("deadlock", then abort) instead of hanging: the call always ends.
StuckRunReported == <>(main \in {"returned", "failed", "aborted"})
==============================================================================
