---------------------------- MODULE TickRecorder ----------------------------
(***************************************************************************)
(* The recorder of scheduled ticks (core/src/features.c) that the workers  *)
(* of the FREE mode share: an array of records and an open-addressing hash *)
(* table of their indices, under a test-and-test-and-set spin lock         *)
(* (core/src/hc_sync.h).  One action is one access to shared memory, except*)
(* the fields of a record, which are written in one step.                  *)
(***************************************************************************)
EXTENDS Integers, Sequences

CONSTANTS
  Worker,      \* the threads
  Key,         \* (kind class, position, block without its state)
  Payload,     \* what a tick holds beside its key: t and the block's state
  None,        \* no tick
  Home,        \* the hash of a key, cut to a slot
  Cap,         \* records the arena was asked for
  HCap,        \* slots of the hash table
  MaxCalls     \* bound: ticks one worker schedules

ASSUME RecorderAssumption ==
  /\ Cap \in Nat
  /\ HCap \in Nat \ {0} /\ HCap >= 4 * Cap
  /\ Home \in [Key -> 0 .. HCap - 1]
  /\ MaxCalls \in Nat
  /\ None \notin [key : Key, t : Payload]

Tick == [key : Key, t : Payload]
Slot == 0 .. HCap - 1

VARIABLES
  lock,        \* hc_spin_t.f
  recs,        \* recs[i]: a tick, or None while the slot is not written
  n,           \* records published
  hset,        \* hset[s]: an index of recs, or -1
  pc,          \* where each worker is
  tick,        \* tick[w]: the call of w in progress, or the last one
  slot,        \* the slot w is looking at
  calls        \* calls w has made

vars == <<lock, recs, n, hset, pc, tick, slot, calls>>

Init == /\ lock = FALSE
        /\ recs = [i \in 0 .. Cap - 1 |-> None]
        /\ n = 0
        /\ hset = [s \in Slot |-> -1]
        /\ pc = [w \in Worker |-> "out"]
        /\ tick = [w \in Worker |-> None]
        /\ slot = [w \in Worker |-> 0]
        /\ calls = [w \in Worker |-> 0]

Goto(w, there) == pc' = [pc EXCEPT ![w] = there]

\* (slot + 1) & mask: HCap is a power of two.
Following(s) == IF s = HCap - 1 THEN 0 ELSE s + 1

Call(w) == /\ pc[w] = "out" /\ calls[w] < MaxCalls
           /\ \E t \in Tick : /\ tick' = [tick EXCEPT ![w] = t]
                              /\ slot' = [slot EXCEPT ![w] = Home[t.key]]
           /\ calls' = [calls EXCEPT ![w] = @ + 1]
           /\ Goto(w, "try")
           /\ UNCHANGED <<lock, recs, n, hset>>

\* The atomic exchange of the lock.
Try(w) == /\ pc[w] = "try"
          /\ lock' = TRUE
          /\ Goto(w, IF lock THEN "watch" ELSE "probe")
          /\ UNCHANGED <<recs, n, hset, tick, slot, calls>>

\* The relaxed load that sees the lock free; one that sees it taken changes
\* nothing.
Watch(w) == /\ pc[w] = "watch" /\ ~lock
            /\ Goto(w, "try")
            /\ UNCHANGED <<lock, recs, n, hset, tick, slot, calls>>

\* The record at i has the key of the tick that w schedules.
SameKey(w, i) == recs[i].key = tick[w].key

\* Mutant: a duplicate returns without the unlock.
ProbeKeepsLock(w) ==
  /\ pc[w] = "probe"
  /\ LET i == hset[slot[w]]
     IN  \/ i < 0 /\ Goto(w, "write") /\ UNCHANGED slot
         \/ i >= 0 /\ SameKey(w, i) /\ Goto(w, "out") /\ UNCHANGED slot
         \/ /\ i >= 0 /\ ~ SameKey(w, i)
            /\ slot' = [slot EXCEPT ![w] = Following(slot[w])]
            /\ UNCHANGED pc
  /\ UNCHANGED <<lock, recs, n, hset, tick, calls>>

\* Mutant: a duplicate replaces the record.
ProbeLastWins(w) ==
  /\ pc[w] = "probe"
  /\ LET i == hset[slot[w]]
     IN  \/ i < 0 /\ Goto(w, "write") /\ UNCHANGED <<slot, recs>>
         \/ /\ i >= 0 /\ SameKey(w, i) /\ Goto(w, "unlock") /\ UNCHANGED slot
            /\ recs' = [recs EXCEPT ![i] = tick[w]]
         \/ /\ i >= 0 /\ ~ SameKey(w, i)
            /\ slot' = [slot EXCEPT ![w] = Following(slot[w])]
            /\ UNCHANGED <<pc, recs>>
  /\ UNCHANGED <<lock, n, hset, tick, calls>>

\* One turn of the probe loop: an empty slot ends it, a record with the same
\* key ends the call, anything else moves on.
Probe(w) ==
  /\ pc[w] = "probe"
  /\ LET i == hset[slot[w]]
     IN  \/ i < 0 /\ Goto(w, "write") /\ UNCHANGED slot
         \/ i >= 0 /\ SameKey(w, i) /\ Goto(w, "unlock") /\ UNCHANGED slot
         \/ /\ i >= 0 /\ ~ SameKey(w, i)
            /\ slot' = [slot EXCEPT ![w] = Following(slot[w])]
            /\ UNCHANGED pc
  /\ UNCHANGED <<lock, recs, n, hset, tick, calls>>

\* The fields of the record.  A full recorder ends the process.
Write(w) == /\ pc[w] = "write"
            /\ IF n >= Cap
                 THEN Goto(w, "dead") /\ UNCHANGED recs
                 ELSE Goto(w, "link") /\ recs' = [recs EXCEPT ![n] = tick[w]]
            /\ UNCHANGED <<lock, n, hset, tick, slot, calls>>

\* tr->hset[slot] = tr->n++
Link(w) == /\ pc[w] = "link"
           /\ hset' = [hset EXCEPT ![slot[w]] = n]
           /\ n' = n + 1
           /\ Goto(w, "unlock")
           /\ UNCHANGED <<lock, recs, tick, slot, calls>>

Unlock(w) == /\ pc[w] = "unlock"
             /\ lock' = FALSE
             /\ Goto(w, "out")
             /\ UNCHANGED <<recs, n, hset, tick, slot, calls>>

Step(w) == Try(w) \/ Watch(w) \/ Probe(w) \/ Write(w) \/ Link(w) \/ Unlock(w)

\* die() ends every thread.
Alive == \A w \in Worker : pc[w] # "dead"

Next == Alive /\ \E w \in Worker : Call(w) \/ Step(w)

Fairness == \A w \in Worker : WF_vars(Alive /\ Step(w))
Spec == Init /\ [][Next]_vars
FairSpec == Spec /\ Fairness
-----------------------------------------------------------------------------
Place == {"out", "try", "watch", "probe", "write", "link", "unlock", "dead"}
Inside == {"probe", "write", "link", "unlock", "dead"}

\* The shapes of the recorder: n counts its records, and a slot of the table
\* is empty or the index of a published record.
TypeOK == /\ lock \in BOOLEAN
          /\ n \in 0 .. Cap
          /\ recs \in [0 .. Cap - 1 -> Tick \cup {None}]
          /\ hset \in [Slot -> -1 .. n - 1]
          /\ pc \in [Worker -> Place]
          /\ tick \in [Worker -> Tick \cup {None}]
          /\ \A w \in Worker : pc[w] # "out" => tick[w] \in Tick
          /\ slot \in [Worker -> Slot]
          /\ calls \in [Worker -> 0 .. MaxCalls]

\* One worker at most is between the exchange that took the lock and its
\* release, so nothing the recorder does is torn.
Exclusive == \A u, w \in Worker : pc[u] \in Inside /\ pc[w] \in Inside => u = w

\* The save holds each tick once: no two published records have the same key,
\* whatever collides, wraps around the table or races.
OneRecordPerKey == \A i, j \in 0 .. n - 1 : recs[i].key = recs[j].key => i = j

\* The records a reader sees are complete: the ones below n are written.
Published == \A i \in 0 .. n - 1 : recs[i] \in Tick

\* The recorder is the log of TickLog: the record that comes first wins, and
\* no record is lost, overwritten or moved.
Log == INSTANCE TickLog WITH
         log <- [i \in 1 .. n |-> recs[i - 1]],
         asked <- [w \in Worker |->
                     IF pc[w] \in {"out", "unlock"} THEN None ELSE tick[w]]
IsLog == Log!Spec

\* Every call comes back, unless the recorder is full.
Settles == <>[](\A w \in Worker : pc[w] = "out") \/ <>~Alive
-----------------------------------------------------------------------------
\* The slots the probe loop passes from h before it looks at s.
Passed(h, s) == IF h <= s THEN h .. s - 1 ELSE (h .. HCap - 1) \cup (0 .. s - 1)

\* What the table looks like whenever nobody probes it: a record is met by the
\* probe loop of its key before an empty slot is.
Reachable == \A i \in 0 .. n - 1 : \E s \in Slot :
               /\ hset[s] = i
               /\ \A d \in Passed(Home[recs[i].key], s) : hset[d] >= 0

\* What a worker that probes has seen.
Searched == \A w \in Worker : pc[w] \in {"probe", "write", "link"} =>
              \A d \in Passed(Home[tick[w].key], slot[w]) :
                 hset[d] >= 0 /\ recs[hset[d]].key # tick[w].key

IInv == /\ TypeOK
        /\ Published
        /\ Exclusive
        /\ \A w \in Worker : pc[w] \in Inside => lock
        /\ Reachable
        /\ Searched
        /\ \A w \in Worker : pc[w] \in {"try", "watch"} => slot[w] = Home[tick[w].key]
        /\ \A w \in Worker : pc[w] \in {"write", "link"} => hset[slot[w]] = -1
        /\ \A w \in Worker : pc[w] = "link" => n < Cap /\ recs[n] = tick[w]
        /\ OneRecordPerKey
=============================================================================
