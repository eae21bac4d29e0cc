------------------------- MODULE TickRecorderProofs -------------------------
(***************************************************************************)
(* Proofs about the tick recorder, for every number of workers, every hash *)
(* and every capacity: its lock excludes, a key is recorded once, and the  *)
(* records are the log of TickLog.  The heart of it is NewKey: a probe that*)
(* has passed only other keys and meets an empty slot has seen every       *)
(* record its key could have.                                              *)
(***************************************************************************)
EXTENDS MCTickRecorder, FiniteSetTheorems, TLAPS

USE RecorderAssumption

-----------------------------------------------------------------------------
\* Of two different slots, the probe loop from h passes one before the other.
LEMMA PassedOrder ==
  ASSUME NEW h \in Slot, NEW s \in Slot, NEW d \in Slot, s # d
  PROVE  s \in Passed(h, d) \/ d \in Passed(h, s)
BY DEF Passed, Slot

LEMMA PassedSlots ==
  ASSUME NEW h \in Slot, NEW s \in Slot
  PROVE  Passed(h, s) \subseteq Slot
BY DEF Passed, Slot

\* Moving on passes the slot just looked at, and no other.
LEMMA PassedNext ==
  ASSUME NEW h \in Slot, NEW s \in Slot
  PROVE  /\ Following(s) \in Slot
         /\ Passed(h, Following(s)) \subseteq Passed(h, s) \cup {s}
BY DEF Passed, Slot, Following

LEMMA PassedHome ==
  ASSUME NEW h \in Slot
  PROVE  Passed(h, h) = {}
BY DEF Passed, Slot

\* The key of a worker that met an empty slot is in no record.
LEMMA NewKey ==
  ASSUME IInv, NEW w \in Worker, pc[w] \in {"write", "link"}, NEW i \in 0 .. n - 1
  PROVE  recs[i].key # tick[w].key
<1> SUFFICES ASSUME recs[i].key = tick[w].key PROVE FALSE
  OBVIOUS
<1> DEFINE h == Home[tick[w].key]
<1>1. tick[w] \in Tick /\ h \in Slot /\ slot[w] \in Slot /\ hset[slot[w]] = -1
  BY DEF IInv, TypeOK, Tick, Slot
<1>2. PICK s \in Slot : hset[s] = i /\ \A d \in Passed(h, s) : hset[d] >= 0
  BY DEF IInv, Reachable
<1>3. \A d \in Passed(h, slot[w]) : recs[hset[d]].key # tick[w].key
  BY DEF IInv, Searched
<1>4. i # -1 /\ ~(-1 >= 0)
  OBVIOUS
<1>5. s # slot[w]
  BY <1>1, <1>2, <1>4
<1>6. s \in Passed(h, slot[w]) \/ slot[w] \in Passed(h, s)
  BY <1>1, <1>5, PassedOrder
<1> QED BY <1>1, <1>2, <1>3, <1>4, <1>6

-----------------------------------------------------------------------------
LEMMA InitIInv == Init => IInv
<1> SUFFICES ASSUME Init PROVE IInv
  OBVIOUS
<1>1. TypeOK
  <2>1. hset \in [Slot -> -1 .. n - 1] /\ n \in 0 .. Cap
    BY DEF Init
  <2>2. recs \in [0 .. Cap - 1 -> Tick \cup {None}]
    BY DEF Init
  <2>3. slot \in [Worker -> Slot] /\ calls \in [Worker -> 0 .. MaxCalls]
    BY DEF Init, Slot
  <2>4. pc \in [Worker -> Place] /\ lock \in BOOLEAN
    BY DEF Init, Place
  <2>5. tick \in [Worker -> Tick \cup {None}] /\ \A w \in Worker : pc[w] = "out"
    BY DEF Init
  <2> QED BY <2>1, <2>2, <2>3, <2>4, <2>5 DEF TypeOK
<1>2. 0 .. n - 1 = {}
  BY DEF Init
<1>3. Published /\ Reachable /\ OneRecordPerKey
  BY <1>2 DEF Published, Reachable, OneRecordPerKey
<1>4. \A w \in Worker : pc[w] = "out"
  BY DEF Init
<1> QED BY <1>1, <1>3, <1>4 DEF IInv, Exclusive, Searched, Inside

\* A step that leaves the records, the table and the count alone.
LEMMA SameTable ==
  ASSUME IInv, UNCHANGED <<recs, n, hset>>
  PROVE  Published' /\ Reachable' /\ OneRecordPerKey'
BY DEF IInv, Published, Reachable, OneRecordPerKey

\* A step of w after which nobody else is inside: those the lock kept out.
LEMMA OthersOutside ==
  ASSUME IInv, NEW w \in Worker, pc[w] \in Inside \/ ~lock, NEW u \in Worker, u # w
  PROVE  pc[u] \notin Inside
BY DEF IInv, Exclusive

LEMMA CallIInv ==
  ASSUME IInv, NEW w \in Worker, Call(w)
  PROVE  IInv'
<1>1. PICK t \in Tick : tick' = [tick EXCEPT ![w] = t] /\ slot' = [slot EXCEPT ![w] = Home[t.key]]
  BY DEF Call
<1>2. TypeOK
  BY DEF IInv
<1>3. TypeOK'
  <2>1. Home[t.key] \in Slot
    BY DEF Tick, Slot
  <2>2. calls' \in [Worker -> 0 .. MaxCalls]
    <3>1. calls[w] + 1 \in 0 .. MaxCalls
      BY <1>2, RecorderAssumption DEF Call, TypeOK
    <3>2. calls' = [calls EXCEPT ![w] = calls[w] + 1] /\ calls \in [Worker -> 0 .. MaxCalls]
      BY <1>2 DEF Call, TypeOK
    <3> QED BY <3>1, <3>2
  <2>3. pc' \in [Worker -> Place]
    BY <1>2 DEF Call, TypeOK, Goto, Place
  <2>4. slot' \in [Worker -> Slot] /\ tick' \in [Worker -> Tick \cup {None}]
    BY <1>1, <1>2, <2>1 DEF TypeOK
  <2>5. \A u \in Worker : pc'[u] # "out" => tick'[u] \in Tick
    BY <1>1, <1>2 DEF TypeOK, Call, Goto
  <2> QED BY <1>2, <2>2, <2>3, <2>4, <2>5 DEF TypeOK, Call
<1>4. \A u \in Worker : pc'[u] \in Inside => u # w /\ pc[u] = pc'[u] /\ tick'[u] = tick[u] /\ slot'[u] = slot[u]
  BY <1>1, <1>2 DEF Call, Goto, TypeOK, Inside
<1>5. Published' /\ Reachable' /\ OneRecordPerKey'
  BY SameTable DEF Call
<1>6. Searched'
  BY <1>4 DEF IInv, Searched, Inside, Call
<1>7. \A u \in Worker : pc'[u] \in {"try", "watch"} => slot'[u] = Home[tick'[u].key]
  BY <1>1, <1>2 DEF IInv, TypeOK, Call, Goto
<1>8. \A u \in Worker : pc'[u] \in {"write", "link"} => hset'[slot'[u]] = -1
  BY <1>4 DEF IInv, Inside, Call
<1>9. \A u \in Worker : pc'[u] = "link" => n' < Cap /\ recs'[n'] = tick'[u]
  BY <1>4 DEF IInv, Inside, Call
<1>10. Exclusive' /\ \A u \in Worker : pc'[u] \in Inside => lock'
  BY <1>4 DEF IInv, Exclusive, Call
<1> QED BY <1>3, <1>5, <1>6, <1>7, <1>8, <1>9, <1>10 DEF IInv

\* A step of w that ends with w alone inside, or with nobody there.
LEMMA Alone ==
  ASSUME IInv, NEW w \in Worker, pc[w] \in Inside \/ ~lock,
         pc' = [pc EXCEPT ![w] = pc'[w]], pc'[w] \in Inside => lock'
  PROVE  /\ \A u \in Worker : pc'[u] \in Inside => u = w
         /\ Exclusive'
         /\ \A u \in Worker : pc'[u] \in Inside => lock'
<1>1. \A u \in Worker : u # w => pc'[u] \notin Inside
  BY OthersOutside DEF IInv, TypeOK
<1> QED BY <1>1 DEF Exclusive

LEMMA TryIInv ==
  ASSUME IInv, NEW w \in Worker, Try(w)
  PROVE  IInv'
<1>1. TypeOK /\ pc[w] = "try"
  BY DEF IInv, Try
<1>2. TypeOK'
  BY <1>1 DEF Try, TypeOK, Goto, Place
<1>3. Published' /\ Reachable' /\ OneRecordPerKey'
  BY SameTable DEF Try
<1>4. CASE lock
  <2>1. \A u \in Worker : /\ pc'[u] \in Inside => pc[u] = pc'[u]
                          /\ pc'[u] \in {"try", "watch"} => pc[u] \in {"try", "watch"}
    BY <1>1, <1>4 DEF Try, Goto, TypeOK, Inside
  <2>2. Searched'
    BY <2>1 DEF IInv, Searched, Inside, Try
  <2>3. Exclusive'
    BY <2>1 DEF IInv, Exclusive
  <2> QED BY <1>2, <1>3, <2>1, <2>2, <2>3 DEF IInv, Inside, Try
<1>5. CASE ~lock
  <2>1. pc' = [pc EXCEPT ![w] = "probe"] /\ pc'[w] = "probe" /\ lock'
    BY <1>1, <1>5 DEF Try, Goto, TypeOK
  <2>2. /\ \A u \in Worker : pc'[u] \in Inside => u = w
        /\ Exclusive'
        /\ \A u \in Worker : pc'[u] \in Inside => lock'
    BY <1>5, <2>1, Alone
  <2>3. Searched'
    <3>1. slot[w] = Home[tick[w].key] /\ slot[w] \in Slot
      BY <1>1 DEF IInv, TypeOK
    <3>2. Passed(Home[tick[w].key], slot[w]) = {}
      BY <3>1, PassedHome
    <3> QED BY <2>2, <3>2 DEF Searched, Inside, Try
  <2>4. \A u \in Worker : pc'[u] \in {"try", "watch"} => slot[u] = Home[tick[u].key]
    BY <1>1, <2>1 DEF IInv, TypeOK
  <2> QED BY <1>2, <1>3, <2>1, <2>2, <2>3, <2>4 DEF IInv, Inside, Try
<1> QED BY <1>4, <1>5

LEMMA WatchIInv ==
  ASSUME IInv, NEW w \in Worker, Watch(w)
  PROVE  IInv'
<1>1. TypeOK /\ pc[w] = "watch"
  BY DEF IInv, Watch
<1>2. TypeOK'
  BY <1>1 DEF Watch, TypeOK, Goto, Place
<1>3. Published' /\ Reachable' /\ OneRecordPerKey'
  BY SameTable DEF Watch
<1>4. \A u \in Worker : /\ pc'[u] \in Inside => pc[u] = pc'[u]
                        /\ pc'[u] \in {"try", "watch"} => pc[u] \in {"try", "watch"}
  BY <1>1 DEF Watch, Goto, TypeOK, Inside
<1>5. Searched' /\ Exclusive'
  BY <1>4 DEF IInv, Searched, Exclusive, Inside, Watch
<1> QED BY <1>2, <1>3, <1>4, <1>5 DEF IInv, Inside, Watch

LEMMA ProbeIInv ==
  ASSUME IInv, NEW w \in Worker, Probe(w)
  PROVE  IInv'
<1> DEFINE i == hset[slot[w]]
<1>1. TypeOK /\ pc[w] = "probe" /\ slot[w] \in Slot /\ i \in Int /\ lock /\ pc[w] \in Inside
  BY DEF IInv, Probe, TypeOK, Inside
<1>2. TypeOK'
  <2>1. pc' \in [Worker -> Place]
    BY <1>1 DEF Probe, TypeOK, Goto, Place
  <2>2. slot' \in [Worker -> Slot]
    <3>1. Following(slot[w]) \in Slot
      BY <1>1, PassedNext
    <3> QED BY <1>1, <3>1 DEF Probe, TypeOK
  <2>3. \A u \in Worker : pc'[u] # "out" => tick[u] \in Tick
    BY <1>1 DEF Probe, TypeOK, Goto
  <2> QED BY <1>1, <2>1, <2>2, <2>3 DEF Probe, TypeOK
<1>3. Published' /\ Reachable' /\ OneRecordPerKey'
  BY SameTable DEF Probe
<1>4. pc' = [pc EXCEPT ![w] = pc'[w]] /\ lock'
  BY <1>1 DEF Probe, Goto, TypeOK
<1>5. /\ \A u \in Worker : pc'[u] \in Inside => u = w
      /\ Exclusive'
      /\ \A u \in Worker : pc'[u] \in Inside => lock'
  BY <1>1, <1>4, Alone
<1>6. /\ \A u \in Worker : u # w => pc'[u] = pc[u] /\ slot'[u] = slot[u]
      /\ pc'[w] \in {"write", "unlock", "probe"}
      /\ pc'[w] = "write" => slot'[w] = slot[w] /\ i = -1
  BY <1>1 DEF Probe, Goto, TypeOK
<1>7. Searched'
  <2>1. \A d \in Passed(Home[tick[w].key], slot[w]) : hset[d] >= 0 /\ recs[hset[d]].key # tick[w].key
    BY <1>1 DEF IInv, Searched
  <2>2. CASE slot'[w] = slot[w]
    BY <1>5, <2>1, <2>2 DEF Searched, Inside, Probe
  <2>3. CASE slot'[w] # slot[w]
    <3>1. i >= 0 /\ recs[i].key # tick[w].key /\ slot'[w] = Following(slot[w])
      BY <1>1, <2>3 DEF Probe, TypeOK, SameKey
    <3>2. Home[tick[w].key] \in Slot
      BY <1>1 DEF TypeOK, Tick, Slot
    <3>3. \A d \in Passed(Home[tick[w].key], slot'[w]) : hset[d] >= 0 /\ recs[hset[d]].key # tick[w].key
      BY <1>1, <2>1, <3>1, <3>2, PassedNext
    <3> QED BY <1>5, <3>3 DEF Searched, Inside, Probe
  <2> QED BY <2>2, <2>3
<1>8. \A u \in Worker : pc'[u] \in {"try", "watch"} => slot'[u] = Home[tick[u].key]
  BY <1>6 DEF IInv
<1>9. \A u \in Worker : pc'[u] \in {"write", "link"} => hset[slot'[u]] = -1
  BY <1>5, <1>6 DEF Inside
<1>10. \A u \in Worker : pc'[u] # "link"
  BY <1>5, <1>6 DEF Inside
<1> QED BY <1>2, <1>3, <1>5, <1>7, <1>8, <1>9, <1>10 DEF IInv, Probe

LEMMA WriteIInv ==
  ASSUME IInv, NEW w \in Worker, Write(w)
  PROVE  IInv'
<1>1. /\ TypeOK /\ pc[w] = "write" /\ lock /\ pc[w] \in Inside /\ tick[w] \in Tick
      /\ n \in Nat /\ Cap \in Nat
  BY DEF IInv, Write, TypeOK, Inside
<1>2. TypeOK'
  <2>1. pc' \in [Worker -> Place]
    BY <1>1 DEF Write, TypeOK, Goto, Place
  <2>2. recs' \in [0 .. Cap - 1 -> Tick \cup {None}]
    BY <1>1 DEF Write, TypeOK
  <2>3. \A u \in Worker : pc'[u] # "out" => tick[u] \in Tick
    BY <1>1 DEF Write, TypeOK, Goto
  <2> QED BY <1>1, <2>1, <2>2, <2>3 DEF Write, TypeOK
<1>3. pc' = [pc EXCEPT ![w] = pc'[w]] /\ lock'
  BY <1>1 DEF Write, Goto, TypeOK
<1>4. /\ \A u \in Worker : pc'[u] \in Inside => u = w
      /\ Exclusive'
      /\ \A u \in Worker : pc'[u] \in Inside => lock'
  BY <1>1, <1>3, Alone
<1>5. /\ \A u \in Worker : u # w => pc'[u] = pc[u]
      /\ pc'[w] \in {"link", "dead"}
      /\ pc'[w] = "link" => n < Cap /\ recs'[n] = tick[w]
  BY <1>1 DEF Write, Goto, TypeOK
<1>6. \A i \in 0 .. n - 1 : recs'[i] = recs[i]
  BY <1>1 DEF Write, TypeOK
<1>7. Published' /\ OneRecordPerKey' /\ Reachable'
  <2>1. Published' /\ OneRecordPerKey'
    BY <1>6 DEF IInv, Published, OneRecordPerKey, Write
  <2>2. Reachable'
    BY <1>6 DEF IInv, Reachable, Write
  <2> QED BY <2>1, <2>2
<1>8. Searched'
  <2>1. \A d \in Passed(Home[tick[w].key], slot[w]) : hset[d] >= 0 /\ recs[hset[d]].key # tick[w].key
    BY <1>1 DEF IInv, Searched
  <2>2. \A d \in Slot : hset[d] >= 0 => hset[d] \in 0 .. n - 1
    BY <1>1 DEF TypeOK
  <2>3. Passed(Home[tick[w].key], slot[w]) \subseteq Slot
    BY <1>1, PassedSlots DEF TypeOK, Tick, Slot
  <2>4. \A d \in Passed(Home[tick[w].key], slot[w]) : hset[d] >= 0 /\ recs'[hset[d]].key # tick[w].key
    BY <1>6, <2>1, <2>2, <2>3
  <2> QED BY <1>4, <2>4 DEF Searched, Inside, Write
<1>9. \A u \in Worker : pc'[u] \in {"try", "watch"} => slot[u] = Home[tick[u].key]
  BY <1>5 DEF IInv
<1>10. \A u \in Worker : pc'[u] \in {"write", "link"} => hset[slot[u]] = -1
  BY <1>1, <1>4 DEF IInv, Inside
<1>11. \A u \in Worker : pc'[u] = "link" => n < Cap /\ recs'[n] = tick[u]
  BY <1>4, <1>5 DEF Inside
<1> QED BY <1>2, <1>4, <1>7, <1>8, <1>9, <1>10, <1>11 DEF IInv, Write

LEMMA LinkIInv ==
  ASSUME IInv, NEW w \in Worker, Link(w)
  PROVE  IInv'
<1>1. /\ TypeOK /\ pc[w] = "link" /\ lock /\ pc[w] \in Inside /\ tick[w] \in Tick
      /\ n \in Nat /\ Cap \in Nat /\ slot[w] \in Slot
      /\ hset[slot[w]] = -1 /\ n < Cap /\ recs[n] = tick[w]
  BY DEF IInv, Link, TypeOK, Inside
<1>2. n' = n + 1 /\ hset' = [hset EXCEPT ![slot[w]] = n] /\ recs' = recs /\ n' \in 0 .. Cap
  BY <1>1 DEF Link
<1>3. TypeOK'
  <2>1. hset' \in [Slot -> -1 .. n' - 1]
    BY <1>1, <1>2 DEF TypeOK
  <2>2. pc' \in [Worker -> Place]
    BY <1>1 DEF Link, TypeOK, Goto, Place
  <2>3. \A u \in Worker : pc'[u] # "out" => tick[u] \in Tick
    BY <1>1 DEF Link, TypeOK, Goto
  <2> QED BY <1>1, <1>2, <2>1, <2>2, <2>3 DEF Link, TypeOK
<1>4. pc' = [pc EXCEPT ![w] = "unlock"] /\ pc'[w] = "unlock" /\ lock'
  BY <1>1 DEF Link, Goto, TypeOK
<1>5. /\ \A u \in Worker : pc'[u] \in Inside => u = w
      /\ Exclusive'
      /\ \A u \in Worker : pc'[u] \in Inside => lock'
  BY <1>1, <1>4, Alone
<1>6. \A u \in Worker : pc'[u] \notin {"probe", "write", "link"}
  BY <1>4, <1>5 DEF Inside
<1>7. \A d \in Slot : hset[d] >= 0 => hset'[d] = hset[d]
  BY <1>1, <1>2 DEF TypeOK
<1>8. hset'[slot[w]] = n
  BY <1>1, <1>2 DEF TypeOK
<1>9. Published'
  BY <1>1, <1>2 DEF IInv, Published
<1>10. OneRecordPerKey'
  <2>1. \A i \in 0 .. n - 1 : recs[i].key # recs[n].key
    BY <1>1, NewKey
  <2>2. \A i, j \in 0 .. n - 1 : recs[i].key = recs[j].key => i = j
    BY DEF IInv, OneRecordPerKey
  <2>3. \A i \in 0 .. n' - 1 : i \in 0 .. n - 1 \/ i = n
    BY <1>1, <1>2
  <2>4. \A i \in 0 .. n - 1 : recs'[i] = recs[i]
    BY <1>2
  <2>5. recs'[n] = recs[n]
    BY <1>2
  <2>6. ASSUME NEW i \in 0 .. n' - 1, NEW j \in 0 .. n' - 1, recs'[i].key = recs'[j].key
        PROVE  i = j
    <3>1. CASE i \in 0 .. n - 1 /\ j \in 0 .. n - 1
      BY <2>2, <2>4, <2>6, <3>1
    <3>2. CASE i = n /\ j \in 0 .. n - 1
      BY <2>1, <2>4, <2>5, <2>6, <3>2
    <3>3. CASE i \in 0 .. n - 1 /\ j = n
      BY <2>1, <2>4, <2>5, <2>6, <3>3
    <3> QED BY <2>3, <3>1, <3>2, <3>3
  <2> QED BY <2>6 DEF OneRecordPerKey
<1>11. Reachable'
  <2> SUFFICES ASSUME NEW i \in 0 .. n' - 1
               PROVE  \E s \in Slot : /\ hset'[s] = i
                                      /\ \A d \in Passed(Home[recs[i].key], s) : hset'[d] >= 0
    BY <1>2 DEF Reachable
  <2>1. CASE i = n
    <3>1. \A d \in Passed(Home[tick[w].key], slot[w]) : hset[d] >= 0
      BY <1>1 DEF IInv, Searched
    <3>2. Passed(Home[tick[w].key], slot[w]) \subseteq Slot
      BY <1>1, PassedSlots DEF Tick, Slot
    <3> QED BY <1>1, <1>7, <1>8, <2>1, <3>1, <3>2
  <2>2. CASE i # n
    <3>1. i \in 0 .. n - 1 /\ i >= 0
      BY <1>1, <1>2, <2>2
    <3>2. PICK s \in Slot : hset[s] = i /\ \A d \in Passed(Home[recs[i].key], s) : hset[d] >= 0
      BY <3>1 DEF IInv, Reachable
    <3>3. Home[recs[i].key] \in Slot
      BY <3>1 DEF IInv, Published, Tick, Slot
    <3>4. Passed(Home[recs[i].key], s) \subseteq Slot
      BY <3>2, <3>3, PassedSlots
    <3> QED BY <1>7, <3>1, <3>2, <3>4
  <2> QED BY <2>1, <2>2
<1>12. Searched'
  BY <1>6 DEF Searched
<1>13. \A u \in Worker : pc'[u] \in {"try", "watch"} => slot[u] = Home[tick[u].key]
  BY <1>1, <1>4 DEF IInv, TypeOK
<1> QED BY <1>3, <1>5, <1>6, <1>9, <1>10, <1>11, <1>12, <1>13 DEF IInv, Link

LEMMA UnlockIInv ==
  ASSUME IInv, NEW w \in Worker, Unlock(w)
  PROVE  IInv'
<1>1. TypeOK /\ pc[w] = "unlock" /\ pc[w] \in Inside
  BY DEF IInv, Unlock, Inside
<1>2. TypeOK'
  BY <1>1 DEF Unlock, TypeOK, Goto, Place
<1>3. Published' /\ Reachable' /\ OneRecordPerKey'
  BY SameTable DEF Unlock
<1>4. pc' = [pc EXCEPT ![w] = "out"] /\ pc'[w] = "out"
  BY <1>1 DEF Unlock, Goto, TypeOK
<1>5. \A u \in Worker : pc'[u] \in Inside => u = w
  BY <1>1, <1>4, Alone DEF Inside
<1>6. \A u \in Worker : pc'[u] \notin Inside
  BY <1>4, <1>5 DEF Inside
<1>7. Searched' /\ Exclusive'
  BY <1>6 DEF Searched, Exclusive, Inside
<1>8. \A u \in Worker : pc'[u] \in {"try", "watch"} => slot[u] = Home[tick[u].key]
  BY <1>1, <1>4 DEF IInv, TypeOK
<1> QED BY <1>2, <1>3, <1>6, <1>7, <1>8 DEF IInv, Inside, Unlock

\* The inductive invariant.
THEOREM SpecIInv == Spec => []IInv
<1>1. Init => IInv
  BY InitIInv
<1>2. IInv /\ [Next]_vars => IInv'
  <2> SUFFICES ASSUME IInv, [Next]_vars PROVE IInv'
    OBVIOUS
  <2>1. ASSUME NEW w \in Worker, Call(w) \/ Step(w)
        PROVE  IInv'
    BY <2>1, CallIInv, TryIInv, WatchIInv, ProbeIInv, WriteIInv, LinkIInv, UnlockIInv DEF Step
  <2>2. CASE UNCHANGED vars
    BY <2>2 DEF vars, IInv, TypeOK, Published, Exclusive, Reachable, Searched, OneRecordPerKey
  <2> QED BY <2>1, <2>2 DEF Next
<1> QED BY <1>1, <1>2, PTL DEF Spec

\* The shapes of the recorder hold in every reachable state.
THEOREM TypeCorrect == Spec => []TypeOK
<1>1. IInv => TypeOK
  BY DEF IInv
<1> QED BY <1>1, SpecIInv, PTL

\* Two workers are never inside the recorder at once.
THEOREM LockExcludes == Spec => []Exclusive
<1>1. IInv => Exclusive
  BY DEF IInv
<1> QED BY <1>1, SpecIInv, PTL

\* No key is recorded twice, whatever the hash and the order of the workers.
THEOREM KeyRecordedOnce == Spec => []OneRecordPerKey
<1>1. IInv => OneRecordPerKey
  BY DEF IInv
<1> QED BY <1>1, SpecIInv, PTL
-----------------------------------------------------------------------------
\* The recorder implements the log: a call takes effect when its record is
\* linked, or when its key is found.
THEOREM RecorderIsLog == Spec => IsLog
<1> DEFINE logOf == [i \in 1 .. n |-> recs[i - 1]]
           askedOf == [w \in Worker |-> IF pc[w] \in {"out", "unlock"} THEN None ELSE tick[w]]
<1>1. Init => Log!Init
  BY DEF Init, Log!Init
<1>2. IInv /\ [Next]_vars => [Log!Next]_<<logOf, askedOf>>
  <2> SUFFICES ASSUME IInv, [Next]_vars PROVE [Log!Next]_<<logOf, askedOf>>
    OBVIOUS
  <2>0. TypeOK /\ n \in Nat
    BY DEF IInv, TypeOK
  <2>1. ASSUME UNCHANGED <<n, recs>>
        PROVE  logOf' = logOf
    BY <2>1
  <2>2. ASSUME NEW w \in Worker, Call(w)
        PROVE  Log!Ask(w)
    <3>1. PICK t \in Tick : tick' = [tick EXCEPT ![w] = t]
      BY <2>2 DEF Call
    <3>2. askedOf[w] = None /\ askedOf' = [askedOf EXCEPT ![w] = t]
      BY <2>0, <2>2, <3>1 DEF Call, Goto, TypeOK
    <3>3. t \in Log!Tick
      BY DEF Tick, Log!Tick
    <3>4. logOf' = logOf
      BY <2>1, <2>2 DEF Call
    <3> QED BY <3>2, <3>3, <3>4 DEF Log!Ask
  <2>3. ASSUME NEW w \in Worker, Try(w) \/ Watch(w) \/ Unlock(w)
        PROVE  UNCHANGED <<logOf, askedOf>>
    <3>1. askedOf' = askedOf
      BY <2>0, <2>3 DEF Try, Watch, Unlock, Goto, TypeOK
    <3> QED BY <2>1, <2>3, <3>1 DEF Try, Watch, Unlock
  <2>4. ASSUME NEW w \in Worker, Probe(w)
        PROVE  Log!Answer(w) \/ UNCHANGED <<logOf, askedOf>>
    <3>1. logOf' = logOf
      BY <2>1, <2>4 DEF Probe
    <3>2. CASE pc'[w] # "unlock"
      <4>1. askedOf' = askedOf
        BY <2>0, <2>4, <3>2 DEF Probe, Goto, TypeOK
      <4> QED BY <3>1, <4>1
    <3>3. CASE pc'[w] = "unlock"
      <4>1. /\ hset[slot[w]] >= 0 /\ recs[hset[slot[w]]].key = tick[w].key
            /\ pc[w] = "probe" /\ pc' = [pc EXCEPT ![w] = "unlock"] /\ tick' = tick
        BY <2>0, <2>4, <3>3 DEF Probe, Goto, TypeOK, SameKey
      <4>2. tick[w] \in Tick /\ hset[slot[w]] \in 0 .. n - 1
        BY <2>0, <4>1 DEF TypeOK
      <4>3. askedOf[w] = tick[w] /\ tick[w] # None
        BY <2>0, <4>1, <4>2 DEF TypeOK, Tick
      <4>4. askedOf' = [askedOf EXCEPT ![w] = None]
        BY <2>0, <4>1 DEF TypeOK
      <4>5. hset[slot[w]] + 1 \in 1 .. n /\ logOf[hset[slot[w]] + 1] = recs[hset[slot[w]]]
        BY <2>0, <4>2
      <4>6. Log!Holds(askedOf[w].key)
        BY <4>1, <4>3, <4>5 DEF Log!Holds
      <4> QED BY <3>1, <4>3, <4>4, <4>6 DEF Log!Answer
    <3> QED BY <3>2, <3>3
  <2>5. ASSUME NEW w \in Worker, Write(w)
        PROVE  UNCHANGED <<logOf, askedOf>>
    <3>1. \A i \in 0 .. n - 1 : recs'[i] = recs[i]
      BY <2>0, <2>5 DEF Write, TypeOK
    <3>2. logOf' = logOf
      BY <2>0, <2>5, <3>1 DEF Write
    <3>3. askedOf' = askedOf
      BY <2>0, <2>5 DEF Write, Goto, TypeOK
    <3> QED BY <3>2, <3>3
  <2>6. ASSUME NEW w \in Worker, Link(w)
        PROVE  Log!Answer(w)
    <3>1. pc[w] = "link" /\ tick[w] \in Tick /\ recs[n] = tick[w]
      BY <2>0, <2>6 DEF Link, IInv, TypeOK
    <3>2. askedOf[w] = tick[w] /\ tick[w] # None
      BY <3>1 DEF Tick
    <3>3. askedOf' = [askedOf EXCEPT ![w] = None]
      BY <2>0, <2>6, <3>1 DEF Link, Goto, TypeOK
    <3>4. ~ Log!Holds(askedOf[w].key)
      <4>1. \A i \in 0 .. n - 1 : recs[i].key # tick[w].key
        BY <3>1, NewKey
      <4>2. \A i \in 1 .. n : i - 1 \in 0 .. n - 1
        BY <2>0
      <4> QED BY <3>2, <4>1, <4>2 DEF Log!Holds
    <3>5. logOf' = Append(logOf, tick[w])
      <4>1. n' = n + 1 /\ recs' = recs
        BY <2>6 DEF Link
      <4> QED BY <2>0, <3>1, <4>1
    <3> QED BY <3>2, <3>3, <3>4, <3>5 DEF Log!Answer
  <2>7. CASE UNCHANGED vars
    BY <2>7 DEF vars
  <2> HIDE DEF logOf, askedOf
  <2>8. ASSUME NEW w \in Worker, Call(w) \/ Step(w)
        PROVE  Log!Ask(w) \/ Log!Answer(w) \/ UNCHANGED <<logOf, askedOf>>
    BY <2>8, <2>2, <2>3, <2>4, <2>5, <2>6 DEF Step
  <2> QED BY <2>7, <2>8 DEF Next, Log!Next
<1> QED BY <1>1, <1>2, SpecIInv, PTL DEF Spec, IsLog, Log!Spec

-----------------------------------------------------------------------------
(* The tables that are filled on first use (LazyTables), for any palettes, *)
(* queries, hash of cells and number of tables: every answer is the one    *)
(* its question has by itself.  A worker that resolves a palette holds the *)
(* lock, so that the scratch arrays hold the entries of the blocks it has  *)
(* sorted and no others; the list of a palette, defined by counting who is *)
(* before an entry, is the sorted classes one behind the other.  A table   *)
(* of cells belongs to one worker, and a cell that bears a tag is what     *)
(* would be worked out for that tag.                                       *)
HIDE RecorderAssumption


All(p) == Len(Raw[p])

\* Where the entries of class k begin in the list of a palette.
Start(p, k) ==
  CASE k = "full" -> 0
    [] k = "other" -> Cardinality(T!Classed(p, All(p), "full"))
    [] k = "bes" -> Cardinality(T!Classed(p, All(p), "full")) + Cardinality(T!Classed(p, All(p), "other"))

\* The module of the tables counts as this one does.
LEMMA SameCount == \A S : T!Cardinality(S) = Cardinality(S)
BY DEF T!Cardinality, Cardinality

LEMMA Template ==
  ASSUME NEW p \in DOMAIN Palette
  PROVE  /\ All(p) \in Nat /\ All(p) \in 1 .. MaxBlocks /\ DOMAIN Raw[p] = 1 .. All(p)
         /\ \A i \in 1 .. All(p) : Raw[p][i] \in [at : [1 .. 3 -> Int], state : DOMAIN Palette[p], nbt : BOOLEAN]
         /\ \A i, j \in 1 .. All(p) : i # j => Raw[p][i].at # Raw[p][j].at
<1>1. Raw[p] \in Seq([at : [1 .. 3 -> Int], state : DOMAIN Palette[p], nbt : BOOLEAN])
  BY TablesGiven DEF T!TablesAssumption
<1>2. Len(Raw[p]) \in 1 .. MaxBlocks /\ MaxBlocks \in Nat
  BY TablesGiven DEF T!TablesAssumption
<1>3. \A i, j \in DOMAIN Raw[p] : i # j => Raw[p][i].at # Raw[p][j].at
  BY TablesGiven DEF T!TablesAssumption
<1> DEFINE B == [at : [1 .. 3 -> Int], state : DOMAIN Palette[p], nbt : BOOLEAN]
<1> HIDE DEF B
<1>4. Raw[p] \in Seq(B)
  BY <1>1 DEF B
<1>5. DOMAIN Raw[p] = 1 .. Len(Raw[p]) /\ Len(Raw[p]) \in Nat
  BY ONLY <1>4
<1>6. \A i \in DOMAIN Raw[p] : Raw[p][i] \in B
  BY ONLY <1>4
<1> QED BY ONLY <1>2, <1>3, <1>5, <1>6 DEF All, B

LEMMA NamedBlock ==
  ASSUME NEW p \in DOMAIN Palette, NEW i \in 1 .. All(p)
  PROVE  /\ T!Named(p, Raw[p][i]) \in T!Entries(p)
         /\ T!Named(p, Raw[p][i]) \in T!Entry
         /\ T!Named(p, Raw[p][i]).at = Raw[p][i].at
         /\ T!ClassOf(T!Named(p, Raw[p][i])) \in T!Class
BY Template DEF T!Named, T!Entries, T!Entry, T!ClassOf, T!Class

LEMMA EntryFacts ==
  ASSUME NEW p \in DOMAIN Palette, NEW e \in T!Entries(p)
  PROVE  e.at \in [1 .. 3 -> Int] /\ T!ClassOf(e) \in T!Class
BY Template DEF T!Named, T!Entries, T!ClassOf, T!Class

LEMMA BeforeIsStrict ==
  ASSUME NEW a \in [1 .. 3 -> Int]
  PROVE  ~ T!Before(a, a)
BY DEF T!Before

LEMMA Finite ==
  ASSUME NEW p \in DOMAIN Palette, NEW m \in 0 .. All(p), NEW k
  PROVE  IsFiniteSet(T!Classed(p, m, k)) /\ Cardinality(T!Classed(p, m, k)) \in Nat
<1> DEFINE S == { T!Named(p, Raw[p][i]) : i \in 1 .. m }
           f == [i \in 1 .. m |-> T!Named(p, Raw[p][i])]
<1>1. IsFiniteSet(1 .. m)
  BY FS_Interval, Template
<1>2. f \in Surjection(1 .. m, S)
  BY DEF Surjection
<1> HIDE DEF S, f
<1>3. IsFiniteSet(S)
  BY <1>1, <1>2, FS_Surjection
<1>4. T!Classed(p, m, k) \in SUBSET S
  BY DEF T!Classed, S
<1> QED BY <1>3, <1>4, FS_Subset, FS_CardinalityType

LEMMA NoneClassed ==
  ASSUME NEW p, NEW k
  PROVE  T!Classed(p, 0, k) = {} /\ Cardinality(T!Classed(p, 0, k)) = 0
<1>1. T!Classed(p, 0, k) = {}
  BY DEF T!Classed
<1> QED BY <1>1, FS_EmptySet

\* The next block goes to its own class, where it was not before.
LEMMA NextClassed ==
  ASSUME NEW p \in DOMAIN Palette, NEW m \in 0 .. All(p) - 1, NEW k
  PROVE  LET e == T!Named(p, Raw[p][m + 1])
             S == T!Classed(p, m, k)
         IN IF k = T!ClassOf(e)
            THEN /\ T!Classed(p, m + 1, k) = S \cup {e}
                 /\ Cardinality(T!Classed(p, m + 1, k)) = Cardinality(S) + 1
            ELSE T!Classed(p, m + 1, k) = S
<1> DEFINE e == T!Named(p, Raw[p][m + 1])
           S == T!Classed(p, m, k)
<1>1. 1 .. m + 1 = (1 .. m) \cup {m + 1}
  BY Template
<1>2. ASSUME k = T!ClassOf(e)
      PROVE  T!Classed(p, m + 1, k) = S \cup {e}
  BY <1>1, <1>2 DEF T!Classed
<1>3. ASSUME k # T!ClassOf(e)
      PROVE  T!Classed(p, m + 1, k) = S
  BY <1>1, <1>3 DEF T!Classed
<1>4. e \notin S
  <2>1. ASSUME NEW i \in 1 .. m
        PROVE  T!Named(p, Raw[p][i]) # e
    <3>1. i \in 1 .. All(p) /\ m + 1 \in 1 .. All(p) /\ i # m + 1
      BY Template
    <3>2. Raw[p][i].at # Raw[p][m + 1].at
      BY ONLY <3>1, Template, p \in DOMAIN Palette
    <3>3. /\ T!Named(p, Raw[p][i]).at = Raw[p][i].at
          /\ e.at = Raw[p][m + 1].at
      BY <3>1, NamedBlock
    <3> QED BY <3>2, <3>3
  <2> QED BY <2>1 DEF T!Classed
<1>5. IsFiniteSet(S) /\ m \in 0 .. All(p)
  BY Finite, Template
<1>6. Cardinality(S \cup {e}) = Cardinality(S) + 1
  BY <1>4, <1>5, FS_AddElement
<1> QED BY <1>2, <1>3, <1>6

\* The entries of palette p of class k, and those before an entry.
OfClass(p, k) == T!Classed(p, All(p), k)

LEMMA ClassesOfEntries ==
  ASSUME NEW p \in DOMAIN Palette, NEW k \in T!Class
  PROVE  OfClass(p, k) = { e \in T!Entries(p) : T!ClassOf(e) = k }
BY Template DEF OfClass, T!Classed, T!Entries

LEMMA SizeOfClass ==
  ASSUME NEW p \in DOMAIN Palette, NEW k \in T!Class
  PROVE  IsFiniteSet(OfClass(p, k)) /\ Cardinality(OfClass(p, k)) \in Nat /\ Start(p, k) \in Nat
<1>1. All(p) \in 0 .. All(p)
  BY Template
<1>2. \A j : IsFiniteSet(OfClass(p, j)) /\ Cardinality(OfClass(p, j)) \in Nat
  BY <1>1, Finite DEF OfClass
<1> QED BY <1>2 DEF Start, OfClass, T!Class

\* Before an entry are the entries of the classes before its own, and the
\* entries of its own class at earlier positions.
Lowers(p, e) == { f \in T!Entries(p) : T!Lower(f, e) }
Befores(p, e) == { f \in OfClass(p, T!ClassOf(e)) : T!Before(f.at, e.at) }
Earlier(p, k) == { f \in T!Entries(p) : \/ k = "other" /\ T!ClassOf(f) = "full"
                                        \/ k = "bes" /\ T!ClassOf(f) \in {"full", "other"} }

LEMMA SizeOfEarlier ==
  ASSUME NEW p \in DOMAIN Palette, NEW k \in T!Class
  PROVE  IsFiniteSet(Earlier(p, k)) /\ Cardinality(Earlier(p, k)) = Start(p, k)
<1> DEFINE F == OfClass(p, "full")
           O == OfClass(p, "other")
<1>1. IsFiniteSet(F) /\ IsFiniteSet(O) /\ Cardinality(F) \in Nat /\ Cardinality(O) \in Nat
  BY SizeOfClass DEF T!Class
<1>2. F \cap O = {}
  BY ClassesOfEntries DEF T!Class
<1>3. CASE k = "full"
  <2>1. Earlier(p, k) = {}
    BY <1>3 DEF Earlier
  <2> QED BY <1>3, <2>1, FS_EmptySet DEF Start
<1>4. CASE k = "other"
  <2>1. Earlier(p, k) = F
    BY <1>4, ClassesOfEntries DEF Earlier, T!Class
  <2> QED BY <1>1, <1>4, <2>1 DEF Start, OfClass
<1>5. CASE k = "bes"
  <2>1. Earlier(p, k) = F \cup O
    BY <1>5, ClassesOfEntries DEF Earlier, T!Class
  <2>2. IsFiniteSet(F \cup O) /\ Cardinality(F \cup O) = Cardinality(F) + Cardinality(O) - Cardinality(F \cap O)
    BY <1>1, FS_Union
  <2>3. Cardinality(F \cap O) = 0
    BY <1>2, FS_EmptySet
  <2>4. Cardinality(F \cup O) = Cardinality(F) + Cardinality(O)
    BY <1>1, <2>2, <2>3
  <2>5. Start(p, k) = Cardinality(F) + Cardinality(O)
    BY <1>5 DEF Start, OfClass
  <2> QED BY <2>1, <2>2, <2>4, <2>5
<1> QED BY <1>3, <1>4, <1>5 DEF T!Class

LEMMA PlaceOfEntry ==
  ASSUME NEW p \in DOMAIN Palette, NEW e \in T!Entries(p)
  PROVE  LET k == T!ClassOf(e)
             b == Cardinality(Befores(p, e))
         IN /\ b \in 0 .. Cardinality(OfClass(p, k)) - 1
            /\ Cardinality(Lowers(p, e)) = Start(p, k) + b
<1> DEFINE k == T!ClassOf(e)
           B == Befores(p, e)
           A == Earlier(p, k)
           S == OfClass(p, k)
<1>1. e.at \in [1 .. 3 -> Int] /\ k \in T!Class
  BY EntryFacts
<1>2. e \in S /\ S \subseteq T!Entries(p)
  BY <1>1, ClassesOfEntries
<1>3. B \in SUBSET S /\ e \notin B
  BY <1>1, BeforeIsStrict DEF Befores
<1>4. IsFiniteSet(S) /\ Cardinality(S) \in Nat
  BY <1>1, SizeOfClass
<1>5. IsFiniteSet(B) /\ Cardinality(B) \in Nat /\ Cardinality(B) <= Cardinality(S) /\ Cardinality(B) # Cardinality(S)
  <2>1. IsFiniteSet(B) /\ Cardinality(B) <= Cardinality(S) /\ (Cardinality(S) = Cardinality(B) => S = B)
    BY <1>3, <1>4, FS_Subset
  <2> QED BY <1>2, <1>3, <2>1, FS_CardinalityType
<1>6. IsFiniteSet(A) /\ Cardinality(A) = Start(p, k) /\ Start(p, k) \in Nat
  BY <1>1, SizeOfEarlier, SizeOfClass
<1>7. Lowers(p, e) = A \cup B
  <2>1. ASSUME NEW f \in T!Entries(p)
        PROVE  f \in Lowers(p, e) <=> f \in A \/ f \in B
    <3>1. T!ClassOf(f) \in T!Class /\ (f \in S <=> T!ClassOf(f) = k)
      BY <1>1, EntryFacts, ClassesOfEntries
    <3> QED BY <1>1, <3>1 DEF Lowers, Earlier, Befores, T!Lower, T!Rank, T!Class
  <2> QED BY <1>2, <1>3, <2>1 DEF Lowers, Earlier
<1>8. A \cap B = {}
  BY <1>1, ClassesOfEntries DEF Earlier, Befores, T!Class
<1>9. Cardinality(A \cup B) = Cardinality(A) + Cardinality(B)
  <2>1. Cardinality(A \cup B) = Cardinality(A) + Cardinality(B) - Cardinality(A \cap B)
    BY <1>5, <1>6, FS_Union
  <2>2. Cardinality(A \cap B) = 0
    BY <1>8, FS_EmptySet
  <2> QED BY <1>5, <1>6, <2>1, <2>2
<1> QED BY <1>4, <1>5, <1>6, <1>7, <1>9

\* The palette list is the sorted classes, one behind the other.
LEMMA SortedByClass ==
  ASSUME NEW p \in DOMAIN Palette, NEW k \in T!Class, NEW m \in 1 .. Cardinality(OfClass(p, k)),
         Start(p, k) + m \in 1 .. All(p)
  PROVE  T!Placed(p)[Start(p, k) + m] = T!Nth(OfClass(p, k), m - 1)
<1> DEFINE S == OfClass(p, k)
           E == T!Entries(p)
           i == Start(p, k) + m
           X == { e \in E : Cardinality(Lowers(p, e)) = i - 1 }
           Y == { e \in S : Cardinality({ f \in S : T!Before(f.at, e.at) }) = m - 1 }
<1>1. Start(p, k) \in Nat /\ Cardinality(S) \in Nat /\ S = { e \in E : T!ClassOf(e) = k }
  BY SizeOfClass, ClassesOfEntries
<1>2. ASSUME NEW e \in E
      PROVE  e \in X <=> e \in Y
  <2> DEFINE j == T!ClassOf(e)
             b == Cardinality(Befores(p, e))
  <2>1. /\ j \in T!Class /\ b \in 0 .. Cardinality(OfClass(p, j)) - 1
        /\ Cardinality(Lowers(p, e)) = Start(p, j) + b
        /\ Start(p, j) \in Nat /\ Cardinality(OfClass(p, j)) \in Nat
    BY PlaceOfEntry, EntryFacts, SizeOfClass
  <2>2. CASE j = k
    <3>1. Befores(p, e) = { f \in S : T!Before(f.at, e.at) } /\ e \in S
      BY <1>1, <2>2 DEF Befores
    <3> HIDE DEF S, E, j, b
    <3> QED BY <1>1, <2>1, <2>2, <3>1 DEF b
  <2>3. CASE j # k
    <3>1. e \notin Y
      BY <1>1, <2>3
    <3>2. Start(p, j) + b # i - 1
      <4> DEFINE F == Cardinality(OfClass(p, "full"))
                 O == Cardinality(OfClass(p, "other"))
      <4>1. F \in Nat /\ O \in Nat
        BY SizeOfClass DEF T!Class
      <4>2. /\ Start(p, "full") = 0 /\ Start(p, "other") = F /\ Start(p, "bes") = F + O
        BY DEF Start, OfClass
      <4>3. /\ j \in {"full", "other", "bes"} /\ k \in {"full", "other", "bes"}
        BY <2>1 DEF T!Class
      <4>4. b \in 0 .. Cardinality(OfClass(p, j)) - 1 /\ m \in 1 .. Cardinality(OfClass(p, k))
        BY <2>1
      <4>5. Cardinality(OfClass(p, j)) \in Nat /\ Cardinality(OfClass(p, k)) \in Nat
        BY <1>1, <2>1
      <4> HIDE DEF F, O, b, j
      <4>6. CASE j = "full"
        BY <2>3, <4>1, <4>2, <4>3, <4>4, <4>5, <4>6 DEF F, O
      <4>7. CASE j = "other"
        BY <2>3, <4>1, <4>2, <4>3, <4>4, <4>5, <4>7 DEF F, O
      <4>8. CASE j = "bes"
        BY <2>3, <4>1, <4>2, <4>3, <4>4, <4>5, <4>8 DEF F, O
      <4> QED BY <4>3, <4>6, <4>7, <4>8
    <3> QED BY <2>1, <3>1, <3>2
  <2> QED BY <2>2, <2>3
<1>3. Y \subseteq E
  BY <1>1
<1>4. X = Y
  <2> HIDE DEF Y, E
  <2> QED BY <1>2, <1>3
<1>5. T!Placed(p)[i] = T!One(X)
  <2>1. T!Placed(p)[i] = T!One({ e \in E : T!Cardinality(Lowers(p, e)) = i - 1 })
    BY Template DEF T!Placed, Lowers, All
  <2>2. { e \in E : T!Cardinality(Lowers(p, e)) = i - 1 } = X
    BY SameCount
  <2> HIDE DEF X, E, i
  <2> QED BY <2>1, <2>2
<1>6. T!Nth(S, m - 1) = T!One(Y)
  <2>1. T!Nth(S, m - 1) = T!One({ e \in S : T!Cardinality({ f \in S : T!Before(f.at, e.at) }) = m - 1 })
    BY DEF T!Nth
  <2>2. { e \in S : T!Cardinality({ f \in S : T!Before(f.at, e.at) }) = m - 1 } = Y
    BY SameCount
  <2> HIDE DEF Y, S
  <2> QED BY <2>1, <2>2
<1> HIDE DEF X, Y
<1> QED BY <1>4, <1>5, <1>6

-----------------------------------------------------------------------------
\* The steps, for the worker w that takes one.
Working == {"sort", "order", "publish"} \cup T!Class

LEMMA Programme ==
  ASSUME T!TypeOK, NEW w \in Worker
  PROVE  /\ at[w] \in T!InPalette => ask[w] \in DOMAIN Palette /\ All(ask[w]) \in Nat
         /\ at[w] \in T!InZoom => ask[w] \in Query
         /\ T!Sorted(w) \in Nat
         /\ \A k \in T!Class : count[w][k] \in 0 .. T!Sorted(w)
<1>1. count[w]["full"] \in Nat /\ count[w]["other"] \in Nat /\ count[w]["bes"] \in Nat
  BY DEF T!TypeOK, T!Class
<1>2. T!Sorted(w) = count[w]["full"] + count[w]["other"] + count[w]["bes"]
  BY DEF T!Sorted
<1>3. \A k \in T!Class : count[w][k] \in 0 .. T!Sorted(w)
  BY <1>1, <1>2 DEF T!Class
<1>4. /\ at[w] \in T!InPalette => ask[w] \in DOMAIN Palette
      /\ at[w] \in T!InZoom => ask[w] \in Query
  BY DEF T!TypeOK
<1> QED BY <1>1, <1>2, <1>3, <1>4, Template

\* Control stays within the function of the call in progress.
LEMMA MovesOn ==
  ASSUME T!TypeOK, NEW w \in Worker, NEW there, T!Goto(w, there), ask' = ask,
         \/ at[w] \in T!InPalette /\ there \in T!InPalette
         \/ at[w] \in T!InZoom /\ there \in T!InZoom
  PROVE  /\ at' \in [Worker -> T!InPalette \cup T!InZoom \cup {"out"}] /\ DOMAIN ask' = Worker
         /\ \A v \in Worker : /\ at'[v] \in T!InPalette => ask'[v] \in DOMAIN Palette
                              /\ at'[v] \in T!InZoom => ask'[v] \in Query
<1>1. T!InPalette \cap T!InZoom = {}
  BY DEF T!InPalette, T!InZoom, T!Holding, T!Class
<1> QED BY <1>1 DEF T!TypeOK, T!Goto

LEMMA OneOf ==
  ASSUME NEW S, S \subseteq T!Entry
  PROVE  T!One(S) \in T!Entry
<1>1. CASE S = {}
  BY <1>1 DEF T!One, T!Entry
<1>2. CASE S # {}
  <2>1. (CHOOSE e \in S : TRUE) \in S
    BY <1>2
  <2> QED BY <1>2, <2>1 DEF T!One
<1> QED BY <1>1, <1>2

LEMMA ScratchFits ==
  ASSUME T!TypeOK, NEW w \in Worker, T!Resolving(w), at[w] \in Working
  PROVE  \A k \in T!Class : count[w][k] \in 0 .. MaxBlocks
<1>1. T!Sorted(w) \in 0 .. All(ask[w]) /\ ask[w] \in DOMAIN Palette
  BY Programme DEF T!Resolving, Working, All, T!InPalette, T!Holding
<1>2. All(ask[w]) \in 1 .. MaxBlocks /\ MaxBlocks \in Nat
  BY <1>1, Template, TablesGiven DEF T!TablesAssumption
<1> QED BY <1>1, <1>2, Programme

LEMMA CallType ==
  ASSUME T!TypeOK, NEW w \in Worker, T!Call(w)
  PROVE  T!TypeOK'
BY DEF T!TypeOK, T!Call, T!Goto, T!InPalette, T!InZoom, T!Holding, T!Class, T!paletteVars, T!zoomVars

LEMMA MoveType ==
  ASSUME T!TypeOK, NEW w \in Worker, T!Return(w) \/ T!Try(w) \/ T!Watch(w) \/ T!Publish(w) \/ T!Unlock(w)
  PROVE  T!TypeOK'
BY DEF T!TypeOK, T!Return, T!Try, T!Watch, T!Publish, T!Unlock, T!Goto, T!InPalette, T!InZoom, T!Holding,
       T!Class, T!paletteVars, T!zoomVars

LEMMA TestType ==
  ASSUME T!TypeOK, NEW w \in Worker, T!Test(w)
  PROVE  T!TypeOK'
BY DEF T!TypeOK, T!Test, T!Goto, T!InPalette, T!InZoom, T!Holding, T!Class, T!zoomVars

LEMMA SortType ==
  ASSUME T!TypeOK, NEW w \in Worker, T!Resolving(w), T!Sort(w)
  PROVE  T!TypeOK'
<1> DEFINE p == ask[w]
           i == T!Sorted(w) + 1
           e == T!Named(p, Raw[p][i])
           k == T!ClassOf(e)
<1>1. /\ at[w] = "sort" /\ p \in DOMAIN Palette /\ All(p) \in Nat
      /\ T!Sorted(w) \in 0 .. All(p) - 1
  BY Programme DEF T!Sort, T!Resolving, T!InPalette, T!Holding, All
<1>2. e \in T!Entry /\ k \in T!Class
  BY <1>1, NamedBlock
<1>3. count[w][k] + 1 \in 1 .. MaxBlocks
  <2>1. count[w][k] \in 0 .. T!Sorted(w)
    BY <1>2, Programme
  <2>2. All(p) \in 1 .. MaxBlocks /\ MaxBlocks \in Nat
    BY <1>1, Template, TablesGiven DEF T!TablesAssumption
  <2> HIDE DEF p, k
  <2> QED BY <1>1, <2>1, <2>2
<1>4. scratch' \in [T!Class -> [1 .. MaxBlocks -> T!Entry]]
  <2>1. scratch' = [scratch EXCEPT ![k][count[w][k] + 1] = e]
    BY DEF T!Sort
  <2>2. scratch \in [T!Class -> [1 .. MaxBlocks -> T!Entry]]
    BY DEF T!TypeOK
  <2> HIDE DEF k, e
  <2> QED BY <1>2, <1>3, <2>1, <2>2
<1>5. count' \in [Worker -> [T!Class -> Nat]]
  <2>1. count' = [count EXCEPT ![w][k] = @ + 1]
    BY DEF T!Sort
  <2>2. count \in [Worker -> [T!Class -> Nat]]
    BY DEF T!TypeOK
  <2> HIDE DEF k
  <2> QED BY <1>2, <2>1, <2>2
<1>6. ask' = ask /\ T!Goto(w, IF i = Len(Raw[p]) THEN "order" ELSE "sort")
  BY DEF T!Sort
<1>7. (IF i = Len(Raw[p]) THEN "order" ELSE "sort") \in T!InPalette /\ at[w] \in T!InPalette
  BY <1>1 DEF T!InPalette, T!Holding
<1> QED BY <1>4, <1>5, <1>6, <1>7, MovesOn DEF T!TypeOK, T!Sort, T!zoomVars

LEMMA OrderType ==
  ASSUME T!TypeOK, NEW w \in Worker, T!Resolving(w), T!Order(w)
  PROVE  T!TypeOK'
<1>1. \A k \in T!Class : count[w][k] \in 0 .. MaxBlocks
  BY ScratchFits DEF T!Order, Working
<1>2. ASSUME NEW k \in T!Class, NEW m
      PROVE  T!Nth(T!Front(scratch[k], count[w][k]), m) \in T!Entry
  <2>1. T!Front(scratch[k], count[w][k]) \subseteq T!Entry
    BY <1>1, TablesGiven DEF T!Front, T!TypeOK, T!TablesAssumption
  <2> QED BY <2>1, OneOf DEF T!Nth
<1>3. scratch' \in [T!Class -> [1 .. MaxBlocks -> T!Entry]]
  <2>1. scratch \in [T!Class -> [1 .. MaxBlocks -> T!Entry]]
    BY DEF T!TypeOK
  <2>2. \A k \in T!Class : \A i \in 1 .. MaxBlocks : scratch[k][i] \in T!Entry
    BY <2>1
  <2>3. scratch' = T!Ordered(w)
    BY DEF T!Order
  <2> QED BY <1>2, <2>2, <2>3 DEF T!Ordered
<1> QED BY <1>3 DEF T!TypeOK, T!Order, T!Goto, T!InPalette, T!InZoom, T!Holding, T!Class, T!zoomVars

LEMMA CopyType ==
  ASSUME T!TypeOK, NEW w \in Worker, T!Resolving(w), T!Copy(w)
  PROVE  T!TypeOK'
<1> DEFINE p == ask[w]
           k == at[w]
<1>1. k \in T!Class /\ p \in DOMAIN Palette /\ T!Sorted(w) = All(p) /\ All(p) \in 1 .. MaxBlocks
  BY Programme, Template DEF T!Copy, T!Resolving, T!InPalette, T!Holding, All
<1>2. PICK s : blocks' = [blocks EXCEPT ![p] =
               [i \in DOMAIN @ |-> IF i - s \in 1 .. count[w][k] THEN scratch[k][i - s] ELSE @[i]]]
  BY DEF T!Copy
<1>3. count[w][k] \in 0 .. MaxBlocks
  BY <1>1, ScratchFits DEF Working
<1>4. \A j \in 1 .. count[w][k] : scratch[k][j] \in T!Entry
  BY <1>1, <1>3, TablesGiven DEF T!TypeOK, T!TablesAssumption
<1>5. /\ DOMAIN blocks' = DOMAIN Palette
      /\ \A q \in DOMAIN Palette : blocks'[q] \in [DOMAIN Raw[q] -> T!Entry]
  <2>1. DOMAIN blocks = DOMAIN Palette /\ \A q \in DOMAIN Palette : blocks[q] \in [DOMAIN Raw[q] -> T!Entry]
    BY DEF T!TypeOK
  <2> HIDE DEF p, k
  <2>2. DOMAIN blocks' = DOMAIN Palette /\ \A q \in DOMAIN Palette \ {p} : blocks'[q] = blocks[q]
    BY <1>2, <2>1
  <2>3. blocks'[p] = [i \in DOMAIN Raw[p] |-> IF i - s \in 1 .. count[w][k] THEN scratch[k][i - s] ELSE blocks[p][i]]
    BY <1>1, <1>2, <2>1
  <2>4. blocks'[p] \in [DOMAIN Raw[p] -> T!Entry]
    BY <1>1, <1>4, <2>1, <2>3
  <2> QED BY <2>1, <2>2, <2>4
<1>6. PICK there \in {"other", "bes", "publish"} : T!Goto(w, there) /\ ask' = ask
  BY <1>1 DEF T!Copy, T!Class
<1>7. there \in T!InPalette /\ at[w] \in T!InPalette
  BY <1>1 DEF T!InPalette, T!Holding, T!Class
<1> QED BY <1>5, <1>6, <1>7, MovesOn DEF T!TypeOK, T!Copy, T!zoomVars

LEMMA TakeTableType ==
  ASSUME T!TypeOK, NEW w \in Worker, T!TakeTable(w)
  PROVE  T!TypeOK'
<1>1. T!Goto(w, "look") /\ ask' = ask /\ at[w] \in T!InZoom /\ "look" \in T!InZoom
  BY DEF T!TakeTable, T!InZoom
<1>2. handed' \in Nat /\ tab' \in [Worker -> {T!Unset, T!NoTable} \cup (0 .. Pool - 1)]
  BY TablesGiven DEF T!TablesAssumption, T!TypeOK, T!TakeTable
<1> QED BY <1>1, <1>2, MovesOn DEF T!TypeOK, T!TakeTable, T!paletteVars

LEMMA LookType ==
  ASSUME T!TypeOK, T!OwnTables, NEW w \in Worker, T!Look(w)
  PROVE  T!TypeOK'
<1> DEFINE tag == T!Tag(ask[w])
           s == CellSlot(tag)
<1>1. ask[w] \in Query /\ s \in T!Slots
  <2>1. at[w] \in T!InZoom
    BY DEF T!Look, T!InZoom
  <2>2. ask[w] \in Query
    BY <2>1, Programme
  <2> QED BY <2>2 DEF T!Slots
<1>2. tab[w] \in {T!NoTable} \cup (0 .. Pool - 1)
  BY DEF T!TypeOK, T!OwnTables, T!Look
<1>3. cells' \in [0 .. Pool - 1 -> [T!Slots -> {T!Empty} \cup { T!Filled(T!Tag(q)) : q \in Query }]]
  <2>1. cells \in [0 .. Pool - 1 -> [T!Slots -> {T!Empty} \cup { T!Filled(T!Tag(q)) : q \in Query }]]
    BY DEF T!TypeOK
  <2>2. CASE cells' = cells
    BY <2>1, <2>2
  <2>3. CASE tab[w] # T!NoTable /\ cells' = [cells EXCEPT ![tab[w]][s] = T!Filled(tag)]
    BY <1>1, <1>2, <2>1, <2>3
  <2> QED BY <2>2, <2>3 DEF T!Look
<1> QED BY <1>1, <1>3 DEF T!TypeOK, T!Look, T!Goto, T!InPalette, T!InZoom, T!Holding, T!Class, T!paletteVars

-----------------------------------------------------------------------------
\* The lock.
LEMMA Enters ==
  ASSUME T!TypeOK, T!Excluded, NEW w \in Worker, T!Try(w)
  PROVE  T!Excluded'
<1>1. /\ held' = TRUE
      /\ \A v \in Worker \ {w} : at'[v] = at[v]
  BY DEF T!Try, T!Goto, T!TypeOK
<1>2. CASE held
  <2>1. at'[w] \notin T!Holding
    BY <1>2 DEF T!Try, T!Goto, T!TypeOK, T!Holding, T!Class
  <2> QED BY <1>1, <2>1 DEF T!Excluded
<1>3. CASE ~ held
  BY <1>1, <1>3 DEF T!Excluded
<1> QED BY <1>2, <1>3

LEMMA Stays ==
  ASSUME T!TypeOK, T!Excluded, NEW w \in Worker, at[w] \in T!Holding, held' = held,
         \A v \in Worker \ {w} : at'[v] = at[v]
  PROVE  T!Excluded'
BY DEF T!Excluded

LEMMA Outside ==
  ASSUME T!TypeOK, T!Excluded, NEW w \in Worker, at'[w] \notin T!Holding, held' = held,
         \A v \in Worker \ {w} : at'[v] = at[v]
  PROVE  T!Excluded'
BY DEF T!Excluded

LEMMA Leaves ==
  ASSUME T!TypeOK, T!Excluded, NEW w \in Worker, T!Unlock(w)
  PROVE  T!Excluded'
<1>1. at[w] \in T!Holding /\ at'[w] \notin T!Holding
  BY DEF T!Unlock, T!Goto, T!TypeOK, T!Holding, T!Class
<1>2. \A v \in Worker \ {w} : at'[v] = at[v]
  BY DEF T!Unlock, T!Goto, T!TypeOK
<1> QED BY <1>1, <1>2 DEF T!Excluded

-----------------------------------------------------------------------------
\* What a step leaves as it is for the other workers.
Aside(w) ==
  /\ \A v \in Worker \ {w} : at'[v] = at[v] /\ ask'[v] = ask[v] /\ count'[v] = count[v]
  /\ \/ at[w] \in T!Holding
     \/ scratch' = scratch /\ blocks' = blocks /\ resolved' = resolved
  /\ \A p \in DOMAIN Palette : resolved[p] => resolved'[p]

LEMMA StepAside ==
  ASSUME T!TypeOK, NEW w \in Worker, T!Call(w) \/ T!Step(w)
  PROVE  Aside(w)
<1>1. CASE T!Call(w) \/ T!Return(w) \/ T!Try(w) \/ T!Watch(w)
  BY <1>1 DEF Aside, T!TypeOK, T!Call, T!Return, T!Try, T!Watch, T!Goto, T!paletteVars
<1>2. CASE T!Test(w) \/ T!Publish(w) \/ T!Unlock(w)
  BY <1>2 DEF Aside, T!TypeOK, T!Test, T!Publish, T!Unlock, T!Goto, T!Holding
<1>3. CASE T!Sort(w)
  <2>1. at[w] \in T!Holding /\ ask' = ask /\ resolved' = resolved
    BY <1>3 DEF T!Sort, T!Holding
  <2>2. \A v \in Worker \ {w} : at'[v] = at[v] /\ count'[v] = count[v]
    BY <1>3 DEF T!Sort, T!Goto, T!TypeOK
  <2> QED BY <2>1, <2>2 DEF Aside
<1>4. CASE T!Order(w)
  <2>1. at[w] \in T!Holding /\ ask' = ask /\ resolved' = resolved /\ count' = count
    BY <1>4 DEF T!Order, T!Holding
  <2> QED BY <1>4, <2>1 DEF Aside, T!Order, T!Goto, T!TypeOK
<1>5. CASE T!Copy(w)
  <2>1. at[w] \in T!Holding /\ ask' = ask /\ resolved' = resolved /\ count' = count
    BY <1>5 DEF T!Copy, T!Holding
  <2> QED BY <1>5, <2>1 DEF Aside, T!Copy, T!Goto, T!TypeOK
<1>6. CASE T!TakeTable(w) \/ T!Look(w)
  BY <1>6 DEF Aside, T!TypeOK, T!TakeTable, T!Look, T!Goto, T!paletteVars
<1> QED BY <1>1, <1>2, <1>3, <1>4, <1>5, <1>6 DEF T!Step

LEMMA OthersResolving ==
  ASSUME T!TypeOK, T!Excluded, NEW w \in Worker, Aside(w), NEW v \in Worker \ {w}, T!Resolving(v)
  PROVE  T!Resolving(v)'
<1>1. at'[v] = at[v] /\ ask'[v] = ask[v] /\ count'[v] = count[v] /\ T!Sorted(v)' = T!Sorted(v)
  BY DEF Aside, T!Sorted
<1>2. CASE at[v] \in T!Holding
  <2>1. scratch' = scratch /\ blocks' = blocks /\ resolved' = resolved
    BY <1>2 DEF Aside, T!Excluded
  <2> QED BY <1>1, <2>1 DEF T!Resolving, T!Copied
<1>3. CASE at[v] \notin T!Holding
  <2>1. at[v] \notin Working /\ at[v] # "unlock"
    BY <1>3 DEF Working, T!Holding
  <2>2. at[v] = "placing" => ask[v] \in DOMAIN Palette
    BY Programme DEF T!InPalette
  <2> QED BY <1>1, <2>1, <2>2 DEF T!Resolving, Working, Aside, T!Class
<1> QED BY <1>2, <1>3

LEMMA IdleResolving ==
  ASSUME NEW w \in Worker, at'[w] \notin Working \cup {"unlock", "placing"}
  PROVE  T!Resolving(w)'
BY DEF T!Resolving, Working, T!Class

LEMMA TestResolving ==
  ASSUME T!TypeOK, NEW w \in Worker, T!Test(w)
  PROVE  T!Resolving(w)'
<1> DEFINE p == ask[w]
<1>1. p \in DOMAIN Palette /\ ask' = ask /\ resolved' = resolved /\ scratch' = scratch
  BY Programme DEF T!Test, T!InPalette, T!Holding
<1>2. CASE resolved[p]
  <2>1. at'[w] = "unlock"
    BY <1>2 DEF T!Test, T!Goto, T!TypeOK
  <2> QED BY <1>1, <1>2, <2>1 DEF T!Resolving, T!Class
<1>3. CASE ~ resolved[p]
  <2>1. at'[w] \in {"sort", "dead"}
    BY <1>3 DEF T!Test, T!Goto, T!TypeOK
  <2>2. count'[w] = [k \in T!Class |-> 0]
    BY DEF T!Test, T!TypeOK
  <2>3. T!Sorted(w)' = 0 /\ \A k \in T!Class : count'[w][k] = 0
    BY <2>2 DEF T!Sorted, T!Class
  <2>4. \A k : T!Classed(p, 0, k) = {} /\ T!Cardinality(T!Classed(p, 0, k)) = 0
    BY NoneClassed, SameCount
  <2>5. \A k \in T!Class : T!Front(scratch'[k], count'[w][k]) = {}
    BY <2>3 DEF T!Front
  <2>6. Len(Raw[p]) \in 1 .. MaxBlocks
    BY <1>1, Template DEF All
  <2>7. 0 \in 0 .. Len(Raw[p]) /\ 0 < Len(Raw[p])
    BY <2>6
  <2>8. ask'[w] = p /\ ~ resolved'[p] /\ at'[w] \notin {"order", "publish", "unlock", "placing"} \cup T!Class
    BY <1>1, <1>3, <2>1 DEF T!Class
  <2> HIDE DEF p
  <2> QED BY <2>3, <2>4, <2>5, <2>7, <2>8 DEF T!Resolving, T!Class
<1> QED BY <1>2, <1>3

LEMMA SortResolving ==
  ASSUME T!TypeOK, NEW w \in Worker, T!Resolving(w), T!Sort(w)
  PROVE  T!Resolving(w)'
<1> DEFINE p == ask[w]
           m == T!Sorted(w)
           e == T!Named(p, Raw[p][m + 1])
           k == T!ClassOf(e)
<1>1. /\ at[w] = "sort" /\ p \in DOMAIN Palette /\ All(p) \in Nat
      /\ m \in 0 .. All(p) - 1 /\ ~ resolved[p]
  BY Programme DEF T!Sort, T!Resolving, T!InPalette, T!Holding, All
<1>2. k \in T!Class
  BY <1>1, NamedBlock
<1>3. /\ ask' = ask /\ resolved' = resolved
      /\ at'[w] = (IF m + 1 = All(p) THEN "order" ELSE "sort")
      /\ scratch' = [scratch EXCEPT ![k][count[w][k] + 1] = e]
      /\ count' = [count EXCEPT ![w][k] = @ + 1]
  BY DEF T!Sort, T!Goto, T!TypeOK, All
<1>4. /\ count[w] \in [T!Class -> Nat]
      /\ count'[w] = [count[w] EXCEPT ![k] = @ + 1]
  BY <1>2, <1>3 DEF T!TypeOK
<1>5. T!Sorted(w)' = m + 1
  <2>1. \A j \in T!Class : count'[w][j] = IF j = k THEN count[w][j] + 1 ELSE count[w][j]
    BY <1>4
  <2>2. /\ count[w]["full"] \in Nat /\ count[w]["other"] \in Nat /\ count[w]["bes"] \in Nat
    BY <1>4 DEF T!Class
  <2>3. m = count[w]["full"] + count[w]["other"] + count[w]["bes"]
    BY DEF T!Sorted
  <2>4. T!Sorted(w)' = count'[w]["full"] + count'[w]["other"] + count'[w]["bes"]
    BY DEF T!Sorted
  <2> HIDE DEF k, m
  <2> QED BY <1>2, <2>1, <2>2, <2>3, <2>4 DEF T!Class
<1>6. ASSUME NEW j \in T!Class
      PROVE  /\ count'[w][j] = T!Cardinality(T!Classed(p, m + 1, j))
             /\ T!Front(scratch'[j], count'[w][j]) = T!Classed(p, m + 1, j)
  <2> DEFINE S == T!Classed(p, m, j)
  <2>1. count[w][j] = Cardinality(S) /\ T!Front(scratch[j], count[w][j]) = S /\ count[w][j] \in Nat
    BY <1>1, <1>4, SameCount DEF T!Resolving
  <2>2. CASE j = k
    <3>1. T!Classed(p, m + 1, j) = S \cup {e} /\ Cardinality(T!Classed(p, m + 1, j)) = Cardinality(S) + 1
      BY <1>1, <2>2, NextClassed
    <3>2. count'[w][j] = count[w][j] + 1
      BY <1>4, <2>2
    <3>3. count[w][j] + 1 \in 1 .. MaxBlocks
      <4>1. count[w][j] \in 0 .. m
        BY Programme
      <4>2. All(p) \in 1 .. MaxBlocks /\ MaxBlocks \in Nat
        BY <1>1, Template, TablesGiven DEF T!TablesAssumption
      <4> HIDE DEF p, m
      <4> QED BY <1>1, <4>1, <4>2
    <3>4. scratch'[j] = [scratch[j] EXCEPT ![count[w][j] + 1] = e] /\ scratch[j] \in [1 .. MaxBlocks -> T!Entry]
      BY <1>2, <1>3, <2>2 DEF T!TypeOK
    <3>5. T!Front(scratch'[j], count[w][j] + 1) = T!Front(scratch[j], count[w][j]) \cup {e}
      <4> DEFINE c == count[w][j]
      <4>0. c \in Nat /\ c + 1 \in 1 .. MaxBlocks /\ MaxBlocks \in Nat
        BY <2>1, <3>3, TablesGiven DEF T!TablesAssumption
      <4>1. 1 .. c + 1 = (1 .. c) \cup {c + 1} /\ \A i \in 1 .. c : i \in 1 .. MaxBlocks /\ i # c + 1
        <5> HIDE DEF c
        <5> QED BY ONLY <4>0
      <4>2. \A i \in 1 .. c : scratch'[j][i] = scratch[j][i]
        BY <3>4, <4>1
      <4>3. scratch'[j][c + 1] = e
        BY <3>3, <3>4
      <4> HIDE DEF c, e
      <4> QED BY <4>1, <4>2, <4>3 DEF T!Front, c
    <3> QED BY <2>1, <3>1, <3>2, <3>5, SameCount
  <2>3. CASE j # k
    <3>1. T!Classed(p, m + 1, j) = S
      BY <1>1, <2>3, NextClassed
    <3>2. count'[w][j] = count[w][j] /\ scratch'[j] = scratch[j]
      BY <1>2, <1>3, <1>4, <2>3 DEF T!TypeOK
    <3> QED BY <2>1, <3>1, <3>2, SameCount
  <2> QED BY <2>2, <2>3
<1>7. m + 1 \in 0 .. Len(Raw[p]) /\ (m + 1 # Len(Raw[p]) => m + 1 < Len(Raw[p])) /\ All(p) = Len(Raw[p])
  BY <1>1 DEF All
<1>8. ask'[w] = p /\ ~ resolved'[p]
  BY <1>1, <1>3
<1>9. at'[w] \in {"order", "sort"} /\ (at'[w] = "sort" <=> m + 1 # Len(Raw[p]))
  BY <1>3, <1>7
<1> HIDE DEF p, m, e, k
<1> QED BY <1>5, <1>6, <1>7, <1>8, <1>9 DEF T!Resolving, T!Class

LEMMA OrderResolving ==
  ASSUME T!TypeOK, NEW w \in Worker, T!Resolving(w), T!Order(w)
  PROVE  T!Resolving(w)'
<1> DEFINE p == ask[w]
           all == Len(Raw[p])
<1>1. /\ at[w] = "order" /\ ~ resolved[p] /\ T!Sorted(w) = all
      /\ \A k \in T!Class : /\ count[w][k] = T!Cardinality(T!Classed(p, all, k))
                            /\ T!Front(scratch[k], count[w][k]) = T!Classed(p, all, k)
  BY DEF T!Order, T!Resolving, T!Class
<1>2. /\ ask' = ask /\ resolved' = resolved /\ count' = count /\ at'[w] = "full" /\ T!Sorted(w)' = T!Sorted(w)
      /\ scratch' = T!Ordered(w)
  BY DEF T!Order, T!Goto, T!TypeOK, T!Sorted
<1>3. \A k \in T!Class : count[w][k] \in 0 .. MaxBlocks
  BY <1>1, ScratchFits DEF Working
<1>4. ASSUME NEW k \in T!Class, NEW i \in 1 .. count[w][k]
      PROVE  scratch'[k][i] = T!Nth(T!Classed(p, all, k), i - 1)
  <2>1. i \in 1 .. MaxBlocks /\ ~ (i > count[w][k])
    BY <1>3, TablesGiven DEF T!TablesAssumption
  <2>2. scratch'[k][i] = T!Nth(T!Front(scratch[k], count[w][k]), i - 1)
    BY <1>2, <2>1 DEF T!Ordered
  <2> QED BY <1>1, <2>2
<1>5. all \in 0 .. all
  BY Programme, Template, <1>1 DEF All, T!InPalette, T!Holding
<1> HIDE DEF p, all
<1>6. ask'[w] = p /\ all = Len(Raw[p])
  BY <1>2 DEF p, all
<1> QED BY <1>1, <1>2, <1>4, <1>5, <1>6 DEF T!Resolving, T!Class

\* A copy of the sorted class k behind what is copied of the classes before it.
LEMMA CopiesClass ==
  ASSUME T!TypeOK, NEW w \in Worker, T!Copy(w), T!Resolving(w), NEW k \in T!Class, at[w] = k,
         NEW s \in Nat, s = Start(ask[w], k), T!Copied(ask[w], s), s + count[w][k] <= All(ask[w]),
         blocks' = [blocks EXCEPT ![ask[w]] =
           [i \in DOMAIN @ |-> IF i - s \in 1 .. count[w][k] THEN scratch[k][i - s] ELSE @[i]]]
  PROVE  \A i \in 1 .. s + count[w][k] : blocks'[ask[w]][i] = T!Placed(ask[w])[i]
<1> DEFINE p == ask[w]
           c == count[w][k]
<1>1. k \in T!Class /\ p \in DOMAIN Palette /\ All(p) \in Nat /\ T!Sorted(w) = All(p) /\ ask' = ask
      /\ count' = count /\ c \in Nat
  BY Programme DEF T!Copy, T!Resolving, T!InPalette, T!Holding, All, T!TypeOK
<1>2. c = Cardinality(OfClass(p, k))
  BY <1>1, SameCount DEF T!Resolving, OfClass
<1>3. \A i \in 1 .. c : scratch[k][i] = T!Nth(OfClass(p, k), i - 1)
  BY <1>1 DEF T!Resolving, OfClass, All
<1>4. \A i \in 1 .. All(p) : blocks'[p][i] = IF i - s \in 1 .. c THEN scratch[k][i - s] ELSE blocks[p][i]
  BY <1>1, Template DEF T!TypeOK
<1>5. ASSUME NEW i \in 1 .. s + c
      PROVE  blocks'[p][i] = T!Placed(p)[i]
  <2>1. i \in 1 .. All(p)
    BY <1>1
  <2>2. CASE i <= s
    <3>1. i \in 1 .. s /\ ~ (i - s \in 1 .. c)
      BY <1>1, <2>2
    <3> QED BY <1>4, <2>1, <3>1 DEF T!Copied
  <2>3. CASE i > s
    <3>1. i - s \in 1 .. c /\ s + (i - s) = i
      BY <1>1, <2>3
    <3>2. blocks'[p][i] = T!Nth(OfClass(p, k), (i - s) - 1)
      BY <1>3, <1>4, <2>1, <3>1
    <3>3. T!Placed(p)[Start(p, k) + (i - s)] = T!Nth(OfClass(p, k), (i - s) - 1)
      <4> HIDE DEF p, c
      <4> QED BY <1>1, <1>2, <2>1, <3>1, SortedByClass DEF p
    <3> QED BY <3>1, <3>2, <3>3
  <2> QED BY <1>1, <2>2, <2>3
<1> QED BY <1>5

LEMMA CopyResolving ==
  ASSUME T!TypeOK, NEW w \in Worker, T!Resolving(w), T!Copy(w)
  PROVE  T!Resolving(w)'
<1> DEFINE p == ask[w]
           F == count[w]["full"]
           O == count[w]["other"]
           B == count[w]["bes"]
<1>1. /\ at[w] \in T!Class /\ p \in DOMAIN Palette /\ All(p) \in Nat /\ ~ resolved[p]
      /\ T!Sorted(w) = All(p) /\ T!Sorted(w) = F + O + B /\ F \in Nat /\ O \in Nat /\ B \in Nat
  BY Programme DEF T!Copy, T!Resolving, T!InPalette, T!Holding, All, T!TypeOK, T!Sorted, T!Class
<1>2. /\ ask' = ask /\ resolved' = resolved /\ scratch' = scratch /\ count' = count /\ T!Sorted(w)' = T!Sorted(w)
  BY DEF T!Copy, T!Sorted
<1>3. \A k \in T!Class : count[w][k] = Cardinality(OfClass(p, k))
  BY <1>1, SameCount DEF T!Resolving, OfClass
<1>4. /\ Start(p, "full") = 0 /\ Start(p, "other") = F /\ Start(p, "bes") = F + O
  BY <1>3 DEF Start, OfClass, T!Class
<1> DEFINE Copies(k, s) == [blocks EXCEPT ![p] =
             [i \in DOMAIN @ |-> IF i - s \in 1 .. count[w][k] THEN scratch[k][i - s] ELSE @[i]]]
<1>5. ASSUME NEW k \in T!Class, at[w] = k, NEW s \in Nat, s = Start(p, k), T!Copied(p, s),
             s + count[w][k] <= All(p), blocks' = Copies(k, s)
      PROVE  \A i \in 1 .. s + count[w][k] : blocks'[p][i] = T!Placed(p)[i]
  BY <1>5, CopiesClass
<1>6. "full" \in T!Class /\ "other" \in T!Class /\ "bes" \in T!Class
  BY DEF T!Class
<1>7. CASE at[w] = "full"
  <2>1. at'[w] = "other"
    BY <1>7 DEF T!Copy, T!Goto, T!TypeOK
  <2>2. /\ T!Copied(p, 0) /\ 0 + F <= All(p)
        /\ blocks' = Copies("full", 0)
    <3>1. T!Copied(p, 0)
      BY DEF T!Copied
    <3>2. blocks' = Copies("full", 0)
      BY <1>7 DEF T!Copy
    <3> QED BY <1>1, <3>1, <3>2
  <2>3. \A i \in 1 .. 0 + F : blocks'[p][i] = T!Placed(p)[i]
    <3> HIDE DEF Copies
    <3> QED BY <1>4, <1>7, <1>5, <1>6, <2>2
  <2>4. 0 + F = F
    BY <1>1
  <2> QED BY <1>1, <1>2, <2>1, <2>3, <2>4, <1>7 DEF T!Resolving, T!Class, T!Copied, All
<1>8. CASE at[w] = "other"
  <2>1. at'[w] = "bes"
    BY <1>8 DEF T!Copy, T!Goto, T!TypeOK
  <2>2. /\ T!Copied(p, F) /\ F + O <= All(p)
        /\ blocks' = Copies("other", F)
    <3>1. T!Copied(p, F)
      BY <1>8 DEF T!Resolving
    <3>2. blocks' = Copies("other", F)
      BY <1>8 DEF T!Copy
    <3> QED BY <1>1, <3>1, <3>2
  <2>3. \A i \in 1 .. F + O : blocks'[p][i] = T!Placed(p)[i]
    <3> HIDE DEF Copies
    <3> QED BY <1>1, <1>4, <1>8, <1>5, <1>6, <2>2
  <2> QED BY <1>1, <1>2, <2>1, <2>3, <1>8 DEF T!Resolving, T!Class, T!Copied, All
<1>9. CASE at[w] = "bes"
  <2>1. at'[w] = "publish"
    BY <1>9 DEF T!Copy, T!Goto, T!TypeOK
  <2>2. /\ T!Copied(p, F + O) /\ (F + O) + B <= All(p)
        /\ blocks' = Copies("bes", (F + O))
    <3>1. T!Copied(p, F + O)
      BY <1>9 DEF T!Resolving
    <3>2. blocks' = Copies("bes", (F + O))
      BY <1>9 DEF T!Copy
    <3> QED BY <1>1, <3>1, <3>2
  <2>3. F + O \in Nat
    BY <1>1
  <2>4. \A i \in 1 .. (F + O) + B : blocks'[p][i] = T!Placed(p)[i]
    <3> HIDE DEF Copies
    <3> QED BY <1>4, <1>9, <1>5, <1>6, <2>2, <2>3
  <2>5. (F + O) + B = Len(Raw[p])
    BY <1>1 DEF All
  <2> QED BY <1>1, <1>2, <2>1, <2>4, <2>5, <1>9 DEF T!Resolving, T!Class, T!Copied, All
<1> QED BY <1>1, <1>7, <1>8, <1>9 DEF T!Class

LEMMA LeavesResolved ==
  ASSUME T!TypeOK, NEW w \in Worker, T!Resolving(w), T!Publish(w) \/ T!Unlock(w)
  PROVE  T!Resolving(w)'
<1>1. ask' = ask /\ ask[w] \in DOMAIN Palette
  BY Programme DEF T!Publish, T!Unlock, T!InPalette, T!Holding
<1>2. at'[w] \in {"unlock", "placing"} /\ resolved'[ask[w]]
  BY <1>1 DEF T!Publish, T!Unlock, T!Resolving, T!Goto, T!TypeOK
<1> QED BY <1>1, <1>2 DEF T!Resolving, T!Class

LEMMA StaysComplete ==
  ASSUME T!TypeOK, NEW w \in Worker, T!Resolving(w), T!Call(w) \/ T!Step(w),
         \A p \in DOMAIN Palette : resolved[p] => T!Copied(p, Len(Raw[p]))
  PROVE  \A p \in DOMAIN Palette : resolved'[p] => T!Copied(p, Len(Raw[p]))'
<1>1. CASE T!Copy(w)
  <2>1. ~ resolved[ask[w]] /\ resolved' = resolved
    BY <1>1 DEF T!Copy, T!Resolving
  <2>2. \A p \in DOMAIN Palette \ {ask[w]} : blocks'[p] = blocks[p]
    BY <1>1 DEF T!Copy, T!TypeOK
  <2> QED BY <2>1, <2>2 DEF T!Copied
<1>2. CASE T!Publish(w)
  <2>1. /\ blocks' = blocks /\ T!Copied(ask[w], Len(Raw[ask[w]]))
        /\ \A p \in DOMAIN Palette \ {ask[w]} : resolved'[p] = resolved[p]
    BY <1>2 DEF T!Publish, T!Resolving, T!TypeOK
  <2> QED BY <2>1 DEF T!Copied
<1>3. CASE blocks' = blocks /\ resolved' = resolved
  BY <1>3 DEF T!Copied
<1> QED BY <1>1, <1>2, <1>3 DEF T!Step, T!Call, T!Return, T!Try, T!Watch, T!Test, T!Sort, T!Order, T!Unlock,
           T!TakeTable, T!Look, T!paletteVars

-----------------------------------------------------------------------------
\* The tables of the zoomer.
LEMMA TaggedCell ==
  ASSUME T!TypeOK, NEW m \in 0 .. Pool - 1, NEW s \in T!Slots, NEW q \in Query, cells[m][s].tag = T!Tag(q)
  PROVE  cells[m][s] = T!Filled(T!Tag(q))
<1>1. cells[m][s] \in {T!Empty} \cup { T!Filled(T!Tag(r)) : r \in Query }
  <2> DEFINE C == {T!Empty} \cup { T!Filled(T!Tag(r)) : r \in Query }
  <2>1. cells \in [0 .. Pool - 1 -> [T!Slots -> C]]
    BY DEF T!TypeOK
  <2> HIDE DEF C
  <2>2. cells[m][s] \in C
    BY <2>1
  <2> QED BY <2>2 DEF C
<1>2. T!Empty.tag # T!Tag(q)
  BY DEF T!Empty, T!Tag
<1>3. \A r \in Query : T!Filled(T!Tag(r)).tag = T!Tag(r)
  BY DEF T!Filled
<1> QED BY <1>1, <1>2, <1>3

LEMMA KeepsTables ==
  ASSUME T!TypeOK, T!OwnTables, NEW w \in Worker, handed' = handed, tab' = tab, cells' = cells,
         \A v \in Worker \ {w} : at'[v] = at[v] /\ ask'[v] = ask[v],
         at'[w] = "look" => tab[w] # T!Unset, at'[w] # "asking"
  PROVE  T!OwnTables'
<1>1. \A v \in Worker \ {w} : T!Seen(v)' = T!Seen(v)
  BY DEF T!Seen
<1> QED BY <1>1 DEF T!OwnTables

LEMMA OtherTables ==
  ASSUME T!TypeOK, T!OwnTables, NEW w \in Worker,
         T!Call(w) \/ T!Return(w) \/ T!Try(w) \/ T!Watch(w) \/ T!Test(w) \/ T!Sort(w) \/ T!Order(w) \/ T!Copy(w)
         \/ T!Publish(w) \/ T!Unlock(w)
  PROVE  T!OwnTables'
<1>1. handed' = handed /\ tab' = tab /\ cells' = cells
  BY DEF T!Call, T!Return, T!Try, T!Watch, T!Test, T!Sort, T!Order, T!Copy, T!Publish, T!Unlock, T!zoomVars
<1>2. \A v \in Worker \ {w} : at'[v] = at[v] /\ ask'[v] = ask[v]
  BY StepAside DEF Aside, T!Step
<1>3. CASE T!Call(w)
  <2>1. at'[w] \in {"try", "table", "look"} /\ (at'[w] = "look" => tab[w] # T!Unset)
    BY <1>3 DEF T!Call, T!Goto, T!TypeOK
  <2> QED BY <1>1, <1>2, <2>1, KeepsTables
<1>4. CASE ~ T!Call(w)
  <2>1. at'[w] \notin {"look", "asking"}
    BY <1>4 DEF T!Return, T!Try, T!Watch, T!Test, T!Sort, T!Order, T!Copy, T!Publish, T!Unlock, T!Goto, T!TypeOK, T!Class
  <2> QED BY <1>1, <1>2, <2>1, KeepsTables
<1> QED BY <1>3, <1>4

LEMMA TakesTable ==
  ASSUME T!TypeOK, T!OwnTables, NEW w \in Worker, T!TakeTable(w)
  PROVE  T!OwnTables'
<1>1. /\ handed' = handed + 1 /\ handed \in Nat /\ cells' = cells /\ ask' = ask
      /\ tab' = [tab EXCEPT ![w] = IF handed < Pool THEN handed ELSE T!NoTable]
      /\ tab \in [Worker -> {T!Unset, T!NoTable} \cup (0 .. Pool - 1)] /\ Pool \in Nat
      /\ at' = [at EXCEPT ![w] = "look"] /\ DOMAIN at = Worker
  BY TablesGiven DEF T!TablesAssumption, T!TakeTable, T!TypeOK, T!Goto
<1>2. \A v \in Worker \ {w} : tab'[v] = tab[v] /\ at'[v] = at[v] /\ T!Seen(v)' = T!Seen(v)
  BY <1>1 DEF T!Seen
<1>3. at'[w] = "look" /\ tab'[w] = IF handed < Pool THEN handed ELSE T!NoTable
  BY <1>1
<1>4. \A v \in Worker : tab'[v] < handed'
  BY <1>1, <1>2, <1>3 DEF T!OwnTables, T!NoTable, T!Unset
<1>5. ASSUME NEW v \in Worker, NEW u \in Worker, tab'[v] = tab'[u], tab'[u] \in 0 .. Pool - 1
      PROVE  v = u
  <2>1. CASE v # w /\ u # w
    BY <1>2, <1>5, <2>1 DEF T!OwnTables
  <2>2. CASE v = w /\ u # w
    BY <1>1, <1>2, <1>3, <1>5, <2>2 DEF T!OwnTables, T!NoTable
  <2>3. CASE v # w /\ u = w
    BY <1>1, <1>2, <1>3, <1>5, <2>3 DEF T!OwnTables, T!NoTable
  <2> QED BY <2>1, <2>2, <2>3
<1>6. \A v \in Worker : at'[v] \in {"look", "asking"} => tab'[v] # T!Unset
  BY <1>1, <1>2, <1>3 DEF T!OwnTables, T!Unset, T!NoTable
<1>7. \A v \in Worker : at'[v] = "asking" => T!Seen(v)' = T!Filled(T!Tag(ask'[v]))
  BY <1>1, <1>2, <1>3 DEF T!OwnTables
<1> QED BY <1>4, <1>5, <1>6, <1>7 DEF T!OwnTables

LEMMA LooksOwn ==
  ASSUME T!TypeOK, T!OwnTables, NEW w \in Worker, T!Look(w)
  PROVE  T!OwnTables'
<1> DEFINE tag == T!Tag(ask[w])
           s == CellSlot(tag)
<1>1. /\ handed' = handed /\ tab' = tab /\ ask' = ask /\ at' = [at EXCEPT ![w] = "asking"] /\ DOMAIN at = Worker
      /\ at[w] = "look"
  BY DEF T!Look, T!Goto, T!TypeOK
<1>2. ask[w] \in Query /\ s \in T!Slots /\ tab[w] \in {T!NoTable} \cup (0 .. Pool - 1)
  <2>1. ask[w] \in Query
    BY <1>1, Programme DEF T!InZoom
  <2>2. tab[w] # T!Unset /\ tab[w] \in {T!Unset, T!NoTable} \cup (0 .. Pool - 1)
    BY <1>1 DEF T!OwnTables, T!TypeOK
  <2> QED BY <2>1, <2>2 DEF T!Slots
<1>3. cells \in [0 .. Pool - 1 -> [T!Slots -> {T!Empty} \cup { T!Filled(T!Tag(q)) : q \in Query }]]
  BY DEF T!TypeOK
<1>4. T!Seen(w)' = T!Filled(tag)
  <2>1. CASE tab[w] = T!NoTable
    BY <1>1, <2>1 DEF T!Seen
  <2>2. CASE tab[w] # T!NoTable /\ cells[tab[w]][s].tag = tag
    <3>1. cells[tab[w]][s] = T!Filled(tag) /\ cells' = cells
      BY <1>2, <2>2, TaggedCell DEF T!Look
    <3> QED BY <1>1, <2>2, <3>1 DEF T!Seen
  <2>3. CASE tab[w] # T!NoTable /\ cells[tab[w]][s].tag # tag
    <3>1. cells' = [cells EXCEPT ![tab[w]][s] = T!Filled(tag)]
      BY <2>3 DEF T!Look
    <3>2. cells'[tab[w]][s] = T!Filled(tag)
      BY <1>2, <1>3, <2>3, <3>1
    <3> QED BY <1>1, <2>3, <3>2 DEF T!Seen
  <2> QED BY <2>1, <2>2, <2>3
<1>5. ASSUME NEW v \in Worker \ {w}, at[v] = "asking"
      PROVE  T!Seen(v)' = T!Seen(v)
  <2>1. CASE tab[v] = T!NoTable
    BY <1>1, <2>1 DEF T!Seen
  <2>2. CASE tab[v] # T!NoTable
    <3>1. tab[v] \in 0 .. Pool - 1 /\ tab[v] # tab[w]
      BY <1>5, <2>2 DEF T!OwnTables, T!TypeOK
    <3>2. cells'[tab[v]] = cells[tab[v]]
      BY <1>3, <3>1 DEF T!Look
    <3> QED BY <1>1, <3>2 DEF T!Seen
  <2> QED BY <2>1, <2>2
<1>6. \A v \in Worker : at'[v] = "asking" => T!Seen(v)' = T!Filled(T!Tag(ask'[v]))
  BY <1>1, <1>4, <1>5 DEF T!OwnTables
<1>7. \A v \in Worker : at'[v] \in {"look", "asking"} => tab'[v] # T!Unset
  BY <1>1 DEF T!OwnTables
<1> QED BY <1>1, <1>6, <1>7 DEF T!OwnTables

-----------------------------------------------------------------------------
\* Which corner the loop picks.
FirstLeast(d, b, m) ==
  /\ b \in 0 .. m
  /\ \A j \in 0 .. m : IF j < b THEN d[j] > d[b] ELSE d[j] >= d[b]

LEMMA OneFirstLeast ==
  ASSUME NEW d \in [0 .. 7 -> Int], NEW b, NEW c, FirstLeast(d, b, 7), FirstLeast(d, c, 7)
  PROVE  b = c
BY DEF FirstLeast

LEMMA DistanceIsInt ==
  ASSUME NEW q \in Query, NEW i \in 0 .. 7
  PROVE  T!Distance(q, T!Filled(T!Tag(q)).f, i) \in Int
<1> DEFINE f == T!Filled(T!Tag(q)).f
           d == [c \in 1 .. 3 |-> 4 * (T!Shifted(q)[c] % 4) - 16 * T!High(i)[c] + f[i][c]]
<1>1. q.seed = T!Tag(q)[1] /\ f[i] = Offset(q.seed, T!CornerAt(T!Tag(q), i))
  BY DEF T!Filled, T!Tag
<1>2. f[i] \in [1 .. 3 -> Int]
  <2>1. Offset(q.seed, T!CornerAt(T!Tag(q), i)) \in [1 .. 3 -> Int]
    BY TablesGiven DEF T!TablesAssumption
  <2> QED BY <1>1, <2>1
<1>3. \A c \in 1 .. 3 : T!Shifted(q)[c] \in Int
  <2>1. q.at \in [1 .. 3 -> Int]
    BY TablesGiven DEF T!TablesAssumption
  <2> QED BY <2>1 DEF T!Shifted
<1>4. \A c \in 1 .. 3 : T!High(i)[c] \in Int
  BY DEF T!High
<1>5. \A c \in 1 .. 3 : T!Shifted(q)[c] % 4 \in Int
  BY <1>3
<1> HIDE DEF f
<1>6. d[1] \in Int /\ d[2] \in Int /\ d[3] \in Int
  BY <1>2, <1>4, <1>5
<1>7. T!Distance(q, f, i) = d[3] * d[3] + d[2] * d[2] + d[1] * d[1]
  BY DEF T!Distance
<1> HIDE DEF d
<1>8. T!Distance(q, f, i) \in Int
  BY <1>6, <1>7
<1> QED BY <1>8 DEF f

\* After corner m the loop holds the first of the nearest up to m.
LEMMA NextCorner ==
  ASSUME NEW q \in Query, NEW d \in [0 .. 7 -> Int], NEW m \in 0 .. 6, NEW b, FirstLeast(d, b, m),
         \A i \in 0 .. 7 : d[i] = T!Distance(q, T!Filled(T!Tag(q)).f, i)
  PROVE  FirstLeast(d, T!Nearer(q, T!Filled(T!Tag(q)).f, b, m + 1), m + 1)
<1>1. b \in 0 .. 7 /\ m + 1 \in 0 .. 7
  BY DEF FirstLeast
<1>2. T!Nearer(q, T!Filled(T!Tag(q)).f, b, m + 1) = IF d[b] > d[m + 1] THEN m + 1 ELSE b
  BY <1>1 DEF T!Nearer
<1>3. FirstLeast(d, IF d[b] > d[m + 1] THEN m + 1 ELSE b, m + 1)
  BY DEF FirstLeast
<1> QED BY <1>2, <1>3

LEMMA LoopFindsQuart ==
  ASSUME NEW q \in Query
  PROVE  T!Zoomed(q, T!Filled(T!Tag(q)).f) = T!Quart(q)
<1> DEFINE f == T!Filled(T!Tag(q)).f
           d == [i \in 0 .. 7 |-> T!Distance(q, f, i)]
           N(b, i) == T!Nearer(q, f, b, i)
           best == T!Nearest(q, f)
<1>1. d \in [0 .. 7 -> Int] /\ \A i \in 0 .. 7 : d[i] = T!Distance(q, f, i)
  BY DistanceIsInt
<1> HIDE DEF d
<1>2. best = N(N(N(N(N(N(N(0, 1), 2), 3), 4), 5), 6), 7)
  BY DEF T!Nearest
<1>3. FirstLeast(d, best, 7)
  <2>1. FirstLeast(d, 0, 0)
    BY <1>1 DEF FirstLeast
  <2>2. ASSUME NEW m \in 0 .. 6, NEW b, FirstLeast(d, b, m)
        PROVE  FirstLeast(d, N(b, m + 1), m + 1)
    BY <1>1, <2>2, NextCorner
  <2> HIDE DEF N, best
  <2>3. PICK b1 : FirstLeast(d, b1, 1) /\ b1 = N(0, 1)
    BY <2>1, <2>2
  <2>4. PICK b2 : FirstLeast(d, b2, 2) /\ b2 = N(b1, 2)
    BY <2>2, <2>3
  <2>5. PICK b3 : FirstLeast(d, b3, 3) /\ b3 = N(b2, 3)
    BY <2>2, <2>4
  <2>6. PICK b4 : FirstLeast(d, b4, 4) /\ b4 = N(b3, 4)
    BY <2>2, <2>5
  <2>7. PICK b5 : FirstLeast(d, b5, 5) /\ b5 = N(b4, 5)
    BY <2>2, <2>6
  <2>8. PICK b6 : FirstLeast(d, b6, 6) /\ b6 = N(b5, 6)
    BY <2>2, <2>7
  <2>9. FirstLeast(d, N(b6, 7), 7)
    BY <2>2, <2>8
  <2>10. best = N(b6, 7)
    BY <1>2, <2>3, <2>4, <2>5, <2>6, <2>7, <2>8
  <2> QED BY <2>9, <2>10
<1> DEFINE P(i) == \A j \in 0 .. 7 : IF j < i THEN T!Distance(q, f, j) > T!Distance(q, f, i)
                                           ELSE T!Distance(q, f, j) >= T!Distance(q, f, i)
<1>4. \A i \in 0 .. 7 : P(i) <=> FirstLeast(d, i, 7)
  BY <1>1 DEF FirstLeast
<1>5. T!Quart(q) = T!CornerAt(T!Tag(q), CHOOSE i \in 0 .. 7 : P(i))
  BY DEF T!Quart
<1> HIDE DEF best
<1>6. best \in 0 .. 7 /\ P(best)
  BY <1>3, <1>4 DEF FirstLeast
<1>7. \A i \in 0 .. 7 : P(i) => i = best
  BY <1>1, <1>3, <1>4, OneFirstLeast
<1>8. (CHOOSE i \in 0 .. 7 : P(i)) = best
  <2> HIDE DEF P
  <2> QED BY <1>6, <1>7
<1> QED BY <1>5, <1>8 DEF T!Zoomed, best

-----------------------------------------------------------------------------
LEMMA InitTables ==
  ASSUME T!Init
  PROVE  T!TablesInv
<1>1. /\ at = [w \in Worker |-> "out"] /\ DOMAIN ask = Worker
      /\ resolved = [p \in DOMAIN Palette |-> FALSE] /\ held = FALSE
      /\ tab = [w \in Worker |-> T!Unset] /\ handed \in 0 .. Pool
  BY DEF T!Init
<1>2. Pool \in Nat
  BY TablesGiven DEF T!TablesAssumption
<1>3. T!TypeOK
  <2>1. T!Nothing \in T!Entry
    BY DEF T!Entry
  <2>2. DOMAIN blocks = DOMAIN Palette /\ \A p \in DOMAIN Palette : blocks[p] \in [DOMAIN Raw[p] -> T!Entry]
    BY <2>1 DEF T!Init
  <2>3. scratch \in [T!Class -> [1 .. MaxBlocks -> T!Entry]]
    BY <2>1 DEF T!Init
  <2>4. count \in [Worker -> [T!Class -> Nat]]
    BY DEF T!Init
  <2>5. handed \in Nat /\ tab \in [Worker -> {T!Unset, T!NoTable} \cup (0 .. Pool - 1)]
    BY <1>1, <1>2
  <2>6. cells \in [0 .. Pool - 1 -> [T!Slots -> {T!Empty} \cup { T!Filled(T!Tag(q)) : q \in Query }]]
    BY DEF T!Init
  <2>7. /\ at \in [Worker -> T!InPalette \cup T!InZoom \cup {"out"}]
        /\ \A w \in Worker : at[w] \notin T!InPalette /\ at[w] \notin T!InZoom
    BY <1>1 DEF T!InPalette, T!InZoom, T!Holding, T!Class
  <2>8. held \in BOOLEAN /\ resolved \in [DOMAIN Palette -> BOOLEAN]
    BY <1>1
  <2> QED BY <1>1, <2>2, <2>3, <2>4, <2>5, <2>6, <2>7, <2>8 DEF T!TypeOK
<1>4. T!Excluded
  BY <1>1 DEF T!Excluded, T!Holding, T!Class
<1>5. T!OwnTables
  <2>1. \A w \in Worker : tab[w] = -1 /\ at[w] = "out"
    BY <1>1 DEF T!Unset
  <2> QED BY <1>1, <1>2, <2>1 DEF T!OwnTables
<1>6. \A w \in Worker : T!Resolving(w)
  BY <1>1 DEF T!Resolving, T!Class
<1> QED BY <1>1, <1>3, <1>4, <1>5, <1>6 DEF T!TablesInv

LEMMA StepTables ==
  ASSUME T!TablesInv, NEW w \in Worker, T!Call(w) \/ T!Step(w)
  PROVE  T!TablesInv'
<1>1. /\ T!TypeOK /\ T!Excluded /\ T!OwnTables /\ \A v \in Worker : T!Resolving(v)
      /\ \A p \in DOMAIN Palette : resolved[p] => T!Copied(p, Len(Raw[p]))
  BY DEF T!TablesInv
<1>2. Aside(w)
  BY <1>1, StepAside
<1>3. \A v \in Worker \ {w} : T!Resolving(v)'
  BY <1>1, <1>2, OthersResolving
<1>4. \A v \in Worker \ {w} : at'[v] = at[v]
  BY <1>2 DEF Aside
<1>5. (\A p \in DOMAIN Palette : resolved[p] => T!Copied(p, Len(Raw[p])))'
  BY <1>1, StaysComplete
<1>6. SUFFICES T!TypeOK' /\ T!Excluded' /\ T!OwnTables' /\ T!Resolving(w)'
  BY <1>3, <1>5 DEF T!TablesInv
<1>7. CASE T!Call(w) \/ T!Return(w) \/ T!Watch(w) \/ T!TakeTable(w) \/ T!Look(w)
  <2>1. held' = held /\ at'[w] \in {"try", "table", "look", "out", "asking"}
    BY <1>1, <1>7 DEF T!Call, T!Return, T!Watch, T!TakeTable, T!Look, T!Goto, T!TypeOK, T!paletteVars
  <2>2. at'[w] \notin T!Holding /\ at'[w] \notin Working \cup {"unlock", "placing"}
    BY <2>1 DEF T!Holding, Working, T!Class
  <2>3. T!Excluded' /\ T!Resolving(w)'
    BY <1>1, <1>4, <2>1, <2>2, Outside, IdleResolving
  <2>4. T!TypeOK'
    BY <1>1, <1>7, CallType, MoveType, TakeTableType, LookType
  <2>5. T!OwnTables'
    BY <1>1, <1>7, OtherTables, TakesTable, LooksOwn
  <2> QED BY <2>3, <2>4, <2>5
<1>8. CASE T!Try(w)
  <2>1. at'[w] \in {"watch", "test"}
    BY <1>1, <1>8 DEF T!Try, T!Goto, T!TypeOK
  <2>2. at'[w] \notin Working \cup {"unlock", "placing"}
    BY <2>1 DEF Working, T!Class
  <2> QED BY <1>1, <1>8, <2>2, IdleResolving, MoveType, Enters, OtherTables
<1>9. CASE T!Test(w) \/ T!Sort(w) \/ T!Order(w) \/ T!Copy(w) \/ T!Publish(w)
  <2>1. at[w] \in T!Holding /\ held' = held
    BY <1>9 DEF T!Test, T!Sort, T!Order, T!Copy, T!Publish, T!Holding
  <2>2. T!Excluded'
    BY <1>1, <1>4, <2>1, Stays
  <2>3. T!OwnTables'
    BY <1>1, <1>9, OtherTables
  <2>4. T!TypeOK'
    BY <1>1, <1>9, TestType, SortType, OrderType, CopyType, MoveType
  <2>5. T!Resolving(w)'
    BY <1>1, <1>9, TestResolving, SortResolving, OrderResolving, CopyResolving, LeavesResolved
  <2> QED BY <2>2, <2>3, <2>4, <2>5
<1>10. CASE T!Unlock(w)
  BY <1>1, <1>10, MoveType, Leaves, OtherTables, LeavesResolved
<1> QED BY <1>7, <1>8, <1>9, <1>10 DEF T!Step

LEMMA TablesAnswer ==
  ASSUME T!TablesInv
  PROVE  T!AnswersPure
<1> SUFFICES ASSUME NEW w \in Worker
             PROVE  /\ at[w] = "placing" => blocks[ask[w]] = T!Placed(ask[w])
                    /\ at[w] = "asking" => T!Zoomed(ask[w], T!Seen(w).f) = T!Quart(ask[w])
  BY DEF T!AnswersPure
<1>1. ASSUME at[w] = "placing"
      PROVE  blocks[ask[w]] = T!Placed(ask[w])
  <2> DEFINE p == ask[w]
  <2>1. p \in DOMAIN Palette /\ resolved[p]
    BY <1>1, Programme DEF T!TablesInv, T!InPalette, T!Resolving
  <2>2. blocks[p] \in [DOMAIN Raw[p] -> T!Entry] /\ \A i \in 1 .. Len(Raw[p]) : blocks[p][i] = T!Placed(p)[i]
    BY <2>1 DEF T!TablesInv, T!TypeOK, T!Copied
  <2>3. DOMAIN Raw[p] = 1 .. Len(Raw[p])
    BY <2>1, Template DEF All
  <2>4. T!Placed(p) = [i \in DOMAIN Raw[p] |-> T!Placed(p)[i]]
    BY DEF T!Placed
  <2> HIDE DEF p
  <2> QED BY <2>2, <2>3, <2>4 DEF p
<1>2. ASSUME at[w] = "asking"
      PROVE  T!Zoomed(ask[w], T!Seen(w).f) = T!Quart(ask[w])
  <2>1. ask[w] \in Query /\ T!Seen(w) = T!Filled(T!Tag(ask[w]))
    BY <1>2, Programme DEF T!TablesInv, T!InZoom, T!OwnTables
  <2> QED BY <2>1, LoopFindsQuart
<1> QED BY <1>1, <1>2

\* TablesInv, with either recorder standing still.
THEOREM TablesInvariant == MCSpec => []TablesInv
<1>1. MCInit => TablesInv
  BY InitTables DEF MCInit, TablesInv
<1>2. TablesInv /\ [MCNext]_allVars => TablesInv'
  <2> SUFFICES ASSUME TablesInv, [MCNext]_allVars PROVE TablesInv'
    OBVIOUS
  <2>1. ASSUME part' = part, UNCHANGED tableVars
        PROVE  TablesInv'
    <3>1. T!TablesInv' = T!TablesInv
      BY <2>1 DEF tableVars, T!TablesInv, T!TypeOK, T!Excluded, T!OwnTables, T!Resolving, T!Copied, T!Seen, T!Sorted
    <3> QED BY <2>1, <3>1 DEF TablesInv
  <2>2. ASSUME NEW w \in Worker, InTables, T!Call(w) \/ T!Step(w)
        PROVE  TablesInv'
    BY <2>2, StepTables DEF TablesInv, InTables
  <2>3. CASE UNCHANGED allVars
    BY <2>1, <2>3 DEF allVars
  <2>4. CASE MCNext
    BY <2>1, <2>2, <2>4 DEF MCNext, InTicks, T!Step
  <2> QED BY <2>3, <2>4
<1> QED BY <1>1, <1>2, PTL DEF MCSpec

\* Whoever holds an answer of a table holds the one its question has by
\* itself, for any palettes, queries, hash of cells and number of tables
\* (structures_template.c:304, biome_zoom.c:50).
THEOREM TablesAnswerAlike == MCSpec => []AnswersPure
<1>1. TablesInv => AnswersPure
  BY TablesAnswer DEF TablesInv, AnswersPure
<1> QED BY <1>1, TablesInvariant, PTL
=============================================================================
