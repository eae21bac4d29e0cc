--------------------------- MODULE SerializerProofs ---------------------------
(***************************************************************************)
(* Proofs about the serialization pipeline (Serializer.tla), for every     *)
(* number of chunks and workers: it has no data race, joins only threads   *)
(* that exist, and feeds the hash the stream of the REPLAY loop.           *)
(***************************************************************************)
EXTENDS Serializer, TLAPS

USE SerializerAssumption

FinalBody == [blocks |-> TRUE, light |-> TRUE]
Late == {"consume", "joinSpawner", "joinWorkers", "done"}
Busy(t) == pc[t] \in {"serialize", "publish"}

\* Who is past the latch, and where the main thread then is.
Latched ==
  /\ \A t \in Worker : pc[t] \in {"claim", "serialize", "publish", "exited"} => go
  /\ ready # {} => go
  /\ go => main \in Late

\* How far the two loops before the latch have come.
Prepared ==
  /\ main = "dag" => final = {}
  /\ main \in {"dag", "postprocess"} => frozen = {}
  /\ main = "postprocess" => at < Chunks /\ final = 0 .. at - 1
  /\ main = "freeze" => at < Chunks /\ final = Chunk /\ frozen = 0 .. at - 1
  /\ main \in {"lock", "open"} \cup Late => final = Chunk /\ frozen = Chunk

\* A busy worker has a chunk of its own, not yet published.
Claimed ==
  /\ \A t \in Worker : Busy(t) => idx[t] \in Chunk /\ idx[t] < next /\ idx[t] \notin ready
  /\ \A t, u \in Worker : t # u /\ Busy(t) /\ Busy(u) => idx[t] # idx[u]
  /\ \A c \in ready : c < next

\* What is published, or about to be, is complete.
Filled ==
  /\ \A t \in Worker : pc[t] = "publish" => payload[idx[t]] = FinalBody
  /\ \A c \in ready : payload[c] = FinalBody

\* The stream so far.
Fed ==
  /\ main \in {"dag", "postprocess", "freeze", "lock", "open"} => Len(stream) = 0
  /\ main \in {"dag", "lock", "open", "joinSpawner"} => at = 0
  /\ main = "consume" => Len(stream) = at /\ at < Chunks
  /\ main \in {"joinSpawner", "joinWorkers", "done"} => Len(stream) = Chunks
  /\ \A k \in 1 .. Len(stream) : stream[k] = [chunk |-> k - 1, body |-> FinalBody]

\* The joins.
Joined ==
  /\ spawner = "exited" => created = Threads
  /\ main \in {"joinWorkers", "done"} => spawner = "exited"
  /\ main = "joinWorkers" => at < Threads

IInv ==
  /\ TypeOK /\ Latched /\ Prepared /\ Claimed /\ Filled /\ Fed /\ Joined

\* The invariant holds at the start.
LEMMA InitIInv == Init => IInv
<1> SUFFICES ASSUME Init PROVE IInv
  OBVIOUS
<1>1. TypeOK
  <2>1. stream \in Seq([chunk : Chunk, body : Body])
    BY DEF Init
  <2>2. payload \in [Chunk -> Body]
    BY DEF Init, Unwritten, Body
  <2>3. pc \in [Worker -> {"unborn", "lock", "test", "wait", "claim", "serialize",
                          "publish", "exited"}]
    BY DEF Init
  <2>4. idx \in [Worker -> Nat]
    BY DEF Init
  <2>5. at \in Nat /\ next \in Nat /\ created \in 0 .. Threads /\ spurious \in 0 .. MaxSpurious
    BY DEF Init
  <2>6. owner \in Worker \cup {Main, Nobody} /\ go \in BOOLEAN
    BY DEF Init
  <2>7. final \in SUBSET Chunk /\ frozen \in SUBSET Chunk /\ ready \in SUBSET Chunk
    BY DEF Init
  <2>8. /\ main \in {"dag", "postprocess", "freeze", "lock", "open", "consume",
                    "joinSpawner", "joinWorkers", "done"}
        /\ spawner \in {"unborn", "running", "exited"}
    BY DEF Init
  <2> QED BY <2>1, <2>2, <2>3, <2>4, <2>5, <2>6, <2>7, <2>8 DEF TypeOK
<1>2. Latched /\ Claimed /\ Filled
  BY DEF Init, Latched, Claimed, Filled, Busy, Late
<1>3. Prepared /\ Fed /\ Joined
  BY DEF Init, Prepared, Fed, Joined, Late
<1> QED BY <1>1, <1>2, <1>3 DEF IInv

\* Every step of the pipeline keeps the invariant.
LEMMA StepIInv == IInv /\ [Next]_vars => IInv'
<1> SUFFICES ASSUME IInv, [Next]_vars PROVE IInv'
  OBVIOUS
<1>0. TypeOK /\ Latched /\ Prepared /\ Claimed /\ Filled /\ Fed /\ Joined
  BY DEF IInv
<1>1. CASE StartSpawner
  <2>1. TypeOK'
    BY <1>0, <1>1 DEF StartSpawner, mainVars, workVars, TypeOK, Body, Chunk, Worker, Main, Nobody
  <2>2. Latched'
    BY <1>0, <1>1 DEF StartSpawner, mainVars, workVars, Latched, TypeOK, Late, Worker
  <2>3. Prepared'
    BY <1>0, <1>1 DEF StartSpawner, mainVars, workVars, Prepared, TypeOK, Latched, Late, Chunk
  <2>4. Claimed'
    BY <1>0, <1>1 DEF StartSpawner, mainVars, workVars, Claimed, Busy, TypeOK, Latched, Chunk, Worker, Late
  <2>5. Filled'
    BY <1>0, <1>1 DEF StartSpawner, mainVars, workVars, Filled, Claimed, Prepared, Busy, TypeOK, Latched, FinalBody, Chunk, Worker, Late
  <2>6. Fed'
    BY <1>0, <1>1 DEF StartSpawner, mainVars, workVars, Fed, Filled, TypeOK, Late, Chunk
  <2>7. Joined'
    BY <1>0, <1>1 DEF StartSpawner, mainVars, workVars, Joined, TypeOK, Fed, Late
  <2> QED BY <2>1, <2>2, <2>3, <2>4, <2>5, <2>6, <2>7 DEF IInv
<1>2. CASE Postprocess
  <2>1. TypeOK'
    BY <1>0, <1>2 DEF Postprocess, mainVars, workVars, TypeOK, Body, Chunk, Worker, Main, Nobody, Prepared
  <2>2. Latched'
    BY <1>0, <1>2 DEF Postprocess, mainVars, workVars, Latched, TypeOK, Late, Worker
  <2>3. Prepared'
    <3>1. at \in Nat /\ at < Chunks /\ final = 0 .. at - 1 /\ frozen = {}
      BY <1>0, <1>2 DEF Postprocess, Prepared, TypeOK
    <3>2. final' = 0 .. at /\ frozen' = frozen
      BY <3>1, <1>2 DEF Postprocess
    <3>3. CASE at + 1 < Chunks
      BY <3>1, <3>2, <3>3, <1>2 DEF Postprocess, Prepared, Late
    <3>4. CASE ~ (at + 1 < Chunks)
      BY <3>1, <3>2, <3>4, <1>2 DEF Postprocess, Prepared, Chunk, Late
    <3> QED BY <3>3, <3>4
  <2>4. Claimed'
    BY <1>0, <1>2 DEF Postprocess, mainVars, workVars, Claimed, Busy, TypeOK, Latched, Chunk, Worker, Late
  <2>5. Filled'
    BY <1>0, <1>2 DEF Postprocess, mainVars, workVars, Filled, Claimed, Prepared, Busy, TypeOK, Latched, FinalBody, Chunk, Worker, Late
  <2>6. Fed'
    BY <1>0, <1>2 DEF Postprocess, mainVars, workVars, Fed, Filled, TypeOK, Late, Chunk
  <2>7. Joined'
    BY <1>0, <1>2 DEF Postprocess, mainVars, workVars, Joined, TypeOK, Fed, Late
  <2> QED BY <2>1, <2>2, <2>3, <2>4, <2>5, <2>6, <2>7 DEF IInv
<1>3. CASE Freeze
  <2>1. TypeOK'
    BY <1>0, <1>3 DEF Freeze, mainVars, workVars, TypeOK, Body, Chunk, Worker, Main, Nobody, Prepared
  <2>2. Latched'
    BY <1>0, <1>3 DEF Freeze, mainVars, workVars, Latched, TypeOK, Late, Worker
  <2>3. Prepared'
    BY <1>0, <1>3 DEF Freeze, mainVars, workVars, Prepared, TypeOK, Latched, Late, Chunk
  <2>4. Claimed'
    BY <1>0, <1>3 DEF Freeze, mainVars, workVars, Claimed, Busy, TypeOK, Latched, Chunk, Worker, Late
  <2>5. Filled'
    BY <1>0, <1>3 DEF Freeze, mainVars, workVars, Filled, Claimed, Prepared, Busy, TypeOK, Latched, FinalBody, Chunk, Worker, Late
  <2>6. Fed'
    BY <1>0, <1>3 DEF Freeze, mainVars, workVars, Fed, Filled, TypeOK, Late, Chunk
  <2>7. Joined'
    BY <1>0, <1>3 DEF Freeze, mainVars, workVars, Joined, TypeOK, Fed, Late
  <2> QED BY <2>1, <2>2, <2>3, <2>4, <2>5, <2>6, <2>7 DEF IInv
<1>4. CASE LockLatch
  <2>1. TypeOK'
    BY <1>0, <1>4 DEF LockLatch, mainVars, workVars, TypeOK, Body, Chunk, Worker, Main, Nobody
  <2>2. Latched'
    BY <1>0, <1>4 DEF LockLatch, mainVars, workVars, Latched, TypeOK, Late, Worker
  <2>3. Prepared'
    BY <1>0, <1>4 DEF LockLatch, mainVars, workVars, Prepared, TypeOK, Latched, Late, Chunk
  <2>4. Claimed'
    BY <1>0, <1>4 DEF LockLatch, mainVars, workVars, Claimed, Busy, TypeOK, Latched, Chunk, Worker, Late
  <2>5. Filled'
    BY <1>0, <1>4 DEF LockLatch, mainVars, workVars, Filled, Claimed, Prepared, Busy, TypeOK, Latched, FinalBody, Chunk, Worker, Late
  <2>6. Fed'
    BY <1>0, <1>4 DEF LockLatch, mainVars, workVars, Fed, Filled, TypeOK, Late, Chunk
  <2>7. Joined'
    BY <1>0, <1>4 DEF LockLatch, mainVars, workVars, Joined, TypeOK, Fed, Late
  <2> QED BY <2>1, <2>2, <2>3, <2>4, <2>5, <2>6, <2>7 DEF IInv
<1>5. CASE OpenLatch
  <2>1. TypeOK'
    BY <1>0, <1>5 DEF OpenLatch, mainVars, workVars, TypeOK, Body, Chunk, Worker, Main, Nobody
  <2>2. Latched'
    BY <1>0, <1>5 DEF OpenLatch, mainVars, workVars, Latched, TypeOK, Late, Worker
  <2>3. Prepared'
    BY <1>0, <1>5 DEF OpenLatch, mainVars, workVars, Prepared, TypeOK, Latched, Late, Chunk
  <2>4. Claimed'
    BY <1>0, <1>5 DEF OpenLatch, mainVars, workVars, Claimed, Busy, TypeOK, Latched, Chunk, Worker, Late
  <2>5. Filled'
    BY <1>0, <1>5 DEF OpenLatch, mainVars, workVars, Filled, Claimed, Prepared, Busy, TypeOK, Latched, FinalBody, Chunk, Worker, Late
  <2>6. Fed'
    BY <1>0, <1>5 DEF OpenLatch, mainVars, workVars, Fed, Filled, TypeOK, Late, Chunk
  <2>7. Joined'
    BY <1>0, <1>5 DEF OpenLatch, mainVars, workVars, Joined, TypeOK, Fed, Late
  <2> QED BY <2>1, <2>2, <2>3, <2>4, <2>5, <2>6, <2>7 DEF IInv
<1>6. CASE Consume
  <2>1. TypeOK'
    BY <1>0, <1>6 DEF Consume, mainVars, workVars, TypeOK, Body, Chunk, Worker, Main, Nobody, AfterLast
  <2>2. Latched'
    BY <1>0, <1>6 DEF Consume, mainVars, workVars, Latched, TypeOK, Late, Worker, AfterLast
  <2>3. Prepared'
    BY <1>0, <1>6 DEF Consume, mainVars, workVars, Prepared, TypeOK, Latched, Late, Chunk, AfterLast
  <2>4. Claimed'
    BY <1>0, <1>6 DEF Consume, mainVars, workVars, Claimed, Busy, TypeOK, Latched, Chunk, Worker, Late, AfterLast
  <2>5. Filled'
    BY <1>0, <1>6 DEF Consume, mainVars, workVars, Filled, Claimed, Prepared, Busy, TypeOK, Latched, FinalBody, Chunk, Worker, Late, AfterLast
  <2>6. Fed'
    BY <1>0, <1>6 DEF Consume, mainVars, workVars, Fed, Filled, TypeOK, Late, Chunk, AfterLast
  <2>7. Joined'
    BY <1>0, <1>6 DEF Consume, mainVars, workVars, Joined, TypeOK, Fed, Late, AfterLast
  <2> QED BY <2>1, <2>2, <2>3, <2>4, <2>5, <2>6, <2>7 DEF IInv
<1>7. CASE JoinSpawner
  <2>1. TypeOK'
    BY <1>0, <1>7 DEF JoinSpawner, mainVars, workVars, TypeOK, Body, Chunk, Worker, Main, Nobody
  <2>2. Latched'
    BY <1>0, <1>7 DEF JoinSpawner, mainVars, workVars, Latched, TypeOK, Late, Worker
  <2>3. Prepared'
    BY <1>0, <1>7 DEF JoinSpawner, mainVars, workVars, Prepared, TypeOK, Latched, Late, Chunk
  <2>4. Claimed'
    BY <1>0, <1>7 DEF JoinSpawner, mainVars, workVars, Claimed, Busy, TypeOK, Latched, Chunk, Worker, Late
  <2>5. Filled'
    BY <1>0, <1>7 DEF JoinSpawner, mainVars, workVars, Filled, Claimed, Prepared, Busy, TypeOK, Latched, FinalBody, Chunk, Worker, Late
  <2>6. Fed'
    BY <1>0, <1>7 DEF JoinSpawner, mainVars, workVars, Fed, Filled, TypeOK, Late, Chunk
  <2>7. Joined'
    BY <1>0, <1>7 DEF JoinSpawner, mainVars, workVars, Joined, TypeOK, Fed, Late
  <2> QED BY <2>1, <2>2, <2>3, <2>4, <2>5, <2>6, <2>7 DEF IInv
<1>8. CASE JoinWorker
  <2>1. TypeOK'
    BY <1>0, <1>8 DEF JoinWorker, mainVars, workVars, TypeOK, Body, Chunk, Worker, Main, Nobody
  <2>2. Latched'
    BY <1>0, <1>8 DEF JoinWorker, mainVars, workVars, Latched, TypeOK, Late, Worker
  <2>3. Prepared'
    BY <1>0, <1>8 DEF JoinWorker, mainVars, workVars, Prepared, TypeOK, Latched, Late, Chunk
  <2>4. Claimed'
    BY <1>0, <1>8 DEF JoinWorker, mainVars, workVars, Claimed, Busy, TypeOK, Latched, Chunk, Worker, Late
  <2>5. Filled'
    BY <1>0, <1>8 DEF JoinWorker, mainVars, workVars, Filled, Claimed, Prepared, Busy, TypeOK, Latched, FinalBody, Chunk, Worker, Late
  <2>6. Fed'
    BY <1>0, <1>8 DEF JoinWorker, mainVars, workVars, Fed, Filled, TypeOK, Late, Chunk
  <2>7. Joined'
    BY <1>0, <1>8 DEF JoinWorker, mainVars, workVars, Joined, TypeOK, Fed, Late
  <2> QED BY <2>1, <2>2, <2>3, <2>4, <2>5, <2>6, <2>7 DEF IInv
<1>9. CASE Create
  <2>1. TypeOK'
    BY <1>0, <1>9 DEF Create, mainVars, workVars, TypeOK, Body, Chunk, Worker, Main, Nobody
  <2>2. Latched'
    BY <1>0, <1>9 DEF Create, mainVars, workVars, Latched, TypeOK, Late, Worker
  <2>3. Prepared'
    BY <1>0, <1>9 DEF Create, mainVars, workVars, Prepared, TypeOK, Latched, Late, Chunk
  <2>4. Claimed'
    BY <1>0, <1>9 DEF Create, mainVars, workVars, Claimed, Busy, TypeOK, Latched, Chunk, Worker, Late
  <2>5. Filled'
    BY <1>0, <1>9 DEF Create, mainVars, workVars, Filled, Claimed, Prepared, Busy, TypeOK, Latched, FinalBody, Chunk, Worker, Late
  <2>6. Fed'
    BY <1>0, <1>9 DEF Create, mainVars, workVars, Fed, Filled, TypeOK, Late, Chunk
  <2>7. Joined'
    BY <1>0, <1>9 DEF Create, mainVars, workVars, Joined, TypeOK, Fed, Late
  <2> QED BY <2>1, <2>2, <2>3, <2>4, <2>5, <2>6, <2>7 DEF IInv
<1>10. CASE SpawnerExit
  <2>1. TypeOK'
    BY <1>0, <1>10 DEF SpawnerExit, mainVars, workVars, TypeOK, Body, Chunk, Worker, Main, Nobody
  <2>2. Latched'
    BY <1>0, <1>10 DEF SpawnerExit, mainVars, workVars, Latched, TypeOK, Late, Worker
  <2>3. Prepared'
    BY <1>0, <1>10 DEF SpawnerExit, mainVars, workVars, Prepared, TypeOK, Latched, Late, Chunk
  <2>4. Claimed'
    BY <1>0, <1>10 DEF SpawnerExit, mainVars, workVars, Claimed, Busy, TypeOK, Latched, Chunk, Worker, Late
  <2>5. Filled'
    BY <1>0, <1>10 DEF SpawnerExit, mainVars, workVars, Filled, Claimed, Prepared, Busy, TypeOK, Latched, FinalBody, Chunk, Worker, Late
  <2>6. Fed'
    BY <1>0, <1>10 DEF SpawnerExit, mainVars, workVars, Fed, Filled, TypeOK, Late, Chunk
  <2>7. Joined'
    BY <1>0, <1>10 DEF SpawnerExit, mainVars, workVars, Joined, TypeOK, Fed, Late
  <2> QED BY <2>1, <2>2, <2>3, <2>4, <2>5, <2>6, <2>7 DEF IInv
<1>11. ASSUME NEW t \in Worker, Lock(t) PROVE IInv'
  <2>1. TypeOK'
    BY <1>0, <1>11 DEF Lock, mainVars, workVars, TypeOK, Body, Chunk, Worker, Main, Nobody
  <2>2. Latched'
    BY <1>0, <1>11 DEF Lock, mainVars, workVars, Latched, TypeOK, Late, Worker
  <2>3. Prepared'
    BY <1>0, <1>11 DEF Lock, mainVars, workVars, Prepared, TypeOK, Latched, Late, Chunk
  <2>4. Claimed'
    BY <1>0, <1>11 DEF Lock, mainVars, workVars, Claimed, Busy, TypeOK, Latched, Chunk, Worker, Late
  <2>5. Filled'
    BY <1>0, <1>11 DEF Lock, mainVars, workVars, Filled, Claimed, Prepared, Busy, TypeOK, Latched, FinalBody, Chunk, Worker, Late
  <2>6. Fed'
    BY <1>0, <1>11 DEF Lock, mainVars, workVars, Fed, Filled, TypeOK, Late, Chunk
  <2>7. Joined'
    BY <1>0, <1>11 DEF Lock, mainVars, workVars, Joined, TypeOK, Fed, Late
  <2> QED BY <2>1, <2>2, <2>3, <2>4, <2>5, <2>6, <2>7 DEF IInv
<1>12. ASSUME NEW t \in Worker, Test(t) PROVE IInv'
  <2>1. TypeOK'
    BY <1>0, <1>12 DEF Test, mainVars, workVars, TypeOK, Body, Chunk, Worker, Main, Nobody
  <2>2. Latched'
    BY <1>0, <1>12 DEF Test, mainVars, workVars, Latched, TypeOK, Late, Worker
  <2>3. Prepared'
    BY <1>0, <1>12 DEF Test, mainVars, workVars, Prepared, TypeOK, Latched, Late, Chunk
  <2>4. Claimed'
    BY <1>0, <1>12 DEF Test, mainVars, workVars, Claimed, Busy, TypeOK, Latched, Chunk, Worker, Late
  <2>5. Filled'
    BY <1>0, <1>12 DEF Test, mainVars, workVars, Filled, Claimed, Prepared, Busy, TypeOK, Latched, FinalBody, Chunk, Worker, Late
  <2>6. Fed'
    BY <1>0, <1>12 DEF Test, mainVars, workVars, Fed, Filled, TypeOK, Late, Chunk
  <2>7. Joined'
    BY <1>0, <1>12 DEF Test, mainVars, workVars, Joined, TypeOK, Fed, Late
  <2> QED BY <2>1, <2>2, <2>3, <2>4, <2>5, <2>6, <2>7 DEF IInv
<1>13. ASSUME NEW t \in Worker, Claim(t) PROVE IInv'
  <2>1. TypeOK'
    BY <1>0, <1>13 DEF Claim, mainVars, workVars, TypeOK, Body, Chunk, Worker, Main, Nobody
  <2>2. Latched'
    BY <1>0, <1>13 DEF Claim, mainVars, workVars, Latched, TypeOK, Late, Worker
  <2>3. Prepared'
    BY <1>0, <1>13 DEF Claim, mainVars, workVars, Prepared, TypeOK, Latched, Late, Chunk
  <2>4. Claimed'
    BY <1>0, <1>13 DEF Claim, mainVars, workVars, Claimed, Busy, TypeOK, Latched, Chunk, Worker, Late
  <2>5. Filled'
    BY <1>0, <1>13 DEF Claim, mainVars, workVars, Filled, Claimed, Prepared, Busy, TypeOK, Latched, FinalBody, Chunk, Worker, Late
  <2>6. Fed'
    BY <1>0, <1>13 DEF Claim, mainVars, workVars, Fed, Filled, TypeOK, Late, Chunk
  <2>7. Joined'
    BY <1>0, <1>13 DEF Claim, mainVars, workVars, Joined, TypeOK, Fed, Late
  <2> QED BY <2>1, <2>2, <2>3, <2>4, <2>5, <2>6, <2>7 DEF IInv
<1>14. ASSUME NEW t \in Worker, Serialize(t) PROVE IInv'
  <2>1. TypeOK'
    BY <1>0, <1>14 DEF Serialize, mainVars, workVars, TypeOK, Body, Chunk, Worker, Main, Nobody, Claimed, Busy
  <2>2. Latched'
    BY <1>0, <1>14 DEF Serialize, mainVars, workVars, Latched, TypeOK, Late, Worker
  <2>3. Prepared'
    BY <1>0, <1>14 DEF Serialize, mainVars, workVars, Prepared, TypeOK, Latched, Late, Chunk
  <2>4. Claimed'
    BY <1>0, <1>14 DEF Serialize, mainVars, workVars, Claimed, Busy, TypeOK, Latched, Chunk, Worker, Late
  <2>5. Filled'
    BY <1>0, <1>14 DEF Serialize, mainVars, workVars, Filled, Claimed, Prepared, Busy, TypeOK, Latched, FinalBody, Chunk, Worker, Late
  <2>6. Fed'
    BY <1>0, <1>14 DEF Serialize, mainVars, workVars, Fed, Filled, TypeOK, Late, Chunk
  <2>7. Joined'
    BY <1>0, <1>14 DEF Serialize, mainVars, workVars, Joined, TypeOK, Fed, Late
  <2> QED BY <2>1, <2>2, <2>3, <2>4, <2>5, <2>6, <2>7 DEF IInv
<1>15. ASSUME NEW t \in Worker, Publish(t) PROVE IInv'
  <2>1. TypeOK'
    BY <1>0, <1>15 DEF Publish, mainVars, workVars, TypeOK, Body, Chunk, Worker, Main, Nobody, Claimed, Busy
  <2>2. Latched'
    BY <1>0, <1>15 DEF Publish, mainVars, workVars, Latched, TypeOK, Late, Worker
  <2>3. Prepared'
    BY <1>0, <1>15 DEF Publish, mainVars, workVars, Prepared, TypeOK, Latched, Late, Chunk
  <2>4. Claimed'
    BY <1>0, <1>15 DEF Publish, mainVars, workVars, Claimed, Busy, TypeOK, Latched, Chunk, Worker, Late
  <2>5. Filled'
    BY <1>0, <1>15 DEF Publish, mainVars, workVars, Filled, Claimed, Prepared, Busy, TypeOK, Latched, FinalBody, Chunk, Worker, Late
  <2>6. Fed'
    BY <1>0, <1>15 DEF Publish, mainVars, workVars, Fed, Filled, TypeOK, Late, Chunk
  <2>7. Joined'
    BY <1>0, <1>15 DEF Publish, mainVars, workVars, Joined, TypeOK, Fed, Late
  <2> QED BY <2>1, <2>2, <2>3, <2>4, <2>5, <2>6, <2>7 DEF IInv
<1>16. ASSUME NEW t \in Worker, WakeSpuriously(t) PROVE IInv'
  <2>1. TypeOK'
    BY <1>0, <1>16 DEF WakeSpuriously, mainVars, workVars, TypeOK, Body, Chunk, Worker, Main, Nobody
  <2>2. Latched'
    BY <1>0, <1>16 DEF WakeSpuriously, mainVars, workVars, Latched, TypeOK, Late, Worker
  <2>3. Prepared'
    BY <1>0, <1>16 DEF WakeSpuriously, mainVars, workVars, Prepared, TypeOK, Latched, Late, Chunk
  <2>4. Claimed'
    BY <1>0, <1>16 DEF WakeSpuriously, mainVars, workVars, Claimed, Busy, TypeOK, Latched, Chunk, Worker, Late
  <2>5. Filled'
    BY <1>0, <1>16 DEF WakeSpuriously, mainVars, workVars, Filled, Claimed, Prepared, Busy, TypeOK, Latched, FinalBody, Chunk, Worker, Late
  <2>6. Fed'
    BY <1>0, <1>16 DEF WakeSpuriously, mainVars, workVars, Fed, Filled, TypeOK, Late, Chunk
  <2>7. Joined'
    BY <1>0, <1>16 DEF WakeSpuriously, mainVars, workVars, Joined, TypeOK, Fed, Late
  <2> QED BY <2>1, <2>2, <2>3, <2>4, <2>5, <2>6, <2>7 DEF IInv
<1>17. CASE UNCHANGED vars
  BY <1>0, <1>17 DEF IInv, vars, TypeOK, Latched, Prepared, Claimed, Busy, Filled, Fed, Joined
<1> QED BY <1>1, <1>2, <1>3, <1>4, <1>5, <1>6, <1>7, <1>8, <1>9, <1>10, <1>11, <1>12, <1>13, <1>14, <1>15, <1>16, <1>17 DEF Next, MainStep, WorkerStep

\* The invariant holds in every behaviour.
THEOREM SpecIInv == Spec => []IInv
<1> QED BY InitIInv, StepIInv, PTL DEF Spec

-----------------------------------------------------------------------------
\* Types: the spawner never creates a worker it has no slot for.
THEOREM TypeCorrect == Spec => []TypeOK
<1>1. IInv => TypeOK
  BY DEF IInv
<1> QED BY SpecIInv, <1>1, PTL

\* No worker reads what the main thread may still write, no two workers write
\* one payload, and no payload is read before its worker is through.
THEOREM RaceFree == Spec => []NoRace
<1>1. ASSUME IInv PROVE NoRace
  <2> USE <1>1 DEF IInv
  <2>1. ASSUME NEW t \in Worker, Serializing(t)
        PROVE  main \notin {"dag", "postprocess", "freeze"}
    BY <2>1 DEF Latched, Serializing, Late
  <2>2. ASSUME NEW t \in Worker, NEW u \in Worker, t # u, Serializing(t), Serializing(u)
        PROVE  idx[t] # idx[u]
    BY <2>2 DEF Claimed, Busy, Serializing
  <2>3. ASSUME at \in ready, NEW t \in Worker, Serializing(t)
        PROVE  idx[t] # at
    BY <2>3 DEF Claimed, Busy, Serializing
  <2> QED BY <2>1, <2>2, <2>3 DEF NoRace
<1> QED BY SpecIInv, <1>1, PTL

\* The main thread joins only threads whose identifier has been written.
THEOREM JoinsCorrect == Spec => []JoinsKnownThread
<1>1. IInv => JoinsKnownThread
  BY DEF IInv, JoinsKnownThread, Joined
<1> QED BY SpecIInv, <1>1, PTL

\* The FREE pipeline feeds the hash the stream of the REPLAY loop: the initial
\* states correspond, and every step is a turn of that loop or changes nothing.
THEOREM StreamIsReplay == Spec => ImplementsReplay
<1>1. Init => Replay!Init
  BY DEF Init, Replay!Init
<1>2. ASSUME IInv, [Next]_vars PROVE [Replay!Emit]_stream
  <2> USE <1>2 DEF IInv
  <2>1. CASE Consume
    <3>1. at = Len(stream) /\ at < Chunks
      BY <2>1 DEF Consume, Fed
    <3>2. payload[at] = Replay!FinalBody
      BY <2>1 DEF Consume, Filled, FinalBody, Replay!FinalBody
    <3> QED BY <3>1, <3>2, <2>1 DEF Consume, Replay!Emit
  <2>2. CASE ~ Consume
    <3>1. UNCHANGED stream
      BY <1>2, <2>2 DEF Next, MainStep, WorkerStep, vars, mainVars, StartSpawner,
           Postprocess, Freeze, LockLatch, OpenLatch, JoinSpawner, JoinWorker, Create,
           SpawnerExit, Lock, Test, Claim, Serialize, Publish, WakeSpuriously
    <3> QED BY <3>1
  <2> QED BY <2>1, <2>2
<1> QED BY SpecIInv, <1>1, <1>2, PTL DEF Spec, ImplementsReplay, Replay!Spec

\* No thread reads what another has not handed over to it.
THEOREM HandoverCorrect == Spec => []HandedOver
BY RaceFree, JoinsCorrect, PTL DEF HandedOver
===============================================================================
