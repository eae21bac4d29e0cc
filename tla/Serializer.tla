----------------------------- MODULE Serializer -----------------------------
(***************************************************************************)
(* The serialization pipeline of the FREE mode                             *)
(* (bench/hyperchunk_bench.c): the main thread starts a spawner right      *)
(* after the event graph, the spawner creates the workers while the main   *)
(* thread still postprocesses and freezes the light, the workers wait at a *)
(* latch, claim chunks from an atomic counter and publish each one with a  *)
(* release flag; the main thread opens the latch, consumes the chunks in   *)
(* order and joins everybody.  A data race would make the order of memory  *)
(* matter; NoRace shows there is none, so the interleaving of steps is     *)
(* all there is.                                                           *)
(***************************************************************************)
EXTENDS Integers, Sequences, FiniteSets

CONSTANTS
  Chunks,       \* chunks of the region, 1024 in the code
  Threads,      \* workers, nthreads in the code
  MaxSpurious   \* bound: spurious wakeups of a condition variable

ASSUME SerializerAssumption ==
  /\ Chunks \in Nat \ {0}
  /\ Threads \in Nat \ {0}
  /\ MaxSpurious \in Nat

Chunk == 0 .. Chunks - 1
Worker == 0 .. Threads - 1
Main == -1     \* as the owner of the mutex
Nobody == -2

VARIABLES
  main,      \* where the main thread is
  at,        \* its loop counter
  final,     \* chunks whose postprocessing is over
  frozen,    \* chunks whose light is frozen (the array frozen[])
  spawner,   \* "unborn", "running" or "exited"
  created,   \* workers created so far; g_ser_tids below it are written
  pc,        \* where each worker is
  idx,       \* the chunk a worker has claimed
  next,      \* g_ser_next
  owner,     \* who holds g_ser_mu
  go,        \* g_ser_go, the latch
  spurious,  \* spurious wakeups so far
  payload,   \* g_ser_payload and g_ser_plen
  ready,     \* g_ser_done
  stream     \* what the hash has been fed

mainVars == <<main, at, final, frozen, stream>>
workVars == <<pc, idx, next, payload, ready>>
vars == <<main, at, final, frozen, spawner, created, pc, idx, next, owner, go,
          spurious, payload, ready, stream>>

Body == [blocks : BOOLEAN, light : BOOLEAN]
Unwritten == [blocks |-> FALSE, light |-> FALSE]

(* Types; the spawner creates no more workers than there are slots for     *)
(* (g_ser_tids, g_ser_job).                                                *)
TypeOK ==
  /\ main \in {"dag", "postprocess", "freeze", "lock", "open", "consume",
               "joinSpawner", "joinWorkers", "done"}
  /\ at \in Nat
  /\ final \in SUBSET Chunk /\ frozen \in SUBSET Chunk
  /\ spawner \in {"unborn", "running", "exited"}
  /\ created \in 0 .. Threads
  /\ pc \in [Worker -> {"unborn", "lock", "test", "wait", "claim", "serialize",
                        "publish", "exited"}]
  /\ idx \in [Worker -> Nat]
  /\ next \in Nat
  /\ owner \in Worker \cup {Main, Nobody}
  /\ go \in BOOLEAN
  /\ spurious \in 0 .. MaxSpurious
  /\ payload \in [Chunk -> Body]
  /\ ready \in SUBSET Chunk
  /\ stream \in Seq([chunk : Chunk, body : Body])

Init ==
  /\ main = "dag" /\ at = 0
  /\ final = {} /\ frozen = {}
  /\ spawner = "unborn" /\ created = 0
  /\ pc = [t \in Worker |-> "unborn"]
  /\ idx = [t \in Worker |-> 0]
  /\ next = 0 /\ owner = Nobody /\ go = FALSE /\ spurious = 0
  /\ payload = [c \in Chunk |-> Unwritten]
  /\ ready = {}
  /\ stream = <<>>

-----------------------------------------------------------------------------
(* The main thread. *)

\* After the graph: the counter is reset and the spawner started.
StartSpawner ==
  /\ main = "dag"
  /\ main' = "postprocess" /\ at' = 0
  /\ next' = 0
  /\ spawner' = "running"
  /\ UNCHANGED <<final, frozen, stream, created, pc, idx, owner, go, spurious,
                 payload, ready>>

\* The postprocess loop changes the blocks of one chunk after another.
Postprocess ==
  /\ main = "postprocess"
  /\ final' = final \cup {at}
  /\ IF at + 1 < Chunks THEN at' = at + 1 /\ UNCHANGED main
     ELSE at' = 0 /\ main' = "freeze"
  /\ UNCHANGED <<frozen, stream, spawner, created, workVars, owner, go, spurious>>

\* The last flush and prepare, then the copies into frozen[].
Freeze ==
  /\ main = "freeze"
  /\ frozen' = frozen \cup {at}
  /\ IF at + 1 < Chunks THEN at' = at + 1 /\ UNCHANGED main
     ELSE at' = 0 /\ main' = "lock"
  /\ UNCHANGED <<final, stream, spawner, created, workVars, owner, go, spurious>>

LockLatch ==
  /\ main = "lock" /\ owner = Nobody
  /\ owner' = Main /\ main' = "open"
  /\ UNCHANGED <<at, final, frozen, stream, spawner, created, workVars, go, spurious>>

\* mutant of OpenLatch: the flag without the broadcast
OpenSilently ==
  /\ main = "open"
  /\ go' = TRUE
  /\ owner' = Nobody /\ main' = "consume"
  /\ UNCHANGED <<at, final, frozen, stream, spawner, created, workVars, spurious>>

\* The flag, the broadcast and the unlock; nobody else runs under the mutex.
OpenLatch ==
  /\ main = "open"
  /\ go' = TRUE
  /\ pc' = [t \in Worker |-> IF pc[t] = "wait" THEN "lock" ELSE pc[t]]
  /\ owner' = Nobody /\ main' = "consume"
  /\ UNCHANGED <<at, final, frozen, stream, spawner, created, idx, next, payload,
                 ready, spurious>>

\* Where the main thread goes after the last chunk.
AfterLast == "joinSpawner"

\* Waits for the flag of the next chunk, then hashes its payload.
Consume ==
  /\ main = "consume" /\ at \in ready
  /\ stream' = Append(stream, [chunk |-> at, body |-> payload[at]])
  /\ IF at + 1 < Chunks THEN at' = at + 1 /\ UNCHANGED main
     ELSE at' = 0 /\ main' = AfterLast
  /\ UNCHANGED <<final, frozen, spawner, created, workVars, owner, go, spurious>>

JoinSpawner ==
  /\ main = "joinSpawner" /\ spawner = "exited"
  /\ main' = "joinWorkers"
  /\ UNCHANGED <<at, final, frozen, stream, spawner, created, workVars, owner, go, spurious>>

JoinWorker ==
  /\ main = "joinWorkers" /\ pc[at] = "exited"
  /\ at' = at + 1
  /\ main' = IF at + 1 < Threads THEN main ELSE "done"
  /\ UNCHANGED <<final, frozen, stream, spawner, created, workVars, owner, go, spurious>>

MainStep ==
  \/ StartSpawner \/ Postprocess \/ Freeze \/ LockLatch \/ OpenLatch
  \/ Consume \/ JoinSpawner \/ JoinWorker

-----------------------------------------------------------------------------
(* The spawner. *)

Create ==
  /\ spawner = "running" /\ created < Threads
  /\ pc' = [pc EXCEPT ![created] = "lock"]
  /\ created' = created + 1
  /\ UNCHANGED <<mainVars, spawner, idx, next, payload, ready, owner, go, spurious>>

SpawnerExit ==
  /\ spawner = "running" /\ created = Threads
  /\ spawner' = "exited"
  /\ UNCHANGED <<mainVars, created, workVars, owner, go, spurious>>

-----------------------------------------------------------------------------
(* A worker. *)

Lock(t) ==
  /\ pc[t] = "lock" /\ owner = Nobody
  /\ owner' = t
  /\ pc' = [pc EXCEPT ![t] = "test"]
  /\ UNCHANGED <<mainVars, spawner, created, idx, next, payload, ready, go, spurious>>

\* mutant of Test: the latch is not looked at
TestNothing(t) ==
  /\ pc[t] = "test"
  /\ pc' = [pc EXCEPT ![t] = "claim"]
  /\ owner' = Nobody
  /\ UNCHANGED <<mainVars, spawner, created, idx, next, payload, ready, go, spurious>>

\* The latch is open: on to the chunks.  It is shut: wait, giving up the mutex.
Test(t) ==
  /\ pc[t] = "test"
  /\ pc' = [pc EXCEPT ![t] = IF go THEN "claim" ELSE "wait"]
  /\ owner' = Nobody
  /\ UNCHANGED <<mainVars, spawner, created, idx, next, payload, ready, go, spurious>>

\* A condition variable may wake a thread that nobody signalled.
WakeSpuriously(t) ==
  /\ pc[t] = "wait" /\ spurious < MaxSpurious
  /\ spurious' = spurious + 1
  /\ pc' = [pc EXCEPT ![t] = "lock"]
  /\ UNCHANGED <<mainVars, spawner, created, idx, next, payload, ready, owner, go>>

\* mutant of Claim: the flag goes up with the claim, before the payload
ClaimPublishing(t) ==
  /\ pc[t] = "claim"
  /\ idx' = [idx EXCEPT ![t] = next]
  /\ next' = next + 1
  /\ ready' = IF next < Chunks THEN ready \cup {next} ELSE ready
  /\ pc' = [pc EXCEPT ![t] = IF next < Chunks THEN "serialize" ELSE "exited"]
  /\ UNCHANGED <<mainVars, spawner, created, payload, owner, go, spurious>>

\* The fetch-and-add, and the exit when the chunks are gone.
Claim(t) ==
  /\ pc[t] = "claim"
  /\ idx' = [idx EXCEPT ![t] = next]
  /\ next' = next + 1
  /\ pc' = [pc EXCEPT ![t] = IF next < Chunks THEN "serialize" ELSE "exited"]
  /\ UNCHANGED <<mainVars, spawner, created, payload, ready, owner, go, spurious>>

\* hc_chunk_to_nbt, from the blocks and the frozen light as they are now.
Serialize(t) ==
  /\ pc[t] = "serialize"
  /\ payload' = [payload EXCEPT ![idx[t]] =
                   [blocks |-> idx[t] \in final, light |-> idx[t] \in frozen]]
  /\ pc' = [pc EXCEPT ![t] = "publish"]
  /\ UNCHANGED <<mainVars, spawner, created, idx, next, ready, owner, go, spurious>>

Publish(t) ==
  /\ pc[t] = "publish"
  /\ ready' = ready \cup {idx[t]}
  /\ pc' = [pc EXCEPT ![t] = "claim"]
  /\ UNCHANGED <<mainVars, spawner, created, idx, next, payload, owner, go, spurious>>

WorkerStep(t) == Lock(t) \/ Test(t) \/ Claim(t) \/ Serialize(t) \/ Publish(t)

-----------------------------------------------------------------------------
Next ==
  \/ MainStep
  \/ Create \/ SpawnerExit
  \/ \E t \in Worker : WorkerStep(t) \/ WakeSpuriously(t)

\* Every thread keeps running; nothing obliges a condition variable to wake
\* spuriously.  Nobody holds the mutex for ever and each worker takes it
\* finitely often, so a thread that wants it gets it.
Spec ==
  /\ Init /\ [][Next]_vars
  /\ WF_vars(MainStep)
  /\ WF_vars(Create \/ SpawnerExit)
  /\ \A t \in Worker : WF_vars(WorkerStep(t))

-----------------------------------------------------------------------------
Serializing(t) == pc[t] = "serialize"

(* No data race: no worker reads blocks or light the main thread may still *)
(* write, no two workers write one payload, and the main thread reads a    *)
(* payload only after its worker is through with it (the mutex, the        *)
(* fetch-and-add and the release flag are the only synchronization).       *)
NoRace ==
  /\ \A t \in Worker :
       Serializing(t) => main \notin {"dag", "postprocess", "freeze"}
  /\ \A t, u \in Worker :
       t # u /\ Serializing(t) /\ Serializing(u) => idx[t] # idx[u]
  /\ main = "consume" /\ at \in ready =>
       \A t \in Worker : Serializing(t) => idx[t] # at

(* pthread_join gets only identifiers that pthread_create has written:     *)
(* the workers are created by another thread, maybe after the last chunk.  *)
JoinsKnownThread == main = "joinWorkers" => at < created

(* Whatever one thread reads of another has been handed over to it.        *)
HandedOver == NoRace /\ JoinsKnownThread

(* The hash is fed the stream of the REPLAY loop: every chunk, once, in    *)
(* index order, from final blocks and frozen light.                        *)
Replay == INSTANCE SerialStream
ImplementsReplay == Replay!Spec

(* The run ends with all of it, whenever the workers are born: before,     *)
(* while or after the latch opens.                                         *)
Finished == main = "done" /\ Len(stream) = Chunks
=============================================================================
