--------------------------- MODULE FreeDriverProofs ---------------------------
(***************************************************************************)
(* Proofs about the FREE driver (FreeDriver.tla), for every world, manifest *)
(* and set of structure pieces: the graph the bench builds orders its       *)
(* events well enough that, whatever the timing of the workers, callbacks   *)
(* that run together touch different data, the frozen-window filter tells   *)
(* the truth, and the light phases neither abort nor read stale geometry.   *)
(*                                                                          *)
(* The argument has three floors: the list of events is in key order (the   *)
(* lemmas about Ascending and Events), the keys put the right events before *)
(* one another (DecoBefore08, After08, Prepared), and an invariant of the   *)
(* execution carries that order over to what has been done (IInv).          *)
(***************************************************************************)
EXTENDS FreeDriver, FiniteSetTheorems, TLAPS

-----------------------------------------------------------------------------
(* Numbers.                                                                *)

\* A number of two digits to the base M is ordered by its first digit.
LEMMA TwoDigits ==
  ASSUME NEW M \in Nat, NEW a \in Nat, NEW b \in Nat, a < b,
         NEW r \in Nat, r < M, NEW s \in Nat
  PROVE  a * M + r < b * M + s
<1> DEFINE d == b - a - 1
<1>1. d \in Nat /\ b = a + 1 + d
  OBVIOUS
<1>2. d * M \in Nat /\ a * M \in Nat
  BY <1>1
<1>3. b * M = a * M + M + d * M
  BY <1>1
<1> QED
  BY <1>2, <1>3

\* Ascending lists each member of a finite set of numbers once, in order.
LEMMA AscendingFacts ==
  ASSUME NEW S \in SUBSET Nat, IsFiniteSet(S)
  PROVE  /\ Cardinality(S) \in Nat
         /\ Ascending(S) \in [1 .. Cardinality(S) -> S]
         /\ \A i, j \in 1 .. Cardinality(S) :
              i < j => Ascending(S)[i] < Ascending(S)[j]
         /\ \A x \in S : \E i \in 1 .. Cardinality(S) : Ascending(S)[i] = x
<1> DEFINE n == Cardinality(S)
           Below(x) == { y \in S : y < x }
           rank == [x \in S |-> Cardinality(Below(x)) + 1]
           a == Ascending(S)
<1>1. n \in Nat
  BY FS_CardinalityType
<1>2. \A x \in S : IsFiniteSet(Below(x)) /\ Cardinality(Below(x)) \in Nat
  BY FS_Subset, FS_CardinalityType
<1>3. \A x \in S : rank[x] \in 1 .. n
  <2> TAKE x \in S
  <2>1. IsFiniteSet(S \ {x}) /\ Cardinality(S \ {x}) = n - 1
    BY FS_RemoveElement
  <2>2. Below(x) \in SUBSET (S \ {x})
    OBVIOUS
  <2>3. Cardinality(Below(x)) <= n - 1
    BY <2>1, <2>2, FS_Subset
  <2>4. rank[x] = Cardinality(Below(x)) + 1
    OBVIOUS
  <2> HIDE DEF n, Below, rank
  <2> QED
    BY <1>1, <1>2, <2>3, <2>4
<1>4. \A x, y \in S : x < y => rank[x] < rank[y]
  <2> SUFFICES ASSUME NEW x \in S, NEW y \in S, x < y
               PROVE  rank[x] < rank[y]
    OBVIOUS
  <2>1. Cardinality(Below(x) \cup {x}) = Cardinality(Below(x)) + 1
    BY <1>2, FS_AddElement
  <2>2. Below(x) \cup {x} \in SUBSET Below(y)
    <3>1. \A z \in S : z < x => z < y
      OBVIOUS
    <3> QED
      BY <3>1
  <2>3. Cardinality(Below(x) \cup {x}) <= Cardinality(Below(y))
    BY <1>2, <2>2, FS_Subset
  <2> QED
    BY <1>2, <2>1, <2>3
<1>5. \A x, y \in S : rank[x] = rank[y] => x = y
  <2> SUFFICES ASSUME NEW x \in S, NEW y \in S, rank[x] = rank[y], x # y
               PROVE  FALSE
    OBVIOUS
  <2>1. x < y \/ y < x
    OBVIOUS
  <2>2. rank[x] \in Nat /\ rank[y] \in Nat
    BY <1>3, <1>1
  <2> HIDE DEF rank
  <2> QED
    BY <1>4, <2>1, <2>2
<1>6. IsFiniteSet(1 .. n) /\ Cardinality(1 .. n) = n
  BY <1>1, FS_Interval
<1>7. rank \in Injection(S, 1 .. n)
  BY <1>3, <1>5 DEF Injection, IsInjective
<1>8. rank \in Surjection(S, 1 .. n)
  BY <1>6, <1>7, FS_Injection
<1>9. \A k \in 1 .. n : \E x \in S : rank[x] = k
  BY <1>8 DEF Surjection
<1>10. \A k \in 1 .. n : a[k] \in S /\ rank[a[k]] = k
  <2> TAKE k \in 1 .. n
  <2>1. a[k] = CHOOSE x \in S : Cardinality(Below(x)) = k - 1
    BY DEF Ascending
  <2>2. PICK x \in S : rank[x] = k
    BY <1>9
  <2>3. Cardinality(Below(x)) = k - 1
    BY <1>2, <2>2
  <2>4. a[k] \in S /\ Cardinality(Below(a[k])) = k - 1
    BY <2>1, <2>3
  <2> QED
    BY <1>2, <2>4
<1>11. a \in [1 .. n -> S]
  BY <1>10 DEF Ascending
<1>12. \A i, j \in 1 .. n : i < j => a[i] < a[j]
  <2> SUFFICES ASSUME NEW i \in 1 .. n, NEW j \in 1 .. n, i < j
               PROVE  a[i] < a[j]
    OBVIOUS
  <2> HIDE DEF a, rank
  <2>1. a[i] \in Nat /\ a[j] \in Nat /\ rank[a[i]] = i /\ rank[a[j]] = j
    BY <1>10
  <2>2. ~ a[j] < a[i]
    BY <1>4, <1>10, <2>1
  <2>3. a[i] # a[j]
    BY <2>1
  <2> QED
    BY <2>1, <2>2, <2>3
<1>13. \A x \in S : \E i \in 1 .. n : a[i] = x
  BY <1>3, <1>5, <1>10
<1> QED
  BY <1>1, <1>11, <1>12, <1>13

\* No numbers, no list.
LEMMA AscendingEmpty == Ascending({}) = << >>
  BY FS_EmptySet DEF Ascending

-----------------------------------------------------------------------------
(* Chunks.                                                                 *)

\* The world is not empty in either direction, and a manifest lists chunks.
LEMMA WorldFacts ==
  /\ W \in Nat /\ D \in Nat /\ W > 0 /\ D > 0 /\ W * D \in Nat
  /\ Len(Manifest) \in Nat /\ DOMAIN Manifest = 1 .. Len(Manifest)
  /\ \A k \in DOMAIN Manifest : Manifest[k] \in Chunk
  /\ \A j, k \in DOMAIN Manifest : Manifest[j] = Manifest[k] => j = k
<1>1. W \in Nat /\ D \in Nat /\ W > 0 /\ D > 0
  BY WorldAssumption
<1>2. W * D \in Nat
  BY <1>1
<1>3. Manifest \in Seq(Chunk)
  BY WorldAssumption
<1>4. \A j, k \in DOMAIN Manifest : Manifest[j] = Manifest[k] => j = k
  BY WorldAssumption DEF IsInjective
<1> QED
  BY <1>1, <1>2, <1>3, <1>4

\* Each chunk has a cell of its own, among the first W * D.
LEMMA CellFacts ==
  /\ \A c \in Chunk : CellId(c) \in 0 .. W * D - 1
  /\ \A c, d \in Chunk : CellId(c) = CellId(d) => c = d
<1>1. \A c \in Chunk : c[1] \in 0 .. W - 1 /\ c[2] \in 0 .. D - 1
  BY DEF Chunk
<1>2. ASSUME NEW c \in Chunk
      PROVE  CellId(c) \in 0 .. W * D - 1
  <2>1. c[1] \in Nat /\ c[1] < W /\ c[2] \in Nat /\ c[2] < D
    BY <1>1, WorldFacts
  <2>2. c[2] * W + c[1] < D * W + 0
    BY <2>1, WorldFacts, TwoDigits
  <2>3. c[2] * W \in Nat
    BY <2>1, WorldFacts
  <2> QED
    BY <2>1, <2>2, <2>3, WorldFacts DEF CellId
<1>3. ASSUME NEW c \in Chunk, NEW d \in Chunk, CellId(c) = CellId(d)
      PROVE  c = d
  <2>1. /\ c[1] \in Nat /\ c[1] < W /\ c[2] \in Nat
        /\ d[1] \in Nat /\ d[1] < W /\ d[2] \in Nat
    BY <1>1, WorldFacts
  <2>2. c[2] * W + c[1] = d[2] * W + d[1]
    BY <1>3 DEF CellId
  <2>3. ~ c[2] < d[2] /\ ~ d[2] < c[2]
    <3>1. c[2] * W + c[1] \in Nat
      BY <2>1, WorldFacts
    <3>2. c[2] < d[2] => c[2] * W + c[1] < d[2] * W + d[1]
      BY <2>1, WorldFacts, TwoDigits
    <3>3. d[2] < c[2] => d[2] * W + d[1] < c[2] * W + c[1]
      BY <2>1, WorldFacts, TwoDigits
    <3> QED
      BY <2>2, <3>1, <3>2, <3>3
  <2>4. c[2] = d[2]
    BY <2>1, <2>3
  <2>5. c[1] = d[1]
    BY <2>1, <2>2, <2>4, WorldFacts
  <2> QED
    BY <2>4, <2>5 DEF Chunk
<1> QED
  BY <1>2, <1>3

\* Boxes hold their centre and grow with the radius.
LEMMA BoxFacts ==
  /\ \A c, r : Box(c, r) \subseteq Chunk
  /\ \A c \in Chunk : c \in Box(c, 0)
  /\ \A c \in Chunk : Box(c, 0) \subseteq Box(c, 1) /\ Box(c, 1) \subseteq Box(c, 2)
  /\ \A c \in Chunk, r \in 0 .. 2 : \A d \in Box(c, r) : c \in Box(d, r)
<1>1. \A c \in Chunk : c[1] \in Int /\ c[2] \in Int
  BY WorldFacts DEF Chunk
<1> QED
  BY <1>1 DEF Box

\* The buckets are the 25 residues.
LEMMA BucketFacts == \A c \in Chunk : Bucket(c) \in 0 .. 24
<1>1. \A c \in Chunk : c[1] \in Nat /\ c[2] \in Nat
  BY WorldFacts DEF Chunk
<1>2. \A n \in Nat : n % 5 \in 0 .. 4
  OBVIOUS
<1> QED
  BY <1>1, <1>2 DEF Bucket

\* Lightable chunks lie in the world, with their neighbourhood decorated by
\* then, and a chunk becomes lightable in one bucket only.
LEMMA NewlyFacts ==
  /\ \A b \in 0 .. 24 : \A c \in Newly(b) :
       /\ c \in Chunk
       /\ \A d \in Box(c, 1) : \E k \in DOMAIN Manifest :
            d = Manifest[k] /\ Bucket(d) <= b
  /\ \A a, b \in 0 .. 24 : \A c : c \in Newly(a) /\ c \in Newly(b) => a = b
<1>1. Decorated = { Manifest[k] : k \in DOMAIN Manifest }
  BY DEF Decorated, ToSet
<1>2. \A b \in 0 .. 24 : \A c \in Newly(b) :
        /\ c \in Chunk
        /\ \A d \in Box(c, 1) : \E k \in DOMAIN Manifest :
             d = Manifest[k] /\ Bucket(d) <= b
  BY <1>1 DEF Newly, Pyramid, Interior, Has08
<1>3. \A a, b \in -1 .. 24 : a <= b => Has08(a) \subseteq Has08(b)
  <2>1. \A c \in Decorated : c \in Chunk
    BY <1>1, WorldFacts
  <2>2. \A c \in Decorated : Bucket(c) \in 0 .. 24
    BY <2>1, BucketFacts
  <2> QED
    BY <2>2 DEF Has08
<1>4. \A a, b \in -1 .. 24 : a <= b => Pyramid(a) \subseteq Pyramid(b)
  BY <1>3 DEF Pyramid
<1>5. ASSUME NEW a \in 0 .. 24, NEW b \in 0 .. 24, a < b, NEW c \in Newly(a)
      PROVE  c \notin Newly(b)
  <2>1. c \in Pyramid(a)
    BY DEF Newly
  <2>2. b - 1 \in -1 .. 24 /\ a \in -1 .. 24 /\ a <= b - 1
    BY <1>5
  <2>3. c \in Pyramid(b - 1)
    BY <1>4, <2>1, <2>2
  <2> QED
    BY <2>3 DEF Newly
<1>6. \A a, b \in 0 .. 24 : \A c : c \in Newly(a) /\ c \in Newly(b) => a = b
  <2> SUFFICES ASSUME NEW a \in 0 .. 24, NEW b \in 0 .. 24, NEW c,
                      c \in Newly(a), c \in Newly(b), a # b
               PROVE  FALSE
    OBVIOUS
  <2>1. a < b \/ b < a
    OBVIOUS
  <2> QED
    BY <1>5, <2>1
<1> QED
  BY <1>2, <1>6

-----------------------------------------------------------------------------
(* The list of events.                                                     *)

\* What an event of the graph can be.
LEMMA EventForms ==
  ASSUME NEW ev \in EventSet
  PROVE  \/ \E k \in DOMAIN Manifest : ev = Deco(k)
         \/ \E k \in DOMAIN Manifest : ev = L08(k)
         \/ \E b \in 0 .. 24 : Newly(b) # {} /\ ev = Barrier(b)
         \/ \E b \in 0 .. 24 : \E c \in Newly(b) : ev = L09(c, b)
BY DEF EventSet, DecoAnd08, Batch

\* Buckets and turns are the digits of a key.
LEMMA DigitFacts ==
  /\ Turns \in Nat
  /\ \A k \in DOMAIN Manifest :
       /\ Deco(k).bucket = Bucket(Manifest[k]) /\ L08(k).bucket = Bucket(Manifest[k])
       /\ Bucket(Manifest[k]) \in 0 .. 24
       /\ Deco(k).turn = 2 * k /\ 2 * k \in Nat /\ 2 * k < PrepareTurn
       /\ L08(k).turn = 2 * k + 1 /\ 2 * k + 1 < PrepareTurn
  /\ PrepareTurn \in Nat /\ PrepareTurn < Turns
  /\ \A b \in 0 .. 24 : \A c \in Newly(b) :
       /\ L09(c, b).bucket = b
       /\ L09(c, b).turn = PrepareTurn + 1 + CellId(c)
       /\ L09(c, b).turn \in Nat /\ PrepareTurn < L09(c, b).turn
       /\ L09(c, b).turn < Turns
<1>1. PrepareTurn \in Nat /\ Turns \in Nat /\ PrepareTurn < Turns
  BY WorldFacts DEF PrepareTurn, Turns
<1>2. ASSUME NEW k \in DOMAIN Manifest
      PROVE  /\ Deco(k).bucket = Bucket(Manifest[k]) /\ L08(k).bucket = Bucket(Manifest[k])
             /\ Bucket(Manifest[k]) \in 0 .. 24
             /\ Deco(k).turn = 2 * k /\ 2 * k \in Nat /\ 2 * k < PrepareTurn
             /\ L08(k).turn = 2 * k + 1 /\ 2 * k + 1 < PrepareTurn
  <2>1. k \in 1 .. Len(Manifest) /\ Len(Manifest) \in Nat
    BY WorldFacts
  <2>2. 2 * k \in Nat /\ 2 * k < PrepareTurn /\ 2 * k + 1 < PrepareTurn
    BY <2>1 DEF PrepareTurn
  <2>3. Bucket(Manifest[k]) \in 0 .. 24
    BY WorldFacts, BucketFacts
  <2> QED
    BY <2>2, <2>3 DEF Deco, L08, Ev
<1>3. ASSUME NEW b \in 0 .. 24, NEW c \in Newly(b)
      PROVE  /\ L09(c, b).bucket = b
             /\ L09(c, b).turn = PrepareTurn + 1 + CellId(c)
             /\ L09(c, b).turn \in Nat /\ PrepareTurn < L09(c, b).turn
             /\ L09(c, b).turn < Turns
  <2>1. CellId(c) \in 0 .. W * D - 1
    BY NewlyFacts, CellFacts
  <2>2. L09(c, b).bucket = b /\ L09(c, b).turn = PrepareTurn + 1 + CellId(c)
    BY DEF L09, Ev
  <2>3. Turns = PrepareTurn + 1 + W * D
    BY DEF Turns
  <2> QED
    BY <1>1, <2>1, <2>2, <2>3, WorldFacts
<1> QED
  BY <1>1, <1>2, <1>3

\* Every event has two digits: a bucket up to 24, and a turn below Turns.
LEMMA EventDigits ==
  ASSUME NEW ev \in EventSet
  PROVE  ev.bucket \in 0 .. 24 /\ ev.turn \in Nat /\ ev.turn < Turns
<1>1. CASE \E k \in DOMAIN Manifest : ev = Deco(k)
  BY <1>1, DigitFacts
<1>2. CASE \E k \in DOMAIN Manifest : ev = L08(k)
  BY <1>2, DigitFacts
<1>3. CASE \E b \in 0 .. 24 : Newly(b) # {} /\ ev = Barrier(b)
  BY <1>3, DigitFacts DEF Barrier, Ev
<1>4. CASE \E b \in 0 .. 24 : \E c \in Newly(b) : ev = L09(c, b)
  BY <1>4, DigitFacts
<1> QED
  BY <1>1, <1>2, <1>3, <1>4, EventForms

\* An earlier bucket, or an earlier turn of the same bucket: a smaller key.
LEMMA KeyOrder ==
  ASSUME NEW ev \in EventSet, NEW ew \in EventSet
  PROVE  /\ Key(ev) \in Nat
         /\ ev.bucket < ew.bucket => Key(ev) < Key(ew)
         /\ ev.bucket = ew.bucket => (Key(ev) < Key(ew) <=> ev.turn < ew.turn)
         /\ Key(ev) = Key(ew) => ev.bucket = ew.bucket /\ ev.turn = ew.turn
<1>1. /\ ev.bucket \in 0 .. 24 /\ ev.turn \in Nat /\ ev.turn < Turns
      /\ ew.bucket \in 0 .. 24 /\ ew.turn \in Nat /\ ew.turn < Turns
  BY EventDigits
<1>2. Turns \in Nat /\ ev.bucket * Turns \in Nat /\ ew.bucket * Turns \in Nat
  BY <1>1, DigitFacts
<1>3. Key(ev) = ev.bucket * Turns + ev.turn /\ Key(ew) = ew.bucket * Turns + ew.turn
  BY DEF Key
<1>4. ev.bucket < ew.bucket => Key(ev) < Key(ew)
  BY <1>1, <1>2, <1>3, TwoDigits
<1>5. ew.bucket < ev.bucket => Key(ew) < Key(ev)
  BY <1>1, <1>2, <1>3, TwoDigits
<1>6. ev.bucket = ew.bucket => (Key(ev) < Key(ew) <=> ev.turn < ew.turn)
  BY <1>1, <1>2, <1>3
<1>7. Key(ev) \in Nat /\ Key(ew) \in Nat
  BY <1>1, <1>2, <1>3
<1>8. Key(ev) = Key(ew) => ev.bucket = ew.bucket
  <2>1. Key(ev) = Key(ew) => ~ ev.bucket < ew.bucket /\ ~ ew.bucket < ev.bucket
    BY <1>4, <1>5, <1>7
  <2> QED
    BY <1>1, <2>1
<1>9. Key(ev) = Key(ew) => ev.turn = ew.turn
  <2>1. Key(ev) = Key(ew) => ~ ev.turn < ew.turn /\ ~ ew.turn < ev.turn
    BY <1>1, <1>2, <1>3, <1>8
  <2> QED
    BY <1>1, <2>1
<1> QED
  BY <1>4, <1>6, <1>7, <1>8, <1>9

\* A turn tells what an event is.
TurnForm(ev) ==
  \/ /\ ev.turn < PrepareTurn
     /\ \E k \in DOMAIN Manifest :
          \/ ev = Deco(k) /\ ev.turn = 2 * k
          \/ ev = L08(k) /\ ev.turn = 2 * k + 1
  \/ /\ ev.turn = PrepareTurn
     /\ ev = Barrier(ev.bucket)
  \/ /\ PrepareTurn < ev.turn
     /\ \E c \in Chunk :
          ev = L09(c, ev.bucket) /\ ev.turn = PrepareTurn + 1 + CellId(c)

LEMMA TurnForms == \A ev \in EventSet : TurnForm(ev)
<1> SUFFICES ASSUME NEW ev \in EventSet PROVE TurnForm(ev)
  OBVIOUS
<1>1. CASE \E k \in DOMAIN Manifest : ev = Deco(k)
  <2>1. PICK k \in DOMAIN Manifest : ev = Deco(k)
    BY <1>1
  <2>2. ev.turn = 2 * k /\ 2 * k < PrepareTurn
    BY <2>1, DigitFacts
  <2> QED
    BY <2>1, <2>2 DEF TurnForm
<1>2. CASE \E k \in DOMAIN Manifest : ev = L08(k)
  <2>1. PICK k \in DOMAIN Manifest : ev = L08(k)
    BY <1>2
  <2>2. ev.turn = 2 * k + 1 /\ 2 * k + 1 < PrepareTurn
    BY <2>1, DigitFacts
  <2> QED
    BY <2>1, <2>2 DEF TurnForm
<1>3. CASE \E b \in 0 .. 24 : Newly(b) # {} /\ ev = Barrier(b)
  BY <1>3 DEF Barrier, Ev, TurnForm
<1>4. CASE \E b \in 0 .. 24 : \E c \in Newly(b) : ev = L09(c, b)
  <2>1. PICK b \in 0 .. 24 : \E c \in Newly(b) : ev = L09(c, b)
    BY <1>4
  <2>2. PICK c \in Newly(b) : ev = L09(c, b)
    BY <2>1
  <2>3. /\ ev.turn = PrepareTurn + 1 + CellId(c) /\ PrepareTurn < ev.turn
        /\ ev.bucket = b
    BY <2>2, DigitFacts
  <2>4. c \in Chunk
    BY NewlyFacts
  <2> QED
    BY <2>2, <2>3, <2>4 DEF TurnForm
<1> QED
  BY <1>1, <1>2, <1>3, <1>4, EventForms

\* Different events have different keys.
LEMMA KeyInjective ==
  ASSUME NEW ev \in EventSet, NEW ew \in EventSet, Key(ev) = Key(ew)
  PROVE  ev = ew
<1>1. ev.bucket = ew.bucket /\ ev.turn = ew.turn
  BY KeyOrder
<1>2. ev.turn \in Nat /\ PrepareTurn \in Nat
  BY EventDigits, DigitFacts
<1>a. TurnForm(ev) /\ TurnForm(ew)
  BY TurnForms
<1>3. CASE ev.turn < PrepareTurn
  <2>0. ev.turn # PrepareTurn /\ ~ PrepareTurn < ev.turn
    BY <1>2, <1>3
  <2>1. PICK k \in DOMAIN Manifest :
         \/ ev = Deco(k) /\ ev.turn = 2 * k
         \/ ev = L08(k) /\ ev.turn = 2 * k + 1
    BY <2>0, <1>a, Zenon DEF TurnForm
  <2>2. PICK j \in DOMAIN Manifest :
         \/ ew = Deco(j) /\ ew.turn = 2 * j
         \/ ew = L08(j) /\ ew.turn = 2 * j + 1
    BY <1>1, <2>0, <1>a, Zenon DEF TurnForm
  <2>3. k \in Nat /\ j \in Nat
    BY WorldFacts
  <2>4. 2 * k = 2 * j => k = j
    BY <2>3
  <2>5. 2 * k + 1 = 2 * j + 1 => k = j
    BY <2>3
  <2>6. 2 * k # 2 * j + 1 /\ 2 * k + 1 # 2 * j
    BY <2>3
  <2> QED
    BY <1>1, <2>1, <2>2, <2>4, <2>5, <2>6
<1>4. CASE ev.turn = PrepareTurn
  BY <1>1, <1>2, <1>4, <1>a DEF TurnForm
<1>5. CASE PrepareTurn < ev.turn
  <2>1. PICK c \in Chunk : ev = L09(c, ev.bucket) /\ ev.turn = PrepareTurn + 1 + CellId(c)
    BY <1>2, <1>5, <1>a DEF TurnForm
  <2>2. PICK d \in Chunk : ew = L09(d, ew.bucket) /\ ew.turn = PrepareTurn + 1 + CellId(d)
    BY <1>1, <1>2, <1>5, <1>a DEF TurnForm
  <2>3. CellId(c) \in Int /\ CellId(d) \in Int
    BY CellFacts
  <2>a. PrepareTurn + 1 + CellId(c) = PrepareTurn + 1 + CellId(d)
    BY <1>1, <2>1, <2>2, Zenon
  <2>4. CellId(c) = CellId(d)
    BY <1>2, <2>a, <2>3
  <2>5. c = d
    BY <2>4, CellFacts
  <2> QED
    BY <1>1, <2>1, <2>2, <2>5
<1> QED
  BY <1>2, <1>3, <1>4, <1>5

\* The list holds every event once, in the order of the keys.
LEMMA EventsFacts ==
  /\ N \in Nat /\ Len(Events) = N
  /\ \A e \in Event : Events[e + 1] \in EventSet
  /\ \A e, f \in Event : e < f <=> Key(Events[e + 1]) < Key(Events[f + 1])
  /\ \A ev \in EventSet : \E e \in Event : Events[e + 1] = ev
<1> DEFINE K == { Key(ev) : ev \in EventSet }
           n == Cardinality(K)
           keys == Ascending(K)
<1>1. K \in SUBSET Nat
  BY KeyOrder
<1>2. IsFiniteSet(K)
  <2>1. Turns \in Nat /\ 25 * Turns \in Nat
    BY DigitFacts
  <2>2. ASSUME NEW ev \in EventSet
        PROVE  Key(ev) <= 25 * Turns
    <3>1. ev.bucket \in Nat /\ ev.bucket < 25 /\ ev.turn \in Nat /\ ev.turn < Turns
      BY EventDigits
    <3>2. ev.bucket * Turns + ev.turn < 25 * Turns + 0
      BY <2>1, <3>1, TwoDigits
    <3>3. Key(ev) \in Nat /\ Key(ev) = ev.bucket * Turns + ev.turn
      BY KeyOrder DEF Key
    <3> QED
      BY <2>1, <3>2, <3>3
  <2>3. \A k \in K : k <= 25 * Turns
    BY <2>2
  <2> QED
    BY <1>1, <2>1, <2>3, FS_BoundedSetOfNaturals
<1> HIDE DEF K
<1>3. /\ n \in Nat /\ keys \in [1 .. n -> K]
      /\ \A i, j \in 1 .. n : i < j => keys[i] < keys[j]
      /\ \A k \in K : \E i \in 1 .. n : keys[i] = k
  BY <1>1, <1>2, AscendingFacts
<1>4. Events = [k \in 1 .. n |-> EventOf(keys[k])]
  BY <1>3 DEF Events, K
<1> HIDE DEF n, keys
<1>5. Len(Events) = n /\ N = n
  BY <1>3, <1>4, CountAssumption
<1>6. \A k \in 1 .. n : Events[k] \in EventSet /\ Key(Events[k]) = keys[k]
  <2> TAKE k \in 1 .. n
  <2>1. keys[k] \in K
    BY <1>3
  <2>2. \E ev \in EventSet : Key(ev) = keys[k]
    BY <2>1 DEF K
  <2> QED
    BY <1>4, <2>2 DEF EventOf
<1>7. \A e \in Event : e + 1 \in 1 .. n /\ e \in Int
  BY <1>3, <1>5 DEF Event
<1>8. \A i, j \in 1 .. n : i < j <=> keys[i] < keys[j]
  <2> SUFFICES ASSUME NEW i \in 1 .. n, NEW j \in 1 .. n, keys[i] < keys[j]
               PROVE  i < j
    BY <1>3
  <2>1. keys[i] \in Nat /\ keys[j] \in Nat
    BY <1>1, <1>3
  <2>2. i # j /\ ~ j < i
    BY <1>3, <2>1
  <2> QED
    BY <2>2
<1>9. \A e, f \in Event : e < f <=> Key(Events[e + 1]) < Key(Events[f + 1])
  BY <1>6, <1>7, <1>8
<1>10. ASSUME NEW ev \in EventSet
       PROVE  \E e \in Event : Events[e + 1] = ev
  <2>1. Key(ev) \in K
    BY DEF K
  <2>2. PICK i \in 1 .. n : keys[i] = Key(ev)
    BY <1>3, <2>1
  <2>3. Events[i] = ev
    BY <1>6, <2>2, KeyInjective
  <2>4. i - 1 \in Event /\ (i - 1) + 1 = i
    BY <1>3, <1>5 DEF Event
  <2> QED
    BY <2>3, <2>4
<1> QED
  BY <1>3, <1>5, <1>6, <1>7, <1>9, <1>10

-----------------------------------------------------------------------------
(* What comes before what.                                                 *)

\* The four kinds, and what the list holds at an index of each kind.
LEMMA KindFacts ==
  ASSUME NEW e \in Event
  PROVE  /\ Kind(e) \in { "deco", "l08", "prepare", "l09" }
         /\ Kind(e) = "deco" => \E k \in DOMAIN Manifest :
              Events[e + 1] = Deco(k) /\ At(e) = Manifest[k]
         /\ Kind(e) = "l08" => \E k \in DOMAIN Manifest :
              Events[e + 1] = L08(k) /\ At(e) = Manifest[k]
         /\ Kind(e) = "prepare" => \E b \in 0 .. 24 : Events[e + 1] = Barrier(b)
         /\ Kind(e) = "l09" => \E b \in 0 .. 24 : \E c \in Newly(b) :
              Events[e + 1] = L09(c, b) /\ At(e) = c
         /\ Kind(e) # "prepare" => At(e) \in Chunk
<1>1. Events[e + 1] \in EventSet
  BY EventsFacts
<1>2. CASE \E k \in DOMAIN Manifest : Events[e + 1] = Deco(k)
  BY <1>2, WorldFacts DEF Kind, At, Deco, Ev
<1>3. CASE \E k \in DOMAIN Manifest : Events[e + 1] = L08(k)
  BY <1>3, WorldFacts DEF Kind, At, L08, Ev
<1>4. CASE \E b \in 0 .. 24 : Newly(b) # {} /\ Events[e + 1] = Barrier(b)
  BY <1>4 DEF Kind, At, Barrier, Ev
<1>5. CASE \E b \in 0 .. 24 : \E c \in Newly(b) : Events[e + 1] = L09(c, b)
  BY <1>5, NewlyFacts DEF Kind, At, L09, Ev
<1> QED
  BY <1>1, <1>2, <1>3, <1>4, <1>5, EventForms

\* Events of the graph have their index, with their kind and their chunk.
LEMMA IndexFacts ==
  /\ \A k \in DOMAIN Manifest :
       /\ \E e \in Event : Events[e + 1] = Deco(k) /\ Kind(e) = "deco" /\ At(e) = Manifest[k]
       /\ \E e \in Event : Events[e + 1] = L08(k) /\ Kind(e) = "l08" /\ At(e) = Manifest[k]
  /\ \A b \in 0 .. 24 : Newly(b) # {} =>
       \E e \in Event : Events[e + 1] = Barrier(b) /\ Kind(e) = "prepare"
<1>1. \A k \in DOMAIN Manifest : Deco(k) \in EventSet /\ L08(k) \in EventSet
  BY DEF EventSet, DecoAnd08
<1>2. \A b \in 0 .. 24 : Newly(b) # {} => Barrier(b) \in EventSet
  BY DEF EventSet, Batch
<1>3. ASSUME NEW k \in DOMAIN Manifest
      PROVE  /\ \E e \in Event : Events[e + 1] = Deco(k) /\ Kind(e) = "deco" /\ At(e) = Manifest[k]
             /\ \E e \in Event : Events[e + 1] = L08(k) /\ Kind(e) = "l08" /\ At(e) = Manifest[k]
  <2>1. PICK d \in Event : Events[d + 1] = Deco(k)
    BY <1>1, EventsFacts
  <2>2. PICK l \in Event : Events[l + 1] = L08(k)
    BY <1>1, EventsFacts
  <2> QED
    BY <2>1, <2>2 DEF Kind, At, Deco, L08, Ev
<1>4. ASSUME NEW b \in 0 .. 24, Newly(b) # {}
      PROVE  \E e \in Event : Events[e + 1] = Barrier(b) /\ Kind(e) = "prepare"
  <2>1. PICK p \in Event : Events[p + 1] = Barrier(b)
    BY <1>2, <1>4, EventsFacts
  <2> QED
    BY <2>1 DEF Kind, Barrier, Ev
<1> QED
  BY <1>3, <1>4

\* The order of two indices, from their buckets and turns.
LEMMA IndexOrder ==
  ASSUME NEW e \in Event, NEW f \in Event
  PROVE  LET ev == Events[e + 1]
             ew == Events[f + 1]
         IN /\ ev.bucket \in 0 .. 24 /\ ew.bucket \in 0 .. 24
            /\ ev.bucket < ew.bucket => e < f
            /\ ev.bucket = ew.bucket => (e < f <=> ev.turn < ew.turn)
            /\ ev = ew => e = f
<1>1. Events[e + 1] \in EventSet /\ Events[f + 1] \in EventSet
  BY EventsFacts
<1>2. e < f <=> Key(Events[e + 1]) < Key(Events[f + 1])
  BY EventsFacts
<1>3. f < e <=> Key(Events[f + 1]) < Key(Events[e + 1])
  BY EventsFacts
<1>4. e \in Int /\ f \in Int
  BY EventsFacts DEF Event
<1>5. Key(Events[e + 1]) \in Nat /\ Key(Events[f + 1]) \in Nat
  BY <1>1, KeyOrder
<1>6. Events[e + 1] = Events[f + 1] => e = f
  <2> SUFFICES ASSUME Events[e + 1] = Events[f + 1]
               PROVE  e = f
    OBVIOUS
  <2>1. ~ e < f /\ ~ f < e
    BY <1>2, <1>3, <1>5
  <2> QED
    BY <1>4, <2>1
<1> QED
  BY <1>1, <1>2, <1>6, KeyOrder, EventDigits

\* The decoration of a chunk comes before its 08.
LEMMA DecoBefore08 ==
  ASSUME NEW e \in Event, Kind(e) = "l08"
  PROVE  \E d \in Event : d < e /\ Kind(d) = "deco" /\ At(d) = At(e)
<1>1. PICK k \in DOMAIN Manifest : Events[e + 1] = L08(k) /\ At(e) = Manifest[k]
  BY KindFacts
<1>2. PICK d \in Event : Events[d + 1] = Deco(k) /\ Kind(d) = "deco" /\ At(d) = Manifest[k]
  BY IndexFacts
<1>3. /\ Events[d + 1].bucket = Events[e + 1].bucket
      /\ Events[d + 1].turn = 2 * k /\ Events[e + 1].turn = 2 * k + 1 /\ 2 * k \in Nat
  BY <1>1, <1>2, DigitFacts
<1>4. Events[d + 1].turn < Events[e + 1].turn
  BY <1>3
<1>5. d < e
  BY <1>3, <1>4, IndexOrder
<1> QED
  BY <1>1, <1>2, <1>5

\* A chunk has one 08.
LEMMA One08 ==
  ASSUME NEW e \in Event, NEW f \in Event,
         Kind(e) = "l08", Kind(f) = "l08", At(e) = At(f)
  PROVE  e = f
<1>1. PICK k \in DOMAIN Manifest : Events[e + 1] = L08(k) /\ At(e) = Manifest[k]
  BY KindFacts
<1>2. PICK j \in DOMAIN Manifest : Events[f + 1] = L08(j) /\ At(f) = Manifest[j]
  BY KindFacts
<1>3. k = j
  BY <1>1, <1>2, WorldFacts
<1> QED
  BY <1>1, <1>2, <1>3, IndexOrder

\* A chunk has at most one 09.
LEMMA One09 ==
  ASSUME NEW e \in Event, NEW f \in Event,
         Kind(e) = "l09", Kind(f) = "l09", At(e) = At(f)
  PROVE  e = f
<1>1. PICK b \in 0 .. 24 : \E c \in Newly(b) : Events[e + 1] = L09(c, b) /\ At(e) = c
  BY KindFacts
<1>2. PICK a \in 0 .. 24 : \E c \in Newly(a) : Events[f + 1] = L09(c, a) /\ At(f) = c
  BY KindFacts
<1>3. a = b
  BY <1>1, <1>2, NewlyFacts
<1>4. Events[e + 1] = L09(At(e), b) /\ Events[f + 1] = L09(At(f), a)
  BY <1>1, <1>2
<1>5. Events[e + 1] = Events[f + 1]
  BY <1>3, <1>4
<1> QED
  BY <1>5, IndexOrder

\* A 09 comes after the 08 of its whole neighbourhood.
LEMMA After08 ==
  ASSUME NEW e \in Event, Kind(e) = "l09", NEW c \in Box(At(e), 1)
  PROVE  \E f \in Event : f < e /\ Kind(f) = "l08" /\ At(f) = c
<1>1. PICK b \in 0 .. 24 : \E d \in Newly(b) : Events[e + 1] = L09(d, b) /\ At(e) = d
  BY KindFacts
<1>2. At(e) \in Newly(b) /\ Events[e + 1] = L09(At(e), b)
  BY <1>1
<1>3. PICK k \in DOMAIN Manifest : c = Manifest[k] /\ Bucket(c) <= b
  BY <1>2, NewlyFacts
<1>4. PICK f \in Event : Events[f + 1] = L08(k) /\ Kind(f) = "l08" /\ At(f) = Manifest[k]
  BY IndexFacts
<1>5. /\ Events[f + 1].bucket = Bucket(c) /\ Events[f + 1].turn = 2 * k + 1
      /\ 2 * k \in Nat /\ 2 * k + 1 < PrepareTurn
      /\ Events[e + 1].bucket = b
      /\ PrepareTurn < Events[e + 1].turn /\ Events[e + 1].turn \in Nat
      /\ PrepareTurn \in Nat /\ Bucket(c) \in 0 .. 24
  BY <1>2, <1>3, <1>4, DigitFacts
<1>6. Events[f + 1].turn < Events[e + 1].turn
  BY <1>5
<1>7. Bucket(c) < b \/ Bucket(c) = b
  BY <1>3, <1>5
<1>8. f < e
  BY <1>5, <1>6, <1>7, IndexOrder
<1> QED
  BY <1>3, <1>4, <1>8

\* A 09 has a prepare before it, with no decoration between the two.
LEMMA Prepared ==
  ASSUME NEW e \in Event, Kind(e) = "l09"
  PROVE  \E p \in Event :
           /\ p < e /\ Kind(p) = "prepare"
           /\ \A g \in Event : Kind(g) = "deco" /\ p < g => e < g
<1>1. PICK b \in 0 .. 24 : \E d \in Newly(b) : Events[e + 1] = L09(d, b)
  BY KindFacts
<1>2. PICK p \in Event : Events[p + 1] = Barrier(b) /\ Kind(p) = "prepare"
  BY <1>1, IndexFacts
<1>3. /\ Events[p + 1].bucket = b /\ Events[p + 1].turn = PrepareTurn
      /\ Events[e + 1].bucket = b /\ PrepareTurn < Events[e + 1].turn
  BY <1>1, <1>2, DigitFacts DEF Barrier, Ev
<1>4. p < e
  BY <1>3, IndexOrder
<1>5. ASSUME NEW g \in Event, Kind(g) = "deco", p < g
      PROVE  e < g
  <2>1. PICK k \in DOMAIN Manifest : Events[g + 1] = Deco(k)
    BY <1>5, KindFacts
  <2>2. Events[g + 1].turn \in Nat /\ Events[g + 1].turn < PrepareTurn /\ PrepareTurn \in Nat
    BY <2>1, DigitFacts
  <2>3. ~ PrepareTurn < Events[g + 1].turn
    BY <2>2
  <2>4. Events[g + 1].bucket # b
    BY <1>3, <1>5, <2>3, IndexOrder
  <2>5. ~ g < p
    BY <1>5, EventsFacts DEF Event
  <2>6. ~ Events[g + 1].bucket < b
    BY <1>3, <2>5, IndexOrder
  <2>7. b < Events[g + 1].bucket
    BY <2>4, <2>6, IndexOrder
  <2> QED
    BY <1>3, <2>7, IndexOrder
<1> QED
  BY <1>2, <1>4, <1>5

-----------------------------------------------------------------------------
(* What the declared cells make wait.                                      *)

\* The cell list of an event lists its cells, all of them numbers.
LEMMA CellListFacts ==
  ASSUME NEW e \in Event
  PROVE  /\ CellsOf(CellLists, e) = CellSet(Events[e + 1])
         /\ CellSet(Events[e + 1]) = {} => IsBarrier(CellLists, e)
<1> DEFINE S == CellSet(Events[e + 1])
           n == Cardinality(S)
<1>1. /\ Len(Pieces) \in Nat /\ DOMAIN Pieces = 1 .. Len(Pieces)
      /\ W * D + Len(Pieces) \in Nat
  BY WorldAssumption, WorldFacts
<1>2. \A d \in Chunk : CellId(d) \in Nat /\ CellId(d) <= W * D + Len(Pieces)
  BY <1>1, CellFacts, WorldFacts
<1>3. \A c : \A x \in PieceCells(c) : x \in Nat /\ x <= W * D + Len(Pieces)
  BY <1>1, WorldFacts DEF PieceCells
<1>4. \A x \in S : x \in Nat /\ x <= W * D + Len(Pieces)
  BY <1>2, <1>3, BoxFacts DEF CellSet
<1>5. S \in SUBSET Nat /\ IsFiniteSet(S)
  BY <1>1, <1>4, FS_BoundedSetOfNaturals
<1> HIDE DEF S
<1>6. CellLists[e] = Ascending(S)
  BY DEF CellLists, S
<1>7. /\ n \in Nat /\ Ascending(S) \in [1 .. n -> S]
      /\ \A x \in S : \E i \in 1 .. n : Ascending(S)[i] = x
  BY <1>5, AscendingFacts
<1>8. CellsOf(CellLists, e) = S
  BY <1>6, <1>7 DEF CellsOf
<1>9. S = {} => IsBarrier(CellLists, e)
  BY <1>6, AscendingEmpty DEF IsBarrier
<1> QED
  BY <1>8, <1>9 DEF S

\* A prepare waits for everything before it and is waited for by everything
\* behind it; two other events wait for one another when their boxes meet, or
\* when they are decorations of one structure piece.
LEMMA ConflictFacts ==
  ASSUME NEW e \in Event, NEW f \in Event
  PROVE  /\ Kind(e) = "prepare" \/ Kind(f) = "prepare" => Conflict(CellLists, e, f)
         /\ \A c : /\ Kind(e) # "prepare" /\ c \in Box(At(e), Radius(Kind(e)))
                   /\ Kind(f) # "prepare" /\ c \in Box(At(f), Radius(Kind(f)))
                   => Conflict(CellLists, e, f)
         /\ \A k \in DOMAIN Pieces :
              /\ Kind(e) = "deco" /\ At(e) \in Pieces[k]
              /\ Kind(f) = "deco" /\ At(f) \in Pieces[k]
              => Conflict(CellLists, e, f)
<1>1. ASSUME Kind(e) = "prepare" \/ Kind(f) = "prepare"
      PROVE  Conflict(CellLists, e, f)
  BY <1>1, CellListFacts DEF Conflict, CellSet, Kind
<1>2. ASSUME NEW c,
             Kind(e) # "prepare", c \in Box(At(e), Radius(Kind(e))),
             Kind(f) # "prepare", c \in Box(At(f), Radius(Kind(f)))
      PROVE  Conflict(CellLists, e, f)
  <2>1. CellId(c) \in CellSet(Events[e + 1])
    BY <1>2 DEF CellSet, Kind, At
  <2>2. CellId(c) \in CellSet(Events[f + 1])
    BY <1>2 DEF CellSet, Kind, At
  <2> QED
    BY <2>1, <2>2, CellListFacts DEF Conflict
<1>3. ASSUME NEW k \in DOMAIN Pieces,
             Kind(e) = "deco", At(e) \in Pieces[k],
             Kind(f) = "deco", At(f) \in Pieces[k]
      PROVE  Conflict(CellLists, e, f)
  <2>1. W * D + k - 1 \in CellSet(Events[e + 1])
    BY <1>3 DEF CellSet, PieceCells, Kind, At
  <2>2. W * D + k - 1 \in CellSet(Events[f + 1])
    BY <1>3 DEF CellSet, PieceCells, Kind, At
  <2> QED
    BY <2>1, <2>2, CellListFacts DEF Conflict
<1> QED
  BY <1>1, <1>2, <1>3

\* The earlier of two conflicting events is waited for.
LEMMA EarlierFacts ==
  ASSUME NEW e \in Event, NEW f \in Event
  PROVE  /\ f \in Earlier[e] <=> f < e /\ Conflict(CellLists, e, f)
         /\ Conflict(CellLists, e, f) <=> Conflict(CellLists, f, e)
<1>1. \A g : g \in 0 .. e - 1 <=> g \in Event /\ g < e
  BY EventsFacts DEF Event
<1>2. f \in Earlier[e] <=> f < e /\ Conflict(CellLists, e, f)
  BY <1>1 DEF Earlier
<1>3. Conflict(CellLists, e, f) <=> Conflict(CellLists, f, e)
  BY DEF Conflict
<1> QED
  BY <1>2, <1>3

-----------------------------------------------------------------------------
(* The invariant.                                                          *)

\* The chunks whose event of a kind has returned.
Finished(kind) == { At(e) : e \in { f \in done : Kind(f) = kind } }

\* What has started waited for what conflicts with it.
Ordered ==
  /\ started \subseteq Event /\ done \subseteq started
  /\ \A e \in started : Earlier[e] \subseteq done

\* The flags of the light slots say which events have returned.
Flags ==
  /\ edits \in Edits
  /\ feat = Finished("deco") /\ inR = Finished("l08") /\ seeded = Finished("l09")

\* A chunk is stale because of a decoration after the last prepare, and then
\* it is dirty.
StaleCause ==
  /\ stale \subseteq inR /\ stale \subseteq dirty
  /\ \A c \in stale : \E g \in done :
       /\ Kind(g) = "deco" /\ c \in Box(At(g), 1)
       /\ \A p \in done : Kind(p) = "prepare" => p < g

IInv == Ordered /\ Flags /\ StaleCause /\ NoAbort

LEMMA IndexTypes ==
  /\ N \in Nat /\ Never = N
  /\ \A e \in Event : e \in Nat /\ e < N
BY EventsFacts DEF Event, Never

\* An event that has started, or may start, has its earlier partners done.
LEMMA WaitedFor ==
  ASSUME NEW e \in Event, NEW f \in Event, Earlier[e] \subseteq done,
         f < e, Conflict(CellLists, e, f)
  PROVE  f \in done
BY EarlierFacts

\* While an event has not returned, no later partner has started.
LEMMA NotOvertaken ==
  ASSUME Ordered, NEW e \in Event, e \notin done, NEW f \in started,
         Conflict(CellLists, e, f)
  PROVE  ~ e < f
<1>1. f \in Event /\ Earlier[f] \subseteq done
  BY DEF Ordered
<1>2. e < f => e \in done
  BY <1>1, EarlierFacts
<1> QED
  BY <1>2

\* Two events that run at the same time are no partners.
LEMMA RunningApart ==
  ASSUME Ordered, NEW e \in Running, NEW f \in Running, e # f
  PROVE  ~ Conflict(CellLists, e, f)
<1>1. /\ e \in Event /\ e \notin done /\ e \in started
      /\ f \in Event /\ f \notin done /\ f \in started
  BY DEF Ordered, Running
<1>2. Conflict(CellLists, e, f) => ~ e < f /\ ~ f < e
  BY <1>1, NotOvertaken, EarlierFacts
<1>3. e < f \/ f < e
  BY <1>1, IndexTypes
<1> QED
  BY <1>2, <1>3

\* Radius of an event.
LEMMA RadiusFacts ==
  ASSUME NEW e \in Event
  PROVE  /\ Kind(e) = "deco" => Radius(Kind(e)) = 2
         /\ Kind(e) # "deco" => Radius(Kind(e)) = 1
BY DEF Radius

\* What a decoration, an 08 or a 09 touches lies within the box it declares, or
\* is one of its pieces.
LEMMA Footprint ==
  ASSUME NEW e \in Event, Kind(e) # "prepare",
         NEW x, x \in WriteSet(e) \/ x \in ReadSet(e)
  PROVE  \/ \E c \in Box(At(e), Radius(Kind(e))) :
              x = << "blocks", c >> \/ x = << "heights", c >> \/ x = << "light", c >>
         \/ \E k \in DOMAIN Pieces :
              Kind(e) = "deco" /\ At(e) \in Pieces[k] /\ x = << "piece", k >>
<1>1. At(e) \in Chunk
  BY KindFacts
<1>2. /\ Box(At(e), 1) \subseteq Box(At(e), 2) /\ At(e) \in Box(At(e), 1)
  BY <1>1, BoxFacts
<1>3. CASE Kind(e) = "deco"
  BY <1>2, <1>3 DEF WriteSet, ReadSet, Radius
<1>4. CASE Kind(e) = "l08"
  BY <1>2, <1>4 DEF WriteSet, ReadSet, Radius
<1>5. CASE Kind(e) = "l09"
  BY <1>2, <1>5 DEF WriteSet, ReadSet, Radius
<1> QED
  BY <1>3, <1>4, <1>5, KindFacts

\* Whoever runs together touches different data: they are no partners, so
\* their boxes are apart and they share no piece.
LEMMA OrderedNoRace == Ordered => NoRace
<1> SUFFICES ASSUME Ordered, NEW e \in Running, NEW f \in Running, e # f,
                    NEW x, x \in WriteSet(e), x \in WriteSet(f) \/ x \in ReadSet(f)
             PROVE  FALSE
  BY DEF NoRace
<1>1. e \in Event /\ f \in Event
  BY DEF Ordered, Running
<1>2. ~ Conflict(CellLists, e, f)
  BY RunningApart
<1>3. Kind(e) # "prepare" /\ Kind(f) # "prepare"
  BY <1>1, <1>2, ConflictFacts
<1>4. \A c : ~ (c \in Box(At(e), Radius(Kind(e))) /\ c \in Box(At(f), Radius(Kind(f))))
  BY <1>1, <1>2, <1>3, ConflictFacts
<1>5. \A k \in DOMAIN Pieces :
        ~ (/\ Kind(e) = "deco" /\ At(e) \in Pieces[k]
           /\ Kind(f) = "deco" /\ At(f) \in Pieces[k])
  BY <1>1, <1>2, ConflictFacts
<1>6. \/ \E c \in Box(At(e), Radius(Kind(e))) :
           x = << "blocks", c >> \/ x = << "heights", c >> \/ x = << "light", c >>
      \/ \E k \in DOMAIN Pieces :
           Kind(e) = "deco" /\ At(e) \in Pieces[k] /\ x = << "piece", k >>
  BY <1>1, <1>3, Footprint
<1>7. \/ \E c \in Box(At(f), Radius(Kind(f))) :
           x = << "blocks", c >> \/ x = << "heights", c >> \/ x = << "light", c >>
      \/ \E k \in DOMAIN Pieces :
           Kind(f) = "deco" /\ At(f) \in Pieces[k] /\ x = << "piece", k >>
  BY <1>1, <1>3, Footprint
<1>8. CASE \E c \in Box(At(e), Radius(Kind(e))) :
             x = << "blocks", c >> \/ x = << "heights", c >> \/ x = << "light", c >>
  BY <1>4, <1>7, <1>8
<1>9. CASE \E k \in DOMAIN Pieces :
             Kind(e) = "deco" /\ At(e) \in Pieces[k] /\ x = << "piece", k >>
  BY <1>5, <1>7, <1>9
<1> QED
  BY <1>6, <1>8, <1>9

\* g_live_at holds the index of the chunk's 08, if it has one.
LEMMA LiveAtFacts ==
  ASSUME NEW c \in Chunk
  PROVE  /\ LiveAt[c] # Never => LiveAt[c] \in Event /\ Kind(LiveAt[c]) = "l08" /\ At(LiveAt[c]) = c
         /\ \A e \in Event : Kind(e) = "l08" /\ At(e) = c => LiveAt[c] = e
<1> DEFINE S == { e \in Event : Kind(e) = "l08" /\ At(e) = c }
<1>1. LiveAt[c] = IF S = {} THEN Never ELSE CHOOSE e \in S : TRUE
  BY DEF LiveAt
<1>2. S # {} => LiveAt[c] \in S
  BY <1>1
<1>3. \A e \in S : LiveAt[c] = e
  BY <1>2, One08
<1> QED
  BY <1>1, <1>2, <1>3

\* During a decoration, the window filter tells which chunks within reach are
\* live: their 08 is its partner, so what comes first in the list is done.
LEMMA LiveInWindow ==
  ASSUME Ordered, Flags, NEW e \in Event, e \notin done, Kind(e) = "deco",
         Earlier[e] \subseteq done, NEW c \in Box(At(e), 2)
  PROVE  WindowLive(e, c) <=> c \in inR
<1>1. c \in Chunk
  BY BoxFacts
<1>2. ASSUME NEW l \in Event, Kind(l) = "l08", At(l) = c
      PROVE  Conflict(CellLists, e, l) /\ l # e
  <2>1. c \in Box(At(l), 1)
    BY <1>1, <1>2, BoxFacts
  <2> QED
    BY <1>2, <2>1, ConflictFacts, RadiusFacts
<1>3. ASSUME WindowLive(e, c)
      PROVE  c \in inR
  <2>1. LiveAt[c] # Never /\ e >= LiveAt[c]
    BY <1>3 DEF WindowLive
  <2>2. LiveAt[c] \in Event /\ Kind(LiveAt[c]) = "l08" /\ At(LiveAt[c]) = c
    BY <1>1, <2>1, LiveAtFacts
  <2>3. LiveAt[c] < e
    BY <1>2, <2>1, <2>2, IndexTypes
  <2>4. LiveAt[c] \in done
    BY <1>2, <2>2, <2>3, WaitedFor
  <2> QED
    BY <2>2, <2>4 DEF Flags, Finished
<1>4. ASSUME c \in inR
      PROVE  WindowLive(e, c)
  <2>1. PICK l \in done : Kind(l) = "l08" /\ At(l) = c
    BY <1>4 DEF Flags, Finished
  <2>2. l \in Event /\ l \in started
    BY DEF Ordered
  <2>3. ~ e < l
    BY <1>2, <2>1, <2>2, NotOvertaken
  <2>4. LiveAt[c] = l
    BY <1>1, <2>1, <2>2, LiveAtFacts
  <2> QED
    BY <2>2, <2>3, <2>4, IndexTypes DEF WindowLive
<1> QED
  BY <1>3, <1>4

LEMMA InvWindowExact == Ordered /\ Flags => WindowExact
<1> SUFFICES ASSUME Ordered, Flags, NEW e \in Running, Kind(e) = "deco",
                    NEW c \in Box(At(e), 2)
             PROVE  WindowLive(e, c) <=> c \in inR
  BY DEF WindowExact
<1>1. e \in Event /\ e \notin done /\ Earlier[e] \subseteq done
  BY DEF Ordered, Running
<1> QED
  BY <1>1, LiveInWindow

\* While a chunk is lit, its neighbourhood has its 08: partners before it.
LEMMA LitAfter08 ==
  ASSUME Ordered, Flags, NEW e \in Event, Kind(e) = "l09", Earlier[e] \subseteq done,
         NEW c \in Box(At(e), 1)
  PROVE  c \in inR
<1>1. PICK f \in Event : f < e /\ Kind(f) = "l08" /\ At(f) = c
  BY After08
<1>2. c \in Chunk /\ c \in Box(At(f), 1)
  BY <1>1, BoxFacts
<1>3. Conflict(CellLists, e, f)
  BY <1>1, <1>2, ConflictFacts, RadiusFacts
<1>4. f \in done
  BY <1>1, <1>3, WaitedFor
<1> QED
  BY <1>1, <1>4 DEF Flags, Finished

\* While a chunk is lit, nothing in its neighbourhood is stale: the decoration
\* to blame would come after the prepare of the batch, so after the 09, which
\* it would have waited for.
LEMMA LitNotStale ==
  ASSUME Ordered, StaleCause, NEW e \in Running, Kind(e) = "l09", NEW c \in Box(At(e), 1)
  PROVE  c \notin stale
<1> SUFFICES ASSUME c \in stale
             PROVE  FALSE
  OBVIOUS
<1>1. e \in Event /\ e \notin done /\ Earlier[e] \subseteq done
  BY DEF Ordered, Running
<1>2. PICK g \in done : /\ Kind(g) = "deco" /\ c \in Box(At(g), 1)
                        /\ \A p \in done : Kind(p) = "prepare" => p < g
  BY DEF StaleCause
<1>3. g \in started /\ g \in Event
  BY DEF Ordered
<1>4. PICK p \in Event : /\ p < e /\ Kind(p) = "prepare"
                         /\ \A h \in Event : Kind(h) = "deco" /\ p < h => e < h
  BY <1>1, Prepared
<1>5. p \in done
  BY <1>1, <1>4, ConflictFacts, WaitedFor
<1>6. e < g
  BY <1>2, <1>3, <1>4, <1>5
<1>7. At(g) \in Chunk
  BY <1>2, <1>3, KindFacts
<1>8. c \in Box(At(g), 2)
  BY <1>2, <1>7, BoxFacts
<1>9. Conflict(CellLists, e, g)
  BY <1>1, <1>2, <1>3, <1>8, ConflictFacts, RadiusFacts
<1> QED
  BY <1>1, <1>3, <1>6, <1>9, NotOvertaken

LEMMA InvLightSound == IInv => LightSound
<1> SUFFICES ASSUME IInv
             PROVE  LightSound
  OBVIOUS
<1>1. Ordered /\ Flags /\ StaleCause /\ NoAbort
  BY DEF IInv
<1>2. ASSUME NEW e \in Running, Kind(e) = "l09", NEW c \in Box(At(e), 1)
      PROVE  c \in inR /\ c \notin stale
  <2>1. e \in Event /\ Earlier[e] \subseteq done
    BY <1>1 DEF Ordered, Running
  <2> QED
    BY <1>1, <1>2, <2>1, LitAfter08, LitNotStale
<1> QED
  BY <1>1, <1>2 DEF LightSound, LitFresh, SkipIsSound, StaleCause

-----------------------------------------------------------------------------
(* The invariant holds initially and is kept by every step.                *)

LEMMA InitInv == Init => IInv
<1> SUFFICES ASSUME Init
             PROVE  IInv
  OBVIOUS
<1>1. Ordered
  BY DEF Init, Ordered
<1>2. Flags
  BY DEF Init, Flags, Finished
<1>3. StaleCause /\ NoAbort
  BY DEF Init, StaleCause, NoAbort
<1> QED
  BY <1>1, <1>2, <1>3 DEF IInv

\* A callback that is entered has its earlier partners done.
LEMMA BeginInv ==
  ASSUME IInv, NEW e \in Event, Begin(e)
  PROVE  IInv'
<1>1. /\ started' = started \cup {e} /\ done' = done /\ edits' = edits
      /\ Earlier[e] \subseteq done
      /\ feat' = feat /\ inR' = inR /\ seeded' = seeded /\ dirty' = dirty
      /\ stale' = stale /\ abort' = abort
  BY DEF Begin, light
<1>2. Ordered'
  BY <1>1 DEF IInv, Ordered
<1>3. Flags'
  BY <1>1 DEF IInv, Flags, Finished
<1>4. StaleCause'
  BY <1>1 DEF IInv, StaleCause
<1>5. NoAbort'
  BY <1>1 DEF IInv, NoAbort
<1> QED
  BY <1>2, <1>3, <1>4, <1>5 DEF IInv

\* The set of the chunks of returned events grows by the event that returns.
LEMMA FinishedGrows ==
  ASSUME NEW e, done' = done \cup {e}, NEW kind
  PROVE  Finished(kind)' = IF Kind(e) = kind THEN Finished(kind) \cup {At(e)} ELSE Finished(kind)
BY DEF Finished

\* No prepare that has returned lies behind a decoration that has not.
LEMMA PreparesBefore ==
  ASSUME Ordered, NEW e \in Event, e \notin done, Kind(e) = "deco"
  PROVE  \A p \in done : Kind(p) = "prepare" => p < e
<1> SUFFICES ASSUME NEW p \in done, Kind(p) = "prepare"
             PROVE  p < e
  OBVIOUS
<1>1. p \in started /\ p \in Event /\ p # e
  BY DEF Ordered
<1>2. ~ e < p
  BY <1>1, ConflictFacts, NotOvertaken
<1> QED
  BY <1>1, <1>2, IndexTypes

\* A decoration returns: its live writes are in chunks with 08, and what it
\* leaves stale it leaves dirty.
LEMMA DecorateInv ==
  ASSUME IInv, NEW e \in Event, e \in started, e \notin done,
         done' = done \cup {e}, started' = started, edits' = edits, Decorate(e)
  PROVE  Flags' /\ StaleCause' /\ NoAbort'
<1> DEFINE written == Box(At(e), edits.reach)
           live == IF edits.lit THEN { c \in written : WindowLive(e, c) } ELSE {}
<1>1. /\ Kind(e) = "deco"
      /\ abort' = IF abort = "none" /\ ~ live \subseteq inR
                  THEN "live write into pre-08 chunk" ELSE abort
      /\ dirty' = (dirty \cup written) \ live
      /\ stale' = (stale \cup (written \cap inR)) \ live
      /\ feat' = feat \cup {At(e)} /\ inR' = inR /\ seeded' = seeded
  BY DEF Decorate
<1>2. Ordered /\ Flags /\ StaleCause /\ NoAbort
  BY DEF IInv
<1>3. At(e) \in Chunk
  BY <1>1, KindFacts
<1>4. written \subseteq Box(At(e), 1) /\ written \subseteq Box(At(e), 2)
  BY <1>2, <1>3, BoxFacts DEF Flags, Edits
<1>5. Earlier[e] \subseteq done
  BY <1>2 DEF Ordered
<1>6. live \subseteq inR
  BY <1>1, <1>2, <1>4, <1>5, LiveInWindow
<1> HIDE DEF written, live
<1>7. Flags'
  BY <1>1, <1>2, FinishedGrows DEF Flags
<1>8. NoAbort'
  BY <1>1, <1>2, <1>6 DEF NoAbort
<1>9. stale' \subseteq inR' /\ stale' \subseteq dirty'
  BY <1>1, <1>2 DEF StaleCause
<1>10. ASSUME NEW c \in stale'
       PROVE  \E g \in done' : /\ Kind(g) = "deco" /\ c \in Box(At(g), 1)
                               /\ \A p \in done' : Kind(p) = "prepare" => p < g
  <2>1. \A p \in done' : Kind(p) = "prepare" => p \in done
    BY <1>1
  <2>2. CASE c \in stale
    <3>1. PICK g \in done : /\ Kind(g) = "deco" /\ c \in Box(At(g), 1)
                            /\ \A p \in done : Kind(p) = "prepare" => p < g
      BY <1>2, <2>2 DEF StaleCause
    <3> QED
      BY <2>1, <3>1
  <2>3. CASE c \in written
    <3>1. \A p \in done : Kind(p) = "prepare" => p < e
      BY <1>1, <1>2, PreparesBefore
    <3> QED
      BY <1>1, <1>4, <2>1, <2>3, <3>1
  <2> QED
    BY <1>1, <2>2, <2>3
<1>11. StaleCause'
  BY <1>9, <1>10 DEF StaleCause
<1> QED
  BY <1>7, <1>8, <1>11

\* What keeps every cause: nothing new is stale, and no prepare returns.
LEMMA CauseKept ==
  ASSUME StaleCause, NEW e, Kind(e) # "prepare", done' = done \cup {e},
         stale' \subseteq stale, stale' \subseteq inR', stale' \subseteq dirty'
  PROVE  StaleCause'
<1>1. ASSUME NEW c \in stale'
      PROVE  \E g \in done' : /\ Kind(g) = "deco" /\ c \in Box(At(g), 1)
                              /\ \A p \in done' : Kind(p) = "prepare" => p < g
  <2>1. PICK g \in done : /\ Kind(g) = "deco" /\ c \in Box(At(g), 1)
                          /\ \A p \in done : Kind(p) = "prepare" => p < g
    BY DEF StaleCause
  <2> QED
    BY <2>1
<1> QED
  BY <1>1 DEF StaleCause

\* An 08 returns: the chunk was decorated before, and has no other 08.
LEMMA Init08Inv ==
  ASSUME IInv, NEW e \in Event, e \in started, e \notin done,
         done' = done \cup {e}, started' = started, edits' = edits, Init08(e)
  PROVE  Flags' /\ StaleCause' /\ NoAbort'
<1>1. /\ Kind(e) = "l08"
      /\ inR' = inR \cup {At(e)} /\ dirty' = dirty \ {At(e)} /\ stale' = stale \ {At(e)}
      /\ feat' = feat /\ seeded' = seeded
  BY DEF Init08
<1>2. Ordered /\ Flags /\ StaleCause /\ NoAbort
  BY DEF IInv
<1>3. At(e) \in feat
  <2>1. PICK d \in Event : d < e /\ Kind(d) = "deco" /\ At(d) = At(e)
    BY <1>1, DecoBefore08
  <2>2. At(e) \in Chunk
    BY <1>1, KindFacts
  <2>3. At(e) \in Box(At(e), 1) /\ At(e) \in Box(At(d), 2)
    BY <2>1, <2>2, BoxFacts
  <2>4. Conflict(CellLists, e, d)
    BY <1>1, <2>1, <2>3, ConflictFacts, RadiusFacts
  <2>5. d \in done
    BY <1>2, <2>1, <2>4, WaitedFor DEF Ordered
  <2> QED
    BY <1>2, <2>1, <2>5 DEF Flags, Finished
<1>4. At(e) \notin inR
  <2> SUFFICES ASSUME At(e) \in inR
               PROVE  FALSE
    OBVIOUS
  <2>1. PICK f \in done : Kind(f) = "l08" /\ At(f) = At(e)
    BY <1>2 DEF Flags, Finished
  <2>2. f \in Event
    BY <1>2 DEF Ordered
  <2> QED
    BY <1>1, <2>1, <2>2, One08
<1>5. NoAbort'
  BY <1>2, <1>3, <1>4 DEF NoAbort, Init08
<1>6. Flags'
  BY <1>1, <1>2, FinishedGrows DEF Flags
<1>7. StaleCause'
  <2>1. stale' \subseteq stale /\ stale' \subseteq inR' /\ stale' \subseteq dirty'
    BY <1>1, <1>2 DEF StaleCause
  <2> QED
    BY <1>1, <1>2, <2>1, CauseKept
<1> QED
  BY <1>5, <1>6, <1>7

\* A prepare returns: what was stale was registered and dirty, so it is derived
\* again and nothing is stale.
LEMMA PrepareInv ==
  ASSUME IInv, NEW e \in Event, done' = done \cup {e}, started' = started,
         edits' = edits, Prepare(e)
  PROVE  Flags' /\ StaleCause' /\ NoAbort'
<1>1. /\ Kind(e) = "prepare"
      /\ dirty' = dirty \ inR /\ stale' = stale \ (inR \cap dirty)
      /\ feat' = feat /\ inR' = inR /\ seeded' = seeded /\ abort' = abort
  BY DEF Prepare
<1>2. Ordered /\ Flags /\ StaleCause /\ NoAbort
  BY DEF IInv
<1>3. stale' = {}
  BY <1>1, <1>2 DEF StaleCause
<1>4. Flags'
  BY <1>1, <1>2, FinishedGrows DEF Flags
<1>5. StaleCause'
  BY <1>3 DEF StaleCause
<1>6. NoAbort'
  BY <1>1, <1>2 DEF NoAbort
<1> QED
  BY <1>4, <1>5, <1>6

\* A 09 returns: the chunk has its 08, and no other 09.
LEMMA Light09Inv ==
  ASSUME IInv, NEW e \in Event, e \in started, e \notin done,
         done' = done \cup {e}, started' = started, edits' = edits, Light09(e)
  PROVE  Flags' /\ StaleCause' /\ NoAbort'
<1>1. /\ Kind(e) = "l09"
      /\ seeded' = seeded \cup {At(e)}
      /\ feat' = feat /\ inR' = inR /\ dirty' = dirty /\ stale' = stale
  BY DEF Light09
<1>2. Ordered /\ Flags /\ StaleCause /\ NoAbort
  BY DEF IInv
<1>3. At(e) \in inR
  <2>1. At(e) \in Chunk
    BY <1>1, KindFacts
  <2>2. At(e) \in Box(At(e), 1)
    BY <2>1, BoxFacts
  <2> QED
    BY <1>1, <1>2, <2>2, LitAfter08 DEF Ordered
<1>4. At(e) \notin seeded
  <2> SUFFICES ASSUME At(e) \in seeded
               PROVE  FALSE
    OBVIOUS
  <2>1. PICK f \in done : Kind(f) = "l09" /\ At(f) = At(e)
    BY <1>2 DEF Flags, Finished
  <2>2. f \in Event
    BY <1>2 DEF Ordered
  <2> QED
    BY <1>1, <2>1, <2>2, One09
<1>5. NoAbort'
  BY <1>2, <1>3, <1>4 DEF NoAbort, Light09
<1>6. Flags'
  BY <1>1, <1>2, FinishedGrows DEF Flags
<1>7. StaleCause'
  BY <1>1, <1>2, CauseKept DEF StaleCause
<1> QED
  BY <1>5, <1>6, <1>7

LEMMA EndInv ==
  ASSUME IInv, NEW e \in Event, End(e)
  PROVE  IInv'
<1>1. /\ e \in started /\ e \notin done /\ done' = done \cup {e}
      /\ started' = started /\ edits' = edits
      /\ Decorate(e) \/ Init08(e) \/ Prepare(e) \/ Light09(e)
  BY DEF End
<1>2. Ordered'
  BY <1>1 DEF IInv, Ordered
<1>3. Flags' /\ StaleCause' /\ NoAbort'
  BY <1>1, DecorateInv, Init08Inv, PrepareInv, Light09Inv
<1> QED
  BY <1>2, <1>3 DEF IInv

\* Every step keeps the invariant.
LEMMA NextInv == IInv /\ [Next]_freeVars => IInv'
<1> SUFFICES ASSUME IInv, [Next]_freeVars
             PROVE  IInv'
  OBVIOUS
<1>1. CASE UNCHANGED freeVars
  BY <1>1 DEF freeVars, absVars, light, IInv, Ordered, Flags, Finished, StaleCause, NoAbort
<1>2. CASE Returned
  BY <1>2 DEF Returned, freeVars, absVars, light, IInv, Ordered, Flags, Finished,
              StaleCause, NoAbort
<1>3. ASSUME NEW e \in Event, Begin(e)
      PROVE  IInv'
  BY <1>3, BeginInv
<1>4. ASSUME NEW e \in Event, End(e)
      PROVE  IInv'
  BY <1>4, EndInv
<1> QED
  BY <1>1, <1>2, <1>3, <1>4 DEF Next

-----------------------------------------------------------------------------
(* What has been done when all events are.                                 *)

\* No chunk is lightable before the first bucket, all are after the last.
LEMMA PyramidEnds ==
  /\ Pyramid(24) = Lightable
  /\ Pyramid(-1) = {}
<1>1. \A c \in Decorated : c \in Chunk
  BY WorldFacts DEF Decorated, ToSet
<1>2. \A c \in Decorated : Bucket(c) \in 0 .. 24
  BY <1>1, BucketFacts
<1>3. Has08(24) = Decorated /\ Has08(-1) = {}
  BY <1>2 DEF Has08
<1>4. \A c \in Interior : c \in Box(c, 1)
  <2>1. Interior \subseteq Chunk
    BY DEF Interior
  <2> QED
    BY <2>1, BoxFacts
<1>5. Pyramid(24) = { c \in Interior \cap Decorated : Box(c, 1) \subseteq Decorated }
  BY <1>3 DEF Pyramid
<1>6. Lightable = { c \in Interior : Box(c, 1) \subseteq Decorated }
  BY DEF Lightable
<1>7. Pyramid(24) = Lightable
  BY <1>4, <1>5, <1>6
<1> QED
  BY <1>3, <1>7 DEF Pyramid

\* A lightable chunk became lightable with one of the buckets.
LEMMA SomeBucket ==
  ASSUME NEW c \in Lightable
  PROVE  \E b \in 0 .. 24 : c \in Newly(b)
<1> SUFFICES ASSUME \A b \in 0 .. 24 : c \notin Newly(b) PROVE FALSE
  OBVIOUS
<1>1. \A b \in 0 .. 24 : c \in Pyramid(b) => c \in Pyramid(b - 1)
  BY DEF Newly
<1>2. c \in Pyramid(24) /\ c \notin Pyramid(-1)
  BY PyramidEnds
<1>3. \A b \in 3 .. 24 : c \in Pyramid(b) => c \in Pyramid(b - 4)
  <2> TAKE b \in 3 .. 24
  <2>1. b - 1 \in 0 .. 24 /\ b - 2 \in 0 .. 24 /\ b - 3 \in 0 .. 24 /\ b \in 0 .. 24
    OBVIOUS
  <2>2. (b - 1) - 1 = b - 2 /\ (b - 2) - 1 = b - 3 /\ (b - 3) - 1 = b - 4
    OBVIOUS
  <2> HIDE <1>1
  <2> QED
    BY <1>1, <2>1, <2>2
<1>4. c \in Pyramid(24 - 4)
  BY <1>2, <1>3
<1>5. c \in Pyramid(20 - 4)
  BY <1>3, <1>4
<1>6. c \in Pyramid(16 - 4)
  BY <1>3, <1>5
<1>7. c \in Pyramid(12 - 4)
  BY <1>3, <1>6
<1>8. c \in Pyramid(8 - 4)
  BY <1>3, <1>7
<1>9. c \in Pyramid(4 - 4)
  BY <1>3, <1>8
<1>10. 4 - 4 = 0 /\ 0 \in 0 .. 24 /\ 0 - 1 = -1
  OBVIOUS
<1>11. c \in Pyramid(0)
  BY <1>9, <1>10
<1>12. c \in Pyramid(0 - 1)
  BY <1>1, <1>10, <1>11
<1> QED
  BY <1>2, <1>10, <1>12

\* The graph has a 09 for each lightable chunk, and for no other.
LEMMA Lit09 ==
  /\ \A c \in Lightable : \E e \in Event : Kind(e) = "l09" /\ At(e) = c
  /\ \A e \in Event : Kind(e) = "l09" => At(e) \in Lightable
<1>1. ASSUME NEW c \in Lightable
      PROVE  \E e \in Event : Kind(e) = "l09" /\ At(e) = c
  <2>1. PICK b \in 0 .. 24 : c \in Newly(b)
    BY SomeBucket
  <2>2. L09(c, b) \in EventSet
    BY <2>1 DEF EventSet, Batch
  <2>3. PICK e \in Event : Events[e + 1] = L09(c, b)
    BY <2>2, EventsFacts
  <2> QED
    BY <2>3 DEF Kind, At, L09, Ev
<1>2. ASSUME NEW e \in Event, Kind(e) = "l09"
      PROVE  At(e) \in Lightable
  <2>1. PICK b \in 0 .. 24 : \E c \in Newly(b) : At(e) = c
    BY <1>2, KindFacts
  <2>2. At(e) \in Pyramid(b)
    BY <2>1 DEF Newly
  <2>3. Has08(b) \subseteq Decorated
    BY DEF Has08
  <2> QED
    BY <2>2, <2>3 DEF Pyramid, Lightable
<1> QED
  BY <1>1, <1>2

\* All that is decorated and all that is lit, when every event has returned.
AllLit == done = Event => feat = Decorated /\ inR = Decorated /\ seeded = Lightable

LEMMA InvAllLit == Flags => AllLit
<1> SUFFICES ASSUME Flags, done = Event
             PROVE  feat = Decorated /\ inR = Decorated /\ seeded = Lightable
  BY DEF AllLit
<1>1. Decorated = { Manifest[k] : k \in DOMAIN Manifest }
  BY DEF Decorated, ToSet
<1>2. Finished("deco") = Decorated
  BY <1>1, IndexFacts, KindFacts DEF Finished
<1>3. Finished("l08") = Decorated
  BY <1>1, IndexFacts, KindFacts DEF Finished
<1>4. Finished("l09") = Lightable
  BY Lit09 DEF Finished
<1> QED
  BY <1>2, <1>3, <1>4 DEF Flags

-----------------------------------------------------------------------------
(* The theorems.                                                           *)

\* In every execution of the graph: events wait for their partners, the flags
\* tell what has returned, stale chunks have a cause, and nothing aborts.
THEOREM FreeInvariant == Spec => []IInv
BY InitInv, NextInv, PTL DEF Spec

\* Callbacks that run at the same time never touch the same data with one of
\* them writing: the cells push_event declares cover what the stages do.
THEOREM FreeNoRace == Spec => []NoRace
<1>1. IInv => NoRace
  BY OrderedNoRace DEF IInv
<1> QED
  BY <1>1, FreeInvariant, PTL

\* The filter of fw_light_write_hook, which compares indices fixed when the
\* graph was built, tells at any moment of a decoration what has happened.
THEOREM FreeWindowExact == Spec => []WindowExact
<1>1. IInv => WindowExact
  BY InvWindowExact DEF IInv
<1> QED
  BY <1>1, FreeInvariant, PTL

\* The light phases never abort, never flood over stale geometry, and the
\* chunks prepare skips were up to date.
THEOREM FreeLightSound == Spec => []LightSound
<1>1. IInv => LightSound
  BY InvLightSound
<1> QED
  BY <1>1, FreeInvariant, PTL
\* When the run is over, every chunk of the manifest is decorated and has its
\* 08, and the chunks that are lit are those whose 3 x 3 is decorated: what
\* EveryChunkLit says of the end, without the fairness that brings it about.
THEOREM FreeAllLit == Spec => []AllLit
<1>1. IInv => AllLit
  BY InvAllLit DEF IInv
<1> QED
  BY <1>1, FreeInvariant, PTL
==============================================================================
