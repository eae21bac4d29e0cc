----------------------------- MODULE SchedProofs -----------------------------
(***************************************************************************)
(* Proofs about hc_sched_run (core/src/sched.c, Sched.tla) for every event *)
(* list, cell space and pool: IInv is inductive, and type correctness, the *)
(* order of conflicting events, their mutual exclusion, the bound on the   *)
(* ready ring and the ordering contract of hc_sched.h follow from it.      *)
(***************************************************************************)
EXTENDS SchedInductive, SequenceTheorems, FiniteSetTheorems, FunctionTheorems, TLAPS

-----------------------------------------------------------------------------
(* Duplicate-free and ascending sequences of naturals, the form of the    *)
(* FIFOs, the barrier list and the ready ring.                            *)

\* Elements and indices.
LEMMA ElementsRange ==
  ASSUME NEW S, NEW s \in Seq(S)
  PROVE  /\ ElementsOf(s) \subseteq S
         /\ DOMAIN s = 1 .. Len(s)
         /\ Len(s) \in Nat
         /\ \A x : x \in ElementsOf(s) <=> \E i \in 1 .. Len(s) : s[i] = x
BY DEF ElementsOf

\* An empty sequence has no elements and conversely.
LEMMA ElementsEmpty ==
  ASSUME NEW S, NEW s \in Seq(S)
  PROVE  s = << >> <=> ElementsOf(s) = {}
BY DEF ElementsOf

\* Appending an element that exceeds all others keeps the order.
LEMMA AscendsAppend ==
  ASSUME NEW s \in Seq(Int), NEW x \in Int, Ascends(s), \A i \in DOMAIN s : s[i] < x
  PROVE  /\ Ascends(Append(s, x))
         /\ ElementsOf(Append(s, x)) = ElementsOf(s) \cup {x}
<1> DEFINE t == Append(s, x)
<1>1. /\ t \in Seq(Int) /\ Len(t) = Len(s) + 1 /\ Len(s) \in Nat
      /\ DOMAIN t = 1 .. Len(s) + 1 /\ DOMAIN s = 1 .. Len(s)
      /\ \A i \in 1 .. Len(s) : t[i] = s[i]
      /\ t[Len(s) + 1] = x
  BY AppendProperties, LenProperties
<1> HIDE DEF t
<1>2. ElementsOf(t) = ElementsOf(s) \cup {x}
  <2>1. ASSUME NEW y \in ElementsOf(t) PROVE y \in ElementsOf(s) \cup {x}
    <3>1. PICK i \in 1 .. Len(s) + 1 : t[i] = y
      BY <1>1 DEF ElementsOf
    <3>2. CASE i = Len(s) + 1
      BY <3>1, <3>2, <1>1
    <3>3. CASE i \in 1 .. Len(s)
      BY <3>1, <3>3, <1>1 DEF ElementsOf
    <3> QED BY <3>2, <3>3, <1>1
  <2>2. ASSUME NEW y \in ElementsOf(s) PROVE y \in ElementsOf(t)
    <3>1. PICK i \in 1 .. Len(s) : s[i] = y
      BY <1>1 DEF ElementsOf
    <3>2. i \in DOMAIN t /\ t[i] = y
      BY <3>1, <1>1
    <3> QED BY <3>2 DEF ElementsOf
  <2>3. x \in ElementsOf(t)
    <3>1. Len(s) + 1 \in DOMAIN t
      BY <1>1
    <3> QED BY <3>1, <1>1 DEF ElementsOf
  <2> QED BY <2>1, <2>2, <2>3
<1>3. Ascends(t)
  <2> SUFFICES ASSUME NEW i \in 1 .. Len(s) + 1, NEW j \in 1 .. Len(s) + 1, i < j
               PROVE  t[i] < t[j]
    BY <1>1 DEF Ascends
  <2>0. i \in 1 .. Len(s) /\ t[i] = s[i]
    BY <1>1
  <2>1. CASE j = Len(s) + 1
    BY <2>0, <2>1, <1>1
  <2>2. CASE j \in 1 .. Len(s)
    BY <2>0, <2>2, <1>1 DEF Ascends
  <2> QED BY <2>1, <2>2, <1>1
<1> QED BY <1>2, <1>3 DEF t

\* The head of an ascending sequence is its least element, and the tail holds
\* all the others, still ascending.
LEMMA AscendsHeadTail ==
  ASSUME NEW S, S \subseteq Int, NEW s \in Seq(S), s # << >>, Ascends(s)
  PROVE  /\ Head(s) \in ElementsOf(s)
         /\ \A y \in ElementsOf(s) : Head(s) <= y
         /\ Tail(s) \in Seq(S)
         /\ Ascends(Tail(s))
         /\ ElementsOf(Tail(s)) = ElementsOf(s) \ {Head(s)}
<1> DEFINE t == Tail(s)
<1>a. Len(s) \in Nat /\ DOMAIN s = 1 .. Len(s) /\ Len(s) # 0
  BY LenProperties, EmptySeq
<1>b. t \in Seq(S) /\ Len(t) = Len(s) - 1 /\ \A i \in 1 .. Len(t) : t[i] = s[i + 1]
  BY HeadTailProperties
<1>c. DOMAIN t = 1 .. Len(t)
  BY <1>b, LenProperties
<1>d. Head(s) = s[1]
  OBVIOUS
<1>e. \A i \in 1 .. Len(s) : s[i] \in Int
  BY ElementOfSeq
<1> HIDE DEF t
<1>1. /\ t \in Seq(S) /\ Len(t) = Len(s) - 1 /\ Len(s) \in Nat /\ Len(s) >= 1
      /\ DOMAIN t = 1 .. Len(s) - 1 /\ DOMAIN s = 1 .. Len(s)
      /\ \A i \in 1 .. Len(s) - 1 : t[i] = s[i + 1]
      /\ Head(s) = s[1]
      /\ \A i \in 1 .. Len(s) : s[i] \in Int
  BY <1>a, <1>b, <1>c, <1>d, <1>e
<1>2. Head(s) \in ElementsOf(s) /\ 1 \in DOMAIN s
  BY <1>1 DEF ElementsOf
<1>3. ASSUME NEW y \in ElementsOf(s) PROVE Head(s) <= y
  <2>1. PICK i \in 1 .. Len(s) : s[i] = y
    BY <1>1 DEF ElementsOf
  <2>2. CASE i = 1
    BY <2>1, <2>2, <1>1
  <2>3. CASE 1 < i
    <3>1. s[1] < s[i]
      BY <2>3, <1>1, <1>2 DEF Ascends
    <3>2. s[1] \in Int /\ s[i] \in Int
      BY <1>1
    <3> QED BY <3>1, <3>2, <2>1, <1>1
  <2> QED BY <2>2, <2>3, <1>1
<1>4. Ascends(t)
  <2> SUFFICES ASSUME NEW i \in DOMAIN t, NEW j \in DOMAIN t, i < j
               PROVE  t[i] < t[j]
    BY DEF Ascends
  <2>1. /\ i + 1 \in DOMAIN s /\ j + 1 \in DOMAIN s /\ i + 1 < j + 1
        /\ t[i] = s[i + 1] /\ t[j] = s[j + 1]
    BY <1>1
  <2>2. s[i + 1] < s[j + 1]
    BY <2>1 DEF Ascends
  <2> QED BY <2>1, <2>2
<1>5. ASSUME NEW y \in ElementsOf(t) PROVE y \in ElementsOf(s) \ {Head(s)}
  <2>1. PICK i \in 1 .. Len(s) - 1 : t[i] = y
    BY <1>1 DEF ElementsOf
  <2>2. i + 1 \in DOMAIN s /\ s[i + 1] = y /\ 1 < i + 1
    BY <2>1, <1>1
  <2>3. s[1] < s[i + 1]
    BY <2>2, <1>2 DEF Ascends
  <2>4. y \in Int /\ s[1] \in Int
    BY <2>2, <1>1
  <2>5. y \in ElementsOf(s)
    BY <2>2 DEF ElementsOf
  <2>6. y # Head(s)
    BY <2>2, <2>3, <2>4, <1>1
  <2> QED BY <2>5, <2>6
<1>6. ASSUME NEW y \in ElementsOf(s), y # Head(s) PROVE y \in ElementsOf(t)
  <2>1. PICK i \in 1 .. Len(s) : s[i] = y
    BY <1>1 DEF ElementsOf
  <2>2. i # 1
    BY <2>1, <1>6, <1>1
  <2>3. i - 1 \in DOMAIN t /\ t[i - 1] = y
    BY <2>1, <2>2, <1>1
  <2> QED BY <2>3 DEF ElementsOf
<1> QED BY <1>1, <1>2, <1>3, <1>4, <1>5, <1>6 DEF t

\* The least element of an ascending sequence is its head.
LEMMA LeastIsHead ==
  ASSUME NEW S, S \subseteq Int, NEW s \in Seq(S), Ascends(s),
         NEW x \in ElementsOf(s), \A y \in ElementsOf(s) : x <= y
  PROVE  s # << >> /\ Head(s) = x
<1>1. s # << >>
  BY ElementsEmpty
<1>2. Head(s) \in ElementsOf(s) /\ Head(s) <= x
  BY <1>1, AscendsHeadTail
<1>3. Head(s) \in Int /\ x \in Int
  BY <1>2, ElementsRange
<1> QED BY <1>1, <1>2, <1>3

\* The second element is the head of the tail.
LEMMA SecondIsNextHead ==
  ASSUME NEW S, NEW s \in Seq(S), s # << >>
  PROVE  /\ Len(s) > 1 <=> Tail(s) # << >>
         /\ Len(s) > 1 => Head(Tail(s)) = s[2]
<1>1. /\ Tail(s) \in Seq(S) /\ Len(Tail(s)) = Len(s) - 1 /\ Len(s) \in Nat
      /\ \A i \in 1 .. Len(Tail(s)) : Tail(s)[i] = s[i + 1]
  BY HeadTailProperties, LenProperties
<1>2. Len(s) > 1 <=> Tail(s) # << >>
  <2>1. Len(s) # 0
    BY <1>1, EmptySeq
  <2>2. Tail(s) = << >> <=> Len(Tail(s)) = 0
    BY <1>1, EmptySeq
  <2> QED BY <1>1, <2>1, <2>2
<1>3. ASSUME Len(s) > 1 PROVE Head(Tail(s)) = s[2]
  <2>1. Head(Tail(s)) = Tail(s)[1]
    BY <1>1, <1>2, <1>3
  <2> QED BY <2>1, <1>1, <1>3
<1> QED BY <1>2, <1>3

\* Taking the head off a duplicate-free sequence removes it for good.
LEMMA DistinctHeadTail ==
  ASSUME NEW S, NEW s \in Seq(S), s # << >>, Distinct(s)
  PROVE  /\ Head(s) \in ElementsOf(s)
         /\ Distinct(Tail(s))
         /\ ElementsOf(Tail(s)) = ElementsOf(s) \ {Head(s)}
<1> DEFINE t == Tail(s)
<1>a. Len(s) \in Nat /\ DOMAIN s = 1 .. Len(s) /\ Len(s) # 0
  BY LenProperties, EmptySeq
<1>b. t \in Seq(S) /\ Len(t) = Len(s) - 1 /\ \A i \in 1 .. Len(t) : t[i] = s[i + 1]
  BY HeadTailProperties
<1>c. DOMAIN t = 1 .. Len(t)
  BY <1>b, LenProperties
<1>d. Head(s) = s[1]
  OBVIOUS
<1> HIDE DEF t
<1>1. /\ 1 \in DOMAIN s
      /\ \A i \in DOMAIN t : i + 1 \in DOMAIN s /\ t[i] = s[i + 1] /\ i + 1 # 1
      /\ \A i \in DOMAIN s : i = 1 \/ (i - 1 \in DOMAIN t /\ t[i - 1] = s[i])
  BY <1>a, <1>b, <1>c
<1>2. Head(s) \in ElementsOf(s)
  BY <1>1, <1>d DEF ElementsOf
<1>3. Distinct(t)
  <2> SUFFICES ASSUME NEW i \in DOMAIN t, NEW j \in DOMAIN t, t[i] = t[j] PROVE i = j
    BY DEF Distinct
  <2>1. i + 1 = j + 1
    BY <1>1 DEF Distinct
  <2> QED BY <2>1, <1>a, <1>b, <1>c
<1>4. ElementsOf(t) = ElementsOf(s) \ {Head(s)}
  <2>1. ASSUME NEW i \in DOMAIN t PROVE t[i] \in ElementsOf(s) /\ t[i] # Head(s)
    BY <1>1, <1>d DEF ElementsOf, Distinct
  <2>2. ASSUME NEW i \in DOMAIN s, s[i] # Head(s) PROVE s[i] \in ElementsOf(t)
    BY <1>1, <1>d, <2>2 DEF ElementsOf
  <2> QED BY <2>1, <2>2 DEF ElementsOf
<1> QED BY <1>2, <1>3, <1>4 DEF t

\* Concatenating duplicate-free sequences with no common element.
LEMMA DistinctConcat ==
  ASSUME NEW S, NEW s \in Seq(S), NEW t \in Seq(S), Distinct(s), Distinct(t),
         ElementsOf(s) \cap ElementsOf(t) = {}
  PROVE  /\ s \o t \in Seq(S)
         /\ Distinct(s \o t)
         /\ ElementsOf(s \o t) = ElementsOf(s) \cup ElementsOf(t)
<1> DEFINE u == s \o t
           m == Len(s)
           n == Len(t)
<1>1. /\ u \in Seq(S) /\ m \in Nat /\ n \in Nat
      /\ DOMAIN u = 1 .. m + n /\ DOMAIN s = 1 .. m /\ DOMAIN t = 1 .. n
      /\ \A i \in 1 .. m : u[i] = s[i]
      /\ \A i \in 1 .. n : u[m + i] = t[i]
  BY ConcatProperties, LenProperties
<1>2. \A i \in 1 .. m + n : i \in 1 .. m \/ \E k \in 1 .. n : i = m + k
  <2>1. ASSUME NEW i \in 1 .. m + n, i \notin 1 .. m
        PROVE  \E k \in 1 .. n : i = m + k
    <3>1. i - m \in 1 .. n /\ i = m + (i - m)
      BY <1>1, <2>1
    <3> QED BY <3>1
  <2> QED BY <2>1
<1> HIDE DEF u, m, n
<1>3. ElementsOf(u) = ElementsOf(s) \cup ElementsOf(t)
  <2>1. ASSUME NEW y \in ElementsOf(u) PROVE y \in ElementsOf(s) \cup ElementsOf(t)
    <3>1. PICK i \in 1 .. m + n : u[i] = y
      BY <1>1 DEF ElementsOf
    <3>2. CASE i \in 1 .. m
      BY <3>1, <3>2, <1>1 DEF ElementsOf
    <3>3. CASE \E k \in 1 .. n : i = m + k
      BY <3>1, <3>3, <1>1 DEF ElementsOf
    <3> QED BY <3>2, <3>3, <1>2
  <2>2. ASSUME NEW i \in 1 .. m PROVE s[i] \in ElementsOf(u)
    <3>1. i \in DOMAIN u /\ u[i] = s[i]
      BY <1>1
    <3> QED BY <3>1 DEF ElementsOf
  <2>3. ASSUME NEW i \in 1 .. n PROVE t[i] \in ElementsOf(u)
    <3>1. m + i \in DOMAIN u /\ u[m + i] = t[i]
      BY <1>1
    <3> QED BY <3>1 DEF ElementsOf
  <2>4. ASSUME NEW y \in ElementsOf(s) PROVE y \in ElementsOf(u)
    BY <2>2, <1>1 DEF ElementsOf
  <2>5. ASSUME NEW y \in ElementsOf(t) PROVE y \in ElementsOf(u)
    BY <2>3, <1>1 DEF ElementsOf
  <2> QED BY <2>1, <2>4, <2>5
<1>4. ASSUME NEW i \in 1 .. m + n, NEW j \in 1 .. m + n, u[i] = u[j]
      PROVE  i = j
  <2>1. CASE i \in 1 .. m /\ j \in 1 .. m
    BY <2>1, <1>1, <1>4 DEF Distinct
  <2>2. CASE i \in 1 .. m /\ j \notin 1 .. m
    <3>1. PICK k \in 1 .. n : j = m + k
      BY <1>2, <2>2
    <3>2. s[i] = t[k] /\ s[i] \in ElementsOf(s) /\ t[k] \in ElementsOf(t)
      BY <3>1, <2>2, <1>1, <1>4 DEF ElementsOf
    <3> QED BY <3>2
  <2>3. CASE i \notin 1 .. m /\ j \in 1 .. m
    <3>1. PICK k \in 1 .. n : i = m + k
      BY <1>2, <2>3
    <3>2. s[j] = t[k] /\ s[j] \in ElementsOf(s) /\ t[k] \in ElementsOf(t)
      BY <3>1, <2>3, <1>1, <1>4 DEF ElementsOf
    <3> QED BY <3>2
  <2>4. CASE i \notin 1 .. m /\ j \notin 1 .. m
    <3>1. PICK k \in 1 .. n : i = m + k
      BY <1>2, <2>4
    <3>2. PICK l \in 1 .. n : j = m + l
      BY <1>2, <2>4
    <3>3. t[k] = t[l]
      BY <3>1, <3>2, <1>1, <1>4
    <3>4. k = l
      BY <3>3, <1>1 DEF Distinct
    <3> QED BY <3>1, <3>2, <3>4
  <2> QED BY <2>1, <2>2, <2>3, <2>4
<1> QED BY <1>1, <1>3, <1>4 DEF Distinct, u

\* A duplicate-free sequence over a finite set is no longer than the set.
LEMMA DistinctLength ==
  ASSUME NEW S, IsFiniteSet(S), NEW s \in Seq(S), Distinct(s)
  PROVE  Len(s) <= Cardinality(S)
<1>1. /\ Len(s) \in Nat
      /\ s \in Injection(1 .. Len(s), S)
  BY LenProperties DEF Distinct, Injection, IsInjective
<1>2. Cardinality(1 .. Len(s)) <= Cardinality(S)
  BY <1>1, FS_Injection
<1>3. Cardinality(1 .. Len(s)) = Len(s)
  <2>1. Len(s) \in Nat
    BY <1>1
  <2> QED BY <2>1, FS_Interval, SMTT(40)
<1> QED BY <1>2, <1>3

\* A duplicate-free sequence is as long as its set of elements is large.
LEMMA DistinctCardinality ==
  ASSUME NEW S, NEW s \in Seq(S), Distinct(s)
  PROVE  /\ IsFiniteSet(ElementsOf(s))
         /\ Cardinality(ElementsOf(s)) = Len(s)
<1>1. /\ Len(s) \in Nat
      /\ DOMAIN s = 1 .. Len(s)
      /\ s \in [1 .. Len(s) -> S]
  BY LenProperties
<1>2. s \in Bijection(1 .. Len(s), ElementsOf(s))
  BY <1>1 DEF Distinct, Bijection, Injection, Surjection, IsInjective, ElementsOf
<1>3. IsFiniteSet(1 .. Len(s)) /\ Cardinality(1 .. Len(s)) = Len(s)
  BY <1>1, FS_Interval, SMTT(40)
<1>4. ExistsBijection(1 .. Len(s), ElementsOf(s))
  BY <1>2 DEF ExistsBijection
<1> QED BY <1>3, <1>4, FS_Bijection

USE NAssumption, InputsAssumption

-----------------------------------------------------------------------------
(* Events and their cells.                                                 *)

\* Sets of events are finite, and the events are N in number.
LEMMA EventsFinite ==
  /\ Event \subseteq Nat
  /\ IsFiniteSet(Event)
  /\ Cardinality(Event) = N
  /\ \A S \in SUBSET Event : IsFiniteSet(S) /\ Cardinality(S) \in Nat /\ Cardinality(S) <= N
<1>1. Event \subseteq Nat
  BY DEF Event
<1>2. IsFiniteSet(Event) /\ Cardinality(Event) = N
  <2>1. 0 \in Int /\ N - 1 \in Int
    OBVIOUS
  <2>2. IsFiniteSet(0 .. N - 1) /\ Cardinality(0 .. N - 1) = IF 0 > N - 1 THEN 0 ELSE N - 1 - 0 + 1
    BY <2>1, FS_Interval
  <2> QED BY <2>2 DEF Event
<1>3. \A S \in SUBSET Event : IsFiniteSet(S) /\ Cardinality(S) \in Nat /\ Cardinality(S) <= N
  BY <1>2, FS_Subset, FS_CardinalityType
<1> QED BY <1>1, <1>2, <1>3

\* A duplicate-free cell list is as long as its set of cells, and an event is
\* head on as many of them, or fewer.
LEMMA TouchFacts ==
  ASSUME Shapes, NEW e \in Event
  PROVE  /\ evs[e] \in Seq(Cell)
         /\ Touch(e) = ElementsOf(evs[e])
         /\ Touch(e) \subseteq Cell
         /\ IsFiniteSet(Touch(e))
         /\ Cardinality(Touch(e)) = Len(evs[e])
         /\ Cardinality(Touch(e)) \in Nat
         /\ Barrier(e) <=> Touch(e) = {}
<1>1. evs \in [Event -> Seq(Cell)]
  BY DEF Shapes
<1>2. evs[e] \in Seq(Cell) /\ Distinct(evs[e])
  BY <1>1, DuplicateFree DEF Shapes
<1>3. Touch(e) = ElementsOf(evs[e])
  BY DEF Touch, CellsOf, ElementsOf
<1>4. Touch(e) \subseteq Cell
  BY <1>2, <1>3, ElementsRange
<1>5. IsFiniteSet(Touch(e)) /\ Cardinality(Touch(e)) = Len(evs[e])
  BY <1>2, <1>3, DistinctCardinality
<1>6. Barrier(e) <=> Touch(e) = {}
  BY <1>2, <1>3, ElementsEmpty DEF Barrier, IsBarrier
<1>7. Len(evs[e]) \in Nat
  BY <1>2, LenProperties
<1> QED BY <1>2, <1>3, <1>4, <1>5, <1>6, <1>7

\* The heads of an event are among its cells.
LEMMA HeadCellsFacts ==
  ASSUME Shapes, NEW e \in Event, NEW q
  PROVE  /\ HeadCells(q, e) \subseteq Touch(e)
         /\ IsFiniteSet(HeadCells(q, e))
         /\ Cardinality(HeadCells(q, e)) \in Nat
         /\ Cardinality(HeadCells(q, e)) <= Cardinality(Touch(e))
         /\ Cardinality(HeadCells(q, e)) = Cardinality(Touch(e)) => HeadCells(q, e) = Touch(e)
<1>1. HeadCells(q, e) \in SUBSET Touch(e)
  BY DEF HeadCells
<1>2. IsFiniteSet(Touch(e))
  BY TouchFacts
<1> QED BY <1>1, <1>2, FS_Subset, FS_CardinalityType

\* An event that is head of all its cells comes after no incomplete event that
\* shares one of them.
LEMMA HeadEverywhereIsFirst ==
  ASSUME Shapes, NEW q \in [Cell -> Seq(Event)], NEW D, FifoOK(q, N + 1, D),
         NEW e \in Event, Cardinality(HeadCells(q, e)) = Cardinality(Touch(e)),
         NEW f \in Event, f < e, Touch(e) \cap Touch(f) # {}
  PROVE  f \in D
<1> SUFFICES ASSUME f \notin D PROVE FALSE
  OBVIOUS
<1>1. PICK c \in Touch(e) : c \in Touch(f)
  OBVIOUS
<1>2. c \in Cell
  BY TouchFacts
<1>3. c \in HeadCells(q, e)
  BY HeadCellsFacts
<1>4. q[c] # << >> /\ Head(q[c]) = e
  BY <1>3 DEF HeadCells
<1>5. f \in ElementsOf(q[c])
  BY <1>1, <1>2 DEF FifoOK, Event
<1>6. q[c] \in Seq(Event) /\ Ascends(q[c]) /\ Event \subseteq Int
  BY <1>2, EventsFinite DEF FifoOK
<1>7. Head(q[c]) <= f
  BY <1>4, <1>5, <1>6, AscendsHeadTail
<1> QED BY <1>4, <1>6, <1>7

\* As many events below g as there are places below g: all of them.
LEMMA FullPrefix ==
  ASSUME NEW g \in Nat, NEW D \in SUBSET Nat, IsFiniteSet(D), Cardinality(D) = g,
         \A d \in D : d < g
  PROVE  D = 0 .. g - 1
<1>1. D \in SUBSET (0 .. g - 1)
  OBVIOUS
<1>2. 0 \in Int /\ g - 1 \in Int
  OBVIOUS
<1>3. IsFiniteSet(0 .. g - 1) /\ Cardinality(0 .. g - 1) = IF 0 > g - 1 THEN 0 ELSE g - 1 - 0 + 1
  BY <1>2, FS_Interval
<1>4. Cardinality(0 .. g - 1) = Cardinality(D)
  BY <1>3
<1> QED BY <1>1, <1>3, <1>4, FS_Subset

\* The lists Arm and complete() append to the ready ring.
LEMMA OrdersFacts ==
  ASSUME NEW S \in SUBSET Event, NEW s \in Orders(S)
  PROVE  s \in Seq(Event) /\ Distinct(s) /\ ElementsOf(s) = S
<1>1. Cardinality(S) \in Nat
  BY EventsFinite
<1>2. s \in [1 .. Cardinality(S) -> Event]
  BY DEF Orders
<1>3. s \in Seq(Event)
  BY <1>1, <1>2
<1> QED BY <1>3 DEF Orders

LEMMA BarrierReadyFacts ==
  ASSUME NEW gs \in Seq(Event), NEW k
  PROVE  /\ BarrierReady(gs, k) \in Seq(Event)
         /\ Distinct(BarrierReady(gs, k))
         /\ ElementsOf(BarrierReady(gs, k)) = IF gs # << >> /\ Head(gs) = k THEN {k} ELSE {}
<1>1. CASE gs # << >> /\ Head(gs) = k
  <2>1. BarrierReady(gs, k) = << k >> /\ k \in Event
    BY <1>1, HeadTailProperties DEF BarrierReady
  <2> QED BY <1>1, <2>1 DEF Distinct, ElementsOf
<1>2. CASE ~(gs # << >> /\ Head(gs) = k)
  <2>1. BarrierReady(gs, k) = << >>
    BY <1>2 DEF BarrierReady
  <2> QED BY <1>2, <2>1 DEF Distinct, ElementsOf
<1> QED BY <1>1, <1>2

\* What a barrier list says about a barrier that is not done.
LEMMA LimitFacts ==
  ASSUME NEW gs \in Seq(Event), NEW D, BarriersOK(gs, N + 1, D)
  PROVE  /\ LimitOf(gs) \in Nat
         /\ gs = << >> => LimitOf(gs) = N
         /\ gs # << >> => /\ LimitOf(gs) = Head(gs) /\ Head(gs) \in Event
                          /\ Barrier(Head(gs)) /\ Head(gs) \notin D
         /\ \A f \in Event : Barrier(f) /\ f \notin D => LimitOf(gs) <= f
<1>1. CASE gs = << >>
  <2>1. ElementsOf(gs) = {}
    BY <1>1, ElementsEmpty
  <2> QED BY <1>1, <2>1 DEF LimitOf, BarriersOK, Event
<1>2. CASE gs # << >>
  <2>1. /\ Head(gs) \in ElementsOf(gs)
        /\ \A y \in ElementsOf(gs) : Head(gs) <= y
    <3>1. Ascends(gs) /\ Event \subseteq Int
      BY EventsFinite DEF BarriersOK
    <3> QED BY <1>2, <3>1, AscendsHeadTail
  <2>2. LimitOf(gs) = Head(gs) /\ Head(gs) \in Event /\ Event \subseteq Nat
    BY <1>2, <2>1, ElementsRange, EventsFinite DEF LimitOf
  <2>3. \A f \in Event : Barrier(f) /\ f \notin D => f \in ElementsOf(gs)
    BY DEF BarriersOK, Event
  <2> QED BY <1>2, <2>1, <2>2, <2>3 DEF BarriersOK
<1> QED BY <1>1, <1>2
-----------------------------------------------------------------------------
(* The completion of an issued event.                                      *)

\* The FIFOs, and the done events, once e has completed.
QueueAfter(e) == [c \in Cell |-> IF c \in Touch(e) THEN Tail(queue[c]) ELSE queue[c]]
DoneAfter(e) == done \cup {e}

\* An issued, incomplete event heads all its FIFOs.
LEMMA IssuedIsHead ==
  ASSUME IInv, Armed, NEW e \in Event, e \in Issued, e \notin done, NEW c \in Touch(e)
  PROVE  /\ c \in Cell
         /\ queue[c] \in Seq(Event)
         /\ Ascends(queue[c])
         /\ queue[c] # << >>
         /\ Head(queue[c]) = e
<1> USE DEF IInv
<1>1. c \in Cell
  BY TouchFacts
<1>2. queue[c] \in Seq(Event)
  BY <1>1 DEF Shapes
<1>3. /\ Ascends(queue[c])
      /\ ElementsOf(queue[c]) = { f \in Event : f < built /\ c \in Touch(f) /\ f \notin done }
  BY <1>1 DEF QueueInv, FifoOK
<1>4. e \in ElementsOf(queue[c])
  BY <1>3 DEF Armed, Event
<1>5. ASSUME NEW y \in ElementsOf(queue[c]) PROVE e <= y
  <2>1. y \in Event /\ c \in Touch(y) /\ y \notin done
    BY <1>3
  <2>2. Conflict(evs, e, y)
    BY <2>1 DEF Conflict, Touch
  <2>3. ~(y < e)
    BY <2>1, <2>2 DEF BaseOrderKept
  <2> QED BY <2>1, <2>3, EventsFinite
<1>6. Event \subseteq Int
  BY EventsFinite
<1>7. queue[c] # << >> /\ Head(queue[c]) = e
  BY <1>2, <1>3, <1>4, <1>5, <1>6, LeastIsHead
<1> QED BY <1>1, <1>2, <1>3, <1>7

\* Completing e pops exactly e from its FIFOs.
LEMMA QueueAfterFacts ==
  ASSUME IInv, Armed, NEW e \in Event, e \in Issued, e \notin done
  PROVE  /\ QueueAfter(e) \in [Cell -> Seq(Event)]
         /\ FifoOK(QueueAfter(e), built, DoneAfter(e))
<1>1. ASSUME NEW c \in Cell
      PROVE  /\ QueueAfter(e)[c] \in Seq(Event)
             /\ Ascends(QueueAfter(e)[c])
             /\ ElementsOf(QueueAfter(e)[c]) =
                  { f \in Event : f < built /\ c \in Touch(f) /\ f \notin DoneAfter(e) }
  <2>1. /\ queue[c] \in Seq(Event)
        /\ Ascends(queue[c])
        /\ ElementsOf(queue[c]) = { f \in Event : f < built /\ c \in Touch(f) /\ f \notin done }
    BY DEF IInv, Shapes, QueueInv, FifoOK
  <2>2. CASE c \in Touch(e)
    <3>1. queue[c] # << >> /\ Head(queue[c]) = e
      BY <2>2, IssuedIsHead
    <3>2. Event \subseteq Int
      BY EventsFinite
    <3>3. /\ Tail(queue[c]) \in Seq(Event)
          /\ Ascends(Tail(queue[c]))
          /\ ElementsOf(Tail(queue[c])) = ElementsOf(queue[c]) \ {e}
      BY <2>1, <3>1, <3>2, AscendsHeadTail
    <3>4. QueueAfter(e)[c] = Tail(queue[c])
      BY <2>2 DEF QueueAfter
    <3> QED BY <2>1, <3>3, <3>4 DEF DoneAfter
  <2>3. CASE c \notin Touch(e)
    <3>1. QueueAfter(e)[c] = queue[c]
      BY <2>3 DEF QueueAfter
    <3> QED BY <2>1, <2>3, <3>1 DEF DoneAfter
  <2> QED BY <2>2, <2>3
<1> QED BY <1>1 DEF FifoOK, QueueAfter

\* The cells at which another event h is head afterwards: those where it was,
\* and, disjoint from them, those where it follows e.
LEMMA NewHeads ==
  ASSUME IInv, Armed, NEW e \in Event, e \in Issued, e \notin done,
         NEW h \in Event, h # e
  PROVE  /\ HeadCells(QueueAfter(e), h) = HeadCells(queue, h) \cup NewHeadCells(e, h)
         /\ HeadCells(queue, h) \cap NewHeadCells(e, h) = {}
<1>1. ASSUME NEW c \in Touch(e)
      PROVE  /\ queue[c] # << >> /\ Head(queue[c]) = e
             /\ QueueAfter(e)[c] = Tail(queue[c])
             /\ c \in Cell
             /\ Len(queue[c]) > 1 <=> Tail(queue[c]) # << >>
             /\ Len(queue[c]) > 1 => Head(Tail(queue[c])) = queue[c][2]
             /\ Len(queue[c]) > 1 => queue[c][2] \in ElementsOf(QueueAfter(e)[c])
  <2>1. c \in Cell /\ queue[c] \in Seq(Event) /\ queue[c] # << >> /\ Head(queue[c]) = e
        /\ Ascends(queue[c])
    BY IssuedIsHead
  <2>2. QueueAfter(e)[c] = Tail(queue[c])
    BY <2>1 DEF QueueAfter
  <2>3. /\ Len(queue[c]) > 1 <=> Tail(queue[c]) # << >>
        /\ Len(queue[c]) > 1 => Head(Tail(queue[c])) = queue[c][2]
    BY <2>1, SecondIsNextHead
  <2>4. Event \subseteq Int
    BY EventsFinite
  <2>5. Tail(queue[c]) \in Seq(Event) /\ Ascends(Tail(queue[c]))
    BY <2>1, <2>4, AscendsHeadTail
  <2>6. Len(queue[c]) > 1 => Head(Tail(queue[c])) \in ElementsOf(Tail(queue[c]))
    BY <2>3, <2>4, <2>5, AscendsHeadTail
  <2> QED BY <2>1, <2>2, <2>3, <2>6
<1>2. NewHeadCells(e, h) \subseteq Touch(h)
  <2> SUFFICES ASSUME NEW c \in NewHeadCells(e, h) PROVE c \in Touch(h)
    OBVIOUS
  <2>1. c \in Touch(e) /\ Len(queue[c]) > 1 /\ queue[c][2] = h
    BY DEF NewHeadCells, NextHead
  <2>2. h \in ElementsOf(QueueAfter(e)[c]) /\ c \in Cell
    BY <1>1, <2>1
  <2> QED BY <2>2, QueueAfterFacts DEF FifoOK
<1>3. ASSUME NEW c \in Touch(h)
      PROVE  c \in HeadCells(QueueAfter(e), h) <=> c \in HeadCells(queue, h) \cup NewHeadCells(e, h)
  <2>1. CASE c \in Touch(e)
    <3>1. c \notin HeadCells(queue, h)
      BY <1>1, <2>1 DEF HeadCells
    <3>2. c \in HeadCells(QueueAfter(e), h) <=> Tail(queue[c]) # << >> /\ Head(Tail(queue[c])) = h
      BY <1>1, <2>1 DEF HeadCells
    <3>3. c \in NewHeadCells(e, h) <=> Len(queue[c]) > 1 /\ queue[c][2] = h
      BY <2>1 DEF NewHeadCells, NextHead
    <3>4. /\ Len(queue[c]) > 1 <=> Tail(queue[c]) # << >>
          /\ Len(queue[c]) > 1 => Head(Tail(queue[c])) = queue[c][2]
      BY <1>1, <2>1
    <3> QED BY <3>1, <3>2, <3>3, <3>4
  <2>2. CASE c \notin Touch(e)
    <3>1. c \in Cell
      BY TouchFacts DEF IInv
    <3>2. QueueAfter(e)[c] = queue[c]
      BY <2>2, <3>1 DEF QueueAfter
    <3> QED BY <2>2, <3>2 DEF HeadCells, NewHeadCells
  <2> QED BY <2>1, <2>2
<1>4. HeadCells(queue, h) \cap NewHeadCells(e, h) = {}
  BY <1>1 DEF HeadCells, NewHeadCells
<1>5. HeadCells(QueueAfter(e), h) \subseteq Touch(h) /\ HeadCells(queue, h) \subseteq Touch(h)
  BY DEF HeadCells
<1> QED BY <1>2, <1>3, <1>4, <1>5

\* wait[] afterwards, and when it becomes 0.
LEMMA WaitAfter ==
  ASSUME IInv, Armed, NEW e \in Event, e \in Issued, e \notin done,
         NEW h \in Event, h # e, h \notin done
  PROVE  LET w == wait[h] - Cardinality(NewHeadCells(e, h)) IN
         /\ Cardinality(NewHeadCells(e, h)) \in Nat
         /\ w = Cardinality(Touch(h)) - Cardinality(HeadCells(QueueAfter(e), h))
         /\ w = 0 <=> wait[h] = 0 \/ h \in Freed(e)
         /\ h \in Freed(e) => wait[h] # 0
<1> DEFINE New == NewHeadCells(e, h)
           Old == HeadCells(queue, h)
           After == HeadCells(QueueAfter(e), h)
<1>1. After = Old \cup New /\ Old \cap New = {}
  BY NewHeads
<1>2. /\ IsFiniteSet(Old) /\ Cardinality(Old) \in Nat /\ Cardinality(Old) <= Cardinality(Touch(h))
      /\ IsFiniteSet(After) /\ Cardinality(After) \in Nat /\ Cardinality(After) <= Cardinality(Touch(h))
      /\ Cardinality(Touch(h)) \in Nat
  BY HeadCellsFacts, TouchFacts DEF IInv
<1>3. IsFiniteSet(New) /\ Cardinality(New) \in Nat
  <2>1. New \in SUBSET After
    BY <1>1
  <2> QED BY <2>1, <1>2, FS_Subset, FS_CardinalityType
<1>4. Cardinality(After) = Cardinality(Old) + Cardinality(New)
  <2>1. Cardinality(Old \cap New) = 0
    BY <1>1, FS_EmptySet
  <2>2. Cardinality(Old \cup New) = Cardinality(Old) + Cardinality(New) - Cardinality(Old \cap New)
    BY <1>2, <1>3, FS_Union
  <2> QED BY <1>1, <1>2, <1>3, <2>1, <2>2
<1>5. wait[h] = Cardinality(Touch(h)) - Cardinality(Old)
  BY DEF IInv, WaitInv
<1>6. New = {} <=> Cardinality(New) = 0
  BY <1>3, FS_EmptySet
<1>7. h \in Freed(e) <=> New # {} /\ wait[h] = Cardinality(New)
  BY DEF Freed
<1> HIDE DEF New, Old, After
<1> QED BY <1>2, <1>3, <1>4, <1>5, <1>6, <1>7 DEF New, Old, After
-----------------------------------------------------------------------------
(* IInv holds initially and is preserved by every action.                  *)

LEMMA InitIInv == Init => IInv
<1> SUFFICES ASSUME Init PROVE IInv
  OBVIOUS
<1> USE DEF Init, AbsInit
<1>1. Executing = {} /\ Issued = {}
  BY DEF Executing, Issued, ElementsOf
<1>2. 0 <= N /\ 0 # N + 1 /\ 0 \in 0 .. N + 1
  OBVIOUS
<1>3. Shapes
  BY <1>2, WorkerAssumption DEF Shapes
<1>4. PhaseInv
  BY <1>2 DEF PhaseInv, Armed
<1>5. CountInv
  BY FS_EmptySet DEF CountInv
<1>6. QueueInv /\ GlobalsInv
  <2>1. Ascends(<< >>) /\ ElementsOf(<< >>) = {}
    BY DEF Ascends, ElementsOf
  <2>2. \A f \in Event : ~(f < 0)
    BY EventsFinite
  <2>3. \A c \in Cell : queue[c] = << >>
    OBVIOUS
  <2> QED BY <2>1, <2>2, <2>3 DEF QueueInv, FifoOK, GlobalsInv, BarriersOK
<1>7. WaitInv /\ AdmitInv
  BY <1>2 DEF WaitInv, AdmitInv, Armed
<1>8. IssueInv /\ ParkInv /\ LimitInv /\ BaseOrderKept
  BY <1>1 DEF IssueInv, ParkInv, LimitInv, BaseOrderKept, Distinct, ElementsOf
<1> QED BY <1>3, <1>4, <1>5, <1>6, <1>7, <1>8 DEF IInv

\* Steps that touch neither the tables nor the events.
LEMMA QuietStep ==
  ASSUME IInv, UNCHANGED << evs, started, done, built, queue, wait, parked, globals,
                            ready, completed >>,
         Shapes', PhaseInv',
         \A w \in Worker : pc'[w] = "exec" => pc[w] = "exec" /\ running'[w] = running[w]
  PROVE  IInv'
<1> USE DEF IInv
<1>1. /\ CountInv' /\ QueueInv' /\ GlobalsInv' /\ WaitInv' /\ ParkInv' /\ AdmitInv' /\ LimitInv'
      /\ BaseOrderKept'
  BY DEF CountInv, QueueInv, FifoOK, GlobalsInv, BarriersOK, WaitInv, ParkInv, AdmitInv,
         LimitInv, BaseOrderKept, Issued, HeadCells, Touch, Barrier, Armed
<1>2. IssueInv'
  BY DEF IssueInv, Executing, Issued
<1> QED BY <1>1, <1>2

LEMMA OutOfArenaStep == IInv /\ OutOfArena => IInv'
<1> SUFFICES ASSUME IInv, OutOfArena PROVE IInv'
  OBVIOUS
<1> USE DEF OutOfArena, absVars, tables
<1>1. Shapes'
  BY DEF IInv, Shapes
<1>2. PhaseInv'
  BY DEF IInv, PhaseInv, Armed
<1> QED BY <1>1, <1>2, QuietStep

LEMMA AcquireStep == ASSUME IInv, NEW w \in Worker, Acquire(w) PROVE IInv'
<1> USE DEF Acquire, absVars, tables
<1>1. Shapes'
  BY DEF IInv, Shapes
<1>2. PhaseInv'
  BY DEF IInv, PhaseInv, Armed
<1>3. \A v \in Worker : pc'[v] = "exec" => pc[v] = "exec" /\ running'[v] = running[v]
  BY DEF IInv, Shapes
<1> QED BY <1>1, <1>2, <1>3, QuietStep

LEMMA TopWaitStep == ASSUME IInv, NEW w \in Worker, TopWait(w) PROVE IInv'
<1> USE DEF TopWait, absVars, tables
<1>1. Shapes'
  BY DEF IInv, Shapes
<1>2. PhaseInv'
  BY DEF IInv, PhaseInv, Armed
<1>3. \A v \in Worker : pc'[v] = "exec" => pc[v] = "exec" /\ running'[v] = running[v]
  BY DEF IInv, Shapes
<1> QED BY <1>1, <1>2, <1>3, QuietStep

LEMMA TopExitStep == ASSUME IInv, NEW w \in Worker, TopExit(w) PROVE IInv'
<1> USE DEF TopExit, absVars, tables
<1>1. Shapes'
  BY DEF IInv, Shapes
<1>2. PhaseInv'
  BY DEF IInv, PhaseInv, Armed
<1>3. \A v \in Worker : pc'[v] = "exec" => pc[v] = "exec" /\ running'[v] = running[v]
  BY DEF IInv, Shapes
<1> QED BY <1>1, <1>2, <1>3, QuietStep

LEMMA SpuriousWakeStep == ASSUME IInv, NEW w \in Worker, SpuriousWake(w) PROVE IInv'
<1> USE DEF SpuriousWake, absVars, tables
<1>1. Shapes'
  BY DEF IInv, Shapes
<1>2. PhaseInv'
  BY DEF IInv, PhaseInv, Armed
<1>3. \A v \in Worker : pc'[v] = "exec" => pc[v] = "exec" /\ running'[v] = running[v]
  BY DEF IInv, Shapes
<1> QED BY <1>1, <1>2, <1>3, QuietStep

LEMMA JoinStep == IInv /\ Join => IInv'
<1> SUFFICES ASSUME IInv, Join PROVE IInv'
  OBVIOUS
<1> USE DEF Join, absVars, tables
<1>1. Shapes'
  BY DEF IInv, Shapes
<1>2. PhaseInv'
  BY DEF IInv, PhaseInv, Armed
<1> QED BY <1>1, <1>2, QuietStep

LEMMA StutterStep == IInv /\ UNCHANGED vars => IInv'
<1> SUFFICES ASSUME IInv, UNCHANGED vars PROVE IInv'
  OBVIOUS
<1> USE DEF vars
<1>1. Shapes'
  BY DEF IInv, Shapes
<1>2. PhaseInv'
  BY DEF IInv, PhaseInv, Armed
<1> QED BY <1>1, <1>2, QuietStep

\* An event joins the FIFOs of its cells, or the barriers; it is later than
\* every event enlisted before it.
LEMMA EnlistStep == IInv /\ Enlist => IInv'
<1> SUFFICES ASSUME IInv, Enlist PROVE IInv'
  OBVIOUS
<1>0. /\ main = "build" /\ built < N /\ built' = built + 1
      /\ queue' = [c \in Cell |-> IF c \in Touch(built) THEN Append(queue[c], built) ELSE queue[c]]
      /\ globals' = IF Barrier(built) THEN Append(globals, built) ELSE globals
      /\ UNCHANGED << evs, started, done, wait, parked, ready, completed, mu, pc, running,
                      main, spurious >>
  BY DEF Enlist, absVars
<1>1. /\ built \in Event /\ built' = built + 1 /\ ~Armed /\ ~Armed'
      /\ started = {} /\ ready = << >> /\ parked = {} /\ done = {}
      /\ Event \subseteq Nat
  BY <1>0, EventsFinite DEF IInv, Shapes, PhaseInv, IssueInv, Armed, Event
<1>a. \A f \in Event : f < built' <=> f < built \/ f = built
  BY <1>1
<1>2. ASSUME NEW c \in Cell
      PROVE  /\ queue'[c] \in Seq(Event)
             /\ Ascends(queue'[c])
             /\ ElementsOf(queue'[c]) = { f \in Event : f < built' /\ c \in Touch(f) /\ f \notin done }
  <2>1. /\ queue[c] \in Seq(Event)
        /\ Ascends(queue[c])
        /\ ElementsOf(queue[c]) = { f \in Event : f < built /\ c \in Touch(f) /\ f \notin done }
    BY DEF IInv, Shapes, QueueInv, FifoOK
  <2>2. CASE c \in Touch(built)
    <3>1. queue'[c] = Append(queue[c], built)
      BY <1>0, <2>2
    <3>2. \A i \in DOMAIN queue[c] : queue[c][i] \in ElementsOf(queue[c])
      BY DEF ElementsOf
    <3>3. \A i \in DOMAIN queue[c] : queue[c][i] < built
      BY <2>1, <3>2 DEF BarriersOK
    <3>4. queue[c] \in Seq(Int) /\ built \in Int /\ Ascends(queue[c])
      <4>1. Event \subseteq Int
        BY EventsFinite
      <4> QED BY <1>1, <2>1, <4>1, SeqMonotonic DEF BarriersOK
    <3>5. queue'[c] \in Seq(Event)
      BY <1>1, <2>1, <3>1, AppendProperties
    <3>6. Ascends(queue'[c]) /\ ElementsOf(queue'[c]) = ElementsOf(queue[c]) \cup {built}
      BY <3>1, <3>3, <3>4, AscendsAppend
    <3> QED BY <1>1, <1>a, <2>1, <2>2, <3>5, <3>6
  <2>3. CASE c \notin Touch(built)
    <3>1. queue'[c] = queue[c]
      BY <1>0, <2>3
    <3>2. \A f \in Event : c \in Touch(f) => (f < built' <=> f < built)
      BY <1>1, <2>3
    <3> QED BY <2>1, <3>1, <3>2
  <2> QED BY <2>2, <2>3
<1>3. QueueInv'
  BY <1>0, <1>2 DEF QueueInv, FifoOK, Touch
<1>4. globals' \in Seq(Event) /\ BarriersOK(globals', built', done)
  <2>1. globals \in Seq(Event) /\ BarriersOK(globals, built, done)
    BY DEF IInv, Shapes, GlobalsInv
  <2>2. CASE Barrier(built)
    <3>1. globals' = Append(globals, built)
      BY <1>0, <2>2
    <3>2. \A i \in DOMAIN globals : globals[i] \in ElementsOf(globals)
      BY DEF ElementsOf
    <3>3. \A i \in DOMAIN globals : globals[i] < built
      BY <2>1, <3>2 DEF BarriersOK
    <3>4. globals \in Seq(Int) /\ built \in Int /\ Ascends(globals)
      <4>1. Event \subseteq Int
        BY EventsFinite
      <4> QED BY <1>1, <2>1, <4>1, SeqMonotonic DEF BarriersOK
    <3>5. globals' \in Seq(Event)
      BY <1>1, <2>1, <3>1, AppendProperties
    <3>6. Ascends(globals') /\ ElementsOf(globals') = ElementsOf(globals) \cup {built}
      BY <3>1, <3>3, <3>4, AscendsAppend
    <3> QED BY <1>1, <1>a, <2>1, <2>2, <3>5, <3>6 DEF BarriersOK
  <2>3. CASE ~Barrier(built)
    <3>1. globals' = globals
      BY <1>0, <2>3
    <3>2. \A f \in Event : Barrier(f) => (f < built' <=> f < built)
      BY <1>1, <2>3
    <3> QED BY <2>1, <3>1, <3>2 DEF BarriersOK
  <2> QED BY <2>2, <2>3
<1>5. GlobalsInv'
  BY <1>0, <1>4 DEF GlobalsInv, BarriersOK, Barrier
<1>6. Shapes'
  <2>1. queue' \in [Cell -> Seq(Event)]
    BY <1>0, <1>2
  <2>2. built' \in 0 .. N + 1
    BY <1>1 DEF Event
  <2> QED BY <1>0, <1>4, <2>1, <2>2 DEF IInv, Shapes
<1>7. PhaseInv'
  BY <1>0, <1>1 DEF IInv, PhaseInv, Armed
<1>8. CountInv' /\ WaitInv' /\ AdmitInv'
  BY <1>0, <1>1 DEF IInv, CountInv, WaitInv, AdmitInv
<1>9. Issued' = {} /\ Executing' = {} /\ ready' = ready
  BY <1>0, <1>1 DEF Issued, ElementsOf, IInv, PhaseInv, Executing
<1>10. IssueInv' /\ ParkInv' /\ LimitInv' /\ BaseOrderKept'
  BY <1>0, <1>1, <1>9 DEF IInv, IssueInv, ParkInv, LimitInv, BaseOrderKept
<1> QED BY <1>3, <1>5, <1>6, <1>7, <1>8, <1>10 DEF IInv

\* A worker takes the oldest ready event: it was queued, now it is started.
LEMMA TopPopStep == ASSUME IInv, NEW w \in Worker, TopPop(w) PROVE IInv'
<1> DEFINE e == Head(ready)
<1> USE DEF TopPop
<1>1. /\ ready \in Seq(Event) /\ ready # << >> /\ Distinct(ready)
      /\ e \in Event /\ Tail(ready) \in Seq(Event)
  BY HeadTailProperties DEF IInv, Shapes, IssueInv
<1>2. /\ e \in ElementsOf(ready)
      /\ Distinct(Tail(ready))
      /\ ElementsOf(Tail(ready)) = ElementsOf(ready) \ {e}
  BY <1>1, DistinctHeadTail
<1>3. Issued' = Issued
  BY <1>2 DEF Issued
<1>4. e \notin started /\ e \notin done
  BY <1>2 DEF IInv, IssueInv
<1>5. Shapes'
  BY <1>1 DEF IInv, Shapes
<1>6. PhaseInv'
  <2>1. Armed
    BY DEF IInv, PhaseInv
  <2> QED BY <2>1 DEF IInv, PhaseInv, Armed
<1>7. /\ CountInv' /\ QueueInv' /\ GlobalsInv' /\ WaitInv' /\ ParkInv' /\ AdmitInv' /\ LimitInv'
      /\ BaseOrderKept'
  BY <1>3 DEF IInv, CountInv, QueueInv, FifoOK, GlobalsInv, BarriersOK, WaitInv, ParkInv, AdmitInv,
         LimitInv, BaseOrderKept, HeadCells, Touch, Barrier, Armed
<1>8. IssueInv'
  <2>1. Executing' = Executing \cup {w} /\ w \notin Executing
    BY DEF IInv, Shapes, Executing
  <2>2. running'[w] = e /\ \A v \in Executing : running'[v] = running[v]
    BY <2>1 DEF IInv, Shapes
  <2>3. \A v \in Executing : running[v] \in started \ done
    BY DEF IInv, IssueInv
  <2>4. \A v \in Executing' : running'[v] \in started' \ done'
    BY <1>4, <2>1, <2>2, <2>3
  <2>5. \A u, v \in Executing' : u # v => running'[u] # running'[v]
    BY <1>4, <2>1, <2>2, <2>3 DEF IInv, IssueInv
  <2>6. Distinct(ready') /\ ElementsOf(ready') \cap started' = {}
    BY <1>2 DEF IInv, IssueInv
  <2>7. done' \subseteq started' /\ parked' \cap Issued' = {}
    BY <1>3 DEF IInv, IssueInv
  <2> QED BY <2>4, <2>5, <2>6, <2>7 DEF IssueInv
<1> QED BY <1>5, <1>6, <1>7, <1>8 DEF IInv
-----------------------------------------------------------------------------
(* Arming the tables.                                                      *)

\* Everything below a barrier is complete once as many events are complete.
LEMMA BarrierTurn ==
  ASSUME NEW g \in Event, NEW D \in SUBSET Event, Cardinality(D) = g, \A d \in D : d < g,
         NEW f \in Event, f < g
  PROVE  f \in D
<1>1. g \in Nat /\ IsFiniteSet(D) /\ D \in SUBSET Nat
  BY EventsFinite
<1>2. D = 0 .. g - 1
  BY <1>1, FullPrefix
<1>3. f \in 0 .. g - 1
  BY <1>1, EventsFinite
<1> QED BY <1>2, <1>3

\* Before a worker exists, the head-everywhere events below the first barrier
\* are ready, the others parked; event 0 is ready when it is a barrier.
LEMMA ArmStep == IInv /\ Arm => IInv'
<1> SUFFICES ASSUME IInv, Arm PROVE IInv'
  OBVIOUS
<1> DEFINE lim == LimitOf(globals)
           S == { e \in HeadEverywhere : e < lim }
           B == IF globals # << >> /\ Head(globals) = 0 THEN {0} ELSE {}
<1>0. /\ main = "build" /\ built = N /\ built' = N + 1 /\ main' = "join"
      /\ wait' = [e \in Event |-> Len(evs[e]) - Cardinality(HeadCells(queue, e))]
      /\ parked' = { e \in HeadEverywhere : e >= lim }
      /\ \E s \in Ascending(S) : ready' = s \o BarrierReady(globals, 0)
      /\ UNCHANGED << evs, started, done, queue, globals, completed, mu, pc, running, spurious >>
  BY DEF Arm, absVars
<1>1. /\ ~Armed /\ Armed' /\ started = {} /\ ready = << >> /\ parked = {} /\ done = {}
      /\ Executing = {} /\ completed = 0 /\ HeadEverywhere \subseteq Event
      /\ Shapes /\ globals \in Seq(Event) /\ queue \in [Cell -> Seq(Event)]
  BY <1>0, FS_EmptySet
  DEF IInv, Shapes, PhaseInv, IssueInv, CountInv, Armed, Executing, HeadEverywhere
<1>2. FifoOK(queue, N + 1, done) /\ BarriersOK(globals, N + 1, done)
  <2>1. FifoOK(queue, N, done) /\ BarriersOK(globals, N, done)
    BY <1>0 DEF IInv, QueueInv, GlobalsInv
  <2>2. \A e \in Event : e < N /\ e < N + 1
    BY DEF Event
  <2> QED BY <2>1, <2>2 DEF FifoOK, BarriersOK
<1>3. /\ lim \in Nat
      /\ globals # << >> => lim = Head(globals) /\ Head(globals) \in Event /\ Barrier(Head(globals))
      /\ \A f \in Event : Barrier(f) => lim <= f
  BY <1>1, <1>2, LimitFacts
<1>4. /\ S \in SUBSET Event
      /\ \A e \in S : ~Barrier(e) /\ e < lim
      /\ \A e \in B : Barrier(e) /\ e \in Event /\ e = lim /\ e = 0 /\ globals # << >> /\ e = Head(globals)
  BY <1>1, <1>3 DEF HeadEverywhere
<1>5. \A e \in S : e \notin B
  BY <1>4
<1>6. /\ ready' \in Seq(Event) /\ Distinct(ready')
      /\ ElementsOf(ready') = S \cup B
  <2>1. PICK s \in Ascending(S) : ready' = s \o BarrierReady(globals, 0)
    BY <1>0
  <2>2. s \in Seq(Event) /\ Distinct(s) /\ ElementsOf(s) = S
    BY <1>4, <2>1, OrdersFacts DEF Ascending
  <2>3. /\ BarrierReady(globals, 0) \in Seq(Event) /\ Distinct(BarrierReady(globals, 0))
        /\ ElementsOf(BarrierReady(globals, 0)) = B
    BY <1>1, BarrierReadyFacts
  <2>4. ElementsOf(s) \cap ElementsOf(BarrierReady(globals, 0)) = {}
    BY <2>2, <2>3, <1>5
  <2> QED BY <2>1, <2>2, <2>3, <2>4, DistinctConcat
<1>7. Issued' = S \cup B /\ Executing' = {}
  BY <1>0, <1>1, <1>6 DEF Issued, Executing
<1>8. ASSUME NEW e \in Event
      PROVE  /\ wait'[e] \in Int
             /\ wait'[e] = Cardinality(Touch(e)) - Cardinality(HeadCells(queue, e))
             /\ ~Barrier(e) => (e \in HeadEverywhere <=> wait'[e] = 0)
             /\ ~Barrier(e) /\ wait'[e] = 0 => Cardinality(HeadCells(queue, e)) = Cardinality(Touch(e))
  <2>1. /\ Len(evs[e]) = Cardinality(Touch(e)) /\ Cardinality(Touch(e)) \in Nat
        /\ Cardinality(HeadCells(queue, e)) \in Nat
    BY <1>1, TouchFacts, HeadCellsFacts
  <2>2. wait'[e] = Len(evs[e]) - Cardinality(HeadCells(queue, e))
    BY <1>0
  <2>3. ~Barrier(e) => (e \in HeadEverywhere <=> Len(evs[e]) = Cardinality(HeadCells(queue, e)))
    BY DEF HeadEverywhere
  <2> QED BY <2>1, <2>2, <2>3
<1>9. Shapes'
  <2>1. wait' \in [Event -> Int]
    BY <1>0, <1>8
  <2>2. parked' \subseteq Event /\ built' \in 0 .. N + 1
    BY <1>0, <1>1
  <2> QED BY <1>0, <1>6, <2>1, <2>2 DEF IInv, Shapes
<1>10. PhaseInv' /\ CountInv'
  BY <1>0, <1>1 DEF IInv, PhaseInv, CountInv, Armed
<1>11. QueueInv' /\ GlobalsInv'
  BY <1>0, <1>2 DEF QueueInv, GlobalsInv, FifoOK, BarriersOK, Touch, Barrier
<1>12. WaitInv'
  BY <1>0, <1>8 DEF WaitInv, HeadCells, Touch
<1>13. ParkInv'
  BY <1>0 DEF ParkInv, HeadEverywhere, Barrier
<1>14. AdmitInv'
  <2> SUFFICES ASSUME NEW e \in Event, ~Barrier(e)
               PROVE  e \in (S \cup B) \cup parked' <=> wait'[e] = 0
    BY <1>0, <1>7 DEF AdmitInv, Barrier
  <2>1. e \in S \cup parked' <=> e \in HeadEverywhere
    <3>1. e < lim \/ e >= lim
      BY <1>3, EventsFinite
    <3> QED BY <3>1, <1>0
  <2>2. e \notin B
    BY <1>4
  <2> QED BY <2>1, <2>2, <1>8
<1>15. IssueInv'
  <2>1. parked' \cap (S \cup B) = {}
    <3> SUFFICES ASSUME NEW e \in parked', e \in S \cup B PROVE FALSE
      OBVIOUS
    <3>1. e \in HeadEverywhere /\ e >= lim /\ e \in Event /\ ~Barrier(e)
      BY <1>0 DEF HeadEverywhere
    <3>2. ~(e < lim)
      BY <3>1, <1>3, EventsFinite
    <3> QED BY <1>4, <3>1, <3>2
  <2>2. started' = {} /\ done' = {}
    BY <1>0, <1>1
  <2> QED BY <1>6, <1>7, <2>1, <2>2 DEF IssueInv
<1>16. LimitInv'
  <2> SUFFICES ASSUME NEW e \in S \cup B
               PROVE  e < lim \/ (globals # << >> /\ e = Head(globals) /\ e = completed)
    BY <1>0, <1>7 DEF LimitInv
  <2> QED BY <1>1, <1>4
<1>17. BaseOrderKept'
  <2> SUFFICES ASSUME NEW e \in S \cup B, NEW f \in Event, f < e, Conflict(evs, e, f)
               PROVE  f \in done
    BY <1>0, <1>7 DEF BaseOrderKept
  <2>1. CASE e \in B
    BY <1>4, <2>1, EventsFinite
  <2>2. CASE e \in S
    <3>1. e \in Event /\ e \in HeadEverywhere /\ ~Barrier(e) /\ e < lim
      BY <1>4, <2>2
    <3>2. ~Barrier(f)
      BY <3>1, <1>3, EventsFinite
    <3>3. Touch(e) \cap Touch(f) # {}
      BY <3>1, <3>2 DEF Conflict, Barrier, Touch
    <3>4. Cardinality(HeadCells(queue, e)) = Cardinality(Touch(e))
      BY <3>1, <1>8
    <3> QED BY <3>1, <3>3, <3>4, <1>1, <1>2, HeadEverywhereIsFirst
  <2> QED BY <2>1, <2>2
<1> QED BY <1>9, <1>10, <1>11, <1>12, <1>13, <1>14, <1>15, <1>16, <1>17 DEF IInv
-----------------------------------------------------------------------------
(* The completion of an event preserves IInv.                              *)

\* The worker that finishes holds an issued, incomplete event, and the parts of
\* complete() common to barriers and other events do this.
LEMMA FinishFacts ==
  ASSUME IInv, NEW w \in Worker, FinishEvent(w)
  PROVE  LET e == running[w] IN
         /\ Armed /\ pc[w] = "exec"
         /\ e \in Event /\ e \in started /\ e \in Issued /\ e \notin done
         /\ completed' = completed + 1
         /\ done' = DoneAfter(e)
         /\ queue' = QueueAfter(e)
         /\ wait' = [h \in Event |-> wait[h] - Cardinality(NewHeadCells(e, h))]
         /\ pc' = [WakeAll(pc) EXCEPT ![w] = "top"]
         /\ mu' = w
         /\ UNCHANGED << evs, started, built, running, main, spurious >>
         /\ AdmitFreed(e) \/ PassBarrier(e)
<1>1. pc[w] = "exec"
  BY DEF FinishEvent
<1>2. Armed
  BY <1>1 DEF IInv, PhaseInv
<1>3. running[w] \in started \ done
  BY <1>1 DEF IInv, IssueInv, Executing
<1>4. started \subseteq Event
  BY DEF IInv, Shapes
<1> QED BY <1>1, <1>2, <1>3, <1>4 DEF FinishEvent, Complete, DoneAfter, QueueAfter, Issued

\* Freed events are incomplete and no barriers.
LEMMA FreedFacts ==
  ASSUME IInv, Armed, NEW e \in Event, e \in Issued, e \notin done, NEW h \in Freed(e)
  PROVE  /\ h \in Event /\ h \notin DoneAfter(e)
         /\ ~Barrier(h)
<1>1. h \in Event /\ NewHeadCells(e, h) # {}
  BY DEF Freed
<1>2. PICK c \in NewHeadCells(e, h) : TRUE
  BY <1>1
<1>3. c \in Touch(e) /\ Len(queue[c]) > 1 /\ queue[c][2] = h
  BY <1>2 DEF NewHeadCells, NextHead
<1>4. c \in Cell /\ queue[c] \in Seq(Event) /\ Ascends(queue[c]) /\ queue[c] # << >>
  BY <1>3, IssuedIsHead
<1>5. Event \subseteq Int
  BY EventsFinite
<1>6. Tail(queue[c]) \in Seq(Event) /\ Ascends(Tail(queue[c]))
  BY <1>4, <1>5, AscendsHeadTail
<1>7. Tail(queue[c]) # << >> /\ Head(Tail(queue[c])) = h
  BY <1>3, <1>4, SecondIsNextHead
<1>8. h \in ElementsOf(Tail(queue[c]))
  BY <1>5, <1>6, <1>7, AscendsHeadTail
<1>9. h \in ElementsOf(QueueAfter(e)[c])
  BY <1>3, <1>4, <1>8 DEF QueueAfter
<1>10. c \in Touch(h) /\ h \notin DoneAfter(e)
  BY <1>4, <1>9, QueueAfterFacts DEF FifoOK
<1>11. Shapes
  BY DEF IInv
<1>12. ~Barrier(h)
  BY <1>1, <1>10, <1>11, TouchFacts
<1> QED BY <1>1, <1>10, <1>12

\* The part of the proof that barriers and other events share: S is what is
\* admitted or released, besides the next barrier.
LEMMA CompleteStep ==
  ASSUME IInv, NEW w \in Worker, FinishEvent(w),
         NEW S \in SUBSET Event, NEW s \in Orders(S),
         ready' = ready \o s \o BarrierReady(globals', completed'),
         globals' \in Seq(Event), BarriersOK(globals', N + 1, DoneAfter(running[w])),
         parked' \subseteq Event,
         \A f \in Issued : f < LimitOf(globals'),
         \A h \in S : ~Barrier(h) /\ h < LimitOf(globals') /\ h \notin Issued
                      /\ h \notin DoneAfter(running[w]),
         \A h \in parked' : ~Barrier(h) /\ h >= LimitOf(globals'),
         \A h \in Event : ~Barrier(h) /\ h \notin DoneAfter(running[w])
                            => (h \in Issued \cup S \cup parked' <=> wait'[h] = 0)
  PROVE  IInv'
<1> DEFINE e == running[w]
           lim == LimitOf(globals')
           B == IF globals' # << >> /\ Head(globals') = completed' THEN {completed'} ELSE {}
<1>0. /\ Armed /\ pc[w] = "exec"
      /\ e \in Event /\ e \in started /\ e \in Issued /\ e \notin done
      /\ completed' = completed + 1
      /\ done' = DoneAfter(e)
      /\ queue' = QueueAfter(e)
      /\ wait' = [h \in Event |-> wait[h] - Cardinality(NewHeadCells(e, h))]
      /\ pc' = [WakeAll(pc) EXCEPT ![w] = "top"]
      /\ mu' = w
      /\ UNCHANGED << evs, started, built, running, main, spurious >>
  BY FinishFacts
<1> HIDE DEF e
<1>1. /\ lim \in Nat
      /\ globals' # << >> => /\ lim = Head(globals') /\ Head(globals') \in Event
                             /\ Barrier(Head(globals')) /\ Head(globals') \notin DoneAfter(e)
      /\ \A f \in Event : Barrier(f) /\ f \notin DoneAfter(e) => lim <= f
  BY LimitFacts DEF e
<1>2. /\ Shapes /\ done \subseteq Event /\ started \subseteq Event /\ done \subseteq started
      /\ built = N + 1 /\ completed = Cardinality(done) /\ completed \in Nat
  BY <1>0 DEF IInv, Shapes, IssueInv, CountInv, Armed
<1>3. /\ IsFiniteSet(DoneAfter(e)) /\ Cardinality(DoneAfter(e)) = completed'
      /\ DoneAfter(e) \in SUBSET Event
  <2>1. IsFiniteSet(done)
    BY <1>2, EventsFinite
  <2> QED BY <1>0, <1>2, <2>1, FS_AddElement DEF DoneAfter
<1>4. \A f \in DoneAfter(e) : f < lim
  BY <1>0, <1>2 DEF DoneAfter, Issued
<1>5. /\ \A b \in B : b \in Event /\ Barrier(b) /\ b = lim /\ globals' # << >> /\ b = Head(globals')
                      /\ b = completed' /\ b \notin DoneAfter(e)
  BY <1>1
<1>6. \A b \in B : b \notin Issued /\ b \notin S /\ b \notin parked'
  <2> SUFFICES ASSUME NEW b \in B PROVE b \notin Issued /\ b \notin S /\ b \notin parked'
    OBVIOUS
  <2>1. b = lim /\ Barrier(b) /\ ~(lim < lim)
    BY <1>1, <1>5
  <2> QED BY <2>1
<1>7. /\ ready' \in Seq(Event) /\ Distinct(ready')
      /\ ElementsOf(ready') = ElementsOf(ready) \cup S \cup B
  <2>1. s \in Seq(Event) /\ Distinct(s) /\ ElementsOf(s) = S
    BY OrdersFacts
  <2>2. ready \in Seq(Event) /\ Distinct(ready) /\ ElementsOf(ready) \subseteq Issued
    BY DEF IInv, Shapes, IssueInv, Issued
  <2>3. ElementsOf(ready) \cap ElementsOf(s) = {}
    BY <2>1, <2>2
  <2> DEFINE r == ready \o s
             b == BarrierReady(globals', completed')
  <2>4. r \in Seq(Event) /\ Distinct(r) /\ ElementsOf(r) = ElementsOf(ready) \cup S
    BY <2>1, <2>2, <2>3, DistinctConcat
  <2>5. b \in Seq(Event) /\ Distinct(b) /\ ElementsOf(b) = B
    BY BarrierReadyFacts
  <2>6. ready' = r \o b
    OBVIOUS
  <2> HIDE DEF r, b
  <2>7. ElementsOf(r) \cap ElementsOf(b) = {}
    BY <2>2, <2>4, <2>5, <1>6
  <2>8. r \o b \in Seq(Event) /\ Distinct(r \o b) /\ ElementsOf(r \o b) = ElementsOf(r) \cup ElementsOf(b)
    BY <2>4, <2>5, <2>7, DistinctConcat
  <2> QED BY <2>4, <2>5, <2>6, <2>8
<1>8. Issued' = Issued \cup S \cup B
  BY <1>0, <1>7 DEF Issued
<1>9. /\ queue' \in [Cell -> Seq(Event)] /\ FifoOK(queue', N + 1, DoneAfter(e))
  BY <1>0, <1>2, QueueAfterFacts
<1>10. ASSUME NEW h \in Event, h \notin DoneAfter(e)
       PROVE  wait'[h] = Cardinality(Touch(h)) - Cardinality(HeadCells(queue', h))
  <2>1. h # e /\ h \notin done
    BY <1>10 DEF DoneAfter
  <2>2. wait'[h] = wait[h] - Cardinality(NewHeadCells(e, h))
    BY <1>0
  <2> QED BY <1>0, <2>1, <2>2, WaitAfter
<1>11. wait' \in [Event -> Int]
  <2> SUFFICES ASSUME NEW h \in Event
               PROVE  wait[h] - Cardinality(NewHeadCells(e, h)) \in Int
    BY <1>0
  <2>1. NewHeadCells(e, h) \in SUBSET Touch(e) /\ IsFiniteSet(Touch(e))
    BY <1>0, <1>2, TouchFacts DEF NewHeadCells
  <2>2. Cardinality(NewHeadCells(e, h)) \in Nat
    BY <2>1, FS_Subset, FS_CardinalityType
  <2>3. wait[h] \in Int
    BY <1>2 DEF Shapes
  <2> QED BY <2>2, <2>3
<1>12. /\ Executing' = Executing \ {w}
       /\ pc' \in [Worker -> {"new", "top", "exec", "blocked", "woken", "exited"}]
  <2>1. pc \in [Worker -> {"new", "top", "exec", "blocked", "woken", "exited"}]
    BY <1>2 DEF Shapes
  <2> QED BY <1>0, <2>1 DEF Executing, WakeAll
<1>13. Shapes'
  BY <1>0, <1>2, <1>3, <1>7, <1>9, <1>11, <1>12, SMTT(40) DEF Shapes
<1>14. PhaseInv'
  <2>1. main # "returned"
    <3> SUFFICES ASSUME main = "returned" PROVE FALSE
      OBVIOUS
    <3>1. Cardinality(DoneAfter(e)) = N + 1
      BY <1>0, <1>3 DEF IInv, PhaseInv
    <3>2. Cardinality(DoneAfter(e)) <= N
      BY <1>3, EventsFinite
    <3> QED BY <3>1, <3>2
  <2> QED BY <1>0, <2>1 DEF IInv, PhaseInv, Armed
<1>15. CountInv'
  BY <1>0, <1>3 DEF CountInv
<1>16. QueueInv' /\ GlobalsInv'
  BY <1>0, <1>2, <1>9 DEF QueueInv, GlobalsInv, FifoOK, BarriersOK, Touch, Barrier, e
<1>17. WaitInv'
  BY <1>0, <1>10 DEF WaitInv, HeadCells, Touch
<1>18. ParkInv'
  BY <1>0 DEF ParkInv, Barrier
<1>19. AdmitInv'
  <2> SUFFICES ASSUME NEW h \in Event, h \notin DoneAfter(e), ~Barrier(h)
               PROVE  h \in (Issued \cup S \cup B) \cup parked' <=> wait'[h] = 0
    BY <1>0, <1>8 DEF AdmitInv, Barrier
  <2>1. h \notin B
    BY <1>5
  <2>2. h \in Issued \cup S \cup parked' <=> wait'[h] = 0
    BY DEF e
  <2> QED BY <2>1, <2>2
<1>20. IssueInv'
  <2>1. parked' \cap (Issued \cup S \cup B) = {}
    <3> SUFFICES ASSUME NEW h \in parked', h \in Issued \cup S PROVE FALSE
      BY <1>6
    <3>1. h \in Event /\ h >= lim
      OBVIOUS
    <3>2. ~(h < lim)
      BY <3>1, <1>1, EventsFinite
    <3> QED BY <3>2
  <2>2. \A v \in Executing' : running'[v] \in started' \ done'
    <3> SUFFICES ASSUME NEW v \in Executing, v # w PROVE running[v] \in started \ DoneAfter(e)
      BY <1>0, <1>12
    <3>1. w \in Executing
      BY <1>0 DEF Executing
    <3>2. running[v] \in started \ done /\ running[v] # running[w]
      BY <3>1 DEF IInv, IssueInv
    <3> QED BY <3>2 DEF DoneAfter, e
  <2>3. \A u, v \in Executing' : u # v => running'[u] # running'[v]
    BY <1>0, <1>12 DEF IInv, IssueInv
  <2>4. ElementsOf(ready') \cap started' = {}
    <3>1. ElementsOf(ready) \cap started = {} /\ started \subseteq Issued
      BY DEF IInv, IssueInv, Issued
    <3>2. S \cap started = {} /\ B \cap started = {}
      BY <3>1, <1>6
    <3> QED BY <3>1, <3>2, <1>0, <1>7
  <2>5. done' \subseteq started'
    BY <1>0, <1>2 DEF DoneAfter
  <2> QED BY <1>7, <1>8, <2>1, <2>2, <2>3, <2>4, <2>5 DEF IssueInv
<1>21. LimitInv'
  <2> SUFFICES ASSUME NEW f \in Issued \cup S \cup B
               PROVE  f < lim \/ (globals' # << >> /\ f = Head(globals') /\ f = completed')
    BY <1>8 DEF LimitInv
  <2> QED BY <1>5
<1>22. BaseOrderKept'
  <2> SUFFICES ASSUME NEW h \in Issued \cup S \cup B, NEW f \in Event, f < h, Conflict(evs, h, f)
               PROVE  f \in DoneAfter(e)
    BY <1>0, <1>8 DEF BaseOrderKept
  <2>1. CASE h \in Issued
    BY <2>1 DEF IInv, BaseOrderKept, DoneAfter
  <2>2. CASE h \in B
    <3>1. h \in Event /\ h = lim /\ Cardinality(DoneAfter(e)) = h
      BY <1>3, <1>5, <2>2
    <3>2. \A d \in DoneAfter(e) : d < h
      BY <1>4, <3>1
    <3>3. DoneAfter(e) \in SUBSET Event
      BY <1>3
    <3> QED BY <3>1, <3>2, <3>3, BarrierTurn
  <2>3. CASE h \in S
    <3>1. h \in Event /\ ~Barrier(h) /\ h < lim /\ h \notin DoneAfter(e)
      BY <2>3 DEF e
    <3>2. wait'[h] = 0
      BY <2>3, <3>1 DEF e
    <3>3. Cardinality(HeadCells(queue', h)) = Cardinality(Touch(h))
      BY <3>1, <3>2, <1>2, <1>10, TouchFacts, HeadCellsFacts
    <3>4. CASE Barrier(f)
      BY <3>1, <3>4, <1>1, EventsFinite
    <3>5. CASE ~Barrier(f)
      <4>1. Touch(h) \cap Touch(f) # {}
        BY <3>1, <3>5 DEF Conflict, Barrier, Touch
      <4> QED BY <4>1, <3>1, <3>3, <1>2, <1>9, HeadEverywhereIsFirst
    <3> QED BY <3>4, <3>5
  <2> QED BY <2>1, <2>2, <2>3
<1> QED BY <1>13, <1>14, <1>15, <1>16, <1>17, <1>18, <1>19, <1>20, <1>21, <1>22 DEF IInv

\* The completion of an event that is no barrier: the freed events below the
\* next barrier are queued, the others parked.
LEMMA FinishTouchingStep ==
  ASSUME IInv, NEW w \in Worker, FinishEvent(w), AdmitFreed(running[w])
  PROVE  IInv'
<1> DEFINE e == running[w]
           lim == LimitOf(globals)
           S == { h \in Freed(e) : h < lim }
<1>0. /\ Armed /\ e \in Event /\ e \in Issued /\ e \notin done /\ e \in started
      /\ completed' = completed + 1
      /\ wait' = [h \in Event |-> wait[h] - Cardinality(NewHeadCells(e, h))]
  BY FinishFacts
<1>1. /\ ~Barrier(e) /\ globals' = globals
      /\ parked' = parked \cup { h \in Freed(e) : h >= lim }
      /\ \E s \in Orders(S) : ready' = ready \o s \o BarrierReady(globals', completed')
  BY DEF AdmitFreed
<1>2. PICK s \in Orders(S) : ready' = ready \o s \o BarrierReady(globals', completed')
  BY <1>1
<1> HIDE DEF e
<1>3. /\ Shapes /\ globals \in Seq(Event) /\ BarriersOK(globals, N + 1, done)
      /\ done \subseteq Event /\ parked \subseteq Event
      /\ completed = Cardinality(done) /\ done \subseteq Issued
  <2>1. /\ Shapes /\ globals \in Seq(Event) /\ done \subseteq Event
        /\ parked \subseteq Event
    BY DEF IInv, Shapes
  <2>2. BarriersOK(globals, N + 1, done)
    BY <1>0 DEF IInv, GlobalsInv, Armed
  <2>3. completed = Cardinality(done) /\ done \subseteq Issued
    BY DEF IInv, CountInv, IssueInv, Issued
  <2> QED BY <2>1, <2>2, <2>3
<1>4. /\ lim \in Nat
      /\ globals # << >> => lim = Head(globals) /\ Head(globals) \in Event
                            /\ Barrier(Head(globals)) /\ Head(globals) \notin done
  BY <1>3, LimitFacts
<1>5. BarriersOK(globals', N + 1, DoneAfter(e))
  <2>1. \A f \in Event : Barrier(f) => (f \notin DoneAfter(e) <=> f \notin done)
    BY <1>1 DEF DoneAfter
  <2> QED BY <1>1, <1>3, <2>1 DEF BarriersOK
<1>6. \A d \in done : d < lim
  BY <1>3, <1>4 DEF IInv, LimitInv
<1>7. \A f \in Issued : f < lim
  <2> SUFFICES ASSUME NEW f \in Issued, globals # << >>, f = Head(globals), f = completed
               PROVE  FALSE
    BY DEF IInv, LimitInv
  <2>1. f \in Event /\ f = lim /\ Cardinality(done) = f /\ Barrier(f)
    BY <1>3, <1>4
  <2>2. e < f
    <3>1. e # f
      BY <1>1, <2>1
    <3> QED BY <3>1, <1>0, <2>1 DEF IInv, LimitInv
  <2>3. e \in done
    BY <1>0, <1>3, <1>6, <2>1, <2>2, BarrierTurn
  <2> QED BY <1>0, <2>3
<1>8. ASSUME NEW h \in Event, h \notin DoneAfter(e)
      PROVE  /\ wait'[h] = 0 <=> wait[h] = 0 \/ h \in Freed(e)
             /\ h \in Freed(e) => wait[h] # 0
             /\ ~Barrier(h) => (h \in Issued \cup parked <=> wait[h] = 0)
             /\ h \notin done
  <2>1. h # e /\ h \notin done
    BY <1>8 DEF DoneAfter
  <2>2. wait'[h] = wait[h] - Cardinality(NewHeadCells(e, h))
    BY <1>0
  <2>3. ~Barrier(h) => (h \in Issued \cup parked <=> wait[h] = 0)
    BY <2>1, <1>0 DEF IInv, AdmitInv
  <2> QED BY <1>0, <2>1, <2>2, <2>3, WaitAfter
<1>9. \A h \in Freed(e) : /\ h \in Event /\ h \notin DoneAfter(e) /\ ~Barrier(h)
                          /\ h \notin Issued /\ h \notin parked
  BY <1>0, <1>8, FreedFacts
<1>10. S \in SUBSET Event
  BY <1>9
<1>11. \A h \in S : ~Barrier(h) /\ h < lim /\ h \notin Issued /\ h \notin DoneAfter(e)
  BY <1>9
<1>12. parked' \subseteq Event
  BY <1>1, <1>3, <1>9
<1>13. \A h \in parked' : ~Barrier(h) /\ h >= lim
  BY <1>1, <1>9 DEF IInv, ParkInv
<1>14. ASSUME NEW h \in Event, ~Barrier(h), h \notin DoneAfter(e)
       PROVE  h \in Issued \cup S \cup parked' <=> wait'[h] = 0
  <2>1. h \in S \cup parked' <=> h \in parked \/ h \in Freed(e)
    <3>1. h < lim \/ h >= lim
      BY <1>4, EventsFinite
    <3> QED BY <3>1, <1>1
  <2> QED BY <2>1, <1>8, <1>14
<1> HIDE DEF S
<1>15. globals' \in Seq(Event) /\ LimitOf(globals') = lim
  BY <1>1, <1>3
<1> HIDE DEF lim
<1> QED BY <1>2, <1>5, <1>7, <1>10, <1>11, <1>12, <1>13, <1>14, <1>15, CompleteStep DEF e

\* The completion of a barrier: it was the first one left, everything before it
\* is complete, and the parked events up to the next barrier are released.
LEMMA PassBarrierStep ==
  ASSUME IInv, NEW w \in Worker, FinishEvent(w), PassBarrier(running[w])
  PROVE  IInv'
<1> DEFINE e == running[w]
           rest == Tail(globals)
           lim == LimitOf(rest)
           S == Released(e)
<1>0. /\ Armed /\ e \in Event /\ e \in Issued /\ e \notin done
      /\ completed' = completed + 1
      /\ wait' = [h \in Event |-> wait[h] - Cardinality(NewHeadCells(e, h))]
  BY FinishFacts
<1>1. /\ Barrier(e) /\ globals' = rest /\ parked' = parked \ S
      /\ \E s \in Ascending(S) : ready' = ready \o s \o BarrierReady(globals', completed')
  BY DEF PassBarrier
<1>2. PICK s \in Orders(S) : ready' = ready \o s \o BarrierReady(globals', completed')
  BY <1>1 DEF Ascending
<1> HIDE DEF e
<1>3. /\ Shapes /\ globals \in Seq(Event) /\ BarriersOK(globals, N + 1, done)
      /\ done \subseteq Event /\ parked \subseteq Event
      /\ completed = Cardinality(done) /\ done \subseteq started
      /\ Event \subseteq Int
  <2>1. /\ Shapes /\ globals \in Seq(Event) /\ done \subseteq Event
        /\ parked \subseteq Event
    BY DEF IInv, Shapes
  <2>2. BarriersOK(globals, N + 1, done)
    BY <1>0 DEF IInv, GlobalsInv, Armed
  <2>3. completed = Cardinality(done) /\ done \subseteq started
    BY DEF IInv, CountInv, IssueInv
  <2> QED BY <2>1, <2>2, <2>3, EventsFinite
<1>4. /\ LimitOf(globals) \in Nat
      /\ globals # << >> => LimitOf(globals) = Head(globals)
      /\ LimitOf(globals) <= e
  BY <1>0, <1>1, <1>3, LimitFacts
<1>5. globals # << >> /\ e = Head(globals)
  <2>1. ~(e < LimitOf(globals))
    BY <1>0, <1>4, EventsFinite
  <2> QED BY <1>0, <2>1 DEF IInv, LimitInv
<1>6. \A f \in Issued : f < e \/ f = e
  BY <1>4, <1>5 DEF IInv, LimitInv
<1>7. /\ rest \in Seq(Event) /\ Ascends(rest)
      /\ ElementsOf(rest) = ElementsOf(globals) \ {e}
      /\ \A y \in ElementsOf(globals) : e <= y
  <2>1. Ascends(globals)
    BY <1>3 DEF BarriersOK
  <2> QED BY <2>1, <1>3, <1>5, AscendsHeadTail
<1>8. BarriersOK(rest, N + 1, DoneAfter(e))
  BY <1>3, <1>7 DEF BarriersOK, DoneAfter
<1> HIDE DEF rest
<1>9. lim \in Nat /\ e < lim
  <2>1. CASE rest = << >>
    <3>1. lim = N
      BY <2>1 DEF LimitOf
    <3> QED BY <3>1, <1>0 DEF Event
  <2>2. CASE rest # << >>
    <3>1. lim = Head(rest) /\ Head(rest) \in ElementsOf(rest) /\ Head(rest) \in Event
      BY <2>2, <1>3, <1>7, AscendsHeadTail, ElementsRange DEF LimitOf
    <3>2. Head(rest) # e /\ e <= Head(rest)
      BY <3>1, <1>7
    <3>3. e \in Nat /\ Head(rest) \in Nat
      BY <3>1, <1>0, EventsFinite
    <3> QED BY <3>1, <3>2, <3>3
  <2> QED BY <2>1, <2>2
<1>10. \A f \in Issued : f < lim
  <2> SUFFICES ASSUME NEW f \in Issued PROVE f < lim
    OBVIOUS
  <2>1. f \in Nat /\ e \in Nat
    <3>1. f \in Event
      BY <1>3, ElementsRange DEF Shapes, Issued
    <3> QED BY <3>1, <1>0, EventsFinite
  <2>2. f < e \/ f = e
    BY <1>6
  <2> QED BY <2>1, <2>2, <1>9
<1>11. Touch(e) = {} /\ Freed(e) = {}
  <2>1. Touch(e) = {}
    BY <1>0, <1>1, <1>3, TouchFacts
  <2> QED BY <2>1 DEF Freed, NewHeadCells
<1>12. \A h \in S : h \in parked /\ e < h /\ h < lim
  BY DEF Released, rest
<1>13. S \in SUBSET Event
  BY <1>3, <1>12
<1>14. \A h \in parked : ~Barrier(h) /\ h \notin Issued /\ h \notin done /\ h >= e /\ h # e
  BY <1>1, <1>3, <1>4, <1>5 DEF IInv, ParkInv, IssueInv, Issued
<1>15. \A h \in S : ~Barrier(h) /\ h < lim /\ h \notin Issued /\ h \notin DoneAfter(e)
  BY <1>12, <1>14 DEF DoneAfter
<1>16. \A h \in parked' : ~Barrier(h) /\ h >= lim
  <2> SUFFICES ASSUME NEW h \in parked, h \notin S PROVE ~Barrier(h) /\ h >= lim
    BY <1>1
  <2>1. h \in Nat /\ e \in Nat
    BY <1>0, <1>3, EventsFinite
  <2>2. e < h
    BY <2>1, <1>14
  <2>3. ~(h < lim)
    BY <2>2 DEF Released, rest
  <2> QED BY <2>1, <2>3, <1>9, <1>14
<1>17. ASSUME NEW h \in Event, ~Barrier(h), h \notin DoneAfter(e)
       PROVE  h \in Issued \cup S \cup parked' <=> wait'[h] = 0
  <2>1. h # e /\ h \notin done
    BY <1>17 DEF DoneAfter
  <2>2. wait'[h] = wait[h] - Cardinality(NewHeadCells(e, h))
    BY <1>0
  <2>3. wait'[h] = 0 <=> wait[h] = 0
    BY <1>0, <1>11, <2>1, <2>2, WaitAfter
  <2>4. h \in Issued \cup parked <=> wait[h] = 0
    BY <1>0, <1>17, <2>1 DEF IInv, AdmitInv
  <2>5. S \cup parked' = parked
    BY <1>1, <1>12
  <2> QED BY <2>3, <2>4, <2>5
<1> HIDE DEF S
<1>18. globals' \in Seq(Event) /\ LimitOf(globals') = lim /\ BarriersOK(globals', N + 1, DoneAfter(e))
  BY <1>1, <1>7, <1>8
<1>19. parked' \subseteq Event
  BY <1>1, <1>3
<1> HIDE DEF lim
<1> QED BY <1>2, <1>10, <1>13, <1>15, <1>16, <1>17, <1>18, <1>19, CompleteStep DEF e

LEMMA FinishStep == ASSUME IInv, NEW w \in Worker, FinishEvent(w) PROVE IInv'
<1>1. AdmitFreed(running[w]) \/ PassBarrier(running[w])
  BY FinishFacts
<1> QED BY <1>1, FinishTouchingStep, PassBarrierStep

-----------------------------------------------------------------------------
(* Theorems.                                                               *)

\* IInv is an invariant of every run of hc_sched_run.
THEOREM SpecIInv == Spec => []IInv
<1>1. IInv /\ [Next]_vars => IInv'
  <2> SUFFICES ASSUME IInv, [Next]_vars PROVE IInv'
    OBVIOUS
  <2>1. CASE OutOfArena
    BY <2>1, OutOfArenaStep
  <2>2. CASE Enlist
    BY <2>2, EnlistStep
  <2>3. CASE Arm
    BY <2>3, ArmStep
  <2>4. CASE Join
    BY <2>4, JoinStep
  <2>5. CASE Returned \/ UNCHANGED vars
    BY <2>5, StutterStep DEF Returned
  <2>6. ASSUME NEW w \in Worker, Acquire(w) PROVE IInv'
    BY <2>6, AcquireStep
  <2>7. ASSUME NEW w \in Worker, TopWait(w) PROVE IInv'
    BY <2>7, TopWaitStep
  <2>8. ASSUME NEW w \in Worker, TopExit(w) PROVE IInv'
    BY <2>8, TopExitStep
  <2>9. ASSUME NEW w \in Worker, TopPop(w) PROVE IInv'
    BY <2>9, TopPopStep
  <2>10. ASSUME NEW w \in Worker, FinishEvent(w) PROVE IInv'
    BY <2>10, FinishStep
  <2>11. ASSUME NEW w \in Worker, SpuriousWake(w) PROVE IInv'
    BY <2>11, SpuriousWakeStep
  <2> QED BY <2>1, <2>2, <2>3, <2>4, <2>5, <2>6, <2>7, <2>8, <2>9, <2>10, <2>11 DEF Next
<1> QED BY InitIInv, <1>1, PTL DEF Spec

\* Every variable keeps its type.
THEOREM TypeCorrect == Spec => []TypeOK
<1>1. IInv => TypeOK
  BY EventsFinite DEF IInv, Shapes, CountInv, TypeOK
<1> QED BY <1>1, SpecIInv, PTL

\* An event is queued, running or finished only when every earlier event it
\* conflicts with has finished (sched.c, "conflicting pairs keep base order").
THEOREM OrderCorrect == Spec => []BaseOrderKept
<1>1. IInv => BaseOrderKept
  BY DEF IInv
<1> QED BY <1>1, SpecIInv, PTL

\* Two running callbacks never conflict, and a barrier runs alone.
THEOREM ExclusionCorrect == Spec => []NoConflictingRun
<1>1. IInv => NoConflictingRun
  <2> SUFFICES ASSUME IInv, NEW v \in Executing, NEW w \in Executing, v # w
               PROVE  ~Conflict(evs, running[v], running[w]) /\ running[v] # running[w]
    BY DEF NoConflictingRun
  <2>1. /\ running[v] \in started \ done /\ running[w] \in started \ done
        /\ running[v] # running[w] /\ started \subseteq Event
    BY DEF IInv, IssueInv, Shapes
  <2>2. running[v] \in Nat /\ running[w] \in Nat
    BY <2>1, EventsFinite
  <2>3. ASSUME NEW e \in started \ done, NEW f \in started \ done, f < e
        PROVE  ~Conflict(evs, e, f)
    BY <2>1, <2>3 DEF IInv, BaseOrderKept, Issued
  <2>4. \A e, f : Conflict(evs, e, f) => Conflict(evs, f, e)
    BY DEF Conflict
  <2>5. running[v] < running[w] \/ running[w] < running[v]
    BY <2>1, <2>2
  <2> QED BY <2>1, <2>3, <2>4, <2>5
<1> QED BY <1>1, SpecIInv, PTL

\* The ring of n slots suffices, and no event is in it twice.
THEOREM RingCorrect == Spec => []ReadyFits
<1>1. IInv => ReadyFits
  <2> SUFFICES ASSUME IInv PROVE ReadyFits
    OBVIOUS
  <2>1. ready \in Seq(Event) /\ Distinct(ready) /\ ElementsOf(ready) \cap started = {}
    BY DEF IInv, Shapes, IssueInv
  <2>2. Len(ready) <= N
    BY <2>1, EventsFinite, DistinctLength
  <2> QED BY <2>1, <2>2 DEF ReadyFits
<1> QED BY <1>1, SpecIInv, PTL

\* A reported success is a complete run with empty tables.
THEOREM ReturnCorrect == Spec => []ReturnsComplete
<1>1. IInv => ReturnsComplete
  <2> SUFFICES ASSUME IInv, main = "returned"
               PROVE  /\ done = Event /\ ready = << >> /\ parked = {} /\ globals = << >>
                      /\ \A c \in Cell : queue[c] = << >>
    BY DEF ReturnsComplete
  <2>1. Armed /\ completed = N /\ Cardinality(done) = N /\ done \subseteq Event
    BY DEF IInv, PhaseInv, CountInv, Shapes
  <2>2. done = Event
    BY <2>1, EventsFinite, FS_Subset
  <2>3. ready = << >>
    <3>1. ready \in Seq(Event) /\ ElementsOf(ready) \cap started = {} /\ done \subseteq started
      BY DEF IInv, Shapes, IssueInv
    <3>2. ElementsOf(ready) = {}
      BY <3>1, <2>2, ElementsRange
    <3> QED BY <3>1, <3>2, ElementsEmpty
  <2>4. parked = {}
    BY <2>2 DEF IInv, Shapes, IssueInv, Issued
  <2>5. globals = << >>
    <3>1. globals \in Seq(Event) /\ ElementsOf(globals) = {}
      BY <2>2 DEF IInv, Shapes, GlobalsInv, BarriersOK
    <3> QED BY <3>1, ElementsEmpty
  <2>6. ASSUME NEW c \in Cell PROVE queue[c] = << >>
    <3>1. queue[c] \in Seq(Event) /\ ElementsOf(queue[c]) = {}
      BY <2>2 DEF IInv, Shapes, QueueInv, FifoOK
    <3> QED BY <3>1, ElementsEmpty
  <2> QED BY <2>2, <2>3, <2>4, <2>5, <2>6
<1> QED BY <1>1, SpecIInv, PTL

\* No callback is entered for an event that was entered before.
THEOREM OnceCorrect == Spec => NeverRunTwice
<1>1. IInv /\ [Next]_vars =>
        [\A w \in Worker : (pc[w] # "exec" /\ pc'[w] = "exec") => running'[w] \notin started]_vars
  <2> SUFFICES ASSUME IInv, Next, NEW w \in Worker, pc[w] # "exec", pc'[w] = "exec"
               PROVE  running'[w] \notin started
    OBVIOUS
  <2>1. pc \in [Worker -> {"new", "top", "exec", "blocked", "woken", "exited"}]
    BY DEF IInv, Shapes
  <2>2. \E v \in Worker : TopPop(v)
    <3>1. ~(OutOfArena \/ Enlist \/ Arm \/ Join \/ Returned)
      BY DEF OutOfArena, Enlist, Arm, Join, Returned, vars
    <3>2. ASSUME NEW v \in Worker
          PROVE  ~(Acquire(v) \/ TopWait(v) \/ TopExit(v) \/ SpuriousWake(v))
      BY <2>1 DEF Acquire, TopWait, TopExit, SpuriousWake
    <3>3. ASSUME NEW v \in Worker PROVE ~FinishEvent(v)
      BY <2>1 DEF FinishEvent, WakeAll
    <3> QED BY <3>1, <3>2, <3>3 DEF Next
  <2>3. PICK v \in Worker : TopPop(v)
    BY <2>2
  <2>4. v = w
    BY <2>1, <2>3 DEF TopPop
  <2>5. /\ ready \in Seq(Event) /\ ready # << >> /\ Distinct(ready)
        /\ ElementsOf(ready) \cap started = {} /\ running'[w] = Head(ready)
    BY <2>3, <2>4 DEF TopPop, IInv, Shapes, IssueInv
  <2> QED BY <2>5, DistinctHeadTail
<1> QED BY <1>1, SpecIInv, PTL DEF Spec, NeverRunTwice

\* hc_sched_run implements the ordering contract of hc_sched.h.
THEOREM ContractCorrect == Spec => Contract
<1>1. Init => AbsInit
  BY DEF Init
<1>2. IInv /\ [Next]_vars => [AbsNext]_absVars
  <2> SUFFICES ASSUME IInv, Next PROVE [AbsNext]_absVars
    BY DEF vars, absVars
  <2>1. CASE OutOfArena \/ Enlist \/ Arm \/ Join \/ Returned
    BY <2>1 DEF OutOfArena, Enlist, Arm, Join, Returned, vars, absVars
  <2>2. ASSUME NEW w \in Worker, Acquire(w) \/ TopWait(w) \/ TopExit(w) \/ SpuriousWake(w)
        PROVE  UNCHANGED absVars
    BY <2>2 DEF Acquire, TopWait, TopExit, SpuriousWake, absVars
  <2>3. ASSUME NEW w \in Worker, TopPop(w) PROVE AbsNext
    <3>1. /\ ready \in Seq(Event) /\ ready # << >> /\ Distinct(ready)
          /\ ElementsOf(ready) \cap started = {}
      BY <2>3 DEF TopPop, IInv, Shapes, IssueInv
    <3>2. Head(ready) \in ElementsOf(ready) /\ Head(ready) \in Event
      BY <3>1, DistinctHeadTail, ElementsRange
    <3>3. Head(ready) \in Issued /\ Head(ready) \notin started
      BY <3>1, <3>2 DEF Issued
    <3>4. Enabled(Head(ready))
      BY <3>3 DEF IInv, BaseOrderKept, Enabled
    <3>5. Start(Head(ready))
      BY <2>3, <3>3, <3>4 DEF TopPop, Start
    <3> QED BY <3>2, <3>5 DEF AbsNext
  <2>4. ASSUME NEW w \in Worker, FinishEvent(w) PROVE AbsNext
    <3>1. /\ running[w] \in Event /\ running[w] \in started \ done
          /\ done' = done \cup {running[w]} /\ UNCHANGED << evs, started >>
      BY <2>4, FinishFacts DEF DoneAfter
    <3> QED BY <3>1 DEF AbsNext, Finish
  <2> QED BY <2>1, <2>2, <2>3, <2>4 DEF Next
<1> QED BY <1>1, <1>2, SpecIInv, PTL DEF Spec, Contract, AbsSafety
==============================================================================
