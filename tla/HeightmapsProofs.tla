-------------------------- MODULE HeightmapsProofs --------------------------
(***************************************************************************)
(* The height maps agree with the blocks, for every chunk size, height and *)
(* set of materials.  IInv strengthens the three invariants by what primed *)
(* means; the lemmas say that a scan exists, that an incremental update    *)
(* keeps a map exact, that it does not disturb a map just primed, and that *)
(* a vein leaves every map exact.                                          *)
(***************************************************************************)
EXTENDS Heightmaps, FiniteSetTheorems, TLAPS

IInv ==
  /\ TypeOK /\ WgExact /\ FinalExact
  /\ stage \in {"fill", "surface", "carvers"} => primed = {} /\ ~decorated
  /\ decorated => primed = FinalType
  /\ stage = "saved" => decorated

-----------------------------------------------------------------------------
\* A nonempty set of natural numbers has a least element (strict inclusion is
\* well founded on the intervals below its elements).
LEMMA LeastElement ==
  ASSUME NEW T \in SUBSET Nat, T # {}
  PROVE  \E x \in T : \A y \in T : x <= y
<1> DEFINE Below == { 0 .. x : x \in T }
<1>1. \A x \in Nat : 0 .. x \in FiniteSubsetsOf(Nat)
  <2> TAKE x \in Nat
  <2>1. IsFiniteSet(0 .. x)
    BY FS_Interval
  <2> QED BY <2>1 DEF FiniteSubsetsOf
<1>2. Below \subseteq FiniteSubsetsOf(Nat) /\ Below # {}
  BY <1>1
<1>3. \E D \in Below : \A E \in Below : <<E, D>> \notin StrictSubsetOrdering(Nat)
  BY <1>2, FS_StrictSubsetOrderingWellFounded, WFMin
<1>4. PICK x \in T : \A E \in Below : <<E, 0 .. x>> \notin StrictSubsetOrdering(Nat)
  BY <1>3
<1>5. ASSUME NEW y \in T, y < x
      PROVE  FALSE
  <2>1. <<0 .. y, 0 .. x>> \in StrictSubsetOrdering(Nat)
    BY <1>5 DEF StrictSubsetOrdering
  <2> QED BY <1>4, <2>1
<1> QED BY <1>5

\* A scan downwards always ends at one height: the highest member, or the floor.
LEMMA HighestExists ==
  ASSUME NEW b, NEW S, NEW y \in (MinY - 1) .. MaxY
  PROVE  \E h \in MinY .. (y + 1) : IsHighest(b, S, y, h)
<1> DEFINE T == { d \in 0 .. (y - MinY) : b[y - d] \in S }
<1>0. MinY \in Int /\ MaxY \in Int /\ y \in Int
  BY BoundsAssumption
<1>1. CASE T = {}
  <2>1. ASSUME NEW z \in MinY .. y PROVE b[z] \notin S
    <3>1. y - z \in 0 .. (y - MinY) /\ y - (y - z) = z
      BY <1>0
    <3> QED BY <1>1, <3>1
  <2>2. MinY \in MinY .. (y + 1) /\ ~(MinY > MinY)
    BY <1>0
  <2> QED BY <2>1, <2>2 DEF IsHighest
<1>2. CASE T # {}
  <2>1. T \in SUBSET Nat
    BY <1>0
  <2>2. PICK d \in T : \A e \in T : d <= e
    BY <1>2, <2>1, LeastElement
  <2>3. /\ d \in Int /\ 0 <= d /\ d <= y - MinY
        /\ b[y - d] \in S
    BY <1>0
  <2> DEFINE h == y - d + 1
  <2>4. h \in MinY .. (y + 1) /\ h - 1 = y - d
    BY <1>0, <2>3
  <2>5. ASSUME NEW z \in h .. y PROVE b[z] \notin S
    <3>1. /\ y - z \in 0 .. (y - MinY) /\ y - (y - z) = z
          /\ ~(d <= y - z)
      BY <1>0, <2>3
    <3> QED BY <2>2, <3>1
  <2> QED BY <2>3, <2>4, <2>5 DEF IsHighest
<1> QED BY <1>1, <1>2

LEMMA ScanFinds ==
  ASSUME NEW b, NEW S, NEW y \in (MinY - 1) .. MaxY
  PROVE  IsHighest(b, S, y, ScanDown(b, S, y))
BY HighestExists DEF ScanDown

LEMMA PrimedExact ==
  ASSUME NEW b, NEW t
  PROVE  IsHighest(b, Opaque(t), MaxY, Primed(b, t))
<1>1. MaxY \in (MinY - 1) .. MaxY
  BY BoundsAssumption
<1> QED BY <1>1, ScanFinds DEF Primed

\* A map that was exact before block y of the column was written is exact after
\* hm_update; and hm_update leaves a map alone that is exact already.
LEMMA UpdatedExact ==
  ASSUME NEW a, NEW b, NEW t, NEW y \in Level, NEW first,
         \A z \in Level : z # y => b[z] = a[z],
         IsHighest(a, Opaque(t), MaxY, first)
  PROVE  IsHighest(b, Opaque(t), MaxY, Updated(first, b, t, y))
<1> DEFINE S == Opaque(t)
           h == Updated(first, b, t, y)
<1>0. /\ MinY \in Int /\ MaxY \in Int /\ y \in Int /\ MinY <= y /\ y <= MaxY
      /\ first \in Int /\ MinY <= first /\ first <= MaxY + 1
      /\ first > MinY => a[first - 1] \in S
      /\ \A z \in first .. MaxY : a[z] \notin S
  BY BoundsAssumption DEF IsHighest, Level
<1>1. CASE b[y] \in S /\ y >= first
  <2>1. h = y + 1
    BY <1>1 DEF Updated
  <2>2. ASSUME NEW z \in (y + 1) .. MaxY PROVE b[z] \notin S
    <3>1. z \in Level /\ z # y /\ z \in first .. MaxY
      BY <1>0, <1>1 DEF Level
    <3> QED BY <1>0, <3>1
  <2>3. y + 1 \in MinY .. (MaxY + 1) /\ (y + 1) - 1 = y
    BY <1>0
  <2> QED BY <1>1, <2>1, <2>2, <2>3 DEF IsHighest
<1>2. CASE b[y] \notin S /\ y = first - 1
  <2>1. h = ScanDown(b, S, y - 1)
    BY <1>0, <1>2 DEF Updated
  <2>2. IsHighest(b, S, y - 1, h)
    <3>1. y - 1 \in (MinY - 1) .. MaxY
      BY <1>0
    <3> QED BY <2>1, <3>1, ScanFinds
  <2>a. h = Updated(first, b, t, y)
    OBVIOUS
  <2> HIDE DEF h
  <2>3. /\ h \in Int /\ MinY <= h /\ h <= y
        /\ h > MinY => b[h - 1] \in S
        /\ \A z \in h .. (y - 1) : b[z] \notin S
    BY <1>0, <2>2 DEF IsHighest
  <2>4. ASSUME NEW z \in h .. MaxY PROVE b[z] \notin S
    <3>1. CASE z < y
      <4>1. z \in h .. (y - 1)
        BY <1>0, <2>3, <3>1
      <4> QED BY <2>3, <4>1
    <3>2. CASE z = y
      BY <1>2, <3>2
    <3>3. CASE z > y
      <4>1. z \in Level /\ z # y /\ z \in first .. MaxY
        BY <1>0, <1>2, <2>3, <3>3 DEF Level
      <4> QED BY <1>0, <4>1
    <3> QED BY <1>0, <2>3, <3>1, <3>2, <3>3
  <2>5. h \in MinY .. (MaxY + 1)
    BY <1>0, <2>3
  <2> QED BY <2>3, <2>4, <2>5, <2>a DEF IsHighest
<1>3. CASE ~(b[y] \in S /\ y >= first) /\ ~(b[y] \notin S /\ y = first - 1)
  <2>1. h = first
    BY <1>3 DEF Updated
  <2>2. first > MinY => b[first - 1] \in S
    <3>1. CASE y = first - 1
      BY <1>3, <3>1
    <3>2. CASE y # first - 1 /\ first > MinY
      <4>1. first - 1 \in Level
        BY <1>0, <3>2 DEF Level
      <4> QED BY <1>0, <3>2, <4>1
    <3> QED BY <3>1, <3>2
  <2>3. ASSUME NEW z \in first .. MaxY PROVE b[z] \notin S
    <3>1. CASE z = y
      <4>1. y >= first
        BY <1>0, <3>1
      <4> QED BY <1>3, <3>1, <4>1
    <3>2. CASE z # y
      <4>1. z \in Level
        BY <1>0 DEF Level
      <4> QED BY <1>0, <3>2, <4>1
    <3> QED BY <3>1, <3>2
  <2>4. first \in MinY .. (MaxY + 1)
    BY <1>0
  <2> QED BY <2>1, <2>2, <2>3, <2>4 DEF IsHighest
<1> QED BY <1>1, <1>2, <1>3

\* What a vein replaces and what it places are opaque for the same maps.
LEMMA OreSameClass ==
  ASSUME NEW m \in OreTarget, NEW t \in FinalType
  PROVE  m \in Opaque(t) <=> Ore \in Opaque(t)
<1>1. /\ m \in AirLike <=> Ore \in AirLike
      /\ m \in Motion <=> Ore \in Motion
      /\ m \in Fluid <=> Ore \in Fluid
      /\ m \in Leaves <=> Ore \in Leaves
      /\ m \in Material /\ Ore \in Material
  BY OreAssumption, MaterialAssumption
<1> QED BY <1>1 DEF Opaque, FinalType

\* Exactness depends on the class of each block only.
LEMMA SameClassExact ==
  ASSUME NEW a, NEW b, NEW t, NEW h,
         \A z \in Level : b[z] \in Opaque(t) <=> a[z] \in Opaque(t),
         IsHighest(a, Opaque(t), MaxY, h)
  PROVE  IsHighest(b, Opaque(t), MaxY, h)
<1>1. \A z \in h .. MaxY : z \in Level
  BY BoundsAssumption DEF IsHighest, Level
<1>2. h > MinY => h - 1 \in Level
  BY BoundsAssumption DEF IsHighest, Level
<1> QED BY <1>1, <1>2 DEF IsHighest

\* The maps hm_prime_one makes are exact; the others stay what they were.
LEMMA PrimeAllExact ==
  ASSUME TypeOK, NEW T, NEW b
  PROVE  /\ PrimeAll(T, b) \in [FinalType -> [Column -> Height]]
         /\ \A t \in FinalType, c \in Column :
              /\ t \in T => IsHighest(b[c], Opaque(t), MaxY, PrimeAll(T, b)[t][c])
              /\ t \notin T => PrimeAll(T, b)[t][c] = final[t][c]
<1>1. \A t \in FinalType, c \in Column :
        /\ PrimeAll(T, b)[t][c] = IF t \in T THEN Primed(b[c], t) ELSE final[t][c]
        /\ IsHighest(b[c], Opaque(t), MaxY, Primed(b[c], t))
  BY PrimedExact DEF PrimeAll
<1>2. \A t \in FinalType, c \in Column : Primed(b[c], t) \in Height
  BY <1>1 DEF IsHighest, Height
<1>3. \A t \in FinalType, c \in Column : final[t][c] \in Height
  BY DEF TypeOK
<1>4. PrimeAll(T, b) \in [FinalType -> [Column -> Height]]
  BY <1>2, <1>3 DEF PrimeAll
<1> QED BY <1>1, <1>4
-----------------------------------------------------------------------------
LEMMA InitIInv == Init => IInv
<1> SUFFICES ASSUME Init PROVE IInv
  OBVIOUS
<1>1. /\ MinY \in Height /\ MaxY \in (MinY - 1) .. MaxY /\ Air \in Material
  BY BoundsAssumption, MaterialAssumption DEF Height
<1>2. TypeOK
  BY <1>1 DEF Init, TypeOK
<1>3. ASSUME NEW t \in WgType, NEW c \in Column
      PROVE  IsHighest(block[c], Opaque(t), MaxY, wg[t][c])
  <2>1. wg[t][c] = MinY /\ \A z \in MinY .. MaxY : block[c][z] = Air
    BY <1>3 DEF Init, Level
  <2>2. Air \notin Opaque(t)
    BY MaterialAssumption DEF Opaque, WgType
  <2>3. MinY \in MinY .. (MaxY + 1) /\ ~(MinY > MinY)
    BY BoundsAssumption
  <2> QED BY <2>1, <2>2, <2>3 DEF IsHighest
<1>4. WgExact
  BY <1>3 DEF WgExact
<1>5. FinalExact /\ ~decorated /\ stage = "fill" /\ primed = {}
  BY DEF Init, FinalExact
<1> QED BY <1>2, <1>4, <1>5 DEF IInv

\* hc_hm_update_both keeps the two *_WG maps exact.
LEMMA PutWgExact ==
  ASSUME IInv, NEW c \in Column, NEW y \in Level, NEW m \in Material,
         PutWg(c, y, m), stage \in {"fill", "surface", "carvers"}
  PROVE  /\ block' \in [Column -> [Level -> Material]]
         /\ wg' \in [WgType -> [Column -> Height]]
         /\ \A t \in WgType, d \in Column :
              IsHighest(block'[d], Opaque(t), MaxY, wg'[t][d])
<1> DEFINE b == [block[c] EXCEPT ![y] = m]
<1>1. /\ block' = [block EXCEPT ![c] = b]
      /\ wg' = [t \in WgType |-> [wg[t] EXCEPT ![c] = Updated(wg[t][c], b, t, y)]]
  BY DEF PutWg
<1>2. /\ block \in [Column -> [Level -> Material]]
      /\ wg \in [WgType -> [Column -> Height]]
      /\ \A t \in WgType, d \in Column : IsHighest(block[d], Opaque(t), MaxY, wg[t][d])
  BY DEF IInv, TypeOK, WgExact
<1>3. b \in [Level -> Material] /\ \A z \in Level : z # y => b[z] = block[c][z]
  BY <1>2
<1> HIDE DEF b
<1>4. \A t \in WgType :
        IsHighest(b, Opaque(t), MaxY, Updated(wg[t][c], b, t, y))
  BY <1>2, <1>3, UpdatedExact
<1>5. \A t \in WgType : Updated(wg[t][c], b, t, y) \in Height
  BY <1>4 DEF IsHighest, Height
<1>6. \A t \in WgType, d \in Column :
        wg'[t][d] = IF d = c THEN Updated(wg[t][c], b, t, y) ELSE wg[t][d]
  BY <1>1, <1>2
<1>7. \A d \in Column : block'[d] = IF d = c THEN b ELSE block[d]
  BY <1>1, <1>2
<1>8. wg' \in [WgType -> [Column -> Height]]
  BY <1>1, <1>2, <1>5
<1>9. block' \in [Column -> [Level -> Material]]
  BY <1>1, <1>2, <1>3
<1> QED BY <1>2, <1>4, <1>6, <1>7, <1>8, <1>9

LEMMA FillStep ==
  ASSUME IInv, NEW c \in Column, NEW m \in Material, Fill(c, m)
  PROVE  IInv'
<1>1. /\ stage = "fill" /\ fillY[c] >= MinY /\ fillY[c] \in Level
      /\ UNCHANGED <<final, primed, stage, decorated>>
      /\ fillY' \in [Column -> (MinY - 1) .. MaxY]
  BY BoundsAssumption DEF Fill, IInv, TypeOK, Level
<1>2. CASE m # Air /\ PutWg(c, fillY[c], m)
  <2>1. /\ block' \in [Column -> [Level -> Material]]
        /\ wg' \in [WgType -> [Column -> Height]]
        /\ \A t \in WgType, d \in Column :
             IsHighest(block'[d], Opaque(t), MaxY, wg'[t][d])
    BY <1>1, <1>2, PutWgExact
  <2>2. TypeOK'
    BY <1>1, <2>1 DEF IInv, TypeOK
  <2>3. WgExact'
    BY <1>1, <2>1 DEF WgExact
  <2>4. FinalExact'
    <3>1. primed = {}
      BY <1>1 DEF IInv
    <3> QED BY <1>1, <3>1 DEF FinalExact
  <2> QED BY <1>1, <2>2, <2>3, <2>4 DEF IInv
<1>3. CASE UNCHANGED <<block, wg>>
  <2>1. TypeOK'
    BY <1>1, <1>3 DEF IInv, TypeOK
  <2>2. WgExact' /\ FinalExact'
    BY <1>1, <1>3 DEF IInv, WgExact, FinalExact
  <2> QED BY <1>1, <2>1, <2>2 DEF IInv
<1> QED BY <1>2, <1>3 DEF Fill

\* A block of the surface or the carver stage.
LEMMA ProtoStep ==
  ASSUME IInv, NEW c \in Column, NEW y \in Level, NEW m \in Material,
         SurfaceSet(c, y, m) \/ CarverSet(c, y, m)
  PROVE  IInv'
<1>1. /\ stage \in {"surface", "carvers"} /\ PutWg(c, y, m)
      /\ UNCHANGED <<final, primed, stage, fillY, decorated>>
  BY DEF SurfaceSet, CarverSet
<1>2. /\ block' \in [Column -> [Level -> Material]]
      /\ wg' \in [WgType -> [Column -> Height]]
      /\ \A t \in WgType, d \in Column :
           IsHighest(block'[d], Opaque(t), MaxY, wg'[t][d])
  BY <1>1, PutWgExact
<1>3. TypeOK'
  BY <1>1, <1>2 DEF IInv, TypeOK
<1>4. WgExact'
  BY <1>1, <1>2 DEF WgExact
<1>5. FinalExact'
  <2>1. primed = {}
    BY <1>1 DEF IInv
  <2> QED BY <1>1, <2>1 DEF FinalExact
<1> QED BY <1>1, <1>3, <1>4, <1>5 DEF IInv

LEMMA NextStageStep == ASSUME IInv, NextStage PROVE IInv'
<1>1. /\ UNCHANGED <<block, wg, final, primed, fillY, decorated>>
      /\ stage \in {"fill", "surface", "carvers"}
      /\ stage' \in {"surface", "carvers", "features"}
  BY DEF NextStage
<1>2. TypeOK'
  BY <1>1 DEF IInv, TypeOK
<1>3. WgExact' /\ FinalExact'
  BY <1>1 DEF IInv, WgExact, FinalExact
<1> QED BY <1>1, <1>2, <1>3 DEF IInv

\* A block write: whether a map was there before or is primed by this write, it
\* is exact afterwards.
LEMMA PlaceStep ==
  ASSUME IInv, NEW c \in Column, NEW y \in Level, NEW m \in Material, Place(c, y, m)
  PROVE  IInv'
<1> DEFINE b == [block EXCEPT ![c][y] = m]
           f == PrimeAll(FinalType \ primed, b)
<1>1. /\ stage = "features" /\ UNCHANGED <<wg, stage, fillY, decorated>>
      /\ block' = b /\ primed' = FinalType
      /\ final' = [t \in FinalType |->
                     [f[t] EXCEPT ![c] = Updated(f[t][c], b[c], t, y)]]
  BY DEF Place, SetBlock
<1>2. /\ block \in [Column -> [Level -> Material]]
      /\ TypeOK /\ primed \subseteq FinalType
  BY DEF IInv, TypeOK
<1>3. /\ b \in [Column -> [Level -> Material]]
      /\ \A d \in Column : d # c => b[d] = block[d]
      /\ \A z \in Level : z # y => b[c][z] = block[c][z]
  BY <1>2
<1> HIDE DEF b
<1>4. /\ f \in [FinalType -> [Column -> Height]]
      /\ \A t \in FinalType, d \in Column :
           /\ t \notin primed => IsHighest(b[d], Opaque(t), MaxY, f[t][d])
           /\ t \in primed => f[t][d] = final[t][d]
  BY <1>2, PrimeAllExact
<1> HIDE DEF f
<1>5. \A t \in FinalType : IsHighest(b[c], Opaque(t), MaxY, Updated(f[t][c], b[c], t, y))
  <2> SUFFICES ASSUME NEW t \in FinalType
               PROVE  IsHighest(b[c], Opaque(t), MaxY, Updated(f[t][c], b[c], t, y))
    OBVIOUS
  <2>1. CASE t \in primed
    <3>1. IsHighest(block[c], Opaque(t), MaxY, f[t][c])
      BY <1>4, <2>1 DEF IInv, FinalExact
    <3> QED BY <1>3, <3>1, UpdatedExact
  <2>2. CASE t \notin primed
    <3>1. IsHighest(b[c], Opaque(t), MaxY, f[t][c])
      BY <1>4, <2>2
    <3> QED BY <3>1, UpdatedExact
  <2> QED BY <2>1, <2>2
<1>6. \A t \in FinalType, d \in Column : d # c => IsHighest(b[d], Opaque(t), MaxY, f[t][d])
  <2> SUFFICES ASSUME NEW t \in FinalType, NEW d \in Column, d # c
               PROVE  IsHighest(b[d], Opaque(t), MaxY, f[t][d])
    OBVIOUS
  <2>1. CASE t \in primed
    <3>1. f[t][d] = final[t][d] /\ b[d] = block[d]
      BY <1>3, <1>4, <2>1
    <3> QED BY <2>1, <3>1 DEF IInv, FinalExact
  <2> QED BY <1>4, <2>1
<1>7. \A t \in FinalType : Updated(f[t][c], b[c], t, y) \in Height
  BY <1>5 DEF IsHighest, Height
<1>8. \A t \in FinalType, d \in Column :
        final'[t][d] = IF d = c THEN Updated(f[t][c], b[c], t, y) ELSE f[t][d]
  BY <1>1, <1>4
<1>9. final' \in [FinalType -> [Column -> Height]]
  BY <1>1, <1>4, <1>7
<1>10. TypeOK'
  BY <1>1, <1>2, <1>3, <1>9 DEF TypeOK
<1>11. FinalExact'
  BY <1>1, <1>5, <1>6, <1>8 DEF FinalExact
<1>12. WgExact'
  BY <1>1 DEF WgExact
<1> QED BY <1>1, <1>10, <1>11, <1>12 DEF IInv

\* A vein: no map is touched, and none has to be.
LEMMA OreStep ==
  ASSUME IInv, NEW c \in Column, NEW y \in Level, OrePlace(c, y)
  PROVE  IInv'
<1>1. /\ stage = "features" /\ block[c][y] \in OreTarget
      /\ block' = [block EXCEPT ![c][y] = Ore]
      /\ UNCHANGED <<wg, final, primed, stage, fillY, decorated>>
  BY DEF OrePlace
<1>2. /\ block \in [Column -> [Level -> Material]] /\ primed \subseteq FinalType
      /\ Ore \in Material
  BY MaterialAssumption DEF IInv, TypeOK
<1>3. \A d \in Column, z \in Level :
        block'[d][z] = IF d = c /\ z = y THEN Ore ELSE block[d][z]
  BY <1>1, <1>2
<1>4. ASSUME NEW t \in primed, NEW d \in Column
      PROVE  IsHighest(block'[d], Opaque(t), MaxY, final[t][d])
  <2>1. IsHighest(block[d], Opaque(t), MaxY, final[t][d])
    BY DEF IInv, FinalExact
  <2>2. \A z \in Level : block'[d][z] \in Opaque(t) <=> block[d][z] \in Opaque(t)
    BY <1>1, <1>2, <1>3, OreSameClass
  <2> QED BY <2>1, <2>2, SameClassExact
<1>5. FinalExact'
  BY <1>1, <1>4 DEF FinalExact
<1>6. TypeOK'
  BY <1>1, <1>2 DEF IInv, TypeOK
<1>7. WgExact'
  BY <1>1 DEF WgExact
<1> QED BY <1>1, <1>5, <1>6, <1>7 DEF IInv

LEMMA ReadHeightStep ==
  ASSUME IInv, NEW t \in FinalType, ReadHeight(t)
  PROVE  IInv'
<1>1. /\ stage = "features" /\ t \notin primed
      /\ final' = PrimeAll({t}, block) /\ primed' = primed \cup {t}
      /\ UNCHANGED <<block, wg, stage, fillY, decorated>>
  BY DEF ReadHeight
<1>2. /\ final' \in [FinalType -> [Column -> Height]]
      /\ \A u \in FinalType, d \in Column :
           /\ u = t => IsHighest(block[d], Opaque(u), MaxY, final'[u][d])
           /\ u # t => final'[u][d] = final[u][d]
  BY <1>1, PrimeAllExact DEF IInv
<1>3. primed \subseteq FinalType
  BY DEF IInv, TypeOK
<1>4. FinalExact'
  BY <1>1, <1>2, <1>3 DEF IInv, FinalExact
<1>5. TypeOK'
  BY <1>1, <1>2, <1>3 DEF IInv, TypeOK
<1>6. WgExact'
  BY <1>1 DEF WgExact
<1> QED BY <1>1, <1>3, <1>4, <1>5, <1>6 DEF IInv

LEMMA DecorateStep == ASSUME IInv, Decorate PROVE IInv'
<1>1. /\ stage = "features" /\ final' = PrimeAll(FinalType, block)
      /\ primed' = FinalType /\ UNCHANGED <<block, wg, stage, fillY>>
      /\ decorated' = TRUE
  BY DEF Decorate
<1>2. /\ final' \in [FinalType -> [Column -> Height]]
      /\ \A u \in FinalType, d \in Column :
           IsHighest(block[d], Opaque(u), MaxY, final'[u][d])
  BY <1>1, PrimeAllExact DEF IInv
<1>3. FinalExact'
  BY <1>1, <1>2 DEF FinalExact
<1>4. TypeOK'
  BY <1>1, <1>2 DEF IInv, TypeOK
<1>5. WgExact'
  BY <1>1 DEF WgExact
<1> QED BY <1>1, <1>3, <1>4, <1>5 DEF IInv

LEMMA SaveStep == ASSUME IInv, Save PROVE IInv'
<1>1. /\ stage' = "saved" /\ decorated /\ stage = "features"
      /\ UNCHANGED <<block, wg, final, primed, fillY, decorated>>
  BY DEF Save
<1>2. TypeOK'
  BY <1>1 DEF IInv, TypeOK
<1>3. WgExact' /\ FinalExact'
  BY <1>1 DEF IInv, WgExact, FinalExact
<1> QED BY <1>1, <1>2, <1>3 DEF IInv
-----------------------------------------------------------------------------
\* The inductive invariant holds in every reachable state.
THEOREM SpecIInv == Spec => []IInv
<1>1. IInv /\ [Next]_vars => IInv'
  <2> SUFFICES ASSUME IInv, [Next]_vars PROVE IInv'
    OBVIOUS
  <2>1. ASSUME NEW c \in Column, NEW m \in Material, Fill(c, m) PROVE IInv'
    BY <2>1, FillStep
  <2>2. ASSUME NEW c \in Column, NEW y \in Level, NEW m \in Material,
               SurfaceSet(c, y, m) \/ CarverSet(c, y, m)
        PROVE  IInv'
    BY <2>2, ProtoStep
  <2>3. ASSUME NEW c \in Column, NEW y \in Level, NEW m \in Material, Place(c, y, m)
        PROVE  IInv'
    BY <2>3, PlaceStep
  <2>4. ASSUME NEW c \in Column, NEW y \in Level, OrePlace(c, y) PROVE IInv'
    BY <2>4, OreStep
  <2>5. ASSUME NEW t \in FinalType, ReadHeight(t) PROVE IInv'
    BY <2>5, ReadHeightStep
  <2>6. CASE NextStage \/ Decorate \/ Save
    BY <2>6, NextStageStep, DecorateStep, SaveStep
  <2>7. CASE UNCHANGED vars
    BY <2>7 DEF IInv, TypeOK, WgExact, FinalExact, vars
  <2> QED BY <2>1, <2>2, <2>3, <2>4, <2>5, <2>6, <2>7 DEF Next
<1> QED BY <1>1, InitIInv, PTL DEF Spec

\* The state keeps its types; in particular no entry leaves MinY .. MaxY + 1,
\* which is what the nine-bit packing of the saved maps relies on.
THEOREM TypeCorrect == Spec => []TypeOK
BY SpecIInv, PTL DEF IInv

\* The *_WG maps are exact up to the end of the carvers.
THEOREM WgCorrect == Spec => []WgExact
BY SpecIInv, PTL DEF IInv

\* A final map that exists is exact.
THEOREM FinalCorrect == Spec => []FinalExact
BY SpecIInv, PTL DEF IInv

\* Every map that is saved exists, and is exact.
THEOREM SavedCorrect == Spec => []SavedExact
<1>1. IInv => SavedExact
  BY DEF IInv, FinalExact, SavedExact
<1> QED BY <1>1, SpecIInv, PTL

\* All maps are exact at every point where the code reads them.
THEOREM MapsCorrect == Spec => []MapsExact
BY WgCorrect, FinalCorrect, SavedCorrect, PTL DEF MapsExact
=============================================================================
