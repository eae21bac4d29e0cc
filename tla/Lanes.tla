------------------------------- MODULE Lanes -------------------------------
(***************************************************************************)
(* The arithmetic of densities, point by point and on vectors of points.   *)
(*                                                                         *)
(* Scalar: Java's minimum and maximum (core/src/df_eval.c), gradient noise *)
(* with its hash chain, saturating floors and vertical quantisation        *)
(* (noise_perlin.c), octaves with wrapped coordinates (noise_octaves.c),   *)
(* the pair of a normal noise (noise_normal.c) and the three banks of the  *)
(* blended noise (noise_blended.c).                                        *)
(*                                                                         *)
(* Vectors, which must repeat it: eight lanes at a time or two vectors of  *)
(* eight in step (core/src/df_simd_avx512.c), or four lanes                *)
(* (df_simd_avx2.c), which blend by a sign bit instead of a mask and have  *)
(* a hash chain per lane, with the list of operations they may be given    *)
(* (df_isa.c).                                                             *)
(*                                                                         *)
(* A double is an integer, a whole number of quarters of a block where it  *)
(* is a position, or one of the two values whose rules differ: negative    *)
(* zero and not-a-number.  A vector is a function of the lane; points are  *)
(* a vector of positions << x, y, z >>.                                    *)
(***************************************************************************)
EXTENDS Integers, FiniteSets, SequencesExt, FiniteSetsExt

CONSTANTS
  IntMax,     \* where the conversion to int saturates, in blocks
  LongMax,    \* where the conversion to long saturates, in periods
  Period,     \* 2^25 in the code, in quarters
  Span,       \* a main bank beyond -Span .. Span uses one limit only
  W,          \* lanes of a vector
  Guard,      \* vector floors are exact up to here, in blocks; 2^30
  LongGuard   \* the same for wrapped coordinates, in periods; 2^62

NoiseAssumption == /\ IntMax \in Nat /\ LongMax \in Nat
                   /\ Period \in Nat \ {0} /\ Span \in Nat \ {0}
LaneAssumption == W \in Nat \ {0} /\ Guard <= IntMax /\ LongGuard <= LongMax

NaN == 10000000
NegZero == 10000001
U == 4                    \* quarters in a block
PermSize == 8             \* 256 in the code
Cube == (0 .. 1) \X (0 .. 1) \X (0 .. 1)

Num(v) == IF v = NegZero THEN 0 ELSE v
IsZero(v) == Num(v) = 0
Lt(a, b) == NaN \notin {a, b} /\ Num(a) < Num(b)
Le(a, b) == NaN \notin {a, b} /\ Num(a) <= Num(b)
Add(a, b) == IF NaN \in {a, b} THEN NaN
             ELSE IF a = NegZero /\ b = NegZero THEN NegZero ELSE Num(a) + Num(b)
Minus(v) == v = NegZero \/ v < 0
Mul(a, b) == IF NaN \in {a, b} THEN NaN
             ELSE IF (IsZero(a) \/ IsZero(b)) /\ Minus(a) # Minus(b) THEN NegZero
             ELSE Num(a) * Num(b)
AbsVal(v) == IF v = NaN THEN NaN ELSE IF Num(v) < 0 THEN - v ELSE Num(v)

\* jmin: a NaN on the left wins, and of two zeros the negative one on the right.
JMin(a, b) ==
  IF a = NaN THEN a
  ELSE IF IsZero(a) /\ IsZero(b) /\ b = NegZero THEN b
  ELSE IF Le(a, b) THEN a ELSE b

\* jmax
JMax(a, b) ==
  IF a = NaN THEN a
  ELSE IF IsZero(a) /\ IsZero(b) /\ a = NegZero THEN b
  ELSE IF Le(b, a) THEN a ELSE b

\* mth_clamp
Clamp(v, lo, hi) == IF Lt(v, lo) THEN lo ELSE JMin(v, hi)

\* clamped_lerp, times the length of the scale.
ClampedLerp(t, scale, a, b) ==
  IF Lt(t, 0) THEN scale * a
  ELSE IF Lt(scale, t) THEN scale * b ELSE scale * a + t * (b - a)
-----------------------------------------------------------------------------
(* Gradient noise. *)
Saturate(v, max) == IF v > max THEN max ELSE IF v < - max - 1 THEN - max - 1 ELSE v

\* mth_floor: quarters to a block.
MthFloor(d) == IF d = NaN THEN 0 ELSE Saturate(d \div U, IntMax)

\* hc_octaves_wrap, over mth_lfloor.
Wrap(d) ==
  IF d = NaN THEN NaN
  ELSE d - Saturate((d + Period \div 2) \div Period, LongMax) * Period

\* The vertical scale of an octave: none, a number of quarters, or so small
\* that dividing by it leaves the range of an int.
NoScale == 0
Tiny == -1
Quotient(t, ys) == IF ys = Tiny THEN 1000 * t ELSE t \div ys
ScaleBy(ys, e) == IF ys = Tiny THEN Tiny ELSE ys * e
TimesScale(q, ys) == IF ys = Tiny THEN q \div 1000 ELSE q * ys

\* P
P(p, i) == p.perm[i % PermSize]

\* The three steps of the hash chain, to the gradient of each corner.
Gradients(p, ix, iy, iz) ==
  LET a == P(p, ix)
      b == P(p, ix + 1)
      column(cx, cy) == P(p, (IF cx = 0 THEN a ELSE b) + iy + cy)
  IN [c \in Cube |-> P(p, column(c[1], c[2]) + iz + c[3]) % 4]

GRAD == [h \in 0 .. 3 |-> << <<1, 1, 0>>, <<-1, 0, 1>>, <<0, 1, -1>>, <<0, -1, -1>> >>[h + 1]]

\* grad_dot
GradDot(h, x, y, z) == GRAD[h][1] * x + GRAD[h][2] * y + GRAD[h][3] * z

\* lerp, with a weight in quarters.
Lerp4(t, a, b) == U * a + t * (b - a)

\* The values v of the eight corners, mixed.
Mix(v, fx, fy, fz) ==
  LET layer(cz) == Lerp4(fy, Lerp4(fx, v[<<0, 0, cz>>], v[<<1, 0, cz>>]),
                             Lerp4(fx, v[<<0, 1, cz>>], v[<<1, 1, cz>>]))
  IN Lerp4(fz, layer(0), layer(1)) \div (U * U)

\* The fade is by the y before quantisation.
Corners(grad, f, yadj) ==
  Mix([c \in Cube |-> GradDot(grad[c], f[1] - U * c[1], f[2] - yadj - U * c[2], f[3] - U * c[3])],
      f[1], f[2], f[3])

\* The y that is quantised: ymax, where it is a y of this cell below y.
Below(ymax, fy) == IF Le(0, ymax) /\ Lt(ymax, fy) THEN ymax ELSE fy

\* hc_perlin_sample_scaled, at d with the origin added: i its cube.
YAdj(f, ys, ymax) ==
  IF ys = NoScale THEN 0
  ELSE TimesScale(Saturate(Quotient(Below(ymax, f[2]), ys), IntMax), ys)
Within(d, i) == [k \in 1 .. 3 |-> d[k] - U * i[k]]
InCube(p, d, i, ys, ymax) ==
  Corners(Gradients(p, i[1], i[2], i[3]), Within(d, i), YAdj(Within(d, i), ys, ymax))
Moved(p, at) == [k \in 1 .. 3 |-> Add(at[k], p.origin[k])]
Sample(p, d, ys, ymax) ==
  IF \E k \in 1 .. 3 : d[k] = NaN THEN NaN
  ELSE InCube(p, d, [k \in 1 .. 3 |-> MthFloor(d[k])], ys, ymax)
Perlin(p, at, ys, ymax) == Sample(p, Moved(p, at), ys, ymax)

\* A missing octave has no table.
Missing == [origin |-> <<0, 0, 0>>, perm |-> << >>]
Pow2(n) == 2 ^ n

\* hc_octaves_value: coordinates double and weights halve from octave to
\* octave.
Octaves(o, at, ys, ymax) ==
  LET n == Len(o)
      d[i \in 0 .. n] ==
        IF i = 0 THEN 0
        ELSE IF o[i] = Missing THEN d[i - 1]
        ELSE LET e == Pow2(i - 1)
             IN Add(d[i - 1],
                    Mul(Perlin(o[i], [k \in 1 .. 3 |-> Wrap(Mul(at[k], e))],
                               ScaleBy(ys, e), Mul(ymax, e)),
                        Pow2(n - i)))
  IN d[n]

\* hc_normal_noise_value: the second field at other coordinates.
Normal(n, at) ==
  Add(Octaves(n.first, at, NoScale, 0),
      Octaves(n.second, [k \in 1 .. 3 |-> Mul(at[k], 3)], NoScale, 0))

\* One bank of the blended noise, from the highest octave down; the last
\* octave has the whole coordinates.
Bank(o, at, smear) ==
  LET n == Len(o)
      d[r \in 0 .. n] ==
        IF r = 0 THEN 0
        ELSE LET e == Pow2(n - r)
                 oct == o[n + 1 - r]
             IN IF oct = Missing THEN d[r - 1]
                ELSE Add(d[r - 1],
                         Mul(Perlin(oct, [k \in 1 .. 3 |-> Wrap(Mul(at[k], e))],
                                    ScaleBy(smear, e), Mul(at[2], e)), Pow2(r - 1)))
  IN d[n]

BlendedAt(b, at) == <<at[1] * b.xz, at[2] * b.y, at[3] * b.xz>>
MainAt(b, at) == [k \in 1 .. 3 |-> BlendedAt(b, at)[k] \div b.factor]

\* hc_blended_compute: the main bank says how far between the two limits; a
\* limit that does not count is not computed.
Limits(b, at, q) ==
  ClampedLerp(q + Span, 2 * Span,
              IF Le(Span, q) THEN 0 ELSE Bank(b.lo, BlendedAt(b, at), b.smear),
              IF Le(q, - Span) THEN 0 ELSE Bank(b.hi, BlendedAt(b, at), b.smear))
Blended(b, at) == Limits(b, at, Bank(b.main, MainAt(b, at), b.smear))
-----------------------------------------------------------------------------
(* Vectors of eight lanes. *)
Lane == 1 .. W
Splat(v) == [l \in Lane |-> v]
All(mask) == \A l \in Lane : mask[l]

\* _mm512_mask_blend_pd: b where the mask is set.
Blend(mask, a, b) == [l \in Lane |-> IF mask[l] THEN b[l] ELSE a[l]]

\* v_jmin, v_jmax, v_clamp of eight lanes: compare, then blend.
Min8(a, b) ==
  LET r == Blend([l \in Lane |-> Le(a[l], b[l])], b, a)
      zeros == [l \in Lane |-> IsZero(a[l]) /\ IsZero(b[l]) /\ Minus(b[l])]
  IN Blend([l \in Lane |-> a[l] = NaN], Blend(zeros, r, b), a)

Max8(a, b) ==
  LET r == Blend([l \in Lane |-> Le(b[l], a[l])], b, a)
      zeros == [l \in Lane |-> IsZero(a[l]) /\ IsZero(b[l]) /\ Minus(a[l])]
  IN Blend([l \in Lane |-> a[l] = NaN], Blend(zeros, r, b), a)

Clamp8(v, lo, hi) == Blend([l \in Lane |-> Lt(v[l], lo[l])], Min8(v, hi), lo)

\* v_clamped_lerp: the line everywhere, then the two ends.
ClampedLerp8(t, scale, a, b) ==
  LET line == [l \in Lane |-> scale * a[l] + t[l] * (b[l] - a[l])]
      low == Blend([l \in Lane |-> Lt(t[l], 0)], line, [l \in Lane |-> scale * a[l]])
  IN Blend([l \in Lane |-> Lt(scale, t[l])], low, [l \in Lane |-> scale * b[l]])
-----------------------------------------------------------------------------
(* Noise.  Points are a vector of coordinates. *)

\* v_all_in
AllIn(v, bound) == \A l \in Lane : v[l] # NaN /\ Lt(AbsVal(v[l]), bound)

Coord(at, k) == [l \in Lane |-> at[l][k]]
Times(at, e) == [l \in Lane |-> [k \in 1 .. 3 |-> Mul(at[l][k], e)]]
SumOf(a, b) == [l \in Lane |-> Add(a[l], b[l])]
TimesEach(v, e) == [l \in Lane |-> Mul(v[l], e)]

\* wrap_x8: with every lane in range the floor is exact, else all are scalar.
Wrap8(at) ==
  LET near == \A k \in 1 .. 3 :
                AllIn([l \in Lane |-> IF at[l][k] = NaN THEN NaN
                                      ELSE (at[l][k] + Period \div 2) \div Period], LongGuard)
      exact(d) == d - ((d + Period \div 2) \div Period) * Period
  IN [l \in Lane |-> [k \in 1 .. 3 |-> IF near THEN exact(at[l][k]) ELSE Wrap(at[l][k])]]

\* perm_lookup32: the table as four banks, each indexed by the low bits of
\* the index; the high bits choose the bank.
Lookup(p, i) ==
  LET bank(k) == p.perm[2 * k + (i % 2)]
      chosen == { k \in 1 .. 3 : i \div 2 = k }
  IN IF chosen = {} THEN bank(0) ELSE bank(CHOOSE k \in chosen : TRUE)

\* The hash chain of perlin_x8: indices are masked before they are added.
Gradients8(p, ix, iy, iz) ==
  LET mask(n) == n % PermSize
      a == Lookup(p, mask(ix))
      b == Lookup(p, mask(mask(ix) + 1))
      column(cx, cy) == Lookup(p, mask((IF cx = 0 THEN a ELSE b) + mask(iy) + cy))
  IN [c \in Cube |-> Lookup(p, mask(column(c[1], c[2]) + mask(iz) + c[3])) % 4]

\* The guards of perlin_x8: every coordinate of every lane, then the quotient
\* of every lane.
InRange(p, at, ys, ymax) ==
  /\ \A k \in 1 .. 3 : AllIn([l \in Lane |-> Add(at[l][k], p.origin[k])], Guard * U)
  /\ ys # NoScale =>
       AllIn([l \in Lane |-> Quotient(Below(ymax[l], (at[l][2] + p.origin[2]) % U), ys)], Guard)

\* perlin_x8 with every guard passed: no conversion saturates.
FastAdj(f, ys, ymax) ==
  IF ys = NoScale THEN 0 ELSE TimesScale(Quotient(Below(ymax, f[2]), ys), ys)
FastCube(p, d, i, ys, ymax) ==
  Corners(Gradients8(p, i[1], i[2], i[3]), Within(d, i), FastAdj(Within(d, i), ys, ymax))
FastSample(p, d, ys, ymax) == FastCube(p, d, [k \in 1 .. 3 |-> d[k] \div U], ys, ymax)
Fast8(p, at, ys, ymax) ==
  [l \in Lane |-> FastSample(p, [k \in 1 .. 3 |-> at[l][k] + p.origin[k]], ys, ymax[l])]

\* perlin_x8
Perlin8(p, at, ys, ymax) ==
  IF InRange(p, at, ys, ymax) THEN Fast8(p, at, ys, ymax)
  ELSE [l \in Lane |-> Perlin(p, at[l], ys, ymax[l])]

\* octaves_x8
Octaves8(o, at, ys, ymax) ==
  LET n == Len(o)
      d[i \in 0 .. n] ==
        IF i = 0 THEN Splat(0)
        ELSE IF o[i] = Missing THEN d[i - 1]
        ELSE LET e == Pow2(i - 1)
             IN SumOf(d[i - 1],
                      TimesEach(Perlin8(o[i], Wrap8(Times(at, e)),
                                        ScaleBy(ys, e),
                                        TimesEach(ymax, e)), Pow2(n - i)))
  IN d[n]

\* normal_x8
Normal8(n, at) == SumOf(Octaves8(n.first, at, NoScale, Splat(0)),
                        Octaves8(n.second, Times(at, 3), NoScale, Splat(0)))

\* One octave of a bank, r-th from the highest, of eight lanes and of two
\* vectors in step.
Round8(o, r, at, smear) ==
  LET e == Pow2(Len(o) - r)
      oct == o[Len(o) + 1 - r]
  IN IF oct = Missing THEN Splat(0)
     ELSE TimesEach(Perlin8(oct, Wrap8(Times(at, e)), ScaleBy(smear, e), TimesEach(Coord(at, 2), e)),
                    Pow2(r - 1))

Bank8(o, at, smear) ==
  LET d[r \in 0 .. Len(o)] ==
        IF r = 0 THEN Splat(0) ELSE SumOf(d[r - 1], Round8(o, r, at, smear))
  IN d[Len(o)]

\* The lanes beyond one end: their limit is not wanted.
Over(q) == [l \in Lane |-> Le(Span, q[l])]
Under(q) == [l \in Lane |-> Le(q[l], - Span)]

At(b, at) == [l \in Lane |-> BlendedAt(b, at[l])]
AtMain(b, at) == [l \in Lane |-> MainAt(b, at[l])]

\* The end of blended_x8: unwanted limits are set to zero, lane by lane.
Mixed8(q, lo, hi) ==
  ClampedLerp8([l \in Lane |-> q[l] + Span], 2 * Span,
               Blend(Over(q), lo, Splat(0)), Blend(Under(q), hi, Splat(0)))

\* blended_x8: a bank is left out only if no lane wants it.
Limits8(b, at, q) ==
  Mixed8(q, IF All(Over(q)) THEN Splat(0) ELSE Bank8(b.lo, At(b, at), b.smear),
            IF All(Under(q)) THEN Splat(0) ELSE Bank8(b.hi, At(b, at), b.smear))
Blended8(b, at) == Limits8(b, at, Bank8(b.main, AtMain(b, at), b.smear))
-----------------------------------------------------------------------------
(* Two vectors in step: a pair << A, B >> of each argument that differs. *)

\* wrap_x8_dual: out of step if one of the two is out of range.
Wrap2(at) == [s \in 1 .. 2 |-> Wrap8(at[s])]

\* perlin_x8_dual: in step only if both are in range.
Perlin2(p, at, ys, ymax) ==
  IF \A s \in 1 .. 2 : InRange(p, at[s], ys, ymax[s])
  THEN [s \in 1 .. 2 |-> Fast8(p, at[s], ys, ymax[s])]
  ELSE [s \in 1 .. 2 |-> Perlin8(p, at[s], ys, ymax[s])]

\* octaves_x8_dual
Octaves2(o, at, ys) ==
  LET n == Len(o)
      zero == << Splat(0), Splat(0) >>
      d[i \in 0 .. n] ==
        IF i = 0 THEN zero
        ELSE IF o[i] = Missing THEN d[i - 1]
        ELSE LET e == Pow2(i - 1)
                 g == Perlin2(o[i], Wrap2(<< Times(at[1], e), Times(at[2], e) >>), ScaleBy(ys, e), zero)
             IN [s \in 1 .. 2 |-> SumOf(d[i - 1][s], TimesEach(g[s], Pow2(n - i)))]
  IN d[n]

\* normal_x8_dual
Sum2(a, b) == [s \in 1 .. 2 |-> SumOf(a[s], b[s])]
Normal2(n, at) ==
  Sum2(Octaves2(n.first, at, NoScale),
       Octaves2(n.second, [s \in 1 .. 2 |-> Times(at[s], 3)], NoScale))

Round2(o, r, at, smear) ==
  LET e == Pow2(Len(o) - r)
      oct == o[Len(o) + 1 - r]
      g == Perlin2(oct, Wrap2(<< Times(at[1], e), Times(at[2], e) >>), ScaleBy(smear, e),
                   [s \in 1 .. 2 |-> TimesEach(Coord(at[s], 2), e)])
  IN IF oct = Missing THEN << Splat(0), Splat(0) >>
     ELSE [s \in 1 .. 2 |-> TimesEach(g[s], Pow2(r - 1))]

\* A bank of blended_x8_dual: a vector that does not want it is left out, and
\* the other goes on alone.
Bank2(o, at, smear, unwanted) ==
  LET d[r \in 0 .. Len(o)] ==
        IF r = 0 THEN << Splat(0), Splat(0) >>
        ELSE LET two == Round2(o, r, at, smear)
             IN [s \in 1 .. 2 |->
                   IF unwanted[s] THEN d[r - 1][s]
                   ELSE SumOf(d[r - 1][s],
                              IF unwanted[3 - s] THEN Round8(o, r, at[s], smear) ELSE two[s])]
  IN d[Len(o)]

\* blended_x8_dual
Mixed2(q, lo, hi) == [s \in 1 .. 2 |-> Mixed8(q[s], lo[s], hi[s])]
Limits2(b, where, q) ==
  Mixed2(q, Bank2(b.lo, where, b.smear, [s \in 1 .. 2 |-> All(Over(q[s]))]),
            Bank2(b.hi, where, b.smear, [s \in 1 .. 2 |-> All(Under(q[s]))]))
Blended2(b, at) ==
  Limits2(b, [s \in 1 .. 2 |-> At(b, at[s])],
          Bank2(b.main, [s \in 1 .. 2 |-> AtMain(b, at[s])], b.smear, << FALSE, FALSE >>))
-----------------------------------------------------------------------------
(* Vectors of four lanes. *)
\* _mm256_blendv_pd by a double: only the sign of the mask counts.
BlendBySign(a, b, m) == [l \in Lane |-> IF Minus(m[l]) THEN b[l] ELSE a[l]]

\* The same of four lanes: both zero, and the sign bit of an operand.
SignIf(c, v) == IF c THEN v ELSE 0
Min4(a, b) ==
  LET r == Blend([l \in Lane |-> Le(a[l], b[l])], b, a)
      m == [l \in Lane |-> SignIf(IsZero(a[l]) /\ IsZero(b[l]), b[l])]
  IN Blend([l \in Lane |-> a[l] = NaN], BlendBySign(r, b, m), a)

Max4(a, b) ==
  LET r == Blend([l \in Lane |-> Le(b[l], a[l])], b, a)
      m == [l \in Lane |-> SignIf(IsZero(a[l]) /\ IsZero(b[l]), a[l])]
  IN Blend([l \in Lane |-> a[l] = NaN], BlendBySign(r, b, m), a)

Clamp4(v, lo, hi) == Blend([l \in Lane |-> Lt(v[l], lo[l])], Min4(v, hi), lo)

\* v_clamped_lerp
ClampedLerp4(t, scale, a, b) ==
  [l \in Lane |->
     LET line == scale * a[l] + t[l] * (b[l] - a[l])
     IN CASE Lt(t[l], 0) -> scale * a[l]
          [] Lt(scale, t[l]) -> scale * b[l]
          [] OTHER -> line]

\* wrap_x4
Wrap4(at) ==
  IF \A k \in 1 .. 3, l \in Lane :
       at[l][k] # NaN /\ AbsVal((at[l][k] + Period \div 2) \div Period) < LongGuard
  THEN [l \in Lane |-> [k \in 1 .. 3 |->
          at[l][k] - ((at[l][k] + Period \div 2) \div Period) * Period]]
  ELSE [l \in Lane |-> [k \in 1 .. 3 |-> Wrap(at[l][k])]]

\* The hash chain of perlin_x4, by lane, with the sums masked on lookup.
Columns4(p, ix, iy) ==
  [c \in (0 .. 1) \X (0 .. 1) |->
     p.perm[(p.perm[(ix + c[1]) % PermSize] + iy + c[2]) % PermSize]]

\* corner_dot: a row of gradients by lane, then transposed.
CornerDot4(p, h, iz, x, y, z) ==
  LET row == GRAD[p.perm[(h + iz) % PermSize] % 4]
  IN row[1] * x + row[2] * y + row[3] * z

\* perlin_x4, a lane at a time, at d with the origin added, in cube i and
\* there at f.
Row4(p, h, i, f, gy) ==
  Mix([c \in Cube |-> CornerDot4(p, h[<<c[1], c[2]>>], i[3] + c[3],
                                 f[1] - U * c[1], gy - U * c[2], f[3] - U * c[3])],
      f[1], f[2], f[3])
InCube4(p, i, f, ys, ymax) ==
  Row4(p, Columns4(p, i[1], i[2]), i, f,
       IF ys = NoScale THEN f[2]
       ELSE f[2] - TimesScale(Quotient(Below(ymax, f[2]), ys), ys))
Sample4(p, d, i, ys, ymax) == InCube4(p, i, Within(d, i), ys, ymax)
Lane4(p, d, ys, ymax) == Sample4(p, d, [k \in 1 .. 3 |-> d[k] \div U], ys, ymax)
Perlin4(p, at, ys, ymax) ==
  IF InRange(p, at, ys, ymax)
  THEN [l \in Lane |-> Lane4(p, [k \in 1 .. 3 |-> at[l][k] + p.origin[k]], ys, ymax[l])]
  ELSE [l \in Lane |-> Perlin(p, at[l], ys, ymax[l])]

\* octaves_x4
Octaves4(o, at) ==
  LET n == Len(o)
      d[i \in 0 .. n] ==
        IF i = 0 THEN Splat(0)
        ELSE IF o[i] = Missing THEN d[i - 1]
        ELSE SumOf(d[i - 1],
                   TimesEach(Perlin4(o[i], Wrap4(Times(at, Pow2(i - 1))), NoScale, Splat(0)),
                             Pow2(n - i)))
  IN d[n]

\* normal_x4
Normal4(n, at) == SumOf(Octaves4(n.first, at), Octaves4(n.second, Times(at, 3)))

Bank4(o, at, smear) ==
  LET n == Len(o)
      d[r \in 0 .. n] ==
        IF r = 0 THEN Splat(0)
        ELSE LET e == Pow2(n - r)
                 oct == o[n + 1 - r]
             IN IF oct = Missing THEN d[r - 1]
                ELSE SumOf(d[r - 1],
                           TimesEach(Perlin4(oct, Wrap4(Times(at, e)), ScaleBy(smear, e),
                                             TimesEach(Coord(at, 2), e)), Pow2(r - 1)))
  IN d[n]

\* blended_x4
Keep(mask, v) == [l \in Lane |-> IF mask[l] THEN 0 ELSE v[l]]
Limits4(b, at, q) ==
  ClampedLerp4([l \in Lane |-> q[l] + Span], 2 * Span,
               Keep(Over(q), IF All(Over(q)) THEN Splat(0) ELSE Bank4(b.lo, At(b, at), b.smear)),
               Keep(Under(q), IF All(Under(q)) THEN Splat(0) ELSE Bank4(b.hi, At(b, at), b.smear)))
Blended4(b, at) == Limits4(b, at, Bank4(b.main, AtMain(b, at), b.smear))
-----------------------------------------------------------------------------
(***************************************************************************)
(* How a noise chunk fills its slices and cells (core/src/noise_chunk.c)   *)
(* with the back end the processor has: by vectors of eight lanes, two in  *)
(* step where there are enough points, by vectors of four, or point by     *)
(* point; the interpreters of the lazy programs on vectors; and the same   *)
(* program by point (core/src/df_eval.c), which the others must repeat.    *)
(*                                                                         *)
(* A node is [op, args, k], k its constants.  The program of a graph is    *)
(* that of module DensityGraph: a sequence of [node, segs], with one       *)
(* segment per branch of a choice.  A cell is W columns of W blocks and    *)
(* one block high; a chunk has one cell, a column of Rows corners for each *)
(* z of the slice.                                                         *)
(***************************************************************************)
CONSTANTS
  Graphs,       \* the graphs, sequences of nodes; the last is the root
  Noises,       \* their normal noises
  Blends,       \* their blended noises
  RowCounts,    \* numbers of corners in a column
  Requests      \* what a caller forces, -1 nothing

D == INSTANCE DensityGraph WITH
       Names <- {}, Registries <- {}, Main <- 0, Outside <- 0, MaxEvals <- 0,
       registry <- 0, graph <- << >>, root <- 0, flat <- << >>, slice <- << >>,
       sc <- << >>, last <- 0, phase <- 0, evals <- 0

Scalar == 0
Avx2 == 1
Avx512 == 2
Isas == {Scalar, Avx2, Avx512}

VARIABLES
  g,        \* the graph
  isa,      \* the back end the chunk uses
  rows,     \* corners in a column
  scratch,  \* node -> value
  vscA, vscB,   \* node -> vector, of the two vectors
  slice,    \* z, row -> value of the root
  cell,     \* values of the blocks of the cell, in the order they are filled
  z, i,     \* the column and the next row; the next x of the cell
  phase     \* "column", "rows", "cell", "done"

vars == <<g, isa, rows, scratch, vscA, vscB, slice, cell, z, i, phase>>

Junk == 77     \* what the arena held
Root == Len(g)
Zs == 0 .. 1
StartX == -3 * W          \* of the cell; its slice is the one at its far side
SliceX == StartX + W
RowY(r) == U * (3 * r - 2)

\* Where the program stands: the point or points, and the cell's context.
\* The corners of the interpolators and the tables of the flat caches are
\* given.  A table has the quarts of the cell and those beyond it; a quart is as
\* wide as a cell.
CornersOf(n) == << n + 3, n - 1, 2 * n, 5 >>
Window == (0 .. 1) \X (0 .. 1)
TableOf(n) == [q \in Window |-> 3 * n - q[1] + 5 * q[2]]
QuartOf(p) == (p \div U) \div W
Quart(at) == <<QuartOf(at[1]) - StartX \div W, QuartOf(at[3])>>

\* interp_lerp3 with the deltas of a block, in W-ths of a cell.
LerpCell(c, dx, dz) ==
  LET lerp(t, a, b) == W * a + t * (b - a)
  IN lerp(dz, lerp(dx, c[1], c[2]), lerp(dx, c[3], c[4]))

\* The branch of a choice: a bound belongs to the branch above it, and what
\* is not a number to the last.
Pick(n, d) ==
  CASE n.op = "choice" -> IF Le(n.k[1], d) /\ Lt(d, n.k[2]) THEN 2 ELSE 3
    [] n.op = "select" -> IF Lt(d, n.k[1]) THEN 2 ELSE IF Lt(d, n.k[2]) THEN 3 ELSE 4

\* eval_node of one point, with its deltas in the cell.
Node1(n, idx, mode, at, dx, dz, s) ==
  LET a == s[n.args[1]]
      b == s[n.args[2]]
  IN CASE n.op = "const" -> n.k
       [] n.op = "x" -> at[1] [] n.op = "y" -> at[2] [] n.op = "z" -> at[3]
       [] n.op = "add" -> Add(a, b)
       [] n.op = "mul" -> IF IsZero(a) THEN 0 ELSE Mul(a, b)
       [] n.op = "min" -> JMin(a, b)
       [] n.op = "max" -> JMax(a, b)
       [] n.op = "mulk" -> Mul(a, n.k)
       [] n.op = "negative" -> IF Lt(0, a) THEN a ELSE Mul(a, 2)
       [] n.op = "clamp" -> Clamp(a, n.k[1], n.k[2])
       [] n.op = "gradient" -> ClampedLerp(at[2] - n.k[1], n.k[2], n.k[3], n.k[4])
       [] n.op \in {"choice", "select"} -> s[n.args[Pick(n, a)]]
       [] n.op = "noise" -> Normal(Noises[n.k], at)
       [] n.op = "blended" -> Blended(Blends[n.k], at)
       [] n.op = "shift" -> Mul(Normal(Noises[n.k], <<at[1], 0, at[3]>>), 4)
       [] n.op = "interp" -> IF mode = "SP" THEN a ELSE LerpCell(CornersOf(idx), dx, dz)
       [] n.op = "flat" ->
            IF Quart(at) \in Window THEN TableOf(idx)[Quart(at)] ELSE a

\* The operations that vectors have: op_x4_ok, over every node of a stream.
Vectored(n) == n.op # "shift"
StreamOk(nodes) == \A n \in nodes : Vectored(g[n])
-----------------------------------------------------------------------------
(* Nodes and programs on vectors.  pts is [at, dx, dz], by lane. *)

\* The arithmetic of x8_node.
Arith8(n, V) ==
  LET a == V[n.args[1]]
      b == V[n.args[2]]
  IN CASE n.op = "add" -> SumOf(a, b)
       [] n.op = "mul" -> Blend([l \in Lane |-> IsZero(a[l])],
                                [l \in Lane |-> Mul(a[l], b[l])], Splat(0))
       [] n.op = "min" -> Min8(a, b)
       [] n.op = "max" -> Max8(a, b)
       [] n.op = "mulk" -> TimesEach(a, n.k)
       [] n.op = "negative" -> Blend([l \in Lane |-> Lt(0, a[l])], TimesEach(a, 2), a)
       [] n.op = "clamp" -> Clamp8(a, Splat(n.k[1]), Splat(n.k[2]))

IsArith(n) == n.op \in {"add", "mul", "min", "max", "mulk", "negative", "clamp"}

\* The lanes of a choice, gathered or blended.
Gather(n, V) == [l \in Lane |-> V[n.args[Pick(n, V[n.args[1]][l])]][l]]

\* The markers of x8_node, each lane at its own place.
Marker8(n, idx, mode, pts, V) ==
  IF n.op = "interp"
  THEN IF mode = "SP" THEN V[n.args[1]]
       ELSE [l \in Lane |-> LerpCell(CornersOf(idx), pts.dx[l], pts.dz[l])]
  ELSE [l \in Lane |-> LET q == Quart(pts.at[l])
                       IN IF q \in Window THEN TableOf(idx)[q] ELSE V[n.args[1]][l]]

\* The positions and the gradient of x8_node.
Position8(n, pts) ==
  CASE n.op = "const" -> Splat(n.k)
    [] n.op = "x" -> Coord(pts.at, 1) [] n.op = "y" -> Coord(pts.at, 2) [] n.op = "z" -> Coord(pts.at, 3)
    [] n.op = "gradient" -> ClampedLerp8([l \in Lane |-> pts.at[l][2] - n.k[1]], n.k[2],
                                         Splat(n.k[3]), Splat(n.k[4]))

\* x8_node
Node8(idx, mode, pts, V) ==
  LET n == g[idx]
  IN CASE IsArith(n) -> Arith8(n, V)
       [] n.op \in {"choice", "select"} -> Gather(n, V)
       [] n.op = "noise" -> Normal8(Noises[n.k], pts.at)
       [] n.op = "blended" -> Blended8(Blends[n.k], pts.at)
       [] n.op \in {"interp", "flat"} -> Marker8(n, idx, mode, pts, V)
       [] OTHER -> Position8(n, pts)

\* The arithmetic, the noise and the markers of x8_node2, on two scratches.
Arith2(n, V2) == [s \in 1 .. 2 |-> Arith8(n, V2[s])]
Noise2(n, pts2) ==
  IF n.op = "noise" THEN Normal2(Noises[n.k], << pts2[1].at, pts2[2].at >>)
  ELSE Blended2(Blends[n.k], << pts2[1].at, pts2[2].at >>)
Marker2(n, idx, mode, pts2, V2) ==
  [s \in 1 .. 2 |-> Marker8(n, idx, mode, pts2[s], V2[s])]

\* x8_node2
Node2(idx, mode, pts2, V2) ==
  LET n == g[idx]
  IN CASE IsArith(n) -> Arith2(n, V2)
       [] n.op \in {"choice", "select"} -> [s \in 1 .. 2 |-> Gather(n, V2[s])]
       [] n.op \in {"noise", "blended"} -> Noise2(n, pts2)
       [] n.op \in {"interp", "flat"} -> Marker2(n, idx, mode, pts2, V2)
       [] OTHER -> [s \in 1 .. 2 |-> Position8(n, pts2[s])]

\* x4_node: what four lanes do otherwise.
Node4(idx, mode, pts, V) ==
  LET n == g[idx]
      a == V[n.args[1]]
      b == V[n.args[2]]
  IN CASE n.op = "min" -> Min4(a, b)
       [] n.op = "max" -> Max4(a, b)
       [] n.op = "clamp" -> Clamp4(a, Splat(n.k[1]), Splat(n.k[2]))
       [] n.op = "mul" -> [l \in Lane |-> IF IsZero(a[l]) THEN 0 ELSE Mul(a[l], b[l])]
       [] n.op = "gradient" -> ClampedLerp4([l \in Lane |-> pts.at[l][2] - n.k[1]], n.k[2],
                                            Splat(n.k[3]), Splat(n.k[4]))
       [] n.op = "noise" -> Normal4(Noises[n.k], pts.at)
       [] n.op = "blended" -> Blended4(Blends[n.k], pts.at)
       [] OTHER -> Node8(idx, mode, pts, V)

\* Mutant of Needed: the first lane decides for all.
NeededByFirst(idx, k, V) == Pick(g[idx], V[g[idx].args[1]][1]) = k

\* Whether some lane takes branch k of the choice at idx.
Needed(idx, k, V) == \E l \in Lane : Pick(g[idx], V[g[idx].args[1]][l]) = k

RECURSIVE Run8(_, _, _, _), Run4(_, _, _, _), Run2(_, _, _, _)
RECURSIVE Legs8(_, _, _, _, _), Legs4(_, _, _, _, _), Legs2(_, _, _, _, _)

\* x8_run: a segment runs on all lanes if any lane needs it.
Legs8(it, k, mode, pts, V) ==
  IF k > Len(it.segs) THEN V
  ELSE Legs8(it, k + 1, mode, pts,
             IF Needed(it.node, k, V) THEN Run8(it.segs[k], mode, pts, V) ELSE V)

Run8(prog, mode, pts, V) ==
  IF prog = << >> THEN V
  ELSE LET it == Head(prog)
           before == Legs8(it, 2, mode, pts, V)
       IN Run8(Tail(prog), mode, pts,
               [before EXCEPT ![it.node] = Node8(it.node, mode, pts, before)])

\* x4_run
Legs4(it, k, mode, pts, V) ==
  IF k > Len(it.segs) THEN V
  ELSE Legs4(it, k + 1, mode, pts,
             IF Needed(it.node, k, V) THEN Run4(it.segs[k], mode, pts, V) ELSE V)

Run4(prog, mode, pts, V) ==
  IF prog = << >> THEN V
  ELSE LET it == Head(prog)
           before == Legs4(it, 2, mode, pts, V)
       IN Run4(Tail(prog), mode, pts,
               [before EXCEPT ![it.node] = Node4(it.node, mode, pts, before)])

\* x8_run2: a segment that both need is run in step, one that one needs by
\* that one alone.
Legs2(it, k, mode, pts2, V2) ==
  IF k > Len(it.segs) THEN V2
  ELSE LET need == { s \in 1 .. 2 : Needed(it.node, k, V2[s]) }
       IN Legs2(it, k + 1, mode, pts2,
                IF need = 1 .. 2 THEN Run2(it.segs[k], mode, pts2, V2)
                ELSE [s \in 1 .. 2 |-> IF s \in need THEN Run8(it.segs[k], mode, pts2[s], V2[s])
                                       ELSE V2[s]])

Run2(prog, mode, pts2, V2) ==
  IF prog = << >> THEN V2
  ELSE LET it == Head(prog)
           before == Legs2(it, 2, mode, pts2, V2)
           r == Node2(it.node, mode, pts2, before)
       IN Run2(Tail(prog), mode, pts2,
               [s \in 1 .. 2 |-> [before[s] EXCEPT ![it.node] = r[s]]])

RECURSIVE Run1(_, _, _, _, _, _)

\* prog_run, point by point.
Run1(prog, mode, at, dx, dz, s) ==
  IF prog = << >> THEN s
  ELSE LET it == Head(prog)
           before == IF it.segs = << >> THEN s
                     ELSE Run1(it.segs[Pick(g[it.node], s[g[it.node].args[1]])], mode, at, dx, dz, s)
       IN Run1(Tail(prog), mode, at, dx, dz,
               [before EXCEPT ![it.node] = Node1(g[it.node], it.node, mode, at, dx, dz, before)])
-----------------------------------------------------------------------------
(* The fills. *)

\* hc_df_mark_y_variant
VariesWithY(gr) ==
  LET v[n \in 1 .. Len(gr)] ==
        \/ gr[n].op \in {"y", "gradient", "noise", "blended"}
        \/ \E a \in ToSet(gr[n].args) : v[a]
  IN { n \in 1 .. Len(gr) : v[n] }

\* The cone of the root by mode: interpolators are leaves inside a cell, and
\* flat caches where all points are in the window.
ConeOf(gr, mode) ==
  LET reads(n) == IF gr[n].op = "flat" \/ (gr[n].op = "interp" /\ mode = "CELL") THEN {}
                  ELSE ToSet(gr[n].args)
      on[n \in 1 .. Len(gr)] == n = Len(gr) \/ \E k \in n + 1 .. Len(gr) : n \in reads(k) /\ on[k]
  IN { n \in 1 .. Len(gr) : on[n] }

Invariant == ConeOf(g, "SP") \ VariesWithY(g)
Variant == ConeOf(g, "SP") \cap VariesWithY(g)
SliceProgram == D!Program(g, Variant, {Root})
CellProgram == D!Program(g, ConeOf(g, "CELL"), {Root})

\* hc_isa_force and hc_isa_active: a request above what the processor has is
\* lowered to it.
Active(request, detected) == IF request < 0 \/ request > detected THEN detected ELSE request

Init ==
  /\ g \in Graphs
  /\ \E request \in Requests, detected \in Isas : isa = Active(request, detected)
  /\ rows \in RowCounts
  /\ scratch = [n \in 1 .. Len(g) |-> Junk]
  /\ vscA = [n \in 1 .. Len(g) |-> Splat(Junk)] /\ vscB = vscA
  /\ slice = << >> /\ cell = << >>
  /\ z = 0 /\ i = 0 /\ phase = "column"

Corner(j, y) == <<U * SliceX, y, U * W * j>>
RowAt(r) == Corner(z, RowY(r))
Column == RowAt(0)
RowPoints(r) == [at |-> [l \in Lane |-> RowAt(r + l - 1)], dx |-> Splat(0), dz |-> Splat(0)]

\* The nodes without y, once per column, handed to every lane.
StartColumn ==
  /\ phase = "column"
  /\ scratch' = Run1([k \in 1 .. Cardinality(Invariant) |->
                        [node |-> D!Ascending(Invariant, Len(g))[k], segs |-> << >>]],
                     "SP", Column, 0, 0, scratch)
  /\ LET share(V) == [n \in DOMAIN V |-> IF n \in Invariant THEN Splat(scratch'[n]) ELSE V[n]]
     IN /\ vscA' = IF isa # Scalar /\ StreamOk(Variant) THEN share(vscA) ELSE vscA
        /\ vscB' = IF isa = Avx512 /\ StreamOk(Variant) THEN share(vscB) ELSE vscB
  /\ i' = 0 /\ phase' = "rows"
  /\ UNCHANGED <<g, isa, rows, slice, cell, z>>

Filled(r, values) ==
  slice' = [p \in DOMAIN slice \cup { <<z, r + k - 1>> : k \in DOMAIN values } |->
              IF p \in DOMAIN slice THEN slice[p] ELSE values[p[2] - r + 1]]

Rows == /\ phase = "rows" /\ i < rows
        /\ UNCHANGED <<g, isa, rows, cell, z, phase>>

Wide == isa = Avx512 /\ StreamOk(Variant)
Narrow == isa = Avx2 /\ StreamOk(Variant)

\* nc_fill_slice, two groups of eight rows.
FillTwoGroups ==
  /\ Rows /\ Wide /\ i + 2 * W <= rows
  /\ \E r \in { Run2(SliceProgram, "SP", << RowPoints(i), RowPoints(i + W) >>, << vscA, vscB >>) } :
        /\ vscA' = r[1] /\ vscB' = r[2]
        /\ Filled(i, [k \in 1 .. 2 * W |-> IF k <= W THEN r[1][Root][k] ELSE r[2][Root][k - W]])
  /\ i' = i + 2 * W /\ UNCHANGED scratch

\* nc_fill_slice, one group of eight rows.
FillGroup ==
  /\ Rows /\ Wide /\ i + 2 * W > rows /\ i + W <= rows
  /\ vscA' = Run8(SliceProgram, "SP", RowPoints(i), vscA)
  /\ Filled(i, vscA'[Root])
  /\ i' = i + W /\ UNCHANGED <<scratch, vscB>>

\* nc_fill_slice, four rows.
FillNarrow ==
  /\ Rows /\ Narrow /\ i + W <= rows
  /\ vscA' = Run4(SliceProgram, "SP", RowPoints(i), vscA)
  /\ Filled(i, vscA'[Root])
  /\ i' = i + W /\ UNCHANGED <<scratch, vscB>>

\* nc_fill_slice, the rows that are left, or all of them.
FillRow ==
  /\ Rows /\ ~ ((Wide \/ Narrow) /\ i + W <= rows)
  /\ scratch' = Run1(SliceProgram, "SP", RowAt(i), 0, 0, scratch)
  /\ Filled(i, << scratch'[Root] >>)
  /\ i' = i + 1 /\ UNCHANGED <<vscA, vscB>>

EndColumn ==
  /\ phase = "rows" /\ i = rows
  /\ IF z + 1 \in Zs THEN z' = z + 1 /\ phase' = "column" ELSE z' = 0 /\ phase' = "cell"
  /\ i' = 0
  /\ UNCHANGED <<g, isa, rows, scratch, vscA, vscB, slice, cell>>

\* The points of column dx of the cell, one lane per z.
CellPoints(dx) ==
  [at |-> [l \in Lane |-> <<U * (StartX + dx), U, U * (l - 1)>>],
   dx |-> Splat(dx), dz |-> [l \in Lane |-> l - 1]]

InCell == /\ phase = "cell" /\ i < W
          /\ UNCHANGED <<g, isa, rows, slice, z, phase>>
CellOk == StreamOk(ConeOf(g, "CELL"))

\* nc_fill_cell with eight lanes: half of the columns each, in step.
FillCellTwo ==
  /\ InCell /\ isa = Avx512 /\ CellOk
  /\ \E r \in { Run2(CellProgram, "CELL", << CellPoints(i), CellPoints(i + 1) >>, << vscA, vscB >>) } :
        vscA' = r[1] /\ vscB' = r[2] /\ cell' = cell \o r[1][Root] \o r[2][Root]
  /\ i' = i + 2 /\ UNCHANGED scratch

\* The same with four lanes, a column each.
FillCellNarrow ==
  /\ InCell /\ isa = Avx2 /\ CellOk
  /\ vscA' = Run4(CellProgram, "CELL", CellPoints(i), vscA)
  /\ cell' = cell \o vscA'[Root]
  /\ i' = i + 1 /\ UNCHANGED <<scratch, vscB>>

\* The same block by block.
FillCellBlocks ==
  /\ InCell /\ ~ (isa # Scalar /\ CellOk)
  /\ LET at == CellPoints(i)
         s[l \in 0 .. W] == IF l = 0 THEN scratch
                            ELSE Run1(CellProgram, "CELL", at.at[l], at.dx[l], at.dz[l], s[l - 1])
     IN /\ scratch' = s[W]
        /\ cell' = cell \o [l \in Lane |-> s[l][Root]]
  /\ i' = i + 1 /\ UNCHANGED <<vscA, vscB>>

Finish == /\ phase = "cell" /\ i = W
          /\ phase' = "done"
          /\ UNCHANGED <<g, isa, rows, scratch, vscA, vscB, slice, cell, z, i>>

Next == \/ StartColumn \/ FillTwoGroups \/ FillGroup \/ FillNarrow \/ FillRow \/ EndColumn
        \/ FillCellTwo \/ FillCellNarrow \/ FillCellBlocks \/ Finish

Spec == Init /\ [][Next]_vars
-----------------------------------------------------------------------------
(* The value of the root at a point, every node evaluated, no vector and no *)
(* program.                                                                *)
Plain(mode, at, dx, dz) ==
  LET v[n \in 1 .. Len(g)] ==
        Node1(g[n], n, mode, at, dx, dz, [k \in 1 .. n - 1 |-> v[k]])
  IN v[Root]

\* Every corner of the slice and every block of the cell is what the scalar
\* evaluation of its point gives, whichever lanes shared its vector, whatever
\* segments ran for them, and whatever the scratches held.
LanesAreScalar ==
  /\ \A p \in DOMAIN slice :
       slice[p] = Plain("SP", Corner(p[1], RowY(p[2])), 0, 0)
  /\ \A k \in DOMAIN cell :
       LET dx == (k - 1) \div W
           dz == (k - 1) % W
       IN cell[k] = Plain("CELL", <<U * (StartX + dx), U, U * dz>>, dx, dz)
  /\ phase = "done" => DOMAIN slice = Zs \X (0 .. rows - 1) /\ Len(cell) = W * W
=============================================================================
