-------------------------------- MODULE Ed25519 --------------------------------
(***************************************************************************)
(* ed25519-donna-impl-base.c and curve25519-donna-scalarmult-base.c: the   *)
(* points of -x^2 + y^2 = 1 + d x^2 y^2 in four coordinates, their sums by *)
(* tables and windows, and the ladder of X25519.  What the code keeps in   *)
(* 32 bytes is here a number of ScalarBits = FieldBits + 1 bits.           *)
(***************************************************************************)
EXTENDS FieldElements, ModM

CONSTANTS
  CurveD,          \* d
  CurveA24,        \* 121665: d is -CurveA24 / (CurveA24 + 1)
  BaseX, BaseY,    \* the base point
  SqrtMinus1,
  Fffb,            \* the roots fe_fffb1 .. fe_fffb4
  Window1, Window2, SlideReach     \* 5, 7 and 6

MontgomeryA == 4 * CurveA24 + 2          \* 486662

ge25519_ecd  == Fe(CurveD)
ge25519_ec2d == Fe((2 * CurveD) % Prime)
ge25519_sqrtneg1 == Fe(SqrtMinus1)
ge25519_basepoint ==
  [x |-> Fe(BaseX), y |-> Fe(BaseY), z |-> Fe(1), t |-> Fe((BaseX * BaseY) % Prime)]
-----------------------------------------------------------------------------
(* The group, with whole numbers: <<X, Y, Z>> stands for (X/Z, Y/Z). *)

Minus(a, b) == (a - b) % Prime
TimesP(a, b) == (a * b) % Prime

PointSum(P, Q) ==
  LET From(a, b, c, d, e, f, g) ==
        <<TimesP(TimesP(a, f), Minus(TimesP(P[1] + P[2], Q[1] + Q[2]), c + d)),
          TimesP(TimesP(a, g), d + c), TimesP(f, g)>>
      With(a, b, c, d, e) == From(a, b, c, d, e, Minus(b, e), (b + e) % Prime)
      Parts(a, c, d) == With(a, TimesP(a, a), c, d, TimesP(CurveD, TimesP(c, d)))
  IN Parts(TimesP(P[3], Q[3]), TimesP(P[1], Q[1]), TimesP(P[2], Q[2]))

PointTimes(k, P) ==
  Fold(LAMBDA s, i : <<IF (k \div 2^(i - 1)) % 2 = 1 THEN PointSum(s[1], s[2]) ELSE s[1],
                       PointSum(s[2], s[2])>>,
       <<<<0, 1, 1>>, P>>, [i \in 1..ScalarBits |-> i])[1]

PowerP(a, e) ==
  LET s[i \in 0..FieldBits] ==
        IF i = 0 THEN <<1, a % Prime>>
        ELSE LET was == s[i - 1]
             IN <<IF (e \div 2^(i - 1)) % 2 = 1 THEN TimesP(was[1], was[2]) ELSE was[1],
                  TimesP(was[2], was[2])>>
  IN s[FieldBits][1]

OverP(a, b) == TimesP(a, PowerP(b, Prime - 2))

AffineBy(P, inverse) == <<TimesP(P[1], inverse), TimesP(P[2], inverse)>>
Affine(P) == AffineBy(P, PowerP(P[3], Prime - 2))

BasePoint == <<BaseX, BaseY, 1>>

\* The tables, from the group's law.
NielsOf(A, t2d) == <<Minus(A[2], A[1]), (A[2] + A[1]) % Prime, t2d>>
TwoDxy(A) == TimesP(TimesP(2 * CurveD, A[1]), A[2])
TwoXy(A)  == TimesP(2 * A[1], A[2])

\* 1, 3, 5, ... times the base point
ge25519_niels_sliding_multiples ==
  [i \in 1..2^(Window2 - 2) |->
     LET A == Affine(PointTimes(2 * i - 1, BasePoint))
         n == NielsOf(A, TwoDxy(A))
     IN [ysubx |-> Fe(n[1]), xaddy |-> Fe(n[2]), t2d |-> Fe(n[3])]]

\* 1 to 8 times 256^pos times the base point, packed.  The first eight, from
\* which a sum is started, have 2xy where the others have 2dxy.
ge25519_niels_base_multiples ==
  [pos \in 0..((Quads \div 2) - 1) |->
     [u \in 1..8 |->
        LET A == Affine(PointTimes((u * 256^pos) % GroupOrder, BasePoint))
        IN NielsOf(A, IF pos = 0 THEN TwoXy(A) ELSE TwoDxy(A))]]
-----------------------------------------------------------------------------
(* Conversions *)

ed25519_verify(a, b) == a = b

ge25519_p1p1_to_partial(p) ==
  [x |-> curve25519_mul(p.x, p.t), y |-> curve25519_mul(p.y, p.z), z |-> curve25519_mul(p.z, p.t),
   t |-> Fe(0)]

ge25519_p1p1_to_full(p) == [ge25519_p1p1_to_partial(p) EXCEPT !.t = curve25519_mul(p.x, p.y)]

ge25519_full_to_pniels(r) ==
  [ysubx |-> curve25519_sub(r.y, r.x), xaddy |-> curve25519_add(r.y, r.x), z |-> r.z,
   t2d |-> curve25519_mul(r.t, ge25519_ec2d)]
-----------------------------------------------------------------------------
(* Adding and doubling *)

Doubled(c, yy, zz, xysq) ==
  [x |-> curve25519_sub_after_basic(xysq, yy), y |-> yy, z |-> zz,
   t |-> curve25519_sub_after_basic(c, zz)]

ge25519_double_p1p1(p) ==
  LET From(a, b, c) ==
        Doubled(c, curve25519_add(b, a), curve25519_sub(b, a),
                curve25519_square(curve25519_add(p.x, p.y)))
      Twice(c) == curve25519_add_reduce(c, c)
  IN From(curve25519_square(p.x), curve25519_square(p.y), Twice(curve25519_square(p.z)))

\* q is added, or subtracted if signbit is 1.
AddedP1p1(a, e, c, twoz, signbit) ==
  LET plus == curve25519_add(twoz, c)
      less == curve25519_sub(twoz, c)
  IN [x |-> curve25519_sub(e, a), y |-> curve25519_add(e, a),
      z |-> IF signbit = 0 THEN plus ELSE less, t |-> IF signbit = 0 THEN less ELSE plus]

Crossed(p, q, signbit, c, twoz) ==
  AddedP1p1(curve25519_mul(curve25519_sub(p.y, p.x), IF signbit = 0 THEN q.ysubx ELSE q.xaddy),
            curve25519_mul(curve25519_add(p.y, p.x), IF signbit = 0 THEN q.xaddy ELSE q.ysubx),
            c, twoz, signbit)

ge25519_nielsadd2_p1p1(p, q, signbit) ==
  Crossed(p, q, signbit, curve25519_mul(p.t, q.t2d), curve25519_add_reduce(p.z, p.z))

ge25519_pnielsadd_p1p1(p, q, signbit) ==
  LET Twice(zz) == curve25519_add_reduce(zz, zz)
  IN Crossed(p, q, signbit, curve25519_mul(p.t, q.t2d), Twice(curve25519_mul(p.z, q.z)))

ge25519_double_partial(p) == ge25519_p1p1_to_partial(ge25519_double_p1p1(p))
ge25519_double(p)         == ge25519_p1p1_to_full(ge25519_double_p1p1(p))

AddedFull(e, h, f, g) ==
  [x |-> curve25519_mul(e, f), y |-> curve25519_mul(h, g), z |-> curve25519_mul(g, f),
   t |-> curve25519_mul(e, h)]

SumOf(p, q, c, twoz) ==
  LET From(a, e) == AddedFull(curve25519_sub(e, a), curve25519_add(e, a),
                              curve25519_sub_after_basic(twoz, c), curve25519_add_after_basic(twoz, c))
  IN From(curve25519_mul(curve25519_sub(p.y, p.x), q.ysubx), curve25519_mul(curve25519_add(p.y, p.x), q.xaddy))

ge25519_nielsadd2(r, q) == SumOf(r, q, curve25519_mul(r.t, q.t2d), curve25519_add(r.z, r.z))

\* The sum, as something to be added.
ge25519_pnielsadd(p, q) ==
  LET Twice(zz) == curve25519_add(zz, zz)
      As(s) == [ysubx |-> curve25519_sub(s.y, s.x), xaddy |-> curve25519_add(s.x, s.y), z |-> s.z,
                t2d |-> curve25519_mul(s.t, ge25519_ec2d)]
  IN As(SumOf(p, q, curve25519_mul(p.t, q.t2d), Twice(curve25519_mul(p.z, q.z))))

ge25519_add(p, q, signbit) ==
  ge25519_p1p1_to_full(ge25519_pnielsadd_p1p1(p, ge25519_full_to_pniels(q), signbit))
-----------------------------------------------------------------------------
(* Packing and unpacking *)

PackedFrom(x, y) == curve25519_contract(y) + (curve25519_contract(x) % 2) * 2^FieldBits

ge25519_pack(p) ==
  LET By(zi) == PackedFrom(curve25519_mul(p.x, zi), curve25519_mul(p.y, zi)) IN By(curve25519_recip(p.z))

NoPoint == [x |-> <<>>, y |-> <<>>, z |-> <<>>, t |-> <<>>]

\* The root is negated unless its parity differs from the byte's: what comes
\* out is the negative of the point.
WithParity(x, y, parity) ==
  LET point(root) == [x |-> root, y |-> y, z |-> Fe(1), t |-> curve25519_mul(root, y)]
  IN point(IF curve25519_contract(x) % 2 = parity THEN curve25519_neg(x) ELSE x)

Rooted(x, t, num, y, parity) ==
  IF curve25519_contract(curve25519_sub_reduce(t, num)) = 0 THEN WithParity(x, y, parity)
  ELSE IF curve25519_contract(curve25519_add_reduce(t, num)) # 0 THEN NoPoint
  ELSE WithParity(curve25519_mul(x, ge25519_sqrtneg1), y, parity)

RootOf(num, den, d3) ==
  curve25519_mul(curve25519_mul(curve25519_pow_two252m3(
    curve25519_mul(curve25519_mul(curve25519_square(d3), den), num)), d3), num)

RootChecked(x, num, den, y, parity) ==
  Rooted(x, curve25519_mul(curve25519_square(x), den), num, y, parity)

UnpackedFrom(num, den, y, parity) ==
  RootChecked(RootOf(num, den, curve25519_mul(curve25519_square(den), den)), num, den, y, parity)

UnpackedBy(y, y2, parity) ==
  UnpackedFrom(curve25519_sub_reduce(y2, Fe(1)), curve25519_add(curve25519_mul(y2, ge25519_ecd), Fe(1)), y, parity)

UnpackedAt(y, parity) == UnpackedBy(y, curve25519_square(y), parity)

ge25519_unpack_negative_vartime(p) == UnpackedAt(curve25519_expand(p), p \div 2^FieldBits)

ge25519_neg_partial(r) == [r EXCEPT !.x = curve25519_neg(r.x)]
ge25519_neg_full(r) == [r EXCEPT !.x = curve25519_neg(r.x), !.t = curve25519_neg(r.t)]

\* Where there is no point the code negates what is left; its callers look
\* at the result first.
PointNegated(r) == IF r = NoPoint THEN NoPoint ELSE ge25519_neg_full(r)
ge25519_unpack_vartime(p) == PointNegated(ge25519_unpack_negative_vartime(p))
-----------------------------------------------------------------------------
(* Multiples *)

ge25519_set_neutral == [x |-> Fe(0), y |-> Fe(1), z |-> Fe(1), t |-> Fe(0)]
ge25519_set_base == ge25519_basepoint

Absolute(k) == IF k < 0 THEN -k ELSE k
SignBit(k) == IF k < 0 THEN 1 ELSE 0
NoP1p1 == [x |-> Fe(0), y |-> Fe(0), z |-> Fe(0), t |-> Fe(0)]

\* p, 3 p, 5 p, ... to be added
OddMultiples(p, windowsize) ==
  LET dp == ge25519_double(p)
  IN Fold(LAMBDA pre, i : Append(pre, ge25519_pnielsadd(dp, pre[i])),
          <<ge25519_full_to_pniels(p)>>, [i \in 1..(2^(windowsize - 2) - 1) |-> i])

\* A sum and what it came from: t is computed at the end only.
Partial(t) == [r |-> ge25519_p1p1_to_partial(t), t |-> t]
WithT(s)   == [s.r EXCEPT !.t = curve25519_mul(s.t.x, s.t.y)]

\* One place: doubled, and what the digits ask for added.
WithOne(t, d, pre1) ==
  IF d = 0 THEN t
  ELSE ge25519_pnielsadd_p1p1(ge25519_p1p1_to_full(t), pre1[(Absolute(d) \div 2) + 1], SignBit(d))

WithTwo(t, d) ==
  IF d = 0 THEN t
  ELSE ge25519_nielsadd2_p1p1(ge25519_p1p1_to_full(t), ge25519_niels_sliding_multiples[(Absolute(d) \div 2) + 1],
                              SignBit(d))

Placed(r, d1, d2, pre1) == Partial(WithTwo(WithOne(ge25519_double_p1p1(r), d1, pre1), d2))

\* [s1] p1 + [s2] base
SlidingSum(slide1, slide2, pre1) ==
  LET used == {i \in 1..ScalarBits : slide1[i] # 0 \/ slide2[i] # 0}
      top == IF used = {} THEN 0 ELSE CHOOSE i \in used : \A j \in used : j <= i
  IN WithT(Fold(LAMBDA s, i : Placed(s.r, slide1[top + 1 - i], slide2[top + 1 - i], pre1),
                [r |-> ge25519_set_neutral, t |-> NoP1p1], [i \in 1..top |-> i]))

ge25519_double_scalarmult_vartime(p1, s1, s2) ==
  SlidingSum(contract256_slidingwindow_modm(s1, Window1, SlideReach),
             contract256_slidingwindow_modm(s2, Window2, SlideReach), OddMultiples(p1, Window1))

\* 0, p, 2 p, ... 8 p, to be added
EightMultiples(p) ==
  LET d1 == ge25519_double(p)
  IN Fold(LAMBDA pre, i : Append(pre, ge25519_pnielsadd(d1, pre[i + 1])),
          <<ge25519_full_to_pniels(ge25519_set_neutral), ge25519_full_to_pniels(p),
            ge25519_full_to_pniels(d1)>>, [i \in 1..6 |-> i])

ge25519_move_conditional_pniels_array(pre, pos) == pre[pos + 1]

Repeatedly(r, n) == Fold(LAMBDA s, i : ge25519_double_partial(s), r, [i \in 1..n |-> i])

QuadSum(slide, pre) ==
  LET At(r, k) == Partial(ge25519_pnielsadd_p1p1(ge25519_double(r),
                            ge25519_move_conditional_pniels_array(pre, Absolute(k)), SignBit(k)))
  IN WithT(Fold(LAMBDA s, i : At(Repeatedly(s.r, 3), slide[Quads + 1 - i]),
                [r |-> ge25519_set_neutral, t |-> NoP1p1], [i \in 1..Quads |-> i]))

ge25519_scalarmult(p1, s1) == QuadSum(contract256_window4_modm(s1), EightMultiples(p1))

\* No entry is taken for the digit 0, and 1, 1, 0 is left.
ge25519_move_conditional_niels_array(row, u) == IF u = 0 THEN <<1, 1, 0>> ELSE row[u]

SignedNiels(xy, t, sign) ==
  [ysubx |-> xy[1], xaddy |-> xy[2], t2d |-> curve25519_swap_conditional(t, curve25519_neg(t), sign)[1]]

ChosenNiels(packed, sign) ==
  SignedNiels(curve25519_swap_conditional(curve25519_expand(packed[1]), curve25519_expand(packed[2]), sign),
              curve25519_expand(packed[3]), sign)

ge25519_scalarmult_base_choose_niels(pos, b) ==
  ChosenNiels(ge25519_move_conditional_niels_array(ge25519_niels_base_multiples[pos], Absolute(b)), SignBit(b))

\* The odd digits first, sixteen times them, and the even ones.
Started(t) ==
  [x |-> curve25519_sub_reduce(t.xaddy, t.ysubx), y |-> curve25519_add_reduce(t.xaddy, t.ysubx),
   z |-> curve25519_set(2), t |-> t.t2d]

WithNiels(r, i, b) == ge25519_nielsadd2(r, ge25519_scalarmult_base_choose_niels(i \div 2, b[i + 1]))

OddSum(b) ==
  Fold(LAMBDA r, i : WithNiels(r, i, b), Started(ge25519_scalarmult_base_choose_niels(0, b[2])),
       [i \in 1..((Quads \div 2) - 1) |-> 2 * i + 1])

WithFirst(r, t) == ge25519_nielsadd2(r, [t EXCEPT !.t2d = curve25519_mul(t.t2d, ge25519_ecd)])

BaseSum(b) ==
  Fold(LAMBDA r, i : WithNiels(r, i, b),
       WithFirst(ge25519_double(Repeatedly(OddSum(b), 3)), ge25519_scalarmult_base_choose_niels(0, b[1])),
       [i \in 1..((Quads \div 2) - 1) |-> 2 * i])

ge25519_scalarmult_base_niels(s) == BaseSum(contract256_window4_modm(s))

ge25519_scalarmult_base_wrapper(s) == ge25519_scalarmult_base_niels(s)

ge25519_mul8(t) == ge25519_double(ge25519_double_partial(ge25519_double_partial(t)))
-----------------------------------------------------------------------------
(* Asking of points *)

ge25519_copy(p) == p

ge25519_reduce(t) ==
  [x |-> curve25519_reduce(t.x), y |-> curve25519_reduce(t.y), z |-> curve25519_reduce(t.z),
   t |-> curve25519_reduce(t.t)]

ge25519_norm(p) ==
  LET By(zinv) == [x |-> curve25519_mul(p.x, zinv), y |-> curve25519_mul(p.y, zinv)]
      Full(q) == [x |-> q.x, y |-> q.y, z |-> curve25519_set(1), t |-> curve25519_mul(q.x, q.y)]
  IN Full(By(curve25519_recip(p.z)))

ge25519_check(r) ==
  LET sq(f) == curve25519_square(f)
      lhs == curve25519_sub_reduce(curve25519_mul(r.x, r.y), curve25519_mul(r.z, r.t))
      res == curve25519_sub_reduce(
               curve25519_sub_reduce(curve25519_sub_reduce(sq(r.y), sq(r.x)), sq(r.z)),
               curve25519_mul(sq(r.t), ge25519_ecd))
  IN /\ curve25519_isnonzero(curve25519_reduce(r.z))
     /\ ~curve25519_isnonzero(lhs) /\ ~curve25519_isnonzero(res)

ge25519_eq(a, b) ==
  /\ ge25519_check(a) /\ ge25519_check(b)
  /\ ~curve25519_isnonzero(curve25519_sub_reduce(curve25519_mul(a.x, b.z), curve25519_mul(b.x, a.z)))
  /\ ~curve25519_isnonzero(curve25519_sub_reduce(curve25519_mul(a.y, b.z), curve25519_mul(b.y, a.z)))

\* A point from any 32 bytes, for one-way functions into the curve.  Which of
\* four roots is taken depends on two Legendre symbols; t is left unset.
MappedPoint(root, sum, z, w) ==
  [x |-> curve25519_mul(root, sum), y |-> curve25519_sub_reduce(z, w), z |-> sum, t |-> Fe(0)]

MappedTo(x, z, w, sign) ==
  MappedPoint(IF curve25519_isnegative(x) # sign THEN curve25519_neg(x) ELSE x, curve25519_add_reduce(z, w), z, w)

MinusA  == Fe(Prime - MontgomeryA)
MinusA2 == Fe((Prime - MontgomeryA * MontgomeryA) % Prime)

Equal(a, b)    == ~curve25519_isnonzero(curve25519_sub_reduce(a, b))
Opposite(a, b) == ~curve25519_isnonzero(curve25519_add_reduce(a, b))
ByRoot(root, i) == curve25519_mul(root, Fe(Fffb[i]))

MappedFrom(root, x, u, v, w) ==
  IF Equal(w, x) \/ Opposite(w, x)
  THEN MappedTo(curve25519_mul(ByRoot(root, IF Equal(w, x) THEN 2 ELSE 1), u), curve25519_mul(MinusA, v), w, 0)
  ELSE MappedTo(ByRoot(root, IF Equal(w, curve25519_mul(x, ge25519_sqrtneg1)) THEN 4 ELSE 3), MinusA, w, 1)

MappedRoot(root, x, u, v, w) == MappedFrom(root, curve25519_mul(curve25519_square(root), x), u, v, w)
MappedWith(u, v, w, x)       == MappedRoot(curve25519_divpowm1(w, x), x, u, v, w)
MappedOver(u, v, w) ==
  MappedWith(u, v, w, curve25519_add_reduce(curve25519_square(w), curve25519_mul(MinusA2, v)))
MappedBy(u, v) == MappedOver(u, v, curve25519_add_reduce(v, curve25519_set(1)))
Doubled1(f)    == curve25519_add_reduce(f, f)
MappedAt(u)    == MappedBy(u, Doubled1(curve25519_square(u)))

ge25519_fromfe_frombytes_vartime(s) == MappedAt(curve25519_expand_reduce(s))
-----------------------------------------------------------------------------
(* X25519 *)

\* One point doubled: (x + z)^2 and (x - z)^2 lead to it.
LadderDouble(sum2, dif2) ==
  LET By(x, e) == <<x, curve25519_mul(e, curve25519_add(curve25519_scalar_product(e, CurveA24), sum2))>>
  IN By(curve25519_mul(sum2, dif2), curve25519_sub(sum2, dif2))

LadderSum(q, a, b) ==
  <<curve25519_square(curve25519_add(a, b)),
    curve25519_mul(curve25519_square(curve25519_sub(a, b)), q)>>

\* Two neighbouring multiples; n0 is doubled, n1 is their sum.
LadderStep(q, n0, n1) ==
  LET From(sum, dif) ==
        [n0 |-> LadderDouble(curve25519_square(sum), curve25519_square(dif)),
         n1 |-> LadderSum(q, curve25519_mul(curve25519_add(n1[1], n1[2]), dif),
                          curve25519_mul(sum, curve25519_sub(n1[1], n1[2])))]
  IN From(curve25519_add(n0[1], n0[2]), curve25519_sub(n0[1], n0[2]))

\* The highest bit but one is set and its step done by starting swapped; the
\* lowest three are not, and only double.
curve25519_scalarmult_donna(n, basepoint) ==
  LET q == curve25519_expand(basepoint)
      Bit(i) == (n \div 2^i) % 2
      Swapped(s, bit) ==
        LET on == IF bit # s.lastbit THEN 1 ELSE 0
            x == curve25519_swap_conditional(s.n0[1], s.n1[1], on)
            z == curve25519_swap_conditional(s.n0[2], s.n1[2], on)
        IN [n0 |-> <<x[1], z[1]>>, n1 |-> <<x[2], z[2]>>, lastbit |-> bit]
      Stepped(s, t, bit) == Swapped([n0 |-> t.n0, n1 |-> t.n1, lastbit |-> s.lastbit], bit)
      ladder == Fold(LAMBDA s, i : Stepped(s, LadderStep(q, s.n0, s.n1), Bit(i)),
                     [n0 |-> <<q, Fe(1)>>, n1 |-> <<Fe(1), Fe(0)>>, lastbit |-> 1],
                     [k \in 1..(FieldBits - 3) |-> FieldBits - 1 - k]).n0
      Double(p) == LadderDouble(curve25519_square(curve25519_add(p[1], p[2])),
                                curve25519_square(curve25519_sub(p[1], p[2])))
      Result(p) == curve25519_contract(curve25519_mul(p[1], curve25519_recip(p[2])))
  IN Result(Double(Double(Double(ladder))))
-----------------------------------------------------------------------------
(* ed25519.c: keys, signatures, collective signatures, shared secrets.      *)
(* ed25519_hash is SHA-512 (Keccak-512 or SHA3-512 in the functions with a  *)
(* suffix): a digest is two halves, lower first, of what it is fed.         *)

CONSTANT ed25519_hash(_)

EdRefused == -1

\* The lowest three bits and the highest are cleared, the next is set.
Clamped(half) == ((half % 2^(FieldBits - 1)) - (half % 8)) + 2^(FieldBits - 1)

\* Without its first line a scalar may be reduced before it is used.
ed25519_extsk(sk) == LET h == ed25519_hash(<<sk>>) IN <<Clamped(h[1]), h[2]>>

ed25519_hram(R, pk, m) == expand256_modm(ed25519_hash(<<R, pk, m>>))

SecretScalar(sk) == expand256_modm(<<ed25519_extsk(sk)[1]>>)

ed25519_publickey(sk) == ge25519_pack(ge25519_scalarmult_base_niels(SecretScalar(sk)))

\* h a + r
Answer(h, a, r) == contract256_modm(add256_modm(mul256_modm(h, a), r))

SignedWith(m, sk, pk, r, R) ==
  [R |-> R, S |-> Answer(ed25519_hram(R, pk, m), SecretScalar(sk), r)]
SignedBy(m, sk, pk, r) == SignedWith(m, sk, pk, r, ge25519_pack(ge25519_scalarmult_base_niels(r)))

ed25519_sign(m, sk, pk) == SignedBy(m, sk, pk, expand256_modm(ed25519_hash(<<ed25519_extsk(sk)[2], m>>)))

\* A fault: an S that is not reduced is as good as its remainder.
FaultyOpenedBy(A, h, S, R) ==
  IF ed25519_verify(R, ge25519_pack(ge25519_double_scalarmult_vartime(A, h, S))) THEN 0 ELSE EdRefused

\* 0 if the signature holds, or -1.
OpenedBy(A, h, S, R) ==
  IF is_reduced256_modm(S) /\ ed25519_verify(R, ge25519_pack(ge25519_double_scalarmult_vartime(A, h, S)))
  THEN 0 ELSE EdRefused

OpenedWith(A, m, pk, RS) ==
  IF A = NoPoint THEN EdRefused ELSE OpenedBy(A, ed25519_hram(RS.R, pk, m), expand_raw256_modm(RS.S), RS.R)

ed25519_sign_open(m, pk, RS) ==
  IF RS.S \div 2^(ScalarBits - 3) # 0 THEN EdRefused
  ELSE OpenedWith(ge25519_unpack_negative_vartime(pk), m, pk, RS)

\* The unpacked point is the negative, and so is its multiple.
MultipleOf(P, sk) ==
  IF P = NoPoint THEN EdRefused ELSE ge25519_pack(ge25519_neg_partial(ge25519_scalarmult(P, SecretScalar(sk))))

ed25519_scalarmult(sk, pk) == MultipleOf(ge25519_unpack_negative_vartime(pk), sk)
-----------------------------------------------------------------------------
(* Collective signatures: every signer has a nonce of its own *)

ed25519_cosi_sign(m, sk, nonce, R, pk) ==
  Answer(ed25519_hram(R, pk, m), SecretScalar(sk), SecretScalar(nonce))

\* The sum of the points; a single one is passed on unread.
FirstPoint(P) == IF P = NoPoint THEN NoPoint ELSE ge25519_full_to_pniels(P)

WithPoint(sump, P) == IF sump = NoPoint \/ P = NoPoint THEN NoPoint ELSE ge25519_pnielsadd(P, sump)

WithLast(sump, P) ==
  IF sump = NoPoint \/ P = NoPoint THEN EdRefused
  ELSE ge25519_pack(ge25519_neg_partial(ge25519_p1p1_to_partial(ge25519_pnielsadd_p1p1(P, sump, 0))))

SumOfKeys(points) ==
  WithLast(Fold(WithPoint, FirstPoint(points[1]), SubSeq(points, 2, Len(points) - 1)), points[Len(points)])

ed25519_cosi_combine_publickeys(pks) ==
  IF Len(pks) = 0 THEN EdRefused
  ELSE IF Len(pks) = 1 THEN pks[1]
  ELSE SumOfKeys(Evaluated([i \in DOMAIN pks |-> ge25519_unpack_negative_vartime(pks[i])]))

NoSignature25519 == [R |-> 0, S |-> 0]

ed25519_cosi_combine_signatures_checked(R, sigs) ==
  IF Len(sigs) = 0 THEN [sig |-> NoSignature25519, result |-> EdRefused]
  ELSE [sig |-> [R |-> R,
                 S |-> contract256_modm(Fold(LAMBDA s, t : add256_modm(s, expand256_modm(<<t>>)),
                                             expand256_modm(<<sigs[1]>>), Tail(sigs)))],
        result |-> 0]

ed25519_cosi_combine_signatures(R, sigs) == ed25519_cosi_combine_signatures_checked(R, sigs).sig
-----------------------------------------------------------------------------
(* X25519 *)

\* u = (y + z) / (z - y); the scalar is not reduced.
UOf(p) ==
  curve25519_contract(curve25519_mul(curve25519_add(p.y, p.z), curve25519_recip(curve25519_sub(p.z, p.y))))

curve25519_scalarmult_basepoint(e) == UOf(ge25519_scalarmult_base_niels(expand_raw256_modm(Clamped(e))))

curve25519_scalarmult(secret, basepoint) == curve25519_scalarmult_donna(Clamped(secret), basepoint)
=============================================================================
