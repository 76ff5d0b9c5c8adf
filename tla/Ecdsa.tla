-------------------------------- MODULE Ecdsa --------------------------------
(***************************************************************************)
(* ecdsa.c over the limbs of Bignum: points, multiplication by a scalar in *)
(* windows of signed odd digits, signatures, and public keys recovered     *)
(* from them.  A curve is a record with the fields of ecdsa_curve, its     *)
(* numbers already limbs.  The random numbers against side channels and    *)
(* the nonces of RFC 6979 are parameters: the first must not matter.       *)
(***************************************************************************)
EXTENDS Bignum

CONSTANT Window                     \* bits of a digit of a scalar: 4

ASSUME WindowAssumption == Window \in 1..TopBits /\ NumBits % Window = 0

Digits == NumBits \div Window

Read(bytes) == bn_read_be(bytes)

-----------------------------------------------------------------------------
(* Points *)

infinity == [x |-> bn_zero, y |-> bn_zero]

point_is_infinity(p) == bn_is_zero(p.x) /\ bn_is_zero(p.y)

point_is_equal(p, q) == bn_is_equal(p.x, q.x) /\ bn_is_equal(p.y, q.y)

point_is_negative_of(p, q) ==
  bn_is_equal(p.x, q.x) /\ ~bn_is_zero(p.y) /\ ~bn_is_equal(p.y, q.y)

\* The third point of the line with slope lambda through (x1, y1), mirrored;
\* sum is the sum of the two abscissas.
ThirdX(p, lambda, sum) ==
  bn_mod(bn_fast_mod(bn_subtractmod(bn_multiply(lambda, lambda, p), sum, p), p), p)

ThirdY(p, lambda, x1, y1, xr) ==
  bn_mod(bn_fast_mod(bn_subtractmod(bn_multiply(lambda, bn_subtractmod(x1, xr, p), p), y1, p), p), p)

WithY(p, lambda, x1, y1, xr) == [x |-> xr, y |-> ThirdY(p, lambda, x1, y1, xr)]

Third(p, lambda, x1, y1, sum) == WithY(p, lambda, x1, y1, ThirdX(p, lambda, sum))

DoubleSlope(curve, cp, p) ==
  bn_multiply(bn_subi(bn_mult_k(bn_multiply(cp.x, cp.x, p), 3, p), -curve.a, p),
              bn_inverse(bn_mult_k(cp.y, 2, p), p), p)

point_double(curve, cp) ==
  IF point_is_infinity(cp) \/ bn_is_zero(cp.y) THEN infinity
  ELSE Third(curve.prime, DoubleSlope(curve, cp, curve.prime), cp.x, cp.y, bn_lshift(cp.x))

AddSlope(cp1, cp2, p) ==
  bn_multiply(bn_inverse(bn_subtractmod(cp2.x, cp1.x, p), p), bn_subtractmod(cp2.y, cp1.y, p), p)

point_add(curve, cp1, cp2) ==
  IF point_is_infinity(cp1) THEN cp2
  ELSE IF point_is_infinity(cp2) THEN cp1
  ELSE IF point_is_equal(cp1, cp2) THEN point_double(curve, cp2)
  ELSE IF point_is_negative_of(cp1, cp2) THEN infinity
  ELSE Third(curve.prime, AddSlope(cp1, cp2, curve.prime), cp1.x, cp1.y,
             bn_addmod(cp1.x, cp2.x, curve.prime))

\* 2 * prime - a, limb by limb
conditional_negate(cond, a, prime) == IF cond THEN bn_subtractmod(bn_zero, a, prime) ELSE a

-----------------------------------------------------------------------------
(* Points without division: x = X / Z^2, y = Y / Z^3 *)

Square(x, p) == bn_multiply(x, x, p)

curve_to_jacobian(p, prime, z) ==
  [x |-> bn_multiply(p.x, Square(z, prime), prime),
   y |-> bn_multiply(p.y, bn_multiply(z, Square(z, prime), prime), prime),
   z |-> z]

Unscaled(jp, inv, inv2, p) ==
  [x |-> bn_mod(bn_multiply(jp.x, inv2, p), p),
   y |-> bn_mod(bn_multiply(jp.y, bn_multiply(inv2, inv, p), p), p)]

UnscaledBy(jp, inv, p) == Unscaled(jp, inv, Square(inv, p), p)

jacobian_to_curve(jp, prime) == UnscaledBy(jp, bn_inverse(jp.z, prime), prime)

\* 3 x^2 + a z^4 for z2 = z^2
Tangent(x, z2, curve) ==
  IF curve.a = 0 THEN bn_mult_k(Square(x, curve.prime), 3, curve.prime)
  ELSE bn_subtractmod(bn_mult_k(Square(x, curve.prime), 3, curve.prime),
                      bn_mult_k(Square(z2, curve.prime), -curve.a, curve.prime), curve.prime)

\* The sum with slope r / (h * z), xsum and ysum the sums of the coordinates
\* at the same scale.
SumY(r, hsqx, hcby, x, p) ==
  bn_fast_mod(bn_mult_half(
    bn_subtractmod(bn_multiply(r, bn_subtractmod(bn_subtractmod(hsqx, x, p), x, p), p), hcby, p), p), p)

SumX(r, hsqx, p) == bn_fast_mod(bn_subtractmod(Square(r, p), hsqx, p), p)

SumXY(r, hsqx, hcby, x, z, p) == [x |-> x, y |-> SumY(r, hsqx, hcby, x, p), z |-> z]

SumXYZ(r, hsqx, hcby, z, p) == SumXY(r, hsqx, hcby, SumX(r, hsqx, p), z, p)

SumAlong(r, h, h2, xsum, ysum, z, p) ==
  SumXYZ(r, bn_multiply(xsum, h2, p), bn_multiply(ysum, bn_multiply(h2, h, p), p),
         bn_multiply(h, z, p), p)

SumWith(r, h, xsum, ysum, z, p) == SumAlong(r, h, Square(h, p), xsum, ysum, z, p)

\* When the points are the same, r and h are those of the tangent.
SumOf(x1, y1, dx, ysum, p2, z2, curve) ==
  SumWith(bn_cmov(bn_is_equal(dx, curve.prime),
                  Tangent(p2.x, z2, curve), bn_subtractmod(y1, p2.y, curve.prime)),
          bn_cmov(bn_is_equal(dx, curve.prime), ysum, dx),
          bn_add(x1, p2.x), ysum, p2.z, curve.prime)

AtScale(x1, y1, p2, z2, curve) ==
  SumOf(x1, y1, bn_fast_mod(bn_subtractmod(x1, p2.x, curve.prime), curve.prime),
        bn_add(y1, p2.y), p2, z2, curve)

ScaledSum(p1, p2, z2, curve) ==
  AtScale(bn_multiply(p1.x, z2, curve.prime),
          bn_multiply(p1.y, bn_multiply(z2, p2.z, curve.prime), curve.prime), p2, z2, curve)

\* p2 + p1
point_jacobian_add(p1, p2, curve) == ScaledSum(p1, p2, Square(p2.z, curve.prime), curve)

\* Twice the point, m half the slope's numerator, ysq = y^2, xysq = x y^2.
TwiceX(m, xysq, p) ==
  bn_fast_mod(bn_subtractmod(Square(m, p), bn_fast_mod(bn_lshift(xysq), p), p), p)

TwiceY(m, x, ysq, xysq, p) ==
  bn_fast_mod(bn_subtractmod(bn_multiply(m, bn_subtractmod(xysq, x, p), p), Square(ysq, p), p), p)

TwiceXY(m, x, ysq, xysq, z, p) == [x |-> x, y |-> TwiceY(m, x, ysq, xysq, p), z |-> z]

TwiceWith(m, ysq, xysq, z, p) == TwiceXY(m, TwiceX(m, xysq, p), ysq, xysq, z, p)

TwiceAlong(m, ysq, jp, p) == TwiceWith(m, ysq, bn_multiply(ysq, jp.x, p), bn_multiply(jp.y, jp.z, p), p)

point_jacobian_double(jp, curve) ==
  TwiceAlong(bn_mult_half(
               bn_subtractmod(bn_mult_k(Square(jp.x, curve.prime), 3, curve.prime),
                              bn_mult_k(Square(Square(jp.z, curve.prime), curve.prime),
                                        -curve.a, curve.prime), curve.prime), curve.prime),
             Square(jp.y, curve.prime), jp, curve.prime)

-----------------------------------------------------------------------------
(* Multiplication by a scalar *)

\* k + 2^256, less the order when k is even: an odd number.
MadeOdd(curve, k) ==
  LET off(j) == IF bn_is_odd(k) THEN 0 ELSE curve.order[j]
      low == Carry(1, [j \in 1..(Limbs - 1) |-> Base - 1 + k[j] - off(j)], WordMod)
  IN Append(low.val, (low.temp + 2^TopBits - 1 + k[Limbs] - off(Limbs)) % WordMod)

\* Window + 1 bits of a from the place of digit i up, out of one limb or two.
LowBits(a, i) ==
  LET at == Window * i
      j == (at \div LimbBits) + 1
      off == at % LimbBits
      upper == IF j < Limbs THEN a[j + 1] * 2^(LimbBits - off) ELSE 0
  IN ((a[j] \div 2^off) + upper) % 2^(Window + 1)

\* Digit i is odd; it is negative unless its highest bit, the parity of the
\* next one, is set.  Its magnitude is 2 * index + 1.
Negative(a, i) == LowBits(a, i) < 2^Window

Index(a, i) ==
  LET bits == LowBits(a, i)
  IN (IF Negative(a, i) THEN 2^Window - 1 - bits ELSE bits - 2^Window) \div 2

point_select(table, index) == table[index + 1]

\* p, 3 p, 5 p, ...
WithTwice(curve, p, twice) ==
  Fold(LAMBDA t, i : Append(t, point_add(curve, Last(t), twice)), <<p>>,
       [i \in 1..(2^(Window - 1) - 1) |-> i])

OddMultiples(curve, p) == WithTwice(curve, p, point_double(curve, p))

Doubled(jp, curve) ==
  Fold(LAMBDA x, i : point_jacobian_double(x, curve), jp, [i \in 1..Window |-> i])

NegateZ(jp, cond, curve) == [jp EXCEPT !.z = conditional_negate(cond, @, curve.prime)]
NegateY(jp, cond, curve) == [jp EXCEPT !.y = conditional_negate(cond, @, curve.prime)]

\* A fault: the sign of the last digit is not brought back.
FaultyMultiplyDown(curve, a, table, z) ==
  jacobian_to_curve(
    Fold(LAMBDA sum, i :
           point_jacobian_add(
             point_select(table, Index(a, i)),
             NegateZ(Doubled(sum, curve), Negative(a, i) # Negative(a, i + 1), curve), curve),
         curve_to_jacobian(point_select(table, Index(a, Digits - 1)), curve.prime, z),
         [j \in 1..(Digits - 1) |-> Digits - 1 - j]), curve.prime)

\* From the highest digit of a down, a doubling for each bit of a digit; the
\* sign is kept in z.
MultiplyDown(curve, a, table, z) ==
  jacobian_to_curve(
    NegateZ(Fold(LAMBDA sum, i :
                   point_jacobian_add(
                     point_select(table, Index(a, i)),
                     NegateZ(Doubled(sum, curve), Negative(a, i) # Negative(a, i + 1), curve), curve),
                 curve_to_jacobian(point_select(table, Index(a, Digits - 1)), curve.prime, z),
                 [j \in 1..(Digits - 1) |-> Digits - 1 - j]),
            Negative(a, 0), curve), curve.prime)

point_multiply(curve, k, p, z) ==
  IF bn_is_zero(k) THEN infinity
  ELSE MultiplyDown(curve, MadeOdd(curve, k), OddMultiples(curve, p), z)

\* From the lowest digit up, with the multiples of G in a table; the sign is
\* kept in y.
MultiplyUp(curve, a, z) ==
  jacobian_to_curve(
    NegateY(Fold(LAMBDA sum, i :
                   point_jacobian_add(
                     point_select(curve.cp[i + 1], Index(a, i)),
                     NegateY(sum, Negative(a, i) # Negative(a, i - 1), curve), curve),
                 curve_to_jacobian(point_select(curve.cp[1], Index(a, 0)), curve.prime, z),
                 [i \in 1..(Digits - 1) |-> i]),
            Negative(a, Digits - 1), curve), curve.prime)

scalar_multiply(curve, k, z) ==
  IF bn_is_zero(k) THEN infinity ELSE MultiplyUp(curve, MadeOdd(curve, k), z)

-----------------------------------------------------------------------------
(* Public keys: tag 4 with both coordinates, 2 or 3 with the parity of y *)

\* x^3 + a x + b, with the same steps in every use.
RightSide(curve, x, p) ==
  bn_multiply(x, bn_subi(Square(x, p), -curve.a, p), p)

ecdsa_validate_pubkey(curve, pub) ==
  /\ ~point_is_infinity(pub)
  /\ bn_is_less(pub.x, curve.prime) /\ bn_is_less(pub.y, curve.prime)
  /\ bn_is_equal(bn_mod(bn_addmod(RightSide(curve, pub.x, curve.prime), curve.b, curve.prime), curve.prime),
                 bn_mod(Square(pub.y, curve.prime), curve.prime))

OfParity(odd, y, p) == IF odd = bn_is_odd(y) THEN y ELSE bn_subtract(p, y)

uncompress_coords(curve, odd, x) ==
  OfParity(odd, bn_sqrt(bn_add(RightSide(curve, x, curve.prime), curve.b), curve.prime), curve.prime)

NoPoint == [x |-> <<>>, y |-> <<>>]

IfValid(curve, pub) == IF pub # NoPoint /\ ecdsa_validate_pubkey(curve, pub) THEN pub ELSE NoPoint

ecdsa_read_pubkey(curve, pub_key) ==
  IfValid(curve,
    CASE pub_key.tag = 4 -> [x |-> Read(pub_key.x), y |-> Read(pub_key.y)]
      [] pub_key.tag \in {2, 3} ->
           [x |-> Read(pub_key.x), y |-> uncompress_coords(curve, pub_key.tag = 3, Read(pub_key.x))]
      [] OTHER -> NoPoint)

Key65(p) == [tag |-> 4, x |-> bn_write_be(p.x), y |-> bn_write_be(p.y)]
NoKey == [tag |-> 0, x |-> <<>>, y |-> <<>>]

ecdsa_get_public_key65(curve, priv_key, z) == Key65(scalar_multiply(curve, Read(priv_key), z))

Key33(p) == [tag |-> IF bn_is_odd(p.y) THEN 3 ELSE 2, x |-> bn_write_be(p.x), y |-> <<>>]

KeyByX(p) == [tag |-> IF bn_is_odd(p.x) THEN 3 ELSE 2, x |-> bn_write_be(p.x), y |-> <<>>]

ecdsa_get_public_key33(curve, priv_key, z) == Key33(scalar_multiply(curve, Read(priv_key), z))

KeyOf(pub) == IF pub = NoPoint THEN NoKey ELSE Key65(pub)

ecdsa_uncompress_pubkey(curve, pub_key) == KeyOf(ecdsa_read_pubkey(curve, pub_key))

Shared(curve, k, pub, z) == IF pub = NoPoint THEN NoKey ELSE Key65(point_multiply(curve, k, pub, z))

ecdh_multiply(curve, priv_key, pub_key, z) ==
  Shared(curve, Read(priv_key), ecdsa_read_pubkey(curve, pub_key), z)

-----------------------------------------------------------------------------
(* Signatures: r and s as bytes, and the recovery byte *)

NoSignature == [r |-> <<>>, s |-> <<>>, by |-> -1]

InRange(curve, v) == ~bn_is_zero(v) /\ bn_is_less(v, curve.order)

\* The lower of s and its negative, which turns the nonce's point over.
LowS(curve, r, odd, over, s) ==
  LET high == bn_is_less(curve.order_half, s)
  IN IF bn_is_zero(s) THEN NoSignature
     ELSE [r |-> bn_write_be(r),
           s |-> bn_write_be(IF high THEN bn_subtract(curve.order, s) ELSE s),
           by |-> (IF odd # high THEN 1 ELSE 0) + (IF over THEN 2 ELSE 0)]

\* (digest + r * priv) / k; randk blinds the inversion.
SOf(n, r, priv, digest, k, randk) ==
  bn_mod(bn_multiply(randk,
           bn_multiply(bn_inverse(bn_multiply(randk, k, n), n),
                       bn_add(bn_multiply(r, priv, n), digest), n), n), n)

WithR(curve, r, odd, over, priv, digest, k, randk) ==
  IF bn_is_zero(r) THEN NoSignature
  ELSE LowS(curve, r, odd, over, SOf(curve.order, r, priv, digest, k, randk))

WithPoint(curve, R, priv, digest, k, randk) ==
  LET over == ~bn_is_less(R.x, curve.order)
  IN WithR(curve, IF over THEN bn_subtract(R.x, curve.order) ELSE R.x, bn_is_odd(R.y), over,
           priv, digest, k, randk)

\* One round of the loop with the nonce k.
Attempt(curve, priv_key, digest, k, randk, z) ==
  IF ~InRange(curve, k) THEN NoSignature
  ELSE WithPoint(curve, scalar_multiply(curve, k, z), Read(priv_key), Read(digest), k, randk)

IfCanonical(sig, canonical) ==
  IF sig # NoSignature /\ sig.by \in canonical THEN sig ELSE NoSignature

\* The first of the nonces that leads to a signature the caller accepts, by its
\* recovery byte; the code gives up after 10000.
ecdsa_sign_digest(curve, priv_key, digest, nonces, randk, z, canonical) ==
  Fold(LAMBDA sig, k : IF sig # NoSignature THEN sig
                       ELSE IfCanonical(Attempt(curve, priv_key, digest, k, randk, z), canonical),
       NoSignature, nonces)

SumHolds(n, r, sum) ==
  IF point_is_infinity(sum) THEN 5 ELSE IF bn_is_equal(bn_mod(sum.x, n), r) THEN 0 ELSE 5

\* u1 G + u2 pub with u1 = e / s and u2 = r / s
SumOfParts(curve, pub, r, e, inv, z) ==
  point_add(curve, point_multiply(curve, bn_mod(bn_multiply(r, inv, curve.order), curve.order), pub, z),
                   scalar_multiply(curve, bn_mod(bn_multiply(inv, e, curve.order), curve.order), z))

\* A fault: a digest that is a multiple of the order is verified.
FaultyVerifyWith(curve, pub, r, s, e, z) ==
  IF pub = NoPoint THEN 1
  ELSE IF ~InRange(curve, r) \/ ~InRange(curve, s) THEN 2
  ELSE SumHolds(curve.order, r, SumOfParts(curve, pub, r, e, bn_inverse(s, curve.order), z))

VerifyWith(curve, pub, r, s, e, z) ==
  IF pub = NoPoint THEN 1
  ELSE IF ~InRange(curve, r) \/ ~InRange(curve, s) THEN 2
  ELSE IF bn_is_zero(bn_mod(e, curve.order)) THEN 3
  ELSE SumHolds(curve.order, r, SumOfParts(curve, pub, r, e, bn_inverse(s, curve.order), z))

\* 0 for a signature that holds, else why not.
ecdsa_verify_digest(curve, pub_key, sig, digest, z) ==
  VerifyWith(curve, ecdsa_read_pubkey(curve, pub_key), Read(sig.r), Read(sig.s), Read(digest), z)

\* The nonce's point, from r and the two bits of the recovery byte.
NoncePoint(curve, odd, x) ==
  IF bn_is_less(x, curve.prime) THEN [x |-> x, y |-> uncompress_coords(curve, odd, x)] ELSE NoPoint

\* s R - e G
Difference(curve, R, s, e, z) ==
  point_add(curve,
    scalar_multiply(curve, bn_mod(bn_fast_mod(bn_subtractmod(curve.order, e, curve.order),
                                              curve.order), curve.order), z),
    point_multiply(curve, s, R, z))

Divided(curve, sum, r, z) ==
  IF point_is_infinity(sum) THEN NoKey
  ELSE KeyOf(IfValid(curve, point_multiply(curve, bn_inverse(r, curve.order), sum, z)))

RecoverWith(curve, R, r, s, e, z) ==
  IF R = NoPoint THEN NoKey ELSE Divided(curve, Difference(curve, R, s, e, z), r, z)

ecdsa_recover_pub_from_sig(curve, sig, digest, recid, z) ==
  LET r == Read(sig.r)
      s == Read(sig.s)
      x == IF recid >= 2 THEN bn_add(r, curve.order) ELSE r
  IN IF ~InRange(curve, r) \/ ~InRange(curve, s) THEN NoKey
     ELSE RecoverWith(curve, IfValid(curve, NoncePoint(curve, recid % 2 = 1, x)), r, s, Read(digest), z)
=============================================================================
