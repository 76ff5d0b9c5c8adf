--------------------------------- MODULE ModM ---------------------------------
(***************************************************************************)
(* modm-donna-32bit.c: numbers modulo the order GroupOrder of the base point, a *)
(* little above 2^(ScalarBits - 4), in ScalarLimbs limbs of ScalarWidth    *)
(* bits: 256 bits and 9 limbs of 30 in the code.  Products are reduced by  *)
(* Barrett's method (HAC, algorithm 14.42), whose last quotient may be too *)
(* small by two and whose digits are bytes, ScalarByte bits.               *)
(***************************************************************************)
EXTENDS Loops

CONSTANTS ScalarLimbs, ScalarWidth, ScalarBits, ScalarByte, GroupOrder

LimbBase   == 2^ScalarWidth
ScalarWord == 4 * LimbBase             \* a word has two bits more than a limb
ScalarLong == ScalarWord * ScalarWord
TopShift   == ScalarWidth * (ScalarLimbs - 1)     \* 240
Wide       == ScalarBits + ScalarByte             \* 264
Indices    == 1..ScalarLimbs
TopBits(n) == 2^(n - TopShift)

Limbs(v) == Evaluated([j \in Indices |-> (v \div 2^(ScalarWidth * (j - 1))) % LimbBase])

modm_m == Limbs(GroupOrder)

\* The limbs of the number whose digits, of width bits, are these, from a
\* bit on.
Slice(digits, width, from) ==
  LET Digit(i) == IF i <= Len(digits) THEN digits[i] ELSE 0
      LimbAt(i, s) == ((Digit(i) \div 2^s)
                       + (IF width - s < ScalarWidth
                          THEN (Digit(i + 1) % LimbBase) * 2^(width - s) ELSE 0)) % LimbBase
  IN Evaluated([j \in Indices |-> LET at == from + ScalarWidth * (j - 1)
                                  IN LimbAt((at \div width) + 1, at % width)])

\* The quotient 2^(2 ScalarBits) / GroupOrder, by long division.
modm_mu ==
  LET n == (2 * ScalarBits) \div ScalarWidth
      rest[i \in 0..n] == IF i = 0 THEN 2^((2 * ScalarBits) % ScalarWidth)
                          ELSE (LimbBase * rest[i - 1]) % GroupOrder
  IN Evaluated([j \in Indices |-> (LimbBase * rest[n - j]) \div GroupOrder])
-----------------------------------------------------------------------------
(* Borrowing *)

lt_modm(a, b) == ((a - b) % ScalarWord) \div (ScalarWord \div 2)

\* x - y; the last borrow is worth top.
BorrowingFrom(x, y, top) ==
  LET worth(j) == IF j = ScalarLimbs THEN top ELSE LimbBase
      s[j \in 0..ScalarLimbs] ==
        IF j = 0 THEN <<0, 0>>
        ELSE LET pb == s[j - 1][1] + y[j]
                 b  == lt_modm(x[j], pb)
             IN <<b, (x[j] - pb + b * worth(j)) % ScalarWord>>
  IN [r |-> Evaluated([j \in Indices |-> s[j][2]]), b |-> s[ScalarLimbs][1]]

Borrowing(x, y, top) == Once(<<x, y>>, BorrowingFrom(x, y, top))

\* r - m, or r if that is negative
reduce256_modm(r) ==
  LET Kept(t) == IF t.b = 1 THEN r ELSE t.r IN Kept(Borrowing(r, modm_m, TopBits(ScalarBits)))
-----------------------------------------------------------------------------
(* Products *)

\* The columns of a product from one on, carried in a double word; the last
\* keeps what it has.
Columns(a, b, first, last) ==
  LET column(k) == LET c[i \in 0..ScalarLimbs] ==
                         IF i = 0 THEN 0
                         ELSE c[i - 1] + (IF k - i + 2 \in Indices THEN a[i] * b[k - i + 2] ELSE 0)
                   IN c[ScalarLimbs]
      c[k \in first..last] ==
        IF k = first THEN column(k) % ScalarLong
        ELSE ((c[k - 1] \div LimbBase) + column(k)) % ScalarLong
  IN Evaluated([i \in 1..(last - first + 1) |->
                  IF first + i - 1 = last THEN c[last] ELSE c[first + i - 1] % LimbBase])

Product(a, b, first, last) == Once(<<a, b>>, Columns(a, b, first, last))

\* The last column of a product is two digits.
Digits(p) == SubSeq(p, 1, Len(p) - 1) \o <<p[Len(p)] % LimbBase, p[Len(p)] \div LimbBase>>

Truncated(limbs) == [limbs EXCEPT ![ScalarLimbs] = @ % TopBits(Wide)]

\* A fault: one subtraction at the end instead of two.
FaultyBarrett(q1, r1) ==
  LET q3 == Slice(Digits(Product(modm_mu, q1, ScalarLimbs - 2, 2 * ScalarLimbs - 2)),
                  ScalarWidth, Wide - ScalarWidth * (ScalarLimbs - 2))
      r2 == Product(modm_m, q3, 0, ScalarLimbs - 1)
  IN reduce256_modm(Borrowing(r1, Truncated(r2), TopBits(Wide)).r)

\* q1 = x / 2^(ScalarBits - ScalarByte) and r1 = x mod 2^Wide; the columns of
\* q2 below the one before the highest limb are not computed.
barrett_reduce256_modm(q1, r1) ==
  LET q3 == Slice(Digits(Product(modm_mu, q1, ScalarLimbs - 2, 2 * ScalarLimbs - 2)),
                  ScalarWidth, Wide - ScalarWidth * (ScalarLimbs - 2))
      r2 == Product(modm_m, q3, 0, ScalarLimbs - 1)
  IN reduce256_modm(reduce256_modm(Borrowing(r1, Truncated(r2), TopBits(Wide)).r))

mul256_modm(x, y) ==
  LET Reduced(digits) == barrett_reduce256_modm(Slice(digits, ScalarWidth, ScalarBits - ScalarByte),
                                                Truncated(Slice(digits, ScalarWidth, 0)))
  IN Reduced(Digits(Product(x, y, 0, 2 * ScalarLimbs - 2)))
-----------------------------------------------------------------------------
(* Sums *)

Carried(terms) ==
  LET c[j \in Indices] == IF j = 1 THEN terms[1] % ScalarWord
                          ELSE (terms[j] + (c[j - 1] \div LimbBase)) % ScalarWord
  IN Evaluated([j \in Indices |-> IF j = ScalarLimbs THEN c[j] ELSE c[j] % LimbBase])

add256_modm(x, y) == reduce256_modm(Carried([j \in Indices |-> x[j] + y[j]]))

neg256_modm(x) == reduce256_modm(Borrowing(modm_m, x, TopBits(ScalarBits)).r)

\* The order once (the code's comment and name say twice), with a limb lent
\* from each place to the one below.
twoP ==
  [j \in Indices |-> modm_m[j] + (IF j < ScalarLimbs THEN LimbBase ELSE 0) - (IF j > 1 THEN 1 ELSE 0)]

sub256_modm(x, y) == reduce256_modm(Carried([j \in Indices |-> twoP[j] + x[j] - y[j]]))

mulsub256_modm(a, b, c) == sub256_modm(c, mul256_modm(a, b))
muladd256_modm(a, b, c) == add256_modm(c, mul256_modm(a, b))
-----------------------------------------------------------------------------
(* Bytes: a number of ScalarBits bits, or several, lowest first *)

expand256_modm(halves) ==
  barrett_reduce256_modm(Slice(halves, ScalarBits, ScalarBits - ScalarByte),
                         Truncated(Slice(halves, ScalarBits, 0)))

\* What does not reach the order needs no reduction (fewer than 32 bytes).
expand256_modm_short(v) == Truncated(Slice(<<v>>, ScalarBits, 0))

expand_raw256_modm(v) == Slice(<<v>>, ScalarBits, 0)

\* The highest limb that differs decides.
is_reduced256_modm(x) ==
  \E j \in Indices : x[j] < modm_m[j] /\ \A i \in (j + 1)..ScalarLimbs : x[i] = modm_m[i]

Scalar(x) ==
  LET v[j \in 0..ScalarLimbs] ==
        IF j = 0 THEN 0 ELSE v[j - 1] + x[j] * 2^(ScalarWidth * (j - 1))
  IN v[ScalarLimbs]

contract256_modm(x) == Scalar(x) % 2^ScalarBits

set256_modm(v) == Limbs(v)

\* Whether the number fits, and its low bits; fits is 2^64 in the code.
get256_modm(x, fits) == [v |-> Scalar(x) % fits, ok |-> Scalar(x) < fits]

eq256_modm(x, y) == \A j \in Indices : x[j] = y[j]
iszero256_modm(x) == \A j \in Indices : x[j] = 0
copy256_modm(x) == x

cmp256_modm(x, y) ==
  LET differ == {j \in Indices : x[j] # y[j]}
      top == CHOOSE j \in differ : \A i \in differ : i <= j
  IN IF differ = {} THEN 0 ELSE IF x[top] > y[top] THEN 1 ELSE -1

\* A scalar that is not 0 and is its own remainder.
check256_modm(x) ==
  ~iszero256_modm(x) /\ eq256_modm(barrett_reduce256_modm([j \in Indices |-> 0], x), x)
-----------------------------------------------------------------------------
(* Digits for the scalar multiplications *)

Quads == (ScalarBits + 3) \div 4          \* 64

\* Digits of four bits, made signed: from -8 to 7, the last keeps its carry.
SignedQuads(x) ==
  LET quad(i) == (contract256_modm(x) \div 16^(i - 1)) % 16
      s[i \in 0..Quads] ==
        IF i = 0 THEN <<0, 0>>
        ELSE LET r == quad(i) + s[i - 1][2]
                 low == r % 16
                 carry == low \div 8
             IN IF i = Quads THEN <<r, 0>> ELSE <<low - 16 * carry, (r \div 16) + carry>>
  IN Evaluated([i \in 1..Quads |-> s[i][1]])

contract256_window4_modm(x) == Once(x, SignedQuads(x))

\* The 1 that a subtraction lends is carried through the bits that are set.
Lent(r, at) ==
  LET free == {k \in at..ScalarBits : r[k] = 0}
      stop == IF free = {} THEN ScalarBits + 1 ELSE CHOOSE k \in free : \A i \in free : k <= i
  IN Evaluated([k \in 1..ScalarBits |-> IF k = stop THEN 1 ELSE IF k \in at..(stop - 1) THEN 0 ELSE r[k]])

\* One bit b places above a digit: taken into it, up or down, or the end.
Slid(s, j, b, m) ==
  LET r == s.r
      bit == IF j + b <= ScalarBits THEN r[j + b] * 2^b ELSE 0
  IN IF s.stop \/ j + b > ScalarBits THEN s
     ELSE IF r[j] + bit <= m THEN [s EXCEPT !.r = [r EXCEPT ![j] = @ + bit, ![j + b] = 0]]
     ELSE IF r[j] - bit >= -m THEN [s EXCEPT !.r = Lent([r EXCEPT ![j] = @ - bit], j + b)]
     ELSE IF r[j + b] # 0 THEN [s EXCEPT !.stop = TRUE]
     ELSE s

\* Odd digits below 2^(windowsize - 1), between zeros.  reach is how far a
\* digit looks: 6 places.
SignedBits(x, windowsize, reach) ==
  LET m == 2^(windowsize - 1) - 1
      bits == Evaluated([k \in 1..ScalarBits |-> (contract256_modm(x) \div 2^(k - 1)) % 2])
      At(r, j) == IF r[j] = 0 THEN r
                  ELSE Fold(LAMBDA s, b : Slid(s, j, b, m), [r |-> r, stop |-> FALSE],
                            [b \in 1..reach |-> b]).r
  IN Fold(At, bits, [j \in 1..ScalarBits |-> j])
contract256_slidingwindow_modm(x, windowsize, reach) == Once(x, SignedBits(x, windowsize, reach))
-----------------------------------------------------------------------------
(* What all this is to compute: arithmetic modulo GroupOrder.  Numbers of  *)
(* twice ScalarBits are pairs, the lower half first.                       *)

TimesModM(a, b) ==
  LET r[i \in 0..ScalarBits] ==
        IF i = 0 THEN 0
        ELSE (2 * r[i - 1] + (IF (b \div 2^(ScalarBits - i)) % 2 = 1 THEN a ELSE 0)) % GroupOrder
  IN r[ScalarBits]

RemainderOf(x) == (TimesModM(x[2] % GroupOrder, 2^ScalarBits % GroupOrder) + x[1]) % GroupOrder

SumOfDigits(digits, base) ==
  LET v[i \in 0..Len(digits)] ==
        IF i = 0 THEN 0 ELSE base * v[i - 1] + digits[Len(digits) + 1 - i]
  IN v[Len(digits)]

DigitsAreRight(a, whole, windows, reach) ==
  /\ LET d == contract256_window4_modm(whole)
     IN SumOfDigits(d, 16) = Scalar(whole) /\ \A i \in DOMAIN d : d[i] \in -8..8
  /\ \A w \in windows :
       LET d == contract256_slidingwindow_modm(a, w, reach)
       IN /\ SumOfDigits(d, 2) = Scalar(a)
          /\ \A i \in DOMAIN d : d[i] # 0 => d[i] % 2 = 1 /\ d[i] \in -(2^(w - 1))..2^(w - 1)

SumsAreExact(a, b, u, v) ==
  /\ Scalar(add256_modm(a, b)) = (u + v) % GroupOrder
  /\ Scalar(sub256_modm(a, b)) = (u - v) % GroupOrder
  /\ Scalar(neg256_modm(a)) = (-u) % GroupOrder
  /\ cmp256_modm(a, b) = (IF u = v THEN 0 ELSE IF u > v THEN 1 ELSE -1)
  /\ eq256_modm(a, b) = (u = v)
  /\ get256_modm(a, 2^ScalarWidth) = [v |-> u % 2^ScalarWidth, ok |-> u < 2^ScalarWidth]

ProductsAreExact(a, b, u, v) ==
  /\ Scalar(a) = u /\ Scalar(b) = v
  /\ Scalar(mul256_modm(a, b)) = TimesModM(u, v)
  /\ Scalar(muladd256_modm(a, a, b)) = (TimesModM(u, u) + v) % GroupOrder
  /\ Scalar(mulsub256_modm(a, a, b)) = (v - TimesModM(u, u)) % GroupOrder

RawIsExact(raw, v) ==
  /\ contract256_modm(raw) = v
  /\ is_reduced256_modm(raw) = (v < GroupOrder)
  /\ check256_modm(raw) = (v \in 1..(GroupOrder - 1))
  /\ expand256_modm_short(v % 2^(ScalarBits - ScalarByte)) = set256_modm(v % 2^(ScalarBits - ScalarByte))

ScalarLawsOf(a, b, u, v) == SumsAreExact(a, b, u, v) /\ ProductsAreExact(a, b, u, v)

ScalarLawsFor(p, x, y, windows, reach) ==
  /\ ScalarLawsOf(p[1], p[2], RemainderOf(x), RemainderOf(y))
  /\ DigitsAreRight(p[1], expand_raw256_modm(x[1] % 2^(ScalarBits - 1)), windows, reach)
  /\ RawIsExact(expand_raw256_modm(x[1]), x[1])

BothExpanded(pairs) == Evaluated([i \in 1..2 |-> expand256_modm(pairs[i])])

ScalarLaws(x, y, windows, reach) == ScalarLawsFor(BothExpanded(<<x, y>>), x, y, windows, reach)
=============================================================================
