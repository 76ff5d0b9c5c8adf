------------------------------ MODULE Field25519 ------------------------------
(***************************************************************************)
(* curve25519-donna-32bit.c: numbers modulo the prime 2^LimbedBits - Fold19 *)
(* in FieldLimbs limbs that hold LimbWidth bits and LimbWidth - 1 in turn, *)
(* 10 limbs of 26 and 25 bits in the code.                                 *)
(***************************************************************************)
EXTENDS Loops

CONSTANTS
  FieldLimbs, LimbWidth,
  Fold19,        \* 19
  FieldWord      \* a word is a number modulo FieldWord, a double word one modulo its square

FieldLong == FieldWord * FieldWord
LimbedBits == (FieldLimbs \div 2) * (2 * LimbWidth - 1)
Prime     == 2^LimbedBits - Fold19
Radix     == [j \in 1..FieldLimbs |-> 2^(IF j % 2 = 1 THEN LimbWidth ELSE LimbWidth - 1)]
Place     == [j \in 1..FieldLimbs |-> 2^((((j - 1) * (2 * LimbWidth - 1)) + 1) \div 2)]

\* The number that limbs stand for, and the limbs of a reduced number.
Element(f) ==
  LET v[j \in 0..FieldLimbs] == IF j = 0 THEN 0 ELSE (v[j - 1] + ((f[j] * Place[j]) % Prime)) % Prime
  IN v[FieldLimbs]

Fe(v) == Evaluated([j \in 1..FieldLimbs |-> (v \div Place[j]) % Radix[j]])

Sum(Term(_), n) == LET s[i \in 0..n] == IF i = 0 THEN 0 ELSE s[i - 1] + Term(i) IN s[n]
-----------------------------------------------------------------------------
(* Carries *)

\* Each term with what did not fit into the limb before it.
Carrying(terms, mod) ==
  LET c[j \in 1..Len(terms)] ==
        IF j = 1 THEN terms[1] % mod ELSE (terms[j] + (c[j - 1] \div Radix[j - 1])) % mod
  IN [j \in 1..Len(terms) |-> c[j]]

Masked(c) == [j \in 1..FieldLimbs |-> c[j] % Radix[j]]

CarryOut(c) == c[FieldLimbs] \div Radix[FieldLimbs]

\* All limbs are carried; what leaves the highest is folded into the lowest.
FoldedOnce(c) ==
  Evaluated([j \in 1..FieldLimbs |->
               IF j = 1 THEN ((c[1] % Radix[1]) + Fold19 * CarryOut(c)) % FieldWord ELSE c[j] % Radix[j]])

Reduced(terms) == FoldedOnce(Carrying(terms, FieldWord))

TwoP  == [j \in 1..FieldLimbs |-> 2 * (Radix[j] - (IF j = 1 THEN Fold19 ELSE 1))]

FourP == [j \in 1..FieldLimbs |-> 2 * TwoP[j]]
-----------------------------------------------------------------------------
(* Sums and differences *)

curve25519_copy(f) == f

curve25519_add(a, b) == Evaluated([j \in 1..FieldLimbs |-> (a[j] + b[j]) % FieldWord])

curve25519_add_after_basic(a, b) == Reduced([j \in 1..FieldLimbs |-> a[j] + b[j]])
curve25519_add_reduce(a, b)      == Reduced([j \in 1..FieldLimbs |-> a[j] + b[j]])

\* The lower limbs are carried, 4 of 10, and their carry goes into the next.
curve25519_sub(a, b) ==
  LET low == (FieldLimbs \div 2) - 1
      t == [j \in 1..FieldLimbs |-> TwoP[j] + a[j] - b[j]]
      c == Carrying(SubSeq(t, 1, low + 1), FieldWord)
  IN Evaluated([j \in 1..FieldLimbs |->
       IF j <= low THEN c[j] % Radix[j] ELSE IF j = low + 1 THEN c[j] ELSE t[j] % FieldWord])

curve25519_sub_after_basic(a, b) == Reduced([j \in 1..FieldLimbs |-> FourP[j] + a[j] - b[j]])
curve25519_sub_reduce(a, b)      == Reduced([j \in 1..FieldLimbs |-> FourP[j] + a[j] - b[j]])
curve25519_neg(a)                == Reduced([j \in 1..FieldLimbs |-> TwoP[j] - a[j]])
curve25519_reduce(f)             == Reduced(f)

\* The carry between the limbs is a word.
curve25519_scalar_product(f, scalar) ==
  FoldedOnce(Carrying([j \in 1..FieldLimbs |-> f[j] * scalar], FieldLong))
-----------------------------------------------------------------------------
(* Products *)

Odd(i) == i % 2 = 1

\* Limb i of one factor meets limb k - i of the other, or the one that many
\* places further when that is below 0: then it is worth Fold19 times as
\* much.  Two of the narrow limbs are worth twice.
Meets(k, i) == IF i <= k THEN k - i ELSE FieldLimbs + k - i
Weight(k, i) == (IF i <= k THEN 1 ELSE Fold19) * (IF Odd(i) /\ ~Odd(k) THEN 2 ELSE 1)

\* The highest carry is folded, and then carried once more.
CarriedOn(c, m0) ==
  Evaluated([j \in 1..FieldLimbs |->
               IF j = 1 THEN m0 % Radix[1]
               ELSE (c[j] % Radix[j]) + (IF j = 2 THEN m0 \div Radix[1] ELSE 0)])

FoldedTwice(c) == CarriedOn(c, (c[1] % Radix[1]) + (CarryOut(c) % FieldWord) * Fold19)

\* The weights go into the limbs of b, which must have the room.
MulColumn(a, b, k) ==
  Sum(LAMBDA i : ((Weight(k, i - 1) * b[i]) % FieldWord) * a[Meets(k, i - 1) + 1], FieldLimbs) % FieldLong

FromColumns(columns) == FoldedTwice(Carrying(columns, FieldLong))

curve25519_mul(a, b) ==
  FromColumns(Evaluated([j \in 1..FieldLimbs |-> MulColumn(a, b, j - 1)]))

\* Of a square each pair is taken once; the weights are spread over both.
SquareTerm(f, i, j, wraps) ==
  IF j < i THEN 0
  ELSE IF wraps
  THEN ((Fold19 * (IF Odd(j) THEN 2 ELSE 1) * f[j + 1]) % FieldWord)
       * (((IF i < j /\ (Odd(i) \/ ~Odd(j)) THEN 2 ELSE 1) * f[i + 1]) % FieldWord)
  ELSE (((IF i < j THEN 2 ELSE 1) * f[i + 1]) % FieldWord)
       * (((IF Odd(i) /\ Odd(j) THEN 2 ELSE 1) * f[j + 1]) % FieldWord)

SquareColumn(f, k) ==
  Sum(LAMBDA i : SquareTerm(f, i - 1, Meets(k, i - 1), i - 1 > k), FieldLimbs) % FieldLong

curve25519_square(f) ==
  FromColumns(Evaluated([j \in 1..FieldLimbs |-> SquareColumn(f, j - 1)]))

-----------------------------------------------------------------------------
(* 32 bytes, as a number of LimbedBits + 1 bits *)

\* The highest bit is ignored.
curve25519_expand(bytes) == Fe(bytes % 2^LimbedBits)

curve25519_expand_reduce(bytes) ==
  LET top == bytes \div 2^LimbedBits
  IN [Fe(bytes % 2^LimbedBits) EXCEPT ![1] = @ + Fold19 * top]

\* Twice reduced it is below 2^LimbedBits; offset by Fold19 once more, it is
\* what it was or the prime less; the offset is taken off with a carry that
\* is dropped.
curve25519_contract(f) ==
  LET t == Reduced(Reduced(f))
      s == Reduced([t EXCEPT ![1] = @ + Fold19])
      u == Carrying([j \in 1..FieldLimbs |-> s[j] + Radix[j] - (IF j = 1 THEN Fold19 ELSE 1)], FieldWord)
  IN Sum(LAMBDA j : Masked(u)[j] * Place[j], FieldLimbs)

curve25519_swap_conditional(a, b, iswap) == IF iswap = 1 THEN <<b, a>> ELSE <<a, b>>

curve25519_set(v) ==
  [j \in 1..FieldLimbs |-> IF j = 1 THEN v % Radix[1] ELSE IF j = 2 THEN (v \div Radix[1]) % Radix[2] ELSE 0]

curve25519_isnegative(f) == curve25519_contract(f) % 2
curve25519_isnonzero(f)  == curve25519_contract(f) # 0
=============================================================================
