------------------------------- MODULE Bignum -------------------------------
(***************************************************************************)
(* bignum.c: numbers of Limbs limbs of LimbBits bits each in words two     *)
(* bits wider, 9 limbs of 30 bits in 32-bit words in the code.  The limbs  *)
(* hold more than the NumBits of a number, so that sums and differences    *)
(* are left unreduced for a while; what each operation may take and what   *)
(* it leaves is said in comments of the code.                              *)
(*                                                                         *)
(* The arithmetic is the code's, with its word widths: a word is a number  *)
(* modulo WordMod, a double word one modulo LongMod.                       *)
(***************************************************************************)
EXTENDS Loops

CONSTANTS Limbs, LimbBits

ASSUME LimbsAssumption ==
  /\ Limbs \in Nat /\ Limbs > 1
  /\ LimbBits \in Nat /\ LimbBits > 2 * (Limbs - 1)

Base     == 2^LimbBits
WordBits == LimbBits + 2
WordMod  == 2^WordBits
LongMod  == WordMod * WordMod
Words    == Limbs - 1                    \* a number is as many 32-bit words
NumBits  == Words * WordBits             \* 256
TopBits  == 2 * Words                    \* of them in the highest limb: 16

Limb == 1..Limbs

\* The number a sequence of limbs stands for, whatever the limbs.
Value(a) == FoldRight(LAMBDA limb, v : v * Base + limb, a, 0)

Normalized(a) == \A j \in Limb : a[j] < Base

\* The limbs of a number that fits.
Bn(v) == Evaluated([j \in Limb |-> (v \div Base^(j - 1)) % Base])

-----------------------------------------------------------------------------
(* Reading, writing, asking *)

\* Words of a number, least significant first: the bytes of a buffer, read
\* in either order.
WordsOf(v) == [i \in 1..Words |-> (v \div WordMod^(i - 1)) % WordMod]

\* temp carries the bits that did not fit into the limb before.
bn_read_words(words) ==
  LET Step(s, i) ==
        LET limb == words[i]
            temp == (s.temp + limb * 2^(2 * (i - 1))) % WordMod
        IN [val |-> Append(s.val, temp % Base), temp |-> limb \div 2^(LimbBits - 2 * (i - 1))]
      all == Fold(Step, [val |-> <<>>, temp |-> 0], [i \in 1..Words |-> i])
  IN Append(all.val, all.temp)

\* The words of a number that is fully reduced, most significant first.
bn_write_words(a) ==
  LET Step(s, i) ==
        LET limb == a[Limbs - i]
            right == TopBits - 2 * i
            out == (s.temp * 2^(LimbBits - right) + (limb \div 2^right)) % WordMod
        IN [out |-> Append(s.out, out), temp |-> limb]
  IN Fold(Step, [out |-> <<>>, temp |-> a[Limbs]], [i \in 1..Words |-> i]).out

bn_read_be(in) == bn_read_words(Reverse(in))
bn_read_le(in) == bn_read_words(in)
bn_write_be(a) == bn_write_words(a)
bn_write_le(a) == Reverse(bn_write_words(a))

bn_zero == [j \in Limb |-> 0]
bn_one  == [j \in Limb |-> IF j = 1 THEN 1 ELSE 0]

bn_is_zero(a) == \A j \in Limb : a[j] = 0
bn_is_equal(a, b) == \A j \in Limb : a[j] = b[j]

\* The highest limb in which they differ decides.
bn_is_less(a, b) ==
  \E j \in Limb : a[j] < b[j] /\ \A i \in (j + 1)..Limbs : a[i] = b[i]

bn_is_odd(a) == a[1] % 2 = 1

BitLength(x) == IF x = 0 THEN 0 ELSE CHOOSE n \in 1..WordBits : 2^(n - 1) <= x /\ x < 2^n

bn_bitcount(a) ==
  IF bn_is_zero(a) THEN 0
  ELSE LET top == CHOOSE j \in Limb : a[j] # 0 /\ \A i \in (j + 1)..Limbs : a[i] = 0
       IN (top - 1) * LimbBits + BitLength(a[top])

bn_cmov(cond, truecase, falsecase) == IF cond THEN truecase ELSE falsecase

-----------------------------------------------------------------------------
(* Sums, differences, shifts *)

\* Limbs from terms: a temporary, a number modulo mod, takes each term and
\* keeps what does not fit into a limb for the next one.
Carry(start, terms, mod) ==
  LET temps[j \in 0..Len(terms)] ==
        IF j = 0 THEN <<>>
        ELSE LET so == temps[j - 1]
             IN Append(so, ((IF j = 1 THEN start ELSE so[j - 1] \div Base) + terms[j]) % mod)
      all == temps[Len(terms)]
  IN [val |-> Evaluated([j \in DOMAIN all |-> all[j] % Base]), temp |-> Last(all) \div Base]

bn_add(a, b)  == Carry(0, [j \in Limb |-> (a[j] + b[j]) % WordMod], WordMod).val
bn_addi(a, b) == Carry(b, a, WordMod).val
bn_normalize(a) == bn_addi(a, 0)

\* a - b for a >= b
bn_subtract(a, b) == Carry(1, [j \in Limb |-> Base - 1 + a[j] - b[j]], WordMod).val

\* a + (2 * prime - b): never negative for a partly reduced b
bn_subtractmod(a, b, prime) ==
  Carry(1, [j \in Limb |-> Base - 1 + a[j] + 2 * prime[j] - b[j]], WordMod).val

\* The lowest word may wrap; adding the prime wraps it back.
bn_subi(a, b, prime) == bn_add([a EXCEPT ![1] = (@ - b) % WordMod], prime)

bn_lshift(a) ==
  Evaluated([j \in Limb |-> ((2 * a[j]) % Base) + (IF j = 1 THEN 0 ELSE a[j - 1] \div (Base \div 2) % 2)])

bn_rshift(a) ==
  Evaluated([j \in Limb |-> (a[j] \div 2) + (IF j = Limbs THEN 0 ELSE (a[j + 1] % 2) * (Base \div 2))])

bn_xor_bit(a, bit, on) ==
  LET j == (bit \div LimbBits) + 1
      w == 2^(bit % LimbBits)
      set == (a[j] \div w) % 2 = 1
  IN [a EXCEPT ![j] = IF on /\ ~set THEN @ + w ELSE IF ~on /\ set THEN @ - w ELSE @]

bn_setbit(a, bit)   == bn_xor_bit(a, bit, TRUE)
bn_clearbit(a, bit) == bn_xor_bit(a, bit, FALSE)
bn_testbit(a, bit)  == (a[(bit \div LimbBits) + 1] \div 2^(bit % LimbBits)) % 2 = 1

-----------------------------------------------------------------------------
(* Modulo a prime *)

\* x - coef * prime in limbs.  The constants keep the temporary positive: one
\* word's worth is lent to the lowest limb and taken back from the highest.
Lend == 2^(2 * LimbBits + 1)

TakeOff(x, coef, prime) ==
  Carry(0, [j \in DOMAIN x |->
              (IF j = 1 THEN Lend ELSE Lend - 2 * Base)
              + x[j] - (IF j <= Limbs THEN prime[j] * coef ELSE 0)], LongMod).val

bn_fast_mod(x, prime) == TakeOff(x, x[Limbs] \div 2^TopBits, prime)

bn_addmod(a, b, prime) == bn_fast_mod([j \in Limb |-> (a[j] + b[j]) % WordMod], prime)

bn_mult_k(x, k, prime) == bn_fast_mod([j \in Limb |-> (k * x[j]) % WordMod], prime)

bn_mod(x, prime) == bn_cmov(bn_is_less(x, prime), x, bn_subtract(x, prime))

\* Limbs with what is left of the carry on top.
WithCarry(low, top) == Append(low.val, low.temp + top)

CarryBelow(a) == WithCarry(Carry(0, SubSeq(a, 1, Len(a) - 1), WordMod), a[Len(a)])

\* (x + prime) / 2 for an odd x; the highest limb takes the carry unmasked.
bn_mult_half(x, prime) ==
  CarryBelow(bn_rshift([j \in Limb |-> (x[j] + (IF bn_is_odd(x) THEN prime[j] ELSE 0)) % WordMod]))

\* The terms whose places add up to i - 1.
Column(k, x, i) ==
  LET sum[j \in 0..Limbs] ==
        IF j = 0 THEN 0 ELSE sum[j - 1] + (IF (i + 1 - j) \in Limb THEN k[j] * x[i + 1 - j] ELSE 0)
  IN sum[Limbs]

bn_multiply_long(k, x) ==
  WithCarry(Carry(0, [i \in 1..(2 * Limbs - 1) |-> Column(k, x, i)], LongMod), 0)

Coef(res, i) == ((res[i + 1] \div 2^TopBits) + res[i + 2] * 2^(LimbBits - TopBits)) % WordMod

\* res with other limbs from place at on
Replaced(res, at, part) ==
  Evaluated([j \in DOMAIN res |-> IF j - at \in DOMAIN part THEN part[j - at] ELSE res[j]])

\* The limbs from i - 8 to i + 1 less the estimate of the quotient there.
bn_multiply_reduce_step(res, prime, i) ==
  LET at == i - (Limbs - 1)
  IN Replaced(res, at, TakeOff(SubSeq(res, at + 1, at + Limbs + 1), Coef(res, i), prime))

bn_multiply_reduce(res, prime) ==
  SubSeq(Fold(LAMBDA r, i : bn_multiply_reduce_step(r, prime, i), res,
              [n \in 1..Limbs |-> 2 * Limbs - 1 - n]), 1, Limbs)

bn_multiply(k, x, prime) == bn_multiply_reduce(bn_multiply_long(k, x), prime)

\* x^((prime + 1) / 4), the bits of the exponent from the lowest on.
bn_sqrt(x, prime) ==
  LET p == bn_rshift(bn_rshift(bn_addi(prime, 1)))
      last == (Limbs - 1) * LimbBits + BitLength(p[Limbs])
      Step(s, b) ==
        [s EXCEPT !.res = IF bn_testbit(p, b) THEN bn_multiply(s.x, @, prime) ELSE @,
                  !.x   = bn_multiply(@, @, prime)]
  IN bn_mod(Fold(Step, [res |-> bn_one, x |-> x], [i \in 1..last |-> i - 1]).res, prime)

-----------------------------------------------------------------------------
(* The inverse: Schroeppel's almost inverse.  Two registers share their    *)
(* words: the first len hold u (or v), which shrinks, the others s (or r), *)
(* which grows; what does not fit is lost.                                 *)

Fit(n, words) == n % WordMod^words

Length(n) == CHOOSE len \in 0..Words : n < WordMod^len /\ (len > 0 => n >= WordMod^(len - 1))

TrailingZeros(n) == CHOOSE j \in 0..NumBits : n % 2^j = 0 /\ (n \div 2^j) % 2 = 1

\* The even one is shifted right until it is odd, its partner left.
MakeOdd(c, j) ==
  LET len == Length(c.u \div 2^j)
  IN [u |-> c.u \div 2^j, s |-> Fit(c.s * 2^j, Limbs - len), len |-> len]

Shifted(r, j) == [r EXCEPT ![r.even] = MakeOdd(@, j), !.k = @ + j]

\* The greater of the two odd ones becomes the next even one.
Reduced(r, even, odd) ==
  [r EXCEPT ![even].u = @ - r[odd].u,
            ![odd].s = Fit(@ + r[even].s, Limbs - r[odd].len),
            !.even = even]

Compared(r) ==
  IF r.us.u = r.vr.u THEN [r EXCEPT !.done = TRUE]
  ELSE IF r.us.u > r.vr.u THEN Reduced(r, "us", "vr") ELSE Reduced(r, "vr", "us")

\* One round with the registers us and vr, even the name of the even one.
Round(r) == IF r.done THEN r ELSE Compared(Shifted(r, TrailingZeros(r[r.even].u)))

\* -1 / prime modulo a word: the product of 1 + (prime - 1)^(2^i).
MinusInverse(p) ==
  Fold(LAMBDA s, i : IF s.amone = 0 THEN s
                     ELSE LET sq == (s.amone * s.amone) % WordMod
                          IN [amone |-> sq, inverse |-> (s.inverse * (sq + 1)) % WordMod],
       [amone |-> (p - 1) % WordMod, inverse |-> (p - 2) % WordMod],
       [i \in 1..WordBits |-> i]).inverse

\* s / 2^bits modulo the prime: the multiple of the prime is added that makes
\* the lowest bits zero.
AddMultiple(s, p, factor, bits) ==
  LET low  == (s % WordMod) + (p % WordMod) * factor
      high == (s \div WordMod) + (p \div WordMod) * factor
  IN Fit(high * 2^(WordBits - bits) + (low \div 2^bits), Words)

Halve(s, p, bits) == AddMultiple(s, p, (MinusInverse(p % WordMod) * (s % WordMod)) % 2^bits, bits)

\* s / 2^k, a word at a time and then the bits that are left.
HalveBy(r, p) ==
  LET words == r.k \div WordBits
      half[i \in 0..(words + 1)] ==
        IF i = 0 THEN r.us.s
        ELSE Halve(half[i - 1], p, IF i <= words THEN WordBits ELSE r.k % WordBits)
  IN half[IF r.k % WordBits = 0 THEN words ELSE words + 1]

AlmostInverse(x, p) ==
  Fold(LAMBDA r, i : Round(r),
       [us |-> [u |-> p, s |-> 1, len |-> Words], vr |-> [u |-> x, s |-> 0, len |-> Words],
        k |-> 0, even |-> "vr", done |-> FALSE],
       [i \in 1..(2 * NumBits) |-> i])

InverseOf(x, p) ==
  IF x = 0 THEN bn_zero ELSE Bn(HalveBy(AlmostInverse(x, p), p))

bn_inverse(x, prime) == InverseOf(Value(bn_mod(bn_fast_mod(x, prime), prime)), Value(prime))

-----------------------------------------------------------------------------
(* Division by a small number, for texts *)

\* rem * Base + limb, without leaving the word: the quotient and the rest of
\* Base are constants of the code.
Divide(a, d) ==
  LET Step(s, j) ==
        LET tmp == (s.rem * (Base % d) + a[j]) % WordMod
        IN [q |-> <<s.rem * (Base \div d) + (tmp \div d)>> \o s.q, rem |-> tmp % d]
  IN Fold(Step, [q |-> <<a[Limbs] \div d>>, rem |-> a[Limbs] % d],
              [i \in 1..(Limbs - 1) |-> Limbs - i])

bn_divmod58(a)   == Divide(a, 58)
bn_divmod1000(a) == Divide(a, 1000)

-----------------------------------------------------------------------------
(* Decimal texts *)

DIGITS == (NumBits * 30103) \div 100000 + 1         \* log10(2^NumBits), upwards: 78

bn_digitcount(a) ==
  LET Step(s, i) ==
        LET d == bn_divmod1000(s.val)
        IN [val |-> d.q,
            digits |-> IF d.rem = 0 THEN s.digits
                       ELSE i + (IF d.rem >= 100 THEN 3 ELSE IF d.rem >= 10 THEN 2 ELSE 1)]
  IN Fold(Step, [val |-> a, digits |-> 1], [i \in 1..((DIGITS + 2) \div 3) |-> 3 * (i - 1)]).digits

\* The third limb takes what is left of 64 bits.
bn_read_uint64(n) ==
  LET rest == n \div Base
  IN Evaluated([j \in Limb |-> CASE j = 1 -> n % Base [] j = 2 -> rest % Base
                                 [] j = 3 -> rest \div Base [] OTHER -> 0])

Dot == 46
NotFormatted == [ok |-> FALSE, text |-> <<>>]

\* A number grows from its last digit to its first, str, until there is no
\* room left for it between prefix and suffix.
BN_FORMAT_PUSH_CHECKED(s, c) ==
  IF ~s.ok \/ Len(s.str) = s.room THEN [s EXCEPT !.ok = FALSE] ELSE [s EXCEPT !.str = <<c>> \o @]

\* A negative exponent takes digits away; zeros at the end of the fraction
\* are not written but for its first, unless they are asked for.
BN_FORMAT_PUSH(s, n, trailing) ==
  LET shown == n > 0 \/ trailing \/ s.str # <<>> \/ s.decimals <= 1
      digit == IF shown THEN BN_FORMAT_PUSH_CHECKED(s, 48 + n) ELSE s
      point == IF s.decimals = 1 THEN BN_FORMAT_PUSH_CHECKED(digit, Dot) ELSE digit
  IN IF s.exponent < 0 THEN [s EXCEPT !.exponent = @ + 1]
     ELSE IF s.decimals = 0 THEN point ELSE [point EXCEPT !.decimals = @ - 1]

\* The digits of a number, the last one first.
DigitsOf(a) ==
  LET digits == bn_digitcount(a)
      Step(s, i) ==
        LET d == bn_divmod1000(s.val)
        IN [val |-> d.q, out |-> s.out \o <<d.rem % 10, (d.rem \div 10) % 10, d.rem \div 100>>]
  IN SubSeq(Fold(Step, [val |-> a, out |-> <<>>], [i \in 1..((digits + 2) \div 3) |-> i]).out, 1, digits)

bn_format(amnt, prefix, suffix, decimals, exponent, trailing, outlen) ==
  LET room == outlen - Len(prefix) - Len(suffix) - 1
      expo == IF bn_is_zero(amnt) THEN 0 ELSE exponent
      zeros == IF expo > 0 THEN [i \in 1..expo |-> 0] ELSE <<>>
      Push(s, n) == BN_FORMAT_PUSH(s, n, trailing)
      Open(s) == s.ok /\ (s.decimals > 0 \/ Head(s.str \o suffix \o <<0>>) \in {0, Dot})
      Closed(s) == Fold(LAMBDA t, i : IF Open(t) THEN Push(t, 0) ELSE t, s,
                        [i \in 1..(s.decimals + 1 - s.exponent) |-> i])
      Ended(s) == IF room < 1 \/ ~s.ok THEN NotFormatted
                  ELSE [ok |-> TRUE, text |-> prefix \o s.str \o suffix]
  IN Ended(Closed(Fold(Push, [str |-> <<>>, ok |-> TRUE, room |-> room, decimals |-> decimals,
                              exponent |-> IF expo > 0 THEN 0 ELSE expo],
                       zeros \o DigitsOf(amnt))))

bn_format_uint64(amount, prefix, suffix, decimals, exponent, trailing, outlen) ==
  bn_format(bn_read_uint64(amount), prefix, suffix, decimals, exponent, trailing, outlen)
=============================================================================
