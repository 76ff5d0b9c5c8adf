---------------------------- MODULE FieldElements ----------------------------
(***************************************************************************)
(* What the operations on limbs of Field25519 are to each other: numbers   *)
(* modulo the prime, and how large their limbs may have become.  A sum or  *)
(* a difference leaves limbs that are too large, and what may follow upon  *)
(* what is said only in names like add_after_basic.  Sizes are in          *)
(* thousandths of a full limb, for the lower limbs that curve25519_sub     *)
(* carries and for the higher ones.  Where an operation is given limbs it  *)
(* has no room for, the number is lost.                                    *)
(***************************************************************************)
EXTENDS Loops

CONSTANTS
  FieldBits, Fold19,   \* 255, 19
  Room,                \* what a word holds, see below
  Chain,               \* the exponents of pow_two5mtwo0_two250mtwo0, see there
  ChainTop             \* 250

\* Room.low      how many limbs curve25519_sub carries, 4
\* Room.limbs    how many there are, 10
\* Room.sum      full limbs in a word: 2^32 / 2^26
\* Room.weight   the same for a limb that is worth 2 * Fold19: 2^32 / 2^25 / 38
\* Room.scalar   the same for one that is multiplied by CurveA24: 2^32 / 121665
\* Room.top      what the carry out of the highest limb of a product may be
\* Room.slack    what the last carry leaves above a full limb
\* Room.scaled   the same in curve25519_scalar_product, for each full limb
\* Room.short    what twice a limb of the prime lacks of two full limbs
\* Room.carry    what a few full limbs carry into the next

Prime == 2^FieldBits - Fold19

Known(v, lo, hi) == [v |-> v, lo |-> lo, hi |-> hi]
Fe(v)   == Known(v, 1000, 1000)
Lost    == Known(-1, 0, 0)
Larger(s, t) == IF s < t THEN t ELSE s
Size(f) == Larger(f.lo, f.hi)
AfterCarry    == 1000 + Room.slack

\* A number, if the operands were numbers and their limbs had the room.
FieldResult(fits, v, lo, hi) == IF fits THEN Known(v % Prime, lo, hi) ELSE Lost
Both(a, b) == a.v # -1 /\ b.v # -1
-----------------------------------------------------------------------------
(* Sums and differences *)

curve25519_copy(f) == f

curve25519_add(a, b) ==
  FieldResult(Both(a, b) /\ Size(a) + Size(b) < 1000 * Room.sum, a.v + b.v, a.lo + b.lo, a.hi + b.hi)

curve25519_add_reduce(a, b) ==
  FieldResult(Both(a, b) /\ Size(a) + Size(b) < 1000 * Room.sum - 1000, a.v + b.v, AfterCarry, AfterCarry)

curve25519_add_after_basic(a, b) == curve25519_add_reduce(a, b)

\* Twice the prime is added first, or four times.
curve25519_sub(a, b) ==
  FieldResult(Both(a, b) /\ Size(b) <= 2000 - Room.short /\ Size(a) + 3000 < 1000 * Room.sum,
         a.v - b.v, 1000, a.hi + 2000 + Room.carry)

curve25519_sub_reduce(a, b) ==
  FieldResult(Both(a, b) /\ Size(b) <= 4000 - 2 * Room.short /\ Size(a) + 5000 < 1000 * Room.sum, a.v - b.v, AfterCarry, AfterCarry)

curve25519_sub_after_basic(a, b) == curve25519_sub_reduce(a, b)

curve25519_neg(a) == FieldResult(a.v # -1 /\ Size(a) <= 2000 - Room.short, -a.v, AfterCarry, AfterCarry)

curve25519_reduce(f) == FieldResult(f.v # -1 /\ Size(f) < 1000 * Room.sum - 1000, f.v, AfterCarry, AfterCarry)

curve25519_scalar_product(f, scalar) ==
  FieldResult(f.v # -1 /\ Size(f) \div 1000 < Room.scalar - 2, f.v * scalar,
         1000 + Room.scaled * ((Size(f) \div 1000) + 2), 1000)
-----------------------------------------------------------------------------
(* Products: b is weighted, and the carry out of the highest limb is a word *)

TopColumn(a, b) ==
  Room.low * (a.hi * b.lo + a.lo * b.hi) + (Room.limbs - 2 * Room.low) * a.hi * b.hi

Multiplies(a, b) ==
  Both(a, b) /\ Size(b) < Room.weight /\ TopColumn(a, b) < 1000000 * Room.top

curve25519_mul(a, b)   == FieldResult(Multiplies(a, b), a.v * b.v, AfterCarry, AfterCarry)
curve25519_square(f)   == FieldResult(Multiplies(f, f), f.v * f.v, AfterCarry, AfterCarry)

\* count is at least 1
curve25519_square_times(f, count) ==
  Fold(LAMBDA g, i : curve25519_square(g), f, [i \in 1..count |-> i])
-----------------------------------------------------------------------------
(* 32 bytes, as a number of FieldBits + 1 bits *)

curve25519_expand(bytes) == Known((bytes % 2^FieldBits) % Prime, 1000, 1000)

curve25519_expand_reduce(bytes) ==
  Known(((bytes % 2^FieldBits) + Fold19 * (bytes \div 2^FieldBits)) % Prime, AfterCarry, AfterCarry)

curve25519_contract(f) == f.v

curve25519_swap_conditional(a, b, iswap) == IF iswap = 1 THEN <<b, a>> ELSE <<a, b>>

curve25519_set(v) == Fe(v)

curve25519_isnegative(f) == curve25519_contract(f) % 2
curve25519_isnonzero(f)  == curve25519_contract(f) # 0
-----------------------------------------------------------------------------
(* Powers *)

\* From b = z^(2^5 - 1) to z^(2^250 - 1).  A link of the chain squares n
\* times and multiplies by what it started from, or joins, that is
\* multiplies by what was kept last.  The code's chain is 5 (kept), 10, 20,
\* 10 (joined, kept), 50, 100, 50 (joined).
Linked(s, link, y) == [at |-> y, kept |-> IF link.keep THEN y ELSE s.kept]

curve25519_pow_two5mtwo0_two250mtwo0(b) ==
  Fold(LAMBDA s, link :
         Linked(s, link, curve25519_mul(curve25519_square_times(s.at, link.n), IF link.join THEN s.kept ELSE s.at)),
       [at |-> b, kept |-> b], Chain).at

\* z^11 and z^31
Eleven(z) ==
  LET Both11(eleven, nine) == [eleven |-> eleven, b |-> curve25519_mul(curve25519_square_times(eleven, 1), nine)]
      From(two, nine) == Both11(curve25519_mul(nine, two), nine)
      Two(two) == From(two, curve25519_mul(curve25519_square_times(two, 2), z))
  IN Two(curve25519_square_times(z, 1))

\* The bits above ChainTop that remain.
Rest == FieldBits - ChainTop

\* z^(p - 2)
curve25519_recip(z) ==
  LET From(e) ==
        curve25519_mul(curve25519_square_times(curve25519_pow_two5mtwo0_two250mtwo0(e.b), Rest), e.eleven)
  IN From(Eleven(z))

\* z^((p - 5) / 8)
curve25519_pow_two252m3(z) ==
  curve25519_mul(curve25519_square_times(curve25519_pow_two5mtwo0_two250mtwo0(Eleven(z).b), Rest - 3), z)

\* u^(m + 1) v^(-(m + 1)) with m = (p - 5) / 8: u v^3 (u v^7)^m
curve25519_divpowm1(u, v) ==
  LET From(v3) ==
        curve25519_mul(curve25519_mul(curve25519_pow_two252m3(
          curve25519_mul(curve25519_mul(curve25519_square(v3), v), u)), v3), u)
  IN From(curve25519_mul(curve25519_square(v), v))
=============================================================================
