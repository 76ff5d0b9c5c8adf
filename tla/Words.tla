-------------------------------- MODULE Words --------------------------------
(***************************************************************************)
(* Words as sets of the bits that are one, and the constants the hashes    *)
(* of trezor-crypto share.  The hashes on 32 bits take the upper halves of *)
(* the constants of those on 64, which the files of the code write twice.  *)
(***************************************************************************)
EXTENDS HashBlocks, Loops

\* A word from its digits of 16 bits, most significant first, and a row of
\* words of d digits.
OfDigits(digits) ==
  UNION {{16 * (Len(digits) - k) + b : b \in {c \in 0..15 : (digits[k] \div 2^c) % 2 = 1}} : k \in DOMAIN digits}

WordsOf(d, digits) ==
  Evaluated([k \in 1..(Len(digits) \div d) |-> OfDigits(SubSeq(digits, (k - 1) * d + 1, k * d))])

Shr(b, x) == {i - b : i \in {j \in x : j >= b}}
Rotr(n, b, x) == {(i - b) % n : i \in x}
Rotl(n, b, x) == {(i + b) % n : i \in x}
Not(n, x) == (0..(n - 1)) \ x

Xored(words) ==
  LET x[k \in 0..Len(words)] == IF k = 0 THEN {} ELSE SymDiff(x[k - 1], words[k])
  IN x[Len(words)]

\* The sum of words of n bits, modulo 2^n: the bits that are one in one of two
\* words, and those that are carried, until none is.
Plus(n, x, y) ==
  LET BitSets == SUBSET (0..(n - 1))
      added[p \in BitSets \X BitSets] ==
        IF p[2] = {} THEN p[1]
        ELSE added[<<SymDiff(p[1], p[2]), {b + 1 : b \in p[1] \cap p[2]} \ {n}>>]
  IN added[<<x, y>>]

SumOf(n, words) ==
  LET sum[k \in 0..Len(words)] == IF k = 0 THEN {} ELSE Plus(n, sum[k - 1], words[k])
  IN sum[Len(words)]

\* Two rows of words, added and xored one by one.
SumRows(n, a, b) == Evaluated([i \in DOMAIN a |-> SumOf(n, <<a[i], b[i]>>)])
XorRows(a, b) == Evaluated([i \in DOMAIN a |-> SymDiff(a[i], b[i])])

Halved(words) == Evaluated([k \in DOMAIN words |-> Shr(32, words[k])])

\* The roots of the first primes: square roots, and cube roots.
IV512 == WordsOf(4, <<
  27145, 58983, 62396, 51464, 47975, 44677, 33994, 42811, 15470, 62322, 65172, 63531, 42319, 62778, 24349, 14065,
  20750, 21119, 44518, 33489, 39685, 26764, 11070, 27679,  8067, 55723, 64321, 48491, 23520, 52505,  4990,  8569 >>)

K512 == WordsOf(4, <<
  17034, 12184, 55080, 44578, 28983, 17553,  9199, 26061, 46528, 64463, 60493, 15151, 59829, 56229, 33161, 56252,
  14678, 49755, 62280, 46392, 23025,  4593, 46597, 53273, 37439, 33444, 44825, 20379, 43804, 24277, 55917, 33048,
  55303, 43672, 41731,   578,  4739, 23297, 17776, 28606,  9265, 34238, 20196, 45708, 21772, 32195, 54783, 46306,
  29374, 23924, 62075, 35183, 32990, 45566, 15126, 38577, 39900,  1703,  9671,  4661, 49563, 61812, 53097,  9876,
  58523, 27073, 40689, 19154, 61374, 18310, 14415,  9699,  4033, 40390, 35724, 54709,  9228, 41420, 30636, 40037,
  11753, 11375, 22827,   629, 19060, 33962, 28326, 58499, 23728, 43484, 48449, 64468, 30457, 35034, 33553, 21429,
  38974, 20818, 61030, 57259, 43057, 50797, 11700, 12816, 45059, 10184, 39163,  8511, 48985, 32711, 48879,  3812,
  50912,  3059, 15784, 36802, 54695, 37191, 37642, 42789,  1738, 25425, 57347, 33391,  5161, 10599,  2574, 28272,
  10167,  2693, 18130, 12284, 11803,  8504, 23590, 51494, 19756, 28156, 23236, 10989, 21304,  3347, 40341, 46047,
  25866, 29524, 35759, 25566, 30314,  2747, 15479, 45736, 33218, 51502, 18413, 44774, 37490, 11397,  5250, 13627,
  41663, 59553, 19697,   868, 43034, 26187, 48194, 12289, 49739, 35696, 53496, 38801, 51052, 20899,  1620, 48688,
  53650, 59417, 55023, 21016, 54937,  1572, 21861, 43280, 62478, 13701, 22385,  8234,  4202, 41072, 12987, 53688,
   6564, 49430, 47314, 53448,  7735, 27656, 20801, 43859, 10056, 30540, 57230, 60313, 13488, 48309, 57755, 18600,
  14620,  3251, 50633, 23139, 20184, 43594, 58177, 35531, 23452, 51791, 30563, 58227, 26670, 28659, 54962, 47267,
  29839, 33518, 24047, 45820, 30885, 25455, 17175, 12128, 33992, 30740, 41456, 43890, 36039,   520,  6756, 14828,
  37054, 65530,  9059,  7720, 42064, 27883, 56962, 48617, 48889, 41975, 45766, 30997, 50801, 30962, 58226, 21291,
  51751, 16078, 59942, 24988, 53638, 47303,  8640, 49671, 60122, 32214, 52704, 60190, 62845, 20351, 61038, 53624,
   1776, 26538, 29207, 28602,  2659, 32197, 41672, 39078,  4415, 38916, 48889,  3502,  7025,  2869,  4892, 18203,
  10459, 30709,  8964, 32132, 13002, 43899, 16583,  9363, 15518, 48650,  5577, 48828, 17181, 26564, 39952,  3404,
  19653, 54462, 52030, 17078, 22911, 10652, 64613, 32298, 24523, 28587, 15062, 64236, 27716,  6540, 19015, 22551 >>)

IV256 == Halved(IV512)
K256 == Halved(SubSeq(K512, 1, 64))

\* What SHA-1 and RIPEMD-160 begin with.
IV160 == WordsOf(2, <<26437, 8961, 61389, 43913, 39098, 56574, 4146, 21622, 50130, 57840>>)

\* The order in which a round of BLAKE takes the words of the message.
SigmaRows == <<
  << 0,  1,  2,  3,  4,  5,  6,  7,  8,  9, 10, 11, 12, 13, 14, 15>>,
  <<14, 10,  4,  8,  9, 15, 13,  6,  1, 12,  0,  2, 11,  7,  5,  3>>,
  <<11,  8, 12,  0,  5,  2, 15, 13, 10, 14,  3,  6,  7,  1,  9,  4>>,
  << 7,  9,  3,  1, 13, 12, 11, 14,  2,  6,  5, 10,  4,  0, 15,  8>>,
  << 9,  0,  5,  7,  2,  4, 10, 15, 14,  1, 11, 12,  6,  8,  3, 13>>,
  << 2, 12,  6, 10,  0, 11,  8,  3,  4, 13,  7,  5, 15, 14,  1,  9>>,
  <<12,  5,  1, 15, 14, 13,  4, 10,  0,  7,  6,  3,  9,  2,  8, 11>>,
  <<13, 11,  7, 14, 12,  1,  3,  9,  5,  0, 15,  4,  8,  6,  2, 10>>,
  << 6, 15, 14,  9, 11,  3,  0,  8, 12,  2, 13,  7,  1,  4, 10,  5>>,
  <<10,  2,  8,  4,  7,  6,  1,  5, 15, 11,  9, 14,  3, 12, 13,  0>> >>

-----------------------------------------------------------------------------
(* The step that BLAKE-256 and BLAKE2 share, upon four of sixteen words,   *)
(* with the words x and y mixed in and the rotations R; and the order in   *)
(* which a round takes them, as the code lists it.                         *)

G(n, R, v, x, y, a, b, c, d) ==
  LET a1 == SumOf(n, <<v[a], v[b], x>>)
      d1 == Rotr(n, R[1], SymDiff(v[d], a1))
      c1 == SumOf(n, <<v[c], d1>>)
      b1 == Rotr(n, R[2], SymDiff(v[b], c1))
      a2 == SumOf(n, <<a1, b1, y>>)
      d2 == Rotr(n, R[3], SymDiff(d1, a2))
      c2 == SumOf(n, <<c1, d2>>)
  IN [v EXCEPT ![a] = a2, ![b] = Rotr(n, R[4], SymDiff(b1, c2)), ![c] = c2, ![d] = d2]

RoundCalls == <<<<1, 5, 9, 13>>, <<2, 6, 10, 14>>, <<3, 7, 11, 15>>, <<4, 8, 12, 16>>,
                <<1, 6, 11, 16>>, <<2, 7, 12, 13>>, <<3, 8, 9, 14>>, <<4, 5, 10, 15>>>>

\* One round: call i takes the words first[i] and second[i].
ROUND(n, R, v, first, second) ==
  LET Call(u, i) == LET c == RoundCalls[i] IN G(n, R, u, first[i], second[i], c[1], c[2], c[3], c[4])
  IN Fold(Call, v, [i \in 1..8 |-> i])

\* RFC 7693: the columns of a matrix of four rows, and, with row r moved r
\* places to the left, its diagonals.
StandardG(n, R, q, x, y) ==
  LET Half(p, word, r, s) ==
        LET a == SumOf(n, <<p[1], p[2], word>>)
            d == Rotr(n, r, SymDiff(p[4], a))
            c == SumOf(n, <<p[3], d>>)
        IN <<a, Rotr(n, s, SymDiff(p[2], c)), c, d>>
  IN Half(Half(q, x, R[1], R[2]), y, R[3], R[4])

StandardRound(n, R, v, first, second) ==
  LET Moved(m, by) == Evaluated([i \in 1..16 |->
        LET r == (i - 1) \div 4 IN m[4 * r + ((i - 1 + by * r) % 4) + 1]])
      InColumns(m, from) ==
        LET q == Evaluated([c \in 1..4 |->
                   StandardG(n, R, <<m[c], m[4 + c], m[8 + c], m[12 + c]>>, first[from + c], second[from + c])])
        IN Evaluated([i \in 1..16 |-> q[((i - 1) % 4) + 1][((i - 1) \div 4) + 1]])
  IN Moved(InColumns(Moved(InColumns(v, 0), 1), 4), -1)
=============================================================================
