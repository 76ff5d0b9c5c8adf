--------------------------------- MODULE Aes ---------------------------------
(***************************************************************************)
(* aescrypt.c, aeskey.c and aestab.c: the block cipher under the modes,    *)
(* with keys of 256 bits, the only ones the build has.                     *)
(*                                                                         *)
(* A byte is the set of its bits that are one, so that ^ is the symmetric  *)
(* difference; a word is its four bytes, lowest first; a state is its four *)
(* words.  The key for decryption is made in one pass, every word from the *)
(* one eight before it and not from the key for encryption, and it is kept *)
(* the other way round.                                                    *)
(***************************************************************************)
EXTENDS Loops, FiniteSets

Byte == SUBSET (0..7)

Xor8(x, y) == (x \ y) \cup (y \ x)

BitsOfByte == [v \in 0..255 |-> {b \in 0..7 : (v \div 2^b) % 2 = 1}]

-----------------------------------------------------------------------------
(* The tables *)

sb_data == <<
   99, 124, 119, 123, 242, 107, 111, 197,  48,   1, 103,  43, 254, 215, 171, 118,
  202, 130, 201, 125, 250,  89,  71, 240, 173, 212, 162, 175, 156, 164, 114, 192,
  183, 253, 147,  38,  54,  63, 247, 204,  52, 165, 229, 241, 113, 216,  49,  21,
    4, 199,  35, 195,  24, 150,   5, 154,   7,  18, 128, 226, 235,  39, 178, 117,
    9, 131,  44,  26,  27, 110,  90, 160,  82,  59, 214, 179,  41, 227,  47, 132,
   83, 209,   0, 237,  32, 252, 177,  91, 106, 203, 190,  57,  74,  76,  88, 207,
  208, 239, 170, 251,  67,  77,  51, 133,  69, 249,   2, 127,  80,  60, 159, 168,
   81, 163,  64, 143, 146, 157,  56, 245, 188, 182, 218,  33,  16, 255, 243, 210,
  205,  12,  19, 236,  95, 151,  68,  23, 196, 167, 126,  61, 100,  93,  25, 115,
   96, 129,  79, 220,  34,  42, 144, 136,  70, 238, 184,  20, 222,  94,  11, 219,
  224,  50,  58,  10,  73,   6,  36,  92, 194, 211, 172,  98, 145, 149, 228, 121,
  231, 200,  55, 109, 141, 213,  78, 169, 108,  86, 244, 234, 101, 122, 174,   8,
  186, 120,  37,  46,  28, 166, 180, 198, 232, 221, 116,  31,  75, 189, 139, 138,
  112,  62, 181, 102,  72,   3, 246,  14,  97,  53,  87, 185, 134, 193,  29, 158,
  225, 248, 152,  17, 105, 217, 142, 148, 155,  30, 135, 233, 206,  85,  40, 223,
  140, 161, 137,  13, 191, 230,  66, 104,  65, 153,  45,  15, 176,  84, 187,  22 >>

isb_data == <<
   82,   9, 106, 213,  48,  54, 165,  56, 191,  64, 163, 158, 129, 243, 215, 251,
  124, 227,  57, 130, 155,  47, 255, 135,  52, 142,  67,  68, 196, 222, 233, 203,
   84, 123, 148,  50, 166, 194,  35,  61, 238,  76, 149,  11,  66, 250, 195,  78,
    8,  46, 161, 102,  40, 217,  36, 178, 118,  91, 162,  73, 109, 139, 209,  37,
  114, 248, 246, 100, 134, 104, 152,  22, 212, 164,  92, 204,  93, 101, 182, 146,
  108, 112,  72,  80, 253, 237, 185, 218,  94,  21,  70,  87, 167, 141, 157, 132,
  144, 216, 171,   0, 140, 188, 211,  10, 247, 228,  88,   5, 184, 179,  69,   6,
  208,  44,  30, 143, 202,  63,  15,   2, 193, 175, 189,   3,   1,  19, 138, 107,
   58, 145,  17,  65,  79, 103, 220, 234, 151, 242, 207, 206, 240, 180, 230, 115,
  150, 172, 116,  34, 231, 173,  53, 133, 226, 249,  55, 232,  28, 117, 223, 110,
   71, 241,  26, 113,  29,  41, 197, 137, 111, 183,  98,  14, 170,  24, 190,  27,
  252,  86,  62,  75, 198, 210, 121,  32, 154, 219, 192, 254, 120, 205,  90, 244,
   31, 221, 168,  51, 136,   7, 199,  49, 177,  18,  16,  89,  39, 128, 236,  95,
   96,  81, 127, 169,  25, 181,  74,  13,  45, 229, 122, 159, 147, 201, 156, 239,
  160, 224,  59,  77, 174,  42, 245, 176, 200, 235, 187,  60, 131,  83, 153,  97,
   23,  43,   4, 126, 186, 119, 214,  38, 225, 105,  20,  99,  85,  33,  12, 125 >>

rc_data == <<1, 2, 4, 8, 16, 32, 64, 128, 27, 54>>

\* A table of 256 numbers as one of bytes; NumberOfByte is the number of a byte.
NumberOfByte == [x \in Byte |-> CHOOSE v \in 0..255 : BitsOfByte[v] = x]
OfBytes(table) == [x \in Byte |-> BitsOfByte[table[NumberOfByte[x] + 1]]]

t_sbox == OfBytes(sb_data)
t_ibox == OfBytes(isb_data)

WPOLY == {0, 1, 3, 4, 8}

Shl(x, n) == {b + n : b \in x}
Poly(set, n) == IF set THEN Shl(WPOLY, n) ELSE {}

f2(x) == Xor8(Shl(x, 1), Poly(7 \in x, 0))
f4(x) == Xor8(Xor8(Shl(x, 2), Poly(6 \in x, 0)), Poly(7 \in x, 1))
f8(x) == Xor8(Xor8(Xor8(Shl(x, 3), Poly(5 \in x, 0)), Poly(6 \in x, 1)), Poly(7 \in x, 2))
f3(x) == Xor8(f2(x), x)
f9(x) == Xor8(f8(x), x)
fb(x) == Xor8(Xor8(f8(x), f2(x)), x)
fd(x) == Xor8(Xor8(f8(x), f4(x)), x)
fe(x) == Xor8(Xor8(f8(x), f4(x)), f2(x))

Rotated(w, n) == <<w[((4 - n) % 4) + 1], w[((5 - n) % 4) + 1], w[((6 - n) % 4) + 1], w[((7 - n) % 4) + 1]>>

u0(p) == <<f2(p), p, p, f3(p)>>
u1(p) == Rotated(u0(p), 1)
u2(p) == Rotated(u0(p), 2)
u3(p) == Rotated(u0(p), 3)

v0(p) == <<fe(p), f9(p), fd(p), fb(p)>>
v1(p) == Rotated(v0(p), 1)
v2(p) == Rotated(v0(p), 2)
v3(p) == Rotated(v0(p), 3)

bytes2word(b0, b1, b2, b3) == <<b0, b1, b2, b3>>

Xor32(v, w) ==
  <<Xor8(v[1], w[1]), Xor8(v[2], w[2]), Xor8(v[3], w[3]), Xor8(v[4], w[4])>>

\* The entries for four bytes, ^ed: of the tables of a normal round and of
\* the last, forward and inverse, and of the inverse mixing of a column.
four_tables(t0, t1, t2, t3) == Xor32(Xor32(Xor32(t0, t1), t2), t3)

t_fn(a, b, c, d) == four_tables(u0(t_sbox[a]), u1(t_sbox[b]), u2(t_sbox[c]), u3(t_sbox[d]))
t_fl(a, b, c, d) == bytes2word(t_sbox[a], t_sbox[b], t_sbox[c], t_sbox[d])
t_in(a, b, c, d) == four_tables(v0(t_ibox[a]), v1(t_ibox[b]), v2(t_ibox[c]), v3(t_ibox[d]))
t_il(a, b, c, d) == bytes2word(t_ibox[a], t_ibox[b], t_ibox[c], t_ibox[d])
t_im(a, b, c, d) == four_tables(v0(a), v1(b), v2(c), v3(d))

inv_mcol(x) == t_im(x[1], x[2], x[3], x[4])

\* Byte r of the result comes from byte r - c, that is rf2.
rf2(x, r, c) == x[((8 + r - c) % 4) + 1]
ls_box(x, c) == t_fl(rf2(x, 0, c), rf2(x, 1, c), rf2(x, 2, c), rf2(x, 3, c))

-----------------------------------------------------------------------------
(* Keys *)

\* The rc table as words; i counts from 0.
t_rc(i) == bytes2word(BitsOfByte[rc_data[i + 1]], {}, {}, {})

word_in(in, c) == bytes2word(in[4 * c + 1], in[4 * c + 2], in[4 * c + 3], in[4 * c + 4])

KeyWords(key) ==
  <<word_in(key, 0), word_in(key, 1), word_in(key, 2), word_in(key, 3),
    word_in(key, 4), word_in(key, 5), word_in(key, 6), word_in(key, 7)>>

Low(ss)  == <<ss[1], ss[2], ss[3], ss[4]>>
High(ss) == <<ss[5], ss[6], ss[7], ss[8]>>

\* Every word is ^ed with the one before it, the first with this one.
RunningXor(before, ws) ==
  LET r[j \in 1..4] == Xor32(ws[j], IF j = 1 THEN before ELSE r[j - 1])
  IN <<r[1], r[2], r[3], r[4]>>

\* The first four of the next eight words, and all of them.
kef8(ss, i) == RunningXor(Xor32(ls_box(ss[8], 3), t_rc(i)), Low(ss))

WithNext4(k, last4) == k \o RunningXor(ls_box(k[4], 0), last4)
ke8(ss, i) == WithNext4(kef8(ss, i), High(ss))

Rounds == 14

\* ks in rows of N_COLS words, a row for a round; inf.b[0].
aes_encrypt_key256(key) ==
  LET Grown(rows, ss) == [ss |-> ss, rows |-> rows \o <<Low(ss), High(ss)>>]
      Ended(s) == [ks |-> Append(s.rows, kef8(s.ss, 6)), inf |-> 16 * Rounds]
  IN Ended(Fold(LAMBDA s, i : Grown(s.rows, ke8(s.ss, i)), Grown(<<>>, KeyWords(key)),
                <<0, 1, 2, 3, 4, 5>>))

ff(x) == inv_mcol(x)
MixedWords(ws) == <<ff(ws[1]), ff(ws[2]), ff(ws[3]), ff(ws[4])>>

\* The eight words of the key for encryption go on as they are; those of the
\* key for decryption are mixed.  From the second cycle on each is made of
\* the ones before it and eight before it, which are mixed already.
BothFrom(ss) == [ss |-> ss, k |-> MixedWords(Low(ss)) \o MixedWords(High(ss))]
kdf8(ss, i) == BothFrom(ke8(ss, i))

kd8(s, i) ==
  LET Both(ss) == [ss |-> ss,
                   k |-> RunningXor(ff(Xor32(ls_box(s.ss[8], 3), t_rc(i))), Low(s.k))
                           \o RunningXor(ff(ls_box(ss[4], 0)), High(s.k))]
  IN Both(ke8(s.ss, i))

kdl8(ss, i) == kef8(ss, i)

\* Word 4 r + c is kept as word StoredAt(56, 4 r + c): the rows from last to first.
StoredAt(n, i) == n - i + 2 * (i % 4)
Reversed(rows) == [r \in 1..(Rounds + 1) |-> rows[(StoredAt(56, 4 * (r - 1)) \div 4) + 1]]

aes_decrypt_key256(key) ==
  LET Grown(rows, c) == [c |-> c, rows |-> rows \o <<Low(c.k), High(c.k)>>]
      First(c0) == Grown(<<Low(c0), MixedWords(High(c0))>>, kdf8(c0, 0))
      Ended(u) == [ks |-> Reversed(Append(u.rows, kdl8(u.c.ss, 6))), inf |-> 16 * Rounds]
  IN Ended(Fold(LAMBDA u, i : Grown(u.rows, kd8(u.c, i)), First(KeyWords(key)), <<1, 2, 3, 4, 5>>))

-----------------------------------------------------------------------------
(* Blocks *)

state_in(in, k) ==
  <<Xor32(word_in(in, 0), k[1]), Xor32(word_in(in, 1), k[2]),
    Xor32(word_in(in, 2), k[3]), Xor32(word_in(in, 3), k[4])>>

state_out(x) ==
  <<x[1][1], x[1][2], x[1][3], x[1][4], x[2][1], x[2][2], x[2][3], x[2][4],
    x[3][1], x[3][2], x[3][3], x[3][4], x[4][1], x[4][2], x[4][3], x[4][4]>>

\* Row r of column c comes from column c + r, or from column c - r back.
fwd_var(x, r, c) == x[((c + r) % 4) + 1][r + 1]
inv_var(x, r, c) == x[((4 + c - r) % 4) + 1][r + 1]

fwd_rnd(x, k, c) ==
  Xor32(k[c + 1], t_fn(fwd_var(x, 0, c), fwd_var(x, 1, c), fwd_var(x, 2, c), fwd_var(x, 3, c)))
fwd_lrnd(x, k, c) ==
  Xor32(k[c + 1], t_fl(fwd_var(x, 0, c), fwd_var(x, 1, c), fwd_var(x, 2, c), fwd_var(x, 3, c)))
inv_rnd(x, k, c) ==
  Xor32(k[c + 1], t_in(inv_var(x, 0, c), inv_var(x, 1, c), inv_var(x, 2, c), inv_var(x, 3, c)))
inv_lrnd(x, k, c) ==
  Xor32(k[c + 1], t_il(inv_var(x, 0, c), inv_var(x, 1, c), inv_var(x, 2, c), inv_var(x, 3, c)))

\* A round of every column, and the last.
Forward(x, k)  == <<fwd_rnd(x, k, 0), fwd_rnd(x, k, 1), fwd_rnd(x, k, 2), fwd_rnd(x, k, 3)>>
LastOn(x, k)   == <<fwd_lrnd(x, k, 0), fwd_lrnd(x, k, 1), fwd_lrnd(x, k, 2), fwd_lrnd(x, k, 3)>>
Backward(x, k) == <<inv_rnd(x, k, 0), inv_rnd(x, k, 1), inv_rnd(x, k, 2), inv_rnd(x, k, 3)>>
LastBack(x, k) == <<inv_lrnd(x, k, 0), inv_lrnd(x, k, 1), inv_lrnd(x, k, 2), inv_lrnd(x, k, 3)>>

\* A context that was made for a key says how many rounds it has.
Keyed(cx) == cx.inf \in {160, 192, 224}

aes_encrypt(in, cx) ==
  LET rounds == cx.inf \div 16
      after[n \in 0..(rounds - 1)] ==
        IF n = 0 THEN state_in(in, cx.ks[1]) ELSE Forward(after[n - 1], cx.ks[n + 1])
  IN IF Keyed(cx) THEN state_out(LastOn(after[rounds - 1], cx.ks[rounds + 1])) ELSE <<>>

aes_decrypt(in, cx) ==
  LET rounds == cx.inf \div 16
      after[n \in 0..(rounds - 1)] ==
        IF n = 0 THEN state_in(in, cx.ks[1]) ELSE Backward(after[n - 1], cx.ks[n + 1])
  IN IF Keyed(cx) THEN state_out(LastBack(after[rounds - 1], cx.ks[rounds + 1])) ELSE <<>>

-----------------------------------------------------------------------------
(* The reference: FIPS 197, in its own terms *)

\* The product of two polynomials, and what x^8 + x^4 + x^3 + x + 1 leaves.
FieldProduct(x, y) ==
  LET p == {k \in 0..14 : Cardinality({i \in x : k - i \in y}) % 2 = 1}
  IN FoldLeft(LAMBDA q, k : IF k \in q THEN Xor8(q, Shl(WPOLY, k - 8)) ELSE q,
              p, <<14, 13, 12, 11, 10, 9, 8>>)

FieldInverse(x) == IF x = {} THEN {} ELSE CHOOSE y \in Byte : FieldProduct(x, y) = {0}

AffineOf(x) ==
  {i \in 0..7 : (Cardinality({j \in {0, 4, 5, 6, 7} : (i + j) % 8 \in x})
                  + Cardinality({i} \cap {0, 1, 5, 6})) % 2 = 1}

\* The tables are those of the standard, and one undoes the other.
ASSUME TablesAssumption ==
  /\ \A x \in Byte : t_sbox[x] \in Byte /\ t_ibox[x] \in Byte /\ t_ibox[t_sbox[x]] = x
  /\ \A x \in Byte : t_sbox[x] = AffineOf(FieldInverse(x))

MixColumn(w) ==
  LET two == {1}  three == {0, 1}  one == {0}
      Row(a, b, c, d) == Xor8(Xor8(FieldProduct(a, w[1]), FieldProduct(b, w[2])), Xor8(FieldProduct(c, w[3]), FieldProduct(d, w[4])))
  IN <<Row(two, three, one, one), Row(one, two, three, one), Row(one, one, two, three), Row(three, one, one, two)>>

Four(F(_)) == <<F(1), F(2), F(3), F(4)>>

SubAndShift(x) == Four(LAMBDA c : Four(LAMBDA r : t_sbox[x[((c + r - 2) % 4) + 1][r]]))

RotWord(w) == <<w[2], w[3], w[4], w[1]>>
SubWord(w) == Four(LAMBDA r : t_sbox[w[r]])

\* Powers of x begin every eighth word.
Rcon(n) == <<FoldLeft(LAMBDA p, i : FieldProduct(p, {1}), {0}, [i \in 1..(n - 1) |-> i]), {}, {}, {}>>

KeyExpansion(key) ==
  Fold(LAMBDA w, i :
         LET temp == w[i]
         IN Append(w, Xor32(w[i - 7],
                            IF i % 8 = 0 THEN Xor32(SubWord(RotWord(temp)), Rcon(i \div 8))
                            ELSE IF i % 8 = 4 THEN SubWord(temp) ELSE temp)),
       KeyWords(key), [n \in 1..52 |-> n + 7])

AddRoundKey(x, w, n) == Four(LAMBDA c : Xor32(x[c], w[4 * n + c]))

StandardCipher(in, key) ==
  LET w == KeyExpansion(key)
      start == AddRoundKey(Four(LAMBDA c : SubSeq(in, 4 * c - 3, 4 * c)), w, 0)
      last == Fold(LAMBDA x, n : AddRoundKey(Four(LAMBDA c : MixColumn(SubAndShift(x)[c])), w, n),
                   start, [n \in 1..13 |-> n])
      x == AddRoundKey(SubAndShift(last), w, 14)
  IN x[1] \o x[2] \o x[3] \o x[4]
=============================================================================
