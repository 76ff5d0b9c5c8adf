-------------------------------- MODULE Sha2 --------------------------------
(***************************************************************************)
(* sha2.c: SHA-1, SHA-256 and SHA-512 over a context that takes a message  *)
(* in pieces.  The three differ in their sizes, which are parameters here, *)
(* and in the count of bits: one 64-bit number in SHA-1 and SHA-256, two   *)
(* words with a carry in SHA-512.                                          *)
(*                                                                         *)
(* The machine is little-endian, as every device the library is built for: *)
(* a buffer is bytes in memory order, a word of it read by the compression *)
(* is those bytes backwards.                                               *)
(***************************************************************************)
EXTENDS Words

CONSTANT CounterMod         \* the word of a bit count is a number modulo this

\* What sha*_Transform makes of the block in memory.
Transform(st, buf) == Compress(st, SwapWords(buf))

TransformAll(st, bufs) == CompressAll(st, [k \in DOMAIN bufs |-> SwapWords(bufs[k])])

sha1_Transform(st, buf)   == Transform(st, buf)
sha256_Transform(st, buf) == Transform(st, buf)
sha512_Transform(st, buf) == Transform(st, buf)

sha1_Init   == [state |-> State("sha1"),   bitcount |-> 0, buffer |-> Zeros(B)]
sha256_Init == [state |-> State("sha256"), bitcount |-> 0, buffer |-> Zeros(B)]
sha512_Init == [state |-> State("sha512"), bitcount |-> <<0, 0>>, buffer |-> Zeros(B)]

-----------------------------------------------------------------------------
(* Update *)

\* Where the bytes of a piece go: free, the bytes that fill up a buffer that
\* already holds some (none when the buffer is empty or stays short of
\* full), whole, the blocks after them, and left, what stays in the buffer.
Split(used, len) ==
  LET free == IF used > 0 /\ len >= B - used THEN B - used ELSE 0
      fits == used > 0 /\ len < B - used
      whole == IF fits THEN 0 ELSE (len - free) \div B
  IN [free |-> free, whole |-> whole, left |-> len - free - whole * B,
      at |-> IF fits THEN used ELSE 0]

\* The blocks that d completes, in host order.
FullBlocks(c, used, d, s) ==
  (IF s.free > 0 THEN <<SwapWords(Overlay(c.buffer, used, SubSeq(d, 1, s.free)))>> ELSE <<>>)
    \o [k \in 1..s.whole |-> SwapWords(Block(SubSeq(d, s.free + 1, Len(d)), k))]

\* A block is turned to host order where it lies, compressed, and left there;
\* what stays is copied over it.
AfterBlocks(c, host, at, left) ==
  [c EXCEPT !.state = TransformAll(@, host),
            !.buffer = Overlay(IF host = <<>> THEN @ ELSE Last(host), at, left)]

FeedParts(c, used, d, s) ==
  AfterBlocks(c, FullBlocks(c, used, d, s), s.at, SubSeq(d, s.free + s.whole * B + 1, Len(d)))

\* State and buffer after a piece d.
Feed(c, used, d) == FeedParts(c, used, d, Split(used, Len(d)))

AddBits(n, len) == (n + 8 * len) % (CounterMod * CounterMod)

sha1_Update(c, d) ==
  IF d = <<>> THEN c
  ELSE [Feed(c, (c.bitcount \div 8) % B, d) EXCEPT !.bitcount = AddBits(@, Len(d))]

sha256_Update(c, d) ==
  IF d = <<>> THEN c
  ELSE [Feed(c, (c.bitcount \div 8) % B, d) EXCEPT !.bitcount = AddBits(@, Len(d))]

\* w[0] += n, and one more in w[1] when the sum came out below n.
ADDINC128(w, n) ==
  LET low == (w[1] + n) % CounterMod
  IN <<low, IF low < n THEN (w[2] + 1) % CounterMod ELSE w[2]>>

\* The count grows with every block, so that no single step passes a word.
AddParts(w, s) ==
  FoldLeft(LAMBDA c, n : ADDINC128(c, 8 * n), w, <<s.free>> \o [k \in 1..s.whole |-> B] \o <<s.left>>)

FeedAt(c, used, d) == [Feed(c, used, d) EXCEPT !.bitcount = AddParts(@, Split(used, Len(d)))]

sha512_Update(c, d) == IF d = <<>> THEN c ELSE FeedAt(c, (c.bitcount[1] \div 8) % B, d)

-----------------------------------------------------------------------------
(* Final *)

\* The last one or two blocks: a 1 bit, zeros up to the length field, and
\* the length stored as two words in host order, past the 14 that are turned.
LastBlock(text, from, count) ==
  Overlay(SwapWords(Overlay(text, from, Zeros(ShortBlock - from))), ShortBlock, SwapWords(count))

TwoBlocks(first, count) == <<first, LastBlock(first, 0, count)>>

LastBlocks(c, one, next, count) ==
  TransformAll(c.state, IF next > ShortBlock THEN TwoBlocks(SwapWords(Overlay(one, next, Zeros(B - next))), count)
                        ELSE <<LastBlock(one, next, count)>>)

Finish(c, used, hi, lo) ==
  LastBlocks(c, Overlay(c.buffer, used, <<Bits({"80"})>>), used + 1, WordBytes(hi) \o WordBytes(lo))

\* The words of the state turned to memory order, most significant byte first.
DigestOf(st) == StateBytes(st, DW)

sha1_Final(c) ==
  DigestOf(Finish(c, (c.bitcount \div 8) % B,
                c.bitcount \div CounterMod, c.bitcount % CounterMod))

sha256_Final(c) ==
  DigestOf(Finish(c, (c.bitcount \div 8) % B,
                c.bitcount \div CounterMod, c.bitcount % CounterMod))

sha512_Last(c) ==
  Finish(c, (c.bitcount[1] \div 8) % B, c.bitcount[2], c.bitcount[1])

sha512_Final(c) == DigestOf(sha512_Last(c))

sha1_Raw(d)   == sha1_Final(sha1_Update(sha1_Init, d))
sha256_Raw(d) == sha256_Final(sha256_Update(sha256_Init, d))
sha512_Raw(d) == sha512_Final(sha512_Update(sha512_Init, d))

\* The digest in hexadecimal, where the caller gives a buffer for it; what is
\* returned is the place of the zero behind the text.
InHex(digest) ==
  [text |-> Joined([i \in DOMAIN digest |-> <<<<"high", digest[i]>>, <<"low", digest[i]>>>>]), returned |-> 2 * Len(digest)]
NoHex == [text |-> <<>>, returned |-> 0]

sha1_End(c, buffer)   == IF buffer THEN InHex(sha1_Final(c)) ELSE NoHex
sha256_End(c, buffer) == IF buffer THEN InHex(sha256_Final(c)) ELSE NoHex
sha512_End(c, buffer) == IF buffer THEN InHex(sha512_Final(c)) ELSE NoHex

sha1_Data(d, buffer)   == sha1_End(sha1_Update(sha1_Init, d), buffer)
sha256_Data(d, buffer) == sha256_End(sha256_Update(sha256_Init, d), buffer)
sha512_Data(d, buffer) == sha512_End(sha512_Update(sha512_Init, d), buffer)

-----------------------------------------------------------------------------
(* What the standard says, of the whole message at once *)

\* The message, a 1 bit, the fewest zeros that make the total a number of
\* blocks, and its length in bits as two big-endian words.
Padded(d, bits) ==
  LET total == B * ((Len(d) + 1 + 2 * W + B - 1) \div B)
  IN d \o <<Bits({"80"})>> \o Zeros(total - Len(d) - 1 - 2 * W)
       \o WordBytes(bits \div CounterMod) \o WordBytes(bits % CounterMod)

Standard(iv, d) == DigestOf(CompressAll(State(iv), Blocks(Padded(d, 8 * Len(d)))))

-----------------------------------------------------------------------------
(* The compression of one block, over words.  A ring of sixteen words      *)
(* holds the block and then what is made of it.  The code has each twice:  *)
(* with registers that move up, and with registers that stay where they    *)
(* are and take each other's parts (SHA2_UNROLL_TRANSFORM).                *)

Ch(x, y, z) == SymDiff(x \cap y, z \ x)
Maj(x, y, z) == Xored(<<x \cap y, x \cap z, y \cap z>>)
Parity(x, y, z) == Xored(<<x, y, z>>)

Ring(w, k) == w[(k % 16) + 1]

K1 == WordsOf(2, <<23170, 31129, 28377, 60321, 36635, 48348, 51810, 49622>>)
LogicOf1(j, x, y, z) == IF j < 20 THEN Ch(x, y, z) ELSE IF j \in 40..59 THEN Maj(x, y, z) ELSE Parity(x, y, z)

Word1(w, j) ==
  IF j < 16 THEN Ring(w, j) ELSE Rotl(32, 1, Xored(<<Ring(w, j + 13), Ring(w, j + 8), Ring(w, j + 2), Ring(w, j)>>))

\* One round upon the registers a..e.
Mixed1(j, a, b, c, d, e, word) ==
  SumOf(32, <<Rotl(32, 5, a), LogicOf1(j, b, c, d), e, K1[(j \div 20) + 1], word>>)

Moving1(s, j) ==
  LET v == s.v  word == Word1(s.w, j)
  IN [v |-> <<Mixed1(j, v[1], v[2], v[3], v[4], v[5], word), v[1], Rotl(32, 30, v[2]), v[3], v[4]>>,
      w |-> [s.w EXCEPT ![(j % 16) + 1] = word]]

Staying1(s, j) ==
  LET word == Word1(s.w, j)
      At(r) == ((r - 1 - j) % 5) + 1
      R(r) == s.v[At(r)]
  IN [v |-> [s.v EXCEPT ![At(5)] = Mixed1(j, R(1), R(2), R(3), R(4), R(5), word), ![At(2)] = Rotl(32, 30, @)],
      w |-> [s.w EXCEPT ![(j % 16) + 1] = word]]

Ringed(H, data) == [v |-> H, w |-> data]
Upto(rounds) == [j \in 1..rounds |-> j - 1]

sha1_Words(H, data) == SumRows(32, H, Fold(Moving1, Ringed(H, data), Upto(80)).v)
sha1_Unrolled(H, data) == SumRows(32, H, Fold(Staying1, Ringed(H, data), Upto(80)).v)

\* SHA-256 and SHA-512 differ in their words, rounds and rotations.
Sha2Of(n, K, Sigma0, Sigma1, sigma0, sigma1) ==
  [n |-> n, K |-> K, Sigma0 |-> Sigma0, Sigma1 |-> Sigma1, sigma0 |-> sigma0, sigma1 |-> sigma1]
SHA256 == Sha2Of(32, K256, <<2, 13, 22>>, <<6, 11, 25>>, <<7, 18, 3>>, <<17, 19, 10>>)
SHA512 == Sha2Of(64, K512, <<28, 34, 39>>, <<14, 18, 41>>, <<1, 8, 7>>, <<19, 61, 6>>)

BigSigma(n, r, x) == Xored(<<Rotr(n, r[1], x), Rotr(n, r[2], x), Rotr(n, r[3], x)>>)
SmallSigma(n, r, x) == Xored(<<Rotr(n, r[1], x), Rotr(n, r[2], x), Shr(r[3], x)>>)

Word2(z, w, j) ==
  IF j < 16 THEN Ring(w, j)
  ELSE SumOf(z.n, <<Ring(w, j), SmallSigma(z.n, z.sigma1, Ring(w, j + 14)), Ring(w, j + 9),
                    SmallSigma(z.n, z.sigma0, Ring(w, j + 1))>>)

T1(z, j, e, f, g, h, word) == SumOf(z.n, <<h, BigSigma(z.n, z.Sigma1, e), Ch(e, f, g), z.K[j + 1], word>>)
T2(z, a, b, c) == SumOf(z.n, <<BigSigma(z.n, z.Sigma0, a), Maj(a, b, c)>>)

Moving2(z, s, j) ==
  LET v == s.v  word == Word2(z, s.w, j)
      t1 == T1(z, j, v[5], v[6], v[7], v[8], word)
  IN [v |-> <<SumOf(z.n, <<t1, T2(z, v[1], v[2], v[3])>>), v[1], v[2], v[3], SumOf(z.n, <<v[4], t1>>), v[5], v[6], v[7]>>,
      w |-> [s.w EXCEPT ![(j % 16) + 1] = word]]

Staying2(z, s, j) ==
  LET word == Word2(z, s.w, j)
      At(r) == ((r - 1 - j) % 8) + 1
      R(r) == s.v[At(r)]
      t1 == T1(z, j, R(5), R(6), R(7), R(8), word)
  IN [v |-> [s.v EXCEPT ![At(4)] = SumOf(z.n, <<@, t1>>), ![At(8)] = SumOf(z.n, <<t1, T2(z, R(1), R(2), R(3))>>)],
      w |-> [s.w EXCEPT ![(j % 16) + 1] = word]]

sha256_Words(H, data) ==
  SumRows(32, H, Fold(LAMBDA s, j : Moving2(SHA256, s, j), Ringed(H, data), Upto(64)).v)
sha256_Unrolled(H, data) ==
  SumRows(32, H, Fold(LAMBDA s, j : Staying2(SHA256, s, j), Ringed(H, data), Upto(64)).v)
sha512_Words(H, data) ==
  SumRows(64, H, Fold(LAMBDA s, j : Moving2(SHA512, s, j), Ringed(H, data), Upto(80)).v)
sha512_Unrolled(H, data) ==
  SumRows(64, H, Fold(LAMBDA s, j : Staying2(SHA512, s, j), Ringed(H, data), Upto(80)).v)

-----------------------------------------------------------------------------
(* What FIPS 180 says: the schedule is made first, a choice and a majority *)
(* are taken bit by bit.                                                   *)

Choice(x, y, z) == {i \in y \cup z : IF i \in x THEN i \in y ELSE i \in z}
Majority(x, y, z) == {i \in x \cup y : Cardinality({k \in 1..3 : i \in <<x, y, z>>[k]}) > 1}

Schedule(Next(_, _), data, rounds) ==
  Fold(LAMBDA w, t : Append(w, Next(w, t)), data, [k \in 1..(rounds - 16) |-> k + 16])

Sha1Standard(H, data) ==
  LET w == Schedule(LAMBDA u, t : Rotl(32, 1, Xored(<<u[t - 3], u[t - 8], u[t - 14], u[t - 16]>>)), data, 80)
      Logic(t, x, y, z) ==
        CASE t <= 20 -> Choice(x, y, z) [] t \in 41..60 -> Majority(x, y, z) [] OTHER -> Xored(<<x, y, z>>)
      Round(v, t) ==
        <<SumOf(32, <<Rotl(32, 5, v[1]), Logic(t, v[2], v[3], v[4]), v[5], K1[((t - 1) \div 20) + 1], w[t]>>),
          v[1], Rotl(32, 30, v[2]), v[3], v[4]>>
  IN SumRows(32, H, Fold(Round, H, [t \in 1..80 |-> t]))

Sha2Standard(z, rounds, H, data) ==
  LET n == z.n
      w == Schedule(LAMBDA u, t : SumOf(n, <<SmallSigma(n, z.sigma1, u[t - 2]), u[t - 7],
                                             SmallSigma(n, z.sigma0, u[t - 15]), u[t - 16]>>), data, rounds)
      Round(v, t) ==
        LET t1 == SumOf(n, <<v[8], BigSigma(n, z.Sigma1, v[5]), Choice(v[5], v[6], v[7]), z.K[t], w[t]>>)
            t2 == SumOf(n, <<BigSigma(n, z.Sigma0, v[1]), Majority(v[1], v[2], v[3])>>)
        IN <<SumOf(n, <<t1, t2>>), v[1], v[2], v[3], SumOf(n, <<v[4], t1>>), v[5], v[6], v[7]>>
  IN SumRows(n, H, Fold(Round, H, [t \in 1..rounds |-> t]))
=============================================================================
