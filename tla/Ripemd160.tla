------------------------------ MODULE Ripemd160 ------------------------------
(***************************************************************************)
(* ripemd160.c.  The count is of bytes, in two 32-bit words; the padding   *)
(* and the length go through the same update as the message, after the     *)
(* length has been read.                                                   *)
(***************************************************************************)
EXTENDS Words

CONSTANT TotalMod           \* a word of the byte count is a number modulo this

ripemd160_Init == [total |-> <<0, 0>>, state |-> State("ripemd160"), buffer |-> Zeros(B)]

\* Every word of a block is read with its first byte the least significant.
GET_UINT32_LE(data) == SwapWords(data)

ripemd160_process(st, data) == Compress(st, GET_UINT32_LE(data))

\* What is behind a message: as much of this as it takes.
ripemd160_padding == <<Bits({"80"})>> \o Zeros(B - 1)

ripemd160_Update(c, d) ==
  LET len   == Len(d)
      left  == c.total[1] % B
      fill  == B - left
      low   == (c.total[1] + len) % TotalMod
      total == <<low, IF low < len THEN (c.total[2] + 1) % TotalMod ELSE c.total[2]>>
      heads == left > 0 /\ len >= fill
      buf   == IF heads THEN Overlay(c.buffer, left, SubSeq(d, 1, fill)) ELSE c.buffer
      rest  == IF heads THEN SubSeq(d, fill + 1, len) ELSE d
      at    == IF heads THEN 0 ELSE left
      blocks == (IF heads THEN <<buf>> ELSE <<>>) \o Blocks(rest)
      kept  == SubSeq(rest, Len(Blocks(rest)) * B + 1, Len(rest))
  IN IF len = 0 THEN c
     ELSE [total  |-> total,
           state  |-> FoldLeft(ripemd160_process, c.state, blocks),
           buffer |-> Overlay(buf, at, kept)]

\* PUT_UINT32_LE
LittleEndian(v) == SwapWords(WordBytes(v))

\* The length in bits: the count of bytes three bits up, across both words.
ripemd160_Final(c) ==
  LET high == (c.total[1] \div (TotalMod \div 8) + 8 * c.total[2]) % TotalMod
      low  == (8 * c.total[1]) % TotalMod
      last == c.total[1] % B
      padn == IF last < ShortBlock THEN ShortBlock - last ELSE B + ShortBlock - last
      padded  == ripemd160_Update(c, SubSeq(ripemd160_padding, 1, padn))
      done    == ripemd160_Update(padded, LittleEndian(low) \o LittleEndian(high))
  IN SwapWords(StateBytes(done.state, DW))

ripemd160(d) == ripemd160_Final(ripemd160_Update(ripemd160_Init, d))

-----------------------------------------------------------------------------
(* What the standard says: as SHA-256, but little-endian throughout, the   *)
(* low word of the length first.                                           *)
Standard(d) ==
  LET bits  == 8 * Len(d)
      total == B * ((Len(d) + 1 + 2 * W + B - 1) \div B)
      text  == d \o <<Bits({"80"})>> \o Zeros(total - Len(d) - 1 - 2 * W)
                 \o LittleEndian(bits % TotalMod) \o LittleEndian((bits \div TotalMod) % TotalMod)
  IN SwapWords(StateBytes(FoldLeft(ripemd160_process, State("ripemd160"), Blocks(text)), DW))

-----------------------------------------------------------------------------
(* The two lines of a block, over words.  A step names the registers anew, *)
(* so that after one the register that was d is called e.                  *)

F(k, x, y, z) ==
  CASE k = 1 -> Xored(<<x, y, z>>)
    [] k = 2 -> (x \cap y) \cup (z \ x)
    [] k = 3 -> SymDiff(x \cup Not(32, y), z)
    [] k = 4 -> (x \cap z) \cup (y \ z)
    [] k = 5 -> SymDiff(x, y \cup Not(32, z))

LeftK  == WordsOf(2, <<0, 0, 23170, 31129, 28377, 60321, 36635, 48348, 43347, 64846>>)
RightK == WordsOf(2, <<20642, 35814, 23629, 53540, 28016, 16115, 31341, 30441, 0, 0>>)

LeftWords == <<
   0,  1,  2,  3,  4,  5,  6,  7,  8,  9, 10, 11, 12, 13, 14, 15,
   7,  4, 13,  1, 10,  6, 15,  3, 12,  0,  9,  5,  2, 14, 11,  8,
   3, 10, 14,  4,  9, 15,  8,  1,  2,  7,  0,  6, 13, 11,  5, 12,
   1,  9, 11, 10,  0,  8, 12,  4, 13,  3,  7, 15, 14,  5,  6,  2,
   4,  0,  5,  9,  7, 12,  2, 10, 14,  1,  3,  8, 11,  6, 15, 13 >>
LeftShifts == <<
  11, 14, 15, 12,  5,  8,  7,  9, 11, 13, 14, 15,  6,  7,  9,  8,
   7,  6,  8, 13, 11,  9,  7, 15,  7, 12, 15,  9, 11,  7, 13, 12,
  11, 13,  6,  7, 14,  9, 13, 15, 14,  8, 13,  6,  5, 12,  7,  5,
  11, 12, 14, 15, 14, 15,  9,  8,  9, 14,  5,  6,  8,  6,  5, 12,
   9, 15,  5, 11,  6,  8, 13, 12,  5, 12, 13, 14, 11,  8,  5,  6 >>
RightWords == <<
   5, 14,  7,  0,  9,  2, 11,  4, 13,  6, 15,  8,  1, 10,  3, 12,
   6, 11,  3,  7,  0, 13,  5, 10, 14, 15,  8, 12,  4,  9,  1,  2,
  15,  5,  1,  3,  7, 14,  6,  9, 11,  8, 12,  2, 10,  0,  4, 13,
   8,  6,  4,  1,  3, 11, 15,  0,  5, 12,  2, 13,  9,  7, 10, 14,
  12, 15, 10,  4,  1,  5,  8,  7,  6,  2, 13, 14,  0,  3,  9, 11 >>
RightShifts == <<
   8,  9,  9, 11, 13, 15, 15,  5,  7,  7,  8, 11, 14, 14, 12,  6,
   9, 13, 15,  7, 12,  8,  9, 11,  7,  7, 12,  7,  6, 15, 13, 11,
   9,  7, 15, 11,  8,  6,  6, 14, 12, 13,  5, 14, 13, 13,  7,  5,
  15,  5,  8, 11, 14, 14,  6, 14,  6,  9, 12,  9, 12,  5, 15,  8,
   8,  5, 12,  9, 12,  5, 14,  6,  8, 13,  6,  5, 15, 13, 11, 11 >>

\* Step j of a line, with the word, the shift, the function and the constant.
P(v, j, word, s, f, k) ==
  LET At(r) == ((r - 1 - j) % 5) + 1
      a == SumOf(32, <<v[At(1)], F(f, v[At(2)], v[At(3)], v[At(4)]), word, k>>)
  IN [v EXCEPT ![At(1)] = SumOf(32, <<Rotl(32, s, a), v[At(5)]>>), ![At(3)] = Rotl(32, 10, @)]

Line(state, X, words, shifts, functions, K) ==
  Fold(LAMBDA v, j : LET g == j \div 16 IN P(v, j, X[words[j + 1] + 1], shifts[j + 1], functions[g + 1], K[g + 1]),
       state, [j \in 1..80 |-> j - 1])

ripemd160_Words(state, X) ==
  LET Sums(l, r) == LET Sum(i, j, k) == SumOf(32, <<state[i], l[j], r[k]>>)
                    IN <<Sum(2, 3, 4), Sum(3, 4, 5), Sum(4, 5, 1), Sum(5, 1, 2), Sum(1, 2, 3)>>
  IN Sums(Line(state, X, LeftWords, LeftShifts, <<1, 2, 3, 4, 5>>, LeftK),
          Line(state, X, RightWords, RightShifts, <<5, 4, 3, 2, 1>>, RightK))

\* The paper: the words of a round come from those of the round before by a
\* permutation, those of the right line begin with another; a word is turned
\* by as much in both lines.
Rho == <<7, 4, 13, 1, 10, 6, 15, 3, 12, 0, 9, 5, 2, 14, 11, 8>>
WordTurns == <<<<11, 14, 15, 12, 5, 8, 7, 9, 11, 13, 14, 15, 6, 7, 9, 8>>,
               <<12, 13, 11, 15, 6, 9, 9, 7, 12, 15, 11, 13, 7, 8, 7, 7>>,
               <<13, 15, 14, 11, 7, 7, 6, 8, 13, 14, 13, 12, 5, 5, 6, 9>>,
               <<14, 11, 12, 14, 8, 6, 5, 5, 15, 12, 15, 14, 9, 9, 8, 6>>,
               <<15, 12, 13, 13, 9, 5, 8, 6, 14, 11, 12, 11, 8, 6, 5, 5>>>>

BitwiseF(k, x, y, z) ==
  {i \in 0..31 :
     CASE k = 1 -> (i \in x) # ((i \in y) # (i \in z))
       [] k = 2 -> IF i \in x THEN i \in y ELSE i \in z
       [] k = 3 -> (i \in y => i \in x) # (i \in z)
       [] k = 4 -> IF i \in z THEN i \in x ELSE i \in y
       [] k = 5 -> (i \in x) # (i \in z => i \in y)}

StandardLine(state, X, from, functions, K) ==
  LET order == Fold(LAMBDA rounds, g : Append(rounds, Evaluated([i \in 1..16 |-> Rho[Last(rounds)[i] + 1]])),
                    <<from>>, <<2, 3, 4, 5>>)
      Step(v, j) ==
        LET g == j \div 16 + 1
            w == order[g][(j % 16) + 1]
            t == SumOf(32, <<v[1], BitwiseF(functions[g], v[2], v[3], v[4]), X[w + 1], K[g]>>)
        IN <<v[5], SumOf(32, <<Rotl(32, WordTurns[g][w + 1], t), v[5]>>), v[2], Rotl(32, 10, v[3]), v[4]>>
  IN Fold(Step, state, [j \in 1..80 |-> j - 1])

RipemdStandard(state, X) ==
  LET l == StandardLine(state, X, [i \in 1..16 |-> i - 1], <<1, 2, 3, 4, 5>>, LeftK)
      r == StandardLine(state, X, [i \in 1..16 |-> (9 * (i - 1) + 5) % 16], <<5, 4, 3, 2, 1>>, RightK)
      Next(i, by) == ((i - 1 + by) % 5) + 1
  IN Evaluated([i \in 1..5 |-> SumOf(32, <<state[Next(i, 1)], l[Next(i, 2)], r[Next(i, 3)]>>)])
=============================================================================
