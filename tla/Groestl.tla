------------------------------- MODULE Groestl -------------------------------
(***************************************************************************)
(* groestl.c: Groestl-512.  The padding ends with the number of blocks, of *)
(* which one or two are the padding's own; closing a context opens it      *)
(* again, its buffer as it was.                                            *)
(*                                                                         *)
(* In a stream of blocks both permutations are unknown.  What they are is  *)
(* said, and compared with the standard, at the end: a block is 16 columns *)
(* of 8 bytes, a byte is as in Aes, and a word is four bytes.              *)
(***************************************************************************)
EXTENDS HashBlocks, Aes

\* Both permutations of a block, and the one of the state at the end.
COMPRESS_BIG(st, block) == Compress(st, block)
FINAL_BIG(st) == Compress(st, "final")

groestl_big_init(buf) == [buf |-> buf, ptr |-> 0, state |-> State("groestl512"), count |-> 0]

groestl512_Init == groestl_big_init(Zeros(B))

\* Whatever does not fill the block is only copied; otherwise the buffer is
\* filled and compressed over and over, and the rest waits in it.
groestl512_Update(sc, d) ==
  LET clen == B - sc.ptr
      rest == SubSeq(d, clen + 1, Len(d))
      full == <<Overlay(sc.buf, sc.ptr, SubSeq(d, 1, clen))>> \o Blocks(rest)
      kept == SubSeq(rest, Len(Blocks(rest)) * B + 1, Len(rest))
  IN IF Len(d) < clen
     THEN [sc EXCEPT !.buf = Overlay(@, sc.ptr, d), !.ptr = @ + Len(d)]
     ELSE [buf   |-> Overlay(Last(full), 0, kept),
           ptr   |-> Len(kept),
           state |-> FoldLeft(COMPRESS_BIG, sc.state, full),
           count |-> sc.count + Len(full)]

\* The digest, and the context ready for the next message.
groestl_big_close(sc) ==
  LET own == IF sc.ptr < ShortBlock THEN 1 ELSE 2
      padLen == own * B - sc.ptr
      pad == <<Bits({"80"})>> \o Zeros(padLen - 1 - 2 * W)
               \o WordBytes(0) \o WordBytes(sc.count + own)
      done == groestl512_Update(sc, pad)
      final == FINAL_BIG(done.state)
  IN [digest |-> StateBytes(final, 2 * DW), ctx |-> groestl_big_init(done.buf)]

groestl512_Final(sc) == groestl_big_close(sc).digest

\* The second pass uses the context the first one left.
groestl512_DoubleTrunc(sc) ==
  LET first == groestl_big_close(sc)
      again == groestl512_Update(first.ctx, first.digest)
  IN SubSeq(groestl512_Final(again), 1, DW * W)

-----------------------------------------------------------------------------
(* What the standard says, of the whole message. *)
Standard(d) ==
  LET total == B * ((Len(d) + 1 + 2 * W + B - 1) \div B)
      text == d \o <<Bits({"80"})>> \o Zeros(total - Len(d) - 1 - 2 * W)
                \o WordBytes(0) \o WordBytes(total \div B)
  IN StateBytes(Compress(CompressAll(State("groestl512"), Blocks(text)), "final"), 2 * DW)
-----------------------------------------------------------------------------
(* The permutations, by tables of words *)

Times5(x) == Xor8(f4(x), x)
Times7(x) == Xor8(Xor8(f4(x), f2(x)), x)

T0up == [x \in Byte |-> LET s == t_sbox[x] IN bytes2word(f2(s), Times7(s), Times5(s), f3(s))]
T0dn == [x \in Byte |-> LET s == t_sbox[x] IN bytes2word(Times5(s), f4(s), f3(s), f2(s))]
T1up == [x \in Byte |-> LET s == t_sbox[x] IN bytes2word(f2(s), f2(s), Times7(s), Times5(s))]
T1dn == [x \in Byte |-> LET s == t_sbox[x] IN bytes2word(f3(s), Times5(s), f4(s), f3(s))]

R32u(u, d) == bytes2word(d[3], d[4], u[1], u[2])
R32d(u, d) == bytes2word(u[3], u[4], d[1], d[2])

XorWords(words) == FoldLeft(Xor32, bytes2word({}, {}, {}, {}), words)

\* A column from eight bytes, one of each row.
RBTT(b0, b1, b2, b3, b4, b5, b6, b7) ==
  XorWords(<<T0up[b0], T1up[b1], R32u(T0up[b2], T0dn[b2]), R32u(T1up[b3], T1dn[b3]),
             T0dn[b4], T1dn[b5], R32d(T0up[b6], T0dn[b6]), R32d(T1up[b7], T1dn[b7])>>)
  \o XorWords(<<T0dn[b0], T1dn[b1], R32d(T0up[b2], T0dn[b2]), R32d(T1up[b3], T1dn[b3]),
                T0up[b4], T1up[b5], R32u(T0up[b6], T0dn[b6]), R32u(T1up[b7], T1dn[b7])>>)

Sixteen(F(_)) == Evaluated([c \in 1..16 |-> F(c - 1)])

All8 == 0..7
PC32(j, r) == BitsOfByte[16 * j + r]

\* Column c of t from the rows of a, each in a column of its own.
ROUND_BIG_P(a, r) ==
  LET b == Sixteen(LAMBDA j : [a[j + 1] EXCEPT ![1] = Xor8(@, PC32(j, r))])
      At(row, c) == b[(c % 16) + 1][row + 1]
  IN Sixteen(LAMBDA c : RBTT(At(0, c), At(1, c + 1), At(2, c + 2), At(3, c + 3),
                             At(4, c + 4), At(5, c + 5), At(6, c + 6), At(7, c + 11)))

ROUND_BIG_Q(a, r) ==
  LET b == Sixteen(LAMBDA j : Evaluated([row \in 1..8 |->
             Xor8(a[j + 1][row], IF row = 8 THEN Xor8(BitsOfByte[r], All8 \ BitsOfByte[16 * j]) ELSE All8)]))
      At(row, c) == b[(c % 16) + 1][row + 1]
  IN Sixteen(LAMBDA c : RBTT(At(0, c + 1), At(1, c + 3), At(2, c + 5), At(3, c + 11),
                             At(4, c), At(5, c + 2), At(6, c + 4), At(7, c + 6)))

GroestlRounds == [r \in 1..14 |-> r - 1]
PERM_BIG_P(a) == Fold(ROUND_BIG_P, a, GroestlRounds)
PERM_BIG_Q(a) == Fold(ROUND_BIG_Q, a, GroestlRounds)

XorColumns(a, b) == Sixteen(LAMBDA c : Evaluated([row \in 1..8 |-> Xor8(a[c + 1][row], b[c + 1][row])]))

\* H after the block m, and at the end.
CompressColumns(H, m) == XorColumns(H, XorColumns(PERM_BIG_P(XorColumns(m, H)), PERM_BIG_Q(m)))
FinalColumns(H) == XorColumns(H, PERM_BIG_P(H))

-----------------------------------------------------------------------------
(* The permutations in the standard's terms *)

\* circ(02, 02, 03, 04, 05, 03, 05, 07)
Circulant == <<{1}, {1}, {0, 1}, {2}, {0, 2}, {0, 1}, {0, 2}, {0, 1, 2}>>

Scaled(k, x) == Xor8(Xor8(IF 0 \in k THEN x ELSE {}, IF 1 \in k THEN f2(x) ELSE {}), IF 2 \in k THEN f4(x) ELSE {})

MixBytes(column) ==
  Evaluated([i \in 1..8 |->
    FoldLeft(Xor8, {}, [j \in 1..8 |-> Scaled(Circulant[((j - i) % 8) + 1], column[j])])])

StandardRound(a, shifts, Constant(_, _)) ==
  Sixteen(LAMBDA c : MixBytes(Evaluated([row \in 1..8 |->
    LET from == (c + shifts[row]) % 16 IN t_sbox[Xor8(a[from + 1][row], Constant(row, from))]])))

StandardP(a) ==
  Fold(LAMBDA b, r : StandardRound(b, <<0, 1, 2, 3, 4, 5, 6, 11>>,
                                   LAMBDA row, c : IF row = 1 THEN Xor8(BitsOfByte[16 * c], BitsOfByte[r]) ELSE {}),
       a, GroestlRounds)
StandardQ(a) ==
  Fold(LAMBDA b, r : StandardRound(b, <<1, 3, 5, 11, 0, 2, 4, 6>>,
                                   LAMBDA row, c : IF row = 8 THEN Xor8(All8, Xor8(BitsOfByte[16 * c], BitsOfByte[r])) ELSE All8),
       a, GroestlRounds)

StandardCompress(H, m) == XorColumns(XorColumns(StandardP(XorColumns(H, m)), StandardQ(m)), H)
StandardEnd(H) == XorColumns(StandardP(H), H)
=============================================================================
