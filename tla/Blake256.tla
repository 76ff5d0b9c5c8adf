------------------------------ MODULE Blake256 ------------------------------
(***************************************************************************)
(* blake256.c.  Every compression takes the count of message bits hashed   *)
(* so far, so the final steps move the count back by the padding they are  *)
(* about to push through the update, which adds a block's bits each time.  *)
(***************************************************************************)
EXTENDS Words

CONSTANT CountMod           \* a word of the bit count is a number modulo this

blake256_Init ==
  [h |-> State("blake256"), t |-> <<0, 0>>, buflen |-> 0, nullt |-> FALSE, buf |-> Zeros(B)]

\* The count is left out of a block that is only padding.
blake256_compress(S, block) ==
  [S EXCEPT !.h = Compress(@, [text |-> block, count |-> IF S.nullt THEN <<0, 0>> ELSE S.t])]

\* S->t[0] += 512 and the carry; then the block.
CountAndCompress(S, block) ==
  LET low == (S.t[1] + 8 * B) % CountMod
      t   == <<low, IF low = 0 THEN (S.t[2] + 1) % CountMod ELSE S.t[2]>>
  IN blake256_compress([S EXCEPT !.t = t], block)

\* A fault: no bytes of data empty a buffer that holds some.
FaultyEmptyPiece(S, in) ==
  LET left  == S.buflen
      fill  == B - left
      heads == left > 0 /\ Len(in) >= fill
      buf   == IF heads THEN Overlay(S.buf, left, SubSeq(in, 1, fill)) ELSE S.buf
      rest  == IF heads THEN SubSeq(in, fill + 1, Len(in)) ELSE in
      at    == IF heads THEN 0 ELSE left
      kept  == SubSeq(rest, Len(Blocks(rest)) * B + 1, Len(rest))
      done  == FoldLeft(CountAndCompress, S, (IF heads THEN <<buf>> ELSE <<>>) \o Blocks(rest))
  IN [done EXCEPT !.buf = Overlay(buf, at, kept),
                  !.buflen = IF kept = <<>> THEN 0 ELSE at + Len(kept)]

blake256_Update(S, in) ==
  LET left  == S.buflen
      fill  == B - left
      heads == left > 0 /\ Len(in) >= fill
      buf   == IF heads THEN Overlay(S.buf, left, SubSeq(in, 1, fill)) ELSE S.buf
      rest  == IF heads THEN SubSeq(in, fill + 1, Len(in)) ELSE in
      at    == IF heads THEN 0 ELSE left
      kept  == SubSeq(rest, Len(Blocks(rest)) * B + 1, Len(rest))
      done  == FoldLeft(CountAndCompress, S, (IF heads THEN <<buf>> ELSE <<>>) \o Blocks(rest))
  IN IF in = <<>> THEN S
     ELSE [done EXCEPT !.buf = Overlay(buf, at, kept),
                       !.buflen = IF kept = <<>> THEN 0 ELSE at + Len(kept)]

\* S->t[0] -= n
Back(S, n) == [S EXCEPT !.t[1] = (@ - n) % CountMod]

NullT(S) == [S EXCEPT !.nullt = TRUE]

padding == <<Bits({"80"})>> \o Zeros(2 * B)

blake256_Final(S) ==
  LET room == ShortBlock - 1            \* 55 of 64
      lo == (S.t[1] + 8 * S.buflen) % CountMod
      hi == IF lo < 8 * S.buflen THEN (S.t[2] + 1) % CountMod ELSE S.t[2]
      zo == <<Bits({"01"})>>
      oo == <<Bits({"80", "01"})>>
      Mark(X) == Back(blake256_Update(X, zo), 8)
      oneByte == blake256_Update(Back(S, 8), oo)
      fits ==
        LET X == IF S.buflen = 0 THEN NullT(S) ELSE S
        IN Mark(blake256_Update(Back(X, 8 * (room - S.buflen)), SubSeq(padding, 1, room - S.buflen)))
      twoBlocks ==
        LET X == blake256_Update(Back(S, 8 * (B - S.buflen)), SubSeq(padding, 1, B - S.buflen))
        IN Mark(NullT(blake256_Update(Back(X, 8 * room), SubSeq(padding, 2, room + 1))))
      padded == IF S.buflen = room THEN oneByte ELSE IF S.buflen < room THEN fits ELSE twoBlocks
      done == blake256_Update(Back(padded, 8 * 2 * W), WordBytes(hi) \o WordBytes(lo))
  IN StateBytes(done.h, DW)

blake256(d) == blake256_Final(blake256_Update(blake256_Init, d))

-----------------------------------------------------------------------------
(* What the standard says: a 1 bit, zeros, a 1 bit just before the length, *)
(* the length; each block with the count of message bits up to its end, or *)
(* none if it holds no bit of the message.                                 *)
Standard(d) ==
  LET n     == Len(d)
      total == B * ((n + 1 + 2 * W + B - 1) \div B)
      padn  == total - n - 2 * W
      pad   == IF padn = 1 THEN <<Bits({"80", "01"})>>
               ELSE <<Bits({"80"})>> \o Zeros(padn - 2) \o <<Bits({"01"})>>
      text  == d \o pad \o WordBytes(((8 * n) \div CountMod) % CountMod) \o WordBytes((8 * n) % CountMod)
      seen(k) == IF n <= (k - 1) * B THEN 0 ELSE 8 * (IF n < k * B THEN n ELSE k * B)
      ins == [k \in 1..(total \div B) |->
                [text |-> Block(text, k), count |-> <<seen(k) % CountMod, seen(k) \div CountMod>>]]
  IN StateBytes(CompressAll(State("blake256"), ins), DW)

-----------------------------------------------------------------------------
(* The compression of one block, over words; s is the salt, which no       *)
(* caller sets.                                                            *)

u256 == WordsOf(2, <<
   9279, 27272, 34211,  2259,  4889, 35374,   880, 29508, 41993, 14370, 10655, 12752,  2094, 64152, 60494, 27785,
  17704,  8678, 14544,  4983, 48724, 26319, 13545,  3180, 49324, 10679, 51580, 20701, 16260, 54709, 46407,  2327 >>)

sigma == [i \in 1..14 |-> SigmaRows[((i - 1) % 10) + 1]]

Rotations == <<16, 12, 8, 7>>

Counted(nullt, t) == IF nullt THEN <<{}, {}, {}, {}>> ELSE <<t[1], t[1], t[2], t[2]>>

blake256_Words(h, m, s, t, nullt) ==
  LET u == u256
      v == h \o XorRows(s, SubSeq(u, 1, 4)) \o XorRows(SubSeq(u, 5, 8), Counted(nullt, t))
      Mixing(x, row) ==
        ROUND(32, Rotations, x, [i \in 1..8 |-> SymDiff(m[row[2 * i - 1] + 1], u[row[2 * i] + 1])],
                                [i \in 1..8 |-> SymDiff(m[row[2 * i] + 1], u[row[2 * i - 1] + 1])])
      Ended(x) == XorRows(XorRows(XorRows(h, SubSeq(x, 1, 8)), SubSeq(x, 9, 16)), s \o s)
  IN Ended(Fold(Mixing, v, Evaluated(sigma)))

Blake256Standard(h, m, s, t, nullt) ==
  LET u == u256
      given == s \o (IF nullt THEN <<{}, {}, {}, {}>> ELSE <<t[1], t[1], t[2], t[2]>>)
      v == h \o Evaluated([i \in 1..8 |-> SymDiff(given[i], u[i])])
      Mixing(x, r) ==
        LET row == SigmaRows[((r - 1) % 10) + 1]
        IN StandardRound(32, Rotations, x, [i \in 1..8 |-> SymDiff(m[row[2 * i - 1] + 1], u[row[2 * i] + 1])],
                                           [i \in 1..8 |-> SymDiff(m[row[2 * i] + 1], u[row[2 * i - 1] + 1])])
      Ended(x) == Evaluated([i \in 1..8 |-> Xored(<<h[i], s[((i - 1) % 4) + 1], x[i], x[i + 8]>>)])
  IN Ended(Fold(Mixing, v, [r \in 1..14 |-> r]))
=============================================================================
