------------------------------- MODULE Blake2 -------------------------------
(***************************************************************************)
(* blake2b.c and blake2s.c.  The last block goes in with a mark of its     *)
(* own, so a full buffer waits until more bytes show that it is not the    *)
(* last.  A key is a first block of its own, filled up with zeros.         *)
(***************************************************************************)
EXTENDS Words

CONSTANT OffsetMod          \* a word of the byte count is a number modulo this

blake2_init_param(param) ==
  [h |-> State(param), t |-> <<0, 0>>, f |-> <<FALSE, FALSE>>, last_node |-> FALSE,
   buf |-> Zeros(B), buflen |-> 0]

\* The marks: of the last block, and of the last node of a tree, which no
\* caller has.
blake2_set_lastnode(S)  == [S EXCEPT !.f[2] = TRUE]
blake2_is_lastblock(S)  == S.f[1]
blake2_set_lastblock(S) == [(IF S.last_node THEN blake2_set_lastnode(S) ELSE S) EXCEPT !.f[1] = TRUE]

\* t[0] += inc; t[1] += ( t[0] < inc )
blake2_increment_counter(S, inc) ==
  LET low == (S.t[1] + inc) % OffsetMod
  IN [S EXCEPT !.t = <<low, IF low < inc THEN (S.t[2] + 1) % OffsetMod ELSE S.t[2]>>]

blake2_compress(S, block) ==
  [S EXCEPT !.h = Compress(@, [text |-> block, count |-> S.t, f |-> S.f])]

blake2b_Update(S, in) ==
  LET fill  == B - S.buflen
      full  == Overlay(S.buf, S.buflen, SubSeq(in, 1, fill))
      rest  == SubSeq(in, fill + 1, Len(in))
      whole == (Len(rest) - 1) \div B          \* the last one waits, full or not
      ins   == <<full>> \o [k \in 1..whole |-> Block(rest, k)]
      Step(X, block) == blake2_compress(blake2_increment_counter(X, B), block)
      kept  == SubSeq(rest, whole * B + 1, Len(rest))
  IN IF Len(in) <= fill
     THEN [S EXCEPT !.buf = Overlay(@, S.buflen, in), !.buflen = @ + Len(in)]
     ELSE [FoldLeft(Step, S, ins) EXCEPT !.buf = Overlay(full, 0, kept), !.buflen = Len(kept)]

blake2b_Final(S) ==
  LET counted == blake2_increment_counter(S, S.buflen)
      text == Overlay(S.buf, S.buflen, Zeros(B - S.buflen))
      done == blake2_compress(blake2_set_lastblock(counted), text)
  IN IF blake2_is_lastblock(S) THEN <<>> ELSE StateBytes(done.h, DW)

blake2b_Init(outlen) == blake2_init_param(<<outlen, 0, "none">>)

blake2b_InitPersonal(outlen, personal) == blake2_init_param(<<outlen, 0, personal>>)

blake2b_InitKey(outlen, key) ==
  blake2b_Update(blake2_init_param(<<outlen, Len(key), "none">>), key \o Zeros(B - Len(key)))

blake2b(d, outlen) == blake2b_Final(blake2b_Update(blake2b_Init(outlen), d))

blake2b_Key(d, key, outlen) == blake2b_Final(blake2b_Update(blake2b_InitKey(outlen, key), d))

\* blake2s.c is the same code on words of half the size.
blake2s_Update(S, in) == blake2b_Update(S, in)
blake2s_Final(S) == blake2b_Final(S)
blake2s_Init(outlen) == blake2_init_param(<<outlen, 0, "none">>)
blake2s_InitPersonal(outlen, personal) == blake2_init_param(<<outlen, 0, personal>>)
blake2s_InitKey(outlen, key) ==
  blake2s_Update(blake2_init_param(<<outlen, Len(key), "none">>), key \o Zeros(B - Len(key)))
blake2s(d, outlen) == blake2s_Final(blake2s_Update(blake2s_Init(outlen), d))
blake2s_Key(d, key, outlen) == blake2s_Final(blake2s_Update(blake2s_InitKey(outlen, key), d))

-----------------------------------------------------------------------------
(* What the standard says: the key's block before the message, zeros to    *)
(* the end of the last block (a block of zeros for no input at all), each  *)
(* block with the count of bytes up to its end, only the last one marked.  *)
Standard(param, key, d) ==
  LET text  == IF key = <<>> THEN d ELSE key \o Zeros(B - Len(key)) \o d
      n     == Len(text)
      total == IF n = 0 THEN B ELSE B * ((n + B - 1) \div B)
      last  == total \div B
      seen(k) == IF k = last THEN n ELSE k * B
      ins == [k \in 1..last |->
                [text  |-> Block(text \o Zeros(total - n), k),
                 count |-> <<seen(k) % OffsetMod, seen(k) \div OffsetMod>>,
                 f     |-> <<k = last, FALSE>>]]
  IN StateBytes(CompressAll(State(param), ins), DW)

-----------------------------------------------------------------------------
(* The compression of one block, over words: h is the state, m the block,  *)
(* t the count of bytes and f the marks of the last block.                 *)

BLAKE2B == [n |-> 64, IV |-> IV512, R |-> <<32, 24, 16, 63>>, sigma |-> SigmaRows \o SubSeq(SigmaRows, 1, 2)]
BLAKE2S == [n |-> 32, IV |-> IV256, R |-> <<16, 12, 8, 7>>, sigma |-> SigmaRows]

Blake2Words(z, h, m, t, f) ==
  LET v == h \o SubSeq(z.IV, 1, 4) \o XorRows(SubSeq(z.IV, 5, 8), t \o f)
      Mixing(u, row) == ROUND(z.n, z.R, u, [i \in 1..8 |-> m[row[2 * i - 1] + 1]], [i \in 1..8 |-> m[row[2 * i] + 1]])
      Ended(u) == XorRows(XorRows(h, SubSeq(u, 1, 8)), SubSeq(u, 9, 16))
  IN Ended(Fold(Mixing, v, z.sigma))

blake2b_Words(h, m, t, f) == LET z == BLAKE2B IN Blake2Words(z, h, m, t, f)
blake2s_Words(h, m, t, f) == LET z == BLAKE2S IN Blake2Words(z, h, m, t, f)

\* The state that a digest of outlen bytes begins with, no key given: the
\* first word of the parameters is outlen, no key, fanout 1, depth 1.
InitWords(IV, outlen) == [IV EXCEPT ![1] = SymDiff(@, OfDigits(<<257, outlen>>))]
blake2b_InitWords(outlen) == InitWords(IV512, outlen)
blake2s_InitWords(outlen) == InitWords(IV256, outlen)

Blake2Standard(z, h, m, t, f) ==
  LET v == h \o Evaluated([i \in 1..8 |-> IF i > 4 THEN SymDiff(z.IV[i], (t \o f)[i - 4]) ELSE z.IV[i]])
      Mixing(u, row) ==
        StandardRound(z.n, z.R, u, [i \in 1..8 |-> m[row[2 * i - 1] + 1]], [i \in 1..8 |-> m[row[2 * i] + 1]])
      Ended(u) == Evaluated([i \in 1..8 |-> Xored(<<h[i], u[i], u[i + 8]>>)])
  IN Ended(Fold(Mixing, v, z.sigma))
=============================================================================
