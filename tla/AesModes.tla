------------------------------ MODULE AesModes ------------------------------
(***************************************************************************)
(* aes_modes.c: ECB, CBC, CFB, OFB and CTR over data that comes in pieces. *)
(* The block cipher itself is an unknown permutation.  A byte is the set   *)
(* of the tokens that were XORed into it.                                  *)
(*                                                                         *)
(* CFB, OFB and CTR take pieces of any length: inf.b[2] of the context is  *)
(* the position inside the block where the last piece stopped.             *)
(***************************************************************************)
EXTENDS Integers, Sequences, SequencesExt, Folds, FiniteSetsExt

CONSTANTS
  AES_BLOCK_SIZE,
  BFR_BLOCKS,          \* blocks of key stream aes_ctr_crypt makes at once
  ByteMod              \* a byte of the counter is a number modulo this

Plain(i) == {<<"m", i>>}

XorSeq(a, b) == [i \in DOMAIN a |-> SymDiff(a[i], b[i])]

CutBlocks(d) ==
  [k \in 1..(Len(d) \div AES_BLOCK_SIZE) |->
     SubSeq(d, (k - 1) * AES_BLOCK_SIZE + 1, k * AES_BLOCK_SIZE)]

Put(buf, at, d) ==
  [i \in DOMAIN buf |-> IF i \in (at + 1)..(at + Len(d)) THEN d[i - at] ELSE buf[i]]

\* The two directions of one key: each undoes the other.
Cipher(tag, undo, in) ==
  LET made(x) == [i \in 1..AES_BLOCK_SIZE |-> {<<undo, x, i>>}]
      inner == IF \E t \in in[1] : in[1] = {t} /\ t[1] = undo
               THEN (CHOOSE t \in in[1] : TRUE)[2] ELSE <<>>
  IN IF inner # <<>> /\ in = made(inner) THEN inner
     ELSE [i \in 1..AES_BLOCK_SIZE |-> {<<tag, in, i>>}]

aes_encrypt(in) == Cipher("e", "d", in)
aes_decrypt(in) == Cipher("d", "e", in)

\* The iv or counter of the caller, the position, what went out, the return.
Open(iv) == [iv |-> iv, pos |-> 0, out |-> <<>>, ok |-> TRUE]

aes_mode_reset(s) == [s EXCEPT !.pos = 0]

Refuse(s) == [s EXCEPT !.ok = FALSE]

Aligned(d) == Len(d) % AES_BLOCK_SIZE = 0

-----------------------------------------------------------------------------
(* ECB and CBC: whole blocks, or EXIT_FAILURE and nothing done *)

aes_ecb_encrypt(s, d) ==
  IF ~Aligned(d) THEN Refuse(s)
  ELSE [s EXCEPT !.out = @ \o FlattenSeq([k \in DOMAIN CutBlocks(d) |-> aes_encrypt(CutBlocks(d)[k])])]

aes_ecb_decrypt(s, d) ==
  IF ~Aligned(d) THEN Refuse(s)
  ELSE [s EXCEPT !.out = @ \o FlattenSeq([k \in DOMAIN CutBlocks(d) |-> aes_decrypt(CutBlocks(d)[k])])]

aes_cbc_encrypt(s, d) ==
  LET Step(x, b) == LET c == aes_encrypt(XorSeq(x.iv, b))
                    IN [x EXCEPT !.iv = c, !.out = @ \o c]
  IN IF Aligned(d) THEN FoldLeft(Step, s, CutBlocks(d)) ELSE Refuse(s)

aes_cbc_decrypt(s, d) ==
  LET Step(x, b) == [x EXCEPT !.iv = b, !.out = @ \o XorSeq(aes_decrypt(b), x.iv)]
  IN IF Aligned(d) THEN FoldLeft(Step, s, CutBlocks(d)) ELSE Refuse(s)

-----------------------------------------------------------------------------
(* CFB and OFB: finish the block in progress, whole blocks, begin a block *)

Wrapped(s) == [s EXCEPT !.pos = IF @ = AES_BLOCK_SIZE THEN 0 ELSE @]

\* What of d goes to the block in progress.
Ahead(s, d) == IF s.pos = 0 THEN 0 ELSE Min({AES_BLOCK_SIZE - s.pos, Len(d)})
Begin(s, d) == SubSeq(d, 1, Ahead(s, d))
Rest(s, d)  == SubSeq(d, Ahead(s, d) + 1, Len(d))

\* d in blocks, of which the last may be short.
Chunks(d) ==
  [k \in 1..((Len(d) + AES_BLOCK_SIZE - 1) \div AES_BLOCK_SIZE) |->
     SubSeq(d, (k - 1) * AES_BLOCK_SIZE + 1, Min({k * AES_BLOCK_SIZE, Len(d)}))]

\* Bytes(x, d): d, which ends inside the current block, through iv from pos on.
InBlocks(Bytes(_, _), s, blocks) ==
  FoldLeft(LAMBDA x, b : Wrapped(Bytes([x EXCEPT !.iv = aes_encrypt(@)], b)), s, blocks)

InPieces(Bytes(_, _), s, d) ==
  InBlocks(Bytes, Wrapped(Bytes(s, Begin(s, d))), Chunks(Rest(s, d)))

At(s, d) == SubSeq(s.iv, s.pos + 1, s.pos + Len(d))

\* Cipher text c goes into the block, out goes out.
FedBack(s, c, out) == [s EXCEPT !.iv = Put(@, s.pos, c), !.pos = @ + Len(c), !.out = @ \o out]

aes_cfb_encrypt(s, d) ==
  InPieces(LAMBDA x, p : FedBack(x, XorSeq(p, At(x, p)), XorSeq(p, At(x, p))), s, d)

aes_cfb_decrypt(s, d) == InPieces(LAMBDA x, c : FedBack(x, c, XorSeq(c, At(x, c))), s, d)

aes_ofb_crypt(s, d) ==
  LET Bytes(x, p) == [x EXCEPT !.pos = @ + Len(p), !.out = @ \o XorSeq(p, At(x, p))]
  IN InPieces(Bytes, s, d)

-----------------------------------------------------------------------------
(* CTR: the counter is not encrypted in place, so that a block in progress *)
(* is made again from it; it moves on only when its block is used up and   *)
(* more data come.                                                         *)

\* One more, from the last byte up to the first that does not overflow.
aes_ctr_cbuf_inc(cbuf) ==
  LET i == Max({0} \cup {j \in 1..AES_BLOCK_SIZE : cbuf[j] # ByteMod - 1})
  IN [j \in 1..AES_BLOCK_SIZE |-> IF j > i THEN 0 ELSE IF j = i THEN cbuf[j] + 1 ELSE cbuf[j]]

Stream(cbuf) == aes_encrypt([j \in 1..AES_BLOCK_SIZE |-> {<<"c", cbuf[j]>>}])

BFR_LENGTH == BFR_BLOCKS * AES_BLOCK_SIZE

\* What is behind the whole blocks of d.
End(d) == SubSeq(d, (Len(d) \div AES_BLOCK_SIZE) * AES_BLOCK_SIZE + 1, Len(d))

CtrBlocks(s, blocks) ==
  FoldLeft(LAMBDA x, b : [x EXCEPT !.iv = aes_ctr_cbuf_inc(@), !.out = @ \o XorSeq(b, Stream(x.iv))], s, blocks)

\* d inside the block of the counter, from pos on.
CtrTail(s, d) ==
  [s EXCEPT !.out = @ \o XorSeq(d, SubSeq(Stream(s.iv), s.pos + 1, s.pos + Len(d))), !.pos = @ + Len(d)]

\* A bufferful of blen bytes: whole blocks, each with the next counter, and
\* the beginning of one more, whose counter stays.
CtrBuffer(s, p) ==
  CtrTail(CtrBlocks(s, CutBlocks(p)), End(p))

Fills(d) ==
  [k \in 1..((Len(d) + BFR_LENGTH - 1) \div BFR_LENGTH) |->
     SubSeq(d, (k - 1) * BFR_LENGTH + 1, Min({k * BFR_LENGTH, Len(d)}))]

\* The block in progress, if there is one, is left when more data come.
CtrFrom(s, begun, rest) ==
  FoldLeft(CtrBuffer, IF begun /\ rest # <<>> THEN [s EXCEPT !.iv = aes_ctr_cbuf_inc(@), !.pos = 0] ELSE s,
           Fills(rest))

aes_ctr_crypt(s, d) == CtrFrom(CtrTail(s, Begin(s, d)), s.pos # 0, Rest(s, d))

-----------------------------------------------------------------------------
(* What the modes are, of the whole text at once; the last block may be    *)
(* short where the mode allows it.                                         *)

\* Counter block k counts from the iv as one number, modulo its size.
CounterValue(c) == FoldLeft(LAMBDA v, x : v * ByteMod + x, 0, c)

CounterBlock(iv, k) ==
  LET v == CounterValue(iv) + k
  IN [j \in 1..AES_BLOCK_SIZE |-> (v \div (ByteMod^(AES_BLOCK_SIZE - j))) % ByteMod]

\* c is the cipher block for p, the k-th block, prev the cipher block or the
\* block of key stream before it.
StandardMode(mode, iv, d) ==
  LET Step(x, k) ==
        LET p == Chunks(d)[k]
            e == aes_encrypt(x.prev)
            c == CASE mode \in {"cfb_enc", "cfb_dec", "ofb"} -> XorSeq(p, e)
                   [] mode = "ctr" -> XorSeq(p, Stream(CounterBlock(iv, k - 1)))
                   [] mode = "cbc_enc" -> aes_encrypt(XorSeq(p, x.prev))
                   [] mode = "cbc_dec" -> XorSeq(aes_decrypt(p), x.prev)
                   [] mode = "ecb_enc" -> aes_encrypt(p)
                   [] mode = "ecb_dec" -> aes_decrypt(p)
        IN [out  |-> x.out \o c,
            prev |-> CASE mode \in {"cfb_enc", "cbc_enc"} -> c
                       [] mode = "ofb" -> e
                       [] OTHER -> p]
  IN FoldLeft(Step, [out |-> <<>>, prev |-> iv], [k \in DOMAIN Chunks(d) |-> k]).out
=============================================================================
