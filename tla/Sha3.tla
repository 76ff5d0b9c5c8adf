-------------------------------- MODULE Sha3 --------------------------------
(***************************************************************************)
(* sha3.c: SHA3 and Keccak over one context.  There is no count: rest says *)
(* how many bytes wait in message, and the padding takes the rest of the   *)
(* block, its first and last bit in one byte when a single byte is left.   *)
(***************************************************************************)
EXTENDS HashBlocks

keccak_Init == [hash |-> State("keccak"), message |-> Zeros(B), rest |-> 0]

\* The kinds differ in the length of a block and of the digest alone, which
\* are parameters here.
sha3_256_Init == keccak_Init
sha3_512_Init == keccak_Init

\* The state with a block in it, through the rounds of theta, pi and chi.
sha3_permutation(st, block) == Compress(st, block)

sha3_process_block(st, block) == sha3_permutation(st, block)

\* A whole block is compressed where the caller has it when it is aligned,
\* and copied into message first when it is not.
sha3_Update(c, d, aligned) ==
  LET idx  == c.rest
      left == B - idx
      size == Len(d)
      head == IF size < left THEN d ELSE SubSeq(d, 1, left)
      msg0 == IF idx > 0 THEN Overlay(c.message, idx, head) ELSE c.message
      rest == IF idx > 0 THEN SubSeq(d, left + 1, size) ELSE d
      whole == Blocks(rest)
      msg1 == IF whole = <<>> \/ aligned THEN msg0 ELSE Last(whole)
      kept == SubSeq(rest, Len(whole) * B + 1, Len(rest))
      short == idx > 0 /\ size < left
  IN [rest    |-> (c.rest + size) % B,
      message |-> IF short THEN msg0 ELSE Overlay(msg1, 0, kept),
      hash    |-> IF short THEN c.hash
                  ELSE FoldLeft(sha3_process_block, c.hash,
                                (IF idx > 0 THEN <<msg0>> ELSE <<>>) \o whole)]

\* byte at + 1 of buf |= the constant c
OrByte(buf, at, c) == [buf EXCEPT ![at + 1] = Bits(@[2] \cup {c})]

Finish(c, first) ==
  LET clear == Overlay(c.message, c.rest, Zeros(B - c.rest))
      last  == OrByte(OrByte(clear, c.rest, first), B - 1, "80")
  IN StateBytes(sha3_process_block(c.hash, last), DW)

sha3_Final(c)   == Finish(c, "06")
keccak_Final(c) == Finish(c, "01")

sha3_256(d)   == sha3_Final(sha3_Update(sha3_256_Init, d, TRUE))
keccak_256(d) == keccak_Final(sha3_Update(sha3_256_Init, d, TRUE))

sha3_512(d)   == sha3_Final(sha3_Update(sha3_512_Init, d, TRUE))
keccak_512(d) == keccak_Final(sha3_Update(sha3_512_Init, d, TRUE))

-----------------------------------------------------------------------------
(* What the standard says: the message, the suffix with the first bit of   *)
(* the padding, zeros, the last bit, to a whole number of blocks, at least *)
(* one byte of it padding.                                                 *)
Standard(d, first) ==
  LET padn == B - (Len(d) % B)
      pad  == IF padn = 1 THEN <<Bits({first, "80"})>>
              ELSE <<Bits({first})>> \o Zeros(padn - 2) \o <<Bits({"80"})>>
  IN StateBytes(FoldLeft(sha3_process_block, State("keccak"), Blocks(d \o pad)), DW)
=============================================================================
