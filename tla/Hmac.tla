-------------------------------- MODULE Hmac ---------------------------------
(***************************************************************************)
(* hmac.c: HMAC over SHA-256 and SHA-512, and the two half-hashed pads     *)
(* that PBKDF2 starts every step from instead.                             *)
(***************************************************************************)
EXTENDS Sha2

\* The key in a block: hashed first when it is longer than one.
Pad(raw, key) ==
  LET k == IF Len(key) > B THEN raw ELSE key
  IN k \o Zeros(B - Len(k))

Sha256Keyed(pad) == [o_key_pad |-> XorAll("5c", pad), ctx |-> sha256_Update(sha256_Init, XorAll("36", pad))]
Sha512Keyed(pad) == [o_key_pad |-> XorAll("5c", pad), ctx |-> sha512_Update(sha512_Init, XorAll("36", pad))]

hmac_sha256_Init(key) == Sha256Keyed(Pad(sha256_Raw(key), key))
hmac_sha512_Init(key) == Sha512Keyed(Pad(sha512_Raw(key), key))

hmac_sha256_Update(h, msg) == [h EXCEPT !.ctx = sha256_Update(@, msg)]
hmac_sha512_Update(h, msg) == [h EXCEPT !.ctx = sha512_Update(@, msg)]

hmac_sha256_Final(h) ==
  sha256_Final(sha256_Update(sha256_Update(sha256_Init, h.o_key_pad), sha256_Final(h.ctx)))

hmac_sha512_Final(h) ==
  sha512_Final(sha512_Update(sha512_Update(sha512_Init, h.o_key_pad), sha512_Final(h.ctx)))

hmac_sha256(key, msg) == hmac_sha256_Final(hmac_sha256_Update(hmac_sha256_Init(key), msg))
hmac_sha512(key, msg) == hmac_sha512_Final(hmac_sha512_Update(hmac_sha512_Init(key), msg))

\* The states after one pad each: the key turned to host order with the
\* outer constant, which is then taken off for the inner one.
Prepared(iv, outer) ==
  [odig |-> Transform(State(iv), outer),
   idig |-> Transform(State(iv), XorAll("36", XorAll("5c", outer)))]

hmac_sha256_prepare(key) == Prepared("sha256", XorAll("5c", SwapWords(Pad(sha256_Raw(key), key))))
hmac_sha512_prepare(key) == Prepared("sha512", XorAll("5c", SwapWords(Pad(sha512_Raw(key), key))))

-----------------------------------------------------------------------------
(* What the standard says: the hash of the outer pad and of the hash of    *)
(* the inner pad and the message.                                          *)
StandardHmac(iv, key, msg) ==
  LET k == IF Len(key) > B THEN Standard(iv, key) ELSE key
      pad == k \o Zeros(B - Len(k))
  IN Standard(iv, XorAll("5c", pad) \o Standard(iv, XorAll("36", pad) \o msg))

-----------------------------------------------------------------------------
(***************************************************************************)
(* pbkdf2.c.  The function does not call HMAC for its iterations: it keeps *)
(* the two half-hashed pads, and one block g whose padding and length are  *)
(* written once by hand, and runs the compression on it in place.          *)
(* Iterations may come in pieces: mnemonic_to_seed asks for sixteen.       *)
(***************************************************************************)

\* The exclusive or of words that are never equal, as the set of them.
Sum(f, g) == [i \in DOMAIN f |-> SymDiff(f[i], {g[i]})]

\* The native words of a state over the first words of the block g.
Store(g, st) == Overlay(g, 0, SwapWords(StateBytes(st, DW)))

HalfStep(st, g) == Store(g, Transform(st, g))

\* A block of zeros with the 1 bit behind the digest and, as its last word,
\* the bits of a pad and a digest.
Preset ==
  LET bit == Overlay(Zeros(B), DW * W, SwapWords(<<Bits({"80"})>> \o Zeros(W - 1)))
  IN Overlay(bit, (NW - 1) * W, SwapWords(WordBytes(8 * (B + DW * W))))

\* The block number is turned to big-endian order before it is hashed.
BlockNr(n) == WordBytes(n)

\* The buffer of the context on the stack is whatever was there.
Stack == [i \in 1..B |-> <<"u", i>>]

\* g takes the inner digest's bytes, turns them to host order and is hashed
\* to the first outer digest, which also starts the sum f.
Started(pads, g) ==
  [odig |-> pads.odig, idig |-> pads.idig, g |-> g, first |-> 1, f |-> [i \in 1..(DW * W) |-> {g[i]}]]

Start(pads, inner) == Started(pads, HalfStep(pads.odig, Overlay(Overlay(Preset, 0, inner), 0, SwapWords(inner))))

\* A hash that has taken the inner pad.
Sha256After(st) == [state |-> st, bitcount |-> 8 * B, buffer |-> Stack]
Sha512After(st) == [state |-> st, bitcount |-> <<8 * B, 0>>, buffer |-> Stack]

StartSha256(pads, salt, nr) ==
  Start(pads, sha256_Final(sha256_Update(sha256_Update(Sha256After(pads.idig), salt), nr)))
StartSha512(pads, salt, nr) ==
  Start(pads, sha512_Final(sha512_Update(sha512_Update(Sha512After(pads.idig), salt), nr)))

pbkdf2_hmac_sha256_Init(pass, salt, blocknr) == StartSha256(hmac_sha256_prepare(pass), salt, BlockNr(blocknr))
pbkdf2_hmac_sha512_Init(pass, salt, blocknr) == StartSha512(hmac_sha512_prepare(pass), salt, BlockNr(blocknr))

Stepped(p, g) == [p EXCEPT !.g = g, !.f = Sum(@, SubSeq(g, 1, DW * W))]

Iterate(p) == Stepped(p, HalfStep(p.odig, HalfStep(p.idig, p.g)))

Iterated(p, n) == FoldLeft(LAMBDA x, i : Iterate(x), p, [i \in 1..n |-> i])

\* Init has done one iteration already, which the first call counts.
pbkdf2_hmac_sha256_Update(p, iterations) == [Iterated(p, iterations - p.first) EXCEPT !.first = 0]
pbkdf2_hmac_sha512_Update(p, iterations) == [Iterated(p, iterations - p.first) EXCEPT !.first = 0]

pbkdf2_hmac_sha256_Final(p) == SwapWords(p.f)
pbkdf2_hmac_sha512_Final(p) == SwapWords(p.f)

\* The first keylen bytes of the digests of the blocks 1, 2, ... in a row.
pbkdf2_hmac_sha256(pass, salt, iterations, keylen) ==
  LET blocks == (keylen + DW * W - 1) \div (DW * W)
      T(n) == pbkdf2_hmac_sha256_Final(
                pbkdf2_hmac_sha256_Update(pbkdf2_hmac_sha256_Init(pass, salt, n), iterations))
  IN SubSeq(FlattenSeq([n \in 1..blocks |-> T(n)]), 1, keylen)

pbkdf2_hmac_sha512(pass, salt, iterations, keylen) ==
  LET blocks == (keylen + DW * W - 1) \div (DW * W)
      T(n) == pbkdf2_hmac_sha512_Final(
                pbkdf2_hmac_sha512_Update(pbkdf2_hmac_sha512_Init(pass, salt, n), iterations))
  IN SubSeq(FlattenSeq([n \in 1..blocks |-> T(n)]), 1, keylen)

-----------------------------------------------------------------------------
(* What the standard says: U1 is the HMAC of the salt and the number, each *)
(* U after it the HMAC of the one before; byte by byte, their sum.         *)
StandardPbkdf2(iv, pass, salt, iterations, n) ==
  LET Next(us, i) == Append(us, StandardHmac(iv, pass, IF us = <<>> THEN salt \o BlockNr(n) ELSE Last(us)))
      us == FoldLeft(Next, <<>>, [i \in 1..iterations |-> i])
  IN [i \in 1..(DW * W) |-> {us[k][i] : k \in 1..iterations}]
=============================================================================
