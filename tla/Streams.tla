------------------------------- MODULE Streams -------------------------------
(***************************************************************************)
(* The streaming interfaces of trezor-crypto, one at a time: a context is  *)
(* opened, takes its input in pieces of any length the interface allows,   *)
(* none included, is closed for its result, and may be opened again.       *)
(*                                                                         *)
(* Every property says the same of one family: whatever the pieces were,   *)
(* the result is that of the standard for the whole input.  The caller's   *)
(* side is the code in src/: scripts and transactions feed hashers piece   *)
(* by piece, HMAC takes a key before its message, PBKDF2 is asked for      *)
(* iterations sixteen times over, AES goes on from the middle of a block.  *)
(* The modes of AES are over an unknown cipher of short blocks; the cipher *)
(* they are built with is run on its own, upon its own output as in OFB,   *)
(* and back again; so are the compressions of a block that the hashes are  *)
(* built with, upon the digest before, from that of a published message.   *)
(***************************************************************************)
EXTENDS HashBlocks, Aes

CONSTANTS
  CounterMod, TotalMod, CountMod, OffsetMod,        \* see the hashes
  AES_BLOCK_SIZE, BFR_BLOCKS, ByteMod,              \* see AesModes
  StreamBlock, MacBlock, BlockMod,                  \* see ChaChaPoly
  AesKeys, AesFirst,                                \* keys and a block of the cipher
  OneBlock, Published,                              \* a message of one block, and its digests
  Apis,            \* the interfaces to run: [api |-> name, n |-> a length]
  MaxLen,          \* bound: input units fed to one context
  MaxIterations    \* bound: iterations asked of one PBKDF2 context

\* What the code's own sizes have in common with those of a run: the bits of
\* one block fit in a word of every count, and no block ends across a wrap.
ASSUME CountsAssumption ==
  /\ \A m \in {CounterMod, CountMod} : m \in Nat /\ m > 8 * B /\ m % (8 * B) = 0
  /\ TotalMod \in Nat /\ TotalMod > B /\ TotalMod % B = 0 /\ TotalMod % 8 = 0
  /\ OffsetMod \in Nat /\ OffsetMod > B

ASSUME CiphersAssumption ==
  /\ AES_BLOCK_SIZE \in Nat \ {0} /\ BFR_BLOCKS \in Nat \ {0}
  /\ {StreamBlock, MacBlock} \subseteq Nat \ {0} /\ StreamBlock >= 2 * MacBlock
  /\ \A m \in {ByteMod, BlockMod} : m \in Nat /\ m > 1

HA == INSTANCE Hasher
S5 == INSTANCE Sha3 WITH NW <- NW + 1, DW <- DW + 1      \* the kinds of 512 bits
KD == INSTANCE Hmac
AM == INSTANCE AesModes
CP == INSTANCE ChaChaPoly

VARIABLES
  use,             \* the interface in use, with the length it was opened with
  context,         \* its context
  soFar,           \* how much it was fed
  output,          \* a digest at the end, or text as it goes
  finished         \* the result was taken

streamvars == <<use, context, soFar, output, finished>>

Hashes  == HA!HasherTypes
Sha     == {"sha1", "sha256", "sha512"}       \* n: 0 for the digest, 1 for its text, 2 for no buffer
Sponges == {"sha3_512", "keccak_512"}
Plain   == Sha \cup {"ripemd160", "blake2b", "blake2s", "groestl512"} \cup Sponges
Macs    == {"hmac_sha256", "hmac_sha512"}
Kdfs    == {"pbkdf2_sha256", "pbkdf2_sha512"}
Ciphers == {"ecb_enc", "ecb_dec", "cbc_enc", "cbc_dec", "cfb_enc", "cfb_dec", "ofb", "ctr"}
Aeads   == {"rfc7539_enc", "rfc7539_dec", "xchacha_enc", "xchacha_dec"}
OneTime == {"poly1305"}
WordHashes == {"sha1_block", "sha1_unrolled", "sha256_block", "sha256_unrolled", "sha512_block", "sha512_unrolled",
               "ripemd160_block", "blake256_block", "blake2b_block", "blake2s_block"}
Lone    == {"aes256", "groestl_big"} \cup WordHashes

-----------------------------------------------------------------------------
(* The inputs *)

Piece(from, n) == [i \in 1..n |-> Msg(from + i)]
KeyOf(n)  == [i \in 1..n |-> Key(i)]
SaltOf(n) == [i \in 1..n |-> Salt(i)]
TextBytes(from, n) == [i \in 1..n |-> AM!Plain(from + i)]
Aad(n) == [i \in 1..n |-> CP!Data(i)]

\* A counter block one short of a carry, and any other iv.
StreamIv == IF use.api = "ctr" THEN [j \in 1..AES_BLOCK_SIZE |-> IF j = 1 THEN 0 ELSE ByteMod - 1]
      ELSE [j \in 1..AES_BLOCK_SIZE |-> {<<"iv", j>>}]

Nonce == <<"n1", "n2">>

\* A block of Groestl, of the bytes of one of AES.
BlockColumns == HA!GR!Sixteen(LAMBDA c : SubSeq(AesFirst, 8 * (c % 2) + 1, 8 * (c % 2) + 8))

FirstWords ==
  CASE use.api \in {"sha1_block", "sha1_unrolled", "ripemd160_block"} -> HA!S2!IV160
    [] use.api \in {"sha256_block", "sha256_unrolled", "blake256_block"} -> HA!S2!IV256
    [] use.api \in {"sha512_block", "sha512_unrolled"} -> HA!S2!IV512
    [] use.api = "blake2b_block" -> HA!B2!blake2b_InitWords(64)
    [] use.api = "blake2s_block" -> HA!B2!blake2s_InitWords(32)

FirstOutput ==
  CASE use.api = "aes256" -> AesFirst
    [] use.api = "groestl_big" -> BlockColumns
    [] use.api \in WordHashes -> FirstWords
    [] OTHER -> <<>>

-----------------------------------------------------------------------------
(* Opening *)

Fresh(u) ==
  CASE u.api \in Hashes -> HA!hasher_Init(u.api)
    [] u.api = "sha1" -> HA!S2!sha1_Init
    [] u.api = "sha256" -> HA!S2!sha256_Init
    [] u.api = "sha512" -> HA!S2!sha512_Init
    [] u.api = "ripemd160" -> HA!RM!ripemd160_Init
    [] u.api = "blake2b" -> IF u.n = 0 THEN HA!B2!blake2b_Init(32)
                            ELSE HA!B2!blake2b_InitKey(32, KeyOf(u.n))
    [] u.api = "blake2s" -> IF u.n = 0 THEN HA!B2!blake2s_Init(32)
                            ELSE HA!B2!blake2s_InitKey(32, KeyOf(u.n))
    [] u.api = "groestl512" -> HA!GR!groestl512_Init
    [] u.api \in Sponges -> S5!sha3_512_Init
    [] u.api = "hmac_sha256" -> KD!hmac_sha256_Init(KeyOf(u.n))
    [] u.api = "hmac_sha512" -> KD!hmac_sha512_Init(KeyOf(u.n))
    [] u.api = "pbkdf2_sha256" -> KD!pbkdf2_hmac_sha256_Init(KeyOf(B + 1), SaltOf(u.n), 1)
    [] u.api = "pbkdf2_sha512" -> KD!pbkdf2_hmac_sha512_Init(KeyOf(2), SaltOf(u.n), 1)
    [] u.api \in Ciphers -> AM!Open(StreamIv)
    [] u.api \in {"rfc7539_enc", "rfc7539_dec"} ->
         CP!rfc7539_auth(CP!rfc7539_init("key", Nonce), Aad(u.n))
    [] u.api \in {"xchacha_enc", "xchacha_dec"} ->
         CP!chacha20poly1305_auth(CP!xchacha20poly1305_init("key", Nonce), Aad(u.n))
    [] u.api = "poly1305" -> CP!poly1305_init("key")
    [] u.api \in Lone \ {"aes256"} -> <<>>
    [] u.api = "aes256" ->
         [forth |-> aes_encrypt_key256(AesKeys[u.n]), back |-> aes_decrypt_key256(AesKeys[u.n])]

-----------------------------------------------------------------------------
(* Taking a piece of n *)

HashPiece(n, aligned) ==
  /\ context' = LET d == Piece(soFar, n)
            IN CASE use.api \in Hashes -> HA!hasher_Update(context, d, aligned)
                 [] use.api = "sha1" -> HA!S2!sha1_Update(context, d)
                 [] use.api = "sha256" -> HA!S2!sha256_Update(context, d)
                 [] use.api = "sha512" -> HA!S2!sha512_Update(context, d)
                 [] use.api = "ripemd160" -> HA!RM!ripemd160_Update(context, d)
                 [] use.api = "blake2b" -> HA!B2!blake2b_Update(context, d)
                 [] use.api = "blake2s" -> HA!B2!blake2s_Update(context, d)
                 [] use.api = "groestl512" -> HA!GR!groestl512_Update(context, d)
                 [] use.api \in Sponges -> S5!sha3_Update(context, d, aligned)
                 [] use.api = "hmac_sha256" -> KD!hmac_sha256_Update(context, d)
                 [] use.api = "hmac_sha512" -> KD!hmac_sha512_Update(context, d)
                 [] use.api = "poly1305" -> CP!poly1305_update(context, TextBytes(soFar, n))
  /\ soFar' = soFar + n
  /\ UNCHANGED <<use, output, finished>>

TakeHash(n, aligned) ==
  /\ ~finished /\ use.api \in Hashes \cup Plain \cup Macs \cup OneTime
  /\ soFar + n <= MaxLen
  /\ use.api \in HA!Sha3Types \cup Sponges \/ aligned      \* nobody else asks
  /\ HashPiece(n, aligned)

\* No caller asks for no iterations: mnemonic_to_seed asks for 128 each time.
TakeIterations(n) ==
  /\ ~finished /\ use.api \in Kdfs
  /\ n > 0 /\ soFar + n <= MaxIterations
  /\ context' = IF use.api = "pbkdf2_sha256" THEN KD!pbkdf2_hmac_sha256_Update(context, n)
            ELSE KD!pbkdf2_hmac_sha512_Update(context, n)
  /\ soFar' = soFar + n
  /\ UNCHANGED <<use, output, finished>>

Crypted(s, d) ==
  CASE use.api = "ecb_enc" -> AM!aes_ecb_encrypt(s, d)
    [] use.api = "ecb_dec" -> AM!aes_ecb_decrypt(s, d)
    [] use.api = "cbc_enc" -> AM!aes_cbc_encrypt(s, d)
    [] use.api = "cbc_dec" -> AM!aes_cbc_decrypt(s, d)
    [] use.api = "cfb_enc" -> AM!aes_cfb_encrypt(s, d)
    [] use.api = "cfb_dec" -> AM!aes_cfb_decrypt(s, d)
    [] use.api = "ofb" -> AM!aes_ofb_crypt(s, d)
    [] use.api = "ctr" -> AM!aes_ctr_crypt(s, d)

TextTaken(n, s) ==
  /\ context' = [s EXCEPT !.out = <<>>]
  /\ output' = output \o s.out
  /\ soFar' = IF s.ok THEN soFar + n ELSE soFar

\* A refused piece changes nothing and is not part of the text.
TakeText(n) ==
  /\ ~finished /\ use.api \in Ciphers
  /\ soFar + n <= MaxLen
  /\ TextTaken(n, Crypted([context EXCEPT !.out = <<>>, !.ok = TRUE], TextBytes(soFar, n)))
  /\ UNCHANGED <<use, finished>>

Sealing(e) == context' = e.ctx /\ output' = output \o e.out

\* All pieces but the last are whole blocks of the stream.
TakeSealed(n) ==
  /\ ~finished /\ use.api \in Aeads
  /\ soFar + n <= MaxLen
  /\ soFar % StreamBlock = 0
  /\ Sealing(IF use.api \in {"rfc7539_enc", "xchacha_enc"}
             THEN CP!chacha20poly1305_encrypt(context, TextBytes(soFar, n))
             ELSE CP!chacha20poly1305_decrypt(context, TextBytes(soFar, n)))
  /\ soFar' = soFar + n
  /\ UNCHANGED <<use, finished>>

\* The last block of three bytes, and then one that is not the last, a long
\* way into a message; for BLAKE-256, one of padding only.
BytesSeen(n, X) == IF n = 1 THEN <<{0, 1}, {}>> ELSE <<X[1], {0}>>
LastMark(n, X, bits) == IF n = 1 THEN <<0..(bits - 1), {}>> ELSE <<{}, {}>>
BitsSeen == <<{3, 4}, {}>>
NoSalt == <<{}, {}, {}, {}>>

\* The state after block n.
WordsAfter(H, n) ==
  LET X == OneBlock[use.api]
  IN CASE use.api = "sha1_block" -> HA!S2!sha1_Words(H, X)
       [] use.api = "sha1_unrolled" -> HA!S2!sha1_Unrolled(H, X)
       [] use.api = "sha256_block" -> HA!S2!sha256_Words(H, X)
       [] use.api = "sha256_unrolled" -> HA!S2!sha256_Unrolled(H, X)
       [] use.api = "sha512_block" -> HA!S2!sha512_Words(H, X)
       [] use.api = "sha512_unrolled" -> HA!S2!sha512_Unrolled(H, X)
       [] use.api = "ripemd160_block" -> HA!RM!ripemd160_Words(H, X)
       [] use.api = "blake256_block" -> HA!BL!blake256_Words(H, X, NoSalt, BitsSeen, n # 1)
       [] use.api = "blake2b_block" -> HA!B2!blake2b_Words(H, X, BytesSeen(n, X), LastMark(n, X, 64))
       [] use.api = "blake2s_block" -> HA!B2!blake2s_Words(H, X, BytesSeen(n, X), LastMark(n, X, 32))

\* A block is encrypted upon the one before, or taken back; the state of a
\* hash takes the same block again.
LoneSteps == IF use.api = "aes256" THEN MaxIterations ELSE 2

TakeBlock ==
  /\ use.api \in Lone /\ soFar < LoneSteps
  /\ output' = CASE use.api = "aes256" -> aes_encrypt(output, context.forth)
                 [] use.api = "groestl_big" -> HA!GR!CompressColumns(output, BlockColumns)
                 [] use.api \in WordHashes -> WordsAfter(output, soFar + 1)
  /\ soFar' = soFar + 1
  /\ UNCHANGED <<use, context, finished>>

BlockBack ==
  /\ use.api = "aes256" /\ soFar > 0
  /\ output' = aes_decrypt(output, context.back)
  /\ soFar' = soFar - 1
  /\ UNCHANGED <<use, context, finished>>

\* A context that is opened for the next message begins anew.
StateAgain ==
  /\ use.api \in Lone \ {"aes256"} /\ soFar > 0
  /\ output' = FirstOutput /\ soFar' = 0
  /\ UNCHANGED <<use, context, finished>>

-----------------------------------------------------------------------------
(* Closing *)

ShaResult ==
  CASE use.api = "sha1" -> IF use.n = 0 THEN HA!S2!sha1_Final(context) ELSE HA!S2!sha1_End(context, use.n = 1)
    [] use.api = "sha256" -> IF use.n = 0 THEN HA!S2!sha256_Final(context) ELSE HA!S2!sha256_End(context, use.n = 1)
    [] use.api = "sha512" -> IF use.n = 0 THEN HA!S2!sha512_Final(context) ELSE HA!S2!sha512_End(context, use.n = 1)

Result ==
  CASE use.api \in Hashes -> HA!hasher_Final(context)
    [] use.api \in Sha -> ShaResult
    [] use.api = "ripemd160" -> HA!RM!ripemd160_Final(context)
    [] use.api = "blake2b" -> HA!B2!blake2b_Final(context)
    [] use.api = "blake2s" -> HA!B2!blake2s_Final(context)
    [] use.api = "groestl512" -> HA!GR!groestl512_Final(context)
    [] use.api = "sha3_512" -> S5!sha3_Final(context)
    [] use.api = "keccak_512" -> S5!keccak_Final(context)
    [] use.api = "hmac_sha256" -> KD!hmac_sha256_Final(context)
    [] use.api = "hmac_sha512" -> KD!hmac_sha512_Final(context)
    [] use.api = "pbkdf2_sha256" -> KD!pbkdf2_hmac_sha256_Final(context)
    [] use.api = "pbkdf2_sha512" -> KD!pbkdf2_hmac_sha512_Final(context)
    [] use.api = "poly1305" -> CP!poly1305_finish(context)

\* A context is wiped, but Groestl's is left open for the next message, and
\* the BLAKE contexts are simply left.
Close ==
  /\ ~finished /\ use.api \notin Ciphers \cup Aeads \cup Lone
  /\ use.api \in Kdfs => soFar > 0
  /\ output' = Result
  /\ context' = IF use.api = "groestl512" THEN HA!GR!groestl_big_close(context).ctx ELSE <<>>
  /\ finished' = TRUE
  /\ UNCHANGED <<use, soFar>>

\* The text is out already; the tag follows it.
CloseSealed ==
  /\ ~finished /\ use.api \in Aeads
  /\ context' = IF use.api \in {"rfc7539_enc", "rfc7539_dec"}
            THEN CP!rfc7539_finish(context, use.n, soFar) ELSE CP!chacha20poly1305_finish(context)
  /\ finished' = TRUE
  /\ UNCHANGED <<use, soFar, output>>

\* aes_mode_reset before a new text, with the iv written anew by the caller.
CloseText ==
  /\ ~finished /\ use.api \in Ciphers
  /\ context' = [AM!aes_mode_reset(context) EXCEPT !.iv = StreamIv]
  /\ soFar' = 0 /\ output' = <<>>
  /\ UNCHANGED <<use, finished>>

\* hasher_Reset, or an initialisation; Groestl goes on with what it has.
Reopen ==
  /\ finished
  /\ context' = IF use.api = "groestl512" THEN context ELSE Fresh(use)
  /\ soFar' = 0 /\ output' = <<>> /\ finished' = FALSE
  /\ UNCHANGED use

-----------------------------------------------------------------------------
StreamInit ==
  /\ use \in Apis
  /\ context = Fresh(use)
  /\ soFar = 0 /\ output = FirstOutput /\ finished = FALSE

StreamNext ==
  \/ \E n \in 0..MaxLen, aligned \in BOOLEAN : TakeHash(n, aligned)
  \/ \E n \in 1..MaxIterations : TakeIterations(n)
  \/ \E n \in 0..MaxLen : TakeText(n) \/ TakeSealed(n)
  \/ TakeBlock \/ BlockBack \/ StateAgain
  \/ Close \/ CloseSealed \/ CloseText \/ Reopen

StreamSpec == StreamInit /\ [][StreamNext]_streamvars
-----------------------------------------------------------------------------
(* Properties *)

Streamed == Piece(0, soFar)
Whole   == TextBytes(0, soFar)

\* Whatever the pieces were, a digest is the one the standard gives for the
\* whole message: every carry of a count, every padding that spills into
\* another block, and the second passes of hasher_Final.
StandardSha ==
  LET digest == HA!S2!Standard(use.api, Streamed)
      pairs == [i \in 1..(2 * Len(digest)) |-> <<IF i % 2 = 1 THEN "high" ELSE "low", digest[(i + 1) \div 2]>>]
  IN CASE use.n = 0 -> digest
       [] use.n = 1 -> [text |-> pairs, returned |-> Len(pairs)]
       [] use.n = 2 -> [text |-> <<>>, returned |-> 0]

\* The call that does it all for a whole message.
AtOnce ==
  CASE use.api = "sha1" -> HA!S2!sha1_Data(Streamed, use.n = 1)
    [] use.api = "sha256" -> HA!S2!sha256_Data(Streamed, use.n = 1)
    [] use.api = "sha512" -> HA!S2!sha512_Data(Streamed, use.n = 1)
    [] use.api = "ripemd160" -> HA!RM!ripemd160(Streamed)
    [] use.api = "blake2b" -> IF use.n = 0 THEN HA!B2!blake2b(Streamed, 32)
                              ELSE HA!B2!blake2b_Key(Streamed, KeyOf(use.n), 32)
    [] use.api = "blake2s" -> IF use.n = 0 THEN HA!B2!blake2s(Streamed, 32)
                              ELSE HA!B2!blake2s_Key(Streamed, KeyOf(use.n), 32)
    [] use.api = "SHA3" -> HA!S3!sha3_256(Streamed)
    [] use.api = "SHA3K" -> HA!S3!keccak_256(Streamed)
    [] use.api = "sha3_512" -> S5!sha3_512(Streamed)
    [] use.api = "keccak_512" -> S5!keccak_512(Streamed)
    [] OTHER -> output

StandardDigest ==
  CASE use.api \in Hashes -> HA!StandardHash(use.api, Streamed)
    [] use.api \in Sha -> StandardSha
    [] use.api = "ripemd160" -> HA!RM!Standard(Streamed)
    [] use.api \in {"blake2b", "blake2s"} -> HA!B2!Standard(<<32, use.n, "none">>, KeyOf(use.n), Streamed)
    [] use.api = "groestl512" -> HA!GR!Standard(Streamed)
    [] use.api = "sha3_512" -> S5!Standard(Streamed, "06")
    [] use.api = "keccak_512" -> S5!Standard(Streamed, "01")

DigestIsStandard ==
  finished /\ use.api \in Hashes \cup Plain =>
    /\ output = StandardDigest
    /\ ~(use.api \in Sha /\ use.n = 0) => AtOnce = output

\* An HMAC and a Poly1305 tag do not depend on the pieces either, nor on how
\* the key compares with a block.
MacIsStandard ==
  finished =>
    /\ use.api = "hmac_sha256" => output = KD!StandardHmac("sha256", KeyOf(use.n), Streamed)
    /\ use.api = "hmac_sha512" => output = KD!StandardHmac("sha512", KeyOf(use.n), Streamed)
    /\ use.api = "poly1305" => output = CP!StandardMac("key", Whole)

\* The block that PBKDF2 builds by hand and hashes in place gives what HMAC
\* upon HMAC gives, in however many calls the iterations were asked for.
KdfIsStandard ==
  finished =>
    /\ use.api = "pbkdf2_sha256" =>
         output = KD!StandardPbkdf2("sha256", KeyOf(B + 1), SaltOf(use.n), soFar, 1)
    /\ use.api = "pbkdf2_sha512" =>
         output = KD!StandardPbkdf2("sha512", KeyOf(2), SaltOf(use.n), soFar, 1)

\* At every moment the text that came out of an AES mode is the one for the
\* text that went in, though a piece may end inside a block or a bufferful
\* and a piece of the wrong length may have been refused before.
CipherIsStandard ==
  use.api \in Ciphers => output = AM!StandardMode(use.api, StreamIv, Whole)

\* A sealed text is the text against the stream after its first block, and
\* the tag is over data and cipher text, padded where the RFC pads them.
MacKeyOf ==
  IF use.api \in {"rfc7539_enc", "rfc7539_dec"} THEN CP!StandardMacKey("key", Nonce)
  ELSE CP!StandardMacKey(CP!hchacha20("key", Head(Nonce)), Tail(Nonce))

StreamOf ==
  IF use.api \in {"rfc7539_enc", "rfc7539_dec"} THEN CP!StandardStream("key", Nonce, soFar)
  ELSE CP!StandardStream(CP!hchacha20("key", Head(Nonce)), Tail(Nonce), soFar)

Sealed == IF use.api \in {"rfc7539_enc", "xchacha_enc"} THEN output ELSE Whole

Authenticated ==
  IF use.api \in {"rfc7539_enc", "rfc7539_dec"}
  THEN Aad(use.n) \o CP!PadTo(use.n) \o Sealed \o CP!PadTo(soFar) \o CP!Lengths(use.n, soFar)
  ELSE Aad(use.n) \o Sealed

SealIsStandard ==
  use.api \in Aeads =>
    /\ output = CP!XorBytes(Whole, StreamOf)
    /\ finished => context = CP!StandardMac(MacKeyOf, Authenticated)

\* The unrolled rounds over tables of words, and the key for decryption that
\* is mixed as it is made, are the cipher of FIPS 197 and its inverse; the
\* rows that Groestl picks for a column are those of its permutations; and
\* the rings, the registers that stay where they are and the lists of words
\* are the compressions of the standards, the first digest a published one.
StandardAfter(H, n) ==
  LET X == OneBlock[use.api]
  IN CASE use.api \in {"sha1_block", "sha1_unrolled"} -> HA!S2!Sha1Standard(H, X)
       [] use.api \in {"sha256_block", "sha256_unrolled"} -> HA!S2!Sha2Standard(HA!S2!SHA256, 64, H, X)
       [] use.api \in {"sha512_block", "sha512_unrolled"} -> HA!S2!Sha2Standard(HA!S2!SHA512, 80, H, X)
       [] use.api = "ripemd160_block" -> HA!RM!RipemdStandard(H, X)
       [] use.api = "blake256_block" -> HA!BL!Blake256Standard(H, X, NoSalt, BitsSeen, n # 1)
       [] use.api = "blake2b_block" -> HA!B2!Blake2Standard(HA!B2!BLAKE2B, H, X, BytesSeen(n, X), LastMark(n, X, 64))
       [] use.api = "blake2s_block" -> HA!B2!Blake2Standard(HA!B2!BLAKE2S, H, X, BytesSeen(n, X), LastMark(n, X, 32))

Repeated(Step(_, _), start) ==
  LET after[n \in 0..soFar] == IF n = 0 THEN start ELSE Step(after[n - 1], n)
  IN after[soFar]

BlockIsStandard ==
  /\ use.api = "aes256" =>
       output = Repeated(LAMBDA in, n : StandardCipher(in, AesKeys[use.n]), AesFirst)
  /\ use.api = "groestl_big" =>
       output = Repeated(LAMBDA H, n : HA!GR!StandardCompress(H, BlockColumns), BlockColumns)
  /\ use.api \in WordHashes =>
       /\ output = Repeated(StandardAfter, FirstWords)
       /\ soFar = 1 => output = Published[use.api]

\* Whatever the pieces a caller feeds, its result is the one of the standard
\* for the whole input, for every interface and again after a context was
\* used: digests, codes, derived keys, cipher text and tags.
StreamIsStandard ==
  /\ DigestIsStandard /\ MacIsStandard /\ KdfIsStandard
  /\ CipherIsStandard /\ SealIsStandard /\ BlockIsStandard
=============================================================================
