--------------------------- MODULE MCTrezorCrypto ----------------------------
(* The inputs of every desk. *)
EXTENDS TrezorCrypto

-----------------------------------------------------------------------------
(* Every interface with the lengths its properties turn on: keys around a  *)
(* block, salts, and data in front of a sealed text.                       *)

Api(names, lengths) == [api : names, n : lengths]

MCApis ==
  Api(Hashes \cup Sha \cup Sponges \cup {"ripemd160", "groestl512"} \cup OneTime \cup Ciphers, {0})
  \cup Api(Sha, {1, 2})
  \cup Api({"blake2b", "blake2s"}, {0, 1, B})
  \cup Api(Macs, {0, 1, B, B + 1})
  \cup Api(Kdfs, {0, 1, 5})
  \cup Api(Aeads, 0..3)
  \cup Api({"aes256"}, {1, 2}) \cup Api(Lone \ {"aes256"}, {0})

\* The vector of FIPS 197, and a key that is not in any order.
TheAesKeys ==
  <<Evaluated([i \in 1..32 |-> BitsOfByte[i - 1]]),
    Evaluated([i \in 1..32 |-> BitsOfByte[(i * i * 7 + i * 91 + 200) % 256]])>>

TheAesFirst == Evaluated([i \in 1..16 |-> BitsOfByte[17 * (i - 1)]])

MCAesKeys == TheAesKeys
MCAesFirst == TheAesFirst

\* "abc", as one padded block of every hash, and its published digests.
Quiet(n) == [i \in 1..n |-> {}]
BigEndianAbc(digits) == <<HA!S2!OfDigits(<<24930, 25472>> \o digits)>>
LittleEndianAbc(top) == <<HA!S2!OfDigits(<<top, 25185>>)>>

TheBlocks ==
  LET sha == BigEndianAbc(<<>>) \o Quiet(14) \o <<{3, 4}>>
      long == BigEndianAbc(<<0, 0>>) \o Quiet(14) \o <<{3, 4}>>
  IN [sha1_block |-> sha, sha1_unrolled |-> sha, sha256_block |-> sha, sha256_unrolled |-> sha,
      sha512_block |-> long, sha512_unrolled |-> long,
      ripemd160_block |-> LittleEndianAbc(32867) \o Quiet(13) \o <<{3, 4}, {}>>,
      blake256_block |-> BigEndianAbc(<<>>) \o Quiet(12) \o <<{0}, {}, {3, 4}>>,
      blake2b_block |-> LittleEndianAbc(99) \o Quiet(15), blake2s_block |-> LittleEndianAbc(99) \o Quiet(15)]

Abc ==
  [sha1 |-> HA!S2!WordsOf(2, <<43417, 15926, 18182, 33130, 47678, 9585, 30800, 49772, 40144, 55453>>),
   sha256 |-> HA!S2!WordsOf(2, <<47736, 5823, 36609, 53226, 16705, 16606, 23982, 8739, 45059, 24995, 38423, 31388, 46096, 65377, 61952, 5549>>),
   sha512 |-> HA!S2!WordsOf(4, <<56751, 13729, 37729, 31418, 52289, 29513, 44576, 16689, 4838, 64078, 35241, 32418, 2718, 61158, 19285, 54170,
                                    8594, 39210, 10063, 49576, 14010, 15395, 41982, 60349, 17741, 17443, 25660, 59406, 10906, 51535, 42316, 42143>>),
   ripemd160 |-> HA!S2!WordsOf(2, <<63240, 45710, 31384, 24032, 36426, 1179, 34736, 50840, 64523, 23281>>),
   blake256 |-> HA!S2!WordsOf(2, <<6195, 43514, 31988, 2155, 54781, 42813, 41774, 23069, 30132, 50168, 40284, 17251, 27129, 55179, 45786, 23592>>),
   blake2b |-> HA!S2!WordsOf(4, <<3405, 7320, 16293, 32954, 59894, 4767, 46743, 10090, 47044, 23144, 5167, 8524, 53666, 65499, 28603, 4683,
                                    11641, 43818, 14789, 34685, 38348, 13125, 57045, 21186, 23186, 61915, 43146, 54040, 9113, 212, 60806, 9145>>),
   blake2s |-> HA!S2!WordsOf(2, <<35934, 35920, 57876, 31794, 41771, 42977, 12101, 60238, 8331, 17719, 10554, 54942, 19611, 39245, 33369, 26502>>)]

TheDigests ==
  [sha1_block |-> Abc.sha1, sha1_unrolled |-> Abc.sha1, sha256_block |-> Abc.sha256, sha256_unrolled |-> Abc.sha256,
   sha512_block |-> Abc.sha512, sha512_unrolled |-> Abc.sha512, ripemd160_block |-> Abc.ripemd160,
   blake256_block |-> Abc.blake256, blake2b_block |-> Abc.blake2b, blake2s_block |-> Abc.blake2s]

MCOneBlock == TheBlocks
MCPublished == TheDigests

-----------------------------------------------------------------------------
(* A digest of two remainders that stands for the hash functions, and for  *)
(* every codec the values, texts and sizes at the edges of its code.       *)

DigestSalt == [sha2d |-> 1, sha2_ripemd |-> 2, keccak |-> 3, ripemd160 |-> 4, sha256 |-> 5]

MCDigest(hasher, bytes) ==
  LET folded == Fold(LAMBDA s, b : <<(s[1] * 31 + b + 7) % 67108859, (s[2] * 61 + b) % 33554393>>,
                         <<DigestSalt[hasher], 9>>, bytes)
      run == Fold(LAMBDA s, i : [x |-> (s.x * 29 + folded[2] + i) % 67108859,
                                     out |-> Append(s.out, (s.x \div 1024) % 256)],
                      [x |-> (folded[1] * 29 + folded[2]) % 67108859, out |-> <<>>], [i \in 1..32 |-> i])
  IN run.out

Times(n, b) == Evaluated([i \in 1..n |-> b])
Count(n, b) == Evaluated([i \in 1..n |-> (b + i * 37) % 256])

Key33 == <<2>> \o Count(32, 5)
Key65 == <<4>> \o Count(64, 9)
Infinity == <<0>>

Versions == { <<0, 0, 0, 0>>, <<0, 0, 0, 65>>, <<0, 0, 65, 0>>, <<0, 65, 0, 7>>, <<65, 0, 0, 7>> }

WithVersion(keys) == [key : keys, version : Versions]

\* Transactions of NEM, as lists of calls.
Mainnet == 104
Args(signer) == [network |-> Mainnet, timestamp |-> 1, signer |-> signer, fee |-> 2, deadline |-> 3]
nem == Blob("nem", 3)
xem == Blob("xem", 3)

Transfer(payload, mosaics) ==
  [call |-> "transfer", a |-> Args(NoArgument), recipient |-> "x", amount |-> 9, payload |-> payload,
   encrypted |-> TRUE, mosaics |-> mosaics]
AMosaic == [call |-> "mosaic", namespace |-> nem, mosaic |-> xem, quantity |-> 5]
ADefinition ==
  [namespace |-> nem, mosaic |-> xem, description |-> Blob("d", 7), divisibility |-> Blob("6", 1),
   supply |-> Blob("9000000000", 10), mutable_supply |-> FALSE, transferable |-> TRUE]
ALevy == [type |-> 1, fee |-> 4, address |-> "levy", namespace |-> nem, mosaic |-> xem]
Creation(levy) ==
  [call |-> "mosaic_creation", a |-> Args("other"), definition |-> ADefinition, levy |-> levy, sink |-> "sink", fee |-> 6]
ACosignatory == [call |-> "cosignatory", type |-> 1, cosignatory |-> "third"]
Aggregate(n, relative) ==
  [call |-> "aggregate_modification", a |-> Args(NoArgument), modifications |-> n, relative |-> relative]
Inner(calls) == NemTransaction(calls, 1000)

NemCalls ==
  { <<Transfer(NoArgument, 0)>>, <<Transfer(Blob("p", 5), 0)>>, <<Transfer(Blob("p", 0), 0)>>,
    <<Transfer(Blob("p", UINT32_MAX - 8), 0)>>, <<Transfer(Blob("p", 5), 2), AMosaic, AMosaic>>,
    <<[call |-> "provision_namespace", a |-> Args(NoArgument), namespace |-> nem, parent |-> NoArgument, sink |-> "s", fee |-> 1]>>,
    <<[call |-> "provision_namespace", a |-> Args(NoArgument), namespace |-> nem, parent |-> xem, sink |-> "s", fee |-> 1]>>,
    <<[call |-> "provision_namespace", a |-> Args(NoArgument), namespace |-> Blob("n", UINT32_MAX + 1), parent |-> xem, sink |-> "s", fee |-> 1]>>,
    <<Creation(NoArgument)>>, <<Creation(ALevy)>>,
    <<[call |-> "mosaic_supply_change", a |-> Args(NoArgument), namespace |-> nem, mosaic |-> xem, type |-> 1, delta |-> 8]>>,
    <<Aggregate(2, FALSE), ACosignatory, ACosignatory>>, <<Aggregate(1, TRUE), ACosignatory, [call |-> "minimum", change |-> -1]>>,
    <<[call |-> "importance_transfer", a |-> Args("other"), mode |-> 1, remote |-> "r"]>>,
    <<[call |-> "multisig", a |-> Args(NoArgument), inner |-> Inner(<<Transfer(Blob("p", 5), 1), AMosaic>>)]>>,
    <<[call |-> "multisig_signature", a |-> Args(NoArgument), inner |-> Inner(<<Creation(ALevy)>>)]>> }

Amounts ==
  { <<0>>, <<7>>, <<9, 9, 9>>, <<1, 0, 0, 0>>, <<1, 2, 0, 5, 0, 0>>, <<2, 1, 4, 7, 4, 8, 3, 6, 4, 7>>,
    <<1, 0, 0, 0, 0, 0, 0, 0, 0, 0, 0, 0>>, <<1, 0, 9, 9, 5, 1, 1, 6, 2, 7, 7, 7, 5>> }

Numbers ==
  { [amount |-> a, prefix |-> around[1], suffix |-> around[2], decimals |-> d, exponent |-> e, trailing |-> t] :
      a \in Amounts, around \in {<<<<>>, <<>>>>, <<<<>>, <<48, 120>>>>, <<<<36>>, <<120>>>>},
      d \in {0, 1, 3}, e \in {-4, -1, 0, 2}, t \in BOOLEAN }

Values ==
  [base58   |-> { <<>>, <<0>>, <<0, 0, 255>>, <<1>>, <<255, 255, 255, 255>>, <<57>>, <<58>>, Times(11, 255), Count(25, 200) },
   check    |-> { <<>>, <<0>>, <<0, 0, 1>>, Count(21, 65), Times(21, 0) },
   address  |-> WithVersion({Key33, Key65, Infinity}),
   p2sh     |-> WithVersion({Key33}),
   wif      |-> [key : {Count(32, 1), Times(32, 255)}, version : Versions],
   base32   |-> { Count(n, 190) : n \in 0..6 } \cup { Times(10, 255) },
   nem      |-> [key : {Count(32, 3)}, version : {104, 152, 96}],
   bech32   |-> [hrp : {bc, <<126>>, <<32>>, <<66>>}, data : { <<>>, Times(9, 31), Times(81, 0), Times(82, 0), <<3, 32>> }],
   segwit   |-> [hrp : {bc, <<116, 98>>}, witver : {0, 1, 16, 17},
                 witprog : { Count(n, 77) : n \in {1, 2, 20, 32, 40, 41} }],
   cash     |-> [hrp : {<<98, 99>>, <<98, 33>>}, data : { Count(n, 11) : n \in {1, 2, 21, 65, 66} }],
   mnemonic |-> { Count(n, 20) : n \in {12, 16, 17, 20, 28, 32, 36} },
   script   |-> { <<118, 169, 20>> \o Count(20, 1) \o <<136, 172>>, <<118, 169, 20>> \o Count(20, 1) \o <<136, 173>>,
                  <<169, 20>> \o Count(20, 1) \o <<135>>, <<169, 20>> \o Count(20, 1) \o <<136>>,
                  <<0, 20>> \o Count(20, 1), <<0, 32>> \o Count(32, 1), <<81, 32>> \o Count(32, 1),
                  <<0, 32>> \o Count(20, 1) },
   nem_transaction |-> NemCalls,
   der      |-> { r \o s : r \in { Times(32, 0), Times(31, 0) \o <<1>>, Times(30, 0) \o <<128, 5>>, Times(32, 255) },
                           s \in { <<127>> \o Times(31, 9), Times(31, 0) \o <<128>> } },
   number   |-> Numbers]

\* A text with its checksum, whatever it says.
Bech(hrp, data, constant) == bech32_encode_with_checksum(hrp, data, constant).text
Cash(hrp, data) == cash_encode(hrp, data).text

MnemonicOf(n) == mnemonic_from_data(Count((n * 4) \div 3, 20), 240).text

Texts ==
  [base58   |-> { <<48>>, <<200>>, <<49, 49, 49>>, <<122, 122, 122>>, Times(40, 122), <<49, 49, 122>> },
   check    |-> { <<>>, <<49>>, Times(5, 50), Times(200, 122) },
   address  |-> { base58_encode_check(<<65>> \o Count(19, 2), "sha2d", 50).v,
                  base58_encode_check(<<0, 65>> \o Count(20, 2), "sha2d", 50).v },
   p2sh     |-> {},
   wif      |-> {},
   base32   |-> { <<65>>, <<65, 65, 65>>, <<49, 49>>, Times(6, 66), Times(8, 122), <<65, 66>> },
   nem      |-> { Times(40, 65), base32_encode(WithSum(<<105>> \o Count(20, 1)), 41).v },
   bech32   |-> { <<98, 99, 49, 49>> \o Times(6, 113), Times(8, 49), Bech(<<98, 49, 99>>, <<4>>, bech32_constant) },
   segwit   |-> { Bech(bc, <<1>> \o Times(32, 5), bech32_constant), Bech(bc, <<0>> \o Times(32, 5), bech32m_constant),
                  Bech(bc, <<1>> \o Times(31, 5) \o <<1>>, bech32m_constant),
                  Bech(bc, <<1>> \o Times(31, 5) \o <<16>>, bech32m_constant), Bech(bc, <<17, 5, 5, 8>>, bech32m_constant),
                  Bech(bc, <<>>, bech32_constant), Bech(bc, Times(70, 1), bech32_constant),
                  Times(20, 113), <<49>> \o Times(20, 113), Bech(bc, <<1>> \o Times(33, 5), bech32m_constant) },
   cash     |-> { Cash(bc, Times(31, 5) \o <<1>>), Cash(bc, Times(31, 5) \o <<16>>), Cash(bc, <<>>), Cash(Times(21, 99), Times(8, 0)),
                  Times(20, 113), <<58>> \o Times(20, 113), Cash(bc, <<5, 5>>), Cash(bc, Times(9, 0)) },
   mnemonic |-> { Append(MnemonicOf(12), Space), Append(SubSeq(MnemonicOf(15), 1, 27), Space), <<Space>> \o MnemonicOf(12),
                  SubSeq(MnemonicOf(12), 1, 3) \o <<Space>> \o SubSeq(MnemonicOf(12), 4, 21),
                  [MnemonicOf(12) EXCEPT ![5] = 2048], [MnemonicOf(12) EXCEPT ![5] = 7], SubSeq(MnemonicOf(12), 1, 21), MnemonicOf(24) \o <<Space>> \o MnemonicOf(12) },
   script   |-> {}, nem_transaction |-> {}, der |-> {}, number |-> {}]

\* Each size that ends before, at or after a field of one of them.
NemSizes ==
  UNION { LET b == NemTransaction(calls, 10000).buffer
          IN UNION { {SizeOf(SubSeq(b, 1, k)) - 1, SizeOf(SubSeq(b, 1, k))} : k \in {1, 6, 9, 10, Len(b)} \cap DOMAIN b } :
          calls \in NemCalls } \cup {0}

Sizes ==
  [base58 |-> {0, 1, 2, 4, 5, 7, 16, 17, 35, 36, 60}, check |-> {0, 6, 7, 34, 35, 60}, address |-> {20, 35, 36, 39, 40}, p2sh |-> {35, 36}, wif |-> {51, 52, 53, 54, 60},
   base32 |-> {0, 1, 2, 3, 8, 9, 16, 17}, nem |-> {0}, bech32 |-> {0}, segwit |-> {0}, cash |-> {0}, mnemonic |-> {239, 240},
   script |-> {34, 35, 42, 43, 62, 63, 80}, nem_transaction |-> NemSizes, der |-> {0},
   number |-> {0, 1, 2, 4, 6, 9, 14, 21}]

Networks ==
  [base58 |-> {0, 1, 2, 3, 4, 11, 25}, check |-> {0, 1, 2, 3, 21, 128}, address |-> Versions, p2sh |-> Versions,
   wif |-> {33, 34, 35, 36, 37, 128}, base32 |-> {0, 1, 2, 3, 4, 5, 6, 10}, nem |-> {104, 152, 96, 105},
   bech32 |-> {0}, segwit |-> {bc, <<116, 98>>, <<66, 67>>}, cash |-> {<<98, 99>>, <<98, 33>>}, mnemonic |-> {0}, script |-> {0}, nem_transaction |-> {}, der |-> {0},
   number |-> {0}]
\* TLC evaluates a definition once, but not the one a constant is replaced by.
MCValuesOf == Values
MCForeignOf == Texts
MCSizesOf == Sizes
MCNetworksOf == Networks

-----------------------------------------------------------------------------
(* Halves of HMACs are near the edges more often than not: a left half may *)
(* be 0, 1, the order or beyond, or cancel a small private key.            *)

MixedIn(h, v) == (h * 211 + v * 7 + 13) % 65521

Hashed(key, data) == FoldLeft(LAMBDA h, v : MixedIn(h, v), MixedIn(key, Len(data)), data)

\* What cancels the key that the child is asked of.
OppositeKey(data) == IF data[1] = 3 THEN data[2] ELSE Order - data[2]

Edges == <<0, 1, Order - 1, Order - 2, Order, 4095, 2, 0>>

Halves(h) ==
  [l |-> IF h % 3 = 0 THEN (h * 5) % 4096 ELSE Edges[(h % 8) + 1], r |-> (h * 31 + 7) % 4096]

MCHmac(key, data) ==
  LET h == Hashed(key, data)
  IN IF data[1] # 1 /\ h % 5 = 0 THEN [Halves(h) EXCEPT !.l = OppositeKey(data)] ELSE Halves(h)

Names == [secp256k1 |-> 11, groestl |-> 12, ed25519 |-> 13, keccak |-> 14, curve25519 |-> 15]

MCSeedHmac(name, data) == Halves(Hashed(Names[name], data))

MCSecret == [s \in Seeds \cup {PeerSeed} |-> <<(s * 1237) % 4096, (s * 91) % 4096, (s * 17) % 4096>>]

MCPaths == {<<>>, <<0>>, <<8>>, <<8, 1>>, <<0, 8>>}

MCPayloads == {[k \in 1..n |-> k] : n \in 0..7} \cup {<<3, 3, 3>>, <<1, 1>>}

-----------------------------------------------------------------------------
(* The curve -x^2 + y^2 = 1 + d x^2 y^2 modulo 2^14 - 3 with d = -2/3 has  *)
(* 8 * 2039 points.                                                        *)

Stirred(h, v) == (h * 211 + v * 7 + 13) % 65521

MCHash(data) ==
  LET h == FoldLeft(LAMBDA g, v : Stirred(g, v), Stirred(Len(data), 5), data)
  IN <<h % 32768, Stirred(h, 77) % 32768>>

TheChain == <<[n |-> 5, join |-> FALSE, keep |-> TRUE]>>

TheRoots == <<2508, 4720, 3614, 1106>>

EdSigner(sk, nonce) == [sk |-> sk, nonce |-> nonce]

TheTeams ==
  {<<>>, <<EdSigner(1, 11)>>, <<EdSigner(1, 11), EdSigner(2, 12)>>,
   <<EdSigner(2, 12), EdSigner(1, 11), EdSigner(3, 13)>>, <<EdSigner(1, 11), EdSigner(1, 12)>>}

\* The neutral point, the one of order two, one of order eight, the zeros of
\* x and y, unreduced ones, no point, any.
TheElements ==
  {1, 16380, 0, 5267, 16384, 16384 + 8, 8, 16381, 16382, 16383, 2, 3, 32767, 16384 + 16381, 12345, 777}

TheStrangers == {1, 16380, 0, 2, 5267, 16382}

TheScalars ==
  {<<0, 0>>, <<1, 0>>, <<2038, 0>>, <<2039, 0>>, <<32767, 32767>>, <<1048575, 1048575>>, <<65718, 0>>,
   <<65719, 0>>, <<65720, 1>>, <<123456, 654321>>, <<777777, 12>>, <<458122, 837754>>, <<450177, 507680>>,
   <<1048575, 32767>>, <<5461, 699050>>}

TheWider == [limbs |-> 3, width |-> 8, bits |-> 20, byte |-> 4, order |-> 65719]

\* As in the code.
TheRoom == [low |-> 4, limbs |-> 10, sum |-> 64, weight |-> 3368, scalar |-> 35302, top |-> 63,
            slack |-> 1, scaled |-> 35, short |-> 1, carry |-> 1]

TheNarrow == [limbs |-> 4, width |-> 4, fold |-> 3, word |-> 512]

\* Limbs that are empty, full, and two or three times full.
TheLimbs ==
  {<<0, 0, 0, 0>>, <<1, 0, 0, 0>>, <<12, 7, 15, 7>>, <<13, 7, 15, 7>>, <<15, 7, 15, 7>>, <<11, 3, 0, 4>>}
    \cup {<<a, b, c, d>> : a \in {0, 15, 31}, b \in {7, 12}, c \in {5, 47}, d \in {2, 14, 24}}

MCRoom == TheRoom
MCNarrow == TheNarrow
MCLimbs == TheLimbs
MCChain == TheChain
MCRoots == TheRoots
MCTeams == TheTeams
MCElements == TheElements
MCStrangers == TheStrangers
MCScalars == TheScalars
MCWider == TheWider
=============================================================================
