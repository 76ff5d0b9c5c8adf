------------------------------- MODULE HDNode -------------------------------
(***************************************************************************)
(* bip32.c: nodes of a tree of keys.  32 bytes are a number below WordRange; a *)
(* point of an ECDSA curve is the number whose multiple of G it is, 0 the  *)
(* one at infinity, and a point and its opposite have one abscissa.  What  *)
(* Ecdsa and Base58 compute is taken by its result: a compressed point, an *)
(* address, a text that only its own checksum reads.                       *)
(***************************************************************************)
EXTENDS Loops

CONSTANTS
  Order,         \* of G
  WordRange,         \* 2^256
  SeedHmac(_, _),  \* HMAC-SHA512 under a curve's name -> [l, r], its halves
  Hmac(_, _),    \* HMAC-SHA512 under a chain code
  Hardened,      \* 0x80000000
  DepthMod,         \* 256: what the depth of a text is kept modulo
  ZlWords,       \* 2^224: 28 of the 32 bytes
  CardanoTop,    \* 2^254
  NemBlock,      \* bytes of a block of AES
  MaxTries       \* bound: HMACs asked for one child

ASSUME OrderAssumption == Order \in Nat /\ Order % 2 = 1 /\ Order < WordRange
ASSUME TreeAssumption ==
  /\ {Hardened, MaxTries} \subseteq Nat
  /\ {WordRange, DepthMod, ZlWords, CardanoTop, NemBlock} \subseteq Nat \ {0}

NoPublic == <<0, 0>>
NoNode   == [curve |-> "none", depth |-> 0, child_num |-> 0, chain_code |-> 0,
             private_key |-> 0, private_key_extension |-> 0, public_key |-> NoPublic]
Failed   == [ok |-> FALSE, node |-> NoNode]
Made(node) == [ok |-> TRUE, node |-> node]

CurveInfo(ecdsa, base58) == [params |-> ecdsa, hasher_base58 |-> base58]

get_curve_by_name ==
  [secp256k1 |-> CurveInfo(TRUE, "sha2d"), groestl |-> CurveInfo(TRUE, "groestl"),
   ed25519 |-> CurveInfo(FALSE, "sha2d"), keccak |-> CurveInfo(FALSE, "sha2d"),
   curve25519 |-> CurveInfo(FALSE, "sha2d"), cardano |-> CurveInfo(FALSE, "sha2d")]

params(node) == get_curve_by_name[node.curve].params
KnownCurve(name) == name \in DOMAIN get_curve_by_name

InOrder(a) == a # 0 /\ a < Order
-----------------------------------------------------------------------------
(* Points and public keys *)

Compressed(P) == IF P <= Order \div 2 THEN <<2, P>> ELSE <<3, Order - P>>

\* 0: not a point.
ecdsa_read_pubkey(key) ==
  IF key[1] \notin {2, 3} \/ key[2] \notin 1..(Order \div 2) THEN 0
  ELSE IF key[1] = 2 THEN key[2] ELSE Order - key[2]

\* A key of the 25519 curves stands for the scalar it is the multiple of.
Of25519(node) == <<node.curve, node.private_key, node.private_key_extension>>

hdnode_fill_public_key(node) ==
  IF node.public_key[1] # 0 THEN node
  ELSE [node EXCEPT !.public_key =
          IF params(node) THEN Compressed(node.private_key) ELSE <<1, Of25519(node)>>]

hdnode_fingerprint(node) == <<"fingerprint", hdnode_fill_public_key(node).public_key>>
-----------------------------------------------------------------------------
(* Making nodes *)

hdnode_from_xpub(depth, child_num, chain_code, public_key, curve) ==
  IF ~KnownCurve(curve) \/ public_key[1] \notin {2, 3} THEN Failed
  ELSE Made([NoNode EXCEPT !.curve = curve, !.depth = depth, !.child_num = child_num,
                           !.chain_code = chain_code, !.public_key = public_key])

hdnode_from_xprv(depth, child_num, chain_code, private_key, curve) ==
  IF ~KnownCurve(curve) THEN Failed
  ELSE IF get_curve_by_name[curve].params /\ ~InOrder(private_key) THEN Failed
  ELSE Made([NoNode EXCEPT !.curve = curve, !.depth = depth, !.child_num = child_num,
                           !.chain_code = chain_code, !.private_key = private_key])

\* HMAC over its own output until there is a key.
FirstKey(curve, seed) ==
  LET try[k \in 0..MaxTries] ==
        IF k = 0 THEN SeedHmac(curve, <<seed>>)
        ELSE LET I == try[k - 1] IN IF InOrder(I.l) THEN I ELSE SeedHmac(curve, <<I.l, I.r>>)
  IN try[MaxTries]

hdnode_from_seed(seed, curve) ==
  LET Master(I) == Made([NoNode EXCEPT !.curve = curve, !.private_key = I.l, !.chain_code = I.r])
  IN IF ~KnownCurve(curve) THEN Failed
     ELSE Master(IF get_curve_by_name[curve].params THEN FirstKey(curve, seed) ELSE SeedHmac(curve, <<seed>>))
-----------------------------------------------------------------------------
(* Children *)

\* What the first HMAC of a child takes, and what the next ones take.
ParentData(node, i) ==
  IF i >= Hardened THEN <<0, node.private_key, i>>
  ELSE <<node.public_key[1], node.public_key[2], i>>

Again(I, i) == <<1, I.r, i>>

\* Halves of the first HMAC that Suits, or of the last one tried.
FirstThat(Suits(_), chain_code, data, i) ==
  LET try[k \in 0..MaxTries] ==
        IF k = 0 THEN Hmac(chain_code, data)
        ELSE LET I == try[k - 1] IN IF Suits(I) THEN I ELSE Hmac(chain_code, Again(I, i))
  IN try[MaxTries]

PrivateSuits(I, a) == I.l < Order /\ (I.l + a) % Order # 0

ChildOf(node, i, I) ==
  [node EXCEPT !.private_key = IF params(node) THEN (I.l + @) % Order ELSE I.l,
               !.chain_code = I.r, !.depth = @ + 1, !.child_num = i, !.public_key = NoPublic]

PrivateChild(node, i) ==
  ChildOf(node, i,
    IF params(node)
    THEN FirstThat(LAMBDA I : PrivateSuits(I, node.private_key), node.chain_code, ParentData(node, i), i)
    ELSE Hmac(node.chain_code, ParentData(node, i)))

\* A fault: the child keeps the public key its parent had been asked for.
FaultyPrivateCkd(node, i) ==
  IF i < Hardened /\ ~params(node) THEN Failed
  ELSE Made([PrivateChild(IF i < Hardened THEN hdnode_fill_public_key(node) ELSE node, i)
               EXCEPT !.public_key = node.public_key])

hdnode_private_ckd(node, i) ==
  IF i < Hardened /\ ~params(node) THEN Failed
  ELSE Made(PrivateChild(IF i < Hardened THEN hdnode_fill_public_key(node) ELSE node, i))

\* A fault: only the range of the left half is looked at.
FaultyPublicSuits(I, parent) == I.l < Order
PublicSuits(I, parent) == I.l < Order /\ (I.l + parent) % Order # 0

\* The child's point and chain code.
hdnode_public_ckd_cp(parent, chain_code, i) ==
  LET Child(I) == [ok |-> TRUE, point |-> (I.l + parent) % Order, chain_code |-> I.r]
  IN IF i >= Hardened THEN [ok |-> FALSE]
     ELSE Child(FirstThat(LAMBDA I : PublicSuits(I, parent), chain_code,
                          <<Compressed(parent)[1], Compressed(parent)[2], i>>, i))

PublicChild(node, i, child) ==
  IF ~child.ok THEN Failed
  ELSE Made([node EXCEPT !.private_key = 0, !.depth = @ + 1, !.child_num = i,
                         !.chain_code = child.chain_code, !.public_key = Compressed(child.point)])

hdnode_public_ckd(node, i) ==
  IF ecdsa_read_pubkey(node.public_key) = 0 THEN Failed
  ELSE PublicChild(node, i, hdnode_public_ckd_cp(ecdsa_read_pubkey(node.public_key), node.chain_code, i))

\* A whole path, in place: where a step fails the node stays at its parent.
\* fingerprint: that of the last node's parent, which is asked for its
\* public key.
Step(s, i) ==
  LET child == hdnode_private_ckd(s.node, i)
  IN IF ~s.ok THEN s ELSE [ok |-> child.ok, node |-> IF child.ok THEN child.node ELSE s.node]

Descendant(node, path) ==
  LET after[k \in 0..Len(path)] == IF k = 0 THEN Made(node) ELSE Step(after[k - 1], path[k])
  IN after[Len(path)]

ThenLast(parent, i) ==
  LET child == Step([parent EXCEPT !.node = hdnode_fill_public_key(@)], i)
  IN IF ~parent.ok THEN parent
     ELSE [ok |-> child.ok, node |-> child.node, fingerprint |-> hdnode_fingerprint(parent.node)]

hdnode_private_ckd_cached(node, path) ==
  IF path = <<>> THEN Made(node)
  ELSE ThenLast(Descendant(node, SubSeq(path, 1, Len(path) - 1)), path[Len(path)])
-----------------------------------------------------------------------------
(* Addresses *)

RawAddress(public_key, version) == <<"p2pkh", version, public_key>>
RawSegwitAddress(public_key, version) == <<"p2sh", version, public_key>>

AddressOf(point, version, addrformat) ==
  IF addrformat = 1 THEN RawSegwitAddress(Compressed(point), version)
  ELSE RawAddress(Compressed(point), version)

\* addrsize: room for the text, enough, enough: what it takes.
hdnode_public_ckd_address_optimized(pub, chain_code, i, version, addrsize, addrformat, enough) ==
  LET child == hdnode_public_ckd_cp(pub, chain_code, i)
  IN IF addrsize = 0 \/ ~child.ok \/ addrsize < enough THEN [ok |-> FALSE]
     ELSE [ok |-> TRUE, addr |-> AddressOf(child.point, version, addrformat)]

hdnode_get_address_raw(node, version) ==
  RawAddress(hdnode_fill_public_key(node).public_key, version)

\* From the private key, whatever public key the node holds.
hdnode_get_ethereum_pubkeyhash(node) == <<"keccak", node.private_key>>
-----------------------------------------------------------------------------
(* Cardano's tree: two halves of a private key, both extended. *)

scalar_multiply8(z) == (8 * (z % ZlWords)) % WordRange
scalar_add_256bits(a, b) == (a + b) % WordRange

CardanoLeft(z, k) == scalar_add_256bits(scalar_multiply8(z), k)

CardanoChild(node, i, z, next) ==
  [node EXCEPT !.private_key = CardanoLeft(z.l, @),
               !.private_key_extension = scalar_add_256bits(z.r, @),
               !.chain_code = next.r, !.depth = @ + 1, !.child_num = i, !.public_key = NoPublic]

CardanoData(node, i, what) ==
  IF i >= Hardened THEN <<what, node.private_key, node.private_key_extension, i>>
  ELSE <<what + 2>> \o Tail(node.public_key[2]) \o <<i>>

hdnode_private_ckd_cardano(node, i) ==
  LET parent == IF i >= Hardened THEN node ELSE hdnode_fill_public_key(node)
  IN Made(CardanoChild(node, i, Hmac(node.chain_code, CardanoData(parent, i, 0)),
                       Hmac(node.chain_code, CardanoData(parent, i, 1))))

\* secret: 96 bytes of PBKDF2.  The lowest three bits, the highest and the
\* third highest are cleared, the second highest is set.
hdnode_from_seed_cardano(secret) ==
  LET l == (secret[1] \div 8) * 8
  IN Made(hdnode_fill_public_key(
       [NoNode EXCEPT !.curve = "cardano", !.private_key = CardanoTop + (l % (CardanoTop \div 2)),
                      !.private_key_extension = secret[2], !.chain_code = secret[3]]))
-----------------------------------------------------------------------------
(* Signing and shared keys *)

NoSignature == <<0>>

Signed25519(node, msg) ==
  [status |-> 0, sig |-> <<node.curve, node.private_key, node.public_key, msg>>, node |-> node]

hdnode_sign(node, msg) ==
  IF params(node) THEN [status |-> 0, sig |-> <<"ecdsa", node.private_key, msg>>, node |-> node]
  ELSE IF node.curve \in {"ed25519", "keccak"} THEN Signed25519(hdnode_fill_public_key(node), msg)
  ELSE [status |-> 1, sig |-> NoSignature, node |-> node]

\* Peers of the 25519 curves: a public key, a point of small order, or bytes
\* that no point of the Edwards curve has.
SmallOrder == <<"small order">>
NotAPoint  == <<"not a point">>

\* A fault: a secret that is 0 is handed out.
FaultyScalarmult(node, peer) == {Of25519(node), peer}

\* The same from both sides; 0, or the neutral point, for everybody with a point
\* of small order, whose multiples by eight it is.
SharedPoint(node, peer) ==
  IF peer = SmallOrder THEN {} ELSE {Of25519(node), peer}

ecdh_multiply(private_key, peer) ==
  IF ecdsa_read_pubkey(peer) = 0 THEN [status |-> 1]
  ELSE [status |-> 0, size |-> 65, key |-> (private_key * ecdsa_read_pubkey(peer)) % Order]

WithSecret(secret) ==
  IF secret = {} THEN [status |-> 1, size |-> 0] ELSE [status |-> 0, size |-> 33, key |-> secret]

hdnode_get_shared_key(node, peer) ==
  IF params(node) THEN ecdh_multiply(node.private_key, peer)
  ELSE IF node.curve # "curve25519" THEN [status |-> 1, size |-> 0]
  ELSE IF peer[1] # 64 THEN [status |-> 1]
  ELSE WithSecret(SharedPoint(node, peer[2]))

\* Nothing is asked of the point but that it be one.
hdnode_get_nem_shared_key(node, peer, salt) ==
  IF node.curve # "keccak" \/ peer = NotAPoint THEN [ok |-> FALSE]
  ELSE [ok |-> TRUE, key |-> <<SharedPoint(node, peer), salt>>]

CipherBlocks(payload) ==
  [b \in 1..(Len(payload) \div NemBlock) |->
     SubSeq(payload, (b - 1) * NemBlock + 1, b * NemBlock)]

aes_cbc_encrypt(key, iv, blocks) ==
  LET c[b \in 0..Len(blocks)] == IF b = 0 THEN iv ELSE <<key, c[b - 1], blocks[b]>>
  IN [iv |-> c[Len(blocks)], out |-> [b \in 1..Len(blocks) |-> c[b]]]

aes_cbc_decrypt(key, iv, blocks) ==
  LET plain == [b \in DOMAIN blocks |->
        IF blocks[b][1] = key /\ blocks[b][2] = (IF b = 1 THEN iv ELSE blocks[b - 1]) THEN blocks[b][3]
        ELSE [k \in 1..NemBlock |-> 0]]
  IN [k \in 1..(NemBlock * Len(blocks)) |-> plain[((k - 1) \div NemBlock) + 1][((k - 1) % NemBlock) + 1]]

LastBlock(payload) ==
  LET remainder == Len(payload) % NemBlock
  IN SubSeq(payload, (Len(payload) - remainder) + 1, Len(payload))
       \o [k \in 1..(NemBlock - remainder) |-> NemBlock - remainder]

\* The whole blocks, and then the padded one with the iv that they left.
InTwo(key, iv, payload) ==
  LET whole == aes_cbc_encrypt(key, iv, CipherBlocks(payload))
  IN whole.out \o aes_cbc_encrypt(key, whole.iv, CipherBlocks(LastBlock(payload))).out

hdnode_nem_encrypt(node, peer, iv, salt, payload) ==
  LET shared == hdnode_get_nem_shared_key(node, peer, salt)
  IN IF ~shared.ok THEN shared ELSE [ok |-> TRUE, buffer |-> InTwo(shared.key, iv, payload)]

hdnode_nem_decrypt(node, peer, iv, salt, payload) ==
  LET shared == hdnode_get_nem_shared_key(node, peer, salt)
  IN IF ~shared.ok THEN shared ELSE [ok |-> TRUE, buffer |-> aes_cbc_decrypt(shared.key, iv, payload)]

NEM_PADDING_SIZE(buffer) ==
  IF buffer[Len(buffer)] > Len(buffer) THEN Len(buffer) ELSE buffer[Len(buffer)]

NEM_DECRYPTED_SIZE(buffer) == Len(buffer) - NEM_PADDING_SIZE(buffer)
-----------------------------------------------------------------------------
(* Texts *)

hdnode_serialize(node, fingerprint, version, use_public) ==
  [hasher |-> get_curve_by_name[node.curve].hasher_base58, version |-> version,
   depth |-> node.depth % DepthMod, fingerprint |-> fingerprint, child_num |-> node.child_num,
   chain_code |-> node.chain_code,
   key |-> IF use_public THEN node.public_key ELSE <<0, node.private_key>>]

hdnode_serialize_public(node, fingerprint, version) == hdnode_serialize(node, fingerprint, version, TRUE)
hdnode_serialize_private(node, fingerprint, version) == hdnode_serialize(node, fingerprint, version, FALSE)

KeyRefused(t, curve, private) ==
  IF private THEN t.key[1] # 0 \/ (get_curve_by_name[curve].params /\ ~InOrder(t.key[2]))
  ELSE IF get_curve_by_name[curve].params THEN ecdsa_read_pubkey(t.key) = 0 ELSE t.key[1] # 1

ReadNode(t, curve, private) ==
  [NoNode EXCEPT !.curve = curve, !.depth = t.depth, !.child_num = t.child_num, !.chain_code = t.chain_code,
                 !.private_key = IF private THEN t.key[2] ELSE 0,
                 !.public_key = IF private THEN NoPublic ELSE t.key]

hdnode_deserialize(t, version_public, version_private, curve) ==
  IF ~KnownCurve(curve) THEN [ret |-> -4]
  ELSE IF t.hasher # get_curve_by_name[curve].hasher_base58 THEN [ret |-> -1]
  ELSE IF t.version \notin {version_public, version_private} THEN [ret |-> -3]
  ELSE IF KeyRefused(t, curve, t.version # version_public) THEN [ret |-> -2]
  ELSE [ret |-> 0, node |-> ReadNode(t, curve, t.version # version_public), fingerprint |-> t.fingerprint]
=============================================================================
