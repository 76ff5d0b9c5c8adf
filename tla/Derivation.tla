----------------------------- MODULE Derivation -----------------------------
(***************************************************************************)
(* Who holds nodes of a tree, and what they do with them.  A keeper has    *)
(* the seed and goes down the tree with private keys; a watcher has the    *)
(* public text of one of its nodes and goes down from there with points    *)
(* alone; an app asks Wallet.swift for the key of a whole path until the   *)
(* wallet is cleared.  Shared keys and NEM messages are exchanged with a   *)
(* peer that has another seed.                                             *)
(***************************************************************************)
EXTENDS HDNode

CONSTANTS
  Seeds,         \* what wallets are made from
  PeerSeed,      \* the peer's
  Secret,        \* PBKDF2's 96 bytes for Cardano, as numbers: seed -> three numbers
  ChildIndices,
  Payloads,      \* NEM messages, as sequences of bytes
  MaxDepth,      \* bound: generations
  Paths          \* paths asked for in one go

ASSUME DerivationAssumption ==
  /\ ChildIndices \subseteq Nat /\ Paths \subseteq Seq(ChildIndices) /\ Payloads \subseteq Seq(Nat)
  /\ MaxDepth \in Nat /\ MaxDepth < DepthMod
  /\ \A s \in Seeds \cup {PeerSeed} : Secret[s] \in Nat \X Nat \X Nat

VARIABLES
  family,        \* the name of the keeper's curve
  seedOf,        \* the keeper's seed
  keeper,        \* its node
  route,         \* and the node's path
  watcher,       \* the watcher's node
  watched,       \* and its path from the seed
  retained,      \* the wallet has not been cleared
  answer         \* the last call and what it returned

derivevars == <<family, seedOf, keeper, route, watcher, watched, retained, answer>>

Nothing == [call |-> "none"]

Opened(name, s) ==
  IF name = "cardano" THEN hdnode_from_seed_cardano(Secret[s]).node ELSE hdnode_from_seed(s, name).node

ckd(node, i) == IF node.curve = "cardano" THEN hdnode_private_ckd_cardano(node, i) ELSE hdnode_private_ckd(node, i)

DeriveInit ==
  /\ family \in DOMAIN get_curve_by_name
  /\ seedOf \in Seeds
  /\ keeper = Opened(family, seedOf) /\ route = <<>>
  /\ watcher = NoNode /\ watched = <<>>
  /\ retained = TRUE
  /\ answer = Nothing

Idle == answer = Nothing

\* The caller has taken the result.
Taken ==
  /\ ~Idle
  /\ answer' = Nothing
  /\ UNCHANGED <<family, seedOf, keeper, route, watcher, watched, retained>>

Derive(i) ==
  /\ Idle /\ Len(route) < MaxDepth
  /\ ckd(keeper, i).ok
  /\ keeper' = ckd(keeper, i).node
  /\ route' = Append(route, i)
  /\ UNCHANGED <<family, seedOf, watcher, watched, retained, answer>>

FillPublicKey ==
  /\ Idle
  /\ keeper' = hdnode_fill_public_key(keeper)
  /\ UNCHANGED <<family, seedOf, route, watcher, watched, retained, answer>>

Sign ==
  LET r == hdnode_sign(keeper, "msg")
  IN /\ Idle
     /\ answer' = [call |-> "sign", status |-> r.status, sig |-> r.sig]
     /\ keeper' = r.node
     /\ UNCHANGED <<family, seedOf, route, watcher, watched, retained>>

\* What a text says of the parent is its writer's to know.
Parents == <<"fingerprint", "parent">>

\* A public text from which somebody starts to watch.
Publish ==
  LET t == hdnode_serialize_public(keeper, Parents, "public")
      r == hdnode_deserialize(t, "public", "private", family)
  IN /\ Idle /\ watcher = NoNode
     /\ params(keeper) /\ r.ret = 0
     /\ watcher' = r.node /\ watched' = route
     /\ UNCHANGED <<family, seedOf, keeper, route, retained, answer>>

Watch(i) ==
  /\ Idle /\ Len(watched) < MaxDepth
  /\ watcher # NoNode /\ hdnode_public_ckd(watcher, i).ok
  /\ watcher' = hdnode_public_ckd(watcher, i).node
  /\ watched' = Append(watched, i)
  /\ UNCHANGED <<family, seedOf, keeper, route, retained, answer>>

\* A text is read by somebody who takes it for one of another curve, or
\* for another network.
ReadText(use_public, name, network) ==
  LET t == hdnode_serialize(keeper, Parents, IF use_public THEN "public" ELSE "private", use_public)
  IN /\ Idle
     /\ answer' = [call |-> "read", text |-> t, curve |-> name, network |-> network,
                 result |-> IF network = "main" THEN hdnode_deserialize(t, "public", "private", name)
                            ELSE hdnode_deserialize(t, "test public", "test private", name)]
     /\ UNCHANGED <<family, seedOf, keeper, route, watcher, watched, retained>>

\* The keeper goes on with the node that its private text gives.  A Cardano
\* node is not kept as a text: half of its key would be lost.
Restore ==
  LET r == hdnode_deserialize(hdnode_serialize_private(keeper, Parents, "private"), "public", "private", family)
  IN /\ Idle /\ family # "cardano" /\ r.ret = 0
     /\ keeper' = r.node
     /\ UNCHANGED <<family, seedOf, route, watcher, watched, retained, answer>>

\* Addresses below the watcher's node, whose point the caller has read.  The
\* text of an address takes 35.
ReceiveAt(i, addrformat, addrsize) ==
  /\ Idle /\ watcher # NoNode
  /\ ecdsa_read_pubkey(watcher.public_key) # 0
  /\ answer' = [call |-> "receive", i |-> i, format |-> addrformat, size |-> addrsize,
              result |-> hdnode_public_ckd_address_optimized(ecdsa_read_pubkey(watcher.public_key),
                           watcher.chain_code, i, 0, addrsize, addrformat, 35)]
  /\ UNCHANGED <<family, seedOf, keeper, route, watcher, watched, retained>>

InOneGo(path) ==
  LET r == hdnode_private_ckd_cached(keeper, path)
  IN /\ Idle /\ family # "cardano"
     /\ Len(route) + Len(path) <= MaxDepth
     /\ answer' = [call |-> "path", from |-> route, path |-> path, result |-> r]
     /\ keeper' = r.node
     /\ route' = route \o SubSeq(path, 1, r.node.depth - keeper.depth)
     /\ UNCHANGED <<family, seedOf, watcher, watched, retained>>

\* Wallet.getKey, and the address of the key, under the wallet's lock.
GetKey(path) ==
  LET node == Descendant(hdnode_from_seed(seedOf, "secp256k1").node, path)
  IN /\ Idle /\ family = "secp256k1"
     /\ answer' = [call |-> "key", path |-> path,
                 result |-> IF ~retained \/ ~node.ok THEN [ok |-> FALSE]
                            ELSE [ok |-> TRUE, private_key |-> node.node.private_key,
                                  address |-> hdnode_get_ethereum_pubkeyhash(node.node)]]
     /\ UNCHANGED <<family, seedOf, keeper, route, watcher, watched, retained>>

Clear ==
  /\ Idle /\ retained /\ family = "secp256k1"
  /\ retained' = FALSE
  /\ UNCHANGED <<family, seedOf, keeper, route, watcher, watched, answer>>

-----------------------------------------------------------------------------
(* The peer, at the top of its own tree *)

Peer == hdnode_fill_public_key(Opened(family, PeerSeed))

\* A node's public key as the other side is given it.
Given(node) ==
  IF family = "curve25519" THEN <<64, hdnode_fill_public_key(node).public_key[2]>>
  ELSE hdnode_fill_public_key(node).public_key

Share(small) ==
  /\ Idle
  /\ answer' = [call |-> "share", small |-> small,
              ours |-> hdnode_get_shared_key(keeper, IF small THEN <<64, SmallOrder>> ELSE Given(Peer)),
              theirs |-> hdnode_get_shared_key(Peer, Given(keeper))]
  /\ UNCHANGED <<family, seedOf, keeper, route, watcher, watched, retained>>

MessageIv == <<"iv">>

\* What both sides may have been given in place of each other's key; Each for
\* the key itself.
Each == <<"key">>
PointOf(instead, node) == IF instead = Each THEN hdnode_fill_public_key(node).public_key[2] ELSE instead

SendMessage(instead, payload) ==
  LET sealed == hdnode_nem_encrypt(keeper, PointOf(instead, Peer), MessageIv, "salt", payload)
  IN /\ Idle /\ family = "keccak"
     /\ answer' = [call |-> "message", payload |-> payload, instead |-> instead,
                 result |-> IF ~sealed.ok THEN sealed
                            ELSE hdnode_nem_decrypt(Peer, PointOf(instead, keeper), MessageIv, "salt", sealed.buffer)]
     /\ UNCHANGED <<family, seedOf, keeper, route, watcher, watched, retained>>

DeriveNext ==
  \/ \E i \in ChildIndices : Derive(i) \/ Watch(i)
  \/ FillPublicKey \/ Sign \/ Publish \/ Restore \/ Clear \/ Taken
  \/ \E use_public \in BOOLEAN, name \in DOMAIN get_curve_by_name \cup {"unknown"}, network \in {"main", "test"} :
        ReadText(use_public, name, network)
  \/ \E i \in ChildIndices, addrformat \in {0, 1}, addrsize \in {0, 34, 35} : ReceiveAt(i, addrformat, addrsize)
  \/ \E path \in Paths : InOneGo(path) \/ GetKey(path)
  \/ \E small \in BOOLEAN : Share(small)
  \/ \E instead \in {Each, SmallOrder, NotAPoint}, payload \in Payloads : SendMessage(instead, payload)

DeriveSpec == DeriveInit /\ [][DeriveNext]_derivevars
-----------------------------------------------------------------------------
(* Properties *)

\* The node at the end of a path, by private keys.
Walked(root, path) ==
  LET at[k \in 0..Len(path)] == IF k = 0 THEN root ELSE ckd(at[k - 1], path[k]).node
  IN at[Len(path)]

\* The node at a path from the seed, asked for no public key.
NodeAt(path) == [Walked(Opened(family, seedOf), path) EXCEPT !.public_key = NoPublic]

PublicPart(node) == [hdnode_fill_public_key(node) EXCEPT !.private_key = 0]

\* A watcher who derives with points reaches the public part of the very node
\* that the private keys lead to, chain code and number included: both sides
\* skip the same useless HMACs.
PublicFollowsPrivate == watcher # NoNode => watcher = PublicPart(NodeAt(watched))

\* A node's public key, once asked for, is its private key's, also below the
\* node that was asked; its private key is in range, and has an extension on
\* Cardano's curve alone; so a signature is made with the two keys of one pair,
\* or refused and cleared.
KeysBelongTogether ==
  /\ keeper.public_key # NoPublic =>
       keeper.public_key = hdnode_fill_public_key([keeper EXCEPT !.public_key = NoPublic]).public_key
  /\ KnownCurve(family) /\ params(keeper) => InOrder(keeper.private_key)
  /\ family # "cardano" => keeper.private_key_extension = 0
  /\ answer.call = "sign" =>
       IF family \in {"cardano", "curve25519"} THEN answer.status = 1 /\ answer.sig = NoSignature
       ELSE answer.status = 0 /\ (~params(keeper) => answer.sig[3] = <<1, Of25519(keeper)>>)

\* What a text says of a node: all but the extension of its private key.
Told(node) == [node EXCEPT !.private_key_extension = 0]

\* A text reads back to the node it was written from, or its public part, but
\* for the extension, which no text has; taken for another curve or network it
\* is refused, or has a key that is one of that curve.
TextsReadBack ==
  answer.call = "read" =>
    LET t == answer.text
        r == answer.result
    IN /\ r.ret = 0 =>
            /\ r.fingerprint = t.fingerprint
            /\ r.node.chain_code = keeper.chain_code /\ r.node.child_num = keeper.child_num
            /\ r.node.depth = keeper.depth /\ r.node.curve = answer.curve
            /\ <<r.node.private_key, r.node.public_key>> \in
                 {<<keeper.private_key, NoPublic>>, <<0, hdnode_fill_public_key(keeper).public_key>>}
            /\ params(r.node) =>
                 InOrder(r.node.private_key) \/ ecdsa_read_pubkey(r.node.public_key) # 0
            /\ answer.network = "main"
            /\ answer.curve = family =>
                 r.node = IF t.version = "private" THEN [Told(keeper) EXCEPT !.public_key = NoPublic]
                          ELSE Told(PublicPart(keeper))
       /\ answer.curve = family /\ answer.network = "main" =>
            (r.ret # 0) = (t.version = "public" /\ t.key = NoPublic)

\* The short way to an address gives the address of the child that the
\* watcher would derive, or nothing if it does not fit or is hardened.
AddressIsChilds ==
  answer.call = "receive" =>
    LET child == hdnode_public_ckd(watcher, answer.i)
    IN /\ answer.result.ok = (answer.i < Hardened /\ answer.size >= 35)
       /\ answer.result.ok =>
            answer.result.addr =
              (IF answer.format = 1 THEN RawSegwitAddress(child.node.public_key, 0)
               ELSE hdnode_get_address_raw(child.node, 0))

\* A path in one go leads to the node that its steps lead to, with the
\* fingerprint of that node's parent; where a step is refused, the node stays
\* at the parent of that step.  The wallet's keys are those of the path from
\* its seed until it is cleared, and there are none afterwards.
PathIsItsSteps ==
  /\ [keeper EXCEPT !.public_key = NoPublic] = NodeAt(route)
  /\ answer.call = "path" =>
       LET refused == {k \in DOMAIN answer.path : ~params(keeper) /\ answer.path[k] < Hardened}
       IN /\ answer.result.ok = (refused = {})
          /\ route = answer.from \o (IF refused = {} THEN answer.path ELSE SubSeq(answer.path, 1, Min(refused) - 1))
          /\ answer.result.ok /\ answer.path # <<>> =>
               answer.result.fingerprint = hdnode_fingerprint(NodeAt(SubSeq(route, 1, Len(route) - 1)))
  /\ answer.call = "key" =>
       /\ answer.result.ok = retained
       /\ retained => /\ answer.result.private_key = NodeAt(answer.path).private_key
                      /\ answer.result.address = hdnode_get_ethereum_pubkeyhash(NodeAt(answer.path))

\* Both sides get one shared key or none, and on curve25519 never the one that a
\* point of small order gives everybody.
SharedKeysAgree ==
  answer.call = "share" =>
    IF answer.small THEN answer.ours.status = 1
    ELSE /\ answer.ours = answer.theirs
         /\ answer.ours.status = 0 => params(keeper) \/ family = "curve25519"
         /\ answer.ours.status = 0 /\ params(keeper) => answer.ours.key # 0

\* A NEM message reads as it was written, whatever its length, and is not sealed
\* for what is no point.  It is for a point of small order: both sides then have
\* the key that everybody has.
MessageReads ==
  answer.call = "message" =>
    /\ answer.result.ok = (answer.instead # NotAPoint)
    /\ answer.result.ok =>
         /\ answer.result.buffer # <<>>
         /\ SubSeq(answer.result.buffer, 1, NEM_DECRYPTED_SIZE(answer.result.buffer)) = answer.payload

\* Below a Cardano root the left halves stay multiples of eight, below 2^255
\* and above 2^254, as the curve's scalars must; chains of children add up
\* without a carry out of the 32 bytes.
CardanoKeysAreScalars ==
  family = "cardano" =>
    /\ keeper.private_key % 8 = 0
    /\ keeper.private_key \in CardanoTop..(2 * CardanoTop - 1)

\* A watch-only wallet sees the addresses that the private keys can spend
\* from, at every depth and by both ways to an address.
WatcherFollows == PublicFollowsPrivate /\ AddressIsChilds

\* The node in hand is the one its path says, however it was reached: step by
\* step, in one go, through a refused step, or from a text; and its two keys
\* belong together.
NodeIsItsPath == PathIsItsSteps /\ KeysBelongTogether /\ TextsReadBack /\ CardanoKeysAreScalars

\* Two owners of keys come to one secret, and read each other's messages.
PeersAgree == SharedKeysAgree /\ MessageReads
=============================================================================
