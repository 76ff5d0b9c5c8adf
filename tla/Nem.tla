--------------------------------- MODULE Nem ---------------------------------
(***************************************************************************)
(* nem.c: transactions written field by field into a buffer of the         *)
(* caller's.  The fields of one block are written all or none; a           *)
(* transaction of several blocks that fails at a later one is left with    *)
(* the earlier ones in the buffer, to be thrown away.                      *)
(*                                                                         *)
(* A field is its size in bytes and its value; a buffer the sequence of    *)
(* the fields written so far.  A text or a blob is its value and length;   *)
(* a hash is what it is of, an address its network and key.                *)
(***************************************************************************)
EXTENDS Base58

CONSTANTS
  UINT32_MAX,
  NoArgument           \* NULL

(***************************************************************************)
(* base32.c: five bytes as eight characters, with shorter groups at the    *)
(* end.  Only lengths that no encoding has are refused: the bits below the *)
(* last byte of a short group are not looked at.                           *)
(***************************************************************************)

Done(v) == [ok |-> TRUE, v |-> v]

\* 'A'..'Z', '2'..'7'
base32_encode_character(decoded) == IF decoded < 26 THEN 65 + decoded ELSE 24 + decoded

base32_decode_character(encoded) ==
  IF encoded \in 65..90 THEN encoded - 65
  ELSE IF encoded \in 97..122 THEN encoded - 97
  ELSE IF encoded \in 50..55 THEN encoded - 24
  ELSE -1

base32_encoded_length(inlen) == (inlen \div 5) * 8 + ((inlen % 5) * 8 + 4) \div 5
base32_decoded_length(inlen) == (inlen \div 8) * 5 + ((inlen % 8) * 5) \div 8

ByteAt(in, i) == IF i <= Len(in) THEN in[i] ELSE 0

\* The characters that in's bits reach, the last filled with zeros.
base32_5to8(in) ==
  LET b(i) == ByteAt(in, i)
      all == << b(1) \div 8, (b(1) % 8) * 4 + b(2) \div 64, (b(2) \div 2) % 32,
                (b(2) % 2) * 16 + b(3) \div 16, (b(3) % 16) * 2 + b(4) \div 128, (b(4) \div 4) % 32,
                (b(4) % 4) * 8 + b(5) \div 32, b(5) % 32 >>
  IN SubSeq(all, 1, base32_encoded_length(Len(in)))

base32_8to5_raw(in) ==
  LET d(i) == ByteAt(in, i)
      all == << (d(1) * 8 + d(2) \div 4) % 256, (d(2) % 4) * 64 + d(3) * 2 + d(4) \div 16,
                (d(4) % 16) * 16 + d(5) \div 2, (d(5) % 2) * 128 + d(6) * 4 + d(7) \div 8,
                (d(7) % 8) * 32 + d(8) >>
  IN SubSeq(all, 1, base32_decoded_length(Len(in)))

base32_8to5(in) ==
  LET decoded == [i \in DOMAIN in |-> base32_decode_character(in[i])]
  IN IF Len(in) \in {1, 3, 6} \/ Len(in) > 8 THEN Refused
     ELSE IF \E i \in DOMAIN decoded : decoded[i] = -1 THEN Refused
     ELSE Done(base32_8to5_raw(decoded))

Groups(in, size) ==
  [k \in 1..((Len(in) + size - 1) \div size) |->
     SubSeq(in, (k - 1) * size + 1, IF k * size < Len(in) THEN k * size ELSE Len(in))]

base32_encode_unsafe(in) ==
  Joined([k \in DOMAIN Groups(in, 5) |-> base32_5to8(Groups(in, 5)[k])])

base32_decode_unsafe(in) ==
  Fold(LAMBDA out, g : LET r == base32_8to5(g)
                           IN IF out.ok /\ r.ok THEN Done(out.v \o r.v) ELSE Refused,
           Done(<<>>), Groups(in, 8))

AsText(symbols) == Evaluated([i \in DOMAIN symbols |-> base32_encode_character(symbols[i])])

base32_encode(in, outlen) ==
  IF outlen <= base32_encoded_length(Len(in)) THEN Refused
  ELSE Done(AsText(base32_encode_unsafe(in)))

base32_decode(in, outlen) ==
  IF outlen < base32_decoded_length(Len(in)) THEN Refused ELSE base32_decode_unsafe(in)

-----------------------------------------------------------------------------
(* The addresses of nem.c: 25 bytes as 40 characters *)

NEM_ADDRESS_SIZE == 40
NEM_ADDRESS_SIZE_RAW == 25

nem_network_name(network) ==
  CASE network = 104 -> "NEM Mainnet" [] network = 152 -> "NEM Testnet" [] network = 96 -> "Mijin"
    [] OTHER -> ""

WithSum(bytes) == bytes \o SubSeq(Digest("keccak", bytes), 1, 4)

nem_get_address_raw(public_key, version) ==
  WithSum(<<version>> \o SubSeq(Digest("ripemd160", Digest("keccak", public_key)), 1, 20))

nem_get_address(public_key, version) ==
  base32_encode(nem_get_address_raw(public_key, version), NEM_ADDRESS_SIZE + 1)

nem_validate_address_raw(address, network) ==
  /\ nem_network_name(network) # "" /\ address[1] = network
  /\ address = WithSum(SubSeq(address, 1, 21))

nem_validate_address(address, network) ==
  LET d == base32_decode(address, NEM_ADDRESS_SIZE_RAW)
  IN /\ Len(address) = NEM_ADDRESS_SIZE
     /\ d.ok
     /\ nem_validate_address_raw(d.v, network)

-----------------------------------------------------------------------------
(* Transactions *)

PUBLIC_KEY == 32
SHA3_256_DIGEST_LENGTH == 32

Field(size, v) == [size |-> size, v |-> v]
Blob(v, length) == [v |-> v, length |-> length]

SizeOf(fields) ==
  LET n[i \in 0..Len(fields)] == IF i = 0 THEN 0 ELSE n[i - 1] + fields[i].size IN n[Len(fields)]

-----------------------------------------------------------------------------
(* Writing a block *)

serialize_u32(data) == <<Field(4, data)>>
serialize_u64(data) == <<Field(8, data)>>

\* A length is a size_t that is cut to 32 bits.
serialize_length(n) == <<Field(4, n % (UINT32_MAX + 1))>>

\* A length and as many bytes.
serialize_write(blob) == serialize_length(blob.length) \o <<Field(blob.length, blob.v)>>

nem_reserve(remaining, fields) == SizeOf(fields) <= remaining

nem_transaction_start(public_key, size) ==
  [ok |-> TRUE, key |-> public_key, buffer |-> <<>>, size |-> size]

offset(ctx) == SizeOf(ctx.buffer)

Serialize(ctx, fields) ==
  IF ~ctx.ok THEN ctx
  ELSE IF /\ nem_reserve(ctx.size - offset(ctx), fields)
          /\ \A i \in DOMAIN fields : fields[i].size <= UINT32_MAX
  THEN [ctx EXCEPT !.buffer = @ \o fields]
  ELSE [ctx EXCEPT !.ok = FALSE]

nem_write_mosaic_str(ctx, name, value) ==
  Serialize(ctx, serialize_length(4 + name.length + 4 + value.length)
                   \o serialize_write(name) \o serialize_write(value))

nem_write_mosaic_bool(ctx, name, value) ==
  nem_write_mosaic_str(ctx, name, IF value THEN Blob("true", 4) ELSE Blob("false", 5))

\* value: the number as its decimal digits.
nem_write_mosaic_u64(ctx, name, value) == nem_write_mosaic_str(ctx, name, value)

-----------------------------------------------------------------------------
(* Transactions.  a has the arguments that all of them take.               *)

Signer(ctx, a) == IF a.signer = NoArgument THEN ctx.key ELSE a.signer

KeyBlob(k) == Blob(k, PUBLIC_KEY)
Address(x) == Blob(x, NEM_ADDRESS_SIZE)

nem_transaction_write_common(ctx, type, edition, a) ==
  Serialize(ctx, serialize_u32(type) \o serialize_u32(<<a.network, edition>>)
                   \o serialize_u32(a.timestamp) \o serialize_write(KeyBlob(Signer(ctx, a)))
                   \o serialize_u64(a.fee) \o serialize_u32(a.deadline))

Identifier(namespace, mosaic) == serialize_write(namespace) \o serialize_write(mosaic)

nem_transaction_create_transfer(ctx, a, recipient, amount, payload, encrypted, mosaics) ==
  LET common == nem_transaction_write_common(ctx, "transfer", IF mosaics > 0 THEN 2 ELSE 1, a)
      head == Serialize(common, serialize_write(Address(recipient)) \o serialize_u64(amount))
      body == Serialize(head,
                IF payload # NoArgument /\ payload.length > 0
                THEN serialize_length(4 + 4 + payload.length) \o serialize_u32(IF encrypted THEN 2 ELSE 1)
                       \o serialize_write(payload)
                ELSE serialize_u32(0))
  IN IF mosaics > 0 THEN Serialize(body, serialize_u32(mosaics)) ELSE body

nem_transaction_write_mosaic(ctx, namespace, mosaic, quantity) ==
  LET identifier_length == 4 + namespace.length + 4 + mosaic.length
  IN Serialize(ctx, serialize_length(4 + 8 + identifier_length) \o serialize_length(identifier_length)
                      \o Identifier(namespace, mosaic) \o serialize_u64(quantity))

nem_transaction_create_multisig(ctx, a, inner) ==
  Serialize(nem_transaction_write_common(ctx, "multisig", 1, a),
            serialize_write(Blob(inner.buffer, offset(inner))))

nem_transaction_create_multisig_signature(ctx, a, inner) ==
  Serialize(nem_transaction_write_common(ctx, "multisig_signature", 1, a),
            serialize_length(4 + SHA3_256_DIGEST_LENGTH)
              \o serialize_write(Blob(<<"keccak", inner.buffer>>, SHA3_256_DIGEST_LENGTH))
              \o serialize_write(Address(<<a.network, inner.key>>)))

nem_transaction_create_provision_namespace(ctx, a, namespace, parent, rental_sink, rental_fee) ==
  Serialize(nem_transaction_write_common(ctx, "provision_namespace", 1, a),
            serialize_write(Address(rental_sink)) \o serialize_u64(rental_fee)
              \o serialize_write(namespace)
              \o IF parent # NoArgument THEN serialize_write(parent) ELSE serialize_u32(-1))

MosaicDefinition(ctx, a, m) ==
  LET identifier_length == 4 + m.namespace.length + 4 + m.mosaic.length
      p0 == Serialize(ctx, serialize_u32(0) \o serialize_write(KeyBlob(Signer(ctx, a)))
                             \o serialize_length(identifier_length) \o Identifier(m.namespace, m.mosaic)
                             \o serialize_write(m.description) \o serialize_u32(4))
      p1 == nem_write_mosaic_u64(p0, Blob("divisibility", 12), m.divisibility)
      p2 == nem_write_mosaic_u64(p1, Blob("initialSupply", 13), m.supply)
      p3 == nem_write_mosaic_bool(p2, Blob("supplyMutable", 13), m.mutable_supply)
  IN nem_write_mosaic_bool(p3, Blob("transferable", 12), m.transferable)

Levy(ctx, levy) ==
  LET levy_identifier_length == 4 + levy.namespace.length + 4 + levy.mosaic.length
  IN Serialize(ctx,
       serialize_length(4 + 4 + NEM_ADDRESS_SIZE + 4 + levy_identifier_length + 8)
         \o serialize_u32(levy.type) \o serialize_write(Address(levy.address))
         \o serialize_length(levy_identifier_length) \o Identifier(levy.namespace, levy.mosaic)
         \o serialize_u64(levy.fee))

\* The length at the place of field at, which was written as 0.
Rewritten(ctx, at) ==
  [ctx EXCEPT !.buffer[at] =
     serialize_length(offset(ctx) - SizeOf(SubSeq(ctx.buffer, 1, at - 1)) - 4)[1]]

nem_transaction_create_mosaic_creation(ctx, a, m, levy, creation_sink, creation_fee) ==
  LET common == nem_transaction_write_common(ctx, "mosaic_creation", 1, a)
      definition == MosaicDefinition(common, a, m)
      all == IF levy # NoArgument THEN Levy(definition, levy) ELSE Serialize(definition, serialize_u32(0))
  IN IF ~all.ok THEN all
     ELSE Serialize(Rewritten(all, Len(common.buffer) + 1),
                    serialize_write(Address(creation_sink)) \o serialize_u64(creation_fee))

nem_transaction_create_mosaic_supply_change(ctx, a, namespace, mosaic, type, delta) ==
  Serialize(nem_transaction_write_common(ctx, "mosaic_supply_change", 1, a),
            serialize_length(4 + namespace.length + 4 + mosaic.length) \o Identifier(namespace, mosaic)
              \o serialize_u32(type) \o serialize_u64(delta))

nem_transaction_create_aggregate_modification(ctx, a, modifications, relative_change) ==
  Serialize(nem_transaction_write_common(ctx, "aggregate_modification",
                                         IF relative_change THEN 2 ELSE 1, a),
            serialize_u32(modifications))

nem_transaction_write_cosignatory_modification(ctx, type, cosignatory) ==
  Serialize(ctx, serialize_length(4 + 4 + PUBLIC_KEY) \o serialize_u32(type)
                   \o serialize_write(KeyBlob(cosignatory)))

nem_transaction_write_minimum_cosignatories(ctx, relative_change) ==
  Serialize(ctx, serialize_u32(4) \o serialize_u32(relative_change))

nem_transaction_create_importance_transfer(ctx, a, mode, remote) ==
  Serialize(nem_transaction_write_common(ctx, "importance_transfer", 1, a),
            serialize_u32(mode) \o serialize_write(KeyBlob(remote)))

\* What is signed, and how long it is.
nem_transaction_end(ctx) == [signed |-> ctx.buffer, signer |-> ctx.key, length |-> offset(ctx)]
=============================================================================
