-------------------------------- MODULE Codecs --------------------------------
(***************************************************************************)
(* Texts for bytes, as keys, addresses and backups go from one wallet to   *)
(* another: one side writes a text into a buffer of some size, something   *)
(* may happen to it on the way (or a text comes from elsewhere), another   *)
(* side reads it, on the network it expects.                               *)
(***************************************************************************)
EXTENDS Base58, Bech32, Nem, FiniteSets

CONSTANTS
  Codec,                        \* the codecs to run
  ValuesOf,                     \* codec -> what is written
  ForeignOf,                    \* codec -> texts from elsewhere
  SizesOf,                      \* codec -> sizes of buffers for texts
  NetworksOf,                   \* codec -> what a reader expects: a network, or a number of bytes
  Places                        \* where a text is changed

VARIABLES
  codec,
  written,         \* <<what was written>>, or Foreign
  space,         \* the room in the buffer it was written to
  sent,          \* the text as it was written
  held,          \* the text that is on its way
  change,        \* what happened to it
  got            \* what the reader got

codecvars == <<codec, written, space, sent, held, change, got>>

Foreign == <<>>
NoText == [ok |-> FALSE, text |-> <<>>]
TextOf(r) == IF r.ok THEN [ok |-> TRUE, text |-> r.v] ELSE NoText
Nobody == [read |-> FALSE]

-----------------------------------------------------------------------------
(***************************************************************************)
(* bip39.c: words for entropy and back.  A word is its index in the list;  *)
(* a text is a sequence of words, of Strange for what is in no list (a     *)
(* word of more than nine letters is none either), and of Space.           *)
(***************************************************************************)
ListSize == 2048
Strange == ListSize
Space == -1

BIP39_MAX_WORDS == 24
BIP39_MAX_WORD_LENGTH == 9

\* What a buffer for words must have, however many words there will be: room
\* for the longest ones, each with its space or NUL.
HasRoom(buflen) == buflen >= BIP39_MAX_WORDS * (BIP39_MAX_WORD_LENGTH + 1)

(* Words for entropy *)

BitsOf(bytes) ==
  Evaluated([i \in 1..(8 * Len(bytes)) |-> (bytes[(i - 1) \div 8 + 1] \div 2^(7 - ((i - 1) % 8))) % 2])

NumberOf(bits) ==
  LET v[i \in 0..Len(bits)] == IF i = 0 THEN 0 ELSE 2 * v[i - 1] + bits[i] IN v[Len(bits)]

Group(bits, size, k) == NumberOf(SubSeq(bits, (k - 1) * size + 1, k * size))

GroupsOf11(bits, mlen) == Evaluated([k \in 1..mlen |-> Group(bits, 11, k)])

mnemonic_from_data_indexes(data) ==
  IF Len(data) % 4 # 0 \/ Len(data) \notin 16..32 THEN Refused
  ELSE [ok |-> TRUE,
        indexes |-> GroupsOf11(BitsOf(Append(data, Head(Digest("sha256", data)))), (Len(data) * 3) \div 4)]

WithSpaces(words) ==
  Evaluated([i \in 1..(2 * Len(words) - 1) |-> IF i % 2 = 1 THEN words[(i + 1) \div 2] ELSE Space])

InWords(r) == IF r.ok THEN [ok |-> TRUE, text |-> WithSpaces(r.indexes)] ELSE Refused

mnemonic_from_data(data, buflen) ==
  IF ~HasRoom(buflen) THEN Refused ELSE InWords(mnemonic_from_data_indexes(data))

IsStrength(strength) == strength % 32 = 0 /\ strength \in 128..256

\* random: the bytes that came, or <<>> when there were none to be had.  The
\* caller's buffer is then wiped.
mnemonic_generate(strength, random, buflen) ==
  IF ~IsStrength(strength) \/ ~HasRoom(buflen) \/ random = <<>> THEN Refused
  ELSE mnemonic_from_data(SubSeq(random, 1, strength \div 8), buflen)

-----------------------------------------------------------------------------
(* Entropy for words *)

SpacesIn(text) == Len(SelectSeq(text, LAMBDA t : t = Space))

\* What is between the spaces.  One that closes the text is passed over.
ReadWords(text) ==
  LET Take(s, t) == IF t = Space THEN [done |-> Append(s.done, s.word), word |-> <<>>]
                    ELSE [s EXCEPT !.word = Append(@, t)]
      All(s) == IF s.word = <<>> THEN s.done ELSE Append(s.done, s.word)
  IN All(Fold(Take, [done |-> <<>>, word |-> <<>>], text))

KnownWord(word) == Len(word) = 1 /\ word[1] \in 0..(ListSize - 1)

Bits11(k) == [ki \in 1..11 |-> (k \div 2^(11 - ki)) % 2]

BitsOfWords(n, words) ==
  IF (\E i \in DOMAIN words : ~KnownWord(words[i])) \/ Len(words) # n THEN Refused
  ELSE [ok |-> TRUE, words |-> n, bits |-> Joined([i \in DOMAIN words |-> Bits11(words[i][1])])]

mnemonic_to_entropy(text) ==
  LET n == SpacesIn(text) + 1
  IN IF n < 12 \/ n > 24 \/ n % 3 # 0 THEN Refused ELSE BitsOfWords(n, ReadWords(text))

EntropyOf(e) == Evaluated([k \in 1..((e.words * 4) \div 3) |-> Group(e.bits, 8, k)])

\* As many bits of the digest as there are words by three.
ChecksumHolds(e, entropy) ==
  LET size == e.words \div 3
  IN SubSeq(e.bits, 8 * Len(entropy) + 1, 8 * Len(entropy) + size)
       = SubSeq(BitsOf(<<Head(Digest("sha256", entropy))>>), 1, size)

IsMnemonic(e) == e.ok /\ ChecksumHolds(e, EntropyOf(e))

mnemonic_check(text) == IsMnemonic(mnemonic_to_entropy(text))

-----------------------------------------------------------------------------
(* What is written and read *)

bc == <<98, 99>>

\* script.c: the address a script pays to, on the main network.
script_output_to_address(script, addrsize) ==
  LET n == Len(script)
      Is(at, bytes) == n >= at + Len(bytes) - 1 /\ SubSeq(script, at, at + Len(bytes) - 1) = bytes
      p2pkh == n = 25 /\ Is(1, <<118, 169, 20>>) /\ Is(24, <<136, 172>>)
      p2sh == n = 23 /\ Is(1, <<169, 20>>) /\ Is(23, <<135>>)
      raw == IF p2pkh THEN <<0>> \o SubSeq(script, 4, 23) ELSE <<5>> \o SubSeq(script, 3, 22)
      encoded == segwit_addr_encode(bc, 0, SubSeq(script, 3, n))
  IN CASE p2pkh \/ p2sh -> TextOf(base58_encode_check(raw, "sha2d", addrsize))
       [] (n = 22 /\ Is(1, <<0, 20>>)) \/ (n = 34 /\ Is(1, <<0, 32>>)) ->
            IF ~encoded.ok \/ addrsize < Len(encoded.text) + 1 THEN NoText ELSE encoded
       [] OTHER -> NoText

\* One call of a caller who writes a NEM transaction.
Called(ctx, c) ==
  CASE c.call = "transfer" ->
         nem_transaction_create_transfer(ctx, c.a, c.recipient, c.amount, c.payload, c.encrypted, c.mosaics)
    [] c.call = "mosaic" -> nem_transaction_write_mosaic(ctx, c.namespace, c.mosaic, c.quantity)
    [] c.call = "multisig" -> nem_transaction_create_multisig(ctx, c.a, c.inner)
    [] c.call = "multisig_signature" -> nem_transaction_create_multisig_signature(ctx, c.a, c.inner)
    [] c.call = "provision_namespace" ->
         nem_transaction_create_provision_namespace(ctx, c.a, c.namespace, c.parent, c.sink, c.fee)
    [] c.call = "mosaic_creation" ->
         nem_transaction_create_mosaic_creation(ctx, c.a, c.definition, c.levy, c.sink, c.fee)
    [] c.call = "mosaic_supply_change" ->
         nem_transaction_create_mosaic_supply_change(ctx, c.a, c.namespace, c.mosaic, c.type, c.delta)
    [] c.call = "aggregate_modification" ->
         nem_transaction_create_aggregate_modification(ctx, c.a, c.modifications, c.relative)
    [] c.call = "cosignatory" -> nem_transaction_write_cosignatory_modification(ctx, c.type, c.cosignatory)
    [] c.call = "minimum" -> nem_transaction_write_minimum_cosignatories(ctx, c.change)
    [] c.call = "importance_transfer" ->
         nem_transaction_create_importance_transfer(ctx, c.a, c.mode, c.remote)

\* All the calls, on a buffer of n bytes.  A caller stops at one that fails.
NemTransaction(calls, n) ==
  Fold(LAMBDA ctx, c : IF ctx.ok THEN Called(ctx, c) ELSE ctx, nem_transaction_start("key", n), calls)

InText(e) == [ok |-> e.ok, text |-> e.text]

Fits(r) == IF r.ok THEN r ELSE NoText

\* Numbers of three limbs; the reader's number is its list of digits.
N == INSTANCE Bignum WITH Limbs <- 3, LimbBits <- 18

LimbsFrom(digits) ==
  Fold(LAMBDA a, d : N!Carry(d, [j \in N!Limb |-> 10 * a[j]], 2^30).val, N!bn_zero, digits)

NumberText(v, n) ==
  IF Len(v.amount) < 10
  THEN N!bn_format_uint64(FoldLeft(LAMBDA k, d : 10 * k + d, 0, v.amount),
                          v.prefix, v.suffix, v.decimals, v.exponent, v.trailing, n)
  ELSE N!bn_format(LimbsFrom(v.amount), v.prefix, v.suffix, v.decimals, v.exponent, v.trailing, n)

\* How each codec writes v.  Those that take no size need none: their buffers
\* have the size that their headers ask for.
Written(v, n) ==
  CASE codec = "base58" -> InText(b58enc(n, v))
    [] codec = "check" -> TextOf(base58_encode_check(v, "sha2d", n))
    [] codec = "address" -> TextOf(ecdsa_get_address(v.key, v.version, "sha2_ripemd", "sha2d", n))
    [] codec = "p2sh" -> TextOf(ecdsa_get_address_segwit_p2sh(v.key, v.version, "sha2_ripemd", "sha2d", n))
    [] codec = "wif" -> TextOf(ecdsa_get_wif(v.key, v.version, "sha2d", n))
    [] codec = "base32" -> TextOf(base32_encode(v, n))
    [] codec = "nem" -> TextOf(nem_get_address(v.key, v.version))
    [] codec = "bech32" -> Fits(bech32_encode(v.hrp, v.data))
    [] codec = "segwit" -> Fits(segwit_addr_encode(v.hrp, v.witver, v.witprog))
    [] codec = "cash" -> Fits(cash_addr_encode(v.hrp, v.data))
    [] codec = "mnemonic" -> Fits(mnemonic_generate(8 * Len(v), v, n))
    [] codec = "script" -> script_output_to_address(v, n)
    [] codec = "nem_transaction" ->
         LET Signed(ctx) == [ok |-> ctx.ok, text |-> nem_transaction_end(ctx).signed] IN Signed(NemTransaction(v, n))
    [] codec = "der" -> [ok |-> TRUE, text |-> ecdsa_sig_to_der(v)]
    [] codec = "number" -> NumberText(v, n)

Contents(d) == IF d.ok THEN [ok |-> TRUE, v |-> d.v] ELSE Refused

Tail58(d, binsz) == IF d.ok THEN [ok |-> TRUE, v |-> SubSeq(d.bin, binsz - d.size + 1, binsz)] ELSE Refused

EntropyFor(e) == IF IsMnemonic(e) THEN [ok |-> TRUE, v |-> EntropyOf(e)] ELSE Refused

\* How each codec reads the text t on the network that is expected.
Read(t, network) ==
  CASE codec = "base58" -> Tail58(b58tobin(network, t), network)
    [] codec \in {"check", "wif"} -> Contents(base58_decode_check(t, "sha2d", network))
    [] codec \in {"address", "p2sh"} -> Contents(ecdsa_address_decode(t, network, "sha2d"))
    [] codec = "base32" -> Contents(base32_decode(t, network))
    [] codec = "nem" -> [ok |-> nem_validate_address(t, network)]
    [] codec = "bech32" -> bech32_decode(t)
    [] codec = "segwit" -> segwit_addr_decode(network, t)
    [] codec = "cash" -> cash_addr_decode(network, t)
    [] codec = "mnemonic" -> EntropyFor(mnemonic_to_entropy(t))
    [] OTHER -> Refused
-----------------------------------------------------------------------------
Blank ==
  /\ written = Foreign /\ space = 0
  /\ sent = NoText /\ held = NoText
  /\ change = "none"
  /\ got = Nobody

CodecInit == codec \in Codec /\ Blank

Empty == written = Foreign /\ ~held.ok /\ ~got.read

Write(v, n) ==
  /\ Empty
  /\ written' = <<v>> /\ space' = n
  /\ sent' = Written(v, n)
  /\ held' = sent'
  /\ UNCHANGED <<codec, change, got>>

\* A text that no codec of ours wrote.
Arrive(t) ==
  /\ Empty
  /\ held' = [ok |-> TRUE, text |-> t]
  /\ UNCHANGED <<codec, written, space, sent, change, got>>

UpperOf(t) == Evaluated([i \in DOMAIN t |-> IF t[i] \in 97..122 THEN t[i] - 32 ELSE t[i]])
LowerOf(t) == Evaluated([i \in DOMAIN t |-> IF t[i] \in 65..90 THEN t[i] + 32 ELSE t[i]])

\* The other case of one character, or a neighbour of it.
Other(c, how) ==
  CASE how = "case" -> IF c \in 97..122 THEN c - 32 ELSE IF c \in 65..90 THEN c + 32 ELSE c
    [] how = "next" -> c + 1
    [] how = "first" -> Head(held.text)

Changed(t, i, how) ==
  CASE how \in {"case", "next", "first"} -> [t EXCEPT ![i] = Other(@, how)]
    [] how = "dropped" -> RemoveAt(t, i)
    [] how = "doubled" -> InsertAt(t, i, t[i])
    [] how = "swapped" -> [t EXCEPT ![i] = t[(i % Len(t)) + 1], ![(i % Len(t)) + 1] = t[i]]
    [] how = "upper" -> UpperOf(t)

Changes == {"case", "next", "first", "dropped", "doubled", "swapped", "upper"}

OnTheWay(i, how) ==
  /\ held.ok /\ ~got.read /\ change = "none" /\ codec \notin {"nem_transaction", "number"}
  /\ i \in DOMAIN held.text
  /\ how = "upper" => i = 1
  /\ held' = [held EXCEPT !.text = Changed(@, i, how)]
  /\ change' = how
  /\ UNCHANGED <<codec, written, space, sent, got>>

ReadBy(network) ==
  /\ held.ok /\ ~got.read
  /\ got' = [read |-> TRUE, network |-> network, result |-> Read(held.text, network)]
  /\ UNCHANGED <<codec, written, space, sent, held, change>>

\* The next text.
Forget ==
  /\ ~Empty
  /\ written' = Foreign /\ space' = 0 /\ sent' = NoText /\ held' = NoText /\ change' = "none" /\ got' = Nobody
  /\ UNCHANGED codec

CodecNext ==
  \/ \E v \in ValuesOf[codec], n \in SizesOf[codec] : Write(v, n)
  \/ \E t \in ForeignOf[codec] : Arrive(t)
  \/ \E i \in Places, how \in Changes : OnTheWay(i, how)
  \/ \E network \in NetworksOf[codec] : ReadBy(network)
  \/ Forget

CodecSpec == CodecInit /\ [][CodecNext]_codecvars
-----------------------------------------------------------------------------
(* Properties *)

Original == Head(written)

\* What a reader who expects the writer's network must get.
Meant ==
  CASE codec \in {"base58", "check", "base32", "mnemonic"} -> [ok |-> TRUE, v |-> Original]
    [] codec = "address" -> [ok |-> TRUE, v |-> ecdsa_get_address_raw(Original.key, Original.version, "sha2_ripemd")]
    [] codec = "p2sh" -> [ok |-> TRUE,
                          v |-> ecdsa_get_address_segwit_p2sh_raw(Original.key, Original.version, "sha2_ripemd")]
    [] codec = "wif" -> [ok |-> TRUE, v |-> address_write_prefix_bytes(Original.version) \o Original.key \o <<1>>]
    [] codec = "nem" -> [ok |-> TRUE]
    [] codec = "segwit" -> [ok |-> TRUE, witver |-> Original.witver, witdata |-> Original.witprog]
    [] codec = "bech32" -> [ok |-> TRUE, hrp |-> Original.hrp, data |-> Original.data]
    [] codec = "cash" -> [ok |-> TRUE, data |-> Original.data]

Expected(network) ==
  CASE codec = "base58" -> network >= Len(Original) /\ network > 0
    [] codec = "check" -> network >= Len(Original) /\ Original # <<>>
    [] codec = "base32" -> network >= Len(Original)
    [] codec \in {"address", "p2sh", "nem"} -> network = Original.version
    [] codec = "wif" -> network >= Len(Original.key) + 1 + address_prefix_bytes_len(Original.version)
    [] codec \in {"segwit", "cash"} -> network = Original.hrp
    [] OTHER -> TRUE

Readable == codec \notin {"script", "der", "nem_transaction", "number"}

\* What was written is read as it was, by a reader on the same network and
\* with room for it, and by no other.  (An empty content under a checksum is
\* written and not read: the number of its bytes is what a failure returns.)
RoundTrip ==
  got.read /\ written # Foreign /\ change = "none" /\ Readable =>
    IF Expected(got.network) THEN got.result = Meant ELSE ~got.result.ok

\* Case does not count at all for NEM, and has to be one case for the others.
OnlyCase(new, old) ==
  CASE codec = "nem" -> LowerOf(new) = LowerOf(old)
    [] codec \in {"bech32", "segwit", "cash"} -> new = UpperOf(old)
    [] OTHER -> FALSE

\* A text with a checksum that is not the one that was written, but for a case
\* that does not count, is not read, whatever happened to it.
DamageIsSeen ==
  /\ got.read /\ got.result.ok /\ change # "none" /\ written # Foreign
  /\ codec \in {"check", "address", "p2sh", "wif", "nem", "bech32", "segwit", "cash"}
  => /\ held.text = sent.text \/ OnlyCase(held.text, sent.text)
     /\ got.result = Meant

WrittenAgain ==
  CASE codec = "bech32" -> bech32_encode(got.result.hrp, got.result.data).text
    [] codec = "segwit" -> segwit_addr_encode(got.network, got.result.witver, got.result.witdata).text
    [] codec = "cash" -> cash_addr_encode(got.network, got.result.data).text
    [] codec \in {"check", "address", "p2sh", "wif"} -> base58_encode_check(got.result.v, "sha2d", 1000).v
    [] codec = "base58" -> b58enc(1000, got.result.v).text
    [] codec = "mnemonic" -> mnemonic_from_data(got.result.v, 1000).text

\* One text for one content: whatever is read, from anywhere, is written
\* again as it came.  (Base32 has no such promise: bits below the last byte
\* are not looked at.)
ReadIsCanonical ==
  got.read /\ got.result.ok /\ codec \notin {"base32", "nem"} /\ Readable =>
    WrittenAgain = IF codec \in {"bech32", "segwit", "cash"} THEN LowerOf(held.text) ELSE held.text

\* A number as it is written by hand: scaled by the exponent, cut where that
\* takes digits away, with its decimals behind the point and no zeros at the
\* end but the first, if they are not asked for.  When all digits are taken
\* away there is a 0, or nothing at all in front of a suffix.
Scaled(v) ==
  CASE v.amount = <<0>> -> <<0>>
    [] v.exponent >= 0 -> v.amount \o [i \in 1..v.exponent |-> 0]
    [] OTHER -> SubSeq(v.amount, 1, Len(v.amount) + v.exponent)

DecimalText(v) ==
  LET digits == Scaled(v)
      least == IF v.decimals = 0 /\ v.suffix # <<>> THEN 0 ELSE v.decimals + 1
      all == [i \in 1..(least - Len(digits)) |-> 0] \o digits
      fraction == SubSeq(all, Len(all) - v.decimals + 1, Len(all))
      Kept(k) == v.trailing \/ k = 1 \/ \E j \in k..Len(fraction) : fraction[j] # 0
      shown == SelectSeq([k \in DOMAIN fraction |-> k], Kept)
      Texted(s) == [i \in DOMAIN s |-> 48 + s[i]]
  IN Texted(SubSeq(all, 1, Len(all) - v.decimals))
     \o (IF v.decimals = 0 THEN <<>> ELSE <<N!Dot>> \o Texted([k \in DOMAIN shown |-> fraction[k]]))

NumberIsWritten ==
  codec = "number" /\ held.ok => held.text = Original.prefix \o DecimalText(Original) \o Original.suffix

\* The buffers that the headers ask for where a writer is not told the size of
\* its own; two numbers of 33 bytes for DER, which states none.
Documented ==
  CASE codec = "nem" -> NEM_ADDRESS_SIZE + 1
    [] codec = "bech32" -> Len(Original.hrp) + Len(Original.data) + 8
    [] codec = "segwit" -> 73 + Len(Original.hrp)
    [] codec = "cash" -> 114 + Len(Original.hrp)
    [] codec = "der" -> 73

\* The room that a text takes with its NUL.  A number without digits takes room
\* for the 0 all the same.
RoomFor(text) ==
  IF codec = "number" /\ DecimalText(Original) = <<>> THEN Len(text) + 2 ELSE Len(text) + 1

\* A writer of text that is told the size of its buffer writes the text where
\* the buffer holds it, and nothing elsewhere; one of words, where it would hold
\* the longest words there are, which is more than it needs.
SizeIsKept(abundant) ==
  /\ sent.ok => sent = abundant
  /\ sent.ok <=> /\ abundant.ok
                 /\ IF codec = "mnemonic" THEN HasRoom(space) ELSE space >= RoomFor(abundant.text)
  /\ codec = "mnemonic" /\ sent.ok => ((Len(sent.text) + 1) \div 2) * (BIP39_MAX_WORD_LENGTH + 1) <= space

\* What Base58 writes of v: bytes with their checksum behind them, or alone.
Encoded58(bytes) == IF codec = "base58" THEN bytes ELSE bytes \o SubSeq(Digest("sha2d", bytes), 1, 4)

Payload58(v) ==
  CASE codec \in {"base58", "check"} -> v
    [] codec = "address" -> ecdsa_get_address_raw(v.key, v.version, "sha2_ripemd")
    [] codec = "p2sh" -> ecdsa_get_address_segwit_p2sh_raw(v.key, v.version, "sha2_ripemd")
    [] codec = "wif" -> address_write_prefix_bytes(v.version) \o v.key \o <<1>>

\* No text passes the end of its buffer and none is refused for want of room
\* that is there, the buffer of Base58's digits holds every number, and what is
\* read fits the fixed buffers of the readers.
TextsFit ==
  /\ written # Foreign /\ change = "none" /\ ~got.read =>
       /\ CASE codec \in {"nem", "bech32", "segwit", "cash", "der"} -> sent.ok => Len(sent.text) + 1 <= Documented
            [] codec = "nem_transaction" -> TRUE
            [] OTHER -> SizeIsKept(Written(Original, 1000))
       /\ codec \in {"base58", "check", "address", "p2sh", "wif"} =>
            b58enc(space, Encoded58(Payload58(Original))).left = 0
  /\ got.read /\ got.result.ok =>
       CASE codec \in {"base58", "check", "base32", "wif"} -> Len(got.result.v) <= got.network
         [] codec = "segwit" -> Len(got.result.witdata) \in 2..40
         [] codec = "cash" -> Len(got.result.data) \in 2..65
         [] OTHER -> TRUE

\* The integer at place i of a DER text, and where it ends.
Integer(der, i) == SubSeq(der, i + 2, i + 1 + der[i + 1])

IsMinimal(bytes) ==
  /\ bytes # <<>> /\ bytes[1] < 128
  /\ Len(bytes) > 1 /\ bytes[1] = 0 => bytes[2] >= 128

Filled(bytes) == [i \in 1..(33 - Len(bytes)) |-> 0] \o bytes

\* A DER text is two minimal positive integers, and they are r and s.
DerIsSignature ==
  codec = "der" /\ held.ok /\ change = "none" =>
    LET der == held.text
        r == Integer(der, 3)
        s == Integer(der, 5 + Len(r))
    IN /\ der[1] = 48 /\ der[2] = Len(der) - 2 /\ der[3] = 2 /\ der[5 + Len(r)] = 2
       /\ Len(der) = 6 + Len(r) + Len(s)
       /\ IsMinimal(r) /\ IsMinimal(s)
       /\ Filled(r) = <<0>> \o SubSeq(Original, 1, 32) /\ Filled(s) = <<0>> \o SubSeq(Original, 33, 64)

ScriptOf(a, w) ==
  CASE a.ok /\ a.v[1] = 0 -> <<118, 169, 20>> \o Tail(a.v) \o <<136, 172>>
    [] a.ok /\ a.v[1] = 5 -> <<169, 20>> \o Tail(a.v) \o <<135>>
    [] w.ok /\ w.witver = 0 -> <<0, Len(w.witdata)>> \o w.witdata
    [] OTHER -> <<>>

\* The address of a script is read back to the hash the script pays to, with
\* the version of its kind; a script of another shape has no address.
ScriptPaysToAddress ==
  codec = "script" /\ written # Foreign /\ change = "none" /\ held.ok =>
    ScriptOf(base58_decode_check(held.text, "sha2d", 21), segwit_addr_decode(bc, held.text)) = Original

\* The layouts that a NEM node reads: numbers of 4 and 8 bytes, bytes behind
\* their length, and structures behind theirs, once, at most once, or as often
\* as a number before them says.
Common == <<"u32", "u32", "u32", "blob", "u64", "u32">>
IdentifierLayout == <<"blob", "blob">>
MosaicLayout == << <<"sized", IdentifierLayout>>, "u64">>
LevyLayout == <<"u32", "blob", <<"sized", IdentifierLayout>>, "u64">>
DefinitionLayout ==
  <<"blob", <<"sized", IdentifierLayout>>, "blob", <<"many", IdentifierLayout>>, <<"optional", LevyLayout>> >>

Layout(type, edition) ==
  Common \o
  CASE type = "transfer" ->
         <<"blob", "u64", <<"optional", <<"u32", "blob">> >> >> \o
         IF edition = 2 THEN << <<"many", MosaicLayout>> >> ELSE <<>>
    [] type = "multisig" -> <<"transaction">>
    [] type = "multisig_signature" -> << <<"sized", <<"blob">> >>, "blob">>
    [] type = "provision_namespace" -> <<"blob", "u64", "blob", "parent">>
    [] type = "mosaic_creation" -> << <<"sized", DefinitionLayout>>, "blob", "u64">>
    [] type = "mosaic_supply_change" -> << <<"sized", IdentifierLayout>>, "u32", "u64">>
    [] type = "aggregate_modification" ->
         << <<"many", <<"u32", "blob">> >> >> \o IF edition = 2 THEN << <<"sized", <<"u32">> >> >> ELSE <<>>
    [] type = "importance_transfer" -> <<"u32", "blob">>

NemLayout(buffer) == Layout(buffer[1].v, buffer[2].v[2])

\* Where a reader of the layout stands in the end who starts at field at; 0
\* when it is not there.
RECURSIVE After(_, _, _)

AfterSized(layout, buffer, at) ==
  LET end == IF at \in DOMAIN buffer THEN After(layout, buffer, at + 1) ELSE 0
  IN IF end # 0 /\ SizeOf(SubSeq(buffer, at + 1, end - 1)) = buffer[at].v THEN end ELSE 0

After(layout, buffer, at) ==
  LET Item(end, item) ==
        CASE end = 0 \/ end \notin DOMAIN buffer -> 0
          [] item = "u32" -> IF buffer[end].size = 4 THEN end + 1 ELSE 0
          [] item = "u64" -> IF buffer[end].size = 8 THEN end + 1 ELSE 0
          [] item = "blob" \/ (item = "parent" /\ buffer[end].v # -1) ->
               IF end + 1 \in DOMAIN buffer /\ buffer[end].v = buffer[end + 1].size THEN end + 2 ELSE 0
          [] item = "parent" /\ buffer[end].v = -1 -> end + 1
          [] item = "transaction" ->
               LET inner == buffer[end + 1].v
               IN IF /\ buffer[end].v = SizeOf(inner) /\ buffer[end + 1].size = SizeOf(inner)
                     /\ After(NemLayout(inner), inner, 1) = Len(inner) + 1 THEN end + 2 ELSE 0
          [] item[1] = "sized" -> AfterSized(item[2], buffer, end)
          [] item[1] = "optional" -> IF buffer[end].v = 0 THEN end + 1 ELSE AfterSized(item[2], buffer, end)
          [] item[1] = "many" ->
               LET each[k \in 0..buffer[end].v] ==
                     IF k = 0 THEN end + 1 ELSE IF each[k - 1] = 0 THEN 0 ELSE AfterSized(item[2], buffer, each[k - 1])
               IN each[buffer[end].v]
      place[i \in 0..Len(layout)] == IF i = 0 THEN at ELSE Item(place[i - 1], layout[i])
  IN place[Len(layout)]

\* A transaction that was written without a failure is one that a node reads
\* to its last byte: each length says what follows it.
NemTransactionReads ==
  codec = "nem_transaction" /\ written # Foreign /\ held.ok =>
    After(NemLayout(held.text), held.text, 1) = Len(held.text) + 1

\* A buffer is never written past its end; a call fails only where there is no
\* room, and leaves what fits of the transaction, in whole blocks.
IsPartOf(part, all) ==
  /\ SizeOf(part) <= space
  /\ all.ok /\ SizeOf(all.buffer) <= space => sent.ok
  /\ sent.ok => part = all.buffer
  /\ Len(part) <= Len(all.buffer)
  /\ \A i \in DOMAIN part :
       part[i].size = all.buffer[i].size /\ part[i].v # all.buffer[i].v => part[i].v = 0

NemStaysInBuffer ==
  codec = "nem_transaction" /\ written # Foreign => IsPartOf(sent.text, NemTransaction(Original, 100000))

\* What one side writes is what the other side gets: texts on the network
\* they were written for, the r and s of a DER text, the hash a script pays to,
\* every part of a NEM transaction, every digit of a number.
ContentsArrive == RoundTrip /\ DerIsSignature /\ ScriptPaysToAddress /\ NemTransactionReads
                  /\ NumberIsWritten

\* No two texts say the same, and a damaged one says nothing: a reader who
\* compares texts (addresses, backups) compares contents.
OneTextPerContent == DamageIsSeen /\ ReadIsCanonical

\* No writer passes the end of the buffer it was given or that its header asks
\* for.  One that is told the size refuses no buffer that holds the text, but
\* for the two that ask for more than the text takes: words for the longest of
\* all, and a number without digits for one.
NothingOverflows == TextsFit /\ NemStaysInBuffer
=============================================================================
