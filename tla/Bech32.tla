------------------------------- MODULE Bech32 --------------------------------
(***************************************************************************)
(* What segwit_addr.c and cash_addr.c share: the 32 characters, checksums  *)
(* that are remainders of polynomials over symbols of five bits, and the   *)
(* regrouping of bits.  A checksum is the sequence of its symbols.         *)
(***************************************************************************)
EXTENDS Base58

\* qpzry9x8gf2tvdw0s3jn54khce6mua7l
charset == <<113, 112, 122, 114, 121, 57, 120, 56, 103, 102, 50, 116, 118, 100, 119, 48,
             115, 51, 106, 110, 53, 52, 107, 104, 99, 101, 54, 109, 117, 97, 55, 108>>

IsLower(c) == c \in 97..122
IsUpper(c) == c \in 65..90
Lowered(c) == IF IsUpper(c) THEN c + 32 ELSE c

charset_rev ==
  [c \in 0..127 |-> IF \E d \in 1..32 : charset[d] = Lowered(c)
                    THEN (CHOOSE d \in 1..32 : charset[d] = Lowered(c)) - 1 ELSE -1]

Bit(x, k) == (x \div 2^k) % 2

XorOf == [a \in 0..31 |-> [b \in 0..31 |->
            LET D(k) == IF Bit(a, k) = Bit(b, k) THEN 0 ELSE 2^k IN D(0) + D(1) + D(2) + D(3) + D(4)]]

XorSymbols(a, b) == Evaluated([i \in DOMAIN a |-> XorOf[a[i]][b[i]]])

NoSymbols(n) == [i \in 1..n |-> 0]
Unit(n) == [i \in 1..n |-> IF i = n THEN 1 ELSE 0]

\* The sum of the generators that the bits of b ask for.
Mixed(generators) ==
  [b \in 0..31 |->
     Fold(LAMBDA m, k : IF Bit(b, k - 1) = 1 THEN XorSymbols(m, generators[k]) ELSE m,
              NoSymbols(Len(generators[1])), [k \in 1..5 |-> k])]

\* The next symbol v comes in at the end.
Step32(mixed, chk, v) ==
  LET moved == [i \in DOMAIN chk |-> IF i < Len(chk) THEN chk[i + 1] ELSE v]
  IN XorSymbols(moved, mixed[Head(chk)])

Checksum(mixed, start, symbols) ==
  Fold(LAMBDA chk, v : Step32(mixed, chk, v), start, symbols)

\* Groups of inbits as groups of outbits.  Without padding, what is left has
\* to be less than a group and zero.
convert_bits(outbits, in, inbits, pad) ==
  LET Take(s, x) ==
        LET val == s.val * 2^inbits + x
            n == (s.bits + inbits) \div outbits
            bits == (s.bits + inbits) % outbits
        IN [out |-> s.out \o [k \in 1..n |-> (val \div 2^(bits + (n - k) * outbits)) % 2^outbits],
            val |-> val % 2^bits, bits |-> bits]
      Close(r) ==
        IF pad
        THEN [ok |-> TRUE,
              out |-> IF r.bits = 0 THEN r.out ELSE Append(r.out, (r.val * 2^(outbits - r.bits)) % 2^outbits)]
        ELSE [ok |-> r.val = 0 /\ r.bits < inbits, out |-> r.out]
  IN Close(Fold(Take, [out |-> <<>>, val |-> 0, bits |-> 0], in))

\* The length of a text up to its last separator, -1 without one.
BeforeLast(c, text) ==
  IF \A i \in DOMAIN text : text[i] # c THEN -1
  ELSE (CHOOSE i \in DOMAIN text : text[i] = c /\ \A j \in (i + 1)..Len(text) : text[j] # c) - 1

MixedCase(text) == (\E i \in DOMAIN text : IsLower(text[i])) /\ (\E i \in DOMAIN text : IsUpper(text[i]))

Printable(hrp) == \A i \in DOMAIN hrp : hrp[i] \in 33..126

Lower(text) == [i \in DOMAIN text |-> Lowered(text[i])]

Low5(text) == [i \in DOMAIN text |-> text[i] % 32]

Symbols(text) == Evaluated([i \in DOMAIN text |-> IF text[i] > 127 THEN -1 ELSE charset_rev[text[i]]])

Text32(symbols) == Evaluated([i \in DOMAIN symbols |-> charset[symbols[i] + 1]])

-----------------------------------------------------------------------------
(***************************************************************************)
(* segwit_addr.c: Bech32, Bech32m, and the addresses of witness programs;  *)
(* and the addresses of scripts that script.c builds on them.              *)
(***************************************************************************)

bech32_mixed ==
  Mixed(<< <<29, 22, 20, 21, 29, 18>>, <<19, 5, 1, 3, 19, 13>>, <<15, 10, 2, 6, 15, 26>>,
           <<30, 20, 4, 12, 30, 29>>, <<21, 1, 8, 24, 21, 19>> >>)

bech32_polymod_step(pre, v) == Step32(bech32_mixed, pre, v)

bech32_constant  == Unit(6)
bech32m_constant == <<21, 28, 16, 12, 5, 3>>

\* The remainder after a prefix: its high bits, a zero, its low bits.
AfterHrp(hrp) ==
  Checksum(bech32_mixed, Unit(6), [i \in DOMAIN hrp |-> hrp[i] \div 32] \o <<0>> \o Low5(hrp))

Closing(hrp, data, checksum_constant) ==
  XorSymbols(Checksum(bech32_mixed, AfterHrp(hrp), data \o NoSymbols(6)), checksum_constant)

bech32_encode_with_checksum(hrp, data, checksum_constant) ==
  IF \/ ~Printable(hrp) \/ (\E i \in DOMAIN hrp : IsUpper(hrp[i]))
     \/ Len(hrp) + 7 + Len(data) > 90
     \/ (\E i \in DOMAIN data : data[i] > 31)
  THEN Refused
  ELSE [ok |-> TRUE,
        text |-> hrp \o <<49>> \o Text32(data \o Closing(hrp, data, checksum_constant))]

bech32_encode(hrp, data) == bech32_encode_with_checksum(hrp, data, bech32_constant)

NoResidue(input) == [hrp |-> <<>>, data |-> <<>>, chk |-> NoSymbols(6)]

Residue(input, hrp_len) ==
  LET hrp == Lower(SubSeq(input, 1, hrp_len))
      symbols == Symbols(SubSeq(input, hrp_len + 2, Len(input)))
  IN IF ~Printable(hrp) \/ (\E i \in DOMAIN symbols : symbols[i] = -1) \/ MixedCase(input)
     THEN NoResidue(input)
     ELSE [hrp |-> hrp, data |-> SubSeq(symbols, 1, Len(symbols) - 6),
           chk |-> Checksum(bech32_mixed, AfterHrp(hrp), symbols)]

bech32_decode_checksum(input) ==
  LET hrp_len == BeforeLast(49, input)
  IN IF \/ Len(input) < 8 \/ Len(input) > 90
        \/ hrp_len < 1 \/ Len(input) - (1 + hrp_len) < 6
     THEN NoResidue(input) ELSE Residue(input, hrp_len)

OfBech32(d) == IF d.chk = bech32_constant THEN [ok |-> TRUE, hrp |-> d.hrp, data |-> d.data] ELSE Refused

bech32_decode(input) == OfBech32(bech32_decode_checksum(input))

ConstantOf(witver) == IF witver = 0 THEN bech32_constant ELSE bech32m_constant

segwit_addr_encode(hrp, witver, witprog) ==
  IF \/ witver < 0 \/ witver > 16
     \/ witver = 0 /\ Len(witprog) \notin {20, 32}
     \/ Len(witprog) \notin 2..40
  THEN Refused
  ELSE bech32_encode_with_checksum(hrp, <<witver>> \o convert_bits(5, witprog, 8, TRUE).out,
                                   ConstantOf(witver))

OfLength(witver, w) ==
  IF ~w.ok \/ Len(w.out) \notin 2..40 \/ (witver = 0 /\ Len(w.out) \notin {20, 32}) THEN Refused
  ELSE [ok |-> TRUE, witver |-> witver, witdata |-> w.out]

\* A fault: every version is taken with either constant.
FaultyProgram(chk, data) ==
  OfLength(Head(data), convert_bits(8, Tail(data), 5, FALSE))

Program(chk, data) ==
  IF chk # ConstantOf(Head(data)) THEN Refused
  ELSE OfLength(Head(data), convert_bits(8, Tail(data), 5, FALSE))

OnNetwork(hrp, d) ==
  IF \/ d.chk \notin {bech32_constant, bech32m_constant}
     \/ Len(d.data) = 0 \/ Len(d.data) > 65
     \/ hrp # d.hrp \/ Head(d.data) > 16
  THEN Refused ELSE Program(d.chk, d.data)

segwit_addr_decode(hrp, addr) == OnNetwork(hrp, bech32_decode_checksum(addr))

-----------------------------------------------------------------------------
(***************************************************************************)
(* cash_addr.c: the same characters with a checksum of eight symbols, and  *)
(* a colon between the parts.                                              *)
(***************************************************************************)

MAX_CASHADDR_SIZE == 129
MAX_BASE32_SIZE == 104
MAX_DATA_SIZE == 65
MAX_HRP_SIZE == 20
CHECKSUM_SIZE == 8

cashaddr_mixed ==
  Mixed(<< <<19, 3, 25, 11, 25, 3, 19, 1>>, <<15, 6, 27, 22, 27, 6, 15, 2>>,
           <<30, 12, 31, 5, 31, 12, 30, 4>>, <<21, 24, 23, 10, 23, 24, 21, 8>>,
           <<3, 25, 7, 20, 7, 25, 3, 16>> >>)

cashaddr_polymod_step(pre, v) == Step32(cashaddr_mixed, pre, v)

\* Only the low bits of the prefix count: its case does not.
Remainder(hrp, symbols) == Checksum(cashaddr_mixed, Unit(CHECKSUM_SIZE), Low5(hrp) \o <<0>> \o symbols)

cash_encode(hrp, data) ==
  IF \/ ~Printable(hrp)
     \/ Len(hrp) + 1 + Len(data) + CHECKSUM_SIZE > MAX_CASHADDR_SIZE
     \/ (\E i \in DOMAIN data : data[i] > 31)
  THEN Refused
  ELSE [ok |-> TRUE,
        text |-> hrp \o <<58>> \o
                 Text32(data \o XorSymbols(Remainder(hrp, data \o NoSymbols(CHECKSUM_SIZE)),
                                           Unit(CHECKSUM_SIZE)))]

PartsOf(input, hrp, symbols) ==
  IF \/ ~Printable(hrp) \/ (\E i \in DOMAIN symbols : symbols[i] = -1) \/ MixedCase(input)
     \/ Remainder(hrp, symbols) # Unit(CHECKSUM_SIZE)
  THEN Refused
  ELSE [ok |-> TRUE, hrp |-> hrp, data |-> SubSeq(symbols, 1, Len(symbols) - CHECKSUM_SIZE)]

Parts(input, hrp_len) ==
  PartsOf(input, Lower(SubSeq(input, 1, hrp_len)), Symbols(SubSeq(input, hrp_len + 2, Len(input))))

\* A fault: the checksum's symbols are handed out with the data.
FaultyDecode(input) ==
  LET hrp_len == BeforeLast(58, input)
      d == Parts(input, hrp_len)
  IN IF \/ Len(input) < CHECKSUM_SIZE \/ Len(input) > MAX_CASHADDR_SIZE
        \/ hrp_len < 1 \/ hrp_len > MAX_HRP_SIZE
     THEN Refused
     ELSE IF ~d.ok THEN Refused
     ELSE [d EXCEPT !.data = Symbols(SubSeq(input, hrp_len + 2, Len(input)))]

\* Without a colon the length of the prefix wraps around and is refused.
cash_decode(input) ==
  LET hrp_len == BeforeLast(58, input)
      data_len == Len(input) - (1 + hrp_len)
  IN IF \/ Len(input) < CHECKSUM_SIZE \/ Len(input) > MAX_CASHADDR_SIZE
        \/ hrp_len < 1 \/ hrp_len > MAX_HRP_SIZE
        \/ data_len < CHECKSUM_SIZE \/ data_len > CHECKSUM_SIZE + MAX_BASE32_SIZE
     THEN Refused ELSE Parts(input, hrp_len)

cash_addr_encode(hrp, data) ==
  IF Len(data) \notin 2..MAX_DATA_SIZE THEN Refused
  ELSE cash_encode(hrp, convert_bits(5, data, 8, TRUE).out)

OfSize(w) == IF ~w.ok \/ Len(w.out) \notin 2..MAX_DATA_SIZE THEN Refused ELSE [ok |-> TRUE, data |-> w.out]

Payload(hrp, d) ==
  IF ~d.ok \/ hrp # d.hrp \/ Len(d.data) = 0 \/ Len(d.data) > MAX_BASE32_SIZE THEN Refused
  ELSE OfSize(convert_bits(8, d.data, 5, FALSE))

cash_addr_decode(hrp, addr) == Payload(hrp, cash_decode(addr))
=============================================================================
