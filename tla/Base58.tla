------------------------------- MODULE Base58 -------------------------------
(***************************************************************************)
(* base58.c, and the addresses that ecdsa.c and address.c build on it.     *)
(* Bytes are numbers, a text is the sequence of its character codes        *)
(* without the closing NUL.  A buffer of words is DigitBytes bytes to the   *)
(* word: 4 in the code.  Digests are an unknown function.                  *)
(***************************************************************************)
EXTENDS Loops

CONSTANTS
  Digest(_, _),        \* hasher_Raw: hasher, bytes -> 32 bytes
  DigitBytes

ASSUME WordAssumption == DigitBytes \in Nat \ {0}

\* What every codec says to what it does not take.
Refused == [ok |-> FALSE]

WordSize == 256^DigitBytes

Codes(first, last) == [i \in 1..(last - first + 1) |-> first + i - 1]

\* Digits and letters without 0, O, I and l.
b58digits_ordered ==
  Codes(49, 57) \o Codes(65, 72) \o Codes(74, 78) \o Codes(80, 90) \o Codes(97, 107) \o Codes(109, 122)

One == 49

b58digits_map ==
  [c \in 0..127 |-> IF \E d \in 1..58 : b58digits_ordered[d] = c
                    THEN (CHOOSE d \in 1..58 : b58digits_ordered[d] = c) - 1 ELSE -1]

NoBytes == [ok |-> FALSE, v |-> <<>>]
Bytes(v) == [ok |-> TRUE, v |-> v]

\* How many of the first elements are x.
Leading(x, s) ==
  IF \A i \in DOMAIN s : s[i] = x THEN Len(s)
  ELSE (CHOOSE i \in DOMAIN s : s[i] # x /\ \A j \in 1..(i - 1) : s[j] = x) - 1

-----------------------------------------------------------------------------
(* Decoding *)

\* One more digit c: from the last word up.
TimesAndPlus(words, radix, c) ==
  Fold(LAMBDA s, w : [words |-> <<(w * radix + s.carry) % WordSize>> \o s.words,
                      carry |-> (w * radix + s.carry) \div WordSize],
       [words |-> <<>>, carry |-> c], Reverse(words))

Octet(w, k) == (w \div 256^k) % 256

\* The first word has bytesleft bytes of the result, if that is not 0.
Unpacked(outi, bytesleft) ==
  Joined(
    [j \in DOMAIN outi |->
       LET n == IF j = 1 /\ bytesleft > 0 THEN bytesleft ELSE DigitBytes
       IN Evaluated([k \in 1..n |-> Octet(outi[j], n - k)])])

TooBig(next, bytesleft) ==
  \/ next.carry # 0
  \/ bytesleft > 0 /\ Head(next.words) >= 256^bytesleft

IfSmall(next, bytesleft) == [ok |-> ~TooBig(next, bytesleft), words |-> next.words]

Digits58(start, digits, bytesleft) ==
  Fold(LAMBDA s, d :
             IF ~s.ok \/ d = -1 THEN [s EXCEPT !.ok = FALSE]
             ELSE IfSmall(TimesAndPlus(s.words, 58, d), bytesleft),
           [ok |-> TRUE, words |-> start], digits)

\* The bytes are at the end of bin; size of them count.
Aligned(bin, zerocount) ==
  IF zerocount > Leading(0, bin) THEN [ok |-> FALSE, bin |-> bin, size |-> Len(bin)]
  ELSE [ok |-> TRUE, bin |-> bin, size |-> (Len(bin) - Leading(0, bin)) + zerocount]

NoBin(binsz) == [ok |-> FALSE, bin |-> <<>>, size |-> binsz]

InBytes(r, binsz, zerocount) ==
  IF r.ok THEN Aligned(Unpacked(r.words, binsz % DigitBytes), zerocount) ELSE NoBin(binsz)

b58tobin(binsz, b58) ==
  LET zerocount == Leading(One, b58)
      bytesleft == binsz % DigitBytes
  IN IF binsz = 0 THEN NoBin(binsz)
     ELSE InBytes(Digits58([j \in 1..((binsz + DigitBytes - 1) \div DigitBytes) |-> 0],
                           [i \in 1..(Len(b58) - zerocount) |->
                              IF b58[zerocount + i] > 127 THEN -1 ELSE b58digits_map[b58[zerocount + i]]],
                           bytesleft),
                  binsz, zerocount)

CharAt(s, i) == IF i <= Len(s) THEN s[i] ELSE 0

\* The first byte, or less than 0: too short, a wrong sum, zeros that do not
\* agree with the ones of the text.
b58check(bin, hasher, base58str) ==
  LET zeros == Leading(TRUE, [i \in DOMAIN bin |-> bin[i] = 0 /\ CharAt(base58str, i) = One])
  IN IF Len(bin) < 4 THEN -4
     ELSE IF SubSeq(bin, Len(bin) - 3, Len(bin)) # SubSeq(Digest(hasher, SubSeq(bin, 1, Len(bin) - 4)), 1, 4)
     THEN -1
     ELSE IF CharAt(bin, zeros + 1) = 0 \/ CharAt(base58str, zeros + 1) = One THEN -3
     ELSE bin[1]

\* A success returns the number of bytes: none are a failure to every caller.
WithoutSum(nd, hasher, str) ==
  IF b58check(nd, hasher, str) < 0 \/ Len(nd) = 4 THEN NoBytes ELSE Bytes(SubSeq(nd, 1, Len(nd) - 4))

Checked(r, hasher, str) ==
  IF ~r.ok \/ r.size < 4 \/ r.size > Len(r.bin) THEN NoBytes
  ELSE WithoutSum(SubSeq(r.bin, Len(r.bin) - r.size + 1, Len(r.bin)), hasher, str)

base58_decode_check(str, hasher, datalen) ==
  IF datalen < 0 \/ datalen > 128 THEN NoBytes ELSE Checked(b58tobin(datalen + 4, str), hasher, str)

-----------------------------------------------------------------------------
(* Encoding *)

\* A fault: the buffer is sized by an approximation that is too low.
FaultyRoom58(n) == (n * 136) \div 100 + 1
Room58(n) == (n * 138) \div 100 + 1

\* One more byte: digits from the last up to high, and further while there is
\* a carry.  left: what the buffer had no room for.
WithByte(s, byte) ==
  LET Step(t, j) ==
        IF t.done \/ ~(j > s.high \/ t.carry # 0) THEN [t EXCEPT !.done = TRUE]
        ELSE [buf |-> [t.buf EXCEPT ![j] = (t.carry + 256 * @) % 58],
              carry |-> (t.carry + 256 * t.buf[j]) \div 58, at |-> j - 1, done |-> FALSE]
      After(t) == [buf |-> t.buf, high |-> t.at, left |-> s.left + t.carry]
  IN After(Fold(Step, [buf |-> s.buf, carry |-> byte, at |-> Len(s.buf), done |-> FALSE],
                Reverse([j \in DOMAIN s.buf |-> j])))

Packed(bin, size) ==
  Fold(WithByte, [buf |-> [j \in 1..size |-> 0], high |-> size, left |-> 0], bin)

\* Returns the text, what it needs with its NUL, and what did not fit.
WithOnes(b58sz, zcount, digits, left) ==
  LET needs == zcount + Len(digits) + 1
  IN [ok |-> b58sz >= needs, needs |-> needs, left |-> left,
      text |-> IF b58sz < needs THEN <<>>
               ELSE [i \in 1..zcount |-> One] \o [i \in DOMAIN digits |-> b58digits_ordered[digits[i] + 1]]]

InDigits(b58sz, zcount, p) ==
  WithOnes(b58sz, zcount, SubSeq(p.buf, Leading(0, p.buf) + 1, Len(p.buf)), p.left)

b58enc(b58sz, bin) ==
  LET zcount == Leading(0, bin)
  IN InDigits(b58sz, zcount, Packed(SubSeq(bin, zcount + 1, Len(bin)), Room58(Len(bin) - zcount)))

IfOk(e) == IF e.ok THEN Bytes(e.text) ELSE NoBytes

base58_encode_check(data, hasher, strsize) ==
  IF Len(data) > 128 \/ strsize <= 0 THEN NoBytes
  ELSE IfOk(b58enc(strsize, data \o SubSeq(Digest(hasher, data), 1, 4)))

-----------------------------------------------------------------------------
(* Addresses: a version of one to four bytes before a hash.  A version is  *)
(* the sequence of its bytes as a number of 32 bits has them.              *)

address_prefix_bytes_len(version) ==
  IF version[1] # 0 THEN 4 ELSE IF version[2] # 0 THEN 3 ELSE IF version[3] # 0 THEN 2 ELSE 1

address_write_prefix_bytes(version) ==
  SubSeq(version, 5 - address_prefix_bytes_len(version), 4)

address_check_prefix(addr, version) ==
  SubSeq(addr, 1, address_prefix_bytes_len(version)) = address_write_prefix_bytes(version)

\* A key is its tag and the rest of its bytes; the point at infinity is the
\* tag 0 alone.
ecdsa_get_pubkeyhash(pub_key, hasher) ==
  SubSeq(Digest(hasher, SubSeq(pub_key, 1, CASE Head(pub_key) = 4 -> 65
                                              [] Head(pub_key) = 0 -> 1
                                              [] OTHER -> 33)), 1, 20)

ecdsa_get_address_raw(pub_key, version, hasher) ==
  address_write_prefix_bytes(version) \o ecdsa_get_pubkeyhash(pub_key, hasher)

ecdsa_get_address(pub_key, version, hasher, hasher_base58, addrsize) ==
  base58_encode_check(ecdsa_get_address_raw(pub_key, version, hasher), hasher_base58, addrsize)

\* The hash of a script that pushes the key's hash.
ecdsa_get_address_segwit_p2sh_raw(pub_key, version, hasher) ==
  address_write_prefix_bytes(version)
    \o SubSeq(Digest(hasher, <<0, 20>> \o ecdsa_get_pubkeyhash(pub_key, hasher)), 1, 20)

ecdsa_get_address_segwit_p2sh(pub_key, version, hasher, hasher_base58, addrsize) ==
  base58_encode_check(ecdsa_get_address_segwit_p2sh_raw(pub_key, version, hasher), hasher_base58, addrsize)

ecdsa_get_wif(priv_key, version, hasher_base58, wifsize) ==
  base58_encode_check(address_write_prefix_bytes(version) \o priv_key \o <<1>>, hasher_base58, wifsize)

\* 20 bytes behind the version asked for, and no other.
ecdsa_address_decode(addr, version, hasher_base58) ==
  LET prefix_len == address_prefix_bytes_len(version)
      d == base58_decode_check(addr, hasher_base58, 20 + prefix_len)
  IN IF d.ok /\ Len(d.v) = 20 + prefix_len /\ address_check_prefix(d.v, version) THEN d ELSE NoBytes

-----------------------------------------------------------------------------
(* A signature in DER: two integers without needless zeros, with one more  *)
(* where the highest bit would make them negative.                         *)

Minimal(bytes) ==
  LET from == IF Leading(0, bytes) >= Len(bytes) THEN Len(bytes) ELSE Leading(0, bytes) + 1
  IN IF bytes[from] >= 128 THEN <<0>> \o SubSeq(bytes, from, Len(bytes)) ELSE SubSeq(bytes, from, Len(bytes))

ecdsa_sig_to_der(sig) ==
  LET r == Minimal(SubSeq(sig, 1, 32))
      s == Minimal(SubSeq(sig, 33, 64))
  IN <<48, Len(r) + Len(s) + 4, 2, Len(r)>> \o r \o <<2, Len(s)>> \o s
=============================================================================
