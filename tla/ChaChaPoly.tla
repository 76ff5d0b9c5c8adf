----------------------------- MODULE ChaChaPoly -----------------------------
(***************************************************************************)
(* chacha20poly1305: the ChaCha20 stream (chacha_merged.c), Poly1305 fed   *)
(* in pieces (poly1305-donna.c), and the constructions of RFC 7539 and of  *)
(* XChaCha20-Poly1305 on top of them.  The 20 rounds and the arithmetic of *)
(* the MAC are unknown functions of their inputs.                          *)
(*                                                                         *)
(* A byte is the set of the tokens that were XORed into it.                *)
(***************************************************************************)
EXTENDS Integers, Sequences, SequencesExt, Folds, FiniteSetsExt

CONSTANTS
  StreamBlock,         \* bytes of a ChaCha20 block
  MacBlock,            \* bytes of a Poly1305 block
  BlockMod             \* a word of the block counter is a number modulo this

Text(i) == {<<"m", i>>}
Data(i) == {<<"a", i>>}          \* authenticated, not encrypted
ZeroByte == {}
NoBytes(n) == [i \in 1..n |-> ZeroByte]

XorBytes(a, b) == [i \in DOMAIN a |-> SymDiff(a[i], b[i])]

Cut(d, size) == [k \in 1..(Len(d) \div size) |-> SubSeq(d, (k - 1) * size + 1, k * size)]

-----------------------------------------------------------------------------
(* ChaCha20: words 12 and 13 count the blocks, low word first *)

ECRYPT_keysetup(key) == [key |-> key, count |-> <<0, 0>>, nonce |-> <<>>]

\* In the RFC's layout the high word of the counter is the nonce's first.
ECRYPT_ivsetup(x, nonce) == [x EXCEPT !.count = <<0, 0>>, !.nonce = nonce]

Block20(x) == [i \in 1..StreamBlock |-> {<<"ks", x.key, x.nonce, x.count, i>>}]

\* Every started block takes a number of the counter, also the last short one.
ECRYPT_encrypt_bytes(x, m) ==
  LET blocks == (Len(m) + StreamBlock - 1) \div StreamBlock
      Step(s, k) ==
        LET p == SubSeq(m, (k - 1) * StreamBlock + 1, Min({k * StreamBlock, Len(m)}))
            low == (s.x.count[1] + 1) % BlockMod
            high == IF low = 0 THEN (s.x.count[2] + 1) % BlockMod ELSE s.x.count[2]
        IN [x |-> [s.x EXCEPT !.count = <<low, high>>],
            c |-> s.c \o XorBytes(p, Block20(s.x))]
  IN FoldLeft(Step, [x |-> x, c |-> <<>>], [k \in 1..blocks |-> k])

\* The state after the rounds without the final addition: another function.
hchacha20(key, nonce) == <<"h", key, nonce>>

-----------------------------------------------------------------------------
(* Poly1305 *)

poly1305_init(key) == [key |-> key, h |-> <<>>, leftover |-> 0, buffer |-> NoBytes(MacBlock)]

\* A whole block counts with a bit above its last one, the closing one not.
poly1305_blocks(st, blocks, final) ==
  [st EXCEPT !.h = @ \o [k \in DOMAIN blocks |-> [text |-> blocks[k], hibit |-> ~final]]]

Set(buf, at, d) ==
  [i \in DOMAIN buf |-> IF i \in (at + 1)..(at + Len(d)) THEN d[i - at] ELSE buf[i]]

poly1305_update(st, m) ==
  LET want == IF st.leftover = 0 THEN 0 ELSE Min({MacBlock - st.leftover, Len(m)})
      head == [st EXCEPT !.buffer = Set(@, st.leftover, SubSeq(m, 1, want)), !.leftover = @ + want]
      full == st.leftover > 0 /\ head.leftover = MacBlock
      next == IF full THEN [poly1305_blocks(head, <<head.buffer>>, FALSE) EXCEPT !.leftover = 0]
              ELSE head
      rest == SubSeq(m, want + 1, Len(m))
      whole == Cut(rest, MacBlock)
      left == SubSeq(rest, Len(whole) * MacBlock + 1, Len(rest))
      done == poly1305_blocks(next, whole, FALSE)
  IN IF st.leftover > 0 /\ ~full THEN head
     ELSE [done EXCEPT !.buffer = Set(@, done.leftover, left), !.leftover = @ + Len(left)]

\* What is left is closed with a 1 and zeros.
poly1305_finish(st) ==
  LET closed == Set(Set(st.buffer, st.leftover, <<{"1"}>>),
                    st.leftover + 1, NoBytes(MacBlock - st.leftover - 1))
      done == IF st.leftover > 0 THEN poly1305_blocks(st, <<closed>>, TRUE) ELSE st
  IN [key |-> done.key, h |-> done.h]

poly1305_auth(key, m) == poly1305_finish(poly1305_update(poly1305_init(key), m))

-----------------------------------------------------------------------------
(* The constructions *)

\* The first block of the stream is spent on the key of the MAC.
WithMacKey(x) ==
  LET block0 == ECRYPT_encrypt_bytes(x, NoBytes(StreamBlock))
  IN [chacha |-> block0.x, poly |-> poly1305_init(SubSeq(block0.c, 1, 2 * MacBlock))]

rfc7539_init(key, nonce) == WithMacKey(ECRYPT_ivsetup(ECRYPT_keysetup(key), nonce))

xchacha20poly1305_init(key, nonce) ==
  WithMacKey(ECRYPT_ivsetup(ECRYPT_keysetup(hchacha20(key, Head(nonce))), Tail(nonce)))

MacUpdate(c, d) == [c EXCEPT !.poly = poly1305_update(@, d)]

\* Returns the context and the bytes that went out.
chacha20poly1305_encrypt(c, in) ==
  LET e == ECRYPT_encrypt_bytes(c.chacha, in)
  IN [ctx |-> MacUpdate([c EXCEPT !.chacha = e.x], e.c), out |-> e.c]

chacha20poly1305_decrypt(c, in) ==
  LET e == ECRYPT_encrypt_bytes(c.chacha, in)
  IN [ctx |-> [MacUpdate(c, in) EXCEPT !.chacha = e.x], out |-> e.c]

chacha20poly1305_auth(c, in) == MacUpdate(c, in)
chacha20poly1305_finish(c) == poly1305_finish(c.poly)

PadTo(n) == NoBytes((MacBlock - (n % MacBlock)) % MacBlock)

rfc7539_auth(c, in) ==
  LET fed == MacUpdate(c, in)
  IN IF Len(in) % MacBlock = 0 THEN fed ELSE MacUpdate(fed, PadTo(Len(in)))

Lengths(alen, plen) == [i \in 1..MacBlock |-> {<<"len", alen, plen, i>>}]

rfc7539_finish(c, alen, plen) ==
  LET padded == IF plen % MacBlock = 0 THEN c ELSE MacUpdate(c, PadTo(plen))
  IN poly1305_finish(MacUpdate(padded, Lengths(alen, plen)).poly)

-----------------------------------------------------------------------------
(* What the RFC says, of the whole text at once *)

StandardMac(key, m) ==
  LET whole == Cut(m, MacBlock)
      left == SubSeq(m, Len(whole) * MacBlock + 1, Len(m))
      last == left \o <<{"1"}>> \o NoBytes(MacBlock - Len(left) - 1)
  IN [key |-> key,
      h |-> [k \in DOMAIN whole |-> [text |-> whole[k], hibit |-> TRUE]]
            \o (IF left = <<>> THEN <<>> ELSE <<[text |-> last, hibit |-> FALSE]>>)]

\* Byte i of the text meets the stream after its first block.
StandardStream(key, nonce, n) ==
  [i \in 1..n |->
     LET b == (i - 1) \div StreamBlock + 1
     IN {<<"ks", key, nonce, <<b % BlockMod, b \div BlockMod>>, ((i - 1) % StreamBlock) + 1>>}]

StandardMacKey(key, nonce) ==
  [i \in 1..(2 * MacBlock) |-> {<<"ks", key, nonce, <<0, 0>>, i>>}]
=============================================================================
