----------------------------- MODULE HashBlocks -----------------------------
(***************************************************************************)
(* What the block hashes of trezor-crypto have in common: bytes, words,    *)
(* buffers and chained states.  A byte is a token that says where it comes *)
(* from, so two buffers are equal only when every byte is in its place;    *)
(* the arithmetic of the compression functions is left out, and a state is *)
(* the record of what was compressed into it, in order.                    *)
(*                                                                         *)
(* The sizes are parameters.  The hashes have 16 words to a block, the     *)
(* last two for the length; a small block keeps every boundary: the byte   *)
(* before the length field, the length field, the end of the block.        *)
(***************************************************************************)
EXTENDS Integers, Sequences, SequencesExt, Folds

CONSTANTS
  W,           \* bytes to a word
  NW,          \* words to a block
  DW           \* words of a state that become the digest

ASSUME SizesAssumption ==
  /\ W \in Nat \ {0}
  /\ NW \in Nat /\ NW > 3
  /\ DW \in 1..(NW - 3)

B == W * NW                 \* the block length in bytes
ShortBlock == B - 2 * W     \* what is left of it before the length field

-----------------------------------------------------------------------------
(* Bytes *)

Msg(i)  == <<"m", i>>       \* byte i of the message
Key(i)  == <<"k", i>>       \* byte i of a key or a password
Salt(i) == <<"s", i>>
Bits(S) == <<"b", S>>       \* the byte that is the OR of the constants in S
Zero    == Bits({})

\* x ^= c: an exclusive or with the same constant twice is undone.
Xor(c, x) ==
  IF x[1] = "x"
  THEN LET S == SymDiff(x[2], {c})
       IN IF S = {} THEN x[3] ELSE <<"x", S, x[3]>>
  ELSE <<"x", {c}, x>>

XorAll(c, s) == [i \in DOMAIN s |-> Xor(c, s[i])]

Zeros(n) == [i \in 1..n |-> Zero]

\* The bytes of a word that holds the number v, most significant first.
WordBytes(v) == [j \in 1..W |-> IF v = 0 THEN Zero ELSE <<"n", v, j>>]

-----------------------------------------------------------------------------
(* Buffers *)

\* memcpy(buf + at, d, Len(d))
Overlay(buf, at, d) ==
  [i \in DOMAIN buf |-> IF i \in (at + 1)..(at + Len(d)) THEN d[i - at] ELSE buf[i]]

Block(d, k) == SubSeq(d, (k - 1) * B + 1, k * B)

Blocks(d) == [k \in 1..(Len(d) \div B) |-> Block(d, k)]

Word(d, k) == SubSeq(d, (k - 1) * W + 1, k * W)

\* Every word of d with its bytes the other way round: a load or a store of
\* a little-endian machine, and REVERSE32 or REVERSE64 of a whole buffer.
SwapWords(d) ==
  [i \in DOMAIN d |-> d[W * ((i - 1) \div W) + (W - ((i - 1) % W))]]

-----------------------------------------------------------------------------
(* States *)

State(iv) == [iv |-> iv, blocks |-> <<>>]

\* One call of a compression function; what goes in decides what comes out.
Compress(st, in) == [st EXCEPT !.blocks = Append(@, in)]

CompressAll(st, ins) == [st EXCEPT !.blocks = @ \o ins]

\* Byte j, most significant first, of word k of a state.
StateBytes(st, n) ==
  [i \in 1..(n * W) |-> <<"h", st, ((i - 1) \div W) + 1, ((i - 1) % W) + 1>>]
=============================================================================
