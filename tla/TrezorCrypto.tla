----------------------------- MODULE TrezorCrypto -----------------------------
(***************************************************************************)
(* The interfaces of the vendored library that keep state of their own,    *)
(* side by side: streams of bytes, texts for bytes, trees of keys, and the *)
(* sessions of ed25519.  None of them shares state with another, nor does  *)
(* one caller's work with another's, so a behaviour is one of one desk.    *)
(***************************************************************************)
EXTENDS Streams, Codecs, Derivation, EdSessions

VARIABLE desk

Unused == [api |-> "none", n |-> 0]

StreamsRest == use = Unused /\ context = <<>> /\ soFar = 0 /\ output = <<>> /\ finished = FALSE
CodecsRest  == codec = "none" /\ Blank
DeriveRest  ==
  /\ family = "none" /\ seedOf = 0 /\ keeper = NoNode /\ route = <<>>
  /\ watcher = NoNode /\ watched = <<>> /\ retained = FALSE /\ answer = Nothing

CryptoInit ==
  \/ desk = "streams"    /\ StreamInit  /\ CodecsRest /\ DeriveRest /\ EdInit
  \/ desk = "codecs"     /\ StreamsRest /\ CodecInit  /\ DeriveRest /\ EdInit
  \/ desk = "derivation" /\ StreamsRest /\ CodecsRest /\ DeriveInit /\ EdInit
  \/ desk = "ed25519"    /\ StreamsRest /\ CodecsRest /\ DeriveRest /\ EdInit

CryptoNext ==
  /\ UNCHANGED desk
  /\ \/ desk = "streams"    /\ StreamNext /\ UNCHANGED <<codecvars, derivevars, edvars>>
     \/ desk = "codecs"     /\ CodecNext  /\ UNCHANGED <<streamvars, derivevars, edvars>>
     \/ desk = "derivation" /\ DeriveNext /\ UNCHANGED <<streamvars, codecvars, edvars>>
     \/ desk = "ed25519"    /\ EdNext     /\ UNCHANGED <<streamvars, codecvars, derivevars>>

CryptoSpec == CryptoInit /\ [][CryptoNext]_<<desk, streamvars, codecvars, derivevars, edvars>>
=============================================================================
